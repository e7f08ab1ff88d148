------------------------------- MODULE MCDial --------------------------------
(* Two dials of a batch through one jump host; one dial, directly or through the jump *)
(* host, whose client is followed to its end; and one dial after edits of its options. *)
EXTENDS Dial

CONSTANTS d1, d2

To(host, mode, name, onward) == [host |-> host, mode |-> mode, user |-> name, override |-> onward]
Jump == <<To("j", "proxyjump", "", "")>>
JumpAs == <<To("j", "proxyjump", "@op", "")>>
ShellHop == <<To("j", "shell-hop", "", "@op")>>
Wrong == <<To("j", "shell-hop", "", ""), To("j", "other", "", "")>>
Odd == <<To("j", "other", "", "")>>
Options(hops) == [chain |-> hops, key |-> Inherit]

MCAlts == "@op" :> [user |-> "operator", key |-> "opkey"]
MCKnown == {<<"a", "k">>}
MCScenes == <<
    [dials |-> {d1, d2}, followed |-> {}, options |-> {<<Options(Jump)>>}, users |-> {"u"},
     hops |-> {}, files |-> {}, edits |-> 0, keys |-> {"k"}],
    [dials |-> {d1}, followed |-> {d1}, users |-> {"u"},
     options |-> {<<Options(c)>> : c \in {Inherit, Jump, ShellHop, Wrong, Odd}},
     hops |-> {}, files |-> {}, edits |-> 0, keys |-> {"k"}],
    [dials |-> {d1}, followed |-> {}, users |-> {"", "@op"},
     options |-> {<<Options(JumpAs), Options(Inherit)>>},
     hops |-> {<<>>, ShellHop}, files |-> {Inherit, "own"}, edits |-> 2, keys |-> {"k", "x"}] >>
=============================================================================
