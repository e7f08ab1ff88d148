-------------------------------- MODULE Dial --------------------------------
(***************************************************************************)
(* The dials of one batch (sshx/dial.go Dial, auth.go, hostkey.go) and the *)
(* prompts they share (app/connect.go), up to the Close of what they have  *)
(* connected (Client).                                                     *)
(*                                                                         *)
(* A leg is one SSH connection of a chain: a jump host or the target.  The *)
(* handshake checks the host key and then tries key files, password and    *)
(* keyboard-interactive in turn.  What the user types is right or wrong.   *)
(***************************************************************************)
EXTENDS Client, Targets, FiniteSets

CONSTANTS
    Known,     \* <<host, key>> pairs in known_hosts at first
    Host,      \* the host of the session
    Scenes     \* a sequence of batches: the dials made; the users and options their session
               \* may have, with the edits that may come before; the keys hosts may offer;
               \* and the clients whose life is followed when they are connected

Dials == Clients

\* What is asked for, and the reply.
Prompts == [what : {"hostkey", "phrase", "password", "kbi"},
            reply : {None, "yes", "no", "right", "right!", "wrong", "wrong!", "cancel"}]

ASSUME DialAssumption ==
    /\ None \notin Prompts
    /\ \A i \in DOMAIN Scenes : LET s == Scenes[i] IN
          /\ s.dials \subseteq Clients
          /\ \A levels \in s.options : levels \in Seq(Option) /\ levels # <<>>
          /\ \A hops \in s.hops : hops \in Seq(Hop)
          /\ s.files \subseteq {Inherit} \union Files

VARIABLES
    scene,     \* which of the Scenes it is
    pc,        \* where each dial is
    chain,     \* its legs
    leg,       \* the leg it is at
    offered,   \* the key the leg's host offers
    snap,      \* tofu.inner: the entries of known_hosts it goes by
    late,      \* the handshake's timer has closed the leg's connection
    ask,       \* its entry in a.prompts: what is asked, and the reply in the channel
    file,      \* known_hosts: a set of <<host, key>>
    lock,      \* promptBridge.mu: the dial that holds it, or None
    shared,    \* the password for all, or None
    phrase,    \* the passphrase kept for the key file, or None
    quit,      \* a.ctx is done
    accepted   \* auxiliary: entries the user has accepted

batch == <<scene, chain, file, lock, shared, phrase, quit, accepted>>
dialVars == <<pc, leg, offered, snap, late, ask, batch>>
vars == <<dialVars, clientVars, targetVars>>

Scene == Scenes[scene]
Here(d) == chain[d][leg[d]]
Entry(d) == <<Here(d).host, offered[d]>>
Goes(d, label) == pc' = [pc EXCEPT ![d] = label]

\* Mutant: the legs of a failed dial are left open.
FailOpen(d) == Goes(d, "failed") /\ UNCHANGED legs

\* fail: the legs opened so far are closed.
Fail(d) == Goes(d, "failed") /\ legs' = [legs EXCEPT ![d] = {}]

\* What a step of a handshake leaves alone, but for the legs and the prompts.
Rest == UNCHANGED <<scene, chain, snap, late, leg, offered, file, quit, accepted,
                    link, ka, stop, lis, conn, cut, caller>>
NoPrompt == UNCHANGED <<ask, lock, shared, phrase>>

-----------------------------------------------------------------------------
(* The chain.                                                              *)

\* targetFor has resolved the chain; newTOFU reads known_hosts.
Begin(d) ==
    /\ pc[d] = "idle"
    /\ d \in Scene.dials
    /\ chain' = [chain EXCEPT ![d] = LegsTo(Host)]
    /\ snap' = [snap EXCEPT ![d] = file]
    /\ leg' = [leg EXCEPT ![d] = 1]
    /\ Goes(d, "tcp")
    /\ UNCHANGED <<offered, late, ask, scene, file, lock, shared, phrase, quit,
                   accepted, clientVars, targetVars>>

\* The TCP connection of a leg, directly or through the leg before; its timer starts.
Reaches(d) ==
    /\ pc[d] = "tcp"
    /\ Here(d).mode # "other"
    /\ legs' = [legs EXCEPT ![d] = @ \union {leg[d]}]
    /\ late' = [late EXCEPT ![d] = FALSE]
    /\ \E key \in Scene.keys : offered' = [offered EXCEPT ![d] = key]
    /\ Goes(d, "hostkey")
    /\ UNCHANGED <<leg, snap, ask, batch, link, ka, stop, lis, conn, cut, caller>>

\* A hop of an unknown mode, or no connection.
ReachesNot(d) == pc[d] = "tcp" /\ Fail(d) /\ Rest /\ NoPrompt

InHandshake == {"hostkey", "confirm", "append", "reload", "keys", "phrase", "phrasing",
                "password", "typing", "kbi", "asking"}

TimerFires(d) ==
    /\ pc[d] \in InHandshake
    /\ ~late[d]
    /\ late' = [late EXCEPT ![d] = TRUE]
    /\ UNCHANGED <<pc, leg, offered, snap, ask, batch, clientVars>>

\* The leg stands: the next one, or the client.
LegDone(d) ==
    \/ /\ Here(d).mode = "proxyjump"
       /\ leg' = [leg EXCEPT ![d] = @ + 1]
       /\ Goes(d, "tcp")
       /\ UNCHANGED clientVars
    \/ /\ Here(d).mode = "target"
       /\ Connects(d, TRUE)
       /\ Goes(d, "up")
       /\ UNCHANGED leg
    \/ /\ Here(d).mode = "shell-hop"
       /\ \/ leg[d] = Len(chain[d]) - 1 /\ Connects(d, FALSE) /\ Goes(d, "up")
          \/ Fail(d) /\ UNCHANGED <<link, ka, stop, lis, conn, cut, caller>>
       /\ UNCHANGED leg

-----------------------------------------------------------------------------
(* The host key (tofu.check).                                              *)

AsksUser(d, what) == ask' = [ask EXCEPT ![d] = [what |-> what, reply |-> None]]

\* Mutant: the entry stays when its prompt is over.
AskedStill(d) == UNCHANGED ask

Asked(d) == ask' = [ask EXCEPT ![d] = None]

\* A known key passes, another key of a known host fails without a prompt, and an
\* unknown host is asked about.
HostKey(d) ==
    /\ pc[d] = "hostkey"
    /\ IF Entry(d) \in snap[d]
       THEN Goes(d, "keys") /\ UNCHANGED <<legs, ask>>
       ELSE IF \E e \in snap[d] : e[1] = Here(d).host
       THEN Fail(d) /\ UNCHANGED ask
       ELSE Goes(d, "confirm") /\ AsksUser(d, "hostkey") /\ UNCHANGED legs
    /\ Rest
    /\ UNCHANGED <<lock, shared, phrase>>

\* Mutant: any answer but an explicit no will do.
IsNotNo(reply) == reply # "no"

IsYes(reply) == reply = "yes"

\* The reply to a prompt, or the end of the program.
Answer(d) == IF ask[d].reply # None THEN ask[d].reply ELSE "cancel"
Replied(d) == ask[d] # None /\ (ask[d].reply # None \/ quit)

Confirmed(d) ==
    /\ pc[d] = "confirm"
    /\ Replied(d)
    /\ Asked(d)
    /\ IF IsYes(Answer(d)) THEN Goes(d, "append") /\ UNCHANGED legs ELSE Fail(d)
    /\ accepted' = IF Answer(d) = "yes" THEN accepted \union {Entry(d)} ELSE accepted
    /\ UNCHANGED <<scene, chain, snap, late, leg, offered, file, quit, lock, shared, phrase,
                   link, ka, stop, lis, conn, cut, caller>>

\* appendKey.
Appends(d) ==
    /\ pc[d] = "append"
    /\ \/ file' = file \union {Entry(d)} /\ Goes(d, "reload") /\ UNCHANGED legs
       \/ Fail(d) /\ UNCHANGED file
    /\ UNCHANGED <<scene, chain, snap, late, leg, offered, quit, accepted, ask, lock, shared, phrase,
                   link, ka, stop, lis, conn, cut, caller>>

\* Later legs of the chain go by what the file holds now.
Reloads(d) ==
    /\ pc[d] = "reload"
    /\ snap' = [snap EXCEPT ![d] = file]
    /\ Goes(d, "keys")
    /\ UNCHANGED <<leg, offered, late, ask, batch, clientVars>>

-----------------------------------------------------------------------------
(* Authentication (buildAuth).  A server accepts a right secret if it offers *)
(* the method; without a connection no method succeeds, but the next one   *)
(* may still be tried.                                                     *)

\* What is left when a method has not succeeded.
After(d, next) ==
    /\ \/ Goes(d, next) /\ UNCHANGED legs
       \/ late[d] /\ Fail(d)
    /\ Rest

Succeeds(d) ==
    /\ ~late[d]
    /\ LegDone(d)
    /\ UNCHANGED <<scene, chain, snap, late, offered, file, quit, accepted>>

\* The agents and the keys without a passphrase; there may be one with a passphrase.
TriesKeys(d) ==
    /\ pc[d] = "keys"
    /\ NoPrompt
    /\ Succeeds(d) \/ After(d, "phrase") \/ After(d, "password")

\* A secret, right or wrong, is tried; the method after it is next.
Tries(d, secret, next) == (secret = "right" /\ Succeeds(d)) \/ After(d, next)

\* promptBridge.Passphrase: the lock is held from the look at what is kept to the reply.
LooksForPhrase(d) ==
    /\ pc[d] = "phrase"
    /\ lock = None
    /\ UNCHANGED <<shared, phrase>>
    /\ IF phrase # None
       THEN Tries(d, phrase, "password") /\ UNCHANGED <<ask, lock>>
       ELSE lock' = d /\ AsksUser(d, "phrase") /\ Goes(d, "phrasing") /\ UNCHANGED legs /\ Rest

PhraseGiven(d) ==
    /\ pc[d] = "phrasing"
    /\ Replied(d)
    /\ Asked(d)
    /\ lock' = None
    /\ UNCHANGED shared
    /\ IF Answer(d) = "cancel"
       THEN After(d, "password") /\ UNCHANGED phrase
       ELSE phrase' = Answer(d) /\ Tries(d, Answer(d), "password")

\* Mutant: the lock is taken after the look.
LooksUnlocked(d) ==
    /\ pc[d] = "password"
    /\ UNCHANGED <<shared, phrase>>
    /\ IF shared # None
       THEN Tries(d, shared, "kbi") /\ UNCHANGED <<ask, lock>>
       ELSE UNCHANGED lock /\ AsksUser(d, "password") /\ Goes(d, "typing") /\ UNCHANGED legs /\ Rest

\* promptBridge.Password.
LooksForPassword(d) ==
    /\ pc[d] = "password"
    /\ lock = None
    /\ UNCHANGED <<shared, phrase>>
    /\ IF shared # None
       THEN Tries(d, shared, "kbi") /\ UNCHANGED <<ask, lock>>
       ELSE lock' = d /\ AsksUser(d, "password") /\ Goes(d, "typing") /\ UNCHANGED legs /\ Rest

\* Mutant: an error leaves the lock held.
Unlocks(d) == lock' = IF Answer(d) = "cancel" THEN lock ELSE None

Unlock(d) == lock' = None

\* "right" and "wrong" may be for this prompt only or, as "right!" and "wrong!", for all.
Secret(reply) == IF reply \in {"right", "right!"} THEN "right" ELSE "wrong"

PasswordGiven(d) ==
    /\ pc[d] = "typing"
    /\ Replied(d)
    /\ Asked(d)
    /\ Unlock(d)
    /\ UNCHANGED phrase
    /\ IF Answer(d) = "cancel"
       THEN After(d, "kbi") /\ UNCHANGED shared
       ELSE /\ shared' = IF Answer(d) \in {"right!", "wrong!"} THEN Secret(Answer(d)) ELSE shared
            /\ Tries(d, Secret(Answer(d)), "kbi")

\* promptBridge.KeyboardInteractive asks without the lock, if the server offers it.
StartsKbi(d) ==
    /\ pc[d] = "kbi"
    /\ UNCHANGED <<lock, shared, phrase>>
    /\ \/ AsksUser(d, "kbi") /\ Goes(d, "asking") /\ UNCHANGED legs
       \/ Fail(d) /\ UNCHANGED ask
    /\ Rest

KbiGiven(d) ==
    /\ pc[d] = "asking"
    /\ Replied(d)
    /\ Asked(d)
    /\ UNCHANGED <<lock, shared, phrase>>
    /\ \/ Answer(d) = "right" /\ Succeeds(d)
       \/ Fail(d) /\ Rest

-----------------------------------------------------------------------------
\* ResolvePrompt: a second reply finds the channel full.
Resolves(d) ==
    /\ ask[d] # None
    /\ ask[d].reply = None
    /\ \E reply \in CASE ask[d].what = "hostkey" -> {"yes", "no", "cancel"}
                      [] ask[d].what = "password" -> {"right", "right!", "wrong", "wrong!", "cancel"}
                      [] OTHER -> {"right", "wrong", "cancel"} :
          ask' = [ask EXCEPT ![d].reply = reply]
    /\ UNCHANGED <<pc, leg, offered, snap, late, batch, clientVars>>

Quits ==
    /\ ~quit
    /\ quit' = TRUE
    /\ UNCHANGED <<pc, leg, offered, snap, late, ask, scene, chain, file, lock, shared, phrase,
                   accepted, clientVars>>

\* Edits of the options; ConnectBatch is called with what they have become.
Edits ==
    /\ \A d \in Dials : pc[d] = "idle"
    /\ changes < Scene.edits
    /\ \/ \E level \in DOMAIN opts, hops \in Scene.hops : SetJumpChain(level, hops)
       \/ \E key \in Scene.files : SaveSession(key)
       \/ \E level \in DOMAIN opts : SaveFolder(level)
       \/ LoadTree

Init ==
    /\ scene \in DOMAIN Scenes
    /\ \E name \in Scene.users, levels \in Scene.options : TargetsInit(name, levels)
    /\ pc = [d \in Dials |-> "idle"]
    /\ chain = [d \in Dials |-> <<>>]
    /\ leg = [d \in Dials |-> 0]
    /\ offered = [d \in Dials |-> None]
    /\ snap = [d \in Dials |-> {}]
    /\ late = [d \in Dials |-> FALSE]
    /\ ask = [d \in Dials |-> None]
    /\ file = Known
    /\ lock = None
    /\ shared = None
    /\ phrase = None
    /\ quit = FALSE
    /\ accepted = {}
    /\ ClientInit

Step(d) ==
    \/ Reaches(d) \/ ReachesNot(d)
    \/ HostKey(d) \/ Confirmed(d) \/ Appends(d) \/ Reloads(d)
    \/ TriesKeys(d) \/ LooksForPhrase(d) \/ PhraseGiven(d)
    \/ LooksForPassword(d) \/ PasswordGiven(d) \/ StartsKbi(d) \/ KbiGiven(d)

Next ==
    \/ Edits /\ UNCHANGED <<dialVars, clientVars>>
    \/ Quits /\ UNCHANGED targetVars
    \/ \E d \in Dials :
          \/ Begin(d)
          \/ (TimerFires(d) \/ Step(d) \/ Resolves(d)) /\ UNCHANGED targetVars
          \/ d \in Scene.followed /\ ClientNext(d) /\ UNCHANGED <<dialVars, targetVars>>

\* TCP and the servers answer or fail in time; the user answers every prompt; the
\* runtime runs every goroutine; the manager's watcher closes what has died.
Fairness ==
    \A d \in Dials :
        /\ WF_vars(Step(d) /\ UNCHANGED targetVars)
        /\ WF_vars(Resolves(d) /\ UNCHANGED targetVars)
        /\ WF_vars(Keepalive(d) /\ UNCHANGED <<dialVars, targetVars>>)
        /\ WF_vars(Handler(d) /\ UNCHANGED <<dialVars, targetVars>>)
        /\ WF_vars(Closes(d, "watcher") /\ UNCHANGED <<dialVars, targetVars>>)
        /\ \A k \in Callers : WF_vars(Closing(d, k) /\ UNCHANGED <<dialVars, targetVars>>)

Spec == Init /\ [][Next]_vars /\ Fairness

-----------------------------------------------------------------------------
(* Properties.                                                             *)

TypeOK ==
    /\ pc \in [Dials -> InHandshake \union {"idle", "tcp", "up", "failed"}]
    /\ \A d \in Dials : pc[d] # "idle" => leg[d] \in DOMAIN chain[d]
    /\ opts \in Seq(Option) /\ disk \in Seq(Option) /\ wanted \in Seq(Option)
    /\ Len(opts) = Len(disk) /\ Len(opts) = Len(wanted)
    /\ \A l \in 1..Session - 1 : opts[l] = disk[l]
    /\ \A d \in Dials : legs[d] \subseteq 1..leg[d] /\ snap[d] \subseteq file
    /\ \A d \in Dials : ask[d] # None <=> pc[d] \in {"confirm", "phrasing", "typing", "asking"}
    /\ lock \in Dials \union {None}
    /\ shared \in {"right", "wrong", None} /\ phrase \in {"right", "wrong", None}
    /\ ClientType
    /\ \A d \in Dials : link[d] # "none" <=> pc[d] = "up"

\* Nothing outlives a dial that failed or a client that was closed: no leg of the chain,
\* no listener; and nobody keeps the bridge's lock but to wait for a reply.
Released ==
    /\ \A d \in Dials : pc[d] = "failed" => legs[d] = {}
    /\ \A d \in Dials, k \in Callers :
          caller[d][k] = "done" => legs[d] = {} /\ lis[d] # "bound" /\ stop[d]
    /\ lock # None => pc[lock] \in {"phrasing", "typing"}

\* A secret that is kept for the batch is not asked for again (connect.go:42-45), by
\* whichever dials and in whichever order.
AskedOnce ==
    \A d \in Dials :
        /\ pc[d] = "typing" => shared = None /\ lock = d
        /\ pc[d] = "phrasing" => phrase = None /\ lock = d

\* A host is talked to only with a key that was known or that the user accepted, and
\* nothing else gets into known_hosts.
KeysTrusted ==
    /\ file \subseteq Known \union accepted
    /\ \A d \in Dials : pc[d] \in InHandshake \ {"hostkey", "confirm", "append", "reload"} =>
          Entry(d) \in file

\* The user's word counts: one answer does for the batch, and only a yes for a key.
PromptsHonoured == AskedOnce /\ KeysTrusted

\* A dial goes where the options lead that the user set last, along the chain and as the
\* users they name, after any edits and reloads.
GoesAsSet ==
    \A d \in Dials : pc[d] # "idle" => ChainAsSet(chain[d]) /\ LoginAsSet(chain[d])

\* A chain that was cleared is gone (app.go:356-357).
ClearedStays == \A d \in Dials : pc[d] # "idle" => ChainCleared(chain[d])

\* Every dial comes to an end, if the user answers.
DialEnds == \A d \in Dials : pc[d] = "tcp" ~> pc[d] \in {"up", "failed"}

\* A link that dies, even silently where there are keepalives, is given up: its legs are
\* closed, its SOCKS port is free and the connections it carried have ended, but for one
\* that was accepted while Close swept and whose program says nothing.
DeadFreed ==
    \A d \in Dials : link[d] = "closed" \/ (link[d] = "silent" /\ ka[d].at # "off") ~>
        /\ legs[d] = {}
        /\ lis[d] # "bound"
        /\ conn[d] \in {"none", "ended"} \/ (conn[d] = "shaking" /\ ~cut[d])

\* Dials end, and so does what they have opened.
Settles == DialEnds /\ DeadFreed
=============================================================================
