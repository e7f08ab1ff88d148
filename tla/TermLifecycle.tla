---------------------------- MODULE TermLifecycle ----------------------------
(***************************************************************************)
(* Terminals as tabs open and close them: OpenTerminal, the waiter it      *)
(* leaves behind and CloseTerminal in internal/app/terminal.go, with the   *)
(* memory governor in membudget.go, over several terminals that share      *)
(* connections.                                                            *)
(*                                                                         *)
(* What one terminal does with its output is the subject of TermOutput,    *)
(* and how a connection comes about that of ConnMgr: here a connection is  *)
(* there or not, and Disconnect and the watcher take it away.              *)
(***************************************************************************)
EXTENDS Integers, FiniteSets

CONSTANTS
  Terms,       \* tabs; a tab's identifier is never used again
  Sessions,
  MaxClients,  \* bound: connections made
  MaxCloses,   \* bound: calls of CloseTerminal per tab
  None,
  Budget,      \* scrollbackBudget
  PerTermMin,  \* scrollbackPerTermMin
  DefaultCap   \* the cap of a new scrollback

Clients == 1 .. MaxClients

ASSUME NoneAssumption == None \notin Nat \cup Sessions
ASSUME TermsAssumption == IsFiniteSet(Terms)
ASSUME BoundsAssumption ==
  /\ MaxClients \in Nat
  /\ MaxCloses \in Nat
  /\ Budget \in Nat
  /\ PerTermMin \in Nat
  /\ DefaultCap \in Nat

VARIABLES
  \* the connection manager
  conn,      \* session -> the client its row holds
  up,        \* clients whose transport works
  used,      \* the number of clients so far
  \* App
  terms,     \* keys of a.terms
  termSess,  \* keys of a.termSess
  \* calls and goroutines, by terminal
  opener,    \* OpenTerminal
  waiter,    \* the goroutine that waits for its session
  closer,    \* CloseTerminal
  closes,    \* calls of CloseTerminal so far
  \* terminals
  session,   \* the session it was opened for
  client,    \* the client OpenTerminal got
  chan,      \* its channel
  cap,       \* its scrollback's byte cap
  \* rebalanceScrollback, by who runs it
  todo,      \* terminal -> the cap its scrollback is still to get, or None
  outdated,  \* runs that another one's snapshot came after
  \* auxiliary
  stale,     \* terminals whose cap was set by an outdated run
  tabbed     \* clients that have had a terminal

connVars == <<conn, up, used>>
mapVars == <<terms, termSess>>
capVars == <<cap, todo, outdated, stale>>
closeVars == <<closer, closes>>
termVars == <<session, client, chan>>
vars == <<conn, up, used, terms, termSess, opener, waiter, closer, closes, session,
          client, chan, cap, todo, outdated, stale, tabbed>>

Runners == Terms \X {"open", "wait"}
OpenerPCs == {"none", "checked", "connected", "session", "listed",
              "rebalancing", "returned"}
WaiterPCs == {"none", "waiting", "unlisted", "rebalancing", "done"}

TypeOK ==
  /\ conn \in [Sessions -> Clients \cup {None}]
  /\ up \subseteq Clients
  /\ used \in 0 .. MaxClients
  /\ terms \subseteq Terms
  /\ termSess \subseteq Terms
  /\ terms \subseteq termSess
  /\ opener \in [Terms -> OpenerPCs]
  /\ waiter \in [Terms -> WaiterPCs]
  /\ closer \in [Terms -> {"none", "ending", "endingLast", "disconnecting"}]
  /\ closes \in [Terms -> 0 .. MaxCloses]
  /\ session \in [Terms -> Sessions \cup {None}]
  /\ client \in [Terms -> Clients \cup {None}]
  /\ chan \in [Terms -> {"none", "open", "closed"}]
  /\ cap \in [Terms -> Nat]
  /\ todo \in [Runners -> [Terms -> Nat \cup {None}]]
  /\ outdated \subseteq Runners
  /\ stale \subseteq Terms
  /\ tabbed \subseteq Clients

Init ==
  /\ conn = [s \in Sessions |-> None]
  /\ up = {}
  /\ used = 0
  /\ terms = {}
  /\ termSess = {}
  /\ opener = [t \in Terms |-> "none"]
  /\ waiter = [t \in Terms |-> "none"]
  /\ closer = [t \in Terms |-> "none"]
  /\ closes = [t \in Terms |-> 0]
  /\ session = [t \in Terms |-> None]
  /\ client = [t \in Terms |-> None]
  /\ chan = [t \in Terms |-> "none"]
  /\ cap = [t \in Terms |-> DefaultCap]
  /\ todo = [r \in Runners |-> [t \in Terms |-> None]]
  /\ outdated = {}
  /\ stale = {}
  /\ tabbed = {}

-----------------------------------------------------------------------------
(* Connections *)

\* A dial settles: the session's row gets a client.
Connect(s) ==
  /\ conn[s] = None
  /\ used < MaxClients
  /\ used' = used + 1
  /\ conn' = [conn EXCEPT ![s] = used']
  /\ up' = up \cup {used'}
  /\ UNCHANGED <<mapVars, opener, waiter, closeVars, termVars, capVars, tabbed>>

\* The channels of a transport end with it.
Ends(C) ==
  /\ up' = up \ C
  /\ chan' = [t \in Terms |-> IF client[t] \in C /\ chan[t] = "open" THEN "closed"
                              ELSE chan[t]]

LinkDies(c) ==
  /\ c \in up
  /\ Ends({c})
  /\ UNCHANGED <<conn, used, mapVars, opener, waiter, closeVars, session, client,
                 capVars, tabbed>>

WatchRemoves(s) ==
  /\ conn[s] \notin up \cup {None}
  /\ conn' = [conn EXCEPT ![s] = None]
  /\ UNCHANGED <<up, used, mapVars, opener, waiter, closeVars, termVars,
                 capVars, tabbed>>

\* mgr.Disconnect
DropConnection(s) ==
  /\ Ends({conn[s]} \ {None})
  /\ conn' = [conn EXCEPT ![s] = None]
  /\ used' = used

\* The user disconnects a session.
Disconnect(s) ==
  /\ conn[s] # None
  /\ DropConnection(s)
  /\ UNCHANGED <<mapVars, opener, waiter, closeVars, session, client, capVars,
                 tabbed>>

\* A shell exits: the channel of a terminal ends, the connection stays.
ShellExits(t) ==
  /\ chan[t] = "open"
  /\ chan' = [chan EXCEPT ![t] = "closed"]
  /\ UNCHANGED <<connVars, mapVars, opener, waiter, closeVars, session, client,
                 capVars, tabbed>>

-----------------------------------------------------------------------------
(* rebalanceScrollback *)

\* Mutant: the budget is not divided.
WholeBudget(n) == Budget

\* perTerminalCap
PerTerminalCap(n) ==
  LET c == Budget \div (IF n < 1 THEN 1 ELSE n) IN
    IF c < PerTermMin THEN PerTermMin ELSE c

\* The terminals whose scrollbacks r has not reached yet.
Left(r) == { t \in Terms : todo[r][t] # None }

Rebalancing == { r \in Runners : Left(r) # {} }

\* Under the lock: the scrollbacks, and with them their number.
Snapshot(r) ==
  /\ todo' = [todo EXCEPT ![r] =
                [t \in Terms |-> IF t \in terms THEN PerTerminalCap(Cardinality(terms))
                                  ELSE None]]
  /\ outdated' = Rebalancing \ {r}
  /\ UNCHANGED <<cap, stale>>

\* SetMaxBytes on one of them.
ApplyCap(r, t) ==
  /\ t \in Left(r)
  /\ cap' = [cap EXCEPT ![t] = todo[r][t]]
  /\ todo' = [todo EXCEPT ![r][t] = None]
  /\ stale' = IF r \in outdated THEN stale \cup {t} ELSE stale \ {t}
  /\ outdated' = IF Left(r) = {t} THEN outdated \ {r} ELSE outdated
  /\ UNCHANGED <<connVars, mapVars, opener, waiter, closeVars, termVars, tabbed>>

-----------------------------------------------------------------------------
(* OpenTerminal *)

\* Mutant: the terminal stays on the map.
StaysListed(t) == terms' = terms

\* delete(a.terms, termID)
Unlist(t) == terms' = terms \ {t}

Goes(t, at) == opener' = [opener EXCEPT ![t] = at]

\* A new tab, and OpenTerminal's look at the map.
OpenChecks(t, s) ==
  /\ opener[t] = "none"
  /\ session' = [session EXCEPT ![t] = s]
  /\ Goes(t, IF t \in terms THEN "returned" ELSE "checked")
  /\ UNCHANGED <<connVars, mapVars, waiter, closeVars, client, chan, capVars,
                 tabbed>>

OpenNotConnected(t) ==
  /\ opener[t] = "checked"
  /\ conn[session[t]] = None
  /\ Goes(t, "returned")
  /\ UNCHANGED <<connVars, mapVars, waiter, closeVars, termVars, capVars, tabbed>>

\* mgr.Client
OpenGetsClient(t) ==
  /\ opener[t] = "checked"
  /\ conn[session[t]] # None
  /\ client' = [client EXCEPT ![t] = conn[session[t]]]
  /\ Goes(t, "connected")
  /\ UNCHANGED <<connVars, mapVars, waiter, closeVars, session, chan, capVars,
                 tabbed>>

NewSessionOpens(t) ==
  /\ opener[t] = "connected"
  /\ client[t] \in up
  /\ chan' = [chan EXCEPT ![t] = "open"]
  /\ Goes(t, "session")
  /\ UNCHANGED <<connVars, mapVars, waiter, closeVars, session, client, capVars,
                 tabbed>>

\* No channel, pty or shell.
NewSessionFails(t) ==
  /\ opener[t] = "connected"
  /\ Goes(t, "returned")
  /\ UNCHANGED <<connVars, mapVars, waiter, closeVars, termVars, capVars, tabbed>>

List(t) ==
  /\ opener[t] = "session"
  /\ terms' = terms \cup {t}
  /\ termSess' = termSess \cup {t}
  /\ tabbed' = tabbed \cup {client[t]}
  /\ Goes(t, "listed")
  /\ UNCHANGED <<connVars, waiter, closeVars, termVars, capVars>>

OpenRebalances(t) ==
  /\ opener[t] = "listed"
  /\ Snapshot(<<t, "open">>)
  /\ Goes(t, "rebalancing")
  /\ UNCHANGED <<connVars, mapVars, waiter, closeVars, termVars, tabbed>>

\* The caps are set; the handler is registered and the waiter starts.
OpenReturns(t) ==
  /\ opener[t] = "rebalancing"
  /\ Left(<<t, "open">>) = {}
  /\ Goes(t, "returned")
  /\ waiter' = [waiter EXCEPT ![t] = "waiting"]
  /\ UNCHANGED <<connVars, mapVars, closeVars, termVars, capVars, tabbed>>

-----------------------------------------------------------------------------
(* The waiter *)

WaiterGoes(t, at) == waiter' = [waiter EXCEPT ![t] = at]

WaiterUnlists(t) ==
  /\ waiter[t] = "waiting"
  /\ chan[t] = "closed"
  /\ Unlist(t)
  /\ WaiterGoes(t, "unlisted")
  /\ UNCHANGED <<connVars, termSess, opener, closeVars, termVars, capVars, tabbed>>

WaiterRebalances(t) ==
  /\ waiter[t] = "unlisted"
  /\ Snapshot(<<t, "wait">>)
  /\ WaiterGoes(t, "rebalancing")
  /\ UNCHANGED <<connVars, mapVars, opener, closeVars, termVars, tabbed>>

WaiterRebalanced(t) ==
  /\ waiter[t] = "rebalancing"
  /\ Left(<<t, "wait">>) = {}
  /\ WaiterGoes(t, "done")
  /\ UNCHANGED <<connVars, mapVars, opener, closeVars, termVars, capVars, tabbed>>

-----------------------------------------------------------------------------
(* CloseTerminal *)

\* Mutant: a tab of any session counts as another one.
LastEver(t) == t \in termSess /\ termSess = {t}

\* t's tab was tracked, and no other tab is left for its session.
Last(t) ==
  t \in termSess /\ \A u \in termSess \ {t} : session[u] # session[t]

\* The first lock section: off both maps; what is left to do is decided. The
\* frontend calls it when the user closes the tab and when the tab unmounts.
CloseTerminal(t) ==
  /\ opener[t] # "none"
  /\ closer[t] = "none"
  /\ closes[t] < MaxCloses
  /\ closes' = [closes EXCEPT ![t] = @ + 1]
  /\ Unlist(t)
  /\ termSess' = termSess \ {t}
  /\ closer' = [closer EXCEPT ![t] =
       IF t \in terms THEN (IF Last(t) THEN "endingLast" ELSE "ending")
       ELSE IF Last(t) THEN "disconnecting" ELSE "none"]
  /\ UNCHANGED <<connVars, opener, waiter, termVars, capVars, tabbed>>

\* The session and the scrollback are closed.
CloserEnds(t) ==
  /\ closer[t] \in {"ending", "endingLast"}
  /\ chan' = [chan EXCEPT ![t] = "closed"]
  /\ closer' = [closer EXCEPT ![t] = IF @ = "endingLast" THEN "disconnecting"
                                      ELSE "none"]
  /\ UNCHANGED <<connVars, mapVars, opener, waiter, closes, session, client,
                 capVars, tabbed>>

CloserDisconnects(t) ==
  /\ closer[t] = "disconnecting"
  /\ DropConnection(session[t])
  /\ closer' = [closer EXCEPT ![t] = "none"]
  /\ UNCHANGED <<mapVars, opener, waiter, closes, session, client, capVars, tabbed>>

-----------------------------------------------------------------------------
Opener(t) == \/ OpenNotConnected(t) \/ OpenGetsClient(t)
             \/ NewSessionOpens(t) \/ NewSessionFails(t) \/ List(t)
             \/ OpenRebalances(t) \/ OpenReturns(t)

Waiter(t) == \/ WaiterUnlists(t) \/ WaiterRebalances(t) \/ WaiterRebalanced(t)

Closer(t) == CloserEnds(t) \/ CloserDisconnects(t)

Applying(r) == \E t \in Terms : ApplyCap(r, t)

Next ==
  \/ \E c \in Clients : LinkDies(c)
  \/ \E s \in Sessions : Connect(s) \/ WatchRemoves(s) \/ Disconnect(s)
  \/ \E t \in Terms : \/ \E s \in Sessions : OpenChecks(t, s)
                      \/ ShellExits(t) \/ Opener(t) \/ Waiter(t)
                      \/ CloseTerminal(t) \/ Closer(t)
  \/ \E r \in Runners : Applying(r)

\* Goroutines run and the server answers or refuses a new channel. Links, shells,
\* users and tabs do nothing they need not do.
Fairness ==
  /\ \A t \in Terms : WF_vars(Opener(t)) /\ WF_vars(Waiter(t)) /\ WF_vars(Closer(t))
  /\ \A r \in Runners : WF_vars(Applying(r))
  /\ \A s \in Sessions : WF_vars(WatchRemoves(s))

Spec == Init /\ [][Next]_vars /\ Fairness

-----------------------------------------------------------------------------
(* Properties *)

\* A rebalance is still to come or under way for t.
Unbalanced(t) ==
  \/ opener[t] \in {"listed", "rebalancing"}
  \/ waiter[t] \in {"unlisted", "rebalancing"}
  \/ t \notin terms /\ waiter[t] = "waiting"

\* As much as n terminals may have each, and no more.
Fair(c, n) ==
  /\ c * n <= Budget \/ c = PerTermMin
  /\ (c + 1) * n > Budget

\* The app "splits one global budget [...] evenly across open terminals": once the
\* opens and closes under way have come to an end, every open terminal has its
\* share, unless a rebalance that another one overtook has set an older one.
EvenShare ==
  (\A t \in Terms : ~Unbalanced(t)) =>
     \A t \in terms \ stale : Fair(cap[t], Cardinality(terms))

\* s has a connection that has had tabs and has none left.
Abandoned(s) ==
  /\ conn[s] \in tabbed
  /\ \A t \in Terms : session[t] = s =>
       t \notin termSess /\ opener[t] \in {"none", "returned"}

\* "Closing the last terminal of a session also drops the underlying connection":
\* two tabs closed at once, a tab that had died before, a redial in between or a
\* user's own Disconnect leave no connection behind that no CloseTerminal is on
\* its way to drop. A tab that was closed before its terminal was on the map stays
\* listed, and keeps its connection.
LastCloseDisconnects ==
  \A s \in Sessions :
    Abandoned(s) => \E t \in Terms :
                      session[t] = s /\ closer[t] \in {"endingLast", "disconnecting"}

-----------------------------------------------------------------------------
(* What a comment says *)

\* "other terminals on the same session keep it alive": CloseTerminal takes no
\* connection from under a terminal that is open.
OthersKeepAlive ==
  [][\A t \in Terms : CloserDisconnects(t) =>
       \A u \in terms : client[u] \in up => client[u] \in up']_vars
=============================================================================
