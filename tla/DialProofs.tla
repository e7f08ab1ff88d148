----------------------------- MODULE DialProofs -----------------------------
(***************************************************************************)
(* Proofs about the dials of a batch and the clients they connect: what    *)
(* fails or is closed leaves nothing, one answer does for the batch, only  *)
(* keys that were known or accepted are talked to, and each dial goes      *)
(* where the options lead.  They hold for any number of dials, folders,    *)
(* hops, hosts and keys, and for any options and edits.                    *)
(***************************************************************************)
EXTENDS Dial, FiniteSetTheorems, SequenceTheorems, WellFoundedInduction, TLAPS

-----------------------------------------------------------------------------
(* The inductive invariant *)

\* A keepalive loop has a transport and misses left.
KeepaliveInv ==
    \A c \in Clients :
        /\ ka[c].at # "off" => link[c] # "none"
        /\ ka[c].at # "off" \/ link[c] = "none" => ka[c].missed < MissMax

\* Each call of Close has done what it has passed, and nothing undoes it.
CallerInv ==
    \A c \in Clients, k \in Callers :
        /\ caller[c][k] # "no" => link[c] # "none"
        /\ caller[c][k] \notin {"no", "stop"} => stop[c]
        /\ caller[c][k] \notin {"no", "stop", "legs"} => legs[c] = {}
        /\ caller[c][k] \in {"sweep", "drain", "done"} => lis[c] # "bound"

ClientInv == ClientType /\ DOMAIN legs = Clients /\ KeepaliveInv /\ CallerInv

\* A dial has a client once it is up, and no legs once it has failed.
PlaceInv ==
    /\ pc \in [Dials -> InHandshake \union {"idle", "tcp", "up", "failed"}]
    /\ \A d \in Dials : link[d] # "none" <=> pc[d] = "up"
    /\ \A d \in Dials : pc[d] = "failed" => legs[d] = {}

\* Who waits for a secret holds the lock, for one that is not kept yet.
LockInv ==
    /\ lock # None => lock \in Dials /\ pc[lock] \in {"phrasing", "typing"}
    /\ AskedOnce

AfterKey == InHandshake \ {"hostkey", "confirm", "append", "reload"}

\* A key is in known_hosts when it is talked to, and accepted before it gets there.
KeyInv ==
    /\ DOMAIN chain = Dials /\ DOMAIN leg = Dials /\ DOMAIN offered = Dials /\ DOMAIN snap = Dials
    /\ file \subseteq Known \union accepted
    /\ \A d \in Dials :
          /\ snap[d] \subseteq file
          /\ pc[d] = "append" => Entry(d) \in accepted
          /\ pc[d] \in AfterKey \union {"reload"} => Entry(d) \in file

IInv == ClientInv /\ PlaceInv /\ LockInv /\ KeyInv

-----------------------------------------------------------------------------
(* The clients *)

\* What every step of a client leaves of the others, and of itself.
Steady ==
    /\ \A c \in Clients : link'[c] = "none" <=> link[c] = "none"
    /\ DOMAIN legs' = Clients
    /\ \A c \in Clients : legs'[c] = legs[c] \/ legs'[c] = {}

LEMMA LinkKeeps ==
    ASSUME ClientInv, NEW c \in Clients, LinkFails(c) \/ PeerCloses(c)
    PROVE  ClientInv' /\ Steady
<1>1. /\ link[c] = "up"
      /\ \E l \in {"silent", "closed"} : link' = [link EXCEPT ![c] = l]
      /\ UNCHANGED <<legs, ka, stop, lis, conn, cut, caller>>
  BY DEF LinkFails, PeerCloses
<1>2. /\ link' \in [Clients -> {"none", "up", "silent", "closed"}]
      /\ \A e \in Clients : link'[e] = "none" <=> link[e] = "none"
  BY <1>1 DEF ClientInv, ClientType
<1>3. ClientType'
  BY <1>1, <1>2 DEF ClientInv, ClientType
<1>4. KeepaliveInv' /\ CallerInv'
  BY <1>1, <1>2 DEF ClientInv, KeepaliveInv, CallerInv
<1>. QED
  BY <1>1, <1>2, <1>3, <1>4 DEF ClientInv, Steady

\* The keepalive loop closes the transport it has, and counts no further than to the limit.
LEMMA KeepaliveKeeps ==
    ASSUME ClientInv, NEW c \in Clients, Hears(c) \/ Replies(c) \/ Keepalive(c)
    PROVE  ClientInv' /\ Steady
<1>. DEFINE KaType == [at : {"off", "tick", "probe"}, missed : 0..MissMax, heard : BOOLEAN]
<1>0. MissMax \in Nat \ {0}
  BY ClientAssumption
<1>1. /\ ka \in [Clients -> KaType]
      /\ ka[c].at # "off" => link[c] # "none" /\ ka[c].missed < MissMax
      /\ \A e \in Clients : link[e] = "none" => ka[e].missed < MissMax
      /\ link \in [Clients -> {"none", "up", "silent", "closed"}]
  BY DEF ClientInv, ClientType, KeepaliveInv
<1>2. /\ ka' \in [Clients -> KaType]
      /\ ka[c].at # "off"
      /\ ka'[c].at # "off" => ka'[c].missed < MissMax
      /\ \A e \in Clients \ {c} : ka'[e] = ka[e]
      /\ link' = link \/ link' = [link EXCEPT ![c] = "closed"]
      /\ UNCHANGED <<legs, stop, lis, conn, cut, caller>>
  <2>1. CASE Hears(c)
    BY <1>0, <1>1, <2>1 DEF Hears
  <2>2. CASE Replies(c)
    <3>1. /\ ka[c].at = "probe"
          /\ ka' = [ka EXCEPT ![c].at = "tick", ![c].missed = 0]
          /\ UNCHANGED <<link, legs, stop, lis, conn, cut, caller>>
      BY <2>2 DEF Replies
    <3>2. 0 \in 0..MissMax /\ 0 < MissMax
      BY <1>0
    <3>3. ka' \in [Clients -> KaType] /\ ka'[c].missed = 0
      BY <1>1, <3>1, <3>2
    <3>. QED
      BY <1>1, <3>1, <3>2, <3>3
  <2>3. CASE Probes(c)
    BY <1>0, <1>1, <2>3 DEF Probes
  <2>4. CASE Misses(c)
    <3>1. /\ ka[c].at = "probe" /\ ka[c].missed \in 0..MissMax /\ ka[c].missed < MissMax
          /\ UNCHANGED <<legs, stop, lis, conn, cut, caller>>
      BY <1>1, <2>4 DEF Misses
    <3>2. CASE ka[c].heard
      BY <1>0, <1>1, <2>4, <3>1, <3>2 DEF Misses
    <3>3. CASE ~ka[c].heard /\ ka[c].missed + 1 < MissMax
      BY <1>0, <1>1, <2>4, <3>1, <3>3 DEF Misses
    <3>4. CASE ~ka[c].heard /\ ~(ka[c].missed + 1 < MissMax)
      BY <1>0, <1>1, <2>4, <3>1, <3>4 DEF Misses
    <3>. QED
      BY <3>2, <3>3, <3>4
  <2>5. CASE KeepaliveStops(c)
    BY <1>0, <1>1, <2>5 DEF KeepaliveStops
  <2>. QED
    BY <2>1, <2>2, <2>3, <2>4, <2>5 DEF Keepalive
<1>3. /\ link' \in [Clients -> {"none", "up", "silent", "closed"}]
      /\ \A e \in Clients : link'[e] = "none" <=> link[e] = "none"
  BY <1>1, <1>2
<1>4. ClientType'
  BY <1>2, <1>3 DEF ClientInv, ClientType
<1>5. KeepaliveInv' /\ CallerInv'
  BY <1>1, <1>2, <1>3 DEF ClientInv, KeepaliveInv, CallerInv
<1>. QED
  BY <1>2, <1>3, <1>4, <1>5 DEF ClientInv, Steady

LEMMA ProxyKeeps ==
    ASSUME ClientInv, NEW c \in Clients,
           Accepts(c) \/ Asks(c) \/ PeerDone(c) \/ Handler(c)
    PROVE  ClientInv' /\ Steady
<1>1. /\ UNCHANGED <<link, legs, ka, stop, lis, caller>>
      /\ cut' = cut \/ cut' = [cut EXCEPT ![c] = FALSE]
      /\ \E l \in {"accepted", "shaking", "dialing", "copying", "ended"} :
            conn' = [conn EXCEPT ![c] = l]
  BY DEF Accepts, Asks, PeerDone, Handler, Registers, DialsRemote, HandlerEnds, HandlerGoes
<1>2. ClientType'
  <2>1. cut' \in [Clients -> BOOLEAN]
    BY <1>1 DEF ClientInv, ClientType
  <2>2. conn' \in [Clients -> {"none", "accepted", "shaking", "dialing", "copying", "ended"}]
    BY <1>1 DEF ClientInv, ClientType
  <2>. QED
    BY <1>1, <2>1, <2>2 DEF ClientInv, ClientType
<1>3. KeepaliveInv' /\ CallerInv'
  BY <1>1 DEF ClientInv, KeepaliveInv, CallerInv
<1>. QED
  BY <1>1, <1>2, <1>3 DEF ClientInv, Steady

\* Of two calls of Close each finds what the other has done.
LEMMA CloseKeeps ==
    ASSUME ClientInv, NEW c \in Clients, NEW k \in Callers, Closes(c, k) \/ Closing(c, k)
    PROVE  ClientInv' /\ Steady
<1>. DEFINE Places == {"no", "stop", "legs", "listener", "sweep", "drain", "done"}
<1>0. ASSUME NEW l \in Places, CallerGoes(c, k, l)
      PROVE  /\ caller' \in [Clients -> [Callers -> Places]]
             /\ caller'[c][k] = l
             /\ \A e \in Clients, j \in Callers : e # c \/ j # k => caller'[e][j] = caller[e][j]
  BY <1>0 DEF CallerGoes, ClientInv, ClientType
<1>1. CASE Closes(c, k)
  <2>1. /\ link[c] # "none"
        /\ CallerGoes(c, k, "stop")
        /\ UNCHANGED <<link, legs, ka, stop, lis, conn, cut>>
    BY <1>1 DEF Closes
  <2>2. ClientType'
    BY <1>0, <2>1 DEF ClientInv, ClientType
  <2>3. KeepaliveInv'
    BY <2>1 DEF ClientInv, KeepaliveInv
  <2>4. CallerInv'
    BY <1>0, <2>1 DEF ClientInv, CallerInv
  <2>. QED
    BY <2>1, <2>2, <2>3, <2>4 DEF ClientInv, Steady
<1>2. CASE StopsKeepalive(c, k)
  <2>1. /\ caller[c][k] = "stop"
        /\ stop' = [stop EXCEPT ![c] = TRUE]
        /\ CallerGoes(c, k, "legs")
        /\ UNCHANGED <<link, legs, ka, lis, conn, cut>>
    BY <1>2 DEF StopsKeepalive
  <2>2. /\ stop' \in [Clients -> BOOLEAN] /\ stop'[c] = TRUE
        /\ \A e \in Clients : stop[e] => stop'[e]
    BY <2>1 DEF ClientInv, ClientType
  <2>3. ClientType'
    BY <1>0, <2>1, <2>2 DEF ClientInv, ClientType
  <2>4. KeepaliveInv'
    BY <2>1 DEF ClientInv, KeepaliveInv
  <2>5. CallerInv'
    BY <1>0, <2>1, <2>2 DEF ClientInv, CallerInv
  <2>. QED
    BY <2>1, <2>3, <2>4, <2>5 DEF ClientInv, Steady
<1>3. CASE ClosesLegs(c, k)
  <2>1. /\ caller[c][k] = "legs"
        /\ link' = [link EXCEPT ![c] = "closed"]
        /\ legs' = [legs EXCEPT ![c] = {}]
        /\ CallerGoes(c, k, IF lis[c] = "none" THEN "done" ELSE "listener")
        /\ UNCHANGED <<ka, stop, lis, conn, cut>>
    BY <1>3 DEF ClosesLegs
  <2>2. link[c] # "none" /\ stop[c]
    BY <2>1 DEF ClientInv, CallerInv
  <2>3. /\ link' \in [Clients -> {"none", "up", "silent", "closed"}]
        /\ \A e \in Clients : link'[e] = "none" <=> link[e] = "none"
        /\ DOMAIN legs' = Clients /\ legs'[c] = {}
        /\ \A e \in Clients : legs'[e] = legs[e] \/ legs'[e] = {}
    BY <2>1, <2>2 DEF ClientInv, ClientType
  <2>4. PICK l \in {"done", "listener"} : CallerGoes(c, k, l) /\ (l = "done" => lis[c] = "none")
    BY <2>1
  <2>5. ClientType'
    BY <1>0, <2>1, <2>3, <2>4 DEF ClientInv, ClientType
  <2>6. KeepaliveInv'
    BY <2>1, <2>3 DEF ClientInv, KeepaliveInv
  <2>7. CallerInv'
    BY <1>0, <2>1, <2>2, <2>3, <2>4 DEF ClientInv, CallerInv
  <2>. QED
    BY <2>3, <2>5, <2>6, <2>7 DEF ClientInv, Steady
<1>4. CASE ClosesListener(c, k)
  <2>1. /\ caller[c][k] = "listener"
        /\ lis' = [lis EXCEPT ![c] = "closed"]
        /\ CallerGoes(c, k, "sweep")
        /\ UNCHANGED <<link, legs, ka, stop, conn, cut>>
    BY <1>4 DEF ClosesListener
  <2>2. /\ lis' \in [Clients -> {"none", "bound", "closed"}]
        /\ lis'[c] = "closed"
        /\ \A e \in Clients \ {c} : lis'[e] = lis[e]
    BY <2>1 DEF ClientInv, ClientType
  <2>3. ClientType'
    BY <1>0, <2>1, <2>2 DEF ClientInv, ClientType
  <2>4. KeepaliveInv'
    BY <2>1 DEF ClientInv, KeepaliveInv
  <2>5. CallerInv'
    BY <1>0, <2>1, <2>2 DEF ClientInv, CallerInv
  <2>. QED
    BY <2>1, <2>3, <2>4, <2>5 DEF ClientInv, Steady
<1>5. CASE Sweeps(c, k) \/ Drains(c, k)
  <2>1. /\ caller[c][k] \in {"sweep", "drain"}
        /\ \E l \in {"drain", "done"} : CallerGoes(c, k, l)
        /\ cut' \in [Clients -> BOOLEAN]
        /\ UNCHANGED <<link, legs, ka, stop, lis, conn>>
    BY <1>5 DEF Sweeps, Drains, ClientInv, ClientType
  <2>2. PICK l \in {"drain", "done"} : CallerGoes(c, k, l)
    BY <2>1
  <2>3. ClientType'
    BY <1>0, <2>1, <2>2 DEF ClientInv, ClientType
  <2>4. KeepaliveInv'
    BY <2>1 DEF ClientInv, KeepaliveInv
  <2>5. CallerInv'
    BY <1>0, <2>1, <2>2 DEF ClientInv, CallerInv
  <2>. QED
    BY <2>1, <2>3, <2>4, <2>5 DEF ClientInv, Steady
<1>. QED
  BY <1>1, <1>2, <1>3, <1>4, <1>5 DEF Closing

LEMMA ClientKeeps ==
    ASSUME ClientInv, NEW c \in Clients, ClientNext(c)
    PROVE  ClientInv' /\ Steady
BY LinkKeeps, KeepaliveKeeps, ProxyKeeps, CloseKeeps DEF ClientNext

\* A client that is set up: no call of Close can have been made before.
LEMMA ConnectKeeps ==
    ASSUME ClientInv, NEW c \in Clients, NEW proxy \in BOOLEAN, link[c] = "none", Connects(c, proxy)
    PROVE  /\ ClientInv'
           /\ legs' = legs
           /\ link'[c] # "none"
           /\ \A e \in Clients \ {c} : link'[e] = link[e]
<1>1. /\ link' = [link EXCEPT ![c] = "up"]
      /\ \E at \in {"tick", "off"} : ka' = [ka EXCEPT ![c].at = at]
      /\ lis' = lis \/ lis' = [lis EXCEPT ![c] = "bound"]
      /\ UNCHANGED <<legs, stop, conn, cut, caller>>
  BY DEF Connects
<1>2. /\ link' \in [Clients -> {"none", "up", "silent", "closed"}]
      /\ link'[c] = "up"
      /\ \A e \in Clients \ {c} : link'[e] = link[e]
  BY <1>1 DEF ClientInv, ClientType
<1>3. /\ lis' \in [Clients -> {"none", "bound", "closed"}]
      /\ \A e \in Clients \ {c} : lis'[e] = lis[e]
  <2>1. lis \in [Clients -> {"none", "bound", "closed"}]
    BY DEF ClientInv, ClientType
  <2>. QED
    BY <1>1, <2>1
<1>4. \A k \in Callers : caller[c][k] = "no"
  BY DEF ClientInv, ClientType, CallerInv
<1>5. /\ ka' \in [Clients -> [at : {"off", "tick", "probe"}, missed : 0..MissMax, heard : BOOLEAN]]
      /\ ka'[c].missed = ka[c].missed
      /\ \A e \in Clients \ {c} : ka'[e] = ka[e]
  <2>1. ka \in [Clients -> [at : {"off", "tick", "probe"}, missed : 0..MissMax, heard : BOOLEAN]]
    BY DEF ClientInv, ClientType
  <2>2. PICK at \in {"tick", "off"} : ka' = [ka EXCEPT ![c].at = at]
    BY <1>1
  <2>. QED
    BY <2>1, <2>2
<1>6. ClientType'
  BY <1>1, <1>2, <1>3, <1>5 DEF ClientInv, ClientType
<1>7. KeepaliveInv'
  BY <1>2, <1>5 DEF ClientInv, KeepaliveInv
<1>8. CallerInv'
  BY <1>1, <1>2, <1>3, <1>4 DEF ClientInv, CallerInv
<1>. QED
  BY <1>1, <1>2, <1>6, <1>7, <1>8 DEF ClientInv

-----------------------------------------------------------------------------
(* Where a step of a dial can lead *)

\* It goes on, fails with its legs closed, has a client, or has one more leg.
Outcome(d) ==
    \/ (\E l \in InHandshake \union {"tcp"} : Goes(d, l)) /\ UNCHANGED clientVars
    \/ Fail(d) /\ UNCHANGED <<link, ka, stop, lis, conn, cut, caller>>
    \/ (\E proxy \in BOOLEAN : Connects(d, proxy)) /\ Goes(d, "up")
    \/ /\ Goes(d, "hostkey")
       /\ legs' = [legs EXCEPT ![d] = @ \union {leg[d]}]
       /\ UNCHANGED <<link, ka, stop, lis, conn, cut, caller>>

LEMMA OutcomeKeeps ==
    ASSUME ClientInv, PlaceInv, NEW d \in Dials, pc[d] \in InHandshake \union {"tcp"}, Outcome(d)
    PROVE  ClientInv' /\ PlaceInv'
<1>1. /\ link[d] = "none"
      /\ \A k \in Callers : caller[d][k] = "no"
      /\ d \in Clients
  BY DEF ClientInv, CallerInv, ClientType, PlaceInv, InHandshake, Dials
<1>. DEFINE Places == InHandshake \union {"idle", "tcp", "up", "failed"}
<1>2. ASSUME NEW l \in Places, Goes(d, l)
      PROVE  /\ pc' \in [Dials -> Places] /\ pc'[d] = l
             /\ \A e \in Dials \ {d} : pc'[e] = pc[e]
  BY <1>2 DEF Goes, PlaceInv
<1>3. CASE (\E l \in InHandshake \union {"tcp"} : Goes(d, l)) /\ UNCHANGED clientVars
  <2>1. PICK l \in InHandshake \union {"tcp"} : Goes(d, l)
    BY <1>3
  <2>2. UNCHANGED <<link, legs, ka, stop, lis, conn, cut, caller>>
    BY <1>3 DEF clientVars
  <2>3. ClientInv'
    BY <2>2 DEF ClientInv, ClientType, KeepaliveInv, CallerInv
  <2>4. PlaceInv'
    BY <1>1, <1>2, <2>1, <2>2 DEF PlaceInv, InHandshake
  <2>. QED
    BY <2>3, <2>4
<1>4. CASE Fail(d) /\ UNCHANGED <<link, ka, stop, lis, conn, cut, caller>>
  <2>1. Goes(d, "failed") /\ legs' = [legs EXCEPT ![d] = {}]
    BY <1>4 DEF Fail
  <2>2. /\ DOMAIN legs' = Clients /\ legs'[d] = {}
        /\ \A e \in Clients \ {d} : legs'[e] = legs[e]
    BY <1>1, <2>1 DEF ClientInv
  <2>5. ClientType' /\ KeepaliveInv'
    BY <1>4 DEF ClientInv, ClientType, KeepaliveInv
  <2>6. CallerInv'
    BY <1>4, <2>2 DEF ClientInv, CallerInv
  <2>3. ClientInv'
    BY <2>2, <2>5, <2>6 DEF ClientInv
  <2>4. PlaceInv'
    BY <1>1, <1>2, <1>4, <2>1, <2>2 DEF PlaceInv, Dials
  <2>. QED
    BY <2>3, <2>4
<1>5. CASE (\E proxy \in BOOLEAN : Connects(d, proxy)) /\ Goes(d, "up")
  <2>1. /\ ClientInv' /\ legs' = legs /\ link'[d] # "none"
        /\ \A e \in Clients \ {d} : link'[e] = link[e]
    BY <1>1, <1>5, ConnectKeeps
  <2>2. PlaceInv'
    BY <1>2, <1>5, <2>1 DEF PlaceInv, Dials
  <2>. QED
    BY <2>1, <2>2
<1>6. CASE /\ Goes(d, "hostkey")
           /\ legs' = [legs EXCEPT ![d] = @ \union {leg[d]}]
           /\ UNCHANGED <<link, ka, stop, lis, conn, cut, caller>>
  <2>1. /\ DOMAIN legs' = Clients
        /\ \A e \in Clients \ {d} : legs'[e] = legs[e]
    BY <1>1, <1>6 DEF ClientInv
  <2>2. ClientInv'
    BY <1>1, <1>6, <2>1 DEF ClientInv, ClientType, KeepaliveInv, CallerInv
  <2>3. PlaceInv'
    BY <1>1, <1>2, <1>6, <2>1 DEF PlaceInv, InHandshake, Dials
  <2>. QED
    BY <2>2, <2>3
<1>. QED
  BY <1>3, <1>4, <1>5, <1>6 DEF Outcome

\* What a method of authentication leaves: the keys as they are, and the dial past it.
Moved(d) ==
    /\ Outcome(d)
    /\ UNCHANGED <<chain, snap, offered, file, accepted>>
    /\ \/ leg' = leg
       \/ Here(d).mode = "proxyjump" /\ leg' = [leg EXCEPT ![d] = @ + 1] /\ Goes(d, "tcp")

LEMMA SucceedsMoves ==
    ASSUME NEW d \in Dials, Succeeds(d)
    PROVE  Moved(d) /\ \E l \in {"tcp", "up", "failed"} : Goes(d, l)
<1>1. UNCHANGED <<chain, snap, offered, file, accepted>> /\ LegDone(d)
  BY DEF Succeeds
<1>2. CASE /\ Here(d).mode = "proxyjump"
           /\ leg' = [leg EXCEPT ![d] = @ + 1]
           /\ Goes(d, "tcp")
           /\ UNCHANGED clientVars
  BY <1>1, <1>2 DEF Moved, Outcome
<1>3. CASE (\E proxy \in BOOLEAN : Connects(d, proxy)) /\ Goes(d, "up") /\ UNCHANGED leg
  BY <1>1, <1>3 DEF Moved, Outcome
<1>4. CASE Fail(d) /\ UNCHANGED <<link, ka, stop, lis, conn, cut, caller>> /\ UNCHANGED leg
  BY <1>1, <1>4 DEF Moved, Outcome, Fail
<1>. QED
  BY <1>1, <1>2, <1>3, <1>4 DEF LegDone

LEMMA AfterMoves ==
    ASSUME NEW d \in Dials, NEW next \in InHandshake, After(d, next)
    PROVE  Moved(d) /\ \E l \in {next, "failed"} : Goes(d, l)
<1>1. UNCHANGED <<chain, snap, leg, offered, file, accepted, link, ka, stop, lis, conn, cut, caller>>
  BY DEF After, Rest
<1>2. CASE Goes(d, next) /\ UNCHANGED legs
  BY <1>1, <1>2 DEF Moved, Outcome, clientVars
<1>3. CASE Fail(d)
  BY <1>1, <1>3 DEF Moved, Outcome, Fail
<1>. QED
  BY <1>2, <1>3 DEF After

LEMMA AsksMoves ==
    ASSUME NEW d \in Dials, NEW l \in InHandshake, Goes(d, l), UNCHANGED legs, Rest
    PROVE  Moved(d)
BY DEF Moved, Outcome, Rest, clientVars

LEMMA TriesMoves ==
    ASSUME NEW d \in Dials, NEW secret, NEW next \in InHandshake, Tries(d, secret, next)
    PROVE  Moved(d) /\ \E l \in {next, "tcp", "up", "failed"} : Goes(d, l)
<1>1. CASE Succeeds(d)
  BY <1>1, SucceedsMoves
<1>2. CASE After(d, next)
  BY <1>2, AfterMoves
<1>. QED
  BY <1>1, <1>2 DEF Tries

-----------------------------------------------------------------------------
(* The lock and the secrets kept *)

LEMMA LockAlone ==
    ASSUME PlaceInv, LockInv, NEW d \in Dials, pc[d] \notin {"phrasing", "typing"},
           NEW l, l \notin {"phrasing", "typing"}, Goes(d, l),
           UNCHANGED <<lock, shared, phrase>>
    PROVE  LockInv'
<1>1. \A e \in Dials : pc'[e] = IF e = d THEN l ELSE pc[e]
  BY DEF Goes, PlaceInv
<1>. QED
  BY <1>1 DEF LockInv, AskedOnce

\* The lock is taken for a secret that is not kept, and given back with the reply.
LEMMA LockTaken ==
    ASSUME PlaceInv, LockInv, NEW d \in Dials, NEW l \in {"phrasing", "typing"}, Goes(d, l),
           lock = None, lock' = d,
           l = "phrasing" => phrase = None,
           l = "typing" => shared = None,
           UNCHANGED <<shared, phrase>>
    PROVE  LockInv'
<1>1. \A e \in Dials : pc'[e] = IF e = d THEN l ELSE pc[e]
  BY DEF Goes, PlaceInv
<1>2. \A e \in Dials : pc[e] \notin {"phrasing", "typing"}
  BY ClientAssumption DEF LockInv, AskedOnce, Dials
<1>. QED
  BY <1>1, <1>2 DEF LockInv, AskedOnce

LEMMA LockGiven ==
    ASSUME PlaceInv, LockInv, NEW d \in Dials, pc[d] \in {"phrasing", "typing"},
           NEW l, l \notin {"phrasing", "typing"}, Goes(d, l), lock' = None
    PROVE  LockInv'
<1>1. \A e \in Dials : pc'[e] = IF e = d THEN l ELSE pc[e]
  BY DEF Goes, PlaceInv
<1>2. \A e \in Dials : pc[e] \in {"phrasing", "typing"} => e = d
  BY DEF LockInv, AskedOnce
<1>. QED
  BY <1>1, <1>2 DEF LockInv, AskedOnce

\* A method of authentication.
LEMMA AuthMoves ==
    ASSUME IInv, NEW d \in Dials,
           \/ TriesKeys(d) \/ LooksForPhrase(d) \/ PhraseGiven(d)
           \/ LooksForPassword(d) \/ PasswordGiven(d) \/ StartsKbi(d) \/ KbiGiven(d)
    PROVE  /\ pc[d] \in AfterKey
           /\ Moved(d)
           /\ \E l \in AfterKey \union {"tcp", "up", "failed"} : Goes(d, l)
           /\ LockInv'
<1>0. PlaceInv /\ LockInv
  BY DEF IInv
<1>. USE DEF AfterKey, InHandshake
<1>1. CASE TriesKeys(d)
  <2>1. pc[d] = "keys" /\ UNCHANGED <<lock, shared, phrase>>
    BY <1>1 DEF TriesKeys, NoPrompt
  <2>2. Moved(d) /\ \E l \in {"phrase", "password", "tcp", "up", "failed"} : Goes(d, l)
    BY <1>1, SucceedsMoves, AfterMoves DEF TriesKeys
  <2>. QED
    BY <1>0, <2>1, <2>2, LockAlone
<1>2. CASE LooksForPhrase(d) /\ phrase # None
  <2>1. pc[d] = "phrase" /\ UNCHANGED <<lock, shared, phrase>> /\ Tries(d, phrase, "password")
    BY <1>2 DEF LooksForPhrase
  <2>2. Moved(d) /\ \E l \in {"password", "tcp", "up", "failed"} : Goes(d, l)
    BY <2>1, TriesMoves
  <2>. QED
    BY <1>0, <2>1, <2>2, LockAlone
<1>3. CASE LooksForPhrase(d) /\ phrase = None
  <2>1. /\ pc[d] = "phrase" /\ lock = None /\ lock' = d /\ UNCHANGED <<shared, phrase>>
        /\ Goes(d, "phrasing") /\ UNCHANGED legs /\ Rest
    BY <1>3 DEF LooksForPhrase
  <2>2. Moved(d)
    BY <2>1, AsksMoves
  <2>3. LockInv'
    BY <1>0, <1>3, <2>1, LockTaken
  <2>. QED
    BY <2>1, <2>2, <2>3
<1>4. CASE PhraseGiven(d)
  <2>1. pc[d] = "phrasing" /\ lock' = None
    BY <1>4 DEF PhraseGiven
  <2>2. Moved(d) /\ \E l \in {"password", "tcp", "up", "failed"} : Goes(d, l)
    BY <1>4, AfterMoves, TriesMoves DEF PhraseGiven
  <2>. QED
    BY <1>0, <2>1, <2>2, LockGiven
<1>5. CASE LooksForPassword(d) /\ shared # None
  <2>1. pc[d] = "password" /\ UNCHANGED <<lock, shared, phrase>> /\ Tries(d, shared, "kbi")
    BY <1>5 DEF LooksForPassword
  <2>2. Moved(d) /\ \E l \in {"kbi", "tcp", "up", "failed"} : Goes(d, l)
    BY <2>1, TriesMoves
  <2>. QED
    BY <1>0, <2>1, <2>2, LockAlone
<1>6. CASE LooksForPassword(d) /\ shared = None
  <2>1. /\ pc[d] = "password" /\ lock = None /\ lock' = d /\ UNCHANGED <<shared, phrase>>
        /\ Goes(d, "typing") /\ UNCHANGED legs /\ Rest
    BY <1>6 DEF LooksForPassword
  <2>2. Moved(d)
    BY <2>1, AsksMoves
  <2>3. LockInv'
    BY <1>0, <1>6, <2>1, LockTaken
  <2>. QED
    BY <2>1, <2>2, <2>3
<1>7. CASE PasswordGiven(d)
  <2>1. pc[d] = "typing" /\ lock' = None
    BY <1>7 DEF PasswordGiven, Unlock
  <2>2. Moved(d) /\ \E l \in {"kbi", "tcp", "up", "failed"} : Goes(d, l)
    BY <1>7, AfterMoves, TriesMoves DEF PasswordGiven
  <2>. QED
    BY <1>0, <2>1, <2>2, LockGiven
<1>8. CASE StartsKbi(d)
  <2>1. pc[d] = "kbi" /\ UNCHANGED <<lock, shared, phrase>> /\ Rest
    BY <1>8 DEF StartsKbi
  <2>2. Moved(d) /\ \E l \in {"asking", "failed"} : Goes(d, l)
    <3>1. CASE Goes(d, "asking") /\ UNCHANGED legs
      BY <2>1, <3>1, AsksMoves
    <3>2. CASE Fail(d)
      BY <2>1, <3>2 DEF Moved, Outcome, Fail, Rest
    <3>. QED
      BY <1>8, <3>1, <3>2 DEF StartsKbi
  <2>. QED
    BY <1>0, <2>1, <2>2, LockAlone
<1>9. CASE KbiGiven(d)
  <2>1. pc[d] = "asking" /\ UNCHANGED <<lock, shared, phrase>>
    BY <1>9 DEF KbiGiven
  <2>2. Moved(d) /\ \E l \in {"tcp", "up", "failed"} : Goes(d, l)
    <3>1. CASE Succeeds(d)
      BY <3>1, SucceedsMoves
    <3>2. CASE Fail(d) /\ Rest
      BY <3>2 DEF Moved, Outcome, Fail, Rest
    <3>. QED
      BY <1>9, <3>1, <3>2 DEF KbiGiven
  <2>. QED
    BY <1>0, <2>1, <2>2, LockAlone
<1>. QED
  BY <1>1, <1>2, <1>3, <1>4, <1>5, <1>6, <1>7, <1>8, <1>9

-----------------------------------------------------------------------------
(* The host keys *)

\* Past the check of its key, a leg keeps to the entry until the dial is at another.
LEMMA KeyMoved ==
    ASSUME PlaceInv, KeyInv, NEW d \in Dials, pc[d] \in AfterKey, Moved(d),
           \E l \in AfterKey \union {"tcp", "up", "failed"} : Goes(d, l)
    PROVE  KeyInv'
<1>1. PICK l \in AfterKey \union {"tcp", "up", "failed"} : Goes(d, l)
  OBVIOUS
<1>2. /\ pc'[d] = l
      /\ \A e \in Dials \ {d} : pc'[e] = pc[e]
  BY <1>1 DEF Goes, PlaceInv
<1>3. /\ DOMAIN leg' = Dials
      /\ \A e \in Dials \ {d} : leg'[e] = leg[e]
      /\ leg'[d] = leg[d] \/ l = "tcp"
  BY <1>2 DEF Moved, KeyInv, Goes, PlaceInv
<1>4. \A e \in Dials : leg'[e] = leg[e] => Entry(e)' = Entry(e)
  BY DEF Moved, Entry, Here
<1>5. l \notin {"append", "reload"} /\ "tcp" \notin AfterKey
  BY DEF AfterKey, InHandshake
<1>6. \A e \in Dials : /\ pc'[e] = "append" => Entry(e)' \in accepted
                       /\ pc'[e] \in AfterKey \union {"reload"} => Entry(e)' \in file
  BY <1>2, <1>3, <1>4, <1>5 DEF KeyInv
<1>. QED
  BY <1>3, <1>6 DEF Moved, KeyInv

\* A step of the check itself, at the leg it is about.
LEMMA KeyChecked ==
    ASSUME PlaceInv, KeyInv, NEW d \in Dials, NEW l, Goes(d, l),
           UNCHANGED <<chain, leg, offered>>,
           file \subseteq file', accepted \subseteq accepted',
           file' \subseteq Known \union accepted',
           snap' = snap \/ snap' = [snap EXCEPT ![d] = file],
           l = "append" => Entry(d) \in accepted',
           l \in AfterKey \union {"reload"} => Entry(d) \in file'
    PROVE  KeyInv'
<1>1. \A e \in Dials : pc'[e] = IF e = d THEN l ELSE pc[e]
  BY DEF Goes, PlaceInv
<1>2. \A e \in Dials : Entry(e)' = Entry(e)
  BY DEF Entry, Here
<1>3. DOMAIN snap' = Dials /\ \A e \in Dials : snap'[e] \subseteq file'
  BY DEF KeyInv
<1>4. \A e \in Dials : /\ pc'[e] = "append" => Entry(e)' \in accepted'
                       /\ pc'[e] \in AfterKey \union {"reload"} => Entry(e)' \in file'
  BY <1>1, <1>2 DEF KeyInv
<1>. QED
  BY <1>3, <1>4 DEF KeyInv

\* The connection of a leg, and the check of its key.
LEMMA CheckMoves ==
    ASSUME IInv, NEW d \in Dials,
           \/ Reaches(d) \/ ReachesNot(d) \/ HostKey(d) \/ Confirmed(d) \/ Appends(d) \/ Reloads(d)
    PROVE  /\ pc[d] \in InHandshake \union {"tcp"}
           /\ Outcome(d)
           /\ LockInv'
           /\ KeyInv'
<1>0. PlaceInv /\ LockInv /\ KeyInv
  BY DEF IInv
<1>. USE DEF InHandshake
<1>1. CASE Reaches(d)
  <2>1. /\ pc[d] = "tcp" /\ Goes(d, "hostkey")
        /\ legs' = [legs EXCEPT ![d] = @ \union {leg[d]}]
        /\ UNCHANGED <<leg, snap, chain, file, lock, shared, phrase, accepted,
                       link, ka, stop, lis, conn, cut, caller>>
        /\ \E key : offered' = [offered EXCEPT ![d] = key]
    BY <1>1 DEF Reaches, batch
  <2>2. Outcome(d)
    BY <2>1 DEF Outcome
  <2>3. LockInv'
    BY <1>0, <2>1, LockAlone
  <2>4. /\ DOMAIN offered' = Dials
        /\ \A e \in Dials \ {d} : offered'[e] = offered[e]
    BY <1>0, <2>1 DEF KeyInv
  <2>5. /\ pc'[d] = "hostkey"
        /\ \A e \in Dials \ {d} : pc'[e] = pc[e]
    BY <1>0, <2>1 DEF Goes, PlaceInv
  <2>6. \A e \in Dials \ {d} : Entry(e)' = Entry(e)
    BY <2>1, <2>4 DEF Entry, Here
  <2>7. \A e \in Dials : /\ pc'[e] = "append" => Entry(e)' \in accepted
                         /\ pc'[e] \in AfterKey \union {"reload"} => Entry(e)' \in file
    BY <1>0, <2>5, <2>6 DEF KeyInv, AfterKey
  <2>8. KeyInv'
    BY <1>0, <2>1, <2>4, <2>7 DEF KeyInv
  <2>. QED
    BY <2>1, <2>2, <2>3, <2>8
<1>2. CASE ReachesNot(d)
  <2>1. pc[d] = "tcp" /\ Fail(d) /\ Goes(d, "failed") /\ Rest /\ UNCHANGED <<lock, shared, phrase>>
    BY <1>2 DEF ReachesNot, NoPrompt, Fail
  <2>2. Outcome(d)
    BY <2>1 DEF Outcome, Rest
  <2>3. LockInv'
    BY <1>0, <2>1, LockAlone
  <2>4. KeyInv'
    <3>1. UNCHANGED <<chain, leg, offered, snap, file, accepted>>
      BY <2>1 DEF Rest
    <3>2. file \subseteq Known \union accepted
      BY <1>0 DEF KeyInv
    <3>. QED
      BY <1>0, <2>1, <3>1, <3>2, KeyChecked DEF AfterKey
  <2>. QED
    BY <2>1, <2>2, <2>3, <2>4
<1>3. CASE HostKey(d)
  <2>1. pc[d] = "hostkey" /\ Rest /\ UNCHANGED <<lock, shared, phrase>>
    BY <1>3 DEF HostKey
  <2>2. \E l \in {"keys", "failed", "confirm"} :
           /\ Goes(d, l)
           /\ IF l = "failed" THEN Fail(d) ELSE UNCHANGED legs
           /\ l = "keys" => Entry(d) \in snap[d]
    BY <1>3 DEF HostKey, Fail
  <2>3. PICK l \in {"keys", "failed", "confirm"} :
           /\ Goes(d, l)
           /\ IF l = "failed" THEN Fail(d) ELSE UNCHANGED legs
           /\ l = "keys" => Entry(d) \in snap[d]
    BY <2>2
  <2>4. Outcome(d)
    BY <2>1, <2>3 DEF Outcome, Rest, clientVars
  <2>5. LockInv'
    BY <1>0, <2>1, <2>3, LockAlone
  <2>6. KeyInv'
    <3>1. UNCHANGED <<chain, leg, offered, snap, file, accepted>>
      BY <2>1 DEF Rest
    <3>2. file \subseteq Known \union accepted /\ snap[d] \subseteq file
      BY <1>0 DEF KeyInv
    <3>. QED
      BY <1>0, <2>3, <3>1, <3>2, KeyChecked DEF AfterKey
  <2>. QED
    BY <2>1, <2>4, <2>5, <2>6
<1>4. CASE Confirmed(d)
  <2>1. /\ pc[d] = "confirm"
        /\ UNCHANGED <<chain, snap, leg, offered, file, lock, shared, phrase,
                       link, ka, stop, lis, conn, cut, caller>>
        /\ accepted' = IF Answer(d) = "yes" THEN accepted \union {Entry(d)} ELSE accepted
    BY <1>4 DEF Confirmed
  <2>2. \E l \in {"append", "failed"} :
           /\ Goes(d, l)
           /\ IF l = "failed" THEN Fail(d) ELSE UNCHANGED legs
           /\ l = "append" => Answer(d) = "yes"
    BY <1>4 DEF Confirmed, IsYes, Fail
  <2>3. PICK l \in {"append", "failed"} :
           /\ Goes(d, l)
           /\ IF l = "failed" THEN Fail(d) ELSE UNCHANGED legs
           /\ l = "append" => Answer(d) = "yes"
    BY <2>2
  <2>4. Outcome(d)
    BY <2>1, <2>3 DEF Outcome, clientVars
  <2>5. LockInv'
    BY <1>0, <2>1, <2>3, LockAlone
  <2>6. KeyInv'
    <3>1. /\ accepted \subseteq accepted'
          /\ l = "append" => Entry(d) \in accepted'
          /\ file \subseteq Known \union accepted
      BY <1>0, <2>1, <2>3 DEF KeyInv
    <3>2. file' = file /\ file \subseteq Known \union accepted'
      BY <2>1, <3>1
    <3>. QED
      BY <1>0, <2>1, <2>3, <3>1, <3>2, KeyChecked DEF AfterKey
  <2>. QED
    BY <2>1, <2>4, <2>5, <2>6
<1>5. CASE Appends(d)
  <2>1. /\ pc[d] = "append"
        /\ UNCHANGED <<chain, snap, leg, offered, accepted, lock, shared, phrase,
                       link, ka, stop, lis, conn, cut, caller>>
    BY <1>5 DEF Appends
  <2>2. Entry(d) \in accepted /\ file \subseteq Known \union accepted
    BY <1>0, <2>1 DEF KeyInv
  <2>3. \E l \in {"reload", "failed"} :
           /\ Goes(d, l)
           /\ IF l = "failed" THEN Fail(d) /\ UNCHANGED file
              ELSE UNCHANGED legs /\ file' = file \union {Entry(d)}
    BY <1>5 DEF Appends, Fail
  <2>4. PICK l \in {"reload", "failed"} :
           /\ Goes(d, l)
           /\ IF l = "failed" THEN Fail(d) /\ UNCHANGED file
              ELSE UNCHANGED legs /\ file' = file \union {Entry(d)}
    BY <2>3
  <2>5. Outcome(d)
    BY <2>1, <2>4 DEF Outcome, clientVars
  <2>6. LockInv'
    BY <1>0, <2>1, <2>4, LockAlone
  <2>7. KeyInv'
    <3>1. /\ file \subseteq file' /\ file' \subseteq Known \union accepted'
          /\ l = "reload" => Entry(d) \in file'
      BY <2>1, <2>2, <2>4
    <3>. QED
      BY <1>0, <2>1, <2>4, <3>1, KeyChecked DEF AfterKey
  <2>. QED
    BY <2>1, <2>5, <2>6, <2>7
<1>6. CASE Reloads(d)
  <2>1. /\ pc[d] = "reload" /\ Goes(d, "keys")
        /\ snap' = [snap EXCEPT ![d] = file]
        /\ UNCHANGED clientVars
        /\ UNCHANGED <<chain, leg, offered, file, accepted, lock, shared, phrase>>
    BY <1>6 DEF Reloads, batch
  <2>2. Outcome(d)
    BY <2>1 DEF Outcome
  <2>3. LockInv'
    BY <1>0, <2>1, LockAlone
  <2>4. KeyInv'
    <3>1. Entry(d) \in file /\ file \subseteq Known \union accepted
      BY <1>0, <2>1 DEF KeyInv
    <3>. QED
      BY <1>0, <2>1, <3>1, KeyChecked DEF AfterKey
  <2>. QED
    BY <2>1, <2>2, <2>3, <2>4
<1>. QED
  BY <1>1, <1>2, <1>3, <1>4, <1>5, <1>6

-----------------------------------------------------------------------------
(* The invariant *)

LEMMA InitKeeps == Init => IInv
<1>. SUFFICES ASSUME Init PROVE IInv
  OBVIOUS
<1>0. MissMax \in Nat \ {0} /\ ClientInit /\ Dials = Clients
  BY ClientAssumption DEF Init, Dials
<1>1. ClientType
  <2>1. [at |-> "off", missed |-> 0, heard |-> FALSE]
           \in [at : {"off", "tick", "probe"}, missed : 0..MissMax, heard : BOOLEAN]
    BY <1>0
  <2>. QED
    BY <1>0, <2>1 DEF ClientInit, ClientType
<1>2. DOMAIN legs = Clients /\ KeepaliveInv /\ CallerInv
  BY <1>0 DEF ClientInit, KeepaliveInv, CallerInv
<1>3. PlaceInv
  BY <1>0 DEF Init, ClientInit, PlaceInv
<1>4. LockInv
  BY DEF Init, LockInv, AskedOnce
<1>5. KeyInv
  BY DEF Init, KeyInv, AfterKey, InHandshake
<1>. QED
  BY <1>1, <1>2, <1>3, <1>4, <1>5 DEF IInv, ClientInv

\* Steps that leave the dials and the clients alone.
LEMMA DialsAlone ==
    ASSUME IInv, UNCHANGED <<pc, leg, offered, snap, chain, file, lock, shared, phrase, accepted>>,
           UNCHANGED clientVars
    PROVE  IInv'
<1>1. UNCHANGED <<link, legs, ka, stop, lis, conn, cut, caller>>
  BY DEF clientVars
<1>2. ClientInv'
  BY <1>1 DEF IInv, ClientInv, ClientType, KeepaliveInv, CallerInv
<1>3. PlaceInv' /\ LockInv'
  BY <1>1 DEF IInv, PlaceInv, LockInv, AskedOnce
<1>4. KeyInv'
  BY DEF IInv, KeyInv, Entry, Here
<1>. QED
  BY <1>2, <1>3, <1>4 DEF IInv

LEMMA BeginKeeps ==
    ASSUME IInv, NEW d \in Dials, Begin(d)
    PROVE  IInv'
<1>0. PlaceInv /\ LockInv /\ KeyInv
  BY DEF IInv
<1>1. /\ pc[d] = "idle" /\ Goes(d, "tcp")
      /\ \E legsOf : chain' = [chain EXCEPT ![d] = legsOf]
      /\ snap' = [snap EXCEPT ![d] = file]
      /\ leg' = [leg EXCEPT ![d] = 1]
      /\ UNCHANGED <<offered, file, lock, shared, phrase, accepted>>
      /\ UNCHANGED <<link, legs, ka, stop, lis, conn, cut, caller>>
  BY DEF Begin, clientVars
<1>2. /\ pc' \in [Dials -> InHandshake \union {"idle", "tcp", "up", "failed"}]
      /\ pc'[d] = "tcp"
      /\ \A e \in Dials \ {d} : pc'[e] = pc[e]
  BY <1>0, <1>1 DEF Goes, PlaceInv
<1>3. ClientInv'
  BY <1>1 DEF IInv, ClientInv, ClientType, KeepaliveInv, CallerInv
<1>4. PlaceInv'
  BY <1>0, <1>1, <1>2 DEF PlaceInv
<1>5. LockInv'
  BY <1>0, <1>1, LockAlone
<1>6. /\ DOMAIN chain' = Dials /\ DOMAIN leg' = Dials /\ DOMAIN snap' = Dials
      /\ \A e \in Dials \ {d} : /\ chain'[e] = chain[e] /\ leg'[e] = leg[e]
                               /\ snap'[e] = snap[e]
      /\ snap'[d] = file
  BY <1>0, <1>1 DEF KeyInv
<1>7. \A e \in Dials \ {d} : Entry(e)' = Entry(e)
  BY <1>1, <1>6 DEF Entry, Here
<1>8. KeyInv'
  <2>1. pc'[d] \notin AfterKey \union {"append", "reload"}
    BY <1>2 DEF AfterKey, InHandshake
  <2>. QED
    BY <1>0, <1>1, <1>2, <1>6, <1>7, <2>1 DEF KeyInv
<1>. QED
  BY <1>3, <1>4, <1>5, <1>8 DEF IInv

LEMMA StepKeeps ==
    ASSUME IInv, NEW d \in Dials, Step(d)
    PROVE  IInv'
<1>0. ClientInv /\ PlaceInv /\ KeyInv
  BY DEF IInv
<1>1. /\ pc[d] \in InHandshake \union {"tcp"}
      /\ Outcome(d) /\ LockInv' /\ KeyInv'
  <2>1. CASE \/ Reaches(d) \/ ReachesNot(d) \/ HostKey(d) \/ Confirmed(d)
             \/ Appends(d) \/ Reloads(d)
    BY <2>1, CheckMoves
  <2>2. CASE \/ TriesKeys(d) \/ LooksForPhrase(d) \/ PhraseGiven(d)
             \/ LooksForPassword(d) \/ PasswordGiven(d) \/ StartsKbi(d) \/ KbiGiven(d)
    <3>1. /\ pc[d] \in AfterKey /\ Moved(d) /\ LockInv'
          /\ \E l \in AfterKey \union {"tcp", "up", "failed"} : Goes(d, l)
      BY <2>2, AuthMoves
    <3>2. KeyInv'
      BY <1>0, <3>1, KeyMoved
    <3>. QED
      BY <3>1, <3>2 DEF Moved, AfterKey
  <2>. QED
    BY <2>1, <2>2 DEF Step
<1>2. ClientInv' /\ PlaceInv'
  BY <1>0, <1>1, OutcomeKeeps
<1>. QED
  BY <1>1, <1>2 DEF IInv

\* The life of a client is not the dial's any more.
LEMMA LifeKeeps ==
    ASSUME IInv, NEW d \in Dials, ClientNext(d), UNCHANGED dialVars
    PROVE  IInv'
<1>1. UNCHANGED <<pc, leg, offered, snap, chain, file, lock, shared, phrase, accepted>>
  BY DEF dialVars, batch
<1>2. ClientInv' /\ Steady
  BY ClientKeeps DEF IInv, Dials
<1>3. PlaceInv'
  BY <1>1, <1>2 DEF IInv, PlaceInv, Steady, Dials
<1>4. LockInv' /\ KeyInv'
  BY <1>1 DEF IInv, LockInv, AskedOnce, KeyInv, Entry, Here
<1>. QED
  BY <1>2, <1>3, <1>4 DEF IInv

LEMMA NextKeeps == IInv /\ [Next]_vars => IInv'
<1>. SUFFICES ASSUME IInv, [Next]_vars PROVE IInv'
  OBVIOUS
<1>1. CASE Edits /\ UNCHANGED <<dialVars, clientVars>>
  BY <1>1, DialsAlone DEF dialVars, batch
<1>2. CASE Quits
  BY <1>2, DialsAlone DEF Quits
<1>3. CASE \E d \in Dials : Begin(d)
  BY <1>3, BeginKeeps
<1>4. CASE \E d \in Dials : TimerFires(d) \/ Resolves(d)
  BY <1>4, DialsAlone DEF TimerFires, Resolves, batch
<1>5. CASE \E d \in Dials : Step(d)
  BY <1>5, StepKeeps
<1>6. CASE \E d \in Dials : ClientNext(d) /\ UNCHANGED dialVars
  BY <1>6, LifeKeeps
<1>7. CASE UNCHANGED vars
  BY <1>7, DialsAlone DEF vars, dialVars, batch
<1>. QED
  BY <1>1, <1>2, <1>3, <1>4, <1>5, <1>6, <1>7 DEF Next

-----------------------------------------------------------------------------
(* Induction over the levels of the options: a least counterexample *)

LEMMA Least ==
    ASSUME NEW T, T \subseteq Nat, T # {}
    PROVE  \E x \in T : \A y \in T : x <= y
<1>1. PICK x \in T : \A y \in T : <<y, x>> \notin OpToRel(<, Nat)
  BY NatLessThanWellFounded, WFMin
<1>2. \A y \in T : ~(y < x)
  BY <1>1 DEF OpToRel
<1>. QED
  BY <1>2

LEMMA Induct ==
    ASSUME NEW T, 0 \in T, \A n \in Nat : n \in T => n + 1 \in T
    PROVE  Nat \subseteq T
<1>1. CASE Nat \ T # {}
  <2>1. PICK x \in Nat \ T : \A y \in Nat \ T : x <= y
    BY <1>1, Least
  <2>2. x - 1 \in Nat /\ x - 1 \in T
    BY <2>1
  <2>. QED
    BY <2>1, <2>2
<1>. QED
  BY <1>1

LEMMA HasMax ==
    ASSUME NEW n \in Nat, NEW s, s \subseteq 1..n, s # {}
    PROVE  \E x \in s : \A y \in s : y <= x
<1> DEFINE T == {n - l : l \in s}
<1>1. T \subseteq Nat /\ T # {}
  <2>1. \A l \in s : n - l \in Nat
    OBVIOUS
  <2>. QED
    BY <2>1
<1>2. PICK x \in T : \A y \in T : x <= y
  BY <1>1, Least
<1>3. PICK l \in s : x = n - l
  BY <1>2
<1>4. \A m \in s : n - l <= n - m
  BY <1>2, <1>3
<1>. QED
  BY <1>3, <1>4

LEMMA FunctionIsSeq ==
    ASSUME NEW S, NEW n \in Nat, NEW f \in [1..n -> S]
    PROVE  f \in Seq(S) /\ Len(f) = n
<1>1. f \in UNION { [1..m -> S] : m \in Nat }
  OBVIOUS
<1>2. f \in Seq(S)
  BY <1>1, SeqDef, Zenon
<1>3. DOMAIN f = 1..n /\ DOMAIN f = 1..Len(f) /\ Len(f) \in Nat
  BY <1>2, LenProperties
<1>. QED
  BY <1>2, <1>3

-----------------------------------------------------------------------------
(* The options in the store *)

\* What the store keeps of options that were set: an empty chain may be lost.
Kept(o, w) ==
    /\ o.key = w.key
    /\ o.chain = w.chain \/ (w.chain = <<>> /\ o.chain = Inherit)

TargetsInv ==
    /\ opts \in Seq(Option) /\ disk \in Seq(Option) /\ wanted \in Seq(Option)
    /\ opts # <<>>
    /\ Len(opts) = Len(disk) /\ Len(opts) = Len(wanted)
    /\ \A l \in 1..Session - 1 : opts[l] = disk[l]
    /\ \A l \in 1..Session : Kept(opts[l], wanted[l]) /\ Kept(disk[l], wanted[l])

LEMMA OptsFacts ==
    ASSUME TargetsInv
    PROVE  /\ Session \in Nat \ {0}
           /\ DOMAIN opts = 1..Session /\ DOMAIN disk = 1..Session /\ DOMAIN wanted = 1..Session
           /\ \A l \in 1..Session : opts[l] \in Option /\ disk[l] \in Option /\ wanted[l] \in Option
<1>1. Len(opts) \in Nat /\ Len(opts) # 0
  BY EmptySeq, LenProperties DEF TargetsInv
<1>2. DOMAIN opts = 1..Len(opts) /\ DOMAIN disk = 1..Len(opts) /\ DOMAIN wanted = 1..Len(opts)
  BY LenProperties DEF TargetsInv
<1>3. \A l \in 1..Len(opts) : opts[l] \in Option /\ disk[l] \in Option /\ wanted[l] \in Option
  BY ElementOfSeq DEF TargetsInv
<1>. QED
  BY <1>1, <1>2, <1>3 DEF Session

LEMMA WrittenKept ==
    ASSUME NEW o \in Option, NEW w \in Option, Kept(o, w)
    PROVE  Written(o) \in Option /\ Kept(Written(o), w)
BY DEF Option, Kept, Written

\* One level is put into the store, as it was set.
LEMMA PutKeeps ==
    ASSUME TargetsInv, NEW level \in 1..Session, NEW o \in Option, NEW w \in Option, Kept(o, w),
           wanted' = [wanted EXCEPT ![level] = w],
           IF level = Session THEN PutSession(o) ELSE PutFolder(level, o)
    PROVE  TargetsInv'
<1>1. Written(o) \in Option /\ Kept(Written(o), w)
  BY WrittenKept
<1>2. level \in 1..Len(opts) /\ level \in 1..Len(disk) /\ level \in 1..Len(wanted)
  BY DEF TargetsInv, Session
<1>3. /\ wanted' \in Seq(Option) /\ Len(wanted') = Len(wanted)
      /\ \A j \in 1..Len(opts) : wanted'[j] = IF j = level THEN w ELSE wanted[j]
  BY <1>2, ExceptSeq DEF TargetsInv
<1>4. disk' = [disk EXCEPT ![level] = Written(o)]
  BY DEF PutSession, PutFolder
<1>5. /\ disk' \in Seq(Option) /\ Len(disk') = Len(disk)
      /\ \A j \in 1..Len(opts) : disk'[j] = IF j = level THEN Written(o) ELSE disk[j]
  <2>1. PICK x \in Option : x = Written(o)
    BY <1>1
  <2>2. disk' = [disk EXCEPT ![level] = x] /\ disk \in Seq(Option) /\ Len(disk) = Len(opts)
    BY <1>4, <2>1 DEF TargetsInv
  <2>. QED
    BY <1>2, <2>1, <2>2, ExceptSeq
<1>6. CASE level = Session
  <2>1. opts' = [opts EXCEPT ![level] = o]
    BY <1>6 DEF PutSession
  <2>2. /\ opts' \in Seq(Option) /\ Len(opts') = Len(opts)
        /\ \A j \in 1..Len(opts) : opts'[j] = IF j = level THEN o ELSE opts[j]
    BY <1>2, <2>1, ExceptSeq DEF TargetsInv
  <2>3. opts' # <<>>
    BY <1>2, <2>2
  <2>4. Session' = Session /\ Session = Len(opts) /\ Session \in Nat
    BY <2>2, OptsFacts DEF Session
  <2>5. \A l \in 1..Session' - 1 : opts'[l] = disk'[l]
    BY <1>5, <1>6, <2>2, <2>4 DEF TargetsInv
  <2>6. \A l \in 1..Session' : Kept(opts'[l], wanted'[l]) /\ Kept(disk'[l], wanted'[l])
    BY <1>1, <1>3, <1>5, <2>2, <2>4 DEF TargetsInv
  <2>. QED
    BY <1>3, <1>5, <2>2, <2>3, <2>5, <2>6 DEF TargetsInv
<1>7. CASE level # Session
  <2>1. opts' = disk'
    BY <1>7 DEF PutFolder
  <2>2. Session' = Session /\ Session = Len(opts) /\ Session \in Nat
    BY <1>5, <2>1, OptsFacts DEF Session, TargetsInv
  <2>3. opts' # <<>>
    BY <1>2, <1>5, <2>1
  <2>4. \A l \in 1..Session' : Kept(disk'[l], wanted'[l])
    BY <1>1, <1>3, <1>5, <2>2 DEF TargetsInv
  <2>5. Len(opts') = Len(opts) /\ opts' \in Seq(Option)
    BY <1>5, <2>1 DEF TargetsInv
  <2>. QED
    BY <1>3, <1>5, <2>1, <2>3, <2>4, <2>5 DEF TargetsInv
<1>. QED
  BY <1>6, <1>7

\* Edits and reloads keep what was set, but for an empty chain.
LEMMA EditsKeep ==
    ASSUME TargetsInv, Edits, scene \in DOMAIN Scenes
    PROVE  TargetsInv'
<1>0. /\ \A hops \in Scene.hops : hops \in Seq(Hop)
      /\ Scene.files \subseteq {Inherit} \union Files
  BY DialAssumption DEF Scene
<1>. USE OptsFacts
<1>1. ASSUME NEW level \in DOMAIN opts, NEW hops \in Scene.hops, SetJumpChain(level, hops)
      PROVE  TargetsInv'
  <2> DEFINE o == [opts[level] EXCEPT !.chain = hops]
             w == [wanted[level] EXCEPT !.chain = hops]
  <2>1. level \in 1..Session /\ opts[level] \in Option /\ wanted[level] \in Option
        /\ Kept(opts[level], wanted[level]) /\ hops \in Seq(Hop)
    BY <1>0 DEF TargetsInv
  <2>2. o \in Option /\ w \in Option /\ Kept(o, w)
    BY <2>1 DEF Option, Kept
  <2>3. wanted' = [wanted EXCEPT ![level] = w]
        /\ IF level = Session THEN PutSession(o) ELSE PutFolder(level, o)
    BY <1>1 DEF SetJumpChain, Wants
  <2>. HIDE DEF o, w
  <2>. QED
    BY <2>1, <2>2, <2>3, PutKeeps
<1>2. ASSUME NEW key \in Scene.files, SaveSession(key)
      PROVE  TargetsInv'
  <2> DEFINE o == Saved(key)
             w == [wanted[Session] EXCEPT !.key = key]
  <2>1. Session \in 1..Session /\ opts[Session] \in Option /\ wanted[Session] \in Option
        /\ Kept(opts[Session], wanted[Session]) /\ key \in {Inherit} \union Files
    BY <1>0 DEF TargetsInv
  <2>2. o \in Option /\ w \in Option /\ Kept(o, w)
    BY <2>1 DEF Option, Kept, Saved
  <2>3. wanted' = [wanted EXCEPT ![Session] = w] /\ PutSession(o)
    BY <1>2 DEF SaveSession, Wants
  <2>. HIDE DEF o, w
  <2>. QED
    BY <2>1, <2>2, <2>3, PutKeeps
<1>3. ASSUME NEW level \in DOMAIN opts, SaveFolder(level)
      PROVE  TargetsInv'
  <2>1. level \in 1..Session /\ opts[level] \in Option /\ wanted[level] \in Option
        /\ Kept(opts[level], wanted[level])
    BY DEF TargetsInv
  <2>2. /\ level # Session /\ PutFolder(level, opts[level])
        /\ wanted' = [wanted EXCEPT ![level] = wanted[level]]
    BY <1>3 DEF SaveFolder, TargetsInv
  <2>. QED
    BY <2>1, <2>2, PutKeeps
<1>4. CASE LoadTree
  <2>1. opts' = disk /\ disk' = disk /\ wanted' = wanted /\ Len(disk) = Session
    BY <1>4 DEF LoadTree, TargetsInv, Session
  <2>2. disk # <<>>
    <3>1. Len(disk) # 0
      BY <2>1
    <3>. QED
      BY <3>1
  <2>. QED
    BY <2>1, <2>2 DEF TargetsInv, Session
<1>. QED
  BY <1>1, <1>2, <1>3, <1>4 DEF Edits

-----------------------------------------------------------------------------
(* The options a session has in effect *)

Fields == {"chain", "key"}

\* The levels that set an option, and what the deepest of them sets.
SetIn(f, s) == {l \in s : opts[l][f] # Inherit}
Deepest(s) == CHOOSE l \in s : \A m \in s : m <= l
OptionIn(f, s) == IF SetIn(f, s) = {} THEN Inherit ELSE opts[Deepest(SetIn(f, s))][f]

LEMMA DeepestIs ==
    ASSUME NEW n \in Nat, NEW s, s \subseteq 1..n, NEW x \in s, \A m \in s : m <= x
    PROVE  Deepest(s) = x
<1>1. \E l \in s : \A m \in s : m <= l
  OBVIOUS
<1>2. Deepest(s) \in s /\ \A m \in s : m <= Deepest(s)
  BY <1>1, Zenon DEF Deepest
<1>3. PICK y \in s : y = Deepest(s) /\ \A m \in s : m <= y
  BY <1>2
<1>4. x <= y /\ y <= x /\ x \in Int /\ y \in Int
  BY <1>3
<1>5. x = y
  BY <1>4
<1>. QED
  BY <1>3, <1>5

LEMMA DeepestIn ==
    ASSUME NEW n \in Nat, NEW s, s \subseteq 1..n, s # {}
    PROVE  Deepest(s) \in s /\ \A m \in s : m <= Deepest(s)
<1>1. PICK x \in s : \A m \in s : m <= x
  BY HasMax
<1>2. Deepest(s) = x
  BY <1>1, DeepestIs
<1>. QED
  BY <1>1, <1>2

\* Overlaying level after level gives each option as the deepest level sets it.
LEMMA EffectiveIs ==
    ASSUME TargetsInv
    PROVE  Effective = [f \in Fields |-> OptionIn(f, 1..Session)]
<1> DEFINE n == Session
           S == 1..n
           base == [chain |-> Inherit, key |-> Inherit]
           D(g) == g = [s \in SUBSET S |->
                          IF s = {} THEN base ELSE Overlay(g[s \ {Max(s)}], opts[Max(s)])]
           h == [s \in SUBSET S |-> [f \in Fields |-> OptionIn(f, s)]]
           c == CHOOSE g : D(g)
<1>1. n \in Nat /\ DOMAIN opts = S
  BY OptsFacts
<1>2. ASSUME NEW s \in SUBSET S, s # {}
      PROVE  /\ Max(s) \in s /\ s \ {Max(s)} \in SUBSET S
             /\ \A m \in s : m <= Max(s)
  <2>1. PICK x \in s : \A y \in s : y <= x
    BY <1>1, <1>2, HasMax
  <2>2. \A y \in s : x >= y
    BY <1>1, <2>1
  <2>3. Max(s) \in s /\ \A y \in s : Max(s) >= y
    BY <2>2, Zenon DEF Max
  <2>. QED
    BY <1>1, <2>3
<1>3. D(h)
  <2>1. SUFFICES ASSUME NEW s \in SUBSET S
                 PROVE  h[s] = IF s = {} THEN base ELSE Overlay(h[s \ {Max(s)}], opts[Max(s)])
    BY Zenon
  <2>2. CASE s = {}
    <3>1. \A f \in Fields : OptionIn(f, s) = Inherit
      BY <2>2 DEF OptionIn, SetIn
    <3>. QED
      BY <2>2, <3>1 DEF Fields
  <2>3. CASE s # {}
    <3> DEFINE x == Max(s)
               t == s \ {x}
    <3>1. x \in s /\ t \in SUBSET S /\ \A m \in s : m <= x
      BY <1>2, <2>3
    <3>2. ASSUME NEW f \in Fields
          PROVE  OptionIn(f, s) = IF opts[x][f] = Inherit THEN OptionIn(f, t) ELSE opts[x][f]
      <4>1. CASE opts[x][f] = Inherit
        <5>1. SetIn(f, s) = SetIn(f, t)
          BY <4>1 DEF SetIn
        <5>. QED
          BY <4>1, <5>1 DEF OptionIn
      <4>2. CASE opts[x][f] # Inherit
        <5>1. x \in SetIn(f, s) /\ SetIn(f, s) \subseteq 1..n /\ \A m \in SetIn(f, s) : m <= x
          BY <3>1, <4>2 DEF SetIn
        <5>2. Deepest(SetIn(f, s)) = x
          <6>. HIDE DEF x, n
          <6>. QED
            BY <1>1, <5>1, DeepestIs
        <5>. QED
          BY <4>2, <5>1, <5>2 DEF OptionIn
      <4>. QED
        BY <4>1, <4>2
    <3>3. h[t] = [f \in Fields |-> OptionIn(f, t)] /\ h[s] = [f \in Fields |-> OptionIn(f, s)]
      BY <3>1
    <3>. HIDE DEF h, x, t
    <3>4. Overlay(h[t], opts[x]) = [f \in Fields |-> IF opts[x][f] = Inherit THEN OptionIn(f, t) ELSE opts[x][f]]
      BY <3>3 DEF Overlay
    <3>5. h[s] = Overlay(h[t], opts[x])
      BY <3>2, <3>3, <3>4
    <3>. QED
      BY <2>3, <3>5 DEF x, t
  <2>. QED
    BY <2>2, <2>3
<1>4. D(c)
  <2>. HIDE DEF D, h
  <2>. QED
    BY <1>3
<1>5. Effective = c[S]
  BY <1>1 DEF Effective, FoldLeft, MapThenFoldSet
<1>. HIDE DEF c, h
<1>6. ASSUME NEW k \in Nat, k + 1 <= n
      PROVE  /\ 1..k + 1 \in SUBSET S /\ 1..k + 1 # {}
             /\ Max(1..k + 1) = k + 1 /\ (1..k + 1) \ {Max(1..k + 1)} = 1..k
             /\ 1..k \in SUBSET S
  <2> DEFINE s == 1..k + 1
  <2>1. s \in SUBSET S /\ s # {} /\ 1..k \in SUBSET S /\ k + 1 \in s
    BY <1>1, <1>6
  <2>2. Max(s) \in s /\ k + 1 <= Max(s)
    <3>. HIDE DEF s
    <3>. QED
      BY <1>2, <2>1
  <2>3. Max(s) = k + 1
    BY <2>2
  <2>. QED
    BY <2>1, <2>3
<1> DEFINE G == {k \in Nat : k <= n => c[1..k] = h[1..k]}
<1>7. 0 \in G
  <2>1. 1..0 = {} /\ {} \in SUBSET S
    OBVIOUS
  <2>2. c[{}] = h[{}]
    BY <1>3, <1>4, <2>1
  <2>. QED
    BY <2>1, <2>2
<1>8. ASSUME NEW k \in Nat, k \in G PROVE k + 1 \in G
  <2>1. SUFFICES ASSUME k + 1 <= n PROVE c[1..k + 1] = h[1..k + 1]
    OBVIOUS
  <2>2. c[1..k] = h[1..k]
    BY <1>1, <1>8, <2>1
  <2>3. /\ c[1..k + 1] = Overlay(c[1..k], opts[k + 1])
        /\ h[1..k + 1] = Overlay(h[1..k], opts[k + 1])
    <3> DEFINE s == 1..k + 1
               t == 1..k
    <3>1. s \in SUBSET S /\ s # {} /\ Max(s) = k + 1 /\ s \ {Max(s)} = t
      BY <1>6, <2>1
    <3>. HIDE DEF s, t, S
    <3>2. c[s] = Overlay(c[s \ {Max(s)}], opts[Max(s)]) /\ h[s] = Overlay(h[s \ {Max(s)}], opts[Max(s)])
      BY <1>3, <1>4, <3>1, Zenon
    <3>. QED
      BY <3>1, <3>2 DEF s, t
  <2>. QED
    BY <2>2, <2>3
<1>9. c[1..n] = h[1..n]
  <2>1. n \in G
    <3>. HIDE DEF G, n
    <3>. QED
      BY <1>1, <1>7, <1>8, Induct
  <2>. QED
    BY <1>1, <2>1
<1>10. h[S] = [f \in Fields |-> OptionIn(f, S)]
  BY DEF h
<1>. QED
  BY <1>5, <1>9, <1>10

-----------------------------------------------------------------------------
(* The legs of a dial *)

Hops == IF Effective.chain = Inherit THEN <<>> ELSE Effective.chain

\* The options in effect are those set nearest to the session, or the chain is what is
\* nearest without those that were cleared.
LEMMA EffectiveMeans ==
    ASSUME TargetsInv
    PROVE  /\ Hops \in Seq(Hop)
           /\ Nearest("key", SetAt("key"), GlobalKey)
                = IF Effective.key = Inherit THEN GlobalKey ELSE Effective.key
           /\ \/ Hops = Nearest("chain", SetAt("chain"), <<>>)
              \/ /\ Nearest("chain", SetAt("chain"), <<>>) = <<>>
                 /\ Hops = Nearest("chain", SetAt("chain") \ ClearedAt, <<>>)
<1> DEFINE n == Session
           K == SetIn("key", 1..n)
           C == SetIn("chain", 1..n)
           V == SetAt("chain")
           W == SetAt("chain") \ ClearedAt
<1>1. n \in Nat /\ DOMAIN opts = 1..n /\ DOMAIN wanted = 1..n
  BY OptsFacts
<1>2. Effective.key = OptionIn("key", 1..n) /\ Effective.chain = OptionIn("chain", 1..n)
  BY EffectiveIs DEF Fields
<1>3. \A l \in 1..n : /\ opts[l].key = wanted[l].key
                      /\ \/ opts[l].chain = wanted[l].chain
                         \/ wanted[l].chain = <<>> /\ opts[l].chain = Inherit
                      /\ opts[l].chain \in {Inherit} \union Seq(Hop)
  BY OptsFacts DEF TargetsInv, Kept, Option
<1>4. ASSUME NEW s, s \subseteq 1..n, s # {}
      PROVE  /\ (CHOOSE l \in s : \A m \in s : m <= l) = Deepest(s)
             /\ Deepest(s) \in s
             /\ \A m \in s : m <= Deepest(s)
  BY <1>1, <1>4, DeepestIn DEF Deepest
<1>5. K = SetAt("key")
  BY <1>1, <1>3 DEF SetIn, SetAt
<1>6. Nearest("key", SetAt("key"), GlobalKey)
                = IF Effective.key = Inherit THEN GlobalKey ELSE Effective.key
  <2>1. CASE K = {}
    BY <1>2, <1>5, <2>1 DEF Nearest, OptionIn
  <2>2. CASE K # {}
    <3>1. K \subseteq 1..n
      BY DEF SetIn
    <3>2. (CHOOSE l \in K : \A m \in K : m <= l) = Deepest(K) /\ Deepest(K) \in K
      <4>. HIDE DEF K, n
      <4>. QED
        BY <1>4, <2>2, <3>1
    <3>3. opts[Deepest(K)].key # Inherit /\ opts[Deepest(K)].key = wanted[Deepest(K)].key
      BY <1>3, <3>1, <3>2 DEF SetIn
    <3>4. Effective.key = opts[Deepest(K)].key
      BY <1>2, <2>2 DEF OptionIn
    <3>5. Nearest("key", K, GlobalKey) = wanted[Deepest(K)].key
      <4>. HIDE DEF K
      <4>. QED
        BY <2>2, <3>2 DEF Nearest
    <3>. QED
      BY <1>5, <3>3, <3>4, <3>5
  <2>. QED
    BY <2>1, <2>2
<1>7. V \subseteq 1..n /\ W \subseteq V /\ C \subseteq V
  BY <1>1, <1>3 DEF SetIn, SetAt, ClearedAt
<1>a. ASSUME NEW l \in C PROVE opts[l].chain = wanted[l].chain /\ wanted[l].chain \in Seq(Hop)
  BY <1>1, <1>3 DEF SetIn
<1>b. ASSUME NEW l \in V, l \notin C PROVE wanted[l].chain = <<>>
  BY <1>1, <1>3, <1>b DEF SetIn, SetAt
<1>c. ASSUME NEW l \in V, l \notin W PROVE wanted[l].chain = <<>>
  BY <1>c DEF SetAt, ClearedAt
<1>8. W \subseteq C
  BY <1>7, <1>b DEF ClearedAt
<1>9. ASSUME NEW s, s \subseteq 1..n
      PROVE  Nearest("chain", s, <<>>) = IF s = {} THEN <<>> ELSE wanted[Deepest(s)].chain
  <2>1. CASE s = {}
    BY <2>1 DEF Nearest
  <2>2. CASE s # {}
    <3>1. (CHOOSE l \in s : \A m \in s : m <= l) = Deepest(s)
      BY <1>4, <1>9, <2>2
    <3>2. Nearest("chain", s, <<>>) = wanted[CHOOSE l \in s : \A m \in s : m <= l]["chain"]
      BY <2>2, Zenon DEF Nearest
    <3>. QED
      BY <2>2, <3>1, <3>2, Zenon
  <2>. QED
    BY <2>1, <2>2
<1>10. Hops = IF C = {} THEN <<>> ELSE wanted[Deepest(C)].chain
  <2>1. CASE C = {}
    BY <1>2, <2>1 DEF OptionIn, Hops
  <2>2. CASE C # {}
    <3>1. C \subseteq 1..n
      BY DEF SetIn
    <3>2. Deepest(C) \in C
      <4>. HIDE DEF C, n
      <4>. QED
        BY <1>4, <2>2, <3>1
    <3>3. opts[Deepest(C)].chain # Inherit
      BY <3>2 DEF SetIn
    <3>4. opts[Deepest(C)].chain = wanted[Deepest(C)].chain
      <4>1. PICK e \in C : e = Deepest(C)
        BY <3>2
      <4>2. opts[e].chain = wanted[e].chain
        BY <1>a
      <4>. QED
        BY <4>1, <4>2
    <3>5. Effective.chain = opts[Deepest(C)].chain
      BY <1>2, <2>2 DEF OptionIn
    <3>. QED
      BY <2>2, <3>3, <3>4, <3>5 DEF Hops
  <2>. QED
    BY <2>1, <2>2
<1>. HIDE DEF C, V, W, K, n
<1>11. Hops \in Seq(Hop)
  <2>1. CASE C = {}
    <3>1. Hops = <<>>
      BY <1>10, <2>1
    <3>. QED
      BY <3>1, EmptySeq
  <2>2. CASE C # {}
    <3>1. PICK e \in C : e = Deepest(C)
      BY <1>4, <1>7, <2>2
    <3>2. wanted[e].chain \in Seq(Hop)
      BY <1>a
    <3>. QED
      BY <1>10, <2>2, <3>1, <3>2
  <2>. QED
    BY <2>1, <2>2
<1>12. \/ Hops = Nearest("chain", V, <<>>)
       \/ Nearest("chain", V, <<>>) = <<>> /\ Hops = Nearest("chain", W, <<>>)
  <2>1. CASE C = {}
    <3>1. Hops = <<>> /\ W = {} /\ Nearest("chain", W, <<>>) = <<>>
      BY <1>7, <1>8, <1>9, <1>10, <2>1
    <3>2. Nearest("chain", V, <<>>) = <<>>
      <4>1. CASE V = {}
        BY <1>7, <1>9, <4>1
      <4>2. CASE V # {}
        <5>1. PICK v \in V : v = Deepest(V)
          BY <1>4, <1>7, <4>2
        <5>2. wanted[v].chain = <<>>
          BY <1>b, <2>1
        <5>. QED
          BY <1>7, <1>9, <4>2, <5>1, <5>2
      <4>. QED
        BY <4>1, <4>2
    <3>. QED
      BY <3>1, <3>2
  <2>2. CASE C # {}
    <3> DEFINE e == Deepest(C)
               v == Deepest(V)
    <3>1. e \in C /\ e \in V /\ v \in V /\ V # {} /\ Hops = wanted[e].chain
      BY <1>4, <1>7, <1>10, <2>2
    <3>2. Nearest("chain", V, <<>>) = wanted[v].chain
      BY <1>7, <1>9, <3>1
    <3>3. \A m \in C : m <= e
      BY <1>4, <1>7, <2>2
    <3>4. \A m \in V : m <= v
      BY <1>4, <1>7, <3>1
    <3>. HIDE DEF e, v
    <3>5. CASE v \in C
      <4>1. v = e
        <5>1. v \in Int /\ e \in Int
          BY <1>7, <3>1 DEF n
        <5>2. v <= e /\ e <= v
          BY <3>1, <3>3, <3>4, <3>5
        <5>. QED
          BY <5>1, <5>2
      <4>. QED
        BY <3>1, <3>2, <4>1
    <3>6. CASE v \notin C
      <4>1. Nearest("chain", V, <<>>) = <<>>
        BY <1>b, <3>1, <3>2, <3>6
      <4>2. CASE e \in W
        <5>1. Deepest(W) \in W /\ \A m \in W : m <= Deepest(W)
          BY <1>4, <1>7, <4>2
        <5>2. PICK w \in W : w = Deepest(W) /\ \A m \in W : m <= w
          BY <5>1
        <5>3. w = e
          <6>1. w \in Int /\ e \in Int
            BY <1>7, <3>1, <5>2
          <6>2. w \in C /\ w <= e /\ e <= w
            BY <1>8, <3>3, <4>2, <5>2
          <6>. QED
            BY <6>1, <6>2
        <5>4. Nearest("chain", W, <<>>) = wanted[Deepest(W)].chain
          BY <1>7, <1>9, <4>2
        <5>. QED
          BY <3>1, <4>1, <5>2, <5>3, <5>4
      <4>3. CASE e \notin W
        <5>2. wanted[e].chain = <<>>
          BY <1>c, <3>1, <4>3
        <5>. QED
          BY <3>1, <3>2, <4>1, <5>2
      <4>. QED
        BY <4>2, <4>3
    <3>. QED
      BY <3>5, <3>6
  <2>. QED
    BY <2>1, <2>2
<1>. QED
  BY <1>6, <1>11, <1>12 DEF V, W

\* No alternative user stands for another.
LEMMA LookSound == \A name : Look(name) \notin DOMAIN Alts
BY TargetsAssumption DEF Look

LEMMA HopChainFacts ==
    ASSUME TargetsInv
    PROVE  /\ Len(Hops) \in Nat /\ DOMAIN Hops = 1..Len(Hops)
           /\ Len(HopChain) = Len(Hops) /\ DOMAIN HopChain = 1..Len(Hops)
           /\ HopChain # <<>> => Len(Hops) # 0
           /\ \A i \in 1..Len(Hops) :
                 /\ HopChain[i].host = Hops[i].host
                 /\ HopChain[i].mode = Hops[i].mode /\ Hops[i].mode \in Modes
                 /\ HopChain[i].user = Look(Hops[i].user)
                 /\ HopChain[i].override = Look(Hops[i].override)
<1>1. Hops \in Seq(Hop)
  BY EffectiveMeans
<1>2. /\ Len(Hops) \in Nat /\ DOMAIN Hops = 1..Len(Hops)
      /\ \A i \in 1..Len(Hops) : Hops[i] \in Hop
  BY <1>1, LenProperties, ElementOfSeq
<1>3. CASE Effective.chain = Inherit
  <2>1. Hops = <<>> /\ HopChain = <<>>
    BY <1>3 DEF Hops, HopChain
  <2>2. Len(<<>>) = 0 /\ DOMAIN <<>> = 1..0
    OBVIOUS
  <2>. QED
    BY <2>1, <2>2
<1>4. CASE Effective.chain # Inherit
  <2> DEFINE n == Len(Hops)
             f == [i \in 1..n |-> [Hops[i] EXCEPT !.user = Look(@), !.override = Look(@)]]
             S == {f[i] : i \in 1..n}
  <2>1. Hops = Effective.chain
    BY <1>4 DEF Hops
  <2>2. HopChain = f
    BY <1>2, <1>4, <2>1 DEF HopChain
  <2>3. f \in Seq(S) /\ Len(f) = n
    <3>1. f \in [1..n -> S]
      OBVIOUS
    <3>. HIDE DEF f, S
    <3>. QED
      BY <1>2, <3>1, FunctionIsSeq
  <2>6. f # <<>> => n # 0
    <3>. HIDE DEF f, S
    <3>. QED
      BY <2>3, EmptySeq
  <2>4. ASSUME NEW i \in 1..n
        PROVE  /\ f[i].host = Hops[i].host
               /\ f[i].mode = Hops[i].mode /\ Hops[i].mode \in Modes
               /\ f[i].user = Look(Hops[i].user)
               /\ f[i].override = Look(Hops[i].override)
    <3>1. Hops[i] \in Hop
      BY <1>2
    <3>. QED
      BY <3>1 DEF Hop
  <2>5. DOMAIN f = 1..n
    OBVIOUS
  <2>. HIDE DEF f
  <2>. QED
    BY <1>2, <2>2, <2>3, <2>4, <2>5, <2>6
<1>. QED
  BY <1>3, <1>4

\* What targetFor resolves: as many legs as hops and the target, each as it was set.
LEMMA LegsRight ==
    ASSUME TargetsInv, NEW host, NEW c, c = LegsTo(host)
    PROVE  /\ Len(c) \in Nat \ {0} /\ DOMAIN c = 1..Len(c)
           /\ c[Len(c)].mode = "target"
           /\ ChainAsSet(c)
           /\ LoginAsSet(c)
<1> DEFINE name == IF TargetUser = "" THEN Self ELSE TargetUser
           Leg(h, m, u) == [host |-> h, mode |-> m, user |-> u, keys |-> KeyFiles]
           n == Len(Hops)
           f == [i \in DOMAIN HopChain |->
                   Leg(HopChain[i].host, HopChain[i].mode,
                       IF HopChain[i].user = "" THEN name ELSE HopChain[i].user)]
           t == Leg(host, "target", name)
           S == {f[i] : i \in 1..n} \union {t}
<1>1. n \in Nat /\ DOMAIN Hops = 1..n /\ DOMAIN HopChain = 1..n /\ Len(HopChain) = n
  BY HopChainFacts
<1>2. c = f \o <<t>>
  BY DEF LegsTo
<1>3. f \in Seq(S) /\ Len(f) = n /\ t \in S
  <2>1. f \in [1..n -> S] /\ t \in S
    BY <1>1
  <2>. HIDE DEF f, S, t
  <2>. QED
    BY <1>1, <2>1, FunctionIsSeq
<1>4. /\ Len(c) = n + 1 /\ DOMAIN c = 1..n + 1
      /\ \A i \in 1..n : c[i] = f[i]
      /\ c[n + 1] = t
  <2>. HIDE DEF f, S, t
  <2>1. <<t>> \in Seq(S) /\ Len(<<t>>) = 1 /\ <<t>>[1] = t
    BY <1>3
  <2>2. /\ c \in Seq(S) /\ Len(c) = Len(f) + Len(<<t>>)
        /\ \A i \in 1..Len(f) + Len(<<t>>) : c[i] = IF i <= Len(f) THEN f[i] ELSE <<t>>[i - Len(f)]
    BY <1>2, <1>3, <2>1, ConcatProperties
  <2>3. Len(c) = n + 1 /\ n + 1 \in 1..n + 1 /\ n + 1 - n = 1 /\ ~(n + 1 <= n)
    BY <1>1, <1>3, <2>1, <2>2
  <2>4. DOMAIN c = 1..n + 1
    BY <2>2, <2>3, LenProperties
  <2>5. ASSUME NEW i \in 1..n PROVE c[i] = f[i]
    BY <1>1, <1>3, <2>1, <2>2
  <2>6. c[n + 1] = t
    BY <1>3, <2>1, <2>2, <2>3
  <2>. QED
    BY <2>3, <2>4, <2>5, <2>6
<1>5. \A i \in 1..n : f[i].host = Hops[i].host /\ f[i].mode = Hops[i].mode
  BY <1>1, HopChainFacts
<1>6. \A hops : hops = Hops => Follows(c, hops)
  <2>. HIDE DEF f, t
  <2>. QED
    BY <1>1, <1>4, <1>5 DEF Follows
<1>7. ChainAsSet(c)
  BY <1>6, EffectiveMeans DEF ChainAsSet
<1>8. name \notin DOMAIN Alts \union {""}
  <2>1. TargetUser \notin DOMAIN Alts
    <3>1. CASE Look(user) = "" /\ HopChain # <<>> /\ Last(HopChain).mode = "shell-hop"
      <4>1. n # 0
        BY <3>1, HopChainFacts
      <4>2. n \in 1..n
        BY <1>1, <4>1
      <4>3. Last(HopChain).override = Look(Hops[n].override)
        BY <1>1, <4>2, HopChainFacts DEF Last
      <4>. QED
        BY <3>1, <4>3, LookSound DEF TargetUser
    <3>2. CASE ~(Look(user) = "" /\ HopChain # <<>> /\ Last(HopChain).mode = "shell-hop")
      BY <3>2, LookSound DEF TargetUser
    <3>. QED
      BY <3>1, <3>2
  <2>. QED
    BY <2>1, TargetsAssumption
<1>9. ASSUME NEW i \in 1..n
      PROVE  f[i].user \notin DOMAIN Alts \union {""} /\ f[i].keys = KeyFiles
  <2>1. HopChain[i].user = Look(Hops[i].user)
    BY HopChainFacts
  <2>2. HopChain[i].user \notin DOMAIN Alts
    BY <2>1, LookSound
  <2>3. /\ f[i].user = IF HopChain[i].user = "" THEN name ELSE HopChain[i].user
        /\ f[i].keys = KeyFiles
    BY <1>1
  <2>. HIDE DEF f, name
  <2>. QED
    BY <1>8, <2>2, <2>3
<1>10. t.user = name /\ t.keys = KeyFiles /\ t.mode = "target"
  OBVIOUS
<1>11. Nearest("key", SetAt("key"), GlobalKey) \in KeyFiles
  BY EffectiveMeans DEF KeyFiles
<1>12. Look(user) # "" => name = Look(user)
  BY DEF TargetUser
<1>. HIDE DEF f, t, name
<1>13. ASSUME NEW i \in DOMAIN c
       PROVE  c[i].user \notin DOMAIN Alts \union {""} /\ c[i].keys = KeyFiles
  <2>1. i \in 1..n \/ i = n + 1
    BY <1>1, <1>4
  <2>. QED
    BY <1>4, <1>8, <1>9, <1>10, <2>1
<1>14. Look(user) # "" => Last(c).user = Look(user)
  BY <1>4, <1>10, <1>12 DEF Last
<1>15. LoginAsSet(c)
  BY <1>11, <1>13, <1>14 DEF LoginAsSet
<1>. QED
  BY <1>1, <1>4, <1>7, <1>10, <1>15

-----------------------------------------------------------------------------
(* The way of a dial along its chain *)

\* The chain a dial goes along: as it was set, with the target last, and the dial at a leg of it.
Settled(d) ==
    /\ Len(chain[d]) \in Nat \ {0}
    /\ DOMAIN chain[d] = 1..Len(chain[d])
    /\ chain[d][Len(chain[d])].mode = "target"
    /\ ChainAsSet(chain[d])
    /\ LoginAsSet(chain[d])
    /\ leg[d] \in 1..Len(chain[d])

\* The options are edited before the dials only; each dial goes along its chain, and has
\* opened legs no further than where it is.
RouteInv ==
    /\ scene \in DOMAIN Scenes
    /\ TargetsInv
    /\ \A d \in Dials :
          /\ pc[d] # "idle" => Settled(d)
          /\ pc[d] = "idle" => leg[d] = 0
          /\ legs[d] \subseteq 1..leg[d]

\* What the user has set is the same as long as nothing is edited.
LEMMA SetStays ==
    ASSUME UNCHANGED <<user, wanted>>, NEW c
    PROVE  ChainAsSet(c)' = ChainAsSet(c) /\ LoginAsSet(c)' = LoginAsSet(c)
<1>1. ASSUME NEW s, NEW t, s = t
      PROVE  (CHOOSE l \in s : \A m \in s : m <= l) = (CHOOSE l \in t : \A m \in t : m <= l)
  BY <1>1
<1>a. ASSUME NEW s, NEW t, s = t, NEW x, NEW y, x = y, NEW f, NEW default
      PROVE  (IF s = {} THEN default ELSE wanted'[x][f]) = (IF t = {} THEN default ELSE wanted[y][f])
  BY <1>a
<1>2. SetAt("chain")' = SetAt("chain") /\ SetAt("key")' = SetAt("key") /\ ClearedAt' = ClearedAt
  BY DEF SetAt, ClearedAt
<1>3. (SetAt("chain") \ ClearedAt)' = SetAt("chain") \ ClearedAt
  BY <1>2
<1>4. /\ Nearest("chain", SetAt("chain"), <<>>)' = Nearest("chain", SetAt("chain"), <<>>)
      /\ Nearest("chain", SetAt("chain") \ ClearedAt, <<>>)'
         = Nearest("chain", SetAt("chain") \ ClearedAt, <<>>)
      /\ Nearest("key", SetAt("key"), GlobalKey)' = Nearest("key", SetAt("key"), GlobalKey)
  <2>1. Nearest("chain", SetAt("chain"), <<>>)' = Nearest("chain", SetAt("chain"), <<>>)
    <3>1. PICK x : x = (CHOOSE l \in SetAt("chain") : \A m \in SetAt("chain") : m <= l)
      OBVIOUS
    <3>2. x = (CHOOSE l \in SetAt("chain") : \A m \in SetAt("chain") : m <= l)'
      BY <1>1, <1>2, <3>1, Zenon
    <3>3. CASE SetAt("chain") = {}
      BY <1>2, <3>3 DEF Nearest
    <3>4. CASE SetAt("chain") # {}
      <4>1. Nearest("chain", SetAt("chain"), <<>>) = wanted[x]["chain"]
        BY <3>1, <3>4, Zenon DEF Nearest
      <4>2. (SetAt("chain"))' # {}
        BY <1>2, <3>4
      <4>3. Nearest("chain", SetAt("chain"), <<>>)' = wanted'[x]["chain"]
        BY <3>2, <4>2, Zenon DEF Nearest
      <4>. QED
        BY <4>1, <4>3
    <3>. QED
      BY <3>3, <3>4
  <2>2. Nearest("chain", SetAt("chain") \ ClearedAt, <<>>)' = Nearest("chain", SetAt("chain") \ ClearedAt, <<>>)
    <3>1. PICK x : x = (CHOOSE l \in SetAt("chain") \ ClearedAt : \A m \in SetAt("chain") \ ClearedAt : m <= l)
      OBVIOUS
    <3>2. x = (CHOOSE l \in SetAt("chain") \ ClearedAt : \A m \in SetAt("chain") \ ClearedAt : m <= l)'
      BY <1>1, <1>3, <3>1, Zenon
    <3>3. CASE SetAt("chain") \ ClearedAt = {}
      BY <1>3, <3>3 DEF Nearest
    <3>4. CASE SetAt("chain") \ ClearedAt # {}
      <4>1. Nearest("chain", SetAt("chain") \ ClearedAt, <<>>) = wanted[x]["chain"]
        BY <3>1, <3>4, Zenon DEF Nearest
      <4>2. (SetAt("chain") \ ClearedAt)' # {}
        BY <1>3, <3>4
      <4>3. Nearest("chain", SetAt("chain") \ ClearedAt, <<>>)' = wanted'[x]["chain"]
        BY <3>2, <4>2, Zenon DEF Nearest
      <4>. QED
        BY <4>1, <4>3
    <3>. QED
      BY <3>3, <3>4
  <2>3. Nearest("key", SetAt("key"), GlobalKey)' = Nearest("key", SetAt("key"), GlobalKey)
    <3>1. PICK x : x = (CHOOSE l \in SetAt("key") : \A m \in SetAt("key") : m <= l)
      OBVIOUS
    <3>2. x = (CHOOSE l \in SetAt("key") : \A m \in SetAt("key") : m <= l)'
      BY <1>1, <1>2, <3>1, Zenon
    <3>3. CASE SetAt("key") = {}
      BY <1>2, <3>3 DEF Nearest
    <3>4. CASE SetAt("key") # {}
      <4>1. Nearest("key", SetAt("key"), GlobalKey) = wanted[x]["key"]
        BY <3>1, <3>4, Zenon DEF Nearest
      <4>2. (SetAt("key"))' # {}
        BY <1>2, <3>4
      <4>3. Nearest("key", SetAt("key"), GlobalKey)' = wanted'[x]["key"]
        BY <3>2, <4>2, Zenon DEF Nearest
      <4>. QED
        BY <4>1, <4>3
    <3>. QED
      BY <3>3, <3>4
  <2>. QED
    BY <2>1, <2>2, <2>3
<1>5. PICK n1, n2, n3 : /\ n1 = Nearest("chain", SetAt("chain"), <<>>)
                        /\ n2 = Nearest("chain", SetAt("chain") \ ClearedAt, <<>>)
                        /\ n3 = Nearest("key", SetAt("key"), GlobalKey)
  OBVIOUS
<1>6. /\ n1 = Nearest("chain", SetAt("chain"), <<>>)'
      /\ n2 = Nearest("chain", SetAt("chain") \ ClearedAt, <<>>)'
      /\ n3 = Nearest("key", SetAt("key"), GlobalKey)'
  BY <1>4, <1>5
<1>7. ChainAsSet(c)' = ChainAsSet(c)
  BY <1>5, <1>6 DEF ChainAsSet, Follows
<1>8. LoginAsSet(c)' = LoginAsSet(c)
  BY <1>5, <1>6 DEF LoginAsSet, Look
<1>. QED
  BY <1>7, <1>8
\* Steps of a dial that leave the options alone.
LEMMA RouteMoved ==
    ASSUME ClientInv, PlaceInv, KeyInv, RouteInv, NEW d \in Dials, pc[d] # "idle",
           NEW l, l # "idle", Goes(d, l),
           UNCHANGED <<scene, chain, targetVars>>,
           \/ leg' = leg
           \/ Here(d).mode = "proxyjump" /\ leg' = [leg EXCEPT ![d] = @ + 1],
           \/ legs' = legs
           \/ legs' = [legs EXCEPT ![d] = {}]
           \/ leg' = leg /\ legs' = [legs EXCEPT ![d] = @ \union {leg[d]}]
    PROVE  RouteInv'
<1>1. \A e \in Dials : pc'[e] = IF e = d THEN l ELSE pc[e]
  BY DEF Goes, PlaceInv
<1>2. UNCHANGED <<user, opts, disk, wanted>>
  BY DEF targetVars
<1>3. TargetsInv'
  BY <1>2 DEF RouteInv, TargetsInv, Session, Kept
<1>4. \A c : (ChainAsSet(c) => ChainAsSet(c)') /\ (LoginAsSet(c) => LoginAsSet(c)')
  BY <1>2, SetStays
<1>5. Settled(d) /\ Len(chain[d]) \in Nat /\ leg[d] \in 1..Len(chain[d])
  BY DEF RouteInv, Settled
<1>6. /\ \A e \in Dials \ {d} : leg'[e] = leg[e]
      /\ leg'[d] \in 1..Len(chain[d]) /\ leg[d] <= leg'[d]
  <2>1. CASE leg' = leg
    BY <1>5, <2>1
  <2>2. CASE Here(d).mode = "proxyjump" /\ leg' = [leg EXCEPT ![d] = @ + 1]
    <3>1. leg[d] # Len(chain[d])
      BY <1>5, <2>2 DEF Here, Settled
    <3>2. leg'[d] = leg[d] + 1 /\ \A e \in Dials \ {d} : leg'[e] = leg[e]
      BY <2>2 DEF KeyInv
    <3>. QED
      BY <1>5, <3>1, <3>2
  <2>. QED
    BY <2>1, <2>2
<1>7. ASSUME NEW e \in Dials, pc'[e] # "idle"
      PROVE  Settled(e)'
  <2>1. Settled(e) /\ leg'[e] \in 1..Len(chain[e])
    BY <1>1, <1>5, <1>6, <1>7 DEF RouteInv, Settled
  <2>2. PICK c : c = chain[e]
    OBVIOUS
  <2>3. ChainAsSet(c) /\ LoginAsSet(c)
    BY <2>1, <2>2, Zenon DEF Settled
  <2>4. ChainAsSet(c)' /\ LoginAsSet(c)'
    BY <1>4, <2>3
  <2>5. chain'[e] = c
    BY <2>2
  <2>6. ChainAsSet(chain[e])' /\ LoginAsSet(chain[e])'
    BY <2>4, <2>5 DEF ChainAsSet, LoginAsSet
  <2>. QED
    BY <2>1, <2>6 DEF Settled
<1>8. ASSUME NEW e \in Dials
      PROVE  legs'[e] \subseteq 1..leg'[e]
  <2>1. legs[e] \subseteq 1..leg[e] /\ DOMAIN legs = Dials
    BY DEF RouteInv, ClientInv, Dials
  <2>2. CASE e = d
    <3>1. legs'[d] \subseteq legs[d] \union {leg[d]}
      BY <2>1
    <3>2. 1..leg[d] \subseteq 1..leg'[d] /\ leg[d] \in 1..leg'[d]
      BY <1>5, <1>6
    <3>. QED
      BY <2>1, <2>2, <3>1, <3>2
  <2>3. CASE e # d
    BY <1>6, <2>1, <2>3
  <2>. QED
    BY <2>2, <2>3
<1>9. \A e \in Dials : pc'[e] = "idle" => leg'[e] = 0
  BY <1>1, <1>6 DEF RouteInv
<1>. QED
  BY <1>3, <1>7, <1>8, <1>9 DEF RouteInv

LEMMA StepLeaves ==
    ASSUME IInv, NEW d \in Dials, Step(d)
    PROVE  /\ UNCHANGED <<scene, chain>>
           /\ pc[d] \in InHandshake \union {"tcp"}
           /\ Outcome(d)
           /\ \/ leg' = leg
              \/ /\ Here(d).mode = "proxyjump" /\ leg' = [leg EXCEPT ![d] = @ + 1]
                 /\ Goes(d, "tcp")
<1>1. CASE \/ Reaches(d) \/ ReachesNot(d) \/ HostKey(d) \/ Confirmed(d)
           \/ Appends(d) \/ Reloads(d)
  <2>1. UNCHANGED <<scene, chain, leg>>
    BY <1>1 DEF Reaches, ReachesNot, HostKey, Confirmed, Appends, Reloads, Rest, batch
  <2>. QED
    BY <1>1, <2>1, CheckMoves
<1>2. CASE \/ TriesKeys(d) \/ LooksForPhrase(d) \/ PhraseGiven(d)
           \/ LooksForPassword(d) \/ PasswordGiven(d) \/ StartsKbi(d) \/ KbiGiven(d)
  <2>1. pc[d] \in AfterKey /\ Moved(d)
    BY <1>2, AuthMoves
  <2>2. UNCHANGED scene
    BY <1>2 DEF TriesKeys, LooksForPhrase, PhraseGiven, LooksForPassword, PasswordGiven, StartsKbi,
                KbiGiven, Tries, After, Succeeds, Rest
  <2>. QED
    BY <2>1, <2>2 DEF Moved, AfterKey
<1>. QED
  BY <1>1, <1>2 DEF Step

LEMMA StepRoutes ==
    ASSUME IInv, RouteInv, NEW d \in Dials, Step(d), UNCHANGED targetVars
    PROVE  RouteInv'
<1>0. ClientInv /\ PlaceInv /\ KeyInv
  BY DEF IInv
<1>1. /\ UNCHANGED <<scene, chain>> /\ pc[d] # "idle" /\ Outcome(d)
      /\ \/ leg' = leg
         \/ /\ Here(d).mode = "proxyjump" /\ leg' = [leg EXCEPT ![d] = @ + 1]
            /\ Goes(d, "tcp")
  BY StepLeaves DEF InHandshake
<1>2. CASE Goes(d, "hostkey") /\ legs' = [legs EXCEPT ![d] = @ \union {leg[d]}]
  <2>1. leg' = leg
    BY <1>0, <1>1, <1>2 DEF Goes, PlaceInv
  <2>. QED
    BY <1>0, <1>1, <1>2, <2>1, RouteMoved
<1>3. CASE \E l \in InHandshake \union {"tcp", "up", "failed"} :
              Goes(d, l) /\ (legs' = legs \/ legs' = [legs EXCEPT ![d] = {}])
  <2>1. PICK l \in InHandshake \union {"tcp", "up", "failed"} :
           Goes(d, l) /\ (legs' = legs \/ legs' = [legs EXCEPT ![d] = {}])
    BY <1>3
  <2>2. l # "idle"
    BY <2>1 DEF InHandshake
  <2>. QED
    BY <1>0, <1>1, <2>1, <2>2, RouteMoved
<1>. QED
  BY <1>1, <1>2, <1>3 DEF Outcome, Fail, Connects, clientVars

LEMMA BeginRoutes ==
    ASSUME IInv, RouteInv, NEW d \in Dials, Begin(d)
    PROVE  RouteInv'
<1>0. PlaceInv /\ KeyInv
  BY DEF IInv
<1>1. PICK x : x = LegsTo(Host)
  OBVIOUS
<1>2. /\ pc[d] = "idle" /\ Goes(d, "tcp")
      /\ chain' = [chain EXCEPT ![d] = x]
      /\ leg' = [leg EXCEPT ![d] = 1]
      /\ UNCHANGED <<scene, legs, user, opts, disk, wanted>>
  BY <1>1 DEF Begin, clientVars, targetVars
<1>3. /\ \A e \in Dials : pc'[e] = IF e = d THEN "tcp" ELSE pc[e]
      /\ \A e \in Dials : leg'[e] = IF e = d THEN 1 ELSE leg[e]
      /\ \A e \in Dials : chain'[e] = IF e = d THEN x ELSE chain[e]
  BY <1>0, <1>2 DEF Goes, PlaceInv, KeyInv
<1>4. TargetsInv /\ TargetsInv'
  BY <1>2 DEF RouteInv, TargetsInv, Session, Kept
<1>5. \A c : (ChainAsSet(c) => ChainAsSet(c)') /\ (LoginAsSet(c) => LoginAsSet(c)')
  BY <1>2, SetStays
<1>6. /\ Len(x) \in Nat \ {0} /\ DOMAIN x = 1..Len(x)
      /\ x[Len(x)].mode = "target"
      /\ ChainAsSet(x) /\ LoginAsSet(x)
  BY <1>1, <1>4, LegsRight
<1>7. ASSUME NEW e \in Dials, pc'[e] # "idle"
      PROVE  Settled(e)'
  <2> DEFINE c == chain'[e]
  <2>1. /\ Len(c) \in Nat \ {0} /\ DOMAIN c = 1..Len(c)
        /\ c[Len(c)].mode = "target"
        /\ ChainAsSet(c) /\ LoginAsSet(c)
        /\ leg'[e] \in 1..Len(c)
    <3>1. CASE e = d
      <4>1. c = x /\ leg'[e] = 1
        BY <1>3, <3>1
      <4>. HIDE DEF c
      <4>2. 1 \in 1..Len(x)
        BY <1>6
      <4>. QED
        BY <1>6, <4>1, <4>2
    <3>2. CASE e # d
      <4>1. c = chain[e] /\ leg'[e] = leg[e] /\ Settled(e)
        BY <1>3, <1>7, <3>2 DEF RouteInv
      <4>. HIDE DEF c
      <4>. QED
        BY <4>1 DEF Settled
    <3>. QED
      BY <3>1, <3>2
  <2>2. PICK y : y = c
    OBVIOUS
  <2>3. ChainAsSet(y)' /\ LoginAsSet(y)'
    BY <1>5, <2>1, <2>2
  <2>4. ChainAsSet(chain[e])' /\ LoginAsSet(chain[e])'
    BY <2>2, <2>3 DEF ChainAsSet, LoginAsSet
  <2>. QED
    BY <2>1, <2>4 DEF Settled
<1>8. \A e \in Dials : legs'[e] \subseteq 1..leg'[e]
  <2>1. legs[d] \subseteq 1..0
    BY <1>2 DEF RouteInv
  <2>2. legs[d] = {}
    BY <2>1
  <2>. QED
    BY <1>2, <1>3, <2>2 DEF RouteInv
<1>9. \A e \in Dials : pc'[e] = "idle" => leg'[e] = 0
  BY <1>3 DEF RouteInv
<1>. QED
  BY <1>2, <1>4, <1>7, <1>8, <1>9 DEF RouteInv

\* Steps that leave the dials where they are, and the options as they are.
LEMMA RouteAlone ==
    ASSUME IInv, RouteInv, UNCHANGED <<scene, pc, chain, leg, targetVars>>,
           \A d \in Dials : legs'[d] = legs[d] \/ legs'[d] = {}
    PROVE  RouteInv'
<1>1. UNCHANGED <<user, opts, disk, wanted>>
  BY DEF targetVars
<1>2. TargetsInv'
  BY <1>1 DEF RouteInv, TargetsInv, Session, Kept
<1>3. ASSUME NEW d \in Dials, Settled(d) PROVE Settled(d)'
  <2>1. PICK c : c = chain[d] /\ c = chain'[d]
    OBVIOUS
  <2>2. ChainAsSet(c) /\ LoginAsSet(c)
    BY <1>3, <2>1, Zenon DEF Settled
  <2>3. ChainAsSet(c)' /\ LoginAsSet(c)'
    BY <1>1, <2>2, SetStays
  <2>4. ChainAsSet(chain[d])' /\ LoginAsSet(chain[d])'
    BY <2>1, <2>3 DEF ChainAsSet, LoginAsSet
  <2>. QED
    BY <1>3, <2>4 DEF Settled
<1>. QED
  BY <1>2, <1>3 DEF RouteInv

LEMMA NextRoutes ==
    ASSUME IInv, RouteInv, [Next]_vars
    PROVE  RouteInv'
<1>1. CASE Edits /\ UNCHANGED <<dialVars, clientVars>>
  <2>1. TargetsInv' /\ scene' \in DOMAIN Scenes
    BY <1>1, EditsKeep DEF RouteInv, dialVars, batch
  <2>2. /\ \A d \in Dials : pc[d] = "idle"
        /\ UNCHANGED <<pc, leg, legs>>
    BY <1>1 DEF Edits, dialVars, clientVars
  <2>. QED
    BY <2>1, <2>2 DEF RouteInv
<1>2. CASE Quits /\ UNCHANGED targetVars
  BY <1>2, RouteAlone DEF Quits, clientVars
<1>3. CASE \E d \in Dials : Begin(d)
  BY <1>3, BeginRoutes
<1>4. CASE \E d \in Dials : (TimerFires(d) \/ Resolves(d)) /\ UNCHANGED targetVars
  BY <1>4, RouteAlone DEF TimerFires, Resolves, batch, clientVars
<1>5. CASE \E d \in Dials : Step(d) /\ UNCHANGED targetVars
  BY <1>5, StepRoutes
<1>6. CASE \E d \in Dials : ClientNext(d) /\ UNCHANGED <<dialVars, targetVars>>
  <2>1. Steady
    BY <1>6, ClientKeeps DEF IInv, Dials
  <2>. QED
    BY <1>6, <2>1, RouteAlone DEF Steady, Dials, dialVars, batch
<1>7. CASE UNCHANGED vars
  BY <1>7, RouteAlone DEF vars, dialVars, batch, clientVars
<1>. QED
  BY <1>1, <1>2, <1>3, <1>4, <1>5, <1>6, <1>7 DEF Next

-----------------------------------------------------------------------------
(* What is asked *)

\* What a dial that waits has asked.
AskedAt == [confirm |-> "hostkey", phrasing |-> "phrase", typing |-> "password", asking |-> "kbi"]
Waits == DOMAIN AskedAt

\* Each wait has its prompt, whose answers are those of its kind.
AskInv ==
    /\ DOMAIN ask = Dials
    /\ \A d \in Dials :
          IF pc[d] \in Waits
          THEN /\ ask[d] \in Prompts
               /\ ask[d].what = AskedAt[pc[d]]
               /\ ask[d].what = "phrase" => ask[d].reply \in {None, "right", "wrong", "cancel"}
          ELSE ask[d] = None
    /\ shared \in {"right", "wrong", None} /\ phrase \in {"right", "wrong", None}

\* A dial asks, hears, or has nothing to do with the prompts.
Speaks(d, l) ==
    \/ l \in Waits /\ AsksUser(d, AskedAt[l])
    \/ l \notin Waits /\ Asked(d)
    \/ l \notin Waits /\ pc[d] \notin Waits /\ UNCHANGED ask

LEMMA AskMoved ==
    ASSUME PlaceInv, AskInv, NEW d \in Dials, NEW l, Goes(d, l), Speaks(d, l),
           shared' \in {"right", "wrong", None}, phrase' \in {"right", "wrong", None}
    PROVE  AskInv'
<1>. DEFINE p == [what |-> AskedAt[l], reply |-> None]
<1>1. \A e \in Dials : pc'[e] = IF e = d THEN l ELSE pc[e]
  BY DEF Goes, PlaceInv
<1>2. l \in Waits => p \in Prompts /\ p.what = AskedAt[l] /\ p.reply = None
  BY DEF Waits, AskedAt, Prompts
<1>3. \/ l \in Waits /\ ask' = [ask EXCEPT ![d] = p]
      \/ l \notin Waits /\ ask' = [ask EXCEPT ![d] = None]
      \/ l \notin Waits /\ pc[d] \notin Waits /\ ask' = ask
  BY DEF Speaks, AsksUser, Asked
<1>. HIDE DEF p
<1>4. /\ DOMAIN ask' = Dials
      /\ \A e \in Dials \ {d} : ask'[e] = ask[e]
      /\ IF l \in Waits THEN ask'[d] = p ELSE ask'[d] = None
  BY <1>3 DEF AskInv
<1>. QED
  BY <1>1, <1>2, <1>4 DEF AskInv

\* Where a step of the authentication leads when nothing is asked.
LEMMA TriesEnds ==
    ASSUME NEW d \in Dials, NEW secret, NEW next \in {"password", "kbi"}, Tries(d, secret, next)
    PROVE  \E l : l \notin Waits /\ Goes(d, l)
<1>1. PICK l \in {next, "tcp", "up", "failed"} : Goes(d, l)
  BY TriesMoves DEF InHandshake
<1>2. l \notin Waits
  BY DEF Waits, AskedAt
<1>. QED
  BY <1>1, <1>2

LEMMA AfterEnds ==
    ASSUME NEW d \in Dials, NEW next \in {"phrase", "password", "kbi"}, After(d, next)
    PROVE  \E l : l \notin Waits /\ Goes(d, l)
<1>1. PICK l \in {next, "failed"} : Goes(d, l)
  BY AfterMoves DEF InHandshake
<1>2. l \notin Waits
  BY DEF Waits, AskedAt
<1>. QED
  BY <1>1, <1>2

LEMMA SucceedsEnds ==
    ASSUME NEW d \in Dials, Succeeds(d)
    PROVE  \E l : l \notin Waits /\ Goes(d, l)
<1>1. PICK l \in {"tcp", "up", "failed"} : Goes(d, l)
  BY SucceedsMoves
<1>2. l \notin Waits
  BY DEF Waits, AskedAt
<1>. QED
  BY <1>1, <1>2

\* The answer to what a dial waits for.
LEMMA AnswerIs ==
    ASSUME AskInv, NEW d \in Dials, pc[d] = "phrasing", Replied(d)
    PROVE  Answer(d) \in {"right", "wrong", "cancel"}
<1>1. ask[d].reply \in {None, "right", "wrong", "cancel"}
  BY DEF AskInv, Waits, AskedAt
<1>. QED
  BY <1>1 DEF Answer

LEMMA StepAsks ==
    ASSUME PlaceInv, AskInv, NEW d \in Dials, Step(d)
    PROVE  AskInv'
<1>0. shared \in {"right", "wrong", None} /\ phrase \in {"right", "wrong", None}
  BY DEF AskInv
<1>w. Waits = {"confirm", "phrasing", "typing", "asking"}
  BY DEF Waits, AskedAt
<1>1. CASE \/ Reaches(d) \/ ReachesNot(d) \/ Appends(d) \/ Reloads(d)
  <2>1. /\ pc[d] \in {"tcp", "append", "reload"}
        /\ UNCHANGED <<ask, shared, phrase>>
        /\ \E l \in {"hostkey", "failed", "reload", "keys"} : Goes(d, l)
    BY <1>1 DEF Reaches, ReachesNot, Appends, Reloads, Fail, NoPrompt, batch
  <2>. QED
    BY <1>0, <1>w, <2>1, AskMoved DEF Speaks
<1>2. CASE HostKey(d)
  <2>1. /\ pc[d] = "hostkey" /\ UNCHANGED <<shared, phrase>>
        /\ \/ Goes(d, "keys") /\ UNCHANGED ask
           \/ Goes(d, "failed") /\ UNCHANGED ask
           \/ Goes(d, "confirm") /\ AsksUser(d, "hostkey")
    BY <1>2 DEF HostKey, Fail
  <2>2. AskedAt["confirm"] = "hostkey"
    BY DEF AskedAt
  <2>. QED
    BY <1>0, <1>w, <2>1, <2>2, AskMoved DEF Speaks
<1>3. CASE Confirmed(d)
  <2>1. /\ Asked(d) /\ UNCHANGED <<shared, phrase>>
        /\ \E l \in {"append", "failed"} : Goes(d, l)
    BY <1>3 DEF Confirmed, Fail
  <2>. QED
    BY <1>0, <1>w, <2>1, AskMoved DEF Speaks
<1>4. CASE TriesKeys(d)
  <2>1. /\ pc[d] = "keys" /\ UNCHANGED <<ask, shared, phrase>>
        /\ \E l : l \notin Waits /\ Goes(d, l)
    BY <1>4, SucceedsEnds, AfterEnds DEF TriesKeys, NoPrompt
  <2>. QED
    BY <1>0, <1>w, <2>1, AskMoved DEF Speaks
<1>5. CASE LooksForPhrase(d) \/ LooksForPassword(d)
  <2>1. pc[d] \in {"phrase", "password"} /\ UNCHANGED <<shared, phrase>>
    BY <1>5 DEF LooksForPhrase, LooksForPassword
  <2>2. \/ UNCHANGED ask /\ \E l : l \notin Waits /\ Goes(d, l)
        \/ AsksUser(d, "phrase") /\ Goes(d, "phrasing")
        \/ AsksUser(d, "password") /\ Goes(d, "typing")
    BY <1>5, TriesEnds DEF LooksForPhrase, LooksForPassword
  <2>3. AskedAt["phrasing"] = "phrase" /\ AskedAt["typing"] = "password"
    BY DEF AskedAt
  <2>. QED
    BY <1>0, <1>w, <2>1, <2>2, <2>3, AskMoved DEF Speaks
<1>6. CASE PhraseGiven(d)
  <2>1. /\ pc[d] = "phrasing" /\ Replied(d) /\ Asked(d) /\ UNCHANGED shared
        /\ phrase' = phrase \/ (phrase' = Answer(d) /\ Answer(d) # "cancel")
        /\ \E l : l \notin Waits /\ Goes(d, l)
    BY <1>6, AfterEnds, TriesEnds DEF PhraseGiven
  <2>2. phrase' \in {"right", "wrong", None}
    BY <1>0, <2>1, AnswerIs
  <2>. QED
    BY <1>0, <2>1, <2>2, AskMoved DEF Speaks
<1>7. CASE PasswordGiven(d)
  <2>1. /\ Asked(d) /\ UNCHANGED phrase
        /\ shared' = shared \/ shared' = Secret(Answer(d))
        /\ \E l : l \notin Waits /\ Goes(d, l)
    BY <1>7, AfterEnds, TriesEnds DEF PasswordGiven
  <2>2. shared' \in {"right", "wrong", None}
    BY <1>0, <2>1 DEF Secret
  <2>. QED
    BY <1>0, <2>1, <2>2, AskMoved DEF Speaks
<1>8. CASE StartsKbi(d)
  <2>1. /\ pc[d] = "kbi" /\ UNCHANGED <<shared, phrase>>
        /\ \/ AsksUser(d, "kbi") /\ Goes(d, "asking")
           \/ Goes(d, "failed") /\ UNCHANGED ask
    BY <1>8 DEF StartsKbi, Fail
  <2>2. AskedAt["asking"] = "kbi"
    BY DEF AskedAt
  <2>. QED
    BY <1>0, <1>w, <2>1, <2>2, AskMoved DEF Speaks
<1>9. CASE KbiGiven(d)
  <2>1. /\ Asked(d) /\ UNCHANGED <<shared, phrase>>
        /\ Goes(d, "failed") \/ \E l : l \notin Waits /\ Goes(d, l)
    BY <1>9, SucceedsEnds DEF KbiGiven, Fail
  <2>. QED
    BY <1>0, <1>w, <2>1, AskMoved DEF Speaks
<1>. QED
  BY <1>1, <1>2, <1>3, <1>4, <1>5, <1>6, <1>7, <1>8, <1>9 DEF Step

\* An answer of the kind that was asked for.
LEMMA ResolvesKeeps ==
    ASSUME AskInv, NEW d \in Dials, Resolves(d)
    PROVE  AskInv'
<1>1. /\ ask[d] # None /\ UNCHANGED <<pc, shared, phrase>>
      /\ \E reply \in CASE ask[d].what = "hostkey" -> {"yes", "no", "cancel"}
                      [] ask[d].what = "password" -> {"right", "right!", "wrong", "wrong!", "cancel"}
                      [] OTHER -> {"right", "wrong", "cancel"} :
            ask' = [ask EXCEPT ![d].reply = reply]
  BY DEF Resolves, batch
<1>2. pc[d] \in Waits /\ ask[d] \in Prompts /\ ask[d].what = AskedAt[pc[d]]
  BY <1>1 DEF AskInv
<1>3. PICK reply \in {"yes", "no", "right", "right!", "wrong", "wrong!", "cancel"} :
         /\ ask' = [ask EXCEPT ![d].reply = reply]
         /\ ask[d].what = "phrase" => reply \in {"right", "wrong", "cancel"}
  BY <1>1
<1>. DEFINE p == [ask[d] EXCEPT !.reply = reply]
<1>4. p \in Prompts /\ p.what = ask[d].what /\ p.reply = reply
  BY <1>2 DEF Prompts
<1>5. ask' = [ask EXCEPT ![d] = p]
  BY <1>3
<1>. HIDE DEF p
<1>6. /\ DOMAIN ask' = Dials
      /\ ask'[d] = p
      /\ \A e \in Dials \ {d} : ask'[e] = ask[e]
  BY <1>5 DEF AskInv
<1>. QED
  BY <1>1, <1>2, <1>3, <1>4, <1>6 DEF AskInv

LEMMA NextAsks ==
    ASSUME IInv, AskInv, [Next]_vars
    PROVE  AskInv'
<1>1. CASE UNCHANGED <<pc, ask, shared, phrase>>
  BY <1>1 DEF AskInv
<1>2. CASE \E d \in Dials : Begin(d)
  <2>1. PICK d \in Dials : Begin(d)
    BY <1>2
  <2>2. pc[d] = "idle" /\ Goes(d, "tcp") /\ UNCHANGED <<ask, shared, phrase>>
    BY <2>1 DEF Begin
  <2>3. "idle" \notin Waits /\ "tcp" \notin Waits
    BY DEF Waits, AskedAt
  <2>4. PlaceInv /\ shared \in {"right", "wrong", None} /\ phrase \in {"right", "wrong", None}
    BY DEF IInv, AskInv
  <2>. QED
    BY <2>2, <2>3, <2>4, AskMoved DEF Speaks
<1>3. CASE \E d \in Dials : Resolves(d)
  BY <1>3, ResolvesKeeps
<1>4. CASE \E d \in Dials : Step(d)
  BY <1>4, StepAsks DEF IInv
<1>5. CASE \/ Edits /\ UNCHANGED <<dialVars, clientVars>>
           \/ Quits
           \/ \E d \in Dials : TimerFires(d) \/ (ClientNext(d) /\ UNCHANGED dialVars)
           \/ UNCHANGED vars
  BY <1>1, <1>5 DEF Quits, TimerFires, batch, dialVars, vars
<1>. QED
  BY <1>2, <1>3, <1>4, <1>5 DEF Next

-----------------------------------------------------------------------------
(* The theorems *)

LEMMA InitRoutes == Init => RouteInv /\ AskInv
<1>. SUFFICES ASSUME Init PROVE RouteInv /\ AskInv
  OBVIOUS
<1>1. PICK levels \in Scene.options : opts = levels /\ disk = levels /\ wanted = levels
  BY DEF Init, TargetsInit
<1>2. scene \in DOMAIN Scenes
  BY DEF Init
<1>3. levels \in Seq(Option) /\ levels # <<>>
  BY <1>2, DialAssumption DEF Scene
<1>4. TargetsInv
  BY <1>1, <1>3 DEF TargetsInv, Kept, Session
<1>5. \A d \in Dials : pc[d] = "idle" /\ leg[d] = 0 /\ legs[d] = {} /\ ask[d] = None
  BY DEF Init, ClientInit, Dials
<1>6. "idle" \notin Waits
  BY DEF Waits, AskedAt
<1>7. DOMAIN ask = Dials /\ shared = None /\ phrase = None
  BY DEF Init
<1>. QED
  BY <1>2, <1>4, <1>5, <1>6, <1>7 DEF RouteInv, AskInv

LEMMA Invariant == Spec => [](IInv /\ RouteInv /\ AskInv)
<1>1. Init => IInv /\ RouteInv /\ AskInv
  BY InitKeeps, InitRoutes
<1>2. IInv /\ RouteInv /\ AskInv /\ [Next]_vars => (IInv /\ RouteInv /\ AskInv)'
  BY NextKeeps, NextRoutes, NextAsks
<1>. QED
  BY <1>1, <1>2, PTL DEF Spec

\* The parts of the state fit each other: a dial is at a leg of its chain and has opened
\* legs no further than there, an entry in a.prompts stands for each dial that waits and
\* for no other, a client for each dial that is done, and the index of the store agrees
\* with the files on everything but the session (sshx/dial.go, app/connect.go, yamlstore.go).
THEOREM TypeCorrect == Spec => []TypeOK
<1>1. IInv /\ RouteInv /\ AskInv => TypeOK
  <2>. SUFFICES ASSUME IInv, RouteInv, AskInv PROVE TypeOK
    OBVIOUS
  <2>1. /\ pc \in [Dials -> InHandshake \union {"idle", "tcp", "up", "failed"}]
        /\ \A d \in Dials : link[d] # "none" <=> pc[d] = "up"
    BY DEF IInv, PlaceInv
  <2>2. \A d \in Dials : pc[d] # "idle" => leg[d] \in DOMAIN chain[d]
    BY DEF RouteInv, Settled
  <2>3. /\ opts \in Seq(Option) /\ disk \in Seq(Option) /\ wanted \in Seq(Option)
        /\ Len(opts) = Len(disk) /\ Len(opts) = Len(wanted)
        /\ \A l \in 1..Session - 1 : opts[l] = disk[l]
    BY DEF RouteInv, TargetsInv
  <2>4. \A d \in Dials : legs[d] \subseteq 1..leg[d] /\ snap[d] \subseteq file
    BY DEF RouteInv, IInv, KeyInv
  <2>5. /\ \A d \in Dials : ask[d] # None <=> pc[d] \in {"confirm", "phrasing", "typing", "asking"}
        /\ shared \in {"right", "wrong", None} /\ phrase \in {"right", "wrong", None}
    BY DialAssumption DEF AskInv, Waits, AskedAt
  <2>6. lock \in Dials \union {None}
    BY DEF IInv, LockInv
  <2>7. ClientType
    BY DEF IInv, ClientInv
  <2>. QED
    BY <2>1, <2>2, <2>3, <2>4, <2>5, <2>6, <2>7 DEF TypeOK
<1>. QED
  BY <1>1, Invariant, PTL

\* Nothing outlives a dial that failed or a client that was closed: no leg of the chain and
\* no listener, whichever of the two calls of Close came first; and nobody keeps the
\* bridge's lock but to wait for a reply (sshx/dial.go fail and Close, app/connect.go).
THEOREM AllReleased == Spec => []Released
<1>1. IInv => Released
  BY DEF IInv, ClientInv, CallerInv, PlaceInv, LockInv, Released, Dials
<1>. QED
  BY <1>1, Invariant, PTL

\* One answer does for the batch, and a host is talked to only with a key that was known
\* or that the user accepted: for any number of dials that share the prompts, over chains
\* of any length (app/connect.go:42-45, sshx/hostkey.go).
THEOREM AnswersCount == Spec => []PromptsHonoured
<1>1. IInv => PromptsHonoured
  BY DEF IInv, LockInv, KeyInv, AfterKey, PromptsHonoured, KeysTrusted
<1>. QED
  BY <1>1, Invariant, PTL

\* A dial goes where the options lead that the user set last, with the session's user and key
\* file, after any edits and reloads of any path of folders and chains of any length
\* (store/resolve.go, app/connect.go targetFor).
THEOREM DialedAsSet == Spec => []GoesAsSet
<1>1. RouteInv => GoesAsSet
  BY DEF RouteInv, Settled, GoesAsSet
<1>. QED
  BY <1>1, Invariant, PTL
=============================================================================
