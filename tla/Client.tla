------------------------------- MODULE Client -------------------------------
(***************************************************************************)
(* A connected nativeClient (sshx/dial.go): its transport, the keepalive   *)
(* loop that gives it up, the SOCKS proxy that forwards through it, and the *)
(* Close that its owner and the watcher of its death may both call.        *)
(*                                                                         *)
(* Each proxy has at most one connection at a time here.                   *)
(***************************************************************************)
EXTENDS Integers

CONSTANTS
    Clients,
    MissMax,   \* kaMissMax
    None

ASSUME ClientAssumption == MissMax \in Nat \ {0} /\ None \notin Clients

Callers == {"owner", "watcher"}

VARIABLES
    link,      \* transport: "none", "up", "silent" (a link gone without a sign) or "closed"
    legs,      \* SSH connections of the chain that closeAll has not closed
    ka,        \* runKeepalive: where it is, probes missed, data since the probe
    stop,      \* kaStop is closed, if there is one
    lis,       \* the SOCKS listener: "none", "bound" or "closed"
    conn,      \* a proxied connection's handler
    cut,       \* its local side was closed by Close
    caller     \* the calls of Close

clientVars == <<link, legs, ka, stop, lis, conn, cut, caller>>

ClientInit ==
    /\ link = [c \in Clients |-> "none"]
    /\ legs = [c \in Clients |-> {}]
    /\ ka = [c \in Clients |-> [at |-> "off", missed |-> 0, heard |-> FALSE]]
    /\ stop = [c \in Clients |-> FALSE]
    /\ lis = [c \in Clients |-> "none"]
    /\ conn = [c \in Clients |-> "none"]
    /\ cut = [c \in Clients |-> FALSE]
    /\ caller = [c \in Clients |-> [k \in Callers |-> "no"]]

\* What Dial sets up: a keepalive loop, unless its interval is 0, and a SOCKS proxy if its
\* port can be bound; all clients want the same port.
Connects(c, proxy) ==
    /\ link' = [link EXCEPT ![c] = "up"]
    /\ \E at \in {"tick", "off"} : ka' = [ka EXCEPT ![c].at = at]
    /\ \/ lis' = lis
       \/ proxy /\ (\A other \in Clients : lis[other] # "bound") /\ lis' = [lis EXCEPT ![c] = "bound"]
    /\ UNCHANGED <<legs, stop, conn, cut, caller>>

-----------------------------------------------------------------------------
LinkFails(c) ==
    /\ link[c] = "up"
    /\ link' = [link EXCEPT ![c] = "silent"]
    /\ UNCHANGED <<legs, ka, stop, lis, conn, cut, caller>>

PeerCloses(c) ==
    /\ link[c] = "up"
    /\ link' = [link EXCEPT ![c] = "closed"]
    /\ UNCHANGED <<legs, ka, stop, lis, conn, cut, caller>>

\* The ticker: a probe is sent.
Probes(c) ==
    /\ ka[c].at = "tick"
    /\ ka' = [ka EXCEPT ![c].at = "probe", ![c].heard = FALSE]
    /\ UNCHANGED <<link, legs, stop, lis, conn, cut, caller>>

\* activityConn.Read.
Hears(c) ==
    /\ link[c] = "up"
    /\ ka[c].at = "probe"
    /\ ~ka[c].heard
    /\ ka' = [ka EXCEPT ![c].heard = TRUE]
    /\ UNCHANGED <<link, legs, stop, lis, conn, cut, caller>>

Replies(c) ==
    /\ link[c] = "up"
    /\ ka[c].at = "probe"
    /\ ka' = [ka EXCEPT ![c].at = "tick", ![c].missed = 0]
    /\ UNCHANGED <<link, legs, stop, lis, conn, cut, caller>>

\* Mutant: nothing is made of a probe that is not answered.
ForgivesAll(c) ==
    /\ ka[c].at = "probe"
    /\ ka' = [ka EXCEPT ![c].at = "tick"]
    /\ UNCHANGED <<link, legs, stop, lis, conn, cut, caller>>

\* No reply in time, or an error: data in the meantime makes up for it; MissMax misses
\* in a row close the client.
Misses(c) ==
    /\ ka[c].at = "probe"
    /\ IF ka[c].heard
       THEN ka' = [ka EXCEPT ![c].at = "tick", ![c].missed = 0] /\ UNCHANGED link
       ELSE IF ka[c].missed + 1 < MissMax
       THEN ka' = [ka EXCEPT ![c].at = "tick", ![c].missed = @ + 1] /\ UNCHANGED link
       ELSE /\ ka' = [ka EXCEPT ![c].at = "off", ![c].missed = @ + 1]
            /\ link' = [link EXCEPT ![c] = "closed"]
    /\ UNCHANGED <<legs, stop, lis, conn, cut, caller>>

KeepaliveStops(c) ==
    /\ stop[c]
    /\ ka[c].at \in {"tick", "probe"}
    /\ ka' = [ka EXCEPT ![c].at = "off"]
    /\ UNCHANGED <<link, legs, stop, lis, conn, cut, caller>>

-----------------------------------------------------------------------------
(* The SOCKS proxy.                                                        *)

\* serve
Accepts(c) ==
    /\ lis[c] = "bound"
    /\ conn[c] \in {"none", "ended"}
    /\ conn' = [conn EXCEPT ![c] = "accepted"]
    /\ cut' = [cut EXCEPT ![c] = FALSE]
    /\ UNCHANGED <<link, legs, ka, stop, lis, caller>>

HandlerGoes(c, label) ==
    /\ conn' = [conn EXCEPT ![c] = label]
    /\ UNCHANGED <<link, legs, ka, stop, lis, cut, caller>>

\* handle enters the connection into p.active.
Registers(c) == conn[c] = "accepted" /\ HandlerGoes(c, "shaking")

\* The program behind the connection asks for a target, or gives up.
Asks(c) ==
    /\ conn[c] = "shaking"
    /\ ~cut[c]
    /\ HandlerGoes(c, "dialing") \/ HandlerGoes(c, "ended")

\* Dialing through the transport waits on a silent link, and fails on a closed one.
DialsRemote(c) ==
    /\ conn[c] = "dialing"
    /\ link[c] # "silent"
    /\ (link[c] = "up" /\ HandlerGoes(c, "copying")) \/ HandlerGoes(c, "ended")

\* A copier ends with its connection, with the transport, or when its peer is done.
PeerDone(c) == conn[c] = "copying" /\ link[c] = "up" /\ HandlerGoes(c, "ended")

HandlerEnds(c) ==
    \/ cut[c] /\ conn[c] \in {"shaking", "copying"} /\ HandlerGoes(c, "ended")
    \/ link[c] = "closed" /\ conn[c] = "copying" /\ HandlerGoes(c, "ended")

-----------------------------------------------------------------------------
(* Close.                                                                  *)

CallerGoes(c, k, label) == caller' = [caller EXCEPT ![c][k] = label]

\* Disconnect, or the watcher after Wait has returned.
Closes(c, k) ==
    /\ link[c] # "none"
    /\ k = "watcher" => link[c] = "closed"
    /\ caller[c][k] = "no"
    /\ CallerGoes(c, k, "stop")
    /\ UNCHANGED <<link, legs, ka, stop, lis, conn, cut>>

StopsKeepalive(c, k) ==
    /\ caller[c][k] = "stop"
    /\ stop' = [stop EXCEPT ![c] = TRUE]
    /\ CallerGoes(c, k, "legs")
    /\ UNCHANGED <<link, legs, ka, lis, conn, cut>>

\* closeAll; without a proxy that is all.
ClosesLegs(c, k) ==
    /\ caller[c][k] = "legs"
    /\ link' = [link EXCEPT ![c] = "closed"]
    /\ legs' = [legs EXCEPT ![c] = {}]
    /\ CallerGoes(c, k, IF lis[c] = "none" THEN "done" ELSE "listener")
    /\ UNCHANGED <<ka, stop, lis, conn, cut>>

\* Mutant: the proxy's connections are waited for before its listener is closed.
DrainsFirst(c, k) ==
    /\ caller[c][k] = "listener"
    /\ CallerGoes(c, k, "drain")
    /\ UNCHANGED <<link, legs, ka, stop, lis, conn, cut>>

\* The first of two calls closes the listener.
ClosesListener(c, k) ==
    /\ caller[c][k] = "listener"
    /\ lis' = [lis EXCEPT ![c] = "closed"]
    /\ CallerGoes(c, k, "sweep")
    /\ UNCHANGED <<link, legs, ka, stop, conn, cut>>

\* Connections in p.active are closed.
Sweeps(c, k) ==
    /\ caller[c][k] = "sweep"
    /\ cut' = [cut EXCEPT ![c] = @ \/ conn[c] \in {"shaking", "dialing", "copying"}]
    /\ CallerGoes(c, k, "drain")
    /\ UNCHANGED <<link, legs, ka, stop, lis, conn>>

\* All handlers have ended, or three seconds have passed.
Drains(c, k) ==
    /\ caller[c][k] = "drain"
    /\ CallerGoes(c, k, "done")
    /\ UNCHANGED <<link, legs, ka, stop, lis, conn, cut>>

-----------------------------------------------------------------------------
Keepalive(c) == Probes(c) \/ Misses(c) \/ KeepaliveStops(c)
Handler(c) == Registers(c) \/ DialsRemote(c) \/ HandlerEnds(c)
Closing(c, k) ==
    StopsKeepalive(c, k) \/ ClosesLegs(c, k) \/ ClosesListener(c, k) \/ Sweeps(c, k) \/ Drains(c, k)

ClientNext(c) ==
    \/ LinkFails(c) \/ PeerCloses(c) \/ Hears(c) \/ Replies(c)
    \/ Keepalive(c)
    \/ Accepts(c) \/ Asks(c) \/ PeerDone(c) \/ Handler(c)
    \/ \E k \in Callers : Closes(c, k) \/ Closing(c, k)

ClientType ==
    /\ link \in [Clients -> {"none", "up", "silent", "closed"}]
    /\ ka \in [Clients -> [at : {"off", "tick", "probe"}, missed : 0..MissMax, heard : BOOLEAN]]
    /\ stop \in [Clients -> BOOLEAN]
    /\ lis \in [Clients -> {"none", "bound", "closed"}]
    /\ conn \in [Clients -> {"none", "accepted", "shaking", "dialing", "copying", "ended"}]
    /\ cut \in [Clients -> BOOLEAN]
    /\ caller \in [Clients ->
          [Callers -> {"no", "stop", "legs", "listener", "sweep", "drain", "done"}]]
=============================================================================
