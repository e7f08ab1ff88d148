-------------------------------- MODULE Xfer --------------------------------
(***************************************************************************)
(* File upload over SFTP (app/xfer.go, xfer/xfer.go): a handle is opened    *)
(* over one of three routes, uploads run on it, and XferClose takes it down *)
(* while they may still run.                                               *)
(*                                                                         *)
(* One handle is followed: handles share only the map they are listed in.  *)
(***************************************************************************)
EXTENDS Naturals, Sequences

CONSTANTS
    Uploads,   \* calls of XferUpload
    Closers,   \* calls of XferClose
    Batches,   \* what an upload may be given: sequences of file names
    NoUpload

Names == UNION {{b[i] : i \in DOMAIN b} : b \in Batches}

ASSUME XferAssumption ==
    /\ \A b \in Batches : b \in Seq(STRING)
    /\ NoUpload \notin Uploads \union STRING

Routes == {"own", "hop", "via"}

VARIABLES
    route,     \* viaSessionID, by its kind
    at,        \* where XferOpen is
    carrier,   \* the exec session on the jump host is open
    owned,     \* h.owned: "none", "up" or "closed"
    sftp,      \* the SFTP channel: "none", "up" or "closed"
    link,      \* the SSH connections under it, as one: "up", "silent" or "closed"
    listed,    \* the handle is in a.xfers
    cancel,    \* h.cancel: the upload it would cancel, or NoUpload
    ctx,       \* uploads whose context is done
    up,        \* each upload: where it is, the files left, the failure it has met
    closer,    \* each XferClose: where it is, and what its test of h.cancel read
    dir,       \* the remote directory exists
    remote,    \* the file of each name in it
    told       \* what the last Finished event of a name said

opening == <<route, at, carrier, owned>>
server == <<dir, remote>>
xferVars == <<opening, sftp, link, listed, cancel, ctx, up, closer, server, told>>

Alive == sftp = "up" /\ link = "up"

\* A round trip ends: well on a live channel, with an error on a closed one; a
\* silent connection leaves it waiting.
RoundTripEnds == link # "silent"

-----------------------------------------------------------------------------
(* XferOpen.                                                               *)

OpenRest == UNCHANGED <<link, listed, cancel, ctx, up, closer, server, told>>

\* A session without a client, or one the route cannot use, is refused.
OpensHandle ==
    /\ at = "idle"
    /\ \E r \in Routes :
          /\ route' = r
          /\ at' \in {CASE r = "own" -> "channel" [] r = "hop" -> "plain" [] r = "via" -> "dial",
                      "failed"}
    /\ UNCHANGED <<carrier, owned, sftp>>
    /\ OpenRest

\* sshx.Dial through the other session; a failed dial leaves nothing (Dial.tla).
DialsVia ==
    /\ at = "dial"
    /\ \/ link = "up" /\ owned' = "up" /\ at' = "channel"
       \/ at' = "failed" /\ UNCHANGED owned
    /\ UNCHANGED <<route, carrier, sftp>>
    /\ OpenRest

\* xfer.Open.
Channel ==
    /\ at = "channel"
    /\ RoundTripEnds
    /\ UNCHANGED <<route, carrier>>
    /\ \/ link = "up" /\ sftp' = "up" /\ at' = "put" /\ UNCHANGED owned
       \/ /\ at' = "failed"
          /\ owned' = IF owned = "up" THEN "closed" ELSE owned
          /\ UNCHANGED sftp
    /\ OpenRest

NextAttempt == IF at \in {"plain", "plainStarted"} THEN "login" ELSE "failed"

\* startHopSFTP: a session on the jump host, for the plain command or the login shell's.
StartsHop ==
    /\ at \in {"plain", "login"}
    /\ RoundTripEnds
    /\ \/ link = "up" /\ carrier' = TRUE
          /\ at' = IF at = "plain" THEN "plainStarted" ELSE "loginStarted"
       \/ at' = NextAttempt /\ UNCHANGED carrier
    /\ UNCHANGED <<route, owned, sftp>>
    /\ OpenRest

\* xfer.OpenPipe has no deadline: it returns when SFTP has answered on its pipes or the
\* command has ended; then, after three seconds at most, the session is closed.
HopAnswers ==
    /\ at \in {"plainStarted", "loginStarted"}
    /\ \/ link = "up" /\ sftp' = "up" /\ at' = "put" /\ UNCHANGED carrier
       \/ RoundTripEnds /\ at' = NextAttempt /\ carrier' = FALSE /\ UNCHANGED sftp
    /\ UNCHANGED <<route, owned>>
    /\ OpenRest

Puts ==
    /\ at = "put"
    /\ listed' = TRUE
    /\ at' = "open"
    /\ UNCHANGED <<route, carrier, owned, sftp, link, cancel, ctx, up, closer, server, told>>

-----------------------------------------------------------------------------
(* The connection: it may fall silent, and then its keepalive closes it    *)
(* (Client.tla), or be closed by its peer or by Disconnect.                *)

LinkGoes(label) ==
    /\ link' = label
    /\ UNCHANGED <<opening, sftp, listed, cancel, ctx, up, closer, server, told>>

FallsSilent == link = "up" /\ LinkGoes("silent")
LinkCloses == link = "up" /\ LinkGoes("closed")
KeepaliveCloses == link = "silent" /\ LinkGoes("closed")

-----------------------------------------------------------------------------
(* XferUpload and its goroutine.                                           *)

File(u) == Head(up[u].files)
UpRest == UNCHANGED <<opening, sftp, link, listed, closer, dir>>

\* a.xfer.
Gets(u) ==
    /\ up[u].at = "idle"
    /\ at = "open"
    /\ \E b \in Batches :
          up' = [up EXCEPT ![u] = [at |-> IF listed THEN "clean" ELSE "refused", files |-> b]]
    /\ UNCHANGED <<cancel, ctx, remote, told>>
    /\ UpRest

\* Conn.Clean: an absolute path takes no round trip.
Cleans(u) ==
    /\ up[u].at = "clean"
    /\ \/ up' = [up EXCEPT ![u].at = "register"]
       \/ RoundTripEnds /\ ~Alive /\ up' = [up EXCEPT ![u].at = "refused"]
    /\ UNCHANGED <<cancel, ctx, remote, told>>
    /\ UpRest

\* Mutant: nothing is refused.
RegistersAlways(u) ==
    /\ up[u].at = "register"
    /\ cancel' = u
    /\ up' = [up EXCEPT ![u].at = "next"]
    /\ UNCHANGED <<ctx, remote, told>>
    /\ UpRest

\* Under a.xferMu: a second upload on the handle is refused.
Registers(u) ==
    /\ up[u].at = "register"
    /\ IF cancel # NoUpload
       THEN up' = [up EXCEPT ![u].at = "refused"] /\ UNCHANGED cancel
       ELSE up' = [up EXCEPT ![u].at = "next"] /\ cancel' = u
    /\ UNCHANGED <<ctx, remote, told>>
    /\ UpRest

\* The Finished event of a file; after a failure the loop looks at its context.
Reports(u, verdict) ==
    /\ told' = [told EXCEPT ![File(u)] = verdict]
    /\ up' = [up EXCEPT ![u] = [at |-> IF verdict = "error" /\ u \in ctx THEN "ending" ELSE "next",
                                files |-> Tail(@.files)]]

\* Conn.Upload: the local file cannot be read, or the remote one not be opened; or it
\* is created or truncated.
OpensFile(u) ==
    /\ up[u].at = "next"
    /\ up[u].files # <<>>
    /\ \/ Reports(u, "error") /\ UNCHANGED remote
       \/ /\ Alive /\ dir
          /\ remote' = [remote EXCEPT ![File(u)] = "partial"]
          /\ up' = [up EXCEPT ![u].at = "copy"]
          /\ UNCHANGED told
    /\ UNCHANGED <<cancel, ctx>>
    /\ UpRest

\* Mutant: an error of the copier is lost.
CopiedAnyway(u) ==
    /\ up[u].at = "copy"
    /\ up' = [up EXCEPT ![u].at = "close"]
    /\ \/ Alive /\ remote' = [remote EXCEPT ![File(u)] = "full"]
       \/ RoundTripEnds /\ UNCHANGED remote
    /\ UNCHANGED <<cancel, ctx, told>>
    /\ UpRest

\* The copier is done first.
Copied(u) ==
    /\ up[u].at = "copy"
    /\ \/ /\ Alive
          /\ remote' = [remote EXCEPT ![File(u)] = "full"]
          /\ up' = [up EXCEPT ![u].at = "close"]
       \/ RoundTripEnds /\ up' = [up EXCEPT ![u].at = "remove"] /\ UNCHANGED remote
    /\ UNCHANGED <<cancel, ctx, told>>
    /\ UpRest

\* The context is done first: the file is closed, the copier waited for.
Interrupted(u) ==
    /\ up[u].at = "copy"
    /\ u \in ctx
    /\ RoundTripEnds
    /\ up' = [up EXCEPT ![u].at = "undo"]
    /\ UNCHANGED <<cancel, ctx, remote, told>>
    /\ UpRest

ClosesFile(u) ==
    /\ up[u].at = "close"
    /\ \/ Alive /\ Reports(u, "ok")
       \/ RoundTripEnds /\ up' = [up EXCEPT ![u].at = "remove"] /\ UNCHANGED told
    /\ UNCHANGED <<cancel, ctx, remote>>
    /\ UpRest

\* The partial file is removed, if the server can still be told to.
Removes(u) ==
    /\ up[u].at \in {"remove", "undo"}
    /\ RoundTripEnds
    /\ remote' = IF Alive THEN [remote EXCEPT ![File(u)] = "absent"] ELSE remote
    /\ Reports(u, "error")
    /\ UNCHANGED <<cancel, ctx>>
    /\ UpRest

\* The deferred function.
UploadEnds(u) ==
    /\ up[u].at = "ending" \/ (up[u].at = "next" /\ up[u].files = <<>>)
    /\ cancel' = NoUpload
    /\ up' = [up EXCEPT ![u].at = "ended"]
    /\ UNCHANGED <<ctx, remote, told>>
    /\ UpRest

\* XferMkdir.
Mkdir ==
    /\ at = "open"
    /\ listed
    /\ Alive
    /\ ~dir
    /\ dir' = TRUE
    /\ UNCHANGED <<opening, sftp, link, listed, cancel, ctx, up, closer, remote, told>>

-----------------------------------------------------------------------------
(* XferClose.                                                              *)

CloserGoes(k, label) == closer' = [closer EXCEPT ![k].at = label]
CloseRest == UNCHANGED <<route, at, link, cancel, up, server, told>>

\* Of two calls only one finds the handle.
TakesOff(k) ==
    /\ closer[k].at = "idle"
    /\ at = "open"
    /\ listed' = FALSE
    /\ CloserGoes(k, IF listed THEN "read" ELSE "done")
    /\ UNCHANGED <<carrier, owned, sftp, ctx>>
    /\ CloseRest

\* h.cancel is tested without the lock ...
ReadsCancel(k) ==
    /\ closer[k].at = "read"
    /\ closer' = [closer EXCEPT ![k] =
          [at |-> IF cancel = NoUpload THEN "conn" ELSE "cancel", cancel |-> cancel]]
    /\ UNCHANGED <<carrier, owned, sftp, listed, ctx>>
    /\ CloseRest

\* ... and called: a data race, and the build calls what the test has read, or reads the
\* field again.  An upload that has ended is not harmed.  If the field is nil by now the call
\* panics, and XferClose ends here: the frontend's framework recovers it.
Cancels(k) ==
    /\ closer[k].at = "cancel"
    /\ \E called \in {closer[k].cancel, cancel} :
          /\ ctx' = ctx \union ({called} \ {NoUpload})
          /\ CloserGoes(k, IF called = NoUpload THEN "panicked" ELSE "conn")
    /\ UNCHANGED <<carrier, owned, sftp, listed>>
    /\ CloseRest

\* Conn.Close: nothing more is sent;
ClosesConn(k) ==
    /\ closer[k].at = "conn"
    /\ sftp' = "closed"
    /\ CloserGoes(k, "carrier")
    /\ UNCHANGED <<carrier, owned, listed, ctx>>
    /\ CloseRest

\* the other side has ended, and then the carrier.
ClosesCarrier(k) ==
    /\ closer[k].at = "carrier"
    /\ RoundTripEnds
    /\ carrier' = FALSE
    /\ CloserGoes(k, "owned")
    /\ UNCHANGED <<owned, sftp, listed, ctx>>
    /\ CloseRest

\* Mutant: the private connection stays.
LeavesOwned(k) ==
    /\ closer[k].at = "owned"
    /\ CloserGoes(k, "done")
    /\ UNCHANGED <<carrier, owned, sftp, listed, ctx>>
    /\ CloseRest

ClosesOwned(k) ==
    /\ closer[k].at = "owned"
    /\ owned' = IF owned = "up" THEN "closed" ELSE owned
    /\ CloserGoes(k, "done")
    /\ UNCHANGED <<carrier, sftp, listed, ctx>>
    /\ CloseRest

-----------------------------------------------------------------------------
XferInit ==
    /\ route = NoUpload
    /\ at = "idle"
    /\ carrier = FALSE
    /\ owned = "none"
    /\ sftp = "none"
    /\ link = "up"
    /\ listed = FALSE
    /\ cancel = NoUpload
    /\ ctx = {}
    /\ up = [u \in Uploads |-> [at |-> "idle", files |-> <<>>]]
    /\ closer = [k \in Closers |-> [at |-> "idle", cancel |-> NoUpload]]
    /\ dir \in BOOLEAN
    /\ remote \in [Names -> IF dir THEN {"absent", "old"} ELSE {"absent"}]
    /\ told = [n \in Names |-> "nothing"]

Opening == OpensHandle \/ DialsVia \/ Channel \/ StartsHop \/ HopAnswers \/ Puts
Uploading(u) ==
    \/ Cleans(u) \/ Registers(u) \/ OpensFile(u) \/ Copied(u) \/ Interrupted(u)
    \/ ClosesFile(u) \/ Removes(u) \/ UploadEnds(u)
Closing(k) ==
    ReadsCancel(k) \/ Cancels(k) \/ ClosesConn(k) \/ ClosesCarrier(k) \/ ClosesOwned(k)

XferNext ==
    \/ Opening
    \/ FallsSilent \/ LinkCloses \/ KeepaliveCloses
    \/ \E u \in Uploads : Gets(u) \/ Uploading(u)
    \/ Mkdir
    \/ \E k \in Closers : TakesOff(k) \/ Closing(k)

\* Every goroutine runs, the server answers while the connection is up, and a silent
\* connection is given up.  The user need not open, upload or close anything.
XferFairness ==
    /\ WF_xferVars(KeepaliveCloses)
    /\ \A u \in Uploads : WF_xferVars(Uploading(u))
    /\ \A k \in Closers : WF_xferVars(Closing(k))

XferSpec == XferInit /\ [][XferNext]_xferVars /\ XferFairness

-----------------------------------------------------------------------------
(* Properties.                                                             *)

\* Types, and who may be where: an upload holds h.cancel while it runs, and only one does
\* (app/xfer.go:322-330).
XferType ==
    /\ at \in {"idle", "dial", "channel", "plain", "plainStarted", "login", "loginStarted",
               "put", "open", "failed"}
    /\ link \in {"up", "silent", "closed"}
    /\ \A u \in Uploads :
          up[u].at \in {"next", "copy", "close", "remove", "undo", "ending"} <=> cancel = u
    /\ \A k \in Closers : closer[k].cancel \in Uploads \union {NoUpload}
    /\ ctx \subseteq Uploads
    /\ listed => at = "open" /\ sftp = "up"
    /\ remote \in [Names -> {"absent", "old", "partial", "full"}]
    /\ told \in [Names -> {"nothing", "ok", "error"}]

Writing(n) ==
    \E u \in Uploads : up[u].at \in {"copy", "close", "remove", "undo"} /\ File(u) = n

\* A file the dialog was told is uploaded is there in full, whatever cancellations,
\* lost connections and other uploads came after, until it is written again.
OkMeansThere ==
    \A n \in Names : told[n] = "ok" /\ ~Writing(n) => remote[n] = "full"

\* XferOpen that fails closes what it had opened, on each of its routes (app/xfer.go:203-269).
FailedLeavesNothing == at = "failed" => ~carrier /\ owned # "up" /\ sftp # "up"

Gone ==
    /\ ~carrier
    /\ owned # "up"
    /\ \A u \in Uploads : up[u].at \in {"idle", "refused", "ended"}

CancelPanics == \E k \in Closers : closer[k].at = "panicked"

\* XferOpen that fails, and XferClose once it has been called, leave no session on
\* the jump host, no private connection and no upload: over all three routes, however
\* uploads come and go meanwhile, and even if the connection has gone silent; unless
\* XferClose panics at its call of h.cancel (CloseReleases).
NothingKept ==
    /\ []FailedLeavesNothing
    /\ (\E k \in Closers : closer[k].at = "read") ~> [](Gone \/ CancelPanics)

\* XferClose "releases the handle (and the private connection, if the handle dialed one)"
\* (app/xfer.go:356-357): a handle that is off the map, with no call of XferClose on its
\* way, has nothing open.
CloseReleases ==
    at = "open" /\ ~listed /\ (\A k \in Closers : closer[k].at \in {"idle", "done", "panicked"}) =>
        ~carrier /\ owned # "up" /\ sftp # "up"

\* "ctx cancels mid-transfer and removes the partial remote file" (xfer/xfer.go:126-127):
\* while the connection lives, an upload that was interrupted leaves no part of a file.
InterruptedLeavesNothing ==
    [][\A u \in Uploads :
          up[u].at = "undo" /\ up'[u].at # "undo" /\ link = "up" =>
              remote'[File(u)] = "absent"]_xferVars
=============================================================================
