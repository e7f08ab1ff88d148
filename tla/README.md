# f9: verification of the session, terminal and broadcast machinery

f9 is a desktop SSH terminal: a Go backend (`src/internal`) behind a web
frontend. Its own logic is in how goroutines share state: dials that settle
into a map while users disconnect, terminals whose output is read, counted,
batched and searched at the same time, a scrollback that is compressed in the
background, broadcasts that several goroutines carry on together, imports that
rewrite a tree of sessions under the user's hands, and files that must agree with
memory whatever fails in between. This directory models that logic in TLA+, checks
it with TLC on small instances and proves part of it, for every size, with TLAPS.

Paths below are relative to `src/internal/` unless they say otherwise.

## 1. The system

### Components

| Component | State it keeps | Operations | Modelled in |
|---|---|---|---|
| Connection manager `connmgr/connmgr.go` | map session -> entry (state, client), semaphore of dials | `ConnectBatch`, dial goroutine, `settle`, `watch`, `Disconnect`, `DisconnectAll` | `ConnMgr` |
| Scrollback ring `scrollback/ring.go` | sealed chunks, active chunk, line numbers, byte count, decompress cache, channel to the compressor | `Append`, `SetMaxBytes`, `Lines`, `Grep`, `Close`, compressor goroutine | `Scrollback`, `ScrollbackLog` |
| Terminal output path `app/terminal.go`, `sshx/session.go` | early output, flow-control window, coalescing buffer, the map of terminals | pumps, `OnData`, handler, timer, `TermAck`, waiter, `CloseTerminal` | `TermOutput` |
| Multi-send `multisend/multisend.go`, `app/multisend.go` | job: target states, current target; registered job | `MultiSendStart`, `Start`, `Feed`, `Sweep`, `MultiSendCancel` | `MultiSend` |
| Terminal lifecycle, memory budget `app/terminal.go`, `app/membudget.go` | `terms`, `termSess`, per-terminal byte caps | `OpenTerminal`, its waiter, `CloseTerminal`, `rebalanceScrollback` | `TermLifecycle` |
| SSH dialing, host keys `sshx/dial.go`, `auth.go`, `hostkey.go` | half-built jump chain, `known_hosts` | `Dial`, authentication, host-key callback | `Dial`, `Targets` |
| Keepalive, SOCKS `sshx/keepalive.go`, `sshx/socks.go` | miss counter; listener, open connections | ticks and replies; `serve`, `handle`, `Close` | `Client` |
| Prompts `app/connect.go` | requests awaiting an answer; what a batch shares | ask, `ResolvePrompt`, the bridge's lock | `Dial` |
| Session store `store/yamlstore.go`, `source.go` | sessions and folders in memory and as files | `Put`, `PutFolder`, `Delete`, sources, `LoadAll` | `Store`, `SessionMap` |
| Options of a session `store/resolve.go`, `app/connect.go`, `app/app.go` | options of folders and sessions | `Resolve`, `targetFor`, `SaveSession`, the jump chain editors | `Targets` |
| Import and reconcile `app/import.go`, `store/reconcile.go` | refresh registry; a refresh's snapshot | `FolderSourceRefresh`, `ReconcileFolderSessions`, set and clear a source, cancel | `Library` |
| Credentials `cred/cred.go` | salt, check, key and secrets, in memory and in a file | `SetPassphrase`, `Unlock`, `Put`, `Get`, `Delete`, `Open` | `Secrets` |
| OS detection `app/osdetect.go`, `app/pin.go`, `osdetect/` | detectors; metadata and hint of a session | observe, pin, re-detect, import, drop an idle detector | `OSDetect` |
| File transfer `app/xfer.go`, `xfer/` | handles, cancel function of an upload, the remote file | `XferOpen`, `XferUpload`, `XferMkdir`, `XferClose` | `Xfer` |
| Variables, button bars, snippets `vars/`, `buttonbar/`, `snippets/` | entries per scope, in memory and in files | put, delete, `List`, `Resolve`, `LoadAll` | `Customs`, `Library` |
| Facade and preferences, templates, map scripts, filter, themes, updates, CLI, frontend | small YAML files, pure data | rendering, parsing | not modelled: no interaction between steps (see 8) |

### How they interact

- A connect request reaches `ConnMgr` through `app/connect.go`, which passes
  `context.Background()` (`app/connect.go:295`): the application never cancels
  a batch, but the manager's interface allows it, and so does the model.
- `OpenTerminal` takes the session's client from the manager, opens a shell on
  it, and registers one handler with `session.OnData`. The handler runs in the
  two pumps of the session: it appends to the scrollback, feeds a registered
  broadcast, waits for credit, and queues output for the frontend.
- The frontend acknowledges output with `TermAck`, which gives credit back.
- The waiter goroutine of a terminal and `CloseTerminal` race to take it down.
- A broadcast writes to several terminals and learns of their progress from
  their pumps; a sweeper goroutine times targets out.
- `CloseTerminal` of the last terminal of a session disconnects it in the
  manager; opening and closing rebalances the scrollbacks' byte caps.
- The dials of one batch share a prompt bridge and the file `known_hosts`; what each
  dials with comes from the options of the session's folders (`Targets`), which edits
  change through the store.
- A connected client runs a keepalive loop and perhaps a proxy. It is closed by its
  owner, by the manager's watcher, or by both.
- A refresh asks the credential store for its secret, fetches, and then makes many
  separate calls of the session store, between which the user makes others.
- A pump feeds its session's detector; detection, pins, re-detection and imports each
  read the session's metadata and write it back.
- An upload runs on its own connection, through another one, or through a command on
  the jump host; closing the handle takes down what the route has opened.

### What is hard

Every component is a set of goroutines around one or two mutexes with the
interesting calls made outside the lock, so the behaviours that matter are
orders of lock sections. The full list of hazards, each at its line, is
in `PROJECT.json`; the ones that shaped the modules are:

- a dial settles after its entry was disconnected and redialed
  (`connmgr.go:154`);
- the compressor lags, the channel to it fills, and eviction meets a chunk that
  is not compressed (`ring.go:168`, `:226`), while `Close` closes that channel
  (`ring.go:503`);
- early output is replayed beside the pumps (`session.go:111`), the window
  resets while acknowledgements are under way (`terminal.go:128`), and the end
  of a session is noticed by two goroutines at once (`terminal.go:303-314`,
  `:449-472`);
- three kinds of goroutine hand a sequential broadcast on
  (`multisend.go:267`), and registration and its check are two lock sections
  (`app/multisend.go:89`);
- a rename is two file operations, a crash between which leaves one id in two files
  (`yamlstore.go:309`), and most changes end with a walk that rebuilds the index;
- a refresh works from a snapshot, with a lock per operation (`reconcile.go:55`);
- metadata is read and written back by four parties (`osdetect.go:107`);
- a prompt holds a dial, the bridge's lock and other dials (`connect.go:149`), while the
  handshake's timer runs;
- `XferClose` cancels an upload and closes its channel without waiting (`xfer.go:366-369`).

### What makes each component correct

- Connection manager: dials in flight are bounded; a row tells the truth about
  its client; no client is lost, closed under its row, or kept after its link
  died; every batch ends.
- Scrollback: lines keep their numbers and contents through sealing,
  compression and eviction; the byte count is exact and the caps are met; a
  writer never blocks on the compressor nor meets a closed channel.
- Output path: every chunk read is shown once, in the order it was queued, and
  is searchable; no reader waits forever; the end is reported after the output
  and with the right cause.
- Multi-send: a sequential job runs one target at a time, no line is sent
  twice, output reaches the job it belongs to, and every job ends.
- Terminal lifecycle: the last terminal takes its connection along and no other
  one does; open terminals share the memory evenly.
- Dialing: nothing outlives a failed dial or a closed client; no host is trusted that
  was not known or accepted; one answer does for the batch; the dial goes where the
  options say; dials end, and dead links are given up.
- Session store: index and files agree; the tree opens again after any crash; no
  session is lost, changed but by what is being put, or brought back.
- Import: what was made by hand stays; a refresh leaves what it promises and ends; a
  device has one session.
- Credentials: what was reported stored is in the file, and opens; what was reported
  deleted is not.
- Variables, bars, snippets: what was reported kept or gone is so after any failure and
  restart; a session resolves from the innermost scope that has something for it;
  nothing is filed under a folder that is gone.
- OS detection: a terminal without a label is observed, the jump host does not label
  the target, and a pin stays.
- File transfer: what was reported uploaded is there in full; nothing is left open.

## 2. Modules

| Module | Models | Extends / composes |
|---|---|---|
| `ConnMgr` | the manager, its dials, clients and watchers | - |
| `ConnMgrProofs` | theorems about it | `ConnMgr` |
| `ScrollbackLog` | abstract: what `scrollback.Buffer` promises | - |
| `Scrollback` | the ring; refines `ScrollbackLog` by `part <- tail, first <- firstAvail` | `INSTANCE ScrollbackLog` |
| `ScrollbackProofs` | theorems about it, the refinement included | `Scrollback` |
| `TermOutput` | one terminal from the pumps to the frontend | - |
| `TermOutputProofs` | theorems about it | `TermOutput` |
| `MultiSend` | jobs, their registration, sweepers and cancellation | - |
| `TermLifecycle` | several terminals: opening, closing, connections, byte caps | - |
| `TerminalProofs` | theorems about these two | `MultiSend`, `TermLifecycle` |
| `Dial` | the dials of a batch, their prompts, and after them their clients | `Client`, `Targets` |
| `Client` | a connected client: link, keepalive, proxy, Close | - |
| `Targets` | options of a session, their edits, what is dialed | - |
| `DialProofs` | theorems about the three | `Dial` |
| `SessionMap` | abstract: a map from ids to sessions | - |
| `Store` | index and files; refines `SessionMap` | `INSTANCE SessionMap` |
| `StoreProofs` | theorems about it, the refinement included | `Store` |
| `Library` | refreshes of a source beside the user's edits, and what sessions resolve | `Secrets`, `Customs` |
| `LibraryProofs` | theorems about the three | `Library` |
| `Secrets` | the credential store | - |
| `Customs` | variables, button bars and snippets | - |
| `OSDetect` | one session's detector, metadata and hint | - |
| `Xfer` | one transfer handle, its uploads and its closing | - |
| `DetectXferProofs` | theorems about these two | `OSDetect`, `Xfer` |
| `MC...` | the instances TLC checks | the module of that name |

`ConnMgr` takes a dial as one step and a client as open or closed; `Dial` opens the
dial, and `Client` the client, for a manager that is only present as the watcher that
closes what has died. `Library` takes an operation of the store as one step, which
`Store` justifies.

Conventions. A section of code between a lock and its unlock is one action;
what runs after the unlock (closing a client, an `OnSeal` call, a write to a
terminal) is an action of its own. Variables and actions carry the names of the
source where TLA+ allows it. Operators commented "Mutant" are wrong variants of
the operation below them; they are not part of the specification, and each
property is known to fail when one of them takes the operation's place.

### ConnMgr

A dial is named by its batch and its position in the target list, and the client
it opens bears the same name. `state`, `cli` and `owner` are the map entry;
`owner` is auxiliary and remembers the dial an entry was installed for, which the
code does not record. `phase` is the program counter of a dial goroutine, `sem`
the tokens taken, `toClose` the `Close` calls under way, `watch` the watcher of a
client. `ConnectBatch`'s loop takes one step per target (`SkipTarget`,
`StartDial`), since the lock is taken per target. `orphaned` and `misfiled` are
auxiliary: dials that lost their entry, and dials that settled into another
dial's entry.

Abstractions: a dial either fails or opens a client; what it does in between
(jump hosts, authentication, prompts) is not here. A batch has at least one
target. Error texts and timestamps of an entry are left out.

### Scrollback and ScrollbackLog

A line is its length in bytes, newline included; a chunk is the number of its
first line, its lines, and its compressed size (0 while it is raw). Contents
are thereby told apart by length, which the instances choose to differ between
neighbouring lines. `mu` is who holds `r.mu`: the two loops that run under it,
`maybeSealLocked` and `evictLocked`, take one action per turn, so that the
channel can be drained between two turns, as it can in the code. The compressor
(`comp`, `chunk`) encodes without the lock. `CacheOne` is the decompress cache,
its stale keys included. `log` is auxiliary: all lines ever completed.

`ScrollbackLog` is the promise of `buffer.go:50-66`: lines are only added, never
rewritten or renumbered, only the oldest are dropped, and nothing is written after
`Close`. `PromiseHolds` states that the ring implements it.

Abstractions: the encoder may yield any of `CompSizes`. A read that finds a
decode error, and `Grep` (which copies what it needs under the lock and then only
computes), are left out. `s.comp != nil` at `ring.go:199` can never be true
where it stands, so it is no guard here.

### TermOutput

A chunk is what one `Read` returns, named by its stream and number. Three actors
run the handler: the pumps of stdout and stderr, and `OpenTerminal` itself while
it replays early output in `OnData`. `pc` and `data` say where each is and what it
carries. An actor's path is `KeepOutput` (scrollback), `Credit` or `Stall`
(`waitCredit`), `QueueIdle` or `QueueBatch` (`queueOutput`). `timers` counts the
`flushOutput` calls still to come, so that a doubled timer would be visible. The
waiter and `CloseTerminal` take one action per step of theirs. `unacked` is what
the frontend has received and may still acknowledge.

Abstractions: sizes are in chunks, so that `pendingCap`, `flowWindow` and
`outChunk` are; the drop from early output is one whole chunk. The feed of a
broadcast from the same handler is in `MultiSend`; the activity marks only
classify output. The connection under the terminal, and other terminals, are the
subject of `TermLifecycle`.

### MultiSend

`call` is the program counter of a `MultiSendStart`, `work` what an actor does:
the call, the sweeper of a job, or the pump of a terminal. `startTarget`,
`failSend` and `advanceSeq` are `Begin`, `SendReturns`, `SendFails` and `Advance`,
run by whichever actor got there. `msJob` is `a.msJob`; `a.msCancel`, which is set
and cleared under the same lock, is the channel of the same job and needs no
variable. `displaced` is auxiliary: jobs another call registered over.

Abstractions: whether output shows an echo, a prompt or an error is open, and
so is when a target is overdue. A terminal has one pump here, as its second
stream (stderr) carries nothing on a pty. A cancellation and the closing of its
channel are one step, because nothing but the sweeper reads the channel. Events
to the frontend are left out. A write that never returns is not modelled: `Start`
calls the writer in its own goroutine and the sweeper only starts when `Start` has
returned (`app/multisend.go:137-141`), so one blocked terminal holds a broadcast up
for as long as it blocks; nothing in the model contradicts this, it assumes writes
return.

### TermLifecycle

`opener`, `waiter` and `closer` are the program counters of `OpenTerminal`, of the
goroutine it leaves behind and of `CloseTerminal`, one of each per tab; the two
look-ups and the insertion of `OpenTerminal` are actions of their own, with
`NewSession` between them. `todo` holds, for each run of `rebalanceScrollback`, the
caps it has still to set: the snapshot is taken under the lock, `SetMaxBytes` is
called after it, one terminal at a time, in any order (the code ranges over a
map). Auxiliary: `tabbed`, the clients that have had terminals; `outdated` and
`stale`, the runs that a later snapshot overtook and the terminals whose cap
such a run was the last to set.

Abstractions: a connection is there or not, since `ConnMgr` has the dials;
`Disconnect` takes the row and closes the client in one step, and a closed or dead
client ends its channels at once. The frontend gives every tab a fresh
identifier, so a tab is opened once; it may close a tab at any time, also while
`OpenTerminal` is at work. The budget, which the code computes from the physical
memory, is a constant. The detectors that `OpenTerminal` and the waiter create and
drop are in `OSDetect`.

### Dial, Client and Targets

`pc` and `leg` say where in its chain a dial is; a leg is one SSH connection, a jump
host or the target. `HostKey` to `Reloads` are `tofu.check`; `TriesKeys` to `KbiGiven`
the methods in the order `buildAuth` lists them. `ask` is a dial's entry in
`a.prompts` with what its reply channel holds, `lock` the bridge's mutex, `shared` and
`phrase` what the bridge keeps for the batch. `late` says that the timer has closed the
connection of a handshake: no method succeeds any more, but x/crypto tries the next
one, so the user may still be asked, and an answer still counts for known_hosts and
the bridge. A client's link may fall silent or be closed by its peer. The keepalive loop
waits for a tick (`tick`) or a reply (`probe`) and counts misses; data that arrived
since a probe forgives. With an interval of zero (`sshx.go:39`, `dial.go:256`) there is no
loop (`off`), and a link that falls silent is then noticed by nobody. `caller` has the steps
of the two calls of `Close`.

`Targets` has one session in a path of folders. `opts` is what the index holds, `disk`
what the files do: an empty list is not written, `Put` of a session leaves the index as
it was given, and every change of a folder, and `Tree`, read the files again. `LegsTo`
is `targetFor`. `wanted` is auxiliary: what was set last on each level.

Abstractions: two options stand for all eleven: a list and a pointer, the two ways
options are kept. One secret is right or wrong. A server may or may not offer a method.
A `CONSTANT Scenes` gives the batches that are explored, each with the options, edits
and followed clients of its own, so that the cases do not multiply.

### Store and SessionMap

A path is a sequence of numbers in file-name order, so that the walk of `loadDir`, which
decides which of two files with one id is found first, is modelled and not assumed.
`sanitizeName` is a constant function (`BaseOf`), folding of case another (`FoldOf`).
Each operation checks its request against the index and plans its steps in the
order of the code (`PutSteps`, `CreateSteps`, `MoveSteps`); `TakeStep` takes one of them,
`Fail` ends the operation with an error instead, `Crash` ends the process. `Open` and
`LoadAll` walk the tree; a folder without `folder.yaml` is given one, a session without
id likewise (`Heal`).

`SessionMap` is the promise of `store.go`. A session is stored or replaced only as the one
that is being put (`writing`), with a higher revision than the one it replaces; a file made
by hand comes in under an id never given before (`given`); a session disappears only while
its deletion is under way (`deleting`). A crash, a reload, a move or the end of an operation
changes nothing, so a session that is gone, or an older state of one, does not come back.
In `Store`, `writing` is what the next step of the operation writes. The promise is
suspended (`damaged`) while index and files are known to differ or one id is in two files.

Abstractions: contents of a session are its name and revision; of two files with one
id the newer counts as the session kept. A write of a file is atomic (`writeYAML`
writes a temporary file and renames it).

### Library, Secrets and Customs

A refresh is a program counter with the state of `FolderSourceRefresh` and
`ReconcileFolderSessions`: its records, the snapshot `existing` (`old`), the folder cache
(`cache`), what it skipped. Every call of the store is one step. The registry
(`cancels`) holds the refresh a cancel would reach. The user creates, renames, copies
and deletes sessions and folders; `SaveSession`, `SessionSetJumpChain` and
`SessionDuplicate` read a session in one step and put it back in another. Auxiliary:
`disturbed`, refreshes under which somebody else changed the tree; `twins`, sessions
whose key another had in the snapshot; `revived`, an edit put back a session that
had been deleted meanwhile.

`Secrets` keeps `vault` in memory beside `vaultFile`; each change rewrites the file or
fails and leaves the change in memory only. A sealed secret bears the passphrase of the
key it was sealed with. Auxiliary: `told`, what the user was last told is stored, and `undeleted`, the
secrets a deletion took from memory while the file kept them. A deletion that fails does not
change what the user is told, because `FolderSourceClear` throws its error away and reports
success, and one that is repeated finds nothing in memory and saves nothing.
`Library` puts the two together: set a source with a secret (first the secret, then the
source), clear it (first the secret, and success is reported once the source is gone),
refresh only with a secret that opens, and restart at any moment.

`Customs` has the three stores of what a user adds to sessions and folders. `customs` is
memory and `files` the disk; variables and snippets change memory before they write, bars
write first, and any write may fail. `reported` is auxiliary: what the user was last told
is stored, or that there was an error; `leftover` marks what a failed deletion left in a
file. `Library` scopes variables and bars to its folders and sessions, of which a refresh
creates and moves some, and resolves what a session sees by walking up the folders.

Abstractions: there is one source folder, and of a second one only its secret; a path of
a record is one folder deep; what a fetch decodes is a constant set. A variable is scope,
name, OS selector and value; a bar is the set of its buttons' selectors, and a snippet the
folder it is in. A file is replaced by a rename, so it is written or it stays. Which names
the policy refuses is a constant, and the patterns behind it are left out.

### OSDetect

One session, whose terminals open, deliver and end. `det` is the entry in `a.dets`. A
chunk of output is evidence of the hop, of the target, or the line with the target's
name that ends the hop phase (`passed`). `obs` is the observation a pump is in the middle
of; `redo`, `pin` and `sync` are `SessionRedetectOS`, `PinSession` and the import's look at
the metadata: each reads it in one step and writes it back in another. `SessionRedetectOS`
makes a new detector if the manager has the session's client, which may be gone while
terminals are still listed. Auxiliary: `tabSet` is what the user made of the tab; `mixed`,
`robbed`, `torn` and `undone` mark the histories in which the code does not keep the
promise (section 4), so that everything else is known to.

### Xfer

`at` is `XferOpen` on one of three routes: a private connection through another session
(`via`), the session's own client (`own`), or a command on the jump host (`hop`), first
plain and then through a login shell. `up` is the state of each upload, `remote` the
remote file: absent, old, partial or full. `closer` tests `h.cancel` in one step and calls
it in another, without the lock: a data race, in which the build may call what the test has
read or load the field again. A call of what is nil by then panics, and the framework that
made the call recovers it (`panicked`): the closer has taken the handle off the map and
closes nothing. A silent link blocks a round trip until keepalive closes it.

## 3. Runs

| Run | Module, configuration | States | Question |
|---|---|---|---|
| `connmgr` | `MCConnMgr`, `MCConnMgr.cfg` | 187 227 | do cap, rows and clients hold up under overlapping batches, disconnects, cancellation and dying links, and does every batch end? |
| `connmgr_leak` | `MCConnMgr`, `MCConnMgrLeak.cfg` | - | can a client leak after all? (it can: finding 1) |
| `scrollback` | `MCScrollback`, `MCScrollback.cfg` | 179 511 | do numbers, contents, bytes, caps, cache and channel hold up while writes, compression, eviction, reads and `Close` interleave, and does the ring keep the buffer's promise? |
| `termoutput` | `MCTermOutput`, `MCTermOutput.cfg` | 889 073 | is output lost, doubled, held, unsearchable or reported after the wrong end? |
| `multisend` | `MCMultiSend`, `MCMultiSend.cfg` | 210 238 | order, single sending, registration and termination of broadcasts |
| `termlife` | `MCTermLifecycle`, `MCTermLifecycle.cfg` | 2 893 031 | is a connection left without terminals, and does each terminal get its share of memory? |
| `store` | `MCStore`, `MCStore.cfg` | 1 031 787 | do index and files agree, does the tree open after any crash, and is a store a map? |
| `library` | `MCLibrary`, `MCLibrary.cfg` | 491 385 | what do refreshes leave beside a user's edits, are secrets and settings kept, and what does a session see of them? |
| `osdetect` | `MCOSDetect`, `MCOSDetect.cfg` | 7 169 092 | is a session without a label observed, and does a pin stay? |
| `dial` | `MCDial`, `MCDial.cfg` | 322 652 | what do dials leave, ask, trust and follow, and do they end? |
| `xfer` | `MCXfer`, `MCXfer.cfg` | 1 095 045 | is what was reported uploaded there, and is anything left open? |
| `xfer_partial` | `MCXfer`, `MCXferPartial.cfg` | - | does an interrupted upload leave a part of a file? (it does: finding 2) |

`CHECK_DEADLOCK FALSE` stands in every configuration: all these systems may come to
rest, with every caller served and nothing more to be read or sent. That nobody
is stuck before that is what the liveness properties say.

### What the properties say, and the bounds

**connmgr**: two sessions, two batches, one of which connects both sessions and the
other the first again; cap 1, so that a dial always waits. The overlap of two
dials of one session needs a disconnect between two batches, which this has, and
a third batch adds only repetition. `DialCap`: the semaphore is neither overrun nor
given back twice. `RowTruthful`, `NoLeakWhenClean`, `OneDialPerSession`: hold for every
session none of whose dials was misfiled, which is exactly the situation of
finding 1; the condition is part of the statement, and the model shows that
there is no other way to lose a client. `TrackedNotClosed`: needs no such condition.
`BatchSettles`, `DeadRowGoes`: the done channel closes, and a dead link's row goes.
`DialsSound` is the conjunction of `DialCap`, `OneDialPerSession` and `TrackedNotClosed`,
`Settles` that of `BatchSettles` and `DeadRowGoes`. `connmgr_leak` uses cap 2, which lets the
two dials overlap sooner.

**scrollback**: chunks of 3 bytes, forced split at 4, three kinds of write
(several lines and a rest; a rest that must be cut; a line), three writes, a
channel of 1, a cache of 1, compressed sizes 1 and 2, byte caps 2 and 8, line cap 3.
One write fills more than one chunk, so the channel is full in the middle of a
seal loop, chunks are compressed inline while older ones are raw, eviction meets
a raw head, both caps bind, the cap changes at run time, and a carried tail is
cut by force later. `Numbered`, `ReadsExact` and `PromiseHolds` are about lines,
`BytesAccounted`, `CapsHold` and `RawBounded` about memory, `CacheCoherent` about the
cache, `NoSendOnClosed` and `CloseReturns` about `Close`, `EveryChunkReported` about the
`OnSeal` callbacks. `CapsHold` is stated for compressed history with a compressed
head, because the code stops evicting at a raw head (`ring.go:226`) and the active
chunk is never evicted: the caps are met later, not always. `BooksExact` is the
conjunction of `ReadsExact`, `BytesAccounted`, `CapsHold`, `RawBounded` and `CacheCoherent`,
`CompressorFinishes` that of `EveryChunkReported` and `CloseReturns`.

**termoutput**: two chunks on stdout and one on stderr, early output of one
chunk, window 1, batch 2. Small as it is, everything happens: early output
overflows, a pump stalls on the window while the other proceeds, a batch fills,
the timer rearms, acknowledgements come late or never, and the session is closed
from both ends. `OnePlace`: a chunk is in one place at a time (neither lost nor
doubled). `OneTimer`: one timer exactly while a window is open, and none is missing while the
buffer holds output. `PumpOrder`: what a pump hands on itself arrives in its order (the replay
is excepted, see section 4). `FlowBounded`: until `flowStall` strikes, all
that the frontend has not acknowledged is counted, and the window is overrun by one
read at most. `SearchSeesScreen`,
`DrainedBeforeClosed`, `DiedTruthful`: the end of a terminal. `ChunksArrive`: no pump
is held forever, whatever the frontend does. `BatchingExact` is the conjunction of
`OnePlace`, `OneTimer`, `PumpOrder` and `FlowBounded`, `EndTruthful` that of
`DrainedBeforeClosed`, `DiedTruthful` and `SearchSeesScreen`.

**multisend**: one broadcast to three terminals, parallel or sequential, or two
broadcasts to one terminal whose calls race. Three targets are the fewest where a
doubled hand-over skips one that is not the last. `SeqInOrder`, `NoLineTwice`: the
hand-over happens once although three goroutines may attempt it.
`RunningJobHeard`: an old job's sweeper does not unregister a new job. The call
that passed the check before another one registered may replace it
(`displaced`); that is a weakness of the code, and `JobSettles` shows that the
replaced job still ends, by time-out. `InTurn` is the conjunction of the three.

**termlife**: two tabs, each opened for either of two sessions, two connections,
one `CloseTerminal` per tab (the run with two has 9.6 million states and the same
outcome), a budget of 5 with a floor of 1, so that one terminal, two and none differ
in their share and the division leaves a rest. Tabs are closed while
they open, after their shell has exited, and both at once; connections die, are
disconnected by the user and come back. `LastCloseDisconnects`: a connection that
has had terminals and has none left is one a `CloseTerminal` is about to drop.
A tab closed before its terminal was listed stays listed and keeps its connection:
the property counts it as a terminal, as the code does. `EvenShare`: with no open or
close under way, each terminal has its share; `stale` terminals are excluded, and that
exclusion is real: two rebalances that overlap leave a terminal with the share of a
set that is gone until the next open or close.

**store**: two sessions, two folders beside the root, names that are equal but for case and one
that has no spelling on disk, one session with revisions up to 2 and one up to 1, depth 2, and one fault: a failed
file operation, a crash, or a file copied by hand, at any point. One fault per behaviour
is enough to reach every state between two file operations; the tree is then opened
again and used on. `IndexCurrent` compares the index with a fresh walk; it is suspended
(`synced`) from a failure to the next walk. `OpensUnlessCut` says that no id is found twice,
but after a rename was cut in its middle (`cut`), which is the one crash that the code
does not survive: the next start refuses the tree. The same flag covers operations begun
while a failure had left the index out of step. `MapKept` is the refinement of `SessionMap`:
over every step, failures and crashes included, what is stored under an id is what was there
before, or what is being put and newer, or nothing because it is being deleted.

**library**: in the first scene two refreshes of one source whose devices are renamed,
moved and doubled (three record sets over two names, two keys, two paths), beside one
operation of the user at any moment; in the second two refreshes alone, with a device that
replaces the others besides; in the third a refresh of a source that authenticates, beside
five operations on the secrets, restarts included; in the fourth a refresh that creates a
folder and a session, beside two operations on variables and bars; in the fifth three
operations on variables alone, with their selectors and failures; in the sixth four on
snippets and their folders, enough to fill a folder, try to empty it and start again. Two
refreshes and an edit are the fewest that give every pair of writers. `RefreshDone` says
for refreshes that nobody disturbed what `reconcile.go:35-41` promises; `HandMadeKept` and
`OneSessionPerKey` hold for disturbed ones too. `RefreshEnds`: no refresh turns in
circles. `SettingsSound` is the conjunction of `SecretsKept` (two passphrases, two values,
two secrets, saves that fail; of what was cleared it excepts what a failed save has left in the
file, section 4), `CustomsKept`, `SnippetsFiled` and `SessionResolves`: every
session sees of a variable the value of the innermost scope that has one for its family,
and no button for another family, while a refresh makes the folders that are walked up.

**osdetect**: two terminals, two detectors, a budget of three chunks of which two decide.
Beside two terminals there is one redetection, pin or import; as long as only one has
opened there are up to four (`MCMaxOps`), so that a tab that is pinned meets detections,
redetections, imports and further pins, before, between and after their reads and writes.
`HopSilent`, `Watched`, `PinKept` carry the exceptions `mixed`, `robbed` and `undone`: each
names an order of steps in which the code loses; the property says that there is no other.
`DetectorSound` is the conjunction of the first two.

**dial**: three scenes. Two dials of one batch through one jump host that is unknown, which
compete for known_hosts, the lock, the shared password and the passphrase. One dial,
direct, through a jump host, through a shell hop or through a chain that is refused, whose
client lives on, with a link that falls silent or closes, a proxied connection and both
calls of `Close`. One dial after two edits or reloads of the options of a session and its
folder, with an alternative user and keys that are known, new or wrong. `Released`,
`PromptsHonoured` (`AskedOnce` and `KeysTrusted`), `GoesAsSet` and `Settles` (`DialEnds` and
`DeadFreed`). `GoesAsSet` lets a chain that was cleared fall back on the inherited one
(section 4). A connection accepted while `Close` sweeps is not closed by it
(`socks.go:72`) and holds a handler until its program speaks or goes; `DeadFreed` makes
that exception and one more, a silent link under a client without keepalive.

**xfer**: two uploads, of one or two files, with one name in common, two `XferClose`, the
three routes. `OkMeansThere`: a success is not undone by what comes later. `NothingKept`: a
failed open leaves nothing, and after a close everything ends, for good, unless the close
has panicked (section 4).

Counters that would grow without limit are bounded by constants in the guards:
`MaxTargets` and the set `Batches` (`ConnMgr`), `MaxAppends` (`Scrollback`), `MaxChunks`
(`TermOutput`), the set `Jobs` (`MultiSend`), `MaxClients` and `MaxCloses` (`TermLifecycle`),
`MaxRev`, `MaxDepth`, `MaxFaults` (`Store`), `MaxIds`, `MaxFolders` and a scene's `edits` and
`settingOps` (`Library`), `MaxDetectors`, `MaxOps` (`OSDetect`), a scene's `edits` (`Dial`), the
sets `Uploads` and `Closers` (`Xfer`).

### Fairness

Only goroutines, timers and system calls that must return are fair; users,
servers and the frontend never have to do anything.

- `ConnMgr`: weak fairness of a batch's loop and waiter, of a dial (transports have
  time-outs), of settling and returning, of a `Close` call and of a watcher. A
  dial that waits for a prompt nobody answers is the exception: there is no time-out
  for it in the code, and `Dial` has the prompts.
- `Scrollback`: weak fairness of the running `Append`, of an eviction, of `OnSeal` calls
  and of `Close`; strong fairness of the compressor, which competes for the mutex
  with callers. Go's mutex hands itself to a waiter that has waited 1 ms, so a
  waiter is not passed over forever.
- `TermOutput`: weak fairness of `OnData`, of each actor's handler, of the timer, the
  waiter and `CloseTerminal`'s remaining steps. None for reads, acknowledgements, the
  remote side or the user.
- `MultiSend`: weak fairness of `Start`'s loop, of every actor's current step (a write to
  a terminal returns), and of the sweeper's time-outs (every running target
  becomes overdue). None for output of the terminals, so jobs end by time-out alone.

- `TermLifecycle`: weak fairness of `OpenTerminal` (the server answers or refuses a
  channel), of the waiter, of `CloseTerminal`'s remaining steps, of each rebalance and
  of the watcher. None for tabs, users, shells and links.
- `Library`: weak fairness of a refresh that has begun: the fetch has a deadline
  (`import.go:193`) and the store answers. None for the user.
- `Dial`: weak fairness of a dial's own steps (TCP, handshakes and servers answer or fail
  in time), of the keepalive loop, of a proxied connection's handler, of a `Close`
  that has begun and of the watcher. And of `ResolvePrompt`: nothing in the code ends a
  wait for the user but quitting, so `Settles` holds for a user who answers.
- `Xfer`: weak fairness of an upload, of an `XferClose` that has begun and of the
  keepalive that gives a silent connection up.
- `Store` and `OSDetect` have safety properties only.

## 4. Findings and known disagreements

Findings, with a run each:

1. **A client can leak** (`connmgr_leak`). `settle` finds its entry by session id
   (`connmgr.go:154`). Dial, disconnect, dial again: the first dial may settle into
   the second's entry; the second then overwrites the client, and the first client
   is neither tracked nor closed. `connmgr.go:105-106` and `:150-151` say otherwise.
2. **An interrupted upload leaves a part of the file** (`xfer_partial`). `XferClose` cancels
   the upload and closes its channel at once (`app/xfer.go:366-369`); the upload then
   removes the partial file over a closed channel, and ignores the error.
   `xfer/xfer.go:126-127` says a cancel removes the partial file.

Disagreements between code and comments that the modules state as properties without a
run in `PROJECT.json`. The configuration named shows the counterexample:
`tlc -config <cfg> MC<module>`, with `MCLibrary` for `Secrets` and `Customs`.
`MCLibraryDisputed.cfg` names five properties, of which all but one are commented out.

| Property, configuration | The code | The text |
|---|---|---|
| `TermOutput.ReadOrder`, `MCTermOutputReadOrder.cfg` | `OnData` registers the handler, unlocks and replays early output; a pump can overtake it (`sshx/session.go:104-113`) | events leave in read order (`app/terminal.go:51-52`) |
| `TermOutput.NoTrailing`, `MCTermOutputNoTrailing.cfg` | the waiter drains the batch and does not wait for the pumps (`terminal.go:303-314`) | no data trails `f9:termclosed` (`terminal.go:184-185`) |
| `MultiSend.CancelStops`, `MCMultiSendCancel.cfg` | `Start`'s loop and a hand-over under way look at nothing that a cancel changes (`app/multisend.go:166-179`) | a cancel stops the broadcast, targets keep their state (`:165`) |
| `TermLifecycle.OthersKeepAlive`, `MCTermLifecycleKeepAlive.cfg` | the last terminal is found under the lock, the disconnect follows after it, by session id (`terminal.go:453-471`) | other terminals keep the connection alive (`:447-448`) |
| `OSDetect.PinPersists`, `MCOSDetectLost.cfg` | a redetection, a detection or an import reads the metadata, a pin is stored, and they write back what they had read (`app/osdetect.go:27-36`, `:107-114`, `store/reconcile.go:107-115`) | `PinSession` marks a session as pinned, persisted in its metadata (`app/pin.go:5`) |
| `Xfer.CloseReleases`, `MCXferClose.cfg` | `h.cancel` is tested and loaded again without the lock; the upload that ends in between has set it to nil, and the call panics before anything is closed (`app/xfer.go:366-371`, `:332-334`) | `XferClose` cancels any running upload and releases the handle and the private connection (`app/xfer.go:356-357`) |
| `Secrets.ClearedIsGone`, `MCLibraryDisputed.cfg` | the error of the secret's deletion is discarded, and a repeated deletion finds nothing in memory and reports success, while the file keeps the secret (`app/import.go:98`, `cred/cred.go:203-204`) | `FolderSourceClear` removes the source and its stored secret (`app/import.go:95`) |
| `Library.CancelReaches`, `MCLibraryDisputed.cfg` | a refresh that ends takes out whatever is registered for its folder, so one that replaced it can no longer be cancelled (`app/import.go:187-192`) | `FolderSourceCancelRefresh` aborts a refresh in progress (`app/import.go:223`) |
| `Library.RefreshMatches`, `MCLibraryDisputed.cfg` | additions and updates come before removals, so a record is skipped whose name only a session still to be removed has | the sessions match the records (`reconcile.go:35-36`) |
| `Customs.DeletedIsGone`, `MCLibraryDisputed.cfg` | a deletion that fails has already taken the entry from memory, and repeating it finds nothing and reports success while the file keeps it (`vars/vars.go:246-275`, `snippets/store.go:215-228`) | `Delete` removes the selector or the key (`vars/vars.go:244-245`) |
| `Customs.SnippetTree`, `MCLibraryDisputed.cfg` | `SaveFolder` only asks that the parent exists: a folder may be put below itself (`snippets/store.go:160`) | folders are a tree (`snippets/store.go:16-17`) |
| `Dial.ClearedStays`, `MCDialCleared.cfg` | an empty chain is not written to the file (`store.go:14`), so the next load brings the inherited chain back; a folder's at once | an empty list clears it, overriding inheritance (`app.go:356-357`) |
| `OSDetect.HopNeverLabels`, `MCOSDetectHop.cfg` | a second terminal's hop output reaches a detector the first has armed, or one left behind | the hop's output is no evidence (`osdetect/osdetect.go:62-69`) |
| `Store.OneSourcePerSubtree`, `MCStoreSources.cfg` | only `SetFolderSource` checks; moving a folder can bring a source below another | one source per subtree (`source.go:50-52`) |

What else the code does in histories the properties except:

- After a failed file operation the index is out of step until the next walk, and an
  operation begun then may double an id; deleting a folder whose directory cannot be
  removed has removed its `folder.yaml` already (`yamlstore.go:425-431`).
- Detections, imports and redetections that overlap write back what they read: the last one
  undoes the others (`torn`; `undone` if it was a pin, see the table). A waiter may delete
  the detector a terminal that is just opening was given (`robbed`, `osdetect.go:124-140`).
- The handshake timer runs while a prompt is open, so a late answer fails the dial,
  but its host key is kept and its password is shared. Two dials of a batch both ask
  about one unknown host (`hostkey.go:60`).
- Data that arrives between two probes is no sign of life; only data since the probe is
  (`keepalive.go:66-80`). Without keepalive a link that falls silent is kept.
- A failed `SetPassphrase` leaves the store set up in memory until the program ends.
- A variable or snippet whose write failed is used until the program ends and is gone
  after (`failed`); a button bar is not. The scope files of a session or a folder that is
  deleted stay, and nothing resolves them.

## 5. What is proved

TLAPS proves the following for every value of the constants that satisfies the
named assumptions.

**`ConnMgrProofs`** (assumes a positive cap, finitely many dials, non-empty target
lists of bounded length, and that `None` is neither a dial nor a session). The inductive invariant
`IInv` adds to `TypeOK`:

- `StartedInv`: a dial has a session exactly when started, and the loop has passed
  it, so that `StartDial` never reuses a dial;
- `SemInv`: `sem` is the number of goroutines between taking and releasing a token.
  `TypeOK` alone is not inductive: `sem - 1` is a natural number only because of it;
- `RowInv`, that is `ClientInv` (what a dial's phase says of its client) and
  `EntryInv` (what an entry says of its owner and of the client it holds, for every
  session);
- `CleanInv`: for a session without a misfiled dial, also that the row's state and
  the client agree, that every dial still running is the entry's own or orphaned,
  and that nothing is leaked. It needs that `Clean` only ever becomes false
  (`CleanBefore`).

Theorems: `TypeCorrect`, `DialCapHolds`, `NoLeakWhenCleanHolds`, `RowTruthfulHolds`,
`TrackedNotClosedHolds`, `OneDialPerSessionHolds`, and `DialsSoundHolds`, which is the three
about dials together, as the run checks them.

**`ScrollbackProofs`** (assumes sizes are natural numbers, positive where zero would be
meaningless, and that no piece is empty). `RingType` is the type invariant without the byte
count and the cache, whose types rest on the books below. The parts build on each other,
each inductive together with those named:

- `Numbered` (with `RingType`): each action moves lines between the active chunk, the sealed
  chunks and the outside without changing the number or the length of any;
- `LockInv`: the channel is closed only after `closed`, and a seal loop runs only while
  `~closed`. It gives `NoSendOnClosed`;
- `BacklogInv`: the raw chunks are those in the channel and the one in the compressor's
  hands. It gives `RawBounded`, by an injection into the places there are;
- `PendingInv`: what is in the channel, or in the compressor's hands, is still in the ring,
  raw, and once. Without it a chunk could be replaced whose bytes were never counted;
- `BytesInv`: `totalBytes` is the active bytes and the sum over the sealed chunks;
- `CapsInv`: compressed chunks are within both caps whenever the eviction loop is not
  running. `BytesInv` and `Numbered` link what the loop tests, `totalBytes` and a difference
  of line numbers, to the chunks themselves;
- `CacheInv`: what the cache holds is in the ring, under one of its keys.

`BytesInv` needs sums over functions, and `ReadsExact` a recursive function over the chunks.
The induction behind them uses no operator parameter: a set of counterexamples has a least
element (`Least`, `Induct` for numbers, `InductSets` for finite sets, from the
well-foundedness theorems of the library), and a definition by recursion equals itself
because a function with its equations exists (`RecursionHolds`, `SumExists`). `PromiseKept`
proves the refinement: initial states map to initial states, and each step is a `Write`,
`Split`, `Drop`, `Close` or a stutter, by `Numbered`.

Theorems: `RingTypeCorrect`, `TypeCorrect`, `NumberedHolds`, `NoSendOnClosedHolds`,
`RawBoundedHolds`, `BooksHold` (`BooksExact`), `PromiseKept`.

**`TerminalProofs`**, of `TermLifecycle` (assumes finitely many tabs, natural numbers for the
budget, the floor and the bounds, and that `None` is neither a number nor a session). `IInv`
is `TypeOK` and five parts:

- `OpenerInv`: how far `OpenTerminal` has come decides whether the tab has a session, a
  client, a waiter and a place on the maps;
- `ClientInv`: clients are numbered in the order they come, no two rows hold the same
  one, and a tab whose client is in a row is a tab of that row's session. Without it
  a new connection could already count as one that had terminals;
- `KeptInv`: a connection that has had terminals has one in `termSess` or is about to
  be dropped. It is what `LastCloseDisconnects` follows from: the property itself is
  not inductive, because it says nothing while terminals are left;
- `RunnerInv`: caps are left to set only where a rebalance is running;
- `ShareInv`: with no snapshot still to come, every run that is not outdated sets the
  share of the terminals there are, and a terminal without it is still on such a
  run's list.

Theorems: `TypeCorrect`, `LastClose`, `SharesEven`, and `CapIsFair`, that `perTerminalCap`
divides a budget as `Fair` says, for every budget, floor and number of terminals.

**`TermOutputProofs`** (assumes finitely many streams, that `OpenTerminal` is none of them,
natural numbers for reads, early output and window, and a positive batch). `IInv` is
`TypeOK` and:

- `HandInv`: `OnData` is the border between a session that keeps what it reads and one that
  hands it on; what each actor carries at each point of its path;
- `EndInv`: which steps of the waiter and of `CloseTerminal` are behind what is closed;
- `KeptInv`: what is past the handler's first step is in the scrollback of a listed
  terminal. `SearchSeesScreen` alone is not inductive: it does not see what a pump has in
  its hands between scrollback and batch;
- `DrainInv`: no notice before the waiter is done, and what it drained was sent before that;
- `PlaceInv`: no chunk twice in one of the places, no two places with a chunk in common, and
  together exactly what was read. `OnePlace` counts occurrences; this says the same of sets
  and injective sequences, which the provers can follow, and `OnePlaceIs` joins the two;
- `OrderInv`: events, and after them the batch, ascend for every stream. It needs `PlaceInv`
  (a chunk that comes late is not one that was sent) and `OneTimer` (an idle window has an
  empty batch);
- `OneTimer` and `FlowBounded` themselves.

Theorems: `Inductive`, `TypeCorrect`, `BatchesExact` (`BatchingExact`), `EndTold`
(`EndTruthful`).

**`TerminalProofs`**, of `MultiSend` (assumes that a request has a sequence of terminals, and
that `NoJob` is no job). `MultiSendInv` is `MultiSendType`, `Shape` (each job has an entry per
target) and:

- `LoopInv`: a target that `Start`'s loop has not come to is pending;
- `OrderInv`: of a sequential job, targets before the current one are final and those after
  it pending;
- `WorkInv` and `OneSender`: a target an actor is about to begin is pending and has its
  turn, and from its begin to its write a target is in the hands of one actor. Three
  goroutines may hand over; only that `advance` moves `cur` under the lock keeps the second
  from finding the same target;
- `SendsInv`: a target is written to at most once, and not while pending;
- `SweepInv`: a sweeper that unregisters has seen every target final, which
  `RunningJobHeard` needs: what it takes out is not a job that runs.

Theorems: `MultiSendTypeCorrect`, `StartedInTurn` (`InTurn`).

**`DialProofs`** (assumes that a scene's options, hops and key files have their types and
its dials are clients; that `None` is no client and no prompt; that an alternative user
stands for no other label; that `$USER` is set and is no label; and that a link survives at
least one miss). Three invariants:

- `IInv`: `ClientInv` (a call of `Close` has done what it has passed, and nothing undoes
  it), `PlaceInv` (a dial has a client exactly when it is up, and no legs when it has
  failed), `LockInv` (who waits for a secret holds the lock, and the secret is not kept yet)
  and `KeyInv` (an entry is in known_hosts before its host is talked to, and accepted before
  it is written; each dial's snapshot is part of the file);
- `RouteInv`: index and files hold what was set last, but that a cleared chain may be lost
  (`TargetsInv`), and a dial that has begun goes along such a chain, at one of its legs,
  with no leg open beyond it (`Settled`). `EffectiveMeans` and `LegsRight` show that
  `LegsTo` finds the innermost level that sets an option, for any number of levels, as the
  largest of a finite set;
- `AskInv`: each wait has its prompt, and the prompt is of the kind the dial waits for.
  `TypeOK` needs it, since an answer becomes the shared password.

Theorems: `TypeCorrect`, `AllReleased` (`Released`), `AnswersCount` (`PromptsHonoured`),
`DialedAsSet` (`GoesAsSet`).

**`DetectXferProofs`**, of `OSDetect` (assumes that the bounds are natural numbers, with between one chunk
and the budget to decide, and that `None` is no family). `IInv` is types in four parts
(`ReadersInv`, `SessionInv`, `DetectorInv`, `TerminalInv`) and:

- `HopInv`: while no two terminals are busy at a time, the detector of one whose output is
  the hop's is in its hop phase. `HopSilent` follows only from it;
- `WatchInv`: `Watched` from before the terminal is open, since `EnsureDetector` and the
  insertion into the map are two steps;
- `HopSilent` and `PinKept`.

`PinKept` is inductive as it stands, because `undone` compares the tab that was read with the
one that is overwritten. Theorems: `TypeCorrect`, `DetectionSound` (`DetectorSound`),
`TabsStay` (`PinKept`).

**`DetectXferProofs`**, of `Xfer` (assumes that batches are sequences of names, and that
`NoUpload` is neither an upload nor a name). `XferInv` is `XferType`, `Shape` and: `OpeningInv` (what `XferOpen` has
opened at each step of each route), `HandleInv` (uploads and closing wait for the handle,
and closing takes it off the list first), `FileInv` (an upload about to close its file has
written all of it) and `OkMeansThere`. Theorems: `XferTypeCorrect`, `UploadedIsThere`
(`OkMeansThere`), `FailureLeavesNothing` (the first half of `NothingKept`), `GoneForGood`
(an action property: what the second half promises forever is never undone once it is
reached).

**`LibraryProofs`** (assumes that the scenes have their type, that `None` is no refresh, and
of the settings that what is unset is no secret and no entry). The invariants:

- `SecretsInv`: memory and file differ in secrets the user was told may be lost, in those
  whose deletion could not be saved (`undeleted`), and by a passphrase that could not be
  saved; what is sealed is sealed under its store's passphrase.
  `SecretsKept` alone does not say which passphrase the next save would write;
- `CustomsInv`: the same of variables, bars and snippets, one `Writes` at a time, and that a
  snippet and a folder of snippets have their folder. `InnermostIs` (the last scope of a chain
  that has a value, as the largest of a finite set of indices) gives `SessionsResolve`;
- `PcInv`: where each refresh is, what it has fetched, and that the record it is at exists;
- `TreeInv`: types of the tree, and what is remembered of it. All that remember one session,
  snapshots and the user's open edit, agree on its key and that it is generated, and so does
  the store if it has the session: an id is not given out twice, no step makes a session by
  hand into a generated one, and an edit puts back what it has read. A folder about to be
  pruned is a refresh's. `HandMadeKept` follows for every single step;
- `WorksInv`: what a refresh has reached that nobody disturbed, from its snapshot (each
  generated session is in it under its key, but for twins) over its records (those before
  the one it is at are placed, and each generated session is in the snapshot or of one of
  them) to the removals (no key is stale) and the pruning;
- `OneInv`: with nothing disturbed or revived and no source that gives a key twice, keys of
  generated sessions differ. It needs `WorksInv`: a record without a place in the snapshot
  has no session yet.

Theorems: `SettingsHold` (`SettingsSound`), `TypeCorrect`, `HandMadeStays`
(`HandMadeKept`), `Reconciles` (`Reconciled`).

**`StoreProofs`** (assumes that `None` is no id and no name, that no id is both of a session
and of a folder, that the name a directory or file is healed with is a name, and that each
session may be written at least once). `TypeInv` is types and, of the disk (`TreeOf`), that
every entry lies in a directory of the tree and what ids it may carry. An operation that is
under way has left index and disk apart on purpose, so the other invariants go through what
its remaining steps are *going to* make of them. `Matches(ds, fs, fo, se)` says that a disk
and an index agree: no entry is without an id, none has the id of another, and the index has
of each what is there.

- `PlanInv`: what is left to do has one of eleven forms (`Planned`). Where an operation updates
  the index by hand, the form says that disk and index match once the rest is applied to both
  (after `writeSession, remove, remember` of a rename, for one: `PutLeft3`, `PutLeft2`,
  `RenameLeft`, `RememberLeft`); where it ends with a walk, that what it is about to write is no
  other directory's id (`CreateLeft`, `MoveLeft`, `WriteLeft`), since a walk that meets
  an id twice gives up. Of an operation begun while index and disk differ it says only that
  they still do: such a one may double an id (section 4);
- `CurrentInv`: with nothing left to do, or nothing done yet, they match;
- `OneIdInv`: no id is twice on disk but between the two halves of a rename. `InStep` alone is
  not inductive: it says nothing while an operation is under way.

A reload is a walk of the tree in `Before`, and `Heal` and a walk that gives up need
that order to be strict and total, for any two paths, and its first entry to exist (`Least`, again by
the well-foundedness of finite sets). The walk that meets no doubled id builds the index that
matches the disk (`EndReloadHolds`). A folder's move is a map of paths, one to one, that takes the
directory of each entry along (`TreeMove`, `PlaceFront`).

`KeepsMap` proves the refinement. `Kept` takes, for each id, the newest of the files that
have it; two disks hold the same of an id if each file of the one has its like on the other
(`Carried`). A file written is `Store` of what is being put: the other ids are carried over, and of
the renamed session the new file is newer than the one still to be removed (`PutLeft3`, `PutLeft2`). That
a `Put` begins with a higher revision than is stored is `PutIsNewer`, from the index, which has
the newest of the files; that one session is put at a time is `OneAtATime`; and that an id
once given stays given, so that what was deleted is told from what is new, is `UsedGrows`. The removal
behind a rename is a stutter (the newer file stays, `RenameLeft`) and the one of a deletion is
`Drop`, while `Forget` is still ahead (`DeleteLeft`). Moves, new directories,
`folder.yaml`s and index steps are stutters, because they carry every file over with the id of
its folder; a healed file is `Adopt` of its fresh id. Planning an operation is `Begin`, ending one `End`.

Theorems: `TypeCorrect`, `StaysInStep` (`InStep`), `KeepsMap` (`MapKept`).

## 6. What is only model-checked

- Liveness, in all modules: `Settles` (of `ConnMgr` and of `Dial`), `CompressorFinishes`,
  `ChunksArrive`, `JobSettles`, `RefreshEnds`, and of `NothingKept` that a close reaches its
  end. The prover does not handle fairness.

## 7. Plan

`LastOutput`, over `ScrollbackLog`: `TermInput` reads length and first line in two
lock sections (`terminal.go:363-364`) and `TermLastOutput` uses the sum.

## 8. Not modelled

- Cryptography, the SSH protocol, SFTP, HTTP, the Lua interpreter and OS dialogs:
  libraries, used as calls that succeed or fail.
- Parsing and rendering (themes, filters, templates, expansion of variables, OS rules,
  import formats): functions of their input without state between calls.
- `Grep`, `TerminalPeek` and `TermLastOutput`: reads of the ring that copy or take several
  exact reads one after the other.
- `cred.Store.Lock`, which nothing in the application calls.
- Preferences and themes: small files under one lock, one step per operation, with nothing
  that refers to anything else. The snippets' bodies and what is pasted of them, `LaunchApp`
  and `OpenURL`: text and calls of the operating system.
- The audit, grep and Lua-extension packages, which are stubs.
- The frontend: in the models it is the environment, free to do anything its
  interface lets it.
- `cmd/f9`: a command-line client for tests.
