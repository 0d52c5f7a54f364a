# skep: a verification project

TLA+ models of skep, a hypertext board daemon written in Rust, with the TLC
configurations that check them and TLAPS proofs about them. This document is
the inventory of the system, the plan of the project, what each module models
and how, what each run and each theorem shows, and what is left out.

## 1. The system

A board is one process (`skepd`) over one data directory. Requests come in over
HTTP; reads answer from an immutable snapshot; writes pass one serial lock and
become one transaction of a journaled kernel. Beside the journal stand the
media stores: files named by their hash, uploads on their way to being one, and
the leases that keep a finished deposit until a document names it; and the
change feed, a log of what was committed with four files derived from it. On
the other side of the wire a shell (`skep-shell`) takes a page's writes, and
holds in a file of its own what a board did not answer for.

### Components that carry the hard behaviour

| component | source | state | operations | hard because |
|---|---|---|---|---|
| kernel, commit path | `skep-kernel/src/kernel.rs`, `journal.rs`, `journal/writer.rs` | the root (position, world, chain head), the sequencer, the writer's segment and length, the poison flag | `transact`: mint, encode, rotate, append, barrier, install; roll back, repair, poison | every step can fail or be the last before a crash; positions are handed out before they are durable |
| kernel, checkpoints | `checkpoint.rs`, `journal/segment.rs`, `kernel.rs` | checkpoint files, held bases, skipped bases, segments | write (temporary, rename, directory sync), retain, reclaim | runs beside commits, a list of file operations any of which may fail or be cut by a crash; what it deletes, recovery may need |
| kernel, recovery | `replay.rs`, `journal/scan.rs`, `kernel.rs` | what stands on disk | select a base, scan, fold, refuse, cut the tail, set the order floor | must tell a crash's torn tail from damage, and neither lose an acknowledged write nor keep a healthy board down |
| kernel, history | `kernel/history.rs` | none of its own | `world_at`, `attestation_at`, `boundaries_above` | several file reads, no lock, beside retention and reclamation |
| checkpoint hand-off | `skep-core/src/commits.rs`, `commits/head.rs`, `skepd/src/server.rs`, `server/listen.rs` | cadence, due flag, `CheckpointSignal`, the owed head | a crossing sets the flag and raises; the thread looks, runs, waits; the backstop runs inline; a refused head is retried | two flags, two locks and a condition variable between two threads |
| uploads | `skep-blobs/src/*.rs`, `skepd/src/server/blob_routes.rs`, `skep-util/src/file.rs` | partials, upload records and their log, holds | create, claim, resume, append, grain, settle, finish, end, expire, compact, reconcile | a resumable protocol over crashes, failed syncs and a log that may stop |
| leases, media index, pruner | `skep-blobs/src/lease.rs`, `skep-media/src/{gate,door,index,pruner}.rs`, `skepd/src/server/op.rs` | files, leases and their log, the cell index | grant, bind at the door, commit, record, walk at open, unlink, compact | a deletion decided from two in-memory structures while deposits and writes go on |
| change feed | `skep-core/src/commits/{feed,sidecar}.rs`, `feed/derived.rs` | `commits.log`, the index, the mask, the streams; the resident window and its twins; what pends | open, record, walk, sort, land, page | files that lag, stop or are lost apart from each other; a walk behind the listener that lands over what was recorded since |
| shell, held store | `skep-shell/src/held.rs`, `hold.rs` | the queue, the copies it owes, the board's file and the pending file | hold, mark, re-mark, rewrite, done, compact, join, renumber, reopen | an append-only file under a device that refuses, over a close at any point |
| shell, sends | `skep-shell/src/hold.rs`, `hold/resend.rs` | held lines, acked positions, the pass's stops | dial in the call, hold, drain, read for a landing, shift, resolve | lost answers, late landings, other hands, and two threads that dial |

### How they interact

A write takes the serial lock and the credential lock's read arm, asks the
media door whether each cell it places is bound to a deposit (a live lease or a
cell already in the index), commits through the kernel, and enters its cells
into the index before the guard drops. The commit charges the cadence; a
crossing sets the kernel's due flag, or runs the checkpoint inline if the flag
still stands, and the write path wakes the checkpoint thread. A finish of an
upload runs under the credential lock's read arm as well; the pruner takes the
write arm for one file at a time, re-reads index and leases under it and
unlinks. An open recovers the kernel, reconciles partials with their records,
reads the lease log and starts the index walk. A commit is recorded in the feed
under the same guard; what an open finds the feed's files lack is re-covered by
a walk over the kernel's history (`world_at`), behind the listener.

A page hands the shell a burst typed against a state it read. The call dials it
if no line is held before it, and holds it as a line if it is not acked. A board
takes an edit only against the document's last state, so a held line is first
read for (it may have landed), then sent, then shifted by the units on either
side of it if the board has moved. The line is on disk before the call answers,
and marked sent on disk before it is dialed again.

### The other components

The stores the kernel journals (`skep-namespace`, `-content`, `-arrangement`,
`-links`, `-identity`), their composition (`skep-engine`), the operation surface
(`skep-febe`) and the read-only queries (`-retrieval`, `-discovery`,
`-coordination`) are sequential code run under the applier lock or over one
snapshot: pure algorithms rather than protocols. The media quotas (`gate.rs`),
the permit pool (`skep-util/src/permits.rs`) and the sign-up flow
(`skep-provision/src/flow.rs`) do have state shared by several actors.
Cryptography (`skep-signature`), transports and front ends (`skep-http`, `-mcp`,
`-cli`, `skepd/src/main.rs`), `-search`, `-registry`, `-resolve`, `-client` and
the test harnesses complete the workspace. `PROJECT.json` lists every one with
its status and the reason.

### What makes each part correct

* kernel: what a reader saw survives every crash; what was answered as failed
  never comes back; no position means two transactions; the recovered world has
  no hole; every base on disk folds at every moment; an open refuses only
  damage.
* history: an answer is the committed history exactly, and no read reports a
  corruption that is not there.
* hand-off: no crossing and no wake-up is lost; the unsnapshotted window is
  bounded; an owed head is retried; every crossing is serviced.
* uploads: bytes counted as received are never lost; a file is the bytes its
  name hashes; a lease never precedes its bytes.
* media: no placed cell loses its file; no granted lease loses its deposit.
* feed: a page is the journal's positions with the reader's predicate applied,
  or it is refused; no derived file claims a position it lacks.
* held store: a write told to be on disk is on disk until it is settled, in its
  place, under its own name; a line dialed is known to be dialed.
* sends: a write told kept landed, stands once, where it was typed, after the
  ones typed before it; and every held write comes to an end.

The hazards behind these, each at its line, are in `PROJECT.json`.

## 2. Modules

| module | models | extends |
|---|---|---|
| `Kernel` | commit path, checkpoints, retention, reclamation, crash, decay, recovery | - |
| `History` | the three historical reads beside all of `Kernel` | `Kernel` |
| `Checkpointer` | cadence, due flag, signal, thread, owed head | - |
| `Uploads` | upload records, partials, streams, finish, expiry | - |
| `Media` | files, leases, door, index, pruner | - |
| `DurableLog` | what the kernel promises: a log that only grows, and a view of it | - |
| `Feed` | `commits.log`, the derived files, the window, the walk, the landing, pages | - |
| `HeldStore` | the shell's queue and its two files | - |
| `HeldWrites` | the shell's sends, the board they go to and the page they come from | - |
| `CheckpointerProofs`, `MediaProofs`, `UploadsProofs`, `HeldStoreProofs`, `HeldWritesProofs`, `FeedProofs` | theorems | the module named |
| `Extremes` | lemmas on the greatest, the least and the rank of a member of a bounded set | - |
| `KernelProofs` | the kernel's theorems, its refinement of `DurableLog`, and the theorems of the historical reads | `Kernel`, `History` |

The `.cfg` files instantiate the modules directly: their constants are
numbers, Booleans and sets of model values, so no module of instances is
needed.

### Kernel

A transaction is a record of its first and last position, its segment, and the
chain link it carries and follows. A link is a number no other attempt has: the
salted hash of all before it. A world is the free fold, the set of transactions
applied. `log` is what the barrier made durable, `tail` the append not
barriered yet (a crash keeps it whole or cuts it), `segs` and `cps` the
directory, `leaves` the directories a crash may leave (directory changes persist
in the order they were made, any prefix of them since the last directory sync),
`decayed` the frames that no longer read.

| code | actions |
|---|---|
| `transact_attested`, `Sequencer` | `TxnMint`, `TxnRefuse`, `TxnInstall` |
| `JournalWriter::commit_txn` and below | `TxnRotate`, `TxnRotateFail`, `TxnAppend`, `TxnBarrier`, `TxnBarrierFail`, `TxnRepair`, `TxnPoison` |
| `checkpoint`, `checkpoint::write`, `retain`, `reclaim_below` | `CkptStart`, `CkptRename`, `CkptSync`, `CkptUnlink`, `CkptRetained`, `CkptReclaim`, `CkptDone`, `CkptFail` |
| `open`, `recover`, `assemble` | `OpenRefused`, `Open` over `SelectBase`, `Halts`, `DamagedTail`, `CutSegment`, `RestoredHighWater`, `Recover` |
| the environment | `Crash`, `DecayBase`, `DecayTxn` |

Ghosts, read by no action: `seen` (what a commit installed or an open recovered,
so what a reader may have seen, a superset of what was acknowledged), `failed` (answered as failed, positions rolled back), `cut`
(lost to an accepted cut).

`KeepsPromise` says that `Kernel` implements `DurableLog`, by `INSTANCE
DurableLog WITH`: `durable` is what passed a barrier and stands (`log`),
`visible` the root's world, `failed` the ghost of that name. A crash is a
`Stop`, a recovery an `Open`, and a checkpoint, a retention or a reclamation no
step at all. It is stated for runs without decay, and there it gives
`SeenSurvives` and `FailedStaysFailed` of the worlds readers load.

### History

One reader. `HistStart` reads the installed head, `HistList` the segments,
`HistHeld` and `HistHeader` the held base and the header that must still stand,
`HistDirectory` and `HistRelist` list again, `HistTry` and `HistGenesis` select
a base from the files, `HistScan` reads one segment at a time, `HistAnswer`
judges. Every `Kernel` action may come between any two of them. A file that only
grows reads as it stands when the read reaches its end; the exception is a read
in the middle of the file that has gone into an append (`HistInto`, `stub`)
which then fails and is truncated under it. `HistCut` goes on from there: a read
that finds intact frames appended since refuses them as a corruption, which
`history.rs:146` documents, and one that finds the file's end takes what it read
for a torn tail, or for the whole append.

### Checkpointer

The door (a write under the serial lock) and the checkpoint thread, by the
places they stand at (`dpc`, `tpc`), with the kernel's `due` flag, the
checkpoint mutex, the serial lock, the signal's `pending`, `stopped` and `retry`
and the head writer's `owed`. `lag` is a ghost: crossings since the last
checkpoint that took its snapshot.

### Uploads

A byte is the request that sent it, so that two streams in one partial show; a
hash is the sequence hashed. `bytes` and `synced` are each file as read and as
of its last sync; `logs` what a crash may leave of `uploads.log`. Each request
walks create / claim / resume / stream / finish, the pruner walks expiry, and
any call may fail.

### Media

A cell is a principal and a hash. `lines` is what a crash may leave of
`leases.log`, `dirs` what it may leave of the directory. `thread` is what each
request is doing, always under the read arm; the pruner's step is enabled only
when no request is inside, which is the write arm. Ghosts: `placed`, `granted`,
and `suspect`, the hashes named by a lease line a failed cut back left, by a
transaction in doubt or by a committed cell the index does not hold. `NoHole`
and `GrantKept` are stated apart from `suspect`; the three ways into it are
in section 6 under `NamedFilesKept`, `LeaseNamesBytes` and `NoCellWithoutFile`.

### Feed

Positions are all commit boundaries; a position's documents are a subset of
{"open", "draft"}, of which a guest reads the first. `logLine` is `commits.log`
(a position's line in full, bare, or none), `logFences` the positions its
`min_since` lines name (a rewrite keeps the older ones, so a cut below the last
puts an earlier one in force), `file` the three classified files
with their fences, `inner` the memory (`Inner` and `CommitsLog`: what pends, the
window's edge, the entries, the twins, the unsorted set, what has stopped),
`walk` the thread. `Record` is a commit and its record, which the write guard
makes one; `CommitThenCrash` the commit whose record the process did not live to
make. The walk is a step per read of the journal (`WalkList`, `SortNext`,
`WalkStart`, `WalkNext`), and `Land` the landing under the lock, which
`LandKilled` cuts between two rewrites. A restart finds any file cut (`Cuts`). A
page is read under the lock, so it is a state function, `Page`. `refused` is a
ghost: the positions last landed with no classification, which the code
documents as served to every class.

### HeldStore

A file is kept as what its reader makes of it (`open_file`'s fold). `left` is
what it would make of a refused copy whose cut back was refused as well. A crash
that meets an append is that refusal followed by `Relaunch`; an append of several
lines leaves any prefix of them (`Torn`), a renumbering's dones and helds
included. `cut` is a ghost: the writes such a prefix names done with no line
after it (`DoneAlone`).

| code | actions |
|---|---|
| `HeldQueue::hold`, `remark`, `remark_raised`, `rewrite`, `done`, `compact` | `Hold`, `Remark`, `Rewrite`, `Done` |
| `HeldQueue::retry` under `Holds::probe`, `retry_unsettled` | `Probe`, `CutUnsettled` |
| `principal_hold`, `establish`, `rejoin`, `join_principal`, `join`, `renumber` | `PrincipalHold`, `Establish`, `Rejoin` |

### HeldWrites

One document, one page. `thread` is where the call and the drain each are,
`walk` the drain's turn, `net` the requests given up that may still arrive.
`burst` and `fate` are each write as typed and what became of it. The board is
modelled from what `skep-arrangement`'s check says (`arrangement_moved`); its
edit, the other hands and the page are the environment. The held file is
`HeldStore`'s: here a change is copied at once, or the device refuses it. The
person may act at any moment, a walk under way included (`ResolveSend` takes the
board's lock alone). `passed` is a ghost: the writes of the lines a walk had
stopped at, and is past, when the person sent them back to it. That walk leaves
them behind (section 6, `NeverPassed`), so `InOrder` excepts them, and the other
three, which count on rows in the order of their lines, say nothing once there
is one.

`Residue` is what a read for a landing cannot attribute: a row of a write the
shell gave up (dropped, faced, or lost with a close) that landed all the same,
or the two rows of an insert another hand took out and that landed again. While
there is none, a write told kept landed (`KeptIsLanded`; `Mistaken` is the
writes told kept on such a row). Behind a line settled on another write's row the
page's text is wrong, so `NothingTwice` and `LandsWhereTyped` say nothing of a
write's landing where such a row of *another* write stands (`OthersResidue`); its
own late row excuses nothing. A proviso on the fates instead (no write told kept
without a row) does not do: the mistake outlives what the fates tell of it
(section 6). A
write the person dropped and the file gave back after a close (`"again"`) stays
given up whatever is told of it after.

## 3. Runs

| run | checks | instance |
|---|---|---|
| `crash` | `TypeOK`, `PositionsUnique`, and `KeepsPromise` (the refinement of `DurableLog`) | 3 transactions of up to 2 records, 2 crashes, a rotation each, 1 base |
| `decay` | `SeenSurvives`, `NoHole`, `ClaimsHonoured`, `EveryBaseFolds`, `RefusesOnlyDecay` | 2 decays of base, record or marker, an accepted cut, 2 bases, 2 crashes |
| `reads` | `HistoryTypeOK`, `HistoryExact`, `NoFalseCorruption` | the three historical reads, 3 transactions, burned positions, 2 bases, reclamation, appends truncated under a read |
| `handoff` | `TypeOK`, `NoLostCrossing`, `NoLostWake`, `BackstopBoundsLag`, `DebtIsRetried`, and `EveryCrossingServiced` (liveness) | cadence of 2, unbounded commits, under `FairSpec`; deadlock checked |
| `uploads` | `TypeOK`, `ReceivedKept`, `ContentAddressed`, `LeaseHasBytes` | 2 uploads of 2 chunks, 2 requests and the pruner, 1 fault, 1 crash, 1 record past its expiry at a time |
| `holes` | `MediaTypeOK`, `NoHole`, `GrantKept` | 2 principals, 1 hash, 2 requests, 1 fault, 1 crash, the clock past a lease and its horizon |
| `feed` | `TypeOK`, `PagesExact`, `ClaimsHeld`, `LogWhole` | 3 positions, a window of 1, 2 restarts with a file cut at each, 1 failure of a write or a read, or 1 reclamation |
| `store` | `TypeOK`, `FileAgrees`, `SentOnDisk`, `NoneLost`, `NoneAhead`, `OrdinalNames` | 2 writes, 1 refused copy, both files; 2 closes, or 1 and a change past the re-mark budget |
| `held` | `TypeOK`, `KeptIsLanded`, and `NothingTwice`, `LandsWhereTyped`, `InOrder` (action properties) | 2 writes; three in all of 1 edit of another hand, 2 faults, 1 act of the person, at any moment |
| `settles` | `Settles` (liveness) | the same with 1 fault, under `FairSpec` |
| `twostreams`, `unmasked` | one property each, violated: section 6 | the smallest instance that shows it |

Why the bounds are enough to mean something. In the kernel three transactions
give a base, something above it and something in flight; a rotation at each
transaction puts every boundary between segments in play; a second crash
reaches what the first recovery left behind (a recovery over a recovery is
where floors and cuts are lost). `Ceiling` is small enough to be reached, so the
order's end is exercised. In the uploads a length and a grain of two separate
received, written and finished bytes. In
the media model two principals share one hash, which is the interesting
case (one's lapse must not take the other's file), and the clock runs past the
lease and the horizon. In the feed a window of one position puts each of three on
either side of its edge; a second restart is over what the first one's walk,
stop or kill left. In the store the re-mark budget is none, so the first change
meets it, and the frame as shifted is one the writer refuses for its length; a
renumbering is a relaunch's, so a second close is what finds one cut short. Two
writes are what order and a landing mistaken for another's take; two faults are
an answer lost and its request arriving late, or a copy refused before a close.
With the acts of the person between the drain's passes, the properties of `held`
were also found to hold of two bursts under three faults and an act, and of three
deletes under four faults and two acts (each searched once to the end; too long
to keep as a run).
`MaxEvents` bounds these together (three in `held` and `settles`; two in `store`,
where it is the changes and closes; in `feed` one,
so a failure and a reclamation never share a behaviour there), `MaxExpired` the
records that are past their expiry at one time, since each is expired alone.
The bounds on attempts, faults, decays and crashes are
in the guards and named `Max...`; the hand-off needs none.

The daemon opens its kernel with `BurnedSeqPolicy::Rollback`; the kernel crate
offers `TolerateGap` as well. `crash` and `decay` run under the first, where
positions are handed out again; `reads` under the second, where the fold crosses
gaps.

Deadlock checking is off where a bound ends the behaviour or a refused open
does (an operator has to act), on in `Checkpointer`, which never stops except by
shutting down (`Exited`).

Every property of a passing run has a mutant in `PROJECT.json`: an operator
beside the definition it replaces, changing it as a plausible bug would, under
which TLC finds the property violated.

### Fairness

`FairSpec` assumes that a door past its entry and the checkpoint thread keep
running (`WF` of `DoorStep`, `ThreadStep`), that an armed deadline passes (`WF`
of `RetryExpires`), and strong fairness of `ThreadRetry`, the thread's attempt
at the serial lock: it is a `parking_lot` mutex (`skep-core/src/serial.rs`),
whose eventual fairness hands the lock to a waiter from time to time, so that
writers cannot starve it. Nothing is
assumed of clients (`DoorEnter`), of the periodic tick (`WaitTick`), of the stop
or of a panic: `EveryCrossingServiced` holds with no further write and no tick
to the rescue.

`HeldWrites` assumes `WF` of `CallStep` and of `DrainStep`: a call that dialed
goes on to its answer, and the board's feed thread, which probes at every tick,
goes on with its pass. Both dials are bounded by a timeout in the code, so
`BoardAnswers` is part of each; a dial that fails instead is a fault, of which
there are finitely many. Nothing is assumed of the page, of other hands, of a
late request, of the person or of a relaunch. `Settles` lets a write wait for the
person, as the code does.

## 4. Proofs

All are for every value of the constants admitted by the modules' named
assumptions (`KernelConstants`, `ReadsAssumption`, `CheckpointerConstants`,
`UploadConstants`, `MediaConstants`, `StoreAssumption`, `HoldAssumption`,
`FeedAssumption`), which give them their types and keep the model values apart.
Each component has one inductive invariant, TLC checked it on the instances of
section 3 first, and a theorem is a consequence of it.

* `KernelProofs`, the kernel: first `TypeCorrect`, `Spec => []TypeOK`. One lemma per group of
  actions; the facts about `SelectBase`, `CutSegment`, retention and the order
  floor that typing needs are lemmas of their own. `TypeOK` is inductive. Then
  `KernelInv`, and from it `SeenIsKept`, `NeverAHole`,
  `FailedIsFailed`, `BasesFold`, `RefusesDecayOnly`, `PositionsAreUnique` and
  `PromiseKept`. None of the properties is inductive: each speaks of what is
  served now, and a crash replaces that by what some directory of the past
  recovers to. So the invariant speaks of every directory a crash may leave
  (`Stands`): its segments are in order, a fold from any of its bases, or from
  genesis where it has none, finds all it needs (`Reaches`), and a base misses
  nothing readable at or below its position (`Covers`). `OneHistory` says that a
  link names one transaction and that the log is one chain until something
  decays. The rest is what each place of the code has established: `Serving`,
  `Founded` and `Tailed` of a kernel that is up, `Idling`, `Writing`, `Minted`,
  `Barriered` and `Rotating` of the transaction under the applier lock,
  `Snapshot`, `Retaining` and `Reclaiming` of the checkpoint beside it. The
  lemmas go in this order: extremes of bounded sets of numbers, histories,
  segments, directories, what an open finds, one lemma per action, the
  refinement step by step. `PositionsAreUnique` and `PromiseKept` are for
  behaviours whose log does not decay: with a decay and an accepted cut the
  first is false (section 6). The others have no such hypothesis.
* `KernelProofs`, the reads: `HistoryInv`, and from it `ReadsTyped`, `ReadsExact` and
  `NoFalseAlarm`, the last two while nothing in the log decays (`HistoryExact`
  is about a log that reads). `NoFalseAlarm` has the exception the code documents
  and no other: a read that reports a corruption was in an append that is no
  longer in its file. A read holds no lock, so the invariant says how
  its listing may be stale: the writer is past every listed segment (`Behind`),
  what stands and is not listed was committed after the question (`Fresh`,
  `Newer`), a listing that reaches genesis lacks nothing of the history asked
  for (`FromGenesis`); the base in hand and those held between reads are whole
  (`Sound`, `Holding`); and what the scan took so far is the history up to where
  it stands (`Scanning`). A checkpoint may reclaim a segment the read has listed:
  `HistScan` then finds it gone, which is why `Scanning` says of each
  transaction that it was taken, is listed, or came after. Of a read in the middle
  of an append, `Stubbed` says that it is in the last file it has to read and
  that all it was asked for lies before the append (`Earlier`), taken already or
  in that file: so a read that ends at the cut, with the whole of the append or
  without, has missed nothing.
* `UploadsProofs`: `UploadsTyped` for every client; and, for clients that act on
  an upload only once its creation has claimed it (`~EagerResume`), `UploadsInv`
  and from it `FilesAddressed`, `LeasedBytesHeld` and `ReceivedStays`. The run
  `twostreams` is the counterexample without that hypothesis. The core is
  `Hands`: a hold has one hand (`Grips`, `Owned`), and a creation that has no
  hold is alone with its upload or finds no record it may stand on
  (`Creations`). Then a file under a stream is the bytes the stream hashed and
  has no name (`Streaming`), no named file is a partial in any directory a crash
  may leave (`Apart`), a finish past its rename has its name in this directory,
  past its sync in all (`Finishing`), and every log line, partial and synced file
  a crash may leave holds what was counted (`Kept`, `Recorded`). `ThreadStep`,
  `LogStep`, `DirStep`, `FileStep` and `HistoryStep` say what a step of a thread
  may change; the parts of the invariant follow from those five.
* `CheckpointerProofs`: one inductive invariant `IInv` for the five safety
  properties. `NoLostCrossing` and `DebtIsRetried` are part of it as they stand.
  `NoLostWake` is not inductive: a thread that looked before the flag was set is
  not waiting yet, so `WakeKept` says the same from the look on.
  `BackstopBoundsLag` needs `LagBound`, which accounts the crossings to the flag
  and to a thread between its clear and its snapshot, at every place of the
  door. `Locks` says which actor holds which lock by where it stands. Theorems
  `HandoffTyped`, `CrossingKept`, `WakeNeverLost`, `WindowBounded`,
  `DebtNeverForgotten`.
* `MediaProofs`: `MediaInv` for `NoHole` and `GrantKept`. The strengthenings:
  `LeasesStand` (a live lease in memory has its file in every directory a crash
  may leave), `LinesAgree` (the same of every lease a crash may read back),
  `Indexed` and `Known` (a committed cell is in the index, in the snapshot the
  walk still reads, or with a request about to record it), `Admitted` (a cell
  past the door keeps its file until it is recorded, because the pruner is out
  while the request is in), `GrantAgrees` (what was granted is no longer than
  what memory and disk hold). Theorems `MediaTyped`, `PlacedFilesStand`,
  `GrantedLeasesHold`. These hold for any number of principals, hashes,
  requests, faults and crashes; TLC checks one instance of each.
* `HeldStoreProofs`: `IInv`, and from it `StoreTyped`, `NeverPart`,
  `NeverAhead`, `NamesHold`, `NeverLost` and `SentStands`. A run decides by the
  queue and a relaunch by the files, so the invariant relates the two at every
  step. `Agree` says what the file lacks and may have besides: the lines that
  wait, the lines whose done is owed, and, for every line no copy of which is
  owed or was refused, that the reader raises it to the queue's base by reading
  the dones owed; that is exact, where `FileAgrees` has a bound, because a later
  done raises by what the earlier ones left. `Marked` accounts the re-marks in
  the file and those owed it to the changes made. The rest is about what a
  refused copy left past the whole lines, which a cut back may remove, a later
  append completes, and a relaunch reads as the file: which file may have such a
  tail (`TailsWhere`); that the queue's holds no line without those before it
  (`TailsInOrder`); that the board's, while the queue is kept in the pending
  file, will be cut by a renumbering or is in order past the counter
  (`TailsReady`, needed for the join); and that a tail keeps the file's unsettled
  writes, those in `cut` apart (`TailsKeep`). Part of a renumbering's copy may name
  a line done without the line that was to follow: those writes, and none
  else, are in `cut`, which only that step makes grow, so `NeverLost` has no
  hypothesis and loses what is in `cut` alone (`CloseLosesNone`, section 6).
  `SentStands` is under `LongStays`: a
  frame past the line bound stays past it when it is shifted on. `StaleSent` is
  its part of the invariant. Without the hypothesis TLC has a counterexample
  (`Versions = {0, 1, 2}`, `Long = {1}`, three changes): the copy that would have
  marked the line is refused for its length, and a shorter frame that follows is refused by the
  budget. The hypothesis leaves out a line within a few digits of
  `MAX_HELD_LINE_BYTES` that one shift takes past it and a later one takes back
  (section 6). The lemmas go: the reader, one copy, the tails a copy leaves, the
  budget, compaction and renumbering, then one lemma per action and part.
* `FeedProofs`: `IInv`, and from it `FeedTyped` and `LogNeverHoled`, whatever
  `SortFails`, `BareInSort` and the bounds. `LogWhole` is about every cut a
  restart may find, and what keeps the log whole is in memory while the log takes
  no append: so the invariant says, of a region that pends, that the log ends at
  its lower edge and that every position recorded since the open is resident
  (`Region`, which is why the window is not moved past those); of the walk, that
  each boundary it is past is proved or behind its fence (`Walked`); and of a log
  that takes appends, that it lacks nothing above its fences (`Full`, which a
  stopped log is excused from). `Fenced` then is `LogWhole` for all cuts at once:
  a fence that hides a hole comes before the next line, so no cut keeps the line
  and loses the fence. `Twins` is the part behind the last conjunct of `TypeOK`:
  the twins and the unsorted set divide the resident entries among them at every
  step, a landing over what was recorded since included. The open, the landing
  and the log's rewrite (`OpenKeeps`, `LandKeeps`, `LogLanded`) are where it is
  re-established.
* `HeldWritesProofs`: `HoldTyped`; `HoldInv` (theorem `HoldInvariant`), and from
  it `KeptAreLanded` and `LandsInOrder`, whenever the person acts.
  Neither property is inductive: a read takes the first row past its line's base
  for the line's landing, so what counts is that no row of a write typed before
  lies past the base. `Based` says so of the queue and of its file: such a row is
  at or below the base, or its write is still a line before this one, whose
  settling raises the bases behind it. A relaunch gives back the queue as the
  file has it, with bases not raised yet; `Copies` says that the file then still
  holds every write that is out before those, so each is settled, and raises,
  again. `Positioned` is the same of the page's last acked position, which a new
  line takes for its base, and `CallBased` and `ReadBased` of the base in a
  thread's hands. `RowsAscend` orders the rows, so the row a read finds past the
  base is not of a later write. These are excused once a row of `Residue` stands or a
  write was passed (`Clean`), as `KeptIsLanded` is. The order of sends needs no such excuse: `Hands` gives each
  thread the turn of what it dials, the line its ordinal names and the row it was
  answered with; `InNet` gives requests under way theirs; `AtHead` says the walk
  is past no standing line but those in `passed`; `Alone` that a call dials past
  none. A turn is judged by the fates with the writes passed set apart (`Owed`),
  so that what a walk leaves behind holds no other write up and the order of the
  rest is still proved.
  The lemmas go: types, one per action; what no step takes back (`Onward`); then
  the order, the turns, the walk and the rows, one lemma per action each.

Only model-checked: `ClaimsHonoured` (a claim is judged by a sum over the
damaged run, `CouldHold`, whose value for every input is an induction over data;
under `TolerateGap` it is false, section 6); `Feed`'s `PagesExact` and
`ClaimsHeld`, which hold of the instance of `feed` and are not theorems: beside
the two cases its constants leave out (run `unmasked`), a third
restart can break both (section 6,
`feed.rs:779`); and of `HeldWrites` `NothingTwice` and `LandsWhereTyped`, which
follow a unit's place in the document through shifts of any length. Beside the
instance of `held` these two were checked in full, with the acts of the person
between the drain's passes, from the states where the first
burst was dropped and has landed late, the ones that refute weaker provisos: two
inserts with 5 faults and 3 acts, three deletes with 5 and 2, two of either kind
with 4 and 2.
Out of the prover's reach and left to TLC: `EveryCrossingServiced`
and `Settles` (liveness under fairness, and `ENABLED`), and what a recursive
definition computes for every input (induction over data).

## 5. Assumptions and abstractions

* File system: a file's data is durable after its sync; directory changes
  persist in the order they were made; a failed sync may have written
  anything. A crash leaves an un-barriered append whole or cuts it: a torn
  frame fails its checksum, which is a cut.
* `Open` is one step: it holds the directory's lock and serves nothing until it
  is done; a crash inside it is a crash before its cut or after it. A historical
  read takes a segment in one step, as it stands when the read reaches its end,
  except where the file is cut under it (`HistCut`). One historical read at a time (readers
  share no state).
* Attestations are reduced to which marker a read answers, checksums and
  signatures to the chain's links. Collisions are out.
* The hand-off takes one worker at the door (the serial lock admits one), leaves
  out a panic of the checkpoint thread while it holds the serial lock in a
  retry's turn, and sees poison as a Boolean.
* Uploads: one principal; the hash is injective; a grain's sync and its mark are
  one step under the hold; the removal of an orphan partial is not failed;
  quotas and permits are left out. `EagerResume` says whether a client may act
  on an upload before its creation has claimed it; `uploads` sets it to
  `FALSE`, and `twostreams` shows what `TRUE` does.
* Media: the size is the hash's; asides (renamed files awaiting their unlink)
  have no name a reader asks for and are left out; the clock does not run
  backwards; a publish's re-inserted values take the same path as an insert's;
  damage to the lease log and the halt marks of a restored board are left out;
  a cell is never deleted.
* Feed: the offsets file (no page is served by it), the attest store, times and
  terms, narrowed pages (`under=`, drafts), grants, the byte budget of a page,
  lines past the head and the purge of another journal's lines are left out. A
  cut at the fence keeps the fence. `SortFails` (the index's append fails in the
  sort) and `BareInSort` (a write panics past its commit there) admit the two cases
  of the run `unmasked`, which break `ClaimsHeld` and with it
  `PagesExact`; `feed` sets both to `FALSE`. A file
  that stopped excuses the positions below the window it lacks (`Excused`);
  `OneAnswer` is the property without the excuse.
* HeldStore: one principal and one board; a line's text is its write and which
  frame of it.
* HeldWrites: one document and one caller at a time: `SendBurst` takes a call's
  look at the document and its dial in one step, and a second call waits for the
  first to end. The code lets sibling sessions and other connections dial beside
  each other (`hold.rs:2844`), and there it promises no order: a line entered
  between another call's look and its dial is out of this model, and `InOrder` is
  said of one caller's writes. Edits are an insert or a
  delete of one unit; no attests, no pages of changes, no bound on a turn's
  steps, no halted or stopped board, no history reclaimed under the read, a
  session's death only as a failed dial.

## 6. Where the code and what is said of it differ

Two are runs that TLC refutes, with the lines quoted in `PROJECT.json`:

1. `twostreams` (`blob_routes.rs:419`): a creation streams although its claim
   was refused, beside the resume that holds it. It takes a client that resumes
   an upload it saw listed before its creation answered (`EagerResume`).
2. `unmasked`: while the walk sorts the positions the index lost, a position's
   documents are in the twins alone, a window's worth of writes (2048,
   `limits.rs:250`) evicts it, and the landing's rewrite fences the index past it.
   Its row is open to every reader from then on (`PagesExact` fails too). There
   are two ways in. With `SortFails` the index's append fails in the sort and the
   landing's rewrite, which a stopped file takes, claims the position
   (`feed.rs:2591`; `derived.rs:622` "nothing is lost"). With `BareInSort` a write
   panics past its commit and is recorded bare (`feed.rs:2969`). Either constant
   alone is enough; with both TLC stops at the first.

The others are reached by the same models. Each property is defined beside the
rest; the instance is the cfg named with the constants given, and no run keeps
it.

| property | where | what happens, and what is said | instance |
|---|---|---|---|
| `RetentionKeepsLoadable` (`Kernel`, an action property) | `kernel.rs:2212` | a checkpoint renamed over a skipped name whose directory sync fails leaves the name on the skipped list, and the next retention removes a base that loads; `kernel.rs:2145` "A base this call writes over a skipped name is a base again and is counted" | `Kernel_crash.cfg`, `Ceiling = 5`, `MaxRecords = 1`, `MaxTxns = 4`, `RetainCheckpoints = 2`, `Decays = {"base"}`, `MaxDecays = 1` |
| `PositionsUnique` | `kernel.rs:1324` | the order floor of an accepted cut does not outlive the process: a restart before the next commit hands out an acknowledged position again; `skep-kernel/README.md:54` "no acknowledged position is handed out twice" | `Kernel_crash.cfg`, `MaxRecords = 1`, `SegmentTxns = 2`, `Decays = {"record"}`, `MaxDecays = 1`, `AcceptsCut = TRUE` |
| `ClaimsHonoured` under `TolerateGap` | `journal/scan.rs:684` | a genuine claim past burned positions is taken for one the tail could not hold; `skep-kernel/src/config.rs:252` | as above with `Ceiling = 12`, `MaxRecords = 2`, `MaxTxns = 4`, `MaxCrashes = 1`, `RollsBack = FALSE` |
| `NamedFilesKept` (`Media`, an action property) | `commits.rs:1261` | a write that panics past its commit is recorded in the feed and not in the index, and its file goes when the lease lapses | `Media_holes.cfg`, `Principals = {p1}`, `MaxCrashes = 0` |
| `LeaseNamesBytes` (`Media`) | `jsonl.rs:436` | a lease line whose append and cut back both failed names a file the pruner has taken; `skep-blobs/src/lib.rs:34` | as above with `LeaseInterval = 2`, `MaxCrashes = 1`, `Unwinds = FALSE` |
| `NoCellWithoutFile` (`Media`) | `pruner.rs:607` | a poisoned kernel leaves a cell in doubt, its lease lapses, the pruner takes the file, the restart recovers the cell; `pruner.rs:35` | as above with `LeaseInterval = 1` |
| `CountedBytesSent` (`Uploads`) | `jsonl.rs:436` | a record line whose append and cut back both failed counts after a restart; `uploads.rs:444` says a byte counts only once partial and offset are on disk | `Uploads_twostreams.cfg`, `EagerResume = FALSE`, `MaxFaults = 1`, `MaxCrashes = 1` |
| `ClaimsHeld`, and with it `PagesExact` | `feed.rs:779` | the index file is lost while a position recorded bare lies below a fence of `commits.log`, so it is derived again above the fence alone and covers the position without its record; a later restart finds the log cut below that fence, reads the unclassified positions off the index's coverage before it cuts the index back (`feed.rs:804`), and closes the index past the position as one that touches no document: a draft's row is open to every reader; `feed.rs:675` "a bare position the index no longer classifies is the walk's, recorded as pending, never classified here" | `Feed_feed.cfg`, `DocSets = {{"draft"}}`, `Fallible = {"journal"}`, `MaxOpens = 3`, `MaxReclaims = 0` |
| `OneAnswer` (`Feed`) | `derived.rs:560` | the index stopped, a bare position below the window is served with no documents; `feed.rs:47` "no page's bytes depend on which side of the window its positions lie" | `Feed_feed.cfg`, `Fallible = {"index"}` |
| `OneAnswer` (`Feed`) | `sidecar.rs:1504` | `commits.log` stopped, a position the window leaves is on no page until a restart | `Feed_feed.cfg`, `Fallible = {"log"}` |
| `NothingDoubled` (`HeldStore`) | `hold.rs:2452` | a crash between a join's copy and the pending file's removal, then a launch that opens the pending file as its own: the lines are compared by ordinal with a renumbered file and enter beside their copies; `held.rs:172` "nothing is doubled" | `HeldStore_store.cfg`, `MaxWrites = 1`, `MaxChanges = 0` |
| `CloseLosesNone` (`HeldStore`) | `held.rs:2174` | a renumbering writes its done lines before its held ones in one append; a close that finds a prefix of it loses the lines named done; `held.rs:149` "so a close loses none". `NoneLost` is the same with those writes set apart | `HeldStore_store.cfg` |
| `LandsWhereTyped` without `~OthersResidue(b)`, and `NothingTwice` | `hold.rs:2868` | a delete is dropped and its request lands late; the next, typed against that row, is dialed and its answer lost; its base is the last acked position (`base_of`, `hold.rs:1615`), which is below the row it was typed over, so the read takes that row for its landing and the line is kept without having landed; the burst typed behind it then lands beside what was to be gone. `resend.rs:757` "so THE FIRST ROW that is the head's landing is its landing"; `hold.rs:1650` names another process's rows and an earlier run's acks alone | `HeldWrites_held.cfg`, `Units = 3`, `MaxBursts = 3`, `MaxOther = 0`, `MaxFaults = 3`, `MaxEvents = 4`; `NothingTwice`: `Ops = {"delete"}`, `Units = 2`, `MaxBursts = 3`, `MaxFaults = 5`, `MaxActs = 2`, `MaxEvents = 7`, from the states where the first burst was dropped and has landed |
| `LandsWhereTyped` with `Mistaken = {}` for `~OthersResidue(b)` | `hold.rs:2868` | the same misreading where no fate shows it: an insert is dropped and lands late; a line that the person dropped, and that the file gives back after a close, is settled on that row, and the one behind it lands away from where it was typed; or a line is kept on that row, given back by a copy the device had refused to change, and dropped | `Ops = {"insert"}`, `Units = 1`, `MaxBursts = 3`, `MaxOther = 0`, `MaxFaults = 6`, `MaxActs = 3`, `MaxEvents = 8`, from the states where the first burst was dropped and has landed |
| `NeverPassed` (`HeldWrites`, an action property) | `hold.rs:3446` | the walk has stopped at a document's first line, the person sends the document back, and the walk, which goes on from where it is, sends a later line first; `hold.rs:3445` "A pass under way walks the document again at its next turn". `InOrder` is the same with the lines passed set apart | `HeldWrites_held.cfg` |
| `KeptIsLanded` without `passed # {}` | `hold.rs:3446` | the same order, and a relaunch before the later line's answer: the head passed over is read for next, its base is below the later line's row, and it is told kept on that row without having landed; `resend.rs:757` as above | `HeldWrites_held.cfg` |
| `LandsWhereTyped` without `passed = {}` | `hold.rs:3446` | the same order: the later line lands away from the one it was typed beside | `HeldWrites_held.cfg` |
| `NothingTwice` without `passed = {}` | `hold.rs:3446` | the head of two deletes is kept on the later one's row, and the later one is shifted and lands again | `HeldWrites_held.cfg`, `Ops = {"delete"}`, `Units = 2` |

Met while modelling, with no property of their own: a walk's fence from a floor
past the head it opened at drops positions recorded in memory since, although
the feed's card says the record of events is never dropped; a re-mark that rides
an owed sent mark makes the file's count exceed the writer's; a join behind a
refused copy of this run's lines renumbers again at each probe; a landing may
also be credited to a held line from a row of the same hand that an earlier
run's request made, which is one residue more than `hold.rs:1650` names; a line
shifted past the line bound, marked sent there and shifted back under it with the
re-mark budget spent is unmarked on disk (`SentOnDisk`, `held.rs:1842`).

## 7. Not modelled

* The frame reader of `journal/scan.rs` (resynchronisation inside a damaged
  segment, keep-aside files): `Kernel` takes its outcome. It is the next thing
  worth a module.
* The head's signed transactions, the attest store, quotas and admission, halt
  marks, asides, permits, notices. Each is a counter or a file under one lock;
  the two races among them (`gate.rs:1112`, and an aside's unlink) are plain from
  the code.
* `skep-arrangement`, `-links`, `-content`, `-namespace`, `-address`,
  `-identity`, `-engine`, `-febe`, `-coordination`: sequential folds under the
  applier lock. Their state is data of unbounded structure (run lists, tumblers,
  span sets), and their laws are inductions over it.
* `-retrieval`, `-discovery`, `-search`, `-registry`, `-resolve`: read-only, over
  one snapshot. `-client`, `-provision`: ceremonies whose steps are I/O.
* `-signature`: cryptography. `skepd`'s routing, `-http`, `-mcp`, `-cli`: I/O.

## 8. Plan

Done: the inventory; `Kernel` and its abstract `DurableLog`, `History`,
`Checkpointer`, `Uploads`, `Media`, `Feed`, `HeldStore`, `HeldWrites`; the proofs
of section 4.

Next, in this order:

1. Proofs: `HeldWrites`' `NothingTwice` and `LandsWhereTyped`; a form of `Feed`'s `ClaimsHeld` that
   states what the index must not have lost (section 6, `feed.rs:779`).
2. `Scan`, against the set-level definitions `Kernel` uses.
3. Tumbler arithmetic and span sets as operators against reference definitions.
