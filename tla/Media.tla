------------------------------- MODULE Media -------------------------------
(***************************************************************************)
(* The media stores of a running board: the files, the lease log and the   *)
(* cell index, between the finish of a deposit, the write door that admits *)
(* a cell naming one, and the pruner that takes what nothing refers to     *)
(* (skep-blobs' store, skep-media's gate, index, door and pruner, skepd's  *)
(* op and blob routes).                                                    *)
(*                                                                         *)
(* The three meet in the credential lock: a finish and a write hold its    *)
(* read arm, the pruner its write arm for one file at a time.  A hash      *)
(* stands for a whole file of the size its cell names; a cell is a         *)
(* principal and a hash, and is never deleted; the kernel is the set of    *)
(* cells it has committed (module Kernel).  Asides have no name a reader   *)
(* asks for, and are left out.  The clock does not run backwards.          *)
(***************************************************************************)
EXTENDS Integers, FiniteSets, Functions

CONSTANTS
    Principals, Hashes,
    Requests,       \* request threads
    LeaseInterval,  \* MediaGate::lease_interval, in ticks of the clock
    Horizon,        \* how long a lapsed lease is remembered
    Unwinds,        \* whether a write may panic past its commit
    MaxNow,         \* bound: ticks in one behaviour
    MaxFaults,      \* bound: failed system calls in one behaviour
    MaxCrashes      \* bound: crashes in one behaviour

ASSUME MediaConstants ==
    /\ LeaseInterval \in Nat /\ Horizon \in Nat /\ Unwinds \in BOOLEAN
    /\ MaxNow \in Nat /\ MaxFaults \in Nat /\ MaxCrashes \in Nat

VARIABLES
    files,      \* the hashes a file stands at
    dirs,       \* the directories a crash may leave: each since the last sync
    leases,     \* LeaseLog.leases: cell -> expiry
    lines,      \* what a crash may leave of leases.log, folded
    stopped,    \* Log::stopped of leases.log
    cells,      \* the cells of the committed world
    indoubt,    \* cells of a poisoned transaction, journaled or not
    poisoned,
    index,      \* CellIndex.entries
    walk,       \* "walking", "ready" or "failed"
    snapshot,   \* the world the walk reads
    thread,     \* what each request is doing, always under the read arm
    mode, now,
    \* history, read by no action
    placed,     \* cells whose write was answered as committed
    granted,    \* cell -> the expiry a finish answered
    suspect,    \* hashes named by a lease line a failed cut left, by a
                \* transaction in doubt or by one the index does not hold
    faults, crashes

store  == <<files, dirs, leases, lines, stopped>>
kernel == <<cells, indoubt, poisoned>>
ready  == <<index, walk, snapshot>>
hist   == <<placed, granted, suspect>>
budget == <<faults, crashes>>
vars   == <<store, kernel, ready, thread, mode, now, hist, budget>>

Cells == Principals \X Hashes
Expiries == 0 .. MaxNow + LeaseInterval
Leases == UNION {[S -> Expiries] : S \in SUBSET Cells}
NoLeases == [c \in {} |-> 0]
Idle == [pc |-> "idle"]
Busy == [pc : {"queued", "install", "dirsync", "lease", "door", "commit", "record"},
         cell : Cells, began : 0 .. MaxNow]

HashOf(c) == c[2]
At(pcs) == {t \in Requests : thread[t].pc \in pcs}
Finishing == At({"install", "dirsync", "lease"})
Writing == At({"door", "commit", "record"})

Go(t, pc) == thread' = [thread EXCEPT ![t].pc = pc]
Reply(t) == thread' = [thread EXCEPT ![t] = Idle]
Ok == UNCHANGED faults
Fault == faults < MaxFaults /\ faults' = faults + 1

\* Mutant: the interval is counted twice.
ExpiryTwice(from) == from + 2 * LeaseInterval

Expiry(from) == from + LeaseInterval

Live(c) == c \in DOMAIN leases /\ now < leases[c]
Leased(c, until) == [d \in DOMAIN leases \cup {c} |-> IF d = c THEN until ELSE leases[d]]

-----------------------------------------------------------------------------
(* The deposit's finish: blob_finish, Stream::finish *)

\* The route refuses a deposit until the index is ready.  The clock is read
\* before the finish waits its turn.
FinishStart(t, c) ==
    /\ mode = "up" /\ thread[t] = Idle /\ walk = "ready"
    /\ thread' = [thread EXCEPT ![t] = [pc |-> "queued", cell |-> c, began |-> now]]
    /\ UNCHANGED <<store, kernel, ready, mode, now, hist, budget>>

\* One finish at a time, and none over a lease log that has stopped.
FinishEnter(t) ==
    /\ thread[t].pc = "queued" /\ Finishing = {}
    /\ IF stopped THEN Reply(t) ELSE Go(t, "install")
    /\ UNCHANGED <<store, kernel, ready, mode, now, hist, budget>>

FinishInstall(t) ==
    /\ thread[t].pc = "install"
    /\ \/ /\ Ok /\ files' = files \cup {HashOf(thread[t].cell)}
          /\ dirs' = dirs \cup {files'} /\ Go(t, "dirsync")
       \/ Fault /\ UNCHANGED <<files, dirs>> /\ Reply(t)
    /\ UNCHANGED <<leases, lines, stopped, kernel, ready, mode, now, hist, crashes>>

FinishDirSync(t) ==
    /\ thread[t].pc = "dirsync"
    /\ \/ Ok /\ dirs' = {files} /\ Go(t, "lease")
       \/ Fault /\ UNCHANGED dirs /\ Reply(t)
    /\ UNCHANGED <<files, leases, lines, stopped, kernel, ready, mode, now, hist, crashes>>

\* The lease appended and synced; or the append failed and was cut back; or
\* the cut failed too, the log stopped with the line perhaps in it.
FinishLease(t) ==
    LET c == thread[t].cell
        lease == Leased(c, Expiry(thread[t].began))
    IN  /\ thread[t].pc = "lease" /\ Reply(t)
        /\ \/ /\ Ok /\ ~stopped /\ leases' = lease /\ lines' = {lease}
              /\ granted' = [d \in DOMAIN granted \cup {c} |->
                                IF d = c THEN lease[c] ELSE granted[d]]
              /\ UNCHANGED <<stopped, suspect>>
           \/ /\ Fault /\ ~stopped /\ lines' = {leases}
              /\ UNCHANGED <<leases, granted, stopped, suspect>>
           \/ /\ Fault /\ ~stopped /\ lines' = lines \cup {lease} /\ stopped' = TRUE
              /\ suspect' = suspect \cup {HashOf(c)} /\ UNCHANGED <<leases, granted>>
           \/ Ok /\ stopped /\ UNCHANGED <<leases, lines, granted, stopped, suspect>>
        /\ UNCHANGED <<files, dirs, kernel, ready, mode, now, placed, crashes>>

-----------------------------------------------------------------------------
(* The write: op.rs, media_door, MediaGate::binding, Commits::commit_under *)

InsertStart(t, c) ==
    /\ mode = "up" /\ thread[t] = Idle /\ Writing = {}
    /\ thread' = [thread EXCEPT ![t] = [pc |-> "door", cell |-> c, began |-> now]]
    /\ UNCHANGED <<store, kernel, ready, mode, now, hist, budget>>

\* A cell of the principal's own already names the hash, or a live lease of
\* its own holds it; and the file is there.
Binding(c) ==
    /\ HashOf(c) \in files
    /\ (walk = "ready" /\ c \in index) \/ Live(c)

InsertDoor(t) ==
    /\ thread[t].pc = "door"
    /\ IF Binding(thread[t].cell) THEN Go(t, "commit") ELSE Reply(t)
    /\ UNCHANGED <<store, kernel, ready, mode, now, hist, budget>>

\* Committed; refused with nothing journaled; or the repair of a failed
\* append failed, the transaction left to the next open; or committed and a
\* panic after the install unwound past the record step.
InsertCommit(t) ==
    LET c == thread[t].cell IN
    /\ thread[t].pc = "commit"
    /\ \/ /\ Ok /\ ~poisoned /\ cells' = cells \cup {c} /\ placed' = placed \cup {c}
          /\ Go(t, "record") /\ UNCHANGED <<indoubt, poisoned, suspect>>
       \/ /\ Fault /\ ~poisoned /\ indoubt' = {c} /\ poisoned' = TRUE
          /\ suspect' = suspect \cup {HashOf(c)}
          /\ Reply(t) /\ UNCHANGED <<cells, placed>>
       \/ /\ Unwinds /\ Fault /\ ~poisoned /\ cells' = cells \cup {c}
          /\ suspect' = suspect \cup {HashOf(c)}
          /\ Reply(t) /\ UNCHANGED <<indoubt, poisoned, placed>>
       \/ Ok /\ Reply(t) /\ UNCHANGED <<kernel, placed, suspect>>
    /\ UNCHANGED <<store, ready, mode, now, granted, crashes>>

\* Mutant: the write is answered and its cell never enters the index.
InsertRecordMissed(t) ==
    /\ thread[t].pc = "record" /\ Reply(t)
    /\ UNCHANGED <<store, kernel, ready, mode, now, hist, budget>>

InsertRecord(t) ==
    /\ thread[t].pc = "record" /\ Reply(t)
    /\ index' = index \cup {thread[t].cell}
    /\ UNCHANGED <<store, kernel, walk, snapshot, mode, now, hist, budget>>

-----------------------------------------------------------------------------
(* The index's walk, and the pruner's pass *)

WalkEnds ==
    /\ mode = "up" /\ walk = "walking"
    /\ \/ walk' = "ready" /\ index' = index \cup snapshot
       \/ walk' = "failed" /\ index' \in {index \cup S : S \in SUBSET snapshot}
    /\ UNCHANGED <<store, kernel, snapshot, thread, mode, now, hist, budget>>

Referenced(h) == \E c \in Cells : HashOf(c) = h /\ (c \in index \/ Live(c))

\* Mutant: the file is judged and renamed while requests hold the read arm.
PruneFileUnarmed(h) ==
    /\ mode = "up" /\ walk = "ready" /\ h \in files /\ ~Referenced(h)
    /\ files' = files \ {h} /\ dirs' = dirs \cup {files'}
    /\ UNCHANGED <<leases, lines, stopped, kernel, ready, thread, mode, now, hist, budget>>

\* One file under the write arm: the index and the leases re-read, the file
\* renamed aside.  Nothing is synced; a pass that fails or keeps the file
\* changes nothing.
PruneFile(h) ==
    /\ mode = "up" /\ walk = "ready" /\ \A t \in Requests : thread[t] = Idle
    /\ h \in files /\ ~Referenced(h)
    /\ files' = files \ {h} /\ dirs' = dirs \cup {files'}
    /\ UNCHANGED <<leases, lines, stopped, kernel, ready, thread, mode, now, hist, budget>>

\* The leases past the horizon are dropped.  The log is rewritten where it
\* has stopped or passed its trigger; past its rename a failure stops it.
Remembered == Restrict(leases, {c \in DOMAIN leases : now < leases[c] + Horizon})
CompactLeases ==
    /\ mode = "up" /\ walk = "ready" /\ leases' = Remembered
    /\ \/ Ok /\ lines' = {leases'} /\ stopped' = FALSE
       \/ Ok /\ ~stopped /\ UNCHANGED <<lines, stopped>>
       \/ Fault /\ UNCHANGED <<lines, stopped>>
       \/ Fault /\ lines' \in {lines \cup {leases'}, {leases'}} /\ stopped' = TRUE
    /\ UNCHANGED <<files, dirs, kernel, ready, thread, mode, now, hist, crashes>>

Tick ==
    /\ now < MaxNow /\ now' = now + 1
    /\ UNCHANGED <<store, kernel, ready, thread, mode, hist, budget>>

-----------------------------------------------------------------------------
(* Crash and restart: Store::open, Daemon::open *)

Crash ==
    /\ mode = "up" /\ crashes < MaxCrashes /\ crashes' = crashes + 1
    /\ mode' = "down"
    /\ files' \in dirs /\ dirs' = {files'}
    /\ leases' \in lines /\ lines' = {leases'} /\ stopped' = FALSE
    /\ cells' \in {cells, cells \cup indoubt} /\ indoubt' = {} /\ poisoned' = FALSE
    /\ index' = {} /\ walk' = "walking" /\ snapshot' = {}
    /\ thread' = [t \in Requests |-> Idle]
    /\ UNCHANGED <<now, hist, faults>>

Open ==
    /\ mode = "down" /\ mode' = "up"
    /\ leases' = Remembered /\ lines' = {leases'}
    /\ snapshot' = cells
    /\ UNCHANGED <<files, dirs, stopped, kernel, index, walk, thread, now, hist, budget>>

Init ==
    /\ files = {} /\ dirs = {files} /\ leases = NoLeases /\ lines = {leases}
    /\ stopped = FALSE /\ cells = {} /\ indoubt = {} /\ poisoned = FALSE
    /\ index = {} /\ walk = "walking" /\ snapshot = {}
    /\ thread = [t \in Requests |-> Idle] /\ mode = "up" /\ now = 0
    /\ placed = {} /\ granted = NoLeases /\ suspect = {} /\ faults = 0 /\ crashes = 0

Deposit(t) ==
    \/ \E c \in Cells : FinishStart(t, c)
    \/ FinishEnter(t) \/ FinishInstall(t) \/ FinishDirSync(t) \/ FinishLease(t)

Insert(t) ==
    \/ \E c \in Cells : InsertStart(t, c)
    \/ InsertDoor(t) \/ InsertCommit(t) \/ InsertRecord(t)

Next ==
    \/ \E t \in Requests : Deposit(t) \/ Insert(t)
    \/ \E h \in Hashes : PruneFile(h)
    \/ WalkEnds \/ CompactLeases \/ Tick \/ Crash \/ Open

Spec == Init /\ [][Next]_vars

-----------------------------------------------------------------------------
(* What must hold *)

\* Every variable has its type.
MediaTypeOK ==
    /\ files \subseteq Hashes /\ dirs \subseteq SUBSET Hashes /\ files \in dirs
    /\ leases \in Leases /\ \A l \in lines : l \in Leases
    /\ stopped \in BOOLEAN /\ poisoned \in BOOLEAN /\ mode \in {"up", "down"}
    /\ cells \subseteq Cells /\ indoubt \subseteq Cells /\ index \subseteq Cells
    /\ snapshot \subseteq Cells /\ walk \in {"walking", "ready", "failed"}
    /\ thread \in [Requests -> Busy \cup {Idle}] /\ now \in 0 .. MaxNow
    /\ placed \subseteq Cells /\ granted \in Leases /\ suspect \subseteq Hashes

\* No housekeeping act creates a hole: the file of a cell whose write was
\* answered stands at its name, and a crash at any moment leaves it there.
\* (A hash in suspect is apart: see the three properties below.)
NoHole == \A c \in placed, d \in dirs : HashOf(c) \in d \cup suspect

\* While a granted lease runs its file stands and the lease is on disk, so
\* neither the pruner nor a restart takes a deposit its principal may place.
GrantKept ==
    \A c \in DOMAIN granted :
        now < granted[c] /\ HashOf(c) \notin suspect =>
            /\ \A d \in dirs : HashOf(c) \in d
            /\ \A l \in lines : c \in DOMAIN l /\ granted[c] <= l[c]

\* What skep-blobs says of a crash: a lease never names bytes the restart
\* does not hold.
LeaseNamesBytes == mode = "up" => \A c \in Cells : Live(c) => HashOf(c) \in files

\* The pruner keeps every file a cell names, answered or not.
NamedFilesKept ==
    [][mode = "up" /\ mode' = "up" =>
          \A c \in cells : HashOf(c) \in files => HashOf(c) \in files']_vars

\* No cell of the committed world, answered or recovered, is without a file.
NoCellWithoutFile == \A c \in cells : HashOf(c) \in files
=============================================================================
