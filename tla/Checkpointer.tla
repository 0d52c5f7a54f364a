---------------------------- MODULE Checkpointer ----------------------------
(***************************************************************************)
(* The hand-off of a due checkpoint from the write path to the checkpoint  *)
(* thread: the kernel's cadence, due flag and inline backstop              *)
(* (skep-kernel kernel.rs), the write path's wake and the signal the       *)
(* thread waits on (skep-core commits.rs), the thread's loop (skepd        *)
(* listen.rs, server.rs) and the retry of an owed first head, which the    *)
(* thread takes under the write path's serial lock (commits/head.rs).      *)
(*                                                                         *)
(* Commits are not bounded: the counters the code compares for a change    *)
(* (inline_checkpoints against inline_runs_seen and inline_said) are kept  *)
(* as the difference it tests for, and lag counts the crossings of the     *)
(* cadence no checkpoint has begun since.                                  *)
(***************************************************************************)
EXTENDS Integers

CONSTANTS
    EveryN,    \* CheckpointPolicy::EveryN, in commits
    Deferred   \* CheckpointPolicy::Deferred: crossings are left to the thread

ASSUME CheckpointerConstants == EveryN \in Nat \ {0} /\ Deferred \in BOOLEAN

VARIABLES
    \* the kernel
    due,       \* checkpoint_due
    charged,   \* Cadence.commits_since_reset
    mutex,     \* who holds checkpoint_mutex
    poisoned,
    lag,       \* crossings since the newest snapshot a checkpoint took
    \* the write path, under the serial lock
    serial,    \* who holds it
    dpc,       \* where its holder stands
    inTurn,    \* whether it commits for the head writer's turn
    doorNews,  \* inline_checkpoints # inline_runs_seen
    owed,      \* HeadState.first_head_owed
    \* the signal and the thread
    pending, stopped,
    retry,     \* retry_due: "none", "armed", "expired"
    tpc,       \* where the checkpoint thread stands
    backNews   \* inline_checkpoints # inline_said

kernel == <<due, charged, mutex, poisoned, lag>>
door   == <<serial, dpc, inTurn, doorNews, owed>>
signal == <<pending, stopped, retry>>
thread == <<tpc, backNews>>
vars   == <<kernel, door, signal, thread>>

Init ==
    /\ due = FALSE /\ charged = 0 /\ mutex = "free" /\ poisoned = FALSE
    /\ lag = 0
    /\ serial = "free" /\ dpc = "idle" /\ inTurn = FALSE
    /\ doorNews = FALSE /\ owed = FALSE
    /\ pending = FALSE /\ stopped = FALSE /\ retry = "none"
    /\ tpc = "look" /\ backNews = FALSE

-----------------------------------------------------------------------------
(* The write path: commits.rs commit_under and commit_recorded over        *)
(* kernel.rs transact_attested.  The holder of the serial lock takes these *)
(* steps: a worker, or the checkpoint thread retrying an owed head.        *)

DoorEnter ==
    /\ serial = "free" /\ ~stopped
    /\ serial' = "worker" /\ dpc' = "commit" /\ inTurn' = FALSE
    /\ UNCHANGED <<kernel, doorNews, owed, signal, thread>>

\* Mutant: a crossing leaves the count where it is.
DoorCommitNoReset ==
    /\ dpc = "commit" /\ ~poisoned
    /\ charged' = charged + 1
    /\ IF charged + 1 >= EveryN THEN lag' = lag + 1 /\ dpc' = "crossed"
                               ELSE dpc' = "wake" /\ UNCHANGED lag
    /\ UNCHANGED <<due, mutex, poisoned, serial, inTurn, doorNews, owed, signal, thread>>

\* A commit charges the cadence and may cross it.
DoorCommit ==
    /\ dpc = "commit" /\ ~poisoned
    /\ IF charged + 1 >= EveryN
         THEN charged' = 0 /\ lag' = lag + 1 /\ dpc' = "crossed"
         ELSE charged' = charged + 1 /\ dpc' = "wake" /\ UNCHANGED lag
    /\ UNCHANGED <<due, mutex, poisoned, serial, inTurn, doorNews, owed, signal, thread>>

\* It is refused; a failed repair poisons the kernel.
DoorRefused ==
    /\ dpc = "commit"
    /\ dpc' = "wake"
    /\ poisoned' \in {poisoned, TRUE}
    /\ UNCHANGED <<due, charged, mutex, lag, serial, inTurn, doorNews, owed, signal, thread>>

\* Mutant: every crossing is left to the thread.
DoorCrossedNoBackstop ==
    /\ dpc = "crossed"
    /\ due' = TRUE
    /\ dpc' = "wake"
    /\ UNCHANGED <<charged, mutex, poisoned, lag, serial, inTurn, doorNews, owed, signal, thread>>

\* checkpoint_due.swap(true): the flag found set runs the backstop inline.
DoorCrossed ==
    /\ dpc = "crossed"
    /\ due' = (Deferred \/ due)
    /\ dpc' = IF ~Deferred \/ due THEN "clear" ELSE "wake"
    /\ UNCHANGED <<charged, mutex, poisoned, lag, serial, inTurn, doorNews, owed, signal, thread>>

\* checkpoint() clears the flag before it takes the mutex and its snapshot.
DoorClear ==
    /\ dpc = "clear"
    /\ due' = FALSE
    /\ dpc' = "lock"
    /\ UNCHANGED <<charged, mutex, poisoned, lag, serial, inTurn, doorNews, owed, signal, thread>>

DoorSnap ==
    /\ dpc = "lock" /\ mutex = "free"
    /\ mutex' = "door" /\ lag' = 0
    /\ dpc' = "run"
    /\ UNCHANGED <<due, charged, poisoned, serial, inTurn, doorNews, owed, signal, thread>>

\* It landed, failed and was noted, or panicked and was not.
DoorRan ==
    /\ dpc = "run"
    /\ mutex' = "free"
    /\ \/ doorNews' = TRUE /\ backNews' = TRUE
       \/ UNCHANGED <<doorNews, backNews>>
    /\ dpc' = "wake"
    /\ UNCHANGED <<due, charged, poisoned, lag, serial, inTurn, owed, signal, tpc>>

\* Mutant: wakes the thread for an inline run and not for the due flag.
DoorWakeOnNewsOnly ==
    /\ dpc = "wake"
    /\ pending' = (pending \/ doorNews)
    /\ doorNews' = FALSE
    /\ dpc' = "turn"
    /\ UNCHANGED <<kernel, serial, inTurn, owed, stopped, retry, thread>>

\* Mutant: a wake while the thread is not waiting is not kept.
DoorWakeUnkept ==
    /\ dpc = "wake"
    /\ pending' = (pending \/ (tpc = "wait" /\ (due \/ doorNews)))
    /\ doorNews' = FALSE
    /\ dpc' = "turn"
    /\ UNCHANGED <<kernel, serial, inTurn, owed, stopped, retry, thread>>

\* wake_the_checkpoint_thread_where_due
DoorWake ==
    /\ dpc = "wake"
    /\ pending' = (pending \/ due \/ doorNews)
    /\ doorNews' = FALSE
    /\ dpc' = "turn"
    /\ UNCHANGED <<kernel, serial, inTurn, owed, stopped, retry, thread>>

\* The serial lock is released; a thread that took it goes back to its loop.
Release ==
    /\ serial' = "free" /\ dpc' = "idle" /\ inTurn' = FALSE
    /\ tpc' = IF serial = "thread" THEN "look" ELSE tpc

\* The head writer's turn after a commit: no head is due, or one is and it
\* commits through the same door.
DoorTurn ==
    /\ dpc = "turn" /\ ~inTurn
    /\ \/ Release
       \/ dpc' = "commit" /\ inTurn' = TRUE /\ UNCHANGED <<serial, tpc>>
    /\ UNCHANGED <<kernel, doorNews, owed, signal, backNews>>

\* The head landed: a debt ends and its retry is disarmed.
HeadLanded ==
    /\ dpc = "turn" /\ inTurn
    /\ owed' = FALSE
    /\ retry' = IF owed THEN "none" ELSE retry
    /\ Release
    /\ UNCHANGED <<kernel, doorNews, pending, stopped, backNews>>

\* Mutant: only the refusal that begins the debt arms its retry.
HeadRefusedArmsOnce ==
    /\ dpc = "turn" /\ inTurn
    /\ owed' = TRUE
    /\ retry' = IF owed THEN retry ELSE "armed"
    /\ Release
    /\ UNCHANGED <<kernel, doorNews, pending, stopped, backNews>>

\* The head was refused: the first one, or one owed, is owed and its retry
\* armed.
HeadRefused ==
    /\ dpc = "turn" /\ inTurn
    /\ \/ owed' = TRUE /\ retry' = "armed"
       \/ ~owed /\ UNCHANGED <<owed, retry>>
    /\ Release
    /\ UNCHANGED <<kernel, doorNews, pending, stopped, backNews>>

-----------------------------------------------------------------------------
(* The checkpoint thread: listen.rs checkpoint_on_due *)

\* Services the flag while it stands, then follows the backstop and waits.
ThreadLook ==
    /\ tpc = "look"
    /\ tpc' = IF stopped THEN "wait" ELSE IF due THEN "clear" ELSE "follow"
    /\ UNCHANGED <<kernel, door, signal, backNews>>

\* checkpoint(): the flag first; a poisoned kernel takes no checkpoint.
ThreadClear ==
    /\ tpc = "clear"
    /\ due' = FALSE
    /\ tpc' = IF poisoned THEN "look" ELSE "lock"
    /\ UNCHANGED <<charged, mutex, poisoned, lag, door, signal, backNews>>

ThreadSnap ==
    /\ tpc = "lock" /\ mutex = "free"
    /\ mutex' = "thread" /\ lag' = 0
    /\ tpc' = "run"
    /\ UNCHANGED <<due, charged, poisoned, door, signal, backNews>>

\* Mutant: the flag is cleared again as the checkpoint ends.
ThreadRanClears ==
    /\ tpc = "run"
    /\ mutex' = "free" /\ due' = FALSE
    /\ backNews' \in {FALSE, backNews}
    /\ tpc' = "look"
    /\ UNCHANGED <<charged, poisoned, lag, door, signal>>

\* A landing says the inline runs beside its own line; a failure does not.
ThreadRan ==
    /\ tpc = "run"
    /\ mutex' = "free"
    /\ backNews' \in {FALSE, backNews}
    /\ tpc' = "look"
    /\ UNCHANGED <<due, charged, poisoned, lag, door, signal>>

\* follow_the_backstop; the stop is looked at again before it.
ThreadFollow ==
    /\ tpc = "follow"
    /\ backNews' = (stopped /\ backNews)
    /\ tpc' = "wait"
    /\ UNCHANGED <<kernel, door, signal>>

\* CheckpointSignal::wait: the stop outranks a raise, a raise the retry.
WaitStop ==
    /\ tpc = "wait" /\ stopped
    /\ tpc' = "ended"
    /\ UNCHANGED <<kernel, door, signal, backNews>>

WaitDue ==
    /\ tpc = "wait" /\ ~stopped /\ pending
    /\ pending' = FALSE
    /\ tpc' = "look"
    /\ UNCHANGED <<kernel, door, stopped, retry, backNews>>

WaitRetry ==
    /\ tpc = "wait" /\ ~stopped /\ ~pending /\ retry = "expired"
    /\ retry' = "none"
    /\ tpc' = "retry"
    /\ UNCHANGED <<kernel, door, pending, stopped, backNews>>

WaitTick ==
    /\ tpc = "wait" /\ ~stopped /\ ~pending /\ retry # "expired"
    /\ tpc' = "look"
    /\ UNCHANGED <<kernel, door, signal, backNews>>

\* retry_the_owed_head: the turn is taken where the head is still owed.
ThreadRetry ==
    /\ tpc = "retry" /\ serial = "free"
    /\ IF owed
         THEN /\ serial' = "thread" /\ dpc' = "commit" /\ inTurn' = TRUE
              /\ tpc' = "turn"
         ELSE tpc' = "look" /\ UNCHANGED <<serial, dpc, inTurn>>
    /\ UNCHANGED <<kernel, doorNews, owed, signal, backNews>>

\* A panic ends the thread, its guard of the mutex released by the unwind.
ThreadPanic ==
    /\ tpc \in {"run", "follow"}
    /\ tpc' = "ended"
    /\ mutex' = IF tpc = "run" THEN "free" ELSE mutex
    /\ UNCHANGED <<due, charged, poisoned, lag, door, signal, backNews>>

-----------------------------------------------------------------------------
(* The clock and the shutdown *)

RetryExpires ==
    /\ retry = "armed"
    /\ retry' = "expired"
    /\ UNCHANGED <<kernel, door, pending, stopped, thread>>

\* The workers are joined before the thread is stopped.
Stop ==
    /\ ~stopped /\ serial # "worker"
    /\ stopped' = TRUE
    /\ UNCHANGED <<kernel, door, pending, retry, thread>>

\* The process has shut down.
Exited ==
    /\ stopped /\ tpc = "ended" /\ serial = "free"
    /\ UNCHANGED vars

-----------------------------------------------------------------------------

DoorStep ==
    \/ DoorCommit \/ DoorRefused \/ DoorCrossed \/ DoorClear \/ DoorSnap
    \/ DoorRan \/ DoorWake \/ DoorTurn \/ HeadLanded \/ HeadRefused

ThreadStep ==
    \/ ThreadLook \/ ThreadClear \/ ThreadSnap \/ ThreadRan \/ ThreadFollow
    \/ WaitStop \/ WaitDue \/ WaitRetry \/ ThreadRetry

Next ==
    \/ DoorEnter \/ DoorStep \/ ThreadStep
    \/ WaitTick \/ ThreadPanic \/ RetryExpires \/ Stop
    \/ Exited

\* A thread that can run does.  No client need ever write again, no tick need
\* come to the rescue, and nothing need ever stop.
Fairness ==
    /\ WF_vars(DoorStep) /\ WF_vars(ThreadStep) /\ WF_vars(RetryExpires)
    /\ SF_vars(ThreadRetry)

Spec == Init /\ [][Next]_vars
FairSpec == Spec /\ Fairness

-----------------------------------------------------------------------------
(* Properties *)

\* Every variable has its type.
TypeOK ==
    /\ due \in BOOLEAN /\ charged \in 0 .. EveryN - 1 /\ lag \in Nat /\ poisoned \in BOOLEAN
    /\ mutex \in {"free", "door", "thread"}
    /\ serial \in {"free", "worker", "thread"}
    /\ dpc \in {"idle", "commit", "crossed", "clear", "lock", "run", "wake", "turn"}
    /\ inTurn \in BOOLEAN /\ doorNews \in BOOLEAN /\ owed \in BOOLEAN
    /\ pending \in BOOLEAN /\ stopped \in BOOLEAN
    /\ retry \in {"none", "armed", "expired"}
    /\ tpc \in {"look", "clear", "lock", "run", "follow", "wait", "retry",
                "turn", "ended"}
    /\ backNews \in BOOLEAN

\* A crossing no checkpoint has begun since is never forgotten: the flag
\* stands, or someone is about to set it or to take the snapshot.
NoLostCrossing ==
    lag > 0 /\ ~poisoned =>
        due \/ tpc = "lock" \/ dpc \in {"crossed", "clear", "lock"}

\* A thread asleep in its wait beside a set flag has a wake kept for it, or
\* the write path is on its way to raise one.
NoLostWake ==
    due /\ tpc = "wait" /\ ~stopped => pending \/ dpc \in {"clear", "wake"}

\* The backstop bounds the window whatever the thread does, also once it is
\* gone: with no commit under way, at most one crossing waits, and one more
\* while a checkpoint is between its flag and its snapshot.
BackstopBoundsLag ==
    dpc \in {"idle", "commit"} => lag <= IF tpc = "lock" THEN 2 ELSE 1

\* A first head that is owed has a retry coming, as long as there is a thread.
DebtIsRetried ==
    owed => \/ retry # "none" \/ tpc \in {"retry", "turn", "ended"} \/ stopped

\* Every crossing is followed by a checkpoint begun after it, while the thread
\* runs and the kernel is not poisoned, with no further write and no tick.
EveryCrossingServiced ==
    lag > 0 ~> lag = 0 \/ stopped \/ poisoned \/ tpc = "ended"
=============================================================================
