------------------------- MODULE CheckpointerProofs -------------------------
(***************************************************************************)
(* The hand-off of a due checkpoint loses no crossing, no wake-up and no   *)
(* owed head, and the backstop bounds the window, for every cadence.       *)
(***************************************************************************)
EXTENDS Checkpointer, TLAPS

\* The flags of TypeOK, apart: first-order reasoning without arithmetic.
Flags ==
    /\ due \in BOOLEAN /\ poisoned \in BOOLEAN /\ inTurn \in BOOLEAN
    /\ doorNews \in BOOLEAN /\ owed \in BOOLEAN /\ pending \in BOOLEAN
    /\ stopped \in BOOLEAN /\ backNews \in BOOLEAN

\* Its counters and the places the actors stand at.
Places ==
    /\ charged \in 0 .. EveryN - 1 /\ lag \in Nat
    /\ mutex \in {"free", "door", "thread"}
    /\ serial \in {"free", "worker", "thread"}
    /\ dpc \in {"idle", "commit", "crossed", "clear", "lock", "run", "wake", "turn"}
    /\ retry \in {"none", "armed", "expired"}
    /\ tpc \in {"look", "clear", "lock", "run", "follow", "wait", "retry",
                "turn", "ended"}

LEMMA TypeParts == TypeOK <=> Flags /\ Places
  BY Zenon DEF TypeOK, Flags, Places

\* Who holds which lock, by where it stands.
Locks ==
    /\ dpc = "idle" <=> serial = "free"
    /\ serial = "thread" <=> tpc = "turn"
    /\ serial = "thread" => inTurn
    /\ mutex = "door" <=> dpc = "run"
    /\ mutex = "thread" <=> tpc = "run"

\* NoLostWake, from the moment the thread has looked at the flag.
WakeKept ==
    due /\ tpc \in {"follow", "wait"} /\ ~stopped => pending \/ dpc \in {"clear", "wake"}

\* The crossings a set flag and a thread past its clear account for.
Accounted == (IF due THEN 1 ELSE 0) + (IF tpc = "lock" THEN 1 ELSE 0)

LagBound ==
    /\ poisoned => lag <= 1 + (IF tpc = "lock" THEN 1 ELSE 0)
    /\ ~poisoned =>
          lag <= CASE dpc = "crossed" -> Accounted + 1
                   [] dpc \in {"clear", "lock"} -> 2 + (IF tpc = "lock" THEN 1 ELSE 0)
                   [] OTHER -> Accounted

IInv ==
    /\ TypeOK
    /\ Locks
    /\ NoLostCrossing
    /\ WakeKept
    /\ LagBound
    /\ DebtIsRetried

LEMMA InitIInv == Init => IInv
  <1> SUFFICES ASSUME Init PROVE IInv
    OBVIOUS
  <1> USE CheckpointerConstants DEF Init
  <1>1. TypeOK
    <2>1. Flags
      BY Zenon DEF Flags
    <2>2. Places
      BY DEF Places
    <2> QED
      BY <2>1, <2>2, TypeParts
  <1>2. Locks /\ NoLostCrossing /\ WakeKept /\ DebtIsRetried
    BY DEF Locks, NoLostCrossing, WakeKept, DebtIsRetried
  <1>3. LagBound
    BY DEF LagBound, Accounted
  <1> QED
    BY <1>1, <1>2, <1>3 DEF IInv

LEMMA DoorIInv == IInv /\ (DoorEnter \/ DoorStep) => IInv'
  <1> SUFFICES ASSUME IInv, DoorEnter \/ DoorStep PROVE IInv'
    OBVIOUS
  <1> USE CheckpointerConstants DEF kernel, door, signal, thread, IInv
  <1>1. CASE DoorEnter
    <2> USE <1>1 DEF DoorEnter
    <2>1. TypeOK'
      <3>1. Flags'
        BY TypeParts, Zenon DEF Flags
      <3>2. Places'
        BY TypeParts DEF Places
      <3> QED
        BY <3>1, <3>2, Zenon DEF TypeOK, Flags, Places
    <2>2. Locks'
      BY DEF TypeOK, Locks
    <2>3. NoLostCrossing' /\ WakeKept'
      BY DEF TypeOK, Locks, NoLostCrossing, WakeKept
    <2>4. LagBound'
      BY DEF TypeOK, Locks, LagBound, Accounted
    <2>5. DebtIsRetried'
      BY DEF TypeOK, Locks, DebtIsRetried
    <2> QED
      BY <2>1, <2>2, <2>3, <2>4, <2>5
  <1>2. CASE DoorCommit
    <2> USE <1>2 DEF DoorCommit
    <2>1. TypeOK'
      <3>1. Flags'
        BY TypeParts, Zenon DEF Flags
      <3>2. Places'
        BY TypeParts DEF Places
      <3> QED
        BY <3>1, <3>2, Zenon DEF TypeOK, Flags, Places
    <2>2. Locks'
      BY DEF TypeOK, Locks
    <2>3. NoLostCrossing' /\ WakeKept'
      BY DEF TypeOK, Locks, NoLostCrossing, WakeKept
    <2>4. LagBound'
      BY DEF TypeOK, Locks, LagBound, Accounted
    <2>5. DebtIsRetried'
      BY DEF TypeOK, Locks, DebtIsRetried
    <2> QED
      BY <2>1, <2>2, <2>3, <2>4, <2>5
  <1>3. CASE DoorRefused
    <2> USE <1>3 DEF DoorRefused
    <2>1. TypeOK'
      <3>1. Flags'
        BY TypeParts, Zenon DEF Flags
      <3>2. Places'
        BY TypeParts DEF Places
      <3> QED
        BY <3>1, <3>2, Zenon DEF TypeOK, Flags, Places
    <2>2. Locks'
      BY DEF TypeOK, Locks
    <2>3. NoLostCrossing' /\ WakeKept'
      BY DEF TypeOK, Locks, NoLostCrossing, WakeKept
    <2>4. LagBound'
      <3>1. CASE poisoned' = poisoned
        BY <3>1 DEF TypeOK, LagBound, Accounted
      <3>2. CASE poisoned' = TRUE
        BY <3>2 DEF TypeOK, LagBound, Accounted
      <3> QED
        BY <3>1, <3>2
    <2>5. DebtIsRetried'
      BY DEF TypeOK, Locks, DebtIsRetried
    <2> QED
      BY <2>1, <2>2, <2>3, <2>4, <2>5
  <1>4. CASE DoorCrossed
    <2> USE <1>4 DEF DoorCrossed
    <2>1. TypeOK'
      <3>1. Flags'
        BY TypeParts, Zenon DEF Flags
      <3>2. Places'
        BY TypeParts DEF Places
      <3> QED
        BY <3>1, <3>2, Zenon DEF TypeOK, Flags, Places
    <2>2. Locks'
      BY DEF TypeOK, Locks
    <2>3. NoLostCrossing' /\ WakeKept'
      BY DEF TypeOK, Locks, NoLostCrossing, WakeKept
    <2>4. LagBound'
      BY DEF TypeOK, Locks, LagBound, Accounted
    <2>5. DebtIsRetried'
      BY DEF TypeOK, Locks, DebtIsRetried
    <2> QED
      BY <2>1, <2>2, <2>3, <2>4, <2>5
  <1>5. CASE DoorClear
    <2> USE <1>5 DEF DoorClear
    <2>1. TypeOK'
      <3>1. Flags'
        BY TypeParts, Zenon DEF Flags
      <3>2. Places'
        BY TypeParts DEF Places
      <3> QED
        BY <3>1, <3>2, Zenon DEF TypeOK, Flags, Places
    <2>2. Locks'
      BY DEF TypeOK, Locks
    <2>3. NoLostCrossing' /\ WakeKept'
      BY DEF TypeOK, Locks, NoLostCrossing, WakeKept
    <2>4. LagBound'
      BY DEF TypeOK, Locks, LagBound, Accounted
    <2>5. DebtIsRetried'
      BY DEF TypeOK, Locks, DebtIsRetried
    <2> QED
      BY <2>1, <2>2, <2>3, <2>4, <2>5
  <1>6. CASE DoorSnap
    <2> USE <1>6 DEF DoorSnap
    <2>1. TypeOK'
      <3>1. Flags'
        BY TypeParts, Zenon DEF Flags
      <3>2. Places'
        BY TypeParts DEF Places
      <3> QED
        BY <3>1, <3>2, Zenon DEF TypeOK, Flags, Places
    <2>2. Locks'
      BY DEF TypeOK, Locks
    <2>3. NoLostCrossing' /\ WakeKept'
      BY DEF TypeOK, Locks, NoLostCrossing, WakeKept
    <2>4. LagBound'
      BY DEF TypeOK, Locks, LagBound, Accounted
    <2>5. DebtIsRetried'
      BY DEF TypeOK, Locks, DebtIsRetried
    <2> QED
      BY <2>1, <2>2, <2>3, <2>4, <2>5
  <1>7. CASE DoorRan
    <2> USE <1>7 DEF DoorRan
    <2>1. TypeOK'
      <3>1. Flags'
        BY TypeParts, Zenon DEF Flags
      <3>2. Places'
        BY TypeParts DEF Places
      <3> QED
        BY <3>1, <3>2, Zenon DEF TypeOK, Flags, Places
    <2>2. Locks'
      BY DEF TypeOK, Locks
    <2>3. NoLostCrossing' /\ WakeKept'
      BY DEF TypeOK, Locks, NoLostCrossing, WakeKept
    <2>4. LagBound'
      BY DEF TypeOK, Locks, LagBound, Accounted
    <2>5. DebtIsRetried'
      BY DEF TypeOK, Locks, DebtIsRetried
    <2> QED
      BY <2>1, <2>2, <2>3, <2>4, <2>5
  <1>8. CASE DoorWake
    <2> USE <1>8 DEF DoorWake
    <2>1. TypeOK'
      <3>1. Flags'
        BY TypeParts, Zenon DEF Flags
      <3>2. Places'
        BY TypeParts DEF Places
      <3> QED
        BY <3>1, <3>2, Zenon DEF TypeOK, Flags, Places
    <2>2. Locks'
      BY DEF TypeOK, Locks
    <2>3. NoLostCrossing' /\ WakeKept'
      BY DEF TypeOK, Locks, NoLostCrossing, WakeKept
    <2>4. LagBound'
      BY DEF TypeOK, Locks, LagBound, Accounted
    <2>5. DebtIsRetried'
      BY DEF TypeOK, Locks, DebtIsRetried
    <2> QED
      BY <2>1, <2>2, <2>3, <2>4, <2>5
  <1>9. CASE DoorTurn
    <2> USE <1>9 DEF DoorTurn, Release
    <2>1. TypeOK'
      <3>1. Flags'
        BY TypeParts, Zenon DEF Flags
      <3>2. Places'
        BY TypeParts DEF Places
      <3> QED
        BY <3>1, <3>2, Zenon DEF TypeOK, Flags, Places
    <2>2. Locks'
      BY DEF TypeOK, Locks
    <2>3. NoLostCrossing' /\ WakeKept'
      BY DEF TypeOK, Locks, NoLostCrossing, WakeKept
    <2>4. LagBound'
      BY DEF TypeOK, Locks, LagBound, Accounted
    <2>5. DebtIsRetried'
      BY DEF TypeOK, Locks, DebtIsRetried
    <2> QED
      BY <2>1, <2>2, <2>3, <2>4, <2>5
  <1>10. CASE HeadLanded
    <2> USE <1>10 DEF HeadLanded, Release
    <2>1. TypeOK'
      <3>1. Flags'
        BY TypeParts, Zenon DEF Flags
      <3>2. Places'
        BY TypeParts DEF Places
      <3> QED
        BY <3>1, <3>2, Zenon DEF TypeOK, Flags, Places
    <2>2. Locks'
      BY DEF TypeOK, Locks
    <2>3. NoLostCrossing' /\ WakeKept'
      BY DEF TypeOK, Locks, NoLostCrossing, WakeKept
    <2>4. LagBound'
      BY DEF TypeOK, Locks, LagBound, Accounted
    <2>5. DebtIsRetried'
      BY DEF TypeOK, Locks, DebtIsRetried
    <2> QED
      BY <2>1, <2>2, <2>3, <2>4, <2>5
  <1>11. CASE HeadRefused
    <2> USE <1>11 DEF HeadRefused, Release
    <2>1. TypeOK'
      <3>1. Flags'
        BY TypeParts, Zenon DEF Flags
      <3>2. Places'
        BY TypeParts DEF Places
      <3> QED
        BY <3>1, <3>2, Zenon DEF TypeOK, Flags, Places
    <2>2. Locks'
      BY DEF TypeOK, Locks
    <2>3. NoLostCrossing' /\ WakeKept'
      BY DEF TypeOK, Locks, NoLostCrossing, WakeKept
    <2>4. LagBound'
      BY DEF TypeOK, Locks, LagBound, Accounted
    <2>5. DebtIsRetried'
      BY DEF TypeOK, Locks, DebtIsRetried
    <2> QED
      BY <2>1, <2>2, <2>3, <2>4, <2>5
  <1> QED
    BY <1>1, <1>2, <1>3, <1>4, <1>5, <1>6, <1>7, <1>8, <1>9, <1>10, <1>11 DEF DoorStep

ThreadOrClock == ThreadStep \/ WaitTick \/ ThreadPanic \/ RetryExpires \/ Stop

LEMMA ThreadIInv == IInv /\ ThreadOrClock => IInv'
  <1> SUFFICES ASSUME IInv, ThreadOrClock PROVE IInv'
    OBVIOUS
  <1> USE CheckpointerConstants DEF kernel, door, signal, thread, IInv
  <1>1. CASE ThreadLook
    <2> USE <1>1 DEF ThreadLook
    <2>1. TypeOK'
      <3>1. Flags'
        BY TypeParts, Zenon DEF Flags
      <3>2. Places'
        BY TypeParts DEF Places
      <3> QED
        BY <3>1, <3>2, Zenon DEF TypeOK, Flags, Places
    <2>2. Locks'
      BY DEF TypeOK, Locks
    <2>3. NoLostCrossing' /\ WakeKept'
      BY DEF TypeOK, Locks, NoLostCrossing, WakeKept
    <2>4. LagBound'
      BY DEF TypeOK, Locks, LagBound, Accounted
    <2>5. DebtIsRetried'
      BY DEF TypeOK, Locks, DebtIsRetried
    <2> QED
      BY <2>1, <2>2, <2>3, <2>4, <2>5
  <1>2. CASE ThreadClear
    <2> USE <1>2 DEF ThreadClear
    <2>1. TypeOK'
      <3>1. Flags'
        BY TypeParts, Zenon DEF Flags
      <3>2. Places'
        BY TypeParts DEF Places
      <3> QED
        BY <3>1, <3>2, Zenon DEF TypeOK, Flags, Places
    <2>2. Locks'
      BY DEF TypeOK, Locks
    <2>3. NoLostCrossing' /\ WakeKept'
      BY DEF TypeOK, Locks, NoLostCrossing, WakeKept
    <2>4. LagBound'
      BY DEF TypeOK, Locks, LagBound, Accounted
    <2>5. DebtIsRetried'
      BY DEF TypeOK, Locks, DebtIsRetried
    <2> QED
      BY <2>1, <2>2, <2>3, <2>4, <2>5
  <1>3. CASE ThreadSnap
    <2> USE <1>3 DEF ThreadSnap
    <2>1. TypeOK'
      <3>1. Flags'
        BY TypeParts, Zenon DEF Flags
      <3>2. Places'
        BY TypeParts DEF Places
      <3> QED
        BY <3>1, <3>2, Zenon DEF TypeOK, Flags, Places
    <2>2. Locks'
      BY DEF TypeOK, Locks
    <2>3. NoLostCrossing' /\ WakeKept'
      BY DEF TypeOK, Locks, NoLostCrossing, WakeKept
    <2>4. LagBound'
      BY DEF TypeOK, Locks, LagBound, Accounted
    <2>5. DebtIsRetried'
      BY DEF TypeOK, Locks, DebtIsRetried
    <2> QED
      BY <2>1, <2>2, <2>3, <2>4, <2>5
  <1>4. CASE ThreadRan
    <2> USE <1>4 DEF ThreadRan
    <2>1. TypeOK'
      <3>1. Flags'
        BY TypeParts, Zenon DEF Flags
      <3>2. Places'
        BY TypeParts DEF Places
      <3> QED
        BY <3>1, <3>2, Zenon DEF TypeOK, Flags, Places
    <2>2. Locks'
      BY DEF TypeOK, Locks
    <2>3. NoLostCrossing' /\ WakeKept'
      BY DEF TypeOK, Locks, NoLostCrossing, WakeKept
    <2>4. LagBound'
      BY DEF TypeOK, Locks, LagBound, Accounted
    <2>5. DebtIsRetried'
      BY DEF TypeOK, Locks, DebtIsRetried
    <2> QED
      BY <2>1, <2>2, <2>3, <2>4, <2>5
  <1>5. CASE ThreadFollow
    <2> USE <1>5 DEF ThreadFollow
    <2>1. TypeOK'
      <3>1. Flags'
        BY TypeParts, Zenon DEF Flags
      <3>2. Places'
        BY TypeParts DEF Places
      <3> QED
        BY <3>1, <3>2, Zenon DEF TypeOK, Flags, Places
    <2>2. Locks'
      BY DEF TypeOK, Locks
    <2>3. NoLostCrossing' /\ WakeKept'
      BY DEF TypeOK, Locks, NoLostCrossing, WakeKept
    <2>4. LagBound'
      BY DEF TypeOK, Locks, LagBound, Accounted
    <2>5. DebtIsRetried'
      BY DEF TypeOK, Locks, DebtIsRetried
    <2> QED
      BY <2>1, <2>2, <2>3, <2>4, <2>5
  <1>6. CASE WaitStop
    <2> USE <1>6 DEF WaitStop
    <2>1. TypeOK'
      <3>1. Flags'
        BY TypeParts, Zenon DEF Flags
      <3>2. Places'
        BY TypeParts DEF Places
      <3> QED
        BY <3>1, <3>2, Zenon DEF TypeOK, Flags, Places
    <2>2. Locks'
      BY DEF TypeOK, Locks
    <2>3. NoLostCrossing' /\ WakeKept'
      BY DEF TypeOK, Locks, NoLostCrossing, WakeKept
    <2>4. LagBound'
      BY DEF TypeOK, Locks, LagBound, Accounted
    <2>5. DebtIsRetried'
      BY DEF TypeOK, Locks, DebtIsRetried
    <2> QED
      BY <2>1, <2>2, <2>3, <2>4, <2>5
  <1>7. CASE WaitDue
    <2> USE <1>7 DEF WaitDue
    <2>1. TypeOK'
      <3>1. Flags'
        BY TypeParts, Zenon DEF Flags
      <3>2. Places'
        BY TypeParts DEF Places
      <3> QED
        BY <3>1, <3>2, Zenon DEF TypeOK, Flags, Places
    <2>2. Locks'
      BY DEF TypeOK, Locks
    <2>3. NoLostCrossing' /\ WakeKept'
      BY DEF TypeOK, Locks, NoLostCrossing, WakeKept
    <2>4. LagBound'
      BY DEF TypeOK, Locks, LagBound, Accounted
    <2>5. DebtIsRetried'
      BY DEF TypeOK, Locks, DebtIsRetried
    <2> QED
      BY <2>1, <2>2, <2>3, <2>4, <2>5
  <1>8. CASE WaitRetry
    <2> USE <1>8 DEF WaitRetry
    <2>1. TypeOK'
      <3>1. Flags'
        BY TypeParts, Zenon DEF Flags
      <3>2. Places'
        BY TypeParts DEF Places
      <3> QED
        BY <3>1, <3>2, Zenon DEF TypeOK, Flags, Places
    <2>2. Locks'
      BY DEF TypeOK, Locks
    <2>3. NoLostCrossing' /\ WakeKept'
      BY DEF TypeOK, Locks, NoLostCrossing, WakeKept
    <2>4. LagBound'
      BY DEF TypeOK, Locks, LagBound, Accounted
    <2>5. DebtIsRetried'
      BY DEF TypeOK, Locks, DebtIsRetried
    <2> QED
      BY <2>1, <2>2, <2>3, <2>4, <2>5
  <1>9. CASE ThreadRetry
    <2> USE <1>9 DEF ThreadRetry
    <2>1. TypeOK'
      <3>1. Flags'
        BY TypeParts, Zenon DEF Flags
      <3>2. Places'
        BY TypeParts DEF Places
      <3> QED
        BY <3>1, <3>2, Zenon DEF TypeOK, Flags, Places
    <2>2. Locks'
      BY DEF TypeOK, Locks
    <2>3. NoLostCrossing' /\ WakeKept'
      BY DEF TypeOK, Locks, NoLostCrossing, WakeKept
    <2>4. LagBound'
      BY DEF TypeOK, Locks, LagBound, Accounted
    <2>5. DebtIsRetried'
      BY DEF TypeOK, Locks, DebtIsRetried
    <2> QED
      BY <2>1, <2>2, <2>3, <2>4, <2>5
  <1>10. CASE WaitTick
    <2> USE <1>10 DEF WaitTick
    <2>1. TypeOK'
      <3>1. Flags'
        BY TypeParts, Zenon DEF Flags
      <3>2. Places'
        BY TypeParts DEF Places
      <3> QED
        BY <3>1, <3>2, Zenon DEF TypeOK, Flags, Places
    <2>2. Locks'
      BY DEF TypeOK, Locks
    <2>3. NoLostCrossing' /\ WakeKept'
      BY DEF TypeOK, Locks, NoLostCrossing, WakeKept
    <2>4. LagBound'
      BY DEF TypeOK, Locks, LagBound, Accounted
    <2>5. DebtIsRetried'
      BY DEF TypeOK, Locks, DebtIsRetried
    <2> QED
      BY <2>1, <2>2, <2>3, <2>4, <2>5
  <1>11. CASE ThreadPanic
    <2> USE <1>11 DEF ThreadPanic
    <2>1. TypeOK'
      <3>1. Flags'
        BY TypeParts, Zenon DEF Flags
      <3>2. Places'
        BY TypeParts DEF Places
      <3> QED
        BY <3>1, <3>2, Zenon DEF TypeOK, Flags, Places
    <2>2. Locks'
      BY DEF TypeOK, Locks
    <2>3. NoLostCrossing' /\ WakeKept'
      BY DEF TypeOK, Locks, NoLostCrossing, WakeKept
    <2>4. LagBound'
      BY DEF TypeOK, Locks, LagBound, Accounted
    <2>5. DebtIsRetried'
      BY DEF TypeOK, Locks, DebtIsRetried
    <2> QED
      BY <2>1, <2>2, <2>3, <2>4, <2>5
  <1>12. CASE RetryExpires
    <2> USE <1>12 DEF RetryExpires
    <2>1. TypeOK'
      <3>1. Flags'
        BY TypeParts, Zenon DEF Flags
      <3>2. Places'
        BY TypeParts DEF Places
      <3> QED
        BY <3>1, <3>2, Zenon DEF TypeOK, Flags, Places
    <2>2. Locks'
      BY DEF TypeOK, Locks
    <2>3. NoLostCrossing' /\ WakeKept'
      BY DEF TypeOK, Locks, NoLostCrossing, WakeKept
    <2>4. LagBound'
      BY DEF TypeOK, Locks, LagBound, Accounted
    <2>5. DebtIsRetried'
      BY DEF TypeOK, Locks, DebtIsRetried
    <2> QED
      BY <2>1, <2>2, <2>3, <2>4, <2>5
  <1>13. CASE Stop
    <2> USE <1>13 DEF Stop
    <2>1. TypeOK'
      <3>1. Flags'
        BY TypeParts, Zenon DEF Flags
      <3>2. Places'
        BY TypeParts DEF Places
      <3> QED
        BY <3>1, <3>2, Zenon DEF TypeOK, Flags, Places
    <2>2. Locks'
      BY DEF TypeOK, Locks
    <2>3. NoLostCrossing' /\ WakeKept'
      BY DEF TypeOK, Locks, NoLostCrossing, WakeKept
    <2>4. LagBound'
      BY DEF TypeOK, Locks, LagBound, Accounted
    <2>5. DebtIsRetried'
      BY DEF TypeOK, Locks, DebtIsRetried
    <2> QED
      BY <2>1, <2>2, <2>3, <2>4, <2>5
  <1> QED
    BY <1>1, <1>2, <1>3, <1>4, <1>5, <1>6, <1>7, <1>8, <1>9, <1>10, <1>11, <1>12, <1>13 DEF ThreadOrClock, ThreadStep

LEMMA NextIInv == IInv /\ [Next]_vars => IInv'
  <1>1. ASSUME IInv, UNCHANGED vars PROVE IInv'
    BY <1>1 DEF vars, kernel, door, signal, thread, IInv, TypeOK, Locks, NoLostCrossing,
                WakeKept, LagBound, Accounted, DebtIsRetried
  <1> QED
    BY <1>1, DoorIInv, ThreadIInv DEF Next, ThreadOrClock, Exited

LEMMA IInvImplies ==
    IInv => TypeOK /\ NoLostCrossing /\ NoLostWake /\ BackstopBoundsLag /\ DebtIsRetried
  BY DEF IInv, TypeOK, WakeKept, NoLostWake, LagBound, Accounted, BackstopBoundsLag

\* Every variable keeps its type.
THEOREM HandoffTyped == Spec => []TypeOK
  BY InitIInv, NextIInv, IInvImplies, PTL DEF Spec

\* A crossing of the cadence is never forgotten between the write path, the
\* flag and the thread.
THEOREM CrossingKept == Spec => []NoLostCrossing
  BY InitIInv, NextIInv, IInvImplies, PTL DEF Spec

\* The thread never sleeps beside a set flag with no wake on its way.
THEOREM WakeNeverLost == Spec => []NoLostWake
  BY InitIInv, NextIInv, IInvImplies, PTL DEF Spec

\* The inline backstop bounds the crossings no checkpoint has begun since,
\* whether or not the thread still runs.
THEOREM WindowBounded == Spec => []BackstopBoundsLag
  BY InitIInv, NextIInv, IInvImplies, PTL DEF Spec

\* A first head that is owed always has a retry coming.
THEOREM DebtNeverForgotten == Spec => []DebtIsRetried
  BY InitIInv, NextIInv, IInvImplies, PTL DEF Spec
=============================================================================
