-------------------------- MODULE HeldWritesProofs --------------------------
(***************************************************************************)
(* The hold, for every value of the constants: its state keeps its type; a *)
(* write told kept landed, unless a row no read can attribute stands in    *)
(* the log (Residue) or a walk passed a line; and no write lands while one *)
(* typed before it is out, but those a walk passed: the lines it stopped   *)
(* at that the person sent while it was under way (passed).                *)
(*                                                                         *)
(* What makes the read of a head right is its base: every row of a write   *)
(* typed before it lies at or below it (Based).  That holds because a line *)
(* settled raises the bases behind it past its own row, and because the    *)
(* file gives back the queue as it once stood, where a line not settled    *)
(* yet stands before those not raised yet (Copies).                        *)
(***************************************************************************)
EXTENDS HeldWrites, Extremes, SequenceTheorems

-----------------------------------------------------------------------------
(* Types.  n is how many bursts were typed, len how many rows the log has. *)

N == Len(burst)

UnitSet == (0 .. MaxBursts) \X Nat
BurstSet == [op : {"insert", "delete"}, before : UnitSet, after : UnitSet,
             unit : UnitSet, anchored : BOOLEAN]
Fates == {"none", "out", "kept", "dropped", "back", "closed", "again"}
Causes == {"holding", "moved", "refused"}
FrameSet == [b : Nat, op : {"insert", "delete"}, first : Int, asOf : Int]
LineSet == [b : Nat, op : {"insert", "delete"}, first : Int, asOf : Int, base : Nat,
            cause : Causes, sent : BOOLEAN, through : Nat]
RowSet == [b : Nat, op : {"insert", "delete", "other"}, lost : BOOLEAN]
Kinds == {"acked", "moved", "refused", "lost", "unsent", "faced"}
AnswerSet == [kind : Kinds, at : Nat]

RestSet == [pc : {"idle", "walk"}]
DialSet == [pc : {"dial"}, k : Nat, frame : FrameSet, shifted : BOOLEAN, base : Nat]
AnsweredSet == [pc : {"answer"}, k : Nat, frame : FrameSet, shifted : BOOLEAN, base : Nat,
                answer : AnswerSet]
ReadSet == [pc : {"read", "send"}, k : Nat, line : LineSet]
SiteSet == [pc : {"site"}, k : Nat, line : LineSet, at : Nat]
ShiftSet == [pc : {"shift"}, k : Nat, current : Nat]
ShiftedSet == [pc : {"shifted"}, k : Nat, line : LineSet, frame : FrameSet]
ThreadSet == RestSet \cup DialSet \cup AnsweredSet \cup ReadSet \cup SiteSet
             \cup ShiftSet \cup ShiftedSet
WalkSet == [after : Nat, sending : BOOLEAN, stopped : BOOLEAN]

HasFrame == {"dial", "answer", "shifted"}
HasLine == {"read", "site", "send", "shifted"}

\* A frame or a line names a burst typed and a state of the log.
Of(f, n, len) == f.b \in 1 .. n /\ f.asOf <= len

IsQueue(q, n, len, next) ==
    /\ q \in [DOMAIN q -> LineSet] /\ DOMAIN q \subseteq 1 .. (next - 1)
    /\ \A k \in DOMAIN q : Of(q[k], n, len) /\ q[k].base <= len /\ q[k].through <= len

IsHand(h, n, len) ==
    /\ h \in ThreadSet
    /\ h.pc \in HasFrame => Of(h.frame, n, len)
    /\ h.pc \in HasLine => Of(h.line, n, len) /\ h.line.base <= len /\ h.line.through <= len
    /\ h.pc \in {"dial", "answer"} => h.base <= len
    /\ h.pc = "answer" => h.answer.at <= len
    /\ h.pc = "answer" /\ h.answer.kind = "acked" => h.answer.at > 0
    /\ h.pc = "site" => h.at \in 1 .. len
    /\ h.pc = "shift" => h.current <= len

IsLog(lg, n) == lg \in Seq(RowSet) /\ \A i \in DOMAIN lg : lg[i].b <= n

IsNet(fs, n, len) == \A f \in fs : f \in FrameSet /\ Of(f, n, len)

Typed ==
    /\ image \in Seq(UnitSet) /\ IsLog(log, N) /\ IsNet(net, N, Len(log))
    /\ nextK \in Nat \ {0}
    /\ IsQueue(lines, N, Len(log), nextK) /\ IsQueue(disk, N, Len(log), nextK)
    /\ acked \subseteq DOMAIN log /\ position \in 0 .. Len(log)
    /\ thread = [t \in Threads |-> thread[t]]
    /\ \A t \in Threads : IsHand(thread[t], N, Len(log))
    /\ thread["call"].pc \in {"idle", "dial", "answer", "shift", "shifted"}
    /\ walk \in WalkSet
    /\ text \in Seq(UnitSet) /\ seen \in -1 .. Len(log)
    /\ burst \in Seq(BurstSet) /\ N <= MaxBursts
    /\ fate \in [0 .. MaxBursts -> Fates]
    /\ count \in [{"other", "act", "fault"} -> Nat]

-----------------------------------------------------------------------------
(* Lemmas about the operators of the model *)

LEMMA InsertTyped ==
    ASSUME NEW S, NEW s \in Seq(S), NEW i \in 1 .. Len(s) + 1, NEW e \in S
    PROVE  InsertAt(s, i, e) \in Seq(S)
  BY DEF InsertAt

LEMMA RemoveTyped ==
    ASSUME NEW S, NEW s \in Seq(S), NEW i \in 1 .. Len(s)
    PROVE  RemoveAt(s, i) \in Seq(S)
  BY DEF RemoveAt

\* The least of a set of ordinals or positions.
LEMMA LowestIs ==
    ASSUME NEW S \in SUBSET Nat, S # {}
    PROVE  Lowest(S) \in S /\ \A j \in S : Lowest(S) <= j
  <1>1. \E k \in S : \A j \in S : k <= j
    BY LeastExists
  <1> QED
    BY <1>1 DEF Lowest

LEMMA CountTyped ==
    ASSUME count \in [{"other", "act", "fault"} -> Nat], NEW e \in {"other", "act", "fault"},
           NEW max, Count(e, max)
    PROVE  count' \in [{"other", "act", "fault"} -> Nat]
  BY DEF Count

\* What a thread holds at each of its steps.
LEMMA Shapes ==
    ASSUME NEW h \in ThreadSet
    PROVE  /\ h.pc = "dial" => h \in DialSet
           /\ h.pc = "answer" => h \in AnsweredSet
           /\ h.pc \in {"read", "send"} => h \in ReadSet
           /\ h.pc = "site" => h \in SiteSet
           /\ h.pc = "shift" => h \in ShiftSet
           /\ h.pc = "shifted" => h \in ShiftedSet
  BY DEF ThreadSet, RestSet, DialSet, AnsweredSet, ReadSet, SiteSet, ShiftSet, ShiftedSet

LEMMA RestIs ==
    ASSUME NEW n, NEW len
    PROVE  IsHand(Idle, n, len) /\ IsHand([pc |-> "walk"], n, len)
  BY DEF IsHand, Idle, ThreadSet, RestSet, HasFrame, HasLine

LEMMA DialIs ==
    ASSUME NEW n, NEW len, NEW k \in Nat, NEW f \in FrameSet, NEW s \in BOOLEAN, NEW base \in Nat,
           Of(f, n, len), base <= len
    PROVE  IsHand(Dial(k, f, s, base), n, len)
  BY DEF IsHand, Dial, ThreadSet, DialSet, HasFrame, HasLine

\* The hand an answer leaves.
LEMMA AnsweredIs ==
    ASSUME NEW h, NEW n \in Nat, NEW len \in Nat, IsHand(h, n, len), h.pc = "dial",
           NEW m \in Nat, len <= m,
           NEW kind \in Kinds, NEW at \in Nat, at <= m, kind = "acked" => at > 0
    PROVE  IsHand([pc |-> "answer", k |-> h.k, frame |-> h.frame, shifted |-> h.shifted,
                   base |-> h.base, answer |-> [kind |-> kind, at |-> at]], n, m)
  <1>1. h \in DialSet
    BY Shapes DEF IsHand
  <1> QED
    BY <1>1 DEF IsHand, ThreadSet, DialSet, AnsweredSet, AnswerSet, FrameSet, HasFrame, HasLine, Of

\* Types stand while bursts are typed and rows appended.
LEMMA Grows ==
    ASSUME NEW n \in Nat, NEW len \in Nat, NEW m \in Nat, NEW to \in Nat, n <= m, len <= to
    PROVE  /\ \A f : f.asOf \in Int /\ Of(f, n, len) => Of(f, m, to)
           /\ \A h : IsHand(h, n, len) => IsHand(h, m, to)
           /\ \A q, next : IsQueue(q, n, len, next) => IsQueue(q, m, to, next)
           /\ \A fs : IsNet(fs, n, len) => IsNet(fs, m, to)
  <1>1. ASSUME NEW f, f.asOf \in Int, Of(f, n, len) PROVE Of(f, m, to)
    BY <1>1 DEF Of
  <1>2. ASSUME NEW h, IsHand(h, n, len) PROVE IsHand(h, m, to)
    <2>1. h \in ThreadSet
      BY <1>2 DEF IsHand
    <2>2. h.pc \in HasFrame => h.frame.asOf \in Int
      BY <2>1, Shapes DEF HasFrame, DialSet, AnsweredSet, ShiftedSet, FrameSet
    <2>3. h.pc \in HasLine => h.line.asOf \in Int /\ h.line.base \in Nat /\ h.line.through \in Nat
      BY <2>1, Shapes DEF HasLine, ReadSet, SiteSet, ShiftedSet, LineSet
    <2>4. /\ h.pc \in {"dial", "answer"} => h.base \in Nat
          /\ h.pc = "answer" => h.answer.at \in Nat
          /\ h.pc = "site" => h.at \in Nat
          /\ h.pc = "shift" => h.current \in Nat
      BY <2>1, Shapes DEF DialSet, AnsweredSet, SiteSet, ShiftSet, AnswerSet
    <2> QED
      BY <1>1, <1>2, <2>2, <2>3, <2>4 DEF IsHand
  <1>3. ASSUME NEW q, NEW next, IsQueue(q, n, len, next) PROVE IsQueue(q, m, to, next)
    <2>1. \A k \in DOMAIN q : q[k].asOf \in Int /\ q[k].base \in Nat /\ q[k].through \in Nat
      BY <1>3 DEF IsQueue, LineSet
    <2> QED
      BY <1>1, <1>3, <2>1 DEF IsQueue
  <1>4. ASSUME NEW fs, IsNet(fs, n, len) PROVE IsNet(fs, m, to)
    BY <1>1, <1>4 DEF IsNet, FrameSet
  <1> QED
    BY <1>1, <1>2, <1>3, <1>4

-----------------------------------------------------------------------------
(* The types are kept *)

LEMMA Numbers ==
    ASSUME Typed
    PROVE  /\ Len(log) \in Nat /\ N \in Nat /\ DOMAIN log = 1 .. Len(log)
           /\ MaxBursts \in Nat /\ Units \in Nat
  <1>1. log \in Seq(RowSet) /\ burst \in Seq(BurstSet)
    BY DEF Typed, IsLog
  <1>2. Len(log) \in Nat /\ DOMAIN log = 1 .. Len(log) /\ N \in Nat
    BY <1>1 DEF N
  <1>3. MaxBursts \in Nat /\ Units \in Nat
    BY HoldAssumption
  <1> QED
    BY <1>2, <1>3

LEMMA FatesTyped ==
    ASSUME Typed
    PROVE  /\ fate \in [0 .. MaxBursts -> Fates] /\ 1 .. N \subseteq 0 .. MaxBursts
           /\ \A b \in 1 .. N : b \in 0 .. MaxBursts /\ fate[b] \in Fates
  <1>1. N \in Nat /\ MaxBursts \in Nat
    BY Numbers
  <1>2. fate \in [0 .. MaxBursts -> Fates] /\ N <= MaxBursts
    BY DEF Typed
  <1> QED
    BY <1>1, <1>2

LEMMA GrowsHere ==
    ASSUME Typed, NEW m \in Nat, NEW to \in Nat, N <= m, Len(log) <= to
    PROVE  /\ IsNet(net, m, to) /\ IsQueue(lines, m, to, nextK) /\ IsQueue(disk, m, to, nextK)
           /\ \A u \in Threads : IsHand(thread[u], m, to)
  <1>1. /\ IsNet(net, N, Len(log)) /\ IsQueue(lines, N, Len(log), nextK)
        /\ IsQueue(disk, N, Len(log), nextK) /\ \A u \in Threads : IsHand(thread[u], N, Len(log))
    BY DEF Typed
  <1>2. N \in Nat /\ Len(log) \in Nat
    BY Numbers
  <1> QED
    BY <1>1, <1>2, Grows

\* What the log's growing leaves as it is.
LEMMA LogGrown ==
    ASSUME Typed, NEW to \in Nat, Len(log) <= to
    PROVE  /\ acked \subseteq 1 .. to /\ position \in 0 .. to /\ seen \in -1 .. to
  <1>1. Len(log) \in Nat /\ acked \subseteq 1 .. Len(log)
        /\ position \in 0 .. Len(log) /\ seen \in -1 .. Len(log)
    BY Numbers DEF Typed
  <1> QED
    BY <1>1

\* A burst's landings are a finite number of rows.
LEMMA LandingsFinite ==
    ASSUME Typed, NEW b
    PROVE  Cardinality(Landings(b)) \in Nat
  <1>1. Landings(b) \subseteq 1 .. Len(log)
    BY Numbers DEF Landings
  <1>2. IsFiniteSet(1 .. Len(log))
    BY Numbers, FS_Interval
  <1> QED
    BY <1>1, <1>2, FS_Subset, FS_CardinalityType

\* A request the board took leaves the log as it is, or puts its row at the end.
LEMMA AnswersTyped ==
    ASSUME Typed, NEW f \in FrameSet, Of(f, N, Len(log)), NEW kind, Answers(f, kind)
    PROVE  /\ image' \in Seq(UnitSet) /\ IsLog(log', N) /\ kind \in Kinds
           /\ Len(log') \in Nat /\ Len(log) <= Len(log')
           /\ \/ log' = log /\ kind # "acked"
              \/ \E lost \in BOOLEAN : log' = Append(log, [b |-> f.b, op |-> f.op, lost |-> lost])
           /\ kind = "acked" =>
                 Len(log') > 0 /\ Len(log') \in DOMAIN log' /\ log'[Len(log')].b = f.b
  <1>1. CASE log' = log /\ image' = image /\ kind \in {"moved", "refused", "lost"}
    <2>1. image \in Seq(UnitSet) /\ IsLog(log, N)
      BY DEF Typed
    <2>2. IsLog(log', N) /\ Len(log') = Len(log) /\ kind \in Kinds
      BY <1>1, <2>1 DEF Kinds
    <2>3. log' = log /\ image' \in Seq(UnitSet) /\ kind # "acked"
      BY <1>1, <2>1
    <2>4. Len(log) \in Nat
      BY Numbers
    <2>5. Len(log') \in Nat /\ Len(log) <= Len(log')
      BY <2>2, <2>4
    <2> QED
      BY <2>2, <2>3, <2>5, Zenon
  <1>2. CASE /\ InRange(f) /\ image' = Applied(f) /\ kind \in {"acked", "lost"}
             /\ \E lost \in BOOLEAN : log' = Append(log, [b |-> f.b, op |-> f.op, lost |-> lost])
    <2>1. PICK lost \in BOOLEAN : log' = Append(log, [b |-> f.b, op |-> f.op, lost |-> lost])
      BY <1>2
    <2> DEFINE r == [b |-> f.b, op |-> f.op, lost |-> lost]
    <2>2. r \in RowSet /\ r.b = f.b /\ f.b \in 1 .. N
      BY DEF RowSet, FrameSet, Of
    <2>3. log \in Seq(RowSet) /\ \A i \in DOMAIN log : log[i].b <= N
      BY DEF Typed, IsLog
    <2>4. /\ log' \in Seq(RowSet) /\ Len(log') = Len(log) + 1
          /\ \A i \in DOMAIN log' : log'[i] = IF i = Len(log') THEN r ELSE log[i]
          /\ DOMAIN log' = 1 .. Len(log')
      BY <2>1, <2>2, <2>3
    <2>5. IsLog(log', N)
      <3> HIDE DEF r
      <3> QED
        BY <2>2, <2>3, <2>4, Numbers DEF IsLog
    <2>6. image' \in Seq(UnitSet)
      <3>1. Unit(f.b, Cardinality(Landings(f.b)) + 1) \in UnitSet
        <4>1. f.b \in 0 .. MaxBursts
          BY <2>2, FatesTyped
        <4> QED
          BY <4>1, LandingsFinite DEF Unit, UnitSet
      <3> QED
        BY <1>2, <3>1, InsertTyped, RemoveTyped DEF Applied, InRange, Typed
    <2>7. kind \in Kinds /\ Len(log') \in Nat /\ Len(log) <= Len(log') /\ Len(log') > 0
      BY <1>2, <2>4, Numbers DEF Kinds
    <2>8. Len(log') \in DOMAIN log' /\ log'[Len(log')].b = f.b
      <3>1. Len(log') \in DOMAIN log'
        BY <2>4, <2>7
      <3> HIDE DEF r
      <3> QED
        BY <2>2, <2>4, <3>1
    <2> QED
      BY <2>1, <2>5, <2>6, <2>7, <2>8
  <1> QED
    BY <1>1, <1>2 DEF Answers, board

\* A step of a thread alone.
LEMMA ThreadTyped ==
    ASSUME NEW th, NEW t \in Threads, NEW h, NEW n, NEW len, NEW th2,
           th = [u \in Threads |-> th[u]], \A u \in Threads : IsHand(th[u], n, len),
           IsHand(h, n, len), th2 = [th EXCEPT ![t] = h]
    PROVE  th2 = [u \in Threads |-> th2[u]] /\ \A u \in Threads : IsHand(th2[u], n, len)
  <1>1. th2 = [u \in Threads |-> IF u = t THEN h ELSE th[u]]
    OBVIOUS
  <1> QED
    BY <1>1

LEMMA BoardAnswersTyped ==
    ASSUME Typed, NEW t \in Threads, BoardAnswers(t)
    PROVE  Typed'
  <1>1. PICK kind \in {"acked", "moved", "refused", "lost"} :
          /\ Answers(thread[t].frame, kind)
          /\ IF kind = "lost" THEN Fault ELSE UNCHANGED count
          /\ Answered(t, kind, IF kind \in {"acked", "moved"} THEN Len(log') ELSE 0)
    BY DEF BoardAnswers
  <1> DEFINE at == IF kind \in {"acked", "moved"} THEN Len(log') ELSE 0
             d == thread[t]
             h == [pc |-> "answer", k |-> d.k, frame |-> d.frame, shifted |-> d.shifted,
                   base |-> d.base, answer |-> [kind |-> kind, at |-> at]]
  <1>2. d.pc = "dial" /\ IsHand(d, N, Len(log)) /\ d \in DialSet
    BY Shapes DEF BoardAnswers, Typed, IsHand
  <1>3. d.frame \in FrameSet /\ Of(d.frame, N, Len(log))
    BY <1>2 DEF IsHand, HasFrame, DialSet
  <1>4. /\ image' \in Seq(UnitSet) /\ IsLog(log', N) /\ kind \in Kinds
        /\ Len(log') \in Nat /\ Len(log) <= Len(log')
        /\ kind = "acked" => Len(log') > 0
    BY <1>1, <1>3, AnswersTyped
  <1>5. UNCHANGED <<net, lines, disk, nextK, acked, position, walk, text, seen, burst, fate>>
    BY DEF BoardAnswers, store, page
  <1>6. IsNet(net, N, Len(log')) /\ IsQueue(lines, N, Len(log'), nextK)
        /\ IsQueue(disk, N, Len(log'), nextK) /\ \A u \in Threads : IsHand(thread[u], N, Len(log'))
    BY <1>4, Numbers, GrowsHere
  <1>7. IsHand(h, N, Len(log'))
    <2>1. at \in Nat /\ at <= Len(log') /\ (kind = "acked" => at > 0)
      BY <1>4
    <2> HIDE DEF at
    <2> QED
      BY <1>2, <1>4, <2>1, Numbers, AnsweredIs
  <1>8. thread' = [thread EXCEPT ![t] = h]
    BY <1>1 DEF Answered
  <1>9. thread' = [u \in Threads |-> thread'[u]] /\ \A u \in Threads : IsHand(thread'[u], N, Len(log'))
    <2> HIDE DEF h
    <2> QED
      BY <1>6, <1>7, <1>8, ThreadTyped DEF Typed
  <1>10. thread'["call"].pc \in {"idle", "dial", "answer", "shift", "shifted"}
    BY <1>8 DEF Typed, Threads
  <1>11. count' \in [{"other", "act", "fault"} -> Nat]
    BY <1>1, CountTyped DEF Typed, Fault
  <1>12. /\ acked \subseteq DOMAIN log' /\ position \in 0 .. Len(log') /\ seen \in -1 .. Len(log')
         /\ N' = N
    <2>1. DOMAIN log' = 1 .. Len(log')
      BY <1>4 DEF IsLog
    <2> QED
      BY <1>4, <1>5, <2>1, LogGrown DEF N
  <1> QED
    BY <1>4, <1>5, <1>6, <1>9, <1>10, <1>11, <1>12 DEF Typed

LEMMA BoardRefusesTyped ==
    ASSUME Typed, NEW t \in Threads, BoardRefuses(t) \/ DialFails(t)
    PROVE  Typed'
  <1>1. PICK kind \in Kinds : Answered(t, kind, 0) /\ kind # "acked"
    BY DEF BoardRefuses, DialFails, Kinds
  <1> DEFINE d == thread[t]
             h == [pc |-> "answer", k |-> d.k, frame |-> d.frame, shifted |-> d.shifted,
                   base |-> d.base, answer |-> [kind |-> kind, at |-> 0]]
  <1>2. d.pc = "dial" /\ IsHand(d, N, Len(log)) /\ d \in DialSet
    BY Shapes DEF BoardRefuses, DialFails, Typed, IsHand
  <1>3. UNCHANGED <<image, log, lines, disk, nextK, acked, position, walk, text, seen, burst, fate>>
    BY DEF BoardRefuses, DialFails, store, page, board
  <1>4. IsHand(h, N, Len(log))
    BY <1>1, <1>2, Numbers, AnsweredIs
  <1>5. thread' = [thread EXCEPT ![t] = h]
    BY <1>1 DEF Answered
  <1>6. thread' = [u \in Threads |-> thread'[u]] /\ \A u \in Threads : IsHand(thread'[u], N, Len(log))
    <2> HIDE DEF h
    <2> QED
      BY <1>4, <1>5, ThreadTyped DEF Typed
  <1>7. thread'["call"].pc \in {"idle", "dial", "answer", "shift", "shifted"}
    BY <1>5 DEF Typed, Threads
  <1>8. count' \in [{"other", "act", "fault"} -> Nat]
    BY CountTyped DEF Typed, Fault, BoardRefuses, DialFails
  <1>9. IsNet(net', N, Len(log))
    <2>1. d.frame \in FrameSet /\ Of(d.frame, N, Len(log))
      BY <1>2 DEF IsHand, HasFrame, DialSet
    <2>2. net' = net \/ net' = net \cup {d.frame}
      BY DEF BoardRefuses, DialFails
    <2> QED
      BY <2>1, <2>2 DEF Typed, IsNet
  <1>10. N' = N
    BY <1>3 DEF N
  <1> QED
    BY <1>3, <1>6, <1>7, <1>8, <1>9, <1>10 DEF Typed

LEMMA LateTyped ==
    ASSUME Typed, NEW f \in net, Late(f)
    PROVE  Typed'
  <1>1. f \in FrameSet /\ Of(f, N, Len(log))
    BY DEF Typed, IsNet
  <1>2. /\ image' \in Seq(UnitSet) /\ IsLog(log', N)
        /\ Len(log') \in Nat /\ Len(log) <= Len(log')
    BY <1>1, AnswersTyped DEF Late
  <1>3. /\ UNCHANGED <<lines, disk, nextK, acked, position, thread, walk, text, seen, burst, fate, count>>
        /\ net' = net \ {f}
    BY DEF Late, store, page
  <1>4. IsNet(net, N, Len(log')) /\ IsQueue(lines, N, Len(log'), nextK)
        /\ IsQueue(disk, N, Len(log'), nextK) /\ \A u \in Threads : IsHand(thread[u], N, Len(log'))
    BY <1>2, Numbers, GrowsHere
  <1>5. IsNet(net', N, Len(log'))
    BY <1>3, <1>4 DEF IsNet
  <1>6. /\ acked \subseteq DOMAIN log' /\ position \in 0 .. Len(log') /\ seen \in -1 .. Len(log')
        /\ N' = N
    <2>1. DOMAIN log' = 1 .. Len(log')
      BY <1>2 DEF IsLog
    <2> QED
      BY <1>2, <1>3, <2>1, LogGrown DEF N
  <1> QED
    BY <1>2, <1>3, <1>4, <1>5, <1>6 DEF Typed

LEMMA OtherHandTyped ==
    ASSUME Typed, OtherHand
    PROVE  Typed'
  <1> DEFINE r == [b |-> 0, op |-> "other", lost |-> FALSE]
  <1>1. r \in RowSet /\ log \in Seq(RowSet) /\ \A i \in DOMAIN log : log[i].b <= N
    BY DEF RowSet, Typed, IsLog
  <1>2. /\ log' \in Seq(RowSet) /\ Len(log') = Len(log) + 1 /\ DOMAIN log' = 1 .. Len(log')
        /\ \A i \in DOMAIN log' : log'[i] = IF i = Len(log') THEN r ELSE log[i]
    BY <1>1 DEF OtherHand
  <1>3. IsLog(log', N)
    <2>1. r.b = 0
      OBVIOUS
    <2> HIDE DEF r
    <2> QED
      BY <1>1, <1>2, <2>1, Numbers DEF IsLog
  <1>4. image' \in Seq(UnitSet)
    <2>0. count["other"] \in Nat
      BY DEF Typed
    <2>1. Unit(0, Units + 1 + count["other"]) \in UnitSet
      BY <2>0, Numbers DEF Unit, UnitSet
    <2>2. image \in Seq(UnitSet)
      BY DEF Typed
    <2>3. CASE \E q \in 1 .. Len(image) + 1 :
                 image' = InsertAt(image, q, Unit(0, Units + 1 + count["other"]))
      BY <2>1, <2>2, <2>3, InsertTyped
    <2>4. CASE \E q \in 1 .. Len(image) : image' = RemoveAt(image, q)
      BY <2>2, <2>4, RemoveTyped
    <2> QED
      BY <2>3, <2>4 DEF OtherHand
  <1>5. UNCHANGED <<net, lines, disk, nextK, acked, position, thread, walk, text, seen, burst, fate>>
    BY DEF OtherHand, store, page
  <1>6. IsNet(net, N, Len(log')) /\ IsQueue(lines, N, Len(log'), nextK)
        /\ IsQueue(disk, N, Len(log'), nextK) /\ \A u \in Threads : IsHand(thread[u], N, Len(log'))
    BY <1>2, Numbers, GrowsHere
  <1>7. count' \in [{"other", "act", "fault"} -> Nat]
    BY CountTyped DEF Typed, OtherHand
  <1>8. /\ acked \subseteq DOMAIN log' /\ position \in 0 .. Len(log') /\ seen \in -1 .. Len(log')
        /\ N' = N
    BY <1>2, <1>5, Numbers, LogGrown DEF N
  <1> QED
    BY <1>3, <1>4, <1>5, <1>6, <1>7, <1>8 DEF Typed

LEMMA PageReadsTyped ==
    ASSUME Typed, PageReads
    PROVE  Typed'
  <1>1. UNCHANGED <<image, log, net, lines, disk, nextK, acked, position, thread, walk, burst, fate, count>>
        /\ text' = image /\ seen' = Len(log) /\ N' = N
    BY DEF PageReads, board, store, N
  <1>2. text' \in Seq(UnitSet)
    BY <1>1 DEF Typed
  <1>3. seen' \in -1 .. Len(log)
    BY <1>1, Numbers
  <1> QED
    BY <1>1, <1>2, <1>3 DEF Typed

-----------------------------------------------------------------------------
(* What the operations do to the queue *)

\* The queue with its lines re-marked: their writes stand, their bases only rise.
Remarked(ls) ==
    /\ ls \in [DOMAIN lines -> LineSet]
    /\ \A k \in DOMAIN lines :
          /\ ls[k].b = lines[k].b /\ lines[k].base <= ls[k].base
          /\ ls[k].base <= Len(log) /\ ls[k].asOf <= Len(log) /\ ls[k].through <= Len(log)

\* A change of the lines, copied or not.
Changed(ls) ==
    /\ lines' = ls /\ (disk' = ls \/ disk' = disk)
    /\ count' \in [{"other", "act", "fault"} -> Nat]

LEMMA CopiedIs ==
    ASSUME Typed, NEW ls, lines' = ls, Copied(ls)
    PROVE  Changed(ls)
  BY CountTyped DEF Typed, Copied, Fault, Changed

LEMMA LineTyped ==
    ASSUME Typed, NEW k \in DOMAIN lines
    PROVE  /\ lines[k] \in LineSet /\ Of(lines[k], N, Len(log))
           /\ lines[k].base <= Len(log) /\ lines[k].through <= Len(log)
           /\ k \in 1 .. nextK - 1 /\ lines[k].b \in 1 .. N
           /\ lines[k].base \in Nat /\ lines[k].asOf \in Int /\ lines[k].through \in Nat
           /\ lines[k].asOf <= Len(log)
           /\ Frame(lines[k]) \in FrameSet /\ Of(Frame(lines[k]), N, Len(log))
  BY DEF Typed, IsQueue, LineSet, FrameSet, Frame, Of

LEMMA RemarkedQueue ==
    ASSUME Typed, NEW ls, Remarked(ls)
    PROVE  /\ IsQueue(ls, N, Len(log), nextK) /\ DOMAIN ls = DOMAIN lines
  BY DEF Typed, IsQueue, Remarked, Of

LEMMA SameRemarked ==
    ASSUME Typed
    PROVE  Remarked(lines)
  <1>1. lines \in [DOMAIN lines -> LineSet]
    BY DEF Typed, IsQueue
  <1> QED
    BY <1>1, LineTyped DEF Remarked

LEMMA RemarkedBy ==
    ASSUME Typed, NEW ls, ls \in [DOMAIN lines -> LineSet],
           \A j \in DOMAIN lines :
              /\ ls[j].b = lines[j].b
              /\ \/ ls[j].base = lines[j].base
                 \/ lines[j].base <= ls[j].base /\ ls[j].base <= Len(log)
              /\ ls[j].asOf = lines[j].asOf \/ ls[j].asOf <= Len(log)
              /\ ls[j].through = lines[j].through \/ ls[j].through <= Len(log)
    PROVE  Remarked(ls)
  BY LineTyped DEF Remarked

\* The lines of K with a new cause, sent or not.
LEMMA CauseRemarked ==
    ASSUME Typed, NEW K, NEW c \in Causes, NEW ls,
           \/ ls = [k \in DOMAIN lines |-> IF k \in K THEN [lines[k] EXCEPT !.sent = TRUE, !.cause = c]
                                           ELSE lines[k]]
           \/ ls = [k \in DOMAIN lines |-> IF k \in K THEN [lines[k] EXCEPT !.cause = c]
                                           ELSE lines[k]]
    PROVE  Remarked(ls)
  <1>1. ASSUME NEW l \in LineSet
        PROVE  /\ LET m == [l EXCEPT !.sent = TRUE, !.cause = c]
                  IN  m \in LineSet /\ m.b = l.b /\ m.base = l.base /\ m.asOf = l.asOf
                      /\ m.through = l.through
               /\ LET m == [l EXCEPT !.cause = c]
                  IN  m \in LineSet /\ m.b = l.b /\ m.base = l.base /\ m.asOf = l.asOf
                      /\ m.through = l.through
    BY DEF LineSet
  <1>2. ASSUME NEW j \in DOMAIN lines
        PROVE  /\ ls[j] \in LineSet /\ ls[j].b = lines[j].b /\ ls[j].base = lines[j].base
               /\ ls[j].asOf = lines[j].asOf /\ ls[j].through = lines[j].through
    <2>1. lines[j] \in LineSet
      BY LineTyped
    <2>2. \/ ls[j] = [lines[j] EXCEPT !.sent = TRUE, !.cause = c]
          \/ ls[j] = [lines[j] EXCEPT !.cause = c]
          \/ ls[j] = lines[j]
      OBVIOUS
    <2> QED
      BY <1>1, <2>1, <2>2
  <1>3. ls \in [DOMAIN lines -> LineSet]
    BY <1>2
  <1> QED
    BY <1>2, <1>3, RemarkedBy

LEMMA DialShiftedMarks ==
    ASSUME Typed, NEW t \in Threads, DialShifted(t)
    PROVE  /\ Remarked(lines') /\ Changed(lines') /\ nextK' = nextK
           /\ thread[t] \in ShiftedSet /\ Of(thread[t].frame, N, Len(log))
  <1> DEFINE h == thread[t]
             f == h.frame
             was == h.line
             ls == [k \in DOMAIN lines |->
                      IF k \in {h.k}
                      THEN [lines[k] EXCEPT !.first = f.first, !.asOf = f.asOf, !.sent = TRUE,
                                            !.cause = was.cause, !.through = was.through]
                      ELSE lines[k]]
  <1>1. h \in ShiftedSet /\ Of(f, N, Len(log)) /\ was.through <= Len(log)
    BY Shapes DEF DialShifted, Typed, IsHand, HasFrame, HasLine
  <1>2. lines' = ls /\ Copied(lines') /\ nextK' = nextK
    BY DEF DialShifted, Remark, Set
  <1>3. f \in FrameSet /\ was \in LineSet /\ f.asOf <= Len(log)
    BY <1>1 DEF ShiftedSet, Of
  <1>4. ASSUME NEW l \in LineSet
        PROVE  LET m == [l EXCEPT !.first = f.first, !.asOf = f.asOf, !.sent = TRUE,
                                  !.cause = was.cause, !.through = was.through]
               IN  m \in LineSet /\ m.b = l.b /\ m.base = l.base /\ m.asOf = f.asOf
                   /\ m.through = was.through
    <2> HIDE DEF f, was
    <2> QED
      BY <1>3 DEF LineSet, FrameSet
  <1>5. Remarked(ls)
    <2>1. ASSUME NEW j \in DOMAIN lines
          PROVE  /\ ls[j] \in LineSet /\ ls[j].b = lines[j].b /\ ls[j].base = lines[j].base
                 /\ ls[j].asOf \in {lines[j].asOf, f.asOf} /\ ls[j].through \in {lines[j].through, was.through}
      <3>1. lines[j] \in LineSet
        BY LineTyped
      <3> QED
        BY <1>4, <3>1
    <2>2. ls \in [DOMAIN lines -> LineSet]
      BY <2>1
    <2> HIDE DEF ls, f, was
    <2> QED
      BY <1>1, <1>3, <2>1, <2>2, RemarkedBy
  <1> QED
    BY <1>1, <1>2, <1>5, CopiedIs

LEMMA MovedMarks ==
    ASSUME Typed, NEW k, NEW current \in Nat, current <= Len(log), Remark(MarkMoved(k, current))
    PROVE  Remarked(lines') /\ Changed(lines') /\ nextK' = nextK
  <1> DEFINE ls == [j \in DOMAIN lines |->
                      [lines[j] EXCEPT !.cause = "moved", !.through = IF j = k THEN current ELSE 0]]
  <1>1. lines' = ls /\ Copied(lines') /\ nextK' = nextK
    BY DEF MarkMoved, Remark
  <1>2. ASSUME NEW j \in DOMAIN lines
        PROVE  /\ ls[j] \in LineSet /\ ls[j].b = lines[j].b /\ ls[j].base = lines[j].base
               /\ ls[j].asOf = lines[j].asOf /\ ls[j].through <= Len(log)
    <2>1. PICK x \in Nat : /\ x <= Len(log)
                           /\ ls[j] = [lines[j] EXCEPT !.cause = "moved", !.through = x]
      <3>1. CASE j = k
        BY <3>1
      <3>2. CASE j # k
        <4>1. ls[j] = [lines[j] EXCEPT !.cause = "moved", !.through = 0]
          BY <3>2
        <4>2. 0 \in Nat /\ 0 <= Len(log)
          BY Numbers
        <4> QED
          BY <4>1, <4>2
      <3> QED
        BY <3>1, <3>2
    <2>2. lines[j] \in LineSet
      BY LineTyped
    <2> HIDE DEF ls
    <2> QED
      BY <2>1, <2>2 DEF LineSet, Causes
  <1>3. Remarked(ls)
    <2>1. ls \in [DOMAIN lines -> LineSet]
      BY <1>2
    <2> HIDE DEF ls
    <2> QED
      BY <1>2, <2>1, RemarkedBy
  <1> QED
    BY <1>1, <1>3, CopiedIs

LEMMA SendLineMarks ==
    ASSUME Typed, SendLine
    PROVE  /\ Remarked(lines') /\ Changed(lines') /\ nextK' = nextK
           /\ thread["drain"] \in ReadSet /\ Of(thread["drain"].line, N, Len(log))
  <1> DEFINE d == thread["drain"]
             was == d.line
             ls == [k \in DOMAIN lines |->
                      IF k \in {d.k}
                      THEN [lines[k] EXCEPT !.sent = TRUE, !.cause = was.cause, !.through = was.through]
                      ELSE lines[k]]
  <1>1. d \in ReadSet /\ Of(was, N, Len(log)) /\ was.through <= Len(log)
    BY Shapes DEF SendLine, Typed, IsHand, HasLine, Threads
  <1>2. lines' = ls /\ Copied(lines') /\ nextK' = nextK
    BY DEF SendLine, Remark, Set
  <1>3. was \in LineSet
    BY <1>1 DEF ReadSet
  <1>4. ASSUME NEW l \in LineSet
        PROVE  LET m == [l EXCEPT !.sent = TRUE, !.cause = was.cause, !.through = was.through]
               IN  m \in LineSet /\ m.b = l.b /\ m.base = l.base /\ m.asOf = l.asOf
                   /\ m.through = was.through
    <2> HIDE DEF was
    <2> QED
      BY <1>3 DEF LineSet
  <1>5. Remarked(ls)
    <2>1. ASSUME NEW j \in DOMAIN lines
          PROVE  /\ ls[j] \in LineSet /\ ls[j].b = lines[j].b /\ ls[j].base = lines[j].base
                 /\ ls[j].asOf \in {lines[j].asOf, lines[j].asOf} /\ ls[j].through \in {lines[j].through, was.through}
      <3>1. lines[j] \in LineSet
        BY LineTyped
      <3> QED
        BY <1>4, <3>1
    <2>2. ls \in [DOMAIN lines -> LineSet]
      BY <2>1
    <2> HIDE DEF ls, was
    <2> QED
      BY <1>1, <2>1, <2>2, RemarkedBy
  <1> QED
    BY <1>1, <1>2, <1>5, CopiedIs

LEMMA SendFromHeadMarks ==
    ASSUME Typed, NEW k, SendFromHead(k)
    PROVE  /\ Remarked(lines') /\ Changed(lines') /\ nextK' = nextK
           /\ \/ walk' = [walk EXCEPT !.sending = TRUE]
              \/ walk' = [after |-> k, sending |-> FALSE, stopped |-> TRUE]
           /\ thread' = [thread EXCEPT !["drain"] = [pc |-> "walk"]]
  <1>1. CASE UNCHANGED <<lines, disk, nextK, count>> /\ Send
    BY <1>1, SameRemarked DEF Changed, Send, Typed
  <1>2. CASE Stop(k) /\ Remark(Set({k}, LAMBDA l : [l EXCEPT !.cause = "refused"]))
    <2>1. /\ lines' = [j \in DOMAIN lines |-> IF j \in {k} THEN [lines[j] EXCEPT !.cause = "refused"]
                                              ELSE lines[j]]
          /\ Copied(lines') /\ nextK' = nextK
      BY <1>2 DEF Remark, Set
    <2>2. Remarked(lines')
      BY <2>1, CauseRemarked DEF Causes
    <2> QED
      BY <1>2, <2>1, <2>2, CopiedIs DEF Stop
  <1> QED
    BY <1>1, <1>2 DEF SendFromHead

\* A failed dial's marks, the call's or the drain's.
LEMMA FailedMarks ==
    ASSUME Typed, NEW k, NEW c \in Causes,
           Remark(Set({k}, LAMBDA l : [l EXCEPT !.sent = TRUE, !.cause = c]))
    PROVE  Remarked(lines') /\ Changed(lines') /\ nextK' = nextK
  <1>1. /\ lines' = [j \in DOMAIN lines |->
                       IF j \in {k} THEN [lines[j] EXCEPT !.sent = TRUE, !.cause = c] ELSE lines[j]]
        /\ Copied(lines') /\ nextK' = nextK
    BY DEF Remark, Set
  <1>2. Remarked(lines')
    BY <1>1, CauseRemarked
  <1> QED
    BY <1>1, <1>2, CopiedIs

\* A send the person asks for.
LEMMA ResolveSendMarks ==
    ASSUME Typed, NEW k \in DOMAIN lines, ResolveSend(k)
    PROVE  Remarked(lines') /\ Changed(lines') /\ nextK' = nextK
  <1> DEFINE waiting == {j \in DOMAIN lines : AwaitsAct(lines[j])}
             judged == {j \in waiting : lines[j].cause = "moved" /\ lines[j].through > 0}
             through == IF judged = {} THEN 0 ELSE lines[Lowest(judged)].through
             base(j) == IF lines[j].base < through THEN through ELSE lines[j].base
             ls == [j \in DOMAIN lines |->
                      IF j \in waiting
                      THEN [lines[j] EXCEPT !.cause = "holding", !.through = 0, !.base = base(j)]
                      ELSE lines[j]]
  <1>1. lines' = ls /\ nextK' = nextK /\ (disk' = ls \/ disk' = disk)
    BY DEF ResolveSend, Set
  <1>2. count' \in [{"other", "act", "fault"} -> Nat]
    <2>1. count' = [count EXCEPT !["act"] = @ + 1]
          \/ count' = [count EXCEPT !["act"] = @ + 1, !["fault"] = @ + 1]
      BY DEF ResolveSend
    <2>2. count \in [{"other", "act", "fault"} -> Nat]
      BY DEF Typed
    <2> QED
      BY <2>1, <2>2
  <1>3. through \in Nat /\ through <= Len(log)
    <2>1. CASE judged = {}
      BY <2>1, Numbers
    <2>2. CASE judged # {}
      <3>1. judged \in SUBSET Nat
        BY LineTyped
      <3>2. Lowest(judged) \in judged
        <4> HIDE DEF judged
        <4> QED
          BY <2>2, <3>1, LowestIs
      <3> QED
        BY <2>2, <3>2, LineTyped
    <2> QED
      BY <2>1, <2>2
  <1>4. ASSUME NEW l \in LineSet, NEW x \in Nat
        PROVE  LET m == [l EXCEPT !.cause = "holding", !.through = 0, !.base = x]
               IN  m \in LineSet /\ m.b = l.b /\ m.base = x /\ m.asOf = l.asOf /\ m.through = 0
    BY DEF LineSet, Causes
  <1>5. \A j \in DOMAIN lines :
            base(j) \in Nat /\ lines[j].base <= base(j) /\ base(j) <= Len(log)
    <2> HIDE DEF through
    <2> QED
      BY <1>3, LineTyped
  <1>6. Remarked(ls)
    <2>1. ASSUME NEW j \in DOMAIN lines
          PROVE  /\ ls[j] \in LineSet /\ ls[j].b = lines[j].b /\ ls[j].base \in {lines[j].base, base(j)}
                 /\ ls[j].asOf = lines[j].asOf /\ ls[j].through \in {lines[j].through, 0}
      <3>1. lines[j] \in LineSet
        BY LineTyped
      <3> HIDE DEF base, waiting
      <3> QED
        BY <1>4, <1>5, <3>1
    <2>2. ls \in [DOMAIN lines -> LineSet]
      BY <2>1
    <2> HIDE DEF ls, base
    <2> QED
      BY <1>5, <2>1, <2>2, Numbers, RemarkedBy
  <1> QED
    BY <1>1, <1>2, <1>6 DEF Changed

\* The queue with a line out of it, the bases behind raised past at.
LEMMA DoneIs ==
    ASSUME Typed, NEW k \in Nat, NEW at \in Nat, at <= Len(log), NEW as \in Fates,
           DoneLine(k, at, as)
    PROVE  /\ IsQueue(lines', N, Len(log), nextK) /\ (disk' = lines' \/ disk' = disk)
           /\ nextK' = nextK /\ count' \in [{"other", "act", "fault"} -> Nat]
           /\ k \notin DOMAIN lines => UNCHANGED <<lines, disk, fate>>
           /\ DOMAIN lines' = DOMAIN lines \ {k}
           /\ \A j \in DOMAIN lines' :
                 /\ lines'[j].b = lines[j].b /\ lines[j].base <= lines'[j].base
                 /\ k \in DOMAIN lines /\ k < j => at <= lines'[j].base
           /\ k \in DOMAIN lines =>
                 fate' = [fate EXCEPT ![lines[k].b] = IF @ = "again" THEN @ ELSE as]
           /\ fate' \in [0 .. MaxBursts -> Fates]
  <1> DEFINE raised(j) == IF j > k /\ lines[j].base < at THEN [lines[j] EXCEPT !.base = at] ELSE lines[j]
  <1>1. CASE k \notin DOMAIN lines
    <2>1. UNCHANGED <<lines, disk, nextK, fate, count>>
      BY <1>1 DEF DoneLine, store
    <2>2. /\ IsQueue(lines, N, Len(log), nextK) /\ count \in [{"other", "act", "fault"} -> Nat]
          /\ fate \in [0 .. MaxBursts -> Fates]
      BY DEF Typed
    <2>3. \A j \in DOMAIN lines : lines[j].base <= lines[j].base
      BY LineTyped
    <2> QED
      BY <1>1, <2>1, <2>2, <2>3
  <1>2. CASE k \in DOMAIN lines
    <2>1. /\ lines' = [j \in DOMAIN lines \ {k} |-> raised(j)] /\ Copied(lines') /\ nextK' = nextK
          /\ fate' = [fate EXCEPT ![lines[k].b] = IF @ = "again" THEN @ ELSE as]
      BY <1>2 DEF DoneLine, Settled
    <2>2. ASSUME NEW l \in LineSet
          PROVE  LET m == [l EXCEPT !.base = at]
                 IN  m \in LineSet /\ m.b = l.b /\ m.base = at /\ m.asOf = l.asOf /\ m.through = l.through
      BY DEF LineSet
    <2>3. ASSUME NEW j \in DOMAIN lines
          PROVE  /\ raised(j) \in LineSet /\ raised(j).b = lines[j].b
                 /\ raised(j).asOf = lines[j].asOf /\ raised(j).through = lines[j].through
                 /\ lines[j].base <= raised(j).base /\ raised(j).base <= Len(log)
                 /\ k < j => at <= raised(j).base
      <3>1. CASE j > k /\ lines[j].base < at
        <4>1. raised(j) = [lines[j] EXCEPT !.base = at]
          BY <3>1
        <4> HIDE DEF raised
        <4> QED
          BY <2>2, <3>1, <4>1, LineTyped
      <3>2. CASE ~(j > k /\ lines[j].base < at)
        <4>1. raised(j) = lines[j]
          BY <3>2
        <4> HIDE DEF raised
        <4> QED
          BY <3>2, <4>1, LineTyped
      <3> QED
        BY <3>1, <3>2
    <2>4. /\ DOMAIN lines' = DOMAIN lines \ {k} /\ lines' \in [DOMAIN lines' -> LineSet]
          /\ \A j \in DOMAIN lines' : lines'[j] = raised(j)
      <3> HIDE DEF raised
      <3> QED
        BY <2>1, <2>3
    <2>5. IsQueue(lines', N, Len(log), nextK)
      <3> HIDE DEF raised
      <3> QED
        BY <2>3, <2>4, LineTyped DEF IsQueue, Of
    <2>6. fate' \in [0 .. MaxBursts -> Fates]
      BY <2>1 DEF Typed
    <2>7. Changed(lines')
      BY <2>1, CopiedIs
    <2> HIDE DEF raised
    <2> QED
      BY <1>2, <2>1, <2>3, <2>4, <2>5, <2>6, <2>7 DEF Changed
  <1> QED
    BY <1>1, <1>2

\* A queue stands in a longer order of ordinals and of bursts.
LEMMA QueueWider ==
    ASSUME NEW q, NEW n \in Nat, NEW m \in Nat, NEW len \in Nat, NEW next \in Nat, NEW more \in Nat,
           IsQueue(q, n, len, next), n <= m, next <= more
    PROVE  IsQueue(q, m, len, more)
  BY DEF IsQueue, Of

\* A line entered at the end.
LEMMA EnterIs ==
    ASSUME Typed, NEW f \in FrameSet, NEW n \in Nat, N <= n, Of(f, n, Len(log)),
           NEW base \in Nat, base <= Len(log), NEW cause \in Causes, NEW sent \in BOOLEAN,
           NEW through \in Nat, through <= Len(log),
           EnterLine(f, base, cause, sent, through)
    PROVE  /\ nextK' = nextK + 1 /\ nextK' \in Nat \ {0}
           /\ IsQueue(lines', n, Len(log), nextK') /\ IsQueue(disk', n, Len(log), nextK')
           /\ (disk' = lines' \/ disk' = disk)
           /\ count' \in [{"other", "act", "fault"} -> Nat]
           /\ DOMAIN lines' = DOMAIN lines \cup {nextK} /\ nextK \notin DOMAIN lines
           /\ \A k \in DOMAIN lines : lines'[k] = lines[k]
           /\ lines'[nextK].b = f.b /\ lines'[nextK].base = base
  <1> DEFINE l == [b |-> f.b, op |-> f.op, first |-> f.first, asOf |-> f.asOf,
                   base |-> base, cause |-> cause, sent |-> sent, through |-> through]
  <1>1. /\ lines' = [k \in DOMAIN lines \cup {nextK} |-> IF k = nextK THEN l ELSE lines[k]]
        /\ nextK' = nextK + 1 /\ Copied(lines')
    BY DEF EnterLine
  <1>2. /\ l \in LineSet /\ l.b = f.b /\ l.base = base /\ l.asOf = f.asOf /\ l.through = through
    BY DEF LineSet, FrameSet
  <1>3. nextK \in Nat /\ nextK \notin DOMAIN lines
    BY LineTyped DEF Typed
  <1>4. /\ lines' \in [DOMAIN lines' -> LineSet] /\ DOMAIN lines' = DOMAIN lines \cup {nextK}
        /\ \A k \in DOMAIN lines : lines'[k] = lines[k]
        /\ lines'[nextK] = l
    <2> HIDE DEF l
    <2> QED
      BY <1>1, <1>2, <1>3, LineTyped
  <1>5. IsQueue(lines', n, Len(log), nextK')
    <2>1. DOMAIN lines' \subseteq 1 .. (nextK' - 1)
      <3>1. \A k \in DOMAIN lines : k \in 1 .. (nextK - 1)
        BY LineTyped
      <3>2. nextK \in Nat \ {0}
        BY DEF Typed
      <3> QED
        BY <1>1, <1>4, <3>1, <3>2
    <2>2. ASSUME NEW k \in DOMAIN lines'
          PROVE  Of(lines'[k], n, Len(log)) /\ lines'[k].base <= Len(log) /\ lines'[k].through <= Len(log)
      <3>1. CASE k = nextK
        <4> HIDE DEF l
        <4> QED
          BY <1>2, <1>4, <3>1 DEF Of
      <3>2. CASE k \in DOMAIN lines
        <4>1. lines'[k] = lines[k] /\ lines[k].b \in 1 .. N /\ N \in Nat
          BY <1>4, <3>2, LineTyped, Numbers
        <4> QED
          BY <4>1, <3>2, LineTyped DEF Of
      <3> QED
        BY <1>4, <3>1, <3>2
    <2> QED
      BY <1>4, <2>1, <2>2 DEF IsQueue
  <1>6. IsQueue(disk, n, Len(log), nextK')
    <2>0. IsQueue(disk, N, Len(log), nextK) /\ nextK \in Nat
      BY DEF Typed
    <2>1. nextK <= nextK' /\ nextK' \in Nat
      BY <1>1, <1>3, <2>0
    <2> QED
      BY <1>3, <2>0, <2>1, Numbers, QueueWider
  <1>7. Changed(lines')
    BY <1>1, CopiedIs
  <1> HIDE DEF l
  <1> QED
    BY <1>1, <1>2, <1>3, <1>4, <1>5, <1>6, <1>7 DEF Changed

-----------------------------------------------------------------------------
(* The types are kept, by the steps of the queue *)

HandsTyped(th) ==
    /\ th = [u \in Threads |-> th[u]] /\ \A u \in Threads : IsHand(th[u], N, Len(log))
    /\ th["call"].pc \in {"idle", "dial", "answer", "shift", "shifted"}

LEMMA HandTyped ==
    ASSUME Typed, NEW t \in Threads, NEW h, IsHand(h, N, Len(log)), NEW th,
           th = [thread EXCEPT ![t] = h],
           t = "call" => h.pc \in {"idle", "dial", "answer", "shift", "shifted"}
    PROVE  HandsTyped(th)
  <1>1. th = [u \in Threads |-> th[u]] /\ \A u \in Threads : IsHand(th[u], N, Len(log))
    BY ThreadTyped DEF Typed
  <1>2. th["call"].pc \in {"idle", "dial", "answer", "shift", "shifted"}
    BY DEF Typed, Threads
  <1> QED
    BY <1>1, <1>2 DEF HandsTyped

LEMMA HandsAre ==
    ASSUME Typed
    PROVE  /\ HandsTyped(thread)
           /\ \A t \in Threads : /\ IsHand(thread[t], N, Len(log)) /\ thread[t] \in ThreadSet
           /\ "call" \in Threads /\ "drain" \in Threads
  BY DEF Typed, HandsTyped, IsHand, Threads

LEMMA StepTyped ==
    ASSUME Typed, UNCHANGED <<image, log, net, burst>>,
           nextK' \in Nat \ {0}, IsQueue(lines', N, Len(log), nextK'),
           IsQueue(disk', N, Len(log), nextK'),
           acked' \subseteq DOMAIN log, position' \in 0 .. Len(log),
           HandsTyped(thread'), walk' \in WalkSet,
           text' \in Seq(UnitSet), seen' \in -1 .. Len(log),
           fate' \in [0 .. MaxBursts -> Fates],
           count' \in [{"other", "act", "fault"} -> Nat]
    PROVE  Typed'
  <1>1. N' = N /\ Len(log') = Len(log)
    BY DEF N
  <1> QED
    BY <1>1 DEF Typed, HandsTyped

\* A step that re-marks lines at most.
LEMMA RemarkTyped ==
    ASSUME Typed, UNCHANGED <<image, log, net, burst, acked, position, text, seen, fate>>,
           Remarked(lines'), Changed(lines'), nextK' = nextK,
           HandsTyped(thread'), walk' \in WalkSet
    PROVE  Typed'
  <1>1. IsQueue(lines', N, Len(log), nextK) /\ IsQueue(disk', N, Len(log), nextK)
        /\ count' \in [{"other", "act", "fault"} -> Nat]
    BY RemarkedQueue DEF Changed, Typed
  <1>2. /\ nextK \in Nat \ {0} /\ acked \subseteq DOMAIN log /\ position \in 0 .. Len(log)
        /\ text \in Seq(UnitSet) /\ seen \in -1 .. Len(log) /\ fate \in [0 .. MaxBursts -> Fates]
    BY DEF Typed
  <1> QED
    BY <1>1, <1>2, StepTyped

LEMMA SameQueue ==
    ASSUME Typed, UNCHANGED <<lines, disk, nextK, count>>
    PROVE  Remarked(lines') /\ Changed(lines') /\ nextK' = nextK
  BY SameRemarked DEF Changed, Typed

LEMMA ShiftedFirstInt ==
    ASSUME Typed, NEW b
    PROVE  ShiftedFirst(b) \in Int
  <1> DEFINE t == burst[b]
             before == IF t.before = NoUnit THEN {0} ELSE At(t.before)
             after == IF t.after = NoUnit THEN {Len(image) + 1} ELSE At(t.after)
             were == IF t.op = "insert" THEN 0 ELSE 1
             whole == {p \in before : /\ p + were + 1 \in after
                                      /\ t.op = "delete" => image[p + 1] = t.unit}
  <1>1. before \in SUBSET Nat
    BY DEF At, Typed
  <1>2. whole # {} => (CHOOSE p \in whole : TRUE) \in whole
    <2> HIDE DEF whole
    <2> QED
      OBVIOUS
  <1>3. whole \subseteq before
    OBVIOUS
  <1> HIDE DEF before, whole, after, were
  <1>4. ShiftedFirst(b) = IF t.anchored /\ whole # {} THEN 1 + CHOOSE p \in whole : TRUE ELSE 0
    BY DEF ShiftedFirst, before, whole, after, were
  <1>5. PICK c : c = CHOOSE p \in whole : TRUE
    OBVIOUS
  <1>6. ASSUME whole # {} PROVE c \in Int
    <2>1. c \in whole
      BY <1>2, <1>5, <1>6
    <2> QED
      BY <1>1, <1>3, <2>1
  <1>7. ShiftedFirst(b) = IF t.anchored /\ whole # {} THEN 1 + c ELSE 0
    BY <1>4, <1>5
  <1> QED
    BY <1>6, <1>7

LEMMA ShiftAndSendTyped ==
    ASSUME Typed, NEW t \in Threads, ShiftAndSend(t)
    PROVE  Typed'
  <1> DEFINE k == thread[t].k
             first == IF k \in DOMAIN lines THEN ShiftedFirst(lines[k].b) ELSE 0
  <1>1. /\ thread[t] \in ShiftSet /\ thread[t].current <= Len(log)
        /\ UNCHANGED <<image, log, net, burst, acked, position, text, seen, fate>>
    BY HandsAre, Shapes DEF ShiftAndSend, IsHand, board, page
  <1>2. CASE /\ first # 0
             /\ thread' = [thread EXCEPT ![t] =
                   [pc |-> "shifted", k |-> k, line |-> lines[k],
                    frame |-> [Frame(lines[k]) EXCEPT !.first = first, !.asOf = Len(log)]]]
             /\ UNCHANGED <<lines, disk, nextK, walk, count>>
    <2>1. k \in DOMAIN lines /\ first \in Int /\ k \in Nat
      BY <1>1, <1>2, ShiftedFirstInt DEF ShiftSet
    <2> DEFINE f == [Frame(lines[k]) EXCEPT !.first = first, !.asOf = Len(log)]
               h == [pc |-> "shifted", k |-> k, line |-> lines[k], frame |-> f]
    <2>2. f \in FrameSet /\ f.b = lines[k].b /\ f.asOf = Len(log)
      <3> HIDE DEF k, first
      <3>1. lines[k] \in LineSet /\ Len(log) \in Int
        BY <2>1, LineTyped, Numbers
      <3>2. PICK g \in FrameSet : g = Frame(lines[k])
        BY <2>1, LineTyped
      <3>3. g.b = lines[k].b
        BY <3>2 DEF Frame
      <3>4. PICK x \in Int, len \in Int : x = first /\ len = Len(log)
        BY <2>1, <3>1
      <3>5. f = [g EXCEPT !.first = x, !.asOf = len]
        BY <3>2, <3>4
      <3>6. /\ [g EXCEPT !.first = x, !.asOf = len] \in FrameSet
            /\ [g EXCEPT !.first = x, !.asOf = len].b = g.b
            /\ [g EXCEPT !.first = x, !.asOf = len].asOf = len
        BY DEF FrameSet
      <3> HIDE DEF f
      <3> QED
        BY <3>3, <3>4, <3>5, <3>6
    <2>3. IsHand(h, N, Len(log))
      <3>1. lines[k] \in LineSet /\ Of(lines[k], N, Len(log)) /\ lines[k].base <= Len(log)
            /\ lines[k].through <= Len(log) /\ lines[k].b \in 1 .. N
        BY <2>1, LineTyped
      <3>2. Of(f, N, Len(log))
        BY <2>2, <3>1, Numbers DEF Of
      <3> HIDE DEF k, f
      <3> QED
        BY <2>1, <2>2, <3>1, <3>2 DEF IsHand, ThreadSet, ShiftedSet, HasFrame, HasLine
    <2>4. HandsTyped(thread')
      <3> HIDE DEF k, f, first
      <3>1. h.pc = "shifted"
        OBVIOUS
      <3>2. thread' = [thread EXCEPT ![t] = h]
        BY <1>2 DEF f
      <3> HIDE DEF h
      <3> QED
        BY <2>3, <3>1, <3>2, HandTyped
    <2> QED
      BY <1>1, <1>2, <2>4, RemarkTyped, SameQueue DEF Typed
  <1>3. CASE /\ Remark(MarkMoved(k, thread[t].current))
             /\ thread' = [thread EXCEPT ![t] = IF t = "call" THEN Idle ELSE [pc |-> "walk"]]
             /\ walk' = IF t = "call" THEN walk
                        ELSE [after |-> k, sending |-> FALSE, stopped |-> TRUE]
    <2>1. Remarked(lines') /\ Changed(lines') /\ nextK' = nextK
      BY <1>1, <1>3, MovedMarks DEF ShiftSet
    <2>2. HandsTyped(thread')
      <3>1. PICK h : h = (IF t = "call" THEN Idle ELSE [pc |-> "walk"])
        OBVIOUS
      <3>2. IsHand(h, N, Len(log)) /\ (t = "call" => h.pc = "idle")
        BY <3>1, RestIs DEF Idle
      <3> QED
        BY <1>3, <3>1, <3>2, HandTyped
    <2>3. walk' \in WalkSet
      BY <1>1, <1>3 DEF WalkSet, ShiftSet, Typed
    <2> QED
      BY <1>1, <2>1, <2>2, <2>3, RemarkTyped
  <1> QED
    BY <1>2, <1>3 DEF ShiftAndSend

LEMMA DialShiftedTyped ==
    ASSUME Typed, NEW t \in Threads, DialShifted(t)
    PROVE  Typed'
  <1>1. /\ Remarked(lines') /\ Changed(lines') /\ nextK' = nextK
        /\ thread[t] \in ShiftedSet /\ Of(thread[t].frame, N, Len(log))
    BY DialShiftedMarks
  <1>2. /\ UNCHANGED <<image, log, net, burst, acked, position, text, seen, fate, walk>>
        /\ thread' = [thread EXCEPT ![t] = Dial(thread[t].k, thread[t].frame, TRUE, 0)]
    BY DEF DialShifted, board, page
  <1>3. IsHand(Dial(thread[t].k, thread[t].frame, TRUE, 0), N, Len(log))
    <2>1. thread[t].k \in Nat /\ thread[t].frame \in FrameSet /\ 0 \in Nat /\ 0 <= Len(log)
      BY <1>1, Numbers DEF ShiftedSet
    <2> QED
      BY <1>1, <2>1, DialIs
  <1>4. Dial(thread[t].k, thread[t].frame, TRUE, 0).pc = "dial"
    BY DEF Dial
  <1>5. HandsTyped(thread')
    BY <1>2, <1>3, <1>4, HandTyped
  <1> QED
    BY <1>1, <1>2, <1>5, RemarkTyped DEF Typed

LEMMA SendLineTyped ==
    ASSUME Typed, SendLine
    PROVE  Typed'
  <1> DEFINE d == thread["drain"]
  <1>1. /\ Remarked(lines') /\ Changed(lines') /\ nextK' = nextK
        /\ d \in ReadSet /\ Of(d.line, N, Len(log))
    BY SendLineMarks
  <1>2. /\ UNCHANGED <<image, log, net, burst, acked, position, text, seen, fate, walk>>
        /\ thread' = [thread EXCEPT !["drain"] = Dial(d.k, Frame(d.line), FALSE, 0)]
    BY DEF SendLine, board, page
  <1>3. Frame(d.line) \in FrameSet /\ Of(Frame(d.line), N, Len(log))
    BY <1>1 DEF ReadSet, LineSet, FrameSet, Frame, Of
  <1>4. IsHand(Dial(d.k, Frame(d.line), FALSE, 0), N, Len(log))
    <2>1. d.k \in Nat /\ 0 \in Nat /\ 0 <= Len(log)
      BY <1>1, Numbers DEF ReadSet
    <2> QED
      BY <1>3, <2>1, DialIs
  <1>5. HandsTyped(thread')
    BY <1>2, <1>4, HandTyped, HandsAre
  <1> QED
    BY <1>1, <1>2, <1>5, RemarkTyped DEF Typed

LEMMA DrainTyped ==
    ASSUME Typed, Drain
    PROVE  Typed'
  <1>1. /\ UNCHANGED <<image, log, net, burst, acked, position, text, seen, fate, lines, disk, nextK, count>>
        /\ thread' = [thread EXCEPT !["drain"] = [pc |-> "walk"]] /\ walk' = NoTurn
    BY DEF Drain, board, page, store
  <1>2. HandsTyped(thread')
    BY <1>1, HandTyped, HandsAre, RestIs
  <1> QED
    BY <1>1, <1>2, RemarkTyped, SameQueue DEF WalkSet, NoTurn

\* What the walk takes up next.
LEMMA NextLine ==
    ASSUME Typed, {k \in DOMAIN lines : k > walk.after} # {}
    PROVE  LET k == Lowest({j \in DOMAIN lines : j > walk.after})
           IN  /\ k \in DOMAIN lines /\ k > walk.after
               /\ \A j \in DOMAIN lines : j > walk.after => k <= j
  <1> DEFINE rest == {k \in DOMAIN lines : k > walk.after}
  <1>1. rest \in SUBSET Nat
    BY LineTyped
  <1>2. Lowest(rest) \in rest /\ \A j \in rest : Lowest(rest) <= j
    <2>1. rest # {}
      OBVIOUS
    <2> HIDE DEF rest
    <2> QED
      BY <1>1, <2>1, LowestIs
  <1> QED
    BY <1>2

LEMMA WalkTyped ==
    ASSUME Typed, Walk
    PROVE  Typed'
  <1> DEFINE rest == {k \in DOMAIN lines : k > walk.after}
             k == Lowest(rest)
             line == lines[k]
  <1>1. UNCHANGED <<image, log, net, burst, acked, position, text, seen, fate>>
    BY DEF Walk, board, page
  <1>2. walk \in WalkSet
    BY DEF Typed
  <1>3. rest # {} =>
          /\ k \in DOMAIN lines /\ k \in Nat /\ line \in LineSet /\ Of(line, N, Len(log))
          /\ line.base <= Len(log) /\ line.through <= Len(log)
    BY NextLine, LineTyped
  <1>4. CASE /\ thread' = [thread EXCEPT !["drain"] = Idle] /\ walk' = NoTurn
             /\ UNCHANGED <<lines, disk, nextK, count>>
    <2>1. HandsTyped(thread')
      BY <1>4, HandTyped, HandsAre, RestIs
    <2> QED
      BY <1>1, <1>4, <2>1, RemarkTyped, SameQueue DEF WalkSet, NoTurn
  <1>5. CASE rest # {} /\ Stop(k) /\ UNCHANGED <<lines, disk, nextK, count>>
    <2>1. HandsTyped(thread')
      BY <1>5, HandTyped, HandsAre, RestIs DEF Stop
    <2>2. walk' \in WalkSet
      BY <1>3, <1>5 DEF Stop, WalkSet
    <2> QED
      BY <1>1, <1>5, <2>1, <2>2, RemarkTyped, SameQueue
  <1>6. CASE /\ rest # {}
             /\ thread' = [thread EXCEPT !["drain"] = [pc |-> "read", k |-> k, line |-> line]]
             /\ UNCHANGED <<walk, lines, disk, nextK, count>>
    <2>1. IsHand([pc |-> "read", k |-> k, line |-> line], N, Len(log))
      <3> HIDE DEF k, line
      <3> QED
        BY <1>3, <1>6 DEF IsHand, ThreadSet, ReadSet, HasFrame, HasLine
    <2>2. HandsTyped(thread')
      <3> HIDE DEF k, line
      <3> QED
        BY <1>6, <2>1, HandTyped, HandsAre
    <2> QED
      BY <1>1, <1>2, <1>6, <2>2, RemarkTyped, SameQueue
  <1>7. CASE rest # {} /\ SendFromHead(k)
    <2>1. /\ Remarked(lines') /\ Changed(lines') /\ nextK' = nextK
          /\ \/ walk' = [walk EXCEPT !.sending = TRUE]
             \/ walk' = [after |-> k, sending |-> FALSE, stopped |-> TRUE]
          /\ thread' = [thread EXCEPT !["drain"] = [pc |-> "walk"]]
      BY <1>7, SendFromHeadMarks
    <2>2. walk' \in WalkSet
      <3>1. k \in Nat
        BY <1>3, <1>7
      <3> HIDE DEF k
      <3> QED
        <4>1. [walk EXCEPT !.sending = TRUE] \in WalkSet
          BY <1>2 DEF WalkSet
        <4>2. [after |-> k, sending |-> FALSE, stopped |-> TRUE] \in WalkSet
          BY <3>1 DEF WalkSet
        <4> QED
          BY <2>1, <4>1, <4>2
    <2>3. HandsTyped(thread')
      BY <2>1, HandTyped, HandsAre, RestIs
    <2> QED
      BY <1>1, <2>1, <2>2, <2>3, RemarkTyped
  <1>8. CASE /\ rest # {} /\ walk' = [walk EXCEPT !.after = k]
             /\ thread' = [thread EXCEPT !["drain"] = [pc |-> "send", k |-> k, line |-> line]]
             /\ UNCHANGED <<lines, disk, nextK, count>>
    <2>1. IsHand([pc |-> "send", k |-> k, line |-> line], N, Len(log))
      <3> HIDE DEF k, line
      <3> QED
        BY <1>3, <1>8 DEF IsHand, ThreadSet, ReadSet, HasFrame, HasLine
    <2>2. HandsTyped(thread') /\ walk' \in WalkSet
      <3> HIDE DEF k, line
      <3> QED
        BY <1>2, <1>3, <1>8, <2>1, HandTyped, HandsAre DEF WalkSet
    <2> QED
      BY <1>1, <1>8, <2>2, RemarkTyped, SameQueue
  <1> QED
    BY <1>4, <1>5, <1>6, <1>7, <1>8 DEF Walk

LEMMA SendFromHeadTyped ==
    ASSUME Typed, NEW k \in Nat, SendFromHead(k),
           UNCHANGED <<image, log, net, burst, acked, position, text, seen, fate>>
    PROVE  Typed'
  <1>1. /\ Remarked(lines') /\ Changed(lines') /\ nextK' = nextK
        /\ \/ walk' = [walk EXCEPT !.sending = TRUE]
           \/ walk' = [after |-> k, sending |-> FALSE, stopped |-> TRUE]
        /\ thread' = [thread EXCEPT !["drain"] = [pc |-> "walk"]]
    BY SendFromHeadMarks
  <1>2. walk' \in WalkSet
    <2>1. [walk EXCEPT !.sending = TRUE] \in WalkSet
      BY DEF Typed, WalkSet
    <2>2. [after |-> k, sending |-> FALSE, stopped |-> TRUE] \in WalkSet
      BY DEF WalkSet
    <2> QED
      BY <1>1, <2>1, <2>2
  <1>3. HandsTyped(thread')
    BY <1>1, HandTyped, HandsAre, RestIs
  <1> QED
    BY <1>1, <1>2, <1>3, RemarkTyped

LEMMA StopTyped ==
    ASSUME Typed, NEW k \in Nat, Stop(k), UNCHANGED <<lines, disk, nextK>>,
           count' \in [{"other", "act", "fault"} -> Nat],
           UNCHANGED <<image, log, net, burst, acked, position, text, seen, fate>>
    PROVE  Typed'
  <1>1. HandsTyped(thread')
    BY HandTyped, HandsAre, RestIs DEF Stop
  <1>2. walk' \in WalkSet
    BY DEF Stop, WalkSet
  <1>3. Remarked(lines') /\ Changed(lines')
    BY SameRemarked DEF Changed
  <1> QED
    BY <1>1, <1>2, <1>3, RemarkTyped

LEMMA NoteAckIs ==
    ASSUME Typed, NEW at \in Nat, at \in 1 .. Len(log), NoteAck(at)
    PROVE  /\ acked' \subseteq DOMAIN log /\ position' \in 0 .. Len(log)
           /\ position <= position' /\ at <= position' /\ at \in acked' /\ acked' = acked \cup {at}
  <1>1. acked \subseteq DOMAIN log /\ position \in 0 .. Len(log)
    BY DEF Typed
  <1>2. acked' = acked \cup {at} /\ position' = IF at > position THEN at ELSE position
    BY DEF NoteAck
  <1>3. Len(log) \in Nat /\ DOMAIN log = 1 .. Len(log)
    BY Numbers
  <1>4. position' \in 0 .. Len(log) /\ position <= position' /\ at <= position'
    BY <1>1, <1>2, <1>3
  <1> QED
    BY <1>1, <1>2, <1>3, <1>4

\* A line out of the queue: acked, read as landed, or given back.
LEMMA DoneTyped ==
    ASSUME Typed, NEW k \in Nat, NEW at \in Nat, at <= Len(log), NEW as \in Fates,
           DoneLine(k, at, as), UNCHANGED <<image, log, net, burst>>,
           acked' \subseteq DOMAIN log, position' \in 0 .. Len(log),
           HandsTyped(thread'), walk' \in WalkSet,
           text' \in Seq(UnitSet), seen' \in -1 .. Len(log)
    PROVE  Typed'
  <1>1. /\ IsQueue(lines', N, Len(log), nextK) /\ (disk' = lines' \/ disk' = disk)
        /\ nextK' = nextK /\ count' \in [{"other", "act", "fault"} -> Nat]
        /\ fate' \in [0 .. MaxBursts -> Fates]
    BY DoneIs
  <1>2. nextK \in Nat \ {0} /\ IsQueue(disk, N, Len(log), nextK)
    BY DEF Typed
  <1>3. nextK' \in Nat \ {0} /\ IsQueue(lines', N, Len(log), nextK') /\ IsQueue(disk', N, Len(log), nextK')
    BY <1>1, <1>2
  <1> QED
    BY <1>1, <1>3, StepTyped

LEMMA LandedTyped ==
    ASSUME Typed, NEW k \in Nat, NEW at \in Nat, at \in 1 .. Len(log), Landed(k, at),
           UNCHANGED <<image, log, net, burst, text, seen>>
    PROVE  Typed'
  <1>1. DoneLine(k, at, "kept") /\ NoteAck(at) /\ (Stop(k) \/ Send)
    BY DEF Landed
  <1>2. walk' \in WalkSet
    <2>1. [walk EXCEPT !.sending = TRUE] \in WalkSet
      BY DEF Typed, WalkSet
    <2>2. [after |-> k, sending |-> FALSE, stopped |-> TRUE] \in WalkSet
      BY DEF WalkSet
    <2> QED
      BY <1>1, <2>1, <2>2 DEF Stop, Send
  <1>3. HandsTyped(thread')
    BY <1>1, HandTyped, HandsAre, RestIs DEF Stop, Send
  <1>4. text' \in Seq(UnitSet) /\ seen' \in -1 .. Len(log) /\ "kept" \in Fates
    BY DEF Typed, Fates
  <1>5. acked' \subseteq DOMAIN log /\ position' \in 0 .. Len(log) /\ at <= Len(log)
    BY <1>1, NoteAckIs, Numbers
  <1> QED
    BY <1>1, <1>2, <1>3, <1>4, <1>5, DoneTyped

\* The rows a read may take for the head's landing.
LEMMA CandidatesIn ==
    ASSUME Typed, NEW l
    PROVE  Candidates(l) \subseteq 1 .. Len(log)
  BY Numbers DEF Candidates

LEMMA ReadRowsTyped ==
    ASSUME Typed, ReadRows
    PROVE  Typed'
  <1> DEFINE d == thread["drain"]
             own == {i \in Candidates(d.line) : ~log[i].lost}
  <1>1. d \in ReadSet /\ IsHand(d, N, Len(log)) /\ d.k \in Nat /\ d.pc = "read"
    BY HandsAre, Shapes DEF ReadRows, ReadSet
  <1>2. UNCHANGED <<image, log, net, burst, text, seen>>
    BY DEF ReadRows, board, page
  <1>3. CASE SendFromHead(d.k) /\ UNCHANGED <<acked, position, fate>>
    BY <1>1, <1>2, <1>3, SendFromHeadTyped
  <1>4. CASE own # {} /\ Landed(d.k, Lowest(own))
    <2>1. own \in SUBSET Nat /\ own \subseteq 1 .. Len(log)
      BY CandidatesIn
    <2>2. Lowest(own) \in own
      <3> HIDE DEF own
      <3> QED
        BY <1>4, <2>1, LowestIs
    <2>3. Lowest(own) \in Nat /\ Lowest(own) \in 1 .. Len(log)
      BY <2>1, <2>2
    <2> HIDE DEF own, d
    <2> QED
      BY <1>1, <1>2, <1>4, <2>3, LandedTyped
  <1>5. CASE /\ Candidates(d.line) # {}
             /\ thread' = [thread EXCEPT !["drain"] =
                              [pc |-> "site", k |-> d.k, line |-> d.line, at |-> Lowest(Candidates(d.line))]]
             /\ UNCHANGED <<store, acked, position, walk, fate, count>>
    <2>1. Candidates(d.line) \in SUBSET Nat
      BY CandidatesIn
    <2>2. Lowest(Candidates(d.line)) \in 1 .. Len(log)
      BY <1>5, <2>1, LowestIs, CandidatesIn
    <2> DEFINE at == Lowest(Candidates(d.line))
               h == [pc |-> "site", k |-> d.k, line |-> d.line, at |-> at]
    <2>3. IsHand(h, N, Len(log))
      <3>1. at \in 1 .. Len(log) /\ at \in Nat
        BY <2>2
      <3>2. /\ Of(d.line, N, Len(log)) /\ d.line.base <= Len(log) /\ d.line.through <= Len(log)
            /\ d.line \in LineSet
        BY <1>1 DEF IsHand, HasLine, ReadSet
      <3> HIDE DEF at, d
      <3> QED
        BY <1>1, <3>1, <3>2 DEF IsHand, ThreadSet, SiteSet, HasFrame, HasLine
    <2>4. HandsTyped(thread')
      <3>1. thread' = [thread EXCEPT !["drain"] = h]
        BY <1>5
      <3> HIDE DEF h
      <3> QED
        BY <2>3, <3>1, HandTyped, HandsAre
    <2>5. UNCHANGED <<lines, disk, nextK, count, walk, acked, position, fate>>
      BY <1>5 DEF store
    <2> QED
      BY <1>2, <2>4, <2>5, RemarkTyped, SameQueue DEF Typed
  <1>6. CASE Stop(d.k) /\ Fault /\ UNCHANGED <<store, acked, position, fate>>
    <2>1. UNCHANGED <<lines, disk, nextK, acked, position, fate>>
      BY <1>6 DEF store
    <2>2. count' \in [{"other", "act", "fault"} -> Nat]
      BY <1>6, CountTyped DEF Typed, Fault
    <2> QED
      BY <1>1, <1>2, <1>6, <2>1, <2>2, StopTyped
  <1> QED
    BY <1>3, <1>4, <1>5, <1>6 DEF ReadRows

LEMMA ReadSiteTyped ==
    ASSUME Typed, ReadSite
    PROVE  Typed'
  <1> DEFINE d == thread["drain"]
  <1>1. d \in SiteSet /\ IsHand(d, N, Len(log)) /\ d.k \in Nat /\ d.at \in 1 .. Len(log) /\ d.at \in Nat
    BY HandsAre, Shapes DEF ReadSite, SiteSet, IsHand
  <1>2. UNCHANGED <<image, log, net, burst, text, seen>>
    BY DEF ReadSite, board, page
  <1>3. CASE SendFromHead(d.k) /\ UNCHANGED <<acked, position, fate>>
    BY <1>1, <1>2, <1>3, SendFromHeadTyped
  <1>4. CASE Landed(d.k, d.at)
    BY <1>1, <1>2, <1>4, LandedTyped
  <1>5. CASE Stop(d.k) /\ Fault /\ UNCHANGED <<store, acked, position, fate>>
    <2>1. UNCHANGED <<lines, disk, nextK, acked, position, fate>>
      BY <1>5 DEF store
    <2>2. count' \in [{"other", "act", "fault"} -> Nat]
      BY <1>5, CountTyped DEF Typed, Fault
    <2> QED
      BY <1>1, <1>2, <1>5, <2>1, <2>2, StopTyped
  <1> QED
    BY <1>3, <1>4, <1>5 DEF ReadSite

\* What an answer in a thread's hands names.
LEMMA AnswerIs ==
    ASSUME Typed, NEW t \in Threads, thread[t].pc = "answer"
    PROVE  /\ thread[t] \in AnsweredSet /\ thread[t].k \in Nat
           /\ thread[t].frame \in FrameSet /\ Of(thread[t].frame, N, Len(log))
           /\ thread[t].base \in Nat /\ thread[t].base <= Len(log)
           /\ thread[t].answer.at \in 0 .. Len(log) /\ thread[t].answer.at \in Nat
           /\ thread[t].answer.kind = "acked" => thread[t].answer.at \in 1 .. Len(log)
           /\ thread[t].answer.kind \in Kinds
  BY HandsAre, Shapes, Numbers DEF IsHand, HasFrame, AnsweredSet, AnswerSet

LEMMA ShiftHandIs ==
    ASSUME NEW n, NEW len, NEW k \in Nat, NEW current \in Nat, current <= len
    PROVE  IsHand([pc |-> "shift", k |-> k, current |-> current], n, len)
  BY DEF IsHand, ThreadSet, ShiftSet, HasFrame, HasLine

LEMMA DrainAnsweredTyped ==
    ASSUME Typed, DrainAnswered
    PROVE  Typed'
  <1> DEFINE d == thread["drain"]
             a == d.answer
  <1>1. /\ d.k \in Nat /\ a.at \in 0 .. Len(log) /\ a.at \in Nat /\ a.at <= Len(log)
        /\ a.kind = "acked" => a.at \in 1 .. Len(log)
        /\ a.kind \in Kinds
    BY AnswerIs, HandsAre, Numbers DEF DrainAnswered
  <1>2. UNCHANGED <<image, log, net, burst, text, seen>>
    BY DEF DrainAnswered, board, page
  <1>3. CASE /\ a.kind = "acked" /\ NoteAck(a.at) /\ DoneLine(d.k, a.at, "kept")
             /\ thread' = [thread EXCEPT !["drain"] = [pc |-> "walk"]] /\ UNCHANGED walk
    <2>1. HandsTyped(thread')
      BY <1>3, HandTyped, HandsAre, RestIs
    <2>2. /\ acked' \subseteq DOMAIN log /\ position' \in 0 .. Len(log)
      BY <1>1, <1>3, NoteAckIs
    <2>3. walk' \in WalkSet /\ text' \in Seq(UnitSet) /\ seen' \in -1 .. Len(log) /\ "kept" \in Fates
      BY <1>2, <1>3 DEF Typed, Fates
    <2> HIDE DEF a, d
    <2> QED
      BY <1>1, <1>2, <1>3, <2>1, <2>2, <2>3, DoneTyped
  <1>4. CASE /\ thread' = [thread EXCEPT !["drain"] = [pc |-> "shift", k |-> d.k, current |-> a.at]]
             /\ UNCHANGED <<walk, lines, disk, nextK, acked, position, fate, count>>
    <2>1. HandsTyped(thread')
      BY <1>1, <1>4, HandTyped, HandsAre, ShiftHandIs
    <2> QED
      BY <1>2, <1>4, <2>1, RemarkTyped, SameQueue DEF Typed
  <1>5. CASE /\ a.kind \in {"lost", "unsent", "refused", "faced"}
             /\ Remark(Set({d.k}, LAMBDA l : [l EXCEPT !.sent = TRUE,
                    !.cause = IF a.kind \in {"refused", "faced"} THEN "refused" ELSE "holding"]))
             /\ Stop(d.k)
             /\ UNCHANGED <<acked, position, fate>>
    <2>1. PICK c \in Causes : c = IF a.kind \in {"refused", "faced"} THEN "refused" ELSE "holding"
      BY DEF Causes
    <2>2. Remark(Set({d.k}, LAMBDA l : [l EXCEPT !.sent = TRUE, !.cause = c]))
      BY <1>5, <2>1
    <2>3. Remarked(lines') /\ Changed(lines') /\ nextK' = nextK
      BY <2>2, FailedMarks
    <2>4. HandsTyped(thread')
      BY <1>5, HandTyped, HandsAre, RestIs DEF Stop
    <2>5. walk' \in WalkSet
      BY <1>1, <1>5 DEF Stop, WalkSet
    <2> QED
      BY <1>2, <1>5, <2>3, <2>4, <2>5, RemarkTyped
  <1> QED
    BY <1>3, <1>4, <1>5 DEF DrainAnswered

LEMMA FateTyped ==
    ASSUME Typed, NEW b \in 0 .. MaxBursts, NEW as \in Fates
    PROVE  [fate EXCEPT ![b] = as] \in [0 .. MaxBursts -> Fates]
  BY DEF Typed

LEMMA NewLineTyped ==
    ASSUME Typed, NEW f \in FrameSet, Of(f, N, Len(log)),
           NEW base \in Nat, base <= Len(log), NEW cause \in Causes, NEW sent \in BOOLEAN,
           NEW through \in Nat, through <= Len(log),
           EnterLine(f, base, cause, sent, through),
           UNCHANGED <<image, log, net, burst, acked, position, walk, text, seen, fate>>,
           HandsTyped(thread')
    PROVE  Typed'
  <1>1. /\ nextK' \in Nat \ {0}
        /\ IsQueue(lines', N, Len(log), nextK') /\ IsQueue(disk', N, Len(log), nextK')
        /\ count' \in [{"other", "act", "fault"} -> Nat]
    BY EnterIs, Numbers
  <1>2. /\ acked' \subseteq DOMAIN log /\ position' \in 0 .. Len(log) /\ walk' \in WalkSet
        /\ text' \in Seq(UnitSet) /\ seen' \in -1 .. Len(log)
        /\ fate' \in [0 .. MaxBursts -> Fates]
    BY DEF Typed
  <1> QED
    BY <1>1, <1>2, StepTyped

\* The text given up with a burst given back or dropped.
LEMMA UnreadTyped ==
    ASSUME Typed, GivesUpText
    PROVE  text' \in Seq(UnitSet) /\ seen' \in -1 .. Len(log)
  BY Numbers DEF GivesUpText, Unread

LEMMA CallAnsweredTyped ==
    ASSUME Typed, CallAnswered
    PROVE  Typed'
  <1> DEFINE c == thread["call"]
             a == c.answer
             held(cause, sent, through) == EnterLine(c.frame, c.base, cause, sent, through)
             done == thread' = [thread EXCEPT !["call"] = Idle]
  <1>1. /\ c.frame \in FrameSet /\ Of(c.frame, N, Len(log)) /\ c.base \in Nat /\ c.base <= Len(log)
        /\ a.at \in 0 .. Len(log) /\ a.at \in Nat /\ a.at <= Len(log)
        /\ a.kind = "acked" => a.at \in 1 .. Len(log)
        /\ a.kind \in Kinds
    BY AnswerIs, HandsAre, Numbers DEF CallAnswered
  <1>2. UNCHANGED <<image, log, net, burst, walk>>
    BY DEF CallAnswered, board
  <1>3. done => HandsTyped(thread')
    BY HandTyped, HandsAre, RestIs DEF Idle
  <1>4. c.frame.b \in 0 .. MaxBursts
    <2>1. c.frame.b \in 1 .. N
      BY <1>1 DEF Of
    <2>2. N \in Nat /\ MaxBursts \in Nat /\ N <= MaxBursts
      BY Numbers DEF Typed
    <2> QED
      BY <2>1, <2>2
  <1>5. nextK \in Nat \ {0} /\ walk \in WalkSet /\ text \in Seq(UnitSet) /\ seen \in -1 .. Len(log)
        /\ IsQueue(lines, N, Len(log), nextK) /\ IsQueue(disk, N, Len(log), nextK)
        /\ count \in [{"other", "act", "fault"} -> Nat]
        /\ acked \subseteq DOMAIN log /\ position \in 0 .. Len(log)
    BY DEF Typed
  <1>6. CASE /\ a.kind = "acked" /\ done /\ NoteAck(a.at)
             /\ fate' = [fate EXCEPT ![c.frame.b] = "kept"] /\ seen' = a.at
             /\ UNCHANGED <<store, count, text>>
    <2>1. /\ acked' \subseteq DOMAIN log /\ position' \in 0 .. Len(log)
      BY <1>1, <1>6, NoteAckIs
    <2>2. fate' \in [0 .. MaxBursts -> Fates]
      BY <1>4, <1>6, FateTyped DEF Fates
    <2>3. seen' \in -1 .. Len(log)
      BY <1>1, <1>6, Numbers
    <2>4. UNCHANGED <<lines, disk, nextK, count, text, walk>>
      BY <1>2, <1>6 DEF store
    <2> QED
      BY <1>2, <1>3, <1>5, <1>6, <2>1, <2>2, <2>3, <2>4, StepTyped
  <1>7. CASE /\ held("moved", FALSE, a.at)
             /\ thread' = [thread EXCEPT !["call"] =
                              IF burst[c.frame.b].anchored
                              THEN [pc |-> "shift", k |-> nextK, current |-> a.at] ELSE Idle]
             /\ UNCHANGED <<acked, position, fate, seen, text>>
    <2>1. HandsTyped(thread')
      <3>1. IsHand([pc |-> "shift", k |-> nextK, current |-> a.at], N, Len(log))
        BY <1>1, <1>5, ShiftHandIs
      <3>2. IsHand(Idle, N, Len(log))
        BY RestIs
      <3> DEFINE h == IF burst[c.frame.b].anchored
                      THEN [pc |-> "shift", k |-> nextK, current |-> a.at] ELSE Idle
      <3>3. IsHand(h, N, Len(log)) /\ h.pc \in {"idle", "shift"}
        BY <3>1, <3>2 DEF Idle
      <3>4. thread' = [thread EXCEPT !["call"] = h]
        BY <1>7
      <3> HIDE DEF h
      <3> QED
        BY <3>3, <3>4, HandTyped, HandsAre
    <2>2. EnterLine(c.frame, c.base, "moved", FALSE, a.at) /\ "moved" \in Causes /\ FALSE \in BOOLEAN
      BY <1>7 DEF Causes
    <2> HIDE DEF c, a
    <2> QED
      BY <1>1, <1>2, <1>7, <2>1, <2>2, NewLineTyped
  <1>8. CASE /\ a.kind \in {"lost", "unsent", "refused"} /\ done
             /\ held(IF a.kind = "refused" THEN "refused" ELSE "holding", a.kind = "lost", 0)
             /\ UNCHANGED <<acked, position, fate, seen, text>>
    <2>1. PICK cause \in Causes, sent \in BOOLEAN : EnterLine(c.frame, c.base, cause, sent, 0)
      <3>1. (IF a.kind = "refused" THEN "refused" ELSE "holding") \in Causes /\ (a.kind = "lost") \in BOOLEAN
        BY DEF Causes
      <3> QED
        BY <1>8, <3>1
    <2>2. 0 \in Nat /\ 0 <= Len(log)
      BY Numbers
    <2> HIDE DEF c, a
    <2> QED
      BY <1>1, <1>2, <1>3, <1>8, <2>1, <2>2, NewLineTyped
  <1>9. CASE /\ a.kind = "faced" /\ done
             /\ fate' = [fate EXCEPT ![c.frame.b] = "back"]
             /\ GivesUpText
             /\ UNCHANGED <<store, count, acked, position>>
    <2>1. fate' \in [0 .. MaxBursts -> Fates]
      BY <1>4, <1>9, FateTyped DEF Fates
    <2>2. text' \in Seq(UnitSet) /\ seen' \in -1 .. Len(log)
      BY <1>9, UnreadTyped
    <2>3. UNCHANGED <<lines, disk, nextK, count, walk>>
      BY <1>2, <1>9 DEF store
    <2> QED
      BY <1>2, <1>3, <1>5, <1>9, <2>1, <2>2, <2>3, StepTyped
  <1> QED
    BY <1>6, <1>7, <1>8, <1>9 DEF CallAnswered

LEMMA CallShiftAnsweredTyped ==
    ASSUME Typed, CallShiftAnswered
    PROVE  Typed'
  <1> DEFINE c == thread["call"]
             a == c.answer
             done == thread' = [thread EXCEPT !["call"] = Idle]
  <1>1. /\ c.k \in Nat /\ a.at \in 0 .. Len(log) /\ a.at \in Nat /\ a.at <= Len(log)
        /\ a.kind = "acked" => a.at \in 1 .. Len(log)
        /\ a.kind \in Kinds
    BY AnswerIs, HandsAre, Numbers DEF CallShiftAnswered
  <1>2. UNCHANGED <<image, log, net, burst, walk>>
    BY DEF CallShiftAnswered, board
  <1>3. done => HandsTyped(thread')
    BY HandTyped, HandsAre, RestIs DEF Idle
  <1>4. walk \in WalkSet /\ text \in Seq(UnitSet) /\ seen \in -1 .. Len(log)
        /\ acked \subseteq DOMAIN log /\ position \in 0 .. Len(log)
    BY DEF Typed
  <1>5. text' \in Seq(UnitSet) /\ seen' \in -1 .. Len(log)
    <2>1. GivesUpText \/ UNCHANGED <<text, seen>>
      BY DEF CallShiftAnswered
    <2> QED
      BY <1>4, <2>1, UnreadTyped
  <1>6. a.kind # "faced" => UNCHANGED <<text, seen>>
    BY DEF CallShiftAnswered
  <1>7. CASE a.kind = "acked" /\ done /\ NoteAck(a.at) /\ DoneLine(c.k, a.at, "kept")
    <2>1. /\ acked' \subseteq DOMAIN log /\ position' \in 0 .. Len(log)
      BY <1>1, <1>7, NoteAckIs
    <2>2. "kept" \in Fates /\ walk' \in WalkSet
      BY <1>2, <1>4 DEF Fates
    <2> HIDE DEF c, a
    <2> QED
      BY <1>1, <1>2, <1>3, <1>5, <1>7, <2>1, <2>2, DoneTyped
  <1>8. CASE /\ a.kind = "moved"
             /\ thread' = [thread EXCEPT !["call"] = [pc |-> "shift", k |-> c.k, current |-> a.at]]
             /\ UNCHANGED <<lines, disk, nextK, acked, position, fate, count>>
    <2>1. HandsTyped(thread')
      <3>1. IsHand([pc |-> "shift", k |-> c.k, current |-> a.at], N, Len(log))
        BY <1>1, ShiftHandIs
      <3> DEFINE h == [pc |-> "shift", k |-> c.k, current |-> a.at]
      <3>2. IsHand(h, N, Len(log)) /\ h.pc = "shift" /\ thread' = [thread EXCEPT !["call"] = h]
        BY <1>8, <3>1
      <3> HIDE DEF h
      <3> QED
        BY <3>2, HandTyped, HandsAre
    <2> QED
      BY <1>2, <1>4, <1>6, <1>8, <2>1, RemarkTyped, SameQueue
  <1>9. CASE /\ a.kind \in {"lost", "unsent", "refused"} /\ done
             /\ Remark(Set({c.k}, LAMBDA l : [l EXCEPT !.sent = TRUE,
                    !.cause = IF a.kind = "refused" THEN "refused" ELSE "holding"]))
             /\ UNCHANGED <<acked, position, fate>>
    <2>1. PICK x \in Causes : x = IF a.kind = "refused" THEN "refused" ELSE "holding"
      BY DEF Causes
    <2>2. Remark(Set({c.k}, LAMBDA l : [l EXCEPT !.sent = TRUE, !.cause = x]))
      BY <1>9, <2>1
    <2>3. Remarked(lines') /\ Changed(lines') /\ nextK' = nextK
      BY <2>2, FailedMarks
    <2> QED
      BY <1>2, <1>3, <1>4, <1>6, <1>9, <2>3, RemarkTyped
  <1>10. CASE a.kind = "faced" /\ done /\ DoneLine(c.k, 0, "back") /\ UNCHANGED <<acked, position>>
    <2>1. "back" \in Fates /\ walk' \in WalkSet /\ 0 \in Nat /\ 0 <= Len(log)
      BY <1>2, <1>4, Numbers DEF Fates
    <2>2. acked' \subseteq DOMAIN log /\ position' \in 0 .. Len(log)
      BY <1>4, <1>10
    <2> HIDE DEF c, a
    <2> QED
      BY <1>1, <1>2, <1>3, <1>5, <1>10, <2>1, <2>2, DoneTyped
  <1> QED
    BY <1>7, <1>8, <1>9, <1>10 DEF CallShiftAnswered

\* A burst typed: its kind, the units it names, and its frame.
LEMMA BurstTyped ==
    ASSUME Typed, NEW op \in Ops, NEW p \in 1 .. Len(text) + 1, SendBurst(op, p)
    PROVE  /\ N + 1 <= MaxBursts /\ N' = N + 1
           /\ burst' \in Seq(BurstSet) /\ text' \in Seq(UnitSet)
           /\ fate' = [fate EXCEPT ![N + 1] = "out"] /\ fate' \in [0 .. MaxBursts -> Fates]
           /\ seen \in Nat
           /\ LET f == [b |-> N + 1, op |-> op, first |-> p, asOf |-> seen]
              IN  /\ f \in FrameSet /\ Of(f, N + 1, Len(log))
                  /\ \/ /\ Behind
                        /\ EnterLine(f, position, "holding", FALSE, 0)
                        /\ UNCHANGED thread
                     \/ /\ ~Behind
                        /\ thread' = [thread EXCEPT !["call"] = Dial(0, f, FALSE, position)]
                        /\ UNCHANGED <<lines, disk, nextK, count>>
           /\ UNCHANGED <<image, log, net, failed, acked, position, walk, seen, passed>>
           /\ thread["call"].pc = "idle"
  <1> DEFINE b == N + 1
             before == IF p = 1 THEN NoUnit ELSE text[p - 1]
             q == IF op = "insert" THEN p ELSE p + 1
             after == IF q > Len(text) THEN NoUnit ELSE text[q]
             unit == IF op = "insert" THEN Unit(b, 1) ELSE text[p]
             anchored == /\ Addressed(before) /\ Addressed(after)
                         /\ op = "delete" => Addressed(unit)
             r == [op |-> op, before |-> before, after |-> after, unit |-> unit,
                   anchored |-> anchored]
             f == [b |-> b, op |-> op, first |-> p, asOf |-> seen]
  <1>1. /\ ~Busy /\ b <= MaxBursts /\ seen # Unread
        /\ op = "delete" => p <= Len(text)
        /\ burst' = Append(burst, r)
        /\ text' = IF op = "insert" THEN InsertAt(text, p, unit) ELSE RemoveAt(text, p)
        /\ fate' = [fate EXCEPT ![b] = "out"]
        /\ \/ /\ Behind
              /\ EnterLine(f, position, "holding", FALSE, 0)
              /\ UNCHANGED thread
           \/ /\ ~Behind
              /\ thread' = [thread EXCEPT !["call"] = Dial(0, f, FALSE, position)]
              /\ UNCHANGED <<lines, disk, nextK, count>>
        /\ UNCHANGED <<image, log, net, failed, acked, position, walk, seen, passed>>
    BY DEF SendBurst, N, board
  <1>2. /\ N \in Nat /\ Len(log) \in Nat /\ op \in {"insert", "delete"} /\ MaxBursts \in Nat
        /\ text \in Seq(UnitSet) /\ Len(text) \in Nat /\ seen \in -1 .. Len(log)
        /\ burst \in Seq(BurstSet) /\ fate \in [0 .. MaxBursts -> Fates]
    <2>1. op \in {"insert", "delete"}
      BY HoldAssumption
    <2>2. /\ text \in Seq(UnitSet) /\ seen \in -1 .. Len(log)
          /\ burst \in Seq(BurstSet) /\ fate \in [0 .. MaxBursts -> Fates]
      BY DEF Typed
    <2> QED
      BY <2>1, <2>2, Numbers
  <1>3. NoUnit \in UnitSet /\ Unit(b, 1) \in UnitSet
    <2>1. b \in 0 .. MaxBursts /\ 0 \in 0 .. MaxBursts
      BY <1>1, <1>2
    <2> HIDE DEF b
    <2> QED
      BY ONLY <2>1 DEF NoUnit, Unit, UnitSet
  <1>4. before \in UnitSet
    <2>1. p # 1 => p - 1 \in 1 .. Len(text)
      BY <1>2
    <2> QED
      BY <1>2, <1>3, <2>1
  <1>5. after \in UnitSet
    <2>1. q <= Len(text) => q \in 1 .. Len(text)
      BY <1>2
    <2> HIDE DEF q
    <2>2. q \in Int
      BY <1>2 DEF q
    <2> QED
      BY <1>2, <1>3, <2>1, <2>2
  <1>6. unit \in UnitSet /\ (op # "insert" => p \in 1 .. Len(text))
    BY <1>1, <1>2, <1>3
  <1>7. burst' \in Seq(BurstSet) /\ N' = N + 1
    <2>1. anchored \in BOOLEAN
      OBVIOUS
    <2> HIDE DEF before, after, unit, anchored
    <2>2. r \in BurstSet
      BY <1>2, <1>4, <1>5, <1>6, <2>1 DEF BurstSet
    <2> HIDE DEF r
    <2> QED
      BY <1>1, <1>2, <2>2 DEF N
  <1>8. text' \in Seq(UnitSet)
    <2> HIDE DEF unit
    <2> QED
      BY <1>1, <1>2, <1>6, InsertTyped, RemoveTyped
  <1>9. f \in FrameSet /\ Of(f, b, Len(log)) /\ seen \in Nat
    BY <1>1, <1>2 DEF FrameSet, Of, Unread
  <1>10. fate' \in [0 .. MaxBursts -> Fates]
    BY <1>1, <1>2 DEF Fates
  <1>11. thread["call"].pc = "idle"
    BY <1>1 DEF Busy
  <1> HIDE DEF r
  <1> QED
    BY <1>1, <1>7, <1>8, <1>9, <1>10, <1>11

LEMMA SendBurstTyped ==
    ASSUME Typed, NEW op \in Ops, NEW p \in 1 .. Len(text) + 1, SendBurst(op, p)
    PROVE  Typed'
  <1> DEFINE f == [b |-> N + 1, op |-> op, first |-> p, asOf |-> seen]
  <1>1. /\ N + 1 <= MaxBursts /\ N' = N + 1
        /\ burst' \in Seq(BurstSet) /\ text' \in Seq(UnitSet)
        /\ fate' \in [0 .. MaxBursts -> Fates]
        /\ f \in FrameSet /\ Of(f, N + 1, Len(log))
        /\ \/ /\ Behind
              /\ EnterLine(f, position, "holding", FALSE, 0)
              /\ UNCHANGED thread
           \/ /\ ~Behind
              /\ thread' = [thread EXCEPT !["call"] = Dial(0, f, FALSE, position)]
              /\ UNCHANGED <<lines, disk, nextK, count>>
        /\ UNCHANGED <<image, log, net, failed, acked, position, walk, seen>>
    BY BurstTyped
  <1> HIDE DEF f
  <1>2. N \in Nat /\ N + 1 \in Nat /\ Len(log) \in Nat /\ N <= N + 1 /\ Len(log) <= Len(log)
    BY Numbers
  <1>3. /\ IsNet(net, N + 1, Len(log)) /\ IsQueue(lines, N + 1, Len(log), nextK)
        /\ IsQueue(disk, N + 1, Len(log), nextK)
        /\ \A u \in Threads : IsHand(thread[u], N + 1, Len(log))
    BY <1>2, GrowsHere
  <1>4. /\ image \in Seq(UnitSet) /\ nextK \in Nat \ {0} /\ acked \subseteq DOMAIN log
        /\ position \in 0 .. Len(log) /\ position \in Nat /\ walk \in WalkSet /\ seen \in -1 .. Len(log)
        /\ count \in [{"other", "act", "fault"} -> Nat]
        /\ thread = [t \in Threads |-> thread[t]]
        /\ thread["call"].pc \in {"idle", "dial", "answer", "shift", "shifted"}
    BY DEF Typed
  <1>5. IsLog(log, N + 1)
    <2>1. log \in Seq(RowSet) /\ \A i \in DOMAIN log : log[i].b <= N
      BY DEF Typed, IsLog
    <2>2. \A i \in DOMAIN log : log[i].b \in Nat
      <3>1. \A i \in DOMAIN log : log[i] \in RowSet
        BY <2>1
      <3> QED
        BY <3>1 DEF RowSet
    <2> QED
      BY <1>2, <2>1, <2>2 DEF IsLog
  <1>6. /\ nextK' \in Nat \ {0}
        /\ IsQueue(lines', N + 1, Len(log), nextK') /\ IsQueue(disk', N + 1, Len(log), nextK')
        /\ count' \in [{"other", "act", "fault"} -> Nat]
    <2>1. CASE EnterLine(f, position, "holding", FALSE, 0)
      <3>1. "holding" \in Causes /\ FALSE \in BOOLEAN /\ 0 \in Nat /\ 0 <= Len(log) /\ position <= Len(log)
        BY <1>2, <1>4 DEF Causes
      <3> QED
        BY <1>1, <1>2, <1>4, <2>1, <3>1, EnterIs
    <2>2. CASE UNCHANGED <<lines, disk, nextK, count>>
      BY <1>3, <1>4, <2>2
    <2> QED
      BY <1>1, <2>1, <2>2
  <1>7. /\ thread' = [u \in Threads |-> thread'[u]]
        /\ \A u \in Threads : IsHand(thread'[u], N + 1, Len(log))
        /\ thread'["call"].pc \in {"idle", "dial", "answer", "shift", "shifted"}
    <2>1. CASE UNCHANGED thread
      BY <1>3, <1>4, <2>1
    <2>2. CASE thread' = [thread EXCEPT !["call"] = Dial(0, f, FALSE, position)]
      <3> DEFINE h == Dial(0, f, FALSE, position)
      <3>1. IsHand(h, N + 1, Len(log))
        <4>1. 0 \in Nat /\ FALSE \in BOOLEAN /\ position <= Len(log)
          BY <1>2, <1>4
        <4> QED
          BY <1>1, <1>4, <4>1, DialIs
      <3>2. h.pc = "dial"
        BY DEF Dial
      <3> HIDE DEF h
      <3>3. thread' = [thread EXCEPT !["call"] = h] /\ "call" \in Threads
        BY <2>2 DEF h, Threads
      <3>4. /\ thread' = [u \in Threads |-> thread'[u]]
            /\ \A u \in Threads : IsHand(thread'[u], N + 1, Len(log))
        BY <1>3, <1>4, <3>1, <3>3, ThreadTyped
      <3>5. thread'["call"] = h
        BY <1>4, <3>3
      <3> QED
        BY <3>2, <3>4, <3>5
    <2> QED
      BY <1>1, <2>1, <2>2
  <1> QED
    BY <1>1, <1>3, <1>4, <1>5, <1>6, <1>7 DEF Typed

LEMMA ResolveSendTyped ==
    ASSUME Typed, NEW k \in DOMAIN lines, ResolveSend(k)
    PROVE  Typed'
  <1>1. Remarked(lines') /\ Changed(lines') /\ nextK' = nextK
    BY ResolveSendMarks
  <1>2. /\ UNCHANGED <<image, log, net, burst, acked, position, text, seen, fate, thread>>
        /\ walk' = [walk EXCEPT !.stopped = FALSE]
    BY DEF ResolveSend, board, page
  <1>3. walk' \in WalkSet
    BY <1>2 DEF Typed, WalkSet
  <1> QED
    BY <1>1, <1>2, <1>3, HandsAre, RemarkTyped

LEMMA ResolveDropTyped ==
    ASSUME Typed, NEW k \in DOMAIN lines, ResolveDrop(k)
    PROVE  Typed'
  <1> DEFINE kept == {j \in DOMAIN lines : j < k}
             ls == [j \in kept |-> lines[j]]
             gone == {lines[j].b : j \in DOMAIN lines \ kept}
  <1>1. /\ lines' = ls /\ nextK' = nextK /\ (disk' = ls \/ disk' = disk)
        /\ fate' = [b \in DOMAIN fate |-> IF b \in gone THEN "dropped" ELSE fate[b]]
        /\ GivesUpText
        /\ UNCHANGED <<image, log, net, acked, position, thread, walk, burst>>
    BY DEF ResolveDrop, board
  <1>2. count' \in [{"other", "act", "fault"} -> Nat]
    <2>1. \/ count' = [count EXCEPT !["act"] = @ + 1]
          \/ count' = [count EXCEPT !["act"] = @ + 1, !["fault"] = @ + 1]
      BY DEF ResolveDrop
    <2>2. count \in [{"other", "act", "fault"} -> Nat]
      BY DEF Typed
    <2> QED
      BY <2>1, <2>2
  <1>3. IsQueue(ls, N, Len(log), nextK)
    <2>1. DOMAIN ls \subseteq DOMAIN lines /\ \A j \in DOMAIN ls : ls[j] = lines[j]
      OBVIOUS
    <2> QED
      BY <2>1, LineTyped DEF IsQueue
  <1>4. fate' \in [0 .. MaxBursts -> Fates]
    <2>1. fate \in [0 .. MaxBursts -> Fates] /\ "dropped" \in Fates
      BY DEF Typed, Fates
    <2> HIDE DEF gone
    <2> QED
      BY <1>1, <2>1
  <1>5. text' \in Seq(UnitSet) /\ seen' \in -1 .. Len(log)
    BY <1>1, UnreadTyped
  <1>6. /\ nextK \in Nat \ {0} /\ IsQueue(disk, N, Len(log), nextK) /\ acked \subseteq DOMAIN log
        /\ position \in 0 .. Len(log) /\ walk \in WalkSet
    BY DEF Typed
  <1> HIDE DEF ls, gone
  <1> QED
    BY <1>1, <1>2, <1>3, <1>4, <1>5, <1>6, HandsAre, StepTyped

\* The first ordinal of a launch.
LEMMA RelaunchOrdinal ==
    ASSUME Typed, Relaunch
    PROVE  /\ nextK' \in Nat \ {0} /\ \A k \in DOMAIN disk : k < nextK'
           /\ nextK' = 1 \/ nextK' - 1 \in DOMAIN disk
  <1> DEFINE top == CHOOSE k \in DOMAIN disk : \A j \in DOMAIN disk : j <= k
  <1>1. nextK' = 1 + (IF disk = Empty THEN 0 ELSE top)
    BY DEF Relaunch
  <1>2. /\ DOMAIN disk \subseteq 1 .. (nextK - 1) /\ nextK \in Nat \ {0}
        /\ disk \in [DOMAIN disk -> LineSet]
    BY DEF Typed, IsQueue
  <1>3. CASE disk = Empty
    <2>1. DOMAIN disk = {}
      BY <1>3 DEF Empty
    <2> QED
      BY <1>1, <1>3, <2>1
  <1>4. CASE disk # Empty
    <2>1. DOMAIN disk # {}
      BY <1>2, <1>4 DEF Empty
    <2>2. DOMAIN disk \in SUBSET Nat /\ \A s \in DOMAIN disk : s <= nextK
      BY <1>2
    <2>3. \E k \in DOMAIN disk : \A j \in DOMAIN disk : j <= k
      BY <1>2, <2>1, <2>2, GreatestExists
    <2>4. top \in DOMAIN disk /\ \A j \in DOMAIN disk : j <= top
      BY <2>3
    <2> HIDE DEF top
    <2> QED
      BY <1>1, <1>2, <1>4, <2>4
  <1> QED
    BY <1>3, <1>4

LEMMA RelaunchTyped ==
    ASSUME Typed, Relaunch
    PROVE  Typed'
  <1>1. /\ Fault /\ lines' = disk /\ disk' = disk
        /\ acked' = {} /\ position' = Len(log)
        /\ net' = net \cup {thread[t].frame : t \in {t \in Threads : thread[t].pc = "dial"}}
        /\ thread' = [t \in Threads |-> Idle] /\ walk' = NoTurn
        /\ GivesUpText /\ UNCHANGED <<image, log, burst>>
    BY DEF Relaunch, board
  <1>2. nextK' \in Nat \ {0} /\ \A k \in DOMAIN disk : k < nextK'
    BY RelaunchOrdinal
  <1>3. IsQueue(disk, N, Len(log), nextK')
    <2>1. /\ DOMAIN disk \subseteq 1 .. (nextK - 1) /\ nextK \in Nat \ {0}
      BY DEF Typed, IsQueue
    <2>2. DOMAIN disk \subseteq 1 .. (nextK' - 1)
      BY <1>2, <2>1
    <2> QED
      BY <2>2 DEF Typed, IsQueue
  <1>4. IsNet(net', N, Len(log))
    <2>1. ASSUME NEW t \in Threads, thread[t].pc = "dial"
          PROVE  thread[t].frame \in FrameSet /\ Of(thread[t].frame, N, Len(log))
      BY <2>1, HandsAre, Shapes DEF IsHand, HasFrame, DialSet
    <2> QED
      BY <1>1, <2>1 DEF Typed, IsNet
  <1>5. fate' \in [0 .. MaxBursts -> Fates]
    <2> DEFINE back == {disk[k].b : k \in DOMAIN disk}
    <2>1. fate' = [b \in DOMAIN fate |->
                      CASE b \in back /\ fate[b] \in {"dropped", "back"} -> "again"
                        [] b \notin back /\ fate[b] = "out" -> "closed"
                        [] OTHER -> fate[b]]
      BY DEF Relaunch
    <2>2. fate \in [0 .. MaxBursts -> Fates] /\ "again" \in Fates /\ "closed" \in Fates
      BY DEF Typed, Fates
    <2> HIDE DEF back
    <2>3. ASSUME NEW b \in 0 .. MaxBursts PROVE fate'[b] \in Fates
      <3>1. fate'[b] = CASE b \in back /\ fate[b] \in {"dropped", "back"} -> "again"
                        [] b \notin back /\ fate[b] = "out" -> "closed"
                        [] OTHER -> fate[b]
        BY <2>1, <2>2
      <3> QED
        BY <2>2, <3>1
    <2>4. DOMAIN fate' = 0 .. MaxBursts /\ fate' = [b \in 0 .. MaxBursts |-> fate'[b]]
      BY <2>1, <2>2
    <2> QED
      BY <2>3, <2>4
  <1>6. text' \in Seq(UnitSet) /\ seen' \in -1 .. Len(log)
    BY <1>1, UnreadTyped
  <1>7. count' \in [{"other", "act", "fault"} -> Nat]
    BY <1>1, CountTyped DEF Typed, Fault
  <1>8. /\ thread' = [t \in Threads |-> thread'[t]]
        /\ \A t \in Threads : IsHand(thread'[t], N, Len(log))
        /\ thread'["call"].pc = "idle"
    BY <1>1, RestIs DEF Idle, Threads
  <1>9. walk' \in WalkSet /\ acked' \subseteq DOMAIN log /\ position' \in 0 .. Len(log) /\ N' = N
    BY <1>1, Numbers DEF WalkSet, NoTurn, N
  <1>10. image \in Seq(UnitSet) /\ IsLog(log, N) /\ N <= MaxBursts /\ burst \in Seq(BurstSet)
    BY DEF Typed
  <1> QED
    BY <1>1, <1>2, <1>3, <1>4, <1>5, <1>6, <1>7, <1>8, <1>9, <1>10 DEF Typed

LEMMA InitTyped ==
    ASSUME Init
    PROVE  Typed
  <1>1. MaxBursts \in Nat /\ Units \in Nat
    BY HoldAssumption
  <1>2. N = 0 /\ Len(log) = 0 /\ DOMAIN log = {} /\ log \in Seq(RowSet) /\ burst \in Seq(BurstSet)
    BY DEF Init, N
  <1>3. image \in Seq(UnitSet) /\ text \in Seq(UnitSet)
    <2>1. \A i \in 1 .. Units : Unit(0, i) \in UnitSet
      BY <1>1 DEF Unit, UnitSet
    <2>2. image = [i \in 1 .. Units |-> Unit(0, i)] /\ text = image
      BY DEF Init
    <2> QED
      BY <1>1, <2>1, <2>2
  <1>4. IsLog(log, N) /\ IsNet(net, N, Len(log)) /\ IsQueue(lines, N, Len(log), nextK)
        /\ IsQueue(disk, N, Len(log), nextK)
    <2>1. DOMAIN lines = {} /\ DOMAIN disk = {} /\ net = {}
          /\ lines \in [DOMAIN lines -> LineSet] /\ disk \in [DOMAIN disk -> LineSet]
      BY DEF Init, Empty
    <2> QED
      BY <1>2, <2>1 DEF IsLog, IsNet, IsQueue
  <1>5. /\ thread = [t \in Threads |-> thread[t]]
        /\ \A t \in Threads : IsHand(thread[t], N, Len(log))
        /\ thread["call"].pc = "idle"
    BY RestIs DEF Init, Idle, Threads
  <1>6. fate \in [0 .. MaxBursts -> Fates]
    BY <1>1 DEF Init, Fates
  <1>7. nextK \in Nat \ {0} /\ acked \subseteq DOMAIN log /\ position \in 0 .. Len(log)
        /\ seen \in -1 .. Len(log)
    BY <1>2 DEF Init
  <1>8. walk \in WalkSet /\ count \in [{"other", "act", "fault"} -> Nat]
    BY DEF Init, WalkSet, NoTurn
  <1> QED
    BY <1>1, <1>2, <1>3, <1>4, <1>5, <1>6, <1>7, <1>8 DEF Typed

\* A step keeps the types.
LEMMA NextTyped ==
    ASSUME Typed, [Next]_vars
    PROVE  Typed'
  <1>1. CASE CallStep
    BY <1>1, BoardAnswersTyped, CallAnsweredTyped, CallShiftAnsweredTyped, ShiftAndSendTyped,
       DialShiftedTyped, HandsAre DEF CallStep
  <1>2. CASE DrainStep
    BY <1>2, DrainTyped, WalkTyped, SendLineTyped, ReadRowsTyped, ReadSiteTyped, DrainAnsweredTyped,
       BoardAnswersTyped, ShiftAndSendTyped, DialShiftedTyped, HandsAre DEF DrainStep
  <1>3. CASE \E t \in Threads : BoardRefuses(t) \/ DialFails(t)
    BY <1>3, BoardRefusesTyped
  <1>4. CASE \E f \in net : Late(f)
    BY <1>4, LateTyped
  <1>5. CASE OtherHand \/ PageReads
    BY <1>5, OtherHandTyped, PageReadsTyped
  <1>6. CASE \E op \in Ops, p \in 1 .. Len(text) + 1 : SendBurst(op, p)
    BY <1>6, SendBurstTyped
  <1>7. CASE \E k \in DOMAIN lines : ResolveSend(k) \/ ResolveDrop(k)
    BY <1>7, ResolveSendTyped, ResolveDropTyped
  <1>8. CASE Relaunch
    BY <1>8, RelaunchTyped
  <1>9. CASE UNCHANGED vars
    BY <1>9 DEF vars, Typed, N, IsLog, IsNet, IsQueue, IsHand, Of
  <1> QED
    BY <1>1, <1>2, <1>3, <1>4, <1>5, <1>6, <1>7, <1>8, <1>9 DEF Next

LEMMA AlwaysTyped == Spec => []Typed
  <1>1. Init => Typed
    BY InitTyped
  <1>2. Typed /\ [Next]_vars => Typed'
    BY NextTyped
  <1> QED
    BY <1>1, <1>2, PTL DEF Spec

LEMMA TypeOKHolds ==
    ASSUME Typed
    PROVE  TypeOK
  <1>1. /\ image \in Seq((0 .. MaxBursts) \X Nat) /\ seen \in -1 .. Len(log)
        /\ DOMAIN lines \subseteq 1 .. (nextK - 1) /\ DOMAIN disk \subseteq 1 .. (nextK - 1)
        /\ acked \subseteq DOMAIN log /\ position <= Len(log)
    <2>1. image \in Seq((0 .. MaxBursts) \X Nat) /\ seen \in -1 .. Len(log)
      BY DEF Typed, UnitSet
    <2>2. DOMAIN lines \subseteq 1 .. (nextK - 1) /\ DOMAIN disk \subseteq 1 .. (nextK - 1)
      BY DEF Typed, IsQueue
    <2>3. acked \subseteq DOMAIN log /\ position \in 0 .. Len(log) /\ Len(log) \in Nat
      BY Numbers DEF Typed
    <2> QED
      BY <2>1, <2>2, <2>3
  <1>2. \A k \in DOMAIN lines :
          /\ lines[k].b \in 1 .. Len(burst) /\ lines[k].cause \in {"holding", "moved", "refused"}
          /\ lines[k].base <= Len(log) /\ lines[k].asOf <= Len(log)
    BY LineTyped DEF N, LineSet, Causes
  <1>3. \A t \in Threads : thread[t].pc \in {"idle", "walk", "read", "site", "send", "dial",
                                            "answer", "shift", "shifted"}
    BY HandsAre DEF ThreadSet, RestSet, DialSet, AnsweredSet, ReadSet, SiteSet, ShiftSet, ShiftedSet
  <1> QED
    BY <1>1, <1>2, <1>3 DEF TypeOK

\* The hold's state keeps its type, whatever the board answers or loses, the device
\* refuses or the person does: an ordinal in the queue or the file was handed out, a
\* line's base and stamp are states of the log, and a position acked is a row of it.
THEOREM HoldTyped == Spec => []TypeOK
  <1>1. Typed => TypeOK
    BY TypeOKHolds
  <1> QED
    BY <1>1, AlwaysTyped, PTL

-----------------------------------------------------------------------------
(* What stands where *)

\* The burst a hand dials that no line holds yet, 0 where it dials none.
Dialed(h) == IF h.pc \in {"dial", "answer"} /\ ~h.shifted THEN h.frame.b ELSE 0

Dialing == Dialed(thread["call"])

\* A queue is in the order its bursts were typed.
Ascending(q) == \A j, k \in DOMAIN q : j < k => q[j].b < q[k].b

Holds(q, b) == \E k \in DOMAIN q : q[k].b = b

\* The call dials past no line, and what it dials is the last burst typed.
Alone == Dialing # 0 => lines = Empty /\ fate[N] = "out" /\ Dialing = N

\* A write that is out is a line's, or the call's.
OutIsHeld == \A b \in 1 .. N : fate[b] = "out" => Dialing = b \/ Holds(lines, b)

\* The fates of what the queue and the file hold.
Standing == {"out", "kept", "again"}
Fated ==
    /\ \A b \in 1 .. N : fate[b] # "none"
    /\ \A k \in DOMAIN lines : fate[lines[k].b] \in Standing
    /\ \A k \in DOMAIN disk : fate[disk[k].b] # "closed"

\* The file holds every write that is out and was typed before one it holds.
Copies(q, ft) ==
    \A k \in DOMAIN q : \A a \in 1 .. q[k].b - 1 :
        ft[a] = "out" => \E j \in DOMAIN q : j < k /\ q[j].b = a

Order == Ascending(lines) /\ Ascending(disk) /\ Alone /\ OutIsHeld /\ Fated /\ Copies(disk, fate)

-----------------------------------------------------------------------------
(* The order of sends *)

\* No write typed before b is out.
Turn(b, ft) == \A a \in 1 .. b - 1 : ft[a] # "out"

\* The fates as those behind see them: a write passed holds no other up.
Owed == [a \in 1 .. MaxBursts |-> IF a \in passed THEN "passed" ELSE fate[a]]

Named == {"dial", "answer", "shift", "shifted", "read", "site", "send"}

\* What a hand is sure of: the line its ordinal names, its turn, and the row it
\* was answered with or reads for.
Sure(h, q, next, ft, lg) ==
    /\ h.pc \in Named => h.k < next
    /\ h.pc \in HasFrame => Turn(h.frame.b, ft) /\ (h.k \in DOMAIN q => q[h.k].b = h.frame.b)
    /\ h.pc \in HasLine => Turn(h.line.b, ft) /\ (h.k \in DOMAIN q => q[h.k].b = h.line.b)
    /\ h.pc = "shift" /\ h.k \in DOMAIN q => Turn(q[h.k].b, ft)
    /\ h.pc = "answer" /\ h.answer.kind = "acked" => lg[h.answer.at].b = h.frame.b
    /\ h.pc = "site" => h.line.base < h.at /\ lg[h.at].b # 0

Hands == \A t \in Threads : Sure(thread[t], lines, nextK, Owed, log)

InNet == \A f \in net : Turn(f.b, Owed)

\* The walk is past no line that stands, but those passed.
AtHead ==
    LET d == thread["drain"]
        ahead == \A k \in DOMAIN lines : walk.after < k \/ lines[k].b \in passed
    IN  /\ walk.after < nextK
        /\ d.pc = "walk" /\ ~walk.stopped => ahead
        /\ d.pc \in {"read", "site"} => ~walk.stopped /\ ahead
        /\ d.pc \in {"send", "dial", "answer", "shift", "shifted"} =>
              walk.after = d.k /\ \A k \in DOMAIN lines : d.k <= k \/ lines[k].b \in passed

-----------------------------------------------------------------------------
(* The rows *)

\* A row of a later write stands past the row of every earlier one not given up.
RowsAscend ==
    \A i \in DOMAIN log : \A b \in 1 .. N :
        b < log[i].b => b \in GivenUp \/ \E j \in Landings(b) : j < i

\* Every row of a write typed before line k's lies at or below its base, or the
\* write is a line before it.
Based(q, lg) ==
    \A k \in DOMAIN q : \A i \in DOMAIN lg :
        lg[i].b # 0 /\ lg[i].b < q[k].b =>
            i <= q[k].base \/ \E j \in DOMAIN q : j < k /\ q[j].b = lg[i].b

\* The rows of the writes typed before b end at a base.
Below(b, base, lg) == \A i \in DOMAIN lg : lg[i].b # 0 /\ lg[i].b < b => i <= base

\* A row past the page's last acked position is a line's, or the call's.
Positioned ==
    \A i \in DOMAIN log : log[i].b # 0 =>
        i <= position \/ Dialing = log[i].b \/ Holds(lines, log[i].b)

CallBased == Dialing # 0 => Below(Dialing, thread["call"].base, log)

ReadBased ==
    thread["drain"].pc \in {"read", "site"} =>
        Below(thread["drain"].line.b, thread["drain"].line.base, log)

KeptLanded == \A b \in 1 .. N : fate[b] = "kept" => Landings(b) # {}

Rows ==
    /\ RowsAscend /\ Based(lines, log) /\ Based(disk, log)
    /\ Positioned /\ CallBased /\ ReadBased /\ KeptLanded

\* No row no read can attribute, and no write passed.
Clean == ~Residue /\ passed = {}

HoldInv == Typed /\ Order /\ Hands /\ InNet /\ AtHead /\ (Clean => Rows)

-----------------------------------------------------------------------------
(* What no step takes back *)

\* A queue, its next ordinal and the fates, from one state to a later one: what an
\* ordinal names stands, or is gone; what is not out is not out again.
Onward(q, next, ft, q2, next2, ft2, n) ==
    /\ next <= next2
    /\ \A k \in DOMAIN q2 : k < next => k \in DOMAIN q /\ q2[k].b = q[k].b
    /\ \A a \in 1 .. n : ft2[a] = "out" => ft[a] = "out"

LEMMA TurnOnward ==
    ASSUME NEW n \in Nat, NEW ft, NEW ft2, \A a \in 1 .. n : ft2[a] = "out" => ft[a] = "out",
           NEW b \in 1 .. n, Turn(b, ft)
    PROVE  Turn(b, ft2)
  BY DEF Turn

LEMMA SureOnward ==
    ASSUME NEW n \in Nat, NEW len \in Nat, NEW h, IsHand(h, n, len),
           NEW q, NEW next \in Nat, NEW ft, NEW lg, Sure(h, q, next, ft, lg),
           NEW q2, NEW next2 \in Nat, NEW ft2, NEW lg2, Onward(q, next, ft, q2, next2, ft2, n),
           \A k \in DOMAIN q : q[k].b \in 1 .. n, \A i \in 1 .. len : lg2[i] = lg[i]
    PROVE  Sure(h, q2, next2, ft2, lg2)
  <1>1. h.pc \in Named => h.k \in Nat
    BY Shapes DEF IsHand, Named, DialSet, AnsweredSet, ReadSet, SiteSet, ShiftSet, ShiftedSet
  <1>2. HasFrame \subseteq Named /\ HasLine \subseteq Named /\ "shift" \in Named
    BY DEF HasFrame, HasLine, Named
  <1>3. h.pc \in HasFrame => h.frame.b \in 1 .. n
    BY DEF IsHand, Of
  <1>4. h.pc \in HasLine => h.line.b \in 1 .. n
    BY DEF IsHand, Of
  <1>5. h.pc \in Named => h.k < next /\ h.k < next2
    BY <1>1 DEF Sure, Onward
  <1>6. h.pc \in Named /\ h.k \in DOMAIN q2 => h.k \in DOMAIN q /\ q2[h.k].b = q[h.k].b
    BY <1>5 DEF Onward
  <1>7. \A b \in 1 .. n : Turn(b, ft) => Turn(b, ft2)
    BY TurnOnward DEF Onward
  <1>8. h.pc = "answer" /\ h.answer.kind = "acked" => h.answer.at \in 1 .. len
    BY Shapes DEF IsHand, AnsweredSet, AnswerSet
  <1>9. h.pc = "site" => h.at \in 1 .. len
    BY DEF IsHand
  <1>10. h.pc = "shift" /\ h.k \in DOMAIN q2 => Turn(q2[h.k].b, ft2)
    BY <1>2, <1>6, <1>7 DEF Sure
  <1>11. h.pc \in HasFrame => Turn(h.frame.b, ft2) /\ (h.k \in DOMAIN q2 => q2[h.k].b = h.frame.b)
    BY <1>2, <1>3, <1>6, <1>7 DEF Sure
  <1>12. h.pc \in HasLine => Turn(h.line.b, ft2) /\ (h.k \in DOMAIN q2 => q2[h.k].b = h.line.b)
    BY <1>2, <1>4, <1>6, <1>7 DEF Sure
  <1>13. h.pc = "answer" /\ h.answer.kind = "acked" => lg2[h.answer.at].b = h.frame.b
    BY <1>8 DEF Sure
  <1>14. h.pc = "site" => h.line.base < h.at /\ lg2[h.at].b # 0
    BY <1>9 DEF Sure
  <1> QED
    BY <1>5, <1>10, <1>11, <1>12, <1>13, <1>14 DEF Sure

\* The bursts typed are no more than the bound.
LEMMA Bounded ==
    ASSUME Typed
    PROVE  N \in Nat /\ MaxBursts \in Nat /\ N <= MaxBursts
  <1>1. N <= MaxBursts
    BY DEF Typed
  <1> QED
    BY <1>1, Numbers

\* A write owed after a step was owed before it.
LEMMA OwedOnward ==
    ASSUME Typed, passed \subseteq passed', \A a \in 1 .. N : fate'[a] = "out" => fate[a] = "out"
    PROVE  \A a \in 1 .. N : Owed'[a] = "out" => Owed[a] = "out"
  <1>1. \A a \in 1 .. N : a \in 1 .. MaxBursts
    <2>1. N \in Nat /\ MaxBursts \in Nat /\ N <= MaxBursts
      BY Bounded
    <2> QED
      BY ONLY <2>1
  <1> QED
    BY <1>1 DEF Owed

\* A write is owed that is out and not passed; where none is passed, each that is out.
LEMMA OwedIs ==
    ASSUME Typed, NEW a \in 1 .. N
    PROVE  Owed[a] = "out" <=> fate[a] = "out" /\ a \notin passed
  <1>1. a \in 1 .. MaxBursts
    <2>1. N \in Nat /\ MaxBursts \in Nat /\ N <= MaxBursts
      BY Bounded
    <2> QED
      BY ONLY <2>1, a \in 1 .. N
  <1> QED
    BY <1>1 DEF Owed

LEMMA TurnIs ==
    ASSUME Typed, NEW b \in 1 .. N, Turn(b, Owed), passed = {}
    PROVE  Turn(b, fate)
  <1>1. \A a \in 1 .. b - 1 : a \in 1 .. N
    BY Numbers
  <1> QED
    BY <1>1, OwedIs DEF Turn

LEMMA RestSure ==
    ASSUME NEW q, NEW next, NEW ft, NEW lg
    PROVE  Sure(Idle, q, next, ft, lg) /\ Sure([pc |-> "walk"], q, next, ft, lg)
  BY DEF Sure, Idle, Named, HasFrame, HasLine

\* The rows there were are there.
Longer == Len(log) <= Len(log') /\ \A i \in 1 .. Len(log) : log'[i] = log[i]

\* No step takes back what a hand is sure of, or the turn of a request.
Keeps == Onward(lines, nextK, Owed, lines', nextK', Owed', N) /\ Longer

LEMMA HandsKept ==
    ASSUME Typed, Hands, nextK' \in Nat, Keeps, NEW t \in Threads
    PROVE  Sure(thread[t], lines', nextK', Owed', log')
  <1>1. \A k \in DOMAIN lines : lines[k].b \in 1 .. N
    BY LineTyped
  <1>2. N \in Nat /\ Len(log) \in Nat /\ IsHand(thread[t], N, Len(log)) /\ nextK \in Nat
    BY Numbers, HandsAre DEF Typed
  <1>3. Sure(thread[t], lines, nextK, Owed, log)
    BY DEF Hands
  <1>4. PICK h, ft, ft2 : h = thread[t] /\ ft = Owed /\ ft2 = Owed'
    OBVIOUS
  <1>5. PICK n \in Nat, len \in Nat, next \in Nat, next2 \in Nat :
          n = N /\ len = Len(log) /\ next = nextK /\ next2 = nextK'
    BY <1>2
  <1>6. PICK q, q2, lg, lg2 : q = lines /\ q2 = lines' /\ lg = log /\ lg2 = log'
    OBVIOUS
  <1>7. /\ IsHand(h, n, len) /\ Sure(h, q, next, ft, lg) /\ \A k \in DOMAIN q : q[k].b \in 1 .. n
        /\ Onward(q, next, ft, q2, next2, ft2, n) /\ \A i \in 1 .. len : lg2[i] = lg[i]
    BY <1>1, <1>2, <1>3, <1>4, <1>5, <1>6 DEF Keeps, Longer
  <1>8. Sure(h, q2, next2, ft2, lg2)
    BY ONLY <1>7, n \in Nat, len \in Nat, next \in Nat, next2 \in Nat, SureOnward
  <1> QED
    BY <1>4, <1>5, <1>6, <1>8

\* One hand changes.
LEMMA HandsStep ==
    ASSUME Typed, Hands, nextK' \in Nat, Keeps, NEW t \in Threads, NEW h,
           thread' = [thread EXCEPT ![t] = h], Sure(h, lines', nextK', Owed', log')
    PROVE  Hands'
  <1>1. ASSUME NEW u \in Threads
        PROVE  Sure(thread'[u], lines', nextK', Owed', log')
    <2>1. CASE u = t
      <3>1. thread'[u] = h
        BY <2>1 DEF Typed
      <3> QED
        BY <3>1
    <2>2. CASE u # t
      <3>1. thread'[u] = thread[u]
        BY <2>2
      <3> QED
        BY <3>1, HandsKept
    <2> QED
      BY <2>1, <2>2
  <1> QED
    BY <1>1 DEF Hands

LEMMA SameHands ==
    ASSUME Typed, Hands, nextK' \in Nat, Keeps, UNCHANGED thread
    PROVE  Hands'
  BY HandsKept DEF Hands

LEMMA NetKept ==
    ASSUME Typed, InNet, Keeps,
           \A f \in net' : f \in net \/ (f.b \in 1 .. N /\ Turn(f.b, Owed))
    PROVE  InNet'
  <1>1. \A f \in net : f.b \in 1 .. N
    BY DEF Typed, IsNet, Of
  <1>2. \A b \in 1 .. N : Turn(b, Owed) => Turn(b, Owed')
    BY Numbers, TurnOnward DEF Keeps, Onward
  <1> QED
    BY <1>1, <1>2 DEF InNet

\* A document of no residue had none before.
LEMMA CleanBefore ==
    ASSUME Typed, Longer, Len(log') \in Nat, DOMAIN log' = 1 .. Len(log'), N' \in Nat, N <= N',
           GivenUp \subseteq GivenUp', passed \subseteq passed', Clean'
    PROVE  /\ Clean
           /\ \A b : Landings(b) \subseteq Landings(b)'
  <1>1. \A b : Landings(b) \subseteq Landings(b)'
    BY Numbers DEF Longer, Landings
  <1>2. \A a \in 1 .. N : a \in 1 .. N'
    BY Numbers
  <1>3. ASSUME Residue PROVE FALSE
    <2>1. PICK a \in 1 .. N : \/ a \in GivenUp /\ Landings(a) # {}
                              \/ \E i, j \in Landings(a) : i # j
      BY <1>3 DEF Residue, Unclaimed, N
    <2>2. \/ a \in GivenUp' /\ Landings(a)' # {}
          \/ \E i, j \in Landings(a)' : i # j
      BY <1>1, <2>1
    <2> QED
      BY <1>2, <2>1, <2>2 DEF Clean, Residue, Unclaimed, N
  <1>4. passed = {}
    BY DEF Clean
  <1> QED
    BY <1>1, <1>3, <1>4 DEF Clean

\* In a document of no residue a write has one row at most, one given up none.
LEMMA CleanIs ==
    ASSUME Clean, NEW b \in 1 .. N
    PROVE  /\ \A i, j \in Landings(b) : i = j
           /\ b \in GivenUp => Landings(b) = {}
  BY DEF Clean, Residue, Unclaimed, N

\* A queue keeps copies of what is out before each of its lines.
LEMMA CopiesOf ==
    ASSUME NEW q, NEW n \in Nat, NEW ft, NEW dialing, Ascending(q),
           \A k \in DOMAIN q : k \in Nat /\ q[k].b \in 1 .. n,
           dialing # 0 => q = Empty,
           \A b \in 1 .. n : ft[b] = "out" => dialing = b \/ Holds(q, b)
    PROVE  Copies(q, ft)
  <1>1. ASSUME NEW k \in DOMAIN q, NEW a \in 1 .. q[k].b - 1, ft[a] = "out"
        PROVE  \E j \in DOMAIN q : j < k /\ q[j].b = a
    <2>1. a \in 1 .. n /\ a < q[k].b /\ a # 0
      OBVIOUS
    <2>2. q # Empty
      BY DEF Empty
    <2>3. PICK j \in DOMAIN q : q[j].b = a
      BY <1>1, <2>1, <2>2 DEF Holds
    <2>4. ~(k < j) /\ j # k
      BY <2>1, <2>3 DEF Ascending
    <2> QED
      BY <2>3, <2>4
  <1> QED
    BY <1>1 DEF Copies

LEMMA QueueCopies ==
    ASSUME Typed, Ascending(lines), Alone, OutIsHeld
    PROVE  Copies(lines, fate)
  <1>1. \A k \in DOMAIN lines : k \in Nat /\ lines[k].b \in 1 .. N
    BY LineTyped
  <1>2. Dialing # 0 => lines = Empty
    BY DEF Alone
  <1>3. \A b \in 1 .. N : fate[b] = "out" => Dialing = b \/ Holds(lines, b)
    BY DEF OutIsHeld
  <1>4. N \in Nat
    BY Numbers
  <1> HIDE DEF Dialing
  <1> QED
    BY <1>1, <1>2, <1>3, <1>4, CopiesOf

-----------------------------------------------------------------------------
(* The steps of the board *)

\* A dial is answered, with its own row where it is acked.
Reply(h, g, lg) ==
    /\ h.pc = "dial" /\ g.pc = "answer" /\ g.k = h.k /\ g.frame = h.frame
    /\ g.shifted = h.shifted /\ g.base = h.base
    /\ g.answer.kind = "acked" => lg[g.answer.at].b = h.frame.b

\* The log as it is, or with a row of another hand or of a write whose turn it is.
Row(r) == r.b = 0 \/ (r.b \in 1 .. N /\ Turn(r.b, Owed))
LogStep == log' = log \/ \E r \in RowSet : log' = Append(log, r) /\ Row(r)

BoardStep ==
    /\ UNCHANGED <<lines, disk, nextK, position, walk, burst, fate, passed>>
    /\ \A f \in net' : f \in net \/ \E t \in Threads : thread[t].pc = "dial" /\ f = thread[t].frame
    /\ LogStep
    /\ \A t \in Threads : thread'[t] = thread[t] \/ Reply(thread[t], thread'[t], log')

LEMMA LogStepIs ==
    ASSUME Typed, LogStep
    PROVE  /\ Longer /\ Len(log') \in Nat /\ DOMAIN log' = 1 .. Len(log')
           /\ \/ log' = log
              \/ /\ Len(log') = Len(log) + 1 /\ Row(log'[Len(log')]) /\ Len(log') \in DOMAIN log'
                 /\ \A i \in DOMAIN log' : i \in DOMAIN log \/ i = Len(log')
  <1>1. log \in Seq(RowSet) /\ Len(log) \in Nat /\ DOMAIN log = 1 .. Len(log)
    BY Numbers DEF Typed, IsLog
  <1>2. CASE log' = log
    BY <1>1, <1>2 DEF Longer
  <1>3. CASE \E r \in RowSet : log' = Append(log, r) /\ Row(r)
    <2>1. PICK r \in RowSet : log' = Append(log, r) /\ Row(r)
      BY <1>3
    <2>2. /\ log' \in Seq(RowSet) /\ Len(log') = Len(log) + 1 /\ log'[Len(log')] = r
          /\ \A i \in 1 .. Len(log) : log'[i] = log[i]
      BY <1>1, <2>1
    <2>3. DOMAIN log' = 1 .. Len(log') /\ Len(log') \in Nat /\ Len(log') \in DOMAIN log'
      BY <1>1, <2>2
    <2>4. Longer
      BY <1>1, <2>2 DEF Longer
    <2>5. Row(log'[Len(log')])
      <3>1. log'[Len(log')] = r
        BY <2>2
      <3> QED
        BY <2>1, <3>1
    <2>6. \A i \in DOMAIN log' : i \in DOMAIN log \/ i = Len(log')
      BY <1>1, <2>2, <2>3
    <2> QED
      BY <2>2, <2>3, <2>4, <2>5, <2>6
  <1> QED
    BY <1>2, <1>3 DEF LogStep

LEMMA BoardKeeps ==
    ASSUME Typed, BoardStep
    PROVE  Keeps /\ nextK' \in Nat /\ N' = N /\ GivenUp' = GivenUp /\ Dialing' = Dialing
  <1>1. nextK \in Nat /\ N \in Nat
    BY Numbers DEF Typed
  <1>2. Onward(lines, nextK, Owed, lines', nextK', Owed', N)
    BY <1>1 DEF Onward, BoardStep, Owed
  <1>3. Longer
    BY LogStepIs DEF BoardStep
  <1>4. Dialing' = Dialing
    <2>1. thread'["call"] = thread["call"] \/ Reply(thread["call"], thread'["call"], log')
      BY HandsAre DEF BoardStep
    <2> QED
      BY <2>1 DEF Dialing, Dialed, Reply
  <1> QED
    BY <1>1, <1>2, <1>3, <1>4 DEF Keeps, BoardStep, N, GivenUp

LEMMA BoardHands ==
    ASSUME Typed, Hands, BoardStep
    PROVE  Hands'
  <1>1. Keeps /\ nextK' \in Nat
    BY BoardKeeps
  <1>2. ASSUME NEW t \in Threads
        PROVE  Sure(thread'[t], lines', nextK', Owed', log')
    <2>1. Sure(thread[t], lines', nextK', Owed', log')
      BY <1>1, HandsKept
    <2>2. CASE thread'[t] = thread[t]
      BY <2>1, <2>2
    <2>3. CASE Reply(thread[t], thread'[t], log')
      BY <2>1, <2>3 DEF Reply, Sure, Named, HasFrame, HasLine
    <2> QED
      BY <2>2, <2>3 DEF BoardStep
  <1> QED
    BY <1>2 DEF Hands

LEMMA BoardNet ==
    ASSUME Typed, Hands, InNet, BoardStep
    PROVE  InNet'
  <1>1. ASSUME NEW t \in Threads, thread[t].pc = "dial"
        PROVE  thread[t].frame.b \in 1 .. N /\ Turn(thread[t].frame.b, Owed)
    BY <1>1, HandsAre DEF Hands, Sure, IsHand, Of, HasFrame
  <1>2. ASSUME NEW f \in net'
        PROVE  f \in net \/ (f.b \in 1 .. N /\ Turn(f.b, Owed))
    <2>1. f \in net \/ \E t \in Threads : thread[t].pc = "dial" /\ f = thread[t].frame
      BY DEF BoardStep
    <2> QED
      BY <1>1, <2>1
  <1>3. Keeps
    BY BoardKeeps
  <1> QED
    BY <1>2, <1>3, NetKept

LEMMA BoardOrder ==
    ASSUME Typed, Order, BoardStep
    PROVE  Order'
  BY BoardKeeps DEF Order, BoardStep, Ascending, Alone, OutIsHeld, Fated, Copies, Holds

LEMMA BoardAtHead ==
    ASSUME Typed, AtHead, BoardStep
    PROVE  AtHead'
  <1>1. thread'["drain"] = thread["drain"] \/ Reply(thread["drain"], thread'["drain"], log')
    BY HandsAre DEF BoardStep
  <1>2. UNCHANGED <<lines, nextK, walk, passed>>
    BY DEF BoardStep
  <1> QED
    BY <1>1, <1>2 DEF AtHead, Reply

\* What stands for every row the log has, and for the one that lands, stands.
LEMMA BoardRows ==
    ASSUME Typed, Order, Hands, AtHead, Clean => Rows, BoardStep, Clean'
    PROVE  Rows'
  <1>1. /\ Keeps /\ N' = N /\ GivenUp' = GivenUp /\ Dialing' = Dialing /\ N \in Nat
        /\ Len(log) \in Nat /\ DOMAIN log = 1 .. Len(log)
    BY BoardKeeps, Numbers
  <1>2. /\ Longer /\ Len(log') \in Nat /\ DOMAIN log' = 1 .. Len(log')
    BY LogStepIs DEF BoardStep
  <1>3. Clean /\ passed = {} /\ \A b : Landings(b) \subseteq Landings(b)'
    BY <1>1, <1>2, CleanBefore DEF BoardStep, Clean
  <1>4. Rows /\ UNCHANGED <<lines, disk, position, fate>>
    BY <1>3 DEF BoardStep
  <1>5. thread'["call"].pc \in {"dial", "answer"} => thread'["call"].base = thread["call"].base
    BY HandsAre DEF BoardStep, Reply
  <1>6. thread'["drain"].pc \in {"read", "site"} => thread'["drain"] = thread["drain"]
    BY HandsAre DEF BoardStep, Reply
  <1>7. KeptLanded'
    BY <1>1, <1>3, <1>4 DEF Rows, KeptLanded
  <1>8. CASE log' = log
    <2>1. \A b : Landings(b)' = Landings(b)
      BY <1>8 DEF Landings
    <2>2. RowsAscend'
      BY <1>1, <1>4, <1>8, <2>1 DEF Rows, RowsAscend
    <2>3. Based(lines, log)' /\ Based(disk, log)' /\ Positioned'
      BY <1>1, <1>4, <1>8 DEF Rows, Based, Positioned, Holds
    <2>4. CallBased' /\ ReadBased'
      BY <1>1, <1>4, <1>5, <1>6, <1>8 DEF Rows, CallBased, ReadBased, Below, Dialing, Dialed
    <2> QED
      BY <1>7, <2>2, <2>3, <2>4 DEF Rows
  <1>9. CASE log' # log
    <2>0. /\ Len(log') = Len(log) + 1 /\ Row(log'[Len(log')]) /\ Len(log') \in DOMAIN log'
          /\ \A j \in DOMAIN log' : j \in DOMAIN log \/ j = Len(log')
      BY <1>9, LogStepIs DEF BoardStep
    <2>a. PICK i \in Nat : i = Len(log')
      BY <1>2
    <2>b. PICK c : c = log'[i].b
      OBVIOUS
    <2>1. /\ i = Len(log) + 1 /\ i \in DOMAIN log' /\ i \notin DOMAIN log
          /\ \A j \in DOMAIN log' : j \in DOMAIN log \/ j = i
          /\ \A j \in DOMAIN log : log'[j] = log[j] /\ j \in DOMAIN log' /\ j < i
      BY <1>1, <1>2, <2>0, <2>a DEF Longer
    <2>2. c # 0 => c \in 1 .. N /\ Turn(c, fate)
      BY <1>3, <2>0, <2>a, <2>b, TurnIs DEF Row
    \* The write of the new row was out: it had no row, and was not given up.
    <2>3. c # 0 => fate[c] = "out"
      <3> SUFFICES ASSUME c # 0, fate[c] # "out" PROVE FALSE
        OBVIOUS
      <3>1. c \in 1 .. N /\ i \in Landings(c)' /\ i \notin Landings(c)
        BY <2>1, <2>2, <2>b DEF Landings
      <3>2. c \notin GivenUp'
        BY <1>1, <3>1 DEF Clean, Residue, Unclaimed, N
      <3>3. fate[c] \in Fates /\ fate[c] # "none"
        BY <3>1, FatesTyped DEF Order, Fated
      <3>4. fate[c] = "kept"
        BY <1>1, <3>1, <3>2, <3>3 DEF Fates, GivenUp, N
      <3>5. PICK j \in Landings(c) : TRUE
        BY <1>4, <3>1, <3>4 DEF Rows, KeptLanded
      <3>6. j \in Landings(c)' /\ j # i
        BY <1>3, <3>1, <3>5
      <3> QED
        BY <1>1, <3>1, <3>6 DEF Clean, Residue, Unclaimed, N
    <2>4. c # 0 => Dialing = c \/ Holds(lines, c)
      BY <2>2, <2>3 DEF Order, OutIsHeld
    <2>5. RowsAscend'
      <3>1. ASSUME NEW j \in DOMAIN log', NEW b \in 1 .. N, b < log'[j].b
            PROVE  b \in GivenUp \/ \E m \in Landings(b)' : m < j
        <4>1. CASE j \in DOMAIN log
          BY <1>3, <1>4, <2>1, <3>1, <4>1 DEF Rows, RowsAscend
        <4>2. CASE j = i
          <5>1. log'[j].b = c /\ b < c /\ c \in 1 .. N /\ b \in 1 .. c - 1
            BY <1>1, <2>2, <2>b, <3>1, <4>2
          <5>2. fate[b] # "out" /\ fate[b] # "none" /\ fate[b] \in Fates
            <6>1. fate[b] # "out"
              BY <2>2, <5>1 DEF Turn
            <6>2. fate[b] \in Fates
              BY FatesTyped
            <6> QED
              BY <6>1, <6>2 DEF Order, Fated
          <5>3. CASE fate[b] = "kept"
            <6>1. PICK m \in Landings(b) : TRUE
              BY <1>4, <5>3 DEF Rows, KeptLanded
            <6>2. m \in Landings(b)' /\ m < i
              BY <1>3, <2>1, <6>1 DEF Landings
            <6> QED
              BY <4>2, <6>2
          <5>4. CASE fate[b] # "kept"
            BY <5>2, <5>4 DEF Fates, GivenUp, N
          <5> QED
            BY <5>3, <5>4
        <4> QED
          BY <2>1, <4>1, <4>2
      <3> QED
        BY <1>1, <3>1 DEF RowsAscend
    <2>6. Based(lines, log)'
      <3>1. ASSUME NEW k \in DOMAIN lines, NEW j \in DOMAIN log', log'[j].b # 0, log'[j].b < lines[k].b
            PROVE  j <= lines[k].base \/ \E m \in DOMAIN lines : m < k /\ lines[m].b = log'[j].b
        <4>1. CASE j \in DOMAIN log
          BY <1>4, <2>1, <3>1, <4>1 DEF Rows, Based
        <4>2. CASE j = i
          <5>1. log'[j].b = c /\ c \in 1 .. N /\ fate[c] = "out" /\ c < lines[k].b
            BY <2>2, <2>3, <2>b, <3>1, <4>2
          <5>2. lines[k].b \in 1 .. N
            BY LineTyped
          <5>3. c \in 1 .. lines[k].b - 1
            BY <1>1, <5>1, <5>2
          <5>4. Copies(lines, fate)
            BY QueueCopies DEF Order
          <5> QED
            BY <5>1, <5>3, <5>4 DEF Copies
        <4> QED
          BY <2>1, <4>1, <4>2
      <3> QED
        BY <1>4, <3>1 DEF Based
    <2>7. Based(disk, log)'
      <3>1. ASSUME NEW k \in DOMAIN disk, NEW j \in DOMAIN log', log'[j].b # 0, log'[j].b < disk[k].b
            PROVE  j <= disk[k].base \/ \E m \in DOMAIN disk : m < k /\ disk[m].b = log'[j].b
        <4>1. CASE j \in DOMAIN log
          BY <1>4, <2>1, <3>1, <4>1 DEF Rows, Based
        <4>2. CASE j = i
          <5>1. log'[j].b = c /\ c \in 1 .. N /\ fate[c] = "out" /\ c < disk[k].b
            BY <2>2, <2>3, <2>b, <3>1, <4>2
          <5>2. disk[k].b \in 1 .. N
            BY DEF Typed, IsQueue, Of
          <5>3. c \in 1 .. disk[k].b - 1
            BY <1>1, <5>1, <5>2
          <5> QED
            BY <5>1, <5>3 DEF Order, Copies
        <4> QED
          BY <2>1, <4>1, <4>2
      <3> QED
        BY <1>4, <3>1 DEF Based
    <2>8. Positioned'
      <3>1. ASSUME NEW j \in DOMAIN log', log'[j].b # 0
            PROVE  j <= position \/ Dialing = log'[j].b \/ Holds(lines, log'[j].b)
        BY <1>4, <2>1, <2>4, <2>b, <3>1 DEF Rows, Positioned
      <3> QED
        BY <1>1, <1>4, <3>1 DEF Positioned
    <2>9. CallBased'
      <3>1. ASSUME Dialing # 0, NEW j \in DOMAIN log', log'[j].b # 0, log'[j].b < Dialing
            PROVE  j <= thread["call"].base
        <4>1. CASE j \in DOMAIN log
          BY <1>4, <2>1, <3>1, <4>1 DEF Rows, CallBased, Below
        <4>2. CASE j = i
          <5>1. lines = Empty /\ log'[j].b = c
            BY <2>b, <3>1, <4>2 DEF Order, Alone
          <5>2. c = Dialing
            BY <2>4, <3>1, <5>1 DEF Holds, Empty
          <5>3. Dialing \in Nat
            BY <1>1, <2>2, <3>1, <5>1, <5>2
          <5> QED
            BY <3>1, <5>1, <5>2, <5>3
        <4> QED
          BY <2>1, <4>1, <4>2
      <3>2. Dialing # 0 => thread'["call"].base = thread["call"].base
        BY <1>1, <1>5 DEF Dialing, Dialed
      <3> QED
        BY <1>1, <3>1, <3>2 DEF CallBased, Below
    <2>10. ReadBased'
      <3> DEFINE d == thread["drain"]
      <3>1. ASSUME d.pc \in {"read", "site"}, NEW j \in DOMAIN log', log'[j].b # 0, log'[j].b < d.line.b
            PROVE  j <= d.line.base
        <4>1. CASE j \in DOMAIN log
          BY <1>4, <2>1, <3>1, <4>1 DEF Rows, ReadBased, Below
        <4>2. CASE j = i
          <5>1. log'[j].b = c /\ c \in 1 .. N /\ fate[c] = "out" /\ c < d.line.b
            BY <2>2, <2>3, <2>b, <3>1, <4>2
          <5>2. Turn(d.line.b, fate) /\ d.line.b \in 1 .. N
            <6>1. Turn(d.line.b, Owed) /\ d.line.b \in 1 .. N
              BY <3>1, HandsAre DEF Hands, Sure, HasLine, IsHand, Of
            <6> QED
              BY <1>3, <6>1, TurnIs
          <5> QED
            BY <1>1, <5>1, <5>2 DEF Turn
        <4> QED
          BY <2>1, <4>1, <4>2
      <3> QED
        BY <1>6, <3>1 DEF ReadBased, Below
    <2> QED
      BY <1>7, <2>5, <2>6, <2>7, <2>8, <2>9, <2>10 DEF Rows
  <1> QED
    BY <1>8, <1>9

\* A step of the board keeps the invariant.
LEMMA BoardStepKeeps ==
    ASSUME HoldInv, Typed', BoardStep
    PROVE  HoldInv'
  BY BoardHands, BoardNet, BoardOrder, BoardAtHead, BoardRows DEF HoldInv


\* The steps of the board are such steps.
LEMMA AnswersStep ==
    ASSUME Typed, NEW f \in FrameSet, Of(f, N, Len(log)), Turn(f.b, Owed), NEW kind, Answers(f, kind)
    PROVE  /\ LogStep
           /\ kind = "acked" => log'[Len(log')].b = f.b
  <1>1. log \in Seq(RowSet) /\ f.b \in 1 .. N /\ f.b \in Nat
    BY DEF Typed, IsLog, Of, FrameSet
  <1>2. \/ log' = log /\ kind # "acked"
        \/ \E lost \in BOOLEAN : log' = Append(log, [b |-> f.b, op |-> f.op, lost |-> lost])
    BY AnswersTyped
  <1>3. CASE log' = log /\ kind # "acked"
    BY <1>3 DEF LogStep
  <1>4. ASSUME NEW lost \in BOOLEAN, log' = Append(log, [b |-> f.b, op |-> f.op, lost |-> lost])
        PROVE  LogStep /\ log'[Len(log')].b = f.b
    <2>1. PICK r : r = [b |-> f.b, op |-> f.op, lost |-> lost]
      OBVIOUS
    <2>2. r \in RowSet /\ r.b = f.b /\ log' = Append(log, r)
      BY <1>1, <1>4, <2>1 DEF RowSet, FrameSet
    <2>3. log'[Len(log')] = r
      BY <1>1, <2>2
    <2>4. Row(r)
      BY <1>1, <2>2 DEF Row
    <2> QED
      BY <2>2, <2>3, <2>4 DEF LogStep
  <1> QED
    BY <1>2, <1>3, <1>4

LEMMA DialHas ==
    ASSUME Typed, Hands, NEW t \in Threads, thread[t].pc = "dial"
    PROVE  /\ thread[t].frame \in FrameSet /\ Of(thread[t].frame, N, Len(log))
           /\ Turn(thread[t].frame.b, Owed)
  <1>1. thread[t] \in DialSet /\ IsHand(thread[t], N, Len(log))
    BY HandsAre, Shapes
  <1> QED
    BY <1>1 DEF DialSet, IsHand, HasFrame, Hands, Sure

LEMMA AnsweredReplies ==
    ASSUME Typed, NEW t \in Threads, thread[t].pc = "dial", NEW kind, NEW at, NEW lg, Answered(t, kind, at),
           kind = "acked" => lg[at].b = thread[t].frame.b
    PROVE  \A u \in Threads : thread'[u] = thread[u] \/ Reply(thread[u], thread'[u], lg)
  <1> DEFINE d == thread[t]
  <1>1. PICK g : g = [pc |-> "answer", k |-> d.k, frame |-> d.frame, shifted |-> d.shifted,
                      base |-> d.base, answer |-> [kind |-> kind, at |-> at]]
    OBVIOUS
  <1>2. thread' = [thread EXCEPT ![t] = g]
    BY <1>1 DEF Answered
  <1>3. Reply(d, g, lg)
    BY <1>1 DEF Reply
  <1>4. ASSUME NEW u \in Threads
        PROVE  thread'[u] = thread[u] \/ Reply(thread[u], thread'[u], lg)
    <2>1. CASE u = t
      <3>1. thread'[u] = g
        BY <1>2, <2>1 DEF Typed
      <3> QED
        BY <1>3, <2>1, <3>1
    <2>2. CASE u # t
      BY <1>2, <2>2
    <2> QED
      BY <2>1, <2>2
  <1> QED
    BY <1>4

LEMMA BoardAnswersIs ==
    ASSUME Typed, Hands, NEW t \in Threads, BoardAnswers(t)
    PROVE  BoardStep
  <1>1. PICK kind : /\ Answers(thread[t].frame, kind)
                    /\ Answered(t, kind, IF kind \in {"acked", "moved"} THEN Len(log') ELSE 0)
    BY DEF BoardAnswers
  <1>2. PICK at : /\ at = (IF kind \in {"acked", "moved"} THEN Len(log') ELSE 0)
                  /\ Answered(t, kind, at)
    BY <1>1
  <1>3. thread[t].pc = "dial"
    BY DEF BoardAnswers
  <1>4. LogStep /\ (kind = "acked" => log'[Len(log')].b = thread[t].frame.b)
    BY <1>1, <1>3, DialHas, AnswersStep
  <1>5. PICK lg : lg = log'
    OBVIOUS
  <1>6. kind = "acked" => lg[at].b = thread[t].frame.b
    BY <1>2, <1>4, <1>5
  <1>7. \A u \in Threads : thread'[u] = thread[u] \/ Reply(thread[u], thread'[u], lg)
    BY <1>2, <1>3, <1>6, AnsweredReplies
  <1>8. UNCHANGED <<lines, disk, nextK, position, walk, burst, fate, net, passed>>
    BY DEF BoardAnswers, store, page
  <1> QED
    BY <1>4, <1>5, <1>7, <1>8 DEF BoardStep

LEMMA BoardRefusesIs ==
    ASSUME Typed, NEW t \in Threads, BoardRefuses(t) \/ DialFails(t)
    PROVE  BoardStep
  <1>1. PICK kind : Answered(t, kind, 0) /\ kind # "acked"
    BY DEF BoardRefuses, DialFails
  <1>2. thread[t].pc = "dial" /\ UNCHANGED <<log, lines, disk, nextK, position, walk, burst, fate, passed>>
    BY DEF BoardRefuses, DialFails, store, page, board
  <1>3. net' = net \/ net' = net \cup {thread[t].frame}
    BY DEF BoardRefuses, DialFails
  <1>4. \A u \in Threads : thread'[u] = thread[u] \/ Reply(thread[u], thread'[u], log)
    BY <1>1, <1>2, AnsweredReplies
  <1> QED
    BY <1>2, <1>3, <1>4 DEF BoardStep, LogStep

LEMMA LateIs ==
    ASSUME Typed, InNet, NEW f \in net, Late(f)
    PROVE  BoardStep
  <1>1. f \in FrameSet /\ Of(f, N, Len(log)) /\ Turn(f.b, Owed)
    BY DEF Typed, IsNet, InNet
  <1>2. LogStep
    BY <1>1, AnswersStep DEF Late
  <1>3. UNCHANGED <<lines, disk, nextK, position, walk, burst, fate, thread, passed>> /\ net' = net \ {f}
    BY DEF Late, store, page
  <1> QED
    BY <1>2, <1>3 DEF BoardStep

LEMMA OtherHandIs ==
    ASSUME Typed, OtherHand
    PROVE  BoardStep
  <1>1. PICK r : r = [b |-> 0, op |-> "other", lost |-> FALSE]
    OBVIOUS
  <1>2. r \in RowSet /\ Row(r) /\ log' = Append(log, r)
    BY <1>1 DEF RowSet, Row, OtherHand
  <1>3. UNCHANGED <<lines, disk, nextK, position, walk, burst, fate, thread, net, passed>>
    BY DEF OtherHand, store, page
  <1> QED
    BY <1>2, <1>3 DEF BoardStep, LogStep

-----------------------------------------------------------------------------
(* The steps of the queue: the log is as it was, the file the queue as it    *)
(* is or the file as it was.                                                 *)

\* The order after a step, from what it does to the lines and the fates.
LEMMA OrderMade ==
    ASSUME Typed, Typed', Order, disk' = lines' \/ disk' = disk, Ascending(lines'),
           \A b \in 1 .. N : fate'[b] = "out" => fate[b] = "out",
           Alone', OutIsHeld',
           \A b \in 1 .. N' : fate'[b] # "none",
           \A k \in DOMAIN lines' : fate'[lines'[k].b] \in Standing,
           \A k \in DOMAIN disk : fate'[disk[k].b] # "closed"
    PROVE  Order'
  <1>0. N' \in Nat /\ IsQueue(lines', N', Len(log'), nextK') /\ nextK' \in Nat
    BY DEF Typed, N
  <1>1. PICK n, q, ft, dialing : n \in Nat /\ n = N' /\ q = lines' /\ ft = fate' /\ dialing = Dialing'
    BY <1>0
  <1>2. \A k \in DOMAIN q : k \in Nat /\ q[k].b \in 1 .. n
    BY <1>0, <1>1 DEF IsQueue, Of
  <1>3. dialing # 0 => q = Empty
    BY <1>1 DEF Alone
  <1>4. \A b \in 1 .. n : ft[b] = "out" => dialing = b \/ Holds(q, b)
    BY <1>1 DEF OutIsHeld
  <1>5. Copies(q, ft)
    BY <1>1, <1>2, <1>3, <1>4, CopiesOf
  <1>6. Copies(disk, fate')
    <2>1. \A k \in DOMAIN disk : disk[k].b \in 1 .. N /\ N \in Nat
      BY Numbers DEF Typed, IsQueue, Of
    <2>2. \A k \in DOMAIN disk : \A a \in 1 .. disk[k].b - 1 : a \in 1 .. N
      BY <2>1
    <2> QED
      BY <2>2 DEF Order, Copies
  <1>7. Ascending(disk') /\ Copies(disk', fate')
    BY <1>1, <1>5, <1>6 DEF Order
  <1>8. Fated'
    <2>1. \A k \in DOMAIN disk' : fate'[disk'[k].b] # "closed"
      BY DEF Standing
    <2> QED
      BY <2>1 DEF Fated
  <1> QED
    BY <1>7, <1>8 DEF Order

\* The rows after a step, from what it does to the lines and the position.
LEMMA RowsMade ==
    ASSUME Typed, Rows, log' = log, GivenUp \subseteq GivenUp', disk' = lines' \/ disk' = disk,
           N' \in Nat, N <= N', Based(lines', log), Positioned', CallBased', ReadBased', KeptLanded'
    PROVE  Rows'
  <1>1. \A b : Landings(b)' = Landings(b)
    BY DEF Landings
  <1>2. RowsAscend'
    <2>1. ASSUME NEW i \in DOMAIN log, NEW b \in 1 .. N', b < log[i].b
          PROVE  b \in GivenUp \/ \E j \in Landings(b) : j < i
      <3>1. log[i].b \in Nat /\ log[i].b <= N /\ N \in Nat
        <4>1. IsLog(log, N)
          BY DEF Typed
        <4>2. log[i] \in RowSet /\ log[i].b <= N
          BY ONLY <4>1, i \in DOMAIN log DEF IsLog
        <4> QED
          BY <4>2, Numbers DEF RowSet
      <3>2. b \in 1 .. N
        BY <2>1, <3>1
      <3> QED
        BY <2>1, <3>2 DEF Rows, RowsAscend
    <2> QED
      BY <1>1, <2>1 DEF RowsAscend
  <1>3. Based(lines', log') /\ Based(disk', log')
    BY DEF Rows
  <1> QED
    BY <1>2, <1>3 DEF Rows

\* What is clean after a step was clean before it, and has the rows it had.
LEMMA CleanStep ==
    ASSUME Typed, log' = log, N' \in Nat, N <= N', GivenUp \subseteq GivenUp',
           passed \subseteq passed', Clean'
    PROVE  Clean
  <1>1. Longer /\ Len(log') \in Nat /\ DOMAIN log' = 1 .. Len(log')
    BY Numbers DEF Longer
  <1> QED
    BY <1>1, CleanBefore

\* The drain where it stood has the read it had.
LEMMA SameRead ==
    ASSUME ReadBased, log' = log, thread'["drain"] = thread["drain"]
    PROVE  ReadBased'
  BY DEF ReadBased, Below

\* A step that re-marks the lines at most.
RemarkStep ==
    /\ UNCHANGED <<log, net, position, burst, fate>> /\ passed \subseteq passed'
    /\ Remarked(lines') /\ Changed(lines') /\ nextK' = nextK

LEMMA RemarkKeeps ==
    ASSUME Typed, RemarkStep
    PROVE  /\ Keeps /\ nextK' \in Nat /\ N' = N /\ GivenUp' = GivenUp
           /\ DOMAIN lines' = DOMAIN lines /\ \A k \in DOMAIN lines : lines'[k].b = lines[k].b
  <1>1. nextK \in Nat /\ N \in Nat
    BY Numbers DEF Typed
  <1>2. DOMAIN lines' = DOMAIN lines /\ \A k \in DOMAIN lines : lines'[k].b = lines[k].b
    BY DEF RemarkStep, Remarked
  <1>3. Onward(lines, nextK, Owed, lines', nextK', Owed', N)
    BY <1>1, <1>2, OwedOnward DEF Onward, RemarkStep
  <1>4. Longer
    BY Numbers DEF Longer, RemarkStep
  <1> QED
    BY <1>1, <1>2, <1>3, <1>4 DEF Keeps, RemarkStep, N, GivenUp

LEMMA RemarkOrder ==
    ASSUME Typed, Typed', Order, RemarkStep, Dialing' = Dialing
    PROVE  Order'
  <1>1. N' = N /\ DOMAIN lines' = DOMAIN lines /\ \A k \in DOMAIN lines : lines'[k].b = lines[k].b
    BY RemarkKeeps
  <1>2. fate' = fate /\ (disk' = lines' \/ disk' = disk)
    BY DEF RemarkStep, Changed
  <1>3. Ascending(lines')
    BY <1>1 DEF Order, Ascending
  <1>4. Alone'
    <2>1. lines = Empty => lines' = Empty
      <3>1. lines' \in [DOMAIN lines -> LineSet]
        BY DEF RemarkStep, Remarked
      <3> QED
        BY <3>1 DEF Empty
    <2> QED
      BY <1>1, <1>2, <2>1 DEF Order, Alone
  <1>5. OutIsHeld'
    BY <1>1, <1>2 DEF Order, OutIsHeld, Holds
  <1>6. \A k \in DOMAIN lines' : fate'[lines'[k].b] \in Standing
    BY <1>1, <1>2 DEF Order, Fated
  <1>7. \A b \in 1 .. N' : fate'[b] # "none"
    BY <1>1, <1>2 DEF Order, Fated
  <1>8. \A k \in DOMAIN disk : fate'[disk[k].b] # "closed"
    BY <1>2 DEF Order, Fated
  <1> QED
    BY <1>2, <1>3, <1>4, <1>5, <1>6, <1>7, <1>8, OrderMade

LEMMA RemarkRows ==
    ASSUME Typed, Rows, RemarkStep, Dialing' = Dialing,
           Dialing # 0 => thread'["call"].base = thread["call"].base, ReadBased'
    PROVE  Rows'
  <1>1. /\ N' = N /\ GivenUp' = GivenUp /\ N \in Nat
        /\ DOMAIN lines' = DOMAIN lines /\ \A k \in DOMAIN lines : lines'[k].b = lines[k].b
    BY RemarkKeeps, Numbers
  <1>2. /\ UNCHANGED <<log, position, fate>> /\ (disk' = lines' \/ disk' = disk)
        /\ \A b : Landings(b)' = Landings(b)
    BY DEF RemarkStep, Changed, Landings
  <1>3. Based(lines', log)
    <2>1. ASSUME NEW k \in DOMAIN lines, NEW i \in DOMAIN log, log[i].b # 0, log[i].b < lines[k].b
          PROVE  i <= lines'[k].base \/ \E j \in DOMAIN lines : j < k /\ lines[j].b = log[i].b
      <3>1. i <= lines[k].base \/ \E j \in DOMAIN lines : j < k /\ lines[j].b = log[i].b
        BY <2>1 DEF Rows, Based
      <3>2. lines[k].base <= lines'[k].base /\ lines'[k].base \in Nat /\ lines[k].base \in Nat /\ i \in Nat
        <4>1. lines'[k] \in LineSet
          BY DEF RemarkStep, Remarked
        <4>2. i \in Nat
          BY Numbers
        <4> QED
          BY <4>1, <4>2, LineTyped DEF RemarkStep, Remarked, LineSet
      <3> QED
        BY <3>1, <3>2
    <2> QED
      BY <1>1, <2>1 DEF Based
  <1>4. Positioned'
    BY <1>1, <1>2 DEF Rows, Positioned, Holds
  <1>5. CallBased'
    BY <1>2 DEF Rows, CallBased, Below
  <1>6. KeptLanded'
    BY <1>1, <1>2 DEF Rows, KeptLanded
  <1> QED
    BY <1>1, <1>2, <1>3, <1>4, <1>5, <1>6, RowsMade

\* Such a step of one hand.
LEMMA RemarkMade ==
    ASSUME HoldInv, Typed', RemarkStep, NEW t \in Threads, NEW h,
           thread' = [thread EXCEPT ![t] = h], Sure(h, lines', nextK', Owed', log'),
           Dialing' = Dialing, Dialing # 0 => thread'["call"].base = thread["call"].base,
           AtHead', Clean /\ Rows => ReadBased'
    PROVE  HoldInv'
  <1>1. Typed /\ Order /\ Hands /\ InNet
    BY DEF HoldInv
  <1>2. Order'
    BY <1>1, RemarkOrder
  <1>3. Hands'
    BY <1>1, RemarkKeeps, HandsStep
  <1>4. InNet'
    BY <1>1, RemarkKeeps, NetKept DEF RemarkStep
  <1>5. Clean' => Rows'
    <2>1. Clean' => Clean
      BY DEF RemarkStep, Clean, Residue, Unclaimed, Landings, GivenUp
    <2> QED
      BY <1>1, <2>1, RemarkRows DEF HoldInv
  <1> QED
    BY <1>2, <1>3, <1>4, <1>5 DEF HoldInv


\* The drain stands where it stood over a queue with lines gone or a new one last.
LEMMA SameHead ==
    ASSUME Typed, AtHead, thread'["drain"] = thread["drain"], walk' = walk,
           nextK' \in Nat, nextK <= nextK',
           \A k \in DOMAIN lines' : k \in Nat
                /\ ((k \in DOMAIN lines /\ lines'[k].b = lines[k].b) \/ nextK <= k),
           passed \subseteq passed'
    PROVE  AtHead'
  <1> DEFINE d == thread["drain"]
  <1>1. walk.after \in Nat /\ nextK \in Nat /\ walk.after < nextK
    BY DEF Typed, WalkSet, AtHead
  <1>2. walk'.after < nextK'
    BY <1>1
  <1>3. d.pc = "walk" /\ ~walk.stopped =>
            \A k \in DOMAIN lines' : walk.after < k \/ lines'[k].b \in passed'
    BY <1>1 DEF AtHead
  <1>4. d.pc \in {"read", "site"} =>
            ~walk.stopped /\ \A k \in DOMAIN lines' : walk.after < k \/ lines'[k].b \in passed'
    BY <1>1 DEF AtHead
  <1>5. d.pc \in {"send", "dial", "answer", "shift", "shifted"} =>
            walk.after = d.k /\ \A k \in DOMAIN lines' : d.k <= k \/ lines'[k].b \in passed'
    BY <1>1 DEF AtHead
  <1> QED
    BY <1>2, <1>3, <1>4, <1>5 DEF AtHead

LEMMA RemarkHead ==
    ASSUME Typed, AtHead, RemarkStep, thread'["drain"] = thread["drain"], walk' = walk
    PROVE  AtHead'
  <1>1. /\ DOMAIN lines' = DOMAIN lines /\ nextK' = nextK /\ passed \subseteq passed'
        /\ \A k \in DOMAIN lines : lines'[k].b = lines[k].b
    BY RemarkKeeps DEF RemarkStep
  <1>2. nextK \in Nat /\ \A k \in DOMAIN lines : k \in Nat
    BY LineTyped DEF Typed
  <1> QED
    BY <1>1, <1>2, SameHead

LEMMA RemarkCall ==
    ASSUME HoldInv, Typed', RemarkStep, NEW h, thread' = [thread EXCEPT !["call"] = h],
           Sure(h, lines', nextK', Owed', log'), walk' = walk, Dialing = 0, Dialed(h) = 0
    PROVE  HoldInv'
  <1>1. Typed /\ "call" \in Threads
    BY HandsAre DEF HoldInv
  <1>2. thread'["call"] = h /\ thread'["drain"] = thread["drain"]
    BY <1>1 DEF Typed
  <1>3. Dialing' = Dialing
    BY <1>2 DEF Dialing
  <1>4. AtHead'
    BY <1>1, <1>2, RemarkHead DEF HoldInv
  <1>5. Clean /\ Rows => ReadBased'
    BY <1>2, SameRead DEF Rows, RemarkStep
  <1> QED
    BY <1>1, <1>3, <1>4, <1>5, RemarkMade

LEMMA RemarkDrain ==
    ASSUME HoldInv, Typed', RemarkStep, NEW h, thread' = [thread EXCEPT !["drain"] = h],
           Sure(h, lines', nextK', Owed', log'), AtHead', Clean /\ Rows => ReadBased'
    PROVE  HoldInv'
  <1>1. Typed /\ "drain" \in Threads
    BY HandsAre DEF HoldInv
  <1>2. thread'["call"] = thread["call"]
    BY <1>1 DEF Typed
  <1>3. Dialing' = Dialing
    BY <1>2 DEF Dialing
  <1> QED
    BY <1>1, <1>2, <1>3, RemarkMade

\* The call ends, the drain stops at a line, or sends on from it.
LEMMA CallRests ==
    ASSUME HoldInv, Typed', RemarkStep, thread' = [thread EXCEPT !["call"] = Idle],
           walk' = walk, Dialing = 0
    PROVE  HoldInv'
  <1>1. Dialed(Idle) = 0
    BY DEF Dialed, Idle
  <1> QED
    BY <1>1, RestSure, RemarkCall

LEMMA DrainStops ==
    ASSUME HoldInv, Typed', RemarkStep, NEW k \in Nat, k < nextK,
           thread' = [thread EXCEPT !["drain"] = [pc |-> "walk"]],
           walk' = [after |-> k, sending |-> FALSE, stopped |-> TRUE]
    PROVE  HoldInv'
  <1>1. PICK h : h = [pc |-> "walk"]
    OBVIOUS
  <1>2. thread' = [thread EXCEPT !["drain"] = h] /\ h.pc = "walk"
    BY <1>1
  <1>3. thread'["drain"] = h
    BY <1>2 DEF Typed, HoldInv, Threads
  <1>4. AtHead'
    BY <1>2, <1>3 DEF AtHead, RemarkStep
  <1>5. Clean /\ Rows => ReadBased'
    BY <1>2, <1>3 DEF ReadBased
  <1> QED
    BY <1>1, <1>2, <1>4, <1>5, RestSure, RemarkDrain

LEMMA DrainSends ==
    ASSUME HoldInv, Typed', RemarkStep, ~walk.stopped,
           \A k \in DOMAIN lines : walk.after < k \/ lines[k].b \in passed,
           thread' = [thread EXCEPT !["drain"] = [pc |-> "walk"]],
           walk' = [walk EXCEPT !.sending = TRUE]
    PROVE  HoldInv'
  <1>1. PICK h : h = [pc |-> "walk"]
    OBVIOUS
  <1>2. thread' = [thread EXCEPT !["drain"] = h] /\ h.pc = "walk"
    BY <1>1
  <1>3. thread'["drain"] = h
    BY <1>2 DEF Typed, HoldInv, Threads
  <1>4. /\ walk'.after = walk.after /\ DOMAIN lines' = DOMAIN lines /\ nextK' = nextK
        /\ passed \subseteq passed' /\ \A k \in DOMAIN lines : lines'[k].b = lines[k].b
    BY RemarkKeeps DEF HoldInv, Typed, WalkSet, RemarkStep
  <1>5. AtHead'
    BY <1>2, <1>3, <1>4 DEF AtHead, HoldInv
  <1>6. Clean /\ Rows => ReadBased'
    BY <1>2, <1>3 DEF ReadBased
  <1> QED
    BY <1>1, <1>2, <1>5, <1>6, RestSure, RemarkDrain

LEMMA HeadKeeps ==
    ASSUME HoldInv, Typed', NEW k \in Nat, k < nextK, SendFromHead(k),
           thread["drain"].pc \in {"walk", "read", "site"}, ~walk.stopped,
           UNCHANGED <<log, net, position, burst, fate, passed>>
    PROVE  HoldInv'
  <1>1. /\ Remarked(lines') /\ Changed(lines') /\ nextK' = nextK
        /\ \/ walk' = [walk EXCEPT !.sending = TRUE]
           \/ walk' = [after |-> k, sending |-> FALSE, stopped |-> TRUE]
        /\ thread' = [thread EXCEPT !["drain"] = [pc |-> "walk"]]
    BY SendFromHeadMarks DEF HoldInv
  <1>2. RemarkStep
    BY <1>1 DEF RemarkStep
  <1>3. \A j \in DOMAIN lines : walk.after < j \/ lines[j].b \in passed
    BY DEF HoldInv, AtHead
  <1>4. CASE walk' = [walk EXCEPT !.sending = TRUE]
    BY <1>1, <1>2, <1>3, <1>4, DrainSends
  <1>5. CASE walk' = [after |-> k, sending |-> FALSE, stopped |-> TRUE]
    BY <1>1, <1>2, <1>5, DrainStops
  <1> QED
    BY <1>1, <1>4, <1>5

\* What a hand that names a line has of it.
LEMMA NamedIs ==
    ASSUME HoldInv, NEW t \in Threads, thread[t].pc \in Named
    PROVE  thread[t].k \in Nat /\ thread[t].k < nextK
  <1>1. IsHand(thread[t], N, Len(log)) /\ thread[t] \in ThreadSet
    BY HandsAre DEF HoldInv
  <1>2. thread[t].k \in Nat
    BY <1>1, Shapes DEF Named, DialSet, AnsweredSet, ReadSet, SiteSet, ShiftSet, ShiftedSet
  <1> QED
    BY <1>2 DEF HoldInv, Hands, Sure

LEMMA ShiftAndSendKeeps ==
    ASSUME HoldInv, Typed', NEW t \in Threads, ShiftAndSend(t)
    PROVE  HoldInv'
  <1> DEFINE k == thread[t].k
             first == IF k \in DOMAIN lines THEN ShiftedFirst(lines[k].b) ELSE 0
  <1>1. /\ Typed /\ thread[t].pc = "shift" /\ thread[t].current \in Nat /\ thread[t].current <= Len(log)
        /\ UNCHANGED <<log, net, position, burst, fate, passed>> /\ k \in Nat /\ k < nextK
    <2>1. Typed /\ thread[t].pc = "shift"
      BY DEF HoldInv, ShiftAndSend
    <2>2. thread[t] \in ShiftSet /\ IsHand(thread[t], N, Len(log))
      BY <2>1, HandsAre, Shapes
    <2>3. UNCHANGED <<log, net, position, burst, fate, passed>>
      BY DEF ShiftAndSend, board, page
    <2>4. k \in Nat /\ k < nextK
      BY <2>1, NamedIs DEF Named
    <2> QED
      BY <2>1, <2>2, <2>3, <2>4 DEF ShiftSet, IsHand
  <1>2. t = "call" => Dialing = 0
    BY <1>1 DEF Dialing, Dialed
  <1>3. CASE /\ first # 0
             /\ thread' = [thread EXCEPT ![t] =
                   [pc |-> "shifted", k |-> k, line |-> lines[k],
                    frame |-> [Frame(lines[k]) EXCEPT !.first = first, !.asOf = Len(log)]]]
             /\ UNCHANGED <<lines, disk, nextK, walk, count>>
    <2>1. k \in DOMAIN lines
      BY <1>3
    <2>2. PICK g : g = [Frame(lines[k]) EXCEPT !.first = first, !.asOf = Len(log)]
      OBVIOUS
    <2>3. g.b = lines[k].b
      <3> HIDE DEF k, first
      <3> QED
        BY <2>2 DEF Frame
    <2>4. PICK h : h = [pc |-> "shifted", k |-> k, line |-> lines[k], frame |-> g]
      OBVIOUS
    <2>5. /\ h.pc = "shifted" /\ h.k = k /\ h.line = lines[k] /\ h.frame.b = lines[k].b
          /\ thread' = [thread EXCEPT ![t] = h]
      BY <1>3, <2>2, <2>3, <2>4
    <2>6. RemarkStep
      BY <1>1, <1>3, SameQueue DEF RemarkStep
    <2>7. Turn(lines[k].b, Owed)
      BY <1>1, <2>1 DEF HoldInv, Hands, Sure
    <2>8. Sure(h, lines', nextK', Owed', log')
      <3> HIDE DEF k, first
      <3>1. Sure(h, lines, nextK, Owed, log)
        BY <1>1, <2>5, <2>7 DEF Sure, Named, HasFrame, HasLine
      <3> QED
        BY <1>1, <1>3, <3>1 DEF Owed
    <2>9. CASE t = "call"
      BY <1>2, <1>3, <2>5, <2>6, <2>8, <2>9, RemarkCall DEF Dialed
    <2>10. CASE t = "drain"
      <3>1. thread'["drain"] = h
        BY <1>1, <2>5, <2>10 DEF Typed
      <3>2. AtHead'
        BY <1>1, <1>3, <2>5, <2>10, <3>1 DEF HoldInv, AtHead
      <3>3. Clean /\ Rows => ReadBased'
        BY <2>5, <3>1 DEF ReadBased
      <3> QED
        BY <2>5, <2>6, <2>8, <2>10, <3>2, <3>3, RemarkDrain
    <2> QED
      BY <2>9, <2>10 DEF Threads
  <1>4. CASE /\ Remark(MarkMoved(k, thread[t].current))
             /\ thread' = [thread EXCEPT ![t] = IF t = "call" THEN Idle ELSE [pc |-> "walk"]]
             /\ walk' = IF t = "call" THEN walk
                        ELSE [after |-> k, sending |-> FALSE, stopped |-> TRUE]
    <2>1. RemarkStep
      BY <1>1, <1>4, MovedMarks DEF RemarkStep
    <2>2. CASE t = "call"
      BY <1>2, <1>4, <2>1, <2>2, CallRests
    <2>3. CASE t = "drain"
      BY <1>1, <1>4, <2>1, <2>3, DrainStops
    <2> QED
      BY <2>2, <2>3 DEF Threads
  <1> QED
    BY <1>3, <1>4 DEF ShiftAndSend

LEMMA DialShiftedKeeps ==
    ASSUME HoldInv, Typed', NEW t \in Threads, DialShifted(t)
    PROVE  HoldInv'
  <1>1. Typed /\ Hands /\ thread[t].pc = "shifted"
    BY DEF HoldInv, DialShifted
  <1>2. RemarkStep /\ walk' = walk /\ Keeps /\ nextK' \in Nat
    <2>1. UNCHANGED <<log, net, position, burst, fate, walk, passed>>
      BY DEF DialShifted, board, page
    <2>2. RemarkStep
      BY <1>1, <2>1, DialShiftedMarks DEF RemarkStep
    <2> QED
      BY <1>1, <2>1, <2>2, RemarkKeeps
  <1>3. PICK h : h = Dial(thread[t].k, thread[t].frame, TRUE, 0)
    OBVIOUS
  <1>4. /\ h.pc = "dial" /\ h.k = thread[t].k /\ h.frame = thread[t].frame /\ h.shifted = TRUE
        /\ thread' = [thread EXCEPT ![t] = h]
    BY <1>3 DEF Dial, DialShifted
  <1>5. Sure(h, lines', nextK', Owed', log')
    <2>1. Sure(thread[t], lines', nextK', Owed', log')
      BY <1>1, <1>2, HandsKept
    <2> QED
      BY <1>1, <1>4, <2>1 DEF Sure, Named, HasFrame, HasLine
  <1>6. CASE t = "call"
    <2>1. Dialing = 0
      BY <1>1, <1>6 DEF Dialing, Dialed
    <2> QED
      BY <1>2, <1>4, <1>5, <1>6, <2>1, RemarkCall DEF Dialed
  <1>7. CASE t = "drain"
    <2>1. thread'["drain"] = h
      BY <1>1, <1>4, <1>7 DEF Typed
    <2>2. /\ DOMAIN lines' = DOMAIN lines /\ nextK' = nextK /\ passed \subseteq passed'
          /\ \A j \in DOMAIN lines : lines'[j].b = lines[j].b
      BY <1>1, <1>2, RemarkKeeps DEF RemarkStep
    <2>3. AtHead'
      BY <1>1, <1>2, <1>4, <1>7, <2>1, <2>2 DEF HoldInv, AtHead
    <2>4. Clean /\ Rows => ReadBased'
      BY <1>4, <2>1 DEF ReadBased
    <2> QED
      BY <1>2, <1>4, <1>5, <1>7, <2>3, <2>4, RemarkDrain
  <1> QED
    BY <1>6, <1>7 DEF Threads


LEMMA SendLineKeeps ==
    ASSUME HoldInv, Typed', SendLine
    PROVE  HoldInv'
  <1> DEFINE d == thread["drain"]
  <1>1. Typed /\ Hands /\ AtHead /\ d.pc = "send" /\ "drain" \in Threads
    BY HandsAre DEF HoldInv, SendLine
  <1>2. RemarkStep /\ walk' = walk /\ Keeps /\ nextK' \in Nat
    <2>1. UNCHANGED <<log, net, position, burst, fate, walk, passed>>
      BY DEF SendLine, board, page
    <2>2. RemarkStep
      BY <1>1, <2>1, SendLineMarks DEF RemarkStep
    <2> QED
      BY <1>1, <2>1, <2>2, RemarkKeeps
  <1>3. PICK f : f = Frame(d.line)
    OBVIOUS
  <1>4. PICK h : h = Dial(d.k, f, FALSE, 0)
    OBVIOUS
  <1>5. /\ h.pc = "dial" /\ h.k = d.k /\ h.frame.b = d.line.b /\ thread' = [thread EXCEPT !["drain"] = h]
    BY <1>3, <1>4 DEF Dial, SendLine, Frame
  <1>6. Sure(h, lines', nextK', Owed', log')
    <2>1. Sure(d, lines', nextK', Owed', log')
      BY <1>1, <1>2, HandsKept
    <2> QED
      BY <1>1, <1>5, <2>1 DEF Sure, Named, HasFrame, HasLine
  <1>7. thread'["drain"] = h
    BY <1>1, <1>5 DEF Typed
  <1>8. /\ DOMAIN lines' = DOMAIN lines /\ nextK' = nextK /\ passed \subseteq passed'
        /\ \A k \in DOMAIN lines : lines'[k].b = lines[k].b
    BY <1>1, <1>2, RemarkKeeps DEF RemarkStep
  <1>9. AtHead'
    BY <1>1, <1>2, <1>5, <1>7, <1>8 DEF AtHead
  <1>10. Clean /\ Rows => ReadBased'
    BY <1>5, <1>7 DEF ReadBased
  <1> QED
    BY <1>2, <1>5, <1>6, <1>9, <1>10, RemarkDrain

LEMMA DrainKeeps ==
    ASSUME HoldInv, Typed', Drain
    PROVE  HoldInv'
  <1>1. PICK h : h = [pc |-> "walk"]
    OBVIOUS
  <1>2. /\ h.pc = "walk" /\ walk'.after = 0 /\ thread' = [thread EXCEPT !["drain"] = h]
    BY <1>1 DEF Drain, NoTurn
  <1>3. UNCHANGED <<log, net, position, burst, fate, lines, disk, nextK, count, passed>>
    BY DEF Drain, board, page, store
  <1>4. RemarkStep
    BY <1>3, SameQueue DEF RemarkStep, HoldInv
  <1>5. thread'["drain"] = h
    BY <1>2 DEF HoldInv, Typed, Threads
  <1>6. AtHead'
    <2>1. \A k \in DOMAIN lines : 0 < k
      BY LineTyped DEF HoldInv
    <2>2. 0 < nextK
      <3>1. nextK \in Nat \ {0}
        BY DEF HoldInv, Typed
      <3> QED
        BY <3>1
    <2> QED
      BY <1>2, <1>3, <1>5, <2>1, <2>2 DEF AtHead
  <1>7. Clean /\ Rows => ReadBased'
    BY <1>2, <1>5 DEF ReadBased
  <1> QED
    BY <1>1, <1>2, <1>4, <1>6, <1>7, RestSure, RemarkDrain

\* The head of the queue: its turn has come, and no row past its base is of a
\* write typed before it.
LEMMA HeadIs ==
    ASSUME HoldInv, NEW k \in DOMAIN lines,
           \A j \in DOMAIN lines : k <= j \/ lines[j].b \in passed
    PROVE  Turn(lines[k].b, Owed) /\ (Clean /\ Rows => Below(lines[k].b, lines[k].base, log))
  <1>1. Typed /\ Order
    BY DEF HoldInv
  <1>2. \A j \in DOMAIN lines : j < k => lines[j].b \in passed
    BY <1>1, LineTyped
  <1>3. Turn(lines[k].b, Owed)
    <2>1. Copies(lines, fate)
      BY <1>1, QueueCopies DEF Order
    <2>2. \A a \in 1 .. lines[k].b - 1 : a \in 1 .. N
      BY <1>1, LineTyped, Numbers
    <2> QED
      BY <1>1, <1>2, <2>1, <2>2, OwedIs DEF Copies, Turn
  <1>4. Clean /\ Rows => Below(lines[k].b, lines[k].base, log)
    BY <1>2 DEF Clean, Rows, Based, Below
  <1> QED
    BY <1>3, <1>4

\* The drain takes the head up.
LEMMA TakesHead ==
    ASSUME HoldInv, Typed', NEW k \in DOMAIN lines, NEW pc \in {"read", "send"},
           walk.after < k, \A j \in DOMAIN lines : k <= j \/ lines[j].b \in passed,
           thread' = [thread EXCEPT !["drain"] = [pc |-> pc, k |-> k, line |-> lines[k]]],
           UNCHANGED <<log, net, position, burst, fate, lines, disk, nextK, count, passed>>,
           pc = "read" => walk' = walk /\ ~walk.stopped,
           pc = "send" => walk' = [walk EXCEPT !.after = k]
    PROVE  HoldInv'
  <1>1. PICK h : h = [pc |-> pc, k |-> k, line |-> lines[k]]
    OBVIOUS
  <1>2. h.pc = pc /\ h.k = k /\ h.line = lines[k] /\ thread' = [thread EXCEPT !["drain"] = h]
    BY <1>1
  <1>3. Typed /\ RemarkStep
    BY SameQueue DEF RemarkStep, HoldInv
  <1>4. thread'["drain"] = h
    BY <1>2, <1>3 DEF Typed, Threads
  <1>5. k \in Nat /\ k < nextK /\ nextK \in Nat /\ walk \in WalkSet /\ \A j \in DOMAIN lines : j \in Nat
    <2>1. walk \in WalkSet /\ nextK \in Nat
      BY <1>3 DEF Typed
    <2> QED
      BY <1>3, <2>1, LineTyped
  <1>6. Sure(h, lines', nextK', Owed', log')
    <2>1. Owed' = Owed
      BY DEF Owed
    <2> QED
      BY <1>2, <1>5, <2>1, HeadIs DEF Sure, Named, HasFrame, HasLine
  <1>7. AtHead'
    <2>1. CASE pc = "read"
      <3>1. \A j \in DOMAIN lines : walk.after < j \/ lines[j].b \in passed
        BY <1>5 DEF WalkSet
      <3> QED
        BY <1>2, <1>4, <2>1, <3>1 DEF AtHead, HoldInv
    <2>2. CASE pc = "send"
      <3>1. walk'.after = k
        BY <1>5, <2>2 DEF WalkSet
      <3> QED
        BY <1>2, <1>4, <1>5, <2>2, <3>1 DEF AtHead
    <2> QED
      BY <2>1, <2>2
  <1>8. Clean /\ Rows => ReadBased'
    <2>1. Clean /\ Rows => Below(h.line.b, h.line.base, log)
      BY <1>2, HeadIs
    <2> QED
      BY <1>4, <2>1 DEF ReadBased, Below
  <1> QED
    BY <1>2, <1>3, <1>6, <1>7, <1>8, RemarkDrain

LEMMA WalkKeeps ==
    ASSUME HoldInv, Typed', Walk
    PROVE  HoldInv'
  <1> DEFINE rest == {k \in DOMAIN lines : k > walk.after}
             k == Lowest(rest)
             line == lines[k]
  <1>1. Typed /\ thread["drain"].pc = "walk" /\ UNCHANGED <<log, net, position, burst, fate, passed>>
    BY DEF HoldInv, Walk, board, page
  <1>2. rest # {} => /\ k \in DOMAIN lines /\ walk.after < k /\ k \in Nat /\ k < nextK
                     /\ ~walk.stopped => \A j \in DOMAIN lines : k <= j \/ lines[j].b \in passed
    <2>1. rest # {} => /\ k \in DOMAIN lines /\ k > walk.after
                       /\ \A j \in DOMAIN lines : j > walk.after => k <= j
      BY <1>1, NextLine
    <2>2. ~walk.stopped => \A j \in DOMAIN lines : j > walk.after \/ lines[j].b \in passed
      <3>1. walk.after \in Nat
        BY <1>1 DEF Typed, WalkSet
      <3>2. \A j \in DOMAIN lines : j \in Nat
        BY <1>1, LineTyped
      <3>3. ~walk.stopped => \A j \in DOMAIN lines : walk.after < j \/ lines[j].b \in passed
        BY <1>1 DEF HoldInv, AtHead
      <3> QED
        BY <3>1, <3>2, <3>3
    <2>3. walk.after \in Nat /\ nextK \in Nat
      BY <1>1 DEF Typed, WalkSet
    <2>4. \A j \in DOMAIN lines : j \in 1 .. nextK - 1
      BY <1>1, LineTyped
    <2> HIDE DEF k, rest
    <2> QED
      BY <2>1, <2>2, <2>3, <2>4
  <1>3. CASE /\ thread' = [thread EXCEPT !["drain"] = Idle] /\ walk' = NoTurn
             /\ UNCHANGED <<lines, disk, nextK, count>>
    <2>1. RemarkStep
      BY <1>1, <1>3, SameQueue DEF RemarkStep
    <2>2. thread'["drain"] = Idle
      BY <1>1, <1>3 DEF Typed, Threads
    <2>3. AtHead'
      <3>1. walk'.after = 0 /\ 0 < nextK /\ nextK' = nextK
        BY <1>1, <1>3 DEF NoTurn, Typed
      <3> QED
        BY <2>2, <3>1 DEF AtHead, Idle
    <2>4. Clean /\ Rows => ReadBased'
      BY <2>2 DEF ReadBased, Idle
    <2> QED
      BY <1>3, <2>1, <2>3, <2>4, RestSure, RemarkDrain
  <1>4. CASE rest # {} /\ Stop(k) /\ UNCHANGED <<lines, disk, nextK, count>>
    <2>1. RemarkStep
      BY <1>1, <1>4, SameQueue DEF RemarkStep
    <2> QED
      BY <1>2, <1>4, <2>1, DrainStops DEF Stop
  <1>5. CASE /\ ~walk.stopped /\ rest # {}
             /\ thread' = [thread EXCEPT !["drain"] = [pc |-> "read", k |-> k, line |-> line]]
             /\ UNCHANGED <<walk, lines, disk, nextK, count>>
    <2> HIDE DEF k, rest
    <2> QED
      BY <1>1, <1>2, <1>5, TakesHead
  <1>6. CASE ~walk.stopped /\ rest # {} /\ SendFromHead(k)
    <2> HIDE DEF k, rest
    <2> QED
      BY <1>1, <1>2, <1>6, HeadKeeps
  <1>7. CASE /\ ~walk.stopped /\ rest # {} /\ walk' = [walk EXCEPT !.after = k]
             /\ thread' = [thread EXCEPT !["drain"] = [pc |-> "send", k |-> k, line |-> line]]
             /\ UNCHANGED <<lines, disk, nextK, count>>
    <2> HIDE DEF k, rest
    <2> QED
      BY <1>1, <1>2, <1>7, TakesHead
  <1> QED
    BY <1>3, <1>4, <1>5, <1>6, <1>7 DEF Walk

\* The lines a walk that stopped is past are passed once it goes on.
LEMMA ResolveSendKeeps ==
    ASSUME HoldInv, Typed', NEW k \in DOMAIN lines, ResolveSend(k)
    PROVE  HoldInv'
  <1> DEFINE d == thread["drain"]
  <1>1. Typed /\ AtHead /\ Hands /\ "drain" \in Threads
    BY HandsAre DEF HoldInv
  <1>2. /\ UNCHANGED <<log, net, position, burst, fate, thread>>
        /\ walk' = [walk EXCEPT !.stopped = FALSE] /\ passed' = passed \cup Past
    BY DEF ResolveSend, board, page
  <1>3. RemarkStep
    BY <1>1, <1>2, ResolveSendMarks DEF RemarkStep
  <1>4. PICK h : h = d
    OBVIOUS
  <1>5. thread' = [thread EXCEPT !["drain"] = h] /\ thread'["drain"] = h
    <2>1. thread = [t \in Threads |-> thread[t]]
      BY <1>1 DEF Typed
    <2>2. thread = [thread EXCEPT !["drain"] = thread["drain"]]
      BY <2>1
    <2> QED
      BY <1>1, <1>2, <1>4, <2>2
  <1>6. Sure(h, lines', nextK', Owed', log')
    BY <1>1, <1>3, <1>4, RemarkKeeps, HandsKept
  <1>7. AtHead'
    <2>1. /\ walk'.after = walk.after /\ ~walk'.stopped /\ nextK' = nextK
          /\ walk.after \in Nat /\ \A j \in DOMAIN lines : j \in Nat
          /\ DOMAIN lines' = DOMAIN lines /\ \A j \in DOMAIN lines : lines'[j].b = lines[j].b
      <3>1. walk \in WalkSet /\ nextK' = nextK
        BY <1>1, <1>3 DEF Typed, RemarkStep
      <3>2. walk'.after = walk.after /\ ~walk'.stopped /\ walk.after \in Nat
        BY <1>2, <3>1 DEF WalkSet
      <3>3. DOMAIN lines' = DOMAIN lines /\ \A j \in DOMAIN lines : lines'[j].b = lines[j].b
        BY <1>1, <1>3, RemarkKeeps
      <3> QED
        BY <1>1, <3>1, <3>2, <3>3, LineTyped
    <2>2. d.pc = "walk" => \A j \in DOMAIN lines : walk.after < j \/ lines[j].b \in passed'
      <3>1. ASSUME d.pc = "walk", walk.stopped, NEW j \in DOMAIN lines
            PROVE  walk.after < j \/ lines[j].b \in passed'
        BY <1>2, <2>1, <3>1 DEF Past
      <3>2. ASSUME d.pc = "walk", ~walk.stopped, NEW j \in DOMAIN lines
            PROVE  walk.after < j \/ lines[j].b \in passed'
        BY <1>1, <1>2, <3>2 DEF AtHead
      <3> QED
        BY <3>1, <3>2
    <2>3. /\ walk'.after < nextK'
          /\ d.pc \in {"read", "site"} =>
                \A j \in DOMAIN lines : walk.after < j \/ lines[j].b \in passed'
          /\ d.pc \in {"send", "dial", "answer", "shift", "shifted"} =>
                walk.after = d.k /\ \A j \in DOMAIN lines : d.k <= j \/ lines[j].b \in passed'
      BY <1>1, <1>2, <2>1 DEF AtHead
    <2> QED
      BY <1>4, <1>5, <2>1, <2>2, <2>3 DEF AtHead
  <1>8. Clean /\ Rows => ReadBased'
    BY <1>2, <1>4, <1>5, SameRead DEF Rows
  <1> QED
    BY <1>3, <1>5, <1>6, <1>7, <1>8, RemarkDrain

\* What changes nothing the invariant is about.
LEMMA SameKeeps ==
    ASSUME HoldInv, Typed', UNCHANGED <<log, net, lines, disk, nextK, position, thread, walk, burst, fate, passed>>
    PROVE  HoldInv'
  <1>1. BoardStep
    BY DEF BoardStep, LogStep
  <1> QED
    BY <1>1, BoardStepKeeps


-----------------------------------------------------------------------------
(* A line out of the queue *)

\* A line acked, read as landed, or given back.
DoneStep(k, at, as) ==
    /\ UNCHANGED <<log, net, burst, passed>> /\ position <= position' /\ position' \in Nat
    /\ k \in Nat /\ at \in Nat /\ at <= Len(log) /\ as \in {"kept", "back"}
    /\ DoneLine(k, at, as)

LEMMA DoneFate ==
    ASSUME Typed, Order, NEW k, NEW at, NEW as, DoneStep(k, at, as)
    PROVE  /\ k \notin DOMAIN lines => UNCHANGED <<lines, disk, fate>>
           /\ k \in DOMAIN lines =>
                /\ lines[k].b \in 1 .. N /\ fate[lines[k].b] \in Standing
                /\ fate'[lines[k].b] = IF fate[lines[k].b] = "again" THEN "again" ELSE as
                /\ \A b \in 1 .. N : b # lines[k].b => fate'[b] = fate[b]
  <1>1. k \notin DOMAIN lines => UNCHANGED <<lines, disk, fate>>
    BY DEF DoneStep, DoneLine, store
  <1>2. ASSUME k \in DOMAIN lines
        PROVE  /\ lines[k].b \in 1 .. N /\ fate[lines[k].b] \in Standing
               /\ fate'[lines[k].b] = IF fate[lines[k].b] = "again" THEN "again" ELSE as
               /\ \A b \in 1 .. N : b # lines[k].b => fate'[b] = fate[b]
    <2>1. lines[k].b \in 1 .. N
      BY <1>2, LineTyped
    <2>2. fate[lines[k].b] \in Standing
      BY <1>2 DEF Order, Fated
    <2>3. fate' = [fate EXCEPT ![lines[k].b] = IF @ = "again" THEN @ ELSE as]
      BY <1>2 DEF DoneStep, DoneLine
    <2>4. fate \in [0 .. MaxBursts -> Fates] /\ 1 .. N \subseteq 0 .. MaxBursts
      <3>1. fate \in [0 .. MaxBursts -> Fates] /\ N <= MaxBursts
        BY DEF Typed
      <3> QED
        BY <3>1, Numbers
    <2>5. fate'[lines[k].b] = IF fate[lines[k].b] = "again" THEN "again" ELSE as
      BY <2>1, <2>3, <2>4
    <2>6. \A b \in 1 .. N : b # lines[k].b => fate'[b] = fate[b]
      BY <2>3, <2>4
    <2> QED
      BY <2>1, <2>2, <2>5, <2>6
  <1> QED
    BY <1>1, <1>2

LEMMA DoneLines ==
    ASSUME Typed, NEW k, NEW at, NEW as, DoneStep(k, at, as)
    PROVE  /\ (disk' = lines' \/ disk' = disk) /\ nextK' = nextK /\ DOMAIN lines' = DOMAIN lines \ {k}
           /\ \A j \in DOMAIN lines' :
                 /\ lines'[j].b = lines[j].b /\ lines[j].base <= lines'[j].base
                 /\ lines'[j].base \in Nat /\ lines[j].base \in Nat /\ j \in Nat
                 /\ k \in DOMAIN lines /\ k < j => at <= lines'[j].base
  <1>1. as \in Fates /\ k \in Nat /\ at \in Nat /\ at <= Len(log)
    BY DEF DoneStep, Fates
  <1>2. /\ IsQueue(lines', N, Len(log), nextK) /\ (disk' = lines' \/ disk' = disk)
        /\ nextK' = nextK /\ DOMAIN lines' = DOMAIN lines \ {k}
        /\ \A j \in DOMAIN lines' :
              /\ lines'[j].b = lines[j].b /\ lines[j].base <= lines'[j].base
              /\ k \in DOMAIN lines /\ k < j => at <= lines'[j].base
    BY <1>1, DoneIs DEF DoneStep
  <1>3. \A j \in DOMAIN lines' : lines'[j].base \in Nat
    <2>1. lines' \in [DOMAIN lines' -> LineSet]
      BY <1>2 DEF IsQueue
    <2> QED
      BY <2>1 DEF LineSet
  <1>4. \A j \in DOMAIN lines : lines[j].base \in Nat /\ j \in Nat
    BY LineTyped
  <1> QED
    BY <1>2, <1>3, <1>4

LEMMA DoneKeeps ==
    ASSUME Typed, Order, NEW k, NEW at, NEW as, DoneStep(k, at, as)
    PROVE  /\ Keeps /\ nextK' \in Nat /\ N' = N /\ GivenUp \subseteq GivenUp'
           /\ \A b \in 1 .. N : fate'[b] = "out" => fate[b] = "out"
  <1>1. nextK \in Nat /\ N \in Nat /\ N' = N
    BY Numbers DEF Typed, DoneStep, N
  <1>2. as # "out" /\ as \in {"kept", "back"}
    BY DEF DoneStep
  <1>3. \A b \in 1 .. N : fate'[b] = "out" => fate[b] = "out"
    BY <1>2, DoneFate
  <1>4. Onward(lines, nextK, Owed, lines', nextK', Owed', N)
    <2>1. nextK' = nextK /\ \A j \in DOMAIN lines' : j \in DOMAIN lines /\ lines'[j].b = lines[j].b
      BY DoneLines
    <2>2. \A a \in 1 .. N : Owed'[a] = "out" => Owed[a] = "out"
      BY <1>3, OwedOnward DEF DoneStep
    <2> QED
      BY <1>1, <2>1, <2>2 DEF Onward
  <1>5. Longer
    BY Numbers DEF Longer, DoneStep
  <1>6. \A b \in 1 .. N : fate[b] \in {"dropped", "back", "closed", "again"}
                          => fate'[b] \in {"dropped", "back", "closed", "again"}
    BY <1>2, DoneFate DEF Standing
  <1>7. GivenUp \subseteq GivenUp'
    BY <1>1, <1>6 DEF GivenUp, N
  <1> QED
    BY <1>1, <1>3, <1>4, <1>5, <1>7, DoneLines DEF Keeps

LEMMA DoneOrder ==
    ASSUME Typed, Typed', Order, NEW k, NEW at, NEW as, DoneStep(k, at, as), Dialing' = Dialing
    PROVE  Order'
  <1>1. /\ N' = N /\ \A b \in 1 .. N : fate'[b] = "out" => fate[b] = "out"
        /\ (disk' = lines' \/ disk' = disk) /\ DOMAIN lines' = DOMAIN lines \ {k}
        /\ \A j \in DOMAIN lines' : lines'[j].b = lines[j].b
    BY DoneKeeps, DoneLines
  <1>2. as \in {"kept", "back"}
    BY DEF DoneStep
  <1>3. Ascending(lines')
    BY <1>1 DEF Order, Ascending
  <1>4. \A j \in DOMAIN lines : j # k /\ k \in DOMAIN lines => lines[j].b # lines[k].b
    <2>1. \A j \in DOMAIN lines : j \in Nat /\ lines[j].b \in Nat
      BY LineTyped DEF LineSet
    <2> QED
      BY <2>1 DEF Order, Ascending
  <1>5. Alone'
    <2>1. ASSUME Dialing # 0 PROVE lines' = Empty /\ fate'[N] = "out" /\ Dialing = N
      <3>1. lines = Empty /\ fate[N] = "out" /\ Dialing = N
        BY <2>1 DEF Order, Alone
      <3>2. k \notin DOMAIN lines
        BY <3>1 DEF Empty
      <3> QED
        BY <3>1, <3>2, DoneFate
    <2> QED
      BY <1>1, <2>1 DEF Alone
  <1>6. OutIsHeld'
    <2>1. ASSUME NEW b \in 1 .. N, fate'[b] = "out"
          PROVE  Dialing = b \/ \E j \in DOMAIN lines' : lines'[j].b = b
      <3>1. Dialing = b \/ \E j \in DOMAIN lines : lines[j].b = b
        BY <1>1, <2>1 DEF Order, OutIsHeld, Holds
      <3>2. ASSUME NEW j \in DOMAIN lines, lines[j].b = b PROVE j # k
        <4>1. k \in DOMAIN lines => fate'[lines[k].b] # "out"
          BY <1>2, DoneFate
        <4> QED
          BY <2>1, <3>2, <4>1
      <3> QED
        BY <1>1, <3>1, <3>2
    <2> QED
      BY <1>1, <2>1 DEF OutIsHeld, Holds
  <1>7. ASSUME NEW b \in 1 .. N PROVE fate'[b] # "none"
    <2>1. fate[b] # "none"
      BY DEF Order, Fated
    <2>2. k \in DOMAIN lines => fate'[lines[k].b] # "none"
      BY <1>2, DoneFate
    <2>3. k \notin DOMAIN lines \/ b # lines[k].b => fate'[b] = fate[b]
      BY DoneFate
    <2> QED
      BY <2>1, <2>2, <2>3
  <1>8. ASSUME NEW j \in DOMAIN lines' PROVE fate'[lines'[j].b] \in Standing
    <2>1. j \in DOMAIN lines /\ j # k /\ lines'[j].b = lines[j].b /\ lines[j].b \in 1 .. N
      BY <1>1, LineTyped
    <2>2. fate'[lines[j].b] = fate[lines[j].b]
      BY <1>4, <2>1, DoneFate
    <2> QED
      BY <2>1, <2>2 DEF Order, Fated
  <1>9. ASSUME NEW j \in DOMAIN disk PROVE fate'[disk[j].b] # "closed"
    <2>1. disk[j].b \in 1 .. N /\ fate[disk[j].b] # "closed"
      BY DEF Typed, IsQueue, Of, Order, Fated
    <2> QED
      BY <1>2, <2>1, DoneFate
  <1> QED
    BY <1>1, <1>3, <1>5, <1>6, <1>7, <1>8, <1>9, OrderMade

\* The line that is done landed at the row it is done by, or before it, or was
\* given up.
Witness(k, at) ==
    k \in DOMAIN lines =>
        /\ at <= position'
        /\ lines[k].b \in GivenUp \/ \E i \in Landings(lines[k].b) : i <= at

LEMMA DoneRows ==
    ASSUME Typed, Order, Rows, Clean, Clean', NEW k, NEW at, NEW as, DoneStep(k, at, as),
           as = "kept" => Witness(k, at), Dialing' = Dialing,
           Dialing # 0 => thread'["call"].base = thread["call"].base, ReadBased'
    PROVE  Rows'
  <1>1. /\ N' = N /\ N \in Nat /\ GivenUp \subseteq GivenUp' /\ log' = log
        /\ (disk' = lines' \/ disk' = disk) /\ DOMAIN lines' = DOMAIN lines \ {k}
        /\ as \in {"kept", "back"} /\ \A b : Landings(b)' = Landings(b)
        /\ position <= position' /\ position \in Nat /\ position' \in Nat /\ k \in Nat /\ at \in Nat
        /\ DOMAIN log = 1 .. Len(log)
    <2>1. position \in Nat
      BY Numbers DEF Typed
    <2> QED
      BY <2>1, DoneKeeps, DoneLines, Numbers DEF DoneStep, Landings
  \* The rows of the line done end at its landing.
  <1>2. ASSUME k \in DOMAIN lines, NEW i \in DOMAIN log, log[i].b = lines[k].b
        PROVE  i <= at /\ i <= position'
    <2>1. lines[k].b \in 1 .. N /\ i \in Landings(lines[k].b)
      BY <1>2, LineTyped DEF Landings
    <2>2. lines[k].b \notin GivenUp'
      BY <1>1, <2>1 DEF Clean, Residue, Unclaimed, N
    <2>3. as = "kept"
      <3>1. as = "back" => fate'[lines[k].b] \in {"again", "back"}
        BY <1>2, DoneFate
      <3>2. as # "back"
        BY <1>1, <2>1, <2>2, <3>1 DEF GivenUp, N
      <3> QED
        BY <1>1, <3>2
    <2>4. at <= position' /\ \E j \in Landings(lines[k].b) : j <= at
      BY <1>1, <1>2, <2>2, <2>3 DEF Witness
    <2>5. PICK j \in Landings(lines[k].b) : j <= at
      BY <2>4
    <2>6. i = j
      BY <2>1, <2>5, CleanIs
    <2>7. i \in Nat
      BY <1>1
    <2> QED
      BY <1>1, <2>4, <2>5, <2>6, <2>7
  <1>3. Based(lines', log)
    <2>1. ASSUME NEW j \in DOMAIN lines', NEW i \in DOMAIN log, log[i].b # 0, log[i].b < lines'[j].b
          PROVE  i <= lines'[j].base \/ \E m \in DOMAIN lines' : m < j /\ lines'[m].b = log[i].b
      <3>1. /\ j \in DOMAIN lines /\ lines'[j].b = lines[j].b /\ lines[j].base <= lines'[j].base
            /\ lines[j].base \in Nat /\ lines'[j].base \in Nat /\ i \in Nat /\ j \in Nat
            /\ k \in DOMAIN lines /\ k < j => at <= lines'[j].base
        <4>1. i \in Nat
          BY <1>1
        <4>2. j \in DOMAIN lines
          BY <1>1
        <4> QED
          BY <4>1, <4>2, DoneLines
      <3>2. i <= lines[j].base \/ \E m \in DOMAIN lines : m < j /\ lines[m].b = log[i].b
        BY <2>1, <3>1 DEF Rows, Based
      <3>3. CASE i <= lines[j].base
        BY <3>1, <3>3
      <3>4. ASSUME NEW m \in DOMAIN lines, m < j, lines[m].b = log[i].b
            PROVE  i <= lines'[j].base \/ \E mm \in DOMAIN lines' : mm < j /\ lines'[mm].b = log[i].b
        <4>1. CASE m = k
          <5>1. i <= at /\ at <= lines'[j].base
            BY <1>2, <3>1, <3>4, <4>1
          <5> QED
            BY <1>1, <3>1, <5>1
        <4>2. CASE m # k
          <5>1. m \in DOMAIN lines' /\ lines'[m].b = lines[m].b
            BY <1>1, <4>2, DoneLines
          <5> QED
            BY <3>4, <5>1
        <4> QED
          BY <4>1, <4>2
      <3> QED
        BY <3>2, <3>3, <3>4
    <2> QED
      BY <2>1 DEF Based
  <1>4. Positioned'
    <2>1. ASSUME NEW i \in DOMAIN log, log[i].b # 0
          PROVE  i <= position' \/ Dialing = log[i].b \/ \E j \in DOMAIN lines' : lines'[j].b = log[i].b
      <3>1. i <= position \/ Dialing = log[i].b \/ \E j \in DOMAIN lines : lines[j].b = log[i].b
        BY <2>1 DEF Rows, Positioned, Holds
      <3>2. CASE i <= position
        <4>1. i \in Nat
          BY <1>1
        <4> QED
          BY <1>1, <3>2, <4>1
      <3>3. ASSUME NEW j \in DOMAIN lines, lines[j].b = log[i].b
            PROVE  i <= position' \/ \E m \in DOMAIN lines' : lines'[m].b = log[i].b
        <4>1. CASE j = k
          BY <1>2, <3>3, <4>1
        <4>2. CASE j # k
          <5>1. j \in DOMAIN lines' /\ lines'[j].b = lines[j].b
            BY <1>1, <4>2, DoneLines
          <5> QED
            BY <3>3, <5>1
        <4> QED
          BY <4>1, <4>2
      <3> QED
        BY <3>1, <3>2, <3>3
    <2> QED
      BY <1>1, <2>1 DEF Positioned, Holds
  <1>5. CallBased'
    BY <1>1 DEF Rows, CallBased, Below
  <1>6. KeptLanded'
    <2>1. ASSUME NEW b \in 1 .. N, fate'[b] = "kept" PROVE Landings(b) # {}
      <3>1. CASE fate[b] = "kept"
        BY <3>1 DEF Rows, KeptLanded
      <3>2. CASE fate[b] # "kept"
        <4>1. k \in DOMAIN lines /\ b = lines[k].b
          BY <2>1, <3>2, DoneFate
        <4>2. as = "kept" /\ fate[b] # "again" /\ fate[b] \in Standing
          <5>1. /\ fate[b] \in Standing
                /\ fate'[b] = IF fate[b] = "again" THEN "again" ELSE as
            BY <1>1, <4>1, DoneFate
          <5> QED
            BY <2>1, <5>1
        <4>3. b \notin GivenUp
          BY <4>2 DEF GivenUp, Standing
        <4> QED
          BY <4>1, <4>2, <4>3 DEF Witness
      <3> QED
        BY <3>1, <3>2
    <2> QED
      BY <1>1, <2>1 DEF KeptLanded
  <1> QED
    BY <1>1, <1>3, <1>4, <1>5, <1>6, RowsMade

\* Such a step, of a hand that rests then.
LEMMA DoneMade ==
    ASSUME HoldInv, Typed', NEW k, NEW at, NEW as, DoneStep(k, at, as),
           Clean => (as = "kept" => Witness(k, at)),
           NEW t \in Threads, NEW h, thread' = [thread EXCEPT ![t] = h],
           h \in {Idle, [pc |-> "walk"]}, t = "call" => Dialing = 0, AtHead'
    PROVE  HoldInv'
  <1>1. Typed /\ Order /\ Hands /\ InNet
    BY DEF HoldInv
  <1>2. h.pc \in {"idle", "walk"} /\ Sure(h, lines', nextK', Owed', log')
    BY RestSure DEF Idle
  <1>3. Dialing' = Dialing /\ (Dialing # 0 => thread'["call"].base = thread["call"].base)
    <2>1. CASE t = "call"
      <3>1. thread'["call"] = h
        BY <1>1, <2>1 DEF Typed
      <3> QED
        BY <1>2, <2>1, <3>1 DEF Dialing, Dialed
    <2>2. CASE t # "call"
      <3>1. thread'["call"] = thread["call"]
        BY <1>1, <2>2 DEF Typed, Threads
      <3> QED
        BY <3>1 DEF Dialing
    <2> QED
      BY <2>1, <2>2
  <1>4. Clean /\ Rows => ReadBased'
    <2>1. CASE t = "drain"
      <3>1. thread'["drain"] = h
        BY <1>1, <2>1 DEF Typed
      <3> QED
        BY <1>2, <3>1 DEF ReadBased
    <2>2. CASE t # "drain"
      <3>1. thread'["drain"] = thread["drain"]
        BY <1>1, <2>2 DEF Typed, Threads
      <3> QED
        BY <3>1, SameRead DEF Rows, DoneStep
    <2> QED
      BY <2>1, <2>2
  <1>5. Order'
    BY <1>1, <1>3, DoneOrder
  <1>6. Hands'
    BY <1>1, <1>2, DoneKeeps, HandsStep
  <1>7. InNet'
    BY <1>1, DoneKeeps, NetKept DEF DoneStep
  <1>8. Clean' => Rows'
    <2>1. Clean' => Clean
      <3>1. N' \in Nat /\ N <= N' /\ GivenUp \subseteq GivenUp' /\ log' = log /\ passed' = passed
        <4>1. N' = N /\ N \in Nat /\ GivenUp \subseteq GivenUp'
          BY <1>1, DoneKeeps, Numbers
        <4> QED
          BY <4>1 DEF DoneStep
      <3> QED
        BY <1>1, <3>1, CleanStep
    <2> QED
      BY <1>1, <1>3, <1>4, <2>1, DoneRows DEF HoldInv
  <1> QED
    BY <1>5, <1>6, <1>7, <1>8 DEF HoldInv


\* The head is kept at a row past its base: the row is its own, or of a write typed
\* after it, and then the head landed before, or was given up.
LEMMA LandedKeeps ==
    ASSUME HoldInv, Typed', thread["drain"].pc \in {"read", "site"}, NEW at \in 1 .. Len(log),
           thread["drain"].line.base < at, log[at].b # 0, Landed(thread["drain"].k, at),
           UNCHANGED <<log, net, burst, passed>>
    PROVE  HoldInv'
  <1> DEFINE d == thread["drain"]
             k == d.k
  <1>1. Typed /\ Order /\ Hands /\ AtHead /\ "drain" \in Threads
    BY HandsAre DEF HoldInv
  <1>2. k \in Nat /\ k < nextK
    BY <1>1, NamedIs DEF Named
  <1>3. at \in Nat /\ at <= Len(log) /\ Len(log) \in Nat /\ DOMAIN log = 1 .. Len(log)
    BY <1>1, Numbers
  <1>4. position <= position' /\ position' \in Nat /\ at <= position'
    <2>1. position' \in 0 .. Len(log) /\ position <= position' /\ at <= position'
      BY <1>1, <1>3, NoteAckIs DEF Landed
    <2> QED
      BY <1>3, <2>1
  <1>5. DoneStep(k, at, "kept")
    BY <1>2, <1>3, <1>4 DEF DoneStep, Landed
  <1>6. ASSUME Clean, k \in DOMAIN lines
        PROVE  lines[k].b \in GivenUp \/ \E i \in Landings(lines[k].b) : i <= at
    <2>1. lines[k].b = d.line.b /\ lines[k].b \in 1 .. N
      BY <1>1, <1>6, LineTyped DEF Hands, Sure, HasLine
    <2>2. log[at].b \in Nat
      <3>1. log \in Seq(RowSet)
        BY <1>1 DEF Typed, IsLog
      <3>2. log[at] \in RowSet
        BY <1>3, <3>1
      <3> QED
        BY <3>2 DEF RowSet
    <2>3. ~(log[at].b < lines[k].b)
      <3>1. Below(d.line.b, d.line.base, log)
        BY <1>6 DEF HoldInv, Rows, ReadBased
      <3>2. d.line.base \in Nat
        <4>1. d \in ReadSet \/ d \in SiteSet
          BY <1>1, HandsAre, Shapes
        <4> QED
          BY <4>1 DEF ReadSet, SiteSet, LineSet
      <3> QED
        BY <1>3, <2>1, <3>1, <3>2 DEF Below
    <2>4. CASE log[at].b = lines[k].b
      BY <1>3, <2>4 DEF Landings
    <2>5. CASE lines[k].b < log[at].b
      <3>1. lines[k].b \in GivenUp \/ \E i \in Landings(lines[k].b) : i < at
        BY <1>3, <1>6, <2>1, <2>5 DEF HoldInv, Rows, RowsAscend
      <3>2. \A i \in Landings(lines[k].b) : i \in Nat
        BY <1>3 DEF Landings
      <3> QED
        BY <1>3, <3>1, <3>2
    <2>6. lines[k].b \in Nat
      BY <2>1
    <2> QED
      BY <2>2, <2>3, <2>4, <2>5, <2>6
  <1>7. Clean => Witness(k, at)
    BY <1>4, <1>6 DEF Witness
  <1>8. PICK h : h = [pc |-> "walk"]
    OBVIOUS
  <1>9. /\ h.pc = "walk" /\ thread' = [thread EXCEPT !["drain"] = h]
        /\ \/ walk' = [after |-> k, sending |-> FALSE, stopped |-> TRUE]
           \/ walk' = [walk EXCEPT !.sending = TRUE]
    BY <1>8 DEF Landed, Stop, Send
  <1>10. AtHead'
    <2>1. thread'["drain"] = h
      BY <1>1, <1>9 DEF Typed
    <2>2. /\ nextK' = nextK /\ DOMAIN lines' \subseteq DOMAIN lines
          /\ \A j \in DOMAIN lines' : lines'[j].b = lines[j].b
      BY <1>1, <1>5, DoneLines
    <2>3. CASE walk' = [after |-> k, sending |-> FALSE, stopped |-> TRUE]
      BY <1>2, <1>9, <2>1, <2>2, <2>3 DEF AtHead
    <2>4. CASE walk' = [walk EXCEPT !.sending = TRUE]
      <3>1. walk'.after = walk.after
        BY <1>1, <2>4 DEF Typed, WalkSet
      <3> QED
        BY <1>1, <1>9, <2>1, <2>2, <3>1 DEF AtHead
    <2> QED
      BY <1>9, <2>3, <2>4
  <1> QED
    BY <1>1, <1>5, <1>7, <1>8, <1>9, <1>10, DoneMade

LEMMA ReadRowsKeeps ==
    ASSUME HoldInv, Typed', ReadRows
    PROVE  HoldInv'
  <1> DEFINE d == thread["drain"]
             own == {i \in Candidates(d.line) : ~log[i].lost}
  <1>1. Typed /\ d.pc = "read" /\ UNCHANGED <<log, net, burst, passed>> /\ "drain" \in Threads
    BY HandsAre DEF HoldInv, ReadRows, board, page
  <1>2. d.k \in Nat /\ d.k < nextK
    BY <1>1, NamedIs DEF Named
  <1>3. ~walk.stopped /\ \A j \in DOMAIN lines : walk.after < j \/ lines[j].b \in passed
    BY <1>1 DEF HoldInv, AtHead
  <1>4. \A i \in Candidates(d.line) : i \in 1 .. Len(log) /\ d.line.base < i /\ log[i].b # 0
    BY <1>1, CandidatesIn DEF Candidates
  <1>5. CASE SendFromHead(d.k) /\ UNCHANGED <<position, fate>>
    BY <1>1, <1>2, <1>3, <1>5, HeadKeeps
  <1>6. CASE own # {} /\ Landed(d.k, Lowest(own))
    <2>1. own \in SUBSET Nat /\ own \subseteq Candidates(d.line)
      BY <1>4
    <2>2. Lowest(own) \in Candidates(d.line)
      <3> HIDE DEF own
      <3> QED
        BY <1>6, <2>1, LowestIs
    <2>3. PICK at : at = Lowest(own)
      OBVIOUS
    <2>4. at \in 1 .. Len(log) /\ d.line.base < at /\ log[at].b # 0 /\ Landed(d.k, at)
      <3> HIDE DEF own
      <3> QED
        BY <1>4, <1>6, <2>2, <2>3
    <2> QED
      BY <1>1, <2>4, LandedKeeps
  <1>7. CASE /\ Candidates(d.line) # {}
             /\ thread' = [thread EXCEPT !["drain"] =
                   [pc |-> "site", k |-> d.k, line |-> d.line, at |-> Lowest(Candidates(d.line))]]
             /\ UNCHANGED <<store, position, walk, fate, count>>
    <2>1. PICK at : at = Lowest(Candidates(d.line))
      OBVIOUS
    <2>2. at \in Candidates(d.line)
      <3>1. Candidates(d.line) \in SUBSET Nat
        BY <1>4
      <3> QED
        BY <1>7, <2>1, <3>1, LowestIs
    <2>3. PICK h : h = [pc |-> "site", k |-> d.k, line |-> d.line, at |-> at]
      OBVIOUS
    <2>4. /\ h.pc = "site" /\ h.k = d.k /\ h.line = d.line /\ h.at = at
          /\ thread' = [thread EXCEPT !["drain"] = h]
      BY <1>7, <2>1, <2>3
    <2>5. UNCHANGED <<lines, disk, nextK, count>> /\ RemarkStep
      BY <1>1, <1>7, SameQueue DEF RemarkStep, store
    <2>6. thread'["drain"] = h
      BY <1>1, <2>4 DEF Typed, Threads
    <2>7. Sure(h, lines', nextK', Owed', log')
      <3>1. Sure(d, lines, nextK, Owed, log)
        BY <1>1, HandsAre DEF HoldInv, Hands
      <3>2. Sure(h, lines, nextK, Owed, log)
        BY <1>1, <1>4, <2>2, <2>4, <3>1 DEF Sure, Named, HasFrame, HasLine
      <3> QED
        BY <1>1, <1>7, <2>5, <3>2 DEF Owed
    <2>8. AtHead'
      BY <1>1, <1>3, <1>7, <2>4, <2>5, <2>6 DEF AtHead, HoldInv
    <2>9. Clean /\ Rows => ReadBased'
      BY <1>1, <2>4, <2>6 DEF Rows, ReadBased, Below
    <2> QED
      BY <2>4, <2>5, <2>7, <2>8, <2>9, RemarkDrain
  <1>8. CASE Stop(d.k) /\ Fault /\ UNCHANGED <<store, position, fate>>
    <2>1. RemarkStep
      <3>1. UNCHANGED <<lines, disk, nextK>> /\ count' \in [{"other", "act", "fault"} -> Nat]
        BY <1>1, <1>8, CountTyped DEF store, Fault, Typed
      <3> QED
        BY <1>1, <1>8, <3>1, SameRemarked DEF RemarkStep, Changed
    <2> QED
      BY <1>2, <1>8, <2>1, DrainStops DEF Stop
  <1> QED
    BY <1>5, <1>6, <1>7, <1>8 DEF ReadRows

LEMMA ReadSiteKeeps ==
    ASSUME HoldInv, Typed', ReadSite
    PROVE  HoldInv'
  <1> DEFINE d == thread["drain"]
  <1>1. Typed /\ d.pc = "site" /\ UNCHANGED <<log, net, burst, passed>> /\ "drain" \in Threads
    BY HandsAre DEF HoldInv, ReadSite, board, page
  <1>2. d.k \in Nat /\ d.k < nextK
    BY <1>1, NamedIs DEF Named
  <1>3. ~walk.stopped
    BY <1>1 DEF HoldInv, AtHead
  <1>4. d.at \in 1 .. Len(log) /\ d.line.base < d.at /\ log[d.at].b # 0
    <2>1. IsHand(d, N, Len(log)) /\ Sure(d, lines, nextK, Owed, log)
      BY <1>1, HandsAre DEF HoldInv, Hands
    <2> QED
      BY <1>1, <2>1 DEF IsHand, Sure
  <1>5. CASE Landed(d.k, d.at)
    BY <1>1, <1>4, <1>5, LandedKeeps
  <1>6. CASE SendFromHead(d.k) /\ UNCHANGED <<position, fate>>
    BY <1>1, <1>2, <1>3, <1>6, HeadKeeps
  <1>7. CASE Stop(d.k) /\ Fault /\ UNCHANGED <<store, position, fate>>
    <2>1. RemarkStep
      <3>1. UNCHANGED <<lines, disk, nextK>> /\ count' \in [{"other", "act", "fault"} -> Nat]
        BY <1>1, <1>7, CountTyped DEF store, Fault, Typed
      <3> QED
        BY <1>1, <1>7, <3>1, SameRemarked DEF RemarkStep, Changed
    <2> QED
      BY <1>2, <1>7, <2>1, DrainStops DEF Stop
  <1> QED
    BY <1>5, <1>6, <1>7 DEF ReadSite

\* A dial acked is of the row it landed at.
LEMMA AckWitness ==
    ASSUME HoldInv, NEW t \in Threads, thread[t].pc = "answer", thread[t].answer.kind = "acked",
           thread[t].answer.at <= position'
    PROVE  Witness(thread[t].k, thread[t].answer.at)
  <1> DEFINE h == thread[t]
             at == h.answer.at
  <1>1. Typed /\ Sure(h, lines, nextK, Owed, log) /\ at \in 1 .. Len(log) /\ at \in Nat
    BY AnswerIs DEF HoldInv, Hands
  <1>2. ASSUME h.k \in DOMAIN lines
        PROVE  lines[h.k].b = log[at].b
    BY <1>1, <1>2 DEF Sure, HasFrame
  <1>3. at \in DOMAIN log /\ at <= at
    BY <1>1, Numbers
  <1> QED
    BY <1>2, <1>3 DEF Witness, Landings

LEMMA DrainAnsweredKeeps ==
    ASSUME HoldInv, Typed', DrainAnswered
    PROVE  HoldInv'
  <1> DEFINE d == thread["drain"]
             a == d.answer
  <1>1. Typed /\ d.pc = "answer" /\ UNCHANGED <<log, net, burst, passed>> /\ "drain" \in Threads
    BY HandsAre DEF HoldInv, DrainAnswered, board, page
  <1>2. d.k \in Nat /\ d.k < nextK
    BY <1>1, NamedIs DEF Named
  <1>3. walk.after = d.k /\ \A j \in DOMAIN lines : j \in Nat /\ (d.k <= j \/ lines[j].b \in passed)
    BY <1>1, LineTyped DEF HoldInv, AtHead
  <1>4. CASE /\ a.kind = "acked"
             /\ NoteAck(a.at) /\ DoneLine(d.k, a.at, "kept")
             /\ thread' = [thread EXCEPT !["drain"] = [pc |-> "walk"]] /\ UNCHANGED walk
    <2>1. a.at \in 1 .. Len(log) /\ a.at \in Nat /\ Len(log) \in Nat
      BY <1>1, <1>4, AnswerIs, Numbers
    <2>2. position' \in 0 .. Len(log) /\ position <= position' /\ a.at <= position'
      BY <1>1, <1>4, <2>1, NoteAckIs
    <2>3. position' \in Nat
      BY <2>1, <2>2
    <2>4. DoneStep(d.k, a.at, "kept")
      BY <1>1, <1>2, <1>4, <2>1, <2>2, <2>3 DEF DoneStep
    <2>5. Witness(d.k, a.at)
      BY <1>1, <1>4, <2>2, AckWitness
    <2>6. PICK h : h = [pc |-> "walk"]
      OBVIOUS
    <2>7. h.pc = "walk" /\ thread' = [thread EXCEPT !["drain"] = h] /\ thread'["drain"] = h
      BY <1>1, <1>4, <2>6 DEF Typed
    <2>8. AtHead'
      <3>1. /\ nextK' = nextK /\ DOMAIN lines' = DOMAIN lines \ {d.k}
            /\ \A j \in DOMAIN lines' : lines'[j].b = lines[j].b
        BY <1>1, <2>4, DoneLines
      <3>2. \A j \in DOMAIN lines' : d.k < j \/ lines'[j].b \in passed'
        BY <1>1, <1>2, <1>3, <3>1
      <3> QED
        BY <1>2, <1>3, <1>4, <2>7, <3>1, <3>2 DEF AtHead
    <2> QED
      BY <1>1, <2>4, <2>5, <2>6, <2>7, <2>8, DoneMade
  <1>5. CASE /\ thread' = [thread EXCEPT !["drain"] = [pc |-> "shift", k |-> d.k, current |-> a.at]]
             /\ UNCHANGED <<walk, lines, disk, nextK, position, fate, count>>
    <2>1. PICK h : h = [pc |-> "shift", k |-> d.k, current |-> a.at]
      OBVIOUS
    <2>2. h.pc = "shift" /\ h.k = d.k /\ thread' = [thread EXCEPT !["drain"] = h] /\ thread'["drain"] = h
      BY <1>1, <1>5, <2>1 DEF Typed
    <2>3. RemarkStep
      BY <1>1, <1>5, SameQueue DEF RemarkStep
    <2>4. Sure(h, lines', nextK', Owed', log')
      <3>1. Sure(d, lines, nextK, Owed, log)
        BY <1>1 DEF HoldInv, Hands
      <3>2. Sure(h, lines, nextK, Owed, log)
        BY <1>1, <2>2, <3>1 DEF Sure, Named, HasFrame, HasLine
      <3> QED
        BY <1>1, <1>5, <3>2 DEF Owed
    <2>5. AtHead'
      BY <1>1, <1>2, <1>3, <1>5, <2>2 DEF AtHead
    <2>6. Clean /\ Rows => ReadBased'
      BY <2>2 DEF ReadBased
    <2> QED
      BY <2>2, <2>3, <2>4, <2>5, <2>6, RemarkDrain
  <1>6. CASE /\ Remark(Set({d.k}, LAMBDA l : [l EXCEPT !.sent = TRUE,
                   !.cause = IF a.kind \in {"refused", "faced"} THEN "refused" ELSE "holding"]))
             /\ Stop(d.k) /\ UNCHANGED <<position, fate>>
    <2>1. PICK c \in Causes : c = IF a.kind \in {"refused", "faced"} THEN "refused" ELSE "holding"
      BY DEF Causes
    <2>2. Remark(Set({d.k}, LAMBDA l : [l EXCEPT !.sent = TRUE, !.cause = c]))
      BY <1>6, <2>1 DEF Remark, Set
    <2>3. RemarkStep
      BY <1>1, <1>6, <2>2, FailedMarks DEF RemarkStep
    <2> QED
      BY <1>2, <1>6, <2>3, DrainStops DEF Stop
  <1> QED
    BY <1>4, <1>5, <1>6 DEF DrainAnswered

LEMMA CallShiftAnsweredKeeps ==
    ASSUME HoldInv, Typed', CallShiftAnswered
    PROVE  HoldInv'
  <1> DEFINE c == thread["call"]
             a == c.answer
             done == thread' = [thread EXCEPT !["call"] = Idle]
  <1>1. /\ Typed /\ c.pc = "answer" /\ c.shifted /\ UNCHANGED <<log, net, burst, walk, passed>>
        /\ "call" \in Threads /\ AtHead
    BY HandsAre DEF HoldInv, CallShiftAnswered, board
  <1>2. c.k \in Nat /\ c.k < nextK
    BY <1>1, NamedIs DEF Named
  <1>3. Dialing = 0
    BY <1>1 DEF Dialing, Dialed
  <1>4. ASSUME NEW at, NEW as, DoneStep(c.k, at, as), done,
               Clean => (as = "kept" => Witness(c.k, at))
        PROVE  HoldInv'
    <2>1. thread'["drain"] = thread["drain"]
      BY <1>4 DEF Threads
    <2>2. /\ nextK' = nextK /\ nextK \in Nat /\ DOMAIN lines' \subseteq DOMAIN lines
          /\ \A j \in DOMAIN lines' : lines'[j].b = lines[j].b
      <3>1. nextK \in Nat
        BY <1>1 DEF Typed
      <3> QED
        BY <1>1, <1>4, <3>1, DoneLines
    <2>3. \A j \in DOMAIN lines' : j \in Nat /\ j \in DOMAIN lines /\ lines'[j].b = lines[j].b
      BY <1>1, <2>2, LineTyped
    <2>4. AtHead'
      BY <1>1, <2>1, <2>2, <2>3, SameHead
    <2> QED
      BY <1>1, <1>3, <1>4, <2>4, DoneMade
  <1>5. CASE a.kind = "acked" /\ done /\ NoteAck(a.at) /\ DoneLine(c.k, a.at, "kept")
    <2>1. a.at \in 1 .. Len(log) /\ a.at \in Nat /\ Len(log) \in Nat
      BY <1>1, <1>5, AnswerIs, Numbers
    <2>2. position' \in 0 .. Len(log) /\ position <= position' /\ a.at <= position'
      BY <1>1, <1>5, <2>1, NoteAckIs
    <2>3. position' \in Nat
      BY <2>1, <2>2
    <2>4. DoneStep(c.k, a.at, "kept")
      BY <1>1, <1>2, <1>5, <2>1, <2>2, <2>3 DEF DoneStep
    <2>5. Witness(c.k, a.at)
      BY <1>1, <1>5, <2>2, AckWitness
    <2> QED
      BY <1>4, <1>5, <2>4, <2>5
  <1>6. CASE /\ thread' = [thread EXCEPT !["call"] = [pc |-> "shift", k |-> c.k, current |-> a.at]]
             /\ UNCHANGED <<lines, disk, nextK, position, fate, count>>
    <2>1. PICK h : h = [pc |-> "shift", k |-> c.k, current |-> a.at]
      OBVIOUS
    <2>2. h.pc = "shift" /\ h.k = c.k /\ thread' = [thread EXCEPT !["call"] = h]
      BY <1>6, <2>1
    <2>3. RemarkStep
      BY <1>1, <1>6, SameQueue DEF RemarkStep
    <2>4. Sure(h, lines', nextK', Owed', log')
      <3>1. Sure(c, lines, nextK, Owed, log)
        BY <1>1 DEF HoldInv, Hands
      <3>2. Sure(h, lines, nextK, Owed, log)
        BY <1>1, <2>2, <3>1 DEF Sure, Named, HasFrame, HasLine
      <3> QED
        BY <1>1, <1>6, <3>2 DEF Owed
    <2>5. Dialed(h) = 0
      BY <2>2 DEF Dialed
    <2> QED
      BY <1>1, <1>3, <2>2, <2>3, <2>4, <2>5, RemarkCall
  <1>7. CASE /\ done /\ UNCHANGED <<position, fate>>
             /\ Remark(Set({c.k}, LAMBDA l : [l EXCEPT !.sent = TRUE,
                    !.cause = IF a.kind = "refused" THEN "refused" ELSE "holding"]))
    <2>1. PICK m \in Causes : m = IF a.kind = "refused" THEN "refused" ELSE "holding"
      BY DEF Causes
    <2>2. Remark(Set({c.k}, LAMBDA l : [l EXCEPT !.sent = TRUE, !.cause = m]))
      BY <1>7, <2>1 DEF Remark, Set
    <2>3. RemarkStep
      BY <1>1, <1>7, <2>2, FailedMarks DEF RemarkStep
    <2> QED
      BY <1>1, <1>3, <1>7, <2>3, CallRests
  <1>8. CASE done /\ DoneLine(c.k, 0, "back") /\ UNCHANGED <<acked, position>>
    <2>1. position \in Nat /\ Len(log) \in Nat
      <3>1. position \in 0 .. Len(log)
        BY <1>1 DEF Typed
      <3> QED
        BY <1>1, <3>1, Numbers
    <2>2. DoneStep(c.k, 0, "back")
      BY <1>1, <1>2, <1>8, <2>1 DEF DoneStep
    <2> QED
      BY <1>4, <1>8, <2>2
  <1> QED
    BY <1>5, <1>6, <1>7, <1>8 DEF CallShiftAnswered


-----------------------------------------------------------------------------
(* A line entered at the end of the queue, of the last burst typed *)

Entered(b, base) ==
    /\ (disk' = lines' \/ disk' = disk) /\ nextK' = nextK + 1
    /\ DOMAIN lines' = DOMAIN lines \cup {nextK} /\ \A k \in DOMAIN lines : lines'[k] = lines[k]
    /\ lines'[nextK].b = b /\ lines'[nextK].base = base

LEMMA EnteredIs ==
    ASSUME Typed, NEW f \in FrameSet, NEW n \in Nat, N <= n, Of(f, n, Len(log)),
           NEW base \in Nat, base <= Len(log), NEW cause \in Causes, NEW sent \in BOOLEAN,
           NEW through \in Nat, through <= Len(log), EnterLine(f, base, cause, sent, through)
    PROVE  Entered(f.b, base)
  <1>1. (disk' = lines' \/ disk' = disk) /\ nextK' = nextK + 1
    BY EnterIs
  <1>2. DOMAIN lines' = DOMAIN lines \cup {nextK}
    BY EnterIs
  <1>3. \A k \in DOMAIN lines : lines'[k] = lines[k]
    BY EnterIs
  <1>4. lines'[nextK].b = f.b
    BY EnterIs
  <1>5. lines'[nextK].base = base
    BY EnterIs
  <1> QED
    BY <1>1, <1>2, <1>3, <1>4, <1>5 DEF Entered

EnterStep(b, base) ==
    /\ UNCHANGED <<log, net, position, walk, passed>> /\ thread'["drain"] = thread["drain"] /\ Dialing' = 0
    /\ Entered(b, base)
    /\ N' = b /\ ((N' = N /\ Dialing = N) \/ (N' = N + 1 /\ Dialing = 0))
    /\ fate'[b] = "out" /\ \A a \in 1 .. N : fate'[a] = fate[a]

LEMMA EnterKeeps ==
    ASSUME Typed, NEW b \in 1 .. N + 1, NEW base, EnterStep(b, base)
    PROVE  /\ Keeps /\ nextK' \in Nat /\ N' \in Nat /\ N <= N' /\ GivenUp \subseteq GivenUp'
           /\ nextK \notin DOMAIN lines /\ nextK \in Nat /\ \A k \in DOMAIN lines : k \in Nat /\ k < nextK
  <1>1. N \in Nat /\ nextK \in Nat /\ \A k \in DOMAIN lines : k \in 1 .. nextK - 1
    <2>1. nextK \in Nat
      BY DEF Typed
    <2> QED
      BY <2>1, Numbers, LineTyped
  <1>2. /\ N' \in Nat /\ N <= N' /\ nextK' = nextK + 1 /\ log' = log
        /\ \A a \in 1 .. N : fate'[a] = fate[a]
        /\ DOMAIN lines' = DOMAIN lines \cup {nextK} /\ \A k \in DOMAIN lines : lines'[k] = lines[k]
    BY <1>1 DEF EnterStep, Entered
  <1>3. Onward(lines, nextK, Owed, lines', nextK', Owed', N)
    <2>1. \A a \in 1 .. N : Owed'[a] = "out" => Owed[a] = "out"
      BY <1>2, OwedOnward DEF EnterStep
    <2> QED
      BY <1>1, <1>2, <2>1 DEF Onward
  <1>4. Longer
    BY <1>2, Numbers DEF Longer
  <1>5. GivenUp \subseteq GivenUp'
    BY <1>1, <1>2 DEF GivenUp, N
  <1> QED
    BY <1>1, <1>2, <1>3, <1>4, <1>5 DEF Keeps

LEMMA EnterOrder ==
    ASSUME Typed, Typed', Order, NEW b \in 1 .. N + 1, NEW base, EnterStep(b, base)
    PROVE  Order'
  <1>1. /\ N \in Nat /\ N' \in Nat /\ nextK \notin DOMAIN lines /\ nextK \in Nat
        /\ \A k \in DOMAIN lines : k \in Nat /\ k < nextK
    BY EnterKeeps, Numbers
  <1>2. /\ (disk' = lines' \/ disk' = disk) /\ Dialing' = 0
        /\ DOMAIN lines' = DOMAIN lines \cup {nextK} /\ \A k \in DOMAIN lines : lines'[k] = lines[k]
        /\ lines'[nextK].b = b /\ fate'[b] = "out" /\ \A a \in 1 .. N : fate'[a] = fate[a]
        /\ N' = b /\ ((N' = N /\ Dialing = N) \/ (N' = N + 1 /\ Dialing = 0))
    BY DEF EnterStep, Entered
  <1>3. ASSUME NEW k \in DOMAIN lines PROVE lines[k].b \in 1 .. N /\ lines[k].b < b
    <2>1. lines[k].b \in 1 .. N
      BY LineTyped
    <2>2. CASE N' = N /\ Dialing = N
      <3>1. lines = Empty
        BY <1>1, <2>1, <2>2 DEF Order, Alone
      <3> QED
        BY <3>1 DEF Empty
    <2>3. CASE N' = N + 1
      BY <1>1, <1>2, <2>1, <2>3
    <2> QED
      BY <1>2, <2>1, <2>2, <2>3
  <1>4. Ascending(lines')
    <2>1. ASSUME NEW j \in DOMAIN lines', NEW k \in DOMAIN lines', j < k
          PROVE  lines'[j].b < lines'[k].b
      <3>1. j \in DOMAIN lines
        BY <1>1, <1>2, <2>1
      <3>2. CASE k = nextK
        BY <1>2, <1>3, <3>1, <3>2
      <3>3. CASE k \in DOMAIN lines
        BY <1>2, <2>1, <3>1, <3>3 DEF Order, Ascending
      <3> QED
        BY <1>2, <3>2, <3>3
    <2> QED
      BY <2>1 DEF Ascending
  <1>5. Alone'
    BY <1>2 DEF Alone
  <1>6. OutIsHeld'
    <2>1. ASSUME NEW c \in 1 .. N', fate'[c] = "out"
          PROVE  \E k \in DOMAIN lines' : lines'[k].b = c
      <3>1. CASE c = b
        BY <1>2, <3>1
      <3>2. CASE c # b
        <4>1. c \in 1 .. N
          BY <1>1, <1>2, <3>2
        <4>2. Dialing # c
          BY <1>2, <3>2, <4>1
        <4>3. Holds(lines, c)
          BY <1>2, <2>1, <4>1, <4>2 DEF Order, OutIsHeld
        <4> QED
          BY <1>2, <4>3 DEF Holds
      <3> QED
        BY <3>1, <3>2
    <2> QED
      BY <2>1 DEF OutIsHeld, Holds
  <1>7. \A c \in 1 .. N' : c = b \/ c \in 1 .. N
    BY <1>1, <1>2
  <1>8. \A c \in 1 .. N' : fate'[c] # "none"
    BY <1>2, <1>7 DEF Order, Fated
  <1>9. ASSUME NEW k \in DOMAIN lines' PROVE fate'[lines'[k].b] \in Standing
    <2>1. CASE k = nextK
      BY <1>2, <2>1 DEF Standing
    <2>2. CASE k \in DOMAIN lines
      BY <1>2, <1>3, <2>2 DEF Order, Fated
    <2> QED
      BY <1>2, <2>1, <2>2
  <1>10. ASSUME NEW k \in DOMAIN disk PROVE fate'[disk[k].b] # "closed"
    <2>1. disk[k].b \in 1 .. N /\ fate[disk[k].b] # "closed"
      BY DEF Typed, IsQueue, Of, Order, Fated
    <2> QED
      BY <1>2, <2>1
  <1>11. \A c \in 1 .. N : fate'[c] = "out" => fate[c] = "out"
    BY <1>2
  <1> QED
    BY <1>2, <1>4, <1>5, <1>6, <1>8, <1>9, <1>10, <1>11, OrderMade

LEMMA EnterRows ==
    ASSUME Typed, Order, Rows, NEW b \in 1 .. N + 1, NEW base, EnterStep(b, base),
           \A i \in DOMAIN log : log[i].b # 0 /\ log[i].b < b => i <= base \/ Holds(lines, log[i].b)
    PROVE  Rows'
  <1>1. /\ N \in Nat /\ N' \in Nat /\ N <= N' /\ GivenUp \subseteq GivenUp'
        /\ nextK \notin DOMAIN lines /\ \A k \in DOMAIN lines : k \in Nat /\ k < nextK
    BY EnterKeeps, Numbers
  <1>2. /\ (disk' = lines' \/ disk' = disk) /\ Dialing' = 0 /\ log' = log /\ position' = position
        /\ DOMAIN lines' = DOMAIN lines \cup {nextK} /\ \A k \in DOMAIN lines : lines'[k] = lines[k]
        /\ lines'[nextK].b = b /\ lines'[nextK].base = base
        /\ fate'[b] = "out" /\ \A a \in 1 .. N : fate'[a] = fate[a]
        /\ N' = b /\ ((N' = N /\ Dialing = N) \/ (N' = N + 1 /\ Dialing = 0))
        /\ thread'["drain"] = thread["drain"]
    BY DEF EnterStep, Entered
  <1>3. Based(lines', log)
    <2>1. ASSUME NEW k \in DOMAIN lines', NEW i \in DOMAIN log, log[i].b # 0, log[i].b < lines'[k].b
          PROVE  i <= lines'[k].base \/ \E j \in DOMAIN lines' : j < k /\ lines'[j].b = log[i].b
      <3>1. CASE k = nextK
        <4>1. i <= base \/ Holds(lines, log[i].b)
          BY <1>2, <2>1, <3>1
        <4> QED
          BY <1>1, <1>2, <3>1, <4>1 DEF Holds
      <3>2. CASE k \in DOMAIN lines
        <4>1. i <= lines[k].base \/ \E j \in DOMAIN lines : j < k /\ lines[j].b = log[i].b
          BY <1>2, <2>1, <3>2 DEF Rows, Based
        <4> QED
          BY <1>2, <3>2, <4>1
      <3> QED
        BY <1>2, <3>1, <3>2
    <2> QED
      BY <2>1 DEF Based
  <1>4. Positioned'
    <2>1. ASSUME NEW i \in DOMAIN log, log[i].b # 0
          PROVE  i <= position \/ \E j \in DOMAIN lines' : lines'[j].b = log[i].b
      <3>1. i <= position \/ Dialing = log[i].b \/ \E j \in DOMAIN lines : lines[j].b = log[i].b
        BY <2>1 DEF Rows, Positioned, Holds
      <3>2. Dialing = log[i].b => log[i].b = b
        BY <1>2, <2>1
      <3> QED
        BY <1>2, <3>1, <3>2
    <2> QED
      BY <1>2, <2>1 DEF Positioned, Holds
  <1>5. CallBased'
    BY <1>2 DEF CallBased
  <1>6. ReadBased'
    BY <1>2, SameRead DEF Rows
  <1>7. KeptLanded'
    <2>1. \A c \in 1 .. N' : c = b \/ c \in 1 .. N
      BY <1>1, <1>2
    <2>2. \A c : Landings(c)' = Landings(c)
      BY <1>2 DEF Landings
    <2> QED
      BY <1>2, <2>1, <2>2 DEF Rows, KeptLanded
  <1> QED
    BY <1>1, <1>2, <1>3, <1>4, <1>5, <1>6, <1>7, RowsMade

LEMMA EnterMade ==
    ASSUME HoldInv, Typed', NEW b \in 1 .. N + 1, NEW base, EnterStep(b, base), Hands',
           Rows => \A i \in DOMAIN log : log[i].b # 0 /\ log[i].b < b => i <= base \/ Holds(lines, log[i].b)
    PROVE  HoldInv'
  <1>1. Typed /\ Order /\ InNet /\ AtHead
    BY DEF HoldInv
  <1>2. /\ Keeps /\ nextK' \in Nat /\ N' \in Nat /\ N <= N' /\ GivenUp \subseteq GivenUp'
        /\ nextK \in Nat /\ \A k \in DOMAIN lines : k \in Nat
    BY <1>1, EnterKeeps
  <1>3. Order'
    BY <1>1, EnterOrder
  <1>4. InNet'
    BY <1>1, <1>2, NetKept DEF EnterStep
  <1>5. AtHead'
    <2>1. /\ thread'["drain"] = thread["drain"] /\ walk' = walk /\ nextK <= nextK'
          /\ passed' = passed
          /\ \A k \in DOMAIN lines' :
                k \in Nat /\ ((k \in DOMAIN lines /\ lines'[k].b = lines[k].b) \/ nextK <= k)
      BY <1>2 DEF EnterStep, Entered
    <2> QED
      BY <1>1, <1>2, <2>1, SameHead
  <1>6. Clean' => Rows'
    <2>1. Clean' => Clean
      BY <1>1, <1>2, CleanStep DEF EnterStep
    <2> QED
      BY <1>1, <2>1, EnterRows DEF HoldInv
  <1> QED
    BY <1>3, <1>4, <1>5, <1>6 DEF HoldInv

\* A call that dials past no line: what it dials is the last burst, and is out.
LEMMA CallIs ==
    ASSUME HoldInv, thread["call"].pc = "answer", ~thread["call"].shifted
    PROVE  /\ Dialing = N /\ N \in 1 .. N /\ thread["call"].frame.b = N /\ lines = Empty /\ fate[N] = "out"
           /\ DOMAIN lines = {} /\ Turn(N, Owed)
  <1>1. Typed /\ Hands /\ Order /\ "call" \in Threads
    BY HandsAre DEF HoldInv
  <1>2. thread["call"].frame.b \in 1 .. N
    BY <1>1, AnswerIs DEF Of
  <1>3. Dialing = thread["call"].frame.b
    BY DEF Dialing, Dialed
  <1>4. Turn(thread["call"].frame.b, Owed)
    BY <1>1 DEF Hands, Sure, HasFrame
  <1> QED
    BY <1>1, <1>2, <1>3, <1>4 DEF Order, Alone, Empty

\* The call's burst is held as a line.
LEMMA HeldKeeps ==
    ASSUME HoldInv, Typed', thread["call"].pc = "answer", ~thread["call"].shifted,
           NEW cause \in Causes, NEW sent \in BOOLEAN, NEW through \in Nat, through <= Len(log),
           EnterLine(thread["call"].frame, thread["call"].base, cause, sent, through),
           UNCHANGED <<log, net, position, walk, burst, fate, passed>>,
           NEW h, thread' = [thread EXCEPT !["call"] = h],
           h.pc = "idle" \/ (h.pc = "shift" /\ h.k = nextK)
    PROVE  HoldInv'
  <1> DEFINE c == thread["call"]
  <1>1. Typed /\ Hands /\ "call" \in Threads
    BY HandsAre DEF HoldInv
  <1>2. /\ c.frame \in FrameSet /\ Of(c.frame, N, Len(log)) /\ c.base \in Nat /\ c.base <= Len(log)
        /\ N \in Nat
    BY <1>1, AnswerIs, Numbers
  <1>3. /\ Dialing = N /\ N \in 1 .. N /\ c.frame.b = N /\ fate[N] = "out" /\ DOMAIN lines = {}
        /\ Turn(N, Owed)
    BY CallIs
  <1>4. Entered(N, c.base)
    <2>1. PICK f \in FrameSet, base \in Nat, n \in Nat : f = c.frame /\ base = c.base /\ n = N
      BY <1>2
    <2>2. N <= n /\ Of(f, n, Len(log)) /\ base <= Len(log) /\ EnterLine(f, base, cause, sent, through)
      BY <1>2, <2>1
    <2>3. Entered(f.b, base)
      BY <1>1, <2>2, EnteredIs
    <2> QED
      BY <1>3, <2>1, <2>3
  <1>5. thread'["call"] = h /\ thread'["drain"] = thread["drain"]
    BY <1>1 DEF Typed, Threads
  <1>6. Dialing' = 0
    BY <1>5 DEF Dialing, Dialed
  <1>7. N' = N
    BY DEF N
  <1>8. EnterStep(N, c.base)
    BY <1>3, <1>4, <1>5, <1>6, <1>7 DEF EnterStep
  <1>9. N \in 1 .. N + 1
    BY <1>2, <1>3
  <1>10. Keeps /\ nextK' \in Nat /\ nextK \in Nat
    BY <1>1, <1>8, <1>9, EnterKeeps
  <1>11. Sure(h, lines', nextK', Owed', log')
    <2>1. lines'[nextK].b = N /\ Turn(N, Owed') /\ nextK < nextK'
      BY <1>3, <1>4, <1>10 DEF Entered, Owed
    <2>2. h.pc \notin HasFrame /\ h.pc \notin HasLine /\ h.pc # "answer" /\ h.pc # "site"
      BY DEF HasFrame, HasLine
    <2>3. h.pc \in Named => h.k < nextK'
      BY <2>1 DEF Named
    <2>4. h.pc = "shift" /\ h.k \in DOMAIN lines' => Turn(lines'[h.k].b, Owed')
      BY <2>1
    <2> QED
      BY <2>2, <2>3, <2>4 DEF Sure
  <1>12. Hands'
    BY <1>1, <1>10, <1>11, HandsStep
  <1>13. Rows => \A i \in DOMAIN log : log[i].b # 0 /\ log[i].b < N => i <= c.base \/ Holds(lines, log[i].b)
    BY <1>2, <1>3 DEF Rows, CallBased, Below
  <1> QED
    BY <1>8, <1>9, <1>12, <1>13, EnterMade


-----------------------------------------------------------------------------
(* A call's burst acked or given back, and a burst typed *)

LEMMA CallEnds ==
    ASSUME HoldInv, Typed', thread["call"].pc = "answer", ~thread["call"].shifted,
           UNCHANGED <<log, net, burst, walk, lines, disk, nextK, passed>>,
           thread' = [thread EXCEPT !["call"] = Idle],
           NEW as \in {"kept", "back"}, fate' = [fate EXCEPT ![N] = as],
           position <= position', position' \in Nat,
           as = "kept" => \E at \in Landings(N) : at <= position'
    PROVE  HoldInv'
  <1>1. Typed /\ Order /\ Hands /\ InNet /\ AtHead /\ "call" \in Threads
    BY HandsAre DEF HoldInv
  <1>2. /\ Dialing = N /\ N \in 1 .. N /\ lines = Empty /\ fate[N] = "out" /\ DOMAIN lines = {}
        /\ N \in Nat /\ N' = N
    BY <1>1, CallIs, Numbers DEF N
  <1>3. fate'[N] = as /\ \A b \in 1 .. N : b # N => fate'[b] = fate[b]
    <2>1. fate \in [0 .. MaxBursts -> Fates] /\ N <= MaxBursts
      BY <1>1 DEF Typed
    <2>2. 1 .. N \subseteq 0 .. MaxBursts
      BY <1>1, <2>1, Numbers
    <2> QED
      BY <1>2, <2>1, <2>2
  <1>4. thread'["call"] = Idle /\ thread'["drain"] = thread["drain"]
    BY <1>1 DEF Typed, Threads
  <1>5. Dialing' = 0
    BY <1>4 DEF Dialing, Dialed, Idle
  <1>6. \A b \in 1 .. N : fate'[b] = "out" => fate[b] = "out"
    BY <1>2, <1>3
  <1>7. Keeps /\ nextK' \in Nat
    <2>1. nextK \in Nat
      BY <1>1 DEF Typed
    <2>2. Onward(lines, nextK, Owed, lines', nextK', Owed', N)
      <3>1. lines' = lines /\ nextK' = nextK
        OBVIOUS
      <3>2. \A a \in 1 .. N : Owed'[a] = "out" => Owed[a] = "out"
        BY <1>1, <1>6, OwedOnward
      <3> QED
        BY ONLY <2>1, <3>1, <3>2 DEF Onward
    <2>3. Longer
      BY <1>1, Numbers DEF Longer
    <2> QED
      BY <2>1, <2>2, <2>3 DEF Keeps
  <1>8. GivenUp \subseteq GivenUp'
    BY <1>2, <1>3 DEF GivenUp, N
  <1>9. Order'
    <2>1. OutIsHeld'
      <3>1. ASSUME NEW b \in 1 .. N, fate'[b] = "out" PROVE FALSE
        <4>1. fate[b] = "out" /\ b # N
          BY <1>3, <1>6, <3>1
        <4>2. Holds(lines, b)
          BY <1>1, <1>2, <4>1 DEF Order, OutIsHeld
        <4> QED
          BY <1>2, <4>2 DEF Holds
      <3> QED
        BY <1>2, <3>1 DEF OutIsHeld
    <2>2. Ascending(lines') /\ Alone'
      BY <1>1, <1>5 DEF Order, Alone
    <2>3. \A b \in 1 .. N' : fate'[b] # "none"
      BY <1>1, <1>2, <1>3 DEF Order, Fated
    <2>4. \A k \in DOMAIN lines' : fate'[lines'[k].b] \in Standing
      BY <1>2
    <2>5. ASSUME NEW k \in DOMAIN disk PROVE fate'[disk[k].b] # "closed"
      <3>1. disk[k].b \in 1 .. N /\ fate[disk[k].b] # "closed"
        BY <1>1 DEF Typed, IsQueue, Of, Order, Fated
      <3> QED
        BY <1>3, <3>1
    <2> QED
      BY <1>1, <1>6, <2>1, <2>2, <2>3, <2>4, <2>5, OrderMade
  <1>10. Hands'
    BY <1>1, <1>7, RestSure, HandsStep
  <1>11. InNet'
    BY <1>1, <1>7, NetKept
  <1>12. AtHead'
    BY <1>1, <1>4 DEF AtHead
  <1>13. ASSUME Clean' PROVE Rows'
    <2>1. Clean /\ Rows
      BY <1>1, <1>2, <1>8, <1>13, CleanStep DEF HoldInv
    <2>2. \A b : Landings(b)' = Landings(b)
      BY DEF Landings
    <2>3. ASSUME NEW i \in Landings(N) PROVE i <= position'
      <3>1. as = "kept"
        <4>1. N \notin GivenUp'
          BY <1>2, <1>13, <2>2, <2>3 DEF Clean, Residue, Unclaimed, N
        <4> QED
          BY <1>2, <1>3, <4>1 DEF GivenUp, N
      <3>2. PICK at \in Landings(N) : at <= position'
        BY <3>1
      <3>3. at = i
        BY <1>2, <2>1, <2>3, <3>2, CleanIs
      <3> QED
        BY <3>2, <3>3
    <2>4. Positioned'
      <3>1. ASSUME NEW i \in DOMAIN log, log[i].b # 0 PROVE i <= position'
        <4>1. i <= position \/ N = log[i].b
          BY <1>2, <2>1, <3>1 DEF Rows, Positioned, Holds
        <4>2. i \in Nat /\ position \in Nat
          <5>1. position \in 0 .. Len(log) /\ DOMAIN log = 1 .. Len(log)
            BY <1>1, Numbers DEF Typed
          <5> QED
            BY <1>1, <5>1, Numbers
        <4> QED
          BY <2>3, <3>1, <4>1, <4>2 DEF Landings
      <3> QED
        BY <3>1 DEF Positioned
    <2>5. KeptLanded'
      BY <1>2, <1>3, <2>1, <2>2 DEF Rows, KeptLanded
    <2>6. ReadBased' /\ CallBased'
      BY <1>4, <1>5, <2>1, SameRead DEF Rows, CallBased
    <2>7. Based(lines', log)
      BY <2>1 DEF Rows
    <2> QED
      BY <1>1, <1>2, <1>8, <2>1, <2>4, <2>5, <2>6, <2>7, RowsMade
  <1> QED
    BY <1>9, <1>10, <1>11, <1>12, <1>13 DEF HoldInv

LEMMA CallAnsweredKeeps ==
    ASSUME HoldInv, Typed', CallAnswered
    PROVE  HoldInv'
  <1> DEFINE c == thread["call"]
             a == c.answer
             done == thread' = [thread EXCEPT !["call"] = Idle]
  <1>1. /\ Typed /\ Hands /\ c.pc = "answer" /\ ~c.shifted
        /\ UNCHANGED <<log, net, walk, burst, passed>> /\ "call" \in Threads
    BY HandsAre DEF HoldInv, CallAnswered, board
  <1>2. /\ c.frame.b = N /\ a.at \in 0 .. Len(log) /\ a.at \in Nat /\ Len(log) \in Nat
        /\ a.kind = "acked" => a.at \in 1 .. Len(log)
    BY <1>1, AnswerIs, CallIs, Numbers
  <1>3. CASE /\ a.kind = "acked" /\ done /\ NoteAck(a.at)
             /\ fate' = [fate EXCEPT ![c.frame.b] = "kept"]
             /\ UNCHANGED store
    <2>1. position' \in 0 .. Len(log) /\ position <= position' /\ a.at <= position'
      BY <1>1, <1>2, <1>3, NoteAckIs
    <2>2. position' \in Nat
      BY <1>2, <2>1
    <2>3. a.at \in Landings(N)
      <3>1. log[a.at].b = c.frame.b /\ a.at \in DOMAIN log
        BY <1>1, <1>2, <1>3, Numbers DEF Hands, Sure
      <3> QED
        BY <1>2, <3>1 DEF Landings
    <2>4. UNCHANGED <<lines, disk, nextK>>
      BY <1>3 DEF store
    <2> QED
      BY <1>1, <1>2, <1>3, <2>1, <2>2, <2>3, <2>4, CallEnds
  <1>4. CASE /\ EnterLine(c.frame, c.base, "moved", FALSE, a.at)
             /\ thread' = [thread EXCEPT !["call"] =
                             IF burst[c.frame.b].anchored
                             THEN [pc |-> "shift", k |-> nextK, current |-> a.at] ELSE Idle]
             /\ UNCHANGED <<position, fate>>
    <2>1. PICK h : h = IF burst[c.frame.b].anchored
                       THEN [pc |-> "shift", k |-> nextK, current |-> a.at] ELSE Idle
      OBVIOUS
    <2>2. thread' = [thread EXCEPT !["call"] = h]
      BY <1>4, <2>1
    <2>3. h.pc = "idle" \/ (h.pc = "shift" /\ h.k = nextK)
      BY <2>1 DEF Idle
    <2>4. "moved" \in Causes /\ FALSE \in BOOLEAN /\ a.at <= Len(log)
      BY <1>2 DEF Causes
    <2> QED
      BY <1>1, <1>2, <1>4, <2>2, <2>3, <2>4, HeldKeeps
  <1>5. CASE /\ a.kind \in {"lost", "unsent", "refused"} /\ done
             /\ EnterLine(c.frame, c.base, IF a.kind = "refused" THEN "refused" ELSE "holding",
                          a.kind = "lost", 0)
             /\ UNCHANGED <<position, fate>>
    <2>1. PICK cause \in Causes : cause = IF a.kind = "refused" THEN "refused" ELSE "holding"
      BY DEF Causes
    <2>2. PICK sent \in BOOLEAN : sent = (a.kind = "lost")
      OBVIOUS
    <2>3. EnterLine(c.frame, c.base, cause, sent, 0)
      BY <1>5, <2>1, <2>2
    <2>4. PICK h : h = Idle
      OBVIOUS
    <2>5. h.pc = "idle" /\ thread' = [thread EXCEPT !["call"] = h]
      BY <1>5, <2>4 DEF Idle
    <2>6. 0 \in Nat /\ 0 <= Len(log)
      BY <1>2
    <2> QED
      BY <1>1, <1>5, <2>3, <2>5, <2>6, HeldKeeps
  <1>6. CASE /\ done /\ fate' = [fate EXCEPT ![c.frame.b] = "back"]
             /\ UNCHANGED <<store, count, acked, position>>
    <2>1. position \in Nat
      <3>1. position \in 0 .. Len(log)
        BY <1>1 DEF Typed
      <3> QED
        BY <1>2, <3>1
    <2>2. position <= position' /\ position' \in Nat /\ UNCHANGED <<lines, disk, nextK>>
      BY <1>6, <2>1 DEF store
    <2> QED
      BY <1>1, <1>2, <1>6, <2>2, CallEnds
  <1> QED
    BY <1>3, <1>4, <1>5, <1>6 DEF CallAnswered

LEMMA SendBurstKeeps ==
    ASSUME HoldInv, Typed', NEW op \in Ops, NEW p \in 1 .. Len(text) + 1, SendBurst(op, p)
    PROVE  HoldInv'
  <1>1. Typed /\ Order /\ Hands /\ InNet /\ AtHead /\ "call" \in Threads
    BY HandsAre DEF HoldInv
  <1>2. PICK f : f = [b |-> N + 1, op |-> op, first |-> p, asOf |-> seen]
    OBVIOUS
  <1>3. /\ N' = N + 1 /\ N + 1 <= MaxBursts /\ fate' = [fate EXCEPT ![N + 1] = "out"]
        /\ f \in FrameSet /\ Of(f, N + 1, Len(log)) /\ f.b = N + 1
        /\ \/ Behind /\ EnterLine(f, position, "holding", FALSE, 0) /\ UNCHANGED thread
           \/ /\ ~Behind
              /\ thread' = [thread EXCEPT !["call"] = Dial(0, f, FALSE, position)]
              /\ UNCHANGED <<lines, disk, nextK, count>>
        /\ UNCHANGED <<log, net, position, walk, passed>>
        /\ thread["call"].pc = "idle"
    BY <1>1, <1>2, BurstTyped
  <1>4. /\ N \in Nat /\ N + 1 \in 1 .. N + 1 /\ position \in Nat /\ position <= Len(log)
        /\ Len(log) \in Nat /\ nextK \in Nat \ {0} /\ N + 1 \in Nat /\ N <= N + 1
    <2>1. N \in Nat /\ position \in 0 .. Len(log) /\ Len(log) \in Nat /\ nextK \in Nat \ {0}
      BY <1>1, Numbers DEF Typed
    <2> QED
      BY <2>1
  <1>5. fate'[N + 1] = "out" /\ \A b \in 1 .. N : fate'[b] = fate[b]
    <2>1. fate \in [0 .. MaxBursts -> Fates]
      BY <1>1 DEF Typed
    <2>2. N + 1 \in 0 .. MaxBursts /\ \A b \in 1 .. N : b \in 0 .. MaxBursts /\ b # N + 1
      BY <1>1, <1>3, <1>4, Numbers
    <2> QED
      BY <1>3, <2>1, <2>2
  <1>6. Dialing = 0
    BY <1>3 DEF Dialing, Dialed
  <1>7. CASE Behind /\ EnterLine(f, position, "holding", FALSE, 0) /\ UNCHANGED thread
    <2>1. Entered(N + 1, position)
      <3>1. "holding" \in Causes /\ FALSE \in BOOLEAN /\ 0 \in Nat /\ 0 <= Len(log)
        BY <1>4 DEF Causes
      <3>2. Entered(f.b, position)
        BY <1>1, <1>3, <1>4, <1>7, <3>1, EnteredIs
      <3> QED
        BY <1>3, <3>2
    <2>2. Dialing' = 0
      BY <1>3, <1>7 DEF Dialing, Dialed
    <2>3. EnterStep(N + 1, position)
      BY <1>3, <1>5, <1>6, <1>7, <2>1, <2>2 DEF EnterStep
    <2>4. Hands'
      BY <1>1, <1>4, <1>7, <2>3, EnterKeeps, SameHands
    <2>5. Rows => \A i \in DOMAIN log : log[i].b # 0 /\ log[i].b < N + 1
                                        => i <= position \/ Holds(lines, log[i].b)
      BY <1>6 DEF Rows, Positioned
    <2> QED
      BY <1>4, <2>3, <2>4, <2>5, EnterMade
  <1>8. CASE /\ ~Behind
             /\ thread' = [thread EXCEPT !["call"] = Dial(0, f, FALSE, position)]
             /\ UNCHANGED <<lines, disk, nextK, count>>
    <2>1. lines = Empty /\ DOMAIN lines = {}
      BY <1>8 DEF Behind, Empty
    <2>2. PICK h : h = Dial(0, f, FALSE, position)
      OBVIOUS
    <2>3. /\ h.pc = "dial" /\ h.k = 0 /\ h.frame.b = N + 1 /\ h.shifted = FALSE /\ h.base = position
          /\ thread' = [thread EXCEPT !["call"] = h]
      BY <1>3, <1>8, <2>2 DEF Dial
    <2>4. thread'["call"] = h /\ thread'["drain"] = thread["drain"]
      BY <1>1, <2>3 DEF Typed, Threads
    <2>5. Dialing' = N + 1
      BY <2>3, <2>4 DEF Dialing, Dialed
    <2>6. \A b \in 1 .. N : fate[b] # "out" /\ fate'[b] # "out"
      BY <1>1, <1>4, <1>5, <1>6, <2>1 DEF Order, OutIsHeld, Holds
    <2>7. \A b \in 1 .. N' : b \in 1 .. N \/ b = N + 1
      BY <1>3, <1>4
    <2>8. Turn(N + 1, Owed')
      <3>1. \A b \in 1 .. (N + 1) - 1 : b \in 1 .. N /\ b \in 1 .. MaxBursts
        BY <1>3, <1>4, Numbers, <1>1
      <3> QED
        BY <2>6, <3>1 DEF Turn, Owed
    <2>9. Keeps
      <3>1. Onward(lines, nextK, Owed, lines', nextK', Owed', N)
        <4>1. \A a \in 1 .. N : Owed'[a] = "out" => Owed[a] = "out"
          BY <1>1, <1>3, <2>6, OwedOnward
        <4> QED
          BY <1>4, <1>8, <4>1 DEF Onward
      <3>2. Longer
        BY <1>3, <1>4 DEF Longer
      <3> QED
        BY <3>1, <3>2 DEF Keeps
    <2>10. Sure(h, lines', nextK', Owed', log')
      <3>1. h.k < nextK' /\ h.k \notin DOMAIN lines'
        BY <1>4, <1>8, <2>1, <2>3
      <3> QED
        BY <2>3, <2>8, <3>1 DEF Sure, Named, HasFrame, HasLine
    <2>11. Hands'
      BY <1>1, <1>4, <1>8, <2>3, <2>9, <2>10, HandsStep
    <2>12. InNet'
      BY <1>1, <1>3, <2>9, NetKept
    <2>13. AtHead'
      BY <1>1, <1>3, <1>8, <2>1, <2>4 DEF AtHead
    <2>14. Order'
      <3>1. Alone'
        BY <1>3, <1>5, <1>8, <2>1, <2>5 DEF Alone
      <3>2. OutIsHeld'
        BY <1>3, <2>5, <2>6, <2>7 DEF OutIsHeld
      <3>3. \A b \in 1 .. N' : fate'[b] # "none"
        BY <1>1, <1>5, <2>7 DEF Order, Fated
      <3>4. \A k \in DOMAIN lines' : fate'[lines'[k].b] \in Standing
        BY <1>8, <2>1
      <3>5. ASSUME NEW k \in DOMAIN disk PROVE fate'[disk[k].b] # "closed"
        <4>1. disk[k].b \in 1 .. N /\ fate[disk[k].b] # "closed"
          BY <1>1 DEF Typed, IsQueue, Of, Order, Fated
        <4> QED
          BY <1>5, <4>1
      <3>6. Ascending(lines') /\ disk' = disk
        BY <1>1, <1>8 DEF Order
      <3> QED
        BY <1>1, <2>6, <3>1, <3>2, <3>3, <3>4, <3>5, <3>6, OrderMade
    <2>15. ASSUME Clean' PROVE Rows'
      <3>1. GivenUp \subseteq GivenUp'
        BY <1>3, <1>4, <1>5 DEF GivenUp, N
      <3>2. N' \in Nat /\ N <= N' /\ log' = log /\ passed' = passed
        BY <1>3, <1>4
      <3>3. Rows
        BY <1>1, <2>15, <3>1, <3>2, CleanStep DEF HoldInv
      <3>4. \A b : Landings(b)' = Landings(b)
        BY <3>2 DEF Landings
      <3>5. Positioned'
        BY <1>3, <1>6, <1>8, <3>3 DEF Rows, Positioned
      <3>6. CallBased'
        <4>1. Below(N + 1, position, log)
          BY <1>6, <2>1, <3>3 DEF Rows, Positioned, Below, Holds
        <4> QED
          BY <2>3, <2>4, <2>5, <3>2, <4>1 DEF CallBased, Below
      <3>7. ReadBased'
        BY <2>4, <3>2, <3>3, SameRead DEF Rows
      <3>8. KeptLanded'
        BY <1>5, <2>7, <3>3, <3>4 DEF Rows, KeptLanded
      <3>9. Based(lines', log)
        BY <1>8, <3>3 DEF Rows
      <3> QED
        BY <1>1, <1>8, <3>1, <3>2, <3>3, <3>5, <3>6, <3>7, <3>8, <3>9, RowsMade
    <2> QED
      BY <2>11, <2>12, <2>13, <2>14, <2>15 DEF HoldInv
  <1> QED
    BY <1>3, <1>7, <1>8


-----------------------------------------------------------------------------
(* The person drops, the shell closes *)

LEMMA ResolveDropKeeps ==
    ASSUME HoldInv, Typed', NEW k \in DOMAIN lines, ResolveDrop(k)
    PROVE  HoldInv'
  <1>1. Typed /\ Order /\ Hands /\ InNet /\ AtHead
    BY DEF HoldInv
  <1>2. PICK kept : kept = {j \in DOMAIN lines : j < k}
    OBVIOUS
  <1>3. PICK gone : gone = {lines[j].b : j \in DOMAIN lines \ kept}
    OBVIOUS
  <1>4. /\ lines' = [j \in kept |-> lines[j]] /\ nextK' = nextK /\ (disk' = lines' \/ disk' = disk)
        /\ fate' = [b \in DOMAIN fate |-> IF b \in gone THEN "dropped" ELSE fate[b]]
        /\ UNCHANGED <<log, net, position, thread, walk, burst, passed>>
    BY <1>2, <1>3 DEF ResolveDrop, board
  <1>5. /\ DOMAIN lines' = kept /\ kept \subseteq DOMAIN lines
        /\ \A j \in kept : lines'[j] = lines[j] /\ j < k
        /\ \A j \in DOMAIN lines : j \in Nat /\ (j < k => j \in kept)
        /\ k \in Nat
    BY <1>1, <1>2, <1>4, LineTyped
  <1>6. N' = N /\ N \in Nat /\ nextK \in Nat
    <2>1. nextK \in Nat
      BY <1>1 DEF Typed
    <2> QED
      BY <1>1, <1>4, <2>1, Numbers DEF N
  <1>7. \A b \in 1 .. N : fate'[b] = IF b \in gone THEN "dropped" ELSE fate[b]
    <2>1. fate \in [0 .. MaxBursts -> Fates] /\ N <= MaxBursts
      BY <1>1 DEF Typed
    <2>2. 1 .. N \subseteq DOMAIN fate
      BY <1>1, <2>1, Numbers
    <2> QED
      BY <1>4, <2>2
  <1>8. Dialing = 0 /\ Dialing' = 0
    <2>1. lines # Empty
      BY DEF Empty
    <2> QED
      BY <1>1, <1>4, <2>1 DEF Order, Alone, Dialing
  <1>9. \A b \in 1 .. N : fate'[b] = "out" => fate[b] = "out" /\ b \notin gone
    BY <1>7
  <1>10. Keeps /\ nextK' \in Nat
    <2>1. Onward(lines, nextK, Owed, lines', nextK', Owed', N)
      <3>1. \A a \in 1 .. N : Owed'[a] = "out" => Owed[a] = "out"
        BY <1>1, <1>4, <1>9, OwedOnward
      <3> QED
        BY <1>4, <1>5, <1>6, <3>1 DEF Onward
    <2>2. Longer
      BY <1>1, <1>4, Numbers DEF Longer
    <2> QED
      BY <1>4, <1>6, <2>1, <2>2 DEF Keeps
  <1>11. GivenUp \subseteq GivenUp' /\ \A b \in 1 .. N : b \in gone => b \in GivenUp'
    BY <1>6, <1>7 DEF GivenUp, N
  \* What a line held is held still, or is dropped.
  <1>12. ASSUME NEW j \in DOMAIN lines
         PROVE  /\ lines[j].b \in 1 .. N
                /\ j \in kept \/ lines[j].b \in gone
                /\ j \in kept => lines[j].b \notin gone
    <2>1. lines[j].b \in 1 .. N
      BY <1>1, LineTyped
    <2>2. j \in kept => lines[j].b \notin gone
      <3>1. ASSUME j \in kept, NEW i \in DOMAIN lines \ kept, lines[i].b = lines[j].b PROVE FALSE
        <4>1. j < i
          BY <1>5, <3>1
        <4>2. lines[j].b < lines[i].b
          BY <1>1, <3>1, <4>1 DEF Order, Ascending
        <4> QED
          BY <2>1, <3>1, <4>2
      <3> QED
        BY <1>3, <3>1
    <2> QED
      BY <1>3, <2>1, <2>2
  <1>13. Order'
    <2>1. Ascending(lines')
      BY <1>1, <1>5 DEF Order, Ascending
    <2>2. Alone'
      BY <1>8 DEF Alone
    <2>3. OutIsHeld'
      <3>1. ASSUME NEW b \in 1 .. N, fate'[b] = "out" PROVE \E j \in DOMAIN lines' : lines'[j].b = b
        <4>1. fate[b] = "out" /\ b \notin gone
          BY <1>9, <3>1
        <4>2. PICK j \in DOMAIN lines : lines[j].b = b
          BY <1>1, <1>8, <4>1 DEF Order, OutIsHeld, Holds
        <4> QED
          BY <1>5, <1>12, <4>1, <4>2
      <3> QED
        BY <1>6, <3>1 DEF OutIsHeld, Holds
    <2>4. \A b \in 1 .. N' : fate'[b] # "none"
      BY <1>1, <1>6, <1>7 DEF Order, Fated
    <2>5. \A j \in DOMAIN lines' : fate'[lines'[j].b] \in Standing
      BY <1>1, <1>5, <1>7, <1>12 DEF Order, Fated
    <2>6. ASSUME NEW j \in DOMAIN disk PROVE fate'[disk[j].b] # "closed"
      <3>1. disk[j].b \in 1 .. N /\ fate[disk[j].b] # "closed"
        BY <1>1 DEF Typed, IsQueue, Of, Order, Fated
      <3> QED
        BY <1>7, <3>1
    <2> QED
      BY <1>1, <1>4, <1>9, <2>1, <2>2, <2>3, <2>4, <2>5, <2>6, OrderMade
  <1>14. Hands'
    BY <1>1, <1>4, <1>10, SameHands
  <1>15. InNet'
    BY <1>1, <1>4, <1>10, NetKept
  <1>16. AtHead'
    BY <1>1, <1>4, <1>5, <1>6, SameHead
  <1>17. ASSUME Clean' PROVE Rows'
    <2>1. Rows
      BY <1>1, <1>4, <1>6, <1>11, <1>17, CleanStep DEF HoldInv
    <2>2. \A b : Landings(b)' = Landings(b)
      BY <1>4 DEF Landings
    <2>3. Based(lines', log)
      <3>1. ASSUME NEW j \in kept, NEW i \in DOMAIN log, log[i].b # 0, log[i].b < lines[j].b
            PROVE  i <= lines[j].base \/ \E m \in kept : m < j /\ lines[m].b = log[i].b
        <4>1. i <= lines[j].base \/ \E m \in DOMAIN lines : m < j /\ lines[m].b = log[i].b
          BY <1>5, <2>1, <3>1 DEF Rows, Based
        <4>2. \A m \in DOMAIN lines : m < j => m \in kept
          BY <1>5
        <4> QED
          BY <4>1, <4>2
      <3> QED
        BY <1>5, <3>1 DEF Based
    <2>4. Positioned'
      <3>1. ASSUME NEW i \in DOMAIN log, log[i].b # 0
            PROVE  i <= position \/ \E j \in DOMAIN lines' : lines'[j].b = log[i].b
        <4>1. i <= position \/ \E j \in DOMAIN lines : lines[j].b = log[i].b
          BY <1>8, <2>1, <3>1 DEF Rows, Positioned, Holds
        <4>2. ASSUME NEW j \in DOMAIN lines, lines[j].b = log[i].b PROVE j \in kept
          <5>1. log[i].b \in 1 .. N /\ i \in Landings(log[i].b)
            BY <1>12, <4>2 DEF Landings
          <5>2. log[i].b \notin GivenUp'
            BY <1>6, <1>17, <2>2, <5>1 DEF Clean, Residue, Unclaimed, N
          <5> QED
            BY <1>11, <1>12, <4>2, <5>1, <5>2
        <4> QED
          BY <1>5, <4>1, <4>2
      <3> QED
        BY <1>4, <3>1 DEF Positioned, Holds
    <2>5. CallBased'
      BY <1>8 DEF CallBased
    <2>6. ReadBased'
      BY <1>4, <2>1, SameRead DEF Rows
    <2>7. KeptLanded'
      BY <1>6, <1>7, <2>1, <2>2 DEF Rows, KeptLanded
    <2> QED
      BY <1>1, <1>4, <1>6, <1>11, <2>1, <2>3, <2>4, <2>5, <2>6, <2>7, RowsMade
  <1> QED
    BY <1>13, <1>14, <1>15, <1>16, <1>17 DEF HoldInv

LEMMA RelaunchKeeps ==
    ASSUME HoldInv, Typed', Relaunch
    PROVE  HoldInv'
  <1>1. Typed /\ Order /\ Hands /\ InNet
    BY DEF HoldInv
  <1>2. PICK back : back = {disk[k].b : k \in DOMAIN disk}
    OBVIOUS
  <1>3. /\ lines' = disk /\ disk' = disk /\ position' = Len(log)
        /\ net' = net \cup {thread[t].frame : t \in {t \in Threads : thread[t].pc = "dial"}}
        /\ thread' = [t \in Threads |-> Idle] /\ walk' = NoTurn
        /\ fate' = [b \in DOMAIN fate |->
                      CASE b \in back /\ fate[b] \in {"dropped", "back"} -> "again"
                        [] b \notin back /\ fate[b] = "out" -> "closed"
                        [] OTHER -> fate[b]]
        /\ UNCHANGED <<log, burst, passed>>
    BY <1>2 DEF Relaunch, board
  <1>4. N' = N /\ N \in Nat /\ nextK' \in Nat \ {0}
    BY <1>1, <1>3, RelaunchOrdinal, Numbers DEF N
  <1>5. ASSUME NEW b \in 1 .. N
        PROVE  /\ fate'[b] = "out" => fate[b] = "out" /\ b \in back
               /\ fate'[b] # "none" /\ (fate'[b] = "kept" => fate[b] = "kept")
               /\ b \in back => fate'[b] \in Standing
               /\ b \in GivenUp => b \in GivenUp'
    <2>1. fate \in [0 .. MaxBursts -> Fates] /\ N <= MaxBursts
      BY <1>1 DEF Typed
    <2>2. b \in DOMAIN fate /\ fate[b] \in Fates
      BY <1>1, <2>1, Numbers
    <2>3. \/ b \in back /\ fate[b] \in {"dropped", "back"} /\ fate'[b] = "again"
          \/ b \notin back /\ fate[b] = "out" /\ fate'[b] = "closed"
          \/ /\ fate'[b] = fate[b]
             /\ b \in back => fate[b] \notin {"dropped", "back"}
             /\ b \notin back => fate[b] # "out"
      <3>1. CASE b \in back /\ fate[b] \in {"dropped", "back"}
        BY <1>3, <2>2, <3>1
      <3>2. CASE b \notin back /\ fate[b] = "out"
        BY <1>3, <2>2, <3>2
      <3>3. CASE ~(b \in back /\ fate[b] \in {"dropped", "back"}) /\ ~(b \notin back /\ fate[b] = "out")
        BY <1>3, <2>2, <3>3
      <3> QED
        BY <3>1, <3>2, <3>3
    <2>4. fate[b] # "none" /\ (b \in back => fate[b] # "closed")
      BY <1>1, <1>2 DEF Order, Fated
    <2>5. b \in back => fate'[b] \in Standing
      BY <2>2, <2>3, <2>4 DEF Fates, Standing
    <2>6. b \in GivenUp => b \in GivenUp'
      BY <1>4, <2>3 DEF GivenUp, N
    <2> QED
      BY <2>3, <2>4, <2>5, <2>6
  <1>6. thread'["call"] = Idle /\ thread'["drain"] = Idle /\ \A t \in Threads : thread'[t] = Idle
    BY <1>3 DEF Threads
  <1>7. Dialing' = 0
    BY <1>6 DEF Dialing, Dialed, Idle
  <1>8. Order'
    <2>1. Ascending(lines') /\ disk' = disk
      BY <1>1, <1>3 DEF Order
    <2>2. Alone'
      BY <1>7 DEF Alone
    <2>3. OutIsHeld'
      BY <1>2, <1>3, <1>4, <1>5 DEF OutIsHeld, Holds
    <2>4. ASSUME NEW k \in DOMAIN disk
          PROVE  disk[k].b \in 1 .. N /\ disk[k].b \in back
      BY <1>1, <1>2 DEF Typed, IsQueue, Of
    <2>5. \A k \in DOMAIN lines' : fate'[lines'[k].b] \in Standing
      BY <1>3, <1>5, <2>4
    <2>6. \A k \in DOMAIN disk : fate'[disk[k].b] # "closed"
      BY <1>5, <2>4 DEF Standing
    <2>7. \A b \in 1 .. N' : fate'[b] # "none"
      BY <1>4, <1>5
    <2>8. \A b \in 1 .. N : fate'[b] = "out" => fate[b] = "out"
      BY <1>5
    <2> QED
      BY <1>1, <2>1, <2>2, <2>3, <2>5, <2>6, <2>7, <2>8, OrderMade
  <1>9. Hands'
    BY <1>6, RestSure DEF Hands
  <1>10. InNet'
    <2>1. \A b \in 1 .. N : Turn(b, Owed) => Turn(b, Owed')
      <3>1. \A a \in 1 .. N : Owed'[a] = "out" => Owed[a] = "out"
        BY <1>1, <1>3, <1>5, OwedOnward
      <3> QED
        BY <1>4, <3>1, TurnOnward
    <2>2. \A f \in net : f.b \in 1 .. N /\ Turn(f.b, Owed)
      BY <1>1 DEF Typed, IsNet, Of, InNet
    <2>3. \A t \in Threads : thread[t].pc = "dial" => thread[t].frame.b \in 1 .. N
                                                      /\ Turn(thread[t].frame.b, Owed)
      BY <1>1, DialHas DEF Of
    <2> QED
      BY <1>3, <2>1, <2>2, <2>3 DEF InNet
  <1>11. AtHead'
    BY <1>3, <1>4, <1>6 DEF AtHead, Idle, NoTurn
  <1>12. ASSUME Clean' PROVE Rows'
    <2>1. GivenUp \subseteq GivenUp'
      BY <1>5 DEF GivenUp, N
    <2>2. Rows
      BY <1>1, <1>3, <1>4, <1>12, <2>1, CleanStep DEF HoldInv
    <2>3. \A b : Landings(b)' = Landings(b)
      BY <1>3 DEF Landings
    <2>4. Based(lines', log)
      BY <1>3, <2>2 DEF Rows
    <2>5. Positioned'
      BY <1>1, <1>3, Numbers DEF Positioned
    <2>6. CallBased' /\ ReadBased'
      BY <1>6, <1>7 DEF CallBased, ReadBased, Idle
    <2>7. KeptLanded'
      BY <1>4, <1>5, <2>2, <2>3 DEF Rows, KeptLanded
    <2> QED
      BY <1>1, <1>3, <1>4, <2>1, <2>2, <2>4, <2>5, <2>6, <2>7, RowsMade
  <1> QED
    BY <1>8, <1>9, <1>10, <1>11, <1>12 DEF HoldInv

-----------------------------------------------------------------------------
(* The invariant *)

LEMMA NextKeeps ==
    ASSUME HoldInv, [Next]_vars
    PROVE  HoldInv'
  <1>1. Typed /\ Hands /\ InNet /\ "call" \in Threads /\ "drain" \in Threads
    BY HandsAre DEF HoldInv
  <1>2. Typed'
    BY <1>1, NextTyped
  <1>3. CASE CallStep
    <2>1. CASE BoardAnswers("call")
      BY <1>1, <1>2, <2>1, BoardAnswersIs, BoardStepKeeps
    <2>2. CASE CallAnswered \/ CallShiftAnswered
      BY <1>2, <2>2, CallAnsweredKeeps, CallShiftAnsweredKeeps
    <2>3. CASE ShiftAndSend("call") \/ DialShifted("call")
      BY <1>1, <1>2, <2>3, ShiftAndSendKeeps, DialShiftedKeeps
    <2> QED
      BY <1>3, <2>1, <2>2, <2>3 DEF CallStep
  <1>4. CASE DrainStep
    <2>1. CASE BoardAnswers("drain")
      BY <1>1, <1>2, <2>1, BoardAnswersIs, BoardStepKeeps
    <2>2. CASE Drain \/ Walk \/ SendLine
      BY <1>2, <2>2, DrainKeeps, WalkKeeps, SendLineKeeps
    <2>3. CASE ReadRows \/ ReadSite \/ DrainAnswered
      BY <1>2, <2>3, ReadRowsKeeps, ReadSiteKeeps, DrainAnsweredKeeps
    <2>4. CASE ShiftAndSend("drain") \/ DialShifted("drain")
      BY <1>1, <1>2, <2>4, ShiftAndSendKeeps, DialShiftedKeeps
    <2> QED
      BY <1>4, <2>1, <2>2, <2>3, <2>4 DEF DrainStep
  <1>5. CASE \E t \in Threads : BoardRefuses(t) \/ DialFails(t)
    BY <1>1, <1>2, <1>5, BoardRefusesIs, BoardStepKeeps
  <1>6. CASE \E f \in net : Late(f)
    BY <1>1, <1>2, <1>6, LateIs, BoardStepKeeps
  <1>7. CASE OtherHand
    BY <1>1, <1>2, <1>7, OtherHandIs, BoardStepKeeps
  <1>8. CASE PageReads
    <2>1. UNCHANGED <<log, net, lines, disk, nextK, position, thread, walk, burst, fate, passed>>
      BY <1>8 DEF PageReads, board, store
    <2> QED
      BY <1>2, <2>1, SameKeeps
  <1>9. CASE \E op \in Ops, p \in 1 .. Len(text) + 1 : SendBurst(op, p)
    BY <1>2, <1>9, SendBurstKeeps
  <1>10. CASE \E k \in DOMAIN lines : ResolveSend(k) \/ ResolveDrop(k)
    BY <1>2, <1>10, ResolveSendKeeps, ResolveDropKeeps
  <1>11. CASE Relaunch
    BY <1>2, <1>11, RelaunchKeeps
  <1>12. CASE UNCHANGED vars
    <2>1. UNCHANGED <<log, net, lines, disk, nextK, position, thread, walk, burst, fate, passed>>
      BY <1>12 DEF vars
    <2> QED
      BY <1>2, <2>1, SameKeeps
  <1> QED
    BY <1>3, <1>4, <1>5, <1>6, <1>7, <1>8, <1>9, <1>10, <1>11, <1>12 DEF Next

LEMMA InitHolds ==
    ASSUME Init
    PROVE  HoldInv
  <1>1. Typed
    BY InitTyped
  <1>2. /\ N = 0 /\ log = <<>> /\ net = {} /\ lines = Empty /\ disk = Empty /\ nextK = 1
        /\ thread = [t \in Threads |-> Idle] /\ walk = NoTurn /\ passed = {}
    BY DEF Init, N
  <1>3. DOMAIN lines = {} /\ DOMAIN disk = {} /\ DOMAIN log = {} /\ 1 .. N = {}
    BY <1>2 DEF Empty
  <1>4. thread["call"] = Idle /\ thread["drain"] = Idle /\ Dialing = 0
    BY <1>2 DEF Threads, Dialing, Dialed, Idle
  <1>5. Order
    BY <1>3, <1>4 DEF Order, Ascending, Alone, OutIsHeld, Fated, Copies
  <1>6. Hands
    BY <1>2, RestSure DEF Hands
  <1>7. InNet
    BY <1>2 DEF InNet
  <1>8. AtHead
    BY <1>2, <1>4 DEF AtHead, Idle, NoTurn
  <1>9. Rows
    BY <1>3, <1>4 DEF Rows, RowsAscend, Based, Positioned, CallBased, ReadBased, KeptLanded, Idle
  <1> QED
    BY <1>1, <1>5, <1>6, <1>7, <1>8, <1>9 DEF HoldInv

\* What the hold relies on at every step: the queue and its file stand in the order
\* typed, a dial has its turn and the walk is past no standing line, the writes passed
\* aside; and while none is passed and no row of Residue stands, every line's base is
\* at or past the rows of the writes typed before it (base_of, retire, resume_doc's
\* raise, the dial behind a standing line, resolve's restart of a stopped walk).
THEOREM HoldInvariant == Spec => []HoldInv
  <1>1. Init => HoldInv
    BY InitHolds
  <1>2. HoldInv /\ [Next]_vars => HoldInv'
    BY NextKeeps
  <1> QED
    BY <1>1, <1>2, PTL DEF Spec

\* A step appends a row of another hand, or of a write whose turn it is, or none.
LEMMA NextAppends ==
    ASSUME HoldInv, [Next]_vars
    PROVE  LogStep
  <1>1. Typed /\ Hands /\ InNet /\ "call" \in Threads /\ "drain" \in Threads
    BY HandsAre DEF HoldInv
  <1>2. log' = log => LogStep
    BY DEF LogStep
  <1>3. CASE BoardAnswers("call") \/ BoardAnswers("drain")
    BY <1>1, <1>3, BoardAnswersIs DEF BoardStep
  <1>4. CASE \E t \in Threads : BoardRefuses(t) \/ DialFails(t)
    BY <1>1, <1>4, BoardRefusesIs DEF BoardStep
  <1>5. CASE \E f \in net : Late(f)
    BY <1>1, <1>5, LateIs DEF BoardStep
  <1>6. CASE OtherHand
    BY <1>1, <1>6, OtherHandIs DEF BoardStep
  <1>7. CASE \/ CallAnswered \/ CallShiftAnswered
             \/ \E t \in Threads : ShiftAndSend(t) \/ DialShifted(t)
    BY <1>2, <1>7 DEF CallAnswered, CallShiftAnswered, ShiftAndSend, DialShifted, board
  <1>8. CASE Drain \/ Walk \/ SendLine \/ ReadRows \/ ReadSite \/ DrainAnswered
    BY <1>2, <1>8 DEF Drain, Walk, SendLine, ReadRows, ReadSite, DrainAnswered, board
  <1>9. CASE PageReads \/ \E op \in Ops, p \in 1 .. Len(text) + 1 : SendBurst(op, p)
    BY <1>2, <1>9 DEF PageReads, SendBurst, board
  <1>10. CASE Relaunch \/ \E k \in DOMAIN lines : ResolveSend(k) \/ ResolveDrop(k)
    BY <1>2, <1>10 DEF Relaunch, ResolveSend, ResolveDrop, board
  <1>11. CASE UNCHANGED vars
    BY <1>2, <1>11 DEF vars
  <1> QED
    BY <1>1, <1>3, <1>4, <1>5, <1>6, <1>7, <1>8, <1>9, <1>10, <1>11 DEF Next, CallStep, DrainStep

\* No answer lost, no request given up, no other hand's row and no close of the shell
\* lets a write be told kept that is not in the log, but by a row of Residue or once a
\* walk passed a line (KeptIsLanded; resume_doc's Landed, done and the raise of the
\* bases behind).
THEOREM KeptAreLanded == Spec => []KeptIsLanded
  <1>1. HoldInv => KeptIsLanded
    BY DEF HoldInv, Clean, Rows, KeptLanded, KeptIsLanded, Mistaken, N
  <1> QED
    BY <1>1, HoldInvariant, PTL

\* No write lands while one typed before it is out, but those the person sent while the
\* walk that stopped at them was under way (InOrder; send_burst's queue behind a
\* standing line, the drain's walk from the head, and resolve's restart of it).
THEOREM LandsInOrder == Spec => InOrder
  <1> DEFINE Ordered == \A b \in 1 .. Len(burst) :
                           Lands(b) => \A a \in 1 .. b - 1 : fate[a] = "out" => a \in passed
  <1>1. HoldInv /\ [Next]_vars => Ordered
    <2> SUFFICES ASSUME HoldInv, [Next]_vars, NEW b \in 1 .. N, Lands(b)
                 PROVE  \A a \in 1 .. b - 1 : fate[a] = "out" => a \in passed
      BY DEF N
    <2>1. LogStep /\ Typed
      BY NextAppends DEF HoldInv
    <2>2. /\ log' = log \/ Row(log'[Len(log')])
          /\ Len(log) \in Nat
      BY <2>1, LogStepIs, Numbers
    <2>3. log' # log /\ log'[Len(log')].b = b /\ b # 0
      BY <2>2 DEF Lands
    <2>4. \A a \in 1 .. b - 1 : a \in 1 .. N
      BY <2>1, Numbers
    <2> QED
      BY <2>1, <2>2, <2>3, <2>4, OwedIs DEF Row, Turn
  <1>2. HoldInv /\ [Next]_vars => [Ordered]_vars
    BY <1>1
  <1> QED
    BY <1>2, HoldInvariant, PTL DEF Spec, InOrder

=============================================================================
