--------------------------- MODULE HeldStoreProofs ---------------------------
(***************************************************************************)
(* What the held store promises, proved for every set of documents and     *)
(* causes and every bound: the queue and its file never part, no write a   *)
(* call was told is on disk is lost, no file holds a line ahead of one     *)
(* composed before it, and an ordinal names the write it was given to.     *)
(*                                                                         *)
(* The inductive invariant has one part for each thing a later step could  *)
(* be surprised by: what a refused copy may have left past the whole lines *)
(* (`TailsInOrder', `TailsKeep'), which file may have such a tail at all   *)
(* (`TailsWhere'), and what is owed the file (`Agree'), stated as: reading *)
(* the dones still owed gives the file's line the base the queue has.      *)
(***************************************************************************)
EXTENDS HeldStore, Extremes

-----------------------------------------------------------------------------
(* The invariant *)

\* The ordinals whose owed copy is a done line, and their positions.
DonesOf(ow) == {k \in DOMAIN ow : ow[k].done}
AtOf(ow) == [k \in DonesOf(ow) |-> ow[k].at]

\* A file as its reader has it.
FileOK(f) ==
    /\ f.named \in Nat /\ f.marks \in Nat
    /\ DOMAIN f.lines \subseteq 1 .. f.named
    /\ \A k \in DOMAIN f.lines : f.lines[k] \in Line

FilesOK ==
    /\ DOMAIN file = Files /\ DOMAIN left = Files
    /\ \A n \in Files : \A f \in {file[n]} \cup left[n] : FileOK(f)

\* A queue's lines, the copies it owes, the first line that waits, and the
\* ordinals the writer refused a copy of, under the counter nk.
QueueFits(ls, ow, wt, st, nk) ==
    /\ DOMAIN ls \subseteq 1 .. (nk - 1) /\ \A k \in DOMAIN ls : ls[k] \in Line
    /\ DOMAIN ow \subseteq {k \in 1 .. (nk - 1) : wt = 0 \/ k < wt}
    /\ \A k \in DOMAIN ow : ow[k] \in [done: BOOLEAN, at: 0..MaxPos]
    /\ \A k \in DOMAIN ow : ow[k].done <=> k \notin DOMAIN ls
    /\ wt \in 0 .. nk /\ nk \in Nat \ {0}
    /\ st \subseteq DOMAIN ls \ Waiting(ls, wt) /\ st \cap DOMAIN ow = {}

QueueOK ==
    /\ QueueFits(lines, owed, waits, stale, nextK)
    /\ home \notin Files => owed = Empty /\ waits = 0 /\ stale = {}

RestOK ==
    /\ dir \in {"notyet"} \cup Files /\ home \in {"none", "memory"} \cup Files
    /\ touched \in BOOLEAN
    /\ writes \in 0 .. MaxWrites /\ changes \in 0 .. MaxChanges
    /\ spent \in 0 .. changes
    /\ home = "none" => lines = Empty /\ answered = Empty /\ nextK = 1
    /\ home \in Files => home = dir \/ (home = "pending" /\ dir = "board")
    /\ DOMAIN answered \subseteq 1 .. (nextK - 1)

\* The re-marks a file counts and those still owed it are changes of this run
\* or an earlier one.
Marked ==
    /\ \A n \in Files : \A f \in {file[n]} \cup left[n] : f.marks <= changes
    /\ home \in Files =>
          file[home].marks + Cardinality(DOMAIN owed \ DonesOf(owed)) <= changes

\* A line of the file as its reader has it once it has read done lines, and
\* once it has read those owed.
AsRead(f, done, k) == [f.lines[k] EXCEPT !.base = Max({@} \cup DoneAt(f, done, k))]

WithDones(f, ow, k) == AsRead(f, AtOf(ow), k)

\* A queue and its file: the same ordinals but those that wait and those whose
\* done is owed, each line of the same write and document, and the same line
\* but for the dones owed where no copy of it is owed or was refused by the
\* writer.
Agrees(f, ls, ow, wt, st, se) ==
    /\ DOMAIN f.lines = (DOMAIN ls \ Waiting(ls, wt)) \cup DonesOf(ow)
    /\ \A k \in DOMAIN f.lines \cap DOMAIN ls :
          f.lines[k].w = ls[k].w /\ f.lines[k].doc = ls[k].doc
    /\ \A k \in DonesOf(ow) : f.lines[k].w \in se
    /\ \A k \in DOMAIN f.lines \ (DOMAIN ow \cup st) : ls[k] = WithDones(f, ow, k)

Agree == home \in Files => Agrees(file[home], lines, owed, waits, stale, settled)

\* A line whose last change the writer refused: the file has it marked sent
\* where the queue has, unless the frame is past the line bound.
SentStays(f, ls, st) ==
    \A k \in st : ls[k].sent /\ ls[k].ver \notin Long => f.lines[k].sent

StaleSent == home \in Files => SentStays(file[home], lines, stale)

\* Only the directory's file, the queue's, and the pending file behind the
\* board's may have something left past their whole lines.
TailsWhere ==
    \A n \in Files : left[n] = {} \/ n = dir \/ n = home \/ (n = "pending" /\ dir = "board")

\* What is left past the queue's file holds no line without every line that
\* stands, or will, before it.
InOrder(t, ls, nk) ==
    \A j \in Nat, k \in DOMAIN t.lines :
        (j \in DOMAIN ls \/ j >= nk) /\ j < k => j \in DOMAIN t.lines

TailsInOrder == home \in Files => \A t \in left[home] : InOrder(t, lines, nextK)

\* The directory's file while the queue is kept elsewhere: its lines will be
\* renumbered before the queue takes it, which cuts what is left; or what is
\* left keeps its lines, and adds none past the counter out of order.
Ready(f, t, nk) ==
    \/ Renumbers(f, nk)
    \/ /\ DOMAIN f.lines \subseteq DOMAIN t.lines
       /\ \A j \in Nat, k \in DOMAIN t.lines :
             j >= nk /\ j > f.named /\ j < k => j \in DOMAIN t.lines

TailsReady ==
    home # dir /\ dir \in Files => \A t \in left[dir] : Ready(file[dir], t, nextK)

Has(f, w) == \E k \in DOMAIN f.lines : f.lines[k].w = w

\* What is left past a file keeps the file's writes, save those settled or
\* named done by part of a renumbering's copy.
Keeps(f, t, se) == \A k \in DOMAIN f.lines : f.lines[k].w \in se \/ Has(t, f.lines[k].w)

TailsKeep == \A n \in Files : \A t \in left[n] : Keeps(file[n], t, settled \cup cut)

Inv ==
    /\ FilesOK /\ QueueOK /\ RestOK /\ Marked /\ Agree /\ OrdinalNames
    /\ TailsWhere /\ TailsInOrder /\ TailsReady

\* A frame past the line bound stays past it when it is shifted on.
LongStays == \A v \in Long, u \in Versions : u > v => u \in Long


\* The inductive invariant: Inv; under LongStays, what a refused re-mark leaves;
\* and that no write is lost but by part of a renumbering's copy.
IInv ==
    /\ Inv
    /\ LongStays => StaleSent
    /\ TailsKeep /\ NoneLost

-----------------------------------------------------------------------------
(* The reader *)

\* A copy of ordinals up to N.
CopyFits(c, N) ==
    /\ DOMAIN c.held \subseteq 1 .. N /\ \A k \in DOMAIN c.held : c.held[k] \in Line
    /\ DOMAIN c.done \subseteq 1 .. N /\ \A k \in DOMAIN c.done : c.done[k] \in 0 .. MaxPos

\* The re-marks of a copy that spend the budget.
Spends(f, c) ==
    {k \in DOMAIN c.held \cap (DOMAIN f.lines \ DOMAIN c.done) :
        ~MarksSent(f.lines[k], c.held[k])}

\* The empty table has no ordinal.
LEMMA EmptyDomain == DOMAIN Empty = {}
  BY DEF Empty

\* A file just made reads as one, of no line and no re-mark.
LEMMA FreshOK == FileOK(Fresh) /\ DOMAIN Fresh.lines = {} /\ Fresh.marks = 0
  BY EmptyDomain DEF FileOK, Fresh

\* The bases a reader raises a line to are positions of the log.
LEMMA RaiseIs ==
    ASSUME NEW f, FileOK(f), NEW d, \A k \in DOMAIN d : d[k] \in 0 .. MaxPos,
           NEW j \in DOMAIN f.lines
    PROVE  LET S == {f.lines[j].base} \cup DoneAt(f, d, j)
           IN  /\ S \in SUBSET Nat /\ Max(S) \in 0 .. MaxPos /\ Max(S) \in S
               /\ \A s \in S : s <= Max(S)
  <1> DEFINE S == {f.lines[j].base} \cup DoneAt(f, d, j)
  <1>1. MaxPos \in Nat
    BY StoreAssumption
  <1>2. f.lines[j].base \in 0 .. MaxPos
    BY DEF FileOK, Line
  <1>3. DoneAt(f, d, j) \subseteq 0 .. MaxPos
    BY DEF DoneAt
  <1>4. S \in SUBSET Nat /\ S # {} /\ \A s \in S : s <= MaxPos
    BY <1>1, <1>2, <1>3
  <1> HIDE DEF S
  <1>5. Max(S) \in S /\ Max(S) \in Nat /\ Max(S) <= MaxPos /\ \A s \in S : s <= Max(S)
    BY <1>1, <1>4, MaxOf
  <1> QED
    BY <1>1, <1>4, <1>5 DEF S

\* A line raised is a line.
LEMMA RaisedLine ==
    ASSUME NEW l \in Line, NEW b \in 0 .. MaxPos
    PROVE  /\ [l EXCEPT !.base = b] \in Line
           /\ [l EXCEPT !.base = b].base = b
           /\ [l EXCEPT !.base = b].w = l.w /\ [l EXCEPT !.base = b].doc = l.doc
           /\ [l EXCEPT !.base = b].sent = l.sent /\ [l EXCEPT !.base = b].ver = l.ver
           /\ [l EXCEPT !.base = b].cause = l.cause
  BY DEF Line

\* What the reader makes of a file and a copy.
LEMMA ReadIs ==
    ASSUME NEW f, NEW c
    PROVE  /\ DOMAIN Read(f, c).lines = (DOMAIN f.lines \ DOMAIN c.done) \cup DOMAIN c.held
           /\ \A j \in DOMAIN c.held : Read(f, c).lines[j] = c.held[j]
           /\ \A j \in DOMAIN f.lines \ (DOMAIN c.done \cup DOMAIN c.held) :
                 Read(f, c).lines[j] = AsRead(f, c.done, j)
           /\ Read(f, c).marks = f.marks + Cardinality(Spends(f, c))
           /\ Read(f, c).named = Max({f.named} \cup DOMAIN c.held \cup DOMAIN c.done)
  BY DEF Read, Spends, AsRead

\* The file read is one, and names no more than the file and the copy did.
LEMMA ReadOK ==
    ASSUME NEW f, FileOK(f), NEW c, NEW N \in Nat, CopyFits(c, N)
    PROVE  /\ FileOK(Read(f, c))
           /\ \A j \in DOMAIN f.lines \ (DOMAIN c.done \cup DOMAIN c.held) :
                 /\ Read(f, c).lines[j].w = f.lines[j].w
                 /\ Read(f, c).lines[j].doc = f.lines[j].doc
           /\ Read(f, c).named \in Nat /\ f.named <= Read(f, c).named
           /\ Read(f, c).named \in {f.named} \cup DOMAIN c.held \cup DOMAIN c.done
           /\ \A k \in DOMAIN c.held \cup DOMAIN c.done : k <= Read(f, c).named
           /\ Cardinality(Spends(f, c)) \in Nat
  <1> DEFINE r == Read(f, c)
             S == {f.named} \cup DOMAIN c.held \cup DOMAIN c.done
  <1>1. /\ DOMAIN r.lines = (DOMAIN f.lines \ DOMAIN c.done) \cup DOMAIN c.held
        /\ \A j \in DOMAIN c.held : r.lines[j] = c.held[j]
        /\ \A j \in DOMAIN f.lines \ (DOMAIN c.done \cup DOMAIN c.held) :
             r.lines[j] = AsRead(f, c.done, j)
        /\ r.marks = f.marks + Cardinality(Spends(f, c))
        /\ r.named = Max(S)
    BY ReadIs
  <1>2. Max(S) \in S /\ Max(S) \in Nat /\ \A s \in S : s <= Max(S)
    <2>1. f.named \in Nat
      BY DEF FileOK
    <2>2. S \in SUBSET Nat /\ S # {} /\ f.named + N \in Nat /\ \A s \in S : s <= f.named + N
      BY <2>1 DEF CopyFits
    <2> HIDE DEF S
    <2> QED
      BY <2>2, MaxOf
  <1>3. ASSUME NEW j \in DOMAIN f.lines \ (DOMAIN c.done \cup DOMAIN c.held)
        PROVE  r.lines[j] \in Line /\ r.lines[j].w = f.lines[j].w /\ r.lines[j].doc = f.lines[j].doc
    <2> DEFINE b == Max({f.lines[j].base} \cup DoneAt(f, c.done, j))
    <2>1. b \in 0 .. MaxPos
      BY RaiseIs DEF CopyFits
    <2>2. f.lines[j] \in Line
      BY DEF FileOK
    <2>3. r.lines[j] = [f.lines[j] EXCEPT !.base = b]
      BY <1>1 DEF AsRead
    <2> HIDE DEF r, b
    <2> QED
      BY <2>1, <2>2, <2>3, RaisedLine
  <1>4. Cardinality(Spends(f, c)) \in Nat
    <2>1. IsFiniteSet(1 .. N)
      BY FS_Interval
    <2>2. Spends(f, c) \in SUBSET (1 .. N)
      BY DEF Spends, CopyFits
    <2> QED
      BY <2>1, <2>2, FS_Subset, FS_CardinalityType
  <1>5. \A j \in DOMAIN r.lines : r.lines[j] \in Line
    BY <1>1, <1>3 DEF CopyFits
  <1>6. DOMAIN r.lines \subseteq 1 .. r.named
    <2>1. DOMAIN r.lines \subseteq DOMAIN f.lines \cup DOMAIN c.held
      BY <1>1
    <2>2. f.named \in Nat /\ DOMAIN f.lines \subseteq 1 .. f.named /\ DOMAIN c.held \subseteq 1 .. N
      BY DEF FileOK, CopyFits
    <2>3. r.named \in Nat /\ f.named <= r.named /\ \A s \in DOMAIN c.held : s <= r.named
      BY <1>1, <1>2
    <2> HIDE DEF r
    <2> QED
      BY <2>1, <2>2, <2>3
  <1>7. r.marks \in Nat
    BY <1>1, <1>4 DEF FileOK
  <1> HIDE DEF r
  <1> QED
    BY <1>1, <1>2, <1>3, <1>4, <1>5, <1>6, <1>7 DEF FileOK, r

\* The prefixes of a set of ordinals: with a member, every ordinal below it.
LEMMA PrefixIs ==
    ASSUME NEW S \in SUBSET (Nat \ {0}), NEW p \in Prefixes(S)
    PROVE  /\ p \subseteq S
           /\ \A j \in S, k \in p : j < k => j \in p
           /\ \A j \in p, k \in S \ p : j < k
  <1>1. PICK last \in S \cup {0} : p = {s \in S : s <= last}
    BY DEF Prefixes
  <1> QED
    BY <1>1

-----------------------------------------------------------------------------
(* The retry *)

\* The copies of a prefix of what is due: the dones owed and the lines as the
\* queue has them.
LEMMA CopyOfIs ==
    ASSUME NEW ls, NEW ow, NEW wt, NEW st, NEW nk, QueueFits(ls, ow, wt, st, nk),
           NEW L \in SUBSET (DOMAIN ow \cup Waiting(ls, wt))
    PROVE  /\ DOMAIN CopyOf(ls, ow, L).done = L \cap DonesOf(ow)
           /\ \A k \in L \cap DonesOf(ow) : CopyOf(ls, ow, L).done[k] = ow[k].at
           /\ DOMAIN CopyOf(ls, ow, L).held = L \ DonesOf(ow)
           /\ \A k \in L \ DonesOf(ow) : CopyOf(ls, ow, L).held[k] = ls[k] /\ k \in DOMAIN ls
           /\ nk - 1 \in Nat /\ CopyFits(CopyOf(ls, ow, L), nk - 1)
  <1>1. /\ DOMAIN CopyOf(ls, ow, L).done = L \cap DonesOf(ow)
        /\ \A k \in L \cap DonesOf(ow) : CopyOf(ls, ow, L).done[k] = ow[k].at
        /\ DOMAIN CopyOf(ls, ow, L).held = L \ DonesOf(ow)
        /\ \A k \in L \ DonesOf(ow) : CopyOf(ls, ow, L).held[k] = ls[k]
    BY DEF CopyOf, Copy, DonesOf
  <1>2. \A k \in L \ DonesOf(ow) : k \in DOMAIN ls /\ ls[k] \in Line
    BY DEF QueueFits, DonesOf, Waiting
  <1>3. \A k \in L : k \in 1 .. (nk - 1)
    BY DEF QueueFits, Waiting
  <1>4. \A k \in DonesOf(ow) : ow[k].at \in 0 .. MaxPos
    BY DEF QueueFits, DonesOf
  <1> QED
    BY <1>1, <1>2, <1>3, <1>4 DEF CopyFits, QueueFits

\* What is due, the line that waits first once a prefix of it landed, and the
\* lines that wait then.
Due(ls, ow, wt) == DOMAIN ow \cup Waiting(ls, wt)

WaitsAfter(ls, ow, wt, L) ==
    LET rest == Due(ls, ow, wt) \ L
    IN  IF rest = {} THEN 0
        ELSE IF Min(rest) \in Waiting(ls, wt) THEN Min(rest) ELSE wt

\* After a retry the lines that wait are those that did and did not land.
LEMMA WaitsIs ==
    ASSUME NEW ls, NEW ow, NEW wt, NEW st, NEW nk, QueueFits(ls, ow, wt, st, nk),
           NEW L \in Prefixes(Due(ls, ow, wt))
    PROVE  /\ Waiting(ls, WaitsAfter(ls, ow, wt, L)) = Waiting(ls, wt) \ L
           /\ WaitsAfter(ls, ow, wt, L) \in 0 .. nk
           /\ \A k \in DOMAIN ow \ L : WaitsAfter(ls, ow, wt, L) = 0 \/ k < WaitsAfter(ls, ow, wt, L)
  <1> DEFINE due == Due(ls, ow, wt)
             firsts == Waiting(ls, wt)
             rest == due \ L
             after == WaitsAfter(ls, ow, wt, L)
             m == Min(rest)
  <1>1. /\ due \in SUBSET (Nat \ {0}) /\ wt \in Nat /\ nk \in Nat /\ wt <= nk
        /\ \A k \in due : k < nk /\ k \in Nat /\ k # 0
        /\ \A k \in DOMAIN ls : k < nk /\ k \in Nat /\ k # 0
        /\ \A k \in DOMAIN ow : k \in due /\ (wt = 0 \/ k < wt)
        /\ \A k : k \in firsts <=> k \in DOMAIN ls /\ wt # 0 /\ k >= wt
        /\ due = DOMAIN ow \cup firsts
    BY DEF QueueFits, Due, Waiting
  <1>2. /\ L \subseteq due /\ \A j \in L, k \in rest : j < k
    BY <1>1, PrefixIs
  <1>3. \A x : \A k : k \in Waiting(ls, x) <=> k \in DOMAIN ls /\ x # 0 /\ k >= x
    BY DEF Waiting
  <1>4. CASE rest = {}
    <2>1. after = 0
      BY <1>4 DEF WaitsAfter
    <2> HIDE DEF after
    <2>2. Waiting(ls, after) = {} /\ firsts \ L = {} /\ DOMAIN ow \ L = {}
      BY <1>1, <1>3, <1>4, <2>1
    <2> QED
      BY <1>1, <2>1, <2>2 DEF after
  <1>5. CASE rest # {}
    <2>0. m \in rest /\ m \in Nat /\ \A s \in rest : m <= s
      BY <1>1, <1>5, MinOf
    <2>1. CASE m \in firsts
      <3>1. after = m
        BY <1>5, <2>1 DEF WaitsAfter
      <3> HIDE DEF after, m
      <3>2. ASSUME NEW k \in DOMAIN ow \ L PROVE FALSE
        BY <1>1, <2>0, <2>1, <3>2 DEF rest
      <3>3. ASSUME NEW k \in Waiting(ls, after) PROVE k \in firsts \ L
        <4>1. k \in DOMAIN ls /\ k >= m /\ m >= wt /\ wt # 0
          BY <1>1, <1>3, <2>0, <2>1, <3>1
        <4>2. k \notin L
          BY <1>1, <1>2, <2>0, <4>1
        <4> QED
          BY <1>1, <4>1, <4>2, <2>0
      <3>4. ASSUME NEW k \in firsts \ L PROVE k \in Waiting(ls, after)
        <4>1. k \in rest /\ k \in DOMAIN ls
          BY <1>1
        <4> QED
          BY <1>1, <1>3, <2>0, <3>1, <4>1
      <3> QED
        BY <1>1, <2>0, <3>1, <3>2, <3>3, <3>4 DEF after
    <2>2. CASE m \notin firsts
      <3>1. after = wt
        BY <1>5, <2>2 DEF WaitsAfter
      <3> HIDE DEF after, m
      <3>2. ASSUME NEW k \in firsts, k \in L PROVE FALSE
        <4>1. m \in DOMAIN ow
          BY <1>1, <2>0, <2>2
        <4>2. k < m /\ m < wt /\ wt <= k
          BY <1>1, <1>2, <2>0, <3>2, <4>1
        <4> QED
          BY <1>1, <2>0, <4>2
      <3> QED
        BY <1>1, <3>1, <3>2 DEF after
    <2> QED
      BY <2>1, <2>2
  <1> QED
    BY <1>4, <1>5

\* What is still owed once the copies in L landed.
OwedAfter(ls, ow, wt, L) == Restrict(ow, (Due(ls, ow, wt) \ L) \cap DOMAIN ow)

\* The file once a prefix of what is due landed: its ordinals, and its lines.
LEMMA LandedIs ==
    ASSUME NEW f, FileOK(f), NEW ls, NEW ow, NEW wt, NEW st, NEW nk, NEW se,
           QueueFits(ls, ow, wt, st, nk), Agrees(f, ls, ow, wt, st, se),
           NEW L \in Prefixes(Due(ls, ow, wt))
    PROVE  LET c == CopyOf(ls, ow, L)
               r == Read(f, c)
           IN  /\ FileOK(r)
               /\ L \subseteq Due(ls, ow, wt)
               /\ DOMAIN r.lines = (DOMAIN f.lines \ (L \cap DonesOf(ow))) \cup (L \ DonesOf(ow))
               /\ \A k \in L \ DonesOf(ow) : r.lines[k] = ls[k] /\ k \in DOMAIN ls
               /\ \A k \in DOMAIN f.lines \ L :
                     /\ r.lines[k] = AsRead(f, c.done, k)
                     /\ r.lines[k].w = f.lines[k].w /\ r.lines[k].doc = f.lines[k].doc
  <1> DEFINE c == CopyOf(ls, ow, L)
             r == Read(f, c)
  <1>1. Due(ls, ow, wt) \in SUBSET (Nat \ {0})
    BY DEF QueueFits, Due, Waiting
  <1>2. L \in SUBSET Due(ls, ow, wt)
    BY <1>1, PrefixIs
  <1>3. /\ DOMAIN c.done = L \cap DonesOf(ow) /\ DOMAIN c.held = L \ DonesOf(ow)
        /\ \A k \in L \ DonesOf(ow) : c.held[k] = ls[k] /\ k \in DOMAIN ls
        /\ nk - 1 \in Nat /\ CopyFits(c, nk - 1)
    BY <1>2, CopyOfIs DEF Due
  <1> HIDE DEF c
  <1>4. /\ DOMAIN r.lines = (DOMAIN f.lines \ DOMAIN c.done) \cup DOMAIN c.held
        /\ \A j \in DOMAIN c.held : r.lines[j] = c.held[j]
        /\ \A j \in DOMAIN f.lines \ (DOMAIN c.done \cup DOMAIN c.held) :
             r.lines[j] = AsRead(f, c.done, j)
    <2>1. DOMAIN r.lines = (DOMAIN f.lines \ DOMAIN c.done) \cup DOMAIN c.held
      BY ReadIs
    <2>2. \A j \in DOMAIN c.held : r.lines[j] = c.held[j]
      BY ReadIs, ZenonT(60)
    <2>3. \A j \in DOMAIN f.lines \ (DOMAIN c.done \cup DOMAIN c.held) :
             r.lines[j] = AsRead(f, c.done, j)
      BY ReadIs, ZenonT(60) DEF AsRead
    <2> QED
      BY <2>1, <2>2, <2>3
  <1>5. /\ FileOK(r)
        /\ \A j \in DOMAIN f.lines \ (DOMAIN c.done \cup DOMAIN c.held) :
             r.lines[j].w = f.lines[j].w /\ r.lines[j].doc = f.lines[j].doc
    BY <1>3, ReadOK
  <1> HIDE DEF r
  <1>6. DOMAIN f.lines \ L \subseteq DOMAIN f.lines \ (DOMAIN c.done \cup DOMAIN c.held)
    BY <1>3
  <1>7. /\ FileOK(r)
        /\ L \subseteq Due(ls, ow, wt)
        /\ DOMAIN r.lines = (DOMAIN f.lines \ (L \cap DonesOf(ow))) \cup (L \ DonesOf(ow))
        /\ \A k \in L \ DonesOf(ow) : r.lines[k] = ls[k] /\ k \in DOMAIN ls
        /\ \A k \in DOMAIN f.lines \ L :
              /\ r.lines[k] = AsRead(f, c.done, k)
              /\ r.lines[k].w = f.lines[k].w /\ r.lines[k].doc = f.lines[k].doc
    BY <1>2, <1>3, <1>4, <1>5, <1>6
  <1> QED
    BY <1>7 DEF c, r

\* The line a reader of the dones still owed would have is the queue's.
LEMMA LandedLines ==
    ASSUME NEW f, FileOK(f), NEW ls, NEW ow, NEW wt, NEW st, NEW nk, NEW se,
           QueueFits(ls, ow, wt, st, nk), Agrees(f, ls, ow, wt, st, se),
           NEW L \in Prefixes(Due(ls, ow, wt)),
           NEW k \in DOMAIN Read(f, CopyOf(ls, ow, L)).lines,
           k \notin st, k \notin DOMAIN ow \ L
    PROVE  ls[k] = WithDones(Read(f, CopyOf(ls, ow, L)), OwedAfter(ls, ow, wt, L), k)
  <1> DEFINE c == CopyOf(ls, ow, L)
             r == Read(f, c)
             ow2 == OwedAfter(ls, ow, wt, L)
             D == DonesOf(ow)
  <1>1. /\ FileOK(r)
        /\ L \subseteq Due(ls, ow, wt)
        /\ DOMAIN r.lines = (DOMAIN f.lines \ (L \cap D)) \cup (L \ D)
        /\ \A i \in L \ D : r.lines[i] = ls[i] /\ i \in DOMAIN ls
        /\ \A i \in DOMAIN f.lines \ L :
              /\ r.lines[i] = AsRead(f, c.done, i)
              /\ r.lines[i].w = f.lines[i].w /\ r.lines[i].doc = f.lines[i].doc
    BY LandedIs
  <1>2. /\ DOMAIN ow2 = DOMAIN ow \ L
        /\ \A i \in DOMAIN ow \ L : ow2[i] = ow[i]
        /\ DonesOf(ow2) = D \ L
    BY DEF OwedAfter, Restrict, DonesOf, Due
  <1>3. /\ DOMAIN AtOf(ow2) = D \ L /\ \A i \in D \ L : AtOf(ow2)[i] = ow[i].at
        /\ DOMAIN AtOf(ow) = D /\ \A i \in D : AtOf(ow)[i] = ow[i].at
    BY <1>2 DEF AtOf, DonesOf
  <1>4. /\ Due(ls, ow, wt) \in SUBSET (Nat \ {0})
        /\ D \subseteq DOMAIN f.lines /\ D \subseteq Due(ls, ow, wt)
        /\ \A i \in D : ow[i].at \in 0 .. MaxPos
        /\ D \subseteq DOMAIN ow
    BY DEF QueueFits, Due, Waiting, Agrees, DonesOf
  <1>5. /\ DOMAIN c.done = L \cap D /\ \A i \in L \cap D : c.done[i] = ow[i].at
    BY <1>1, CopyOfIs DEF Due
  <1>6. \A i \in L, j \in Due(ls, ow, wt) \ L : i < j
    BY <1>4, PrefixIs
  <1>7. \A l \in Line : [l EXCEPT !.base = l.base] = l /\ l.base \in Nat
    BY StoreAssumption DEF Line
  <1>8. r.lines[k] \in Line
    BY <1>1 DEF FileOK
  <1> DEFINE later == DoneAt(r, AtOf(ow2), k)
             base == Max({r.lines[k].base} \cup later)
  <1>9. CASE k \in L
    <2>1. k \in L \ D /\ r.lines[k] = ls[k]
      BY <1>1, <1>9
    <2>2. \A i \in D \ L : k < i
      BY <1>4, <1>6, <1>9
    <2>3. \A i \in D \ L : i \in Nat /\ k \in Nat
      BY <1>1, <1>4, <1>9
    <2>4. later = {}
      BY <1>3, <2>2, <2>3 DEF DoneAt
    <2>5. base = r.lines[k].base
      <3>1. {r.lines[k].base} \cup later = {r.lines[k].base}
        BY <2>4
      <3>2. r.lines[k].base \in Nat
        BY <1>7, <1>8
      <3> QED
        BY <3>1, <3>2, MaxIs
    <2> QED
      BY <1>7, <1>8, <2>1, <2>5 DEF WithDones, AsRead
  <1>10. CASE k \notin L
    <2> DEFINE b0 == f.lines[k].base
               landed == DoneAt(f, c.done, k)
               all == DoneAt(f, AtOf(ow), k)
    <2>1. k \in DOMAIN f.lines \ L /\ k \notin DOMAIN ow /\ k \notin st
      BY <1>1, <1>10
    <2>2. ls[k] = [f.lines[k] EXCEPT !.base = Max({b0} \cup all)]
      BY <2>1 DEF Agrees, WithDones, AsRead
    <2>3. r.lines[k] = [f.lines[k] EXCEPT !.base = Max({b0} \cup landed)] /\ f.lines[k] \in Line
      BY <1>1, <2>1 DEF FileOK, AsRead
    <2>4. \A i \in D : i \in DOMAIN f.lines /\ (i \notin L => i \in DOMAIN r.lines
                                                   /\ r.lines[i].doc = f.lines[i].doc)
      BY <1>1, <1>4
    <2>5. r.lines[k].doc = f.lines[k].doc
      BY <1>1, <2>1
    <2>6. all = landed \cup later
      <3>1. ASSUME NEW x \in all PROVE x \in landed \cup later
        <4>1. PICK i \in D : i < k /\ f.lines[i].doc = f.lines[k].doc /\ x = ow[i].at
          BY <1>3 DEF DoneAt
        <4>2. CASE i \in L
          <5>1. x \in landed
            BY <1>5, <2>4, <4>1, <4>2 DEF DoneAt
          <5> QED BY <5>1
        <4>3. CASE i \notin L
          <5>1. i \in DOMAIN AtOf(ow2) \cap DOMAIN r.lines /\ r.lines[i].doc = r.lines[k].doc
                /\ AtOf(ow2)[i] = x
            BY <1>3, <2>4, <2>5, <4>1, <4>3
          <5>2. x \in later
            BY <4>1, <5>1 DEF DoneAt
          <5> QED BY <5>2
        <4> QED BY <4>2, <4>3
      <3>2. ASSUME NEW x \in landed PROVE x \in all
        <4>1. PICK i \in L \cap D : i < k /\ f.lines[i].doc = f.lines[k].doc /\ x = ow[i].at
          BY <1>5 DEF DoneAt
        <4> QED
          BY <1>3, <2>4, <4>1 DEF DoneAt
      <3>3. ASSUME NEW x \in later PROVE x \in all
        <4>1. PICK i \in D \ L : i < k /\ r.lines[i].doc = r.lines[k].doc /\ x = ow[i].at
          BY <1>3 DEF DoneAt
        <4> QED
          BY <1>3, <2>4, <2>5, <4>1 DEF DoneAt
      <3> QED
        BY <3>1, <3>2, <3>3
    <2>7. MaxPos \in Nat /\ {b0} \cup landed \in SUBSET (0 .. MaxPos) /\ later \in SUBSET (0 .. MaxPos)
      <3>1. all \subseteq 0 .. MaxPos
        BY <1>3, <1>4 DEF DoneAt
      <3>2. b0 \in 0 .. MaxPos
        BY <2>3 DEF Line
      <3> QED
        BY <2>6, <3>1, <3>2, StoreAssumption
    <2> HIDE DEF landed, later, all, b0
    <2>8. Max({Max({b0} \cup landed)} \cup later) = Max({b0} \cup landed \cup later)
      <3> DEFINE S == {b0} \cup landed
      <3>1. S # {} /\ S \in SUBSET (0 .. MaxPos)
        BY <2>7
      <3> HIDE DEF S
      <3>2. later \in SUBSET (0 .. MaxPos) /\ MaxPos \in Nat
        BY <2>7
      <3>3. Max({Max(S)} \cup later) = Max(S \cup later)
        <4> DEFINE A == {Max(S)} \cup later
                   B == S \cup later
        <4>1. A = {Max(S)} \cup later /\ B = S \cup later
          OBVIOUS
        <4> HIDE DEF A, B
        <4>2. Max(A) = Max(B)
          <5>0. \A t \in later : t \in Nat /\ t <= MaxPos
            BY <3>2
          <5>1. S \in SUBSET Nat /\ \A s \in S : s <= MaxPos
            BY <3>1, <3>2
          <5>2. Max(S) \in S /\ Max(S) \in Nat /\ \A s \in S : s <= Max(S)
            BY <3>1, <3>2, <5>1, MaxOf
          <5>3. A \in SUBSET Nat /\ B \in SUBSET Nat /\ A # {}
            BY <4>1, <5>0, <5>1, <5>2
          <5>4. (\A x \in A : x <= MaxPos) /\ \A y \in B : y <= MaxPos
            BY <4>1, <5>0, <5>1, <5>2
          <5>5. \A x \in A : \E y \in B : x <= y
            BY <4>1, <5>2, <5>3
          <5>6. \A y \in B : \E x \in A : y <= x
            BY <4>1, <5>2, <5>3
          <5> QED
            BY <3>2, <5>3, <5>4, <5>5, <5>6, SameMax
        <4> QED
          BY <4>1, <4>2
      <3> QED
        BY <3>3 DEF S
    <2>9. Max({b0} \cup landed) \in 0 .. MaxPos
      <3>1. {b0} \cup landed \in SUBSET Nat /\ {b0} \cup landed # {} /\ \A s \in {b0} \cup landed : s <= MaxPos
        BY <2>7
      <3> QED
        BY <2>7, <3>1, MaxOf
    <2>10. {b0} \cup all = {b0} \cup landed \cup later
      BY <2>6
    <2>11. r.lines[k].base = Max({b0} \cup landed)
      BY <2>3, <2>9 DEF Line
    <2>12. ls[k] = [f.lines[k] EXCEPT !.base = base]
      BY <2>2, <2>8, <2>10, <2>11
    <2>13. [r.lines[k] EXCEPT !.base = base] = [f.lines[k] EXCEPT !.base = base]
      <3> DEFINE b1 == Max({b0} \cup landed)
      <3>1. r.lines[k] = [f.lines[k] EXCEPT !.base = b1]
        BY <2>3
      <3> HIDE DEF b1, base
      <3> QED
        BY <2>3, <3>1 DEF Line
    <2> QED
      BY <2>12, <2>13 DEF WithDones, AsRead, later
  <1> QED
    BY <1>9, <1>10

\* The queue after the retry.
LEMMA RetriedFits ==
    ASSUME NEW ls, NEW ow, NEW wt, NEW st, NEW nk, QueueFits(ls, ow, wt, st, nk),
           NEW L \in Prefixes(Due(ls, ow, wt))
    PROVE  QueueFits(ls, OwedAfter(ls, ow, wt, L), WaitsAfter(ls, ow, wt, L), st, nk)
  <1> DEFINE ow2 == OwedAfter(ls, ow, wt, L)
             wt2 == WaitsAfter(ls, ow, wt, L)
  <1>1. /\ DOMAIN ow2 = DOMAIN ow \ L
        /\ \A k \in DOMAIN ow \ L : ow2[k] = ow[k]
    BY DEF OwedAfter, Restrict, DonesOf, Due
  <1>2. /\ Waiting(ls, wt2) = Waiting(ls, wt) \ L
        /\ wt2 \in 0 .. nk
        /\ \A k \in DOMAIN ow \ L : wt2 = 0 \/ k < wt2
    BY WaitsIs
  <1>3. /\ DOMAIN ls \subseteq 1 .. (nk - 1) /\ \A k \in DOMAIN ls : ls[k] \in Line
        /\ nk \in Nat \ {0}
        /\ st \subseteq DOMAIN ls \ Waiting(ls, wt) /\ st \cap DOMAIN ow = {}
        /\ \A k \in DOMAIN ow : k \in 1 .. (nk - 1)
        /\ \A k \in DOMAIN ow : ow[k] \in [done: BOOLEAN, at: 0..MaxPos]
        /\ \A k \in DOMAIN ow : ow[k].done <=> k \notin DOMAIN ls
    BY DEF QueueFits
  <1> HIDE DEF ow2, wt2
  <1>4. DOMAIN ow2 \subseteq {k \in 1 .. (nk - 1) : wt2 = 0 \/ k < wt2}
    BY <1>1, <1>2, <1>3
  <1>5. \A k \in DOMAIN ow2 : ow2[k] \in [done: BOOLEAN, at: 0..MaxPos]
    BY <1>1, <1>3
  <1>6. \A k \in DOMAIN ow2 : ow2[k].done <=> k \notin DOMAIN ls
    BY <1>1, <1>3
  <1>7. st \subseteq DOMAIN ls \ Waiting(ls, wt2) /\ st \cap DOMAIN ow2 = {}
    BY <1>1, <1>2, <1>3
  <1>8. QueueFits(ls, ow2, wt2, st, nk)
    BY <1>2, <1>3, <1>4, <1>5, <1>6, <1>7 DEF QueueFits
  <1> QED
    BY <1>8 DEF ow2, wt2

\* The queue and its file agree after it.
LEMMA RetriedAgrees ==
    ASSUME NEW f, FileOK(f), NEW ls, NEW ow, NEW wt, NEW st, NEW nk, NEW se,
           QueueFits(ls, ow, wt, st, nk), Agrees(f, ls, ow, wt, st, se),
           NEW L \in Prefixes(Due(ls, ow, wt))
    PROVE  Agrees(Read(f, CopyOf(ls, ow, L)), ls, OwedAfter(ls, ow, wt, L),
                  WaitsAfter(ls, ow, wt, L), st, se)
  <1> DEFINE r == Read(f, CopyOf(ls, ow, L))
             ow2 == OwedAfter(ls, ow, wt, L)
             wt2 == WaitsAfter(ls, ow, wt, L)
             D == DonesOf(ow)
  <1>1. /\ L \subseteq Due(ls, ow, wt)
        /\ DOMAIN r.lines = (DOMAIN f.lines \ (L \cap D)) \cup (L \ D)
        /\ \A k \in L \ D : r.lines[k] = ls[k] /\ k \in DOMAIN ls
        /\ \A k \in DOMAIN f.lines \ L :
              r.lines[k].w = f.lines[k].w /\ r.lines[k].doc = f.lines[k].doc
    BY LandedIs
  <1>2. /\ DOMAIN ow2 = DOMAIN ow \ L /\ DonesOf(ow2) = D \ L
    BY DEF OwedAfter, Restrict, DonesOf, Due
  <1>3. Waiting(ls, wt2) = Waiting(ls, wt) \ L
    BY WaitsIs
  <1>4. /\ DOMAIN f.lines = (DOMAIN ls \ Waiting(ls, wt)) \cup D
        /\ \A k \in DOMAIN f.lines \cap DOMAIN ls :
              f.lines[k].w = ls[k].w /\ f.lines[k].doc = ls[k].doc
        /\ \A k \in D : f.lines[k].w \in se
    BY DEF Agrees
  <1>5. /\ D \subseteq DOMAIN ow /\ D \cap DOMAIN ls = {} /\ DOMAIN ow \subseteq D \cup DOMAIN ls
        /\ Waiting(ls, wt) \subseteq DOMAIN ls /\ st \cap DOMAIN ow = {}
        /\ Due(ls, ow, wt) = DOMAIN ow \cup Waiting(ls, wt)
        /\ DOMAIN ow \cap Waiting(ls, wt) = {}
    BY DEF QueueFits, DonesOf, Waiting, Due
  <1>6. ASSUME NEW k \in DOMAIN r.lines \ (DOMAIN ow2 \cup st)
        PROVE  ls[k] = WithDones(r, ow2, k)
    <2>1. k \notin st /\ k \notin DOMAIN ow \ L
      BY <1>2
    <2> QED
      BY <2>1, LandedLines
  <1> HIDE DEF r, ow2, wt2, D
  <1>7. DOMAIN r.lines = (DOMAIN ls \ Waiting(ls, wt2)) \cup DonesOf(ow2)
    BY <1>1, <1>2, <1>3, <1>4, <1>5
  <1>8. \A k \in DOMAIN r.lines \cap DOMAIN ls :
              r.lines[k].w = ls[k].w /\ r.lines[k].doc = ls[k].doc
    BY <1>1, <1>4, <1>5
  <1>9. \A k \in DonesOf(ow2) : r.lines[k].w \in se
    BY <1>1, <1>2, <1>4
  <1>10. Agrees(r, ls, ow2, wt2, st, se)
    BY <1>6, <1>7, <1>8, <1>9 DEF Agrees
  <1> QED
    BY <1>10 DEF r, ow2, wt2

\* A line the writer refused is as it was on disk.
LEMMA RetriedSent ==
    ASSUME NEW f, FileOK(f), NEW ls, NEW ow, NEW wt, NEW st, NEW nk, NEW se,
           QueueFits(ls, ow, wt, st, nk), Agrees(f, ls, ow, wt, st, se),
           NEW L \in Prefixes(Due(ls, ow, wt)), SentStays(f, ls, st)
    PROVE  SentStays(Read(f, CopyOf(ls, ow, L)), ls, st)
  <1> DEFINE c == CopyOf(ls, ow, L)
             r == Read(f, c)
  <1>1. /\ L \subseteq Due(ls, ow, wt)
        /\ \A k \in DOMAIN f.lines \ L :
              /\ r.lines[k] = AsRead(f, c.done, k)
              /\ r.lines[k].w = f.lines[k].w /\ r.lines[k].doc = f.lines[k].doc
    BY LandedIs
  <1>2. st \subseteq DOMAIN f.lines \ L
    BY <1>1 DEF QueueFits, Agrees, Due
  <1>3. \A l, b : [l EXCEPT !.base = b].sent = l.sent
    OBVIOUS
  <1>4. ASSUME NEW k \in st PROVE r.lines[k].sent = f.lines[k].sent
    <2>1. r.lines[k] = [f.lines[k] EXCEPT !.base = Max({f.lines[k].base} \cup DoneAt(f, c.done, k))]
      BY <1>1, <1>2 DEF AsRead
    <2> QED
      BY <1>3, <2>1
  <1> QED
    BY <1>4 DEF SentStays

\* A re-mark owed counts in the file once it lands.
LEMMA RetriedMarks ==
    ASSUME NEW f, FileOK(f), NEW ls, NEW ow, NEW wt, NEW st, NEW nk, NEW se,
           QueueFits(ls, ow, wt, st, nk), Agrees(f, ls, ow, wt, st, se),
           NEW L \in Prefixes(Due(ls, ow, wt)),
           NEW C \in Nat, f.marks + Cardinality(DOMAIN ow \ DonesOf(ow)) <= C
    PROVE  LET r == Read(f, CopyOf(ls, ow, L))
               ow2 == OwedAfter(ls, ow, wt, L)
           IN  /\ r.marks + Cardinality(DOMAIN ow2 \ DonesOf(ow2)) <= C
               /\ r.marks <= C
  <1> DEFINE c == CopyOf(ls, ow, L)
             r == Read(f, c)
             ow2 == OwedAfter(ls, ow, wt, L)
             D == DonesOf(ow)
             A == DOMAIN ow \ D
             X == A \cap L
             Y == A \ L
  <1>1. Due(ls, ow, wt) \in SUBSET (Nat \ {0})
    BY DEF QueueFits, Due, Waiting
  <1>2. L \in SUBSET Due(ls, ow, wt)
    BY <1>1, PrefixIs
  <1>3. /\ DOMAIN c.done = L \cap D /\ DOMAIN c.held = L \ D
    BY <1>2, CopyOfIs DEF Due
  <1>4. DOMAIN ow2 \ DonesOf(ow2) = Y
    BY DEF OwedAfter, Restrict, DonesOf, Due
  <1>5. Spends(f, c) \subseteq X
    <2>1. Spends(f, c) \subseteq (L \ D) \cap DOMAIN f.lines
      BY <1>3 DEF Spends
    <2>2. DOMAIN f.lines = (DOMAIN ls \ Waiting(ls, wt)) \cup D
      BY DEF Agrees
    <2> QED
      BY <1>2, <2>1, <2>2 DEF Due
  <1>6. IsFiniteSet(A)
    <2>1. A \in SUBSET (1 .. (nk - 1)) /\ nk - 1 \in Int
      BY DEF QueueFits
    <2> QED
      BY <2>1, FS_Interval, FS_Subset
  <1>7. r.marks = f.marks + Cardinality(Spends(f, c))
    BY ReadIs
  <1> HIDE DEF A, D, c, r, ow2
  <1>8. /\ IsFiniteSet(X) /\ IsFiniteSet(Y) /\ IsFiniteSet(Spends(f, c))
        /\ Cardinality(Spends(f, c)) <= Cardinality(X)
    BY <1>5, <1>6, FS_Subset
  <1>9. Cardinality(A) = Cardinality(X) + Cardinality(Y)
    <2>1. A = X \cup Y /\ X \cap Y = {}
      OBVIOUS
    <2> HIDE DEF X, Y
    <2>2. Cardinality(X \cup Y) = Cardinality(X) + Cardinality(Y) - Cardinality(X \cap Y)
      BY <1>8, FS_Union
    <2>3. Cardinality(X) \in Nat /\ Cardinality(Y) \in Nat /\ Cardinality(X \cap Y) = 0
      BY <1>8, <2>1, FS_CardinalityType, FS_EmptySet
    <2> QED
      BY <2>1, <2>2, <2>3
  <1>10. /\ Cardinality(X) \in Nat /\ Cardinality(Y) \in Nat /\ Cardinality(Spends(f, c)) \in Nat
    BY <1>8, FS_CardinalityType
  <1>11. f.marks \in Nat /\ f.marks + Cardinality(A) <= C
    BY DEF FileOK, A, D
  <1> HIDE DEF X, Y
  <1>12. r.marks + Cardinality(Y) <= C /\ r.marks <= C
    BY <1>7, <1>8, <1>9, <1>10, <1>11
  <1> QED
    BY <1>4, <1>12 DEF r, c, ow2

\* Whole lines of a copy, read past a file, leave its lines in order: a line
\* that waits lands after every line that stands before it.
LEMMA LandedInOrder ==
    ASSUME NEW f, FileOK(f), NEW ls, NEW ow, NEW wt, NEW st, NEW nk, NEW se,
           QueueFits(ls, ow, wt, st, nk), Agrees(f, ls, ow, wt, st, se),
           NEW p \in Prefixes(Due(ls, ow, wt))
    PROVE  InOrder(Read(f, CopyOf(ls, ow, p)), ls, nk)
  <1> DEFINE x == Read(f, CopyOf(ls, ow, p))
             D == DonesOf(ow)
             firsts == Waiting(ls, wt)
  <1>1. /\ p \subseteq Due(ls, ow, wt)
        /\ DOMAIN x.lines = (DOMAIN f.lines \ (p \cap D)) \cup (p \ D)
    BY LandedIs
  <1>2. /\ DOMAIN f.lines = (DOMAIN ls \ firsts) \cup D
        /\ D \subseteq DOMAIN ow /\ D \cap DOMAIN ls = {} /\ firsts \subseteq DOMAIN ls
        /\ Due(ls, ow, wt) = DOMAIN ow \cup firsts
        /\ \A k \in DOMAIN ls : k \in Nat /\ k < nk
        /\ \A k \in DOMAIN ow : k \in Nat /\ k < nk /\ (wt = 0 \/ k < wt)
        /\ \A k \in firsts : wt # 0 /\ k >= wt
        /\ \A k \in DOMAIN ls : wt # 0 /\ k >= wt => k \in firsts
        /\ nk \in Nat /\ wt \in Nat
    BY DEF QueueFits, Agrees, DonesOf, Waiting, Due
  <1>3. \A j \in Due(ls, ow, wt), k \in p : j < k => j \in p
    <2>1. Due(ls, ow, wt) \in SUBSET (Nat \ {0})
      BY DEF QueueFits, Due, Waiting
    <2> QED
      BY <2>1, PrefixIs
  <1> HIDE DEF x, D, firsts
  <1>4. ASSUME NEW j \in Nat, NEW k \in DOMAIN x.lines, j \in DOMAIN ls \/ j >= nk, j < k
        PROVE  j \in DOMAIN x.lines
    <2>1. k \in Nat /\ k < nk
      BY <1>1, <1>2
    <2>2. j \in DOMAIN ls /\ j \notin D
      BY <1>2, <1>4, <2>1
    <2>3. CASE j \notin firsts
      BY <1>1, <1>2, <2>2, <2>3
    <2>4. CASE j \in firsts
      <3>1. k \in p
        BY <1>1, <1>2, <1>4, <2>1, <2>4
      <3>2. j \in p
        BY <1>2, <1>3, <1>4, <2>4, <3>1
      <3> QED
        BY <1>1, <2>2, <3>2
    <2> QED
      BY <2>3, <2>4
  <1> QED
    BY <1>4 DEF InOrder, x

\* And they keep the writes of the file the shorter prefix made, save those
\* whose done is among them.
LEMMA LandedKeeps ==
    ASSUME NEW f, FileOK(f), NEW ls, NEW ow, NEW wt, NEW st, NEW nk, NEW se,
           QueueFits(ls, ow, wt, st, nk), Agrees(f, ls, ow, wt, st, se),
           NEW L \in Prefixes(Due(ls, ow, wt)), NEW p \in Prefixes(Due(ls, ow, wt)), L \subseteq p
    PROVE  Keeps(Read(f, CopyOf(ls, ow, L)), Read(f, CopyOf(ls, ow, p)), se)
  <1> DEFINE r == Read(f, CopyOf(ls, ow, L))
             x == Read(f, CopyOf(ls, ow, p))
             D == DonesOf(ow)
  <1>1. /\ L \subseteq Due(ls, ow, wt)
        /\ DOMAIN r.lines = (DOMAIN f.lines \ (L \cap D)) \cup (L \ D)
        /\ \A k \in L \ D : r.lines[k] = ls[k] /\ k \in DOMAIN ls
        /\ \A k \in DOMAIN f.lines \ L :
              r.lines[k].w = f.lines[k].w /\ r.lines[k].doc = f.lines[k].doc
    BY LandedIs
  <1>2. /\ p \subseteq Due(ls, ow, wt)
        /\ DOMAIN x.lines = (DOMAIN f.lines \ (p \cap D)) \cup (p \ D)
        /\ \A k \in p \ D : x.lines[k] = ls[k] /\ k \in DOMAIN ls
        /\ \A k \in DOMAIN f.lines \ p :
              x.lines[k].w = f.lines[k].w /\ x.lines[k].doc = f.lines[k].doc
    BY LandedIs
  <1>3. /\ \A k \in DOMAIN f.lines \cap DOMAIN ls : f.lines[k].w = ls[k].w
        /\ \A k \in D : k \in DOMAIN f.lines /\ f.lines[k].w \in se
    BY DEF Agrees
  <1> HIDE DEF r, x, D
  <1>4. ASSUME NEW k \in DOMAIN r.lines
        PROVE  r.lines[k].w \in se \/ (k \in DOMAIN x.lines /\ x.lines[k].w = r.lines[k].w)
    <2>1. CASE k \in p \cap D
      BY <1>1, <1>3, <2>1
    <2>2. CASE k \in p \ D
      BY <1>1, <1>2, <1>3, <2>2
    <2>3. CASE k \notin p
      BY <1>1, <1>2, <2>3
    <2> QED
      BY <2>1, <2>2, <2>3
  <1> QED
    BY <1>4 DEF Keeps, Has, r, x

\* The empty prefix writes nothing.
LEMMA NoneLanded ==
    ASSUME NEW f, FileOK(f), NEW ls, NEW ow, NEW wt, NEW st, NEW nk, NEW se,
           QueueFits(ls, ow, wt, st, nk), Agrees(f, ls, ow, wt, st, se),
           NEW t, Keeps(f, t, se), {} \in Prefixes(Due(ls, ow, wt))
    PROVE  Keeps(Read(f, CopyOf(ls, ow, {})), t, se)
  <1> DEFINE r == Read(f, CopyOf(ls, ow, {}))
             L == {}
             D == DonesOf(ow)
  <1>0. L \in Prefixes(Due(ls, ow, wt)) /\ r = Read(f, CopyOf(ls, ow, L))
    OBVIOUS
  <1> HIDE DEF L, r
  <1>1. /\ DOMAIN r.lines = (DOMAIN f.lines \ (L \cap D)) \cup (L \ D)
        /\ \A k \in DOMAIN f.lines \ L :
              r.lines[k].w = f.lines[k].w /\ r.lines[k].doc = f.lines[k].doc
    BY <1>0, LandedIs
  <1>2. \A k \in DOMAIN r.lines : k \in DOMAIN f.lines /\ r.lines[k].w = f.lines[k].w
    BY <1>1 DEF L
  <1> QED
    BY <1>2 DEF Keeps, r

\* What lands keeps the writes of the file, save those whose done lands.
LEMMA LandedHas ==
    ASSUME NEW f, FileOK(f), NEW ls, NEW ow, NEW wt, NEW st, NEW nk, NEW se,
           QueueFits(ls, ow, wt, st, nk), Agrees(f, ls, ow, wt, st, se),
           NEW L \in Prefixes(Due(ls, ow, wt))
    PROVE  /\ Keeps(f, Read(f, CopyOf(ls, ow, L)), se)
           /\ \A k \in L \cap Waiting(ls, wt) : Has(Read(f, CopyOf(ls, ow, L)), ls[k].w)
  <1> DEFINE r == Read(f, CopyOf(ls, ow, L))
             D == DonesOf(ow)
  <1>1. /\ L \subseteq Due(ls, ow, wt)
        /\ DOMAIN r.lines = (DOMAIN f.lines \ (L \cap D)) \cup (L \ D)
        /\ \A k \in L \ D : r.lines[k] = ls[k] /\ k \in DOMAIN ls
        /\ \A k \in DOMAIN f.lines \ L :
              r.lines[k].w = f.lines[k].w /\ r.lines[k].doc = f.lines[k].doc
    BY LandedIs
  <1>2. /\ \A k \in DOMAIN f.lines \cap DOMAIN ls : f.lines[k].w = ls[k].w
        /\ \A k \in D : f.lines[k].w \in se
        /\ Waiting(ls, wt) \cap D = {}
    BY DEF Agrees, QueueFits, Waiting, DonesOf
  <1> HIDE DEF r, D
  <1>3. ASSUME NEW k \in DOMAIN f.lines
        PROVE  f.lines[k].w \in se \/ (k \in DOMAIN r.lines /\ r.lines[k].w = f.lines[k].w)
    <2>1. CASE k \in L \cap D
      BY <1>2, <2>1
    <2>2. CASE k \in L \ D
      BY <1>1, <1>2, <2>2
    <2>3. CASE k \notin L
      BY <1>1, <2>3
    <2> QED
      BY <2>1, <2>2, <2>3
  <1>4. \A k \in L \cap Waiting(ls, wt) : k \in DOMAIN r.lines /\ r.lines[k].w = ls[k].w
    BY <1>1, <1>2
  <1> QED
    BY <1>3, <1>4 DEF Keeps, Has, r

\* The retry of a queue that agrees with its file: both stand as before, what
\* is left past the file is in order and keeps its writes, no write is lost
\* but one settled, and a call is told only of writes the file has.
LEMMA RetryKeeps ==
    ASSUME FilesOK, home \in Files, NEW ls, NEW ow, NEW wt, NEW st, NEW nk, NEW se,
           QueueFits(ls, ow, wt, st, nk), Agrees(file[home], ls, ow, wt, st, se),
           Retry(ls, ow, wt),
           NEW C \in Nat, file[home].marks + Cardinality(DOMAIN ow \ DonesOf(ow)) <= C,
           \A x \in left[home] : x.marks <= C /\ InOrder(x, ls, nk)
    PROVE  /\ FilesOK'
           /\ \A n \in Files : n # home => file'[n] = file[n] /\ left'[n] = left[n]
           /\ QueueFits(ls, owed', waits', st, nk)
           /\ Agrees(file'[home], ls, owed', waits', st, se)
           /\ file'[home].marks + Cardinality(DOMAIN owed' \ DonesOf(owed')) <= C
           /\ file'[home].marks <= C
           /\ \A x \in left'[home] : x.marks <= C /\ InOrder(x, ls, nk)
           /\ SentStays(file[home], ls, st) => SentStays(file'[home], ls, st)
           /\ (\A x \in left[home] : Keeps(file[home], x, se))
                 => \A x \in left'[home] : Keeps(file'[home], x, se)
           /\ Keeps(file[home], file'[home], se)
           /\ \A w \in copied' : w \in copied \/ Has(file'[home], w)
  <1> DEFINE f == file[home]
             due == Due(ls, ow, wt)
  <1>1. PICK L \in Prefixes(due) :
           /\ file' = [file EXCEPT ![home] = Read(f, CopyOf(ls, ow, L))]
           /\ \E t \in Tails(f, left[home], ls, ow, due, L) :
                 left' = [left EXCEPT ![home] = t]
           /\ owed' = OwedAfter(ls, ow, wt, L)
           /\ waits' = WaitsAfter(ls, ow, wt, L)
           /\ copied' = copied \cup {ls[k].w : k \in L \cap Waiting(ls, wt)}
    BY DEF Retry, Due, OwedAfter, WaitsAfter
  <1>2. PICK t \in Tails(f, left[home], ls, ow, due, L) : left' = [left EXCEPT ![home] = t]
    BY <1>1
  <1> DEFINE r == Read(f, CopyOf(ls, ow, L))
  <1>3. /\ DOMAIN file = Files /\ DOMAIN left = Files
        /\ \A n \in Files : \A g \in {file[n]} \cup left[n] : FileOK(g)
        /\ FileOK(f)
    BY DEF FilesOK
  <1>4. /\ DOMAIN file' = Files /\ DOMAIN left' = Files
        /\ file'[home] = r /\ left'[home] = t
        /\ \A n \in Files : n # home => file'[n] = file[n] /\ left'[n] = left[n]
    BY <1>1, <1>2, <1>3
  <1>5. ASSUME NEW x \in t
        PROVE  \/ L = {} /\ x \in left[home]
               \/ \E p \in Prefixes(due) : L \subseteq p /\ x = Read(f, CopyOf(ls, ow, p))
    <2> HIDE DEF f, due
    <2> QED
      BY <1>2 DEF Tails
  <1>6. FileOK(r)
    BY <1>3, LandedIs
  <1>7. QueueFits(ls, owed', waits', st, nk)
    BY <1>1, RetriedFits
  <1>8. Agrees(r, ls, owed', waits', st, se)
    BY <1>1, <1>3, RetriedAgrees
  <1>9. r.marks + Cardinality(DOMAIN owed' \ DonesOf(owed')) <= C /\ r.marks <= C
    BY <1>1, <1>3, RetriedMarks
  <1>10. SentStays(f, ls, st) => SentStays(r, ls, st)
    BY <1>3, RetriedSent
  <1>11. /\ Keeps(f, r, se)
         /\ \A k \in L \cap Waiting(ls, wt) : Has(r, ls[k].w)
    BY <1>3, LandedHas
  <1>12. ASSUME NEW x \in t
         PROVE  FileOK(x) /\ x.marks <= C /\ InOrder(x, ls, nk)
    <2>1. CASE x \in left[home]
      BY <1>3, <2>1
    <2>2. ASSUME NEW p \in Prefixes(due), x = Read(f, CopyOf(ls, ow, p))
          PROVE  FileOK(x) /\ x.marks <= C /\ InOrder(x, ls, nk)
      <3>1. FileOK(Read(f, CopyOf(ls, ow, p)))
        BY <1>3, LandedIs
      <3>2. Read(f, CopyOf(ls, ow, p)).marks <= C
        BY <1>3, RetriedMarks
      <3>3. InOrder(Read(f, CopyOf(ls, ow, p)), ls, nk)
        BY <1>3, LandedInOrder
      <3> QED
        BY <2>2, <3>1, <3>2, <3>3
    <2> QED
      BY <1>5, <2>1, <2>2
  <1>13. ASSUME \A y \in left[home] : Keeps(f, y, se), NEW x \in t
         PROVE  Keeps(r, x, se)
    <2>1. CASE L = {} /\ x \in left[home]
      <3>1. {} \in Prefixes(due) /\ r = Read(f, CopyOf(ls, ow, {})) /\ Keeps(f, x, se)
        BY <1>13, <2>1
      <3>2. Keeps(Read(f, CopyOf(ls, ow, {})), x, se)
        BY <1>3, <3>1, NoneLanded
      <3> QED
        BY <3>1, <3>2
    <2>2. ASSUME NEW p \in Prefixes(due), L \subseteq p, x = Read(f, CopyOf(ls, ow, p))
          PROVE  Keeps(r, x, se)
      <3>1. Keeps(r, Read(f, CopyOf(ls, ow, p)), se)
        BY <1>3, <2>2, LandedKeeps
      <3> QED
        BY <2>2, <3>1
    <2> QED
      BY <1>5, <2>1, <2>2
  <1> HIDE DEF r
  <1>14. FilesOK'
    <2>1. ASSUME NEW n \in Files, NEW g \in {file'[n]} \cup left'[n] PROVE FileOK(g)
      <3>1. CASE n = home
        BY <1>4, <1>6, <1>12, <3>1
      <3>2. CASE n # home
        BY <1>3, <1>4, <3>2
      <3> QED BY <3>1, <3>2
    <2> QED
      BY <1>4, <2>1 DEF FilesOK, FileOK
  <1>15. \A w \in copied' : w \in copied \/ Has(r, w)
    BY <1>1, <1>11
  <1> QED
    BY <1>4, <1>7, <1>8, <1>9, <1>10, <1>11, <1>12, <1>13, <1>14, <1>15

-----------------------------------------------------------------------------
(* The queue's steps *)

\* A file made ready stays so as the counter grows.
LEMMA ReadyStays ==
    ASSUME NEW f, NEW t, NEW nk \in Nat, NEW nk2 \in Nat, nk <= nk2, Ready(f, t, nk), FileOK(f)
    PROVE  Ready(f, t, nk2)
  <1>1. CASE Renumbers(f, nk)
    <2>1. PICK k \in DOMAIN f.lines : k < nk
      BY <1>1 DEF Renumbers
    <2>2. k \in Nat
      BY DEF FileOK
    <2>3. k < nk2
      BY <2>1, <2>2
    <2> QED
      BY <2>3 DEF Ready, Renumbers
  <1>2. CASE ~Renumbers(f, nk)
    <2>1. /\ DOMAIN f.lines \subseteq DOMAIN t.lines
          /\ \A j \in Nat, k \in DOMAIN t.lines :
               j >= nk /\ j > f.named /\ j < k => j \in DOMAIN t.lines
      BY <1>2 DEF Ready
    <2>2. \A j \in Nat, k \in DOMAIN t.lines :
               j >= nk2 /\ j > f.named /\ j < k => j \in DOMAIN t.lines
      BY <2>1
    <2> QED
      BY <2>1, <2>2 DEF Ready
  <1> QED
    BY <1>1, <1>2

\* A step of a queue kept in a file that ends in its retry.
LEMMA RetryStep ==
    ASSUME IInv, home \in Files, home' = home, dir' = dir,
           NEW ow, NEW wt, Retry(lines', ow, wt),
           QueueFits(lines', ow, wt, stale', nextK'),
           Agrees(file[home], lines', ow, wt, stale', settled'),
           LongStays => SentStays(file[home], lines', stale'),
           RestOK', OrdinalNames', changes <= changes', nextK <= nextK', settled \subseteq settled',
           cut' = cut, file[home].marks + Cardinality(DOMAIN ow \ DonesOf(ow)) <= changes',
           \A x \in left[home] : InOrder(x, lines', nextK')
    PROVE  IInv'
  <1> DEFINE ls == lines'
             st == stale'
             nk == nextK'
             se == settled'
             C == changes'
  <1>1. FilesOK /\ Marked /\ TailsWhere /\ TailsReady
    BY DEF IInv, Inv
  <1>2. C \in Nat /\ changes \in Nat
    <2>1. changes' \in Nat
      BY StoreAssumption DEF RestOK
    <2>2. changes \in Nat
      BY StoreAssumption DEF IInv, Inv, RestOK
    <2> QED
      BY <2>1, <2>2
  <1>3. \A n \in Files : \A g \in {file[n]} \cup left[n] : FileOK(g) /\ g.marks \in Nat /\ g.marks <= C
    BY <1>1, <1>2 DEF Marked, FilesOK, FileOK
  <1>4. /\ QueueFits(ls, ow, wt, st, nk) /\ Agrees(file[home], ls, ow, wt, st, se)
        /\ Retry(ls, ow, wt)
        /\ file[home].marks + Cardinality(DOMAIN ow \ DonesOf(ow)) <= C
        /\ \A x \in left[home] : x.marks <= C /\ InOrder(x, ls, nk)
    BY <1>3
  <1> HIDE DEF ls, st, nk, se, C
  <1>5. /\ FilesOK'
        /\ \A n \in Files : n # home => file'[n] = file[n] /\ left'[n] = left[n]
        /\ QueueFits(ls, owed', waits', st, nk)
        /\ Agrees(file'[home], ls, owed', waits', st, se)
        /\ file'[home].marks + Cardinality(DOMAIN owed' \ DonesOf(owed')) <= C
        /\ file'[home].marks <= C
        /\ \A x \in left'[home] : x.marks <= C /\ InOrder(x, ls, nk)
        /\ SentStays(file[home], ls, st) => SentStays(file'[home], ls, st)
        /\ (\A x \in left[home] : Keeps(file[home], x, se))
              => \A x \in left'[home] : Keeps(file'[home], x, se)
        /\ Keeps(file[home], file'[home], se)
        /\ \A w \in copied' : w \in copied \/ Has(file'[home], w)
    BY <1>1, <1>2, <1>4, RetryKeeps
  <1> USE DEF ls, st, nk, se, C
  <1>6. QueueOK'
    BY <1>5 DEF QueueOK
  <1>7. Marked'
    <2>1. \A n \in Files : \A g \in {file'[n]} \cup left'[n] : g.marks <= changes'
      BY <1>3, <1>5
    <2> QED
      BY <1>5, <2>1 DEF Marked
  <1>8. Agree'
    BY <1>5 DEF Agree
  <1>9. TailsWhere'
    BY <1>1, <1>5 DEF TailsWhere
  <1>10. TailsInOrder'
    BY <1>5 DEF TailsInOrder
  <1>11. TailsReady'
    <2>1. ASSUME home # dir, dir \in Files, NEW t \in left[dir]
          PROVE  Ready(file[dir], t, nextK')
      <3>1. Ready(file[dir], t, nextK) /\ FileOK(file[dir])
        BY <1>1, <1>3, <2>1 DEF TailsReady
      <3>2. nextK \in Nat /\ nextK' \in Nat
        BY DEF IInv, Inv, QueueOK, QueueFits
      <3> QED
        BY <3>1, <3>2, ReadyStays
    <2>2. home # dir /\ dir \in Files => file'[dir] = file[dir] /\ left'[dir] = left[dir]
      BY <1>5
    <2> QED
      BY <2>1, <2>2 DEF TailsReady
  <1>12. LongStays => StaleSent'
    BY <1>5 DEF StaleSent
  <1>13. TailsKeep' /\ NoneLost'
    <2> DEFINE sc == settled' \cup cut
    <2>1. TailsKeep /\ NoneLost
      BY DEF IInv
    <2>2. \A n \in Files : \A x \in left[n] : Keeps(file[n], x, sc)
      BY <2>1 DEF TailsKeep, Keeps
    <2>3. Agrees(file[home], ls, ow, wt, st, sc)
      BY <1>4 DEF Agrees
    <2> HIDE DEF ls, st, nk, se, C, sc
    <2>4. /\ (\A x \in left[home] : Keeps(file[home], x, sc))
                => \A x \in left'[home] : Keeps(file'[home], x, sc)
          /\ Keeps(file[home], file'[home], sc)
      BY <1>1, <1>2, <1>4, <2>3, RetryKeeps
    <2>5. TailsKeep'
      <3>1. \A n \in Files : \A x \in left'[n] : Keeps(file'[n], x, sc)
        BY <1>5, <2>2, <2>4
      <3> QED
        BY <3>1 DEF TailsKeep, sc
    <2>6. ASSUME NEW w \in copied', w \notin sc PROVE \E n \in Files : Has(file'[n], w)
      <3>1. CASE Has(file'[home], w)
        BY <3>1
      <3>2. CASE w \in copied
        <4>1. w \notin settled \cup cut
          BY <2>6 DEF sc
        <4>2. PICK n \in Files : Has(file[n], w)
          BY <2>1, <3>2, <4>1 DEF NoneLost, OnDisk, Has
        <4>3. CASE n = home
          BY <2>4, <2>6, <4>2, <4>3 DEF Keeps, Has
        <4>4. CASE n # home
          BY <1>5, <4>2, <4>4
        <4> QED BY <4>3, <4>4
      <3> QED
        BY <1>5, <2>6, <3>1, <3>2
    <2> QED
      BY <2>5, <2>6 DEF NoneLost, OnDisk, Has, sc
  <1>14. Inv'
    BY <1>5, <1>6, <1>7, <1>8, <1>9, <1>10, <1>11 DEF Inv
  <1> QED
    BY <1>12, <1>13, <1>14 DEF IInv

\* A step of a queue kept in no file.
LEMMA MemoryStep ==
    ASSUME IInv, home \notin Files, home' \notin Files, dir' = dir,
           UNCHANGED <<file, left, copied, cut>>,
           owed' = Empty, waits' = 0, stale' = {},
           QueueFits(lines', Empty, 0, {}, nextK'),
           RestOK', OrdinalNames', changes <= changes', nextK <= nextK', settled \subseteq settled'
    PROVE  IInv'
  <1>1. FilesOK /\ Marked /\ TailsWhere /\ TailsReady
    BY DEF IInv, Inv
  <1>2. FilesOK'
    BY <1>1 DEF FilesOK
  <1>3. QueueOK'
    BY DEF QueueOK
  <1>4. Marked'
    <2>1. changes \in Nat /\ changes' \in Nat
      <3>1. changes' \in Nat
        BY StoreAssumption DEF RestOK
      <3>2. changes \in Nat
        BY StoreAssumption DEF IInv, Inv, RestOK
      <3> QED
        BY <3>1, <3>2
    <2>2. \A n \in Files : \A g \in {file[n]} \cup left[n] : g.marks \in Nat /\ g.marks <= changes
      BY <1>1 DEF Marked, FilesOK, FileOK
    <2> QED
      BY <2>1, <2>2 DEF Marked
  <1>5. Agree' /\ TailsInOrder' /\ StaleSent'
    BY DEF Agree, TailsInOrder, StaleSent
  <1>6. TailsWhere'
    BY <1>1 DEF TailsWhere
  <1>7. TailsReady'
    <2>1. ASSUME dir \in Files, NEW t \in left[dir]
          PROVE  Ready(file[dir], t, nextK')
      <3>1. Ready(file[dir], t, nextK) /\ FileOK(file[dir])
        BY <1>1, <2>1 DEF TailsReady, FilesOK
      <3>2. nextK \in Nat /\ nextK' \in Nat
        BY DEF IInv, Inv, QueueOK, QueueFits
      <3> QED
        BY <3>1, <3>2, ReadyStays
    <2> QED
      BY <2>1 DEF TailsReady
  <1>8. TailsKeep' /\ NoneLost'
    <2>1. TailsKeep /\ NoneLost
      BY DEF IInv
    <2> QED
      BY <2>1 DEF TailsKeep, Keeps, NoneLost, OnDisk
  <1>9. Inv'
    BY <1>2, <1>3, <1>4, <1>5, <1>6, <1>7 DEF Inv
  <1> QED
    BY <1>5, <1>8, <1>9 DEF IInv

\* The invariant's parts, for the steps below.
LEMMA Parts ==
    ASSUME IInv
    PROVE  /\ FilesOK /\ QueueOK /\ RestOK /\ Marked /\ Agree /\ OrdinalNames
           /\ TailsWhere /\ TailsInOrder /\ TailsReady
           /\ QueueFits(lines, owed, waits, stale, nextK)
           /\ changes \in Nat /\ nextK \in Nat /\ nextK >= 1
           /\ \A n \in Files : FileOK(file[n]) /\ file[n].marks \in Nat /\ file[n].marks <= changes
  <1>1. /\ FilesOK /\ QueueOK /\ RestOK /\ Marked /\ Agree /\ OrdinalNames
        /\ TailsWhere /\ TailsInOrder /\ TailsReady
    BY DEF IInv, Inv
  <1>2. QueueFits(lines, owed, waits, stale, nextK)
    BY <1>1 DEF QueueOK
  <1>3. changes \in Nat
    BY <1>1, StoreAssumption DEF RestOK
  <1>4. nextK \in Nat /\ nextK >= 1
    BY <1>2 DEF QueueFits
  <1>5. \A n \in Files : FileOK(file[n]) /\ file[n].marks \in Nat /\ file[n].marks <= changes
    BY <1>1 DEF FilesOK, FileOK, Marked
  <1> QED
    BY <1>1, <1>2, <1>3, <1>4, <1>5

\* The marks owed are counted, for a queue in a file.
LEMMA OwedCounted ==
    ASSUME IInv, home \in Files
    PROVE  /\ Agrees(file[home], lines, owed, waits, stale, settled)
           /\ file[home].marks + Cardinality(DOMAIN owed \ DonesOf(owed)) <= changes
           /\ LongStays => SentStays(file[home], lines, stale)
           /\ \A x \in left[home] : InOrder(x, lines, nextK)
  BY DEF IInv, Inv, Agree, Marked, StaleSent, TailsInOrder

\* The probe.
LEMMA ProbeKeeps ==
    ASSUME IInv, Probe
    PROVE  IInv'
  <1>1. /\ home \in Files /\ Retry(lines, owed, waits)
        /\ UNCHANGED <<dir, home, lines, spent, stale, nextK, touched, answered, settled, cut,
                       writes, changes, closes>>
    BY DEF Probe, countVars
  <1>2. /\ RestOK /\ OrdinalNames /\ QueueFits(lines, owed, waits, stale, nextK)
        /\ changes \in Nat /\ nextK \in Nat
    BY Parts
  <1>3. /\ Agrees(file[home], lines, owed, waits, stale, settled)
        /\ file[home].marks + Cardinality(DOMAIN owed \ DonesOf(owed)) <= changes
        /\ LongStays => SentStays(file[home], lines, stale)
        /\ \A x \in left[home] : InOrder(x, lines, nextK)
    BY <1>1, OwedCounted
  <1>4. RestOK'
    BY <1>1, <1>2 DEF RestOK
  <1>5. OrdinalNames'
    BY <1>1, <1>2 DEF OrdinalNames
  <1>6. /\ Retry(lines', owed, waits)
        /\ QueueFits(lines', owed, waits, stale', nextK')
        /\ Agrees(file[home], lines', owed, waits, stale', settled')
        /\ LongStays => SentStays(file[home], lines', stale')
        /\ file[home].marks + Cardinality(DOMAIN owed \ DonesOf(owed)) <= changes'
        /\ \A x \in left[home] : InOrder(x, lines', nextK')
        /\ home' = home /\ dir' = dir
    BY <1>1, <1>2, <1>3
  <1>7. changes <= changes' /\ nextK <= nextK' /\ settled \subseteq settled' /\ cut' = cut
    BY <1>1, <1>2
  <1> QED
    BY <1>1, <1>4, <1>5, <1>6, <1>7, RetryStep

\* A file no queue has open is cut back.
LEMMA CutKeeps ==
    ASSUME IInv, NEW n \in Files, CutUnsettled(n)
    PROVE  IInv'
  <1>1. /\ n # home
        /\ left' = [left EXCEPT ![n] = {}]
        /\ UNCHANGED <<file, dir, home, lines, owed, waits, spent, stale, nextK, touched,
                       answered, copied, settled, cut, writes, changes, closes, refusals>>
    BY DEF CutUnsettled, queueVars, countVars
  <1>2. /\ FilesOK /\ QueueOK /\ RestOK /\ Marked /\ Agree /\ OrdinalNames
        /\ TailsWhere /\ TailsInOrder /\ TailsReady
    BY Parts
  <1>3. DOMAIN left' = Files /\ \A m \in Files : left'[m] \subseteq left[m]
    BY <1>1, <1>2 DEF FilesOK
  <1>4. FilesOK'
    BY <1>1, <1>2, <1>3 DEF FilesOK
  <1>5. QueueOK' /\ RestOK' /\ OrdinalNames' /\ Agree'
    BY <1>1, <1>2 DEF QueueOK, RestOK, OrdinalNames, Agree
  <1>6. Marked'
    BY <1>1, <1>2, <1>3 DEF Marked
  <1>7. TailsWhere' /\ TailsInOrder' /\ TailsReady'
    <2>1. TailsWhere'
      BY <1>1, <1>2, <1>3 DEF TailsWhere
    <2>2. TailsInOrder'
      BY <1>1, <1>2, <1>3 DEF TailsInOrder
    <2>3. TailsReady'
      BY <1>1, <1>2, <1>3 DEF TailsReady
    <2> QED
      BY <2>1, <2>2, <2>3
  <1>8. LongStays => StaleSent'
    BY <1>1 DEF IInv, StaleSent
  <1>9. TailsKeep' /\ NoneLost'
    <2>1. TailsKeep => TailsKeep'
      BY <1>1, <1>3 DEF TailsKeep
    <2>2. NoneLost => NoneLost'
      BY <1>1 DEF NoneLost, OnDisk
    <2> QED
      BY <2>1, <2>2 DEF IInv
  <1> QED
    BY <1>4, <1>5, <1>6, <1>7, <1>8, <1>9 DEF IInv, Inv

\* A close and a launch: a file may be read with what was left past it.
LEMMA RelaunchKeeps ==
    ASSUME IInv, Relaunch
    PROVE  IInv'
  <1>1. /\ closes < MaxCloses
        /\ file' \in [Files -> UNION {{file[n]} \cup left[n] : n \in Files}]
        /\ \A n \in Files : file'[n] \in {file[n]} \cup left[n]
        /\ left' = [n \in Files |-> {}]
        /\ dir' = "notyet" /\ home' = "none"
        /\ lines' = Empty /\ owed' = Empty /\ waits' = 0 /\ spent' = 0 /\ stale' = {}
        /\ nextK' = 1 /\ touched' = FALSE /\ answered' = Empty
        /\ UNCHANGED <<copied, settled, cut, writes, changes, refusals>>
    BY DEF Relaunch
  <1>2. FilesOK /\ RestOK /\ Marked /\ changes \in Nat
    BY Parts
  <1>3. FilesOK'
    <2>1. DOMAIN file' = Files /\ DOMAIN left' = Files
      BY <1>1
    <2>2. \A n \in Files : left'[n] = {}
      BY <1>1
    <2> QED
      BY <1>1, <1>2, <2>1, <2>2 DEF FilesOK
  <1>4. home' \notin Files
    BY <1>1 DEF Files
  <1>5. QueueOK'
    BY <1>1, EmptyDomain DEF QueueOK, QueueFits
  <1>6. RestOK'
    <2>1. writes' \in 0 .. MaxWrites /\ changes' \in 0 .. MaxChanges
      BY <1>1, <1>2 DEF RestOK
    <2>2. spent' \in 0 .. changes'
      BY <1>1, <1>2
    <2>3. dir' \in {"notyet"} \cup Files /\ home' \in {"none", "memory"} \cup Files
      BY <1>1
    <2>4. touched' \in BOOLEAN
      BY <1>1
    <2>5. DOMAIN answered' \subseteq 1 .. (nextK' - 1)
      BY <1>1, EmptyDomain
    <2>6. lines' = Empty /\ answered' = Empty /\ nextK' = 1
      BY <1>1
    <2> QED
      BY <1>4, <2>1, <2>2, <2>3, <2>4, <2>5, <2>6 DEF RestOK
  <1>7. Marked'
    <2>1. \A n \in Files : left'[n] = {}
      BY <1>1
    <2> QED
      BY <1>1, <1>2, <1>4, <2>1 DEF Marked
  <1>8. Agree' /\ TailsInOrder' /\ StaleSent'
    BY <1>4 DEF Agree, TailsInOrder, StaleSent
  <1>9. TailsWhere' /\ TailsReady' /\ TailsKeep'
    <2>1. \A n \in Files : left'[n] = {}
      BY <1>1
    <2> QED
      BY <2>1 DEF TailsWhere, TailsReady, TailsKeep
  <1>10. OrdinalNames'
    BY <1>1, EmptyDomain DEF OrdinalNames
  <1>11. NoneLost'
    <2>1. TailsKeep /\ NoneLost
      BY DEF IInv
    <2>2. ASSUME NEW w \in copied' \ (settled' \cup cut') PROVE \E n \in Files : Has(file'[n], w)
      <3>1. PICK n \in Files : Has(file[n], w)
        BY <1>1, <2>1, <2>2 DEF NoneLost, OnDisk, Has
      <3>2. CASE file'[n] = file[n]
        BY <3>1, <3>2
      <3>3. CASE file'[n] \in left[n]
        <4>1. Keeps(file[n], file'[n], settled \cup cut) /\ w \notin settled \cup cut
          BY <1>1, <2>1, <2>2, <3>3 DEF TailsKeep
        <4> QED
          BY <3>1, <4>1 DEF Keeps, Has
      <3> QED
        BY <1>1, <3>2, <3>3
    <2> QED
      BY <2>2 DEF NoneLost, OnDisk, Has
  <1> QED
    BY <1>3, <1>5, <1>6, <1>7, <1>8, <1>9, <1>10, <1>11 DEF IInv, Inv

\* A write held takes the counter's ordinal and waits for its first copy.
LEMMA HoldKeeps ==
    ASSUME IInv, NEW doc \in Docs, Hold(doc, 0)
    PROVE  IInv'
  <1> DEFINE w == writes + 1
             line == [w |-> w, doc |-> doc, base |-> 0, cause |-> CHOOSE c \in Causes : TRUE,
                      sent |-> FALSE, ver |-> 0]
             wt == IF waits = 0 /\ home \in Files THEN nextK ELSE waits
  <1>1. /\ home # "none" /\ w <= MaxWrites
        /\ lines' = [k \in DOMAIN lines \cup {nextK} |-> IF k = nextK THEN line ELSE lines[k]]
        /\ nextK' = nextK + 1
        /\ writes' = w
        /\ answered' = [k \in DOMAIN answered \cup {nextK} |->
                          IF k = nextK THEN w ELSE answered[k]]
        /\ Retry(lines', owed, wt)
        /\ UNCHANGED <<dir, home, spent, touched, stale, settled, cut, changes, closes>>
    BY DEF Hold
  <1>2. /\ RestOK /\ OrdinalNames /\ QueueOK /\ QueueFits(lines, owed, waits, stale, nextK)
        /\ changes \in Nat /\ nextK \in Nat /\ nextK >= 1
    BY Parts
  <1>3. /\ DOMAIN lines \subseteq 1 .. (nextK - 1) /\ \A k \in DOMAIN lines : lines[k] \in Line
        /\ DOMAIN owed \subseteq {k \in 1 .. (nextK - 1) : waits = 0 \/ k < waits}
        /\ \A k \in DOMAIN owed : owed[k] \in [done: BOOLEAN, at: 0..MaxPos]
        /\ \A k \in DOMAIN owed : owed[k].done <=> k \notin DOMAIN lines
        /\ waits \in 0 .. nextK
        /\ stale \subseteq DOMAIN lines \ Waiting(lines, waits) /\ stale \cap DOMAIN owed = {}
    BY <1>2 DEF QueueFits
  <1>4. line \in Line /\ line.w = w
    <2>1. writes \in 0 .. MaxWrites /\ MaxWrites \in Nat /\ MaxPos \in Nat /\ 0 \in Versions
      BY <1>2, StoreAssumption DEF RestOK
    <2>2. w \in 1 .. MaxWrites /\ 0 \in 0 .. MaxPos
      BY <1>1, <2>1
    <2>3. (CHOOSE c \in Causes : TRUE) \in Causes
      BY StoreAssumption
    <2> HIDE DEF w
    <2> QED
      BY <2>1, <2>2, <2>3 DEF Line
  <1> HIDE DEF line, w
  <1>5. /\ DOMAIN lines' = DOMAIN lines \cup {nextK} /\ nextK \notin DOMAIN lines
        /\ lines'[nextK] = line /\ \A k \in DOMAIN lines : lines'[k] = lines[k]
    <2>1. nextK \notin DOMAIN lines
      BY <1>2, <1>3
    <2> QED
      BY <1>1, <2>1
  <1>6. RestOK'
    <2>1. writes' \in 0 .. MaxWrites
      BY <1>1, <1>2, StoreAssumption DEF RestOK, w
    <2>2. DOMAIN answered' \subseteq 1 .. (nextK' - 1)
      BY <1>1, <1>2 DEF RestOK
    <2> QED
      BY <1>1, <1>2, <2>1, <2>2 DEF RestOK
  <1>7. OrdinalNames'
    <2>1. nextK \notin DOMAIN answered
      BY <1>2 DEF RestOK
    <2>2. ASSUME NEW k \in DOMAIN answered' \cap DOMAIN lines' PROVE lines'[k].w = answered'[k]
      <3>1. CASE k = nextK
        BY <1>1, <1>4, <1>5, <3>1
      <3>2. CASE k # nextK
        <4>1. k \in DOMAIN answered \cap DOMAIN lines /\ answered'[k] = answered[k]
          BY <1>1, <1>5, <3>2
        <4> QED
          BY <1>2, <1>5, <4>1 DEF OrdinalNames
      <3> QED BY <3>1, <3>2
    <2> QED
      BY <2>2 DEF OrdinalNames
  <1>8. changes <= changes' /\ nextK <= nextK' /\ settled \subseteq settled' /\ cut' = cut
    BY <1>1, <1>2
  <1>9. CASE home \notin Files
    <2>1. owed = Empty /\ waits = 0 /\ stale = {}
      BY <1>2, <1>9 DEF QueueOK
    <2>2. owed' = Empty /\ waits' = 0 /\ stale' = {} /\ UNCHANGED <<file, left, copied>>
      BY <1>1, <1>9, <2>1 DEF Retry
    <2>3. QueueFits(lines', Empty, 0, {}, nextK')
      BY <1>1, <1>2, <1>3, <1>4, <1>5, EmptyDomain DEF QueueFits
    <2> QED
      BY <1>1, <1>6, <1>7, <1>8, <1>9, <2>2, <2>3, MemoryStep
  <1>10. CASE home \in Files
    <2>1. /\ Agrees(file[home], lines, owed, waits, stale, settled)
          /\ file[home].marks + Cardinality(DOMAIN owed \ DonesOf(owed)) <= changes
          /\ LongStays => SentStays(file[home], lines, stale)
          /\ \A x \in left[home] : InOrder(x, lines, nextK)
      BY <1>10, OwedCounted
    <2>2. wt \in 1 .. nextK /\ \A k \in DOMAIN owed : k < wt
      BY <1>2, <1>3, <1>10
    <2>3. Waiting(lines', wt) = Waiting(lines, waits) \cup {nextK}
      BY <1>2, <1>3, <1>5, <1>10 DEF Waiting
    <2> HIDE DEF wt
    <2>4. QueueFits(lines', owed, wt, stale', nextK')
      <3>1. DOMAIN lines' \subseteq 1 .. (nextK' - 1) /\ \A k \in DOMAIN lines' : lines'[k] \in Line
        BY <1>1, <1>2, <1>3, <1>4, <1>5
      <3>2. DOMAIN owed \subseteq {k \in 1 .. (nextK' - 1) : wt = 0 \/ k < wt}
        BY <1>1, <1>2, <1>3, <2>2
      <3>3. \A k \in DOMAIN owed : owed[k].done <=> k \notin DOMAIN lines'
        BY <1>2, <1>3, <1>5
      <3>4. wt \in 0 .. nextK' /\ nextK' \in Nat \ {0}
        BY <1>1, <1>2, <2>2
      <3>5. stale' \subseteq DOMAIN lines' \ Waiting(lines', wt) /\ stale' \cap DOMAIN owed = {}
        BY <1>1, <1>2, <1>3, <1>5, <2>3
      <3> QED
        BY <1>3, <3>1, <3>2, <3>3, <3>4, <3>5 DEF QueueFits
    <2>5. Agrees(file[home], lines', owed, wt, stale', settled')
      <3> DEFINE f == file[home]
      <3>1. DOMAIN f.lines = (DOMAIN lines' \ Waiting(lines', wt)) \cup DonesOf(owed)
        BY <1>5, <2>1, <2>3 DEF Agrees
      <3>2. \A k \in DOMAIN f.lines \cap DOMAIN lines' : k \in DOMAIN lines
        BY <1>5, <2>3, <3>1, <1>3, <1>2 DEF DonesOf
      <3>3. \A k \in DOMAIN f.lines \ (DOMAIN owed \cup stale) : k \in DOMAIN lines
        BY <2>1 DEF Agrees, DonesOf
      <3> QED
        BY <1>1, <1>5, <2>1, <3>1, <3>2, <3>3 DEF Agrees
    <2>6. LongStays => SentStays(file[home], lines', stale')
      BY <1>1, <1>3, <1>5, <2>1 DEF SentStays
    <2>7. \A x \in left[home] : InOrder(x, lines', nextK')
      <3>1. \A j \in Nat : j \in DOMAIN lines' \/ j >= nextK' <=> j \in DOMAIN lines \/ j >= nextK
        BY <1>1, <1>2, <1>5
      <3> QED
        BY <2>1, <3>1 DEF InOrder
    <2>8. /\ file[home].marks + Cardinality(DOMAIN owed \ DonesOf(owed)) <= changes'
          /\ home' = home /\ dir' = dir /\ Retry(lines', owed, wt)
      BY <1>1, <2>1 DEF wt
    <2> QED
      BY <1>6, <1>7, <1>8, <1>10, <2>4, <2>5, <2>6, <2>7, <2>8, RetryStep
  <1> QED
    BY <1>9, <1>10

\* A line changed in place: the queue and its file agree as before where the
\* change waits, or a copy of the line is owed or was refused.
LEMMA ChangeAgrees ==
    ASSUME NEW f, NEW ls, NEW ow, NEW wt, NEW st, NEW nk, NEW se,
           QueueFits(ls, ow, wt, st, nk), Agrees(f, ls, ow, wt, st, se),
           NEW k \in DOMAIN ls, NEW line \in Line, line.w = ls[k].w, line.doc = ls[k].doc,
           NEW ow2, NEW st2,
           DonesOf(ow2) = DonesOf(ow), \A j \in DonesOf(ow) : ow2[j] = ow[j],
           DOMAIN ow \cup st \subseteq DOMAIN ow2 \cup st2,
           k \in Waiting(ls, wt) \/ k \in DOMAIN ow2 \cup st2
    PROVE  Agrees(f, [ls EXCEPT ![k] = line], ow2, wt, st2, se)
  <1> DEFINE ls2 == [ls EXCEPT ![k] = line]
  <1>1. /\ DOMAIN ls2 = DOMAIN ls /\ ls2[k] = line
        /\ \A j \in DOMAIN ls : j # k => ls2[j] = ls[j]
    OBVIOUS
  <1> HIDE DEF ls2
  <1>2. Waiting(ls2, wt) = Waiting(ls, wt)
    BY <1>1 DEF Waiting
  <1>3. AtOf(ow2) = AtOf(ow)
    BY DEF AtOf
  <1>4. /\ DOMAIN f.lines = (DOMAIN ls \ Waiting(ls, wt)) \cup DonesOf(ow)
        /\ \A j \in DOMAIN f.lines \cap DOMAIN ls :
              f.lines[j].w = ls[j].w /\ f.lines[j].doc = ls[j].doc
        /\ \A j \in DonesOf(ow) : f.lines[j].w \in se
        /\ \A j \in DOMAIN f.lines \ (DOMAIN ow \cup st) : ls[j] = WithDones(f, ow, j)
    BY DEF Agrees
  <1>5. \A j : WithDones(f, ow2, j) = WithDones(f, ow, j)
    BY <1>3 DEF WithDones
  <1>6. DonesOf(ow) \cap DOMAIN ls = {} /\ DonesOf(ow) \subseteq DOMAIN ow
    BY DEF QueueFits, DonesOf
  <1>7. ASSUME NEW j \in DOMAIN f.lines \ (DOMAIN ow2 \cup st2) PROVE ls2[j] = WithDones(f, ow2, j)
    <2>1. j \in DOMAIN f.lines \ (DOMAIN ow \cup st) /\ j \in DOMAIN ls /\ j # k
      BY <1>4, <1>6
    <2> QED
      BY <1>1, <1>4, <1>5, <2>1
  <1>8. \A j \in DOMAIN f.lines \cap DOMAIN ls2 :
              f.lines[j].w = ls2[j].w /\ f.lines[j].doc = ls2[j].doc
    BY <1>1, <1>4
  <1>9. Agrees(f, ls2, ow2, wt, st2, se)
    BY <1>1, <1>2, <1>4, <1>7, <1>8 DEF Agrees
  <1> QED
    BY <1>9 DEF ls2

\* A change of a line: owed a copy, refused one by the writer, or still part of
\* the line's first.
LEMMA OweKeeps ==
    ASSUME IInv, NEW k \in DOMAIN lines, NEW line \in Line,
           line.w = lines[k].w, line.doc = lines[k].doc,
           line.ver = lines[k].ver \/ line.ver > lines[k].ver, Owe(k, line)
    PROVE  IInv'
  <1> DEFINE spends == ~MarksSent(lines[k], line)
             rides == k \in DOMAIN owed
             onDisk == home \in Files /\ Holds(k)
             over == spends /\ ~rides /\ spent + 1 > Remarks
             dropped == Restrict(owed, DOMAIN owed \ {k})
             added == [j \in DOMAIN owed \cup {k} |->
                         IF j = k THEN [done |-> FALSE, at |-> 0] ELSE owed[j]]
  <1>1. /\ changes < MaxChanges /\ changes' = changes + 1
        /\ lines' = [lines EXCEPT ![k] = line]
        /\ UNCHANGED <<dir, home, nextK, touched, answered, settled, cut, writes, closes>>
    BY DEF Owe
  <1>2. \/ /\ ~onDisk
           /\ UNCHANGED <<spent, stale>>
           /\ Retry(lines', owed, waits)
        \/ /\ onDisk /\ line.ver \in Long
           /\ stale' = stale \cup {k} /\ UNCHANGED spent
           /\ Retry(lines', dropped, waits)
        \/ /\ onDisk /\ line.ver \notin Long /\ over
           /\ stale' = stale \cup {k} /\ UNCHANGED spent
           /\ Retry(lines', owed, waits)
        \/ /\ onDisk /\ line.ver \notin Long /\ ~over
           /\ stale' = stale \ {k}
           /\ spent' = IF spends /\ ~rides THEN spent + 1 ELSE spent
           /\ Retry(lines', added, waits)
    BY DEF Owe
  <1>3. /\ RestOK /\ OrdinalNames /\ QueueOK /\ QueueFits(lines, owed, waits, stale, nextK)
        /\ changes \in Nat /\ nextK \in Nat /\ nextK >= 1
    BY Parts
  <1>4. /\ DOMAIN lines \subseteq 1 .. (nextK - 1) /\ \A j \in DOMAIN lines : lines[j] \in Line
        /\ DOMAIN owed \subseteq {j \in 1 .. (nextK - 1) : waits = 0 \/ j < waits}
        /\ \A j \in DOMAIN owed : owed[j] \in [done: BOOLEAN, at: 0..MaxPos]
        /\ \A j \in DOMAIN owed : owed[j].done <=> j \notin DOMAIN lines
        /\ waits \in 0 .. nextK
        /\ stale \subseteq DOMAIN lines \ Waiting(lines, waits) /\ stale \cap DOMAIN owed = {}
    BY <1>3 DEF QueueFits
  <1>5. /\ DOMAIN lines' = DOMAIN lines /\ lines'[k] = line
        /\ \A j \in DOMAIN lines : j # k => lines'[j] = lines[j]
        /\ \A j \in DOMAIN lines : lines'[j] \in Line /\ lines'[j].w = lines[j].w
    BY <1>1, <1>4
  <1>6. Waiting(lines', waits) = Waiting(lines, waits)
    BY <1>5 DEF Waiting
  <1>7. RestOK'
    <2>1. changes' \in 0 .. MaxChanges
      BY <1>1, <1>3, StoreAssumption DEF RestOK
    <2>2. spent' \in 0 .. changes'
      <3>1. spent \in 0 .. changes
        BY <1>3 DEF RestOK
      <3>2. spent' = spent \/ spent' = spent + 1
        BY <1>2
      <3> QED
        BY <1>1, <1>3, <3>1, <3>2
    <2>3. home # "none"
      BY <1>3, EmptyDomain DEF RestOK
    <2> QED
      BY <1>1, <1>3, <2>1, <2>2, <2>3 DEF RestOK
  <1>8. OrdinalNames'
    BY <1>1, <1>3, <1>5 DEF OrdinalNames
  <1>9. changes <= changes' /\ nextK <= nextK' /\ settled \subseteq settled' /\ cut' = cut
    BY <1>1, <1>3
  <1>10. CASE home \notin Files
    <2>1. owed = Empty /\ waits = 0 /\ stale = {}
      BY <1>3, <1>10 DEF QueueOK
    <2>2. UNCHANGED stale /\ Retry(lines', owed, waits)
      BY <1>2, <1>10
    <2>3. owed' = Empty /\ waits' = 0 /\ stale' = {} /\ UNCHANGED <<file, left, copied>>
      BY <1>10, <2>1, <2>2 DEF Retry
    <2>4. QueueFits(lines', Empty, 0, {}, nextK')
      BY <1>1, <1>3, <1>4, <1>5, EmptyDomain DEF QueueFits
    <2> QED
      BY <1>1, <1>7, <1>8, <1>9, <1>10, <2>3, <2>4, MemoryStep
  <1>11. CASE home \in Files
    <2> DEFINE f == file[home]
    <2>1. /\ Agrees(f, lines, owed, waits, stale, settled)
          /\ f.marks + Cardinality(DOMAIN owed \ DonesOf(owed)) <= changes
          /\ LongStays => SentStays(f, lines, stale)
          /\ \A x \in left[home] : InOrder(x, lines, nextK)
      BY <1>11, OwedCounted
    <2>2. \A x \in left[home] : InOrder(x, lines', nextK')
      BY <1>1, <1>5, <2>1 DEF InOrder
    <2>3. f.marks \in Nat /\ IsFiniteSet(DOMAIN owed) /\ IsFiniteSet(DOMAIN owed \ DonesOf(owed))
          /\ Cardinality(DOMAIN owed \ DonesOf(owed)) \in Nat
      <3>1. f.marks \in Nat
        BY <1>11, Parts
      <3>2. DOMAIN owed \in SUBSET (1 .. (nextK - 1))
        BY <1>4
      <3>3. IsFiniteSet(1 .. (nextK - 1))
        BY <1>3, FS_Interval
      <3>4. IsFiniteSet(DOMAIN owed)
        BY <3>2, <3>3, FS_Subset
      <3>5. DOMAIN owed \ DonesOf(owed) \in SUBSET DOMAIN owed
        OBVIOUS
      <3>6. IsFiniteSet(DOMAIN owed \ DonesOf(owed))
        BY <3>4, <3>5, FS_Subset
      <3> QED
        BY <3>1, <3>4, <3>6, FS_CardinalityType
    <2>4. k \notin DonesOf(owed) /\ DonesOf(owed) \subseteq DOMAIN owed
      BY <1>4 DEF DonesOf
    <2>5. k \in Waiting(lines, waits) <=> ~Holds(k)
      BY <1>3, <1>4 DEF Waiting, Holds
    \* The step with what is owed and refused after the change.
    <2>6. ASSUME NEW ow2,
                 DonesOf(ow2) = DonesOf(owed), \A j \in DonesOf(owed) : ow2[j] = owed[j],
                 DOMAIN owed \cup stale \subseteq DOMAIN ow2 \cup stale',
                 k \in Waiting(lines, waits) \/ k \in DOMAIN ow2 \cup stale',
                 Retry(lines', ow2, waits),
                 DOMAIN ow2 \subseteq DOMAIN owed \cup ({k} \ Waiting(lines, waits)),
                 \A j \in DOMAIN ow2 : ow2[j] \in [done: BOOLEAN, at: 0..MaxPos],
                 stale' \subseteq stale \cup ({k} \ Waiting(lines, waits)),
                 stale' \cap DOMAIN ow2 = {},
                 LongStays => SentStays(f, lines', stale')
          PROVE  IInv'
      <3>1. Agrees(f, lines', ow2, waits, stale', settled')
        <4>1. Agrees(f, [lines EXCEPT ![k] = line], ow2, waits, stale', settled)
          BY <1>3, <2>1, <2>6, ChangeAgrees
        <4> QED
          BY <1>1, <4>1
      <3>2. QueueFits(lines', ow2, waits, stale', nextK')
        <4>1. DOMAIN ow2 \subseteq {j \in 1 .. (nextK - 1) : waits = 0 \/ j < waits}
          BY <1>3, <1>4, <2>5, <2>6 DEF Holds
        <4>2. \A j \in DOMAIN ow2 : ow2[j].done <=> j \notin DOMAIN lines
          <5>1. \A j \in DOMAIN ow2 : ow2[j].done <=> j \in DonesOf(owed)
            BY <2>6 DEF DonesOf
          <5>2. \A j \in DOMAIN owed : j \in DonesOf(owed) <=> j \notin DOMAIN lines
            BY <1>4 DEF DonesOf
          <5> QED
            BY <2>4, <2>6, <5>1, <5>2
        <4>3. stale' \subseteq DOMAIN lines' \ Waiting(lines', waits)
          BY <1>4, <1>5, <1>6, <2>6
        <4> QED
          BY <1>1, <1>3, <1>4, <1>5, <2>6, <4>1, <4>2, <4>3 DEF QueueFits
      <3>3. f.marks + Cardinality(DOMAIN ow2 \ DonesOf(ow2)) <= changes'
        <4> DEFINE A == DOMAIN owed \ DonesOf(owed)
                   B == DOMAIN ow2 \ DonesOf(ow2)
        <4>1. B \in SUBSET (A \cup {k})
          BY <2>6
        <4>2. IsFiniteSet(A) /\ Cardinality(A) \in Nat /\ f.marks \in Nat
              /\ f.marks + Cardinality(A) <= changes
          BY <2>1, <2>3
        <4> HIDE DEF A, B
        <4>3. IsFiniteSet(A \cup {k}) /\ Cardinality(A \cup {k}) <= Cardinality(A) + 1
              /\ Cardinality(A \cup {k}) \in Nat
          <5>1. /\ IsFiniteSet(A \cup {k})
                /\ Cardinality(A \cup {k}) = IF k \in A THEN Cardinality(A) ELSE Cardinality(A) + 1
            BY <4>2, FS_AddElement
          <5>2. Cardinality(A \cup {k}) \in Nat
            BY <5>1, FS_CardinalityType
          <5> QED
            BY <4>2, <5>1, <5>2
        <4>4. IsFiniteSet(B) /\ Cardinality(B) <= Cardinality(A \cup {k}) /\ Cardinality(B) \in Nat
          BY <4>1, <4>3, FS_Subset, FS_CardinalityType
        <4>5. f.marks + Cardinality(B) <= changes'
          BY <1>1, <1>3, <4>2, <4>3, <4>4
        <4> QED
          BY <4>5 DEF B
      <3>4. home' = home /\ dir' = dir
        BY <1>1
      <3> QED
        BY <1>7, <1>8, <1>9, <1>11, <2>2, <2>6, <3>1, <3>2, <3>3, <3>4, RetryStep
    \* A line neither waiting nor owed a copy is marked sent on disk as it is here.
    <2>7. ASSUME LongStays, k \notin Waiting(lines, waits), k \notin DOMAIN owed,
                 lines[k].sent, lines[k].ver \notin Long
          PROVE  f.lines[k].sent
      <3>1. CASE k \in stale
        BY <2>1, <2>7, <3>1 DEF SentStays
      <3>2. CASE k \notin stale
        <4>1. k \in DOMAIN f.lines \ (DOMAIN owed \cup stale)
          BY <2>1, <2>7, <3>2 DEF Agrees
        <4>2. lines[k] = [f.lines[k] EXCEPT !.base = Max({f.lines[k].base} \cup DoneAt(f, AtOf(owed), k))]
          BY <2>1, <4>1 DEF Agrees, WithDones, AsRead
        <4>3. \A l, b : [l EXCEPT !.base = b].sent = l.sent
          OBVIOUS
        <4> QED
          BY <2>7, <4>2, <4>3
      <3> QED BY <3>1, <3>2
    <2>8. CASE ~onDisk /\ UNCHANGED <<spent, stale>> /\ Retry(lines', owed, waits)
      <3>1. k \in Waiting(lines, waits) /\ stale' = stale /\ k \notin stale
        BY <1>4, <1>11, <2>5, <2>8
      <3>2. LongStays => SentStays(f, lines', stale')
        BY <1>4, <1>5, <2>1, <3>1 DEF SentStays
      <3> QED
        BY <1>4, <2>6, <2>8, <3>1, <3>2
    <2>9. CASE onDisk /\ line.ver \in Long /\ stale' = stale \cup {k} /\ Retry(lines', dropped, waits)
      <3>1. /\ DOMAIN dropped = DOMAIN owed \ {k}
            /\ \A j \in DOMAIN owed \ {k} : dropped[j] = owed[j]
        BY DEF Restrict
      <3> HIDE DEF dropped
      <3>2. DonesOf(dropped) = DonesOf(owed) /\ \A j \in DonesOf(owed) : dropped[j] = owed[j]
        BY <2>4, <3>1 DEF DonesOf
      <3>3. LongStays => SentStays(f, lines', stale')
        BY <1>4, <1>5, <2>1, <2>9 DEF SentStays
      <3>4. k \notin Waiting(lines, waits)
        BY <2>5, <2>9
      <3> QED
        BY <1>4, <2>6, <2>9, <3>1, <3>2, <3>3, <3>4
    <2>10. CASE onDisk /\ line.ver \notin Long /\ over /\ stale' = stale \cup {k}
                /\ Retry(lines', owed, waits)
      <3>1. k \notin Waiting(lines, waits) /\ k \notin DOMAIN owed
        BY <2>5, <2>10
      <3>2. ASSUME LongStays PROVE SentStays(f, lines', stale')
        <4>1. ASSUME NEW j \in stale', lines'[j].sent, lines'[j].ver \notin Long
              PROVE  f.lines[j].sent
          <5>1. CASE j # k
            BY <1>4, <1>5, <2>1, <2>10, <3>2, <4>1, <5>1 DEF SentStays
          <5>2. CASE j = k
            <6>1. line.sent /\ line.ver \notin Long
              BY <1>5, <4>1, <5>2
            <6>2. lines[k].sent
              BY <1>4, <2>10, <6>1 DEF MarksSent
            <6>3. lines[k].ver \notin Long
              BY <1>4, <3>2, <6>1 DEF LongStays, Line
            <6> QED
              BY <2>7, <3>1, <3>2, <5>2, <6>2, <6>3
          <5> QED BY <5>1, <5>2
        <4> QED
          BY <4>1 DEF SentStays
      <3> QED
        BY <1>4, <2>6, <2>10, <3>1, <3>2
    <2>11. CASE onDisk /\ stale' = stale \ {k} /\ Retry(lines', added, waits)
      <3>1. /\ DOMAIN added = DOMAIN owed \cup {k}
            /\ \A j \in DOMAIN owed : j # k => added[j] = owed[j]
            /\ added[k] = [done |-> FALSE, at |-> 0]
        BY <1>4
      <3>2. added[k] \in [done: BOOLEAN, at: 0..MaxPos] /\ ~added[k].done
        BY <3>1, StoreAssumption
      <3> HIDE DEF added
      <3>3. DonesOf(added) = DonesOf(owed) /\ \A j \in DonesOf(owed) : added[j] = owed[j]
        <4>1. \A j \in DonesOf(owed) : j \in DOMAIN owed /\ j # k
          BY <2>4
        <4>2. \A j \in DonesOf(owed) : added[j] = owed[j]
          BY <3>1, <4>1
        <4>3. \A j \in DonesOf(added) : j \in DOMAIN owed /\ added[j] = owed[j]
          BY <3>1, <3>2 DEF DonesOf
        <4> QED
          BY <3>1, <4>1, <4>2, <4>3 DEF DonesOf
      <3>4. LongStays => SentStays(f, lines', stale')
        BY <1>4, <1>5, <2>1, <2>11 DEF SentStays
      <3>5. k \notin Waiting(lines, waits)
        BY <2>5, <2>11
      <3>6. \A j \in DOMAIN added : added[j] \in [done: BOOLEAN, at: 0..MaxPos]
        BY <1>4, <3>1, <3>2
      <3> QED
        BY <1>4, <2>6, <2>11, <3>1, <3>3, <3>4, <3>5, <3>6
    <2> QED
      BY <1>2, <2>8, <2>9, <2>10, <2>11
  <1> QED
    BY <1>10, <1>11

\* A re-mark, with the base it may raise.
LEMMA RemarkKeeps ==
    ASSUME IInv, NEW k \in DOMAIN lines, NEW cause \in Causes, NEW sent \in BOOLEAN,
           NEW at \in 0 .. MaxPos, Remark(k, cause, sent, at)
    PROVE  IInv'
  <1> DEFINE b == Max({lines[k].base, at})
             line == [lines[k] EXCEPT !.cause = cause, !.sent = sent, !.base = b]
  <1>1. Owe(k, line)
    BY DEF Remark
  <1>2. lines[k] \in Line
    BY Parts DEF QueueFits
  <1>3. MaxPos \in Nat /\ lines[k].base \in 0 .. MaxPos
    BY <1>2, StoreAssumption DEF Line
  <1>4. b \in 0 .. MaxPos
    <2> DEFINE S == {lines[k].base, at}
    <2>1. S \in SUBSET Nat /\ S # {} /\ \A s \in S : s <= MaxPos
      BY <1>3
    <2> HIDE DEF S
    <2>2. Max(S) \in Nat /\ Max(S) <= MaxPos
      BY <1>3, <2>1, MaxOf
    <2> QED
      BY <1>3, <2>2 DEF S
  <1> HIDE DEF b
  <1>5. line \in Line /\ line.w = lines[k].w /\ line.doc = lines[k].doc /\ line.ver = lines[k].ver
    BY <1>2, <1>4 DEF Line
  <1> HIDE DEF line
  <1> QED
    BY <1>1, <1>5, OweKeeps

\* A shift.
LEMMA RewriteKeeps ==
    ASSUME IInv, NEW k \in DOMAIN lines, NEW ver \in Versions, Rewrite(k, ver)
    PROVE  IInv'
  <1> DEFINE line == [lines[k] EXCEPT !.ver = ver]
  <1>1. Owe(k, line) /\ ver > lines[k].ver
    BY DEF Rewrite
  <1>2. lines[k] \in Line
    BY Parts DEF QueueFits
  <1>3. line \in Line /\ line.w = lines[k].w /\ line.doc = lines[k].doc /\ line.ver = ver
    BY <1>2 DEF Line
  <1> HIDE DEF line
  <1> QED
    BY <1>1, <1>3, OweKeeps

\* A line raised behind a done is a line, of the same write.
LEMMA RaisedIs ==
    ASSUME NEW l \in Line, NEW doc, NEW at \in 0 .. MaxPos
    PROVE  /\ Raised(l, doc, at) \in Line
           /\ Raised(l, doc, at).w = l.w /\ Raised(l, doc, at).doc = l.doc
           /\ Raised(l, doc, at).sent = l.sent /\ Raised(l, doc, at).ver = l.ver
  <1>1. Raised(l, doc, at) = l \/ Raised(l, doc, at) = [l EXCEPT !.base = at]
    BY DEF Raised
  <1> QED
    BY <1>1 DEF Line

\* A line of the document gets the greater base.
LEMMA RaisedBase ==
    ASSUME NEW l \in Line, NEW at \in 0 .. MaxPos
    PROVE  Raised(l, l.doc, at) = [l EXCEPT !.base = Max({l.base, at})]
  <1>1. MaxPos \in Nat /\ l.base \in 0 .. MaxPos /\ [l EXCEPT !.base = l.base] = l
    BY StoreAssumption DEF Line
  <1> DEFINE S == {l.base, at}
  <1>2. S \in SUBSET Nat /\ at \in S /\ l.base \in S
    BY <1>1
  <1>3. CASE l.base < at
    <2>1. Raised(l, l.doc, at) = [l EXCEPT !.base = at]
      BY <1>3 DEF Raised
    <2>2. \A s \in S : s <= at
      BY <1>1, <1>3
    <2> HIDE DEF S
    <2>3. Max(S) = at
      BY <1>2, <2>2, MaxIs
    <2> QED
      BY <2>1, <2>3 DEF S
  <1>4. CASE ~(l.base < at)
    <2>1. Raised(l, l.doc, at) = l
      BY <1>4 DEF Raised
    <2>2. \A s \in S : s <= l.base
      BY <1>1, <1>4
    <2> HIDE DEF S
    <2>3. Max(S) = l.base
      BY <1>2, <2>2, MaxIs
    <2> QED
      BY <1>1, <2>1, <2>3 DEF S
  <1> QED
    BY <1>3, <1>4

\* The queue's lines and what it owes once the line k left it.
LinesWithout(ls, k, at) ==
    [j \in DOMAIN ls \ {k} |-> IF j > k THEN Raised(ls[j], ls[k].doc, at) ELSE ls[j]]

WithDone(ow, k, at) ==
    [j \in DOMAIN ow \cup {k} |-> IF j = k THEN [done |-> TRUE, at |-> at] ELSE ow[j]]

\* Every line of the table is one.
AllLines(ls) == \A j \in DOMAIN ls : ls[j] \in Line

\* A table keeps the writes of another, line for line.
SameWrites(ls, ls2) ==
    \A j \in DOMAIN ls2 : /\ ls2[j].w = ls[j].w /\ ls2[j].doc = ls[j].doc
                         /\ ls2[j].sent = ls[j].sent /\ ls2[j].ver = ls[j].ver

\* The lines left are lines, each of its write and document.
LEMMA LinesWithoutIs ==
    ASSUME NEW ls, NEW k, NEW at, at \in 0 .. MaxPos, AllLines(ls)
    PROVE  /\ DOMAIN LinesWithout(ls, k, at) = DOMAIN ls \ {k}
           /\ AllLines(LinesWithout(ls, k, at))
           /\ SameWrites(ls, LinesWithout(ls, k, at))
  <1> DEFINE g == LinesWithout(ls, k, at)
  <1>1. /\ DOMAIN g = DOMAIN ls \ {k}
        /\ \A j \in DOMAIN ls \ {k} : g[j] = Raised(ls[j], ls[k].doc, at) \/ g[j] = ls[j]
    BY DEF LinesWithout
  <1> HIDE DEF g
  <1>2. ASSUME NEW j \in DOMAIN g
        PROVE  /\ g[j] \in Line /\ g[j].w = ls[j].w /\ g[j].doc = ls[j].doc
               /\ g[j].sent = ls[j].sent /\ g[j].ver = ls[j].ver
    <2>1. ls[j] \in Line
      BY <1>1 DEF AllLines
    <2>2. CASE g[j] = ls[j]
      BY <2>1, <2>2
    <2>3. CASE g[j] = Raised(ls[j], ls[k].doc, at)
      BY <2>1, <2>3, RaisedIs
    <2> QED
      BY <1>1, <2>2, <2>3
  <1> QED
    BY <1>1, <1>2 DEF AllLines, SameWrites, g

\* A done owed raises the lines of the file behind it as the queue raised its
\* own.
LEMMA DoneLines ==
    ASSUME NEW f, FileOK(f), NEW ls, NEW ow, NEW wt, NEW st, NEW nk, NEW se,
           QueueFits(ls, ow, wt, st, nk), Agrees(f, ls, ow, wt, st, se),
           NEW k \in DOMAIN ls, k \notin Waiting(ls, wt), NEW at, at \in 0 .. MaxPos,
           NEW j \in DOMAIN f.lines \ (DOMAIN ow \cup st), j # k
    PROVE  LinesWithout(ls, k, at)[j] = WithDones(f, WithDone(ow, k, at), j)
  <1> DEFINE ow2 == WithDone(ow, k, at)
             D == DonesOf(ow)
             b0 == f.lines[j].base
             was == DoneAt(f, AtOf(ow), j)
             now == DoneAt(f, AtOf(ow2), j)
  <1>1. /\ DOMAIN f.lines = (DOMAIN ls \ Waiting(ls, wt)) \cup D
        /\ \A i \in DOMAIN f.lines \cap DOMAIN ls : f.lines[i].doc = ls[i].doc
        /\ ls[j] = AsRead(f, AtOf(ow), j)
    BY DEF Agrees, WithDones
  <1>2. j \in DOMAIN ls /\ D \subseteq DOMAIN ow /\ k \in DOMAIN f.lines /\ k \notin D
        /\ \A i \in DOMAIN ls : ls[i] \in Line /\ i \in Nat
    BY <1>1 DEF DonesOf, QueueFits
  <1>3. /\ DOMAIN ow2 = DOMAIN ow \cup {k} /\ ow2[k] = [done |-> TRUE, at |-> at]
        /\ \A i \in DOMAIN ow : i # k => ow2[i] = ow[i]
    BY DEF WithDone
  <1>4. DonesOf(ow2) = D \cup {k}
    <2>1. ow2[k].done
      BY <1>3
    <2> HIDE DEF ow2
    <2> QED
      BY <1>3, <2>1 DEF DonesOf
  <1>5. /\ DOMAIN AtOf(ow) = D /\ \A i \in D : AtOf(ow)[i] = ow[i].at
        /\ DOMAIN AtOf(ow2) = D \cup {k} /\ AtOf(ow2)[k] = at
        /\ \A i \in D : AtOf(ow2)[i] = ow[i].at
    <2> HIDE DEF ow2
    <2>1. ow2[k].at = at
      BY <1>3
    <2> QED
      BY <1>2, <1>3, <1>4, <2>1 DEF AtOf
  <1>6. D \subseteq DOMAIN f.lines
    BY <1>1
  <1>7. \A i \in D : ow[i].at \in 0 .. MaxPos
    BY DEF QueueFits, DonesOf
  <1>8. f.lines[j] \in Line /\ b0 \in 0 .. MaxPos /\ MaxPos \in Nat
    BY StoreAssumption DEF FileOK, Line
  <1>9. was \subseteq 0 .. MaxPos
    BY <1>5, <1>7 DEF DoneAt
  <1>10. now = IF k < j /\ ls[k].doc = ls[j].doc THEN was \cup {at} ELSE was
    <2>0. f.lines[k].doc = ls[k].doc /\ f.lines[j].doc = ls[j].doc
      BY <1>1, <1>2
    <2> HIDE DEF ow2
    <2>1. \A x : x \in was <=> \E i \in D : i < j /\ f.lines[i].doc = f.lines[j].doc /\ x = ow[i].at
      BY <1>5, <1>6 DEF DoneAt
    <2>2. \A x : x \in now <=> \E i \in D \cup {k} : i < j /\ f.lines[i].doc = f.lines[j].doc
                                                       /\ x = AtOf(ow2)[i]
      BY <1>2, <1>5, <1>6 DEF DoneAt
    <2> HIDE DEF was, now
    <2>3. \A x : x \in now <=> \/ x \in was
                               \/ k < j /\ ls[k].doc = ls[j].doc /\ x = at
      BY <1>5, <2>0, <2>1, <2>2
    <2> QED
      BY <2>3
  <1> HIDE DEF ow2, was, now, b0
  <1> DEFINE b1 == Max({b0} \cup was)
  <1>11. b1 \in 0 .. MaxPos
    <2> DEFINE S == {b0} \cup was
    <2>1. \A s \in S : s \in 0 .. MaxPos
      BY <1>8, <1>9
    <2>2. S # {} /\ MaxPos \in Nat
      BY <1>8
    <2> HIDE DEF S
    <2>3. S \in SUBSET Nat /\ \A s \in S : s <= MaxPos
      BY <2>1, <2>2
    <2>4. Max(S) \in Nat /\ Max(S) <= MaxPos
      BY <2>2, <2>3, MaxOf
    <2> QED
      BY <2>2, <2>4 DEF S
  <1>12. ls[j] = [f.lines[j] EXCEPT !.base = b1]
    BY <1>1 DEF AsRead, b0, was
  <1>13. WithDones(f, ow2, j) = [f.lines[j] EXCEPT !.base = Max({b0} \cup now)]
    BY DEF WithDones, AsRead, b0, now
  <1> HIDE DEF b1
  <1>14. ls[j] \in Line /\ ls[j].base = b1 /\ ls[j].doc = f.lines[j].doc
    BY <1>8, <1>11, <1>12, RaisedLine
  <1>15. CASE k < j /\ ls[k].doc = ls[j].doc
    <2>1. LinesWithout(ls, k, at)[j] = [ls[j] EXCEPT !.base = Max({b1, at})]
      <3>1. LinesWithout(ls, k, at)[j] = Raised(ls[j], ls[k].doc, at)
        BY <1>2, <1>15 DEF LinesWithout
      <3>2. Raised(ls[j], ls[k].doc, at) = [ls[j] EXCEPT !.base = Max({ls[j].base, at})]
        BY <1>14, <1>15, RaisedBase
      <3> QED
        BY <1>14, <3>1, <3>2
    <2>2. Max({b0} \cup now) = Max({b1, at})
      <3> DEFINE bases == {b0} \cup was
                 more == {at}
      <3>1. bases \in SUBSET (0 .. MaxPos) /\ bases # {}
        BY <1>8, <1>9
      <3>4. more \in SUBSET (0 .. MaxPos) /\ MaxPos \in Nat
        BY <1>8
      <3>2. {b0} \cup now = bases \cup more /\ {b1, at} = {Max(bases)} \cup more
        BY <1>10, <1>15 DEF b1
      <3> HIDE DEF bases, more
      <3>3. Max({Max(bases)} \cup more) = Max(bases \cup more)
        <4> DEFINE A == {Max(bases)} \cup more
                   B == bases \cup more
        <4>1. A = {Max(bases)} \cup more /\ B = bases \cup more
          OBVIOUS
        <4> HIDE DEF A, B
        <4>2. Max(A) = Max(B)
          <5>0. \A t \in more : t \in Nat /\ t <= MaxPos
            BY <3>4
          <5>1. bases \in SUBSET Nat /\ \A s \in bases : s <= MaxPos
            BY <3>1, <3>4
          <5>2. Max(bases) \in bases /\ Max(bases) \in Nat /\ \A s \in bases : s <= Max(bases)
            BY <3>1, <3>4, <5>1, MaxOf
          <5>3. A \in SUBSET Nat /\ B \in SUBSET Nat /\ A # {}
            BY <4>1, <5>0, <5>1, <5>2
          <5>4. (\A x \in A : x <= MaxPos) /\ \A y \in B : y <= MaxPos
            BY <4>1, <5>0, <5>1, <5>2
          <5>5. \A x \in A : \E y \in B : x <= y
            BY <4>1, <5>2, <5>3
          <5>6. \A y \in B : \E x \in A : y <= x
            BY <4>1, <5>2, <5>3
          <5> QED
            BY <3>4, <5>3, <5>4, <5>5, <5>6, SameMax
        <4> QED
          BY <4>1, <4>2
      <3> QED
        BY <3>2, <3>3
    <2> DEFINE b2 == Max({b1, at})
    <2> HIDE DEF b2
    <2>3. [ls[j] EXCEPT !.base = b2] = [f.lines[j] EXCEPT !.base = b2]
      BY <1>8, <1>12 DEF Line
    <2> QED
      BY <1>13, <2>1, <2>2, <2>3 DEF ow2, b2
  <1>16. CASE ~(k < j /\ ls[k].doc = ls[j].doc)
    <2>1. now = was
      BY <1>10, <1>16
    <2>2. LinesWithout(ls, k, at)[j] = ls[j]
      <3>1. CASE j > k
        <4>1. ls[j].doc # ls[k].doc
          BY <1>16, <3>1
        <4>2. LinesWithout(ls, k, at)[j] = Raised(ls[j], ls[k].doc, at)
          BY <1>2, <3>1 DEF LinesWithout
        <4> QED
          BY <4>1, <4>2 DEF Raised
      <3>2. CASE ~(j > k)
        BY <1>2, <3>2 DEF LinesWithout
      <3> QED BY <3>1, <3>2
    <2> QED
      BY <1>12, <1>13, <2>1, <2>2 DEF ow2, b1
  <1> QED
    BY <1>15, <1>16

\* The queue and its file agree once a line of the file owes its done.
LEMMA DoneAgrees ==
    ASSUME NEW f, FileOK(f), NEW ls, NEW ow, NEW wt, NEW st, NEW nk, NEW se,
           QueueFits(ls, ow, wt, st, nk), Agrees(f, ls, ow, wt, st, se),
           NEW k \in DOMAIN ls, k \notin Waiting(ls, wt), NEW at, at \in 0 .. MaxPos
    PROVE  /\ QueueFits(LinesWithout(ls, k, at), WithDone(ow, k, at), wt, st \ {k}, nk)
           /\ Agrees(f, LinesWithout(ls, k, at), WithDone(ow, k, at), wt, st \ {k}, se \cup {ls[k].w})
           /\ DOMAIN WithDone(ow, k, at) \ DonesOf(WithDone(ow, k, at))
                 \subseteq DOMAIN ow \ DonesOf(ow)
  <1> DEFINE ls2 == LinesWithout(ls, k, at)
             ow2 == WithDone(ow, k, at)
             st2 == st \ {k}
             se2 == se \cup {ls[k].w}
             D == DonesOf(ow)
  <1>1. /\ DOMAIN ls \subseteq 1 .. (nk - 1) /\ \A j \in DOMAIN ls : ls[j] \in Line
        /\ DOMAIN ow \subseteq {j \in 1 .. (nk - 1) : wt = 0 \/ j < wt}
        /\ \A j \in DOMAIN ow : ow[j] \in [done: BOOLEAN, at: 0..MaxPos]
        /\ \A j \in DOMAIN ow : ow[j].done <=> j \notin DOMAIN ls
        /\ wt \in 0 .. nk /\ nk \in Nat \ {0}
        /\ st \subseteq DOMAIN ls \ Waiting(ls, wt) /\ st \cap DOMAIN ow = {}
    BY DEF QueueFits
  <1>2. DOMAIN ls2 = DOMAIN ls \ {k} /\ AllLines(ls2) /\ SameWrites(ls, ls2)
    <2>1. AllLines(ls)
      BY <1>1 DEF AllLines
    <2> QED
      BY <2>1, LinesWithoutIs
  <1>3. /\ DOMAIN ow2 = DOMAIN ow \cup {k} /\ ow2[k] = [done |-> TRUE, at |-> at]
        /\ \A i \in DOMAIN ow : i # k => ow2[i] = ow[i]
    BY DEF WithDone
  <1>4. /\ DOMAIN f.lines = (DOMAIN ls \ Waiting(ls, wt)) \cup D
        /\ \A i \in DOMAIN f.lines \cap DOMAIN ls :
              f.lines[i].w = ls[i].w /\ f.lines[i].doc = ls[i].doc
        /\ \A i \in D : f.lines[i].w \in se
    BY DEF Agrees
  <1>5. ASSUME NEW j \in DOMAIN f.lines \ (DOMAIN ow2 \cup st2) PROVE ls2[j] = WithDones(f, ow2, j)
    <2>1. j \in DOMAIN f.lines \ (DOMAIN ow \cup st) /\ j # k
      BY <1>3
    <2> QED
      BY <2>1, DoneLines
  <1>6. ow2[k].done /\ ow2[k] \in [done: BOOLEAN, at: 0..MaxPos]
    BY <1>3
  <1> HIDE DEF ls2, ow2
  <1>7. DonesOf(ow2) = D \cup {k} /\ k \notin D
    BY <1>1, <1>3, <1>6 DEF DonesOf
  <1>8. Waiting(ls2, wt) = Waiting(ls, wt)
    BY <1>2 DEF Waiting
  <1>9. QueueFits(ls2, ow2, wt, st2, nk)
    <2>1. DOMAIN ls2 \subseteq 1 .. (nk - 1) /\ \A j \in DOMAIN ls2 : ls2[j] \in Line
      BY <1>1, <1>2 DEF AllLines
    <2>2. DOMAIN ow2 \subseteq {j \in 1 .. (nk - 1) : wt = 0 \/ j < wt}
      BY <1>1, <1>3 DEF Waiting
    <2>3. \A j \in DOMAIN ow2 : ow2[j] \in [done: BOOLEAN, at: 0..MaxPos]
      BY <1>1, <1>3, <1>6
    <2>4. \A j \in DOMAIN ow2 : ow2[j].done <=> j \notin DOMAIN ls2
      BY <1>1, <1>2, <1>3, <1>6
    <2>5. st2 \subseteq DOMAIN ls2 \ Waiting(ls2, wt) /\ st2 \cap DOMAIN ow2 = {}
      BY <1>1, <1>2, <1>3, <1>8
    <2> QED
      BY <1>1, <2>1, <2>2, <2>3, <2>4, <2>5 DEF QueueFits
  <1>10. Agrees(f, ls2, ow2, wt, st2, se2)
    <2>1. DOMAIN f.lines = (DOMAIN ls2 \ Waiting(ls2, wt)) \cup DonesOf(ow2)
      BY <1>2, <1>4, <1>7, <1>8
    <2>2. \A i \in DOMAIN f.lines \cap DOMAIN ls2 :
              f.lines[i].w = ls2[i].w /\ f.lines[i].doc = ls2[i].doc
      BY <1>2, <1>4 DEF SameWrites
    <2>3. \A i \in DonesOf(ow2) : f.lines[i].w \in se2
      BY <1>4, <1>7
    <2> QED
      BY <1>5, <2>1, <2>2, <2>3 DEF Agrees
  <1>11. DOMAIN ow2 \ DonesOf(ow2) \subseteq DOMAIN ow \ D
    BY <1>3, <1>7
  <1> QED
    BY <1>9, <1>10, <1>11 DEF ls2, ow2

\* And once a line still waiting for its first copy leaves: no line behind it
\* is on disk.
LEMMA DroppedAgrees ==
    ASSUME NEW f, FileOK(f), NEW ls, NEW ow, NEW wt, NEW st, NEW nk, NEW se,
           QueueFits(ls, ow, wt, st, nk), Agrees(f, ls, ow, wt, st, se),
           NEW k \in DOMAIN ls, k \in Waiting(ls, wt), NEW at, at \in 0 .. MaxPos
    PROVE  /\ QueueFits(LinesWithout(ls, k, at), ow, wt, st \ {k}, nk)
           /\ Agrees(f, LinesWithout(ls, k, at), ow, wt, st \ {k}, se \cup {ls[k].w})
  <1> DEFINE ls2 == LinesWithout(ls, k, at)
             st2 == st \ {k}
             se2 == se \cup {ls[k].w}
             D == DonesOf(ow)
  <1>1. /\ DOMAIN ls \subseteq 1 .. (nk - 1) /\ \A j \in DOMAIN ls : ls[j] \in Line
        /\ DOMAIN ow \subseteq {j \in 1 .. (nk - 1) : wt = 0 \/ j < wt}
        /\ \A j \in DOMAIN ow : ow[j] \in [done: BOOLEAN, at: 0..MaxPos]
        /\ \A j \in DOMAIN ow : ow[j].done <=> j \notin DOMAIN ls
        /\ wt \in 0 .. nk /\ nk \in Nat \ {0}
        /\ st \subseteq DOMAIN ls \ Waiting(ls, wt) /\ st \cap DOMAIN ow = {}
    BY DEF QueueFits
  <1>2. DOMAIN ls2 = DOMAIN ls \ {k} /\ AllLines(ls2) /\ SameWrites(ls, ls2)
    <2>1. AllLines(ls)
      BY <1>1 DEF AllLines
    <2> QED
      BY <2>1, LinesWithoutIs
  <1>3. /\ DOMAIN f.lines = (DOMAIN ls \ Waiting(ls, wt)) \cup D
        /\ \A i \in DOMAIN f.lines \cap DOMAIN ls :
              f.lines[i].w = ls[i].w /\ f.lines[i].doc = ls[i].doc
        /\ \A i \in D : f.lines[i].w \in se
        /\ \A i \in DOMAIN f.lines \ (DOMAIN ow \cup st) : ls[i] = WithDones(f, ow, i)
    BY DEF Agrees
  <1>4. k \notin DOMAIN ow /\ D \subseteq DOMAIN ow
    BY <1>1 DEF Waiting, DonesOf
  <1> HIDE DEF ls2
  <1>5. Waiting(ls2, wt) = Waiting(ls, wt) \ {k}
    BY <1>2 DEF Waiting
  <1>6. \A j \in DOMAIN ls \ Waiting(ls, wt) : ~(j > k) /\ j # k
    BY <1>1 DEF Waiting
  <1>7. QueueFits(ls2, ow, wt, st2, nk)
    <2>1. DOMAIN ls2 \subseteq 1 .. (nk - 1) /\ \A j \in DOMAIN ls2 : ls2[j] \in Line
      BY <1>1, <1>2 DEF AllLines
    <2>2. \A j \in DOMAIN ow : ow[j].done <=> j \notin DOMAIN ls2
      BY <1>1, <1>2, <1>4
    <2>3. st2 \subseteq DOMAIN ls2 \ Waiting(ls2, wt) /\ st2 \cap DOMAIN ow = {}
      BY <1>1, <1>2, <1>5
    <2> QED
      BY <1>1, <2>1, <2>2, <2>3 DEF QueueFits
  <1>8. Agrees(f, ls2, ow, wt, st2, se2)
    <2>1. DOMAIN f.lines = (DOMAIN ls2 \ Waiting(ls2, wt)) \cup D
      BY <1>2, <1>3, <1>5
    <2>2. \A i \in DOMAIN f.lines \cap DOMAIN ls2 :
              f.lines[i].w = ls2[i].w /\ f.lines[i].doc = ls2[i].doc
      BY <1>2, <1>3 DEF SameWrites
    <2>3. ASSUME NEW i \in DOMAIN f.lines \ (DOMAIN ow \cup st2) PROVE ls2[i] = WithDones(f, ow, i)
      <3>1. i \in DOMAIN ls \ Waiting(ls, wt)
        BY <1>3, <1>4
      <3>2. i # k /\ ~(i > k)
        BY <1>6, <3>1
      <3>3. i \notin st /\ ls2[i] = ls[i]
        BY <3>1, <3>2 DEF ls2, LinesWithout
      <3> QED
        BY <1>3, <3>3
    <2> QED
      BY <1>3, <2>1, <2>2, <2>3 DEF Agrees
  <1> QED
    BY <1>7, <1>8 DEF ls2

\* A line kept or dropped leaves the queue; the compaction starts the file over
\* where none is left.
LEMMA DoneKeeps ==
    ASSUME IInv, NEW k \in DOMAIN lines, NEW at \in 0 .. MaxPos, Done(k, at)
    PROVE  IInv'
  <1> DEFINE ow == IF home \in Files /\ Holds(k) THEN WithDone(owed, k, at) ELSE owed
             compacts == /\ home \in Files /\ lines' = Empty
                         /\ file' = [file EXCEPT ![home] = Fresh]
                         /\ left' = [left EXCEPT ![home] = {}]
                         /\ owed' = Empty /\ waits' = 0 /\ spent' = 0
                         /\ UNCHANGED <<copied, refusals>>
  <1>1. /\ settled' = settled \cup {lines[k].w}
        /\ stale' = stale \ {k}
        /\ lines' = LinesWithout(lines, k, at)
        /\ (Retry(lines', ow, waits) /\ UNCHANGED spent) \/ compacts
        /\ UNCHANGED <<dir, home, nextK, touched, answered, cut, writes, changes, closes>>
    BY DEF Done, countVars, LinesWithout, WithDone
  <1>2. /\ RestOK /\ OrdinalNames /\ QueueOK /\ QueueFits(lines, owed, waits, stale, nextK)
        /\ changes \in Nat /\ nextK \in Nat /\ nextK >= 1
        /\ FilesOK /\ Marked /\ TailsWhere /\ TailsReady
    BY Parts
  <1>3. /\ DOMAIN lines \subseteq 1 .. (nextK - 1) /\ \A j \in DOMAIN lines : lines[j] \in Line
        /\ waits \in 0 .. nextK
        /\ stale \subseteq DOMAIN lines
    BY <1>2 DEF QueueFits
  <1>4. /\ DOMAIN lines' = DOMAIN lines \ {k}
        /\ \A j \in DOMAIN lines \ {k} : /\ lines'[j] \in Line /\ lines'[j].w = lines[j].w
                                         /\ lines'[j].sent = lines[j].sent
                                         /\ lines'[j].ver = lines[j].ver
    <2>1. AllLines(lines)
      BY <1>3 DEF AllLines
    <2>2. DOMAIN lines' = DOMAIN lines \ {k} /\ AllLines(lines') /\ SameWrites(lines, lines')
      BY <1>1, <2>1, LinesWithoutIs
    <2> QED
      BY <2>2 DEF AllLines, SameWrites
  <1>5. RestOK'
    <2>1. spent' \in 0 .. changes'
      BY <1>1, <1>2 DEF RestOK
    <2>2. home # "none"
      BY <1>2, EmptyDomain DEF RestOK
    <2> QED
      BY <1>1, <1>2, <2>1, <2>2 DEF RestOK
  <1>6. OrdinalNames'
    BY <1>1, <1>2, <1>4 DEF OrdinalNames
  <1>7. changes <= changes' /\ nextK <= nextK' /\ settled \subseteq settled' /\ cut' = cut
    BY <1>1, <1>2
  <1>8. CASE home \notin Files
    <2>1. owed = Empty /\ waits = 0 /\ stale = {}
      BY <1>2, <1>8 DEF QueueOK
    <2>2. Retry(lines', owed, waits)
      BY <1>1, <1>8
    <2>3. owed' = Empty /\ waits' = 0 /\ stale' = {} /\ UNCHANGED <<file, left, copied>>
      BY <1>1, <1>8, <2>1, <2>2 DEF Retry
    <2>4. QueueFits(lines', Empty, 0, {}, nextK')
      BY <1>1, <1>2, <1>3, <1>4, EmptyDomain DEF QueueFits
    <2> QED
      BY <1>1, <1>5, <1>6, <1>7, <1>8, <2>3, <2>4, MemoryStep
  <1>9. CASE home \in Files /\ Retry(lines', ow, waits)
    <2> DEFINE f == file[home]
    <2>1. /\ Agrees(f, lines, owed, waits, stale, settled)
          /\ f.marks + Cardinality(DOMAIN owed \ DonesOf(owed)) <= changes
          /\ LongStays => SentStays(f, lines, stale)
          /\ \A x \in left[home] : InOrder(x, lines, nextK)
          /\ FileOK(f)
      BY <1>2, <1>9, OwedCounted DEF FilesOK
    <2>2. \A x \in left[home] : InOrder(x, lines', nextK')
      BY <1>1, <1>4, <2>1 DEF InOrder
    <2>3. LongStays => SentStays(f, lines', stale')
      BY <1>1, <1>3, <1>4, <2>1 DEF SentStays
    <2>4. k \in Waiting(lines, waits) <=> ~Holds(k)
      BY <1>2, <1>3 DEF Waiting, Holds
    <2>5. /\ QueueFits(lines', ow, waits, stale', nextK')
          /\ Agrees(f, lines', ow, waits, stale', settled')
          /\ DOMAIN ow \ DonesOf(ow) \subseteq DOMAIN owed \ DonesOf(owed)
      <3>1. CASE Holds(k)
        <4>1. /\ QueueFits(LinesWithout(lines, k, at), WithDone(owed, k, at), waits, stale \ {k}, nextK)
              /\ Agrees(f, LinesWithout(lines, k, at), WithDone(owed, k, at), waits, stale \ {k},
                        settled \cup {lines[k].w})
              /\ DOMAIN WithDone(owed, k, at) \ DonesOf(WithDone(owed, k, at))
                    \subseteq DOMAIN owed \ DonesOf(owed)
          BY <1>2, <2>1, <2>4, <3>1, DoneAgrees
        <4> QED
          BY <1>1, <1>9, <3>1, <4>1
      <3>2. CASE ~Holds(k)
        <4>1. /\ QueueFits(LinesWithout(lines, k, at), owed, waits, stale \ {k}, nextK)
              /\ Agrees(f, LinesWithout(lines, k, at), owed, waits, stale \ {k},
                        settled \cup {lines[k].w})
          BY <1>2, <2>1, <2>4, <3>2, DroppedAgrees
        <4> QED
          BY <1>1, <3>2, <4>1
      <3> QED BY <3>1, <3>2
    <2> HIDE DEF ow
    <2>6. f.marks + Cardinality(DOMAIN ow \ DonesOf(ow)) <= changes'
      <3> DEFINE A == DOMAIN owed \ DonesOf(owed)
                 B == DOMAIN ow \ DonesOf(ow)
      <3>1. A \in SUBSET (1 .. (nextK - 1)) /\ B \in SUBSET A
        BY <1>2, <2>5 DEF QueueFits
      <3>2. f.marks + Cardinality(A) <= changes /\ f.marks \in Nat
        BY <2>1 DEF FileOK
      <3> HIDE DEF A, B
      <3>3. IsFiniteSet(A)
        <4>1. IsFiniteSet(1 .. (nextK - 1))
          BY <1>2, FS_Interval
        <4> QED
          BY <3>1, <4>1, FS_Subset
      <3>4. IsFiniteSet(B) /\ Cardinality(B) <= Cardinality(A)
        BY <3>1, <3>3, FS_Subset
      <3>5. Cardinality(A) \in Nat /\ Cardinality(B) \in Nat
        BY <3>3, <3>4, FS_CardinalityType
      <3>6. f.marks + Cardinality(B) <= changes'
        BY <1>1, <1>2, <3>2, <3>4, <3>5
      <3> QED
        BY <3>6 DEF B
    <2>7. home' = home /\ dir' = dir
      BY <1>1
    <2> QED
      BY <1>5, <1>6, <1>7, <1>9, <2>2, <2>3, <2>5, <2>6, <2>7, RetryStep
  <1>10. CASE compacts
    <2>1. Agrees(file[home], lines, owed, waits, stale, settled)
      BY <1>10, OwedCounted
    <2>2. DOMAIN lines = {k} /\ stale' = {}
      BY <1>1, <1>3, <1>4, <1>10, EmptyDomain
    <2>3. /\ DOMAIN file' = Files /\ DOMAIN left' = Files
          /\ file'[home] = Fresh /\ left'[home] = {}
          /\ \A n \in Files : n # home => file'[n] = file[n] /\ left'[n] = left[n]
      BY <1>2, <1>10 DEF FilesOK
    <2>4. FilesOK'
      BY <1>2, <2>3, FreshOK DEF FilesOK
    <2>5. QueueOK'
      BY <1>1, <1>2, <1>10, <2>2, EmptyDomain DEF QueueOK, QueueFits, Waiting
    <2>6. DOMAIN owed' \ DonesOf(owed') = {} /\ DonesOf(owed') = {}
      BY <1>10, EmptyDomain DEF DonesOf
    <2>7. Marked'
      <3>1. \A n \in Files : \A g \in {file'[n]} \cup left'[n] : g.marks <= changes'
        BY <1>1, <1>2, <2>3, FreshOK DEF Marked
      <3>2. file'[home].marks + Cardinality(DOMAIN owed' \ DonesOf(owed')) <= changes'
        BY <1>1, <1>2, <2>3, <2>6, FreshOK, FS_EmptySet
      <3> QED
        BY <1>1, <3>1, <3>2 DEF Marked
    <2>8. Agree'
      BY <1>1, <1>10, <2>2, <2>3, <2>6, FreshOK, EmptyDomain DEF Agree, Agrees, Waiting
    <2>9. TailsWhere' /\ TailsInOrder' /\ TailsReady'
      <3>1. TailsWhere'
        BY <1>1, <1>2, <2>3 DEF TailsWhere
      <3>2. TailsInOrder'
        BY <1>1, <2>3 DEF TailsInOrder
      <3>3. TailsReady'
        BY <1>1, <1>2, <2>3 DEF TailsReady
      <3> QED
        BY <3>1, <3>2, <3>3
    <2>10. StaleSent'
      BY <2>2 DEF StaleSent, SentStays
    <2>11. TailsKeep' /\ NoneLost'
      <3>1. TailsKeep /\ NoneLost
        BY DEF IInv
      <3>2. TailsKeep'
        <4>1. \A n \in Files : \A t \in left'[n] : Keeps(file'[n], t, settled' \cup cut')
          BY <1>1, <2>3, <3>1 DEF TailsKeep, Keeps
        <4> QED
          BY <4>1 DEF TailsKeep
      <3>3. ASSUME NEW w \in copied' \ (settled' \cup cut') PROVE \E n \in Files : Has(file'[n], w)
        <4>1. PICK n \in Files : Has(file[n], w)
          BY <1>1, <1>10, <3>1, <3>3 DEF NoneLost, OnDisk, Has
        <4>2. n # home
          <5>1. SUFFICES ASSUME n = home PROVE FALSE
            OBVIOUS
          <5>2. PICK i \in DOMAIN file[home].lines : file[home].lines[i].w = w
            BY <4>1, <5>1 DEF Has
          <5>3. i \in DOMAIN lines \/ i \in DonesOf(owed)
            BY <2>1, <5>2 DEF Agrees
          <5>4. w \in settled'
            BY <1>1, <2>1, <2>2, <5>2, <5>3 DEF Agrees
          <5> QED
            BY <3>3, <5>4
        <4> QED
          BY <2>3, <4>1, <4>2
      <3> QED
        BY <3>2, <3>3 DEF NoneLost, OnDisk, Has
    <2>12. Inv'
      BY <1>5, <1>6, <2>4, <2>5, <2>7, <2>8, <2>9 DEF Inv
    <2> QED
      BY <2>10, <2>11, <2>12 DEF IInv
  <1> QED
    BY <1>1, <1>8, <1>9, <1>10

-----------------------------------------------------------------------------
(* Renumbering, and what enters a file *)

\* Fresh ordinals number the lines: an interval from nk, one for each.
LEMMA RenamedIs ==
    ASSUME NEW ks \in SUBSET Nat, IsFiniteSet(ks), NEW nk \in Nat
    PROVE  /\ Cardinality(ks) \in Nat
           /\ DOMAIN Renamed(ks, nk) = nk .. (nk + Cardinality(ks) - 1)
           /\ \A j \in DOMAIN Renamed(ks, nk) : Renamed(ks, nk)[j] \in ks
           /\ \A k \in ks : \E j \in DOMAIN Renamed(ks, nk) : Renamed(ks, nk)[j] = k
  <1> DEFINE n == Cardinality(ks)
             g == Renamed(ks, nk)
  <1>1. n \in Nat
    BY FS_CardinalityType
  <1>2. /\ \A j, k \in ks : Rank(ks, j) = Rank(ks, k) => j = k
        /\ \A r \in 0 .. (n - 1) : \E k \in ks : Rank(ks, k) = r
    BY RankNumbers
  <1>3. \A k \in ks : Rank(ks, k) \in 0 .. (n - 1)
    BY RankGrows
  <1>4. /\ DOMAIN g = nk .. (nk + n - 1)
        /\ \A j \in DOMAIN g : g[j] = CHOOSE k \in ks : Rank(ks, k) = j - nk
    BY DEF Renamed, Rank
  <1> HIDE DEF n, g
  <1>5. ASSUME NEW j \in DOMAIN g PROVE g[j] \in ks /\ Rank(ks, g[j]) = j - nk
    <2>1. j - nk \in 0 .. (n - 1)
      BY <1>1, <1>4
    <2>2. \E k \in ks : Rank(ks, k) = j - nk
      BY <1>2, <2>1
    <2> QED
      BY <1>4, <2>2
  <1>6. ASSUME NEW k \in ks PROVE \E j \in DOMAIN g : g[j] = k
    <2> DEFINE j == nk + Rank(ks, k)
    <2>1. j \in DOMAIN g /\ j - nk = Rank(ks, k)
      BY <1>1, <1>3, <1>4
    <2>2. g[j] \in ks /\ Rank(ks, g[j]) = Rank(ks, k)
      BY <1>5, <2>1
    <2> QED
      BY <1>2, <2>1, <2>2
  <1> QED
    BY <1>1, <1>4, <1>5, <1>6 DEF n, g

\* A file's lines are finitely many.
LEMMA LinesFinite ==
    ASSUME NEW f, FileOK(f)
    PROVE  /\ DOMAIN f.lines \in SUBSET Nat /\ IsFiniteSet(DOMAIN f.lines)
           /\ Cardinality(DOMAIN f.lines) \in Nat
           /\ \A k \in DOMAIN f.lines : k \in Nat /\ k >= 1 /\ k <= f.named
  <1>1. f.named \in Nat /\ DOMAIN f.lines \in SUBSET (1 .. f.named)
    BY DEF FileOK
  <1>2. IsFiniteSet(1 .. f.named)
    BY <1>1, FS_Interval
  <1>3. IsFiniteSet(DOMAIN f.lines)
    BY <1>1, <1>2, FS_Subset
  <1> QED
    BY <1>1, <1>3, FS_CardinalityType

\* Every write of f is one of g.
Within(f, g) == \A w : Has(f, w) => Has(g, w)

\* The ordinals of a copy stand in a row from nk.
FromRow(c, nk) ==
    /\ \A k \in DOMAIN c.held : k \in Nat /\ k >= nk
    /\ \A j \in Nat, k \in DOMAIN c.held : j >= nk /\ j < k => j \in DOMAIN c.held

\* A file renumbered: each line under a fresh ordinal, no re-mark counted.
LEMMA RenumberingIs ==
    ASSUME NEW f, FileOK(f), NEW nk \in Nat, nk >= 1
    PROVE  LET c == Renumbering(f, nk)
               r == Read(f, c)
           IN  /\ DOMAIN c.done = DOMAIN f.lines /\ FromRow(c, nk)
               /\ \E N \in Nat : CopyFits(c, N)
               /\ FileOK(r) /\ DOMAIN r.lines = DOMAIN c.held /\ r.marks = f.marks
               /\ Within(f, r) /\ f.named <= r.named
               /\ \A k \in DOMAIN r.lines : k >= nk
               /\ IsFiniteSet(DOMAIN r.lines)
               /\ Cardinality(DOMAIN r.lines) = Cardinality(DOMAIN f.lines)
  <1> DEFINE c == Renumbering(f, nk)
             r == Read(f, c)
             ks == DOMAIN f.lines
             n == Cardinality(ks)
             new == Renamed(ks, nk)
             N == nk + n + f.named
  <1>1. /\ ks \in SUBSET Nat /\ IsFiniteSet(ks) /\ n \in Nat
        /\ \A k \in ks : k \in Nat /\ k >= 1 /\ k <= f.named
    BY LinesFinite
  <1>2. /\ DOMAIN new = nk .. (nk + n - 1)
        /\ \A j \in DOMAIN new : new[j] \in ks
        /\ \A k \in ks : \E j \in DOMAIN new : new[j] = k
    <2> HIDE DEF ks, n, new
    <2>1. /\ Cardinality(ks) \in Nat
          /\ DOMAIN Renamed(ks, nk) = nk .. (nk + Cardinality(ks) - 1)
          /\ \A j \in DOMAIN Renamed(ks, nk) : Renamed(ks, nk)[j] \in ks
          /\ \A k \in ks : \E j \in DOMAIN Renamed(ks, nk) : Renamed(ks, nk)[j] = k
      BY <1>1, RenamedIs
    <2> QED
      BY <2>1 DEF n, new
  <1>3. /\ DOMAIN c.held = DOMAIN new /\ \A j \in DOMAIN new : c.held[j] = f.lines[new[j]]
        /\ DOMAIN c.done = ks /\ \A k \in ks : c.done[k] = 0
    <2> HIDE DEF new
    <2> QED
      BY DEF Renumbering, Copy, new
  <1>4. f.named \in Nat /\ \A k \in ks : f.lines[k] \in Line
    BY DEF FileOK
  <1> HIDE DEF c, ks, n, new
  <1>5. N \in Nat /\ CopyFits(c, N)
    <2>1. N \in Nat
      BY <1>1, <1>4
    <2>2. DOMAIN c.held \subseteq 1 .. N /\ DOMAIN c.done \subseteq 1 .. N
      BY <1>1, <1>2, <1>3, <1>4
    <2>3. \A k \in DOMAIN c.held : c.held[k] \in Line
      BY <1>2, <1>3, <1>4
    <2>4. \A k \in DOMAIN c.done : c.done[k] \in 0 .. MaxPos
      BY <1>3, StoreAssumption
    <2> QED
      BY <2>1, <2>2, <2>3, <2>4 DEF CopyFits
  <1> HIDE DEF N
  <1>6. /\ DOMAIN r.lines = (DOMAIN f.lines \ DOMAIN c.done) \cup DOMAIN c.held
        /\ \A j \in DOMAIN c.held : r.lines[j] = c.held[j]
        /\ r.marks = f.marks + Cardinality(Spends(f, c))
    BY ReadIs, ZenonT(60)
  <1>7. FileOK(r) /\ f.named <= r.named
    BY <1>5, ReadOK
  <1> HIDE DEF r
  <1>8. DOMAIN r.lines = DOMAIN c.held
    BY <1>3, <1>6 DEF ks
  <1>9. Spends(f, c) = {}
    BY <1>3 DEF Spends, ks
  <1>10. r.marks = f.marks
    BY <1>6, <1>9, FS_EmptySet DEF FileOK
  <1>11. FromRow(c, nk)
    BY <1>1, <1>2, <1>3 DEF FromRow
  <1>12. Within(f, r)
    <2>1. ASSUME NEW w, Has(f, w) PROVE Has(r, w)
      <3>1. PICK k \in ks : f.lines[k].w = w
        BY <2>1 DEF Has, ks
      <3>2. PICK j \in DOMAIN new : new[j] = k
        BY <1>2
      <3>3. j \in DOMAIN r.lines /\ r.lines[j].w = w
        BY <1>3, <1>6, <1>8, <3>1, <3>2
      <3> QED
        BY <3>3 DEF Has
    <2> QED
      BY <2>1 DEF Within
  <1>13. IsFiniteSet(DOMAIN r.lines) /\ Cardinality(DOMAIN r.lines) = n
    <2>1. /\ IsFiniteSet(nk .. (nk + n - 1))
          /\ Cardinality(nk .. (nk + n - 1)) = IF nk > nk + n - 1 THEN 0 ELSE (nk + n - 1) - nk + 1
      BY <1>1, FS_Interval
    <2>2. Cardinality(nk .. (nk + n - 1)) = n
      BY <1>1, <2>1
    <2> QED
      BY <1>2, <1>3, <1>8, <2>1, <2>2
  <1>14. \A k \in DOMAIN r.lines : k >= nk
    BY <1>8, <1>11 DEF FromRow
  <1> QED
    BY <1>3, <1>5, <1>7, <1>8, <1>10, <1>11, <1>12, <1>13, <1>14 DEF r, c, ks, n

\* A copy that only adds lines, under ordinals the file does not have.
Adds(f, c) ==
    /\ \E N \in Nat : CopyFits(c, N)
    /\ DOMAIN c.done = {} /\ DOMAIN c.held \cap DOMAIN f.lines = {}

\* The file with the lines of such a copy has the lines of both.
Grown(f, c, r) ==
    /\ FileOK(r) /\ DOMAIN r.lines = DOMAIN f.lines \cup DOMAIN c.held
    /\ \A k \in DOMAIN f.lines : r.lines[k].w = f.lines[k].w
    /\ \A k \in DOMAIN c.held : r.lines[k] = c.held[k]
    /\ r.marks = f.marks /\ Within(f, r) /\ f.named <= r.named
    /\ r.named = f.named \/ r.named \in DOMAIN c.held

\* The reader of an adding copy.
LEMMA AddsIs ==
    ASSUME NEW f, FileOK(f), NEW c, Adds(f, c)
    PROVE  Grown(f, c, Read(f, c))
  <1> DEFINE r == Read(f, c)
  <1>1. PICK N \in Nat : CopyFits(c, N)
    BY DEF Adds
  <1>2. /\ DOMAIN r.lines = (DOMAIN f.lines \ DOMAIN c.done) \cup DOMAIN c.held
        /\ \A j \in DOMAIN c.held : r.lines[j] = c.held[j]
        /\ r.marks = f.marks + Cardinality(Spends(f, c))
    BY ReadIs, ZenonT(60)
  <1>3. /\ FileOK(r)
        /\ \A j \in DOMAIN f.lines \ (DOMAIN c.done \cup DOMAIN c.held) :
              /\ r.lines[j].w = f.lines[j].w
              /\ r.lines[j].doc = f.lines[j].doc
        /\ f.named <= r.named
        /\ r.named \in {f.named} \cup DOMAIN c.held \cup DOMAIN c.done
    BY <1>1, ReadOK
  <1> HIDE DEF r
  <1>4. DOMAIN c.done = {} /\ DOMAIN c.held \cap DOMAIN f.lines = {}
    BY DEF Adds
  <1>5. DOMAIN r.lines = DOMAIN f.lines \cup DOMAIN c.held
    BY <1>2, <1>4
  <1>6. \A k \in DOMAIN f.lines : r.lines[k].w = f.lines[k].w
    BY <1>3, <1>4
  <1>7. Spends(f, c) = {}
    BY <1>4 DEF Spends
  <1>8. r.marks = f.marks
    BY <1>2, <1>7, FS_EmptySet DEF FileOK
  <1>9. Within(f, r)
    BY <1>5, <1>6 DEF Within, Has
  <1>10. Grown(f, c, r)
    BY <1>2, <1>3, <1>4, <1>5, <1>6, <1>8, <1>9 DEF Grown
  <1> QED
    BY <1>10 DEF r

\* What of an adding copy may be left is a prefix of it.
LEMMA TornAdds ==
    ASSUME NEW f, FileOK(f), NEW c, Adds(f, c), NEW x \in Torn(c)
    PROVE  /\ Adds(f, x) /\ DOMAIN x.held \subseteq DOMAIN c.held
           /\ \A j \in DOMAIN c.held, k \in DOMAIN x.held : j < k => j \in DOMAIN x.held
  <1>1. PICK h \in Prefixes(DOMAIN c.held) : \E d \in Prefixes(DOMAIN c.done) :
            x = Copy(Restrict(c.held, h), Restrict(c.done, d))
    BY DEF Torn
  <1>2. PICK d \in Prefixes(DOMAIN c.done) : x = Copy(Restrict(c.held, h), Restrict(c.done, d))
    BY <1>1
  <1>3. PICK N \in Nat : CopyFits(c, N)
    BY DEF Adds
  <1>4. DOMAIN c.held \in SUBSET (Nat \ {0}) /\ DOMAIN c.done = {}
        /\ DOMAIN c.held \cap DOMAIN f.lines = {}
    BY <1>3 DEF CopyFits, Adds
  <1>5. /\ h \subseteq DOMAIN c.held
        /\ \A j \in DOMAIN c.held, k \in h : j < k => j \in h
    BY <1>4, PrefixIs
  <1>6. d \subseteq DOMAIN c.done
    BY DEF Prefixes
  <1>7. /\ DOMAIN x.held = h /\ \A k \in h : x.held[k] = c.held[k]
        /\ DOMAIN x.done = d
    BY <1>2, <1>5, <1>6 DEF Copy, Restrict
  <1>8. CopyFits(x, N)
    BY <1>3, <1>4, <1>5, <1>6, <1>7 DEF CopyFits
  <1> QED
    BY <1>4, <1>5, <1>6, <1>7, <1>8 DEF Adds

\* What of a renumbering may be left reads as a file too, counts no re-mark, and
\* keeps every write of the file but those it names done alone.
LEMMA TornRenumbered ==
    ASSUME NEW f, FileOK(f), NEW nk \in Nat, nk >= 1, NEW x \in Torn(Renumbering(f, nk))
    PROVE  /\ FileOK(Read(f, x)) /\ Read(f, x).marks = f.marks
           /\ Keeps(f, Read(f, x), DoneAlone(f, x))
  <1> DEFINE c == Renumbering(f, nk)
  <1>1. DOMAIN c.done = DOMAIN f.lines /\ \E N \in Nat : CopyFits(c, N)
    BY RenumberingIs
  <1>2. PICK N \in Nat : CopyFits(c, N)
    BY <1>1
  <1> HIDE DEF c
  <1>3. PICK h \in Prefixes(DOMAIN c.held) : \E d \in Prefixes(DOMAIN c.done) :
            /\ h # {} => d = DOMAIN c.done
            /\ x = Copy(Restrict(c.held, h), Restrict(c.done, d))
    BY DEF Torn, c
  <1>4. PICK d \in Prefixes(DOMAIN c.done) :
            /\ h # {} => d = DOMAIN c.done
            /\ x = Copy(Restrict(c.held, h), Restrict(c.done, d))
    BY <1>3
  <1>5. h \subseteq DOMAIN c.held /\ d \subseteq DOMAIN c.done
    BY DEF Prefixes
  <1>6. /\ DOMAIN x.held = h /\ \A k \in h : x.held[k] = c.held[k]
        /\ DOMAIN x.done = d /\ \A k \in d : x.done[k] = c.done[k]
    BY <1>4, <1>5 DEF Copy, Restrict
  <1>7. CopyFits(x, N)
    BY <1>2, <1>5, <1>6 DEF CopyFits
  <1>8. FileOK(Read(f, x))
    BY <1>7, ReadOK
  <1>9. Spends(f, x) = {}
    BY <1>1, <1>4, <1>6 DEF Spends
  <1>10. Read(f, x).marks = f.marks + Cardinality(Spends(f, x))
    BY ReadIs
  <1>11. Read(f, x).marks = f.marks
    BY <1>9, <1>10, FS_EmptySet DEF FileOK
  <1>12. Keeps(f, Read(f, x), DoneAlone(f, x))
    <2> DEFINE r == Read(f, x)
    <2>1. \A j \in DOMAIN f.lines \ (DOMAIN x.done \cup DOMAIN x.held) :
             j \in DOMAIN r.lines /\ r.lines[j].w = f.lines[j].w
      <3>1. DOMAIN r.lines = (DOMAIN f.lines \ DOMAIN x.done) \cup DOMAIN x.held
        BY ReadIs
      <3>2. \A j \in DOMAIN f.lines \ (DOMAIN x.done \cup DOMAIN x.held) :
               r.lines[j].w = f.lines[j].w
        BY <1>7, ReadOK
      <3> HIDE DEF r
      <3> QED
        BY ONLY <3>1, <3>2
    <2>2. \A j \in DOMAIN f.lines \ DOMAIN x.done : j \notin DOMAIN x.held
      BY <1>1, <1>4, <1>6
    <2> HIDE DEF r
    <2>3. ASSUME NEW j \in DOMAIN f.lines
          PROVE  f.lines[j].w \in DoneAlone(f, x) \/ Has(r, f.lines[j].w)
      <3>1. CASE j \in DOMAIN x.done
        BY <3>1 DEF DoneAlone, Has, r
      <3>2. CASE j \notin DOMAIN x.done
        BY <2>1, <2>2, <3>2 DEF Has
      <3> QED BY <3>1, <3>2
    <2> QED
      BY <2>3 DEF Keeps, r
  <1> QED
    BY <1>8, <1>11, <1>12

\* The lines of an earlier run's file: each enters, or a standing line carries
\* its write already.
LEMMA EnteringEarlierIs ==
    ASSUME NEW f, FileOK(f), NEW g, FileOK(g), NEW nk \in Nat, nk > f.named
    PROVE  LET c == EnteringEarlier(f, g.lines, nk)
               r == Read(f, c)
           IN  /\ Adds(f, c) /\ FromRow(c, nk) /\ Grown(f, c, r) /\ Within(g, r)
               /\ Cardinality(DOMAIN c.held) \in Nat
               /\ \A k \in DOMAIN c.held : k < nk + Cardinality(DOMAIN c.held)
  <1> DEFINE from == g.lines
             like(ls, S, l) == {j \in S : Carried(ls[j]) = Carried(l)}
             repeated(k) == Cardinality({j \in like(from, DOMAIN from, from[k]) : j <= k})
                              <= Cardinality(like(f.lines, DOMAIN f.lines, from[k]))
             ks == {k \in DOMAIN from : ~repeated(k)}
             new == Renamed(ks, nk)
             c == EnteringEarlier(f, from, nk)
             r == Read(f, c)
             n == Cardinality(ks)
             N == nk + n
  <1>1. /\ DOMAIN from \in SUBSET Nat /\ IsFiniteSet(DOMAIN from)
        /\ \A k \in DOMAIN from : from[k] \in Line /\ k \in Nat
    BY LinesFinite DEF FileOK
  <1>2. c = Copy([j \in DOMAIN new |-> from[new[j]]], Empty)
    BY DEF EnteringEarlier
  <1>3. ASSUME NEW k \in DOMAIN from, repeated(k) PROVE Has(f, from[k].w)
    <2> DEFINE A == {j \in like(from, DOMAIN from, from[k]) : j <= k}
               B == like(f.lines, DOMAIN f.lines, from[k])
    <2>1. k \in A /\ A \in SUBSET DOMAIN from /\ B \in SUBSET DOMAIN f.lines
      BY <1>1
    <2>2. Cardinality(A) <= Cardinality(B)
      BY <1>3
    <2>3. IsFiniteSet(A) /\ IsFiniteSet(B)
      <3>1. IsFiniteSet(DOMAIN f.lines)
        BY LinesFinite
      <3> HIDE DEF A, B
      <3> QED
        BY <1>1, <2>1, <3>1, FS_Subset
    <2>4. B # {}
      <3> HIDE DEF A, B
      <3>1. Cardinality(A) \in Nat /\ Cardinality(A) # 0 /\ Cardinality(B) \in Nat
        BY <2>1, <2>3, FS_CardinalityType, FS_EmptySet
      <3>2. Cardinality(B) # 0
        BY <2>2, <3>1
      <3> QED
        BY <3>2, FS_EmptySet
    <2>5. PICK j \in DOMAIN f.lines : Carried(f.lines[j]) = Carried(from[k])
      BY <2>4
    <2>6. f.lines[j].w = from[k].w
      BY <2>5 DEF Carried
    <2> QED
      BY <2>6 DEF Has
  <1>4. ks \in SUBSET DOMAIN from /\ \A k \in DOMAIN from : k \notin ks => repeated(k)
    OBVIOUS
  <1>5. \A k \in DOMAIN from : k \in ks \/ Has(f, from[k].w)
    BY <1>3, <1>4
  <1> HIDE DEF ks, new, c, from
  <1>6. IsFiniteSet(ks) /\ ks \in SUBSET Nat
    BY <1>1, <1>4, FS_Subset
  <1>7. /\ n \in Nat /\ DOMAIN new = nk .. (nk + n - 1)
        /\ \A j \in DOMAIN new : new[j] \in ks
        /\ \A k \in ks : \E j \in DOMAIN new : new[j] = k
    <2>1. /\ Cardinality(ks) \in Nat
          /\ DOMAIN Renamed(ks, nk) = nk .. (nk + Cardinality(ks) - 1)
          /\ \A j \in DOMAIN Renamed(ks, nk) : Renamed(ks, nk)[j] \in ks
          /\ \A k \in ks : \E j \in DOMAIN Renamed(ks, nk) : Renamed(ks, nk)[j] = k
      BY <1>6, RenamedIs
    <2> QED
      BY <2>1 DEF new
  <1> HIDE DEF n
  <1>8. /\ DOMAIN c.held = DOMAIN new /\ \A j \in DOMAIN new : c.held[j] = from[new[j]]
        /\ DOMAIN c.done = {}
    BY <1>2, EmptyDomain DEF Copy
  <1>9. f.named \in Nat /\ \A k \in DOMAIN f.lines : k \in Nat /\ k <= f.named
    BY DEF FileOK
  <1>10. Adds(f, c)
    <2>1. N \in Nat
      BY <1>7
    <2>2. DOMAIN c.held \subseteq 1 .. N
      BY <1>7, <1>8, <1>9
    <2>3. \A k \in DOMAIN c.held : c.held[k] \in Line
      BY <1>1, <1>4, <1>7, <1>8
    <2>4. CopyFits(c, N)
      BY <1>8, <2>2, <2>3 DEF CopyFits
    <2>5. DOMAIN c.held \cap DOMAIN f.lines = {}
      BY <1>7, <1>8, <1>9
    <2> QED
      BY <1>8, <2>1, <2>4, <2>5 DEF Adds
  <1>11. Grown(f, c, r)
    BY <1>10, AddsIs
  <1> HIDE DEF r
  <1>12. FromRow(c, nk)
    BY <1>7, <1>8 DEF FromRow
  <1>13. Within(g, r)
    <2>1. ASSUME NEW w, Has(g, w) PROVE Has(r, w)
      <3>1. PICK k \in DOMAIN from : from[k].w = w
        BY <2>1 DEF Has, from
      <3>2. CASE k \in ks
        <4>1. PICK j \in DOMAIN new : new[j] = k
          BY <1>7, <3>2
        <4>2. j \in DOMAIN r.lines /\ r.lines[j].w = w
          BY <1>8, <1>11, <3>1, <4>1 DEF Grown
        <4> QED
          BY <4>2 DEF Has
      <3>3. CASE k \notin ks
        BY <1>5, <1>11, <3>1, <3>3 DEF Grown, Within
      <3> QED BY <3>2, <3>3
    <2> QED
      BY <2>1 DEF Within
  <1>14. Cardinality(DOMAIN c.held) = n
    <2>1. Cardinality(nk .. (nk + n - 1)) = IF nk > nk + n - 1 THEN 0 ELSE (nk + n - 1) - nk + 1
      BY <1>7, FS_Interval
    <2> QED
      BY <1>7, <1>8, <2>1
  <1>15. \A k \in DOMAIN c.held : k < nk + n
    BY <1>7, <1>8
  <1> QED
    BY <1>7, <1>10, <1>11, <1>12, <1>13, <1>14, <1>15 DEF c, r, from

-----------------------------------------------------------------------------
(* The steps that open and join files *)

\* The shape of the files after a step: each reads, counts no more re-marks
\* than were made, and only the directory's, or the pending one behind the
\* board's, has something left.
FilesAfter(n) ==
    /\ FilesOK'
    /\ \A m \in Files : \A g \in {file'[m]} \cup left'[m] : g.marks <= changes
    /\ \A m \in Files : left'[m] = {} \/ m = n \/ (m = "pending" /\ n = "board")

\* And what keeps the writes copied.
WritesAfter ==
    /\ \A m \in Files : \A t \in left'[m] : Keeps(file'[m], t, settled \cup cut')
    /\ \A w \in copied \ (settled \cup cut') : \E m \in Files : Has(file'[m], w)

\* The queue takes the lines of the file it opened.
LEMMA TakeStep ==
    ASSUME IInv, NEW n \in Files, NEW nk \in Nat, nextK <= nk, FilesAfter(n),
           TakeFile(n, file'[n], nk), dir' = n, touched' \in BOOLEAN,
           UNCHANGED <<answered, settled, writes, changes, closes>>,
           \A t \in left'[n] : \A j \in Nat, k \in DOMAIN t.lines :
              j < k /\ (j \in DOMAIN file'[n].lines \/ (j >= nk /\ j > file'[n].named))
                 => j \in DOMAIN t.lines,
           \A k \in DOMAIN answered \cap DOMAIN file'[n].lines : file'[n].lines[k].w = answered[k],
           WritesAfter
    PROVE  IInv'
  <1> DEFINE f == file'[n]
             K == Max({nk, f.named + 1})
  <1>1. /\ home' = n /\ lines' = f.lines /\ owed' = Empty /\ waits' = 0
        /\ spent' = f.marks /\ stale' = {} /\ nextK' = K
        /\ copied' = copied \cup {f.lines[k].w : k \in DOMAIN f.lines}
    BY DEF TakeFile
  <1>2. RestOK /\ changes \in Nat /\ nextK \in Nat /\ nextK >= 1
    BY Parts
  <1>3. /\ FilesOK' /\ FileOK(f)
        /\ \A m \in Files : \A g \in {file'[m]} \cup left'[m] : g.marks <= changes
        /\ \A m \in Files : left'[m] = {} \/ m = n \/ (m = "pending" /\ n = "board")
    BY DEF FilesAfter, FilesOK
  <1>4. /\ f.named \in Nat /\ f.marks \in Nat /\ f.marks <= changes
        /\ \A k \in DOMAIN f.lines : k \in Nat /\ k >= 1 /\ k <= f.named /\ f.lines[k] \in Line
    BY <1>3 DEF FileOK
  <1> HIDE DEF f
  <1>5. K \in Nat /\ K >= nk /\ K > f.named
    <2> DEFINE S == {nk, f.named + 1}
    <2>1. S \in SUBSET Nat /\ S # {} /\ nk + f.named + 1 \in Nat /\ \A s \in S : s <= nk + f.named + 1
      BY <1>4
    <2> HIDE DEF S
    <2>2. Max(S) \in Nat /\ \A s \in S : s <= Max(S)
      BY <2>1, MaxOf
    <2> QED
      BY <1>4, <2>2 DEF S
  <1> HIDE DEF K
  <1>6. DonesOf(Empty) = {} /\ Waiting(f.lines, 0) = {}
    BY EmptyDomain DEF DonesOf, Waiting
  <1>7. QueueOK'
    <2>1. QueueFits(f.lines, Empty, 0, {}, K)
      BY <1>2, <1>4, <1>5, EmptyDomain DEF QueueFits
    <2> QED
      BY <1>1, <2>1 DEF QueueOK
  <1>8. RestOK'
    <2>1. home' \in Files /\ home' = dir' /\ home' # "none"
      BY <1>1 DEF Files
    <2>2. spent' \in 0 .. changes'
      BY <1>1, <1>2, <1>4
    <2>3. DOMAIN answered' \subseteq 1 .. (nextK' - 1)
      BY <1>1, <1>2, <1>5 DEF RestOK
    <2>4. writes' \in 0 .. MaxWrites /\ changes' \in 0 .. MaxChanges
      BY <1>2 DEF RestOK
    <2>5. dir' \in {"notyet"} \cup Files /\ home' \in {"none", "memory"} \cup Files
      BY <2>1
    <2> QED
      BY <2>1, <2>2, <2>3, <2>4, <2>5 DEF RestOK
  <1>9. Marked'
    <2>1. Cardinality(DOMAIN Empty \ DonesOf(Empty)) = 0
      BY EmptyDomain, FS_EmptySet
    <2>2. f.marks + Cardinality(DOMAIN Empty \ DonesOf(Empty)) <= changes
      BY <1>2, <1>4, <2>1
    <2> QED
      BY <1>1, <1>3, <2>2 DEF Marked, f
  <1>10. Agree'
    <2>1. ASSUME NEW k \in DOMAIN f.lines PROVE f.lines[k] = WithDones(f, Empty, k)
      <3>1. DoneAt(f, AtOf(Empty), k) = {}
        BY <1>6 DEF DoneAt, AtOf
      <3>2. f.lines[k].base \in Nat /\ [f.lines[k] EXCEPT !.base = f.lines[k].base] = f.lines[k]
        BY <1>4, StoreAssumption DEF Line
      <3> DEFINE b == f.lines[k].base
                 S == {b} \cup DoneAt(f, AtOf(Empty), k)
      <3>3. S \in SUBSET Nat /\ b \in S /\ \A s \in S : s <= b
        BY <3>1, <3>2
      <3> HIDE DEF S, b
      <3>4. Max(S) = b
        BY <3>3, MaxIs
      <3> QED
        BY <3>2, <3>4 DEF WithDones, AsRead, S, b
    <2>2. Agrees(f, f.lines, Empty, 0, {}, settled)
      BY <1>6, <2>1 DEF Agrees
    <2> QED
      BY <1>1, <2>2 DEF Agree, f
  <1>11. OrdinalNames'
    BY <1>1 DEF OrdinalNames, f
  <1>12. TailsWhere'
    BY <1>1, <1>3 DEF TailsWhere
  <1>13. TailsInOrder'
    <2>1. ASSUME NEW t \in left'[n], NEW j \in Nat, NEW k \in DOMAIN t.lines,
                 j \in DOMAIN f.lines \/ j >= K, j < k
          PROVE  j \in DOMAIN t.lines
      <3>1. j \in DOMAIN f.lines \/ (j >= nk /\ j > f.named)
        BY <1>4, <1>5, <2>1
      <3> QED
        BY <2>1, <3>1 DEF f
    <2>2. \A t \in left'[n] : InOrder(t, f.lines, K)
      BY <2>1 DEF InOrder
    <2> QED
      BY <1>1, <2>2 DEF TailsInOrder
  <1>14. TailsReady' /\ StaleSent'
    BY <1>1 DEF TailsReady, StaleSent, SentStays
  <1>15. TailsKeep' /\ NoneLost'
    <2>1. WritesAfter
      OBVIOUS
    <2>2. TailsKeep'
      BY <2>1 DEF WritesAfter, TailsKeep
    <2>3. ASSUME NEW w \in copied' \ (settled' \cup cut') PROVE \E m \in Files : Has(file'[m], w)
      <3>1. CASE w \in copied
        BY <2>1, <2>3, <3>1 DEF WritesAfter
      <3>2. CASE w \notin copied
        <4>1. Has(f, w)
          BY <1>1, <2>3, <3>2 DEF Has
        <4> QED
          BY <4>1 DEF f
      <3> QED BY <3>1, <3>2
    <2> QED
      BY <2>2, <2>3 DEF NoneLost, OnDisk, Has
  <1>16. Inv'
    BY <1>3, <1>7, <1>8, <1>9, <1>10, <1>11, <1>12, <1>13, <1>14 DEF Inv
  <1> QED
    BY <1>14, <1>15, <1>16 DEF IInv

\* A larger counter: the queue fits under it.
LEMMA FitsUnder ==
    ASSUME NEW ls, NEW ow, NEW wt, NEW st, NEW nk, NEW nk2, QueueFits(ls, ow, wt, st, nk),
           nk2 \in Nat, nk <= nk2
    PROVE  QueueFits(ls, ow, wt, st, nk2)
  BY DEF QueueFits

\* A join or an open the device refused: the queue stays where it was.
LEMMA StopStep ==
    ASSUME IInv, NEW n \in Files, home # n, home \in Files => home = "pending" /\ n = "board",
           FilesAfter(n), dir' = n, touched' \in BOOLEAN,
           home' = home \/ (home \notin Files /\ home' = "memory"),
           UNCHANGED <<lines, owed, waits, spent, stale, copied>>,
           UNCHANGED <<answered, settled, writes, changes, closes>>,
           nextK' \in Nat, nextK <= nextK', home' = "none" => nextK' = nextK,
           home \in Files => file'[home] = file[home] /\ left'[home] = left[home],
           \A t \in left'[n] : Ready(file'[n], t, nextK'),
           WritesAfter
    PROVE  IInv'
  <1>1. /\ QueueOK /\ RestOK /\ Agree /\ Marked /\ TailsInOrder /\ OrdinalNames
        /\ changes \in Nat /\ nextK \in Nat /\ nextK >= 1
    BY Parts
  <1>2. FilesOK'
    BY DEF FilesAfter
  <1>3. home' \in Files <=> home \in Files
    BY DEF Files
  <1>4. home \in Files => home' = home
    OBVIOUS
  <1>5. QueueOK'
    <2>1. QueueFits(lines, owed, waits, stale, nextK')
      BY <1>1, FitsUnder DEF QueueOK
    <2> QED
      BY <1>1, <1>3, <2>1 DEF QueueOK
  <1>6. RestOK'
    <2>1. DOMAIN answered' \subseteq 1 .. (nextK' - 1)
      BY <1>1 DEF RestOK
    <2>2. home' = "none" => home = "none"
      OBVIOUS
    <2>3. home' \in {"none", "memory"} \cup Files /\ dir' \in {"notyet"} \cup Files
      BY <1>1 DEF RestOK
    <2>4. home' \in Files => home' = dir' \/ (home' = "pending" /\ dir' = "board")
      BY <1>3, <1>4
    <2> QED
      BY <1>1, <2>1, <2>2, <2>3, <2>4 DEF RestOK
  <1>7. Marked'
    <2>1. \A m \in Files : \A g \in {file'[m]} \cup left'[m] : g.marks <= changes'
      BY DEF FilesAfter
    <2>2. home' \in Files =>
            file'[home'].marks + Cardinality(DOMAIN owed' \ DonesOf(owed')) <= changes'
      BY <1>1, <1>3, <1>4 DEF Marked
    <2> QED
      BY <2>1, <2>2 DEF Marked
  <1>8. Agree'
    BY <1>1, <1>3, <1>4 DEF Agree
  <1>9. OrdinalNames'
    BY <1>1 DEF OrdinalNames
  <1>10. TailsWhere'
    BY DEF TailsWhere, FilesAfter
  <1>11. TailsInOrder'
    <2>1. ASSUME home \in Files, NEW t \in left[home] PROVE InOrder(t, lines, nextK')
      <3>1. InOrder(t, lines, nextK)
        BY <1>1, <2>1 DEF TailsInOrder
      <3> QED
        BY <1>1, <3>1 DEF InOrder
    <2> QED
      BY <1>3, <1>4, <2>1 DEF TailsInOrder
  <1>12. TailsReady'
    BY DEF TailsReady
  <1>13. LongStays => StaleSent'
    BY <1>3, <1>4 DEF IInv, StaleSent
  <1>14. TailsKeep' /\ NoneLost'
    BY DEF WritesAfter, TailsKeep, NoneLost, OnDisk, Has
  <1>15. Inv'
    BY <1>2, <1>5, <1>6, <1>7, <1>8, <1>9, <1>10, <1>11, <1>12 DEF Inv
  <1> QED
    BY <1>13, <1>14, <1>15 DEF IInv

\* What a refused append leaves: nothing, what stood, or part of the copy, the
\* writes it names done alone then among those cut; and another file's tail only
\* where the pending file is removed.
LEMMA RefusedIs ==
    ASSUME NEW n \in Files, NEW f, NEW copy, NEW gone \in BOOLEAN, gone => n = "board",
           DOMAIN left = Files, Refused(n, f, copy, gone)
    PROVE  /\ DOMAIN left' = Files /\ cut \subseteq cut'
           /\ \A x \in left'[n] : \/ f = file[n] /\ x \in left[n]
                                  \/ \E c \in Torn(copy) : x = Read(f, c) /\ DoneAlone(f, c) \subseteq cut'
           /\ \A m \in Files : m # n => left'[m] = IF gone /\ m = "pending" THEN {} ELSE left[m]
  <1> DEFINE leaves(t) == left' = [left EXCEPT ![n] = t, !["pending"] = IF gone THEN {} ELSE @]
  <1>1. ASSUME NEW t, leaves(t)
        PROVE  /\ DOMAIN left' = Files /\ left'[n] = t
               /\ \A m \in Files : m # n => left'[m] = IF gone /\ m = "pending" THEN {} ELSE left[m]
    BY <1>1 DEF Files
  <1>2. CASE /\ \E t \in {{}} \cup (IF f = file[n] THEN {left[n]} ELSE {}) : leaves(t)
             /\ UNCHANGED cut
    <2>1. PICK t \in {{}} \cup (IF f = file[n] THEN {left[n]} ELSE {}) : leaves(t)
      BY <1>2
    <2> HIDE DEF leaves
    <2> QED
      BY <1>1, <1>2, <2>1
  <1>3. CASE \E c \in Torn(copy) : leaves({Read(f, c)}) /\ cut' = cut \cup DoneAlone(f, c)
    <2>1. PICK c \in Torn(copy) : leaves({Read(f, c)}) /\ cut' = cut \cup DoneAlone(f, c)
      BY <1>3
    <2> HIDE DEF leaves
    <2> QED
      BY <1>1, <2>1
  <1> QED
    BY <1>2, <1>3 DEF Refused

\* The counter moved past the ordinals of the files that read.
LEMMA PastIs ==
    ASSUME FilesOK, NEW nk \in Nat, NEW seen \in SUBSET Files
    PROVE  /\ Max({nk} \cup {file[n].named + 1 : n \in seen \ {dir}}) \in Nat
           /\ nk <= Max({nk} \cup {file[n].named + 1 : n \in seen \ {dir}})
  <1> DEFINE S == {nk} \cup {file[n].named + 1 : n \in seen \ {dir}}
             B == nk + file["pending"].named + file["board"].named + 1
  <1>1. file["pending"].named \in Nat /\ file["board"].named \in Nat
    BY DEF FilesOK, FileOK, Files
  <1>2. \A n \in seen \ {dir} : file[n].named + 1 \in Nat /\ file[n].named + 1 <= B
    BY <1>1 DEF Files
  <1>3. S \in SUBSET Nat /\ nk \in S /\ B \in Nat /\ \A s \in S : s <= B
    BY <1>1, <1>2
  <1> HIDE DEF S, B
  <1>4. Max(S) \in Nat /\ \A s \in S : s <= Max(S)
    BY <1>3, MaxOf
  <1> QED
    BY <1>3, <1>4 DEF S

\* The door opens the directory's file, or keeps the queue in memory.
LEMMA PrincipalHoldKeeps ==
    ASSUME IInv, PrincipalHold
    PROVE  IInv'
  <1>1. PICK seen \in SUBSET Files :
         LET past(nk) == Max({nk} \cup {file[n].named + 1 : n \in seen \ {dir}})
         IN  \/ /\ home' = "memory" /\ nextK' = past(nextK)
                /\ UNCHANGED <<file, left, queueVars, copied, cut, refusals>>
             \/ /\ dir \in Files /\ ~Renumbers(file[dir], nextK)
                /\ TakeFile(dir, file[dir], past(nextK))
                /\ UNCHANGED <<file, left, cut, refusals>>
             \/ /\ dir \in Files /\ Renumbers(file[dir], nextK)
                /\ LET copy == Renumbering(file[dir], nextK)
                       f == Read(file[dir], copy)
                   IN  \/ /\ WriterTakes(copy)
                          /\ file' = [file EXCEPT ![dir] = f]
                          /\ left' = [left EXCEPT ![dir] = {}]
                          /\ TakeFile(dir, f, past(nextK)) /\ UNCHANGED <<cut, refusals>>
                       \/ /\ Refused(dir, file[dir], copy, FALSE)
                          /\ home' = "memory" /\ nextK' = past(nextK)
                          /\ UNCHANGED <<file, queueVars, copied>>
    <2>1. (IF touched THEN {{}} ELSE SUBSET (IF dir = "board" THEN Files ELSE {"pending"}))
             \subseteq SUBSET Files
      BY DEF Files
    <2> QED
      BY <2>1 DEF PrincipalHold
  <1> DEFINE nk == Max({nextK} \cup {file[n].named + 1 : n \in seen \ {dir}})
             f0 == file[dir]
  <1>2. /\ home \notin Files /\ lines = Empty /\ touched' = TRUE
        /\ UNCHANGED <<dir, answered, settled, writes, changes, closes>>
    BY DEF PrincipalHold, countVars
  <1>3. /\ FilesOK /\ QueueOK /\ RestOK /\ Marked /\ OrdinalNames /\ TailsWhere /\ TailsReady
        /\ changes \in Nat /\ nextK \in Nat /\ nextK >= 1
    BY Parts
  <1>4. nk \in Nat /\ nextK <= nk
    BY <1>3, PastIs
  <1>5. /\ owed = Empty /\ waits = 0 /\ stale = {}
    BY <1>2, <1>3 DEF QueueOK
  <1>6. DOMAIN file = Files /\ DOMAIN left = Files
        /\ \A m \in Files : \A g \in {file[m]} \cup left[m] : FileOK(g) /\ g.marks <= changes
    BY <1>3 DEF FilesOK, Marked
  <1>7. TailsKeep /\ NoneLost
    BY DEF IInv
  <1>8. ASSUME home' = "memory", nextK' = nk, UNCHANGED <<file, left, queueVars, copied, cut>>
        PROVE  IInv'
    <2>1. home' \notin Files
      BY <1>8 DEF Files
    <2>2. owed' = Empty /\ waits' = 0 /\ stale' = {} /\ lines' = Empty /\ spent' = spent
      BY <1>2, <1>5, <1>8 DEF queueVars
    <2>3. QueueFits(lines', Empty, 0, {}, nextK')
      BY <1>3, <1>4, <1>8, <2>2, EmptyDomain DEF QueueFits
    <2>4. RestOK'
      <3>1. DOMAIN answered' \subseteq 1 .. (nextK' - 1)
        <4>1. DOMAIN answered \subseteq 1 .. (nextK - 1) /\ nextK \in Nat
          BY <1>3 DEF RestOK
        <4>2. nextK' \in Nat /\ nextK <= nextK' /\ answered' = answered
          BY <1>2, <1>4, <1>8
        <4> HIDE DEF nk
        <4> QED
          BY <4>1, <4>2
      <3>2. touched' \in BOOLEAN /\ home' # "none" /\ home' \in {"none", "memory"} \cup Files
        BY <1>2, <1>8
      <3>3. writes' \in 0 .. MaxWrites /\ changes' \in 0 .. MaxChanges /\ spent' \in 0 .. changes'
            /\ dir' \in {"notyet"} \cup Files
        BY <1>2, <1>3, <2>2 DEF RestOK
      <3> QED
        BY <2>1, <3>1, <3>2, <3>3 DEF RestOK
    <2>5. OrdinalNames'
      BY <2>2, EmptyDomain DEF OrdinalNames
    <2>6. /\ UNCHANGED <<file, left, copied, cut>> /\ dir' = dir
          /\ changes <= changes' /\ nextK <= nextK' /\ settled \subseteq settled'
      BY <1>2, <1>3, <1>4, <1>8
    <2> QED
      BY <1>2, <2>1, <2>2, <2>3, <2>4, <2>5, <2>6, MemoryStep
  <1>9. ASSUME dir \in Files, ~Renumbers(f0, nextK), TakeFile(dir, f0, nk),
               UNCHANGED <<file, left, cut>>
        PROVE  IInv'
    <2>1. \A k \in DOMAIN f0.lines : k \in Nat /\ k >= nextK
      BY <1>3, <1>6, <1>9 DEF Renumbers, FileOK
    <2>2. FilesAfter(dir)
      BY <1>2, <1>3, <1>6, <1>9 DEF FilesAfter, TailsWhere, FilesOK
    <2>3. \A k \in DOMAIN answered : k \in Nat /\ k < nextK
      BY <1>3 DEF RestOK
    <2>4. \A k \in DOMAIN answered \cap DOMAIN file'[dir].lines : file'[dir].lines[k].w = answered[k]
      BY <1>3, <1>9, <2>1, <2>3
    <2>5. ASSUME NEW t \in left'[dir], NEW j \in Nat, NEW k \in DOMAIN t.lines,
                 j < k, j \in DOMAIN file'[dir].lines \/ (j >= nk /\ j > file'[dir].named)
          PROVE  j \in DOMAIN t.lines
      <3>1. Ready(f0, t, nextK)
        BY <1>2, <1>3, <1>9, <2>5 DEF TailsReady
      <3>2. /\ DOMAIN f0.lines \subseteq DOMAIN t.lines
            /\ j >= nextK /\ j > f0.named /\ j < k => j \in DOMAIN t.lines
        BY <1>9, <3>1 DEF Ready
      <3> QED
        BY <1>3, <1>4, <1>9, <2>5, <3>2
    <2>6. WritesAfter
      BY <1>7, <1>9 DEF WritesAfter, TailsKeep, NoneLost, OnDisk, Has
    <2>7. TakeFile(dir, file'[dir], nk) /\ dir' = dir /\ touched' \in BOOLEAN
      BY <1>2, <1>9
    <2> HIDE DEF nk, f0
    <2> QED
      BY <1>2, <1>4, <1>9, <2>2, <2>4, <2>5, <2>6, <2>7, TakeStep
  <1> DEFINE copy == Renumbering(f0, nextK)
             f1 == Read(f0, copy)
  <1>10. ASSUME dir \in Files
         PROVE  /\ FileOK(f1) /\ f1.marks = f0.marks /\ Within(f0, f1)
                /\ \A k \in DOMAIN f1.lines : k >= nextK
                /\ FileOK(f0)
    <2>1. FileOK(f0)
      BY <1>6, <1>10
    <2> HIDE DEF f0
    <2> QED
      BY <1>3, <2>1, RenumberingIs
  <1>11. ASSUME dir \in Files, Renumbers(f0, nextK),
                file' = [file EXCEPT ![dir] = f1], left' = [left EXCEPT ![dir] = {}],
                TakeFile(dir, f1, nk), UNCHANGED cut
         PROVE  IInv'
    <2> HIDE DEF nk, f1
    <2>1. /\ DOMAIN file' = Files /\ DOMAIN left' = Files
          /\ file'[dir] = f1 /\ left'[dir] = {}
          /\ \A m \in Files : m # dir => file'[m] = file[m] /\ left'[m] = left[m]
      BY <1>6, <1>11
    <2>2. FilesAfter(dir)
      <3>1. \A m \in Files : \A g \in {file'[m]} \cup left'[m] : FileOK(g) /\ g.marks <= changes
        BY <1>6, <1>10, <1>11, <2>1
      <3>2. \A m \in Files : left'[m] = {} \/ m = dir \/ (m = "pending" /\ dir = "board")
        BY <1>2, <1>3, <2>1 DEF TailsWhere
      <3>3. FilesOK'
        BY <2>1, <3>1 DEF FilesOK
      <3> QED
        BY <3>1, <3>2, <3>3 DEF FilesAfter
    <2>3. \A k \in DOMAIN answered : k \in Nat /\ k < nextK
      BY <1>3 DEF RestOK
    <2>4. \A k \in DOMAIN answered \cap DOMAIN file'[dir].lines : file'[dir].lines[k].w = answered[k]
      <3>1. \A k \in DOMAIN f1.lines : k >= nextK
        BY <1>10, <1>11
      <3> QED
        BY <1>3, <2>1, <2>3, <3>1
    <2>5. WritesAfter
      <3>1. cut' = cut
        BY <1>11
      <3>2. \A m \in Files : \A t \in left'[m] : Keeps(file'[m], t, settled \cup cut')
        BY <1>7, <2>1, <3>1 DEF TailsKeep
      <3>3. ASSUME NEW w \in copied \ (settled \cup cut') PROVE \E m \in Files : Has(file'[m], w)
        <4>1. PICK m \in Files : Has(file[m], w)
          BY <1>7, <3>1, <3>3 DEF NoneLost, OnDisk, Has
        <4>2. CASE m = dir
          BY <1>10, <1>11, <2>1, <4>1, <4>2 DEF Within
        <4>3. CASE m # dir
          BY <2>1, <4>1, <4>3
        <4> QED BY <4>2, <4>3
      <3> QED
        BY <3>2, <3>3 DEF WritesAfter
    <2>6. TakeFile(dir, file'[dir], nk) /\ dir' = dir /\ touched' \in BOOLEAN
      BY <1>2, <1>11, <2>1
    <2>7. \A t \in left'[dir] : \A j \in Nat, k \in DOMAIN t.lines :
              j < k /\ (j \in DOMAIN file'[dir].lines \/ (j >= nk /\ j > file'[dir].named))
                 => j \in DOMAIN t.lines
      BY <2>1
    <2> QED
      BY <1>2, <1>4, <1>11, <2>2, <2>4, <2>5, <2>6, <2>7, TakeStep
  <1>12. ASSUME dir \in Files, Renumbers(f0, nextK), Refused(dir, f0, copy, FALSE),
                home' = "memory", nextK' = nk, UNCHANGED <<file, queueVars, copied>>
         PROVE  IInv'
    <2>1. /\ DOMAIN left' = Files /\ cut \subseteq cut'
          /\ \A x \in left'[dir] :
                \/ x \in left[dir]
                \/ \E c \in Torn(copy) : x = Read(f0, c) /\ DoneAlone(f0, c) \subseteq cut'
          /\ \A m \in Files : m # dir => left'[m] = left[m]
      <3> DEFINE gone == FALSE
      <3>1. gone \in BOOLEAN /\ ~gone /\ Refused(dir, f0, copy, gone)
        BY <1>12
      <3> HIDE DEF gone, copy, f0
      <3>2. /\ DOMAIN left' = Files /\ cut \subseteq cut'
            /\ \A x \in left'[dir] :
                  \/ f0 = file[dir] /\ x \in left[dir]
                  \/ \E c \in Torn(copy) : x = Read(f0, c) /\ DoneAlone(f0, c) \subseteq cut'
            /\ \A m \in Files : m # dir => left'[m] = IF gone /\ m = "pending" THEN {} ELSE left[m]
        BY <1>6, <1>12, <3>1, RefusedIs
      <3> QED
        BY <3>1, <3>2
    <2>2. FileOK(f0) /\ f0.marks <= changes
      BY <1>6, <1>12
    <2>3. ASSUME NEW c \in Torn(copy)
          PROVE  /\ FileOK(Read(f0, c)) /\ Read(f0, c).marks = f0.marks
                 /\ Keeps(f0, Read(f0, c), DoneAlone(f0, c))
      <3> HIDE DEF f0
      <3> QED
        BY <1>3, <2>2, TornRenumbered
    <2>4. ASSUME NEW x \in left'[dir] PROVE Keeps(f0, x, settled \cup cut')
      <3>1. CASE x \in left[dir]
        BY <1>7, <1>12, <2>1, <3>1 DEF TailsKeep, Keeps
      <3>2. CASE \E c \in Torn(copy) : x = Read(f0, c) /\ DoneAlone(f0, c) \subseteq cut'
        <4>1. PICK c \in Torn(copy) : x = Read(f0, c) /\ DoneAlone(f0, c) \subseteq cut'
          BY <3>2
        <4>2. Keeps(f0, Read(f0, c), DoneAlone(f0, c))
          BY <2>3
        <4> HIDE DEF f0, copy
        <4> QED
          BY <4>1, <4>2 DEF Keeps
      <3> QED
        BY <2>1, <3>1, <3>2
    <2> HIDE DEF nk, copy
    <2>5. FilesAfter(dir)
      <3>1. \A g \in left'[dir] : FileOK(g) /\ g.marks <= changes
        BY <1>6, <1>12, <2>1, <2>2, <2>3
      <3>2. \A m \in Files : \A g \in {file'[m]} \cup left'[m] : FileOK(g) /\ g.marks <= changes
        BY <1>6, <1>12, <2>1, <3>1
      <3>3. FilesOK'
        BY <1>6, <1>12, <2>1, <3>2 DEF FilesOK
      <3>4. \A m \in Files : left'[m] = {} \/ m = dir \/ (m = "pending" /\ dir = "board")
        BY <1>2, <1>3, <2>1 DEF TailsWhere
      <3> QED
        BY <3>2, <3>3, <3>4 DEF FilesAfter
    <2>6. \A t \in left'[dir] : Ready(file'[dir], t, nextK')
      <3>1. PICK k \in DOMAIN f0.lines : k < nextK
        BY <1>12 DEF Renumbers
      <3>2. k < nk
        BY <1>3, <1>4, <2>2, <3>1 DEF FileOK
      <3> QED
        BY <1>12, <3>2 DEF Ready, Renumbers
    <2>7. WritesAfter
      <3>1. ASSUME NEW m \in Files, NEW t \in left'[m] PROVE Keeps(file'[m], t, settled \cup cut')
        <4>1. CASE m = dir
          BY <1>12, <2>4, <3>1, <4>1
        <4>2. CASE m # dir
          <5>1. Keeps(file[m], t, settled \cup cut)
            BY <1>7, <2>1, <3>1, <4>2 DEF TailsKeep
          <5> QED
            BY <1>12, <2>1, <5>1 DEF Keeps
        <4> QED BY <4>1, <4>2
      <3>2. \A w \in copied \ (settled \cup cut') : \E m \in Files : Has(file'[m], w)
        BY <1>7, <1>12, <2>1 DEF NoneLost, OnDisk, Has
      <3> QED
        BY <3>1, <3>2 DEF WritesAfter
    <2>8. /\ home' = "memory" /\ home' # "none" /\ dir' = dir /\ touched' \in BOOLEAN
          /\ UNCHANGED <<lines, owed, waits, spent, stale, copied>>
          /\ UNCHANGED <<answered, settled, writes, changes, closes>>
          /\ nextK' \in Nat /\ nextK <= nextK'
      BY <1>2, <1>4, <1>12 DEF queueVars
    <2>9. home # dir
      BY <1>2, <1>12
    <2> QED
      BY <1>2, <1>12, <2>5, <2>6, <2>7, <2>8, <2>9, StopStep
  <1> QED
    BY <1>1, <1>8, <1>9, <1>11, <1>12

-----------------------------------------------------------------------------
(* The join *)

\* The queue may join the file n: it is kept elsewhere, and what is left past
\* the files is past n's own, or the pending one behind the board's.
MayJoin(n) ==
    /\ home # n /\ (home \in Files => home = "pending" /\ n = "board")
    /\ \A m \in Files : left[m] = {} \/ m = n \/ (m = "pending" /\ n = "board")
    /\ \A t \in left[n] : Ready(file[n], t, nextK)

\* What a refused copy leaves past the file f reads, is made ready for the
\* counter nk, and keeps the writes of f.
Leaves(f, x, nk) ==
    /\ FileOK(x) /\ x.marks <= changes /\ Ready(f, x, nk)
    /\ Keeps(f, x, settled \cup cut')

\* The files once a join of f to n stops or ends, `gone' where the pending file
\* was removed.
Stands(n, f, gone) ==
    /\ DOMAIN file' = Files /\ DOMAIN left' = Files /\ file'[n] = f
    /\ \A m \in Files : m # n =>
          /\ file'[m] = IF gone /\ m = "pending" THEN Fresh ELSE file[m]
          /\ left'[m] = IF gone /\ m = "pending" THEN {} ELSE left[m]

\* The files after a join keep their shape.
LEMMA StandsAfter ==
    ASSUME IInv, NEW n \in Files, MayJoin(n), NEW f, FileOK(f), f.marks <= changes,
           NEW gone, Stands(n, f, gone),
           \A x \in left'[n] : FileOK(x) /\ x.marks <= changes
    PROVE  FilesAfter(n)
  <1>1. FilesOK /\ Marked /\ changes \in Nat
    BY Parts
  <1>2. FileOK(Fresh) /\ Fresh.marks <= changes
    BY <1>1, FreshOK
  <1>3. ASSUME NEW m \in Files, NEW g \in {file'[m]} \cup left'[m]
        PROVE  FileOK(g) /\ g.marks <= changes
    <2>1. CASE m = n
      BY <1>3, <2>1 DEF Stands
    <2>2. CASE m # n
      <3>1. g = Fresh \/ g \in {file[m]} \cup left[m]
        BY <1>3, <2>2 DEF Stands
      <3> QED
        BY <1>1, <1>2, <3>1 DEF FilesOK, Marked
    <2> QED BY <2>1, <2>2
  <1>4. FilesOK'
    BY <1>3 DEF FilesOK, Stands
  <1>5. \A m \in Files : left'[m] = {} \/ m = n \/ (m = "pending" /\ n = "board")
    BY DEF Stands, MayJoin
  <1> QED
    BY <1>3, <1>4, <1>5 DEF FilesAfter

\* And the writes copied.
LEMMA StandsWrites ==
    ASSUME IInv, NEW n \in Files, NEW f, NEW gone, Stands(n, f, gone), Within(file[n], f),
           cut \subseteq cut', \A x \in left'[n] : Keeps(f, x, settled \cup cut'),
           gone => \A w : w \notin settled /\ Has(file["pending"], w) => Has(f, w)
    PROVE  WritesAfter
  <1>1. TailsKeep /\ NoneLost
    BY DEF IInv
  <1>2. ASSUME NEW m \in Files, NEW t \in left'[m] PROVE Keeps(file'[m], t, settled \cup cut')
    <2>1. CASE m = n
      BY <1>2, <2>1 DEF Stands
    <2>2. CASE m # n
      <3>1. file'[m] = file[m] /\ t \in left[m]
        BY <1>2, <2>2 DEF Stands
      <3>2. Keeps(file[m], t, settled \cup cut)
        BY <1>1, <3>1 DEF TailsKeep
      <3> QED
        BY <3>1, <3>2 DEF Keeps
    <2> QED BY <2>1, <2>2
  <1>3. ASSUME NEW w \in copied \ (settled \cup cut') PROVE \E m \in Files : Has(file'[m], w)
    <2>1. PICK m \in Files : Has(file[m], w)
      BY <1>1, <1>3 DEF NoneLost, OnDisk, Has
    <2>2. CASE m = n \/ (gone /\ m = "pending")
      <3>1. Has(f, w)
        BY <1>3, <2>1, <2>2 DEF Within
      <3> QED
        BY <3>1 DEF Stands
    <2>3. CASE ~(m = n \/ (gone /\ m = "pending"))
      <3>1. file'[m] = file[m]
        BY <2>3 DEF Stands
      <3> QED
        BY <2>1, <3>1
    <2> QED BY <2>2, <2>3
  <1> QED
    BY <1>2, <1>3 DEF WritesAfter

\* A join that stops: the file may have grown, the queue stays where it was.
LEMMA JoinStops ==
    ASSUME IInv, NEW n \in Files, MayJoin(n), NEW f, FileOK(f), f.marks <= changes,
           Within(file[n], f), NEW gone \in BOOLEAN, Stands(n, f, gone),
           gone => n = "board" /\ home # "pending" /\ Within(file["pending"], f),
           cut \subseteq cut', \A x \in left'[n] : Leaves(f, x, nextK'),
           dir' = n, UNCHANGED <<home, lines, owed, waits, spent, stale, copied>>,
           UNCHANGED <<touched, answered, settled, writes, changes, closes>>,
           nextK' \in Nat, nextK <= nextK', home = "none" => nextK' = nextK
    PROVE  IInv'
  <1>1. RestOK
    BY Parts
  <1>2. \A x \in left'[n] : FileOK(x) /\ x.marks <= changes /\ Ready(f, x, nextK')
    BY DEF Leaves
  <1>3. FilesAfter(n)
    BY <1>2, StandsAfter
  <1>4. WritesAfter
    <2>1. \A x \in left'[n] : Keeps(f, x, settled \cup cut')
      BY DEF Leaves
    <2>2. gone => \A w : w \notin settled /\ Has(file["pending"], w) => Has(f, w)
      BY DEF Within
    <2> QED
      BY <2>1, <2>2, StandsWrites
  <1>5. home \in Files => file'[home] = file[home] /\ left'[home] = left[home]
    BY DEF Stands, MayJoin
  <1>6. \A t \in left'[n] : Ready(file'[n], t, nextK')
    BY <1>2 DEF Stands
  <1>7. /\ home # n /\ (home \in Files => home = "pending" /\ n = "board")
        /\ touched' \in BOOLEAN
        /\ home' = home /\ (home' = "none" => nextK' = nextK)
    BY <1>1 DEF MayJoin, RestOK
  <1> QED
    BY <1>3, <1>4, <1>5, <1>6, <1>7, StopStep

\* What stood past the file before still may.
LEMMA LeavesKept ==
    ASSUME IInv, NEW n \in Files, MayJoin(n), NEW t \in left[n], NEW nk \in Nat, nextK <= nk,
           cut \subseteq cut'
    PROVE  Leaves(file[n], t, nk)
  <1>1. FilesOK /\ Marked /\ nextK \in Nat
    BY Parts
  <1>2. FileOK(t) /\ t.marks <= changes /\ FileOK(file[n])
    BY <1>1 DEF FilesOK, Marked
  <1>3. Ready(file[n], t, nextK)
    BY DEF MayJoin
  <1>4. Ready(file[n], t, nk)
    BY <1>1, <1>2, <1>3, ReadyStays
  <1>5. Keeps(file[n], t, settled \cup cut')
    BY DEF IInv, TailsKeep, Keeps
  <1> QED
    BY <1>2, <1>4, <1>5 DEF Leaves

\* The ordinals of a copy from the counter on stand in a row.
Rowed(f, c, nk) ==
    \A j \in Nat, k \in DOMAIN c.held : j >= nk /\ j > f.named /\ j < k => j \in DOMAIN c.held

\* Part of an adding copy may be left.
LEMMA LeavesTorn ==
    ASSUME NEW f, FileOK(f), f.marks <= changes, NEW c, Adds(f, c), NEW nk \in Nat, Rowed(f, c, nk),
           NEW x \in Torn(c)
    PROVE  Leaves(f, Read(f, x), nk)
  <1> DEFINE r == Read(f, x)
  <1>1. /\ Adds(f, x) /\ DOMAIN x.held \subseteq DOMAIN c.held
        /\ \A j \in DOMAIN c.held, k \in DOMAIN x.held : j < k => j \in DOMAIN x.held
    BY TornAdds
  <1>2. Grown(f, x, r)
    BY <1>1, AddsIs
  <1>3. f.named \in Nat /\ \A k \in DOMAIN f.lines : k \in Nat /\ k <= f.named
    BY DEF FileOK
  <1> HIDE DEF r
  <1>4. FileOK(r) /\ r.marks <= changes /\ DOMAIN r.lines = DOMAIN f.lines \cup DOMAIN x.held
    BY <1>2 DEF Grown
  <1>5. Keeps(f, r, settled \cup cut')
    BY <1>2 DEF Grown, Within, Keeps, Has
  <1>6. ASSUME NEW j \in Nat, NEW k \in DOMAIN r.lines, j >= nk, j > f.named, j < k
        PROVE  j \in DOMAIN r.lines
    <2>1. k \in DOMAIN x.held
      BY <1>3, <1>4, <1>6
    <2>2. j \in DOMAIN c.held
      BY <1>1, <1>6, <2>1 DEF Rowed
    <2> QED
      BY <1>1, <1>4, <1>6, <2>1, <2>2
  <1>7. Ready(f, r, nk)
    BY <1>4, <1>6 DEF Ready
  <1>8. Leaves(f, r, nk)
    BY <1>4, <1>5, <1>7 DEF Leaves
  <1> QED
    BY <1>8 DEF r

\* Part of a renumbering may be left, the writes it names done alone cut.
LEMMA LeavesTornRenumbering ==
    ASSUME NEW f, FileOK(f), f.marks <= changes, NEW K \in Nat, K >= 1, Renumbers(f, K),
           NEW nk \in Nat, K <= nk, NEW x \in Torn(Renumbering(f, K)),
           DoneAlone(f, x) \subseteq cut'
    PROVE  Leaves(f, Read(f, x), nk)
  <1> DEFINE r == Read(f, x)
  <1>1. FileOK(r) /\ r.marks = f.marks /\ Keeps(f, r, DoneAlone(f, x))
    BY TornRenumbered
  <1> HIDE DEF r
  <1>2. PICK k \in DOMAIN f.lines : k < K
    BY DEF Renumbers
  <1>3. k \in Nat
    BY DEF FileOK
  <1>4. Renumbers(f, nk)
    BY <1>2, <1>3 DEF Renumbers
  <1>5. Keeps(f, r, settled \cup cut')
    BY <1>1 DEF Keeps
  <1>6. Leaves(f, r, nk)
    BY <1>1, <1>2, <1>4, <1>5 DEF Leaves, Ready
  <1> QED
    BY <1>6 DEF r

\* A file with nothing added is the same file to its reader.
LEMMA AddsNothing ==
    ASSUME NEW f, FileOK(f)
    PROVE  Adds(f, Copy(Empty, Empty))
  <1> DEFINE c == Copy(Empty, Empty)
  <1>1. DOMAIN c.held = {} /\ DOMAIN c.done = {}
    BY EmptyDomain DEF Copy
  <1> HIDE DEF c
  <1>2. 0 \in Nat /\ CopyFits(c, 0)
    BY <1>1 DEF CopyFits
  <1>3. Adds(f, c)
    BY <1>1, <1>2 DEF Adds
  <1> QED
    BY <1>3 DEF c

\* The file as the join finds it, its lines moved past the counter K where the
\* principal's counter is known: nk is the first ordinal fresh to both.
Moved(f, g, nk, K) ==
    /\ FileOK(g) /\ g.marks = f.marks /\ Within(f, g) /\ nk \in Nat /\ nk >= K /\ nk > g.named
    /\ \A k \in DOMAIN g.lines : k >= K
    /\ DOMAIN g.lines \subseteq DOMAIN f.lines => ~Renumbers(f, K)

\* The first stage of a join leaves the file so.
LEMMA MovedIs ==
    ASSUME NEW f, FileOK(f), NEW K \in Nat, K >= 1, NEW known \in BOOLEAN, known \/ K = 1
    PROVE  LET nk0 == IF known THEN K ELSE f.named + 1
               c == IF known /\ Renumbers(f, nk0) THEN Renumbering(f, nk0) ELSE Copy(Empty, Empty)
               g == Read(f, c)
               nk == Max({nk0, g.named + 1})
           IN  /\ Moved(f, g, nk, K) /\ nk0 \in Nat /\ nk0 >= K /\ nk0 <= nk
               /\ ~known => nk = g.named + 1
  <1> DEFINE nk0 == IF known THEN K ELSE f.named + 1
             c == IF known /\ Renumbers(f, nk0) THEN Renumbering(f, nk0) ELSE Copy(Empty, Empty)
             g == Read(f, c)
             nk == Max({nk0, g.named + 1})
  <1>1. /\ f.named \in Nat /\ DOMAIN f.lines \in SUBSET Nat /\ IsFiniteSet(DOMAIN f.lines)
        /\ \A k \in DOMAIN f.lines : k \in Nat /\ k >= 1 /\ k <= f.named
    BY LinesFinite DEF FileOK
  <1>2. nk0 \in Nat /\ nk0 >= K /\ (known => nk0 = K) /\ (~known => nk0 = f.named + 1)
    BY <1>1
  <1>3. /\ FileOK(g) /\ g.marks = f.marks /\ Within(f, g) /\ f.named <= g.named
        /\ \A k \in DOMAIN g.lines : k >= K
        /\ DOMAIN g.lines \subseteq DOMAIN f.lines => ~Renumbers(f, K)
    <2>1. CASE known /\ Renumbers(f, K)
      <3> DEFINE r == Read(f, Renumbering(f, K))
      <3>1. g = r
        BY <1>2, <2>1
      <3>2. /\ FileOK(r) /\ r.marks = f.marks /\ Within(f, r) /\ f.named <= r.named
            /\ \A k \in DOMAIN r.lines : k >= K
            /\ IsFiniteSet(DOMAIN r.lines)
            /\ Cardinality(DOMAIN r.lines) = Cardinality(DOMAIN f.lines)
        BY RenumberingIs
      <3> HIDE DEF r, g
      <3>3. ASSUME DOMAIN r.lines \subseteq DOMAIN f.lines PROVE FALSE
        <4>1. DOMAIN r.lines \in SUBSET DOMAIN f.lines
          BY <3>3
        <4>2. DOMAIN r.lines = DOMAIN f.lines
          BY <1>1, <3>2, <4>1, FS_Subset
        <4>3. PICK k \in DOMAIN f.lines : k < K
          BY <2>1 DEF Renumbers
        <4> QED
          BY <1>1, <3>2, <4>2, <4>3
      <3> QED
        BY <3>1, <3>2, <3>3
    <2>2. CASE ~(known /\ Renumbers(f, K))
      <3> DEFINE e == Copy(Empty, Empty)
                 r == Read(f, e)
      <3>1. g = r
        BY <1>2, <2>2
      <3>2. Grown(f, e, r)
        BY AddsNothing, AddsIs
      <3>3. DOMAIN e.held = {}
        BY EmptyDomain DEF Copy
      <3>4. ~Renumbers(f, K)
        BY <1>1, <2>2 DEF Renumbers
      <3>5. \A k \in DOMAIN f.lines : k >= K
        BY <1>1, <3>4 DEF Renumbers
      <3> HIDE DEF r, g, e
      <3> QED
        BY <3>1, <3>2, <3>3, <3>4, <3>5 DEF Grown
    <2> QED BY <2>1, <2>2
  <1> HIDE DEF g
  <1>4. nk \in Nat /\ nk >= nk0 /\ nk >= g.named + 1 /\ (nk = nk0 \/ nk = g.named + 1)
    <2> DEFINE S == {nk0, g.named + 1}
               B == nk0 + g.named + 1
    <2>1. g.named \in Nat
      BY <1>3 DEF FileOK
    <2> HIDE DEF nk0
    <2>2. S \in SUBSET Nat /\ S # {} /\ B \in Nat /\ \A s \in S : s <= B
      BY <1>2, <2>1
    <2> HIDE DEF S, B
    <2>3. Max(S) \in Nat /\ Max(S) \in S /\ \A s \in S : s <= Max(S)
      BY <2>2, MaxOf
    <2> QED
      BY <2>3 DEF S
  <1> HIDE DEF nk
  <1>5. g.named \in Nat
    BY <1>3 DEF FileOK
  <1>6. Moved(f, g, nk, K)
    <2>1. nk \in Nat /\ nk >= K /\ nk > g.named
      BY <1>2, <1>4, <1>5
    <2> QED
      BY <1>3, <2>1 DEF Moved
  <1>7. ~known => nk = g.named + 1
    BY <1>1, <1>2, <1>3, <1>4, <1>5
  <1> QED
    BY <1>2, <1>4, <1>6, <1>7 DEF nk, g

\* This run's lines enter a file of later ordinals, each under its own.
LEMMA EnteringLiveIs ==
    ASSUME NEW f, FileOK(f), NEW K \in Nat, \A k \in DOMAIN f.lines : k >= K,
           NEW live, DOMAIN live \subseteq 1 .. (K - 1), \A k \in DOMAIN live : live[k] \in Line
    PROVE  LET c == EnteringLive(f, live)
           IN  /\ Adds(f, c) /\ DOMAIN c.held = DOMAIN live
               /\ \A k \in DOMAIN live : c.held[k] = live[k] /\ k \in Nat /\ k < K
  <1> DEFINE c == EnteringLive(f, live)
  <1>1. \A k \in DOMAIN live : k \in Nat /\ k >= 1 /\ k < K /\ k \notin DOMAIN f.lines
    BY DEF FileOK
  <1>2. DOMAIN live \ DOMAIN f.lines = DOMAIN live
    BY <1>1
  <1>3. /\ DOMAIN c.held = DOMAIN live /\ \A k \in DOMAIN live : c.held[k] = live[k]
        /\ DOMAIN c.done = {}
    BY <1>2, EmptyDomain DEF EnteringLive, Copy, Restrict
  <1> HIDE DEF c
  <1>4. CopyFits(c, K)
    BY <1>1, <1>3 DEF CopyFits
  <1>5. DOMAIN c.held \cap DOMAIN f.lines = {}
    BY <1>1, <1>3
  <1>6. Adds(f, c)
    BY <1>3, <1>4, <1>5 DEF Adds
  <1> QED
    BY <1>1, <1>3, <1>6 DEF c

\* A join whose copy is refused leaves the files standing.
LEMMA RefusedLeaves ==
    ASSUME IInv, NEW n \in Files, MayJoin(n), NEW f, NEW copy, NEW gone \in BOOLEAN,
           gone => n = "board", Refused(n, f, copy, gone),
           file' = IF gone THEN [file EXCEPT ![n] = f, !["pending"] = Fresh]
                   ELSE [file EXCEPT ![n] = f],
           NEW nk \in Nat, nextK <= nk,
           \A c \in Torn(copy) : DoneAlone(f, c) \subseteq cut' => Leaves(f, Read(f, c), nk)
    PROVE  Stands(n, f, gone) /\ cut \subseteq cut' /\ \A x \in left'[n] : Leaves(f, x, nk)
  <1>1. DOMAIN left = Files /\ DOMAIN file = Files
    BY Parts DEF FilesOK
  <1>2. /\ DOMAIN left' = Files /\ cut \subseteq cut'
        /\ \A x \in left'[n] :
              \/ f = file[n] /\ x \in left[n]
              \/ \E c \in Torn(copy) : x = Read(f, c) /\ DoneAlone(f, c) \subseteq cut'
        /\ \A m \in Files : m # n => left'[m] = IF gone /\ m = "pending" THEN {} ELSE left[m]
    BY <1>1, RefusedIs
  <1>3. /\ DOMAIN file' = Files /\ file'[n] = f
        /\ \A m \in Files : m # n => file'[m] = IF gone /\ m = "pending" THEN Fresh ELSE file[m]
    BY <1>1 DEF Files
  <1>4. ASSUME NEW x \in left'[n] PROVE Leaves(f, x, nk)
    <2>1. CASE f = file[n] /\ x \in left[n]
      BY <1>2, <2>1, LeavesKept
    <2>2. CASE \E c \in Torn(copy) : x = Read(f, c) /\ DoneAlone(f, c) \subseteq cut'
      BY <2>2
    <2> QED
      BY <1>2, <2>1, <2>2
  <1> QED
    BY <1>2, <1>3, <1>4 DEF Stands

\* A join refused, or cut back to nothing where the file has no line.
LEMMA RefusedJoin ==
    ASSUME IInv, NEW n \in Files, MayJoin(n), NEW f, FileOK(f), f.marks <= changes,
           Within(file[n], f), NEW copy, NEW gone \in BOOLEAN,
           gone => n = "board" /\ home # "pending" /\ Within(file["pending"], f),
           \/ /\ file' = IF gone THEN [file EXCEPT ![n] = f, !["pending"] = Fresh]
                         ELSE [file EXCEPT ![n] = f]
              /\ Refused(n, f, copy, gone)
           \/ /\ f.lines = Empty
              /\ file' = IF gone THEN [file EXCEPT ![n] = Fresh, !["pending"] = Fresh]
                         ELSE [file EXCEPT ![n] = Fresh]
              /\ left' = [left EXCEPT ![n] = {}, !["pending"] = IF gone THEN {} ELSE @]
              /\ UNCHANGED cut,
           \A c \in Torn(copy) : DoneAlone(f, c) \subseteq cut' => Leaves(f, Read(f, c), nextK'),
           dir' = n, UNCHANGED <<home, lines, owed, waits, spent, stale, copied>>,
           UNCHANGED <<touched, answered, settled, writes, changes, closes>>,
           nextK' \in Nat, nextK <= nextK', home = "none" => nextK' = nextK
    PROVE  IInv'
  <1>1. DOMAIN left = Files /\ DOMAIN file = Files /\ changes \in Nat
    BY Parts DEF FilesOK
  <1>2. CASE /\ file' = IF gone THEN [file EXCEPT ![n] = f, !["pending"] = Fresh]
                        ELSE [file EXCEPT ![n] = f]
             /\ Refused(n, f, copy, gone)
    <2>1. Stands(n, f, gone) /\ cut \subseteq cut' /\ \A x \in left'[n] : Leaves(f, x, nextK')
      BY <1>2, RefusedLeaves
    <2> QED
      BY <2>1, JoinStops
  <1>3. CASE /\ f.lines = Empty
             /\ file' = IF gone THEN [file EXCEPT ![n] = Fresh, !["pending"] = Fresh]
                        ELSE [file EXCEPT ![n] = Fresh]
             /\ left' = [left EXCEPT ![n] = {}, !["pending"] = IF gone THEN {} ELSE @]
             /\ UNCHANGED cut
    <2>1. Stands(n, Fresh, gone) /\ left'[n] = {}
      BY <1>1, <1>3 DEF Stands, Files
    <2>2. DOMAIN f.lines = {} /\ DOMAIN Fresh.lines = {}
      BY <1>3, EmptyDomain, FreshOK
    <2>3. Within(file[n], Fresh) /\ (gone => Within(file["pending"], Fresh))
      BY <2>2 DEF Within, Has
    <2>4. FileOK(Fresh) /\ Fresh.marks <= changes
      BY <1>1, FreshOK
    <2>5. cut \subseteq cut' /\ \A x \in left'[n] : Leaves(Fresh, x, nextK')
      BY <1>3, <2>1
    <2> QED
      BY <2>1, <2>3, <2>4, <2>5, JoinStops
  <1> QED
    BY <1>2, <1>3

\* A principal's lines join the file n, or the join stops at a refused copy.
LEMMA JoinKeeps ==
    ASSUME IInv, NEW n \in Files, MayJoin(n), NEW locked \in BOOLEAN,
           JoinPrincipal(n, locked), dir' = n
    PROVE  IInv'
  <1> DEFINE known == home # "none"
             live == IF LiveJoins(n) THEN lines ELSE Empty
             withEarlier == n = "board" /\ home # "pending" /\ locked
             earlier == IF withEarlier THEN file["pending"].lines ELSE Empty
             f0 == file[n]
             nk0 == IF known THEN nextK ELSE f0.named + 1
             renumbers == known /\ Renumbers(f0, nk0)
             copy1 == IF renumbers THEN Renumbering(f0, nk0) ELSE Copy(Empty, Empty)
             f1 == Read(f0, copy1)
             nk1 == Max({nk0, f1.named + 1})
             copy2 == EnteringEarlier(f1, earlier, nk1)
             f2 == Read(f1, copy2)
             nk2 == nk1 + Cardinality(DOMAIN copy2.held)
             copy3 == EnteringLive(f2, live)
             f3 == Read(f2, copy3)
             unmoved == UNCHANGED <<home, queueVars, copied>>
             counter(nk) == nextK' = IF known THEN Max({nextK, nk}) ELSE nextK
             removes(joined) == IF joined THEN BOOLEAN ELSE {FALSE}
             stand(f, gone) == IF gone THEN [file EXCEPT ![n] = f, !["pending"] = Fresh]
                               ELSE [file EXCEPT ![n] = f]
             stops(f, copy, gone) ==
                 /\ ~NothingIn(copy) /\ unmoved
                 /\ \/ file' = stand(f, gone) /\ Refused(n, f, copy, gone)
                    \/ /\ f.lines = Empty /\ WriterTakes(copy)
                       /\ file' = stand(Fresh, gone)
                       /\ left' = [left EXCEPT ![n] = {}, !["pending"] = IF gone THEN {} ELSE @]
                       /\ Counted(TRUE) /\ UNCHANGED cut
  <1>1. \/ stops(f0, copy1, FALSE) /\ counter(nk0)
        \/ stops(f1, copy2, FALSE) /\ counter(nk1)
        \/ counter(nk2) /\ \E gone \in removes(withEarlier) : stops(f2, copy3, gone)
        \/ /\ \E gone \in removes(withEarlier \/ home = "pending") :
                 /\ file' = stand(f3, gone)
                 /\ left' = [left EXCEPT ![n] = IF f3 = f0 THEN @ ELSE {},
                                         !["pending"] = IF gone THEN {} ELSE @]
           /\ TakeFile(n, f3, nk2) /\ UNCHANGED cut
    BY ZenonT(60) DEF JoinPrincipal
  <1>2. UNCHANGED <<touched, answered, settled, writes, changes, closes>>
    BY DEF JoinPrincipal, countVars
  <1>3. /\ FilesOK /\ QueueFits(lines, owed, waits, stale, nextK) /\ RestOK /\ OrdinalNames /\ Agree
        /\ nextK \in Nat /\ nextK >= 1 /\ changes \in Nat
        /\ FileOK(f0) /\ f0.marks <= changes
    BY Parts
  <1>4. known \in BOOLEAN /\ (known \/ nextK = 1)
    BY <1>3 DEF RestOK
  <1>5. /\ Moved(f0, f1, nk1, nextK) /\ nk0 \in Nat /\ nk0 >= nextK /\ nk0 <= nk1
        /\ ~known => nk1 = f1.named + 1
    <2> HIDE DEF known, f0
    <2> QED
      BY <1>3, <1>4, MovedIs
  <1>6. PICK g : FileOK(g) /\ g.lines = earlier /\ (withEarlier => g = file["pending"])
    <2>1. CASE withEarlier
      BY <1>3, <2>1 DEF FilesOK, Files
    <2>2. CASE ~withEarlier
      <3>1. FileOK(Fresh) /\ Fresh.lines = earlier
        BY <2>2, FreshOK DEF Fresh
      <3> QED
        BY <2>2, <3>1
    <2> QED BY <2>1, <2>2
  <1>7. ~known => DOMAIN live = {}
    BY <1>3, EmptyDomain DEF RestOK
  <1>8. DOMAIN live \subseteq 1 .. (nextK - 1) /\ \A k \in DOMAIN live : live[k] \in Line
    BY <1>3, EmptyDomain DEF QueueFits
  <1>9. DOMAIN live = {} \/ live = lines
    BY EmptyDomain
  <1>10. known /\ renumbers => copy1 = Renumbering(f0, nextK) /\ Renumbers(f0, nextK)
    OBVIOUS
  <1>11. ~renumbers => NothingIn(copy1)
    BY DEF NothingIn, Copy
  <1>12. home = "pending" => n = "board" /\ live = lines
    BY DEF MayJoin, LiveJoins, Files
  <1>13. renumbers => known
    OBVIOUS
  <1>14. known => nk0 = nextK
    OBVIOUS
  <1> HIDE DEF known, live, earlier, f0, nk0, renumbers, copy1, f1, nk1
  <1>15. /\ FileOK(f1) /\ f1.marks = f0.marks /\ Within(f0, f1)
         /\ nk1 \in Nat /\ nk1 >= nextK /\ nk1 > f1.named
         /\ \A k \in DOMAIN f1.lines : k >= nextK
         /\ DOMAIN f1.lines \subseteq DOMAIN f0.lines => ~Renumbers(f0, nextK)
    BY <1>5 DEF Moved
  <1>16. /\ Adds(f1, copy2) /\ FromRow(copy2, nk1) /\ Grown(f1, copy2, f2) /\ Within(g, f2)
         /\ Cardinality(DOMAIN copy2.held) \in Nat
    <2>1. LET c == EnteringEarlier(f1, g.lines, nk1)
              r == Read(f1, c)
          IN  /\ Adds(f1, c) /\ FromRow(c, nk1) /\ Grown(f1, c, r) /\ Within(g, r)
              /\ Cardinality(DOMAIN c.held) \in Nat
      BY <1>6, <1>15, EnteringEarlierIs
    <2> QED
      BY <1>6, <2>1
  <1>17. nk2 \in Nat /\ nk1 <= nk2 /\ nextK <= nk2
    BY <1>3, <1>15, <1>16
  <1> HIDE DEF copy2, f2, nk2
  <1>18. /\ FileOK(f2) /\ f2.marks <= changes /\ f2.marks = f0.marks
         /\ DOMAIN f1.lines \subseteq DOMAIN f2.lines /\ Within(f0, f2)
         /\ \A k \in DOMAIN f2.lines : k >= nextK
    <2>1. \A k \in DOMAIN copy2.held : k >= nextK
      BY <1>3, <1>15, <1>16 DEF FromRow
    <2> QED
      BY <1>3, <1>15, <1>16, <2>1 DEF Grown, Within
  <1>19. /\ Adds(f2, copy3) /\ DOMAIN copy3.held = DOMAIN live
         /\ \A k \in DOMAIN live : copy3.held[k] = live[k] /\ k \in Nat /\ k < nextK
    BY <1>3, <1>8, <1>18, EnteringLiveIs
  <1>20. Grown(f2, copy3, f3)
    BY <1>18, <1>19, AddsIs
  <1> HIDE DEF copy3, f3
  <1>21. /\ FileOK(f3) /\ f3.marks <= changes /\ Within(f0, f3) /\ Within(f2, f3)
         /\ DOMAIN f3.lines = DOMAIN f2.lines \cup DOMAIN live
         /\ \A k \in DOMAIN live : f3.lines[k] = live[k]
    BY <1>18, <1>19, <1>20 DEF Grown, Within
  <1>22. withEarlier => Within(file["pending"], f2)
    BY <1>6, <1>16
  <1>23. ASSUME NEW nk \in Nat, counter(nk), nextK <= nk
         PROVE  /\ nextK' \in Nat /\ nextK <= nextK' /\ (home = "none" => nextK' = nextK)
                /\ known => nk <= nextK'
    <2> DEFINE S == {nextK, nk}
    <2>1. S \in SUBSET Nat /\ nk \in S /\ \A s \in S : s <= nk
      BY <1>3, <1>23
    <2> HIDE DEF S
    <2>2. Max(S) = nk
      BY <2>1, MaxIs
    <2>3. nextK' = IF known THEN nk ELSE nextK
      BY <1>23, <2>2 DEF S
    <2>4. home = "none" => ~known
      BY DEF known
    <2> QED
      BY <1>3, <1>23, <2>3, <2>4
  <1>24. ASSUME unmoved PROVE UNCHANGED <<home, lines, owed, waits, spent, stale, copied>>
    BY <1>24 DEF queueVars
  <1>25. ASSUME NEW gone \in BOOLEAN, ~gone, stops(f0, copy1, gone), counter(nk0) PROVE IInv'
    <2>1. /\ nextK' \in Nat /\ nextK <= nextK' /\ (home = "none" => nextK' = nextK)
      BY <1>5, <1>23, <1>25
    <2>2. known /\ renumbers
      BY <1>11, <1>13, <1>25
    <2>3. copy1 = Renumbering(f0, nextK) /\ Renumbers(f0, nextK)
      BY <1>10, <2>2
    <2>4. \A c \in Torn(copy1) : DoneAlone(f0, c) \subseteq cut' => Leaves(f0, Read(f0, c), nextK')
      BY <1>3, <2>1, <2>3, LeavesTornRenumbering
    <2>5. Within(file[n], f0)
      BY DEF Within, f0
    <2>6. /\ UNCHANGED <<home, lines, owed, waits, spent, stale, copied>>
          /\ \/ file' = stand(f0, gone) /\ Refused(n, f0, copy1, gone)
             \/ /\ f0.lines = Empty /\ file' = stand(Fresh, gone)
                /\ left' = [left EXCEPT ![n] = {}, !["pending"] = IF gone THEN {} ELSE @]
                /\ UNCHANGED cut
      BY <1>24, <1>25
    <2> QED
      BY <1>2, <1>3, <1>25, <2>1, <2>4, <2>5, <2>6, RefusedJoin
  <1>26. ASSUME NEW gone \in BOOLEAN, ~gone, stops(f1, copy2, gone), counter(nk1) PROVE IInv'
    <2>1. /\ nextK' \in Nat /\ nextK <= nextK' /\ (home = "none" => nextK' = nextK)
          /\ known => nk1 <= nextK'
      BY <1>15, <1>23, <1>26
    <2>2. Rowed(f1, copy2, nextK')
      <3>1. ASSUME NEW j \in Nat, NEW k \in DOMAIN copy2.held, j >= nextK', j > f1.named, j < k
            PROVE  j \in DOMAIN copy2.held
        <4>1. j >= nk1
          BY <1>5, <1>15, <2>1, <3>1 DEF FileOK
        <4> QED
          BY <1>16, <3>1, <4>1 DEF FromRow
      <3> QED
        BY <3>1 DEF Rowed
    <2>3. f1.marks <= changes
      BY <1>3, <1>15
    <2>4. \A c \in Torn(copy2) : Leaves(f1, Read(f1, c), nextK')
      BY <1>15, <1>16, <2>1, <2>2, <2>3, LeavesTorn
    <2>5. Within(file[n], f1)
      BY <1>15 DEF f0
    <2>6. /\ UNCHANGED <<home, lines, owed, waits, spent, stale, copied>>
          /\ \/ file' = stand(f1, gone) /\ Refused(n, f1, copy2, gone)
             \/ /\ f1.lines = Empty /\ file' = stand(Fresh, gone)
                /\ left' = [left EXCEPT ![n] = {}, !["pending"] = IF gone THEN {} ELSE @]
                /\ UNCHANGED cut
      BY <1>24, <1>26
    <2> QED
      BY <1>2, <1>15, <1>26, <2>1, <2>3, <2>4, <2>5, <2>6, RefusedJoin
  <1>27. ASSUME counter(nk2), NEW gone \in removes(withEarlier), stops(f2, copy3, gone)
         PROVE  IInv'
    <2>1. /\ nextK' \in Nat /\ nextK <= nextK' /\ (home = "none" => nextK' = nextK)
      BY <1>17, <1>23, <1>27
    <2>2. Rowed(f2, copy3, nextK')
      BY <1>3, <1>19, <2>1 DEF Rowed
    <2>3. \A c \in Torn(copy3) : Leaves(f2, Read(f2, c), nextK')
      BY <1>18, <1>19, <2>1, <2>2, LeavesTorn
    <2>4. Within(file[n], f2)
      BY <1>18 DEF f0
    <2>5. gone \in BOOLEAN /\ (gone => withEarlier)
      BY <1>27
    <2>6. gone => n = "board" /\ home # "pending" /\ Within(file["pending"], f2)
      BY <1>22, <2>5
    <2>7. /\ UNCHANGED <<home, lines, owed, waits, spent, stale, copied>>
          /\ \/ file' = stand(f2, gone) /\ Refused(n, f2, copy3, gone)
             \/ /\ f2.lines = Empty /\ file' = stand(Fresh, gone)
                /\ left' = [left EXCEPT ![n] = {}, !["pending"] = IF gone THEN {} ELSE @]
                /\ UNCHANGED cut
      BY <1>24, <1>27
    <2> QED
      BY <1>2, <1>18, <2>1, <2>3, <2>4, <2>5, <2>6, <2>7, RefusedJoin
  <1>28. ASSUME NEW gone \in removes(withEarlier \/ home = "pending"), file' = stand(f3, gone),
                left' = [left EXCEPT ![n] = IF f3 = f0 THEN @ ELSE {},
                                     !["pending"] = IF gone THEN {} ELSE @],
                TakeFile(n, f3, nk2), UNCHANGED cut
         PROVE  IInv'
    <2>1. gone \in BOOLEAN /\ (gone => withEarlier \/ home = "pending")
      BY <1>28
    <2>2. gone => n = "board"
      BY <1>12, <2>1
    <2>3. DOMAIN file = Files /\ DOMAIN left = Files
      BY <1>3 DEF FilesOK
    <2>4. Stands(n, f3, gone) /\ left'[n] = IF f3 = f0 THEN left[n] ELSE {}
      BY <1>28, <2>1, <2>2, <2>3 DEF Stands, Files
    <2>5. file'[n] = f3
      BY <2>4 DEF Stands
    <2>6. ASSUME NEW x \in left'[n] PROVE f3 = f0 /\ Leaves(f0, x, nextK)
      <3>1. f3 = f0 /\ x \in left[n]
        BY <2>4, <2>6
      <3>2. Leaves(file[n], x, nextK)
        BY <1>3, <1>28, <3>1, LeavesKept
      <3> QED
        BY <3>1, <3>2 DEF f0
    <2>7. FilesAfter(n)
      <3>1. \A x \in left'[n] : FileOK(x) /\ x.marks <= changes
        BY <2>6 DEF Leaves
      <3> QED
        BY <1>21, <2>4, <3>1, StandsAfter
    <2>8. ASSUME NEW t \in left'[n], NEW j \in Nat, NEW k \in DOMAIN t.lines, j < k,
                 j \in DOMAIN file'[n].lines \/ (j >= nk2 /\ j > file'[n].named)
          PROVE  j \in DOMAIN t.lines
      <3>1. f3 = f0 /\ Ready(f0, t, nextK)
        BY <2>6, <2>8 DEF Leaves
      <3>2. ~Renumbers(f0, nextK)
        BY <1>15, <1>18, <1>21, <3>1
      <3>3. /\ DOMAIN f0.lines \subseteq DOMAIN t.lines
            /\ j >= nextK /\ j > f0.named /\ j < k => j \in DOMAIN t.lines
        BY <3>1, <3>2 DEF Ready
      <3> QED
        BY <1>3, <1>17, <2>5, <2>8, <3>1, <3>3
    <2>9. ASSUME NEW k \in DOMAIN answered \cap DOMAIN file'[n].lines
          PROVE  file'[n].lines[k].w = answered[k]
      <3>1. k \in Nat /\ k < nextK
        BY <1>3 DEF RestOK
      <3>2. k \in DOMAIN live /\ live = lines
        BY <1>3, <1>9, <1>18, <1>21, <2>5, <2>9, <3>1
      <3> QED
        BY <1>3, <1>21, <2>5, <2>9, <3>2 DEF OrdinalNames
    <2>10. ASSUME NEW w, gone, w \notin settled, Has(file["pending"], w) PROVE Has(f3, w)
      <3>1. CASE withEarlier
        BY <1>21, <1>22, <2>10, <3>1 DEF Within
      <3>2. CASE home = "pending"
        <4>1. PICK k \in DOMAIN file["pending"].lines : file["pending"].lines[k].w = w
          BY <2>10 DEF Has
        <4>2. Agrees(file["pending"], lines, owed, waits, stale, settled)
          BY <1>3, <3>2 DEF Agree, Files
        <4>3. k \in DOMAIN lines /\ lines[k].w = w
          BY <2>10, <4>1, <4>2 DEF Agrees
        <4>4. k \in DOMAIN f3.lines /\ f3.lines[k].w = w
          BY <1>12, <1>21, <3>2, <4>3
        <4> QED
          BY <4>4 DEF Has
      <3> QED
        BY <2>1, <2>10, <3>1, <3>2
    <2>11. WritesAfter
      <3>1. \A x \in left'[n] : Keeps(f3, x, settled \cup cut')
        BY <2>6 DEF Leaves
      <3>2. Within(file[n], f3)
        BY <1>21 DEF f0
      <3> QED
        BY <1>28, <2>4, <2>10, <3>1, <3>2, StandsWrites
    <2>12. TakeFile(n, file'[n], nk2) /\ touched' \in BOOLEAN
      BY <1>2, <1>3, <1>28, <2>5 DEF RestOK
    <2> QED
      BY <1>2, <1>17, <2>7, <2>8, <2>9, <2>11, <2>12, TakeStep
  <1> QED
    BY <1>1, <1>25, <1>26, <1>27, <1>28, ZenonT(60)

\* The board's head record reads, or will not.
LEMMA EstablishKeeps ==
    ASSUME IInv, NEW n \in Files, NEW locked \in BOOLEAN, Establish(n, locked)
    PROVE  IInv'
  <1>1. dir' = n /\ (dir = "notyet" \/ (dir = "pending" /\ n = "board"))
    BY DEF Establish
  <1>2. /\ FilesOK /\ RestOK /\ Marked /\ TailsWhere /\ TailsInOrder
        /\ nextK \in Nat /\ changes \in Nat
    BY Parts
  <1>3. /\ home # n /\ (home \in Files => home = "pending" /\ n = "board")
        /\ left[n] = {}
        /\ \A m \in Files : left[m] = {} \/ (m = "pending" /\ n = "board")
    <2>1. CASE dir = "notyet"
      BY <1>2, <2>1 DEF RestOK, TailsWhere, Files
    <2>2. CASE dir = "pending" /\ n = "board"
      BY <1>2, <2>2 DEF RestOK, TailsWhere, Files
    <2> QED
      BY <1>1, <2>1, <2>2
  <1>4. MayJoin(n)
    BY <1>3 DEF MayJoin
  <1>5. CASE JoinPrincipal(n, locked)
    BY <1>1, <1>4, <1>5, JoinKeeps
  <1>6. CASE UNCHANGED <<file, left, home, queueVars, nextK, touched,
                         answered, copied, settled, cut, countVars, refusals>>
    <2>1. /\ UNCHANGED <<file, left, nextK, home>>
          /\ UNCHANGED <<lines, owed, waits, spent, stale, copied>>
          /\ UNCHANGED <<touched, answered, settled, cut, writes, changes, closes>>
      BY <1>6 DEF queueVars, countVars
    <2>2. FilesAfter(n)
      BY <1>2, <1>3, <2>1 DEF FilesAfter, FilesOK, Marked
    <2>3. WritesAfter
      BY <2>1 DEF IInv, WritesAfter, TailsKeep, NoneLost, OnDisk, Has
    <2>4. /\ touched' \in BOOLEAN /\ nextK' \in Nat /\ nextK <= nextK' /\ home' = home
          /\ (home' = "none" => nextK' = nextK)
          /\ (home \in Files => file'[home] = file[home] /\ left'[home] = left[home])
          /\ \A t \in left'[n] : Ready(file'[n], t, nextK')
      BY <1>2, <1>3, <2>1 DEF RestOK
    <2> QED
      BY <1>1, <1>3, <2>1, <2>2, <2>3, <2>4, StopStep
  <1> QED
    BY <1>5, <1>6 DEF Establish

\* The probe, while this run's lines wait to join.
LEMMA RejoinKeeps ==
    ASSUME IInv, NEW locked \in BOOLEAN, Rejoin(locked)
    PROVE  IInv'
  <1>1. dir \in Files /\ home # dir /\ JoinPrincipal(dir, locked) /\ dir' = dir
    BY DEF Rejoin
  <1>2. RestOK /\ TailsWhere /\ TailsReady
    BY Parts
  <1>3. home \in Files => home = "pending" /\ dir = "board"
    BY <1>1, <1>2 DEF RestOK
  <1>4. \A m \in Files : left[m] = {} \/ m = dir \/ (m = "pending" /\ dir = "board")
    BY <1>2, <1>3 DEF TailsWhere
  <1>5. MayJoin(dir)
    BY <1>1, <1>2, <1>3, <1>4 DEF MayJoin, TailsReady
  <1> QED
    BY <1>1, <1>5, JoinKeeps

\* A first run finds no file.
LEMMA InitKeeps == Init => IInv
  <1> SUFFICES ASSUME Init PROVE IInv
    OBVIOUS
  <1>1. /\ file = [n \in Files |-> Fresh] /\ left = [n \in Files |-> {}]
        /\ dir = "notyet" /\ home = "none"
        /\ lines = Empty /\ owed = Empty /\ waits = 0 /\ spent = 0 /\ stale = {}
        /\ nextK = 1 /\ touched = FALSE /\ answered = Empty
        /\ copied = {} /\ settled = {} /\ cut = {} /\ writes = 0 /\ changes = 0
    BY DEF Init
  <1>2. FilesOK
    BY <1>1, FreshOK DEF FilesOK
  <1>3. QueueOK
    BY <1>1, EmptyDomain DEF QueueOK, QueueFits
  <1>4. RestOK
    <2>1. home \notin Files
      BY <1>1 DEF Files
    <2>2. writes \in 0 .. MaxWrites /\ changes \in 0 .. MaxChanges /\ spent \in 0 .. changes
      BY <1>1, StoreAssumption
    <2>3. DOMAIN answered \subseteq 1 .. (nextK - 1) /\ touched \in BOOLEAN
      BY <1>1, EmptyDomain
    <2> QED
      BY <1>1, <2>1, <2>2, <2>3 DEF RestOK
  <1>5. Marked /\ home \notin Files /\ dir \notin Files
    BY <1>1, FreshOK DEF Marked, Files
  <1>6. Agree /\ TailsInOrder /\ TailsReady /\ StaleSent
    BY <1>5 DEF Agree, TailsInOrder, TailsReady, StaleSent
  <1>7. OrdinalNames /\ TailsWhere /\ TailsKeep /\ NoneLost
    BY <1>1, EmptyDomain DEF OrdinalNames, TailsWhere, TailsKeep, NoneLost
  <1> QED
    BY <1>2, <1>3, <1>4, <1>5, <1>6, <1>7 DEF IInv, Inv

\* Every step keeps the invariant.
LEMMA NextKeeps ==
    ASSUME IInv, [Next]_vars
    PROVE  IInv'
  <1>1. ASSUME NEW doc \in Docs, Hold(doc, 0) PROVE IInv'
    BY <1>1, HoldKeeps
  <1>2. ASSUME NEW k \in DOMAIN lines, NEW cause \in Causes, NEW sent \in BOOLEAN,
               NEW at \in 0 .. MaxPos, Remark(k, cause, sent, at)
        PROVE  IInv'
    BY <1>2, RemarkKeeps
  <1>3. ASSUME NEW k \in DOMAIN lines, NEW ver \in Versions, Rewrite(k, ver) PROVE IInv'
    BY <1>3, RewriteKeeps
  <1>4. ASSUME NEW k \in DOMAIN lines, NEW at \in 0 .. MaxPos, Done(k, at) PROVE IInv'
    BY <1>4, DoneKeeps
  <1>5. ASSUME Probe PROVE IInv'
    BY <1>5, ProbeKeeps
  <1>6. ASSUME NEW n \in Files, CutUnsettled(n) PROVE IInv'
    BY <1>6, CutKeeps
  <1>7. ASSUME PrincipalHold PROVE IInv'
    BY <1>7, PrincipalHoldKeeps
  <1>8. ASSUME NEW n \in Files, NEW locked \in BOOLEAN, Establish(n, locked) PROVE IInv'
    BY <1>8, EstablishKeeps
  <1>9. ASSUME NEW locked \in BOOLEAN, Rejoin(locked) PROVE IInv'
    BY <1>9, RejoinKeeps
  <1>10. ASSUME Relaunch PROVE IInv'
    BY <1>10, RelaunchKeeps
  <1>11. CASE UNCHANGED vars
    <2>1. /\ UNCHANGED <<file, left, dir, home, lines, owed, waits, spent, stale, nextK>>
          /\ UNCHANGED <<touched, answered, copied, settled, cut, writes, changes>>
      BY <1>11 DEF vars, queueVars, countVars
    <2>2. Inv'
      BY <2>1 DEF IInv, Inv, FilesOK, QueueOK, RestOK, Marked, Agree, OrdinalNames, TailsWhere,
                  TailsInOrder, TailsReady
    <2>3. LongStays => StaleSent'
      BY <2>1 DEF IInv, StaleSent
    <2>4. TailsKeep' /\ NoneLost'
      BY <2>1 DEF IInv, TailsKeep, NoneLost, OnDisk
    <2> QED
      BY <2>2, <2>3, <2>4 DEF IInv
  <1> QED
    BY <1>1, <1>2, <1>3, <1>4, <1>5, <1>6, <1>7, <1>8, <1>9, <1>10, <1>11 DEF Next

-----------------------------------------------------------------------------
(* What the held store promises *)

\* The invariant holds of every reachable state.
THEOREM Invariant == Spec => []IInv
  <1>1. IInv /\ [Next]_vars => IInv'
    BY NextKeeps
  <1> QED
    BY <1>1, InitKeeps, PTL DEF Spec

\* Every variable has its type, at every step of every run: HeldQueue's lines
\* under ordinals PrincipalHold::next_k has passed, a copy owed for no line that
\* waits for its first, and each file's lines under ordinals it has named.
THEOREM StoreTyped == Spec => []TypeOK
  <1>1. ASSUME IInv PROVE TypeOK
    <2>1. /\ FilesOK /\ RestOK /\ QueueFits(lines, owed, waits, stale, nextK) /\ changes \in Nat
      BY <1>1, Parts
    <2>2. /\ dir \in {"notyet"} \cup Files /\ home \in {"none", "memory"} \cup Files
          /\ touched \in BOOLEAN
      BY <2>1 DEF RestOK
    <2>3. spent \in 0 .. MaxChanges
      BY <2>1, StoreAssumption DEF RestOK
    <2>4. \A n \in Files : \A f \in {file[n]} \cup left[n] :
             /\ DOMAIN f.lines \subseteq 1 .. f.named
             /\ \A k \in DOMAIN f.lines : f.lines[k] \in Line
             /\ f.marks \in Nat
      BY <2>1 DEF FilesOK, FileOK
    <2>5. /\ DOMAIN lines \subseteq 1 .. (nextK - 1) /\ \A k \in DOMAIN lines : lines[k] \in Line
          /\ DOMAIN owed \subseteq {k \in 1 .. (nextK - 1) : Holds(k)}
          /\ \A k \in DOMAIN owed : owed[k] \in [done: BOOLEAN, at: 0..MaxPos]
          /\ \A k \in DOMAIN owed : owed[k].done <=> k \notin DOMAIN lines
          /\ waits \in 0 .. nextK /\ nextK \in Nat \ {0}
          /\ stale \subseteq DOMAIN lines
      BY <2>1 DEF QueueFits, Holds
    <2> QED
      BY <2>2, <2>3, <2>4, <2>5 DEF TypeOK
  <1> QED
    BY <1>1, Invariant, PTL

\* The queue and its file never part: a reopen reads every line the queue holds
\* but those that wait for their first copy and, besides them, only lines whose
\* done is owed; each as the queue has it unless a copy of it is owed or the
\* writer refused one.  Over every copy and cut back the device refuses, every
\* compaction, join and renumbering.
THEOREM NeverPart == Spec => []FileAgrees
  <1>1. ASSUME IInv PROVE FileAgrees
    <2>1. SUFFICES ASSUME home \in Files
                   PROVE  LET f == file[home].lines
                              dones == {k \in DOMAIN owed : owed[k].done}
                          IN  /\ DOMAIN f = (DOMAIN lines \ Waiting(lines, waits)) \cup dones
                              /\ \A k \in DOMAIN f \ (DOMAIN owed \cup stale) :
                                    /\ f[k] = [lines[k] EXCEPT !.base = f[k].base]
                                    /\ f[k].base <= lines[k].base
                                    /\ dones = {} => f[k] = lines[k]
      BY DEF FileAgrees
    <2> DEFINE f == file[home]
               dones == {k \in DOMAIN owed : owed[k].done}
    <2>2. FileOK(f) /\ QueueFits(lines, owed, waits, stale, nextK)
      BY <1>1, <2>1, Parts
    <2>3. Agrees(f, lines, owed, waits, stale, settled)
      BY <1>1, <2>1, OwedCounted
    <2>4. dones = DonesOf(owed)
      BY DEF DonesOf
    <2> HIDE DEF f
    <2>5. DOMAIN f.lines = (DOMAIN lines \ Waiting(lines, waits)) \cup dones
      BY <2>3, <2>4 DEF Agrees
    <2>6. ASSUME NEW k \in DOMAIN f.lines \ (DOMAIN owed \cup stale)
          PROVE  /\ f.lines[k] = [lines[k] EXCEPT !.base = f.lines[k].base]
                 /\ f.lines[k].base <= lines[k].base
                 /\ dones = {} => f.lines[k] = lines[k]
      <3> DEFINE l == f.lines[k]
                 S == {l.base} \cup DoneAt(f, AtOf(owed), k)
                 b == Max(S)
      <3>1. \A j \in DOMAIN AtOf(owed) : AtOf(owed)[j] \in 0 .. MaxPos
        BY <2>2 DEF QueueFits, AtOf, DonesOf
      <3>2. b \in 0 .. MaxPos /\ b \in S /\ \A s \in S : s <= b
        BY <2>2, <3>1, RaiseIs
      <3>3. lines[k] = [l EXCEPT !.base = b]
        BY <2>3 DEF Agrees, WithDones, AsRead
      <3>4. l \in Line
        BY <2>2 DEF FileOK
      <3>5. dones = {} => S = {l.base}
        BY <2>4 DEF DoneAt, AtOf
      <3> HIDE DEF l, b, S
      <3>6. l = [lines[k] EXCEPT !.base = l.base] /\ lines[k].base = b
        BY <3>2, <3>3, <3>4 DEF Line
      <3>7. l.base <= b
        BY <3>2 DEF S
      <3>8. dones = {} => b = l.base
        BY <3>2, <3>5
      <3>9. dones = {} => l = lines[k]
        BY <3>6, <3>8, <3>3, <3>4 DEF Line
      <3> QED
        BY <3>6, <3>7, <3>9 DEF l
    <2> QED
      BY <2>5, <2>6 DEF f
  <1> QED
    BY <1>1, Invariant, PTL

\* No file the queue is kept in, nor what a refused copy left past it, holds a
\* line without every line standing before it: a reopen resends no burst ahead
\* of the one it was composed after.
THEOREM NeverAhead == Spec => []NoneAhead
  <1>1. ASSUME IInv PROVE NoneAhead
    <2>1. SUFFICES ASSUME home \in Files, NEW f \in {file[home]} \cup left[home],
                          NEW j \in DOMAIN lines, NEW k \in DOMAIN lines, j < k, k \in DOMAIN f.lines
                   PROVE  j \in DOMAIN f.lines
      BY DEF NoneAhead
    <2>2. QueueFits(lines, owed, waits, stale, nextK)
      BY <1>1, Parts
    <2>3. j \in Nat /\ k \in Nat /\ waits \in Nat
      BY <2>2 DEF QueueFits
    <2>4. CASE f = file[home]
      <3>1. Agrees(file[home], lines, owed, waits, stale, settled)
        BY <1>1, <2>1, OwedCounted
      <3>2. \A i \in DonesOf(owed) : i \notin DOMAIN lines
        BY <2>2 DEF QueueFits, DonesOf
      <3>3. k \notin Waiting(lines, waits)
        BY <2>1, <2>4, <3>1, <3>2 DEF Agrees
      <3>4. j \notin Waiting(lines, waits)
        BY <2>1, <2>3, <3>3 DEF Waiting
      <3> QED
        BY <2>1, <2>4, <3>1, <3>4 DEF Agrees
    <2>5. CASE f \in left[home]
      <3>1. InOrder(f, lines, nextK)
        BY <1>1, <2>1, <2>5, OwedCounted
      <3> QED
        BY <2>1, <2>3, <3>1 DEF InOrder
    <2> QED
      BY <2>1, <2>4, <2>5
  <1> QED
    BY <1>1, Invariant, PTL

\* The ordinal a call was answered names the write it held, or none, though
\* files of earlier runs are opened, renumbered and joined behind it.
THEOREM NamesHold == Spec => []OrdinalNames
  <1>1. IInv => OrdinalNames
    BY DEF IInv, Inv
  <1> QED
    BY <1>1, Invariant, PTL

\* A write a call was told is on disk stands in a file until it is kept or
\* dropped, whatever the device refuses and wherever the shell closes, save one
\* that part of a renumbering's copy named done before its line followed.
THEOREM NeverLost == Spec => []NoneLost
  <1>1. IInv => NoneLost
    BY DEF IInv
  <1> QED
    BY <1>1, Invariant, PTL

\* Where a frame past the line bound stays past it when it is shifted on, a line
\* marked sent is marked sent on disk once no copy is owed, whatever the budget
\* of re-marks refused.
THEOREM SentStands ==
    ASSUME LongStays
    PROVE  Spec => []SentOnDisk
  <1>1. ASSUME IInv PROVE SentOnDisk
    <2>1. SUFFICES ASSUME home \in Files, owed = Empty,
                          NEW k \in DOMAIN lines \ Waiting(lines, waits),
                          lines[k].sent, lines[k].ver \notin Long
                   PROVE  file[home].lines[k].sent
      BY DEF SentOnDisk
    <2> DEFINE f == file[home]
    <2>2. FileOK(f) /\ QueueFits(lines, owed, waits, stale, nextK)
      BY <1>1, <2>1, Parts
    <2>3. /\ Agrees(f, lines, owed, waits, stale, settled)
          /\ SentStays(f, lines, stale)
      BY <1>1, <2>1, OwedCounted
    <2> HIDE DEF f
    <2>4. CASE k \in stale
      BY <2>1, <2>3, <2>4 DEF SentStays, f
    <2>5. CASE k \notin stale
      <3>1. k \in DOMAIN f.lines \ (DOMAIN owed \cup stale)
        BY <2>1, <2>3, <2>5, EmptyDomain DEF Agrees
      <3>2. lines[k] = [f.lines[k] EXCEPT !.base = Max({@} \cup DoneAt(f, AtOf(owed), k))]
        BY <2>3, <3>1 DEF Agrees, WithDones, AsRead
      <3>3. f.lines[k] \in Line
        BY <2>2, <3>1 DEF FileOK
      <3>4. lines[k].sent = f.lines[k].sent
        BY <3>2, <3>3 DEF Line
      <3> QED
        BY <2>1, <3>4 DEF f
    <2> QED BY <2>4, <2>5
  <1> QED
    BY <1>1, Invariant, PTL
=============================================================================
