----------------------------- MODULE FeedProofs -----------------------------
(***************************************************************************)
(* What the change feed keeps, proved for every number of positions, every *)
(* window, and any cuts, failures, reclamations and restarts: its types,   *)
(* with the twins equal to the resident entries once the walk has landed,  *)
(* and that commits.log has no hole above the fence in force, wherever a   *)
(* restart finds it cut.                                                   *)
(*                                                                         *)
(* The log is whole because of what memory holds while the log takes no    *)
(* append.  So the invariant says what the region that pends is made of    *)
(* (`Region'), what the walk has covered of it (`Walked'), and that a log  *)
(* open to appends lacks nothing (`Full').                                 *)
(***************************************************************************)
EXTENDS Feed, Extremes

-----------------------------------------------------------------------------
(* The invariant *)

Metas == {"none", "full", "bare"}

\* The feed's memory, the walk's state and a derived file, over a journal of
\* n positions.
Inner(n) ==
    [pending: BOOLEAN, low: 0 .. n, openHead: 0 .. n, minSince: 0 .. n,
     residentFrom: 1 .. n + 1, entries: [Positions -> Metas], docs: SUBSET (1 .. n),
     masked: SUBSET (1 .. n), published: SUBSET (1 .. n), streams: SUBSET (1 .. n),
     unsorted: SUBSET (1 .. n), landingOwed: BOOLEAN, stopped: SUBSET AllFiles]

Walk(n) ==
    [pc: {"list", "sort", "walk", "land", "done", "dead"}, at: Nat, min: -1 .. n,
     below: BOOLEAN, carried: Int, proved: SUBSET (1 .. n), blind: SUBSET (1 .. n)]

DerivedFile(n) == [ents: SUBSET (1 .. n), fences: SUBSET (1 .. n)]

Typed ==
    /\ head \in 0 .. MaxPos /\ floor \in 0 .. head /\ refused \subseteq 1 .. head
    /\ docs \in [Positions -> SUBSET Documents] /\ up \in BOOLEAN
    /\ logLine \in [Positions -> Metas] /\ Holds(logLine) \subseteq 1 .. head
    /\ logFences \subseteq 1 .. head
    /\ file \in [Derived -> DerivedFile(head)]
    /\ inner \in Inner(head) /\ walk \in Walk(head)

Down == ~up => inner = EmptyInner /\ walk = IdleWalk

\* Every hole of the log below a line is at or below a fence that comes before
\* the line, so no cut keeps the line and loses the fence.
Fenced(log, fs) ==
    \A q \in Holds(log), p \in Positions :
        p < q /\ log[p] = "none" => \E n \in fs : p <= n /\ n < q

\* What memory holds while a region pends: the log ends at the region's lower
\* edge, every position recorded since the open is resident, and of the region
\* nothing is known.
Region(m, log, fs, n) ==
    m.pending =>
        /\ m.low < m.openHead /\ Holds(log) \subseteq 1 .. m.low
        /\ m.low \in Holds(log) \/ m.low = m.minSince
        /\ m.minSince \in fs \cup {0} /\ m.minSince < m.residentFrom
        /\ m.residentFrom <= m.openHead + 1
        /\ \A p \in m.openHead + 1 .. n : m.entries[p] # "none"
        /\ \A p \in m.low + 1 .. m.openHead :
              p \notin m.masked \cup m.published \cup m.unsorted

\* What the walk has covered of the region, and what each of its places has
\* established.
Walked(w, m) ==
    /\ w.blind \subseteq w.proved /\ w.proved \subseteq m.low + 1 .. m.openHead
    /\ w.pc = "walk" => m.pending
    /\ m.pending /\ w.pc \in {"sort", "walk", "land"} =>
          /\ m.low < w.at
          /\ \A p \in m.low + 1 .. m.openHead : p < w.at => p <= w.min \/ p \in w.proved
          /\ w.pc = "land" => m.openHead < w.at
    /\ w.pc \in {"walk", "land"} => m.unsorted = {}
    /\ w.pc = "done" => ~m.pending /\ m.unsorted = {} /\ ~m.landingOwed

\* A log that takes appends lacks no position above its fences.
Lacks(log, fs, n) == \E p \in 1 .. n : log[p] = "none" /\ \A f \in fs : f < p

Full(m, log, fs, n) == ~m.pending /\ "log" \notin m.stopped => ~Lacks(log, fs, n)

\* The twins and the unsorted set divide the resident entries among them.
Twins(m, w, n) ==
    /\ m.masked \cap m.published = {}
    /\ (m.masked \cup m.published) \cap m.unsorted = {}
    /\ \A p \in Positions :
          /\ m.entries[p] # "none" => m.residentFrom <= p /\ p <= n
          /\ m.residentFrom <= p =>
                (m.entries[p] # "none" <=> p \in m.masked \cup m.published \cup m.unsorted)
    /\ w.pc = "done" => \A p \in m.masked \cup m.published : m.residentFrom <= p

IInv ==
    /\ Typed /\ Down
    /\ Fenced(logLine, logFences)
    /\ Region(inner, logLine, logFences, head)
    /\ Walked(walk, inner)
    /\ up => Full(inner, logLine, logFences, head)
    /\ Twins(inner, walk, head)
    /\ inner.unsorted \subseteq Holds(logLine)

-----------------------------------------------------------------------------
(* Operators on numbers and sets of positions *)

\* The larger of two integers.
LEMMA LargerIs ==
    ASSUME NEW a \in Int, NEW b \in Int
    PROVE  /\ Larger(a, b) \in {a, b} /\ Larger(a, b) \in Int
           /\ a <= Larger(a, b) /\ b <= Larger(a, b)
  BY DEF Larger

\* The last of a set of positions, 0 where it is empty.
LEMMA LastIs ==
    ASSUME NEW N \in Nat, NEW S, S \subseteq 1 .. N
    PROVE  /\ Last(S) \in 0 .. N /\ Last(S) \in S \cup {0}
           /\ \A s \in S : s <= Last(S)
  <1> DEFINE T == S \cup {0}
  <1>1. T \in SUBSET Nat /\ T # {} /\ \A s \in T : s <= N
    OBVIOUS
  <1> HIDE DEF T
  <1>2. Max(T) \in T /\ Max(T) \in Nat /\ Max(T) <= N /\ \A s \in T : s <= Max(T)
    BY <1>1, MaxOf
  <1> QED
    BY <1>2 DEF T, Last

\* The least of an integer and a set of positions.
LEMMA MinWith ==
    ASSUME NEW t \in Int, NEW S, S \subseteq Nat
    PROVE  LET m == Min({t} \cup S)
           IN  m \in {t} \cup S /\ m \in Int /\ m <= t /\ \A s \in S : m <= s
  <1> DEFINE T == {t} \cup S
  <1>1. \E x \in T : \A y \in T : x <= y
    <2>1. CASE \A s \in S : t <= s
      BY <2>1
    <2>2. CASE \E s \in S : ~(t <= s)
      <3>1. PICK s \in S : s < t
        BY <2>2
      <3>2. PICK m \in S : \A y \in S : m <= y
        <4>1. S \in SUBSET Nat /\ S # {}
          BY <3>1
        <4> QED
          BY <4>1, LeastExists
      <3>3. m <= s /\ m \in Int /\ s \in Int
        BY <3>1, <3>2
      <3>4. m <= t
        BY <3>1, <3>3
      <3> QED
        BY <3>2, <3>4
    <2> QED
      BY <2>1, <2>2
  <1>0. T \subseteq Int
    OBVIOUS
  <1> HIDE DEF T
  <1>2. Min(T) \in T /\ \A y \in T : Min(T) <= y
    BY <1>1 DEF Min
  <1>3. t \in T /\ \A s \in S : s \in T
    BY DEF T
  <1>4. Min(T) \in Int
    BY <1>0, <1>2
  <1> QED
    BY <1>2, <1>3, <1>4 DEF T

\* The coverage of a derived file is a position its lines name, or 0.
LEMMA CoverageIs ==
    ASSUME NEW n \in Nat, NEW f \in DerivedFile(n)
    PROVE  Coverage(f) \in 0 .. n
  <1>1. f.ents \cup f.fences \subseteq 1 .. n
    BY DEF DerivedFile
  <1> QED
    BY <1>1, LastIs DEF Coverage

\* What a cut keeps of a file is a file.
LEMMA CutToIs ==
    ASSUME NEW n \in Nat, NEW f \in DerivedFile(n), NEW c \in Int
    PROVE  CutTo(f, c) \in DerivedFile(n)
  BY DEF CutTo, DerivedFile

\* The positions a log holds.
LEMMA HoldsIs ==
    ASSUME NEW log, NEW p
    PROVE  p \in Holds(log) <=> p \in Positions /\ log[p] # "none"
  BY DEF Holds

\* Fewer positions' memory, walk and files are those of more positions.
LEMMA Grows ==
    ASSUME NEW n \in Nat
    PROVE  /\ \A m \in Inner(n) : m \in Inner(n + 1)
           /\ \A w \in Walk(n) : w \in Walk(n + 1)
           /\ \A f \in DerivedFile(n) : f \in DerivedFile(n + 1)
  <1>1. /\ 0 .. n \subseteq 0 .. n + 1 /\ 1 .. n \subseteq 1 .. n + 1
        /\ 1 .. n + 1 \subseteq 1 .. n + 1 + 1 /\ -1 .. n \subseteq -1 .. n + 1
    OBVIOUS
  <1>2. SUBSET (1 .. n) \subseteq SUBSET (1 .. n + 1)
    BY <1>1
  <1> QED
    BY <1>1, <1>2 DEF Inner, Walk, DerivedFile

-----------------------------------------------------------------------------
(* Operators on the feed's memory *)

\* What neither the window nor the twins decide.
Frame(r, m) ==
    /\ r.pending = m.pending /\ r.low = m.low /\ r.openHead = m.openHead
    /\ r.minSince = m.minSince /\ r.unsorted = m.unsorted
    /\ r.landingOwed = m.landingOwed /\ r.stopped = m.stopped

TwinsOf(m) == m.masked \cup m.published

\* The window moved up: never back, to the target or less, and never past a
\* position recorded since the open while the region pends.
LEMMA EvictIs ==
    ASSUME NEW n \in Nat, NEW m \in Inner(n), NEW t \in Int, t <= n + 1
    PROVE  LET r == Evict(m, t)
           IN  /\ r \in Inner(n) /\ Frame(r, m)
               /\ r.masked = m.masked /\ r.published = m.published
               /\ r.docs = m.docs /\ r.streams = m.streams
               /\ m.residentFrom <= r.residentFrom
               /\ r.residentFrom <= t \/ r.residentFrom = m.residentFrom
               /\ ~m.pending => t <= r.residentFrom
               /\ m.pending => \A c \in Holds(m.entries) :
                     m.openHead < c /\ m.residentFrom <= c => r.residentFrom <= c
               /\ \A p \in Positions :
                     r.entries[p] = IF r.residentFrom <= p THEN m.entries[p] ELSE "none"
  <1> DEFINE since == {p \in Holds(m.entries) : p > m.openHead}
             edge == IF m.pending THEN Min({t} \cup since) ELSE t
             from == Larger(m.residentFrom, edge)
             r == Evict(m, t)
             es == [p \in Positions |-> IF p >= from THEN m.entries[p] ELSE "none"]
  <1>1. since \subseteq Nat
    BY FeedAssumption DEF Holds, Positions
  <1>2. /\ Min({t} \cup since) \in Int /\ Min({t} \cup since) <= t
        /\ \A s \in since : Min({t} \cup since) <= s
    <2> HIDE DEF since
    <2> QED
      BY <1>1, MinWith
  <1>3. edge \in Int /\ edge <= t /\ (~m.pending => edge = t)
        /\ (m.pending => \A s \in since : edge <= s)
    BY <1>2
  <1>4. m.residentFrom \in 1 .. n + 1 /\ m.entries \in [Positions -> Metas]
    BY DEF Inner
  <1>5. /\ from \in 1 .. n + 1 /\ m.residentFrom <= from /\ edge <= from
        /\ from = m.residentFrom \/ from = edge
    <2> HIDE DEF edge
    <2>1. m.residentFrom \in Int
      BY <1>4
    <2>2. from \in {m.residentFrom, edge} /\ m.residentFrom <= from /\ edge <= from
      BY <1>3, <2>1, LargerIs
    <2> QED
      BY <1>3, <1>4, <2>2
  <1>6. r = [m EXCEPT !.residentFrom = from, !.entries = es]
    BY DEF Evict
  <1>7. es \in [Positions -> Metas] /\ \A p \in Positions :
           es[p] = IF from <= p THEN m.entries[p] ELSE "none"
    <2> HIDE DEF from
    <2>1. "none" \in Metas
      BY DEF Metas
    <2>2. \A p \in Positions : p \in Int
      BY FeedAssumption DEF Positions
    <2> QED
      BY <1>4, <1>5, <2>1, <2>2
  <1>8. \A c \in Holds(m.entries) : m.openHead < c => c \in since /\ c \in Int
    BY <1>1
  <1> HIDE DEF r, es, from, edge, since
  <1>9. /\ r \in Inner(n) /\ r.residentFrom = from /\ r.entries = es /\ Frame(r, m)
        /\ r.masked = m.masked /\ r.published = m.published
        /\ r.docs = m.docs /\ r.streams = m.streams
    BY <1>5, <1>6, <1>7 DEF Inner, Frame
  <1>10. from <= t \/ from = m.residentFrom
    BY <1>3, <1>5
  <1>11. m.pending => \A c \in Holds(m.entries) :
            m.openHead < c /\ m.residentFrom <= c => from <= c
    BY <1>3, <1>4, <1>5, <1>8
  <1>12. ~m.pending => t <= from
    BY <1>3, <1>5
  <1> QED
    BY <1>5, <1>7, <1>9, <1>10, <1>11, <1>12 DEF r

\* A position folded into the twins enters one of the two.
LEMMA FoldIs ==
    ASSUME NEW n \in Nat, NEW m \in Inner(n), NEW p \in 1 .. n, NEW D
    PROVE  LET r == Fold(m, p, D)
           IN  /\ r \in Inner(n) /\ Frame(r, m)
               /\ r.residentFrom = m.residentFrom /\ r.entries = m.entries
               /\ TwinsOf(r) = TwinsOf(m) \cup {p}
               /\ m.masked \cap m.published = {} /\ p \notin TwinsOf(m)
                     => r.masked \cap r.published = {}
  <1> DEFINE r == Fold(m, p, D)
             ds == IF D # {} THEN m.docs \cup {p} ELSE m.docs
             ms == IF TakesLine("masked", D) THEN m.masked \cup {p} ELSE m.masked
             ps == IF TakesLine("masked", D) THEN m.published ELSE m.published \cup {p}
             ss == IF TakesLine("streams", D) THEN m.streams \cup {p} ELSE m.streams
  <1>1. r = [m EXCEPT !.docs = ds, !.masked = ms, !.published = ps, !.streams = ss]
    BY DEF Fold
  <1>2. /\ m.docs \in SUBSET (1 .. n) /\ m.masked \in SUBSET (1 .. n)
        /\ m.published \in SUBSET (1 .. n) /\ m.streams \in SUBSET (1 .. n)
    BY DEF Inner
  <1>3. /\ ds \in SUBSET (1 .. n) /\ ms \in SUBSET (1 .. n)
        /\ ps \in SUBSET (1 .. n) /\ ss \in SUBSET (1 .. n)
    BY <1>2
  <1>4. ms \cup ps = TwinsOf(m) \cup {p}
    BY DEF TwinsOf
  <1>5. m.masked \cap m.published = {} /\ p \notin TwinsOf(m) => ms \cap ps = {}
    BY DEF TwinsOf
  <1> HIDE DEF r, ds, ms, ps, ss
  <1>6. /\ r \in Inner(n) /\ Frame(r, m) /\ r.masked = ms /\ r.published = ps
        /\ r.residentFrom = m.residentFrom /\ r.entries = m.entries
    BY <1>1, <1>3 DEF Inner, Frame
  <1> QED
    BY <1>4, <1>5, <1>6 DEF TwinsOf, r

\* The twins dropped below a position.
LEMMA DropIs ==
    ASSUME NEW n \in Nat, NEW m \in Inner(n), NEW c \in Int
    PROVE  LET r == DropBelow(m, c)
           IN  /\ r \in Inner(n) /\ Frame(r, m)
               /\ r.residentFrom = m.residentFrom /\ r.entries = m.entries
               /\ \A p : p \in TwinsOf(r) <=> p \in TwinsOf(m) /\ p >= c
               /\ m.masked \cap m.published = {} => r.masked \cap r.published = {}
  <1> DEFINE r == DropBelow(m, c)
             ds == {p \in m.docs : p >= c}
             ms == {p \in m.masked : p >= c}
             ps == {p \in m.published : p >= c}
             ss == {p \in m.streams : p >= c}
  <1>1. r = [m EXCEPT !.docs = ds, !.masked = ms, !.published = ps, !.streams = ss]
    BY DEF DropBelow
  <1>2. /\ m.docs \in SUBSET (1 .. n) /\ m.masked \in SUBSET (1 .. n)
        /\ m.published \in SUBSET (1 .. n) /\ m.streams \in SUBSET (1 .. n)
    BY DEF Inner
  <1>3. /\ ds \in SUBSET (1 .. n) /\ ms \in SUBSET (1 .. n)
        /\ ps \in SUBSET (1 .. n) /\ ss \in SUBSET (1 .. n)
    BY <1>2
  <1>4. /\ \A p : p \in ms \cup ps <=> p \in TwinsOf(m) /\ p >= c
        /\ m.masked \cap m.published = {} => ms \cap ps = {}
    BY DEF TwinsOf
  <1> HIDE DEF r, ds, ms, ps, ss
  <1>5. /\ r \in Inner(n) /\ Frame(r, m) /\ r.masked = ms /\ r.published = ps
        /\ r.residentFrom = m.residentFrom /\ r.entries = m.entries
    BY <1>1, <1>3 DEF Inner, Frame
  <1> QED
    BY <1>4, <1>5 DEF TwinsOf, r

\* The memory once a record is made: the window below it or at it, the entry
\* resident, the position in one of the twins.
Recorded(r, m, at, meta) ==
    /\ r \in Inner(at) /\ Frame(r, m)
    /\ m.residentFrom <= r.residentFrom /\ r.residentFrom <= at
    /\ m.pending => \A c \in Holds(m.entries) \cup {at} :
          m.openHead < c /\ m.residentFrom <= c => r.residentFrom <= c
    /\ \A p \in Positions : r.entries[p] =
          IF p < r.residentFrom THEN "none" ELSE IF p = at THEN meta ELSE m.entries[p]
    /\ \A p : p \in TwinsOf(r) <=> p \in TwinsOf(m) \cup {at} /\ p >= r.residentFrom
    /\ r.masked \cap r.published = {}

\* A record makes that of the memory.
LEMMA RecordedIs ==
    ASSUME NEW n \in Nat, n + 1 \in Positions, NEW m \in Inner(n),
           NEW meta \in {"full", "bare"}, NEW D, m.masked \cap m.published = {}
    PROVE  Recorded(Trim(Fold(Admit(m, n + 1, meta), n + 1, D)), m, n + 1, meta)
  <1> DEFINE at == n + 1
             a == [m EXCEPT !.entries[at] = meta]
             t == at - Window + 1
             e == Evict(a, t)
             f == Fold(e, at, D)
             r == Trim(f)
  <1>0. at \in Nat /\ at \in 1 .. at /\ at \in Positions /\ t \in Int
        /\ t <= at /\ t <= at + 1
    BY FeedAssumption
  <1>1. m \in Inner(at)
    BY Grows
  <1>2. m.residentFrom \in 1 .. at /\ m.entries \in [Positions -> Metas]
        /\ m.openHead \in 0 .. n /\ m.masked \subseteq 1 .. n /\ m.published \subseteq 1 .. n
    BY DEF Inner
  <1> DEFINE es == [m.entries EXCEPT ![at] = meta]
  <1>3. es \in [Positions -> Metas] /\ es[at] = meta
        /\ \A p \in Positions : p # at => es[p] = m.entries[p]
    BY <1>0, <1>2 DEF Metas
  <1>4. a = [m EXCEPT !.entries = es]
    BY <1>1 DEF Inner
  <1> HIDE DEF a, es
  <1>5. /\ a \in Inner(at) /\ a.entries = es /\ Frame(a, m)
        /\ a.masked = m.masked /\ a.published = m.published
        /\ a.residentFrom = m.residentFrom
    BY <1>1, <1>3, <1>4 DEF Inner, Frame
  <1> HIDE DEF at, t
  <1>6. /\ e \in Inner(at) /\ Frame(e, a)
        /\ e.masked = a.masked /\ e.published = a.published
        /\ a.residentFrom <= e.residentFrom
        /\ e.residentFrom <= t \/ e.residentFrom = a.residentFrom
        /\ a.pending => \A c \in Holds(a.entries) :
              a.openHead < c /\ a.residentFrom <= c => e.residentFrom <= c
        /\ \A p \in Positions :
              e.entries[p] = IF e.residentFrom <= p THEN a.entries[p] ELSE "none"
    BY <1>0, <1>5, EvictIs
  <1> HIDE DEF e
  <1>7. /\ f \in Inner(at) /\ Frame(f, e)
        /\ f.residentFrom = e.residentFrom /\ f.entries = e.entries
        /\ TwinsOf(f) = TwinsOf(e) \cup {at}
        /\ e.masked \cap e.published = {} /\ at \notin TwinsOf(e)
              => f.masked \cap f.published = {}
    BY <1>0, <1>6, FoldIs
  <1> HIDE DEF f
  <1>8. f.residentFrom \in Int
    BY <1>0, <1>7 DEF Inner
  <1>9. /\ r \in Inner(at) /\ Frame(r, f)
        /\ r.residentFrom = f.residentFrom /\ r.entries = f.entries
        /\ \A p : p \in TwinsOf(r) <=> p \in TwinsOf(f) /\ p >= f.residentFrom
        /\ f.masked \cap f.published = {} => r.masked \cap r.published = {}
    BY <1>0, <1>7, <1>8, DropIs DEF Trim
  <1>10. r = Trim(Fold(Admit(m, at, meta), at, D))
    BY DEF Admit, e, a, f, t
  <1> HIDE DEF r
  <1>11. TwinsOf(e) = TwinsOf(m) /\ at \notin TwinsOf(m)
    BY <1>2, <1>5, <1>6 DEF TwinsOf, at
  <1>12. r.masked \cap r.published = {}
    BY <1>5, <1>6, <1>7, <1>9, <1>11
  <1>13. Frame(r, m)
    BY <1>5, <1>6, <1>7, <1>9 DEF Frame
  <1>14. r.residentFrom \in Int /\ m.residentFrom \in Int
    BY <1>0, <1>2, <1>8, <1>9
  <1>15. m.residentFrom <= r.residentFrom /\ r.residentFrom <= at
    BY <1>0, <1>2, <1>5, <1>6, <1>7, <1>9, <1>14
  <1>16. \A p \in Positions : r.entries[p] =
            IF p < r.residentFrom THEN "none" ELSE IF p = at THEN meta ELSE m.entries[p]
    <2>1. \A p \in Positions : p \in Int
      BY FeedAssumption DEF Positions
    <2>2. \A p \in Positions : r.entries[p] = IF r.residentFrom <= p THEN es[p] ELSE "none"
      BY <1>5, <1>6, <1>7, <1>9
    <2> QED
      BY <1>3, <1>14, <2>1, <2>2
  <1>17. m.pending => \A c \in Holds(m.entries) \cup {at} :
            m.openHead < c /\ m.residentFrom <= c => r.residentFrom <= c
    <2>1. \A c \in Holds(m.entries) \cup {at} : c \in Holds(a.entries)
      BY <1>0, <1>3, <1>5 DEF Holds
    <2> QED
      BY <1>5, <1>6, <1>7, <1>9, <2>1 DEF Frame
  <1>18. \A p : p \in TwinsOf(r) <=> p \in TwinsOf(m) \cup {at} /\ p >= r.residentFrom
    BY <1>7, <1>9, <1>11
  <1> QED
    <2>1. Recorded(r, m, at, meta)
      BY <1>9, <1>12, <1>13, <1>15, <1>16, <1>17, <1>18 DEF Recorded
    <2> QED
      BY <1>10, <2>1 DEF at

-----------------------------------------------------------------------------
(* Steps of the walk, and the end of the process *)

\* The invariant, part by part.
LEMMA Parts ==
    IInv <=> /\ Typed /\ Down /\ Fenced(logLine, logFences)
             /\ Region(inner, logLine, logFences, head) /\ Walked(walk, inner)
             /\ (up => Full(inner, logLine, logFences, head)) /\ Twins(inner, walk, head)
             /\ inner.unsorted \subseteq Holds(logLine)
  BY Zenon DEF IInv

\* The empty memory and a walk at rest satisfy every part, over any journal.
LEMMA AtRest ==
    ASSUME NEW n \in Nat, NEW log, NEW fs
    PROVE  /\ EmptyInner \in Inner(n) /\ IdleWalk \in Walk(n)
           /\ Region(EmptyInner, log, fs, n) /\ Walked(IdleWalk, EmptyInner)
           /\ Twins(EmptyInner, IdleWalk, n) /\ EmptyInner.unsorted \subseteq Holds(log)
  <1>1. EmptyInner \in Inner(n)
    <2>1. [p \in Positions |-> "none"] \in [Positions -> Metas]
      BY DEF Metas
    <2>2. 0 \in 0 .. n /\ 1 \in 1 .. n + 1
      OBVIOUS
    <2> QED
      BY <2>1, <2>2 DEF EmptyInner, Inner
  <1>2. IdleWalk \in Walk(n)
    BY DEF IdleWalk, Walk
  <1>3. Region(EmptyInner, log, fs, n)
    BY DEF EmptyInner, Region
  <1>4. Walked(IdleWalk, EmptyInner)
    BY DEF EmptyInner, IdleWalk, Walked
  <1>5. Twins(EmptyInner, IdleWalk, n)
    BY DEF EmptyInner, IdleWalk, Twins
  <1>6. EmptyInner.unsorted \subseteq Holds(log)
    BY DEF EmptyInner
  <1> QED
    BY <1>1, <1>2, <1>3, <1>4, <1>5, <1>6

\* A step of the walk alone.
LEMMA WalkStep ==
    ASSUME IInv, up, UNCHANGED <<head, docs, floor, disk, up, inner, refused>>,
           walk' \in Walk(head), Walked(walk', inner), walk'.pc # "done"
    PROVE  IInv'
  <1>1. /\ Typed /\ Fenced(logLine, logFences)
        /\ Region(inner, logLine, logFences, head)
        /\ Full(inner, logLine, logFences, head) /\ Twins(inner, walk, head)
        /\ inner.unsorted \subseteq Holds(logLine)
    BY Parts, Zenon
  <1>2. /\ head' = head /\ docs' = docs /\ floor' = floor /\ up' = up /\ inner' = inner
        /\ refused' = refused /\ logLine' = logLine /\ logFences' = logFences /\ file' = file
    BY DEF disk
  <1>3. Typed'
    BY <1>1, <1>2 DEF Typed
  <1>4. Down'
    BY <1>2 DEF Down
  <1>5. Twins(inner, walk', head)
    BY <1>1 DEF Twins
  <1> QED
    BY <1>1, <1>2, <1>3, <1>4, <1>5 DEF IInv

\* The process ends over a journal and files that keep their parts.
LEMMA DownStep ==
    ASSUME IInv, GoDown, head' \in 0 .. MaxPos, floor' \in 0 .. head',
           refused' \subseteq 1 .. head', docs' \in [Positions -> SUBSET Documents],
           logLine' = logLine, logFences' = logFences, head \in 0 .. head',
           file' \in [Derived -> DerivedFile(head')]
    PROVE  IInv'
  <1>1. /\ up' = FALSE /\ inner' = EmptyInner /\ walk' = IdleWalk
    BY DEF GoDown
  <1>2. head' \in Nat
    OBVIOUS
  <1>3. /\ inner' \in Inner(head') /\ walk' \in Walk(head')
        /\ Region(inner', logLine', logFences', head') /\ Walked(walk', inner')
        /\ Twins(inner', walk', head') /\ inner'.unsorted \subseteq Holds(logLine')
    <2>1. \A log, fs : /\ EmptyInner \in Inner(head') /\ IdleWalk \in Walk(head')
            /\ Region(EmptyInner, log, fs, head') /\ Walked(IdleWalk, EmptyInner)
            /\ Twins(EmptyInner, IdleWalk, head') /\ EmptyInner.unsorted \subseteq Holds(log)
      BY <1>2, AtRest
    <2> QED
      BY <1>1, <2>1
  <1>4. Typed'
    <2>1. 1 .. head \subseteq 1 .. head'
      BY DEF IInv, Typed
    <2> QED
      BY <1>1, <1>3, <2>1 DEF IInv, Typed
  <1>5. Down' /\ ~up'
    BY <1>1 DEF Down
  <1>6. Fenced(logLine', logFences')
    BY DEF IInv
  <1> QED
    BY <1>3, <1>4, <1>5, <1>6 DEF IInv

\* A crash keeps the invariant.
LEMMA CrashKeeps ==
    ASSUME IInv, Crash
    PROVE  IInv'
  <1>1. /\ GoDown /\ head' = head /\ floor' = floor /\ refused' = refused /\ docs' = docs
        /\ logLine' = logLine /\ logFences' = logFences /\ file' = file
    BY DEF Crash, journal, disk
  <1>2. /\ head \in 0 .. MaxPos /\ floor \in 0 .. head /\ refused \subseteq 1 .. head
        /\ docs \in [Positions -> SUBSET Documents]
        /\ file \in [Derived -> DerivedFile(head)]
    BY DEF IInv, Typed
  <1>3. head \in 0 .. head'
    BY <1>1, <1>2
  <1> QED
    BY <1>1, <1>2, <1>3, DownStep

\* A commit without its record keeps it.
LEMMA CommitThenCrashKeeps ==
    ASSUME IInv, NEW D \in DocSets, CommitThenCrash(D)
    PROVE  IInv'
  <1>1. /\ GoDown /\ head' = head + 1 /\ floor' = floor /\ refused' = refused
        /\ docs' = [docs EXCEPT ![head + 1] = D] /\ head < MaxPos
        /\ logLine' = logLine /\ logFences' = logFences /\ file' = file
    BY DEF CommitThenCrash, disk
  <1>2. /\ head \in 0 .. MaxPos /\ floor \in 0 .. head /\ refused \subseteq 1 .. head
        /\ docs \in [Positions -> SUBSET Documents]
        /\ file \in [Derived -> DerivedFile(head)] /\ MaxPos \in Nat
    BY FeedAssumption DEF IInv, Typed
  <1>3. head' \in 0 .. MaxPos /\ floor' \in 0 .. head' /\ refused' \subseteq 1 .. head'
        /\ head \in 0 .. head' /\ head \in Nat
    BY <1>1, <1>2
  <1>4. docs' \in [Positions -> SUBSET Documents]
    <2>1. D \in SUBSET Documents
      BY FeedAssumption
    <2> QED
      BY <1>1, <1>2, <2>1
  <1>5. file' \in [Derived -> DerivedFile(head')]
    <2>1. \A f \in DerivedFile(head) : f \in DerivedFile(head + 1)
      BY <1>3, Grows
    <2> QED
      BY <1>1, <1>2, <2>1
  <1> QED
    BY <1>1, <1>3, <1>4, <1>5, DownStep

\* A reclamation keeps it.
LEMMA ReclaimKeeps ==
    ASSUME IInv, NEW to \in Positions, Reclaim(to)
    PROVE  IInv'
  <1>1. /\ head' = head /\ docs' = docs /\ up' = up /\ inner' = inner /\ walk' = walk
        /\ refused' = refused /\ logLine' = logLine /\ logFences' = logFences /\ file' = file
        /\ floor' = to /\ to <= head
    BY DEF Reclaim, disk
  <1>2. Typed /\ Down
    BY DEF IInv
  <1>3. floor' \in 0 .. head
    BY <1>1, <1>2, FeedAssumption DEF Typed, Positions
  <1>4. Typed'
    BY <1>1, <1>2, <1>3 DEF Typed
  <1>5. Down'
    BY <1>1, <1>2 DEF Down
  <1> QED
    BY <1>1, <1>4, <1>5 DEF IInv

\* What the parts say of the numbers a step of the walk reads.
LEMMA WalkReads ==
    ASSUME IInv
    PROVE  /\ head \in Nat /\ floor \in 0 .. head
           /\ inner.pending \in BOOLEAN /\ inner.openHead \in 0 .. head
           /\ inner.low \in 0 .. head
           /\ inner.pending => inner.low < inner.openHead
           /\ walk.at \in Nat /\ walk.min \in -1 .. head /\ walk.below \in BOOLEAN
           /\ walk.proved \subseteq inner.low + 1 .. inner.openHead
           /\ walk.proved \subseteq 1 .. head /\ walk.blind \subseteq walk.proved
           /\ walk \in Walk(head) /\ Walked(walk, inner)
  BY FeedAssumption DEF IInv, Typed, Inner, Walk, Region, Walked

\* The listing of the boundaries keeps the invariant: what lies below the first
\* boundary listed is behind the walk's fence.
LEMMA WalkListKeeps ==
    ASSUME IInv, NEW fails \in BOOLEAN, WalkList(fails)
    PROVE  IInv'
  <1> DEFINE at == CASE fails -> inner.openHead
                     [] ~fails /\ floor <= inner.low -> inner.low + 1
                     [] OTHER -> Min({floor, inner.openHead + 1})
             min == CASE fails -> inner.openHead - 1
                      [] ~fails /\ floor <= inner.low -> -1
                      [] OTHER -> floor - 1
  <1>1. /\ up /\ UNCHANGED <<head, docs, floor, disk, up, inner, refused>>
        /\ walk.pc = "list" /\ (fails => inner.pending)
        /\ walk' = IF inner.pending
                   THEN [walk EXCEPT !.pc = "sort", !.at = at, !.min = min]
                   ELSE [walk EXCEPT !.pc = "sort"]
    BY DEF WalkList, journal
  <1>2. /\ head \in Nat /\ floor \in 0 .. head
        /\ inner.pending \in BOOLEAN /\ inner.openHead \in 0 .. head
        /\ inner.low \in 0 .. head
        /\ inner.pending => inner.low < inner.openHead
        /\ walk.proved \subseteq inner.low + 1 .. inner.openHead
        /\ walk.blind \subseteq walk.proved
        /\ walk \in Walk(head) /\ Walked(walk, inner)
    BY WalkReads
  <1>3. CASE ~inner.pending
    <2>1. walk' = [walk EXCEPT !.pc = "sort"]
      BY <1>1, <1>3
    <2>2. /\ walk' \in Walk(head) /\ walk'.pc = "sort"
          /\ walk'.proved = walk.proved /\ walk'.blind = walk.blind
      BY <1>2, <2>1 DEF Walk
    <2>3. Walked(walk', inner)
      BY <1>2, <1>3, <2>2 DEF Walked
    <2> QED
      BY <1>1, <2>2, <2>3, WalkStep
  <1>4. CASE inner.pending
    <2>1. /\ at \in Nat /\ inner.low < at /\ min \in -1 .. head
          /\ \A p \in inner.low + 1 .. inner.openHead : p < at => p <= min
      <3>1. CASE fails
        BY <1>2, <1>4, <3>1
      <3>2. CASE ~fails /\ floor <= inner.low
        BY <1>2, <1>4, <3>2
      <3>3. CASE ~fails /\ ~(floor <= inner.low)
        <4> DEFINE T == {floor, inner.openHead + 1}
        <4>1. T \in SUBSET Nat /\ T # {}
          BY <1>2
        <4>2. floor \in T /\ \A s \in T : s = floor \/ s = inner.openHead + 1
          OBVIOUS
        <4> HIDE DEF T
        <4>3. Min(T) \in T /\ Min(T) \in Nat /\ \A s \in T : Min(T) <= s
          BY <4>1, MinOf
        <4>4. at = Min(T) /\ min = floor - 1
          BY <3>3 DEF T
        <4>5. inner.low < floor /\ inner.low < inner.openHead + 1
          BY <1>2, <1>4, <3>3
        <4> HIDE DEF at, min
        <4> QED
          BY <1>2, <4>2, <4>3, <4>4, <4>5
      <3> QED
        BY <3>1, <3>2, <3>3
    <2> HIDE DEF at, min
    <2>2. walk' = [walk EXCEPT !.pc = "sort", !.at = at, !.min = min]
      BY <1>1, <1>4
    <2>3. /\ walk' \in Walk(head) /\ walk'.pc = "sort" /\ walk'.at = at /\ walk'.min = min
          /\ walk'.proved = walk.proved /\ walk'.blind = walk.blind
      BY <1>2, <2>1, <2>2 DEF Walk
    <2>4. Walked(walk', inner)
      BY <1>2, <2>1, <2>3 DEF Walked
    <2> QED
      BY <1>1, <2>3, <2>4, WalkStep
  <1> QED
    BY <1>3, <1>4

\* So does the start of the walk over the region.
LEMMA WalkStartKeeps ==
    ASSUME IInv, NEW fails \in BOOLEAN, WalkStart(fails)
    PROVE  IInv'
  <1> DEFINE below == inner.pending /\ (walk.min = -1 /\ floor <= inner.low) /\ ~fails
             pc == IF inner.pending THEN "walk" ELSE "land"
  <1>1. /\ up /\ UNCHANGED <<head, docs, floor, disk, up, inner, refused>>
        /\ walk.pc = "sort" /\ inner.unsorted = {}
        /\ walk' = [walk EXCEPT !.pc = pc, !.below = below]
    BY DEF WalkStart, journal
  <1>2. /\ walk \in Walk(head) /\ Walked(walk, inner) /\ below \in BOOLEAN
    BY WalkReads
  <1> HIDE DEF below
  <1>3. /\ walk' \in Walk(head) /\ walk'.pc = pc /\ walk'.at = walk.at
        /\ walk'.min = walk.min /\ walk'.proved = walk.proved /\ walk'.blind = walk.blind
    BY <1>1, <1>2 DEF Walk
  <1>4. Walked(walk', inner)
    BY <1>1, <1>2, <1>3 DEF Walked
  <1>5. walk'.pc # "done"
    BY <1>3
  <1> QED
    BY <1>1, <1>3, <1>4, <1>5, WalkStep

\* So does each boundary: proved, or behind a fence that the next is past.
LEMMA WalkNextKeeps ==
    ASSUME IInv, NEW fails \in BOOLEAN, WalkNext(fails)
    PROVE  IInv'
  <1> DEFINE at == walk.at
             proved == ~fails /\ (at = inner.openHead \/ floor <= at)
             blind == IF walk.below THEN walk.blind ELSE walk.blind \cup {at}
             next == IF fails THEN at + 1 ELSE floor
             min == Larger(walk.min, IF fails THEN at ELSE floor - 1)
  <1>1. /\ up /\ UNCHANGED <<head, docs, floor, disk, up, inner, refused>>
        /\ walk.pc = "walk" /\ at <= inner.openHead
        /\ walk' = IF proved
                   THEN [walk EXCEPT !.at = at + 1, !.below = TRUE,
                                     !.proved = @ \cup {at}, !.blind = blind]
                   ELSE [walk EXCEPT !.at = next, !.below = FALSE, !.min = min]
    BY DEF WalkNext, journal
  <1>2. /\ head \in Nat /\ floor \in 0 .. head /\ inner.openHead \in 0 .. head
        /\ inner.low \in 0 .. head
        /\ walk.at \in Nat /\ walk.min \in -1 .. head
        /\ walk.proved \subseteq inner.low + 1 .. inner.openHead
        /\ walk.proved \subseteq 1 .. head /\ walk.blind \subseteq walk.proved
        /\ walk \in Walk(head) /\ Walked(walk, inner)
    BY WalkReads
  <1>3. /\ inner.pending /\ inner.low < at /\ inner.unsorted = {}
        /\ \A p \in inner.low + 1 .. inner.openHead :
              p < at => p <= walk.min \/ p \in walk.proved
    BY <1>1, <1>2 DEF Walked
  <1>4. at \in inner.low + 1 .. inner.openHead /\ at \in 1 .. head
    BY <1>1, <1>2, <1>3
  <1>5. CASE proved
    <2>1. walk' = [walk EXCEPT !.at = at + 1, !.below = TRUE,
                               !.proved = @ \cup {at}, !.blind = blind]
      BY <1>1, <1>5
    <2>2. blind \subseteq walk.proved \cup {at} /\ blind \in SUBSET (1 .. head)
          /\ walk.proved \cup {at} \in SUBSET (1 .. head) /\ at + 1 \in Nat
      BY <1>2, <1>4
    <2> HIDE DEF blind
    <2>3. /\ walk' \in Walk(head) /\ walk'.pc = "walk" /\ walk'.at = at + 1
          /\ walk'.min = walk.min /\ walk'.proved = walk.proved \cup {at}
          /\ walk'.blind = blind
      BY <1>1, <1>2, <2>1, <2>2 DEF Walk
    <2>4. /\ inner.low < at + 1
          /\ \A p \in inner.low + 1 .. inner.openHead :
                p < at + 1 => p <= walk.min \/ p \in walk.proved \cup {at}
      BY <1>2, <1>3
    <2>5. Walked(walk', inner)
      BY <1>2, <1>3, <1>4, <2>2, <2>3, <2>4 DEF Walked
    <2> QED
      BY <1>1, <2>3, <2>5, WalkStep
  <1>6. CASE ~proved
    <2>1. walk' = [walk EXCEPT !.at = next, !.below = FALSE, !.min = min]
      BY <1>1, <1>6
    <2>2. /\ next \in Nat /\ inner.low < next /\ min \in -1 .. head
          /\ \A p \in inner.low + 1 .. inner.openHead : p < next => p <= min
      <3>1. ~fails => at < floor
        BY <1>2, <1>6
      <3> DEFINE b == IF fails THEN at ELSE floor - 1
      <3>2. b \in Int /\ b <= head /\ walk.min \in Int /\ next = b + 1 /\ at <= b
        BY <1>2, <1>4, <3>1
      <3> HIDE DEF b
      <3>3. min \in {walk.min, b} /\ walk.min <= min /\ b <= min /\ min \in Int
        <4>1. min = Larger(walk.min, b)
          BY DEF b
        <4> QED
          BY <3>2, <4>1, LargerIs
      <3> HIDE DEF min, next
      <3> QED
        BY <1>2, <1>3, <3>2, <3>3
    <2> HIDE DEF next, min
    <2>3. /\ walk' \in Walk(head) /\ walk'.pc = "walk" /\ walk'.at = next
          /\ walk'.min = min /\ walk'.proved = walk.proved /\ walk'.blind = walk.blind
      BY <1>1, <1>2, <2>1, <2>2 DEF Walk
    <2>4. Walked(walk', inner)
      BY <1>2, <1>3, <2>2, <2>3 DEF Walked
    <2> QED
      BY <1>1, <2>3, <2>4, WalkStep
  <1> QED
    BY <1>5, <1>6

\* So does the end of the walk, past the region.
LEMMA WalkEndKeeps ==
    ASSUME IInv, WalkEnd
    PROVE  IInv'
  <1>1. /\ up /\ UNCHANGED <<head, docs, floor, disk, up, inner, refused>>
        /\ walk.pc = "walk" /\ walk.at > inner.openHead
        /\ walk' = [walk EXCEPT !.pc = "land"]
    BY DEF WalkEnd, journal
  <1>2. walk \in Walk(head) /\ Walked(walk, inner) /\ walk.at \in Nat /\ inner.openHead \in Nat
    BY WalkReads
  <1>3. /\ walk' \in Walk(head) /\ walk'.pc = "land" /\ walk'.at = walk.at
        /\ walk'.min = walk.min /\ walk'.proved = walk.proved /\ walk'.blind = walk.blind
    BY <1>1, <1>2 DEF Walk
  <1>4. Walked(walk', inner)
    BY <1>1, <1>2, <1>3 DEF Walked
  <1> QED
    BY <1>1, <1>3, <1>4, WalkStep

\* And the death of its thread.
LEMMA WalkDiesKeeps ==
    ASSUME IInv, WalkDies
    PROVE  IInv'
  <1>1. /\ up /\ UNCHANGED <<head, docs, floor, disk, up, inner, refused>>
        /\ walk' = [IdleWalk EXCEPT !.pc = "dead"]
    BY DEF WalkDies, journal
  <1>2. /\ walk' \in Walk(head) /\ walk'.pc = "dead" /\ walk'.proved = {} /\ walk'.blind = {}
    <2>1. IdleWalk \in Walk(head)
      BY WalkReads, AtRest
    <2> QED
      BY <1>1, <2>1 DEF IdleWalk, Walk
  <1>3. Walked(walk', inner)
    BY <1>2 DEF Walked
  <1> QED
    BY <1>1, <1>2, <1>3, WalkStep

-----------------------------------------------------------------------------
(* The record *)

\* A log that takes the next position's line, where it lacked none, is fenced;
\* so is one that takes no line.
LEMMA FencedAppend ==
    ASSUME NEW n \in Nat, NEW log \in [Positions -> Metas], Holds(log) \subseteq 1 .. n,
           NEW fs, fs \subseteq 1 .. n, Fenced(log, fs), n + 1 \in Positions,
           NEW meta \in Metas, meta # "none" => ~Lacks(log, fs, n)
    PROVE  /\ Fenced([log EXCEPT ![n + 1] = meta], fs)
           /\ Holds([log EXCEPT ![n + 1] = meta]) \subseteq 1 .. n + 1
  <1> DEFINE at == n + 1
             new == [log EXCEPT ![n + 1] = meta]
  <1>1. /\ at \in Positions /\ new[at] = meta /\ \A p \in Positions : p # at => new[p] = log[p]
        /\ \A p \in Positions : p \in Nat /\ p >= 1
    BY FeedAssumption DEF Positions
  <1> HIDE DEF new
  <1>2. \A q \in Holds(new) : q = at \/ q \in Holds(log)
    BY <1>1 DEF Holds
  <1>3. Holds(new) \subseteq 1 .. n + 1
    <2>1. ASSUME NEW q \in Holds(new) PROVE q \in 1 .. n + 1
      <3>1. q = n + 1 \/ q \in 1 .. n
        BY <1>2
      <3> QED
        BY <3>1
    <2> QED
      BY <2>1
  <1>4. ASSUME NEW q \in Holds(new), NEW p \in Positions, p < q, new[p] = "none"
        PROVE  \E f \in fs : p <= f /\ f < q
    <2>1. CASE q = at
      <3>1. meta # "none"
        BY <1>1, <2>1, <1>4 DEF Holds
      <3>2. p \in 1 .. n /\ p # at
        BY <1>1, <1>4, <2>1
      <3>3. PICK f \in fs : p <= f
        BY <1>1, <1>4, <3>1, <3>2 DEF Lacks
      <3> QED
        BY <2>1, <3>3
    <2>2. CASE q # at
      <3>1. q \in Holds(log) /\ q \in 1 .. n
        BY <1>2, <2>2
      <3>2. log[p] = "none"
        <4>1. p # at
          BY <1>1, <1>4, <3>1
        <4> QED
          BY <1>1, <1>4, <4>1
      <3> QED
        BY <1>4, <3>1, <3>2 DEF Fenced
    <2> QED
      BY <2>1, <2>2
  <1> QED
    BY <1>3, <1>4 DEF Fenced, new

\* A record keeps the invariant.
LEMMA RecordKeeps ==
    ASSUME IInv, NEW D \in DocSets, NEW meta \in {"full", "bare"},
           NEW failed \in SUBSET (Fallible \cap AllFiles), Record(D, meta, failed)
    PROVE  IInv'
  <1> DEFINE at == head + 1
             m == inner
             r == Trim(Fold(Admit(m, at, meta), at, D))
             taken == Appends(m, D) \ failed
             line == IF "log" \in taken THEN meta ELSE logLine[at]
  <1>1. /\ up /\ at <= MaxPos /\ failed \subseteq Appends(m, D)
        /\ head' = at /\ docs' = [docs EXCEPT ![at] = D]
        /\ logLine' = [logLine EXCEPT ![at] = line]
        /\ file' = [f \in Derived |->
                      IF f \in taken THEN [file[f] EXCEPT !.ents = @ \cup {at}] ELSE file[f]]
        /\ inner' = [r EXCEPT !.stopped = @ \cup failed]
        /\ floor' = floor /\ logFences' = logFences /\ up' = up /\ walk' = walk
        /\ refused' = refused
    BY DEF Record
  <1>2. /\ Typed /\ Fenced(logLine, logFences)
        /\ Region(m, logLine, logFences, head) /\ Walked(walk, m)
        /\ Full(m, logLine, logFences, head) /\ Twins(m, walk, head)
        /\ m.unsorted \subseteq Holds(logLine)
    BY <1>1, Parts
  <1>3. /\ head \in Nat /\ at \in Nat /\ at \in Positions /\ m \in Inner(head)
        /\ floor \in 0 .. head /\ refused \subseteq 1 .. head
        /\ docs \in [Positions -> SUBSET Documents] /\ up \in BOOLEAN
        /\ logLine \in [Positions -> Metas] /\ Holds(logLine) \subseteq 1 .. head
        /\ logFences \subseteq 1 .. head
        /\ file \in [Derived -> DerivedFile(head)] /\ walk \in Walk(head)
    BY <1>1, <1>2, FeedAssumption DEF Typed, Positions
  <1>4. m.masked \cap m.published = {}
    BY <1>2 DEF Twins
  <1>22. MaxPos \in Nat
    BY FeedAssumption
  <1>5. /\ r \in Inner(at) /\ Frame(r, m)
        /\ m.residentFrom <= r.residentFrom /\ r.residentFrom <= at
        /\ m.pending => \A c \in Holds(m.entries) \cup {at} :
              m.openHead < c /\ m.residentFrom <= c => r.residentFrom <= c
        /\ \A p \in Positions : r.entries[p] =
              IF p < r.residentFrom THEN "none" ELSE IF p = at THEN meta ELSE m.entries[p]
        /\ \A p : p \in TwinsOf(r) <=> p \in TwinsOf(m) \cup {at} /\ p >= r.residentFrom
        /\ r.masked \cap r.published = {}
    <2>1. Recorded(Trim(Fold(Admit(inner, head + 1, meta), head + 1, D)), inner, head + 1, meta)
      BY <1>3, <1>4, RecordedIs
    <2>2. Recorded(r, m, at, meta)
      BY <2>1
    <2> HIDE DEF r, at
    <2> QED
      BY <2>2 DEF Recorded
  <1>6. /\ m.residentFrom \in 1 .. at /\ m.openHead \in 0 .. head /\ m.low \in 0 .. head
        /\ m.minSince \in 0 .. head /\ m.pending \in BOOLEAN /\ m.stopped \subseteq AllFiles
        /\ TwinsOf(m) \subseteq 1 .. head /\ m.unsorted \subseteq 1 .. head
    BY <1>3 DEF Inner, TwinsOf
  <1>7. r.residentFrom \in Nat
    BY <1>3, <1>5 DEF Inner
  <1>8. /\ "log" \in taken => ~m.pending /\ "log" \notin m.stopped
        /\ ~m.pending /\ "log" \notin m.stopped /\ "log" \notin failed => "log" \in taken
        /\ Appends(m, D) \subseteq AllFiles
    BY DEF Appends, AllFiles
  <1>9. logLine[at] = "none" /\ line \in Metas /\ (line # "none" <=> "log" \in taken)
    BY <1>3 DEF Metas, Holds
  <1> DEFINE stopped == r.stopped \cup failed
  <1>10. stopped \in SUBSET AllFiles
    BY <1>3, <1>5, <1>1, <1>8 DEF Inner
  <1> HIDE DEF r, taken, line, stopped
  <1>11. /\ inner' \in Inner(at) /\ inner'.stopped = stopped /\ inner'.pending = m.pending
         /\ inner'.low = m.low /\ inner'.openHead = m.openHead /\ inner'.minSince = m.minSince
         /\ inner'.unsorted = m.unsorted /\ inner'.landingOwed = m.landingOwed
         /\ inner'.residentFrom = r.residentFrom /\ inner'.entries = r.entries
         /\ inner'.masked = r.masked /\ inner'.published = r.published
    <2>1. inner' = [r EXCEPT !.stopped = stopped]
      BY <1>1 DEF stopped
    <2> QED
      BY <1>5, <1>10, <2>1 DEF Inner, Frame
  <1>12. Fenced(logLine', logFences') /\ Holds(logLine') \subseteq 1 .. at
    <2>1. line # "none" => ~Lacks(logLine, logFences, head)
      BY <1>2, <1>8, <1>9 DEF Full
    <2>2. /\ Fenced([logLine EXCEPT ![head + 1] = line], logFences)
          /\ Holds([logLine EXCEPT ![head + 1] = line]) \subseteq 1 .. head + 1
      BY <1>2, <1>3, <1>9, <2>1, FencedAppend
    <2> QED
      BY <1>1, <2>2
  <1>13. logLine' \in [Positions -> Metas] /\ logLine'[at] = line
         /\ \A p \in Positions : p # at => logLine'[p] = logLine[p]
    BY <1>1, <1>3, <1>9
  <1>14. \A p \in Holds(logLine) : p \in Holds(logLine')
    BY <1>3, <1>9, <1>13 DEF Holds
  <1>15. Typed'
    <2>1. D \in SUBSET Documents
      BY FeedAssumption
    <2>2. docs' \in [Positions -> SUBSET Documents]
      BY <1>1, <1>3, <2>1
    <2>3. file' \in [Derived -> DerivedFile(at)]
      <3>1. \A f \in DerivedFile(head) : f \in DerivedFile(at)
        BY <1>3, Grows
      <3>2. \A f \in DerivedFile(at) : [f EXCEPT !.ents = @ \cup {at}] \in DerivedFile(at)
        <4>1. at \in 1 .. at
          BY <1>3
        <4> QED
          BY <4>1 DEF DerivedFile
      <3> HIDE DEF at
      <3> QED
        BY <1>1, <1>3, <3>1, <3>2
    <2>4. walk \in Walk(at)
      BY <1>3, Grows
    <2>5. head' \in 0 .. MaxPos /\ floor' \in 0 .. head' /\ refused' \subseteq 1 .. head'
          /\ logFences' \subseteq 1 .. head'
      BY <1>1, <1>3, FeedAssumption
    <2> HIDE DEF at
    <2> QED
      BY <1>1, <1>3, <1>11, <1>12, <1>13, <2>2, <2>3, <2>4, <2>5 DEF Typed
  <1>16. Region(inner', logLine', logFences', at)
    <2> SUFFICES ASSUME m.pending
                 PROVE  Region(inner', logLine', logFences', at)
      BY <1>11 DEF Region
    <2>1. /\ m.low < m.openHead /\ Holds(logLine) \subseteq 1 .. m.low
          /\ m.low \in Holds(logLine) \/ m.low = m.minSince
          /\ m.minSince \in logFences \cup {0} /\ m.minSince < m.residentFrom
          /\ m.residentFrom <= m.openHead + 1
          /\ \A p \in m.openHead + 1 .. head : m.entries[p] # "none"
          /\ \A p \in m.low + 1 .. m.openHead :
                p \notin m.masked \cup m.published \cup m.unsorted
      BY <1>2 DEF Region
    <2>2. Holds(logLine') = Holds(logLine)
      BY <1>3, <1>8, <1>9, <1>13 DEF Holds
    <2>3. r.residentFrom <= m.openHead + 1
      <3> DEFINE c == m.openHead + 1
      <3>1. c \in Holds(m.entries) \cup {at}
        <4>1. c = at \/ c \in m.openHead + 1 .. head
          BY <1>3, <1>6
        <4>2. c \in Positions
          <5>1. c \in Nat /\ 1 <= c /\ c <= at
            BY <1>3, <1>6
          <5> QED
            BY <1>1, <1>3, <1>22, <5>1 DEF Positions
        <4> QED
          BY <2>1, <4>1, <4>2 DEF Holds
      <3>2. m.openHead < c /\ m.residentFrom <= c
        BY <1>6, <2>1
      <3> HIDE DEF c
      <3>3. r.residentFrom <= c
        BY <1>5, <3>1, <3>2
      <3> QED
        BY <3>3 DEF c
    <2>4. ASSUME NEW p \in m.openHead + 1 .. at PROVE r.entries[p] # "none"
      <3>1. p \in Positions /\ ~(p < r.residentFrom)
        <4>1. p \in Nat /\ 1 <= p /\ p <= at /\ m.openHead + 1 <= p
          BY <1>3, <1>6
        <4>2. ~(p < r.residentFrom)
          BY <1>6, <1>7, <2>3, <4>1
        <4> QED
          BY <1>1, <1>3, <1>22, <4>1, <4>2 DEF Positions
      <3>2. p = at \/ p \in m.openHead + 1 .. head
        BY <1>3, <1>6
      <3> QED
        BY <1>5, <2>1, <3>1, <3>2
    <2>5. ASSUME NEW p \in m.low + 1 .. m.openHead
          PROVE  p \notin r.masked \cup r.published \cup m.unsorted
      <3>1. p # at
        BY <1>3, <1>6
      <3> QED
        BY <1>5, <2>1, <3>1 DEF TwinsOf
    <2>6. m.minSince < r.residentFrom
      BY <1>5, <1>6, <1>7, <2>1
    <2> HIDE DEF at
    <2> QED
      BY <1>1, <1>11, <2>1, <2>2, <2>3, <2>4, <2>5, <2>6 DEF Region
  <1>17. Walked(walk', inner')
    BY <1>1, <1>2, <1>11 DEF Walked
  <1>18. Full(inner', logLine', logFences', at)
    <2> SUFFICES ASSUME ~m.pending, "log" \notin stopped, NEW p \in 1 .. at,
                        logLine'[p] = "none", \A f \in logFences : f < p
                 PROVE  FALSE
      BY <1>1, <1>11 DEF Full, Lacks
    <2>1. "log" \notin m.stopped /\ "log" \notin failed
      BY <1>5 DEF stopped, Frame
    <2>2. p # at
      BY <1>8, <1>9, <1>13, <2>1
    <2>3. p \in 1 .. head /\ p \in Positions
      BY <1>1, <1>3, <1>22, <2>2 DEF Positions
    <2> QED
      BY <1>2, <1>13, <2>1, <2>2, <2>3 DEF Full, Lacks
  <1>19. Twins(inner', walk', at)
    <2>1. /\ (m.masked \cup m.published) \cap m.unsorted = {}
          /\ \A p \in Positions :
                /\ m.entries[p] # "none" => m.residentFrom <= p /\ p <= head
                /\ m.residentFrom <= p =>
                      (m.entries[p] # "none" <=>
                          p \in m.masked \cup m.published \cup m.unsorted)
      BY <1>2 DEF Twins
    <2>2. (r.masked \cup r.published) \cap m.unsorted = {}
      <3>1. at \notin m.unsorted
        BY <1>3, <1>6
      <3> QED
        BY <1>5, <2>1, <3>1 DEF TwinsOf
    <2>3. ASSUME NEW p \in Positions
          PROVE  /\ r.entries[p] # "none" => r.residentFrom <= p /\ p <= at
                 /\ r.residentFrom <= p =>
                       (r.entries[p] # "none" <=>
                           p \in r.masked \cup r.published \cup m.unsorted)
      <3>1. p \in Nat
        BY FeedAssumption DEF Positions
      <3>2. CASE p < r.residentFrom
        BY <1>5, <1>7, <3>1, <3>2
      <3>3. CASE ~(p < r.residentFrom) /\ p = at
        <4>1. at \in TwinsOf(r)
          BY <1>3, <1>5, <1>7
        <4> QED
          BY <1>3, <1>5, <1>7, <3>3, <4>1 DEF TwinsOf
      <3>4. CASE ~(p < r.residentFrom) /\ p # at
        <4>1. r.entries[p] = m.entries[p]
          BY <1>5, <3>4
        <4>2. r.residentFrom <= p /\ m.residentFrom <= p
          BY <1>5, <1>6, <1>7, <3>1, <3>4
        <4>3. p \in TwinsOf(r) <=> p \in TwinsOf(m)
          BY <1>5, <1>7, <3>1, <3>4, <4>2
        <4>4. m.entries[p] # "none" => p <= at
          BY <1>3, <2>1, <3>1
        <4> QED
          BY <2>1, <4>1, <4>2, <4>3, <4>4 DEF TwinsOf
      <3> QED
        BY <3>2, <3>3, <3>4
    <2>4. \A p \in r.masked \cup r.published : r.residentFrom <= p
      <3>1. \A p \in TwinsOf(r) : p \in Nat /\ p >= r.residentFrom
        BY <1>3, <1>5 DEF Inner, TwinsOf
      <3> QED
        BY <1>7, <3>1 DEF TwinsOf
    <2> HIDE DEF at
    <2> QED
      BY <1>5, <1>11, <2>2, <2>3, <2>4 DEF Twins
  <1>20. inner'.unsorted \subseteq Holds(logLine')
    BY <1>2, <1>11, <1>14
  <1>21. Down'
    BY <1>1 DEF Down
  <1> QED
    BY <1>1, <1>12, <1>15, <1>16, <1>17, <1>18, <1>19, <1>20, <1>21 DEF IInv

-----------------------------------------------------------------------------
(* The sort *)

\* The lines a sort appends to the index file are of positions the log holds.
LEMMA LinesHeld ==
    ASSUME NEW m, NEW p \in Holds(logLine)
    PROVE  IndexLinesThrough(m, p) \subseteq Holds(logLine)
  BY DEF IndexLinesThrough

\* A sort writes derived files over the positions of the journal.
LEMMA SortFiles ==
    ASSUME NEW n \in Nat, file \in [Derived -> DerivedFile(n)], NEW p \in 1 .. n,
           NEW S, S \subseteq 1 .. n
    PROVE  /\ [file EXCEPT !["index"].ents = @ \cup S] \in [Derived -> DerivedFile(n)]
           /\ [file EXCEPT !["index"] =
                 [ents |-> @.ents \cup S,
                  fences |-> @.fences \cup (IF p \in S THEN {} ELSE {p})]]
              \in [Derived -> DerivedFile(n)]
  <1>1. "index" \in Derived
    BY DEF Derived
  <1>2. file["index"] \in DerivedFile(n)
    BY <1>1
  <1>3. /\ file["index"].ents \subseteq 1 .. n /\ file["index"].fences \subseteq 1 .. n
    BY <1>2 DEF DerivedFile
  <1> DEFINE i == [file["index"] EXCEPT !.ents = @ \cup S]
             j == [ents |-> file["index"].ents \cup S,
                   fences |-> file["index"].fences \cup (IF p \in S THEN {} ELSE {p})]
  <1>4. i \in DerivedFile(n)
    BY <1>2, <1>3 DEF DerivedFile
  <1>5. j \in DerivedFile(n)
    BY <1>3 DEF DerivedFile
  <1>6. /\ [file EXCEPT !["index"] = i] \in [Derived -> DerivedFile(n)]
        /\ [file EXCEPT !["index"] = j] \in [Derived -> DerivedFile(n)]
    <2> HIDE DEF i, j
    <2> QED
      BY <1>4, <1>5
  <1> QED
    BY <1>6

\* A sort keeps the invariant: the position passes from the unsorted set to a
\* twin.
LEMMA SortNextKeeps ==
    ASSUME IInv, NEW fails \in BOOLEAN, NEW stopAt \in 0 .. MaxPos, SortNext(fails, stopAt)
    PROVE  IInv'
  <1> DEFINE p == Min(inner.unsorted)
             answered == Classifies(p) /\ ~fails
             D == IF answered THEN docs[p] ELSE {}
             a == [inner EXCEPT !.unsorted = @ \ {p}]
             m == Fold(a, p, D)
             lines == IndexLinesThrough(m, p)
             carried == IF answered /\ p # inner.openHead THEN p ELSE -1
             stopped == IF stopAt # 0 THEN m.stopped \cup {"index"} ELSE m.stopped
  <1>1. /\ up /\ walk.pc = "sort" /\ inner.unsorted # {}
        /\ stopAt # 0 => "index" \notin inner.stopped
        /\ refused' = IF answered THEN refused \ {p} ELSE refused \cup {p}
        /\ walk' = [walk EXCEPT !.carried = carried]
        /\ file' = CASE "index" \in inner.stopped -> file
                     [] stopAt # 0 ->
                          [file EXCEPT !["index"].ents = @ \cup {q \in lines : q < stopAt}]
                     [] OTHER ->
                          [file EXCEPT !["index"] =
                             [ents |-> @.ents \cup lines,
                              fences |-> @.fences \cup (IF p \in lines THEN {} ELSE {p})]]
        /\ inner' = [m EXCEPT !.stopped = stopped]
        /\ head' = head /\ docs' = docs /\ floor' = floor
        /\ logLine' = logLine /\ logFences' = logFences /\ up' = up
    BY DEF SortNext, journal
  <1>2. /\ Typed /\ Fenced(logLine, logFences)
        /\ Region(inner, logLine, logFences, head) /\ Walked(walk, inner)
        /\ Full(inner, logLine, logFences, head) /\ Twins(inner, walk, head)
        /\ inner.unsorted \subseteq Holds(logLine)
    BY <1>1, Parts
  <1>3. /\ head \in Nat /\ inner \in Inner(head) /\ walk \in Walk(head)
        /\ refused \subseteq 1 .. head /\ Holds(logLine) \subseteq 1 .. head
        /\ file \in [Derived -> DerivedFile(head)]
    BY <1>2, FeedAssumption DEF Typed
  <1>4. p \in inner.unsorted
    <2>1. inner.unsorted \in SUBSET Nat
      BY <1>3 DEF Inner
    <2> QED
      BY <1>1, <2>1, MinOf
  <1>5. p \in 1 .. head /\ p \in Holds(logLine) /\ carried \in Int
    BY <1>2, <1>3, <1>4
  <1> HIDE DEF p, carried
  <1>6. /\ a \in Inner(head) /\ a.pending = inner.pending /\ a.low = inner.low
        /\ a.openHead = inner.openHead /\ a.minSince = inner.minSince
        /\ a.unsorted = inner.unsorted \ {p} /\ a.landingOwed = inner.landingOwed
        /\ a.stopped = inner.stopped /\ a.residentFrom = inner.residentFrom
        /\ a.entries = inner.entries
        /\ a.masked = inner.masked /\ a.published = inner.published
    BY <1>3 DEF Inner
  <1> HIDE DEF a, D
  <1>7. /\ m \in Inner(head) /\ Frame(m, a)
        /\ m.residentFrom = a.residentFrom /\ m.entries = a.entries
        /\ TwinsOf(m) = TwinsOf(a) \cup {p}
        /\ a.masked \cap a.published = {} /\ p \notin TwinsOf(a)
              => m.masked \cap m.published = {}
    BY <1>3, <1>5, <1>6, FoldIs
  <1> HIDE DEF m
  <1>8. stopped \in SUBSET AllFiles /\ ("log" \in inner.stopped => "log" \in stopped)
    BY <1>6, <1>7 DEF Inner, Frame, AllFiles, Derived
  <1> HIDE DEF stopped
  <1>9. /\ inner' \in Inner(head) /\ inner'.pending = inner.pending /\ inner'.low = inner.low
        /\ inner'.openHead = inner.openHead /\ inner'.minSince = inner.minSince
        /\ inner'.unsorted = inner.unsorted \ {p} /\ inner'.landingOwed = inner.landingOwed
        /\ inner'.stopped = stopped /\ inner'.residentFrom = inner.residentFrom
        /\ inner'.entries = inner.entries
        /\ inner'.masked = m.masked /\ inner'.published = m.published
    <2>1. /\ m.pending = inner.pending /\ m.low = inner.low /\ m.openHead = inner.openHead
          /\ m.minSince = inner.minSince /\ m.unsorted = inner.unsorted \ {p}
          /\ m.landingOwed = inner.landingOwed /\ m.residentFrom = inner.residentFrom
          /\ m.entries = inner.entries
      BY <1>6, <1>7 DEF Frame
    <2> QED
      BY <1>1, <1>7, <1>8, <2>1 DEF Inner
  <1>10. m.masked \cup m.published = inner.masked \cup inner.published \cup {p}
    BY <1>6, <1>7 DEF TwinsOf
  <1>11. file' \in [Derived -> DerivedFile(head)]
    <2>1. lines \subseteq 1 .. head
      BY <1>3, <1>5, LinesHeld
    <2> HIDE DEF lines
    <2> DEFINE some == {q \in lines : q < stopAt}
    <2>2. some \subseteq 1 .. head
      <3>1. some \subseteq lines
        BY Zenon
      <3> HIDE DEF some
      <3> QED
        BY <2>1, <3>1
    <2>3. CASE "index" \in inner.stopped
      <3>1. file' = file
        BY <1>1, <2>3
      <3> QED
        BY <1>3, <3>1
    <2>4. CASE "index" \notin inner.stopped /\ stopAt # 0
      <3>1. file' = [file EXCEPT !["index"].ents = @ \cup some]
        BY <1>1, <2>4
      <3> HIDE DEF some
      <3>2. [file EXCEPT !["index"].ents = @ \cup some] \in [Derived -> DerivedFile(head)]
        BY <1>3, <1>5, <2>2, SortFiles
      <3> QED
        BY <3>1, <3>2
    <2>5. CASE "index" \notin inner.stopped /\ stopAt = 0
      <3>1. file' = [file EXCEPT !["index"] =
                       [ents |-> @.ents \cup lines,
                        fences |-> @.fences \cup (IF p \in lines THEN {} ELSE {p})]]
        BY <1>1, <2>5
      <3>2. [file EXCEPT !["index"] =
               [ents |-> @.ents \cup lines,
                fences |-> @.fences \cup (IF p \in lines THEN {} ELSE {p})]]
            \in [Derived -> DerivedFile(head)]
        BY <1>3, <1>5, <2>1, SortFiles
      <3> QED
        BY <3>1, <3>2
    <2> QED
      BY <2>3, <2>4, <2>5
  <1>12. /\ walk' \in Walk(head) /\ walk'.pc = "sort" /\ walk'.at = walk.at
         /\ walk'.min = walk.min /\ walk'.proved = walk.proved /\ walk'.blind = walk.blind
    BY <1>1, <1>3, <1>5 DEF Walk
  <1>13. Typed'
    <2>1. refused' \subseteq 1 .. head
      BY <1>1, <1>3, <1>5
    <2> QED
      BY <1>1, <1>2, <1>9, <1>11, <1>12, <2>1 DEF Typed
  <1>14. Region(inner', logLine, logFences, head)
    <2>1. inner.pending => p \notin inner.low + 1 .. inner.openHead
      BY <1>2, <1>4 DEF Region
    <2> QED
      BY <1>2, <1>9, <1>10, <2>1 DEF Region
  <1>15. Walked(walk', inner')
    BY <1>1, <1>2, <1>9, <1>12 DEF Walked
  <1>16. Full(inner', logLine, logFences, head)
    BY <1>2, <1>8, <1>9 DEF Full
  <1>17. Twins(inner', walk', head)
    <2>1. /\ inner.masked \cap inner.published = {}
          /\ (inner.masked \cup inner.published) \cap inner.unsorted = {}
          /\ \A q \in Positions :
                /\ inner.entries[q] # "none" => inner.residentFrom <= q /\ q <= head
                /\ inner.residentFrom <= q =>
                     (inner.entries[q] # "none" <=>
                         q \in inner.masked \cup inner.published \cup inner.unsorted)
      BY <1>2 DEF Twins
    <2>2. p \notin TwinsOf(a)
      BY <1>4, <1>6, <2>1 DEF TwinsOf
    <2>3. m.masked \cap m.published = {}
      BY <1>6, <1>7, <2>1, <2>2
    <2>4. /\ (m.masked \cup m.published) \cap (inner.unsorted \ {p}) = {}
          /\ \A q : q \in m.masked \cup m.published \cup (inner.unsorted \ {p}) <=>
                       q \in inner.masked \cup inner.published \cup inner.unsorted
      BY <1>4, <1>10, <2>1
    <2> QED
      BY <1>9, <1>12, <2>1, <2>3, <2>4 DEF Twins
  <1>18. inner'.unsorted \subseteq Holds(logLine)
    BY <1>2, <1>9
  <1>19. Down'
    BY <1>1 DEF Down
  <1> QED
    BY <1>1, <1>2, <1>13, <1>14, <1>15, <1>16, <1>17, <1>18, <1>19 DEF IInv

-----------------------------------------------------------------------------
(* The open *)

\* A restart finds each file cut at a position of the journal, or whole.
LEMMA CutsIs ==
    ASSUME head \in Nat, NEW cut \in Cuts
    PROVE  \A f \in AllFiles : cut[f] \in 0 .. head
  <1> DEFINE Few == {T \in SUBSET AllFiles : Cardinality(T) <= MaxCuts}
             damage == UNION {[S -> 0 .. head - 1] : S \in Few}
  <1>1. PICK c \in damage : cut = [f \in AllFiles |-> IF f \in DOMAIN c THEN c[f] ELSE head]
    BY Zenon DEF Cuts
  <1> HIDE DEF Few
  <1>2. PICK S \in Few : c \in [S -> 0 .. head - 1]
    BY Zenon
  <1>3. \A f \in DOMAIN c : c[f] \in 0 .. head - 1
    BY <1>2, Zenon
  <1>4. \A f \in DOMAIN c : c[f] \in 0 .. head
    <2>1. \A k \in 0 .. head - 1 : k \in 0 .. head
      OBVIOUS
    <2> QED
      BY <1>3, <2>1, Zenon
  <1>5. head \in 0 .. head
    OBVIOUS
  <1>6. ASSUME NEW f \in AllFiles PROVE cut[f] \in 0 .. head
    <2>1. cut[f] = IF f \in DOMAIN c THEN c[f] ELSE head
      BY <1>1, Zenon
    <2> QED
      BY <1>4, <1>5, <2>1, Zenon
  <1> QED
    BY <1>6, Zenon

\* What the log answers when it opens: every position it holds above its fence,
\* up to the last.
Opened(o, log, fs, n, c) ==
    /\ o.fence \in 0 .. n /\ o.fence \in {k \in fs : k <= c} \cup {0}
    /\ \A k \in fs : k <= c => k <= o.fence
    /\ o.held = {p \in Holds(log) : o.fence < p /\ p <= c}
    /\ o.low \in 0 .. n /\ o.low \in o.held \cup {o.fence} /\ o.fence <= o.low
    /\ \A p \in o.held : p <= o.low
    /\ o.from \in 1 .. n + 1 /\ o.fence < o.from

LEMMA OpenLogIs ==
    ASSUME head \in Nat, Holds(logLine) \subseteq 1 .. head, logFences \subseteq 1 .. head,
           NEW cut, cut["log"] \in 0 .. head
    PROVE  Opened(OpenLog(cut), logLine, logFences, head, cut["log"])
  <1> DEFINE c == cut["log"]
             fs == {n \in logFences : n <= c}
             fence == Last(fs)
             held == {p \in Holds(logLine) : fence < p /\ p <= c}
             T == held \cup {fence}
             from == Larger(fence + 1, head - Window + 1)
  <1>1. OpenLog(cut) = [fence |-> fence, held |-> held, low |-> Max(T), from |-> from]
    BY DEF OpenLog
  <1>2. fs \subseteq 1 .. head
    OBVIOUS
  <1>3. fence \in 0 .. head /\ fence \in fs \cup {0} /\ \A k \in fs : k <= fence
    <2> HIDE DEF fs
    <2> QED
      BY <1>2, LastIs
  <1>4. \A k \in logFences : k <= c => k <= fence
    BY <1>3
  <1> HIDE DEF fence
  <1>5. T \in SUBSET Nat /\ T # {} /\ \A s \in T : s <= head
    BY <1>3
  <1>6. fence \in T /\ \A p \in held : p \in T
    OBVIOUS
  <1> HIDE DEF T
  <1>7. Max(T) \in T /\ Max(T) \in Nat /\ Max(T) <= head /\ \A s \in T : s <= Max(T)
    BY <1>5, MaxOf
  <1>8. Max(T) \in 0 .. head /\ fence <= Max(T) /\ \A p \in held : p <= Max(T)
    BY <1>6, <1>7
  <1>9. from \in 1 .. head + 1 /\ fence < from
    <2> DEFINE a == fence + 1
               b == head - Window + 1
    <2>1. a \in Int /\ b \in Int /\ a <= head + 1 /\ b <= head + 1 /\ 1 <= a /\ fence \in Int
      BY <1>3, FeedAssumption
    <2> HIDE DEF a, b
    <2>2. Larger(a, b) \in {a, b} /\ Larger(a, b) \in Int /\ a <= Larger(a, b)
      BY <2>1, LargerIs
    <2>3. Larger(a, b) \in 1 .. head + 1 /\ a <= from
      BY <2>1, <2>2 DEF a, b
    <2> QED
      BY <1>3, <2>1, <2>3 DEF a, b
  <1>10. Max(T) \in held \cup {fence}
    BY <1>7 DEF T
  <1>11. fence \in {k \in logFences : k <= c} \cup {0}
    BY <1>3
  <1> HIDE DEF from, held, fs, c
  <1>12. /\ OpenLog(cut).fence = fence /\ OpenLog(cut).held = held
         /\ OpenLog(cut).low = Max(T) /\ OpenLog(cut).from = from
    BY <1>1
  <1>13. held = {p \in Holds(logLine) : fence < p /\ p <= c}
    BY DEF held
  <1>14. Opened(OpenLog(cut), logLine, logFences, head, c)
    BY <1>3, <1>4, <1>8, <1>9, <1>10, <1>11, <1>12, <1>13 DEF Opened
  <1> QED
    BY <1>14 DEF c

\* The coverage the open closes the files at is a position of the journal, or 0.
LEMMA CoveredIs ==
    ASSUME NEW n \in Nat, NEW low \in 0 .. n, NEW U, U \subseteq 1 .. n
    PROVE  Covered(low, U) \in 0 .. n
  <1> DEFINE T == {low} \cup {p - 1 : p \in U}
  <1>1. T \in SUBSET Nat /\ T # {} /\ low \in T
    OBVIOUS
  <1> HIDE DEF T
  <1>2. Min(T) \in Nat /\ Min(T) <= low
    BY <1>1, MinOf
  <1>3. Covered(low, U) = Min(T)
    BY DEF Covered, T
  <1> QED
    BY <1>2, <1>3

\* A file closed at a coverage is a file.
LEMMA ClosedIs ==
    ASSUME NEW n \in Nat, NEW S, S \subseteq 1 .. n, NEW F, F \subseteq 1 .. n,
           NEW c \in 0 .. n
    PROVE  [ents |-> S, fences |-> F \cup (IF c > Last(S \cup F) THEN {c} ELSE {})]
              \in DerivedFile(n)
  <1>1. Last(S \cup F) \in 0 .. n
    <2>1. S \cup F \subseteq 1 .. n
      OBVIOUS
    <2> QED
      BY <2>1, LastIs
  <1> DEFINE G == F \cup (IF c > Last(S \cup F) THEN {c} ELSE {})
  <1>2. G \subseteq 1 .. n
    BY <1>1
  <1> HIDE DEF G
  <1>3. [ents |-> S, fences |-> G] \in DerivedFile(n)
    BY <1>2 DEF DerivedFile
  <1> QED
    BY <1>3 DEF G

\* The lines of a log up to a cut: no hole of theirs loses its fence.
LEMMA CutFenced ==
    ASSUME head \in Nat, logLine \in [Positions -> Metas],
           Holds(logLine) \subseteq 1 .. head, logFences \subseteq 1 .. head,
           Fenced(logLine, logFences), NEW c \in 0 .. head, NEW log, NEW fs,
           log = [p \in Positions |-> IF p <= c THEN logLine[p] ELSE "none"],
           fs = {n \in logFences : n <= c}
    PROVE  /\ log \in [Positions -> Metas] /\ fs \subseteq 1 .. head
           /\ \A p : p \in Holds(log) <=> p \in Holds(logLine) /\ p <= c
           /\ Fenced(log, fs)
  <1>1. \A p \in Positions : log[p] = IF p <= c THEN logLine[p] ELSE "none"
    OBVIOUS
  <1>2. log \in [Positions -> Metas] /\ fs \subseteq 1 .. head
    BY DEF Metas
  <1>3. \A p : p \in Holds(log) <=> p \in Holds(logLine) /\ p <= c
    BY <1>1 DEF Holds
  <1>4. ASSUME NEW q \in Holds(log), NEW p \in Positions, p < q, log[p] = "none"
        PROVE  \E n \in fs : p <= n /\ n < q
    <2>1. q \in Holds(logLine) /\ q <= c /\ q \in 1 .. head
      BY <1>3
    <2>2. p \in Nat
      BY FeedAssumption DEF Positions
    <2>3. p <= c
      BY <1>4, <2>1, <2>2
    <2>4. logLine[p] = "none"
      BY <1>1, <1>4, <2>3
    <2>5. PICK n \in logFences : p <= n /\ n < q
      BY <1>4, <2>1, <2>4 DEF Fenced
    <2>6. n \in Nat /\ n <= c
      BY <2>1, <2>5
    <2> QED
      BY <2>5, <2>6
  <1> QED
    BY <1>2, <1>3, <1>4 DEF Fenced

\* The files an open leaves.
LEMMA OpenFiles ==
    ASSUME IInv, NEW cut, \A f \in AllFiles : cut[f] \in 0 .. head, OpenOver(cut)
    PROVE  file' \in [Derived -> DerivedFile(head)]
  <1> DEFINE opened == OpenLog(cut)
             held == opened.held
             low == opened.low
             unsorted == Unsorted(held, CutTo(file["index"], cut["index"]))
             covered == Covered(low, unsorted)
             Back(f) == CutTo(file[f], Min({cut[f], covered}))
             index == Back("index")
             sorted == held \ unsorted
             answered == FileDocs(logLine, index)
             With(f) == {p \in sorted : TakesLine(f, answered[p])}
             InFile(f) == LET back == Back(f)
                              claim == Coverage(back)
                          IN  back.ents \cup {p \in With(f) : p > claim}
             Closed(f) == LET ents == {p \in InFile(f) : p <= covered}
                              fences == Back(f).fences
                          IN  [ents |-> ents,
                               fences |-> fences \cup (IF covered > Last(ents \cup fences)
                                                       THEN {covered} ELSE {})]
  <1>1. file' = [f \in Derived |-> Closed(f)]
    BY DEF OpenOver
  <1>2. /\ head \in Nat /\ Holds(logLine) \subseteq 1 .. head /\ logFences \subseteq 1 .. head
        /\ file \in [Derived -> DerivedFile(head)]
    BY FeedAssumption DEF IInv, Typed
  <1>3. cut["log"] \in 0 .. head
    BY DEF AllFiles
  <1>4. Opened(opened, logLine, logFences, head, cut["log"])
    BY <1>2, <1>3, OpenLogIs
  <1> HIDE DEF opened
  <1>5. held \subseteq 1 .. head /\ low \in 0 .. head
    BY <1>2, <1>4 DEF Opened
  <1> HIDE DEF held, low
  <1>6. unsorted \subseteq 1 .. head /\ sorted \subseteq 1 .. head
    BY <1>5 DEF Unsorted
  <1> HIDE DEF unsorted, sorted
  <1>7. covered \in 0 .. head
    BY <1>2, <1>5, <1>6, CoveredIs
  <1> HIDE DEF covered, answered
  <1>8. ASSUME NEW f \in Derived PROVE Closed(f) \in DerivedFile(head)
    <2>1. Back(f) \in DerivedFile(head)
      <3> DEFINE T == {cut[f], covered}
      <3>1. T \in SUBSET Nat /\ T # {}
        BY <1>7 DEF AllFiles
      <3> HIDE DEF T
      <3>2. Min(T) \in Int
        BY <3>1, MinOf
      <3>3. CutTo(file[f], Min(T)) \in DerivedFile(head)
        BY <1>2, <3>2, CutToIs
      <3> QED
        BY <3>3 DEF T
    <2> DEFINE back == Back(f)
               ents == {p \in InFile(f) : p <= covered}
               fences == back.fences
    <2>2. With(f) \subseteq 1 .. head
      BY <1>6
    <2> HIDE DEF With, Back
    <2>3. back.ents \subseteq 1 .. head /\ fences \subseteq 1 .. head
      BY <2>1 DEF DerivedFile
    <2>4. ents \subseteq 1 .. head
      BY <2>2, <2>3
    <2>5. Closed(f) = [ents |-> ents,
                       fences |-> fences \cup (IF covered > Last(ents \cup fences)
                                               THEN {covered} ELSE {})]
      OBVIOUS
    <2> HIDE DEF ents, fences, back, Closed
    <2> QED
      BY <1>2, <1>7, <2>3, <2>4, <2>5, ClosedIs
  <1> HIDE DEF Closed
  <1> QED
    BY <1>1, <1>8

\* What an open makes of the memory and the walk: the held positions divided
\* among the twins and the unsorted set, and nothing walked.
LEMMA OpenMemory ==
    ASSUME IInv, NEW cut, OpenOver(cut)
    PROVE  LET o == OpenLog(cut)
           IN  \E U, ds, ss, M \in SUBSET o.held :
                 LET window == {p \in o.held \ U : p >= o.from}
                     rest == head > o.low \/ U # {}
                 IN  /\ ds \subseteq window /\ ss \subseteq window /\ M \subseteq window
                     /\ inner' = [pending |-> head > o.low, low |-> o.low,
                                  openHead |-> head, minSince |-> o.fence,
                                  residentFrom |-> o.from,
                                  entries |-> [p \in Positions |->
                                     IF p \in o.held /\ p >= o.from
                                     THEN logLine[p] ELSE "none"],
                                  docs |-> ds, masked |-> M, published |-> window \ M,
                                  streams |-> ss, unsorted |-> U, landingOwed |-> rest,
                                  stopped |-> {}]
                     /\ walk' = [IdleWalk EXCEPT !.pc = IF rest THEN "list" ELSE "done"]
  <1> DEFINE opened == OpenLog(cut)
             held == opened.held
             low == opened.low
             from == opened.from
             unsorted == Unsorted(held, CutTo(file["index"], cut["index"]))
             covered == Covered(low, unsorted)
             Back(f) == CutTo(file[f], Min({cut[f], covered}))
             index == Back("index")
             sorted == held \ unsorted
             answered == FileDocs(logLine, index)
             With(f) == {p \in sorted : TakesLine(f, answered[p])}
             InFile(f) == LET back == Back(f)
                              claim == Coverage(back)
                          IN  back.ents \cup {p \in With(f) : p > claim}
             window == {p \in sorted : p >= from}
             masked == window \cap InFile("masked")
             rest == head > low \/ unsorted # {}
  <1>1. /\ inner' = [pending |-> head > low, low |-> low, openHead |-> head,
                     minSince |-> opened.fence, residentFrom |-> from,
                     entries |-> [p \in Positions |->
                                    IF p \in held /\ p >= from THEN logLine[p] ELSE "none"],
                     docs |-> window \cap With("index"),
                     masked |-> masked, published |-> window \ masked,
                     streams |-> window \cap InFile("streams"),
                     unsorted |-> unsorted, landingOwed |-> rest, stopped |-> {}]
        /\ walk' = [IdleWalk EXCEPT !.pc = IF rest THEN "list" ELSE "done"]
    BY DEF OpenOver
  <1>2. unsorted \in SUBSET held
    BY DEF Unsorted
  <1> DEFINE ds == window \cap With("index")
             ss == window \cap InFile("streams")
  <1>3. ds \subseteq window /\ ss \subseteq window /\ masked \subseteq window
    <2> HIDE DEF window, With, InFile
    <2> QED
      OBVIOUS
  <1>4. ds \in SUBSET held /\ ss \in SUBSET held /\ masked \in SUBSET held
    <2>1. window \subseteq held
      OBVIOUS
    <2> HIDE DEF window, ds, ss, masked
    <2> QED
      BY <1>3, <2>1
  <1> HIDE DEF opened, unsorted, With, InFile, masked, ds, ss
  <1>5. /\ inner' = [pending |-> head > low, low |-> low, openHead |-> head,
                     minSince |-> opened.fence, residentFrom |-> from,
                     entries |-> [p \in Positions |->
                                    IF p \in held /\ p >= from THEN logLine[p] ELSE "none"],
                     docs |-> ds, masked |-> masked, published |-> window \ masked,
                     streams |-> ss,
                     unsorted |-> unsorted, landingOwed |-> rest, stopped |-> {}]
        /\ walk' = [IdleWalk EXCEPT !.pc = IF rest THEN "list" ELSE "done"]
    BY <1>1, Zenon DEF ds, ss
  <1> QED
    BY <1>2, <1>3, <1>4, <1>5, ZenonT(60) DEF opened

\* An open keeps the invariant: what it finds of the log has its fence, the
\* region begins where the log ends, and a log with no region behind it lacks
\* nothing.
LEMMA OpenKeeps ==
    ASSUME IInv, Open
    PROVE  IInv'
  <1>1. PICK cut \in Cuts : OpenOver(cut)
    BY DEF Open
  <1>2. /\ head \in Nat /\ logLine \in [Positions -> Metas]
        /\ Holds(logLine) \subseteq 1 .. head /\ logFences \subseteq 1 .. head
        /\ Fenced(logLine, logFences) /\ Typed
    BY FeedAssumption DEF IInv, Typed
  <1>3. \A f \in AllFiles : cut[f] \in 0 .. head
    BY <1>2, CutsIs
  <1> DEFINE c == cut["log"]
             o == OpenLog(cut)
             fence == o.fence
             held == o.held
             low == o.low
             from == o.from
  <1>4. c \in 0 .. head
    BY <1>3 DEF AllFiles
  <1>5. Opened(o, logLine, logFences, head, c)
    BY <1>2, <1>4, OpenLogIs
  <1>6. file' \in [Derived -> DerivedFile(head)]
    BY <1>1, <1>3, OpenFiles
  <1>7. /\ logLine' = [p \in Positions |-> IF p <= c THEN logLine[p] ELSE "none"]
        /\ logFences' = {n \in logFences : n <= c}
    BY <1>1 DEF OpenOver
  <1>8. /\ logLine' \in [Positions -> Metas] /\ logFences' \subseteq 1 .. head
        /\ \A p : p \in Holds(logLine') <=> p \in Holds(logLine) /\ p <= c
        /\ Fenced(logLine', logFences')
    BY <1>2, <1>4, <1>7, CutFenced
  <1>9. PICK U, ds, ss, M \in SUBSET held :
          LET window == {p \in held \ U : p >= from}
              rest == head > low \/ U # {}
          IN  /\ ds \subseteq window /\ ss \subseteq window /\ M \subseteq window
              /\ inner' = [pending |-> head > low, low |-> low,
                           openHead |-> head, minSince |-> fence, residentFrom |-> from,
                           entries |-> [p \in Positions |->
                              IF p \in held /\ p >= from THEN logLine[p] ELSE "none"],
                           docs |-> ds, masked |-> M, published |-> window \ M,
                           streams |-> ss, unsorted |-> U, landingOwed |-> rest,
                           stopped |-> {}]
              /\ walk' = [IdleWalk EXCEPT !.pc = IF rest THEN "list" ELSE "done"]
    BY <1>1, OpenMemory, Zenon
  <1> DEFINE window == {p \in held \ U : p >= from}
             rest == head > low \/ U # {}
             es == [p \in Positions |->
                      IF p \in held /\ p >= from THEN logLine[p] ELSE "none"]
             ps == window \ M
  <1>10. /\ head' = head /\ docs' = docs /\ floor' = floor /\ refused' = refused
         /\ up' = TRUE
    BY DEF Open, journal
  <1>11. /\ fence \in 0 .. head /\ fence \in logFences' \cup {0}
         /\ \A k \in logFences' : k <= fence
         /\ held = {p \in Holds(logLine) : fence < p /\ p <= c}
         /\ low \in 0 .. head /\ low \in held \cup {fence} /\ fence <= low
         /\ \A p \in held : p <= low
         /\ from \in 1 .. head + 1 /\ fence < from
    BY <1>5, <1>7 DEF Opened
  <1> HIDE DEF c, o, fence, held, low, from
  <1>12. /\ held \subseteq 1 .. head /\ \A p \in held : p \in Holds(logLine')
         /\ \A p \in held : p \in Positions /\ logLine[p] # "none"
    BY <1>2, <1>8, <1>11 DEF Holds
  <1>13. es \in [Positions -> Metas] /\ \A p \in Positions :
            es[p] = IF p \in held /\ p >= from THEN logLine[p] ELSE "none"
    BY <1>2 DEF Metas
  <1>14. window \subseteq held /\ U \subseteq held /\ window \cap U = {}
         /\ M \cup ps = window /\ M \cap ps = {}
         /\ (\A p : p \in window \/ (p \in U /\ p >= from) <=> p \in held /\ p >= from)
         /\ (\A p \in window : p >= from)
    BY <1>9
  <1>15. /\ ds \subseteq 1 .. head /\ ss \subseteq 1 .. head /\ M \subseteq 1 .. head
         /\ ps \subseteq 1 .. head /\ U \subseteq 1 .. head
    BY <1>9, <1>12, <1>14
  <1>16. /\ inner' = [pending |-> head > low, low |-> low,
                      openHead |-> head, minSince |-> fence, residentFrom |-> from,
                      entries |-> es, docs |-> ds, masked |-> M, published |-> ps,
                      streams |-> ss, unsorted |-> U, landingOwed |-> rest,
                      stopped |-> {}]
         /\ walk' = [IdleWalk EXCEPT !.pc = IF rest THEN "list" ELSE "done"]
    BY <1>9, Zenon
  <1> HIDE DEF es, ps, window
  <1>17. /\ inner' \in Inner(head) /\ inner'.pending = (head > low) /\ inner'.low = low
         /\ inner'.openHead = head /\ inner'.minSince = fence /\ inner'.residentFrom = from
         /\ inner'.entries = es /\ inner'.masked = M /\ inner'.published = ps
         /\ inner'.unsorted = U /\ inner'.landingOwed = rest /\ inner'.stopped = {}
    <2>1. (head > low) \in BOOLEAN /\ rest \in BOOLEAN /\ head \in 0 .. head
      BY <1>2
    <2> HIDE DEF rest
    <2>2. inner' \in Inner(head)
      BY <1>11, <1>13, <1>15, <1>16, <2>1 DEF Inner
    <2> QED
      BY <1>16, <2>2
  <1>18. /\ walk' \in Walk(head) /\ walk'.proved = {} /\ walk'.blind = {}
         /\ walk'.pc = IF rest THEN "list" ELSE "done"
    <2> DEFINE pc == IF rest THEN "list" ELSE "done"
    <2>1. pc \in {"list", "done"} /\ walk' = [IdleWalk EXCEPT !.pc = pc]
      BY <1>16
    <2>2. IdleWalk \in Walk(head) /\ IdleWalk.proved = {} /\ IdleWalk.blind = {}
      BY <1>2 DEF IdleWalk, Walk
    <2> HIDE DEF pc
    <2>3. /\ walk' \in Walk(head) /\ walk'.proved = {} /\ walk'.blind = {} /\ walk'.pc = pc
      BY <2>1, <2>2 DEF Walk
    <2> QED
      BY <2>3 DEF pc
  <1>19. Holds(logLine') \subseteq 1 .. low
    <2> SUFFICES ASSUME NEW p \in Holds(logLine') PROVE p \in 1 .. low
      OBVIOUS
    <2>1. p \in Holds(logLine) /\ p <= c /\ p \in 1 .. head
      BY <1>2, <1>8
    <2>2. CASE fence < p
      BY <1>11, <2>1, <2>2
    <2>3. CASE ~(fence < p)
      BY <1>11, <2>1, <2>3
    <2> QED
      BY <2>2, <2>3
  <1>20. Typed'
    <2>1. Holds(logLine') \subseteq 1 .. head
      BY <1>2, <1>8
    <2> QED
      BY <1>2, <1>6, <1>8, <1>10, <1>17, <1>18, <2>1 DEF Typed
  <1>21. Region(inner', logLine', logFences', head)
    <2> SUFFICES ASSUME head > low
                 PROVE  /\ low < head /\ Holds(logLine') \subseteq 1 .. low
                        /\ low \in Holds(logLine') \/ low = fence
                        /\ fence \in logFences' \cup {0} /\ fence < from
                        /\ from <= head + 1
                        /\ \A p \in head + 1 .. head : es[p] # "none"
                        /\ \A p \in low + 1 .. head : p \notin M \cup ps \cup U
      BY <1>17 DEF Region
    <2>1. low < head /\ (low \in Holds(logLine') \/ low = fence)
      BY <1>2, <1>11, <1>12
    <2>2. \A p \in head + 1 .. head : es[p] # "none"
      BY <1>2
    <2>3. ASSUME NEW p \in low + 1 .. head PROVE p \notin held
      <3>1. ~(p <= low)
        BY <1>11
      <3> QED
        BY <1>11, <3>1
    <2>4. \A p \in low + 1 .. head : p \notin M \cup ps \cup U
      BY <1>14, <2>3
    <2> QED
      BY <1>11, <1>19, <2>1, <2>2, <2>4
  <1>22. Walked(walk', inner')
    BY <1>17, <1>18 DEF Walked
  <1>23. Full(inner', logLine', logFences', head)
    <2> SUFFICES ASSUME ~(head > low), NEW p \in 1 .. head, logLine'[p] = "none",
                        \A f \in logFences' : f < p
                 PROVE  FALSE
      BY <1>17 DEF Full, Lacks
    <2>1. head = low /\ fence < p
      BY <1>2, <1>11
    <2>2. head \in held
      BY <1>11, <2>1
    <2>3. head \in Holds(logLine') /\ p # head /\ p < head /\ p \in Positions
      <3>1. head \in Holds(logLine') /\ head \in Positions
        BY <1>12, <2>2
      <3>2. p # head
        BY <3>1 DEF Holds
      <3> QED
        BY <1>2, <3>1, <3>2, FeedAssumption DEF Positions
    <2>4. PICK n \in logFences' : p <= n /\ n < head
      BY <1>8, <2>3 DEF Fenced
    <2> QED
      BY <1>8, <2>4
  <1>24. Twins(inner', walk', head)
    <2>1. M \cap ps = {} /\ (M \cup ps) \cap U = {}
      BY <1>14
    <2>2. ASSUME NEW p \in Positions
          PROVE  /\ es[p] # "none" => from <= p /\ p <= head
                 /\ from <= p => (es[p] # "none" <=> p \in M \cup ps \cup U)
      <3>1. p \in Int /\ from \in Int
        BY <1>11, FeedAssumption DEF Positions
      <3>2. es[p] # "none" <=> p \in held /\ from <= p
        BY <1>12, <1>13, <3>1
      <3>3. p \in held => p <= head
        BY <1>12
      <3>4. from <= p => (p \in M \cup ps \cup U <=> p \in held)
        BY <1>14, <3>1
      <3> QED
        BY <3>2, <3>3, <3>4
    <2>3. \A p \in M \cup ps : from <= p
      BY <1>11, <1>12, <1>14
    <2> QED
      BY <1>17, <2>1, <2>2, <2>3 DEF Twins
  <1>25. inner'.unsorted \subseteq Holds(logLine')
    BY <1>12, <1>14, <1>17
  <1>26. Down'
    BY <1>10 DEF Down
  <1> QED
    BY <1>8, <1>10, <1>20, <1>21, <1>22, <1>23, <1>24, <1>25, <1>26 DEF IInv

-----------------------------------------------------------------------------
(* The landing *)

\* The memory a landing settles: nothing pends, nothing is unsorted, and from
\* the window's edge the twins are the resident entries.
Landable(m) ==
    /\ m \in Inner(head) /\ ~m.pending /\ m.unsorted = {}
    /\ m.masked \cap m.published = {}
    /\ \A p \in Positions :
          /\ m.entries[p] # "none" => p <= head
          /\ m.residentFrom <= p => (m.entries[p] # "none" <=> p \in TwinsOf(m))

\* What the walk adds where a region pended: above the fence, what was resident
\* and what it proved.
Covers(m) ==
    /\ inner.minSince <= m.minSince /\ walk.min <= m.minSince /\ m.stopped = inner.stopped
    /\ \A p \in Positions :
          m.entries[p] # "none" <=>
             m.minSince < p /\ (inner.entries[p] # "none" \/ p \in walk.proved)

\* The walk folded where no region pended changes nothing.
LEMMA FoldedAtRest ==
    ASSUME IInv, walk.pc = "land", ~inner.pending
    PROVE  FoldTheWalk(inner) = inner /\ Landable(inner)
  <1>1. FoldTheWalk(inner) = inner
    BY Zenon DEF FoldTheWalk
  <1>2. inner \in Inner(head) /\ inner.unsorted = {} /\ Twins(inner, walk, head)
    BY DEF IInv, Typed, Walked
  <1>3. Landable(inner)
    BY <1>2 DEF Landable, Twins, TwinsOf
  <1> QED
    BY <1>1, <1>3

\* The walk folded where one did.
LEMMA FoldedIs ==
    ASSUME IInv, walk.pc = "land", inner.pending
    PROVE  Landable(FoldTheWalk(inner)) /\ Covers(FoldTheWalk(inner))
  <1> DEFINE fence == Larger(inner.minSince, walk.min)
             kept == [p \in Positions |->
                        CASE p <= fence ->
                               IF fence > inner.minSince THEN "none" ELSE inner.entries[p]
                          [] p > fence /\ inner.entries[p] = "none" /\ p \in walk.proved -> "bare"
                          [] OTHER -> inner.entries[p]]
             classified == walk.proved \ walk.blind
             unmasked == {p \in walk.proved :
                            p \in walk.blind \/ ~TakesLine("masked", docs[p])}
             ds == inner.docs \cup {p \in classified : docs[p] # {}}
             ms == inner.masked \cup {p \in classified : TakesLine("masked", docs[p])}
             ps == inner.published \cup unmasked
             ss == inner.streams \cup {p \in classified : TakesLine("streams", docs[p])}
             us == {p \in inner.unsorted : p > fence}
             folded == [inner EXCEPT
                          !.pending = FALSE, !.minSince = fence, !.entries = kept,
                          !.docs = ds, !.masked = ms, !.published = ps,
                          !.streams = ss, !.unsorted = us]
             m == DropBelow(folded, fence + 1)
  <1>1. FoldTheWalk(inner) = m
    BY Zenon DEF FoldTheWalk
  <1>2. /\ head \in Nat /\ inner \in Inner(head) /\ walk \in Walk(head)
        /\ inner.unsorted = {} /\ Twins(inner, walk, head)
        /\ Region(inner, logLine, logFences, head)
    BY FeedAssumption DEF IInv, Typed, Walked
  <1>3. /\ inner.minSince \in 0 .. head /\ inner.residentFrom \in 1 .. head + 1
        /\ inner.entries \in [Positions -> Metas] /\ walk.min \in -1 .. head
        /\ inner.docs \subseteq 1 .. head /\ inner.masked \subseteq 1 .. head
        /\ inner.published \subseteq 1 .. head /\ inner.streams \subseteq 1 .. head
        /\ inner.low \in 0 .. head /\ inner.openHead \in 0 .. head
    BY <1>2 DEF Inner, Walk
  <1>4. /\ walk.proved \subseteq 1 .. head /\ walk.blind \subseteq walk.proved
        /\ walk.proved \subseteq inner.low + 1 .. inner.openHead
    BY WalkReads
  <1>5. /\ fence \in 0 .. head /\ inner.minSince <= fence /\ walk.min <= fence
        /\ fence > inner.minSince \/ fence = inner.minSince
    <2>1. inner.minSince \in Int /\ walk.min \in Int
      BY <1>3
    <2>2. /\ fence \in {inner.minSince, walk.min} /\ fence \in Int
          /\ inner.minSince <= fence /\ walk.min <= fence
      BY <2>1, LargerIs
    <2> QED
      BY <1>3, <2>2
  <1>6. /\ inner.masked \cap inner.published = {}
        /\ \A p \in walk.proved : p \notin inner.masked \cup inner.published
        /\ inner.minSince < inner.residentFrom
        /\ \A p \in Positions :
              /\ inner.entries[p] # "none" => inner.residentFrom <= p /\ p <= head
              /\ inner.residentFrom <= p =>
                    (inner.entries[p] # "none" <=> p \in inner.masked \cup inner.published)
    BY <1>2, <1>4 DEF Twins, Region
  <1> HIDE DEF fence
  <1>7. kept \in [Positions -> Metas] /\ \A p \in Positions :
           kept[p] # "none" <=> fence < p /\ (inner.entries[p] # "none" \/ p \in walk.proved)
    <2>1. ASSUME NEW p \in Positions
          PROVE  /\ kept[p] \in Metas
                 /\ kept[p] # "none" <=>
                       fence < p /\ (inner.entries[p] # "none" \/ p \in walk.proved)
      <3>1. p \in Int /\ fence \in Int /\ inner.entries[p] \in Metas
        BY <1>3, <1>5, FeedAssumption DEF Positions
      <3>2. CASE p <= fence
        <4>1. kept[p] = IF fence > inner.minSince THEN "none" ELSE inner.entries[p]
          BY <3>1, <3>2
        <4>2. fence = inner.minSince => inner.entries[p] = "none"
          BY <1>3, <1>6, <3>1, <3>2
        <4>3. kept[p] = "none"
          BY <1>5, <4>1, <4>2
        <4> QED
          BY <3>1, <3>2, <4>3 DEF Metas
      <3>3. CASE fence < p
        <4>1. kept[p] = IF inner.entries[p] = "none" /\ p \in walk.proved
                        THEN "bare" ELSE inner.entries[p]
          BY <3>1, <3>3
        <4> QED
          BY <3>1, <3>3, <4>1 DEF Metas
      <3> QED
        BY <3>1, <3>2, <3>3
    <2> HIDE DEF kept
    <2>2. kept = [p \in Positions |-> kept[p]]
      BY DEF kept
    <2> QED
      BY <2>1, <2>2
  <1>8. /\ ds \subseteq 1 .. head /\ ms \subseteq 1 .. head /\ ps \subseteq 1 .. head
        /\ ss \subseteq 1 .. head /\ us = {}
    BY <1>2, <1>3, <1>4
  <1>9. ms \cap ps = {} /\ \A p : p \in ms \cup ps <=>
           p \in inner.masked \cup inner.published \cup walk.proved
    BY <1>4, <1>6
  <1> HIDE DEF kept, ds, ms, ps, ss, us
  <1>10. /\ folded \in Inner(head) /\ folded.pending = FALSE /\ folded.minSince = fence
         /\ folded.entries = kept /\ folded.masked = ms /\ folded.published = ps
         /\ folded.unsorted = us /\ folded.stopped = inner.stopped
         /\ folded.residentFrom = inner.residentFrom
    BY <1>2, <1>5, <1>7, <1>8 DEF Inner
  <1> HIDE DEF folded
  <1>11. /\ m \in Inner(head) /\ Frame(m, folded)
         /\ m.residentFrom = folded.residentFrom /\ m.entries = folded.entries
         /\ \A p : p \in TwinsOf(m) <=> p \in TwinsOf(folded) /\ p >= fence + 1
         /\ folded.masked \cap folded.published = {} => m.masked \cap m.published = {}
    <2> DEFINE d == fence + 1
    <2>1. d \in Int
      BY <1>5
    <2> HIDE DEF d
    <2>2. LET r == DropBelow(folded, d)
          IN  /\ r \in Inner(head) /\ Frame(r, folded)
              /\ r.residentFrom = folded.residentFrom /\ r.entries = folded.entries
              /\ \A p : p \in TwinsOf(r) <=> p \in TwinsOf(folded) /\ p >= d
              /\ folded.masked \cap folded.published = {} => r.masked \cap r.published = {}
      BY <1>2, <1>10, <2>1, DropIs
    <2> QED
      BY <2>2, Zenon DEF d
  <1> HIDE DEF m
  <1>12. Covers(m)
    BY <1>5, <1>7, <1>10, <1>11 DEF Covers, Frame
  <1>13. Landable(m)
    <2>1. /\ m.pending = FALSE /\ m.unsorted = {} /\ m.stopped = inner.stopped
          /\ m.masked \cap m.published = {}
      BY <1>8, <1>9, <1>10, <1>11 DEF Frame
    <2>2. ASSUME NEW p \in Positions
          PROVE  /\ m.entries[p] # "none" => p <= head
                 /\ m.residentFrom <= p => (m.entries[p] # "none" <=> p \in TwinsOf(m))
      <3>1. p \in Int /\ fence \in Int
        BY <1>5, FeedAssumption DEF Positions
      <3>2. m.entries[p] # "none" <=>
              fence < p /\ (inner.entries[p] # "none" \/ p \in walk.proved)
        BY <1>7, <1>10, <1>11
      <3>3. p \in TwinsOf(m) <=>
              fence < p /\ p \in inner.masked \cup inner.published \cup walk.proved
        <4>1. p >= fence + 1 <=> fence < p
          BY <3>1
        <4>2. TwinsOf(folded) = ms \cup ps
          BY <1>10 DEF TwinsOf
        <4> QED
          BY <1>9, <1>11, <4>1, <4>2
      <3>4. p \in walk.proved => p <= head
        BY <1>4
      <3>5. m.residentFrom = inner.residentFrom
        BY <1>10, <1>11
      <3> QED
        BY <1>6, <3>2, <3>3, <3>4, <3>5
    <2> QED
      BY <1>11, <2>1, <2>2 DEF Landable
  <1> QED
    BY <1>1, <1>12, <1>13

\* A memory settled is one whose window holds the twins and the entries alike.
LEMMA SettleIs ==
    ASSUME head \in Nat, NEW s, Landable(s)
    PROVE  LET r == Settle(s)
           IN  /\ r \in Inner(head) /\ Frame(r, s) /\ Twins(r, IdleWalk, head)
  <1> DEFINE L == Holds(s.entries) \cup {s.openHead}
             t == Last(L) - Window + 1
             e == Evict(s, t)
             r == Trim(e)
  <1>1. /\ s \in Inner(head) /\ ~s.pending /\ s.unsorted = {}
        /\ s.masked \cap s.published = {}
        /\ \A p \in Positions :
              /\ s.entries[p] # "none" => p <= head
              /\ s.residentFrom <= p => (s.entries[p] # "none" <=> p \in TwinsOf(s))
    BY DEF Landable
  <1>2. t \in Int /\ t <= head + 1
    <2> DEFINE K == {p \in L : p # 0}
    <2>0. s.openHead \in 0 .. head
      BY <1>1 DEF Inner
    <2>1. K \subseteq 1 .. head
      <3>1. \A p \in Holds(s.entries) : p \in 1 .. head
        BY <1>1, FeedAssumption DEF Holds, Positions
      <3> QED
        BY <2>0, <3>1
    <2>2. Last(K) = Last(L)
      <3>1. K \cup {0} = L \cup {0}
        OBVIOUS
      <3> QED
        BY <3>1 DEF Last
    <2>3. Last(K) \in 0 .. head
      <3> HIDE DEF K
      <3> QED
        BY <2>1, LastIs
    <2> HIDE DEF K, L
    <2> QED
      BY <2>2, <2>3, FeedAssumption
  <1> HIDE DEF t
  <1>3. /\ e \in Inner(head) /\ Frame(e, s)
        /\ e.masked = s.masked /\ e.published = s.published
        /\ s.residentFrom <= e.residentFrom
        /\ \A p \in Positions :
              e.entries[p] = IF e.residentFrom <= p THEN s.entries[p] ELSE "none"
    BY <1>1, <1>2, EvictIs
  <1> HIDE DEF e
  <1>4. e.residentFrom \in 1 .. head + 1 /\ s.residentFrom \in 1 .. head + 1
    BY <1>1, <1>3 DEF Inner
  <1>5. /\ r \in Inner(head) /\ Frame(r, e)
        /\ r.residentFrom = e.residentFrom /\ r.entries = e.entries
        /\ \A p : p \in TwinsOf(r) <=> p \in TwinsOf(e) /\ p >= e.residentFrom
        /\ e.masked \cap e.published = {} => r.masked \cap r.published = {}
    <2>1. e.residentFrom \in Int
      BY <1>4
    <2> QED
      BY <1>3, <2>1, DropIs DEF Trim
  <1>6. Settle(s) = r
    BY DEF Settle, e, t
  <1> HIDE DEF r
  <1>7. Frame(r, s) /\ r.masked \cap r.published = {} /\ r.unsorted = {}
    BY <1>1, <1>3, <1>5 DEF Frame
  <1>8. \A p : p \in TwinsOf(r) <=> p \in TwinsOf(s) /\ p >= e.residentFrom
    BY <1>3, <1>5 DEF TwinsOf
  <1>9. ASSUME NEW p \in Positions
        PROVE  /\ r.entries[p] # "none" => r.residentFrom <= p /\ p <= head
               /\ r.residentFrom <= p => (r.entries[p] # "none" <=> p \in TwinsOf(r))
    <2>1. p \in Int
      BY FeedAssumption DEF Positions
    <2> QED
      BY <1>1, <1>3, <1>4, <1>5, <1>8, <2>1
  <1>10. \A p \in TwinsOf(r) : r.residentFrom <= p
    <2>1. \A p \in TwinsOf(r) : p \in Int
      BY <1>5 DEF TwinsOf, Inner
    <2> QED
      BY <1>4, <1>5, <2>1
  <1>11. Twins(r, IdleWalk, head)
    BY <1>7, <1>9, <1>10 DEF Twins, TwinsOf
  <1> QED
    BY <1>5, <1>6, <1>7, <1>11

\* The files a landing's rewrites leave.
LEMMA LandedFiles ==
    ASSUME IInv, NEW m, Landable(m), NEW done, LandedDisk(m, done)
    PROVE  file' \in [Derived -> DerivedFile(head)]
  <1> DEFINE known == ClassifiedAbove(m)
             covered == LandingCovers(m)
  <1>1. file' = [f \in Derived |-> IF f \in done THEN Rewritten(f, known, covered)
                                   ELSE file[f]]
    BY DEF LandedDisk
  <1>2. /\ head \in Nat /\ Holds(logLine) \subseteq 1 .. head
        /\ file \in [Derived -> DerivedFile(head)]
    BY FeedAssumption DEF IInv, Typed
  <1>3. /\ m \in Inner(head) /\ m.docs \subseteq 1 .. head /\ m.minSince \in 0 .. head
        /\ \A p \in Positions : m.entries[p] # "none" => p <= head
    BY DEF Landable, Inner
  <1>4. known \subseteq 1 .. head
    BY <1>2, <1>3 DEF ClassifiedAbove
  <1>5. covered \in 0 .. head
    <2> DEFINE resident == Holds(m.entries)
    <2>1. resident \subseteq 1 .. head
      BY <1>3, FeedAssumption DEF Holds, Positions
    <2>2. "index" \in Derived
      BY DEF Derived
    <2>3. Coverage(file["index"]) \in 0 .. head
      BY <1>2, <2>2, CoverageIs
    <2>4. covered = CASE resident # {} -> Max(resident)
                      [] resident = {} /\ inner.pending -> m.minSince
                      [] OTHER -> Coverage(file["index"])
      BY DEF LandingCovers
    <2> HIDE DEF resident, covered
    <2>5. resident # {} => Max(resident) \in 0 .. head
      <3> SUFFICES ASSUME resident # {} PROVE Max(resident) \in 0 .. head
        OBVIOUS
      <3>1. resident \in SUBSET Nat /\ \A s \in resident : s <= head
        BY <2>1
      <3>2. Max(resident) \in Nat /\ Max(resident) <= head
        BY <1>2, <3>1, MaxOf
      <3> QED
        BY <1>2, <3>2
    <2>6. CASE resident # {}
      BY <2>4, <2>5, <2>6
    <2>7. CASE resident = {} /\ inner.pending
      BY <1>3, <2>4, <2>7
    <2>8. CASE resident = {} /\ ~inner.pending
      BY <2>3, <2>4, <2>8
    <2> QED
      BY <2>6, <2>7, <2>8
  <1> HIDE DEF known, covered
  <1>6. ASSUME NEW f \in Derived PROVE Rewritten(f, known, covered) \in DerivedFile(head)
    <2>1. file[f].ents \subseteq 1 .. head
      BY <1>2 DEF DerivedFile
    <2> DEFINE S == file[f].ents \cup {p \in known : /\ Coverage(file[f]) < p /\ p <= covered
                                                     /\ TakesLine(f, docs[p])}
               F == IF covered = 0 THEN {} ELSE {covered}
    <2>2. S \subseteq 1 .. head
      BY <1>4, <2>1
    <2>3. F \subseteq 1 .. head
      BY <1>5
    <2>4. Rewritten(f, known, covered) = [ents |-> S, fences |-> F]
      BY Zenon DEF Rewritten
    <2> HIDE DEF S, F
    <2> QED
      BY <2>2, <2>3, <2>4 DEF DerivedFile
  <1> QED
    BY <1>1, <1>2, <1>6

\* The end of the process between two rewrites keeps the invariant: the log is
\* the last to be rewritten.
LEMMA LandKilledKeeps ==
    ASSUME IInv, NEW done \in {{"index"}, {"index", "masked"}, Derived}, LandKilled(done)
    PROVE  IInv'
  <1> DEFINE m == FoldTheWalk(inner)
  <1>1. /\ up /\ walk.pc = "land" /\ LandedDisk(m, done) /\ GoDown
        /\ refused' = (refused \ walk.proved) \cup walk.blind
        /\ head' = head /\ docs' = docs /\ floor' = floor
    BY DEF LandKilled, journal
  <1>2. Landable(m)
    <2>1. inner.pending \in BOOLEAN
      BY WalkReads
    <2> QED
      BY <1>1, <2>1, FoldedAtRest, FoldedIs
  <1> HIDE DEF m
  <1>3. file' \in [Derived -> DerivedFile(head)]
    BY <1>1, <1>2, LandedFiles
  <1>4. /\ head \in Nat /\ head \in 0 .. MaxPos /\ floor \in 0 .. head
        /\ refused \subseteq 1 .. head
        /\ docs \in [Positions -> SUBSET Documents] /\ logLine \in [Positions -> Metas]
    BY FeedAssumption DEF IInv, Typed
  <1>5. "log" \notin done
    BY DEF Derived
  <1>6. logLine' = logLine /\ logFences' = logFences
    <2>1. /\ logLine' = [p \in Positions |-> logLine[p]]
          /\ logFences' = logFences \cup {}
      BY <1>1, <1>5 DEF LandedDisk
    <2> QED
      BY <1>4, <2>1
  <1>7. refused' \subseteq 1 .. head
    <2>1. walk.proved \subseteq 1 .. head /\ walk.blind \subseteq walk.proved
      BY WalkReads
    <2> QED
      BY <1>1, <1>4, <2>1
  <1>8. head \in 0 .. head'
    BY <1>1, <1>4
  <1> QED
    BY <1>1, <1>3, <1>4, <1>6, <1>7, <1>8, DownStep

\* The log rewritten over a region the walk has covered: every hole of it is
\* behind a fence that comes before the next line, and above the fences it
\* lacks nothing.
LEMMA LogLanded ==
    ASSUME IInv, inner.pending, walk.pc = "land", NEW m, Landable(m), Covers(m),
           NEW log, NEW fs,
           log = [p \in Positions |-> IF p > inner.low /\ m.entries[p] # "none"
                                      THEN m.entries[p] ELSE logLine[p]],
           fs = logFences \cup ({m.minSince} \ {0})
    PROVE  /\ log \in [Positions -> Metas] /\ Holds(log) \subseteq 1 .. head
           /\ fs \subseteq 1 .. head /\ Fenced(log, fs) /\ ~Lacks(log, fs, head)
  <1> DEFINE low == inner.low
             fence == m.minSince
  <1>1. /\ head \in Nat /\ head <= MaxPos /\ logLine \in [Positions -> Metas]
        /\ MaxPos \in Nat
        /\ Holds(logLine) \subseteq 1 .. head /\ logFences \subseteq 1 .. head
        /\ Fenced(logLine, logFences) /\ inner \in Inner(head)
        /\ Region(inner, logLine, logFences, head) /\ Walked(walk, inner)
    BY FeedAssumption DEF IInv, Typed
  <1>2. /\ low \in 0 .. head /\ inner.openHead \in 0 .. head /\ inner.minSince \in 0 .. head
        /\ walk.at \in Nat /\ walk.min \in -1 .. head
    BY <1>1, WalkReads DEF Inner
  <1>3. /\ low < inner.openHead /\ Holds(logLine) \subseteq 1 .. low
        /\ low \in Holds(logLine) \/ low = inner.minSince
        /\ inner.minSince \in logFences \cup {0}
        /\ \A p \in inner.openHead + 1 .. head : inner.entries[p] # "none"
    BY <1>1 DEF Region
  <1>4. \A p \in low + 1 .. inner.openHead : p <= walk.min \/ p \in walk.proved
    <2>1. inner.openHead < walk.at /\ \A p \in low + 1 .. inner.openHead :
             p < walk.at => p <= walk.min \/ p \in walk.proved
      BY <1>1 DEF Walked
    <2> QED
      BY <1>2, <2>1
  <1>5. /\ m.entries \in [Positions -> Metas] /\ fence \in 0 .. head
        /\ \A p \in Positions : m.entries[p] # "none" => p <= head
    BY DEF Landable, Inner
  <1>6. /\ inner.minSince <= fence /\ walk.min <= fence
        /\ \A p \in Positions :
              m.entries[p] # "none" <=>
                 fence < p /\ (inner.entries[p] # "none" \/ p \in walk.proved)
    BY DEF Covers
  <1>7. \A p \in Positions : p \in Nat /\ 1 <= p /\ p <= MaxPos
    BY <1>1 DEF Positions
  <1>8. \A p \in 1 .. head : p \in Positions
    BY <1>1 DEF Positions
  <1>9. log \in [Positions -> Metas] /\ \A p \in Positions :
           log[p] = IF p > low /\ m.entries[p] # "none" THEN m.entries[p] ELSE logLine[p]
    BY <1>1, <1>5
  <1> HIDE DEF low, fence
  <1>10. \A p \in Positions : p <= low => log[p] = logLine[p]
    BY <1>2, <1>7, <1>9
  <1>11. ASSUME NEW p \in Positions, low < p
         PROVE  /\ log[p] # "none" => fence < p /\ p <= head
                /\ fence < p /\ p <= head => log[p] # "none"
    <2>1. logLine[p] = "none"
      <3>1. p \notin Holds(logLine)
        BY <1>2, <1>3, <1>7, <1>11
      <3> QED
        BY <3>1 DEF Holds
    <2>2. log[p] # "none" <=> m.entries[p] # "none"
      BY <1>2, <1>7, <1>9, <1>11, <2>1
    <2>3. ASSUME fence < p, p <= head PROVE m.entries[p] # "none"
      <3>1. CASE p <= inner.openHead
        <4>1. p \in low + 1 .. inner.openHead
          BY <1>2, <1>7, <1>11, <3>1
        <4>2. ~(p <= walk.min)
          BY <1>2, <1>5, <1>6, <1>7, <2>3
        <4> QED
          BY <1>4, <1>6, <2>3, <4>1, <4>2
      <3>2. CASE ~(p <= inner.openHead)
        <4>1. p \in inner.openHead + 1 .. head
          BY <1>1, <1>2, <1>7, <2>3, <3>2
        <4> QED
          BY <1>3, <1>6, <2>3, <4>1
      <3> QED
        BY <3>1, <3>2
    <2> QED
      BY <1>5, <1>6, <2>2, <2>3
  <1>12. Holds(log) \subseteq 1 .. head
    <2> SUFFICES ASSUME NEW p \in Holds(log) PROVE p \in 1 .. head
      OBVIOUS
    <2>1. p \in Positions /\ log[p] # "none"
      BY DEF Holds
    <2>2. CASE low < p
      BY <1>1, <1>7, <1>11, <2>1, <2>2
    <2>3. CASE ~(low < p)
      <3>1. log[p] = logLine[p]
        BY <1>2, <1>7, <1>10, <2>1, <2>3
      <3> QED
        BY <1>1, <2>1, <3>1 DEF Holds
    <2> QED
      BY <2>2, <2>3
  <1>13. fs \subseteq 1 .. head /\ logFences \subseteq fs /\ (fence # 0 => fence \in fs)
    <2>1. \A n : n \in fs <=> n \in logFences \/ (n = fence /\ n # 0)
      BY Zenon DEF fence
    <2>2. fence # 0 => fence \in 1 .. head
      BY <1>5
    <2> QED
      BY <1>1, <2>1, <2>2
  <1>14. ASSUME NEW p \in Positions, p <= low, log[p] = "none"
         PROVE  \E n \in logFences : p <= n /\ (n < low \/ n = inner.minSince)
    <2>1. logLine[p] = "none"
      BY <1>10, <1>14
    <2>2. CASE low \in Holds(logLine)
      <3>1. p # low
        BY <2>1, <2>2 DEF Holds
      <3>2. p < low
        BY <1>2, <1>7, <1>14, <3>1
      <3> QED
        BY <1>1, <2>1, <2>2, <3>2 DEF Fenced
    <2>3. CASE low = inner.minSince
      <3>1. inner.minSince \in logFences
        BY <1>2, <1>3, <1>7, <1>14, <2>3
      <3> QED
        BY <1>14, <2>3, <3>1
    <2> QED
      BY <1>3, <2>2, <2>3
  <1>15. ASSUME NEW q \in Holds(log), NEW p \in Positions, p < q, log[p] = "none"
         PROVE  \E n \in fs : p <= n /\ n < q
    <2>1. q \in Positions /\ log[q] # "none" /\ q \in Nat /\ p \in Nat /\ 1 <= p
      BY <1>7 DEF Holds
    <2>2. CASE q <= low
      <3>1. p <= low
        BY <1>2, <1>15, <2>1, <2>2
      <3>2. logLine[p] = "none" /\ q \in Holds(logLine)
        BY <1>10, <1>15, <2>1, <2>2, <3>1 DEF Holds
      <3>3. PICK n \in logFences : p <= n /\ n < q
        BY <1>1, <1>15, <3>2 DEF Fenced
      <3> QED
        BY <1>13, <3>3
    <2>3. CASE low < q /\ low < p
      <3>1. fence < q
        BY <1>11, <2>1, <2>3
      <3>2. p <= head
        <4>1. q \in 1 .. head
          BY <1>12
        <4> QED
          BY <1>1, <1>15, <2>1, <4>1
      <3>3. p <= fence
        BY <1>5, <1>11, <1>15, <2>1, <2>3, <3>2
      <3>4. fence \in fs
        BY <1>5, <1>13, <2>1, <3>3
      <3> QED
        BY <3>1, <3>3, <3>4
    <2>4. CASE low < q /\ p <= low
      <3>1. PICK n \in logFences : p <= n /\ (n < low \/ n = inner.minSince)
        BY <1>14, <1>15, <2>4
      <3>2. n \in Nat /\ n \in fs
        BY <1>1, <1>13, <3>1
      <3>3. fence < q
        BY <1>11, <2>1, <2>4
      <3>4. n < q
        BY <1>2, <1>5, <1>6, <2>1, <2>4, <3>1, <3>2, <3>3
      <3> QED
        BY <3>1, <3>2, <3>4
    <2> QED
      BY <1>2, <2>1, <2>2, <2>3, <2>4
  <1>16. ASSUME NEW p \in 1 .. head, log[p] = "none", \A f \in fs : f < p
         PROVE  FALSE
    <2>1. p \in Positions /\ p \in Nat /\ 1 <= p
      BY <1>8
    <2>2. CASE low < p
      <3>1. p <= fence
        BY <1>5, <1>11, <1>16, <2>1, <2>2
      <3>2. fence \in fs
        BY <1>5, <1>13, <2>1, <3>1
      <3>3. fence < p
        BY <1>16, <3>2
      <3> QED
        BY <1>5, <2>1, <3>1, <3>3
    <2>3. CASE p <= low
      <3>1. PICK n \in logFences : p <= n
        BY <1>14, <1>16, <2>1, <2>3
      <3>2. n \in Nat /\ n < p
        BY <1>1, <1>13, <1>16, <3>1
      <3> QED
        BY <2>1, <3>1, <3>2
    <2> QED
      BY <1>2, <2>1, <2>2, <2>3
  <1> QED
    BY <1>9, <1>12, <1>13, <1>15, <1>16 DEF Fenced, Lacks

\* The landing keeps the invariant.
LEMMA LandKeeps ==
    ASSUME IInv, NEW before \in SUBSET AllFiles, NEW past \in SUBSET AllFiles,
           Land(before, past)
    PROVE  IInv'
  <1> DEFINE m == FoldTheWalk(inner)
             stopped == m.stopped \cup before \cup past
             s == [m EXCEPT !.landingOwed = FALSE, !.stopped = stopped]
  <1>1. /\ up /\ walk.pc = "land" /\ LandedDisk(m, AllFiles \ before)
        /\ inner' = Settle(s) /\ walk' = IdleWalk
        /\ refused' = (refused \ walk.proved) \cup walk.blind
        /\ head' = head /\ docs' = docs /\ floor' = floor /\ up' = up
    BY DEF Land, journal
  <1>2. /\ head \in Nat /\ Typed /\ Fenced(logLine, logFences)
        /\ Full(inner, logLine, logFences, head) /\ logLine \in [Positions -> Metas]
        /\ inner.pending \in BOOLEAN
    <2>1. Full(inner, logLine, logFences, head)
      BY <1>1, Parts
    <2> QED
      BY <2>1, FeedAssumption, WalkReads DEF IInv, Typed
  <1>3. /\ Landable(m) /\ m.stopped = inner.stopped
        /\ inner.pending => Covers(m)
    <2>1. CASE inner.pending
      BY <1>1, <2>1, FoldedIs DEF Covers
    <2>2. CASE ~inner.pending
      BY <1>1, <2>2, FoldedAtRest
    <2> QED
      BY <2>1, <2>2
  <1> HIDE DEF m
  <1>4. file' \in [Derived -> DerivedFile(head)]
    BY <1>1, <1>3, LandedFiles
  <1>5. stopped \in SUBSET AllFiles
    BY <1>3 DEF Landable, Inner
  <1> HIDE DEF stopped
  <1>6. Landable(s) /\ ~s.pending /\ s.unsorted = {} /\ ~s.landingOwed /\ s.stopped = stopped
    <2>1. /\ s \in Inner(head) /\ s.pending = m.pending /\ s.unsorted = m.unsorted
          /\ s.masked = m.masked /\ s.published = m.published /\ s.entries = m.entries
          /\ s.residentFrom = m.residentFrom /\ s.stopped = stopped /\ s.landingOwed = FALSE
      BY <1>3, <1>5 DEF Landable, Inner
    <2> HIDE DEF s
    <2> QED
      BY <1>3, <2>1 DEF Landable, TwinsOf
  <1> HIDE DEF s
  <1>7. /\ inner' \in Inner(head) /\ Frame(inner', s) /\ Twins(inner', IdleWalk, head)
    BY <1>1, <1>2, <1>6, SettleIs
  <1>8. /\ ~inner'.pending /\ inner'.unsorted = {} /\ ~inner'.landingOwed
        /\ inner'.stopped = stopped
    BY <1>6, <1>7 DEF Frame
  <1>9. IdleWalk \in Walk(head)
    BY <1>2, AtRest
  <1>10. Walked(IdleWalk, inner')
    BY <1>8 DEF Walked, IdleWalk
  <1>11. Region(inner', logLine', logFences', head)
    BY <1>8 DEF Region
  <1>12. /\ logLine' \in [Positions -> Metas] /\ Holds(logLine') \subseteq 1 .. head
         /\ logFences' \subseteq 1 .. head /\ Fenced(logLine', logFences')
         /\ Full(inner', logLine', logFences', head)
    <2>1. CASE inner.pending /\ "log" \notin before
      <3> DEFINE log == [p \in Positions |-> IF p > inner.low /\ m.entries[p] # "none"
                                             THEN m.entries[p] ELSE logLine[p]]
                 fs == logFences \cup ({m.minSince} \ {0})
      <3>1. logLine' = log /\ logFences' = fs
        BY <1>1, <2>1 DEF LandedDisk, AllFiles
      <3>2. /\ log \in [Positions -> Metas] /\ Holds(log) \subseteq 1 .. head
            /\ fs \subseteq 1 .. head /\ Fenced(log, fs) /\ ~Lacks(log, fs, head)
        BY <1>1, <1>3, <2>1, LogLanded
      <3> HIDE DEF log, fs
      <3> QED
        BY <3>1, <3>2 DEF Full
    <2>2. CASE ~inner.pending \/ "log" \in before
      <3>1. logLine' = logLine /\ logFences' = logFences
        <4>1. /\ logLine' = [p \in Positions |-> logLine[p]]
              /\ logFences' = logFences \cup {}
          BY <1>1, <2>2 DEF LandedDisk
        <4> QED
          BY <1>2, <4>1
      <3>2. Full(inner', logLine, logFences, head)
        <4>1. "log" \notin stopped => "log" \notin inner.stopped /\ "log" \notin before
          BY <1>3 DEF stopped
        <4> QED
          BY <1>2, <1>8, <2>2, <4>1 DEF Full
      <3>3. /\ Holds(logLine) \subseteq 1 .. head /\ logFences \subseteq 1 .. head
        BY <1>2 DEF Typed
      <3> QED
        BY <1>2, <3>1, <3>2, <3>3
    <2> QED
      BY <1>2, <2>1, <2>2
  <1>13. refused' \subseteq 1 .. head
    <2>1. walk.proved \subseteq 1 .. head /\ walk.blind \subseteq walk.proved
      BY WalkReads
    <2>2. refused \subseteq 1 .. head
      BY <1>2 DEF Typed
    <2> QED
      BY <1>1, <2>1, <2>2
  <1>14. Typed'
    BY <1>1, <1>2, <1>4, <1>7, <1>9, <1>12, <1>13 DEF Typed
  <1>15. Down'
    BY <1>1 DEF Down
  <1>16. inner'.unsorted \subseteq Holds(logLine')
    BY <1>8
  <1> QED
    BY <1>1, <1>7, <1>10, <1>11, <1>12, <1>14, <1>15, <1>16 DEF IInv

-----------------------------------------------------------------------------
(* The theorems *)

\* An empty journal and empty files satisfy the invariant.
LEMMA InitKeeps ==
    ASSUME Init
    PROVE  IInv
  <1>1. /\ head = 0 /\ docs = [p \in Positions |-> {}] /\ floor = 0
        /\ logLine = [p \in Positions |-> "none"] /\ logFences = {}
        /\ file = [f \in Derived |-> [ents |-> {}, fences |-> {}]]
        /\ up = TRUE /\ inner = EmptyInner /\ walk = IdleWalk /\ refused = {}
    BY DEF Init
  <1>2. /\ inner \in Inner(head) /\ walk \in Walk(head)
        /\ Region(inner, logLine, logFences, head) /\ Walked(walk, inner)
        /\ Twins(inner, walk, head) /\ inner.unsorted \subseteq Holds(logLine)
    <2>1. head \in Nat
      BY <1>1
    <2> QED
      BY <1>1, <2>1, AtRest
  <1>3. logLine \in [Positions -> Metas] /\ Holds(logLine) = {}
    BY <1>1 DEF Metas, Holds
  <1>4. file \in [Derived -> DerivedFile(head)]
    <2>1. [ents |-> {}, fences |-> {}] \in DerivedFile(head)
      BY DEF DerivedFile
    <2> QED
      BY <1>1, <2>1
  <1>5. Typed
    <2>1. MaxPos \in Nat /\ docs \in [Positions -> SUBSET Documents]
      BY <1>1, FeedAssumption
    <2>2. head \in 0 .. MaxPos /\ floor \in 0 .. head
      BY <1>1, <2>1
    <2> QED
      BY <1>1, <1>2, <1>3, <1>4, <2>1, <2>2 DEF Typed
  <1>6. Down /\ Fenced(logLine, logFences)
    BY <1>1, <1>3 DEF Down, Fenced
  <1>7. Full(inner, logLine, logFences, head)
    BY <1>1 DEF Full, Lacks
  <1> QED
    BY <1>2, <1>5, <1>6, <1>7 DEF IInv

\* Every step keeps the invariant.
LEMMA NextKeeps ==
    ASSUME IInv, [Next]_vars
    PROVE  IInv'
  <1>1. CASE UNCHANGED vars
    <2>1. /\ head' = head /\ docs' = docs /\ floor' = floor /\ logLine' = logLine
          /\ logFences' = logFences /\ file' = file /\ up' = up /\ inner' = inner
          /\ walk' = walk /\ refused' = refused
      BY <1>1 DEF vars, journal, disk
    <2>2. Typed' /\ Down'
      BY <2>1 DEF IInv, Typed, Down
    <2> QED
      BY <2>1, <2>2 DEF IInv
  <1>2. CASE Next
    <2>1. CASE Open
      BY <2>1, OpenKeeps
    <2>2. CASE Crash
      BY <2>2, CrashKeeps
    <2>3. CASE \E D \in DocSets, meta \in {"full", "bare"},
                  failed \in SUBSET (Fallible \cap AllFiles) : Record(D, meta, failed)
      BY <2>3, RecordKeeps
    <2>4. CASE \E D \in DocSets : CommitThenCrash(D)
      BY <2>4, CommitThenCrashKeeps
    <2>5. CASE \E to \in Positions : Reclaim(to)
      BY <2>5, ReclaimKeeps
    <2>6. CASE \E fails \in BOOLEAN : WalkList(fails) \/ WalkStart(fails) \/ WalkNext(fails)
      BY <2>6, WalkListKeeps, WalkStartKeeps, WalkNextKeeps
    <2>7. CASE \E fails \in BOOLEAN, stopAt \in 0 .. MaxPos : SortNext(fails, stopAt)
      BY <2>7, SortNextKeeps
    <2>8. CASE WalkEnd
      BY <2>8, WalkEndKeeps
    <2>9. CASE \E before \in SUBSET (Fallible \cap AllFiles) :
                 \E past \in SUBSET ((Fallible \cap AllFiles) \ before) : Land(before, past)
      <3>1. PICK before \in SUBSET (Fallible \cap AllFiles) :
              \E past \in SUBSET ((Fallible \cap AllFiles) \ before) : Land(before, past)
        BY <2>9, Zenon
      <3>2. PICK past \in SUBSET ((Fallible \cap AllFiles) \ before) : Land(before, past)
        BY <3>1, Zenon
      <3>3. before \in SUBSET AllFiles /\ past \in SUBSET AllFiles
        OBVIOUS
      <3> QED
        BY <3>2, <3>3, LandKeeps
    <2>10. CASE WalkDies
      BY <2>10, WalkDiesKeeps
    <2>11. CASE \E done \in {{"index"}, {"index", "masked"}, Derived} : LandKilled(done)
      BY <2>11, LandKilledKeeps, Zenon
    <2> QED
      BY <1>2, <2>1, <2>2, <2>3, <2>4, <2>5, <2>6, <2>7, <2>8, <2>9, <2>10, <2>11, Zenon
         DEF Next
  <1> QED
    BY <1>1, <1>2

\* The invariant holds in every state of every run of the feed.
THEOREM Invariant == Spec => []IInv
  <1>1. Init => IInv
    BY InitKeeps
  <1>2. IInv /\ [Next]_vars => IInv'
    BY NextKeeps
  <1> QED
    BY <1>1, <1>2, PTL DEF Spec

\* The feed's state keeps its kinds, and once the walk has landed nothing pends
\* and the two streams of the twins are the resident window, divided
\* (CommitsLog::evict, trim_to_the_window, feed.rs).
THEOREM FeedTyped == Spec => []TypeOK
  <1>1. IInv => TypeOK
    <2> SUFFICES ASSUME IInv PROVE TypeOK
      OBVIOUS
    <2>1. /\ Typed /\ Walked(walk, inner) /\ Twins(inner, walk, head)
          /\ inner.unsorted \subseteq Holds(logLine)
      BY DEF IInv
    <2>2. /\ head \in 0 .. MaxPos /\ floor \in 0 .. head /\ refused \subseteq 1 .. head
          /\ docs \in [Positions -> SUBSET Documents] /\ up \in BOOLEAN
          /\ logLine \in [Positions -> {"none", "full", "bare"}]
          /\ logFences \subseteq 1 .. head
      BY <2>1 DEF Typed, Metas
    <2>3. \A f \in Derived : file[f].ents \subseteq 1 .. head /\ file[f].fences \subseteq 1 .. head
      BY <2>1 DEF Typed, DerivedFile
    <2>4. /\ inner.stopped \subseteq AllFiles
          /\ walk.pc \in {"list", "sort", "walk", "land", "done", "dead"}
          /\ inner.residentFrom \in Nat
          /\ inner.masked \subseteq 1 .. head /\ inner.published \subseteq 1 .. head
      BY <2>1 DEF Typed, Inner, Walk
    <2>5. inner.masked \cap inner.published = {}
      BY <2>1 DEF Twins
    <2>6. ASSUME walk.pc = "done"
          PROVE  /\ ~inner.pending /\ inner.unsorted = {} /\ ~inner.landingOwed
                 /\ Holds(inner.entries) = inner.masked \cup inner.published
      <3>1. ~inner.pending /\ inner.unsorted = {} /\ ~inner.landingOwed
        BY <2>1, <2>6 DEF Walked
      <3>2. /\ \A p \in Positions :
                  /\ inner.entries[p] # "none" => inner.residentFrom <= p
                  /\ inner.residentFrom <= p =>
                        (inner.entries[p] # "none" <=> p \in inner.masked \cup inner.published)
            /\ \A p \in inner.masked \cup inner.published : inner.residentFrom <= p
        BY <2>1, <2>6, <3>1 DEF Twins
      <3>3. \A p \in inner.masked \cup inner.published : p \in Positions
        <4>1. MaxPos \in Nat
          BY FeedAssumption
        <4> QED
          BY <2>2, <2>4, <4>1 DEF Positions
      <3>4. \A p : p \in Holds(inner.entries) <=> p \in inner.masked \cup inner.published
        BY <3>2, <3>3, HoldsIs
      <3> QED
        BY <3>1, <3>4
    <2> QED
      BY <2>1, <2>2, <2>3, <2>4, <2>5, <2>6 DEF TypeOK
  <1> QED
    BY <1>1, Invariant, PTL

\* Wherever a restart finds commits.log cut, between the fence then in force
\* and its last line it lacks no position, so the walk that begins at that line
\* covers all it lost (sidecar.rs, CommitsLog::stopped; feed.rs, open).
THEOREM LogNeverHoled == Spec => []LogWhole
  <1>1. IInv => LogWhole
    <2> SUFFICES ASSUME IInv, NEW cut \in 0 .. head,
                        NEW p \in Last({n \in logFences : n <= cut}) + 1
                                    .. Last({q \in Holds(logLine) : q <= cut}),
                        logLine[p] = "none"
                 PROVE  FALSE
      BY DEF LogWhole
    <2> DEFINE fs == {n \in logFences : n <= cut}
               hs == {q \in Holds(logLine) : q <= cut}
    <2>1. /\ head \in Nat /\ head <= MaxPos /\ MaxPos \in Nat
          /\ Holds(logLine) \subseteq 1 .. head /\ logFences \subseteq 1 .. head
          /\ Fenced(logLine, logFences)
      BY FeedAssumption DEF IInv, Typed
    <2>2. fs \subseteq 1 .. head /\ hs \subseteq 1 .. head
      BY <2>1
    <2> HIDE DEF fs, hs
    <2>3. Last(fs) \in 0 .. head /\ \A n \in fs : n <= Last(fs)
      BY <2>1, <2>2, LastIs
    <2>4. Last(hs) \in 0 .. head /\ Last(hs) \in hs \cup {0}
      BY <2>1, <2>2, LastIs
    <2> DEFINE q == Last(hs)
    <2>5. p \in Last(fs) + 1 .. q
      BY DEF fs, hs
    <2> HIDE DEF q
    <2>6. p \in Nat /\ 1 <= p /\ p <= q /\ Last(fs) < p /\ q \in 0 .. head
      BY <2>3, <2>4, <2>5 DEF q
    <2>7. q \in hs /\ p \in Positions
      BY <2>1, <2>4, <2>6 DEF q, Positions
    <2>8. q \in Holds(logLine) /\ q <= cut
      BY <2>7 DEF hs
    <2>9. p < q
      <3>1. p # q
        BY <2>8 DEF Holds
      <3> QED
        BY <2>6, <3>1
    <2>10. PICK n \in logFences : p <= n /\ n < q
      BY <2>1, <2>7, <2>8, <2>9 DEF Fenced
    <2>11. n \in Nat /\ n <= cut
      BY <2>1, <2>6, <2>8, <2>10
    <2>12. n \in fs
      BY <2>10, <2>11 DEF fs
    <2>13. n <= Last(fs)
      BY <2>3, <2>12
    <2> QED
      BY <2>3, <2>6, <2>10, <2>11, <2>13
  <1> QED
    BY <1>1, Invariant, PTL
=============================================================================
