-------------------------------- MODULE Feed --------------------------------
(***************************************************************************)
(* The change feed behind GET /changes (crates/skep-core/src/commits/      *)
(* feed.rs, sidecar.rs, feed/derived.rs): commits.log, the three sidecars  *)
(* derived from it (feed-index.log, feed-masked.log, feed-streams.log),    *)
(* the resident window with its twins, and the walk that re-covers behind  *)
(* the listener what an open found lost.                                   *)
(*                                                                         *)
(* The journal is the authority for what was committed.  Everything else   *)
(* here only finds candidates for a page, and the promise is that no page  *)
(* depends on how: for every reader, a page is the position walk over the  *)
(* journal with the read predicate applied to each entry, or refused.      *)
(*                                                                         *)
(* A position's documents are a set of two classes, "open" and "draft"; a  *)
(* guest reads the open ones, the owner both.  Every position is a commit  *)
(* boundary.  Times, terms, attest slots and the offset array, which no    *)
(* page reads, are left out.                                               *)
(***************************************************************************)
EXTENDS Integers, FiniteSets, FiniteSetsExt

CONSTANTS
    MaxPos,       \* bound: positions the journal commits
    Window,       \* FEED_RESIDENT_WINDOW, in positions
    DocSets,      \* the sets of documents a commit may touch
    Fallible,     \* what may fail: a file's write, or "journal", a read of it
    SortFails,    \* whether the index file's append may fail during the sort
    BareInSort,   \* whether a write may panic past its commit while the walk
                  \* has only the positions the index lost left to sort
    MaxFaults,    \* bound: failures
    MaxOpens,     \* bound: restarts
    MaxCuts,      \* bound: files a restart finds cut
    MaxReclaims,  \* bound: reclamations of the journal
    MaxEvents     \* bound: failures and reclamations together

Derived == {"index", "masked", "streams"}
AllFiles == Derived \cup {"log"}
Readers == {"guest", "owner"}
Documents == {"open", "draft"}

ASSUME FeedAssumption ==
    /\ MaxPos \in Nat \ {0} /\ Window \in Nat \ {0}
    /\ DocSets \subseteq SUBSET Documents
    /\ Fallible \subseteq AllFiles \cup {"journal"}
    /\ {SortFails, BareInSort} \subseteq BOOLEAN
    /\ {MaxFaults, MaxOpens, MaxCuts, MaxReclaims, MaxEvents} \subseteq Nat

Positions == 1..MaxPos

VARIABLES
    head,         \* the journal: the last position committed,
    docs,         \*   the documents each commit touched,
    floor,        \*   and the lowest position whose world it answers
    logLine,      \* commits.log: "none", "full" or "bare" at each position
    logFences,    \*   and the positions its min_since lines name
    file,         \* the derived files: their entry lines and fence lines
    up,           \* whether the daemon runs
    inner,        \* the feed's memory (Inner and CommitsLog)
    walk,         \* the walk thread
    refused,      \* positions last landed with no classification: the residue
    faults, opens, reclaims   \* what the bounds count

journal == <<head, docs, floor, reclaims>>
disk == <<logLine, logFences, file>>
vars == <<journal, disk, up, inner, walk, refused, faults, opens>>

Last(S) == Max(S \cup {0})
Larger(a, b) == IF a > b THEN a ELSE b

-----------------------------------------------------------------------------
(* The files.                                                              *)

\* A derived file's claim: the highest position a line of it names.
Coverage(f) == Last(f.ents \cup f.fences)

\* The file with every line above c cut off its end.
CutTo(f, c) == [ents |-> {p \in f.ents : p <= c}, fences |-> {p \in f.fences : p <= c}]

\* Whether a position touching D takes a line in the file named f.
TakesLine(f, D) ==
    CASE f = "index" -> D # {}
      [] f = "masked" -> D = {"draft"}
      [] f = "streams" -> "draft" \in D

\* The positions' documents as commits.log and the index file answer them: the
\* index's line where the index covers the position, the record's own above.
FileDocs(log, index) ==
    LET claim == Coverage(index)
    IN  [p \in Positions |->
           IF IF p <= claim THEN p \in index.ents ELSE log[p] = "full"
           THEN docs[p] ELSE {}]

Holds(log) == {p \in Positions : log[p] # "none"}

Spend(n) ==
    /\ n > 0 => faults + n <= MaxFaults /\ faults + reclaims + n <= MaxEvents
    /\ faults' = faults + n

-----------------------------------------------------------------------------
(* The open.                                                               *)

\* What a restart finds of each file: every line, or the lines up to a
\* position (a torn or unsynced tail, damage, a file lost whole).
Cuts ==
    LET damage == UNION {[S -> 0 .. head - 1] :
                           S \in {T \in SUBSET AllFiles : Cardinality(T) <= MaxCuts}}
    IN  {[f \in AllFiles |-> IF f \in DOMAIN c THEN c[f] ELSE head] : c \in damage}

IdleWalk == [pc |-> "done", at |-> 0, min |-> -1, below |-> FALSE,
             carried |-> -1, proved |-> {}, blind |-> {}]

EmptyInner ==
    [pending |-> FALSE, low |-> 0, openHead |-> 0, minSince |-> 0, residentFrom |-> 1,
     entries |-> [p \in Positions |-> "none"], docs |-> {}, masked |-> {},
     published |-> {}, streams |-> {}, unsorted |-> {}, landingOwed |-> FALSE,
     stopped |-> {}]

\* The bare positions of `held` that the index does not classify.
Unsorted(held, index) ==
    LET claim == Coverage(index) IN {p \in held : logLine[p] = "bare" /\ p > claim}

\* The coverage the open closes the derived files at: short of every position
\* the walk has yet to land.
Covered(low, unsorted) == Min({low} \cup {p - 1 : p \in unsorted})

\* commits.log as its open finds it: its fence, the positions it answers, the
\* last of them, and the window's edge.
OpenLog(cut) ==
    LET fence == Last({n \in logFences : n <= cut["log"]})
        held == {p \in Holds(logLine) : fence < p /\ p <= cut["log"]}
    IN  [fence |-> fence, held |-> held, low |-> Max(held \cup {fence}),
         from |-> Larger(fence + 1, head - Window + 1)]

\* The files as a restart finds them: each is cut back short of what pends and
\* its tail derived, the twins are built over the window, and the walk is left
\* with the rest.
OpenOver(cut) ==
    LET opened == OpenLog(cut)
        held == opened.held
        low == opened.low
        from == opened.from
        unsorted == Unsorted(held, CutTo(file["index"], cut["index"]))
        covered == Covered(low, unsorted)
        Back(f) == CutTo(file[f], Min({cut[f], covered}))
        index == Back("index")
        sorted == held \ unsorted
        answered == FileDocs(logLine, index)
        With(f) == {p \in sorted : TakesLine(f, answered[p])}
        InFile(f) == LET back == Back(f)
                         claim == Coverage(back)
                     IN  back.ents \cup {p \in With(f) : p > claim}
        Closed(f) == LET ents == {p \in InFile(f) : p <= covered}
                         fences == Back(f).fences
                     IN  [ents |-> ents,
                          fences |-> fences \cup (IF covered > Last(ents \cup fences)
                                                  THEN {covered} ELSE {})]
        window == {p \in sorted : p >= from}
        masked == window \cap InFile("masked")
    IN  /\ logLine' = [p \in Positions |-> IF p <= cut["log"] THEN logLine[p] ELSE "none"]
        /\ logFences' = {n \in logFences : n <= cut["log"]}
        /\ file' = [f \in Derived |-> Closed(f)]
        /\ inner' = [pending |-> head > low, low |-> low, openHead |-> head,
                     minSince |-> opened.fence, residentFrom |-> from,
                     entries |-> [p \in Positions |->
                                    IF p \in held /\ p >= from THEN logLine[p] ELSE "none"],
                     docs |-> window \cap With("index"),
                     masked |-> masked, published |-> window \ masked,
                     streams |-> window \cap InFile("streams"),
                     unsorted |-> unsorted,
                     landingOwed |-> head > low \/ unsorted # {},
                     stopped |-> {}]
        /\ walk' = [IdleWalk EXCEPT !.pc = IF head > low \/ unsorted # {}
                                           THEN "list" ELSE "done"]

Open ==
    /\ ~up /\ up' = TRUE
    /\ opens < MaxOpens /\ opens' = opens + 1
    /\ \E cut \in Cuts : OpenOver(cut)
    /\ UNCHANGED <<journal, refused, faults>>

GoDown ==
    /\ up' = FALSE
    /\ inner' = EmptyInner
    /\ walk' = IdleWalk

\* The process ends: a kill, a power loss, or a shutdown, which asks the walk
\* to stop and writes nothing further.
Crash ==
    /\ up /\ GoDown
    /\ UNCHANGED <<journal, disk, refused, faults, opens>>

-----------------------------------------------------------------------------
(* The record step.                                                        *)

\* The window's lower edge moved up to target, never past a position that is
\* held in memory alone while the region pends.
Evict(m, target) ==
    LET since == {p \in Holds(m.entries) : p > m.openHead}
        edge == IF m.pending THEN Min({target} \cup since) ELSE target
        from == Larger(m.residentFrom, edge)
    IN  [m EXCEPT !.residentFrom = from,
                  !.entries = [p \in Positions |-> IF p >= from THEN @[p] ELSE "none"]]

\* Mutant: every position enters the published stream.
FoldAllPublished(m, p, D) ==
    [m EXCEPT !.docs = IF D # {} THEN @ \cup {p} ELSE @,
              !.masked = IF TakesLine("masked", D) THEN @ \cup {p} ELSE @,
              !.published = @ \cup {p},
              !.streams = IF TakesLine("streams", D) THEN @ \cup {p} ELSE @]

\* A position with the documents D folded into the twins.
Fold(m, p, D) ==
    [m EXCEPT !.docs = IF D # {} THEN @ \cup {p} ELSE @,
              !.masked = IF TakesLine("masked", D) THEN @ \cup {p} ELSE @,
              !.published = IF TakesLine("masked", D) THEN @ ELSE @ \cup {p},
              !.streams = IF TakesLine("streams", D) THEN @ \cup {p} ELSE @]

DropBelow(m, from) ==
    [m EXCEPT !.docs = {p \in @ : p >= from}, !.masked = {p \in @ : p >= from},
              !.published = {p \in @ : p >= from}, !.streams = {p \in @ : p >= from}]

Trim(m) == DropBelow(m, m.residentFrom)

\* The entry in the resident window, and on the file unless the region pends
\* or the file is stopped.
Admit(m, at, meta) ==
    Evict([m EXCEPT !.entries[at] = meta], at - Window + 1)

\* Mutant: the derived files take their lines while the landing is owed.
AppendsWhileOwed(m, D) ==
    {f \in AllFiles \ m.stopped : IF f = "log" THEN ~m.pending ELSE TakesLine(f, D)}

\* Mutant: a stopped file takes the next line.
AppendsPastStop(m, D) ==
    {f \in AllFiles :
       IF f = "log" THEN ~m.pending ELSE ~m.landingOwed /\ TakesLine(f, D)}

\* The files a record appends a line to.
Appends(m, D) ==
    {f \in AllFiles \ m.stopped :
       IF f = "log" THEN ~m.pending ELSE ~m.landingOwed /\ TakesLine(f, D)}

\* One commit and its record under the write guard: in full, or bare where the
\* write panicked past its commit.  A file whose append fails takes no line,
\* this one or a later one.
Record(D, meta, failed) ==
    LET at == head + 1
        m == Trim(Fold(Admit(inner, at, meta), at, D))
        taken == Appends(inner, D) \ failed
    IN  /\ up /\ at <= MaxPos
        /\ meta = "bare" /\ inner.landingOwed /\ ~inner.pending => BareInSort
        /\ failed \subseteq Appends(inner, D)
        /\ Spend(Cardinality(failed))
        /\ head' = at
        /\ docs' = [docs EXCEPT ![at] = D]
        /\ logLine' = [logLine EXCEPT ![at] = IF "log" \in taken THEN meta ELSE @]
        /\ file' = [f \in Derived |->
                      IF f \in taken THEN [file[f] EXCEPT !.ents = @ \cup {at}] ELSE file[f]]
        /\ inner' = [m EXCEPT !.stopped = @ \cup failed]
        /\ UNCHANGED <<floor, reclaims, logFences, up, walk, refused, opens>>

\* A commit whose record the process did not live to make.
CommitThenCrash(D) ==
    /\ up /\ head < MaxPos
    /\ head' = head + 1
    /\ docs' = [docs EXCEPT ![head + 1] = D]
    /\ GoDown
    /\ UNCHANGED <<floor, reclaims, disk, refused, faults, opens>>

\* The checkpoint thread reclaims the journal below a position.
Reclaim(to) ==
    /\ up /\ floor < to /\ to <= head
    /\ reclaims < MaxReclaims /\ faults + reclaims < MaxEvents
    /\ reclaims' = reclaims + 1
    /\ floor' = to
    /\ UNCHANGED <<head, docs, disk, up, inner, walk, refused, faults, opens>>

-----------------------------------------------------------------------------
(* The walk behind the listener.                                           *)

\* The region's boundaries listed in one scan of the journal: all of them, or
\* from the floor up where the journal is reclaimed above the region's lower
\* edge, or the head alone where the read fails.
WalkList(fails) ==
    LET m == inner
        at == CASE fails -> m.openHead
                [] ~fails /\ floor <= m.low -> m.low + 1
                [] OTHER -> Min({floor, m.openHead + 1})
    IN  /\ up /\ walk.pc = "list"
        /\ fails => m.pending /\ "journal" \in Fallible
        /\ Spend(IF fails THEN 1 ELSE 0)
        /\ walk' = IF m.pending
                   THEN [walk EXCEPT !.pc = "sort", !.at = at,
                           !.min = CASE fails -> m.openHead - 1
                                     [] ~fails /\ floor <= m.low -> -1
                                     [] OTHER -> floor - 1]
                   ELSE [walk EXCEPT !.pc = "sort"]
        /\ UNCHANGED <<journal, disk, up, inner, refused, opens>>

EntryBelow(p) == Last({q \in Holds(logLine) : q < p})

\* Whether the journal answers the two worlds position p is classified from.
Classifies(p) ==
    /\ walk.carried = EntryBelow(p) \/ floor <= EntryBelow(p)
    /\ p = inner.openHead \/ floor <= p

\* The index file appended with every classified position up to p.
IndexLinesThrough(m, p) ==
    LET claim == Coverage(file["index"])
        gap == {q \in Holds(logLine) : claim < q /\ q < p}
        classified == {q \in gap : q \in m.docs \/ (logLine[q] = "full" /\ docs[q] # {})}
    IN  classified \cup ({p} \cap m.docs)

\* The lowest bare position the index lost is classified and landed: out of
\* the set, into the twins, the index file up to it.  A write of the index
\* that fails stops the file short of it.
SortNext(fails, stopAt) ==
    LET p == Min(inner.unsorted)
        answered == Classifies(p) /\ ~fails
        m == Fold([inner EXCEPT !.unsorted = @ \ {p}], p, IF answered THEN docs[p] ELSE {})
        lines == IndexLinesThrough(m, p)
        index == file["index"]
    IN  /\ up /\ walk.pc = "sort" /\ inner.unsorted # {}
        /\ fails => Classifies(p) /\ "journal" \in Fallible
        /\ stopAt # 0 => /\ SortFails /\ "index" \in Fallible \ inner.stopped
                         /\ stopAt \in lines \cup {p}
        /\ Spend((IF fails THEN 1 ELSE 0) + (IF stopAt # 0 THEN 1 ELSE 0))
        /\ refused' = IF answered THEN refused \ {p} ELSE refused \cup {p}
        /\ walk' = [walk EXCEPT !.carried = IF answered /\ p # inner.openHead THEN p ELSE -1]
        /\ file' = CASE "index" \in inner.stopped -> file
                     [] stopAt # 0 ->
                          [file EXCEPT !["index"].ents = @ \cup {q \in lines : q < stopAt}]
                     [] OTHER ->
                          [file EXCEPT !["index"] =
                             [ents |-> @.ents \cup lines,
                              fences |-> @.fences \cup (IF p \in lines THEN {} ELSE {p})]]
        /\ inner' = [m EXCEPT !.stopped = IF stopAt # 0 THEN @ \cup {"index"} ELSE @]
        /\ UNCHANGED <<journal, logLine, logFences, up, opens>>

\* The set sorted, the walk over the region begins from the world at its lower
\* edge, where the journal still answers it.
WalkStart(fails) ==
    LET answered == walk.min = -1 /\ floor <= inner.low
    IN  /\ up /\ walk.pc = "sort" /\ inner.unsorted = {}
        /\ fails => inner.pending /\ answered /\ "journal" \in Fallible
        /\ Spend(IF fails THEN 1 ELSE 0)
        /\ walk' = [walk EXCEPT !.pc = IF inner.pending THEN "walk" ELSE "land",
                                !.below = inner.pending /\ answered /\ ~fails]
        /\ UNCHANGED <<journal, disk, up, inner, refused, opens>>

\* The next boundary is proved by its replay and classified against the one
\* below; reclaimed, the walk goes on from the floor behind a fence; refused
\* otherwise, behind a fence at the boundary.
WalkNext(fails) ==
    LET at == walk.at
        atHead == at = inner.openHead
        proved == /\ ~fails
                  /\ atHead \/ floor <= at
    IN  /\ up /\ walk.pc = "walk" /\ at <= inner.openHead
        /\ fails => ~atHead /\ floor <= at /\ "journal" \in Fallible
        /\ Spend(IF fails THEN 1 ELSE 0)
        /\ walk' = IF proved
                   THEN [walk EXCEPT !.at = at + 1, !.below = TRUE,
                                     !.proved = @ \cup {at},
                                     !.blind = IF walk.below THEN @ ELSE @ \cup {at}]
                   ELSE [walk EXCEPT !.at = IF fails THEN at + 1 ELSE floor,
                                     !.below = FALSE,
                                     !.min = Larger(@, IF fails THEN at ELSE floor - 1)]
        /\ UNCHANGED <<journal, disk, up, inner, refused, opens>>

WalkEnd ==
    /\ up /\ walk.pc = "walk" /\ walk.at > inner.openHead
    /\ walk' = [walk EXCEPT !.pc = "land"]
    /\ UNCHANGED <<journal, disk, up, inner, refused, faults, opens>>

\* The walk thread panics: what pends stays so for the life of the process.
WalkDies ==
    /\ up /\ walk.pc \notin {"done", "dead"}
    /\ Spend(1)
    /\ walk' = [IdleWalk EXCEPT !.pc = "dead"]
    /\ UNCHANGED <<journal, disk, up, inner, refused, opens>>

-----------------------------------------------------------------------------
(* The landing.                                                            *)

\* The walk folded into the twins and the resident entries, behind its fence.
FoldTheWalk(m) ==
    LET fence == Larger(m.minSince, walk.min)
        kept == [p \in Positions |->
                   CASE p <= fence -> IF fence > m.minSince THEN "none" ELSE m.entries[p]
                     [] p > fence /\ m.entries[p] = "none" /\ p \in walk.proved -> "bare"
                     [] OTHER -> m.entries[p]]
        classified == walk.proved \ walk.blind
        unmasked == {p \in walk.proved : p \in walk.blind \/ ~TakesLine("masked", docs[p])}
        folded == [m EXCEPT
                     !.pending = FALSE, !.minSince = fence, !.entries = kept,
                     !.docs = @ \cup {p \in classified : docs[p] # {}},
                     !.masked = @ \cup {p \in classified : TakesLine("masked", docs[p])},
                     !.published = @ \cup unmasked,
                     !.streams = @ \cup {p \in classified : TakesLine("streams", docs[p])},
                     !.unsorted = {p \in @ : p > fence}]
    IN  IF m.pending THEN DropBelow(folded, fence + 1) ELSE m

\* The last position the landing's rewrites cover.
LandingCovers(m) ==
    LET resident == Holds(m.entries)
    IN  CASE resident # {} -> Max(resident)
          [] resident = {} /\ inner.pending -> m.minSince
          [] OTHER -> Coverage(file["index"])

\* The positions the rewrites know the documents of: the twins', and between
\* them those commits.log and the index file answer.
ClassifiedAbove(m) ==
    LET answered == FileDocs(logLine, file["index"])
    IN  m.docs \cup {p \in Holds(logLine) \ m.unsorted :
                       p > m.minSince /\ answered[p] # {}}

\* A derived file rewritten: the records it held, the classified positions
\* above its claim, and one fence.
Rewritten(f, known, covered) ==
    LET claim == Coverage(file[f])
    IN  [ents |-> file[f].ents \cup {p \in known : /\ claim < p /\ p <= covered
                                                   /\ TakesLine(f, docs[p])},
         fences |-> IF covered = 0 THEN {} ELSE {covered}]

\* The disk once the files in `done` are rewritten: the three, then the log
\* with every line it held, the fence, and the resident entries above the
\* region's lower edge.
LandedDisk(m, done) ==
    LET known == ClassifiedAbove(m)
        covered == LandingCovers(m)
        logged == "log" \in done /\ inner.pending
    IN  /\ file' = [f \in Derived |-> IF f \in done THEN Rewritten(f, known, covered)
                                      ELSE file[f]]
        /\ logLine' = [p \in Positions |->
                         IF logged /\ p > inner.low /\ m.entries[p] # "none"
                         THEN m.entries[p] ELSE logLine[p]]
        /\ logFences' = logFences \cup (IF logged THEN {m.minSince} \ {0} ELSE {})

Settle(m) == Trim(Evict(m, Last(Holds(m.entries) \cup {m.openHead}) - Window + 1))

\* The landing under the feed's lock.  A rewrite refused before its rename
\* leaves the file as it stood, one refused past it leaves the new file in
\* place; either way the file takes no further line.
Land(before, past) ==
    LET m == FoldTheWalk(inner)
    IN  /\ up /\ walk.pc = "land"
        /\ "log" \in before \cup past => inner.pending
        /\ Spend(Cardinality(before \cup past))
        /\ LandedDisk(m, AllFiles \ before)
        /\ inner' = Settle([m EXCEPT !.landingOwed = FALSE,
                                     !.stopped = @ \cup before \cup past])
        /\ refused' = (refused \ walk.proved) \cup walk.blind
        /\ walk' = IdleWalk
        /\ UNCHANGED <<journal, up, opens>>

\* The process ends between two of the landing's rewrites.
LandKilled(done) ==
    /\ up /\ walk.pc = "land"
    /\ LandedDisk(FoldTheWalk(inner), done)
    /\ refused' = (refused \ walk.proved) \cup walk.blind
    /\ GoDown
    /\ UNCHANGED <<journal, faults, opens>>

-----------------------------------------------------------------------------
(* A page.                                                                 *)

Readable(reader) == IF reader = "guest" THEN {"open"} ELSE Documents

\* Mutant: a page is held back by the region alone.
PendingInRegion(since) ==
    IF inner.pending THEN Larger(inner.low, since) + 1 .. inner.openHead ELSE {}

\* The positions above since the walk has yet to land.
PendingAbove(since) ==
    {p \in inner.unsorted : p > since} \cup
    (IF inner.pending THEN Larger(inner.low, since) + 1 .. inner.openHead ELSE {})

\* The lines of the files below the window, the twins' sources from its edge.
Candidates(reader, since) ==
    {p \in Holds(logLine) : since < p /\ p < inner.residentFrom} \cup
    {p \in inner.published \cup (IF reader = "owner" THEN inner.streams ELSE {}) :
       p > since /\ p >= inner.residentFrom}

MetaAt(p) == IF p < inner.residentFrom THEN logLine[p] ELSE inner.entries[p]

DocsAt(p) ==
    IF p < inner.residentFrom THEN FileDocs(logLine, file["index"])[p]
    ELSE IF p \in inner.docs THEN docs[p] ELSE {}

Visible(reader, p) ==
    /\ p \notin inner.unsorted /\ MetaAt(p) # "none"
    /\ DocsAt(p) = {} \/ DocsAt(p) \cap Readable(reader) # {}

FirstOf(S, n) == {p \in S : Cardinality({q \in S : q < p}) < n}

Page(reader, since, limit) ==
    LET pends == PendingAbove(since)
        rows == {p \in Candidates(reader, since) :
                   Visible(reader, p) /\ \A q \in pends : p < q}
    IN  CASE since < inner.minSince -> [answer |-> "reclaimed", rows |-> {}]
          [] since >= inner.minSince /\ pends # {} /\ Cardinality(rows) < limit ->
               [answer |-> "rebuilding", rows |-> {}]
          [] OTHER -> [answer |-> "page", rows |-> FirstOf(rows, limit)]

-----------------------------------------------------------------------------
Init ==
    /\ head = 0 /\ docs = [p \in Positions |-> {}] /\ floor = 0 /\ reclaims = 0
    /\ logLine = [p \in Positions |-> "none"] /\ logFences = {}
    /\ file = [f \in Derived |-> [ents |-> {}, fences |-> {}]]
    /\ up = TRUE /\ inner = EmptyInner /\ walk = IdleWalk
    /\ refused = {} /\ faults = 0 /\ opens = 0

Next ==
    \/ Open
    \/ Crash
    \/ \E D \in DocSets, meta \in {"full", "bare"}, failed \in SUBSET (Fallible \cap AllFiles) :
         Record(D, meta, failed)
    \/ \E D \in DocSets : CommitThenCrash(D)
    \/ \E to \in Positions : Reclaim(to)
    \/ \E fails \in BOOLEAN : WalkList(fails) \/ WalkStart(fails) \/ WalkNext(fails)
    \/ \E fails \in BOOLEAN, stopAt \in 0..MaxPos : SortNext(fails, stopAt)
    \/ WalkEnd
    \/ \E before \in SUBSET (Fallible \cap AllFiles) :
         \E past \in SUBSET ((Fallible \cap AllFiles) \ before) : Land(before, past)
    \/ WalkDies
    \/ \E done \in {{"index"}, {"index", "masked"}, Derived} : LandKilled(done)

Spec == Init /\ [][Next]_vars

-----------------------------------------------------------------------------
(* Properties.                                                             *)

\* The kinds of the feed's state, and the window's edge: nothing resident lies
\* below it once the walk has landed (CommitsLog::evict, trim_to_the_window).
TypeOK ==
    /\ head \in 0..MaxPos /\ floor \in 0..head /\ refused \subseteq 1..head
    /\ docs \in [Positions -> SUBSET Documents]
    /\ logLine \in [Positions -> {"none", "full", "bare"}] /\ logFences \subseteq 1..head
    /\ \A f \in Derived : file[f].ents \subseteq 1..head /\ file[f].fences \subseteq 1..head
    /\ up \in BOOLEAN
    /\ inner.stopped \subseteq AllFiles /\ inner.unsorted \subseteq Holds(logLine)
    /\ inner.masked \cap inner.published = {}
    /\ walk.pc \in {"list", "sort", "walk", "land", "done", "dead"}
    /\ up /\ walk.pc = "done" =>
         /\ ~inner.pending /\ inner.unsorted = {} /\ ~inner.landingOwed
         /\ Holds(inner.entries) = inner.masked \cup inner.published

\* What a page serves from below the window while a file has stopped: a
\* position the stopped log lost its line of, or a bare one the stopped index
\* does not classify.
Excused(p) ==
    /\ p < inner.residentFrom
    /\ \/ "log" \in inner.stopped /\ logLine[p] = "none"
       \/ "index" \in inner.stopped /\ logLine[p] = "bare" /\ p > Coverage(file["index"])

\* The feed-class oracle (feed.rs, PUB-6.59): whatever was lost, cut, walked,
\* sorted, evicted or recorded meanwhile, a page a reader is given carries
\* exactly the positions of (since, end] the journal's own documents let that
\* reader see, and a row in full carries its documents.
PageIsExact(reader, since, limit, excused) ==
    LET page == Page(reader, since, limit)
        end == IF Cardinality(page.rows) = limit THEN Max(page.rows) ELSE head
        judged == (since + 1 .. end) \ (refused \cup excused)
    IN  page.answer = "page" =>
          /\ page.rows \cap judged =
               {p \in judged : docs[p] = {} \/ docs[p] \cap Readable(reader) # {}}
          /\ \A p \in page.rows \cap judged : MetaAt(p) = "full" => DocsAt(p) = docs[p]

PagesExact ==
    LET excused == {p \in 1..head : Excused(p)}
    IN  up => \A reader \in Readers, since \in 0 .. head - 1, limit \in 1..head :
                PageIsExact(reader, since, limit, excused)

\* The same with nothing excused: "no page's bytes depend on which side of the
\* window its positions lie" (feed.rs, the module's card).
OneAnswer ==
    up => \A reader \in Readers, since \in 0 .. head - 1, limit \in 1..head :
            PageIsExact(reader, since, limit, {})

\* The gap rule (feed.rs, land; derived.rs): no derived file claims to cover a
\* position it lacks the record of, at any moment a kill could leave it.  The
\* claim is the one an open reads: what lies past the log is cut back first.
ClaimsHeld ==
    LET end == Last(Holds(logLine) \cup logFences)
        Claim(f) == Coverage(CutTo(file[f], end))
    IN  \A f \in Derived, p \in Holds(logLine) \ refused :
          Last(logFences) < p /\ p <= Claim(f) /\ TakesLine(f, docs[p]) => p \in file[f].ents

\* Wherever a restart finds commits.log cut, it has no hole above the fence
\* then in force, so an open that walks from its last line re-covers everything
\* it lost (sidecar.rs, CommitsLog::stopped).
LogWhole ==
    \A cut \in 0 .. head :
        \A p \in Last({n \in logFences : n <= cut}) + 1
                   .. Last({q \in Holds(logLine) : q <= cut}) : logLine[p] # "none"
=============================================================================
