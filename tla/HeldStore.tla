------------------------------ MODULE HeldStore ------------------------------
(***************************************************************************)
(* The shell's held store for one (board, principal): the queue of writes  *)
(* a board did not take, and the two files that keep them across a close,  *)
(* the board's own (named by its chain) and the pending one (named by the  *)
(* origin dialed, while the board's head record does not read).            *)
(*                                                                         *)
(* A held file is append-only: a `held' line of an ordinal sets it, a      *)
(* `done' line removes it and raises the bases behind it.  A file is kept  *)
(* here as what its reader makes of it (open_file's fold), so an append is *)
(* the effect of its lines on that record.                                 *)
(*                                                                         *)
(* The device may refuse any copy; the cut back of a refused copy may be   *)
(* refused too, and then some whole lines of it stand past what the queue  *)
(* knows of the file (`left') until a later cut.  A close drops the memory *)
(* and keeps the bytes.  The crash that meets an append is the refusal of  *)
(* that copy with its cut back refused, then the close.                    *)
(***************************************************************************)
EXTENDS Integers, FiniteSets, FiniteSetsExt, Functions

CONSTANTS
    Docs,             \* documents
    Causes,           \* what a line's reason says of it
    Versions,         \* the frames a line may carry: 0 as typed, then shifted
    Long,             \* the frames that make a line past MAX_HELD_LINE_BYTES
    Remarks,          \* MAX_HELD_REMARK_BYTES, in re-marks
    HeldLines,        \* MAX_HELD_LINES
    MaxOrdinal,       \* MAX_ORDINAL
    MaxPos,           \* bound: positions of the board's log
    MaxWrites,        \* bound: writes held
    MaxChanges,       \* bound: re-marks and shifts
    MaxCloses,        \* bound: closes of the shell
    MaxEvents,        \* bound: changes and closes together
    MaxRefusals       \* bound: copies the device refuses

ASSUME StoreAssumption ==
    /\ Causes # {}
    /\ Versions \subseteq Nat /\ 0 \in Versions /\ Long \subseteq Versions \ {0}
    /\ Remarks \in Nat /\ HeldLines \in Nat /\ MaxOrdinal \in Nat /\ MaxPos \in Nat /\ MaxWrites \in Nat
    /\ MaxChanges \in Nat /\ MaxCloses \in Nat /\ MaxEvents \in Nat /\ MaxRefusals \in Nat

VARIABLES
    file,      \* what each held file's reader would make of it
    left,      \* and would make of it with the refused copy left standing
    dir,       \* the directory the shell writes: none known, pending, board
    home,      \* where the principal's queue is kept
    lines,     \* HeldQueue::lines, by ordinal
    owed,      \* Owing::owed: re-marks and dones of lines on disk
    waits,     \* Owing::waits_from, 0 for none
    spent,     \* Disk::remark_bytes, in re-marks
    nextK,     \* PrincipalHold::next_k
    touched,   \* PrincipalHold::touched
    stale,     \* ordinals whose last change the writer refused to copy
    answered,  \* the write each ordinal was given to, this run
    copied,    \* the writes a call was told are on disk
    settled,   \* the writes that left the queue
    cut,       \* the writes part of a renumbering's copy names done alone
    writes, changes, closes, refusals

queueVars == <<lines, owed, waits, spent, stale>>
countVars == <<writes, changes, closes>>
vars == <<file, left, dir, home, queueVars, nextK, touched,
          answered, copied, settled, cut, countVars, refusals>>

Files == {"pending", "board"}

(* A held line: the write it carries (its frame as typed, with its id), its
   document, the base its landing is read from, its reason, and which frame. *)
Line == [w: 1..MaxWrites, doc: Docs, base: 0..MaxPos, cause: Causes,
         sent: BOOLEAN, ver: Versions]

Empty == [k \in {} |-> {}]
Fresh == [lines |-> Empty, named |-> 0, marks |-> 0]

(* What two lines carry alike for a join of an earlier run's file. *)
Carried(l) == <<l.doc, l.w, l.ver>>

\* Mutant: marking a line sent spends the budget as any re-mark does.
MarksSentSpends(was, now) == FALSE

MarksSent(was, now) == ~was.sent /\ now.sent

(* A line kept at `at' raises the bases of the lines behind it, same document. *)
Raised(l, doc, at) ==
    IF l.doc = doc /\ l.base < at THEN [l EXCEPT !.base = at] ELSE l

----------------------------------------------------------------------------
(* A copy: `held' lines by ordinal and `done' lines by ordinal with their
   position, 0 where they name none.  Its lines stand in ordinal order, a
   renumbering's dones before its helds. *)
Copy(held, done) == [held |-> held, done |-> done]

\* Mutant: the reader raises no base behind a done line.
DoneAtUnraised(f, done, j) == {}

DoneAt(f, done, j) ==
    {done[k] : k \in {k \in DOMAIN done \cap DOMAIN f.lines :
                          k < j /\ f.lines[k].doc = f.lines[j].doc}}

(* What the reader makes of the file with the copy's lines at its end. *)
Read(f, copy) ==
    LET rest == DOMAIN f.lines \ DOMAIN copy.done
        all  == rest \cup DOMAIN copy.held
        spends == {k \in DOMAIN copy.held \cap rest :
                      ~MarksSent(f.lines[k], copy.held[k])}
    IN  [lines |-> [j \in all |->
                      IF j \in DOMAIN copy.held THEN copy.held[j]
                      ELSE [f.lines[j] EXCEPT !.base =
                              Max({@} \cup DoneAt(f, copy.done, j))]],
         named |-> Max({f.named} \cup DOMAIN copy.held \cup DOMAIN copy.done),
         marks |-> f.marks + Cardinality(spends)]

\* Mutant: a copy the device refuses is skipped and the next one tried.
PrefixesSkipping(S) == SUBSET S

(* Disk::write_copies: the copies are tried in ordinal order, the first refused
   stopping the rest. *)
Prefixes(S) == {{s \in S : s <= last} : last \in S \cup {0}}

----------------------------------------------------------------------------
(* The bound on the copies the device refuses. *)
Counted(refused) ==
    /\ refused => refusals < MaxRefusals
    /\ refusals' = IF refused THEN refusals + 1 ELSE refusals

(* HeldQueue::retry.  The copies owed the lines on disk, then the first
   copies of the lines that wait: all in ordinal order, as every ordinal owed
   a copy is below the first that waits.  The device takes a prefix. *)
Waiting(ls, wt) == {k \in DOMAIN ls : wt # 0 /\ k >= wt}

CopyOf(ls, ow, ks) ==
    LET dones == {k \in ks \cap DOMAIN ow : ow[k].done}
    IN  Copy([k \in ks \ dones |-> ls[k]], [k \in dones |-> ow[k].at])

(* The writer refuses a copy past the line bound, before any I/O. *)
Writable(ls, ow, k) ==
    ~(k \in DOMAIN ow /\ ow[k].done) => ls[k].ver \notin Long

(* What may stand past the whole lines once the device took `landed': nothing;
   what stood before, where nothing landed; the one copy refused alone; or,
   where nothing landed, whole lines of the one copy first tried. *)
Tails(f, tail, ls, ow, due, landed) ==
    {{}} \cup (IF landed = {} THEN {tail} ELSE {})
         \cup {{Read(f, CopyOf(ls, ow, p))} :
                  p \in {p \in Prefixes(due) :
                           /\ landed \subseteq p /\ p # landed
                           /\ \A k \in p : Writable(ls, ow, k)
                           /\ landed = {} \/ Cardinality(p \ landed) = 1}}

(* The files, the tails, what is owed and what waits after a retry over the
   lines ls, the copies ow and the first that waits wt. *)
Retry(ls, ow, wt) ==
    IF home \notin Files
    THEN /\ owed' = ow /\ waits' = wt
         /\ UNCHANGED <<file, left, copied, refusals>>
    ELSE LET firsts == Waiting(ls, wt)
             due == DOMAIN ow \cup firsts
         IN  \E landed \in Prefixes(due) :
               /\ \A k \in landed : Writable(ls, ow, k)
               /\ LET rest == due \ landed
                      after == Read(file[home], CopyOf(ls, ow, landed))
                  IN  /\ file' = [file EXCEPT ![home] = after]
                      /\ \E t \in Tails(file[home], left[home], ls, ow, due, landed) :
                            left' = [left EXCEPT ![home] = t]
                      /\ owed' = Restrict(ow, rest \cap DOMAIN ow)
                      /\ waits' = IF rest = {} THEN 0
                                  ELSE IF Min(rest) \in firsts THEN Min(rest)
                                  ELSE wt
                      /\ copied' = copied \cup {ls[k].w : k \in landed \cap firsts}
                      /\ Counted(rest # {} /\ Writable(ls, ow, Min(rest)))

Holds(k) == waits = 0 \/ k < waits

----------------------------------------------------------------------------
(* HeldQueue::hold, by PrincipalHold::hold. *)
Hold(doc, base) ==
    LET w == writes + 1
        line == [w |-> w, doc |-> doc, base |-> base, cause |-> CHOOSE c \in Causes : TRUE,
                 sent |-> FALSE, ver |-> 0]
        ls == [k \in DOMAIN lines \cup {nextK} |-> IF k = nextK THEN line ELSE lines[k]]
    IN  /\ home # "none" /\ w <= MaxWrites /\ nextK <= MaxOrdinal
        /\ Cardinality(DOMAIN lines)
             + Cardinality({k \in DOMAIN owed : owed[k].done}) < HeldLines
        /\ lines' = ls
        /\ nextK' = nextK + 1
        /\ writes' = w
        /\ answered' = [k \in DOMAIN answered \cup {nextK} |->
                          IF k = nextK THEN w ELSE answered[k]]
        /\ Retry(ls, owed, IF waits = 0 /\ home \in Files THEN nextK ELSE waits)
        /\ UNCHANGED <<dir, home, spent, touched, stale, settled, cut, changes, closes>>

(* HeldQueue::owe and Disk::owe_mark: a change of a line on disk is owed one
   copy, which the budget may refuse unless it marks the line sent or rides a
   copy owed already. *)
Owe(k, line) ==
    LET ls == [lines EXCEPT ![k] = line]
        spends == ~MarksSent(lines[k], line)
        rides == k \in DOMAIN owed
        onDisk == home \in Files /\ Holds(k)
        over == spends /\ ~rides /\ spent + 1 > Remarks
    IN  /\ changes < MaxChanges /\ changes + closes < MaxEvents /\ changes' = changes + 1
        /\ lines' = ls
        /\ \/ /\ ~onDisk
              /\ UNCHANGED <<spent, stale>>
              /\ Retry(ls, owed, waits)
           \/ /\ onDisk /\ line.ver \in Long
              /\ stale' = stale \cup {k} /\ UNCHANGED spent
              /\ Retry(ls, Restrict(owed, DOMAIN owed \ {k}), waits)
           \/ /\ onDisk /\ line.ver \notin Long /\ over
              /\ stale' = stale \cup {k} /\ UNCHANGED spent
              /\ Retry(ls, owed, waits)
           \/ /\ onDisk /\ line.ver \notin Long /\ ~over
              /\ stale' = stale \ {k}
              /\ spent' = IF spends /\ ~rides THEN spent + 1 ELSE spent
              /\ Retry(ls, [j \in DOMAIN owed \cup {k} |->
                              IF j = k THEN [done |-> FALSE, at |-> 0] ELSE owed[j]], waits)
        /\ UNCHANGED <<dir, home, nextK, touched, answered, settled, cut, writes, closes>>

(* HeldQueue::remark and HeldQueue::remark_raised. *)
Remark(k, cause, sent, at) ==
    LET line == [lines[k] EXCEPT !.cause = cause, !.sent = sent,
                                 !.base = Max({@, at})]
    IN  /\ k \in DOMAIN lines /\ line # lines[k]
        /\ Owe(k, line)

(* HeldQueue::rewrite: the shift of a burst the board refused as moved. *)
Rewrite(k, ver) ==
    /\ k \in DOMAIN lines /\ ver > lines[k].ver
    /\ Owe(k, [lines[k] EXCEPT !.ver = ver])

(* HeldQueue::done, and the compaction where no line is left.  A line kept
   raises the bases behind it; a line on disk owes its done. *)
Done(k, at) ==
    LET ls == [j \in DOMAIN lines \ {k} |->
                 IF j > k THEN Raised(lines[j], lines[k].doc, at) ELSE lines[j]]
        ow == IF home \in Files /\ Holds(k)
              THEN [j \in DOMAIN owed \cup {k} |->
                      IF j = k THEN [done |-> TRUE, at |-> at] ELSE owed[j]]
              ELSE owed
    IN  /\ k \in DOMAIN lines
        /\ settled' = settled \cup {lines[k].w}
        /\ stale' = stale \ {k}
        /\ lines' = ls
        /\ \/ /\ Retry(ls, ow, waits)
              /\ UNCHANGED spent
           \/ /\ home \in Files /\ ls = Empty
              /\ file' = [file EXCEPT ![home] = Fresh]
              /\ left' = [left EXCEPT ![home] = {}]
              /\ owed' = Empty /\ waits' = 0 /\ spent' = 0
              /\ UNCHANGED <<copied, refusals>>
        /\ UNCHANGED <<dir, home, nextK, touched, answered, cut, countVars>>

(* The probe: Holds::retry_unsettled and the queue's retry. *)
Probe ==
    /\ home \in Files
    /\ Retry(lines, owed, waits)
    /\ UNCHANGED <<dir, home, lines, spent, stale, nextK, touched,
                   answered, settled, cut, countVars>>

(* Disk::cut_tail of a file no queue has open (Holds::retry_unsettled). *)
CutUnsettled(n) ==
    /\ n # home /\ left[n] # {}
    /\ left' = [left EXCEPT ![n] = {}]
    /\ UNCHANGED <<file, dir, home, queueVars, nextK, touched,
                   answered, copied, settled, cut, countVars, refusals>>

----------------------------------------------------------------------------
(* Fresh ordinals from nk for the lines ks, in their order. *)
Renamed(ks, nk) ==
    [j \in nk .. (nk + Cardinality(ks) - 1) |->
        CHOOSE k \in ks : Cardinality({i \in ks : i < k}) = j - nk]

(* HeldQueue::renumber's one copy: a done of each old ordinal, then each line
   under its fresh one. *)
Renumbering(f, nk) ==
    LET new == Renamed(DOMAIN f.lines, nk)
    IN  Copy([j \in DOMAIN new |-> f.lines[new[j]]], [k \in DOMAIN f.lines |-> 0])

\* Mutant: only a line past the counter is renumbered.
RenumbersAbove(f, nk) == \E k \in DOMAIN f.lines : k > nk

(* PrincipalHold::renumbers. *)
Renumbers(f, nk) == \E k \in DOMAIN f.lines : k < nk

(* HeldQueue::entering for an earlier run's file: each line of it but those a
   standing line carries already, one for one. *)
EnteringEarlier(f, from, nk) ==
    LET like(ls, S, l) == {j \in S : Carried(ls[j]) = Carried(l)}
        repeated(k) ==
            Cardinality({j \in like(from, DOMAIN from, from[k]) : j <= k})
              <= Cardinality(like(f.lines, DOMAIN f.lines, from[k]))
        new == Renamed({k \in DOMAIN from : ~repeated(k)}, nk)
    IN  Copy([j \in DOMAIN new |-> from[new[j]]], Empty)

\* Mutant: a line enters only past every ordinal the file has named.
EnteringLivePast(f, live) ==
    Copy(Restrict(live, DOMAIN live \ 1 .. f.named), Empty)

(* HeldQueue::entering for this run's lines, which keep their ordinals. *)
EnteringLive(f, live) ==
    Copy(Restrict(live, DOMAIN live \ DOMAIN f.lines), Empty)

(* What of a one-copy append may stand once the device refused it and the cut
   back: whole lines of it in their order. *)
Torn(copy) ==
    UNION {{Copy(Restrict(copy.held, h), Restrict(copy.done, d)) :
              d \in {d \in Prefixes(DOMAIN copy.done) :
                        /\ h \cup d # {}
                        /\ h # {} => d = DOMAIN copy.done}} :
           h \in Prefixes(DOMAIN copy.held)}

(* The writes such a part names done whose lines did not follow. *)
DoneAlone(f, c) ==
    {f.lines[k].w : k \in DOMAIN f.lines \cap DOMAIN c.done}
      \ {Read(f, c).lines[k].w : k \in DOMAIN Read(f, c).lines}

NothingIn(copy) == copy.held = Empty
WriterTakes(copy) ==
    \A k \in DOMAIN copy.held : k <= MaxOrdinal /\ copy.held[k].ver \notin Long

(* The append of `copy' to file n, now f, is refused; `gone' where the pending
   file was removed before it, what stood past its lines with it.  Part of the
   copy may be left. *)
Refused(n, f, copy, gone) ==
    LET leaves(t) == left' = [left EXCEPT ![n] = t, !["pending"] = IF gone THEN {} ELSE @]
    IN  /\ \/ /\ \E t \in {{}} \cup (IF f = file[n] THEN {left[n]} ELSE {}) : leaves(t)
              /\ UNCHANGED cut
           \/ \E c \in Torn(copy) :
                 WriterTakes(copy) /\ leaves({Read(f, c)}) /\ cut' = cut \cup DoneAlone(f, c)
        /\ Counted(WriterTakes(copy))

\* Mutant: the counter is not moved past the ordinals of the file.
TakeFileUncounted(n, f, nk) ==
    /\ home' = n /\ lines' = f.lines /\ owed' = Empty /\ waits' = 0
    /\ spent' = f.marks /\ stale' = {}
    /\ nextK' = nk
    /\ copied' = copied \cup {f.lines[k].w : k \in DOMAIN f.lines}

(* The queue of a file just opened: HeldDir::open_file, PrincipalHold::take. *)
TakeFile(n, f, nk) ==
    /\ home' = n /\ lines' = f.lines /\ owed' = Empty /\ waits' = 0
    /\ spent' = f.marks /\ stale' = {}
    /\ nextK' = Max({nk, f.named + 1})
    /\ copied' = copied \cup {f.lines[k].w : k \in DOMAIN f.lines}

(* Holds::principal_hold: the door opens the directory's file, renumbering the
   lines below the counter, or keeps the queue in memory; at the first touch
   the counter moves past the ordinals of every file that reads. *)
PrincipalHold ==
    /\ home \notin Files /\ lines = Empty
    /\ touched' = TRUE
    /\ \E seen \in IF touched THEN {{}}
                   ELSE SUBSET (IF dir = "board" THEN Files ELSE {"pending"}) :
         LET past(nk) == Max({nk} \cup {file[n].named + 1 : n \in seen \ {dir}})
         IN  \/ /\ home' = "memory" /\ nextK' = past(nextK)
                /\ UNCHANGED <<file, left, queueVars, copied, cut, refusals>>
             \/ /\ dir \in Files /\ ~Renumbers(file[dir], nextK)
                /\ TakeFile(dir, file[dir], past(nextK))
                /\ UNCHANGED <<file, left, cut, refusals>>
             \/ /\ dir \in Files /\ Renumbers(file[dir], nextK)
                /\ LET copy == Renumbering(file[dir], nextK)
                       f == Read(file[dir], copy)
                   IN  \/ /\ WriterTakes(copy)
                          /\ file' = [file EXCEPT ![dir] = f]
                          /\ left' = [left EXCEPT ![dir] = {}]
                          /\ TakeFile(dir, f, past(nextK)) /\ UNCHANGED <<cut, refusals>>
                       \/ /\ Refused(dir, file[dir], copy, FALSE)
                          /\ home' = "memory" /\ nextK' = past(nextK)
                          /\ UNCHANGED <<file, queueVars, copied>>
    /\ UNCHANGED <<dir, answered, settled, countVars>>

----------------------------------------------------------------------------
(* Holds::join_principal: the lines of a pending file an earlier run left, and
   this run's lines kept in memory or the pending file, enter the file n.  Each
   is one copy; the first refused ends the join, the copies before it made. *)
LiveJoins(n) == \/ home = "memory" /\ lines # Empty
                \/ home = "pending" /\ n = "board"

JoinPrincipal(n, locked) ==
    LET known == home # "none"
        live == IF LiveJoins(n) THEN lines ELSE Empty
        withEarlier == n = "board" /\ home # "pending" /\ locked
        earlier == IF withEarlier THEN file["pending"].lines ELSE Empty
        f0 == file[n]
        nk0 == IF known THEN nextK ELSE f0.named + 1
        renumbers == known /\ Renumbers(f0, nk0)
        copy1 == IF renumbers THEN Renumbering(f0, nk0) ELSE Copy(Empty, Empty)
        f1 == Read(f0, copy1)
        nk1 == Max({nk0, f1.named + 1})
        copy2 == EnteringEarlier(f1, earlier, nk1)
        f2 == Read(f1, copy2)
        nk2 == nk1 + Cardinality(DOMAIN copy2.held)
        copy3 == EnteringLive(f2, live)
        f3 == Read(f2, copy3)
        unmoved == UNCHANGED <<home, queueVars, copied>>
        counter(nk) == nextK' = IF known THEN Max({nextK, nk}) ELSE nextK
        \* remove_file of the pending file, which the volume may refuse
        removes(joined) == IF joined THEN BOOLEAN ELSE {FALSE}
        stand(f, gone) == IF gone THEN [file EXCEPT ![n] = f, !["pending"] = Fresh]
                          ELSE [file EXCEPT ![n] = f]
        \* a refused copy, and the compaction of a file it leaves without a line
        stops(f, copy, gone) ==
            /\ ~NothingIn(copy) /\ unmoved
            /\ \/ file' = stand(f, gone) /\ Refused(n, f, copy, gone)
               \/ /\ f.lines = Empty /\ WriterTakes(copy)
                  /\ file' = stand(Fresh, gone)
                  /\ left' = [left EXCEPT ![n] = {}, !["pending"] = IF gone THEN {} ELSE @]
                  /\ Counted(TRUE) /\ UNCHANGED cut
        takes(copy) == NothingIn(copy) \/ WriterTakes(copy)
    IN  /\ LiveJoins(n) \/ (withEarlier /\ file["pending"] # Fresh)
        /\ \/ stops(f0, copy1, FALSE) /\ counter(nk0)
           \/ takes(copy1) /\ stops(f1, copy2, FALSE) /\ counter(nk1)
           \/ /\ takes(copy1) /\ takes(copy2) /\ counter(nk2)
              /\ \E gone \in removes(withEarlier) : stops(f2, copy3, gone)
           \/ /\ takes(copy1) /\ takes(copy2) /\ takes(copy3)
              /\ \E gone \in removes(withEarlier \/ home = "pending") :
                    /\ file' = stand(f3, gone)
                    /\ left' = [left EXCEPT ![n] = IF f3 = f0 THEN @ ELSE {},
                                            !["pending"] = IF gone THEN {} ELSE @]
              /\ TakeFile(n, f3, nk2) /\ UNCHANGED <<cut, refusals>>
    /\ UNCHANGED <<touched, answered, settled, countVars>>

(* Holds::establish: the board's head record reads, or will not, and the lines
   that can join the file it names do. *)
Establish(n, locked) ==
    /\ \/ dir = "notyet" /\ n \in Files
       \/ dir = "pending" /\ n = "board"
    /\ dir' = n
    /\ \/ JoinPrincipal(n, locked)
       \/ /\ ~LiveJoins(n)
          /\ home = "pending" \/ ~locked \/ n = "pending" \/ file["pending"] = Fresh
          /\ UNCHANGED <<file, left, home, queueVars, nextK, touched,
                         answered, copied, settled, cut, countVars, refusals>>

(* Holds::rejoin, at each probe while this run's lines wait to join. *)
Rejoin(locked) ==
    /\ dir \in Files /\ home \notin {"none", dir} /\ LiveJoins(dir)
    /\ JoinPrincipal(dir, locked)
    /\ UNCHANGED dir

(* A close and a launch: the memory goes, each file's bytes stay. *)
Relaunch ==
    /\ closes < MaxCloses /\ changes + closes < MaxEvents /\ closes' = closes + 1
    /\ file' \in [Files -> UNION {{file[n]} \cup left[n] : n \in Files}]
    /\ \A n \in Files : file'[n] \in {file[n]} \cup left[n]
    /\ left' = [n \in Files |-> {}]
    /\ dir' = "notyet" /\ home' = "none"
    /\ lines' = Empty /\ owed' = Empty /\ waits' = 0 /\ spent' = 0 /\ stale' = {}
    /\ nextK' = 1 /\ touched' = FALSE /\ answered' = Empty
    /\ UNCHANGED <<copied, settled, cut, writes, changes, refusals>>

----------------------------------------------------------------------------
Init ==
    /\ file = [n \in Files |-> Fresh] /\ left = [n \in Files |-> {}]
    /\ dir = "notyet" /\ home = "none"
    /\ lines = Empty /\ owed = Empty /\ waits = 0 /\ spent = 0 /\ stale = {}
    /\ nextK = 1 /\ touched = FALSE /\ answered = Empty
    /\ copied = {} /\ settled = {} /\ cut = {}
    /\ writes = 0 /\ changes = 0 /\ closes = 0 /\ refusals = 0

Next ==
    \/ \E doc \in Docs : Hold(doc, 0)
    \/ \E k \in DOMAIN lines, cause \in Causes, sent \in BOOLEAN, at \in 0..MaxPos :
          Remark(k, cause, sent, at)
    \/ \E k \in DOMAIN lines, ver \in Versions : Rewrite(k, ver)
    \/ \E k \in DOMAIN lines, at \in 0..MaxPos : Done(k, at)
    \/ Probe
    \/ \E n \in Files : CutUnsettled(n)
    \/ PrincipalHold
    \/ \E n \in Files, locked \in BOOLEAN : Establish(n, locked)
    \/ \E locked \in BOOLEAN : Rejoin(locked)
    \/ Relaunch

Spec == Init /\ [][Next]_vars

-----------------------------------------------------------------------------
(* What must hold *)

\* Every variable has its type: the queue's lines under ordinals the counter
\* has passed, a copy owed for no line that waits for its first.
TypeOK ==
    /\ dir \in {"notyet"} \cup Files /\ home \in {"none", "memory"} \cup Files
    /\ DOMAIN lines \subseteq 1 .. (nextK - 1) /\ \A k \in DOMAIN lines : lines[k] \in Line
    /\ \A n \in Files : \A f \in {file[n]} \cup left[n] :
          /\ DOMAIN f.lines \subseteq 1 .. f.named
          /\ \A k \in DOMAIN f.lines : f.lines[k] \in Line
          /\ f.marks \in Nat
    /\ DOMAIN owed \subseteq {k \in 1 .. (nextK - 1) : Holds(k)}
    /\ \A k \in DOMAIN owed : owed[k] \in [done: BOOLEAN, at: 0..MaxPos]
    /\ \A k \in DOMAIN owed : owed[k].done <=> k \notin DOMAIN lines
    /\ waits \in 0 .. nextK /\ spent \in 0 .. MaxChanges /\ nextK \in Nat \ {0}
    /\ stale \subseteq DOMAIN lines /\ touched \in BOOLEAN

\* The file and the queue never part: a reopen reads every line the queue holds
\* but those still waiting for their first copy, and, besides them, only lines
\* whose done is owed; each as the queue has it unless a copy of it is owed or
\* the writer refused one, and with its base raised as the queue's is unless a
\* done is owed.  Over refused copies, cut backs, compactions, joins and
\* renumberings.
FileAgrees ==
    home \in Files =>
        LET f == file[home].lines
            dones == {k \in DOMAIN owed : owed[k].done}
        IN  /\ DOMAIN f = (DOMAIN lines \ Waiting(lines, waits)) \cup dones
            /\ \A k \in DOMAIN f \ (DOMAIN owed \cup stale) :
                  /\ f[k] = [lines[k] EXCEPT !.base = f[k].base]
                  /\ f[k].base <= lines[k].base
                  /\ dones = {} => f[k] = lines[k]

\* A line the queue knows it dialed is dialed again only after its landing is
\* read, over a close too: once no copy is owed, a line marked sent is marked
\* sent on disk, whatever the budget of re-marks refused.
SentOnDisk ==
    home \in Files /\ owed = Empty =>
        \A k \in DOMAIN lines \ Waiting(lines, waits) :
            lines[k].sent /\ lines[k].ver \notin Long => file[home].lines[k].sent

OnDisk(w) == \E n \in Files : \E k \in DOMAIN file[n].lines : file[n].lines[k].w = w

\* A write a call was told is on disk stands in a file, whatever the device
\* refuses and wherever the shell closes, until it is kept or dropped; save one
\* that a renumbering's copy cut short named done before its line followed.
NoneLost == \A w \in copied \ (settled \cup cut) : OnDisk(w)

\* What held.rs says of its copies, `so a close loses none': the same without
\* the exception.  It does not hold: a close may leave the dones of a
\* renumbering's one append without the lines that follow them.
CloseLosesNone == \A w \in copied \ settled : OnDisk(w)

\* The file never holds a line without every line standing before it, so a
\* reopen resends no burst ahead of the one it was composed after.
NoneAhead ==
    home \in Files =>
        \A f \in {file[home]} \cup left[home], j, k \in DOMAIN lines :
            j < k /\ k \in DOMAIN f.lines => j \in DOMAIN f.lines

\* The ordinal a call was answered names the write it held, or none.
OrdinalNames ==
    \A k \in DOMAIN answered \cap DOMAIN lines : lines[k].w = answered[k]

\* A write stands in the queue once.
NothingDoubled ==
    \A j, k \in DOMAIN lines : lines[j].w = lines[k].w => j = k
=============================================================================
