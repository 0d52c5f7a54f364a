----------------------------- MODULE HeldWrites -----------------------------
(***************************************************************************)
(* The shell's hold: how a write (a burst) the page hands over reaches one *)
(* document of a board that may not answer, once, where it was typed, over *)
(* lost answers, late landings, other hands and closes of the shell.       *)
(*                                                                         *)
(* Two threads of the shell dial.  A call dials a burst no line stands     *)
(* before, and holds it as a line where it is not acked.  The drain, one   *)
(* at a time on the board's feed thread, walks the held lines: it reads    *)
(* whether a line it may have sent before landed, sends it, and shifts a   *)
(* line the board refused as typed against an older state, by the          *)
(* identities of the units on either side of its span.  A dial given up    *)
(* may still be taken by the board later.                                  *)
(*                                                                         *)
(* The board takes an edit only where the state it was typed against is    *)
(* the document's last (arrangement_moved).  The held file is HeldStore's: *)
(* here a change is copied at once or, the device refusing, not at all.    *)
(***************************************************************************)
EXTENDS Integers, Sequences, SequencesExt, FiniteSets

CONSTANTS
    Ops,          \* the kinds of burst: "insert", "delete"
    Units,        \* how many units the document starts with
    MaxBursts,    \* bound: bursts typed
    MaxOther,     \* bound: edits of other hands
    MaxFaults,    \* bound: answers lost, dials given up or never sent, refusals
                  \* other than moved, copies the device refuses, closes
    MaxActs,      \* bound: acts of the person on a line
    MaxEvents     \* bound: all of these three together

ASSUME HoldAssumption ==
    /\ Ops \subseteq {"insert", "delete"}
    /\ \A n \in {Units, MaxBursts, MaxOther, MaxFaults, MaxActs, MaxEvents} : n \in Nat

Threads == {"call", "drain"}

VARIABLES
    image,    \* the document's units, in order
    log,      \* the rows of the board's log: the burst, or 0 for another hand
    net,      \* requests on their way to the board
    lines,    \* HeldQueue::lines by ordinal
    disk,     \* the lines the held file would give back
    nextK,    \* PrincipalHold::next_k
    acked,    \* BoardHold::acked
    position, \* PrincipalHold::last_acked, else the session's open
    failed,   \* ordinals whose clock runs (Reissues::first_failed)
    thread,   \* what each thread does
    walk,     \* the drain's: the ordinal passed, whether the document sends,
              \* whether the pass stopped at it
    text,     \* what the page shows, its own unlanded units in place
    seen,     \* the position the page's text was read at
    burst,    \* each burst as typed
    fate,     \* what became of it
    count,    \* the bounded events so far
    passed    \* history: the writes a walk is past that went back to it

vars == <<image, log, net, lines, disk, nextK, acked, position, failed,
          thread, walk, text, seen, burst, fate, count, passed>>

board == <<image, log>>
page  == <<text, seen, burst>>
store == <<lines, disk, nextK, failed>>

Empty == [k \in {} |-> {}]
NoUnit == <<0, 0>>
NoTurn == [after |-> 0, sending |-> FALSE, stopped |-> FALSE]
Idle == [pc |-> "idle"]

(* The page owes a read of the document before it types again: a burst of its
   text was given back or dropped, or the shell was closed. *)
Unread == -1
GivesUpText == seen' = Unread /\ text' = <<>>

Count(e, max) ==
    /\ count[e] < max /\ count["other"] + count["act"] + count["fault"] < MaxEvents
    /\ count' = [count EXCEPT ![e] = @ + 1]
Fault == Count("fault", MaxFaults)

(* The unit burst b's nth landing puts in the document. *)
Unit(b, n) == <<b, n>>
Landings(b) == {i \in DOMAIN log : log[i].b = b}
GivenUp == {b \in 1 .. Len(burst) : fate[b] \in {"dropped", "back", "closed", "again"}}

(* Write a has a row a read may take for another write's: a late landing of a
   write given up, or either of the two of an insert that landed again once
   another hand took it out. *)
Unclaimed(a) ==
    \/ a \in GivenUp /\ Landings(a) # {}
    \/ \E i, j \in Landings(a) : i # j

Residue == \E a \in 1 .. Len(burst) : Unclaimed(a)

(* The writes told kept on such a row, that never landed. *)
Mistaken == {b \in 1 .. Len(burst) : fate[b] = "kept" /\ Landings(b) = {}}

(* awaits_act: a line refused or moved waits for the person. *)
AwaitsAct(line) == line.cause \in {"refused", "moved"}

Lowest(S) == CHOOSE k \in S : \A j \in S : k <= j

-----------------------------------------------------------------------------
(* The board *)

(* The edit as the board applies it, or the document unchanged where the
   frame's positions are out of it. *)
InRange(f) == IF f.op = "insert" THEN f.first \in 1 .. Len(image) + 1
              ELSE f.first \in 1 .. Len(image)

Applied(f) ==
    IF f.op = "insert"
    THEN InsertAt(image, f.first, Unit(f.b, Cardinality(Landings(f.b)) + 1))
    ELSE RemoveAt(image, f.first)

(* skep-arrangement's arrangement_moved. *)
ArrangementMoved(f) == f.asOf < Len(log)

(* What the board makes of a request: it lands, it is refused as moved, or for
   good where its positions are out of the document. *)
Answers(f, kind) ==
    \/ /\ ~ArrangementMoved(f) /\ InRange(f)
       /\ image' = Applied(f)
       /\ \E lost \in BOOLEAN :
             /\ lost => kind = "lost"
             /\ log' = Append(log, [b |-> f.b, op |-> f.op, lost |-> lost])
       /\ kind \in {"acked", "lost"}
    \/ /\ ArrangementMoved(f)
       /\ kind \in {"moved", "lost"}
       /\ UNCHANGED board
    \/ /\ ~ArrangementMoved(f) /\ ~InRange(f)
       /\ kind \in {"refused", "lost"}
       /\ UNCHANGED board

(* A thread's dial of a line, or of a call's burst (ordinal 0), and its answer. *)
Dial(k, f, shifted, base) ==
    [pc |-> "dial", k |-> k, frame |-> f, shifted |-> shifted, base |-> base]

Answered(t, kind, at) ==
    LET d == thread[t]
    IN  thread' = [thread EXCEPT ![t] =
                     [pc |-> "answer", k |-> d.k, frame |-> d.frame, shifted |-> d.shifted,
                      base |-> d.base, answer |-> [kind |-> kind, at |-> at]]]

(* The board takes the request of a thread that waits for it: the answer comes
   back or is lost, the write's testimony with it where the board is poisoned
   or its write panics past its commit. *)
BoardAnswers(t) ==
    /\ thread[t].pc = "dial"
    /\ \E kind \in {"acked", "moved", "refused", "lost"} :
         /\ Answers(thread[t].frame, kind)
         /\ IF kind = "lost" THEN Fault ELSE UNCHANGED count
         /\ Answered(t, kind, IF kind \in {"acked", "moved"} THEN Len(log') ELSE 0)
    /\ UNCHANGED <<net, store, acked, position, walk, page, fate, passed>>

(* The board refuses it for good, or under a code the shell has no row for. *)
BoardRefuses(t) ==
    /\ thread[t].pc = "dial" /\ Fault
    /\ \E kind \in {"refused", "faced"} :
         Answered(t, kind, 0)
    /\ UNCHANGED <<board, net, store, acked, position, walk, page, fate, passed>>

(* The dial never left, or was given up: then the request may arrive later. *)
DialFails(t) ==
    /\ thread[t].pc = "dial" /\ Fault
    /\ \/ Answered(t, "unsent", 0) /\ UNCHANGED net
       \/ /\ Answered(t, "lost", 0)
          /\ net' = net \cup {thread[t].frame}
    /\ UNCHANGED <<board, store, acked, position, walk, page, fate, passed>>

(* A request given up arrives, at any time or never. *)
Late(f) ==
    /\ Answers(f, "lost")
    /\ net' = net \ {f}
    /\ UNCHANGED <<store, acked, position, thread, walk, page, fate, count, passed>>

(* Another hand inserts or deletes a unit. *)
OtherHand ==
    /\ Count("other", MaxOther)
    /\ \/ \E p \in 1 .. Len(image) + 1 : image' = InsertAt(image, p, Unit(0, Units + 1 + count["other"]))
       \/ \E p \in 1 .. Len(image) : image' = RemoveAt(image, p)
    /\ log' = Append(log, [b |-> 0, op |-> "other", lost |-> FALSE])
    /\ UNCHANGED <<net, store, acked, position, thread, walk, page, fate, passed>>

-----------------------------------------------------------------------------
(* The queue: HeldStore's operations, each change copied or not *)

Copied(ls) == \/ disk' = ls /\ UNCHANGED count
              \/ disk # ls /\ disk' = disk /\ Fault

Set(ks, Line(_)) == [k \in DOMAIN lines |-> IF k \in ks THEN Line(lines[k]) ELSE lines[k]]

\* Mutant: the lines behind a kept line keep the bases they were held with.
SettledUnraised(k, at) == [j \in DOMAIN lines \ {k} |-> lines[j]]

(* HeldQueue::done with the raise behind a kept line; Holds::done_line.  A
   write given up that the file gave back is given up still. *)
Settled(k, at) ==
    [j \in DOMAIN lines \ {k} |->
        IF j > k /\ lines[j].base < at THEN [lines[j] EXCEPT !.base = at] ELSE lines[j]]

DoneLine(k, at, as) ==
    IF k \in DOMAIN lines
    THEN /\ lines' = Settled(k, at) /\ Copied(lines')
         /\ failed' = failed \ {k} /\ UNCHANGED nextK
         /\ fate' = [fate EXCEPT ![lines[k].b] = IF @ = "again" THEN @ ELSE as]
    ELSE UNCHANGED <<store, fate, count>>

Remark(ls) == lines' = ls /\ Copied(ls) /\ UNCHANGED nextK

\* Mutant: the next ordinal is not advanced.
EnterLineAgain(f, base, cause, sent, through) ==
    /\ lines' = [k \in DOMAIN lines \cup {nextK} |->
                   IF k = nextK THEN [b |-> f.b, op |-> f.op, first |-> f.first, asOf |-> f.asOf,
                                      base |-> base, cause |-> cause, sent |-> sent,
                                      through |-> through]
                   ELSE lines[k]]
    /\ nextK' = nextK
    /\ Copied(lines')

(* Holds::enter_line. *)
EnterLine(f, base, cause, sent, through) ==
    /\ lines' = [k \in DOMAIN lines \cup {nextK} |->
                   IF k = nextK THEN [b |-> f.b, op |-> f.op, first |-> f.first, asOf |-> f.asOf,
                                      base |-> base, cause |-> cause, sent |-> sent,
                                      through |-> through]
                   ELSE lines[k]]
    /\ nextK' = nextK + 1
    /\ Copied(lines')

NoteAck(at) == acked' = acked \cup {at} /\ position' = IF at > position THEN at ELSE position

Frame(line) == [b |-> line.b, op |-> line.op, first |-> line.first, asOf |-> line.asOf]

-----------------------------------------------------------------------------
(* The shift *)

At(u) == {p \in DOMAIN image : image[p] = u}

\* Mutant: the units between the anchors are not compared.
ShiftedFirstRefilled(b) ==
    LET t == burst[b]
        before == IF t.before = NoUnit THEN {0} ELSE At(t.before)
    IN  IF t.anchored /\ before # {} THEN 1 + CHOOSE p \in before : TRUE ELSE 0

\* Mutant: the first position is the anchor's own.
ShiftedFirstOnAnchor(b) ==
    LET t == burst[b]
        before == IF t.before = NoUnit THEN {1} ELSE At(t.before)
    IN  IF t.anchored /\ before # {} THEN CHOOSE p \in before : TRUE ELSE 0

(* shifted_frame: where the line's span stands now, 0 where it stands nowhere
   whole: an anchor lost, the span cut or refilled. *)
ShiftedFirst(b) ==
    LET t == burst[b]
        before == IF t.before = NoUnit THEN {0} ELSE At(t.before)
        after == IF t.after = NoUnit THEN {Len(image) + 1} ELSE At(t.after)
        were == IF t.op = "insert" THEN 0 ELSE 1
        whole == {p \in before : /\ p + were + 1 \in after
                                 /\ t.op = "delete" => image[p + 1] = t.unit}
    IN  IF t.anchored /\ whole # {} THEN 1 + CHOOSE p \in whole : TRUE ELSE 0

(* mark_moved: every line of the document, the verdict on the one judged. *)
MarkMoved(k, current) ==
    [j \in DOMAIN lines |->
        [lines[j] EXCEPT !.cause = "moved", !.through = IF j = k THEN current ELSE 0]]

(* Holds::shift_and_send, for a thread whose dial was refused as moved: the
   image is read, outside the lock; the span found whole, the frame is shifted
   to it, otherwise the document is held as moved.  The line's deadline passes
   at any time after its first failed send. *)
ShiftAndSend(t) ==
    LET k == thread[t].k
        first == IF k \in DOMAIN lines THEN ShiftedFirst(lines[k].b) ELSE 0
    IN  /\ thread[t].pc = "shift"
        /\ \/ /\ first # 0
              /\ thread' = [thread EXCEPT ![t] =
                    [pc |-> "shifted", k |-> k, line |-> lines[k],
                     frame |-> [Frame(lines[k]) EXCEPT !.first = first, !.asOf = Len(log)]]]
              /\ UNCHANGED <<lines, disk, nextK, walk, count>>
           \/ /\ first = 0 \/ k \in failed
              /\ Remark(MarkMoved(k, thread[t].current))
              /\ thread' = [thread EXCEPT ![t] = IF t = "call" THEN Idle ELSE [pc |-> "walk"]]
              /\ walk' = IF t = "call" THEN walk
                         ELSE [after |-> k, sending |-> FALSE, stopped |-> TRUE]
        /\ UNCHANGED <<board, net, failed, acked, position, page, fate, passed>>

(* Its end: the line, where it still stands, is rewritten to the shifted frame
   and marked sent under the reason read before the image, and the frame
   dialed. *)
DialShifted(t) ==
    LET f == thread[t].frame
        was == thread[t].line
    IN  /\ thread[t].pc = "shifted"
        /\ Remark(Set({thread[t].k}, LAMBDA l : [l EXCEPT !.first = f.first, !.asOf = f.asOf, !.sent = TRUE,
                                                 !.cause = was.cause, !.through = was.through]))
        /\ thread' = [thread EXCEPT ![t] = Dial(thread[t].k, f, TRUE, 0)]
        /\ UNCHANGED <<board, net, failed, acked, position, walk, page, fate, passed>>

-----------------------------------------------------------------------------
(* The page and its calls *)

Busy == thread["call"].pc # "idle"

(* The page reads the document again once none of its writes is out. *)
PageReads ==
    /\ lines = Empty /\ ~Busy /\ (text # image \/ seen # Len(log))
    /\ text' = image /\ seen' = Len(log)
    /\ UNCHANGED <<board, net, store, acked, position, thread, walk, burst, fate, count, passed>>

(* The units a page may name in its anchors: those it knows an address of, read
   with the document or told with an ack. *)
Addressed(u) == u[1] = 0 \/ fate[u[1]] # "out"

\* Mutant: a burst is dialed past lines that wait for the board alone.
BehindAwaiting == \E k \in DOMAIN lines : AwaitsAct(lines[k])

(* A line stands: the burst is held behind it. *)
Behind == lines # Empty

(* Holds::send_burst: a burst behind a standing line is held, else dialed. *)
SendBurst(op, p) ==
    LET b == Len(burst) + 1
        before == IF p = 1 THEN NoUnit ELSE text[p - 1]
        q == IF op = "insert" THEN p ELSE p + 1
        after == IF q > Len(text) THEN NoUnit ELSE text[q]
        unit == IF op = "insert" THEN Unit(b, 1) ELSE text[p]
        f == [b |-> b, op |-> op, first |-> p, asOf |-> seen]
    IN  /\ ~Busy /\ b <= MaxBursts /\ seen # Unread
        /\ op = "delete" => p <= Len(text)
        /\ burst' = Append(burst,
              [op |-> op, before |-> before, after |-> after, unit |-> unit,
               anchored |-> /\ Addressed(before) /\ Addressed(after)
                            /\ op = "delete" => Addressed(unit)])
        /\ text' = IF op = "insert" THEN InsertAt(text, p, unit) ELSE RemoveAt(text, p)
        /\ fate' = [fate EXCEPT ![b] = "out"]
        /\ \/ /\ Behind
              /\ EnterLine(f, position, "holding", FALSE, 0)
              /\ UNCHANGED thread
           \/ /\ ~Behind
              /\ thread' = [thread EXCEPT !["call"] = Dial(0, f, FALSE, position)]
              /\ UNCHANGED <<lines, disk, nextK, count>>
        /\ UNCHANGED <<board, net, failed, acked, position, walk, seen, passed>>

(* send_burst's reading of its dial's answer; a burst refused as moved with its
   anchors is entered as a line and shifted within the call. *)
CallAnswered ==
    LET c == thread["call"]
        a == c.answer
        held(cause, sent, through) == EnterLine(c.frame, c.base, cause, sent, through)
        done == thread' = [thread EXCEPT !["call"] = Idle]
    IN  /\ c.pc = "answer" /\ ~c.shifted
        /\ \/ /\ a.kind = "acked" /\ done
              /\ NoteAck(a.at)
              /\ fate' = [fate EXCEPT ![c.frame.b] = "kept"]
              /\ seen' = a.at
              /\ UNCHANGED <<store, count, text>>
           \/ /\ a.kind = "moved"
              /\ held("moved", FALSE, a.at)
              /\ failed' = failed \cup {nextK}
              /\ thread' = [thread EXCEPT !["call"] =
                              IF burst[c.frame.b].anchored
                              THEN [pc |-> "shift", k |-> nextK, current |-> a.at] ELSE Idle]
              /\ UNCHANGED <<acked, position, fate, seen, text>>
           \/ /\ a.kind \in {"lost", "unsent", "refused"} /\ done
              /\ held(IF a.kind = "refused" THEN "refused" ELSE "holding", a.kind = "lost", 0)
              /\ failed' = IF a.kind = "unsent" THEN failed ELSE failed \cup {nextK}
              /\ UNCHANGED <<acked, position, fate, seen, text>>
           \/ /\ a.kind = "faced" /\ done
              /\ fate' = [fate EXCEPT ![c.frame.b] = "back"]
              /\ GivesUpText
              /\ UNCHANGED <<store, count, acked, position>>
        /\ UNCHANGED <<board, net, walk, burst, passed>>

(* shift_at_first_dial's reading of a shifted dial's answer. *)
CallShiftAnswered ==
    LET c == thread["call"]
        a == c.answer
        done == thread' = [thread EXCEPT !["call"] = Idle]
    IN  /\ c.pc = "answer" /\ c.shifted
        /\ \/ /\ a.kind = "acked" /\ done
              /\ NoteAck(a.at)
              /\ DoneLine(c.k, a.at, "kept")
           \/ /\ a.kind = "moved"
              /\ failed' = failed \cup {c.k}
              /\ thread' = [thread EXCEPT !["call"] = [pc |-> "shift", k |-> c.k, current |-> a.at]]
              /\ UNCHANGED <<lines, disk, nextK, acked, position, fate, count>>
           \/ /\ a.kind \in {"lost", "unsent", "refused"} /\ done
              /\ Remark(Set({c.k}, LAMBDA l : [l EXCEPT !.sent = TRUE,
                    !.cause = IF a.kind = "refused" THEN "refused" ELSE "holding"]))
              /\ failed' = IF a.kind = "unsent" THEN failed ELSE failed \cup {c.k}
              /\ UNCHANGED <<acked, position, fate>>
           \/ /\ a.kind = "faced" /\ done
              /\ DoneLine(c.k, 0, "back")
              /\ UNCHANGED <<acked, position>>
        /\ IF a.kind = "faced" THEN GivesUpText ELSE UNCHANGED <<text, seen>>
        /\ UNCHANGED <<board, net, walk, burst, passed>>

-----------------------------------------------------------------------------
(* The drain *)

Stop(k) == /\ walk' = [after |-> k, sending |-> FALSE, stopped |-> TRUE]
           /\ thread' = [thread EXCEPT !["drain"] = [pc |-> "walk"]]

Send == walk' = [walk EXCEPT !.sending = TRUE] /\ thread' = [thread EXCEPT !["drain"] = [pc |-> "walk"]]

\* Mutant: a line whose dial was lost is left to a call that never comes.
DrainUnsent ==
    /\ thread["drain"].pc = "idle" /\ \E k \in DOMAIN lines : ~AwaitsAct(lines[k]) /\ ~lines[k].sent
    /\ thread' = [thread EXCEPT !["drain"] = [pc |-> "walk"]]
    /\ walk' = NoTurn
    /\ UNCHANGED <<board, net, store, acked, position, page, fate, count, passed>>

(* Holds::probe and Holds::drain: one at a time, while a line stands. *)
Drain ==
    /\ thread["drain"].pc = "idle" /\ \E k \in DOMAIN lines : ~AwaitsAct(lines[k])
    /\ thread' = [thread EXCEPT !["drain"] = [pc |-> "walk"]]
    /\ walk' = NoTurn
    /\ UNCHANGED <<board, net, store, acked, position, page, fate, count, passed>>

(* resume_doc's SendFromHead: the document sends, or its head, its deadline
   past, is handed to the person. *)
SendFromHead(k) ==
    \/ /\ Send
       /\ UNCHANGED <<lines, disk, nextK, count>>
    \/ /\ k \in failed /\ Stop(k)
       /\ Remark(Set({k}, LAMBDA l : [l EXCEPT !.cause = "refused"]))

(* Holds::walk: the next line in ordinal order; a document is resumed at its
   first line, and its lines sent while each is taken. *)
Walk ==
    LET rest == {k \in DOMAIN lines : k > walk.after}
        k == Lowest(rest)
        line == lines[k]
    IN  /\ thread["drain"].pc = "walk"
        /\ \/ /\ walk.stopped \/ rest = {}
              /\ thread' = [thread EXCEPT !["drain"] = Idle] /\ walk' = NoTurn
              /\ UNCHANGED <<lines, disk, nextK, count>>
           \/ /\ ~walk.stopped /\ rest # {} /\ AwaitsAct(line)
              /\ Stop(k)
              /\ UNCHANGED <<lines, disk, nextK, count>>
           \/ /\ ~walk.stopped /\ rest # {} /\ ~AwaitsAct(line) /\ ~walk.sending
              /\ \/ line.sent /\ thread' = [thread EXCEPT !["drain"] = [pc |-> "read", k |-> k, line |-> line]]
                              /\ UNCHANGED <<walk, lines, disk, nextK, count>>
                 \/ ~line.sent /\ SendFromHead(k)
           \/ /\ ~walk.stopped /\ rest # {} /\ ~AwaitsAct(line) /\ walk.sending
              /\ walk' = [walk EXCEPT !.after = k]
              /\ thread' = [thread EXCEPT !["drain"] = [pc |-> "send", k |-> k, line |-> line]]
              /\ UNCHANGED <<lines, disk, nextK, count>>
        /\ UNCHANGED <<board, net, failed, acked, position, page, fate, passed>>

(* Holds::send_line up to its dial: the line, as the walk read it, is marked
   as one that may land and dialed. *)
SendLine ==
    LET d == thread["drain"]
    IN  /\ d.pc = "send"
        /\ Remark(Set({d.k}, LAMBDA l : [l EXCEPT !.sent = TRUE, !.cause = d.line.cause,
                                                  !.through = d.line.through]))
        /\ thread' = [thread EXCEPT !["drain"] = Dial(d.k, Frame(d.line), FALSE, 0)]
        /\ UNCHANGED <<board, net, failed, acked, position, walk, page, fate, passed>>

(* resume_doc's Landed: the head is kept at the row's position. *)
Landed(k, at) ==
    /\ NoteAck(at)
    /\ DoneLine(k, at, "kept")
    /\ IF DOMAIN lines \subseteq {k} THEN Stop(k) ELSE Send

(* read_outcome: the rows since the head's base that may be its landing, those
   of this hand and kind or of no testimony, at no position acked. *)
Candidates(line) ==
    {i \in DOMAIN log : /\ i > line.base /\ i \notin acked
                        /\ log[i].b # 0 /\ (log[i].lost \/ log[i].op = line.op)}

ReadRows ==
    LET d == thread["drain"]
        own == {i \in Candidates(d.line) : ~log[i].lost}
    IN  /\ d.pc = "read"
        /\ \/ /\ IF d.line.op = "insert" THEN Candidates(d.line) = {} ELSE own = {}
              /\ SendFromHead(d.k)
              /\ UNCHANGED <<failed, acked, position, fate>>
           \/ /\ d.line.op = "delete" /\ own # {}
              /\ Landed(d.k, Lowest(own))
           \/ /\ d.line.op = "insert" /\ Candidates(d.line) # {}
              /\ thread' = [thread EXCEPT !["drain"] =
                              [pc |-> "site", k |-> d.k, line |-> d.line, at |-> Lowest(Candidates(d.line))]]
              /\ UNCHANGED <<store, acked, position, walk, fate, count>>
           \/ /\ Stop(d.k) /\ Fault
              /\ UNCHANGED <<store, acked, position, fate>>
        /\ UNCHANGED <<board, net, page, passed>>

(* Holds::site: whether the values the head inserts stand where it inserts
   them.  Every burst of the page's inserts the same value. *)
ReadSite ==
    LET d == thread["drain"]
        equal == d.line.first \in DOMAIN image /\ image[d.line.first][1] # 0
    IN  /\ d.pc = "site"
        /\ \/ equal /\ Landed(d.k, d.at)
           \/ /\ ~equal /\ SendFromHead(d.k)
              /\ UNCHANGED <<failed, acked, position, fate>>
           \/ /\ Stop(d.k) /\ Fault
              /\ UNCHANGED <<store, acked, position, fate>>
        /\ UNCHANGED <<board, net, page, passed>>

(* send_line's reading of its dial's answer. *)
DrainAnswered ==
    LET d == thread["drain"]
        a == d.answer
    IN  /\ d.pc = "answer"
        /\ \/ /\ a.kind = "acked"
              /\ NoteAck(a.at) /\ DoneLine(d.k, a.at, "kept")
              /\ thread' = [thread EXCEPT !["drain"] = [pc |-> "walk"]] /\ UNCHANGED walk
           \/ /\ a.kind = "moved"
              /\ failed' = failed \cup {d.k}
              /\ thread' = [thread EXCEPT !["drain"] = [pc |-> "shift", k |-> d.k, current |-> a.at]]
              /\ UNCHANGED <<walk, lines, disk, nextK, acked, position, fate, count>>
           \/ /\ a.kind \in {"lost", "unsent", "refused", "faced"}
              /\ Remark(Set({d.k}, LAMBDA l : [l EXCEPT !.sent = TRUE,
                    !.cause = IF a.kind \in {"refused", "faced"} THEN "refused" ELSE "holding"]))
              /\ failed' = IF a.kind = "unsent" THEN failed ELSE failed \cup {d.k}
              /\ Stop(d.k)
              /\ UNCHANGED <<acked, position, fate>>
        /\ UNCHANGED <<board, net, page, passed>>

-----------------------------------------------------------------------------
(* The person, and the close *)

(* The writes of the lines a walk that stopped at the document is past. *)
Past == IF thread["drain"].pc = "walk" /\ walk.stopped
        THEN {lines[j].b : j \in {j \in DOMAIN lines : j <= walk.after}} ELSE {}

(* Holds::resolve's send, under the board's lock alone: the document's waiting
   lines go back to the drain, their bases raised to what the verdict read
   through, and a walk that stopped at it goes on from the line it stopped at. *)
ResolveSend(k) ==
    LET waiting == {j \in DOMAIN lines : AwaitsAct(lines[j])}
        judged == {j \in waiting : lines[j].cause = "moved" /\ lines[j].through > 0}
        through == IF judged = {} THEN 0 ELSE lines[Lowest(judged)].through
        ls == Set(waiting, LAMBDA l : [l EXCEPT !.cause = "holding", !.through = 0,
                                         !.base = IF @ < through THEN through ELSE @])
    IN  /\ k \in waiting /\ count["act"] < MaxActs
        /\ lines' = ls /\ nextK' = nextK
        /\ \/ disk' = ls /\ count' = [count EXCEPT !["act"] = @ + 1]
           \/ /\ disk' = disk /\ count["fault"] < MaxFaults
              /\ count' = [count EXCEPT !["act"] = @ + 1, !["fault"] = @ + 1]
        /\ failed' = failed \ waiting
        /\ walk' = [walk EXCEPT !.stopped = FALSE]
        /\ passed' = passed \cup Past
        /\ UNCHANGED <<board, net, acked, position, thread, page, fate>>

(* Its drop: the line and every line after it. *)
ResolveDrop(k) ==
    LET kept == {j \in DOMAIN lines : j < k}
        ls == [j \in kept |-> lines[j]]
        gone == {lines[j].b : j \in DOMAIN lines \ kept}
    IN  /\ AwaitsAct(lines[k]) /\ count["act"] < MaxActs
        /\ lines' = ls /\ nextK' = nextK
        /\ \/ disk' = ls /\ count' = [count EXCEPT !["act"] = @ + 1]
           \/ /\ disk' = disk /\ count["fault"] < MaxFaults
              /\ count' = [count EXCEPT !["act"] = @ + 1, !["fault"] = @ + 1]
        /\ failed' = failed \cap kept
        /\ fate' = [b \in DOMAIN fate |-> IF b \in gone THEN "dropped" ELSE fate[b]]
        /\ GivesUpText
        /\ UNCHANGED <<board, net, acked, position, thread, walk, burst, passed>>

(* The shell closes and is launched: the lines are what the file gives back. *)
Relaunch ==
    LET back == {disk[k].b : k \in DOMAIN disk}
    IN  /\ Fault
        /\ lines' = disk /\ UNCHANGED disk
        /\ nextK' = 1 + (IF disk = Empty THEN 0 ELSE CHOOSE k \in DOMAIN disk : \A j \in DOMAIN disk : j <= k)
        /\ failed' = {} /\ acked' = {} /\ position' = Len(log)
        /\ net' = net \cup {thread[t].frame : t \in {t \in Threads : thread[t].pc = "dial"}}
        /\ thread' = [t \in Threads |-> Idle] /\ walk' = NoTurn
        /\ fate' = [b \in DOMAIN fate |->
                      CASE b \in back /\ fate[b] \in {"dropped", "back"} -> "again"
                        [] b \notin back /\ fate[b] = "out" -> "closed"
                        [] OTHER -> fate[b]]
        /\ GivesUpText
        /\ UNCHANGED <<board, burst, passed>>

-----------------------------------------------------------------------------
Init ==
    /\ image = [i \in 1 .. Units |-> Unit(0, i)] /\ log = <<>> /\ net = {}
    /\ lines = Empty /\ disk = Empty /\ nextK = 1 /\ acked = {} /\ position = 0
    /\ failed = {} /\ thread = [t \in Threads |-> Idle] /\ walk = NoTurn
    /\ text = image /\ seen = 0 /\ burst = <<>>
    /\ fate = [b \in 0 .. MaxBursts |-> IF b = 0 THEN "kept" ELSE "none"]
    /\ count = [e \in {"other", "act", "fault"} |-> 0] /\ passed = {}

CallStep ==
    \/ BoardAnswers("call") \/ CallAnswered \/ CallShiftAnswered
    \/ ShiftAndSend("call") \/ DialShifted("call")

DrainStep ==
    \/ Drain \/ Walk \/ SendLine \/ ReadRows \/ ReadSite \/ DrainAnswered
    \/ BoardAnswers("drain") \/ ShiftAndSend("drain") \/ DialShifted("drain")

Next ==
    \/ CallStep \/ DrainStep
    \/ \E t \in Threads : BoardRefuses(t) \/ DialFails(t)
    \/ \E f \in net : Late(f)
    \/ OtherHand \/ PageReads
    \/ \E op \in Ops, p \in 1 .. Len(text) + 1 : SendBurst(op, p)
    \/ \E k \in DOMAIN lines : ResolveSend(k) \/ ResolveDrop(k)
    \/ Relaunch

Spec == Init /\ [][Next]_vars

FairSpec == Spec /\ WF_vars(CallStep) /\ WF_vars(DrainStep)

-----------------------------------------------------------------------------
(* What must hold *)

\* Every variable has its type, and a line in a thread's hands was held.
TypeOK ==
    /\ image \in Seq((0 .. MaxBursts) \X Nat) /\ seen \in -1 .. Len(log)
    /\ DOMAIN lines \subseteq 1 .. (nextK - 1) /\ DOMAIN disk \subseteq 1 .. (nextK - 1)
    /\ \A k \in DOMAIN lines :
          /\ lines[k].b \in 1 .. Len(burst) /\ lines[k].cause \in {"holding", "moved", "refused"}
          /\ lines[k].base <= Len(log) /\ lines[k].asOf <= Len(log)
    /\ acked \subseteq DOMAIN log /\ position <= Len(log)
    /\ \A t \in Threads : thread[t].pc \in {"idle", "walk", "read", "site", "send", "dial",
                                          "answer", "shift", "shifted"}

\* A write the page was told is kept is in the board's log: no answer lost, no
\* request given up, no other hand's row and no close lets another row be taken
\* for its landing.  The one that may be is a row of Residue, which read_outcome
\* cannot tell from the line's own, or one that landed ahead of its turn once a
\* walk was let past a line it had stopped at (passed: resolve, mid-pass).
KeptIsLanded == Mistaken # {} => Residue \/ passed # {}

(* Burst b lands. *)
Lands(b) == Len(log') > Len(log) /\ log'[Len(log')].b = b

Near(s, p) == IF p \in DOMAIN s THEN s[p] ELSE NoUnit

(* A row of another write than b that a read may take for somebody's landing. *)
OthersResidue(b) == \E a \in (1 .. Len(burst)) \ {b} : Unclaimed(a)

\* No write goes into the document twice, whatever answers were lost, requests
\* came late or copies were refused, its own late landing and a file that gives
\* it back included: an insert lands again only where another hand took its
\* first landing out, a delete never.  (Where a row of Residue of another write
\* stands, read_outcome may settle a line on it that never landed, and the ones
\* typed behind it are not where they were typed; where a walk passed a line, the
\* rows are out of the order it counts on.  There nothing is said.)
NothingTwice ==
    [][\A b \in 1 .. Len(burst) :
          Lands(b) /\ ~OthersResidue(b) /\ passed = {} =>
            IF burst[b].op = "insert" THEN \A p \in DOMAIN image : image[p][1] # b
            ELSE Landings(b) = {}]_vars

\* A write lands between the units it was typed between, and a delete takes out
\* the unit it named, shifted or not, with the provisos of NothingTwice.
LandsWhereTyped ==
    [][\A b \in 1 .. Len(burst) :
          Lands(b) /\ ~OthersResidue(b) /\ passed = {} =>
            LET t == burst[b]
            IN  \E p \in 1 .. Len(image) + 1 :
                  IF t.op = "insert"
                  THEN /\ \E u \in {image'[q] : q \in DOMAIN image'} : image' = InsertAt(image, p, u)
                       /\ Near(image, p - 1) = t.before /\ Near(image, p) = t.after
                  ELSE /\ p \in DOMAIN image /\ image' = RemoveAt(image, p)
                       /\ image[p] = t.unit]_vars

\* Of one caller's writes, one lands only once every write typed before it was
\* told kept or was given up: none overtakes another that is held, dialed or being
\* read for, but the lines a walk had stopped at when the person sent them, which
\* that walk leaves behind (passed).
InOrder ==
    [][\A b \in 1 .. Len(burst) :
          Lands(b) => \A a \in 1 .. b - 1 : fate[a] = "out" => a \in passed]_vars

\* A write never lands while one typed before it is out, whenever the person sends
\* what waits: what resolve says of a pass under way, that it walks the document
\* again at its next turn, from its first standing line.
NeverPassed ==
    [][\A b \in 1 .. Len(burst) :
          Lands(b) => \A a \in 1 .. b - 1 : fate[a] # "out"]_vars

\* A write the shell holds or dials is told kept, given up by the person, or
\* waits for an act of theirs in the end: no answer lost, request late or close
\* leaves it with nobody.
Settles ==
    \A b \in 1 .. MaxBursts :
        fate[b] = "out" ~> \/ fate[b] # "out"
                           \/ \E k \in DOMAIN lines : AwaitsAct(lines[k])
=============================================================================
