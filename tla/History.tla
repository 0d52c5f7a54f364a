------------------------------- MODULE History -------------------------------
(***************************************************************************)
(* The history reads of the kernel (crates/skep-kernel/src/kernel/         *)
(* history.rs): world_at, chain_at, attestation_at and boundaries_above.   *)
(* A read takes no kernel lock.  It lists the segments, chooses a base and *)
(* reads the files one at a time while commits append, checkpoints land    *)
(* and retention and reclamation remove files under it.                    *)
(*                                                                         *)
(* One read runs at a time: reads write nothing, so two of them never meet.*)
(* A file that only grows reads as it stands when the read reaches its     *)
(* end, so a segment is read in one step, unless the read has gone into an *)
(* append that fails and is truncated under it.  The refusals that consult *)
(* no file (BeyondHead, the empty range, the slot of genesis) are left out.*)
(***************************************************************************)
EXTENDS Kernel

CONSTANT Reads  \* which reads run: "world", "slot", "bounds"

ASSUME ReadsAssumption == Reads \subseteq {"world", "slot", "bounds"}

VARIABLES
    rpc,     \* where the read stands
    asked,   \* [read, at, head]: the question, and the head it began with
    listed,  \* the segment listing the scan will walk
    rcps,    \* the listed checkpoints not yet tried
    rbase,   \* the base chosen
    todo,    \* segments not yet read
    taken,   \* transactions read
    stub,    \* the append that the read is in the middle of, NoTail if none
    answer   \* what the last read answered

rvars == <<rpc, asked, listed, rcps, rbase, todo, taken, stub, answer>>

NoAnswer == [as |-> "none", of |-> {}]
NoQuestion == [read |-> "world", at |-> 0, head |-> 0]

Idle ==
    /\ rpc = "idle" /\ asked = NoQuestion
    /\ listed = {} /\ rcps = {} /\ rbase = Genesis /\ todo = {} /\ taken = {}
    /\ stub = NoTail /\ answer = NoAnswer

HistoryInit == Init /\ Idle

\* attestation_at wants its base strictly below the boundary: the marker that
\* closes it must be scanned.
CeilingOf(q) == IF q.read = "slot" THEN q.at - 1 ELSE q.at

\* The read returns, its state gone with its frame.
Returns(as, of) ==
    /\ answer' = [as |-> as, of |-> of]
    /\ rpc' = "idle" /\ listed' = {} /\ rcps' = {} /\ rbase' = Genesis
    /\ todo' = {} /\ taken' = {}

Answered(as, of) == Returns(as, of) /\ stub' = NoTail

-----------------------------------------------------------------------------
(* A read begins: journaled_head *)

\* The head a range is read up to; a point read checks its boundary against the
\* head and does not look at it again.
HeadOf(read, at) == IF read = "bounds" THEN root.seq ELSE at

HistStart(read, at) ==
    /\ mode = "up" /\ rpc = "idle"
    /\ read = "slot" => 0 < at
    /\ read = "bounds" => at < root.seq
    /\ asked' = [read |-> read, at |-> at, head |-> HeadOf(read, at)]
    /\ rpc' = "list"
    /\ answer' = NoAnswer /\ stub' = NoTail
    /\ UNCHANGED <<listed, rcps, rbase, todo, taken>>

-----------------------------------------------------------------------------
(* base_at_or_below: the held path *)

HistList ==
    /\ rpc = "list"
    /\ listed' = segs
    /\ rpc' = "held"
    /\ UNCHANGED <<asked, rcps, rbase, todo, taken, stub, answer>>

\* Mutant: stands on the newest held base, whatever boundary is asked.
HistHeldNewest ==
    /\ rpc = "held" /\ held # {}
    /\ \E h \in held : (\A g \in held : g.seq <= h.seq) /\ rbase' = h
    /\ rpc' = "header"
    /\ UNCHANGED <<asked, listed, rcps, todo, taken, stub, answer>>

HistHeld ==
    /\ rpc = "held"
    /\ LET below == {h \in held : h.seq <= CeilingOf(asked)}
       IN  \/ /\ \E h \in below : /\ \A g \in below : g.seq <= h.seq
                                  /\ rbase' = h
              /\ rpc' = "header"
           \/ /\ below = {}
              /\ rpc' = "directory"
              /\ UNCHANGED rbase
    /\ UNCHANGED <<asked, listed, rcps, todo, taken, stub, answer>>

\* Mutant: scans for a boundary that is the base itself.
StandOnScanned(base) ==
    /\ rpc' = "scan" /\ rbase' = base
    /\ todo' = ScannedAbove(listed, base.seq)
    /\ listed' = {} /\ rcps' = {}
    /\ UNCHANGED <<taken, stub, answer>>

\* A read that stands on base: answered at once where the boundary is the
\* base, else scanned above it over the listing the base was chosen against.
StandOn(base) ==
    IF asked.read = "world" /\ asked.at = base.seq
      THEN Answered("world", base.world)
      ELSE /\ rpc' = "scan" /\ rbase' = base
           /\ todo' = ScannedAbove(listed, base.seq)
           /\ listed' = {} /\ rcps' = {}
           /\ UNCHANGED <<taken, stub, answer>>

\* The file of the held base answers the header it was held against.
HeaderStands == \E cp \in cps : cp.seq = rbase.seq /\ cp.chain = rbase.chain

HistHeader ==
    /\ rpc = "header"
    /\ \/ /\ HeaderStands
          /\ StandOn(rbase)
       \/ /\ ~HeaderStands
          /\ rpc' = "directory" /\ rbase' = Genesis
          /\ UNCHANGED <<listed, rcps, todo, taken, stub, answer>>
    /\ UNCHANGED asked

-----------------------------------------------------------------------------
(* base_at_or_below: the directory *)

HistDirectory ==
    /\ rpc = "directory"
    /\ rcps' = {cp.seq : cp \in {c \in cps : c.seq <= CeilingOf(asked)}}
    /\ rpc' = "relist"
    /\ UNCHANGED <<asked, listed, rbase, todo, taken, stub, answer>>

HistRelist ==
    /\ rpc = "relist"
    /\ listed' = segs
    /\ rpc' = "select"
    /\ UNCHANGED <<asked, rcps, rbase, todo, taken, stub, answer>>

\* The newest listed candidate not yet tried: it loads, or is passed over
\* (refused, or gone since the listing).
HistTry ==
    /\ rpc = "select"
    /\ \E s \in rcps :
          /\ \A other \in rcps : other <= s
          /\ \/ \E cp \in cps : cp.seq = s /\ cp.loads /\ StandOn(RootOf(cp))
             \/ /\ ~\E cp \in cps : cp.seq = s /\ cp.loads
                /\ rcps' = rcps \ {s}
                /\ UNCHANGED <<rpc, listed, rbase, todo, taken, stub, answer>>
    /\ UNCHANGED asked

HistGenesis ==
    /\ rpc = "select" /\ rcps = {}
    /\ \/ ReachesGenesis(listed) /\ StandOn(Genesis)
       \/ ~ReachesGenesis(listed) /\ Answered("Reclaimed", {})
    /\ UNCHANGED asked

-----------------------------------------------------------------------------
(* The scan, in file order, and what it answers *)

\* What read_segment finds in a file: barriered transactions, and the one
\* being appended where all its frames are there already.
FramesIn(seg) ==
    {t \in log : t.seg = seg}
        \cup {t \in {tail.txn} : tail.whole /\ t.seg = seg}

\* The file the walk reads next.
NextFile(seg) == seg \in todo /\ \A f \in todo : seg <= f

\* What the read is in the middle of is in the file still: committed since, or
\* the tail.
InFile(s) == s.txn \in log \/ s.txn = tail.txn

\* read_segment is in the middle of the file, and has read into the append that
\* is being written or repaired.
HistInto ==
    /\ rpc = "scan" /\ stub = NoTail
    /\ wpc \in {"appended", "repair"}
    /\ NextFile(wtxn.seg) /\ wtxn.seg \in segs
    /\ stub' = [txn |-> wtxn, whole |-> tail.whole]
    /\ UNCHANGED <<rpc, asked, listed, rcps, rbase, todo, taken, answer>>

\* A file that is open stays readable when it is unlinked.
HistScan ==
    /\ rpc = "scan" /\ (stub = NoTail \/ InFile(stub))
    /\ \E seg \in todo :
          /\ NextFile(seg)
          /\ \/ /\ seg \in segs \/ stub # NoTail
                /\ taken' = taken \cup FramesIn(seg)
                /\ todo' = todo \ {seg} /\ stub' = NoTail
                /\ UNCHANGED <<rpc, listed, rcps, rbase, answer>>
             \/ /\ seg \notin segs /\ stub = NoTail
                /\ Answered("Io", {})
    /\ UNCHANGED asked

\* The append was truncated under the read, which goes on from the byte it had
\* reached.  Bytes appended there since do not follow on from what it holds:
\* where an intact frame is among them, that is a corruption to it.  With none
\* the file ends there, in a torn tail or in the whole of the append.
HistCut ==
    /\ rpc = "scan" /\ stub # NoTail /\ ~InFile(stub)
    /\ \/ /\ \E t \in log \cup {tail.txn} :
                t.seg = stub.txn.seg /\ stub.txn.link < t.link
          /\ Returns("Corruption", {})
          /\ UNCHANGED stub
       \/ /\ \E all \in BOOLEAN :
                /\ all => stub.whole
                /\ taken' = taken \cup {t \in {stub.txn} : all}
                      \cup {t \in log : /\ t.seg = stub.txn.seg
                                        /\ t.link < stub.txn.link}
          /\ todo' = todo \ {stub.txn.seg} /\ stub' = NoTail
          /\ UNCHANGED <<rpc, listed, rcps, rbase, answer>>
    /\ UNCHANGED asked

FatalRunAnywhere ==
    \E t \in taken : /\ Decayed(t)
                     /\ \E s \in Seqs : RunEndsAt(taken, t, s) /\ rbase.seq < s

HaltsAnywhere ==
    \/ FatalRunAnywhere
    \/ ChainBreak(rbase, Above(rbase, taken))
    \/ BaseMismatch(rbase, taken)

ClosedAt(s) == \E t \in Above(rbase, taken) : t.last = s

HistAnswer ==
    /\ rpc = "scan" /\ todo = {}
    /\ LET above == Above(rbase, taken)
           at    == asked.at
       IN  \/ HaltsAnywhere /\ Answered("Corruption", {})
           \/ /\ ~HaltsAnywhere
              /\ asked.read # "bounds" /\ ~ClosedAt(at)
              /\ Answered("NotABoundary", {})
           \/ /\ ~HaltsAnywhere
              /\ \/ /\ asked.read = "world" /\ ClosedAt(at)
                    /\ Answered("world", rbase.world \cup {t \in above : t.last <= at})
                 \/ /\ asked.read = "slot" /\ ClosedAt(at)
                    /\ Answered("slot", {t \in above : t.last = at})
                 \/ /\ asked.read = "bounds"
                    /\ Answered("bounds", {t \in above : /\ at < t.last
                                                         /\ t.last <= asked.head})
    /\ UNCHANGED asked

-----------------------------------------------------------------------------

ReadStep ==
    \/ \E read \in Reads, at \in 0 .. root.seq : HistStart(read, at)
    \/ HistList \/ HistHeld \/ HistHeader \/ HistDirectory \/ HistRelist
    \/ HistTry \/ HistGenesis \/ HistInto \/ HistScan \/ HistCut
    \/ HistAnswer

\* A crash ends the read under way.  An answer is judged as it is given: the
\* kernel's next step forgets it.
HistoryNext ==
    \/ /\ Next
       /\ IF mode' = "up" /\ rpc # "idle" THEN UNCHANGED rvars
          ELSE Answered("none", {}) /\ asked' = NoQuestion
    \/ /\ ReadStep
       /\ UNCHANGED vars

HistorySpec == HistoryInit /\ [][HistoryNext]_<<vars, rvars>>

-----------------------------------------------------------------------------
(* Properties *)

\* Every variable of a read has its type, and a scan for one boundary starts
\* strictly below it: its marker, which the answer needs, is in what is read.
HistoryTypeOK ==
    /\ rpc \in {"idle", "list", "held", "header", "directory", "relist",
                "select", "scan"}
    /\ asked \in [read : {"world", "slot", "bounds"}, at : Nat, head : Nat]
    /\ listed \in SUBSET Nat /\ rcps \in SUBSET Nat /\ todo \in SUBSET Nat
    /\ rbase \in Roots
    /\ rpc = "scan" => \/ rbase.seq < asked.at
                       \/ asked.read = "bounds" /\ rbase.seq = asked.at
    /\ taken \in SUBSET Txns /\ stub \in [txn : Txns, whole : BOOLEAN]
    /\ answer \in [as : {"none", "world", "slot", "bounds", "Reclaimed", "Io",
                         "Corruption", "NotABoundary"},
                   of : SUBSET Txns]

\* What a read must answer: the committed history, cut at the boundary asked.
Exact ==
    CASE asked.read = "world" -> {t \in root.world : t.last <= asked.at}
      [] asked.read = "slot" -> {t \in root.world : t.last = asked.at}
      [] asked.read = "bounds" ->
            {t \in root.world : asked.at < t.last /\ t.last <= asked.head}

\* A read that answers, answers the committed history exactly, whatever base
\* it stood on and whatever committed, failed, landed or was reclaimed while
\* it ran; and one refused as NotABoundary named none.
HistoryExact ==
    /\ answer.as \in {"world", "slot", "bounds"} => answer.of = Exact
    /\ answer.as = "NotABoundary" => ~\E t \in root.world : t.last = asked.at

\* No read reports a corruption that is not in the journal, but for one whose
\* file lost, to a commit that failed, an append the read was in the middle of
\* (history.rs says so of world_at and boundaries_above): a base is never
\* scanned over a listing reclamation has cut, an append under way is a tail,
\* and one that ends where it was truncated passes for a tail too.
NoFalseCorruption ==
    answer.as = "Corruption" /\ decayed = {} => stub # NoTail /\ ~InFile(stub)
=============================================================================
