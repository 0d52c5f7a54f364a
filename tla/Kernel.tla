------------------------------- MODULE Kernel -------------------------------
(***************************************************************************)
(* The journaled kernel of skep (crates/skep-kernel): one applier that     *)
(* commits transactions durable-before-visible, checkpoints taken beside   *)
(* it, retention and reclamation, crashes, media decay and the recovery    *)
(* an open runs over what a crash left.                                    *)
(*                                                                         *)
(* Data is abstracted.  A transaction is a record naming its positions,    *)
(* the segment it was appended to and, for the hash chain, its own link    *)
(* and its predecessor's (a link is a number no other attempt has: the     *)
(* salted hash of everything up to it).  A world is the free fold: the set *)
(* of transactions applied to genesis.  The bytes inside a segment are     *)
(* left out: a transaction's frames are all on disk, in the un-barriered   *)
(* tail, or decayed.                                                       *)
(***************************************************************************)
EXTENDS Integers, FiniteSets, FiniteSetsExt

CONSTANTS
    Ceiling,            \* u64::MAX: no transaction closes at it
    MaxRecords,         \* bound: records a transaction may stage
    MaxTxns,            \* bound: transactions attempted in one behaviour
    SegmentTxns,        \* SEGMENT_ROTATE_BYTES, in transactions
    MarkerPositions,    \* MARKER_FRAME_LEN in frames of the smallest record
    RetainCheckpoints,  \* Durability::Fsync.retain_checkpoints
    RollsBack,          \* BurnedSeqPolicy::Rollback (FALSE: TolerateGap)
    Reclaims,           \* Reclaim::BelowOldestRetained (FALSE: Never)
    Decays,             \* which files decay: "base", "record", "marker"
    MaxDecays,          \* bound: decays in one behaviour
    MaxCrashes,         \* bound: crashes (or closes) in one behaviour
    AcceptsCut          \* whether an operator ever sets cut_damaged_tail

ASSUME KernelConstants ==
    /\ Ceiling \in Nat /\ MaxRecords \in Nat \ {0} /\ MaxTxns \in Nat
    /\ SegmentTxns \in Nat \ {0} /\ MarkerPositions \in Nat
    /\ RetainCheckpoints \in Nat \ {0}
    /\ RollsBack \in BOOLEAN /\ Reclaims \in BOOLEAN /\ AcceptsCut \in BOOLEAN
    /\ Decays \subseteq {"base", "record", "marker"}
    /\ MaxDecays \in Nat /\ MaxCrashes \in Nat

VARIABLES
    \* the journal directory
    log,        \* transactions whose every frame passed a barrier
    tail,       \* the un-barriered bytes past the last marker, or NoTail
    segs,       \* segment files, named by their first position
    cps,        \* checkpoint files
    leaves,     \* the directories a crash may leave: each since the last sync
    decayed,    \* what decayed in the log: <<transaction, frame kind>>
    \* the process
    mode,       \* "down", "up", or "refused" by the last open
    root,       \* the committed world a reader loads
    sequencer,  \* [high_water, floor]
    poisoned,
    writer,     \* the journal appender: [active, chain]
    wpc, wtxn,  \* the transaction under the applier lock
    cpc, csnap, clist, cfloor,  \* the checkpoint under checkpoint_mutex
    held,       \* the bases history reads may stand on
    skipped,    \* bases the open passed over, until a landing removes them
    \* history, read by no action of the kernel
    seen,       \* every transaction ever in the root, committed or recovered
    cut,        \* transactions the last open cut from the tail
    failed,     \* transactions answered Durability, Unencodable or OverBudget
    tries, crashes, decays

disk    == <<log, tail, segs, cps, leaves, decayed>>
commits == <<root, sequencer, poisoned, writer, wpc, wtxn>>
ckpt    == <<cpc, csnap, clist, cfloor, held, skipped>>
ghosts  == <<seen, failed, cut>>
budget  == <<tries, crashes, decays>>
vars    == <<disk, mode, commits, ckpt, ghosts, budget>>

-----------------------------------------------------------------------------
(* Values *)

Seqs == 0 .. Ceiling

\* Of a transaction: its own link of the hash chain (0 is CHAIN_GENESIS) and
\* the one it was chained onto, its positions, and the segment it went to.
Txns == [link : Nat, prev : Nat, first : Nat, last : Nat, seg : Nat]
Worlds == SUBSET Txns
Roots == [seq : Nat, world : Worlds, chain : Nat]
Bases == [seq : Nat, world : Worlds, chain : Nat, loads : BOOLEAN]
Directories == [segs : SUBSET Nat, cps : SUBSET Bases]

Genesis == [seq |-> 0, world |-> {}, chain |-> 0]
NoTxn == [link |-> 0, first |-> 0, last |-> 0, prev |-> 0, seg |-> 0]
NoTail == [txn |-> NoTxn, whole |-> FALSE]

RootOf(base) == [seq |-> base.seq, world |-> base.world, chain |-> base.chain]

-----------------------------------------------------------------------------
(* Segments: journal/segment.rs *)

\* A closed segment's last position is one below its successor's name.
\* EndsAtOrBelow says the inference exists and is at most s.
EndsAtOrBelow(files, seg, s) ==
    \E next \in files : /\ seg < next
                        /\ \A f \in files : seg < f => next <= f
                        /\ next - 1 <= s

ScannedAbove(files, s) == {seg \in files : ~EndsAtOrBelow(files, seg, s)}

ReachesGenesis(files) ==
    \/ files = {}
    \/ 1 \in files /\ \A f \in files : 1 <= f

-----------------------------------------------------------------------------
(* What a scan answers over a base: journal/scan.rs, by transaction.  S is *)
(* the set of transactions in the segments it read.  Of a transaction that *)
(* decayed, "record" says a record frame is unreadable and the marker      *)
(* stands, committing nothing; "marker" says the marker is unreadable.     *)

Decayed(t) == \E kind \in {"record", "marker"} : <<t, kind>> \in decayed
MarkerStands(t) == <<t, "marker">> \notin decayed

Readable(S) == {t \in S : ~Decayed(t)}
Above(base, S) == {t \in Readable(S) : base.seq < t.last}

CommittedHead(base, S, s) ==
    /\ s = base.seq \/ \E t \in Above(base, S) : t.last = s
    /\ base.seq <= s
    /\ \A t \in Above(base, S) : t.last <= s

\* A run of unreadable bytes ends on the first frame that reads: the
\* transaction's own marker, or the next transaction's first record.
RunEndsAt(S, t, s) ==
    IF MarkerStands(t)
      THEN s = t.last
      ELSE \E u \in S : /\ t.last < u.first /\ s = u.first - 1
                        /\ \A w \in S : t.last < w.first => u.first <= w.first

FatalRun(base, S) ==
    \E t \in S, u \in Above(base, S) :
        /\ Decayed(t)
        /\ \E s \in base.seq + 1 .. u.last : RunEndsAt(S, t, s)

FollowsIn(S, u, t) ==
    u.last < t.last /\ \A w \in S : ~(u.last < w.last /\ w.last < t.last)

\* Mutant: wants each transaction's first position next to the one before.
ChainBreakContiguous(base, S) ==
    \E t, u \in S : FollowsIn(S, u, t) /\ (t.prev # u.link \/ t.first # u.last + 1)

ChainBreak(base, S) ==
    \E t \in S :
        IF \E u \in S : u.last < t.last
          THEN \E u \in S : FollowsIn(S, u, t) /\ t.prev # u.link
          ELSE t.prev # base.chain

BaseMismatch(base, S) ==
    \E t \in Readable(S) : t.last = base.seq /\ t.link # base.chain

\* Mutant: damage between commits is stepped over and the chain not compared.
HaltsOnMismatchOnly(base, S) == BaseMismatch(base, S)

Halts(base, S) ==
    FatalRun(base, S) \/ ChainBreak(base, Above(base, S)) \/ BaseMismatch(base, S)

\* The tail: everything after the last marker that commits.
TailTxns(S) == {t \in S : \A u \in Readable(S) : u.last < t.last}

Claimants(S) == {t \in TailTxns(S) : MarkerStands(t)}
DamagedTail(S) == Claimants(S) # {}

CouldHold(S) ==
    MapThenSumSet(LAMBDA t : (t.last - t.first) + 1 + MarkerPositions, TailTxns(S))

\* Mutant: the order resumes on the last committed position.
RestoredHighWaterShort(S, head) == IF head = 0 THEN 0 ELSE head - 1

\* The position no transaction after the open takes: the greatest position a
\* marker in the tail claims, where the tail's bytes could number it.
RestoredHighWater(S, head) ==
    LET Trusted(t) == /\ \A u \in Claimants(S) : u.last <= t.last
                      /\ head < t.last
                      /\ t.last - head <= CouldHold(S)
                      /\ t.last < Ceiling - 1
    IN  IF \E t \in Claimants(S) : Trusted(t)
          THEN (CHOOSE t \in Claimants(S) : Trusted(t)).last
          ELSE head

\* What recovery scans: the segments that may hold a position above the base.
Scanned(base) == {t \in log : t.seg \in ScannedAbove(segs, base.seq)}

\* Mutant: the cut falls in the first segment scanned, whatever commits later.
CutSegmentFirst(base, seg) ==
    LET scanned == ScannedAbove(segs, base.seq)
    IN  seg \in scanned /\ \A f \in scanned : seg <= f

\* Where truncate_tail cuts: the segment of the last marker that commits,
\* else the first segment scanned.  Later segments are discarded.
CutSegment(base, seg) ==
    LET readable == Readable(Scanned(base))
        scanned  == ScannedAbove(segs, base.seq)
    IN  \/ \E t \in readable : t.seg = seg /\ \A u \in readable : u.last <= t.last
        \/ readable = {} /\ seg \in scanned /\ \A f \in scanned : seg <= f

-----------------------------------------------------------------------------
(* Base selection: replay.rs select_base *)

\* Mutant: the newest file is tried and no older one after it.
SelectBaseNewestOnly(files, present, base) ==
    \/ \E cp \in files : /\ \A other \in files : other.seq <= cp.seq
                         /\ cp.loads /\ base = RootOf(cp)
    \/ files = {} /\ ReachesGenesis(present) /\ base = Genesis

SelectBase(files, present, base) ==
    \/ \E cp \in files :
          /\ cp.loads
          /\ \A other \in files : other.loads => other.seq <= cp.seq
          /\ base = RootOf(cp)
    \/ /\ \A cp \in files : ~cp.loads
       /\ ReachesGenesis(present)
       /\ base = Genesis

SkippedBases(files) ==
    {cp.seq : cp \in {c \in files : ~c.loads
                        /\ \A d \in files : d.loads => d.seq < c.seq}}

-----------------------------------------------------------------------------
(* The sequencer: kernel.rs Sequencer *)

Mintable(n) == sequencer.high_water + n < Ceiling

Mint(n) == [high_water |-> sequencer.high_water + n, floor |-> sequencer.floor]

\* Mutant: rolls back past the last committed position.
RollBackToBelow(seq) ==
    [high_water |-> seq - 1, floor |-> sequencer.floor]

\* Mutant: forgets that an accepted cut floors the order.
RollBackToUnfloored(seq) ==
    [high_water |-> seq, floor |-> sequencer.floor]

RollBackTo(seq) ==
    IF RollsBack
      THEN [high_water |-> IF seq < sequencer.floor THEN sequencer.floor ELSE seq,
            floor |-> sequencer.floor]
      ELSE sequencer

-----------------------------------------------------------------------------
(* The directory.  Its changes reach the disk in the order they were made, *)
(* so a crash leaves it as it stood at some moment since the last sync:    *)
(* fsync_dir makes that moment now.                                        *)

Directory == [segs |-> segs, cps |-> cps]
FsyncDir == leaves' = {Directory'}
NoDirSync == leaves' = leaves \cup {Directory'}

-----------------------------------------------------------------------------
(* transact: kernel.rs transact_attested over journal/writer.rs commit_txn *)

Init ==
    /\ log = {} /\ tail = NoTail /\ segs = {} /\ cps = {}
    /\ leaves = {[segs |-> {}, cps |-> {}]} /\ decayed = {}
    /\ mode = "down" /\ root = Genesis /\ poisoned = FALSE
    /\ sequencer = [high_water |-> 0, floor |-> 0]
    /\ writer = [active |-> 0, chain |-> 0]
    /\ wpc = "idle" /\ wtxn = NoTxn
    /\ cpc = "idle" /\ csnap = Genesis /\ clist = {} /\ cfloor = 0
    /\ held = {} /\ skipped = {}
    /\ seen = {} /\ failed = {} /\ cut = {}
    /\ tries = 0 /\ crashes = 0 /\ decays = 0

\* The applier is acquired, the closure staged n records and the order minted
\* their positions; with no position left the kernel is poisoned instead.
TxnMint(n) ==
    /\ mode = "up" /\ wpc = "idle" /\ ~poisoned
    /\ tries < MaxTxns
    /\ tries' = tries + 1
    /\ \/ /\ Mintable(n)
          /\ sequencer' = Mint(n)
          /\ wtxn' = [link |-> tries + 1, first |-> sequencer.high_water + 1,
                      last |-> sequencer.high_water + n,
                      prev |-> writer.chain, seg |-> writer.active]
          /\ wpc' = "minted"
          /\ UNCHANGED poisoned
       \/ /\ ~Mintable(n)
          /\ poisoned' = TRUE
          /\ UNCHANGED <<sequencer, wtxn, wpc>>
    /\ UNCHANGED <<disk, mode, root, writer, ckpt, ghosts, crashes, decays>>

\* A failure that leaves nothing of the transaction on disk: the positions
\* are rolled back and the caller is told so.
FailClean ==
    /\ sequencer' = RollBackTo(root.seq)
    /\ failed' = failed \cup {wtxn}
    /\ wpc' = "idle" /\ wtxn' = NoTxn
    /\ UNCHANGED <<mode, root, poisoned, writer, ckpt, seen, cut, budget>>

\* Unencodable, OverBudget, no salt drawn, or a panic before the append.
TxnRefuse ==
    /\ wpc = "minted"
    /\ FailClean
    /\ UNCHANGED disk

RotationDue ==
    Cardinality({t \in log : t.seg = writer.active}) >= SegmentTxns

\* maybe_rotate created the segment and synced the directory.
TxnRotate ==
    /\ wpc = "minted" /\ RotationDue
    /\ segs' = segs \cup {wtxn.first}
    /\ writer' = [active |-> wtxn.first, chain |-> writer.chain]
    /\ wtxn' = [wtxn EXCEPT !.seg = wtxn.first]
    /\ wpc' = "rotated"
    /\ UNCHANGED <<log, tail, cps, decayed>>
    /\ FsyncDir
    /\ UNCHANGED <<mode, root, sequencer, poisoned, ckpt, ghosts, budget>>

\* maybe_rotate created the segment and the directory sync failed: the file
\* may stand, the writer keeps its old segment and rotates again next time.
TxnRotateFail ==
    /\ wpc = "minted" /\ RotationDue
    /\ segs' = segs \cup {wtxn.first}
    /\ UNCHANGED <<log, tail, cps, decayed>>
    /\ NoDirSync
    /\ FailClean

\* write_all: every frame reached the file, or it failed part-way.
TxnAppend ==
    /\ \/ wpc = "minted" /\ ~RotationDue
       \/ wpc = "rotated"
    /\ \E whole \in BOOLEAN :
          /\ tail' = [txn |-> wtxn, whole |-> whole]
          /\ wpc' = IF whole THEN "appended" ELSE "repair"
    /\ UNCHANGED <<log, segs, cps, leaves, decayed, mode, root, sequencer,
                   poisoned, writer, wtxn, ckpt, ghosts, budget>>

TxnBarrier ==
    /\ wpc = "appended"
    /\ log' = log \cup {wtxn}
    /\ tail' = NoTail
    /\ writer' = [active |-> writer.active, chain |-> wtxn.link]
    /\ wpc' = "barriered"
    /\ UNCHANGED <<segs, cps, leaves, decayed, mode, root, sequencer,
                   poisoned, wtxn, ckpt, ghosts, budget>>

\* The fsync failed, or a panic unwound out of the append.
TxnBarrierFail ==
    /\ wpc = "appended"
    /\ wpc' = "repair"
    /\ UNCHANGED <<disk, mode, root, sequencer, poisoned, writer, wtxn, ckpt,
                   ghosts, budget>>

\* Mutant: the failure is answered with the frames still in the file.
TxnRepairUncut ==
    /\ wpc = "repair"
    /\ UNCHANGED disk
    /\ FailClean

\* truncate_to(mark) cut the frames and synced the cut.
TxnRepair ==
    /\ wpc = "repair"
    /\ tail' = NoTail
    /\ UNCHANGED <<log, segs, cps, leaves, decayed>>
    /\ FailClean

\* The kernel is poisoned and the transaction is left to the next open: the
\* repair failed, or a panic unwound between the barrier and the install.
TxnPoison ==
    /\ wpc \in {"repair", "barriered"}
    /\ poisoned' = TRUE
    /\ wpc' = "idle" /\ wtxn' = NoTxn
    /\ UNCHANGED <<disk, mode, root, sequencer, writer, ckpt, ghosts, budget>>

TxnInstall ==
    /\ wpc = "barriered"
    /\ root' = [seq |-> wtxn.last, world |-> root.world \cup {wtxn},
                chain |-> writer.chain]
    /\ seen' = seen \cup {wtxn}
    /\ wpc' = "idle" /\ wtxn' = NoTxn
    /\ UNCHANGED <<disk, mode, sequencer, poisoned, writer, ckpt, failed, cut, budget>>

-----------------------------------------------------------------------------
(* checkpoint: kernel.rs checkpoint over checkpoint.rs write and retain,   *)
(* and journal/segment.rs reclaim_below                                    *)

CkptStart ==
    /\ mode = "up" /\ cpc = "idle" /\ ~poisoned
    /\ csnap' = root
    /\ cpc' = "write"
    /\ UNCHANGED <<disk, mode, commits, clist, cfloor, held, skipped, ghosts, budget>>

\* checkpoint.tmp was written and synced; the rename publishes it.
CkptRename ==
    /\ cpc = "write"
    /\ cps' = {cp \in cps : cp.seq # csnap.seq}
                \cup {[seq |-> csnap.seq, world |-> csnap.world,
                       chain |-> csnap.chain, loads |-> TRUE]}
    /\ cpc' = "sync"
    /\ UNCHANGED <<log, tail, segs, decayed, mode, commits, csnap, clist,
                   cfloor, held, skipped, ghosts, budget>>
    /\ NoDirSync

\* hold: the root replaces one of the same seq and the oldest past the
\* retention count leaves.
Hold(base) ==
    LET all == {h \in held : h.seq # base.seq} \cup {base}
    IN  {h \in all : Cardinality({g \in all : h.seq < g.seq}) < RetainCheckpoints}

\* The directory sync made the rename durable, or failed (Landed).  Either
\* way the root is held, where the file's header reads back.
CkptSync ==
    /\ cpc = "sync"
    /\ held' \in {Hold(csnap), held}
    /\ UNCHANGED <<log, tail, segs, cps, decayed>>
    /\ \/ /\ FsyncDir
          /\ skipped' = skipped \ {csnap.seq}
          /\ cpc' = "retain"
          /\ UNCHANGED csnap
       \/ /\ NoDirSync
          /\ cpc' = "idle" /\ csnap' = Genesis
          /\ UNCHANGED skipped
    /\ UNCHANGED <<mode, commits, clist, cfloor, ghosts, budget>>

\* Retention's excess: every base the open skipped, and of the others the
\* oldest past RetainCheckpoints.
Excess ==
    LET loadable == {cp \in cps : cp.seq \notin skipped}
    IN  {cp \in cps :
           \/ cp.seq \in skipped
           \/ Cardinality({c \in loadable : cp.seq < c.seq}) >= RetainCheckpoints}

\* Mutant: reclaims below the newest base kept.
RetentionFloorNewest(floor) ==
    (\E cp \in cps : cp.seq = floor) /\ \A cp \in cps : cp.seq <= floor

\* The oldest base retention kept: the reclamation floor.
RetentionFloor(floor) ==
    (\E cp \in cps : cp.seq = floor) /\ \A cp \in cps : floor <= cp.seq

CkptUnlink ==
    /\ cpc = "retain"
    /\ \E cp \in Excess :
          /\ \A other \in Excess : cp.seq <= other.seq
          /\ cps' = cps \ {cp}
    /\ UNCHANGED <<log, tail, segs, decayed, mode, commits, ckpt, ghosts, budget>>
    /\ NoDirSync

\* Retention synced its unlinks: the bases below the floor are held no more.
CkptRetained ==
    /\ cpc = "retain" /\ Excess = {}
    /\ UNCHANGED <<log, tail, segs, cps, decayed>>
    /\ FsyncDir
    /\ \E floor \in {cp.seq : cp \in cps} :
          /\ RetentionFloor(floor)
          /\ held' = {h \in held : floor <= h.seq
                                     /\ \E cp \in cps : cp.seq = h.seq}
          /\ cfloor' = floor
    /\ skipped' = {}
    /\ IF Reclaims
         THEN cpc' = "reclaim" /\ clist' = segs
         ELSE cpc' = "idle" /\ clist' = {}
    /\ csnap' = Genesis
    /\ UNCHANGED <<mode, commits, ghosts, budget>>

\* The oldest listed segment goes while it ends at or below the floor.
CkptReclaim ==
    /\ cpc = "reclaim"
    /\ \E seg \in clist \cap segs :
          /\ \A f \in clist \cap segs : seg <= f
          /\ EndsAtOrBelow(clist, seg, cfloor)
          /\ segs' = segs \ {seg}
    /\ UNCHANGED <<log, tail, cps, decayed, mode, commits, ckpt, ghosts, budget>>
    /\ NoDirSync

CkptDone ==
    /\ cpc = "reclaim"
    /\ ~\E seg \in clist \cap segs : EndsAtOrBelow(clist, seg, cfloor)
    /\ UNCHANGED <<log, tail, segs, cps, decayed>>
    /\ FsyncDir
    /\ cpc' = "idle" /\ csnap' = Genesis /\ clist' = {} /\ cfloor' = 0
    /\ UNCHANGED <<mode, commits, held, skipped, ghosts, budget>>

\* Any step of it answers an error: what it did before stands.
CkptFail ==
    /\ cpc \in {"write", "retain", "reclaim"}
    /\ cpc' = "idle" /\ csnap' = Genesis /\ clist' = {} /\ cfloor' = 0
    /\ UNCHANGED <<disk, mode, commits, held, skipped, ghosts, budget>>

-----------------------------------------------------------------------------
(* The process stops: a crash, a kill or a close.  The directory is left   *)
(* as it stood since its last sync, and of the tail all of it or not       *)
(* enough of it to commit, which the next open cuts.                       *)

Down ==
    /\ root' = Genesis /\ poisoned' = FALSE
    /\ sequencer' = [high_water |-> 0, floor |-> 0]
    /\ writer' = [active |-> 0, chain |-> 0]
    /\ wpc' = "idle" /\ wtxn' = NoTxn
    /\ cpc' = "idle" /\ csnap' = Genesis /\ clist' = {} /\ cfloor' = 0
    /\ held' = {} /\ skipped' = {} /\ cut' = {}

Crash ==
    /\ mode = "up" /\ crashes < MaxCrashes
    /\ crashes' = crashes + 1
    /\ mode' = "down"
    /\ Down
    /\ \E left \in leaves : segs' = left.segs /\ cps' = left.cps
    /\ FsyncDir
    /\ \/ tail.whole /\ log' = log \cup {tail.txn}
       \/ log' = log
    /\ tail' = NoTail
    /\ UNCHANGED <<decayed, seen, failed, tries, decays>>

-----------------------------------------------------------------------------
(* Media decay, met at the next open. *)

Unloadable(cp) == [seq |-> cp.seq, world |-> cp.world, chain |-> cp.chain,
                   loads |-> FALSE]

DecayBase ==
    /\ "base" \in Decays /\ mode = "down" /\ decays < MaxDecays
    /\ decays' = decays + 1
    /\ \E cp \in cps :
          /\ cp.loads
          /\ cps' = (cps \ {cp}) \cup {Unloadable(cp)}
    /\ UNCHANGED <<log, tail, segs, decayed, mode, commits, ckpt, ghosts,
                   tries, crashes>>
    /\ FsyncDir

DecayTxn ==
    /\ mode = "down" /\ decays < MaxDecays
    /\ decays' = decays + 1
    /\ \E t \in log, kind \in Decays \cap {"record", "marker"} :
          /\ t.seg \in segs /\ ~Decayed(t)
          /\ decayed' = decayed \cup {<<t, kind>>}
    /\ UNCHANGED <<log, tail, segs, cps, leaves, mode, commits, ckpt,
                   ghosts, tries, crashes>>

-----------------------------------------------------------------------------
(* open: kernel.rs recover and assemble *)

Refuses(accept) ==
    \/ ~\E base \in {RootOf(cp) : cp \in cps} \cup {Genesis} :
          SelectBase(cps, segs, base)
    \/ \E base \in {RootOf(cp) : cp \in cps} \cup {Genesis} :
          /\ SelectBase(cps, segs, base)
          /\ Halts(base, Scanned(base)) \/ (DamagedTail(Scanned(base)) /\ ~accept)

OpenRefused ==
    /\ mode = "down"
    /\ Refuses(FALSE)
    /\ mode' = "refused"
    /\ UNCHANGED <<disk, commits, ckpt, ghosts, budget>>

Recover(base, S, head, floor) ==
    /\ root' = [seq |-> head, world |-> base.world \cup Above(base, S),
                chain |-> IF Above(base, S) = {} THEN base.chain
                          ELSE (CHOOSE t \in Above(base, S) : t.last = head).link]
    /\ log' = log \ TailTxns(S) /\ cut' = TailTxns(S)
    /\ IF segs = {}
         THEN segs' = {floor + 1}
         ELSE \E seg \in segs : /\ CutSegment(base, seg)
                                /\ segs' = {f \in segs : f <= seg}
    /\ cps' = cps /\ FsyncDir
    /\ sequencer' = [high_water |-> floor, floor |-> floor]
    /\ \E last \in segs' : /\ \A f \in segs' : f <= last
                           /\ writer' = [active |-> last, chain |-> root'.chain]
    /\ held' \in SUBSET (IF \E cp \in cps : cp.loads THEN {base} ELSE {})
    /\ skipped' = SkippedBases(cps)

Open ==
    /\ \/ mode = "down"
       \/ mode = "refused" /\ AcceptsCut
    /\ ~Refuses(mode = "refused")
    /\ \E base \in {RootOf(cp) : cp \in cps} \cup {Genesis}, head \in Seqs :
          /\ SelectBase(cps, segs, base)
          /\ CommittedHead(base, Scanned(base), head)
          /\ Recover(base, Scanned(base), head,
                     RestoredHighWater(Scanned(base), head))
    /\ mode' = "up"
    /\ seen' = seen \cup root'.world
    /\ UNCHANGED <<tail, decayed, poisoned, wpc, wtxn, cpc, csnap, clist, cfloor,
                   failed, budget>>

-----------------------------------------------------------------------------

Next ==
    \/ \E n \in 1 .. MaxRecords : TxnMint(n)
    \/ TxnRefuse \/ TxnRotate \/ TxnRotateFail \/ TxnAppend
    \/ TxnBarrier \/ TxnBarrierFail \/ TxnRepair \/ TxnPoison \/ TxnInstall
    \/ CkptStart \/ CkptRename \/ CkptSync \/ CkptUnlink \/ CkptRetained
    \/ CkptReclaim \/ CkptDone \/ CkptFail
    \/ Crash \/ DecayBase \/ DecayTxn
    \/ OpenRefused \/ Open

Spec == Init /\ [][Next]_vars
-----------------------------------------------------------------------------
(* Properties *)

DiskTypeOK ==
    /\ log \in SUBSET Txns
    /\ tail \in [txn : Txns, whole : BOOLEAN]
    /\ segs \in SUBSET Nat
    /\ cps \in SUBSET Bases
    /\ leaves \in SUBSET Directories
    /\ decayed \in SUBSET (Txns \X {"record", "marker"})

CommitTypeOK ==
    /\ mode \in {"down", "up", "refused"}
    /\ root \in Roots
    /\ poisoned \in BOOLEAN
    /\ sequencer \in [high_water : Nat, floor : Nat]
    /\ writer \in [active : Nat, chain : Nat]
    /\ wpc \in {"idle", "minted", "rotated", "appended", "repair", "barriered"}
    /\ wtxn \in Txns

CkptTypeOK ==
    /\ cpc \in {"idle", "write", "sync", "retain", "reclaim"}
    /\ csnap \in Roots
    /\ clist \in SUBSET Nat
    /\ cfloor \in Nat
    /\ held \in SUBSET Roots
    /\ skipped \in SUBSET Nat

GhostTypeOK ==
    /\ seen \in SUBSET Txns
    /\ failed \in SUBSET Txns
    /\ cut \in SUBSET Txns
    /\ tries \in 0 .. MaxTxns
    /\ crashes \in 0 .. MaxCrashes
    /\ decays \in 0 .. MaxDecays

\* Every variable has its type.
TypeOK == DiskTypeOK /\ CommitTypeOK /\ CkptTypeOK /\ GhostTypeOK

\* Every transaction a reader ever saw, hence every one acknowledged, is in
\* the world of every later open, whatever crashed in between: only decay of
\* its own frames loses it.
SeenSurvives ==
    mode = "up" => \A t \in seen : t \in root.world \/ Decayed(t)

\* A transaction answered as failed (its positions rolled back) is in no world
\* and no checkpoint, then or after any crash.
FailedStaysFailed ==
    /\ failed \cap root.world = {}
    /\ \A cp \in cps : failed \cap cp.world = {}

\* The world an open recovers is the history with no hole in it: every
\* transaction sits on the one before it, back to genesis, on later positions.
Linear(S) ==
    \A t \in S : /\ t.first <= t.last
                 /\ IF \E u \in S : u.last < t.last
                      THEN \E u \in S : /\ FollowsIn(S, u, t) /\ t.prev = u.link
                                        /\ u.last < t.first
                      ELSE t.prev = 0
NoHole == mode = "up" => Linear(root.world)

\* Every base standing in the directory, at every moment and so at every
\* crash, folds over the segments beside it to all that was ever visible:
\* reclamation never takes a segment a standing base needs.
EveryBaseFolds ==
    decayed = {} =>
        \A cp \in cps : LET base == RootOf(cp) IN
            /\ ~Halts(base, Scanned(base))
            /\ seen \subseteq cp.world \cup Above(base, Scanned(base))

\* An open refuses only a directory that decayed: in the journal, or in every
\* base it holds.  No crash alone, and no decay retention was to outlive,
\* leaves a board that does not open.
RefusesOnlyDecay ==
    mode = "refused" =>
        \/ decayed # {}
        \/ cps # {} /\ \A cp \in cps : ~cp.loads

\* Retention removes a base that loads only while it keeps RetainCheckpoints
\* newer ones that load: a base the open skipped never stands in for one.
RetentionKeepsLoadable ==
    [][mode = "up" /\ mode' = "up" =>
          \A cp \in cps \ cps' :
              cp.loads => Cardinality({c \in cps' : c.loads /\ cp.seq < c.seq})
                              >= RetainCheckpoints]_vars

\* No two transactions a reader ever saw share a position.
PositionsUnique ==
    \A t, u \in seen : t # u => t.last < u.first \/ u.last < t.first

\* The open that accepted a cut gives no transaction a position a marker of
\* the cut claimed, whatever fails and rolls back in between.
ClaimsHonoured ==
    wpc # "idle" => \A t \in cut : MarkerStands(t) => t.last < wtxn.first

Promise ==
    INSTANCE DurableLog WITH up <- mode = "up", durable <- log,
                             visible <- root.world, failed <- failed

\* While nothing decays the kernel keeps DurableLog's promise: whatever fails,
\* crashes or is checkpointed, reclaimed and recovered in between, an open
\* shows exactly the transactions that passed a barrier, each on top of the
\* last, and of the one under way at a crash all or nothing.
KeepsPromise == Promise!Spec
=============================================================================
