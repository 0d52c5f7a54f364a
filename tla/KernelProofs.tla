---------------------------- MODULE KernelProofs ----------------------------
(***************************************************************************)
(* The kernel and its history reads, for every value of their constants.   *)
(*                                                                         *)
(* The kernel's types, and its safety: one inductive invariant, KernelInv, *)
(* and what follows from it.  What a reader saw survives every crash and   *)
(* is lost only to the decay of its own frames; every world is a history   *)
(* without a hole; every base that stands folds to all that was visible;   *)
(* an open refuses only what decayed; and while the log does not decay the *)
(* kernel implements DurableLog.  The parts of the invariant are operators *)
(* of what they speak of: L is the log, S what was seen, D what decayed, r *)
(* a root or a base.                                                       *)
(*                                                                         *)
(* The reads keep their types, and while the log does not decay a read     *)
(* that answers gives the committed history exactly, and none reports a    *)
(* corruption, whatever is committed, failed, checkpointed or reclaimed    *)
(* between its steps.  A read walks a listing of the segments that grows   *)
(* stale under it.  The invariant says in which way it may: the writer has *)
(* moved on to later segments (Behind), what is there and not listed came  *)
(* after the question (Fresh), and what was read so far is the history up  *)
(* to some position (Scanning).                                            *)
(***************************************************************************)
EXTENDS History, TLAPS, FiniteSetTheorems

-----------------------------------------------------------------------------
(* The types *)

\* The values a fresh kernel starts from have their types.
LEMMA GenesisType ==
    Genesis \in Roots /\ NoTxn \in Txns /\ NoTail \in [txn : Txns, whole : BOOLEAN]
  BY DEF Genesis, NoTxn, NoTail, Roots, Txns, Worlds

\* The root a base is loaded as is a root.
LEMMA RootOfType ==
    ASSUME NEW cp \in Bases PROVE RootOf(cp) \in Roots
  BY DEF RootOf, Bases, Roots

\* A fresh kernel has its types.
LEMMA InitTypeOK == Init => TypeOK
  <1> SUFFICES ASSUME Init PROVE TypeOK
    OBVIOUS
  <1>1. DiskTypeOK
    BY GenesisType DEF Init, DiskTypeOK, Directories
  <1>2. CommitTypeOK
    BY GenesisType DEF Init, CommitTypeOK
  <1>3. CkptTypeOK
    BY GenesisType DEF Init, CkptTypeOK
  <1>4. GhostTypeOK
    BY KernelConstants DEF Init, GhostTypeOK
  <1> QED
    BY <1>1, <1>2, <1>3, <1>4 DEF TypeOK

\* A directory change, synced or not, leaves only directories.
LEMMA DirectoryType ==
    ASSUME segs' \in SUBSET Nat, cps' \in SUBSET Bases,
           leaves \in SUBSET Directories, FsyncDir \/ NoDirSync
    PROVE  leaves' \in SUBSET Directories
  <1>1. Directory' \in Directories
    BY DEF Directory, Directories
  <1> QED
    BY <1>1 DEF FsyncDir, NoDirSync

LEMMA FailCleanType ==
    ASSUME CommitTypeOK, CkptTypeOK, GhostTypeOK, FailClean
    PROVE  CommitTypeOK' /\ CkptTypeOK' /\ GhostTypeOK'
  <1>1. sequencer' \in [high_water : Nat, floor : Nat]
    BY DEF FailClean, RollBackTo, CommitTypeOK, Roots
  <1>2. CommitTypeOK'
    BY <1>1, GenesisType DEF FailClean, CommitTypeOK
  <1>3. CkptTypeOK'
    BY DEF FailClean, CkptTypeOK, ckpt
  <1>4. GhostTypeOK'
    BY DEF FailClean, GhostTypeOK, CommitTypeOK, budget
  <1> QED
    BY <1>2, <1>3, <1>4

LEMMA TxnTypeOK ==
    ASSUME TypeOK,
           \/ \E n \in 1 .. MaxRecords : TxnMint(n)
           \/ TxnRefuse \/ TxnRotate \/ TxnRotateFail \/ TxnAppend
           \/ TxnBarrier \/ TxnBarrierFail \/ TxnRepair \/ TxnPoison \/ TxnInstall
    PROVE  TypeOK'
  <1> USE DEF TypeOK
  <1>1. ASSUME NEW n \in 1 .. MaxRecords, TxnMint(n) PROVE TypeOK'
    <2>1. DiskTypeOK' /\ CkptTypeOK'
      BY <1>1 DEF TxnMint, DiskTypeOK, CkptTypeOK, disk, ckpt
    <2>2. sequencer' \in [high_water : Nat, floor : Nat]
      BY <1>1, KernelConstants DEF TxnMint, Mint, CommitTypeOK
    <2>3. wtxn' \in Txns
      BY <1>1, KernelConstants DEF TxnMint, CommitTypeOK, GhostTypeOK, Txns
    <2>4. CommitTypeOK'
      BY <1>1, <2>2, <2>3 DEF TxnMint, CommitTypeOK
    <2>5. GhostTypeOK'
      BY <1>1, KernelConstants DEF TxnMint, GhostTypeOK, ghosts
    <2> QED
      BY <2>1, <2>4, <2>5
  <1>3. CASE TxnRefuse
    BY <1>3, FailCleanType DEF TxnRefuse, DiskTypeOK, disk
  <1>4. CASE TxnRotate
    <2>1. segs' \in SUBSET Nat /\ wtxn' \in Txns /\ writer' \in [active : Nat, chain : Nat]
      BY <1>4 DEF TxnRotate, DiskTypeOK, CommitTypeOK, Txns
    <2>2. DiskTypeOK'
      BY <1>4, <2>1, DirectoryType DEF TxnRotate, DiskTypeOK
    <2> QED
      BY <1>4, <2>1, <2>2 DEF TxnRotate, CommitTypeOK, CkptTypeOK, GhostTypeOK,
                              ckpt, ghosts, budget
  <1>5. CASE TxnRotateFail
    <2>1. segs' \in SUBSET Nat
      BY <1>5 DEF TxnRotateFail, DiskTypeOK, CommitTypeOK, Txns
    <2>2. DiskTypeOK'
      BY <1>5, <2>1, DirectoryType DEF TxnRotateFail, DiskTypeOK
    <2> QED
      BY <1>5, <2>2, FailCleanType DEF TxnRotateFail
  <1>6. CASE TxnAppend
    BY <1>6 DEF TxnAppend, DiskTypeOK, CommitTypeOK, CkptTypeOK, GhostTypeOK,
                ckpt, ghosts, budget
  <1>7. CASE TxnBarrier
    <2>1. writer' \in [active : Nat, chain : Nat]
      BY <1>7 DEF TxnBarrier, CommitTypeOK, Txns
    <2> QED
      BY <1>7, <2>1, GenesisType
         DEF TxnBarrier, DiskTypeOK, CommitTypeOK, CkptTypeOK, GhostTypeOK,
             ckpt, ghosts, budget
  <1>8. CASE TxnBarrierFail
    BY <1>8 DEF TxnBarrierFail, DiskTypeOK, CommitTypeOK, CkptTypeOK, GhostTypeOK,
                disk, ckpt, ghosts, budget
  <1>9. CASE TxnRepair
    BY <1>9, FailCleanType, GenesisType DEF TxnRepair, DiskTypeOK
  <1>10. CASE TxnPoison
    BY <1>10, GenesisType
       DEF TxnPoison, DiskTypeOK, CommitTypeOK, CkptTypeOK, GhostTypeOK,
           disk, ckpt, ghosts, budget
  <1>11. CASE TxnInstall
    <2>1. root' \in Roots
      BY <1>11 DEF TxnInstall, CommitTypeOK, Roots, Worlds, Txns
    <2> QED
      BY <1>11, <2>1, GenesisType
         DEF TxnInstall, DiskTypeOK, CommitTypeOK, CkptTypeOK, GhostTypeOK,
             disk, ckpt, ghosts, budget
  <1> QED
    BY <1>1, <1>3, <1>4, <1>5, <1>6, <1>7, <1>8, <1>9, <1>10, <1>11

LEMMA CkptStepTypeOK ==
    ASSUME TypeOK,
           \/ CkptStart \/ CkptRename \/ CkptSync \/ CkptUnlink \/ CkptRetained
           \/ CkptReclaim \/ CkptDone \/ CkptFail
    PROVE  TypeOK'
  <1> USE DEF TypeOK
  <1>0. ASSUME UNCHANGED <<mode, commits, ghosts, budget>>
        PROVE  CommitTypeOK' /\ GhostTypeOK'
    BY <1>0 DEF CommitTypeOK, GhostTypeOK, commits, ghosts, budget
  <1>1. CASE CkptStart
    BY <1>0, <1>1 DEF CkptStart, DiskTypeOK, CkptTypeOK, CommitTypeOK, disk
  <1>2. CASE CkptRename
    <2>1. cps' \in SUBSET Bases
      <3>1. [seq |-> csnap.seq, world |-> csnap.world, chain |-> csnap.chain,
             loads |-> TRUE] \in Bases
        BY DEF CkptTypeOK, Roots, Bases
      <3> QED
        BY <1>2, <3>1 DEF CkptRename, DiskTypeOK
    <2>2. DiskTypeOK'
      BY <1>2, <2>1, DirectoryType DEF CkptRename, DiskTypeOK
    <2> QED
      BY <1>0, <1>2, <2>2 DEF CkptRename, CkptTypeOK
  <1>3. CASE CkptSync
    <2>1. DiskTypeOK'
      BY <1>3, DirectoryType DEF CkptSync, DiskTypeOK
    <2>2. held' \in SUBSET Roots
      BY <1>3 DEF CkptSync, Hold, CkptTypeOK
    <2>3. CkptTypeOK'
      BY <1>3, <2>2, GenesisType DEF CkptSync, CkptTypeOK
    <2> QED
      BY <1>0, <1>3, <2>1, <2>3 DEF CkptSync
  <1>4. CASE CkptUnlink
    <2>1. DiskTypeOK'
      BY <1>4, DirectoryType DEF CkptUnlink, DiskTypeOK
    <2> QED
      BY <1>0, <1>4, <2>1 DEF CkptUnlink, CkptTypeOK, ckpt
  <1>5. CASE CkptRetained
    <2>1. DiskTypeOK'
      BY <1>5, DirectoryType DEF CkptRetained, DiskTypeOK
    <2>2. cfloor' \in Nat /\ held' \in SUBSET Roots
      BY <1>5 DEF CkptRetained, CkptTypeOK, DiskTypeOK, Bases
    <2>3. CkptTypeOK'
      BY <1>5, <2>2, GenesisType DEF CkptRetained, CkptTypeOK, DiskTypeOK
    <2> QED
      BY <1>0, <1>5, <2>1, <2>3 DEF CkptRetained
  <1>6. CASE CkptReclaim
    <2>1. DiskTypeOK'
      BY <1>6, DirectoryType DEF CkptReclaim, DiskTypeOK
    <2> QED
      BY <1>0, <1>6, <2>1 DEF CkptReclaim, CkptTypeOK, ckpt
  <1>7. CASE CkptDone
    <2>1. DiskTypeOK'
      BY <1>7, DirectoryType DEF CkptDone, DiskTypeOK
    <2> QED
      BY <1>0, <1>7, <2>1, GenesisType DEF CkptDone, CkptTypeOK
  <1>8. CASE CkptFail
    BY <1>0, <1>8, GenesisType DEF CkptFail, CkptTypeOK, DiskTypeOK, disk
  <1> QED
    BY <1>1, <1>2, <1>3, <1>4, <1>5, <1>6, <1>7, <1>8

LEMMA StopTypeOK ==
    ASSUME TypeOK, Crash \/ DecayBase \/ DecayTxn \/ OpenRefused
    PROVE  TypeOK'
  <1> USE DEF TypeOK
  <1>1. CASE Crash
    <2>1. PICK left \in leaves : segs' = left.segs /\ cps' = left.cps
      BY <1>1 DEF Crash
    <2>2. segs' \in SUBSET Nat /\ cps' \in SUBSET Bases
      BY <2>1 DEF DiskTypeOK, Directories
    <2>3. log' \in SUBSET Txns
      BY <1>1 DEF Crash, DiskTypeOK
    <2>4. DiskTypeOK'
      BY <1>1, <2>2, <2>3, DirectoryType, GenesisType DEF Crash, DiskTypeOK
    <2>5. CommitTypeOK' /\ CkptTypeOK'
      BY <1>1, GenesisType DEF Crash, Down, CommitTypeOK, CkptTypeOK
    <2>6. GhostTypeOK'
      BY <1>1, KernelConstants DEF Crash, Down, GhostTypeOK
    <2> QED
      BY <2>4, <2>5, <2>6
  <1>2. CASE DecayBase
    <2>1. cps' \in SUBSET Bases
      <3>1. ASSUME NEW cp \in Bases PROVE Unloadable(cp) \in Bases
        BY DEF Unloadable, Bases
      <3> QED
        BY <1>2, <3>1 DEF DecayBase, DiskTypeOK
    <2>2. DiskTypeOK'
      BY <1>2, <2>1, DirectoryType DEF DecayBase, DiskTypeOK
    <2>3. CommitTypeOK' /\ CkptTypeOK'
      BY <1>2 DEF DecayBase, CommitTypeOK, CkptTypeOK, commits, ckpt
    <2>4. GhostTypeOK'
      BY <1>2, KernelConstants DEF DecayBase, GhostTypeOK, ghosts
    <2> QED
      BY <2>2, <2>3, <2>4
  <1>3. CASE DecayTxn
    <2>1. DiskTypeOK'
      BY <1>3 DEF DecayTxn, DiskTypeOK
    <2>2. CommitTypeOK' /\ CkptTypeOK'
      BY <1>3 DEF DecayTxn, CommitTypeOK, CkptTypeOK, commits, ckpt
    <2>3. GhostTypeOK'
      BY <1>3, KernelConstants DEF DecayTxn, GhostTypeOK, ghosts
    <2> QED
      BY <2>1, <2>2, <2>3
  <1>4. CASE OpenRefused
    BY <1>4 DEF OpenRefused, DiskTypeOK, CommitTypeOK, CkptTypeOK, GhostTypeOK,
                disk, commits, ckpt, ghosts, budget
  <1> QED
    BY <1>1, <1>2, <1>3, <1>4

\* The base an open selects is one of the files, or genesis.
LEMMA SelectBaseType ==
    ASSUME NEW files \in SUBSET Bases, NEW present, NEW base,
           SelectBase(files, present, base)
    PROVE  base \in Roots
  BY RootOfType, GenesisType DEF SelectBase

LEMMA OpenTypeOK == TypeOK /\ Open => TypeOK'
  <1> SUFFICES ASSUME TypeOK, Open PROVE TypeOK'
    OBVIOUS
  <1> USE DEF TypeOK
  <1>1. PICK base \in {RootOf(cp) : cp \in cps} \cup {Genesis}, head \in Seqs :
            /\ SelectBase(cps, segs, base)
            /\ CommittedHead(base, Scanned(base), head)
            /\ Recover(base, Scanned(base), head,
                       RestoredHighWater(Scanned(base), head))
    BY DEF Open
  <1> DEFINE S == Scanned(base)
             floor == RestoredHighWater(S, head)
  <1>2. base \in Roots
    BY <1>1, SelectBaseType DEF DiskTypeOK
  <1>3. S \subseteq log /\ Above(base, S) \subseteq log /\ TailTxns(S) \subseteq log
    BY DEF Scanned, Above, Readable, TailTxns
  <1>4. head \in Nat
    BY KernelConstants DEF Seqs
  <1>5. floor \in Nat
    <2>1. Claimants(S) \subseteq Txns
      BY <1>3 DEF Claimants, DiskTypeOK
    <2> QED
      BY <1>4, <2>1 DEF RestoredHighWater, Txns
  <1>6. root' \in Roots
    <2>1. base.world \cup Above(base, S) \in Worlds
      BY <1>2, <1>3 DEF DiskTypeOK, Roots, Worlds
    <2>2. (IF Above(base, S) = {} THEN base.chain
           ELSE (CHOOSE t \in Above(base, S) : t.last = head).link) \in Nat
      <3>1. CASE Above(base, S) = {}
        BY <1>2, <3>1 DEF Roots
      <3>2. CASE Above(base, S) # {}
        <4>1. \E t \in Above(base, S) : t.last = head
          BY <1>1, <1>2, <1>3, <3>2 DEF CommittedHead, Above, DiskTypeOK, Txns, Roots
        <4> QED
          BY <1>3, <3>2, <4>1 DEF DiskTypeOK, Txns
      <3> QED
        BY <3>1, <3>2
    <2> QED
      BY <1>1, <1>4, <2>1, <2>2 DEF Recover, Roots
  <1>7. segs' \in SUBSET Nat
    <2>1. segs' = {floor + 1} \/ \E seg \in segs : segs' = {f \in segs : f <= seg}
      BY <1>1 DEF Recover
    <2> HIDE DEF floor
    <2>2. floor + 1 \in Nat
      BY <1>5
    <2>3. segs \subseteq Nat
      BY DEF DiskTypeOK
    <2> QED
      BY <2>1, <2>2, <2>3
  <1>8. DiskTypeOK'
    BY <1>1, <1>3, <1>7 DEF Open, Recover, DiskTypeOK, FsyncDir, Directory, Directories
  <1>9. CommitTypeOK'
    <2>1. sequencer' \in [high_water : Nat, floor : Nat]
      BY <1>1, <1>5 DEF Recover
    <2>2. writer' \in [active : Nat, chain : Nat]
      BY <1>1, <1>6, <1>7 DEF Recover, Roots
    <2> QED
      BY <1>6, <2>1, <2>2 DEF Open, CommitTypeOK
  <1>10. CkptTypeOK'
    <2>1. skipped' \in SUBSET Nat
      BY <1>1 DEF Recover, SkippedBases, DiskTypeOK, Bases
    <2>2. held' \in SUBSET Roots
      BY <1>1, <1>2 DEF Recover
    <2> QED
      BY <2>1, <2>2 DEF Open, CkptTypeOK
  <1>11. GhostTypeOK'
    <2>1. seen' \in SUBSET Txns
      BY <1>6 DEF Open, GhostTypeOK, Roots, Worlds
    <2> QED
      BY <1>1, <1>3, <2>1 DEF Open, Recover, GhostTypeOK, DiskTypeOK, budget
  <1> QED
    BY <1>8, <1>9, <1>10, <1>11

LEMMA NextTypeOK == TypeOK /\ [Next]_vars => TypeOK'
  <1> SUFFICES ASSUME TypeOK, [Next]_vars PROVE TypeOK'
    OBVIOUS
  <1>1. CASE UNCHANGED vars
    BY <1>1 DEF vars, disk, commits, ckpt, ghosts, budget, TypeOK, DiskTypeOK,
                CommitTypeOK, CkptTypeOK, GhostTypeOK
  <1>2. CASE Next
    BY <1>2, TxnTypeOK, CkptStepTypeOK, StopTypeOK, OpenTypeOK DEF Next
  <1> QED
    BY <1>1, <1>2

\* Every variable keeps its type in every behaviour of the kernel.
THEOREM TypeCorrect == Spec => []TypeOK
  BY InitTypeOK, NextTypeOK, PTL DEF Spec

-----------------------------------------------------------------------------
(* The history *)

Lost(t, D) == \E kind \in {"record", "marker"} : <<t, kind>> \in D

\* A transaction's positions, and the segment it went to, are in order.
Placed(t) ==
    /\ 1 <= t.first /\ t.first <= t.last /\ t.last < Ceiling
    /\ t.seg <= t.first

\* A link names one transaction, and a chained one follows the one it names.
\* What was answered as failed has a link no transaction of E has.
Linked(E, F, n) ==
    /\ \A t \in E : Placed(t) /\ t.prev < t.link /\ t.link <= n
    /\ \A t, u \in E : t.link = u.link => t = u
    /\ \A t, u \in E : t.prev = u.link => u.last < t.first
    /\ \A t \in F : t.link <= n
    /\ \A t \in F, u \in E : u.link # t.link

\* The log is in order and keeps what was seen; while nothing in it has
\* decayed it is one chain from genesis.
Kept(L, S, D) ==
    /\ \A t, u \in L : t = u \/ t.last < u.first \/ u.last < t.first
    /\ \A t \in S : t \in L \/ Lost(t, D)
    /\ D = {} => ~ChainBreak(Genesis, L)

\* The position and the link of a root are those of its last transaction.
Headed(r) ==
    \/ r.world = {} /\ r.seq = 0 /\ r.chain = 0
    \/ \E t \in r.world : /\ t.last = r.seq /\ t.link = r.chain
                          /\ \A u \in r.world : u.last <= r.seq

\* A root or a base is a history without a hole, all of it seen.
Whole(r, S) == r.world \subseteq S /\ Linear(r.world) /\ Headed(r)

\* Nothing readable at or below its position is missing from it.
Covers(r, L, D) == \A t \in L : t.last <= r.seq => t \in r.world \/ Lost(t, D)

\* A base that says what the log says: one that decayed may tell of a
\* transaction that was lost with it.
Good(b, D) == b.loads \/ D = {}

-----------------------------------------------------------------------------
(* The directory *)

\* A segment is named past every position in the ones before it.
InOrder(files, L) == \A t \in L, f \in files : t.seg < f => t.last < f

\* The files hold all that a fold from position s needs.
Reaches(files, s, L) ==
    /\ \A t \in L : t.seg \in files \/ t.last <= s
    /\ \E f \in files : f <= s + 1

\* A directory a crash may leave.
Stands(d, L, S, D) ==
    /\ InOrder(d.segs, L)
    /\ \A f \in d.segs : 1 <= f /\ f <= Ceiling + 1
    /\ ReachesGenesis(d.segs) => \A t \in L : t.seg \in d.segs
    /\ d.cps = {} => ReachesGenesis(d.segs)
    /\ \A b \in d.cps : /\ Whole(b, S) /\ Reaches(d.segs, b.seq, L)
                        /\ Good(b, D) => Covers(b, L, D)

\* Every segment a directory or a reclamation under way lists.
Files(dirs, list) == list \cup UNION {d.segs : d \in dirs}

\* The segment appended to is the last one, and no crash leaves it out.
Seated(seg, dirs, list) ==
    /\ \A d \in dirs : seg \in d.segs
    /\ \A f \in Files(dirs, list) : f <= seg

-----------------------------------------------------------------------------
(* The process *)

\* The log holds no transaction past position s.
Settled(L, s) == \A t \in L : t.last <= s

\* A transaction on its way to the log: on top of the root, with a new link.
Pending(t, r, L, E, n) ==
    /\ Placed(t) /\ r.seq < t.first /\ t.prev = r.chain /\ Settled(L, r.seq)
    /\ t.prev < t.link /\ t.link <= n
    /\ \A u \in E : u.link < t.link

Serving ==
    /\ Whole(root, seen) /\ Covers(root, log, decayed)
    /\ \A t \in seen : t \in root.world \/ Lost(t, decayed)
    /\ root.seq <= sequencer.high_water /\ sequencer.floor <= sequencer.high_water
    /\ sequencer.high_water <= Ceiling
    /\ Settled(log, sequencer.high_water)

\* Every directory a crash may leave folds to the root.
Founded ==
    /\ \A d \in leaves : Reaches(d.segs, root.seq, log)
    /\ \A d \in leaves : \A b \in d.cps : Good(b, decayed) => b.seq <= root.seq
    /\ \A b \in cps : b.seq \in skipped \/ b.seq <= root.seq

\* Frames past the last barrier that a crash may keep.
Tailed ==
    tail.whole => /\ Pending(tail.txn, root, log, log \cup seen \cup failed, tries)
                  /\ Seated(tail.txn.seg, leaves, clist)
                  /\ \/ poisoned
                     \/ wpc \in {"appended", "repair"} /\ tail.txn = wtxn

\* The transaction under the applier lock, by where it stands.
Idling ==
    wpc = "idle" /\ ~poisoned =>
        /\ Settled(log, root.seq) /\ writer.chain = root.chain
        /\ writer.active <= sequencer.high_water + 1
        /\ \A f \in Files(leaves, clist) : f <= sequencer.high_water + 1
        /\ RollsBack => \/ sequencer.high_water = root.seq
                        \/ sequencer.high_water = sequencer.floor

Writing ==
    wpc # "idle" =>
        /\ ~poisoned
        /\ wtxn.seg = writer.active /\ wtxn.last = sequencer.high_water
        /\ \A f \in Files(leaves, clist) : f <= wtxn.first
        /\ RollsBack => wtxn.first = root.seq + 1 \/ wtxn.first = sequencer.floor + 1

Minted ==
    wpc \in {"minted", "rotated", "appended", "repair"} =>
        /\ Pending(wtxn, root, log, log \cup seen \cup failed, tries)
        /\ writer.chain = root.chain

Barriered ==
    wpc = "barriered" =>
        /\ wtxn \in log /\ writer.chain = wtxn.link /\ ~tail.whole
        /\ root.seq < wtxn.first /\ wtxn.prev = root.chain
        /\ \A u \in log : u = wtxn \/ u.last <= root.seq

Rotating ==
    /\ wpc \in {"rotated", "appended", "repair", "barriered"} =>
          Seated(writer.active, leaves, clist)
    /\ wpc \in {"idle", "minted"} /\ ~poisoned =>
          Seated(writer.active, leaves, clist) \/ RotationDue

\* The checkpoint under the checkpoint mutex, by where it stands.
Snapshot ==
    cpc \in {"write", "sync"} =>
        /\ Whole(csnap, seen) /\ Covers(csnap, log, decayed) /\ csnap.seq <= root.seq
        /\ \A d \in leaves : Reaches(d.segs, csnap.seq, log)

Retaining ==
    /\ cpc = "sync" => \E cp \in cps : cp.seq = csnap.seq
    /\ cpc = "retain" => \E cp \in cps : cp.seq \notin skipped

Reclaiming ==
    IF cpc = "reclaim"
      THEN /\ cps # {} /\ cfloor <= root.seq
           /\ \A b \in cps : cfloor <= b.seq
           /\ \A d \in leaves : d.cps = cps
           /\ InOrder(clist, log)
           /\ \A f \in clist \ segs, g \in clist \cap segs : f < g
           /\ \A f \in segs \ clist, g \in clist : g < f
      ELSE clist = {}

Up == /\ Serving /\ Founded /\ Tailed
      /\ Idling /\ Writing /\ Minted /\ Barriered /\ Rotating
      /\ Snapshot /\ Retaining /\ Reclaiming

Stopped ==
    /\ root = Genesis /\ wpc = "idle" /\ cpc = "idle" /\ ~tail.whole /\ clist = {}

OneHistory == Linked(log \cup seen, failed, tries) /\ Kept(log, seen, decayed)

OnDisk == Directory \in leaves /\ \A d \in leaves : Stands(d, log, seen, decayed)

KernelInv ==
    /\ TypeOK /\ OneHistory /\ OnDisk
    /\ mode = "up" => Up
    /\ mode # "up" => Stopped

-----------------------------------------------------------------------------
(* Extremes of bounded sets *)

\* A set of numbers that is bounded has a greatest one.
LEMMA GreatestExists ==
    ASSUME NEW T \in SUBSET Nat, T # {}, NEW N \in Nat, \A s \in T : s <= N
    PROVE  \E m \in T : \A s \in T : s <= m
  <1> DEFINE Past(k) == {x \in T : k < x}
             Pasts == {Past(k) : k \in T}
  <1>1. \A U \in SUBSET T : IsFiniteSet(U)
    BY FS_BoundedSetOfNaturals, FS_Subset
  <1>2. Pasts \subseteq FiniteSubsetsOf(T) /\ Pasts # {}
    BY <1>1 DEF FiniteSubsetsOf
  <1>3. PICK U \in Pasts : \A V \in Pasts : ~(<<V, U>> \in StrictSubsetOrdering(T))
    <2> HIDE DEF Pasts
    <2> QED BY <1>2, FS_StrictSubsetOrderingWellFounded, WFMin
  <1>4. PICK m \in T : U = Past(m)
    OBVIOUS
  <1>5. ASSUME NEW s \in T, m < s PROVE FALSE
    <2>0. Past(s) \in Pasts
      OBVIOUS
    <2> HIDE DEF Pasts
    <2>2. \A x \in T : x \in Nat
      OBVIOUS
    <2>3. \A y \in T : s < y => m < y
      BY <1>5, <2>2
    <2>4. Past(s) \subseteq Past(m)
      BY <2>3
    <2>5. s \in Past(m)
      BY <1>5
    <2>6. s \notin Past(s)
      BY <2>2
    <2> QED
      BY <1>3, <1>4, <2>0, <2>4, <2>5, <2>6 DEF StrictSubsetOrdering
  <1> QED
    BY <1>5

\* A set of numbers with a member has a least one.
LEMMA LeastExists ==
    ASSUME NEW T \in SUBSET Nat, T # {}
    PROVE  \E m \in T : \A s \in T : m <= s
  <1>1. PICK k \in T : TRUE
    OBVIOUS
  <1> DEFINE U == {k - x : x \in {y \in T : y <= k}}
  <1>2. U \in SUBSET Nat /\ U # {} /\ \A d \in U : d <= k
    <2>1. k - k \in U
      BY <1>1
    <2> QED
      BY <1>1, <2>1
  <1>3. PICK d \in U : \A e \in U : e <= d
    <2> HIDE DEF U
    <2> QED
      BY <1>1, <1>2, GreatestExists
  <1>4. PICK m \in T : m <= k /\ d = k - m
    BY <1>3
  <1>5. ASSUME NEW s \in T PROVE m <= s
    <2>1. CASE s <= k
      <3>1. k - s \in U
        BY <2>1
      <3>2. k - s <= d
        BY <1>3, <3>1
      <3> QED
        BY <1>1, <1>4, <3>2
    <2>2. CASE k < s
      BY <1>4, <2>2
    <2> QED
      BY <2>1, <2>2, <1>1
  <1> QED
    BY <1>5

\* Of transactions that close below the ceiling one is the last.
LEMMA LastExists ==
    ASSUME NEW W \in SUBSET Txns, W # {}, NEW N \in Nat, \A t \in W : t.last <= N
    PROVE  \E t \in W : \A u \in W : u.last <= t.last
  <1> DEFINE T == {t.last : t \in W}
  <1>1. T \in SUBSET Nat /\ T # {} /\ \A s \in T : s <= N
    BY DEF Txns
  <1>2. PICK m \in T : \A s \in T : s <= m
    <2> HIDE DEF T
    <2> QED
      BY <1>1, GreatestExists
  <1> QED
    BY <1>2

-----------------------------------------------------------------------------
(* Histories *)

\* A root carries a transaction on top of it: it stays without a hole.
LEMMA LinearExtend ==
    ASSUME NEW r \in Roots, NEW t \in Txns, Linear(r.world), Headed(r),
           r.seq < t.first, t.first <= t.last, t.prev = r.chain
    PROVE  /\ Linear(r.world \cup {t})
           /\ Headed([seq |-> t.last, world |-> r.world \cup {t}, chain |-> t.link])
  <1> DEFINE W == r.world \cup {t}
  <1>0. W \subseteq Txns /\ r.world \subseteq Txns /\ r.seq \in Nat
    BY DEF Roots, Worlds
  <1>1. \A u \in r.world : u.last <= r.seq
    BY DEF Headed
  <1>2. \A u \in r.world : u.last < t.last
    BY <1>0, <1>1 DEF Txns
  <1>3. Headed([seq |-> t.last, world |-> W, chain |-> t.link])
    BY <1>0, <1>2 DEF Headed, Txns
  <1>4. ASSUME NEW s \in r.world
        PROVE  /\ s.first <= s.last
               /\ IF \E u \in W : u.last < s.last
                    THEN \E u \in W : /\ FollowsIn(W, u, s) /\ s.prev = u.link
                                      /\ u.last < s.first
                    ELSE s.prev = 0
    <2>1. ~(t.last < s.last)
      BY <1>0, <1>2 DEF Txns
    <2>2. \A u \in r.world : FollowsIn(r.world, u, s) => FollowsIn(W, u, s)
      BY <2>1 DEF FollowsIn
    <2> QED
      BY <2>1, <2>2 DEF Linear
  <1>5. IF \E u \in W : u.last < t.last
          THEN \E u \in W : /\ FollowsIn(W, u, t) /\ t.prev = u.link
                            /\ u.last < t.first
          ELSE t.prev = 0
    <2>1. CASE r.world = {}
      BY <2>1, <1>0 DEF Headed, Txns
    <2>2. CASE r.world # {}
      <3>1. PICK h \in r.world : /\ h.last = r.seq /\ h.link = r.chain
                                 /\ \A u \in r.world : u.last <= r.seq
        BY <2>2 DEF Headed
      <3>2. FollowsIn(W, h, t)
        BY <3>1, <1>0, <1>2 DEF FollowsIn, Txns
      <3> QED
        BY <3>1, <3>2, <1>2
    <2> QED
      BY <2>1, <2>2
  <1>6. Linear(W)
    BY <1>4, <1>5 DEF Linear
  <1> QED
    BY <1>3, <1>6

\* What a scan found over a base, chained onto it, has no hole either.
LEMMA FoldLinear ==
    ASSUME NEW r \in Roots, NEW A \in SUBSET Txns, Linear(r.world), Headed(r),
           \A t \in A : Placed(t) /\ r.seq < t.last,
           \A t, u \in r.world \cup A : t.prev = u.link => u.last < t.first,
           ~ChainBreak(r, A)
    PROVE  Linear(r.world \cup A)
  <1> DEFINE W == r.world \cup A
  <1>0. W \subseteq Txns /\ r.world \subseteq Txns /\ r.seq \in Nat /\ Ceiling \in Nat
    BY KernelConstants DEF Roots, Worlds
  <1>1. \A u \in r.world : u.last <= r.seq
    BY DEF Headed
  <1>2. \A u \in r.world, a \in A : u.last < a.last
    BY <1>0, <1>1 DEF Txns
  <1>3. ASSUME NEW s \in r.world
        PROVE  /\ s.first <= s.last
               /\ IF \E u \in W : u.last < s.last
                    THEN \E u \in W : /\ FollowsIn(W, u, s) /\ s.prev = u.link
                                      /\ u.last < s.first
                    ELSE s.prev = 0
    <2>1. \A a \in A : ~(a.last < s.last)
      BY <1>0, <1>2 DEF Txns
    <2>2. \A u \in r.world : FollowsIn(r.world, u, s) => FollowsIn(W, u, s)
      BY <2>1 DEF FollowsIn
    <2> QED
      BY <2>1, <2>2 DEF Linear
  <1>4. ASSUME NEW s \in A
        PROVE  IF \E u \in W : u.last < s.last
                 THEN \E u \in W : /\ FollowsIn(W, u, s) /\ s.prev = u.link
                                   /\ u.last < s.first
                 ELSE s.prev = 0
    <2>1. CASE \E u \in A : u.last < s.last
      <3> DEFINE B == {u \in A : u.last < s.last}
      <3>1. PICK m \in B : \A u \in B : u.last <= m.last
        <4>1. B \in SUBSET Txns /\ B # {} /\ s.last \in Nat
          BY <2>1, <1>0 DEF Txns
        <4>2. \A u \in B : u.last <= s.last
          BY <1>0 DEF Txns
        <4> HIDE DEF B
        <4> QED
          BY <4>1, <4>2, LastExists
      <3>2. m \in A /\ m.last < s.last
        BY <3>1
      <3>3. \A w \in W : ~(m.last < w.last /\ w.last < s.last)
        BY <1>0, <1>2, <3>1, <3>2 DEF Txns
      <3>4. FollowsIn(W, m, s) /\ FollowsIn(A, m, s)
        BY <3>2, <3>3 DEF FollowsIn
      <3>5. s.prev = m.link
        BY <3>2, <3>4 DEF ChainBreak
      <3>6. m.last < s.first
        BY <3>2, <3>5
      <3> QED
        BY <3>2, <3>4, <3>5, <3>6
    <2>2. CASE ~\E u \in A : u.last < s.last
      <3>1. s.prev = r.chain
        BY <2>2 DEF ChainBreak
      <3>2. CASE r.world = {}
        BY <2>2, <3>1, <3>2 DEF Headed
      <3>3. CASE r.world # {}
        <4>1. PICK h \in r.world : /\ h.last = r.seq /\ h.link = r.chain
                                   /\ \A u \in r.world : u.last <= r.seq
          BY <3>3 DEF Headed
        <4>2. \A w \in W : ~(h.last < w.last /\ w.last < s.last)
          BY <1>0, <2>2, <4>1 DEF Txns
        <4>3. FollowsIn(W, h, s)
          BY <4>1, <4>2, <1>2 DEF FollowsIn
        <4>4. h.last < s.first
          BY <3>1, <4>1
        <4> QED
          BY <3>1, <4>1, <4>3, <4>4, <1>2
      <3> QED
        BY <3>2, <3>3
    <2> QED
      BY <2>1, <2>2
  <1>5. \A s \in A : s.first <= s.last
    BY DEF Placed
  <1> HIDE DEF W
  <1>6. ASSUME NEW s \in W
        PROVE  /\ s.first <= s.last
               /\ IF \E u \in W : u.last < s.last
                    THEN \E u \in W : /\ FollowsIn(W, u, s) /\ s.prev = u.link
                                      /\ u.last < s.first
                    ELSE s.prev = 0
    BY <1>3, <1>4, <1>5 DEF W
  <1>7. Linear(W)
    BY <1>6 DEF Linear
  <1> QED
    BY <1>7 DEF W

\* One chain from genesis stays one with a transaction chained onto its last.
LEMMA ChainExtend ==
    ASSUME NEW r \in Roots, NEW t \in Txns, Headed(r), ~ChainBreak(Genesis, r.world),
           \A u, w \in r.world : u.last = w.last => u = w,
           r.seq < t.first, t.first <= t.last, t.prev = r.chain
    PROVE  ~ChainBreak(Genesis, r.world \cup {t})
  <1> DEFINE W == r.world \cup {t}
  <1>0. W \subseteq Txns /\ r.world \subseteq Txns /\ r.seq \in Nat
    BY DEF Roots, Worlds
  <1>2. \A u \in r.world : u.last < t.last /\ u.last <= r.seq
    BY <1>0 DEF Headed, Txns
  <1>3. \A s \in r.world : ~(t.last < s.last)
    BY <1>0, <1>2 DEF Txns
  <1>4. ASSUME NEW s \in r.world, NEW u \in W, FollowsIn(W, u, s)
        PROVE  s.prev = u.link
    <2>1. u \in r.world /\ FollowsIn(r.world, u, s) /\ u.last < s.last
      BY <1>0, <1>3, <1>4 DEF FollowsIn, Txns
    <2> QED
      BY <2>1 DEF ChainBreak
  <1>5. ASSUME NEW s \in r.world, ~\E u \in W : u.last < s.last PROVE s.prev = 0
    BY <1>5 DEF ChainBreak, Genesis
  <1>6. ASSUME NEW u \in W, FollowsIn(W, u, t) PROVE t.prev = u.link
    <2>1. PICK h \in r.world : h.last = r.seq /\ h.link = r.chain
      BY <1>0, <1>6 DEF Headed, FollowsIn, Txns
    <2>2. u \in r.world /\ u.last = h.last
      BY <1>0, <1>2, <1>6, <2>1 DEF FollowsIn, Txns
    <2> QED
      BY <1>6, <2>1, <2>2
  <1>7. ASSUME ~\E u \in W : u.last < t.last PROVE t.prev = 0
    BY <1>2, <1>7 DEF Headed
  <1> QED
    BY <1>4, <1>5, <1>6, <1>7 DEF ChainBreak, Genesis

\* The log past a base that covers it is chained onto the base.
LEMMA ChainAbove ==
    ASSUME NEW r \in Roots, NEW L \in SUBSET Txns, Headed(r), r.world \subseteq L,
           \A t \in L : Placed(t) /\ (t.last <= r.seq => t \in r.world),
           ~ChainBreak(Genesis, L)
    PROVE  ~ChainBreak(r, {t \in L : r.seq < t.last})
  <1> DEFINE A == {t \in L : r.seq < t.last}
  <1>0. r.seq \in Nat /\ Ceiling \in Nat
    BY KernelConstants DEF Roots
  <1>1. \A w \in L : w \in A \/ w.last <= r.seq
    BY <1>0 DEF Txns
  <1>2. ASSUME NEW t \in A, NEW u \in A, FollowsIn(A, u, t) PROVE t.prev = u.link
    <2>1. FollowsIn(L, u, t) /\ u.last < t.last
      BY <1>0, <1>1, <1>2 DEF FollowsIn, Txns
    <2> QED
      BY <2>1 DEF ChainBreak
  <1>3. ASSUME NEW t \in A, ~\E u \in A : u.last < t.last PROVE t.prev = r.chain
    <2>1. CASE r.world = {}
      <3>1. r.seq = 0 /\ r.chain = 0
        BY <2>1 DEF Headed
      <3>2. ~\E u \in L : u.last < t.last
        BY <1>0, <1>1, <1>3, <2>1
      <3> QED
        BY <3>1, <3>2 DEF ChainBreak, Genesis
    <2>2. CASE r.world # {}
      <3>1. PICK h \in r.world : /\ h.last = r.seq /\ h.link = r.chain
                                 /\ \A u \in r.world : u.last <= r.seq
        BY <2>2 DEF Headed
      <3>2. FollowsIn(L, h, t) /\ h \in L /\ h.last < t.last
        BY <1>0, <1>1, <1>3, <3>1 DEF FollowsIn, Txns
      <3> QED
        BY <3>1, <3>2 DEF ChainBreak
    <2> QED
      BY <2>1, <2>2
  <1> QED
    BY <1>2, <1>3 DEF ChainBreak

\* A root's position is zero or that of a transaction of its world.
LEMMA HeadBelow ==
    ASSUME NEW r, NEW S \in SUBSET Txns, Whole(r, S), \A t \in S : Placed(t)
    PROVE  r.seq <= Ceiling
  BY KernelConstants DEF Whole, Headed, Placed, Txns

-----------------------------------------------------------------------------
(* Segments *)

\* A scan reads every file that holds a position above the base.
LEMMA ScansAbove ==
    ASSUME NEW files \in SUBSET Nat, NEW L \in SUBSET Txns, NEW t \in L,
           NEW s \in Nat, InOrder(files, L), t.seg \in files, s < t.last
    PROVE  t.seg \in ScannedAbove(files, s)
  <1>1. ASSUME EndsAtOrBelow(files, t.seg, s) PROVE FALSE
    <2>1. PICK next \in files : t.seg < next /\ next - 1 <= s
      BY <1>1 DEF EndsAtOrBelow
    <2>2. t.last < next
      BY <2>1 DEF InOrder
    <2> QED
      BY <2>1, <2>2 DEF Txns
  <1> QED
    BY <1>1 DEF ScannedAbove

\* A scan reads the files from some position on.
LEMMA ScansUpward ==
    ASSUME NEW files \in SUBSET Nat, NEW s \in Nat, NEW f \in ScannedAbove(files, s),
           NEW g \in files, f <= g
    PROVE  g \in ScannedAbove(files, s)
  <1>0. f \in files /\ ~EndsAtOrBelow(files, f, s)
    BY DEF ScannedAbove
  <1>1. ASSUME EndsAtOrBelow(files, g, s), f < g PROVE FALSE
    <2>1. PICK next \in files : g < next /\ next - 1 <= s
      BY <1>1 DEF EndsAtOrBelow
    <2> DEFINE T == {h \in files : f < h}
    <2>2. PICK m \in T : \A h \in T : m <= h
      <3>1. T \in SUBSET Nat /\ T # {}
        BY <1>1
      <3> HIDE DEF T
      <3> QED
        BY <3>1, LeastExists
    <2>3. m \in files /\ f < m /\ m <= g /\ \A h \in files : f < h => m <= h
      BY <1>1, <2>2
    <2>4. m - 1 <= s
      BY <2>1, <2>3
    <2>5. EndsAtOrBelow(files, f, s)
      BY <2>3, <2>4 DEF EndsAtOrBelow
    <2> QED
      BY <1>0, <2>5
  <1> QED
    BY <1>0, <1>1 DEF ScannedAbove

\* A scan over a base the files reach reads one that begins at or below it.
LEMMA ScansReached ==
    ASSUME NEW files \in SUBSET Nat, NEW s \in Nat, \E f \in files : f <= s + 1
    PROVE  \E f \in ScannedAbove(files, s) : f <= s + 1
  <1> DEFINE T == {f \in files : f <= s + 1}
  <1>1. PICK m \in T : \A f \in T : f <= m
    <2>1. T \in SUBSET Nat
      OBVIOUS
    <2>2. T # {}
      OBVIOUS
    <2>3. s + 1 \in Nat /\ \A f \in T : f <= s + 1
      OBVIOUS
    <2> HIDE DEF T
    <2> QED
      BY <2>1, <2>2, <2>3, GreatestExists
  <1>2. m \in files /\ m <= s + 1 /\ \A f \in files : f <= s + 1 => f <= m
    BY <1>1
  <1>3. ~EndsAtOrBelow(files, m, s)
    BY <1>2 DEF EndsAtOrBelow
  <1> QED
    BY <1>2, <1>3 DEF ScannedAbove

-----------------------------------------------------------------------------
(* Directories *)

\* A directory a crash may leave stays one when transactions are cut from
\* the log, more is seen and more decays.
LEMMA StandsOn ==
    ASSUME NEW d, NEW L, NEW S, NEW D, NEW M \in SUBSET L, NEW T, S \subseteq T,
           NEW E, D \subseteq E, Stands(d, L, S, D)
    PROVE  Stands(d, M, T, E)
  <1>1. InOrder(d.segs, M)
    BY DEF Stands, InOrder
  <1>2. ASSUME NEW b \in d.cps
        PROVE  Whole(b, T) /\ Reaches(d.segs, b.seq, M) /\ (Good(b, E) => Covers(b, M, E))
    <2>1. Whole(b, S) /\ Reaches(d.segs, b.seq, L) /\ (Good(b, D) => Covers(b, L, D))
      BY DEF Stands
    <2>2. Whole(b, T)
      BY <2>1 DEF Whole
    <2>3. Reaches(d.segs, b.seq, M)
      BY <2>1 DEF Reaches
    <2>4. ASSUME Good(b, E) PROVE Covers(b, M, E)
      BY <2>1, <2>4 DEF Good, Covers, Lost
    <2> QED
      BY <2>2, <2>3, <2>4
  <1> QED
    BY <1>1, <1>2 DEF Stands

\* It stays one when the log grows by a transaction in its last segment.
LEMMA StandsGrown ==
    ASSUME NEW d \in Directories, NEW L, NEW S, NEW D, NEW t \in Txns,
           Stands(d, L, S, D), t.seg \in d.segs, \A f \in d.segs : f <= t.seg,
           \A b \in d.cps : Good(b, D) => b.seq < t.last
    PROVE  Stands(d, L \cup {t}, S, D)
  <1>0. d.segs \subseteq Nat /\ d.cps \subseteq Bases
    BY DEF Directories
  <1>1. InOrder(d.segs, L \cup {t})
    BY <1>0 DEF Stands, InOrder, Txns
  <1>2. ASSUME NEW b \in d.cps
        PROVE  /\ Whole(b, S) /\ Reaches(d.segs, b.seq, L \cup {t})
               /\ Good(b, D) => Covers(b, L \cup {t}, D)
    <2>1. Whole(b, S) /\ Reaches(d.segs, b.seq, L) /\ (Good(b, D) => Covers(b, L, D))
      BY DEF Stands
    <2>2. Reaches(d.segs, b.seq, L \cup {t})
      BY <2>1 DEF Reaches
    <2>3. ASSUME Good(b, D) PROVE Covers(b, L \cup {t}, D)
      <3>1. b.seq \in Nat /\ b.seq < t.last /\ t.last \in Nat
        BY <1>0, <2>3 DEF Bases, Txns
      <3> QED
        BY <2>1, <2>3, <3>1 DEF Covers
    <2> QED
      BY <2>1, <2>2, <2>3
  <1> QED
    BY <1>1, <1>2 DEF Stands

-----------------------------------------------------------------------------
(* What an open finds *)

\* A base an open may select: all that it needs is scanned.
Foundation(base) ==
    /\ base \in Roots /\ Whole(base, seen) /\ Covers(base, log, decayed)
    /\ \A t \in log : base.seq < t.last => t \in Scanned(base)

LEMMA Standing ==
    ASSUME KernelInv
    PROVE  Stands(Directory, log, seen, decayed) /\ segs \subseteq Nat /\ cps \subseteq Bases
  BY DEF KernelInv, OnDisk, TypeOK, DiskTypeOK

LEMMA GenesisWhole == ASSUME NEW S PROVE Whole(Genesis, S)
  BY DEF Whole, Genesis, Linear, Headed

\* A base in the directory that says what the log says is a foundation.
LEMMA BaseFounded ==
    ASSUME KernelInv, NEW cp \in cps, Good(cp, decayed)
    PROVE  Foundation(RootOf(cp))
  <1> DEFINE base == RootOf(cp)
  <1>0. log \in SUBSET Txns /\ segs \in SUBSET Nat /\ cp \in Bases /\ base \in Roots
    BY RootOfType DEF KernelInv, TypeOK, DiskTypeOK
  <1>1. /\ Whole(cp, seen) /\ Reaches(segs, cp.seq, log) /\ Covers(cp, log, decayed)
        /\ InOrder(segs, log)
    BY Standing DEF Stands, Directory
  <1>2. Whole(base, seen) /\ Covers(base, log, decayed) /\ base.seq = cp.seq /\ cp.seq \in Nat
    BY <1>0, <1>1 DEF RootOf, Whole, Headed, Covers, Bases
  <1>3. ASSUME NEW t \in log, base.seq < t.last PROVE t \in Scanned(base)
    <2>1. t.seg \in segs
      BY <1>0, <1>1, <1>2, <1>3 DEF Reaches, Txns
    <2> HIDE DEF base
    <2> QED
      BY <1>0, <1>1, <1>2, <1>3, <2>1, ScansAbove DEF Scanned
  <1> QED
    BY <1>0, <1>2, <1>3 DEF Foundation

\* So is genesis, while the segments reach back to it.
LEMMA GenesisFounded ==
    ASSUME KernelInv, ReachesGenesis(segs)
    PROVE  Foundation(Genesis)
  <1>0. log \in SUBSET Txns /\ segs \in SUBSET Nat /\ \A t \in log : Placed(t)
    BY DEF KernelInv, TypeOK, DiskTypeOK, OneHistory, Linked
  <1>1. InOrder(segs, log) /\ \A t \in log : t.seg \in segs
    BY Standing DEF Stands, Directory
  <1>2. Covers(Genesis, log, decayed)
    BY <1>0 DEF Covers, Genesis, Placed, Txns
  <1>3. ASSUME NEW t \in log, Genesis.seq < t.last PROVE t \in Scanned(Genesis)
    BY <1>0, <1>1, <1>3, GenesisType, ScansAbove DEF Scanned, Roots
  <1> QED
    BY <1>2, <1>3, GenesisType, GenesisWhole DEF Foundation

\* What an open selects is a foundation.
LEMMA SelectedFounded ==
    ASSUME KernelInv, NEW base, SelectBase(cps, segs, base)
    PROVE  Foundation(base)
  BY BaseFounded, GenesisFounded DEF SelectBase, Good

\* What a foundation folds to is the readable log past it.
LEMMA AboveIs ==
    ASSUME NEW base, Foundation(base)
    PROVE  Above(base, Scanned(base)) =
               {t \in log : base.seq < t.last /\ ~Lost(t, decayed)}
  BY DEF Foundation, Above, Readable, Scanned, Decayed, Lost

\* All that was seen and did not decay is in what a foundation folds to.
LEMMA SeenFolds ==
    ASSUME KernelInv, NEW base, Foundation(base), NEW t \in seen, ~Lost(t, decayed)
    PROVE  t \in base.world \cup Above(base, Scanned(base))
  <1>1. t \in log /\ t \in Txns
    BY DEF KernelInv, OneHistory, Kept, TypeOK, GhostTypeOK
  <1>2. t.last <= base.seq \/ base.seq < t.last
    BY <1>1 DEF Foundation, Roots, Txns
  <1> QED
    BY <1>1, <1>2, AboveIs DEF Foundation, Covers

\* Over a log in which nothing decayed no foundation halts or leaves a tail.
LEMMA NothingHalts ==
    ASSUME KernelInv, decayed = {}, NEW base, Foundation(base)
    PROVE  ~Halts(base, Scanned(base)) /\ TailTxns(Scanned(base)) = {}
  <1> DEFINE S == Scanned(base)
  <1>0. /\ log \in SUBSET Txns /\ S \subseteq log /\ base \in Roots
        /\ \A t \in log : Placed(t)
    BY DEF KernelInv, TypeOK, DiskTypeOK, OneHistory, Linked, Scanned, Foundation
  <1>1. \A t : ~Lost(t, decayed) /\ ~Decayed(t)
    BY DEF Lost, Decayed
  <1>2. /\ seen \subseteq log /\ ~ChainBreak(Genesis, log)
        /\ \A t, u \in log : t = u \/ t.last < u.first \/ u.last < t.first
    BY <1>1 DEF KernelInv, OneHistory, Kept
  <1>3. /\ base.world \subseteq log /\ Headed(base)
        /\ \A t \in log : t.last <= base.seq => t \in base.world
    BY <1>1, <1>2 DEF Foundation, Whole, Covers
  <1>4. ~FatalRun(base, S)
    BY <1>1 DEF FatalRun
  <1>5. ~ChainBreak(base, Above(base, S))
    <2>1. Above(base, S) = {t \in log : base.seq < t.last}
      BY <1>1, AboveIs
    <2> QED
      BY <1>0, <1>2, <1>3, <2>1, ChainAbove
  <1>6. ~BaseMismatch(base, S)
    <2>1. ASSUME NEW t \in S, t.last = base.seq PROVE t.link = base.chain
      <3>1. t \in base.world /\ t \in log /\ t \in Txns
        BY <1>0, <1>3, <2>1 DEF Txns
      <3>2. PICK h \in base.world : h.last = base.seq /\ h.link = base.chain
        BY <1>3, <3>1 DEF Headed
      <3>3. h \in log /\ h \in Txns
        BY <1>0, <1>3
      <3>4. h = t
        BY <1>0, <1>2, <2>1, <3>1, <3>2, <3>3 DEF Placed, Txns
      <3> QED
        BY <3>2, <3>4
    <2> QED
      BY <2>1 DEF BaseMismatch, Readable
  <1>7. TailTxns(S) = {}
    BY <1>0, <1>1 DEF TailTxns, Readable, Txns
  <1> QED
    BY <1>4, <1>5, <1>6, <1>7 DEF Halts

\* An open finds a base wherever one loads or nothing was checkpointed.
LEMMA BaseSelected ==
    ASSUME KernelInv, cps = {} \/ \E cp \in cps : cp.loads
    PROVE  \E base \in {RootOf(cp) : cp \in cps} \cup {Genesis} :
               SelectBase(cps, segs, base)
  <1>0. /\ cps \subseteq Bases /\ seen \in SUBSET Txns /\ Ceiling \in Nat
        /\ \A t \in seen : Placed(t)
    BY KernelConstants DEF KernelInv, TypeOK, DiskTypeOK, GhostTypeOK, OneHistory, Linked
  <1>1. CASE cps = {}
    <2>1. ReachesGenesis(segs)
      BY <1>1, Standing DEF Stands, Directory
    <2> QED
      BY <1>1, <2>1 DEF SelectBase
  <1>2. CASE \E cp \in cps : cp.loads
    <2> DEFINE T == {cp.seq : cp \in {c \in cps : c.loads}}
    <2>1. T \in SUBSET Nat /\ T # {}
      BY <1>0, <1>2 DEF Bases
    <2>2. \A s \in T : s <= Ceiling
      <3>1. \A cp \in cps : Whole(cp, seen)
        BY Standing DEF Stands, Directory
      <3> QED
        BY <1>0, <3>1, HeadBelow
    <2>3. PICK m \in T : \A s \in T : s <= m
      <3> HIDE DEF T
      <3> QED
        BY <1>0, <2>1, <2>2, GreatestExists
    <2>4. PICK cp \in cps : cp.loads /\ cp.seq = m
      BY <2>3
    <2>5. \A other \in cps : other.loads => other.seq <= cp.seq
      BY <2>3, <2>4
    <2>6. SelectBase(cps, segs, RootOf(cp))
      BY <2>4, <2>5 DEF SelectBase
    <2> QED
      BY <2>6
  <1> QED
    BY <1>1, <1>2

\* An open refuses nothing a crash alone can leave.
LEMMA OpensUndecayed ==
    ASSUME KernelInv, decayed = {}, cps = {} \/ \E cp \in cps : cp.loads
    PROVE  ~Refuses(FALSE)
  <1>1. ASSUME NEW base, SelectBase(cps, segs, base)
        PROVE  ~Halts(base, Scanned(base)) /\ ~DamagedTail(Scanned(base))
    BY <1>1, SelectedFounded, NothingHalts DEF DamagedTail, Claimants
  <1> QED
    BY <1>1, BaseSelected DEF Refuses

-----------------------------------------------------------------------------
(* The history and the directory from one state to the next *)

LEMMA LinkedOn ==
    ASSUME NEW E \in SUBSET Txns, NEW F \in SUBSET Txns, NEW n \in Nat, NEW m \in Nat,
           n <= m, NEW G \in SUBSET E, Linked(E, F, n)
    PROVE  Linked(G, F, m)
  <1>1. \A t \in G : Placed(t) /\ t.prev < t.link /\ t.link <= m
    BY DEF Linked, Txns
  <1>2. \A t \in F : t.link <= m
    BY DEF Linked, Txns
  <1> QED
    BY <1>1, <1>2 DEF Linked

\* A pending transaction joins the history.
LEMMA LinkedArrives ==
    ASSUME NEW r \in Roots, NEW L \in SUBSET Txns, NEW S \in SUBSET Txns,
           NEW F \in SUBSET Txns, NEW n \in Nat, NEW t \in Txns,
           Linked(L \cup S, F, n), Whole(r, S), Pending(t, r, L, L \cup S \cup F, n)
    PROVE  Linked((L \cup {t}) \cup S, F, n) /\ t \notin L /\ t \notin F
  <1> DEFINE E == L \cup S
  <1>0. E \subseteq Txns /\ r.seq \in Nat /\ r.chain \in Nat
    BY DEF Roots
  <1>1. \A u \in E : u.link < t.link
    BY DEF Pending
  <1>2. \A u \in F : u.link < t.link
    BY DEF Pending
  <1>3. ASSUME NEW u \in E, t.prev = u.link PROVE u.last < t.first
    <2>1. u.link = r.chain /\ u.prev < u.link
      BY <1>3 DEF Pending, Linked
    <2>2. PICK h \in r.world : /\ h.last = r.seq /\ h.link = r.chain
      BY <2>1, <1>0 DEF Whole, Headed, Txns
    <2>3. h = u
      BY <2>1, <2>2 DEF Whole, Linked
    <2> QED
      BY <1>0, <2>2, <2>3 DEF Pending, Txns
  <1>4. \A u \in E : u.prev < t.link /\ u.prev # t.link
    BY <1>0, <1>1 DEF Linked, Txns
  <1>5. t.prev < t.link /\ t.prev # t.link /\ Placed(t) /\ t.link <= n
    BY DEF Pending, Txns
  <1>6. \A u \in E \cup {t} : Placed(u) /\ u.prev < u.link /\ u.link <= n
    BY <1>5 DEF Linked
  <1>7. \A u, w \in E \cup {t} : u.link = w.link => u = w
    BY <1>0, <1>1 DEF Linked, Txns
  <1>8. \A u, w \in E \cup {t} : u.prev = w.link => w.last < u.first
    BY <1>3, <1>4, <1>5 DEF Linked
  <1>9. \A f \in F : f.link <= n
    BY DEF Linked
  <1>10. \A f \in F, u \in E \cup {t} : u.link # f.link
    BY <1>2 DEF Linked, Txns
  <1>11. Linked(E \cup {t}, F, n)
    BY <1>6, <1>7, <1>8, <1>9, <1>10 DEF Linked
  <1>12. E \cup {t} = (L \cup {t}) \cup S
    OBVIOUS
  <1>13. t \notin L /\ t \notin F
    BY <1>1, <1>2 DEF Txns
  <1> QED
    BY <1>11, <1>12, <1>13

\* And the log keeps what it kept.
LEMMA KeptArrives ==
    ASSUME NEW r \in Roots, NEW L \in SUBSET Txns, NEW S \in SUBSET Txns, NEW D,
           NEW E, NEW n, NEW t \in Txns, \A u \in L : Placed(u),
           Kept(L, S, D), Whole(r, S), Covers(r, L, D), Pending(t, r, L, E, n)
    PROVE  Kept(L \cup {t}, S, D)
  <1>0. r.seq \in Nat /\ Ceiling \in Nat
    BY KernelConstants DEF Roots
  <1>1. \A u \in L : u.last < t.first
    BY <1>0 DEF Pending, Settled, Txns
  <1>2. \A u, w \in L \cup {t} : u = w \/ u.last < w.first \/ w.last < u.first
    BY <1>1 DEF Kept
  <1>3. ASSUME D = {} PROVE ~ChainBreak(Genesis, L \cup {t})
    <2>1. S \subseteq L
      BY <1>3 DEF Kept, Lost
    <2>2. r.world = L
      BY <1>3, <2>1 DEF Whole, Covers, Lost, Pending, Settled
    <2>3. \A u, w \in r.world : u.last = w.last => u = w
      BY <2>2 DEF Kept, Placed, Txns
    <2>4. ~ChainBreak(Genesis, r.world)
      BY <1>3, <2>2 DEF Kept
    <2> QED
      BY <2>2, <2>3, <2>4, ChainExtend DEF Whole, Pending, Placed
  <1> QED
    BY <1>2, <1>3 DEF Kept

\* A link of a root is one of a transaction that was seen, or genesis'.
LEMMA ChainBelow ==
    ASSUME NEW r \in Roots, NEW S \in SUBSET Txns, NEW n \in Nat, Whole(r, S),
           \A t \in S : t.link <= n
    PROVE  r.chain <= n
  BY DEF Whole, Headed, Roots

\* Files that reach a position reach every later one, and more of them too.
LEMMA ReachesOn ==
    ASSUME NEW files, NEW more \in SUBSET Nat, files \subseteq more,
           NEW L \in SUBSET Txns,
           NEW s \in Nat, NEW t \in Nat, s <= t, Reaches(files, s, L)
    PROVE  Reaches(more, t, L)
  <1>1. \A u \in L : u.seg \in more \/ u.last <= t
    BY DEF Reaches, Txns
  <1>2. \E f \in more : f <= t + 1
    BY DEF Reaches
  <1> QED
    BY <1>1, <1>2 DEF Reaches

\* The directory as it stands is one a crash may leave, synced or not.
LEMMA DirectoryStands ==
    ASSUME FsyncDir \/ NoDirSync,
           \A d \in leaves : Stands(d, log', seen', decayed'),
           Stands(Directory', log', seen', decayed')
    PROVE  OnDisk'
  BY DEF FsyncDir, NoDirSync, OnDisk

\* The files of the directories a crash may leave.
LEMMA FilesOf ==
    ASSUME NEW dirs, NEW list, NEW d \in dirs
    PROVE  d.segs \subseteq Files(dirs, list) /\ list \subseteq Files(dirs, list)
  BY DEF Files

-----------------------------------------------------------------------------
(* The commit path keeps the invariant *)

\* Every link is at most the number of attempts.
LEMMA PendingOn ==
    ASSUME NEW t, NEW r, NEW L, NEW E, NEW n \in Nat, NEW m \in Nat, n <= m,
           t \in Txns, Pending(t, r, L, E, n)
    PROVE  Pending(t, r, L, E, m)
  BY DEF Pending, Txns

\* A checkpoint under way sees no change of what it stands on.
CkptFrame == UNCHANGED <<log, cps, leaves, decayed, root, ckpt, seen>>

LEMMA CkptFrameKeeps ==
    ASSUME CkptFrame, Founded, Snapshot, Retaining, Reclaiming
    PROVE  (Founded /\ Snapshot /\ Retaining)' /\ (segs' = segs => Reclaiming')
  BY DEF CkptFrame, Founded, Snapshot, Retaining, Reclaiming, ckpt

LEMMA MintKeeps ==
    ASSUME KernelInv, NEW n \in 1 .. MaxRecords, TxnMint(n)
    PROVE  KernelInv'
  <1>0. /\ mode = "up" /\ wpc = "idle" /\ ~poisoned /\ tries' = tries + 1 /\ n \in Nat /\ 1 <= n
        /\ UNCHANGED <<log, tail, segs, cps, leaves, decayed, mode, root, writer,
                       cpc, csnap, clist, cfloor, held, skipped, seen, failed, cut>>
    BY KernelConstants DEF TxnMint, disk, ckpt, ghosts
  <1>1. TypeOK'
    BY TxnTypeOK DEF KernelInv
  <1>2. /\ log \in SUBSET Txns /\ seen \in SUBSET Txns /\ failed \in SUBSET Txns
        /\ tries \in Nat /\ root \in Roots /\ root.seq \in Nat
        /\ sequencer.high_water \in Nat /\ sequencer.floor \in Nat
        /\ writer.active \in Nat /\ Ceiling \in Nat
    BY KernelConstants
       DEF KernelInv, TypeOK, DiskTypeOK, CommitTypeOK, GhostTypeOK, Roots
  <1>3. Up
    BY <1>0 DEF KernelInv
  <1>4. Linked(log \cup seen, failed, tries) /\ Kept(log, seen, decayed)
    BY DEF KernelInv, OneHistory
  <1>5. OneHistory'
    <2>1. Linked(log \cup seen, failed, tries + 1)
      BY <1>2, <1>4, LinkedOn
    <2> QED
      BY <1>0, <1>4, <2>1 DEF OneHistory
  <1>6. OnDisk'
    BY <1>0 DEF KernelInv, OnDisk, Directory
  <1>7. Founded' /\ Snapshot' /\ Retaining' /\ Reclaiming'
    BY <1>0, <1>3, CkptFrameKeeps DEF CkptFrame, ckpt, Up
  <1>8. ~tail.whole
    BY <1>0, <1>3 DEF Up, Tailed
  <1>9. Tailed' /\ Barriered'
    BY <1>0, <1>8 DEF Tailed, Barriered, TxnMint
  <1>10. (RotationDue <=> RotationDue') /\ Rotating'
    BY <1>0, <1>3 DEF Up, Rotating, RotationDue, TxnMint
  <1>11. CASE ~Mintable(n)
    <2>1. poisoned' /\ UNCHANGED <<sequencer, wtxn, wpc>>
      BY <1>11 DEF TxnMint
    <2>2. Serving' /\ Idling' /\ Writing' /\ Minted'
      BY <1>0, <1>3, <2>1 DEF Up, Serving, Idling, Writing, Minted
    <2> QED
      BY <1>0, <1>1, <1>5, <1>6, <1>7, <1>9, <1>10, <2>2 DEF KernelInv, Up
  <1>12. CASE Mintable(n)
    <2>1. /\ ~poisoned' /\ wpc' = "minted"
          /\ sequencer' = [high_water |-> sequencer.high_water + n, floor |-> sequencer.floor]
          /\ wtxn' = [link |-> tries + 1, first |-> sequencer.high_water + 1,
                      last |-> sequencer.high_water + n,
                      prev |-> writer.chain, seg |-> writer.active]
          /\ sequencer.high_water + n < Ceiling
      BY <1>0, <1>12 DEF TxnMint, Mint, Mintable
    <2>2. Serving'
      BY <1>0, <1>2, <1>3, <2>1 DEF Up, Serving, Settled, Txns
    <2>3. Idling /\ Serving
      BY <1>3 DEF Up
    <2>4. Idling'
      BY <2>1 DEF Idling
    <2>5. Writing'
      BY <1>0, <1>2, <2>1, <2>3 DEF Idling, Writing, Serving
    <2>6. Placed(wtxn')
      BY <1>0, <1>2, <2>1, <2>3 DEF Idling, Placed
    <2>7. root.chain <= tries
      BY <1>2, <1>4, <2>3, ChainBelow DEF Serving, Linked
    <2>8. \A u \in log \cup seen \cup failed : u.link < wtxn'.link
      BY <1>2, <1>4, <2>1 DEF Linked, Txns
    <2>9. Pending(wtxn', root, log, log \cup seen \cup failed, tries + 1)
      <3>1. root.chain \in Nat
        BY <1>2 DEF Roots
      <3>2. wtxn'.prev = root.chain /\ wtxn'.link = tries + 1 /\ root.seq < wtxn'.first
        BY <1>0, <1>2, <2>1, <2>3 DEF Idling, Serving
      <3> QED
        BY <1>0, <1>2, <2>1, <2>3, <2>6, <2>7, <2>8, <3>1, <3>2 DEF Idling, Pending
    <2>10. Minted'
      BY <1>0, <2>1, <2>3, <2>9 DEF Minted, Idling
    <2> QED
      BY <1>0, <1>1, <1>5, <1>6, <1>7, <1>9, <1>10, <2>2, <2>4, <2>5, <2>10 DEF KernelInv, Up
  <1> QED
    BY <1>11, <1>12

\* The facts about a transaction that is not yet durable, in one place.
LEMMA UnderWay ==
    ASSUME KernelInv, mode = "up", wpc \in {"minted", "rotated", "appended", "repair"}
    PROVE  /\ ~poisoned /\ writer.chain = root.chain
           /\ Pending(wtxn, root, log, log \cup seen \cup failed, tries)
           /\ wtxn.seg = writer.active /\ wtxn.last = sequencer.high_water
           /\ \A f \in Files(leaves, clist) : f <= wtxn.first
           /\ RollsBack => wtxn.first = root.seq + 1 \/ wtxn.first = sequencer.floor + 1
           /\ wtxn \in Txns /\ root \in Roots /\ root.seq \in Nat
           /\ log \in SUBSET Txns /\ seen \in SUBSET Txns /\ failed \in SUBSET Txns
           /\ sequencer.high_water \in Nat /\ sequencer.floor \in Nat /\ tries \in Nat
           /\ segs \in SUBSET Nat /\ clist \in SUBSET Nat /\ Ceiling \in Nat
           /\ leaves \in SUBSET Directories
  <1>1. Writing /\ Minted /\ wpc # "idle"
    BY DEF KernelInv, Up
  <1> QED
    BY <1>1, KernelConstants
       DEF Writing, Minted, KernelInv, TypeOK, DiskTypeOK, CommitTypeOK, CkptTypeOK,
           GhostTypeOK, Roots

LEMMA FilesType ==
    ASSUME NEW dirs \in SUBSET Directories, NEW list \in SUBSET Nat
    PROVE  Files(dirs, list) \subseteq Nat
  BY DEF Files, Directories

\* A clean failure gives its positions back, and its link to no one.
LEMMA FailCleanKeeps ==
    ASSUME KernelInv, mode = "up", wpc \in {"minted", "repair"}, FailClean,
           UNCHANGED <<log, cps, decayed>>, TypeOK',
           \A f \in Files(leaves', clist') : f <= wtxn.first
    PROVE  /\ OneHistory' /\ Serving' /\ Idling' /\ Writing' /\ Minted' /\ Barriered'
           /\ wpc' = "idle" /\ ~poisoned'
           /\ UNCHANGED <<mode, root, poisoned, writer, cpc, csnap, clist, cfloor, held,
                          skipped, seen, tries>>
  <1>0. /\ wpc' = "idle" /\ wtxn' = NoTxn /\ failed' = failed \cup {wtxn}
        /\ sequencer' = RollBackTo(root.seq)
        /\ UNCHANGED <<mode, root, poisoned, writer, cpc, csnap, clist, cfloor, held,
                       skipped, seen, tries>>
    BY DEF FailClean, ckpt, budget
  <1>1. Linked(log \cup seen, failed, tries) /\ Kept(log, seen, decayed)
    BY DEF KernelInv, OneHistory
  <1>2. Linked(log \cup seen, failed \cup {wtxn}, tries)
    <2>1. \A u \in log \cup seen : u.link < wtxn.link
      BY UnderWay DEF Pending
    <2>2. wtxn.link <= tries
      BY UnderWay DEF Pending
    <2>3. \A u \in log \cup seen : u.link # wtxn.link
      BY <2>1, UnderWay DEF Txns
    <2> QED
      BY <1>1, <2>2, <2>3 DEF Linked
  <1>3. OneHistory'
    BY <1>0, <1>1, <1>2 DEF OneHistory
  <1>4. Serving
    BY DEF KernelInv, Up
  <1>5. /\ wtxn.first \in Nat /\ wtxn.last \in Nat /\ root.seq < wtxn.first
        /\ wtxn.first <= wtxn.last /\ Settled(log, root.seq) /\ wtxn.seg <= wtxn.first
    BY UnderWay DEF Pending, Placed, Txns
  <1>6. /\ wtxn.first <= sequencer'.high_water + 1
        /\ root.seq <= sequencer'.high_water
        /\ sequencer'.high_water <= sequencer.high_water
        /\ sequencer'.floor = sequencer.floor /\ sequencer.floor <= sequencer'.high_water
        /\ sequencer'.high_water \in Nat
        /\ RollsBack => \/ sequencer'.high_water = root.seq
                        \/ sequencer'.high_water = sequencer.floor
    BY <1>0, <1>4, <1>5, UnderWay DEF RollBackTo, Serving
  <1>7. Serving'
    <2>1. Settled(log, sequencer'.high_water)
      BY <1>5, <1>6, UnderWay DEF Settled, Txns
    <2>2. sequencer'.high_water <= Ceiling
      BY <1>4, <1>6, UnderWay DEF Serving
    <2> QED
      BY <1>0, <1>4, <1>6, <2>1, <2>2 DEF Serving
  <1>8. Idling'
    <2>1. \A f \in Files(leaves', clist') : f \in Nat => f <= sequencer'.high_water + 1
      BY <1>5, <1>6
    <2>2. Files(leaves', clist') \subseteq Nat
      BY FilesType DEF TypeOK, DiskTypeOK, CkptTypeOK
    <2>3. writer.active \in Nat /\ writer.active <= sequencer'.high_water + 1
      BY <1>5, <1>6, UnderWay DEF KernelInv, TypeOK, CommitTypeOK
    <2> QED
      BY <1>0, <1>5, <1>6, <2>1, <2>2, <2>3, UnderWay DEF Idling
  <1> QED
    BY <1>0, <1>3, <1>7, <1>8, UnderWay DEF Writing, Minted, Barriered

LEMMA RefuseKeeps ==
    ASSUME KernelInv, mode = "up", TxnRefuse
    PROVE  KernelInv'
  <1>0. wpc = "minted" /\ FailClean /\ UNCHANGED <<log, tail, segs, cps, leaves, decayed>>
    BY DEF TxnRefuse, disk
  <1>1. TypeOK'
    BY TxnTypeOK DEF KernelInv
  <1>2. clist' = clist
    BY <1>0 DEF FailClean, ckpt
  <1>3. \A f \in Files(leaves', clist') : f <= wtxn.first
    BY <1>0, <1>2, UnderWay
  <1>4. /\ OneHistory' /\ Serving' /\ Idling' /\ Writing' /\ Minted' /\ Barriered'
        /\ wpc' = "idle" /\ ~poisoned'
        /\ UNCHANGED <<mode, root, poisoned, writer, cpc, csnap, clist, cfloor, held,
                       skipped, seen, tries>>
    BY <1>0, <1>1, <1>3, FailCleanKeeps
  <1>5. Up
    BY DEF KernelInv
  <1>6. OnDisk'
    BY <1>0, <1>4 DEF KernelInv, OnDisk, Directory
  <1>7. Founded' /\ Snapshot' /\ Retaining' /\ Reclaiming'
    BY <1>0, <1>4, <1>5, CkptFrameKeeps DEF CkptFrame, ckpt, Up
  <1>8. Tailed'
    BY <1>0, <1>4, <1>5, UnderWay DEF Up, Tailed
  <1>9. (RotationDue <=> RotationDue') /\ Rotating'
    BY <1>0, <1>4, <1>5, UnderWay DEF Up, Rotating, RotationDue
  <1> QED
    BY <1>1, <1>4, <1>6, <1>7, <1>8, <1>9 DEF KernelInv, Up

LEMMA RepairKeeps ==
    ASSUME KernelInv, mode = "up", TxnRepair
    PROVE  KernelInv'
  <1>0. /\ wpc = "repair" /\ FailClean /\ tail' = NoTail
        /\ UNCHANGED <<log, segs, cps, leaves, decayed>>
    BY DEF TxnRepair
  <1>1. TypeOK'
    BY TxnTypeOK DEF KernelInv
  <1>2. clist' = clist
    BY <1>0 DEF FailClean, ckpt
  <1>3. \A f \in Files(leaves', clist') : f <= wtxn.first
    BY <1>0, <1>2, UnderWay
  <1>4. /\ OneHistory' /\ Serving' /\ Idling' /\ Writing' /\ Minted' /\ Barriered'
        /\ wpc' = "idle" /\ ~poisoned'
        /\ UNCHANGED <<mode, root, poisoned, writer, cpc, csnap, clist, cfloor, held,
                       skipped, seen, tries>>
    BY <1>0, <1>1, <1>3, FailCleanKeeps
  <1>5. Up
    BY DEF KernelInv
  <1>6. OnDisk'
    BY <1>0, <1>4 DEF KernelInv, OnDisk, Directory
  <1>7. Founded' /\ Snapshot' /\ Retaining' /\ Reclaiming'
    BY <1>0, <1>4, <1>5, CkptFrameKeeps DEF CkptFrame, ckpt, Up
  <1>8. Tailed'
    BY <1>0 DEF Tailed, NoTail
  <1>9. Rotating'
    BY <1>0, <1>4, <1>5 DEF Up, Rotating
  <1> QED
    BY <1>1, <1>4, <1>6, <1>7, <1>8, <1>9 DEF KernelInv, Up

\* maybe_rotate adds a segment named past everything: the directory with it
\* stands, and reaches what it reached.
LEMMA RotatedStands ==
    ASSUME KernelInv, mode = "up", wpc = "minted", segs' = segs \cup {wtxn.first},
           UNCHANGED <<cps, log, seen, decayed, root>>
    PROVE  /\ Stands(Directory', log, seen, decayed)
           /\ Reaches(segs', root.seq, log)
           /\ \A f \in segs' : f <= wtxn.first
  <1> DEFINE d == Directory'
  <1>0. d.segs = segs' /\ d.cps = cps /\ segs' \in SUBSET Nat
    BY UnderWay DEF Directory, Txns
  <1>1. Stands(Directory, log, seen, decayed) /\ Directory \in leaves
    BY DEF KernelInv, OnDisk
  <1>2. /\ InOrder(segs, log) /\ \A f \in segs : 1 <= f /\ f <= Ceiling + 1
        /\ ReachesGenesis(segs) => \A t \in log : t.seg \in segs
        /\ cps = {} => ReachesGenesis(segs)
        /\ \A b \in cps : /\ Whole(b, seen) /\ Reaches(segs, b.seq, log)
                          /\ Good(b, decayed) => Covers(b, log, decayed)
    BY <1>1 DEF Stands, Directory
  <1>3. /\ wtxn.first \in Nat /\ 1 <= wtxn.first /\ wtxn.first <= Ceiling
        /\ \A t \in log : t.last < wtxn.first
    BY UnderWay DEF Pending, Settled, Placed, Txns
  <1>4. Reaches(segs, root.seq, log) /\ \A f \in segs : f <= wtxn.first
    <2>1. Founded
      BY DEF KernelInv, Up
    <2> QED
      BY <1>1, <2>1, UnderWay, FilesOf DEF Founded, Directory
  <1>5. InOrder(segs', log)
    BY <1>2, <1>3 DEF InOrder
  <1>6. \A f \in segs' : 1 <= f /\ f <= Ceiling + 1
    BY <1>2, <1>3, UnderWay
  <1>7. ASSUME ReachesGenesis(segs') PROVE \A t \in log : t.seg \in segs'
    <2>1. CASE 1 \in segs
      BY <1>2, <2>1 DEF ReachesGenesis
    <2>2. CASE 1 \notin segs
      <3>1. wtxn.first = 1
        BY <1>7, <2>2 DEF ReachesGenesis
      <3>2. \A t \in log : t.last < 1 /\ Placed(t)
        BY <1>3, <3>1 DEF KernelInv, OneHistory, Linked
      <3> QED
        BY <3>2, UnderWay DEF Placed, Txns
    <2> QED
      BY <2>1, <2>2
  <1>8. cps = {} => ReachesGenesis(segs')
    BY <1>2, <1>3, <1>4 DEF ReachesGenesis, Reaches
  <1>9. ASSUME NEW b \in cps PROVE Reaches(segs', b.seq, log)
    <2>1. b.seq \in Nat
      BY DEF KernelInv, TypeOK, DiskTypeOK, Bases
    <2> QED
      BY <1>0, <1>2, <2>1, UnderWay, ReachesOn
  <1>10. Reaches(segs', root.seq, log)
    BY <1>0, <1>4, UnderWay, ReachesOn
  <1>11. \A f \in segs' : f <= wtxn.first
    BY <1>3, <1>4
  <1>12. Stands(d, log, seen, decayed)
    <2> HIDE DEF d
    <2> QED
      BY <1>0, <1>2, <1>5, <1>6, <1>7, <1>8, <1>9 DEF Stands
  <1> QED
    BY <1>10, <1>11, <1>12

LEMMA RotatedKeeps ==
    ASSUME KernelInv, mode = "up", wpc = "minted", segs' = segs \cup {wtxn.first},
           UNCHANGED <<cps, log, seen, decayed, root, cpc, csnap, clist, cfloor, skipped>>,
           FsyncDir \/ NoDirSync
    PROVE  /\ OnDisk' /\ Founded' /\ Snapshot' /\ Retaining' /\ Reclaiming'
           /\ \A f \in Files(leaves', clist') : f <= wtxn.first
  <1>0. /\ Stands(Directory', log, seen, decayed) /\ Reaches(segs', root.seq, log)
        /\ \A f \in segs' : f <= wtxn.first
    BY RotatedStands
  <1>1. Directory'.segs = segs' /\ Directory'.cps = cps
    BY DEF Directory
  <1>2. Founded /\ Snapshot /\ Retaining /\ Reclaiming
    BY DEF KernelInv, Up
  <1>3. \A d \in leaves' : d \in leaves \/ d = Directory'
    BY DEF FsyncDir, NoDirSync
  <1>4. Directory \in leaves /\ Directory.segs = segs /\ Directory.cps = cps
    BY DEF KernelInv, OnDisk, Directory
  <1>5. OnDisk'
    <2>1. \A d \in leaves : Stands(d, log', seen', decayed')
      BY DEF KernelInv, OnDisk
    <2> QED
      BY <1>0, <2>1, DirectoryStands
  <1>6. Founded'
    <2>1. \A d \in leaves' : Reaches(d.segs, root.seq, log)
      BY <1>0, <1>1, <1>2, <1>3 DEF Founded
    <2>2. \A d \in leaves' : \A b \in d.cps : Good(b, decayed) => b.seq <= root.seq
      BY <1>1, <1>2, <1>3, <1>4 DEF Founded
    <2> QED
      BY <1>2, <2>1, <2>2 DEF Founded
  <1>7. Snapshot'
    <2>1. ASSUME cpc \in {"write", "sync"}, NEW d \in leaves'
          PROVE  Reaches(d.segs, csnap.seq, log)
      <3>1. CASE d \in leaves
        BY <1>2, <2>1, <3>1 DEF Snapshot
      <3>2. CASE d = Directory'
        <4>1. Reaches(segs, csnap.seq, log)
          BY <1>2, <1>4, <2>1 DEF Snapshot
        <4>2. csnap.seq \in Nat /\ segs' \in SUBSET Nat
          BY UnderWay DEF KernelInv, TypeOK, CkptTypeOK, Roots, Txns
        <4> QED
          BY <1>1, <3>2, <4>1, <4>2, UnderWay, ReachesOn
      <3> QED
        BY <1>3, <3>1, <3>2
    <2> QED
      BY <1>2, <2>1 DEF Snapshot
  <1>8. Retaining'
    BY <1>2 DEF Retaining
  <1>9. \A f \in Files(leaves', clist') : f <= wtxn.first
    <2>1. ASSUME NEW f \in Files(leaves', clist') PROVE f \in Files(leaves, clist) \/ f \in segs'
      BY <1>1, <1>3 DEF Files
    <2> QED
      BY <1>0, <2>1, UnderWay
  <1>10. Reclaiming'
    <2>1. CASE cpc = "reclaim"
      <3>0. wtxn.first \in Nat /\ \A f \in clist : f \in Nat /\ f <= wtxn.first
        BY UnderWay, FilesOf, <1>4 DEF Txns
      <3>1. /\ cps # {} /\ cfloor <= root.seq /\ \A b \in cps : cfloor <= b.seq
            /\ \A d \in leaves : d.cps = cps
            /\ InOrder(clist, log)
            /\ \A f \in clist \ segs, g \in clist \cap segs : f < g
            /\ \A f \in segs \ clist, g \in clist : g < f
        BY <1>2, <2>1 DEF Reclaiming
      <3>2. \A d \in leaves' : d.cps = cps
        BY <1>1, <1>3, <3>1
      <3>3. \A f \in clist \ segs', g \in clist \cap segs' : f < g
        BY <3>0, <3>1
      <3>4. \A f \in segs' \ clist, g \in clist : g < f
        BY <3>0, <3>1
      <3> QED
        BY <2>1, <3>1, <3>2, <3>3, <3>4 DEF Reclaiming
    <2>2. CASE cpc # "reclaim"
      BY <1>2, <2>2 DEF Reclaiming
    <2> QED
      BY <2>1, <2>2
  <1> QED
    BY <1>5, <1>6, <1>7, <1>8, <1>9, <1>10

LEMMA RotateFailKeeps ==
    ASSUME KernelInv, mode = "up", TxnRotateFail
    PROVE  KernelInv'
  <1>0. /\ wpc = "minted" /\ RotationDue /\ FailClean /\ segs' = segs \cup {wtxn.first}
        /\ NoDirSync /\ UNCHANGED <<log, tail, cps, decayed>>
        /\ UNCHANGED <<root, cpc, csnap, clist, cfloor, skipped, seen>>
    BY DEF TxnRotateFail, FailClean, ckpt
  <1>1. TypeOK'
    BY TxnTypeOK DEF KernelInv
  <1>2. /\ OnDisk' /\ Founded' /\ Snapshot' /\ Retaining' /\ Reclaiming'
        /\ \A f \in Files(leaves', clist') : f <= wtxn.first
    BY <1>0, RotatedKeeps
  <1>4. /\ OneHistory' /\ Serving' /\ Idling' /\ Writing' /\ Minted' /\ Barriered'
        /\ wpc' = "idle" /\ ~poisoned'
        /\ UNCHANGED <<mode, root, poisoned, writer, cpc, csnap, clist, cfloor, held,
                       skipped, seen, tries>>
    BY <1>0, <1>1, <1>2, FailCleanKeeps
  <1>5. Up
    BY DEF KernelInv
  <1>8. Tailed'
    BY <1>0, <1>4, <1>5, UnderWay DEF Up, Tailed
  <1>9. RotationDue' /\ Rotating'
    BY <1>0, <1>4 DEF Rotating, RotationDue
  <1> QED
    BY <1>1, <1>2, <1>4, <1>8, <1>9 DEF KernelInv, Up

LEMMA RotateKeeps ==
    ASSUME KernelInv, mode = "up", TxnRotate
    PROVE  KernelInv'
  <1>0. /\ wpc = "minted" /\ segs' = segs \cup {wtxn.first} /\ FsyncDir
        /\ writer' = [active |-> wtxn.first, chain |-> writer.chain]
        /\ wtxn' = [wtxn EXCEPT !.seg = wtxn.first] /\ wpc' = "rotated"
        /\ UNCHANGED <<log, tail, cps, decayed, mode, root, sequencer, poisoned, cpc, csnap,
                       clist, cfloor, held, skipped, seen, failed, cut, tries>>
    BY DEF TxnRotate, ckpt, ghosts, budget
  <1>1. TypeOK'
    BY TxnTypeOK DEF KernelInv
  <1>2. /\ OnDisk' /\ Founded' /\ Snapshot' /\ Retaining' /\ Reclaiming'
        /\ \A f \in Files(leaves', clist') : f <= wtxn.first
    BY <1>0, RotatedKeeps
  <1>3. Up
    BY DEF KernelInv
  <1>4. /\ wtxn'.first = wtxn.first /\ wtxn'.last = wtxn.last /\ wtxn'.link = wtxn.link
        /\ wtxn'.prev = wtxn.prev /\ wtxn'.seg = wtxn.first
    BY <1>0, UnderWay DEF Txns
  <1>5. OneHistory' /\ Serving'
    BY <1>0, <1>3 DEF KernelInv, OneHistory, Up, Serving
  <1>6. Tailed'
    BY <1>0, <1>3, UnderWay DEF Up, Tailed
  <1>7. Idling' /\ Barriered'
    BY <1>0 DEF Idling, Barriered
  <1>8. Writing'
    BY <1>0, <1>2, <1>4, UnderWay DEF Writing
  <1>9. Minted'
    <2>1. Placed(wtxn')
      BY <1>0, <1>4, UnderWay DEF Pending, Placed, Txns
    <2>2. Pending(wtxn', root, log, log \cup seen \cup failed, tries)
      BY <1>0, <1>4, <2>1, UnderWay DEF Pending
    <2> QED
      BY <1>0, <2>2, UnderWay DEF Minted
  <1>10. Rotating'
    <2>0. \A d \in leaves' : d.segs = segs'
      BY <1>0 DEF FsyncDir, Directory
    <2>1. Seated(wtxn.first, leaves', clist')
      BY <1>0, <1>2, <2>0 DEF Seated
    <2> QED
      BY <1>0, <2>1 DEF Rotating
  <1> QED
    BY <1>0, <1>1, <1>2, <1>5, <1>6, <1>7, <1>8, <1>9, <1>10 DEF KernelInv, Up

LEMMA AppendKeeps ==
    ASSUME KernelInv, mode = "up", TxnAppend
    PROVE  KernelInv'
  <1>0. /\ wpc \in {"minted", "rotated"} /\ (wpc = "minted" => ~RotationDue)
        /\ UNCHANGED <<log, segs, cps, leaves, decayed, mode, root, sequencer, poisoned,
                       writer, wtxn, cpc, csnap, clist, cfloor, held, skipped, seen,
                       failed, cut, tries>>
    BY DEF TxnAppend, ckpt, ghosts, budget
  <1>1. PICK whole \in BOOLEAN : /\ tail' = [txn |-> wtxn, whole |-> whole]
                                 /\ wpc' = IF whole THEN "appended" ELSE "repair"
    BY DEF TxnAppend
  <1>2. TypeOK'
    BY TxnTypeOK DEF KernelInv
  <1>3. Up
    BY DEF KernelInv
  <1>4. Seated(writer.active, leaves, clist)
    BY <1>0, <1>3, UnderWay DEF Up, Rotating
  <1>5. OneHistory' /\ Serving' /\ OnDisk'
    BY <1>0, <1>3 DEF KernelInv, OneHistory, OnDisk, Directory, Up, Serving
  <1>6. Founded' /\ Snapshot' /\ Retaining' /\ Reclaiming'
    BY <1>0, <1>3, CkptFrameKeeps DEF CkptFrame, ckpt, Up
  <1>7. wpc' \in {"appended", "repair"} /\ (tail'.whole => tail'.txn = wtxn)
    BY <1>1
  <1>8. Tailed'
    BY <1>0, <1>4, <1>7, UnderWay DEF Tailed
  <1>9. Idling' /\ Barriered' /\ Writing' /\ Minted'
    BY <1>0, <1>7, UnderWay DEF Idling, Barriered, Writing, Minted
  <1>10. Rotating'
    BY <1>0, <1>4, <1>7 DEF Rotating
  <1> QED
    BY <1>0, <1>2, <1>5, <1>6, <1>8, <1>9, <1>10 DEF KernelInv, Up

LEMMA BarrierFailKeeps ==
    ASSUME KernelInv, mode = "up", TxnBarrierFail
    PROVE  KernelInv'
  <1>0. /\ wpc = "appended" /\ wpc' = "repair"
        /\ UNCHANGED <<log, tail, segs, cps, leaves, decayed, mode, root, sequencer, poisoned,
                       writer, wtxn, cpc, csnap, clist, cfloor, held, skipped, seen,
                       failed, cut, tries>>
    BY DEF TxnBarrierFail, disk, ckpt, ghosts, budget
  <1>2. TypeOK'
    BY TxnTypeOK DEF KernelInv
  <1>3. Up
    BY DEF KernelInv
  <1>5. OneHistory' /\ Serving' /\ OnDisk'
    BY <1>0, <1>3 DEF KernelInv, OneHistory, OnDisk, Directory, Up, Serving
  <1>6. Founded' /\ Snapshot' /\ Retaining' /\ Reclaiming'
    BY <1>0, <1>3, CkptFrameKeeps DEF CkptFrame, ckpt, Up
  <1>8. Tailed'
    BY <1>0, <1>3 DEF Up, Tailed
  <1>9. Idling' /\ Barriered' /\ Writing' /\ Minted' /\ Rotating'
    BY <1>0, <1>3, UnderWay DEF Up, Idling, Barriered, Writing, Minted, Rotating
  <1> QED
    BY <1>0, <1>2, <1>5, <1>6, <1>8, <1>9 DEF KernelInv, Up

LEMMA PoisonKeeps ==
    ASSUME KernelInv, mode = "up", TxnPoison
    PROVE  KernelInv'
  <1>0. /\ wpc \in {"repair", "barriered"} /\ wpc' = "idle" /\ poisoned'
        /\ UNCHANGED <<log, tail, segs, cps, leaves, decayed, mode, root, sequencer,
                       writer, cpc, csnap, clist, cfloor, held, skipped, seen,
                       failed, cut, tries>>
    BY DEF TxnPoison, disk, ckpt, ghosts, budget
  <1>2. TypeOK'
    BY TxnTypeOK DEF KernelInv
  <1>3. Up
    BY DEF KernelInv
  <1>5. OneHistory' /\ Serving' /\ OnDisk'
    BY <1>0, <1>3 DEF KernelInv, OneHistory, OnDisk, Directory, Up, Serving
  <1>6. Founded' /\ Snapshot' /\ Retaining' /\ Reclaiming'
    BY <1>0, <1>3, CkptFrameKeeps DEF CkptFrame, ckpt, Up
  <1>8. Tailed'
    BY <1>0, <1>3 DEF Up, Tailed
  <1>9. Idling' /\ Barriered' /\ Writing' /\ Minted' /\ Rotating'
    BY <1>0 DEF Idling, Barriered, Writing, Minted, Rotating
  <1> QED
    BY <1>0, <1>2, <1>5, <1>6, <1>8, <1>9 DEF KernelInv, Up

\* A pending transaction in the last segment joins the log: the history and
\* every directory a crash may leave stand.
LEMMA ArrivesKeeps ==
    ASSUME KernelInv, mode = "up", NEW t \in Txns,
           Pending(t, root, log, log \cup seen \cup failed, tries),
           Seated(t.seg, leaves, clist)
    PROVE  /\ Linked((log \cup {t}) \cup seen, failed, tries)
           /\ Kept(log \cup {t}, seen, decayed) /\ t \notin log /\ t \notin failed
           /\ \A d \in leaves : Stands(d, log \cup {t}, seen, decayed)
  <1>0. /\ log \in SUBSET Txns /\ seen \in SUBSET Txns /\ failed \in SUBSET Txns
        /\ tries \in Nat /\ root \in Roots /\ leaves \in SUBSET Directories
    BY DEF KernelInv, TypeOK, DiskTypeOK, CommitTypeOK, GhostTypeOK
  <1>1. Linked(log \cup seen, failed, tries) /\ Kept(log, seen, decayed)
    BY DEF KernelInv, OneHistory
  <1>2. Serving /\ Founded
    BY DEF KernelInv, Up
  <1>3. Linked((log \cup {t}) \cup seen, failed, tries) /\ t \notin log /\ t \notin failed
    BY <1>0, <1>1, <1>2, LinkedArrives DEF Serving
  <1>4. Kept(log \cup {t}, seen, decayed)
    <2>1. \A u \in log : Placed(u)
      BY <1>1 DEF Linked
    <2> QED
      BY <1>0, <1>1, <1>2, <2>1, KeptArrives DEF Serving
  <1>5. ASSUME NEW d \in leaves PROVE Stands(d, log \cup {t}, seen, decayed)
    <2>1. d \in Directories /\ Stands(d, log, seen, decayed)
      BY <1>0 DEF KernelInv, OnDisk
    <2>2. t.seg \in d.segs /\ \A f \in d.segs : f <= t.seg
      BY FilesOf DEF Seated
    <2>3. ASSUME NEW b \in d.cps, Good(b, decayed) PROVE b.seq < t.last
      <3>1. b.seq <= root.seq
        BY <1>2, <2>3 DEF Founded
      <3>2. b.seq \in Nat /\ root.seq \in Nat
        BY <1>0, <2>1 DEF Directories, Bases, Roots
      <3> QED
        BY <3>1, <3>2 DEF Pending, Placed, Txns
    <2> QED
      BY <2>1, <2>2, <2>3, StandsGrown
  <1> QED
    BY <1>3, <1>4, <1>5

LEMMA BarrierKeeps ==
    ASSUME KernelInv, mode = "up", TxnBarrier
    PROVE  KernelInv'
  <1>0. /\ wpc = "appended" /\ wpc' = "barriered" /\ log' = log \cup {wtxn} /\ tail' = NoTail
        /\ writer' = [active |-> writer.active, chain |-> wtxn.link]
        /\ UNCHANGED <<segs, cps, leaves, decayed, mode, root, sequencer, poisoned, wtxn,
                       cpc, csnap, clist, cfloor, held, skipped, seen, failed, cut, tries>>
    BY DEF TxnBarrier, ckpt, ghosts, budget
  <1>1. TypeOK'
    BY TxnTypeOK DEF KernelInv
  <1>2. Up
    BY DEF KernelInv
  <1>3. Seated(wtxn.seg, leaves, clist)
    BY <1>0, <1>2, UnderWay DEF Up, Rotating
  <1>4. /\ Linked(log' \cup seen, failed, tries) /\ Kept(log', seen, decayed)
        /\ \A d \in leaves : Stands(d, log', seen, decayed)
    BY <1>0, <1>3, UnderWay, ArrivesKeeps
  <1>5. OneHistory' /\ OnDisk'
    BY <1>0, <1>4 DEF OneHistory, KernelInv, OnDisk, Directory
  <1>6. /\ root.seq < wtxn.last /\ wtxn.last \in Nat /\ root.seq < wtxn.first
        /\ \A u \in log : u.last <= root.seq
    BY <1>0, UnderWay DEF Pending, Placed, Settled, Txns
  <1>7. Serving'
    <2>1. Covers(root, log', decayed)
      BY <1>0, <1>2, <1>6, UnderWay DEF Up, Serving, Covers
    <2>2. Settled(log', sequencer.high_water)
      BY <1>0, <1>2, UnderWay DEF Up, Serving, Settled
    <2> QED
      BY <1>0, <1>2, <2>1, <2>2 DEF Up, Serving
  <1>8. \A d \in leaves : \A s : Reaches(d.segs, s, log) => Reaches(d.segs, s, log')
    BY <1>0, <1>3 DEF Reaches, Seated
  <1>9. Founded' /\ Retaining'
    BY <1>0, <1>2, <1>8 DEF Up, Founded, Retaining
  <1>10. Snapshot'
    <2>1. ASSUME cpc \in {"write", "sync"} PROVE Covers(csnap, log', decayed)
      <3>1. csnap.seq \in Nat /\ csnap.seq <= root.seq /\ Covers(csnap, log, decayed)
        BY <1>2, <2>1 DEF Up, Snapshot, KernelInv, TypeOK, CkptTypeOK, Roots
      <3> QED
        BY <1>0, <1>6, <3>1, UnderWay DEF Covers
    <2> QED
      BY <1>0, <1>2, <1>8, <2>1 DEF Up, Snapshot
  <1>11. Reclaiming'
    <2>1. ASSUME NEW f \in clist PROVE ~(wtxn.seg < f)
      <3>1. f <= wtxn.seg
        BY <1>3 DEF Seated, Files
      <3> QED
        BY <1>0, <2>1, <3>1, UnderWay DEF Txns
    <2>2. InOrder(clist, log) => InOrder(clist, log')
      BY <1>0, <2>1 DEF InOrder
    <2> QED
      BY <1>0, <1>2, <2>2 DEF Up, Reclaiming
  <1>12. Tailed'
    BY <1>0 DEF Tailed, NoTail
  <1>13. Idling' /\ Minted' /\ Writing'
    BY <1>0, UnderWay DEF Idling, Minted, Writing
  <1>14. Barriered'
    <2>1. wtxn.prev = root.chain
      BY <1>0, UnderWay DEF Pending
    <2> QED
      BY <1>0, <1>6, <2>1 DEF Barriered, NoTail
  <1>15. Rotating'
    BY <1>0, <1>3, UnderWay DEF Rotating
  <1> QED
    BY <1>0, <1>1, <1>5, <1>7, <1>9, <1>10, <1>11, <1>12, <1>13, <1>14, <1>15
       DEF KernelInv, Up

LEMMA InstallKeeps ==
    ASSUME KernelInv, mode = "up", TxnInstall
    PROVE  KernelInv'
  <1>0. /\ wpc = "barriered" /\ wpc' = "idle" /\ seen' = seen \cup {wtxn}
        /\ root' = [seq |-> wtxn.last, world |-> root.world \cup {wtxn}, chain |-> writer.chain]
        /\ UNCHANGED <<log, tail, segs, cps, leaves, decayed, mode, sequencer, poisoned, writer,
                       cpc, csnap, clist, cfloor, held, skipped, failed, cut, tries>>
    BY DEF TxnInstall, disk, ckpt, budget
  <1>1. TypeOK'
    BY TxnTypeOK DEF KernelInv
  <1>2. Up
    BY DEF KernelInv
  <1>3. /\ wtxn \in log /\ writer.chain = wtxn.link /\ ~tail.whole /\ ~poisoned
        /\ root.seq < wtxn.first /\ wtxn.prev = root.chain
        /\ \A u \in log : u = wtxn \/ u.last <= root.seq
        /\ wtxn.seg = writer.active /\ wtxn.last = sequencer.high_water
        /\ \A f \in Files(leaves, clist) : f <= wtxn.first
        /\ Seated(writer.active, leaves, clist)
    BY <1>0, <1>2 DEF Up, Barriered, Writing, Rotating
  <1>4. /\ wtxn \in Txns /\ root \in Roots /\ log \in SUBSET Txns /\ root.seq \in Nat
        /\ seen \in SUBSET Txns /\ csnap.seq \in Nat /\ leaves \in SUBSET Directories
        /\ clist \in SUBSET Nat /\ segs \in SUBSET Nat /\ cps \in SUBSET Bases
    BY DEF KernelInv, TypeOK, DiskTypeOK, CommitTypeOK, CkptTypeOK, GhostTypeOK, Roots
  <1>5. Linked(log \cup seen, failed, tries) /\ Kept(log, seen, decayed)
    BY DEF KernelInv, OneHistory
  <1>6. Placed(wtxn)
    BY <1>3, <1>5 DEF Linked
  <1>7. OneHistory'
    <2>1. log \cup seen' = log \cup seen
      BY <1>0, <1>3
    <2>2. Kept(log, seen', decayed)
      BY <1>0, <1>3, <1>5 DEF Kept
    <2> QED
      BY <1>0, <1>5, <2>1, <2>2 DEF OneHistory
  <1>8. OnDisk'
    <2>1. \A d \in leaves : Stands(d, log, seen', decayed)
      BY <1>0, StandsOn DEF KernelInv, OnDisk
    <2> QED
      BY <1>0, <2>1 DEF KernelInv, OnDisk, Directory
  <1>9. /\ root.seq <= wtxn.last /\ wtxn.last \in Nat /\ wtxn.first \in Nat
        /\ wtxn.first <= wtxn.last
    BY <1>3, <1>4, <1>6 DEF Placed, Txns
  <1>10. Serving'
    <2>1. Whole(root, seen)
      BY <1>2 DEF Up, Serving
    <2>2. Linear(root'.world) /\ Headed(root')
      BY <1>0, <1>3, <1>4, <1>9, <2>1, LinearExtend DEF Whole
    <2>3. Whole(root', seen')
      BY <1>0, <2>1, <2>2 DEF Whole
    <2>4. Covers(root', log, decayed)
      BY <1>0, <1>2, <1>3 DEF Up, Serving, Covers
    <2>5. \A t \in seen' : t \in root'.world \/ Lost(t, decayed)
      BY <1>0, <1>2 DEF Up, Serving
    <2>6. root'.seq <= sequencer.high_water
      BY <1>0, <1>3, <1>9
    <2> QED
      BY <1>0, <1>2, <2>3, <2>4, <2>5, <2>6 DEF Up, Serving
  <1>11. Founded'
    <2>1. \A d \in leaves : Reaches(d.segs, wtxn.last, log)
      BY <1>2, <1>4, <1>9, ReachesOn DEF Up, Founded, Directories
    <2>2. ASSUME NEW d \in leaves, NEW b \in d.cps, Good(b, decayed) PROVE b.seq <= wtxn.last
      <3>1. b.seq <= root.seq /\ b.seq \in Nat
        BY <1>2, <1>4, <2>2 DEF Up, Founded, Directories, Bases
      <3> QED
        BY <1>4, <1>9, <3>1
    <2>3. \A b \in cps : b.seq \in skipped \/ b.seq <= wtxn.last
      BY <1>2, <1>4, <1>9 DEF Up, Founded, Bases
    <2> QED
      BY <1>0, <2>1, <2>2, <2>3 DEF Founded
  <1>12. Idling'
    <2>1. \A f \in Files(leaves, clist) : f <= sequencer.high_water + 1
      <3>1. Files(leaves, clist) \subseteq Nat
        BY <1>4, FilesType
      <3> QED
        BY <1>3, <1>9, <3>1
    <2>2. Settled(log, wtxn.last)
      BY <1>3, <1>4, <1>9 DEF Settled, Txns
    <2>3. writer.active <= sequencer.high_water + 1
      BY <1>3, <1>4, <1>6 DEF Placed, Txns
    <2> QED
      BY <1>0, <1>3, <2>1, <2>2, <2>3 DEF Idling
  <1>13. Tailed' /\ Writing' /\ Minted' /\ Barriered' /\ Rotating'
    BY <1>0, <1>3 DEF Tailed, Writing, Minted, Barriered, Rotating
  <1>14. Snapshot'
    <2>1. cpc \in {"write", "sync"} => csnap.seq <= wtxn.last /\ Whole(csnap, seen')
      BY <1>0, <1>2, <1>4, <1>9 DEF Up, Snapshot, Whole
    <2> QED
      BY <1>0, <1>2, <2>1 DEF Up, Snapshot
  <1>15. Retaining'
    BY <1>0, <1>2 DEF Up, Retaining
  <1>16. Reclaiming'
    <2>1. cpc = "reclaim" => cfloor <= wtxn.last
      BY <1>2, <1>4, <1>9 DEF Up, Reclaiming, KernelInv, TypeOK, CkptTypeOK
    <2> QED
      BY <1>0, <1>2, <2>1 DEF Up, Reclaiming
  <1> QED
    BY <1>0, <1>1, <1>7, <1>8, <1>10, <1>11, <1>12, <1>13, <1>14, <1>15, <1>16
       DEF KernelInv, Up

-----------------------------------------------------------------------------
(* A checkpoint beside the commit path keeps the invariant *)

\* What a checkpoint leaves alone, while it lists no new file and leaves no
\* directory without the segment appended to.
LEMMA CommitFrameKeeps ==
    ASSUME KernelInv, mode = "up",
           UNCHANGED <<log, tail, decayed, mode, commits, ghosts, budget>>,
           Files(leaves', clist') \subseteq Files(leaves, clist),
           \A seg : Seated(seg, leaves, clist) => \A d \in leaves' : seg \in d.segs
    PROVE  /\ OneHistory' /\ Serving' /\ Tailed' /\ Idling' /\ Writing' /\ Minted'
           /\ Barriered' /\ Rotating'
           /\ UNCHANGED <<mode, root, seen>>
  <1>0. UNCHANGED <<log, tail, decayed, mode, root, sequencer, poisoned, writer, wpc, wtxn,
                    seen, failed, cut, tries>>
    BY DEF commits, ghosts, budget
  <1>1. Up
    BY DEF KernelInv
  <1>2. \A seg : Seated(seg, leaves, clist) => Seated(seg, leaves', clist')
    BY DEF Seated
  <1>3. OneHistory' /\ Serving' /\ Minted' /\ Barriered'
    BY <1>0, <1>1 DEF KernelInv, OneHistory, Up, Serving, Minted, Barriered
  <1>4. Tailed'
    BY <1>0, <1>1, <1>2 DEF Up, Tailed
  <1>5. Idling' /\ Writing'
    BY <1>0, <1>1 DEF Up, Idling, Writing
  <1>6. (RotationDue <=> RotationDue') /\ Rotating'
    BY <1>0, <1>1, <1>2 DEF Up, Rotating, RotationDue
  <1> QED
    BY <1>0, <1>3, <1>4, <1>5, <1>6

\* A directory change that touches no segment.
LEMMA SameSegments ==
    ASSUME KernelInv, mode = "up", segs' = segs, FsyncDir \/ NoDirSync,
           clist' \subseteq clist \cup segs
    PROVE  /\ \A d \in leaves' : d \in leaves \/ (d = Directory' /\ d.segs = segs /\ d.cps = cps')
           /\ Files(leaves', clist') \subseteq Files(leaves, clist)
           /\ \A seg : Seated(seg, leaves, clist) => \A d \in leaves' : seg \in d.segs
  <1>1. \A d \in leaves' : d \in leaves \/ (d = Directory' /\ d.segs = segs /\ d.cps = cps')
    BY DEF FsyncDir, NoDirSync, Directory
  <1>2. Directory \in leaves /\ Directory.segs = segs
    BY DEF KernelInv, OnDisk, Directory
  <1>3. Files(leaves', clist') \subseteq Files(leaves, clist)
    BY <1>1, <1>2 DEF Files
  <1>4. \A seg : Seated(seg, leaves, clist) => \A d \in leaves' : seg \in d.segs
    BY <1>1, <1>2 DEF Seated
  <1> QED
    BY <1>1, <1>3, <1>4

\* A step that changes no file keeps what stands on the directory.
LEMMA SameFilesKeep ==
    ASSUME KernelInv, mode = "up", UNCHANGED <<log, segs, cps, decayed, root, seen>>,
           FsyncDir \/ NoDirSync \/ leaves' = leaves
    PROVE  /\ OnDisk' /\ leaves' \subseteq leaves
           /\ \A d \in leaves' : Reaches(d.segs, root.seq, log)
           /\ \A d \in leaves' : \A b \in d.cps : Good(b, decayed) => b.seq <= root.seq
  <1>1. Directory' = Directory /\ Directory \in leaves
    BY DEF KernelInv, OnDisk, Directory
  <1>2. leaves' \subseteq leaves /\ Directory' \in leaves'
    BY <1>1 DEF FsyncDir, NoDirSync
  <1>3. OnDisk'
    BY <1>1, <1>2 DEF KernelInv, OnDisk
  <1>4. Founded
    BY DEF KernelInv, Up
  <1> QED
    BY <1>2, <1>3, <1>4 DEF Founded

LEMMA StartKeeps ==
    ASSUME KernelInv, mode = "up", CkptStart
    PROVE  KernelInv'
  <1>0. /\ cpc = "idle" /\ cpc' = "write" /\ csnap' = root
        /\ UNCHANGED <<log, tail, segs, cps, leaves, decayed, mode, commits, clist, cfloor,
                       held, skipped, ghosts, budget>>
    BY DEF CkptStart, disk
  <1>1. TypeOK'
    BY CkptStepTypeOK DEF KernelInv
  <1>2. Up
    BY DEF KernelInv
  <1>3. /\ OneHistory' /\ Serving' /\ Tailed' /\ Idling' /\ Writing' /\ Minted'
        /\ Barriered' /\ Rotating' /\ UNCHANGED <<mode, root, seen>>
    <2>1. \A seg : Seated(seg, leaves, clist) => \A d \in leaves' : seg \in d.segs
      BY <1>0 DEF Seated
    <2> QED
      BY <1>0, <2>1, CommitFrameKeeps
  <1>4. OnDisk'
    BY <1>0, <1>3, SameFilesKeep
  <1>5. Founded'
    BY <1>0, <1>2, <1>3 DEF Up, Founded
  <1>6. Snapshot'
    <2>1. root.seq <= root.seq
      BY DEF KernelInv, TypeOK, CommitTypeOK, Roots
    <2> QED
      BY <1>0, <1>2, <1>3, <2>1 DEF Up, Serving, Founded, Snapshot
  <1>7. Retaining' /\ Reclaiming'
    BY <1>0, <1>2 DEF Up, Retaining, Reclaiming
  <1> QED
    BY <1>1, <1>3, <1>4, <1>5, <1>6, <1>7 DEF KernelInv, Up

LEMMA RenameKeeps ==
    ASSUME KernelInv, mode = "up", CkptRename
    PROVE  KernelInv'
  <1> DEFINE new == [seq |-> csnap.seq, world |-> csnap.world,
                     chain |-> csnap.chain, loads |-> TRUE]
  <1>0. /\ cpc = "write" /\ cpc' = "sync" /\ NoDirSync
        /\ cps' = {cp \in cps : cp.seq # csnap.seq} \cup {new}
        /\ UNCHANGED <<log, tail, segs, decayed, mode, commits, csnap, clist,
                       cfloor, held, skipped, ghosts, budget>>
    BY DEF CkptRename
  <1>1. TypeOK'
    BY CkptStepTypeOK DEF KernelInv
  <1>2. Up /\ Snapshot /\ Founded
    BY DEF KernelInv, Up
  <1>d. /\ \A d \in leaves' : d \in leaves \/ (d = Directory' /\ d.segs = segs /\ d.cps = cps')
        /\ Files(leaves', clist') \subseteq Files(leaves, clist)
        /\ \A seg : Seated(seg, leaves, clist) => \A d \in leaves' : seg \in d.segs
    BY <1>0, SameSegments
  <1>3. /\ OneHistory' /\ Serving' /\ Tailed' /\ Idling' /\ Writing' /\ Minted'
        /\ Barriered' /\ Rotating' /\ UNCHANGED <<mode, root, seen>>
    BY <1>0, <1>d, CommitFrameKeeps
  <1>4. /\ Whole(new, seen) /\ Covers(new, log, decayed) /\ new.seq = csnap.seq
        /\ csnap.seq <= root.seq
    BY <1>0, <1>2 DEF Snapshot, Whole, Headed, Covers
  <1>5. Stands(Directory, log, seen, decayed) /\ Directory \in leaves
        /\ Directory.segs = segs /\ Directory.cps = cps
    BY DEF KernelInv, OnDisk, Directory
  <1>6. Reaches(segs, csnap.seq, log)
    BY <1>0, <1>2, <1>5 DEF Snapshot
  <1> HIDE DEF new
  <1>7. Stands(Directory', log, seen, decayed)
    <2>1. Directory'.segs = segs /\ Directory'.cps = cps'
      BY <1>0 DEF Directory
    <2>2. ASSUME NEW b \in cps'
          PROVE  /\ Whole(b, seen) /\ Reaches(segs, b.seq, log)
                 /\ Good(b, decayed) => Covers(b, log, decayed)
      BY <1>0, <1>4, <1>5, <1>6 DEF Stands
    <2>3. cps' # {}
      BY <1>0
    <2> QED
      BY <1>5, <2>1, <2>2, <2>3 DEF Stands
  <1>8. OnDisk'
    <2>1. \A d \in leaves : Stands(d, log', seen', decayed')
      BY <1>0, <1>3 DEF KernelInv, OnDisk
    <2> QED
      BY <1>0, <1>3, <1>7, <2>1, DirectoryStands
  <1>9. Founded'
    <2>1. \A b \in cps' : Good(b, decayed) => b.seq <= root.seq
      BY <1>0, <1>2, <1>4, <1>5 DEF Founded
    <2>2. \A b \in cps' : b.seq \in skipped \/ b.seq <= root.seq
      BY <1>0, <1>2, <1>4 DEF Founded
    <2>3. \A d \in leaves' : Reaches(d.segs, root.seq, log)
      BY <1>2, <1>5, <1>d DEF Founded
    <2>4. \A d \in leaves' : \A b \in d.cps : Good(b, decayed) => b.seq <= root.seq
      BY <1>2, <1>d, <2>1 DEF Founded
    <2> QED
      BY <1>0, <1>3, <2>2, <2>3, <2>4 DEF Founded
  <1>10. Snapshot'
    <2>1. \A d \in leaves' : Reaches(d.segs, csnap.seq, log)
      BY <1>0, <1>2, <1>6, <1>d DEF Snapshot
    <2> QED
      BY <1>0, <1>2, <1>3, <2>1 DEF Snapshot
  <1>11. Retaining'
    BY <1>0, <1>4 DEF Retaining
  <1>12. Reclaiming'
    BY <1>0, <1>2 DEF Up, Reclaiming
  <1> QED
    BY <1>1, <1>3, <1>8, <1>9, <1>10, <1>11, <1>12 DEF KernelInv, Up

LEMMA SyncKeeps ==
    ASSUME KernelInv, mode = "up", CkptSync
    PROVE  KernelInv'
  <1>0. /\ cpc = "sync" /\ (FsyncDir \/ NoDirSync)
        /\ UNCHANGED <<log, tail, segs, cps, decayed, mode, commits, clist, cfloor, ghosts, budget>>
        /\ \/ cpc' = "retain" /\ skipped' = skipped \ {csnap.seq}
           \/ cpc' = "idle" /\ skipped' = skipped
    BY DEF CkptSync
  <1>1. TypeOK'
    BY CkptStepTypeOK DEF KernelInv
  <1>2. Up /\ Snapshot /\ Founded /\ Retaining
    BY DEF KernelInv, Up
  <1>d. /\ Files(leaves', clist') \subseteq Files(leaves, clist)
        /\ \A seg : Seated(seg, leaves, clist) => \A d \in leaves' : seg \in d.segs
    BY <1>0, SameSegments
  <1>3. /\ OneHistory' /\ Serving' /\ Tailed' /\ Idling' /\ Writing' /\ Minted'
        /\ Barriered' /\ Rotating' /\ UNCHANGED <<mode, root, seen>>
    BY <1>0, <1>d, CommitFrameKeeps
  <1>4. /\ OnDisk' /\ leaves' \subseteq leaves
        /\ \A d \in leaves' : Reaches(d.segs, root.seq, log)
        /\ \A d \in leaves' : \A b \in d.cps : Good(b, decayed) => b.seq <= root.seq
    BY <1>0, <1>3, SameFilesKeep
  <1>5. \A b \in cps : b.seq \in skipped' \/ b.seq <= root.seq
    BY <1>0, <1>2 DEF Founded, Snapshot
  <1>6. Founded'
    BY <1>0, <1>3, <1>4, <1>5 DEF Founded
  <1>7. Snapshot' /\ Reclaiming' /\ Retaining'
    BY <1>0, <1>2 DEF Up, Snapshot, Reclaiming, Retaining
  <1> QED
    BY <1>1, <1>3, <1>4, <1>6, <1>7 DEF KernelInv, Up

LEMMA UnlinkKeeps ==
    ASSUME KernelInv, mode = "up", CkptUnlink
    PROVE  KernelInv'
  <1>0. /\ cpc = "retain" /\ NoDirSync
        /\ UNCHANGED <<log, tail, segs, decayed, mode, commits, cpc, csnap, clist,
                       cfloor, held, skipped, ghosts, budget>>
    BY DEF CkptUnlink, ckpt
  <1>1. PICK cp \in Excess : cps' = cps \ {cp}
    BY DEF CkptUnlink
  <1>t. TypeOK'
    BY CkptStepTypeOK DEF KernelInv
  <1>2. Up /\ Founded /\ Retaining
    BY DEF KernelInv, Up
  <1>d. /\ \A d \in leaves' : d \in leaves \/ (d = Directory' /\ d.segs = segs /\ d.cps = cps')
        /\ Files(leaves', clist') \subseteq Files(leaves, clist)
        /\ \A seg : Seated(seg, leaves, clist) => \A d \in leaves' : seg \in d.segs
    BY <1>0, SameSegments
  <1>3. /\ OneHistory' /\ Serving' /\ Tailed' /\ Idling' /\ Writing' /\ Minted'
        /\ Barriered' /\ Rotating' /\ UNCHANGED <<mode, root, seen>>
    BY <1>0, <1>d, CommitFrameKeeps
  <1>4. \E c \in cps' : c.seq \notin skipped
    <2>1. CASE cp.seq \in skipped
      BY <1>0, <1>1, <1>2, <2>1 DEF Retaining
    <2>2. CASE cp.seq \notin skipped
      <3> DEFINE newer == {c \in {c \in cps : c.seq \notin skipped} : cp.seq < c.seq}
      <3>1. Cardinality(newer) >= RetainCheckpoints /\ cp \in cps
        BY <2>2 DEF Excess
      <3>2. newer # {}
        BY <3>1, FS_EmptySet, KernelConstants
      <3>3. PICK c \in cps : c.seq \notin skipped /\ cp.seq < c.seq
        BY <3>2
      <3>4. c # cp
        BY <3>1, <3>3 DEF KernelInv, TypeOK, DiskTypeOK, Bases
      <3> QED
        BY <1>1, <3>3, <3>4
    <2> QED
      BY <2>1, <2>2
  <1>5. Stands(Directory, log, seen, decayed) /\ Directory \in leaves
        /\ Directory.segs = segs /\ Directory.cps = cps
    BY DEF KernelInv, OnDisk, Directory
  <1>6. Stands(Directory', log, seen, decayed)
    <2>1. Directory'.segs = segs /\ Directory'.cps = cps' /\ cps' \subseteq cps /\ cps' # {}
      BY <1>0, <1>1, <1>4 DEF Directory
    <2> QED
      BY <1>5, <2>1 DEF Stands
  <1>7. OnDisk'
    <2>1. \A d \in leaves : Stands(d, log', seen', decayed')
      BY <1>0, <1>3 DEF KernelInv, OnDisk
    <2> QED
      BY <1>0, <1>3, <1>6, <2>1, DirectoryStands
  <1>8. Founded'
    <2>1. \A d \in leaves' : Reaches(d.segs, root.seq, log)
      BY <1>2, <1>5, <1>d DEF Founded
    <2>2. \A d \in leaves' : \A b \in d.cps : Good(b, decayed) => b.seq <= root.seq
      BY <1>1, <1>2, <1>5, <1>d DEF Founded
    <2> QED
      BY <1>0, <1>1, <1>2, <1>3, <2>1, <2>2 DEF Founded
  <1>9. Snapshot' /\ Retaining' /\ Reclaiming'
    BY <1>0, <1>2, <1>4 DEF Up, Snapshot, Retaining, Reclaiming
  <1> QED
    BY <1>t, <1>3, <1>7, <1>8, <1>9 DEF KernelInv, Up

LEMMA RetainedKeeps ==
    ASSUME KernelInv, mode = "up", CkptRetained
    PROVE  KernelInv'
  <1>0. /\ cpc = "retain" /\ Excess = {} /\ FsyncDir /\ skipped' = {}
        /\ UNCHANGED <<log, tail, segs, cps, decayed, mode, commits, ghosts, budget>>
        /\ \/ cpc' = "reclaim" /\ clist' = segs
           \/ cpc' = "idle" /\ clist' = {}
    BY DEF CkptRetained
  <1>1. (\E cp \in cps : cp.seq = cfloor') /\ \A cp \in cps : cfloor' <= cp.seq
    BY DEF CkptRetained, RetentionFloor
  <1>t. TypeOK'
    BY CkptStepTypeOK DEF KernelInv
  <1>2. Up /\ Founded /\ Reclaiming
    BY DEF KernelInv, Up
  <1>d. /\ Files(leaves', clist') \subseteq Files(leaves, clist)
        /\ \A seg : Seated(seg, leaves, clist) => \A d \in leaves' : seg \in d.segs
    <2>1. clist' \subseteq clist \cup segs
      BY <1>0
    <2> QED
      BY <1>0, <2>1, SameSegments
  <1>3. /\ OneHistory' /\ Serving' /\ Tailed' /\ Idling' /\ Writing' /\ Minted'
        /\ Barriered' /\ Rotating' /\ UNCHANGED <<mode, root, seen>>
    BY <1>0, <1>d, CommitFrameKeeps
  <1>4. /\ OnDisk' /\ leaves' \subseteq leaves
        /\ \A d \in leaves' : Reaches(d.segs, root.seq, log)
        /\ \A d \in leaves' : \A b \in d.cps : Good(b, decayed) => b.seq <= root.seq
    BY <1>0, <1>3, SameFilesKeep
  <1>5. \A b \in cps : b.seq <= root.seq
    BY <1>0, <1>2 DEF Founded, Excess
  <1>6. Founded'
    BY <1>0, <1>3, <1>4, <1>5 DEF Founded
  <1>7. Snapshot' /\ Retaining'
    BY <1>0 DEF Snapshot, Retaining
  <1>8. Reclaiming'
    <2>1. CASE cpc' = "idle"
      BY <1>0, <2>1 DEF Reclaiming
    <2>2. CASE cpc' = "reclaim"
      <3>1. \A d \in leaves' : d.cps = cps
        BY <1>0 DEF FsyncDir, Directory
      <3>2. InOrder(segs, log) /\ clist' = segs
        BY <1>0, <2>2, Standing DEF Stands, Directory
      <3> QED
        BY <1>0, <1>1, <1>3, <1>5, <2>2, <3>1, <3>2 DEF Reclaiming
    <2> QED
      BY <1>0, <2>1, <2>2
  <1> QED
    BY <1>t, <1>3, <1>4, <1>6, <1>7, <1>8 DEF KernelInv, Up

LEMMA ReclaimKeeps ==
    ASSUME KernelInv, mode = "up", CkptReclaim
    PROVE  KernelInv'
  <1>0. /\ cpc = "reclaim" /\ NoDirSync
        /\ UNCHANGED <<log, tail, cps, decayed, mode, commits, cpc, csnap, clist,
                       cfloor, held, skipped, ghosts, budget>>
    BY DEF CkptReclaim, ckpt
  <1>1. PICK seg \in clist \cap segs : /\ \A f \in clist \cap segs : seg <= f
                                       /\ EndsAtOrBelow(clist, seg, cfloor)
                                       /\ segs' = segs \ {seg}
    BY DEF CkptReclaim
  <1>t. TypeOK'
    BY CkptStepTypeOK DEF KernelInv
  <1>2. Up /\ Founded /\ Reclaiming
    BY DEF KernelInv, Up
  <1>3. PICK next \in clist : seg < next /\ next - 1 <= cfloor
    BY <1>1 DEF EndsAtOrBelow
  <1>4. /\ segs \in SUBSET Nat /\ clist \in SUBSET Nat /\ cfloor \in Nat /\ root.seq \in Nat
        /\ log \in SUBSET Txns /\ cps \in SUBSET Bases
    BY DEF KernelInv, TypeOK, DiskTypeOK, CommitTypeOK, CkptTypeOK, Roots
  <1>5. /\ cps # {} /\ cfloor <= root.seq /\ \A b \in cps : cfloor <= b.seq
        /\ \A d \in leaves : d.cps = cps
        /\ InOrder(clist, log)
        /\ \A f \in clist \ segs, g \in clist \cap segs : f < g
        /\ \A f \in segs \ clist, g \in clist : g < f
    BY <1>0, <1>2 DEF Reclaiming
  <1>6. next \in segs' /\ next \in segs
    BY <1>1, <1>3, <1>4, <1>5
  <1>7. \A f \in segs' : seg < f
    BY <1>1, <1>4, <1>5
  <1>8. Stands(Directory, log, seen, decayed) /\ Directory \in leaves
        /\ Directory.segs = segs /\ Directory.cps = cps
        /\ Directory'.segs = segs' /\ Directory'.cps = cps
    BY <1>0 DEF KernelInv, OnDisk, Directory
  <1>9. \A t \in log : t.seg = seg => t.last <= cfloor
    BY <1>3, <1>4, <1>5 DEF InOrder, Txns
  <1>10. ASSUME NEW s \in Nat, cfloor <= s, Reaches(segs, s, log) PROVE Reaches(segs', s, log)
    <2>1. \A t \in log : t.seg \in segs' \/ t.last <= s
      BY <1>1, <1>4, <1>9, <1>10 DEF Reaches, Txns
    <2>2. next <= s + 1
      BY <1>3, <1>4, <1>10
    <2> QED
      BY <1>6, <2>1, <2>2 DEF Reaches
  <1>11. Stands(Directory', log, seen, decayed)
    <2>1. InOrder(segs', log) /\ \A f \in segs' : 1 <= f /\ f <= Ceiling + 1
      BY <1>1, <1>8 DEF Stands, InOrder
    <2>2. 1 <= seg
      BY <1>1, <1>8 DEF Stands
    <2>3. ~ReachesGenesis(segs')
      BY <1>4, <1>6, <1>7, <2>2 DEF ReachesGenesis
    <2>4. \A b \in cps : Reaches(segs', b.seq, log)
      BY <1>4, <1>5, <1>8, <1>10 DEF Stands, Bases
    <2> QED
      BY <1>5, <1>8, <2>1, <2>3, <2>4 DEF Stands
  <1>12. \A d \in leaves' : d \in leaves \/ d = Directory'
    BY <1>0 DEF NoDirSync
  <1>13. Files(leaves', clist') \subseteq Files(leaves, clist)
    BY <1>0, <1>1, <1>8, <1>12 DEF Files
  <1>14. ASSUME NEW g, Seated(g, leaves, clist), NEW d \in leaves' PROVE g \in d.segs
    <2>1. g \in segs /\ next <= g
      BY <1>8, <1>14, <1>3 DEF Seated, Files
    <2>2. g \in segs'
      BY <1>1, <1>3, <1>4, <2>1
    <2> QED
      BY <1>8, <1>12, <1>14, <2>2 DEF Seated
  <1>15. /\ OneHistory' /\ Serving' /\ Tailed' /\ Idling' /\ Writing' /\ Minted'
         /\ Barriered' /\ Rotating' /\ UNCHANGED <<mode, root, seen>>
    BY <1>0, <1>13, <1>14, CommitFrameKeeps
  <1>16. OnDisk'
    <2>1. \A d \in leaves : Stands(d, log', seen', decayed')
      BY <1>0, <1>15 DEF KernelInv, OnDisk
    <2> QED
      BY <1>0, <1>11, <1>15, <2>1, DirectoryStands
  <1>17. Founded'
    <2>1. Reaches(segs', root.seq, log)
      BY <1>2, <1>4, <1>5, <1>8, <1>10 DEF Founded
    <2>2. \A d \in leaves' : Reaches(d.segs, root.seq, log)
      BY <1>2, <1>8, <1>12, <2>1 DEF Founded
    <2>3. \A d \in leaves' : \A b \in d.cps : Good(b, decayed) => b.seq <= root.seq
      BY <1>2, <1>8, <1>12 DEF Founded
    <2> QED
      BY <1>0, <1>2, <1>15, <2>2, <2>3 DEF Founded
  <1>18. Snapshot' /\ Retaining'
    BY <1>0 DEF Snapshot, Retaining
  <1>19. Reclaiming'
    <2>1. \A d \in leaves' : d.cps = cps
      BY <1>5, <1>8, <1>12
    <2>2. \A f \in clist \ segs', g \in clist \cap segs' : f < g
      BY <1>1, <1>5, <1>7
    <2>3. \A f \in segs' \ clist, g \in clist : g < f
      BY <1>1, <1>5
    <2> QED
      BY <1>0, <1>5, <1>15, <2>1, <2>2, <2>3 DEF Reclaiming
  <1> QED
    BY <1>t, <1>15, <1>16, <1>17, <1>18, <1>19 DEF KernelInv, Up

LEMMA FinishKeeps ==
    ASSUME KernelInv, mode = "up", CkptDone \/ CkptFail
    PROVE  KernelInv'
  <1>0. /\ cpc' = "idle" /\ clist' = {} /\ (FsyncDir \/ leaves' = leaves)
        /\ UNCHANGED <<log, tail, segs, cps, decayed, mode, commits, skipped, ghosts, budget>>
    BY DEF CkptDone, CkptFail, disk
  <1>t. TypeOK'
    BY CkptStepTypeOK DEF KernelInv
  <1>2. Founded
    BY DEF KernelInv, Up
  <1>3. UNCHANGED <<root, seen>>
    BY <1>0 DEF commits, ghosts
  <1>4. /\ OnDisk' /\ leaves' \subseteq leaves
        /\ \A d \in leaves' : Reaches(d.segs, root.seq, log)
        /\ \A d \in leaves' : \A b \in d.cps : Good(b, decayed) => b.seq <= root.seq
    BY <1>0, <1>3, SameFilesKeep
  <1>5. /\ OneHistory' /\ Serving' /\ Tailed' /\ Idling' /\ Writing' /\ Minted'
        /\ Barriered' /\ Rotating' /\ UNCHANGED <<mode, root, seen>>
    <2>1. Files(leaves', clist') \subseteq Files(leaves, clist)
      BY <1>0, <1>4 DEF Files
    <2>2. \A seg : Seated(seg, leaves, clist) => \A d \in leaves' : seg \in d.segs
      BY <1>4 DEF Seated
    <2> QED
      BY <1>0, <2>1, <2>2, CommitFrameKeeps
  <1>6. Founded'
    BY <1>0, <1>2, <1>3, <1>4 DEF Founded
  <1>7. Snapshot' /\ Retaining' /\ Reclaiming'
    BY <1>0 DEF Snapshot, Retaining, Reclaiming
  <1> QED
    BY <1>t, <1>4, <1>5, <1>6, <1>7 DEF KernelInv, Up

-----------------------------------------------------------------------------
(* Stops, decay and opens keep the invariant *)

LEMMA CrashKeeps ==
    ASSUME KernelInv, Crash
    PROVE  KernelInv'
  <1>0. /\ mode = "up" /\ mode' = "down" /\ FsyncDir /\ tail' = NoTail
        /\ UNCHANGED <<decayed, seen, failed, tries>>
        /\ log' = log \/ (tail.whole /\ log' = log \cup {tail.txn})
        /\ root' = Genesis /\ wpc' = "idle" /\ cpc' = "idle" /\ clist' = {}
    BY DEF Crash, Down
  <1>1. PICK left \in leaves : segs' = left.segs /\ cps' = left.cps
    BY DEF Crash
  <1>2. TypeOK'
    BY StopTypeOK DEF KernelInv
  <1>3. Up /\ Tailed
    BY <1>0 DEF KernelInv, Up
  <1>4. /\ Linked(log' \cup seen, failed, tries) /\ Kept(log', seen, decayed)
        /\ \A d \in leaves : Stands(d, log', seen, decayed)
    <2>1. CASE log' = log
      BY <2>1 DEF KernelInv, OneHistory, OnDisk
    <2>2. CASE tail.whole /\ log' = log \cup {tail.txn}
      <3>1. tail.txn \in Txns
        BY DEF KernelInv, TypeOK, DiskTypeOK
      <3> QED
        BY <1>0, <1>3, <2>2, <3>1, ArrivesKeeps DEF Tailed
    <2> QED
      BY <1>0, <2>1, <2>2
  <1>5. Directory' = left
    <2>1. left \in Directories
      BY DEF KernelInv, TypeOK, DiskTypeOK
    <2> QED
      BY <1>1, <2>1 DEF Directory, Directories
  <1>6. OneHistory' /\ OnDisk'
    BY <1>0, <1>4, <1>5 DEF OneHistory, OnDisk, FsyncDir
  <1>7. Stopped'
    BY <1>0 DEF Stopped, NoTail
  <1> QED
    BY <1>0, <1>2, <1>6, <1>7 DEF KernelInv

LEMMA DecayBaseKeeps ==
    ASSUME KernelInv, DecayBase
    PROVE  KernelInv'
  <1>0. /\ mode = "down" /\ FsyncDir
        /\ UNCHANGED <<log, tail, segs, decayed, mode, root, wpc, cpc, clist, seen, failed, tries>>
    BY DEF DecayBase, commits, ckpt, ghosts
  <1>1. PICK cp \in cps : cp.loads /\ cps' = (cps \ {cp}) \cup {Unloadable(cp)}
    BY DEF DecayBase
  <1>2. TypeOK'
    BY StopTypeOK DEF KernelInv
  <1>3. Stands(Directory, log, seen, decayed)
    BY Standing
  <1>4. Stands(Directory', log, seen, decayed)
    <2>1. /\ Directory.segs = segs /\ Directory.cps = cps
          /\ Directory'.segs = segs /\ Directory'.cps = cps'
      BY <1>0 DEF Directory
    <2>2. /\ Whole(cp, seen) /\ Reaches(segs, cp.seq, log)
          /\ Good(cp, decayed) /\ Covers(cp, log, decayed)
      BY <1>1, <1>3, <2>1 DEF Stands, Good
    <2> DEFINE b == Unloadable(cp)
    <2>3. Whole(b, seen) /\ Reaches(segs, b.seq, log) /\ Covers(b, log, decayed)
      BY <2>2 DEF Unloadable, Whole, Headed, Covers
    <2> HIDE DEF b
    <2>4. ASSUME NEW c \in cps'
          PROVE  /\ Whole(c, seen) /\ Reaches(segs, c.seq, log)
                 /\ Good(c, decayed) => Covers(c, log, decayed)
      BY <1>1, <1>3, <2>1, <2>3 DEF Stands, b
    <2>5. cps' # {}
      BY <1>1
    <2> QED
      BY <1>3, <2>1, <2>4, <2>5 DEF Stands
  <1>5. OnDisk'
    BY <1>0, <1>4 DEF OnDisk, FsyncDir
  <1>6. OneHistory' /\ Stopped'
    BY <1>0 DEF KernelInv, OneHistory, Stopped
  <1> QED
    BY <1>0, <1>2, <1>5, <1>6 DEF KernelInv

LEMMA DecayTxnKeeps ==
    ASSUME KernelInv, DecayTxn
    PROVE  KernelInv'
  <1>0. /\ mode = "down"
        /\ UNCHANGED <<log, tail, segs, cps, leaves, mode, root, wpc, cpc, clist>>
        /\ UNCHANGED <<seen, failed, tries>>
    BY DEF DecayTxn, commits, ckpt, ghosts
  <1>1. decayed \subseteq decayed' /\ decayed' # {}
    BY DEF DecayTxn
  <1>2. TypeOK'
    BY StopTypeOK DEF KernelInv
  <1>3. OnDisk'
    <2>1. \A d \in leaves : Stands(d, log, seen, decayed')
      BY <1>1, StandsOn DEF KernelInv, OnDisk
    <2> QED
      BY <1>0, <2>1 DEF KernelInv, OnDisk, Directory
  <1>4. OneHistory'
    <2>1. Kept(log, seen, decayed')
      BY <1>1 DEF KernelInv, OneHistory, Kept, Lost
    <2> QED
      BY <1>0, <2>1 DEF KernelInv, OneHistory
  <1>5. Stopped'
    BY <1>0 DEF KernelInv, Stopped
  <1> QED
    BY <1>0, <1>2, <1>3, <1>4, <1>5 DEF KernelInv

LEMMA RefusedKeeps ==
    ASSUME KernelInv, OpenRefused
    PROVE  KernelInv'
  <1>0. /\ mode = "down" /\ mode' = "refused"
        /\ UNCHANGED <<log, tail, segs, cps, leaves, decayed, root, wpc, cpc, clist,
                       seen, failed, tries>>
    BY DEF OpenRefused, disk, commits, ckpt, ghosts, budget
  <1>1. TypeOK'
    BY StopTypeOK DEF KernelInv
  <1>2. OneHistory' /\ OnDisk' /\ Stopped'
    BY <1>0 DEF KernelInv, OneHistory, OnDisk, Directory, Stopped
  <1> QED
    BY <1>0, <1>1, <1>2 DEF KernelInv

\* The world an open recovers.
Recovered(base, S, head) ==
    [seq |-> head, world |-> base.world \cup Above(base, S),
     chain |-> IF Above(base, S) = {} THEN base.chain
               ELSE (CHOOSE t \in Above(base, S) : t.last = head).link]

\* It is whole, and nothing readable up to its head is missing from it.
LEMMA RecoveredWhole ==
    ASSUME KernelInv, NEW base, Foundation(base), NEW head \in Seqs,
           CommittedHead(base, Scanned(base), head),
           ~ChainBreak(base, Above(base, Scanned(base)))
    PROVE  LET S == Scanned(base)
               r == Recovered(base, S, head)
           IN  /\ Linear(r.world) /\ Headed(r) /\ base.seq <= head /\ head \in Nat
               /\ Covers(r, log \ TailTxns(S), decayed)
               /\ \A t \in log \ TailTxns(S) : t.last <= head
  <1> DEFINE S == Scanned(base)
             A == Above(base, S)
             r == Recovered(base, S, head)
  <1>0. /\ log \in SUBSET Txns /\ seen \in SUBSET Txns /\ base \in Roots /\ base.seq \in Nat
        /\ head \in Nat /\ S \subseteq log
    BY KernelConstants
       DEF KernelInv, TypeOK, DiskTypeOK, GhostTypeOK, Foundation, Roots, Seqs, Scanned
  <1>1. A = {t \in log : base.seq < t.last /\ ~Lost(t, decayed)}
    BY AboveIs
  <1>2. Linear(base.world \cup A)
    <2>1. base.world \subseteq seen /\ Linear(base.world) /\ Headed(base)
      BY DEF Foundation, Whole
    <2>2. Linked(log \cup seen, failed, tries)
      BY DEF KernelInv, OneHistory
    <2>3. \A t \in A : Placed(t) /\ base.seq < t.last
      BY <1>1, <2>2 DEF Linked
    <2>4. \A t, u \in base.world \cup A : t.prev = u.link => u.last < t.first
      BY <1>1, <2>1, <2>2 DEF Linked
    <2>5. A \in SUBSET Txns /\ ~ChainBreak(base, A)
      BY <1>0, <1>1
    <2> HIDE DEF A
    <2> QED
      BY <1>0, <2>1, <2>3, <2>4, <2>5, FoldLinear
  <1>3. base.seq <= head /\ (\A t \in A : t.last <= head)
        /\ (head = base.seq \/ \E t \in A : t.last = head)
    BY DEF CommittedHead
  <1>4. Headed(r)
    <2>1. \A u \in base.world : u.last <= base.seq
      BY DEF Foundation, Whole, Headed
    <2>2. CASE A = {}
      <3>1. head = base.seq
        BY <1>3, <2>2
      <3>2. r.world = base.world /\ r.seq = base.seq /\ r.chain = base.chain
        BY <2>2, <3>1 DEF Recovered
      <3> QED
        BY <3>2 DEF Foundation, Whole, Headed
    <2>3. CASE A # {}
      <3>1. \E t \in A : t.last = head
        BY <1>0, <1>1, <1>3, <2>3 DEF Txns
      <3> DEFINE h == CHOOSE t \in A : t.last = head
      <3>2. h \in A /\ h.last = head
        BY <3>1
      <3>3. \A u \in base.world \cup A : u.last <= head
        <4>1. base.world \subseteq Txns
          BY <1>0 DEF Foundation, Whole
        <4> QED
          BY <1>0, <1>3, <2>1, <4>1 DEF Txns
      <3>4. r.world = base.world \cup A /\ r.seq = head /\ r.chain = h.link
        BY <2>3 DEF Recovered
      <3> HIDE DEF h, A, r
      <3> QED
        BY <3>2, <3>3, <3>4 DEF Headed
    <2> QED
      BY <2>2, <2>3
  <1>5. ASSUME NEW t \in log \ TailTxns(S) PROVE t.last <= head
    <2>1. CASE base.seq < t.last
      <3>1. t \in S
        BY <2>1 DEF Foundation
      <3>2. PICK u \in Readable(S) : ~(u.last < t.last)
        BY <1>5, <3>1 DEF TailTxns
      <3>3. u \in A
        BY <1>0, <2>1, <3>2 DEF Above, Readable, Txns
      <3> QED
        BY <1>0, <1>1, <1>3, <3>2, <3>3 DEF Txns
    <2>2. CASE t.last <= base.seq
      BY <1>0, <1>3, <2>2 DEF Txns
    <2> QED
      BY <1>0, <2>1, <2>2 DEF Txns
  <1>6. Covers(r, log \ TailTxns(S), decayed)
    <2>1. r.world = base.world \cup A
      BY DEF Recovered
    <2>2. ASSUME NEW t \in log PROVE t \in r.world \/ Lost(t, decayed)
      <3>1. t.last <= base.seq \/ base.seq < t.last
        BY <1>0 DEF Txns
      <3> HIDE DEF A, r
      <3> QED
        BY <1>1, <2>1, <3>1 DEF Foundation, Covers
    <2> QED
      BY <2>2 DEF Covers
  <1>7. r.world = base.world \cup A
    BY DEF Recovered
  <1> QED
    BY <1>0, <1>2, <1>3, <1>4, <1>5, <1>6, <1>7

\* The segments reach the base an open selects.
LEMMA SelectedReaches ==
    ASSUME KernelInv, NEW base, SelectBase(cps, segs, base), segs # {}
    PROVE  Reaches(segs, base.seq, log)
  <1>1. Stands(Directory, log, seen, decayed) /\ Directory.segs = segs /\ Directory.cps = cps
    BY Standing DEF Directory
  <1>2. ASSUME NEW cp \in cps, base = RootOf(cp) PROVE Reaches(segs, base.seq, log)
    BY <1>1, <1>2 DEF Stands, RootOf
  <1>3. ASSUME ReachesGenesis(segs), base = Genesis PROVE Reaches(segs, base.seq, log)
    <2>1. 1 \in segs /\ \A t \in log : t.seg \in segs
      BY <1>1, <1>3 DEF Stands, ReachesGenesis
    <2>2. base.seq = 0
      BY <1>3 DEF Genesis
    <2> QED
      BY <2>1, <2>2 DEF Reaches
  <1> QED
    BY <1>2, <1>3 DEF SelectBase

\* The cut falls at or below the head, and past every transaction it keeps.
LEMMA CutKeepsLog ==
    ASSUME KernelInv, NEW base, SelectBase(cps, segs, base), NEW head \in Nat,
           CommittedHead(base, Scanned(base), head),
           NEW seg \in segs, CutSegment(base, seg)
    PROVE  /\ seg <= head + 1
           /\ \A t \in log \ TailTxns(Scanned(base)) : t.seg \in segs => t.seg <= seg
  <1> DEFINE S == Scanned(base)
             scanned == ScannedAbove(segs, base.seq)
  <1>0. /\ log \in SUBSET Txns /\ segs \in SUBSET Nat /\ base.seq \in Nat /\ S \subseteq log
        /\ \A t \in log : Placed(t)
        /\ InOrder(segs, log) /\ scanned \subseteq segs
    <2>1. base \in Roots
      BY SelectedFounded DEF Foundation
    <2> QED
      BY <2>1, Standing
         DEF KernelInv, TypeOK, DiskTypeOK, OneHistory, Linked, Stands, Directory, Roots, Scanned,
             ScannedAbove
  <1>1. Reaches(segs, base.seq, log) /\ Foundation(base)
    BY SelectedReaches, SelectedFounded
  <1>2. base.seq <= head /\ \A t \in Above(base, S) : t.last <= head
    BY DEF CommittedHead
  <1>3. \A t \in Readable(S) : t.last <= head /\ t.seg \in scanned
    BY <1>0, <1>2 DEF Above, Readable, Scanned, Txns
  <1>4. ASSUME NEW f \in scanned, NEW g \in segs, g \notin scanned PROVE g <= f
    <2>1. f \in Nat /\ g \in Nat
      BY <1>0
    <2>2. ~(f <= g)
      BY <1>0, <1>4, ScansUpward
    <2> HIDE DEF scanned
    <2> QED
      BY <2>1, <2>2
  <1>5. CASE \E c \in Readable(S) : c.seg = seg /\ \A u \in Readable(S) : u.last <= c.last
    <2>1. PICK c \in Readable(S) : c.seg = seg /\ \A u \in Readable(S) : u.last <= c.last
      BY <1>5
    <2>2. /\ c \in log /\ c \in Txns /\ c.last <= head /\ seg \in scanned /\ c \in S
          /\ c.seg <= c.first /\ c.first <= c.last
      BY <1>0, <1>3, <2>1 DEF Readable, Placed
    <2>3. seg <= head + 1
      BY <2>1, <2>2 DEF Txns
    <2>4. ASSUME NEW t \in log \ TailTxns(S), t.seg \in segs PROVE t.seg <= seg
      <3>1. CASE t.seg \in scanned
        <4>1. t \in S
          BY <3>1 DEF Scanned
        <4>2. PICK u \in Readable(S) : ~(u.last < t.last)
          BY <2>4, <4>1 DEF TailTxns
        <4>3. u \in Txns /\ t \in Txns /\ u.last <= c.last /\ t.seg <= t.first /\ t.first <= t.last
          BY <1>0, <2>1, <4>2 DEF Readable, Placed
        <4>4. ~(c.seg < t.seg)
          BY <1>0, <2>2, <2>4, <4>2, <4>3 DEF InOrder, Txns
        <4> QED
          BY <2>1, <2>2, <4>3, <4>4 DEF Txns
      <3>2. CASE t.seg \notin scanned
        <4> HIDE DEF scanned
        <4> QED
          BY <1>4, <2>2, <2>4, <3>2
      <3> QED
        BY <3>1, <3>2
    <2> QED
      BY <2>3, <2>4
  <1>6. CASE Readable(S) = {} /\ seg \in scanned /\ \A f \in scanned : seg <= f
    <2>1. PICK f \in scanned : f <= base.seq + 1
      BY <1>0, <1>1, ScansReached DEF Reaches
    <2>2. seg <= head + 1
      BY <1>0, <1>2, <1>6, <2>1
    <2>3. ASSUME NEW t \in log \ TailTxns(S), t.seg \in segs PROVE t.seg <= seg
      <3>1. t \notin S
        BY <1>6, <2>3 DEF TailTxns
      <3>2. t.seg \notin scanned
        BY <3>1 DEF Scanned
      <3> HIDE DEF scanned
      <3> QED
        BY <1>4, <1>6, <2>3, <3>2
    <2> QED
      BY <2>2, <2>3
  <1> QED
    BY <1>5, <1>6 DEF CutSegment

\* Where the order resumes: at the head or past it, below the ceiling.
LEMMA RestoredAbove ==
    ASSUME NEW S \in SUBSET Txns, NEW head \in Nat, head <= Ceiling
    PROVE  LET floor == RestoredHighWater(S, head)
           IN  /\ floor \in Nat /\ head <= floor /\ floor <= Ceiling
               /\ S = {} => floor = head
  <1> DEFINE Trusted(t) == /\ \A u \in Claimants(S) : u.last <= t.last
                           /\ head < t.last
                           /\ t.last - head <= CouldHold(S)
                           /\ t.last < Ceiling - 1
  <1>0. Claimants(S) \subseteq S /\ Ceiling \in Nat
    BY KernelConstants DEF Claimants, TailTxns
  <1>1. CASE \E t \in Claimants(S) : Trusted(t)
    <2> DEFINE c == CHOOSE t \in Claimants(S) : Trusted(t)
    <2>1. c \in Claimants(S) /\ Trusted(c)
      BY <1>1
    <2>2. RestoredHighWater(S, head) = c.last
      BY <1>1 DEF RestoredHighWater
    <2>3. c.last \in Nat /\ head < c.last /\ c.last < Ceiling - 1 /\ S # {}
      BY <1>0, <2>1 DEF Txns
    <2> HIDE DEF c
    <2> QED
      BY <1>0, <2>2, <2>3
  <1>2. CASE ~\E t \in Claimants(S) : Trusted(t)
    <2>1. RestoredHighWater(S, head) = head
      BY <1>2 DEF RestoredHighWater
    <2> QED
      BY <2>1
  <1> QED
    BY <1>1, <1>2

LEMMA OpenKeeps ==
    ASSUME KernelInv, Open
    PROVE  KernelInv'
  <1>1. PICK base \in {RootOf(cp) : cp \in cps} \cup {Genesis}, head \in Seqs :
            /\ SelectBase(cps, segs, base)
            /\ CommittedHead(base, Scanned(base), head)
            /\ Recover(base, Scanned(base), head,
                       RestoredHighWater(Scanned(base), head))
    BY DEF Open
  <1> DEFINE S == Scanned(base)
             A == Above(base, S)
             floor == RestoredHighWater(S, head)
  <1>2. /\ mode # "up" /\ mode' = "up"
        /\ root' = Recovered(base, S, head) /\ log' = log \ TailTxns(S)
        /\ sequencer' = [high_water |-> floor, floor |-> floor]
        /\ cps' = cps /\ FsyncDir /\ skipped' = SkippedBases(cps)
        /\ seen' = seen \cup root'.world
        /\ UNCHANGED <<tail, decayed, poisoned, wpc, wtxn, cpc, csnap, clist, cfloor,
                       failed, tries>>
    BY <1>1 DEF Open, Recover, Recovered, budget
  <1>3. \E last \in segs' : /\ \A f \in segs' : f <= last
                            /\ writer' = [active |-> last, chain |-> root'.chain]
    BY <1>1 DEF Recover
  <1>4. IF segs = {}
          THEN segs' = {floor + 1}
          ELSE \E seg \in segs : CutSegment(base, seg) /\ segs' = {f \in segs : f <= seg}
    BY <1>1 DEF Recover
  <1>5. ~ChainBreak(base, A)
    BY <1>1 DEF Open, Refuses, Halts
  <1>6. TypeOK'
    BY OpenTypeOK DEF KernelInv
  <1>7. Foundation(base) /\ Stopped
    BY <1>1, <1>2, SelectedFounded DEF KernelInv
  <1>8. /\ log \in SUBSET Txns /\ seen \in SUBSET Txns /\ failed \in SUBSET Txns
        /\ segs \in SUBSET Nat /\ cps \in SUBSET Bases /\ base \in Roots /\ base.seq \in Nat
        /\ S \subseteq log /\ Ceiling \in Nat /\ tries \in Nat /\ head <= Ceiling
    BY <1>7, KernelConstants
       DEF KernelInv, TypeOK, DiskTypeOK, GhostTypeOK, Foundation, Roots, Scanned, Seqs
  <1>9. /\ Linear(root'.world) /\ Headed(root') /\ base.seq <= head /\ head \in Nat
        /\ Covers(root', log', decayed) /\ \A t \in log' : t.last <= head
    BY <1>1, <1>2, <1>5, <1>7, RecoveredWhole
  <1>10. /\ root'.seq = head /\ root'.world = base.world \cup A
         /\ A \subseteq log /\ base.world \subseteq seen
    BY <1>2, <1>7, AboveIs DEF Recovered, Foundation, Whole
  <1>11. floor \in Nat /\ head <= floor /\ floor <= Ceiling /\ (S = {} => floor = head)
    BY <1>8, <1>9, RestoredAbove
  <1>12. Linked(log \cup seen, failed, tries) /\ Kept(log, seen, decayed)
    BY DEF KernelInv, OneHistory
  <1> HIDE DEF floor, A, S
  <1>13. ASSUME NEW t \in log, ~Lost(t, decayed) PROVE t \in log'
    BY <1>2, <1>8, <1>13 DEF S, TailTxns, Readable, Scanned, Decayed, Lost, Txns
  <1>14. \A t \in seen' : t \in root'.world \/ Lost(t, decayed)
    BY <1>2, <1>7, <1>10, SeenFolds DEF S, A
  <1>15. OneHistory'
    <2>1. Linked(log' \cup seen', failed, tries)
      <3>1. log' \cup seen' \in SUBSET (log \cup seen)
        BY <1>2, <1>10
      <3>2. tries <= tries /\ log \cup seen \in SUBSET Txns
        BY <1>8
      <3> QED
        BY <1>8, <1>12, <3>1, <3>2, LinkedOn
    <2>2. \A t, u \in log' : t = u \/ t.last < u.first \/ u.last < t.first
      BY <1>2, <1>12 DEF Kept
    <2>3. \A t \in seen' : t \in log' \/ Lost(t, decayed)
      BY <1>2, <1>10, <1>12, <1>13 DEF Kept
    <2>4. decayed = {} => log' = log
      BY <1>2, <1>13 DEF Lost
    <2>5. Kept(log', seen', decayed)
      BY <1>12, <2>2, <2>3, <2>4 DEF Kept
    <2> QED
      BY <1>2, <2>1, <2>5 DEF OneHistory
  <1>16. /\ Stands(Directory, log, seen, decayed) /\ Directory.segs = segs
         /\ Directory.cps = cps /\ Directory'.segs = segs' /\ Directory'.cps = cps
         /\ leaves' = {Directory'}
    BY <1>2, Standing DEF Directory, FsyncDir
  <1>17. /\ \A f \in segs' : f <= head + 1
         /\ InOrder(segs', log') /\ \A f \in segs' : 1 <= f
         /\ ReachesGenesis(segs') => \A t \in log' : t.seg \in segs'
         /\ cps = {} => ReachesGenesis(segs')
         /\ \A b \in cps : Reaches(segs', b.seq, log')
         /\ Reaches(segs', head, log')
    <2>1. CASE segs = {}
      <3>1. log = {} /\ cps = {}
        <4>1. ReachesGenesis(segs)
          BY <2>1 DEF ReachesGenesis
        <4> QED
          BY <1>16, <2>1, <4>1 DEF Stands, Reaches
      <3>2. base = Genesis /\ S = {} /\ A = {}
        BY <1>1, <1>8, <3>1 DEF SelectBase, A, Above, Readable
      <3>3. head = 0 /\ floor = 0
        BY <1>1, <1>11, <3>2 DEF CommittedHead, Genesis, A, S
      <3>4. segs' = {1} /\ log' = {}
        BY <1>2, <1>4, <2>1, <3>1, <3>3
      <3> QED
        BY <3>1, <3>3, <3>4 DEF InOrder, Reaches, ReachesGenesis
    <2>2. CASE segs # {}
      <3>1. PICK seg \in segs : CutSegment(base, seg) /\ segs' = {f \in segs : f <= seg}
        BY <1>4, <2>2
      <3>2. seg <= head + 1 /\ \A t \in log' : t.seg \in segs => t.seg <= seg
        BY <1>1, <1>2, <1>9, <3>1, CutKeepsLog DEF S
      <3>3. seg \in segs' /\ segs' \subseteq segs /\ seg \in Nat
        BY <1>8, <3>1
      <3>4. log' \subseteq log
        BY <1>2
      <3>5. \A f \in segs' : f <= head + 1
        BY <1>8, <1>9, <3>1, <3>2
      <3>6. InOrder(segs', log') /\ \A f \in segs' : 1 <= f
        BY <1>16, <3>3, <3>4 DEF Stands, InOrder
      <3>7. \A t \in log' : t.seg \in segs => t.seg \in segs'
        BY <3>1, <3>2
      <3>8. ReachesGenesis(segs') => \A t \in log' : t.seg \in segs'
        BY <1>16, <3>3, <3>4, <3>7 DEF Stands, ReachesGenesis
      <3>9. cps = {} => ReachesGenesis(segs')
        BY <1>16, <2>2, <3>1, <3>3 DEF Stands, ReachesGenesis
      <3>10. ASSUME NEW s \in Nat, Reaches(segs, s, log) PROVE Reaches(segs', s, log')
        <4>1. PICK f \in segs : f <= s + 1
          BY <3>10 DEF Reaches
        <4>2. \E g \in segs' : g <= s + 1
          BY <1>8, <3>1, <3>3, <4>1
        <4> QED
          BY <3>4, <3>7, <3>10, <4>2 DEF Reaches
      <3>11. \A b \in cps : Reaches(segs', b.seq, log')
        BY <1>8, <1>16, <3>10 DEF Stands, Bases
      <3>12. Reaches(segs', head, log')
        <4>1. Reaches(segs', base.seq, log')
          BY <1>1, <1>8, <2>2, <3>10, SelectedReaches
        <4>2. segs' \in SUBSET Nat /\ log' \in SUBSET Txns
          BY <1>8, <3>3, <3>4
        <4> QED
          BY <1>8, <1>9, <4>1, <4>2, ReachesOn
      <3> QED
        BY <3>5, <3>6, <3>8, <3>9, <3>11, <3>12
    <2> QED
      BY <2>1, <2>2
  <1>18. OnDisk'
    <2>1. ASSUME NEW b \in cps
          PROVE  Whole(b, seen') /\ (Good(b, decayed) => Covers(b, log', decayed))
      BY <1>2, <1>16 DEF Stands, Whole, Covers
    <2>2. \A f \in segs' : f <= Ceiling + 1
      <3>1. segs' \in SUBSET Nat
        BY <1>6 DEF TypeOK, DiskTypeOK
      <3> QED
        BY <1>8, <1>9, <1>17, <3>1
    <2>3. Stands(Directory', log', seen', decayed')
      BY <1>2, <1>16, <1>17, <2>1, <2>2 DEF Stands
    <2> QED
      BY <1>16, <2>3 DEF OnDisk
  <1>19. Serving'
    <2>1. Whole(root', seen')
      BY <1>2, <1>9 DEF Whole
    <2>2. Settled(log', floor)
      BY <1>2, <1>8, <1>9, <1>11 DEF Settled, Txns
    <2> QED
      BY <1>2, <1>9, <1>10, <1>11, <1>14, <2>1, <2>2 DEF Serving
  <1>20. \A b \in cps : b.loads => b.seq <= head
    BY <1>1, <1>8, <1>9 DEF SelectBase, RootOf, Bases
  <1>21. ASSUME NEW b \in cps, decayed = {} PROVE b.seq <= head
    <2>1. Whole(b, seen)
      BY <1>16 DEF Stands
    <2>2. CASE b.world = {}
      BY <1>9, <2>1, <2>2 DEF Whole, Headed
    <2>3. CASE b.world # {}
      <3>1. PICK h \in b.world : h.last = b.seq
        BY <2>1, <2>3 DEF Whole, Headed
      <3>2. h \in log'
        BY <1>12, <1>13, <1>21, <2>1, <3>1 DEF Whole, Kept, Lost
      <3> QED
        BY <1>9, <3>1, <3>2
    <2> QED
      BY <2>2, <2>3
  <1>22. Founded'
    <2>1. \A b \in cps : Good(b, decayed) => b.seq <= head
      BY <1>20, <1>21 DEF Good
    <2>2. ASSUME NEW b \in cps PROVE b.seq \in SkippedBases(cps) \/ b.seq <= head
      <3>1. CASE ~b.loads /\ \A d \in cps : d.loads => d.seq < b.seq
        BY <3>1 DEF SkippedBases
      <3>2. CASE \E d \in cps : d.loads /\ ~(d.seq < b.seq)
        BY <1>8, <1>9, <1>20, <3>2 DEF Bases
      <3> QED
        BY <1>20, <3>1, <3>2
    <2> QED
      BY <1>2, <1>10, <1>16, <1>17, <2>1, <2>2 DEF Founded
  <1>23. /\ wpc' = "idle" /\ cpc' = "idle" /\ ~tail'.whole /\ clist' = {}
    BY <1>2, <1>7 DEF Stopped
  <1>24. Files(leaves', clist') = segs'
    BY <1>16, <1>23 DEF Files
  <1>25. Idling'
    <2>1. segs' \in SUBSET Nat
      BY <1>6 DEF TypeOK, DiskTypeOK
    <2>2. \A f \in segs' : f <= floor + 1
      BY <1>9, <1>11, <1>17, <2>1
    <2>3. writer'.chain = root'.chain /\ writer'.active \in segs'
      BY <1>3
    <2>4. Settled(log', root'.seq)
      BY <1>9, <1>10 DEF Settled
    <2> QED
      BY <1>2, <1>24, <2>2, <2>3, <2>4 DEF Idling
  <1>26. Tailed' /\ Writing' /\ Minted' /\ Barriered' /\ Snapshot' /\ Retaining' /\ Reclaiming'
    BY <1>23 DEF Tailed, Writing, Minted, Barriered, Snapshot, Retaining, Reclaiming
  <1>27. Rotating'
    <2>1. Seated(writer'.active, leaves', clist')
      BY <1>3, <1>16, <1>24 DEF Seated
    <2> QED
      BY <1>23, <2>1 DEF Rotating
  <1> QED
    BY <1>2, <1>6, <1>15, <1>18, <1>19, <1>22, <1>25, <1>26, <1>27 DEF KernelInv, Up

-----------------------------------------------------------------------------
(* The theorems *)

LEMMA InitKernelInv == Init => KernelInv
  <1> SUFFICES ASSUME Init PROVE KernelInv
    OBVIOUS
  <1>1. TypeOK
    BY InitTypeOK
  <1>2. OneHistory
    BY DEF Init, OneHistory, Linked, Kept, ChainBreak
  <1>3. OnDisk
    BY DEF Init, OnDisk, Directory, Stands, InOrder, ReachesGenesis
  <1>4. mode # "up" /\ Stopped
    BY DEF Init, Stopped, NoTail
  <1> QED
    BY <1>1, <1>2, <1>3, <1>4 DEF KernelInv

\* A step of the commit path or of a checkpoint is one of a kernel that serves.
LEMMA WorksUp ==
    ASSUME KernelInv,
           \/ TxnRefuse \/ TxnRotate \/ TxnRotateFail \/ TxnAppend
           \/ TxnBarrier \/ TxnBarrierFail \/ TxnRepair \/ TxnPoison \/ TxnInstall
           \/ CkptStart \/ CkptRename \/ CkptSync \/ CkptUnlink \/ CkptRetained
           \/ CkptReclaim \/ CkptDone \/ CkptFail
    PROVE  mode = "up"
  <1>1. wpc # "idle" \/ cpc # "idle" \/ mode = "up"
    BY DEF TxnRefuse, TxnRotate, TxnRotateFail, TxnAppend, TxnBarrier, TxnBarrierFail,
           TxnRepair, TxnPoison, TxnInstall, CkptStart, CkptRename, CkptSync, CkptUnlink,
           CkptRetained, CkptReclaim, CkptDone, CkptFail
  <1> QED
    BY <1>1 DEF KernelInv, Stopped

LEMMA StutterKeeps == KernelInv /\ UNCHANGED vars => KernelInv'
  <1> SUFFICES ASSUME KernelInv, UNCHANGED vars PROVE KernelInv'
    OBVIOUS
  <1>0. UNCHANGED <<log, tail, segs, cps, leaves, decayed, mode, root, sequencer, poisoned,
                    writer, wpc, wtxn, cpc, csnap, clist, cfloor, held, skipped, seen,
                    failed, cut, tries>>
    BY DEF vars, disk, commits, ckpt, ghosts, budget
  <1>1. TypeOK'
    BY NextTypeOK DEF KernelInv
  <1>2. OneHistory' /\ OnDisk' /\ (Stopped <=> Stopped')
    BY <1>0 DEF KernelInv, OneHistory, OnDisk, Directory, Stopped
  <1>3. ASSUME mode = "up" PROVE Up'
    <2>1. Up
      BY <1>3 DEF KernelInv
    <2>2. Founded' /\ Snapshot' /\ Retaining' /\ Reclaiming'
      BY <1>0, <2>1, CkptFrameKeeps DEF CkptFrame, ckpt, Up
    <2>3. Serving' /\ Tailed' /\ Idling' /\ Writing' /\ Minted' /\ Barriered'
      BY <1>0, <2>1 DEF Up, Serving, Tailed, Idling, Writing, Minted, Barriered
    <2>4. (RotationDue <=> RotationDue') /\ Rotating'
      BY <1>0, <2>1 DEF Up, Rotating, RotationDue
    <2> QED
      BY <2>2, <2>3, <2>4 DEF Up
  <1> QED
    BY <1>0, <1>1, <1>2, <1>3 DEF KernelInv

LEMMA NextKernelInv == KernelInv /\ [Next]_vars => KernelInv'
  <1> SUFFICES ASSUME KernelInv, [Next]_vars PROVE KernelInv'
    OBVIOUS
  <1>1. CASE UNCHANGED vars
    BY <1>1, StutterKeeps
  <1>2. CASE \E n \in 1 .. MaxRecords : TxnMint(n)
    BY <1>2, MintKeeps
  <1>3. CASE \/ TxnRefuse \/ TxnRotate \/ TxnRotateFail \/ TxnAppend
             \/ TxnBarrier \/ TxnBarrierFail \/ TxnRepair \/ TxnPoison \/ TxnInstall
    BY <1>3, WorksUp, RefuseKeeps, RotateKeeps, RotateFailKeeps, AppendKeeps, BarrierKeeps,
       BarrierFailKeeps, RepairKeeps, PoisonKeeps, InstallKeeps
  <1>4. CASE \/ CkptStart \/ CkptRename \/ CkptSync \/ CkptUnlink \/ CkptRetained
             \/ CkptReclaim \/ CkptDone \/ CkptFail
    BY <1>4, WorksUp, StartKeeps, RenameKeeps, SyncKeeps, UnlinkKeeps, RetainedKeeps,
       ReclaimKeeps, FinishKeeps
  <1>5. CASE Crash \/ DecayBase \/ DecayTxn \/ OpenRefused \/ Open
    BY <1>5, CrashKeeps, DecayBaseKeeps, DecayTxnKeeps, RefusedKeeps, OpenKeeps
  <1> QED
    BY <1>1, <1>2, <1>3, <1>4, <1>5 DEF Next

\* The inductive invariant: the history is one order of positions and links,
\* every directory a crash may leave folds to all that was seen, and the
\* commit path and the checkpoint stand where the code says they do.
THEOREM KernelInvariant == Spec => []KernelInv
  BY InitKernelInv, NextKernelInv, PTL DEF Spec

\* What a reader ever saw is in the world of every later open unless its own
\* frames decayed: durable before visible (writer.rs commit_txn), the fold of
\* the log over any base (replay.rs), reclamation below every base kept.
THEOREM SeenIsKept == Spec => []SeenSurvives
  <1>1. KernelInv => SeenSurvives
    BY DEF KernelInv, Up, Serving, SeenSurvives, Decayed, Lost
  <1> QED
    BY <1>1, KernelInvariant, PTL

\* The world committed to or recovered is a history without a hole, whatever
\* crashed, decayed or was cut: a scan that meets a break in the hash chain
\* halts (scan.rs), and one that does not yields a chain from genesis.
THEOREM NeverAHole == Spec => []NoHole
  <1>1. KernelInv => NoHole
    BY DEF KernelInv, Up, Serving, Whole, NoHole
  <1> QED
    BY <1>1, KernelInvariant, PTL

\* A transaction answered as failed is in no world and no checkpoint, then or
\* after any crash: its frames are cut before the caller is told (writer.rs
\* truncate_to) or the kernel is poisoned instead.
THEOREM FailedIsFailed == Spec => []FailedStaysFailed
  <1>1. ASSUME KernelInv PROVE FailedStaysFailed
    <2>0. /\ \A t \in seen : t \notin failed
          /\ seen \in SUBSET Txns
      BY <1>1 DEF KernelInv, OneHistory, Linked, TypeOK, GhostTypeOK
    <2>1. root.world \subseteq seen
      BY <1>1 DEF KernelInv, Up, Serving, Whole, Stopped, Genesis
    <2>2. \A cp \in cps : cp.world \subseteq seen
      BY <1>1, Standing DEF Stands, Directory, Whole
    <2> QED
      BY <2>0, <2>1, <2>2 DEF FailedStaysFailed
  <1> QED
    BY <1>1, KernelInvariant, PTL

\* While the log does not decay every base standing in the directory folds,
\* over the segments beside it, to all that was ever visible, and no fold
\* halts: neither retention nor reclamation takes what a base needs.
THEOREM BasesFold == Spec => []EveryBaseFolds
  <1>1. ASSUME KernelInv PROVE EveryBaseFolds
    <2> SUFFICES ASSUME decayed = {}, NEW cp \in cps
                 PROVE  /\ ~Halts(RootOf(cp), Scanned(RootOf(cp)))
                        /\ seen \subseteq cp.world \cup Above(RootOf(cp), Scanned(RootOf(cp)))
      BY DEF EveryBaseFolds
    <2>1. Foundation(RootOf(cp))
      BY <1>1, BaseFounded DEF Good
    <2>2. ~Halts(RootOf(cp), Scanned(RootOf(cp)))
      BY <1>1, <2>1, NothingHalts
    <2>3. RootOf(cp).world = cp.world
      BY DEF RootOf
    <2>4. \A t \in seen : t \in cp.world \cup Above(RootOf(cp), Scanned(RootOf(cp)))
      BY <1>1, <2>1, <2>3, SeenFolds DEF Lost
    <2> QED
      BY <2>2, <2>4
  <1> QED
    BY <1>1, KernelInvariant, PTL

\* An open refuses only a directory that decayed: in the journal, or in every
\* base it holds (replay.rs select_base, scan.rs).
THEOREM RefusesDecayOnly == Spec => []RefusesOnlyDecay
  <1>1. Init => RefusesOnlyDecay
    BY DEF Init, RefusesOnlyDecay
  <1>2. KernelInv /\ RefusesOnlyDecay /\ [Next]_vars => RefusesOnlyDecay'
    <2> SUFFICES ASSUME KernelInv, RefusesOnlyDecay, [Next]_vars, mode' = "refused"
                 PROVE  decayed' # {} \/ (cps' # {} /\ \A cp \in cps' : ~cp.loads)
      BY DEF RefusesOnlyDecay
    <2>1. CASE OpenRefused
      BY <2>1, OpensUndecayed DEF OpenRefused, disk
    <2>2. CASE UNCHANGED vars
      BY <2>2 DEF RefusesOnlyDecay, vars, disk
    <2>3. CASE Next /\ ~OpenRefused
      <3>1. mode # "refused"
        BY <2>3, WorksUp
           DEF Next, TxnMint, Crash, DecayBase, DecayTxn, Open
      <3>2. mode' # "refused"
        BY <2>3, <3>1
           DEF Next, TxnMint, FailClean, TxnRefuse, TxnRotate, TxnRotateFail, TxnAppend,
               TxnBarrier, TxnBarrierFail, TxnRepair, TxnPoison, TxnInstall, CkptStart,
               CkptRename, CkptSync, CkptUnlink, CkptRetained, CkptReclaim, CkptDone,
               CkptFail, Crash, DecayBase, DecayTxn, Open
      <3> QED
        BY <3>2
    <2> QED
      BY <2>1, <2>2, <2>3
  <1> QED
    BY <1>1, <1>2, KernelInvariant, PTL DEF Spec

\* While the log does not decay no two transactions a reader ever saw share
\* a position: the sequencer rolls back no position that was committed.
THEOREM PositionsAreUnique == Spec => [](decayed = {} => PositionsUnique)
  <1>1. KernelInv => (decayed = {} => PositionsUnique)
    <2> SUFFICES ASSUME KernelInv, decayed = {} PROVE PositionsUnique
      OBVIOUS
    <2>1. seen \subseteq log
      BY DEF KernelInv, OneHistory, Kept, Lost
    <2> QED
      BY <2>1 DEF KernelInv, OneHistory, Kept, PositionsUnique
  <1> QED
    BY <1>1, KernelInvariant, PTL

-----------------------------------------------------------------------------
(* The kernel implements DurableLog while its log does not decay *)

\* Between a barrier and an install the root holds all of the log but one.
LEMMA RootIsLog ==
    ASSUME KernelInv, mode = "up", decayed = {}, Settled(log, root.seq)
    PROVE  root.world = log
  <1>1. Serving /\ Kept(log, seen, decayed)
    BY DEF KernelInv, Up, OneHistory
  <1> QED
    BY <1>1 DEF Serving, Whole, Kept, Covers, Settled, Lost

\* A pending transaction that joins the log is one step of growth.
LEMMA ArrivalGrows ==
    ASSUME KernelInv, mode = "up", decayed = {}, NEW t \in Txns,
           Pending(t, root, log, log \cup seen \cup failed, tries),
           Seated(t.seg, leaves, clist), log' = log \cup {t}
    PROVE  root.world = log /\ Promise!Grows
  <1>1. root.world = log
    BY RootIsLog DEF Pending
  <1>2. t \notin log /\ t \notin failed
    BY ArrivesKeeps
  <1>3. /\ log \in SUBSET Txns /\ root.seq \in Nat
    BY DEF KernelInv, TypeOK, DiskTypeOK, CommitTypeOK, Roots
  <1>4. t.first <= t.last /\ \A u \in log : u.last < t.first
    BY <1>3 DEF Pending, Placed, Settled, Txns
  <1> QED
    BY <1>1, <1>2, <1>4 DEF Promise!Grows, Promise!OnTop

LEMMA PromiseStep ==
    ASSUME KernelInv, KernelInv', decayed = {}, decayed' = {}, [Next]_vars
    PROVE  [Promise!Next]_(Promise!vars)
  <1> DEFINE Same == UNCHANGED <<mode, log, root, failed>>
  <1>1. ASSUME Same PROVE UNCHANGED Promise!vars
    BY <1>1 DEF Promise!vars
  <1>2. CASE UNCHANGED vars
    <2>1. Same
      BY <1>2 DEF vars, disk, commits, ghosts
    <2> QED
      BY <1>1, <2>1
  <1>3. CASE \E n \in 1 .. MaxRecords : TxnMint(n)
    <2>1. Same
      BY <1>3 DEF TxnMint, disk, ghosts
    <2> QED
      BY <1>1, <2>1
  <1>4. CASE TxnRefuse \/ TxnRotateFail \/ TxnRepair
    <2>1. /\ mode = "up" /\ UNCHANGED <<mode, log, root>> /\ failed \subseteq failed'
      BY <1>4, WorksUp DEF TxnRefuse, TxnRotateFail, TxnRepair, FailClean, disk
    <2>2. failed' \cap log = {}
      BY <2>1 DEF KernelInv, OneHistory, Linked
    <2>3. Promise!Fail
      BY <2>1, <2>2 DEF Promise!Fail
    <2> QED
      BY <2>3 DEF Promise!Next
  <1>5. CASE TxnRotate \/ TxnAppend \/ TxnBarrierFail \/ TxnPoison
    <2>1. Same
      BY <1>5 DEF TxnRotate, TxnAppend, TxnBarrierFail, TxnPoison, disk, ghosts
    <2> QED
      BY <1>1, <2>1
  <1>6. CASE TxnBarrier
    <2>1. /\ mode = "up" /\ wpc = "appended" /\ log' = log \cup {wtxn}
          /\ UNCHANGED <<mode, root, failed>>
      BY <1>6, WorksUp DEF TxnBarrier, ghosts
    <2>2. Seated(wtxn.seg, leaves, clist)
      BY <2>1, UnderWay DEF KernelInv, Up, Rotating
    <2>3. root.world = log /\ Promise!Grows
      BY <2>1, <2>2, UnderWay, ArrivalGrows
    <2>4. Promise!Persist
      BY <2>1, <2>3 DEF Promise!Persist
    <2> QED
      BY <2>4 DEF Promise!Next
  <1>7. CASE TxnInstall
    <2>1. /\ mode = "up" /\ wpc = "barriered" /\ wpc' = "idle"
          /\ root'.seq = wtxn.last /\ UNCHANGED <<mode, log, failed, poisoned>>
      BY <1>7, WorksUp DEF TxnInstall, disk
    <2>2. Writing /\ Barriered
      BY <2>1 DEF KernelInv, Up
    <2>3. Idling'
      BY <2>1 DEF KernelInv, Up
    <2>4. Settled(log', root'.seq)
      BY <2>1, <2>2, <2>3 DEF Idling, Writing
    <2>5. root'.world = log'
      <3>1. Serving' /\ Kept(log', seen', decayed')
        BY <2>1 DEF KernelInv, Up, OneHistory
      <3> QED
        BY <2>4, <3>1 DEF Serving, Whole, Kept, Covers, Settled, Lost
    <2>6. Promise!Show
      BY <2>1, <2>5 DEF Promise!Show
    <2> QED
      BY <2>6 DEF Promise!Next
  <1>8. CASE \/ CkptStart \/ CkptRename \/ CkptSync \/ CkptUnlink \/ CkptRetained
             \/ CkptReclaim \/ CkptDone \/ CkptFail
    <2>1. Same
      BY <1>8 DEF CkptStart, CkptRename, CkptSync, CkptUnlink, CkptRetained, CkptReclaim,
                  CkptDone, CkptFail, disk, commits, ghosts
    <2> QED
      BY <1>1, <2>1
  <1>9. CASE Crash
    <2>1. /\ mode = "up" /\ mode' = "down" /\ root' = Genesis /\ failed' = failed
          /\ log' = log \/ (tail.whole /\ log' = log \cup {tail.txn})
      BY <1>9 DEF Crash, Down
    <2>2. CASE log' = log
      BY <2>1, <2>2 DEF Promise!Next, Promise!Stop, Genesis
    <2>3. CASE tail.whole /\ log' = log \cup {tail.txn}
      <3>1. Tailed /\ tail.txn \in Txns
        BY <2>1 DEF KernelInv, Up, TypeOK, DiskTypeOK
      <3>2. root.world = log /\ Promise!Grows
        BY <2>1, <2>3, <3>1, ArrivalGrows DEF Tailed
      <3> QED
        BY <2>1, <3>2 DEF Promise!Next, Promise!Stop, Genesis
    <2> QED
      BY <2>1, <2>2, <2>3
  <1>10. CASE DecayBase \/ DecayTxn
    <2>1. Same
      BY <1>10 DEF DecayBase, DecayTxn, commits, ghosts
    <2> QED
      BY <1>1, <2>1
  <1>11. CASE OpenRefused
    <2>1. mode # "up" /\ mode' # "up" /\ UNCHANGED <<log, root, failed>>
      BY <1>11 DEF OpenRefused, disk, commits, ghosts
    <2>2. UNCHANGED Promise!vars
      BY <2>1 DEF Promise!vars
    <2> QED
      BY <2>2
  <1>12. CASE Open
    <2>1. mode # "up" /\ mode' = "up" /\ failed' = failed
      BY <1>12 DEF Open
    <2>2. PICK base \in {RootOf(cp) : cp \in cps} \cup {Genesis}, head \in Seqs :
            /\ SelectBase(cps, segs, base)
            /\ Recover(base, Scanned(base), head, RestoredHighWater(Scanned(base), head))
      BY <1>12 DEF Open
    <2>3. Foundation(base)
      BY <2>2, SelectedFounded
    <2>4. log' = log
      BY <2>2, <2>3, NothingHalts DEF Recover
    <2>5. root'.world = base.world \cup Above(base, Scanned(base))
      BY <2>2 DEF Recover
    <2>6. root'.world = log
      <3>1. /\ \A t : ~Lost(t, decayed)
            /\ log \in SUBSET Txns /\ base.seq \in Nat
        BY <2>3 DEF Lost, KernelInv, TypeOK, DiskTypeOK, Foundation, Roots
      <3>2. Above(base, Scanned(base)) = {t \in log : base.seq < t.last}
        BY <2>3, <3>1, AboveIs
      <3>3. base.world \subseteq log
        BY <2>3, <3>1 DEF Foundation, Whole, KernelInv, OneHistory, Kept
      <3>4. \A t \in log : t \in base.world \/ base.seq < t.last
        BY <2>3, <3>1 DEF Foundation, Covers, Txns
      <3> QED
        BY <2>5, <3>2, <3>3, <3>4
    <2>7. Promise!Open
      BY <2>1, <2>4, <2>6 DEF Promise!Open
    <2> QED
      BY <2>7 DEF Promise!Next
  <1> QED
    BY <1>2, <1>3, <1>4, <1>5, <1>6, <1>7, <1>8, <1>9, <1>10, <1>11, <1>12 DEF Next

\* While nothing in the log decays the kernel implements DurableLog: a barrier
\* persists, an install shows, a clean failure fails, a crash stops and an
\* open shows all that is durable; every other step is invisible to a caller.
THEOREM PromiseKept == Spec /\ [](decayed = {}) => KeepsPromise
  <1>1. Init => Promise!Init
    BY DEF Init, Promise!Init, Genesis
  <1>2. /\ KernelInv /\ KernelInv' /\ decayed = {} /\ (decayed = {})' /\ [Next]_vars
        => [Promise!Next]_(Promise!vars)
    BY PromiseStep
  <1> QED
    BY <1>1, <1>2, KernelInvariant, PTL DEF Spec, KeepsPromise, Promise!Spec
-----------------------------------------------------------------------------
(* The listing *)

\* The segment appended to is none before a listed one.
Behind(list) ==
    /\ wpc = "idle" /\ ~poisoned => \A f \in list : f <= sequencer.high_water + 1
    /\ wpc # "idle" => \A f \in list : f <= wtxn.first
    /\ wpc \in {"rotated", "appended", "repair", "barriered"} =>
          \A f \in list : f <= writer.active
    /\ wpc \in {"idle", "minted"} /\ ~poisoned =>
          (\A f \in list : f <= writer.active) \/ RotationDue
    /\ tail.whole => \A f \in list : f <= tail.txn.seg

\* A transaction past all a walk of the list meets, and past what it is for.
\* T is what the walk took.
Newer(t, list, T) ==
    /\ asked.head < t.last
    /\ \A g \in list : g < writer.active
    /\ tail.whole => tail.txn.seg \notin list
    /\ \A v \in log : v.seg \in list => v.last < t.last
    /\ list # {} => \A v \in T : v.last < t.last

\* What stands and is not listed was committed after the question was put.
Fresh(list) ==
    \A t \in log : t.seg \in segs => t.seg \in list \/ Newer(t, list, {})

\* A listing that reaches genesis holds the whole of the history asked for.
FromGenesis(list) ==
    ReachesGenesis(list) => \A t \in log : t.seg \in list \/ Newer(t, list, {})

Listing(list) ==
    /\ list # {} /\ Behind(list) /\ InOrder(list, log) /\ Fresh(list) /\ FromGenesis(list)

-----------------------------------------------------------------------------
(* The base and the scan *)

\* A base a read may stand on.
Sound(r) == Whole(r, seen) /\ Covers(r, log, decayed) /\ r.seq <= root.seq

TakenAbove == {t \in taken : rbase.seq < t.last}

Scanning ==
    /\ Behind(todo) /\ InOrder(todo, log)
    /\ \A t \in taken : t \in log \/ (todo = {} /\ asked.head < t.last)
    /\ \A t \in taken, f \in todo : t.last < f
    /\ \A t \in log : rbase.seq < t.last =>
          t \in taken \/ t.seg \in todo \/ Newer(t, todo, taken)
    /\ ~ChainBreak(rbase, TakenAbove)

\* What was in the log when the read went into the append.
Earlier == {t \in log : t.link < stub.txn.link}

\* The read is in the middle of the last file it has to read, with all of what
\* it was asked for before the append it is in.
Stubbed ==
    /\ todo = {stub.txn.seg} /\ asked.head < stub.txn.last
    /\ stub.txn.link <= tries
    /\ wpc # "idle" => stub.txn.link <= wtxn.link
    /\ \A t \in log : t.link < stub.txn.link \/ asked.head < t.last
    /\ taken \subseteq Earlier /\ rbase.world \subseteq Earlier
    /\ \A t \in Earlier :
          /\ t.last < stub.txn.last
          /\ rbase.seq < t.last => t \in taken \/ t.seg = stub.txn.seg
    /\ ~ChainBreak(Genesis, Earlier \cup {stub.txn})

-----------------------------------------------------------------------------
(* The read *)

\* The question was put to a root that has only grown since.
Asking ==
    rpc # "idle" =>
        /\ mode = "up" /\ answer = NoAnswer
        /\ asked.at <= asked.head /\ asked.head <= root.seq
        /\ asked.read # "bounds" => asked.head = asked.at
        /\ asked.read = "slot" => 0 < asked.at

\* No base is chosen past the boundary asked for.
Choosing ==
    /\ rpc \in {"idle", "list"} => listed = {}
    /\ rpc # "scan" => taken = {}
    /\ rpc \notin {"idle", "scan"} => stub = NoTail
    /\ rpc \in {"header", "scan"} => rbase.seq <= CeilingOf(asked)
    /\ rpc \in {"relist", "select"} => \A s \in rcps : s <= CeilingOf(asked)

\* The bases held between reads: none outlives the kernel that holds them.
Holding == (mode # "up" => held = {}) /\ \A h \in held : Sound(h)

Reading ==
    /\ rpc \in {"held", "header", "directory", "relist", "select"} => Listing(listed)
    /\ rpc \in {"header", "scan"} => Sound(rbase)
    /\ rpc = "scan" => Scanning /\ (stub # NoTail => Stubbed)
    /\ HistoryExact /\ NoFalseCorruption

HistoryInv ==
    /\ KernelInv /\ HistoryTypeOK /\ Asking /\ Choosing /\ Holding
    /\ decayed = {} => Reading

-----------------------------------------------------------------------------
(* What a step of the kernel does to the things a read looks at *)

Moves ==
    /\ decayed' = decayed /\ seen \subseteq seen' /\ root.seq <= root'.seq
    /\ writer.active <= writer'.active
    /\ \/ log' = log
       \/ /\ log' = log \cup {wtxn} /\ root.seq < wtxn.first /\ wtxn.first <= wtxn.last
          /\ Settled(log, root.seq) /\ wpc = "appended" /\ wtxn.seg = writer.active
          /\ writer'.active = writer.active /\ ~tail'.whole /\ segs' = segs
    /\ \A f \in segs' \ segs, t \in log : t.seg # f
    /\ tail'.whole => tail' = tail \/ tail'.txn.seg = writer'.active
    /\ held' \subseteq held \/ (cpc = "sync" /\ held' \subseteq held \cup {csnap})

\* The numbers of the kernel's state.
LEMMA KernelNumbers ==
    ASSUME KernelInv
    PROVE  /\ log \in SUBSET Txns /\ seen \in SUBSET Txns /\ segs \in SUBSET Nat
           /\ tail.txn \in Txns /\ wtxn \in Txns /\ root \in Roots /\ root.seq \in Nat
           /\ writer.active \in Nat /\ sequencer.high_water \in Nat
           /\ sequencer.floor \in Nat /\ held \in SUBSET Roots /\ cps \in SUBSET Bases
           /\ csnap \in Roots
           /\ wpc \in {"idle", "minted", "rotated", "appended", "repair", "barriered"}
  BY DEF KernelInv, TypeOK, DiskTypeOK, CommitTypeOK, CkptTypeOK, GhostTypeOK, Roots

LEMMA CommitMoves ==
    ASSUME KernelInv, mode = "up",
           \/ \E n \in 1 .. MaxRecords : TxnMint(n)
           \/ TxnRefuse \/ TxnRotate \/ TxnRotateFail \/ TxnAppend
           \/ TxnBarrier \/ TxnBarrierFail \/ TxnRepair \/ TxnPoison \/ TxnInstall
    PROVE  Moves
  <1>0. /\ log \in SUBSET Txns /\ wtxn \in Txns /\ root.seq \in Nat /\ writer.active \in Nat
    BY KernelNumbers
  <1>1. CASE \/ \E n \in 1 .. MaxRecords : TxnMint(n)
             \/ TxnRefuse \/ TxnBarrierFail \/ TxnRepair \/ TxnPoison
    <2>1. /\ UNCHANGED <<log, segs, decayed, seen, root, writer, held>>
          /\ tail' = tail \/ tail' = NoTail
      BY <1>1 DEF TxnMint, TxnRefuse, TxnBarrierFail, TxnRepair, TxnPoison, FailClean,
                  disk, ckpt, ghosts
    <2> QED
      BY <1>0, <2>1 DEF Moves, NoTail
  <1>2. CASE TxnRotate \/ TxnRotateFail
    <2>1. /\ wpc = "minted" /\ segs' = segs \cup {wtxn.first}
          /\ UNCHANGED <<log, tail, decayed, seen, root, held>>
          /\ writer' = writer \/ writer' = [active |-> wtxn.first, chain |-> writer.chain]
      BY <1>2 DEF TxnRotate, TxnRotateFail, FailClean, ckpt, ghosts
    <2>2. /\ Pending(wtxn, root, log, log \cup seen \cup failed, tries)
          /\ wtxn.seg = writer.active
      BY <2>1, UnderWay
    <2>3. \A t \in log : Placed(t)
      BY DEF KernelInv, OneHistory, Linked
    <2>4. writer.active <= wtxn.first
      BY <2>2 DEF Pending, Placed
    <2>5. \A t \in log : t.seg # wtxn.first
      BY <1>0, <2>2, <2>3 DEF Pending, Placed, Settled, Txns
    <2>6. writer.active <= writer'.active
      BY <1>0, <2>1, <2>4
    <2> QED
      BY <1>0, <2>1, <2>5, <2>6 DEF Moves
  <1>3. CASE TxnAppend
    <2>1. /\ wpc \in {"minted", "rotated"} /\ tail'.txn = wtxn
          /\ UNCHANGED <<log, segs, decayed, seen, root, writer, held>>
      BY <1>3 DEF TxnAppend, ckpt, ghosts
    <2>2. wtxn.seg = writer.active
      BY <2>1, UnderWay
    <2> QED
      BY <1>0, <2>1, <2>2 DEF Moves
  <1>4. CASE TxnBarrier
    <2>1. /\ wpc = "appended" /\ log' = log \cup {wtxn} /\ ~tail'.whole
          /\ writer'.active = writer.active
          /\ UNCHANGED <<segs, decayed, seen, root, held>>
      BY <1>4 DEF TxnBarrier, NoTail, ckpt, ghosts
    <2>2. /\ Pending(wtxn, root, log, log \cup seen \cup failed, tries)
          /\ wtxn.seg = writer.active
      BY <2>1, UnderWay
    <2> QED
      BY <1>0, <2>1, <2>2 DEF Moves, Pending, Placed
  <1>5. CASE TxnInstall
    <2>1. /\ wpc = "barriered" /\ root'.seq = wtxn.last /\ seen' = seen \cup {wtxn}
          /\ UNCHANGED <<log, tail, segs, decayed, writer, held>>
      BY <1>5 DEF TxnInstall, disk, ckpt
    <2>2. wtxn \in log /\ root.seq < wtxn.first
      BY <2>1 DEF KernelInv, Up, Barriered
    <2>3. wtxn.first <= wtxn.last
      BY <2>2 DEF KernelInv, OneHistory, Linked, Placed
    <2>4. root.seq <= root'.seq
      BY <1>0, <2>1, <2>2, <2>3 DEF Txns
    <2> QED
      BY <1>0, <2>1, <2>4 DEF Moves
  <1> QED
    BY <1>1, <1>2, <1>3, <1>4, <1>5

LEMMA CkptMoves ==
    ASSUME KernelInv, mode = "up",
           \/ CkptStart \/ CkptRename \/ CkptSync \/ CkptUnlink \/ CkptRetained
           \/ CkptReclaim \/ CkptDone \/ CkptFail
    PROVE  Moves /\ UNCHANGED <<log, tail, decayed, commits, seen>> /\ segs' \subseteq segs
  <1>0. root.seq \in Nat /\ writer.active \in Nat
    BY KernelNumbers
  <1>1. UNCHANGED <<log, tail, decayed, commits, seen>>
    BY DEF CkptStart, CkptRename, CkptSync, CkptUnlink, CkptRetained, CkptReclaim, CkptDone,
           CkptFail, disk, ghosts
  <1>2. segs' \subseteq segs
    BY DEF CkptStart, CkptRename, CkptSync, CkptUnlink, CkptRetained, CkptReclaim, CkptDone,
           CkptFail, disk
  <1>3. held' \subseteq held \/ (cpc = "sync" /\ held' \subseteq held \cup {csnap})
    <2>1. CASE CkptSync
      BY <2>1 DEF CkptSync, Hold
    <2>2. CASE ~CkptSync
      BY <2>2 DEF CkptStart, CkptRename, CkptUnlink, CkptRetained, CkptReclaim, CkptDone,
                  CkptFail, ckpt
    <2> QED
      BY <2>1, <2>2
  <1> QED
    BY <1>0, <1>1, <1>2, <1>3 DEF Moves, commits

\* A step that leaves the kernel up is one of the commit path or of a
\* checkpoint.
LEMMA StaysUp ==
    ASSUME mode = "up", Next, mode' = "up"
    PROVE  \/ \E n \in 1 .. MaxRecords : TxnMint(n)
           \/ TxnRefuse \/ TxnRotate \/ TxnRotateFail \/ TxnAppend
           \/ TxnBarrier \/ TxnBarrierFail \/ TxnRepair \/ TxnPoison \/ TxnInstall
           \/ CkptStart \/ CkptRename \/ CkptSync \/ CkptUnlink \/ CkptRetained
           \/ CkptReclaim \/ CkptDone \/ CkptFail
  BY DEF Next, Crash, DecayBase, DecayTxn, OpenRefused, Open

LEMMA StepMoves ==
    ASSUME KernelInv, mode = "up", Next, mode' = "up"
    PROVE  Moves
  BY StaysUp, CommitMoves, CkptMoves

-----------------------------------------------------------------------------
(* The listing *)

\* What stands now may be listed.
LEMMA ListedNow ==
    ASSUME KernelInv, mode = "up"
    PROVE  Listing(segs)
  <1>0. /\ Stands(Directory, log, seen, decayed) /\ Directory \in leaves
        /\ Directory.segs = segs
    BY Standing DEF KernelInv, OnDisk, Directory
  <1>1. segs \subseteq Files(leaves, clist)
    BY <1>0, FilesOf
  <1>2. Founded /\ Idling /\ Writing /\ Rotating /\ Tailed
    BY DEF KernelInv, Up
  <1>3. segs # {}
    BY <1>0, <1>2 DEF Founded, Reaches
  <1>4. Behind(segs)
    BY <1>1, <1>2 DEF Behind, Idling, Writing, Rotating, Tailed, Seated
  <1>5. InOrder(segs, log) /\ (ReachesGenesis(segs) => \A t \in log : t.seg \in segs)
    BY <1>0 DEF Stands
  <1> QED
    BY <1>3, <1>4, <1>5 DEF Listing, Fresh, FromGenesis

\* A clean failure leaves the order where the next rotation is past the list.
LEMMA FailCleanBehind ==
    ASSUME KernelInv, mode = "up", wpc \in {"minted", "repair"}, FailClean, log' = log,
           NEW list \in SUBSET Nat, Behind(list), tail' = tail \/ tail' = NoTail
    PROVE  Behind(list)'
  <1>0. /\ wpc' = "idle" /\ writer' = writer /\ sequencer' = RollBackTo(root.seq)
    BY DEF FailClean
  <1>1. /\ wtxn \in Txns /\ root.seq \in Nat /\ sequencer.high_water \in Nat
        /\ sequencer.floor \in Nat /\ writer.active \in Nat /\ ~poisoned
        /\ wtxn.last = sequencer.high_water /\ wtxn.first <= wtxn.last
        /\ RollsBack => wtxn.first = root.seq + 1 \/ wtxn.first = sequencer.floor + 1
    BY UnderWay, KernelNumbers DEF Pending, Placed
  <1>2. wtxn.first <= sequencer'.high_water + 1 /\ sequencer'.high_water \in Nat
    BY <1>0, <1>1 DEF RollBackTo, Txns
  <1>3. \A f \in list : f <= wtxn.first
    BY DEF Behind
  <1>4. \A f \in list : f <= sequencer'.high_water + 1
    BY <1>1, <1>2, <1>3 DEF Txns
  <1>5. (\A f \in list : f <= writer.active) \/ RotationDue
    BY <1>1 DEF Behind
  <1>6. RotationDue' = RotationDue
    BY <1>0 DEF RotationDue
  <1>7. tail'.whole => \A f \in list : f <= tail'.txn.seg
    BY DEF Behind, NoTail
  <1> HIDE DEF RotationDue
  <1> QED
    BY <1>0, <1>4, <1>5, <1>6, <1>7 DEF Behind

\* The writer never goes back before a listed segment.
LEMMA BehindKept ==
    ASSUME KernelInv, mode = "up", Next, mode' = "up", NEW list \in SUBSET Nat, Behind(list)
    PROVE  Behind(list)'
  <1>0. /\ log \in SUBSET Txns /\ wtxn \in Txns /\ root.seq \in Nat /\ writer.active \in Nat
        /\ sequencer.high_water \in Nat
        /\ wpc \in {"idle", "minted", "rotated", "appended", "repair", "barriered"}
    BY KernelNumbers
  <1>1. Writing /\ Tailed
    BY DEF KernelInv, Up
  <1>2. ASSUME NEW n \in 1 .. MaxRecords, TxnMint(n) PROVE Behind(list)'
    <2>1. /\ wpc = "idle" /\ ~poisoned /\ UNCHANGED <<log, tail, writer>>
          /\ \/ wpc' = "minted" /\ wtxn'.first = sequencer.high_water + 1
             \/ wpc' = "idle" /\ poisoned'
      BY <1>2 DEF TxnMint, disk
    <2>2. RotationDue' = RotationDue
      BY <2>1 DEF RotationDue
    <2> HIDE DEF RotationDue
    <2> QED
      BY <2>1, <2>2 DEF Behind
  <1>3. CASE TxnRefuse \/ TxnRotateFail \/ TxnRepair
    <2>1. /\ wpc \in {"minted", "repair"} /\ FailClean /\ log' = log
          /\ tail' = tail \/ tail' = NoTail
      BY <1>3 DEF TxnRefuse, TxnRotateFail, TxnRepair, disk
    <2> QED
      BY <2>1, FailCleanBehind
  <1>4. CASE TxnRotate
    <2>1. /\ wpc = "minted" /\ wpc' = "rotated" /\ writer'.active = wtxn.first
          /\ wtxn'.first = wtxn.first /\ tail' = tail
      BY <1>0, <1>4 DEF TxnRotate, Txns
    <2>2. \A f \in list : f <= wtxn.first
      BY <2>1 DEF Behind
    <2> QED
      BY <2>1, <2>2 DEF Behind
  <1>5. CASE TxnAppend
    <2>1. /\ \/ wpc = "minted" /\ ~RotationDue
             \/ wpc = "rotated"
          /\ wpc' \in {"appended", "repair"} /\ tail'.txn = wtxn
          /\ UNCHANGED <<writer, wtxn>>
      BY <1>5 DEF TxnAppend
    <2>2. ~poisoned /\ wtxn.seg = writer.active
      BY <1>1, <2>1 DEF Writing
    <2>3. \A f \in list : f <= writer.active
      BY <2>1, <2>2 DEF Behind
    <2> QED
      BY <2>1, <2>2, <2>3 DEF Behind
  <1>6. CASE TxnBarrier
    <2>1. /\ wpc = "appended" /\ wpc' = "barriered" /\ writer'.active = writer.active
          /\ wtxn' = wtxn /\ ~tail'.whole
      BY <1>6 DEF TxnBarrier, NoTail
    <2> QED
      BY <2>1 DEF Behind
  <1>7. CASE TxnBarrierFail
    <2>1. /\ wpc = "appended" /\ wpc' = "repair" /\ UNCHANGED <<writer, wtxn, tail>>
      BY <1>7 DEF TxnBarrierFail, disk
    <2> QED
      BY <2>1 DEF Behind
  <1>8. CASE TxnPoison
    <2>1. wpc' = "idle" /\ poisoned' /\ tail' = tail
      BY <1>8 DEF TxnPoison, disk
    <2> QED
      BY <2>1 DEF Behind
  <1>9. CASE TxnInstall
    <2>1. /\ wpc = "barriered" /\ wpc' = "idle" /\ UNCHANGED <<writer, sequencer, tail>>
      BY <1>9 DEF TxnInstall, disk
    <2>2. wtxn \in log /\ wtxn.last = sequencer.high_water
      BY <1>1, <2>1 DEF KernelInv, Up, Barriered, Writing
    <2>3. wtxn.first <= wtxn.last
      BY <2>2 DEF KernelInv, OneHistory, Linked, Placed
    <2>4. \A f \in list : f <= wtxn.first /\ f <= writer.active
      BY <2>1 DEF Behind
    <2>5. \A f \in list : f <= sequencer.high_water + 1
      BY <1>0, <2>2, <2>3, <2>4 DEF Txns
    <2>6. tail.whole => \A f \in list : f <= tail.txn.seg
      BY DEF Behind
    <2> QED
      BY <2>1, <2>4, <2>5, <2>6 DEF Behind
  <1>10. CASE \/ CkptStart \/ CkptRename \/ CkptSync \/ CkptUnlink \/ CkptRetained
              \/ CkptReclaim \/ CkptDone \/ CkptFail
    <2>1. UNCHANGED <<log, tail, wpc, poisoned, sequencer, wtxn, writer>>
      BY <1>10, CkptMoves DEF commits
    <2>2. RotationDue' = RotationDue
      BY <2>1 DEF RotationDue
    <2> HIDE DEF RotationDue
    <2> QED
      BY <2>1, <2>2 DEF Behind
  <1> QED
    BY <1>2, <1>3, <1>4, <1>5, <1>6, <1>7, <1>8, <1>9, <1>10, StaysUp

\* What a walk is past stays past it.
LEMMA NewerKept ==
    ASSUME KernelInv, KernelInv', Moves, UNCHANGED asked, NEW t \in Txns, NEW list \in SUBSET Nat,
           NEW T, Newer(t, list, T)
    PROVE  Newer(t, list, T)'
  <1>0. /\ writer.active \in Nat /\ writer'.active \in Nat /\ wtxn \in Txns
        /\ log \in SUBSET Txns
    BY DEF KernelInv, TypeOK, DiskTypeOK, CommitTypeOK
  <1>1. \A g \in list : g < writer'.active
    BY <1>0 DEF Moves, Newer
  <1>2. tail'.whole => tail'.txn.seg \notin list
    BY <1>0, <1>1 DEF Moves, Newer
  <1>3. \A v \in log' : v.seg \in list => v.last < t.last
    BY <1>0 DEF Moves, Newer
  <1> QED
    BY <1>1, <1>2, <1>3 DEF Newer

\* A transaction that joins the log is in a listed segment or past the list.
LEMMA JoinsNewer ==
    ASSUME KernelInv, KernelInv', Moves, log' # log, UNCHANGED asked,
           asked.head \in Nat, asked.head <= root.seq,
           NEW list \in SUBSET Nat, Behind(list),
           NEW T, list # {} => T \subseteq log, NEW w, w = wtxn
    PROVE  log' = log \cup {w} /\ (w.seg \in list \/ Newer(w, list, T)')
  <1>0. /\ writer.active \in Nat /\ w \in Txns /\ log \in SUBSET Txns /\ root.seq \in Nat
    BY KernelNumbers
  <1>1. /\ log' = log \cup {w} /\ root.seq < w.first /\ w.first <= w.last
        /\ Settled(log, root.seq) /\ wpc = "appended" /\ w.seg = writer.active
        /\ writer'.active = writer.active /\ ~tail'.whole
    BY DEF Moves
  <1>2. root.seq < w.last
    BY <1>0, <1>1 DEF Txns
  <1>3. \A f \in list : f <= writer.active
    BY <1>1 DEF Behind
  <1> SUFFICES ASSUME w.seg \notin list PROVE Newer(w, list, T)'
    BY <1>1
  <1>4. \A v \in log : v.last < w.last
    BY <1>0, <1>1, <1>2 DEF Settled, Txns
  <1>5. \A g \in list : g < writer'.active
    BY <1>0, <1>1, <1>3
  <1>6. asked.head < w.last
    BY <1>0, <1>2 DEF Txns
  <1>7. \A v \in log' : v.seg \in list => v.last < w.last
    BY <1>1, <1>4
  <1> QED
    BY <1>1, <1>4, <1>5, <1>6, <1>7 DEF Newer

LEMMA ListingKept ==
    ASSUME KernelInv, KernelInv', mode = "up", Next, mode' = "up", UNCHANGED asked,
           asked.head \in Nat, asked.head <= root.seq,
           NEW list \in SUBSET Nat, Listing(list)
    PROVE  Listing(list)'
  <1>0. /\ log \in SUBSET Txns /\ wtxn \in Txns /\ root.seq \in Nat /\ Moves
    BY KernelNumbers, StepMoves
  <1>1. Behind(list) /\ Behind(list)'
    BY BehindKept DEF Listing
  <1>2. CASE log' = log
    <2>1. \A t \in log : Newer(t, list, {}) => Newer(t, list, {})'
      BY <1>0, NewerKept
    <2>2. Fresh(list)'
      <3> SUFFICES ASSUME NEW t \in log, t.seg \in segs'
                   PROVE  t.seg \in list \/ Newer(t, list, {})'
        BY <1>2 DEF Fresh
      <3>1. t.seg \in segs
        BY <1>0 DEF Moves
      <3> QED
        BY <2>1, <3>1 DEF Listing, Fresh
    <2>3. FromGenesis(list)'
      BY <1>2, <2>1 DEF Listing, FromGenesis
    <2>4. InOrder(list, log')
      BY <1>2 DEF Listing
    <2> QED
      BY <1>1, <2>2, <2>3, <2>4 DEF Listing
  <1>3. CASE log' # log
    <2>1. PICK w : w = wtxn
      OBVIOUS
    <2>2. log' = log \cup {w} /\ (w.seg \in list \/ Newer(w, list, {})')
      BY <1>0, <1>1, <1>3, <2>1, JoinsNewer
    <2>3. \A t \in log : Newer(t, list, {}) => Newer(t, list, {})'
      BY <1>0, NewerKept
    <2>4. segs' = segs /\ w.seg = writer.active /\ \A f \in list : f <= writer.active
      BY <1>0, <1>1, <1>3, <2>1 DEF Moves, Behind
    <2>5. Fresh(list)'
      BY <2>2, <2>3, <2>4 DEF Listing, Fresh
    <2>6. FromGenesis(list)'
      BY <2>2, <2>3 DEF Listing, FromGenesis
    <2>7. InOrder(list, log')
      <3>1. writer.active \in Nat
        BY KernelNumbers
      <3>2. \A f \in list : ~(w.seg < f)
        BY <2>4, <3>1
      <3> QED
        BY <2>2, <3>2 DEF Listing, InOrder
    <2> QED
      BY <1>1, <2>5, <2>6, <2>7 DEF Listing
  <1> QED
    BY <1>2, <1>3

\* A base goes on saying what the log says of its positions.
LEMMA SoundKept ==
    ASSUME KernelInv, KernelInv', Moves, NEW r \in Roots, Sound(r)
    PROVE  Sound(r)'
  <1>0. /\ log \in SUBSET Txns /\ wtxn \in Txns /\ root.seq \in Nat /\ root'.seq \in Nat
        /\ r.seq \in Nat
    BY DEF KernelInv, TypeOK, DiskTypeOK, CommitTypeOK, Roots
  <1>1. Whole(r, seen')
    BY DEF Moves, Sound, Whole
  <1>2. Covers(r, log', decayed')
    <2> SUFFICES ASSUME NEW t \in log', t.last <= r.seq, ~Lost(t, decayed)
                 PROVE  t \in r.world
      BY DEF Moves, Covers
    <2>1. t \in log
      BY <1>0 DEF Moves, Sound, Txns
    <2> QED
      BY <2>1 DEF Sound, Covers
  <1>3. r.seq <= root'.seq
    BY <1>0 DEF Moves, Sound
  <1> QED
    BY <1>1, <1>2, <1>3 DEF Sound

LEMMA ScanningKept ==
    ASSUME KernelInv, KernelInv', mode = "up", Next, mode' = "up",
           UNCHANGED <<asked, rbase, todo, taken>>, HistoryTypeOK,
           asked.head <= root.seq, Scanning
    PROVE  Scanning'
  <1>0. /\ log \in SUBSET Txns /\ wtxn \in Txns /\ root.seq \in Nat /\ Moves
        /\ todo \in SUBSET Nat /\ taken \in SUBSET Txns /\ asked.head \in Nat
    BY KernelNumbers, StepMoves DEF HistoryTypeOK
  <1>1. PICK list, T : list = todo /\ T = taken
    OBVIOUS
  <1>2. list \in SUBSET Nat /\ todo' = list /\ taken' = T
    BY <1>0, <1>1
  <1>3. Behind(list) /\ Behind(list)'
    BY <1>1, <1>2, BehindKept DEF Scanning
  <1>4. \A t \in log : Newer(t, list, T) => Newer(t, list, T)'
    BY <1>0, <1>2, NewerKept
  <1>5. log' = log \/ \E w : /\ w = wtxn /\ log' = log \cup {w}
                             /\ w.seg \in list \/ Newer(w, list, T)'
    <2> SUFFICES ASSUME log' # log
                 PROVE  \E w : /\ w = wtxn /\ log' = log \cup {w}
                               /\ w.seg \in list \/ Newer(w, list, T)'
      OBVIOUS
    <2>1. list # {} => T \subseteq log
      BY <1>1 DEF Scanning
    <2>2. PICK w : w = wtxn
      OBVIOUS
    <2>3. log' = log \cup {w} /\ (w.seg \in list \/ Newer(w, list, T)')
      BY <1>0, <1>2, <1>3, <2>1, <2>2, JoinsNewer
    <2> QED
      BY <2>2, <2>3
  <1>6. log \subseteq log'
    BY <1>5
  <1>7. InOrder(todo', log')
    <2>1. InOrder(list, log)
      BY <1>1 DEF Scanning
    <2>2. log' # log => /\ log' = log \cup {wtxn} /\ wtxn.seg = writer.active
                        /\ \A f \in list : f <= writer.active
      BY <1>0, <1>3 DEF Moves, Behind
    <2>3. writer.active \in Nat
      BY KernelNumbers
    <2>4. log' # log => \A f \in list : ~(wtxn.seg < f)
      BY <1>2, <2>2, <2>3
    <2> QED
      BY <1>2, <2>1, <2>2, <2>4 DEF InOrder
  <1>8. \A t \in taken' : t \in log' \/ (todo' = {} /\ asked'.head < t.last)
    BY <1>6 DEF Scanning
  <1>9. \A t \in taken', f \in todo' : t.last < f
    BY DEF Scanning
  <1>10. \A t \in log' : rbase'.seq < t.last =>
            t \in taken' \/ t.seg \in todo' \/ Newer(t, todo, taken)'
    <2> DEFINE N(t) == Newer(t, list, T)'
    <2>1. \A t \in log : rbase.seq < t.last => t \in T \/ t.seg \in list \/ N(t)
      BY <1>1, <1>4 DEF Scanning
    <2>2. \A t \in log' : rbase.seq < t.last => t \in T \/ t.seg \in list \/ N(t)
      <3> HIDE DEF N
      <3>1. log' = log \/ \E w : /\ w = wtxn /\ log' = log \cup {w}
                                 /\ w.seg \in list \/ N(w)
        BY <1>5 DEF N
      <3> QED
        BY <2>1, <3>1
    <2> QED
      BY <1>2, <2>2 DEF Newer
  <1>11. Behind(todo)'
    BY <1>2, <1>3 DEF Behind
  <1>12. ~ChainBreak(rbase', TakenAbove')
    BY DEF Scanning, TakenAbove
  <1> QED
    BY <1>7, <1>8, <1>9, <1>10, <1>11, <1>12 DEF Scanning

\* Links are given in order, each under the applier lock.
LEMMA LinksGrow ==
    ASSUME KernelInv, mode = "up", Next, mode' = "up"
    PROVE  /\ tries \in Nat /\ tries' \in Nat /\ tries <= tries'
           /\ wpc' # "idle" => \/ wtxn'.link = tries + 1
                               \/ wpc # "idle" /\ wtxn'.link = wtxn.link
  <1>0. tries \in Nat /\ wtxn \in Txns
    BY KernelNumbers, KernelConstants DEF KernelInv, TypeOK, CommitTypeOK, GhostTypeOK
  <1>1. CASE \E n \in 1 .. MaxRecords : TxnMint(n)
    <2>1. /\ wpc = "idle" /\ tries' = tries + 1
          /\ \/ wtxn'.link = tries + 1
             \/ wpc' = wpc
      BY <1>1 DEF TxnMint
    <2> QED
      BY <1>0, <2>1
  <1>2. CASE \/ TxnRefuse \/ TxnRotate \/ TxnRotateFail \/ TxnAppend
             \/ TxnBarrier \/ TxnBarrierFail \/ TxnRepair \/ TxnPoison \/ TxnInstall
    <2>1. tries' = tries /\ wpc # "idle"
      BY <1>2 DEF TxnRefuse, TxnRotate, TxnRotateFail, TxnAppend, TxnBarrier, TxnBarrierFail,
                  TxnRepair, TxnPoison, TxnInstall, FailClean, budget
    <2>2. wpc' = "idle" \/ wtxn' = wtxn \/ wtxn' = [wtxn EXCEPT !.seg = wtxn.first]
      BY <1>2 DEF TxnRefuse, TxnRotate, TxnRotateFail, TxnAppend, TxnBarrier, TxnBarrierFail,
                  TxnRepair, TxnPoison, TxnInstall, FailClean
    <2>3. wtxn' = [wtxn EXCEPT !.seg = wtxn.first] => wtxn'.link = wtxn.link
      BY <1>0 DEF Txns
    <2> QED
      BY <1>0, <2>1, <2>2, <2>3
  <1>3. CASE \/ CkptStart \/ CkptRename \/ CkptSync \/ CkptUnlink \/ CkptRetained
             \/ CkptReclaim \/ CkptDone \/ CkptFail
    <2>1. tries' = tries
      BY <1>3 DEF CkptStart, CkptRename, CkptSync, CkptUnlink, CkptRetained, CkptReclaim,
                  CkptDone, CkptFail, budget
    <2>2. wpc' = wpc /\ wtxn' = wtxn
      BY <1>3, CkptMoves DEF commits
    <2> QED
      BY <1>0, <2>1, <2>2
  <1> QED
    BY <1>1, <1>2, <1>3, StaysUp

\* Whatever the kernel does, what was in the log before the append stays as it
\* was, and all that joins it is newer than what was asked for.
LEMMA StubKept ==
    ASSUME KernelInv, mode = "up", Next, mode' = "up",
           UNCHANGED <<asked, rbase, todo, taken, stub>>, HistoryTypeOK,
           asked.head <= root.seq, Stubbed
    PROVE  Stubbed'
  <1>0. /\ log \in SUBSET Txns /\ wtxn \in Txns /\ root.seq \in Nat /\ Moves
        /\ asked.head \in Nat /\ stub.txn \in Txns /\ stub.txn.link \in Nat
    BY KernelNumbers, StepMoves DEF HistoryTypeOK, Txns
  <1>1. /\ tries \in Nat /\ tries' \in Nat /\ tries <= tries'
        /\ wpc' # "idle" => \/ wtxn'.link = tries + 1
                            \/ wpc # "idle" /\ wtxn'.link = wtxn.link
    BY LinksGrow
  <1>2. stub.txn.link <= tries /\ (wpc # "idle" => stub.txn.link <= wtxn.link)
    BY DEF Stubbed
  <1>3. stub'.txn.link <= tries' /\ (wpc' # "idle" => stub'.txn.link <= wtxn'.link)
    BY <1>0, <1>1, <1>2
  <1>4. \/ log' = log
        \/ /\ log' = log \cup {wtxn} /\ stub.txn.link <= wtxn.link
           /\ asked.head < wtxn.last
    BY <1>0, <1>2 DEF Moves, Txns
  <1>5. Earlier' = Earlier
    <2>1. wtxn.link \in Nat
      BY <1>0 DEF Txns
    <2> QED
      BY <1>0, <1>4, <2>1 DEF Earlier
  <1>6. \A t \in log' : t.link < stub'.txn.link \/ asked'.head < t.last
    BY <1>4 DEF Stubbed
  <1> QED
    BY <1>3, <1>5, <1>6 DEF Stubbed

\* A step of the read that leaves the scan alone.
LEMMA ScanningStutters ==
    ASSUME UNCHANGED <<vars, asked, rbase, todo, taken>>, Scanning
    PROVE  Scanning'
  BY DEF Scanning, Behind, Newer, TakenAbove, RotationDue, vars, disk, commits

-----------------------------------------------------------------------------
(* What a read finds *)

\* While nothing decayed, the log up to the root is the root's world.
LEMMA LogIsWorld ==
    ASSUME KernelInv, mode = "up", decayed = {}
    PROVE  /\ root.world \subseteq log /\ \A t \in log : t.last <= root.seq => t \in root.world
           /\ \A t \in log : Placed(t)
           /\ \A t, u \in log : t = u \/ t.last < u.first \/ u.last < t.first
           /\ ~ChainBreak(Genesis, log) /\ seen \subseteq log
  <1>1. /\ Serving /\ Kept(log, seen, decayed) /\ \A t \in log : Placed(t)
    BY DEF KernelInv, Up, OneHistory, Linked
  <1>2. seen \subseteq log
    BY <1>1 DEF Kept, Lost
  <1>3. root.world \subseteq seen /\ \A t \in log : t.last <= root.seq => t \in root.world
    BY <1>1 DEF Serving, Whole, Covers, Lost
  <1> QED
    BY <1>1, <1>2, <1>3 DEF Kept

\* A base says of its positions what the root says.
LEMMA SoundIsPrefix ==
    ASSUME KernelInv, mode = "up", decayed = {}, NEW r \in Roots, Sound(r)
    PROVE  /\ r.world = {t \in root.world : t.last <= r.seq}
           /\ r.world \subseteq log /\ \A t \in log : t.last <= r.seq => t \in r.world
           /\ Headed(r)
           /\ \A t \in log : t.last = r.seq => t.link = r.chain
  <1>0. /\ log \in SUBSET Txns /\ root.seq \in Nat /\ r.seq \in Nat /\ Ceiling \in Nat
    BY KernelNumbers, KernelConstants DEF Roots
  <1>1. /\ Whole(r, seen) /\ Covers(r, log, decayed) /\ r.seq <= root.seq
    BY DEF Sound
  <1>2. Headed(r) /\ r.world \subseteq log
    BY <1>1, LogIsWorld DEF Whole
  <1>3. \A t \in log : t.last <= r.seq => t \in r.world
    BY <1>1 DEF Covers, Lost
  <1>4. \A t \in r.world : t.last <= r.seq
    BY <1>2 DEF Headed
  <1>5. r.world \subseteq root.world
    BY <1>0, <1>1, <1>2, <1>4, LogIsWorld DEF Txns
  <1>6. ASSUME NEW t \in log, t.last = r.seq PROVE t.link = r.chain
    <2>1. t \in r.world
      BY <1>0, <1>3, <1>6
    <2>2. PICK h \in r.world : h.last = r.seq /\ h.link = r.chain
      BY <1>2, <2>1 DEF Headed
    <2>3. h \in log /\ h.last = t.last
      BY <1>2, <1>6, <2>2
    <2>4. h = t
      BY <1>0, <2>3, LogIsWorld DEF Txns, Placed
    <2> QED
      BY <2>2, <2>4
  <1> QED
    BY <1>2, <1>3, <1>4, <1>5, <1>6, LogIsWorld

\* Of a chained log, what a scan took past a base up to some position is
\* chained onto the base.
LEMMA PrefixAbove ==
    ASSUME NEW r \in Roots, NEW L \in SUBSET Txns, Headed(r), r.world \subseteq L,
           \A t \in L : t.last <= r.seq => t \in r.world,
           ~ChainBreak(Genesis, L),
           NEW A \in SUBSET L, \A t \in A : r.seq < t.last,
           \A t \in A, u \in L : r.seq < u.last /\ u.last < t.last => u \in A
    PROVE  ~ChainBreak(r, A)
  <1>0. r.seq \in Nat
    BY DEF Roots
  <1>1. ASSUME NEW t \in A, NEW u \in A, FollowsIn(A, u, t) PROVE t.prev = u.link
    <2>1. \A w \in L : u.last < w.last => r.seq < w.last
      BY <1>0 DEF Txns
    <2>2. FollowsIn(L, u, t) /\ u.last < t.last
      BY <1>1, <2>1 DEF FollowsIn
    <2> QED
      BY <2>2 DEF ChainBreak
  <1>2. ASSUME NEW t \in A, ~\E u \in A : u.last < t.last PROVE t.prev = r.chain
    <2>0. \A w \in L : w.last < t.last => w.last <= r.seq /\ w \in r.world
      BY <1>0, <1>2 DEF Txns
    <2>1. CASE r.world = {}
      <3>1. r.seq = 0 /\ r.chain = 0
        BY <2>1 DEF Headed
      <3>2. ~\E u \in L : u.last < t.last
        BY <2>0, <2>1
      <3> QED
        BY <3>1, <3>2 DEF ChainBreak, Genesis
    <2>2. CASE r.world # {}
      <3>1. PICK h \in r.world : /\ h.last = r.seq /\ h.link = r.chain
                                 /\ \A u \in r.world : u.last <= r.seq
        BY <2>2 DEF Headed
      <3>2. FollowsIn(L, h, t) /\ h \in L /\ h.last < t.last
        BY <1>0, <2>0, <3>1 DEF FollowsIn, Txns
      <3> QED
        BY <3>1, <3>2 DEF ChainBreak
    <2> QED
      BY <2>1, <2>2
  <1> QED
    BY <1>1, <1>2 DEF ChainBreak

\* A base that stands in the directory, and genesis under a listing that
\* reaches it, are covered by the listing.
Spanned(s, list) ==
    \A t \in log : s < t.last => t.seg \in list \/ Newer(t, list, {})

LEMMA StandingSpanned ==
    ASSUME KernelInv, NEW cp \in cps, NEW list, Fresh(list)
    PROVE  Spanned(cp.seq, list)
  <1>1. Reaches(segs, cp.seq, log)
    BY Standing DEF Stands, Directory
  <1>2. cp.seq \in Nat /\ log \in SUBSET Txns
    BY KernelNumbers DEF Bases
  <1>3. \A t \in log : cp.seq < t.last => t.seg \in segs
    BY <1>1, <1>2 DEF Reaches, Txns
  <1> QED
    BY <1>3 DEF Spanned, Fresh

\* A scan begins over the segments of the listing past the base.
LEMMA ScanBegins ==
    ASSUME KernelInv, NEW list \in SUBSET Nat, Listing(list), NEW r \in Roots,
           Spanned(r.seq, list), UNCHANGED <<vars, asked>>,
           rbase' = r, todo' = ScannedAbove(list, r.seq), taken' = {}
    PROVE  Scanning'
  <1>0. /\ UNCHANGED <<log, tail, wpc, poisoned, sequencer, wtxn, writer>>
        /\ log \in SUBSET Txns /\ r.seq \in Nat
    BY KernelNumbers DEF vars, disk, commits, Roots
  <1>1. todo' \subseteq list
    BY DEF ScannedAbove
  <1>2. Behind(todo)'
    <2>1. RotationDue' = RotationDue
      BY <1>0 DEF RotationDue
    <2>2. Behind(list)
      BY DEF Listing
    <2> HIDE DEF RotationDue
    <2> QED
      BY <1>0, <1>1, <2>1, <2>2 DEF Behind
  <1>3. InOrder(list, log) /\ InOrder(todo', log')
    BY <1>0, <1>1 DEF Listing, InOrder
  <1>4. \A t \in log' : rbase'.seq < t.last =>
            t \in taken' \/ t.seg \in todo' \/ Newer(t, todo, taken)'
    <2> SUFFICES ASSUME NEW t \in log, r.seq < t.last, t.seg \notin todo'
                 PROVE  Newer(t, todo, taken)'
      BY <1>0
    <2>1. t.seg \notin list
      BY <1>0, <1>3, ScansAbove
    <2>2. Newer(t, list, {})
      BY <2>1 DEF Spanned
    <2> QED
      BY <1>0, <1>1, <2>2 DEF Newer
  <1>5. ~ChainBreak(rbase', TakenAbove')
    BY DEF ChainBreak, TakenAbove
  <1> QED
    BY <1>2, <1>3, <1>4, <1>5 DEF Scanning

-----------------------------------------------------------------------------
(* The scan *)

\* One segment read: what was taken is again the history past the base up to
\* some position, with the append under way on top of it if that is the last.
LEMMA ScanReads ==
    ASSUME KernelInv, mode = "up", decayed = {}, HistoryTypeOK, Scanning, Sound(rbase),
           asked.head <= root.seq,
           NEW seg \in todo, \A f \in todo : seg <= f,
           UNCHANGED <<vars, asked, rbase>>, taken' = taken \cup FramesIn(seg),
           todo' = todo \ {seg}
    PROVE  Scanning'
  <1>0. /\ UNCHANGED <<log, tail, wpc, poisoned, sequencer, wtxn, writer>>
        /\ log \in SUBSET Txns /\ rbase \in Roots /\ rbase.seq \in Nat /\ root.seq \in Nat
        /\ todo \in SUBSET Nat /\ taken \in SUBSET Txns /\ tail.txn \in Txns
        /\ asked.head \in Nat /\ Ceiling \in Nat
    BY KernelNumbers, KernelConstants DEF vars, disk, commits, Roots, HistoryTypeOK
  <1>1. /\ Behind(todo) /\ InOrder(todo, log) /\ taken \subseteq log
        /\ \A t \in taken, f \in todo : t.last < f
        /\ \A t \in log : rbase.seq < t.last =>
              t \in taken \/ t.seg \in todo \/ Newer(t, todo, taken)
    BY DEF Scanning
  <1>2. \A t \in log : Placed(t)
    BY LogIsWorld
  <1> DEFINE hot == tail.whole /\ tail.txn.seg = seg
             L == log \cup {t \in {tail.txn} : hot}
  <1>3. taken' = taken \cup {t \in log : t.seg = seg} \cup {t \in {tail.txn} : hot}
    BY DEF FramesIn
  <1>4. hot => todo = {seg}
    <2>1. hot => \A f \in todo : f <= seg
      BY <1>1 DEF Behind
    <2> HIDE DEF hot
    <2>2. hot => \A f \in todo : f = seg
      BY <1>0, <2>1
    <2> QED
      BY <2>2
  <1>5. hot => /\ root.seq < tail.txn.last /\ \A t \in log : t.last <= root.seq
               /\ ~ChainBreak(Genesis, log \cup {tail.txn})
    <2> SUFFICES ASSUME hot
                 PROVE  /\ root.seq < tail.txn.last /\ \A t \in log : t.last <= root.seq
                        /\ ~ChainBreak(Genesis, log \cup {tail.txn})
      OBVIOUS
    <2>1. /\ Pending(tail.txn, root, log, log \cup seen \cup failed, tries)
          /\ Seated(tail.txn.seg, leaves, clist)
      BY DEF KernelInv, Up, Tailed
    <2>2. Kept(log \cup {tail.txn}, seen, decayed)
      BY <1>0, <2>1, ArrivesKeeps
    <2> QED
      BY <1>0, <2>1, <2>2 DEF Kept, Pending, Placed, Settled, Txns
  <1>6. rbase.seq <= root.seq
    BY DEF Sound
  <1> HIDE DEF hot
  <1>7. /\ ~ChainBreak(Genesis, L) /\ L \in SUBSET Txns /\ rbase.world \subseteq L
        /\ Headed(rbase) /\ \A t \in L : t.last <= rbase.seq => t \in rbase.world
    <2>1. CASE hot
      <3>1. L = log \cup {tail.txn}
        BY <2>1
      <3>2. ~(tail.txn.last <= rbase.seq)
        BY <1>0, <1>5, <1>6, <2>1 DEF Txns
      <3> QED
        BY <1>0, <1>5, <2>1, <3>1, <3>2, SoundIsPrefix
    <2>2. CASE ~hot
      <3>1. L = log
        BY <2>2
      <3> QED
        BY <1>0, <3>1, SoundIsPrefix, LogIsWorld
    <2> QED
      BY <2>1, <2>2
  <1>8. \A t \in taken' : t \in L /\ (t \in log \/ (t = tail.txn /\ hot))
    BY <1>1, <1>3
  <1>9. ASSUME NEW t \in taken', NEW g \in todo, g # seg PROVE t.last < g
    <2>1. ~hot /\ seg < g
      BY <1>0, <1>4, <1>9
    <2>2. t \in taken \/ (t \in log /\ t.seg = seg)
      BY <1>3, <1>9, <2>1
    <2> QED
      BY <1>1, <2>1, <2>2 DEF InOrder
  <1>10. ASSUME NEW t \in taken', NEW u \in log, Newer(u, todo, taken) PROVE t.last < u.last
    <2>1. ~hot
      BY <1>10 DEF Newer, hot
    <2>2. t \in taken \/ (t \in log /\ t.seg = seg)
      BY <1>3, <1>10, <2>1
    <2> QED
      BY <1>10, <2>2 DEF Newer
  <1>11. ASSUME NEW t \in taken', NEW u \in L, rbase.seq < u.last, u.last < t.last
         PROVE  u \in taken'
    <2>0. t \in Txns /\ u \in Txns
      BY <1>7, <1>8
    <2>1. u \in log
      <3> SUFFICES ASSUME u = tail.txn, hot PROVE FALSE
        OBVIOUS
      <3>1. t.last <= tail.txn.last
        BY <1>0, <1>5, <1>8 DEF Txns
      <3> QED
        BY <1>11, <2>0, <3>1 DEF Txns
    <2>2. CASE u.seg \in todo /\ u.seg # seg
      <3>1. t.last < u.seg
        BY <1>9, <2>2
      <3> QED
        BY <1>0, <1>2, <1>11, <2>0, <2>1, <3>1 DEF Placed, Txns
    <2>3. CASE Newer(u, todo, taken)
      <3>1. t.last < u.last
        BY <1>10, <2>1, <2>3
      <3> QED
        BY <1>11, <2>0, <3>1 DEF Txns
    <2> QED
      BY <1>1, <1>3, <1>11, <2>1, <2>2, <2>3
  <1>12. ~ChainBreak(rbase', TakenAbove')
    <2> DEFINE A == {t \in taken' : rbase.seq < t.last}
    <2>1. A \subseteq L /\ \A t \in A : rbase.seq < t.last
      BY <1>8
    <2>2. \A t \in A, u \in L : rbase.seq < u.last /\ u.last < t.last => u \in A
      BY <1>11
    <2>3. ~ChainBreak(rbase, A)
      <3> HIDE DEF A, L
      <3> QED
        BY <1>0, <1>7, <2>1, <2>2, PrefixAbove
    <2> QED
      BY <2>3 DEF TakenAbove
  <1>13. Behind(todo)'
    <2>1. RotationDue' = RotationDue
      BY <1>0 DEF RotationDue
    <2> HIDE DEF RotationDue
    <2> QED
      BY <1>0, <1>1, <2>1 DEF Behind
  <1>14. InOrder(todo', log')
    BY <1>0, <1>1 DEF InOrder
  <1>15. \A t \in taken' : t \in log' \/ (todo' = {} /\ asked'.head < t.last)
    <2>1. hot => todo' = {} /\ asked.head < tail.txn.last
      BY <1>0, <1>4, <1>5 DEF Txns
    <2> QED
      BY <1>0, <1>8, <2>1
  <1>16. \A t \in taken', f \in todo' : t.last < f
    BY <1>9
  <1>17. \A t \in log' : rbase'.seq < t.last =>
            t \in taken' \/ t.seg \in todo' \/ Newer(t, todo, taken)'
    <2> SUFFICES ASSUME NEW t \in log, rbase.seq < t.last, t \notin taken', t.seg \notin todo'
                 PROVE  Newer(t, todo, taken)'
      BY <1>0
    <2>1. t \notin taken /\ t.seg \notin todo
      BY <1>3
    <2>2. Newer(t, todo, taken)
      BY <1>1, <2>1
    <2>3. \A v \in taken' : v.last < t.last
      BY <1>10, <2>2
    <2> QED
      BY <1>0, <2>2, <2>3 DEF Newer
  <1> QED
    BY <1>12, <1>13, <1>14, <1>15, <1>16, <1>17 DEF Scanning

\* The read goes into the append under way: that is in the last file it has to
\* read, on top of all that is in the log.
LEMMA GoesInto ==
    ASSUME KernelInv, mode = "up", decayed = {}, HistoryTypeOK, Scanning, Sound(rbase),
           asked.head <= root.seq, UNCHANGED <<vars, asked>>, HistInto
    PROVE  Stubbed'
  <1>0. /\ UNCHANGED <<log, wpc, wtxn, tries, asked, rbase, todo, taken>> /\ rbase \in Roots
        /\ log \in SUBSET Txns /\ wtxn \in Txns /\ root.seq \in Nat /\ asked.head \in Nat
        /\ todo \in SUBSET Nat /\ writer.active \in Nat /\ stub'.txn = wtxn
        /\ wpc \in {"appended", "repair"} /\ wtxn.seg \in todo
        /\ \A f \in todo : wtxn.seg <= f
    BY KernelNumbers
       DEF vars, disk, commits, budget, HistoryTypeOK, HistInto, NextFile
  <1>1. /\ Pending(wtxn, root, log, log \cup seen \cup failed, tries)
        /\ wtxn.seg = writer.active /\ tries \in Nat
    BY <1>0, UnderWay
  <1>2. Seated(wtxn.seg, leaves, clist)
    BY <1>0, <1>1 DEF KernelInv, Up, Rotating
  <1>3. ~ChainBreak(Genesis, log \cup {wtxn})
    BY <1>0, <1>1, <1>2, ArrivesKeeps DEF Kept
  <1>4. todo = {wtxn.seg}
    <2>1. \A f \in todo : f <= wtxn.seg
      BY <1>0, <1>1 DEF Scanning, Behind
    <2>2. \A f \in todo : f = wtxn.seg
      BY <1>0, <1>1, <2>1
    <2> QED
      BY <1>0, <2>2
  <1>5. \A t \in log : t.link < wtxn.link /\ t.last < wtxn.last
    BY <1>0, <1>1 DEF Pending, Placed, Settled, Txns
  <1>6. Earlier' = log
    BY <1>0, <1>5 DEF Earlier
  <1>7. taken \subseteq log
    BY <1>0 DEF Scanning
  <1>8. rbase.world \subseteq log
    BY <1>0, SoundIsPrefix
  <1>9. \A t \in log : rbase.seq < t.last => t \in taken \/ t.seg = wtxn.seg
    <2>1. \A t \in log : ~Newer(t, todo, taken)
      BY <1>0, <1>1 DEF Newer
    <2> QED
      BY <1>4, <2>1 DEF Scanning
  <1>10. asked.head < wtxn.last
    BY <1>0, <1>1 DEF Pending, Placed, Txns
  <1>11. wtxn.link <= tries /\ wtxn.link <= wtxn.link
    BY <1>0, <1>1 DEF Pending, Txns
  <1> QED
    BY <1>0, <1>3, <1>4, <1>5, <1>6, <1>7, <1>8, <1>9, <1>10, <1>11 DEF Stubbed

\* A read that ends where the append was truncated has all it was asked for.
LEMMA CutEnds ==
    ASSUME KernelInv, mode = "up", decayed = {}, HistoryTypeOK, Scanning, Stubbed,
           Sound(rbase), rbase.seq <= asked.head, UNCHANGED <<vars, asked, rbase>>,
           NEW all \in BOOLEAN,
           taken' = taken \cup {t \in {stub.txn} : all}
                \cup {t \in log : t.seg = stub.txn.seg /\ t.link < stub.txn.link},
           todo' = todo \ {stub.txn.seg}
    PROVE  Scanning'
  <1>0. /\ log' = log /\ log \in SUBSET Txns /\ rbase \in Roots /\ rbase.seq \in Nat
        /\ stub.txn \in Txns /\ asked.head \in Nat /\ todo' = {}
    BY KernelNumbers DEF vars, disk, Roots, HistoryTypeOK, Stubbed
  <1> DEFINE L == Earlier \cup {stub.txn}
             In == {t \in Earlier : t.seg = stub.txn.seg}
  <1>1. taken' = taken \cup {t \in {stub.txn} : all} \cup In
    BY DEF Earlier
  <1>2. /\ taken \subseteq Earlier /\ Earlier \subseteq log /\ rbase.world \subseteq Earlier
        /\ \A t \in Earlier : /\ t.last < stub.txn.last
                              /\ rbase.seq < t.last => t \in taken \/ t \in In
        /\ ~ChainBreak(Genesis, L) /\ asked.head < stub.txn.last
        /\ \A t \in log : t \in Earlier \/ asked.head < t.last
    BY DEF Stubbed, Earlier
  <1>3. Headed(rbase) /\ \A t \in log : t.last <= rbase.seq => t \in rbase.world
    BY <1>0, SoundIsPrefix
  <1>4. \A t \in taken' : t \in log' \/ (todo' = {} /\ asked'.head < t.last)
    BY <1>0, <1>1, <1>2
  <1>5. \A t \in log' : rbase'.seq < t.last =>
            t \in taken' \/ t.seg \in todo' \/ Newer(t, todo, taken)'
    BY <1>0, <1>1, <1>2 DEF Newer
  <1>6. ~ChainBreak(rbase', TakenAbove')
    <2> DEFINE A == {t \in taken' : rbase.seq < t.last}
    <2>1. L \in SUBSET Txns /\ rbase.world \subseteq L /\ A \subseteq L
      BY <1>0, <1>1, <1>2
    <2>2. \A u \in Earlier : rbase.seq < u.last => u \in A
      BY <1>1, <1>2
    <2>3. \A t \in A : t.last <= stub.txn.last
      BY <1>0, <1>2, <2>1 DEF Txns
    <2>4. \A t \in A, u \in L : rbase.seq < u.last /\ u.last < t.last => u \in A
      <3>1. \A t \in A : ~(stub.txn.last < t.last)
        BY <1>0, <2>1, <2>3 DEF Txns
      <3> QED
        BY <2>2, <3>1
    <2>5. rbase.seq < stub.txn.last
      BY <1>0, <1>2 DEF Txns
    <2>6. \A t \in L : t.last <= rbase.seq => t \in rbase.world
      BY <1>0, <1>2, <1>3, <2>5 DEF Txns
    <2>7. ~ChainBreak(rbase, A)
      <3>1. \A t \in A : rbase.seq < t.last
        OBVIOUS
      <3> HIDE DEF A, L
      <3> QED
        BY <1>0, <1>2, <1>3, <2>1, <2>4, <2>6, <3>1, PrefixAbove
    <2> QED
      BY <2>7 DEF TakenAbove
  <1>7. Behind(todo)' /\ InOrder(todo', log')
    BY <1>0 DEF Behind, InOrder
  <1>8. \A t \in taken', f \in todo' : t.last < f
    BY <1>0
  <1> QED
    BY <1>4, <1>5, <1>6, <1>7, <1>8 DEF Scanning

\* A scan that is through has all of the history asked for, and halts nowhere.
LEMMA ScanIsExact ==
    ASSUME KernelInv, mode = "up", decayed = {}, HistoryTypeOK, Scanning, Sound(rbase),
           asked.head <= root.seq, rbase.seq <= asked.head, todo = {}
    PROVE  /\ ~HaltsAnywhere /\ Above(rbase, taken) = TakenAbove
           /\ rbase.world = {t \in root.world : t.last <= rbase.seq}
           /\ \A t \in TakenAbove : t.last <= asked.head => t \in root.world
           /\ \A t \in root.world :
                 rbase.seq < t.last /\ t.last <= asked.head => t \in TakenAbove
  <1>0. /\ log \in SUBSET Txns /\ rbase \in Roots /\ rbase.seq \in Nat /\ root.seq \in Nat
        /\ taken \in SUBSET Txns /\ asked.head \in Nat
    BY KernelNumbers DEF Roots, HistoryTypeOK
  <1>1. \A t \in taken : t \in log \/ asked.head < t.last
    BY DEF Scanning
  <1>2. \A t \in log : rbase.seq < t.last => t \in taken \/ asked.head < t.last
    BY DEF Scanning, Newer
  <1>3. Above(rbase, taken) = TakenAbove
    BY DEF Above, Readable, Decayed, TakenAbove
  <1>4. ~FatalRunAnywhere
    BY DEF FatalRunAnywhere, Decayed
  <1>5. rbase.seq <= root.seq /\ \A t \in log : t.last = rbase.seq => t.link = rbase.chain
    BY <1>0, SoundIsPrefix DEF Sound
  <1>6. \A t \in taken : t.last <= asked.head => t \in log
    BY <1>0, <1>1 DEF Txns
  <1>7. \A t \in TakenAbove : t.last <= asked.head => t \in root.world
    <2>1. \A t \in taken : t.last <= asked.head => t.last <= root.seq
      BY <1>0 DEF Txns
    <2> QED
      BY <1>6, <2>1, LogIsWorld DEF TakenAbove
  <1>8. \A t \in root.world : rbase.seq < t.last /\ t.last <= asked.head => t \in TakenAbove
    <2>1. root.world \subseteq log
      BY LogIsWorld
    <2> QED
      BY <1>0, <1>2, <2>1 DEF TakenAbove, Txns
  <1>9. rbase.seq <= asked.head => ~BaseMismatch(rbase, taken)
    BY <1>0, <1>5, <1>6 DEF BaseMismatch, Readable
  <1>10. ~ChainBreak(rbase, Above(rbase, taken))
    BY <1>3 DEF Scanning
  <1> QED
    BY <1>0, <1>3, <1>4, <1>5, <1>7, <1>8, <1>9, <1>10, SoundIsPrefix DEF HaltsAnywhere

-----------------------------------------------------------------------------
(* The steps of a read *)

Typed == HistoryTypeOK /\ Asking /\ Choosing

\* Where a read's question stands.
LEMMA Asked ==
    ASSUME HistoryInv
    PROVE  /\ asked.read \in {"world", "slot", "bounds"} /\ asked.at \in Nat /\ asked.head \in Nat
           /\ CeilingOf(asked) \in Int /\ CeilingOf(asked) <= asked.at
           /\ rpc # "idle" => mode = "up" /\ asked.at <= asked.head /\ asked.head <= root.seq
  BY DEF HistoryInv, HistoryTypeOK, CeilingOf, Asking

LEMMA NoTailType == NoTail \in [txn : Txns, whole : BOOLEAN]
  BY DEF NoTail, NoTxn, Txns

LEMMA ReturnsTyped ==
    ASSUME HistoryInv, UNCHANGED asked, NEW as, NEW of, Returns(as, of),
           stub' \in {stub, NoTail},
           as \in {"none", "world", "slot", "bounds", "Reclaimed", "Io", "Corruption",
                   "NotABoundary"},
           of \in SUBSET Txns
    PROVE  Typed'
  <1>1. /\ answer' = [as |-> as, of |-> of] /\ rpc' = "idle" /\ listed' = {} /\ rcps' = {}
        /\ rbase' = Genesis /\ todo' = {} /\ taken' = {}
    BY DEF Returns
  <1>2. HistoryTypeOK'
    BY <1>1, GenesisType, NoTailType DEF HistoryTypeOK, HistoryInv
  <1> QED
    BY <1>1, <1>2 DEF Typed, Asking, Choosing

LEMMA AnsweredTyped ==
    ASSUME HistoryInv, UNCHANGED asked, NEW as, NEW of, Answered(as, of),
           as \in {"none", "world", "slot", "bounds", "Reclaimed", "Io", "Corruption",
                   "NotABoundary"},
           of \in SUBSET Txns
    PROVE  Typed'
  BY ReturnsTyped DEF Answered

LEMMA StandOnTyped ==
    ASSUME HistoryInv, rpc # "idle", rpc # "scan", UNCHANGED <<vars, asked>>, NEW base \in Roots,
           base.seq <= CeilingOf(asked), StandOn(base)
    PROVE  Typed'
  <1>1. CASE asked.read = "world" /\ asked.at = base.seq
    <2>1. Answered("world", base.world)
      BY <1>1 DEF StandOn
    <2>2. base.world \in SUBSET Txns
      BY DEF Roots, Worlds
    <2> QED
      BY <2>1, <2>2, AnsweredTyped
  <1>2. CASE ~(asked.read = "world" /\ asked.at = base.seq)
    <2>1. /\ rpc' = "scan" /\ rbase' = base /\ todo' = ScannedAbove(listed, base.seq)
          /\ listed' = {} /\ rcps' = {} /\ UNCHANGED <<taken, stub, answer>>
      BY <1>2 DEF StandOn
    <2>2. base.seq \in Nat /\ listed \in SUBSET Nat /\ todo' \in SUBSET Nat
      BY <2>1 DEF Roots, HistoryInv, HistoryTypeOK, ScannedAbove
    <2>3. base.seq < asked.at \/ (asked.read = "bounds" /\ base.seq = asked.at)
      BY <1>2, <2>2, Asked DEF CeilingOf
    <2>4. HistoryTypeOK'
      BY <2>1, <2>2, <2>3 DEF HistoryInv, HistoryTypeOK
    <2>5. Asking'
      BY <2>1 DEF HistoryInv, Asking, vars, commits
    <2>6. Choosing'
      BY <2>1 DEF Choosing
    <2> QED
      BY <2>4, <2>5, <2>6 DEF Typed
  <1> QED
    BY <1>1, <1>2

LEMMA StartTyped ==
    ASSUME HistoryInv, UNCHANGED vars, NEW read \in Reads, NEW at \in 0 .. root.seq,
           HistStart(read, at)
    PROVE  Typed'
  <1>0. root.seq \in Nat /\ at \in Nat /\ read \in {"world", "slot", "bounds"}
    BY KernelNumbers, ReadsAssumption DEF HistoryInv
  <1>1. /\ mode = "up" /\ rpc = "idle" /\ rpc' = "list" /\ answer' = NoAnswer
        /\ stub' = NoTail
        /\ read = "slot" => 0 < at
        /\ read = "bounds" => at < root.seq
        /\ asked' = [read |-> read, at |-> at, head |-> HeadOf(read, at)]
        /\ UNCHANGED <<listed, rcps, rbase, todo, taken>>
    BY DEF HistStart
  <1>2. HeadOf(read, at) \in Nat /\ at <= HeadOf(read, at) /\ HeadOf(read, at) <= root.seq
    BY <1>0, <1>1 DEF HeadOf
  <1>3. HistoryTypeOK'
    BY <1>0, <1>1, <1>2, NoTailType DEF HistoryInv, HistoryTypeOK, NoAnswer
  <1>4. Asking'
    BY <1>0, <1>1, <1>2 DEF Asking, vars, commits, HeadOf
  <1>5. Choosing'
    BY <1>1 DEF HistoryInv, Choosing
  <1> QED
    BY <1>3, <1>4, <1>5 DEF Typed

LEMMA ChooseTyped ==
    ASSUME HistoryInv, UNCHANGED vars,
           HistList \/ HistHeld \/ HistHeader \/ HistDirectory \/ HistRelist
    PROVE  Typed'
  <1>0. /\ UNCHANGED <<mode, root, segs, held, cps>> /\ segs \in SUBSET Nat
        /\ held \in SUBSET Roots /\ cps \in SUBSET Bases /\ Typed /\ UNCHANGED asked
    BY KernelNumbers DEF vars, disk, commits, ckpt, HistoryInv, Typed, HistList, HistHeld,
                         HistHeader, HistDirectory, HistRelist
  <1>1. CASE HistList \/ HistRelist
    <2>1. /\ listed' = segs /\ UNCHANGED <<rcps, rbase, todo, taken, stub, answer>>
          /\ \/ rpc = "list" /\ rpc' = "held"
             \/ rpc = "relist" /\ rpc' = "select"
      BY <1>1 DEF HistList, HistRelist
    <2>2. HistoryTypeOK'
      BY <1>0, <2>1 DEF Typed, HistoryTypeOK
    <2> QED
      BY <1>0, <2>1, <2>2 DEF Typed, Asking, Choosing
  <1>2. CASE HistHeld
    <2>1. /\ rpc = "held" /\ UNCHANGED <<listed, rcps, todo, taken, stub, answer>>
          /\ \/ rpc' = "directory" /\ rbase' = rbase
             \/ rpc' = "header" /\ rbase' \in held /\ rbase'.seq <= CeilingOf(asked)
      BY <1>2 DEF HistHeld
    <2>2. HistoryTypeOK'
      BY <1>0, <2>1 DEF Typed, HistoryTypeOK
    <2> QED
      BY <1>0, <2>1, <2>2 DEF Typed, Asking, Choosing
  <1>3. CASE HistHeader
    <2>1. CASE StandOn(rbase)
      <3>1. rpc = "header" /\ rbase \in Roots /\ rbase.seq <= CeilingOf(asked)
        BY <1>0, <1>3 DEF HistHeader, Typed, HistoryTypeOK, Choosing
      <3> QED
        BY <1>0, <2>1, <3>1, StandOnTyped
    <2>2. CASE ~StandOn(rbase)
      <3>1. /\ rpc = "header" /\ rpc' = "directory" /\ rbase' = Genesis
            /\ UNCHANGED <<listed, rcps, todo, taken, stub, answer>>
        BY <1>3, <2>2 DEF HistHeader
      <3>2. HistoryTypeOK'
        BY <1>0, <3>1, GenesisType DEF Typed, HistoryTypeOK
      <3> QED
        BY <1>0, <3>1, <3>2 DEF Typed, Asking, Choosing
    <2> QED
      BY <2>1, <2>2
  <1>4. CASE HistDirectory
    <2>1. /\ rpc = "directory" /\ rpc' = "relist"
          /\ rcps' = {cp.seq : cp \in {c \in cps : c.seq <= CeilingOf(asked)}}
          /\ UNCHANGED <<listed, rbase, todo, taken, stub, answer>>
      BY <1>4 DEF HistDirectory
    <2>2. rcps' \in SUBSET Nat /\ \A s \in rcps' : s <= CeilingOf(asked)
      BY <1>0, <2>1 DEF Bases
    <2>3. HistoryTypeOK'
      BY <1>0, <2>1, <2>2 DEF Typed, HistoryTypeOK
    <2> QED
      BY <1>0, <2>1, <2>2, <2>3 DEF Typed, Asking, Choosing
  <1> QED
    BY <1>1, <1>2, <1>3, <1>4

LEMMA SelectTyped ==
    ASSUME HistoryInv, UNCHANGED vars, HistTry \/ HistGenesis
    PROVE  Typed'
  <1>0. /\ UNCHANGED <<mode, root>> /\ cps \in SUBSET Bases /\ Typed /\ UNCHANGED asked
        /\ rpc = "select"
    BY KernelNumbers DEF vars, commits, HistoryInv, Typed, HistTry, HistGenesis
  <1>1. CASE HistTry
    <2>1. PICK s \in rcps :
              \/ \E cp \in cps : cp.seq = s /\ cp.loads /\ StandOn(RootOf(cp))
              \/ /\ rcps' = rcps \ {s}
                 /\ UNCHANGED <<rpc, listed, rbase, todo, taken, stub, answer>>
      BY <1>1 DEF HistTry
    <2>2. s <= CeilingOf(asked)
      BY <1>0 DEF Typed, Choosing
    <2>3. ASSUME NEW cp \in cps, cp.seq = s, StandOn(RootOf(cp)) PROVE Typed'
      <3>1. RootOf(cp) \in Roots /\ RootOf(cp).seq = s
        BY <1>0, <2>3, RootOfType DEF RootOf
      <3> QED
        BY <1>0, <2>2, <2>3, <3>1, StandOnTyped
    <2>4. CASE /\ rcps' = rcps \ {s}
               /\ UNCHANGED <<rpc, listed, rbase, todo, taken, stub, answer>>
      <3>1. HistoryTypeOK'
        BY <1>0, <2>4 DEF Typed, HistoryTypeOK
      <3> QED
        BY <1>0, <2>4, <3>1 DEF Typed, Asking, Choosing
    <2> QED
      BY <2>1, <2>3, <2>4
  <1>2. CASE HistGenesis
    <2>1. CASE StandOn(Genesis)
      <3>1. Genesis \in Roots /\ Genesis.seq <= CeilingOf(asked)
        BY <1>0, GenesisType DEF Genesis, CeilingOf, Typed, HistoryTypeOK, Asking
      <3> QED
        BY <1>0, <2>1, <3>1, StandOnTyped
    <2>2. CASE Answered("Reclaimed", {})
      BY <1>0, <2>2, AnsweredTyped
    <2> QED
      BY <1>2, <2>1, <2>2 DEF HistGenesis
  <1> QED
    BY <1>1, <1>2

LEMMA ScanTyped ==
    ASSUME HistoryInv, UNCHANGED vars, HistInto \/ HistScan \/ HistCut \/ HistAnswer
    PROVE  Typed'
  <1>0. /\ UNCHANGED <<mode, root>> /\ log \in SUBSET Txns /\ tail.txn \in Txns
        /\ Typed /\ UNCHANGED asked /\ rpc = "scan" /\ taken \in SUBSET Txns
        /\ rbase.world \in SUBSET Txns /\ wtxn \in Txns
        /\ stub \in [txn : Txns, whole : BOOLEAN]
    BY KernelNumbers DEF vars, commits, HistoryInv, Typed, HistoryTypeOK, HistInto, HistScan,
                         HistCut, HistAnswer, Roots, Worlds
  <1>1. CASE HistScan
    <2>1. PICK seg \in todo :
              \/ /\ taken' = taken \cup FramesIn(seg) /\ todo' = todo \ {seg}
                 /\ stub' = NoTail
                 /\ UNCHANGED <<rpc, listed, rcps, rbase, answer>>
              \/ Answered("Io", {})
      BY <1>1 DEF HistScan
    <2>2. CASE Answered("Io", {})
      BY <1>0, <2>2, AnsweredTyped
    <2>3. CASE /\ taken' = taken \cup FramesIn(seg) /\ todo' = todo \ {seg}
               /\ stub' = NoTail
               /\ UNCHANGED <<rpc, listed, rcps, rbase, answer>>
      <3>1. taken' \in SUBSET Txns
        BY <1>0, <2>3 DEF FramesIn
      <3>2. HistoryTypeOK'
        BY <1>0, <2>3, <3>1, NoTailType DEF Typed, HistoryTypeOK
      <3> QED
        BY <1>0, <2>3, <3>2 DEF Typed, Asking, Choosing
    <2> QED
      BY <2>1, <2>2, <2>3
  <1>2. CASE HistAnswer
    <2>1. Above(rbase, taken) \in SUBSET Txns
      BY <1>0 DEF Above, Readable
    <2>2. \E as \in {"Corruption", "NotABoundary", "world", "slot", "bounds"},
             of \in SUBSET Txns : Answered(as, of)
      <3> DEFINE A == Above(rbase, taken)
      <3>1. /\ {} \in SUBSET Txns
            /\ rbase.world \cup {t \in A : t.last <= asked.at} \in SUBSET Txns
            /\ {t \in A : t.last = asked.at} \in SUBSET Txns
            /\ {t \in A : asked.at < t.last /\ t.last <= asked.head} \in SUBSET Txns
        BY <1>0, <2>1
      <3> HIDE DEF A
      <3>2. \/ Answered("Corruption", {}) \/ Answered("NotABoundary", {})
            \/ Answered("world", rbase.world \cup {t \in A : t.last <= asked.at})
            \/ Answered("slot", {t \in A : t.last = asked.at})
            \/ Answered("bounds", {t \in A : asked.at < t.last /\ t.last <= asked.head})
        BY <1>2 DEF HistAnswer, A
      <3> QED
        BY <3>1, <3>2
    <2> QED
      BY <1>0, <2>2, AnsweredTyped
  <1>3. CASE HistInto
    <2>1. /\ stub' = [txn |-> wtxn, whole |-> tail.whole]
          /\ UNCHANGED <<rpc, asked, listed, rcps, rbase, todo, taken, answer>>
      BY <1>3 DEF HistInto
    <2>2. tail.whole \in BOOLEAN
      BY DEF HistoryInv, KernelInv, TypeOK, DiskTypeOK
    <2>3. HistoryTypeOK'
      BY <1>0, <2>1, <2>2 DEF Typed, HistoryTypeOK
    <2> QED
      BY <1>0, <2>1, <2>3 DEF Typed, Asking, Choosing
  <1>4. CASE HistCut
    <2>1. CASE Returns("Corruption", {}) /\ UNCHANGED stub
      BY <1>0, <2>1, ReturnsTyped
    <2>2. CASE ~(Returns("Corruption", {}) /\ UNCHANGED stub)
      <3>1. /\ \E all \in BOOLEAN :
                  taken' = taken \cup {t \in {stub.txn} : all}
                      \cup {t \in log : t.seg = stub.txn.seg /\ t.link < stub.txn.link}
            /\ todo' = todo \ {stub.txn.seg} /\ stub' = NoTail
            /\ UNCHANGED <<rpc, listed, rcps, rbase, answer>>
        BY <1>4, <2>2 DEF HistCut
      <3>2. taken' \in SUBSET Txns
        BY <1>0, <3>1
      <3>3. HistoryTypeOK'
        BY <1>0, <3>1, <3>2, NoTailType DEF Typed, HistoryTypeOK
      <3> QED
        BY <1>0, <3>1, <3>3 DEF Typed, Asking, Choosing
    <2> QED
      BY <2>1, <2>2
  <1> QED
    BY <1>1, <1>2, <1>3, <1>4

\* Every step of a read keeps its types and its question.
LEMMA ReadTyped ==
    ASSUME HistoryInv, ReadStep, UNCHANGED vars
    PROVE  Typed'
  BY StartTyped, ChooseTyped, SelectTyped, ScanTyped DEF ReadStep

\* An answer that is exact, or none, is what a read must give.
Answers(as, of) ==
    /\ as # "Corruption"
    /\ as \in {"world", "slot", "bounds"} => of = Exact
    /\ as = "NotABoundary" => ~\E t \in root.world : t.last = asked.at

LEMMA AnsweredReading ==
    ASSUME UNCHANGED <<vars, asked>>, NEW as, NEW of, Answered(as, of), Answers(as, of)
    PROVE  Reading'
  <1>1. rpc' = "idle" /\ answer' = [as |-> as, of |-> of] /\ root' = root
    BY DEF Answered, Returns, vars, commits
  <1>2. HistoryExact' /\ answer'.as # "Corruption"
    BY <1>1 DEF HistoryExact, Exact, Answers
  <1> QED
    BY <1>1, <1>2 DEF Reading, NoFalseCorruption

\* A read stands on a sound base over a listing that spans it.
LEMMA StandOnReading ==
    ASSUME HistoryInv, decayed = {}, rpc # "idle", rpc # "scan", UNCHANGED <<vars, asked>>,
           NEW base \in Roots, Sound(base), Listing(listed), Spanned(base.seq, listed),
           StandOn(base)
    PROVE  Reading'
  <1>0. /\ KernelInv /\ mode = "up" /\ answer = NoAnswer /\ taken = {}
        /\ listed \in SUBSET Nat /\ rpc \notin {"idle", "scan"} /\ stub = NoTail
    BY DEF HistoryInv, Asking, Choosing, HistoryTypeOK
  <1>1. CASE asked.read = "world" /\ asked.at = base.seq
    <2>1. Answered("world", base.world)
      BY <1>1 DEF StandOn
    <2>2. base.world = {t \in root.world : t.last <= base.seq}
      BY <1>0, SoundIsPrefix
    <2>3. Exact = {t \in root.world : t.last <= base.seq}
      BY <1>1 DEF Exact
    <2> QED
      BY <2>1, <2>2, <2>3, AnsweredReading DEF Answers
  <1>2. CASE ~(asked.read = "world" /\ asked.at = base.seq)
    <2>1. /\ rpc' = "scan" /\ rbase' = base /\ todo' = ScannedAbove(listed, base.seq)
          /\ UNCHANGED <<taken, stub, answer>>
      BY <1>2 DEF StandOn
    <2>2. Scanning'
      <3>1. PICK list : list = listed
        OBVIOUS
      <3> QED
        BY <1>0, <2>1, <3>1, ScanBegins
    <2>3. Sound(rbase)'
      BY <2>1 DEF Sound, vars, disk, commits, ghosts
    <2>4. HistoryExact' /\ answer'.as # "Corruption"
      BY <1>0, <2>1 DEF HistoryExact, NoAnswer
    <2> QED
      BY <1>0, <2>1, <2>2, <2>3, <2>4 DEF Reading, NoFalseCorruption
  <1> QED
    BY <1>1, <1>2

\* The listing is as good after a step that leaves the kernel alone.
LEMMA ListingStutters ==
    ASSUME UNCHANGED <<vars, asked>>, NEW list, Listing(list)
    PROVE  Listing(list)'
  <1>1. UNCHANGED <<log, tail, segs, writer, wpc, wtxn, poisoned, sequencer>>
    BY DEF vars, disk, commits
  <1>2. RotationDue' = RotationDue
    BY <1>1 DEF RotationDue
  <1>3. Behind(list)'
    <2> HIDE DEF RotationDue
    <2> QED
      BY <1>1, <1>2 DEF Listing, Behind
  <1>4. Fresh(list)' /\ FromGenesis(list)' /\ InOrder(list, log')
    BY <1>1 DEF Listing, Fresh, FromGenesis, Newer
  <1> QED
    BY <1>3, <1>4 DEF Listing

LEMMA ChooseReading ==
    ASSUME HistoryInv, decayed = {}, UNCHANGED vars,
           HistList \/ HistHeld \/ HistHeader \/ HistDirectory \/ HistRelist
    PROVE  Reading'
  <1>0. /\ UNCHANGED <<log, seen, decayed, root, segs, asked>> /\ rpc # "idle" /\ rpc # "scan"
        /\ KernelInv /\ mode = "up" /\ answer = NoAnswer /\ Reading /\ Holding /\ HistoryTypeOK
        /\ held \in SUBSET Roots
    BY KernelNumbers
       DEF vars, disk, commits, ghosts, HistoryInv, Asking, HistList, HistHeld, HistHeader,
           HistDirectory, HistRelist
  <1>1. answer' = answer => HistoryExact' /\ answer'.as # "Corruption"
    BY <1>0 DEF HistoryExact, NoAnswer
  <1>2. CASE HistList \/ HistRelist
    <2>1. listed' = segs /\ rpc' \in {"held", "select"} /\ answer' = answer
      BY <1>2 DEF HistList, HistRelist
    <2>2. PICK list : list = segs
      OBVIOUS
    <2>3. Listing(list)'
      BY <1>0, <2>2, ListedNow, ListingStutters
    <2>4. Listing(listed)'
      BY <2>1, <2>2, <2>3 DEF Listing, Behind, Fresh, FromGenesis, Newer
    <2> QED
      BY <1>1, <2>1, <2>4 DEF Reading, NoFalseCorruption
  <1>3. ASSUME listed' = listed, Listing(listed) PROVE Listing(listed)'
    <2>1. PICK list : list = listed
      OBVIOUS
    <2>2. Listing(list)'
      BY <1>0, <1>3, <2>1, ListingStutters
    <2> QED
      BY <1>3, <2>1, <2>2 DEF Listing, Behind, Fresh, FromGenesis, Newer
  <1>4. CASE HistHeld
    <2>1. /\ rpc = "held" /\ UNCHANGED <<listed, answer>>
          /\ \/ rpc' = "directory"
             \/ rpc' = "header" /\ rbase' \in held
      BY <1>4 DEF HistHeld
    <2>2. Listing(listed)'
      BY <1>0, <1>3, <2>1 DEF Reading
    <2>3. rpc' = "header" => Sound(rbase)'
      BY <1>0, <2>1 DEF Holding, Sound
    <2> QED
      BY <1>1, <2>1, <2>2, <2>3 DEF Reading, NoFalseCorruption
  <1>5. CASE HistHeader
    <2>1. rpc = "header" /\ Listing(listed) /\ Sound(rbase) /\ rbase \in Roots
      BY <1>0, <1>5 DEF HistHeader, Reading, HistoryTypeOK
    <2>2. CASE HeaderStands /\ StandOn(rbase)
      <3>1. PICK cp \in cps : cp.seq = rbase.seq
        BY <2>2 DEF HeaderStands
      <3>2. Spanned(rbase.seq, listed)
        BY <1>0, <2>1, <3>1, StandingSpanned DEF Listing
      <3> QED
        BY <1>0, <2>1, <2>2, <3>2, StandOnReading
    <2>3. CASE ~(HeaderStands /\ StandOn(rbase))
      <3>1. rpc' = "directory" /\ UNCHANGED <<listed, answer>>
        BY <1>5, <2>3 DEF HistHeader
      <3>2. Listing(listed)'
        BY <1>3, <2>1, <3>1
      <3> QED
        BY <1>1, <3>1, <3>2 DEF Reading, NoFalseCorruption
    <2> QED
      BY <2>2, <2>3
  <1>6. CASE HistDirectory
    <2>1. rpc = "directory" /\ rpc' = "relist" /\ UNCHANGED <<listed, answer>>
      BY <1>6 DEF HistDirectory
    <2>2. Listing(listed)'
      BY <1>0, <1>3, <2>1 DEF Reading
    <2> QED
      BY <1>1, <2>1, <2>2 DEF Reading, NoFalseCorruption
  <1> QED
    BY <1>2, <1>4, <1>5, <1>6

LEMMA SelectReading ==
    ASSUME HistoryInv, decayed = {}, UNCHANGED vars, HistTry \/ HistGenesis
    PROVE  Reading'
  <1>0. /\ UNCHANGED <<log, seen, decayed, root, asked>> /\ rpc = "select" /\ Listing(listed)
        /\ KernelInv /\ mode = "up" /\ answer = NoAnswer /\ cps \in SUBSET Bases
        /\ root.seq \in Nat
    BY KernelNumbers
       DEF vars, disk, commits, ghosts, HistoryInv, Asking, Reading, HistTry, HistGenesis
  <1>1. CASE HistTry
    <2>1. PICK s \in rcps :
              \/ \E cp \in cps : cp.seq = s /\ cp.loads /\ StandOn(RootOf(cp))
              \/ UNCHANGED <<rpc, listed, rbase, todo, taken, stub, answer>>
      BY <1>1 DEF HistTry
    <2>2. ASSUME NEW cp \in cps, cp.seq = s, cp.loads, StandOn(RootOf(cp)) PROVE Reading'
      <3>1. /\ RootOf(cp) \in Roots /\ RootOf(cp).seq = cp.seq
            /\ Foundation(RootOf(cp)) /\ cp.seq <= root.seq
        <4>1. Good(cp, decayed)
          BY <2>2 DEF Good
        <4>2. cp.seq <= root.seq
          BY <1>0, <4>1 DEF KernelInv, Up, Founded, OnDisk, Directory
        <4> QED
          BY <1>0, <4>1, <4>2, BaseFounded, RootOfType DEF RootOf
      <3>2. Sound(RootOf(cp))
        BY <3>1 DEF Foundation, Sound
      <3>3. Spanned(RootOf(cp).seq, listed)
        BY <1>0, <3>1, StandingSpanned DEF Listing
      <3> QED
        BY <1>0, <2>2, <3>1, <3>2, <3>3, StandOnReading
    <2>3. CASE UNCHANGED <<rpc, listed, rbase, todo, taken, stub, answer>>
      <3>1. PICK list : list = listed
        OBVIOUS
      <3>2. Listing(list)'
        BY <1>0, <3>1, ListingStutters
      <3>3. Listing(listed)'
        BY <2>3, <3>1, <3>2 DEF Listing, Behind, Fresh, FromGenesis, Newer
      <3>4. HistoryExact' /\ answer'.as # "Corruption"
        BY <1>0, <2>3 DEF HistoryExact, NoAnswer
      <3> QED
        BY <1>0, <2>3, <3>3, <3>4 DEF Reading, NoFalseCorruption
    <2> QED
      BY <2>1, <2>2, <2>3
  <1>2. CASE HistGenesis
    <2>1. CASE ReachesGenesis(listed) /\ StandOn(Genesis)
      <3>1. Genesis \in Roots /\ Genesis.seq = 0
        BY GenesisType DEF Genesis
      <3>2. Spanned(0, listed)
        BY <1>0, <2>1 DEF Listing, FromGenesis, Spanned
      <3>3. Sound(Genesis)
        <4>1. \A t \in log : ~(t.last <= 0)
          BY <1>0, LogIsWorld, KernelNumbers DEF Placed, Txns
        <4> QED
          BY <1>0, <3>1, <4>1, GenesisWhole DEF Sound, Covers
      <3> QED
        BY <1>0, <2>1, <3>1, <3>2, <3>3, StandOnReading
    <2>2. CASE Answered("Reclaimed", {})
      BY <1>0, <2>2, AnsweredReading DEF Answers
    <2> QED
      BY <1>2, <2>1, <2>2 DEF HistGenesis
  <1> QED
    BY <1>1, <1>2

LEMMA ScanReading ==
    ASSUME HistoryInv, decayed = {}, UNCHANGED vars,
           HistInto \/ HistScan \/ HistCut \/ HistAnswer
    PROVE  Reading'
  <1>0. /\ UNCHANGED <<log, seen, decayed, root, asked>> /\ rpc = "scan" /\ Scanning /\ Sound(rbase)
        /\ KernelInv /\ mode = "up" /\ answer = NoAnswer /\ HistoryTypeOK
        /\ asked.head <= root.seq
    BY DEF vars, disk, commits, ghosts, HistoryInv, Asking, Reading, HistInto, HistScan,
           HistCut, HistAnswer
  <1>1. CASE HistScan
    <2>1. PICK seg \in todo :
              /\ \A f \in todo : seg <= f
              /\ \/ /\ taken' = taken \cup FramesIn(seg) /\ todo' = todo \ {seg}
                    /\ stub' = NoTail
                    /\ UNCHANGED <<rpc, listed, rcps, rbase, answer>>
                 \/ Answered("Io", {})
      BY <1>1 DEF HistScan, NextFile
    <2>2. CASE Answered("Io", {})
      BY <1>0, <2>2, AnsweredReading DEF Answers
    <2>3. CASE /\ taken' = taken \cup FramesIn(seg) /\ todo' = todo \ {seg}
               /\ stub' = NoTail
               /\ UNCHANGED <<rpc, listed, rcps, rbase, answer>>
      <3>1. Scanning'
        BY <1>0, <2>1, <2>3, ScanReads
      <3>2. Sound(rbase)'
        BY <1>0, <2>3 DEF Sound
      <3>3. HistoryExact' /\ answer'.as # "Corruption"
        BY <1>0, <2>3 DEF HistoryExact, NoAnswer
      <3> QED
        BY <1>0, <2>3, <3>1, <3>2, <3>3 DEF Reading, NoFalseCorruption
    <2> QED
      BY <2>1, <2>2, <2>3
  <1>2. CASE HistAnswer
    <2>0. /\ asked.at \in Nat /\ asked.head \in Nat /\ asked.at <= asked.head
          /\ rbase.seq \in Nat /\ rbase.seq <= asked.at /\ todo = {}
          /\ asked.read \in {"world", "slot", "bounds"}
          /\ asked.read # "bounds" => asked.head = asked.at /\ rbase.seq < asked.at
      BY <1>0, <1>2, Asked DEF HistoryInv, HistoryTypeOK, Roots, Asking, HistAnswer
    <2>1. /\ ~HaltsAnywhere /\ Above(rbase, taken) = TakenAbove
          /\ rbase.world = {t \in root.world : t.last <= rbase.seq}
          /\ \A t \in TakenAbove : t.last <= asked.head => t \in root.world
          /\ \A t \in root.world :
                rbase.seq < t.last /\ t.last <= asked.head => t \in TakenAbove
      BY <1>0, <2>0, ScanIsExact
    <2>2. /\ \A t \in root.world : t.last \in Nat
          /\ \A t \in TakenAbove : t.last \in Nat /\ rbase.seq < t.last
      BY <1>0, KernelNumbers DEF Roots, Worlds, Txns, HistoryTypeOK, TakenAbove
    <2>3. CASE /\ asked.read # "bounds" /\ ~ClosedAt(asked.at)
               /\ Answered("NotABoundary", {})
      <3>1. ~\E t \in root.world : t.last = asked.at
        BY <2>0, <2>1, <2>2, <2>3 DEF ClosedAt
      <3> QED
        BY <1>0, <2>3, <3>1, AnsweredReading DEF Answers
    <2>4. CASE /\ asked.read = "world"
               /\ Answered("world", rbase.world \cup {t \in TakenAbove : t.last <= asked.at})
      <3>1. rbase.world \cup {t \in TakenAbove : t.last <= asked.at} = Exact
        <4>1. Exact = {t \in root.world : t.last <= asked.at}
          BY <2>4 DEF Exact
        <4> QED
          BY <2>0, <2>1, <2>2, <2>4, <4>1
      <3> QED
        BY <1>0, <2>4, <3>1, AnsweredReading DEF Answers
    <2>5. CASE /\ asked.read = "slot"
               /\ Answered("slot", {t \in TakenAbove : t.last = asked.at})
      <3>1. {t \in TakenAbove : t.last = asked.at} = Exact
        <4>1. Exact = {t \in root.world : t.last = asked.at}
          BY <2>5 DEF Exact
        <4> QED
          BY <2>0, <2>1, <2>2, <2>5, <4>1
      <3> QED
        BY <1>0, <2>5, <3>1, AnsweredReading DEF Answers
    <2>6. CASE /\ asked.read = "bounds"
               /\ Answered("bounds", {t \in TakenAbove : asked.at < t.last
                                                         /\ t.last <= asked.head})
      <3>1. {t \in TakenAbove : asked.at < t.last /\ t.last <= asked.head} = Exact
        <4>1. Exact = {t \in root.world : asked.at < t.last /\ t.last <= asked.head}
          BY <2>6 DEF Exact
        <4> QED
          BY <2>0, <2>1, <2>2, <2>6, <4>1
      <3> QED
        BY <1>0, <2>6, <3>1, AnsweredReading DEF Answers
    <2> QED
      BY <1>2, <2>1, <2>3, <2>4, <2>5, <2>6 DEF HistAnswer
  <1>3. CASE HistInto
    <2>1. rpc' = "scan" /\ UNCHANGED <<rbase, todo, taken, answer>>
      BY <1>0, <1>3 DEF HistInto
    <2>2. Stubbed'
      BY <1>0, <1>3, GoesInto
    <2>3. Scanning'
      BY <1>0, <2>1, ScanningStutters
    <2>4. Sound(rbase)'
      BY <1>0, <2>1 DEF Sound
    <2>5. HistoryExact' /\ answer'.as # "Corruption"
      BY <1>0, <2>1 DEF HistoryExact, NoAnswer
    <2> QED
      BY <2>1, <2>2, <2>3, <2>4, <2>5 DEF Reading, NoFalseCorruption
  <1>4. CASE HistCut
    <2>0. stub # NoTail /\ ~InFile(stub) /\ Stubbed
      BY <1>0, <1>4 DEF HistCut, HistoryInv, Reading
    <2>1. rbase.seq <= asked.head
      <3>1. rbase.seq < asked.at \/ rbase.seq = asked.at
        BY <1>0 DEF HistoryTypeOK
      <3>2. asked.at <= asked.head /\ rbase.seq \in Nat
        BY <1>0, Asked DEF HistoryTypeOK, Roots
      <3> QED
        BY <3>1, <3>2, Asked
    <2>2. CASE Returns("Corruption", {}) /\ UNCHANGED stub
      <3>1. rpc' = "idle" /\ answer' = [as |-> "Corruption", of |-> {}] /\ stub' = stub
        BY <2>2 DEF Returns
      <3>2. ~InFile(stub)'
        BY <2>0, <3>1 DEF InFile, vars, disk
      <3> QED
        BY <2>0, <3>1, <3>2 DEF Reading, HistoryExact, NoFalseCorruption
    <2>3. CASE ~(Returns("Corruption", {}) /\ UNCHANGED stub)
      <3>1. PICK all \in BOOLEAN :
                taken' = taken \cup {t \in {stub.txn} : all}
                    \cup {t \in log : t.seg = stub.txn.seg /\ t.link < stub.txn.link}
        BY <1>4, <2>3 DEF HistCut
      <3>2. /\ todo' = todo \ {stub.txn.seg} /\ stub' = NoTail /\ rpc' = "scan"
            /\ UNCHANGED <<rbase, answer>>
        BY <1>0, <1>4, <2>3 DEF HistCut
      <3>3. Scanning'
        BY <1>0, <2>0, <2>1, <3>1, <3>2, CutEnds
      <3>4. Sound(rbase)'
        BY <1>0, <3>2 DEF Sound
      <3>5. HistoryExact' /\ answer'.as # "Corruption"
        BY <1>0, <3>2 DEF HistoryExact, NoAnswer
      <3> QED
        BY <3>2, <3>3, <3>4, <3>5 DEF Reading, NoFalseCorruption
    <2> QED
      BY <2>2, <2>3
  <1> QED
    BY <1>1, <1>2, <1>3, <1>4

\* Every step of a read leaves it reading the history.
LEMMA ReadReading ==
    ASSUME HistoryInv, decayed = {}, ReadStep, UNCHANGED vars
    PROVE  Reading'
  <1>1. ASSUME NEW read, NEW at, HistStart(read, at) PROVE Reading'
    <2>1. rpc' = "list" /\ answer' = NoAnswer
      BY <1>1 DEF HistStart
    <2> QED
      BY <2>1 DEF Reading, HistoryExact, NoFalseCorruption, NoAnswer
  <1> QED
    BY <1>1, ChooseReading, SelectReading, ScanReading DEF ReadStep

LEMMA ReadKeeps ==
    ASSUME HistoryInv, ReadStep, UNCHANGED vars
    PROVE  HistoryInv'
  <1>1. KernelInv' /\ decayed' = decayed
    BY NextKernelInv DEF HistoryInv, vars, disk
  <1>2. Holding'
    BY DEF HistoryInv, Holding, Sound, vars, disk, commits, ckpt, ghosts
  <1> QED
    BY <1>1, <1>2, ReadTyped, ReadReading DEF HistoryInv, Typed

-----------------------------------------------------------------------------
(* The steps of the kernel *)

\* What is held stays sound, or goes.
LEMMA HoldingKept ==
    ASSUME HistoryInv, Next
    PROVE  Holding'
  <1>0. KernelInv /\ KernelInv' /\ Holding /\ held \in SUBSET Roots /\ csnap \in Roots
    BY NextKernelInv, KernelNumbers DEF HistoryInv
  <1>1. CASE mode = "up" /\ mode' = "up"
    <2>1. Moves
      BY <1>0, <1>1, StepMoves
    <2>2. \A h \in held' : h \in held \/ (cpc = "sync" /\ h = csnap)
      BY <2>1 DEF Moves
    <2>3. cpc = "sync" => Sound(csnap)
      BY <1>0, <1>1 DEF KernelInv, Up, Snapshot, Sound
    <2>4. ASSUME NEW h \in held' PROVE Sound(h)'
      <3>1. PICK r \in Roots : r = h
        BY <1>0, <2>2, <2>4
      <3>2. Sound(r)
        BY <1>0, <2>2, <2>3, <2>4, <3>1 DEF Holding
      <3> QED
        BY <1>0, <2>1, <3>1, <3>2, SoundKept
    <2> QED
      BY <1>1, <2>4 DEF Holding
  <1>2. CASE mode = "up" /\ mode' # "up"
    <2>1. Crash
      BY <1>2 DEF Next, TxnMint, TxnRefuse, TxnRotate, TxnRotateFail, TxnAppend, TxnBarrier,
                  TxnBarrierFail, TxnRepair, TxnPoison, TxnInstall, CkptStart, CkptRename,
                  CkptSync, CkptUnlink, CkptRetained, CkptReclaim, CkptDone, CkptFail,
                  DecayBase, DecayTxn, OpenRefused, Open, FailClean
    <2> QED
      BY <2>1 DEF Crash, Down, Holding
  <1>3. CASE mode # "up"
    <2>0. held = {} /\ wpc = "idle" /\ cpc = "idle"
      BY <1>0, <1>3 DEF Holding, KernelInv, Stopped
    <2>1. DecayBase \/ DecayTxn \/ OpenRefused \/ Open
      <3>1. ~Crash /\ ~\E n \in 1 .. MaxRecords : TxnMint(n)
        BY <1>3 DEF Crash, TxnMint
      <3> QED
        BY <1>0, <1>3, <3>1, WorksUp DEF Next
    <2>2. CASE DecayBase \/ DecayTxn \/ OpenRefused
      BY <2>0, <2>2 DEF DecayBase, DecayTxn, OpenRefused, ckpt, Holding
    <2>3. CASE Open
      <3>1. PICK base \in {RootOf(cp) : cp \in cps} \cup {Genesis}, head \in Seqs :
                /\ SelectBase(cps, segs, base)
                /\ CommittedHead(base, Scanned(base), head)
                /\ Recover(base, Scanned(base), head,
                           RestoredHighWater(Scanned(base), head))
        BY <2>3 DEF Open
      <3>2. /\ held' \subseteq {base} /\ log' \subseteq log /\ root'.seq = head
            /\ decayed' = decayed /\ seen \subseteq seen' /\ mode' = "up"
        BY <2>3, <3>1 DEF Recover, Open
      <3>3. base.seq <= head /\ Foundation(base)
        BY <1>0, <3>1, SelectedFounded DEF CommittedHead
      <3>4. PICK r : r = base
        OBVIOUS
      <3>5. Sound(r)'
        BY <3>2, <3>3, <3>4 DEF Sound, Foundation, Whole, Covers, Lost
      <3> QED
        BY <3>2, <3>4, <3>5 DEF Holding, Sound
    <2> QED
      BY <2>1, <2>2, <2>3
  <1> QED
    BY <1>1, <1>2, <1>3

\* A read under way goes on over what the kernel's step left.
LEMMA KernelReading ==
    ASSUME HistoryInv, Next, mode' = "up", rpc # "idle", UNCHANGED rvars
    PROVE  Typed' /\ (decayed' = {} => Reading')
  <1>0. /\ KernelInv /\ KernelInv' /\ mode = "up" /\ HistoryTypeOK /\ answer = NoAnswer
        /\ asked.at <= asked.head /\ asked.head <= root.seq
        /\ UNCHANGED <<rpc, asked, listed, rcps, rbase, todo, taken, stub, answer>>
    BY NextKernelInv DEF HistoryInv, Asking, rvars
  <1>1. Moves
    BY <1>0, StepMoves
  <1>2. /\ asked.head \in Nat /\ asked.at \in Nat /\ root.seq \in Nat /\ root'.seq \in Nat
        /\ listed \in SUBSET Nat /\ rbase \in Roots /\ root.seq <= root'.seq
    BY <1>0, <1>1, KernelNumbers
       DEF HistoryTypeOK, Moves, KernelInv, TypeOK, CommitTypeOK, Roots
  <1>3. HistoryTypeOK'
    BY <1>0 DEF HistoryTypeOK
  <1>4. Asking'
    BY <1>0, <1>2 DEF HistoryInv, Asking
  <1>5. Choosing'
    BY <1>0 DEF HistoryInv, Choosing
  <1>6. ASSUME decayed' = {} PROVE Reading'
    <2>1. decayed = {} /\ Reading
      BY <1>1, <1>6 DEF Moves, HistoryInv
    <2>2. ASSUME Listing(listed) PROVE Listing(listed)'
      <3>1. PICK list : list = listed
        OBVIOUS
      <3>2. Listing(list)'
        BY <1>0, <1>2, <2>2, <3>1, ListingKept
      <3> QED
        BY <1>0, <3>1, <3>2 DEF Listing, Behind, Fresh, FromGenesis, Newer
    <2>3. ASSUME Sound(rbase) PROVE Sound(rbase)'
      <3>1. PICK r \in Roots : r = rbase
        BY <1>2
      <3>2. Sound(r)'
        BY <1>0, <1>1, <2>3, <3>1, SoundKept
      <3> QED
        BY <1>0, <3>1, <3>2 DEF Sound
    <2>4. Scanning => Scanning'
      BY <1>0, ScanningKept
    <2>5. HistoryExact' /\ answer'.as # "Corruption"
      BY <1>0 DEF HistoryExact, NoAnswer
    <2>6. Stubbed => Stubbed'
      BY <1>0, StubKept
    <2> QED
      BY <1>0, <2>1, <2>2, <2>3, <2>4, <2>5, <2>6 DEF Reading, NoFalseCorruption
  <1> QED
    BY <1>3, <1>4, <1>5, <1>6 DEF Typed

LEMMA KernelKeeps ==
    ASSUME HistoryInv, Next,
           IF mode' = "up" /\ rpc # "idle" THEN UNCHANGED rvars
           ELSE Answered("none", {}) /\ asked' = NoQuestion
    PROVE  HistoryInv'
  <1>0. KernelInv' /\ Holding'
    BY NextKernelInv, HoldingKept DEF HistoryInv
  <1>1. CASE mode' = "up" /\ rpc # "idle"
    BY <1>0, <1>1, KernelReading DEF HistoryInv, Typed
  <1>2. CASE ~(mode' = "up" /\ rpc # "idle")
    <2>1. /\ answer' = NoAnswer /\ rpc' = "idle" /\ listed' = {} /\ rcps' = {}
          /\ rbase' = Genesis /\ todo' = {} /\ taken' = {} /\ asked' = NoQuestion
          /\ stub' = NoTail
      BY <1>2 DEF Answered, Returns, NoAnswer
    <2>2. HistoryTypeOK'
      BY <2>1, GenesisType, NoTailType DEF HistoryTypeOK, NoAnswer, NoQuestion
    <2>3. Asking' /\ Choosing' /\ Reading'
      BY <2>1 DEF Asking, Choosing, Reading, HistoryExact, NoFalseCorruption, NoAnswer
    <2> QED
      BY <1>0, <2>2, <2>3 DEF HistoryInv
  <1> QED
    BY <1>1, <1>2

-----------------------------------------------------------------------------
(* The specification *)

LEMMA InitHistoryInv == HistoryInit => HistoryInv
  <1> SUFFICES ASSUME HistoryInit PROVE HistoryInv
    OBVIOUS
  <1>1. KernelInv /\ held = {} /\ Idle
    BY InitKernelInv DEF HistoryInit, Init
  <1>2. HistoryTypeOK
    BY <1>1, GenesisType, NoTailType DEF HistoryTypeOK, Idle, NoAnswer, NoQuestion
  <1>3. Asking /\ Choosing /\ Holding /\ Reading
    BY <1>1 DEF Idle, Asking, Choosing, Holding, Reading, HistoryExact, NoFalseCorruption,
                NoAnswer
  <1> QED
    BY <1>1, <1>2, <1>3 DEF HistoryInv

LEMMA StutterKeepsReads ==
    ASSUME HistoryInv, UNCHANGED <<vars, rvars>>
    PROVE  HistoryInv'
  <1>0. /\ UNCHANGED <<rpc, asked, listed, rcps, rbase, todo, taken, stub, answer>>
        /\ UNCHANGED <<mode, root, held, log, seen, decayed>>
    BY DEF rvars, vars, disk, commits, ckpt, ghosts
  <1>1. KernelInv'
    BY NextKernelInv DEF HistoryInv
  <1>2. HistoryTypeOK' /\ Asking' /\ Choosing'
    BY <1>0 DEF HistoryInv, HistoryTypeOK, Asking, Choosing
  <1>3. Holding'
    BY <1>0 DEF HistoryInv, Holding, Sound
  <1>4. ASSUME decayed' = {} PROVE Reading'
    <2>1. Reading
      BY <1>0, <1>4 DEF HistoryInv
    <2>2. Listing(listed) => Listing(listed)'
      BY <1>0 DEF Listing, Behind, Fresh, FromGenesis, Newer, RotationDue, vars, disk, commits
    <2>3. Scanning => Scanning'
      BY <1>0 DEF Scanning, Behind, Newer, TakenAbove, RotationDue, vars, disk, commits
    <2>4. Stubbed => Stubbed'
      BY <1>0 DEF Stubbed, Earlier, vars, commits, budget
    <2>5. NoFalseCorruption => NoFalseCorruption'
      BY <1>0 DEF NoFalseCorruption, InFile, vars, disk
    <2> QED
      BY <1>0, <2>1, <2>2, <2>3, <2>4, <2>5 DEF Reading, Sound, HistoryExact, Exact
  <1> QED
    BY <1>1, <1>2, <1>3, <1>4 DEF HistoryInv

LEMMA NextHistoryInv == HistoryInv /\ [HistoryNext]_<<vars, rvars>> => HistoryInv'
  BY ReadKeeps, KernelKeeps, StutterKeepsReads DEF HistoryNext

\* The invariant behind the reads: whatever the kernel does between two steps of
\* a read (history.rs), what the read has listed, chosen and read so far is the
\* committed history up to some position, and all it does not have came later.
THEOREM HistoryInvariant == HistorySpec => []HistoryInv
  BY InitHistoryInv, NextHistoryInv, PTL DEF HistorySpec

\* A read's state keeps its type, and a scan for one boundary (history.rs
\* world_at, attestation_at) starts strictly below it.
THEOREM ReadsTyped == HistorySpec => []HistoryTypeOK
  <1>1. HistoryInv => HistoryTypeOK
    BY DEF HistoryInv
  <1> QED
    BY <1>1, HistoryInvariant, PTL

\* While no frame decays, a read that answers gives the committed history cut at
\* the boundary asked for, and one refused as NotABoundary named none: the
\* listing is taken before the base is chosen and again before the directory's
\* bases are tried (history.rs base_at_or_below), so that no step of a commit,
\* of retention or of reclamation comes between them unseen.
THEOREM ReadsExact == HistorySpec => [](decayed = {} => HistoryExact)
  <1>1. HistoryInv => (decayed = {} => HistoryExact)
    BY DEF HistoryInv, Reading
  <1> QED
    BY <1>1, HistoryInvariant, PTL

\* No read over an undecayed journal reports a corruption (history.rs, the scan
\* over read_segment), but for one in the middle of an append that failed and
\* was truncated under it: an append under way is a tail, one truncated where
\* nothing follows passes for a tail, and a base is never scanned over a listing
\* that reclamation has cut.
THEOREM NoFalseAlarm == HistorySpec => []NoFalseCorruption
  <1>1. HistoryInv => NoFalseCorruption
    BY DEF HistoryInv, Reading, NoFalseCorruption
  <1> QED
    BY <1>1, HistoryInvariant, PTL
=============================================================================
