----------------------------- MODULE MediaProofs -----------------------------
(***************************************************************************)
(* No placed cell loses its file and no granted lease its deposit, for     *)
(* every set of principals, hashes and requests and any number of crashes. *)
(***************************************************************************)
EXTENDS Media, TLAPS

\* A map from a set of cells to expiries is a value of leases, and no other is.
LEMMA LeasesAre ==
    ASSUME NEW f
    PROVE  f \in Leases <=> DOMAIN f \subseteq Cells /\ f \in [DOMAIN f -> Expiries]
  BY DEF Leases

LEMMA NowAndExpiries ==
    /\ Expiries \subseteq Nat /\ 0 .. MaxNow \subseteq Nat
    /\ \A n \in 0 .. MaxNow : Expiry(n) \in Expiries
  BY MediaConstants DEF Expiries, Expiry

LEMMA LeasedTyped ==
    ASSUME MediaTypeOK, NEW c \in Cells, NEW e \in Expiries
    PROVE  Leased(c, e) \in Leases
  BY LeasesAre DEF MediaTypeOK, Leased

LEMMA RememberedTyped ==
    ASSUME MediaTypeOK
    PROVE  Remembered \in Leases
  BY LeasesAre DEF MediaTypeOK, Remembered, Restrict

\* What the thread of a busy request holds.
LEMMA BusyTyped ==
    ASSUME MediaTypeOK, NEW t \in Requests, thread[t].pc # "idle"
    PROVE  thread[t] \in Busy /\ thread[t].cell \in Cells /\ thread[t].began \in 0 .. MaxNow
  BY DEF MediaTypeOK, Busy, Idle

LEMMA GoTyped ==
    ASSUME MediaTypeOK, NEW t \in Requests, thread[t].pc # "idle",
           NEW pc \in {"queued", "install", "dirsync", "lease", "door", "commit", "record"},
           Go(t, pc)
    PROVE  thread' \in [Requests -> Busy \cup {Idle}]
  BY BusyTyped DEF MediaTypeOK, Busy, Go

LEMMA ReplyTyped ==
    ASSUME MediaTypeOK, NEW t \in Requests, Reply(t)
    PROVE  thread' \in [Requests -> Busy \cup {Idle}]
  BY DEF MediaTypeOK, Reply

LEMMA InitTyped == Init => MediaTypeOK
  <1> SUFFICES ASSUME Init PROVE MediaTypeOK
    OBVIOUS
  <1>1. NoLeases \in Leases
    BY LeasesAre DEF NoLeases
  <1>2. thread \in [Requests -> Busy \cup {Idle}] /\ now \in 0 .. MaxNow
    BY MediaConstants DEF Init
  <1>3. leases \in Leases /\ granted \in Leases /\ \A l \in lines : l \in Leases
    BY <1>1 DEF Init
  <1>4. files \subseteq Hashes /\ dirs \subseteq SUBSET Hashes /\ files \in dirs
    BY DEF Init
  <1> QED
    BY <1>2, <1>3, <1>4 DEF Init, MediaTypeOK

LEMMA NextTyped ==
    ASSUME MediaTypeOK, [Next]_vars
    PROVE  MediaTypeOK'
  <1> USE DEF hist, store, kernel, ready, budget
  <1>1. ASSUME NEW t \in Requests, NEW c \in Cells, FinishStart(t, c) PROVE MediaTypeOK'
    BY <1>1 DEF FinishStart, MediaTypeOK, Busy
  <1>2. ASSUME NEW t \in Requests, FinishEnter(t) PROVE MediaTypeOK'
    <2>1. thread' \in [Requests -> Busy \cup {Idle}]
      BY <1>2, GoTyped, ReplyTyped DEF FinishEnter
    <2> QED
      BY <1>2, <2>1 DEF FinishEnter, MediaTypeOK
  <1>3. ASSUME NEW t \in Requests, FinishInstall(t) PROVE MediaTypeOK'
    <2>1. thread' \in [Requests -> Busy \cup {Idle}]
      BY <1>3, GoTyped, ReplyTyped DEF FinishInstall
    <2>2. thread[t].cell \in Cells
      BY <1>3, BusyTyped DEF FinishInstall
    <2> QED
      BY <1>3, <2>1, <2>2 DEF FinishInstall, MediaTypeOK, HashOf, Cells
  <1>4. ASSUME NEW t \in Requests, FinishDirSync(t) PROVE MediaTypeOK'
    <2>1. thread' \in [Requests -> Busy \cup {Idle}]
      BY <1>4, GoTyped, ReplyTyped DEF FinishDirSync
    <2> QED
      BY <1>4, <2>1 DEF FinishDirSync, MediaTypeOK
  <1>5. ASSUME NEW t \in Requests, FinishLease(t) PROVE MediaTypeOK'
    <2>1. thread' \in [Requests -> Busy \cup {Idle}]
      BY <1>5, ReplyTyped DEF FinishLease
    <2>2. thread[t].cell \in Cells /\ thread[t].began \in 0 .. MaxNow
      BY <1>5, BusyTyped DEF FinishLease
    <2> DEFINE c == thread[t].cell
               lease == Leased(c, Expiry(thread[t].began))
               grant == [d \in DOMAIN granted \cup {c} |->
                            IF d = c THEN lease[c] ELSE granted[d]]
    <2>3. lease \in Leases
      BY <2>2, NowAndExpiries, LeasedTyped
    <2>4. grant \in Leases
      <3>1. lease[c] \in Expiries
        BY <2>2, NowAndExpiries DEF Leased
      <3> HIDE DEF lease
      <3> QED
        BY <2>2, <3>1, LeasesAre DEF MediaTypeOK
    <2>5. HashOf(c) \in Hashes
      BY <2>2 DEF HashOf, Cells
    <2>6. /\ leases' \in Leases /\ granted' \in Leases /\ suspect' \subseteq Hashes
          /\ \A l \in lines' : l \in Leases
          /\ stopped' \in BOOLEAN
      BY <1>5, <2>3, <2>4, <2>5 DEF FinishLease, MediaTypeOK
    <2> QED
      BY <1>5, <2>1, <2>6 DEF FinishLease, MediaTypeOK
  <1>6. ASSUME NEW t \in Requests, NEW c \in Cells, InsertStart(t, c) PROVE MediaTypeOK'
    BY <1>6 DEF InsertStart, MediaTypeOK, Busy
  <1>7. ASSUME NEW t \in Requests, InsertDoor(t) PROVE MediaTypeOK'
    <2>1. thread' \in [Requests -> Busy \cup {Idle}]
      BY <1>7, GoTyped, ReplyTyped DEF InsertDoor
    <2> QED
      BY <1>7, <2>1 DEF InsertDoor, MediaTypeOK
  <1>8. ASSUME NEW t \in Requests, InsertCommit(t) PROVE MediaTypeOK'
    <2>1. thread' \in [Requests -> Busy \cup {Idle}]
      BY <1>8, GoTyped, ReplyTyped DEF InsertCommit
    <2>2. thread[t].cell \in Cells /\ HashOf(thread[t].cell) \in Hashes
      BY <1>8, BusyTyped DEF InsertCommit, HashOf, Cells
    <2> QED
      BY <1>8, <2>1, <2>2 DEF InsertCommit, MediaTypeOK
  <1>9. ASSUME NEW t \in Requests, InsertRecord(t) PROVE MediaTypeOK'
    <2>1. thread' \in [Requests -> Busy \cup {Idle}]
      BY <1>9, ReplyTyped DEF InsertRecord
    <2>2. thread[t].cell \in Cells
      BY <1>9, BusyTyped DEF InsertRecord
    <2> QED
      BY <1>9, <2>1, <2>2 DEF InsertRecord, MediaTypeOK
  <1>10. ASSUME NEW h \in Hashes, PruneFile(h) PROVE MediaTypeOK'
    BY <1>10 DEF PruneFile, MediaTypeOK
  <1>11. CASE WalkEnds
    BY <1>11 DEF WalkEnds, MediaTypeOK
  <1>12. CASE CompactLeases
    BY <1>12, RememberedTyped DEF CompactLeases, MediaTypeOK
  <1>13. CASE Tick
    BY <1>13, MediaConstants DEF Tick, MediaTypeOK
  <1>14. CASE Crash
    BY <1>14 DEF Crash, MediaTypeOK
  <1>15. CASE Open
    BY <1>15, RememberedTyped DEF Open, MediaTypeOK
  <1>16. CASE UNCHANGED vars
    BY <1>16 DEF vars, MediaTypeOK
  <1> QED
    BY <1>1, <1>2, <1>3, <1>4, <1>5, <1>6, <1>7, <1>8, <1>9, <1>10, <1>11, <1>12, <1>13,
       <1>14, <1>15, <1>16 DEF Next, Deposit, Insert

-----------------------------------------------------------------------------
(* The inductive invariant.  A sound hash is one outside suspect; a file     *)
(* stands where every directory a crash may leave has it.                    *)

Sound(c) == HashOf(c) \notin suspect
Stands(c) == \A d \in dirs : HashOf(c) \in d
Recording(c) == \E t \in Requests : thread[t].pc = "record" /\ thread[t].cell = c

\* A live lease's file stands, in the memory and in every log a crash may leave.
LeasesStand == \A c \in Cells : Sound(c) /\ Live(c) => Stands(c)
LinesAgree ==
    \A l \in lines : \A c \in DOMAIN l :
        Sound(c) /\ now < l[c] => c \in DOMAIN leases /\ leases[c] = l[c]

\* A placed cell is indexed, or about to be: by its own request or by the walk.
Indexed ==
    /\ mode = "down" => walk = "walking"
    /\ mode = "up" /\ walk # "failed" =>
           \A c \in placed :
               \/ c \in index \/ Recording(c)
               \/ walk = "walking" /\ c \in snapshot
Known ==
    /\ index \subseteq cells /\ snapshot \subseteq cells /\ placed \subseteq cells
    /\ \A c \in cells : Sound(c) => c \in placed
    /\ \A c \in indoubt : ~Sound(c)

\* What a request has established so far.
Admitted ==
    \A t \in Requests :
        LET c == thread[t].cell IN
        /\ thread[t].pc = "commit" /\ Sound(c) => Stands(c)
        /\ thread[t].pc = "dirsync" => HashOf(c) \in files
        /\ thread[t].pc = "lease" => Stands(c)
        /\ thread[t].pc = "record" => c \in placed

GrantAgrees ==
    \A c \in DOMAIN granted :
        Sound(c) /\ now < granted[c] =>
            /\ c \in DOMAIN leases /\ granted[c] <= leases[c]
            /\ \A l \in lines : c \in DOMAIN l /\ granted[c] <= l[c]

MediaInv ==
    /\ MediaTypeOK /\ NoHole /\ LeasesStand /\ LinesAgree /\ Indexed /\ Known
    /\ Admitted /\ GrantAgrees

LEMMA InitSafe == Init => MediaInv
  <1> SUFFICES ASSUME Init PROVE MediaInv
    OBVIOUS
  <1>1. MediaTypeOK
    BY InitTyped
  <1>2. NoHole /\ LeasesStand /\ LinesAgree /\ GrantAgrees
    BY DEF Init, NoHole, LeasesStand, LinesAgree, GrantAgrees, Live, NoLeases
  <1>3. Indexed /\ Known /\ Admitted
    BY DEF Init, Indexed, Known, Admitted, Idle
  <1> QED
    BY <1>1, <1>2, <1>3 DEF MediaInv

\* A step of one request leaves the others where they were.
LEMMA ReplyMoves ==
    ASSUME MediaTypeOK, NEW t \in Requests, Reply(t)
    PROVE  thread'[t] = Idle /\ \A u \in Requests \ {t} : thread'[u] = thread[u]
  BY DEF MediaTypeOK, Reply

LEMMA GoMoves ==
    ASSUME MediaTypeOK, NEW t \in Requests, thread[t].pc # "idle",
           NEW pc \in {"queued", "install", "dirsync", "lease", "door", "commit", "record"},
           Go(t, pc)
    PROVE  /\ thread'[t].pc = pc /\ thread'[t].cell = thread[t].cell
           /\ \A u \in Requests \ {t} : thread'[u] = thread[u]
  BY BusyTyped DEF MediaTypeOK, Go, Busy

\* A request that moves without recording, over stores, kernel and index
\* left alone, disturbs only what Admitted says of it.
LEMMA OneRequestMoves ==
    ASSUME MediaInv, MediaTypeOK', NEW t \in Requests,
           UNCHANGED <<store, kernel, ready, mode, now, hist>>,
           thread[t].pc # "record",
           \A u \in Requests \ {t} : thread'[u] = thread[u],
           thread'[t].pc \notin {"dirsync", "lease", "record"},
           thread'[t].pc = "commit" => (Sound(thread'[t].cell) => Stands(thread'[t].cell))
    PROVE  MediaInv'
  <1> USE DEF store, kernel, ready, hist
  <1>1. NoHole' /\ LeasesStand' /\ LinesAgree' /\ GrantAgrees' /\ Known'
    BY DEF MediaInv, NoHole, LeasesStand, LinesAgree, GrantAgrees, Known, Sound, Stands, Live
  <1>2. Indexed'
    BY DEF MediaInv, Indexed, Recording
  <1>3. Admitted'
    BY DEF MediaInv, Admitted, Sound, Stands
  <1> QED
    BY <1>1, <1>2, <1>3 DEF MediaInv

LEMMA FinishSafe ==
    ASSUME MediaInv, MediaTypeOK', NEW t \in Requests, Deposit(t)
    PROVE  MediaInv'
  <1> USE DEF store, kernel, ready, budget, hist
  <1>0. MediaTypeOK
    BY DEF MediaInv
  <1>1. ASSUME NEW c \in Cells, FinishStart(t, c) PROVE MediaInv'
    <2>1. /\ thread'[t].pc = "queued" /\ thread[t].pc = "idle"
          /\ \A u \in Requests \ {t} : thread'[u] = thread[u]
      BY <1>0, <1>1 DEF FinishStart, MediaTypeOK, Idle
    <2> QED
      BY <1>1, <2>1, OneRequestMoves DEF FinishStart
  <1>2. CASE FinishEnter(t)
    <2>1. /\ thread'[t].pc \in {"idle", "install"} /\ thread[t].pc = "queued"
          /\ \A u \in Requests \ {t} : thread'[u] = thread[u]
      BY <1>0, <1>2, GoMoves, ReplyMoves DEF FinishEnter, Idle
    <2> QED
      BY <1>2, <2>1, OneRequestMoves DEF FinishEnter
  <1>3. CASE FinishInstall(t)
    <2> DEFINE h == HashOf(thread[t].cell)
    <2>1. CASE Fault /\ UNCHANGED <<files, dirs>> /\ Reply(t)
      <3>1. /\ thread'[t].pc = "idle" /\ thread[t].pc = "install"
            /\ \A u \in Requests \ {t} : thread'[u] = thread[u]
        BY <1>0, <1>3, <2>1, ReplyMoves DEF FinishInstall, Idle
      <3> QED
        BY <1>3, <2>1, <3>1, OneRequestMoves DEF FinishInstall
    <2>2. CASE files' = files \cup {h} /\ dirs' = dirs \cup {files'} /\ Go(t, "dirsync")
      <3>1. /\ thread'[t].pc = "dirsync" /\ thread'[t].cell = thread[t].cell
            /\ thread[t].pc = "install"
            /\ \A u \in Requests \ {t} : thread'[u] = thread[u]
        BY <1>0, <1>3, <2>2, GoMoves DEF FinishInstall
      <3>2. \A c : Stands(c) => Stands(c)'
        BY <1>0, <2>2 DEF Stands, MediaTypeOK
      <3>3. NoHole'
        BY <1>0, <1>3, <2>2 DEF FinishInstall, MediaInv, NoHole, MediaTypeOK
      <3>4. LeasesStand' /\ LinesAgree' /\ GrantAgrees' /\ Known'
        BY <1>3, <3>2
           DEF FinishInstall, MediaInv, LeasesStand, LinesAgree, GrantAgrees, Known, Sound, Live
      <3>5. Indexed'
        BY <1>3, <3>1 DEF FinishInstall, MediaInv, Indexed, Recording
      <3>6. Admitted'
        BY <1>3, <2>2, <3>1, <3>2 DEF FinishInstall, MediaInv, Admitted, Sound
      <3> QED
        BY <3>3, <3>4, <3>5, <3>6 DEF MediaInv
    <2> QED
      BY <1>3, <2>1, <2>2 DEF FinishInstall
  <1>4. CASE FinishDirSync(t)
    <2>1. CASE Fault /\ UNCHANGED dirs /\ Reply(t)
      <3>1. /\ thread'[t].pc = "idle" /\ thread[t].pc = "dirsync"
            /\ \A u \in Requests \ {t} : thread'[u] = thread[u]
        BY <1>0, <1>4, <2>1, ReplyMoves DEF FinishDirSync, Idle
      <3> QED
        BY <1>4, <2>1, <3>1, OneRequestMoves DEF FinishDirSync
    <2>2. CASE dirs' = {files} /\ Go(t, "lease")
      <3>1. /\ thread'[t].pc = "lease" /\ thread'[t].cell = thread[t].cell
            /\ thread[t].pc = "dirsync"
            /\ \A u \in Requests \ {t} : thread'[u] = thread[u]
        BY <1>0, <1>4, <2>2, GoMoves DEF FinishDirSync
      <3>2. \A c : Stands(c) => Stands(c)'
        BY <1>0, <2>2 DEF Stands, MediaTypeOK
      <3>3. NoHole'
        BY <1>0, <1>4, <2>2 DEF FinishDirSync, MediaInv, NoHole, MediaTypeOK
      <3>4. LeasesStand' /\ LinesAgree' /\ GrantAgrees' /\ Known'
        BY <1>4, <3>2
           DEF FinishDirSync, MediaInv, LeasesStand, LinesAgree, GrantAgrees, Known, Sound, Live
      <3>5. Indexed'
        BY <1>4, <3>1 DEF FinishDirSync, MediaInv, Indexed, Recording
      <3>6. Stands(thread[t].cell)'
        BY <1>4, <2>2, <3>1 DEF FinishDirSync, MediaInv, Admitted, Stands
      <3>7. Admitted'
        BY <1>4, <2>2, <3>1, <3>2, <3>6 DEF FinishDirSync, MediaInv, Admitted, Sound, Stands
      <3> QED
        BY <3>3, <3>4, <3>5, <3>7 DEF MediaInv
    <2> QED
      BY <1>4, <2>1, <2>2 DEF FinishDirSync
  <1>5. CASE FinishLease(t)
    <2> DEFINE c == thread[t].cell
               lease == Leased(c, Expiry(thread[t].began))
    <2>1. /\ thread'[t].pc = "idle" /\ thread[t].pc = "lease"
          /\ \A u \in Requests \ {t} : thread'[u] = thread[u]
      BY <1>0, <1>5, ReplyMoves DEF FinishLease, Idle
    <2>2. /\ UNCHANGED <<files, dirs, kernel, ready, mode, now, placed>>
          /\ suspect' \in {suspect, suspect \cup {HashOf(c)}}
      BY <1>5 DEF FinishLease
    <2>3. c \in Cells /\ Stands(c)
      BY <1>0, <2>1, BusyTyped DEF MediaInv, Admitted
    <2>4. /\ DOMAIN lease = DOMAIN leases \cup {c}
          /\ \A d \in DOMAIN leases \ {c} : lease[d] = leases[d]
      BY DEF Leased
    <2>5. \/ /\ leases' = lease /\ lines' = {lease} /\ UNCHANGED suspect
             /\ granted' = [d \in DOMAIN granted \cup {c} |->
                                IF d = c THEN lease[c] ELSE granted[d]]
          \/ lines' \in {lines, {leases}} /\ UNCHANGED <<leases, granted, suspect>>
          \/ /\ lines' = lines \cup {lease} /\ UNCHANGED <<leases, granted>>
             /\ suspect' = suspect \cup {HashOf(c)}
      BY <1>5 DEF FinishLease
    <2>6. NoHole' /\ Known'
      BY <2>2 DEF MediaInv, NoHole, Known, Sound
    <2>7. Indexed' /\ Admitted'
      BY <2>1, <2>2 DEF MediaInv, Indexed, Recording, Admitted, Sound, Stands
    <2>8. lease \in Leases
      BY <1>0, <2>1, <2>3, BusyTyped, NowAndExpiries, LeasedTyped
    <2> HIDE DEF lease
    <2>9. LeasesStand'
      BY <2>2, <2>3, <2>4, <2>5 DEF MediaInv, LeasesStand, Live, Sound, Stands
    <2>10. LinesAgree'
      BY <2>2, <2>4, <2>5 DEF MediaInv, LinesAgree, Sound
    <2>11. lease[c] \in Nat
      BY <2>4, <2>8, LeasesAre, NowAndExpiries
    <2>12. GrantAgrees'
      BY <2>2, <2>4, <2>5, <2>11 DEF MediaInv, GrantAgrees, Sound
    <2> QED
      BY <2>6, <2>7, <2>9, <2>10, <2>12 DEF MediaInv
  <1> QED
    BY <1>1, <1>2, <1>3, <1>4, <1>5 DEF Deposit

LEMMA InsertSafe ==
    ASSUME MediaInv, MediaTypeOK', NEW t \in Requests, Insert(t)
    PROVE  MediaInv'
  <1> USE DEF store, kernel, ready, budget, hist
  <1>0. MediaTypeOK
    BY DEF MediaInv
  <1>1. ASSUME NEW c \in Cells, InsertStart(t, c) PROVE MediaInv'
    <2>1. /\ thread'[t].pc = "door" /\ thread[t].pc = "idle"
          /\ \A u \in Requests \ {t} : thread'[u] = thread[u]
      BY <1>0, <1>1 DEF InsertStart, MediaTypeOK, Idle
    <2> QED
      BY <1>1, <2>1, OneRequestMoves DEF InsertStart
  <1>2. CASE InsertDoor(t)
    <2> DEFINE c == thread[t].cell
    <2>1. /\ thread[t].pc = "door" /\ \A u \in Requests \ {t} : thread'[u] = thread[u]
          /\ \/ thread'[t].pc = "idle"
             \/ thread'[t].pc = "commit" /\ thread'[t].cell = c /\ Binding(c)
      BY <1>0, <1>2, GoMoves, ReplyMoves DEF InsertDoor, Idle
    <2>2. c \in Cells
      BY <1>0, <2>1, BusyTyped
    <2>3. Binding(c) /\ Sound(c) => Stands(c)
      <3>1. c \in index /\ Sound(c) => Stands(c)
        BY DEF MediaInv, Known, NoHole, Sound, Stands
      <3>2. Live(c) /\ Sound(c) => Stands(c)
        BY <2>2 DEF MediaInv, LeasesStand
      <3> QED
        BY <3>1, <3>2 DEF Binding
    <2> QED
      BY <1>2, <2>1, <2>3, OneRequestMoves DEF InsertDoor
  <1>3. CASE InsertCommit(t)
    <2> DEFINE c == thread[t].cell
    <2>1. CASE /\ cells' = cells \cup {c} /\ placed' = placed \cup {c}
               /\ Go(t, "record") /\ UNCHANGED <<indoubt, suspect>>
      <3>1. /\ thread'[t].pc = "record" /\ thread'[t].cell = c /\ thread[t].pc = "commit"
            /\ \A u \in Requests \ {t} : thread'[u] = thread[u]
        BY <1>0, <1>3, <2>1, GoMoves DEF InsertCommit
      <3>2. NoHole'
        BY <1>3, <2>1, <3>1 DEF InsertCommit, MediaInv, NoHole, Admitted, Sound, Stands
      <3>3. LeasesStand' /\ LinesAgree' /\ GrantAgrees'
        BY <1>3, <2>1
           DEF InsertCommit, MediaInv, LeasesStand, LinesAgree, GrantAgrees, Sound, Stands, Live
      <3>4. Known'
        BY <1>3, <2>1 DEF InsertCommit, MediaInv, Known, Sound
      <3>5. Indexed'
        BY <1>3, <2>1, <3>1 DEF InsertCommit, MediaInv, Indexed, Recording
      <3>6. Admitted'
        BY <1>3, <2>1, <3>1 DEF InsertCommit, MediaInv, Admitted, Sound, Stands
      <3> QED
        BY <3>2, <3>3, <3>4, <3>5, <3>6 DEF MediaInv
    <2>2. CASE /\ indoubt' = {c} /\ suspect' = suspect \cup {HashOf(c)}
               /\ Reply(t) /\ UNCHANGED <<cells, placed>>
      <3>1. /\ thread'[t].pc = "idle" /\ thread[t].pc = "commit"
            /\ \A u \in Requests \ {t} : thread'[u] = thread[u]
        BY <1>0, <1>3, <2>2, ReplyMoves DEF InsertCommit, Idle
      <3>2. NoHole' /\ LeasesStand' /\ LinesAgree' /\ GrantAgrees'
        BY <1>3, <2>2
           DEF InsertCommit, MediaInv, NoHole, LeasesStand, LinesAgree, GrantAgrees, Sound,
               Stands, Live
      <3>3. Known'
        BY <1>3, <2>2 DEF InsertCommit, MediaInv, Known, Sound
      <3>4. Indexed' /\ Admitted'
        BY <1>3, <2>2, <3>1
           DEF InsertCommit, MediaInv, Indexed, Recording, Admitted, Sound, Stands
      <3> QED
        BY <3>2, <3>3, <3>4 DEF MediaInv
    <2>3. CASE /\ cells' = cells \cup {c} /\ suspect' = suspect \cup {HashOf(c)}
               /\ Reply(t) /\ UNCHANGED <<indoubt, placed>>
      <3>1. /\ thread'[t].pc = "idle" /\ thread[t].pc = "commit"
            /\ \A u \in Requests \ {t} : thread'[u] = thread[u]
        BY <1>0, <1>3, <2>3, ReplyMoves DEF InsertCommit, Idle
      <3>2. NoHole' /\ LeasesStand' /\ LinesAgree' /\ GrantAgrees'
        BY <1>3, <2>3
           DEF InsertCommit, MediaInv, NoHole, LeasesStand, LinesAgree, GrantAgrees, Sound,
               Stands, Live
      <3>3. Known'
        BY <1>3, <2>3 DEF InsertCommit, MediaInv, Known, Sound
      <3>4. Indexed' /\ Admitted'
        BY <1>3, <2>3, <3>1
           DEF InsertCommit, MediaInv, Indexed, Recording, Admitted, Sound, Stands
      <3> QED
        BY <3>2, <3>3, <3>4 DEF MediaInv
    <2>4. CASE Reply(t) /\ UNCHANGED <<kernel, placed, suspect>>
      <3>1. /\ thread'[t].pc = "idle" /\ thread[t].pc = "commit"
            /\ \A u \in Requests \ {t} : thread'[u] = thread[u]
        BY <1>0, <1>3, <2>4, ReplyMoves DEF InsertCommit, Idle
      <3> QED
        BY <1>3, <2>4, <3>1, OneRequestMoves DEF InsertCommit
    <2> QED
      BY <1>3, <2>1, <2>2, <2>3, <2>4 DEF InsertCommit
  <1>4. CASE InsertRecord(t)
    <2> DEFINE c == thread[t].cell
    <2>1. /\ thread'[t].pc = "idle" /\ thread[t].pc = "record"
          /\ \A u \in Requests \ {t} : thread'[u] = thread[u]
      BY <1>0, <1>4, ReplyMoves DEF InsertRecord, Idle
    <2>2. NoHole' /\ LeasesStand' /\ LinesAgree' /\ GrantAgrees'
      BY <1>4
         DEF InsertRecord, MediaInv, NoHole, LeasesStand, LinesAgree, GrantAgrees, Sound, Stands,
             Live
    <2>3. Known'
      BY <1>4, <2>1 DEF InsertRecord, MediaInv, Known, Admitted, Sound
    <2>4. Indexed'
      BY <1>4, <2>1 DEF InsertRecord, MediaInv, Indexed, Recording
    <2>5. Admitted'
      BY <1>4, <2>1 DEF InsertRecord, MediaInv, Admitted, Sound, Stands
    <2> QED
      BY <2>2, <2>3, <2>4, <2>5 DEF MediaInv
  <1> QED
    BY <1>1, <1>2, <1>3, <1>4 DEF Insert

LEMMA RememberedKeepsLive ==
    ASSUME MediaTypeOK
    PROVE  /\ DOMAIN Remembered \subseteq DOMAIN leases
           /\ \A c \in DOMAIN Remembered : Remembered[c] = leases[c]
           /\ \A c \in DOMAIN leases : now < leases[c] => c \in DOMAIN Remembered
  BY LeasesAre, NowAndExpiries, MediaConstants DEF MediaTypeOK, Remembered, Restrict

LEMMA NextSafe ==
    ASSUME MediaInv, [Next]_vars
    PROVE  MediaInv'
  <1> USE DEF store, kernel, ready, budget, hist
  <1>0. MediaTypeOK /\ MediaTypeOK'
    BY NextTyped DEF MediaInv
  <1>1. ASSUME NEW t \in Requests, Deposit(t) \/ Insert(t) PROVE MediaInv'
    BY <1>0, <1>1, FinishSafe, InsertSafe
  <1>2. ASSUME NEW h \in Hashes, PruneFile(h) PROVE MediaInv'
    <2>1. /\ \A t \in Requests : thread[t].pc = "idle"
          /\ dirs' = dirs \cup {files \ {h}} /\ UNCHANGED thread
      BY <1>2 DEF PruneFile, Idle
    <2>2. \A c \in Cells : c \in index \/ Live(c) => HashOf(c) # h
      BY <1>2 DEF PruneFile, Referenced
    <2>3. placed \subseteq index /\ placed \subseteq Cells
      BY <1>0, <1>2, <2>1 DEF PruneFile, MediaInv, Indexed, Recording, MediaTypeOK
    <2>4. NoHole'
      BY <1>0, <1>2, <2>1, <2>2, <2>3 DEF PruneFile, MediaInv, NoHole, MediaTypeOK
    <2>5. LeasesStand'
      BY <1>0, <1>2, <2>1, <2>2
         DEF PruneFile, MediaInv, LeasesStand, Live, Sound, Stands, MediaTypeOK
    <2>6. LinesAgree' /\ GrantAgrees' /\ Known'
      BY <1>2 DEF PruneFile, MediaInv, LinesAgree, GrantAgrees, Known, Sound
    <2>7. Indexed' /\ Admitted'
      BY <1>2, <2>1 DEF PruneFile, MediaInv, Indexed, Recording, Admitted
    <2> QED
      BY <1>0, <2>4, <2>5, <2>6, <2>7 DEF MediaInv
  <1>3. CASE WalkEnds
    <2>1. NoHole' /\ LeasesStand' /\ LinesAgree' /\ GrantAgrees' /\ Admitted'
      BY <1>3
         DEF WalkEnds, MediaInv, NoHole, LeasesStand, LinesAgree, GrantAgrees, Admitted, Sound,
             Stands, Live
    <2>2. Indexed'
      BY <1>3 DEF WalkEnds, MediaInv, Indexed, Recording
    <2>3. Known'
      BY <1>3 DEF WalkEnds, MediaInv, Known, Sound
    <2> QED
      BY <1>0, <2>1, <2>2, <2>3 DEF MediaInv
  <1>4. CASE CompactLeases
    <2>1. /\ leases' = Remembered /\ UNCHANGED <<files, dirs, kernel, ready, thread, mode, now, hist>>
          /\ lines' \subseteq lines \cup {Remembered}
      BY <1>4 DEF CompactLeases
    <2>2. NoHole' /\ Indexed' /\ Known' /\ Admitted'
      BY <2>1
         DEF MediaInv, NoHole, Indexed, Known, Admitted, Recording, Sound, Stands
    <2>3. LeasesStand' /\ LinesAgree'
      BY <1>0, <2>1, RememberedKeepsLive
         DEF MediaInv, LeasesStand, LinesAgree, Live, Sound, Stands
    <2>4. GrantAgrees'
      <3>1. \A c \in DOMAIN leases : leases[c] \in Nat
        BY <1>0, LeasesAre, NowAndExpiries DEF MediaTypeOK
      <3>2. \A c \in DOMAIN granted : granted[c] \in Nat
        BY <1>0, LeasesAre, NowAndExpiries DEF MediaTypeOK
      <3>3. now \in Nat
        BY <1>0, MediaConstants DEF MediaTypeOK
      <3> QED
        BY <1>0, <2>1, <3>1, <3>2, <3>3, RememberedKeepsLive DEF MediaInv, GrantAgrees, Sound
    <2> QED
      BY <1>0, <2>2, <2>3, <2>4 DEF MediaInv
  <1>5. CASE Tick
    <2>1. NoHole' /\ Indexed' /\ Known' /\ Admitted'
      BY <1>5
         DEF Tick, MediaInv, NoHole, Indexed, Known, Admitted, Recording, Sound, Stands
    <2>2. \A e \in Nat : now' < e => now < e
      BY <1>0, <1>5, MediaConstants DEF Tick, MediaTypeOK
    <2>3. /\ \A c \in DOMAIN leases : leases[c] \in Nat
          /\ \A c \in DOMAIN granted : granted[c] \in Nat
          /\ \A l \in lines : \A c \in DOMAIN l : l[c] \in Nat
      BY <1>0, LeasesAre, NowAndExpiries DEF MediaTypeOK
    <2>4. LeasesStand' /\ LinesAgree' /\ GrantAgrees'
      BY <1>5, <2>2, <2>3
         DEF Tick, MediaInv, LeasesStand, LinesAgree, GrantAgrees, Live, Sound, Stands
    <2> QED
      BY <1>0, <2>1, <2>4 DEF MediaInv
  <1>6. CASE Crash
    <2>1. NoHole'
      BY <1>6 DEF Crash, MediaInv, NoHole
    <2>2. LeasesStand'
      BY <1>0, <1>6
         DEF Crash, MediaInv, LeasesStand, LinesAgree, Live, Sound, Stands
    <2>3. LinesAgree' /\ GrantAgrees'
      BY <1>6 DEF Crash, MediaInv, LinesAgree, GrantAgrees, Sound
    <2>4. Indexed' /\ Admitted'
      BY <1>6 DEF Crash, Indexed, Admitted, Idle
    <2>5. Known'
      BY <1>6 DEF Crash, MediaInv, Known, Sound
    <2> QED
      BY <1>0, <2>1, <2>2, <2>3, <2>4, <2>5 DEF MediaInv
  <1>7. CASE Open
    <2>1. /\ leases' = Remembered /\ lines' = {Remembered}
          /\ UNCHANGED <<files, dirs, now, hist, thread>>
      BY <1>7 DEF Open
    <2>2. NoHole' /\ Admitted' /\ Known'
      BY <1>7, <2>1 DEF Open, MediaInv, NoHole, Known, Admitted, Sound, Stands
    <2>3. LeasesStand' /\ LinesAgree'
      BY <1>0, <2>1, RememberedKeepsLive
         DEF MediaInv, LeasesStand, LinesAgree, Live, Sound, Stands
    <2>4. GrantAgrees'
      <3>1. \A c \in DOMAIN leases : leases[c] \in Nat
        BY <1>0, LeasesAre, NowAndExpiries DEF MediaTypeOK
      <3>2. \A c \in DOMAIN granted : granted[c] \in Nat
        BY <1>0, LeasesAre, NowAndExpiries DEF MediaTypeOK
      <3>3. now \in Nat
        BY <1>0, MediaConstants DEF MediaTypeOK
      <3> QED
        BY <1>0, <2>1, <3>1, <3>2, <3>3, RememberedKeepsLive DEF MediaInv, GrantAgrees, Sound
    <2>5. Indexed'
      BY <1>7, <2>1 DEF Open, MediaInv, Indexed, Known
    <2> QED
      BY <1>0, <2>2, <2>3, <2>4, <2>5 DEF MediaInv
  <1>8. CASE UNCHANGED vars
    BY <1>0, <1>8
       DEF vars, MediaInv, NoHole, LeasesStand, LinesAgree, Indexed, Known, Admitted,
           GrantAgrees, Recording, Sound, Stands, Live
  <1> QED
    BY <1>1, <1>2, <1>3, <1>4, <1>5, <1>6, <1>7, <1>8 DEF Next

LEMMA MediaInvHolds == Spec => []MediaInv
  BY InitSafe, NextSafe, PTL DEF Spec

\* Every variable of the media stores keeps its type, for every value of the
\* constants.
THEOREM MediaTyped == Spec => []MediaTypeOK
  BY InitTyped, NextTyped, PTL DEF Spec

\* The file of every cell whose write was answered stands at its name, and no
\* crash at any moment takes it: the pruner unlinks only under the write arm,
\* when every placed cell is in the index it reads.
THEOREM PlacedFilesStand == Spec => []NoHole
  <1>1. MediaInv => NoHole
    BY DEF MediaInv
  <1> QED
    BY <1>1, MediaInvHolds, PTL

\* A deposit answered with a lease keeps its file and its line on disk until
\* the lease lapses, over prunes, compactions and restarts.
THEOREM GrantedLeasesHold == Spec => []GrantKept
  <1>1. ASSUME MediaInv PROVE GrantKept
    <2> SUFFICES ASSUME NEW c \in DOMAIN granted, now < granted[c], HashOf(c) \notin suspect
                 PROVE  /\ \A d \in dirs : HashOf(c) \in d
                        /\ \A l \in lines : c \in DOMAIN l /\ granted[c] <= l[c]
      BY DEF GrantKept
    <2>1. c \in Cells /\ granted[c] \in Nat /\ now \in Nat
      BY <1>1, LeasesAre, NowAndExpiries DEF MediaInv, MediaTypeOK
    <2>2. /\ c \in DOMAIN leases /\ granted[c] <= leases[c]
          /\ \A l \in lines : c \in DOMAIN l /\ granted[c] <= l[c]
      BY <1>1 DEF MediaInv, GrantAgrees, Sound
    <2>3. Live(c)
      BY <1>1, <2>1, <2>2, LeasesAre, NowAndExpiries DEF MediaInv, MediaTypeOK, Live
    <2> QED
      BY <1>1, <2>1, <2>2, <2>3 DEF MediaInv, LeasesStand, Sound, Stands
  <1> QED
    BY <1>1, MediaInvHolds, PTL
=============================================================================
