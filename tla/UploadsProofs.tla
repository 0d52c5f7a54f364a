---------------------------- MODULE UploadsProofs ----------------------------
(***************************************************************************)
(* Resumable uploads, for any number of identifiers, requests, bytes,      *)
(* faults and crashes: every file is the bytes its name hashes, a lease    *)
(* never precedes its bytes, and bytes counted as received are never lost. *)
(*                                                                         *)
(* All but the types rest on the hold (Hands): a stream is alone with its  *)
(* upload, or finds no record it may stand on.  That takes clients that do *)
(* not act on an upload its creation has not claimed (~EagerResume): the   *)
(* run twostreams shows the other case.                                    *)
(***************************************************************************)
EXTENDS Uploads, SequenceTheorems, TLAPS

-----------------------------------------------------------------------------
(* The invariant *)

Typed ==
    /\ TypeOK
    /\ \A t \in Threads : thread[t].pc # "idle" => thread[t].id \in Ids

\* Where a thread has the upload's hold.
Handed == {"stream", "mark", "install", "dirsync", "lease", "retire", "ending", "retiring"}

\* A creation before its claim, or past a claim the pruner was before.
Creating(t) ==
    \/ thread[t].pc \in {"record", "claim"}
    \/ thread[t].pc = "open" /\ ~thread[t].hold

\* Nobody but an ending of what no longer stands is at a creation's upload.
Alone(t) ==
    \A u \in Threads \ {t} : thread[u].id = thread[t].id =>
        /\ thread[u].pc \in {"ending", "retiring"} /\ thread[t].pc # "record"
        /\ ~Standing(thread[t].id)

\* Who has a hold, and who has none.
Grips ==
    \A t \in Threads :
        /\ thread[t].pc = "idle" => thread[t] = Idle
        /\ thread[t].hold => thread[t].id \in held
        /\ thread[t].hold => thread[t].pc \in Handed \cup {"open"}
        /\ thread[t].pc \in Handed => thread[t].hold

\* A hold has one hand.
Owned ==
    /\ \A t, u \in Threads :
          thread[t].hold /\ thread[u].hold /\ thread[t].id = thread[u].id => t = u
    /\ \A id \in held : \E t \in Threads : thread[t].hold /\ thread[t].id = id

Creations ==
    \A t \in Threads :
        /\ Creating(t) => Alone(t)
        /\ Creating(t) /\ thread[t].pc = "open" => ~Standing(thread[t].id)
        /\ thread[t].pc = "record" => thread[t].id \notin DOMAIN records

Hands ==
    /\ Grips /\ Owned /\ Creations
    /\ thread[Pruner].pc \in {"idle", "ending", "retiring"}
    /\ mode = "down" => \A t \in Threads : thread[t] = Idle

\* What nobody minted is nowhere.
Minted ==
    /\ \A t \in Threads : thread[t].pc # "idle" => thread[t].id \in minted
    /\ DOMAIN records \subseteq minted /\ \A f \in logs \cup {filed} : DOMAIN f \subseteq minted
    /\ \A d \in dirs : \A b \in d.blobs : b.inode \in minted
    /\ \A id \in Ids \ minted : shown[id] = <<>>

\* No file of a finished upload is a partial, in any directory a crash leaves.
Apart ==
    \A d \in dirs : \A b \in d.blobs : b.inode \notin d.partials /\ b.inode \notin dir.partials

\* A stream writes the file it hashes, which has no name yet.
Streaming ==
    \A t \in Threads : thread[t].pc \in {"stream", "mark", "install"} =>
        /\ bytes[thread[t].id] = thread[t].sum
        /\ \A d \in dirs : \A b \in d.blobs : b.inode # thread[t].id

\* The bytes a finish is about to lease.
Named(d, hex) == \E b \in d.blobs : b.hex = hex

Finishing ==
    \A t \in Threads :
        /\ thread[t].pc = "dirsync" => Named(dir, thread[t].sum)
        /\ thread[t].pc = "lease" => \A d \in dirs : Named(d, thread[t].sum)

\* Every file and every line a crash may leave holds what was counted.
Starts(s, t) == Len(s) <= Len(t) /\ \A k \in 1 .. Len(s) : s[k] = t[k]

Kept ==
    \A id \in Ids \ closed : shown[id] # <<>> =>
        /\ \A f \in logs \cup {filed} : id \in DOMAIN f /\ Len(shown[id]) <= f[id]
        /\ \A d \in dirs : id \in d.partials
        /\ Starts(shown[id], synced[id]) /\ Starts(shown[id], bytes[id])
        /\ mode = "up" => id \in DOMAIN records /\ Len(shown[id]) <= records[id]

Recorded ==
    /\ mode = "up" => \A id \in DOMAIN records \ closed : \A d \in dirs : id \in d.partials
    /\ \A t \in Threads :
          /\ thread[t].pc = "record" =>
                /\ shown[thread[t].id] = <<>>
                /\ \A d \in dirs : thread[t].id \in d.partials
          /\ thread[t].pc \in {"dirsync", "lease", "retire", "retiring"} =>
                thread[t].id \in closed

UploadsInv ==
    /\ Typed /\ Hands /\ Minted /\ Apart /\ Streaming /\ Finishing
    /\ ContentAddressed /\ LeaseHasBytes /\ Kept /\ Recorded

-----------------------------------------------------------------------------
(* Strings *)

LEMMA StringIs == \A s : s \in Strings <=> s \in Seq(Bytes) /\ Len(s) <= Length
  <1>0. Length \in Nat
    BY UploadConstants
  <1>1. ASSUME NEW s \in Strings PROVE s \in Seq(Bytes) /\ Len(s) <= Length
    <2>1. PICK m \in 0 .. Length : s \in [1 .. m -> Bytes]
      BY DEF Strings, BoundedSeq, SeqOf
    <2>2. m \in Nat
      BY <1>0
    <2>3. s \in Seq(Bytes) /\ Len(s) = m
      BY <2>1, <2>2
    <2> QED
      BY <1>0, <2>3
  <1>2. ASSUME NEW s \in Seq(Bytes), Len(s) <= Length PROVE s \in Strings
    <2>1. Len(s) \in 0 .. Length /\ s \in [1 .. Len(s) -> Bytes]
      BY <1>0, <1>2, LenProperties
    <2> QED
      BY <2>1 DEF Strings, BoundedSeq, SeqOf
  <1> QED
    BY <1>1, <1>2

LEMMA EmptyString == <<>> \in Strings /\ Len(<<>>) = 0
  <1>1. <<>> \in Seq(Bytes) /\ Len(<<>>) = 0
    BY EmptySeq
  <1>2. 0 <= Length
    BY UploadConstants
  <1> QED
    BY <1>1, <1>2, StringIs

LEMMA LengthOf == ASSUME NEW s \in Strings
                  PROVE  /\ Len(s) \in 0 .. Length /\ Len(s) \in Nat /\ Length \in Nat
                         /\ \A k \in 1 .. Len(s) : s[k] \in Bytes
                         /\ s # <<>> => 0 < Len(s)
  BY StringIs, LenProperties, EmptySeq, ElementOfSeq, UploadConstants

\* Strings of one length that agree everywhere are one.
LEMMA SameString ==
    ASSUME NEW s \in Strings, NEW t \in Strings, Len(s) = Len(t),
           \A k \in 1 .. Len(s) : s[k] = t[k]
    PROVE  s = t
  BY StringIs, SeqEqual

\* A string given position by position.
LEMMA StringOf ==
    ASSUME NEW n \in 0 .. Length, NEW s, s \in [1 .. n -> Bytes]
    PROVE  s \in Strings /\ Len(s) = n
  <1>1. n \in Nat /\ n <= Length
    BY UploadConstants
  <1>2. s \in Seq(Bytes) /\ Len(s) = n
    BY <1>1
  <1> QED
    BY <1>1, <1>2, StringIs

LEMMA PrefixIs ==
    ASSUME NEW s \in Strings, NEW n \in 0 .. Len(s)
    PROVE  /\ Prefix(s, n) \in Strings /\ Len(Prefix(s, n)) = n
           /\ \A k \in 1 .. n : Prefix(s, n)[k] = s[k]
           /\ n = Len(s) => Prefix(s, n) = s
  <1>1. n \in Nat /\ n <= Length /\ \A k \in 1 .. n : s[k] \in Bytes
    BY LengthOf
  <1>2. /\ Prefix(s, n) \in Seq(Bytes) /\ Len(Prefix(s, n)) = n
        /\ \A k \in 1 .. n : Prefix(s, n)[k] = s[k]
    BY <1>1, SubSeqProperties DEF Prefix
  <1>3. Prefix(s, n) \in Strings
    BY <1>1, <1>2, StringIs
  <1> QED
    BY <1>2, <1>3, SameString

LEMMA OverwrittenIs ==
    ASSUME NEW file \in Strings, NEW at \in 1 .. Length, NEW b \in Bytes
    PROVE  Overwritten(file, at, b) \in Strings
  <1> DEFINE n == IF Len(file) < at THEN at ELSE Len(file)
  <1>1. n \in 0 .. Length /\ NoByte \in Bytes /\ \A k \in 1 .. Len(file) : file[k] \in Bytes
        /\ Len(file) \in Nat
    BY LengthOf DEF Bytes
  <1>2. Overwritten(file, at, b) \in [1 .. n -> Bytes]
    <2>1. ASSUME NEW k \in 1 .. n
          PROVE  (IF k = at THEN b ELSE IF k <= Len(file) THEN file[k] ELSE NoByte) \in Bytes
      BY <1>1
    <2> QED
      BY <2>1 DEF Overwritten
  <1> HIDE DEF n
  <1> QED
    BY <1>1, <1>2, StringOf

\* A byte written at the end of what was hashed is the next one hashed.
LEMMA AppendIs ==
    ASSUME NEW s \in Strings, Len(s) < Length, NEW b \in Bytes
    PROVE  /\ Append(s, b) \in Strings /\ Len(Append(s, b)) = Len(s) + 1
           /\ Overwritten(s, Len(s) + 1, b) = Append(s, b)
           /\ Starts(s, Append(s, b))
  <1>0. Len(s) \in Nat /\ Len(s) + 1 \in 1 .. Length /\ s \in Seq(Bytes)
        /\ Len(s) < Len(s) + 1
    BY LengthOf, StringIs
  <1>1. /\ Append(s, b) \in Seq(Bytes) /\ Len(Append(s, b)) = Len(s) + 1
        /\ \A k \in 1 .. Len(s) + 1 : Append(s, b)[k] = IF k <= Len(s) THEN s[k] ELSE b
    <2>1. /\ Append(s, b) \in Seq(Bytes) /\ Len(Append(s, b)) = Len(s) + 1
          /\ \A k \in 1 .. Len(s) : Append(s, b)[k] = s[k]
          /\ Append(s, b)[Len(s) + 1] = b
      BY <1>0, AppendProperties
    <2>2. \A k \in 1 .. Len(s) + 1 : k \in 1 .. Len(s) \/ (k = Len(s) + 1 /\ ~(k <= Len(s)))
      BY <1>0
    <2>3. \A k \in 1 .. Len(s) : k <= Len(s)
      OBVIOUS
    <2> QED
      BY <2>1, <2>2, <2>3
  <1>2. Append(s, b) \in Strings
    <2>1. Len(Append(s, b)) <= Length
      BY <1>0, <1>1
    <2> QED
      BY <1>1, <2>1, StringIs
  <1>3. Overwritten(s, Len(s) + 1, b) =
            [k \in 1 .. Len(s) + 1 |-> IF k = Len(s) + 1 THEN b
                                       ELSE IF k <= Len(s) THEN s[k] ELSE NoByte]
    BY <1>0 DEF Overwritten
  <1>4. Overwritten(s, Len(s) + 1, b) \in Strings
    BY <1>0, OverwrittenIs
  <1>5. Len(Overwritten(s, Len(s) + 1, b)) = Len(s) + 1
    <2>1. DOMAIN Overwritten(s, Len(s) + 1, b) = 1 .. Len(s) + 1
      BY <1>3
    <2>2. Overwritten(s, Len(s) + 1, b) \in Seq(Bytes)
      BY <1>4, StringIs
    <2> QED
      BY <1>0, <2>1, <2>2, LenProperties
  <1>6. \A k \in 1 .. Len(s) + 1 : Overwritten(s, Len(s) + 1, b)[k] = Append(s, b)[k]
    BY <1>0, <1>1, <1>3
  <1>7. Overwritten(s, Len(s) + 1, b) = Append(s, b)
    BY <1>1, <1>2, <1>4, <1>5, <1>6, SameString
  <1> QED
    BY <1>0, <1>1, <1>2, <1>7 DEF Starts

LEMMA StartsIsPrefix ==
    ASSUME NEW s \in Strings, NEW t \in Strings, Starts(s, t)
    PROVE  IsPrefix(s, t)
  <1>1. Len(s) \in 0 .. Len(t) /\ Len(s) \in 0 .. Len(s)
    BY LengthOf DEF Starts
  <1>2. Prefix(s, Len(s)) = Prefix(t, Len(s))
    BY <1>1, PrefixIs, SameString, LengthOf DEF Starts
  <1> QED
    BY <1>2 DEF IsPrefix, Prefix, Starts

\* What a crash may leave of a file is a string that starts as the file does
\* on disk and in memory, and the file itself where the two agree.
LEMMA LeavingsAre ==
    ASSUME TypeOK, NEW id \in Ids, NEW x \in Leavings(id)
    PROVE  /\ x \in Strings
           /\ \A s \in Strings : Starts(s, synced[id]) /\ Starts(s, bytes[id]) => Starts(s, x)
           /\ bytes[id] = synced[id] => x = bytes[id]
  <1>0. /\ bytes[id] \in Strings /\ synced[id] \in Strings
        /\ Len(bytes[id]) \in 0 .. Length /\ Len(synced[id]) \in 0 .. Length
        /\ Len(bytes[id]) \in Nat /\ Len(synced[id]) \in Nat /\ Length \in Nat
        /\ NoByte \in Bytes /\ \A k \in 1 .. Len(synced[id]) : synced[id][k] \in Bytes
    BY LengthOf DEF TypeOK, Bytes
  <1>1. CASE x = synced[id]
    BY <1>0, <1>1
  <1>2. ASSUME NEW n \in Len(synced[id]) .. Len(bytes[id]), x = Prefix(bytes[id], n)
        PROVE  /\ x \in Strings
               /\ \A s \in Strings :
                     Starts(s, synced[id]) /\ Starts(s, bytes[id]) => Starts(s, x)
               /\ bytes[id] = synced[id] => x = bytes[id]
    <2>1. n \in 0 .. Len(bytes[id]) /\ n \in Nat
      BY <1>0
    <2>2. /\ x \in Strings /\ Len(x) = n /\ \A k \in 1 .. n : x[k] = bytes[id][k]
          /\ n = Len(bytes[id]) => x = bytes[id]
      BY <1>0, <1>2, <2>1, PrefixIs
    <2> QED
      BY <1>0, <2>1, <2>2, LengthOf DEF Starts
  <1>3. ASSUME NEW n \in Len(synced[id]) .. Len(bytes[id]),
               x = [k \in 1 .. n |-> IF k <= Len(synced[id]) THEN synced[id][k] ELSE NoByte]
        PROVE  /\ x \in Strings
               /\ \A s \in Strings :
                     Starts(s, synced[id]) /\ Starts(s, bytes[id]) => Starts(s, x)
               /\ bytes[id] = synced[id] => x = bytes[id]
    <2>0. n \in 0 .. Length /\ n \in Nat /\ Len(synced[id]) <= n /\ n <= Len(bytes[id])
      BY <1>0
    <2>1. x \in [1 .. n -> Bytes]
      <3>1. ASSUME NEW k \in 1 .. n
            PROVE  (IF k <= Len(synced[id]) THEN synced[id][k] ELSE NoByte) \in Bytes
        BY <1>0
      <3> QED
        BY <1>3, <3>1
    <2>2. x \in Strings /\ Len(x) = n
      BY <2>0, <2>1, StringOf
    <2>3. \A k \in 1 .. Len(synced[id]) : x[k] = synced[id][k]
      BY <1>0, <1>3, <2>0
    <2>4. ASSUME bytes[id] = synced[id] PROVE x = bytes[id]
      BY <1>0, <2>0, <2>2, <2>3, <2>4, SameString
    <2> QED
      BY <1>0, <2>0, <2>2, <2>3, <2>4, LengthOf DEF Starts
  <1> QED
    BY <1>1, <1>2, <1>3 DEF Leavings

-----------------------------------------------------------------------------
(* Types *)

Places == [pc : Steps, id : Ids \cup {None}, off : 0 .. Length, sum : Strings, hold : BOOLEAN]

FilesTyped == bytes \in [Ids -> Strings] /\ synced \in [Ids -> Strings]
DirsTyped == dir \in Directories /\ dir \in dirs /\ \A d \in dirs : d \in Directories
LogTyped ==
    /\ filed \in Offsets /\ records \in Offsets /\ \A f \in logs : f \in Offsets
    /\ stopped \in BOOLEAN
ThreadsTyped ==
    /\ thread \in [Threads -> Places]
    /\ \A t \in Threads : thread[t].pc # "idle" => thread[t].id \in Ids
HoldsTyped == held \subseteq Ids /\ finishing \in Threads \cup {None}
RestTyped ==
    /\ leases \subseteq Strings /\ mode \in {"up", "down"} /\ expired \subseteq Ids
    /\ minted \subseteq Ids /\ shown \in [Ids -> Strings] /\ closed \subseteq Ids

LEMMA TypedParts ==
    Typed <=> FilesTyped /\ DirsTyped /\ LogTyped /\ ThreadsTyped /\ HoldsTyped /\ RestTyped
  BY DEF Typed, TypeOK, FilesTyped, DirsTyped, LogTyped, ThreadsTyped, HoldsTyped, RestTyped, Places

LEMMA TypedNext ==
    ASSUME FilesTyped', DirsTyped', LogTyped', ThreadsTyped', HoldsTyped', RestTyped'
    PROVE  Typed'
  BY DEF Typed, TypeOK, FilesTyped, DirsTyped, LogTyped, ThreadsTyped, HoldsTyped, RestTyped, Places

\* A thread that is somewhere is somewhere in an upload.
LEMMA PlaceOf ==
    ASSUME Typed, NEW t \in Threads
    PROVE  /\ thread[t] \in Places /\ thread[t].sum \in Strings
           /\ thread[t].off \in 0 .. Length /\ thread[t].hold \in BOOLEAN
           /\ thread[t].pc \in Steps /\ thread[t].id \in Ids \cup {None}
           /\ Len(thread[t].sum) \in 0 .. Length /\ Len(thread[t].sum) \in Nat
           /\ thread[t].pc # "idle" => thread[t].id \in Ids
           /\ \A id \in Ids : bytes[id] \in Strings /\ Len(bytes[id]) \in 0 .. Length
           /\ Length \in Nat
  <1>1. /\ thread[t] \in Places
        /\ thread[t].pc # "idle" => thread[t].id \in Ids
        /\ \A id \in Ids : bytes[id] \in Strings
    BY TypedParts DEF ThreadsTyped, FilesTyped
  <1>2. /\ thread[t].sum \in Strings
        /\ thread[t].off \in 0 .. Length /\ thread[t].hold \in BOOLEAN
        /\ thread[t].pc \in Steps /\ thread[t].id \in Ids \cup {None}
    BY <1>1 DEF Places
  <1>3. /\ Len(thread[t].sum) \in 0 .. Length /\ Len(thread[t].sum) \in Nat /\ Length \in Nat
        /\ \A id \in Ids : Len(bytes[id]) \in 0 .. Length
    BY <1>1, <1>2, LengthOf
  <1> QED
    BY <1>1, <1>2, <1>3

LEMMA IdlePlace == Idle \in Places /\ Idle.pc = "idle" /\ Idle.id = None /\ ~Idle.hold
  BY EmptyString, UploadConstants DEF Idle, Places, Steps

LEMMA SetTyped ==
    ASSUME Typed, NEW t \in Threads, NEW v \in Places, Set(t, v), v.pc = "idle" \/ v.id \in Ids
    PROVE  ThreadsTyped'
  BY TypedParts DEF ThreadsTyped, Set

LEMMA GoTyped ==
    ASSUME Typed, NEW t \in Threads, thread[t].pc # "idle", NEW pc \in Steps, Go(t, pc)
    PROVE  ThreadsTyped'
  <1> DEFINE v == [thread[t] EXCEPT !.pc = pc]
  <1>1. v \in Places /\ v.id \in Ids
    BY PlaceOf DEF Places
  <1> QED
    BY <1>1, SetTyped DEF Go

LEMMA CloseTyped ==
    ASSUME Typed, NEW t \in Threads, Close(t)
    PROVE  ThreadsTyped' /\ HoldsTyped'
  <1>1. ThreadsTyped'
    BY IdlePlace, SetTyped DEF Close
  <1>2. HoldsTyped'
    BY TypedParts DEF Close, HoldsTyped
  <1> QED
    BY <1>1, <1>2

LEMMA OffsetsAre ==
    /\ \A f \in Offsets : DOMAIN f \subseteq Ids /\ \A i \in DOMAIN f : f[i] \in 0 .. Length
    /\ \A D \in SUBSET Ids : \A f \in [D -> 0 .. Length] : f \in Offsets
  BY DEF Offsets

LEMMA WithIs ==
    ASSUME NEW f \in Offsets, NEW id \in Ids, NEW n \in 0 .. Length
    PROVE  /\ With(f, id, n) \in Offsets
           /\ DOMAIN With(f, id, n) = DOMAIN f \cup {id}
           /\ With(f, id, n)[id] = n
           /\ \A i \in DOMAIN f : i # id => With(f, id, n)[i] = f[i]
  <1>1. /\ DOMAIN With(f, id, n) = DOMAIN f \cup {id} /\ With(f, id, n)[id] = n
        /\ \A i \in DOMAIN f : i # id => With(f, id, n)[i] = f[i]
    BY DEF With
  <1>2. With(f, id, n) \in [DOMAIN f \cup {id} -> 0 .. Length]
    BY OffsetsAre DEF With
  <1>3. DOMAIN f \cup {id} \in SUBSET Ids
    BY OffsetsAre
  <1> QED
    BY <1>1, <1>2, <1>3, OffsetsAre

LEMMA WithoutIs ==
    ASSUME NEW f \in Offsets, NEW id
    PROVE  /\ Without(f, id) \in Offsets
           /\ DOMAIN Without(f, id) = DOMAIN f \ {id}
           /\ \A i \in DOMAIN f : i # id => Without(f, id)[i] = f[i]
  <1>1. /\ DOMAIN Without(f, id) = DOMAIN f \ {id}
        /\ \A i \in DOMAIN f : i # id => Without(f, id)[i] = f[i]
    BY DEF Without
  <1>2. Without(f, id) \in [DOMAIN f \ {id} -> 0 .. Length]
    BY OffsetsAre DEF Without
  <1>3. DOMAIN f \ {id} \in SUBSET Ids
    BY OffsetsAre
  <1> QED
    BY <1>1, <1>2, <1>3, OffsetsAre

LEMMA RefusedTyped ==
    ASSUME Typed, NEW g \in Offsets, LogRefused(g), records' \in Offsets
    PROVE  LogTyped'
  BY TypedParts DEF LogTyped, LogRefused

LEMMA WrittenTyped ==
    ASSUME Typed, NEW id \in Ids, NEW n \in 0 .. Length,
           LogWritten(id, n) \/ LogUnwritten(id, n)
    PROVE  LogTyped'
  <1>1. LogTyped /\ With(filed, id, n) \in Offsets /\ With(records, id, n) \in Offsets
    BY TypedParts, WithIs DEF LogTyped
  <1>2. CASE LogWritten(id, n)
    BY <1>1, <1>2 DEF LogWritten, LogTyped
  <1>3. CASE LogUnwritten(id, n)
    BY <1>1, <1>3, RefusedTyped DEF LogUnwritten, LogTyped
  <1> QED
    BY <1>2, <1>3

LEMMA RetiredTyped ==
    ASSUME Typed, NEW id, RetiredOk(id) \/ RetireErr(id)
    PROVE  LogTyped'
  <1>1. LogTyped /\ Without(filed, id) \in Offsets /\ Without(records, id) \in Offsets
    BY TypedParts, WithoutIs DEF LogTyped
  <1>2. CASE RetiredOk(id)
    BY <1>1, <1>2 DEF RetiredOk, LogTyped
  <1>3. CASE RetireErr(id)
    BY <1>1, <1>3, RefusedTyped DEF RetireErr, LogTyped
  <1> QED
    BY <1>2, <1>3

LEMMA PartialTyped ==
    ASSUME Typed, NEW id \in Ids
    PROVE  /\ PartialMade(id) \in Directories /\ PartialRemoved(id) \in Directories
           /\ PartialMade(id).blobs = dir.blobs /\ PartialRemoved(id).blobs = dir.blobs
           /\ PartialMade(id).partials = dir.partials \cup {id}
           /\ PartialRemoved(id).partials = dir.partials \ {id}
  BY TypedParts DEF DirsTyped, Directories, PartialMade, PartialRemoved

LEMMA CreateTyped ==
    ASSUME Typed, NEW t \in Threads,
           \/ \E id \in Ids : CreatePartial(t, id)
           \/ CreateRecord(t) \/ CreateEmpty(t) \/ CreateClaim(t)
    PROVE  Typed'
  <1>0. FilesTyped /\ DirsTyped /\ LogTyped /\ ThreadsTyped /\ HoldsTyped /\ RestTyped
    BY TypedParts
  <1>1. ASSUME NEW id \in Ids, CreatePartial(t, id) PROVE Typed'
    <2>1. FilesTyped'
      BY <1>0, <1>1, EmptyString DEF CreatePartial, FilesTyped
    <2>2. DirsTyped'
      <3>1. /\ dir' \in {dir, PartialMade(id)} /\ dir' \in dirs'
            /\ dirs' \subseteq dirs \cup {PartialMade(id), dir'}
        BY <1>1 DEF CreatePartial
      <3>2. PartialMade(id) \in Directories
        BY PartialTyped
      <3> QED
        BY <1>0, <3>1, <3>2 DEF DirsTyped
    <2>3. ThreadsTyped'
      <3> DEFINE v == [Idle EXCEPT !.pc = "record", !.id = id]
      <3>1. v \in Places /\ v.id = id
        BY IdlePlace DEF Places, Steps
      <3>2. Set(t, v) \/ UNCHANGED thread
        BY <1>1 DEF CreatePartial
      <3> QED
        BY <1>0, <3>1, <3>2, SetTyped DEF ThreadsTyped
    <2> QED
      BY <1>0, <1>1, <2>1, <2>2, <2>3, TypedNext
         DEF CreatePartial, log, LogTyped, HoldsTyped, RestTyped
  <1>2. CASE CreateRecord(t)
    <2>0. thread[t].pc = "record" /\ thread[t].id \in Ids /\ 0 \in 0 .. Length
      BY <1>2, PlaceOf DEF CreateRecord
    <2>1. LogTyped'
      BY <1>2, <2>0, WrittenTyped DEF CreateRecord
    <2>2. DirsTyped'
      BY <1>0, <1>2, <2>0, PartialTyped DEF CreateRecord, DirsTyped
    <2>3. ThreadsTyped'
      <3>1. Go(t, "claim") \/ Set(t, Idle)
        BY <1>2 DEF CreateRecord
      <3> QED
        BY <2>0, <3>1, GoTyped, SetTyped, IdlePlace DEF Steps
    <2> QED
      BY <1>0, <1>2, <2>1, <2>2, <2>3, TypedNext
         DEF CreateRecord, Keep, FilesTyped, HoldsTyped, RestTyped
  <1>3. CASE CreateEmpty(t)
    <2>1. ThreadsTyped' /\ HoldsTyped'
      BY <1>3, CloseTyped DEF CreateEmpty
    <2> QED
      BY <1>0, <1>3, <2>1, TypedNext
         DEF CreateEmpty, disk, log, hist, FilesTyped, DirsTyped, LogTyped, RestTyped
  <1>4. CASE CreateClaim(t)
    <2>0. thread[t].pc = "claim" /\ thread[t].id \in Ids /\ thread[t] \in Places
      BY <1>4, PlaceOf DEF CreateClaim
    <2>1. ThreadsTyped'
      <3> DEFINE v == [thread[t] EXCEPT !.pc = "open", !.hold = thread[t].id \notin held]
      <3>1. v \in Places /\ v.id = thread[t].id
        BY <2>0 DEF Places, Steps
      <3> QED
        BY <1>4, <2>0, <3>1, SetTyped DEF CreateClaim
    <2>2. HoldsTyped'
      BY <1>0, <1>4, <2>0 DEF CreateClaim, HoldsTyped
    <2> QED
      BY <1>0, <1>4, <2>1, <2>2, TypedNext
         DEF CreateClaim, disk, log, hist, FilesTyped, DirsTyped, LogTyped, RestTyped
  <1> QED
    BY <1>1, <1>2, <1>3, <1>4

LEMMA ResumeTyped ==
    ASSUME Typed, NEW t \in Threads,
           (\E id \in Ids : ResumeLookup(t, id)) \/ ResumeClaim(t)
    PROVE  Typed'
  <1>0. FilesTyped /\ DirsTyped /\ LogTyped /\ ThreadsTyped /\ HoldsTyped /\ RestTyped
    BY TypedParts
  <1>1. ASSUME NEW id \in Ids, ResumeLookup(t, id) PROVE Typed'
    <2> DEFINE v == [Idle EXCEPT !.pc = "claiming", !.id = id, !.off = records[id]]
    <2>1. records[id] \in 0 .. Length
      BY <1>0, <1>1, OffsetsAre DEF ResumeLookup, Standing, LogTyped
    <2>2. v \in Places /\ v.id = id
      BY <2>1, IdlePlace DEF Places, Steps
    <2>3. ThreadsTyped'
      BY <1>1, <2>2, SetTyped DEF ResumeLookup
    <2> QED
      BY <1>0, <1>1, <2>3, TypedNext
         DEF ResumeLookup, Keep, disk, log, hist, FilesTyped, DirsTyped, LogTyped, HoldsTyped,
             RestTyped
  <1>2. CASE ResumeClaim(t)
    <2>0. thread[t].pc = "claiming" /\ thread[t].id \in Ids /\ thread[t] \in Places
      BY <1>2, PlaceOf DEF ResumeClaim
    <2> DEFINE v == [thread[t] EXCEPT !.pc = "open", !.hold = TRUE]
    <2>1. v \in Places /\ v.id = thread[t].id
      BY <2>0 DEF Places, Steps
    <2>2. ThreadsTyped'
      <3>1. Set(t, Idle) \/ Set(t, v)
        BY <1>2 DEF ResumeClaim
      <3> QED
        BY <2>0, <2>1, <3>1, SetTyped, IdlePlace
    <2>3. HoldsTyped'
      BY <1>0, <1>2, <2>0 DEF ResumeClaim, HoldsTyped
    <2> QED
      BY <1>0, <1>2, <2>2, <2>3, TypedNext
         DEF ResumeClaim, disk, log, hist, FilesTyped, DirsTyped, LogTyped, RestTyped
  <1> QED
    BY <1>1, <1>2

LEMMA OpenTyped ==
    ASSUME Typed, NEW t \in Threads, OpenStream(t)
    PROVE  Typed'
  <1>0. FilesTyped /\ DirsTyped /\ LogTyped /\ ThreadsTyped /\ HoldsTyped /\ RestTyped
    BY TypedParts
  <1> DEFINE id == thread[t].id
             off == thread[t].off
             v == [thread[t] EXCEPT !.pc = "stream", !.sum = bytes'[id]]
  <1>1. thread[t].pc = "open" /\ id \in Ids /\ thread[t] \in Places /\ off \in 0 .. Length
        /\ bytes[id] \in Strings /\ Len(bytes[id]) \in 0 .. Length /\ Length \in Nat
    BY PlaceOf DEF OpenStream
  <1>2. CASE UNCHANGED <<bytes, synced>> /\ Close(t)
    <2>1. ThreadsTyped' /\ HoldsTyped'
      BY <1>2, CloseTyped
    <2> QED
      BY <1>0, <1>2, <2>1, TypedNext
         DEF OpenStream, log, FilesTyped, DirsTyped, LogTyped, RestTyped
  <1>3. CASE ~(UNCHANGED <<bytes, synced>> /\ Close(t))
    <2>1. /\ off <= Len(bytes[id])
          /\ bytes' = [bytes EXCEPT ![id] = Prefix(bytes[id], off)]
          /\ \/ /\ synced' = IF Len(bytes[id]) = off THEN synced
                               ELSE [synced EXCEPT ![id] = bytes'[id]]
                /\ Set(t, v) /\ Keep
             \/ UNCHANGED synced /\ Close(t)
      BY <1>3 DEF OpenStream
    <2>2. off \in 0 .. Len(bytes[id])
      BY <1>1, <2>1
    <2>3. bytes'[id] \in Strings /\ bytes' \in [Ids -> Strings]
      BY <1>0, <1>1, <2>1, <2>2, PrefixIs DEF FilesTyped
    <2>4. FilesTyped'
      BY <1>0, <2>1, <2>3 DEF FilesTyped
    <2>5. v \in Places /\ v.id \in Ids
      BY <1>1, <2>3 DEF Places, Steps
    <2>6. ThreadsTyped' /\ HoldsTyped'
      <3>1. CASE Close(t)
        BY <3>1, CloseTyped
      <3>2. CASE Set(t, v) /\ Keep
        BY <1>0, <2>5, <3>2, SetTyped DEF Keep, HoldsTyped
      <3> QED
        BY <2>1, <3>1, <3>2
    <2> QED
      BY <1>0, <2>4, <2>6, TypedNext DEF OpenStream, log, DirsTyped, LogTyped, RestTyped
  <1> QED
    BY <1>2, <1>3

LEMMA BodyTyped ==
    ASSUME Typed, NEW t \in Requests, AppendChunk(t) \/ MarkGrain(t) \/ Settle(t)
    PROVE  Typed'
  <1>0. FilesTyped /\ DirsTyped /\ LogTyped /\ ThreadsTyped /\ HoldsTyped /\ RestTyped
        /\ t \in Threads
    BY TypedParts DEF Threads
  <1> DEFINE id == thread[t].id
             sum == thread[t].sum
  <1>1. /\ thread[t].pc # "idle" /\ id \in Ids /\ thread[t] \in Places /\ sum \in Strings
        /\ bytes[id] \in Strings /\ Len(sum) \in 0 .. Length /\ Len(sum) \in Nat
        /\ Length \in Nat
    BY <1>0, PlaceOf DEF AppendChunk, MarkGrain, Settle
  <1>2. CASE AppendChunk(t)
    <2> DEFINE at == Len(sum) + 1
               v == [thread[t] EXCEPT !.sum = Append(sum, t),
                        !.pc = IF at - thread[t].off >= SyncGrain THEN "mark" ELSE @]
    <2>1. at \in 1 .. Length /\ t \in Bytes /\ Len(sum) < Length
      BY <1>1, <1>2 DEF AppendChunk, Fits, Bytes
    <2>2. Overwritten(bytes[id], at, t) \in Strings /\ Append(sum, t) \in Strings
      BY <1>1, <2>1, OverwrittenIs, AppendIs
    <2>3. v \in Places /\ v.id = id
      BY <1>1, <2>2 DEF Places, Steps
    <2>4. /\ bytes' = [bytes EXCEPT ![id] = Overwritten(bytes[id], at, t)] \/ bytes' = bytes
          /\ Close(t) \/ (Set(t, v) /\ Keep)
      BY <1>2 DEF AppendChunk
    <2>5. FilesTyped'
      BY <1>0, <1>1, <1>2, <2>2, <2>4 DEF AppendChunk, FilesTyped
    <2>6. ThreadsTyped' /\ HoldsTyped'
      <3>1. CASE Close(t)
        BY <1>0, <3>1, CloseTyped
      <3>2. CASE Set(t, v) /\ Keep
        BY <1>0, <1>1, <2>3, <3>2, SetTyped DEF Keep, HoldsTyped
      <3> QED
        BY <2>4, <3>1, <3>2
    <2> QED
      BY <1>0, <1>2, <2>5, <2>6, TypedNext DEF AppendChunk, log, DirsTyped, LogTyped, RestTyped
  <1>3. CASE MarkGrain(t) \/ Settle(t)
    <2> DEFINE v == [thread[t] EXCEPT !.pc = "stream", !.off = Len(sum)]
    <2>1. \/ /\ synced' = [synced EXCEPT ![id] = bytes[id]] /\ LogWritten(id, Len(sum))
             /\ expired' = expired \ {id} /\ shown' = [shown EXCEPT ![id] = sum]
             /\ Close(t) \/ (Set(t, v) /\ Keep)
          \/ NotReceived(t)
          \/ Close(t) /\ UNCHANGED <<synced, log, expired, shown>>
      BY <1>3 DEF MarkGrain, Settle, Received
    <2>2. \/ synced' = synced
          \/ synced' = [synced EXCEPT ![id] = bytes[id]]
      BY <2>1 DEF NotReceived
    <2>3. FilesTyped'
      BY <1>0, <1>1, <1>3, <2>2 DEF FilesTyped, MarkGrain, Settle
    <2>4. LogTyped'
      <3>1. \/ LogWritten(id, Len(sum)) \/ LogUnwritten(id, Len(sum)) \/ UNCHANGED log
        BY <2>1 DEF NotReceived
      <3> QED
        BY <1>0, <1>1, <3>1, WrittenTyped DEF log, LogTyped
    <2>5. v \in Places /\ v.id = id
      BY <1>1 DEF Places, Steps
    <2>6. ThreadsTyped' /\ HoldsTyped'
      <3>1. CASE Close(t)
        BY <1>0, <3>1, CloseTyped
      <3>2. CASE Set(t, v) /\ Keep
        BY <1>0, <1>1, <2>5, <3>2, SetTyped DEF Keep, HoldsTyped
      <3> QED
        BY <2>1, <3>1, <3>2 DEF NotReceived
    <2>7. RestTyped'
      <3>1. /\ expired' = expired \/ expired' = expired \ {id}
            /\ shown' = shown \/ shown' = [shown EXCEPT ![id] = sum]
        BY <2>1 DEF NotReceived
      <3> QED
        BY <1>0, <1>1, <1>3, <3>1 DEF RestTyped, MarkGrain, Settle
    <2> QED
      BY <1>0, <1>3, <2>3, <2>4, <2>6, <2>7, TypedNext DEF MarkGrain, Settle, DirsTyped
  <1> QED
    BY <1>2, <1>3

LEMMA FinishTyped ==
    ASSUME Typed, NEW t \in Threads,
           \/ FinishStart(t) \/ FinishInstall(t) \/ FinishDirSync(t) \/ FinishLease(t)
           \/ FinishRetire(t) \/ StreamRefused(t)
    PROVE  Typed'
  <1>0. FilesTyped /\ DirsTyped /\ LogTyped /\ ThreadsTyped /\ HoldsTyped /\ RestTyped
    BY TypedParts
  <1> DEFINE id == thread[t].id
  <1>1. thread[t].pc # "idle" /\ id \in Ids /\ bytes[id] \in Strings /\ thread[t].sum \in Strings
    BY PlaceOf DEF FinishStart, FinishInstall, FinishDirSync, FinishLease, FinishRetire,
                   StreamRefused
  <1>2. ThreadsTyped' /\ HoldsTyped'
    <2>1. CASE Close(t)
      BY <2>1, CloseTyped
    <2>2. CASE ~Close(t)
      <3>1. /\ \E pc \in {"install", "dirsync", "lease", "retire", "ending"} : Go(t, pc)
            /\ UNCHANGED held
            /\ UNCHANGED finishing \/ finishing' = t
        BY <2>2 DEF FinishStart, FinishInstall, FinishDirSync, FinishLease, FinishRetire,
                    StreamRefused, Keep
      <3> QED
        BY <1>0, <1>1, <3>1, GoTyped DEF Steps, HoldsTyped
    <2> QED
      BY <2>1, <2>2
  <1>3. CASE FinishInstall(t)
    <2>1. FilesTyped'
      BY <1>0, <1>1, <1>3 DEF FinishInstall, FilesTyped
    <2>2. Installed(t) \in Directories
      BY <1>0, <1>1 DEF Installed, DirsTyped, Directories, Blobs
    <2>3. DirsTyped'
      <3>1. UNCHANGED <<dir, dirs>> \/ (dir' = Installed(t) /\ dirs' = dirs \cup {dir'})
        BY <1>3 DEF FinishInstall
      <3> QED
        BY <1>0, <2>2, <3>1 DEF DirsTyped
    <2>4. LogTyped' /\ RestTyped'
      BY <1>0, <1>1, <1>3 DEF FinishInstall, log, LogTyped, RestTyped
    <2> QED
      BY <1>2, <2>1, <2>3, <2>4, TypedNext
  <1>4. CASE FinishStart(t) \/ StreamRefused(t)
    BY <1>0, <1>2, <1>4, TypedNext
       DEF FinishStart, StreamRefused, disk, log, hist, FilesTyped, DirsTyped, LogTyped, RestTyped
  <1>5. CASE FinishDirSync(t)
    <2>1. DirsTyped'
      BY <1>0, <1>5 DEF FinishDirSync, DirsTyped
    <2> QED
      BY <1>0, <1>2, <1>5, <2>1, TypedNext DEF FinishDirSync, log, FilesTyped, LogTyped, RestTyped
  <1>6. CASE FinishLease(t)
    <2>1. RestTyped'
      BY <1>0, <1>1, <1>6 DEF FinishLease, RestTyped
    <2> QED
      BY <1>0, <1>2, <1>6, <2>1, TypedNext
         DEF FinishLease, disk, log, FilesTyped, DirsTyped, LogTyped
  <1>7. CASE FinishRetire(t)
    <2>1. LogTyped'
      BY <1>7, RetiredTyped DEF FinishRetire
    <2> QED
      BY <1>0, <1>2, <1>7, <2>1, TypedNext DEF FinishRetire, disk, FilesTyped, DirsTyped, RestTyped
  <1> QED
    BY <1>3, <1>4, <1>5, <1>6, <1>7

LEMMA EndTyped ==
    ASSUME Typed, NEW t \in Threads,
           (\E id \in Ids : EndClaim(t, id)) \/ EndRemove(t) \/ EndRetire(t)
    PROVE  Typed'
  <1>0. FilesTyped /\ DirsTyped /\ LogTyped /\ ThreadsTyped /\ HoldsTyped /\ RestTyped
    BY TypedParts
  <1>1. ASSUME NEW id \in Ids, EndClaim(t, id) PROVE Typed'
    <2> DEFINE v == [Idle EXCEPT !.pc = "ending", !.id = id, !.hold = TRUE]
    <2>1. v \in Places /\ v.id = id
      BY IdlePlace DEF Places, Steps
    <2>2. ThreadsTyped' /\ HoldsTyped'
      BY <1>0, <1>1, <2>1, SetTyped DEF EndClaim, HoldsTyped
    <2> QED
      BY <1>0, <1>1, <2>2, TypedNext
         DEF EndClaim, disk, log, hist, FilesTyped, DirsTyped, LogTyped, RestTyped
  <1>2. CASE EndRemove(t)
    <2>0. thread[t].pc = "ending" /\ thread[t].id \in Ids
      BY <1>2, PlaceOf DEF EndRemove
    <2>1. ThreadsTyped' /\ HoldsTyped'
      <3>1. Close(t) \/ (Go(t, "retiring") /\ Keep)
        BY <1>2 DEF EndRemove
      <3> QED
        BY <1>0, <2>0, <3>1, CloseTyped, GoTyped DEF Keep, HoldsTyped, Steps
    <2>2. DirsTyped'
      <3>1. /\ dir' \in {dir, PartialRemoved(thread[t].id)}
            /\ dir' \in dirs' \/ UNCHANGED <<dir, dirs>>
            /\ dirs' \subseteq dirs \cup {dir'}
        BY <1>2 DEF EndRemove
      <3>2. PartialRemoved(thread[t].id) \in Directories
        BY <2>0, PartialTyped
      <3> QED
        BY <1>0, <3>1, <3>2 DEF DirsTyped
    <2>3. RestTyped'
      BY <1>0, <1>2, <2>0 DEF EndRemove, RestTyped
    <2> QED
      BY <1>0, <1>2, <2>1, <2>2, <2>3, TypedNext DEF EndRemove, log, FilesTyped, LogTyped
  <1>3. CASE EndRetire(t)
    <2>1. ThreadsTyped' /\ HoldsTyped' /\ LogTyped'
      BY <1>3, CloseTyped, RetiredTyped DEF EndRetire
    <2> QED
      BY <1>0, <1>3, <2>1, TypedNext DEF EndRetire, disk, FilesTyped, DirsTyped, RestTyped
  <1> QED
    BY <1>1, <1>2, <1>3

LEMMA CrashTyped ==
    ASSUME Typed, Crash
    PROVE  Typed'
  <1>0. FilesTyped /\ DirsTyped /\ LogTyped /\ ThreadsTyped /\ HoldsTyped /\ RestTyped
    BY TypedParts
  <1>1. FilesTyped'
    <2>1. bytes' \in [Ids -> UNION {Leavings(id) : id \in Ids}] /\ synced' = bytes'
          /\ \A id \in Ids : bytes'[id] \in Leavings(id)
      BY DEF Crash
    <2>2. \A id \in Ids : bytes'[id] \in Strings
      BY <2>1, LeavingsAre DEF Typed
    <2> QED
      BY <2>1, <2>2 DEF FilesTyped
  <1>2. DirsTyped'
    BY <1>0 DEF Crash, DirsTyped
  <1>3. LogTyped'
    <2>1. [i \in {} |-> 0] \in Offsets
      BY DEF Offsets
    <2> QED
      BY <1>0, <2>1 DEF Crash, LogTyped
  <1>4. ThreadsTyped' /\ HoldsTyped' /\ RestTyped'
    BY <1>0, IdlePlace DEF Crash, ThreadsTyped, HoldsTyped, RestTyped
  <1> QED
    BY <1>1, <1>2, <1>3, <1>4, TypedNext

\* What Store::open makes of the records and the files.
LEMMA ReconciledIs ==
    ASSUME Typed, NEW left \in SUBSET (DOMAIN filed \cap expired)
    PROVE  /\ Reconciled(left) \in Offsets
           /\ DOMAIN Reconciled(left) =
                  {id \in DOMAIN filed \ expired : id \in dir.partials} \cup left
           /\ \A id \in DOMAIN Reconciled(left) \ left :
                 /\ Reconciled(left)[id] \in 0 .. Len(bytes[id])
                 /\ Reconciled(left)[id] = filed[id] \/ Reconciled(left)[id] = Len(bytes[id])
  <1> DEFINE D == {id \in DOMAIN filed \ expired : id \in dir.partials} \cup left
  <1>0. /\ \A id \in DOMAIN filed : id \in Ids /\ filed[id] \in 0 .. Length
        /\ \A id \in Ids : bytes[id] \in Strings /\ Len(bytes[id]) \in 0 .. Length
        /\ Length \in Nat
    BY TypedParts, OffsetsAre, LengthOf, UploadConstants DEF LogTyped, FilesTyped
  <1>1. D \in SUBSET Ids /\ D \subseteq DOMAIN filed
    BY <1>0
  <1>2. Reconciled(left) =
            [id \in D |-> IF id \in left \/ filed[id] <= Len(bytes[id]) THEN filed[id]
                          ELSE Len(bytes[id])]
    BY DEF Reconciled
  <1> HIDE DEF D
  <1>3. Reconciled(left) \in [D -> 0 .. Length]
    <2>1. ASSUME NEW id \in D
          PROVE  (IF id \in left \/ filed[id] <= Len(bytes[id]) THEN filed[id]
                  ELSE Len(bytes[id])) \in 0 .. Length
      BY <1>0, <1>1
    <2> QED
      BY <1>2, <2>1
  <1>4. ASSUME NEW id \in D, id \notin left
        PROVE  /\ Reconciled(left)[id] \in 0 .. Len(bytes[id])
               /\ Reconciled(left)[id] = filed[id] \/ Reconciled(left)[id] = Len(bytes[id])
    BY <1>0, <1>1, <1>2, <1>4
  <1>5. DOMAIN Reconciled(left) = D
    BY <1>2
  <1> QED
    BY <1>1, <1>3, <1>4, <1>5, OffsetsAre DEF D

LEMMA StoreTyped ==
    ASSUME Typed, Open
    PROVE  Typed'
  <1>0. FilesTyped /\ DirsTyped /\ LogTyped /\ ThreadsTyped /\ HoldsTyped /\ RestTyped
    BY TypedParts
  <1>1. PICK left \in SUBSET (DOMAIN filed \cap expired) :
            /\ records' = Reconciled(left)
            /\ bytes' = [id \in Ids |->
                  IF id \in DOMAIN records' \ left THEN Prefix(bytes[id], records'[id])
                                                   ELSE bytes[id]]
            /\ closed' = closed \cup (DOMAIN filed \cap expired)
    BY DEF Open
  <1>2. /\ records' \in Offsets
        /\ \A id \in DOMAIN records' \ left : records'[id] \in 0 .. Len(bytes[id])
    BY <1>1, ReconciledIs
  <1>3. FilesTyped'
    <2>1. ASSUME NEW id \in Ids PROVE bytes'[id] \in Strings
      BY <1>0, <1>1, <1>2, PrefixIs DEF FilesTyped
    <2> QED
      BY <1>1, <2>1 DEF FilesTyped, Open
  <1>4. DirsTyped'
    BY <1>0 DEF Open, DirsTyped, Directories
  <1>5. LogTyped'
    BY <1>0, <1>2 DEF Open, LogTyped
  <1>6. RestTyped' /\ ThreadsTyped' /\ HoldsTyped'
    BY <1>0, <1>1, OffsetsAre DEF Open, mem, RestTyped, ThreadsTyped, HoldsTyped, LogTyped
  <1> QED
    BY <1>3, <1>4, <1>5, <1>6, TypedNext

LEMMA InitTyped == Init => Typed
  <1> SUFFICES ASSUME Init PROVE Typed
    OBVIOUS
  <1>1. [i \in {} |-> 0] \in Offsets
    BY DEF Offsets
  <1>2. FilesTyped /\ DirsTyped /\ HoldsTyped /\ RestTyped
    BY EmptyString DEF Init, FilesTyped, DirsTyped, Directories, HoldsTyped, RestTyped
  <1>3. LogTyped /\ ThreadsTyped
    BY <1>1, IdlePlace DEF Init, LogTyped, ThreadsTyped
  <1> QED
    BY <1>2, <1>3, TypedParts

LEMMA NextTyped == Typed /\ [Next]_vars => Typed'
  <1> SUFFICES ASSUME Typed, [Next]_vars PROVE Typed'
    OBVIOUS
  <1>0. FilesTyped /\ DirsTyped /\ LogTyped /\ ThreadsTyped /\ HoldsTyped /\ RestTyped
    BY TypedParts
  <1>1. ASSUME NEW t \in Requests, Request(t) PROVE Typed'
    <2>1. t \in Threads
      BY DEF Threads
    <2> QED
      BY <1>1, <2>1, CreateTyped, ResumeTyped, OpenTyped, BodyTyped, FinishTyped DEF Request
  <1>2. ASSUME NEW t \in Threads, Ending(t) PROVE Typed'
    BY <1>2, EndTyped DEF Ending
  <1>3. ASSUME NEW id \in Ids, Expire(id) PROVE Typed'
    BY <1>0, <1>3, TypedNext
       DEF Expire, disk, log, hist, FilesTyped, DirsTyped, LogTyped, ThreadsTyped, HoldsTyped,
           RestTyped
  <1>4. CASE Compact
    BY <1>0, <1>4, TypedNext
       DEF Compact, disk, mem, FilesTyped, DirsTyped, LogTyped, ThreadsTyped, HoldsTyped, RestTyped
  <1>5. CASE UNCHANGED vars
    BY <1>0, <1>5, TypedNext
       DEF vars, disk, log, mem, hist, FilesTyped, DirsTyped, LogTyped, ThreadsTyped, HoldsTyped,
           RestTyped
  <1> QED
    BY <1>1, <1>2, <1>3, <1>4, <1>5, CrashTyped, StoreTyped DEF Next

-----------------------------------------------------------------------------
(* The hold *)

LEMMA PlacesNext ==
    ASSUME Typed, NEW t \in Threads, NEW v, Set(t, v)
    PROVE  thread'[t] = v /\ \A u \in Threads : u # t => thread'[u] = thread[u]
  BY TypedParts DEF ThreadsTyped, Set

\* A thread that has left an upload, or goes on with the one it holds, leaves the
\* others their holds.  Only a stream gives an upload its standing back.
LEMMA MovedOn ==
    ASSUME Typed, Hands, NEW t \in Threads, thread[t].pc # "idle", NEW v, Set(t, v), mode' = mode,
           \/ v = Idle /\ held' = IF thread[t].hold THEN held \ {thread[t].id} ELSE held
           \/ /\ v.id = thread[t].id /\ thread[t].hold /\ v.hold /\ v.pc \in Handed /\ held' = held
              /\ thread[t].pc \in {"ending", "retiring"} => v.pc \in {"ending", "retiring"},
           DOMAIN records' \subseteq DOMAIN records,
           \A i \in expired \ expired' : i = thread[t].id /\ thread[t].pc \in {"stream", "mark"}
    PROVE  Hands'
  <1>0. /\ thread'[t] = v /\ \A u \in Threads : u # t => thread'[u] = thread[u]
        /\ Pruner \in Threads /\ thread[t].id \in Ids
        /\ None \notin Ids /\ \A u \in Threads : thread[u].pc # "idle" => thread[u].id \in Ids
    BY PlacesNext, PlaceOf, UploadConstants DEF Threads
  <1>1. Grips /\ Owned /\ Creations
    BY DEF Hands
  <1>2. Grips'
    <2> SUFFICES ASSUME NEW u \in Threads
                 PROVE  /\ thread'[u].pc = "idle" => thread'[u] = Idle
                        /\ thread'[u].hold => thread'[u].id \in held'
                        /\ thread'[u].hold => thread'[u].pc \in Handed \cup {"open"}
                        /\ thread'[u].pc \in Handed => thread'[u].hold
      BY DEF Grips
    <2>1. CASE u = t
      BY <1>0, <1>1, <2>1, IdlePlace DEF Grips, Handed
    <2>2. CASE u # t
      BY <1>0, <1>1, <2>2 DEF Grips, Owned
    <2> QED
      BY <2>1, <2>2
  <1>3. Owned'
    <2>1. ASSUME NEW u \in Threads, NEW w \in Threads, thread'[u].hold, thread'[w].hold,
                 thread'[u].id = thread'[w].id
          PROVE  u = w
      BY <1>0, <1>1, <2>1, IdlePlace DEF Owned
    <2>2. ASSUME NEW id \in held' PROVE \E u \in Threads : thread'[u].hold /\ thread'[u].id = id
      <3>1. id \in held
        BY <2>2
      <3>2. PICK u \in Threads : thread[u].hold /\ thread[u].id = id
        BY <1>1, <3>1 DEF Owned
      <3> QED
        BY <1>0, <2>2, <3>2, IdlePlace
    <2> QED
      BY <2>1, <2>2 DEF Owned
  <1>4. ASSUME NEW u \in Threads, Creating(u)' PROVE u # t /\ Creating(u) /\ thread'[u] = thread[u]
    BY <1>0, <1>4, IdlePlace DEF Creating, Handed
  <1>5. ASSUME NEW u \in Threads, Creating(u)', Standing(thread[u].id)' PROVE Standing(thread[u].id)
    <2>1. thread[u].id # thread[t].id \/ thread[t].pc \in {"ending", "retiring"}
      BY <1>1, <1>4, <1>5 DEF Creations, Alone
    <2> QED
      BY <1>4, <1>5, <2>1 DEF Standing
  <1>6. ASSUME NEW u \in Threads, Creating(u)' PROVE Alone(u)'
    <2> SUFFICES ASSUME NEW w \in Threads \ {u}, thread'[w].id = thread'[u].id
                 PROVE  /\ thread'[w].pc \in {"ending", "retiring"} /\ thread'[u].pc # "record"
                        /\ ~Standing(thread[u].id)'
      BY <1>4, <1>6 DEF Alone, Standing
    <2>1. Alone(u) /\ u # t /\ thread'[u] = thread[u] /\ thread[u].id \in Ids
      BY <1>0, <1>1, <1>4, <1>6 DEF Creations, Creating
    <2>2. thread[w].id = thread[u].id
      BY <1>0, <2>1, IdlePlace
    <2>3. thread[w].pc \in {"ending", "retiring"} /\ thread[u].pc # "record"
          /\ ~Standing(thread[u].id)
      BY <2>1, <2>2 DEF Alone
    <2>4. thread'[w].pc \in {"ending", "retiring"}
      BY <1>0, <2>1, <2>3, IdlePlace
    <2> QED
      BY <1>5, <1>6, <2>1, <2>3, <2>4
  <1>7. Creations'
    <2> SUFFICES ASSUME NEW u \in Threads
                 PROVE  /\ Creating(u)' => Alone(u)'
                        /\ Creating(u)' /\ thread'[u].pc = "open" => ~Standing(thread[u].id)'
                        /\ thread'[u].pc = "record" => thread'[u].id \notin DOMAIN records'
      BY <1>4 DEF Creations, Standing
    <2>1. thread'[u].pc = "record" => Creating(u)'
      BY DEF Creating
    <2> QED
      BY <1>1, <1>4, <1>5, <1>6, <2>1 DEF Creations
  <1>8. thread'[Pruner].pc \in {"idle", "ending", "retiring"}
    BY <1>0, IdlePlace DEF Hands
  <1>9. mode' = "down" => \A u \in Threads : thread'[u] = Idle
    BY <1>0, IdlePlace DEF Hands
  <1> QED
    BY <1>2, <1>3, <1>7, <1>8, <1>9 DEF Hands

LEMMA LogShrinks ==
    ASSUME Typed, NEW id, RetiredOk(id) \/ RetireErr(id)
    PROVE  DOMAIN records' \subseteq DOMAIN records
  <1>1. records' = Without(records, id) /\ records \in Offsets
    BY TypedParts DEF RetiredOk, RetireErr, LogTyped
  <1> QED
    BY <1>1, WithoutIs

LEMMA ClosedHands ==
    ASSUME Typed, Hands, NEW t \in Threads, thread[t].pc # "idle", Close(t), mode' = mode,
           DOMAIN records' \subseteq DOMAIN records,
           \A i \in expired \ expired' : i = thread[t].id /\ thread[t].pc \in {"stream", "mark"}
    PROVE  Hands'
  <1>1. Set(t, Idle) /\ held' = IF thread[t].hold THEN held \ {thread[t].id} ELSE held
    BY DEF Close
  <1> QED
    BY <1>1, MovedOn

LEMMA WentHands ==
    ASSUME Typed, Hands, NEW t \in Threads, thread[t].pc \in Handed, NEW v, Set(t, v),
           v.id = thread[t].id, v.hold = thread[t].hold, v.pc \in Handed, mode' = mode, held' = held,
           thread[t].pc \in {"ending", "retiring"} => v.pc \in {"ending", "retiring"},
           DOMAIN records' \subseteq DOMAIN records,
           \A i \in expired \ expired' : i = thread[t].id /\ thread[t].pc \in {"stream", "mark"}
    PROVE  Hands'
  <1>1. thread[t].hold /\ v.hold /\ thread[t].pc # "idle"
    BY DEF Hands, Grips, Handed
  <1> QED
    BY <1>1, MovedOn

LEMMA OpenHands ==
    ASSUME Typed, Hands, NEW t \in Threads, OpenStream(t)
    PROVE  Hands'
  <1> DEFINE v == [thread[t] EXCEPT !.pc = "stream", !.sum = bytes'[thread[t].id]]
  <1>0. thread[t].pc = "open" /\ thread[t] \in Places /\ UNCHANGED <<records, expired, mode>>
    BY PlaceOf DEF OpenStream, log
  <1>1. CASE Close(t)
    BY <1>0, <1>1, ClosedHands
  <1>2. CASE ~Close(t)
    <2>1. Standing(thread[t].id) /\ Set(t, v) /\ held' = held
      BY <1>2 DEF OpenStream, Keep
    <2>2. thread[t].hold
      BY <1>0, <2>1 DEF Hands, Creations, Creating
    <2>3. v.id = thread[t].id /\ v.hold = thread[t].hold /\ v.pc = "stream"
      BY <1>0 DEF Places
    <2> QED
      BY <1>0, <2>1, <2>2, <2>3, MovedOn DEF Handed
  <1> QED
    BY <1>1, <1>2

LEMMA BodyHands ==
    ASSUME Typed, Hands, NEW t \in Threads, AppendChunk(t) \/ MarkGrain(t) \/ Settle(t)
    PROVE  Hands'
  <1> DEFINE id == thread[t].id
             sum == thread[t].sum
             at == Len(sum) + 1
             v1 == [thread[t] EXCEPT !.sum = Append(sum, t),
                        !.pc = IF at - thread[t].off >= SyncGrain THEN "mark" ELSE @]
             v2 == [thread[t] EXCEPT !.pc = "stream", !.off = Len(sum)]
  <1>0. /\ thread[t] \in Places /\ thread[t].pc \in {"stream", "mark"} /\ mode' = mode /\ id \in Ids
        /\ Len(sum) \in 0 .. Length
    BY PlaceOf DEF AppendChunk, MarkGrain, Settle
  <1>1. DOMAIN records' \subseteq DOMAIN records
    <2>1. \/ records' = records
          \/ id \in DOMAIN records /\ LogWritten(id, Len(sum))
      BY DEF AppendChunk, MarkGrain, Settle, Received, NotReceived, LogUnwritten, log, Standing
    <2>2. records \in Offsets
      BY TypedParts DEF LogTyped
    <2> QED
      BY <1>0, <2>1, <2>2, WithIs DEF LogWritten
  <1>2. \A i \in expired \ expired' : i = id
    BY DEF AppendChunk, MarkGrain, Settle, Received, NotReceived
  <1>3. CASE Close(t)
    BY <1>0, <1>1, <1>2, <1>3, ClosedHands
  <1>4. CASE ~Close(t)
    <2>1. /\ Set(t, v1) \/ Set(t, v2)
          /\ held' = held
      <3>1. CASE AppendChunk(t)
        <4>1. Close(t) \/ (Set(t, v1) /\ Keep)
          BY <3>1 DEF AppendChunk
        <4> QED
          BY <1>4, <4>1 DEF Keep
      <3>2. CASE MarkGrain(t)
        <4>1. Set(t, v2) /\ Keep
          BY <1>4, <3>2 DEF MarkGrain, Received, NotReceived
        <4> QED
          BY <4>1 DEF Keep
      <3>3. CASE Settle(t)
        BY <1>4, <3>3 DEF Settle, Received, NotReceived
      <3> QED
        BY <3>1, <3>2, <3>3
    <2>2. /\ v1.id = id /\ v1.hold = thread[t].hold /\ v1.pc \in {"stream", "mark"}
          /\ v2.id = id /\ v2.hold = thread[t].hold /\ v2.pc \in {"stream", "mark"}
      BY <1>0 DEF Places
    <2> HIDE DEF v1, v2
    <2> QED
      BY <1>0, <1>1, <1>2, <2>1, <2>2, WentHands DEF Handed
  <1> QED
    BY <1>3, <1>4

LEMMA FinishHands ==
    ASSUME Typed, Hands, NEW t \in Threads,
           \/ FinishStart(t) \/ FinishInstall(t) \/ FinishDirSync(t) \/ FinishLease(t)
           \/ FinishRetire(t) \/ StreamRefused(t) \/ EndRemove(t) \/ EndRetire(t)
    PROVE  Hands'
  <1>0. /\ thread[t] \in Places /\ thread[t].pc \in Handed /\ mode' = mode /\ expired' = expired
    BY PlaceOf DEF FinishStart, FinishInstall, FinishDirSync, FinishLease, FinishRetire,
                   StreamRefused, EndRemove, EndRetire, Handed
  <1>1. DOMAIN records' \subseteq DOMAIN records
    <2>1. records' = records \/ RetiredOk(thread[t].id) \/ RetireErr(thread[t].id)
      BY DEF FinishStart, FinishInstall, FinishDirSync, FinishLease, FinishRetire,
             StreamRefused, EndRemove, EndRetire, log
    <2> QED
      BY <2>1, LogShrinks
  <1>2. CASE Close(t)
    BY <1>0, <1>1, <1>2, ClosedHands DEF Handed
  <1>3. CASE ~Close(t)
    <2>1. PICK pc \in Handed :
              /\ Go(t, pc) /\ held' = held
              /\ thread[t].pc \in {"ending", "retiring"} => pc \in {"ending", "retiring"}
      <3>1. CASE EndRemove(t)
        BY <1>3, <3>1 DEF EndRemove, Keep, Handed
      <3>2. CASE FinishStart(t) \/ StreamRefused(t)
        BY <1>3, <3>2 DEF FinishStart, StreamRefused, Keep, Handed
      <3>3. CASE FinishInstall(t) \/ FinishDirSync(t) \/ FinishLease(t)
        BY <1>3, <3>3 DEF FinishInstall, FinishDirSync, FinishLease, Keep, Handed
      <3> QED
        BY <1>3, <3>1, <3>2, <3>3 DEF FinishRetire, EndRetire
    <2> DEFINE v == [thread[t] EXCEPT !.pc = pc]
    <2>2. v.id = thread[t].id /\ v.hold = thread[t].hold /\ v.pc = pc /\ Set(t, v)
      BY <1>0, <2>1 DEF Places, Go
    <2> HIDE DEF v
    <2> QED
      BY <1>0, <1>1, <2>1, <2>2, WentHands
  <1> QED
    BY <1>2, <1>3

\* A thread that was nowhere comes to an upload: alone where it creates it,
\* after nobody's hold where it ends it.
LEMMA CameHands ==
    ASSUME Typed, Hands, NEW t \in Threads, thread[t].pc = "idle", mode = "up", NEW id \in Ids,
           NEW v, Set(t, v), v.id = id, UNCHANGED <<records, expired, mode>>,
           \/ /\ v.pc = "record" /\ ~v.hold /\ held' = held /\ id \notin DOMAIN records
              /\ \A u \in Threads : thread[u].id # id
              /\ t # Pruner
           \/ /\ v.pc = "claiming" /\ ~v.hold /\ held' = held /\ Standing(id)
              /\ \A u \in Threads : thread[u].id = id => thread[u].pc \notin {"record", "claim"}
              /\ t # Pruner
           \/ /\ v.pc = "ending" /\ v.hold /\ id \notin held /\ held' = held \cup {id}
              /\ \A u \in Threads : thread[u].id = id =>
                    thread[u].pc # "record" /\ (thread[u].pc = "claim" => ~Standing(id))
    PROVE  Hands'
  <1>0. /\ thread'[t] = v /\ \A u \in Threads : u # t => thread'[u] = thread[u]
        /\ Pruner \in Threads
    BY PlacesNext DEF Threads
  <1>1. Grips /\ Owned /\ Creations /\ thread[t] = Idle
    BY DEF Hands, Grips
  <1>2. Grips'
    <2> SUFFICES ASSUME NEW u \in Threads
                 PROVE  /\ thread'[u].pc = "idle" => thread'[u] = Idle
                        /\ thread'[u].hold => thread'[u].id \in held'
                        /\ thread'[u].hold => thread'[u].pc \in Handed \cup {"open"}
                        /\ thread'[u].pc \in Handed => thread'[u].hold
      BY DEF Grips
    <2> QED
      BY <1>0, <1>1 DEF Grips, Handed
  <1>3. Owned'
    <2>1. ASSUME NEW u \in Threads, NEW w \in Threads, thread'[u].hold, thread'[w].hold,
                 thread'[u].id = thread'[w].id
          PROVE  u = w
      BY <1>0, <1>1, <2>1 DEF Owned, Grips
    <2>2. ASSUME NEW i \in held' PROVE \E u \in Threads : thread'[u].hold /\ thread'[u].id = i
      <3>1. CASE i = id /\ v.hold
        BY <1>0, <3>1
      <3>2. CASE i \in held
        <4>1. PICK u \in Threads : thread[u].hold /\ thread[u].id = i
          BY <1>1, <3>2 DEF Owned
        <4> QED
          BY <1>0, <1>1, <4>1, IdlePlace
      <3> QED
        BY <2>2, <3>1, <3>2
    <2> QED
      BY <2>1, <2>2 DEF Owned
  <1>4. ASSUME NEW u \in Threads, Creating(u)', u # t
        PROVE  Creating(u) /\ thread'[u] = thread[u] /\ Alone(u)
    BY <1>0, <1>1, <1>4 DEF Creating, Creations
  <1>5. ASSUME NEW u \in Threads, Creating(u)' PROVE Alone(u)'
    <2>1. CASE u = t
      <3>1. v.pc = "record"
        BY <1>0, <1>5, <2>1 DEF Creating
      <3> QED
        BY <1>0, <2>1, <3>1 DEF Alone
    <2>2. CASE u # t
      <3> SUFFICES ASSUME NEW w \in Threads \ {u}, thread'[w].id = thread'[u].id
                   PROVE  /\ thread'[w].pc \in {"ending", "retiring"} /\ thread'[u].pc # "record"
                          /\ ~Standing(thread[u].id)
        BY <1>4, <1>5, <2>2 DEF Alone, Standing
      <3>1. CASE w # t
        BY <1>0, <1>4, <1>5, <2>2, <3>1 DEF Alone
      <3>2. CASE w = t
        <4>1. thread[u].id = id /\ Creating(u)
          BY <1>0, <1>4, <1>5, <2>2, <3>2
        <4>2. Creating(u) /\ thread[u].pc = "open" => ~Standing(thread[u].id)
          BY <1>1 DEF Creations
        <4>3. v.pc = "ending"
          BY <4>1, <4>2 DEF Creating
        <4> QED
          BY <1>0, <1>4, <1>5, <2>2, <3>2, <4>1, <4>2, <4>3 DEF Creating
      <3> QED
        BY <3>1, <3>2
    <2> QED
      BY <2>1, <2>2
  <1>6. Creations'
    <2> SUFFICES ASSUME NEW u \in Threads
                 PROVE  /\ Creating(u)' => Alone(u)'
                        /\ Creating(u)' /\ thread'[u].pc = "open" => ~Standing(thread'[u].id)
                        /\ thread'[u].pc = "record" => thread'[u].id \notin DOMAIN records
      BY DEF Creations, Standing
    <2> QED
      BY <1>0, <1>1, <1>4, <1>5 DEF Creations
  <1>7. thread'[Pruner].pc \in {"idle", "ending", "retiring"}
    BY <1>0 DEF Hands
  <1> QED
    BY <1>2, <1>3, <1>6, <1>7 DEF Hands

\* What does not bring an expired record back leaves threads that stay where they are.
LEMMA StayedHands ==
    ASSUME Typed, Hands, UNCHANGED <<thread, held, mode>>, DOMAIN records' = DOMAIN records,
           expired \subseteq expired'
    PROVE  Hands'
  <1>1. \A u \in Threads : Creating(u)' <=> Creating(u)
    BY DEF Creating
  <1>2. \A i : Standing(i)' => Standing(i)
    BY DEF Standing
  <1>3. Grips' /\ Owned'
    BY DEF Hands, Grips, Owned
  <1>4. Creations'
    <2> SUFFICES ASSUME NEW u \in Threads
                 PROVE  /\ Creating(u) => Alone(u)'
                        /\ Creating(u) /\ thread[u].pc = "open" => ~Standing(thread[u].id)'
                        /\ thread[u].pc = "record" => thread[u].id \notin DOMAIN records
      BY <1>1 DEF Creations, Standing
    <2>1. Alone(u) => Alone(u)'
      BY <1>2 DEF Alone, Standing
    <2> QED
      BY <1>2, <2>1 DEF Hands, Creations
  <1> QED
    BY <1>3, <1>4 DEF Hands

LEMMA CreateHands ==
    ASSUME Typed, Hands, Minted, NEW t \in Requests,
           \/ \E id \in Ids : CreatePartial(t, id)
           \/ CreateRecord(t) \/ CreateEmpty(t) \/ CreateClaim(t)
    PROVE  Hands'
  <1>0. /\ t \in Threads /\ t # Pruner /\ Grips /\ Owned /\ Creations
        /\ thread[t] \in Places /\ None \notin Ids
    BY PlaceOf, UploadConstants DEF Threads, Hands
  <1>1. ASSUME NEW id \in Ids, CreatePartial(t, id) PROVE Hands'
    <2>0. /\ thread[t].pc = "idle" /\ mode = "up" /\ id \notin minted
          /\ UNCHANGED <<records, expired, held, mode>>
      BY <1>1 DEF CreatePartial, log
    <2>1. CASE UNCHANGED thread
      BY <2>0, <2>1, StayedHands
    <2>2. CASE ~UNCHANGED thread
      <3> DEFINE v == [Idle EXCEPT !.pc = "record", !.id = id]
      <3>1. Set(t, v)
        BY <1>1, <2>2 DEF CreatePartial
      <3>2. v.pc = "record" /\ v.id = id /\ ~v.hold
        BY DEF Idle
      <3>3. id \notin DOMAIN records /\ \A u \in Threads : thread[u].id # id
        BY <1>0, <2>0, IdlePlace DEF Minted, Grips
      <3> HIDE DEF v
      <3> QED
        BY <1>0, <2>0, <3>1, <3>2, <3>3, CameHands
    <2> QED
      BY <2>1, <2>2
  <1>2. CASE CreateEmpty(t)
    <2>1. Close(t) /\ thread[t].pc = "claim" /\ UNCHANGED <<records, expired, mode>>
      BY <1>2 DEF CreateEmpty, log
    <2> QED
      BY <1>0, <2>1, ClosedHands
  <1>3. CASE CreateRecord(t)
    <2> DEFINE id == thread[t].id
    <2>0. /\ thread[t].pc = "record" /\ UNCHANGED <<held, expired, mode>>
          /\ Creating(t) /\ id \in Ids /\ records \in Offsets /\ ~thread[t].hold
      BY <1>0, <1>3, PlaceOf, TypedParts DEF CreateRecord, Keep, Creating, Grips, Handed, LogTyped
    <2>1. CASE LogUnwritten(id, 0) /\ Set(t, Idle)
      BY <1>0, <2>0, <2>1, MovedOn DEF LogUnwritten
    <2>2. CASE LogWritten(id, 0) /\ Go(t, "claim")
      <3> DEFINE v == [thread[t] EXCEPT !.pc = "claim"]
      <3>1. v.pc = "claim" /\ v.id = id /\ ~v.hold /\ Set(t, v)
        BY <1>0, <2>0, <2>2 DEF Go, Places
      <3> HIDE DEF v
      <3>2. /\ thread'[t] = v /\ \A u \in Threads : u # t => thread'[u] = thread[u]
            /\ Pruner \in Threads
        BY <1>0, <3>1, PlacesNext DEF Threads
      <3>3. 0 \in 0 .. Length
        BY UploadConstants
      <3>4. DOMAIN records' = DOMAIN records \cup {id}
        <4>1. records' = With(records, id, 0)
          BY <2>2 DEF LogWritten
        <4>2. id \in Ids /\ records \in Offsets
          BY <2>0
        <4> HIDE DEF id
        <4>3. DOMAIN With(records, id, 0) = DOMAIN records \cup {id}
          BY <3>3, <4>2, WithIs
        <4> QED
          BY <4>1, <4>3
      <3>5. \A u \in Threads : u # t => thread[u].id # id
        BY <1>0, <2>0 DEF Creations, Alone
      <3>6. \A i : i # id /\ i \in DOMAIN records' /\ i \notin expired' => Standing(i)
        BY <2>0, <3>4 DEF Standing
      <3>7. Grips'
        <4> SUFFICES ASSUME NEW u \in Threads
                     PROVE  /\ thread'[u].pc = "idle" => thread'[u] = Idle
                            /\ thread'[u].hold => thread'[u].id \in held
                            /\ thread'[u].hold => thread'[u].pc \in Handed \cup {"open"}
                            /\ thread'[u].pc \in Handed => thread'[u].hold
          BY <2>0 DEF Grips
        <4> QED
          BY <1>0, <3>1, <3>2 DEF Grips, Handed
      <3>8. Owned'
        <4>1. ASSUME NEW u \in Threads, NEW w \in Threads, thread'[u].hold, thread'[w].hold,
                     thread'[u].id = thread'[w].id
              PROVE  u = w
          BY <1>0, <3>1, <3>2, <4>1 DEF Owned
        <4>2. ASSUME NEW i \in held PROVE \E u \in Threads : thread'[u].hold /\ thread'[u].id = i
          BY <1>0, <2>0, <3>2, <4>2 DEF Owned
        <4> QED
          BY <2>0, <4>1, <4>2 DEF Owned
      <3>9. \A u \in Threads : Creating(u)' => Alone(u)'
        <4> SUFFICES ASSUME NEW u \in Threads, Creating(u)', NEW w \in Threads \ {u},
                            thread'[w].id = thread'[u].id
                     PROVE  /\ thread'[w].pc \in {"ending", "retiring"}
                            /\ thread'[u].pc # "record"
                            /\ ~(thread'[u].id \in DOMAIN records' /\ thread'[u].id \notin expired')
          BY DEF Alone, Standing
        <4>1. u # t /\ w # t
          BY <3>1, <3>2, <3>5
        <4>2. Creating(u)
          BY <3>2, <4>1 DEF Creating
        <4> QED
          BY <1>0, <3>2, <3>5, <3>6, <4>1, <4>2 DEF Creations, Alone
      <3>10. Creations'
        <4> SUFFICES ASSUME NEW u \in Threads
                     PROVE  /\ Creating(u)' /\ thread'[u].pc = "open" =>
                                  ~(thread'[u].id \in DOMAIN records' /\ thread'[u].id \notin expired')
                            /\ thread'[u].pc = "record" => thread'[u].id \notin DOMAIN records'
          BY <3>9 DEF Creations, Standing
        <4>1. CASE u = t
          BY <3>1, <3>2, <4>1
        <4>2. CASE u # t
          <5>1. thread'[u] = thread[u] /\ (Creating(u)' => Creating(u))
            BY <3>2, <4>2 DEF Creating
          <5> QED
            BY <1>0, <3>4, <3>5, <3>6, <4>2, <5>1 DEF Creations
        <4> QED
          BY <4>1, <4>2
      <3>11. thread'[Pruner].pc \in {"idle", "ending", "retiring"}
        BY <1>0, <3>2 DEF Hands
      <3>12. mode # "down"
        BY <1>0, <2>0, IdlePlace DEF Hands
      <3> QED
        BY <2>0, <3>7, <3>8, <3>10, <3>11, <3>12 DEF Hands
    <2> QED
      BY <1>3, <2>1, <2>2 DEF CreateRecord
  <1>4. CASE CreateClaim(t)
    <2> DEFINE id == thread[t].id
               v == [thread[t] EXCEPT !.pc = "open", !.hold = id \notin held]
    <2>0. /\ thread[t].pc = "claim" /\ UNCHANGED <<records, expired, mode>> /\ Set(t, v)
          /\ held' = held \cup {id} /\ Creating(t) /\ id \in Ids /\ ~thread[t].hold
      BY <1>0, <1>4, PlaceOf DEF CreateClaim, log, Creating, Grips, Handed
    <2>1. v.pc = "open" /\ v.id = id /\ (v.hold <=> id \notin held)
      BY <1>0 DEF Places
    <2> HIDE DEF v
    <2>2. /\ thread'[t] = v /\ \A u \in Threads : u # t => thread'[u] = thread[u]
          /\ Pruner \in Threads
      BY <1>0, <2>0, PlacesNext DEF Threads
    <2>3. \A u \in Threads : u # t /\ thread[u].id = id => thread[u].pc \in {"ending", "retiring"}
      BY <1>0, <2>0 DEF Creations, Alone
    <2>4. id \in held => ~Standing(id)
      <3>1. ASSUME id \in held PROVE \E u \in Threads \ {t} : thread[u].id = id
        BY <1>0, <2>0, <3>1 DEF Owned
      <3> QED
        BY <1>0, <2>0, <3>1 DEF Creations, Alone
    <2>5. Grips'
      <3> SUFFICES ASSUME NEW u \in Threads
                   PROVE  /\ thread'[u].pc = "idle" => thread'[u] = Idle
                          /\ thread'[u].hold => thread'[u].id \in held'
                          /\ thread'[u].hold => thread'[u].pc \in Handed \cup {"open"}
                          /\ thread'[u].pc \in Handed => thread'[u].hold
        BY DEF Grips
      <3> QED
        BY <1>0, <2>0, <2>1, <2>2 DEF Grips, Handed
    <2>6. Owned'
      <3>1. ASSUME NEW u \in Threads, NEW w \in Threads, thread'[u].hold, thread'[w].hold,
                   thread'[u].id = thread'[w].id
            PROVE  u = w
        BY <1>0, <2>1, <2>2, <3>1 DEF Owned, Grips
      <3>2. ASSUME NEW i \in held' PROVE \E u \in Threads : thread'[u].hold /\ thread'[u].id = i
        <4>1. CASE i \in held
          BY <1>0, <2>0, <2>2, <4>1 DEF Owned
        <4>2. CASE i \notin held
          BY <1>0, <2>0, <2>1, <2>2, <3>2, <4>2
        <4> QED
          BY <4>1, <4>2
      <3> QED
        BY <3>1, <3>2 DEF Owned
    <2>7. \A u \in Threads : Creating(u)' => Creating(u) /\ thread'[u].id = thread[u].id
                                             /\ (thread'[u].pc = "record" => thread[u].pc = "record")
      BY <2>0, <2>1, <2>2 DEF Creating
    <2>8. \A u \in Threads : Creating(u)' => Alone(u)'
      <3> SUFFICES ASSUME NEW u \in Threads, Creating(u)', NEW w \in Threads \ {u},
                          thread'[w].id = thread'[u].id
                   PROVE  /\ thread'[w].pc \in {"ending", "retiring"}
                          /\ thread'[u].pc # "record" /\ ~Standing(thread[u].id)
        BY <2>0, <2>7 DEF Alone, Standing
      <3>1. thread[w].id = thread[u].id
        BY <2>1, <2>2, <2>7
      <3>2. w # t
        BY <1>0, <2>0, <2>7, <3>1 DEF Creations, Alone
      <3> QED
        BY <1>0, <2>2, <2>7, <3>1, <3>2 DEF Creations, Alone
    <2>9. Creations'
      <3> SUFFICES ASSUME NEW u \in Threads
                   PROVE  /\ Creating(u)' /\ thread'[u].pc = "open" => ~Standing(thread'[u].id)
                          /\ thread'[u].pc = "record" => thread'[u].id \notin DOMAIN records
        BY <2>0, <2>8 DEF Creations, Standing
      <3>1. CASE u = t
        BY <2>1, <2>2, <2>4, <3>1 DEF Creating
      <3>2. CASE u # t
        BY <1>0, <2>2, <2>7, <3>2 DEF Creations
      <3> QED
        BY <3>1, <3>2
    <2>10. thread'[Pruner].pc \in {"idle", "ending", "retiring"}
      BY <1>0, <2>2 DEF Hands
    <2>11. mode # "down"
      BY <1>0, <2>0, IdlePlace DEF Hands
    <2> QED
      BY <2>0, <2>5, <2>6, <2>9, <2>10, <2>11 DEF Hands
  <1> QED
    BY <1>1, <1>2, <1>3, <1>4

LEMMA ResumeHands ==
    ASSUME Typed, Hands, ~EagerResume, NEW t \in Requests,
           (\E id \in Ids : ResumeLookup(t, id)) \/ ResumeClaim(t)
    PROVE  Hands'
  <1>0. /\ t \in Threads /\ t # Pruner /\ Grips /\ Owned /\ Creations
        /\ thread[t] \in Places
    BY PlaceOf, UploadConstants DEF Threads, Hands
  <1>1. ASSUME NEW id \in Ids, ResumeLookup(t, id) PROVE Hands'
    <2> DEFINE v == [Idle EXCEPT !.pc = "claiming", !.id = id, !.off = records[id]]
    <2>1. /\ Set(t, v) /\ thread[t].pc = "idle" /\ mode = "up" /\ Standing(id)
          /\ UNCHANGED <<records, expired, mode, held>>
          /\ \A u \in Threads : thread[u].id = id => thread[u].pc \notin {"record", "claim"}
      BY <1>1 DEF ResumeLookup, Keep, log, Offered
    <2>2. v.pc = "claiming" /\ v.id = id /\ ~v.hold
      BY DEF Idle
    <2> HIDE DEF v
    <2> QED
      BY <1>0, <2>1, <2>2, CameHands
  <1>2. CASE ResumeClaim(t)
    <2> DEFINE id == thread[t].id
               v == [thread[t] EXCEPT !.pc = "open", !.hold = TRUE]
    <2>0. /\ thread[t].pc = "claiming" /\ UNCHANGED <<records, expired, mode>>
          /\ id \in Ids /\ ~thread[t].hold
      BY <1>0, <1>2, PlaceOf DEF ResumeClaim, log, Grips, Handed
    <2>1. CASE id \in held
      <3>1. Set(t, Idle) /\ held' = held
        BY <1>2, <2>1 DEF ResumeClaim
      <3> QED
        BY <1>0, <2>0, <3>1, MovedOn
    <2>2. CASE id \notin held
      <3>1. Set(t, v) /\ held' = held \cup {id}
        BY <1>2, <2>2 DEF ResumeClaim
      <3>2. v.pc = "open" /\ v.id = id /\ v.hold
        BY <1>0 DEF Places
      <3> HIDE DEF v
      <3>3. /\ thread'[t] = v /\ \A u \in Threads : u # t => thread'[u] = thread[u]
            /\ Pruner \in Threads
        BY <1>0, <3>1, PlacesNext DEF Threads
      <3>4. Grips'
        <4> SUFFICES ASSUME NEW u \in Threads
                     PROVE  /\ thread'[u].pc = "idle" => thread'[u] = Idle
                            /\ thread'[u].hold => thread'[u].id \in held'
                            /\ thread'[u].hold => thread'[u].pc \in Handed \cup {"open"}
                            /\ thread'[u].pc \in Handed => thread'[u].hold
          BY DEF Grips
        <4> QED
          BY <1>0, <3>1, <3>2, <3>3 DEF Grips, Handed
      <3>5. Owned'
        <4>1. ASSUME NEW u \in Threads, NEW w \in Threads, thread'[u].hold, thread'[w].hold,
                     thread'[u].id = thread'[w].id
              PROVE  u = w
          BY <1>0, <2>2, <3>2, <3>3, <4>1 DEF Owned, Grips
        <4>2. ASSUME NEW i \in held' PROVE \E u \in Threads : thread'[u].hold /\ thread'[u].id = i
          <5>1. CASE i \in held
            BY <1>0, <2>0, <3>3, <5>1 DEF Owned
          <5>2. CASE i \notin held
            BY <1>0, <3>1, <3>2, <3>3, <4>2, <5>2
          <5> QED
            BY <5>1, <5>2
        <4> QED
          BY <4>1, <4>2 DEF Owned
      <3>6. \A u \in Threads : Creating(u)' => u # t /\ Creating(u) /\ thread'[u] = thread[u]
        BY <3>2, <3>3 DEF Creating
      <3>7. \A u \in Threads : Creating(u)' => Alone(u)'
        <4> SUFFICES ASSUME NEW u \in Threads, Creating(u)', NEW w \in Threads \ {u},
                            thread'[w].id = thread[u].id
                     PROVE  /\ thread'[w].pc \in {"ending", "retiring"}
                            /\ thread[u].pc # "record" /\ ~Standing(thread[u].id)
          BY <2>0, <3>6 DEF Alone, Standing
        <4>1. thread[w].id = thread[u].id
          BY <3>2, <3>3
        <4>2. w # t
          BY <1>0, <2>0, <3>6, <4>1 DEF Creations, Alone
        <4> QED
          BY <1>0, <3>3, <3>6, <4>1, <4>2 DEF Creations, Alone
      <3>8. Creations'
        <4> SUFFICES ASSUME NEW u \in Threads
                     PROVE  /\ Creating(u)' /\ thread'[u].pc = "open" => ~Standing(thread'[u].id)
                            /\ thread'[u].pc = "record" => thread'[u].id \notin DOMAIN records
          BY <2>0, <3>7 DEF Creations, Standing
        <4>1. CASE u = t
          BY <3>2, <3>3, <3>6, <4>1 DEF Creating
        <4>2. CASE u # t
          BY <1>0, <3>3, <3>6, <4>2 DEF Creations
        <4> QED
          BY <4>1, <4>2
      <3>9. thread'[Pruner].pc \in {"idle", "ending", "retiring"}
        BY <1>0, <3>3 DEF Hands
      <3>10. mode # "down"
        BY <1>0, <2>0, IdlePlace DEF Hands
      <3> QED
        BY <2>0, <3>4, <3>5, <3>8, <3>9, <3>10 DEF Hands
    <2> QED
      BY <2>1, <2>2
  <1> QED
    BY <1>1, <1>2

LEMMA ClaimedHands ==
    ASSUME Typed, Hands, ~EagerResume, NEW t \in Threads, NEW id \in Ids, EndClaim(t, id)
    PROVE  Hands'
  <1> DEFINE v == [Idle EXCEPT !.pc = "ending", !.id = id, !.hold = TRUE]
  <1>1. /\ Set(t, v) /\ thread[t].pc = "idle" /\ mode = "up" /\ id \notin held
        /\ UNCHANGED <<records, expired, mode>> /\ held' = held \cup {id}
    BY DEF EndClaim, log
  <1>2. v.pc = "ending" /\ v.id = id /\ v.hold
    BY DEF Idle
  <1>3. \A u \in Threads : thread[u].id = id =>
            thread[u].pc # "record" /\ (thread[u].pc = "claim" => ~Standing(id))
    <2>1. CASE t = Pruner
      BY <2>1 DEF EndClaim, Standing, Hands, Creations
    <2>2. CASE t # Pruner
      BY <2>2 DEF EndClaim, Offered
    <2> QED
      BY <2>1, <2>2
  <1> HIDE DEF v
  <1> QED
    BY <1>1, <1>2, <1>3, CameHands

\* A crash takes every hold and every request; an open finds none.
LEMMA StoreHands ==
    ASSUME Typed, Hands, Crash \/ Open
    PROVE  Hands'
  <1>1. thread' = [t \in Threads |-> Idle] /\ held' = {}
    <2>1. CASE Crash
      BY <2>1 DEF Crash
    <2>2. CASE Open
      <3>1. UNCHANGED <<thread, held>> /\ \A t \in Threads : thread[t] = Idle
        BY <2>2 DEF Open, mem, Hands
      <3>2. held = {}
        BY <3>1, IdlePlace DEF Hands, Owned
      <3>3. thread \in [Threads -> Places]
        BY TypedParts DEF ThreadsTyped
      <3> QED
        BY <3>1, <3>2, <3>3
    <2> QED
      BY <2>1, <2>2
  <1>2. \A t \in Threads : thread'[t] = Idle
    BY <1>1
  <1>3. Pruner \in Threads
    BY DEF Threads
  <1>4. Grips'
    BY <1>2, IdlePlace DEF Grips, Handed
  <1>5. Owned'
    BY <1>1, <1>2, IdlePlace DEF Owned
  <1>6. Creations'
    BY <1>2, IdlePlace DEF Creations, Creating
  <1> QED
    BY <1>2, <1>3, <1>4, <1>5, <1>6, IdlePlace DEF Hands

LEMMA NextHands == UploadsInv /\ ~EagerResume /\ [Next]_vars => Hands'
  <1> SUFFICES ASSUME Typed, Hands, Minted, ~EagerResume, [Next]_vars PROVE Hands'
    BY DEF UploadsInv
  <1>1. ASSUME NEW t \in Requests, Request(t) PROVE Hands'
    <2>1. t \in Threads
      BY DEF Threads
    <2> QED
      BY <1>1, <2>1, CreateHands, ResumeHands, OpenHands, BodyHands, FinishHands DEF Request
  <1>2. ASSUME NEW t \in Threads, Ending(t) PROVE Hands'
    BY <1>2, ClaimedHands, FinishHands DEF Ending
  <1>3. CASE (\E id \in Ids : Expire(id)) \/ Compact \/ UNCHANGED vars
    BY <1>3, StayedHands DEF Expire, Compact, vars, log, mem
  <1>4. CASE Crash \/ Open
    BY <1>4, StoreHands
  <1> QED
    BY <1>1, <1>2, <1>3, <1>4 DEF Next

-----------------------------------------------------------------------------
(* What a step of a thread may change *)

Act(t) == (t \in Requests /\ Request(t)) \/ Ending(t)

\* Which step a thread takes from where it is.
LEMMA ActAt ==
    ASSUME NEW t \in Threads, Act(t)
    PROVE  /\ thread[t].pc = "idle" =>
                 /\ mode = "up"
                 /\ \E i \in Ids : CreatePartial(t, i) \/ ResumeLookup(t, i) \/ EndClaim(t, i)
           /\ thread[t].pc = "record" => CreateRecord(t)
           /\ thread[t].pc = "open" => OpenStream(t)
           /\ thread[t].pc = "stream" =>
                 AppendChunk(t) \/ Settle(t) \/ FinishStart(t) \/ StreamRefused(t)
           /\ thread[t].pc = "mark" => MarkGrain(t)
           /\ thread[t].pc = "install" => FinishInstall(t)
           /\ thread[t].pc = "dirsync" => FinishDirSync(t)
           /\ thread[t].pc = "ending" => EndRemove(t)
  BY DEF Act, Request, Ending, CreatePartial, CreateRecord, CreateEmpty, CreateClaim, ResumeLookup,
         ResumeClaim, OpenStream, AppendChunk, MarkGrain, Settle, FinishStart, FinishInstall,
         FinishDirSync, FinishLease, FinishRetire, StreamRefused, EndClaim, EndRemove, EndRetire

\* Where a thread goes from where it is.
After(was, now) ==
    /\ now \in {"record", "claiming", "ending"} => was \in {"idle", "stream"}
    /\ now = "record" => was = "idle"
    /\ now = "stream" => was \in {"open", "stream", "mark"}
    /\ now \in {"mark", "install"} => was = "stream"
    /\ now = "dirsync" => was = "install"
    /\ now = "lease" => was = "dirsync"
    /\ now = "retire" => was = "lease"
    /\ now = "retiring" => was = "ending"

LEMMA ThreadStep ==
    ASSUME Typed, Hands, Minted, NEW t \in Threads, Act(t)
    PROVE  /\ \A u \in Threads : u # t => thread'[u] = thread[u]
           /\ \/ thread'[t] = thread[t]
              \/ thread'[t] = Idle
              \/ thread[t].pc = "idle" /\ thread'[t].id \in minted'
                    /\ thread'[t].pc \in {"record", "claiming", "ending"}
              \/ /\ thread[t].pc # "idle" /\ thread'[t].id = thread[t].id
                 /\ After(thread[t].pc, thread'[t].pc)
                 /\ \/ thread'[t].sum = thread[t].sum
                    \/ OpenStream(t)
                    \/ AppendChunk(t) /\ thread'[t].sum = Append(thread[t].sum, t)
  <1>0. thread[t] \in Places /\ thread \in [Threads -> Places]
    BY PlaceOf, TypedParts DEF ThreadsTyped
  <1>1. ASSUME NEW v, Set(t, v)
        PROVE  thread'[t] = v /\ \A u \in Threads : u # t => thread'[u] = thread[u]
    BY <1>1, PlacesNext
  <1>2. CASE Close(t)
    BY <1>1, <1>2 DEF Close
  <1>4. ASSUME NEW id \in Ids, CreatePartial(t, id) \/ ResumeLookup(t, id) \/ EndClaim(t, id)
        PROVE  \/ thread' = thread
               \/ /\ thread[t].pc = "idle"
                  /\ \E v : Set(t, v) /\ v.id \in minted' /\ v.pc \in {"record", "claiming", "ending"}
    <2>1. CASE CreatePartial(t, id)
      <3> DEFINE v == [Idle EXCEPT !.pc = "record", !.id = id]
      <3>1. v.id = id /\ v.pc = "record"
        BY DEF Idle
      <3>2. thread' = thread \/ Set(t, v)
        BY <2>1 DEF CreatePartial
      <3>3. thread[t].pc = "idle" /\ id \in minted'
        BY <2>1 DEF CreatePartial
      <3> HIDE DEF v
      <3> QED
        BY <3>1, <3>2, <3>3
    <2>2. CASE ResumeLookup(t, id)
      <3> DEFINE v == [Idle EXCEPT !.pc = "claiming", !.id = id, !.off = records[id]]
      <3>1. v.id = id /\ v.pc = "claiming"
        BY DEF Idle
      <3>2. Set(t, v) /\ thread[t].pc = "idle" /\ id \in minted'
        BY <2>2 DEF ResumeLookup, Offered, hist
      <3> HIDE DEF v
      <3> QED
        BY <3>1, <3>2
    <2>3. CASE EndClaim(t, id)
      <3> DEFINE v == [Idle EXCEPT !.pc = "ending", !.id = id, !.hold = TRUE]
      <3>1. v.id = id /\ v.pc = "ending"
        BY DEF Idle
      <3>2. Set(t, v) /\ thread[t].pc = "idle" /\ id \in minted'
        BY <2>3 DEF EndClaim, Offered, hist, Minted
      <3> HIDE DEF v
      <3> QED
        BY <3>1, <3>2
    <2> QED
      BY <1>4, <2>1, <2>2, <2>3
  <1>5. ASSUME NEW pc, Go(t, pc), thread[t].pc # "idle", After(thread[t].pc, pc)
        PROVE  /\ thread[t].pc # "idle" /\ thread'[t].id = thread[t].id
               /\ After(thread[t].pc, thread'[t].pc) /\ thread'[t].sum = thread[t].sum
               /\ \A u \in Threads : u # t => thread'[u] = thread[u]
    BY <1>0, <1>1, <1>5 DEF Go, Places
  <1>6. CASE \E id \in Ids : CreatePartial(t, id) \/ ResumeLookup(t, id) \/ EndClaim(t, id)
    BY <1>1, <1>4, <1>6
  <1>7. CASE CreateRecord(t) \/ CreateEmpty(t) \/ CreateClaim(t) \/ ResumeClaim(t)
    <2> DEFINE v == [thread[t] EXCEPT !.pc = "open", !.hold = thread[t].id \notin held]
               w == [thread[t] EXCEPT !.pc = "open", !.hold = TRUE]
    <2>1. \/ Close(t) \/ Set(t, Idle) \/ Go(t, "claim") \/ Set(t, v) \/ Set(t, w)
      BY <1>7 DEF CreateRecord, CreateEmpty, CreateClaim, ResumeClaim
    <2>2. thread[t].pc # "idle"
      BY <1>7 DEF CreateRecord, CreateEmpty, CreateClaim, ResumeClaim
    <2>3. /\ v.id = thread[t].id /\ v.sum = thread[t].sum /\ v.pc = "open"
          /\ w.id = thread[t].id /\ w.sum = thread[t].sum /\ w.pc = "open"
      BY <1>0 DEF Places
    <2>4. After(thread[t].pc, "open") /\ After(thread[t].pc, "claim")
      BY DEF After
    <2> HIDE DEF v, w
    <2>5. CASE Set(t, v) \/ Set(t, w)
      BY <1>1, <2>2, <2>3, <2>4, <2>5
    <2> QED
      BY <1>1, <1>2, <1>5, <2>1, <2>2, <2>4, <2>5
  <1>8. CASE OpenStream(t)
    <2> DEFINE v == [thread[t] EXCEPT !.pc = "stream", !.sum = bytes'[thread[t].id]]
    <2>1. Close(t) \/ Set(t, v)
      BY <1>8 DEF OpenStream
    <2>2. v.id = thread[t].id /\ v.pc = "stream" /\ thread[t].pc = "open"
      BY <1>0, <1>8 DEF Places, OpenStream
    <2> HIDE DEF v
    <2>3. CASE Set(t, v)
      BY <1>1, <1>8, <2>2, <2>3 DEF After
    <2> QED
      BY <1>2, <2>1, <2>3
  <1>9. CASE AppendChunk(t)
    <2> DEFINE at == Len(thread[t].sum) + 1
               v == [thread[t] EXCEPT !.sum = Append(thread[t].sum, t),
                        !.pc = IF at - thread[t].off >= SyncGrain THEN "mark" ELSE @]
    <2>1. Close(t) \/ Set(t, v)
      BY <1>9 DEF AppendChunk
    <2>2. /\ v.id = thread[t].id /\ v.pc \in {"stream", "mark"} /\ thread[t].pc = "stream"
          /\ v.sum = Append(thread[t].sum, t)
      BY <1>0, <1>9 DEF Places, AppendChunk
    <2> HIDE DEF v
    <2>3. CASE Set(t, v)
      BY <1>1, <1>9, <2>2, <2>3 DEF After
    <2> QED
      BY <1>2, <2>1, <2>3
  <1>10. CASE MarkGrain(t) \/ Settle(t)
    <2> DEFINE v == [thread[t] EXCEPT !.pc = "stream", !.off = Len(thread[t].sum)]
    <2>1. Close(t) \/ (Set(t, v) /\ thread[t].pc = "mark")
      BY <1>10 DEF MarkGrain, Settle, Received, NotReceived
    <2>2. v.id = thread[t].id /\ v.pc = "stream" /\ v.sum = thread[t].sum
      BY <1>0 DEF Places
    <2> HIDE DEF v
    <2>3. CASE Set(t, v) /\ thread[t].pc = "mark"
      BY <1>1, <2>2, <2>3 DEF After
    <2> QED
      BY <1>2, <2>1, <2>3
  <1>11. CASE \/ FinishStart(t) \/ FinishInstall(t) \/ FinishDirSync(t) \/ FinishLease(t)
              \/ FinishRetire(t) \/ StreamRefused(t) \/ EndRemove(t) \/ EndRetire(t)
    <2>1. \/ Close(t)
          \/ \E pc : Go(t, pc) /\ After(thread[t].pc, pc) /\ thread[t].pc # "idle"
      BY <1>11 DEF FinishStart, FinishInstall, FinishDirSync, FinishLease, FinishRetire,
                   StreamRefused, EndRemove, EndRetire, After
    <2> QED
      BY <1>2, <1>5, <2>1
  <1> QED
    BY <1>6, <1>7, <1>8, <1>9, <1>10, <1>11 DEF Act, Request, Ending

\* The line a thread may write: of its own upload.
LEMMA LogStep ==
    ASSUME NEW t \in Threads, Act(t)
    PROVE  LET id == thread[t].id
               n == Len(thread[t].sum)
           IN  \/ UNCHANGED <<filed, logs, records>>
               \/ thread[t].pc = "record" /\ (LogWritten(id, 0) \/ LogUnwritten(id, 0))
               \/ /\ thread[t].pc \in {"stream", "mark"} /\ id \in DOMAIN records
                  /\ \/ LogWritten(id, n) /\ shown' = [shown EXCEPT ![id] = thread[t].sum]
                     \/ LogUnwritten(id, n)
               \/ thread[t].pc \in {"retire", "retiring"} /\ (RetiredOk(id) \/ RetireErr(id))
  <1> DEFINE id == thread[t].id
             n == Len(thread[t].sum)
  <1>1. CASE \/ \E i \in Ids : CreatePartial(t, i) \/ ResumeLookup(t, i) \/ EndClaim(t, i)
             \/ CreateEmpty(t) \/ CreateClaim(t) \/ ResumeClaim(t) \/ OpenStream(t)
             \/ AppendChunk(t)
    BY <1>1 DEF CreatePartial, ResumeLookup, EndClaim, CreateEmpty, CreateClaim, ResumeClaim,
                OpenStream, AppendChunk, log
  <1>2. CASE \/ FinishStart(t) \/ FinishInstall(t) \/ FinishDirSync(t) \/ FinishLease(t)
             \/ StreamRefused(t) \/ EndRemove(t)
    BY <1>2 DEF FinishStart, FinishInstall, FinishDirSync, FinishLease, StreamRefused,
                EndRemove, log
  <1>3. CASE FinishRetire(t) \/ EndRetire(t)
    BY <1>3 DEF FinishRetire, EndRetire
  <1>4. CASE CreateRecord(t)
    BY <1>4 DEF CreateRecord
  <1>5. CASE MarkGrain(t) \/ Settle(t)
    <2>1. thread[t].pc \in {"stream", "mark"}
      BY <1>5 DEF MarkGrain, Settle
    <2>2. \/ /\ id \in DOMAIN records /\ LogWritten(id, n)
             /\ shown' = [shown EXCEPT ![id] = thread[t].sum]
          \/ NotReceived(t)
          \/ UNCHANGED log
      BY <1>5 DEF MarkGrain, Settle, Received, Standing
    <2>3. CASE NotReceived(t)
      BY <2>1, <2>3 DEF NotReceived, log
    <2>4. CASE UNCHANGED log
      BY <2>4 DEF log
    <2> QED
      BY <2>1, <2>2, <2>3, <2>4
  <1> QED
    BY <1>1, <1>2, <1>3, <1>4, <1>5 DEF Act, Request, Ending

\* The entries a thread may change.
LEMMA DirStep ==
    ASSUME NEW t \in Threads, Act(t)
    PROVE  LET id == thread[t].id
           IN  \/ UNCHANGED <<dir, dirs>>
               \/ \E i \in Ids :
                    /\ i \notin minted /\ dir' \in {dir, PartialMade(i)}
                    /\ \/ dirs' = dirs \cup {PartialMade(i), dir'}
                       \/ dirs' = {dir'} /\ dir' = PartialMade(i)
               \/ /\ thread[t].pc = "record" /\ dir' = PartialRemoved(id) /\ dirs' = {dir'}
                  /\ LogUnwritten(id, 0) /\ thread' = [thread EXCEPT ![t] = Idle]
               \/ /\ thread[t].pc = "ending" /\ id \in closed' /\ dir' \in {dir, PartialRemoved(id)}
                  /\ dirs' = {dir'} \/ dirs' = dirs \cup {dir'}
               \/ /\ thread[t].pc = "install" /\ id \in closed' /\ dir' = Installed(t)
                  /\ dirs' = dirs \cup {dir'} /\ id \in dir.partials
                  /\ synced' = [synced EXCEPT ![id] = bytes[id]]
               \/ thread[t].pc = "dirsync" /\ dir' = dir /\ dirs' = {dir}
  <1> DEFINE id == thread[t].id
  <1>1. CASE \E i \in Ids : CreatePartial(t, i)
    BY <1>1 DEF CreatePartial
  <1>2. CASE \/ \E i \in Ids : ResumeLookup(t, i) \/ EndClaim(t, i)
             \/ CreateEmpty(t) \/ CreateClaim(t) \/ ResumeClaim(t) \/ OpenStream(t)
             \/ AppendChunk(t)
    BY <1>2 DEF ResumeLookup, EndClaim, CreateEmpty, CreateClaim, ResumeClaim, OpenStream,
                AppendChunk, disk
  <1>3. CASE \/ FinishStart(t) \/ FinishLease(t) \/ FinishRetire(t) \/ EndRetire(t)
             \/ StreamRefused(t) \/ MarkGrain(t) \/ Settle(t)
    BY <1>3 DEF FinishStart, FinishLease, FinishRetire, EndRetire, StreamRefused, MarkGrain,
                Settle, disk
  <1>4. CASE CreateRecord(t)
    BY <1>4 DEF CreateRecord, Set
  <1>5. CASE EndRemove(t)
    BY <1>5 DEF EndRemove
  <1>6. CASE FinishInstall(t)
    BY <1>6 DEF FinishInstall
  <1>7. CASE FinishDirSync(t)
    BY <1>7 DEF FinishDirSync
  <1> QED
    BY <1>1, <1>2, <1>3, <1>4, <1>5, <1>6, <1>7 DEF Act, Request, Ending

\* The files a thread may change: one it has just made, or one it holds.
LEMMA FileStep ==
    ASSUME Typed, Hands, NEW t \in Threads, Act(t)
    PROVE  \A i \in Ids : bytes'[i] # bytes[i] \/ synced'[i] # synced[i] =>
               \/ i \notin minted /\ bytes'[i] = <<>> /\ synced'[i] = <<>>
               \/ /\ i = thread[t].id /\ thread[t].hold
                  /\ \/ thread[t].pc = "open" /\ i \in dir.partials
                     \/ thread[t].pc \in {"stream", "mark", "install"}
  <1> DEFINE id == thread[t].id
  <1>0. /\ bytes \in [Ids -> Strings] /\ synced \in [Ids -> Strings] /\ Grips
        /\ \A u \in Threads : Creating(u) /\ thread[u].pc = "open" => ~Standing(thread[u].id)
    BY TypedParts DEF FilesTyped, Hands, Creations
  <1>1. ASSUME NEW j \in Ids, CreatePartial(t, j)
        PROVE  \A i \in Ids : bytes'[i] # bytes[i] \/ synced'[i] # synced[i] =>
                   i \notin minted /\ bytes'[i] = <<>> /\ synced'[i] = <<>>
    BY <1>0, <1>1 DEF CreatePartial
  <1>2. CASE \/ \E i \in Ids : ResumeLookup(t, i) \/ EndClaim(t, i)
             \/ CreateRecord(t) \/ CreateEmpty(t) \/ CreateClaim(t) \/ ResumeClaim(t)
    BY <1>2 DEF ResumeLookup, EndClaim, CreateEmpty, CreateRecord, CreateClaim, ResumeClaim, disk
  <1>3. CASE \/ FinishStart(t) \/ FinishLease(t) \/ FinishRetire(t) \/ EndRetire(t)
             \/ StreamRefused(t) \/ EndRemove(t) \/ FinishDirSync(t)
    BY <1>3 DEF FinishStart, FinishLease, FinishRetire, EndRetire, StreamRefused, EndRemove,
                FinishDirSync, disk
  <1>4. CASE OpenStream(t)
    <2>1. CASE UNCHANGED <<bytes, synced>>
      BY <2>1
    <2>2. CASE ~UNCHANGED <<bytes, synced>>
      <3>1. /\ thread[t].pc = "open" /\ Standing(id) /\ id \in dir.partials
            /\ bytes' = [bytes EXCEPT ![id] = Prefix(@, thread[t].off)]
            /\ synced' = synced \/ synced' = [synced EXCEPT ![id] = bytes'[id]]
        BY <1>4, <2>2 DEF OpenStream
      <3>2. thread[t].hold
        BY <1>0, <3>1 DEF Creating
      <3> QED
        BY <1>0, <3>1, <3>2
    <2> QED
      BY <2>1, <2>2
  <1>5. CASE AppendChunk(t) \/ MarkGrain(t) \/ Settle(t) \/ FinishInstall(t)
    <2>1. thread[t].pc \in {"stream", "mark", "install"}
      BY <1>5 DEF AppendChunk, MarkGrain, Settle, FinishInstall
    <2>2. /\ bytes' = bytes \/ bytes' = [bytes EXCEPT ![id] = Overwritten(@, Len(thread[t].sum) + 1, t)]
          /\ synced' = synced \/ synced' = [synced EXCEPT ![id] = bytes[id]]
      BY <1>5 DEF AppendChunk, MarkGrain, Settle, FinishInstall, Received, NotReceived
    <2>3. thread[t].hold
      BY <1>0, <2>1 DEF Grips, Handed
    <2> QED
      BY <1>0, <2>1, <2>2, <2>3
  <1> QED
    BY <1>1, <1>2, <1>3, <1>4, <1>5 DEF Act, Request, Ending

\* The rest: what a record shows, what is closed, what is leased.
LEMMA HistoryStep ==
    ASSUME NEW t \in Threads, Act(t)
    PROVE  /\ closed \subseteq closed' /\ minted \subseteq minted' /\ mode' = mode
           /\ \/ shown' = shown
              \/ /\ thread[t].pc \in {"stream", "mark"} /\ thread[t].id \in DOMAIN records
                 /\ shown' = [shown EXCEPT ![thread[t].id] = thread[t].sum]
                 /\ LogWritten(thread[t].id, Len(thread[t].sum)) /\ UNCHANGED bytes
                 /\ synced' = [synced EXCEPT ![thread[t].id] = bytes[thread[t].id]]
           /\ leases' = leases \/ (thread[t].pc = "lease" /\ UNCHANGED <<dir, dirs>>
                                     /\ leases' = leases \cup {thread[t].sum})
  <1>1. CASE \/ \E i \in Ids : CreatePartial(t, i) \/ ResumeLookup(t, i) \/ EndClaim(t, i)
             \/ CreateRecord(t) \/ CreateEmpty(t) \/ CreateClaim(t) \/ ResumeClaim(t)
             \/ OpenStream(t) \/ AppendChunk(t)
    BY <1>1 DEF CreatePartial, CreateRecord, ResumeLookup, EndClaim, CreateEmpty, CreateClaim,
                ResumeClaim, OpenStream, AppendChunk, hist
  <1>2. CASE \/ FinishStart(t) \/ FinishInstall(t) \/ FinishDirSync(t)
             \/ FinishRetire(t) \/ EndRetire(t) \/ StreamRefused(t) \/ EndRemove(t)
    BY <1>2 DEF FinishStart, FinishInstall, FinishDirSync, FinishRetire, EndRetire, StreamRefused,
                EndRemove, hist
  <1>3. CASE FinishLease(t)
    BY <1>3 DEF FinishLease, disk
  <1>4. CASE MarkGrain(t) \/ Settle(t)
    BY <1>4 DEF MarkGrain, Settle, Received, NotReceived, Standing
  <1> QED
    BY <1>1, <1>2, <1>3, <1>4 DEF Act, Request, Ending

\* The names of blobs change at an install only.
LEMMA BlobStep ==
    ASSUME Typed, NEW t \in Threads, Act(t)
    PROVE  \/ /\ thread[t].pc = "install" /\ thread[t].id \in closed' /\ dir' = Installed(t)
              /\ dirs' = dirs \cup {dir'} /\ thread[t].id \in dir.partials
              /\ synced' = [synced EXCEPT ![thread[t].id] = bytes[thread[t].id]]
           \/ /\ dir'.blobs = dir.blobs /\ dir'.partials \subseteq dir.partials \cup (Ids \ minted)
              /\ \A d \in dirs' : \E e \in dirs :
                    d.blobs = e.blobs /\ d.partials \subseteq e.partials \cup (Ids \ minted)
  <1>0. /\ dir \in dirs
        /\ thread[t].pc # "idle" => thread[t].id \in Ids
        /\ \A i \in Ids : /\ PartialMade(i).blobs = dir.blobs /\ PartialRemoved(i).blobs = dir.blobs
                          /\ PartialMade(i).partials = dir.partials \cup {i}
                          /\ PartialRemoved(i).partials = dir.partials \ {i}
    BY TypedParts, PlaceOf, PartialTyped DEF DirsTyped
  <1> DEFINE id == thread[t].id
             Blank == /\ dir'.blobs = dir.blobs
                      /\ dir'.partials \subseteq dir.partials \cup (Ids \ minted)
                      /\ \A d \in dirs' : \E e \in dirs :
                            d.blobs = e.blobs /\ d.partials \subseteq e.partials \cup (Ids \ minted)
  <1>1. CASE UNCHANGED <<dir, dirs>>
    BY <1>1
  <1>2. ASSUME NEW i \in Ids, i \notin minted, dir' \in {dir, PartialMade(i)},
               dirs' = dirs \cup {PartialMade(i), dir'} \/ (dirs' = {dir'} /\ dir' = PartialMade(i))
        PROVE  Blank
    <2>1. \A d \in dirs' : d \in dirs \/ d = PartialMade(i)
      BY <1>0, <1>2
    <2> QED
      BY <1>0, <1>2, <2>1
  <1>3. ASSUME id \in Ids, dir' \in {dir, PartialRemoved(id)},
               dirs' = {dir'} \/ dirs' = dirs \cup {dir'}
        PROVE  Blank
    BY <1>0, <1>3
  <1>4. CASE dir' = dir /\ dirs' = {dir}
    BY <1>0, <1>4
  <1> QED
    BY <1>0, <1>1, <1>2, <1>3, <1>4, DirStep

LEMMA ActMinted ==
    ASSUME Typed, Hands, Minted, NEW t \in Threads, Act(t)
    PROVE  Minted'
  <1> DEFINE id == thread[t].id
  <1>0. /\ minted \subseteq minted' /\ records \in Offsets /\ filed \in Offsets
        /\ thread[t].pc # "idle" => id \in Ids /\ id \in minted
        /\ Len(thread[t].sum) \in 0 .. Length /\ 0 \in 0 .. Length
        /\ \A f \in {records, filed} \cup logs : DOMAIN f \subseteq minted
        /\ shown \in [Ids -> Strings] /\ Grips
    BY HistoryStep, TypedParts, PlaceOf DEF LogTyped, RestTyped, Minted, Hands
  <1>1. ASSUME NEW u \in Threads, thread'[u].pc # "idle" PROVE thread'[u].id \in minted'
    BY <1>0, <1>1, ThreadStep, IdlePlace DEF Minted, After
  <1>2. \A f \in {records', filed'} \cup logs' : DOMAIN f \subseteq minted
    <2>1. ASSUME NEW n \in 0 .. Length, id \in minted, id \in Ids,
                 LogWritten(id, n) \/ LogUnwritten(id, n)
          PROVE  \A f \in {records', filed'} \cup logs' : DOMAIN f \subseteq minted
      <3>0. records \in Offsets /\ filed \in Offsets /\ id \in Ids
        BY <1>0, <2>1
      <3> HIDE DEF id
      <3>1. /\ DOMAIN With(records, id, n) = DOMAIN records \cup {id}
            /\ DOMAIN With(filed, id, n) = DOMAIN filed \cup {id}
        BY <3>0, WithIs
      <3>2. \A f \in {records', filed'} \cup logs' :
               f \in {records, filed, With(records, id, n), With(filed, id, n)} \cup logs
        BY <2>1 DEF LogWritten, LogUnwritten, LogRefused
      <3> QED
        BY <1>0, <2>1, <3>1, <3>2
    <2>2. ASSUME RetiredOk(id) \/ RetireErr(id)
          PROVE  \A f \in {records', filed'} \cup logs' : DOMAIN f \subseteq minted
      <3>1. /\ DOMAIN Without(records, id) = DOMAIN records \ {id}
            /\ DOMAIN Without(filed, id) = DOMAIN filed \ {id}
        BY <1>0, WithoutIs
      <3>2. \A f \in {records', filed'} \cup logs' :
               f \in {records, filed, Without(records, id), Without(filed, id)} \cup logs
        BY <2>2 DEF RetiredOk, RetireErr, LogRefused
      <3> QED
        BY <1>0, <3>1, <3>2
    <2> QED
      BY <1>0, <2>1, <2>2, LogStep
  <1>3. \A d \in dirs' : \A b \in d.blobs : b.inode \in minted
    <2>1. CASE dir' = Installed(t) /\ dirs' = dirs \cup {dir'} /\ thread[t].pc = "install"
      <3>1. \A b \in dir'.blobs : b \in dir.blobs \/ b = [hex |-> thread[t].sum, inode |-> id]
        BY <2>1 DEF Installed
      <3>2. dir \in dirs /\ id \in minted
        BY <1>0, <2>1, TypedParts DEF DirsTyped
      <3> QED
        BY <2>1, <3>1, <3>2 DEF Minted
    <2>2. CASE \A d \in dirs' : \E e \in dirs : d.blobs = e.blobs
      BY <2>2 DEF Minted
    <2> QED
      BY <2>1, <2>2, BlobStep
  <1>4. \A i \in Ids \ minted' : shown'[i] = <<>>
    <2>1. \A i \in Ids \ minted' : shown[i] = <<>>
      BY <1>0 DEF Minted
    <2>2. shown' = shown \/ (thread[t].pc # "idle" /\ shown' = [shown EXCEPT ![id] = thread[t].sum])
      BY HistoryStep
    <2> QED
      BY <1>0, <2>1, <2>2
  <1> QED
    BY <1>0, <1>1, <1>2, <1>3, <1>4 DEF Minted

LEMMA ActApart ==
    ASSUME Typed, Minted, Apart, NEW t \in Threads, Act(t)
    PROVE  Apart'
  <1> SUFFICES ASSUME NEW d \in dirs', NEW b \in d.blobs
               PROVE  b.inode \notin d.partials /\ b.inode \notin dir'.partials
    BY DEF Apart
  <1>0. dir \in dirs
    BY TypedParts DEF DirsTyped
  <1>1. CASE dir' = Installed(t) /\ dirs' = dirs \cup {dir'}
    <2>1. \A c \in dir'.blobs : c \in dir.blobs \/ c = [hex |-> thread[t].sum, inode |-> thread[t].id]
      BY <1>1 DEF Installed
    <2>2. dir'.partials = dir.partials \ {thread[t].id}
      BY <1>1 DEF Installed
    <2> QED
      BY <1>0, <1>1, <2>1, <2>2 DEF Apart
  <1>2. CASE /\ dir'.partials \subseteq dir.partials \cup (Ids \ minted)
             /\ \A c \in dirs' : \E e \in dirs :
                   c.blobs = e.blobs /\ c.partials \subseteq e.partials \cup (Ids \ minted)
    <2>1. PICK e \in dirs : d.blobs = e.blobs /\ d.partials \subseteq e.partials \cup (Ids \ minted)
      BY <1>2
    <2> QED
      BY <1>2, <2>1 DEF Apart, Minted
  <1> QED
    BY <1>1, <1>2, BlobStep

\* A file with a name is nobody's to write.
LEMMA NamedKept ==
    ASSUME Typed, Hands, Minted, Apart, Streaming, NEW t \in Threads, Act(t),
           NEW d \in dirs, NEW b \in d.blobs, b.inode \in Ids
    PROVE  bytes'[b.inode] = bytes[b.inode] /\ synced'[b.inode] = synced[b.inode]
  <1>1. b.inode \in minted /\ b.inode \notin dir.partials
    BY DEF Minted, Apart
  <1>2. thread[t].pc \in {"stream", "mark", "install"} => b.inode # thread[t].id
    BY DEF Streaming
  <1> QED
    BY <1>1, <1>2, FileStep

LEMMA ActAddressed ==
    ASSUME Typed, Hands, Minted, Apart, Streaming, ContentAddressed, NEW t \in Threads, Act(t)
    PROVE  ContentAddressed'
  <1> SUFFICES ASSUME NEW d \in dirs', NEW b \in d.blobs
               PROVE  bytes'[b.inode] = b.hex /\ synced'[b.inode] = b.hex
    BY DEF ContentAddressed
  <1>0. dir \in dirs /\ (\A e \in dirs : \A c \in e.blobs : c.inode \in Ids)
        /\ bytes \in [Ids -> Strings] /\ synced \in [Ids -> Strings]
    BY TypedParts DEF DirsTyped, Directories, Blobs, FilesTyped
  <1>1. ASSUME NEW e \in dirs, b \in e.blobs
        PROVE  bytes'[b.inode] = b.hex /\ synced'[b.inode] = b.hex
    <2>1. bytes[b.inode] = b.hex /\ synced[b.inode] = b.hex /\ b.inode \in Ids
      BY <1>0, <1>1 DEF ContentAddressed
    <2> QED
      BY <1>1, <2>1, NamedKept
  <1>2. CASE /\ thread[t].pc = "install" /\ dir' = Installed(t) /\ dirs' = dirs \cup {dir'}
             /\ synced' = [synced EXCEPT ![thread[t].id] = bytes[thread[t].id]]
    <2>1. CASE b \in dir.blobs \/ d \in dirs
      BY <1>0, <1>1, <2>1
    <2>2. CASE b \notin dir.blobs /\ d \notin dirs
      <3>1. b = [hex |-> thread[t].sum, inode |-> thread[t].id]
        BY <1>2, <2>2 DEF Installed
      <3>2. b.hex = thread[t].sum /\ b.inode = thread[t].id
        BY <3>1
      <3>3. bytes[thread[t].id] = thread[t].sum /\ thread[t].id \in Ids
        BY <1>2, PlaceOf DEF Streaming
      <3>4. bytes' = bytes
        BY <1>2, ActAt DEF FinishInstall
      <3> QED
        BY <1>0, <1>2, <3>2, <3>3, <3>4
    <2> QED
      BY <2>1, <2>2
  <1>3. CASE \A c \in dirs' : \E e \in dirs : c.blobs = e.blobs
    BY <1>1, <1>3
  <1> QED
    BY <1>2, <1>3, BlobStep

LEMMA ActStreaming ==
    ASSUME Typed, Typed', Hands, Minted, Apart, Streaming, NEW t \in Threads, Act(t)
    PROVE  Streaming'
  <1> DEFINE id == thread[t].id
  <1> SUFFICES ASSUME NEW u \in Threads, thread'[u].pc \in {"stream", "mark", "install"}
               PROVE  /\ bytes'[thread'[u].id] = thread'[u].sum
                      /\ \A d \in dirs' : \A b \in d.blobs : b.inode # thread'[u].id
    BY DEF Streaming
  <1>0. /\ thread[t] \in Places
        /\ thread[u].pc # "idle" => thread[u].id \in Ids
        /\ \A i \in Ids : bytes[i] \in Strings
    BY PlaceOf
  <1>1. /\ bytes \in [Ids -> Strings] /\ dir \in dirs
        /\ Grips /\ Owned
    BY TypedParts DEF FilesTyped, DirsTyped, Hands
  \* Where the thread was already streaming, its file has no name now.
  <1>2. ASSUME thread[u].pc \in {"stream", "mark", "install"} \/ (u = t /\ OpenStream(t) /\ id \in dir.partials),
               thread'[u].id = thread[u].id
        PROVE  \A d \in dirs' : \A b \in d.blobs : b.inode # thread'[u].id
    <2> SUFFICES ASSUME NEW d \in dirs', NEW b \in d.blobs PROVE b.inode # thread[u].id
      BY <1>2
    <2>1. ASSUME NEW e \in dirs, b \in e.blobs PROVE b.inode # thread[u].id
      BY <1>2, <2>1 DEF Streaming, Apart
    <2>2. CASE /\ thread[t].pc = "install" /\ dir' = Installed(t) /\ dirs' = dirs \cup {dir'}
      <3>1. CASE d \in dirs \/ b \in dir.blobs
        BY <1>1, <2>1, <3>1
      <3>2. CASE d \notin dirs /\ b \notin dir.blobs
        <4>1. b = [hex |-> thread[t].sum, inode |-> thread[t].id]
          BY <2>2, <3>2 DEF Installed
        <4>2. u # t
          <5>1. u = t => FinishInstall(t)
            BY <1>2, <2>2, ActAt
          <5>2. FinishInstall(t) => thread'[t].pc \notin {"stream", "mark", "install"}
            <6>1. FinishInstall(t) => Close(t) \/ Go(t, "dirsync")
              BY DEF FinishInstall
            <6>2. Close(t) => thread'[t] = Idle
              BY PlacesNext DEF Close
            <6>3. Go(t, "dirsync") => thread'[t].pc = "dirsync"
              BY <1>0, PlacesNext DEF Go, Places
            <6> QED
              BY <6>1, <6>2, <6>3, IdlePlace
          <5> QED
            BY <5>1, <5>2
        <4>3. thread[u].hold /\ thread[t].hold
          BY <1>1, <1>2, <2>2, <4>2 DEF Grips, Handed
        <4> QED
          BY <1>1, <4>1, <4>2, <4>3 DEF Owned
      <3> QED
        BY <3>1, <3>2
    <2>3. CASE \A c \in dirs' : \E e \in dirs : c.blobs = e.blobs
      BY <2>1, <2>3
    <2> QED
      BY <2>2, <2>3, BlobStep
  <1>3. CASE u # t
    <2>1. thread'[u] = thread[u]
      BY <1>3, ThreadStep
    <2>2. bytes[thread[u].id] = thread[u].sum /\ thread[u].id \in minted /\ thread[u].hold
          /\ thread[u].id \in Ids
      BY <1>0, <1>1, <2>1 DEF Streaming, Minted, Grips, Handed
    <2>3. ~(thread[t].id = thread[u].id /\ thread[t].hold)
      BY <1>1, <1>3, <2>2 DEF Owned
    <2>4. bytes'[thread[u].id] = bytes[thread[u].id]
      BY <2>2, <2>3, FileStep
    <2> QED
      BY <1>2, <2>1, <2>2, <2>4
  <1>4. CASE u = t /\ OpenStream(t)
    <2> DEFINE v == [thread[t] EXCEPT !.pc = "stream", !.sum = bytes'[id]]
    <2>1. id \in dir.partials /\ Set(t, v)
      <3>1. ~Close(t)
        BY <1>4, PlacesNext, IdlePlace DEF Close
      <3> QED
        BY <1>4, <3>1 DEF OpenStream
    <2>2. v.id = id /\ v.sum = bytes'[id]
      BY <1>0 DEF Places
    <2> HIDE DEF v
    <2>3. thread'[t] = v
      BY <2>1, PlacesNext
    <2> QED
      BY <1>2, <1>4, <2>1, <2>2, <2>3
  <1>5. CASE u = t /\ AppendChunk(t)
    <2>1. ~Close(t)
      BY <1>5, PlacesNext, IdlePlace DEF Close
    <2>2. /\ thread[t].pc = "stream" /\ Len(thread[t].sum) < Length
          /\ bytes' = [bytes EXCEPT ![id] = Overwritten(@, Len(thread[t].sum) + 1, t)]
      BY <1>5, <2>1 DEF AppendChunk, Fits
    <2>3. thread'[t].id = id /\ thread'[t].sum = Append(thread[t].sum, t)
      <3> DEFINE at == Len(thread[t].sum) + 1
                 v == [thread[t] EXCEPT !.sum = Append(thread[t].sum, t),
                        !.pc = IF at - thread[t].off >= SyncGrain THEN "mark" ELSE @]
      <3>1. Close(t) \/ Set(t, v)
        BY <1>5 DEF AppendChunk
      <3>2. v.id = id /\ v.sum = Append(thread[t].sum, t)
        BY <1>0 DEF Places
      <3> HIDE DEF v
      <3> QED
        BY <2>1, <3>1, <3>2, PlacesNext
    <2>4. bytes[id] = thread[t].sum /\ id \in Ids /\ thread[t].sum \in Strings
      BY <1>0, <1>5, <2>2, PlaceOf DEF Streaming
    <2>5. t \in Bytes
      <3>1. t \in Requests
        BY <2>2, <1>5 DEF Hands, Threads
      <3> QED
        BY <3>1 DEF Bytes
    <2>6. Overwritten(thread[t].sum, Len(thread[t].sum) + 1, t) = Append(thread[t].sum, t)
      BY <2>2, <2>4, <2>5, AppendIs
    <2>7. bytes'[id] = Append(thread[t].sum, t)
      BY <1>1, <2>2, <2>4, <2>6
    <2> QED
      BY <1>2, <1>5, <2>2, <2>3, <2>7
  <1>6. CASE u = t /\ ~OpenStream(t) /\ ~AppendChunk(t)
    <2>0. thread[t].pc # "open" \/ thread'[t] = thread[t] \/ thread'[t] = Idle
      <3>1. thread[t].pc = "open" => OpenStream(t)
        BY ActAt
      <3> QED
        BY <1>6, <3>1
    <2>1. /\ thread'[t].sum = thread[t].sum /\ thread'[t].id = thread[t].id
          /\ thread[t].pc \in {"stream", "mark", "install"}
      BY <1>6, <2>0, ThreadStep, IdlePlace DEF After
    <2>2. bytes[id] = thread[t].sum /\ id \in Ids
      BY <1>0, <1>6, <2>1 DEF Streaming
    <2>3. bytes' = bytes
      BY <1>6, <2>1, ActAt DEF Settle, MarkGrain, FinishStart, FinishInstall, StreamRefused, disk
    <2> QED
      BY <1>2, <1>6, <2>1, <2>2, <2>3
  <1> QED
    BY <1>3, <1>4, <1>5, <1>6

\* A name every directory has stays in every directory.
LEMMA NamesStay ==
    ASSUME Typed, NEW t \in Threads, Act(t), NEW hex
    PROVE  /\ (\A d \in dirs : Named(d, hex)) => \A d \in dirs' : Named(d, hex)
           /\ Named(dir, hex) => Named(dir', hex)
  <1>0. dir \in dirs
    BY TypedParts DEF DirsTyped
  <1>1. CASE dir' = Installed(t) /\ dirs' = dirs \cup {dir'}
    <2>1. dir'.blobs = {b \in dir.blobs : b.hex # thread[t].sum}
                          \cup {[hex |-> thread[t].sum, inode |-> thread[t].id]}
      BY <1>1 DEF Installed
    <2>2. [hex |-> thread[t].sum, inode |-> thread[t].id].hex = thread[t].sum
      OBVIOUS
    <2>3. Named(dir, hex) => Named(dir', hex)
      BY <2>1, <2>2 DEF Named
    <2> QED
      BY <1>0, <1>1, <2>3
  <1>2. CASE /\ dir'.blobs = dir.blobs
             /\ \A d \in dirs' : \E e \in dirs : d.blobs = e.blobs
    BY <1>2 DEF Named
  <1> QED
    BY <1>1, <1>2, BlobStep

LEMMA ActLeases ==
    ASSUME Typed, Hands, Minted, Finishing, LeaseHasBytes, NEW t \in Threads, Act(t)
    PROVE  Finishing' /\ LeaseHasBytes'
  <1>0. thread[t] \in Places
    BY PlaceOf
  <1>1. LeaseHasBytes'
    <2> SUFFICES ASSUME NEW hex \in leases', NEW d \in dirs' PROVE Named(d, hex)
      BY DEF LeaseHasBytes, Named
    <2>1. CASE hex \in leases
      <3>1. \A e \in dirs : Named(e, hex)
        BY <2>1 DEF LeaseHasBytes, Named
      <3> QED
        BY <3>1, NamesStay
    <2>2. CASE hex \notin leases
      <3>1. hex = thread[t].sum /\ thread[t].pc = "lease" /\ dirs' = dirs
        BY <2>2, HistoryStep
      <3> QED
        BY <3>1 DEF Finishing
    <2> QED
      BY <2>1, <2>2
  <1>2. ASSUME NEW u \in Threads, u # t
        PROVE  /\ thread'[u].pc = "dirsync" => Named(dir', thread'[u].sum)
               /\ thread'[u].pc = "lease" => \A d \in dirs' : Named(d, thread'[u].sum)
    <2>1. thread'[u] = thread[u]
      BY <1>2, ThreadStep
    <2> QED
      BY <2>1, NamesStay DEF Finishing
  <1>3. thread'[t].pc = "dirsync" => Named(dir', thread'[t].sum)
    <2>1. CASE thread'[t] = thread[t]
      BY <2>1, NamesStay DEF Finishing
    <2>2. CASE thread'[t] # thread[t] /\ thread'[t].pc = "dirsync"
      <3>1. thread[t].pc = "install" /\ ~Close(t)
        BY <2>2, ThreadStep, PlacesNext, IdlePlace DEF After, Close
      <3>2. FinishInstall(t)
        BY <3>1, ActAt
      <3>3. dir' = Installed(t) /\ Go(t, "dirsync")
        BY <3>1, <3>2 DEF FinishInstall
      <3>4. thread'[t].sum = thread[t].sum
        BY <1>0, <3>3, PlacesNext DEF Go, Places
      <3>5. [hex |-> thread[t].sum, inode |-> thread[t].id] \in dir'.blobs
        BY <3>3 DEF Installed
      <3>6. [hex |-> thread[t].sum, inode |-> thread[t].id].hex = thread[t].sum
        OBVIOUS
      <3> QED
        BY <3>4, <3>5, <3>6 DEF Named
    <2> QED
      BY <2>1, <2>2
  <1>4. thread'[t].pc = "lease" => \A d \in dirs' : Named(d, thread'[t].sum)
    <2>1. CASE thread'[t] = thread[t]
      BY <2>1, NamesStay DEF Finishing
    <2>2. CASE thread'[t] # thread[t] /\ thread'[t].pc = "lease"
      <3>1. thread[t].pc = "dirsync" /\ ~Close(t)
        BY <2>2, ThreadStep, PlacesNext, IdlePlace DEF After, Close
      <3>2. FinishDirSync(t)
        BY <3>1, ActAt
      <3>3. dirs' = {dir} /\ Go(t, "lease")
        BY <3>1, <3>2 DEF FinishDirSync
      <3>4. thread'[t].sum = thread[t].sum
        BY <1>0, <3>3, PlacesNext DEF Go, Places
      <3> QED
        BY <3>1, <3>3, <3>4 DEF Finishing
    <2> QED
      BY <2>1, <2>2
  <1>5. Finishing'
    <2> SUFFICES ASSUME NEW u \in Threads
                 PROVE  /\ thread'[u].pc = "dirsync" => Named(dir', thread'[u].sum)
                        /\ thread'[u].pc = "lease" => \A d \in dirs' : Named(d, thread'[u].sum)
      BY DEF Finishing, Named
    <2> QED
      BY <1>2, <1>3, <1>4
  <1> QED
    BY <1>1, <1>5

-----------------------------------------------------------------------------
(* Bytes received are kept *)

LEMMA StartsOf ==
    ASSUME NEW s \in Strings, NEW t \in Strings, Starts(s, t)
    PROVE  /\ \A n \in 0 .. Len(t) : Len(s) <= n => Starts(s, Prefix(t, n))
           /\ \A w \in Strings : Starts(t, w) => Starts(s, w)
           /\ Starts(s, s)
  <1>0. Len(s) \in Nat /\ Len(t) \in Nat /\ \A w \in Strings : Len(w) \in Nat
    BY LengthOf
  <1>1. ASSUME NEW n \in 0 .. Len(t), Len(s) <= n PROVE Starts(s, Prefix(t, n))
    <2>1. Len(Prefix(t, n)) = n /\ \A k \in 1 .. n : Prefix(t, n)[k] = t[k]
      BY PrefixIs
    <2> QED
      BY <1>0, <1>1, <2>1 DEF Starts
  <1>2. ASSUME NEW w \in Strings, Starts(t, w) PROVE Starts(s, w)
    BY <1>0, <1>2 DEF Starts
  <1>3. Starts(s, s)
    BY <1>0 DEF Starts
  <1> QED
    BY <1>1, <1>2, <1>3

\* A partial every directory has stays in every directory, unless its upload is
\* closed or was never recorded.
LEMMA PartialsStay ==
    ASSUME Typed, NEW t \in Threads, Act(t), NEW i \in Ids, \A d \in dirs : i \in d.partials,
           \/ i # thread[t].id
           \/ /\ i \notin closed'
              /\ ~(thread[t].pc = "record" /\ LogUnwritten(i, 0)
                     /\ thread' = [thread EXCEPT ![t] = Idle])
    PROVE  \A d \in dirs' : i \in d.partials
  <1>0. /\ dir \in dirs
        /\ thread[t].pc # "idle" => thread[t].id \in Ids
        /\ \A j \in Ids : /\ PartialMade(j).partials = dir.partials \cup {j}
                          /\ PartialRemoved(j).partials = dir.partials \ {j}
        /\ Installed(t).partials = dir.partials \ {thread[t].id}
    BY TypedParts, PlaceOf, PartialTyped DEF DirsTyped, Installed
  <1>1. i \in dir.partials
    BY <1>0
  <1>2. ASSUME i # thread[t].id,
               thread[t].id \in Ids, dir' \in {dir, PartialRemoved(thread[t].id)},
               dirs' = {dir'} \/ dirs' = dirs \cup {dir'}
        PROVE  \A d \in dirs' : i \in d.partials
    BY <1>0, <1>1, <1>2
  <1>3. ASSUME NEW j \in Ids, dir' \in {dir, PartialMade(j)},
               dirs' = dirs \cup {PartialMade(j), dir'} \/ (dirs' = {dir'} /\ dir' = PartialMade(j))
        PROVE  \A d \in dirs' : i \in d.partials
    BY <1>0, <1>1, <1>3
  <1>4. ASSUME i # thread[t].id, dir' = Installed(t), dirs' = dirs \cup {dir'}
        PROVE  \A d \in dirs' : i \in d.partials
    BY <1>0, <1>1, <1>4
  <1> QED
    BY <1>0, <1>1, <1>2, <1>3, <1>4, DirStep

\* A file keeps the bytes counted in it.
LEMMA FilesKept ==
    ASSUME Typed, Typed', Hands, Minted, Streaming, NEW t \in Threads, Act(t), NEW i \in Ids,
           i \in minted, NEW s \in Strings, Starts(s, bytes[i]), Starts(s, synced[i]),
           i \in DOMAIN records => Len(s) <= records[i]
    PROVE  Starts(s, bytes'[i]) /\ Starts(s, synced'[i])
  <1> DEFINE id == thread[t].id
             sum == thread[t].sum
  <1>0. /\ bytes \in [Ids -> Strings] /\ synced \in [Ids -> Strings]
        /\ bytes' \in [Ids -> Strings] /\ synced' \in [Ids -> Strings]
    BY TypedParts DEF FilesTyped, Typed, TypeOK
  <1>1. CASE bytes'[i] = bytes[i] /\ synced'[i] = synced[i]
    BY <1>1
  <1>2. CASE bytes'[i] # bytes[i] \/ synced'[i] # synced[i]
    <2>0. i = id /\ thread[t].hold /\ thread[t].pc \in {"open", "stream", "mark", "install"}
      BY <1>2, FileStep
    <2>1. CASE thread[t].pc = "open"
      <3>1. OpenStream(t)
        BY <2>1, ActAt
      <3>2. /\ id \in DOMAIN records /\ records[id] <= Len(bytes[id])
            /\ bytes' = [bytes EXCEPT ![id] = Prefix(@, records[id])]
            /\ synced' = synced \/ synced' = [synced EXCEPT ![id] = bytes'[id]]
        BY <1>2, <3>1 DEF OpenStream, Standing
      <3>3. records[i] \in 0 .. Len(bytes[i])
        <4>1. records[i] \in 0 .. Length /\ Len(bytes[i]) \in Nat
          BY <2>0, <3>2, TypedParts, OffsetsAre, PlaceOf DEF LogTyped
        <4> QED
          BY <2>0, <3>2, <4>1
      <3>4. bytes'[i] = Prefix(bytes[i], records[i])
        BY <1>0, <2>0, <3>2
      <3>5. Starts(s, Prefix(bytes[i], records[i]))
        BY <1>0, <2>0, <3>2, <3>3, StartsOf
      <3> QED
        BY <1>0, <2>0, <3>2, <3>4, <3>5
    <2>2. CASE thread[t].pc \in {"stream", "mark", "install"}
      <3>1. bytes[i] = sum /\ sum \in Strings
        BY <1>0, <2>0, <2>2 DEF Streaming
      <3>2. CASE AppendChunk(t)
        <4>1. /\ Len(sum) < Length /\ synced' = synced
              /\ \/ bytes' = bytes
                 \/ bytes' = [bytes EXCEPT ![id] = Overwritten(@, Len(sum) + 1, t)]
          BY <3>2 DEF AppendChunk, Fits
        <4>2. t \in Bytes
          BY <2>2 DEF Hands, Threads, Bytes
        <4>3. /\ Overwritten(sum, Len(sum) + 1, t) = Append(sum, t) /\ Starts(sum, Append(sum, t))
              /\ Append(sum, t) \in Strings
          BY <3>1, <4>1, <4>2, AppendIs
        <4>4. bytes'[i] = bytes[i] \/ bytes'[i] = Append(sum, t)
          BY <1>0, <2>0, <3>1, <4>1, <4>3
        <4>5. Starts(s, Append(sum, t))
          BY <3>1, <4>3, StartsOf
        <4> QED
          BY <4>1, <4>4, <4>5
      <3>3. CASE ~AppendChunk(t)
        <4>1. MarkGrain(t) \/ Settle(t) \/ FinishInstall(t) \/ UNCHANGED <<bytes, synced>>
          BY <2>2, <3>3, ActAt DEF FinishStart, StreamRefused, disk
        <4>2. /\ bytes' = bytes
              /\ synced' = synced \/ synced' = [synced EXCEPT ![id] = bytes[id]]
          BY <4>1 DEF MarkGrain, Settle, FinishInstall, Received, NotReceived
        <4> QED
          BY <1>0, <2>0, <4>2
      <3> QED
        BY <3>2, <3>3
    <2> QED
      BY <2>0, <2>1, <2>2
  <1> QED
    BY <1>1, <1>2

\* No line and no record a thread writes counts less than was shown.
LEMMA LinesKept ==
    ASSUME Typed, Streaming, Recorded, NEW t \in Threads, Act(t), NEW i \in Ids \ closed,
           NEW s \in Strings, s = shown[i], s # <<>>, Starts(s, bytes[i]),
           NEW f \in logs' \cup {filed', records'},
           \A g \in logs \cup {filed, records} : i \in DOMAIN g /\ Len(s) <= g[i]
    PROVE  i \in DOMAIN f /\ Len(s) <= f[i]
  <1> DEFINE id == thread[t].id
             n == Len(thread[t].sum)
  <1>0. records \in Offsets /\ filed \in Offsets
    BY TypedParts DEF LogTyped
  <1>1. CASE UNCHANGED <<filed, logs, records>>
    BY <1>1
  <1>2. ASSUME NEW m \in 0 .. Length, id \in Ids, i = id => Len(s) <= m,
               LogWritten(id, m) \/ LogUnwritten(id, m)
        PROVE  i \in DOMAIN f /\ Len(s) <= f[i]
    <2>1. f \in {filed, records, With(records, id, m), With(filed, id, m)} \cup logs
      BY <1>2 DEF LogWritten, LogUnwritten, LogRefused
    <2>2. ASSUME NEW g \in {filed, records}
          PROVE  i \in DOMAIN With(g, id, m) /\ Len(s) <= With(g, id, m)[i]
      <3>1. g \in Offsets /\ i \in DOMAIN g /\ Len(s) <= g[i] /\ id \in Ids
        BY <1>0, <1>2
      <3> HIDE DEF id
      <3>2. /\ DOMAIN With(g, id, m) = DOMAIN g \cup {id} /\ With(g, id, m)[id] = m
            /\ \A j \in DOMAIN g : j # id => With(g, id, m)[j] = g[j]
        BY <3>1, WithIs
      <3> QED
        BY <1>2, <3>1, <3>2
    <2> QED
      BY <2>1, <2>2
  <1>3. CASE thread[t].pc = "record" /\ (LogWritten(id, 0) \/ LogUnwritten(id, 0))
    <2>1. id \in Ids /\ i # id /\ 0 \in 0 .. Length
      BY <1>3, PlaceOf, UploadConstants DEF Recorded
    <2> QED
      BY <1>2, <1>3, <2>1
  <1>4. CASE thread[t].pc \in {"stream", "mark"} /\ (LogWritten(id, n) \/ LogUnwritten(id, n))
    <2>1. id \in Ids /\ bytes[id] = thread[t].sum /\ n \in 0 .. Length
      BY <1>4, PlaceOf DEF Streaming
    <2>2. i = id => Len(s) <= n
      BY <2>1 DEF Starts
    <2> QED
      BY <1>2, <1>4, <2>1, <2>2
  <1>5. CASE thread[t].pc \in {"retire", "retiring"} /\ (RetiredOk(id) \/ RetireErr(id))
    <2>1. i # id
      BY <1>5 DEF Recorded
    <2>2. f \in {filed, records, Without(records, id), Without(filed, id)} \cup logs
      BY <1>5 DEF RetiredOk, RetireErr, LogRefused
    <2>3. ASSUME NEW g \in {filed, records}
          PROVE  i \in DOMAIN Without(g, id) /\ Len(s) <= Without(g, id)[i]
      <3>1. g \in Offsets /\ i \in DOMAIN g /\ Len(s) <= g[i]
        BY <1>0
      <3> HIDE DEF id
      <3> QED
        BY <2>1, <3>1, WithoutIs
    <2> QED
      BY <2>2, <2>3
  <1> QED
    BY <1>1, <1>3, <1>4, <1>5, LogStep

LEMMA ActKept ==
    ASSUME Typed, Typed', Hands, Minted, Streaming, Kept, Recorded, NEW t \in Threads, Act(t)
    PROVE  Kept'
  <1> DEFINE id == thread[t].id
             sum == thread[t].sum
  <1> SUFFICES ASSUME NEW i \in Ids \ closed', shown'[i] # <<>>
               PROVE  /\ \A f \in logs' \cup {filed'} : i \in DOMAIN f /\ Len(shown'[i]) <= f[i]
                      /\ \A d \in dirs' : i \in d.partials
                      /\ Starts(shown'[i], synced'[i]) /\ Starts(shown'[i], bytes'[i])
                      /\ mode' = "up" => i \in DOMAIN records' /\ Len(shown'[i]) <= records'[i]
    BY DEF Kept
  <1>0. /\ i \in Ids \ closed /\ mode' = mode /\ shown \in [Ids -> Strings]
        /\ bytes \in [Ids -> Strings] /\ synced \in [Ids -> Strings]
        /\ records \in Offsets /\ filed \in Offsets
    BY HistoryStep, TypedParts DEF RestTyped, FilesTyped, LogTyped
  <1>00. mode = "up"
    <2>1. thread[t].pc # "idle" => mode # "down"
      BY IdlePlace DEF Hands
    <2>2. thread[t].pc = "idle" => mode = "up"
      BY ActAt
    <2> QED
      BY <2>1, <2>2, TypedParts DEF RestTyped, Typed, TypeOK
  <1>1. CASE shown'[i] = shown[i]
    <2> DEFINE s == shown[i]
    <2>0. s \in Strings /\ s # <<>> /\ i \in minted
      BY <1>0, <1>1 DEF Minted
    <2>1. /\ \A g \in logs \cup {filed, records} : i \in DOMAIN g /\ Len(s) <= g[i]
          /\ \A d \in dirs : i \in d.partials
          /\ Starts(s, synced[i]) /\ Starts(s, bytes[i])
      BY <1>0, <1>00, <2>0 DEF Kept
    <2>2. \A f \in logs' \cup {filed', records'} : i \in DOMAIN f /\ Len(s) <= f[i]
      BY <1>0, <2>0, <2>1, LinesKept
    <2>3. Starts(s, synced'[i]) /\ Starts(s, bytes'[i])
      BY <1>0, <2>0, <2>1, FilesKept
    <2>4. ~(i = id /\ thread[t].pc = "record")
      BY <2>0 DEF Recorded
    <2>5. \A d \in dirs' : i \in d.partials
      BY <1>0, <2>1, <2>4, PartialsStay
    <2> QED
      BY <1>1, <2>2, <2>3, <2>5
  <1>2. CASE shown'[i] # shown[i]
    <2>1. /\ thread[t].pc \in {"stream", "mark"} /\ id \in DOMAIN records
          /\ shown' = [shown EXCEPT ![id] = sum] /\ UNCHANGED bytes
          /\ LogWritten(id, Len(sum)) /\ synced' = [synced EXCEPT ![id] = bytes[id]]
      BY <1>2, HistoryStep
    <2>2. /\ i = id /\ shown'[i] = sum /\ bytes[i] = sum /\ sum \in Strings
          /\ Len(sum) \in 0 .. Length
      BY <1>0, <1>2, <2>1, PlaceOf DEF Streaming
    <2>3. bytes'[i] = sum /\ synced'[i] = sum
      BY <1>0, <2>1, <2>2
    <2>4. Starts(sum, sum)
      BY <2>2, LengthOf DEF Starts
    <2>5. /\ With(filed, i, Len(sum))[i] = Len(sum) /\ i \in DOMAIN With(filed, i, Len(sum))
          /\ With(records, i, Len(sum))[i] = Len(sum) /\ i \in DOMAIN With(records, i, Len(sum))
      <3>1. filed \in Offsets /\ records \in Offsets /\ i \in Ids /\ Len(sum) \in 0 .. Length
        BY <1>0, <2>2
      <3> HIDE DEF sum
      <3>2. /\ With(filed, i, Len(sum))[i] = Len(sum)
            /\ DOMAIN With(filed, i, Len(sum)) = DOMAIN filed \cup {i}
        BY <3>1, WithIs
      <3>3. /\ With(records, i, Len(sum))[i] = Len(sum)
            /\ DOMAIN With(records, i, Len(sum)) = DOMAIN records \cup {i}
        BY <3>1, WithIs
      <3> QED
        BY <3>2, <3>3
    <2>6. /\ filed' = With(filed, i, Len(sum)) /\ logs' = {filed'}
          /\ records' = With(records, i, Len(sum))
      BY <2>1, <2>2 DEF LogWritten
    <2>7. Len(sum) <= Len(sum)
      BY <2>2
    <2>8. \A d \in dirs' : i \in d.partials
      <3>1. \A d \in dirs : i \in d.partials
        BY <1>0, <1>00, <2>1, <2>2 DEF Recorded
      <3> QED
        BY <1>0, <2>1, <3>1, PartialsStay
    <2> QED
      BY <2>2, <2>3, <2>4, <2>5, <2>6, <2>7, <2>8
  <1> QED
    BY <1>1, <1>2

LEMMA ActRecorded ==
    ASSUME Typed, Hands, Minted, Kept, Recorded, NEW t \in Threads, Act(t)
    PROVE  Recorded'
  <1> DEFINE id == thread[t].id
  <1>0. /\ closed \subseteq closed' /\ mode' = mode /\ thread[t] \in Places
        /\ records \in Offsets /\ shown \in [Ids -> Strings]
        /\ thread[t].pc # "idle" => id \in Ids
    BY HistoryStep, TypedParts, PlaceOf DEF LogTyped, RestTyped
  <1>1. ASSUME mode' = "up", NEW i \in DOMAIN records' \ closed'
        PROVE  \A d \in dirs' : i \in d.partials
    <2>1. CASE i \in DOMAIN records
      <3>1. i \in Ids /\ \A d \in dirs : i \in d.partials
        BY <1>0, <1>1, <2>1, OffsetsAre DEF Recorded
      <3>2. ~(i = id /\ thread[t].pc = "record")
        BY <2>1 DEF Hands, Creations
      <3> QED
        BY <1>1, <3>1, <3>2, PartialsStay
    <2>2. CASE i \notin DOMAIN records
      <3>1. ASSUME NEW m \in 0 .. Length, id \in Ids, LogWritten(id, m) \/ LogUnwritten(id, m)
            PROVE  i = id /\ LogWritten(id, m)
        <4>1. DOMAIN With(records, id, m) = DOMAIN records \cup {id}
          <5>1. id \in Ids /\ records \in Offsets
            BY <1>0, <3>1
          <5> HIDE DEF id
          <5> QED
            BY <5>1, WithIs
        <4> QED
          BY <1>1, <2>2, <3>1, <4>1 DEF LogWritten, LogUnwritten
      <3>2. ~(RetiredOk(id) \/ RetireErr(id))
        BY <1>1, <2>2, LogShrinks
      <3>3. Len(thread[t].sum) \in 0 .. Length /\ 0 \in 0 .. Length
        BY PlaceOf, UploadConstants
      <3>4. thread[t].pc = "record" /\ i = id /\ LogWritten(id, 0)
        BY <1>0, <1>1, <2>2, <3>1, <3>2, <3>3, LogStep
      <3>5. ~LogUnwritten(id, 0)
        BY <1>1, <2>2 DEF LogUnwritten
      <3>6. \A d \in dirs : i \in d.partials
        BY <3>4 DEF Recorded
      <3> QED
        BY <1>0, <1>1, <3>4, <3>5, <3>6, PartialsStay
    <2> QED
      BY <2>1, <2>2
  <1>2. ASSUME NEW u \in Threads, u # t
        PROVE  /\ thread'[u].pc = "record" =>
                    /\ shown'[thread'[u].id] = <<>>
                    /\ \A d \in dirs' : thread'[u].id \in d.partials
               /\ thread'[u].pc \in {"dirsync", "lease", "retire", "retiring"} =>
                    thread'[u].id \in closed'
    <2>1. thread'[u] = thread[u]
      BY <1>2, ThreadStep
    <2>2. CASE thread[u].pc = "record"
      <3>1. id # thread[u].id
        BY <1>2, <2>2 DEF Hands, Creations, Creating, Alone
      <3>2. thread[u].id \in Ids /\ shown[thread[u].id] = <<>> /\ \A d \in dirs : thread[u].id \in d.partials
        BY <2>2, PlaceOf DEF Recorded
      <3>3. shown'[thread[u].id] = shown[thread[u].id]
        BY <1>0, <3>1, <3>2, HistoryStep
      <3>4. \A d \in dirs' : thread[u].id \in d.partials
        BY <3>1, <3>2, PartialsStay
      <3> QED
        BY <2>1, <2>2, <3>2, <3>3, <3>4
    <2> QED
      BY <1>0, <2>1, <2>2 DEF Recorded
  <1>3. ASSUME thread'[t].pc = "record"
        PROVE  shown'[thread'[t].id] = <<>> /\ \A d \in dirs' : thread'[t].id \in d.partials
    <2>1. thread[t].pc # "record"
      <3>1. thread[t].pc = "record" => CreateRecord(t)
        BY ActAt
      <3>2. CreateRecord(t) => Go(t, "claim") \/ Set(t, Idle)
        BY DEF CreateRecord
      <3>3. ~Go(t, "claim")
        BY <1>0, <1>3, PlacesNext DEF Go, Places
      <3>4. ~Set(t, Idle)
        BY <1>3, PlacesNext, IdlePlace
      <3> QED
        BY <3>1, <3>2, <3>3, <3>4
    <2>2. thread[t].pc = "idle"
      BY <1>3, <2>1, ThreadStep, IdlePlace DEF After
    <2>3. PICK i \in Ids : CreatePartial(t, i) \/ ResumeLookup(t, i) \/ EndClaim(t, i)
      BY <2>2, ActAt
    <2>4. ~ResumeLookup(t, i)
      <3> DEFINE v == [Idle EXCEPT !.pc = "claiming", !.id = i, !.off = records[i]]
      <3>1. v.pc = "claiming"
        BY DEF Idle
      <3> HIDE DEF v
      <3>2. ResumeLookup(t, i) => Set(t, v)
        BY DEF ResumeLookup, v
      <3> QED
        BY <1>3, <3>1, <3>2, PlacesNext
    <2>5. ~EndClaim(t, i)
      <3> DEFINE v == [Idle EXCEPT !.pc = "ending", !.id = i, !.hold = TRUE]
      <3>1. v.pc = "ending"
        BY DEF Idle
      <3> HIDE DEF v
      <3>2. EndClaim(t, i) => Set(t, v)
        BY DEF EndClaim, v
      <3> QED
        BY <1>3, <3>1, <3>2, PlacesNext
    <2> DEFINE v == [Idle EXCEPT !.pc = "record", !.id = i]
    <2>6. /\ Set(t, v) /\ dir' = PartialMade(i) /\ dirs' = {dir'} /\ shown' = shown
          /\ i \notin minted
      BY <1>3, <2>2, <2>3, <2>4, <2>5 DEF CreatePartial
    <2>7. v.id = i
      BY DEF Idle
    <2> HIDE DEF v
    <2>8. thread'[t].id = i
      BY <2>6, <2>7, PlacesNext
    <2>9. i \in PartialMade(i).partials
      BY PartialTyped
    <2> QED
      BY <2>6, <2>8, <2>9 DEF Minted
  <1>4. ASSUME thread'[t].pc \in {"dirsync", "lease", "retire", "retiring"}
        PROVE  thread'[t].id \in closed'
    <2>1. CASE thread'[t] = thread[t]
      BY <1>0, <1>4, <2>1 DEF Recorded
    <2>2. CASE thread'[t] # thread[t]
      <3>1. /\ thread'[t].id = id /\ After(thread[t].pc, thread'[t].pc)
        BY <1>4, <2>2, ThreadStep, IdlePlace
      <3>2. CASE thread[t].pc \in {"dirsync", "lease"}
        BY <1>0, <3>1, <3>2 DEF Recorded
      <3>3. CASE thread[t].pc \in {"install", "ending"}
        <4>1. FinishInstall(t) \/ EndRemove(t)
          BY <3>3, ActAt
        <4>2. ~Close(t)
          BY <1>4, PlacesNext, IdlePlace DEF Close
        <4> QED
          BY <3>1, <4>1, <4>2 DEF FinishInstall, EndRemove
      <3> QED
        BY <1>4, <3>1, <3>2, <3>3 DEF After
    <2> QED
      BY <2>1, <2>2
  <1>5. \A u \in Threads :
            /\ thread'[u].pc = "record" =>
                 /\ shown'[thread'[u].id] = <<>>
                 /\ \A d \in dirs' : thread'[u].id \in d.partials
            /\ thread'[u].pc \in {"dirsync", "lease", "retire", "retiring"} =>
                 thread'[u].id \in closed'
    BY <1>2, <1>3, <1>4
  <1> QED
    BY <1>1, <1>5 DEF Recorded

-----------------------------------------------------------------------------
(* The clock, a compaction, a crash and an open *)

LEMMA QuietKeeps ==
    ASSUME UploadsInv, (\E id \in Ids : Expire(id)) \/ Compact \/ UNCHANGED vars
    PROVE  /\ Minted' /\ Apart' /\ Streaming' /\ Finishing' /\ ContentAddressed' /\ LeaseHasBytes'
           /\ Kept' /\ Recorded'
  <1>0. UNCHANGED <<bytes, synced, dir, dirs, records, leases, mode, thread, minted, shown, closed>>
    BY DEF Expire, Compact, vars, disk, log, mem, hist
  <1>1. \A f \in logs' \cup {filed'} : f \in logs \cup {filed} \/ (mode = "up" /\ f = records)
    BY DEF Expire, Compact, vars, log
  <1>2. Apart' /\ Streaming' /\ ContentAddressed' /\ LeaseHasBytes' /\ Recorded'
    BY <1>0 DEF UploadsInv, Apart, Streaming, ContentAddressed, LeaseHasBytes, Recorded
  <1>3. Finishing'
    BY <1>0 DEF UploadsInv, Finishing, Named
  <1>4. Minted'
    BY <1>0, <1>1 DEF UploadsInv, Minted
  <1>5. Kept'
    <2> SUFFICES ASSUME NEW i \in Ids \ closed, shown[i] # <<>>
                 PROVE  /\ \A f \in logs' \cup {filed'} : i \in DOMAIN f /\ Len(shown[i]) <= f[i]
                        /\ \A d \in dirs : i \in d.partials
                        /\ Starts(shown[i], synced[i]) /\ Starts(shown[i], bytes[i])
                        /\ mode = "up" => i \in DOMAIN records /\ Len(shown[i]) <= records[i]
      BY <1>0 DEF Kept, Starts
    <2> QED
      BY <1>1 DEF UploadsInv, Kept
  <1> QED
    BY <1>2, <1>3, <1>4, <1>5

LEMMA CrashKeeps ==
    ASSUME UploadsInv, Crash
    PROVE  /\ Minted' /\ Apart' /\ Streaming' /\ Finishing' /\ ContentAddressed' /\ LeaseHasBytes'
           /\ Kept' /\ Recorded'
  <1>0. /\ mode' = "down" /\ dir' \in dirs /\ dirs' = {dir'} /\ filed' \in logs /\ logs' = {filed'}
        /\ UNCHANGED <<leases, minted, shown, closed>> /\ records' = [i \in {} |-> 0]
        /\ \A u \in Threads : thread'[u] = Idle
        /\ \A i \in Ids : bytes'[i] \in Leavings(i)
        /\ synced' = bytes'
    BY DEF Crash
  <1>1. \A u \in Threads : thread'[u].pc = "idle"
    BY <1>0, IdlePlace
  <1>2. /\ TypeOK /\ shown \in [Ids -> Strings]
        /\ \A e \in dirs : \A c \in e.blobs : c.inode \in Ids
    BY TypedParts DEF UploadsInv, Typed, DirsTyped, RestTyped, Directories, Blobs
  <1>3. Minted'
    <2>1. DOMAIN records' = {}
      BY <1>0
    <2> QED
      BY <1>0, <1>1, <2>1 DEF UploadsInv, Minted
  <1>4. Apart' /\ Streaming' /\ LeaseHasBytes'
    BY <1>0, <1>1 DEF UploadsInv, Apart, Streaming, LeaseHasBytes
  <1>5. Finishing' /\ Recorded'
    BY <1>0, <1>1 DEF Finishing, Recorded
  <1>6. ContentAddressed'
    <2> SUFFICES ASSUME NEW b \in dir'.blobs PROVE bytes'[b.inode] = b.hex
      BY <1>0 DEF ContentAddressed
    <2>1. bytes[b.inode] = b.hex /\ synced[b.inode] = b.hex /\ b.inode \in Ids
      BY <1>0, <1>2 DEF UploadsInv, ContentAddressed
    <2> QED
      BY <1>0, <1>2, <2>1, LeavingsAre
  <1>7. Kept'
    <2> SUFFICES ASSUME NEW i \in Ids \ closed, shown[i] # <<>>
                 PROVE  /\ i \in DOMAIN filed' /\ Len(shown[i]) <= filed'[i]
                        /\ i \in dir'.partials
                        /\ Starts(shown[i], bytes'[i])
      BY <1>0 DEF Kept, Starts
    <2>1. /\ \A f \in logs \cup {filed} : i \in DOMAIN f /\ Len(shown[i]) <= f[i]
          /\ \A d \in dirs : i \in d.partials
          /\ Starts(shown[i], synced[i]) /\ Starts(shown[i], bytes[i])
      BY DEF UploadsInv, Kept
    <2>2. Starts(shown[i], bytes'[i])
      BY <1>0, <1>2, <2>1, LeavingsAre
    <2> QED
      BY <1>0, <2>1, <2>2
  <1> QED
    BY <1>3, <1>4, <1>5, <1>6, <1>7

LEMMA StoreKeeps ==
    ASSUME UploadsInv, Open
    PROVE  /\ Minted' /\ Apart' /\ Streaming' /\ Finishing' /\ ContentAddressed' /\ LeaseHasBytes'
           /\ Kept' /\ Recorded'
  <1>0. /\ Typed /\ Hands /\ Minted /\ Apart /\ ContentAddressed /\ LeaseHasBytes /\ Kept
    BY DEF UploadsInv
  <1>1. PICK left \in SUBSET (DOMAIN filed \cap expired) :
            /\ records' = Reconciled(left)
            /\ bytes' = [id \in Ids |->
                  IF id \in DOMAIN records' \ left THEN Prefix(bytes[id], records'[id])
                                                   ELSE bytes[id]]
            /\ closed' = closed \cup (DOMAIN filed \cap expired)
    BY DEF Open
  <1>2. /\ mode = "down" /\ synced' = bytes' /\ filed' = records' /\ logs' = {filed'}
        /\ dir' = [dir EXCEPT !.partials = @ \cap DOMAIN records'] /\ dirs' = {dir'}
        /\ UNCHANGED <<leases, minted, shown, thread>>
    BY DEF Open, mem
  <1>3. dir \in dirs /\ dir \in Directories /\ shown \in [Ids -> Strings] /\ bytes \in [Ids -> Strings]
        /\ filed \in Offsets
    BY <1>0, TypedParts DEF DirsTyped, RestTyped, FilesTyped, LogTyped
  <1>4. dir'.blobs = dir.blobs /\ dir'.partials = dir.partials \cap DOMAIN records'
    BY <1>2, <1>3 DEF Directories
  <1>5. /\ DOMAIN records' = {id \in DOMAIN filed \ expired : id \in dir.partials} \cup left
        /\ \A id \in DOMAIN records' \ left :
              /\ records'[id] \in 0 .. Len(bytes[id])
              /\ records'[id] = filed[id] \/ records'[id] = Len(bytes[id])
    BY <1>0, <1>1, ReconciledIs
  <1>6. \A u \in Threads : thread'[u].pc = "idle"
    BY <1>0, <1>2, IdlePlace DEF Hands
  <1>7. Minted'
    <2>1. DOMAIN records' \subseteq minted
      BY <1>0, <1>5 DEF Minted
    <2>2. \A b \in dir'.blobs : b.inode \in minted
      BY <1>0, <1>3, <1>4 DEF Minted
    <2>3. \A i \in Ids \ minted : shown[i] = <<>>
      BY <1>0 DEF Minted
    <2> QED
      BY <1>2, <1>6, <2>1, <2>2, <2>3 DEF Minted
  <1>8. Apart'
    BY <1>0, <1>2, <1>3, <1>4 DEF Apart
  <1>9. Streaming' /\ Finishing'
    BY <1>6 DEF Streaming, Finishing
  <1>10. LeaseHasBytes'
    <2> SUFFICES ASSUME NEW hex \in leases PROVE \E b \in dir'.blobs : b.hex = hex
      BY <1>2 DEF LeaseHasBytes
    <2> QED
      BY <1>0, <1>3, <1>4 DEF LeaseHasBytes
  <1>11. ContentAddressed'
    <2> SUFFICES ASSUME NEW b \in dir'.blobs PROVE bytes'[b.inode] = b.hex
      BY <1>2 DEF ContentAddressed
    <2>1. bytes[b.inode] = b.hex /\ b.inode \notin dir.partials /\ b.inode \in Ids
      BY <1>0, <1>3, <1>4 DEF ContentAddressed, Apart, Directories, Blobs
    <2>2. b.inode \notin DOMAIN records' \ left
      BY <1>5, <2>1
    <2> QED
      BY <1>1, <2>1, <2>2
  <1>12. Kept'
    <2> SUFFICES ASSUME NEW i \in Ids \ closed', shown[i] # <<>>
                 PROVE  /\ i \in DOMAIN records' /\ Len(shown[i]) <= records'[i]
                        /\ i \in dir'.partials
                        /\ Starts(shown[i], bytes'[i])
      BY <1>2 DEF Kept, Starts
    <2>1. /\ i \notin closed /\ i \notin DOMAIN filed \cap expired
      BY <1>1
    <2>2. /\ i \in DOMAIN filed /\ Len(shown[i]) <= filed[i] /\ i \in dir.partials
          /\ Starts(shown[i], bytes[i])
      BY <1>0, <1>3, <2>1 DEF Kept
    <2>3. i \in DOMAIN records' \ left
      BY <1>5, <2>1, <2>2
    <2>4. Len(shown[i]) <= Len(bytes[i])
      BY <2>2 DEF Starts
    <2>5. records'[i] \in 0 .. Len(bytes[i]) /\ Len(shown[i]) <= records'[i]
      BY <1>5, <2>2, <2>3, <2>4
    <2>6. bytes'[i] = Prefix(bytes[i], records'[i])
      BY <1>1, <2>3
    <2>7. Starts(shown[i], Prefix(bytes[i], records'[i]))
      BY <1>3, <2>2, <2>5, StartsOf
    <2> QED
      BY <1>4, <2>2, <2>3, <2>5, <2>6, <2>7
  <1>13. Recorded'
    <2> SUFFICES ASSUME NEW i \in DOMAIN records' \ closed' PROVE i \in dir'.partials
      BY <1>2, <1>6 DEF Recorded
    <2>1. i \notin left
      BY <1>1
    <2> QED
      BY <1>4, <1>5, <2>1
  <1> QED
    BY <1>7, <1>8, <1>9, <1>10, <1>11, <1>12, <1>13

-----------------------------------------------------------------------------
(* Theorems *)

LEMMA InitInv == Init => UploadsInv
  <1> SUFFICES ASSUME Init PROVE UploadsInv
    OBVIOUS
  <1>1. /\ \A u \in Threads : thread[u] = Idle
        /\ \A u \in Threads : thread[u].pc = "idle" /\ thread[u].id = None /\ ~thread[u].hold
        /\ Pruner \in Threads
    BY IdlePlace DEF Init, Threads
  <1>2. /\ dirs = {dir} /\ dir.blobs = {} /\ DOMAIN records = {} /\ filed = records /\ logs = {filed}
        /\ leases = {} /\ held = {} /\ \A i \in Ids : shown[i] = <<>>
    BY DEF Init
  <1>3. Grips /\ Owned /\ Creations
    BY <1>1, <1>2 DEF Grips, Owned, Creations, Creating, Handed
  <1>4. Hands /\ Minted /\ Apart /\ Streaming /\ Finishing
    BY <1>1, <1>2, <1>3 DEF Hands, Minted, Apart, Streaming, Finishing
  <1>5. ContentAddressed /\ LeaseHasBytes /\ Kept /\ Recorded
    BY <1>1, <1>2 DEF ContentAddressed, LeaseHasBytes, Kept, Recorded
  <1> QED
    BY <1>4, <1>5, InitTyped DEF UploadsInv

LEMMA NextInv == UploadsInv /\ ~EagerResume /\ [Next]_vars => UploadsInv'
  <1> SUFFICES ASSUME UploadsInv, ~EagerResume, [Next]_vars PROVE UploadsInv'
    OBVIOUS
  <1>1. /\ Typed /\ Hands /\ Minted /\ Apart /\ Streaming /\ Finishing
        /\ ContentAddressed /\ LeaseHasBytes /\ Kept /\ Recorded
    BY DEF UploadsInv
  <1>2. Typed' /\ Hands'
    BY <1>1, NextTyped, NextHands
  <1>3. ASSUME NEW t \in Threads, Act(t)
        PROVE  /\ Minted' /\ Apart' /\ Streaming' /\ Finishing' /\ ContentAddressed' /\ LeaseHasBytes'
               /\ Kept' /\ Recorded'
    BY <1>1, <1>2, <1>3, ActMinted, ActApart, ActStreaming, ActAddressed, ActLeases, ActKept,
       ActRecorded
  <1>4. \/ \E t \in Threads : Act(t)
        \/ (\E id \in Ids : Expire(id)) \/ Compact \/ UNCHANGED vars
        \/ Crash \/ Open
    BY DEF Next, Act, Threads
  <1> QED
    BY <1>2, <1>3, <1>4, QuietKeeps, CrashKeeps, StoreKeeps DEF UploadsInv

\* Whatever the clients do, every variable keeps its type: a stream never takes
\* a chunk past the declared length, a file never grows past it, and an offset
\* of the log or of a record is never more (Stream::append's length check,
\* partials::open_at's cut, reconcile's offsets).
THEOREM UploadsTyped == Spec => []TypeOK
  <1>1. Typed => TypeOK
    BY DEF Typed
  <1> QED
    BY <1>1, InitTyped, NextTyped, PTL DEF Spec

\* What the other theorems rest on: the invariant, of every behaviour in which
\* a client acts on an upload only once its creation has claimed it.
THEOREM UploadsInvariant == ASSUME ~EagerResume PROVE Spec => []UploadsInv
  <1>1. UploadsInv /\ [Next]_vars => UploadsInv'
    BY NextInv
  <1> QED
    BY <1>1, InitInv, PTL DEF Spec

\* A finished upload's file is the bytes its name hashes, on disk and in every
\* directory a crash may leave: MediaGate's hold keeps every other stream from
\* the file Stream::finish renames.
THEOREM FilesAddressed == ASSUME ~EagerResume PROVE Spec => []ContentAddressed
  <1>1. UploadsInv => ContentAddressed
    BY DEF UploadsInv
  <1> QED
    BY <1>1, UploadsInvariant, PTL

\* A lease's line is written after the rename and the directory's sync
\* (Stream::finish), so no crash leaves a lease without its bytes.
THEOREM LeasedBytesHeld == ASSUME ~EagerResume PROVE Spec => []LeaseHasBytes
  <1>1. UploadsInv => LeaseHasBytes
    BY DEF UploadsInv
  <1> QED
    BY <1>1, UploadsInvariant, PTL

\* Bytes a record has counted (receive syncs the partial, then writes the line)
\* are there, and counted, over every crash, failed call, compaction and open,
\* until the upload is ended, expires or is finished.
THEOREM ReceivedStays == ASSUME ~EagerResume PROVE Spec => []ReceivedKept
  <1>1. UploadsInv => ReceivedKept
    <2> SUFFICES ASSUME UploadsInv, mode = "up", NEW i \in Ids \ closed, shown[i] # <<>>
                 PROVE  /\ i \in DOMAIN records /\ Len(shown[i]) <= records[i]
                        /\ IsPrefix(shown[i], bytes[i])
      BY DEF ReceivedKept
    <2>1. /\ i \in DOMAIN records /\ Len(shown[i]) <= records[i] /\ Starts(shown[i], bytes[i])
      BY DEF UploadsInv, Kept
    <2>2. shown[i] \in Strings /\ bytes[i] \in Strings
      BY TypedParts DEF UploadsInv, FilesTyped, RestTyped
    <2> QED
      BY <2>1, <2>2, StartsIsPrefix
  <1> QED
    BY <1>1, UploadsInvariant, PTL
=============================================================================
