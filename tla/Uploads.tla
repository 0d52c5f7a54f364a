------------------------------ MODULE Uploads ------------------------------
(***************************************************************************)
(* Resumable uploads: the partials, the upload records and their log, the  *)
(* stream of a request and its finish (crates/skep-blobs), under the holds *)
(* and routes that drive them (skep-media's gate and pruner, skepd's blob  *)
(* routes).                                                                *)
(*                                                                         *)
(* One principal.  A byte is the request that sent it; NoByte is what a    *)
(* file holds where nothing was written.  A file is named by its inode,    *)
(* the identifier it was created for, and a hash is the bytes hashed: two  *)
(* sequences have one name only if they are equal.  An expiry is a fact    *)
(* about an identifier, turned on by the clock and off by a byte received. *)
(* The directory persists in the order its entries change; a file past its *)
(* last sync is whatever a crash made of it.                               *)
(***************************************************************************)
EXTENDS Integers, Sequences, FiniteSets, SequencesExt

CONSTANTS
    Ids,           \* identifiers UploadId::mint may return
    Requests,      \* request threads
    Pruner,        \* the pruner's thread
    NoByte,        \* what a hole or an unwritten block reads as
    None,          \* no identifier, no thread
    Length,        \* the declared length, in bytes a chunk carries
    SyncGrain,     \* SYNC_GRAIN, in the same
    EagerResume,   \* whether a client acts on an upload its creation has not claimed
    MaxExpired,    \* bound: records past their expiry at one time
    MaxFaults,     \* bound: failed system calls in one behaviour
    MaxCrashes     \* bound: crashes in one behaviour

ASSUME UploadConstants ==
    /\ IsFiniteSet(Ids) /\ Length \in Nat \ {0} /\ SyncGrain \in Nat \ {0}
    /\ EagerResume \in BOOLEAN /\ {MaxExpired, MaxFaults, MaxCrashes} \subseteq Nat
    /\ None \notin Ids \cup Requests \cup {Pruner}
    /\ NoByte \notin Requests /\ Pruner \notin Requests

VARIABLES
    bytes,      \* inode -> the file as a read finds it
    synced,     \* inode -> the file as of its last sync
    dir,        \* [partials, blobs]: the designation directory
    dirs,       \* the directories a crash may leave: each since the last sync
    filed,      \* identifier -> offset: the lines of uploads.log, folded
    logs,       \* what a crash may leave of it
    stopped,    \* Log::stopped
    leases,     \* hashes with a synced line in leases.log
    mode,       \* "up" or "down"
    records,    \* UploadRecords.records: identifier -> offset
    expired,    \* identifiers whose record's expiry has passed
    held,       \* MediaGate.held
    finishing,  \* the thread inside Store.finishing, or None
    thread,     \* what each thread is doing
    \* history, read by no action
    minted,     \* identifiers minted
    shown,      \* identifier -> the bytes its record has counted as received
    closed,     \* identifiers ended, expired or installed
    faults, crashes

disk == <<bytes, synced, dir, dirs>>
log  == <<filed, logs, stopped, records>>
mem  == <<expired, held, finishing, thread>>
hist == <<minted, shown, closed, faults, crashes>>
vars == <<disk, log, leases, mode, mem, hist>>

Threads == Requests \cup {Pruner}
Bytes == Requests \cup {NoByte}
Strings == BoundedSeq(Bytes, Length)
Offsets == UNION {[D -> 0 .. Length] : D \in SUBSET Ids}
Blobs == [hex : Strings, inode : Ids]
Directories == [partials : SUBSET Ids, blobs : SUBSET Blobs]

\* A request between two replies, or the pruner between two uploads.
\* off is the stream's durable point, sum the bytes its hasher took.
Steps == {"idle", "record", "claim", "claiming", "open", "stream", "mark",
          "install", "dirsync", "lease", "retire",
          "ending", "retiring"}
Idle == [pc |-> "idle", id |-> None, off |-> 0, sum |-> <<>>,
         hold |-> FALSE]

Prefix(s, n) == SubSeq(s, 1, n)
Standing(id) == id \in DOMAIN records /\ id \notin expired
Without(f, id) == [i \in DOMAIN f \ {id} |-> f[i]]
With(f, id, n) == [i \in DOMAIN f \cup {id} |-> IF i = id THEN n ELSE f[i]]

-----------------------------------------------------------------------------
(* A request's own state *)

Set(t, v) == thread' = [thread EXCEPT ![t] = v]
Go(t, pc) == Set(t, [thread[t] EXCEPT !.pc = pc])

\* The reply: the stream dropped, the hold and the finishing lock released.
Close(t) ==
    /\ Set(t, Idle)
    /\ held' = IF thread[t].hold THEN held \ {thread[t].id} ELSE held
    /\ finishing' = IF finishing = t THEN None ELSE finishing
Keep == UNCHANGED <<held, finishing>>

Ok    == UNCHANGED faults
Fault == faults < MaxFaults /\ faults' = faults + 1

-----------------------------------------------------------------------------
(* uploads.log: jsonl.rs over skep-util's Appender *)

\* append_synced of the line that leaves n as id's offset.
LogWritten(id, n) ==
    /\ ~stopped /\ Ok
    /\ filed' = With(filed, id, n) /\ logs' = {filed'}
    /\ records' = With(records, id, n)
    /\ UNCHANGED stopped

\* The append failed and was cut back, or the cut failed too, or it was refused.
LogRefused(lined) ==
    /\ UNCHANGED filed
    /\ \/ stopped /\ Ok /\ UNCHANGED <<logs, stopped>>
       \/ ~stopped /\ Fault /\ logs' = {filed} /\ UNCHANGED stopped
       \/ ~stopped /\ Fault /\ logs' = logs \cup {lined} /\ stopped' = TRUE

LogUnwritten(id, n) == LogRefused(With(filed, id, n)) /\ UNCHANGED records

\* retire: the record goes first, the line unsynced after it.  The second
\* disjunct is its error.
RetiredOk(id) ==
    /\ records' = Without(records, id)
    /\ IF id \in DOMAIN records
         THEN /\ ~stopped /\ Ok
              /\ filed' = Without(filed, id) /\ logs' = logs \cup {filed'}
              /\ UNCHANGED stopped
         ELSE Ok /\ UNCHANGED <<filed, logs, stopped>>
RetireErr(id) ==
    /\ id \in DOMAIN records
    /\ records' = Without(records, id) /\ LogRefused(Without(filed, id))

\* compact: the current records to a twin, renamed over the log; past the
\* rename a failure stops it.
Compact ==
    /\ mode = "up" /\ (stopped \/ filed # records)
    /\ \/ Ok /\ filed' = records /\ logs' = {records} /\ stopped' = FALSE
       \/ Fault /\ UNCHANGED <<filed, logs, stopped>>
       \/ /\ Fault /\ UNCHANGED filed /\ stopped' = TRUE
          /\ logs' \in {logs \cup {records}, {records}}
    /\ UNCHANGED <<disk, records, leases, mode, mem, minted, shown, closed, crashes>>

-----------------------------------------------------------------------------
(* Creation: Store::create_upload, blob_create *)

PartialMade(id)    == [dir EXCEPT !.partials = @ \cup {id}]
PartialRemoved(id) == [dir EXCEPT !.partials = @ \ {id}]

\* partials::create, or its failure and the removal that follows it.
CreatePartial(t, id) ==
    /\ mode = "up" /\ thread[t].pc = "idle" /\ id \notin minted
    /\ minted' = minted \cup {id}
    /\ bytes' = [bytes EXCEPT ![id] = <<>>] /\ synced' = [synced EXCEPT ![id] = <<>>]
    /\ \/ /\ Ok /\ dir' = PartialMade(id) /\ dirs' = {dir'}
          /\ Set(t, [Idle EXCEPT !.pc = "record", !.id = id])
       \/ /\ Fault /\ dir' \in {dir, PartialMade(id)}
          /\ dirs' = dirs \cup {PartialMade(id), dir'} /\ UNCHANGED thread
    /\ UNCHANGED <<log, leases, mode, expired, held, finishing, shown, closed, crashes>>

\* A record that could not be written takes its partial with it.
CreateRecord(t) ==
    LET id == thread[t].id IN
    /\ thread[t].pc = "record"
    /\ \/ LogWritten(id, 0) /\ Go(t, "claim") /\ UNCHANGED <<dir, dirs>>
       \/ /\ LogUnwritten(id, 0) /\ Set(t, Idle)
          /\ dir' = PartialRemoved(id) /\ dirs' = {dir'}
    /\ Keep
    /\ UNCHANGED <<bytes, synced, leases, mode, expired, minted, shown, closed, crashes>>

\* An empty body ends the request; a body claims the upload, and goes on
\* whether or not the claim was answered.
CreateEmpty(t) ==
    /\ thread[t].pc = "claim" /\ Close(t)
    /\ UNCHANGED <<disk, log, leases, mode, expired, hist>>

CreateClaim(t) ==
    LET id == thread[t].id IN
    /\ thread[t].pc = "claim"
    /\ held' = held \cup {id}
    /\ Set(t, [thread[t] EXCEPT !.pc = "open", !.hold = id \notin held])
    /\ UNCHANGED <<disk, log, leases, mode, expired, finishing, hist>>

-----------------------------------------------------------------------------
(* Resume: blob_resume, Store::resume, partials::open_at *)

\* An identifier is 128 random bits: a client has it from a reply or from the
\* listing of its uploads, which shows a record as soon as it is written.
Offered(id) ==
    /\ id \in minted
    /\ \A t \in Threads : thread[t].id = id =>
          thread[t].pc # "record" /\ (thread[t].pc = "claim" => EagerResume)

\* The client resumes at the offset the record shows, which the store reads
\* again under the hold.
ResumeLookup(t, id) ==
    /\ mode = "up" /\ thread[t].pc = "idle" /\ Standing(id) /\ Offered(id)
    /\ Set(t, [Idle EXCEPT !.pc = "claiming", !.id = id, !.off = records[id]])
    /\ Keep /\ UNCHANGED <<disk, log, leases, mode, expired, hist>>

\* Mutant: the resume goes on without the hold.
ResumeClaimUnheld(t) ==
    /\ thread[t].pc = "claiming"
    /\ Go(t, "open") /\ Keep
    /\ UNCHANGED <<disk, log, leases, mode, expired, hist>>

ResumeClaim(t) ==
    LET id == thread[t].id IN
    /\ thread[t].pc = "claiming"
    /\ IF id \in held
         THEN Set(t, Idle) /\ UNCHANGED held
         ELSE /\ held' = held \cup {id}
              /\ Set(t, [thread[t] EXCEPT !.pc = "open", !.hold = TRUE])
    /\ UNCHANGED <<disk, log, leases, mode, expired, finishing, hist>>

\* The partial is opened at the offset and whatever lies past it cut off.
OpenStream(t) ==
    LET id == thread[t].id
        off == thread[t].off
    IN  /\ thread[t].pc = "open"
        /\ IF /\ Standing(id) /\ records[id] = off
              /\ id \in dir.partials /\ off <= Len(bytes[id])
             THEN /\ bytes' = [bytes EXCEPT ![id] = Prefix(@, off)]
                  /\ \/ /\ Ok
                        /\ synced' = IF Len(bytes[id]) = off THEN synced
                                       ELSE [synced EXCEPT ![id] = bytes'[id]]
                        /\ Set(t, [thread[t] EXCEPT !.pc = "stream", !.sum = bytes'[id]])
                        /\ Keep
                     \/ Fault /\ off < Len(bytes[id]) /\ UNCHANGED synced /\ Close(t)
             ELSE Ok /\ UNCHANGED <<bytes, synced>> /\ Close(t)
    /\ UNCHANGED <<dir, dirs, log, leases, mode, expired, minted, shown, closed, crashes>>

-----------------------------------------------------------------------------
(* The body: Stream::append, receive and settle *)

\* A write at the handle's own position, past the end of the file or not.
Overwritten(file, at, b) ==
    [k \in 1 .. (IF Len(file) < at THEN at ELSE Len(file)) |->
        IF k = at THEN b ELSE IF k <= Len(file) THEN file[k] ELSE NoByte]

\* Mutant: a chunk past the declared length.
FitsAtLength(t) == Len(thread[t].sum) <= Length

Fits(t) == Len(thread[t].sum) < Length

\* One chunk; a failed write counts none of it, and the stream is dropped.
AppendChunk(t) ==
    LET id == thread[t].id
        at == Len(thread[t].sum) + 1
    IN  /\ thread[t].pc = "stream" /\ Fits(t)
        /\ \/ id \notin DOMAIN records /\ Ok /\ Close(t) /\ UNCHANGED bytes
           \/ /\ id \in DOMAIN records /\ Ok /\ Keep
              /\ bytes' = [bytes EXCEPT ![id] = Overwritten(@, at, t)]
              /\ Set(t, [thread[t] EXCEPT !.sum = Append(@, t),
                         !.pc = IF at - thread[t].off >= SyncGrain THEN "mark" ELSE @])
           \/ /\ id \in DOMAIN records /\ Fault /\ Close(t)
              /\ bytes' = [bytes EXCEPT ![id] = Overwritten(@, at, t)]
        /\ UNCHANGED <<synced, dir, dirs, log, leases, mode, expired, minted, shown,
                       closed, crashes>>

\* Mutant: the offset is written and the partial never synced.
ReceivedUnsynced(t, next) ==
    LET id == thread[t].id
        sum == thread[t].sum
    IN  /\ UNCHANGED synced
        /\ LogWritten(id, Len(sum))
        /\ expired' = expired \ {id}
        /\ shown' = [shown EXCEPT ![id] = sum]
        /\ next

\* receive: the partial synced, then the offset written and the expiry
\* re-fixed.  next is what the stream does after it.
Received(t, next) ==
    LET id == thread[t].id
        sum == thread[t].sum
    IN  /\ synced' = [synced EXCEPT ![id] = bytes[id]]
        /\ LogWritten(id, Len(sum))
        /\ expired' = expired \ {id}
        /\ shown' = [shown EXCEPT ![id] = sum]
        /\ next

\* The sync failed; or the record is gone; or its line could not be written.
NotReceived(t) ==
    LET id == thread[t].id IN
    /\ \/ Fault /\ UNCHANGED <<synced, log>>
       \/ /\ synced' = [synced EXCEPT ![id] = bytes[id]]
          /\ \/ id \notin DOMAIN records /\ Ok /\ UNCHANGED log
             \/ id \in DOMAIN records /\ LogUnwritten(id, Len(thread[t].sum))
    /\ Close(t) /\ UNCHANGED <<expired, shown>>

MarkGrain(t) ==
    /\ thread[t].pc = "mark"
    /\ \/ /\ thread[t].id \in DOMAIN records
          /\ Received(t, /\ Set(t, [thread[t] EXCEPT !.pc = "stream", !.off = Len(thread[t].sum)])
                         /\ Keep)
       \/ NotReceived(t)
    /\ UNCHANGED <<bytes, dir, dirs, leases, mode, minted, closed, crashes>>

\* The body ended short of the length, or was not delivered.
Settle(t) ==
    LET id == thread[t].id
        moved == thread[t].off < Len(thread[t].sum)
    IN  /\ thread[t].pc = "stream" /\ Len(thread[t].sum) < Length
        /\ \/ /\ ~Standing(id) \/ ~moved
              /\ Ok /\ Close(t) /\ UNCHANGED <<synced, log, expired, shown>>
           \/ Standing(id) /\ moved /\ Received(t, Close(t))
           \/ Standing(id) /\ moved /\ NotReceived(t)
        /\ UNCHANGED <<bytes, dir, dirs, leases, mode, minted, closed, crashes>>

-----------------------------------------------------------------------------
(* The finish: Stream::finish, under Store.finishing *)

FinishStart(t) ==
    /\ thread[t].pc = "stream" /\ Len(thread[t].sum) = Length
    /\ finishing = None
    /\ IF Standing(thread[t].id) /\ ~stopped
         THEN Go(t, "install") /\ finishing' = t /\ UNCHANGED held
         ELSE Close(t)
    /\ UNCHANGED <<disk, log, leases, mode, expired, hist>>

Installed(t) ==
    LET hex == thread[t].sum IN
    [partials |-> dir.partials \ {thread[t].id},
     blobs |-> {b \in dir.blobs : b.hex # hex} \cup {[hex |-> hex, inode |-> thread[t].id]}]

\* The partial synced and renamed onto the name of the bytes hashed.
FinishInstall(t) ==
    LET id == thread[t].id IN
    /\ thread[t].pc = "install"
    /\ \/ /\ Ok /\ id \in dir.partials
          /\ synced' = [synced EXCEPT ![id] = bytes[id]]
          /\ dir' = Installed(t) /\ dirs' = dirs \cup {dir'}
          /\ closed' = closed \cup {id} /\ Go(t, "dirsync") /\ Keep
       \/ /\ Fault /\ Close(t) /\ UNCHANGED <<dir, dirs, closed>>
          /\ synced' \in {synced, [synced EXCEPT ![id] = bytes[id]]}
       \/ /\ Ok /\ id \notin dir.partials /\ Close(t) /\ UNCHANGED <<dir, dirs, closed>>
          /\ synced' = [synced EXCEPT ![id] = bytes[id]]
    /\ UNCHANGED <<bytes, log, leases, mode, expired, minted, shown, crashes>>

\* Mutant: the lease is written while the rename may still be lost.
FinishDirSyncSkipped(t) ==
    /\ thread[t].pc = "dirsync" /\ Go(t, "lease") /\ Keep
    /\ UNCHANGED <<disk, log, leases, mode, expired, hist>>

FinishDirSync(t) ==
    /\ thread[t].pc = "dirsync"
    /\ \/ Ok /\ dirs' = {dir} /\ Go(t, "lease") /\ Keep
       \/ Fault /\ UNCHANGED dirs /\ Close(t)
    /\ UNCHANGED <<bytes, synced, dir, log, leases, mode, expired, minted, shown, closed, crashes>>

FinishLease(t) ==
    /\ thread[t].pc = "lease"
    /\ \/ Ok /\ leases' = leases \cup {thread[t].sum} /\ Go(t, "retire") /\ Keep
       \/ Fault /\ UNCHANGED leases /\ Close(t)
    /\ UNCHANGED <<disk, log, mode, expired, minted, shown, closed, crashes>>

FinishRetire(t) ==
    /\ thread[t].pc = "retire"
    /\ RetiredOk(thread[t].id) \/ RetireErr(thread[t].id)
    /\ Close(t)
    /\ UNCHANGED <<disk, leases, mode, expired, minted, shown, closed, crashes>>

-----------------------------------------------------------------------------
(* Endings: end_upload and expire_upload, each under the upload's hold *)

\* blob_end claims first; a stream refused its bytes or its credential ends
\* the upload under the hold it has; the pruner claims what has expired.
EndClaim(t, id) ==
    /\ mode = "up" /\ thread[t].pc = "idle" /\ id \notin held
    /\ IF t = Pruner THEN id \in DOMAIN records \cap expired ELSE Offered(id)
    /\ held' = held \cup {id}
    /\ Set(t, [Idle EXCEPT !.pc = "ending", !.id = id, !.hold = TRUE])
    /\ UNCHANGED <<disk, log, leases, mode, expired, finishing, hist>>

StreamRefused(t) ==
    /\ thread[t].pc = "stream" /\ Go(t, "ending") /\ Keep
    /\ UNCHANGED <<disk, log, leases, mode, expired, hist>>

Endable(t, id) ==
    IF t = Pruner THEN id \in DOMAIN records \cap expired ELSE Standing(id)

EndRemove(t) ==
    LET id == thread[t].id IN
    /\ thread[t].pc = "ending"
    /\ IF Endable(t, id)
         THEN /\ closed' = closed \cup {id}
              /\ \/ Ok /\ dir' = PartialRemoved(id) /\ dirs' = {dir'}
                    /\ Go(t, "retiring") /\ Keep
                 \/ Fault /\ dir' \in {dir, PartialRemoved(id)} /\ dirs' = dirs \cup {dir'}
                    /\ Close(t)
         ELSE Ok /\ UNCHANGED <<dir, dirs, closed>> /\ Close(t)
    /\ UNCHANGED <<bytes, synced, log, leases, mode, expired, minted, shown, crashes>>

EndRetire(t) ==
    /\ thread[t].pc = "retiring"
    /\ RetiredOk(thread[t].id) \/ RetireErr(thread[t].id)
    /\ Close(t)
    /\ UNCHANGED <<disk, leases, mode, expired, minted, shown, closed, crashes>>

\* The clock passes a record's expiry.
Expire(id) ==
    /\ id \in DOMAIN records \ expired /\ Cardinality(expired) < MaxExpired
    /\ expired' = expired \cup {id}
    /\ UNCHANGED <<disk, log, leases, mode, held, finishing, thread, hist>>

-----------------------------------------------------------------------------
(* Crash, and Store::open *)

\* What a crash may leave of a file: its synced bytes, any of the later ones,
\* or blocks that read as nothing.
Leavings(id) ==
    {synced[id]} \cup
    UNION {{Prefix(bytes[id], n),
            [k \in 1 .. n |-> IF k <= Len(synced[id]) THEN synced[id][k] ELSE NoByte]} :
               n \in Len(synced[id]) .. Len(bytes[id])}

Crash ==
    /\ mode = "up" /\ crashes < MaxCrashes /\ crashes' = crashes + 1
    /\ mode' = "down"
    /\ bytes' \in {f \in [Ids -> UNION {Leavings(id) : id \in Ids}] :
                      \A id \in Ids : f[id] \in Leavings(id)}
    /\ synced' = bytes'
    /\ dir' \in dirs /\ dirs' = {dir'}
    /\ filed' \in logs /\ logs' = {filed'} /\ stopped' = FALSE
    /\ records' = [i \in {} |-> 0]
    /\ held' = {} /\ finishing' = None /\ thread' = [t \in Threads |-> Idle]
    /\ UNCHANGED <<leases, expired, minted, shown, closed, faults>>

\* partials::reconcile, over the log as read; left are the expired uploads
\* whose removal failed.
Reconciled(left) ==
    LET stand == {id \in DOMAIN filed \ expired : id \in dir.partials}
    IN  [id \in stand \cup left |->
            IF id \in left \/ filed[id] <= Len(bytes[id]) THEN filed[id] ELSE Len(bytes[id])]

Open ==
    /\ mode = "down" /\ mode' = "up"
    /\ \E left \in SUBSET (DOMAIN filed \cap expired) :
        /\ IF left = {} THEN Ok ELSE Fault
        /\ records' = Reconciled(left)
        /\ bytes' = [id \in Ids |->
              IF id \in DOMAIN records' \ left THEN Prefix(bytes[id], records'[id])
                                               ELSE bytes[id]]
        /\ closed' = closed \cup (DOMAIN filed \cap expired)
    /\ synced' = bytes'
    /\ dir' = [dir EXCEPT !.partials = @ \cap DOMAIN records'] /\ dirs' = {dir'}
    /\ filed' = records' /\ logs' = {filed'}
    /\ UNCHANGED <<stopped, leases, mem, minted, shown, crashes>>

-----------------------------------------------------------------------------
Init ==
    /\ bytes = [id \in Ids |-> <<>>] /\ synced = bytes
    /\ dir = [partials |-> {}, blobs |-> {}] /\ dirs = {dir}
    /\ filed = [i \in {} |-> 0] /\ records = filed /\ logs = {filed}
    /\ stopped = FALSE /\ leases = {} /\ mode = "up"
    /\ expired = {} /\ held = {} /\ finishing = None
    /\ thread = [t \in Threads |-> Idle]
    /\ minted = {} /\ shown = bytes /\ closed = {} /\ faults = 0 /\ crashes = 0

Request(t) ==
    \/ \E id \in Ids : CreatePartial(t, id) \/ ResumeLookup(t, id)
    \/ CreateRecord(t) \/ CreateEmpty(t) \/ CreateClaim(t) \/ ResumeClaim(t)
    \/ OpenStream(t) \/ AppendChunk(t) \/ MarkGrain(t) \/ Settle(t)
    \/ FinishStart(t) \/ FinishInstall(t) \/ FinishDirSync(t) \/ FinishLease(t)
    \/ FinishRetire(t) \/ StreamRefused(t)

Ending(t) ==
    \/ \E id \in Ids : EndClaim(t, id)
    \/ EndRemove(t) \/ EndRetire(t)

Next ==
    \/ \E t \in Requests : Request(t)
    \/ \E t \in Threads : Ending(t)
    \/ \E id \in Ids : Expire(id)
    \/ Compact \/ Crash \/ Open

Spec == Init /\ [][Next]_vars

-----------------------------------------------------------------------------
(* What must hold *)

\* Every variable has its type; a stream's bytes never pass the declared length.
TypeOK ==
    /\ bytes \in [Ids -> Strings] /\ synced \in [Ids -> Strings]
    /\ dir \in Directories /\ dir \in dirs /\ \A d \in dirs : d \in Directories
    /\ filed \in Offsets /\ records \in Offsets /\ \A f \in logs : f \in Offsets
    /\ stopped \in BOOLEAN /\ leases \subseteq Strings /\ mode \in {"up", "down"}
    /\ expired \subseteq Ids /\ held \subseteq Ids /\ finishing \in Threads \cup {None}
    /\ thread \in [Threads -> [pc : Steps, id : Ids \cup {None}, off : 0 .. Length,
                               sum : Strings, hold : BOOLEAN]]
    /\ minted \subseteq Ids /\ shown \in [Ids -> Strings] /\ closed \subseteq Ids

\* A file is always the bytes its name hashes, and the disk holds them: no
\* stream of the store writes to a file after its finish named it.
ContentAddressed ==
    \A d \in dirs : \A b \in d.blobs : bytes[b.inode] = b.hex /\ synced[b.inode] = b.hex

\* A lease never names bytes a restart would not hold.
LeaseHasBytes ==
    \A hex \in leases, d \in dirs : \E b \in d.blobs : b.hex = hex

\* Bytes a record has counted as received are never lost while the upload is
\* neither ended, expired nor finished: over every crash and failed call.
ReceivedKept ==
    mode = "up" =>
        \A id \in Ids \ closed :
            shown[id] # <<>> =>
                /\ id \in DOMAIN records /\ Len(shown[id]) <= records[id]
                /\ IsPrefix(shown[id], bytes[id])

\* Every byte a record counts was sent by some request.
CountedBytesSent ==
    mode = "up" =>
        \A id \in DOMAIN records \ closed :
            /\ records[id] <= Len(bytes[id])
            /\ \A k \in 1 .. records[id] : bytes[id][k] # NoByte

\* Identifiers and request threads are interchangeable.
Interchange == Permutations(Ids) \cup Permutations(Requests)
=============================================================================
