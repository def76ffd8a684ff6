-------------------------------- MODULE Blobs --------------------------------
(***************************************************************************)
(* Blobs: the store of the feed log (a file and a row per blob, one lock),  *)
(* the wants and the streams that tell peers of them                        *)
(* (internal/ssb/blobs/blobs.go), the fetch from peers (Sbot.EnsureBlob)    *)
(* and through the room (cmd/bridge-cli/reverse_blob_fetcher.go), the blobs *)
(* of bridged records and their collection (internal/blobbridge).  A blob   *)
(* is a model value: its hash, its reference and its CID.                   *)
(***************************************************************************)
EXTENDS Integers, FiniteSets, Sequences, SequencesExt

CONSTANTS
    BlobIds,      \* blobs
    Fetchers,     \* EnsureBlob calls of the reverse bridge
    Records,      \* records whose blobs are bridged
    Uploads,      \* blobs.add requests of peers
    Streams,      \* blobs.createWants streams of peers
    Tries,        \* peers an EnsureBlob asks, and the room after them
    ChanCap,      \* capacity of a subscription (16)
    MaxCrashes,   \* bound
    NoBlob, Free  \* no blob yet; nobody has the lock

JobIds == Fetchers \cup Records \cup Uploads

VARIABLES
    files, rows,        \* the store: files of the blob directory, rows of its table
    holder,             \* who has the store's write lock
    wants, subs,        \* WantManagerImpl: wants; subs[s]: the events of stream s
    creating,           \* creating[s]: where the createWants stream is
    told,               \* told[s]: wants written to the peer
    jobs,               \* jobs[j]: [pc, blob, tries]
    table,              \* the bridge's blobs table: blobs mapped from their CID
    old,                \* the rows a collection is about to delete
    crashes,
    dropped             \* dropped[s]: wants a full subscription lost

storeVars == << files, rows, holder >>
wantVars == << wants, subs, dropped >>
streamVars == << creating, told >>
vars == << storeVars, wantVars, streamVars, jobs, table, old, crashes >>

Init ==
    /\ files = {} /\ rows = {} /\ holder = Free
    /\ wants = {} /\ subs = [s \in Streams |-> << >>]
    /\ creating = [s \in Streams |-> "new"] /\ told = [s \in Streams |-> {}]
    /\ jobs = [j \in JobIds |-> [pc |-> "new", blob |-> NoBlob, tries |-> 0]]
    /\ table = {} /\ old = {} /\ crashes = 0
    /\ dropped = [s \in Streams |-> {}]

At(j, pc) == jobs[j].pc = pc
Go(j, pc) == jobs' = [jobs EXCEPT ![j].pc = pc]
\* Readers share the lock, so that only a writer keeps one out.
CanRead == holder = Free
\* Has and Size look at the row; Get and GetRange open the file, too.  A blob is some
\* bytes, more than a chunk of a stream; the error is none of them.
Chunk == 2
Bytes(b) == [i \in 1..2 * Chunk + 1 |-> << b, i >>]
NotFound == << << NoBlob, 0 >> >>

Has(b) == b \in rows
Size(b) == IF Has(b) THEN Len(Bytes(b)) ELSE -1
Get(b) == IF Has(b) /\ b \in files THEN Bytes(b) ELSE NotFound
GetRange(b, start, size) ==
    IF Get(b) = NotFound \/ start < 0 THEN NotFound
    ELSE SubSeq(Bytes(b), start + 1, IF start + size < Size(b) THEN start + size ELSE Size(b))

-----------------------------------------------------------------------------
(* WantManagerImpl                                                           *)

Subscribed(s) == creating[s] \in {"subscribed", "live"}
\* A subscription that is full loses the event.
NotifyLocked(b, want) ==
    /\ subs' = [s \in Streams |->
           IF Subscribed(s) /\ Len(subs[s]) < ChanCap
           THEN Append(subs[s], [blob |-> b, want |-> want]) ELSE subs[s]]
    /\ dropped' = [s \in Streams |->
           IF want /\ Subscribed(s) /\ Len(subs[s]) = ChanCap
           THEN dropped[s] \cup {b} ELSE dropped[s]]

Want(b) == wants' = wants \cup {b} /\ NotifyLocked(b, TRUE)
CancelWant(b) == wants' = wants \ {b} /\ NotifyLocked(b, FALSE)

\* handleWant: a peer asks the bridge to want a blob.
HandleWant(b) ==
    /\ b \notin wants
    /\ Want(b)
    /\ UNCHANGED << storeVars, streamVars, jobs, table, old, crashes >>

-----------------------------------------------------------------------------
(* The handlers that read: what they write to the peer                       *)

HandleHas(b) == Has(b)
HandleSize(b) == Size(b)

\* The source is written in chunks, or ends with the error.
Stream(bytes) ==
    [n \in 1..(Len(bytes) + Chunk - 1) \div Chunk |->
        SubSeq(bytes, (n - 1) * Chunk + 1, IF n * Chunk < Len(bytes) THEN n * Chunk ELSE Len(bytes))]
HandleGet(b) == IF Get(b) = NotFound THEN NotFound ELSE Stream(Get(b))

\* A slice without a size is one chunk.
HandleGetSlice(b, start, size) ==
    LET slice == GetRange(b, start, IF size <= 0 THEN Chunk ELSE size) IN
    IF slice = NotFound THEN NotFound ELSE Stream(slice)

-----------------------------------------------------------------------------
(* handleCreateWants                                                         *)

\* The wants are read before the subscription is made.
SubscribeLate(s) ==
    /\ \/ /\ creating[s] = "new"
          /\ told' = [told EXCEPT ![s] = wants]
          /\ creating' = [creating EXCEPT ![s] = "listed"]
       \/ /\ creating[s] = "listed"
          /\ creating' = [creating EXCEPT ![s] = "live"]
          /\ UNCHANGED told
    /\ UNCHANGED << storeVars, wantVars, jobs, table, old, crashes >>

Subscribe(s) ==
    /\ creating[s] = "new"
    /\ creating' = [creating EXCEPT ![s] = "subscribed"]
    /\ UNCHANGED << storeVars, wantVars, told, jobs, table, old, crashes >>

\* Wants are read and written out.
Wants(s) ==
    /\ creating[s] = "subscribed"
    /\ told' = [told EXCEPT ![s] = wants]
    /\ creating' = [creating EXCEPT ![s] = "live"]
    /\ UNCHANGED << storeVars, wantVars, jobs, table, old, crashes >>

\* An event of the subscription; a cancelled want is not told.
TellWant(s) ==
    /\ creating[s] = "live" /\ subs[s] # << >>
    /\ told' = IF Head(subs[s]).want THEN [told EXCEPT ![s] = @ \cup {Head(subs[s]).blob}] ELSE told
    /\ subs' = [subs EXCEPT ![s] = Tail(@)]
    /\ UNCHANGED << storeVars, wants, dropped, creating, jobs, table, old, crashes >>

\* The stream's context ends, or its peer is gone: the subscription is cancelled.
StreamEnds(s) ==
    /\ Subscribed(s)
    /\ creating' = [creating EXCEPT ![s] = "done"]
    /\ subs' = [subs EXCEPT ![s] = << >>]
    /\ UNCHANGED << storeVars, wants, dropped, told, jobs, table, old, crashes >>

-----------------------------------------------------------------------------
(* The store: Put                                                            *)

\* The file gets its name.
Rename(j) ==
    /\ At(j, "put") /\ holder \in {Free, j}
    /\ holder' = j
    /\ files' = files \cup {jobs[j].blob}
    /\ Go(j, "insert")
    /\ UNCHANGED << rows, wantVars, streamVars, table, old, crashes >>

\* The row follows, or is refused.
Insert(j) ==
    /\ At(j, "insert")
    /\ holder' = Free
    /\ \/ rows' = rows \cup {jobs[j].blob} /\ Go(j, "stored")
       \/ Go(j, "failed") /\ UNCHANGED rows
    /\ UNCHANGED << files, wantVars, streamVars, table, old, crashes >>

\* handleAdd: the lock is taken before the first chunk of the peer is read.
HandleAdd(j, b) ==
    /\ At(j, "new") /\ holder = Free
    /\ holder' = j
    /\ jobs' = [jobs EXCEPT ![j] = [@ EXCEPT !.pc = "reading", !.blob = b]]
    /\ UNCHANGED << files, rows, wantVars, streamVars, table, old, crashes >>

\* Its last chunk comes; or an error, or the chunk that makes it too large.
BlobReaderRead(j) ==
    /\ At(j, "reading")
    /\ \/ Go(j, "put") /\ UNCHANGED holder
       \/ Go(j, "failed") /\ holder' = Free
    /\ UNCHANGED << files, rows, wantVars, streamVars, table, old, crashes >>

-----------------------------------------------------------------------------
(* EnsureBlob of the sbot, and of the fetcher that tries the room after it    *)

EnsureBlob(j, b) ==
    /\ At(j, "new") /\ CanRead
    /\ jobs' = [jobs EXCEPT ![j] = [pc |-> IF Has(b) THEN "done" ELSE "want", blob |-> b, tries |-> 0]]
    /\ UNCHANGED << storeVars, wantVars, streamVars, table, old, crashes >>

AskWant(j) ==
    /\ At(j, "want")
    /\ Want(jobs[j].blob)
    /\ Go(j, "fetch")
    /\ UNCHANGED << storeVars, streamVars, table, old, crashes >>

\* fetchBlobFromPeer and, last, fetchViaRoomTunnel: the payload is empty, is another's
\* or does not come; or it is the blob and it is stored.
FetchBlobFromPeer(j) ==
    /\ At(j, "fetch") /\ j \in Fetchers
    /\ \/ Go(j, "put")
       \/ /\ jobs[j].tries < Tries
          /\ jobs' = [jobs EXCEPT ![j].tries = @ + 1]
       \/ /\ jobs[j].tries = Tries
          /\ Go(j, "failed")
    /\ UNCHANGED << storeVars, wantVars, streamVars, table, old, crashes >>

\* A peer's blob ends the want; one that came through the room does not.
CancelWanted(j) ==
    /\ At(j, "stored") /\ j \in Fetchers
    /\ IF jobs[j].tries < Tries THEN CancelWant(jobs[j].blob) ELSE UNCHANGED wantVars
    /\ Go(j, "done")
    /\ UNCHANGED << storeVars, streamVars, table, old, crashes >>

-----------------------------------------------------------------------------
(* blobbridge: the blobs of a record                                         *)

\* BridgeRecordBlobs, ensureBlob: a blob that the table has is referred to, another
\* is fetched from its PDS; a fetch that fails changes nothing.
BridgeRecordBlobs(j, b) ==
    /\ At(j, "new")
    /\ jobs' = [jobs EXCEPT ![j] = [pc |-> IF b \in table THEN "done" ELSE "put", blob |-> b, tries |-> 0]]
    /\ UNCHANGED << storeVars, wantVars, streamVars, table, old, crashes >>

\* AddBlob, or its failure.
AddBlob(j) ==
    /\ At(j, "stored") /\ j \in Records
    /\ \/ table' = table \cup {jobs[j].blob}
       \/ UNCHANGED table
    /\ Go(j, "done")
    /\ UNCHANGED << storeVars, wantVars, streamVars, old, crashes >>

\* RunBlobGC lists the old rows and deletes them one by one; the store keeps the blob.
RunBlobGC ==
    /\ old = {} /\ table # {}
    /\ old' \in (SUBSET table) \ {{}}
    /\ UNCHANGED << storeVars, wantVars, streamVars, jobs, table, crashes >>

DeleteBlob(b) ==
    /\ b \in old
    /\ old' = old \ {b} /\ table' = table \ {b}
    /\ UNCHANGED << storeVars, wantVars, streamVars, jobs, crashes >>

\* The process dies: wants, streams and calls are gone, files and rows stay.
Crash ==
    /\ crashes < MaxCrashes /\ crashes' = crashes + 1
    /\ holder' = Free /\ wants' = {} /\ old' = {}
    /\ subs' = [s \in Streams |-> << >>]
    /\ creating' = [s \in Streams |-> "new"] /\ told' = [s \in Streams |-> {}]
    /\ dropped' = [s \in Streams |-> {}]
    /\ jobs' = [j \in JobIds |-> [pc |-> IF At(j, "new") THEN "new" ELSE "done", blob |-> NoBlob, tries |-> 0]]
    /\ UNCHANGED << files, rows, table >>

-----------------------------------------------------------------------------
Next ==
    \/ \E b \in BlobIds : HandleWant(b) \/ DeleteBlob(b)
    \/ \E s \in Streams : Subscribe(s) \/ Wants(s) \/ TellWant(s) \/ StreamEnds(s)
    \/ \E j \in JobIds : Rename(j) \/ Insert(j)
    \/ \E j \in Uploads : BlobReaderRead(j) \/ \E b \in BlobIds : HandleAdd(j, b)
    \/ \E j \in Fetchers : AskWant(j) \/ FetchBlobFromPeer(j) \/ CancelWanted(j)
                           \/ \E b \in BlobIds : EnsureBlob(j, b)
    \/ \E j \in Records : AddBlob(j) \/ \E b \in BlobIds : BridgeRecordBlobs(j, b)
    \/ RunBlobGC \/ Crash

Spec == Init /\ [][Next]_vars

-----------------------------------------------------------------------------
(* Properties                                                                *)

\* A blob that EnsureBlob did not get is known to the peers: every createWants stream
\* that has written its list and its events has told it, unless the subscription was
\* full (Subscribe comes before Wants, and CancelWant only after the blob is stored).
MissingIsTold ==
    \A j \in Fetchers, s \in Streams :
        /\ jobs[j].pc \in {"fetch", "failed"} /\ ~Has(jobs[j].blob)
        /\ creating[s] = "live" /\ subs[s] = << >> /\ jobs[j].blob \notin dropped[s]
        => jobs[j].blob \in told[s]

\* What a published message refers to can be served: a blob of the bridge's table is
\* in the store, its row and its file, whatever crash or collection came between
\* (ensureBlob: Put, then AddBlob; Put: the file, then the row).
MappedIsServed == table \subseteq rows /\ rows \subseteq files

\* A peer that is told of a blob gets it: the stream is the bytes the size says, slices
\* of one size that follow each other are the same bytes, and a blob that is not there
\* is refused, not sent empty.
PeersGetTheBlob ==
    \A b \in BlobIds :
        IF HandleHas(b)
        THEN /\ FlattenSeq(HandleGet(b)) = Bytes(b) /\ HandleSize(b) = Len(Bytes(b))
             /\ \A size \in {0, Chunk + 1} :
                   LET step == IF size = 0 THEN Chunk ELSE size
                       slices == [n \in 1..Size(b) \div step + 1 |-> HandleGetSlice(b, (n - 1) * step, size)] IN
                   FlattenSeq(FlattenSeq(slices)) = Bytes(b)
        ELSE HandleGet(b) = NotFound /\ HandleGetSlice(b, 0, 0) = NotFound
=============================================================================
