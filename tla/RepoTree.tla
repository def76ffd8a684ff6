------------------------------ MODULE RepoTree ------------------------------
(***************************************************************************)
(* A repository as a file of blocks (pkg/atproto/repo/repo.go) and what     *)
(* the index reads of it (internal/atindex/service.go: applyCommit,         *)
(* recordFromRepoPath and the walk of runBackfill).                         *)
(*                                                                          *)
(* A repository is a Merkle search tree: the layer of a key decides which   *)
(* node it is in, the keys between two entries of a node are in a subtree,  *)
(* and a key is stored without the prefix it shares with the one before it. *)
(* Hashes are ideal: the CID of a block is the block.  A full export holds  *)
(* every block, a commit on the firehose the blocks that are new.           *)
(* A byte is a number, and 0 is the slash of a path.                        *)
(***************************************************************************)
EXTENDS Integers, Sequences, FiniteSets, SequencesExt

CONSTANTS
    Paths,             \* keys, as sequences of bytes
    Contents, First,   \* what a record may be, and what the first records are
    MaxLayer,          \* a bound on the layer of a key
    None

VARIABLES
    layer,      \* the layer of a key: a count of zeros in its hash
    repo,       \* the repository at its server: a function from paths to records
    event,      \* the commit that is being applied: [ops, car], or None
    index,      \* atproto_records: a function from paths to [record, deleted]
    outcome     \* None, or what applyCommit has returned: "applied" or "failed"

vars == << layer, repo, event, index, outcome >>

Slash == 0

\* Go compares strings byte by byte.
RECURSIVE Before(_, _)
Before(a, b) ==
    IF a = <<>> \/ b = <<>> THEN a = <<>> /\ b # <<>>
    ELSE IF Head(a) # Head(b) THEN Head(a) < Head(b) ELSE Before(Tail(a), Tail(b))
Sorted(keys) == SetToSortSeq(keys, Before)

-----------------------------------------------------------------------------
(* What a server writes                                                      *)

\* The length of the prefix that two keys share.
Shared(a, b) ==
    LET n == {i \in 0..Len(a) : i <= Len(b) /\ SubSeq(a, 1, i) = SubSeq(b, 1, i)} IN
    CHOOSE i \in n : \A j \in n : j <= i

\* The tree over some keys of a repository r whose layers are at most l.
RECURSIVE TreeOf(_, _, _)
TreeOf(r, keys, l) ==
    IF keys = {} THEN None
    ELSE LET here == Sorted({k \in keys : layer[k] = l})
             Between(i) == {k \in keys : layer[k] < l /\ (i = 0 \/ Before(here[i], k))
                                                       /\ (i = Len(here) \/ Before(k, here[i + 1]))}
             last(i) == IF i = 1 THEN <<>> ELSE here[i - 1] IN
         [left |-> TreeOf(r, Between(0), l - 1),
          entries |-> [i \in DOMAIN here |->
                         [p |-> Shared(last(i), here[i]),
                          k |-> SubSeq(here[i], Shared(last(i), here[i]) + 1, Len(here[i])),
                          v |-> r[here[i]], t |-> TreeOf(r, Between(i), l - 1)]]]

EmptyNode == [left |-> None, entries |-> <<>>]
DataOf(r) == IF DOMAIN r = {} THEN EmptyNode ELSE TreeOf(r, DOMAIN r, Max({layer[k] : k \in DOMAIN r}))

RECURSIVE NodeBlocks(_)
NodeBlocks(node) ==
    IF node = None THEN {}
    ELSE {node} \cup NodeBlocks(node.left) \cup UNION {NodeBlocks(node.entries[i].t) : i \in DOMAIN node.entries}
                \cup {node.entries[i].v : i \in DOMAIN node.entries}

Signed(node) == [data |-> node]
Export(r) == [root |-> Signed(DataOf(r)), blocks |-> {Signed(DataOf(r))} \cup NodeBlocks(DataOf(r))]
\* The blocks of a commit are the new ones and the records that were written.
Diff(old, new, ops) ==
    [Export(new) EXCEPT !.blocks = (@ \ Export(old).blocks) \cup {ops[i].record : i \in DOMAIN ops}]

-----------------------------------------------------------------------------
(* WriteRepo, the writer of the repository's tests                           *)

NewRepo == [records |-> << >>, blocks |-> {}, commit |-> None]

\* CreateRecord: the key counts the records (generateRkey).
CreateRecord(w, collection, record) ==
    LET key == << collection, Slash, Cardinality(DOMAIN w.records) + 1 >> IN
    [w EXCEPT !.records = [k \in DOMAIN @ \cup {key} |-> IF k = key THEN record ELSE @[k]],
              !.blocks = @ \cup {record}]

\* buildMST: one node with whole keys, in the order of a Go map.
BuildMST(w, order) ==
    [left |-> None,
     entries |-> [i \in DOMAIN order |-> [p |-> 0, k |-> order[i], v |-> w.records[order[i]], t |-> None]]]

\* Commit keeps the commit for WriteCAR.
Commit(w, order) == [w EXCEPT !.blocks = @ \cup {BuildMST(w, order)}, !.commit = Signed(BuildMST(w, order))]

\* WriteCAR: without a commit the root is the undefined CID.
WriteCAR(w) ==
    [root |-> w.commit, blocks |-> IF w.commit = None THEN w.blocks ELSE w.blocks \cup {w.commit}]

-----------------------------------------------------------------------------
(* The reader                                                                *)

\* ensureLoaded: the keys of a node, put together from the one before.
EnsureLoaded(node) ==
    LET key[i \in DOMAIN node.entries] ==
        LET e == node.entries[i]
            last == IF i = 1 THEN <<>> ELSE key[i - 1] IN
        SubSeq(last, 1, IF e.p > Len(last) THEN Len(last) ELSE e.p) \o e.k IN
    [i \in DOMAIN node.entries |-> [key |-> key[i], value |-> node.entries[i].v, tree |-> node.entries[i].t]]

\* ReadRepoFromCar: the commit must be there; the tree is loaded when it is visited.
Readable(car) == car.root \in car.blocks

Failed == [error |-> "failed"]
NotFound == [error |-> "not found"]

\* findRecordCID goes through the tree from left to right and does not compare keys
\* for order; a block that is missing on the way is an error.
RECURSIVE FindRecordCID(_, _, _), FindIn(_, _, _)
FindRecordCID(blocks, node, path) ==
    IF node = None THEN NotFound
    ELSE IF node \notin blocks THEN Failed
    ELSE LET left == FindRecordCID(blocks, node.left, path) IN
         IF left # NotFound THEN left ELSE FindIn(blocks, EnsureLoaded(node), path)
FindIn(blocks, list, path) ==
    IF list = <<>> THEN NotFound
    ELSE IF Head(list).key = path THEN Head(list).value
    ELSE LET below == FindRecordCID(blocks, Head(list).tree, path) IN
         IF below # NotFound THEN below ELSE FindIn(blocks, Tail(list), path)

GetRecordBytes(car, path) ==
    LET cid == FindRecordCID(car.blocks, car.root.data, path) IN
    IF cid \in {NotFound, Failed} \/ cid \notin car.blocks THEN Failed ELSE cid

\* walkMST with a callback that collects: << key, value >> in order, and Failed at the
\* block that is missing.
RECURSIVE WalkMST(_, _, _), WalkList(_, _, _)
WalkMST(blocks, node, from) ==
    IF node = None THEN <<>>
    ELSE IF node \notin blocks THEN << Failed >>
    ELSE WalkMST(blocks, node.left, from) \o WalkList(blocks, EnsureLoaded(node), from)
WalkList(blocks, list, from) ==
    IF list = <<>> THEN <<>>
    ELSE (IF Before(Head(list).key, from) THEN <<>> ELSE << << Head(list).key, Head(list).value >> >>)
         \o WalkMST(blocks, Head(list).tree, from) \o WalkList(blocks, Tail(list), from)
ForEach(car, prefix) == WalkMST(car.blocks, car.root.data, prefix)

-----------------------------------------------------------------------------
(* The index                                                                 *)

\* collectionAndRKey: a collection and a key with one slash between them.
CollectionAndRKey(path) ==
    \E i \in 2..Len(path) - 1 : path[i] = Slash /\ \A j \in DOMAIN path : path[j] = Slash => j = i

\* recordFromRepoPath: None for a path that is no record's.
RecordFromRepoPath(car, path) == IF CollectionAndRKey(path) THEN GetRecordBytes(car, path) ELSE None

Upsert(t, path, record, deleted) ==
    [k \in DOMAIN t \cup {path} |-> IF k = path THEN [record |-> record, deleted |-> deleted] ELSE t[k]]

\* existingATCID, existingJSON: what is deleted keeps its record; else it has the CID
\* that the operation names as the one before.
Existing(t, op) == IF op.path \in DOMAIN t THEN t[op.path].record ELSE op.prev

\* runBackfill: every record that the walk of an export comes to is put in the table.
\* What is in the table and not in the export stays as it is.
Backfilled(t, car) ==
    LET found == {x[1] : x \in {y \in Range(ForEach(car, <<>>)) : CollectionAndRKey(y[1])}} IN
    [k \in DOMAIN t \cup found |-> IF k \in found THEN [record |-> RecordFromRepoPath(car, k), deleted |-> FALSE]
                                   ELSE t[k]]

\* The index holds what a backfill has found.
Init ==
    /\ layer \in [Paths -> 0..MaxLayer]
    /\ \E keys \in SUBSET Paths : repo = [k \in keys |-> First]
    /\ event = None /\ outcome = None
    /\ index = [k \in {p \in DOMAIN repo : CollectionAndRKey(p)} |-> [record |-> repo[k], deleted |-> FALSE]]

\* A repository after an operation.
Done(r, op) ==
    IF op.action = "delete" THEN [k \in DOMAIN r \ {op.path} |-> r[k]]
    ELSE [k \in DOMAIN r \cup {op.path} |-> IF k = op.path THEN op.record ELSE r[k]]

\* The operations that a repository r allows, alone or two of them on different paths.
Op(action, path, record, prev) == [action |-> action, path |-> path, record |-> record, prev |-> prev]
OpsOn(r) ==
    LET single == {Op("create", p, x, None) : p \in Paths \ DOMAIN r, x \in Contents}
                  \cup {Op("delete", p, r[p], r[p]) : p \in DOMAIN r}
                  \cup UNION {{Op("update", p, x, r[p]) : x \in Contents \ {r[p]}} : p \in DOMAIN r} IN
    {<< o >> : o \in single} \cup {pair \in single \X single : pair[1].path # pair[2].path}

\* Somebody writes: records are made, changed and deleted, in one commit.
ServerCommits ==
    /\ event = None /\ outcome = None
    /\ \E ops \in OpsOn(repo) :
          LET new == FoldLeft(Done, repo, ops) IN
          repo' = new /\ event' = [ops |-> ops, todo |-> ops, car |-> Diff(repo, new, ops)]
    /\ UNCHANGED << layer, index, outcome >>

\* applyCommit: the next operation.  An error leaves the ones before applied.
ApplyOp ==
    /\ event # None /\ outcome = None /\ event.todo # <<>>
    /\ LET op == Head(event.todo)
           read == RecordFromRepoPath(event.car, op.path)
           fails == ~ Readable(event.car) \/ (op.action # "delete" /\ read = Failed) IN
       /\ index' = IF ~ CollectionAndRKey(op.path) \/ fails THEN index
                   ELSE IF op.action = "delete" THEN Upsert(index, op.path, Existing(index, op), TRUE)
                   ELSE Upsert(index, op.path, read, FALSE)
       /\ outcome' = IF fails THEN "failed" ELSE outcome
       /\ event' = IF fails THEN event ELSE [event EXCEPT !.todo = Tail(@)]
    /\ UNCHANGED << layer, repo >>

\* applyCommit: the repository's row moves on to the commit.
EndCommit ==
    /\ event # None /\ outcome = None /\ event.todo = <<>>
    /\ outcome' = "applied"
    /\ UNCHANGED << layer, repo, event, index >>

Next == ServerCommits \/ ApplyOp \/ EndCommit

Spec == Init /\ [][Next]_vars

-----------------------------------------------------------------------------
(* The backfill of internal/backfill and the processor as a handler of the   *)
(* firehose (HandleCommit).  The programs call neither: the index is between *)
(* them.                                                                     *)

\* collectionFromPath and isSupportedCollection.
CollectionFromPath(path) == \E i \in 2..Len(path) : path[i] = Slash
Supported(path, collections) == CollectionFromPath(path) /\ path[1] \in collections

\* processRepoCAR: the paths that are processed, passed over and counted as errors;
\* since is the set of contents that Include lets through.
ProcessRepoCAR(car, collections, since) ==
    LET keys == {x[1] : x \in Range(ForEach(car, <<>>))}
        tried == {k \in keys : Supported(k, collections)}
        errors == {k \in tried : GetRecordBytes(car, k) = Failed} IN
    [processed |-> {k \in tried \ errors : GetRecordBytes(car, k) \in since},
     skipped |-> (keys \ tried) \cup {k \in tried \ errors : GetRecordBytes(car, k) \notin since},
     errors |-> errors]

\* HandleCommit: an operation whose record cannot be read is passed over, and the
\* others are processed.
HandleCommit(ops, car, collections) ==
    {i \in DOMAIN ops :
        /\ Supported(ops[i].path, collections)
        /\ ops[i].action # "delete" => Readable(car) /\ GetRecordBytes(car, ops[i].path) # Failed}

\* ProcessOps of the firehose client: all of the records can be read.
ProcessOps(ops, car) == \A i \in DOMAIN ops : ops[i].action # "delete" => GetRecordBytes(car, ops[i].path) # Failed

-----------------------------------------------------------------------------
\* An export is read as it was written, whatever the layers of its keys: the walk gives
\* every record once and in order, from any key on, each is found by its path and no
\* other is, and a backfill finds each of them.
ExportsRead ==
    LET car == Export(repo)
        keys == Sorted(DOMAIN repo)
        stats == ProcessRepoCAR(car, {1}, {First}) IN
    /\ Readable(car)
    /\ ForEach(car, <<>>) = [i \in DOMAIN keys |-> << keys[i], repo[keys[i]] >>]
    /\ \A p \in Paths :
          /\ GetRecordBytes(car, p) = IF p \in DOMAIN repo THEN repo[p] ELSE Failed
          /\ Range(ForEach(car, p)) = {<< k, repo[k] >> : k \in {k \in DOMAIN repo : ~ Before(k, p)}}
    /\ event = None => Backfilled(<<>>, car) = index
    /\ stats.processed = {k \in DOMAIN repo : k[1] = 1 /\ Len(k) > 1 /\ repo[k] = First}
    /\ stats.skipped = DOMAIN repo \ stats.processed /\ stats.errors = {}

\* What WriteRepo has written is read back, in the order of the file, and needs a commit.
WrittenFilesRead ==
    event = None /\ DOMAIN repo = {} =>
        \A list \in BoundedSeq({1, 2} \X Contents, 3) :
            LET w == FoldLeft(LAMBDA x, e : CreateRecord(x, e[1], e[2]), NewRepo, list) IN
            /\ ~ Readable(WriteCAR(w))
            /\ Cardinality(DOMAIN w.records) = Len(list)
            /\ \A order \in SetToSeqs(DOMAIN w.records) :
                  LET car == WriteCAR(Commit(w, order)) IN
                  /\ Readable(car)
                  /\ ForEach(car, <<>>) = [i \in DOMAIN order |-> << order[i], w.records[order[i]] >>]
                  /\ \A k \in DOMAIN w.records : GetRecordBytes(car, k) = w.records[k]

\* From a commit a record is read as it was written or not at all; a commit that was
\* applied has brought the index to the repository, and one that failed has left every
\* row as it was before or as it is in the repository.
CommitsRead ==
    LET IsCurrent(k) == IF k \in DOMAIN repo THEN k \in DOMAIN index /\ index[k] = [record |-> repo[k], deleted |-> FALSE]
                        ELSE k \in DOMAIN index => index[k].deleted /\ index[k].record = First IN
    event # None =>
        /\ \A i \in DOMAIN event.ops :
              LET op == event.ops[i] IN
              op.action # "delete" => GetRecordBytes(event.car, op.path) \in {op.record, Failed}
        /\ outcome = "applied" => \A k \in Paths : CollectionAndRKey(k) => IsCurrent(k)
        /\ outcome = "failed" =>
              \A k \in Paths : \/ IsCurrent(k) \/ ~ CollectionAndRKey(k)
                               \/ \E i \in DOMAIN event.todo : event.todo[i].path = k
        /\ ProcessOps(event.ops, event.car) =>
              \A i \in DOMAIN event.ops : Supported(event.ops[i].path, {1, 2}) => i \in HandleCommit(event.ops, event.car, {1, 2})

\* Every record of a commit can be read from the commit's own blocks.
CommitsSuffice == event # None => ProcessOps(event.ops, event.car)
=============================================================================
