------------------------------ MODULE RepoIndex ------------------------------
(***************************************************************************)
(* internal/atindex: how one tracked repository is kept in sync.            *)
(*                                                                          *)
(* The repository is its commits; revision n is the n-th, and each commit   *)
(* puts one record, whose version is that revision (deletes are left out).  *)
(* The firehose handler, the backfill worker, the track scheduler and an    *)
(* operator share the row of atproto_repos: each reads it whole, works, and *)
(* writes it back whole, and nothing locks it in between.  The account is   *)
(* bridged and active.  Fields of the row that decide nothing are left out; *)
(* a record and its event (module EventStream) are written in one step.     *)
(***************************************************************************)
EXTENDS Naturals, Sequences, FiniteSetsExt

CONSTANTS
    Key,         \* records of the repository
    SavedSeq,    \* the source cursor other accounts' events have left: 0 is none
    MaxCommits,  \* bound: revisions
    MaxTrouble   \* bound: resyncs, untracks, identity and account events, failures,
                 \* lost connections and restarts, together

ASSUME BoundsAssumption == MaxCommits \in Nat \ {0} /\ MaxTrouble \in Nat
ASSUME SavedSeqAssumption == SavedSeq \in {0, 1}
ASSUME KeyAssumption == Key # {}

VARIABLES
    commits,    \* external: the repository at its PDS
    pos,        \* external: the next commit the relay will send
    \* The database.
    row,        \* atproto_repos
    buffer,     \* atproto_commit_buffer
    records,    \* atproto_records
    events,     \* atproto_event_log: the latest version of each record it holds
    lastSeq,    \* atproto_sources.last_seq
    \* The process.
    queued,     \* the repository is in the backfill queue
    start,      \* the cursor the firehose client was created with
    handler,    \* the firehose goroutine: where it is, its copy of the row, its commit
    worker,     \* the backfill goroutine: the same, and what is left to apply
    admin,      \* the scheduler and the operator
    \* History and bounds.
    lost,       \* a commit was not sent or not handled, or queued work was dropped
    raced,      \* a row was written back that had changed since it was read
    trouble     \* how much of MaxTrouble has happened

tables == <<records, events>>
store == <<row, buffer, tables, lastSeq>>
history == <<lost, raced>>
vars == <<commits, pos, row, buffer, records, events, lastSeq, queued, start, handler,
          worker, admin, lost, raced, trouble>>

Rev == 1..MaxCommits
head == Len(commits)

\* The states of atproto_repos.sync_state; "none" is a missing row, and
\* "deactivated" stands for the four account states.
SyncState == {"none", "pending", "backfilling", "synced", "desynchronized", "error", "deactivated"}
Row == [tracking : BOOLEAN, state : SyncState, gen : Nat, rev : Nat, cid : Nat]
NoRow == [tracking |-> FALSE, state |-> "none", gen |-> 0, rev |-> 0, cid |-> 0]

\* The version of a record at revision n, 0 when there is none.
Content(n, k) == Max({0} \union {i \in 1..n : commits[i] = k})

Caller == {"track", "resync", "untrack"}
Event == {"commit", "identity", "deactivated"}
Handler == [pc : {"idle", "read", "track", "reread", "decide", "buffer", "enqueue2", "enqueue",
                  "write", "save"},
            row : Row, rev : Rev, evt : Event]
Worker == [pc : {"idle", "read", "mark", "fetch", "put", "drain", "drainwrite",
                 "finish"},
           row : Row, snap : 0..MaxCommits, keys : SUBSET Key,
           revs : SUBSET Rev, rev : 0..MaxCommits]

\* The type of the state.
TypeOK ==
    /\ commits \in Seq(Key)
    /\ pos \in 1..(MaxCommits + 1)
    /\ row \in Row
    /\ buffer \subseteq [gen : Nat, rev : Rev]
    /\ records \in [Key -> 0..MaxCommits] /\ events \in [Key -> 0..MaxCommits]
    /\ lastSeq \in 0..MaxCommits /\ start \in 0..MaxCommits
    /\ queued \in BOOLEAN /\ lost \in BOOLEAN /\ raced \in BOOLEAN
    /\ handler \in Handler
    /\ worker \in Worker
    /\ admin \in [op : Caller \union {"none"}, row : Row]
    /\ trouble \in 0..MaxTrouble

AnyKey == CHOOSE k \in Key : TRUE
HandlerIdle == [pc |-> "idle", row |-> NoRow, rev |-> 1, evt |-> "commit"]
WorkerIdle == [pc |-> "idle", row |-> NoRow, snap |-> 0, keys |-> {},
               revs |-> {}, rev |-> 0]
AdminIdle == [op |-> "none", row |-> NoRow]

\* The account exists, with its first commit, before the bridge tracks it.
Init ==
    /\ commits = <<AnyKey>>
    /\ pos = 2
    /\ row = NoRow /\ buffer = {}
    /\ records = [k \in Key |-> 0] /\ events = records
    /\ lastSeq = SavedSeq /\ start = SavedSeq
    /\ queued = FALSE
    /\ handler = HandlerIdle /\ worker = WorkerIdle /\ admin = AdminIdle
    /\ lost = FALSE /\ raced = FALSE
    /\ trouble = 0

-----------------------------------------------------------------------------
(* External: the user's PDS, and the relay's firehose. *)

Trouble == trouble < MaxTrouble /\ trouble' = trouble + 1

Commit(k) ==
    /\ head < MaxCommits
    /\ commits' = Append(commits, k)
    /\ UNCHANGED <<pos, store, queued, start, handler, worker, admin, history, trouble>>

\* The stream goes on after the cursor it is asked for; without one it starts
\* with what is new.
Resume(cursor) == pos' = IF cursor > 0 THEN cursor + 1 ELSE head + 1

\* RunWithReconnect dials again with the cursor the client was created with.
Reconnect ==
    /\ Trouble
    /\ handler.pc = "idle"
    /\ Resume(start)
    /\ lost' = (lost \/ pos' > pos)
    /\ UNCHANGED <<commits, store, queued, start, handler, worker, admin, raced>>

-----------------------------------------------------------------------------
\* UpsertATProtoRecord, then AppendATProtoEvent.
PutRecord(k, n) ==
    /\ records' = [records EXCEPT ![k] = n]
    /\ events' = [events EXCEPT ![k] = Max({@, n})]

(* The row, and the three calls that track a repository. *)

\* UpsertATProtoRepo replaces the whole row by a copy read earlier.
UpsertRow(read, new) ==
    /\ row' = new
    /\ raced' = (raced \/ row # read)

Enqueue == queued' = TRUE
\* Mutant of shouldQueueTrack: a backfill that was under way needs no queueing.
shouldQueueNew(state) == state \in {"pending", "desynchronized", "error"}
shouldQueueTrack(state) == state \in {"pending", "backfilling", "desynchronized", "error"}
NewRow == [NoRow EXCEPT !.tracking = TRUE, !.state = "pending", !.gen = 1]

\* The enqueue that follows the write of the row is part of the step.
TrackRepo(r) ==
    /\ UpsertRow(r, IF r = NoRow THEN NewRow ELSE [r EXCEPT !.tracking = TRUE])
    /\ queued' = (queued \/ shouldQueueTrack(row'.state))

RequestResync(r) ==
    /\ UpsertRow(r, IF r = NoRow THEN NewRow
                    ELSE [r EXCEPT !.tracking = TRUE, !.gen = @ + 1, !.state = "pending"])
    /\ Enqueue

UntrackRepo(r) ==
    /\ IF r = NoRow THEN UNCHANGED <<row, raced>> ELSE UpsertRow(r, [r EXCEPT !.tracking = FALSE])
    /\ UNCHANGED queued

\* Each of them reads the row (bound: one of them at a time) ...
AdminRead(f) ==
    /\ admin = AdminIdle
    /\ IF f = "track" THEN UNCHANGED trouble ELSE Trouble
    /\ admin' = [op |-> f, row |-> row]
    /\ UNCHANGED <<commits, pos, store, queued, start, handler, worker, history>>

\* ... and writes it back.  trackActiveRepos calls TrackRepo every minute.
AdminWrite ==
    /\ \/ admin.op = "track" /\ TrackRepo(admin.row)
       \/ admin.op = "resync" /\ RequestResync(admin.row)
       \/ admin.op = "untrack" /\ UntrackRepo(admin.row)
    /\ admin' = AdminIdle
    /\ UNCHANGED <<commits, pos, buffer, tables, lastSeq, start, handler, worker,
                   lost, trouble>>

-----------------------------------------------------------------------------
(* The firehose handler. *)

hframe == <<commits, start, worker, admin>>
Goto(pc) == handler' = [handler EXCEPT !.pc = pc]

Deliver ==
    /\ handler.pc = "idle"
    /\ pos <= head
    /\ handler' = [HandlerIdle EXCEPT !.pc = "read", !.rev = pos]
    /\ pos' = pos + 1
    /\ UNCHANGED <<hframe, store, queued, history, trouble>>

\* An identity or account event of this repository.
DeliverNote(e) ==
    /\ handler.pc = "idle"
    /\ Trouble
    /\ handler' = [HandlerIdle EXCEPT !.pc = "read", !.evt = e]
    /\ UNCHANGED <<hframe, pos, store, queued, history>>

\* ensureTracked
HandlerRead ==
    /\ handler.pc \in {"read", "reread"}
    /\ handler' = [handler EXCEPT !.row = row,
           !.pc = IF row.tracking \/ handler.pc = "reread" THEN "decide" ELSE "track"]
    /\ UNCHANGED <<hframe, pos, store, queued, history, trouble>>

HandlerTrack ==
    /\ handler.pc = "track"
    /\ TrackRepo(handler.row)
    /\ Goto("reread")
    /\ UNCHANGED <<hframe, pos, buffer, tables, lastSeq, lost, trouble>>

\* bufferCommit, for a row that is not synced or was just marked; the queue is
\* told in a step of its own, twice after markDesynchronized.
BufferCommit ==
    /\ \/ handler.pc = "decide" /\ handler.evt = "commit" /\ handler.row.state # "synced"
       \/ handler.pc = "buffer"
    /\ buffer' = buffer \union {[gen |-> handler.row.gen, rev |-> handler.rev]}
    /\ Goto(IF handler.pc = "buffer" THEN "enqueue2" ELSE "enqueue")
    /\ UNCHANGED <<hframe, pos, row, tables, lastSeq, queued, history, trouble>>

HandlerEnqueue ==
    /\ handler.pc \in {"enqueue2", "enqueue"}
    /\ Enqueue
    /\ Goto(IF handler.pc = "enqueue2" THEN "enqueue" ELSE "save")
    /\ UNCHANGED <<hframe, pos, store, history, trouble>>

Synced == handler.pc = "decide" /\ handler.evt = "commit" /\ handler.row.state = "synced"
Known == handler.row.rev = handler.rev /\ handler.row.cid = handler.rev
Continues == handler.row.rev = 0 \/ handler.rev = handler.row.rev + 1

SkipKnown ==
    /\ Synced /\ Known
    /\ Goto("save")
    /\ UNCHANGED <<hframe, pos, store, queued, history, trouble>>

\* The commit does not follow current_rev; its buffering is the next step.
MarkDesynchronized ==
    /\ Synced /\ ~Known /\ ~Continues
    /\ handler' = [handler EXCEPT !.pc = "buffer", !.row.gen = @ + 1, !.row.state = "desynchronized"]
    /\ UpsertRow(handler.row, handler'.row)
    /\ UNCHANGED <<hframe, pos, buffer, tables, lastSeq, queued, lost, trouble>>

\* applyCommit: the record, with its event, and then the row.
ApplyRecord ==
    /\ Synced /\ ~Known /\ Continues
    /\ PutRecord(commits[handler.rev], handler.rev)
    /\ Goto("write")
    /\ UNCHANGED <<hframe, pos, row, buffer, lastSeq, queued, history, trouble>>

ApplyRow ==
    /\ handler.pc = "write"
    /\ UpsertRow(handler.row, [handler.row EXCEPT !.rev = handler.rev, !.cid = handler.rev])
    /\ Goto("save")
    /\ UNCHANGED <<hframe, pos, buffer, tables, lastSeq, queued, lost, trouble>>

UpdateSourceCursor ==
    /\ handler.pc = "save"
    /\ lastSeq' = handler.rev
    /\ handler' = HandlerIdle
    /\ UNCHANGED <<hframe, pos, row, buffer, tables, queued, history, trouble>>

\* HandleIdentity and HandleAccount write their copy of the row back.
WriteNote ==
    /\ handler.pc = "decide" /\ handler.evt # "commit"
    /\ UpsertRow(handler.row, IF handler.evt = "deactivated"
                              THEN [handler.row EXCEPT !.state = "deactivated"] ELSE handler.row)
    /\ lastSeq' = pos - 1
    /\ handler' = HandlerIdle
    /\ UNCHANGED <<hframe, pos, buffer, tables, queued, lost, trouble>>

\* A commit that cannot be decoded or stored: handleRepoCommit logs the error
\* and the stream goes on.
HandleCommitFails ==
    /\ handler.pc \in {"decide", "buffer", "write", "save"} /\ handler.evt = "commit"
    /\ Trouble
    /\ handler' = HandlerIdle
    /\ lost' = TRUE
    /\ UNCHANGED <<hframe, pos, store, queued, raced>>

-----------------------------------------------------------------------------
(* The backfill worker. *)

wstill == <<commits, pos, lastSeq, start, handler, admin>>
wframe == <<wstill, lost>>

\* runWorker takes the repository off the queue before it reads the row.
Dequeue ==
    /\ worker.pc = "idle" /\ queued
    /\ queued' = FALSE
    /\ worker' = [WorkerIdle EXCEPT !.pc = "read"]
    /\ UNCHANGED <<wframe, row, buffer, tables, raced, trouble>>

WorkerRead ==
    /\ worker.pc = "read"
    /\ worker' = IF row.tracking THEN [worker EXCEPT !.row = row, !.pc = "mark"] ELSE WorkerIdle
    /\ lost' = (lost \/ ~row.tracking)
    /\ UNCHANGED <<wstill, row, buffer, tables, queued, raced, trouble>>

MarkBackfilling ==
    /\ worker.pc = "mark"
    /\ worker' = [worker EXCEPT !.row.state = "backfilling", !.pc = "fetch"]
    /\ UpsertRow(worker.row, worker'.row)
    /\ UNCHANGED <<wframe, buffer, tables, queued, trouble>>

\* FetchRepo returns the repository as it is now.
FetchRepo ==
    /\ worker.pc = "fetch"
    /\ worker' = [worker EXCEPT !.snap = head, !.pc = "put",
                                !.keys = {k \in Key : Content(head, k) > 0}]
    /\ UNCHANGED <<wframe, row, buffer, tables, queued, raced, trouble>>

\* failRepo: nothing but the row is undone.
BackfillFails ==
    /\ worker.pc \in {"fetch", "put", "drain", "drainwrite"}
    /\ Trouble
    /\ UpsertRow(worker.row, [worker.row EXCEPT !.state = "error"])
    /\ worker' = WorkerIdle
    /\ UNCHANGED <<wframe, buffer, tables, queued>>

\* The snapshot, record by record, with an event each.
PutSnapshot ==
    /\ worker.pc = "put" /\ worker.keys # {}
    /\ LET k == CHOOSE k \in worker.keys : TRUE
       IN  /\ PutRecord(k, Content(worker.snap, k))
           /\ worker' = [worker EXCEPT !.keys = @ \ {k}]
    /\ UNCHANGED <<wframe, row, buffer, queued, raced, trouble>>

\* drainBufferedCommits lists the items of the generation the backfill began with ...
ListBuffer ==
    /\ worker.pc = "put" /\ worker.keys = {}
    /\ worker' = [worker EXCEPT !.revs = {b.rev : b \in {b \in buffer : b.gen = worker.row.gen}},
                                !.pc = "drain"]
    /\ UNCHANGED <<wframe, row, buffer, tables, queued, raced, trouble>>

\* ... applies them in the order of their revisions ...
Undrained == {n \in worker.revs : n > worker.rev}

DrainRecord ==
    /\ worker.pc = "drain" /\ Undrained # {}
    /\ worker' = [worker EXCEPT !.rev = Min(Undrained), !.pc = "drainwrite"]
    /\ PutRecord(commits[Min(Undrained)], Min(Undrained))
    /\ UNCHANGED <<wframe, row, buffer, queued, raced, trouble>>

DrainRow ==
    /\ worker.pc = "drainwrite"
    /\ worker' = [worker EXCEPT !.row.rev = worker.rev, !.row.cid = worker.rev, !.pc = "drain"]
    /\ UpsertRow(worker.row, worker'.row)
    /\ UNCHANGED <<wframe, buffer, tables, queued, trouble>>

\* ... and deletes every item of the generation.
DeleteBuffer ==
    /\ worker.pc = "drain" /\ Undrained = {}
    /\ buffer' = {b \in buffer : b.gen # worker.row.gen}
    /\ worker' = [worker EXCEPT !.pc = "finish"]
    /\ UNCHANGED <<wframe, row, tables, queued, raced, trouble>>

\* Mutant of FinishBackfill: the repository is taken off the queue when it is done.
FinishAndDequeue ==
    /\ worker.pc = "finish"
    /\ UpsertRow(worker.row, [worker.row EXCEPT !.state = "synced", !.rev = worker.snap])
    /\ worker' = WorkerIdle
    /\ queued' = FALSE
    /\ UNCHANGED <<wframe, buffer, tables, trouble>>

\* The row is synced, at the revision of the snapshot; current_commit_cid stays.
FinishBackfill ==
    /\ worker.pc = "finish"
    /\ UpsertRow(worker.row, [worker.row EXCEPT !.state = "synced", !.rev = worker.snap])
    /\ worker' = WorkerIdle
    /\ UNCHANGED <<wframe, buffer, tables, queued, trouble>>

-----------------------------------------------------------------------------
\* The first commit the handler has not finished with.
Unhandled == IF handler.pc # "idle" /\ handler.evt = "commit" THEN handler.rev ELSE pos

\* The process restarts: the queue is gone, the stream resumes after last_seq.
Crash ==
    /\ Trouble
    /\ queued' = FALSE
    /\ handler' = HandlerIdle /\ worker' = WorkerIdle /\ admin' = AdminIdle
    /\ start' = lastSeq
    /\ Resume(lastSeq)
    /\ lost' = (lost \/ queued \/ worker.pc # "idle" \/ pos' > Unhandled)
    /\ UNCHANGED <<commits, store, raced>>

HandlerStep ==
    \/ Deliver \/ HandlerRead \/ HandlerTrack \/ BufferCommit \/ HandlerEnqueue \/ SkipKnown
    \/ MarkDesynchronized \/ ApplyRecord \/ ApplyRow \/ UpdateSourceCursor
    \/ WriteNote
WorkerStep ==
    \/ Dequeue \/ WorkerRead \/ MarkBackfilling \/ FetchRepo \/ PutSnapshot
    \/ ListBuffer \/ DrainRecord \/ DrainRow \/ DeleteBuffer \/ FinishBackfill

Next ==
    \/ \E k \in Key : Commit(k)
    \/ Reconnect
    \/ \E e \in {"identity", "deactivated"} : DeliverNote(e)
    \/ AdminWrite \/ \E f \in Caller : AdminRead(f)
    \/ HandlerStep \/ HandleCommitFails
    \/ WorkerStep \/ BackfillFails
    \/ Crash

\* The goroutines keep running and the scheduler keeps ticking; nothing else
\* has to happen.
Fairness ==
    /\ WF_vars(HandlerStep)
    /\ WF_vars(WorkerStep)
    /\ WF_vars(AdminRead("track"))
    /\ WF_vars(AdminWrite)

Spec == Init /\ [][Next]_vars /\ Fairness

-----------------------------------------------------------------------------
\* A tracked repository does not stay behind: whatever row a stale write leaves,
\* a backfill that is due is run (an account state ends the syncing).
BackfillRuns ==
    row.state \in {"pending", "backfilling", "desynchronized", "error"}
        ~> row.state \in {"synced", "deactivated"}

\* A commit the handler is done with reaches the event log, from which the bridge
\* publishes: there is, or will be, an event of the record in that version or a
\* later one, whether the commit was applied, buffered, known already or answered
\* by a resynchronisation; unless queued work was dropped, or two of the callers
\* raced on the row.
CommitsAnnounced ==
    \A n \in Rev : (handler.pc = "save" /\ handler.evt = "commit" /\ handler.rev = n)
                       ~> (lost \/ raced \/ (n <= head /\ events[commits[n]] >= n))

\* docs/scratchpad/035-atindex-state-machine-and-backfill.md:19 says a backfill stores
\* its snapshot and "then drain[s] buffered live commits in `seq/rev` order": when
\* the commits end, the index holds the repository's records in their last version.
IndexConverges ==
    <>[](lost \/ raced \/ \A k \in Key : records[k] = Content(head, k))
=============================================================================
