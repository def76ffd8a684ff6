----------------------------- MODULE ReverseSync -----------------------------
(***************************************************************************)
(* From SSB back to ATProto: a member of the room writes its feed, the      *)
(* ingest session of the bridge (cmd/bridge-cli/room_member_ingest.go)      *)
(* copies it to the receive log, and the ReverseProcessor                   *)
(* (internal/bridge/reverse_sync.go) publishes what the mapping allows.     *)
(* The rows of reverse_events, the cursor and the messages table are in     *)
(* SQLite: every statement is a step of its own and a crash may fall        *)
(* between any two.  Operators retry events from the web interface while    *)
(* the loop runs; nothing keeps a retry and the loop off the same message.  *)
(*                                                                         *)
(* A message is the place it has in its author's feed.  One member is       *)
(* modelled, whose mapping comes, changes and goes.                         *)
(***************************************************************************)
EXTENDS Integers, FiniteSets, Sequences

CONSTANTS
    Kinds,        \* the kinds of messages the member writes
    Requests,     \* retries that operators ask for
    MaxMsgs,      \* bound: messages the member writes
    MaxFaults,    \* bound: crashes, failed statements and lost answers
    MaxOrders     \* bound: changes of the mapping

Actions == [post |-> "posts", reply |-> "replies", repost |-> "posts", vote |-> "posts",
            follow |-> "follows", unfollow |-> "follows"]
Batch == "batch"
Jobs == {Batch} \cup Requests
NoRow == [state |-> "none", action |-> "none", uri |-> 0]
NoMapping == [active |-> FALSE, allow |-> {}]

VARIABLES
    feed,       \* the member's feed: a sequence of kinds
    session,    \* the ingest session: it streams, or it waits to reconnect
    stored,     \* messages in the bridge's copy of the feed
    log,        \* the receive log: places in the feed
    cursor,     \* the bridge state reverse_receive_log_seq
    mapping, credentials,    \* reverse_identity_mappings; the credentials file
    bridged,    \* the message and the feed that others refer to are bridged
    rows,       \* reverse_events
    messages,   \* the messages table: the records it has a row for
    remote,     \* records on the PDS: [msg, live]; the place is the URI
    job,        \* where the loop and the retries are: [pc, msg, row]
    faults, orders,
    ignored,    \* messages the processor let pass without a row
    excused     \* messages a fault or an overlap may publish twice

storeVars == << feed, session, stored, log >>
settings == << mapping, credentials, bridged, orders >>
ghosts == << ignored, excused >>
vars == << storeVars, cursor, settings, rows, messages, remote, job, faults, ghosts >>

Init ==
    /\ feed = << >> /\ session = "waiting" /\ stored = 0 /\ log = << >>
    /\ cursor = 0
    /\ mapping = NoMapping /\ credentials \in BOOLEAN /\ bridged = FALSE
    /\ rows = [m \in 1..MaxMsgs |-> NoRow]
    /\ messages = {} /\ remote = << >>
    /\ job = [j \in Jobs |-> [pc |-> IF j = Batch THEN "idle" ELSE "new", msg |-> 0, row |-> NoRow]]
    /\ faults = 0 /\ orders = 0
    /\ ignored = {} /\ excused = {}

Fault == faults < MaxFaults /\ faults' = faults + 1

-----------------------------------------------------------------------------
(* The member and the ingest session                                         *)

Write(k) ==
    /\ Len(feed) < MaxMsgs
    /\ feed' = Append(feed, k)
    /\ UNCHANGED << session, stored, log, cursor, settings, rows, messages, remote, job, faults, ghosts >>

\* streamFeed opens the history behind lastKnownSeq; the connection may be lost.
StreamFeed ==
    /\ session' = IF session = "waiting" THEN "streaming" ELSE "waiting"
    /\ UNCHANGED << feed, stored, log, cursor, settings, rows, messages, remote, job, faults, ghosts >>

\* ingestHistoryFrame appends to the feed log and then to the receive log.  A failure
\* of the second ends the stream, and the next one starts behind the message.
IngestHistoryFrame ==
    /\ session = "streaming" /\ stored < Len(feed)
    /\ stored' = stored + 1
    /\ \/ log' = Append(log, stored + 1) /\ UNCHANGED << session, faults >>
       \/ Fault /\ session' = "waiting" /\ UNCHANGED log
    /\ UNCHANGED << feed, cursor, settings, rows, messages, remote, job, ghosts >>

-----------------------------------------------------------------------------
(* The operator                                                              *)

Set(new) ==
    /\ orders < MaxOrders /\ orders' = orders + 1
    /\ mapping' = new
    /\ UNCHANGED << storeVars, cursor, credentials, bridged, rows, messages, remote, job, faults, ghosts >>

HandleReverseMappingUpsert(allow) == Set([active |-> TRUE, allow |-> allow])
HandleReverseMappingRemove == mapping.active /\ Set([mapping EXCEPT !.active = FALSE])

\* The credentials file or the environment changes, and the forward bridge
\* publishes what a message refers to.
WorldChanges ==
    /\ \/ credentials' = ~credentials /\ orders < MaxOrders /\ orders' = orders + 1 /\ UNCHANGED bridged
       \/ ~bridged /\ bridged' = TRUE /\ UNCHANGED << credentials, orders >>
    /\ UNCHANGED << storeVars, cursor, mapping, rows, messages, remote, job, faults, ghosts >>

-----------------------------------------------------------------------------
(* buildReverseEvent                                                         *)

BaseReverseEvent(action) == [state |-> "pending", action |-> action, uri |-> 0]

\* The rows of published follows: there is one target.
PublishedFollows == { m \in 1..MaxMsgs :
    rows[m].action = "follow" /\ rows[m].state = "published" /\ rows[m].uri # 0 }
\* The latest by the time of publication, the URI of which a record has.
GetLatestPublishedReverseFollow ==
    IF PublishedFollows = {} THEN 0
    ELSE CHOOSE u \in { rows[m].uri : m \in PublishedFollows } :
             \A m \in PublishedFollows : u >= rows[m].uri

\* A reply is to the message before it: its record when that was reverse-synced, and
\* for the first message of the feed one of the forward bridge.
ResolveReplyTargets(m) ==
    IF m = 1 THEN bridged ELSE \E r \in messages : remote[r].msg = m - 1

Resolved(m, k) ==
    CASE k = "reply" -> ResolveReplyTargets(m)
      [] k \in {"repost", "vote", "follow"} -> bridged
      [] k = "unfollow" -> bridged /\ GetLatestPublishedReverseFollow # 0
      [] OTHER -> TRUE

\* Blocks, targetless reposts and votes, and profiles of others are skipped, and
\* what the mapping does not allow.
BuildReverseEvent(m) ==
    LET k == feed[m]
        base == BaseReverseEvent(k)
    IN  IF k = "unsupported" \/ (k \in DOMAIN Actions /\ Actions[k] \notin mapping.allow)
        THEN [base EXCEPT !.state = "skipped"]
        ELSE IF ~Resolved(m, k) THEN [base EXCEPT !.state = "deferred"]
        ELSE IF k = "unfollow" THEN [base EXCEPT !.uri = GetLatestPublishedReverseFollow]
        ELSE base

-----------------------------------------------------------------------------
(* processDecodedMessage                                                     *)

At(j, pc) == job[j].pc = pc
Go(j, pc) == job' = [job EXCEPT ![j].pc = pc]
Record(j, pc, row) == job' = [job EXCEPT ![j].pc = pc, ![j].row = row]
\* The handling returns nil: the loop saves the cursor, a retry is done.
Return(j) == Go(j, IF j = Batch THEN "advance" ELSE "done")
\* The error is logged and the message passed.
ReturnErrorPasses(j) == Go(j, IF j = Batch THEN "advance" ELSE "done")
\* It returns an error: the batch ends and the ticker starts another.
ReturnError(j) == Go(j, IF j = Batch THEN "idle" ELSE "done")

Busy(m, j) == \E i \in Jobs \ {j} : job[i].msg = m /\ ~At(i, "idle") /\ ~At(i, "new") /\ ~At(i, "done")
Start(j, m, pc) ==
    /\ job' = [job EXCEPT ![j] = [pc |-> pc, msg |-> m, row |-> NoRow]]
    /\ excused' = IF Busy(m, j) THEN excused \cup {m} ELSE excused

\* Run, runOnce and ProcessBatch: the next message behind the cursor.  A batch of
\* several is several batches of one.
ProcessBatch ==
    /\ At(Batch, "idle") /\ cursor < Len(log)
    /\ Start(Batch, log[cursor + 1], "check")
    /\ UNCHANGED << storeVars, cursor, settings, rows, messages, remote, faults, ignored >>

\* Not forced: a message that has an event is left alone, unless that is pending.
CheckExistingAlways(j) ==
    /\ At(j, "check")
    /\ Go(j, "build")
    /\ UNCHANGED << storeVars, cursor, settings, rows, messages, remote, faults, ghosts >>

CheckExisting(j) ==
    /\ At(j, "check")
    /\ IF rows[job[j].msg].state \in {"none", "pending"} THEN Go(j, "build") ELSE Return(j)
    /\ UNCHANGED << storeVars, cursor, settings, rows, messages, remote, faults, ghosts >>

\* The mapping, the content and the event; then the credential.  Content that is no
\* JSON object (an encrypted message) makes an event without an action, which
\* AddReverseEvent refuses.
Build(j) ==
    LET m == job[j].msg
        event == BuildReverseEvent(m)
    IN  /\ At(j, "build")
        /\ \/ /\ ~mapping.active \/ feed[m] = "other"
              /\ Return(j)
              /\ ignored' = ignored \cup {m}
           \/ /\ mapping.active /\ feed[m] = "private"
              /\ ReturnError(j)
              /\ UNCHANGED ignored
           \/ /\ mapping.active /\ feed[m] \notin {"other", "private"}
              /\ IF event.state # "pending" THEN Record(j, "persist", event)
                 ELSE IF credentials THEN Record(j, "session", event)
                 ELSE Record(j, "persist", [event EXCEPT !.state = "deferred"])
              /\ UNCHANGED ignored
        /\ UNCHANGED << storeVars, cursor, settings, rows, messages, remote, faults, excused >>

\* resolveCredential, NewSession, the enrichment of posts and profiles and the call
\* fail before the record is written: the event is failed, or deferred for a blob.
EnrichReversePostRecord(kind) == IF kind \in {"post", "reply", "about"} THEN {"failed", "deferred"} ELSE {"failed"}

SessionFails(j) ==
    /\ At(j, "session")
    /\ \E s \in EnrichReversePostRecord(job[j].row.action) :
          Record(j, "persist", [job[j].row EXCEPT !.state = s])
    /\ UNCHANGED << storeVars, cursor, settings, rows, messages, remote, faults, ghosts >>

\* The record is written and the answer is lost: the event is failed all the same.
AnswerLost(j) ==
    /\ At(j, "session") /\ job[j].row.action # "unfollow" /\ Fault
    /\ remote' = Append(remote, [msg |-> job[j].msg, live |-> TRUE])
    /\ Record(j, "persist", [job[j].row EXCEPT !.state = "failed"])
    /\ excused' = excused \cup {job[j].msg}
    /\ UNCHANGED << storeVars, cursor, settings, rows, messages, ignored >>

CreateRecord(j) ==
    /\ At(j, "session") /\ job[j].row.action # "unfollow"
    /\ remote' = Append(remote, [msg |-> job[j].msg, live |-> TRUE])
    /\ Record(j, "correlate", [job[j].row EXCEPT !.state = "published", !.uri = Len(remote) + 1])
    /\ UNCHANGED << storeVars, cursor, settings, rows, messages, faults, ghosts >>

\* Deleting a record that is gone succeeds.
DeleteRecord(j) ==
    /\ At(j, "session") /\ job[j].row.action = "unfollow"
    /\ remote' = [remote EXCEPT ![job[j].row.uri].live = FALSE]
    /\ Record(j, "persist", [job[j].row EXCEPT !.state = "published"])
    /\ UNCHANGED << storeVars, cursor, settings, rows, messages, faults, ghosts >>

\* A statement fails: the handling returns the error.  What it created may be
\* created again.
StatementFails(j) ==
    /\ job[j].pc \in {"correlate", "persist", "advance"} /\ Fault
    /\ ReturnError(j)
    /\ excused' = IF job[j].row.state = "published" /\ ~At(j, "advance")
                  THEN excused \cup {job[j].msg} ELSE excused
    /\ UNCHANGED << storeVars, cursor, settings, rows, messages, remote, ignored >>

\* The swapped order: the event first and the row of the messages table after it.
PersistForwardCorrelationLate(j) ==
    /\ At(j, "correlate")
    /\ \/ /\ rows[job[j].msg] # job[j].row
          /\ rows' = [rows EXCEPT ![job[j].msg] = job[j].row]
          /\ UNCHANGED << messages, job >>
       \/ /\ rows[job[j].msg] = job[j].row
          /\ messages' = messages \cup {job[j].row.uri}
          /\ Return(j)
          /\ UNCHANGED rows
    /\ UNCHANGED << storeVars, cursor, settings, remote, faults, ghosts >>

\* AddMessage: the row by which the forward bridge knows the record.
PersistForwardCorrelation(j) ==
    /\ At(j, "correlate")
    /\ messages' = messages \cup {job[j].row.uri}
    /\ Go(j, "persist")
    /\ UNCHANGED << storeVars, cursor, settings, rows, remote, faults, ghosts >>

\* AddReverseEvent overwrites the row.
PersistReverseEvent(j) ==
    /\ At(j, "persist")
    /\ rows' = [rows EXCEPT ![job[j].msg] = job[j].row]
    /\ Return(j)
    /\ UNCHANGED << storeVars, cursor, settings, messages, remote, faults, ghosts >>

\* SetBridgeState of the sequence number.
SaveCursor ==
    /\ At(Batch, "advance")
    /\ cursor' = cursor + 1
    /\ Go(Batch, "idle")
    /\ UNCHANGED << storeVars, settings, rows, messages, remote, faults, ghosts >>

-----------------------------------------------------------------------------
(* RetryEvent                                                                *)

RetryEvent(j, m) ==
    /\ At(j, "new") /\ rows[m].state \in {"pending", "deferred", "failed"}
    /\ Start(j, m, "reset")
    /\ UNCHANGED << storeVars, cursor, settings, rows, messages, remote, faults, ignored >>

\* The row is set back whatever it says by now, and the message handled by force.
ResetReverseEventForRetry(j) ==
    /\ At(j, "reset")
    /\ rows' = [rows EXCEPT ![job[j].msg].state = "pending"]
    /\ Go(j, "build")
    /\ UNCHANGED << storeVars, cursor, settings, messages, remote, faults, ghosts >>

-----------------------------------------------------------------------------
(* The process dies: the loop and the requests are gone                      *)

Crash ==
    /\ Fault
    /\ \E j \in Jobs : ~At(j, "idle") /\ ~At(j, "new") /\ ~At(j, "done")
    /\ session' = "waiting"
    /\ job' = [j \in Jobs |->
                 IF j = Batch THEN [pc |-> "idle", msg |-> 0, row |-> NoRow]
                 ELSE IF At(j, "new") THEN job[j] ELSE [job[j] EXCEPT !.pc = "done"]]
    /\ excused' = excused \cup { job[j].msg : j \in { i \in Jobs :
                      job[i].row.state = "published" /\ job[i].pc \in {"correlate", "persist"} } }
    /\ UNCHANGED << feed, stored, log, cursor, settings, rows, messages, remote, ignored >>

-----------------------------------------------------------------------------
JobStep(j) ==
    \/ CheckExisting(j) \/ Build(j) \/ SessionFails(j) \/ CreateRecord(j) \/ DeleteRecord(j)
    \/ PersistForwardCorrelation(j) \/ PersistReverseEvent(j)

Next ==
    \/ \E k \in Kinds : Write(k)
    \/ StreamFeed \/ IngestHistoryFrame
    \/ \E allow \in {{}, {"posts", "replies", "follows"}} : HandleReverseMappingUpsert(allow)
    \/ HandleReverseMappingRemove \/ WorldChanges
    \/ ProcessBatch \/ SaveCursor
    \/ \E j \in Jobs : JobStep(j) \/ AnswerLost(j) \/ StatementFails(j) \/ ResetReverseEventForRetry(j)
    \/ \E j \in Requests, m \in 1..Len(feed) : RetryEvent(j, m)
    \/ Crash

\* The ticker of Run starts a batch again and again, and a batch runs to its end.
ReverseFairness == WF_vars(ProcessBatch) /\ WF_vars(JobStep(Batch)) /\ WF_vars(SaveCursor)

Spec == Init /\ [][Next]_vars /\ ReverseFairness

-----------------------------------------------------------------------------
(* Properties                                                                *)

\* A message becomes one record, whatever crashes and failures come between the
\* statements: only an answer that is lost, a crash or failed statement between the
\* creation and the event, or a retry beside another handling of the message makes
\* a second (processDecodedMessage looks for the event before it publishes).
PublishedOnce ==
    \A m \in 1..Len(feed) :
        Cardinality({ r \in 1..Len(remote) : remote[r].msg = m }) > 1 => m \in excused

\* The cursor passes no message that has neither an event nor been let pass for its
\* author or type: ProcessBatch stops at the first message it could not record.
NothingPassedOver ==
    \A i \in 1..cursor : rows[log[i]].state # "none" \/ log[i] \in ignored

\* Once the event says published, the messages table has the record, so that a replay
\* by the firehose or a backfill is not published back to SSB (ProcessRecord leaves a
\* record alone that has a row): the row is written before the event.
CorrelatedFirst ==
    \A m \in 1..Len(feed) :
        rows[m].state = "published" /\ rows[m].action # "unfollow" => rows[m].uri \in messages

\* What fails is persisted in reverse_events: a message of a mapped member in the
\* receive log gets an event, or is let pass.
FailuresPersisted ==
    \A m \in 1..MaxMsgs :
        (\E i \in 1..Len(log) : log[i] = m)
            ~> (~mapping.active \/ rows[m].state # "none" \/ m \in ignored)
=============================================================================
