------------------------------- MODULE FeedLog -------------------------------
(***************************************************************************)
(* The SQLite feed store (internal/ssb/feedlog) under its writers, the      *)
(* publishers of own feeds (internal/ssb/publisher) and the appends of      *)
(* replicated messages (internal/ssb/sbot/feed_manager_adapter.go), and     *)
(* under one reader, createHistoryStream (muxrpc/handlers/history.go).      *)
(*                                                                          *)
(* Append reads MAX(seq) and inserts in one transaction, which is tried     *)
(* again when SQLite reports that the database is busy.  The mutex of a log *)
(* excludes nobody: every caller opens a log object of its own.  The        *)
(* receive log is one object, and its mutex does.                           *)
(***************************************************************************)
EXTENDS Integers, Sequences, FiniteSets

CONSTANTS
    Feeds, Own,      \* feeds, and those that have a publisher here
    Writers,         \* goroutines
    MaxSeq,          \* bound: sequence numbers of replicated messages
    RetryLimit,      \* sqliteBusyRetryLimit (20)
    MaxCalls, MaxFaults      \* bounds: calls; busy answers without a cause and other errors

Messages == [feed : Feeds, seq : 1..(MaxCalls + MaxSeq), id : 0..MaxCalls]
NoMessage == [feed |-> CHOOSE f \in Feeds : TRUE, seq |-> 0, id |-> 0]

VARIABLES
    known,       \* the feeds table
    logs,        \* logs[f]: the messages table, ordered by seq
    received,    \* the receive_log table
    index,       \* messages_key_idx: [msg, feed, seq]
    version,     \* commits so far: a transaction that has read sees one version
    lock,        \* who has written in an open transaction
    rx,          \* who holds the mutex of the receive log
    call,        \* call[w]: what writer w does
    calls, faults,           \* counters of the bounds
    reader       \* the history stream

tables == << known, logs, received, index, version >>
vars == << tables, lock, rx, call, calls, faults, reader >>

Idle == [op |-> "none", at |-> "idle", msg |-> NoMessage, attempt |-> 0, snap |-> 0, seq |-> 0]

NoReader == [at |-> "closed", feed |-> NoMessage.feed, live |-> FALSE, limit |-> 0,
             start |-> 0, seen |-> 0, sent |-> <<>>]
Ended == [NoReader EXCEPT !.at = "end"]

Init ==
    /\ known = Own /\ logs = [f \in Feeds |-> <<>>] /\ received = <<>> /\ index = {}
    /\ version = 0 /\ lock = {} /\ rx = {}
    /\ call = [w \in Writers |-> Idle]
    /\ calls = 0 /\ faults = 0
    /\ reader = NoReader

\* Log.Seq: -1 when the feed has no message.
Seq_(f) == IF logs[f] = <<>> THEN -1 ELSE Len(logs[f])

At(w, at) == call[w].at = at
Done(w, at) == call' = [call EXCEPT ![w] = [Idle EXCEPT !.at = at]]
To(w, at) == call' = [call EXCEPT ![w].at = at]
Bounds == UNCHANGED << calls, faults, reader >>

-----------------------------------------------------------------------------
(* The callers                                                               *)

\* AppendReplicatedMessage and appendBendyMessage: the log is opened or created,
BeginReplicate(w) ==
    /\ call[w].at \in {"idle", "ok", "failed"} /\ calls < MaxCalls
    /\ calls' = calls + 1
    /\ \E f \in Feeds \ Own, s \in 1..MaxSeq :
          call' = [call EXCEPT ![w] = [Idle EXCEPT !.op = "replicate", !.at = "open",
                                                   !.msg = [feed |-> f, seq |-> s, id |-> 0]]]
    /\ UNCHANGED << tables, lock, rx, faults, reader >>

MultiLogGet(w) ==
    /\ At(w, "open")
    /\ To(w, IF call[w].msg.feed \in known THEN "check" ELSE "create")
    /\ UNCHANGED << tables, lock, rx >> /\ Bounds

\* INSERT OR IGNORE commits at once, unless somebody is writing.
MultiLogCreate(w) ==
    /\ At(w, "create") /\ lock = {}
    /\ known' = known \cup {call[w].msg.feed}
    /\ version' = version + 1
    /\ call' = [call EXCEPT ![w].at = "check", ![w].attempt = 0]
    /\ UNCHANGED << logs, received, index, lock, rx >> /\ Bounds

\* and the message is appended if it is the next one, or the first one there is.
CheckSequence(w) ==
    /\ At(w, "check")
    /\ LET m == call[w].msg
           current == Seq_(m.feed) IN
       CASE m.seq <= current -> Done(w, "ok")
         [] current >= 0 /\ m.seq # current + 1 -> Done(w, "failed")
         [] OTHER -> To(w, "select")
    /\ UNCHANGED << tables, lock, rx >> /\ Bounds

\* Publisher.Publish: the message is numbered and linked before it is appended.
Publish(w) ==
    /\ call[w].at \in {"idle", "ok", "failed"} /\ calls < MaxCalls
    /\ calls' = calls + 1
    /\ \E f \in Own :
          LET n == IF Seq_(f) >= 0 THEN Seq_(f) + 1 ELSE 1 IN
          call' = [call EXCEPT ![w] = [Idle EXCEPT !.op = "publish", !.at = "select",
                                          !.msg = [feed |-> f, seq |-> n, id |-> calls + 1]]]
    /\ UNCHANGED << tables, lock, rx, faults, reader >>

-----------------------------------------------------------------------------
(* The transaction of Append: SELECT MAX(seq), INSERT, INSERT, COMMIT        *)

Selects == {"select", "rselect"}
Inserts == {"insert", "rinsert"}
Commits == {"commit", "rcommit"}
Then(at) == CASE at = "select" -> "insert"  [] at = "insert" -> "commit"
              [] at = "rselect" -> "rinsert" [] at = "rinsert" -> "rcommit"

\* The receive log takes its mutex.
LockReceive(w) ==
    /\ At(w, "receive") /\ rx = {}
    /\ rx' = {w}
    /\ call' = [call EXCEPT ![w].at = "rselect", ![w].attempt = 0]
    /\ UNCHANGED << tables, lock >> /\ Bounds

SelectMax(w) ==
    /\ call[w].at \in Selects
    /\ LET last == IF call[w].at = "select" THEN Len(logs[call[w].msg.feed]) ELSE Len(received) IN
       call' = [call EXCEPT ![w].at = Then(@), ![w].snap = version, ![w].seq = last + 1]
    /\ UNCHANGED << tables, lock, rx >> /\ Bounds

\* SQLite (external): nobody else writes, and nothing was committed since the read.
MayWriteLater(w) == lock \subseteq {w}
MayWrite(w) == lock \subseteq {w} /\ call[w].snap = version

InsertMessage(w) ==
    /\ call[w].at \in Inserts
    /\ MayWrite(w)
    /\ lock' = {w}
    /\ To(w, Then(call[w].at))
    /\ UNCHANGED << tables, rx >> /\ Bounds

\* What a commit leaves: the row, and in a feed's log the entry of the key, which
\* replaces the one of an equal message.
Stored(s, n, m) == IF n = Len(s) + 1 THEN Append(s, m) ELSE [s EXCEPT ![n] = m]
CommitMessage(w) ==
    /\ At(w, "commit")
    /\ LET m == call[w].msg IN
       /\ logs' = [logs EXCEPT ![m.feed] = Stored(@, call[w].seq, m)]
       /\ index' = {e \in index : e.msg # m} \cup {[msg |-> m, feed |-> m.feed, seq |-> call[w].seq]}
    /\ version' = version + 1 /\ lock' = {}
    /\ To(w, "receive")
    /\ UNCHANGED << known, received, rx >> /\ Bounds

CommitReceived(w) ==
    /\ At(w, "rcommit")
    /\ received' = Stored(received, call[w].seq, call[w].msg)
    /\ version' = version + 1 /\ lock' = {} /\ rx' = {}
    /\ Done(w, "ok")
    /\ UNCHANGED << known, logs, index >> /\ Bounds

\* shouldRetrySQLiteBusy: a statement that finds the database busy, because it must or
\* for the while that another connection is at work, rolls back and starts again, and
\* the last attempt gives up.  After a rollback nothing of the transaction is left.
Start(at) == CASE at = "create" -> "create"
               [] at \in {"select", "insert", "commit"} -> "select"
               [] OTHER -> "rselect"
ShouldRetrySQLiteBusy(w) ==
    /\ call[w].at \in {"create"} \cup Selects \cup Inserts \cup Commits
    /\ \/ /\ faults < MaxFaults
          /\ faults' = faults + 1
       \/ /\ (call[w].at \in Inserts /\ ~MayWrite(w)) \/ (call[w].at = "create" /\ lock # {})
          /\ UNCHANGED faults
    /\ lock' = lock \ {w}
    /\ IF call[w].attempt < RetryLimit - 1
       THEN /\ call' = [call EXCEPT ![w].at = Start(@), ![w].attempt = @ + 1]
            /\ UNCHANGED rx
       ELSE /\ Done(w, "failed")
            /\ rx' = rx \ {w}
    /\ UNCHANGED << tables, calls, reader >>

\* Any other error is returned at once.
StatementFails(w) ==
    /\ call[w].at \in {"open", "create", "check"} \cup Selects \cup Inserts \cup Commits
    /\ faults < MaxFaults
    /\ faults' = faults + 1
    /\ lock' = lock \ {w}
    /\ rx' = rx \ {w}
    /\ Done(w, "failed")
    /\ UNCHANGED << tables, calls, reader >>

\* receiveLog.Append checks the signature of a classic message first.
VerifyFails(w) ==
    /\ At(w, "rselect") /\ call[w].attempt = 0
    /\ faults < MaxFaults
    /\ faults' = faults + 1
    /\ rx' = {}
    /\ Done(w, "failed")
    /\ UNCHANGED << tables, lock, calls, reader >>

-----------------------------------------------------------------------------
(* createHistoryStream                                                       *)

\* HandleCall: an unknown feed is an empty stream; "old" set to FALSE skips the backlog.
HandleHistory ==
    /\ reader.at = "closed"
    /\ \E f \in known, live \in BOOLEAN, limit \in 0..1, old \in BOOLEAN, start \in 0..1 :
          reader' = IF ~old /\ ~live THEN Ended ELSE
                    [at |-> IF old THEN "backlog" ELSE "live",
                     feed |-> f, live |-> live, limit |-> limit,
                     start |-> IF old THEN start ELSE Len(logs[f]),
                     seen |-> Len(logs[f]), sent |-> <<>>]
    /\ UNCHANGED << tables, lock, rx, call, calls, faults >>

\* Mutant: the stream starts at the number it was asked to start behind.
NextSeqAt == reader.start + Len(reader.sent)
NextSeq == reader.start + Len(reader.sent) + 1
LimitReached == reader.limit > 0 /\ Len(reader.sent) >= reader.limit
\* writeMessage: a message that is not found ends the stream.
WriteMessage ==
    /\ reader.at \in {"backlog", "poll"} /\ NextSeq <= reader.seen
    /\ reader' = IF LimitReached THEN Ended
                 ELSE IF NextSeq \notin DOMAIN logs[reader.feed] THEN [reader EXCEPT !.at = "lost"]
                 ELSE [reader EXCEPT !.sent = Append(@, logs[reader.feed][NextSeq])]
    /\ UNCHANGED << tables, lock, rx, call, calls, faults >>

\* What was there is sent: a live stream goes on.
BacklogDone ==
    /\ reader.at \in {"backlog", "poll"} /\ NextSeq > reader.seen
    /\ reader' = IF reader.at = "backlog" /\ (~reader.live \/ LimitReached) THEN Ended
                 ELSE [reader EXCEPT !.at = "live"]
    /\ UNCHANGED << tables, lock, rx, call, calls, faults >>

\* The ticker: what has come since.
Poll ==
    /\ reader.at = "live" /\ Len(logs[reader.feed]) # reader.seen
    /\ reader' = [reader EXCEPT !.at = "poll", !.seen = Len(logs[reader.feed])]
    /\ UNCHANGED << tables, lock, rx, call, calls, faults >>

-----------------------------------------------------------------------------
WriterStep(w) ==
    \/ BeginReplicate(w) \/ MultiLogGet(w) \/ MultiLogCreate(w) \/ CheckSequence(w) \/ Publish(w)
    \/ LockReceive(w) \/ SelectMax(w) \/ InsertMessage(w) \/ CommitMessage(w) \/ CommitReceived(w)
    \/ ShouldRetrySQLiteBusy(w) \/ StatementFails(w) \/ VerifyFails(w)

Next ==
    \/ \E w \in Writers : WriterStep(w)
    \/ HandleHistory \/ WriteMessage \/ BacklogDone \/ Poll

Spec == Init /\ [][Next]_vars

Abstract == INSTANCE AppendLog

\* The store is the append-only logs that AppendLog describes: whatever transactions
\* overlap, run into a busy database and are repeated, a commit adds one message at the
\* end of one log and rewrites none.
LogsAppendOnly == Abstract!Spec

\* The entry of a key leads to the message with that key, every stored message has one,
\* and a history stream sends what is in the log from where it started, without a
\* message that it cannot find.
KeysAndHistory ==
    /\ \A e \in index : e.seq \in DOMAIN logs[e.feed] /\ logs[e.feed][e.seq] = e.msg
    /\ \A f \in Feeds : \A n \in DOMAIN logs[f] : \E e \in index : e.msg = logs[f][n]
    /\ reader.at # "lost"
    /\ \A i \in DOMAIN reader.sent :
          /\ reader.start + i \in DOMAIN logs[reader.feed]
          /\ reader.sent[i] = logs[reader.feed][reader.start + i]
==============================================================================
