---------------------------- MODULE FaultsProofs ----------------------------
(***************************************************************************)
(* Whatever crashes, fails or is lost, and for any bounds:                   *)
(*                                                                          *)
(* 1. the way back to ATProto: the cursor passes no message, a record is     *)
(*    correlated before its event says so, and a message is published once;  *)
(* 2. the tracker follows back once: whom it is about to follow has no row,  *)
(*    and a follow has its row, is about to get it, or is known to have lost *)
(*    it;                                                                   *)
(* 3. a node announces no more of a feed than it has: the invariant is that  *)
(*    of ReplicationProofs, under the substitution of this module;           *)
(* 4. blobs: a file is there before its row and a row before what refers to  *)
(*    it, what a call did not get is still wanted, and what is wanted has    *)
(*    been told, is queued or was lost by a full queue; and the chunks and   *)
(*    the slices of a blob are its bytes.                                    *)
(***************************************************************************)
EXTENDS MCFaults, FiniteSetTheorems, SequenceTheorems, TLAPS

-----------------------------------------------------------------------------
(* The way back                                                              *)

States == {"none", "pending", "deferred", "failed", "skipped", "published"}
Off == {"idle", "new", "done"}
Steps == {"check", "reset", "build", "session", "correlate", "persist", "advance"}

\* A row of reverse_events, and what a job knows.
IsRow(r) ==
    /\ r = [state |-> r.state, action |-> r.action, uri |-> r.uri]
    /\ r.state \in States
IsJob(c) ==
    /\ c = [pc |-> c.pc, msg |-> c.msg, row |-> c.row]
    /\ c.pc \in Off \cup Steps
    /\ c.pc \in Steps => c.msg \in 1..MaxMsgs
    /\ IsRow(c.row)

\* The types of the state that the statements work on.
TypeOK ==
    /\ feed \in Seq(Kinds) /\ Len(feed) <= MaxMsgs
    /\ stored \in 0..Len(feed)
    /\ log \in Seq(1..MaxMsgs)
    /\ cursor \in Nat
    /\ DOMAIN rows = 1..MaxMsgs /\ rows = [m \in 1..MaxMsgs |-> rows[m]]
    /\ \A m \in 1..MaxMsgs : IsRow(rows[m])
    /\ remote \in Seq([msg : 1..MaxMsgs, live : BOOLEAN])
    /\ job = [j \in Jobs |-> job[j]]
    /\ \A j \in Jobs : IsJob(job[j])

Active(j) == job[j].pc \in Steps
Settled(m) == rows[m].state # "none" \/ m \in ignored

\* The batch handles the message behind the cursor, and saves the cursor when that
\* is settled; an event that is about to be written says something.
BatchInPlace ==
    /\ cursor <= Len(log)
    /\ Active(Batch) => cursor < Len(log) /\ job[Batch].msg = log[cursor + 1]
    /\ At(Batch, "advance") => Settled(job[Batch].msg)
EventsSaySomething ==
    \A j \in Jobs : job[j].pc \in {"correlate", "persist"} => job[j].row.state # "none"

\* The inductive invariant behind NothingPassedOver.
PlaceInv == TypeOK /\ BatchInPlace /\ EventsSaySomething /\ NothingPassedOver

\* An event that says published is written behind the row of the messages table.
Correlated(r) == r.state = "published" /\ r.action # "unfollow" => r.uri \in messages
RowsCorrelated == \A m \in 1..MaxMsgs : Correlated(rows[m])
JobsCorrelated == \A j \in Jobs : At(j, "persist") => Correlated(job[j].row)

\* The inductive invariant behind CorrelatedFirst.
CorrelateInv == TypeOK /\ RowsCorrelated /\ JobsCorrelated

\* Two jobs handle one message only if that is known to be dangerous.
HandledAlone ==
    \A i, j \in Jobs :
        i # j /\ Active(i) /\ Active(j) /\ job[i].msg = job[j].msg => job[i].msg \in excused
Created(m) == \E r \in 1..Len(remote) : remote[r].msg = m
Recording(j, m) ==
    job[j].msg = m /\ job[j].pc \in {"correlate", "persist"} /\ job[j].row.state = "published"
\* A message that has a record has the event, or a job on its way to write it,
CreatedIsRecorded ==
    \A m \in 1..MaxMsgs : Created(m) /\ m \notin excused =>
        rows[m].state = "published" \/ \E j \in Jobs : Recording(j, m)
\* a job that may create a record, or writes that there is none, handles a message that
\* has none,
BeforeCreation(j) ==
    \/ job[j].pc \in {"reset", "build", "session"}
    \/ At(j, "persist") /\ job[j].row.state # "published"
CreatesFirst ==
    \A j \in Jobs : BeforeCreation(j) /\ job[j].msg \notin excused => ~Created(job[j].msg)
CorrelatesPublished == \A j \in Jobs : At(j, "correlate") => job[j].row.state = "published"
\* and no message has two.
OneRecord ==
    \A q, r \in 1..Len(remote) :
        q # r /\ remote[q].msg = remote[r].msg => remote[q].msg \in excused

\* The inductive invariant behind PublishedOnce.
OnceInv ==
    /\ TypeOK /\ HandledAlone /\ CreatedIsRecorded /\ CreatesFirst /\ OneRecord
    /\ CorrelatesPublished

-----------------------------------------------------------------------------
(* The jobs                                                                  *)

JobOf(pc, m, row) == [pc |-> pc, msg |-> m, row |-> row]
\* Job j comes to be c, and no other changes.
Moved(j, c) ==
    /\ job' = [i \in Jobs |-> job'[i]]
    /\ job'[j] = c
    /\ \A i \in Jobs : i # j => job'[i] = job[i]

\* Go, Record and Start move one job.
LEMMA GoMoves ==
    ASSUME TypeOK, NEW j \in Jobs, NEW pc, Go(j, pc)
    PROVE  Moved(j, JobOf(pc, job[j].msg, job[j].row))
<1>1. PICK p, m, r : job[j] = [pc |-> p, msg |-> m, row |-> r]
    BY DEF TypeOK, IsJob
<1>2. job'[j] = [job[j] EXCEPT !.pc = pc]
    BY DEF Go, TypeOK
<1>3. job'[j] = JobOf(pc, job[j].msg, job[j].row)
    BY <1>1, <1>2 DEF JobOf
<1>4. job' = [i \in Jobs |-> job'[i]] /\ \A i \in Jobs : i # j => job'[i] = job[i]
    BY DEF TypeOK, Go
<1> QED
    BY <1>3, <1>4 DEF Moved

\* Record sets the step and the event.
LEMMA RecordMoves ==
    ASSUME TypeOK, NEW j \in Jobs, NEW pc, NEW row, Record(j, pc, row)
    PROVE  Moved(j, JobOf(pc, job[j].msg, row))
<1>1. PICK p, m, r : job[j] = [pc |-> p, msg |-> m, row |-> r]
    BY DEF TypeOK, IsJob
<1>2. job'[j] = [[job[j] EXCEPT !.pc = pc] EXCEPT !.row = row]
    BY DEF Record, TypeOK
<1>3. [[job[j] EXCEPT !.pc = pc] EXCEPT !.row = row] = [pc |-> pc, msg |-> m, row |-> row]
  <2>1. [job[j] EXCEPT !.pc = pc] = [pc |-> pc, msg |-> m, row |-> r]
    BY <1>1
  <2>2. [[pc |-> pc, msg |-> m, row |-> r] EXCEPT !.row = row] = [pc |-> pc, msg |-> m, row |-> row]
    OBVIOUS
  <2> QED
    BY <2>1, <2>2
<1>4. m = job[j].msg
    BY <1>1
<1>5. job' = [i \in Jobs |-> job'[i]] /\ \A i \in Jobs : i # j => job'[i] = job[i]
    BY DEF TypeOK, Record
<1> QED
    BY <1>2, <1>3, <1>4, <1>5 DEF Moved, JobOf

\* Start gives a job a message and no event yet.
LEMMA StartMoves ==
    ASSUME TypeOK, NEW j \in Jobs, NEW m, NEW pc, Start(j, m, pc)
    PROVE  Moved(j, JobOf(pc, m, NoRow))
    BY DEF TypeOK, IsJob, Start, Moved, JobOf

\* The absent row has the form of a row.
LEMMA NoRowIsRow == IsRow(NoRow)
    BY DEF IsRow, NoRow, States

\* A row whose state changes is a row.
LEMMA RowExcept ==
    ASSUME NEW r, IsRow(r), NEW s \in States
    PROVE  /\ IsRow([r EXCEPT !.state = s])
           /\ [r EXCEPT !.state = s] = [state |-> s, action |-> r.action, uri |-> r.uri]
<1> DEFINE x == [state |-> s, action |-> r.action, uri |-> r.uri]
<1>1. [r EXCEPT !.state = s] = x
    BY DEF IsRow
<1>2. IsRow(x)
    BY DEF IsRow
<1> QED
    BY <1>1, <1>2

\* The event that BuildReverseEvent makes: pending, or already decided, for a kind.
LEMMA EventForm ==
    ASSUME NEW m
    PROVE  /\ IsRow(BuildReverseEvent(m))
           /\ BuildReverseEvent(m).state \in {"pending", "skipped", "deferred"}
<1> DEFINE u == GetLatestPublishedReverseFollow
           r == Resolved(m, feed[m])
<1>1. \E s \in {"pending", "skipped", "deferred"}, v \in {0, u} :
          BuildReverseEvent(m) = [state |-> s, action |-> feed[m], uri |-> v]
  <2> HIDE DEF u, r
  <2> QED
    BY DEF BuildReverseEvent, BaseReverseEvent, u, r
<1>2. PICK s \in {"pending", "skipped", "deferred"}, v \in {0, u} :
          BuildReverseEvent(m) = [state |-> s, action |-> feed[m], uri |-> v]
    BY <1>1
<1> QED
    BY <1>2 DEF IsRow, States

\* Where a handling goes that is over, and one that returns an error.
Over(j) == IF j = Batch THEN "advance" ELSE "done"
Error(j) == IF j = Batch THEN "idle" ELSE "done"
Row(s, r) == [state |-> s, action |-> r.action, uri |-> r.uri]

\* What each step of a job does to the job.
LEMMA CheckOutcome ==
    ASSUME TypeOK, NEW j \in Jobs, CheckExisting(j)
    PROVE  /\ At(j, "check")
           /\ \/ /\ rows[job[j].msg].state \in {"none", "pending"}
                 /\ Moved(j, JobOf("build", job[j].msg, job[j].row))
              \/ /\ rows[job[j].msg].state \notin {"none", "pending"}
                 /\ Moved(j, JobOf(Over(j), job[j].msg, job[j].row))
    BY GoMoves DEF CheckExisting, Return, Over

\* buildReverseEvent: let pass, refused, decided without publishing, or to be published.
LEMMA BuildOutcome ==
    ASSUME TypeOK, NEW j \in Jobs, Build(j)
    PROVE  /\ At(j, "build")
           /\ \/ /\ Moved(j, JobOf(Over(j), job[j].msg, job[j].row))
                 /\ ignored' = ignored \cup {job[j].msg}
              \/ /\ Moved(j, JobOf(Error(j), job[j].msg, job[j].row))
                 /\ ignored' = ignored
              \/ /\ ignored' = ignored
                 /\ \E row : /\ IsRow(row)
                             /\ \/ Moved(j, JobOf("session", job[j].msg, row))
                                \/ /\ row.state \in {"skipped", "deferred"}
                                   /\ Moved(j, JobOf("persist", job[j].msg, row))
<1> DEFINE e == BuildReverseEvent(job[j].msg)
<1>0. At(j, "build")
    BY DEF Build
<1>a. IsRow(e) /\ e.state \in {"pending", "skipped", "deferred"}
    BY EventForm
<1> HIDE DEF e
<1>1. CASE Return(j) /\ ignored' = ignored \cup {job[j].msg}
    BY <1>0, <1>1, GoMoves DEF Return, Over
<1>2. CASE ReturnError(j) /\ ignored' = ignored
    BY <1>0, <1>2, GoMoves DEF ReturnError, Error
<1>3. CASE Record(j, "session", e) /\ ignored' = ignored
    BY <1>0, <1>a, <1>3, RecordMoves
<1>4. CASE e.state # "pending" /\ Record(j, "persist", e) /\ ignored' = ignored
    BY <1>0, <1>a, <1>4, RecordMoves
<1>5. CASE Record(j, "persist", [e EXCEPT !.state = "deferred"]) /\ ignored' = ignored
  <2> DEFINE d == [e EXCEPT !.state = "deferred"]
  <2>1. IsRow(d) /\ d.state = "deferred"
    <3>1. d = [state |-> "deferred", action |-> e.action, uri |-> e.uri] /\ IsRow(d)
      BY <1>a, RowExcept DEF States
    <3> QED
      BY <3>1
  <2> HIDE DEF d
  <2>2. Moved(j, JobOf("persist", job[j].msg, d))
    BY <1>5, RecordMoves DEF d
  <2> QED
    BY <1>0, <1>5, <2>1, <2>2
<1> QED
    BY <1>1, <1>2, <1>3, <1>4, <1>5 DEF Build, e

\* A job that changes the state of its event.
LEMMA RestateMoves ==
    ASSUME TypeOK, NEW j \in Jobs, NEW pc, NEW s \in States,
           Record(j, pc, [job[j].row EXCEPT !.state = s])
    PROVE  Moved(j, JobOf(pc, job[j].msg, Row(s, job[j].row))) /\ IsRow(Row(s, job[j].row))
<1>1. IsRow(job[j].row)
    BY DEF TypeOK, IsJob
<1>2. [job[j].row EXCEPT !.state = s] = Row(s, job[j].row) /\ IsRow(Row(s, job[j].row))
    BY <1>1, RowExcept DEF Row
<1> QED
    BY <1>2, RecordMoves

\* A failure before the record is written.
LEMMA SessionFailsOutcome ==
    ASSUME TypeOK, NEW j \in Jobs, SessionFails(j)
    PROVE  /\ At(j, "session")
           /\ \E s \in {"failed", "deferred"} :
                 /\ Moved(j, JobOf("persist", job[j].msg, Row(s, job[j].row)))
                 /\ IsRow(Row(s, job[j].row))
<1>1. \E s \in {"failed", "deferred"} : Record(j, "persist", [job[j].row EXCEPT !.state = s])
    BY DEF SessionFails, EnrichReversePostRecord
<1> QED
    BY <1>1, RestateMoves DEF States, SessionFails

\* A record whose answer is lost.
LEMMA AnswerLostOutcome ==
    ASSUME TypeOK, NEW j \in Jobs, AnswerLost(j)
    PROVE  /\ At(j, "session")
           /\ Moved(j, JobOf("persist", job[j].msg, Row("failed", job[j].row)))
           /\ IsRow(Row("failed", job[j].row))
    BY RestateMoves DEF States, AnswerLost

\* The deletion of a follow.
LEMMA DeleteOutcome ==
    ASSUME TypeOK, NEW j \in Jobs, DeleteRecord(j)
    PROVE  /\ At(j, "session") /\ job[j].row.action = "unfollow"
           /\ Moved(j, JobOf("persist", job[j].msg, Row("published", job[j].row)))
           /\ IsRow(Row("published", job[j].row))
    BY RestateMoves DEF States, DeleteRecord

\* The creation of a record.
LEMMA CreateOutcome ==
    ASSUME TypeOK, NEW j \in Jobs, CreateRecord(j)
    PROVE  /\ At(j, "session")
           /\ \E row : /\ IsRow(row) /\ row.state = "published"
                       /\ Moved(j, JobOf("correlate", job[j].msg, row))
<1> DEFINE r == [job[j].row EXCEPT !.state = "published", !.uri = Len(remote) + 1]
<1>a. IsRow(job[j].row)
    BY DEF TypeOK, IsJob
<1>0. PICK s, a, u : job[j].row = [state |-> s, action |-> a, uri |-> u]
    BY <1>a DEF IsRow
<1>1. r = [state |-> "published", action |-> a, uri |-> Len(remote) + 1]
  <2>1. r = [[job[j].row EXCEPT !.state = "published"] EXCEPT !.uri = Len(remote) + 1]
    OBVIOUS
  <2>2. [job[j].row EXCEPT !.state = "published"] = [state |-> "published", action |-> a, uri |-> u]
    BY <1>0
  <2>3. [[state |-> "published", action |-> a, uri |-> u] EXCEPT !.uri = Len(remote) + 1]
        = [state |-> "published", action |-> a, uri |-> Len(remote) + 1]
    OBVIOUS
  <2> HIDE DEF r
  <2> QED
    BY <2>1, <2>2, <2>3
<1>2. At(j, "session") /\ Record(j, "correlate", r)
    BY DEF CreateRecord
<1> HIDE DEF r
<1>3. IsRow(r) /\ r.state = "published"
    BY <1>1 DEF IsRow, States
<1> QED
    BY <1>2, <1>3, RecordMoves

\* A failed statement.
LEMMA FailOutcome ==
    ASSUME TypeOK, NEW j \in Jobs, StatementFails(j)
    PROVE  /\ job[j].pc \in {"correlate", "persist", "advance"}
           /\ Moved(j, JobOf(Error(j), job[j].msg, job[j].row))
    BY GoMoves DEF StatementFails, ReturnError, Error

\* The row of the messages table.
LEMMA CorrelateOutcome ==
    ASSUME TypeOK, NEW j \in Jobs, PersistForwardCorrelation(j)
    PROVE  At(j, "correlate") /\ Moved(j, JobOf("persist", job[j].msg, job[j].row))
    BY GoMoves DEF PersistForwardCorrelation

\* The event.
LEMMA PersistOutcome ==
    ASSUME TypeOK, NEW j \in Jobs, PersistReverseEvent(j)
    PROVE  At(j, "persist") /\ Moved(j, JobOf(Over(j), job[j].msg, job[j].row))
    BY GoMoves DEF PersistReverseEvent, Return, Over

\* The reset for a retry.
LEMMA ResetOutcome ==
    ASSUME TypeOK, NEW j \in Jobs, ResetReverseEventForRetry(j)
    PROVE  At(j, "reset") /\ Moved(j, JobOf("build", job[j].msg, job[j].row))
    BY GoMoves DEF ResetReverseEventForRetry

\* The cursor.
LEMMA SaveOutcome ==
    ASSUME TypeOK, SaveCursor
    PROVE  At(Batch, "advance") /\ Moved(Batch, JobOf("idle", job[Batch].msg, job[Batch].row))
    BY GoMoves DEF SaveCursor, Jobs

\* A job that stays with its message, or takes up one, is a job.
LEMMA MovedTypes ==
    ASSUME TypeOK, NEW j \in Jobs, NEW pc \in Off \cup Steps, NEW m, NEW row, IsRow(row),
           pc \in Steps => m \in 1..MaxMsgs, Moved(j, JobOf(pc, m, row))
    PROVE  job' = [i \in Jobs |-> job'[i]] /\ \A i \in Jobs : IsJob(job'[i])
<1>1. IsJob(JobOf(pc, m, row))
    BY DEF IsJob, JobOf
<1>2. job' = [i \in Jobs |-> job'[i]] /\ job'[j] = JobOf(pc, m, row)
      /\ \A i \in Jobs : i # j => job'[i] = job[i]
    BY DEF Moved
<1> QED
    BY <1>1, <1>2 DEF TypeOK

\* Where a job stands.
LEMMA Standing ==
    ASSUME TypeOK, NEW j \in Jobs
    PROVE  /\ IsRow(job[j].row) /\ Over(j) \in Off \cup Steps /\ Error(j) \in Off
           /\ job[j].pc \in Steps => job[j].msg \in 1..MaxMsgs
    BY DEF TypeOK, IsJob, Over, Error, Off, Steps

-----------------------------------------------------------------------------
(* Types                                                                     *)

\* Constants: the bound is a number, and the loop is no request of an operator.
Parameters == MaxMsgs \in Nat /\ Batch \notin Requests

\* The processor starts well formed.
LEMMA TypeInit == Parameters /\ Init => TypeOK
<1> SUFFICES ASSUME Parameters, Init PROVE TypeOK
    OBVIOUS
<1>1. \A m \in 1..MaxMsgs : IsRow(rows[m])
    BY NoRowIsRow DEF Init
<1>2. \A j \in Jobs : IsJob(job[j])
    BY NoRowIsRow DEF Init, IsJob, Off, Steps
<1>3. DOMAIN rows = 1..MaxMsgs /\ rows = [m \in 1..MaxMsgs |-> rows[m]]
      /\ job = [j \in Jobs |-> job[j]]
    BY DEF Init
<1>4. feed \in Seq(Kinds) /\ Len(feed) <= MaxMsgs /\ stored \in 0..Len(feed)
      /\ log \in Seq(1..MaxMsgs) /\ cursor \in Nat
      /\ remote \in Seq([msg : 1..MaxMsgs, live : BOOLEAN])
    BY DEF Init, Parameters
<1> QED
    BY <1>1, <1>2, <1>3, <1>4 DEF TypeOK

Rows == DOMAIN rows = 1..MaxMsgs /\ rows = [m \in 1..MaxMsgs |-> rows[m]]
        /\ \A m \in 1..MaxMsgs : IsRow(rows[m])
Store == /\ feed \in Seq(Kinds) /\ Len(feed) <= MaxMsgs /\ stored \in 0..Len(feed)
         /\ log \in Seq(1..MaxMsgs) /\ cursor \in Nat
Remote == remote \in Seq([msg : 1..MaxMsgs, live : BOOLEAN])
JobsFormed == job = [j \in Jobs |-> job[j]] /\ \A j \in Jobs : IsJob(job[j])

\* The types by the parts of the state.
LEMMA TypeParts == TypeOK <=> Rows /\ Store /\ Remote /\ JobsFormed
    BY DEF TypeOK, Rows, Store, Remote, JobsFormed

\* And behind a step.
LEMMA TypePartsNext == Rows' /\ Store' /\ Remote' /\ JobsFormed' => TypeOK'
    BY DEF TypeOK, Rows, Store, Remote, JobsFormed

\* One row changes.
LEMMA RowsExcept ==
    ASSUME Rows, NEW m \in 1..MaxMsgs, NEW r, IsRow(r), rows' = [rows EXCEPT ![m] = r]
    PROVE  Rows'
    BY DEF Rows

\* Elements of sequences, and sequences with one more.
LEMMA SeqElement ==
    ASSUME NEW S, NEW s \in Seq(S)
    PROVE  /\ Len(s) \in Nat /\ DOMAIN s = 1..Len(s) /\ \A i \in 1..Len(s) : s[i] \in S
           /\ \A x \in S : /\ Append(s, x) \in Seq(S) /\ Len(Append(s, x)) = Len(s) + 1
                           /\ Append(s, x)[Len(s) + 1] = x
                           /\ \A i \in 1..Len(s) : Append(s, x)[i] = s[i]
    OBVIOUS

\* A record is added, or marked deleted.
LEMMA RemoteStep ==
    ASSUME Remote
    PROVE  /\ \A m \in 1..MaxMsgs :
                 Append(remote, [msg |-> m, live |-> TRUE]) \in Seq([msg : 1..MaxMsgs, live : BOOLEAN])
           /\ \A u : /\ [remote EXCEPT ![u].live = FALSE] \in Seq([msg : 1..MaxMsgs, live : BOOLEAN])
                     /\ Len([remote EXCEPT ![u].live = FALSE]) = Len(remote)
                     /\ \A r \in 1..Len(remote) :
                           [remote EXCEPT ![u].live = FALSE][r].msg = remote[r].msg
<1> DEFINE R == [msg : 1..MaxMsgs, live : BOOLEAN]
<1>a. remote \in Seq(R)
    BY DEF Remote
<1>b. \A m \in 1..MaxMsgs : [msg |-> m, live |-> TRUE] \in R
    OBVIOUS
<1>c. \A e \in R : [e EXCEPT !.live = FALSE] \in R /\ [e EXCEPT !.live = FALSE].msg = e.msg
    OBVIOUS
<1> HIDE DEF R
<1>1. \A m \in 1..MaxMsgs : Append(remote, [msg |-> m, live |-> TRUE]) \in Seq(R)
    BY <1>a, <1>b, SeqElement
<1>2. ASSUME NEW u
      PROVE  /\ [remote EXCEPT ![u].live = FALSE] \in Seq(R)
             /\ Len([remote EXCEPT ![u].live = FALSE]) = Len(remote)
             /\ \A r \in 1..Len(remote) : [remote EXCEPT ![u].live = FALSE][r].msg = remote[r].msg
  <2> DEFINE x == [remote EXCEPT ![u].live = FALSE]
             n == Len(remote)
  <2>0. n \in Nat /\ DOMAIN remote = 1..n /\ \A r \in 1..n : remote[r] \in R
    BY <1>a
  <2>1. DOMAIN x = 1..n /\ x = [r \in 1..n |-> x[r]]
    <3>1. DOMAIN x = DOMAIN remote
      OBVIOUS
    <3>2. x = [r \in DOMAIN remote |-> x[r]]
      OBVIOUS
    <3> QED
      BY <2>0, <3>1, <3>2
  <2>2. \A r \in 1..n : x[r] = IF r = u THEN [remote[r] EXCEPT !.live = FALSE] ELSE remote[r]
    BY <2>0
  <2> HIDE DEF n, x
  <2>3. \A r \in 1..n : x[r] \in R /\ x[r].msg = remote[r].msg
    BY <1>c, <2>0, <2>2
  <2>4. x \in [1..n -> R]
    BY <2>1, <2>3
  <2>5. x \in Seq(R) /\ Len(x) = n
    BY <2>0, <2>4
  <2> QED
    BY <2>3, <2>5 DEF n, x
<1> QED
    BY <1>1, <1>2 DEF R

\* The message behind the cursor is one of the feed.
LEMMA NextLogged ==
    ASSUME TypeOK, cursor < Len(log) PROVE log[cursor + 1] \in 1..MaxMsgs
<1>1. log \in Seq(1..MaxMsgs) /\ cursor \in Nat
    BY DEF TypeOK
<1>2. \A i \in 1..Len(log) : log[i] \in 1..MaxMsgs
    BY <1>1, SeqElement
<1>3. cursor + 1 \in 1..Len(log)
    BY <1>1
<1> QED
    BY <1>2, <1>3

\* The steps of a job keep the types, and are steps of a job on its way.
LEMMA JobTypes ==
    ASSUME TypeOK, NEW j \in Jobs,
           JobStep(j) \/ AnswerLost(j) \/ StatementFails(j) \/ ResetReverseEventForRetry(j)
    PROVE  TypeOK' /\ Active(j)
<1> USE DEF Active
<1>a. Rows /\ Store /\ Remote /\ JobsFormed
    BY TypeParts
<1>b. {"check", "reset", "build", "session", "correlate", "persist", "advance"} \subseteq Steps
    BY DEF Steps
<1>c. ASSUME NEW pc \in Off \cup Steps, NEW row, IsRow(row), Active(j),
             Moved(j, JobOf(pc, job[j].msg, row))
      PROVE  JobsFormed'
    BY <1>c, MovedTypes, Standing DEF JobsFormed
<1>d. Store'
  <2>1. UNCHANGED << storeVars, cursor >>
    BY DEF JobStep, AnswerLost, StatementFails, ResetReverseEventForRetry, CheckExisting, Build,
           SessionFails, CreateRecord, DeleteRecord, PersistForwardCorrelation, PersistReverseEvent
  <2> QED
    BY <1>a, <2>1 DEF Store, storeVars
<1>1. CASE CheckExisting(j)
  <2>1. JobsFormed' /\ Active(j)
    BY <1>1, <1>b, <1>c, CheckOutcome, Standing DEF At
  <2>2. Rows' /\ Remote'
    BY <1>1, <1>a DEF CheckExisting, Rows, Remote
  <2> QED
    BY <1>d, <2>1, <2>2, TypePartsNext
<1>2. CASE Build(j)
  <2>1. JobsFormed' /\ Active(j)
    BY <1>2, <1>b, <1>c, BuildOutcome, Standing DEF At
  <2>2. Rows' /\ Remote'
    BY <1>2, <1>a DEF Build, Rows, Remote
  <2> QED
    BY <1>d, <2>1, <2>2, TypePartsNext
<1>3. CASE SessionFails(j)
  <2>1. JobsFormed' /\ Active(j)
    BY <1>3, <1>b, <1>c, SessionFailsOutcome, Standing DEF At
  <2>2. Rows' /\ Remote'
    BY <1>3, <1>a DEF SessionFails, Rows, Remote
  <2> QED
    BY <1>d, <2>1, <2>2, TypePartsNext
<1>4. CASE AnswerLost(j)
  <2>1. JobsFormed' /\ Active(j)
    BY <1>4, <1>b, <1>c, AnswerLostOutcome, Standing DEF At
  <2>2. Rows' /\ Remote'
    <3>1. job[j].msg \in 1..MaxMsgs
      BY <2>1, Standing
    <3> QED
      BY <1>4, <1>a, <3>1, RemoteStep DEF AnswerLost, Rows, Remote
  <2> QED
    BY <1>d, <2>1, <2>2, TypePartsNext
<1>5. CASE CreateRecord(j)
  <2>1. JobsFormed' /\ Active(j)
    BY <1>5, <1>b, <1>c, CreateOutcome, Standing DEF At
  <2>2. Rows' /\ Remote'
    <3>1. job[j].msg \in 1..MaxMsgs
      BY <2>1, Standing
    <3> QED
      BY <1>5, <1>a, <3>1, RemoteStep DEF CreateRecord, Rows, Remote
  <2> QED
    BY <1>d, <2>1, <2>2, TypePartsNext
<1>6. CASE DeleteRecord(j)
  <2>1. JobsFormed' /\ Active(j)
    BY <1>6, <1>b, <1>c, DeleteOutcome, Standing DEF At
  <2>2. Rows' /\ Remote'
    <3>1. job[j].msg \in 1..MaxMsgs
      BY <2>1, Standing
    <3> QED
      BY <1>6, <1>a, <3>1, RemoteStep DEF DeleteRecord, Rows, Remote
  <2> QED
    BY <1>d, <2>1, <2>2, TypePartsNext
<1>7. CASE StatementFails(j)
  <2>1. JobsFormed' /\ Active(j)
    BY <1>7, <1>b, <1>c, FailOutcome, Standing DEF At
  <2>2. Rows' /\ Remote'
    BY <1>7, <1>a DEF StatementFails, Rows, Remote
  <2> QED
    BY <1>d, <2>1, <2>2, TypePartsNext
<1>8. CASE PersistForwardCorrelation(j)
  <2>1. JobsFormed' /\ Active(j)
    BY <1>8, <1>b, <1>c, CorrelateOutcome, Standing DEF At
  <2>2. Rows' /\ Remote'
    BY <1>8, <1>a DEF PersistForwardCorrelation, Rows, Remote
  <2> QED
    BY <1>d, <2>1, <2>2, TypePartsNext
<1>9. CASE PersistReverseEvent(j)
  <2>1. JobsFormed' /\ Active(j)
    BY <1>9, <1>b, <1>c, PersistOutcome, Standing DEF At
  <2>2. Rows' /\ Remote'
    <3>1. job[j].msg \in 1..MaxMsgs
      BY <2>1, Standing
    <3>2. Rows'
      BY <1>9, <1>a, <3>1, RowsExcept, Standing DEF PersistReverseEvent
    <3> QED
      BY <1>9, <1>a, <3>2 DEF PersistReverseEvent, Remote
  <2> QED
    BY <1>d, <2>1, <2>2, TypePartsNext
<1>10. CASE ResetReverseEventForRetry(j)
  <2>1. JobsFormed' /\ Active(j)
    BY <1>10, <1>b, <1>c, ResetOutcome, Standing DEF At
  <2>2. Rows' /\ Remote'
    <3>1. job[j].msg \in 1..MaxMsgs
      BY <2>1, Standing
    <3>2. Rows'
      <4>1. IsRow(rows[job[j].msg])
        BY <1>a, <3>1 DEF Rows
      <4>2. IsRow([rows[job[j].msg] EXCEPT !.state = "pending"])
        BY <4>1, RowExcept DEF States
      <4>3. rows' = [rows EXCEPT ![job[j].msg] = [rows[job[j].msg] EXCEPT !.state = "pending"]]
        BY <1>10 DEF ResetReverseEventForRetry
      <4> QED
        BY <1>a, <3>1, <4>2, <4>3, RowsExcept
    <3> QED
      BY <1>10, <1>a, <3>2 DEF ResetReverseEventForRetry, Remote
  <2> QED
    BY <1>d, <2>1, <2>2, TypePartsNext
<1> QED
    BY <1>1, <1>2, <1>3, <1>4, <1>5, <1>6, <1>7, <1>8, <1>9, <1>10 DEF JobStep

\* A crash ends every job that was on its way.
LEMMA CrashJobs ==
    ASSUME TypeOK, Crash
    PROVE  /\ \A j \in Jobs : IsJob(job'[j])
           /\ \A j \in Jobs : job'[j].pc \in Off
<1>1. job' = [j \in Jobs |->
                 IF j = Batch THEN [pc |-> "idle", msg |-> 0, row |-> NoRow]
                 ELSE IF At(j, "new") THEN job[j] ELSE [job[j] EXCEPT !.pc = "done"]]
    BY DEF Crash
<1>2. ASSUME NEW j \in Jobs
      PROVE  job'[j].pc \in Off /\ IsJob(job'[j])
  <2>1. IsJob(job[j])
    BY DEF TypeOK
  <2>2. CASE j = Batch
    BY <1>1, <2>2, NoRowIsRow DEF IsJob, Off, Steps
  <2>3. CASE j # Batch /\ At(j, "new")
    BY <1>1, <2>1, <2>3 DEF At, Off
  <2>4. CASE j # Batch /\ ~At(j, "new")
    <3>1. job'[j] = [pc |-> "done", msg |-> job[j].msg, row |-> job[j].row]
      BY <1>1, <2>1, <2>4 DEF IsJob
    <3> QED
      BY <2>1, <3>1 DEF IsJob, Off, Steps
  <2> QED
    BY <2>2, <2>3, <2>4
<1> QED
    BY <1>1, <1>2

\* Every step keeps the types.
LEMMA TypeStep ==
    ASSUME Parameters, TypeOK, [Next]_vars PROVE TypeOK'
<1>a. Rows /\ Store /\ Remote /\ JobsFormed
    BY TypeParts
<1>b. ASSUME UNCHANGED << rows, remote, job >>, Store' PROVE TypeOK'
    BY <1>a, <1>b, TypePartsNext DEF Rows, Remote, JobsFormed
<1>1. ASSUME NEW k \in Kinds, Write(k) PROVE TypeOK'
  <2>1. Store'
    BY <1>1, <1>a DEF Write, Store, Parameters
  <2> QED
    BY <1>1, <1>b, <2>1 DEF Write
<1>2. CASE StreamFeed
  <2>1. Store'
    BY <1>2, <1>a DEF StreamFeed, Store
  <2> QED
    BY <1>2, <1>b, <2>1 DEF StreamFeed
<1>3. CASE IngestHistoryFrame
  <2>1. Store'
    <3>1. stored + 1 \in 1..MaxMsgs /\ stored + 1 \in 0..Len(feed)
      BY <1>3, <1>a DEF IngestHistoryFrame, Store, Parameters
    <3>2. log' = log \/ log' = Append(log, stored + 1)
      BY <1>3 DEF IngestHistoryFrame
    <3>3. log' \in Seq(1..MaxMsgs)
      <4>1. log \in Seq(1..MaxMsgs)
        BY <1>a DEF Store
      <4>2. Append(log, stored + 1) \in Seq(1..MaxMsgs)
        BY <3>1, <4>1, SeqElement
      <4> QED
        BY <3>2, <4>1, <4>2
    <3> QED
      BY <1>3, <1>a, <3>1, <3>3 DEF IngestHistoryFrame, Store
  <2> QED
    BY <1>3, <1>b, <2>1 DEF IngestHistoryFrame
<1>4. ASSUME NEW n, Set(n) PROVE TypeOK'
    BY <1>4, <1>a, <1>b DEF Set, Store, storeVars
<1>5. CASE WorldChanges
    BY <1>5, <1>a, <1>b DEF WorldChanges, Store, storeVars
<1>6. CASE ProcessBatch
  <2>1. log[cursor + 1] \in 1..MaxMsgs
    BY <1>6, NextLogged DEF ProcessBatch
  <2>2. Moved(Batch, JobOf("check", log[cursor + 1], NoRow))
    BY <1>6, StartMoves DEF ProcessBatch, Jobs
  <2>3. JobsFormed'
    BY <2>1, <2>2, MovedTypes, NoRowIsRow DEF Steps, Jobs, JobsFormed
  <2> QED
    BY <1>6, <1>a, <2>3, TypePartsNext DEF ProcessBatch, Rows, Remote, Store, storeVars
<1>7. CASE SaveCursor
  <2>1. JobsFormed'
    BY <1>7, SaveOutcome, MovedTypes, Standing DEF Off, Steps, Jobs, JobsFormed
  <2> QED
    BY <1>7, <1>a, <2>1, TypePartsNext DEF SaveCursor, Rows, Remote, Store, storeVars
<1>8. ASSUME NEW j \in Jobs,
             JobStep(j) \/ AnswerLost(j) \/ StatementFails(j) \/ ResetReverseEventForRetry(j)
      PROVE  TypeOK'
    BY <1>8, JobTypes
<1>9. ASSUME NEW j \in Requests, NEW m \in 1..Len(feed), RetryEvent(j, m) PROVE TypeOK'
  <2>1. m \in 1..MaxMsgs
    BY <1>a DEF Store, Parameters
  <2>2. j \in Jobs
    BY DEF Jobs
  <2>3. Moved(j, JobOf("reset", m, NoRow))
    BY <1>9, <2>2, StartMoves DEF RetryEvent
  <2>4. JobsFormed'
    BY <2>1, <2>2, <2>3, MovedTypes, NoRowIsRow DEF Steps, JobsFormed
  <2> QED
    BY <1>9, <1>a, <2>4, TypePartsNext DEF RetryEvent, Rows, Remote, Store, storeVars
<1>10. CASE Crash
  <2>1. JobsFormed'
    <3>1. job' = [j \in Jobs |-> job'[j]]
      BY <1>10 DEF Crash
    <3>2. \A j \in Jobs : IsJob(job'[j])
      BY <1>10, CrashJobs
    <3> QED
      BY <3>1, <3>2 DEF JobsFormed
  <2> QED
    BY <1>10, <1>a, <2>1, TypePartsNext DEF Crash, Rows, Remote, Store
<1>11. CASE UNCHANGED vars
    BY <1>11, <1>a, <1>b DEF vars, Store, storeVars
<1> QED
    BY <1>1, <1>2, <1>3, <1>4, <1>5, <1>6, <1>7, <1>8, <1>9, <1>10, <1>11
    DEF Next, HandleReverseMappingUpsert, HandleReverseMappingRemove

\* The state that the statements work on is well formed.
THEOREM TypeCorrect == ASSUME Parameters PROVE Spec => []TypeOK
<1>1. Init => TypeOK
    BY TypeInit
<1>2. TypeOK /\ [Next]_vars => TypeOK'
    BY TypeStep
<1> QED
    BY <1>1, <1>2, PTL DEF Spec

-----------------------------------------------------------------------------
(* The cursor                                                                *)

\* A job that goes on with its message, when what was settled stays so.
LEMMA PlaceMove ==
    ASSUME PlaceInv, TypeOK', NEW j \in Jobs, Active(j), NEW pc, NEW m, m = job[j].msg, NEW row,
           Moved(j, JobOf(pc, m, row)),
           pc \in {"correlate", "persist"} => row.state # "none",
           pc = "advance" => Settled(m)',
           \A n \in 1..MaxMsgs : Settled(n) => Settled(n)', UNCHANGED << log, cursor >>
    PROVE  PlaceInv'
<1> USE DEF PlaceInv
<1>1. job'[j].pc = pc /\ job'[j].msg = m /\ job'[j].row = row
      /\ \A i \in Jobs : i # j => job'[i] = job[i]
    BY DEF Moved, JobOf
<1>2. EventsSaySomething'
    BY <1>1 DEF EventsSaySomething
<1>a. Batch \in Jobs
    BY DEF Jobs
<1>3. BatchInPlace'
  <2>1. CASE j = Batch
    BY <1>1, <2>1 DEF BatchInPlace, Active, At, Steps
  <2>2. CASE j # Batch
    <3>1. job'[Batch] = job[Batch]
      BY <1>1, <1>a, <2>2
    <3>2. Active(Batch) => job[Batch].msg \in 1..MaxMsgs
      BY <1>a, Standing DEF Active
    <3>3. At(Batch, "advance") => Settled(job[Batch].msg) /\ Active(Batch)
      BY DEF BatchInPlace, At, Active, Steps
    <3>4. ASSUME At(Batch, "advance") PROVE Settled(job[Batch].msg)'
      <4>1. PICK n : n = job[Batch].msg
        OBVIOUS
      <4>2. Settled(n)'
        BY <3>2, <3>3, <3>4, <4>1
      <4> QED
        BY <3>1, <4>1, <4>2 DEF Settled
    <3> QED
      BY <3>1, <3>4 DEF BatchInPlace, Active, At
  <2> QED
    BY <2>1, <2>2
<1>4. NothingPassedOver'
  <2> SUFFICES ASSUME NEW i \in 1..cursor PROVE Settled(log[i])'
    BY DEF NothingPassedOver, Settled
  <2>1. PICK n : n = log[i]
    OBVIOUS
  <2>2. n \in 1..MaxMsgs
    <3>1. log \in Seq(1..MaxMsgs) /\ cursor \in Nat /\ cursor <= Len(log)
      BY DEF TypeOK, BatchInPlace
    <3>2. i \in 1..Len(log)
      BY <3>1, SeqElement
    <3> QED
      BY <2>1, <3>1, <3>2, SeqElement
  <2>3. Settled(n)
    BY <2>1 DEF NothingPassedOver, Settled
  <2>4. Settled(n)'
    BY <2>2, <2>3
  <2> QED
    BY <2>1, <2>4 DEF Settled
<1> QED
    BY <1>2, <1>3, <1>4

\* A job's events: nothing is settled by forgetting.
LEMMA PlaceJob ==
    ASSUME PlaceInv, NEW j \in Jobs,
           JobStep(j) \/ AnswerLost(j) \/ StatementFails(j) \/ ResetReverseEventForRetry(j)
    PROVE  PlaceInv'
<1> USE DEF PlaceInv
<1>0. PICK m : m = job[j].msg
    OBVIOUS
<1>a. TypeOK' /\ Active(j)
    BY JobTypes
<1>b. m \in 1..MaxMsgs /\ IsRow(job[j].row)
    BY <1>0, <1>a, Standing DEF Active
<1>c. UNCHANGED << log, cursor >>
    BY DEF JobStep, AnswerLost, StatementFails, ResetReverseEventForRetry, CheckExisting, Build,
           SessionFails, CreateRecord, DeleteRecord, PersistForwardCorrelation,
           PersistReverseEvent, storeVars
<1>d. Over(j) \notin {"correlate", "persist"} /\ Error(j) \notin {"correlate", "persist", "advance"}
    BY DEF Over, Error
<1>e. ASSUME UNCHANGED rows, ignored \subseteq ignored'
      PROVE  \A n \in 1..MaxMsgs : Settled(n) => Settled(n)'
    BY <1>e DEF Settled
<1>1. CASE CheckExisting(j)
  <2>1. UNCHANGED << rows, ignored >>
    BY <1>1 DEF CheckExisting, ghosts
  <2>2. rows[m].state \notin {"none", "pending"} => Settled(m)'
    BY <2>1 DEF Settled
  <2> QED
    BY <1>0, <1>1, <1>a, <1>c, <1>d, <1>e, <2>1, <2>2, CheckOutcome, PlaceMove
<1>2. CASE Build(j)
  <2>1. UNCHANGED rows
    BY <1>2 DEF Build
  <2>2. CASE ignored' = ignored \cup {m} /\ Moved(j, JobOf(Over(j), m, job[j].row))
    <3>1. Settled(m)'
      BY <2>2 DEF Settled
    <3> QED
      BY <1>0, <1>a, <1>c, <1>d, <1>e, <2>1, <2>2, <3>1, PlaceMove
  <2>3. CASE ignored' = ignored /\ Moved(j, JobOf(Error(j), m, job[j].row))
    BY <1>0, <1>a, <1>c, <1>d, <1>e, <2>1, <2>3, PlaceMove
  <2>4. ASSUME ignored' = ignored, NEW row, NEW pc \in {"session", "persist"},
               Moved(j, JobOf(pc, m, row)), pc = "persist" => row.state \in {"skipped", "deferred"}
        PROVE  PlaceInv'
    BY <1>0, <1>a, <1>c, <1>e, <2>1, <2>4, PlaceMove
  <2> QED
    BY <1>0, <1>2, <2>2, <2>3, <2>4, BuildOutcome
<1>3. CASE SessionFails(j) \/ AnswerLost(j) \/ DeleteRecord(j)
  <2>1. UNCHANGED << rows, ignored >>
    BY <1>3 DEF SessionFails, AnswerLost, DeleteRecord, ghosts
  <2>2. PICK s \in {"failed", "deferred", "published"} : Moved(j, JobOf("persist", m, Row(s, job[j].row)))
    BY <1>0, <1>3, SessionFailsOutcome, AnswerLostOutcome, DeleteOutcome
  <2>3. Row(s, job[j].row).state # "none"
    BY DEF Row
  <2> QED
    BY <1>0, <1>a, <1>c, <1>e, <2>1, <2>2, <2>3, PlaceMove
<1>4. CASE CreateRecord(j)
  <2>1. UNCHANGED << rows, ignored >>
    BY <1>4 DEF CreateRecord, ghosts
  <2>2. PICK row : row.state = "published" /\ Moved(j, JobOf("correlate", m, row))
    BY <1>0, <1>4, CreateOutcome
  <2> QED
    BY <1>0, <1>a, <1>c, <1>e, <2>1, <2>2, PlaceMove
<1>5. CASE StatementFails(j)
  <2>1. UNCHANGED << rows, ignored >>
    BY <1>5 DEF StatementFails
  <2> QED
    BY <1>0, <1>5, <1>a, <1>c, <1>d, <1>e, <2>1, FailOutcome, PlaceMove
<1>6. CASE PersistForwardCorrelation(j)
  <2>1. UNCHANGED << rows, ignored >>
    BY <1>6 DEF PersistForwardCorrelation, ghosts
  <2>2. At(j, "correlate") /\ Moved(j, JobOf("persist", m, job[j].row))
    BY <1>0, <1>6, CorrelateOutcome
  <2>3. job[j].row.state # "none"
    BY <2>2 DEF EventsSaySomething, At
  <2> QED
    BY <1>0, <1>a, <1>c, <1>e, <2>1, <2>2, <2>3, PlaceMove
<1>7. CASE PersistReverseEvent(j)
  <2>1. At(j, "persist") /\ Moved(j, JobOf(Over(j), m, job[j].row))
    BY <1>0, <1>7, PersistOutcome
  <2>2. job[j].row.state # "none"
    BY <2>1 DEF EventsSaySomething, At
  <2>3. rows' = [rows EXCEPT ![m] = job[j].row] /\ ignored' = ignored
    BY <1>0, <1>7 DEF PersistReverseEvent, ghosts
  <2>4. rows'[m] = job[j].row /\ \A n \in 1..MaxMsgs : n # m => rows'[n] = rows[n]
    BY <1>b, <2>3 DEF TypeOK
  <2>5. Settled(m)' /\ \A n \in 1..MaxMsgs : Settled(n) => Settled(n)'
    BY <2>2, <2>3, <2>4 DEF Settled
  <2> QED
    BY <1>0, <1>a, <1>c, <1>d, <2>1, <2>5, PlaceMove
<1>8. CASE ResetReverseEventForRetry(j)
  <2>1. Moved(j, JobOf("build", m, job[j].row))
    BY <1>0, <1>8, ResetOutcome
  <2>2. rows' = [rows EXCEPT ![m].state = "pending"] /\ ignored' = ignored
    BY <1>0, <1>8 DEF ResetReverseEventForRetry, ghosts
  <2>3. IsRow(rows[m])
    BY <1>b DEF TypeOK
  <2>4. rows'[m].state = "pending" /\ \A n \in 1..MaxMsgs : n # m => rows'[n] = rows[n]
    BY <1>b, <2>2, <2>3 DEF TypeOK, IsRow
  <2>5. \A n \in 1..MaxMsgs : Settled(n) => Settled(n)'
    BY <2>2, <2>4 DEF Settled
  <2> QED
    BY <1>0, <1>a, <1>c, <2>1, <2>5, PlaceMove
<1> QED
    BY <1>1, <1>2, <1>3, <1>4, <1>5, <1>6, <1>7, <1>8 DEF JobStep

\* What the other steps leave alone.
LEMMA PlaceQuiet ==
    ASSUME PlaceInv, TypeOK', UNCHANGED << log, cursor, rows, ignored, job >>
    PROVE  PlaceInv'
    BY DEF PlaceInv, BatchInPlace, EventsSaySomething, NothingPassedOver, Active, Settled, At

\* Every step keeps the place of the cursor.
LEMMA PlaceStep ==
    ASSUME Parameters, PlaceInv, [Next]_vars PROVE PlaceInv'
<1>0. TypeOK /\ TypeOK'
    BY TypeStep DEF PlaceInv
<1>a. log \in Seq(1..MaxMsgs) /\ Len(log) \in Nat /\ cursor \in Nat /\ cursor <= Len(log)
    BY <1>0, SeqElement DEF PlaceInv, TypeOK, BatchInPlace
<1>b. Batch \in Jobs
    BY DEF Jobs
<1>1. ASSUME NEW k \in Kinds, Write(k) PROVE PlaceInv'
    BY <1>0, <1>1, PlaceQuiet DEF Write, ghosts
<1>2. CASE StreamFeed
    BY <1>0, <1>2, PlaceQuiet DEF StreamFeed, ghosts
<1>3. CASE IngestHistoryFrame
  <2>1. UNCHANGED << cursor, rows, ignored, job >>
    BY <1>3 DEF IngestHistoryFrame, ghosts
  <2>2. Len(log) <= Len(log') /\ Len(log') \in Nat /\ \A i \in 1..Len(log) : log'[i] = log[i]
    <3>1. stored + 1 \in 1..MaxMsgs
      BY <1>0, <1>3 DEF IngestHistoryFrame, TypeOK, Parameters
    <3>2. log' = log \/ log' = Append(log, stored + 1)
      BY <1>3 DEF IngestHistoryFrame
    <3>3. CASE log' = log
      BY <1>a, <3>3
    <3>4. CASE log' = Append(log, stored + 1)
      BY <1>a, <3>1, <3>4, SeqElement
    <3> QED
      BY <3>2, <3>3, <3>4
  <2>3. EventsSaySomething'
    BY <2>1 DEF PlaceInv, EventsSaySomething
  <2>4. BatchInPlace'
    <3>1. Active(Batch) => cursor < Len(log) /\ job[Batch].msg = log[cursor + 1]
      BY DEF PlaceInv, BatchInPlace
    <3>2. cursor < Len(log) => cursor < Len(log') /\ log'[cursor + 1] = log[cursor + 1]
      BY <1>a, <2>2
    <3>3. cursor <= Len(log')
      BY <1>a, <2>2
    <3> QED
      BY <2>1, <3>1, <3>2, <3>3 DEF PlaceInv, BatchInPlace, Active, At, Settled
  <2>5. NothingPassedOver'
    <3>1. \A i \in 1..cursor : log'[i] = log[i]
      BY <1>a, <2>2
    <3> QED
      BY <2>1, <3>1 DEF PlaceInv, NothingPassedOver
  <2> QED
    BY <1>0, <2>3, <2>4, <2>5 DEF PlaceInv
<1>4. ASSUME NEW n, Set(n) PROVE PlaceInv'
    BY <1>0, <1>4, PlaceQuiet DEF Set, storeVars, ghosts
<1>5. CASE WorldChanges
    BY <1>0, <1>5, PlaceQuiet DEF WorldChanges, storeVars, ghosts
<1>6. CASE ProcessBatch
  <2>1. cursor < Len(log) /\ UNCHANGED << log, cursor, rows, ignored >>
    BY <1>6 DEF ProcessBatch, storeVars
  <2>2. Moved(Batch, JobOf("check", log[cursor + 1], NoRow))
    BY <1>0, <1>6, <1>b, StartMoves DEF ProcessBatch
  <2>3. job'[Batch].pc = "check" /\ job'[Batch].msg = log[cursor + 1]
        /\ \A i \in Jobs : i # Batch => job'[i] = job[i]
    BY <2>2 DEF Moved, JobOf
  <2>4. BatchInPlace'
    BY <1>a, <2>1, <2>3 DEF BatchInPlace, At
  <2>5. EventsSaySomething'
    BY <2>3 DEF PlaceInv, EventsSaySomething
  <2>6. NothingPassedOver'
    BY <2>1 DEF PlaceInv, NothingPassedOver
  <2> QED
    BY <1>0, <2>4, <2>5, <2>6 DEF PlaceInv
<1>7. CASE SaveCursor
  <2>1. cursor' = cursor + 1 /\ UNCHANGED << log, rows, ignored >>
    BY <1>7 DEF SaveCursor, storeVars, ghosts
  <2>2. At(Batch, "advance") /\ Moved(Batch, JobOf("idle", job[Batch].msg, job[Batch].row))
    BY <1>0, <1>7, SaveOutcome
  <2>3. job'[Batch].pc = "idle" /\ \A i \in Jobs : i # Batch => job'[i] = job[i]
    BY <2>2 DEF Moved, JobOf
  <2>4. cursor < Len(log) /\ Settled(log[cursor + 1])
    BY <2>2 DEF PlaceInv, BatchInPlace, Active, At, Steps
  <2>5. BatchInPlace'
    BY <1>a, <2>1, <2>3, <2>4 DEF BatchInPlace, Active, At, Steps
  <2>6. EventsSaySomething'
    BY <2>3 DEF PlaceInv, EventsSaySomething
  <2>7. NothingPassedOver'
    <3> SUFFICES ASSUME NEW i \in 1..(cursor + 1) PROVE Settled(log[i])
      BY <2>1 DEF NothingPassedOver, Settled
    <3>1. i \in 1..cursor \/ i = cursor + 1
      BY <1>a
    <3> QED
      BY <2>4, <3>1 DEF PlaceInv, NothingPassedOver, Settled
  <2> QED
    BY <1>0, <2>5, <2>6, <2>7 DEF PlaceInv
<1>8. ASSUME NEW j \in Jobs,
             JobStep(j) \/ AnswerLost(j) \/ StatementFails(j) \/ ResetReverseEventForRetry(j)
      PROVE  PlaceInv'
    BY <1>8, PlaceJob
<1>9. ASSUME NEW j \in Requests, NEW m \in 1..Len(feed), RetryEvent(j, m) PROVE PlaceInv'
  <2>1. j \in Jobs /\ At(j, "new") /\ UNCHANGED << log, cursor, rows, ignored >>
    BY <1>9 DEF RetryEvent, storeVars, Jobs
  <2>2. Moved(j, JobOf("reset", m, NoRow))
    BY <1>0, <1>9, <2>1, StartMoves DEF RetryEvent
  <2>3. job'[j].pc = "reset" /\ \A i \in Jobs : i # j => job'[i] = job[i]
    BY <2>2 DEF Moved, JobOf
  <2>4. j # Batch
    BY DEF Parameters
  <2>5. job'[Batch] = job[Batch]
    BY <1>b, <2>3, <2>4
  <2> QED
    BY <1>0, <2>1, <2>3, <2>5 DEF PlaceInv, BatchInPlace, EventsSaySomething, NothingPassedOver,
                                   Active, At, Settled
<1>10. CASE Crash
  <2>1. UNCHANGED << log, cursor, rows, ignored >>
    BY <1>10 DEF Crash
  <2>2. \A j \in Jobs : job'[j].pc \in Off
    BY <1>0, <1>10, CrashJobs
  <2>3. EventsSaySomething'
    BY <2>2 DEF EventsSaySomething, Off
  <2>4. BatchInPlace'
    BY <1>a, <1>b, <2>1, <2>2 DEF BatchInPlace, Active, At, Off, Steps
  <2>5. NothingPassedOver'
    BY <2>1 DEF PlaceInv, NothingPassedOver
  <2> QED
    BY <1>0, <2>3, <2>4, <2>5 DEF PlaceInv
<1>11. CASE UNCHANGED vars
    BY <1>0, <1>11, PlaceQuiet DEF vars, storeVars, ghosts
<1> QED
    BY <1>1, <1>2, <1>3, <1>4, <1>5, <1>6, <1>7, <1>8, <1>9, <1>10, <1>11
    DEF Next, HandleReverseMappingUpsert, HandleReverseMappingRemove

\* ProcessBatch passes no message: behind the cursor every message has an event or was
\* let pass for its author or its type, whatever fails, crashes or is retried.
THEOREM CursorPassesNothing == ASSUME Parameters PROVE Spec => []NothingPassedOver
<1>1. Init => PlaceInv
  <2> SUFFICES ASSUME Init PROVE PlaceInv
    OBVIOUS
  <2>1. TypeOK
    BY TypeInit
  <2>2. BatchInPlace
    BY DEF Init, BatchInPlace, Active, At, Steps, Jobs
  <2>3. EventsSaySomething
    BY DEF Init, EventsSaySomething
  <2>4. NothingPassedOver
    BY DEF Init, NothingPassedOver
  <2> QED
    BY <2>1, <2>2, <2>3, <2>4 DEF PlaceInv
<1>2. PlaceInv /\ [Next]_vars => PlaceInv'
    BY PlaceStep
<1>3. PlaceInv => NothingPassedOver
    BY DEF PlaceInv
<1> QED
    BY <1>1, <1>2, <1>3, PTL DEF Spec

-----------------------------------------------------------------------------
(* The messages table                                                        *)

\* A job moves, and the rows stay as they are.
LEMMA CorrelateMove ==
    ASSUME CorrelateInv, TypeOK', messages \subseteq messages', NEW j \in Jobs, NEW pc, NEW m, NEW row,
           Moved(j, JobOf(pc, m, row)), pc = "persist" => Correlated(row)',
           \A n \in 1..MaxMsgs : Correlated(rows'[n])
    PROVE  CorrelateInv'
<1> USE DEF CorrelateInv
<1>1. job'[j].pc = pc /\ job'[j].row = row /\ \A i \in Jobs : i # j => job'[i] = job[i]
    BY DEF Moved, JobOf
<1>2. RowsCorrelated'
    BY DEF RowsCorrelated, Correlated
<1>3. JobsCorrelated'
  <2> SUFFICES ASSUME NEW i \in Jobs, At(i, "persist")' PROVE Correlated(job[i].row)'
    BY DEF JobsCorrelated
  <2>1. CASE i = j
    BY <1>1, <2>1 DEF At, Correlated
  <2>2. CASE i # j
    BY <1>1, <2>2 DEF JobsCorrelated, At, Correlated
  <2> QED
    BY <2>1, <2>2
<1> QED
    BY <1>2, <1>3

\* A job writes the event of a record behind its row.
LEMMA CorrelateJob ==
    ASSUME CorrelateInv, NEW j \in Jobs,
           JobStep(j) \/ AnswerLost(j) \/ StatementFails(j) \/ ResetReverseEventForRetry(j)
    PROVE  CorrelateInv'
<1> USE DEF CorrelateInv
<1>0. PICK m, r : m = job[j].msg /\ r = job[j].row
    OBVIOUS
<1>a. TypeOK' /\ Active(j) /\ m \in 1..MaxMsgs /\ IsRow(r)
    BY <1>0, JobTypes, Standing DEF Active
<1>b. messages \subseteq messages'
    BY DEF JobStep, AnswerLost, StatementFails, ResetReverseEventForRetry, CheckExisting, Build,
           SessionFails, CreateRecord, DeleteRecord, PersistForwardCorrelation, PersistReverseEvent
<1>c. Over(j) # "persist" /\ Error(j) # "persist"
    BY DEF Over, Error
<1>d. ASSUME UNCHANGED rows PROVE \A n \in 1..MaxMsgs : Correlated(rows'[n])
    BY <1>d DEF RowsCorrelated
<1>1. CASE CheckExisting(j)
    BY <1>0, <1>1, <1>a, <1>b, <1>c, <1>d, CheckOutcome, CorrelateMove DEF CheckExisting
<1>2. CASE Build(j)
  <2>1. \E pc, row : /\ Moved(j, JobOf(pc, m, row))
                     /\ pc = "persist" => row.state \in {"skipped", "deferred"}
    BY <1>0, <1>2, <1>c, BuildOutcome
  <2>2. PICK pc, row : /\ Moved(j, JobOf(pc, m, row))
                       /\ pc = "persist" => row.state \in {"skipped", "deferred"}
    BY <2>1
  <2>3. pc = "persist" => Correlated(row)'
    BY <2>2 DEF Correlated
  <2> QED
    BY <1>2, <1>a, <1>b, <1>d, <2>2, <2>3, CorrelateMove DEF Build
<1>3. CASE SessionFails(j) \/ AnswerLost(j) \/ DeleteRecord(j)
  <2>1. PICK s \in {"failed", "deferred", "published"} :
            Moved(j, JobOf("persist", m, Row(s, r))) /\ (s = "published" => r.action = "unfollow")
    BY <1>0, <1>3, SessionFailsOutcome, AnswerLostOutcome, DeleteOutcome
  <2>2. Correlated(Row(s, r))'
    BY <2>1 DEF Correlated, Row
  <2>3. UNCHANGED rows
    BY <1>3 DEF SessionFails, AnswerLost, DeleteRecord
  <2> QED
    BY <1>a, <1>b, <1>d, <2>1, <2>2, <2>3, CorrelateMove
<1>4. CASE CreateRecord(j)
    BY <1>0, <1>4, <1>a, <1>b, <1>d, CreateOutcome, CorrelateMove DEF CreateRecord
<1>5. CASE StatementFails(j)
    BY <1>0, <1>5, <1>a, <1>b, <1>c, <1>d, FailOutcome, CorrelateMove DEF StatementFails
<1>6. CASE PersistForwardCorrelation(j)
  <2>1. Moved(j, JobOf("persist", m, r)) /\ r.uri \in messages' /\ UNCHANGED rows
    BY <1>0, <1>6, CorrelateOutcome DEF PersistForwardCorrelation
  <2>2. Correlated(r)'
    BY <2>1 DEF Correlated
  <2> QED
    BY <1>a, <1>b, <1>d, <2>1, <2>2, CorrelateMove
<1>7. CASE PersistReverseEvent(j)
  <2>1. At(j, "persist") /\ Moved(j, JobOf(Over(j), m, r))
    BY <1>0, <1>7, PersistOutcome
  <2>2. Correlated(r)
    BY <1>0, <2>1 DEF JobsCorrelated
  <2>3. rows' = [rows EXCEPT ![m] = r]
    BY <1>0, <1>7 DEF PersistReverseEvent
  <2>4. \A n \in 1..MaxMsgs : rows'[n] = rows[n] \/ rows'[n] = r
    BY <2>3 DEF TypeOK
  <2>5. \A n \in 1..MaxMsgs : Correlated(rows'[n])
    BY <2>2, <2>4 DEF RowsCorrelated, Correlated
  <2> QED
    BY <1>a, <1>b, <1>c, <2>1, <2>5, CorrelateMove
<1>8. CASE ResetReverseEventForRetry(j)
  <2>1. Moved(j, JobOf("build", m, r))
    BY <1>0, <1>8, ResetOutcome
  <2>2. rows' = [rows EXCEPT ![m].state = "pending"]
    BY <1>0, <1>8 DEF ResetReverseEventForRetry
  <2>3. IsRow(rows[m])
    BY <1>a DEF TypeOK
  <2>4. \A n \in 1..MaxMsgs : rows'[n] = rows[n] \/ rows'[n].state = "pending"
    BY <2>2, <2>3 DEF TypeOK, IsRow
  <2>5. \A n \in 1..MaxMsgs : Correlated(rows'[n])
    BY <2>4 DEF RowsCorrelated, Correlated
  <2> QED
    BY <1>a, <1>b, <2>1, <2>5, CorrelateMove
<1> QED
    BY <1>1, <1>2, <1>3, <1>4, <1>5, <1>6, <1>7, <1>8 DEF JobStep

\* Every step keeps published events correlated.
LEMMA CorrelateStep ==
    ASSUME Parameters, CorrelateInv, [Next]_vars PROVE CorrelateInv'
<1>0. TypeOK /\ TypeOK'
    BY TypeStep DEF CorrelateInv
<1>a. ASSUME UNCHANGED << rows, messages, job >> PROVE CorrelateInv'
    BY <1>0, <1>a DEF CorrelateInv, RowsCorrelated, JobsCorrelated, Correlated, At
<1>b. ASSUME NEW j \in Jobs, NEW pc, NEW m, NEW row, Moved(j, JobOf(pc, m, row)), pc # "persist",
             UNCHANGED << rows, messages >>
      PROVE  CorrelateInv'
  <2>1. \A n \in 1..MaxMsgs : Correlated(rows'[n])
    BY <1>b DEF CorrelateInv, RowsCorrelated
  <2> QED
    BY <1>0, <1>b, <2>1, CorrelateMove
<1>1. ASSUME NEW k \in Kinds, Write(k) PROVE CorrelateInv'
    BY <1>1, <1>a DEF Write
<1>2. CASE StreamFeed
    BY <1>2, <1>a DEF StreamFeed
<1>3. CASE IngestHistoryFrame
    BY <1>3, <1>a DEF IngestHistoryFrame
<1>4. ASSUME NEW n, Set(n) PROVE CorrelateInv'
    BY <1>4, <1>a DEF Set
<1>5. CASE WorldChanges
    BY <1>5, <1>a DEF WorldChanges
<1>6. CASE ProcessBatch
  <2>1. Moved(Batch, JobOf("check", log[cursor + 1], NoRow)) /\ Batch \in Jobs
    BY <1>0, <1>6, StartMoves DEF ProcessBatch, Jobs
  <2> QED
    BY <1>6, <1>b, <2>1 DEF ProcessBatch
<1>7. CASE SaveCursor
  <2>1. Moved(Batch, JobOf("idle", job[Batch].msg, job[Batch].row)) /\ Batch \in Jobs
    BY <1>0, <1>7, SaveOutcome DEF Jobs
  <2> QED
    BY <1>7, <1>b, <2>1 DEF SaveCursor
<1>8. ASSUME NEW j \in Jobs,
             JobStep(j) \/ AnswerLost(j) \/ StatementFails(j) \/ ResetReverseEventForRetry(j)
      PROVE  CorrelateInv'
    BY <1>8, CorrelateJob
<1>9. ASSUME NEW j \in Requests, NEW m \in 1..Len(feed), RetryEvent(j, m) PROVE CorrelateInv'
  <2>1. j \in Jobs /\ Moved(j, JobOf("reset", m, NoRow))
    BY <1>0, <1>9, StartMoves DEF RetryEvent, Jobs
  <2> QED
    BY <1>9, <1>b, <2>1 DEF RetryEvent
<1>10. CASE Crash
  <2>1. \A j \in Jobs : job'[j].pc \in Off
    BY <1>0, <1>10, CrashJobs
  <2>2. JobsCorrelated'
    BY <2>1 DEF JobsCorrelated, At, Off
  <2>3. RowsCorrelated'
    BY <1>10 DEF Crash, CorrelateInv, RowsCorrelated, Correlated
  <2> QED
    BY <1>0, <2>2, <2>3 DEF CorrelateInv
<1>11. CASE UNCHANGED vars
    BY <1>11, <1>a DEF vars
<1> QED
    BY <1>1, <1>2, <1>3, <1>4, <1>5, <1>6, <1>7, <1>8, <1>9, <1>10, <1>11
    DEF Next, HandleReverseMappingUpsert, HandleReverseMappingRemove

\* An event that says published was written behind the row of the messages table, so a
\* replay of the record is not published back to SSB.
THEOREM RecordsAreCorrelated == ASSUME Parameters PROVE Spec => []CorrelatedFirst
<1>1. Init => CorrelateInv
  <2> SUFFICES ASSUME Init PROVE CorrelateInv
    OBVIOUS
  <2>1. TypeOK
    BY TypeInit
  <2>2. RowsCorrelated
    BY DEF Init, RowsCorrelated, Correlated, NoRow
  <2>3. JobsCorrelated
    BY DEF Init, JobsCorrelated, At
  <2> QED
    BY <2>1, <2>2, <2>3 DEF CorrelateInv
<1>2. CorrelateInv /\ [Next]_vars => CorrelateInv'
    BY CorrelateStep
<1>3. CorrelateInv => CorrelatedFirst
  <2> SUFFICES ASSUME CorrelateInv, NEW m \in 1..Len(feed)
               PROVE  rows[m].state = "published" /\ rows[m].action # "unfollow" => rows[m].uri \in messages
    BY DEF CorrelatedFirst
  <2>1. m \in 1..MaxMsgs
    BY SeqElement DEF CorrelateInv, TypeOK, Parameters
  <2> QED
    BY <2>1 DEF CorrelateInv, RowsCorrelated, Correlated
<1> QED
    BY <1>1, <1>2, <1>3, PTL DEF Spec

-----------------------------------------------------------------------------
(* One record                                                                *)

\* The records are of the same messages as before.
SameRecords ==
    Len(remote') = Len(remote) /\ \A r \in 1..Len(remote) : remote'[r].msg = remote[r].msg
\* What is created from now on, for the message of a job that is at pc with row.
Creating(pc, row) ==
    pc \in {"reset", "build", "session"} \/ (pc = "persist" /\ row.state # "published")

\* The job that handles a message alone is the one that records it.
LEMMA RecordedBy ==
    ASSUME OnceInv, NEW j \in Jobs, Active(j), NEW m \in 1..MaxMsgs, m = job[j].msg,
           Created(m), m \notin excused
    PROVE  rows[m].state = "published" \/ Recording(j, m)
<1>1. CASE rows[m].state = "published"
    BY <1>1
<1>2. ASSUME NEW i \in Jobs, Recording(i, m) PROVE i = j
    BY <1>2 DEF OnceInv, HandledAlone, Recording, Active, Steps
<1> QED
    BY <1>1, <1>2 DEF OnceInv, CreatedIsRecorded

\* A job moves on and creates nothing.
LEMMA OnceMove ==
    ASSUME OnceInv, TypeOK', NEW j \in Jobs, Active(j), NEW m \in 1..MaxMsgs, m = job[j].msg,
           NEW pc, NEW row, Moved(j, JobOf(pc, m, row)), SameRecords, excused \subseteq excused',
           \A n \in 1..MaxMsgs : n # m => rows'[n] = rows[n],
           Created(m) /\ m \notin excused' =>
               rows'[m].state = "published" \/ (pc \in {"correlate", "persist"} /\ row.state = "published"),
           Creating(pc, row) /\ m \notin excused' => ~Created(m),
           pc = "correlate" => row.state = "published"
    PROVE  OnceInv'
<1> USE DEF OnceInv
<1>1. job'[j].pc = pc /\ job'[j].msg = m /\ job'[j].row = row
      /\ \A i \in Jobs : i # j => job'[i] = job[i]
    BY DEF Moved, JobOf
<1>2. \A n : Created(n)' <=> Created(n)
    BY DEF Created, SameRecords
<1>3. HandledAlone'
  <2> SUFFICES ASSUME NEW i \in Jobs, NEW k \in Jobs, i # k, Active(i)', Active(k)',
                      job'[i].msg = job'[k].msg
               PROVE  job'[i].msg \in excused'
    BY DEF HandledAlone
  <2>1. Active(i) /\ Active(k) /\ job'[i].msg = job[i].msg /\ job'[k].msg = job[k].msg
    BY <1>1 DEF Active
  <2> QED
    BY <2>1 DEF HandledAlone
<1>4. CreatedIsRecorded'
  <2> SUFFICES ASSUME NEW n \in 1..MaxMsgs, Created(n)', n \notin excused'
               PROVE  rows'[n].state = "published" \/ \E i \in Jobs : Recording(i, n)'
    BY DEF CreatedIsRecorded
  <2>1. CASE n = m
    <3>1. rows'[m].state = "published" \/ (pc \in {"correlate", "persist"} /\ row.state = "published")
      BY <1>2, <2>1
    <3> QED
      BY <1>1, <2>1, <3>1 DEF Recording
  <2>2. CASE n # m
    <3>1. rows[n].state = "published" \/ \E i \in Jobs : Recording(i, n)
      BY <1>2 DEF CreatedIsRecorded
    <3>2. ASSUME NEW i \in Jobs, Recording(i, n) PROVE Recording(i, n)'
      <4>1. i # j
        BY <2>2, <3>2 DEF Recording
      <4> QED
        BY <1>1, <3>2, <4>1 DEF Recording
    <3> QED
      BY <2>2, <3>1, <3>2
  <2> QED
    BY <2>1, <2>2
<1>5. CreatesFirst'
  <2> SUFFICES ASSUME NEW i \in Jobs, BeforeCreation(i)', job'[i].msg \notin excused'
               PROVE  ~Created(job'[i].msg)
    BY <1>2 DEF CreatesFirst, Created, SameRecords
  <2>1. CASE i = j
    BY <1>1, <2>1 DEF BeforeCreation, Creating, At
  <2>2. CASE i # j
    <3>1. BeforeCreation(i) /\ job'[i].msg = job[i].msg
      BY <1>1, <2>2 DEF BeforeCreation, At
    <3> QED
      BY <3>1 DEF CreatesFirst
  <2> QED
    BY <2>1, <2>2
<1>6. OneRecord'
    BY DEF OneRecord, SameRecords
<1>7. CorrelatesPublished'
    BY <1>1 DEF CorrelatesPublished, At
<1> QED
    BY <1>3, <1>4, <1>5, <1>6, <1>7

\* A record is created.
LEMMA OnceCreate ==
    ASSUME OnceInv, TypeOK', NEW j \in Jobs, At(j, "session"), NEW m \in 1..MaxMsgs, m = job[j].msg,
           NEW pc, NEW row, Moved(j, JobOf(pc, m, row)),
           remote' = Append(remote, [msg |-> m, live |-> TRUE]), rows' = rows,
           excused \subseteq excused', pc = "correlate" => row.state = "published",
           pc = "correlate" \/ m \in excused'
    PROVE  OnceInv'
<1> USE DEF OnceInv
<1>1. job'[j].pc = pc /\ job'[j].msg = m /\ job'[j].row = row
      /\ \A i \in Jobs : i # j => job'[i] = job[i]
    BY DEF Moved, JobOf
<1>a. Active(j) /\ BeforeCreation(j)
    BY DEF Active, At, BeforeCreation, Steps
<1>2. m \notin excused => ~Created(m)
    BY <1>a DEF CreatesFirst
<1>3. /\ Len(remote) \in Nat /\ Len(remote') = Len(remote) + 1 /\ remote'[Len(remote) + 1].msg = m
      /\ \A r \in 1..Len(remote) : remote'[r] = remote[r]
  <2>1. remote \in Seq([msg : 1..MaxMsgs, live : BOOLEAN])
    BY DEF TypeOK
  <2>2. [msg |-> m, live |-> TRUE] \in [msg : 1..MaxMsgs, live : BOOLEAN]
    OBVIOUS
  <2>3. Len(remote) \in Nat /\ Len(remote') = Len(remote) + 1
        /\ remote'[Len(remote) + 1] = [msg |-> m, live |-> TRUE]
        /\ \A r \in 1..Len(remote) : remote'[r] = remote[r]
    BY <2>1, <2>2, SeqElement
  <2> QED
    BY <2>3
<1>4. \A n : n # m => (Created(n)' => Created(n))
    BY <1>3 DEF Created
<1>5. HandledAlone'
  <2> SUFFICES ASSUME NEW i \in Jobs, NEW k \in Jobs, i # k, Active(i)', Active(k)',
                      job'[i].msg = job'[k].msg
               PROVE  job'[i].msg \in excused'
    BY DEF HandledAlone
  <2>1. Active(i) /\ Active(k) /\ job'[i].msg = job[i].msg /\ job'[k].msg = job[k].msg
    BY <1>1, <1>a DEF Active
  <2> QED
    BY <2>1 DEF HandledAlone
<1>6. CreatedIsRecorded'
  <2> SUFFICES ASSUME NEW n \in 1..MaxMsgs, Created(n)', n \notin excused'
               PROVE  rows[n].state = "published" \/ \E i \in Jobs : Recording(i, n)'
    BY DEF CreatedIsRecorded
  <2>1. CASE n = m
    BY <1>1, <2>1 DEF Recording
  <2>2. CASE n # m
    <3>1. rows[n].state = "published" \/ \E i \in Jobs : Recording(i, n)
      BY <1>4, <2>2 DEF CreatedIsRecorded
    <3>2. ASSUME NEW i \in Jobs, Recording(i, n) PROVE Recording(i, n)'
      <4>1. i # j
        BY <2>2, <3>2 DEF Recording
      <4> QED
        BY <1>1, <3>2, <4>1 DEF Recording
    <3> QED
      BY <3>1, <3>2
  <2> QED
    BY <2>1, <2>2
<1>7. CreatesFirst'
  <2> SUFFICES ASSUME NEW i \in Jobs, BeforeCreation(i)', NEW n, n = job'[i].msg, n \notin excused'
               PROVE  ~Created(n)'
    BY DEF CreatesFirst, Created
  <2>1. CASE i = j
    BY <1>1, <2>1 DEF BeforeCreation, At
  <2>2. CASE i # j
    <3>1. BeforeCreation(i) /\ n = job[i].msg /\ Active(i)
      BY <1>1, <2>2 DEF BeforeCreation, At, Active, Steps
    <3>2. n # m
      BY <1>a, <2>2, <3>1 DEF HandledAlone
    <3> QED
      BY <1>4, <3>1, <3>2 DEF CreatesFirst
  <2> QED
    BY <2>1, <2>2
<1>8. OneRecord'
  <2> SUFFICES ASSUME NEW q \in 1..(Len(remote) + 1), NEW r \in 1..(Len(remote) + 1), q # r,
                      remote'[q].msg = remote'[r].msg
               PROVE  remote'[q].msg \in excused'
    BY <1>3 DEF OneRecord
  <2>1. CASE q \in 1..Len(remote) /\ r \in 1..Len(remote)
    BY <1>3, <2>1 DEF OneRecord
  <2>2. CASE q = Len(remote) + 1
    <3>1. r \in 1..Len(remote) /\ remote[r].msg = m
      BY <1>3, <2>2
    <3> QED
      BY <1>2, <1>3, <2>2, <3>1 DEF Created
  <2>3. CASE r = Len(remote) + 1
    <3>1. q \in 1..Len(remote) /\ remote[q].msg = m
      BY <1>3, <2>3
    <3> QED
      BY <1>2, <1>3, <2>3, <3>1 DEF Created
  <2> QED
    BY <1>3, <2>1, <2>2, <2>3
<1>9. CorrelatesPublished'
    BY <1>1 DEF CorrelatesPublished, At
<1> QED
    BY <1>5, <1>6, <1>7, <1>8, <1>9

\* A job takes up a message: the batch checks it, a retry sets its event back.
LEMMA OnceStart ==
    ASSUME OnceInv, TypeOK', NEW j \in Jobs, ~Active(j), NEW m \in 1..MaxMsgs,
           NEW pc \in {"check", "reset"}, Start(j, m, pc),
           pc = "reset" => rows[m].state # "published", UNCHANGED << rows, remote >>
    PROVE  OnceInv'
<1> USE DEF OnceInv
<1>1. job'[j].pc = pc /\ job'[j].msg = m /\ \A i \in Jobs : i # j => job'[i] = job[i]
  <2>1. Moved(j, JobOf(pc, m, NoRow))
    BY StartMoves
  <2> QED
    BY <2>1 DEF Moved, JobOf
<1>2. excused \subseteq excused'
    BY DEF Start
<1>3. m \notin excused' => \A i \in Jobs : i # j /\ Active(i) => job[i].msg # m
    BY DEF Start, Busy, Active, At, Steps
<1>4. \A n : Created(n)' <=> Created(n)
    BY DEF Created
<1>5. HandledAlone'
  <2> SUFFICES ASSUME NEW i \in Jobs, NEW k \in Jobs, i # k, Active(i)', Active(k)',
                      job'[i].msg = job'[k].msg
               PROVE  job'[i].msg \in excused'
    BY DEF HandledAlone
  <2>1. CASE i # j /\ k # j
    <3>1. Active(i) /\ Active(k) /\ job'[i].msg = job[i].msg /\ job'[k].msg = job[k].msg
      BY <1>1, <2>1 DEF Active
    <3> QED
      BY <1>2, <3>1 DEF HandledAlone
  <2>2. CASE i = j
    <3>1. k # j /\ Active(k) /\ job[k].msg = m /\ job'[i].msg = m
      BY <1>1, <2>2 DEF Active
    <3> QED
      BY <1>3, <3>1
  <2>3. CASE k = j
    <3>1. i # j /\ Active(i) /\ job[i].msg = m /\ job'[i].msg = m
      BY <1>1, <2>3 DEF Active
    <3> QED
      BY <1>3, <3>1
  <2> QED
    BY <2>1, <2>2, <2>3
<1>6. CreatedIsRecorded'
  <2>1. \A i \in Jobs : \A n : Recording(i, n) => Recording(i, n)'
    BY <1>1 DEF Recording, Active, Steps
  <2> QED
    BY <1>2, <1>4, <2>1 DEF CreatedIsRecorded
<1>7. CreatesFirst'
  <2> SUFFICES ASSUME NEW i \in Jobs, BeforeCreation(i)', NEW n, n = job'[i].msg, n \notin excused'
               PROVE  ~Created(n)
    BY <1>4 DEF CreatesFirst, Created
  <2>1. CASE i = j
    <3>1. n = m /\ pc = "reset"
      BY <1>1, <2>1 DEF BeforeCreation, At
    <3>2. \A k \in Jobs : ~Recording(k, m)
      BY <1>3, <3>1 DEF Recording, Active, Steps
    <3> QED
      BY <1>2, <3>1, <3>2 DEF CreatedIsRecorded
  <2>2. CASE i # j
    <3>1. BeforeCreation(i) /\ n = job[i].msg
      BY <1>1, <2>2 DEF BeforeCreation, At
    <3> QED
      BY <1>2, <3>1 DEF CreatesFirst
  <2> QED
    BY <2>1, <2>2
<1>8. OneRecord'
    BY <1>2 DEF OneRecord
<1>9. CorrelatesPublished'
    BY <1>1 DEF CorrelatesPublished, At
<1> QED
    BY <1>5, <1>6, <1>7, <1>8, <1>9

\* A job publishes what is not published.
LEMMA OnceJob ==
    ASSUME OnceInv, NEW j \in Jobs,
           JobStep(j) \/ AnswerLost(j) \/ StatementFails(j) \/ ResetReverseEventForRetry(j)
    PROVE  OnceInv'
<1>0. PICK m, r : m = job[j].msg /\ r = job[j].row
    OBVIOUS
<1>t. TypeOK
    BY DEF OnceInv
<1>a. TypeOK' /\ Active(j) /\ m \in 1..MaxMsgs /\ IsRow(r)
    BY <1>0, <1>t, JobTypes, Standing DEF Active
<1>b. \A row : ~Creating(Over(j), row) /\ ~Creating(Error(j), row)
    BY DEF Over, Error, Creating
<1>c. Over(j) # "correlate" /\ Error(j) # "correlate"
    BY DEF Over, Error
<1>d. ASSUME UNCHANGED remote PROVE SameRecords
    BY <1>d DEF SameRecords
<1>e. Created(m) /\ m \notin excused => rows[m].state = "published" \/ Recording(j, m)
    BY <1>0, <1>a, RecordedBy
<1>f. BeforeCreation(j) /\ m \notin excused => ~Created(m)
    BY <1>0 DEF OnceInv, CreatesFirst
<1>1. CASE CheckExisting(j)
  <2>1. At(j, "check") /\ UNCHANGED << rows, remote, excused >>
    BY <1>1, <1>t, CheckOutcome DEF CheckExisting, ghosts
  <2>2. Created(m) /\ m \notin excused => rows[m].state = "published"
    BY <1>e, <2>1 DEF Recording, At
  <2>3. CASE rows[m].state \in {"none", "pending"} /\ Moved(j, JobOf("build", m, r))
    BY <1>0, <1>a, <1>d, <2>1, <2>2, <2>3, OnceMove
  <2>4. CASE Moved(j, JobOf(Over(j), m, r))
    BY <1>0, <1>a, <1>b, <1>c, <1>d, <2>1, <2>2, <2>4, OnceMove
  <2> QED
    BY <1>0, <1>1, <1>t, <2>3, <2>4, CheckOutcome
<1>2. CASE Build(j)
  <2>1. At(j, "build") /\ UNCHANGED << rows, remote, excused >>
    BY <1>2, <1>t, BuildOutcome DEF Build
  <2>2. m \notin excused => ~Created(m)
    BY <1>f, <2>1 DEF BeforeCreation, At
  <2>3. \E pc, row : Moved(j, JobOf(pc, m, row)) /\ pc # "correlate"
    BY <1>0, <1>2, <1>t, <1>c, BuildOutcome
  <2> QED
    BY <1>0, <1>a, <1>d, <2>1, <2>2, <2>3, OnceMove
<1>3. CASE SessionFails(j) \/ DeleteRecord(j)
  <2>1. At(j, "session") /\ UNCHANGED << rows, excused >>
    BY <1>3, <1>t, SessionFailsOutcome, DeleteOutcome DEF SessionFails, DeleteRecord, ghosts
  <2>2. m \notin excused => ~Created(m)
    BY <1>f, <2>1 DEF BeforeCreation, At
  <2>3. \E row : Moved(j, JobOf("persist", m, row))
    BY <1>0, <1>3, <1>t, SessionFailsOutcome, DeleteOutcome
  <2>4. SameRecords
    <3>1. CASE SessionFails(j)
      BY <1>d, <3>1 DEF SessionFails
    <3>2. CASE DeleteRecord(j)
      BY <1>t, <3>2, RemoteStep, TypeParts DEF DeleteRecord, SameRecords
    <3> QED
      BY <1>3, <3>1, <3>2
  <2> QED
    BY <1>0, <1>a, <2>1, <2>2, <2>3, <2>4, OnceMove
<1>4. CASE AnswerLost(j)
  <2>1. At(j, "session") /\ UNCHANGED rows /\ m \in excused' /\ excused \subseteq excused'
        /\ remote' = Append(remote, [msg |-> m, live |-> TRUE])
    BY <1>0, <1>4 DEF AnswerLost
  <2>2. Moved(j, JobOf("persist", m, Row("failed", r)))
    BY <1>0, <1>4, <1>t, AnswerLostOutcome
  <2> QED
    BY <1>0, <1>a, <2>1, <2>2, OnceCreate
<1>5. CASE CreateRecord(j)
  <2>1. At(j, "session") /\ UNCHANGED << rows, excused >>
        /\ remote' = Append(remote, [msg |-> m, live |-> TRUE])
    BY <1>0, <1>5 DEF CreateRecord, ghosts
  <2>2. PICK row : row.state = "published" /\ Moved(j, JobOf("correlate", m, row))
    BY <1>0, <1>5, <1>t, CreateOutcome
  <2> QED
    BY <1>0, <1>a, <2>1, <2>2, OnceCreate
<1>6. CASE StatementFails(j)
  <2>1. job[j].pc \in {"correlate", "persist", "advance"} /\ Moved(j, JobOf(Error(j), m, r))
    BY <1>0, <1>6, <1>t, FailOutcome
  <2>2. excused \subseteq excused' /\ UNCHANGED << rows, remote >>
    BY <1>6 DEF StatementFails
  <2>3. Recording(j, m) => m \in excused'
    BY <1>0, <1>6 DEF StatementFails, Recording, At
  <2>4. Created(m) /\ m \notin excused' => rows[m].state = "published"
    BY <1>e, <2>2, <2>3
  <2> QED
    BY <1>0, <1>a, <1>b, <1>c, <1>d, <2>1, <2>2, <2>4, OnceMove
<1>7. CASE PersistForwardCorrelation(j)
  <2>1. At(j, "correlate") /\ Moved(j, JobOf("persist", m, r)) /\ UNCHANGED << rows, remote, excused >>
    BY <1>0, <1>7, <1>t, CorrelateOutcome DEF PersistForwardCorrelation, ghosts
  <2>2. r.state = "published"
    BY <1>0, <2>1 DEF OnceInv, CorrelatesPublished
  <2>3. ~Creating("persist", r)
    BY <2>2 DEF Creating
  <2> QED
    BY <1>0, <1>a, <1>d, <2>1, <2>2, <2>3, OnceMove
<1>8. CASE PersistReverseEvent(j)
  <2>1. At(j, "persist") /\ Moved(j, JobOf(Over(j), m, r)) /\ UNCHANGED << remote, excused >>
        /\ rows' = [rows EXCEPT ![m] = r]
    BY <1>0, <1>8, <1>t, PersistOutcome DEF PersistReverseEvent, ghosts
  <2>2. rows'[m] = r /\ \A n \in 1..MaxMsgs : n # m => rows'[n] = rows[n]
    BY <1>a, <1>t, <2>1 DEF TypeOK
  <2>3. Created(m) /\ m \notin excused => r.state = "published"
    BY <1>0, <1>f, <2>1 DEF BeforeCreation
  <2>4. /\ SameRecords /\ excused \subseteq excused'
        /\ Created(m) /\ m \notin excused' => rows'[m].state = "published"
    BY <1>d, <2>1, <2>2, <2>3
  <2>5. ~Creating(Over(j), r) /\ Over(j) # "correlate"
    BY <1>b, <1>c
  <2> QED
    BY <1>0, <1>a, <2>1, <2>2, <2>4, <2>5, OnceMove
<1>9. CASE ResetReverseEventForRetry(j)
  <2>1. At(j, "reset") /\ Moved(j, JobOf("build", m, r)) /\ UNCHANGED << remote, excused >>
        /\ rows' = [rows EXCEPT ![m].state = "pending"]
    BY <1>0, <1>9, <1>t, ResetOutcome DEF ResetReverseEventForRetry, ghosts
  <2>2. \A n \in 1..MaxMsgs : n # m => rows'[n] = rows[n]
    BY <1>a, <1>t, <2>1 DEF TypeOK
  <2>3. m \notin excused => ~Created(m)
    BY <1>f, <2>1 DEF BeforeCreation, At
  <2> QED
    BY <1>0, <1>a, <1>d, <2>1, <2>2, <2>3, OnceMove
<1> QED
    BY <1>1, <1>2, <1>3, <1>4, <1>5, <1>6, <1>7, <1>8, <1>9 DEF JobStep

\* Every step keeps a message from a second record.
LEMMA OnceStep ==
    ASSUME Parameters, OnceInv, [Next]_vars PROVE OnceInv'
<1>0. TypeOK /\ TypeOK'
    BY TypeStep DEF OnceInv
<1>a. ASSUME UNCHANGED << rows, remote, job, excused >> PROVE OnceInv'
    BY <1>0, <1>a DEF OnceInv, HandledAlone, CreatedIsRecorded, CreatesFirst, OneRecord,
                      CorrelatesPublished, Active, Created, Recording, BeforeCreation, At
<1>1. ASSUME NEW k \in Kinds, Write(k) PROVE OnceInv'
    BY <1>1, <1>a DEF Write, ghosts
<1>2. CASE StreamFeed
    BY <1>2, <1>a DEF StreamFeed, ghosts
<1>3. CASE IngestHistoryFrame
    BY <1>3, <1>a DEF IngestHistoryFrame, ghosts
<1>4. ASSUME NEW n, Set(n) PROVE OnceInv'
    BY <1>4, <1>a DEF Set, ghosts
<1>5. CASE WorldChanges
    BY <1>5, <1>a DEF WorldChanges, ghosts
<1>6. CASE ProcessBatch
  <2>1. log[cursor + 1] \in 1..MaxMsgs
    BY <1>0, <1>6, NextLogged DEF ProcessBatch
  <2>2. Batch \in Jobs /\ ~Active(Batch) /\ Start(Batch, log[cursor + 1], "check")
        /\ UNCHANGED << rows, remote >>
    BY <1>6 DEF ProcessBatch, Jobs, Active, At, Steps
  <2> QED
    BY <1>0, <2>1, <2>2, OnceStart
<1>7. CASE SaveCursor
  <2>0. PICK m, r : m = job[Batch].msg /\ r = job[Batch].row
    OBVIOUS
  <2>1. At(Batch, "advance") /\ Moved(Batch, JobOf("idle", m, r)) /\ Batch \in Jobs
        /\ UNCHANGED << rows, remote, excused >>
    BY <1>0, <1>7, <2>0, SaveOutcome DEF SaveCursor, Jobs, ghosts
  <2>2. Active(Batch) /\ m \in 1..MaxMsgs
    BY <1>0, <2>0, <2>1, Standing DEF Active, At, Steps
  <2>3. Created(m) /\ m \notin excused => rows[m].state = "published"
    BY <2>0, <2>1, <2>2, RecordedBy DEF Recording, At
  <2>4. SameRecords /\ ~Creating("idle", r)
    BY <2>1 DEF SameRecords, Creating
  <2> QED
    BY <1>0, <2>0, <2>1, <2>2, <2>3, <2>4, OnceMove
<1>8. ASSUME NEW j \in Jobs,
             JobStep(j) \/ AnswerLost(j) \/ StatementFails(j) \/ ResetReverseEventForRetry(j)
      PROVE  OnceInv'
    BY <1>8, OnceJob
<1>9. ASSUME NEW j \in Requests, NEW m \in 1..Len(feed), RetryEvent(j, m) PROVE OnceInv'
  <2>1. j \in Jobs /\ ~Active(j) /\ Start(j, m, "reset") /\ UNCHANGED << rows, remote >>
        /\ rows[m].state # "published"
    BY <1>9 DEF RetryEvent, Jobs, Active, At, Steps
  <2>2. m \in 1..MaxMsgs
    BY <1>0, SeqElement DEF TypeOK, Parameters
  <2> QED
    BY <1>0, <2>1, <2>2, OnceStart
<1>10. CASE Crash
  <2>1. UNCHANGED << rows, remote >> /\ excused \subseteq excused'
        /\ \A j \in Jobs : \A m : Recording(j, m) => m \in excused'
    BY <1>10 DEF Crash, Recording
  <2>2. \A j \in Jobs : job'[j].pc \in Off
    BY <1>0, <1>10, CrashJobs
  <2>3. HandledAlone' /\ CreatesFirst' /\ CorrelatesPublished'
    BY <2>2 DEF HandledAlone, CreatesFirst, CorrelatesPublished, Active, BeforeCreation, At, Off, Steps
  <2>4. CreatedIsRecorded'
    <3> SUFFICES ASSUME NEW n \in 1..MaxMsgs, Created(n), n \notin excused'
                 PROVE  rows[n].state = "published"
      BY <2>1 DEF CreatedIsRecorded, Created
    <3> QED
      BY <2>1 DEF OnceInv, CreatedIsRecorded
  <2>5. OneRecord'
    BY <2>1 DEF OnceInv, OneRecord
  <2> QED
    BY <1>0, <2>3, <2>4, <2>5 DEF OnceInv
<1>11. CASE UNCHANGED vars
    BY <1>11, <1>a DEF vars, ghosts
<1> QED
    BY <1>1, <1>2, <1>3, <1>4, <1>5, <1>6, <1>7, <1>8, <1>9, <1>10, <1>11
    DEF Next, HandleReverseMappingUpsert, HandleReverseMappingRemove

\* A message becomes one record on the PDS, unless an answer was lost, a crash or a failed
\* statement came between the record and its event, or a retry overlapped another
\* handling of the message.
THEOREM NoSecondRecord == ASSUME Parameters PROVE Spec => []PublishedOnce
<1>1. Init => OnceInv
  <2> SUFFICES ASSUME Init PROVE OnceInv
    OBVIOUS
  <2>1. TypeOK
    BY TypeInit
  <2>2. \A j \in Jobs : job[j].pc \in {"idle", "new"}
    BY DEF Init
  <2>3. HandledAlone /\ CreatesFirst /\ CorrelatesPublished
    BY <2>2 DEF HandledAlone, CreatesFirst, CorrelatesPublished, Active, BeforeCreation, At, Steps
  <2>4. remote = <<>>
    BY DEF Init
  <2>5. CreatedIsRecorded /\ OneRecord
    BY <2>4 DEF CreatedIsRecorded, OneRecord, Created
  <2> QED
    BY <2>1, <2>3, <2>5 DEF OnceInv
<1>2. OnceInv /\ [Next]_vars => OnceInv'
    BY OnceStep
<1>3. OnceInv => PublishedOnce
  <2> SUFFICES ASSUME OnceInv, NEW m \in 1..Len(feed), m \notin excused
               PROVE  ~(Cardinality({ r \in 1..Len(remote) : remote[r].msg = m }) > 1)
    BY DEF PublishedOnce
  <2> DEFINE S == { r \in 1..Len(remote) : remote[r].msg = m }
  <2>1. CASE S = {}
    BY <2>1, FS_EmptySet
  <2>2. CASE S # {}
    <3>1. PICK q : q \in S
      BY <2>2
    <3>2. S = {q}
      BY <3>1 DEF OnceInv, OneRecord
    <3> HIDE DEF S
    <3>3. Cardinality(S) = 1
      BY <3>2, FS_Singleton
    <3> QED
      BY <3>3 DEF S
  <2> QED
    BY <2>1, <2>2
<1> QED
    BY <1>1, <1>2, <1>3, PTL DEF Spec

-----------------------------------------------------------------------------
(* The tracker that follows back                                             *)

\* Whom the goroutine handles it has neither followed nor is the bot itself; and every follow
\* is remembered by its row, is about to be, or is known to have lost it.
SyncRecs == [feed : Members \cup {Bot}, at : {"none", "limit", "resolve", "publish", "record"}]
FollowInv ==
    /\ sync \in SyncRecs
    /\ follows \in Seq(Members \cup {Bot})
    /\ sync.at \in {"limit", "resolve", "publish"} => sync.feed \notin followed \cup {Bot}
    /\ \A i \in DOMAIN follows :
          \/ follows[i] \in followed \cup unrecorded
          \/ sync.at = "record" /\ follows[i] = sync.feed
    /\ Follow!FollowedOnce

\* Nobody has been followed at first.
LEMMA InitFollow == FaultsInit => FollowInv
<1> SUFFICES ASSUME FaultsInit PROVE FollowInv
  OBVIOUS
<1>1. sync = [feed |-> Bot, at |-> "none"] /\ follows = << >>
  BY DEF FaultsInit, Follow!Init, Follow!Nobody
<1>2. sync \in SyncRecs /\ sync.at = "none" /\ DOMAIN follows = {}
  BY <1>1 DEF SyncRecs
<1> QED
  BY <1>1, <1>2 DEF FollowInv, Follow!FollowedOnce

\* A follow is created of a feed that has no row: it is the first, or an earlier one of the
\* same feed is known to have lost its row.
LEMMA PublishFollow ==
  ASSUME FollowInv, Follow!PublishATProtoFollow
  PROVE  FollowInv'
<1>1. /\ sync.at = "publish" /\ sync \in SyncRecs /\ UNCHANGED followed
      /\ sync.feed \notin followed \cup {Bot} /\ sync.feed \in Members \cup {Bot}
      /\ follows \in Seq(Members \cup {Bot})
      /\ Follow!FollowedOnce
  BY DEF Follow!PublishATProtoFollow, FollowInv, SyncRecs
<1>2. \A i \in DOMAIN follows : follows[i] \in followed \cup unrecorded
  BY <1>1 DEF FollowInv
<1>3. PICK f \in Members \cup {Bot} : f = sync.feed /\ f # Bot /\ f \notin followed
  BY <1>1
<1>4. LET longer == Append(follows, f) IN
      /\ longer \in Seq(Members \cup {Bot})
      /\ DOMAIN longer = DOMAIN follows \cup {Len(follows) + 1}
      /\ longer[Len(follows) + 1] = f
      /\ \A i \in DOMAIN follows : longer[i] = follows[i]
  BY <1>1
<1>5. [sync EXCEPT !.at = "record"] \in SyncRecs /\ [sync EXCEPT !.at = "record"].at = "record"
      /\ [sync EXCEPT !.at = "record"].feed = f
  BY <1>1, <1>3 DEF SyncRecs
<1>6. Follow!Nobody \in SyncRecs /\ Follow!Nobody.at = "none"
  BY DEF Follow!Nobody, SyncRecs
<1>7. CASE follows' = Append(follows, sync.feed) /\ sync' = [sync EXCEPT !.at = "record"] /\ UNCHANGED unrecorded
  <2>1. /\ sync' \in SyncRecs /\ sync'.at = "record" /\ sync'.feed = f
        /\ follows' \in Seq(Members \cup {Bot}) /\ DOMAIN follows' = DOMAIN follows \cup {Len(follows) + 1}
        /\ follows'[Len(follows) + 1] = f /\ \A i \in DOMAIN follows : follows'[i] = follows[i]
    BY <1>3, <1>4, <1>5, <1>7
  <2>2. Follow!FollowedOnce'
    BY <2>1, <1>1, <1>2, <1>3, <1>7 DEF Follow!FollowedOnce
  <2>3. \A i \in DOMAIN follows' : follows'[i] \in followed' \cup unrecorded' \/ follows'[i] = sync'.feed
    BY <2>1, <1>1, <1>2, <1>7
  <2> QED
    BY <2>1, <2>2, <2>3 DEF FollowInv
<1>8. CASE follows' = follows /\ sync' = Follow!Nobody /\ UNCHANGED unrecorded
  BY <1>1, <1>2, <1>6, <1>8 DEF FollowInv, Follow!FollowedOnce
<1>9. CASE /\ follows' = Append(follows, sync.feed) /\ sync' = Follow!Nobody
           /\ unrecorded' = unrecorded \cup {sync.feed}
  <2>1. /\ sync' \in SyncRecs /\ sync'.at = "none"
        /\ follows' \in Seq(Members \cup {Bot}) /\ DOMAIN follows' = DOMAIN follows \cup {Len(follows) + 1}
        /\ follows'[Len(follows) + 1] = f /\ \A i \in DOMAIN follows : follows'[i] = follows[i]
    BY <1>3, <1>4, <1>6, <1>9
  <2>2. Follow!FollowedOnce'
    BY <2>1, <1>1, <1>2, <1>3, <1>9 DEF Follow!FollowedOnce
  <2>3. \A i \in DOMAIN follows' : follows'[i] \in followed' \cup unrecorded'
    BY <2>1, <1>1, <1>2, <1>3, <1>9
  <2> QED
    BY <2>1, <2>2, <2>3 DEF FollowInv
<1> QED
  BY <1>7, <1>8, <1>9 DEF Follow!PublishATProtoFollow

\* Every step of the tracker keeps whom it follows once.
LEMMA NextFollow ==
  ASSUME FollowInv, Follow!Next \/ UNCHANGED << sync, followed, follows, unrecorded >>
  PROVE  FollowInv'
<1>0. Follow!Nobody \in SyncRecs /\ Follow!Nobody.at = "none"
  BY DEF Follow!Nobody, SyncRecs
<1>1. CASE UNCHANGED << sync, followed, follows, unrecorded >>
  BY <1>1 DEF FollowInv, Follow!FollowedOnce
<1>2. CASE /\ UNCHANGED << followed, follows, unrecorded >> /\ sync' \in SyncRecs
           /\ sync.at # "record"
           /\ sync'.at \in {"limit", "resolve", "publish"} => sync'.feed \notin followed \cup {Bot}
  BY <1>2 DEF FollowInv, Follow!FollowedOnce
<1>3. ASSUME NEW f \in Members \cup {Bot}, Follow!Announce(f) PROVE FollowInv'
  BY <1>1, <1>3 DEF Follow!Announce
<1>4. ASSUME NEW f \in Members \cup {Bot}, Follow!SyncFollower(f) PROVE FollowInv'
  <2>1. CASE UNCHANGED sync
    BY <1>1, <1>4, <2>1 DEF Follow!SyncFollower
  <2>2. CASE f \notin followed \cup {Bot} /\ sync' = [feed |-> f, at |-> "limit"]
    <3>1. sync.at = "none" /\ UNCHANGED << followed, follows, unrecorded >>
      BY <1>0, <1>4 DEF Follow!SyncFollower
    <3>2. sync' \in SyncRecs /\ sync'.feed = f
      BY <2>2 DEF SyncRecs
    <3> QED
      BY <1>2, <2>2, <3>1, <3>2
  <2> QED
    BY <1>4, <2>1, <2>2 DEF Follow!SyncFollower
<1>5. CASE Follow!ProcessLoop \/ Follow!RateLimitResetLoop
  BY <1>1, <1>5 DEF Follow!ProcessLoop, Follow!RateLimitResetLoop
<1>6. CASE Follow!RateLimit \/ Follow!ResolveSSBFeedToDID
  <2>1. /\ sync \in SyncRecs /\ sync.at \in {"limit", "resolve"} /\ sync.feed \notin followed \cup {Bot}
        /\ UNCHANGED << followed, follows, unrecorded >>
    BY <1>6 DEF Follow!RateLimit, Follow!ResolveSSBFeedToDID, FollowInv
  <2>2. \E at \in {"resolve", "publish"} : sync' = [sync EXCEPT !.at = at] \/ sync' = Follow!Nobody
    BY <1>6 DEF Follow!RateLimit, Follow!ResolveSSBFeedToDID
  <2>3. \A at \in {"resolve", "publish"} : LET s == [sync EXCEPT !.at = at] IN
           s \in SyncRecs /\ s.feed = sync.feed
    BY <2>1 DEF SyncRecs
  <2> QED
    BY <1>0, <1>2, <2>1, <2>2, <2>3
<1>7. CASE Follow!PublishATProtoFollow
  BY <1>7, PublishFollow
<1>8. CASE Follow!AddFollowerSync \/ Follow!Crash
  <2>1. /\ sync' = Follow!Nobody /\ UNCHANGED follows
        /\ followed \subseteq followed' /\ unrecorded \subseteq unrecorded'
        /\ sync.at = "record" => sync.feed \in followed' \cup unrecorded'
    BY <1>8 DEF Follow!AddFollowerSync, Follow!Crash
  <2> QED
    BY <1>0, <2>1 DEF FollowInv, Follow!FollowedOnce
<1> QED
  BY <1>1, <1>3, <1>4, <1>5, <1>6, <1>7, <1>8 DEF Follow!Next

-----------------------------------------------------------------------------
(* The announcements of two nodes, and the two together                      *)

\* What ReplicationProofs proves, for the feed of the two nodes here.
FeedProofs == INSTANCE ReplicationProofs
    WITH Author <- MCAuthor, Dialler <- MCDialler, Acceptor <- MCAcceptor, Overlap <- FALSE,
         rows <- replicas

\* Its module is the one of this run, under the same substitution.
LEMMA FeedIsTheSame ==
  /\ Feed!Init = FeedProofs!Init /\ Feed!Next = FeedProofs!Next
  /\ (UNCHANGED Feed!vars) = UNCHANGED FeedProofs!vars
  /\ Feed!NoteNeverAhead = FeedProofs!NoteNeverAhead
  BY DEF Feed!Init, FeedProofs!Init, Feed!NoNote, FeedProofs!NoNote, Feed!Links, FeedProofs!Links,
     Feed!NoLink, FeedProofs!NoLink, Feed!NoMessage, FeedProofs!NoMessage, Feed!Idle,
     FeedProofs!Idle, Feed!NoCall, FeedProofs!NoCall, Feed!Next, FeedProofs!Next,
     Feed!PublishSign, FeedProofs!PublishSign, Feed!dbVars, FeedProofs!dbVars,
     Feed!matrixVars, FeedProofs!matrixVars, Feed!sessionVars, FeedProofs!sessionVars,
     Feed!PublishAppend, FeedProofs!PublishAppend, Feed!AppendRow, FeedProofs!AppendRow,
     Feed!boundVars, FeedProofs!boundVars, Feed!PublishStore, FeedProofs!PublishStore,
     Feed!AppendReceived, FeedProofs!AppendReceived, Feed!SetFeedSeq, FeedProofs!SetFeedSeq,
     Feed!PublishFails, FeedProofs!PublishFails, Feed!ReplicateRead, FeedProofs!ReplicateRead,
     Feed!ReplicateSet, FeedProofs!ReplicateSet, Feed!Restart, FeedProofs!Restart,
     Feed!InitializeFromFeedlog, FeedProofs!InitializeFromFeedlog, Feed!Ends, FeedProofs!Ends,
     Feed!Connect, FeedProofs!Connect, Feed!callVars, FeedProofs!callVars, Feed!Disconnect,
     FeedProofs!Disconnect, Feed!Ended, FeedProofs!Ended, Feed!Started, FeedProofs!Started,
     Feed!Peer, FeedProofs!Peer, Feed!Queue, FeedProofs!Queue, Feed!Frontier,
     FeedProofs!Frontier, Feed!State, FeedProofs!State, Feed!Encode, FeedProofs!Encode,
     Feed!LoopUpdate, FeedProofs!LoopUpdate, Feed!RoomForFrame, FeedProofs!RoomForFrame,
     Feed!SendWants, FeedProofs!SendWants, Feed!Changed, FeedProofs!Changed, Feed!WireSeq,
     FeedProofs!WireSeq, Feed!WireReceive, FeedProofs!WireReceive, Feed!ReadFrontier,
     FeedProofs!ReadFrontier, Feed!Subscribed, FeedProofs!Subscribed, Feed!Cancelled,
     FeedProofs!Cancelled, Feed!ReadMessage, FeedProofs!ReadMessage, Feed!Seq_,
     FeedProofs!Seq_, Feed!AppendFeedLog, FeedProofs!AppendFeedLog, Feed!AppendReceiveLog,
     FeedProofs!AppendReceiveLog, Feed!AppendFails, FeedProofs!AppendFails, Feed!StreamSend,
     FeedProofs!StreamSend, Feed!RoomForMessage, FeedProofs!RoomForMessage, Feed!Stored,
     FeedProofs!Stored, Feed!Content, FeedProofs!Content, Feed!GetMessage,
     FeedProofs!GetMessage, Feed!StreamMisses, FeedProofs!StreamMisses, Feed!StreamRecheck,
     FeedProofs!StreamRecheck, Feed!vars, FeedProofs!vars, Feed!NoteNeverAhead,
     FeedProofs!NoteNeverAhead

\* The two ends of a connection are nodes.
FeedParameters == MaxLinks \in Nat /\ {"a", "d"} \subseteq Nodes

\* A node announces no more of a feed than it has, unless an append failed on an empty log,
\* and a member that announces itself is followed once, unless the row that remembers it
\* could not be written: for any bounds and however often the process restarts.
THEOREM AnnouncementsAreRight ==
    ASSUME FeedParameters
    PROVE  FaultsSpec => []AnnouncementsHold
<1> DEFINE every == << part, faults, reverseVars, blobVars, feedVars, followVars >>
           Inv == (part = "feed" => FeedProofs!NoteInv) /\ FollowInv
<1>1. FeedProofs!Parameters
  BY DEF FeedParameters, FeedProofs!Parameters, MCAuthor, MCDialler, MCAcceptor
<1>2. FaultsInit => Inv
  BY <1>1, InitFollow, FeedIsTheSame, FeedProofs!InitNote DEF FaultsInit
<1>3. Inv /\ [FaultsNext]_every => Inv'
  <2> SUFFICES ASSUME Inv, [FaultsNext]_every PROVE Inv'
    OBVIOUS
  <2>1. FollowInv'
    <3>1. Follow!Next \/ UNCHANGED << sync, followed, follows, unrecorded >>
      BY DEF FaultsNext, followVars
    <3> QED
      BY <3>1, NextFollow
  <2>2. ASSUME part' = "feed" PROVE FeedProofs!NoteInv'
    <3>1. part = "feed" /\ (FeedProofs!Next \/ UNCHANGED FeedProofs!vars)
      <4>1. part = "feed" /\ (Feed!Next \/ UNCHANGED Feed!vars)
        BY <2>2 DEF FaultsNext, feedVars, Feed!vars
      <4> QED
        BY <4>1, FeedIsTheSame
    <3> QED
      BY <1>1, <3>1, FeedProofs!NextNote
  <2> QED
    BY <2>1, <2>2
<1>4. Inv => AnnouncementsHold
  BY FeedIsTheSame DEF AnnouncementsHold, FollowInv, FeedProofs!NoteInv, FeedProofs!BehindInv,
     FeedProofs!NotesBehind, FeedProofs!NoteNeverAhead
<1> QED
  BY <1>2, <1>3, <1>4, PTL DEF FaultsSpec

-----------------------------------------------------------------------------
(* The blob exchange                                                         *)

\* The calls are of three kinds, and a subscription has room for some events.
BlobParameters ==
    /\ Fetchers \cap Records = {} /\ Fetchers \cap Uploads = {}
    /\ ChanCap \in Nat

Ids == BlobIds \cup {NoBlob}
CallRecs == [pc : {"new", "want", "fetch", "reading", "put", "insert", "stored", "failed", "done"},
             blob : Ids, tries : Nat]
WantEvents == [blob : Ids, want : BOOLEAN]

BlobTypeOK ==
    /\ jobs \in [Exchange!JobIds -> CallRecs]
    /\ subs \in [Streams -> Seq(WantEvents)]
    /\ \A s \in Streams : Len(subs[s]) <= ChanCap
    /\ creating \in [Streams -> {"new", "subscribed", "live", "done"}]
    /\ told \in [Streams -> SUBSET Ids] /\ dropped \in [Streams -> SUBSET Ids]
    /\ wants \subseteq Ids

\* A file is there before its row, the row before its call goes on, the call before its mapping.
StoreOrdered ==
    /\ Exchange!MappedIsServed
    /\ \A j \in Exchange!JobIds :
          /\ jobs[j].pc = "insert" => jobs[j].blob \in files
          /\ jobs[j].pc = "stored" => jobs[j].blob \in blobs

\* A blob that a fetcher did not get is still wanted,
MissingIsWanted ==
    \A j \in Fetchers :
        /\ jobs[j].pc # "reading"
        /\ jobs[j].pc \in {"fetch", "put", "insert", "failed"} /\ jobs[j].blob \notin blobs =>
              jobs[j].blob \in wants
\* and what is wanted has been told to every peer that listens, or is in its queue, or was
\* lost by a queue that was full.
Queued(s, b) == \E i \in DOMAIN subs[s] : subs[s][i].blob = b /\ subs[s][i].want
WantedIsTold ==
    \A s \in Streams : creating[s] = "live" =>
        \A b \in wants : b \in told[s] \cup dropped[s] \/ Queued(s, b)

BlobInv == BlobTypeOK /\ StoreOrdered /\ MissingIsWanted /\ WantedIsTold

\* Nothing is wanted or stored at first.
LEMMA InitBlobs == BlobParameters /\ FaultsInit => BlobInv
<1> SUFFICES ASSUME BlobParameters, FaultsInit PROVE BlobInv
  OBVIOUS
<1>1. Exchange!Init
  BY DEF FaultsInit
<1>2. [pc |-> "new", blob |-> NoBlob, tries |-> 0] \in CallRecs
  BY DEF CallRecs, Ids
<1>3. /\ jobs \in [Exchange!JobIds -> CallRecs]
      /\ \A j \in Exchange!JobIds : jobs[j].pc = "new"
  BY <1>1, <1>2 DEF Exchange!Init
<1>4. \A s \in Streams : Len(subs[s]) <= ChanCap
  BY <1>1 DEF Exchange!Init, BlobParameters
<1>5. BlobTypeOK
  BY <1>1, <1>3, <1>4 DEF Exchange!Init, BlobTypeOK
<1>6. Fetchers \subseteq Exchange!JobIds
  BY DEF Exchange!JobIds
<1> QED
  BY <1>1, <1>3, <1>5, <1>6 DEF Exchange!Init, BlobInv, StoreOrdered, MissingIsWanted, WantedIsTold,
     Exchange!MappedIsServed

\* A call goes on as r: what it had stored is there, and what it did not get is wanted.
LEMMA CallKeeps ==
  ASSUME BlobInv, NEW j \in Exchange!JobIds, NEW r \in CallRecs, jobs' = [jobs EXCEPT ![j] = r],
         files \subseteq files', blobs \subseteq blobs', Exchange!MappedIsServed',
         \A b \in wants : b \in wants' \/ b \in blobs',
         r.pc = "insert" => r.blob \in files',
         r.pc = "stored" => r.blob \in blobs',
         j \in Fetchers =>
            /\ r.pc # "reading"
            /\ r.pc \in {"fetch", "put", "insert", "failed"} => r.blob \in wants' \cup blobs'
  PROVE  jobs' \in [Exchange!JobIds -> CallRecs] /\ StoreOrdered' /\ MissingIsWanted'
<1>1. /\ jobs' \in [Exchange!JobIds -> CallRecs] /\ jobs'[j] = r
      /\ \A k \in Exchange!JobIds \ {j} : jobs'[k] = jobs[k]
  BY DEF BlobInv, BlobTypeOK
<1>2. StoreOrdered'
  BY <1>1 DEF BlobInv, StoreOrdered
<1>3. MissingIsWanted'
  <2> SUFFICES ASSUME NEW k \in Fetchers
               PROVE  /\ jobs'[k].pc # "reading"
                      /\ jobs'[k].pc \in {"fetch", "put", "insert", "failed"} /\ jobs'[k].blob \notin blobs' =>
                            jobs'[k].blob \in wants'
    BY DEF MissingIsWanted
  <2>1. CASE k = j
    BY <2>1, <1>1
  <2>2. CASE k # j
    <3>1. k \in Exchange!JobIds \ {j}
      BY <2>2 DEF Exchange!JobIds
    <3> QED
      BY <3>1, <1>1 DEF BlobInv, MissingIsWanted
  <2> QED
    BY <2>1, <2>2
<1> QED
  BY <1>1, <1>2, <1>3

\* A call whose place alone changes.
LEMMA CallGoes ==
  ASSUME BlobInv, NEW j \in Exchange!JobIds,
         NEW pc \in {"fetch", "put", "insert", "stored", "failed", "done"}, Exchange!Go(j, pc)
  PROVE  \E r \in CallRecs : jobs' = [jobs EXCEPT ![j] = r] /\ r.pc = pc /\ r.blob = jobs[j].blob
<1>1. jobs[j] \in CallRecs
  BY DEF BlobInv, BlobTypeOK
<1>2. LET r == [jobs[j] EXCEPT !.pc = pc] IN r \in CallRecs /\ r.pc = pc /\ r.blob = jobs[j].blob
  BY <1>1 DEF CallRecs
<1> QED
  BY <1>2 DEF Exchange!Go

\* What a step leaves that changes neither wants nor streams.
LEMMA StreamsKeep ==
  ASSUME BlobInv, UNCHANGED << wants, subs, dropped, creating, told >>,
         jobs' \in [Exchange!JobIds -> CallRecs], StoreOrdered', MissingIsWanted'
  PROVE  BlobInv'
<1>1. BlobTypeOK'
  BY DEF BlobInv, BlobTypeOK
<1>2. WantedIsTold'
  BY DEF BlobInv, WantedIsTold, Queued
<1> QED
  BY <1>1, <1>2 DEF BlobInv

\* An event is put in the queue of every peer that listens, or is lost there.
LEMMA NotifyKeeps ==
  ASSUME BlobInv, BlobParameters, NEW b \in Ids, NEW want \in BOOLEAN, Exchange!NotifyLocked(b, want),
         UNCHANGED << creating, told >>,
         wants' = IF want THEN wants \cup {b} ELSE wants \ {b},
         jobs' \in [Exchange!JobIds -> CallRecs], StoreOrdered', MissingIsWanted'
  PROVE  BlobInv'
<1> DEFINE e == [blob |-> b, want |-> want]
<1>0. BlobTypeOK /\ e \in WantEvents /\ e.blob = b /\ e.want = want
  BY DEF BlobInv, WantEvents
<1> HIDE DEF e
<1>a. /\ subs' = [s \in Streams |->
             IF Exchange!Subscribed(s) /\ Len(subs[s]) < ChanCap THEN Append(subs[s], e) ELSE subs[s]]
      /\ dropped' = [s \in Streams |->
             IF want /\ Exchange!Subscribed(s) /\ Len(subs[s]) = ChanCap
             THEN dropped[s] \cup {b} ELSE dropped[s]]
  BY DEF Exchange!NotifyLocked, e
<1>1. ASSUME NEW s \in Streams
      PROVE  /\ subs'[s] \in Seq(WantEvents) /\ Len(subs'[s]) <= ChanCap
             /\ dropped'[s] \in SUBSET Ids /\ dropped[s] \subseteq dropped'[s]
             /\ \A c : Queued(s, c) => \E i \in DOMAIN subs'[s] : subs'[s][i].blob = c /\ subs'[s][i].want
             /\ want /\ creating[s] = "live" =>
                   b \in dropped'[s] \/ \E i \in DOMAIN subs'[s] : subs'[s][i].blob = b /\ subs'[s][i].want
  <2>1. /\ subs[s] \in Seq(WantEvents) /\ Len(subs[s]) <= ChanCap /\ Len(subs[s]) \in Nat
        /\ dropped[s] \in SUBSET Ids /\ ChanCap \in Nat
    BY <1>0 DEF BlobTypeOK, BlobParameters
  <2>2. LET longer == Append(subs[s], e) IN
        /\ longer \in Seq(WantEvents) /\ Len(longer) = Len(subs[s]) + 1
        /\ DOMAIN longer = DOMAIN subs[s] \cup {Len(subs[s]) + 1}
        /\ \A i \in DOMAIN subs[s] : longer[i] = subs[s][i]
        /\ longer[Len(subs[s]) + 1] = e
    BY <1>0, <2>1
  <2>3. CASE Exchange!Subscribed(s) /\ Len(subs[s]) < ChanCap
    <3>1. subs'[s] = Append(subs[s], e) /\ dropped'[s] = dropped[s]
      BY <1>a, <2>1, <2>3
    <3> QED
      BY <1>0, <2>1, <2>2, <2>3, <3>1 DEF Queued
  <2>4. CASE ~(Exchange!Subscribed(s) /\ Len(subs[s]) < ChanCap)
    <3>1. /\ subs'[s] = subs[s]
          /\ dropped'[s] = IF want /\ Exchange!Subscribed(s) /\ Len(subs[s]) = ChanCap
                           THEN dropped[s] \cup {b} ELSE dropped[s]
      BY <1>a, <2>4
    <3>2. creating[s] = "live" => Exchange!Subscribed(s) /\ Len(subs[s]) = ChanCap
      BY <2>1, <2>4 DEF Exchange!Subscribed
    <3> QED
      BY <2>1, <3>1, <3>2 DEF Queued
  <2> QED
    BY <2>3, <2>4
<1>2. /\ subs' \in [Streams -> Seq(WantEvents)] /\ dropped' \in [Streams -> SUBSET Ids]
      /\ \A s \in Streams : Len(subs'[s]) <= ChanCap
  BY <1>1, <1>a
<1>3. BlobTypeOK'
  BY <1>0, <1>2 DEF BlobTypeOK
<1>4. WantedIsTold'
  <2> SUFFICES ASSUME NEW s \in Streams, creating[s] = "live", NEW c \in wants'
               PROVE  \/ c \in told[s] \cup dropped'[s]
                      \/ \E i \in DOMAIN subs'[s] : subs'[s][i].blob = c /\ subs'[s][i].want
    BY DEF WantedIsTold, Queued
  <2>1. CASE c = b /\ want
    BY <2>1, <1>1
  <2>2. CASE c \in wants
    BY <2>2, <1>1 DEF BlobInv, WantedIsTold
  <2> QED
    BY <2>1, <2>2
<1> QED
  BY <1>3, <1>4 DEF BlobInv

\* The steps of a call that leave wants and streams alone.
LEMMA CallSteps ==
  ASSUME BlobInv, BlobParameters, NEW j \in Exchange!JobIds,
         \/ Exchange!Rename(j) \/ Exchange!Insert(j)
         \/ j \in Uploads /\ (Exchange!BlobReaderRead(j) \/ \E b \in BlobIds : Exchange!HandleAdd(j, b))
         \/ j \in Fetchers /\ (Exchange!FetchBlobFromPeer(j) \/ \E b \in BlobIds : Exchange!EnsureBlob(j, b))
         \/ j \in Records /\ (Exchange!AddBlob(j) \/ \E b \in BlobIds : Exchange!BridgeRecordBlobs(j, b))
  PROVE  BlobInv'
<1> USE DEF Exchange!At, Exchange!storeVars, Exchange!wantVars, Exchange!streamVars
<1>0. /\ jobs[j] \in CallRecs /\ Exchange!MappedIsServed /\ BlobIds \subseteq Ids
      /\ jobs[j].pc = "insert" => jobs[j].blob \in files
      /\ jobs[j].pc = "stored" => jobs[j].blob \in blobs
      /\ j \in Fetchers /\ jobs[j].pc \in {"fetch", "put", "insert", "failed"} =>
            jobs[j].blob \in wants \cup blobs
  BY DEF BlobInv, BlobTypeOK, StoreOrdered, MissingIsWanted, Ids
<1>a. ASSUME NEW r \in CallRecs, jobs' = [jobs EXCEPT ![j] = r],
             files \subseteq files', blobs \subseteq blobs', Exchange!MappedIsServed',
             UNCHANGED << wants, subs, dropped, creating, told >>,
             r.pc = "insert" => r.blob \in files', r.pc = "stored" => r.blob \in blobs',
             j \in Fetchers =>
                /\ r.pc # "reading"
                /\ r.pc \in {"fetch", "put", "insert", "failed"} => r.blob \in wants \cup blobs
      PROVE  BlobInv'
  <2>1. /\ \A b \in wants : b \in wants' \/ b \in blobs'
        /\ j \in Fetchers =>
              /\ r.pc # "reading"
              /\ r.pc \in {"fetch", "put", "insert", "failed"} => r.blob \in wants' \cup blobs'
    BY <1>a
  <2>2. jobs' \in [Exchange!JobIds -> CallRecs] /\ StoreOrdered' /\ MissingIsWanted'
    BY <1>a, <2>1, CallKeeps
  <2> QED
    BY <1>a, <2>2, StreamsKeep
<1>1. CASE Exchange!Rename(j)
  <2>1. PICK r \in CallRecs : jobs' = [jobs EXCEPT ![j] = r] /\ r.pc = "insert" /\ r.blob = jobs[j].blob
    BY <1>1, CallGoes DEF Exchange!Rename
  <2> QED
    BY <1>0, <1>1, <1>a, <2>1 DEF Exchange!Rename, Exchange!MappedIsServed
<1>2. CASE Exchange!Insert(j)
  <2>1. CASE blobs' = blobs \cup {jobs[j].blob} /\ Exchange!Go(j, "stored")
    <3>1. PICK r \in CallRecs : jobs' = [jobs EXCEPT ![j] = r] /\ r.pc = "stored" /\ r.blob = jobs[j].blob
      BY <2>1, CallGoes
    <3> QED
      BY <1>0, <1>2, <1>a, <2>1, <3>1 DEF Exchange!Insert, Exchange!MappedIsServed
  <2>2. CASE Exchange!Go(j, "failed") /\ UNCHANGED blobs
    <3>1. PICK r \in CallRecs : jobs' = [jobs EXCEPT ![j] = r] /\ r.pc = "failed" /\ r.blob = jobs[j].blob
      BY <2>2, CallGoes
    <3> QED
      BY <1>0, <1>2, <1>a, <2>2, <3>1 DEF Exchange!Insert, Exchange!MappedIsServed
  <2> QED
    BY <1>2, <2>1, <2>2 DEF Exchange!Insert
<1>3. CASE j \in Uploads /\ Exchange!BlobReaderRead(j)
  <2>1. PICK pc \in {"put", "failed"} : Exchange!Go(j, pc)
    BY <1>3 DEF Exchange!BlobReaderRead
  <2>2. PICK r \in CallRecs : jobs' = [jobs EXCEPT ![j] = r] /\ r.pc = pc /\ r.blob = jobs[j].blob
    BY <2>1, CallGoes
  <2> QED
    BY <1>0, <1>3, <1>a, <2>2 DEF Exchange!BlobReaderRead, Exchange!MappedIsServed, BlobParameters
<1>4. ASSUME j \in Uploads, NEW b \in BlobIds, Exchange!HandleAdd(j, b) PROVE BlobInv'
  <2>1. LET r == [jobs[j] EXCEPT !.pc = "reading", !.blob = b] IN r \in CallRecs /\ r.pc = "reading"
    BY <1>0 DEF CallRecs
  <2>2. PICK r \in CallRecs : jobs' = [jobs EXCEPT ![j] = r] /\ r.pc = "reading"
    BY <1>4, <2>1 DEF Exchange!HandleAdd
  <2> QED
    BY <1>0, <1>4, <1>a, <2>2 DEF Exchange!HandleAdd, Exchange!MappedIsServed, BlobParameters
<1>5. CASE j \in Fetchers /\ Exchange!FetchBlobFromPeer(j)
  <2>1. PICK r \in CallRecs : /\ jobs' = [jobs EXCEPT ![j] = r] /\ r.blob = jobs[j].blob
                              /\ r.pc \in {"put", "failed", "fetch"}
    <3>1. CASE \E pc \in {"put", "failed"} : Exchange!Go(j, pc)
      BY <3>1, CallGoes
    <3>2. CASE jobs' = [jobs EXCEPT ![j].tries = @ + 1]
      <4>1. LET r == [jobs[j] EXCEPT !.tries = @ + 1] IN
            r \in CallRecs /\ r.pc = jobs[j].pc /\ r.blob = jobs[j].blob
        BY <1>0 DEF CallRecs
      <4> QED
        BY <3>2, <4>1, <1>5 DEF Exchange!FetchBlobFromPeer
    <3> QED
      BY <1>5, <3>1, <3>2 DEF Exchange!FetchBlobFromPeer
  <2> QED
    BY <1>0, <1>5, <1>a, <2>1 DEF Exchange!FetchBlobFromPeer, Exchange!MappedIsServed
<1>6. ASSUME j \in Fetchers, NEW b \in BlobIds, Exchange!EnsureBlob(j, b) PROVE BlobInv'
  <2>1. \A pc \in {"done", "want"} : LET r == [pc |-> pc, blob |-> b, tries |-> 0] IN
           r \in CallRecs /\ r.pc = pc
    BY <1>0 DEF CallRecs
  <2>2. PICK r \in CallRecs : jobs' = [jobs EXCEPT ![j] = r] /\ r.pc \in {"done", "want"}
    BY <1>6, <2>1 DEF Exchange!EnsureBlob
  <2> QED
    BY <1>0, <1>6, <1>a, <2>2 DEF Exchange!EnsureBlob, Exchange!MappedIsServed
<1>7. CASE j \in Records /\ Exchange!AddBlob(j)
  <2>1. PICK r \in CallRecs : jobs' = [jobs EXCEPT ![j] = r] /\ r.pc = "done"
    BY <1>7, CallGoes DEF Exchange!AddBlob
  <2> QED
    BY <1>0, <1>7, <1>a, <2>1 DEF Exchange!AddBlob, Exchange!MappedIsServed
<1>8. ASSUME j \in Records, NEW b \in BlobIds, Exchange!BridgeRecordBlobs(j, b) PROVE BlobInv'
  <2>1. \A pc \in {"done", "put"} : LET r == [pc |-> pc, blob |-> b, tries |-> 0] IN
           r \in CallRecs /\ r.pc = pc
    BY <1>0 DEF CallRecs
  <2>2. PICK r \in CallRecs : jobs' = [jobs EXCEPT ![j] = r] /\ r.pc \in {"done", "put"}
    BY <1>8, <2>1 DEF Exchange!BridgeRecordBlobs
  <2> QED
    BY <1>0, <1>8, <1>a, <2>2 DEF Exchange!BridgeRecordBlobs, Exchange!MappedIsServed, BlobParameters
<1> QED
  BY <1>1, <1>2, <1>3, <1>4, <1>5, <1>6, <1>7, <1>8

\* The steps that want a blob, or no longer: only of one that is stored.
LEMMA WantSteps ==
  ASSUME BlobInv, BlobParameters,
         \/ \E b \in BlobIds : Exchange!HandleWant(b)
         \/ \E j \in Fetchers : Exchange!AskWant(j) \/ Exchange!CancelWanted(j)
  PROVE  BlobInv'
<1> USE DEF Exchange!At, Exchange!storeVars, Exchange!wantVars, Exchange!streamVars
<1>1. ASSUME NEW b \in BlobIds, Exchange!HandleWant(b) PROVE BlobInv'
  <2>1. /\ b \in Ids /\ TRUE \in BOOLEAN /\ Exchange!NotifyLocked(b, TRUE) /\ UNCHANGED << creating, told >>
        /\ wants' = wants \cup {b} /\ UNCHANGED << jobs, files, blobs, table >>
    BY <1>1 DEF Exchange!HandleWant, Exchange!Want, Ids
  <2>2. jobs' \in [Exchange!JobIds -> CallRecs] /\ StoreOrdered' /\ MissingIsWanted'
    BY <2>1 DEF BlobInv, BlobTypeOK, StoreOrdered, MissingIsWanted, Exchange!MappedIsServed
  <2> QED
    BY <2>1, <2>2, NotifyKeeps
<1>2. ASSUME NEW j \in Fetchers, Exchange!AskWant(j) PROVE BlobInv'
  <2>0. j \in Exchange!JobIds
    BY DEF Exchange!JobIds
  <2>1. PICK b \in Ids : b = jobs[j].blob
    BY <2>0 DEF BlobInv, BlobTypeOK, CallRecs
  <2>2. /\ TRUE \in BOOLEAN /\ Exchange!NotifyLocked(b, TRUE) /\ UNCHANGED << creating, told >>
        /\ wants' = wants \cup {b} /\ UNCHANGED << files, blobs, table >> /\ Exchange!Go(j, "fetch")
    BY <1>2, <2>1 DEF Exchange!AskWant, Exchange!Want
  <2>3. PICK r \in CallRecs : jobs' = [jobs EXCEPT ![j] = r] /\ r.pc = "fetch" /\ r.blob = b
    BY <2>0, <2>1, <2>2, CallGoes
  <2>4. /\ files \subseteq files' /\ blobs \subseteq blobs' /\ Exchange!MappedIsServed'
        /\ \A c \in wants : c \in wants' \/ c \in blobs'
        /\ r.blob \in wants' \cup blobs'
    BY <2>2, <2>3 DEF BlobInv, StoreOrdered, Exchange!MappedIsServed
  <2>5. jobs' \in [Exchange!JobIds -> CallRecs] /\ StoreOrdered' /\ MissingIsWanted'
    BY <2>0, <2>3, <2>4, CallKeeps
  <2> QED
    BY <2>2, <2>5, NotifyKeeps
<1>3. ASSUME NEW j \in Fetchers, Exchange!CancelWanted(j) PROVE BlobInv'
  <2>0. j \in Exchange!JobIds
    BY DEF Exchange!JobIds
  <2>1. PICK b \in Ids : b = jobs[j].blob /\ b \in blobs
    BY <1>3, <2>0 DEF Exchange!CancelWanted, BlobInv, BlobTypeOK, CallRecs, StoreOrdered
  <2>2. /\ UNCHANGED << creating, told >>  /\ UNCHANGED << files, blobs, table >> /\ Exchange!Go(j, "done")
        /\ \/ wants' = wants \ {b} /\ Exchange!NotifyLocked(b, FALSE)
           \/ UNCHANGED << wants, subs, dropped >>
    BY <1>3, <2>1 DEF Exchange!CancelWanted, Exchange!CancelWant
  <2>3. PICK r \in CallRecs : jobs' = [jobs EXCEPT ![j] = r] /\ r.pc = "done"
    BY <2>0, <2>2, CallGoes
  <2>4. /\ files \subseteq files' /\ blobs \subseteq blobs' /\ Exchange!MappedIsServed'
        /\ \A c \in wants : c \in wants' \/ c \in blobs'
    BY <2>1, <2>2 DEF BlobInv, StoreOrdered, Exchange!MappedIsServed
  <2>5. jobs' \in [Exchange!JobIds -> CallRecs] /\ StoreOrdered' /\ MissingIsWanted'
    BY <2>0, <2>3, <2>4, CallKeeps
  <2>6. CASE wants' = wants \ {b} /\ Exchange!NotifyLocked(b, FALSE)
    BY <2>2, <2>5, <2>6, NotifyKeeps
  <2>7. CASE UNCHANGED << wants, subs, dropped >>
    BY <2>2, <2>5, <2>7, StreamsKeep
  <2> QED
    BY <2>2, <2>6, <2>7
<1> QED
  BY <1>1, <1>2, <1>3

\* The steps of a createWants stream.
LEMMA StreamSteps ==
  ASSUME BlobInv, BlobParameters, NEW s \in Streams,
         \/ Exchange!Subscribe(s) \/ Exchange!Wants(s) \/ Exchange!TellWant(s) \/ Exchange!StreamEnds(s)
  PROVE  BlobInv'
<1> USE DEF Exchange!storeVars, Exchange!wantVars, Exchange!streamVars
<1>0. BlobTypeOK /\ WantedIsTold /\ subs[s] \in Seq(WantEvents) /\ Len(subs[s]) <= ChanCap
  BY DEF BlobInv, BlobTypeOK
<1>a. UNCHANGED << jobs, files, blobs, table, wants, dropped >>
  BY DEF Exchange!Subscribe, Exchange!Wants, Exchange!TellWant, Exchange!StreamEnds
<1>b. jobs' \in [Exchange!JobIds -> CallRecs] /\ StoreOrdered' /\ MissingIsWanted'
  BY <1>a DEF BlobInv, BlobTypeOK, StoreOrdered, MissingIsWanted, Exchange!MappedIsServed
<1>1. CASE Exchange!Subscribe(s)
  <2>1. BlobTypeOK'
    BY <1>0, <1>1, <1>a DEF Exchange!Subscribe, BlobTypeOK
  <2>2. WantedIsTold'
    BY <1>0, <1>1, <1>a DEF Exchange!Subscribe, BlobTypeOK, WantedIsTold, Queued
  <2> QED
    BY <2>1, <2>2, <1>b DEF BlobInv
<1>2. CASE Exchange!Wants(s)
  <2>1. BlobTypeOK'
    BY <1>0, <1>2, <1>a DEF Exchange!Wants, BlobTypeOK
  <2>2. WantedIsTold'
    BY <1>0, <1>2, <1>a DEF Exchange!Wants, BlobTypeOK, WantedIsTold, Queued
  <2> QED
    BY <2>1, <2>2, <1>b DEF BlobInv
<1>3. CASE Exchange!TellWant(s)
  <2>1. PICK q \in Seq(WantEvents) : q = subs[s] /\ q # << >> /\ Len(q) <= ChanCap
    BY <1>0, <1>3 DEF Exchange!TellWant
  <2>2. /\ Head(q) \in WantEvents /\ Head(q) = q[1] /\ Tail(q) \in Seq(WantEvents)
        /\ Len(Tail(q)) = Len(q) - 1
        /\ DOMAIN q = 1..Len(q) /\ DOMAIN Tail(q) = 1..(Len(q) - 1) /\ Len(q) \in Nat
        /\ \A i \in 1..(Len(q) - 1) : Tail(q)[i] = q[i + 1]
    BY <2>1
  <2>3. /\ subs' = [subs EXCEPT ![s] = Tail(q)] /\ creating[s] = "live" /\ UNCHANGED creating
        /\ told' = IF Head(q).want THEN [told EXCEPT ![s] = @ \cup {Head(q).blob}] ELSE told
    BY <1>3, <2>1 DEF Exchange!TellWant
  <2>4. /\ subs' \in [Streams -> Seq(WantEvents)] /\ subs'[s] = Tail(q)
        /\ \A v \in Streams \ {s} : subs'[v] = subs[v]
    BY <1>0, <2>2, <2>3 DEF BlobTypeOK
  <2>5. Head(q).blob \in Ids
    BY <2>2 DEF WantEvents
  <2>6. /\ told' \in [Streams -> SUBSET Ids] /\ \A v \in Streams : told[v] \subseteq told'[v]
        /\ Head(q).want => Head(q).blob \in told'[s]
    BY <1>0, <2>3, <2>5 DEF BlobTypeOK
  <2>7. Len(Tail(q)) <= ChanCap
    BY <2>1, <2>2 DEF BlobParameters
  <2>8. BlobTypeOK'
    BY <1>0, <1>a, <2>3, <2>4, <2>6, <2>7 DEF BlobTypeOK
  <2>9. ASSUME NEW b, Queued(s, b) PROVE b \in told'[s] \/ \E i \in DOMAIN subs'[s] : subs'[s][i].blob = b /\ subs'[s][i].want
    <3>1. PICK i \in DOMAIN q : q[i].blob = b /\ q[i].want
      BY <2>1, <2>9 DEF Queued
    <3>2. CASE i = 1
      BY <3>1, <3>2, <2>2, <2>6
    <3>3. CASE i # 1
      <4>1. i - 1 \in 1..(Len(q) - 1) /\ Tail(q)[i - 1] = q[i]
        BY <3>3, <2>2
      <4> QED
        BY <4>1, <3>1, <2>2, <2>4
    <3> QED
      BY <3>2, <3>3
  <2>10. WantedIsTold'
    <3> SUFFICES ASSUME NEW v \in Streams, creating[v] = "live", NEW b \in wants
                 PROVE  \/ b \in told'[v] \cup dropped[v]
                        \/ \E i \in DOMAIN subs'[v] : subs'[v][i].blob = b /\ subs'[v][i].want
      BY <1>a, <2>3 DEF WantedIsTold, Queued
    <3>1. b \in told[v] \cup dropped[v] \/ Queued(v, b)
      BY <1>0 DEF WantedIsTold
    <3>2. CASE v = s
      BY <3>1, <3>2, <2>6, <2>9
    <3>3. CASE v # s
      BY <3>1, <3>3, <2>4, <2>6 DEF Queued
    <3> QED
      BY <3>2, <3>3
  <2> QED
    BY <2>8, <2>10, <1>b DEF BlobInv
<1>4. CASE Exchange!StreamEnds(s)
  <2>0. << >> \in Seq(WantEvents) /\ Len(<< >>) <= ChanCap
    BY DEF BlobParameters
  <2>1. BlobTypeOK'
    BY <1>0, <1>4, <1>a, <2>0 DEF Exchange!StreamEnds, BlobTypeOK
  <2>2. WantedIsTold'
    BY <1>0, <1>4, <1>a DEF Exchange!StreamEnds, BlobTypeOK, WantedIsTold, Queued
  <2> QED
    BY <2>1, <2>2, <1>b DEF BlobInv
<1> QED
  BY <1>1, <1>2, <1>3, <1>4

\* Every step of the exchange keeps its invariant.
LEMMA NextBlobs ==
  ASSUME BlobInv, BlobParameters, Exchange!Next \/ UNCHANGED blobVars
  PROVE  BlobInv'
<1>1. CASE UNCHANGED blobVars
  BY <1>1 DEF blobVars, BlobInv, BlobTypeOK, StoreOrdered, MissingIsWanted, WantedIsTold, Queued,
     Exchange!MappedIsServed
<1>2. CASE Exchange!RunBlobGC \/ \E b \in BlobIds : Exchange!DeleteBlob(b)
  <2>1. /\ UNCHANGED << files, blobs, wants, subs, dropped, creating, told, jobs >>
        /\ table' \subseteq table
    BY <1>2 DEF Exchange!RunBlobGC, Exchange!DeleteBlob, Exchange!storeVars, Exchange!wantVars,
       Exchange!streamVars
  <2>2. jobs' \in [Exchange!JobIds -> CallRecs] /\ StoreOrdered' /\ MissingIsWanted'
    BY <2>1 DEF BlobInv, BlobTypeOK, StoreOrdered, MissingIsWanted, Exchange!MappedIsServed
  <2> QED
    BY <2>1, <2>2, StreamsKeep
<1>3. CASE Exchange!Crash
  <2>1. \A pc \in {"new", "done"} : LET r == [pc |-> pc, blob |-> NoBlob, tries |-> 0] IN
           r \in CallRecs /\ r.pc = pc
    BY DEF CallRecs, Ids
  <2>2. /\ jobs' \in [Exchange!JobIds -> CallRecs]
        /\ \A j \in Exchange!JobIds : jobs'[j].pc \in {"new", "done"}
    BY <1>3, <2>1 DEF Exchange!Crash
  <2>3. << >> \in Seq(WantEvents) /\ Len(<< >>) <= ChanCap
    BY DEF BlobParameters
  <2>4. BlobTypeOK'
    BY <1>3, <2>2, <2>3 DEF Exchange!Crash, BlobTypeOK
  <2>5. Fetchers \subseteq Exchange!JobIds
    BY DEF Exchange!JobIds
  <2>6. StoreOrdered' /\ MissingIsWanted'
    BY <1>3, <2>2, <2>5 DEF Exchange!Crash, BlobInv, StoreOrdered, MissingIsWanted,
       Exchange!MappedIsServed
  <2>7. WantedIsTold'
    BY <1>3 DEF Exchange!Crash, WantedIsTold
  <2> QED
    BY <2>4, <2>6, <2>7 DEF BlobInv
<1>4. Fetchers \cup Records \cup Uploads = Exchange!JobIds
  BY DEF Exchange!JobIds
<1> QED
  BY <1>1, <1>2, <1>3, <1>4, CallSteps, WantSteps, StreamSteps DEF Exchange!Next

\* The invariant gives the two promises about the store and the peers.
LEMMA BlobsImply == BlobInv => Exchange!MissingIsTold /\ Exchange!MappedIsServed
<1> SUFFICES ASSUME BlobInv, NEW j \in Fetchers, NEW s \in Streams,
                    jobs[j].pc \in {"fetch", "failed"}, jobs[j].blob \notin blobs,
                    creating[s] = "live", subs[s] = << >>, jobs[j].blob \notin dropped[s]
             PROVE  jobs[j].blob \in told[s]
  BY DEF Exchange!MissingIsTold, Exchange!Has, BlobInv, StoreOrdered
<1>1. jobs[j].blob \in wants
  BY DEF BlobInv, MissingIsWanted
<1> QED
  BY <1>1 DEF BlobInv, WantedIsTold, Queued

-----------------------------------------------------------------------------
(* What a peer is sent                                                       *)

\* Two sequences, one after the other.
LEMMA FlattenTwo ==
  ASSUME NEW s, Len(s) = 2
  PROVE  Exchange!FlattenSeq(s) = s[1] \o s[2]
<1> DEFINE step(f) == [i \in 1..2 |-> IF i = 1 THEN s[i] ELSE f[i - 1] \o s[i]]
           g == [i \in 1..2 |-> IF i = 1 THEN s[1] ELSE s[1] \o s[2]]
           flatten == CHOOSE f : f = [i \in 1..Len(s) |-> IF i = 1 THEN s[i] ELSE f[i - 1] \o s[i]]
<1>1. g = step(g)
  OBVIOUS
<1>2. Exchange!FlattenSeq(s) = flatten[2]
  BY DEF Exchange!FlattenSeq
<1>3. flatten = step(flatten)
  <2>1. \E f : f = step(f)
    BY <1>1
  <2>2. flatten = CHOOSE f : f = step(f)
    OBVIOUS
  <2> QED
    BY <2>1, <2>2
<1> HIDE DEF flatten
<1>4. flatten[1] = s[1] /\ flatten[2] = s[1] \o s[2]
  BY <1>3
<1> QED
  BY <1>2, <1>4

\* The same of three.
LEMMA FlattenThree ==
  ASSUME NEW s, Len(s) = 3
  PROVE  Exchange!FlattenSeq(s) = (s[1] \o s[2]) \o s[3]
<1> DEFINE step(f) == [i \in 1..3 |-> IF i = 1 THEN s[i] ELSE f[i - 1] \o s[i]]
           g == [i \in 1..3 |-> IF i = 1 THEN s[1] ELSE IF i = 2 THEN s[1] \o s[2] ELSE (s[1] \o s[2]) \o s[3]]
           flatten == CHOOSE f : f = [i \in 1..Len(s) |-> IF i = 1 THEN s[i] ELSE f[i - 1] \o s[i]]
<1>1. g = step(g)
  OBVIOUS
<1>2. Exchange!FlattenSeq(s) = flatten[3]
  BY DEF Exchange!FlattenSeq
<1>3. flatten = step(flatten)
  <2>1. \E f : f = step(f)
    BY <1>1
  <2>2. flatten = CHOOSE f : f = step(f)
    OBVIOUS
  <2> QED
    BY <2>1, <2>2
<1> HIDE DEF flatten
<1>4. \A i \in 1..3 : flatten[i] = IF i = 1 THEN s[i] ELSE flatten[i - 1] \o s[i]
  BY <1>3
<1>5. flatten[1] = s[1]
  BY <1>4
<1>6. 2 \in 1..3 /\ 3 \in 1..3 /\ 2 - 1 = 1 /\ 3 - 1 = 2
  OBVIOUS
<1>7. flatten[2] = flatten[1] \o s[2] /\ flatten[3] = flatten[2] \o s[3]
  BY <1>4, <1>6
<1> QED
  BY <1>2, <1>5, <1>7

\* The chunks of five bytes, and of the slices of them.
LEMMA Chunks ==
  ASSUME NEW S, NEW q \in Seq(S), Len(q) = 5
  PROVE  /\ (SubSeq(q, 1, 2) \o SubSeq(q, 3, 4)) \o SubSeq(q, 5, 5) = q
         /\ (SubSeq(q, 1, 2) \o SubSeq(q, 3, 3)) \o SubSeq(q, 4, 5) = q
         /\ SubSeq(SubSeq(q, 1, 2), 1, 2) = SubSeq(q, 1, 2)
         /\ SubSeq(SubSeq(q, 3, 4), 1, 2) = SubSeq(q, 3, 4)
         /\ SubSeq(SubSeq(q, 5, 5), 1, 1) = SubSeq(q, 5, 5)
         /\ SubSeq(SubSeq(q, 1, 3), 1, 2) = SubSeq(q, 1, 2)
         /\ SubSeq(SubSeq(q, 1, 3), 3, 3) = SubSeq(q, 3, 3)
         /\ SubSeq(SubSeq(q, 4, 5), 1, 2) = SubSeq(q, 4, 5)
<1>1. (SubSeq(q, 1, 2) \o SubSeq(q, 3, 4)) \o SubSeq(q, 5, 5) = q
  OBVIOUS
<1>2. (SubSeq(q, 1, 2) \o SubSeq(q, 3, 3)) \o SubSeq(q, 4, 5) = q
  OBVIOUS
<1>3. SubSeq(SubSeq(q, 1, 2), 1, 2) = SubSeq(q, 1, 2)
  OBVIOUS
<1>4. SubSeq(SubSeq(q, 3, 4), 1, 2) = SubSeq(q, 3, 4)
  OBVIOUS
<1>5. SubSeq(SubSeq(q, 5, 5), 1, 1) = SubSeq(q, 5, 5)
  OBVIOUS
<1>6. SubSeq(SubSeq(q, 1, 3), 1, 2) = SubSeq(q, 1, 2)
  OBVIOUS
<1>7. SubSeq(SubSeq(q, 1, 3), 3, 3) = SubSeq(q, 3, 3)
  OBVIOUS
<1>8. SubSeq(SubSeq(q, 4, 5), 1, 2) = SubSeq(q, 4, 5)
  OBVIOUS
<1> QED
  BY <1>1, <1>2, <1>3, <1>4, <1>5, <1>6, <1>7, <1>8

\* A source of five bytes, and of the slices of it, in chunks.
LEMMA Streamed ==
  ASSUME NEW S, NEW q \in Seq(S)
  PROVE  /\ Len(q) = 5 => /\ Len(Exchange!Stream(q)) = 3
                          /\ Exchange!Stream(q)[1] = SubSeq(q, 1, 2) /\ Exchange!Stream(q)[2] = SubSeq(q, 3, 4)
                          /\ Exchange!Stream(q)[3] = SubSeq(q, 5, 5)
         /\ Len(q) = 3 => Exchange!Stream(q) = << SubSeq(q, 1, 2), SubSeq(q, 3, 3) >>
         /\ Len(q) = 2 => Exchange!Stream(q) = << SubSeq(q, 1, 2) >>
         /\ Len(q) = 1 => Exchange!Stream(q) = << SubSeq(q, 1, 1) >>
<1> USE DEF Exchange!Stream, Exchange!Chunk
<1>0. 6 \div 2 = 3 /\ 4 \div 2 = 2 /\ 3 \div 2 = 1 /\ 2 \div 2 = 1
  OBVIOUS
<1>1. CASE Len(q) = 5
  <2>1. Exchange!Stream(q) = [n \in 1..3 |-> SubSeq(q, (n - 1) * 2 + 1, IF n * 2 < 5 THEN n * 2 ELSE 5)]
    BY <1>0, <1>1
  <2> HIDE DEF Exchange!Stream
  <2>2. Len(Exchange!Stream(q)) = 3
    BY <2>1
  <2> QED
    BY <1>1, <2>1, <2>2
<1>2. CASE Len(q) = 3
  <2>1. Exchange!Stream(q) = [n \in 1..2 |-> SubSeq(q, (n - 1) * 2 + 1, IF n * 2 < 3 THEN n * 2 ELSE 3)]
    BY <1>0, <1>2
  <2>2. Exchange!Stream(q) = [n \in 1..2 |-> IF n = 1 THEN SubSeq(q, 1, 2) ELSE SubSeq(q, 3, 3)]
    <3> HIDE DEF Exchange!Stream
    <3> QED
      BY <2>1
  <2> HIDE DEF Exchange!Stream
  <2> QED
    BY <1>2, <2>2
<1>3. CASE Len(q) = 2
  <2>1. Exchange!Stream(q) = [n \in 1..1 |-> SubSeq(q, (n - 1) * 2 + 1, IF n * 2 < 2 THEN n * 2 ELSE 2)]
    BY <1>0, <1>3
  <2>2. Exchange!Stream(q) = [n \in 1..1 |-> SubSeq(q, 1, 2)]
    <3> HIDE DEF Exchange!Stream
    <3> QED
      BY <2>1
  <2> HIDE DEF Exchange!Stream
  <2> QED
    BY <1>3, <2>2
<1>4. CASE Len(q) = 1
  <2>1. Exchange!Stream(q) = [n \in 1..1 |-> SubSeq(q, (n - 1) * 2 + 1, IF n * 2 < 1 THEN n * 2 ELSE 1)]
    BY <1>0, <1>4
  <2>2. Exchange!Stream(q) = [n \in 1..1 |-> SubSeq(q, 1, 1)]
    <3> HIDE DEF Exchange!Stream
    <3> QED
      BY <2>1
  <2> HIDE DEF Exchange!Stream
  <2> QED
    BY <1>4, <2>2
<1>5. Len(q) \in Nat
  OBVIOUS
<1> HIDE DEF Exchange!Stream
<1> QED
  BY <1>1, <1>2, <1>3, <1>4, <1>5

\* The slices that a peer asks for.
LEMMA Pieces ==
  ASSUME NEW S, NEW q \in Seq(S), Len(q) = 5
  PROVE  /\ SubSeq(q, 1, 2) \in Seq(S) /\ Len(SubSeq(q, 1, 2)) = 2
         /\ SubSeq(q, 3, 4) \in Seq(S) /\ Len(SubSeq(q, 3, 4)) = 2
         /\ SubSeq(q, 5, 5) \in Seq(S) /\ Len(SubSeq(q, 5, 5)) = 1 /\ SubSeq(q, 5, 5)[1] = q[5]
         /\ SubSeq(q, 1, 3) \in Seq(S) /\ Len(SubSeq(q, 1, 3)) = 3
         /\ SubSeq(q, 4, 5) \in Seq(S) /\ Len(SubSeq(q, 4, 5)) = 2
<1>1. \A i \in 1..5 : q[i] \in S
  BY ElementOfSeq
<1>2. SubSeq(q, 1, 2) \in Seq(S) /\ Len(SubSeq(q, 1, 2)) = 2
  BY <1>1, SubSeqProperties
<1>3. SubSeq(q, 3, 4) \in Seq(S) /\ Len(SubSeq(q, 3, 4)) = 2
  BY <1>1, SubSeqProperties
<1>4. SubSeq(q, 5, 5) \in Seq(S) /\ Len(SubSeq(q, 5, 5)) = 1 /\ SubSeq(q, 5, 5)[1] = q[5]
  BY <1>1, SubSeqProperties
<1>5. SubSeq(q, 1, 3) \in Seq(S) /\ Len(SubSeq(q, 1, 3)) = 3
  BY <1>1, SubSeqProperties
<1>6. SubSeq(q, 4, 5) \in Seq(S) /\ Len(SubSeq(q, 4, 5)) = 2
  BY <1>1, SubSeqProperties
<1> QED
  BY <1>2, <1>3, <1>4, <1>5, <1>6

\* A blob that is there is sent whole, at once or in slices; one that is not is refused.
LEMMA PeersGet == Exchange!MappedIsServed => Exchange!PeersGetTheBlob
<1> SUFFICES ASSUME Exchange!MappedIsServed, NEW b \in BlobIds
             PROVE  IF Exchange!HandleHas(b)
                    THEN /\ Exchange!FlattenSeq(Exchange!HandleGet(b)) = Exchange!Bytes(b)
                         /\ Exchange!HandleSize(b) = Len(Exchange!Bytes(b))
                         /\ \A size \in {0, Exchange!Chunk + 1} :
                               LET step == IF size = 0 THEN Exchange!Chunk ELSE size
                                   slices == [n \in 1..Exchange!Size(b) \div step + 1 |->
                                                 Exchange!HandleGetSlice(b, (n - 1) * step, size)] IN
                               Exchange!FlattenSeq(Exchange!FlattenSeq(slices)) = Exchange!Bytes(b)
                    ELSE /\ Exchange!HandleGet(b) = Exchange!NotFound
                         /\ Exchange!HandleGetSlice(b, 0, 0) = Exchange!NotFound
  BY DEF Exchange!PeersGetTheBlob
<1>1. CASE ~Exchange!HandleHas(b)
  BY <1>1 DEF Exchange!HandleHas, Exchange!HandleGet, Exchange!HandleGetSlice, Exchange!Get, Exchange!GetRange
<1>2. CASE Exchange!HandleHas(b)
  <2>0. /\ Exchange!Bytes(b) \in Seq({b} \X Nat) /\ Len(Exchange!Bytes(b)) = 5
        /\ \A i \in 1..5 : Exchange!Bytes(b)[i] = << b, i >>
    BY DEF Exchange!Bytes, Exchange!Chunk
  <2>1. PICK S : S = {b} \X Nat
    OBVIOUS
  <2>2. PICK q \in Seq(S) : q = Exchange!Bytes(b) /\ Len(q) = 5 /\ \A i \in 1..5 : q[i] = << b, i >>
    BY <2>0, <2>1
  <2>3. b \in blobs /\ b \in files
    BY <1>2 DEF Exchange!HandleHas, Exchange!Has, Exchange!MappedIsServed
  <2>4. /\ q # Exchange!NotFound
        /\ \A s \in Seq(S) : Len(s) \in {2, 3} => s # Exchange!NotFound
        /\ SubSeq(q, 5, 5) # Exchange!NotFound
    <3>1. Len(Exchange!NotFound) = 1 /\ Exchange!NotFound[1] = << NoBlob, 0 >>
      BY DEF Exchange!NotFound
    <3>2. q[5] # << NoBlob, 0 >>
      BY <2>2
    <3>3. SubSeq(q, 5, 5)[1] = q[5]
      BY <2>2, Pieces
    <3> QED
      BY <2>2, <3>1, <3>2, <3>3
  <2>5. Exchange!Get(b) = q /\ Exchange!Size(b) = 5 /\ Exchange!HandleSize(b) = 5
    BY <2>2, <2>3 DEF Exchange!Get, Exchange!Has, Exchange!Size, Exchange!HandleSize
  <2>6. Exchange!FlattenSeq(Exchange!HandleGet(b)) = q
    <3>1. Exchange!HandleGet(b) = Exchange!Stream(q)
      BY <2>4, <2>5 DEF Exchange!HandleGet
    <3>2. /\ Len(Exchange!Stream(q)) = 3
          /\ Exchange!Stream(q)[1] = SubSeq(q, 1, 2) /\ Exchange!Stream(q)[2] = SubSeq(q, 3, 4)
          /\ Exchange!Stream(q)[3] = SubSeq(q, 5, 5)
      BY <2>2, Streamed
    <3>3. PICK s : s = Exchange!Stream(q)
      OBVIOUS
    <3>4. Exchange!FlattenSeq(s) = (s[1] \o s[2]) \o s[3]
      BY <3>2, <3>3, FlattenThree
    <3>5. (SubSeq(q, 1, 2) \o SubSeq(q, 3, 4)) \o SubSeq(q, 5, 5) = q
      BY <2>2, Chunks
    <3> QED
      BY <3>1, <3>2, <3>3, <3>4, <3>5
  <2>7. /\ Exchange!GetRange(b, 0, 2) = SubSeq(q, 1, 2)
        /\ Exchange!GetRange(b, 2, 2) = SubSeq(q, 3, 4)
        /\ Exchange!GetRange(b, 4, 2) = SubSeq(q, 5, 5)
        /\ Exchange!GetRange(b, 0, 3) = SubSeq(q, 1, 3)
        /\ Exchange!GetRange(b, 3, 3) = SubSeq(q, 4, 5)
    <3>1. ASSUME NEW start \in {0, 2, 3, 4}, NEW size \in {2, 3}
          PROVE  Exchange!GetRange(b, start, size)
                 = SubSeq(q, start + 1, IF start + size < 5 THEN start + size ELSE 5)
      <4>1. ~(start < 0)
        OBVIOUS
      <4> QED
        BY <2>2, <2>4, <2>5, <4>1 DEF Exchange!GetRange
    <3>2. Exchange!GetRange(b, 0, 2) = SubSeq(q, 1, 2) /\ Exchange!GetRange(b, 2, 2) = SubSeq(q, 3, 4)
      BY <3>1
    <3>3. Exchange!GetRange(b, 4, 2) = SubSeq(q, 5, 5) /\ Exchange!GetRange(b, 0, 3) = SubSeq(q, 1, 3)
      BY <3>1
    <3>4. Exchange!GetRange(b, 3, 3) = SubSeq(q, 4, 5)
      BY <3>1
    <3> QED
      BY <3>2, <3>3, <3>4
  <2>8. /\ Exchange!HandleGetSlice(b, 0, 0) = << SubSeq(q, 1, 2) >>
        /\ Exchange!HandleGetSlice(b, 2, 0) = << SubSeq(q, 3, 4) >>
        /\ Exchange!HandleGetSlice(b, 4, 0) = << SubSeq(q, 5, 5) >>
        /\ Exchange!HandleGetSlice(b, 0, 3) = << SubSeq(q, 1, 2), SubSeq(q, 3, 3) >>
        /\ Exchange!HandleGetSlice(b, 3, 3) = << SubSeq(q, 4, 5) >>
    <3>0. Len(q) = 5
      BY <2>2
    <3>a. ASSUME NEW start, NEW size \in {0, 3}, NEW t,
                 Exchange!GetRange(b, start, IF size = 0 THEN 2 ELSE 3) = t, t # Exchange!NotFound
          PROVE  Exchange!HandleGetSlice(b, start, size) = Exchange!Stream(t)
      <4>1. (IF size <= 0 THEN 2 ELSE size) = IF size = 0 THEN 2 ELSE 3
        OBVIOUS
      <4> QED
        BY <3>a, <4>1 DEF Exchange!HandleGetSlice, Exchange!Chunk
    <3>1. Exchange!HandleGetSlice(b, 0, 0) = << SubSeq(q, 1, 2) >>
      <4>1. PICK t \in Seq(S) : t = SubSeq(q, 1, 2) /\ Len(t) = 2 /\ t # Exchange!NotFound
        BY <3>0, <2>4, Pieces
      <4>2. Exchange!HandleGetSlice(b, 0, 0) = Exchange!Stream(t)
        BY <3>a, <4>1, <2>7
      <4>3. Exchange!Stream(t) = << SubSeq(t, 1, 2) >>
        BY <4>1, Streamed
      <4>4. SubSeq(t, 1, 2) = SubSeq(q, 1, 2)
        BY <3>0, <4>1, Chunks
      <4> QED
        BY <4>1, <4>2, <4>3, <4>4
    <3>2. Exchange!HandleGetSlice(b, 2, 0) = << SubSeq(q, 3, 4) >>
      <4>1. PICK t \in Seq(S) : t = SubSeq(q, 3, 4) /\ Len(t) = 2 /\ t # Exchange!NotFound
        BY <3>0, <2>4, Pieces
      <4>2. Exchange!HandleGetSlice(b, 2, 0) = Exchange!Stream(t)
        BY <3>a, <4>1, <2>7
      <4>3. Exchange!Stream(t) = << SubSeq(t, 1, 2) >>
        BY <4>1, Streamed
      <4>4. SubSeq(t, 1, 2) = SubSeq(q, 3, 4)
        BY <3>0, <4>1, Chunks
      <4> QED
        BY <4>1, <4>2, <4>3, <4>4
    <3>3. Exchange!HandleGetSlice(b, 4, 0) = << SubSeq(q, 5, 5) >>
      <4>1. PICK t \in Seq(S) : t = SubSeq(q, 5, 5) /\ Len(t) = 1 /\ t # Exchange!NotFound
        BY <3>0, <2>4, Pieces
      <4>2. Exchange!HandleGetSlice(b, 4, 0) = Exchange!Stream(t)
        BY <3>a, <4>1, <2>7
      <4>3. Exchange!Stream(t) = << SubSeq(t, 1, 1) >>
        BY <4>1, Streamed
      <4>4. SubSeq(t, 1, 1) = SubSeq(q, 5, 5)
        BY <3>0, <4>1, Chunks
      <4> QED
        BY <4>1, <4>2, <4>3, <4>4
    <3>4. Exchange!HandleGetSlice(b, 0, 3) = << SubSeq(q, 1, 2), SubSeq(q, 3, 3) >>
      <4>1. PICK t \in Seq(S) : t = SubSeq(q, 1, 3) /\ Len(t) = 3 /\ t # Exchange!NotFound
        BY <3>0, <2>4, Pieces
      <4>2. Exchange!HandleGetSlice(b, 0, 3) = Exchange!Stream(t)
        BY <3>a, <4>1, <2>7
      <4>3. Exchange!Stream(t) = << SubSeq(t, 1, 2), SubSeq(t, 3, 3) >>
        BY <4>1, Streamed
      <4>4. SubSeq(t, 1, 2) = SubSeq(q, 1, 2) /\ SubSeq(t, 3, 3) = SubSeq(q, 3, 3)
        BY <3>0, <4>1, Chunks
      <4> QED
        BY <4>1, <4>2, <4>3, <4>4
    <3>5. Exchange!HandleGetSlice(b, 3, 3) = << SubSeq(q, 4, 5) >>
      <4>1. PICK t \in Seq(S) : t = SubSeq(q, 4, 5) /\ Len(t) = 2 /\ t # Exchange!NotFound
        BY <3>0, <2>4, Pieces
      <4>2. Exchange!HandleGetSlice(b, 3, 3) = Exchange!Stream(t)
        BY <3>a, <4>1, <2>7
      <4>3. Exchange!Stream(t) = << SubSeq(t, 1, 2) >>
        BY <4>1, Streamed
      <4>4. SubSeq(t, 1, 2) = SubSeq(q, 4, 5)
        BY <3>0, <4>1, Chunks
      <4> QED
        BY <4>1, <4>2, <4>3, <4>4
    <3> QED
      BY <3>1, <3>2, <3>3, <3>4, <3>5
  <2>9. LET slices == [n \in 1..5 \div 2 + 1 |-> Exchange!HandleGetSlice(b, (n - 1) * 2, 0)] IN
        Exchange!FlattenSeq(Exchange!FlattenSeq(slices)) = q
    <3>1. PICK slices : slices = [n \in 1..5 \div 2 + 1 |-> Exchange!HandleGetSlice(b, (n - 1) * 2, 0)]
      OBVIOUS
    <3>2. 5 \div 2 + 1 = 3
      OBVIOUS
    <3>3. /\ Len(slices) = 3 /\ slices[1] = << SubSeq(q, 1, 2) >>
          /\ slices[2] = << SubSeq(q, 3, 4) >> /\ slices[3] = << SubSeq(q, 5, 5) >>
      BY <3>1, <3>2, <2>8
    <3>4. PICK s : s = Exchange!FlattenSeq(slices)
      OBVIOUS
    <3>5. s = (<< SubSeq(q, 1, 2) >> \o << SubSeq(q, 3, 4) >>) \o << SubSeq(q, 5, 5) >>
      BY <3>3, <3>4, FlattenThree
    <3>6. Len(s) = 3 /\ s[1] = SubSeq(q, 1, 2) /\ s[2] = SubSeq(q, 3, 4) /\ s[3] = SubSeq(q, 5, 5)
      BY <3>5
    <3>7. Exchange!FlattenSeq(s) = (s[1] \o s[2]) \o s[3]
      BY <3>6, FlattenThree
    <3>8. (SubSeq(q, 1, 2) \o SubSeq(q, 3, 4)) \o SubSeq(q, 5, 5) = q
      BY <2>2, Chunks
    <3> QED
      BY <3>1, <3>4, <3>6, <3>7, <3>8
  <2>10. LET slices == [n \in 1..5 \div 3 + 1 |-> Exchange!HandleGetSlice(b, (n - 1) * 3, 3)] IN
         Exchange!FlattenSeq(Exchange!FlattenSeq(slices)) = q
    <3>1. PICK slices : slices = [n \in 1..5 \div 3 + 1 |-> Exchange!HandleGetSlice(b, (n - 1) * 3, 3)]
      OBVIOUS
    <3>2. 5 \div 3 + 1 = 2
      OBVIOUS
    <3>3. /\ Len(slices) = 2 /\ slices[1] = << SubSeq(q, 1, 2), SubSeq(q, 3, 3) >>
          /\ slices[2] = << SubSeq(q, 4, 5) >>
      BY <3>1, <3>2, <2>8
    <3>4. PICK s : s = Exchange!FlattenSeq(slices)
      OBVIOUS
    <3>5. s = << SubSeq(q, 1, 2), SubSeq(q, 3, 3) >> \o << SubSeq(q, 4, 5) >>
      BY <3>3, <3>4, FlattenTwo
    <3>6. Len(s) = 3 /\ s[1] = SubSeq(q, 1, 2) /\ s[2] = SubSeq(q, 3, 3) /\ s[3] = SubSeq(q, 4, 5)
      BY <3>5
    <3>7. Exchange!FlattenSeq(s) = (s[1] \o s[2]) \o s[3]
      BY <3>6, FlattenThree
    <3>8. (SubSeq(q, 1, 2) \o SubSeq(q, 3, 3)) \o SubSeq(q, 4, 5) = q
      BY <2>2, Chunks
    <3> QED
      BY <3>1, <3>4, <3>6, <3>7, <3>8
  <2>11. \A size \in {0, Exchange!Chunk + 1} :
            LET step == IF size = 0 THEN Exchange!Chunk ELSE size
                slices == [n \in 1..Exchange!Size(b) \div step + 1 |->
                              Exchange!HandleGetSlice(b, (n - 1) * step, size)] IN
            Exchange!FlattenSeq(Exchange!FlattenSeq(slices)) = q
    <3> SUFFICES ASSUME NEW size \in {0, 3}
                 PROVE  Exchange!FlattenSeq(Exchange!FlattenSeq(
                            [n \in 1..5 \div (IF size = 0 THEN 2 ELSE size) + 1 |->
                                Exchange!HandleGetSlice(b, (n - 1) * (IF size = 0 THEN 2 ELSE size), size)])) = q
      <4>1. Exchange!Chunk = 2 /\ Exchange!Chunk + 1 = 3
        BY DEF Exchange!Chunk
      <4> QED
        BY <2>5, <4>1
    <3>1. CASE size = 0
      BY <3>1, <2>9
    <3>2. CASE size = 3
      BY <3>2, <2>10
    <3> QED
      BY <3>1, <3>2
  <2> QED
    BY <1>2, <2>2, <2>5, <2>6, <2>11
<1> QED
  BY <1>1, <1>2

\* A blob that EnsureBlob did not get is known to every peer that has read its stream, unless
\* the subscription was full; what the bridge refers to is in the store; and a peer that asks
\* for it gets its bytes: for any number of blobs, calls, streams and crashes.
THEOREM BlobsAreRight ==
    ASSUME BlobParameters
    PROVE  FaultsSpec => []BlobsAreServed
<1> DEFINE every == << part, faults, reverseVars, blobVars, feedVars, followVars >>
<1>1. FaultsInit => BlobInv
  BY InitBlobs
<1>2. BlobInv /\ [FaultsNext]_every => BlobInv'
  <2> SUFFICES ASSUME BlobInv, [FaultsNext]_every PROVE BlobInv'
    OBVIOUS
  <2>1. Exchange!Next \/ UNCHANGED blobVars
    BY DEF FaultsNext
  <2> QED
    BY <2>1, NextBlobs
<1>3. BlobInv => BlobsAreServed
  BY BlobsImply, PeersGet DEF BlobsAreServed
<1> QED
  BY <1>1, <1>2, <1>3, PTL DEF FaultsSpec
=============================================================================
