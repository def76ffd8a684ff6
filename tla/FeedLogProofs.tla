--------------------------- MODULE FeedLogProofs ---------------------------
(***************************************************************************)
(* Proofs about FeedLog for any feeds, any number of writers and any bounds:*)
(* the store implements AppendLog, and the index and the history stream     *)
(* agree with the logs.                                                     *)
(***************************************************************************)
EXTENDS FeedLog, FiniteSetTheorems, TLAPS

\* What the constants are: a publisher's feed is a feed, the writers are goroutines
\* of one process, and the bounds are numbers.
Parameters ==
    /\ Own \subseteq Feeds /\ IsFiniteSet(Writers)
    /\ MaxSeq \in Nat /\ MaxCalls \in Nat

\* A call before its message is in the log of the feed, and between that and the
\* receive log.
Before == {"open", "create", "check", "select", "insert", "commit"}
After == {"receive", "rselect", "rinsert", "rcommit"}
Resting == {"idle", "ok", "failed"}

Calls == [op : {"none", "replicate", "publish"}, at : Resting \cup Before \cup After,
          msg : Messages \cup {NoMessage}, attempt : Nat, snap : Nat, seq : Nat]

\* The types of the tables and of the calls.
TypeOK ==
    /\ known \subseteq Feeds
    /\ logs \in [Feeds -> Seq(Messages)]
    /\ received \in Seq(Messages)
    /\ version \in Nat /\ calls \in 0..MaxCalls
    /\ call \in [Writers -> Calls]
    /\ \A w \in Writers : call[w].at \notin Resting => call[w].msg \in Messages

\* The number that a transaction has read is the next one for as long as nothing was
\* committed since, and a writer that has inserted excludes the others.
SnapshotHolds ==
    \A w \in Writers :
        /\ call[w].at \in Inserts \cup Commits /\ call[w].snap = version =>
              call[w].seq = IF call[w].at \in {"insert", "commit"}
                            THEN Len(logs[call[w].msg.feed]) + 1 ELSE Len(received) + 1
        /\ call[w].at \in Inserts => call[w].snap <= version
        /\ call[w].at \in Commits => call[w].snap = version /\ lock = {w}

\* The calls that have yet to append to the log of f, and to receive m.
Owed(f) == {w \in Writers : call[w].at \in Before /\ call[w].msg.feed = f}
Due(m) == {w \in Writers : call[w].at \in After /\ call[w].msg = m}

\* A log has no more messages than calls were made,
LogsBounded == \A f \in Feeds : Len(logs[f]) + Cardinality(Owed(f)) <= calls
\* and the receive log lags behind by the calls that are between the two appends.
ReceivedBehind ==
    \A m \in Messages :
        Abstract!Count(received, m) + Cardinality(Due(m)) <= Abstract!Count(logs[m.feed], m)

\* The inductive invariant behind LogsAppendOnly.
AppendInv == TypeOK /\ SnapshotHolds /\ LogsBounded /\ ReceivedBehind

\* The reader's place: what it has seen of its log is there.
ReaderBehind ==
    /\ reader.start \in Nat /\ reader.seen \in Nat
    /\ reader.sent \in Seq(Messages)
    /\ reader.at \in {"closed", "end"} => reader.sent = <<>>
    /\ reader.at \notin {"closed", "end"} =>
          /\ reader.feed \in Feeds
          /\ reader.seen <= Len(logs[reader.feed])

-----------------------------------------------------------------------------
\* AppendLog counts with the same operator.
LEMMA SameCardinality == \A S : Abstract!Cardinality(S) = Cardinality(S)
    BY DEF Abstract!Cardinality, Cardinality

\* Appending x adds one to the count of x and nothing to the others.
LEMMA CountAppend ==
    ASSUME NEW S, NEW s \in Seq(S), NEW x \in S, NEW m
    PROVE  /\ Abstract!Count(s, m) \in Nat
           /\ Abstract!Count(Append(s, x), m) = Abstract!Count(s, m) + IF x = m THEN 1 ELSE 0
<1> DEFINE C == {i \in DOMAIN s : s[i] = m}
           D == {i \in DOMAIN Append(s, x) : Append(s, x)[i] = m}
<1>1. Len(s) \in Nat /\ DOMAIN s = 1..Len(s) /\ DOMAIN Append(s, x) = 1..(Len(s) + 1)
    OBVIOUS
<1>2. IsFiniteSet(C) /\ Cardinality(C) \in Nat
  <2>1. IsFiniteSet(1..Len(s))
    BY <1>1, FS_Interval
  <2>2. C \subseteq 1..Len(s)
    BY <1>1
  <2> QED
    BY <2>1, <2>2, FS_Subset, FS_CardinalityType
<1>3. D = IF x = m THEN C \cup {Len(s) + 1} ELSE C
    BY <1>1
<1>4. Len(s) + 1 \notin C
    BY <1>1
<1> HIDE DEF C, D
<1>5. Cardinality(D) = Cardinality(C) + IF x = m THEN 1 ELSE 0
  <2>1. Cardinality(C \cup {Len(s) + 1}) = Cardinality(C) + 1
    BY <1>2, <1>4, FS_AddElement
  <2>2. CASE x = m
    <3>1. D = C \cup {Len(s) + 1}
      BY <1>3, <2>2
    <3> QED
      BY <2>1, <2>2, <3>1
  <2>3. CASE x # m
    <3>1. D = C
      BY <1>3, <2>3
    <3> QED
      BY <1>2, <2>3, <3>1
  <2> QED
    BY <2>2, <2>3
<1> QED
    BY <1>2, <1>5, SameCardinality DEF Abstract!Count, C, D

\* The sets of calls are finite.
LEMMA Finite ==
    ASSUME Parameters
    PROVE  /\ \A f : IsFiniteSet(Owed(f)) /\ Cardinality(Owed(f)) \in Nat
           /\ \A m : IsFiniteSet(Due(m)) /\ Cardinality(Due(m)) \in Nat
<1>1. \A f : Owed(f) \subseteq Writers
    BY DEF Owed
<1>2. \A m : Due(m) \subseteq Writers
    BY DEF Due
<1> QED
    BY <1>1, <1>2, FS_Subset, FS_CardinalityType DEF Parameters

\* And so they are behind a step.
LEMMA FinitePrimed ==
    ASSUME Parameters
    PROVE  /\ \A f : IsFiniteSet(Owed(f)') /\ Cardinality(Owed(f)') \in Nat
           /\ \A m : IsFiniteSet(Due(m)') /\ Cardinality(Due(m)') \in Nat
<1>1. \A f : Owed(f)' \subseteq Writers
    BY DEF Owed
<1>2. \A m : Due(m)' \subseteq Writers
    BY DEF Due
<1> QED
    BY <1>1, <1>2, FS_Subset, FS_CardinalityType DEF Parameters

-----------------------------------------------------------------------------
\* A fresh store satisfies the invariant.
LEMMA InitAppend == Parameters /\ Init => AppendInv
<1> SUFFICES ASSUME Parameters, Init PROVE AppendInv
    OBVIOUS
<1>1. Idle \in Calls
    BY DEF Idle, Calls, Resting
<1>2. TypeOK
    BY <1>1 DEF Init, Parameters, TypeOK, Idle, Resting
<1>3. SnapshotHolds
    BY DEF Init, SnapshotHolds, Idle, Inserts, Commits
<1>4. \A f : Owed(f) = {}
    BY DEF Init, Owed, Idle, Before
<1>5. \A m : Due(m) = {}
    BY DEF Init, Due, Idle, After
<1>6. LogsBounded
  <2> SUFFICES ASSUME NEW f \in Feeds PROVE Len(logs[f]) + Cardinality(Owed(f)) <= calls
    BY DEF LogsBounded
  <2>1. Len(logs[f]) = 0 /\ calls = 0
    BY DEF Init
  <2>2. Cardinality(Owed(f)) = 0
    BY <1>4, FS_EmptySet
  <2> QED
    BY <2>1, <2>2
<1>7. ReceivedBehind
  <2> SUFFICES ASSUME NEW m \in Messages
               PROVE  Abstract!Count(received, m) + Cardinality(Due(m))
                          <= Abstract!Count(logs[m.feed], m)
    BY DEF ReceivedBehind
  <2>1. m.feed \in Feeds
    BY DEF Messages
  <2>2. Abstract!Count(<<>>, m) = 0
    <3>1. {i \in DOMAIN <<>> : (<<>>)[i] = m} = {}
      OBVIOUS
    <3> QED
      BY <3>1, FS_EmptySet, SameCardinality DEF Abstract!Count
  <2>3. Cardinality(Due(m)) = 0
    BY <1>5, FS_EmptySet
  <2>4. received = <<>> /\ logs[m.feed] = <<>>
    BY <2>1 DEF Init
  <2> QED
    BY <2>2, <2>3, <2>4
<1> QED
    BY <1>2, <1>3, <1>6, <1>7 DEF AppendInv

-----------------------------------------------------------------------------
\* A call that goes on with its message, or ends, disturbs neither the types nor the
\* counts.
LEMMA QuietCall ==
    ASSUME Parameters, AppendInv, NEW w \in Writers, NEW c \in Calls,
           call' = [call EXCEPT ![w] = c],
           c.at \notin Resting => call[w].at \notin Resting /\ c.msg = call[w].msg,
           c.at \in Before => call[w].at \in Before,
           c.at \in After => call[w].at \in After,
           known' \subseteq Feeds, version' \in Nat, UNCHANGED << logs, received, calls >>
    PROVE  TypeOK' /\ LogsBounded' /\ ReceivedBehind'
<1> USE DEF AppendInv
<1>1. TypeOK'
    BY DEF TypeOK
<1>a. Before \cap Resting = {} /\ After \cap Resting = {}
    BY DEF Before, After, Resting
<1>2. \A f : Owed(f)' \subseteq Owed(f)
    BY <1>a DEF Owed, TypeOK
<1>3. \A m : Due(m)' \subseteq Due(m)
    BY <1>a DEF Due, TypeOK
<1>4. \A f : Cardinality(Owed(f)') <= Cardinality(Owed(f)) /\ Cardinality(Owed(f)') \in Nat
    BY <1>2, Finite, FinitePrimed, FS_Subset
<1>5. \A m : Cardinality(Due(m)') <= Cardinality(Due(m)) /\ Cardinality(Due(m)') \in Nat
    BY <1>3, Finite, FinitePrimed, FS_Subset
<1>6. LogsBounded'
  <2> SUFFICES ASSUME NEW f \in Feeds PROVE Len(logs[f]) + Cardinality(Owed(f)') <= calls
    BY DEF LogsBounded
  <2>1. Len(logs[f]) + Cardinality(Owed(f)) <= calls /\ Len(logs[f]) \in Nat /\ calls \in Nat
    BY DEF LogsBounded, TypeOK
  <2>2. Cardinality(Owed(f)') <= Cardinality(Owed(f))
        /\ Cardinality(Owed(f)') \in Nat /\ Cardinality(Owed(f)) \in Nat
    BY <1>4, Finite
  <2> QED
    BY <2>1, <2>2
<1>7. ReceivedBehind'
  <2> SUFFICES ASSUME NEW m \in Messages
               PROVE  Abstract!Count(received, m) + Cardinality(Due(m)')
                          <= Abstract!Count(logs[m.feed], m)
    BY DEF ReceivedBehind, Abstract!Count
  <2>1. Abstract!Count(received, m) + Cardinality(Due(m)) <= Abstract!Count(logs[m.feed], m)
    BY DEF ReceivedBehind
  <2>2. Abstract!Count(received, m) \in Nat /\ Abstract!Count(logs[m.feed], m) \in Nat
    <3>1. received \in Seq(Messages) /\ logs[m.feed] \in Seq(Messages)
      BY DEF TypeOK, Messages
    <3> QED
      BY <3>1, CountAppend
  <2>3. Cardinality(Due(m)') <= Cardinality(Due(m))
        /\ Cardinality(Due(m)') \in Nat /\ Cardinality(Due(m)) \in Nat
    BY <1>5, Finite
  <2> QED
    BY <2>1, <2>2, <2>3
<1> QED
    BY <1>1, <1>6, <1>7

\* Ending a call.
LEMMA QuietDone ==
    ASSUME Parameters, AppendInv, NEW w \in Writers, NEW at \in {"ok", "failed"}, Done(w, at),
           UNCHANGED << known, version, logs, received, calls >>
    PROVE  TypeOK' /\ LogsBounded' /\ ReceivedBehind'
<1> DEFINE c == [Idle EXCEPT !.at = at]
<1>1. c \in Calls /\ c.at \in Resting /\ c.at \notin Before /\ c.at \notin After
    BY DEF Idle, Calls, Resting, Before, After
<1>2. call' = [call EXCEPT ![w] = c]
    BY DEF Done
<1>3. known' \subseteq Feeds /\ version' \in Nat
    BY DEF AppendInv, TypeOK
<1> HIDE DEF c
<1> QED
    BY <1>1, <1>2, <1>3, QuietCall

\* A transaction leaves the snapshots of the others alone when it commits nothing.
LEMMA QuietSnapshots ==
    ASSUME AppendInv, NEW w \in Writers,
           \A v \in Writers \ {w} : call'[v] = call[v],
           lock' = lock \ {w} \/ lock' = lock,
           call'[w].at \notin Inserts \cup Commits, UNCHANGED << logs, received, version >>
    PROVE  SnapshotHolds'
<1> SUFFICES ASSUME NEW v \in Writers, v # w PROVE
        /\ call[v].at \in Inserts \cup Commits /\ call[v].snap = version =>
              call[v].seq = IF call[v].at \in {"insert", "commit"}
                            THEN Len(logs[call[v].msg.feed]) + 1 ELSE Len(received) + 1
        /\ call[v].at \in Inserts => call[v].snap <= version
        /\ call[v].at \in Commits => call[v].snap = version /\ lock' = {v}
    BY DEF SnapshotHolds, Inserts, Commits
<1> QED
    BY DEF AppendInv, SnapshotHolds, Inserts, Commits

-----------------------------------------------------------------------------
(* The steps that commit nothing                                             *)

\* A call begins: one more may be owed to a log.
LEMMA BeginCall ==
    ASSUME Parameters, AppendInv, NEW w \in Writers, NEW c \in Calls,
           call' = [call EXCEPT ![w] = c], call[w].at \in Resting,
           c.at \in {"open", "select"}, c.msg \in Messages, calls < MaxCalls, calls' = calls + 1,
           UNCHANGED << tables, lock, rx >>
    PROVE  AppendInv'
<1> USE DEF AppendInv, tables
<1>a. c.at \in Before /\ c.at \notin After /\ c.at \notin Inserts \cup Commits
    BY DEF Before, After, Inserts, Commits
<1>b. call[w].at \notin Before /\ call[w].at \notin After
    BY DEF Before, After, Resting
<1>1. TypeOK'
    BY <1>a DEF TypeOK, Resting, Parameters
<1>2. SnapshotHolds'
    BY <1>a, QuietSnapshots DEF TypeOK
<1>3. \A f : Owed(f)' \subseteq Owed(f) \cup {w}
    BY DEF Owed, TypeOK
<1>4. \A m : Due(m)' = Due(m)
    BY <1>a, <1>b DEF Due, TypeOK
<1>5. LogsBounded'
  <2> SUFFICES ASSUME NEW f \in Feeds PROVE Len(logs[f]) + Cardinality(Owed(f)') <= calls + 1
    BY DEF LogsBounded
  <2>1. IsFiniteSet(Owed(f)) /\ Cardinality(Owed(f)) \in Nat /\ Cardinality(Owed(f)') \in Nat
    BY Finite, FinitePrimed
  <2>2. w \notin Owed(f)
    BY <1>b DEF Owed
  <2>3. IsFiniteSet(Owed(f) \cup {w}) /\ Cardinality(Owed(f) \cup {w}) = Cardinality(Owed(f)) + 1
    BY <2>1, <2>2, FS_AddElement
  <2>4. Cardinality(Owed(f)') <= Cardinality(Owed(f)) + 1
    BY <1>3, <2>3, FS_Subset
  <2>5. Len(logs[f]) + Cardinality(Owed(f)) <= calls /\ Len(logs[f]) \in Nat /\ calls \in Nat
    BY DEF LogsBounded, TypeOK
  <2> QED
    BY <2>1, <2>4, <2>5
<1>6. ReceivedBehind'
    BY <1>4 DEF ReceivedBehind, Abstract!Count
<1> QED
    BY <1>1, <1>2, <1>5, <1>6

\* The position that a new message of a feed is given is within the bound.
LEMMA LengthBounded ==
    ASSUME Parameters, AppendInv, NEW f \in Feeds PROVE Len(logs[f]) \in Nat /\ Len(logs[f]) <= calls
<1>1. Len(logs[f]) + Cardinality(Owed(f)) <= calls
    BY DEF AppendInv, LogsBounded
<1>2. Len(logs[f]) \in Nat /\ calls \in Nat
    BY DEF AppendInv, TypeOK
<1>3. Cardinality(Owed(f)) \in Nat
    BY Finite
<1> QED
    BY <1>1, <1>2, <1>3

\* A replicated message comes, or an own one is published.
LEMMA StepBegin ==
    ASSUME Parameters, AppendInv, NEW w \in Writers, BeginReplicate(w) \/ Publish(w)
    PROVE  AppendInv'
<1>1. CASE BeginReplicate(w)
  <2>1. PICK f \in Feeds \ Own, s \in 1..MaxSeq :
            call' = [call EXCEPT ![w] = [Idle EXCEPT !.op = "replicate", !.at = "open",
                                                     !.msg = [feed |-> f, seq |-> s, id |-> 0]]]
    BY <1>1 DEF BeginReplicate
  <2> DEFINE c == [Idle EXCEPT !.op = "replicate", !.at = "open",
                               !.msg = [feed |-> f, seq |-> s, id |-> 0]]
  <2>2. [feed |-> f, seq |-> s, id |-> 0] \in Messages
    BY DEF Messages, Parameters
  <2>3. c \in Calls /\ c.at = "open" /\ c.msg \in Messages
    BY <2>2 DEF Idle, Calls, Before
  <2>4. call' = [call EXCEPT ![w] = c]
    BY <2>1
  <2> HIDE DEF c
  <2> QED
    BY <1>1, <2>3, <2>4, BeginCall DEF BeginReplicate, Resting
<1>2. CASE Publish(w)
  <2>1. PICK f \in Own :
            call' = [call EXCEPT ![w] = [Idle EXCEPT !.op = "publish", !.at = "select",
                        !.msg = [feed |-> f, seq |-> IF Seq_(f) >= 0 THEN Seq_(f) + 1 ELSE 1,
                                 id |-> calls + 1]]]
    BY <1>2 DEF Publish
  <2> DEFINE m == [feed |-> f, seq |-> IF Seq_(f) >= 0 THEN Seq_(f) + 1 ELSE 1, id |-> calls + 1]
             c == [Idle EXCEPT !.op = "publish", !.at = "select", !.msg = m]
  <2>2. m \in Messages
    <3>1. f \in Feeds
      BY DEF Parameters
    <3>2. Len(logs[f]) \in Nat /\ Len(logs[f]) <= calls /\ calls \in Nat /\ calls < MaxCalls
      <4>1. Len(logs[f]) \in Nat /\ Len(logs[f]) <= calls
        BY <3>1, LengthBounded
      <4>2. calls < MaxCalls
        BY <1>2 DEF Publish
      <4>3. calls \in Nat
        BY DEF AppendInv, TypeOK
      <4> QED
        BY <4>1, <4>2, <4>3
    <3>3. m.seq \in 1..(MaxCalls + MaxSeq)
      BY <3>2 DEF Seq_, Parameters
    <3>4. m.id \in 0..MaxCalls
      BY <3>2 DEF Parameters
    <3> QED
      BY <3>1, <3>3, <3>4 DEF Messages
  <2> HIDE DEF m
  <2>3. c \in Calls /\ c.at = "select" /\ c.msg \in Messages
    BY <2>2 DEF Idle, Calls, Before
  <2>4. call' = [call EXCEPT ![w] = c]
    BY <2>1 DEF m
  <2> HIDE DEF c
  <2> QED
    BY <1>2, <2>3, <2>4, BeginCall DEF Publish, Resting
<1> QED
    BY <1>1, <1>2

\* Opening the log, checking the sequence number and taking the mutex.
LEMMA StepPrepare ==
    ASSUME Parameters, AppendInv, NEW w \in Writers,
           MultiLogGet(w) \/ CheckSequence(w) \/ LockReceive(w)
    PROVE  AppendInv' /\ UNCHANGED << logs, received >>
<1> USE DEF AppendInv, tables, Bounds
<1>a. call[w] \in Calls
    BY DEF TypeOK
<1>1. CASE MultiLogGet(w)
  <2> DEFINE a == IF call[w].msg.feed \in known THEN "check" ELSE "create"
             c == [call[w] EXCEPT !.at = a]
  <2>1. c \in Calls /\ c.at \in Before /\ c.at \notin After /\ c.msg = call[w].msg
        /\ c.at \notin Inserts \cup Commits /\ call' = [call EXCEPT ![w] = c]
    BY <1>1, <1>a DEF MultiLogGet, To, Calls, Before, After, Inserts, Commits, TypeOK
  <2>2. call[w].at \in Before /\ call[w].at \notin Resting
    BY <1>1 DEF MultiLogGet, At, Before, Resting
  <2>3. UNCHANGED << logs, received, calls, known, version, lock >>
    BY <1>1 DEF MultiLogGet
  <2> HIDE DEF c
  <2>4. TypeOK' /\ LogsBounded' /\ ReceivedBehind'
    <3>1. known' \subseteq Feeds /\ version' \in Nat
      BY <2>3 DEF TypeOK
    <3> QED
      BY <2>1, <2>2, <2>3, <3>1, QuietCall
  <2>5. SnapshotHolds'
    BY <2>1, <2>3, QuietSnapshots DEF TypeOK
  <2> QED
    BY <2>3, <2>4, <2>5
<1>2. CASE CheckSequence(w)
  <2>0. UNCHANGED << logs, received, calls, known, version, lock >> /\ At(w, "check")
    BY <1>2 DEF CheckSequence
  <2>1. CASE Done(w, "ok") \/ Done(w, "failed")
    <3>1. TypeOK' /\ LogsBounded' /\ ReceivedBehind'
      BY <2>0, <2>1, QuietDone
    <3>2. call'[w].at \notin Inserts \cup Commits /\ \A v \in Writers \ {w} : call'[v] = call[v]
      BY <2>1 DEF Done, Idle, Inserts, Commits, TypeOK
    <3>3. SnapshotHolds'
      BY <2>0, <3>2, QuietSnapshots
    <3> QED
      BY <2>0, <3>1, <3>3
  <2>2. CASE To(w, "select")
    <3> DEFINE c == [call[w] EXCEPT !.at = "select"]
    <3>1. c \in Calls /\ c.at \in Before /\ c.at \notin After /\ c.msg = call[w].msg
          /\ c.at \notin Inserts \cup Commits /\ call' = [call EXCEPT ![w] = c]
      BY <2>2, <1>a DEF To, Calls, Before, After, Inserts, Commits, TypeOK
    <3>2. call[w].at \in Before /\ call[w].at \notin Resting
      BY <2>0 DEF At, Before, Resting
    <3> HIDE DEF c
    <3>3. TypeOK' /\ LogsBounded' /\ ReceivedBehind'
      <4>1. known' \subseteq Feeds /\ version' \in Nat
        BY <2>0 DEF TypeOK
      <4> QED
        BY <2>0, <3>1, <3>2, <4>1, QuietCall
    <3>4. SnapshotHolds'
      BY <2>0, <3>1, QuietSnapshots DEF TypeOK
    <3> QED
      BY <2>0, <3>3, <3>4
  <2> QED
    BY <1>2, <2>1, <2>2 DEF CheckSequence
<1>3. CASE LockReceive(w)
  <2> DEFINE c == [call[w] EXCEPT !.at = "rselect", !.attempt = 0]
  <2>1. c \in Calls /\ c.at \in After /\ c.at \notin Before /\ c.msg = call[w].msg
        /\ c.at \notin Inserts \cup Commits /\ call' = [call EXCEPT ![w] = c]
    BY <1>3, <1>a DEF LockReceive, Calls, Before, After, Inserts, Commits, TypeOK
  <2>2. call[w].at \in After /\ call[w].at \notin Resting
    BY <1>3 DEF LockReceive, At, After, Resting
  <2>3. UNCHANGED << logs, received, calls, known, version, lock >>
    BY <1>3 DEF LockReceive
  <2> HIDE DEF c
  <2>4. TypeOK' /\ LogsBounded' /\ ReceivedBehind'
    <3>1. known' \subseteq Feeds /\ version' \in Nat
      BY <2>3 DEF TypeOK
    <3> QED
      BY <2>1, <2>2, <2>3, <3>1, QuietCall
  <2>5. SnapshotHolds'
    BY <2>1, <2>3, QuietSnapshots DEF TypeOK
  <2> QED
    BY <2>3, <2>4, <2>5
<1> QED
    BY <1>1, <1>2, <1>3

\* Creating the log is a commit of its own: it ages the snapshots of the others.
LEMMA StepCreate ==
    ASSUME Parameters, AppendInv, NEW w \in Writers, MultiLogCreate(w)
    PROVE  AppendInv' /\ UNCHANGED << logs, received >>
<1> USE DEF AppendInv, Bounds
<1> DEFINE c == [call[w] EXCEPT !.at = "check", !.attempt = 0]
<1>a. call[w] \in Calls /\ call[w].at \in Before /\ call[w].at \notin Resting
    BY DEF TypeOK, MultiLogCreate, At, Before, Resting
<1>1. c \in Calls /\ c.at \in Before /\ c.at \notin After /\ c.msg = call[w].msg
      /\ c.at \notin Inserts \cup Commits /\ call' = [call EXCEPT ![w] = c]
    BY <1>a DEF MultiLogCreate, Calls, Before, After, Inserts, Commits, TypeOK
<1>2. UNCHANGED << logs, received, calls >> /\ version' = version + 1
      /\ known' = known \cup {call[w].msg.feed} /\ lock = {} /\ lock' = {}
    BY DEF MultiLogCreate
<1> HIDE DEF c
<1>3. TypeOK' /\ LogsBounded' /\ ReceivedBehind'
  <2>1. call[w].msg.feed \in Feeds
    BY <1>a DEF TypeOK, Messages
  <2>2. known' \subseteq Feeds /\ version' \in Nat
    BY <1>2, <2>1 DEF TypeOK
  <2> QED
    BY <1>a, <1>1, <1>2, <2>2, QuietCall
<1>4. SnapshotHolds'
  <2> SUFFICES ASSUME NEW v \in Writers, v # w PROVE
          /\ call[v].at \in Inserts => call[v].snap # version' /\ call[v].snap <= version'
          /\ call[v].at \notin Commits
    BY <1>1, <1>2 DEF SnapshotHolds, Inserts, Commits, TypeOK
  <2>1. call[v].snap \in Nat /\ version \in Nat
    BY DEF TypeOK, Calls
  <2> QED
    BY <1>2, <2>1 DEF SnapshotHolds
<1> QED
    BY <1>2, <1>3, <1>4

\* SELECT MAX and INSERT.
LEMMA StepStatement ==
    ASSUME Parameters, AppendInv, NEW w \in Writers, SelectMax(w) \/ InsertMessage(w)
    PROVE  AppendInv' /\ UNCHANGED << logs, received >>
<1> USE DEF AppendInv, tables, Bounds
<1>a. call[w] \in Calls
    BY DEF TypeOK
<1>0. UNCHANGED << logs, received, calls, known, version >> /\ call[w].at \notin Resting
    BY DEF SelectMax, InsertMessage, Selects, Inserts, Resting
<1>b. known' \subseteq Feeds /\ version' \in Nat /\ version \in Nat
    BY <1>0 DEF TypeOK
<1>1. CASE SelectMax(w)
  <2> DEFINE last == IF call[w].at = "select" THEN Len(logs[call[w].msg.feed]) ELSE Len(received)
             c == [call[w] EXCEPT !.at = Then(@), !.snap = version, !.seq = last + 1]
  <2>1. last \in Nat
    <3>1. call[w].msg \in Messages
      BY <1>0 DEF TypeOK
    <3>2. logs[call[w].msg.feed] \in Seq(Messages) /\ received \in Seq(Messages)
      BY <3>1 DEF TypeOK, Messages
    <3> QED
      BY <3>2
  <2>2. call' = [call EXCEPT ![w] = c] /\ lock' = lock
    BY <1>1 DEF SelectMax, TypeOK
  <2>3. c.snap = version /\ c.seq = last + 1 /\ c.msg = call[w].msg
    BY <1>a DEF Calls
  <2>4. \/ call[w].at = "select" /\ c.at = "insert" /\ c.seq = Len(logs[c.msg.feed]) + 1
        \/ call[w].at = "rselect" /\ c.at = "rinsert" /\ c.seq = Len(received) + 1
    BY <1>1, <1>a DEF SelectMax, Selects, Then, Calls
  <2>5. c \in Calls
    <3>1. PICK a \in {"insert", "rinsert"} :
              c = [call[w] EXCEPT !.at = a, !.snap = version, !.seq = last + 1]
      BY <1>1, <1>a DEF SelectMax, Selects, Then, Calls
    <3> HIDE DEF last, c
    <3>2. last + 1 \in Nat
      BY <2>1
    <3>3. \A n \in Nat, k \in Nat :
              [call[w] EXCEPT !.at = a, !.snap = n, !.seq = k] \in Calls
      BY <1>a DEF Calls, Before, After
    <3>4. [call[w] EXCEPT !.at = a, !.snap = version, !.seq = last + 1] \in Calls
      BY <1>b, <3>2, <3>3
    <3> QED
      BY <3>1, <3>4
  <2> HIDE DEF c, last
  <2>6. TypeOK' /\ LogsBounded' /\ ReceivedBehind'
    <3>1. c.at \in Before => call[w].at \in Before
      BY <2>4 DEF Before
    <3>2. c.at \in After => call[w].at \in After
      BY <2>4 DEF After
    <3> QED
      BY <1>0, <1>b, <2>2, <2>3, <2>5, <3>1, <3>2, QuietCall
  <2>7. SnapshotHolds'
    <3> SUFFICES ASSUME NEW v \in Writers PROVE
            /\ call'[v].at \in Inserts \cup Commits /\ call'[v].snap = version =>
                  call'[v].seq = IF call'[v].at \in {"insert", "commit"}
                                THEN Len(logs[call'[v].msg.feed]) + 1 ELSE Len(received) + 1
            /\ call'[v].at \in Inserts => call'[v].snap <= version
            /\ call'[v].at \in Commits => call'[v].snap = version /\ lock = {v}
      BY <1>0, <2>2 DEF SnapshotHolds
    <3>1. CASE v = w
      <4>1. call'[v] = c
        BY <2>2, <3>1 DEF TypeOK
      <4> QED
        BY <1>b, <2>3, <2>4, <4>1 DEF Inserts, Commits
    <3>2. CASE v # w
      <4>1. call'[v] = call[v]
        BY <2>2, <3>2 DEF TypeOK
      <4> QED
        BY <4>1 DEF SnapshotHolds
    <3> QED
      BY <3>1, <3>2
  <2> QED
    BY <1>0, <2>6, <2>7
<1>2. CASE InsertMessage(w)
  <2> DEFINE c == [call[w] EXCEPT !.at = Then(call[w].at)]
  <2>1. call' = [call EXCEPT ![w] = c] /\ lock' = {w} /\ lock \subseteq {w}
        /\ call[w].snap = version
    BY <1>2 DEF InsertMessage, To, MayWrite, TypeOK
  <2>2. \/ call[w].at = "insert" /\ c.at = "commit"
        \/ call[w].at = "rinsert" /\ c.at = "rcommit"
    BY <1>2, <1>a DEF InsertMessage, Inserts, Then, Calls
  <2>3. c.msg = call[w].msg /\ c.snap = call[w].snap /\ c.seq = call[w].seq
    BY <1>a DEF Calls
  <2>4. c \in Calls
    BY <1>a, <2>2 DEF Calls, Before, After
  <2> HIDE DEF c
  <2>5. TypeOK' /\ LogsBounded' /\ ReceivedBehind'
    <3>1. c.at \in Before => call[w].at \in Before
      BY <2>2 DEF Before
    <3>2. c.at \in After => call[w].at \in After
      BY <2>2 DEF After
    <3> QED
      BY <1>0, <1>b, <2>1, <2>3, <2>4, <3>1, <3>2, QuietCall
  <2>6. SnapshotHolds'
    <3> SUFFICES ASSUME NEW v \in Writers PROVE
            /\ call'[v].at \in Inserts \cup Commits /\ call'[v].snap = version =>
                  call'[v].seq = IF call'[v].at \in {"insert", "commit"}
                                THEN Len(logs[call'[v].msg.feed]) + 1 ELSE Len(received) + 1
            /\ call'[v].at \in Inserts => call'[v].snap <= version
            /\ call'[v].at \in Commits => call'[v].snap = version /\ {w} = {v}
      BY <1>0, <2>1 DEF SnapshotHolds
    <3>1. CASE v = w
      <4>1. call'[v] = c
        BY <2>1, <3>1 DEF TypeOK
      <4>2. call[w].seq = IF call[w].at \in {"insert", "commit"}
                          THEN Len(logs[call[w].msg.feed]) + 1 ELSE Len(received) + 1
        BY <2>1, <2>2 DEF SnapshotHolds, Inserts
      <4> QED
        BY <2>1, <2>2, <2>3, <3>1, <4>1, <4>2 DEF Inserts, Commits
    <3>2. CASE v # w
      <4>1. call'[v] = call[v]
        BY <2>1, <3>2 DEF TypeOK
      <4>2. call[v].at \notin Commits
        BY <2>1, <3>2 DEF SnapshotHolds
      <4> QED
        BY <4>1, <4>2 DEF SnapshotHolds
    <3> QED
      BY <3>1, <3>2
  <2> QED
    BY <1>0, <2>5, <2>6
<1> QED
    BY <1>1, <1>2

\* A rollback leaves nothing of the transaction, whether it starts again or gives up.
LEMMA StepFault ==
    ASSUME Parameters, AppendInv, NEW w \in Writers,
           ShouldRetrySQLiteBusy(w) \/ StatementFails(w) \/ VerifyFails(w)
    PROVE  AppendInv' /\ UNCHANGED << logs, received >>
<1> USE DEF AppendInv
<1>0. UNCHANGED << logs, received, calls, known, version >> /\ call[w].at \notin Resting
      /\ (lock' = lock \ {w} \/ lock' = lock)
    BY DEF ShouldRetrySQLiteBusy, StatementFails, VerifyFails, tables, At, Selects, Inserts,
           Commits, Resting
<1>1. CASE Done(w, "failed")
  <2>1. TypeOK' /\ LogsBounded' /\ ReceivedBehind'
    BY <1>0, <1>1, QuietDone
  <2>2. call'[w].at \notin Inserts \cup Commits /\ \A v \in Writers \ {w} : call'[v] = call[v]
    BY <1>1 DEF Done, Idle, Inserts, Commits, TypeOK
  <2>3. SnapshotHolds'
    BY <1>0, <2>2, QuietSnapshots
  <2> QED
    BY <1>0, <2>1, <2>3
<1>2. CASE /\ ShouldRetrySQLiteBusy(w)
           /\ call' = [call EXCEPT ![w].at = Start(@), ![w].attempt = @ + 1]
  <2>a. call[w] \in Calls
    BY DEF TypeOK
  <2>b. PICK a : a = Start(call[w].at)
    OBVIOUS
  <2> DEFINE c == [call[w] EXCEPT !.at = a, !.attempt = @ + 1]
  <2>1. call' = [call EXCEPT ![w] = c]
    BY <1>2, <2>b DEF TypeOK
  <2>2. \/ a \in {"create", "select"} /\ call[w].at \in Before
        \/ a = "rselect" /\ call[w].at \in After
    BY <1>2, <2>b DEF ShouldRetrySQLiteBusy, Start, Selects, Inserts, Commits, Before, After
  <2>3. c \in Calls /\ c.at = a /\ c.msg = call[w].msg
    <3>1. a \in Resting \cup Before \cup After
      BY <2>2 DEF Before, After
    <3>2. call[w].attempt + 1 \in Nat
      BY <2>a DEF Calls
    <3> QED
      BY <2>a, <3>1, <3>2 DEF Calls
  <2> HIDE DEF c
  <2>4. TypeOK' /\ LogsBounded' /\ ReceivedBehind'
    <3>1. c.at \in Before => call[w].at \in Before
      BY <2>2, <2>3 DEF Before
    <3>2. c.at \in After => call[w].at \in After
      BY <2>2, <2>3 DEF After
    <3>3. known' \subseteq Feeds /\ version' \in Nat
      BY <1>0 DEF TypeOK
    <3> QED
      BY <1>0, <2>1, <2>3, <3>1, <3>2, <3>3, QuietCall
  <2>5. SnapshotHolds'
    <3>1. call'[w].at \notin Inserts \cup Commits /\ \A v \in Writers \ {w} : call'[v] = call[v]
      BY <2>1, <2>2, <2>3 DEF Inserts, Commits, TypeOK
    <3> QED
      BY <1>0, <3>1, QuietSnapshots
  <2> QED
    BY <1>0, <2>4, <2>5
<1>3. Done(w, "failed") \/ (/\ ShouldRetrySQLiteBusy(w)
                            /\ call' = [call EXCEPT ![w].at = Start(@), ![w].attempt = @ + 1])
    BY DEF ShouldRetrySQLiteBusy, StatementFails, VerifyFails
<1> QED
    BY <1>1, <1>2, <1>3

-----------------------------------------------------------------------------
(* The commits                                                               *)

\* A commit ages every snapshot but the committer's, who is done with it.
LEMMA CommitSnapshots ==
    ASSUME AppendInv, NEW w \in Writers, call[w].at \in Commits,
           \A v \in Writers \ {w} : call'[v] = call[v],
           call'[w].at \notin Inserts \cup Commits, version' = version + 1
    PROVE  SnapshotHolds'
<1> SUFFICES ASSUME NEW v \in Writers, v # w PROVE
        /\ call[v].at \in Inserts => call[v].snap # version' /\ call[v].snap <= version'
        /\ call[v].at \notin Commits
    BY DEF SnapshotHolds, Inserts, Commits
<1>1. call[v].snap \in Nat /\ version \in Nat
    BY DEF AppendInv, TypeOK, Calls
<1>2. lock = {w}
    BY DEF AppendInv, SnapshotHolds
<1> QED
    BY <1>1, <1>2 DEF AppendInv, SnapshotHolds

\* COMMIT of a feed's log: the message is the next one of the log.
LEMMA StepCommit ==
    ASSUME Parameters, AppendInv, NEW w \in Writers, CommitMessage(w)
    PROVE  /\ AppendInv'
           /\ call[w].msg \in Messages /\ Abstract!AppendToFeed(call[w].msg)
           /\ call[w].seq = Len(logs[call[w].msg.feed]) + 1
<1> USE DEF AppendInv
<1> DEFINE m == call[w].msg
           c == [call[w] EXCEPT !.at = "receive"]
<1>a. call[w].at = "commit" /\ call[w] \in Calls /\ m \in Messages
    BY DEF CommitMessage, At, TypeOK, Resting
<1>b. m.feed \in Feeds /\ logs[m.feed] \in Seq(Messages)
    BY <1>a DEF TypeOK, Messages
<1>c. call[w].seq = Len(logs[m.feed]) + 1
    BY <1>a DEF SnapshotHolds, Commits
<1>d. logs' = [logs EXCEPT ![m.feed] = Append(@, m)] /\ UNCHANGED << received, known, calls >>
      /\ version' = version + 1
    BY <1>b, <1>c DEF CommitMessage, Stored, Bounds
<1>e. c \in Calls /\ c.at = "receive" /\ c.msg = m /\ call' = [call EXCEPT ![w] = c]
    BY <1>a DEF Calls, After, CommitMessage, To, TypeOK
<1> HIDE DEF c, m
<1>1. TypeOK'
  <2>1. logs' \in [Feeds -> Seq(Messages)]
    BY <1>a, <1>b, <1>d DEF TypeOK, m
  <2> QED
    BY <1>a, <1>d, <1>e, <2>1 DEF TypeOK, m
<1>2. SnapshotHolds'
  <2>1. call'[w].at \notin Inserts \cup Commits /\ \A v \in Writers \ {w} : call'[v] = call[v]
    BY <1>e DEF Inserts, Commits, TypeOK
  <2> QED
    BY <1>a, <1>d, <2>1, CommitSnapshots DEF Commits
<1>3. LogsBounded'
  <2> SUFFICES ASSUME NEW f \in Feeds
               PROVE  Len(logs'[f]) + Cardinality(Owed(f)') <= calls
    BY <1>d DEF LogsBounded
  <2>1. Len(logs[f]) \in Nat /\ calls \in Nat /\ Len(logs[f]) + Cardinality(Owed(f)) <= calls
    BY DEF LogsBounded, TypeOK
  <2>2. IsFiniteSet(Owed(f)) /\ Cardinality(Owed(f)) \in Nat /\ Cardinality(Owed(f)') \in Nat
    BY Finite, FinitePrimed
  <2>3. CASE f = m.feed
    <3>1. Owed(f)' = Owed(f) \ {w} /\ w \in Owed(f)
      BY <1>a, <1>e, <2>3 DEF Owed, Before, TypeOK, m
    <3>2. Cardinality(Owed(f)') = Cardinality(Owed(f)) - 1
      BY <2>2, <3>1, FS_RemoveElement
    <3>3. Len(logs'[f]) = Len(logs[f]) + 1
      BY <1>a, <1>b, <1>d, <2>3 DEF TypeOK
    <3> QED
      BY <2>1, <2>2, <3>2, <3>3
  <2>4. CASE f # m.feed
    <3>1. Owed(f)' = Owed(f)
      BY <1>a, <1>e, <2>4 DEF Owed, Before, TypeOK, m
    <3>2. logs'[f] = logs[f]
      BY <1>d, <2>4 DEF TypeOK
    <3> QED
      BY <2>1, <3>1, <3>2
  <2> QED
    BY <2>3, <2>4
<1>4. ReceivedBehind'
  <2> SUFFICES ASSUME NEW x \in Messages
               PROVE  Abstract!Count(received, x) + Cardinality(Due(x)')
                          <= Abstract!Count(logs'[x.feed], x)
    BY <1>d DEF ReceivedBehind, Abstract!Count
  <2>0. x.feed \in Feeds /\ logs[x.feed] \in Seq(Messages) /\ received \in Seq(Messages)
    BY DEF Messages, TypeOK
  <2>1. Abstract!Count(received, x) \in Nat /\ Abstract!Count(logs[x.feed], x) \in Nat
    BY <2>0, CountAppend
  <2>2. Abstract!Count(received, x) + Cardinality(Due(x)) <= Abstract!Count(logs[x.feed], x)
    BY DEF ReceivedBehind
  <2>3. IsFiniteSet(Due(x)) /\ Cardinality(Due(x)) \in Nat
    BY Finite
  <2>4. CASE x = m
    <3>1. Due(x)' = Due(x) \cup {w} /\ w \notin Due(x)
      BY <1>a, <1>e, <2>4 DEF Due, After, TypeOK, m
    <3>2. Cardinality(Due(x)') = Cardinality(Due(x)) + 1
      BY <2>3, <3>1, FS_AddElement
    <3>3. logs'[x.feed] = Append(logs[x.feed], x)
      BY <1>b, <1>d, <2>4 DEF TypeOK
    <3>4. Abstract!Count(logs'[x.feed], x) = Abstract!Count(logs[x.feed], x) + 1
      BY <2>0, <3>3, CountAppend
    <3> QED
      BY <2>1, <2>2, <2>3, <3>2, <3>4
  <2>5. CASE x # m
    <3>1. Due(x)' = Due(x)
      BY <1>a, <1>e, <2>5 DEF Due, After, TypeOK, m
    <3>2. Abstract!Count(logs'[x.feed], x) = Abstract!Count(logs[x.feed], x)
      <4>1. CASE x.feed = m.feed
        <5>1. logs'[x.feed] = Append(logs[x.feed], m)
          BY <1>b, <1>d, <4>1 DEF TypeOK
        <5> QED
          BY <1>a, <2>0, <2>1, <2>5, <5>1, CountAppend
      <4>2. CASE x.feed # m.feed
        <5>1. logs'[x.feed] = logs[x.feed]
          BY <1>d, <2>0, <4>2 DEF TypeOK
        <5> QED
          BY <5>1
      <4> QED
        BY <4>1, <4>2
    <3> QED
      BY <2>2, <3>1, <3>2
  <2> QED
    BY <2>4, <2>5
<1> QED
    BY <1>1, <1>2, <1>3, <1>4, <1>a, <1>c, <1>d DEF Abstract!AppendToFeed, m

\* COMMIT of the receive log: the message is the next one there, and the log of its
\* feed has it once more often.
LEMMA StepReceived ==
    ASSUME Parameters, AppendInv, NEW w \in Writers, CommitReceived(w)
    PROVE  /\ AppendInv' /\ UNCHANGED logs
           /\ call[w].msg \in Messages /\ Abstract!AppendToReceived(call[w].msg)
<1> USE DEF AppendInv
<1>0. PICK m : m = call[w].msg
    OBVIOUS
<1> DEFINE c == [Idle EXCEPT !.at = "ok"]
<1>a. call[w].at = "rcommit" /\ m \in Messages
    BY <1>0 DEF CommitReceived, At, TypeOK, Resting
<1>b. call[w].seq = Len(received) + 1
    BY <1>a DEF SnapshotHolds, Commits
<1>c. received' = Append(received, m) /\ UNCHANGED << logs, known, calls >>
      /\ version' = version + 1
    BY <1>0, <1>b DEF CommitReceived, Stored, Bounds
<1>d. c \in Calls /\ c.at = "ok" /\ call' = [call EXCEPT ![w] = c]
    BY DEF Calls, Resting, Idle, CommitReceived, Done
<1> HIDE DEF c
<1>1. TypeOK'
    BY <1>a, <1>c, <1>d DEF TypeOK, Resting
<1>2. SnapshotHolds'
  <2>1. call'[w].at \notin Inserts \cup Commits /\ \A v \in Writers \ {w} : call'[v] = call[v]
    BY <1>d DEF Inserts, Commits, TypeOK
  <2> QED
    BY <1>a, <1>c, <2>1, CommitSnapshots DEF Commits
<1>3. LogsBounded'
  <2>1. \A f : Owed(f)' = Owed(f)
    BY <1>a, <1>d DEF Owed, Before, TypeOK
  <2> QED
    BY <1>c, <2>1 DEF LogsBounded
<1>4. \A x : Due(x)' = Due(x) \ {w}
    BY <1>d DEF Due, After, TypeOK
<1>5. \A x \in Messages : /\ Abstract!Count(received, x) \in Nat
                          /\ Abstract!Count(logs[x.feed], x) \in Nat
  <2> SUFFICES ASSUME NEW x \in Messages
               PROVE  Abstract!Count(received, x) \in Nat /\ Abstract!Count(logs[x.feed], x) \in Nat
    OBVIOUS
  <2>1. logs[x.feed] \in Seq(Messages) /\ received \in Seq(Messages)
    BY DEF Messages, TypeOK
  <2> QED
    BY <2>1, CountAppend
<1>6. Cardinality(Due(m)') = Cardinality(Due(m)) - 1 /\ Cardinality(Due(m)) \in Nat
      /\ Cardinality(Due(m)') \in Nat
  <2>1. w \in Due(m)
    BY <1>0, <1>a DEF Due, After
  <2>2. IsFiniteSet(Due(m)) /\ Cardinality(Due(m)) \in Nat /\ Cardinality(Due(m)') \in Nat
    BY Finite, FinitePrimed
  <2> QED
    BY <1>4, <2>1, <2>2, FS_RemoveElement
<1>7. Abstract!Count(received, m) < Abstract!Count(logs[m.feed], m)
  <2>1. Abstract!Count(received, m) + Cardinality(Due(m)) <= Abstract!Count(logs[m.feed], m)
    BY <1>a DEF ReceivedBehind
  <2> QED
    BY <1>a, <1>5, <1>6, <2>1
<1>8. ReceivedBehind'
  <2> SUFFICES ASSUME NEW x \in Messages
               PROVE  Abstract!Count(received', x) + Cardinality(Due(x)')
                          <= Abstract!Count(logs[x.feed], x)
    BY <1>c DEF ReceivedBehind, Abstract!Count
  <2>1. Abstract!Count(received, x) + Cardinality(Due(x)) <= Abstract!Count(logs[x.feed], x)
    BY DEF ReceivedBehind
  <2>2. received \in Seq(Messages)
    BY DEF TypeOK
  <2>3. CASE x = m
    <3>1. Abstract!Count(received', x) = Abstract!Count(received, x) + 1
      BY <1>a, <1>c, <2>2, <2>3, CountAppend
    <3> QED
      BY <1>5, <1>6, <2>1, <2>3, <3>1
  <2>4. CASE x # m
    <3>1. Abstract!Count(received', x) = Abstract!Count(received, x)
      BY <1>a, <1>c, <1>5, <2>2, <2>4, CountAppend
    <3>2. Due(x)' = Due(x)
      BY <1>0, <1>4, <2>4 DEF Due
    <3> QED
      BY <2>1, <3>1, <3>2
  <2> QED
    BY <2>3, <2>4
<1> QED
    BY <1>0, <1>1, <1>2, <1>3, <1>8, <1>a, <1>c, <1>7 DEF Abstract!AppendToReceived

-----------------------------------------------------------------------------
\* The reader changes nothing but itself.
LEMMA ReaderStep ==
    ASSUME HandleHistory \/ WriteMessage \/ BacklogDone \/ Poll
    PROVE  UNCHANGED << tables, lock, rx, call, calls, faults >>
    BY DEF HandleHistory, WriteMessage, BacklogDone, Poll

\* Whatever leaves the tables, the lock and the calls alone keeps the invariant.
LEMMA AppendUnchanged ==
    ASSUME AppendInv, UNCHANGED << tables, lock, call, calls >> PROVE AppendInv'
<1> USE DEF tables
<1>1. TypeOK'
    BY DEF AppendInv, TypeOK
<1>2. SnapshotHolds'
    BY DEF AppendInv, SnapshotHolds
<1>3. \A f : Owed(f)' = Owed(f)
    BY DEF Owed
<1>4. \A m : Due(m)' = Due(m)
    BY DEF Due
<1>5. LogsBounded'
    BY <1>3 DEF AppendInv, LogsBounded
<1>6. ReceivedBehind'
    BY <1>4 DEF AppendInv, ReceivedBehind, Abstract!Count
<1> QED
    BY <1>1, <1>2, <1>5, <1>6 DEF AppendInv

\* Every step keeps the invariant, and is a step of AppendLog or leaves the logs alone.
LEMMA StepAppend ==
    ASSUME Parameters, AppendInv, [Next]_vars
    PROVE  AppendInv' /\ [Abstract!Next]_<< logs, received >>
<1>1. ASSUME NEW w \in Writers, WriterStep(w)
      PROVE  AppendInv' /\ [Abstract!Next]_<< logs, received >>
  <2>1. CASE BeginReplicate(w) \/ Publish(w)
    BY <2>1, StepBegin DEF BeginReplicate, Publish, tables
  <2>2. CASE MultiLogGet(w) \/ CheckSequence(w) \/ LockReceive(w)
    BY <2>2, StepPrepare
  <2>3. CASE MultiLogCreate(w)
    BY <2>3, StepCreate
  <2>4. CASE SelectMax(w) \/ InsertMessage(w)
    BY <2>4, StepStatement
  <2>5. CASE ShouldRetrySQLiteBusy(w) \/ StatementFails(w) \/ VerifyFails(w)
    BY <2>5, StepFault
  <2>6. CASE CommitMessage(w)
    BY <2>6, StepCommit DEF Abstract!Next
  <2>7. CASE CommitReceived(w)
    BY <2>7, StepReceived DEF Abstract!Next
  <2> QED
    BY <1>1, <2>1, <2>2, <2>3, <2>4, <2>5, <2>6, <2>7 DEF WriterStep
<1>2. CASE HandleHistory \/ WriteMessage \/ BacklogDone \/ Poll
    BY <1>2, ReaderStep, AppendUnchanged DEF tables
<1>3. CASE UNCHANGED vars
    BY <1>3, AppendUnchanged DEF vars, tables
<1> QED
    BY <1>1, <1>2, <1>3 DEF Next

\* The tables of the feed store are well typed, and the bound on the calls bounds
\* every log.
THEOREM TypeCorrect == ASSUME Parameters PROVE Spec => []TypeOK
<1>1. Init => AppendInv
    BY InitAppend
<1>2. AppendInv /\ [Next]_vars => AppendInv'
    BY StepAppend
<1>3. AppendInv => TypeOK
    BY DEF AppendInv
<1> QED
    BY <1>1, <1>2, <1>3, PTL DEF Spec

\* The feed store implements append-only logs: however the transactions of its writers
\* overlap, run into a busy database, are repeated or fail, a commit adds one message at
\* the end of one log, and a message is received at most as often as it was appended.
THEOREM StoreAppends == ASSUME Parameters PROVE Spec => LogsAppendOnly
<1>1. Init => AppendInv /\ Abstract!Init
    BY InitAppend DEF Init, Abstract!Init
<1>2. AppendInv /\ [Next]_vars => AppendInv' /\ [Abstract!Next]_<< logs, received >>
    BY StepAppend
<1> QED
    BY <1>1, <1>2, PTL DEF Spec, LogsAppendOnly, Abstract!Spec

-----------------------------------------------------------------------------
(* The index and the history stream                                          *)

\* The logs only grow.
Grown ==
    \A f \in Feeds : /\ Len(logs[f]) <= Len(logs'[f])
                     /\ \A n \in 1..Len(logs[f]) : logs'[f][n] = logs[f][n]

\* A writer that does not commit leaves the logs and the index alone.
LEMMA OthersLeaveIndex ==
    ASSUME NEW w \in Writers, WriterStep(w), ~CommitMessage(w)
    PROVE  UNCHANGED << logs, index, reader >>
    BY DEF WriterStep, BeginReplicate, MultiLogGet, MultiLogCreate, CheckSequence, Publish,
           LockReceive, SelectMax, InsertMessage, CommitReceived, ShouldRetrySQLiteBusy,
           StatementFails, VerifyFails, tables, Bounds

\* A commit extends one log.
LEMMA CommitGrows ==
    ASSUME Parameters, AppendInv, NEW w \in Writers, CommitMessage(w)
    PROVE  Grown
<1> DEFINE m == call[w].msg
<1>1. m \in Messages /\ Abstract!AppendToFeed(m)
    BY StepCommit
<1>2. logs' = [logs EXCEPT ![m.feed] = Append(@, m)]
    BY <1>1 DEF Abstract!AppendToFeed
<1>3. logs \in [Feeds -> Seq(Messages)]
    BY DEF AppendInv, TypeOK
<1> HIDE DEF m
<1> SUFFICES ASSUME NEW f \in Feeds
             PROVE  /\ Len(logs[f]) <= Len(logs'[f])
                    /\ \A n \in 1..Len(logs[f]) : logs'[f][n] = logs[f][n]
    BY DEF Grown
<1>4. logs[f] \in Seq(Messages) /\ Len(logs[f]) \in Nat
    BY <1>3
<1>5. logs'[f] = logs[f] \/ logs'[f] = Append(logs[f], m)
    BY <1>2, <1>3
<1>6. CASE logs'[f] = logs[f]
    BY <1>4, <1>6
<1>7. CASE logs'[f] = Append(logs[f], m)
    BY <1>1, <1>4, <1>7
<1> QED
    BY <1>5, <1>6, <1>7

\* The entries of the index lead to their messages, and no message lacks one.
KeysLead == \A e \in index : e.seq \in DOMAIN logs[e.feed] /\ logs[e.feed][e.seq] = e.msg
KeysThere == \A f \in Feeds : \A n \in DOMAIN logs[f] : \E e \in index : e.msg = logs[f][n]
\* The stream has sent what is in the log from where it started.
SentIsLogged ==
    /\ reader.at # "lost"
    /\ \A i \in DOMAIN reader.sent :
          /\ reader.start + i \in DOMAIN logs[reader.feed]
          /\ reader.sent[i] = logs[reader.feed][reader.start + i]
\* The feed of an entry is a feed.
KeysTyped == \A e \in index : e.feed \in Feeds /\ e.seq \in Nat

\* The inductive invariant behind KeysAndHistory.
HistoryInv == AppendInv /\ KeysTyped /\ KeysLead /\ KeysThere /\ ReaderBehind /\ SentIsLogged

\* A commit of a feed's log keeps the index.
LEMMA CommitKeys ==
    ASSUME Parameters, HistoryInv, NEW w \in Writers, CommitMessage(w)
    PROVE  KeysTyped' /\ KeysLead' /\ KeysThere'
<1> USE DEF HistoryInv
<1>0. PICK m, n : m = call[w].msg /\ n = call[w].seq
    OBVIOUS
<1>1. m \in Messages /\ Abstract!AppendToFeed(m) /\ n = Len(logs[m.feed]) + 1
    BY <1>0, StepCommit
<1>2. logs' = [logs EXCEPT ![m.feed] = Append(@, m)]
    BY <1>1 DEF Abstract!AppendToFeed
<1>3. logs \in [Feeds -> Seq(Messages)] /\ m.feed \in Feeds
    BY <1>1 DEF AppendInv, TypeOK, Messages
<1>4. logs'[m.feed] = Append(logs[m.feed], m) /\ Len(logs[m.feed]) \in Nat
      /\ \A f \in Feeds : f # m.feed => logs'[f] = logs[f]
    BY <1>2, <1>3
<1>5. index' = {e \in index : e.msg # m} \cup {[msg |-> m, feed |-> m.feed, seq |-> n]}
    BY <1>0 DEF CommitMessage
<1>6. n \in DOMAIN logs'[m.feed] /\ logs'[m.feed][n] = m /\ n \in Nat
    BY <1>1, <1>3, <1>4
<1>7. KeysTyped'
    BY <1>3, <1>5, <1>6 DEF KeysTyped
<1>8. KeysLead'
  <2> SUFFICES ASSUME NEW e \in index'
               PROVE  e.seq \in DOMAIN logs'[e.feed] /\ logs'[e.feed][e.seq] = e.msg
    BY DEF KeysLead
  <2>1. CASE e \in index
    <3>1. e.feed \in Feeds /\ e.seq \in DOMAIN logs[e.feed] /\ logs[e.feed][e.seq] = e.msg
      BY <2>1 DEF KeysLead, KeysTyped
    <3>2. logs[e.feed] \in Seq(Messages)
      BY <1>3, <3>1
    <3>3. e.seq \in 1..Len(logs[e.feed]) /\ Len(logs[e.feed]) \in Nat
      BY <3>1, <3>2
    <3>4. CASE e.feed = m.feed
      BY <1>1, <1>4, <3>1, <3>2, <3>3, <3>4
    <3>5. CASE e.feed # m.feed
      BY <1>4, <3>1, <3>5
    <3> QED
      BY <3>4, <3>5
  <2>2. CASE e = [msg |-> m, feed |-> m.feed, seq |-> n]
    BY <1>6, <2>2
  <2> QED
    BY <1>5, <2>1, <2>2
<1>9. KeysThere'
  <2> SUFFICES ASSUME NEW f \in Feeds, NEW k \in DOMAIN logs'[f]
               PROVE  \E e \in index' : e.msg = logs'[f][k]
    BY DEF KeysThere
  <2>1. CASE logs'[f][k] = m
    <3>1. [msg |-> m, feed |-> m.feed, seq |-> n] \in index'
      BY <1>5
    <3> QED
      BY <2>1, <3>1
  <2>2. CASE logs'[f][k] # m
    <3>1. k \in DOMAIN logs[f] /\ logs'[f][k] = logs[f][k]
      <4>1. CASE f = m.feed
        <5>1. logs[f] \in Seq(Messages) /\ logs'[f] = Append(logs[f], m)
          BY <1>3, <1>4, <4>1
        <5>2. k \in 1..(Len(logs[f]) + 1) /\ Len(logs[f]) \in Nat
          BY <1>1, <5>1
        <5>3. k # Len(logs[f]) + 1
          BY <1>1, <2>2, <5>1, <5>2
        <5> QED
          BY <1>1, <5>1, <5>2, <5>3
      <4>2. CASE f # m.feed
        BY <1>4, <4>2
      <4> QED
        BY <4>1, <4>2
    <3>2. PICK e \in index : e.msg = logs[f][k]
      BY <3>1 DEF KeysThere
    <3>3. e \in index'
      BY <1>5, <2>2, <3>1, <3>2
    <3> QED
      BY <3>1, <3>2, <3>3
  <2> QED
    BY <2>1, <2>2
<1> QED
    BY <1>7, <1>8, <1>9

\* What the reader has sent stays in the logs.
LEMMA GrownReader ==
    ASSUME HistoryInv, Grown, AppendInv', reader' = reader
    PROVE  ReaderBehind' /\ SentIsLogged'
<1> USE DEF HistoryInv
<1>1. CASE reader.at \in {"closed", "end"}
    BY <1>1 DEF ReaderBehind, SentIsLogged
<1>2. CASE reader.at \notin {"closed", "end"}
  <2>1. PICK f : f = reader.feed
    OBVIOUS
  <2>2. f \in Feeds /\ reader.seen <= Len(logs[f]) /\ reader.seen \in Nat
    BY <1>2, <2>1 DEF ReaderBehind
  <2>3. logs[f] \in Seq(Messages) /\ logs'[f] \in Seq(Messages)
    BY <2>2 DEF AppendInv, TypeOK
  <2>4. Len(logs[f]) \in Nat /\ Len(logs'[f]) \in Nat /\ DOMAIN logs[f] = 1..Len(logs[f])
        /\ DOMAIN logs'[f] = 1..Len(logs'[f])
    BY <2>3
  <2>5. Len(logs[f]) <= Len(logs'[f]) /\ \A n \in 1..Len(logs[f]) : logs'[f][n] = logs[f][n]
    BY <2>2 DEF Grown
  <2>6. ReaderBehind'
    BY <2>1, <2>2, <2>4, <2>5 DEF ReaderBehind
  <2>7. SentIsLogged'
    BY <2>1, <2>4, <2>5 DEF SentIsLogged
  <2> QED
    BY <2>6, <2>7
<1> QED
    BY <1>1, <1>2

\* The steps of the stream itself.
LEMMA StreamStep ==
    ASSUME Parameters, HistoryInv, HandleHistory \/ WriteMessage \/ BacklogDone \/ Poll
    PROVE  ReaderBehind' /\ SentIsLogged'
<1> USE DEF HistoryInv
<1>0. UNCHANGED << logs, known >>
    BY ReaderStep DEF tables
<1>a. /\ Ended.at = "end" /\ Ended.start = 0 /\ Ended.seen = 0 /\ Ended.sent = <<>>
    BY DEF Ended, NoReader
<1>b. \A f \in Feeds : logs[f] \in Seq(Messages) /\ Len(logs[f]) \in Nat
                        /\ DOMAIN logs[f] = 1..Len(logs[f])
    BY DEF AppendInv, TypeOK
<1>e. CASE reader' = Ended
  <2>1. /\ reader'.at = "end" /\ reader'.start = 0 /\ reader'.seen = 0 /\ reader'.sent = <<>>
    BY <1>a, <1>e
  <2>2. ReaderBehind'
    BY <2>1 DEF ReaderBehind
  <2>3. SentIsLogged'
    BY <2>1 DEF SentIsLogged
  <2> QED
    BY <2>2, <2>3
<1>1. CASE HandleHistory
  <2>1. PICK f \in known, live \in BOOLEAN, limit \in 0..1, old \in BOOLEAN, start \in 0..1 :
          reader' = IF ~old /\ ~live THEN Ended ELSE
                    [at |-> IF old THEN "backlog" ELSE "live",
                     feed |-> f, live |-> live, limit |-> limit,
                     start |-> IF old THEN start ELSE Len(logs[f]),
                     seen |-> Len(logs[f]), sent |-> <<>>]
    BY <1>1 DEF HandleHistory
  <2>2. f \in Feeds
    BY DEF AppendInv, TypeOK
  <2>3. CASE reader' # Ended
    <3>1. /\ reader'.start \in Nat /\ reader'.seen = Len(logs[f]) /\ reader'.sent = <<>>
          /\ reader'.feed = f /\ reader'.at # "lost" /\ reader'.at \notin {"closed", "end"}
      BY <1>b, <2>1, <2>2, <2>3
    <3> QED
      BY <1>0, <1>b, <2>2, <3>1 DEF ReaderBehind, SentIsLogged
  <2> QED
    BY <1>e, <2>3
<1>2. CASE WriteMessage
  <2>0. reader.at \in {"backlog", "poll"} /\ NextSeq <= reader.seen
    BY <1>2 DEF WriteMessage
  <2>1. PICK f : f = reader.feed
    OBVIOUS
  <2>2. f \in Feeds /\ reader.seen \in Nat /\ reader.start \in Nat /\ reader.sent \in Seq(Messages)
        /\ reader.seen <= Len(logs[f])
    BY <2>0, <2>1 DEF ReaderBehind
  <2>3. Len(reader.sent) \in Nat /\ NextSeq = reader.start + Len(reader.sent) + 1
    BY <2>2 DEF NextSeq
  <2>4. NextSeq \in DOMAIN logs[f]
    BY <1>b, <2>0, <2>2, <2>3
  <2>5. CASE reader' = [reader EXCEPT !.sent = Append(@, logs[f][NextSeq])]
    <3> DEFINE m == logs[f][NextSeq]
    <3>0. m \in Messages
      BY <1>b, <2>2, <2>4
    <3> HIDE DEF m
    <3>1. /\ reader'.sent = Append(reader.sent, m) /\ reader'.start = reader.start
          /\ reader'.seen = reader.seen /\ reader'.feed = f /\ reader'.at = reader.at
      BY <2>1, <2>5 DEF m
    <3>2. ReaderBehind'
      BY <1>0, <2>0, <2>2, <3>0, <3>1 DEF ReaderBehind
    <3>3. SentIsLogged'
      <4> SUFFICES ASSUME NEW i \in DOMAIN reader'.sent
                   PROVE  /\ reader.start + i \in DOMAIN logs[f]
                          /\ reader'.sent[i] = logs[f][reader.start + i]
        BY <1>0, <2>0, <3>1 DEF SentIsLogged
      <4>1. i \in 1..(Len(reader.sent) + 1)
        BY <2>2, <3>0, <3>1
      <4>2. CASE i = Len(reader.sent) + 1
        <5>1. reader'.sent[i] = m
          BY <2>2, <3>0, <3>1, <4>2
        <5>2. reader.start + i = NextSeq
          BY <2>2, <2>3, <4>2
        <5> QED
          BY <2>4, <5>1, <5>2 DEF m
      <4>3. CASE i # Len(reader.sent) + 1
        <5>1. i \in DOMAIN reader.sent /\ reader'.sent[i] = reader.sent[i]
          BY <2>2, <2>3, <3>0, <3>1, <4>1, <4>3
        <5> QED
          BY <2>1, <5>1 DEF SentIsLogged
      <4> QED
        BY <4>2, <4>3
    <3> QED
      BY <3>2, <3>3
  <2> QED
    BY <1>2, <1>e, <2>1, <2>4, <2>5 DEF WriteMessage
<1>3. CASE BacklogDone
  <2>1. CASE reader' = [reader EXCEPT !.at = "live"]
    <3>1. /\ reader'.sent = reader.sent /\ reader'.start = reader.start /\ reader'.at = "live"
          /\ reader'.seen = reader.seen /\ reader'.feed = reader.feed
      BY <2>1 DEF ReaderBehind
    <3>2. reader.at \in {"backlog", "poll"}
      BY <1>3 DEF BacklogDone
    <3> QED
      BY <1>0, <3>1, <3>2 DEF ReaderBehind, SentIsLogged
  <2> QED
    BY <1>3, <1>e, <2>1 DEF BacklogDone
<1>4. CASE Poll
  <2>1. /\ reader'.sent = reader.sent /\ reader'.start = reader.start /\ reader'.at = "poll"
        /\ reader'.seen = Len(logs[reader.feed]) /\ reader'.feed = reader.feed
        /\ reader.at = "live"
    BY <1>4 DEF Poll
  <2> QED
    BY <1>0, <1>b, <2>1 DEF ReaderBehind, SentIsLogged
<1> QED
    BY <1>1, <1>2, <1>3, <1>4

\* A fresh store has no history.
LEMMA InitHistory == Parameters /\ Init => HistoryInv
<1> SUFFICES ASSUME Parameters, Init PROVE HistoryInv
    OBVIOUS
<1>1. AppendInv
    BY InitAppend
<1>2. /\ reader.at = "closed" /\ reader.start = 0 /\ reader.seen = 0 /\ reader.sent = <<>>
    BY DEF Init, NoReader
<1>3. ReaderBehind
    BY <1>2 DEF ReaderBehind
<1>4. SentIsLogged
    BY <1>2 DEF SentIsLogged
<1>5. KeysTyped /\ KeysLead
    BY DEF Init, KeysTyped, KeysLead
<1>6. KeysThere
    BY DEF Init, KeysThere
<1> QED
    BY <1>1, <1>3, <1>4, <1>5, <1>6 DEF HistoryInv

\* Every step keeps the index and the stream in agreement with the logs.
LEMMA StepHistory ==
    ASSUME Parameters, HistoryInv, [Next]_vars PROVE HistoryInv'
<1> USE DEF HistoryInv
<1>0. AppendInv'
    BY StepAppend
<1>1. ASSUME UNCHANGED << logs, index >> PROVE KeysTyped' /\ KeysLead' /\ KeysThere'
    BY <1>1 DEF KeysTyped, KeysLead, KeysThere
<1>2. ASSUME UNCHANGED << logs, reader >> PROVE ReaderBehind' /\ SentIsLogged'
    BY <1>2 DEF ReaderBehind, SentIsLogged
<1>3. ASSUME NEW w \in Writers, CommitMessage(w) PROVE HistoryInv'
  <2>1. Grown /\ reader' = reader
    BY <1>3, CommitGrows DEF CommitMessage, Bounds
  <2> QED
    BY <1>0, <1>3, <2>1, CommitKeys, GrownReader
<1>4. ASSUME NEW w \in Writers, WriterStep(w), ~CommitMessage(w) PROVE HistoryInv'
    BY <1>0, <1>1, <1>2, <1>4, OthersLeaveIndex
<1>5. CASE HandleHistory \/ WriteMessage \/ BacklogDone \/ Poll
    BY <1>0, <1>1, <1>5, ReaderStep, StreamStep DEF tables
<1>6. CASE UNCHANGED vars
    BY <1>0, <1>1, <1>2, <1>6 DEF vars, tables
<1> QED
    BY <1>3, <1>4, <1>5, <1>6 DEF Next

\* The key index leads to the messages and misses none, and a history stream sends what
\* is in the log from where it started, whatever is appended while it runs.
THEOREM ReadersAgree == ASSUME Parameters PROVE Spec => []KeysAndHistory
<1>1. Init => HistoryInv
    BY InitHistory
<1>2. HistoryInv /\ [Next]_vars => HistoryInv'
    BY StepHistory
<1>3. HistoryInv => KeysAndHistory
    BY DEF HistoryInv, KeysLead, KeysThere, SentIsLogged, KeysAndHistory
<1> QED
    BY <1>1, <1>2, <1>3, PTL DEF Spec
=============================================================================
