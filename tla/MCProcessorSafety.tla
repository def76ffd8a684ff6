-------------------------- MODULE MCProcessorSafety --------------------------
(***************************************************************************)
(* Three instances of Processor in one run: a post and its reply with the   *)
(* retry and deferred schedulers, failing writes and a reset ("race"); a    *)
(* thread whose records refer to each other's parents ("thread"); and       *)
(* replies to a post nobody can serve, with all schedulers ("starve").      *)
(***************************************************************************)
EXTENDS Processor, TLC

VARIABLES
    instance,
    \* the state of the instances "thread" and "starve"
    oevents, onext, ocursor, orows, olog, oframe, odepth, obatch, ovisited, ofetched, oholder, owaits,
    oswept, ofaults, oresets

others == << oevents, onext, ocursor, orows, olog, oframe, odepth, obatch, ovisited, ofetched,
             oholder, owaits, oswept, ofaults, oresets >>

Up(u, c) == [uri |-> u, cid |-> c, act |-> "upsert", raw |-> TRUE]
Del(u, c, raw) == [uri |-> u, cid |-> c, act |-> "delete", raw |-> raw]

\* "r" replies to "p".
RaceURI == {"p", "r"}
RaceRefs == "p" :> {} @@ "r" :> {"p"}
RaceKind == "p" :> "plain" @@ "r" :> "reversible"
RaceRemote == "p" :> {"c1"} @@ "r" :> {}
RaceScripts == {
    <<Up("r", "c1"), Up("p", "c1"), Up("r", "c2")>>,
    <<Up("p", "c1"), Up("r", "c1"), Del("r", "c1", TRUE)>>,
    <<Up("r", "c1"), Del("r", "", FALSE), Up("p", "c2")>> }
\* "l" replies to "r" and quotes "x", both of which reply to "p".
ThreadRefs == "p" :> {} @@ "r" :> {"p"} @@ "l" :> {"r", "x"} @@ "x" :> {"p"}
ThreadKind == "p" :> "plain" @@ "r" :> "plain" @@ "l" :> "reversible" @@ "x" :> "other"
ThreadRemote == "p" :> {"c1", ""} @@ "r" :> {"c1"} @@ "l" :> {} @@ "x" :> {}
ThreadScripts == {
    <<Up("l", "c1"), Up("x", "c1")>>,
    <<Up("x", "c1"), Up("l", "c1")>>,
    <<Up("x", "c1"), Del("x", "c1", TRUE)>> }
Thread == INSTANCE Processor WITH
    URI <- {"p", "r", "l", "x"}, Refs <- ThreadRefs, Hydrated <- ThreadRefs, Kind <- ThreadKind,
    Incomplete <- {}, Remote <- ThreadRemote, CID <- {"c1"}, Scripts <- ThreadScripts,
    Schedulers <- {"deferred"}, Limit <- 5, MaxDepth <- 2, FaultyDB <- FALSE, MaxResets <- 0,
    events <- oevents, next <- onext, cursor <- ocursor, rows <- orows, log <- olog, frame <- oframe,
    depth <- odepth, batch <- obatch, visited <- ovisited, fetched <- ofetched, holder <- oholder,
    waits <- owaits, swept <- oswept, faults <- ofaults, resets <- oresets

\* "b" replies to "a", which replies to a post nobody can serve.
StarveRefs == "m" :> {} @@ "a" :> {"m"} @@ "b" :> {"a"}
StarveKind == "m" :> "plain" @@ "a" :> "plain" @@ "b" :> "plain"
StarveRemote == "m" :> {} @@ "a" :> {} @@ "b" :> {}
Starve == INSTANCE Processor WITH
    URI <- {"m", "a", "b"}, Refs <- StarveRefs, Hydrated <- StarveRefs, Kind <- StarveKind,
    Incomplete <- {}, Remote <- StarveRemote, CID <- {"c1"},
    Scripts <- {<<Up("a", "c1"), Up("b", "c1")>>},
    Schedulers <- {"retry", "deferred", "expiry"}, Limit <- 1, MaxDepth <- 1, FaultyDB <- FALSE,
    MaxResets <- 0,
    events <- oevents, next <- onext, cursor <- ocursor, rows <- orows, log <- olog, frame <- oframe,
    depth <- odepth, batch <- obatch, visited <- ovisited, fetched <- ofetched, holder <- oholder,
    waits <- owaits, swept <- oswept, faults <- ofaults, resets <- oresets

\* An instance that is not chosen stays in one of its initial states.
SafetyInit ==
    /\ Init
    /\ \/ instance = "race" /\ Thread!Init /\ oevents = <<Up("l", "c1"), Up("x", "c1")>>
       \/ instance = "thread" /\ Thread!Init /\ events = <<Up("r", "c1"), Up("p", "c1"), Up("r", "c2")>>
       \/ instance = "starve" /\ Starve!Init /\ events = <<Up("r", "c1"), Up("p", "c1"), Up("r", "c2")>>

SafetyNext ==
    /\ \/ instance = "race" /\ Next /\ UNCHANGED others
       \/ instance = "thread" /\ Thread!Next /\ UNCHANGED vars
       \/ instance = "starve" /\ Starve!Next /\ UNCHANGED vars
    /\ UNCHANGED instance

SafetySpec == SafetyInit /\ [][SafetyNext]_<< instance, vars, others >>

\* CausalLinks, RowsMatchLog, NoLostWakeup and OnlyRetryLeaks are those of Processor, for
\* the first instance.  Nobody waits in a circle in any of the three, and in the threads
\* of the other two the same holds: links are causal, rows match the log, whoever waits
\* is woken, and only a retry publishes a placeholder.
ThreadsHold ==
    /\ NoWaitCycle
    /\ instance = "thread" =>
           /\ Thread!NoWaitCycle /\ Thread!NoLostWakeup
           /\ Thread!OnlyRetryLeaks /\ Thread!CausalLinks /\ Thread!RowsMatchLog
    /\ instance = "starve" =>
           /\ Starve!NoWaitCycle /\ Starve!NoLostWakeup
           /\ Starve!OnlyRetryLeaks /\ Starve!CausalLinks /\ Starve!RowsMatchLog
==============================================================================
