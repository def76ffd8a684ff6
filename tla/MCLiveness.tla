----------------------------- MODULE MCLiveness -----------------------------
(***************************************************************************)
(* What must happen in the long run: a behaviour is one of the publish      *)
(* queue, one of the forward bridge (a reply that waits for its post), or   *)
(* one of a tunnel between two clients of the room.                         *)
(***************************************************************************)
EXTENDS PublishQueue, TLC

CONSTANTS MaxFaults, MaxSent

VARIABLES
    part,
    events, next, cursor, rows, log, frame, depth, batch, visited, fetched, holder, waits, swept,
    faults, resets,
    tunnel, announced, registered, up, expired, toRoom, toEnd, reader, sinkClosed,
    copier, cleanup, written, got, joined, closed, ended

\* Two DIDs on different lanes.
MCHash == "a" :> 4 @@ "b" :> 5

\* A reply waits for a post that arrives later, or fails and is retried.
Up(u, c) == [uri |-> u, cid |-> c, act |-> "upsert", raw |-> TRUE]
PairRefs == "p" :> {} @@ "r" :> {"p"}
Forward == INSTANCE Processor WITH
    URI <- {"p", "r"}, Refs <- PairRefs, Hydrated <- PairRefs,
    Kind <- "p" :> "plain" @@ "r" :> "reversible", Incomplete <- {}, Remote <- "p" :> {} @@ "r" :> {},
    CID <- {"c1"}, Scripts <- {<<Up("r", "c1"), Up("p", "c1")>>}, Schedulers <- {"retry", "deferred"},
    MaxAttempts <- 2, Limit <- 5, MaxAge <- 2, MaxDepth <- 2, MaxFetch <- 1, MaxLog <- 6,
    FaultyDB <- FALSE, MaxResets <- 0
Tunnel == INSTANCE RoomTunnel WITH source <- reader, sent <- written

forwardVars == << events, next, cursor, rows, log, frame, depth, batch, visited, fetched, holder, waits,
                  swept, faults, resets >>
tunnelVars == << tunnel, announced, registered, up, expired, toRoom, toEnd, reader, sinkClosed,
                 copier, cleanup, written, got, joined, closed, ended >>

\* A part that is not chosen stays in one of its initial states.
LiveInit ==
    /\ Init /\ Forward!Init /\ Tunnel!Init
    /\ part \in {"queue", "processor", "tunnel"}
    /\ part # "tunnel" => announced /\ registered /\ up["target"]

LiveNext ==
    \/ part = "queue" /\ Next /\ UNCHANGED << part, forwardVars, tunnelVars >>
    \/ part = "processor" /\ Forward!Next /\ UNCHANGED << part, vars, tunnelVars >>
    \/ part = "tunnel" /\ Tunnel!Next /\ UNCHANGED << part, vars, forwardVars >>

\* A queue that is not used has nothing to do: its fairness asks nothing of the others.
LiveSpec ==
    /\ LiveInit /\ [][LiveNext]_<< part, vars, forwardVars, tunnelVars >>
    /\ \/ part = "processor" /\ Forward!Fairness
       \/ part = "tunnel" /\ Tunnel!TunnelFairness
       \/ part = "queue"
    /\ Fairness

\* OrderPerDID and CloseDrains are those of PublishQueue.  A message that the publish
\* queue takes is answered, and a Close of it returns;
EveryPublishAnswered == AcceptedIsAnswered /\ CloseEventuallyReturns
\* the properties of the other parts, stated in their modules: the consumer gets through
\* the event log, a deferred record is published once what it refers to is, and a failed
\* one is retried to the end,
EveryRecordSettles ==
    /\ part = "processor" => Forward!EventsConsumed
    /\ Forward!DeferredResolves /\ Forward!RetryTerminates
\* a tunnel delivers what was written before it closed,
NothingCutOff == Tunnel!NothingCutOff
\* and is taken down.
TunnelEnds == Tunnel!TunnelEnds
=============================================================================
