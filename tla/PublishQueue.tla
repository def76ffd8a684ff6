---------------------------- MODULE PublishQueue ----------------------------
(***************************************************************************)
(* internal/publishqueue: WorkerPublisher.  Publish calls are dispatched to *)
(* worker lanes (one bounded Go channel and one goroutine each) chosen by   *)
(* hashing the DID; Close closes every channel and waits for the workers.   *)
(*                                                                          *)
(* A request is its DID and its position among the requests of that DID     *)
(* that entered a lane (0 before it did): the order the package promises to *)
(* keep.  The content and whether the delegate refuses it are passed through*)
(* untouched and left out.  A send on a closed channel panics, and a panic  *)
(* in any goroutine ends the process: after it no action is enabled.        *)
(***************************************************************************)
EXTENDS Naturals, Sequences

CONSTANTS
    Callers,    \* goroutines calling Publish
    DID,        \* ATProto identities
    Workers,    \* number of lanes
    Hash,       \* fnv32a of a DID
    Capacity,   \* channel buffer of a lane (256 in the code)
    MaxSends    \* bound: requests per DID that enter a lane

ASSUME WorkersAssumption == Workers \in Nat \ {0}
ASSUME HashAssumption == Hash \in [DID -> Nat]
ASSUME CapacityAssumption == Capacity \in Nat \ {0}
ASSUME MaxSendsAssumption == MaxSends \in Nat

VARIABLES
    lane,       \* lane[l]: the requests buffered in the channel
    open,       \* open[l]: the channel has not been closed
    worker,     \* worker[l]: where the lane's goroutine is
    taken,      \* taken[l]: the request the goroutine is publishing, if any
    pc,         \* pc[c]: the select the caller is at
    req,        \* req[c]: the request of the caller's Publish, if any
    sent,       \* sent[d]: requests of d that entered a lane so far
    feed,       \* what the delegate was asked to publish, in that order
    answered,   \* the requests whose resp channel was given its answer
    closing,    \* progress of Close
    panicked    \* a send on a closed channel happened

vars == <<lane, open, worker, taken, pc, req, sent, feed, answered, closing, panicked>>

Lane == 1..Workers

\* The lane of a DID; lanes are numbered from 1.
leastLoadedLane(d) == CHOOSE l \in Lane : \A k \in Lane : Len(lane[l]) <= Len(lane[k])
laneIndex(d) == IF Workers <= 1 THEN 1 ELSE (Hash[d] % Workers) + 1

Request == [did : DID, n : Nat]
Req(d, n) == [did |-> d, n |-> n]

TypeOK ==
    /\ lane \in [Lane -> Seq(Request)]
    /\ \A l \in Lane : Len(lane[l]) <= Capacity
    /\ open \in [Lane -> BOOLEAN]
    /\ worker \in [Lane -> {"idle", "busy", "exited"}]
    /\ taken \in [Lane -> SUBSET Request]
    /\ pc \in [Callers -> {"idle", "sending", "waiting"}]
    /\ req \in [Callers -> SUBSET Request]
    /\ sent \in [DID -> Nat]
    /\ feed \in Seq(Request)
    /\ answered \in SUBSET Request
    /\ closing \in {"no", "closing", "waiting", "done"}
    /\ panicked \in BOOLEAN

-----------------------------------------------------------------------------
\* New: every lane is created and its worker started.
Init ==
    /\ lane = [l \in Lane |-> <<>>]
    /\ open = [l \in Lane |-> TRUE]
    /\ worker = [l \in Lane |-> "idle"]
    /\ taken = [l \in Lane |-> {}]
    /\ pc = [c \in Callers |-> "idle"]
    /\ req = [c \in Callers |-> {}]
    /\ sent = [d \in DID |-> 0]
    /\ feed = <<>>
    /\ answered = {}
    /\ closing = "no"
    /\ panicked = FALSE

\* A goroutine enters Publish for d and reaches the first select.
Publish(c, d) ==
    /\ pc[c] = "idle"
    /\ sent[d] < MaxSends
    /\ pc' = [pc EXCEPT ![c] = "sending"]
    /\ req' = [req EXCEPT ![c] = {Req(d, 0)}]
    /\ UNCHANGED <<lane, open, worker, taken, sent, feed, answered, closing, panicked>>

\* "case lanes[idx] <- req" on an open channel with room.
Send(c, d) ==
    LET l == laneIndex(d)
        r == Req(d, sent[d] + 1)
    IN  /\ pc[c] = "sending"
        /\ Req(d, 0) \in req[c]
        /\ open[l]
        /\ Len(lane[l]) < Capacity
        /\ sent[d] < MaxSends
        /\ lane' = [lane EXCEPT ![l] = Append(@, r)]
        /\ sent' = [sent EXCEPT ![d] = @ + 1]
        /\ pc' = [pc EXCEPT ![c] = "waiting"]
        /\ req' = [req EXCEPT ![c] = {r}]
        /\ UNCHANGED <<open, worker, taken, feed, answered, closing, panicked>>

\* The same case on a closed channel: the runtime panics, also for a sender
\* that was blocked on a full lane when Close closed it.
SendOnClosed(c, d) ==
    /\ pc[c] = "sending"
    /\ Req(d, 0) \in req[c]
    /\ ~open[laneIndex(d)]
    /\ panicked' = TRUE
    /\ UNCHANGED <<lane, open, worker, taken, pc, req, sent, feed, answered, closing>>

\* "case <-ctx.Done()" of either select.  The request of the second one stays
\* in its lane: the worker publishes it although the caller saw an error.
Cancel(c) ==
    /\ pc[c] \in {"sending", "waiting"}
    /\ pc' = [pc EXCEPT ![c] = "idle"]
    /\ req' = [req EXCEPT ![c] = {}]
    /\ UNCHANGED <<lane, open, worker, taken, sent, feed, answered, closing, panicked>>

\* "case res := <-req.resp".
Receive(c) ==
    /\ pc[c] = "waiting"
    /\ req[c] \subseteq answered
    /\ pc' = [pc EXCEPT ![c] = "idle"]
    /\ req' = [req EXCEPT ![c] = {}]
    /\ UNCHANGED <<lane, open, worker, taken, sent, feed, answered, closing, panicked>>

\* runLane: the worker takes the head of its channel and calls the delegate.
Take(l) ==
    /\ worker[l] = "idle"
    /\ lane[l] # <<>>
    /\ worker' = [worker EXCEPT ![l] = "busy"]
    /\ taken' = [taken EXCEPT ![l] = {Head(lane[l])}]
    /\ lane' = [lane EXCEPT ![l] = Tail(@)]
    /\ feed' = Append(feed, Head(lane[l]))
    /\ UNCHANGED <<open, pc, req, sent, answered, closing, panicked>>

\* The delegate returns and the worker answers; resp has room for one answer,
\* so this never blocks, whether or not the caller still listens.
Finish(l) ==
    /\ worker[l] = "busy"
    /\ worker' = [worker EXCEPT ![l] = "idle"]
    /\ taken' = [taken EXCEPT ![l] = {}]
    /\ answered' = answered \cup taken[l]
    /\ UNCHANGED <<lane, open, pc, req, sent, feed, closing, panicked>>

\* Mutant of Exit: the worker stops on a done signal, with requests buffered.
ExitUndrained(l) ==
    /\ worker[l] = "idle"
    /\ ~open[l]
    /\ worker' = [worker EXCEPT ![l] = "exited"]
    /\ UNCHANGED <<lane, open, taken, pc, req, sent, feed, answered, closing, panicked>>

\* The range loop of runLane ends once the channel is closed and drained.
Exit(l) ==
    /\ worker[l] = "idle"
    /\ ~open[l]
    /\ lane[l] = <<>>
    /\ worker' = [worker EXCEPT ![l] = "exited"]
    /\ UNCHANGED <<lane, open, taken, pc, req, sent, feed, answered, closing, panicked>>

\* Close, inside closeOnce: the lanes are closed one after another ...
Close ==
    /\ closing = "no"
    /\ closing' = "closing"
    /\ UNCHANGED <<lane, open, worker, taken, pc, req, sent, feed, answered, panicked>>

\* Mutant of CloseLane: an off-by-one loop leaves the last lane open.
CloseAllButLast(l) ==
    /\ closing = "closing"
    /\ open[l]
    /\ l < Workers
    /\ \A k \in Lane : k < l => ~open[k]
    /\ open' = [open EXCEPT ![l] = FALSE]
    /\ closing' = IF l = Workers - 1 THEN "waiting" ELSE "closing"
    /\ UNCHANGED <<lane, worker, taken, pc, req, sent, feed, answered, panicked>>

CloseLane(l) ==
    /\ closing = "closing"
    /\ open[l]
    /\ \A k \in Lane : k < l => ~open[k]
    /\ open' = [open EXCEPT ![l] = FALSE]
    /\ closing' = IF l = Workers THEN "waiting" ELSE "closing"
    /\ UNCHANGED <<lane, worker, taken, pc, req, sent, feed, answered, panicked>>

\* ... and wg.Wait returns when every worker has called wg.Done.
CloseReturns ==
    /\ closing = "waiting"
    /\ \A l \in Lane : worker[l] = "exited"
    /\ closing' = "done"
    /\ UNCHANGED <<lane, open, worker, taken, pc, req, sent, feed, answered, panicked>>

WorkerStep(l) == Take(l) \/ Finish(l) \/ Exit(l)
CloseStep == CloseReturns \/ \E l \in Lane : CloseLane(l)

Next ==
    /\ ~panicked
    /\ \/ \E c \in Callers, d \in DID : Publish(c, d) \/ Send(c, d) \/ SendOnClosed(c, d)
       \/ \E c \in Callers : Cancel(c) \/ Receive(c)
       \/ \E l \in Lane : WorkerStep(l)
       \/ Close
       \/ CloseStep

\* The Go scheduler runs every runnable worker, and a Close that was started.
\* Nothing makes a caller call or cancel, and nobody has to close.
Fairness ==
    /\ \A l \in Lane : WF_vars(~panicked /\ WorkerStep(l))
    /\ WF_vars(~panicked /\ CloseStep)

Spec == Init /\ [][Next]_vars /\ Fairness

-----------------------------------------------------------------------------
\* New promises that it "preserves publish order per DID": whatever the
\* callers, cancellations and lanes do, the delegate sees the requests of one
\* DID in the order in which Publish accepted them, each at most once.
OrderPerDID ==
    \A i, j \in 1..Len(feed) :
        (i < j /\ feed[i].did = feed[j].did) => feed[i].n < feed[j].n

\* Close "waits for in-flight publishes to finish": once it has returned, every
\* request that Publish ever accepted, the ones whose caller gave up included,
\* has been through the delegate.
CloseDrains ==
    closing = "done" => \A d \in DID : \A n \in 1..sent[d] : Req(d, n) \in answered

\* Every accepted request is eventually answered unless the process panics.
AcceptedIsAnswered ==
    \A d \in DID : \A n \in 1..MaxSends :
        (sent[d] >= n) ~> (panicked \/ Req(d, n) \in answered)

\* A Close that was called returns unless the process panics.
CloseEventuallyReturns == (closing # "no") ~> (panicked \/ closing = "done")

\* The doc comment of Close, "shuts down worker lanes and waits for in-flight
\* publishes to finish", read for a Publish that is still at its first select:
\* closing the lanes must not crash it.
NoPanicOnClose == ~panicked
=============================================================================
