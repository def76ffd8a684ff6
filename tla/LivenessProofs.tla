--------------------------- MODULE LivenessProofs ---------------------------
(***************************************************************************)
(* Proofs about two parts of MCLiveness.  The publish queue, for any number *)
(* of callers, DIDs and lanes, any hash and any channel capacity: it keeps  *)
(* the order of a DID, and Close drains it.  The tunnel, for any number of  *)
(* frames: it delivers what was written before it closed.                   *)
(***************************************************************************)
EXTENDS MCLiveness, Integers, TLAPS

\* A buffered request sits in the lane its DID hashes to, with a position that
\* was handed out.
LaneHome ==
    \A l \in Lane : \A i \in 1..Len(lane[l]) :
        /\ laneIndex(lane[l][i].did) = l
        /\ lane[l][i].n \in 1..sent[lane[l][i].did]

\* Within a lane the requests of one DID are in the order of their positions.
LaneSorted ==
    \A l \in Lane : \A i, j \in 1..Len(lane[l]) :
        (i < j /\ lane[l][i].did = lane[l][j].did) => lane[l][i].n < lane[l][j].n

\* What the delegate saw of a DID was sent, and before all that is buffered.
FeedBehindLanes ==
    /\ \A i \in 1..Len(feed) : feed[i].n <= sent[feed[i].did]
    /\ \A i \in 1..Len(feed) : \A l \in Lane : \A j \in 1..Len(lane[l]) :
           feed[i].did = lane[l][j].did => feed[i].n < lane[l][j].n

\* The inductive invariant behind OrderPerDID.
OrderInv == TypeOK /\ LaneHome /\ LaneSorted /\ FeedBehindLanes /\ OrderPerDID

\* An accepted request is in its lane, with the worker, or answered.
NothingDropped ==
    \A d \in DID : \A n \in 1..sent[d] :
        \/ \E i \in 1..Len(lane[laneIndex(d)]) : lane[laneIndex(d)][i] = Req(d, n)
        \/ Req(d, n) \in taken[laneIndex(d)]
        \/ Req(d, n) \in answered

\* A worker that exited left nothing behind, in a lane that stays closed.
ExitedIsEmpty ==
    \A l \in Lane :
        /\ worker[l] = "exited" => lane[l] = <<>> /\ ~open[l]
        /\ worker[l] # "busy" => taken[l] = {}

DoneIsExited == closing = "done" => \A l \in Lane : worker[l] = "exited"

\* The inductive invariant behind CloseDrains.
DrainInv == TypeOK /\ NothingDropped /\ ExitedIsEmpty /\ DoneIsExited

-----------------------------------------------------------------------------
\* laneIndex names a lane.
LEMMA LaneIndexed == \A d \in DID : laneIndex(d) \in Lane
<1> SUFFICES ASSUME NEW d \in DID PROVE laneIndex(d) \in Lane
    OBVIOUS
<1>1. Hash[d] \in Nat /\ Workers \in Nat /\ Workers >= 1
    BY HashAssumption, WorkersAssumption
<1>2. Hash[d] % Workers \in 0..(Workers - 1)
    BY <1>1
<1> QED
    BY <1>1, <1>2 DEF laneIndex, Lane

\* Every step of WorkerPublisher keeps the types of its state.
LEMMA TypeStep == TypeOK /\ [Next]_vars => TypeOK'
<1> SUFFICES ASSUME TypeOK, [Next]_vars PROVE TypeOK'
    OBVIOUS
<1> USE LaneIndexed, CapacityAssumption DEF TypeOK
<1>a. \A d \in DID, n \in Nat : Req(d, n) \in Request
    BY DEF Request, Req
<1>b. \A l \in Lane : lane[l] # <<>> =>
          Head(lane[l]) \in Request /\ Tail(lane[l]) \in Seq(Request)
    OBVIOUS
<1>1. ASSUME NEW c \in Callers, NEW d \in DID, Publish(c, d) PROVE TypeOK'
    BY <1>1, <1>a DEF Publish
<1>2. ASSUME NEW c \in Callers, NEW d \in DID, Send(c, d) PROVE TypeOK'
    BY <1>2, <1>a DEF Send
<1>3. ASSUME NEW c \in Callers, NEW d \in DID, SendOnClosed(c, d) PROVE TypeOK'
    BY <1>3 DEF SendOnClosed
<1>4. ASSUME NEW c \in Callers, Cancel(c) PROVE TypeOK'
    BY <1>4 DEF Cancel
<1>5. ASSUME NEW c \in Callers, Receive(c) PROVE TypeOK'
    BY <1>5 DEF Receive
<1>6. ASSUME NEW l \in Lane, Take(l) PROVE TypeOK'
    BY <1>6, <1>b DEF Take
<1>7. ASSUME NEW l \in Lane, Finish(l) PROVE TypeOK'
    BY <1>7 DEF Finish
<1>8. ASSUME NEW l \in Lane, Exit(l) PROVE TypeOK'
    BY <1>8 DEF Exit
<1>9. CASE Close
    BY <1>9 DEF Close
<1>10. ASSUME NEW l \in Lane, CloseLane(l) PROVE TypeOK'
    BY <1>10 DEF CloseLane
<1>11. CASE CloseReturns
    BY <1>11 DEF CloseReturns
<1>12. CASE UNCHANGED vars
    BY <1>12 DEF vars
<1> QED
    BY <1>1, <1>2, <1>3, <1>4, <1>5, <1>6, <1>7, <1>8, <1>9, <1>10, <1>11, <1>12
    DEF Next, WorkerStep, CloseStep

\* New builds a well-typed publisher.
LEMMA TypeInit == Init => TypeOK
<1> SUFFICES ASSUME Init PROVE TypeOK
    OBVIOUS
<1>1. lane \in [Lane -> Seq(Request)] /\ feed \in Seq(Request)
    BY DEF Init
<1>2. taken \in [Lane -> SUBSET Request] /\ req \in [Callers -> SUBSET Request]
    BY DEF Init
<1>3. \A l \in Lane : Len(lane[l]) <= Capacity
    BY CapacityAssumption DEF Init
<1> QED
    BY <1>1, <1>2, <1>3 DEF Init, TypeOK

\* Type correctness of WorkerPublisher: Publish, runLane and Close keep every
\* channel, worker and caller within its type.
THEOREM TypeCorrect == Spec => []TypeOK
    BY TypeInit, TypeStep, PTL DEF Spec

-----------------------------------------------------------------------------
\* The elements of a sequence of requests have a DID and a position.
LEMMA Elements ==
    ASSUME NEW s \in Seq(Request), NEW i \in 1..Len(s)
    PROVE  s[i] \in Request /\ s[i].did \in DID /\ s[i].n \in Nat
<1>1. s[i] \in Request
    OBVIOUS
<1> QED
    BY <1>1 DEF Request

\* Enqueueing a request after all of its DID keeps the order.
LEMMA OrderSend ==
    ASSUME OrderInv, NEW c \in Callers, NEW d \in DID, Send(c, d)
    PROVE  LaneHome' /\ LaneSorted' /\ FeedBehindLanes' /\ OrderPerDID'
<1> DEFINE k == laneIndex(d)
           r == Req(d, sent[d] + 1)
<1> USE LaneIndexed DEF OrderInv
<1>1. k \in Lane /\ r \in Request /\ r.did = d /\ r.n = sent[d] + 1
    BY DEF TypeOK, Lane, Request, Req
<1>2. /\ lane' = [lane EXCEPT ![k] = Append(lane[k], r)]
      /\ sent' = [sent EXCEPT ![d] = sent[d] + 1]
      /\ feed' = feed
    BY DEF Send
<1>3. ASSUME NEW l \in Lane, NEW i \in 1..Len(lane'[l])
      PROVE  \/ i \in 1..Len(lane[l]) /\ lane'[l][i] = lane[l][i]
             \/ l = k /\ i = Len(lane[k]) + 1 /\ lane'[l][i] = r
    BY <1>1, <1>2 DEF TypeOK
<1>4. sent \in [DID -> Nat] /\ \A e \in DID : sent'[e] \in Nat /\ sent[e] <= sent'[e]
    BY <1>2 DEF TypeOK
<1>5. \A l \in Lane : lane[l] \in Seq(Request) /\ Len(lane[l]) \in Nat
    BY DEF TypeOK
<1>6. \A l \in Lane : \A i \in 1..Len(lane[l]) :
          lane[l][i].did \in DID /\ lane[l][i].n \in Nat
    BY <1>5, Elements
<1>7. \A i \in 1..Len(feed) : feed[i].did \in DID /\ feed[i].n \in Nat
    BY Elements DEF TypeOK
<1>8. LaneHome'
  <2> SUFFICES ASSUME NEW l \in Lane, NEW i \in 1..Len(lane'[l])
               PROVE  /\ laneIndex(lane'[l][i].did) = l
                      /\ lane'[l][i].n \in 1..sent'[lane'[l][i].did]
      BY DEF LaneHome, Lane
  <2>1. CASE i \in 1..Len(lane[l]) /\ lane'[l][i] = lane[l][i]
      BY <2>1, <1>4, <1>6 DEF LaneHome
  <2>2. CASE l = k /\ i = Len(lane[k]) + 1 /\ lane'[l][i] = r
      BY <2>2, <1>1, <1>2, <1>4
  <2> QED BY <2>1, <2>2, <1>3
<1>9. LaneSorted'
  <2> SUFFICES ASSUME NEW l \in Lane, NEW i \in 1..Len(lane'[l]), NEW j \in 1..Len(lane'[l]),
                      i < j, lane'[l][i].did = lane'[l][j].did
               PROVE  lane'[l][i].n < lane'[l][j].n
      BY DEF LaneSorted, Lane
  <2>1. CASE i \in 1..Len(lane[l]) /\ lane'[l][i] = lane[l][i] /\ j \in 1..Len(lane[l]) /\ lane'[l][j] = lane[l][j]
      BY <2>1 DEF LaneSorted
  <2>2. CASE i \in 1..Len(lane[l]) /\ lane'[l][i] = lane[l][i] /\ lane'[l][j] = r
      BY <2>2, <1>1, <1>4, <1>6 DEF LaneHome
  <2> QED BY <2>1, <2>2, <1>3, <1>5
<1>10. FeedBehindLanes'
  <2>1. ASSUME NEW i \in 1..Len(feed) PROVE feed[i].n <= sent'[feed[i].did]
      BY <1>4, <1>7 DEF FeedBehindLanes
  <2>2. ASSUME NEW i \in 1..Len(feed), NEW l \in Lane, NEW j \in 1..Len(lane'[l]),
               feed[i].did = lane'[l][j].did
        PROVE  feed[i].n < lane'[l][j].n
    <3>1. CASE j \in 1..Len(lane[l]) /\ lane'[l][j] = lane[l][j]
        BY <3>1, <2>2 DEF FeedBehindLanes
    <3>2. CASE lane'[l][j] = r
        BY <3>2, <2>2, <1>1, <1>4, <1>7 DEF FeedBehindLanes
    <3> QED BY <3>1, <3>2, <1>3
  <2> QED BY <2>1, <2>2, <1>2 DEF FeedBehindLanes, Lane
<1>11. OrderPerDID'
    BY <1>2 DEF OrderPerDID
<1> QED BY <1>8, <1>9, <1>10, <1>11

\* Handing the head of a lane to the delegate keeps the order.
LEMMA OrderTake ==
    ASSUME OrderInv, NEW k \in Lane, Take(k)
    PROVE  LaneHome' /\ LaneSorted' /\ FeedBehindLanes' /\ OrderPerDID'
<1> DEFINE h == lane[k][1]
<1> USE DEF OrderInv
<1>1. /\ lane' = [lane EXCEPT ![k] = Tail(lane[k])]
      /\ feed' = Append(feed, h)
      /\ sent' = sent
      /\ 1 \in 1..Len(lane[k])
    BY DEF Take, TypeOK
<1>2. /\ feed \in Seq(Request)
      /\ sent \in [DID -> Nat]
      /\ \A l \in Lane : lane[l] \in Seq(Request)
      /\ \A l \in Lane : \A i \in 1..Len(lane[l]) :
             lane[l][i] \in Request /\ lane[l][i].did \in DID /\ lane[l][i].n \in Nat
    BY Elements DEF TypeOK
<1>3. ASSUME NEW l \in Lane, NEW i \in 1..Len(lane'[l])
      PROVE  \E m \in 1..Len(lane[l]) :
                /\ lane'[l][i] = lane[l][m]
                /\ m = IF l = k THEN i + 1 ELSE i
  <2>0. lane'[l] = IF l = k THEN Tail(lane[k]) ELSE lane[l]
      BY <1>1 DEF TypeOK
  <2>1. CASE l = k
    <3>1. lane[k] \in Seq(Request) /\ lane[k] # <<>>
        BY <1>1, <1>2
    <3>2. i \in 1..Len(Tail(lane[k])) /\ lane'[l][i] = Tail(lane[k])[i]
        BY <2>0, <2>1
    <3>3. i + 1 \in 1..Len(lane[k]) /\ lane'[l][i] = lane[k][i + 1]
        BY <3>1, <3>2
    <3> QED BY <2>1, <3>3
  <2>2. CASE l # k
      BY <2>0, <2>2
  <2> QED BY <2>1, <2>2
<1>4. ASSUME NEW i \in 1..Len(feed')
      PROVE  \/ i \in 1..Len(feed) /\ feed'[i] = feed[i]
             \/ i = Len(feed) + 1 /\ feed'[i] = h
    BY <1>1, <1>2
<1>5. LaneHome'
  <2> SUFFICES ASSUME NEW l \in Lane, NEW i \in 1..Len(lane'[l])
               PROVE  /\ laneIndex(lane'[l][i].did) = l
                      /\ lane'[l][i].n \in 1..sent'[lane'[l][i].did]
      BY DEF LaneHome, Lane
  <2>1. PICK m \in 1..Len(lane[l]) : lane'[l][i] = lane[l][m]
      BY <1>3
  <2> QED BY <1>1, <2>1 DEF LaneHome
<1>6. LaneSorted'
  <2> SUFFICES ASSUME NEW l \in Lane, NEW i \in 1..Len(lane'[l]), NEW j \in 1..Len(lane'[l]),
                      i < j, lane'[l][i].did = lane'[l][j].did
               PROVE  lane'[l][i].n < lane'[l][j].n
      BY DEF LaneSorted, Lane
  <2>1. PICK m \in 1..Len(lane[l]) :
            lane'[l][i] = lane[l][m] /\ m = IF l = k THEN i + 1 ELSE i
      BY <1>3
  <2>2. PICK p \in 1..Len(lane[l]) :
            lane'[l][j] = lane[l][p] /\ p = IF l = k THEN j + 1 ELSE j
      BY <1>3
  <2>3. m < p
      BY <2>1, <2>2
  <2> QED BY <2>1, <2>2, <2>3 DEF LaneSorted
<1>7. FeedBehindLanes'
  <2>1. ASSUME NEW i \in 1..Len(feed') PROVE feed'[i].n <= sent'[feed'[i].did]
    <3>1. h.n <= sent[h.did]
        BY <1>1, <1>2 DEF LaneHome
    <3> QED BY <3>1, <1>1, <1>4 DEF FeedBehindLanes
  <2>2. ASSUME NEW i \in 1..Len(feed'), NEW l \in Lane, NEW j \in 1..Len(lane'[l]),
               feed'[i].did = lane'[l][j].did
        PROVE  feed'[i].n < lane'[l][j].n
    <3>1. PICK p \in 1..Len(lane[l]) :
              lane'[l][j] = lane[l][p] /\ p = IF l = k THEN j + 1 ELSE j
        BY <1>3
    <3>2. CASE i \in 1..Len(feed) /\ feed'[i] = feed[i]
        BY <3>1, <3>2, <2>2 DEF FeedBehindLanes
    <3>3. CASE feed'[i] = h
      <4>1. l = k
          BY <3>1, <3>3, <2>2, <1>1 DEF LaneHome
      <4>2. 1 < p
          BY <4>1, <3>1, <1>1, <1>2
      <4> QED BY <4>1, <4>2, <3>1, <3>3, <2>2, <1>1 DEF LaneSorted
    <3> QED BY <3>2, <3>3, <1>4
  <2> QED BY <2>1, <2>2 DEF FeedBehindLanes, Lane
<1>8. OrderPerDID'
  <2> SUFFICES ASSUME NEW i \in 1..Len(feed'), NEW j \in 1..Len(feed'),
                      i < j, feed'[i].did = feed'[j].did
               PROVE  feed'[i].n < feed'[j].n
      BY DEF OrderPerDID
  <2>1. i \in 1..Len(feed) /\ feed'[i] = feed[i]
      BY <1>1, <1>2, <1>4
  <2>2. CASE j \in 1..Len(feed) /\ feed'[j] = feed[j]
      BY <2>1, <2>2 DEF OrderPerDID
  <2>3. CASE feed'[j] = h
      BY <2>1, <2>3, <1>1 DEF FeedBehindLanes
  <2> QED BY <2>2, <2>3, <1>4
<1> QED BY <1>5, <1>6, <1>7, <1>8

\* Publish order per DID: for any callers, lanes, hash and capacity, and
\* whatever is cancelled or closed, runLane gives the delegate the requests of
\* a DID in the order in which Publish put them into the DID's lane.
THEOREM PublishOrder == Spec => []OrderPerDID
<1>1. Init => OrderInv
  <2> SUFFICES ASSUME Init PROVE OrderInv
      OBVIOUS
  <2>1. TypeOK
      BY TypeInit
  <2>2. Len(feed) = 0 /\ \A l \in Lane : Len(lane[l]) = 0
      BY DEF Init
  <2> QED
      BY <2>1, <2>2 DEF OrderInv, LaneHome, LaneSorted, FeedBehindLanes, OrderPerDID
<1>2. OrderInv /\ [Next]_vars => OrderInv'
  <2> SUFFICES ASSUME OrderInv, [Next]_vars
               PROVE  LaneHome' /\ LaneSorted' /\ FeedBehindLanes' /\ OrderPerDID'
      BY TypeStep DEF OrderInv
  <2>1. ASSUME NEW c \in Callers, NEW d \in DID, Send(c, d)
        PROVE  LaneHome' /\ LaneSorted' /\ FeedBehindLanes' /\ OrderPerDID'
      BY <2>1, OrderSend
  <2>2. ASSUME NEW l \in Lane, Take(l)
        PROVE  LaneHome' /\ LaneSorted' /\ FeedBehindLanes' /\ OrderPerDID'
      BY <2>2, OrderTake
  <2>3. CASE UNCHANGED <<lane, sent, feed>>
      BY <2>3 DEF OrderInv, LaneHome, LaneSorted, FeedBehindLanes, OrderPerDID
  <2>4. \/ \E c \in Callers, d \in DID : Send(c, d)
        \/ \E l \in Lane : Take(l)
        \/ UNCHANGED <<lane, sent, feed>>
      BY DEF Next, WorkerStep, CloseStep, Publish, SendOnClosed, Cancel, Receive,
             Finish, Exit, Close, CloseLane, CloseReturns, vars
  <2> QED BY <2>1, <2>2, <2>3, <2>4
<1>3. OrderInv => OrderPerDID
    BY DEF OrderInv
<1> QED BY <1>1, <1>2, <1>3, PTL DEF Spec

-----------------------------------------------------------------------------
\* No step of a caller, a worker or Close loses an accepted request.
LEMMA DropStep ==
    ASSUME TypeOK, TypeOK', NothingDropped, ExitedIsEmpty, [Next]_vars
    PROVE  NothingDropped'
<1>0. /\ \A l \in Lane : lane[l] \in Seq(Request) /\ Len(lane[l]) \in Nat
      /\ \A d \in DID : laneIndex(d) \in Lane /\ sent[d] \in Nat
  <2>1. \A l \in Lane : lane[l] \in Seq(Request) /\ Len(lane[l]) \in Nat
      BY DEF TypeOK
  <2>2. \A d \in DID : laneIndex(d) \in Lane
      BY LaneIndexed
  <2> QED BY <2>1, <2>2 DEF TypeOK
<1>1. ASSUME NEW c \in Callers, NEW e \in DID, Send(c, e) PROVE NothingDropped'
  <2> DEFINE r == Req(e, sent[e] + 1)
  <2>1. /\ lane' = [lane EXCEPT ![laneIndex(e)] = Append(lane[laneIndex(e)], r)]
        /\ sent' = [sent EXCEPT ![e] = sent[e] + 1]
        /\ taken' = taken /\ answered' = answered
        /\ r \in Request
      BY <1>1, <1>0 DEF Send, Req, Request
  <2>2. \A l \in Lane : \A i \in 1..Len(lane[l]) :
            i \in 1..Len(lane'[l]) /\ lane'[l][i] = lane[l][i]
      BY <2>1, <1>0 DEF TypeOK
  <2>3. /\ Len(lane[laneIndex(e)]) + 1 \in 1..Len(lane'[laneIndex(e)])
        /\ lane'[laneIndex(e)][Len(lane[laneIndex(e)]) + 1] = r
      BY <2>1, <1>0 DEF TypeOK
  <2> SUFFICES ASSUME NEW d \in DID, NEW n \in 1..sent'[d]
               PROVE  \/ \E i \in 1..Len(lane'[laneIndex(d)]) : lane'[laneIndex(d)][i] = Req(d, n)
                      \/ Req(d, n) \in taken'[laneIndex(d)]
                      \/ Req(d, n) \in answered'
      BY DEF NothingDropped
  <2>4. CASE n \in 1..sent[d]
      BY <2>1, <2>2, <2>4, <1>0 DEF NothingDropped
  <2>5. CASE d = e /\ n = sent[e] + 1
      BY <2>3, <2>5
  <2> QED BY <2>1, <2>4, <2>5, <1>0 DEF TypeOK
<1>2. ASSUME NEW k \in Lane, Take(k) PROVE NothingDropped'
  <2>1. /\ lane' = [lane EXCEPT ![k] = Tail(lane[k])]
        /\ taken' = [taken EXCEPT ![k] = {lane[k][1]}]
        /\ sent' = sent /\ answered' = answered
        /\ taken[k] = {}
      BY <1>2, <1>0 DEF Take, ExitedIsEmpty
  <2> SUFFICES ASSUME NEW d \in DID, NEW n \in 1..sent[d]
               PROVE  \/ \E i \in 1..Len(lane'[laneIndex(d)]) : lane'[laneIndex(d)][i] = Req(d, n)
                      \/ Req(d, n) \in taken'[laneIndex(d)]
                      \/ Req(d, n) \in answered'
      BY <2>1 DEF NothingDropped
  <2>2. CASE laneIndex(d) # k
      BY <2>1, <2>2, <1>0 DEF NothingDropped, TypeOK
  <2>3. ASSUME laneIndex(d) = k, NEW i \in 1..Len(lane[k]), lane[k][i] = Req(d, n)
        PROVE  \/ \E j \in 1..Len(lane'[k]) : lane'[k][j] = Req(d, n)
               \/ Req(d, n) \in taken'[k]
    <3>1. CASE i = 1
        BY <2>1, <2>3, <3>1, <1>0 DEF TypeOK
    <3>2. CASE i # 1
      <4>1. lane'[k] = Tail(lane[k])
          BY <2>1 DEF TypeOK
      <4>2. i - 1 \in 1..Len(lane'[k]) /\ lane'[k][i - 1] = lane[k][i]
          BY <3>2, <4>1, <1>0
      <4> QED BY <4>2, <2>3
    <3> QED BY <3>1, <3>2
  <2> QED BY <2>1, <2>2, <2>3 DEF NothingDropped
<1>3. ASSUME NEW k \in Lane, Finish(k) PROVE NothingDropped'
  <2>1. /\ answered' = answered \cup taken[k]
        /\ taken' = [taken EXCEPT ![k] = {}]
        /\ lane' = lane /\ sent' = sent
      BY <1>3 DEF Finish
  <2> QED BY <2>1, <1>0 DEF NothingDropped, TypeOK
<1>4. CASE UNCHANGED <<lane, sent, taken, answered>>
    BY <1>4 DEF NothingDropped
<1>5. \/ \E c \in Callers, e \in DID : Send(c, e)
      \/ \E l \in Lane : Take(l) \/ Finish(l)
      \/ UNCHANGED <<lane, sent, taken, answered>>
    BY DEF Next, WorkerStep, CloseStep, Publish, SendOnClosed, Cancel, Receive,
           Exit, Close, CloseLane, CloseReturns, vars
<1> QED BY <1>1, <1>2, <1>3, <1>4, <1>5

\* A worker exits only from a drained, closed lane, and nothing enters it later.
LEMMA ExitStep ==
    ASSUME TypeOK, TypeOK', ExitedIsEmpty, DoneIsExited, [Next]_vars
    PROVE  ExitedIsEmpty' /\ DoneIsExited'
<1> USE LaneIndexed DEF ExitedIsEmpty, DoneIsExited, TypeOK
<1>1. ASSUME NEW c \in Callers, NEW d \in DID, Send(c, d) PROVE ExitedIsEmpty' /\ DoneIsExited'
  <2>1. laneIndex(d) \in Lane
      BY DEF Lane
  <2> QED BY <1>1, <2>1 DEF Send
<1>2. ASSUME NEW l \in Lane, WorkerStep(l) PROVE ExitedIsEmpty' /\ DoneIsExited'
    BY <1>2 DEF WorkerStep, Take, Finish, Exit
<1>3. CASE CloseStep \/ Close
    BY <1>3 DEF CloseStep, CloseLane, CloseReturns, Close
<1>4. CASE UNCHANGED <<lane, open, worker, taken, closing>>
    BY <1>4
<1>5. \/ \E c \in Callers, d \in DID : Send(c, d)
      \/ \E l \in Lane : WorkerStep(l)
      \/ CloseStep \/ Close
      \/ UNCHANGED <<lane, open, worker, taken, closing>>
    BY DEF Next, Publish, SendOnClosed, Cancel, Receive, vars
<1> QED BY <1>1, <1>2, <1>3, <1>4, <1>5

\* Close waits for accepted publishes: when it has returned, every request a
\* Publish ever put into a lane has been through the delegate and answered.
THEOREM CloseWaits == Spec => []CloseDrains
<1>1. Init => DrainInv
  <2>1. Init => TypeOK
      BY TypeInit
  <2> QED BY <2>1 DEF Init, DrainInv, NothingDropped, ExitedIsEmpty, DoneIsExited
<1>2. DrainInv /\ [Next]_vars => DrainInv'
    BY TypeStep, DropStep, ExitStep DEF DrainInv
<1>3. DrainInv => CloseDrains
  <2> SUFFICES ASSUME DrainInv, closing = "done", NEW d \in DID, NEW n \in 1..sent[d]
               PROVE  Req(d, n) \in answered
      BY DEF CloseDrains
  <2>1. laneIndex(d) \in Lane
      BY LaneIndexed
  <2>2. worker[laneIndex(d)] = "exited"
      BY <2>1 DEF DrainInv, DoneIsExited
  <2>3. lane[laneIndex(d)] = <<>> /\ taken[laneIndex(d)] = {}
      BY <2>1, <2>2 DEF DrainInv, ExitedIsEmpty
  <2> QED BY <2>3 DEF DrainInv, NothingDropped
<1> QED BY <1>1, <1>2, <1>3, PTL DEF Spec
-----------------------------------------------------------------------------
(* The tunnel.  A direction is named by the end e that writes; o is the end  *)
(* that reads.                                                               *)

TunnelIsOpen == tunnel \in {"open", "closed"}
\* A goroutine of handleConnect has left its loop.
Cleaning == \E e \in Tunnel!Ends : copier[e] \in {"cleanup", "done"}

\* The state of the room's side.
TunnelPhases ==
    /\ tunnel \in {"asked", "announced", "refused", "open", "closed"}
    /\ cleanup \in 0..4
    /\ cleanup > 0 => Cleaning
    /\ expired => ~up["caller"]
    /\ sinkClosed["caller"] => cleanup >= 3 \/ tunnel = "refused"
    /\ sinkClosed["target"] => cleanup = 4
    /\ \A e \in Tunnel!Ends :
          /\ copier[e] \in {"none", "copy", "cleanup", "done"}
          /\ TunnelIsOpen <=> copier[e] # "none"
          /\ copier[e] = "done" => cleanup = 4

Sources == [frames : Seq(Int), failed : BOOLEAN]
TunnelTypes ==
    /\ up \in [Tunnel!Ends -> BOOLEAN]
    /\ toRoom \in [Tunnel!Ends -> Seq(Int)] /\ toEnd \in [Tunnel!Ends -> Seq(Int)]
    /\ reader \in [Tunnel!Ends -> Sources]
    /\ sinkClosed \in [Tunnel!Ends -> BOOLEAN]
    /\ copier \in [Tunnel!Ends -> {"none", "copy", "cleanup", "done"}]
    /\ written \in [Tunnel!Ends -> Nat] /\ got \in [Tunnel!Ends -> Seq(Int)]
    /\ closed \in [Tunnel!Ends -> BOOLEAN] /\ ended \in [Tunnel!Ends -> BOOLEAN]

\* A sequence of packets: the request if r = 1, the frames after a up to b, and the
\* end of the stream if z = 1.
Train(s, r, a, b, z) ==
    /\ a <= b /\ Len(s) = r + (b - a) + z
    /\ r = 1 => s[1] = Tunnel!RequestPacket
    /\ \A i \in 1..(b - a) : s[r + i] = a + i
    /\ z = 1 => s[Len(s)] = Tunnel!EndPacket

\* Between the room and the reading end are the frames after those it has read, up to m.
OnItsWay(o, m, r, z) ==
    /\ Len(got[o]) <= m /\ \A i \in 1..Len(got[o]) : got[o][i] = i
    /\ ~up[o] => toEnd[o] = << >>
    /\ up[o] => Train(toEnd[o], r, Len(got[o]), m, z)
    /\ z = 1 \/ ended[o] => sinkClosed[o]
    /\ ~TunnelIsOpen => m = 0 /\ r = 0

\* The source holds the frames after m up to k, as long as it is copied.
Received(e, m, k) == copier[e] \in {"none", "copy"} => Train(reader[e].frames, 0, m, k, 0)

\* Between the writing end and the room are the frames after k, and the end of the
\* stream once that end is closed.
Underway(e, k) ==
    /\ ~up[e] => toRoom[e] = << >>
    /\ up[e] /\ ~reader[e].failed =>
          Train(toRoom[e], 0, k, written[e], IF closed[e] THEN 1 ELSE 0)

\* A source that failed before any cleanup has all that was written.  The cleanup has a
\* cause: the reading end closed, the caller was lost, or all was copied.  So an end that
\* read the end of the stream has all that the other end wrote, unless that was lost.
Causes(e, o, m, k) ==
    /\ reader[e].failed /\ tunnel # "refused" /\ ~Cleaning => closed[e] /\ k = written[e]
    /\ Cleaning => closed[o] \/ ~up["caller"] \/ (closed[e] /\ m = written[e])
    /\ ended[o] /\ up[e] /\ TunnelIsOpen => closed[e] /\ Len(got[o]) = written[e]

Direction(e, o, m, k, r, z) ==
    m <= k /\ OnItsWay(o, m, r, z) /\ Received(e, m, k) /\ Underway(e, k) /\ Causes(e, o, m, k)

DirectionInv(e) ==
    \E m, k \in 0..written[e], r, z \in {0, 1} : Direction(e, Tunnel!Other(e), m, k, r, z)

\* The inductive invariant behind NothingCutOff.
TunnelInv == TunnelTypes /\ TunnelPhases /\ \A e \in Tunnel!Ends : DirectionInv(e)

-----------------------------------------------------------------------------
\* The two ends of a tunnel.
LEMMA TwoEnds ==
    /\ Tunnel!Ends = {"caller", "target"}
    /\ Tunnel!Other("caller") = "target" /\ Tunnel!Other("target") = "caller"
    /\ \A e \in Tunnel!Ends : Tunnel!Other(e) \in Tunnel!Ends /\ Tunnel!Other(e) # e
    /\ \A e \in Tunnel!Ends : \A x \in Tunnel!Ends : x = e \/ x = Tunnel!Other(e)
    BY DEF Tunnel!Ends, Tunnel!Other

\* The packets that are not frames.
LEMMA PacketsDiffer == Tunnel!EndPacket = 0 /\ Tunnel!RequestPacket = 0 - 1
    BY DEF Tunnel!EndPacket, Tunnel!RequestPacket

\* A packet written to an end is added to what is on its way there, if the end is connected.
LEMMA PostKeeps ==
    ASSUME toEnd \in [Tunnel!Ends -> Seq(Int)], NEW x \in Tunnel!Ends, NEW p \in Int,
           Tunnel!Post(x, p)
    PROVE  /\ toEnd' \in [Tunnel!Ends -> Seq(Int)]
           /\ up[x] => toEnd'[x] = Append(toEnd[x], p)
           /\ ~up[x] => toEnd'[x] = toEnd[x]
           /\ \A y \in Tunnel!Ends : y # x => toEnd'[y] = toEnd[y]
    BY DEF Tunnel!Post

\* Cancel fails a source and leaves its frames.
LEMMA SourceFails ==
    ASSUME NEW f \in [Tunnel!Ends -> Sources], NEW x \in Tunnel!Ends
    PROVE  LET g == [f EXCEPT ![x].failed = TRUE] IN
           /\ g \in [Tunnel!Ends -> Sources]
           /\ g[x].frames = f[x].frames /\ g[x].failed
           /\ \A y \in Tunnel!Ends : y # x => g[y] = f[y]
<1> DEFINE g == [f EXCEPT ![x].failed = TRUE]
<1>1. g[x] = [f[x] EXCEPT !.failed = TRUE] /\ f[x] \in Sources
    OBVIOUS
<1>2. [f[x] EXCEPT !.failed = TRUE] \in Sources
    BY <1>1 DEF Sources
<1>3. g = [f EXCEPT ![x] = [f[x] EXCEPT !.failed = TRUE]]
    OBVIOUS
<1>4. g \in [Tunnel!Ends -> Sources]
    BY <1>2, <1>3
<1>5. g[x].frames = f[x].frames /\ g[x].failed
    BY <1>1 DEF Sources
<1> QED BY <1>3, <1>4, <1>5

\* A frame that is added to a source or taken from it leaves the rest.
LEMMA SourceHolds ==
    ASSUME NEW s \in Sources, NEW q \in Seq(Int)
    PROVE  /\ [s EXCEPT !.frames = q] \in Sources
           /\ [s EXCEPT !.frames = q].frames = q /\ [s EXCEPT !.frames = q].failed = s.failed
    BY DEF Sources

\* HandlePacket of the room gives a packet to the source of its sender.
LEMMA RoomReceivesKeeps ==
    ASSUME TunnelTypes, NEW x \in Tunnel!Ends, Tunnel!RoomReceives(x)
    PROVE  /\ reader' \in [Tunnel!Ends -> Sources]
           /\ toRoom' \in [Tunnel!Ends -> Seq(Int)]
           /\ toRoom[x] # << >> /\ toRoom'[x] = Tail(toRoom[x])
           /\ \A y \in Tunnel!Ends : y # x => toRoom'[y] = toRoom[y] /\ reader'[y] = reader[y]
           /\ Head(toRoom[x]) = Tunnel!EndPacket =>
                  reader'[x].failed /\ reader'[x].frames = reader[x].frames
           /\ Head(toRoom[x]) # Tunnel!EndPacket /\ reader[x].failed => reader'[x] = reader[x]
           /\ Head(toRoom[x]) # Tunnel!EndPacket /\ ~reader[x].failed =>
                  /\ ~reader'[x].failed
                  /\ reader'[x].frames = Append(reader[x].frames, Head(toRoom[x]))
<1>1. /\ toRoom \in [Tunnel!Ends -> Seq(Int)] /\ toRoom[x] # << >>
      /\ toRoom' = [toRoom EXCEPT ![x] = Tail(@)]
      /\ reader \in [Tunnel!Ends -> Sources]
    BY DEF Tunnel!RoomReceives, TunnelTypes
<1>2. /\ toRoom[x] \in Seq(Int) /\ Head(toRoom[x]) \in Int /\ Tail(toRoom[x]) \in Seq(Int)
      /\ reader[x].frames \in Seq(Int)
    BY <1>1 DEF Sources
<1>3. Append(reader[x].frames, Head(toRoom[x])) \in Seq(Int)
    BY <1>2
<1>4. CASE Head(toRoom[x]) = Tunnel!EndPacket
  <2>1. reader' = [reader EXCEPT ![x].failed = TRUE]
      BY <1>4 DEF Tunnel!RoomReceives
  <2>2. /\ reader' \in [Tunnel!Ends -> Sources]
        /\ reader'[x].frames = reader[x].frames /\ reader'[x].failed
        /\ \A y \in Tunnel!Ends : y # x => reader'[y] = reader[y]
      BY <1>1, <2>1, SourceFails
  <2> QED BY <1>1, <1>2, <1>4, <2>2
<1>5. CASE Head(toRoom[x]) # Tunnel!EndPacket /\ reader[x].failed
  <2>1. reader' = reader
      BY <1>1, <1>5 DEF Tunnel!RoomReceives
  <2> QED BY <1>1, <1>2, <1>5, <2>1
<1>6. CASE Head(toRoom[x]) # Tunnel!EndPacket /\ ~reader[x].failed
  <2>1. PICK q \in Seq(Int) : q = Append(reader[x].frames, Head(toRoom[x]))
      BY <1>3
  <2>2. reader' = [reader EXCEPT ![x] = [reader[x] EXCEPT !.frames = q]]
    <3>1. reader' = [reader EXCEPT ![x] =
                        IF Head(toRoom[x]) = Tunnel!EndPacket THEN [reader[x] EXCEPT !.failed = TRUE]
                        ELSE IF reader[x].failed THEN reader[x]
                        ELSE [reader[x] EXCEPT !.frames = Append(reader[x].frames, Head(toRoom[x]))]]
        BY DEF Tunnel!RoomReceives
    <3> QED BY <1>6, <2>1, <3>1
  <2>3. /\ reader' \in [Tunnel!Ends -> Sources]
        /\ reader'[x].frames = q /\ reader'[x].failed = reader[x].failed
        /\ \A y \in Tunnel!Ends : y # x => reader'[y] = reader[y]
      BY <1>1, <2>2, SourceHolds
  <2> QED BY <1>1, <1>2, <1>6, <2>1, <2>3
<1> QED BY <1>4, <1>5, <1>6

\* copySourceToSink takes the first frame of a source.
LEMMA CopyFrameKeeps ==
    ASSUME TunnelTypes, NEW x \in Tunnel!Ends, Tunnel!CopyFrame(x)
    PROVE  /\ reader' \in [Tunnel!Ends -> Sources]
           /\ reader[x].frames \in Seq(Int) /\ reader[x].frames # << >>
           /\ reader'[x].frames = Tail(reader[x].frames) /\ reader'[x].failed = reader[x].failed
           /\ \A y \in Tunnel!Ends : y # x => reader'[y] = reader[y]
<1>1. /\ reader \in [Tunnel!Ends -> Sources] /\ reader[x].frames # << >>
      /\ reader' = [reader EXCEPT ![x].frames = Tail(reader[x].frames)]
    BY DEF Tunnel!CopyFrame, TunnelTypes
<1>2. reader[x].frames \in Seq(Int)
    BY <1>1 DEF Sources
<1>6. Tail(reader[x].frames) \in Seq(Int)
    BY <1>1, <1>2
<1>3. PICK q \in Seq(Int) : q = Tail(reader[x].frames)
    BY <1>6
<1>4. reader' = [reader EXCEPT ![x] = [reader[x] EXCEPT !.frames = q]]
    BY <1>1, <1>3
<1>5. /\ reader' \in [Tunnel!Ends -> Sources]
      /\ reader'[x].frames = q /\ reader'[x].failed = reader[x].failed
      /\ \A y \in Tunnel!Ends : y # x => reader'[y] = reader[y]
  <2>1. reader[x] \in Sources /\ reader'[x] = [reader[x] EXCEPT !.frames = q]
      BY <1>1, <1>4
  <2>2. reader'[x] \in Sources /\ reader'[x].frames = q /\ reader'[x].failed = reader[x].failed
      BY <2>1, SourceHolds
  <2> QED BY <1>1, <1>4, <2>2
<1> QED BY <1>1, <1>2, <1>3, <1>5

\* Every step of the tunnel keeps the types of its state.
LEMMA TunnelTypesStep ==
    ASSUME TunnelTypes, TunnelPhases, Tunnel!Next
    PROVE  TunnelTypes'
<1> USE TwoEnds, PacketsDiffer
<1>1. CASE Tunnel!HasPeer
  <2>1. ASSUME Tunnel!Refuse PROVE TunnelTypes'
    <3>1. toEnd' \in [Tunnel!Ends -> Seq(Int)]
        BY <2>1, PostKeeps DEF Tunnel!Refuse, TunnelTypes
    <3>2. reader' \in [Tunnel!Ends -> Sources]
        BY <2>1, SourceFails DEF Tunnel!Refuse, TunnelTypes
    <3> QED BY <2>1, <3>1, <3>2 DEF Tunnel!Refuse, TunnelTypes, Tunnel!clientVars
  <2> QED BY <1>1, <2>1 DEF Tunnel!HasPeer, TunnelTypes, Tunnel!clientVars, Tunnel!roomEnd
<1>2. CASE Tunnel!GetPeerMuxRPC
  <2>1. ASSUME Tunnel!Refuse PROVE TunnelTypes'
    <3>1. toEnd' \in [Tunnel!Ends -> Seq(Int)]
        BY <2>1, PostKeeps DEF Tunnel!Refuse, TunnelTypes
    <3>2. reader' \in [Tunnel!Ends -> Sources]
        BY <2>1, SourceFails DEF Tunnel!Refuse, TunnelTypes
    <3> QED BY <2>1, <3>1, <3>2 DEF Tunnel!Refuse, TunnelTypes, Tunnel!clientVars
  <2>2. ASSUME ~Tunnel!Refuse PROVE TunnelTypes'
    <3>1. Tunnel!Post("target", Tunnel!RequestPacket)
        BY <1>2, <2>2 DEF Tunnel!GetPeerMuxRPC
    <3>2. toEnd' \in [Tunnel!Ends -> Seq(Int)]
        BY <3>1, PostKeeps DEF TunnelTypes
    <3> QED BY <1>2, <2>2, <3>2 DEF Tunnel!GetPeerMuxRPC, TunnelTypes, Tunnel!clientVars
  <2> QED BY <2>1, <2>2
<1>3. CASE Tunnel!Cleanup
  <2>1. PICK e \in Tunnel!Ends :
           /\ e = (IF cleanup < 3 THEN "caller" ELSE "target")
           /\ sinkClosed' = IF cleanup < 2 THEN sinkClosed ELSE [sinkClosed EXCEPT ![e] = TRUE]
           /\ IF cleanup < 2 THEN toEnd' = toEnd ELSE Tunnel!Post(e, Tunnel!EndPacket)
      BY <1>3 DEF Tunnel!Cleanup, Tunnel!CleanupStep
  <2>2. toEnd' \in [Tunnel!Ends -> Seq(Int)]
      BY <2>1, PostKeeps DEF TunnelTypes
  <2>3. reader' \in [Tunnel!Ends -> Sources]
    <3>1. \/ reader' = [reader EXCEPT !["caller"].failed = TRUE]
          \/ reader' = [reader EXCEPT !["target"].failed = TRUE]
          \/ reader' = reader
        BY <1>3 DEF Tunnel!Cleanup, Tunnel!CleanupStep, TunnelPhases
    <3>2. reader \in [Tunnel!Ends -> Sources] /\ "caller" \in Tunnel!Ends /\ "target" \in Tunnel!Ends
        BY DEF TunnelTypes
    <3>3. ASSUME NEW x \in Tunnel!Ends, reader' = [reader EXCEPT ![x].failed = TRUE]
          PROVE  reader' \in [Tunnel!Ends -> Sources]
        BY <3>2, <3>3, SourceFails
    <3> QED BY <3>1, <3>2, <3>3
  <2> QED BY <1>3, <2>1, <2>2, <2>3 DEF Tunnel!Cleanup, TunnelTypes, Tunnel!clientVars
<1>4. ASSUME NEW x \in Tunnel!Ends, Tunnel!RoomReceives(x) PROVE TunnelTypes'
    BY <1>4, RoomReceivesKeeps DEF Tunnel!RoomReceives, TunnelTypes, Tunnel!clientVars
<1>5. ASSUME NEW x \in Tunnel!Ends, Tunnel!CopyFrame(x) PROVE TunnelTypes'
  <2>1. /\ reader' \in [Tunnel!Ends -> Sources]
        /\ reader[x].frames \in Seq(Int) /\ reader[x].frames # << >>
      BY <1>5, CopyFrameKeeps
  <2>2. Head(reader[x].frames) \in Int
      BY <2>1
  <2>3. toEnd' = toEnd \/ Tunnel!Post(Tunnel!Other(x), Head(reader[x].frames))
      BY <1>5 DEF Tunnel!CopyFrame
  <2>4. toEnd' \in [Tunnel!Ends -> Seq(Int)]
      BY <2>2, <2>3, PostKeeps DEF TunnelTypes
  <2>5. copier' \in [Tunnel!Ends -> {"none", "copy", "cleanup", "done"}]
      BY <1>5 DEF Tunnel!CopyFrame, TunnelTypes
  <2> QED BY <1>5, <2>1, <2>4, <2>5 DEF Tunnel!CopyFrame, TunnelTypes, Tunnel!clientVars
<1>6. ASSUME NEW x \in Tunnel!Ends, Tunnel!CopyEnds(x) \/ Tunnel!CopierDone(x) PROVE TunnelTypes'
    BY <1>6 DEF Tunnel!CopyEnds, Tunnel!CopierDone, TunnelTypes, Tunnel!clientVars
<1>7. ASSUME NEW x \in Tunnel!Ends, Tunnel!StreamConnWrite(x) PROVE TunnelTypes'
  <2>1. toRoom' \in [Tunnel!Ends -> Seq(Int)] /\ written' \in [Tunnel!Ends -> Nat]
      BY <1>7 DEF Tunnel!StreamConnWrite, TunnelTypes
  <2> QED BY <1>7, <2>1 DEF Tunnel!StreamConnWrite, TunnelTypes, Tunnel!roomEnd
<1>8. ASSUME NEW x \in Tunnel!Ends, Tunnel!StreamConnRead(x) PROVE TunnelTypes'
  <2>1. Head(toEnd[x]) \in Int /\ Tail(toEnd[x]) \in Seq(Int)
      BY <1>8 DEF Tunnel!StreamConnRead, TunnelTypes
  <2>2. toEnd' \in [Tunnel!Ends -> Seq(Int)] /\ got' \in [Tunnel!Ends -> Seq(Int)]
      BY <1>8, <2>1 DEF Tunnel!StreamConnRead, TunnelTypes
  <2>3. ended' \in [Tunnel!Ends -> BOOLEAN]
      BY <1>8 DEF Tunnel!StreamConnRead, TunnelTypes
  <2> QED BY <1>8, <2>2, <2>3 DEF Tunnel!StreamConnRead, TunnelTypes, Tunnel!roomEnd
<1>9. ASSUME NEW x \in Tunnel!Ends, Tunnel!StreamConnClose(x) PROVE TunnelTypes'
    BY <1>9 DEF Tunnel!StreamConnClose, TunnelTypes, Tunnel!roomEnd
<1>10. ASSUME NEW x \in Tunnel!Ends, Tunnel!Lose(x) \/ Tunnel!ConnReturns(x) PROVE TunnelTypes'
  <2>1. CASE Tunnel!Lose(x)
    <3>1. << >> \in Seq(Int)
        OBVIOUS
    <3>2. up' \in [Tunnel!Ends -> BOOLEAN]
        BY <2>1 DEF Tunnel!Lose, TunnelTypes
    <3>3. toRoom' \in [Tunnel!Ends -> Seq(Int)] /\ toEnd' \in [Tunnel!Ends -> Seq(Int)]
        BY <2>1, <3>1 DEF Tunnel!Lose, TunnelTypes
    <3> QED BY <2>1, <3>2, <3>3 DEF Tunnel!Lose, TunnelTypes, Tunnel!roomEnd, Tunnel!clientVars
  <2>2. CASE Tunnel!ConnReturns(x)
      BY <2>2 DEF Tunnel!ConnReturns, TunnelTypes, Tunnel!roomEnd, Tunnel!clientVars
  <2> QED BY <1>10, <2>1, <2>2
<1> QED BY <1>1, <1>2, <1>3, <1>4, <1>5, <1>6, <1>7, <1>8, <1>9, <1>10 DEF Tunnel!Next

\* handleConnect goes through its phases: goroutines only in an open tunnel, the cleanup
\* only after one of them left its loop, a sink closed only by the cleanup or a refusal.
LEMMA TunnelPhasesStep ==
    ASSUME TunnelTypes, TunnelPhases, Tunnel!Next
    PROVE  TunnelPhases'
<1> USE TwoEnds DEF TunnelIsOpen, Cleaning
<1>1. CASE Tunnel!HasPeer
    BY <1>1 DEF Tunnel!HasPeer, Tunnel!Refuse, TunnelPhases, TunnelTypes, Tunnel!roomEnd
<1>2. CASE Tunnel!GetPeerMuxRPC
    BY <1>2 DEF Tunnel!GetPeerMuxRPC, Tunnel!Refuse, TunnelPhases, TunnelTypes
<1>3. CASE Tunnel!Cleanup
  <2>1. PICK e \in Tunnel!Ends :
           /\ e = (IF cleanup < 3 THEN "caller" ELSE "target")
           /\ sinkClosed' = IF cleanup < 2 THEN sinkClosed ELSE [sinkClosed EXCEPT ![e] = TRUE]
      BY <1>3 DEF Tunnel!Cleanup, Tunnel!CleanupStep
  <2> QED BY <1>3, <2>1 DEF Tunnel!Cleanup, TunnelPhases, TunnelTypes
<1>4. ASSUME NEW x \in Tunnel!Ends, Tunnel!CopyFrame(x) PROVE TunnelPhases'
  <2>1. copier' = copier \/ copier' = [copier EXCEPT ![x] = "cleanup"]
      BY <1>4 DEF Tunnel!CopyFrame
  <2>2. copier[x] = "copy"
      BY <1>4 DEF Tunnel!CopyFrame
  <2>3. UNCHANGED << tunnel, cleanup, expired, up, sinkClosed >>
      BY <1>4 DEF Tunnel!CopyFrame
  <2> QED BY <2>1, <2>2, <2>3 DEF TunnelPhases, TunnelTypes
<1>5. ASSUME NEW x \in Tunnel!Ends, Tunnel!CopyEnds(x) PROVE TunnelPhases'
    BY <1>5 DEF Tunnel!CopyEnds, TunnelPhases, TunnelTypes
<1>6. ASSUME NEW x \in Tunnel!Ends, Tunnel!CopierDone(x) PROVE TunnelPhases'
    BY <1>6 DEF Tunnel!CopierDone, TunnelPhases, TunnelTypes
<1>7. ASSUME NEW x \in Tunnel!Ends, Tunnel!Lose(x) \/ Tunnel!ConnReturns(x) PROVE TunnelPhases'
  <2>1. CASE Tunnel!Lose(x)
    <3>1. UNCHANGED << tunnel, cleanup, expired, sinkClosed, copier >> /\ (~up["caller"] => ~up'["caller"])
        BY <2>1 DEF Tunnel!Lose, TunnelTypes, Tunnel!roomEnd
    <3> QED BY <3>1 DEF TunnelPhases
  <2>2. CASE Tunnel!ConnReturns(x)
    <3>1. UNCHANGED << tunnel, cleanup, up, sinkClosed, copier >> /\ (expired' => expired \/ ~up["caller"])
        BY <2>2 DEF Tunnel!ConnReturns, Tunnel!roomEnd
    <3> QED BY <3>1 DEF TunnelPhases
  <2> QED BY <1>7, <2>1, <2>2
<1>8. CASE UNCHANGED << tunnel, cleanup, expired, up, sinkClosed, copier >>
    BY <1>8 DEF TunnelPhases
<1>9. ASSUME NEW x \in Tunnel!Ends,
             Tunnel!RoomReceives(x) \/ Tunnel!StreamConnWrite(x) \/ Tunnel!StreamConnRead(x)
             \/ Tunnel!StreamConnClose(x)
      PROVE  UNCHANGED << tunnel, cleanup, expired, up, sinkClosed, copier >>
    BY <1>9 DEF Tunnel!RoomReceives, Tunnel!StreamConnWrite, Tunnel!StreamConnRead,
                Tunnel!StreamConnClose, Tunnel!roomEnd
<1> QED BY <1>1, <1>2, <1>3, <1>4, <1>5, <1>6, <1>7, <1>8, <1>9 DEF Tunnel!Next

-----------------------------------------------------------------------------
\* A frame goes to the end of a train that has no end yet.
LEMMA TrainGrows ==
    ASSUME NEW s \in Seq(Int), NEW r \in {0, 1}, NEW a \in Nat, NEW b \in Nat, Train(s, r, a, b, 0)
    PROVE  Train(Append(s, b + 1), r, a, b + 1, 0)
<1>1. /\ a <= b /\ Len(s) = r + (b - a) /\ Len(s) \in Nat
      /\ r = 1 => s[1] = Tunnel!RequestPacket
      /\ \A i \in 1..(b - a) : s[r + i] = a + i
    BY DEF Train
<1>0. Append(s, b + 1) \in Seq(Int)
    OBVIOUS
<1>2. PICK t \in Seq(Int) : t = Append(s, b + 1)
    BY <1>0
<1>3. /\ Len(t) = Len(s) + 1 /\ t[Len(s) + 1] = b + 1
      /\ \A i \in 1..Len(s) : t[i] = s[i]
    BY <1>2
<1>4. \A i \in 1..(b - a) : r + i \in 1..Len(s)
    BY <1>1
<1>5. \A i \in 1..((b + 1) - a) : i \in 1..(b - a) \/ (r + i = Len(s) + 1 /\ a + i = b + 1)
    BY <1>1
<1>6. \A i \in 1..((b + 1) - a) : t[r + i] = a + i
    BY <1>1, <1>3, <1>4, <1>5
<1>7. r = 1 => t[1] = Tunnel!RequestPacket
  <2>1. r = 1 => 1 \in 1..Len(s)
      BY <1>1
  <2> QED BY <1>1, <1>3, <2>1
<1>8. a <= b + 1 /\ Len(t) = r + ((b + 1) - a) + 0
    BY <1>1, <1>3
<1>9. Train(t, r, a, b + 1, 0)
    BY <1>6, <1>7, <1>8 DEF Train
<1> QED BY <1>2, <1>9

\* The end of the stream goes to the end of a train.
LEMMA TrainEnds ==
    ASSUME NEW s \in Seq(Int), NEW r \in {0, 1}, NEW a \in Nat, NEW b \in Nat, Train(s, r, a, b, 0)
    PROVE  Train(Append(s, Tunnel!EndPacket), r, a, b, 1)
<1>1. /\ a <= b /\ Len(s) = r + (b - a) /\ Len(s) \in Nat
      /\ r = 1 => s[1] = Tunnel!RequestPacket
      /\ \A i \in 1..(b - a) : s[r + i] = a + i
    BY DEF Train
<1>0. Append(s, Tunnel!EndPacket) \in Seq(Int)
    BY PacketsDiffer
<1>2. PICK t \in Seq(Int) : t = Append(s, Tunnel!EndPacket)
    BY <1>0
<1>3. /\ Len(t) = Len(s) + 1 /\ t[Len(s) + 1] = Tunnel!EndPacket
      /\ \A i \in 1..Len(s) : t[i] = s[i]
    BY <1>2, PacketsDiffer
<1>4. \A i \in 1..(b - a) : r + i \in 1..Len(s)
    BY <1>1
<1>5. r = 1 => t[1] = Tunnel!RequestPacket
  <2>1. r = 1 => 1 \in 1..Len(s)
      BY <1>1
  <2> QED BY <1>1, <1>3, <2>1
<1>6. Len(t) = r + (b - a) + 1
    BY <1>1, <1>3
<1>7. Train(t, r, a, b, 1)
    BY <1>1, <1>3, <1>4, <1>5, <1>6 DEF Train
<1> QED BY <1>2, <1>7

\* What is taken from a train: the request, then the frames, then the end of the stream.
LEMMA TrainHead ==
    ASSUME NEW s \in Seq(Int), s # << >>, NEW r \in {0, 1}, NEW z \in {0, 1},
           NEW a \in Nat, NEW b \in Nat, Train(s, r, a, b, z)
    PROVE  /\ r = 1 => Head(s) = Tunnel!RequestPacket /\ Train(Tail(s), 0, a, b, z)
           /\ r = 0 /\ a < b => Head(s) = a + 1 /\ Train(Tail(s), 0, a + 1, b, z)
           /\ r = 0 /\ a = b => z = 1 /\ Head(s) = Tunnel!EndPacket /\ Train(Tail(s), 0, a, b, 0)
           /\ r = 1 \/ a < b \/ a = b
<1>1. /\ a <= b /\ Len(s) = r + (b - a) + z /\ Len(s) \in Nat /\ Len(s) >= 1
      /\ r = 1 => s[1] = Tunnel!RequestPacket
      /\ \A i \in 1..(b - a) : s[r + i] = a + i
      /\ z = 1 => s[Len(s)] = Tunnel!EndPacket
    BY DEF Train
<1>0. Tail(s) \in Seq(Int)
    OBVIOUS
<1>2. PICK t \in Seq(Int) : t = Tail(s)
    BY <1>0
<1>3. /\ Len(t) = Len(s) - 1 /\ Head(s) = s[1]
      /\ \A i \in 1..(Len(s) - 1) : t[i] = s[i + 1]
    BY <1>2
<1>4. ASSUME r = 1 PROVE Train(t, 0, a, b, z)
  <2>1. \A i \in 1..(b - a) : i \in 1..(Len(s) - 1) /\ s[i + 1] = a + i
      BY <1>1, <1>4
  <2>2. \A i \in 1..(b - a) : t[0 + i] = a + i
      BY <1>3, <2>1
  <2>3. Len(t) = 0 + (b - a) + z
      BY <1>1, <1>3, <1>4
  <2>4. z = 1 => t[Len(t)] = Tunnel!EndPacket
    <3>1. z = 1 => Len(t) \in 1..(Len(s) - 1) /\ Len(t) + 1 = Len(s)
        BY <1>1, <1>3, <1>4
    <3> QED BY <1>1, <1>3, <3>1
  <2> QED BY <1>1, <2>2, <2>3, <2>4 DEF Train
<1>5. ASSUME r = 0, a < b PROVE Head(s) = a + 1 /\ Train(t, 0, a + 1, b, z)
  <2>1. 1 \in 1..(b - a) /\ s[1] = a + 1
    <3>1. 1 \in 1..(b - a) /\ r + 1 = 1
        BY <1>5
    <3> QED BY <1>1, <3>1
  <2>2. \A i \in 1..(b - (a + 1)) : t[0 + i] = (a + 1) + i
    <3> TAKE i \in 1..(b - (a + 1))
    <3>1. i + 1 \in 1..(b - a) /\ i \in 1..(Len(s) - 1) /\ r + (i + 1) = i + 1 /\ 0 + i = i
        BY <1>1, <1>5
    <3>2. s[i + 1] = a + (i + 1)
        BY <1>1, <3>1
    <3> QED BY <1>3, <3>1, <3>2
  <2>3. Len(t) = 0 + (b - (a + 1)) + z /\ a + 1 <= b
      BY <1>1, <1>3, <1>5
  <2>4. z = 1 => t[Len(t)] = Tunnel!EndPacket
    <3>1. z = 1 => Len(t) \in 1..(Len(s) - 1) /\ Len(t) + 1 = Len(s)
        BY <1>1, <1>3, <1>5
    <3> QED BY <1>1, <1>3, <3>1
  <2> QED BY <1>3, <2>1, <2>2, <2>3, <2>4 DEF Train
<1>6. ASSUME r = 0, a = b PROVE z = 1 /\ Head(s) = Tunnel!EndPacket /\ Train(t, 0, a, b, 0)
  <2>1. z = 1 /\ Len(s) = 1 /\ Len(t) = 0
      BY <1>1, <1>3, <1>6
  <2> QED BY <1>1, <1>3, <1>6, <2>1 DEF Train
<1> QED BY <1>1, <1>2, <1>3, <1>4, <1>5, <1>6

\* A train without anything is empty.
LEMMA EmptyTrain ==
    ASSUME NEW s \in Seq(Int), NEW a \in Nat
    PROVE  Train(s, 0, a, a, 0) => s = << >>
    BY DEF Train

\* The numbers of a direction: m frames copied and k received of those written.
Numbers(e, m, k, r, z) == m \in 0..written[e] /\ k \in 0..written[e] /\ r \in {0, 1} /\ z \in {0, 1}

\* A direction whose numbers are known.
LEMMA DirectionKnown ==
    ASSUME NEW e \in Tunnel!Ends, NEW m, NEW k, NEW r, NEW z,
           Numbers(e, m, k, r, z)', Direction(e, Tunnel!Other(e), m, k, r, z)'
    PROVE  DirectionInv(e)'
    BY DEF DirectionInv, Numbers

\* Steps that leave what is on its way to an end alone.
LEMMA OnItsWayKept ==
    ASSUME NEW o \in Tunnel!Ends, NEW m, NEW r, NEW z, OnItsWay(o, m, r, z),
           got'[o] = got[o], toEnd'[o] = toEnd[o], up'[o] = up[o], ended'[o] = ended[o],
           sinkClosed[o] => sinkClosed'[o], TunnelIsOpen => TunnelIsOpen'
    PROVE  OnItsWay(o, m, r, z)'
    BY DEF OnItsWay

\* Steps that leave the frames of a source alone.
LEMMA ReceivedKept ==
    ASSUME NEW e \in Tunnel!Ends, NEW m, NEW k, Received(e, m, k),
           reader'[e].frames = reader[e].frames,
           copier'[e] \in {"none", "copy"} => copier[e] \in {"none", "copy"}
    PROVE  Received(e, m, k)'
    BY DEF Received

\* Steps that leave what is on its way from an end alone.
LEMMA UnderwayKept ==
    ASSUME NEW e \in Tunnel!Ends, NEW k, Underway(e, k),
           up'[e] = up[e], toRoom'[e] = toRoom[e], written'[e] = written[e],
           closed'[e] = closed[e], reader[e].failed => reader'[e].failed
    PROVE  Underway(e, k)'
    BY DEF Underway

\* The end of the stream is written to an end whose sink is then closed.
LEMMA EndPosted ==
    ASSUME TunnelTypes, NEW o \in Tunnel!Ends, NEW m \in Nat, NEW r \in {0, 1},
           OnItsWay(o, m, r, 0), Tunnel!Post(o, Tunnel!EndPacket),
           got' = got, up' = up, sinkClosed'[o] = TRUE, TunnelIsOpen => TunnelIsOpen'
    PROVE  OnItsWay(o, m, r, 1)'
<1>1. /\ up[o] => toEnd'[o] = Append(toEnd[o], 0)
      /\ ~up[o] => toEnd'[o] = toEnd[o]
    BY PostKeeps, PacketsDiffer DEF TunnelTypes
<1>2. toEnd[o] \in Seq(Int) /\ Len(got[o]) \in Nat
    BY DEF TunnelTypes
<1>3. ASSUME up[o] PROVE Train(toEnd'[o], r, Len(got[o]), m, 1)
  <2>1. Train(toEnd[o], r, Len(got[o]), m, 0)
      BY <1>3 DEF OnItsWay
  <2>2. Train(Append(toEnd[o], Tunnel!EndPacket), r, Len(got[o]), m, 1)
      BY <1>2, <2>1, TrainEnds
  <2> QED BY <1>1, <1>3, <2>2, PacketsDiffer
<1> QED BY <1>1, <1>2, <1>3 DEF OnItsWay

\* The end of the stream is written to one of the ends.
LEMMA SinkClosed ==
    ASSUME TunnelTypes, NEW x \in Tunnel!Ends, NEW o \in Tunnel!Ends, NEW m \in Nat,
           NEW r \in {0, 1}, NEW z \in {0, 1}, OnItsWay(o, m, r, z), ~sinkClosed[x],
           toEnd' = IF up[x] THEN [toEnd EXCEPT ![x] = Append(@, Tunnel!EndPacket)] ELSE toEnd,
           sinkClosed' = [sinkClosed EXCEPT ![x] = TRUE],
           got' = got, up' = up, ended' = ended,
           tunnel \in {"open", "closed"} => tunnel' \in {"open", "closed"}
    PROVE  OnItsWay(o, m, r, z)' \/ OnItsWay(o, m, r, 1)'
<1>0. TunnelIsOpen => TunnelIsOpen'
    BY DEF TunnelIsOpen
<1>1. CASE x = o
  <2>1. OnItsWay(o, m, r, 0) /\ Tunnel!Post(o, Tunnel!EndPacket)
      BY <1>1 DEF OnItsWay, Tunnel!Post
  <2>2. sinkClosed'[o] = TRUE
      BY <1>1 DEF TunnelTypes
  <2>3. OnItsWay(o, m, r, 1)'
      BY <1>0, <2>1, <2>2, EndPosted
  <2> QED BY <2>3
<1>2. CASE x # o
  <2>1. sinkClosed'[o] = sinkClosed[o]
      BY <1>2 DEF TunnelTypes
  <2>2. Tunnel!EndPacket \in Int /\ toEnd \in [Tunnel!Ends -> Seq(Int)]
      BY PacketsDiffer DEF TunnelTypes
  <2>3. toEnd'[o] = toEnd[o]
      BY <1>2, <2>2
  <2>4. OnItsWay(o, m, r, z)'
      BY <1>0, <2>1, <2>3, OnItsWayKept
  <2> QED BY <2>4
<1> QED BY <1>1, <1>2

\* A refusal tells the caller and fails its source.
LEMMA RefuseStep ==
    ASSUME TunnelTypes, TunnelPhases, tunnel \in {"asked", "announced"}, Tunnel!Refuse,
           NEW e \in Tunnel!Ends, DirectionInv(e)
    PROVE  DirectionInv(e)'
<1> USE TwoEnds
<1>1. PICK o \in Tunnel!Ends : o = Tunnel!Other(e)
    OBVIOUS
<1>2. PICK m \in 0..written[e], k \in 0..written[e], r \in {0, 1}, z \in {0, 1} :
          Direction(e, o, m, k, r, z)
    BY <1>1 DEF DirectionInv
<1>3. /\ tunnel' = "refused" /\ copier' = copier /\ got' = got /\ ended' = ended /\ up' = up
      /\ toRoom' = toRoom /\ written' = written /\ closed' = closed
      /\ sinkClosed' = [sinkClosed EXCEPT !["caller"] = TRUE]
      /\ Tunnel!Post("caller", Tunnel!EndPacket)
      /\ reader' = [reader EXCEPT !["caller"].failed = TRUE]
    BY DEF Tunnel!Refuse, Tunnel!clientVars
<1>4. /\ reader'["caller"].frames = reader["caller"].frames /\ reader'["caller"].failed
      /\ \A y \in Tunnel!Ends : y # "caller" => reader'[y] = reader[y]
    BY <1>3, SourceFails DEF TunnelTypes
<1>5. /\ ~TunnelIsOpen /\ ~TunnelIsOpen' /\ ~Cleaning /\ ~Cleaning' /\ ~sinkClosed["caller"]
      /\ ~sinkClosed["target"] /\ copier[e] = "none"
    BY <1>3 DEF TunnelPhases, TunnelIsOpen, Cleaning
<1>6. OnItsWay(o, m, r, z) /\ m \in Nat
    BY <1>2 DEF Direction, TunnelTypes
<1>7. PICK z1 \in {0, 1} : OnItsWay(o, m, r, z1)'
  <2>1. /\ ~sinkClosed["caller"] /\ "caller" \in Tunnel!Ends
        /\ toEnd' = IF up["caller"] THEN [toEnd EXCEPT !["caller"] = Append(@, Tunnel!EndPacket)]
                    ELSE toEnd
        /\ sinkClosed' = [sinkClosed EXCEPT !["caller"] = TRUE]
      BY <1>3, <1>5 DEF Tunnel!Post
  <2>2. /\ got' = got /\ up' = up /\ ended' = ended
        /\ tunnel \in {"open", "closed"} => tunnel' \in {"open", "closed"}
      BY <1>3, <1>5 DEF TunnelIsOpen
  <2>3. OnItsWay(o, m, r, z)' \/ OnItsWay(o, m, r, 1)'
      BY <1>6, <2>1, <2>2, SinkClosed
  <2> QED BY <2>3
<1>8. Received(e, m, k)'
    BY <1>2, <1>3, <1>4, ReceivedKept DEF Direction
<1>9. Underway(e, k)'
  <2>1. reader[e].failed => reader'[e].failed
      BY <1>4
  <2> QED BY <1>2, <1>3, <2>1, UnderwayKept DEF Direction
<1>10. Causes(e, o, m, k)'
    BY <1>3, <1>5 DEF Causes
<1>11. Direction(e, o, m, k, r, z1)'
    BY <1>2, <1>7, <1>8, <1>9, <1>10 DEF Direction
<1>12. Numbers(e, m, k, r, z1)'
    BY <1>3 DEF Numbers
<1> QED BY <1>1, <1>11, <1>12, DirectionKnown

\* A step that only moves the phase, or only the record of the connections, keeps a direction.
LEMMA PhaseStep ==
    ASSUME NEW e \in Tunnel!Ends, DirectionInv(e),
           UNCHANGED << up, toRoom, toEnd, reader, sinkClosed, copier, written, got, closed, ended >>,
           TunnelIsOpen' <=> TunnelIsOpen, tunnel' = "refused" <=> tunnel = "refused"
    PROVE  DirectionInv(e)'
<1>1. Cleaning' <=> Cleaning
    BY DEF Cleaning
<1>2. PICK m \in 0..written[e], k \in 0..written[e], r \in {0, 1}, z \in {0, 1} :
          Direction(e, Tunnel!Other(e), m, k, r, z)
    BY DEF DirectionInv
<1>3. PICK o \in Tunnel!Ends : o = Tunnel!Other(e)
    BY TwoEnds
<1>4. OnItsWay(o, m, r, z)'
    BY <1>2, <1>3, OnItsWayKept DEF Direction
<1>5. Received(e, m, k)' /\ Underway(e, k)'
    BY <1>2, <1>3, ReceivedKept, UnderwayKept DEF Direction
<1>6. Causes(e, o, m, k)'
    BY <1>1, <1>2, <1>3 DEF Direction, Causes
<1>7. Direction(e, o, m, k, r, z)'
    BY <1>2, <1>3, <1>4, <1>5, <1>6 DEF Direction
<1>8. Numbers(e, m, k, r, z)'
    BY DEF Numbers
<1> QED BY <1>3, <1>7, <1>8, DirectionKnown

\* GetPeerMuxRPC opens the tunnel: the request goes to the target and both goroutines start.
LEMMA OpenStep ==
    ASSUME TunnelTypes, TunnelPhases, Tunnel!GetPeerMuxRPC, ~Tunnel!Refuse,
           NEW e \in Tunnel!Ends, DirectionInv(e)
    PROVE  DirectionInv(e)'
<1> USE TwoEnds
<1>1. PICK o \in Tunnel!Ends : o = Tunnel!Other(e)
    OBVIOUS
<1>2. PICK m \in 0..written[e], k \in 0..written[e], r \in {0, 1}, z \in {0, 1} :
          Direction(e, o, m, k, r, z)
    BY <1>1 DEF DirectionInv
<1>3. /\ tunnel = "announced" /\ tunnel' = "open" /\ copier' = [x \in Tunnel!Ends |-> "copy"]
      /\ got' = got /\ ended' = ended /\ up' = up /\ toRoom' = toRoom /\ written' = written
      /\ closed' = closed /\ sinkClosed' = sinkClosed /\ reader' = reader
      /\ Tunnel!Post("target", Tunnel!RequestPacket)
    BY DEF Tunnel!GetPeerMuxRPC, Tunnel!clientVars
<1>4. /\ ~TunnelIsOpen /\ TunnelIsOpen' /\ ~Cleaning /\ ~Cleaning' /\ ~sinkClosed["caller"]
      /\ ~sinkClosed["target"] /\ copier[e] = "none"
    BY <1>3 DEF TunnelPhases, TunnelIsOpen, Cleaning
<1>5. OnItsWay(o, m, r, z) /\ z = 0 /\ m = 0 /\ r = 0 /\ ~ended[o]
    BY <1>2, <1>4 DEF Direction, OnItsWay
<1>6. OnItsWay(o, m, IF o = "target" THEN 1 ELSE 0, 0)'
  <2>1. CASE o = "target"
    <3>1. /\ up[o] => toEnd'[o] = Append(toEnd[o], 0 - 1)
          /\ ~up[o] => toEnd'[o] = toEnd[o]
        BY <1>3, <2>1, PostKeeps, PacketsDiffer DEF TunnelTypes
    <3>2. toEnd[o] \in Seq(Int) /\ Len(got[o]) = 0
        BY <1>5 DEF TunnelTypes, OnItsWay
    <3>3. up[o] => Len(toEnd'[o]) = 1 /\ toEnd'[o][1] = 0 - 1
      <4>1. up[o] => Len(toEnd[o]) = 0
          BY <1>5, <3>2 DEF OnItsWay, Train
      <4>2. ASSUME up[o] PROVE toEnd'[o] = Append(<< >>, 0 - 1)
          BY <3>1, <3>2, <4>1, <4>2
      <4> QED BY <4>2
    <3>4. OnItsWay(o, 0, 1, 0)'
        BY <1>3, <1>4, <1>5, <3>1, <3>2, <3>3, PacketsDiffer DEF OnItsWay, Train
    <3> QED BY <1>5, <2>1, <3>4
  <2>2. CASE o # "target"
    <3>1. toEnd'[o] = toEnd[o]
        BY <1>3, <2>2, PostKeeps, PacketsDiffer DEF TunnelTypes
    <3>2. OnItsWay(o, m, 0, 0)'
        BY <1>3, <1>4, <1>5, <3>1, OnItsWayKept
    <3> QED BY <2>2, <3>2
  <2> QED BY <2>1, <2>2
<1>7. Received(e, m, k)'
    BY <1>2, <1>3, <1>4, ReceivedKept DEF Direction
<1>8. Underway(e, k)'
    BY <1>2, <1>3, UnderwayKept DEF Direction
<1>9. Causes(e, o, m, k)'
    BY <1>2, <1>3, <1>4, <1>5 DEF Causes, Direction
<1>10. PICK r1 \in {0, 1} : r1 = IF o = "target" THEN 1 ELSE 0
    OBVIOUS
<1>11. Direction(e, o, m, k, r1, 0)'
    BY <1>2, <1>6, <1>7, <1>8, <1>9, <1>10 DEF Direction
<1>12. Numbers(e, m, k, r1, 0)'
    BY <1>3 DEF Numbers
<1> QED BY <1>1, <1>11, <1>12, DirectionKnown

\* A packet of a client reaches its source in the order it was written.
LEMMA RoomReceivesStep ==
    ASSUME TunnelTypes, TunnelPhases, NEW x \in Tunnel!Ends, Tunnel!RoomReceives(x),
           NEW e \in Tunnel!Ends, DirectionInv(e)
    PROVE  DirectionInv(e)'
<1> USE TwoEnds
<1>1. PICK o \in Tunnel!Ends : o = Tunnel!Other(e)
    OBVIOUS
<1>2. PICK m \in 0..written[e], k \in 0..written[e], r \in {0, 1}, z \in {0, 1} :
          Direction(e, o, m, k, r, z)
    BY <1>1 DEF DirectionInv
<1>3. /\ tunnel' = tunnel /\ copier' = copier /\ got' = got /\ ended' = ended /\ up' = up
      /\ toEnd' = toEnd /\ written' = written /\ closed' = closed /\ sinkClosed' = sinkClosed
    BY DEF Tunnel!RoomReceives, Tunnel!clientVars
<1>4. (TunnelIsOpen' <=> TunnelIsOpen) /\ (Cleaning' <=> Cleaning)
    BY <1>3 DEF TunnelIsOpen, Cleaning
<1>5. OnItsWay(o, m, r, z)'
    BY <1>2, <1>3, <1>4, OnItsWayKept DEF Direction
<1>6. \A n : Numbers(e, m, n, r, z)' <=> n \in 0..written[e]
    BY <1>3 DEF Numbers
<1>7. CASE x # e
  <2>1. toRoom'[e] = toRoom[e] /\ reader'[e] = reader[e]
      BY <1>7, RoomReceivesKeeps
  <2>2. Received(e, m, k)' /\ Underway(e, k)'
      BY <1>2, <1>3, <2>1, ReceivedKept, UnderwayKept DEF Direction
  <2>3. Causes(e, o, m, k)'
      BY <1>2, <1>3, <1>4, <2>1 DEF Causes, Direction
  <2>4. Direction(e, o, m, k, r, z)'
      BY <1>2, <1>5, <2>2, <2>3 DEF Direction
  <2> QED BY <1>1, <1>6, <2>4, DirectionKnown
<1>8. CASE x = e
  <2>1. /\ toRoom[e] \in Seq(Int) /\ toRoom[e] # << >> /\ toRoom'[e] = Tail(toRoom[e])
        /\ Head(toRoom[e]) = Tunnel!EndPacket =>
               reader'[e].failed /\ reader'[e].frames = reader[e].frames
        /\ Head(toRoom[e]) # Tunnel!EndPacket /\ reader[e].failed => reader'[e] = reader[e]
        /\ Head(toRoom[e]) # Tunnel!EndPacket /\ ~reader[e].failed =>
               /\ ~reader'[e].failed
               /\ reader'[e].frames = Append(reader[e].frames, Head(toRoom[e]))
        /\ reader[e].frames \in Seq(Int) /\ written[e] \in Nat
      BY <1>8, RoomReceivesKeeps DEF TunnelTypes, Sources
  <2>2. up[e] /\ Underway(e, k) /\ Received(e, m, k) /\ Causes(e, o, m, k) /\ m <= k
      BY <1>2, <2>1 DEF Direction, Underway
  <2>3. CASE reader[e].failed
    <3>1. reader'[e].failed /\ reader'[e].frames = reader[e].frames
        BY <2>1, <2>3
    <3>2. Received(e, m, k)'
        BY <1>3, <2>2, <3>1, ReceivedKept
    <3>3. Underway(e, k)'
        BY <1>3, <2>2, <3>1 DEF Underway
    <3>4. Causes(e, o, m, k)'
        BY <1>3, <1>4, <2>2, <2>3 DEF Causes
    <3>5. Direction(e, o, m, k, r, z)'
        BY <1>2, <1>5, <3>2, <3>3, <3>4 DEF Direction
    <3> QED BY <1>1, <1>6, <3>5, DirectionKnown
  <2>4. CASE ~reader[e].failed /\ k = written[e]
    <3>1. PICK c \in {0, 1} : c = IF closed[e] THEN 1 ELSE 0
        OBVIOUS
    <3>2. Train(toRoom[e], 0, k, k, c) /\ k \in Nat
        BY <2>1, <2>2, <2>4, <3>1 DEF Underway
    <3>3. c = 1 /\ Head(toRoom[e]) = Tunnel!EndPacket
        BY <2>1, <3>2, TrainHead
    <3>4. closed[e] /\ reader'[e].failed /\ reader'[e].frames = reader[e].frames
        BY <2>1, <3>1, <3>3
    <3>5. Received(e, m, k)'
        BY <1>3, <2>2, <3>4, ReceivedKept
    <3>6. Underway(e, k)'
        BY <1>3, <2>2, <3>4 DEF Underway
    <3>7. Causes(e, o, m, k)'
        BY <1>3, <1>4, <2>2, <2>4, <3>4 DEF Causes
    <3>8. Direction(e, o, m, k, r, z)'
        BY <1>2, <1>5, <3>5, <3>6, <3>7 DEF Direction
    <3> QED BY <1>1, <1>6, <3>8, DirectionKnown
  <2>5. CASE ~reader[e].failed /\ k # written[e]
    <3>1. PICK c \in {0, 1} : c = IF closed[e] THEN 1 ELSE 0
        OBVIOUS
    <3>2. k \in Nat /\ k < written[e] /\ k + 1 <= written[e] /\ m \in Nat
        BY <2>1, <2>5
    <3>3. Train(toRoom[e], 0, k, written[e], c)
        BY <2>2, <2>5, <3>1 DEF Underway
    <3>4. Head(toRoom[e]) = k + 1 /\ Train(Tail(toRoom[e]), 0, k + 1, written[e], c)
        BY <2>1, <3>2, <3>3, TrainHead
    <3>10. Head(toRoom[e]) # Tunnel!EndPacket
        BY <3>2, <3>4, PacketsDiffer
    <3>11. ~reader'[e].failed /\ reader'[e].frames = Append(reader[e].frames, k + 1)
        BY <2>1, <2>5, <3>4, <3>10
    <3>5. Received(e, m, k + 1)'
      <4>1. ASSUME copier[e] \in {"none", "copy"} PROVE Train(reader'[e].frames, 0, m, k + 1, 0)
        <5>1. Train(reader[e].frames, 0, m, k, 0)
            BY <2>2, <4>1 DEF Received
        <5>2. Train(Append(reader[e].frames, k + 1), 0, m, k + 1, 0)
            BY <2>1, <3>2, <5>1, TrainGrows
        <5> QED BY <3>11, <5>2
      <4> QED BY <1>3, <4>1 DEF Received
    <3>6. Underway(e, k + 1)'
        BY <1>3, <2>1, <2>2, <3>1, <3>4 DEF Underway
    <3>7. Causes(e, o, m, k + 1)'
        BY <1>3, <1>4, <2>2, <3>11 DEF Causes
    <3>8. Direction(e, o, m, k + 1, r, z)'
        BY <1>2, <1>5, <2>2, <3>2, <3>5, <3>6, <3>7 DEF Direction
    <3>9. Numbers(e, m, k + 1, r, z)'
      <4>1. k + 1 \in 0..written[e]
          BY <2>1, <3>2
      <4> QED BY <1>6, <4>1
    <3> QED BY <1>1, <3>8, <3>9, DirectionKnown
  <2> QED BY <2>3, <2>4, <2>5
<1> QED BY <1>7, <1>8

\* A sink that is closed in an open tunnel was closed by the cleanup.
LEMMA ClosedSinkMeansCleaning ==
    ASSUME TunnelPhases, NEW x \in Tunnel!Ends, TunnelIsOpen, sinkClosed[x]
    PROVE  Cleaning
    BY TwoEnds DEF TunnelPhases, TunnelIsOpen

\* copySourceToSink passes the next frame on, or gives up.
LEMMA CopyFrameStep ==
    ASSUME TunnelTypes, TunnelPhases, NEW x \in Tunnel!Ends, Tunnel!CopyFrame(x),
           NEW e \in Tunnel!Ends, DirectionInv(e)
    PROVE  DirectionInv(e)'
<1> USE TwoEnds
<1>1. PICK o \in Tunnel!Ends : o = Tunnel!Other(e)
    OBVIOUS
<1>2. PICK m \in 0..written[e], k \in 0..written[e], r \in {0, 1}, z \in {0, 1} :
          Direction(e, o, m, k, r, z)
    BY <1>1 DEF DirectionInv
<1>3. /\ tunnel' = tunnel /\ got' = got /\ ended' = ended /\ up' = up
      /\ toRoom' = toRoom /\ written' = written /\ closed' = closed /\ sinkClosed' = sinkClosed
      /\ copier[x] = "copy"
    BY DEF Tunnel!CopyFrame, Tunnel!clientVars
<1>4. /\ reader'[x].frames = Tail(reader[x].frames) /\ reader'[x].failed = reader[x].failed
      /\ reader[x].frames \in Seq(Int) /\ reader[x].frames # << >>
      /\ \A y \in Tunnel!Ends : y # x => reader'[y] = reader[y]
    BY CopyFrameKeeps
<1>5. /\ TunnelIsOpen' <=> TunnelIsOpen
      /\ TunnelIsOpen
      /\ Head(reader[x].frames) \in Int
    BY <1>3, <1>4 DEF TunnelIsOpen, TunnelPhases
<1>6. Underway(e, k)'
    BY <1>2, <1>3, <1>4, UnderwayKept DEF Direction
<1>7. CASE sinkClosed[Tunnel!Other(x)] \/ (Tunnel!Other(x) = "caller" /\ ~up["caller"])
  <2>1. copier' = [copier EXCEPT ![x] = "cleanup"] /\ toEnd' = toEnd
      BY <1>7 DEF Tunnel!CopyFrame
  <2>2. Cleaning \/ ~up["caller"]
      BY <1>5, <1>7, ClosedSinkMeansCleaning
  <2>3. (Cleaning => Cleaning') /\ Cleaning'
      BY <1>3, <2>1 DEF Cleaning, TunnelTypes
  <2>4. OnItsWay(o, m, r, z)'
      BY <1>2, <1>3, <1>5, <2>1, OnItsWayKept DEF Direction
  <2>5. Received(e, m, k)'
    <3>1. CASE x = e
      <4>1. copier'[e] = "cleanup"
          BY <2>1, <3>1 DEF TunnelTypes
      <4> QED BY <4>1 DEF Received
    <3>2. CASE x # e
      <4>1. reader'[e] = reader[e] /\ copier'[e] = copier[e]
          BY <1>4, <2>1, <3>2 DEF TunnelTypes
      <4> QED BY <1>2, <4>1, ReceivedKept DEF Direction
    <3> QED BY <3>1, <3>2
  <2>6. Causes(e, o, m, k)'
      BY <1>2, <1>3, <1>5, <2>2, <2>3 DEF Causes, Direction
  <2>7. Direction(e, o, m, k, r, z)'
      BY <1>2, <1>6, <2>4, <2>5, <2>6 DEF Direction
  <2>8. Numbers(e, m, k, r, z)'
      BY <1>3 DEF Numbers
  <2> QED BY <1>1, <2>7, <2>8, DirectionKnown
<1>8. CASE ~(sinkClosed[Tunnel!Other(x)] \/ (Tunnel!Other(x) = "caller" /\ ~up["caller"]))
  <2>1. Tunnel!Post(Tunnel!Other(x), Head(reader[x].frames)) /\ copier' = copier
      BY <1>8 DEF Tunnel!CopyFrame
  <2>2. Cleaning' <=> Cleaning
      BY <2>1 DEF Cleaning
  <2>3. CASE x # e
    <3>1. Tunnel!Other(x) # o
        BY <1>1, <2>3
    <3>2. toEnd'[o] = toEnd[o]
        BY <1>5, <2>1, <3>1, PostKeeps DEF TunnelTypes
    <3>3. OnItsWay(o, m, r, z)'
        BY <1>2, <1>3, <1>5, <3>2, OnItsWayKept DEF Direction
    <3>4. reader'[e] = reader[e]
        BY <1>4, <2>3
    <3>5. Received(e, m, k)'
        BY <1>2, <2>1, <3>4, ReceivedKept DEF Direction
    <3>6. Causes(e, o, m, k)'
        BY <1>2, <1>3, <1>5, <2>2, <3>4 DEF Causes, Direction
    <3>7. Direction(e, o, m, k, r, z)'
        BY <1>2, <1>6, <3>3, <3>5, <3>6 DEF Direction
    <3>8. Numbers(e, m, k, r, z)'
        BY <1>3 DEF Numbers
    <3> QED BY <1>1, <3>7, <3>8, DirectionKnown
  <2>4. CASE x = e
    <3>1. /\ Received(e, m, k) /\ OnItsWay(o, m, r, z) /\ Causes(e, o, m, k) /\ m <= k
          /\ m \in Nat /\ k \in Nat /\ written[e] \in Nat
        BY <1>2 DEF Direction, TunnelTypes
    <3>2. Train(reader[e].frames, 0, m, k, 0)
        BY <1>3, <2>4, <3>1 DEF Received
    <3>10. m < k
      <4>1. m # k
          BY <1>4, <2>4, <3>1, <3>2, EmptyTrain
      <4> QED BY <3>1, <4>1
    <3>3. m + 1 <= k /\ Head(reader[e].frames) = m + 1 /\ Train(Tail(reader[e].frames), 0, m + 1, k, 0)
        BY <1>4, <2>4, <3>1, <3>2, <3>10, TrainHead
    <3>4. Received(e, m + 1, k)'
        BY <1>4, <2>4, <3>3 DEF Received
    <3>5. z = 0 \/ ~up[o]
        BY <1>1, <1>8, <2>4, <3>1 DEF OnItsWay
    <3>6. OnItsWay(o, m + 1, r, z)'
      <4>1. Tunnel!Post(o, m + 1) /\ m + 1 \in Int
          BY <1>1, <2>1, <2>4, <3>1, <3>3
      <4>2. /\ up[o] => toEnd'[o] = Append(toEnd[o], m + 1)
            /\ ~up[o] => toEnd'[o] = toEnd[o]
          BY <4>1, PostKeeps DEF TunnelTypes
      <4>3. toEnd[o] \in Seq(Int) /\ Len(got[o]) \in Nat /\ Len(got[o]) <= m + 1
          BY <3>1 DEF TunnelTypes, OnItsWay
      <4>4. ASSUME up[o] PROVE Train(toEnd'[o], r, Len(got[o]), m + 1, z)
        <5>1. Train(toEnd[o], r, Len(got[o]), m, 0) /\ z = 0
            BY <3>1, <3>5, <4>4 DEF OnItsWay
        <5>2. Train(Append(toEnd[o], m + 1), r, Len(got[o]), m + 1, 0)
            BY <3>1, <4>3, <5>1, TrainGrows
        <5> QED BY <4>2, <4>4, <5>1, <5>2
      <4> QED BY <1>3, <1>5, <3>1, <4>2, <4>3, <4>4 DEF OnItsWay
    <3>7. Causes(e, o, m + 1, k)'
      <4>1. Cleaning => closed[o] \/ ~up["caller"]
        <5>1. m # written[e]
            BY <1>2, <3>1, <3>10
        <5> QED BY <3>1, <5>1 DEF Causes
      <4> QED BY <1>3, <1>4, <1>5, <2>2, <2>4, <3>1, <4>1 DEF Causes
    <3>8. Direction(e, o, m + 1, k, r, z)'
        BY <1>6, <3>3, <3>4, <3>6, <3>7 DEF Direction
    <3>9. Numbers(e, m + 1, k, r, z)'
        BY <1>2, <1>3, <3>1, <3>3 DEF Numbers
    <3> QED BY <1>1, <3>8, <3>9, DirectionKnown
  <2> QED BY <2>3, <2>4
<1> QED BY <1>7, <1>8

\* A goroutine leaves its loop when its source is drained or the caller's context ends.
LEMMA CopyEndsStep ==
    ASSUME TunnelTypes, TunnelPhases, NEW x \in Tunnel!Ends, Tunnel!CopyEnds(x),
           \A y \in Tunnel!Ends : DirectionInv(y), NEW e \in Tunnel!Ends
    PROVE  DirectionInv(e)'
<1> USE TwoEnds
<1>1. PICK o \in Tunnel!Ends : o = Tunnel!Other(e)
    OBVIOUS
<1>2. PICK m \in 0..written[e], k \in 0..written[e], r \in {0, 1}, z \in {0, 1} :
          Direction(e, o, m, k, r, z)
    BY <1>1 DEF DirectionInv
<1>3. /\ tunnel' = tunnel /\ got' = got /\ ended' = ended /\ up' = up /\ toEnd' = toEnd
      /\ toRoom' = toRoom /\ written' = written /\ closed' = closed /\ sinkClosed' = sinkClosed
      /\ reader' = reader /\ copier[x] = "copy" /\ copier' = [copier EXCEPT ![x] = "cleanup"]
    BY DEF Tunnel!CopyEnds, Tunnel!clientVars
<1>4. TunnelIsOpen /\ TunnelIsOpen' /\ (Cleaning => Cleaning') /\ Cleaning' /\ tunnel # "refused"
    BY <1>3 DEF TunnelIsOpen, TunnelPhases, Cleaning, TunnelTypes
<1>5. OnItsWay(o, m, r, z)'
    BY <1>2, <1>3, <1>4, OnItsWayKept DEF Direction
<1>6. Underway(e, k)'
    BY <1>2, <1>3, UnderwayKept DEF Direction
<1>7. Received(e, m, k)'
  <2>1. copier'[e] \in {"none", "copy"} => copier[e] \in {"none", "copy"}
      BY <1>3 DEF TunnelTypes
  <2> QED BY <1>2, <1>3, <2>1, ReceivedKept DEF Direction
<1>8. Cleaning \/ ~up["caller"] \/ (reader[x].failed /\ reader[x].frames = << >> /\ closed[x])
  <2>1. expired \/ (reader[x].failed /\ reader[x].frames = << >>)
      BY DEF Tunnel!CopyEnds, Tunnel!NextIsFalse
  <2>2. expired => ~up["caller"]
      BY DEF TunnelPhases
  <2>3. reader[x].failed /\ ~Cleaning => closed[x]
      BY <1>4 DEF DirectionInv, Direction, Causes
  <2> QED BY <2>1, <2>2, <2>3
<1>9. Cleaning \/ ~up["caller"] \/ closed[o] \/ (closed[e] /\ m = written[e])
  <2>1. SUFFICES ASSUME ~Cleaning, up["caller"], x = e PROVE closed[e] /\ m = written[e]
      BY <1>1, <1>8
  <2>2. closed[e] /\ k = written[e] /\ reader[e].frames = << >>
      BY <1>2, <1>4, <1>8, <2>1 DEF Direction, Causes
  <2>3. Train(reader[e].frames, 0, m, k, 0)
      BY <1>2, <1>3, <2>1 DEF Direction, Received
  <2>4. Len(reader[e].frames) = 0 + (k - m) + 0 /\ Len(reader[e].frames) = 0
      BY <2>2, <2>3 DEF Train
  <2> QED BY <1>2, <2>2, <2>4
<1>10. Causes(e, o, m, k)'
    BY <1>2, <1>3, <1>4, <1>9 DEF Direction, Causes
<1>11. Direction(e, o, m, k, r, z)'
    BY <1>2, <1>5, <1>6, <1>7, <1>10 DEF Direction
<1>12. Numbers(e, m, k, r, z)'
    BY <1>3 DEF Numbers
<1> QED BY <1>1, <1>11, <1>12, DirectionKnown

\* The cleanup fails the sources and closes the sinks, each with the end of the stream.
LEMMA CleanupStepKeeps ==
    ASSUME TunnelTypes, TunnelPhases, Tunnel!Cleanup, NEW e \in Tunnel!Ends, DirectionInv(e)
    PROVE  DirectionInv(e)'
<1> USE TwoEnds
<1>1. PICK o \in Tunnel!Ends : o = Tunnel!Other(e)
    OBVIOUS
<1>2. PICK m \in 0..written[e], k \in 0..written[e], r \in {0, 1}, z \in {0, 1} :
          Direction(e, o, m, k, r, z)
    BY <1>1 DEF DirectionInv
<1>3. /\ tunnel' = tunnel /\ got' = got /\ ended' = ended /\ up' = up /\ toRoom' = toRoom
      /\ written' = written /\ closed' = closed /\ copier' = copier
      /\ cleanup \in 0..3 /\ Cleaning
    BY DEF Tunnel!Cleanup, Tunnel!clientVars, TunnelPhases, Cleaning
<1>4. TunnelIsOpen /\ TunnelIsOpen' /\ Cleaning'
    BY <1>3 DEF TunnelIsOpen, TunnelPhases, Cleaning
<1>5. /\ reader'[e].frames = reader[e].frames
      /\ reader[e].failed => reader'[e].failed
  <2>1. \/ \E x \in Tunnel!Ends : reader' = [reader EXCEPT ![x].failed = TRUE]
        \/ reader' = reader
      BY <1>3 DEF Tunnel!Cleanup, Tunnel!CleanupStep
  <2>2. ASSUME NEW x \in Tunnel!Ends, reader' = [reader EXCEPT ![x].failed = TRUE]
        PROVE  /\ reader'[e].frames = reader[e].frames
               /\ reader[e].failed => reader'[e].failed
    <3>1. /\ reader'[x].frames = reader[x].frames /\ reader'[x].failed
          /\ \A y \in Tunnel!Ends : y # x => reader'[y] = reader[y]
        BY <2>2, SourceFails DEF TunnelTypes
    <3> QED BY <3>1
  <2> QED BY <2>1, <2>2
<1>6. Received(e, m, k)'
    BY <1>2, <1>3, <1>5, ReceivedKept DEF Direction
<1>7. Underway(e, k)'
    BY <1>2, <1>3, <1>5, UnderwayKept DEF Direction
<1>8. Causes(e, o, m, k)'
    BY <1>2, <1>3, <1>4 DEF Direction, Causes
<1>9. PICK x \in Tunnel!Ends :
          /\ x = (IF cleanup < 3 THEN "caller" ELSE "target")
          /\ sinkClosed' = IF cleanup < 2 THEN sinkClosed ELSE [sinkClosed EXCEPT ![x] = TRUE]
          /\ IF cleanup < 2 THEN toEnd' = toEnd ELSE Tunnel!Post(x, Tunnel!EndPacket)
    BY DEF Tunnel!Cleanup, Tunnel!CleanupStep
<1>10. OnItsWay(o, m, r, z) /\ m \in Nat
    BY <1>2 DEF Direction, TunnelTypes
<1>11. \E n \in {0, 1} : OnItsWay(o, m, r, n)'
  <2>1. CASE cleanup >= 2
    <3>1. /\ ~sinkClosed[x] /\ sinkClosed' = [sinkClosed EXCEPT ![x] = TRUE]
          /\ toEnd' = IF up[x] THEN [toEnd EXCEPT ![x] = Append(@, Tunnel!EndPacket)] ELSE toEnd
        BY <1>3, <1>4, <1>9, <2>1 DEF TunnelPhases, TunnelIsOpen, Tunnel!Post
    <3>2. /\ got' = got /\ up' = up /\ ended' = ended
          /\ tunnel \in {"open", "closed"} => tunnel' \in {"open", "closed"}
        BY <1>3, <1>4 DEF TunnelIsOpen
    <3>3. /\ x \in Tunnel!Ends /\ o \in Tunnel!Ends /\ m \in Nat /\ r \in {0, 1} /\ z \in {0, 1}
          /\ OnItsWay(o, m, r, z) /\ TunnelTypes
        BY <1>10
    <3> HIDE TwoEnds
    <3>4. OnItsWay(o, m, r, z)' \/ OnItsWay(o, m, r, 1)'
        BY <3>1, <3>2, <3>3, SinkClosed
    <3> QED BY <3>4
  <2>2. CASE ~(cleanup >= 2)
    <3>1. toEnd' = toEnd /\ sinkClosed' = sinkClosed
        BY <1>3, <1>9, <2>2
    <3>2. OnItsWay(o, m, r, z)'
        BY <1>3, <1>4, <1>10, <3>1, OnItsWayKept
    <3> QED BY <3>2
  <2> QED BY <2>1, <2>2
<1>14. PICK n \in {0, 1} : OnItsWay(o, m, r, n)'
    BY <1>11
<1>12. Direction(e, o, m, k, r, n)'
    BY <1>2, <1>6, <1>7, <1>8, <1>14 DEF Direction
<1>13. Numbers(e, m, k, r, n)'
    BY <1>3 DEF Numbers
<1> QED BY <1>1, <1>12, <1>13, DirectionKnown

\* A goroutine that waited for the cleanup ends.
LEMMA CopierDoneStep ==
    ASSUME TunnelTypes, TunnelPhases, NEW x \in Tunnel!Ends, Tunnel!CopierDone(x),
           NEW e \in Tunnel!Ends, DirectionInv(e)
    PROVE  DirectionInv(e)'
<1> USE TwoEnds
<1>1. PICK o \in Tunnel!Ends : o = Tunnel!Other(e)
    OBVIOUS
<1>2. PICK m \in 0..written[e], k \in 0..written[e], r \in {0, 1}, z \in {0, 1} :
          Direction(e, o, m, k, r, z)
    BY <1>1 DEF DirectionInv
<1>3. /\ got' = got /\ ended' = ended /\ up' = up /\ toEnd' = toEnd
      /\ toRoom' = toRoom /\ written' = written /\ closed' = closed /\ sinkClosed' = sinkClosed
      /\ reader' = reader /\ copier[x] = "cleanup" /\ copier' = [copier EXCEPT ![x] = "done"]
      /\ tunnel' = "closed" \/ tunnel' = tunnel
    BY DEF Tunnel!CopierDone, Tunnel!clientVars
<1>4. TunnelIsOpen /\ TunnelIsOpen' /\ Cleaning /\ Cleaning'
    BY <1>3 DEF TunnelIsOpen, TunnelPhases, Cleaning, TunnelTypes
<1>5. copier'[e] \in {"none", "copy"} => copier[e] \in {"none", "copy"}
    BY <1>3 DEF TunnelTypes
<1>6. OnItsWay(o, m, r, z)' /\ Received(e, m, k)' /\ Underway(e, k)'
    BY <1>2, <1>3, <1>4, <1>5, OnItsWayKept, ReceivedKept, UnderwayKept DEF Direction
<1>7. Causes(e, o, m, k)'
    BY <1>2, <1>3, <1>4 DEF Direction, Causes
<1>8. Direction(e, o, m, k, r, z)'
    BY <1>2, <1>6, <1>7 DEF Direction
<1>9. Numbers(e, m, k, r, z)'
    BY <1>3 DEF Numbers
<1> QED BY <1>1, <1>8, <1>9, DirectionKnown

\* A client writes a frame, or closes its end.
LEMMA ClientWrites ==
    ASSUME TunnelTypes, TunnelPhases, NEW x \in Tunnel!Ends,
           Tunnel!StreamConnWrite(x) \/ Tunnel!StreamConnClose(x),
           NEW e \in Tunnel!Ends, DirectionInv(e)
    PROVE  DirectionInv(e)'
<1> USE TwoEnds
<1>1. PICK o \in Tunnel!Ends : o = Tunnel!Other(e)
    OBVIOUS
<1>2. PICK m \in 0..written[e], k \in 0..written[e], r \in {0, 1}, z \in {0, 1} :
          Direction(e, o, m, k, r, z)
    BY <1>1 DEF DirectionInv
<1>3. /\ tunnel' = tunnel /\ got' = got /\ ended' = ended /\ up' = up /\ toEnd' = toEnd
      /\ sinkClosed' = sinkClosed /\ reader' = reader /\ copier' = copier
      /\ up[x] /\ ~closed[x]
    BY DEF Tunnel!StreamConnWrite, Tunnel!StreamConnClose, Tunnel!roomEnd, Tunnel!Opened
<1>4. (TunnelIsOpen <=> TunnelIsOpen') /\ (Cleaning <=> Cleaning')
    BY <1>3 DEF TunnelIsOpen, Cleaning
<1>5. OnItsWay(o, m, r, z)' /\ Received(e, m, k)'
    BY <1>2, <1>3, <1>4, OnItsWayKept, ReceivedKept DEF Direction
<1>6. /\ toRoom[e] \in Seq(Int) /\ written[e] \in Nat /\ k \in Nat /\ k <= written[e] /\ m <= k
      /\ Underway(e, k) /\ Causes(e, o, m, k)
    BY <1>2 DEF Direction, TunnelTypes
<1>7. CASE x # e
  <2>1. toRoom'[e] = toRoom[e] /\ written'[e] = written[e] /\ closed'[e] = closed[e]
      BY <1>7 DEF Tunnel!StreamConnWrite, Tunnel!StreamConnClose, TunnelTypes
  <2>2. closed[o] => closed'[o]
      BY DEF Tunnel!StreamConnWrite, Tunnel!StreamConnClose, TunnelTypes
  <2>3. Underway(e, k)'
      BY <1>3, <1>6, <2>1, UnderwayKept
  <2>4. Causes(e, o, m, k)'
      BY <1>3, <1>4, <1>6, <2>1, <2>2 DEF Causes
  <2>5. Direction(e, o, m, k, r, z)'
      BY <1>5, <1>6, <2>3, <2>4 DEF Direction
  <2>6. Numbers(e, m, k, r, z)'
      BY <1>2, <2>1 DEF Numbers
  <2> QED BY <1>1, <2>5, <2>6, DirectionKnown
<1>8. CASE x = e /\ Tunnel!StreamConnWrite(x)
  <2>1. /\ toRoom'[e] = Append(toRoom[e], written[e] + 1) /\ written'[e] = written[e] + 1
        /\ closed' = closed
      BY <1>8 DEF Tunnel!StreamConnWrite, TunnelTypes
  <2>2. Underway(e, k)'
    <3>1. ASSUME ~reader[e].failed PROVE Train(toRoom'[e], 0, k, written'[e], 0)
      <4>1. Train(toRoom[e], 0, k, written[e], 0)
          BY <1>3, <1>6, <1>8, <3>1 DEF Underway
      <4>2. Train(Append(toRoom[e], written[e] + 1), 0, k, written[e] + 1, 0)
          BY <1>6, <4>1, TrainGrows
      <4> QED BY <2>1, <4>2
    <3> QED BY <1>3, <1>8, <2>1, <3>1 DEF Underway
  <2>3. Causes(e, o, m, k)'
      BY <1>3, <1>4, <1>6, <1>8, <2>1 DEF Causes
  <2>4. Direction(e, o, m, k, r, z)'
      BY <1>5, <1>6, <2>2, <2>3 DEF Direction
  <2>5. Numbers(e, m, k, r, z)'
      BY <1>2, <1>6, <2>1 DEF Numbers
  <2> QED BY <1>1, <2>4, <2>5, DirectionKnown
<1>9. CASE x = e /\ Tunnel!StreamConnClose(x)
  <2>1. /\ toRoom'[e] = Append(toRoom[e], Tunnel!EndPacket) /\ written' = written
        /\ closed'[e] /\ closed'[o] = closed[o]
      BY <1>1, <1>9 DEF Tunnel!StreamConnClose, TunnelTypes
  <2>2. Underway(e, k)'
    <3>1. ASSUME ~reader[e].failed PROVE Train(toRoom'[e], 0, k, written[e], 1)
      <4>1. Train(toRoom[e], 0, k, written[e], 0)
          BY <1>3, <1>6, <1>9, <3>1 DEF Underway
      <4>2. Train(Append(toRoom[e], Tunnel!EndPacket), 0, k, written[e], 1)
          BY <1>6, <4>1, TrainEnds
      <4> QED BY <2>1, <4>2
    <3> QED BY <1>3, <1>9, <2>1, <3>1 DEF Underway
  <2>3. Causes(e, o, m, k)'
      BY <1>3, <1>4, <1>6, <1>9, <2>1 DEF Causes
  <2>4. Direction(e, o, m, k, r, z)'
      BY <1>5, <1>6, <2>2, <2>3 DEF Direction
  <2>5. Numbers(e, m, k, r, z)'
      BY <1>2, <2>1 DEF Numbers
  <2> QED BY <1>1, <2>4, <2>5, DirectionKnown
<1> QED BY <1>7, <1>8, <1>9

\* A client reads the request, the next frame or the end of the stream.
LEMMA ClientReads ==
    ASSUME TunnelTypes, TunnelPhases, NEW x \in Tunnel!Ends, Tunnel!StreamConnRead(x),
           NEW e \in Tunnel!Ends, DirectionInv(e)
    PROVE  DirectionInv(e)'
<1> USE TwoEnds
<1>1. PICK o \in Tunnel!Ends : o = Tunnel!Other(e)
    OBVIOUS
<1>2. PICK m \in 0..written[e], k \in 0..written[e], r \in {0, 1}, z \in {0, 1} :
          Direction(e, o, m, k, r, z)
    BY <1>1 DEF DirectionInv
<1>3. /\ tunnel' = tunnel /\ up' = up /\ toRoom' = toRoom /\ written' = written
      /\ closed' = closed /\ sinkClosed' = sinkClosed /\ reader' = reader /\ copier' = copier
      /\ up[x] /\ ~closed[x] /\ toEnd[x] # << >>
      /\ toEnd' = [toEnd EXCEPT ![x] = Tail(toEnd[x])]
      /\ ended' = [ended EXCEPT ![x] = ended[x] \/ Head(toEnd[x]) = Tunnel!EndPacket]
      /\ got' = IF Head(toEnd[x]) > 0 THEN [got EXCEPT ![x] = Append(got[x], Head(toEnd[x]))] ELSE got
    BY DEF Tunnel!StreamConnRead, Tunnel!roomEnd
<1>4. (TunnelIsOpen <=> TunnelIsOpen') /\ (Cleaning <=> Cleaning')
    BY <1>3 DEF TunnelIsOpen, Cleaning
<1>5. Underway(e, k)' /\ Received(e, m, k)'
    BY <1>2, <1>3, UnderwayKept, ReceivedKept DEF Direction
<1>6. /\ toEnd[o] \in Seq(Int) /\ got[o] \in Seq(Int) /\ written[e] \in Nat /\ m \in Nat /\ m <= k
      /\ OnItsWay(o, m, r, z) /\ Causes(e, o, m, k) /\ Len(got[o]) \in Nat
    BY <1>2 DEF Direction, TunnelTypes
<1>7. \A n, q : Numbers(e, m, k, n, q)' <=> n \in {0, 1} /\ q \in {0, 1}
    BY <1>3 DEF Numbers
<1>8. CASE x # o
  <2>1. toEnd'[o] = toEnd[o] /\ ended'[o] = ended[o] /\ got'[o] = got[o]
      BY <1>3, <1>8 DEF TunnelTypes
  <2>2. OnItsWay(o, m, r, z)'
      BY <1>3, <1>4, <1>6, <2>1, OnItsWayKept
  <2>3. Causes(e, o, m, k)'
      BY <1>3, <1>4, <1>6, <2>1 DEF Causes
  <2>4. Direction(e, o, m, k, r, z)'
      BY <1>5, <1>6, <2>2, <2>3 DEF Direction
  <2> QED BY <1>1, <1>7, <2>4, DirectionKnown
<1>9. CASE x = o
  <2>1. /\ toEnd'[o] = Tail(toEnd[o]) /\ (ended'[o] <=> ended[o] \/ Head(toEnd[o]) = Tunnel!EndPacket)
        /\ Head(toEnd[o]) > 0 => got'[o] = Append(got[o], Head(toEnd[o]))
        /\ ~(Head(toEnd[o]) > 0) => got'[o] = got[o]
      BY <1>3, <1>9 DEF TunnelTypes
  <2>2. Train(toEnd[o], r, Len(got[o]), m, z) /\ Len(got[o]) <= m /\ toEnd[o] # << >>
      BY <1>3, <1>6, <1>9 DEF OnItsWay
  <2>3. /\ r = 1 => Head(toEnd[o]) = Tunnel!RequestPacket /\ Train(Tail(toEnd[o]), 0, Len(got[o]), m, z)
        /\ r = 0 /\ Len(got[o]) < m =>
               Head(toEnd[o]) = Len(got[o]) + 1 /\ Train(Tail(toEnd[o]), 0, Len(got[o]) + 1, m, z)
        /\ r = 0 /\ Len(got[o]) = m =>
               z = 1 /\ Head(toEnd[o]) = Tunnel!EndPacket /\ Train(Tail(toEnd[o]), 0, Len(got[o]), m, 0)
      BY <1>6, <2>2, TrainHead
  <2>4. CASE r = 1
    <3>1. (ended'[o] <=> ended[o]) /\ got'[o] = got[o] /\ Train(toEnd'[o], 0, Len(got[o]), m, z)
      <4>1. Head(toEnd[o]) = 0 - 1 /\ ~(Head(toEnd[o]) > 0) /\ Head(toEnd[o]) # Tunnel!EndPacket
          BY <2>3, <2>4, PacketsDiffer
      <4> QED BY <2>1, <2>3, <2>4, <4>1
    <3>2. OnItsWay(o, m, 0, z)'
        BY <1>3, <1>4, <1>6, <1>9, <3>1 DEF OnItsWay
    <3>3. Causes(e, o, m, k)'
        BY <1>3, <1>4, <1>6, <3>1 DEF Causes
    <3>4. Direction(e, o, m, k, 0, z)'
        BY <1>5, <1>6, <3>2, <3>3 DEF Direction
    <3> QED BY <1>1, <1>7, <3>4, DirectionKnown
  <2>5. CASE r = 0 /\ Len(got[o]) < m
    <3>1. Head(toEnd[o]) = Len(got[o]) + 1 /\ Train(toEnd'[o], 0, Len(got[o]) + 1, m, z)
        BY <2>1, <2>3, <2>5
    <3>2. got'[o] = Append(got[o], Len(got[o]) + 1) /\ (ended'[o] <=> ended[o])
      <4>1. Head(toEnd[o]) > 0 /\ Head(toEnd[o]) # Tunnel!EndPacket
          BY <1>6, <3>1, PacketsDiffer
      <4> QED BY <2>1, <3>1, <4>1
    <3>3. /\ Len(got'[o]) = Len(got[o]) + 1 /\ Len(got'[o]) <= m
          /\ \A i \in 1..Len(got'[o]) : got'[o][i] = i
      <4>1. /\ Len(got'[o]) = Len(got[o]) + 1 /\ got'[o][Len(got[o]) + 1] = Len(got[o]) + 1
            /\ \A i \in 1..Len(got[o]) : got'[o][i] = got[o][i]
          BY <1>6, <3>2
      <4>2. \A i \in 1..Len(got[o]) : got[o][i] = i
          BY <1>6 DEF OnItsWay
      <4>3. \A i \in 1..Len(got'[o]) : i \in 1..Len(got[o]) \/ i = Len(got[o]) + 1
          BY <1>6, <4>1
      <4>4. Len(got'[o]) <= m
          BY <1>6, <2>5, <4>1
      <4> QED BY <4>1, <4>2, <4>3, <4>4
    <3>4. OnItsWay(o, m, 0, z)'
        BY <1>3, <1>4, <1>6, <1>9, <3>1, <3>2, <3>3 DEF OnItsWay
    <3>5. Causes(e, o, m, k)'
      <4>1. ended[o] /\ up[e] /\ TunnelIsOpen => FALSE
        <5>1. Len(got[o]) # written[e]
            BY <1>2, <1>6, <2>5
        <5> QED BY <1>6, <5>1 DEF Causes
      <4> QED BY <1>3, <1>4, <1>6, <3>2, <4>1 DEF Causes
    <3>6. Direction(e, o, m, k, 0, z)'
        BY <1>5, <1>6, <3>4, <3>5 DEF Direction
    <3> QED BY <1>1, <1>7, <3>6, DirectionKnown
  <2>6. CASE r = 0 /\ Len(got[o]) = m
    <3>1. z = 1 /\ got'[o] = got[o] /\ Train(toEnd'[o], 0, Len(got[o]), m, 0)
        BY <2>1, <2>3, <2>6, PacketsDiffer
    <3>2. sinkClosed[o]
        BY <1>6, <3>1 DEF OnItsWay
    <3>3. OnItsWay(o, m, 0, 0)'
        BY <1>3, <1>4, <1>6, <1>9, <3>1, <3>2 DEF OnItsWay
    <3>4. ASSUME up[e], TunnelIsOpen PROVE closed[e] /\ Len(got[o]) = written[e]
      <4>1. Cleaning
          BY <3>2, <3>4, ClosedSinkMeansCleaning
      <4>2. up["caller"] /\ ~closed[o]
          BY <1>1, <1>3, <1>9, <3>4
      <4> QED BY <1>6, <2>6, <4>1, <4>2 DEF Causes
    <3>5. Causes(e, o, m, k)'
        BY <1>3, <1>4, <1>6, <3>1, <3>4 DEF Causes
    <3>6. Direction(e, o, m, k, 0, 0)'
        BY <1>5, <1>6, <3>3, <3>5 DEF Direction
    <3> QED BY <1>1, <1>7, <3>6, DirectionKnown
  <2> QED BY <1>6, <2>2, <2>4, <2>5, <2>6
<1> QED BY <1>8, <1>9

\* A lost connection takes what was on its way with it.
LEMMA LoseStep ==
    ASSUME TunnelTypes, TunnelPhases, NEW x \in Tunnel!Ends, Tunnel!Lose(x),
           NEW e \in Tunnel!Ends, DirectionInv(e)
    PROVE  DirectionInv(e)'
<1> USE TwoEnds
<1>1. PICK o \in Tunnel!Ends : o = Tunnel!Other(e)
    OBVIOUS
<1>2. PICK m \in 0..written[e], k \in 0..written[e], r \in {0, 1}, z \in {0, 1} :
          Direction(e, o, m, k, r, z)
    BY <1>1 DEF DirectionInv
<1>3. /\ tunnel' = tunnel /\ got' = got /\ ended' = ended /\ written' = written
      /\ closed' = closed /\ sinkClosed' = sinkClosed /\ reader' = reader /\ copier' = copier
    BY DEF Tunnel!Lose, Tunnel!roomEnd, Tunnel!clientVars
<1>4. /\ ~up'[x] /\ toRoom'[x] = << >> /\ toEnd'[x] = << >>
      /\ \A y \in Tunnel!Ends : y # x => up'[y] = up[y] /\ toRoom'[y] = toRoom[y] /\ toEnd'[y] = toEnd[y]
    BY DEF Tunnel!Lose, TunnelTypes
<1>5. (TunnelIsOpen <=> TunnelIsOpen') /\ (Cleaning <=> Cleaning')
    BY <1>3 DEF TunnelIsOpen, Cleaning
<1>6. Received(e, m, k)'
    BY <1>2, <1>3, ReceivedKept DEF Direction
<1>7. OnItsWay(o, m, r, z)'
  <2>1. CASE x = o
      BY <1>2, <1>3, <1>4, <1>5, <2>1 DEF Direction, OnItsWay
  <2>2. CASE x # o
      BY <1>2, <1>3, <1>4, <1>5, <2>2, OnItsWayKept DEF Direction
  <2> QED BY <2>1, <2>2
<1>8. Underway(e, k)'
  <2>1. CASE x = e
      BY <1>4, <2>1 DEF Underway
  <2>2. CASE x # e
      BY <1>2, <1>3, <1>4, <2>2, UnderwayKept DEF Direction
  <2> QED BY <2>1, <2>2
<1>9. \A y \in Tunnel!Ends : up'[y] => up[y]
    BY <1>4
<1>10. Causes(e, o, m, k)'
    BY <1>2, <1>3, <1>5, <1>9 DEF Direction, Causes
<1>11. Direction(e, o, m, k, r, z)'
    BY <1>2, <1>6, <1>7, <1>8, <1>10 DEF Direction
<1>12. Numbers(e, m, k, r, z)'
    BY <1>3 DEF Numbers
<1> QED BY <1>1, <1>11, <1>12, DirectionKnown

\* Every step of the tunnel keeps both directions.
LEMMA DirectionStep ==
    ASSUME TunnelInv, Tunnel!Next, NEW e \in Tunnel!Ends
    PROVE  DirectionInv(e)'
<1>1. TunnelTypes /\ TunnelPhases /\ DirectionInv(e) /\ \A y \in Tunnel!Ends : DirectionInv(y)
    BY DEF TunnelInv
<1>2. CASE Tunnel!HasPeer
  <2>1. CASE Tunnel!Refuse
    <3>1. tunnel \in {"asked", "announced"}
        BY <1>2 DEF Tunnel!HasPeer
    <3> QED BY <1>1, <2>1, <3>1, RefuseStep
  <2>2. CASE ~Tunnel!Refuse
    <3>1. /\ UNCHANGED << up, toRoom, toEnd, reader, sinkClosed, copier, written, got, closed, ended >>
          /\ (TunnelIsOpen' <=> TunnelIsOpen) /\ (tunnel' = "refused" <=> tunnel = "refused")
        BY <1>2, <2>2 DEF Tunnel!HasPeer, Tunnel!roomEnd, Tunnel!clientVars, TunnelIsOpen
    <3> QED BY <1>1, <3>1, PhaseStep
  <2> QED BY <2>1, <2>2
<1>3. CASE Tunnel!GetPeerMuxRPC
  <2>1. CASE Tunnel!Refuse
    <3>1. tunnel \in {"asked", "announced"}
        BY <1>3 DEF Tunnel!GetPeerMuxRPC
    <3> QED BY <1>1, <2>1, <3>1, RefuseStep
  <2> QED BY <1>1, <1>3, <2>1, OpenStep
<1>4. ASSUME NEW x \in Tunnel!Ends, Tunnel!ConnReturns(x) PROVE DirectionInv(e)'
  <2>1. /\ UNCHANGED << up, toRoom, toEnd, reader, sinkClosed, copier, written, got, closed, ended >>
        /\ tunnel' = tunnel
      BY <1>4 DEF Tunnel!ConnReturns, Tunnel!roomEnd, Tunnel!clientVars
  <2>2. (TunnelIsOpen' <=> TunnelIsOpen) /\ (tunnel' = "refused" <=> tunnel = "refused")
      BY <2>1 DEF TunnelIsOpen
  <2> QED BY <1>1, <2>1, <2>2, PhaseStep
<1> QED BY <1>1, <1>2, <1>3, <1>4, RoomReceivesStep, CopyFrameStep, CopyEndsStep, CleanupStepKeeps,
           CopierDoneStep, ClientWrites, ClientReads, LoseStep DEF Tunnel!Next

\* The tunnel starts in the invariant.
LEMMA TunnelStarts == Tunnel!Init => TunnelInv
<1> SUFFICES ASSUME Tunnel!Init PROVE TunnelInv
    OBVIOUS
<1> USE TwoEnds
<1>1. TunnelPhases
    BY DEF Tunnel!Init, TunnelPhases, TunnelIsOpen, Cleaning
<1>2. << >> \in Seq(Int) /\ [frames |-> << >>, failed |-> FALSE] \in Sources
    BY DEF Sources
<1>3. TunnelTypes
    BY <1>2 DEF Tunnel!Init, TunnelTypes
<1>4. ASSUME NEW e \in Tunnel!Ends PROVE DirectionInv(e)
  <2>1. PICK o \in Tunnel!Ends : o = Tunnel!Other(e)
      OBVIOUS
  <2>2. Train(<< >>, 0, 0, 0, 0)
      BY DEF Train
  <2>3. /\ got[o] = << >> /\ toEnd[o] = << >> /\ toRoom[e] = << >> /\ written[e] = 0
        /\ reader[e].frames = << >> /\ ~reader[e].failed /\ ~closed[e] /\ ~ended[o]
        /\ ~Cleaning /\ ~TunnelIsOpen
      BY DEF Tunnel!Init, Cleaning, TunnelIsOpen
  <2>4. OnItsWay(o, 0, 0, 0)
      BY <2>2, <2>3 DEF OnItsWay
  <2>5. Received(e, 0, 0) /\ Underway(e, 0) /\ Causes(e, o, 0, 0)
      BY <2>2, <2>3 DEF Received, Underway, Causes
  <2>6. Direction(e, o, 0, 0, 0, 0)
      BY <2>4, <2>5 DEF Direction
  <2> QED BY <2>1, <2>3, <2>6 DEF DirectionInv
<1> QED BY <1>1, <1>3, <1>4 DEF TunnelInv

\* In the invariant nothing is cut off.
LEMMA TunnelIsWhole == TunnelInv => NothingCutOff
<1> SUFFICES ASSUME TunnelInv, NEW e \in Tunnel!Ends, NEW o \in Tunnel!Ends, o = Tunnel!Other(e)
             PROVE  /\ Len(got[o]) <= written[e] /\ got[o] = Tunnel!Frames(Len(got[o]))
                    /\ ended[o] /\ closed[e] /\ up[e] /\ tunnel \in {"open", "closed"}
                          => Len(got[o]) = written[e]
    BY TwoEnds DEF NothingCutOff, Tunnel!NothingCutOff
<1>1. PICK m \in 0..written[e], k \in 0..written[e], r \in {0, 1}, z \in {0, 1} :
          Direction(e, o, m, k, r, z)
    BY DEF DirectionInv, TunnelInv
<1>2. got[o] \in Seq(Int) /\ written[e] \in Nat
    BY DEF TunnelInv, TunnelTypes
<1>3. Len(got[o]) <= m /\ \A i \in 1..Len(got[o]) : got[o][i] = i
    BY <1>1 DEF Direction, OnItsWay
<1>4. got[o] = Tunnel!Frames(Len(got[o]))
  <2>1. got[o] = [i \in 1..Len(got[o]) |-> got[o][i]]
      BY <1>2
  <2> QED BY <1>3, <2>1 DEF Tunnel!Frames
<1>5. Len(got[o]) <= written[e]
    BY <1>1, <1>2, <1>3
<1> QED BY <1>1, <1>4, <1>5 DEF Direction, Causes, TunnelIsOpen

\* What an end reads from a tunnel is what the other wrote, in order; and once it reads the
\* end of the stream it has all of it, if that end closed and kept its connection:
\* handleConnect, its two goroutines and their cleanup cut nothing off.
THEOREM TunnelDelivers == LiveSpec => []NothingCutOff
<1>1. LiveInit => TunnelInv
    BY TunnelStarts DEF LiveInit
<1>2. TunnelInv /\ [LiveNext]_<< part, vars, forwardVars, tunnelVars >> => TunnelInv'
  <2> SUFFICES ASSUME TunnelInv, [LiveNext]_<< part, vars, forwardVars, tunnelVars >>
               PROVE  TunnelInv'
      OBVIOUS
  <2>1. Tunnel!Next \/ UNCHANGED tunnelVars
      BY DEF LiveNext
  <2>2. CASE Tunnel!Next
      BY <2>2, TunnelTypesStep, TunnelPhasesStep, DirectionStep DEF TunnelInv
  <2>3. CASE UNCHANGED tunnelVars
    <3>1. TunnelTypes' /\ TunnelPhases'
        BY <2>3 DEF tunnelVars, TunnelInv, TunnelTypes, TunnelPhases, TunnelIsOpen, Cleaning
    <3>2. ASSUME NEW e \in Tunnel!Ends PROVE DirectionInv(e)'
      <4>1. /\ UNCHANGED << up, toRoom, toEnd, reader, sinkClosed, copier, written, got, closed, ended >>
            /\ tunnel' = tunnel
          BY <2>3 DEF tunnelVars
      <4>2. (TunnelIsOpen' <=> TunnelIsOpen) /\ (tunnel' = "refused" <=> tunnel = "refused")
          BY <4>1 DEF TunnelIsOpen
      <4> QED BY <4>1, <4>2, PhaseStep DEF TunnelInv
    <3> QED BY <3>1, <3>2 DEF TunnelInv
  <2> QED BY <2>1, <2>2, <2>3
<1> QED BY <1>1, <1>2, TunnelIsWhole, PTL DEF LiveSpec
=============================================================================
