------------------------------ MODULE RoomProofs ------------------------------
(***************************************************************************)
(* The room and the process that holds it, for any number of feeds,          *)
(* connections, workers and requests, and for any bounds.                    *)
(*                                                                          *)
(* 1. Stop closes nothing that is still in use, whichever step of Start a    *)
(*    failure, a signal or a crash follows.  ShutdownInOrder speaks of the   *)
(*    last steps of Stop only; inductive is who answers for what until then: *)
(*    a live session is in the map of a started ingest manager or among      *)
(*    those Stop waits for, the SSB stores stay open until the queue is      *)
(*    closed and empty, and a heartbeat that outlives Start has a cancelled  *)
(*    context.                                                              *)
(* 2. Presence follows the connections.  PresenceFollows speaks of a         *)
(*    connection that is served and of one that is gone; inductive is what   *)
(*    the room has of a feed at every place of its one open connection.      *)
(* 3. A presence stream catches up.  Inductive is that what its client will  *)
(*    show when it has read the queue is what the room has: the last event   *)
(*    about a feed decides, or what the client shows where there is none.    *)
(* 4. Credentials hold while requests overlap.  Inductive is what each       *)
(*    request has read and may still count on, at every statement of it.     *)
(***************************************************************************)
EXTENDS MCRoom, TLAPS

-----------------------------------------------------------------------------
(* The process                                                               *)

Serving == {"start", "ingest", "schedulers", "live", "wait", "stop", "stopIngest", "waitIngest",
            "room", "queue", "ssb"}
Finished == {"stopped", "close", "exit"}

\* The kinds of the values that the steps below compute with.
TypeOK ==
    /\ pc \in {"down"} \cup Serving \cup Finished
    /\ ingest \in [started : BOOLEAN, cancelled : BOOLEAN]
    /\ sessions \subseteq Feeds /\ waits \subseteq Feeds
    /\ session \in [Feeds -> {"none", "registered", "running", "done"}]
    /\ queued \in Nat

\* The stores are open from Init until CloseSSB, which comes after the queue is closed and
\* has appended everything.
StoresOutliveQueue ==
    /\ pc \in Serving => "ssb" \in open
    /\ pc \in {"down", "ssb"} \cup Finished => queued = 0 /\ "queue" \notin open

\* The manager is started between StartIngest and StopIngest, and a session that has not
\* ended is in its map, or among those that Stop is waiting for.
SessionsAnsweredFor ==
    /\ ingest.started => pc \in {"schedulers", "live", "wait", "stop", "stopIngest"}
    /\ \A f \in Feeds : session[f] \in {"registered", "running"} =>
          \/ ingest.started /\ f \in sessions
          \/ pc = "waitIngest" /\ f \in waits

\* A heartbeat that still runs when Start is over cannot write.
HeartbeatCancelled ==
    heartbeat # "off" => pc \in {"live", "wait"} \/ cancelled

ShutdownInv ==
    /\ TypeOK
    /\ StoresOutliveQueue
    /\ SessionsAnsweredFor
    /\ HeartbeatCancelled
    /\ ~misuse
    /\ pc \in {"close", "exit"} => status = "stopped" \/ unsaved

-----------------------------------------------------------------------------
\* A process that has not started: nothing is open and nothing runs.
LEMMA InitShutdown == Init => ShutdownInv
<1> SUFFICES ASSUME Init PROVE ShutdownInv
  OBVIOUS
<1>1. TypeOK
  BY DEF Init, Nothing, TypeOK
<1>2. StoresOutliveQueue
  BY DEF Init, StoresOutliveQueue, Serving
<1>3. SessionsAnsweredFor
  BY DEF Init, Nothing, SessionsAnsweredFor
<1> QED
  BY <1>1, <1>2, <1>3 DEF Init, ShutdownInv, HeartbeatCancelled

\* Every step keeps the types.
LEMMA NextType == TypeOK /\ [Next]_vars => TypeOK'
<1> SUFFICES ASSUME TypeOK, [Next]_vars PROVE TypeOK'
  OBVIOUS
<1> USE DEF TypeOK, Serving, Finished
<1>1. CASE InitApp
  BY <1>1 DEF InitApp, Go, table
<1>2. CASE StartIndexerPipeline
  BY <1>2 DEF StartIndexerPipeline, table, Rest
<1>3. CASE StartIngest
  BY <1>3 DEF StartIngest, Go, table, Rest
<1>4. CASE StartSchedulers
  BY <1>4 DEF StartSchedulers, Go, table, Rest
<1>5. CASE StartLive
  BY <1>5 DEF StartLive, Go, SetBridgeState, Fault, Rest
<1>6. CASE Signal
  BY <1>6 DEF Signal, table, Rest
<1>7. CASE StartBridgeAppLifecycle
  BY <1>7 DEF StartBridgeAppLifecycle, Go, table, Rest
<1>8. CASE StopBegins
  BY <1>8 DEF StopBegins, Go, SetBridgeState, Fault, Rest
<1>9. CASE StopIngest
  BY <1>9 DEF StopIngest, Go, table, Rest
<1>10. CASE WaitIngest
  BY <1>10 DEF WaitIngest, table, Rest
<1>11. CASE CloseRoom
  BY <1>11 DEF CloseRoom, Go, table, Rest
<1>12. CASE ClosePublisher
  BY <1>12 DEF ClosePublisher, table, Rest
<1>13. CASE CloseSSB
  BY <1>13 DEF CloseSSB, Go, table, Rest
<1>14. CASE StopEnds
  BY <1>14 DEF StopEnds, Go, SetBridgeState, Fault, Rest
<1>15. CASE CloseDB
  BY <1>15 DEF CloseDB, Go, table, Rest
<1>16. CASE Exit
  BY <1>16 DEF Exit, Dies, Nothing, table, Rest
<1>17. CASE Crash
  BY <1>17 DEF Crash, Dies, Fault, Nothing, table, Rest
<1>18. ASSUME NEW f \in Feeds, Announce(f) \/ EnsureSession(f) \/ SessionAppends(f) \/ RunSession(f)
       PROVE  TypeOK'
  BY <1>18 DEF Announce, EnsureSession, SessionAppends, RunSession, process, table, Rest
<1>19. CASE QueuePublish
  BY <1>19 DEF QueuePublish, table, Rest
<1>20. CASE WorkerAppends
  BY <1>20 DEF WorkerAppends, table
<1>21. CASE HeartbeatStatus
  BY <1>21 DEF HeartbeatStatus, Rest
<1>22. CASE HeartbeatTime
  BY <1>22 DEF HeartbeatTime, Rest
<1>23. CASE HeartbeatEnds
  BY <1>23 DEF HeartbeatEnds, table, Rest
<1>24. CASE Tick
  BY <1>24 DEF Tick, process, table
<1>25. CASE UNCHANGED vars
  BY <1>25 DEF vars, process, table
<1> QED
  BY <1>1, <1>2, <1>3, <1>4, <1>5, <1>6, <1>7, <1>8, <1>9, <1>10, <1>11, <1>12, <1>13, <1>14,
     <1>15, <1>16, <1>17, <1>18, <1>19, <1>20, <1>21, <1>22, <1>23, <1>24, <1>25 DEF Next

\* Every step of the process, and above all every step of Stop, keeps what answers for the
\* sessions, the stores and the status.
LEMMA NextShutdown == ShutdownInv /\ [Next]_vars => ShutdownInv'
<1> SUFFICES ASSUME ShutdownInv, [Next]_vars PROVE ShutdownInv'
  OBVIOUS
<1>t. TypeOK /\ TypeOK'
  BY NextType DEF ShutdownInv
<1> USE <1>t DEF ShutdownInv, StoresOutliveQueue, SessionsAnsweredFor, HeartbeatCancelled,
                 Serving, Finished
<1>1. CASE InitApp
  BY <1>1 DEF InitApp, Go, table, TypeOK
<1>2. CASE StartIndexerPipeline
  BY <1>2 DEF StartIndexerPipeline, table, Rest, TypeOK
<1>3. CASE StartIngest
  BY <1>3 DEF StartIngest, Go, table, Rest, TypeOK
<1>4. CASE StartSchedulers
  BY <1>4 DEF StartSchedulers, Go, table, Rest, TypeOK
<1>5. CASE StartLive
  BY <1>5 DEF StartLive, Go, SetBridgeState, Fault, Rest, TypeOK
<1>6. CASE Signal
  BY <1>6 DEF Signal, table, Rest, TypeOK
<1>7. CASE StartBridgeAppLifecycle
  BY <1>7 DEF StartBridgeAppLifecycle, Go, table, Rest, TypeOK
<1>8. CASE StopBegins
  BY <1>8 DEF StopBegins, Go, SetBridgeState, Fault, Rest, TypeOK
<1>9. CASE StopIngest
  BY <1>9 DEF StopIngest, Go, table, Rest, TypeOK
<1>10. CASE WaitIngest
  BY <1>10 DEF WaitIngest, table, Rest, TypeOK
<1>11. CASE CloseRoom
  BY <1>11 DEF CloseRoom, Go, table, Rest, TypeOK
<1>12. CASE ClosePublisher
  BY <1>12 DEF ClosePublisher, table, Rest, TypeOK
<1>13. CASE CloseSSB
  BY <1>13 DEF CloseSSB, Go, table, Rest, TypeOK
<1>14. CASE StopEnds
  BY <1>14 DEF StopEnds, Go, SetBridgeState, Fault, Rest, TypeOK
<1>15. CASE CloseDB
  BY <1>15 DEF CloseDB, Go, table, Rest, TypeOK
<1>16. CASE Exit
  BY <1>16 DEF Exit, Dies, Nothing, table, Rest, TypeOK
<1>17. CASE Crash
  BY <1>17 DEF Crash, Dies, Fault, Nothing, table, Rest, TypeOK
<1>18. ASSUME NEW f \in Feeds, Announce(f) PROVE ShutdownInv'
  BY <1>18 DEF Announce, table, Rest, TypeOK
<1>19. ASSUME NEW f \in Feeds, EnsureSession(f) PROVE ShutdownInv'
  BY <1>19 DEF EnsureSession, table, Rest, TypeOK
<1>20. ASSUME NEW f \in Feeds, SessionAppends(f) PROVE ShutdownInv'
  <2>1. "ssb" \in open
    BY <1>20 DEF SessionAppends
  <2>2. ~misuse'
    BY <2>1, <1>20, Zenon DEF SessionAppends
  <2> QED
    BY <2>2, <1>20 DEF SessionAppends, process, table, TypeOK
<1>21. ASSUME NEW f \in Feeds, RunSession(f) PROVE ShutdownInv'
  BY <1>21 DEF RunSession, table, Rest, TypeOK
<1>22. CASE QueuePublish
  BY <1>22 DEF QueuePublish, table, Rest, TypeOK
<1>23. CASE WorkerAppends
  <2>1. "ssb" \in open
    BY <1>23 DEF WorkerAppends, TypeOK
  <2>2. ~misuse'
    BY <2>1, <1>23, Zenon DEF WorkerAppends
  <2> QED
    BY <2>2, <1>23 DEF WorkerAppends, table, TypeOK
<1>24. CASE HeartbeatStatus
  BY <1>24 DEF HeartbeatStatus, Rest, TypeOK
<1>25. CASE HeartbeatTime
  BY <1>25 DEF HeartbeatTime, Rest, TypeOK
<1>26. CASE HeartbeatEnds
  BY <1>26 DEF HeartbeatEnds, table, Rest, TypeOK
<1>27. CASE Tick
  BY <1>27 DEF Tick, process, table, TypeOK
<1>28. CASE UNCHANGED vars
  BY <1>28 DEF vars, process, table, TypeOK
<1> QED
  BY <1>1, <1>2, <1>3, <1>4, <1>5, <1>6, <1>7, <1>8, <1>9, <1>10, <1>11, <1>12, <1>13, <1>14,
     <1>15, <1>16, <1>17, <1>18, <1>19, <1>20, <1>21, <1>22, <1>23, <1>24, <1>25, <1>26, <1>27,
     <1>28 DEF Next

\* The invariant gives the order in which the parts are stopped.
LEMMA ShutdownImplies == ShutdownInv => ShutdownInOrder
BY DEF ShutdownInv, TypeOK, SessionsAnsweredFor, ShutdownInOrder

\* BridgeApp.Stop closes nothing that is in use, whichever step of Start it follows, and
\* leaves the status "stopped" unless that very write failed.
THEOREM StopsInOrder == Spec => []ShutdownInOrder
<1>1. Spec => []ShutdownInv
  BY InitShutdown, NextShutdown, PTL DEF Spec
<1> QED
  BY <1>1, ShutdownImplies, PTL
-----------------------------------------------------------------------------
(* Presence in the room                                                      *)

Places == {"none", "register", "attend", "notify", "endpoint row", "attendant row", "serving",
           "unpeer", "off attendants", "off endpoints", "unregister", "closed"}
Ended == {"off attendants", "off endpoints", "unregister", "closed"}
Everyone == Identities \cup {RoomFeed, CHOOSE f \in Identities : f # RoomFeed}
ConnRecs == [at : Places, feed : Everyone, isMember : BOOLEAN, up : BOOLEAN]
Events == {[type |-> "resync"]} \cup [type : {"joined", "left"}, id : Identities]
Handlers == {"none", "announce", "leave", "announce row", "leave row"}

\* The kinds of the values that the steps of a connection compute with.
PresenceTypeOK ==
    /\ conn \in [Conns -> ConnRecs]
    /\ \A c \in Conns : conn[c].at # "none" => conn[c].feed \in Identities
    /\ call \in [Conns -> Handlers]
    /\ attendants \subseteq Identities /\ peers \subseteq Identities
    /\ registry \in [Identities -> Conns \cup {0}]
    /\ rows \in [{"attendants", "endpoints"} -> SUBSET Identities]

\* The goroutine that takes back what it entered has lost its connection, so no call begins
\* on it; one that is still running then is remembered as late, or is a guest's.  Who is
\* served without being a member is a guest.
CallsEnd ==
    \A c \in Conns :
        /\ conn[c].at \in {"unpeer"} \cup Ended => ~conn[c].up
        /\ call[c] # "none" => conn[c].at \notin {"none", "register"}
        /\ conn[c].at \notin {"none", "closed"} /\ ~conn[c].isMember => conn[c].feed \in guests
        /\ call[c] # "none" /\ conn[c].at \in Ended => conn[c].feed \in late \cup guests

\* The feeds of which PresenceFollows speaks.
Plain(f) == f \notin overlapped \cup guests \cup late

\* What the room has of a feed whose one open connection c is at a place, and of one that
\* has none.
Stage(f, c, at) ==
    /\ f \in attendants <=> at \in {"notify", "endpoint row", "attendant row", "serving"}
    /\ f \in rows["attendants"] <=> at \in {"serving", "unpeer", "off attendants"}
    /\ registry[f] = IF at = "register" THEN 0 ELSE c
    /\ at \in {"register"} \cup Ended => f \notin peers
    /\ at \in {"register", "unregister"} => f \notin rows["endpoints"]
Gone(f) ==
    /\ f \notin attendants \cup peers \cup rows["attendants"] \cup rows["endpoints"]
    /\ registry[f] = 0

\* Such a feed has one open connection at most, a member's, whose place tells what is there.
Alone(f) ==
    \A c, d \in Conns :
        Presence!Open(c) /\ Presence!Open(d) /\ conn[c].feed = f /\ conn[d].feed = f => c = d
Placed(f) ==
    /\ \A c \in Conns : Presence!Open(c) /\ conn[c].feed = f =>
          conn[c].isMember /\ Stage(f, c, conn[c].at)
    /\ (\A c \in Conns : conn[c].feed = f => ~Presence!Open(c)) => Gone(f)
Stages == \A f \in Identities : Plain(f) => Alone(f) /\ Placed(f)

PresenceInv == PresenceTypeOK /\ CallsEnd /\ Stages


\* A step of a connection's goroutine changes where that one is, and nothing else of it.
LEMMA ConnMoves ==
  ASSUME PresenceTypeOK, NEW c \in Conns, NEW at \in Places, Presence!To(c, at)
  PROVE  /\ conn' \in [Conns -> ConnRecs]
         /\ \A d \in Conns \ {c} : conn'[d] = conn[d]
         /\ conn'[c].at = at /\ conn'[c].feed = conn[c].feed
         /\ conn'[c].isMember = conn[c].isMember /\ conn'[c].up = conn[c].up
<1>1. conn[c] \in ConnRecs /\ conn \in [Conns -> ConnRecs]
  BY DEF PresenceTypeOK
<1>2. PICK r \in ConnRecs : /\ r = [conn[c] EXCEPT !.at = at]
                            /\ r.at = at /\ r.feed = conn[c].feed
                            /\ r.isMember = conn[c].isMember /\ r.up = conn[c].up
  <2>1. \A s \in ConnRecs : /\ [s EXCEPT !.at = at] \in ConnRecs
                            /\ [s EXCEPT !.at = at].at = at
                            /\ [s EXCEPT !.at = at].feed = s.feed
                            /\ [s EXCEPT !.at = at].isMember = s.isMember
                            /\ [s EXCEPT !.at = at].up = s.up
    BY DEF ConnRecs
  <2> QED
    BY <1>1, <2>1
<1>3. conn' = [conn EXCEPT ![c] = r]
  BY <1>2 DEF Presence!To
<1> QED
  BY <1>1, <1>2, <1>3

\* Nothing is connected at first.
LEMMA InitPresence == RoomInit => PresenceInv
<1> SUFFICES ASSUME RoomInit PROVE PresenceInv
  OBVIOUS
<1>1. /\ conn = [c \in Conns |-> [at |-> "none", feed |-> RoomFeed, isMember |-> FALSE, up |-> FALSE]]
      /\ call = [c \in Conns |-> "none"]
      /\ attendants = {} /\ peers = {} /\ registry = [f \in Identities |-> 0]
      /\ rows = [s \in {"attendants", "endpoints"} |-> {}]
  BY DEF RoomInit, Presence!Init, Presence!Streams
<1>2. PresenceTypeOK
  BY <1>1 DEF PresenceTypeOK, ConnRecs, Places, Handlers, Everyone
<1>3. CallsEnd
  BY <1>1 DEF CallsEnd, Ended
<1>4. Stages
  BY <1>1 DEF Stages, Alone, Placed, Gone, Presence!Open
<1> QED
  BY <1>2, <1>3, <1>4 DEF PresenceInv

\* A connection is accepted: it is the only one of its feed, or its feed has overlapped.
LEMMA AcceptPresence ==
  ASSUME PresenceInv, NEW c \in Conns, NEW f \in Identities, Presence!ConnAccept(c, f)
  PROVE  PresenceInv'
<1> DEFINE isMember == f \in members
           ok == f \notin denied /\ (mode = "restricted" => isMember)
           r == [at |-> IF ok THEN "register" ELSE "closed", feed |-> f,
                 isMember |-> isMember, up |-> ok]
<1>0. PresenceTypeOK /\ CallsEnd /\ Stages
  BY DEF PresenceInv
<1>1. /\ conn' = [conn EXCEPT ![c] = r] /\ conn[c].at = "none"
      /\ guests' = IF ok /\ ~isMember THEN guests \cup {f} ELSE guests
      /\ overlapped' = IF ok /\ \E d \in Conns : Presence!Open(d) /\ conn[d].feed = f
                       THEN overlapped \cup {f} ELSE overlapped
      /\ UNCHANGED << call, attendants, peers, registry, rows, late >>
  BY DEF Presence!ConnAccept
<1>2. /\ r \in ConnRecs /\ r.at = (IF ok THEN "register" ELSE "closed") /\ r.feed = f
      /\ r.isMember = isMember /\ r.up = ok
  BY DEF ConnRecs, Places, Everyone
<1>3. /\ conn' \in [Conns -> ConnRecs] /\ conn'[c] = r
      /\ \A d \in Conns \ {c} : conn'[d] = conn[d]
  BY <1>0, <1>1, <1>2 DEF PresenceTypeOK
<1>4. PresenceTypeOK'
  BY <1>0, <1>1, <1>3 DEF PresenceTypeOK
<1> HIDE DEF r
<1>5. CallsEnd'
  BY <1>0, <1>1, <1>2, <1>3 DEF CallsEnd, Ended
<1>6. Stages'
  <2> SUFFICES ASSUME NEW g \in Identities, Plain(g)' PROVE Alone(g)' /\ Placed(g)'
    BY DEF Stages
  <2>1. Plain(g) /\ Alone(g) /\ Placed(g)
    BY <1>0, <1>1 DEF Stages, Plain
  <2>2. ~Presence!Open(c) /\ (Presence!Open(c)' <=> ok)
        /\ \A d \in Conns \ {c} : Presence!Open(d)' = Presence!Open(d)
    BY <1>1, <1>2, <1>3 DEF Presence!Open
  <2>3. /\ \A a \in Conns, at \in Places : Stage(g, a, at)' = Stage(g, a, at)
        /\ Gone(g)' = Gone(g)
    BY <1>1 DEF Stage, Gone
  <2>4. \A a \in Conns : conn[a].at \in Places
    BY <1>0 DEF PresenceTypeOK, ConnRecs
  <2>5. CASE ok /\ f = g
    <3>1. isMember /\ \A d \in Conns : ~(Presence!Open(d) /\ conn[d].feed = g)
      BY <1>1, <2>5 DEF Plain
    <3>2. Stage(g, c, "register")
      BY <3>1, <2>1 DEF Placed, Gone, Stage, Ended
    <3>3. Stage(g, c, "register")'
      BY <3>2, <2>3 DEF Places
    <3> QED
      BY <3>1, <3>3, <2>2, <1>2, <1>3, <2>5 DEF Alone, Placed
  <2>6. CASE ~(ok /\ f = g)
    <3>1. Alone(g)'
      BY <2>1, <2>2, <2>6, <1>2, <1>3 DEF Alone
    <3>2. Placed(g)'
      BY <2>1, <2>2, <2>3, <2>4, <2>6, <1>2, <1>3 DEF Placed
    <3> QED
      BY <3>1, <3>2
  <2> QED
    BY <2>5, <2>6
<1> QED
  BY <1>4, <1>5, <1>6 DEF PresenceInv

\* The step leaves alone what the room has of a feed.
Same(g) ==
    /\ g \in attendants' <=> g \in attendants
    /\ g \in peers' <=> g \in peers
    /\ g \in rows'["attendants"] <=> g \in rows["attendants"]
    /\ g \in rows'["endpoints"] <=> g \in rows["endpoints"]
    /\ registry'[g] = registry[g]

\* A step of an open connection touches what the room has of its own feed only; when that is
\* right for the connection's new place, presence follows.
LEMMA MovesPresence ==
  ASSUME PresenceInv, NEW c \in Conns, NEW at \in Places \ {"none", "register"},
         conn[c].at \notin {"none", "closed"}, Presence!To(c, at), NEW f, f = conn[c].feed,
         call' = call, overlapped' = overlapped, guests' = guests, late \subseteq late',
         attendants' \subseteq Identities, peers' \subseteq Identities,
         registry' \in [Identities -> Conns \cup {0}],
         rows' \in [{"attendants", "endpoints"} -> SUBSET Identities],
         at \in {"unpeer"} \cup Ended => ~conn[c].up,
         call[c] # "none" /\ at \in Ended => f \in late' \cup guests',
         \A g \in Identities \ {f} : Same(g),
         f \in Identities /\ Plain(f)' /\ conn[c].isMember
            /\ Stage(f, c, conn[c].at) =>
               IF at = "closed" THEN Gone(f)' ELSE Stage(f, c, at)'
  PROVE  PresenceInv'
<1>0. PresenceTypeOK /\ CallsEnd /\ Stages
  BY DEF PresenceInv
<1>1. /\ conn' \in [Conns -> ConnRecs] /\ \A d \in Conns \ {c} : conn'[d] = conn[d]
      /\ conn'[c].at = at /\ conn'[c].feed = f
      /\ conn'[c].isMember = conn[c].isMember /\ conn'[c].up = conn[c].up
  BY <1>0, ConnMoves
<1>2. PresenceTypeOK'
  BY <1>1, <1>0 DEF PresenceTypeOK
<1>3. CallsEnd'
  BY <1>1, <1>0 DEF CallsEnd
<1>4. ASSUME NEW g \in Identities, Plain(g)' PROVE Alone(g)' /\ Placed(g)'
  <2>1. Plain(g) /\ Alone(g) /\ Placed(g)
    BY <1>0, <1>4 DEF Stages, Plain
  <2>2. /\ \A d \in Conns \ {c} : Presence!Open(d)' = Presence!Open(d)
        /\ Presence!Open(c) /\ (Presence!Open(c)' <=> at # "closed")
    BY <1>1 DEF Presence!Open
  <2>3. Alone(g)'
    BY <2>1, <2>2, <1>1 DEF Alone
  <2>4. Placed(g)'
    <3>1. CASE g # f
      <4>1. \A a \in Conns, p \in Places : Stage(g, a, p)' = Stage(g, a, p)
        BY <3>1 DEF Stage, Same
      <4>2. Gone(g)' = Gone(g)
        BY <3>1 DEF Gone, Same
      <4>3. \A a \in Conns : conn[a].at \in Places
        BY <1>0 DEF PresenceTypeOK, ConnRecs
      <4> QED
        BY <2>1, <2>2, <3>1, <4>1, <4>2, <4>3, <1>1 DEF Placed
    <3>2. CASE g = f
      <4>1. conn[c].isMember /\ Stage(g, c, conn[c].at)
            /\ \A a \in Conns \ {c} : ~(Presence!Open(a) /\ conn[a].feed = g)
        BY <2>1, <2>2, <3>2 DEF Alone, Placed
      <4>2. IF at = "closed" THEN Gone(g)' ELSE Stage(g, c, at)'
        BY <4>1, <3>2, <1>4
      <4> QED
        BY <4>1, <4>2, <2>2, <1>1, <3>2 DEF Placed
    <3> QED
      BY <3>1, <3>2
  <2> QED
    BY <2>3, <2>4
<1>5. Stages'
  BY <1>4 DEF Stages
<1> QED
  BY <1>2, <1>3, <1>5 DEF PresenceInv

\* The steps by which a connection's goroutine enters the room and leaves it.
LEMMA ConnPresence ==
  ASSUME PresenceInv, NEW c \in Conns, Presence!ConnStep(c)
  PROVE  PresenceInv'
<1> USE DEF Presence!history
<1>0. PresenceTypeOK /\ CallsEnd
  BY DEF PresenceInv
<1>t. conn[c] \in ConnRecs /\ conn[c].at \in Places /\ conn[c].isMember \in BOOLEAN
  BY <1>0 DEF PresenceTypeOK, ConnRecs
<1>f. PICK f \in Everyone : f = conn[c].feed
  BY <1>t DEF ConnRecs
<1>g. f \in Identities
  BY <1>0, <1>f DEF PresenceTypeOK, Presence!ConnStep, Presence!ConnRegister, Presence!ConnAttend,
     Presence!ConnNotify, Presence!ConnRow, Presence!ConnGone, Presence!ConnUnpeer,
     Presence!ConnDeactivate, Presence!ConnUnregister
<1>1. CASE Presence!ConnRegister(c) /\ conn[c].isMember
  <2>1. /\ conn[c].at = "register" /\ registry' = [registry EXCEPT ![f] = c] /\ Presence!To(c, "attend")
        /\ UNCHANGED << call, attendants, peers, rows, overlapped, guests, late >>
    BY <1>1, <1>t, <1>f DEF Presence!ConnRegister
  <2>2. /\ attendants' \subseteq Identities /\ peers' \subseteq Identities
        /\ registry' \in [Identities -> Conns \cup {0}]
        /\ rows' \in [{"attendants", "endpoints"} -> SUBSET Identities]
        /\ \A g \in Identities \ {f} : Same(g)
    BY <2>1, <1>0, <1>g DEF PresenceTypeOK, Same
  <2>3. conn[c].isMember /\ Stage(f, c, conn[c].at) => Stage(f, c, "attend")'
    BY <2>1, <1>0, <1>g DEF Stage, Gone, Ended, PresenceTypeOK
  <2>4. "attend" \in {"unpeer"} \cup Ended => ~conn[c].up
    BY <2>1, <1>0 DEF CallsEnd, Ended
  <2>5. call[c] # "none" /\ "attend" \in Ended => f \in late' \cup guests'
    BY <2>1, <1>0, <1>f DEF CallsEnd, Ended
  <2> QED
    BY <2>1, <2>2, <2>3, <2>4, <2>5, <1>f, MovesPresence DEF Places
<1>2. CASE Presence!ConnRegister(c) /\ ~conn[c].isMember
  <2>1. /\ conn[c].at = "register" /\ ~conn[c].isMember
        /\ registry' = [registry EXCEPT ![f] = c] /\ Presence!To(c, "serving")
        /\ UNCHANGED << call, attendants, peers, rows, overlapped, guests, late >>
    BY <1>2, <1>t, <1>f DEF Presence!ConnRegister
  <2>2. /\ attendants' \subseteq Identities /\ peers' \subseteq Identities
        /\ registry' \in [Identities -> Conns \cup {0}]
        /\ rows' \in [{"attendants", "endpoints"} -> SUBSET Identities]
        /\ \A g \in Identities \ {f} : Same(g)
    BY <2>1, <1>0, <1>g DEF PresenceTypeOK, Same
  <2>3. conn[c].isMember /\ Stage(f, c, conn[c].at) => Stage(f, c, "serving")'
    BY <2>1, <1>0, <1>g DEF Stage, Gone, Ended, PresenceTypeOK
  <2>4. "serving" \in {"unpeer"} \cup Ended => ~conn[c].up
    BY <2>1, <1>0 DEF CallsEnd, Ended
  <2>5. call[c] # "none" /\ "serving" \in Ended => f \in late' \cup guests'
    BY <2>1, <1>0, <1>f DEF CallsEnd, Ended
  <2> QED
    BY <2>1, <2>2, <2>3, <2>4, <2>5, <1>f, MovesPresence DEF Places
<1>3. CASE Presence!ConnAttend(c)
  <2>1. /\ conn[c].at = "attend" /\ attendants' = attendants \cup {f} /\ Presence!To(c, "notify")
        /\ UNCHANGED << call, peers, registry, rows, overlapped, guests, late >>
    BY <1>3, <1>t, <1>f DEF Presence!ConnAttend, Presence!AddAttendant
  <2>2. /\ attendants' \subseteq Identities /\ peers' \subseteq Identities
        /\ registry' \in [Identities -> Conns \cup {0}]
        /\ rows' \in [{"attendants", "endpoints"} -> SUBSET Identities]
        /\ \A g \in Identities \ {f} : Same(g)
    BY <2>1, <1>0, <1>g DEF PresenceTypeOK, Same
  <2>3. conn[c].isMember /\ Stage(f, c, conn[c].at) => Stage(f, c, "notify")'
    BY <2>1, <1>0, <1>g DEF Stage, Gone, Ended, PresenceTypeOK
  <2>4. "notify" \in {"unpeer"} \cup Ended => ~conn[c].up
    BY <2>1, <1>0 DEF CallsEnd, Ended
  <2>5. call[c] # "none" /\ "notify" \in Ended => f \in late' \cup guests'
    BY <2>1, <1>0, <1>f DEF CallsEnd, Ended
  <2> QED
    BY <2>1, <2>2, <2>3, <2>4, <2>5, <1>f, MovesPresence DEF Places
<1>4. CASE Presence!ConnNotify(c)
  <2>1. /\ conn[c].at = "notify" /\ peers' = peers \cup {f} /\ Presence!To(c, "endpoint row")
        /\ UNCHANGED << call, attendants, registry, rows, overlapped, guests, late >>
    BY <1>4, <1>t, <1>f DEF Presence!ConnNotify, Presence!AddPeer
  <2>2. /\ attendants' \subseteq Identities /\ peers' \subseteq Identities
        /\ registry' \in [Identities -> Conns \cup {0}]
        /\ rows' \in [{"attendants", "endpoints"} -> SUBSET Identities]
        /\ \A g \in Identities \ {f} : Same(g)
    BY <2>1, <1>0, <1>g DEF PresenceTypeOK, Same
  <2>3. conn[c].isMember /\ Stage(f, c, conn[c].at) => Stage(f, c, "endpoint row")'
    BY <2>1, <1>0, <1>g DEF Stage, Gone, Ended, PresenceTypeOK
  <2>4. "endpoint row" \in {"unpeer"} \cup Ended => ~conn[c].up
    BY <2>1, <1>0 DEF CallsEnd, Ended
  <2>5. call[c] # "none" /\ "endpoint row" \in Ended => f \in late' \cup guests'
    BY <2>1, <1>0, <1>f DEF CallsEnd, Ended
  <2> QED
    BY <2>1, <2>2, <2>3, <2>4, <2>5, <1>f, MovesPresence DEF Places
<1>5. CASE Presence!ConnRow(c) /\ conn[c].at = "endpoint row"
  <2>1. /\ conn[c].at = "endpoint row" /\ Presence!To(c, "attendant row")
        /\ rows' = [rows EXCEPT !["endpoints"] = @ \cup {f}]
        /\ UNCHANGED << call, attendants, peers, registry, overlapped, guests, late >>
    BY <1>5, <1>t, <1>f DEF Presence!ConnRow
  <2>2. /\ attendants' \subseteq Identities /\ peers' \subseteq Identities
        /\ registry' \in [Identities -> Conns \cup {0}]
        /\ rows' \in [{"attendants", "endpoints"} -> SUBSET Identities]
        /\ \A g \in Identities \ {f} : Same(g)
    BY <2>1, <1>0, <1>g DEF PresenceTypeOK, Same
  <2>3. conn[c].isMember /\ Stage(f, c, conn[c].at) => Stage(f, c, "attendant row")'
    BY <2>1, <1>0, <1>g DEF Stage, Gone, Ended, PresenceTypeOK
  <2>4. "attendant row" \in {"unpeer"} \cup Ended => ~conn[c].up
    BY <2>1, <1>0 DEF CallsEnd, Ended
  <2>5. call[c] # "none" /\ "attendant row" \in Ended => f \in late' \cup guests'
    BY <2>1, <1>0, <1>f DEF CallsEnd, Ended
  <2> QED
    BY <2>1, <2>2, <2>3, <2>4, <2>5, <1>f, MovesPresence DEF Places
<1>6. CASE Presence!ConnRow(c) /\ conn[c].at # "endpoint row"
  <2>1. /\ conn[c].at = "attendant row" /\ Presence!To(c, "serving")
        /\ rows' = [rows EXCEPT !["attendants"] = @ \cup {f}]
        /\ UNCHANGED << call, attendants, peers, registry, overlapped, guests, late >>
    BY <1>6, <1>t, <1>f DEF Presence!ConnRow
  <2>2. /\ attendants' \subseteq Identities /\ peers' \subseteq Identities
        /\ registry' \in [Identities -> Conns \cup {0}]
        /\ rows' \in [{"attendants", "endpoints"} -> SUBSET Identities]
        /\ \A g \in Identities \ {f} : Same(g)
    BY <2>1, <1>0, <1>g DEF PresenceTypeOK, Same
  <2>3. conn[c].isMember /\ Stage(f, c, conn[c].at) => Stage(f, c, "serving")'
    BY <2>1, <1>0, <1>g DEF Stage, Gone, Ended, PresenceTypeOK
  <2>4. "serving" \in {"unpeer"} \cup Ended => ~conn[c].up
    BY <2>1, <1>0 DEF CallsEnd, Ended
  <2>5. call[c] # "none" /\ "serving" \in Ended => f \in late' \cup guests'
    BY <2>1, <1>0, <1>f DEF CallsEnd, Ended
  <2> QED
    BY <2>1, <2>2, <2>3, <2>4, <2>5, <1>f, MovesPresence DEF Places
<1>7. CASE Presence!ConnGone(c) /\ conn[c].isMember
  <2>1. /\ conn[c].at = "serving" /\ ~conn[c].up /\ attendants' = attendants \ {f}
        /\ Presence!To(c, "unpeer")
        /\ UNCHANGED << call, peers, registry, rows, overlapped, guests, late >>
    BY <1>7, <1>t, <1>f DEF Presence!ConnGone, Presence!RemoveAttendant
  <2>2. /\ attendants' \subseteq Identities /\ peers' \subseteq Identities
        /\ registry' \in [Identities -> Conns \cup {0}]
        /\ rows' \in [{"attendants", "endpoints"} -> SUBSET Identities]
        /\ \A g \in Identities \ {f} : Same(g)
    BY <2>1, <1>0, <1>g DEF PresenceTypeOK, Same
  <2>3. conn[c].isMember /\ Stage(f, c, conn[c].at) => Stage(f, c, "unpeer")'
    BY <2>1, <1>0, <1>g DEF Stage, Gone, Ended, PresenceTypeOK
  <2>4. "unpeer" \in {"unpeer"} \cup Ended => ~conn[c].up
    BY <2>1, <1>0 DEF CallsEnd, Ended
  <2>5. call[c] # "none" /\ "unpeer" \in Ended => f \in late' \cup guests'
    BY <2>1, <1>0, <1>f DEF CallsEnd, Ended
  <2> QED
    BY <2>1, <2>2, <2>3, <2>4, <2>5, <1>f, MovesPresence DEF Places
<1>8. CASE Presence!ConnGone(c) /\ ~conn[c].isMember
  <2>1. /\ conn[c].at = "serving" /\ ~conn[c].up /\ ~conn[c].isMember /\ Presence!To(c, "closed")
        /\ UNCHANGED << call, attendants, peers, registry, rows, overlapped, guests, late >>
    BY <1>8, <1>t, <1>f DEF Presence!ConnGone
  <2>2. /\ attendants' \subseteq Identities /\ peers' \subseteq Identities
        /\ registry' \in [Identities -> Conns \cup {0}]
        /\ rows' \in [{"attendants", "endpoints"} -> SUBSET Identities]
        /\ \A g \in Identities \ {f} : Same(g)
    BY <2>1, <1>0, <1>g DEF PresenceTypeOK, Same
  <2>3. conn[c].isMember /\ Stage(f, c, conn[c].at) => Gone(f)'
    BY <2>1, <1>0, <1>g DEF Stage, Gone, Ended, PresenceTypeOK
  <2>4. "closed" \in {"unpeer"} \cup Ended => ~conn[c].up
    BY <2>1, <1>0 DEF CallsEnd, Ended
  <2>5. call[c] # "none" /\ "closed" \in Ended => f \in late' \cup guests'
    BY <2>1, <1>0, <1>f DEF CallsEnd, Ended
  <2> QED
    BY <2>1, <2>2, <2>3, <2>4, <2>5, <1>f, MovesPresence DEF Places
<1>9. CASE Presence!ConnUnpeer(c)
  <2>1. /\ conn[c].at = "unpeer" /\ peers' = peers \ {f} /\ Presence!To(c, "off attendants")
        /\ late' = (IF call[c] # "none" THEN late \cup {f} ELSE late)
        /\ UNCHANGED << call, attendants, registry, rows, overlapped, guests >>
    BY <1>9, <1>t, <1>f DEF Presence!ConnUnpeer, Presence!RemovePeer
  <2>2. /\ attendants' \subseteq Identities /\ peers' \subseteq Identities
        /\ registry' \in [Identities -> Conns \cup {0}]
        /\ rows' \in [{"attendants", "endpoints"} -> SUBSET Identities]
        /\ \A g \in Identities \ {f} : Same(g)
    BY <2>1, <1>0, <1>g DEF PresenceTypeOK, Same
  <2>3. conn[c].isMember /\ Stage(f, c, conn[c].at) => Stage(f, c, "off attendants")'
    BY <2>1, <1>0, <1>g DEF Stage, Gone, Ended, PresenceTypeOK
  <2>4. "off attendants" \in {"unpeer"} \cup Ended => ~conn[c].up
    BY <2>1, <1>0 DEF CallsEnd, Ended
  <2>5. call[c] # "none" /\ "off attendants" \in Ended => f \in late' \cup guests'
    BY <2>1, <1>0, <1>f DEF CallsEnd, Ended
  <2> QED
    BY <2>1, <2>2, <2>3, <2>4, <2>5, <1>f, MovesPresence DEF Places
<1>10. CASE Presence!ConnDeactivate(c) /\ conn[c].at = "off attendants"
  <2>1. /\ conn[c].at = "off attendants" /\ Presence!To(c, "off endpoints")
        /\ rows' = [rows EXCEPT !["attendants"] = @ \ {f}]
        /\ UNCHANGED << call, attendants, peers, registry, overlapped, guests, late >>
    BY <1>10, <1>t, <1>f DEF Presence!ConnDeactivate
  <2>2. /\ attendants' \subseteq Identities /\ peers' \subseteq Identities
        /\ registry' \in [Identities -> Conns \cup {0}]
        /\ rows' \in [{"attendants", "endpoints"} -> SUBSET Identities]
        /\ \A g \in Identities \ {f} : Same(g)
    BY <2>1, <1>0, <1>g DEF PresenceTypeOK, Same
  <2>3. conn[c].isMember /\ Stage(f, c, conn[c].at) => Stage(f, c, "off endpoints")'
    BY <2>1, <1>0, <1>g DEF Stage, Gone, Ended, PresenceTypeOK
  <2>4. "off endpoints" \in {"unpeer"} \cup Ended => ~conn[c].up
    BY <2>1, <1>0 DEF CallsEnd, Ended
  <2>5. call[c] # "none" /\ "off endpoints" \in Ended => f \in late' \cup guests'
    BY <2>1, <1>0, <1>f DEF CallsEnd, Ended
  <2> QED
    BY <2>1, <2>2, <2>3, <2>4, <2>5, <1>f, MovesPresence DEF Places
<1>11. CASE Presence!ConnDeactivate(c) /\ conn[c].at # "off attendants"
  <2>1. /\ conn[c].at = "off endpoints" /\ Presence!To(c, "unregister")
        /\ rows' = [rows EXCEPT !["endpoints"] = @ \ {f}]
        /\ UNCHANGED << call, attendants, peers, registry, overlapped, guests, late >>
    BY <1>11, <1>t, <1>f DEF Presence!ConnDeactivate
  <2>2. /\ attendants' \subseteq Identities /\ peers' \subseteq Identities
        /\ registry' \in [Identities -> Conns \cup {0}]
        /\ rows' \in [{"attendants", "endpoints"} -> SUBSET Identities]
        /\ \A g \in Identities \ {f} : Same(g)
    BY <2>1, <1>0, <1>g DEF PresenceTypeOK, Same
  <2>3. conn[c].isMember /\ Stage(f, c, conn[c].at) => Stage(f, c, "unregister")'
    BY <2>1, <1>0, <1>g DEF Stage, Gone, Ended, PresenceTypeOK
  <2>4. "unregister" \in {"unpeer"} \cup Ended => ~conn[c].up
    BY <2>1, <1>0 DEF CallsEnd, Ended
  <2>5. call[c] # "none" /\ "unregister" \in Ended => f \in late' \cup guests'
    BY <2>1, <1>0, <1>f DEF CallsEnd, Ended
  <2> QED
    BY <2>1, <2>2, <2>3, <2>4, <2>5, <1>f, MovesPresence DEF Places
<1>12. CASE Presence!ConnUnregister(c)
  <2>1. /\ conn[c].at = "unregister" /\ registry' = [registry EXCEPT ![f] = 0] /\ Presence!To(c, "closed")
        /\ UNCHANGED << call, attendants, peers, rows, overlapped, guests, late >>
    BY <1>12, <1>t, <1>f DEF Presence!ConnUnregister
  <2>2. /\ attendants' \subseteq Identities /\ peers' \subseteq Identities
        /\ registry' \in [Identities -> Conns \cup {0}]
        /\ rows' \in [{"attendants", "endpoints"} -> SUBSET Identities]
        /\ \A g \in Identities \ {f} : Same(g)
    BY <2>1, <1>0, <1>g DEF PresenceTypeOK, Same
  <2>3. conn[c].isMember /\ Stage(f, c, conn[c].at) => Gone(f)'
    BY <2>1, <1>0, <1>g DEF Stage, Gone, Ended, PresenceTypeOK
  <2>4. "closed" \in {"unpeer"} \cup Ended => ~conn[c].up
    BY <2>1, <1>0 DEF CallsEnd, Ended
  <2>5. call[c] # "none" /\ "closed" \in Ended => f \in late' \cup guests'
    BY <2>1, <1>0, <1>f DEF CallsEnd, Ended
  <2> QED
    BY <2>1, <2>2, <2>3, <2>4, <2>5, <1>f, MovesPresence DEF Places
<1> QED
  BY <1>1, <1>2, <1>3, <1>4, <1>5, <1>6, <1>7, <1>8, <1>9, <1>10, <1>11, <1>12
     DEF Presence!ConnStep

\* Steps that touch neither the connections nor what the room has.
LEMMA StillPresence ==
  ASSUME Stages, UNCHANGED << conn, attendants, peers, registry, rows, overlapped, guests, late >>
  PROVE  Stages'
<1> SUFFICES ASSUME NEW f \in Identities, Plain(f)' PROVE Alone(f)' /\ Placed(f)'
  BY DEF Stages
<1>1. Plain(f) /\ Alone(f) /\ Placed(f)
  BY DEF Plain, Stages
<1>2. \A c \in Conns : Presence!Open(c)' = Presence!Open(c)
  BY DEF Presence!Open
<1>3. Gone(f)' = Gone(f)
  BY DEF Gone
<1>4. ASSUME NEW c \in Conns PROVE Stage(f, c, conn[c].at) => Stage(f, c, conn[c].at)'
  BY DEF Stage
<1> QED
  BY <1>1, <1>2, <1>3, <1>4 DEF Alone, Placed

\* A lost connection changes nothing of what the room has.
LEMMA LostPresence ==
  ASSUME PresenceInv, NEW c \in Conns, Presence!ConnLost(c)
  PROVE  PresenceInv'
<1>0. PresenceTypeOK /\ CallsEnd /\ Stages
  BY DEF PresenceInv
<1>1. /\ Presence!Open(c) /\ conn' = [conn EXCEPT ![c].up = FALSE]
      /\ UNCHANGED << call, attendants, peers, registry, rows, overlapped, guests, late >>
  BY DEF Presence!ConnLost, Presence!history
<1>2. PICK r \in ConnRecs : /\ r = [conn[c] EXCEPT !.up = FALSE]
                            /\ r.at = conn[c].at /\ r.feed = conn[c].feed
                            /\ r.isMember = conn[c].isMember /\ r.up = FALSE
  <2>1. conn[c] \in ConnRecs
    BY <1>0 DEF PresenceTypeOK
  <2>2. \A s \in ConnRecs : /\ [s EXCEPT !.up = FALSE] \in ConnRecs
                            /\ [s EXCEPT !.up = FALSE].at = s.at
                            /\ [s EXCEPT !.up = FALSE].feed = s.feed
                            /\ [s EXCEPT !.up = FALSE].isMember = s.isMember
                            /\ [s EXCEPT !.up = FALSE].up = FALSE
    BY DEF ConnRecs
  <2> QED
    BY <2>1, <2>2
<1>3. /\ conn' \in [Conns -> ConnRecs] /\ \A d \in Conns \ {c} : conn'[d] = conn[d]
      /\ conn'[c].at = conn[c].at /\ conn'[c].feed = conn[c].feed
      /\ conn'[c].isMember = conn[c].isMember /\ ~conn'[c].up
  BY <1>0, <1>1, <1>2 DEF PresenceTypeOK
<1>4. PresenceTypeOK' /\ CallsEnd'
  BY <1>0, <1>1, <1>3 DEF PresenceTypeOK, CallsEnd
<1>5. \A d \in Conns : /\ conn'[d].at = conn[d].at /\ conn'[d].feed = conn[d].feed
                       /\ conn'[d].isMember = conn[d].isMember
                       /\ Presence!Open(d)' = Presence!Open(d)
  BY <1>3 DEF Presence!Open
<1>6. ASSUME NEW g \in Identities, Plain(g)' PROVE Alone(g)' /\ Placed(g)'
  <2>1. Plain(g) /\ Alone(g) /\ Placed(g)
    BY <1>0, <1>1, <1>6 DEF Stages, Plain
  <2>2. /\ \A a \in Conns, at \in Places : Stage(g, a, at)' = Stage(g, a, at)
        /\ Gone(g)' = Gone(g)
    BY <1>1 DEF Stage, Gone
  <2>3. \A a \in Conns : conn[a].at \in Places
    BY <1>0 DEF PresenceTypeOK, ConnRecs
  <2> QED
    BY <2>1, <2>2, <2>3, <1>5 DEF Alone, Placed
<1> QED
  BY <1>4, <1>6 DEF PresenceInv, Stages

\* tunnel.announce and tunnel.leave change nothing that presence speaks of while their
\* connection lasts, and their feed is late when they outlive it.
LEMMA CallPresence ==
  ASSUME PresenceInv, NEW c \in Conns,
         Presence!CallStep(c) \/ \E what \in {"announce", "leave"} : Presence!CallBegins(c, what)
  PROVE  PresenceInv'
<1> USE DEF Presence!history
<1>0. PresenceTypeOK /\ CallsEnd /\ Stages
  BY DEF PresenceInv
<1>1. CASE \E what \in {"announce", "leave"} : Presence!CallBegins(c, what)
  <2>1. PICK what \in {"announce", "leave"} : Presence!CallBegins(c, what)
    BY <1>1
  <2>2. /\ Presence!Open(c) /\ conn[c].at # "register" /\ conn[c].up
        /\ call' = [call EXCEPT ![c] = what]
        /\ UNCHANGED << conn, attendants, peers, registry, rows, overlapped, guests, late >>
    BY <2>1 DEF Presence!CallBegins
  <2>3. PresenceTypeOK'
    BY <2>2, <1>0 DEF PresenceTypeOK, Handlers
  <2>4. CallsEnd'
    BY <2>2, <1>0 DEF CallsEnd, PresenceTypeOK, Presence!Open
  <2>5. Stages'
    BY <2>2, <1>0, StillPresence
  <2> QED
    BY <2>3, <2>4, <2>5 DEF PresenceInv
<1>2. CASE Presence!CallStep(c)
  <2>f. PICK f \in Identities : f = conn[c].feed
    BY <1>2, <1>0 DEF Presence!CallStep, Presence!HandleAnnounce, Presence!HandleLeave,
       Presence!CallRow, PresenceTypeOK, CallsEnd
  <2>1. PICK next \in Handlers :
           /\ call[c] # "none" /\ call' = [call EXCEPT ![c] = next]
           /\ UNCHANGED << conn, attendants, registry, overlapped, guests, late >>
    BY <1>2 DEF Presence!CallStep, Presence!HandleAnnounce, Presence!HandleLeave,
       Presence!CallRow, Handlers
  <2>2. /\ peers' \in {peers, peers \cup {f}, peers \ {f}}
        /\ rows' \in {rows, [rows EXCEPT !["endpoints"] = @ \cup {f}], [rows EXCEPT !["endpoints"] = @ \ {f}]}
    BY <1>2, <2>f DEF Presence!CallStep, Presence!HandleAnnounce, Presence!HandleLeave,
       Presence!CallRow, Presence!AddPeer, Presence!RemovePeer
  <2>3. PresenceTypeOK'
    BY <2>1, <2>2, <1>0 DEF PresenceTypeOK
  <2>4. CallsEnd'
    BY <2>1, <1>0 DEF CallsEnd, PresenceTypeOK
  <2>5. ASSUME NEW g \in Identities, Plain(g)' PROVE Alone(g)' /\ Placed(g)'
    <3>1. Plain(g) /\ Alone(g) /\ Placed(g)
      BY <1>0, <2>1, <2>5 DEF Stages, Plain
    <3>2. Alone(g)' /\ \A a \in Conns : Presence!Open(a)' = Presence!Open(a)
      BY <2>1, <3>1 DEF Alone, Presence!Open
    <3>3. CASE g # f
      <4>0. Same(g)
        BY <2>1, <2>2, <3>3, <1>0 DEF Same, PresenceTypeOK
      <4>1. /\ \A a \in Conns, at \in Places : Stage(g, a, at)' = Stage(g, a, at)
            /\ Gone(g)' = Gone(g)
        BY <4>0 DEF Same, Stage, Gone
      <4>2. \A a \in Conns : conn[a].at \in Places
        BY <1>0 DEF PresenceTypeOK, ConnRecs
      <4> QED
        BY <3>1, <3>2, <4>1, <4>2, <2>1 DEF Placed
    <3>4. CASE g = f
      <4>1. conn[c].at \notin {"none", "register"} \cup Ended
        BY <2>1, <2>f, <3>1, <3>4, <1>0 DEF CallsEnd, Plain
      <4>2. Presence!Open(c)
        BY <4>1 DEF Presence!Open, Ended
      <4>3. Stage(g, c, conn[c].at)
        BY <4>2, <3>1, <3>4, <2>f DEF Placed
      <4>4. Stage(g, c, conn[c].at)'
        BY <4>1, <4>3, <2>1, <2>2, <1>0 DEF Stage, PresenceTypeOK, Ended
      <4>5. \A a \in Conns \ {c} : ~(Presence!Open(a) /\ conn[a].feed = g)
        BY <4>2, <3>1, <3>4, <2>f DEF Alone
      <4> QED
        BY <4>2, <4>4, <4>5, <3>1, <3>2, <3>4, <2>1, <2>f DEF Placed
    <3> QED
      BY <3>3, <3>4
  <2> QED
    BY <2>3, <2>4, <2>5 DEF PresenceInv, Stages
<1> QED
  BY <1>1, <1>2

\* Every step of the room, of its database and of the process keeps presence right.
LEMMA NextPresence == PresenceInv /\ [RoomNext]_<< part, sharedVars, presenceVars, databaseVars, vars >> => PresenceInv'
<1> SUFFICES ASSUME PresenceInv, [RoomNext]_<< part, sharedVars, presenceVars, databaseVars, vars >>
             PROVE  PresenceInv'
  OBVIOUS
<1> DEFINE kept == << conn, call, attendants, peers, registry, rows, overlapped, guests, late >>
<1>1. CASE UNCHANGED kept
  <2>1. PresenceTypeOK' /\ CallsEnd'
    BY <1>1 DEF PresenceInv, PresenceTypeOK, CallsEnd
  <2>2. Stages'
    BY <1>1, StillPresence DEF PresenceInv
  <2> QED
    BY <2>1, <2>2 DEF PresenceInv
<1>2. CASE Presence!Next
  <2>1. ASSUME NEW c \in Conns, NEW f \in Identities, Presence!ConnAccept(c, f) PROVE PresenceInv'
    BY <2>1, AcceptPresence
  <2>2. ASSUME NEW c \in Conns, Presence!ConnStep(c) PROVE PresenceInv'
    BY <2>2, ConnPresence
  <2>3. ASSUME NEW c \in Conns, Presence!ConnLost(c) PROVE PresenceInv'
    BY <2>3, LostPresence
  <2>4. ASSUME NEW c \in Conns,
               Presence!CallStep(c) \/ \E what \in {"announce", "leave"} : Presence!CallBegins(c, what)
        PROVE  PresenceInv'
    BY <2>4, CallPresence
  <2>5. ASSUME NEW f \in Identities, Presence!ChangeMembers(f) \/ Presence!Deny(f) PROVE UNCHANGED kept
    BY <2>5 DEF Presence!ChangeMembers, Presence!Deny, Presence!history
  <2>6. ASSUME NEW kind \in Presence!Streams, NEW f \in Identities, Presence!Subscribe(kind, f)
        PROVE  UNCHANGED kept
    BY <2>6 DEF Presence!Subscribe, Presence!notStream, Presence!history
  <2>7. Presence!StreamResync \/ Presence!StreamEvent \/ Presence!StreamEnd => UNCHANGED kept
    BY DEF Presence!StreamResync, Presence!StreamEvent, Presence!StreamEnd, Presence!notStream,
       Presence!history
  <2> HIDE DEF kept
  <2> QED
    BY <1>1, <1>2, <2>1, <2>2, <2>3, <2>4, <2>5, <2>6, <2>7 DEF Presence!Next
<1> QED
  BY <1>1, <1>2 DEF RoomNext, presenceVars

\* A feed's place gives what PresenceFollows says of it.
LEMMA PresenceImplies == PresenceInv => PresenceFollows
<1> SUFFICES ASSUME PresenceInv, NEW f \in Identities \ (overlapped \cup guests \cup late)
             PROVE  LET mine == {c \in Conns : Presence!Open(c) /\ conn[c].feed = f}
                        calls == {c \in Conns : conn[c].feed = f /\ call[c] # "none"} IN
                    /\ \A c \in mine : conn[c].at = "serving" =>
                          f \in attendants /\ registry[f] = c /\ f \in rows["attendants"]
                    /\ mine = {} /\ calls = {} =>
                          /\ f \notin attendants \cup peers \cup rows["attendants"] \cup rows["endpoints"]
                          /\ registry[f] = 0
  BY DEF PresenceFollows, Presence!PresenceFollows
<1>1. Placed(f)
  BY DEF PresenceInv, Stages, Plain
<1>2. \A c \in Conns : Presence!Open(c) /\ conn[c].feed = f /\ conn[c].at = "serving" =>
         f \in attendants /\ registry[f] = c /\ f \in rows["attendants"]
  BY <1>1 DEF Placed, Stage
<1>3. (\A c \in Conns : ~(Presence!Open(c) /\ conn[c].feed = f)) => Gone(f)
  BY <1>1 DEF Placed
<1> QED
  BY <1>2, <1>3 DEF Gone

\* Presence follows the connections: in every state of the room, for any number of
\* identities and connections, a member that is served attends, is registered and has its
\* row, and when its connection has ended nothing of it is left; if it never had two
\* connections at a time, was never a guest and no call outlived its connection.
THEOREM PresenceIsRight == RoomSpec => []PresenceFollows
<1>1. RoomSpec => []PresenceInv
  BY InitPresence, NextPresence, PTL DEF RoomSpec
<1> QED
  BY <1>1, PresenceImplies, PTL
-----------------------------------------------------------------------------
(* The streams of the room                                                   *)

\* An event about f, and the last one about f in a channel.
About(e, f) == e.type # "resync" /\ e.id = f
LastAbout(q, i, f) == About(q[i], f) /\ \A j \in DOMAIN q : j > i => ~About(q[j], f)

\* What is still in the channel brings the view to what the room has: of each feed, the last
\* event that is queued, or, when none is and no resync is due, the view.
CatchesUp(s, ids) ==
    ~s.dropped => \A f \in Presence!Shown(s.kind, Identities) :
        /\ \A i \in DOMAIN s.queue :
              LastAbout(s.queue, i, f) => (s.queue[i].type = "joined" <=> f \in ids)
        /\ s.at = "loop" /\ (\A i \in DOMAIN s.queue : s.queue[i].type # "resync"
                                                       /\ ~About(s.queue[i], f))
              => (f \in s.view <=> f \in ids)

StreamRecs ==
    [kind : {"none", "attendants", "endpoints"}, at : {"off", "loop", "resync"},
     queue : Seq(Events), view : SUBSET Identities, dropped : BOOLEAN]
StreamTypeOK ==
    /\ stream \in StreamRecs
    /\ stream.at = "off" <=> stream.kind = "none"
    /\ stream.view \subseteq Presence!Shown(stream.kind, Identities)
    /\ stream.at = "resync" => stream.kind = "attendants"
    /\ \A i \in DOMAIN stream.queue :
          stream.queue[i].type = "resync" => stream.kind = "attendants"

StreamInv ==
    /\ attendants \subseteq Identities /\ peers \subseteq Identities
    /\ StreamTypeOK
    /\ stream.kind # "none" => CatchesUp(stream, Presence!Watched(stream.kind))

\* Nobody reads the room's streams at first.
LEMMA InitStream == RoomInit => StreamInv
<1> SUFFICES ASSUME RoomInit PROVE StreamInv
  OBVIOUS
<1>1. attendants = {} /\ peers = {} /\ stream = Presence!Off
  BY DEF RoomInit, Presence!Init
<1> QED
  BY <1>1 DEF Presence!Off, StreamInv, StreamTypeOK, StreamRecs, Presence!Shown

\* An event is put in the channel of a stream: its feed is now in the watched set, or not.
LEMMA PushCatchesUp ==
  ASSUME NEW s \in StreamRecs, NEW t \in StreamRecs, NEW e \in Events, e.type # "resync",
         NEW ids, NEW newer,
         \A f \in Identities \ {e.id} : f \in newer <=> f \in ids,
         e.id \in newer <=> e.type = "joined",
         t.kind = s.kind, t.at = s.at, t.view = s.view, t.dropped = s.dropped,
         t.queue = Append(s.queue, e),
         CatchesUp(s, ids)
  PROVE  CatchesUp(t, newer)
<1> SUFFICES ASSUME ~t.dropped, NEW f \in Presence!Shown(t.kind, Identities)
             PROVE  /\ \A i \in DOMAIN t.queue :
                          LastAbout(t.queue, i, f) => (t.queue[i].type = "joined" <=> f \in newer)
                    /\ t.at = "loop" /\ (\A i \in DOMAIN t.queue : t.queue[i].type # "resync"
                                                                   /\ ~About(t.queue[i], f))
                          => (f \in t.view <=> f \in newer)
  BY DEF CatchesUp
<1>1. f \in Identities
  BY DEF Presence!Shown
<1>2. s.queue \in Seq(Events)
  BY DEF StreamRecs
<1>3. /\ DOMAIN s.queue = 1..Len(s.queue) /\ Len(s.queue) \in Nat
      /\ DOMAIN t.queue = 1..(Len(s.queue) + 1)
      /\ \A i \in 1..Len(s.queue) : t.queue[i] = s.queue[i]
      /\ t.queue[Len(s.queue) + 1] = e
  BY <1>2
<1>4. /\ \A i \in DOMAIN s.queue :
            LastAbout(s.queue, i, f) => (s.queue[i].type = "joined" <=> f \in ids)
      /\ s.at = "loop" /\ (\A i \in DOMAIN s.queue : s.queue[i].type # "resync"
                                                     /\ ~About(s.queue[i], f))
            => (f \in s.view <=> f \in ids)
  BY DEF CatchesUp
<1>5. CASE e.id = f
  <2>1. About(t.queue[Len(s.queue) + 1], f)
    BY <1>3, <1>5 DEF About
  <2> QED
    BY <2>1, <1>3, <1>5 DEF LastAbout
<1>6. CASE e.id # f
  <2>1. ~About(t.queue[Len(s.queue) + 1], f) /\ (f \in newer <=> f \in ids)
    BY <1>1, <1>3, <1>6 DEF About
  <2>2. \A i \in DOMAIN t.queue : LastAbout(t.queue, i, f) =>
           i \in DOMAIN s.queue /\ LastAbout(s.queue, i, f)
    BY <2>1, <1>3 DEF LastAbout
  <2>3. (\A i \in DOMAIN t.queue : t.queue[i].type # "resync" /\ ~About(t.queue[i], f))
           => \A i \in DOMAIN s.queue : s.queue[i].type # "resync" /\ ~About(s.queue[i], f)
    BY <1>3
  <2> QED
    BY <2>1, <2>2, <2>3, <1>3, <1>4
<1> QED
  BY <1>5, <1>6

\* A resync in the place of everything that was queued.
LEMMA ResyncCatchesUp ==
  ASSUME NEW s \in StreamRecs, s.queue = << [type |-> "resync"] >>, NEW ids
  PROVE  CatchesUp(s, ids)
<1>1. DOMAIN s.queue = {1} /\ s.queue[1].type = "resync"
  OBVIOUS
<1> QED
  BY <1>1 DEF CatchesUp, LastAbout, About

\* A change of a channel, and nothing else of the stream.
LEMMA QueueChange ==
  ASSUME NEW s \in StreamRecs, NEW q \in Seq(Events)
  PROVE  LET t == [s EXCEPT !.queue = q] IN
         /\ t \in StreamRecs /\ t.queue = q
         /\ t.kind = s.kind /\ t.at = s.at /\ t.view = s.view /\ t.dropped = s.dropped
BY DEF StreamRecs

\* The reader takes an event about a feed, and its view follows.
LEMMA PopCatchesUp ==
  ASSUME NEW s \in StreamRecs, NEW t \in StreamRecs, NEW ids,
         s.queue # << >>, t.queue = Tail(s.queue), Head(s.queue).type # "resync",
         s.at = "loop", t.kind = s.kind, t.at = s.at, t.dropped = s.dropped,
         \A f \in Presence!Shown(s.kind, Identities) :
            f \in t.view <=> IF Head(s.queue).id = f THEN Head(s.queue).type = "joined"
                             ELSE f \in s.view,
         CatchesUp(s, ids)
  PROVE  CatchesUp(t, ids)
<1> SUFFICES ASSUME ~t.dropped, NEW f \in Presence!Shown(t.kind, Identities)
             PROVE  /\ \A i \in DOMAIN t.queue :
                          LastAbout(t.queue, i, f) => (t.queue[i].type = "joined" <=> f \in ids)
                    /\ (\A i \in DOMAIN t.queue : t.queue[i].type # "resync" /\ ~About(t.queue[i], f))
                          => (f \in t.view <=> f \in ids)
  BY DEF CatchesUp
<1>1. s.queue \in Seq(Events)
  BY DEF StreamRecs
<1>2. /\ DOMAIN s.queue = 1..Len(s.queue) /\ Len(s.queue) \in Nat /\ Len(s.queue) > 0
      /\ DOMAIN t.queue = 1..(Len(s.queue) - 1)
      /\ \A i \in 1..(Len(s.queue) - 1) : t.queue[i] = s.queue[i + 1]
      /\ Head(s.queue) = s.queue[1]
  BY <1>1
<1>3. /\ \A i \in DOMAIN s.queue :
            LastAbout(s.queue, i, f) => (s.queue[i].type = "joined" <=> f \in ids)
      /\ (\A i \in DOMAIN s.queue : s.queue[i].type # "resync" /\ ~About(s.queue[i], f))
            => (f \in s.view <=> f \in ids)
  BY DEF CatchesUp
<1>4. \A i \in DOMAIN t.queue : LastAbout(t.queue, i, f) => LastAbout(s.queue, i + 1, f)
  <2> SUFFICES ASSUME NEW i \in DOMAIN t.queue, LastAbout(t.queue, i, f),
                      NEW j \in DOMAIN s.queue, j > i + 1
               PROVE  ~About(s.queue[j], f)
    BY <1>2 DEF LastAbout
  <2>1. j - 1 \in DOMAIN t.queue /\ j - 1 > i /\ t.queue[j - 1] = s.queue[j]
    BY <1>2
  <2> QED
    BY <2>1 DEF LastAbout
<1>5. \A i \in DOMAIN t.queue :
         LastAbout(t.queue, i, f) => (t.queue[i].type = "joined" <=> f \in ids)
  BY <1>2, <1>3, <1>4
<1>6. ASSUME \A i \in DOMAIN t.queue : t.queue[i].type # "resync" /\ ~About(t.queue[i], f)
      PROVE  f \in t.view <=> f \in ids
  <2>1. \A j \in DOMAIN s.queue : j > 1 => s.queue[j].type # "resync" /\ ~About(s.queue[j], f)
    <3> SUFFICES ASSUME NEW j \in DOMAIN s.queue, j > 1
                 PROVE  s.queue[j].type # "resync" /\ ~About(s.queue[j], f)
      OBVIOUS
    <3>1. j - 1 \in DOMAIN t.queue /\ t.queue[j - 1] = s.queue[j]
      BY <1>2
    <3> QED
      BY <3>1, <1>6
  <2>2. CASE Head(s.queue).id = f
    <3>1. LastAbout(s.queue, 1, f)
      BY <2>1, <2>2, <1>2 DEF LastAbout, About
    <3> QED
      BY <3>1, <2>2, <1>2, <1>3
  <2>3. CASE Head(s.queue).id # f
    <3>1. \A j \in DOMAIN s.queue : s.queue[j].type # "resync" /\ ~About(s.queue[j], f)
      BY <2>1, <2>3, <1>2 DEF About
    <3> QED
      BY <3>1, <2>3, <1>3
  <2> QED
    BY <2>2, <2>3
<1> QED
  BY <1>5, <1>6

\* Adding and removing attendants: an event, or a resync when the channel is full.
LEMMA AttendantsStream ==
  ASSUME StreamInv, NEW f \in Identities, Presence!AddAttendant(f) \/ Presence!RemoveAttendant(f),
         peers' = peers
  PROVE  StreamInv'
<1>0. /\ attendants \subseteq Identities /\ peers \subseteq Identities /\ StreamTypeOK
      /\ stream \in StreamRecs /\ stream.queue \in Seq(Events)
  BY DEF StreamInv, StreamTypeOK, StreamRecs
<1>1. attendants' \subseteq Identities
  BY <1>0 DEF Presence!AddAttendant, Presence!RemoveAttendant
<1>2. CASE stream' = stream /\ (attendants' = attendants \/ stream.kind # "attendants")
  <2>1. stream.kind # "none" => Presence!Watched(stream.kind)' = Presence!Watched(stream.kind)
    BY <1>2 DEF Presence!Watched
  <2>2. StreamTypeOK'
    BY <1>0, <1>2 DEF StreamTypeOK, Presence!Shown
  <2>3. stream.kind # "none" => CatchesUp(stream, Presence!Watched(stream.kind)')
    BY <2>1 DEF StreamInv
  <2>4. stream'.kind # "none" => CatchesUp(stream', Presence!Watched(stream.kind)')
    BY <2>3, <1>2
  <2> QED
    BY <1>0, <1>1, <1>2, <2>2, <2>4 DEF StreamInv, CatchesUp, Presence!Shown, LastAbout, About
<1>3. CASE ~(stream' = stream /\ (attendants' = attendants \/ stream.kind # "attendants"))
  <2>1. PICK e \in Events :
           /\ e.type # "resync" /\ e.id = f /\ (e.type = "joined" <=> f \in attendants')
           /\ \A g \in Identities \ {f} : g \in attendants' <=> g \in attendants
           /\ Presence!BroadcastAttendant(e)
    <3>1. CASE Presence!AddAttendant(f)
      <4> DEFINE e == [type |-> "joined", id |-> f]
      <4>1. attendants' = attendants \cup {f} /\ Presence!BroadcastAttendant(e)
        BY <1>3, <3>1 DEF Presence!AddAttendant
      <4>2. e \in Events /\ e.type = "joined" /\ e.id = f
        BY DEF Events
      <4> QED
        BY <4>1, <4>2
    <3>2. CASE Presence!RemoveAttendant(f)
      <4> DEFINE e == [type |-> "left", id |-> f]
      <4>1. attendants' = attendants \ {f} /\ Presence!BroadcastAttendant(e)
        BY <1>3, <3>2 DEF Presence!RemoveAttendant
      <4>2. e \in Events /\ e.type = "left" /\ e.id = f
        BY DEF Events
      <4> QED
        BY <4>1, <4>2
    <3> QED
      BY <3>1, <3>2
  <2>2. stream.kind = "attendants"
    BY <2>1, <1>3 DEF Presence!BroadcastAttendant, Presence!Subscribed
  <2>3. PICK q : /\ stream' = [stream EXCEPT !.queue = q]
                 /\ q = IF Len(stream.queue) < ChanCap THEN Append(stream.queue, e)
                        ELSE << [type |-> "resync"] >>
    BY <2>1, <2>2 DEF Presence!BroadcastAttendant, Presence!Subscribed
  <2>4. q \in Seq(Events)
    <3>1. [type |-> "resync"] \in Events
      BY DEF Events
    <3> QED
      BY <3>1, <2>1, <2>3, <1>0
  <2>5. /\ stream' \in StreamRecs /\ stream'.queue = q /\ stream'.kind = stream.kind
        /\ stream'.at = stream.at /\ stream'.view = stream.view /\ stream'.dropped = stream.dropped
    BY <2>3, <2>4, <1>0, QueueChange
  <2>6. StreamTypeOK'
    BY <2>2, <2>5, <1>0 DEF StreamTypeOK, Presence!Shown
  <2>7. CatchesUp(stream, attendants)
    BY <2>2 DEF StreamInv, Presence!Watched
  <2>8. CatchesUp(stream', attendants')
    <3>1. CASE q = Append(stream.queue, e)
      BY <3>1, <2>1, <2>5, <2>7, <1>0, PushCatchesUp
    <3>2. CASE q = << [type |-> "resync"] >>
      BY <3>2, <2>5, ResyncCatchesUp
    <3> QED
      BY <3>1, <3>2, <2>3
  <2>9. Presence!Watched("attendants")' = attendants'
    BY DEF Presence!Watched
  <2> QED
    BY <2>2, <2>5, <2>6, <2>8, <2>9, <1>0, <1>1 DEF StreamInv, Presence!Watched
<1> QED
  BY <1>2, <1>3

\* Adding and removing announced endpoints: an event, unless the channel is full.
LEMMA PeersStream ==
  ASSUME StreamInv, NEW f \in Identities, Presence!AddPeer(f) \/ Presence!RemovePeer(f),
         attendants' = attendants
  PROVE  StreamInv'
<1>0. /\ attendants \subseteq Identities /\ peers \subseteq Identities /\ StreamTypeOK
      /\ stream \in StreamRecs /\ stream.queue \in Seq(Events)
  BY DEF StreamInv, StreamTypeOK, StreamRecs
<1>1. peers' \subseteq Identities
  BY <1>0 DEF Presence!AddPeer, Presence!RemovePeer
<1>2. CASE stream' = stream /\ (peers' = peers \/ stream.kind # "endpoints")
  <2>1. stream.kind # "none" => Presence!Watched(stream.kind)' = Presence!Watched(stream.kind)
    BY <1>2, <1>0 DEF Presence!Watched, StreamRecs
  <2>2. StreamTypeOK'
    BY <1>0, <1>2 DEF StreamTypeOK, Presence!Shown
  <2>3. stream.kind # "none" => CatchesUp(stream, Presence!Watched(stream.kind)')
    BY <2>1 DEF StreamInv
  <2>4. stream'.kind # "none" => CatchesUp(stream', Presence!Watched(stream.kind)')
    BY <2>3, <1>2
  <2> QED
    BY <1>0, <1>1, <1>2, <2>2, <2>4 DEF StreamInv, CatchesUp, Presence!Shown, LastAbout, About
<1>3. CASE ~(stream' = stream /\ (peers' = peers \/ stream.kind # "endpoints"))
  <2>1. PICK e \in Events :
           /\ e.type # "resync" /\ e.id = f /\ (e.type = "joined" <=> f \in peers')
           /\ \A g \in Identities \ {f} : g \in peers' <=> g \in peers
           /\ Presence!BroadcastTunnel(e)
    <3>1. CASE Presence!AddPeer(f)
      <4> DEFINE e == [type |-> "joined", id |-> f]
      <4>1. peers' = peers \cup {f} /\ Presence!BroadcastTunnel(e)
        BY <1>3, <3>1 DEF Presence!AddPeer
      <4>2. e \in Events /\ e.type = "joined" /\ e.id = f
        BY DEF Events
      <4> QED
        BY <4>1, <4>2
    <3>2. CASE Presence!RemovePeer(f)
      <4> DEFINE e == [type |-> "left", id |-> f]
      <4>1. peers' = peers \ {f} /\ Presence!BroadcastTunnel(e)
        BY <1>3, <3>2 DEF Presence!RemovePeer
      <4>2. e \in Events /\ e.type = "left" /\ e.id = f
        BY DEF Events
      <4> QED
        BY <4>1, <4>2
    <3> QED
      BY <3>1, <3>2
  <2>2. stream.kind = "endpoints"
    BY <2>1, <1>3 DEF Presence!BroadcastTunnel, Presence!Subscribed
  <2>3. CatchesUp(stream, peers)
    BY <2>2 DEF StreamInv, Presence!Watched
  <2>4. Presence!Watched("endpoints")' = peers'
    BY DEF Presence!Watched
  <2>5. CASE stream' = [stream EXCEPT !.queue = Append(@, e)]
    <3>0. Append(stream.queue, e) \in Seq(Events)
      BY <2>1, <1>0
    <3>1. PICK q \in Seq(Events) : q = Append(stream.queue, e) /\ stream' = [stream EXCEPT !.queue = q]
      BY <3>0, <2>5, Zenon
    <3>2. /\ stream' \in StreamRecs /\ stream'.queue = q /\ stream'.kind = stream.kind
          /\ stream'.at = stream.at /\ stream'.view = stream.view /\ stream'.dropped = stream.dropped
      BY <3>1, <1>0, QueueChange
    <3>3. StreamTypeOK'
      BY <2>1, <2>2, <3>1, <3>2, <1>0 DEF StreamTypeOK, Presence!Shown
    <3>4. CatchesUp(stream', peers')
      BY <3>1, <3>2, <2>1, <2>3, <1>0, PushCatchesUp
    <3> QED
      BY <2>2, <2>4, <3>2, <3>3, <3>4, <1>0, <1>1 DEF StreamInv, Presence!Watched
  <2>6. CASE stream' = [stream EXCEPT !.dropped = TRUE]
    <3>1. /\ stream' \in StreamRecs /\ stream'.queue = stream.queue /\ stream'.kind = stream.kind
          /\ stream'.at = stream.at /\ stream'.view = stream.view /\ stream'.dropped
      BY <2>6, <1>0 DEF StreamRecs
    <3>2. StreamTypeOK'
      BY <2>2, <3>1, <1>0 DEF StreamTypeOK, Presence!Shown
    <3> QED
      BY <3>1, <3>2, <1>0, <1>1 DEF StreamInv, CatchesUp
  <2> QED
    BY <2>1, <2>2, <2>5, <2>6 DEF Presence!BroadcastTunnel, Presence!Subscribed
<1> QED
  BY <1>2, <1>3

\* The handler of a stream takes an event, or reads the room again after a resync.
LEMMA ReaderStream ==
  ASSUME StreamInv, Presence!StreamResync \/ Presence!StreamEvent \/ Presence!StreamEnd
                    \/ \E kind \in Presence!Streams, f \in Identities : Presence!Subscribe(kind, f)
  PROVE  StreamInv'
<1>0. /\ attendants \subseteq Identities /\ peers \subseteq Identities /\ StreamTypeOK
      /\ stream \in StreamRecs /\ stream.queue \in Seq(Events)
  BY DEF StreamInv, StreamTypeOK, StreamRecs
<1>1. attendants' = attendants /\ peers' = peers
  BY DEF Presence!StreamResync, Presence!StreamEvent, Presence!StreamEnd, Presence!Subscribe,
     Presence!notStream
<1>2. CASE \E kind \in Presence!Streams, f \in Identities : Presence!Subscribe(kind, f)
  <2>1. PICK kind \in {"attendants", "endpoints"} :
           stream' = [Presence!Off EXCEPT !.kind = kind, !.at = "loop",
                                          !.view = Presence!Shown(kind, Presence!Watched(kind))]
    BY <1>2 DEF Presence!Subscribe, Presence!Streams
  <2>2. stream' = [kind |-> kind, at |-> "loop", queue |-> << >>,
                   view |-> Presence!Shown(kind, Presence!Watched(kind)), dropped |-> FALSE]
    BY <2>1 DEF Presence!Off
  <2>3. Presence!Watched(kind) \subseteq Identities /\ Presence!Watched(kind)' = Presence!Watched(kind)
    BY <1>0, <1>1 DEF Presence!Watched
  <2>4. StreamTypeOK'
    BY <2>2, <2>3 DEF StreamTypeOK, StreamRecs, Presence!Shown
  <2>5. CatchesUp(stream', Presence!Watched(kind))
    BY <2>2, <2>3 DEF CatchesUp, Presence!Shown
  <2> QED
    BY <2>2, <2>3, <2>4, <2>5, <1>0, <1>1 DEF StreamInv, CatchesUp, Presence!Watched
<1>3. CASE Presence!StreamEnd
  <2>1. stream' = Presence!Off
    BY <1>3 DEF Presence!StreamEnd
  <2> QED
    BY <2>1, <1>0, <1>1 DEF Presence!Off, StreamInv, StreamTypeOK, StreamRecs, Presence!Shown
<1>4. CASE Presence!StreamResync
  <2>1. /\ stream.at = "resync" /\ stream.kind = "attendants"
        /\ stream' = [stream EXCEPT !.at = "loop", !.view = Presence!Shown("attendants", attendants)]
    BY <1>0, <1>4 DEF Presence!StreamResync, StreamTypeOK
  <2>2. Presence!Shown("attendants", attendants) \in SUBSET Identities
    BY <1>0 DEF Presence!Shown
  <2>3. \A s \in StreamRecs, v \in SUBSET Identities :
           LET t == [s EXCEPT !.at = "loop", !.view = v] IN
           /\ t \in StreamRecs /\ t.queue = s.queue /\ t.kind = s.kind /\ t.dropped = s.dropped
           /\ t.at = "loop" /\ t.view = v
    BY DEF StreamRecs
  <2>4. /\ stream' \in StreamRecs /\ stream'.queue = stream.queue /\ stream'.kind = "attendants"
        /\ stream'.dropped = stream.dropped /\ stream'.at = "loop"
        /\ stream'.view = Presence!Shown("attendants", attendants)
    BY <2>1, <2>2, <2>3, <1>0
  <2>5. StreamTypeOK'
    BY <2>1, <2>4, <1>0 DEF StreamTypeOK, Presence!Shown
  <2>6. CatchesUp(stream, attendants)
    BY <2>1 DEF StreamInv, Presence!Watched
  <2>7. CatchesUp(stream', attendants)
    BY <2>1, <2>4, <2>6, <1>0 DEF CatchesUp, Presence!Shown
  <2> QED
    BY <2>4, <2>5, <2>7, <1>0, <1>1 DEF StreamInv, Presence!Watched
<1>5. CASE Presence!StreamEvent
  <2> DEFINE e == Head(stream.queue)
             kind == stream.kind
  <2>1. /\ stream.at = "loop" /\ stream.queue # << >>
        /\ stream' = CASE e.type = "resync" -> [[stream EXCEPT !.queue = Tail(@)] EXCEPT !.at = "resync"]
                       [] e.type = "joined" -> [[stream EXCEPT !.queue = Tail(@)] EXCEPT
                                                   !.view = @ \cup Presence!Shown(kind, {e.id})]
                       [] e.type = "left" -> [[stream EXCEPT !.queue = Tail(@)] EXCEPT
                                                   !.view = @ \ Presence!Shown(kind, {e.id})]
    BY <1>5 DEF Presence!StreamEvent
  <2>2. e \in Events /\ e = stream.queue[1] /\ 1 \in DOMAIN stream.queue /\ Tail(stream.queue) \in Seq(Events)
    BY <2>1, <1>0
  <2>3. e.type = "resync" \/ (e.type \in {"joined", "left"} /\ e.id \in Identities)
    BY <2>2 DEF Events
  <2>4. PICK p \in StreamRecs :
           /\ p = [stream EXCEPT !.queue = Tail(@)] /\ p.queue = Tail(stream.queue)
           /\ p.kind = kind /\ p.at = "loop" /\ p.view = stream.view /\ p.dropped = stream.dropped
    <3>1. LET t == [stream EXCEPT !.queue = Tail(stream.queue)] IN
          /\ t \in StreamRecs /\ t.queue = Tail(stream.queue)
          /\ t.kind = kind /\ t.at = stream.at /\ t.view = stream.view /\ t.dropped = stream.dropped
      BY <2>2, <1>0, QueueChange
    <3> QED
      BY <3>1, <2>1, Zenon
  <2>5. /\ Len(stream.queue) \in Nat /\ DOMAIN stream.queue = 1..Len(stream.queue)
        /\ DOMAIN Tail(stream.queue) = 1..(Len(stream.queue) - 1)
        /\ \A i \in DOMAIN Tail(stream.queue) : /\ i + 1 \in DOMAIN stream.queue
                                                 /\ Tail(stream.queue)[i] = stream.queue[i + 1]
    BY <2>1, <1>0
  <2>6. kind # "none" /\ CatchesUp(stream, Presence!Watched(kind))
        /\ Presence!Watched(kind) \subseteq Identities
    BY <2>1, <1>0 DEF StreamInv, StreamTypeOK, Presence!Watched
  <2> HIDE DEF e, kind
  <2>7. CASE e.type = "resync"
    <3>1. stream' = [p EXCEPT !.at = "resync"] /\ kind = "attendants"
      BY <2>1, <2>2, <2>4, <2>7, <1>0 DEF StreamTypeOK, kind
    <3>2. /\ stream' \in StreamRecs /\ stream'.queue = Tail(stream.queue) /\ stream'.kind = kind
          /\ stream'.at = "resync" /\ stream'.view = stream.view /\ stream'.dropped = stream.dropped
      BY <2>4, <3>1 DEF StreamRecs
    <3>3. StreamTypeOK'
      BY <2>5, <3>1, <3>2, <1>0 DEF StreamTypeOK, Presence!Shown, kind
    <3>4. CatchesUp(stream', attendants)
      <4>1. CatchesUp(stream, attendants)
        BY <2>6, <3>1 DEF Presence!Watched
      <4>2. ASSUME NEW f, NEW i \in DOMAIN stream'.queue, LastAbout(stream'.queue, i, f)
            PROVE  LastAbout(stream.queue, i + 1, f)
        <5> SUFFICES ASSUME NEW j \in DOMAIN stream.queue, j > i + 1 PROVE ~About(stream.queue[j], f)
          BY <4>2, <2>5, <3>2 DEF LastAbout
        <5>1. j - 1 \in DOMAIN stream'.queue /\ j - 1 > i /\ stream'.queue[j - 1] = stream.queue[j]
          <6>1. i \in 1..(Len(stream.queue) - 1) /\ j \in 1..Len(stream.queue)
            BY <3>2, <2>5
          <6>2. j - 1 \in 1..(Len(stream.queue) - 1) /\ j - 1 > i /\ (j - 1) + 1 = j
            BY <6>1, <2>5
          <6> QED
            BY <6>2, <3>2, <2>5
        <5> QED
          BY <5>1, <4>2 DEF LastAbout
      <4>3. ASSUME ~stream'.dropped, NEW f \in Presence!Shown("attendants", Identities),
                   NEW i \in DOMAIN stream'.queue, LastAbout(stream'.queue, i, f)
            PROVE  stream'.queue[i].type = "joined" <=> f \in attendants
        <5>1. LastAbout(stream.queue, i + 1, f) /\ i + 1 \in DOMAIN stream.queue
              /\ stream'.queue[i] = stream.queue[i + 1]
          BY <4>2, <4>3, <3>2, <2>5
        <5> QED
          BY <5>1, <4>1, <4>3, <3>1, <3>2 DEF CatchesUp, kind
      <4> QED
        BY <4>3, <3>1, <3>2 DEF CatchesUp
    <3> QED
      BY <3>1, <3>2, <3>3, <3>4, <1>0, <1>1 DEF StreamInv, Presence!Watched
  <2>8. CASE e.type # "resync"
    <3>1. PICK v \in SUBSET Identities :
             /\ stream' = [p EXCEPT !.view = v]
             /\ v = IF e.type = "joined" THEN stream.view \cup Presence!Shown(kind, {e.id})
                    ELSE stream.view \ Presence!Shown(kind, {e.id})
      <4>1. stream.view \in SUBSET Identities /\ Presence!Shown(kind, {e.id}) \subseteq Identities
        BY <2>3, <2>8, <1>0 DEF StreamRecs, Presence!Shown
      <4>2. CASE e.type = "joined"
        <5>1. stream' = [p EXCEPT !.view = stream.view \cup Presence!Shown(kind, {e.id})]
          BY <2>1, <2>4, <4>2
        <5> QED
          BY <4>1, <4>2, <5>1
      <4>3. CASE e.type = "left"
        <5>1. stream' = [p EXCEPT !.view = stream.view \ Presence!Shown(kind, {e.id})]
          BY <2>1, <2>4, <4>3
        <5> QED
          BY <4>1, <4>3, <5>1
      <4> QED
        BY <2>3, <2>8, <4>2, <4>3
    <3>2. /\ stream' \in StreamRecs /\ stream'.queue = Tail(stream.queue) /\ stream'.kind = kind
          /\ stream'.at = "loop" /\ stream'.view = v /\ stream'.dropped = stream.dropped
      BY <2>4, <3>1 DEF StreamRecs
    <3>3. StreamTypeOK'
      BY <2>1, <2>3, <2>5, <2>8, <3>1, <3>2, <1>0 DEF StreamTypeOK, Presence!Shown, kind
    <3>4. \A f \in Presence!Shown(kind, Identities) :
             f \in stream'.view <=> IF e.id = f THEN e.type = "joined" ELSE f \in stream.view
      BY <3>1, <3>2 DEF Presence!Shown
    <3>5. CatchesUp(stream', Presence!Watched(kind))
      BY <2>1, <2>6, <2>8, <3>2, <3>4, <1>0, PopCatchesUp DEF e, kind
    <3>6. Presence!Watched(kind)' = Presence!Watched(kind)
      BY <1>1, <3>2 DEF Presence!Watched, kind
    <3> QED
      BY <3>2, <3>3, <3>5, <3>6, <1>0, <1>1 DEF StreamInv, kind
  <2> QED
    BY <2>7, <2>8
<1> QED
  BY <1>2, <1>3, <1>4, <1>5

\* Every step keeps the streams on their way to what the room has.
LEMMA NextStream ==
  PresenceInv /\ StreamInv /\ [RoomNext]_<< part, sharedVars, presenceVars, databaseVars, vars >>
    => StreamInv'
<1> SUFFICES ASSUME PresenceInv, StreamInv,
                    [RoomNext]_<< part, sharedVars, presenceVars, databaseVars, vars >>
             PROVE  StreamInv'
  OBVIOUS
<1>f. \A c \in Conns : conn[c].at # "none" \/ call[c] # "none" => conn[c].feed \in Identities
  BY DEF PresenceInv, PresenceTypeOK, CallsEnd
<1>1. CASE UNCHANGED << attendants, peers, stream >>
  <2>1. Presence!Watched(stream.kind)' = Presence!Watched(stream.kind)
    BY <1>1 DEF Presence!Watched
  <2> QED
    BY <2>1, <1>1 DEF StreamInv, StreamTypeOK
<1>2. CASE Presence!Next
  <2> USE DEF Presence!notStream, Presence!history
  <2>1. ASSUME NEW c \in Conns, NEW f \in Identities, Presence!ConnAccept(c, f) PROVE StreamInv'
    BY <2>1, <1>1 DEF Presence!ConnAccept
  <2>2. ASSUME NEW c \in Conns, Presence!ConnAttend(c) PROVE StreamInv'
    BY <2>2, <1>f, AttendantsStream DEF Presence!ConnAttend
  <2>3. ASSUME NEW c \in Conns, Presence!ConnNotify(c) PROVE StreamInv'
    BY <2>3, <1>f, PeersStream DEF Presence!ConnNotify
  <2>4. ASSUME NEW c \in Conns, Presence!ConnGone(c) PROVE StreamInv'
    <3>1. CASE conn[c].isMember
      BY <3>1, <2>4, <1>f, AttendantsStream DEF Presence!ConnGone
    <3>2. CASE ~conn[c].isMember
      BY <3>2, <2>4, <1>1 DEF Presence!ConnGone
    <3> QED
      BY <3>1, <3>2
  <2>5. ASSUME NEW c \in Conns, Presence!ConnUnpeer(c) PROVE StreamInv'
    BY <2>5, <1>f, PeersStream DEF Presence!ConnUnpeer
  <2>6. ASSUME NEW c \in Conns, Presence!ConnRegister(c) \/ Presence!ConnRow(c)
               \/ Presence!ConnDeactivate(c) \/ Presence!ConnUnregister(c) \/ Presence!ConnLost(c)
        PROVE  StreamInv'
    BY <2>6, <1>1 DEF Presence!ConnRegister, Presence!ConnRow, Presence!ConnDeactivate,
       Presence!ConnUnregister, Presence!ConnLost
  <2>7. ASSUME NEW c \in Conns, Presence!CallStep(c) PROVE StreamInv'
    <3>1. CASE Presence!HandleAnnounce(c)
      BY <3>1, <1>f, PeersStream DEF Presence!HandleAnnounce
    <3>2. CASE Presence!HandleLeave(c)
      BY <3>2, <1>f, PeersStream DEF Presence!HandleLeave
    <3>3. CASE Presence!CallRow(c)
      BY <3>3, <1>1 DEF Presence!CallRow
    <3> QED
      BY <2>7, <3>1, <3>2, <3>3 DEF Presence!CallStep
  <2>8. ASSUME NEW c \in Conns, NEW what \in {"announce", "leave"}, Presence!CallBegins(c, what)
        PROVE  StreamInv'
    BY <2>8, <1>1 DEF Presence!CallBegins
  <2>9. ASSUME NEW f \in Identities, Presence!ChangeMembers(f) \/ Presence!Deny(f) PROVE StreamInv'
    BY <2>9, <1>1 DEF Presence!ChangeMembers, Presence!Deny
  <2>10. CASE Presence!StreamResync \/ Presence!StreamEvent \/ Presence!StreamEnd
              \/ \E kind \in Presence!Streams, f \in Identities : Presence!Subscribe(kind, f)
    BY <2>10, ReaderStream
  <2>11. ASSUME NEW c \in Conns, Presence!ConnStep(c) PROVE StreamInv'
    BY <2>11, <2>2, <2>3, <2>4, <2>5, <2>6 DEF Presence!ConnStep
  <2> QED
    BY <1>2, <2>1, <2>6, <2>7, <2>8, <2>9, <2>10, <2>11 DEF Presence!Next
<1> QED
  BY <1>1, <1>2 DEF RoomNext, presenceVars

\* With nothing left in the channel, the view of each feed is the room's.
LEMMA StreamImplies == StreamInv => StreamsCatchUp
<1> SUFFICES ASSUME StreamInv, stream.at = "loop", stream.queue = << >>, ~stream.dropped
             PROVE  stream.view = Presence!Shown(stream.kind, Presence!Watched(stream.kind))
  BY DEF StreamsCatchUp, Presence!StreamsCatchUp
<1>1. stream.kind \in {"attendants", "endpoints"} /\ DOMAIN stream.queue = {}
  BY DEF StreamInv, StreamTypeOK, StreamRecs
<1>2. \A f \in Presence!Shown(stream.kind, Identities) :
         f \in stream.view <=> f \in Presence!Watched(stream.kind)
  BY <1>1 DEF StreamInv, CatchesUp
<1>3. stream.view \subseteq Presence!Shown(stream.kind, Identities)
      /\ Presence!Watched(stream.kind) \subseteq Identities
  BY DEF StreamInv, StreamTypeOK, Presence!Watched
<1> QED
  BY <1>1, <1>2, <1>3 DEF Presence!Shown

\* A client that has read its stream shows what the room has, whatever the size of its
\* channel, how often it overflowed and when the client subscribed: the attendants always,
\* the endpoints unless an event was dropped.
THEOREM ClientsCatchUp == RoomSpec => []StreamsCatchUp
<1>1. RoomSpec => [](PresenceInv /\ StreamInv)
  BY InitPresence, NextPresence, InitStream, NextStream, PTL DEF RoomSpec
<1> QED
  BY <1>1, StreamImplies, PTL
-----------------------------------------------------------------------------
(* The room's database                                                       *)

\* The rows of the tables and the requests.
MemberRows == [id : Nat, feed : Everyone, role : Nat]
InviteRows == [id : Nat, creator : Nat, active : BOOLEAN]
TokenRows == [id : Nat, member : Nat, line : Nat]
Ops == {"none", "consume", "invite", "unlink", "register", "revoke", "signin", "invalidate",
        "rotate", "reset"}
Ats == {"idle", "web", "muxrpc", "select", "member", "add", "spend", "role", "policy", "insert",
        "ensure", "again", "begin", "lookup", "delete", "password", "challenge", "issue", "wipe",
        "ok", "failed", "refused"}
Args == Nat \cup Names
RequestRecs == [op : Ops, at : Ats, feed : Everyone, arg : Args, id : Nat,
                stale : BOOLEAN, seen : SUBSET Nat, bereft : BOOLEAN]

RowsTypeOK ==
    /\ memberRows \subseteq MemberRows
    /\ invites \subseteq InviteRows
    /\ tokens \subseteq TokenRows
    /\ lastId \in Nat
    /\ answered \subseteq Nat
    /\ mode \in {"open", "community", "restricted"}

\* A key is in its table once, no id of a row is ever given again, and a sign-in has one owner.
UniqueKeys ==
    /\ \A m, n \in memberRows : m.id = n.id \/ m.feed = n.feed => m = n
    /\ \A i, j \in invites : i.id = j.id => i = j
    /\ \A m \in memberRows : m.id <= lastId
    /\ \A i \in invites : i.id <= lastId
    /\ \A t \in tokens : t.line <= lastId
    /\ \A t, u \in tokens : t.line = u.line => t.member = u.member
    /\ \A a \in answered : a <= lastId

\* An invite that has been used or revoked is inactive, and a token belongs to a member that
\* is there (the foreign keys).
Spent(a) == \A i \in invites : i.id = a => ~i.active
Owned == \A t \in tokens : \E m \in memberRows : m.id = t.member

RowsInv == RowsTypeOK /\ UniqueKeys /\ (\A a \in answered : Spent(a)) /\ Owned

\* A use of an invite: the one that is about to be answered has made the invite inactive, and
\* one that began after an answer gets no further than its check.
UseOK(r) ==
    r.op = "consume" =>
        /\ r.arg \in Nat /\ r.arg <= lastId
        /\ r.at = "role" => Spent(r.arg)
        /\ r.stale => r.arg \in answered /\ r.at \in {"web", "muxrpc", "select", "failed"}

\* A request that is to enter an invite knows a member that is there, and one that lost the
\* race for the room's own row finds it, unless a member was removed meanwhile.
CreationOK(r) ==
    r.op = "invite" /\ ~r.bereft =>
        /\ r.at = "insert" => \E m \in memberRows : m.id = r.id
        /\ r.at = "again" => \E m \in memberRows : m.feed = RoomFeed
        /\ r.at = "failed" => mode # "open"

\* The tokens an invalidation has to end belong to the feed that asks for it, then to the
\* member it has looked up, then there are none.
InvalidationOK(r) ==
    r.op = "invalidate" =>
        /\ \A l \in r.seen : l <= lastId
        /\ \A t \in tokens : t.line \in r.seen =>
              /\ r.at \in {"begin", "wipe", "failed"}
              /\ r.at = "begin" => \E m \in memberRows : m.id = t.member /\ m.feed = r.feed
              /\ r.at = "wipe" => t.member = r.id

RequestOK(r) == UseOK(r) /\ CreationOK(r) /\ InvalidationOK(r)
DatabaseInv ==
    /\ RowsInv
    /\ req \in [Workers -> RequestRecs]
    /\ \A w \in Workers : RequestOK(req[w])

\* What every statement but the removal of a member does to the tables: it keeps the members'
\* keys, activates no invite that was there and gives no new owner to a sign-in.
Keep ==
    /\ lastId' >= lastId /\ answered \subseteq answered' /\ mode' = mode
    /\ \A m \in memberRows : \E n \in memberRows' : n.id = m.id /\ n.feed = m.feed
    /\ \A j \in invites' : j.id > lastId \/ \E i \in invites : i.id = j.id /\ (j.active => i.active)
    /\ \A u \in tokens' : u.line > lastId \/ \E t \in tokens : t.line = u.line /\ t.member = u.member

\* Such a statement disturbs no other request.
LEMMA KeepsRequest ==
  ASSUME RowsInv, RowsTypeOK', Keep, NEW r \in RequestRecs, RequestOK(r)
  PROVE  RequestOK(r)'
<1>0. RowsTypeOK
  BY DEF RowsInv
<1>1. \A j \in invites' : j \in InviteRows
  BY DEF RowsTypeOK
<1>2. lastId \in Nat /\ lastId' \in Nat /\ lastId' >= lastId
  BY <1>0 DEF RowsTypeOK, Keep
<1>3. UseOK(r)'
  <2>1. ASSUME r.arg \in Nat, r.arg <= lastId, Spent(r.arg) PROVE Spent(r.arg)'
    BY <2>1, <1>1, <1>2 DEF Spent, Keep, InviteRows
  <2> QED
    BY <2>1, <1>2 DEF RequestOK, UseOK, Keep
<1>4. CreationOK(r)'
  BY DEF RequestOK, CreationOK, Keep
<1>5. InvalidationOK(r)'
  <2> SUFFICES ASSUME r.op = "invalidate"
               PROVE  /\ \A l \in r.seen : l <= lastId'
                      /\ \A u \in tokens' : u.line \in r.seen =>
                            /\ r.at \in {"begin", "wipe", "failed"}
                            /\ r.at = "begin" => \E m \in memberRows' : m.id = u.member /\ m.feed = r.feed
                            /\ r.at = "wipe" => u.member = r.id
    BY DEF InvalidationOK
  <2>1. r.seen \subseteq Nat /\ \A l \in r.seen : l <= lastId
    BY DEF RequestRecs, RequestOK, InvalidationOK
  <2>2. \A l \in r.seen : l <= lastId'
    BY <2>1, <1>2
  <2>3. ASSUME NEW u \in tokens', u.line \in r.seen
        PROVE  \E t \in tokens : t.line = u.line /\ t.member = u.member
    BY <2>1, <2>3, <1>2 DEF Keep
  <2> QED
    BY <2>2, <2>3 DEF RequestOK, InvalidationOK, Keep
<1> QED
  BY <1>3, <1>4, <1>5 DEF RequestOK

\* A statement of one request, which goes on as r.
LEMMA RequestStep ==
  ASSUME DatabaseInv, RowsInv', Keep, NEW w \in Workers, NEW r \in RequestRecs,
         req' = [req EXCEPT ![w] = r], RequestOK(r)'
  PROVE  DatabaseInv'
<1>1. req \in [Workers -> RequestRecs] /\ RowsInv /\ RowsTypeOK'
  BY DEF DatabaseInv, RowsInv
<1>2. /\ req' \in [Workers -> RequestRecs] /\ req'[w] = r
      /\ \A v \in Workers \ {w} : req'[v] = req[v]
  BY <1>1
<1>3. ASSUME NEW v \in Workers \ {w} PROVE RequestOK(req[v])'
  <2>1. PICK s \in RequestRecs : s = req[v] /\ s = req'[v]
    BY <1>1, <1>2
  <2>2. RequestOK(s)
    BY <2>1 DEF DatabaseInv
  <2>3. RequestOK(s)'
    BY <2>2, <1>1, KeepsRequest
  <2> QED
    BY <2>1, <2>3
<1>4. RequestOK(req[w])'
  BY <1>2
<1> QED
  BY <1>2, <1>3, <1>4 DEF DatabaseInv

\* A request moves on, with the id of a row it has found or entered.
LEMMA ToStep ==
  ASSUME req \in [Workers -> RequestRecs], NEW w \in Workers, NEW at \in Ats, Database!To(w, at)
  PROVE  \E r \in RequestRecs :
            /\ req' = [req EXCEPT ![w] = r] /\ r.at = at /\ r.id = req[w].id
            /\ r.op = req[w].op /\ r.feed = req[w].feed /\ r.arg = req[w].arg
            /\ r.stale = req[w].stale /\ r.seen = req[w].seen /\ r.bereft = req[w].bereft
<1> DEFINE r == [req[w] EXCEPT !.at = at]
<1>1. req[w] \in RequestRecs
  OBVIOUS
<1>2. \A s \in RequestRecs : LET t == [s EXCEPT !.at = at] IN
         /\ t \in RequestRecs /\ t.at = at /\ t.id = s.id /\ t.op = s.op /\ t.feed = s.feed
         /\ t.arg = s.arg /\ t.stale = s.stale /\ t.seen = s.seen /\ t.bereft = s.bereft
  BY DEF RequestRecs
<1>3. req' = [req EXCEPT ![w] = r]
  BY DEF Database!To
<1>4. /\ r \in RequestRecs /\ r.at = at /\ r.id = req[w].id
      /\ r.op = req[w].op /\ r.feed = req[w].feed /\ r.arg = req[w].arg
      /\ r.stale = req[w].stale /\ r.seen = req[w].seen /\ r.bereft = req[w].bereft
  BY <1>1, <1>2
<1> HIDE DEF r
<1> QED
  BY <1>3, <1>4

\* The same, with the id of a row.
LEMMA ToWithStep ==
  ASSUME req \in [Workers -> RequestRecs], NEW w \in Workers, NEW at \in Ats, NEW id \in Nat,
         Database!ToWith(w, at, id)
  PROVE  \E r \in RequestRecs :
            /\ req' = [req EXCEPT ![w] = r] /\ r.at = at /\ r.id = id
            /\ r.op = req[w].op /\ r.feed = req[w].feed /\ r.arg = req[w].arg
            /\ r.stale = req[w].stale /\ r.seen = req[w].seen /\ r.bereft = req[w].bereft
<1> DEFINE r == [req[w] EXCEPT !.at = at, !.id = id]
<1>1. req[w] \in RequestRecs
  OBVIOUS
<1>2. \A s \in RequestRecs : LET t == [s EXCEPT !.at = at, !.id = id] IN
         /\ t \in RequestRecs /\ t.at = at /\ t.id = id /\ t.op = s.op /\ t.feed = s.feed
         /\ t.arg = s.arg /\ t.stale = s.stale /\ t.seen = s.seen /\ t.bereft = s.bereft
  BY DEF RequestRecs
<1>3. req' = [req EXCEPT ![w] = r]
  BY DEF Database!ToWith
<1>4. /\ r \in RequestRecs /\ r.at = at /\ r.id = id
      /\ r.op = req[w].op /\ r.feed = req[w].feed /\ r.arg = req[w].arg
      /\ r.stale = req[w].stale /\ r.seen = req[w].seen /\ r.bereft = req[w].bereft
  BY <1>1, <1>2
<1> HIDE DEF r
<1> QED
  BY <1>3, <1>4

\* A statement that reads: the tables stay, and the request goes on as its conditions say.
LEMMA ReadStep ==
  ASSUME DatabaseInv, NEW w \in Workers, NEW r \in RequestRecs, req' = [req EXCEPT ![w] = r],
         UNCHANGED << memberRows, invites, tokens, lastId, answered, mode >>,
         RequestOK(r)
  PROVE  DatabaseInv'
<1>1. RowsInv /\ RowsTypeOK
  BY DEF DatabaseInv, RowsInv
<1>2. Keep
  BY <1>1 DEF Keep, RowsTypeOK
<1>3. RowsInv'
  BY <1>1 DEF RowsInv, RowsTypeOK, UniqueKeys, Spent, Owned
<1>4. RequestOK(r)'
  BY DEF RequestOK, UseOK, CreationOK, InvalidationOK, Spent
<1> QED
  BY <1>2, <1>3, <1>4, RequestStep

\* The room's database at first: a moderator and an invite of it, or nothing.
LEMMA InitDatabase == RoomInit => DatabaseInv
<1> SUFFICES ASSUME RoomInit PROVE DatabaseInv
  OBVIOUS
<1> DEFINE m1 == [id |-> 1, feed |-> CHOOSE f \in Identities : f # RoomFeed, role |-> 2]
           i1 == [id |-> 1, creator |-> 1, active |-> TRUE]
<1>1. /\ memberRows \in {{}, {m1}}
      /\ invites = {[id |-> 1, creator |-> m.id, active |-> TRUE] : m \in memberRows}
      /\ tokens = {} /\ lastId = 1 /\ answered = {} /\ mode \in {"open", "community", "restricted"}
      /\ req = [w \in Workers |-> Database!Idle]
  BY DEF RoomInit, Database!Init, Database!Modes, Database!Moderator
<1>2. m1 \in MemberRows /\ i1 \in InviteRows
  BY DEF MemberRows, InviteRows, Everyone
<1>3. invites \subseteq {i1}
  BY <1>1
<1>a. m1.id = 1 /\ i1.id = 1
  OBVIOUS
<1> HIDE DEF m1, i1
<1>b. /\ memberRows \subseteq {m1} /\ memberRows \subseteq MemberRows /\ invites \subseteq InviteRows
      /\ \A m \in memberRows : m.id = 1
      /\ \A i \in invites : i.id = 1
  BY <1>1, <1>2, <1>3, <1>a
<1>4. RowsInv
  BY <1>1, <1>3, <1>b DEF RowsInv, RowsTypeOK, UniqueKeys, Owned
<1>5. Database!Idle \in RequestRecs /\ Database!Idle.op = "none"
  <2>1. RoomFeed \in Everyone /\ 0 \in Args
    BY DEF Everyone, Args
  <2> QED
    BY <2>1 DEF Database!Idle, RequestRecs, Ops, Ats
<1>6. \A w \in Workers : req[w] \in RequestRecs /\ req[w].op = "none"
  BY <1>1, <1>5
<1>7. req \in [Workers -> RequestRecs]
  BY <1>1, <1>5
<1> QED
  BY <1>4, <1>6, <1>7 DEF DatabaseInv, RequestOK, UseOK, CreationOK, InvalidationOK

\* A worker takes a request.
LEMMA ReceiveStep ==
  ASSUME DatabaseInv, NEW w \in Workers, NEW op \in Ops, NEW entry \in Ats,
         NEW f \in Everyone, NEW arg \in Args, Database!Receive(w, op, entry, f, arg),
         op = "consume" => arg \in Nat /\ arg <= lastId /\ entry \in {"web", "muxrpc"},
         op = "invite" => entry \in {"web", "muxrpc"},
         op = "invalidate" => entry = "begin"
  PROVE  DatabaseInv'
<1>0. RowsInv /\ RowsTypeOK /\ req \in [Workers -> RequestRecs]
  BY DEF DatabaseInv, RowsInv
<1> DEFINE lines == IF op = "invalidate"
                    THEN {t.line : t \in {u \in tokens : Database!GetByID(u.member)
                                                         \cap Database!GetByFeed(f) # {}}}
                    ELSE {}
           old == op = "consume" /\ arg \in answered
           r == [Database!Idle EXCEPT !.op = op, !.at = entry, !.feed = f, !.arg = arg,
                                      !.stale = old, !.seen = lines]
<1>1. /\ req' = [req EXCEPT ![w] = r]
      /\ UNCHANGED << memberRows, invites, tokens, lastId, answered, mode >>
  BY DEF Database!Receive, Database!rows
<1>2. lines \in SUBSET Nat /\ old \in BOOLEAN
  BY <1>0 DEF RowsTypeOK, TokenRows
<1>3. op = "invalidate" =>
         /\ \A l \in lines : l <= lastId
         /\ \A t \in tokens : t.line \in lines => \E m \in memberRows : m.id = t.member /\ m.feed = f
  BY <1>0 DEF RowsInv, UniqueKeys, Database!GetByID, Database!GetByFeed
<1>4. op # "invalidate" => lines = {}
  OBVIOUS
<1>5. old = (op = "consume" /\ arg \in answered)
  OBVIOUS
<1> HIDE DEF lines, old
<1>6. /\ r \in RequestRecs /\ r.op = op /\ r.at = entry /\ r.feed = f /\ r.arg = arg
      /\ r.stale = old /\ r.seen = lines /\ r.bereft = FALSE
  <2>1. Database!Idle \in RequestRecs /\ Database!Idle.bereft = FALSE
    BY DEF Database!Idle, RequestRecs, Ops, Ats, Args, Everyone
  <2>2. PICK s1 \in RequestRecs :
           /\ s1 = [Database!Idle EXCEPT !.op = op, !.at = entry]
           /\ s1.op = op /\ s1.at = entry /\ s1.bereft = FALSE
    <3>1. \A s \in RequestRecs : LET t == [s EXCEPT !.op = op, !.at = entry] IN
             t \in RequestRecs /\ t.op = op /\ t.at = entry /\ t.bereft = s.bereft
      BY DEF RequestRecs
    <3> QED
      BY <2>1, <3>1
  <2>3. PICK s2 \in RequestRecs :
           /\ s2 = [s1 EXCEPT !.feed = f, !.arg = arg]
           /\ s2.op = op /\ s2.at = entry /\ s2.bereft = FALSE /\ s2.feed = f /\ s2.arg = arg
    <3>1. LET t == [s1 EXCEPT !.feed = f, !.arg = arg] IN
             /\ t \in RequestRecs /\ t.op = s1.op /\ t.at = s1.at /\ t.bereft = s1.bereft
             /\ t.feed = f /\ t.arg = arg
      BY DEF RequestRecs
    <3> QED
      BY <2>2, <3>1
  <2>4. PICK s3 \in RequestRecs :
           /\ s3 = [s2 EXCEPT !.stale = old, !.seen = lines]
           /\ s3.op = op /\ s3.at = entry /\ s3.bereft = FALSE /\ s3.feed = f /\ s3.arg = arg
           /\ s3.stale = old /\ s3.seen = lines
    <3>2. LET t == [s2 EXCEPT !.stale = old, !.seen = lines] IN
          /\ t \in RequestRecs /\ t.op = s2.op /\ t.at = s2.at /\ t.bereft = s2.bereft
          /\ t.feed = s2.feed /\ t.arg = s2.arg /\ t.stale = old /\ t.seen = lines
      BY <2>3, <1>2 DEF RequestRecs
    <3> QED
      BY <2>3, <3>2
  <2>5. r = s3
    BY <2>2, <2>3, <2>4
  <2> QED
    BY <2>4, <2>5
<1> HIDE DEF r
<1>7. UseOK(r)
  BY <1>5, <1>6 DEF UseOK
<1>8. CreationOK(r)
  BY <1>6 DEF CreationOK
<1>9. InvalidationOK(r)
  BY <1>3, <1>6 DEF InvalidationOK
<1> QED
  BY <1>1, <1>6, <1>7, <1>8, <1>9, ReadStep DEF RequestOK

\* The two ways in which a request moves on: as it is, or with the id of a row.
Moved(r, w, at) ==
    /\ req' = [req EXCEPT ![w] = r] /\ r.at = at
    /\ r.op = req[w].op /\ r.feed = req[w].feed /\ r.arg = req[w].arg
    /\ r.stale = req[w].stale /\ r.seen = req[w].seen /\ r.bereft = req[w].bereft
Reads == UNCHANGED << memberRows, invites, tokens, lastId, answered, mode >>

\* The first of them, as it is.
LEMMA ToMoves ==
  ASSUME DatabaseInv, NEW w \in Workers, NEW at \in Ats, Database!To(w, at)
  PROVE  \E r \in RequestRecs : Moved(r, w, at) /\ r.id = req[w].id
BY ToStep DEF DatabaseInv, Moved

\* The second of them, with the id of a row.
LEMMA ToWithMoves ==
  ASSUME DatabaseInv, NEW w \in Workers, NEW at \in Ats, NEW id \in Nat, Database!ToWith(w, at, id)
  PROVE  \E r \in RequestRecs : Moved(r, w, at) /\ r.id = id
BY ToWithStep DEF DatabaseInv, Moved

\* A request finds the member of a feed, or goes elsewhere.
LEMMA LookupMoves ==
  ASSUME DatabaseInv, NEW w \in Workers, NEW f, NEW found \in Ats, NEW otherwise \in Ats,
         Database!Lookup(w, f, found, otherwise)
  PROVE  /\ Reads
         /\ \/ \E r \in RequestRecs, m \in memberRows : Moved(r, w, found) /\ m.feed = f /\ r.id = m.id
            \/ /\ \A m \in memberRows : m.feed # f
               /\ \E r \in RequestRecs : Moved(r, w, otherwise) /\ r.id = req[w].id
<1>1. Reads
  BY DEF Database!Lookup, Database!rows, Database!Still, Reads
<1>2. CASE \E m \in memberRows : m.feed = f
  <2>1. PICK m \in memberRows : m.feed = f /\ Database!ToWith(w, found, m.id)
    BY <1>2 DEF Database!Lookup, Database!IsMember, Database!GetByFeed
  <2>2. m.id \in Nat
    BY DEF DatabaseInv, RowsInv, RowsTypeOK, MemberRows
  <2>3. PICK r \in RequestRecs : Moved(r, w, found) /\ r.id = m.id
    BY <2>1, <2>2, ToWithMoves
  <2> QED
    BY <1>1, <2>1, <2>3
<1>3. CASE ~\E m \in memberRows : m.feed = f
  <2>1. Database!To(w, otherwise)
    BY <1>3 DEF Database!Lookup, Database!IsMember, Database!GetByFeed
  <2> QED
    BY <1>1, <1>3, <2>1, ToMoves
<1> QED
  BY <1>2, <1>3

\* A request that is not bound to a condition.
LEMMA FreeRequest ==
  ASSUME NEW r \in RequestRecs, r.op \notin {"consume", "invite", "invalidate"}
  PROVE  RequestOK(r) /\ RequestOK(r)'
BY DEF RequestOK, UseOK, CreationOK, InvalidationOK

\* The statements of Invites.Consume that read.
LEMMA ConsumeReads ==
  ASSUME DatabaseInv, NEW w \in Workers,
         \/ Database!HandleInviteConsume(w) \/ Database!HandleJoin(w) \/ Database!ConsumeSelect(w)
         \/ Database!At(w, "consume", "member")
            /\ Database!Lookup(w, req[w].feed, "spend", "add")
  PROVE  DatabaseInv'
<1> USE DEF Database!At
<1>0. RequestOK(req[w]) /\ RowsInv
  BY DEF DatabaseInv
<1>1. CASE Database!HandleInviteConsume(w) \/ Database!HandleJoin(w)
  <2>1. Reads /\ req[w].op = "consume" /\ \E at \in {"failed", "select"} : Database!To(w, at)
    BY <1>1 DEF Database!HandleInviteConsume, Database!HandleJoin, Database!rows, Database!Still, Reads
  <2>2. PICK at \in {"failed", "select"}, r \in RequestRecs : Moved(r, w, at)
    BY <2>1, ToMoves DEF Ats
  <2>3. RequestOK(r)
    BY <2>1, <2>2, <1>0 DEF Moved, RequestOK, UseOK, CreationOK, InvalidationOK
  <2> QED
    BY <2>1, <2>2, <2>3, ReadStep DEF Moved, Reads
<1>2. CASE Database!ConsumeSelect(w)
  <2>1. Reads /\ req[w].op = "consume" /\ req[w].at = "select"
        /\ \/ Database!To(w, "failed")
           \/ Database!To(w, "member") /\ \E i \in invites : i.id = req[w].arg /\ i.active
    BY <1>2 DEF Database!ConsumeSelect, Database!rows, Database!Still, Reads
  <2>2. PICK at \in {"failed", "member"}, r \in RequestRecs :
           Moved(r, w, at) /\ (at = "member" => \E i \in invites : i.id = req[w].arg /\ i.active)
    BY <2>1, ToMoves DEF Ats
  <2>3. at = "member" => ~req[w].stale
    BY <2>1, <2>2, <1>0 DEF RequestOK, UseOK, RowsInv, Spent
  <2>4. RequestOK(r)
    BY <2>1, <2>2, <2>3, <1>0 DEF Moved, RequestOK, UseOK, CreationOK, InvalidationOK
  <2> QED
    BY <2>1, <2>2, <2>4, ReadStep DEF Moved, Reads
<1>3. CASE /\ Database!At(w, "consume", "member")
           /\ Database!Lookup(w, req[w].feed, "spend", "add")
  <2>1. Reads
    BY <1>3, LookupMoves DEF Ats
  <2>2. PICK at \in {"spend", "add"}, r \in RequestRecs : Moved(r, w, at)
    BY <1>3, LookupMoves DEF Ats
  <2>3. RequestOK(r)
    BY <1>3, <2>2, <1>0 DEF Moved, RequestOK, UseOK, CreationOK, InvalidationOK
  <2> QED
    BY <2>1, <2>2, <2>3, ReadStep DEF Moved, Reads
<1> QED
  BY <1>1, <1>2, <1>3

\* The statements of the requests for an invite that read.
LEMMA InviteReads ==
  ASSUME DatabaseInv, NEW w \in Workers,
         \/ Database!CheckToken(w) \/ Database!HandleCreateInviteSubmit(w)
         \/ Database!HandleCreateInvite(w)
         \/ Database!At(w, "invite", "ensure") /\ Database!Lookup(w, RoomFeed, "insert", "add")
         \/ Database!At(w, "invite", "again") /\ Database!Lookup(w, RoomFeed, "insert", "failed")
  PROVE  DatabaseInv'
<1> USE DEF Database!At
<1>0. RequestOK(req[w]) /\ RowsInv /\ RowsTypeOK
  BY DEF DatabaseInv, RowsInv
<1>1. CASE Database!CheckToken(w)
  <2>1. Reads /\ req[w].op \in {"invite", "unlink"}
    BY <1>1 DEF Database!CheckToken, Database!rows, Database!Still, Reads
  <2>2. \E id \in Nat : Database!ToWith(w, "policy", id)
    BY <1>1, <1>0 DEF Database!CheckToken, RowsTypeOK, TokenRows
  <2>3. PICK r \in RequestRecs : Moved(r, w, "policy")
    BY <2>2, ToWithMoves DEF Ats
  <2>4. RequestOK(r)
    BY <2>1, <2>3 DEF Moved, RequestOK, UseOK, CreationOK, InvalidationOK
  <2> QED
    BY <2>1, <2>3, <2>4, ReadStep DEF Moved, Reads
<1>2. CASE Database!HandleCreateInviteSubmit(w)
  <2>1. Reads /\ req[w].op = "invite"
    BY <1>2 DEF Database!HandleCreateInviteSubmit, Database!rows, Database!Still, Reads
  <2>2. \/ Database!To(w, "refused") \/ Database!To(w, "ensure")
        \/ Database!To(w, "insert") /\ \E m \in memberRows : m.id = req[w].id
    BY <1>2 DEF Database!HandleCreateInviteSubmit, Database!GetByID
  <2>3. PICK at \in {"refused", "ensure", "insert"}, r \in RequestRecs :
           Moved(r, w, at) /\ r.id = req[w].id /\ (at = "insert" => \E m \in memberRows : m.id = req[w].id)
    BY <2>2, ToMoves DEF Ats
  <2>4. RequestOK(r)
    BY <2>1, <2>3 DEF Moved, RequestOK, UseOK, CreationOK, InvalidationOK
  <2> QED
    BY <2>1, <2>3, <2>4, ReadStep DEF Moved, Reads
<1>3. CASE Database!HandleCreateInvite(w)
  <2>0. req[w].op = "invite"
    BY <1>3 DEF Database!HandleCreateInvite
  <2>1. CASE Database!Lookup(w, req[w].feed, "insert", "refused")
    <3>0. "insert" \in Ats /\ "refused" \in Ats
      BY DEF Ats
    <3>1. Reads
      BY <2>1, <3>0, LookupMoves
    <3>2. PICK at \in {"insert", "refused"}, r \in RequestRecs :
             Moved(r, w, at) /\ (at = "insert" => \E m \in memberRows : m.id = r.id)
      <4>1. \/ \E r \in RequestRecs, m \in memberRows : Moved(r, w, "insert") /\ r.id = m.id
            \/ \E r \in RequestRecs : Moved(r, w, "refused")
        BY <2>1, <3>0, LookupMoves
      <4> QED
        BY <4>1
    <3>3. RequestOK(r)
      BY <2>0, <3>2 DEF Moved, RequestOK, UseOK, CreationOK, InvalidationOK
    <3> QED
      BY <3>1, <3>2, <3>3, ReadStep DEF Moved, Reads
  <2>2. CASE Reads /\ \E at \in {"ensure", "refused"} : Database!To(w, at)
    <3>1. PICK at \in {"ensure", "refused"}, r \in RequestRecs : Moved(r, w, at)
      BY <2>2, ToMoves DEF Ats
    <3>2. RequestOK(r)
      BY <2>0, <3>1 DEF Moved, RequestOK, UseOK, CreationOK, InvalidationOK
    <3> QED
      BY <2>2, <3>1, <3>2, ReadStep DEF Moved, Reads
  <2>3. mode \in {"open", "community", "restricted"}
    BY <1>0 DEF RowsTypeOK
  <2> QED
    BY <1>3, <2>1, <2>2, <2>3 DEF Database!HandleCreateInvite, Database!rows, Database!Still, Reads
<1>4. CASE \/ Database!At(w, "invite", "ensure") /\ Database!Lookup(w, RoomFeed, "insert", "add")
           \/ Database!At(w, "invite", "again") /\ Database!Lookup(w, RoomFeed, "insert", "failed")
  <2>0. "insert" \in Ats /\ "add" \in Ats /\ "failed" \in Ats
    BY DEF Ats
  <2>1. Reads /\ req[w].op = "invite"
    BY <1>4, <2>0, LookupMoves
  <2>2. PICK at \in {"insert", "add", "failed"}, r \in RequestRecs :
           /\ Moved(r, w, at) /\ (at = "insert" => \E m \in memberRows : m.id = r.id)
           /\ at = "failed" => req[w].at = "again" /\ \A m \in memberRows : m.feed # RoomFeed
    <3>1. ASSUME NEW otherwise \in {"add", "failed"}, Database!Lookup(w, RoomFeed, "insert", otherwise)
          PROVE  \/ \E r \in RequestRecs, m \in memberRows : Moved(r, w, "insert") /\ r.id = m.id
                 \/ /\ \A m \in memberRows : m.feed # RoomFeed
                    /\ \E r \in RequestRecs : Moved(r, w, otherwise)
      <4>1. otherwise \in Ats
        BY <2>0
      <4> QED
        BY <3>1, <4>1, <2>0, LookupMoves
    <3> QED
      BY <1>4, <3>1
  <2>3. RequestOK(r)
    BY <2>1, <2>2, <1>0 DEF Moved, RequestOK, UseOK, CreationOK, InvalidationOK
  <2> QED
    BY <2>1, <2>2, <2>3, ReadStep DEF Moved, Reads
<1> QED
  BY <1>1, <1>2, <1>3, <1>4

\* A member is entered, with a key that is not there and an id that was never given.
LEMMA RowsWithMember ==
  ASSUME RowsInv, NEW f \in Everyone, NEW role \in Nat, \A m \in memberRows : m.feed # f,
         memberRows' = memberRows \cup {[id |-> lastId + 1, feed |-> f, role |-> role]},
         lastId' = lastId + 1, UNCHANGED << invites, tokens, answered, mode >>
  PROVE  RowsInv' /\ Keep
<1> DEFINE n == [id |-> lastId + 1, feed |-> f, role |-> role]
<1>0. RowsTypeOK /\ UniqueKeys /\ lastId \in Nat
  BY DEF RowsInv, RowsTypeOK
<1>1. n \in MemberRows /\ n.id = lastId + 1 /\ n.feed = f
  BY <1>0 DEF MemberRows
<1>2. memberRows' = memberRows \cup {n}
  OBVIOUS
<1> HIDE DEF n
<1>3. RowsTypeOK'
  BY <1>0, <1>1, <1>2 DEF RowsTypeOK
<1>4. \A m \in memberRows : m.id \in Nat /\ m.id <= lastId
  BY <1>0 DEF RowsTypeOK, MemberRows, UniqueKeys
<1>5. UniqueKeys'
  <2>1. \A m, k \in memberRows' : m.id = k.id \/ m.feed = k.feed => m = k
    BY <1>0, <1>1, <1>2, <1>4 DEF UniqueKeys
  <2>2. \A m \in memberRows' : m.id <= lastId'
    BY <1>0, <1>1, <1>2, <1>4
  <2>3. /\ \A i \in invites' : i.id <= lastId'
        /\ \A t \in tokens' : t.line <= lastId'
        /\ \A a \in answered' : a <= lastId'
    BY <1>0 DEF UniqueKeys, RowsTypeOK, InviteRows, TokenRows
  <2> QED
    BY <2>1, <2>2, <2>3, <1>0 DEF UniqueKeys
<1>6. Owned' /\ \A a \in answered' : Spent(a)'
  BY <1>2 DEF RowsInv, Owned, Spent
<1>7. Keep
  BY <1>0, <1>2 DEF Keep
<1> QED
  BY <1>3, <1>5, <1>6, <1>7 DEF RowsInv

\* The role of a member changes.
LEMMA RowsWithRole ==
  ASSUME RowsInv, NEW role \in Nat, NEW S \in SUBSET memberRows,
         memberRows' = {IF m \in S THEN [m EXCEPT !.role = role] ELSE m : m \in memberRows},
         UNCHANGED << invites, tokens, lastId, mode >>, answered \subseteq answered',
         answered' \subseteq Nat, \A a \in answered' : a <= lastId /\ Spent(a)
  PROVE  RowsInv' /\ Keep
<1>0. RowsTypeOK /\ UniqueKeys /\ lastId \in Nat
  BY DEF RowsInv, RowsTypeOK
<1>1. \A m \in memberRows : LET n == [m EXCEPT !.role = role] IN
         n \in MemberRows /\ n.id = m.id /\ n.feed = m.feed
  BY <1>0 DEF RowsTypeOK, MemberRows
<1>2. \A n \in memberRows' : /\ n \in MemberRows
                             /\ \E m \in memberRows : /\ n.id = m.id /\ n.feed = m.feed
                                                      /\ n = IF m \in S THEN [m EXCEPT !.role = role] ELSE m
  BY <1>0, <1>1 DEF RowsTypeOK
<1>3. \A m \in memberRows : \E n \in memberRows' : n.id = m.id /\ n.feed = m.feed
  BY <1>1
<1>4. RowsTypeOK'
  BY <1>0, <1>2 DEF RowsTypeOK
<1>5. UniqueKeys'
  <2>1. \A k, n \in memberRows' : k.id = n.id \/ k.feed = n.feed => k = n
    BY <1>0, <1>2 DEF UniqueKeys
  <2>2. \A m \in memberRows' : m.id <= lastId'
    BY <1>0, <1>2 DEF UniqueKeys
  <2> QED
    BY <2>1, <2>2, <1>0 DEF UniqueKeys
<1>6. Owned' /\ \A a \in answered' : Spent(a)'
  <2>1. Owned'
    <3>1. Owned /\ tokens' = tokens
      BY DEF RowsInv
    <3>2. ASSUME NEW t \in tokens PROVE \E n \in memberRows' : n.id = t.member
      <4>1. PICK m \in memberRows : m.id = t.member
        BY <3>1 DEF Owned
      <4> QED
        BY <4>1, <1>3
    <3> QED
      BY <3>1, <3>2 DEF Owned
  <2>2. \A a \in answered' : Spent(a)'
    BY DEF Spent
  <2> QED
    BY <2>1, <2>2
<1>7. Keep
  <2>1. lastId' >= lastId
    BY <1>0
  <2>2. \A j \in invites' : \E i \in invites : i.id = j.id /\ (j.active => i.active)
    OBVIOUS
  <2>3. \A u \in tokens' : \E t \in tokens : t.line = u.line /\ t.member = u.member
    OBVIOUS
  <2> QED
    BY <2>1, <2>2, <2>3, <1>3 DEF Keep
<1> QED
  BY <1>4, <1>5, <1>6, <1>7 DEF RowsInv

\* An invite is entered.
LEMMA RowsWithInvite ==
  ASSUME RowsInv, NEW creator \in Nat,
         invites' = invites \cup {[id |-> lastId + 1, creator |-> creator, active |-> TRUE]},
         lastId' = lastId + 1, UNCHANGED << memberRows, tokens, answered, mode >>
  PROVE  RowsInv' /\ Keep
<1> DEFINE n == [id |-> lastId + 1, creator |-> creator, active |-> TRUE]
<1>0. RowsTypeOK /\ UniqueKeys /\ lastId \in Nat
  BY DEF RowsInv, RowsTypeOK
<1>1. n \in InviteRows /\ n.id = lastId + 1
  BY <1>0 DEF InviteRows
<1>2. invites' = invites \cup {n}
  OBVIOUS
<1> HIDE DEF n
<1>3. RowsTypeOK'
  BY <1>0, <1>1, <1>2 DEF RowsTypeOK
<1>4. \A i \in invites : i.id \in Nat /\ i.id <= lastId
  BY <1>0 DEF RowsTypeOK, InviteRows, UniqueKeys
<1>5. UniqueKeys'
  <2>1. \A i, j \in invites' : i.id = j.id => i = j
    BY <1>0, <1>1, <1>2, <1>4 DEF UniqueKeys
  <2>2. \A i \in invites' : i.id <= lastId'
    BY <1>0, <1>1, <1>2, <1>4
  <2>3. /\ \A m \in memberRows' : m.id <= lastId'
        /\ \A t \in tokens' : t.line <= lastId'
        /\ \A a \in answered' : a <= lastId'
    BY <1>0 DEF UniqueKeys, RowsTypeOK, MemberRows, TokenRows
  <2> QED
    BY <2>1, <2>2, <2>3, <1>0 DEF UniqueKeys
<1>6. Owned' /\ \A a \in answered' : Spent(a)'
  <2>1. \A a \in answered : a \in Nat /\ a <= lastId
    BY <1>0 DEF RowsTypeOK, UniqueKeys
  <2> QED
    BY <2>1, <1>0, <1>1, <1>2 DEF RowsInv, Owned, Spent
<1>7. Keep
  BY <1>0, <1>1, <1>2, <1>4 DEF Keep
<1> QED
  BY <1>3, <1>5, <1>6, <1>7 DEF RowsInv

\* Invites become inactive, and one of them may be answered.
LEMMA RowsWithSpent ==
  ASSUME RowsInv, NEW S \in SUBSET invites,
         invites' = {IF i \in S THEN [i EXCEPT !.active = FALSE] ELSE i : i \in invites},
         UNCHANGED << memberRows, tokens, lastId, mode >>, answered \subseteq answered',
         \A a \in answered' : a \in answered \/ \E i \in S : i.id = a
  PROVE  RowsInv' /\ Keep
<1>0. RowsTypeOK /\ UniqueKeys /\ lastId \in Nat
  BY DEF RowsInv, RowsTypeOK
<1> DEFINE After(i) == IF i \in S THEN [i EXCEPT !.active = FALSE] ELSE i
<1>1. ASSUME NEW i \in invites
      PROVE  /\ After(i) \in InviteRows /\ After(i).id = i.id
             /\ After(i).active => i.active
             /\ i \in S => ~After(i).active
  <2>1. i \in InviteRows
    BY <1>0 DEF RowsTypeOK
  <2>2. LET n == [i EXCEPT !.active = FALSE] IN n \in InviteRows /\ n.id = i.id /\ n.active = FALSE
    BY <2>1 DEF InviteRows
  <2>3. CASE i \in S
    BY <2>2, <2>3
  <2>4. CASE i \notin S
    BY <2>1, <2>4
  <2> QED
    BY <2>3, <2>4
<1>a. invites' = {After(i) : i \in invites}
  OBVIOUS
<1> HIDE DEF After
<1>2. \A n \in invites' : /\ n \in InviteRows
                          /\ \E i \in invites : /\ n.id = i.id /\ (n.active => i.active)
                                                /\ n = After(i) /\ (i \in S => ~n.active)
  <2> SUFFICES ASSUME NEW n \in invites'
               PROVE  /\ n \in InviteRows
                      /\ \E i \in invites : /\ n.id = i.id /\ (n.active => i.active)
                                            /\ n = After(i) /\ (i \in S => ~n.active)
    OBVIOUS
  <2>1. PICK i \in invites : n = After(i)
    BY <1>a
  <2> QED
    BY <2>1, <1>1
<1>3. RowsTypeOK'
  <2>1. \A a \in answered' : a \in Nat
    BY <1>0 DEF RowsTypeOK, InviteRows
  <2> QED
    BY <2>1, <1>0, <1>2 DEF RowsTypeOK
<1>4. UniqueKeys'
  <2>1. \A i, j \in invites' : i.id = j.id => i = j
    BY <1>0, <1>2 DEF UniqueKeys
  <2>2. \A i \in invites' : i.id <= lastId'
    BY <1>0, <1>2 DEF UniqueKeys
  <2>3. \A a \in answered' : a <= lastId'
    BY <1>0 DEF UniqueKeys
  <2> QED
    BY <2>1, <2>2, <2>3, <1>0 DEF UniqueKeys
<1>5. ASSUME NEW a \in answered' PROVE Spent(a)'
  <2> SUFFICES ASSUME NEW n \in invites', n.id = a PROVE ~n.active
    BY DEF Spent
  <2>1. PICK i \in invites : n.id = i.id /\ (n.active => i.active) /\ (i \in S => ~n.active)
    BY <1>2
  <2>2. CASE a \in answered
    BY <2>1, <2>2 DEF RowsInv, Spent
  <2>3. CASE a \notin answered
    <3>1. PICK j \in S : j.id = a
      BY <2>3
    <3>2. i = j
      BY <3>1, <2>1, <1>0 DEF UniqueKeys
    <3> QED
      BY <3>1, <3>2, <2>1
  <2> QED
    BY <2>2, <2>3
<1>6. Owned'
  BY DEF RowsInv, Owned
<1>7. Keep
  BY <1>0, <1>2 DEF Keep
<1> QED
  BY <1>3, <1>4, <1>5, <1>6, <1>7 DEF RowsInv

\* Sign-ins go, are rotated, or one is entered for a member that is there.
LEMMA RowsWithTokens ==
  ASSUME RowsInv, tokens' \subseteq TokenRows, lastId' \in {lastId, lastId + 1}, NEW owner,
         \A u \in tokens' : \/ \E t \in tokens : t.line = u.line /\ t.member = u.member
                            \/ /\ lastId' = lastId + 1 /\ u.line = lastId + 1 /\ u.member = owner
                               /\ \E m \in memberRows : m.id = owner,
         UNCHANGED << memberRows, invites, answered, mode >>
  PROVE  RowsInv' /\ Keep
<1>0. RowsTypeOK /\ UniqueKeys /\ lastId \in Nat /\ lastId' \in Nat /\ lastId' >= lastId
  BY DEF RowsInv, RowsTypeOK
<1>1. RowsTypeOK'
  BY <1>0 DEF RowsTypeOK
<1>2. \A t \in tokens : t.line \in Nat /\ t.line <= lastId
  BY <1>0 DEF RowsTypeOK, TokenRows, UniqueKeys
<1>3. UniqueKeys'
  <2>1. \A u \in tokens' : u.line <= lastId'
    BY <1>0, <1>2
  <2>2. \A u, v \in tokens' : u.line = v.line => u.member = v.member
    BY <1>0, <1>2 DEF UniqueKeys
  <2>3. /\ \A m \in memberRows' : m.id <= lastId'
        /\ \A i \in invites' : i.id <= lastId'
        /\ \A a \in answered' : a <= lastId'
    BY <1>0 DEF UniqueKeys, RowsTypeOK, MemberRows, InviteRows
  <2> QED
    BY <2>1, <2>2, <2>3, <1>0 DEF UniqueKeys
<1>4. Owned'
  BY DEF RowsInv, Owned
<1>5. \A a \in answered' : Spent(a)'
  BY DEF RowsInv, Spent
<1>6. Keep
  <2>1. \A u \in tokens' : u.line > lastId \/ \E t \in tokens : t.line = u.line /\ t.member = u.member
    BY <1>0
  <2>2. /\ \A m \in memberRows : \E n \in memberRows' : n.id = m.id /\ n.feed = m.feed
        /\ \A j \in invites' : \E i \in invites : i.id = j.id /\ (j.active => i.active)
    OBVIOUS
  <2> QED
    BY <2>1, <2>2, <1>0 DEF Keep
<1> QED
  BY <1>1, <1>3, <1>4, <1>5, <1>6 DEF RowsInv

\* Members.Add on behalf of a request.
LEMMA AddMemberMoves ==
  ASSUME DatabaseInv, NEW w \in Workers, NEW f \in Everyone, NEW role \in Nat,
         NEW added \in Ats, NEW failed \in Ats, Database!AddMember(w, f, role, added, failed)
  PROVE  \/ /\ Reads /\ \E m \in memberRows : m.feed = f
            /\ \E r \in RequestRecs : Moved(r, w, failed)
         \/ /\ RowsInv' /\ Keep /\ \E r \in RequestRecs : Moved(r, w, added) /\ \E m \in memberRows' : m.id = r.id
<1>0. RowsInv /\ lastId + 1 \in Nat
  BY DEF DatabaseInv, RowsInv, RowsTypeOK
<1>1. CASE Database!IsMember(f)
  <2>1. Reads /\ Database!To(w, failed) /\ \E m \in memberRows : m.feed = f
    BY <1>1 DEF Database!AddMember, Database!rows, Database!Still, Reads, Database!IsMember,
       Database!GetByFeed
  <2> QED
    BY <2>1, ToMoves
<1>2. CASE ~Database!IsMember(f)
  <2>1. /\ memberRows' = memberRows \cup {[id |-> lastId + 1, feed |-> f, role |-> role]}
        /\ lastId' = lastId + 1 /\ UNCHANGED << invites, tokens, answered, mode >>
        /\ Database!ToWith(w, added, lastId + 1) /\ \A m \in memberRows : m.feed # f
    BY <1>2 DEF Database!AddMember, Database!Still, Database!IsMember, Database!GetByFeed
  <2>2. RowsInv' /\ Keep
    BY <2>1, <1>0, RowsWithMember
  <2>3. PICK r \in RequestRecs : Moved(r, w, added) /\ r.id = lastId + 1
    BY <2>1, <1>0, ToWithMoves
  <2>4. \E m \in memberRows' : m.id = lastId + 1
    <3>1. PICK n : n = [id |-> lastId + 1, feed |-> f, role |-> role]
      OBVIOUS
    <3>2. n \in memberRows' /\ n.id = lastId + 1
      BY <2>1, <3>1
    <3> QED
      BY <3>2
  <2> QED
    BY <2>2, <2>3, <2>4
<1> QED
  BY <1>1, <1>2

\* The statements of Invites.Consume that write.
LEMMA ConsumeWrites ==
  ASSUME DatabaseInv, NEW w \in Workers,
         \/ Database!At(w, "consume", "add")
            /\ Database!AddMember(w, req[w].feed, Database!Member, "spend", "failed")
         \/ Database!ConsumeSpend(w) \/ Database!ConsumeRole(w)
  PROVE  DatabaseInv'
<1> USE DEF Database!At
<1>0. RequestOK(req[w]) /\ RowsInv /\ RowsTypeOK /\ UniqueKeys /\ req[w] \in RequestRecs
  BY DEF DatabaseInv, RowsInv
<1>1. CASE /\ Database!At(w, "consume", "add")
           /\ Database!AddMember(w, req[w].feed, Database!Member, "spend", "failed")
  <2>1. req[w].feed \in Everyone /\ Database!Member \in Nat
    BY <1>0 DEF RequestRecs, Database!Member
  <2>2. CASE Reads /\ \E r \in RequestRecs : Moved(r, w, "failed")
    <3>1. PICK r \in RequestRecs : Moved(r, w, "failed")
      BY <2>2
    <3>2. RequestOK(r)
      BY <1>1, <3>1, <1>0 DEF Moved, RequestOK, UseOK, CreationOK, InvalidationOK
    <3> QED
      BY <2>2, <3>1, <3>2, ReadStep DEF Moved, Reads
  <2>3. CASE RowsInv' /\ Keep /\ \E r \in RequestRecs : Moved(r, w, "spend")
    <3>1. PICK r \in RequestRecs : Moved(r, w, "spend")
      BY <2>3
    <3>2. r.op = "consume" /\ r.arg \in Nat /\ r.arg <= lastId /\ ~r.stale /\ r.at = "spend"
      BY <1>1, <3>1, <1>0 DEF Moved, RequestOK, UseOK
    <3>3. lastId \in Nat /\ lastId' \in Nat /\ lastId' >= lastId
      BY <2>3, <1>0 DEF RowsInv, RowsTypeOK, Keep
    <3>4. r.arg <= lastId'
      BY <3>2, <3>3
    <3>5. RequestOK(r)'
      BY <3>2, <3>4 DEF RequestOK, UseOK, CreationOK, InvalidationOK
    <3> QED
      BY <2>3, <3>1, <3>5, RequestStep DEF Moved
  <2>4. "spend" \in Ats /\ "failed" \in Ats
    BY DEF Ats
  <2>5. \/ Reads /\ \E r \in RequestRecs : Moved(r, w, "failed")
        \/ RowsInv' /\ Keep /\ \E r \in RequestRecs : Moved(r, w, "spend")
    BY <1>1, <2>1, <2>4, AddMemberMoves
  <2> QED
    BY <2>2, <2>3, <2>5
<1>2. CASE Database!ConsumeSpend(w)
  <2> DEFINE S == {i \in invites : i.id = req[w].arg}
  <2>1. /\ req[w].op = "consume" /\ req[w].at = "spend" /\ Database!To(w, "role")
        /\ invites' = {IF i.id = req[w].arg THEN [i EXCEPT !.active = FALSE] ELSE i : i \in invites}
        /\ UNCHANGED << memberRows, tokens, lastId, mode, answered >>
    BY <1>2 DEF Database!ConsumeSpend, Database!Still
  <2>2. invites' = {IF i \in S THEN [i EXCEPT !.active = FALSE] ELSE i : i \in invites}
    BY <2>1
  <2>3. RowsInv' /\ Keep
    BY <2>1, <2>2, <1>0, RowsWithSpent
  <2>4. PICK r \in RequestRecs : Moved(r, w, "role")
    BY <2>1, ToMoves DEF Ats
  <2>5. \A n \in invites' : n.id = req[w].arg => ~n.active
    <3> SUFFICES ASSUME NEW n \in invites', n.id = req[w].arg PROVE ~n.active
      OBVIOUS
    <3>1. PICK i \in invites : n = IF i.id = req[w].arg THEN [i EXCEPT !.active = FALSE] ELSE i
      BY <2>1
    <3>2. i \in InviteRows
      BY <1>0 DEF RowsTypeOK
    <3>3. CASE i.id = req[w].arg
      BY <3>1, <3>2, <3>3 DEF InviteRows
    <3>4. CASE i.id # req[w].arg
      BY <3>1, <3>4
    <3> QED
      BY <3>3, <3>4
  <2>6. /\ r.op = "consume" /\ r.arg = req[w].arg /\ r.arg \in Nat /\ r.arg <= lastId' /\ ~r.stale
        /\ r.at = "role"
    BY <2>1, <2>4, <1>0 DEF Moved, RequestOK, UseOK
  <2>7. RequestOK(r)'
    BY <2>5, <2>6 DEF RequestOK, UseOK, CreationOK, InvalidationOK, Spent
  <2> QED
    BY <2>3, <2>4, <2>7, RequestStep DEF Moved
<1>3. CASE Database!ConsumeRole(w)
  <2> DEFINE S == {m \in memberRows : m.id = req[w].id}
  <2>1. /\ req[w].op = "consume" /\ req[w].at = "role" /\ Database!To(w, "ok")
        /\ memberRows' = {IF m.id = req[w].id THEN [m EXCEPT !.role = 1] ELSE m : m \in memberRows}
        /\ answered' = answered \cup {req[w].arg}
        /\ UNCHANGED << invites, tokens, lastId, mode >>
    BY <1>3 DEF Database!ConsumeRole, Database!Member
  <2>2. memberRows' = {IF m \in S THEN [m EXCEPT !.role = 1] ELSE m : m \in memberRows}
    BY <2>1
  <2>3. req[w].arg \in Nat /\ req[w].arg <= lastId /\ Spent(req[w].arg) /\ ~req[w].stale
    BY <2>1, <1>0 DEF RequestOK, UseOK
  <2>4. answered' \subseteq Nat /\ \A a \in answered' : a <= lastId /\ Spent(a)
    BY <2>1, <2>3, <1>0 DEF RowsInv, RowsTypeOK, UniqueKeys
  <2>s. S \in SUBSET memberRows /\ 1 \in Nat
    OBVIOUS
  <2> HIDE DEF S
  <2>5. RowsInv' /\ Keep
    BY <2>1, <2>2, <2>4, <2>s, <1>0, RowsWithRole
  <2>6. PICK r \in RequestRecs : Moved(r, w, "ok")
    BY <2>1, ToMoves DEF Ats
  <2>7. RequestOK(r)'
    BY <2>1, <2>3, <2>6 DEF Moved, RequestOK, UseOK, CreationOK, InvalidationOK
  <2> QED
    BY <2>5, <2>6, <2>7, RequestStep DEF Moved
<1> QED
  BY <1>1, <1>2, <1>3

\* The statements that enter the room's own member and the invite, and the revocation.
LEMMA InviteWrites ==
  ASSUME DatabaseInv, NEW w \in Workers,
         \/ Database!At(w, "invite", "add")
            /\ Database!AddMember(w, RoomFeed, Database!Admin, "insert", "again")
         \/ Database!CreateInsert(w) \/ Database!HandleInviteRevoke(w)
  PROVE  DatabaseInv'
<1> USE DEF Database!At
<1>0. RequestOK(req[w]) /\ RowsInv /\ RowsTypeOK /\ UniqueKeys /\ req[w] \in RequestRecs
  BY DEF DatabaseInv, RowsInv
<1>1. CASE /\ Database!At(w, "invite", "add")
           /\ Database!AddMember(w, RoomFeed, Database!Admin, "insert", "again")
  <2>1. RoomFeed \in Everyone /\ Database!Admin \in Nat
    BY DEF Everyone, Database!Admin
  <2>2. CASE Reads /\ (\E m \in memberRows : m.feed = RoomFeed) /\ \E r \in RequestRecs : Moved(r, w, "again")
    <3>1. PICK r \in RequestRecs : Moved(r, w, "again")
      BY <2>2
    <3>2. RequestOK(r)
      BY <1>1, <2>2, <3>1 DEF Moved, RequestOK, UseOK, CreationOK, InvalidationOK
    <3> QED
      BY <2>2, <3>1, <3>2, ReadStep DEF Moved, Reads
  <2>3. CASE RowsInv' /\ Keep
             /\ \E r \in RequestRecs : Moved(r, w, "insert") /\ \E m \in memberRows' : m.id = r.id
    <3>1. PICK r \in RequestRecs : Moved(r, w, "insert") /\ \E m \in memberRows' : m.id = r.id
      BY <2>3
    <3>2. RequestOK(r)'
      BY <1>1, <3>1 DEF Moved, RequestOK, UseOK, CreationOK, InvalidationOK
    <3> QED
      BY <2>3, <3>1, <3>2, RequestStep DEF Moved
  <2> QED
    BY <1>1, <2>1, <2>2, <2>3, AddMemberMoves DEF Ats
<1>2. CASE Database!CreateInsert(w)
  <2>0. req[w].op = "invite" /\ req[w].at = "insert" /\ req[w].id \in Nat
    BY <1>2, <1>0 DEF Database!CreateInsert, RequestRecs
  <2>1. CASE Database!GetByID(req[w].id) = {}
    <3>1. Reads /\ Database!To(w, "failed") /\ \A m \in memberRows : m.id # req[w].id
      BY <1>2, <2>1 DEF Database!CreateInsert, Database!rows, Database!Still, Reads, Database!GetByID
    <3>2. PICK r \in RequestRecs : Moved(r, w, "failed")
      BY <3>1, ToMoves DEF Ats
    <3>3. RequestOK(r)
      BY <2>0, <3>1, <3>2, <1>0 DEF Moved, RequestOK, UseOK, CreationOK, InvalidationOK
    <3> QED
      BY <3>1, <3>2, <3>3, ReadStep DEF Moved, Reads
  <2>2. CASE Database!GetByID(req[w].id) # {}
    <3>1. /\ invites' = invites \cup {[id |-> lastId + 1, creator |-> req[w].id, active |-> TRUE]}
          /\ lastId' = lastId + 1 /\ Database!To(w, "ok")
          /\ UNCHANGED << memberRows, tokens, answered, mode >>
      BY <1>2, <2>2 DEF Database!CreateInsert, Database!Still
    <3>2. RowsInv' /\ Keep
      BY <2>0, <3>1, <1>0, RowsWithInvite
    <3>3. PICK r \in RequestRecs : Moved(r, w, "ok")
      BY <3>1, ToMoves DEF Ats
    <3>4. RequestOK(r)'
      BY <2>0, <3>3 DEF Moved, RequestOK, UseOK, CreationOK, InvalidationOK
    <3> QED
      BY <3>2, <3>3, <3>4, RequestStep DEF Moved
  <2> QED
    BY <2>1, <2>2
<1>3. CASE Database!HandleInviteRevoke(w)
  <2>0. req[w].op = "unlink"
    BY <1>3 DEF Database!HandleInviteRevoke
  <2>1. CASE ~Database!CanRevokeInvite(req[w].id)
    <3>1. Reads /\ Database!To(w, "refused")
      BY <1>3, <2>1 DEF Database!HandleInviteRevoke, Database!rows, Reads
    <3>2. PICK r \in RequestRecs : Moved(r, w, "refused")
      BY <3>1, ToMoves DEF Ats
    <3>3. RequestOK(r)
      BY <2>0, <3>2, FreeRequest DEF Moved
    <3> QED
      BY <3>1, <3>2, <3>3, ReadStep DEF Moved, Reads
  <2>2. CASE Database!CanRevokeInvite(req[w].id)
    <3>1. PICK i \in invites :
             /\ invites' = (invites \ {i}) \cup {[i EXCEPT !.active = FALSE]}
             /\ answered' = answered \cup {i.id} /\ Database!To(w, "ok")
             /\ UNCHANGED << memberRows, tokens, lastId, mode >>
      BY <1>3, <2>2 DEF Database!HandleInviteRevoke
    <3>2. invites' = {IF j \in {i} THEN [j EXCEPT !.active = FALSE] ELSE j : j \in invites}
      BY <3>1
    <3>3. RowsInv' /\ Keep
      BY <3>1, <3>2, <1>0, RowsWithSpent
    <3>4. PICK r \in RequestRecs : Moved(r, w, "ok")
      BY <3>1, ToMoves DEF Ats
    <3>5. RequestOK(r)'
      BY <2>0, <3>4, FreeRequest DEF Moved
    <3> QED
      BY <3>3, <3>4, <3>5, RequestStep DEF Moved
  <2> QED
    BY <2>1, <2>2
<1> QED
  BY <1>1, <1>2, <1>3

\* Aliases and sign-in: requests that none of the conditions binds.
LEMMA OtherReads ==
  ASSUME DatabaseInv, NEW w \in Workers,
         \/ Database!AliasBegin(w) \/ Database!RegisterAlias(w) \/ Database!RevokeAlias(w)
         \/ Database!HandleLoginSubmit(w) \/ Database!HandleLogin(w)
  PROVE  DatabaseInv'
<1> USE DEF Database!At, Database!rows, Database!Still, Reads
<1>0. RowsTypeOK
  BY DEF DatabaseInv, RowsInv
<1>1. CASE Database!AliasBegin(w)
  <2>1. Reads /\ req[w].op \in {"register", "revoke"} /\ \E at \in {"lookup", "failed"} : Database!To(w, at)
    BY <1>1 DEF Database!AliasBegin
  <2>2. PICK r \in RequestRecs, at \in {"lookup", "failed"} : Moved(r, w, at)
    BY <2>1, ToMoves DEF Ats
  <2> QED
    BY <2>1, <2>2, FreeRequest, ReadStep DEF Moved
<1>2. CASE Database!RegisterAlias(w)
  <2>0. req[w].op = "register"
    BY <1>2 DEF Database!RegisterAlias
  <2>1. CASE Database!Lookup(w, req[w].feed, "insert", "failed")
    <3>1. Reads
      BY <2>1, LookupMoves DEF Ats
    <3>2. PICK r \in RequestRecs, at \in {"insert", "failed"} : Moved(r, w, at)
      BY <2>1, LookupMoves DEF Ats
    <3> QED
      BY <2>0, <3>1, <3>2, FreeRequest, ReadStep DEF Moved
  <2>2. CASE Reads /\ \E at \in {"ok", "failed"} : Database!To(w, at)
    <3>1. PICK r \in RequestRecs, at \in {"ok", "failed"} : Moved(r, w, at)
      BY <2>2, ToMoves DEF Ats
    <3> QED
      BY <2>0, <2>2, <3>1, FreeRequest, ReadStep DEF Moved
  <2> QED
    BY <1>2, <2>1, <2>2 DEF Database!RegisterAlias
<1>3. CASE Database!RevokeAlias(w)
  <2>1. /\ req[w].op = "revoke" /\ Reads
        /\ \E at \in {"delete", "failed", "ok"} : Database!To(w, at)
    BY <1>3 DEF Database!RevokeAlias
  <2>2. PICK r \in RequestRecs, at \in {"delete", "failed", "ok"} : Moved(r, w, at)
    BY <2>1, ToMoves DEF Ats
  <2> QED
    BY <2>1, <2>2, FreeRequest, ReadStep DEF Moved
<1>4. CASE Database!HandleLoginSubmit(w)
  <2>1. req[w].op = "signin" /\ Reads
    BY <1>4 DEF Database!HandleLoginSubmit
  <2>2. Database!To(w, "failed") \/ \E id \in Nat : Database!ToWith(w, "issue", id)
    BY <1>4, <1>0 DEF Database!HandleLoginSubmit, Database!GetByFeed, RowsTypeOK, MemberRows
  <2>3. PICK r \in RequestRecs, at \in {"failed", "issue"} : Moved(r, w, at)
    BY <2>2, ToMoves, ToWithMoves DEF Ats
  <2> QED
    BY <2>1, <2>3, FreeRequest, ReadStep DEF Moved
<1>5. CASE Database!HandleLogin(w)
  <2>1. req[w].op = "signin" /\ Database!Lookup(w, req[w].feed, "issue", "failed")
    BY <1>5 DEF Database!HandleLogin
  <2>2. Reads
    BY <2>1, LookupMoves DEF Ats
  <2>3. PICK r \in RequestRecs, at \in {"issue", "failed"} : Moved(r, w, at)
    BY <2>1, LookupMoves DEF Ats
  <2> QED
    BY <2>1, <2>2, <2>3, FreeRequest, ReadStep DEF Moved
<1> QED
  BY <1>1, <1>2, <1>3, <1>4, <1>5

\* The requests that change the sign-ins.
LEMMA TokenWrites ==
  ASSUME DatabaseInv, NEW w \in Workers,
         \/ Database!CreateToken(w) \/ Database!Invalidate(w)
         \/ Database!RotateToken(w) \/ Database!ResetPassword(w)
  PROVE  DatabaseInv'
<1> USE DEF Database!At, Database!rows, Database!Still, Reads
<1>0. RequestOK(req[w]) /\ RowsInv /\ RowsTypeOK /\ UniqueKeys /\ req[w] \in RequestRecs
  BY DEF DatabaseInv, RowsInv
<1>t. lastId \in Nat /\ tokens \subseteq TokenRows
  BY <1>0 DEF RowsTypeOK
<1>1. CASE Database!CreateToken(w)
  <2>0. req[w].op = "signin" /\ req[w].id \in Nat
    BY <1>1, <1>0 DEF Database!CreateToken, RequestRecs
  <2>1. CASE Database!GetByID(req[w].id) = {}
    <3>1. Reads /\ Database!To(w, "failed")
      BY <1>1, <2>1 DEF Database!CreateToken
    <3>2. PICK r \in RequestRecs : Moved(r, w, "failed")
      BY <3>1, ToMoves DEF Ats
    <3> QED
      BY <2>0, <3>1, <3>2, FreeRequest, ReadStep DEF Moved
  <2>2. CASE Database!GetByID(req[w].id) # {}
    <3> DEFINE n == [id |-> lastId + 1, member |-> req[w].id, line |-> lastId + 1]
    <3>1. /\ tokens' = tokens \cup {n} /\ lastId' = lastId + 1 /\ Database!To(w, "ok")
          /\ UNCHANGED << memberRows, invites, answered, mode >>
          /\ \E m \in memberRows : m.id = req[w].id
      BY <1>1, <2>2 DEF Database!CreateToken, Database!GetByID
    <3>2. n \in TokenRows /\ n.member = req[w].id /\ n.line = lastId + 1
      BY <2>0, <1>t DEF TokenRows
    <3> HIDE DEF n
    <3>3. tokens' \subseteq TokenRows
      BY <3>1, <3>2, <1>t
    <3>4. RowsInv' /\ Keep
      BY <3>1, <3>2, <3>3, <1>0, RowsWithTokens
    <3>5. PICK r \in RequestRecs : Moved(r, w, "ok")
      BY <3>1, ToMoves DEF Ats
    <3> QED
      BY <2>0, <3>4, <3>5, FreeRequest, RequestStep DEF Moved
  <2> QED
    BY <2>1, <2>2
<1>2. CASE /\ Database!At(w, "invalidate", "begin")
           /\ Database!Lookup(w, req[w].feed, "wipe", "failed")
  <2>1. Reads
    BY <1>2, LookupMoves DEF Ats
  <2>2. CASE \E r \in RequestRecs, m \in memberRows :
                Moved(r, w, "wipe") /\ m.feed = req[w].feed /\ r.id = m.id
    <3>1. PICK r \in RequestRecs, m \in memberRows :
             Moved(r, w, "wipe") /\ m.feed = req[w].feed /\ r.id = m.id
      BY <2>2
    <3>2. ASSUME NEW t \in tokens, t.line \in req[w].seen PROVE t.member = m.id
      <4>1. PICK n \in memberRows : n.id = t.member /\ n.feed = req[w].feed
        BY <1>2, <3>2, <1>0 DEF RequestOK, InvalidationOK
      <4> QED
        BY <4>1, <3>1, <1>0 DEF UniqueKeys
    <3>3. RequestOK(r)
      BY <1>2, <3>1, <3>2, <1>0 DEF Moved, RequestOK, UseOK, CreationOK, InvalidationOK
    <3> QED
      BY <2>1, <3>1, <3>3, ReadStep DEF Moved
  <2>3. CASE \E r \in RequestRecs : Moved(r, w, "failed")
    <3>1. PICK r \in RequestRecs : Moved(r, w, "failed")
      BY <2>3
    <3>2. RequestOK(r)
      BY <1>2, <3>1, <1>0 DEF Moved, RequestOK, UseOK, CreationOK, InvalidationOK
    <3> QED
      BY <2>1, <3>1, <3>2, ReadStep DEF Moved
  <2>4. "wipe" \in Ats /\ "failed" \in Ats /\ Database!Lookup(w, req[w].feed, "wipe", "failed")
    BY <1>2 DEF Ats
  <2>5. \/ \E r \in RequestRecs, m \in memberRows :
              Moved(r, w, "wipe") /\ m.feed = req[w].feed /\ r.id = m.id
        \/ \E r \in RequestRecs : Moved(r, w, "failed")
    BY <2>4, LookupMoves
  <2> QED
    BY <2>2, <2>3, <2>5
<1>3. CASE Database!Invalidate(w) /\ ~Database!At(w, "invalidate", "begin")
  <2>1. /\ req[w].op = "invalidate" /\ req[w].at = "wipe" /\ Database!To(w, "ok")
        /\ tokens' = {t \in tokens : t.member # req[w].id}
        /\ UNCHANGED << memberRows, invites, lastId, answered, mode >>
    BY <1>3 DEF Database!Invalidate
  <2>2. RowsInv' /\ Keep
    BY <2>1, <1>0, <1>t, RowsWithTokens
  <2>3. PICK r \in RequestRecs : Moved(r, w, "ok")
    BY <2>1, ToMoves DEF Ats
  <2>4. \A t \in tokens' : t.line \notin r.seen
    BY <2>1, <2>3, <1>0 DEF Moved, RequestOK, InvalidationOK
  <2>5. RequestOK(r)'
    BY <2>1, <2>3, <2>4, <1>0 DEF Moved, RequestOK, UseOK, CreationOK, InvalidationOK
  <2> QED
    BY <2>2, <2>3, <2>5, RequestStep DEF Moved
<1>4. CASE Database!RotateToken(w)
  <2> DEFINE old == {t \in tokens : t.id = req[w].arg}
  <2>0. req[w].op = "rotate"
    BY <1>4 DEF Database!RotateToken
  <2>1. CASE old = {}
    <3>1. Reads /\ Database!To(w, "failed")
      BY <1>4, <2>1 DEF Database!RotateToken
    <3>2. PICK r \in RequestRecs : Moved(r, w, "failed")
      BY <3>1, ToMoves DEF Ats
    <3> QED
      BY <2>0, <3>1, <3>2, FreeRequest, ReadStep DEF Moved
  <2>2. CASE old # {}
    <3>1. /\ tokens' = (tokens \ old) \cup {[t EXCEPT !.id = lastId + 1] : t \in old}
          /\ lastId' = lastId + 1 /\ Database!To(w, "ok")
          /\ UNCHANGED << memberRows, invites, answered, mode >>
      BY <1>4, <2>2 DEF Database!RotateToken
    <3>2. \A t \in tokens : LET n == [t EXCEPT !.id = lastId + 1] IN
             n \in TokenRows /\ n.line = t.line /\ n.member = t.member
      BY <1>t DEF TokenRows
    <3>3. \A u \in tokens' : u \in TokenRows /\ \E t \in tokens : t.line = u.line /\ t.member = u.member
      <4>1. \A u \in tokens' : u \in tokens \/ \E t \in tokens : u = [t EXCEPT !.id = lastId + 1]
        BY <3>1
      <4> QED
        BY <4>1, <3>2, <1>t
    <3>4. tokens' \subseteq TokenRows
      BY <3>3
    <3>5. RowsInv' /\ Keep
      BY <3>1, <3>3, <3>4, <1>0, RowsWithTokens
    <3>6. PICK r \in RequestRecs : Moved(r, w, "ok")
      BY <3>1, ToMoves DEF Ats
    <3> QED
      BY <2>0, <3>5, <3>6, FreeRequest, RequestStep DEF Moved
  <2> QED
    BY <2>1, <2>2
<1>5. CASE Database!ResetPassword(w)
  <2>0. req[w].op = "reset"
    BY <1>5 DEF Database!ResetPassword
  <2>1. /\ \E at \in {"delete", "failed", "ok"} : Database!To(w, at)
        /\ tokens' \subseteq tokens
        /\ UNCHANGED << memberRows, invites, lastId, answered, mode >>
    BY <1>5 DEF Database!ResetPassword
  <2>2. RowsInv' /\ Keep
    BY <2>1, <1>0, <1>t, RowsWithTokens
  <2>3. PICK r \in RequestRecs, at \in {"delete", "failed", "ok"} : Moved(r, w, at)
    BY <2>1, ToMoves DEF Ats
  <2> QED
    BY <2>0, <2>2, <2>3, FreeRequest, RequestStep DEF Moved
<1> QED
  BY <1>1, <1>2, <1>3, <1>4, <1>5 DEF Database!Invalidate

\* What the operator does to the tables, but the removal of a member, disturbs no request.
LEMMA OperatorStep ==
  ASSUME DatabaseInv, RowsInv', Keep, UNCHANGED req
  PROVE  DatabaseInv'
<1>1. req \in [Workers -> RequestRecs] /\ RowsInv /\ RowsTypeOK'
  BY DEF DatabaseInv, RowsInv
<1>2. ASSUME NEW v \in Workers PROVE RequestOK(req[v])'
  <2>1. PICK s \in RequestRecs : s = req[v] /\ s = req'[v]
    BY <1>1
  <2>2. RequestOK(s)
    BY <2>1 DEF DatabaseInv
  <2>3. RequestOK(s)'
    BY <2>2, <1>1, KeepsRequest
  <2> QED
    BY <2>1, <2>3
<1> QED
  BY <1>1, <1>2 DEF DatabaseInv

\* The operator enters members and invites, sets roles and revokes invites.
LEMMA OperatorWrites ==
  ASSUME DatabaseInv,
         \/ \E f \in Identities : \/ Database!DeniedChange(f)
                                  \/ \E role \in {1, 3} : Database!MemberAdd(f, role)
         \/ \E m \in memberRows : \/ Database!InviteCreate(m)
                                  \/ \E role \in {1, 3} : Database!MemberRoleSet(m, role)
         \/ \E i \in invites : Database!InviteRevoke(i)
         \/ \E a \in aliases : Database!OperatorAliasRevoke(a)
  PROVE  DatabaseInv'
<1>0. RowsInv /\ RowsTypeOK
  BY DEF DatabaseInv, RowsInv
<1>1. ASSUME NEW f \in Identities, NEW role \in {1, 3}, Database!MemberAdd(f, role) PROVE DatabaseInv'
  <2>1. /\ f \in Everyone /\ role \in Nat /\ UNCHANGED req
        /\ \A m \in memberRows : m.feed # f
        /\ memberRows' = memberRows \cup {[id |-> lastId + 1, feed |-> f, role |-> role]}
        /\ lastId' = lastId + 1 /\ UNCHANGED << invites, tokens, answered, mode >>
    BY <1>1 DEF Database!MemberAdd, Database!IsMember, Database!GetByFeed, Everyone
  <2>2. RowsInv' /\ Keep
    BY <1>0, <2>1, RowsWithMember
  <2> QED
    BY <2>1, <2>2, OperatorStep
<1>2. ASSUME NEW m \in memberRows, NEW role \in {1, 3}, Database!MemberRoleSet(m, role) PROVE DatabaseInv'
  <2>1. /\ role \in Nat /\ UNCHANGED << req, invites, tokens, lastId, mode, answered >>
        /\ memberRows' = (memberRows \ {m}) \cup {[m EXCEPT !.role = role]}
    BY <1>2 DEF Database!MemberRoleSet
  <2>2. memberRows' = {IF n \in {m} THEN [n EXCEPT !.role = role] ELSE n : n \in memberRows}
    BY <2>1
  <2>3. \A a \in answered' : a <= lastId /\ Spent(a)
    BY <1>0, <2>1 DEF RowsInv, UniqueKeys
  <2>4. answered \subseteq answered' /\ answered' \subseteq Nat /\ {m} \in SUBSET memberRows
    BY <1>0, <2>1 DEF RowsTypeOK
  <2>5. RowsInv' /\ Keep
    BY <1>0, <2>1, <2>2, <2>3, <2>4, RowsWithRole
  <2> QED
    BY <2>1, <2>5, OperatorStep
<1>3. ASSUME NEW m \in memberRows, Database!InviteCreate(m) PROVE DatabaseInv'
  <2>1. /\ m.id \in Nat /\ UNCHANGED << req, memberRows, tokens, answered, mode >>
        /\ invites' = invites \cup {[id |-> lastId + 1, creator |-> m.id, active |-> TRUE]}
        /\ lastId' = lastId + 1
    BY <1>0, <1>3 DEF Database!InviteCreate, RowsTypeOK, MemberRows
  <2>2. RowsInv' /\ Keep
    BY <1>0, <2>1, RowsWithInvite
  <2> QED
    BY <2>1, <2>2, OperatorStep
<1>4. ASSUME NEW i \in invites, Database!InviteRevoke(i) PROVE DatabaseInv'
  <2>1. /\ UNCHANGED << req, memberRows, tokens, lastId, mode >>
        /\ invites' = (invites \ {i}) \cup {[i EXCEPT !.active = FALSE]}
        /\ answered' = answered \cup {i.id}
    BY <1>4 DEF Database!InviteRevoke
  <2>2. invites' = {IF j \in {i} THEN [j EXCEPT !.active = FALSE] ELSE j : j \in invites}
    BY <2>1
  <2>3. /\ answered \subseteq answered' /\ {i} \in SUBSET invites
        /\ \A a \in answered' : a \in answered \/ \E j \in {i} : j.id = a
    BY <2>1
  <2>4. RowsInv' /\ Keep
    BY <1>0, <2>1, <2>2, <2>3, RowsWithSpent
  <2> QED
    BY <2>1, <2>4, OperatorStep
<1>5. ASSUME UNCHANGED << req, memberRows, invites, tokens, lastId, answered, mode >> PROVE DatabaseInv'
  <2>1. Keep
    BY <1>0, <1>5 DEF Keep, RowsTypeOK
  <2>2. RowsInv'
    BY <1>0, <1>5 DEF RowsInv, RowsTypeOK, UniqueKeys, Spent, Owned
  <2> QED
    BY <1>5, <2>1, <2>2, OperatorStep
<1>6. ASSUME NEW f \in Identities, Database!DeniedChange(f) PROVE DatabaseInv'
  BY <1>5, <1>6 DEF Database!DeniedChange, Database!rows
<1>7. ASSUME NEW a \in aliases, Database!OperatorAliasRevoke(a) PROVE DatabaseInv'
  BY <1>5, <1>7 DEF Database!OperatorAliasRevoke
<1> QED
  BY <1>1, <1>2, <1>3, <1>4, <1>6, <1>7

\* A member is removed, with its invites and its tokens: a request that is under way may have
\* lost what it counted on, which is remembered.
LEMMA RemoveStep ==
  ASSUME DatabaseInv, NEW m \in memberRows, Database!MemberRemove(m)
  PROVE  DatabaseInv'
<1>0. RowsInv /\ RowsTypeOK /\ req \in [Workers -> RequestRecs]
  BY DEF DatabaseInv, RowsInv
<1>1. /\ memberRows' = memberRows \ {m}
      /\ invites' = {i \in invites : i.creator # m.id}
      /\ tokens' = {t \in tokens : t.member # m.id}
      /\ req' = [w \in Workers |-> [req[w] EXCEPT !.bereft = @ \/ ~Database!Answered(w)]]
      /\ UNCHANGED << lastId, answered, mode >>
  BY DEF Database!MemberRemove
<1>2. RowsInv'
  <2>1. RowsTypeOK'
    BY <1>0, <1>1 DEF RowsTypeOK
  <2>2. UniqueKeys'
    BY <1>0, <1>1 DEF RowsInv, UniqueKeys
  <2>3. \A a \in answered' : Spent(a)'
    BY <1>0, <1>1 DEF RowsInv, Spent
  <2>4. Owned'
    BY <1>0, <1>1 DEF RowsInv, Owned
  <2> QED
    BY <2>1, <2>2, <2>3, <2>4 DEF RowsInv
<1>3. ASSUME NEW w \in Workers
      PROVE  req'[w] \in RequestRecs /\ RequestOK(req[w])'
  <2>1. PICK s \in RequestRecs : s = req[w]
    BY <1>0
  <2>2. PICK b \in BOOLEAN : b = (s.bereft \/ s.at \notin {"ok", "failed", "refused", "idle"})
    BY <2>1
  <2>3. req'[w] = [s EXCEPT !.bereft = b]
    BY <1>1, <2>1, <2>2 DEF Database!Answered
  <2>4. LET t == [s EXCEPT !.bereft = b] IN
        /\ t \in RequestRecs /\ t.at = s.at /\ t.id = s.id /\ t.op = s.op /\ t.feed = s.feed
        /\ t.arg = s.arg /\ t.stale = s.stale /\ t.seen = s.seen /\ t.bereft = b
    BY DEF RequestRecs
  <2>5. PICK r \in RequestRecs :
        /\ r = req'[w] /\ r.at = s.at /\ r.id = s.id /\ r.op = s.op /\ r.feed = s.feed
        /\ r.arg = s.arg /\ r.stale = s.stale /\ r.seen = s.seen /\ r.bereft = b
    BY <2>3, <2>4
  <2>6. RequestOK(s)
    BY <2>1 DEF DatabaseInv
  <2>7. UseOK(r)'
    BY <2>5, <2>6, <1>1 DEF RequestOK, UseOK, Spent
  <2>8. CreationOK(r)'
    <3>1. r.at \in {"insert", "again"} => r.bereft
      BY <2>2, <2>5
    <3>2. r.op = "invite" /\ ~r.bereft /\ r.at = "failed" => mode # "open"
      BY <2>2, <2>5, <2>6 DEF RequestOK, CreationOK
    <3> QED
      BY <3>1, <3>2, <1>1 DEF CreationOK
  <2>9. InvalidationOK(r)'
    <3>1. \A t \in tokens' : t \in tokens /\ t.member # m.id
      BY <1>1
    <3>2. \A n \in memberRows : n.id # m.id => n \in memberRows'
      BY <1>1
    <3> QED
      BY <3>1, <3>2, <2>5, <2>6, <1>1 DEF RequestOK, InvalidationOK
  <2> QED
    BY <2>5, <2>7, <2>8, <2>9 DEF RequestOK
<1>4. req' \in [Workers -> RequestRecs]
  <2>1. \A w \in Workers : [req[w] EXCEPT !.bereft = @ \/ ~Database!Answered(w)] \in RequestRecs
    BY <1>1, <1>3
  <2> QED
    BY <1>1, <2>1
<1> QED
  BY <1>2, <1>3, <1>4 DEF DatabaseInv

\* Every request that a worker can take.
LEMMA RequestedStep ==
  ASSUME DatabaseInv, NEW w \in Workers, Database!Requested(w)
  PROVE  DatabaseInv'
<1>0. RowsInv /\ RowsTypeOK
  BY DEF DatabaseInv, RowsInv
<1>1. Identities \subseteq Everyone /\ RoomFeed \in Everyone /\ Nat \subseteq Args /\ Names \subseteq Args /\ 0 \in Nat
  BY DEF Everyone, Args
<1>2. ASSUME NEW f \in Identities, NEW i \in invites, NEW entry \in {"web", "muxrpc"},
             Database!Receive(w, "consume", entry, f, i.id)
      PROVE  DatabaseInv'
  <2>1. i.id \in Nat /\ i.id <= lastId
    BY <1>0 DEF RowsInv, RowsTypeOK, UniqueKeys, InviteRows
  <2>2. "consume" \in Ops /\ entry \in Ats /\ f \in Everyone /\ i.id \in Args
    BY <1>1, <2>1 DEF Ops, Ats
  <2> QED
    BY <1>2, <2>1, <2>2, ReceiveStep
<1>3. ASSUME NEW f \in Everyone, NEW op \in Ops \ {"consume", "invite", "invalidate"},
             NEW entry \in Ats, NEW arg \in Args, Database!Receive(w, op, entry, f, arg)
      PROVE  DatabaseInv'
  BY <1>3, ReceiveStep
<1>4. ASSUME NEW f \in Everyone, NEW entry \in {"web", "muxrpc"}, NEW arg \in Args,
             Database!Receive(w, "invite", entry, f, arg)
      PROVE  DatabaseInv'
  <2>1. "invite" \in Ops /\ entry \in Ats
    BY DEF Ops, Ats
  <2> QED
    BY <1>4, <2>1, ReceiveStep
<1>5. ASSUME NEW f \in Identities, Database!Receive(w, "invalidate", "begin", f, 0)
      PROVE  DatabaseInv'
  <2>1. "invalidate" \in Ops /\ "begin" \in Ats /\ f \in Everyone /\ 0 \in Args
    BY <1>1 DEF Ops, Ats
  <2> QED
    BY <1>5, <2>1, ReceiveStep
<1>6. \A t \in tokens : t.id \in Args
  BY <1>0, <1>1 DEF RowsTypeOK, TokenRows
<1>7. /\ {"register", "revoke", "signin", "rotate", "reset", "unlink"} \subseteq Ops \ {"consume", "invite", "invalidate"}
      /\ {"begin", "password", "challenge", "web", "muxrpc"} \subseteq Ats /\ 0 \in Args
  BY <1>1 DEF Ops, Ats
<1>8. CASE \E f \in Identities :
              \/ \E i \in invites, entry \in {"web", "muxrpc"} :
                    Database!Receive(w, "consume", entry, f, i.id)
              \/ Database!Receive(w, "invite", "muxrpc", f, 0)
              \/ Database!Receive(w, "invalidate", "begin", f, 0)
  BY <1>8, <1>1, <1>2, <1>4, <1>5, <1>7
<1>9. CASE \E f \in Identities :
              \/ \E entry \in {"password", "challenge"} : Database!Receive(w, "signin", entry, f, 0)
              \/ \E op \in {"register", "revoke"}, n \in Names : Database!Receive(w, op, "begin", f, n)
  BY <1>9, <1>1, <1>3, <1>7
<1>10. CASE \E t \in tokens, op \in {"rotate", "reset"} : Database!Receive(w, op, "begin", RoomFeed, t.id)
  BY <1>10, <1>1, <1>3, <1>6, <1>7
<1>11. CASE \E t \in {u.id : u \in tokens} \cup {0}, op \in {"invite", "unlink"} :
               Database!Receive(w, op, "web", RoomFeed, t)
  <2>1. PICK t \in {u.id : u \in tokens} \cup {0}, op \in {"invite", "unlink"} :
           Database!Receive(w, op, "web", RoomFeed, t)
    BY <1>11
  <2>2. t \in Args
    BY <1>6, <1>7
  <2> QED
    BY <2>1, <2>2, <1>1, <1>3, <1>4, <1>7
<1> QED
  BY <1>8, <1>9, <1>10, <1>11 DEF Database!Requested

\* Every statement of a request.
LEMMA ServedStep ==
  ASSUME DatabaseInv, NEW w \in Workers, Database!Served(w)
  PROVE  DatabaseInv'
<1>1. CASE \/ Database!HandleInviteConsume(w) \/ Database!HandleJoin(w) \/ Database!ConsumeSelect(w)
           \/ Database!ConsumeMember(w) \/ Database!ConsumeSpend(w) \/ Database!ConsumeRole(w)
  BY <1>1, ConsumeReads, ConsumeWrites DEF Database!ConsumeMember
<1>2. CASE \/ Database!CheckToken(w) \/ Database!HandleCreateInviteSubmit(w)
           \/ Database!HandleCreateInvite(w) \/ Database!EnsureMember(w)
           \/ Database!CreateInsert(w) \/ Database!HandleInviteRevoke(w)
  BY <1>2, InviteReads, InviteWrites DEF Database!EnsureMember
<1>3. CASE \/ Database!AliasBegin(w) \/ Database!RegisterAlias(w) \/ Database!RevokeAlias(w)
           \/ Database!HandleLoginSubmit(w) \/ Database!HandleLogin(w)
  BY <1>3, OtherReads
<1>4. CASE \/ Database!CreateToken(w) \/ Database!Invalidate(w)
           \/ Database!RotateToken(w) \/ Database!ResetPassword(w)
  BY <1>4, TokenWrites
<1> QED
  BY <1>1, <1>2, <1>3, <1>4 DEF Database!Served

\* No step of a connection changes the mode of the room.
LEMMA PresenceKeepsMode == Presence!Next => UNCHANGED mode
<1> USE DEF Presence!dbVars, Presence!notStream
<1>1. ASSUME NEW c \in Conns, NEW f \in Identities, Presence!ConnAccept(c, f) PROVE UNCHANGED mode
  BY <1>1 DEF Presence!ConnAccept
<1>2. ASSUME NEW c \in Conns, Presence!ConnStep(c) PROVE UNCHANGED mode
  BY <1>2 DEF Presence!ConnStep, Presence!ConnRegister, Presence!ConnAttend, Presence!ConnNotify,
     Presence!ConnRow, Presence!ConnGone, Presence!ConnUnpeer, Presence!ConnDeactivate,
     Presence!ConnUnregister
<1>3. ASSUME NEW c \in Conns, Presence!ConnLost(c) PROVE UNCHANGED mode
  BY <1>3 DEF Presence!ConnLost
<1>4. ASSUME NEW c \in Conns, Presence!CallStep(c) PROVE UNCHANGED mode
  BY <1>4 DEF Presence!CallStep, Presence!HandleAnnounce, Presence!HandleLeave, Presence!CallRow
<1>5. ASSUME NEW c \in Conns, NEW what \in {"announce", "leave"}, Presence!CallBegins(c, what)
      PROVE  UNCHANGED mode
  BY <1>5 DEF Presence!CallBegins
<1>6. ASSUME NEW f \in Identities, Presence!ChangeMembers(f) \/ Presence!Deny(f) PROVE UNCHANGED mode
  BY <1>6 DEF Presence!ChangeMembers, Presence!Deny
<1>7. ASSUME NEW kind \in Presence!Streams, NEW f \in Identities, Presence!Subscribe(kind, f)
      PROVE  UNCHANGED mode
  BY <1>7 DEF Presence!Subscribe
<1>8. Presence!StreamResync \/ Presence!StreamEvent \/ Presence!StreamEnd => UNCHANGED mode
  BY DEF Presence!StreamResync, Presence!StreamEvent, Presence!StreamEnd
<1> QED
  BY <1>1, <1>2, <1>3, <1>4, <1>5, <1>6, <1>7, <1>8 DEF Presence!Next

\* Every step keeps the invariant of the database.
LEMMA NextDatabase ==
  DatabaseInv /\ [RoomNext]_<< part, sharedVars, presenceVars, databaseVars, vars >> => DatabaseInv'
<1> SUFFICES ASSUME DatabaseInv, [RoomNext]_<< part, sharedVars, presenceVars, databaseVars, vars >>
             PROVE  DatabaseInv'
  OBVIOUS
<1>1. CASE UNCHANGED << databaseVars, mode >>
  BY <1>1 DEF databaseVars, DatabaseInv, RowsInv, RowsTypeOK, UniqueKeys, Spent, Owned, RequestOK,
     UseOK, CreationOK, InvalidationOK
<1>2. CASE Database!Next
  <2>1. ASSUME NEW m \in memberRows, Database!MemberRemove(m) PROVE DatabaseInv'
    BY <2>1, RemoveStep
  <2>2. ASSUME NEW w \in Workers, Database!Requested(w) \/ Database!Served(w) PROVE DatabaseInv'
    BY <2>2, RequestedStep, ServedStep
  <2>3. CASE Database!Operator
    BY <2>1, <2>3, OperatorWrites DEF Database!Operator, Database!Member, Database!Admin
  <2> QED
    BY <1>2, <2>2, <2>3 DEF Database!Next
<1> QED
  BY <1>1, <1>2, PresenceKeepsMode DEF RoomNext, sharedVars

\* The conditions of the requests give what is promised of their answers.
LEMMA DatabaseImplies == DatabaseInv => CredentialsHold
<1> SUFFICES ASSUME DatabaseInv PROVE CredentialsHold
  OBVIOUS
<1>1. \A w \in Workers : req[w] \in RequestRecs /\ RequestOK(req[w])
  BY DEF DatabaseInv
<1>2. Database!InviteSpent
  BY <1>1 DEF Database!InviteSpent, Database!At, RequestOK, UseOK
<1>3. Database!CreatorEnsured
  BY <1>1 DEF Database!CreatorEnsured, Database!At, RequestOK, CreationOK
<1>4. Database!SolutionsInvalidated
  BY <1>1 DEF Database!SolutionsInvalidated, Database!At, RequestOK, InvalidationOK
<1> QED
  BY <1>2, <1>3, <1>4 DEF CredentialsHold

\* Whatever requests overlap, for any number of workers, feeds and requests: a use of an invite
\* that begins after one was answered is refused, an open room makes an invite for whoever asks
\* unless a member is removed meanwhile, and a sign-in that was invalidated stays invalid.
THEOREM CredentialsAreRight == RoomSpec => []CredentialsHold
<1>1. RoomSpec => []DatabaseInv
  BY InitDatabase, NextDatabase, PTL DEF RoomSpec
<1> QED
  BY <1>1, DatabaseImplies, PTL
=============================================================================
