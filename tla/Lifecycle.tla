------------------------------ MODULE Lifecycle ------------------------------
(***************************************************************************)
(* The life of the bridge process (cmd/bridge-cli): BridgeApp.Init, Start   *)
(* and Stop, what goes on meanwhile in other goroutines and uses what Stop  *)
(* closes, and the runtime status that the database keeps for the health    *)
(* check (internal/db CheckBridgeHealth).                                   *)
(*                                                                          *)
(* The others are: the sessions that ingest the feeds of room members, the  *)
(* consumer that hands messages to the publish queue, the queue's workers   *)
(* and the heartbeat.  A signal cancels the context of all but the queue.   *)
(* A write of the status with a context that is cancelled fails.            *)
(***************************************************************************)
EXTENDS Integers, FiniteSets

CONSTANTS
    Feeds,         \* room members
    MaxStale,      \* threshold of the health check
    MaxTime,       \* bound: time
    MaxPublished,  \* bound: messages handed to the queue, in one life of the process
    MaxFaults      \* bound: crashes and failed writes of the status

VARIABLES
    pc,            \* the main goroutine
    cancelled,     \* the context of Start
    open,          \* what is open of the database, the SSB stores, the room and the queue
    ingest,        \* roomMemberIngestManager: started, and its own context
    sessions,      \* its map, cleared by Stop
    session,       \* session[f]: "none", "registered", "running", "done"
    waits,         \* the sessions that Stop has collected
    queued,        \* messages the queue has accepted and not appended
    published,
    heartbeat,     \* its goroutine: "off", "idle", "tick"
    status, beat,  \* bridge_state: the status and the time of the last heartbeat, 0 for none
    now, seen,     \* the time, and history: when the process last ran
    faults, unsaved,         \* unsaved: the last write of Stop has failed
    misuse         \* history: something was appended to a closed store

process == << pc, cancelled, open, ingest, sessions, session, waits, queued, published, heartbeat >>
table == << status, beat >>
vars == << process, table, now, seen, faults, unsaved, misuse >>

Nothing == [started |-> FALSE, cancelled |-> FALSE]
Init ==
    /\ pc = "down" /\ cancelled = FALSE /\ open = {}
    /\ ingest = Nothing /\ sessions = {} /\ session = [f \in Feeds |-> "none"] /\ waits = {}
    /\ queued = 0 /\ published = 0 /\ heartbeat = "off"
    /\ status = "" /\ beat = 0 /\ now = 1 /\ seen = 1 /\ faults = 0 /\ unsaved = FALSE /\ misuse = FALSE

Fault == faults < MaxFaults /\ faults' = faults + 1
Go(from, to) == pc = from /\ pc' = to
Rest == UNCHANGED << now, seen, misuse >>

\* setBridgeStateBestEffort: an error is logged and dropped.
SetBridgeState(value, mayWrite) ==
    \/ mayWrite /\ status' = value /\ UNCHANGED << faults, unsaved >>
    \/ ~mayWrite /\ UNCHANGED << status, faults, unsaved >>
    \/ mayWrite /\ Fault /\ unsaved' = (value = "stopped") /\ UNCHANGED status

-----------------------------------------------------------------------------
(* The main goroutine: Init and Start                                        *)

\* Init opens everything, and the room lets members in; if it fails the process ends.
InitApp ==
    /\ Go("down", "start")
    /\ open' = {"db", "ssb", "room", "queue"}
    /\ unsaved' = FALSE /\ seen' = now
    /\ UNCHANGED << cancelled, ingest, sessions, session, waits, queued, published, heartbeat,
                    table, now, faults, misuse >>

\* StartIndexerPipeline: if it fails, the app is stopped with its context alive.
StartIndexerPipeline ==
    /\ pc = "start"
    /\ pc' \in {"ingest", "stop"}
    /\ UNCHANGED << cancelled, open, ingest, sessions, session, waits, queued, published, heartbeat,
                    table, faults, unsaved >> /\ Rest

\* roomMemberIngestManager.Start
StartIngest ==
    /\ Go("ingest", "schedulers")
    /\ ingest' = [started |-> TRUE, cancelled |-> FALSE]
    /\ UNCHANGED << cancelled, open, sessions, session, waits, queued, published, heartbeat,
                    table, faults, unsaved >> /\ Rest

StartSchedulers ==
    /\ Go("schedulers", "live")
    /\ heartbeat' = "idle"
    /\ UNCHANGED << cancelled, open, ingest, sessions, session, waits, queued, published,
                    table, faults, unsaved >> /\ Rest

StartLive ==
    /\ Go("live", "wait")
    /\ SetBridgeState("live", ~cancelled)
    /\ UNCHANGED << cancelled, open, ingest, sessions, session, waits, queued, published, heartbeat,
                    beat >> /\ Rest

\* SIGINT or SIGTERM, from when startBridgeAppLifecycle waits for it.
Signal ==
    /\ pc # "down" /\ ~cancelled
    /\ cancelled' = TRUE
    /\ UNCHANGED << pc, open, ingest, sessions, session, waits, queued, published, heartbeat,
                    table, faults, unsaved >> /\ Rest

StartBridgeAppLifecycle ==
    /\ Go("wait", "stop") /\ cancelled
    /\ UNCHANGED << cancelled, open, ingest, sessions, session, waits, queued, published, heartbeat,
                    table, faults, unsaved >> /\ Rest

-----------------------------------------------------------------------------
(* The main goroutine: Stop                                                  *)

StopBegins ==
    /\ Go("stop", "stopIngest")
    /\ SetBridgeState("stopping", TRUE)
    /\ UNCHANGED << cancelled, open, ingest, sessions, session, waits, queued, published, heartbeat,
                    beat >> /\ Rest

\* roomMemberIngestManager.Stop empties the map under the lock, then cancels,
StopIngest ==
    /\ Go("stopIngest", IF ingest.started THEN "waitIngest" ELSE "room")
    /\ ingest' = [ingest EXCEPT !.started = FALSE]
    /\ waits' = IF ingest.started THEN sessions ELSE {}
    /\ sessions' = IF ingest.started THEN {} ELSE sessions
    /\ UNCHANGED << cancelled, open, session, queued, published, heartbeat,
                    table, faults, unsaved >> /\ Rest

\* and waits for each session to be done.
CancelOnly ==
    /\ Go("waitIngest", "room")
    /\ ingest' = [ingest EXCEPT !.cancelled = TRUE]
    /\ UNCHANGED << cancelled, open, sessions, session, waits, queued, published, heartbeat,
                    table, faults, unsaved >> /\ Rest
WaitIngest ==
    /\ pc = "waitIngest"
    /\ \/ ~ingest.cancelled /\ ingest' = [ingest EXCEPT !.cancelled = TRUE] /\ UNCHANGED pc
       \/ /\ ingest.cancelled /\ \A f \in waits : session[f] = "done"
          /\ pc' = "room" /\ UNCHANGED ingest
    /\ UNCHANGED << cancelled, open, sessions, session, waits, queued, published, heartbeat,
                    table, faults, unsaved >> /\ Rest

\* The room is closed, and then the queue, which first appends what it has accepted.
CloseRoom ==
    /\ Go("room", "queue")
    /\ open' = open \ {"room"}
    /\ UNCHANGED << cancelled, ingest, sessions, session, waits, queued, published, heartbeat,
                    table, faults, unsaved >> /\ Rest

ClosePublisher ==
    /\ pc = "queue"
    /\ open' = open \ {"queue"}
    /\ pc' = IF "queue" \notin open /\ queued = 0 THEN "ssb" ELSE pc
    /\ UNCHANGED << cancelled, ingest, sessions, session, waits, queued, published, heartbeat,
                    table, faults, unsaved >> /\ Rest

CloseSSB ==
    /\ Go("ssb", "stopped")
    /\ open' = open \ {"ssb"}
    /\ UNCHANGED << cancelled, ingest, sessions, session, waits, queued, published, heartbeat,
                    table, faults, unsaved >> /\ Rest

StopEnds ==
    /\ Go("stopped", "close")
    /\ SetBridgeState("stopped", TRUE)
    /\ UNCHANGED << cancelled, open, ingest, sessions, session, waits, queued, published, heartbeat,
                    beat >> /\ Rest

CloseDB ==
    /\ Go("close", "exit")
    /\ open' = {}
    /\ UNCHANGED << cancelled, ingest, sessions, session, waits, queued, published, heartbeat,
                    table, faults, unsaved >> /\ Rest

\* main returns, or the process is killed; another one may be started.
Dies ==
    /\ pc' = "down" /\ cancelled' = FALSE /\ open' = {}
    /\ ingest' = Nothing /\ sessions' = {} /\ session' = [f \in Feeds |-> "none"] /\ waits' = {}
    /\ queued' = 0 /\ published' = 0 /\ heartbeat' = "off"
Exit == pc = "exit" /\ Dies /\ UNCHANGED << table, faults, unsaved >> /\ Rest
Crash == pc # "down" /\ Fault /\ Dies /\ UNCHANGED << table, unsaved >> /\ Rest

-----------------------------------------------------------------------------
(* The other goroutines                                                      *)

\* The announce hook of the room: ensureSession enters the session under the lock,
Announce(f) ==
    /\ "room" \in open /\ ingest.started /\ f \notin sessions
    /\ sessions' = sessions \cup {f}
    /\ session' = [session EXCEPT ![f] = "registered"]
    /\ UNCHANGED << pc, cancelled, open, ingest, waits, queued, published, heartbeat,
                    table, faults, unsaved >> /\ Rest

\* and starts its goroutine without it.
EnsureSession(f) ==
    /\ session[f] = "registered"
    /\ session' = [session EXCEPT ![f] = "running"]
    /\ UNCHANGED << pc, cancelled, open, ingest, sessions, waits, queued, published, heartbeat,
                    table, faults, unsaved >> /\ Rest

\* runSession: a frame is stored,
SessionAppends(f) ==
    /\ session[f] = "running"
    /\ misuse' = (misuse \/ "ssb" \notin open)
    /\ UNCHANGED << process, table, now, seen, faults, unsaved >>

\* until the context is cancelled.
RunSession(f) ==
    /\ session[f] = "running" /\ (cancelled \/ ingest.cancelled)
    /\ session' = [session EXCEPT ![f] = "done"]
    /\ UNCHANGED << pc, cancelled, open, ingest, sessions, waits, queued, published, heartbeat,
                    table, faults, unsaved >> /\ Rest

\* The consumer hands a message to the queue, which refuses it once it is closed,
QueuePublish ==
    /\ pc \notin {"down", "start"} /\ "queue" \in open /\ published < MaxPublished
    /\ queued' = queued + 1 /\ published' = published + 1
    /\ UNCHANGED << pc, cancelled, open, ingest, sessions, session, waits, heartbeat,
                    table, faults, unsaved >> /\ Rest
\* and a worker of the queue appends it.
WorkerAppends ==
    /\ queued > 0
    /\ queued' = queued - 1
    /\ misuse' = (misuse \/ "ssb" \notin open)
    /\ UNCHANGED << pc, cancelled, open, ingest, sessions, session, waits, published, heartbeat,
                    table, now, seen, faults, unsaved >>

\* runRuntimeHeartbeatScheduler: two writes with its context at every tick.  When both the
\* ticker and the context are ready, select takes either.
HeartbeatStatus ==
    /\ heartbeat = "idle" /\ heartbeat' = "tick"
    /\ status' = IF "db" \in open /\ ~cancelled THEN "live" ELSE status
    /\ UNCHANGED << pc, cancelled, open, ingest, sessions, session, waits, queued, published, beat,
                    faults, unsaved >> /\ Rest
HeartbeatTime ==
    /\ heartbeat = "tick" /\ heartbeat' = "idle"
    /\ beat' = IF "db" \in open /\ ~cancelled THEN now ELSE beat
    /\ UNCHANGED << pc, cancelled, open, ingest, sessions, session, waits, queued, published, status,
                    faults, unsaved >> /\ Rest
HeartbeatEnds ==
    /\ heartbeat = "idle" /\ cancelled /\ heartbeat' = "off"
    /\ UNCHANGED << pc, cancelled, open, ingest, sessions, session, waits, queued, published,
                    table, faults, unsaved >> /\ Rest

Tick ==
    /\ now < MaxTime /\ now' = now + 1
    /\ seen' = IF pc = "down" THEN seen ELSE now'
    /\ UNCHANGED << process, table, faults, unsaved, misuse >>

Next ==
    \/ InitApp \/ StartIndexerPipeline \/ StartIngest \/ StartSchedulers \/ StartLive
    \/ Signal \/ StartBridgeAppLifecycle
    \/ StopBegins \/ StopIngest \/ WaitIngest \/ CloseRoom \/ ClosePublisher \/ CloseSSB
    \/ StopEnds \/ CloseDB \/ Exit \/ Crash
    \/ \E f \in Feeds : Announce(f) \/ EnsureSession(f) \/ SessionAppends(f) \/ RunSession(f)
    \/ QueuePublish \/ WorkerAppends
    \/ HeartbeatStatus \/ HeartbeatTime \/ HeartbeatEnds
    \/ Tick

Spec == Init /\ [][Next]_vars

-----------------------------------------------------------------------------
\* CheckBridgeHealth, asked by another process
CheckBridgeHealth == status = "live" /\ (beat = 0 \/ now - beat <= MaxStale)

\* Stop closes nothing that is still in use, whichever step of Start it follows: no
\* session and no worker of the queue appends to a closed store.  And the status that a
\* stopped bridge leaves behind is "stopped", whatever the heartbeat was doing, unless
\* the write itself failed.
ShutdownInOrder ==
    /\ ~misuse
    /\ pc \in {"room", "queue", "ssb", "stopped", "close", "exit"} =>
          \A f \in Feeds : session[f] \in {"none", "done"}
    /\ pc \in {"close", "exit"} => status = "stopped" \/ unsaved

\* "The bridge is healthy if its status is "live" and the last heartbeat is within the
\* given staleness threshold": what is called healthy has been running so lately.
HealthIsRecent == CheckBridgeHealth => now - seen <= MaxStale
==============================================================================
