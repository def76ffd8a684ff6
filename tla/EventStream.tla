----------------------------- MODULE EventStream -----------------------------
(***************************************************************************)
(* internal/atindex: the local subscription stream that carries record      *)
(* events from the index to the bridge.                                     *)
(*                                                                          *)
(* A row of atproto_event_log is its cursor (SQLite AUTOINCREMENT: the log  *)
(* is 1..tail).  Two goroutines of the bridge process, the firehose handler *)
(* and the backfill worker, append a row and then broadcast it, two steps   *)
(* that nothing makes atomic.  The indexers of other processes (serve-ui    *)
(* and the backfill command open the same database) append rows this        *)
(* process never broadcasts.  Subscribe registers a channel, replays the log*)
(* from the consumer's cursor in pages and then forwards live               *)
(* notifications; the consumer hands each one to the bridge processor and   *)
(* saves its cursor.                                                        *)
(*                                                                          *)
(* A notification is the cursor of its row; identity and account            *)
(* notifications, which have no row, are the cursor 0.                      *)
(***************************************************************************)
EXTENDS Naturals, Sequences

CONSTANTS
    LiveCap,     \* buffer of a subscriber's channel (256 in the code)
    OutCap,      \* buffer of the channel Subscribe returns (256)
    PageSize,    \* limit of one replay query (256)
    MaxEvents,   \* bound: rows ever appended
    MaxCrashes,  \* bound: crashes of the bridge process
    DBErrors     \* whether a replay query or a save of the cursor may fail

ASSUME LiveCapAssumption == LiveCap \in Nat \ {0}
ASSUME OutCapAssumption == OutCap \in Nat \ {0}
ASSUME PageSizeAssumption == PageSize \in Nat \ {0}
ASSUME MaxEventsAssumption == MaxEvents \in Nat
ASSUME MaxCrashesAssumption == MaxCrashes \in Nat
ASSUME DBErrorsAssumption == DBErrors \in BOOLEAN

\* The goroutines of this process that append rows.
Appenders == {"handler", "worker"}

VARIABLES
    \* The database.
    tail,        \* the largest cursor of atproto_event_log
    cursor,      \* bridge_state.atproto_event_cursor
    \* The producers.
    pending,     \* pending[a]: the row a appended and has yet to broadcast, or 0
    silent,      \* history: rows no broadcast of this process announced
    \* The subscription.
    phase,       \* where the goroutine of Subscribe is
    registered,  \* the subscriber is in s.subscribers
    live,        \* its channel, and whether broadcast closed it
    liveClosed,
    page,        \* what is left of the page being replayed
    nextCursor,
    out,         \* the channel the consumer ranges over; closed in phase "closed"
    overtaken,   \* history: silent rows smaller than a row broadcast after the replay
    \* The consumer.
    consumer,    \* where its loop is
    current,     \* the row it is working on
    handled,     \* history: rows HandleRecordEvent accepted
    failed,      \* history: rows it returned an error for
    crashes

db == <<tail, cursor>>
producers == <<pending, silent>>
channel == <<registered, live, liveClosed>>
reader == <<phase, page, nextCursor, out>>
loop == <<consumer, current, handled, failed>>
vars == <<tail, cursor, pending, silent, phase, registered, live, liveClosed, page,
          nextCursor, out, overtaken, consumer, current, handled, failed, crashes>>

TypeOK ==
    /\ tail \in Nat /\ cursor \in Nat
    /\ pending \in [Appenders -> Nat]
    /\ silent \in SUBSET Nat /\ overtaken \in SUBSET Nat
    /\ phase \in {"off", "replay", "live", "closed"}
    /\ registered \in BOOLEAN /\ liveClosed \in BOOLEAN
    /\ live \in Seq(Nat) /\ Len(live) <= LiveCap
    /\ page \in Seq(Nat) /\ Len(page) <= PageSize
    /\ out \in Seq(Nat) /\ Len(out) <= OutCap
    /\ nextCursor \in Nat /\ current \in Nat
    /\ consumer \in {"waiting", "handling", "saving"}
    /\ handled \in SUBSET Nat /\ failed \in SUBSET Nat
    /\ crashes \in Nat

Init ==
    /\ tail = 0 /\ cursor = 0
    /\ pending = [a \in Appenders |-> 0]
    /\ silent = {} /\ overtaken = {}
    /\ phase = "off" /\ registered = FALSE
    /\ live = <<>> /\ liveClosed = FALSE
    /\ page = <<>> /\ nextCursor = 0 /\ out = <<>>
    /\ consumer = "waiting" /\ current = 0
    /\ handled = {} /\ failed = {}
    /\ crashes = 0

-----------------------------------------------------------------------------
(* The producers. *)

\* AppendATProtoEvent as applyCommit and runBackfill call it ...
AppendATProtoEvent(a) ==
    /\ tail < MaxEvents
    /\ pending[a] = 0
    /\ tail' = tail + 1
    /\ pending' = [pending EXCEPT ![a] = tail + 1]
    /\ silent' = silent \union {tail + 1}
    /\ UNCHANGED <<cursor, channel, reader, loop, overtaken, crashes>>

\* ... and as the indexer of another process does.
AppendElsewhere ==
    /\ tail < MaxEvents
    /\ tail' = tail + 1
    /\ silent' = silent \union {tail + 1}
    /\ UNCHANGED <<cursor, pending, channel, reader, loop, overtaken, crashes>>

\* What broadcast does to the one subscriber: the send never blocks, and a full
\* channel is closed and its subscriber forgotten.
Offer(note) ==
    IF ~registered THEN UNCHANGED channel
    ELSE IF Len(live) < LiveCap
    THEN live' = Append(live, note) /\ UNCHANGED <<registered, liveClosed>>
    ELSE liveClosed' = TRUE /\ registered' = FALSE /\ UNCHANGED live

Broadcast(a) ==
    /\ pending[a] # 0
    /\ Offer(pending[a])
    /\ pending' = [pending EXCEPT ![a] = 0]
    /\ silent' = silent \ {pending[a]}
    /\ overtaken' = IF phase = "live"
                    THEN overtaken \union {d \in silent : nextCursor < d /\ d < pending[a]}
                    ELSE overtaken
    /\ UNCHANGED <<db, reader, loop, crashes>>

\* HandleIdentity and HandleAccount announce their change without a row.
BroadcastOther ==
    /\ pending["handler"] = 0
    /\ Offer(0)
    /\ UNCHANGED <<db, producers, reader, loop, overtaken, crashes>>

-----------------------------------------------------------------------------
(* Subscribe. *)

\* startIndexerConsumer reads the saved cursor and subscribes: the channel is
\* registered before the first row is replayed.
SubscribeUnregistered ==
    /\ phase = "off"
    /\ phase' = "replay"
    /\ nextCursor' = cursor
    /\ UNCHANGED <<db, producers, channel, page, out, loop, overtaken, crashes>>

Subscribe ==
    /\ phase = "off"
    /\ phase' = "replay"
    /\ registered' = TRUE
    /\ nextCursor' = cursor
    /\ UNCHANGED <<db, producers, live, liveClosed, page, out, loop, overtaken, crashes>>

\* The deferred function: unregister, then close the channel to the consumer.
End == phase' = "closed" /\ registered' = FALSE /\ UNCHANGED <<live, liveClosed>>

\* ListATProtoEventsAfter: the rows past nextCursor, at most a page of them.
ListATProtoEventsAfter ==
    LET n == IF tail - nextCursor < PageSize THEN tail - nextCursor ELSE PageSize
    IN  [i \in 1..n |-> nextCursor + i]

\* The replay query: no rows means that the replay has caught up.
List ==
    /\ phase = "replay"
    /\ page = <<>>
    /\ page' = ListATProtoEventsAfter
    /\ phase' = IF ListATProtoEventsAfter = <<>> THEN "live" ELSE "replay"
    /\ UNCHANGED <<db, producers, channel, nextCursor, out, loop, overtaken, crashes>>

ListFails ==
    /\ DBErrors
    /\ phase = "replay"
    /\ page = <<>>
    /\ End
    /\ UNCHANGED <<db, producers, page, nextCursor, out, loop, overtaken, crashes>>

\* Send to the consumer, or end the subscription when its channel is full.
SendOrDrop(note) ==
    /\ out' = IF Len(out) < OutCap THEN Append(out, note) ELSE out
    /\ UNCHANGED <<phase, registered>>

Send(note) ==
    IF Len(out) < OutCap
    THEN out' = Append(out, note) /\ UNCHANGED <<phase, registered>>
    ELSE phase' = "closed" /\ registered' = FALSE /\ UNCHANGED out

Replay ==
    /\ phase = "replay"
    /\ page # <<>>
    /\ nextCursor' = Head(page)
    /\ page' = Tail(page)
    /\ Send(Head(page))
    /\ UNCHANGED <<db, producers, live, liveClosed, loop, overtaken, crashes>>

\* One notification of the live channel; a record the replay has sent already,
\* and any record below the last one sent, is skipped.
ForwardAll ==
    /\ phase = "live"
    /\ live # <<>>
    /\ live' = Tail(live)
    /\ nextCursor' = IF Head(live) = 0 THEN nextCursor ELSE Head(live)
    /\ Send(Head(live))
    /\ UNCHANGED <<db, producers, liveClosed, page, loop, overtaken, crashes>>

Forward ==
    /\ phase = "live"
    /\ live # <<>>
    /\ live' = Tail(live)
    /\ IF Head(live) # 0 /\ Head(live) <= nextCursor
       THEN UNCHANGED <<nextCursor, phase, registered, out>>
       ELSE /\ nextCursor' = IF Head(live) = 0 THEN nextCursor ELSE Head(live)
            /\ Send(Head(live))
    /\ UNCHANGED <<db, producers, liveClosed, page, loop, overtaken, crashes>>

\* The channel was closed by broadcast and everything in it was forwarded.
Evicted ==
    /\ phase = "live"
    /\ live = <<>>
    /\ liveClosed
    /\ End
    /\ UNCHANGED <<db, producers, page, nextCursor, out, loop, overtaken, crashes>>

-----------------------------------------------------------------------------
(* The consumer: the goroutine of startIndexerConsumer. *)

\* It skips what is not a record, and goes on draining a closed channel.
Take ==
    /\ consumer = "waiting"
    /\ out # <<>>
    /\ out' = Tail(out)
    /\ consumer' = IF Head(out) = 0 THEN "waiting" ELSE "handling"
    /\ current' = Head(out)
    /\ UNCHANGED <<db, producers, channel, phase, page, nextCursor, handled, failed, overtaken, crashes>>

HandleRecordEvent ==
    /\ consumer = "handling"
    /\ handled' = handled \union {current}
    /\ consumer' = "saving"
    /\ UNCHANGED <<db, producers, channel, reader, current, failed, overtaken, crashes>>

\* A failed event is logged and skipped; the cursor stays for now.
HandleFails ==
    /\ consumer = "handling"
    /\ failed' = failed \union {current}
    /\ consumer' = "waiting"
    /\ UNCHANGED <<db, producers, channel, reader, current, handled, overtaken, crashes>>

\* setBridgeStateBestEffort: a failure to save is logged.
SaveCursor ==
    /\ consumer = "saving"
    /\ cursor' = current
    /\ consumer' = "waiting"
    /\ UNCHANGED <<tail, producers, channel, reader, current, handled, failed, overtaken, crashes>>

SaveFails ==
    /\ DBErrors
    /\ consumer = "saving"
    /\ consumer' = "waiting"
    /\ UNCHANGED <<db, producers, channel, reader, current, handled, failed, overtaken, crashes>>

-----------------------------------------------------------------------------
\* The process dies, or is stopped, and starts again: only the database stays.
Crash ==
    /\ crashes < MaxCrashes
    /\ crashes' = crashes + 1
    /\ pending' = [a \in Appenders |-> 0]
    /\ phase' = "off" /\ registered' = FALSE
    /\ live' = <<>> /\ liveClosed' = FALSE
    /\ page' = <<>> /\ nextCursor' = 0 /\ out' = <<>>
    /\ consumer' = "waiting" /\ current' = 0
    /\ UNCHANGED <<db, silent, overtaken, handled, failed>>

Reader == Subscribe \/ List \/ ListFails \/ Replay \/ Forward \/ Evicted
Consumer == Take \/ HandleRecordEvent \/ HandleFails \/ SaveCursor \/ SaveFails

Next ==
    \/ \E a \in Appenders : AppendATProtoEvent(a) \/ Broadcast(a)
    \/ AppendElsewhere \/ BroadcastOther
    \/ Subscribe \/ List \/ ListFails \/ Replay \/ Forward \/ Evicted
    \/ Take \/ HandleRecordEvent \/ HandleFails \/ SaveCursor \/ SaveFails
    \/ Crash

\* Every goroutine of the process keeps running; nobody has to append a row,
\* announce an identity, or crash.
Fairness ==
    /\ \A a \in Appenders : WF_vars(Broadcast(a))
    /\ WF_vars(Reader)
    /\ WF_vars(Consumer)

Spec == Init /\ [][Next]_vars /\ Fairness

-----------------------------------------------------------------------------
Seen == handled \union failed

\* The saved cursor is what a restart replays from, so no row below it may be
\* lost: every one was given to the processor, or (the one way the code loses a
\* row) a broadcast of a larger row overtook its own, or it had none.
NoSilentGap == \A c \in 1..cursor : c \in Seen \union overtaken

\* The consumer never moves its cursor back, although replay and live channel
\* both carry the rows appended while it replays.
CursorForward == [][cursor' >= cursor]_vars

\* A row that was broadcast is processed or was overtaken, unless the
\* subscription ended: replay and live forwarding leave no row between them.
AnnouncedIsProcessed ==
    \A c \in 1..MaxEvents :
        (c <= tail /\ c \notin silent) ~> (c \in Seen \union overtaken \/ phase = "closed")

\* docs/scratchpad/035: rows are broadcast after they are persisted, "so the
\* bridge consumer can see snapshot work without relying on a second polling
\* pass": a row that was broadcast and lies below the cursor was processed.
BroadcastRowsSeen == \A c \in 1..cursor : c \notin silent => c \in Seen
=============================================================================
