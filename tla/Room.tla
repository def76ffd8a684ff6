-------------------------------- MODULE Room --------------------------------
(***************************************************************************)
(* Presence in the embedded room: internal/room/runtime.go accepts          *)
(* connections and registers them, internal/ssb/roomstate keeps attendants  *)
(* and announced endpoints, the handlers of tunnel.announce and             *)
(* tunnel.leave change them, and the source handlers of room.attendants and *)
(* tunnel.endpoints stream the changes to clients through bounded channels. *)
(*                                                                          *)
(* A connection's goroutine (handleMUXRPCConn) is a sequence of steps, each *)
(* atomic under one mutex or one SQL statement; the handlers of its calls   *)
(* run in goroutines of their own.                                          *)
(***************************************************************************)
EXTENDS Integers, Sequences, FiniteSets

CONSTANTS
    Feeds,      \* identities that connect
    Bridge,     \* the room's own identity, which the attendants stream leaves out
    Conns,      \* connections, in the order they are accepted: 1..n
    ChanCap,    \* capacity of a subscriber's channel (16 in the code)
    MaxOrders   \* bound: what the operator changes and the clients call

Modes == {"open", "community", "restricted"}
Streams == {"attendants", "endpoints"}

VARIABLES
    mode, members, denied,      \* the room database
    conn,        \* conn[c]: the goroutine of connection c
    call,        \* call[c]: the handler goroutine of a tunnel.announce or tunnel.leave on c
    attendants, peers,          \* roomstate.Manager
    registry,    \* PeerRegistry: the connection that serves a feed, 0 for none
    rows,        \* active rows of the runtime snapshot tables
    stream,      \* the source handler of one client's room.attendants or tunnel.endpoints
    orders,      \* operator changes and client calls so far
    overlapped,  \* history: feeds that had two connections at a time
    guests,      \* history: feeds that were served without being members
    late         \* history: feeds with a call that took effect after its connection ended

dbVars == << mode, members, denied >>
history == << overlapped, guests, late >>
notStream == << dbVars, conn, call, attendants, peers, registry, rows, orders, history >>
roomVars == << notStream, stream >>

Watched(kind) == IF kind = "attendants" THEN attendants ELSE peers
Shown(kind, ids) == IF kind = "attendants" THEN ids \ {Bridge} ELSE ids

Off == [kind |-> "none", at |-> "off", queue |-> << >>, view |-> {}, dropped |-> FALSE]

\* Start: the mode is written to the database, the snapshot rows are reset.
Init ==
    /\ mode \in Modes
    /\ members \in SUBSET Feeds
    /\ denied = {}
    /\ conn = [c \in Conns |-> [at |-> "none", feed |-> Bridge, isMember |-> FALSE, up |-> FALSE]]
    /\ call = [c \in Conns |-> "none"]
    /\ attendants = {} /\ peers = {}
    /\ registry = [f \in Feeds |-> 0]
    /\ rows = [s \in Streams |-> {}]
    /\ stream = Off
    /\ orders = 0
    /\ overlapped = {} /\ guests = {} /\ late = {}

-----------------------------------------------------------------------------
(* roomstate.Manager: a change and its events happen under one mutex.        *)

Subscribed(kind) == stream.kind = kind

\* An overflowing attendants channel is emptied and a resync put in it.
BroadcastAttendantDropping(e) ==
    stream' = IF ~Subscribed("attendants") \/ Len(stream.queue) = ChanCap THEN stream
              ELSE [stream EXCEPT !.queue = Append(@, e)]
BroadcastAttendant(e) ==
    stream' = IF ~Subscribed("attendants") THEN stream
              ELSE [stream EXCEPT !.queue =
                       IF Len(@) < ChanCap THEN Append(@, e) ELSE << [type |-> "resync"] >>]

\* An overflowing endpoints channel drops the event.
BroadcastTunnel(e) ==
    stream' = IF ~Subscribed("endpoints") THEN stream
              ELSE IF Len(stream.queue) < ChanCap THEN [stream EXCEPT !.queue = Append(@, e)]
              ELSE [stream EXCEPT !.dropped = TRUE]

AddAttendant(f) ==
    /\ attendants' = attendants \cup {f}
    /\ IF f \in attendants THEN stream' = stream
       ELSE BroadcastAttendant([type |-> "joined", id |-> f])

RemoveAttendant(f) ==
    /\ attendants' = attendants \ {f}
    /\ IF f \in attendants THEN BroadcastAttendant([type |-> "left", id |-> f])
       ELSE stream' = stream

AddPeer(f) ==
    /\ peers' = peers \cup {f}
    /\ BroadcastTunnel([type |-> "joined", id |-> f])

RemovePeer(f) ==
    /\ peers' = peers \ {f}
    /\ IF f \in peers THEN BroadcastTunnel([type |-> "left", id |-> f]) ELSE stream' = stream

-----------------------------------------------------------------------------
(* handleMUXRPCConn: one action per step.                                    *)

Open(c) == conn[c].at \notin {"none", "closed"}
To(c, at) == conn' = [conn EXCEPT ![c].at = at]

\* The handshake is done; denied keys, the mode and the membership are read
\* and decide, for the whole life of the connection, what the feed is.
ConnAccept(c, f) ==
    /\ conn[c].at = "none"
    /\ \A d \in Conns : d < c => conn[d].at # "none"
    /\ LET isMember == f \in members
           ok == f \notin denied /\ (mode = "restricted" => isMember) IN
       /\ conn' = [conn EXCEPT ![c] = [at |-> IF ok THEN "register" ELSE "closed", feed |-> f,
                                       isMember |-> isMember, up |-> ok]]
       /\ guests' = IF ok /\ ~isMember THEN guests \cup {f} ELSE guests
       /\ overlapped' = IF ok /\ \E d \in Conns : Open(d) /\ conn[d].feed = f
                        THEN overlapped \cup {f} ELSE overlapped
    /\ UNCHANGED << dbVars, call, attendants, peers, registry, rows, stream, orders, late >>

ConnRegister(c) ==
    /\ conn[c].at = "register"
    /\ registry' = [registry EXCEPT ![conn[c].feed] = c]
    /\ To(c, IF conn[c].isMember THEN "attend" ELSE "serving")
    /\ UNCHANGED << dbVars, call, attendants, peers, rows, stream, orders, history >>

ConnAttend(c) ==
    /\ conn[c].at = "attend"
    /\ AddAttendant(conn[c].feed)
    /\ To(c, "notify")
    /\ UNCHANGED << dbVars, call, peers, registry, rows, orders, history >>

\* NotifyPeerAvailable: the member is announced on its behalf, then its row written.
ConnNotify(c) ==
    /\ conn[c].at = "notify"
    /\ AddPeer(conn[c].feed)
    /\ To(c, "endpoint row")
    /\ UNCHANGED << dbVars, call, attendants, registry, rows, orders, history >>

ConnRow(c) ==
    /\ \/ /\ conn[c].at = "endpoint row"
          /\ rows' = [rows EXCEPT !["endpoints"] = @ \cup {conn[c].feed}]
          /\ To(c, "attendant row")
       \/ /\ conn[c].at = "attendant row"
          /\ rows' = [rows EXCEPT !["attendants"] = @ \cup {conn[c].feed}]
          /\ To(c, "serving")
    /\ UNCHANGED << dbVars, call, attendants, peers, registry, stream, orders, history >>

\* A read or write of the connection failed, at any moment.
ConnLost(c) ==
    /\ Open(c) /\ conn[c].up
    /\ conn' = [conn EXCEPT ![c].up = FALSE]
    /\ UNCHANGED << dbVars, call, attendants, peers, registry, rows, stream, orders, history >>

\* The goroutine waits for that, and then takes back what it entered; a guest's
\* entries stay.
ConnGone(c) ==
    /\ conn[c].at = "serving" /\ ~conn[c].up
    /\ IF conn[c].isMember THEN RemoveAttendant(conn[c].feed) ELSE UNCHANGED << attendants, stream >>
    /\ To(c, IF conn[c].isMember THEN "unpeer" ELSE "closed")
    /\ UNCHANGED << dbVars, call, peers, registry, rows, orders, history >>

ConnUnpeerKept(c) ==
    /\ conn[c].at = "unpeer"
    /\ To(c, "off attendants")
    /\ late' = late
    /\ UNCHANGED << dbVars, call, attendants, peers, stream, registry, rows, orders, overlapped, guests >>
ConnUnpeer(c) ==
    /\ conn[c].at = "unpeer"
    /\ RemovePeer(conn[c].feed)
    /\ late' = IF call[c] # "none" THEN late \cup {conn[c].feed} ELSE late
    /\ To(c, "off attendants")
    /\ UNCHANGED << dbVars, call, attendants, registry, rows, orders, overlapped, guests >>

ConnDeactivate(c) ==
    /\ \/ /\ conn[c].at = "off attendants"
          /\ rows' = [rows EXCEPT !["attendants"] = @ \ {conn[c].feed}]
          /\ To(c, "off endpoints")
       \/ /\ conn[c].at = "off endpoints"
          /\ rows' = [rows EXCEPT !["endpoints"] = @ \ {conn[c].feed}]
          /\ To(c, "unregister")
    /\ UNCHANGED << dbVars, call, attendants, peers, registry, stream, orders, history >>

ConnUnregister(c) ==
    /\ conn[c].at = "unregister"
    /\ registry' = [registry EXCEPT ![conn[c].feed] = 0]
    /\ To(c, "closed")
    /\ UNCHANGED << dbVars, call, attendants, peers, rows, stream, orders, history >>

-----------------------------------------------------------------------------
(* tunnel.announce and tunnel.leave: the checks, the change, its row.        *)

Order == orders < MaxOrders /\ orders' = orders + 1
Allowed(f) == f \in members \/ mode = "open"

CallBegins(c, what) ==
    /\ Open(c) /\ conn[c].at # "register" /\ conn[c].up
    /\ call[c] = "none"
    /\ Order
    /\ what = "announce" => conn[c].feed \notin denied
    /\ Allowed(conn[c].feed)
    /\ call' = [call EXCEPT ![c] = what]
    /\ UNCHANGED << dbVars, conn, attendants, peers, registry, rows, stream, history >>

HandleAnnounce(c) ==
    /\ call[c] = "announce"
    /\ AddPeer(conn[c].feed)
    /\ call' = [call EXCEPT ![c] = "announce row"]
    /\ UNCHANGED << dbVars, conn, attendants, registry, rows, orders, history >>

HandleLeave(c) ==
    /\ call[c] = "leave"
    /\ RemovePeer(conn[c].feed)
    /\ call' = [call EXCEPT ![c] = "leave row"]
    /\ UNCHANGED << dbVars, conn, attendants, registry, rows, orders, history >>

CallRow(c) ==
    /\ call[c] \in {"announce row", "leave row"}
    /\ rows' = [rows EXCEPT !["endpoints"] =
                   IF call[c] = "announce row" THEN @ \cup {conn[c].feed} ELSE @ \ {conn[c].feed}]
    /\ call' = [call EXCEPT ![c] = "none"]
    /\ UNCHANGED << dbVars, conn, attendants, peers, registry, stream, orders, history >>

-----------------------------------------------------------------------------
(* The operator: members join, are removed or denied while connected.        *)

ChangeMembers(f) ==
    /\ Order
    /\ members' \in {members \cup {f}, members \ {f}} /\ members' # members
    /\ UNCHANGED << mode, denied, conn, call, attendants, peers, registry, rows, stream, history >>

Deny(f) ==
    /\ Order
    /\ denied' = denied \cup {f} /\ denied' # denied
    /\ UNCHANGED << mode, members, conn, call, attendants, peers, registry, rows, stream, history >>

-----------------------------------------------------------------------------
(* room.attendants and tunnel.endpoints.                                     *)

\* Subscription and snapshot are taken under one lock; the snapshot is written first.
Subscribe(kind, watcher) ==
    /\ stream.at = "off"
    /\ kind = "attendants" => Allowed(watcher)
    /\ stream' = [Off EXCEPT !.kind = kind, !.at = "loop", !.view = Shown(kind, Watched(kind))]
    /\ UNCHANGED notStream

\* After a resync the state is read again.
StreamResync ==
    /\ stream.at = "resync"
    /\ stream' = [stream EXCEPT !.at = "loop", !.view = Shown("attendants", attendants)]
    /\ UNCHANGED notStream

StreamEvent ==
    /\ stream.at = "loop" /\ stream.queue # << >>
    /\ LET e == Head(stream.queue)
           popped == [stream EXCEPT !.queue = Tail(@)] IN
       stream' = CASE e.type = "resync" -> [popped EXCEPT !.at = "resync"]
                   [] e.type = "joined" -> [popped EXCEPT !.view = @ \cup Shown(stream.kind, {e.id})]
                   [] e.type = "left"   -> [popped EXCEPT !.view = @ \ Shown(stream.kind, {e.id})]
    /\ UNCHANGED notStream

\* The watcher's context ends, or a write fails: the subscription is cancelled.
StreamEnd ==
    /\ stream.at # "off"
    /\ stream' = Off
    /\ UNCHANGED notStream

-----------------------------------------------------------------------------
ConnStep(c) ==
    \/ ConnRegister(c) \/ ConnAttend(c) \/ ConnNotify(c) \/ ConnRow(c)
    \/ ConnGone(c) \/ ConnUnpeer(c) \/ ConnDeactivate(c) \/ ConnUnregister(c)

CallStep(c) == HandleAnnounce(c) \/ HandleLeave(c) \/ CallRow(c)

Next ==
    \/ \E c \in Conns, f \in Feeds : ConnAccept(c, f)
    \/ \E c \in Conns : ConnStep(c) \/ ConnLost(c) \/ CallStep(c)
    \/ \E c \in Conns, what \in {"announce", "leave"} : CallBegins(c, what)
    \/ \E f \in Feeds : ChangeMembers(f) \/ Deny(f)
    \/ \E kind \in Streams, f \in Feeds : Subscribe(kind, f)
    \/ StreamResync \/ StreamEvent \/ StreamEnd

Spec == Init /\ [][Next]_roomVars

-----------------------------------------------------------------------------
\* A client that has read its stream to the end shows what the room has: the
\* attendants, whatever overflowed on the way, and the endpoints unless an event
\* of theirs was dropped by a full channel (roomstate.go broadcast*Locked).
StreamsCatchUp ==
    stream.at = "loop" /\ stream.queue = << >> /\ ~stream.dropped
        => stream.view = Shown(stream.kind, Watched(stream.kind))

\* Presence follows the connections of a member that never had two at a time,
\* was never served as a guest and had no call outlive its connection: while it
\* is served it attends and is found, when its connection has ended nothing of it
\* is left in the room's state, its registry or its tables.
PresenceFollows ==
    \A f \in Feeds \ (overlapped \cup guests \cup late) :
        LET open == {c \in Conns : Open(c) /\ conn[c].feed = f}
            calls == {c \in Conns : conn[c].feed = f /\ call[c] # "none"} IN
        /\ \A c \in open : conn[c].at = "serving" =>
              f \in attendants /\ registry[f] = c /\ f \in rows["attendants"]
        /\ open = {} /\ calls = {} =>
              /\ f \notin attendants \cup peers \cup rows["attendants"] \cup rows["endpoints"]
              /\ registry[f] = 0
=============================================================================
