---------------------------- MODULE Replication ----------------------------
(***************************************************************************)
(* internal/ssb/replication, internal/ssb/sbot/feed_manager_adapter.go,     *)
(* internal/ssb/publisher and internal/ssb/feedlog: how the messages of a   *)
(* feed are published into the local log and spread to the peers by         *)
(* ebt.replicate.                                                           *)
(*                                                                          *)
(* A node keeps the messages table of each feed (row numbers are assigned   *)
(* by Append: MAX(seq)+1), the receive log, and a StateMatrix: its own      *)
(* notes and the notes its peers sent.  A connection carries one duplex     *)
(* call per node; the handler of a node reads frontiers and messages from   *)
(* it, a background loop writes frontiers when the matrix signals a change, *)
(* and history streams write messages.  All of them are goroutines.         *)
(*                                                                          *)
(* A message is its sequence number and the number of the Publish call that *)
(* signed it; content, signature bytes and the previous link are left out.  *)
(***************************************************************************)
EXTENDS Integers, Sequences, FiniteSets

CONSTANTS
    Nodes,
    Feeds,
    Author(_),      \* the node whose publisher signs the feed
    MaxLinks,       \* bound: connections ever made
    Overlap,        \* whether a connection is made while another is up
    Dialler(_), Acceptor(_),
    Publishers,     \* goroutines that may call Publish at once
    MaxPublish,     \* bound: Publish calls
    MaxFaults,      \* bound: failed appends, restarts and later calls of Replicate
    MaxContent,     \* bound: messages in flight when a stream writes
    MaxFrames       \* bound: frames in flight when a frontier is written

\* The connections in the order they are made.
Links == 1..MaxLinks
NoLink == 0

VARIABLES
    \* The database of each node.
    rows,      \* rows[n][f]: the messages table of feed f, by seq
    received,  \* received[n]: the <<feed, message>> entries of the receive log
    \* The state matrix of each node.
    note,      \* note[n][f]: Seq of the node's own note, NoNote when absent
    theirs,    \* theirs[n][m][f]: the note m last sent n, as on the wire
    token,     \* updateCh, of capacity 1
    \* The connections.
    link,      \* "idle", "up" or "down"
    wire,      \* wire[l][n]: the frames travelling to n
    \* The goroutines of ebt.replicate.
    open,      \* open[n][m]: the link whose session is in Sessions.open for peer m
    handler,   \* handler[l][n]: where HandleDuplex is
    held,      \* held[l][n]: the message AppendReplicatedMessage is storing
    loop,      \* loop[l][n]: the background loop runs
    streams,   \* streams[l][n][f]: the goroutines of createStreamHistory
    \* The publishers and the callers of Replicate.
    pub,       \* pub[p]: where Publish is and the message it signed
    repl,      \* repl[n]: the note a call of Replicate is about to write
    \* History.
    published, replicated, faults, connections, raced, blind, stale

vars == << rows, received, note, theirs, token, link, wire, open, handler, held,
           loop, streams, pub, repl, published, replicated, faults, connections, raced, blind, stale >>

dbVars == << rows, received >>
matrixVars == << note, theirs, token >>
sessionVars == << link, wire, open, handler, held, loop, streams >>
callVars == << pub, repl >>
boundVars == << published, replicated, faults, connections >>

NoNote == -2
Sequences == 1..MaxPublish
Message == [seq : Sequences, id : Sequences]
NoMessage == [feed |-> "none"]
Idle == [at |-> "idle"]
NoCall == [at |-> "none"]

\* Seq of the log: -1 for an empty one.
Seq_(n, f) == IF rows[n][f] = << >> THEN -1 ELSE Len(rows[n][f])

\* logAdapter.Get finds the row of a sequence.
Stored(n, f, s) == s \in 1..Len(rows[n][f])
\* GetMessage: the message of that row.
GetMessage(n, f, s) == rows[n][f][s]

Peer(l, n) == IF n = Dialler(l) THEN Acceptor(l) ELSE Dialler(l)
Ends(l) == {Dialler(l), Acceptor(l)}

----------------------------------------------------------------------------
\* Notes on the wire (all own notes have Replicate and Receive set).

\* Note.MarshalJSON: -1, or the sequence shifted by the flag bit.
Encode(s) == IF s = -1 THEN -1 ELSE 2 * s

\* NetworkFrontier.UnmarshalJSON.
WireSeq(w) == w \div 2
WireReceive(w) == w # -1 /\ w % 2 = 0

\* Changed with a nil peer: every own note.
State(n) == [f \in {g \in Feeds : note[n][g] # NoNote} |-> Encode(note[n][f])]

\* Changed: the own notes that differ from the ones the peer sent.
Changed(n, m, known) ==
    [f \in {g \in Feeds : /\ note[n][g] # NoNote
                          /\ \/ known[g] = NoNote
                             \/ WireSeq(known[g]) # note[n][g]
                             \/ ~ WireReceive(known[g])} |-> Encode(note[n][f])]

Frontier(notes) == [kind |-> "frontier", notes |-> notes]
Content(f, msg) == [kind |-> "message", feed |-> f, msg |-> msg]

\* A frame is queued towards the peer; on a dead connection it is lost.  Equal
\* frontiers queued back to back are one frame: the reader of the second one
\* would do again what it did for the first.
Queue(w, l, to, frame) ==
    LET q == w[l][to] IN
    IF \/ link[l] # "up"
       \/ frame.kind = "frontier" /\ q # << >> /\ q[Len(q)] = frame
    THEN w
    ELSE [w EXCEPT ![l][to] = Append(@, frame)]

\* tx.Write of wants, when there are any.
SendWants(w, l, n, notes) ==
    IF notes = << >> THEN w ELSE Queue(w, l, Peer(l, n), Frontier(notes))

\* The bounds on what is in flight: messages, and all frames.
RoomForMessage(l, n) ==
    Len(SelectSeq(wire[l][Peer(l, n)], LAMBDA x : x.kind = "message")) < MaxContent
RoomForFrame(l, n) == Len(wire[l][Peer(l, n)]) < MaxFrames

\* Mutant: the note is moved without a signal to the loops.
SetFeedSeqSilently(n, f, s) == /\ note' = [note EXCEPT ![n][f] = s]
                               /\ UNCHANGED token

\* Mutant: the next number is noted.
SetFeedSeqNext(n, f, s) == /\ note' = [note EXCEPT ![n][f] = s + 1]
                           /\ token' = [token EXCEPT ![n] = TRUE]

\* StateMatrix.SetFeedSeq: the own note is replaced, whatever it was.
SetFeedSeq(n, f, s) == /\ note' = [note EXCEPT ![n][f] = s]
                       /\ token' = [token EXCEPT ![n] = TRUE]

----------------------------------------------------------------------------
Init ==
    /\ rows = [n \in Nodes |-> [f \in Feeds |-> << >>]]
    /\ received = [n \in Nodes |-> {}]
    \* Replicate was called for every foreign feed when the sbot was set up.
    /\ note = [n \in Nodes |-> [f \in Feeds |-> IF Author(f) = n THEN NoNote ELSE 0]]
    /\ theirs = [n \in Nodes |-> [m \in Nodes |-> [f \in Feeds |-> NoNote]]]
    /\ token = [n \in Nodes |-> FALSE]
    /\ link = [l \in Links |-> "idle"]
    /\ wire = [l \in Links |-> [n \in Nodes |-> << >>]]
    /\ open = [n \in Nodes |-> [m \in Nodes |-> NoLink]]
    /\ handler = [l \in Links |-> [n \in Nodes |-> "none"]]
    /\ held = [l \in Links |-> [n \in Nodes |-> NoMessage]]
    /\ loop = [l \in Links |-> [n \in Nodes |-> FALSE]]
    /\ streams = [l \in Links |-> [n \in Nodes |-> [f \in Feeds |-> {}]]]
    /\ pub = [p \in Publishers |-> Idle]
    /\ repl = [n \in Nodes |-> NoCall]
    /\ published = 0
    /\ replicated = 0
    /\ faults = 0
    /\ connections = 0
    /\ raced = FALSE
    /\ blind = FALSE
    /\ stale = FALSE

----------------------------------------------------------------------------
\* Publisher.Publish, the steps between its database calls.

\* It reads Seq and the last message, and signs the next sequence.
PublishSign(p, f) ==
    /\ pub[p] = Idle
    /\ published < MaxPublish
    /\ published' = published + 1
    /\ pub' = [pub EXCEPT ![p] =
           [at |-> "append", feed |-> f, seen |-> Len(rows[Author(f)][f]),
            msg |-> [seq |-> Len(rows[Author(f)][f]) + 1, id |-> published + 1]]]
    /\ UNCHANGED << dbVars, matrixVars, sessionVars, repl, replicated, faults,
                    connections, raced, blind, stale >>

\* logAdapter.Append gives the message the next row, whatever it was signed for.
AppendRow(n, f, msg) == rows' = [rows EXCEPT ![n][f] = Append(@, msg)]

\* receiveLog.Append.
AppendReceived(n, f, msg) ==
    received' = [received EXCEPT ![n] = @ \cup {<< f, msg >>}]

PublishAppend(p) ==
    /\ pub[p].at = "append"
    /\ LET c == pub[p] IN
       /\ AppendRow(Author(c.feed), c.feed, c.msg)
       /\ raced' = (raced \/ Len(rows[Author(c.feed)][c.feed]) # c.seen)
       /\ pub' = [pub EXCEPT ![p].at = "store"]
    /\ UNCHANGED << received, matrixVars, sessionVars, repl, boundVars, blind, stale >>

\* The receive log takes it, and AfterPublish moves the own note.
PublishStore(p) ==
    /\ pub[p].at = "store"
    /\ LET c == pub[p] n == Author(c.feed) IN
       /\ AppendReceived(n, c.feed, c.msg)
       /\ SetFeedSeq(n, c.feed, c.msg.seq)
    /\ pub' = [pub EXCEPT ![p] = Idle]
    /\ UNCHANGED << rows, theirs, sessionVars, repl, boundVars, raced, blind, stale >>

\* An append fails: Publish returns an error; the row, once there, stays.
PublishFails(p) ==
    /\ pub[p].at \in {"append", "store"}
    /\ replicated + faults < MaxFaults
    /\ faults' = faults + 1
    /\ pub' = [pub EXCEPT ![p] = Idle]
    /\ UNCHANGED << dbVars, matrixVars, sessionVars, repl, published, replicated,
                    connections, raced, blind, stale >>

\* Sbot.Replicate reads the log's Seq and then writes the note.
ReplicateRead(n, f) ==
    /\ repl[n] = NoCall
    /\ replicated + faults < MaxFaults
    /\ replicated' = replicated + 1
    /\ repl' = [repl EXCEPT ![n] = [at |-> "set", feed |-> f, seq |-> Len(rows[n][f])]]
    /\ UNCHANGED << dbVars, matrixVars, sessionVars, pub, published, faults,
                    connections, raced, blind, stale >>

ReplicateSet(n) ==
    /\ repl[n].at = "set"
    /\ SetFeedSeq(n, repl[n].feed, repl[n].seq)
    /\ stale' = (stale \/ repl[n].seq # Len(rows[n][repl[n].feed]))
    /\ repl' = [repl EXCEPT ![n] = NoCall]
    /\ UNCHANGED << dbVars, theirs, sessionVars, pub, boundVars, raced, blind >>

----------------------------------------------------------------------------
\* Connections and sessions.

Connect(l) ==
    /\ l = connections + 1
    /\ Overlap \/ \A k \in Links : link[k] # "up"
    /\ link' = [link EXCEPT ![l] = "up"]
    /\ handler' = [handler EXCEPT ![l] = [n \in Nodes |-> IF n \in Ends(l) THEN "new" ELSE "none"]]
    /\ connections' = connections + 1
    /\ UNCHANGED << dbVars, matrixVars, wire, open, held, loop, streams, callVars,
                    published, replicated, faults, raced, blind, stale >>

\* HandleDuplex: Sessions.Started, the initial state, the background loop.
Started(l, n) ==
    /\ handler[l][n] = "new"
    /\ open' = [open EXCEPT ![n][Peer(l, n)] = l]
    /\ wire' = Queue(wire, l, Peer(l, n), Frontier(State(n)))
    /\ loop' = [loop EXCEPT ![l][n] = TRUE]
    /\ handler' = [handler EXCEPT ![l][n] = "read"]
    /\ UNCHANGED << dbVars, matrixVars, link, held, streams, callVars, boundVars, raced, blind, stale >>

\* The background loop takes the token every loop of the node waits for.
LoopUpdate(l, n) ==
    /\ loop[l][n]
    /\ token[n]
    /\ RoomForFrame(l, n)
    /\ token' = [token EXCEPT ![n] = FALSE]
    /\ wire' = SendWants(wire, l, n, Changed(n, Peer(l, n), theirs[n][Peer(l, n)]))
    /\ UNCHANGED << dbVars, note, theirs, link, open, handler, held, loop, streams,
                    callVars, boundVars, raced, blind, stale >>

\* What becomes of a stream whose context is cancelled: the dialler's writer
\* does not look at it, so the goroutine runs on to the end of the log.
Cancelled(l, n, ss) ==
    IF n = Acceptor(l) THEN {} ELSE {[next |-> s.next, state |-> "cancelled"] : s \in ss}

\* Session.Subscribed: a new stream of the feed replaces the one before it.
Subscribed(l, n, f, from) ==
    Cancelled(l, n, streams[l][n][f]) \cup {[next |-> from, state |-> "live"]}

\* HandleDuplex on a frontier: Update, the streams it asks for, and the reply.
ReadFrontier(l, n) ==
    /\ handler[l][n] = "read"
    /\ wire[l][n] # << >>
    /\ Head(wire[l][n]).kind = "frontier"
    /\ RoomForFrame(l, n)
    /\ LET m     == Peer(l, n)
           notes == Head(wire[l][n]).notes
           known == [f \in Feeds |-> IF f \in DOMAIN notes THEN notes[f] ELSE theirs[n][m][f]]
           wanted == {f \in DOMAIN notes : /\ note[n][f] # NoNote
                                           /\ WireReceive(notes[f])
                                           /\ note[n][f] > WireSeq(notes[f])}
       IN /\ theirs' = [theirs EXCEPT ![n][m] = known]
          /\ streams' = [streams EXCEPT ![l][n] =
                 [f \in Feeds |-> IF f \in wanted
                                  THEN Subscribed(l, n, f, WireSeq(notes[f]) + 1)
                                  ELSE @[f]]]
          /\ wire' = SendWants([wire EXCEPT ![l][n] = Tail(@)], l, n, Changed(n, m, known))
    /\ UNCHANGED << dbVars, note, token, link, open, handler, held, loop, callVars,
                    boundVars, raced, blind, stale >>

\* Mutant: a message the log has is stored again.
ReadMessageAgain(l, n) ==
    /\ handler[l][n] = "read"
    /\ wire[l][n] # << >>
    /\ Head(wire[l][n]).kind = "message"
    /\ LET f   == Head(wire[l][n]).feed
           msg == Head(wire[l][n]).msg
       IN /\ msg.seq <= Seq_(n, f) + 1 \/ Seq_(n, f) = -1
          /\ handler' = [handler EXCEPT ![l][n] = "append"]
          /\ held' = [held EXCEPT ![l][n] =
                         [feed |-> f, seen |-> Len(rows[n][f]), msg |-> msg]]
    /\ wire' = [wire EXCEPT ![l][n] = Tail(@)]
    /\ UNCHANGED << dbVars, matrixVars, link, open, loop, streams, callVars, boundVars, raced, blind, stale >>

\* HandleDuplex on a message: AppendReplicatedMessage reads the log's Seq.
\* What the log already has is answered with that Seq, a gap is dropped.
ReadMessage(l, n) ==
    /\ handler[l][n] = "read"
    /\ wire[l][n] # << >>
    /\ Head(wire[l][n]).kind = "message"
    /\ LET f   == Head(wire[l][n]).feed
           msg == Head(wire[l][n]).msg
       IN \/ /\ msg.seq <= Seq_(n, f)
             /\ SetFeedSeq(n, f, Seq_(n, f))
             /\ UNCHANGED << handler, held >>
          \/ /\ Seq_(n, f) >= 0
             /\ msg.seq > Seq_(n, f) + 1
             /\ UNCHANGED << note, token, handler, held >>
          \/ /\ \/ Seq_(n, f) = -1
                \/ msg.seq = Seq_(n, f) + 1
             /\ handler' = [handler EXCEPT ![l][n] = "append"]
             /\ held' = [held EXCEPT ![l][n] =
                            [feed |-> f, seen |-> Len(rows[n][f]), msg |-> msg]]
             /\ UNCHANGED << note, token >>
    /\ wire' = [wire EXCEPT ![l][n] = Tail(@)]
    /\ UNCHANGED << dbVars, theirs, link, open, loop, streams, callVars, boundVars, raced, blind, stale >>

\* log.Append in the feed log.
AppendFeedLog(l, n) ==
    /\ handler[l][n] = "append"
    /\ LET h == held[l][n] IN
       /\ AppendRow(n, h.feed, h.msg)
       /\ raced' = (raced \/ Len(rows[n][h.feed]) # h.seen)
    /\ handler' = [handler EXCEPT ![l][n] = "store"]
    /\ UNCHANGED << received, matrixVars, link, wire, open, held, loop, streams,
                    callVars, boundVars, blind, stale >>

\* receiveLog.Append, then SetFeedSeq by the handler.
AppendReceiveLog(l, n) ==
    /\ handler[l][n] = "store"
    /\ LET h == held[l][n] IN
       /\ AppendReceived(n, h.feed, h.msg)
       /\ SetFeedSeq(n, h.feed, h.msg.seq)
    /\ handler' = [handler EXCEPT ![l][n] = "read"]
    /\ held' = [held EXCEPT ![l][n] = NoMessage]
    /\ UNCHANGED << rows, theirs, link, wire, open, loop, streams, callVars, boundVars, raced, blind, stale >>

\* Mutant: the handler moves the note in spite of the error.
AppendFailsNoted(l, n) ==
    /\ handler[l][n] \in {"append", "store"}
    /\ replicated + faults < MaxFaults
    /\ faults' = faults + 1
    /\ handler' = [handler EXCEPT ![l][n] = "read"]
    /\ SetFeedSeq(n, held[l][n].feed, held[l][n].msg.seq)
    /\ held' = [held EXCEPT ![l][n] = NoMessage]
    /\ UNCHANGED << dbVars, theirs, link, wire, open, loop, streams, callVars,
                    published, replicated, connections, raced, blind, stale >>

\* Either append fails: the handler logs it and reads on; a row stays.
AppendFails(l, n) ==
    /\ handler[l][n] \in {"append", "store"}
    /\ replicated + faults < MaxFaults
    /\ faults' = faults + 1
    /\ handler' = [handler EXCEPT ![l][n] = "read"]
    /\ blind' = (blind \/ rows[n][held[l][n].feed] = << >>)
    /\ held' = [held EXCEPT ![l][n] = NoMessage]
    /\ UNCHANGED << dbVars, matrixVars, link, wire, open, loop, streams, callVars,
                    published, replicated, connections, raced, stale >>

----------------------------------------------------------------------------
\* createStreamHistory.

\* GetMessage finds the row: the message is written and the next one is due.
StreamSend(l, n, f) ==
    /\ RoomForMessage(l, n)
    /\ \E s \in streams[l][n][f] :
           /\ s.state # "recheck"
           /\ Stored(n, f, s.next)
           /\ wire' = Queue(wire, l, Peer(l, n), Content(f, GetMessage(n, f, s.next)))
           /\ streams' = [streams EXCEPT ![l][n][f] =
                             (@ \ {s}) \cup {[s EXCEPT !.next = @ + 1]}]
    /\ UNCHANGED << dbVars, matrixVars, link, open, handler, held, loop, callVars,
                    boundVars, raced, blind, stale >>

\* Not found: a cancelled stream ends, a live one gives up after a minute
\* without a message, or has used its retries and looks at the log's Seq.
StreamMisses(l, n, f) ==
    /\ \E s \in streams[l][n][f] :
           /\ s.state # "recheck"
           /\ ~ Stored(n, f, s.next)
           /\ \/ streams' = [streams EXCEPT ![l][n][f] = @ \ {s}]
              \/ /\ s.state = "live"
                 /\ streams' = [streams EXCEPT ![l][n][f] =
                                   (@ \ {s}) \cup {[s EXCEPT !.state = "recheck"]}]
    /\ UNCHANGED << dbVars, matrixVars, link, wire, open, handler, held, loop, callVars,
                    boundVars, raced, blind, stale >>

\* After the retries: a log that has reached the sequence ends the stream.
StreamRecheck(l, n, f) ==
    /\ \E s \in streams[l][n][f] :
           /\ s.state = "recheck"
           /\ streams' = [streams EXCEPT ![l][n][f] =
                  (@ \ {s}) \cup IF Seq_(n, f) >= s.next THEN {}
                                 ELSE {[s EXCEPT !.state = "live"]}]
    /\ UNCHANGED << dbVars, matrixVars, link, wire, open, handler, held, loop, callVars,
                    boundVars, raced, blind, stale >>

----------------------------------------------------------------------------
\* Lost connections and restarts.

\* The connection is lost with what it carried.  The dialler's call is bound
\* to the context of the whole sbot: its handler waits on, its loop runs on.
\* What a stream would still write goes nowhere, so it is dropped at once.
Disconnect(l) ==
    /\ link[l] = "up"
    /\ link' = [link EXCEPT ![l] = "down"]
    /\ wire' = [wire EXCEPT ![l] = [n \in Nodes |-> << >>]]
    /\ streams' = [streams EXCEPT ![l] = [n \in Nodes |-> [f \in Feeds |-> {}]]]
    /\ UNCHANGED << dbVars, matrixVars, open, handler, held, loop, callVars, boundVars,
                    raced, blind, stale >>

\* The acceptor's handler returns: its own goroutines stop with the context of
\* the connection, and Ended cancels the session open[addr] holds by now.
Ended(l) ==
    LET n == Acceptor(l) m == Dialler(l) o == open[n][m] IN
    /\ link[l] = "down"
    /\ handler[l][n] \in {"new", "read"}
    /\ handler' = [handler EXCEPT ![l][n] = "ended"]
    /\ loop' = [loop EXCEPT ![l][n] = FALSE]
    /\ streams' = [k \in Links |->
           IF k = o THEN [streams[k] EXCEPT ![n] = [f \in Feeds |-> {}]] ELSE streams[k]]
    /\ open' = [open EXCEPT ![n][m] = NoLink]
    /\ UNCHANGED << dbVars, matrixVars, link, wire, held, callVars, boundVars, raced, blind, stale >>

\* InitializeFromFeedlog: the own notes are read from the logs.
InitializeFromFeedlog(n) ==
    [f \in Feeds |-> IF rows[n][f] # << >> THEN Len(rows[n][f])
                     ELSE IF Author(f) = n THEN -1 ELSE 0]

\* The process of n ends and starts again: the matrix is read from the logs,
\* and every connection and call of n is gone.
Restart(n) ==
    /\ replicated + faults < MaxFaults
    /\ faults' = faults + 1
    /\ note' = [note EXCEPT ![n] = InitializeFromFeedlog(n)]
    /\ theirs' = [theirs EXCEPT ![n] = [m \in Nodes |-> [f \in Feeds |-> NoNote]]]
    /\ token' = [token EXCEPT ![n] = TRUE]
    /\ link' = [l \in Links |-> IF n \in Ends(l) /\ link[l] = "up" THEN "down" ELSE link[l]]
    /\ wire' = [l \in Links |-> IF n \in Ends(l) THEN [m \in Nodes |-> << >>] ELSE wire[l]]
    /\ open' = [open EXCEPT ![n] = [m \in Nodes |-> NoLink]]
    /\ handler' = [l \in Links |-> IF link[l] = "idle" THEN handler[l]
                                   ELSE [handler[l] EXCEPT ![n] = IF n \in Ends(l) THEN "ended" ELSE @]]
    /\ held' = [l \in Links |-> [held[l] EXCEPT ![n] = NoMessage]]
    /\ loop' = [l \in Links |-> [loop[l] EXCEPT ![n] = FALSE]]
    /\ streams' = [l \in Links |-> IF n \in Ends(l) THEN [m \in Nodes |-> [f \in Feeds |-> {}]]
                                   ELSE streams[l]]
    /\ pub' = [p \in Publishers |-> IF pub[p] # Idle /\ Author(pub[p].feed) = n
                                    THEN Idle ELSE pub[p]]
    /\ repl' = [repl EXCEPT ![n] = NoCall]
    /\ UNCHANGED << dbVars, published, replicated, connections, raced, blind, stale >>

----------------------------------------------------------------------------
Next ==
    \/ \E p \in Publishers : \/ \E f \in Feeds : PublishSign(p, f)
                             \/ PublishAppend(p)
                             \/ PublishStore(p)
                             \/ PublishFails(p)
    \/ \E n \in Nodes : \/ \E f \in Feeds : ReplicateRead(n, f)
                        \/ ReplicateSet(n)
                        \/ Restart(n)
    \/ \E l \in Links : \/ Connect(l)
                        \/ Disconnect(l)
                        \/ Ended(l)
    \/ \E l \in Links : \E n \in Ends(l) :
           \/ Started(l, n)
           \/ LoopUpdate(l, n)
           \/ ReadFrontier(l, n)
           \/ ReadMessage(l, n)
           \/ AppendFeedLog(l, n)
           \/ AppendReceiveLog(l, n)
           \/ AppendFails(l, n)
           \/ \E f \in Feeds : \/ StreamSend(l, n, f)
                               \/ StreamMisses(l, n, f)
                               \/ StreamRecheck(l, n, f)

\* Every goroutine that can run does; connections, calls and failures need not
\* happen, and a stream without a message may wait for as long as it likes.
Fairness ==
    /\ \A p \in Publishers : WF_vars(PublishAppend(p)) /\ WF_vars(PublishStore(p))
    /\ \A n \in Nodes : WF_vars(ReplicateSet(n))
    /\ \A l \in Links : \A n \in Ends(l) :
           /\ WF_vars(Started(l, n))
           /\ SF_vars(LoopUpdate(l, n))
           /\ WF_vars(ReadFrontier(l, n))
           /\ WF_vars(ReadMessage(l, n))
           /\ WF_vars(AppendFeedLog(l, n))
           /\ WF_vars(AppendReceiveLog(l, n))
           /\ \A f \in Feeds : SF_vars(StreamSend(l, n, f)) /\ WF_vars(StreamRecheck(l, n, f))
    /\ \A l \in Links : WF_vars(Ended(l))

Spec == Init /\ [][Next]_vars /\ Fairness

----------------------------------------------------------------------------
\* Each variable holds a value of its kind; a message in flight, in a log or in
\* a handler is one the author's Publish signed.
TypeOK ==
    /\ rows \in [Nodes -> [Feeds -> Seq(Message)]]
    /\ \A n \in Nodes : received[n] \subseteq Feeds \X Message
    /\ note \in [Nodes -> [Feeds -> Int]]
    /\ theirs \in [Nodes -> [Nodes -> [Feeds -> Int]]]
    /\ token \in [Nodes -> BOOLEAN]
    /\ link \in [Links -> {"idle", "up", "down"}]
    /\ \A l \in Links, n \in Nodes :
           /\ handler[l][n] \in {"none", "new", "read", "append", "store", "ended"}
           /\ (handler[l][n] \in {"append", "store"}) = (held[l][n] # NoMessage)
           /\ held[l][n] # NoMessage => held[l][n].msg \in Message
           \* Session.Subscribed: one stream of a feed per session is not cancelled.
           /\ \A f \in Feeds : Cardinality({s \in streams[l][n][f] : s.state # "cancelled"}) <= 1
    /\ open \in [Nodes -> [Nodes -> Links \cup {NoLink}]]
    /\ loop \in [Links -> [Nodes -> BOOLEAN]]

\* As long as no append has failed on an empty log (blind: the handler then takes any
\* next message for the first), a node never announces more of a feed than its log
\* holds (Replicate, AfterPublish, SetFeedSeq and InitializeFromFeedlog all write the
\* note from a value read some time before).
NoteNeverAhead ==
    ~ blind => \A n \in Nodes, f \in Feeds : note[n][f] <= Len(rows[n][f])

\* As long as no append ran on a stale Seq and none failed on an empty log,
\* every replica is a prefix of the author's feed and each row holds the message
\* with its own number, whatever was lost, sent again by a second stream, or sent
\* again after a restart.
ReplicasArePrefixes ==
    ~ raced /\ ~ blind => \A n \in Nodes, f \in Feeds :
        /\ Len(rows[n][f]) <= Len(rows[Author(f)][f])
        /\ \A i \in 1..Len(rows[n][f]) : /\ rows[n][f][i].seq = i
                                         /\ rows[n][f][i] = rows[Author(f)][f][i]

Synced ==
    \A n \in Nodes, f \in Feeds :
        note[n][f] # NoNote => Len(rows[n][f]) >= Len(rows[Author(f)][f])

Undisturbed == /\ faults = 0
               /\ ~ raced
               /\ ~ stale
               /\ connections = 1
               /\ \E l \in Links : link[l] = "up"

\* On one connection that stays up every published message arrives, however the
\* updates, echoes, restarted streams and stale notes interleave.
OneLinkSyncs == <>[]Undisturbed => <>[]Synced
=============================================================================
