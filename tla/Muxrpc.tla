------------------------------- MODULE Muxrpc -------------------------------
(***************************************************************************)
(* internal/ssb/muxrpc: two endpoints of one connection that call each      *)
(* other.  Each keeps a table of open requests by id: its own calls, which  *)
(* doCall numbers from 1, and the requests of the peer, under the number    *)
(* the peer gave them.                                                      *)
(*                                                                          *)
(* A call is its caller and its number.  A packet carries the call it was   *)
(* written for (the body and the stream flags stand for it), the sign of    *)
(* its req field and what it is: the request, a frame with its number, or a *)
(* last packet.  The connection delivers packets in order (BoxStream).      *)
(***************************************************************************)
EXTENDS Integers, Sequences, FiniteSets

CONSTANTS
    Calls,        \* bound: Calls[e] is how many calls endpoint e makes
    Kinds,        \* Kinds[e]: the types of e's calls, of "async", "source", "duplex"
    MaxFrames     \* bound: frames a handler or a caller writes to a stream

Endpoints == DOMAIN Calls
PeerOf(e) == CHOOSE f \in Endpoints : f # e
AllCalls == UNION {{e} \X (1..Calls[e]) : e \in Endpoints}

Ids == UNION {1..Calls[e] : e \in Endpoints}

VARIABLES
    nextID,    \* rpc.nextID
    table,     \* table[e]: rpc.streams, from ids to requests
    wire,      \* wire[e]: packets written for e, in rpc.out and on the connection
    up,        \* the connection
    call,      \* call[c]: the caller's side: kind, at, sink, sent
    handler,   \* handler[c]: the goroutine that handles c at the peer
    written,   \* written[c]: frames the handler wrote
    source,    \* source[e][c]: what the ByteSource of e's request c was given, and failed
    \* History.
    crossed,   \* a packet met, or a registration replaced, an entry of another request
    late       \* late[c]: a response came before doCall had registered c

muxVars == << nextID, table, wire, up, call, handler, written, source,
              crossed, late >>

NoRequest == << "none", 0 >>
NoCall == [kind |-> "none", at |-> "none", sink |-> "open", sent |-> 0]

Init ==
    /\ nextID = [e \in Endpoints |-> 1]
    /\ table = [e \in Endpoints |-> [i \in Ids |-> NoRequest]]
    /\ wire = [e \in Endpoints |-> << >>]
    /\ up = TRUE
    /\ call = [c \in AllCalls |-> NoCall]
    /\ handler = [c \in AllCalls |-> "none"]
    /\ written = [c \in AllCalls |-> 0]
    /\ source = [e \in Endpoints |-> [c \in AllCalls |-> [frames |-> << >>, failed |-> FALSE]]]
    /\ crossed = FALSE
    /\ late = [c \in AllCalls |-> FALSE]

Packet(c, sign, what, n) == [call |-> c, sign |-> sign, what |-> what, n |-> n]

----------------------------------------------------------------------------
\* A packet written at e, by the sender goroutine or by a handler's sink.
Write(e, p) == wire' = IF up THEN [wire EXCEPT ![PeerOf(e)] = Append(@, p)] ELSE wire

\* doCall: the number is taken and the packet queued; the entry follows.
CallSend(e, kind) ==
    /\ nextID[e] <= Calls[e]
    /\ LET c == << e, nextID[e] >> IN
       /\ call' = [call EXCEPT ![c] = [NoCall EXCEPT !.kind = kind, !.at = "queued"]]
       /\ Write(e, Packet(c, 1, "request", 0))
    /\ nextID' = [nextID EXCEPT ![e] = @ + 1]
    /\ UNCHANGED << table, up, handler, written, source, crossed, late >>

CallRegister(c) ==
    /\ call[c].at = "queued"
    /\ call' = [call EXCEPT ![c].at = "open"]
    /\ table' = [table EXCEPT ![c[1]][c[2]] = c]
    /\ crossed' = (crossed \/ table[c[1]][c[2]] # NoRequest)
    /\ UNCHANGED << nextID, wire, up, handler, written, source, late >>

\* ByteSink.Write and Close of the caller, through the out queue and the
\* sender goroutine.
CallWrite(c) ==
    /\ call[c].at = "open"
    /\ call[c].kind = "duplex"
    /\ call[c].sink = "open"
    /\ \/ /\ call[c].sent < MaxFrames
          /\ call' = [call EXCEPT ![c].sent = @ + 1]
          /\ Write(c[1], Packet(c, 1, "frame", call[c].sent + 1))
       \/ /\ call' = [call EXCEPT ![c].sink = "closed"]
          /\ Write(c[1], Packet(c, 1, "end", 0))
    /\ UNCHANGED << nextID, table, up, handler, written, source, crossed, late >>

----------------------------------------------------------------------------
\* HandlePacket.

\* Mutant: only a value ends the source.
GivenUnended(src, p) ==
    [frames |-> IF src.failed \/ p.what = "end" THEN src.frames ELSE Append(src.frames, p.n),
     failed |-> src.failed \/ p.what = "result"]

\* ByteSource.WritePacket of a body, and Cancel for a last packet.
Given(src, p) ==
    [frames |-> IF src.failed \/ p.what = "end" THEN src.frames ELSE Append(src.frames, p.n),
     failed |-> src.failed \/ p.what \notin {"request", "frame"}]

\* The packet goes to the request its number has in the table; a last packet
\* takes the entry out.
ToEntry(e, p) ==
    LET r == table[e][p.call[2]] IN
    /\ source' = [source EXCEPT ![e][r] = Given(@, p)]
    /\ table' = IF p.what \in {"request", "frame"} THEN table
                ELSE [table EXCEPT ![e][p.call[2]] = NoRequest]
    /\ crossed' = (crossed \/ r # p.call \/ p.what = "request")
    /\ UNCHANGED << handler, late >>

\* A response without an entry is dropped.
DropResponse(e, p) ==
    /\ late' = [late EXCEPT ![p.call] = @ \/ call[p.call].at = "queued"]
    /\ UNCHANGED << table, handler, source, crossed >>

\* A request starts its handler.
StartHandler(e, p) ==
    /\ handler' = [handler EXCEPT ![p.call] = "run"]
    /\ table' = [table EXCEPT ![e][p.call[2]] = p.call]
    /\ UNCHANGED << source, crossed, late >>

\* A follow-up without an entry is taken for a request without a method: it is
\* registered, answered with an error and closed by HandlerMux.
RefuseFollowUp(e, p) == UNCHANGED << table, handler, source, crossed, late >>

HandlePacket(e) ==
    /\ up
    /\ wire[e] # << >>
    /\ LET p       == Head(wire[e])
           rest    == [wire EXCEPT ![e] = Tail(@)]
           unknown == table[e][p.call[2]] = NoRequest
       IN \/ /\ ~ unknown
             /\ ToEntry(e, p)
             /\ wire' = rest
          \/ /\ unknown /\ p.sign = -1
             /\ DropResponse(e, p)
             /\ wire' = rest
          \/ /\ unknown /\ p.sign = 1 /\ p.what = "request"
             /\ StartHandler(e, p)
             /\ wire' = rest
          \/ /\ unknown /\ p.sign = 1 /\ p.what # "request"
             /\ RefuseFollowUp(e, p)
             /\ wire' = [rest EXCEPT ![PeerOf(e)] = Append(@, Packet(p.call, -1, "error", -1))]
    /\ UNCHANGED << nextID, up, call, written >>

----------------------------------------------------------------------------
\* The handler's side; its sink writes to the packer directly.
Respond(c, what, n) == Write(PeerOf(c[1]), Packet(c, -1, what, n))

HandlerWrite(c) ==
    /\ handler[c] = "run"
    /\ call[c].kind # "async"
    /\ written[c] < MaxFrames
    /\ written' = [written EXCEPT ![c] = @ + 1]
    /\ Respond(c, "frame", written[c] + 1)
    /\ UNCHANGED << nextID, table, up, call, handler, source, crossed, late >>

\* Mutant: the last packet of a stream repeats the sink's buffer.
HandlerCloseRepeating(c) ==
    /\ handler[c] = "run"
    /\ \/ /\ call[c].kind = "async"
          /\ written' = [written EXCEPT ![c] = 1]
          /\ Respond(c, "result", 1)
       \/ /\ call[c].kind # "async"
          /\ Respond(c, "result", written[c])
          /\ UNCHANGED written
    /\ handler' = [handler EXCEPT ![c] = "closing"]
    /\ UNCHANGED << nextID, table, up, call, source, crossed, late >>

\* Return writes the value in the last packet; Close and CloseWithError write an
\* empty or an error packet.
HandlerClose(c) ==
    /\ handler[c] = "run"
    /\ \/ /\ call[c].kind = "async"
          /\ written' = [written EXCEPT ![c] = 1]
          /\ Respond(c, "result", 1)
       \/ /\ call[c].kind # "async"
          /\ Respond(c, "end", 0)
          /\ UNCHANGED written
       \/ /\ Respond(c, "error", -1)
          /\ UNCHANGED written
    /\ handler' = [handler EXCEPT ![c] = "closing"]
    /\ UNCHANGED << nextID, table, up, call, source, crossed, late >>

\* closeStream deletes the entry of the number, whoever's it is by now.
HandlerCloseStream(c) ==
    LET e == PeerOf(c[1]) IN
    /\ handler[c] = "closing"
    /\ handler' = [handler EXCEPT ![c] = "closed"]
    /\ crossed' = (crossed \/ table[e][c[2]] \notin {c, NoRequest})
    /\ table' = [table EXCEPT ![e][c[2]] = NoRequest]
    /\ UNCHANGED << nextID, wire, up, call, written, source, late >>

----------------------------------------------------------------------------
\* ByteSource.Bytes returns the result, or the source has ended and is drained.
CallEnds(c) ==
    /\ call[c].at = "open"
    /\ \/ source[c[1]][c].failed
       \/ call[c].kind = "async" /\ source[c[1]][c].frames # << >>
    /\ call' = [call EXCEPT ![c].at = "over"]
    /\ UNCHANGED << nextID, table, wire, up, handler, written, source, crossed, late >>

\* The caller's context ends: the source fails, and nothing is told to the peer.
CallCancel(c) ==
    /\ call[c].at = "open"
    /\ call' = [call EXCEPT ![c].at = "over"]
    /\ source' = [source EXCEPT ![c[1]][c].failed = TRUE]
    /\ UNCHANGED << nextID, table, wire, up, handler, written, crossed, late >>

\* The connection ends: serve returns and the sources are left as they are.
Disconnect ==
    /\ up
    /\ up' = FALSE
    /\ wire' = [e \in Endpoints |-> << >>]
    /\ UNCHANGED << nextID, table, call, handler, written, source, crossed, late >>

Next ==
    \/ \E e \in Endpoints : \/ \E kind \in Kinds[e] : CallSend(e, kind)
                            \/ HandlePacket(e)
    \/ \E c \in AllCalls : \/ CallRegister(c)
                           \/ CallWrite(c)
                           \/ HandlerWrite(c)
                           \/ HandlerClose(c)
                           \/ HandlerCloseStream(c)
                           \/ CallEnds(c)
                           \/ CallCancel(c)
    \/ Disconnect

\* The goroutines of both ends run; handlers need not return, callers need not
\* write, close or give up, and the connection need not end.
Fairness ==
    /\ \A e \in Endpoints : WF_muxVars(HandlePacket(e))
    /\ \A c \in AllCalls : /\ WF_muxVars(CallRegister(c))
                           /\ WF_muxVars(HandlerCloseStream(c))
                           /\ WF_muxVars(CallEnds(c))

Spec == Init /\ [][Next]_muxVars /\ Fairness

----------------------------------------------------------------------------
\* What reaches the reader of a call is what its handler wrote, and what reaches
\* the handler is what the caller wrote, in order and without a hole; responses
\* can be missing only at the start, when the peer answered before doCall had
\* put the call in its table.  An error comes last.
FramesInOrder ==
    ~ crossed => \A c \in AllCalls, e \in Endpoints :
        LET got == source[e][c].frames IN
        \A i \in 1..Len(got) :
            \/ got[i] = -1 /\ i = Len(got)
            \/ /\ got[i] \in 1..(IF e = c[1] THEN written[c] ELSE call[c].sent)
               /\ i = 1 => got[i] = 1 \/ (late[c] /\ e = c[1])
               /\ i > 1 => got[i] = got[i - 1] + 1

\* On a connection that stays up a call reaches its handler, and comes back when
\* the handler closes, unless the answer was late.
CallsReturn ==
    \A c \in AllCalls :
        LET excused == late[c] \/ crossed \/ ~ up \/ call[c].at = "over" IN
        /\ call[c].at = "open" ~> (handler[c] # "none" \/ excused)
        /\ handler[c] = "closing" ~> excused
=============================================================================
