----------------------------- MODULE RoomTunnel -----------------------------
(***************************************************************************)
(* A tunnel through the room: handleConnect of                              *)
(* internal/ssb/muxrpc/handlers/room/tunnel.go joins a duplex stream of the *)
(* caller to a duplex stream it opens to the target, with one goroutine per *)
(* direction and a cleanup that runs once.  The two clients use their       *)
(* stream as a connection (stream_conn.go).  The packets between a client   *)
(* and the room arrive in order; a connection may be lost at any step.      *)
(***************************************************************************)
EXTENDS Integers, Sequences

CONSTANT MaxSent    \* bound: frames an end sends, 1..MaxSent

Ends == {"caller", "target"}
\* Packets are the frames 1, 2, ..., the request and the end of the stream.
EndPacket == 0
RequestPacket == -1
Other(e) == IF e = "caller" THEN "target" ELSE "caller"

VARIABLES
    tunnel,      \* where handleConnect is
    announced, registered,     \* the target: HasPeer, PeerRegistry
    up,          \* up[e]: the connection of client e
    expired,     \* the context of the caller's connection is cancelled
    toRoom, toEnd,             \* packets on their way
    source,      \* source[e]: the room's ByteSource of client e: frames, failed
    sinkClosed,  \* sinkClosed[e]: the room's ByteSink to client e
    copier,      \* copier[e]: the goroutine that reads source[e]
    cleanup,     \* steps of the cleanup that are done, 0..4
    sent, got,   \* what client e wrote and read
    joined,      \* the target has the request
    closed,      \* client e closed its end
    ended        \* client e read the end of the stream

tunnelVars == << tunnel, announced, registered, up, expired, toRoom, toEnd, source, sinkClosed,
                 copier, cleanup, sent, got, joined, closed, ended >>
clientVars == << sent, got, joined, closed, ended >>
roomEnd == << source, sinkClosed, copier, cleanup >>

\* A guest that left is still announced and registered, a member that is leaving
\* may be announced no more and registered still.
Init ==
    /\ tunnel = "asked"
    /\ announced \in BOOLEAN /\ registered \in BOOLEAN
    /\ up \in [Ends -> BOOLEAN] /\ up["caller"]
    /\ expired = FALSE
    /\ toRoom = [e \in Ends |-> << >>] /\ toEnd = [e \in Ends |-> << >>]
    /\ source = [e \in Ends |-> [frames |-> << >>, failed |-> FALSE]]
    /\ sinkClosed = [e \in Ends |-> FALSE]
    /\ copier = [e \in Ends |-> "none"]
    /\ cleanup = 0
    /\ sent = [e \in Ends |-> 0] /\ got = [e \in Ends |-> << >>]
    /\ joined = FALSE
    /\ closed = [e \in Ends |-> FALSE] /\ ended = [e \in Ends |-> FALSE]

\* A packet that is written to client e, which is lost with its connection.
Post(e, p) == toEnd' = IF up[e] THEN [toEnd EXCEPT ![e] = Append(@, p)] ELSE toEnd

-----------------------------------------------------------------------------
(* handleConnect                                                             *)

Refuse ==
    /\ tunnel' = "refused"
    /\ sinkClosed' = [sinkClosed EXCEPT !["caller"] = TRUE]
    /\ source' = [source EXCEPT !["caller"].failed = TRUE]
    /\ Post("caller", EndPacket)
    /\ UNCHANGED << announced, registered, up, expired, toRoom, copier, cleanup, clientVars >>

HasPeer ==
    /\ tunnel = "asked"
    /\ \/ ~announced /\ Refuse
       \/ /\ announced
          /\ tunnel' = "announced"
          /\ UNCHANGED << announced, registered, up, expired, toRoom, toEnd, roomEnd, clientVars >>

\* Duplex only queues the request: with a target that is gone it succeeds too.
GetPeerMuxRPC ==
    /\ tunnel = "announced"
    /\ \/ ~registered /\ Refuse
       \/ /\ registered
          /\ tunnel' = "open"
          /\ Post("target", RequestPacket)
          /\ copier' = [e \in Ends |-> "copy"]
          /\ UNCHANGED << announced, registered, up, expired, toRoom, source, sinkClosed, cleanup,
                          clientVars >>

-----------------------------------------------------------------------------
(* copySourceToSink and the ByteSource and ByteSink it works on              *)

\* HandlePacket: a body goes to the source unless that has failed, an end fails it.
RoomReceives(e) ==
    /\ toRoom[e] # << >>
    /\ toRoom' = [toRoom EXCEPT ![e] = Tail(@)]
    /\ source' = [source EXCEPT ![e] =
                     IF Head(toRoom[e]) = EndPacket THEN [@ EXCEPT !.failed = TRUE]
                     ELSE IF @.failed THEN @
                     ELSE [@ EXCEPT !.frames = Append(source[e].frames, Head(toRoom[e]))]]
    /\ UNCHANGED << tunnel, announced, registered, up, expired, toEnd, sinkClosed, copier, cleanup,
                    clientVars >>

\* Next is false when the source has failed and nothing is left in it.
NextIsFalseAtOnce(e) == source[e].failed
NextIsFalse(e) == source[e].failed /\ source[e].frames = << >>

\* The write to the caller goes to its connection and fails with it, the write to
\* the target is queued.
CopyFrame(e) ==
    /\ copier[e] = "copy" /\ ~expired
    /\ source[e].frames # << >> /\ ~NextIsFalse(e)
    /\ source' = [source EXCEPT ![e].frames = Tail(@)]
    /\ IF sinkClosed[Other(e)] \/ (Other(e) = "caller" /\ ~up["caller"])
       THEN copier' = [copier EXCEPT ![e] = "cleanup"] /\ toEnd' = toEnd
       ELSE Post(Other(e), Head(source[e].frames)) /\ copier' = copier
    /\ UNCHANGED << tunnel, announced, registered, up, expired, toRoom, sinkClosed, cleanup,
                    clientVars >>

CopyEnds(e) ==
    /\ copier[e] = "copy"
    /\ expired \/ NextIsFalse(e)
    /\ copier' = [copier EXCEPT ![e] = "cleanup"]
    /\ UNCHANGED << tunnel, announced, registered, up, expired, toRoom, toEnd, source, sinkClosed,
                    cleanup, clientVars >>

\* Both sources are cancelled, then both sinks closed.
CleanupStepCaller(k) ==
    /\ source' = IF k = 0 THEN [source EXCEPT !["caller"].failed = TRUE] ELSE source
    /\ \E e \in Ends :
          /\ e = (IF k < 3 THEN "caller" ELSE "target")
          /\ sinkClosed' = IF k < 2 THEN sinkClosed ELSE [sinkClosed EXCEPT ![e] = TRUE]
          /\ IF k < 2 THEN toEnd' = toEnd ELSE Post(e, EndPacket)
CleanupStep(k) ==
    /\ source' = CASE k = 0 -> [source EXCEPT !["caller"].failed = TRUE]
                   [] k = 1 -> [source EXCEPT !["target"].failed = TRUE]
                   [] OTHER -> source
    /\ \E e \in Ends :
          /\ e = (IF k < 3 THEN "caller" ELSE "target")
          /\ sinkClosed' = IF k < 2 THEN sinkClosed ELSE [sinkClosed EXCEPT ![e] = TRUE]
          /\ IF k < 2 THEN toEnd' = toEnd ELSE Post(e, EndPacket)

Cleanup ==
    /\ \E e \in Ends : copier[e] = "cleanup"
    /\ cleanup < 4
    /\ CleanupStep(cleanup)
    /\ cleanup' = cleanup + 1
    /\ UNCHANGED << tunnel, announced, registered, up, expired, toRoom, copier, clientVars >>

\* sync.Once: whoever calls cleanup returns when it is done; then the goroutine ends.
CopierDone(e) ==
    /\ copier[e] = "cleanup" /\ cleanup = 4
    /\ copier' = [copier EXCEPT ![e] = "done"]
    /\ tunnel' = IF copier[Other(e)] = "done" THEN "closed" ELSE tunnel
    /\ UNCHANGED << announced, registered, up, expired, toRoom, toEnd, source, sinkClosed, cleanup,
                    clientVars >>

-----------------------------------------------------------------------------
(* The clients: byteStreamConn                                               *)

Opened(e) == up[e] /\ (e = "caller" \/ joined)

StreamConnWrite(e) ==
    /\ Opened(e) /\ ~closed[e] /\ sent[e] < MaxSent
    /\ sent' = [sent EXCEPT ![e] = @ + 1]
    /\ toRoom' = [toRoom EXCEPT ![e] = Append(@, sent[e] + 1)]
    /\ UNCHANGED << tunnel, announced, registered, up, expired, toEnd, roomEnd, got, joined, closed,
                    ended >>

StreamConnRead(e) ==
    /\ up[e] /\ ~closed[e] /\ toEnd[e] # << >>
    /\ toEnd' = [toEnd EXCEPT ![e] = Tail(@)]
    /\ LET p == Head(toEnd[e]) IN
       /\ joined' = (joined \/ p = RequestPacket)
       /\ ended' = [ended EXCEPT ![e] = @ \/ p = EndPacket]
       /\ got' = IF p > 0 THEN [got EXCEPT ![e] = Append(@, p)] ELSE got
    /\ UNCHANGED << tunnel, announced, registered, up, expired, toRoom, roomEnd, sent, closed >>

StreamConnClose(e) ==
    /\ Opened(e) /\ ~closed[e]
    /\ closed' = [closed EXCEPT ![e] = TRUE]
    /\ toRoom' = [toRoom EXCEPT ![e] = Append(@, EndPacket)]
    /\ UNCHANGED << tunnel, announced, registered, up, expired, toEnd, roomEnd, sent, got, joined,
                    ended >>

Lose(e) ==
    /\ up[e]
    /\ up' = [up EXCEPT ![e] = FALSE]
    /\ toRoom' = [toRoom EXCEPT ![e] = << >>]
    /\ toEnd' = [toEnd EXCEPT ![e] = << >>]
    /\ UNCHANGED << tunnel, announced, registered, expired, roomEnd, clientVars >>

\* handleMUXRPCConn returns: the caller's context ends, a member target is taken
\* out of the state and then out of the registry.
ConnReturns(e) ==
    /\ ~up[e]
    /\ \/ e = "caller" /\ ~expired /\ expired' = TRUE /\ UNCHANGED << announced, registered >>
       \/ e = "target" /\ announced /\ announced' = FALSE /\ UNCHANGED << expired, registered >>
       \/ e = "target" /\ ~announced /\ registered /\ registered' = FALSE
          /\ UNCHANGED << expired, announced >>
    /\ UNCHANGED << tunnel, up, toRoom, toEnd, roomEnd, clientVars >>

-----------------------------------------------------------------------------
Next ==
    \/ HasPeer \/ GetPeerMuxRPC \/ Cleanup
    \/ \E e \in Ends :
          \/ RoomReceives(e) \/ CopyFrame(e) \/ CopyEnds(e) \/ CopierDone(e)
          \/ StreamConnWrite(e) \/ StreamConnRead(e) \/ StreamConnClose(e)
          \/ Lose(e) \/ ConnReturns(e)

\* The room's goroutines run, a connection delivers what was written to it, and the
\* goroutine of a connection that is lost returns.
TunnelFairness ==
    /\ WF_tunnelVars(HasPeer) /\ WF_tunnelVars(GetPeerMuxRPC) /\ WF_tunnelVars(Cleanup)
    /\ \A e \in Ends :
          /\ WF_tunnelVars(RoomReceives(e)) /\ WF_tunnelVars(CopyFrame(e))
          /\ WF_tunnelVars(CopyEnds(e)) /\ WF_tunnelVars(CopierDone(e))
    /\ WF_tunnelVars(ConnReturns("caller"))

Spec == Init /\ [][Next]_tunnelVars /\ TunnelFairness

-----------------------------------------------------------------------------
Frames(n) == [i \in 1..n |-> i]

\* What an end has read is a prefix of what the other wrote; and when one end wrote,
\* closed and kept its connection, the other one, which did not close, has read all
\* of it once it reads the end, however the two goroutines and the cleanup of
\* handleConnect interleave.
NothingCutOff ==
    \A e \in Ends :
        LET o == Other(e) IN
        /\ Len(got[o]) <= sent[e] /\ got[o] = Frames(Len(got[o]))
        /\ ended[o] /\ closed[e] /\ up[e] /\ tunnel \in {"open", "closed"}
              => Len(got[o]) = sent[e]

\* A tunnel whose caller closed its end or lost its connection, or whose target
\* closed its end, is taken down by handleConnect: both goroutines end.  (A target
\* that only loses its connection leaves the tunnel open.)
TunnelEnds ==
    /\ (tunnel = "open" /\ (closed["caller"] \/ ~up["caller"])) ~> (tunnel = "closed")
    /\ (tunnel = "open" /\ closed["target"]) ~> (tunnel = "closed" \/ ~up["target"])
=============================================================================
