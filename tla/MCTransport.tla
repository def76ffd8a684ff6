---------------------------- MODULE MCTransport -----------------------------
(***************************************************************************)
(* The layers of a connection.  A behaviour either dials: the handshake,    *)
(* and once both ends are done one direction of the box stream with the     *)
(* packets on it; or it starts with the endpoints of an established         *)
(* connection that call each other.                                         *)
(***************************************************************************)
EXTENDS Handshake

CONSTANTS BodyLengths, MaxSegment, MaxPackets, MaxFrames
CONSTANT MaxCalls     \* bound: calls an endpoint makes

VARIABLES
    layer,
    sent, todo, boxNonce, closed, sealed, unNonce, buffer, leftover, reading, header,
    body, packets, plain, opened,
    nextID, table, wire, up, call, handler, written, source, crossed, late

\* An endpoint makes calls of either kind, the other one answers and calls back.
Calls == [e \in {"a", "b"} |-> MaxCalls]
Kinds == [e \in {"a", "b"} |-> IF e = "a" THEN {"async", "duplex"} ELSE {"async"}]

Box == INSTANCE BoxStream WITH wire <- sealed
Mux == INSTANCE Muxrpc

boxVars == << sent, todo, boxNonce, closed, sealed, unNonce, buffer, leftover, reading,
              header, body, packets, plain, opened >>
muxVars == << nextID, table, wire, up, call, handler, written, source, crossed, late >>

\* A handshake that is not made stays in one of its initial states.
TransportInit ==
    /\ Init /\ Box!Init /\ Mux!Init
    /\ \/ layer = "handshake"
       \/ /\ layer = "muxrpc"
          /\ \A e \in Ends : /\ local[e] = hs["client"].remotePublic
                             /\ appKey[e] = CHOOSE k \in AppKeys : TRUE
          /\ hs["client"].remotePublic = CHOOSE k \in Keys : TRUE

\* Client.Handshake and Server.Handshake return: boxer and unboxer are made.
Established ==
    /\ layer = "handshake"
    /\ \A e \in Ends : hs[e].role = "done"
    /\ layer' = "boxstream"
    /\ UNCHANGED << hsVars, boxVars, muxVars >>

TransportNext ==
    \/ layer = "handshake" /\ Next /\ UNCHANGED << layer, boxVars, muxVars >>
    \/ Established
    \/ layer = "boxstream" /\ Box!Next /\ UNCHANGED << layer, hsVars, muxVars >>
    \/ layer = "muxrpc" /\ Mux!Next /\ UNCHANGED << layer, hsVars, boxVars >>

TransportSpec ==
    /\ TransportInit /\ [][TransportNext]_<< layer, hsVars, boxVars, muxVars >>
    /\ layer = "muxrpc" => Mux!Fairness

\* KeysAgree is that of Handshake.  The properties of the other layers, stated in their
\* modules: the unboxer returns what the boxer was given (a refinement of BytePipe),
PlainIsPipe == Box!PlainIsPipe
\* the packets returned are the packets written, and the frames of a call arrive in order
\* at both ends,
TrafficInOrder == Box!PacketsIntact /\ Mux!FramesInOrder
\* and a call comes back when its handler closes.
CallsReturn == Mux!CallsReturn
\* A segment of any size is opened.
SegmentsOpen == Box!SegmentsOpen
=============================================================================
