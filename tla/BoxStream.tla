----------------------------- MODULE BoxStream ------------------------------
(***************************************************************************)
(* internal/ssb/secretstream/boxstream with the packet writer and reader of *)
(* internal/ssb/muxrpc/codec on top: one direction of a connection.         *)
(*                                                                          *)
(* A packet is written as two messages, its header and its body; the boxer  *)
(* cuts each message into segments and seals a segment header and a body    *)
(* with two consecutive nonces.  The network hands the sealed units to the  *)
(* reader in pieces of any size up to the read buffer.  A unit stands for   *)
(* as many bytes as a packet header has; the sealed header of a segment is  *)
(* one unit, and the goodbye is two units of zeros.  The keys of both ends  *)
(* agree (module Handshake), so opening a box fails exactly on a wrong      *)
(* nonce.                                                                   *)
(***************************************************************************)
EXTENDS Integers, Sequences, SequencesExt

CONSTANTS
    BodyLengths,      \* the body lengths of the packets, in units
    MaxSegment,       \* MaxSegmentSize, which is the size of a read as well
    MaxPackets        \* bound: packets written

VARIABLES
    sent,      \* the lengths of the packets given to Writer.WritePacket
    todo,      \* the units of the current packet not yet written
    boxNonce,  \* BoxerEngine.nonce
    closed,    \* the writer's connection is closed
    wire,      \* the sealed units in the network
    unNonce,   \* UnboxerEngine.nonce
    buffer,    \* UnboxerEngine.buffer
    leftover,  \* Unboxer.leftover
    reading,   \* "call", "wait" (inside r.Read), "eof" or "failed"
    header,    \* the packet header ReadPacket holds, or NoHeader
    body,      \* the units of its body read so far
    packets,   \* the packets the reader returned
    \* History.
    plain,     \* all plaintext units given to the boxer
    opened     \* all plaintext units the unboxer returned

vars == << sent, todo, boxNonce, closed, wire, unNonce, buffer, leftover, reading,
           header, body, packets, plain, opened >>

writerVars == << sent, todo, boxNonce, closed, plain >>
packetVars == << header, body, packets >>
engineVars == << unNonce, buffer, leftover, reading, opened >>

NoHeader == [len |-> -1]

HeaderUnit(i, len) == [pkt |-> i, part |-> 0, len |-> len]
BodyUnit(i, k) == [pkt |-> i, part |-> k, len |-> 0]
Zero == [pkt |-> 0, part |-> 0, len |-> 0]
Goodbye == << Zero, Zero >>

Init ==
    /\ sent = << >>
    /\ todo = << >>
    /\ boxNonce = 0
    /\ closed = FALSE
    /\ wire = << >>
    /\ unNonce = 0
    /\ buffer = << >>
    /\ leftover = << >>
    /\ reading = "call"
    /\ header = NoHeader
    /\ body = << >>
    /\ packets = << >>
    /\ plain = << >>
    /\ opened = << >>

----------------------------------------------------------------------------
\* The writer.

\* EncryptMessage: the header is sealed with a nonce, the body with the next.
EncryptMessage(msg) ==
    << [kind |-> "head", nonce |-> boxNonce, len |-> Len(msg), goodbye |-> FALSE] >>
    \o [i \in 1..Len(msg) |-> [kind |-> "body", nonce |-> boxNonce + 1, unit |-> msg[i]]]

\* Boxer.WriteMessage.
WriteMessage(msg) ==
    /\ wire' = wire \o EncryptMessage(msg)
    /\ boxNonce' = boxNonce + 2
    /\ plain' = plain \o msg

\* Writer.WritePacket writes the header of the next packet.
WriteHeader(len) ==
    /\ ~ closed
    /\ todo = << >>
    /\ Len(sent) < MaxPackets
    /\ sent' = Append(sent, len)
    /\ todo' = << [i \in 1..len |-> BodyUnit(Len(sent) + 1, i)] >>
    /\ WriteMessage(<< HeaderUnit(Len(sent) + 1, len) >>)
    /\ UNCHANGED << closed, engineVars, packetVars >>

\* Boxer.Write: a body larger than a segment is written segment by segment; an
\* empty one is written as an empty segment.
WriteBody ==
    /\ ~ closed
    /\ todo # << >>
    /\ LET rest == todo[1]
           n    == IF Len(rest) > MaxSegment THEN MaxSegment ELSE Len(rest)
       IN /\ WriteMessage(SubSeq(rest, 1, n))
          /\ todo' = IF n = Len(rest) THEN << >> ELSE << SubSeq(rest, n + 1, Len(rest)) >>
    /\ UNCHANGED << sent, closed, engineVars, packetVars >>

\* Close from any goroutine, in the middle of a packet too: the goodbye is
\* sealed with the current nonce, and the connection is closed.
Close ==
    /\ ~ closed
    /\ closed' = TRUE
    /\ wire' = Append(wire, [kind |-> "head", nonce |-> boxNonce, len |-> 0, goodbye |-> TRUE])
    /\ plain' = plain \o Goodbye
    /\ UNCHANGED << sent, todo, boxNonce, engineVars, packetVars >>

----------------------------------------------------------------------------
\* The reader.

\* Mutant: the message stays in the buffer and the nonce is a copy.
NextMessageAgain(buf) ==
    LET n == buf[1].len IN
    IF buf = << >> \/ Len(buf) < 1 + n
    THEN [r |-> "more", msg |-> << >>, nonce |-> unNonce, left |-> buf]
    ELSE [r |-> "message", msg |-> IF n = 0 THEN << Zero >> ELSE [i \in 1..n |-> buf[i + 1].unit],
          nonce |-> unNonce, left |-> buf]

\* UnboxerEngine.NextMessage on a buffer: what it returns and what it leaves.
\* The nonce moves with the header, before the body is known to be there.
NextMessage(buf) ==
    LET h    == buf[1]
        n    == h.len
        rest == SubSeq(buf, n + 2, Len(buf))
        res(r, msg, nonce, left) == [r |-> r, msg |-> msg, nonce |-> nonce, left |-> left]
    IN IF buf = << >> THEN res("more", << >>, unNonce, buf)
       ELSE IF h.kind # "head" \/ h.nonce # unNonce THEN res("error", << >>, unNonce, buf)
       ELSE IF h.goodbye THEN res("message", Goodbye, unNonce + 1, rest)
       ELSE IF Len(buf) < 1 + n THEN res("more", << >>, unNonce + 1, buf)
       ELSE IF \E i \in 2..(n + 1) : buf[i].kind # "body" \/ buf[i].nonce # unNonce + 1
            THEN res("error", << >>, unNonce + 1, buf)
       \* Opening an empty body returns a nil slice, as if more were needed.
       ELSE res(IF n = 0 THEN "more" ELSE "message",
                [i \in 1..n |-> buf[i + 1].unit], unNonce + 2, rest)

\* ReadMessage goes on with the outcome of NextMessage.
Deliver(buf) ==
    LET m == NextMessage(buf) IN
    /\ unNonce' = m.nonce
    /\ buffer' = m.left
    /\ leftover' = m.msg
    /\ opened' = opened \o m.msg
    /\ reading' = IF m.r = "error" THEN "failed" ELSE IF m.r = "more" THEN "wait" ELSE "call"

\* Unboxer.Read without a leftover: ReadMessage looks at its buffer first.
ReadBuffer ==
    /\ reading = "call"
    /\ leftover = << >>
    /\ Deliver(buffer)
    /\ UNCHANGED << writerVars, wire, packetVars >>

\* The connection's Read returns some of what is in the network.
ConnRead(n) ==
    /\ reading = "wait"
    /\ n <= MaxSegment
    /\ wire' = SubSeq(wire, n + 1, Len(wire))
    /\ Deliver(buffer \o SubSeq(wire, 1, n))
    /\ UNCHANGED << writerVars, packetVars >>

ConnEOF ==
    /\ reading = "wait"
    /\ closed
    /\ wire = << >>
    /\ reading' = "eof"
    /\ UNCHANGED << writerVars, wire, unNonce, buffer, leftover, opened, packetVars >>

\* Reader.ReadHeader: a header of zeros is the end of the stream.
ReadHeader ==
    /\ reading = "call"
    /\ leftover # << >>
    /\ header = NoHeader
    /\ leftover' = Tail(leftover)
    /\ IF leftover[1] = Zero
       THEN reading' = "eof" /\ UNCHANGED header
       ELSE header' = leftover[1] /\ UNCHANGED reading
    /\ UNCHANGED << writerVars, wire, unNonce, buffer, opened, body, packets >>

\* Reader.ReadPacket collects the body.
ReadBody ==
    /\ reading = "call"
    /\ header # NoHeader
    /\ Len(body) < header.len
    /\ leftover # << >>
    /\ body' = Append(body, leftover[1])
    /\ leftover' = Tail(leftover)
    /\ UNCHANGED << writerVars, wire, unNonce, buffer, reading, opened, header, packets >>

ReturnPacket ==
    /\ reading = "call"
    /\ header # NoHeader
    /\ Len(body) = header.len
    /\ packets' = Append(packets, [head |-> header, body |-> body])
    /\ header' = NoHeader
    /\ body' = << >>
    /\ UNCHANGED << writerVars, wire, engineVars >>

Next ==
    \/ \E len \in BodyLengths : WriteHeader(len)
    \/ WriteBody
    \/ Close
    \/ header = NoHeader /\ ReadBuffer
    \/ header # NoHeader /\ Len(body) < header.len /\ ReadBuffer
    \/ \E n \in 1..Len(wire) : ConnRead(n)
    \/ ConnEOF
    \/ ReadHeader
    \/ ReadBody
    \/ ReturnPacket

Spec == Init /\ [][Next]_vars

----------------------------------------------------------------------------
\* The sealed stream is a pipe: whatever the cuts of writes, segments and reads,
\* the unboxer never returns a unit twice, out of order or changed.
Pipe == INSTANCE BytePipe WITH put <- plain, got <- opened
PlainIsPipe == Pipe!Spec

\* The packets the reader returns are the packets written, one by one; only a
\* packet that Close cut off after its header may have zeros of the goodbye in
\* the place of its body.
PacketsIntact ==
    \A i \in 1..Len(packets) :
        /\ packets[i].head = HeaderUnit(i, sent[i])
        /\ \A k \in 1..sent[i] : \/ packets[i].body[k] = BodyUnit(i, k)
                                 \/ /\ packets[i].body[k] = Zero
                                    /\ closed /\ todo # << >> /\ i = Len(sent)

\* "34 B | 1-4096B": a segment with a body of any size up to MaxSegment is opened
\* (NextMessage returns nil for "Need more data").
SegmentsOpen == reading # "failed"
=============================================================================
