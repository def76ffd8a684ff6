------------------------- MODULE ReplicationProofs -------------------------
(***************************************************************************)
(* A node announces no more than it has, and replicas are prefixes of the   *)
(* author's feed, for any nodes, feeds, connections, publishers and faults. *)
(*                                                                          *)
(* AppendReplicatedMessage compares the sequence of a message with the log, *)
(* except when the log is empty: then it stores whatever comes.  That this  *)
(* is message 1 rests on the whole path: the frontier of an empty log asks   *)
(* from 0, a stream serves it from 1, the connection keeps the order.        *)
(* FirstComesFirst states that path; the rest says where a number that will  *)
(* become a note or a row was read, and that logs only grow.                 *)
(***************************************************************************)
EXTENDS Replication, TLAPS

\* What the proofs assume of the constants.
Parameters ==
    /\ MaxLinks \in Nat
    /\ \A f \in Feeds : Author(f) \in Nodes
    /\ \A l \in Links : /\ Dialler(l) \in Nodes /\ Acceptor(l) \in Nodes
                        /\ Dialler(l) # Acceptor(l)

Count == Nat \ {0}
Msg == [seq : Count, id : Nat]
WireNote == {-1} \cup Nat
WireNotes == UNION {[S -> WireNote] : S \in SUBSET Feeds}
Frame == [kind : {"frontier"}, notes : WireNotes] \cup [kind : {"message"}, feed : Feeds, msg : Msg]
Wires == [Links -> [Nodes -> Seq(Frame)]]
Stream == [next : Count, state : {"live", "recheck", "cancelled"}]
Held == [feed : Feeds, seen : Nat, msg : Msg]
PublishCall == [at : {"append", "store"}, feed : Feeds, seen : Nat, msg : Msg]
ReplicateCall == [at : {"set"}, feed : Feeds, seq : Nat]

DataOK ==
    /\ rows \in [Nodes -> [Feeds -> Seq(Msg)]]
    /\ note \in [Nodes -> [Feeds -> {NoNote} \cup WireNote]]
    /\ pub \in [Publishers -> {Idle} \cup PublishCall]
    /\ repl \in [Nodes -> {NoCall} \cup ReplicateCall]
    /\ published \in Nat /\ connections \in Nat
SessionsOK ==
    /\ link \in [Links -> {"idle", "up", "down"}]
    /\ wire \in Wires
    /\ handler \in [Links -> [Nodes -> {"none", "new", "read", "append", "store", "ended"}]]
    /\ held \in [Links -> [Nodes -> {NoMessage} \cup Held]]
    /\ streams \in [Links -> [Nodes -> [Feeds -> SUBSET Stream]]]
    /\ \A l \in Links, n \in Nodes : handler[l][n] \in {"append", "store"} => held[l][n] \in Held

\* A connection that is not up carries nothing, and has goroutines at its ends only, and
\* only once it was made.
LinksOK ==
    \A l \in Links :
        /\ \A n \in Nodes : n \in Ends(l) \/ handler[l][n] = "none"
        /\ l > connections => link[l] = "idle"
        /\ link[l] # "up" => \A n \in Nodes : wire[l][n] = << >>
        /\ link[l] = "idle" => \A n \in Nodes : /\ handler[l][n] = "none"
                                                /\ \A f \in Feeds : streams[l][n][f] = {}

\* A sequence number is never beyond the row it is stored in, and whoever is about to
\* write a note or a row has read the log before.
RowsBehind ==
    \A n \in Nodes, f \in Feeds : \A i \in 1..Len(rows[n][f]) : rows[n][f][i].seq <= i
NotesBehind ==
    \A n \in Nodes, f \in Feeds : note[n][f] <= Len(rows[n][f])
PublishBehind ==
    \A p \in Publishers : pub[p] # Idle =>
        /\ pub[p].seen <= Len(rows[Author(pub[p].feed)][pub[p].feed])
        /\ pub[p].msg.seq = pub[p].seen + 1
        /\ pub[p].at = "store" => pub[p].msg.seq <= Len(rows[Author(pub[p].feed)][pub[p].feed])
HeldBehind ==
    \A l \in Links, n \in Nodes :
        /\ handler[l][n] \in {"append", "store"} =>
              /\ held[l][n].seen <= Len(rows[n][held[l][n].feed])
              /\ held[l][n].msg.seq = held[l][n].seen + 1
        /\ handler[l][n] = "store" => held[l][n].msg.seq <= Len(rows[n][held[l][n].feed])
CallsBehind ==
    \A n \in Nodes : repl[n] # NoCall => repl[n].seq <= Len(rows[n][repl[n].feed])

\* The first message of a feed on a connection to a node that has none of it is message 1.
IsMsg(x, f) == x.kind = "message" /\ x.feed = f
Has(q, f) == \E j \in 1..Len(q) : IsMsg(q[j], f)
Ordered(q, f) ==
    \A i \in 1..Len(q) : IsMsg(q[i], f) /\ q[i].msg.seq > 1 => \E j \in 1..Len(q) : j < i /\ IsMsg(q[j], f)
Modest(q, f) ==
    \A i \in 1..Len(q) : q[i].kind = "frontier" /\ f \in DOMAIN q[i].notes => q[i].notes[f] <= 0
Fresh(l, n, f) ==
    /\ link[l] = "up" /\ rows[n][f] = << >>
    /\ ~ (handler[l][n] = "append" /\ held[l][n].feed = f)
FirstComesFirst ==
    \A l \in Links : \A n \in Ends(l), f \in Feeds : Fresh(l, n, f) =>
        /\ Ordered(wire[l][n], f)
        /\ \A s \in streams[l][Peer(l, n)][f] : s.next > 1 => Has(wire[l][n], f)
        /\ Modest(wire[l][Peer(l, n)], f)

\* The part that a failed append to an empty log ends.
BehindInv ==
    /\ RowsBehind /\ NotesBehind /\ PublishBehind /\ HeldBehind /\ CallsBehind
    /\ FirstComesFirst

\* Whatever travels or is about to be stored is a row of the author.
OfAuthor(f, msg) ==
    /\ msg.seq <= Len(rows[Author(f)][f])
    /\ msg = rows[Author(f)][f][msg.seq]
RowsOfAuthor ==
    \A n \in Nodes, f \in Feeds : \A i \in 1..Len(rows[n][f]) :
        rows[n][f][i].seq = i /\ OfAuthor(f, rows[n][f][i])
WireOfAuthor ==
    \A l \in Links, n \in Nodes : \A i \in 1..Len(wire[l][n]) :
        wire[l][n][i].kind = "message" => OfAuthor(wire[l][n][i].feed, wire[l][n][i].msg)
HeldOfAuthor ==
    \A l \in Links, n \in Nodes :
        handler[l][n] = "append" => OfAuthor(held[l][n].feed, held[l][n].msg)

ShapeInv == DataOK /\ SessionsOK /\ LinksOK
NoteInv == ShapeInv /\ (~ blind => BehindInv)
PrefixInv ==
    /\ NoteInv
    /\ ~ raced /\ ~ blind => RowsOfAuthor /\ WireOfAuthor /\ HeldOfAuthor

-----------------------------------------------------------------------------
(* Queues of frames                                                          *)

\* A frame put at the end of a connection keeps the order, if it is message 1 or behind
\* another message of the feed,
LEMMA AppendOrdered ==
    ASSUME NEW q \in Seq(Frame), NEW x \in Frame, NEW f \in Feeds, Ordered(q, f),
           IsMsg(x, f) /\ x.msg.seq > 1 => Has(q, f)
    PROVE  Ordered(Append(q, x), f)
<1> DEFINE r == Append(q, x)
<1>1. Len(r) = Len(q) + 1 /\ r[Len(q) + 1] = x /\ \A i \in 1..Len(q) : r[i] = q[i]
  OBVIOUS
<1>2. Len(q) \in Nat
  OBVIOUS
<1> HIDE DEF r
<1> SUFFICES ASSUME NEW i \in 1..Len(r), IsMsg(r[i], f), r[i].msg.seq > 1
             PROVE  \E j \in 1..Len(r) : j < i /\ IsMsg(r[j], f)
  BY DEF Ordered, r
<1>3. CASE i = Len(q) + 1
  <2>1. PICK j \in 1..Len(q) : IsMsg(q[j], f)
    BY <1>1, <1>3 DEF Has
  <2> QED
    BY <2>1, <1>1, <1>2, <1>3
<1>4. CASE i \in 1..Len(q)
  <2>1. PICK j \in 1..Len(q) : j < i /\ IsMsg(q[j], f)
    BY <1>1, <1>4 DEF Ordered
  <2> QED
    BY <2>1, <1>1, <1>2, <1>4
<1> QED
  BY <1>1, <1>2, <1>3, <1>4

\* takes nothing away,
LEMMA AppendHas ==
    ASSUME NEW q \in Seq(Frame), NEW x \in Frame, NEW f \in Feeds, Has(q, f) \/ IsMsg(x, f)
    PROVE  Has(Append(q, x), f)
<1> DEFINE r == Append(q, x)
<1>1. Len(r) = Len(q) + 1 /\ r[Len(q) + 1] = x /\ \A i \in 1..Len(q) : r[i] = q[i]
  OBVIOUS
<1>2. Len(q) \in Nat
  OBVIOUS
<1> HIDE DEF r
<1>3. CASE IsMsg(x, f)
  BY <1>1, <1>2, <1>3 DEF Has, r
<1>4. CASE Has(q, f)
  BY <1>1, <1>2, <1>4 DEF Has, r
<1> QED
  BY <1>3, <1>4

\* and leaves the frontiers modest if it is no frontier that asks for more.
LEMMA AppendModest ==
    ASSUME NEW q \in Seq(Frame), NEW x \in Frame, NEW f \in Feeds, Modest(q, f),
           x.kind = "frontier" /\ f \in DOMAIN x.notes => x.notes[f] <= 0
    PROVE  Modest(Append(q, x), f)
<1> DEFINE r == Append(q, x)
<1>1. Len(r) = Len(q) + 1 /\ r[Len(q) + 1] = x /\ \A i \in 1..Len(q) : r[i] = q[i]
  OBVIOUS
<1>2. Len(q) \in Nat
  OBVIOUS
<1> HIDE DEF r
<1> SUFFICES ASSUME NEW i \in 1..Len(r), r[i].kind = "frontier", f \in DOMAIN r[i].notes
             PROVE  r[i].notes[f] <= 0
  BY DEF Modest, r
<1>3. CASE i = Len(q) + 1
  BY <1>1, <1>3
<1>4. CASE i \in 1..Len(q)
  BY <1>1, <1>4 DEF Modest
<1> QED
  BY <1>1, <1>2, <1>3, <1>4

\* The same for a frame that is read, when it is not a message of the feed.
LEMMA TailKeeps ==
    ASSUME NEW q \in Seq(Frame), q # << >>, NEW f \in Feeds
    PROVE  /\ Tail(q) \in Seq(Frame)
           /\ Modest(q, f) => Modest(Tail(q), f)
           /\ Ordered(q, f) /\ ~ IsMsg(Head(q), f) => Ordered(Tail(q), f)
           /\ Has(q, f) /\ ~ IsMsg(Head(q), f) => Has(Tail(q), f)
<1> DEFINE r == Tail(q)
<1>1. Tail(q) \in Seq(Frame) /\ Len(r) = Len(q) - 1 /\ \A i \in 1..Len(r) : r[i] = q[i + 1]
  OBVIOUS
<1>2. Len(q) \in Nat /\ Len(q) > 0 /\ Head(q) = q[1]
  OBVIOUS
<1> HIDE DEF r
<1>3. Modest(q, f) => Modest(r, f)
  <2> SUFFICES ASSUME Modest(q, f), NEW i \in 1..Len(r), r[i].kind = "frontier",
                      f \in DOMAIN r[i].notes
               PROVE  r[i].notes[f] <= 0
    BY DEF Modest
  <2>1. i + 1 \in 1..Len(q) /\ r[i] = q[i + 1]
    BY <1>1, <1>2
  <2> QED
    BY <2>1 DEF Modest
<1>4. Ordered(q, f) /\ ~ IsMsg(Head(q), f) => Ordered(r, f)
  <2> SUFFICES ASSUME Ordered(q, f), ~ IsMsg(q[1], f), NEW i \in 1..Len(r), IsMsg(r[i], f),
                      r[i].msg.seq > 1
               PROVE  \E j \in 1..Len(r) : j < i /\ IsMsg(r[j], f)
    BY <1>2 DEF Ordered
  <2>1. i + 1 \in 1..Len(q) /\ r[i] = q[i + 1]
    BY <1>1, <1>2
  <2>2. PICK j \in 1..Len(q) : j < i + 1 /\ IsMsg(q[j], f)
    BY <2>1 DEF Ordered
  <2>3. j # 1
    BY <2>2
  <2>4. j - 1 \in 1..Len(r) /\ j - 1 < i /\ r[j - 1] = q[j]
    BY <2>2, <2>3, <1>1, <1>2
  <2> QED
    BY <2>2, <2>4
<1>5. Has(q, f) /\ ~ IsMsg(Head(q), f) => Has(r, f)
  <2> SUFFICES ASSUME ~ IsMsg(q[1], f), NEW j \in 1..Len(q), IsMsg(q[j], f) PROVE Has(r, f)
    BY <1>2 DEF Has
  <2>1. j # 1
    OBVIOUS
  <2>2. j - 1 \in 1..Len(r) /\ r[j - 1] = q[j]
    BY <2>1, <1>1, <1>2
  <2> QED
    BY <2>2 DEF Has
<1> QED
  BY <1>1, <1>3, <1>4, <1>5 DEF r

\* What is not empty has its head first: the first message of a feed is message 1.
LEMMA HeadIsFirst ==
    ASSUME NEW q \in Seq(Frame), q # << >>, NEW f \in Feeds, Ordered(q, f), IsMsg(Head(q), f)
    PROVE  Head(q).msg.seq = 1
<1>1. Len(q) \in Nat /\ Len(q) > 0 /\ Head(q) = q[1] /\ q[1] \in Frame
  OBVIOUS
<1>2. q[1].msg.seq \in Count
  BY <1>1 DEF Frame, IsMsg, Msg
<1>3. ~ q[1].msg.seq > 1
  BY <1>1 DEF Ordered
<1> QED
  BY <1>1, <1>2, <1>3 DEF Count
-----------------------------------------------------------------------------
(* Frontiers                                                                 *)

\* The ends of a connection are two nodes.
LEMMA Endpoints ==
    ASSUME Parameters, NEW l \in Links, NEW n \in Ends(l)
    PROVE  /\ n \in Nodes /\ Peer(l, n) \in Ends(l) /\ Peer(l, n) \in Nodes
           /\ Peer(l, n) # n /\ Peer(l, Peer(l, n)) = n
           /\ \A m \in Ends(l) : m = n \/ m = Peer(l, n)
BY DEF Parameters, Ends, Peer

\* MarshalJSON writes a note that says nothing is there as one that asks for nothing else.
LEMMA EncodeNote ==
    ASSUME NEW s \in WireNote
    PROVE  Encode(s) \in WireNote /\ (s <= 0 => Encode(s) <= 0)
BY DEF WireNote, Encode

\* A function on some of the feeds with encoded notes is what a frontier carries.
LEMMA NotesOnWire ==
    ASSUME DataOK, NEW n \in Nodes, NEW S \in SUBSET Feeds, \A f \in S : note[n][f] # NoNote
    PROVE  /\ [f \in S |-> Encode(note[n][f])] \in WireNotes
           /\ \A f \in S : note[n][f] <= 0 => [g \in S |-> Encode(note[n][g])][f] <= 0
<1>1. \A f \in S : note[n][f] \in WireNote
  BY DEF DataOK
<1>2. [f \in S |-> Encode(note[n][f])] \in [S -> WireNote]
  BY <1>1, EncodeNote
<1>3. \A f \in S : note[n][f] <= 0 => [g \in S |-> Encode(note[n][g])][f] <= 0
  BY <1>1, EncodeNote
<1> QED
  BY <1>2, <1>3 DEF WireNotes

\* State and Changed give such functions.
Asked(n, notes) ==
    /\ notes \in WireNotes
    /\ \A f \in DOMAIN notes : note[n][f] <= 0 => notes[f] <= 0

\* A full frontier says nothing of a log that is empty.
LEMMA StateAsked ==
    ASSUME DataOK, NEW n \in Nodes
    PROVE  Asked(n, State(n))
<1> DEFINE S == {g \in Feeds : note[n][g] # NoNote}
<1>1. State(n) = [f \in S |-> Encode(note[n][f])] /\ DOMAIN State(n) = S
  BY DEF State
<1>2. S \in SUBSET Feeds /\ \A f \in S : note[n][f] # NoNote
  OBVIOUS
<1> QED
  BY <1>1, <1>2, NotesOnWire DEF Asked

\* Neither does the part of it that has changed.
LEMMA ChangedAsked ==
    ASSUME DataOK, NEW n \in Nodes, NEW m, NEW known
    PROVE  Asked(n, Changed(n, m, known))
<1> DEFINE S == {g \in Feeds : /\ note[n][g] # NoNote
                               /\ \/ known[g] = NoNote
                                  \/ WireSeq(known[g]) # note[n][g]
                                  \/ ~ WireReceive(known[g])}
<1>1. Changed(n, m, known) = [f \in S |-> Encode(note[n][f])] /\ DOMAIN Changed(n, m, known) = S
  BY DEF Changed
<1>2. S \in SUBSET Feeds /\ \A f \in S : note[n][f] # NoNote
  OBVIOUS
<1> HIDE DEF S
<1>3. [f \in S |-> Encode(note[n][f])] \in WireNotes
  BY <1>2, NotesOnWire
<1>4. \A f \in S : note[n][f] <= 0 => [g \in S |-> Encode(note[n][g])][f] <= 0
  BY <1>2, NotesOnWire
<1> QED
  BY <1>1, <1>3, <1>4 DEF Asked

\* Frames of either kind are frames.
LEMMA FramesOK ==
    /\ \A notes \in WireNotes : Frontier(notes) \in Frame
    /\ \A f \in Feeds, msg \in Msg : Content(f, msg) \in Frame
BY DEF Frontier, Content, Frame

\* What a step of node n may do to the connections: one of them, when it is up, takes a
\* frame towards the peer.
Sends(w, v, l, to, x) ==
    /\ v \in Wires
    /\ \A k \in Links, q \in Nodes :
          \/ v[k][q] = w[k][q]
          \/ k = l /\ q = to /\ link[l] = "up" /\ v[k][q] = Append(w[k][q], x)

\* Queueing a frame is sending it, when the connection is up.
LEMMA QueueSends ==
    ASSUME NEW w \in Wires, NEW l \in Links, NEW to \in Nodes, NEW x \in Frame
    PROVE  /\ Sends(w, Queue(w, l, to, x), l, to, x)
           /\ link[l] = "up" /\ x.kind = "message" =>
                 Queue(w, l, to, x)[l][to] = Append(w[l][to], x)
<1> DEFINE r == [w EXCEPT ![l][to] = Append(@, x)]
<1>1. r \in Wires /\ r[l][to] = Append(w[l][to], x)
      /\ \A k \in Links, q \in Nodes : (k # l \/ q # to) => r[k][q] = w[k][q]
  BY DEF Wires
<1>2. Queue(w, l, to, x) = w \/ (link[l] = "up" /\ Queue(w, l, to, x) = r)
  BY DEF Queue
<1>3. link[l] = "up" /\ x.kind = "message" => Queue(w, l, to, x) = r
  BY DEF Queue
<1> HIDE DEF r
<1> QED
  BY <1>1, <1>2, <1>3 DEF Sends

\* Sending the wants is sending one frontier, or nothing.
LEMMA WantsSend ==
    ASSUME Parameters, NEW w \in Wires, NEW l \in Links, NEW n \in Ends(l), NEW notes \in WireNotes
    PROVE  Sends(w, SendWants(w, l, n, notes), l, Peer(l, n), Frontier(notes))
<1>1. Peer(l, n) \in Nodes
  BY Endpoints
<1>2. CASE notes = << >>
  BY <1>2 DEF SendWants, Sends
<1>3. CASE notes # << >>
  BY <1>1, <1>3, FramesOK, QueueSends DEF SendWants
<1> QED
  BY <1>2, <1>3
-----------------------------------------------------------------------------
(* The shape of the state                                                    *)

LEMMA InitShape == Parameters /\ Init => ShapeInv
<1> SUFFICES ASSUME Parameters, Init PROVE ShapeInv
  OBVIOUS
<1>1. DataOK
  BY DEF Init, DataOK, WireNote
<1>2. SessionsOK
  BY DEF Init, SessionsOK, Wires
<1>3. LinksOK
  BY DEF Init, LinksOK
<1> QED
  BY <1>1, <1>2, <1>3 DEF ShapeInv

\* Publish and Replicate leave the sessions alone.
LEMMA CallShape ==
    ASSUME Parameters, ShapeInv,
           \/ \E p \in Publishers : \/ \E f \in Feeds : PublishSign(p, f)
                                    \/ PublishAppend(p) \/ PublishStore(p) \/ PublishFails(p)
           \/ \E n \in Nodes : \/ \E f \in Feeds : ReplicateRead(n, f)
                               \/ ReplicateSet(n)
    PROVE  ShapeInv'
<1> USE DEF ShapeInv
<1>1. ASSUME NEW p \in Publishers, NEW f \in Feeds, PublishSign(p, f) PROVE ShapeInv'
  <2>1. rows[Author(f)][f] \in Seq(Msg)
    BY DEF DataOK, Parameters
  <2>2. DataOK'
    BY <2>1, <1>1 DEF PublishSign, DataOK, dbVars, matrixVars, PublishCall, Msg, Count
  <2>3. SessionsOK' /\ LinksOK'
    BY <1>1 DEF PublishSign, sessionVars, SessionsOK, LinksOK
  <2> QED
    BY <2>2, <2>3
<1>2. ASSUME NEW p \in Publishers, PublishAppend(p) PROVE ShapeInv'
  <2>1. pub[p] \in PublishCall
    BY <1>2 DEF PublishAppend, DataOK, Idle
  <2>2. PICK f \in Feeds : f = pub[p].feed
    BY <2>1 DEF PublishCall
  <2>3. PICK msg \in Msg : msg = pub[p].msg
    BY <2>1 DEF PublishCall
  <2>4. PICK n \in Nodes : n = Author(f)
    BY DEF Parameters
  <2>5. rows' = [rows EXCEPT ![n][f] = Append(@, msg)]
    BY <1>2, <2>2, <2>3, <2>4 DEF PublishAppend, AppendRow
  <2>6. rows' \in [Nodes -> [Feeds -> Seq(Msg)]]
    BY <2>5 DEF DataOK
  <2>7. pub' \in [Publishers -> {Idle} \cup PublishCall]
    <3>1. [pub[p] EXCEPT !.at = "store"] \in PublishCall
      BY <2>1 DEF PublishCall
    <3> QED
      BY <3>1, <1>2 DEF PublishAppend, DataOK
  <2>8. DataOK'
    BY <2>6, <2>7, <1>2 DEF PublishAppend, DataOK, matrixVars, boundVars
  <2>9. SessionsOK' /\ LinksOK'
    BY <1>2 DEF PublishAppend, sessionVars, boundVars, SessionsOK, LinksOK
  <2> QED
    BY <2>8, <2>9
<1>3. ASSUME NEW p \in Publishers, PublishStore(p) PROVE ShapeInv'
  <2>1. pub[p] \in PublishCall
    BY <1>3 DEF PublishStore, DataOK, Idle
  <2>2. PICK n \in Nodes, f \in Feeds, k \in Count :
            n = Author(f) /\ f = pub[p].feed /\ k = pub[p].msg.seq
    BY <2>1 DEF PublishCall, Msg, Parameters
  <2>3. note' = [note EXCEPT ![n][f] = k]
    BY <1>3, <2>2 DEF PublishStore, SetFeedSeq
  <2>4. DataOK'
    BY <2>3, <1>3 DEF PublishStore, DataOK, boundVars, WireNote, Count
  <2>5. SessionsOK' /\ LinksOK'
    BY <1>3 DEF PublishStore, sessionVars, boundVars, SessionsOK, LinksOK
  <2> QED
    BY <2>4, <2>5
<1>4. ASSUME NEW p \in Publishers, PublishFails(p) PROVE ShapeInv'
  BY <1>4 DEF PublishFails, DataOK, SessionsOK, LinksOK, dbVars, matrixVars, sessionVars
<1>5. ASSUME NEW n \in Nodes, NEW f \in Feeds, ReplicateRead(n, f) PROVE ShapeInv'
  <2>1. Len(rows[n][f]) \in Nat
    BY DEF DataOK
  <2>2. DataOK'
    BY <2>1, <1>5 DEF ReplicateRead, DataOK, dbVars, matrixVars, ReplicateCall
  <2>3. SessionsOK' /\ LinksOK'
    BY <1>5 DEF ReplicateRead, SessionsOK, LinksOK, sessionVars
  <2> QED
    BY <2>2, <2>3
<1>6. ASSUME NEW n \in Nodes, ReplicateSet(n) PROVE ShapeInv'
  <2>1. repl[n] \in ReplicateCall
    BY <1>6 DEF ReplicateSet, DataOK, NoCall
  <2>2. PICK f \in Feeds, k \in Nat : f = repl[n].feed /\ k = repl[n].seq
    BY <2>1 DEF ReplicateCall
  <2>3. note' = [note EXCEPT ![n][f] = k]
    BY <1>6, <2>2 DEF ReplicateSet, SetFeedSeq
  <2>4. DataOK'
    BY <2>3, <1>6 DEF ReplicateSet, DataOK, dbVars, boundVars, WireNote
  <2>5. SessionsOK' /\ LinksOK'
    BY <1>6 DEF ReplicateSet, sessionVars, boundVars, SessionsOK, LinksOK
  <2> QED
    BY <2>4, <2>5
<1> QED
  BY <1>1, <1>2, <1>3, <1>4, <1>5, <1>6

\* Connections that are made, lost and closed, and restarts.
LEMMA LinkShape ==
    ASSUME Parameters, ShapeInv,
           \/ \E n \in Nodes : Restart(n)
           \/ \E l \in Links : Connect(l) \/ Disconnect(l) \/ Ended(l)
    PROVE  ShapeInv'
<1> USE DEF ShapeInv
<1>1. ASSUME NEW n \in Nodes, Restart(n) PROVE ShapeInv'
  <2>1. InitializeFromFeedlog(n) \in [Feeds -> {NoNote} \cup WireNote]
    <3>1. \A f \in Feeds : Len(rows[n][f]) \in Nat
      BY DEF DataOK
    <3> QED
      BY <3>1 DEF InitializeFromFeedlog, WireNote
  <2>2. DataOK'
    BY <2>1, <1>1 DEF Restart, DataOK, dbVars
  <2>3. /\ link' \in [Links -> {"idle", "up", "down"}]
        /\ wire' \in Wires
        /\ handler' \in [Links -> [Nodes -> {"none", "new", "read", "append", "store", "ended"}]]
        /\ held' \in [Links -> [Nodes -> {NoMessage} \cup Held]]
        /\ streams' \in [Links -> [Nodes -> [Feeds -> SUBSET Stream]]]
    <3>1. link' \in [Links -> {"idle", "up", "down"}]
      BY <1>1 DEF Restart, SessionsOK
    <3>2. wire' \in Wires
      BY <1>1 DEF Restart, SessionsOK, Wires
    <3>3. handler' \in [Links -> [Nodes -> {"none", "new", "read", "append", "store", "ended"}]]
      BY <1>1 DEF Restart, SessionsOK
    <3>4. held' \in [Links -> [Nodes -> {NoMessage} \cup Held]]
      BY <1>1 DEF Restart, SessionsOK
    <3>5. streams' \in [Links -> [Nodes -> [Feeds -> SUBSET Stream]]]
      BY <1>1 DEF Restart, SessionsOK
    <3> QED
      BY <3>1, <3>2, <3>3, <3>4, <3>5
  <2>4. ASSUME NEW l \in Links, NEW m \in Nodes, handler'[l][m] \in {"append", "store"}
        PROVE  held'[l][m] \in Held
    <3>1. CASE link[l] = "idle"
      <4>1. handler'[l][m] = "none"
        BY <3>1, <1>1 DEF Restart, LinksOK
      <4> QED
        BY <4>1, <2>4
    <3>2. CASE link[l] # "idle"
      <4>1. CASE m = n
        <5>1. n \notin Ends(l) /\ handler[l][m] \in {"append", "store"}
          BY <3>2, <4>1, <2>4, <1>1 DEF Restart, SessionsOK
        <5> QED
          BY <5>1, <4>1 DEF LinksOK
      <4>2. CASE m # n
        BY <3>2, <4>2, <2>4, <1>1 DEF Restart, SessionsOK
      <4> QED
        BY <4>1, <4>2
    <3> QED
      BY <3>1, <3>2
  <2>5. SessionsOK'
    BY <2>3, <2>4 DEF SessionsOK
  <2>6. LinksOK'
    <3> SUFFICES ASSUME NEW l \in Links
                 PROVE  /\ \A m \in Nodes : m \in Ends(l) \/ handler'[l][m] = "none"
                        /\ l > connections' => link'[l] = "idle"
                        /\ link'[l] # "up" => \A m \in Nodes : wire'[l][m] = << >>
                        /\ link'[l] = "idle" => \A m \in Nodes :
                              /\ handler'[l][m] = "none"
                              /\ \A f \in Feeds : streams'[l][m][f] = {}
      BY DEF LinksOK
    <3>1. link'[l] = IF n \in Ends(l) /\ link[l] = "up" THEN "down" ELSE link[l]
      BY <1>1 DEF Restart
    <3>2. \A m \in Nodes : wire'[l][m] = IF n \in Ends(l) THEN << >> ELSE wire[l][m]
      BY <1>1 DEF Restart
    <3>3. link[l] = "idle" => handler'[l] = handler[l]
      BY <1>1 DEF Restart
    <3>4. \A m \in Nodes, f \in Feeds :
             streams'[l][m][f] = IF n \in Ends(l) THEN {} ELSE streams[l][m][f]
      BY <1>1 DEF Restart
    <3>5. connections' = connections
      BY <1>1 DEF Restart
    <3>6. \A m \in Nodes : m \notin Ends(l) => handler'[l][m] = handler[l][m]
      BY <1>1 DEF Restart, SessionsOK
    <3> QED
      BY <3>1, <3>2, <3>3, <3>4, <3>5, <3>6 DEF LinksOK
  <2> QED
    BY <2>2, <2>5, <2>6
<1>2. ASSUME NEW l \in Links, Connect(l) PROVE ShapeInv'
  <2>1. link[l] = "idle"
    BY <1>2 DEF Connect, LinksOK, DataOK, Parameters, Links
  <2>2. DataOK'
    BY <1>2 DEF Connect, DataOK, dbVars, matrixVars, callVars
  <2>3. SessionsOK'
    BY <1>2 DEF Connect, SessionsOK
  <2>4. LinksOK'
    <3>1. \A k \in Links : k > connections' => k > connections /\ k # l
      BY <1>2 DEF Connect, Parameters, DataOK, Links
    <3>2. \A k \in Links : k # l => link'[k] = link[k] /\ handler'[k] = handler[k]
      BY <1>2 DEF Connect, SessionsOK
    <3>3. link'[l] = "up" /\ UNCHANGED << wire, streams >>
      BY <1>2 DEF Connect, SessionsOK
    <3>4. \A n \in Nodes : n \notin Ends(l) => handler'[l][n] = "none"
      BY <1>2 DEF Connect, SessionsOK
    <3> QED
      BY <3>1, <3>2, <3>3, <3>4, <2>1 DEF LinksOK
  <2> QED
    BY <2>2, <2>3, <2>4
<1>3. ASSUME NEW l \in Links, Disconnect(l) PROVE ShapeInv'
  <2>1. DataOK'
    BY <1>3 DEF Disconnect, DataOK, dbVars, matrixVars, callVars, boundVars
  <2>2. SessionsOK'
    BY <1>3 DEF Disconnect, SessionsOK, Wires
  <2>3. LinksOK'
    BY <1>3 DEF Disconnect, SessionsOK, LinksOK, Wires, boundVars
  <2> QED
    BY <2>1, <2>2, <2>3
<1>4. ASSUME NEW l \in Links, Ended(l) PROVE ShapeInv'
  <2>1. DataOK'
    BY <1>4 DEF Ended, DataOK, dbVars, matrixVars, callVars, boundVars
  <2>2. Acceptor(l) \in Nodes
    BY DEF Parameters
  <2>3. handler' = [handler EXCEPT ![l][Acceptor(l)] = "ended"]
    BY <1>4 DEF Ended
  <2>4. streams' \in [Links -> [Nodes -> [Feeds -> SUBSET Stream]]]
        /\ \A k \in Links, n \in Nodes, f \in Feeds :
              streams'[k][n][f] = {} \/ streams'[k][n][f] = streams[k][n][f]
    BY <1>4, <2>2 DEF Ended, SessionsOK
  <2>5. SessionsOK'
    BY <1>4, <2>2, <2>3, <2>4 DEF Ended, SessionsOK
  <2>6. LinksOK'
    <3>1. Acceptor(l) \in Ends(l) /\ link[l] = "down"
      BY <1>4 DEF Ended, Ends
    <3>2. \A k \in Links, n \in Nodes :
             handler'[k][n] = handler[k][n] \/ (k = l /\ n = Acceptor(l))
      BY <2>2, <2>3 DEF SessionsOK
    <3>3. UNCHANGED << link, wire, connections >>
      BY <1>4 DEF Ended, boundVars
    <3>4. \A k \in Links, n \in Nodes : n \in Ends(k) \/ handler'[k][n] = "none"
      BY <3>1, <3>2 DEF LinksOK
    <3>5. ASSUME NEW k \in Links, NEW n \in Nodes, link[k] = "idle"
          PROVE  handler'[k][n] = "none" /\ \A f \in Feeds : streams'[k][n][f] = {}
      <4>1. handler[k][n] = "none" /\ \A f \in Feeds : streams[k][n][f] = {}
        BY <3>5 DEF LinksOK
      <4>2. handler'[k][n] = handler[k][n]
        BY <3>1, <3>2, <3>5
      <4> QED
        BY <4>1, <4>2, <2>4
    <3> QED
      BY <3>3, <3>4, <3>5 DEF LinksOK
  <2> QED
    BY <2>1, <2>5, <2>6
<1> QED
  BY <1>1, <1>2, <1>3, <1>4

\* UnmarshalJSON: a peer that receives is served from the sequence behind its own, and one
\* that has nothing from the first.
LEMMA ServedFrom ==
    ASSUME NEW w \in WireNote, WireReceive(w)
    PROVE  WireSeq(w) + 1 \in Count /\ (w <= 0 => WireSeq(w) + 1 = 1)
<1>1. w \in Nat
  BY DEF WireNote, WireReceive
<1>2. w \div 2 \in Nat /\ (w <= 0 => w \div 2 = 0)
  BY <1>1
<1> QED
  BY <1>2 DEF WireSeq, Count

\* What reading a frontier does to the connections, and which streams it starts.
LEMMA FrontierRead ==
    ASSUME Parameters, ShapeInv, NEW l \in Links, NEW n \in Ends(l), ReadFrontier(l, n)
    PROVE  \E w \in Wires, notes \in WireNotes, mine \in WireNotes :
             /\ link[l] = "up" /\ wire[l][n] # << >> /\ Head(wire[l][n]) = Frontier(notes)
             /\ Asked(n, mine)
             /\ w = [wire EXCEPT ![l][n] = Tail(@)]
             /\ Sends(w, wire', l, Peer(l, n), Frontier(mine))
             /\ streams' \in [Links -> [Nodes -> [Feeds -> SUBSET Stream]]]
             /\ \A k \in Links, m \in Nodes : k # l \/ m # n => streams'[k][m] = streams[k][m]
             /\ \A f \in Feeds : \A s \in streams'[l][n][f] :
                   \/ \E r \in streams[l][n][f] : s.next = r.next
                   \/ f \in DOMAIN notes /\ (notes[f] <= 0 => s.next = 1)
<1> USE DEF ShapeInv
<1>1. n \in Nodes /\ Peer(l, n) \in Nodes
  BY Endpoints
<1>2. wire[l][n] \in Seq(Frame) /\ wire[l][n] # << >>
  BY <1>1 DEF ReadFrontier, SessionsOK, Wires
<1>3. link[l] = "up"
  BY <1>1, <1>2 DEF LinksOK
<1>4. Head(wire[l][n]) \in Frame /\ Head(wire[l][n]).kind = "frontier"
  BY <1>2 DEF ReadFrontier
<1>5. PICK notes \in WireNotes : Head(wire[l][n]) = Frontier(notes) /\ Head(wire[l][n]).notes = notes
  BY <1>4 DEF Frame, Frontier
<1>6. PICK w \in Wires : w = [wire EXCEPT ![l][n] = Tail(@)]
  <2>1. Tail(wire[l][n]) \in Seq(Frame)
    BY <1>2
  <2> QED
    BY <2>1, <1>1 DEF SessionsOK, Wires
<1>7. PICK known : wire' = SendWants(w, l, n, Changed(n, Peer(l, n), known))
  BY <1>6 DEF ReadFrontier
<1>8. Asked(n, Changed(n, Peer(l, n), known))
  BY <1>1, ChangedAsked
<1>9. PICK mine \in WireNotes : mine = Changed(n, Peer(l, n), known)
  BY <1>8 DEF Asked
<1>10. Sends(w, wire', l, Peer(l, n), Frontier(mine))
  BY <1>7, <1>9, WantsSend
<1> DEFINE wanted == {f \in DOMAIN notes : /\ note[n][f] # NoNote
                                           /\ WireReceive(notes[f])
                                           /\ note[n][f] > WireSeq(notes[f])}
           next == [f \in Feeds |-> IF f \in wanted
                                    THEN Subscribed(l, n, f, WireSeq(notes[f]) + 1)
                                    ELSE streams[l][n][f]]
<1>11. streams' = [streams EXCEPT ![l][n] = next]
  BY <1>5 DEF ReadFrontier
<1>12. PICK S \in SUBSET Feeds : notes \in [S -> WireNote]
  BY DEF WireNotes
<1>13. ASSUME NEW f \in Feeds
       PROVE  /\ next[f] \in SUBSET Stream
              /\ \A s \in next[f] : \/ \E r \in streams[l][n][f] : s.next = r.next
                                    \/ f \in DOMAIN notes /\ (notes[f] <= 0 => s.next = 1)
  <2>1. streams[l][n][f] \in SUBSET Stream
    BY <1>1 DEF SessionsOK
  <2>2. CASE f \in wanted
    <3>1. f \in S /\ notes[f] \in WireNote /\ WireReceive(notes[f])
      BY <2>2, <1>12
    <3>2. PICK c \in Count : c = WireSeq(notes[f]) + 1 /\ (notes[f] <= 0 => c = 1)
      BY <3>1, ServedFrom
    <3>3. next[f] = Cancelled(l, n, streams[l][n][f]) \cup {[next |-> c, state |-> "live"]}
      BY <2>2, <3>2 DEF Subscribed
    <3>4. /\ Cancelled(l, n, streams[l][n][f]) \in SUBSET Stream
          /\ \A s \in Cancelled(l, n, streams[l][n][f]) : \E r \in streams[l][n][f] : s.next = r.next
      BY <2>1 DEF Cancelled, Stream
    <3>5. [next |-> c, state |-> "live"] \in Stream
      BY DEF Stream
    <3> HIDE DEF next
    <3> QED
      BY <3>1, <3>2, <3>3, <3>4, <3>5, <1>12
  <2>3. CASE f \notin wanted
    BY <2>1, <2>3
  <2> QED
    BY <2>2, <2>3
<1> HIDE DEF next
<1>14. next \in [Feeds -> SUBSET Stream]
  <2>1. next = [f \in Feeds |-> next[f]]
    BY DEF next
  <2> QED
    BY <2>1, <1>13
<1>15. /\ streams' \in [Links -> [Nodes -> [Feeds -> SUBSET Stream]]]
       /\ \A k \in Links, m \in Nodes : k # l \/ m # n => streams'[k][m] = streams[k][m]
       /\ streams'[l][n] = next
  BY <1>1, <1>11, <1>14 DEF SessionsOK
<1>16. \A f \in Feeds : \A s \in streams'[l][n][f] :
          \/ \E r \in streams[l][n][f] : s.next = r.next
          \/ f \in DOMAIN notes /\ (notes[f] <= 0 => s.next = 1)
  BY <1>13, <1>15
<1> QED
  BY <1>2, <1>3, <1>5, <1>6, <1>8, <1>9, <1>10, <1>15, <1>16

\* A stream writes the row it has found and moves on by one.
LEMMA StreamSent ==
    ASSUME Parameters, ShapeInv, NEW l \in Links, NEW n \in Ends(l), NEW f \in Feeds,
           StreamSend(l, n, f)
    PROVE  \E s \in streams[l][n][f], msg \in Msg :
             /\ s \in Stream /\ s.next \in 1..Len(rows[n][f]) /\ msg = rows[n][f][s.next]
             /\ Sends(wire, wire', l, Peer(l, n), Content(f, msg))
             /\ link[l] = "up" => wire'[l][Peer(l, n)] = Append(wire[l][Peer(l, n)], Content(f, msg))
             /\ streams' \in [Links -> [Nodes -> [Feeds -> SUBSET Stream]]]
             /\ \A k \in Links, m \in Nodes, g \in Feeds :
                   k # l \/ m # n \/ g # f => streams'[k][m][g] = streams[k][m][g]
<1> USE DEF ShapeInv
<1>1. n \in Nodes /\ Peer(l, n) \in Nodes
  BY Endpoints
<1>2. PICK s \in streams[l][n][f] :
        /\ Stored(n, f, s.next)
        /\ wire' = Queue(wire, l, Peer(l, n), Content(f, GetMessage(n, f, s.next)))
        /\ streams' = [streams EXCEPT ![l][n][f] = (@ \ {s}) \cup {[s EXCEPT !.next = @ + 1]}]
  BY DEF StreamSend
<1>3. s \in Stream /\ rows[n][f] \in Seq(Msg)
  BY <1>1 DEF SessionsOK, DataOK
<1>4. s.next \in 1..Len(rows[n][f])
  BY <1>2 DEF Stored
<1>5. PICK msg \in Msg : msg = rows[n][f][s.next]
  BY <1>3, <1>4
<1>6. PICK x \in Frame : x = Content(f, msg) /\ x.kind = "message"
  BY FramesOK DEF Content
<1>7. wire' = Queue(wire, l, Peer(l, n), x)
  BY <1>2, <1>5, <1>6 DEF GetMessage
<1>8. wire \in Wires
  BY DEF SessionsOK
<1>9. Sends(wire, wire', l, Peer(l, n), x)
  BY <1>1, <1>7, <1>8, QueueSends
<1>10. link[l] = "up" => wire'[l][Peer(l, n)] = Append(wire[l][Peer(l, n)], x)
  BY <1>1, <1>6, <1>7, <1>8, QueueSends
<1>11. PICK U \in SUBSET Stream : streams' = [streams EXCEPT ![l][n][f] = U]
  <2>1. s.next + 1 \in Count
    BY <1>3 DEF Stream, Count
  <2>2. [s EXCEPT !.next = @ + 1] \in Stream
    BY <1>3, <2>1 DEF Stream
  <2>3. streams[l][n][f] \in SUBSET Stream
    BY <1>1 DEF SessionsOK
  <2>4. (streams[l][n][f] \ {s}) \cup {[s EXCEPT !.next = @ + 1]} \in SUBSET Stream
    BY <2>2, <2>3
  <2> QED
    BY <1>2, <2>4
<1>12. /\ streams' \in [Links -> [Nodes -> [Feeds -> SUBSET Stream]]]
       /\ \A k \in Links, m \in Nodes, g \in Feeds :
             k # l \/ m # n \/ g # f => streams'[k][m][g] = streams[k][m][g]
  BY <1>1, <1>11 DEF SessionsOK
<1> QED
  BY <1>3, <1>4, <1>5, <1>6, <1>9, <1>10, <1>12

\* A stream that finds no row ends or waits, and is where it was.
LEMMA StreamWaits ==
    ASSUME Parameters, ShapeInv, NEW l \in Links, NEW n \in Ends(l), NEW f \in Feeds,
           StreamMisses(l, n, f) \/ StreamRecheck(l, n, f)
    PROVE  /\ streams' \in [Links -> [Nodes -> [Feeds -> SUBSET Stream]]]
           /\ \A k \in Links, m \in Nodes, g \in Feeds : \A t \in streams'[k][m][g] :
                 \E s \in streams[k][m][g] : t.next = s.next
<1> USE DEF ShapeInv
<1>1. n \in Nodes
  BY Endpoints
<1>2. PICK s \in streams[l][n][f], T \in SUBSET Stream :
        /\ T \subseteq {[s EXCEPT !.state = "recheck"], [s EXCEPT !.state = "live"]}
        /\ streams' = [streams EXCEPT ![l][n][f] = (@ \ {s}) \cup T]
  <2>1. CASE StreamMisses(l, n, f)
    <3>1. PICK s \in streams[l][n][f] :
             \/ streams' = [streams EXCEPT ![l][n][f] = @ \ {s}]
             \/ streams' = [streams EXCEPT ![l][n][f] = (@ \ {s}) \cup {[s EXCEPT !.state = "recheck"]}]
      BY <2>1 DEF StreamMisses
    <3>2. s \in Stream
      BY <1>1 DEF SessionsOK
    <3>3. [s EXCEPT !.state = "recheck"] \in Stream
      BY <3>2 DEF Stream
    <3>4. (streams[l][n][f] \ {s}) \cup {} = streams[l][n][f] \ {s}
      OBVIOUS
    <3> QED
      BY <3>1, <3>3, <3>4
  <2>2. CASE StreamRecheck(l, n, f)
    <3>1. PICK s \in streams[l][n][f] :
             streams' = [streams EXCEPT ![l][n][f] =
                 (@ \ {s}) \cup IF Seq_(n, f) >= s.next THEN {} ELSE {[s EXCEPT !.state = "live"]}]
      BY <2>2 DEF StreamRecheck
    <3>2. s \in Stream
      BY <1>1 DEF SessionsOK
    <3>3. [s EXCEPT !.state = "live"] \in Stream
      BY <3>2 DEF Stream
    <3>4. PICK T \in SUBSET Stream :
             T = IF Seq_(n, f) >= s.next THEN {} ELSE {[s EXCEPT !.state = "live"]}
      BY <3>3
    <3> QED
      BY <3>1, <3>4
  <2> QED
    BY <2>1, <2>2
<1>3. s \in Stream
  BY <1>1 DEF SessionsOK
<1>4. \A t \in T : t.next = s.next
  BY <1>2, <1>3 DEF Stream
<1>5. streams' \in [Links -> [Nodes -> [Feeds -> SUBSET Stream]]]
  BY <1>1, <1>2 DEF SessionsOK
<1>6. ASSUME NEW k \in Links, NEW m \in Nodes, NEW g \in Feeds, NEW t \in streams'[k][m][g]
      PROVE  \E r \in streams[k][m][g] : t.next = r.next
  <2>1. CASE k = l /\ m = n /\ g = f
    <3>1. streams'[l][n][f] = (streams[l][n][f] \ {s}) \cup T
      BY <1>1, <1>2 DEF SessionsOK
    <3> QED
      BY <3>1, <2>1, <1>4
  <2>2. CASE ~ (k = l /\ m = n /\ g = f)
    <3>1. streams'[k][m][g] = streams[k][m][g]
      BY <2>2, <1>1, <1>2 DEF SessionsOK
    <3> QED
      BY <3>1
  <2> QED
    BY <2>1, <2>2
<1> QED
  BY <1>5, <1>6

\* A message is read: it leaves the connection, and is stored, answered or dropped.
LEMMA MessageRead ==
    ASSUME Parameters, ShapeInv, NEW l \in Links, NEW n \in Ends(l), ReadMessage(l, n)
    PROVE  \E f \in Feeds, msg \in Msg :
             /\ link[l] = "up" /\ wire[l][n] # << >> /\ Head(wire[l][n]) = Content(f, msg)
             /\ handler[l][n] = "read"
             /\ wire' \in Wires /\ wire' = [wire EXCEPT ![l][n] = Tail(@)]
             /\ \/ /\ rows[n][f] # << >> /\ UNCHANGED << handler, held >>
                   /\ note' = note \/ note' = [note EXCEPT ![n][f] = Len(rows[n][f])]
                \/ /\ rows[n][f] = << >> \/ msg.seq = Len(rows[n][f]) + 1
                   /\ note' = note
                   /\ handler' = [handler EXCEPT ![l][n] = "append"]
                   /\ held' = [held EXCEPT ![l][n] =
                                  [feed |-> f, seen |-> Len(rows[n][f]), msg |-> msg]]
<1> USE DEF ShapeInv
<1>1. n \in Nodes
  BY Endpoints
<1>2. wire[l][n] \in Seq(Frame) /\ wire[l][n] # << >>
  BY <1>1 DEF ReadMessage, SessionsOK, Wires
<1>3. link[l] = "up"
  BY <1>1, <1>2 DEF LinksOK
<1>4. Head(wire[l][n]) \in Frame /\ Head(wire[l][n]).kind = "message"
  BY <1>2 DEF ReadMessage
<1>5. PICK f \in Feeds, msg \in Msg : /\ Head(wire[l][n]) = Content(f, msg)
                                      /\ Head(wire[l][n]).feed = f /\ Head(wire[l][n]).msg = msg
  BY <1>4 DEF Frame, Content
<1>6. wire' = [wire EXCEPT ![l][n] = Tail(@)] /\ handler[l][n] = "read"
  BY DEF ReadMessage
<1>7. wire' \in Wires
  <2>1. Tail(wire[l][n]) \in Seq(Frame)
    BY <1>2
  <2> QED
    BY <2>1, <1>1, <1>6 DEF SessionsOK, Wires
<1>8. rows[n][f] \in Seq(Msg) /\ msg.seq \in Nat
  BY <1>1 DEF DataOK, Msg, Count
<1>9. \/ /\ msg.seq <= Seq_(n, f) /\ note' = [note EXCEPT ![n][f] = Seq_(n, f)]
         /\ UNCHANGED << handler, held >>
      \/ Seq_(n, f) >= 0 /\ UNCHANGED << note, handler, held >>
      \/ /\ Seq_(n, f) = -1 \/ msg.seq = Seq_(n, f) + 1
         /\ handler' = [handler EXCEPT ![l][n] = "append"]
         /\ held' = [held EXCEPT ![l][n] = [feed |-> f, seen |-> Len(rows[n][f]), msg |-> msg]]
         /\ UNCHANGED note
  BY <1>5 DEF ReadMessage, SetFeedSeq
<1>10. CASE rows[n][f] = << >>
  BY <1>2, <1>3, <1>5, <1>6, <1>7, <1>8, <1>9, <1>10 DEF Seq_
<1>11. CASE rows[n][f] # << >>
  <2>1. Seq_(n, f) = Len(rows[n][f]) /\ Len(rows[n][f]) \in Nat /\ Len(rows[n][f]) # 0
    BY <1>11, <1>8 DEF Seq_
  <2> QED
    BY <2>1, <1>2, <1>3, <1>5, <1>6, <1>7, <1>8, <1>9, <1>11
<1> QED
  BY <1>10, <1>11

\* A step of one end of a connection that exists leaves the others as they are.
LEMMA LinksKept ==
    ASSUME LinksOK, NEW l \in Links, NEW n \in Ends(l), UNCHANGED << link, connections >>,
           link[l] # "idle",
           \A k \in Links, m \in Nodes : wire'[k][m] = wire[k][m] \/ link[k] = "up",
           \A k \in Links, m \in Nodes : handler'[k][m] = handler[k][m] \/ (k = l /\ m = n),
           \A k \in Links, m \in Nodes, g \in Feeds : k # l => streams'[k][m][g] = streams[k][m][g]
    PROVE  LinksOK'
<1>1. \A k \in Links, m \in Nodes : m \in Ends(k) \/ handler'[k][m] = "none"
  BY DEF LinksOK
<1>2. \A k \in Links : link[k] # "up" => \A m \in Nodes : wire'[k][m] = << >>
  BY DEF LinksOK
<1>3. ASSUME NEW k \in Links, link[k] = "idle", NEW m \in Nodes
      PROVE  handler'[k][m] = "none" /\ \A f \in Feeds : streams'[k][m][f] = {}
  BY <1>3 DEF LinksOK
<1> QED
  BY <1>1, <1>2, <1>3 DEF LinksOK

\* The goroutines of a session.
LEMMA SessionShape ==
    ASSUME Parameters, ShapeInv, NEW l \in Links, NEW n \in Ends(l),
           \/ Started(l, n) \/ LoopUpdate(l, n) \/ ReadFrontier(l, n) \/ ReadMessage(l, n)
           \/ AppendFeedLog(l, n) \/ AppendReceiveLog(l, n) \/ AppendFails(l, n)
           \/ \E f \in Feeds : \/ StreamSend(l, n, f) \/ StreamMisses(l, n, f)
                               \/ StreamRecheck(l, n, f)
    PROVE  ShapeInv'
<1> USE DEF ShapeInv
<1>1. n \in Nodes /\ Peer(l, n) \in Nodes /\ wire \in Wires
  BY Endpoints DEF SessionsOK
<1>2. CASE Started(l, n)
  <2>1. PICK mine \in WireNotes : mine = State(n)
    BY <1>1, StateAsked DEF Asked
  <2>2. Sends(wire, wire', l, Peer(l, n), Frontier(mine))
    BY <1>1, <1>2, <2>1, FramesOK, QueueSends DEF Started
  <2>3. DataOK'
    BY <1>2 DEF Started, DataOK, dbVars, matrixVars, callVars, boundVars
  <2>4. SessionsOK'
    BY <1>1, <1>2, <2>2 DEF Started, SessionsOK, Sends
  <2>5. link[l] # "idle"
    BY <1>1, <1>2 DEF Started, LinksOK
  <2>6. \A k \in Links, m \in Nodes : handler'[k][m] = handler[k][m] \/ (k = l /\ m = n)
    BY <1>1, <1>2 DEF Started, SessionsOK
  <2>7. \A k \in Links, m \in Nodes : wire'[k][m] = wire[k][m] \/ link[k] = "up"
    BY <2>2 DEF Sends
  <2>8. LinksOK'
    BY <1>2, <2>5, <2>6, <2>7, LinksKept DEF Started, boundVars
  <2> QED
    BY <2>3, <2>4, <2>8
<1>3. CASE LoopUpdate(l, n)
  <2>1. PICK mine \in WireNotes : mine = Changed(n, Peer(l, n), theirs[n][Peer(l, n)])
    BY <1>1, ChangedAsked DEF Asked
  <2>2. Sends(wire, wire', l, Peer(l, n), Frontier(mine))
    BY <1>1, <1>3, <2>1, WantsSend DEF LoopUpdate
  <2>3. DataOK'
    BY <1>3 DEF LoopUpdate, DataOK, dbVars, callVars, boundVars
  <2>4. SessionsOK'
    BY <1>3, <2>2 DEF LoopUpdate, SessionsOK, Sends
  <2>5. LinksOK'
    BY <1>3, <2>2 DEF LoopUpdate, LinksOK, Sends, boundVars
  <2> QED
    BY <2>3, <2>4, <2>5
<1>4. CASE ReadFrontier(l, n)
  <2>1. PICK w \in Wires, mine \in WireNotes :
             /\ link[l] = "up" /\ w = [wire EXCEPT ![l][n] = Tail(@)]
             /\ Sends(w, wire', l, Peer(l, n), Frontier(mine))
             /\ streams' \in [Links -> [Nodes -> [Feeds -> SUBSET Stream]]]
             /\ \A k \in Links, m \in Nodes : k # l \/ m # n => streams'[k][m] = streams[k][m]
    BY <1>4, FrontierRead
  <2>2. DataOK'
    BY <1>4 DEF ReadFrontier, DataOK, dbVars, callVars, boundVars
  <2>3. SessionsOK'
    BY <1>4, <2>1 DEF ReadFrontier, SessionsOK, Sends
  <2>4. \A k \in Links, m \in Nodes : k # l => wire'[k][m] = wire[k][m]
    BY <1>1, <2>1 DEF Sends, Wires
  <2>5. LinksOK'
    <3>1. UNCHANGED << link, connections, handler >>
      BY <1>4 DEF ReadFrontier, boundVars
    <3>2. \A k \in Links, m \in Nodes : wire'[k][m] = wire[k][m] \/ link[k] = "up"
      BY <2>1, <2>4
    <3>3. \A k \in Links, m \in Nodes, g \in Feeds : k # l => streams'[k][m][g] = streams[k][m][g]
      BY <2>1
    <3>4. link[l] # "idle"
      BY <2>1
    <3> QED
      BY <3>1, <3>2, <3>3, <3>4, LinksKept
  <2> QED
    BY <2>2, <2>3, <2>5
<1>5. CASE ReadMessage(l, n)
  <2>1. PICK f \in Feeds, msg \in Msg :
             /\ link[l] = "up" /\ wire' \in Wires /\ wire' = [wire EXCEPT ![l][n] = Tail(@)]
             /\ handler[l][n] = "read"
             /\ \/ /\ UNCHANGED << handler, held >>
                   /\ note' = note \/ note' = [note EXCEPT ![n][f] = Len(rows[n][f])]
                \/ /\ note' = note
                   /\ handler' = [handler EXCEPT ![l][n] = "append"]
                   /\ held' = [held EXCEPT ![l][n] =
                                  [feed |-> f, seen |-> Len(rows[n][f]), msg |-> msg]]
    BY <1>5, MessageRead
  <2>2. PICK c \in Nat : c = Len(rows[n][f])
    BY <1>1 DEF DataOK
  <2>3. note' \in [Nodes -> [Feeds -> {NoNote} \cup WireNote]]
    <3>1. note' = note \/ note' = [note EXCEPT ![n][f] = c]
      BY <2>1, <2>2
    <3>2. CASE note' = [note EXCEPT ![n][f] = c]
      BY <1>1, <3>2 DEF DataOK, WireNote
    <3> QED
      BY <3>1, <3>2 DEF DataOK
  <2>4. DataOK'
    BY <1>5, <2>3 DEF ReadMessage, DataOK, dbVars, callVars, boundVars
  <2>5. PICK h \in Held : h = [feed |-> f, seen |-> Len(rows[n][f]), msg |-> msg]
    BY <2>2 DEF Held
  <2>6. \/ UNCHANGED << handler, held >>
        \/ /\ handler' = [handler EXCEPT ![l][n] = "append"] /\ held' = [held EXCEPT ![l][n] = h]
    BY <2>1, <2>5
  <2>7. SessionsOK'
    <3>1. UNCHANGED << link, streams >>
      BY <1>5 DEF ReadMessage
    <3>2. CASE UNCHANGED << handler, held >>
      BY <2>1, <3>1, <3>2 DEF SessionsOK
    <3>3. CASE handler' = [handler EXCEPT ![l][n] = "append"] /\ held' = [held EXCEPT ![l][n] = h]
      BY <1>1, <2>1, <3>1, <3>3 DEF SessionsOK
    <3> QED
      BY <2>6, <3>2, <3>3
  <2>8. \A k \in Links, m \in Nodes : k # l => wire'[k][m] = wire[k][m]
    BY <1>1, <2>1 DEF Wires
  <2>9. \A k \in Links, m \in Nodes : (k # l \/ m # n) => handler'[k][m] = handler[k][m]
    BY <1>1, <2>6 DEF SessionsOK
  <2>10. LinksOK'
    <3>1. UNCHANGED << link, connections, streams >>
      BY <1>5 DEF ReadMessage, boundVars
    <3>2. link[l] # "idle"
      BY <2>1
    <3>3. \A k \in Links, m \in Nodes : wire'[k][m] = wire[k][m] \/ link[k] = "up"
      BY <2>1, <2>8
    <3>4. \A k \in Links, m \in Nodes : handler'[k][m] = handler[k][m] \/ (k = l /\ m = n)
      BY <2>9
    <3>5. \A k \in Links, m \in Nodes, g \in Feeds : k # l => streams'[k][m][g] = streams[k][m][g]
      BY <3>1
    <3> QED
      BY <3>1, <3>2, <3>3, <3>4, <3>5, LinksKept
  <2> QED
    BY <2>4, <2>7, <2>10
<1>6. CASE AppendFeedLog(l, n)
  <2>1. held[l][n] \in Held
    BY <1>1, <1>6 DEF AppendFeedLog, SessionsOK
  <2>2. PICK f \in Feeds, msg \in Msg : f = held[l][n].feed /\ msg = held[l][n].msg
    BY <2>1 DEF Held
  <2>3. rows' = [rows EXCEPT ![n][f] = Append(@, msg)]
    BY <1>6, <2>2 DEF AppendFeedLog, AppendRow
  <2>4. rows' \in [Nodes -> [Feeds -> Seq(Msg)]]
    BY <1>1, <2>3 DEF DataOK
  <2>5. DataOK'
    BY <1>6, <2>4 DEF AppendFeedLog, DataOK, matrixVars, callVars, boundVars
  <2>6. SessionsOK'
    BY <1>1, <1>6, <2>1 DEF AppendFeedLog, SessionsOK
  <2>7. LinksOK'
    BY <1>1, <1>6 DEF AppendFeedLog, SessionsOK, LinksOK, boundVars
  <2> QED
    BY <2>5, <2>6, <2>7
<1>7. CASE AppendReceiveLog(l, n)
  <2>1. held[l][n] \in Held
    BY <1>1, <1>7 DEF AppendReceiveLog, SessionsOK
  <2>2. PICK f \in Feeds, k \in Count : f = held[l][n].feed /\ k = held[l][n].msg.seq
    BY <2>1 DEF Held, Msg
  <2>3. note' = [note EXCEPT ![n][f] = k]
    BY <1>7, <2>2 DEF AppendReceiveLog, SetFeedSeq
  <2>4. DataOK'
    BY <1>1, <1>7, <2>3 DEF AppendReceiveLog, DataOK, callVars, boundVars, WireNote, Count
  <2>5. SessionsOK'
    BY <1>1, <1>7 DEF AppendReceiveLog, SessionsOK
  <2>6. LinksOK'
    BY <1>1, <1>7 DEF AppendReceiveLog, SessionsOK, LinksOK, boundVars
  <2> QED
    BY <2>4, <2>5, <2>6
<1>8. CASE AppendFails(l, n)
  <2>1. DataOK'
    BY <1>8 DEF AppendFails, DataOK, dbVars, matrixVars, callVars
  <2>2. SessionsOK'
    BY <1>1, <1>8 DEF AppendFails, SessionsOK
  <2>3. LinksOK'
    BY <1>1, <1>8 DEF AppendFails, SessionsOK, LinksOK
  <2> QED
    BY <2>1, <2>2, <2>3
<1>9. ASSUME NEW f \in Feeds, StreamSend(l, n, f) PROVE ShapeInv'
  <2>1. PICK s \in streams[l][n][f], msg \in Msg :
             /\ Sends(wire, wire', l, Peer(l, n), Content(f, msg))
             /\ streams' \in [Links -> [Nodes -> [Feeds -> SUBSET Stream]]]
             /\ \A k \in Links, m \in Nodes, g \in Feeds :
                   k # l \/ m # n \/ g # f => streams'[k][m][g] = streams[k][m][g]
    BY <1>9, StreamSent
  <2>2. DataOK'
    BY <1>9 DEF StreamSend, DataOK, dbVars, matrixVars, callVars, boundVars
  <2>3. SessionsOK'
    BY <1>9, <2>1 DEF StreamSend, SessionsOK, Sends
  <2>4. link[l] # "idle"
    BY <1>1 DEF LinksOK
  <2>5. \A k \in Links, m \in Nodes : wire'[k][m] = wire[k][m] \/ link[k] = "up"
    BY <2>1 DEF Sends
  <2>6. LinksOK'
    BY <1>9, <2>1, <2>4, <2>5, LinksKept DEF StreamSend, boundVars
  <2> QED
    BY <2>2, <2>3, <2>6
<1>10. ASSUME NEW f \in Feeds, StreamMisses(l, n, f) \/ StreamRecheck(l, n, f) PROVE ShapeInv'
  <2>1. /\ streams' \in [Links -> [Nodes -> [Feeds -> SUBSET Stream]]]
        /\ \A k \in Links, m \in Nodes, g \in Feeds : \A t \in streams'[k][m][g] :
              \E s \in streams[k][m][g] : t.next = s.next
    BY <1>10, StreamWaits
  <2>2. DataOK'
    BY <1>10 DEF StreamMisses, StreamRecheck, DataOK, dbVars, matrixVars, callVars, boundVars
  <2>3. UNCHANGED << wire, link, handler, held, connections >>
    BY <1>10 DEF StreamMisses, StreamRecheck, boundVars
  <2>4. SessionsOK'
    BY <2>1, <2>3 DEF SessionsOK
  <2>5. \A k \in Links, m \in Nodes, g \in Feeds : streams[k][m][g] = {} => streams'[k][m][g] = {}
    BY <2>1
  <2>6. LinksOK'
    BY <2>3, <2>5 DEF LinksOK
  <2> QED
    BY <2>2, <2>4, <2>6
<1> QED
  BY <1>2, <1>3, <1>4, <1>5, <1>6, <1>7, <1>8, <1>9, <1>10

\* The actions of the program, named apart.
NextCases ==
    \/ \E p \in Publishers : \/ \E f \in Feeds : PublishSign(p, f)
                             \/ PublishAppend(p) \/ PublishStore(p) \/ PublishFails(p)
    \/ \E n \in Nodes : \/ \E f \in Feeds : ReplicateRead(n, f)
                        \/ ReplicateSet(n)
    \/ \E n \in Nodes : Restart(n)
    \/ \E l \in Links : Connect(l) \/ Disconnect(l) \/ Ended(l)
    \/ \E l \in Links : \E n \in Ends(l) :
          \/ Started(l, n) \/ LoopUpdate(l, n) \/ ReadFrontier(l, n) \/ ReadMessage(l, n)
          \/ AppendFeedLog(l, n) \/ AppendReceiveLog(l, n) \/ AppendFails(l, n)
          \/ \E f \in Feeds : \/ StreamSend(l, n, f) \/ StreamMisses(l, n, f)
                              \/ StreamRecheck(l, n, f)

\* The steps, by the action they are of.
LEMMA NextIsCases == Next => NextCases
BY DEF Next, NextCases

\* Every step keeps the shape of the state.
LEMMA NextShape == Parameters /\ ShapeInv /\ [Next]_vars => ShapeInv'
<1> SUFFICES ASSUME Parameters, ShapeInv, [Next]_vars PROVE ShapeInv'
  OBVIOUS
<1>1. CASE UNCHANGED vars
  BY <1>1 DEF vars, ShapeInv, DataOK, SessionsOK, LinksOK
<1>2. CASE Next
  BY <1>2, NextIsCases, CallShape, LinkShape, SessionShape DEF NextCases
<1> QED
  BY <1>1, <1>2

-----------------------------------------------------------------------------
(* Who writes what                                                           *)

\* A row is appended by a publisher or by a handler,
RowWritten(n, f, msg) ==
    /\ rows' = [rows EXCEPT ![n][f] = Append(@, msg)]
    /\ \/ \E p \in Publishers : /\ PublishAppend(p) /\ pub[p] \in PublishCall /\ n = Author(f)
                                /\ pub[p].at = "append" /\ pub[p].feed = f /\ pub[p].msg = msg
       \/ \E l \in Links : /\ n \in Ends(l) /\ AppendFeedLog(l, n) /\ held[l][n] \in Held
                           /\ handler[l][n] = "append" /\ held[l][n].feed = f /\ held[l][n].msg = msg

\* A step writes one row, or none.
LEMMA RowsWritten ==
    ASSUME Parameters, ShapeInv, NextCases
    PROVE  \/ UNCHANGED rows
           \/ \E n \in Nodes, f \in Feeds, msg \in Msg : RowWritten(n, f, msg)
<1> USE DEF ShapeInv
<1>1. ASSUME NEW p \in Publishers, PublishAppend(p)
      PROVE  \E n \in Nodes, f \in Feeds, msg \in Msg : RowWritten(n, f, msg)
  <2>1. pub[p] \in PublishCall
    BY <1>1 DEF PublishAppend, DataOK, Idle
  <2>2. PICK f \in Feeds, msg \in Msg : f = pub[p].feed /\ msg = pub[p].msg
    BY <2>1 DEF PublishCall
  <2>3. PICK n \in Nodes : n = Author(f)
    BY DEF Parameters
  <2>4. rows' = [rows EXCEPT ![n][f] = Append(@, msg)] /\ pub[p].at = "append"
    BY <1>1, <2>2, <2>3 DEF PublishAppend, AppendRow
  <2> QED
    BY <1>1, <2>1, <2>2, <2>3, <2>4 DEF RowWritten
<1>2. ASSUME NEW l \in Links, NEW n \in Ends(l), AppendFeedLog(l, n)
      PROVE  \E f \in Feeds, msg \in Msg : RowWritten(n, f, msg)
  <2>1. held[l][n] \in Held
    BY <1>2, Endpoints DEF AppendFeedLog, SessionsOK
  <2>2. PICK f \in Feeds, msg \in Msg : f = held[l][n].feed /\ msg = held[l][n].msg
    BY <2>1 DEF Held
  <2>3. rows' = [rows EXCEPT ![n][f] = Append(@, msg)] /\ handler[l][n] = "append"
    BY <1>2, <2>2 DEF AppendFeedLog, AppendRow
  <2> QED
    BY <1>2, <2>1, <2>2, <2>3 DEF RowWritten
<1>3. ASSUME NEW p \in Publishers,
             (\E f \in Feeds : PublishSign(p, f)) \/ PublishStore(p) \/ PublishFails(p)
      PROVE  UNCHANGED rows
  BY <1>3 DEF PublishSign, PublishStore, PublishFails, dbVars
<1>4. ASSUME NEW n \in Nodes, (\E f \in Feeds : ReplicateRead(n, f)) \/ ReplicateSet(n) \/ Restart(n)
      PROVE  UNCHANGED rows
  BY <1>4 DEF ReplicateRead, ReplicateSet, Restart, dbVars
<1>5. ASSUME NEW l \in Links, Connect(l) \/ Disconnect(l) \/ Ended(l) PROVE UNCHANGED rows
  BY <1>5 DEF Connect, Disconnect, Ended, dbVars
<1>6. ASSUME NEW l \in Links, NEW n \in Ends(l),
             \/ Started(l, n) \/ LoopUpdate(l, n) \/ ReadFrontier(l, n) \/ ReadMessage(l, n)
             \/ AppendReceiveLog(l, n) \/ AppendFails(l, n)
             \/ \E f \in Feeds : \/ StreamSend(l, n, f) \/ StreamMisses(l, n, f)
                                 \/ StreamRecheck(l, n, f)
      PROVE  UNCHANGED rows
  BY <1>6 DEF Started, LoopUpdate, ReadFrontier, ReadMessage, AppendReceiveLog, AppendFails,
              StreamSend, StreamMisses, StreamRecheck, dbVars
<1>7. \A l \in Links : \A n \in Ends(l) : n \in Nodes
  BY Endpoints
<1> QED
  BY <1>1, <1>2, <1>3, <1>4, <1>5, <1>6, <1>7 DEF NextCases

\* so that logs only grow.
LEMMA RowsGrow ==
    ASSUME Parameters, ShapeInv, NextCases, NEW n \in Nodes, NEW f \in Feeds
    PROVE  /\ Len(rows[n][f]) \in Nat /\ Len(rows'[n][f]) \in Nat
           /\ Len(rows[n][f]) <= Len(rows'[n][f])
           /\ rows[n][f] # << >> => rows'[n][f] # << >>
           /\ \A i \in 1..Len(rows[n][f]) : rows'[n][f][i] = rows[n][f][i]
<1>1. rows[n][f] \in Seq(Msg) /\ DOMAIN rows = Nodes /\ \A m \in Nodes : DOMAIN rows[m] = Feeds
  BY DEF ShapeInv, DataOK
<1>2. CASE UNCHANGED rows
  BY <1>1, <1>2
<1>3. CASE \E m \in Nodes, g \in Feeds, msg \in Msg : RowWritten(m, g, msg)
  <2>1. PICK m \in Nodes, g \in Feeds, msg \in Msg : rows' = [rows EXCEPT ![m][g] = Append(@, msg)]
    BY <1>3 DEF RowWritten
  <2>2. rows'[n][f] = rows[n][f] \/ rows'[n][f] = Append(rows[n][f], msg)
    BY <1>1, <2>1
  <2> QED
    BY <1>1, <2>2
<1> QED
  BY <1>2, <1>3, RowsWritten

\* blind is never taken back.
LEMMA BlindStays ==
    ASSUME NextCases, ~ blind'
    PROVE  ~ blind
<1>1. ASSUME NEW p \in Publishers,
             (\E f \in Feeds : PublishSign(p, f)) \/ PublishAppend(p) \/ PublishStore(p) \/ PublishFails(p)
      PROVE  UNCHANGED blind
  BY <1>1 DEF PublishSign, PublishAppend, PublishStore, PublishFails
<1>2. ASSUME NEW n \in Nodes, (\E f \in Feeds : ReplicateRead(n, f)) \/ ReplicateSet(n) \/ Restart(n)
      PROVE  UNCHANGED blind
  BY <1>2 DEF ReplicateRead, ReplicateSet, Restart
<1>3. ASSUME NEW l \in Links, Connect(l) \/ Disconnect(l) \/ Ended(l) PROVE UNCHANGED blind
  BY <1>3 DEF Connect, Disconnect, Ended
<1>4. ASSUME NEW l \in Links, NEW n \in Ends(l), AppendFails(l, n) PROVE ~ blind
  BY <1>4, Zenon DEF AppendFails
<1>5. ASSUME NEW l \in Links, NEW n \in Ends(l),
             \/ Started(l, n) \/ LoopUpdate(l, n) \/ ReadFrontier(l, n) \/ ReadMessage(l, n)
             \/ AppendFeedLog(l, n) \/ AppendReceiveLog(l, n)
             \/ \E f \in Feeds : \/ StreamSend(l, n, f) \/ StreamMisses(l, n, f)
                                 \/ StreamRecheck(l, n, f)
      PROVE  UNCHANGED blind
  BY <1>5 DEF Started, LoopUpdate, ReadFrontier, ReadMessage, AppendFeedLog, AppendReceiveLog,
              StreamSend, StreamMisses, StreamRecheck
<1> QED
  BY <1>1, <1>2, <1>3, <1>4, <1>5, Zenon DEF NextCases

-----------------------------------------------------------------------------
(* Numbers stay behind the log                                               *)

LEMMA RowsStayBehind ==
    ASSUME Parameters, ShapeInv, NextCases, RowsBehind, PublishBehind, HeldBehind
    PROVE  RowsBehind'
<1>1. CASE UNCHANGED rows
  BY <1>1 DEF RowsBehind
<1>2. ASSUME NEW n \in Nodes, NEW f \in Feeds, NEW msg \in Msg, RowWritten(n, f, msg)
      PROVE  RowsBehind'
  <2>1. rows[n][f] \in Seq(Msg) /\ DOMAIN rows = Nodes /\ \A m \in Nodes : DOMAIN rows[m] = Feeds
    BY DEF ShapeInv, DataOK
  <2>2. rows' = [rows EXCEPT ![n][f] = Append(@, msg)]
    BY <1>2 DEF RowWritten
  <2>3. msg.seq <= Len(rows[n][f]) + 1
    <3>1. ASSUME NEW p \in Publishers, pub[p] \in PublishCall, n = Author(f), pub[p].feed = f,
                 pub[p].msg = msg, pub[p].at = "append"
          PROVE  msg.seq <= Len(rows[n][f]) + 1
      <4>1. pub[p] # Idle /\ pub[p].seen \in Nat
        BY <3>1 DEF Idle, PublishCall
      <4> QED
        BY <4>1, <3>1, <2>1 DEF PublishBehind
    <3>2. ASSUME NEW l \in Links, n \in Ends(l), held[l][n] \in Held, handler[l][n] = "append",
                 held[l][n].feed = f, held[l][n].msg = msg
          PROVE  msg.seq <= Len(rows[n][f]) + 1
      <4>1. held[l][n].seen \in Nat
        BY <3>2 DEF Held
      <4> QED
        BY <4>1, <3>2, <2>1 DEF HeldBehind
    <3> QED
      BY <1>2, <3>1, <3>2 DEF RowWritten
  <2> SUFFICES ASSUME NEW m \in Nodes, NEW g \in Feeds, NEW i \in 1..Len(rows'[m][g])
               PROVE  rows'[m][g][i].seq <= i
    BY DEF RowsBehind
  <2>4. CASE m = n /\ g = f
    <3>1. rows'[m][g] = Append(rows[n][f], msg)
      BY <2>1, <2>2, <2>4
    <3>2. CASE i = Len(rows[n][f]) + 1
      BY <3>1, <3>2, <2>1, <2>3
    <3>3. CASE i \in 1..Len(rows[n][f])
      BY <3>1, <3>3, <2>1 DEF RowsBehind
    <3> QED
      BY <3>1, <3>2, <3>3, <2>1
  <2>5. CASE m # n \/ g # f
    <3>1. rows'[m][g] = rows[m][g]
      BY <2>1, <2>2, <2>5
    <3> QED
      BY <3>1 DEF RowsBehind
  <2> QED
    BY <2>4, <2>5
<1> QED
  BY <1>1, <1>2, RowsWritten

\* A note is written by a publisher, a call of Replicate, a handler or a restart.
NoteWritten(n, f, k) ==
    /\ note' = [note EXCEPT ![n][f] = k]
    /\ \/ k = Len(rows[n][f])
       \/ repl[n] \in ReplicateCall /\ repl[n].feed = f /\ repl[n].seq = k
       \/ \E p \in Publishers : /\ pub[p] \in PublishCall /\ pub[p].at = "store" /\ n = Author(f)
                                /\ pub[p].feed = f /\ pub[p].msg.seq = k
       \/ \E l \in Links : /\ held[l][n] \in Held /\ handler[l][n] = "store"
                           /\ held[l][n].feed = f /\ held[l][n].msg.seq = k

\* A step writes the note of one feed, or reads the notes of a node from its logs.
LEMMA NotesWritten ==
    ASSUME Parameters, ShapeInv, NextCases
    PROVE  \/ UNCHANGED note
           \/ \E n \in Nodes : note' = [note EXCEPT ![n] = InitializeFromFeedlog(n)]
           \/ \E n \in Nodes, f \in Feeds, k \in Nat : NoteWritten(n, f, k)
<1> USE DEF ShapeInv
<1>1. ASSUME NEW p \in Publishers, PublishStore(p)
      PROVE  \E n \in Nodes, f \in Feeds, k \in Nat : NoteWritten(n, f, k)
  <2>1. pub[p] \in PublishCall /\ pub[p].at = "store"
    BY <1>1 DEF PublishStore, DataOK, Idle
  <2>2. PICK f \in Feeds, k \in Nat : f = pub[p].feed /\ k = pub[p].msg.seq
    BY <2>1 DEF PublishCall, Msg, Count
  <2>3. PICK n \in Nodes : n = Author(f)
    BY DEF Parameters
  <2>4. note' = [note EXCEPT ![n][f] = k]
    BY <1>1, <2>2, <2>3 DEF PublishStore, SetFeedSeq
  <2> QED
    BY <2>1, <2>2, <2>3, <2>4 DEF NoteWritten
<1>2. ASSUME NEW n \in Nodes, ReplicateSet(n)
      PROVE  \E f \in Feeds, k \in Nat : NoteWritten(n, f, k)
  <2>1. repl[n] \in ReplicateCall
    BY <1>2 DEF ReplicateSet, DataOK, NoCall
  <2>2. PICK f \in Feeds, k \in Nat : f = repl[n].feed /\ k = repl[n].seq
    BY <2>1 DEF ReplicateCall
  <2>3. note' = [note EXCEPT ![n][f] = k]
    BY <1>2, <2>2 DEF ReplicateSet, SetFeedSeq
  <2> QED
    BY <2>1, <2>2, <2>3 DEF NoteWritten
<1>3. ASSUME NEW l \in Links, NEW n \in Ends(l), AppendReceiveLog(l, n)
      PROVE  \E f \in Feeds, k \in Nat : NoteWritten(n, f, k)
  <2>1. held[l][n] \in Held /\ handler[l][n] = "store"
    BY <1>3, Endpoints DEF AppendReceiveLog, SessionsOK
  <2>2. PICK f \in Feeds, k \in Nat : f = held[l][n].feed /\ k = held[l][n].msg.seq
    BY <2>1 DEF Held, Msg, Count
  <2>3. note' = [note EXCEPT ![n][f] = k]
    BY <1>3, <2>2 DEF AppendReceiveLog, SetFeedSeq
  <2> QED
    BY <2>1, <2>2, <2>3 DEF NoteWritten
<1>4. ASSUME NEW l \in Links, NEW n \in Ends(l), ReadMessage(l, n)
      PROVE  UNCHANGED note \/ \E f \in Feeds, k \in Nat : NoteWritten(n, f, k)
  <2>1. PICK f \in Feeds : note' = note \/ note' = [note EXCEPT ![n][f] = Len(rows[n][f])]
    BY <1>4, MessageRead
  <2>2. Len(rows[n][f]) \in Nat
    BY Endpoints DEF DataOK
  <2> QED
    BY <2>1, <2>2 DEF NoteWritten
<1>5. ASSUME NEW n \in Nodes, Restart(n) PROVE note' = [note EXCEPT ![n] = InitializeFromFeedlog(n)]
  BY <1>5 DEF Restart
<1>6. ASSUME NEW p \in Publishers,
             (\E f \in Feeds : PublishSign(p, f)) \/ PublishAppend(p) \/ PublishFails(p)
      PROVE  UNCHANGED note
  BY <1>6 DEF PublishSign, PublishAppend, PublishFails, matrixVars
<1>7. ASSUME NEW n \in Nodes, NEW f \in Feeds, ReplicateRead(n, f) PROVE UNCHANGED note
  BY <1>7 DEF ReplicateRead, matrixVars
<1>8. ASSUME NEW l \in Links, Connect(l) \/ Disconnect(l) \/ Ended(l) PROVE UNCHANGED note
  BY <1>8 DEF Connect, Disconnect, Ended, matrixVars
<1>9. ASSUME NEW l \in Links, NEW n \in Ends(l),
             \/ Started(l, n) \/ LoopUpdate(l, n) \/ ReadFrontier(l, n)
             \/ AppendFeedLog(l, n) \/ AppendFails(l, n)
             \/ \E f \in Feeds : \/ StreamSend(l, n, f) \/ StreamMisses(l, n, f)
                                 \/ StreamRecheck(l, n, f)
      PROVE  UNCHANGED note
  BY <1>9 DEF Started, LoopUpdate, ReadFrontier, AppendFeedLog, AppendFails,
              StreamSend, StreamMisses, StreamRecheck, matrixVars
<1>10. \A l \in Links : \A n \in Ends(l) : n \in Nodes
  BY Endpoints
<1> QED
  BY <1>1, <1>2, <1>3, <1>4, <1>5, <1>6, <1>7, <1>8, <1>9, <1>10 DEF NextCases

\* Notes stay behind the logs.
LEMMA NotesStayBehind ==
    ASSUME Parameters, ShapeInv, NextCases, NotesBehind, PublishBehind, HeldBehind, CallsBehind
    PROVE  NotesBehind'
<1>1. \A n \in Nodes, f \in Feeds : /\ Len(rows[n][f]) \in Nat /\ Len(rows'[n][f]) \in Nat
                                    /\ Len(rows[n][f]) <= Len(rows'[n][f])
                                    /\ note[n][f] \in Int
  <2>1. \A n \in Nodes, f \in Feeds : note[n][f] \in {NoNote} \cup WireNote
    BY DEF ShapeInv, DataOK
  <2>2. {NoNote} \cup WireNote \subseteq Int
    BY DEF WireNote, NoNote
  <2> QED
    BY <2>1, <2>2, RowsGrow
<1>2. DOMAIN note = Nodes /\ \A m \in Nodes : DOMAIN note[m] = Feeds
  BY DEF ShapeInv, DataOK
<1> SUFFICES ASSUME NEW m \in Nodes, NEW g \in Feeds PROVE note'[m][g] <= Len(rows'[m][g])
  BY DEF NotesBehind
<1>3. CASE note'[m][g] = note[m][g]
  BY <1>1, <1>3 DEF NotesBehind
<1>4. ASSUME NEW n \in Nodes, note' = [note EXCEPT ![n] = InitializeFromFeedlog(n)]
      PROVE  note'[m][g] <= Len(rows'[m][g])
  <2>1. CASE m = n
    <3>1. note'[m][g] = InitializeFromFeedlog(n)[g]
      BY <1>2, <1>4, <2>1
    <3>2. note'[m][g] = Len(rows[n][g]) \/ note'[m][g] = -1 \/ note'[m][g] = 0
      BY <3>1 DEF InitializeFromFeedlog
    <3> QED
      BY <1>1, <3>2, <2>1
  <2>2. CASE m # n
    BY <1>2, <1>3, <1>4, <2>2
  <2> QED
    BY <2>1, <2>2
<1>5. ASSUME NEW n \in Nodes, NEW f \in Feeds, NEW k \in Nat, NoteWritten(n, f, k)
      PROVE  note'[m][g] <= Len(rows'[m][g])
  <2>1. note' = [note EXCEPT ![n][f] = k]
    BY <1>5 DEF NoteWritten
  <2>2. CASE m # n \/ g # f
    BY <1>2, <1>3, <2>1, <2>2
  <2>3. CASE m = n /\ g = f
    <3>1. note'[m][g] = k
      BY <1>2, <2>1, <2>3
    <3>2. k <= Len(rows[n][f])
      <4>1. ASSUME repl[n] \in ReplicateCall, repl[n].feed = f, repl[n].seq = k
            PROVE  k <= Len(rows[n][f])
        <5>1. repl[n] # NoCall
          BY <4>1 DEF ReplicateCall, NoCall
        <5> QED
          BY <5>1, <4>1 DEF CallsBehind
      <4>2. ASSUME NEW p \in Publishers, pub[p] \in PublishCall, pub[p].at = "store", n = Author(f),
                   pub[p].feed = f, pub[p].msg.seq = k
            PROVE  k <= Len(rows[n][f])
        <5>1. pub[p] # Idle
          BY <4>2 DEF Idle, PublishCall
        <5> QED
          BY <5>1, <4>2 DEF PublishBehind
      <4>3. ASSUME NEW l \in Links, held[l][n] \in Held, handler[l][n] = "store",
                   held[l][n].feed = f, held[l][n].msg.seq = k
            PROVE  k <= Len(rows[n][f])
        BY <4>3 DEF HeldBehind
      <4>4. k = Len(rows[n][f]) => k <= Len(rows[n][f])
        BY <1>1
      <4> QED
        BY <4>1, <4>2, <4>3, <4>4, <1>5 DEF NoteWritten
    <3> QED
      BY <1>1, <3>1, <3>2, <2>3
  <2> QED
    BY <2>2, <2>3
<1> QED
  BY <1>3, <1>4, <1>5, NotesWritten

\* What a call of Replicate has read stays behind the log.
LEMMA CallsStayBehind ==
    ASSUME Parameters, ShapeInv, NextCases, CallsBehind
    PROVE  CallsBehind'
<1>1. \A n \in Nodes, f \in Feeds : /\ Len(rows[n][f]) \in Nat /\ Len(rows'[n][f]) \in Nat
                                    /\ Len(rows[n][f]) <= Len(rows'[n][f])
  BY RowsGrow
<1>2. repl \in [Nodes -> {NoCall} \cup ReplicateCall]
  BY DEF ShapeInv, DataOK
<1>3. ASSUME NEW m \in Nodes, repl'[m] # NoCall, repl'[m] = repl[m]
      PROVE  repl'[m].seq <= Len(rows'[m][repl'[m].feed])
  <2>1. repl[m] \in ReplicateCall
    BY <1>2, <1>3
  <2>2. repl[m].feed \in Feeds /\ repl[m].seq \in Nat
    BY <2>1 DEF ReplicateCall
  <2>3. repl[m].seq <= Len(rows[m][repl[m].feed])
    BY <1>3 DEF CallsBehind
  <2> QED
    BY <1>1, <1>3, <2>2, <2>3
<1>4. ASSUME NEW n \in Nodes, NEW f \in Feeds, ReplicateRead(n, f) PROVE CallsBehind'
  <2>1. UNCHANGED rows
    BY <1>4 DEF ReplicateRead, dbVars
  <2>2. /\ repl'[n] = [at |-> "set", feed |-> f, seq |-> Len(rows[n][f])]
        /\ \A m \in Nodes : m # n => repl'[m] = repl[m]
    BY <1>2, <1>4 DEF ReplicateRead
  <2>3. repl'[n].seq <= Len(rows'[n][repl'[n].feed])
    BY <1>1, <2>1, <2>2
  <2> QED
    BY <1>3, <2>2, <2>3 DEF CallsBehind
<1>5. ASSUME NEW n \in Nodes, ReplicateSet(n) \/ Restart(n) PROVE CallsBehind'
  <2>1. \A m \in Nodes : repl'[m] = repl[m] \/ repl'[m] = NoCall
    BY <1>2, <1>5 DEF ReplicateSet, Restart
  <2> QED
    BY <1>3, <2>1 DEF CallsBehind
<1>6. ASSUME NEW p \in Publishers,
             (\E f \in Feeds : PublishSign(p, f)) \/ PublishAppend(p) \/ PublishStore(p) \/ PublishFails(p)
      PROVE  UNCHANGED repl
  BY <1>6 DEF PublishSign, PublishAppend, PublishStore, PublishFails
<1>7. ASSUME NEW l \in Links, Connect(l) \/ Disconnect(l) \/ Ended(l) PROVE UNCHANGED repl
  BY <1>7 DEF Connect, Disconnect, Ended, callVars
<1>8. ASSUME NEW l \in Links, NEW n \in Ends(l),
             \/ Started(l, n) \/ LoopUpdate(l, n) \/ ReadFrontier(l, n) \/ ReadMessage(l, n)
             \/ AppendFeedLog(l, n) \/ AppendReceiveLog(l, n) \/ AppendFails(l, n)
             \/ \E f \in Feeds : \/ StreamSend(l, n, f) \/ StreamMisses(l, n, f)
                                 \/ StreamRecheck(l, n, f)
      PROVE  UNCHANGED repl
  BY <1>8 DEF Started, LoopUpdate, ReadFrontier, ReadMessage, AppendFeedLog, AppendReceiveLog,
              AppendFails, StreamSend, StreamMisses, StreamRecheck, callVars
<1>9. UNCHANGED repl => CallsBehind'
  BY <1>3 DEF CallsBehind
<1> QED
  BY <1>4, <1>5, <1>6, <1>7, <1>8, <1>9 DEF NextCases

\* What a publisher has read stays behind the log.
LEMMA PublishStaysBehind ==
    ASSUME Parameters, ShapeInv, NextCases, PublishBehind
    PROVE  PublishBehind'
<1>1. \A n \in Nodes, f \in Feeds : /\ Len(rows[n][f]) \in Nat /\ Len(rows'[n][f]) \in Nat
                                    /\ Len(rows[n][f]) <= Len(rows'[n][f])
  BY RowsGrow
<1>2. pub \in [Publishers -> {Idle} \cup PublishCall]
  BY DEF ShapeInv, DataOK
<1> DEFINE Behind(c) == /\ c.seen <= Len(rows'[Author(c.feed)][c.feed])
                        /\ c.msg.seq = c.seen + 1
                        /\ c.at = "store" => c.msg.seq <= Len(rows'[Author(c.feed)][c.feed])
<1>3. ASSUME NEW q \in Publishers, pub'[q] # Idle, pub'[q] = pub[q]
      PROVE  Behind(pub'[q])
  <2>1. pub[q] \in PublishCall
    BY <1>2, <1>3
  <2>2. /\ pub[q].feed \in Feeds /\ pub[q].seen \in Nat /\ pub[q].msg.seq \in Nat
        /\ Author(pub[q].feed) \in Nodes
    BY <2>1 DEF PublishCall, Msg, Count, Parameters
  <2>3. PICK f \in Feeds, n \in Nodes : f = pub[q].feed /\ n = Author(f)
    BY <2>2
  <2>4. /\ pub[q].seen <= Len(rows[n][f]) /\ pub[q].msg.seq = pub[q].seen + 1
        /\ pub[q].at = "store" => pub[q].msg.seq <= Len(rows[n][f])
    BY <1>3, <2>3 DEF PublishBehind
  <2>5. PICK c : c = pub[q] /\ c = pub'[q]
    BY <1>3
  <2>6. Behind(c)
    BY <1>1, <2>2, <2>3, <2>4, <2>5
  <2> QED
    BY <2>5, <2>6
<1>4. (\A q \in Publishers : pub'[q] # Idle => Behind(pub'[q])) => PublishBehind'
  BY DEF PublishBehind
<1>5. ASSUME NEW p \in Publishers, NEW f \in Feeds, PublishSign(p, f) PROVE PublishBehind'
  <2>1. UNCHANGED rows /\ Author(f) \in Nodes
    BY <1>5 DEF PublishSign, dbVars, Parameters
  <2>2. PICK k \in Nat : k = Len(rows[Author(f)][f])
    BY <1>1, <2>1
  <2>3. /\ pub'[p] = [at |-> "append", feed |-> f, seen |-> k,
                      msg |-> [seq |-> k + 1, id |-> published + 1]]
        /\ \A q \in Publishers : q # p => pub'[q] = pub[q]
    BY <1>2, <1>5, <2>2 DEF PublishSign
  <2>4. Behind(pub'[p])
    BY <2>1, <2>2, <2>3
  <2> HIDE DEF Behind
  <2> QED
    BY <1>3, <1>4, <2>3, <2>4
<1>6. ASSUME NEW p \in Publishers, PublishAppend(p) PROVE PublishBehind'
  <2>1. PICK c \in PublishCall : c = pub[p]
    BY <1>2, <1>6 DEF PublishAppend, Idle
  <2>2. PICK f \in Feeds, msg \in Msg, n \in Nodes : f = c.feed /\ msg = c.msg /\ n = Author(f)
    BY <2>1 DEF PublishCall, Parameters
  <2>3. rows' = [rows EXCEPT ![n][f] = Append(@, msg)]
    BY <1>6, <2>1, <2>2 DEF PublishAppend, AppendRow
  <2>4. rows[n][f] \in Seq(Msg) /\ DOMAIN rows = Nodes /\ \A m \in Nodes : DOMAIN rows[m] = Feeds
    BY DEF ShapeInv, DataOK
  <2>5. Len(rows'[n][f]) = Len(rows[n][f]) + 1
    BY <2>3, <2>4
  <2>6. c # Idle /\ c.seen \in Nat /\ msg.seq \in Nat
    BY <2>1, <2>2 DEF Idle, PublishCall, Msg, Count
  <2>7. c.seen <= Len(rows[n][f]) /\ msg.seq = c.seen + 1
    BY <2>1, <2>2, <2>6 DEF PublishBehind
  <2>8. /\ pub'[p] = [c EXCEPT !.at = "store"]
        /\ \A q \in Publishers : q # p => pub'[q] = pub[q]
    BY <1>2, <1>6, <2>1 DEF PublishAppend
  <2>9. pub'[p].feed = f /\ pub'[p].msg = msg /\ pub'[p].seen = c.seen
    BY <2>1, <2>2, <2>8 DEF PublishCall
  <2>10. Behind(pub'[p])
    BY <1>1, <2>2, <2>5, <2>6, <2>7, <2>9
  <2> HIDE DEF Behind
  <2> QED
    BY <1>3, <1>4, <2>8, <2>10
<1> HIDE DEF Behind
<1>7. ASSUME NEW p \in Publishers, PublishStore(p) \/ PublishFails(p) PROVE PublishBehind'
  <2>1. \A q \in Publishers : pub'[q] = pub[q] \/ pub'[q] = Idle
    BY <1>2, <1>7 DEF PublishStore, PublishFails
  <2> QED
    BY <1>3, <1>4, <2>1
<1>8. ASSUME NEW n \in Nodes, Restart(n) PROVE PublishBehind'
  <2>1. \A q \in Publishers : pub'[q] = pub[q] \/ pub'[q] = Idle
    BY <1>2, <1>8 DEF Restart
  <2> QED
    BY <1>3, <1>4, <2>1
<1>9. ASSUME NEW n \in Nodes, (\E f \in Feeds : ReplicateRead(n, f)) \/ ReplicateSet(n)
      PROVE  UNCHANGED pub
  BY <1>9 DEF ReplicateRead, ReplicateSet
<1>10. ASSUME NEW l \in Links, Connect(l) \/ Disconnect(l) \/ Ended(l) PROVE UNCHANGED pub
  BY <1>10 DEF Connect, Disconnect, Ended, callVars
<1>11. ASSUME NEW l \in Links, NEW n \in Ends(l),
             \/ Started(l, n) \/ LoopUpdate(l, n) \/ ReadFrontier(l, n) \/ ReadMessage(l, n)
             \/ AppendFeedLog(l, n) \/ AppendReceiveLog(l, n) \/ AppendFails(l, n)
             \/ \E f \in Feeds : \/ StreamSend(l, n, f) \/ StreamMisses(l, n, f)
                                 \/ StreamRecheck(l, n, f)
      PROVE  UNCHANGED pub
  BY <1>11 DEF Started, LoopUpdate, ReadFrontier, ReadMessage, AppendFeedLog, AppendReceiveLog,
              AppendFails, StreamSend, StreamMisses, StreamRecheck, callVars
<1>12. UNCHANGED pub => PublishBehind'
  BY <1>3, <1>4
<1> QED
  BY <1>5, <1>6, <1>7, <1>8, <1>9, <1>10, <1>11, <1>12 DEF NextCases

\* The message that an empty log takes is message 1.
LEMMA EmptyTakesFirst ==
    ASSUME Parameters, ShapeInv, FirstComesFirst, NEW l \in Links, NEW n \in Ends(l),
           NEW f \in Feeds, NEW msg \in Msg, link[l] = "up", handler[l][n] = "read",
           wire[l][n] # << >>, Head(wire[l][n]) = Content(f, msg), rows[n][f] = << >>
    PROVE  msg.seq = 1
<1>1. Ordered(wire[l][n], f)
  BY DEF FirstComesFirst, Fresh
<1>2. IsMsg(Head(wire[l][n]), f) /\ Head(wire[l][n]).msg = msg
  BY DEF IsMsg, Content
<1>3. wire[l][n] \in Seq(Frame)
  <2>1. n \in Nodes
    BY Endpoints
  <2> QED
    BY <2>1 DEF ShapeInv, SessionsOK, Wires
<1>4. Head(wire[l][n]).msg.seq = 1
  BY <1>1, <1>2, <1>3, HeadIsFirst
<1> QED
  BY <1>2, <1>4

\* What a session is about to append follows the log it has read.
LEMMA HeldStaysBehind ==
    ASSUME Parameters, ShapeInv, NextCases, HeldBehind, FirstComesFirst
    PROVE  HeldBehind'
<1>1. \A n \in Nodes, f \in Feeds : /\ Len(rows[n][f]) \in Nat /\ Len(rows'[n][f]) \in Nat
                                    /\ Len(rows[n][f]) <= Len(rows'[n][f])
  BY RowsGrow
<1>2. /\ handler \in [Links -> [Nodes -> {"none", "new", "read", "append", "store", "ended"}]]
      /\ held \in [Links -> [Nodes -> {NoMessage} \cup Held]]
  BY DEF ShapeInv, SessionsOK
<1>e. \A l \in Links : \A n \in Ends(l) : n \in Nodes
  BY Endpoints
<1> DEFINE Behind(k, m, h) == /\ h.seen <= Len(rows'[m][h.feed])
                              /\ h.msg.seq = h.seen + 1
                              /\ handler'[k][m] = "store" => h.msg.seq <= Len(rows'[m][h.feed])
           Same(k, m) == handler'[k][m] = handler[k][m] /\ held'[k][m] = held[k][m]
           Out(k, m) == handler'[k][m] \notin {"append", "store"}
<1>3. (\A k \in Links, m \in Nodes : Out(k, m) \/ Behind(k, m, held'[k][m])) => HeldBehind'
  BY DEF HeldBehind
<1>4. ASSUME NEW k \in Links, NEW m \in Nodes, Same(k, m)
      PROVE  Out(k, m) \/ Behind(k, m, held'[k][m])
  <2> SUFFICES ASSUME handler[k][m] \in {"append", "store"} PROVE Behind(k, m, held'[k][m])
    BY <1>4
  <2>1. PICK h \in Held : h = held[k][m] /\ h = held'[k][m]
    BY <1>4 DEF ShapeInv, SessionsOK
  <2>2. h.feed \in Feeds /\ h.seen \in Nat /\ h.msg.seq \in Nat
    BY DEF Held, Msg, Count
  <2>3. /\ h.seen <= Len(rows[m][h.feed]) /\ h.msg.seq = h.seen + 1
        /\ handler[k][m] = "store" => h.msg.seq <= Len(rows[m][h.feed])
    BY <2>1 DEF HeldBehind
  <2>4. Behind(k, m, h)
    BY <1>1, <1>4, <2>2, <2>3
  <2> QED
    BY <2>1, <2>4
<1>5. ASSUME NEW l \in Links, NEW n \in Ends(l), ReadMessage(l, n) PROVE HeldBehind'
  <2>1. PICK f \in Feeds, msg \in Msg :
             /\ link[l] = "up" /\ wire[l][n] # << >> /\ Head(wire[l][n]) = Content(f, msg)
             /\ handler[l][n] = "read"
             /\ \/ UNCHANGED << handler, held >>
                \/ /\ rows[n][f] = << >> \/ msg.seq = Len(rows[n][f]) + 1
                   /\ handler' = [handler EXCEPT ![l][n] = "append"]
                   /\ held' = [held EXCEPT ![l][n] =
                                  [feed |-> f, seen |-> Len(rows[n][f]), msg |-> msg]]
    BY <1>5, MessageRead
  <2>2. CASE UNCHANGED << handler, held >>
    <3>1. \A k \in Links, m \in Nodes : Same(k, m)
      BY <2>2
    <3> HIDE DEF Same, Out, Behind
    <3> QED
      BY <1>3, <1>4, <3>1
  <2>3. CASE /\ rows[n][f] = << >> \/ msg.seq = Len(rows[n][f]) + 1
             /\ handler' = [handler EXCEPT ![l][n] = "append"]
             /\ held' = [held EXCEPT ![l][n] = [feed |-> f, seen |-> Len(rows[n][f]), msg |-> msg]]
    <3>1. rows[n][f] = << >> => msg.seq = 1
      BY <2>1, EmptyTakesFirst
    <3>2. PICK c \in Nat : c = Len(rows[n][f])
      BY <1>1, <1>e
    <3>3. msg.seq = c + 1
      BY <2>3, <3>1, <3>2
    <3>4. UNCHANGED rows
      BY <1>5 DEF ReadMessage, dbVars
    <3>5. PICK h : h = [feed |-> f, seen |-> c, msg |-> msg]
      OBVIOUS
    <3>6. Behind(l, n, h)
      <4>1. handler'[l][n] = "append"
        BY <2>3, <1>2, <1>e
      <4> QED
        BY <4>1, <1>1, <1>e, <3>2, <3>3, <3>4, <3>5
    <3>7. held'[l][n] = h
      BY <1>2, <1>e, <2>3, <3>2, <3>5
    <3>8. \A k \in Links, m \in Nodes : k # l \/ m # n => Same(k, m)
      BY <1>2, <1>e, <2>3
    <3> HIDE DEF Same, Out, Behind
    <3> QED
      BY <1>3, <1>4, <3>6, <3>7, <3>8
  <2> QED
    BY <2>1, <2>2, <2>3
<1>6. ASSUME NEW l \in Links, NEW n \in Ends(l), AppendFeedLog(l, n) PROVE HeldBehind'
  <2>1. PICK h \in Held : h = held[l][n]
    BY <1>6, <1>e DEF AppendFeedLog, ShapeInv, SessionsOK
  <2>2. PICK f \in Feeds, msg \in Msg : f = h.feed /\ msg = h.msg
    BY DEF Held
  <2>3. rows' = [rows EXCEPT ![n][f] = Append(@, msg)] /\ handler[l][n] = "append" /\ UNCHANGED held
    BY <1>6, <2>1, <2>2 DEF AppendFeedLog, AppendRow
  <2>4. rows[n][f] \in Seq(Msg) /\ DOMAIN rows = Nodes /\ \A m \in Nodes : DOMAIN rows[m] = Feeds
    BY <1>e DEF ShapeInv, DataOK
  <2>5. Len(rows'[n][f]) = Len(rows[n][f]) + 1 /\ Len(rows[n][f]) \in Nat
    BY <2>3, <2>4, <1>e
  <2>6. h.seen <= Len(rows[n][f]) /\ msg.seq = h.seen + 1
    BY <1>e, <2>1, <2>2, <2>3 DEF HeldBehind
  <2>7. h.seen \in Nat /\ msg.seq \in Nat
    BY DEF Held, Msg, Count
  <2>8. Behind(l, n, h)
    BY <2>2, <2>5, <2>6, <2>7
  <2>9. \A k \in Links, m \in Nodes : k # l \/ m # n => Same(k, m)
    BY <1>2, <1>6, <1>e DEF AppendFeedLog
  <2>10. held'[l][n] = h
    BY <2>1, <2>3
  <2> HIDE DEF Same, Out, Behind
  <2> QED
    BY <1>3, <1>4, <2>8, <2>9, <2>10
<1>7. ASSUME NEW l \in Links, NEW n \in Ends(l),
             Started(l, n) \/ AppendReceiveLog(l, n) \/ AppendFails(l, n)
      PROVE  HeldBehind'
  <2>1. Out(l, n)
    BY <1>2, <1>7, <1>e DEF Started, AppendReceiveLog, AppendFails
  <2>2. \A k \in Links, m \in Nodes : k # l \/ m # n => Same(k, m)
    BY <1>2, <1>7, <1>e DEF Started, AppendReceiveLog, AppendFails
  <2> HIDE DEF Same, Out, Behind
  <2> QED
    BY <1>3, <1>4, <2>1, <2>2
<1>8. ASSUME NEW l \in Links, Connect(l) PROVE HeldBehind'
  <2>1. \A m \in Nodes : Out(l, m)
    BY <1>2, <1>8 DEF Connect
  <2>2. \A k \in Links, m \in Nodes : k # l => Same(k, m)
    BY <1>2, <1>8 DEF Connect
  <2> HIDE DEF Same, Out, Behind
  <2> QED
    BY <1>3, <1>4, <2>1, <2>2
<1>9. ASSUME NEW l \in Links, Ended(l) PROVE HeldBehind'
  <2>1. Acceptor(l) \in Nodes
    BY DEF Parameters
  <2>2. handler' = [handler EXCEPT ![l][Acceptor(l)] = "ended"] /\ UNCHANGED held
    BY <1>9 DEF Ended
  <2>3. \A k \in Links, m \in Nodes : Same(k, m) \/ Out(k, m)
    BY <1>2, <2>1, <2>2
  <2> HIDE DEF Same, Out, Behind
  <2> QED
    BY <1>3, <1>4, <2>3
<1>10. ASSUME NEW n \in Nodes, Restart(n) PROVE HeldBehind'
  <2>1. ASSUME NEW k \in Links, NEW m \in Nodes PROVE Same(k, m) \/ Out(k, m)
    <3>1. CASE m # n
      BY <1>2, <1>10, <3>1 DEF Restart
    <3>2. CASE m = n
      <4>1. handler'[k][n] = IF link[k] # "idle" /\ n \in Ends(k) THEN "ended" ELSE handler[k][n]
        BY <1>2, <1>10 DEF Restart
      <4>2. n \notin Ends(k) \/ link[k] = "idle" => handler[k][n] = "none"
        BY DEF ShapeInv, LinksOK
      <4> QED
        BY <3>2, <4>1, <4>2
    <3> QED
      BY <3>1, <3>2
  <2> HIDE DEF Same, Out, Behind
  <2> QED
    BY <1>3, <1>4, <2>1
<1>11. UNCHANGED << handler, held >> => HeldBehind'
  <2>1. UNCHANGED << handler, held >> => \A k \in Links, m \in Nodes : Same(k, m)
    OBVIOUS
  <2> HIDE DEF Same, Out, Behind
  <2> QED
    BY <1>3, <1>4, <2>1
<1> HIDE DEF Same, Out, Behind
<1>12. ASSUME NEW p \in Publishers,
             (\E f \in Feeds : PublishSign(p, f)) \/ PublishAppend(p) \/ PublishStore(p) \/ PublishFails(p)
      PROVE  HeldBehind'
  BY <1>11, <1>12 DEF PublishSign, PublishAppend, PublishStore, PublishFails, sessionVars
<1>13. ASSUME NEW n \in Nodes, (\E f \in Feeds : ReplicateRead(n, f)) \/ ReplicateSet(n)
       PROVE  HeldBehind'
  BY <1>11, <1>13 DEF ReplicateRead, ReplicateSet, sessionVars
<1>14. ASSUME NEW l \in Links, Disconnect(l) PROVE HeldBehind'
  BY <1>11, <1>14 DEF Disconnect
<1>15. ASSUME NEW l \in Links, NEW n \in Ends(l),
             \/ LoopUpdate(l, n) \/ ReadFrontier(l, n)
             \/ \E f \in Feeds : \/ StreamSend(l, n, f) \/ StreamMisses(l, n, f)
                                 \/ StreamRecheck(l, n, f)
      PROVE  HeldBehind'
  BY <1>11, <1>15 DEF LoopUpdate, ReadFrontier, StreamSend, StreamMisses, StreamRecheck
<1> QED
  BY <1>5, <1>6, <1>7, <1>8, <1>9, <1>10, <1>12, <1>13, <1>14, <1>15 DEF NextCases

-----------------------------------------------------------------------------
(* The first message comes first                                             *)

InOrder(l, n, f) ==
    /\ Ordered(wire[l][n], f)
    /\ \A s \in streams[l][Peer(l, n)][f] : s.next > 1 => Has(wire[l][n], f)
    /\ Modest(wire[l][Peer(l, n)], f)

\* A frontier behind the others changes nothing about the messages, and asks a peer for
\* nothing beyond the first one of a feed that its sender does not have.
LEMMA FrontierSent ==
    ASSUME Parameters, ShapeInv, NotesBehind, NEW l \in Links, NEW n \in Ends(l),
           NEW w \in Wires, NEW mine \in WireNotes, Asked(n, mine),
           Sends(w, wire', l, Peer(l, n), Frontier(mine)),
           NEW k \in Links, NEW m \in Ends(k), NEW g \in Feeds, rows[m][g] = << >>
    PROVE  /\ Ordered(w[k][m], g) => Ordered(wire'[k][m], g)
           /\ Has(w[k][m], g) => Has(wire'[k][m], g)
           /\ Modest(w[k][Peer(k, m)], g) => Modest(wire'[k][Peer(k, m)], g)
<1>1. /\ m \in Nodes /\ Peer(k, m) \in Nodes /\ n \in Nodes
      /\ k = l /\ Peer(k, m) = Peer(l, n) => m = n
  BY Endpoints
<1>2. PICK x \in Frame : x = Frontier(mine) /\ x.kind = "frontier" /\ x.notes = mine
  BY FramesOK DEF Frontier
<1>3. w[k][m] \in Seq(Frame) /\ w[k][Peer(k, m)] \in Seq(Frame)
  BY <1>1 DEF Wires
<1>4. wire'[k][m] = w[k][m] \/ wire'[k][m] = Append(w[k][m], x)
  BY <1>1, <1>2 DEF Sends
<1>5. ~ IsMsg(x, g)
  BY <1>2 DEF IsMsg
<1>6. \/ wire'[k][Peer(k, m)] = w[k][Peer(k, m)]
      \/ wire'[k][Peer(k, m)] = Append(w[k][Peer(k, m)], x) /\ m = n
  BY <1>1, <1>2 DEF Sends
<1>7. m = n /\ g \in DOMAIN x.notes => x.notes[g] <= 0
  <2>1. ASSUME m = n PROVE note[n][g] <= 0
    <3>1. note[m][g] <= Len(rows[m][g])
      BY <1>1 DEF NotesBehind
    <3>2. Len(rows[m][g]) = 0
      OBVIOUS
    <3> QED
      BY <2>1, <3>1, <3>2
  <2> QED
    BY <2>1, <1>2 DEF Asked
<1>8. Ordered(w[k][m], g) => Ordered(wire'[k][m], g)
  BY <1>3, <1>4, <1>5, AppendOrdered
<1>9. Has(w[k][m], g) => Has(wire'[k][m], g)
  BY <1>3, <1>4, AppendHas
<1>10. Modest(w[k][Peer(k, m)], g) => Modest(wire'[k][Peer(k, m)], g)
  BY <1>3, <1>6, <1>7, AppendModest
<1> QED
  BY <1>8, <1>9, <1>10

\* Frontiers that are sent without one being read.
LEMMA FirstOnSend ==
    ASSUME Parameters, ShapeInv, NotesBehind, FirstComesFirst, NEW l \in Links, NEW n \in Ends(l),
           Started(l, n) \/ LoopUpdate(l, n)
    PROVE  FirstComesFirst'
<1> USE DEF ShapeInv
<1>1. n \in Nodes /\ Peer(l, n) \in Nodes /\ wire \in Wires
  BY Endpoints DEF SessionsOK
<1>2. PICK mine \in WireNotes : Asked(n, mine) /\ Sends(wire, wire', l, Peer(l, n), Frontier(mine))
  <2>1. CASE Started(l, n)
    <3>1. PICK mine \in WireNotes : mine = State(n) /\ Asked(n, mine)
      BY <1>1, StateAsked DEF Asked
    <3> QED
      BY <1>1, <2>1, <3>1, FramesOK, QueueSends DEF Started
  <2>2. CASE LoopUpdate(l, n)
    <3>1. Asked(n, Changed(n, Peer(l, n), theirs[n][Peer(l, n)]))
      BY <1>1, ChangedAsked
    <3>2. PICK mine \in WireNotes : /\ mine = Changed(n, Peer(l, n), theirs[n][Peer(l, n)])
                                    /\ Asked(n, mine)
      BY <3>1 DEF Asked
    <3> QED
      BY <1>1, <2>2, <3>2, WantsSend DEF LoopUpdate
  <2> QED
    BY <2>1, <2>2
<1>3. UNCHANGED << rows, link, streams, held >>
  BY DEF Started, LoopUpdate, dbVars
<1>4. \A k \in Links, m \in Nodes :
        handler'[k][m] = handler[k][m] \/ (handler[k][m] = "new" /\ handler'[k][m] = "read")
  <2>1. CASE Started(l, n)
    BY <1>1, <2>1 DEF Started, SessionsOK
  <2>2. CASE LoopUpdate(l, n)
    BY <2>2 DEF LoopUpdate
  <2> QED
    BY <2>1, <2>2
<1> SUFFICES ASSUME NEW k \in Links, NEW m \in Ends(k), NEW g \in Feeds, Fresh(k, m, g)'
             PROVE  InOrder(k, m, g)'
  BY DEF FirstComesFirst, InOrder
<1>5. m \in Nodes
  BY Endpoints
<1>6. Fresh(k, m, g)
  BY <1>3, <1>4, <1>5 DEF Fresh
<1>7. InOrder(k, m, g)
  BY <1>6 DEF FirstComesFirst, InOrder
<1>8. rows[m][g] = << >>
  BY <1>6 DEF Fresh
<1>9. /\ Ordered(wire[k][m], g) => Ordered(wire'[k][m], g)
      /\ Has(wire[k][m], g) => Has(wire'[k][m], g)
      /\ Modest(wire[k][Peer(k, m)], g) => Modest(wire'[k][Peer(k, m)], g)
  BY <1>1, <1>2, <1>8, FrontierSent
<1> QED
  BY <1>3, <1>7, <1>9 DEF InOrder

\* A frontier that is read starts the streams of what the peer does not have from the first
\* message.
LEMMA FirstOnFrontier ==
    ASSUME Parameters, ShapeInv, NotesBehind, FirstComesFirst, NEW l \in Links, NEW n \in Ends(l),
           ReadFrontier(l, n)
    PROVE  FirstComesFirst'
<1> USE DEF ShapeInv
<1>1. n \in Nodes /\ Peer(l, n) \in Nodes /\ wire \in Wires
  BY Endpoints DEF SessionsOK
<1>2. PICK w \in Wires, notes \in WireNotes, mine \in WireNotes :
             /\ link[l] = "up" /\ wire[l][n] # << >> /\ Head(wire[l][n]) = Frontier(notes)
             /\ Asked(n, mine)
             /\ w = [wire EXCEPT ![l][n] = Tail(@)]
             /\ Sends(w, wire', l, Peer(l, n), Frontier(mine))
             /\ streams' \in [Links -> [Nodes -> [Feeds -> SUBSET Stream]]]
             /\ \A k \in Links, m \in Nodes : k # l \/ m # n => streams'[k][m] = streams[k][m]
             /\ \A f \in Feeds : \A s \in streams'[l][n][f] :
                   \/ \E r \in streams[l][n][f] : s.next = r.next
                   \/ f \in DOMAIN notes /\ (notes[f] <= 0 => s.next = 1)
  BY FrontierRead
<1>3. UNCHANGED << rows, link, held, handler >>
  BY DEF ReadFrontier, dbVars
<1>4. /\ w[l][n] = Tail(wire[l][n])
      /\ \A k \in Links, m \in Nodes : k # l \/ m # n => w[k][m] = wire[k][m]
  BY <1>1, <1>2 DEF Wires
<1>5. wire[l][n] \in Seq(Frame)
  BY <1>1 DEF Wires
<1>6. \A g \in Feeds : ~ IsMsg(Head(wire[l][n]), g)
  BY <1>2 DEF Frontier, IsMsg
<1> SUFFICES ASSUME NEW k \in Links, NEW m \in Ends(k), NEW g \in Feeds, Fresh(k, m, g)'
             PROVE  InOrder(k, m, g)'
  BY DEF FirstComesFirst, InOrder
<1>7. m \in Nodes /\ Peer(k, m) \in Nodes
  BY Endpoints
<1>8. Fresh(k, m, g) /\ rows[m][g] = << >>
  BY <1>3 DEF Fresh
<1>9. InOrder(k, m, g)
  BY <1>8 DEF FirstComesFirst, InOrder
<1>10. /\ Ordered(wire[k][m], g) => Ordered(w[k][m], g)
       /\ Has(wire[k][m], g) => Has(w[k][m], g)
       /\ Modest(wire[k][Peer(k, m)], g) => Modest(w[k][Peer(k, m)], g)
  BY <1>2, <1>4, <1>5, <1>6, <1>7, TailKeeps
<1>11. /\ Ordered(w[k][m], g) => Ordered(wire'[k][m], g)
       /\ Has(w[k][m], g) => Has(wire'[k][m], g)
       /\ Modest(w[k][Peer(k, m)], g) => Modest(wire'[k][Peer(k, m)], g)
  <2>1. Asked(n, mine) /\ Sends(w, wire', l, Peer(l, n), Frontier(mine))
    BY <1>2
  <2>2. rows[m][g] = << >>
    BY <1>8
  <2> QED
    BY <2>1, <2>2, FrontierSent
<1>12. ASSUME NEW s \in streams'[k][Peer(k, m)][g], s.next > 1 PROVE Has(wire'[k][m], g)
  <2>1. CASE k # l \/ Peer(k, m) # n
    <3>1. streams'[k][Peer(k, m)] = streams[k][Peer(k, m)]
      BY <1>2, <1>7, <2>1
    <3> QED
      BY <3>1, <1>9, <1>10, <1>11, <1>12 DEF InOrder
  <2>2. CASE k = l /\ Peer(k, m) = n
    <3>1. CASE \E r \in streams[l][n][g] : s.next = r.next
      BY <3>1, <2>2, <1>9, <1>10, <1>11, <1>12 DEF InOrder
    <3>2. CASE g \in DOMAIN notes /\ (notes[g] <= 0 => s.next = 1)
      <4>1. Modest(wire[l][n], g)
        BY <1>9, <2>2 DEF InOrder
      <4>2. Head(wire[l][n]).kind = "frontier" /\ Head(wire[l][n]).notes = notes
        BY <1>2 DEF Frontier
      <4>3. Head(wire[l][n]) = wire[l][n][1] /\ 1 \in 1..Len(wire[l][n])
        BY <1>2, <1>5
      <4>4. notes[g] <= 0
        BY <3>2, <4>1, <4>2, <4>3 DEF Modest
      <4> QED
        BY <3>2, <4>4, <1>12
    <3> QED
      BY <3>1, <3>2, <2>2, <1>2, <1>12
  <2> QED
    BY <2>1, <2>2
<1> QED
  BY <1>9, <1>10, <1>11, <1>12 DEF InOrder

\* A message that is read from a connection is one of a feed that the node has or takes.
LEMMA FirstOnMessage ==
    ASSUME Parameters, ShapeInv, FirstComesFirst, NEW l \in Links, NEW n \in Ends(l),
           ReadMessage(l, n)
    PROVE  FirstComesFirst'
<1> USE DEF ShapeInv
<1>1. n \in Nodes /\ wire \in Wires
  BY Endpoints DEF SessionsOK
<1>2. PICK f \in Feeds, msg \in Msg :
             /\ wire[l][n] # << >> /\ Head(wire[l][n]) = Content(f, msg)
             /\ handler[l][n] = "read"
             /\ wire' = [wire EXCEPT ![l][n] = Tail(@)]
             /\ \/ rows[n][f] # << >> /\ UNCHANGED << handler, held >>
                \/ /\ handler' = [handler EXCEPT ![l][n] = "append"]
                   /\ held' = [held EXCEPT ![l][n] =
                                  [feed |-> f, seen |-> Len(rows[n][f]), msg |-> msg]]
  BY MessageRead
<1>3. UNCHANGED << rows, link, streams >>
  BY DEF ReadMessage, dbVars
<1>4. /\ wire'[l][n] = Tail(wire[l][n])
      /\ \A k \in Links, m \in Nodes : k # l \/ m # n => wire'[k][m] = wire[k][m]
  BY <1>1, <1>2 DEF Wires
<1>5. wire[l][n] \in Seq(Frame)
  BY <1>1 DEF Wires
<1>6. \/ rows[n][f] # << >> /\ UNCHANGED << handler, held >>
      \/ handler'[l][n] = "append" /\ held'[l][n].feed = f
  BY <1>1, <1>2 DEF SessionsOK
<1>7. \A k \in Links, m \in Nodes : k # l \/ m # n =>
         handler'[k][m] = handler[k][m] /\ held'[k][m] = held[k][m]
  BY <1>1, <1>2 DEF SessionsOK
<1> SUFFICES ASSUME NEW k \in Links, NEW m \in Ends(k), NEW g \in Feeds, Fresh(k, m, g)'
             PROVE  InOrder(k, m, g)'
  BY DEF FirstComesFirst, InOrder
<1>8. m \in Nodes /\ Peer(k, m) \in Nodes
  BY Endpoints
<1>9. Fresh(k, m, g) /\ (k # l \/ m # n \/ g # f)
  BY <1>2, <1>3, <1>6, <1>7, <1>8 DEF Fresh
<1>10. InOrder(k, m, g)
  BY <1>9 DEF FirstComesFirst, InOrder
<1>11. g # f => ~ IsMsg(Head(wire[l][n]), g)
  BY <1>2 DEF Content, IsMsg
<1>12. Ordered(wire[k][m], g) => Ordered(wire'[k][m], g)
  BY <1>2, <1>4, <1>5, <1>8, <1>9, <1>11, TailKeeps
<1>13. Has(wire[k][m], g) => Has(wire'[k][m], g)
  BY <1>2, <1>4, <1>5, <1>8, <1>9, <1>11, TailKeeps
<1>14. Modest(wire[k][Peer(k, m)], g) => Modest(wire'[k][Peer(k, m)], g)
  BY <1>2, <1>4, <1>5, <1>8, TailKeeps
<1> QED
  BY <1>3, <1>10, <1>12, <1>13, <1>14 DEF InOrder

\* A stream that is not at the first row has another message before it.
LEMMA FirstOnStream ==
    ASSUME Parameters, ShapeInv, RowsBehind, FirstComesFirst, NEW l \in Links, NEW n \in Ends(l),
           NEW f \in Feeds, StreamSend(l, n, f)
    PROVE  FirstComesFirst'
<1> USE DEF ShapeInv
<1>1. n \in Nodes /\ Peer(l, n) \in Nodes /\ wire \in Wires
  BY Endpoints DEF SessionsOK
<1>2. PICK s \in streams[l][n][f], msg \in Msg :
             /\ s \in Stream /\ s.next \in 1..Len(rows[n][f]) /\ msg = rows[n][f][s.next]
             /\ Sends(wire, wire', l, Peer(l, n), Content(f, msg))
             /\ link[l] = "up" => wire'[l][Peer(l, n)] = Append(wire[l][Peer(l, n)], Content(f, msg))
             /\ \A k \in Links, m \in Nodes, g \in Feeds :
                   k # l \/ m # n \/ g # f => streams'[k][m][g] = streams[k][m][g]
  BY StreamSent
<1>3. UNCHANGED << rows, link, handler, held >>
  BY DEF StreamSend, dbVars
<1>4. PICK x \in Frame : /\ x = Content(f, msg) /\ IsMsg(x, f) /\ x.msg = msg /\ x.kind = "message"
                         /\ \A g \in Feeds : g # f => ~ IsMsg(x, g)
  BY FramesOK DEF Content, IsMsg
<1>5. s.next > 1 \/ msg.seq <= 1
  <2>1. Len(rows[n][f]) \in Nat
    BY <1>1 DEF DataOK
  <2>2. s.next = 1 => rows[n][f][1].seq <= 1
    BY <1>1, <1>2, <2>1 DEF RowsBehind
  <2> QED
    BY <1>2, <2>1, <2>2
<1> SUFFICES ASSUME NEW k \in Links, NEW m \in Ends(k), NEW g \in Feeds, Fresh(k, m, g)'
             PROVE  InOrder(k, m, g)'
  BY DEF FirstComesFirst, InOrder
<1>6. /\ m \in Nodes /\ Peer(k, m) \in Nodes
      /\ k = l /\ m = Peer(l, n) => Peer(k, m) = n
      /\ k = l /\ Peer(k, m) = n => m = Peer(l, n)
  BY Endpoints
<1>7. Fresh(k, m, g)
  BY <1>3 DEF Fresh
<1>8. InOrder(k, m, g)
  BY <1>7 DEF FirstComesFirst, InOrder
<1>9. /\ wire[k][m] \in Seq(Frame) /\ wire[k][Peer(k, m)] \in Seq(Frame)
      /\ wire'[k][m] = wire[k][m] \/ wire'[k][m] = Append(wire[k][m], x)
      /\ \/ wire'[k][Peer(k, m)] = wire[k][Peer(k, m)]
         \/ wire'[k][Peer(k, m)] = Append(wire[k][Peer(k, m)], x)
  BY <1>1, <1>2, <1>4, <1>6 DEF Sends, Wires
<1>10. Modest(wire'[k][Peer(k, m)], g)
  BY <1>4, <1>8, <1>9, AppendModest DEF InOrder
<1>11. CASE k = l /\ m = Peer(l, n) /\ g = f
  <2>1. wire'[k][m] = Append(wire[k][m], x)
    BY <1>2, <1>4, <1>7, <1>11 DEF Fresh
  <2>2. s.next > 1 => Has(wire[k][m], g)
    BY <1>2, <1>6, <1>8, <1>11 DEF InOrder
  <2>3. IsMsg(x, g) /\ x.msg.seq > 1 => Has(wire[k][m], g)
    <3>1. msg.seq \in Nat
      BY DEF Msg, Count
    <3> QED
      BY <3>1, <2>2, <1>4, <1>5
  <2>4. Ordered(wire[k][m], g)
    BY <1>8 DEF InOrder
  <2>5. Ordered(wire'[k][m], g)
    BY <2>1, <2>3, <2>4, <1>9, AppendOrdered
  <2>6. Has(wire'[k][m], g)
    BY <2>1, <1>4, <1>9, <1>11, AppendHas
  <2> QED
    BY <2>5, <2>6, <1>10 DEF InOrder
<1>12. CASE ~ (k = l /\ m = Peer(l, n) /\ g = f)
  <2>1. streams'[k][Peer(k, m)][g] = streams[k][Peer(k, m)][g]
    BY <1>2, <1>6, <1>12
  <2>2. Ordered(wire'[k][m], g)
    <3>1. wire'[k][m] = wire[k][m] \/ (wire'[k][m] = Append(wire[k][m], x) /\ k = l /\ m = Peer(l, n))
      BY <1>2, <1>4, <1>6 DEF Sends
    <3>2. Ordered(wire[k][m], g)
      BY <1>8 DEF InOrder
    <3> QED
      BY <3>1, <3>2, <1>4, <1>9, <1>12, AppendOrdered
  <2>3. Has(wire[k][m], g) => Has(wire'[k][m], g)
    BY <1>9, AppendHas
  <2> QED
    BY <2>1, <2>2, <2>3, <1>8, <1>10 DEF InOrder
<1> QED
  BY <1>11, <1>12

\* The other steps neither send nor read; a log that is empty was empty before, and the
\* message that was to be its first is not lost without anyone knowing.
LEMMA FirstOtherwise ==
    ASSUME Parameters, ShapeInv, FirstComesFirst, NextCases,
           \A k \in Links : \A m \in Ends(k) : \A g \in Feeds : Fresh(k, m, g)' =>
               \/ InOrder(k, m, g)'
               \/ /\ Fresh(k, m, g)
                  /\ wire'[k][m] = wire[k][m] /\ wire'[k][Peer(k, m)] = wire[k][Peer(k, m)]
                  /\ \A t \in streams'[k][Peer(k, m)][g] :
                        \E s \in streams[k][Peer(k, m)][g] : t.next = s.next
    PROVE  FirstComesFirst'
<1> SUFFICES ASSUME NEW k \in Links, NEW m \in Ends(k), NEW g \in Feeds, Fresh(k, m, g)'
             PROVE  InOrder(k, m, g)'
  BY DEF FirstComesFirst, InOrder
<1>1. Fresh(k, m, g) => InOrder(k, m, g)
  BY DEF FirstComesFirst, InOrder
<1>2. CASE /\ Fresh(k, m, g)
           /\ wire'[k][m] = wire[k][m] /\ wire'[k][Peer(k, m)] = wire[k][Peer(k, m)]
           /\ \A t \in streams'[k][Peer(k, m)][g] :
                 \E s \in streams[k][Peer(k, m)][g] : t.next = s.next
  BY <1>1, <1>2 DEF InOrder
<1> QED
  BY <1>2

\* Connections that come and go leave no first message behind.
LEMMA FirstOnLinks ==
    ASSUME Parameters, ShapeInv, FirstComesFirst, NextCases,
           \/ \E n \in Nodes : Restart(n)
           \/ \E l \in Links : Connect(l) \/ Disconnect(l) \/ Ended(l)
    PROVE  FirstComesFirst'
<1> USE DEF ShapeInv
<1>e. \A k \in Links : \A m \in Ends(k) : m \in Nodes /\ Peer(k, m) \in Nodes
  BY Endpoints
<1>1. ASSUME NEW n \in Nodes, Restart(n) PROVE FirstComesFirst'
  <2>1. ASSUME NEW k \in Links, NEW m \in Ends(k), NEW g \in Feeds, Fresh(k, m, g)'
        PROVE  /\ Fresh(k, m, g)
               /\ wire'[k] = wire[k] /\ streams'[k] = streams[k]
    <3>1. link'[k] = "up" /\ rows'[m][g] = << >>
      BY <2>1 DEF Fresh
    <3>2. n \notin Ends(k) /\ link[k] = "up"
      BY <1>1, <3>1 DEF Restart
    <3>3. m # n /\ m \in Nodes
      BY <3>2, <1>e
    <3>4. wire'[k] = wire[k] /\ streams'[k] = streams[k] /\ UNCHANGED rows
      BY <1>1, <3>2 DEF Restart, dbVars
    <3>5. handler'[k][m] = handler[k][m] /\ held'[k][m] = held[k][m]
      BY <1>1, <3>3 DEF Restart, SessionsOK
    <3> QED
      BY <2>1, <3>2, <3>4, <3>5 DEF Fresh
  <2> QED
    BY <2>1, FirstOtherwise
<1>2. ASSUME NEW l \in Links, Connect(l) PROVE FirstComesFirst'
  <2>1. link[l] = "idle"
    BY <1>2 DEF Connect, LinksOK, DataOK, Parameters, Links
  <2>2. UNCHANGED << rows, wire, streams, held >>
    BY <1>2 DEF Connect, dbVars
  <2>3. ASSUME NEW m \in Ends(l), NEW g \in Feeds PROVE InOrder(l, m, g)'
    <3>1. wire'[l][m] = << >> /\ wire'[l][Peer(l, m)] = << >> /\ streams'[l][Peer(l, m)][g] = {}
      BY <2>1, <2>2, <1>e DEF LinksOK
    <3>2. Ordered(<< >>, g) /\ Modest(<< >>, g)
      BY DEF Ordered, Modest
    <3> QED
      BY <3>1, <3>2 DEF InOrder
  <2>4. ASSUME NEW k \in Links, k # l, NEW m \in Ends(k), NEW g \in Feeds, Fresh(k, m, g)'
        PROVE  Fresh(k, m, g)
    <3>1. link'[k] = link[k] /\ handler'[k] = handler[k]
      BY <1>2, <2>4 DEF Connect, SessionsOK
    <3> QED
      BY <3>1, <2>2, <2>4 DEF Fresh
  <2> QED
    BY <2>2, <2>3, <2>4, FirstOtherwise
<1>3. ASSUME NEW l \in Links, Disconnect(l) PROVE FirstComesFirst'
  <2>1. /\ link'[l] = "down" /\ UNCHANGED << rows, handler, held >>
        /\ \A k \in Links : k # l =>
              link'[k] = link[k] /\ wire'[k] = wire[k] /\ streams'[k] = streams[k]
    BY <1>3 DEF Disconnect, SessionsOK, Wires, dbVars
  <2>2. ASSUME NEW k \in Links, NEW m \in Ends(k), NEW g \in Feeds, Fresh(k, m, g)'
        PROVE  Fresh(k, m, g) /\ k # l
    BY <2>1, <2>2 DEF Fresh
  <2> QED
    BY <2>1, <2>2, FirstOtherwise
<1>4. ASSUME NEW l \in Links, Ended(l) PROVE FirstComesFirst'
  <2>1. link[l] = "down" /\ UNCHANGED << rows, link, wire, held >> /\ Acceptor(l) \in Nodes
    BY <1>4 DEF Ended, dbVars, Parameters
  <2>2. handler' = [handler EXCEPT ![l][Acceptor(l)] = "ended"]
    BY <1>4 DEF Ended
  <2>3. \A k \in Links : k # l => handler'[k] = handler[k]
    BY <2>1, <2>2 DEF SessionsOK
  <2>4. \A k \in Links, n \in Nodes, f \in Feeds :
           streams'[k][n][f] = {} \/ streams'[k][n][f] = streams[k][n][f]
    BY <1>4, <2>1 DEF Ended, SessionsOK
  <2>5. ASSUME NEW k \in Links, NEW m \in Ends(k), NEW g \in Feeds, Fresh(k, m, g)'
        PROVE  /\ Fresh(k, m, g)
               /\ \A t \in streams'[k][Peer(k, m)][g] :
                     \E s \in streams[k][Peer(k, m)][g] : t.next = s.next
    <3>1. k # l /\ Fresh(k, m, g)
      BY <2>1, <2>3, <2>5 DEF Fresh
    <3> QED
      BY <3>1, <2>4, <1>e
  <2> QED
    BY <2>1, <2>5, FirstOtherwise
<1> QED
  BY <1>1, <1>2, <1>3, <1>4

\* The steps of a session that write nothing to the wire, or one message.
LEMMA FirstOnAppends ==
    ASSUME Parameters, ShapeInv, FirstComesFirst, NextCases, ~ blind',
           NEW l \in Links, NEW n \in Ends(l),
           \/ AppendFeedLog(l, n) \/ AppendReceiveLog(l, n) \/ AppendFails(l, n)
           \/ \E f \in Feeds : StreamMisses(l, n, f) \/ StreamRecheck(l, n, f)
    PROVE  FirstComesFirst'
<1> USE DEF ShapeInv
<1>e. n \in Nodes /\ \A k \in Links : \A m \in Ends(k) : m \in Nodes /\ Peer(k, m) \in Nodes
  BY Endpoints
<1>g. \A m \in Nodes, g \in Feeds : rows'[m][g] = << >> => rows[m][g] = << >>
  BY RowsGrow
<1>1. CASE AppendFeedLog(l, n) \/ AppendReceiveLog(l, n) \/ AppendFails(l, n)
  <2>1. UNCHANGED << link, wire, streams >>
    BY <1>1 DEF AppendFeedLog, AppendReceiveLog, AppendFails
  <2>2. \A k \in Links, m \in Nodes : k # l \/ m # n =>
           handler'[k][m] = handler[k][m] /\ held'[k][m] = held[k][m]
    <3>1. CASE AppendFeedLog(l, n)
      BY <3>1, <1>e DEF AppendFeedLog, SessionsOK
    <3>2. CASE AppendReceiveLog(l, n)
      BY <3>2, <1>e DEF AppendReceiveLog, SessionsOK
    <3>3. CASE AppendFails(l, n)
      BY <3>3, <1>e DEF AppendFails, SessionsOK
    <3> QED
      BY <1>1, <3>1, <3>2, <3>3
  <2>3. ASSUME NEW g \in Feeds, Fresh(l, n, g)' PROVE Fresh(l, n, g)
    <3>1. link[l] = "up" /\ rows[n][g] = << >> /\ rows'[n][g] = << >>
      BY <1>e, <1>g, <2>1, <2>3 DEF Fresh
    <3>2. CASE AppendFeedLog(l, n)
      <4>1. PICK f \in Feeds, msg \in Msg : f = held[l][n].feed /\ msg = held[l][n].msg
        BY <3>2, <1>e DEF AppendFeedLog, SessionsOK, Held
      <4>2. rows' = [rows EXCEPT ![n][f] = Append(@, msg)]
        BY <3>2, <4>1 DEF AppendFeedLog, AppendRow
      <4>3. rows'[n][f] = Append(rows[n][f], msg) /\ rows[n][f] \in Seq(Msg)
        BY <1>e, <4>2 DEF DataOK
      <4>4. rows'[n][f] # << >>
        BY <4>3
      <4> QED
        BY <3>1, <4>1, <4>4 DEF Fresh
    <3>3. CASE AppendReceiveLog(l, n)
      BY <3>1, <3>3 DEF AppendReceiveLog, Fresh
    <3>4. CASE AppendFails(l, n)
      <4>1. rows[n][held[l][n].feed] # << >>
        BY <3>4, Zenon DEF AppendFails
      <4> QED
        BY <3>1, <4>1 DEF Fresh
    <3> QED
      BY <1>1, <3>2, <3>3, <3>4
  <2>4. ASSUME NEW k \in Links, NEW m \in Ends(k), NEW g \in Feeds, Fresh(k, m, g)'
        PROVE  Fresh(k, m, g)
    <3>1. CASE k = l /\ m = n
      BY <2>3, <2>4, <3>1
    <3>2. CASE k # l \/ m # n
      BY <1>e, <1>g, <2>1, <2>2, <2>4, <3>2 DEF Fresh
    <3> QED
      BY <3>1, <3>2
  <2> QED
    BY <2>1, <2>4, FirstOtherwise
<1>2. ASSUME NEW f \in Feeds, StreamMisses(l, n, f) \/ StreamRecheck(l, n, f)
      PROVE  FirstComesFirst'
  <2>1. UNCHANGED << rows, wire, link, handler, held >>
    BY <1>2 DEF StreamMisses, StreamRecheck, dbVars
  <2>2. \A k \in Links, m \in Nodes, g \in Feeds : \A t \in streams'[k][m][g] :
              \E s \in streams[k][m][g] : t.next = s.next
    BY <1>2, StreamWaits
  <2>3. ASSUME NEW k \in Links, NEW m \in Ends(k), NEW g \in Feeds, Fresh(k, m, g)'
        PROVE  Fresh(k, m, g)
    BY <2>1, <2>3 DEF Fresh
  <2> QED
    BY <1>e, <2>1, <2>2, <2>3, FirstOtherwise
<1> QED
  BY <1>1, <1>2

\* The first message of a feed that a node has nothing of stays message 1.
LEMMA FirstStays ==
    ASSUME Parameters, ShapeInv, NextCases, RowsBehind, NotesBehind, FirstComesFirst, ~ blind'
    PROVE  FirstComesFirst'
<1>1. ASSUME UNCHANGED << link, wire, streams, handler, held >> PROVE FirstComesFirst'
  <2>1. ASSUME NEW k \in Links, NEW m \in Ends(k), NEW g \in Feeds, Fresh(k, m, g)'
        PROVE  Fresh(k, m, g)
    <3>1. m \in Nodes
      BY Endpoints
    <3>2. rows'[m][g] = << >> => rows[m][g] = << >>
      BY <3>1, RowsGrow
    <3> QED
      BY <1>1, <2>1, <3>2 DEF Fresh
  <2> QED
    BY <1>1, <2>1, FirstOtherwise
<1>2. ASSUME NEW p \in Publishers,
             (\E f \in Feeds : PublishSign(p, f)) \/ PublishAppend(p) \/ PublishStore(p) \/ PublishFails(p)
      PROVE  FirstComesFirst'
  BY <1>1, <1>2 DEF PublishSign, PublishAppend, PublishStore, PublishFails, sessionVars
<1>3. ASSUME NEW n \in Nodes, (\E f \in Feeds : ReplicateRead(n, f)) \/ ReplicateSet(n)
      PROVE  FirstComesFirst'
  BY <1>1, <1>3 DEF ReplicateRead, ReplicateSet, sessionVars
<1> QED
  BY <1>2, <1>3, FirstOnLinks, FirstOnAppends, FirstOnSend, FirstOnFrontier, FirstOnMessage,
     FirstOnStream DEF NextCases

-----------------------------------------------------------------------------
\* The invariant behind both properties.
LEMMA InitNote == Parameters /\ Init => NoteInv
<1> SUFFICES ASSUME Parameters, Init PROVE NoteInv
  OBVIOUS
<1>1. ShapeInv
  BY InitShape
<1>2. RowsBehind /\ NotesBehind
  BY DEF Init, RowsBehind, NotesBehind, NoNote
<1>3. PublishBehind /\ HeldBehind /\ CallsBehind
  BY DEF Init, PublishBehind, HeldBehind, CallsBehind
<1>4. FirstComesFirst
  BY DEF Init, FirstComesFirst, Fresh
<1> QED
  BY <1>1, <1>2, <1>3, <1>4 DEF NoteInv, BehindInv

\* Every step keeps the notes behind the logs.
LEMMA NextNote == Parameters /\ NoteInv /\ [Next]_vars => NoteInv'
<1> SUFFICES ASSUME Parameters, NoteInv, [Next]_vars PROVE NoteInv'
  OBVIOUS
<1>1. ShapeInv /\ ShapeInv'
  BY NextShape DEF NoteInv
<1>2. CASE UNCHANGED vars
  <2>1. ASSUME BehindInv PROVE BehindInv'
    BY <1>2, <2>1 DEF vars, BehindInv, RowsBehind, NotesBehind, PublishBehind, HeldBehind, CallsBehind,
           FirstComesFirst, Fresh
  <2>2. UNCHANGED blind
    BY <1>2 DEF vars
  <2> QED
    BY <1>1, <2>1, <2>2 DEF NoteInv
<1>3. CASE Next
  <2>1. NextCases
    BY <1>3, NextIsCases
  <2> SUFFICES ASSUME ~ blind' PROVE BehindInv'
    BY <1>1 DEF NoteInv
  <2>2. ~ blind
    BY <2>1, BlindStays
  <2>3. RowsBehind /\ NotesBehind /\ PublishBehind /\ HeldBehind /\ CallsBehind /\ FirstComesFirst
    BY <2>2 DEF NoteInv, BehindInv
  <2> QED
    BY <1>1, <2>1, <2>3, RowsStayBehind, NotesStayBehind, PublishStaysBehind, HeldStaysBehind,
       CallsStayBehind, FirstStays DEF BehindInv
<1> QED
  BY <1>2, <1>3

\* As long as no append failed on an empty log, a node never announces more of a feed than
\* its log holds, whichever of Publish, Replicate, the handlers and a restart wrote the
\* note, and however long ago each had read the log.
THEOREM AnnouncesWhatItHas ==
    ASSUME Parameters
    PROVE  Spec => []NoteNeverAhead
<1>1. NoteInv => NoteNeverAhead
  BY DEF NoteInv, BehindInv, NotesBehind, NoteNeverAhead
<1>2. Init => NoteInv
  BY InitNote
<1>3. NoteInv /\ [Next]_vars => NoteInv'
  BY NextNote
<1> QED
  BY <1>1, <1>2, <1>3, PTL DEF Spec

-----------------------------------------------------------------------------
(* Replicas are prefixes                                                     *)

\* raced is never taken back.
LEMMA RacedStays ==
    ASSUME NextCases, ~ raced'
    PROVE  ~ raced
<1>1. ASSUME NEW p \in Publishers,
             (\E f \in Feeds : PublishSign(p, f)) \/ PublishStore(p) \/ PublishFails(p)
      PROVE  UNCHANGED raced
  BY <1>1 DEF PublishSign, PublishStore, PublishFails
<1>2. ASSUME NEW p \in Publishers, PublishAppend(p) PROVE ~ raced
  BY <1>2, Zenon DEF PublishAppend
<1>3. ASSUME NEW n \in Nodes, (\E f \in Feeds : ReplicateRead(n, f)) \/ ReplicateSet(n) \/ Restart(n)
      PROVE  UNCHANGED raced
  BY <1>3 DEF ReplicateRead, ReplicateSet, Restart
<1>4. ASSUME NEW l \in Links, Connect(l) \/ Disconnect(l) \/ Ended(l) PROVE UNCHANGED raced
  BY <1>4 DEF Connect, Disconnect, Ended
<1>5. ASSUME NEW l \in Links, NEW n \in Ends(l), AppendFeedLog(l, n) PROVE ~ raced
  BY <1>5, Zenon DEF AppendFeedLog
<1>6. ASSUME NEW l \in Links, NEW n \in Ends(l),
             \/ Started(l, n) \/ LoopUpdate(l, n) \/ ReadFrontier(l, n) \/ ReadMessage(l, n)
             \/ AppendReceiveLog(l, n) \/ AppendFails(l, n)
             \/ \E f \in Feeds : \/ StreamSend(l, n, f) \/ StreamMisses(l, n, f)
                                 \/ StreamRecheck(l, n, f)
      PROVE  UNCHANGED raced
  BY <1>6 DEF Started, LoopUpdate, ReadFrontier, ReadMessage, AppendReceiveLog, AppendFails,
              StreamSend, StreamMisses, StreamRecheck
<1> QED
  BY <1>1, <1>2, <1>3, <1>4, <1>5, <1>6, Zenon DEF NextCases

\* A row of the author stays one.
LEMMA OfAuthorStays ==
    ASSUME Parameters, ShapeInv, NextCases, NEW f \in Feeds, NEW msg \in Msg, OfAuthor(f, msg)
    PROVE  OfAuthor(f, msg)'
<1>1. PICK n \in Nodes : n = Author(f)
  BY DEF Parameters
<1>2. msg.seq \in Nat /\ msg.seq # 0 /\ Len(rows[n][f]) \in Nat /\ Len(rows'[n][f]) \in Nat
  BY RowsGrow DEF Msg, Count
<1>3. msg.seq \in 1..Len(rows[n][f]) /\ msg = rows[n][f][msg.seq]
  BY <1>1, <1>2 DEF OfAuthor
<1>4. Len(rows[n][f]) <= Len(rows'[n][f]) /\ rows'[n][f][msg.seq] = rows[n][f][msg.seq]
  BY <1>3, RowsGrow
<1> QED
  BY <1>1, <1>2, <1>3, <1>4 DEF OfAuthor

\* An append that does not run on a stale Seq puts a message into its own row.
LEMMA RowsOfAuthorStay ==
    ASSUME Parameters, ShapeInv, NextCases, PublishBehind, HeldBehind,
           RowsOfAuthor, HeldOfAuthor, ~ raced'
    PROVE  RowsOfAuthor'
<1> SUFFICES ASSUME NEW n \in Nodes, NEW f \in Feeds, NEW i \in 1..Len(rows'[n][f]),
                    NEW msg, msg = rows'[n][f][i]
             PROVE  msg.seq = i /\ OfAuthor(f, msg)'
  BY DEF RowsOfAuthor
<1>1. rows[n][f] \in Seq(Msg) /\ DOMAIN rows = Nodes /\ \A m \in Nodes : DOMAIN rows[m] = Feeds
  BY DEF ShapeInv, DataOK
<1>2. CASE i \in 1..Len(rows[n][f])
  <2>1. msg = rows[n][f][i] /\ msg \in Msg
    BY <1>1, <1>2, RowsGrow
  <2>2. msg.seq = i /\ OfAuthor(f, msg)
    BY <1>2, <2>1 DEF RowsOfAuthor
  <2> QED
    BY <2>1, <2>2, OfAuthorStays
<1>3. CASE i \notin 1..Len(rows[n][f])
  <2>1. rows' # rows
    BY <1>3
  <2>2. PICK m \in Nodes, g \in Feeds, new \in Msg : RowWritten(m, g, new)
    BY <2>1, RowsWritten
  <2>3. rows' = [rows EXCEPT ![m][g] = Append(@, new)]
    BY <2>2 DEF RowWritten
  <2>4. m = n /\ g = f
    BY <1>1, <1>3, <2>3
  <2>5. rows'[n][f] = Append(rows[n][f], new)
    BY <1>1, <2>3, <2>4
  <2>6. i = Len(rows[n][f]) + 1 /\ msg = new /\ Len(rows'[n][f]) = i
    BY <1>1, <1>3, <2>5
  <2>7. ASSUME NEW p \in Publishers, PublishAppend(p), pub[p] \in PublishCall, n = Author(f),
               pub[p].feed = f, pub[p].msg = new
        PROVE  msg.seq = i /\ OfAuthor(f, msg)'
    <3>1. Len(rows[n][f]) = pub[p].seen
      BY <2>7, Zenon DEF PublishAppend
    <3>2. pub[p] # Idle
      BY <2>7 DEF Idle, PublishCall
    <3>3. new.seq = pub[p].seen + 1
      BY <2>7, <3>2 DEF PublishBehind
    <3>4. msg.seq = i
      BY <2>6, <3>1, <3>3
    <3>5. msg.seq <= Len(rows'[n][f])
      BY <1>1, <2>6, <3>4
    <3> QED
      BY <2>6, <2>7, <3>4, <3>5 DEF OfAuthor
  <2>8. ASSUME NEW l \in Links, n \in Ends(l), AppendFeedLog(l, n), held[l][n] \in Held,
               handler[l][n] = "append", held[l][n].feed = f, held[l][n].msg = new
        PROVE  msg.seq = i /\ OfAuthor(f, msg)'
    <3>1. Len(rows[n][f]) = held[l][n].seen
      BY <2>8, Zenon DEF AppendFeedLog
    <3>2. new.seq = held[l][n].seen + 1
      BY <2>8 DEF HeldBehind
    <3>3. msg.seq = i
      BY <2>6, <3>1, <3>2
    <3>4. OfAuthor(f, new)
      BY <2>8 DEF HeldOfAuthor
    <3> QED
      BY <2>6, <3>3, <3>4, OfAuthorStays
  <2> QED
    BY <2>2, <2>4, <2>7, <2>8 DEF RowWritten
<1> QED
  BY <1>2, <1>3

\* What a stream writes is a row, and what a handler takes was on its connection.
LEMMA WireOfAuthorStays ==
    ASSUME Parameters, ShapeInv, NextCases, RowsOfAuthor, WireOfAuthor
    PROVE  WireOfAuthor'
<1> USE DEF ShapeInv
<1> DEFINE Old(k, m, i) == /\ i \in 1..Len(wire'[k][m])
                           /\ \E j \in 1..Len(wire[k][m]) : wire'[k][m][i] = wire[k][m][j]
           Good(k, m, i) == wire[k][m][i].kind = "message" =>
                               OfAuthor(wire[k][m][i].feed, wire[k][m][i].msg)
<1>e. \A l \in Links : \A n \in Ends(l) : n \in Nodes /\ Peer(l, n) \in Nodes
  BY Endpoints
<1>w. wire \in Wires
  BY DEF SessionsOK
<1>1. ASSUME NEW k \in Links, NEW m \in Nodes, NEW i \in Nat, Old(k, m, i) PROVE Good(k, m, i)'
  <2>1. PICK j \in 1..Len(wire[k][m]) : wire'[k][m][i] = wire[k][m][j]
    BY <1>1
  <2>2. PICK x \in Frame : x = wire[k][m][j] /\ x = wire'[k][m][i]
    BY <1>w, <2>1 DEF Wires
  <2>3. x.kind = "message" => x.feed \in Feeds /\ x.msg \in Msg
    BY DEF Frame
  <2>4. x.kind = "message" => OfAuthor(x.feed, x.msg)
    BY <2>2 DEF WireOfAuthor
  <2>5. x.kind = "message" => OfAuthor(x.feed, x.msg)'
    BY <2>3, <2>4, OfAuthorStays
  <2> QED
    BY <2>2, <2>5
<1>2. (\A k \in Links, m \in Nodes : \A i \in 1..Len(wire'[k][m]) : Good(k, m, i)') => WireOfAuthor'
  BY DEF WireOfAuthor
<1>3. ASSUME NEW w \in Wires, NEW l \in Links, NEW to \in Nodes, NEW x \in Frame,
             Sends(w, wire', l, to, x), x.kind = "message" => OfAuthor(x.feed, x.msg)',
             \A k \in Links, m \in Nodes : \A i \in 1..Len(w[k][m]) :
                 \E j \in 1..Len(wire[k][m]) : w[k][m][i] = wire[k][m][j]
      PROVE  WireOfAuthor'
  <2>0. \A k \in Links, m \in Nodes : \A i \in 1..Len(w[k][m]) :
            \E j \in 1..Len(wire[k][m]) : w[k][m][i] = wire[k][m][j]
    BY <1>3
  <2>1. ASSUME NEW k \in Links, NEW m \in Nodes, NEW i \in 1..Len(wire'[k][m]) PROVE Good(k, m, i)'
    <3>1. w[k][m] \in Seq(Frame)
      BY DEF Wires
    <3>2. wire'[k][m] = w[k][m] \/ wire'[k][m] = Append(w[k][m], x)
      BY <1>3 DEF Sends
    <3>3. (i \in 1..Len(w[k][m]) /\ wire'[k][m][i] = w[k][m][i]) \/ wire'[k][m][i] = x
      BY <3>1, <3>2
    <3>4. CASE i \in 1..Len(w[k][m]) /\ wire'[k][m][i] = w[k][m][i]
      <4>1. PICK j \in 1..Len(wire[k][m]) : w[k][m][i] = wire[k][m][j]
        BY <2>0, <3>4
      <4>2. Old(k, m, i)
        BY <3>4, <4>1
      <4>3. i \in Nat
        OBVIOUS
      <4> HIDE DEF Old, Good
      <4> QED
        BY <4>2, <4>3, <1>1
    <3>5. CASE wire'[k][m][i] = x
      BY <1>3, <3>5
    <3> QED
      BY <3>3, <3>4, <3>5
  <2> QED
    BY <1>2, <2>1
<1>4. \A k \in Links, m \in Nodes : \A i \in 1..Len(wire[k][m]) :
         \E j \in 1..Len(wire[k][m]) : wire[k][m][i] = wire[k][m][j]
  OBVIOUS
<1>5. ASSUME \A k \in Links, m \in Nodes : wire'[k][m] = wire[k][m] \/ wire'[k][m] = << >>
      PROVE  WireOfAuthor'
  <2>1. ASSUME NEW k \in Links, NEW m \in Nodes, NEW i \in 1..Len(wire'[k][m]) PROVE Good(k, m, i)'
    <3>1. wire'[k][m] = wire[k][m] /\ Len(wire[k][m]) \in Nat
      BY <1>5, <1>w DEF Wires
    <3>2. Old(k, m, i)
      BY <3>1
    <3> QED
      BY <3>1, <3>2, <1>1
  <2> QED
    BY <1>2, <2>1
<1> HIDE DEF Good, Old
<1>6. ASSUME NEW l \in Links, NEW n \in Ends(l), Started(l, n) PROVE WireOfAuthor'
  <2>1. PICK mine \in WireNotes : mine = State(n)
    BY <1>e, StateAsked DEF Asked
  <2>2. PICK x \in Frame : x = Frontier(mine) /\ x.kind = "frontier"
    BY FramesOK DEF Frontier
  <2>3. Sends(wire, wire', l, Peer(l, n), x)
    BY <1>6, <1>e, <1>w, <2>1, <2>2, QueueSends DEF Started
  <2> QED
    BY <1>3, <1>4, <1>e, <1>w, <2>2, <2>3
<1>7. ASSUME NEW l \in Links, NEW n \in Ends(l), LoopUpdate(l, n) PROVE WireOfAuthor'
  <2>1. PICK mine \in WireNotes : mine = Changed(n, Peer(l, n), theirs[n][Peer(l, n)])
    BY <1>e, ChangedAsked DEF Asked
  <2>2. PICK x \in Frame : x = Frontier(mine) /\ x.kind = "frontier"
    BY FramesOK DEF Frontier
  <2>3. Sends(wire, wire', l, Peer(l, n), x)
    BY <1>7, <1>w, <2>1, <2>2, WantsSend DEF LoopUpdate
  <2> QED
    BY <1>3, <1>4, <1>e, <1>w, <2>2, <2>3
<1>8. ASSUME NEW l \in Links, NEW n \in Ends(l), ReadFrontier(l, n) PROVE WireOfAuthor'
  <2>1. PICK w \in Wires, mine \in WireNotes :
             /\ wire[l][n] # << >> /\ w = [wire EXCEPT ![l][n] = Tail(@)]
             /\ Sends(w, wire', l, Peer(l, n), Frontier(mine))
    BY <1>8, FrontierRead
  <2>2. PICK x \in Frame : x = Frontier(mine) /\ x.kind = "frontier"
    BY FramesOK DEF Frontier
  <2>3. \A k \in Links, m \in Nodes : \A i \in 1..Len(w[k][m]) :
           \E j \in 1..Len(wire[k][m]) : w[k][m][i] = wire[k][m][j]
    <3> SUFFICES ASSUME NEW k \in Links, NEW m \in Nodes, NEW i \in 1..Len(w[k][m])
                 PROVE  \E j \in 1..Len(wire[k][m]) : w[k][m][i] = wire[k][m][j]
      OBVIOUS
    <3>1. w[k][m] = wire[k][m] \/ (w[k][m] = Tail(wire[k][m]) /\ wire[k][m] # << >>)
      BY <1>e, <1>w, <2>1 DEF Wires
    <3>2. wire[k][m] \in Seq(Frame)
      BY <1>w DEF Wires
    <3>3. CASE w[k][m] = Tail(wire[k][m]) /\ wire[k][m] # << >>
      <4>1. i + 1 \in 1..Len(wire[k][m]) /\ w[k][m][i] = wire[k][m][i + 1]
        BY <3>2, <3>3
      <4> QED
        BY <4>1
    <3> QED
      BY <3>1, <3>3
  <2> QED
    BY <1>3, <1>e, <2>1, <2>2, <2>3
<1>9. ASSUME NEW l \in Links, NEW n \in Ends(l), ReadMessage(l, n) PROVE WireOfAuthor'
  <2>1. wire[l][n] # << >> /\ wire' = [wire EXCEPT ![l][n] = Tail(@)]
    BY <1>9 DEF ReadMessage
  <2>2. ASSUME NEW k \in Links, NEW m \in Nodes, NEW i \in 1..Len(wire'[k][m]) PROVE Good(k, m, i)'
    <3>1. wire'[k][m] = wire[k][m] \/ (wire'[k][m] = Tail(wire[k][m]) /\ wire[k][m] # << >>)
      BY <1>e, <1>w, <2>1 DEF Wires
    <3>2. wire[k][m] \in Seq(Frame)
      BY <1>w DEF Wires
    <3>3. i \in Nat /\ \E j \in 1..Len(wire[k][m]) : wire'[k][m][i] = wire[k][m][j]
      <4>1. CASE wire'[k][m] = Tail(wire[k][m]) /\ wire[k][m] # << >>
        <5>1. i + 1 \in 1..Len(wire[k][m]) /\ wire'[k][m][i] = wire[k][m][i + 1] /\ i \in Nat
          BY <3>2, <4>1
        <5> QED
          BY <5>1
      <4>2. CASE wire'[k][m] = wire[k][m]
        BY <3>2, <4>2
      <4> QED
        BY <3>1, <4>1, <4>2
    <3>4. Old(k, m, i)
      BY <3>3 DEF Old
    <3> QED
      BY <3>3, <3>4, <1>1
  <2> QED
    BY <1>2, <2>2
<1>10. ASSUME NEW l \in Links, NEW n \in Ends(l), NEW f \in Feeds, StreamSend(l, n, f)
       PROVE  WireOfAuthor'
  <2>1. PICK s \in streams[l][n][f], msg \in Msg :
             /\ s.next \in 1..Len(rows[n][f]) /\ msg = rows[n][f][s.next]
             /\ Sends(wire, wire', l, Peer(l, n), Content(f, msg))
    BY <1>10, StreamSent
  <2>2. OfAuthor(f, msg)
    BY <1>e, <2>1 DEF RowsOfAuthor
  <2>3. OfAuthor(f, msg)'
    BY <2>2, OfAuthorStays
  <2>4. PICK x \in Frame : x = Content(f, msg) /\ x.feed = f /\ x.msg = msg
    BY FramesOK DEF Content
  <2> QED
    BY <1>3, <1>4, <1>e, <1>w, <2>1, <2>3, <2>4
<1>11. ASSUME NEW n \in Nodes, Restart(n) PROVE WireOfAuthor'
  <2>1. \A k \in Links, m \in Nodes : wire'[k][m] = wire[k][m] \/ wire'[k][m] = << >>
    BY <1>11, <1>w DEF Restart, Wires
  <2> QED
    BY <1>5, <2>1
<1>12. ASSUME NEW l \in Links, Disconnect(l) PROVE WireOfAuthor'
  <2>1. \A k \in Links, m \in Nodes : wire'[k][m] = wire[k][m] \/ wire'[k][m] = << >>
    BY <1>12, <1>w DEF Disconnect, Wires
  <2> QED
    BY <1>5, <2>1
<1>13. UNCHANGED wire => WireOfAuthor'
  BY <1>5
<1>14. ASSUME NEW p \in Publishers,
             (\E f \in Feeds : PublishSign(p, f)) \/ PublishAppend(p) \/ PublishStore(p) \/ PublishFails(p)
      PROVE  WireOfAuthor'
  BY <1>13, <1>14 DEF PublishSign, PublishAppend, PublishStore, PublishFails, sessionVars
<1>15. ASSUME NEW n \in Nodes, (\E f \in Feeds : ReplicateRead(n, f)) \/ ReplicateSet(n)
      PROVE  WireOfAuthor'
  BY <1>13, <1>15 DEF ReplicateRead, ReplicateSet, sessionVars
<1>16. ASSUME NEW l \in Links, Connect(l) \/ Ended(l) PROVE WireOfAuthor'
  BY <1>13, <1>16 DEF Connect, Ended
<1>17. ASSUME NEW l \in Links, NEW n \in Ends(l),
             \/ AppendFeedLog(l, n) \/ AppendReceiveLog(l, n) \/ AppendFails(l, n)
             \/ \E f \in Feeds : StreamMisses(l, n, f) \/ StreamRecheck(l, n, f)
      PROVE  WireOfAuthor'
  BY <1>13, <1>17 DEF AppendFeedLog, AppendReceiveLog, AppendFails, StreamMisses, StreamRecheck
<1> QED
  BY <1>6, <1>7, <1>8, <1>9, <1>10, <1>11, <1>12, <1>14, <1>15, <1>16, <1>17 DEF NextCases

\* What a session is about to append was signed by the author.
LEMMA HeldOfAuthorStays ==
    ASSUME Parameters, ShapeInv, NextCases, WireOfAuthor, HeldOfAuthor
    PROVE  HeldOfAuthor'
<1> USE DEF ShapeInv
<1>e. \A l \in Links : \A n \in Ends(l) : n \in Nodes
  BY Endpoints
<1>1. /\ handler \in [Links -> [Nodes -> {"none", "new", "read", "append", "store", "ended"}]]
      /\ held \in [Links -> [Nodes -> {NoMessage} \cup Held]]
  BY DEF SessionsOK
<1> DEFINE Same(k, m) == handler'[k][m] = handler[k][m] /\ held'[k][m] = held[k][m]
           Out(k, m) == handler'[k][m] # "append"
           Good(k, m) == handler[k][m] = "append" => OfAuthor(held[k][m].feed, held[k][m].msg)
<1>2. ASSUME NEW k \in Links, NEW m \in Nodes, Same(k, m) \/ Out(k, m) PROVE Good(k, m)'
  <2> SUFFICES ASSUME handler'[k][m] = "append" PROVE Good(k, m)'
    OBVIOUS
  <2>1. PICK h \in Held : h = held[k][m] /\ h = held'[k][m]
    BY <1>2 DEF SessionsOK
  <2>2. h.feed \in Feeds /\ h.msg \in Msg
    BY DEF Held
  <2>3. OfAuthor(h.feed, h.msg)
    BY <1>2, <2>1 DEF HeldOfAuthor
  <2>4. OfAuthor(h.feed, h.msg)'
    BY <2>2, <2>3, OfAuthorStays
  <2> QED
    BY <2>1, <2>4
<1>3. (\A k \in Links, m \in Nodes : Good(k, m)') => HeldOfAuthor'
  BY DEF HeldOfAuthor
<1>4. (\A k \in Links, m \in Nodes : Same(k, m) \/ Out(k, m)) => HeldOfAuthor'
  BY <1>2, <1>3
<1>5. ASSUME NEW l \in Links, NEW n \in Ends(l), ReadMessage(l, n) PROVE HeldOfAuthor'
  <2>1. PICK f \in Feeds, msg \in Msg :
             /\ wire[l][n] # << >> /\ Head(wire[l][n]) = Content(f, msg)
             /\ \/ UNCHANGED << handler, held >>
                \/ /\ handler' = [handler EXCEPT ![l][n] = "append"]
                   /\ held' = [held EXCEPT ![l][n] =
                                  [feed |-> f, seen |-> Len(rows[n][f]), msg |-> msg]]
    BY <1>5, MessageRead
  <2>2. CASE UNCHANGED << handler, held >>
    <3>1. \A k \in Links, m \in Nodes : Same(k, m)
      BY <2>2
    <3> HIDE DEF Same, Out
    <3> QED
      BY <3>1, <1>4
  <2>3. CASE /\ handler' = [handler EXCEPT ![l][n] = "append"]
             /\ held' = [held EXCEPT ![l][n] = [feed |-> f, seen |-> Len(rows[n][f]), msg |-> msg]]
    <3>1. \A k \in Links, m \in Nodes : k # l \/ m # n => Same(k, m)
      BY <1>1, <1>e, <2>3
    <3>2. wire[l][n] \in Seq(Frame)
      BY <1>e DEF SessionsOK, Wires
    <3>3. 1 \in 1..Len(wire[l][n]) /\ wire[l][n][1] = Content(f, msg)
      BY <2>1, <3>2
    <3>4. OfAuthor(f, msg)
      BY <1>e, <3>3 DEF WireOfAuthor, Content
    <3>5. OfAuthor(f, msg)'
      BY <3>4, OfAuthorStays
    <3>6. held'[l][n].feed = f /\ held'[l][n].msg = msg
      BY <1>1, <1>e, <2>3
    <3>7. Good(l, n)'
      BY <3>5, <3>6
    <3> HIDE DEF Same, Out, Good
    <3> QED
      BY <1>2, <1>3, <3>1, <3>7
  <2> QED
    BY <2>1, <2>2, <2>3
<1>6. ASSUME NEW l \in Links, NEW n \in Ends(l),
             Started(l, n) \/ AppendFeedLog(l, n) \/ AppendReceiveLog(l, n) \/ AppendFails(l, n)
      PROVE  HeldOfAuthor'
  <2>1. Out(l, n)
    BY <1>1, <1>6, <1>e DEF Started, AppendFeedLog, AppendReceiveLog, AppendFails
  <2>2. \A k \in Links, m \in Nodes : k # l \/ m # n => Same(k, m)
    BY <1>1, <1>6, <1>e DEF Started, AppendFeedLog, AppendReceiveLog, AppendFails
  <2> HIDE DEF Same, Out
  <2> QED
    BY <1>4, <2>1, <2>2
<1>7. ASSUME NEW l \in Links, Connect(l) PROVE HeldOfAuthor'
  <2>1. \A m \in Nodes : Out(l, m)
    BY <1>1, <1>7 DEF Connect
  <2>2. \A k \in Links, m \in Nodes : k # l => Same(k, m)
    BY <1>1, <1>7 DEF Connect
  <2> HIDE DEF Same, Out
  <2> QED
    BY <1>4, <2>1, <2>2
<1>8. ASSUME NEW l \in Links, Ended(l) PROVE HeldOfAuthor'
  <2>1. Acceptor(l) \in Nodes
    BY DEF Parameters
  <2>2. handler' = [handler EXCEPT ![l][Acceptor(l)] = "ended"] /\ UNCHANGED held
    BY <1>8 DEF Ended
  <2>3. \A k \in Links, m \in Nodes : Same(k, m) \/ Out(k, m)
    BY <1>1, <2>1, <2>2
  <2> HIDE DEF Same, Out
  <2> QED
    BY <1>4, <2>3
<1>9. ASSUME NEW n \in Nodes, Restart(n) PROVE HeldOfAuthor'
  <2>1. ASSUME NEW k \in Links, NEW m \in Nodes PROVE Same(k, m) \/ Out(k, m)
    <3>1. CASE m # n
      BY <1>1, <1>9, <3>1 DEF Restart
    <3>2. CASE m = n
      <4>1. handler'[k][n] = IF link[k] # "idle" /\ n \in Ends(k) THEN "ended" ELSE handler[k][n]
        BY <1>1, <1>9 DEF Restart
      <4>2. n \notin Ends(k) \/ link[k] = "idle" => handler[k][n] = "none"
        BY DEF LinksOK
      <4> QED
        BY <3>2, <4>1, <4>2
    <3> QED
      BY <3>1, <3>2
  <2> HIDE DEF Same, Out
  <2> QED
    BY <1>4, <2>1
<1>10. UNCHANGED << handler, held >> => HeldOfAuthor'
  <2>1. UNCHANGED << handler, held >> => \A k \in Links, m \in Nodes : Same(k, m)
    OBVIOUS
  <2> HIDE DEF Same, Out
  <2> QED
    BY <1>4, <2>1
<1> HIDE DEF Same, Out, Good
<1>11. ASSUME NEW p \in Publishers,
             (\E f \in Feeds : PublishSign(p, f)) \/ PublishAppend(p) \/ PublishStore(p) \/ PublishFails(p)
      PROVE  HeldOfAuthor'
  BY <1>10, <1>11 DEF PublishSign, PublishAppend, PublishStore, PublishFails, sessionVars
<1>12. ASSUME NEW n \in Nodes, (\E f \in Feeds : ReplicateRead(n, f)) \/ ReplicateSet(n)
       PROVE  HeldOfAuthor'
  BY <1>10, <1>12 DEF ReplicateRead, ReplicateSet, sessionVars
<1>13. ASSUME NEW l \in Links, Disconnect(l) PROVE HeldOfAuthor'
  BY <1>10, <1>13 DEF Disconnect
<1>14. ASSUME NEW l \in Links, NEW n \in Ends(l),
             \/ LoopUpdate(l, n) \/ ReadFrontier(l, n)
             \/ \E f \in Feeds : \/ StreamSend(l, n, f) \/ StreamMisses(l, n, f)
                                 \/ StreamRecheck(l, n, f)
      PROVE  HeldOfAuthor'
  BY <1>10, <1>14 DEF LoopUpdate, ReadFrontier, StreamSend, StreamMisses, StreamRecheck
<1> QED
  BY <1>5, <1>6, <1>7, <1>8, <1>9, <1>11, <1>12, <1>13, <1>14 DEF NextCases

\* Empty logs are prefixes.
LEMMA InitPrefix == Parameters /\ Init => PrefixInv
<1> SUFFICES ASSUME Parameters, Init PROVE PrefixInv
  OBVIOUS
<1>1. NoteInv
  BY InitNote
<1>2. RowsOfAuthor /\ WireOfAuthor /\ HeldOfAuthor
  BY DEF Init, RowsOfAuthor, WireOfAuthor, HeldOfAuthor
<1> QED
  BY <1>1, <1>2 DEF PrefixInv

\* Every step keeps replicas prefixes.
LEMMA NextPrefix == Parameters /\ PrefixInv /\ [Next]_vars => PrefixInv'
<1> SUFFICES ASSUME Parameters, PrefixInv, [Next]_vars PROVE PrefixInv'
  OBVIOUS
<1>1. NoteInv /\ NoteInv'
  BY NextNote DEF PrefixInv
<1>2. CASE UNCHANGED vars
  <2>1. RowsOfAuthor => RowsOfAuthor'
    BY <1>2 DEF vars, RowsOfAuthor, OfAuthor
  <2>2. WireOfAuthor => WireOfAuthor'
    BY <1>2 DEF vars, WireOfAuthor, OfAuthor
  <2>3. HeldOfAuthor => HeldOfAuthor'
    BY <1>2 DEF vars, HeldOfAuthor, OfAuthor
  <2>4. UNCHANGED << raced, blind >>
    BY <1>2 DEF vars
  <2> QED
    BY <1>1, <2>1, <2>2, <2>3, <2>4 DEF PrefixInv
<1>3. CASE Next
  <2>1. NextCases
    BY <1>3, NextIsCases
  <2> SUFFICES ASSUME ~ raced', ~ blind' PROVE RowsOfAuthor' /\ WireOfAuthor' /\ HeldOfAuthor'
    BY <1>1 DEF PrefixInv
  <2>2. ~ raced /\ ~ blind
    BY <2>1, BlindStays, RacedStays
  <2>3. RowsOfAuthor /\ WireOfAuthor /\ HeldOfAuthor /\ PublishBehind /\ HeldBehind /\ ShapeInv
    BY <2>2, <1>1 DEF PrefixInv, NoteInv, BehindInv
  <2> QED
    BY <2>1, <2>3, RowsOfAuthorStay, WireOfAuthorStays, HeldOfAuthorStays
<1> QED
  BY <1>2, <1>3

\* The invariant gives the property.
LEMMA PrefixImplies == Parameters /\ PrefixInv => ReplicasArePrefixes
<1> SUFFICES ASSUME Parameters, PrefixInv, ~ raced, ~ blind, NEW n \in Nodes, NEW f \in Feeds
             PROVE  /\ Len(rows[n][f]) <= Len(rows[Author(f)][f])
                    /\ \A i \in 1..Len(rows[n][f]) : /\ rows[n][f][i].seq = i
                                                     /\ rows[n][f][i] = rows[Author(f)][f][i]
  BY DEF ReplicasArePrefixes
<1>1. RowsOfAuthor
  BY DEF PrefixInv
<1>2. Len(rows[n][f]) \in Nat /\ Len(rows[Author(f)][f]) \in Nat
  BY DEF PrefixInv, NoteInv, ShapeInv, DataOK, Parameters
<1>3. \A i \in 1..Len(rows[n][f]) : /\ rows[n][f][i].seq = i
                                    /\ rows[n][f][i] = rows[Author(f)][f][i]
                                    /\ i <= Len(rows[Author(f)][f])
  BY <1>1 DEF RowsOfAuthor, OfAuthor
<1>4. Len(rows[n][f]) <= Len(rows[Author(f)][f])
  BY <1>2, <1>3
<1> QED
  BY <1>3, <1>4

\* As long as no append ran on a stale Seq and none failed on an empty log, every replica
\* is a prefix of the author's feed, for any number of connections, streams that serve the
\* same messages twice, publishers and restarts.
THEOREM ReplicasFollowAuthor ==
    ASSUME Parameters
    PROVE  Spec => []ReplicasArePrefixes
<1>1. PrefixInv => ReplicasArePrefixes
  BY PrefixImplies
<1>2. Init => PrefixInv
  BY InitPrefix
<1>3. PrefixInv /\ [Next]_vars => PrefixInv'
  BY NextPrefix
<1> QED
  BY <1>1, <1>2, <1>3, PTL DEF Spec
=============================================================================
