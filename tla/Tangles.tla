------------------------------- MODULE Tangles -------------------------------
(***************************************************************************)
(* The tangle index of the feed store (tangleStore in internal/ssb/feedlog) *)
(* and the muxrpc calls that read one tangle (handlers/tangle.go), with the *)
(* topological sort of internal/ssb/message/tangle/order.go.                *)
(*                                                                          *)
(* tangle.getMessages reads the tangle twice, for itself and in the sorter, *)
(* and messages may be added in between and under the sort.  Go visits a    *)
(* map in any order and the comparison the sorter gives sort.Slice does not *)
(* look at its elements, so the queue is a set.  A peer chooses the parents *)
(* it names: they may be unknown, or form a circle.                         *)
(***************************************************************************)
EXTENDS Integers, Sequences, FiniteSets

CONSTANTS
    Keys,       \* messages
    MaxAdds     \* bound: messages added

VARIABLES
    rows,       \* tangle_membership, in the order of messages.seq: [key, parents]
    adds,
    call,       \* the call: where it is, msgs (its own read), graph (the sorter's)
    sorted, degree, queue,      \* of the sorter
    sent        \* what was written to the sink

vars == << rows, adds, call, sorted, degree, queue, sent >>

Parents == UNION {[1..n -> Keys] : n \in 0..2}
KeysOf(s) == {s[i].key : i \in DOMAIN s}
NoCall == [at |-> "none", msgs |-> <<>>, graph |-> <<>>]

Init ==
    /\ rows = <<>> /\ adds = 0 /\ call = NoCall
    /\ sorted = <<>> /\ degree = << >> /\ queue = {} /\ sent = <<>>

\* AddMessage replaces the row of a message that is there.
AddMessage(k, parents) ==
    /\ adds < MaxAdds
    /\ adds' = adds + 1
    /\ rows' = IF k \in KeysOf(rows)
               THEN [i \in DOMAIN rows |-> IF rows[i].key = k THEN [rows[i] EXCEPT !.parents = parents]
                                           ELSE rows[i]]
               ELSE Append(rows, [key |-> k, parents |-> parents])
    /\ UNCHANGED << call, sorted, degree, queue, sent >>

\* tangle.getMessages
HandleGetMessages ==
    /\ call.at = "none"
    /\ call' = [call EXCEPT !.at = "read", !.msgs = rows]
    /\ UNCHANGED << rows, adds, sorted, degree, queue, sent >>

\* Sort reads again, and counts the parents that are part of what it read.
RowOf(s, k) == CHOOSE m \in {s[i] : i \in DOMAIN s} : m.key = k
Naming(p, m) == Cardinality({i \in DOMAIN m.parents : m.parents[i] = p})
InDegree(s, k) == Cardinality({i \in DOMAIN RowOf(s, k).parents : RowOf(s, k).parents[i] \in KeysOf(s)})
SortRead ==
    /\ call.at = "read"
    /\ call' = [call EXCEPT !.at = "sort", !.graph = rows]
    /\ degree' = [k \in KeysOf(rows) |-> InDegree(rows, k)]
    /\ queue' = {k \in KeysOf(rows) : InDegree(rows, k) = 0}
    /\ UNCHANGED << rows, adds, sorted, sent >>

\* One message of the queue: its children lose a parent for every time they name it.
SortStep(k) ==
    /\ call.at = "sort" /\ k \in queue
    /\ sorted' = Append(sorted, k)
    /\ degree' = [c \in DOMAIN degree |-> degree[c] - Naming(k, RowOf(call.graph, c))]
    /\ queue' = (queue \ {k}) \cup {c \in DOMAIN degree : degree'[c] = 0 /\ degree[c] > 0}
    /\ UNCHANGED << rows, adds, call, sent >>

\* A circle leaves messages out: then what the call read itself is sent as it is.
Complete(s) == Len(s) = Len(call.graph)
SortDone ==
    /\ call.at = "sort" /\ queue = {}
    /\ sent' = IF Complete(sorted) THEN sorted ELSE [i \in DOMAIN call.msgs |-> call.msgs[i].key]
    /\ call' = [call EXCEPT !.at = "done"]
    /\ UNCHANGED << rows, adds, sorted, degree, queue >>

\* tangle.getBacklinks, tangle.getTips
GetMessagesByParent(k) == {m \in {rows[i] : i \in DOMAIN rows} : Naming(k, m) > 0}
GetTangleTips == {k \in KeysOf(rows) : GetMessagesByParent(k) = {}}

Next ==
    \/ \E k \in Keys, p \in Parents : AddMessage(k, p)
    \/ HandleGetMessages \/ SortRead \/ SortDone
    \/ \E k \in Keys : SortStep(k)

Spec == Init /\ [][Next]_vars

Position(s, k) == CHOOSE i \in DOMAIN s : s[i] = k
\* A message that leads back to itself.
Circular(s) ==
    \E path \in UNION {[1..n -> KeysOf(s)] : n \in 1..Cardinality(KeysOf(s))} :
        \A i \in DOMAIN path :
            Naming(path[i], RowOf(s, path[IF i = Len(path) THEN 1 ELSE i + 1])) > 0

\* What tangle.getMessages writes holds every message that was in the tangle when the
\* call came, none twice; and unless the parents form a circle, a message follows the
\* parents it names.  Such a tangle also has a tip.
TangleInOrder ==
    /\ rows # <<>> /\ ~Circular(rows) => GetTangleTips # {}
    /\ call.at = "done" =>
        /\ KeysOf(call.msgs) \subseteq {sent[i] : i \in DOMAIN sent}
        /\ \A i, j \in DOMAIN sent : sent[i] = sent[j] => i = j
        /\ ~Circular(call.graph) =>
              \A m \in {call.graph[i] : i \in DOMAIN call.graph}, p \in KeysOf(call.graph) :
                  Naming(p, m) > 0 => Position(sent, p) < Position(sent, m.key)
==============================================================================
