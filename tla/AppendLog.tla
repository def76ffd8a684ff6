------------------------------ MODULE AppendLog ------------------------------
(***************************************************************************)
(* What the feed store promises its callers: one append-only log per feed,  *)
(* and a log of what was received, in which a message appears at most as    *)
(* often as in the log of its feed.                                         *)
(***************************************************************************)
EXTENDS Naturals, Sequences, FiniteSets

CONSTANTS Feeds, Messages

VARIABLES logs, received

Count(s, m) == Cardinality({i \in DOMAIN s : s[i] = m})

Init == logs = [f \in Feeds |-> <<>>] /\ received = <<>>

AppendToFeed(m) ==
    /\ logs' = [logs EXCEPT ![m.feed] = Append(@, m)]
    /\ UNCHANGED received

AppendToReceived(m) ==
    /\ Count(received, m) < Count(logs[m.feed], m)
    /\ received' = Append(received, m)
    /\ UNCHANGED logs

Next == \E m \in Messages : AppendToFeed(m) \/ AppendToReceived(m)

Spec == Init /\ [][Next]_<< logs, received >>
==============================================================================
