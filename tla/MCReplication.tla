---------------------------- MODULE MCReplication ---------------------------
(***************************************************************************)
(* Staying connected and staying in step: a behaviour is one of a feed that *)
(* a publishes and d, which dials a over every link, replicates, one of the *)
(* peers an sbot knows and keeps connections to, or one of the sessions     *)
(* that the bridge keeps in the room for its accounts.                      *)
(***************************************************************************)
EXTENDS Replication

CONSTANTS Addrs, Callers, MaxRestarts, MaxLosses, Accounts, MaxChanges

VARIABLES
    part,
    running, peers, known, dialing, conns, calling, callers, losses, restarts,
    enabled, member, sessions, manager, reconciling, run, cancelled, attendants, changes, broken

MCAuthor(f) == "a"
MCDialler(l) == "d"
MCAcceptor(l) == "a"

Known == INSTANCE Gossip WITH table <- callers
Peers == INSTANCE RoomPeers WITH announced <- attendants, loop <- reconciling, losses <- broken

gossipVars == << running, peers, known, dialing, conns, calling, callers, losses, restarts >>
peerVars == << enabled, member, sessions, manager, reconciling, run, cancelled, attendants, changes, broken >>

\* The parts that are not chosen stay in one of their initial states.
NetInit ==
    /\ Init /\ Known!Init /\ Peers!Init
    /\ part \in {"feed", "gossip", "peers"}
    /\ part # "gossip" => known = {}
    /\ part # "peers" => enabled = {}

NetNext ==
    \/ part = "feed" /\ Next /\ UNCHANGED << part, gossipVars, peerVars >>
    \/ part = "gossip" /\ Known!Next /\ UNCHANGED << part, vars, peerVars >>
    \/ part = "peers" /\ Peers!PeerNext /\ UNCHANGED << part, vars, gossipVars >>

NetSpec ==
    /\ NetInit /\ [][NetNext]_<< part, vars, gossipVars, peerVars >>
    /\ \/ part = "feed" /\ Fairness
       \/ part = "gossip" /\ Known!Fairness
       \/ part = "peers" /\ Peers!PeerFairness

\* ReplicasArePrefixes, NoteNeverAhead and OneLinkSyncs are those of Replication.  The
\* properties of the other parts, stated in their modules: a peer that is known is
\* connected,
KnownIsConnected == Known!KnownIsConnected
\* and the room shows the accounts that are active.
RoomFollowsAccounts == Peers!RoomFollowsAccounts
=============================================================================
