------------------------------- MODULE Gossip -------------------------------
(***************************************************************************)
(* Who the sbot is connected to: the gossip manager that dials the known    *)
(* peers (internal/ssb/gossip/gossip.go), the discovery that makes peers    *)
(* known (internal/ssb/discovery/udp.go) and the server's table of the      *)
(* peers that called in (internal/ssb/network/network.go).  Pings only      *)
(* measure and log, and are left out.                                       *)
(***************************************************************************)
EXTENDS Integers, FiniteSets

CONSTANTS
    Addrs,       \* addresses of peers
    Callers,     \* connections of one peer that call in
    MaxLosses,   \* bound: connections that are lost
    MaxRestarts  \* bound

VARIABLES
    running,     \* Run has loaded the peers
    peers,       \* Manager.peers: addresses
    known,       \* the same in the database
    dialing,     \* dialing[a]: a goroutine of reconnect is in Connect
    conns,       \* Manager.conns: "none", or the connection, "up" or "closed"
    calling,     \* calling[c]: "new", "up" or "done"
    table,       \* Server.peers, by the peer's identity: the connection or "none"
    losses, restarts

managerVars == << running, peers, known, dialing, conns >>
serverVars == << calling, table >>
vars == << managerVars, serverVars, losses, restarts >>

Init ==
    /\ running = FALSE /\ peers = {} /\ known \in SUBSET Addrs
    /\ dialing = [a \in Addrs |-> FALSE] /\ conns = [a \in Addrs |-> "none"]
    /\ calling = [c \in Callers |-> "new"] /\ table = "none"
    /\ losses = 0 /\ restarts = 0

-----------------------------------------------------------------------------
(* The gossip manager                                                        *)

\* The peers of the database are not loaded.
RunEmpty ==
    /\ ~running
    /\ running' = TRUE
    /\ UNCHANGED << peers, known, dialing, conns, serverVars, losses, restarts >>

\* Run: the known peers are loaded.
Run ==
    /\ ~running
    /\ running' = TRUE
    /\ peers' = peers \cup known
    /\ UNCHANGED << known, dialing, conns, serverVars, losses, restarts >>

\* readLoop of the discovery: a datagram with a good address is given to AddPeer,
\* whose statement may fail.
AddPeer(a) ==
    /\ peers' = peers \cup {a}
    /\ known' \in {known, known \cup {a}}
    /\ UNCHANGED << running, dialing, conns, serverVars, losses, restarts >>

\* reconnect: every known peer that has no entry is dialled.  The clean-up removes the
\* entries without a connection, and Connect makes none.
Reconnect ==
    /\ running
    /\ \E a \in peers : conns[a] = "none" /\ ~dialing[a]
    /\ dialing' = [a \in Addrs |-> dialing[a] \/ (a \in peers /\ conns[a] = "none")]
    /\ UNCHANGED << running, peers, known, conns, serverVars, losses, restarts >>

Connect(a) ==
    /\ dialing[a]
    /\ conns' = [conns EXCEPT ![a] = "up"]
    /\ dialing' = [dialing EXCEPT ![a] = FALSE]
    /\ UNCHANGED << running, peers, known, serverVars, losses, restarts >>

ConnectFails(a) ==
    /\ dialing[a]
    /\ losses < MaxLosses /\ losses' = losses + 1
    /\ dialing' = [dialing EXCEPT ![a] = FALSE]
    /\ UNCHANGED << running, peers, known, conns, serverVars, restarts >>

\* The connection is lost: its session ends, its entry stays.
ConnLost(a) ==
    /\ conns[a] = "up"
    /\ losses < MaxLosses /\ losses' = losses + 1
    /\ conns' = [conns EXCEPT ![a] = "closed"]
    /\ UNCHANGED << running, peers, known, dialing, serverVars, restarts >>

-----------------------------------------------------------------------------
(* handleConn                                                                *)

\* The handshake succeeds and the peer enters the table under its identity.
HandleConn(c) ==
    /\ calling[c] = "new"
    /\ calling' = [calling EXCEPT ![c] = "up"]
    /\ table' = c
    /\ UNCHANGED << managerVars, losses, restarts >>

\* RemovePeer deletes by identity, whichever connection the entry is.
RemovePeer(c) ==
    /\ calling[c] = "up"
    /\ calling' = [calling EXCEPT ![c] = "done"]
    /\ table' = "none"
    /\ UNCHANGED << managerVars, losses, restarts >>

Restart ==
    /\ restarts < MaxRestarts /\ restarts' = restarts + 1
    /\ running' = FALSE /\ peers' = {}
    /\ dialing' = [a \in Addrs |-> FALSE] /\ conns' = [a \in Addrs |-> "none"]
    /\ calling' = [c \in Callers |-> IF calling[c] = "up" THEN "done" ELSE calling[c]]
    /\ table' = "none"
    /\ UNCHANGED << known, losses >>

Next ==
    \/ Run \/ Reconnect \/ Restart
    \/ \E a \in Addrs : AddPeer(a) \/ Connect(a) \/ ConnectFails(a) \/ ConnLost(a)
    \/ \E c \in Callers : HandleConn(c) \/ RemovePeer(c)

\* Run starts, its ticker ticks, and a dial ends: connections that are lost and dials
\* that fail are bounded.
Fairness == WF_vars(Run) /\ WF_vars(Reconnect) /\ \A a \in Addrs : WF_vars(Connect(a))

Spec == Init /\ [][Next]_vars /\ Fairness

\* A peer in the database is connected in the end, whatever dials fail and although the
\* manager forgets its peers in a restart.  It is connected once: an entry of conns is
\* never removed, so a peer whose connection was lost is not dialled again.
KnownIsConnected == \A a \in Addrs : (a \in known) ~> (conns[a] # "none")
=============================================================================
