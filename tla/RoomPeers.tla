------------------------------ MODULE RoomPeers ------------------------------
(***************************************************************************)
(* The bridged accounts as peers of the room                                *)
(* (cmd/bridge-cli/bridged_room_peers.go): a reconcile loop keeps a session *)
(* per active account, a session keeps a connection to the room on which    *)
(* the account is announced, and leaves when it is stopped.                 *)
(***************************************************************************)
EXTENDS Integers, FiniteSets

CONSTANTS
    Accounts,
    MaxChanges,   \* bound: accounts switched on or off
    MaxLosses     \* bound: connections lost, statements and calls failed

VARIABLES
    enabled,      \* active accounts of the table
    member,       \* feeds that are members of the room
    sessions,     \* BridgedRoomPeerManager.sessions
    manager,      \* "new", "started", "stopping", "stopped"
    loop,         \* the reconcile loop: where it is and the accounts it read
    run,          \* run[a]: the session's goroutine
    cancelled,    \* sessions whose context is cancelled
    announced,    \* accounts the room has as attendants
    changes, losses

peerVars == << enabled, member, sessions, manager, loop, run, cancelled, announced, changes, losses >>
Idle == [at |-> "idle", active |-> {}, todo |-> {}]

Init ==
    /\ enabled \in SUBSET Accounts /\ member = {} /\ sessions = {} /\ manager = "new"
    /\ loop = [Idle EXCEPT !.at = "none"]
    /\ run = [a \in Accounts |-> "none"] /\ cancelled = {} /\ announced = {}
    /\ changes = 0 /\ losses = 0

Loss == losses < MaxLosses /\ losses' = losses + 1

\* The operator adds, activates or deactivates an account.
SetActive(a) ==
    /\ changes < MaxChanges /\ changes' = changes + 1
    /\ enabled' = IF a \in enabled THEN enabled \ {a} ELSE enabled \cup {a}
    /\ UNCHANGED << member, sessions, manager, loop, run, cancelled, announced, losses >>

-----------------------------------------------------------------------------
(* Start, Stop                                                               *)

Start ==
    /\ manager = "new"
    /\ manager' = "started" /\ loop' = Idle
    /\ UNCHANGED << enabled, member, sessions, run, cancelled, announced, changes, losses >>

\* Stop takes the sessions out of the table and cancels all of them at once.
Stop ==
    /\ manager = "started"
    /\ manager' = "stopping"
    /\ sessions' = {} /\ cancelled' = { a \in Accounts : run[a] # "none" }
    /\ UNCHANGED << enabled, member, loop, run, announced, changes, losses >>

\* The loop sees the cancelled context when it is idle.
LoopEnds ==
    /\ manager = "stopping" /\ loop.at = "idle"
    /\ loop' = [Idle EXCEPT !.at = "none"]
    /\ UNCHANGED << enabled, member, sessions, manager, run, cancelled, announced, changes, losses >>

\* It waits for the sessions and for the loop.
Stopped ==
    /\ manager = "stopping" /\ loop.at = "none" /\ \A a \in Accounts : run[a] = "none"
    /\ manager' = "stopped"
    /\ UNCHANGED << enabled, member, sessions, loop, run, cancelled, announced, changes, losses >>

-----------------------------------------------------------------------------
(* Reconcile                                                                 *)

\* GetAllBridgedAccounts, or its failure, which ends the round.
ListAccounts ==
    /\ loop.at = "idle" /\ manager # "new"
    /\ loop' = [at |-> "ensure", active |-> enabled, todo |-> enabled]
    /\ UNCHANGED << enabled, member, sessions, manager, run, cancelled, announced, changes, losses >>

\* ensureRoomMember may fail and the account is left out; ensureSession starts no
\* second session and none once the manager is stopped.
EnsureSession(a) ==
    /\ loop.at = "ensure" /\ a \in loop.todo
    /\ loop' = [loop EXCEPT !.todo = @ \ {a}]
    /\ \/ /\ member' = member \cup {a}
          /\ IF manager = "started" /\ a \notin sessions
             THEN /\ sessions' = sessions \cup {a}
                  /\ run' = [run EXCEPT ![a] = "connecting"]
             ELSE UNCHANGED << sessions, run >>
          /\ UNCHANGED losses
       \/ Loss /\ UNCHANGED << member, sessions, run >>
    /\ UNCHANGED << enabled, manager, cancelled, announced, changes >>

\* The round forgets the sessions of other accounts.
StaleNone ==
    /\ loop.at = "ensure" /\ loop.todo = {}
    /\ loop' = Idle
    /\ UNCHANGED << enabled, member, sessions, manager, run, cancelled, announced, changes, losses >>

\* The sessions that are not of this round's accounts are listed.
ListStale ==
    /\ loop.at = "ensure" /\ loop.todo = {}
    /\ loop' = [at |-> "stop", active |-> loop.active, todo |-> sessions \ loop.active]
    /\ UNCHANGED << enabled, member, sessions, manager, run, cancelled, announced, changes, losses >>

\* stopSession takes one out of the table, cancels it
StopSession(a) ==
    /\ loop.at = "stop" /\ a \in loop.todo
    /\ IF a \in sessions
       THEN /\ sessions' = sessions \ {a} /\ cancelled' = cancelled \cup {a}
            /\ loop' = [loop EXCEPT !.at = "wait", !.todo = @ \ {a}, !.active = {a}]
       ELSE /\ loop' = [loop EXCEPT !.todo = @ \ {a}]
            /\ UNCHANGED << sessions, cancelled >>
    /\ UNCHANGED << enabled, member, manager, run, announced, changes, losses >>

\* and waits until it is done.
WaitSession ==
    /\ loop.at = "wait" /\ \A a \in loop.active : run[a] = "none"
    /\ loop' = [loop EXCEPT !.at = "stop"]
    /\ UNCHANGED << enabled, member, sessions, manager, run, cancelled, announced, changes, losses >>

RoundEnds ==
    /\ loop.at = "stop" /\ loop.todo = {}
    /\ loop' = Idle
    /\ UNCHANGED << enabled, member, sessions, manager, run, cancelled, announced, changes, losses >>

-----------------------------------------------------------------------------
(* runSession                                                                *)

\* The context is looked at before a connection and in every wait.
SessionEnds(a) ==
    /\ a \in cancelled /\ run[a] = "connecting"
    /\ run' = [run EXCEPT ![a] = "none"] /\ cancelled' = cancelled \ {a}
    /\ UNCHANGED << enabled, member, sessions, manager, loop, announced, changes, losses >>

\* Connect and announceRoomPeer; both may fail and are tried again.
Announce(a) ==
    /\ run[a] = "connecting" /\ a \notin cancelled
    /\ run' = [run EXCEPT ![a] = "connected"] /\ announced' = announced \cup {a}
    /\ UNCHANGED << enabled, member, sessions, manager, loop, cancelled, changes, losses >>

\* The connection is lost, or the announcement of the ticker fails and the session
\* closes it: the room takes the account off its list.
ConnectionLost(a) ==
    /\ run[a] = "connected" /\ Loss
    /\ run' = [run EXCEPT ![a] = "connecting"] /\ announced' = announced \ {a}
    /\ UNCHANGED << enabled, member, sessions, manager, loop, cancelled, changes >>

\* The context is cancelled while connected: leaveRoomPeer, and the connection closed.
Leave(a) ==
    /\ run[a] = "connected" /\ a \in cancelled
    /\ run' = [run EXCEPT ![a] = "none"] /\ cancelled' = cancelled \ {a}
    /\ announced' = announced \ {a}
    /\ UNCHANGED << enabled, member, sessions, manager, loop, changes, losses >>

-----------------------------------------------------------------------------
Reconcile ==
    \/ ListAccounts \/ ListStale \/ WaitSession \/ RoundEnds \/ LoopEnds
    \/ \E a \in Accounts : EnsureSession(a) \/ StopSession(a)
SessionStep(a) == SessionEnds(a) \/ Announce(a) \/ Leave(a)

PeerNext ==
    \/ Start \/ Stop \/ Stopped \/ Reconcile
    \/ \E a \in Accounts : SetActive(a) \/ SessionStep(a) \/ ConnectionLost(a)

\* The ticker of the loop ticks and its round runs to the end; a session that can
\* connect does, as failures are bounded.
PeerFairness ==
    /\ WF_peerVars(Start) /\ WF_peerVars(Reconcile) /\ WF_peerVars(Stopped)
    /\ \A a \in Accounts : WF_peerVars(SessionStep(a))

PeerSpec == Init /\ [][PeerNext]_peerVars /\ PeerFairness

-----------------------------------------------------------------------------
(* Properties                                                                *)

\* The room shows the bridged accounts that are active, and in the end no other: an
\* account that stays active while the manager runs is announced, again after every
\* lost connection, and one that stays inactive, or outlives the manager, is taken
\* off (Reconcile starts and stops sessions, runSession reconnects and leaves).
RoomFollowsAccounts ==
    \A a \in Accounts :
        /\ <>[](a \in enabled /\ manager = "started") => <>[](a \in announced)
        /\ <>[](a \notin enabled \/ manager = "stopped") => <>[](a \notin announced)
=============================================================================
