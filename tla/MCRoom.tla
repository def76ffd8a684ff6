------------------------------- MODULE MCRoom -------------------------------
(***************************************************************************)
(* The embedded room and the process that holds it: a behaviour is one of   *)
(* the room's connections and presence streams, one of the requests on its  *)
(* database, or one of the bridge process that starts and stops it.         *)
(***************************************************************************)
EXTENDS Lifecycle, Sequences, TLC

CONSTANTS Identities, RoomFeed, Conns, ChanCap, Names, Workers, MaxRequests, MaxOrders

VARIABLES
    part,
    mode, members, denied, conn, call, attendants, peers, registry, rows, stream, orders,
    overlapped, guests, late,
    memberRows, invites, aliases, tokens, passwords, lastId, req, requests, answered

Presence == INSTANCE Room WITH Feeds <- Identities, Bridge <- RoomFeed
Database == INSTANCE RoomMembers WITH Feeds <- Identities, members <- memberRows

presenceVars == << members, conn, call, attendants, peers, registry, rows, stream,
                   overlapped, guests, late >>
databaseVars == << memberRows, invites, aliases, tokens, passwords, lastId, req, requests, answered >>
sharedVars == << mode, denied, orders >>

\* The parts that are not chosen stay in one of their initial states.
RoomInit ==
    /\ Init /\ Presence!Init /\ Database!Init
    /\ \/ part = "presence" /\ memberRows = {}
       \/ part = "database" /\ members = {}
       \/ part = "process" /\ memberRows = {} /\ members = {} /\ mode = "open"

RoomNext ==
    \/ part = "presence" /\ Presence!Next /\ UNCHANGED << part, databaseVars, vars >>
    \/ part = "database" /\ Database!Next /\ UNCHANGED << part, presenceVars, vars >>
    \/ part = "process" /\ Next /\ UNCHANGED << part, sharedVars, presenceVars, databaseVars >>

RoomSpec ==
    RoomInit /\ [][RoomNext]_<< part, sharedVars, presenceVars, databaseVars, vars >>

\* The workers of the database requests are alike.
WorkerSymmetry == Permutations(Workers)

\* ShutdownInOrder is that of Lifecycle.  The properties of the room, stated in its two
\* modules: a client that has read its stream shows what the room has,
StreamsCatchUp == Presence!StreamsCatchUp
\* presence follows the connections,
PresenceFollows == Presence!PresenceFollows
\* and whatever requests overlap, a spent invite is refused, an open room can always make
\* one, and invalidated sign-ins stay invalid.
CredentialsHold == Database!InviteSpent /\ Database!CreatorEnsured /\ Database!SolutionsInvalidated
=============================================================================
