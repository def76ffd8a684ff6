---------------------------- MODULE RoomMembers -----------------------------
(***************************************************************************)
(* The room's database and the requests that change it: invites, members,   *)
(* aliases, sign-in tokens and passwords (internal/ssb/roomdb/sqlite), as   *)
(* used by the web handlers (internal/room/invite.go, auth.go, ssb_auth.go),*)
(* the muxrpc handlers (handlers/room/room_handler.go, auth.go) and the     *)
(* operator (internal/web/handlers/room_ops.go).                            *)
(*                                                                          *)
(* Every SQL statement is atomic (the pool has one connection) and only     *)
(* RotateToken is a transaction, so the requests interleave between their   *)
(* statements.  A row that refers to a member goes with it (ON DELETE       *)
(* CASCADE), and ids are never reused (AUTOINCREMENT).                      *)
(***************************************************************************)
EXTENDS Integers, FiniteSets

CONSTANTS
    Feeds, RoomFeed,    \* identities, and the room's own
    Names,              \* aliases
    Workers,            \* goroutines that serve requests
    MaxRequests, MaxOrders     \* bounds: requests served, operator actions

Modes == {"open", "community", "restricted"}
Member == 1
Moderator == 2
Admin == 3

VARIABLES
    mode, denied,
    members,     \* rows [id, feed, role]
    invites,     \* rows [id, creator, active]
    aliases,     \* rows [name, member]
    tokens,      \* rows [id, member, line], line being the sign-in it descends from
    passwords,   \* ids of members that have one
    lastId,      \* sqlite_sequence, one for the three tables
    req,         \* req[w]: the request worker w serves
    requests, orders,          \* counters of the bounds
    answered     \* history: invites with a use or a revocation that has been answered

rows == << members, invites, aliases, tokens, passwords, lastId >>
memberVars == << mode, denied, rows, req, requests, orders, answered >>

Idle == [op |-> "none", at |-> "idle", feed |-> RoomFeed, arg |-> 0, id |-> 0,
         stale |-> FALSE, seen |-> {}, bereft |-> FALSE]

Init ==
    /\ mode \in Modes /\ denied = {}
    /\ members \in {{}, {[id |-> 1, feed |-> CHOOSE f \in Feeds : f # RoomFeed, role |-> Moderator]}}
    /\ invites \in {{[id |-> 1, creator |-> m.id, active |-> TRUE] : m \in members}}
    /\ aliases = {} /\ tokens = {}
    /\ passwords = {m.id : m \in members}
    /\ lastId = 1
    /\ req = [w \in Workers |-> Idle]
    /\ requests = 0 /\ orders = 0 /\ answered = {}

\* Members.GetByFeed, Members.GetByID; isInternalMember
GetByFeed(f) == {m \in members : m.feed = f}
GetByID(i) == {m \in members : m.id = i}
IsMember(f) == GetByFeed(f) # {}
HasFeed(f) == f \in denied

-----------------------------------------------------------------------------
(* Steps of a request: each is one statement, and moves the request on.      *)

At(w, op, at) == req[w].op = op /\ req[w].at = at
To(w, at) == req' = [req EXCEPT ![w].at = at]
ToWith(w, at, id) == req' = [req EXCEPT ![w].at = at, ![w].id = id]
Answered(w) == req[w].at \in {"ok", "failed", "refused", "idle"}
Still == UNCHANGED << mode, denied, requests, orders, answered >>
\* A read: the request goes on with the one member it found, or to "otherwise".
Lookup(w, f, found, otherwise) ==
    /\ IF IsMember(f) THEN \E m \in GetByFeed(f) : ToWith(w, found, m.id) ELSE To(w, otherwise)
    /\ UNCHANGED rows /\ Still

\* Members.Add fails when the key is in the table (UNIQUE).
AddMember(w, f, role, added, failed) ==
    /\ IF IsMember(f) THEN To(w, failed) /\ UNCHANGED rows
       ELSE /\ members' = members \cup {[id |-> lastId + 1, feed |-> f, role |-> role]}
            /\ lastId' = lastId + 1
            /\ ToWith(w, added, lastId + 1)
            /\ UNCHANGED << invites, aliases, tokens, passwords >>
    /\ Still

\* A worker takes a request.
Receive(w, op, entry, f, arg) ==
    /\ Answered(w) /\ requests < MaxRequests
    /\ requests' = requests + 1
    /\ req' = [req EXCEPT ![w] = [Idle EXCEPT !.op = op, !.at = entry, !.feed = f, !.arg = arg,
                  !.stale = op = "consume" /\ arg \in answered,
                  !.seen = IF op = "invalidate"
                           THEN {t.line : t \in {u \in tokens : GetByID(u.member) \cap GetByFeed(f) # {}}}
                           ELSE {}]]
    /\ UNCHANGED << mode, denied, rows, orders, answered >>

-----------------------------------------------------------------------------
(* Invites.Consume, behind the check of the denied keys                      *)

\* POST /invite/consume and POST /join
HandleInviteConsume(w) ==
    /\ At(w, "consume", "web")
    /\ To(w, IF HasFeed(req[w].feed) THEN "failed" ELSE "select")
    /\ UNCHANGED rows /\ Still

\* room.join
HandleJoin(w) ==
    /\ At(w, "consume", "muxrpc")
    /\ To(w, IF HasFeed(req[w].feed) THEN "failed" ELSE "select")
    /\ UNCHANGED rows /\ Still

\* Invites.Consume
ConsumeSelectAny(w) ==
    /\ At(w, "consume", "select")
    /\ To(w, IF \E i \in invites : i.id = req[w].arg THEN "member" ELSE "failed")
    /\ UNCHANGED rows /\ Still
ConsumeSelect(w) ==
    /\ At(w, "consume", "select")
    /\ To(w, IF \E i \in invites : i.id = req[w].arg /\ i.active THEN "member" ELSE "failed")
    /\ UNCHANGED rows /\ Still

ConsumeMember(w) ==
    \/ At(w, "consume", "member") /\ Lookup(w, req[w].feed, "spend", "add")
    \/ At(w, "consume", "add") /\ AddMember(w, req[w].feed, Member, "spend", "failed")

\* The invite is spent if it is still there, and whoever used it has role member.
ConsumeSpend(w) ==
    /\ At(w, "consume", "spend")
    /\ invites' = {IF i.id = req[w].arg THEN [i EXCEPT !.active = FALSE] ELSE i : i \in invites}
    /\ To(w, "role")
    /\ UNCHANGED << members, aliases, tokens, passwords, lastId >> /\ Still

ConsumeRole(w) ==
    /\ At(w, "consume", "role")
    /\ members' = {IF m.id = req[w].id THEN [m EXCEPT !.role = Member] ELSE m : m \in members}
    /\ To(w, "ok")
    /\ answered' = answered \cup {req[w].arg}
    /\ UNCHANGED << invites, aliases, tokens, passwords, lastId, mode, denied, requests, orders >>

-----------------------------------------------------------------------------
(* Web requests of the invite pages: arg is the cookie's token               *)

\* policyContext: CheckToken, then the member it belongs to; id 0 is anonymous.
CheckToken(w) ==
    /\ \E op \in {"invite", "unlink"} : At(w, op, "web")
    /\ LET found == {t \in tokens : t.id = req[w].arg} IN
       IF found = {} THEN ToWith(w, "policy", 0)
       ELSE \E t \in found : ToWith(w, "policy", t.member)
    /\ UNCHANGED rows /\ Still

Role(i) == IF GetByID(i) = {} THEN 0 ELSE (CHOOSE m \in GetByID(i) : TRUE).role
CanCreateInvite(i) ==
    CASE mode = "open" -> TRUE
      [] mode = "community" -> Role(i) >= Member
      [] mode = "restricted" -> Role(i) >= Moderator
CanRevokeInvite(i) == Role(i) >= (IF mode = "restricted" THEN Moderator ELSE Member)

\* POST /create-invite: the invite of an anonymous caller is the room's own.
HandleCreateInviteSubmit(w) ==
    /\ At(w, "invite", "policy")
    /\ To(w, IF ~CanCreateInvite(req[w].id) THEN "refused"
             ELSE IF GetByID(req[w].id) # {} THEN "insert" ELSE "ensure")
    /\ UNCHANGED rows /\ Still

\* POST /invites/revoke: some invite that the page showed.
HandleInviteRevoke(w) ==
    /\ At(w, "unlink", "policy")
    /\ \/ /\ ~CanRevokeInvite(req[w].id)
          /\ To(w, "refused") /\ UNCHANGED << rows, answered >>
       \/ /\ CanRevokeInvite(req[w].id)
          /\ \E i \in invites :
                /\ invites' = (invites \ {i}) \cup {[i EXCEPT !.active = FALSE]}
                /\ answered' = answered \cup {i.id}
          /\ To(w, "ok")
          /\ UNCHANGED << members, aliases, tokens, passwords, lastId >>
    /\ UNCHANGED << mode, denied, requests, orders >>

-----------------------------------------------------------------------------
(* room.createInvite                                                         *)

HandleCreateInvite(w) ==
    /\ At(w, "invite", "muxrpc")
    /\ CASE mode = "open" -> To(w, "ensure") /\ UNCHANGED rows /\ Still
         [] mode = "community" -> Lookup(w, req[w].feed, "insert", "refused")
         [] mode = "restricted" -> To(w, "refused") /\ UNCHANGED rows /\ Still

\* ensureMemberID, ensureRoomCreatorMemberID: look up, add, look up again.
EnsureMember(w) ==
    \/ At(w, "invite", "ensure") /\ Lookup(w, RoomFeed, "insert", "add")
    \/ At(w, "invite", "add") /\ AddMember(w, RoomFeed, Admin, "insert", "again")
    \/ At(w, "invite", "again") /\ Lookup(w, RoomFeed, "insert", "failed")

CreateInsert(w) ==
    /\ At(w, "invite", "insert")
    /\ IF GetByID(req[w].id) = {} THEN To(w, "failed") /\ UNCHANGED rows
       ELSE /\ invites' = invites \cup {[id |-> lastId + 1, creator |-> req[w].id, active |-> TRUE]}
            /\ lastId' = lastId + 1
            /\ To(w, "ok")
            /\ UNCHANGED << members, aliases, tokens, passwords >>
    /\ Still

-----------------------------------------------------------------------------
(* room.registerAlias and room.revokeAlias: arg is the name                  *)

AliasBegin(w) ==
    /\ \E op \in {"register", "revoke"} : At(w, op, "begin")
    /\ To(w, IF IsMember(req[w].feed) /\ (req[w].op = "register" => mode # "restricted")
             THEN "lookup" ELSE "failed")
    /\ UNCHANGED rows /\ Still

RegisterAlias(w) ==
    \/ At(w, "register", "lookup") /\ Lookup(w, req[w].feed, "insert", "failed")
    \/ /\ At(w, "register", "insert")
       /\ IF GetByID(req[w].id) = {} \/ \E a \in aliases : a.name = req[w].arg
          THEN To(w, "failed") /\ UNCHANGED rows
          ELSE /\ aliases' = aliases \cup {[name |-> req[w].arg, member |-> req[w].id]}
               /\ To(w, "ok")
               /\ UNCHANGED << members, invites, tokens, passwords, lastId >>
       /\ Still

\* The owner is compared, then the alias deleted by its name.
RevokeAlias(w) ==
    \/ /\ At(w, "revoke", "lookup")
       /\ To(w, IF \E a \in aliases : /\ a.name = req[w].arg
                                      /\ GetByID(a.member) \cap GetByFeed(req[w].feed) # {}
                THEN "delete" ELSE "failed")
       /\ UNCHANGED rows /\ Still
    \/ /\ At(w, "revoke", "delete")
       /\ aliases' = {a \in aliases : a.name # req[w].arg}
       /\ To(w, "ok")
       /\ UNCHANGED << members, invites, tokens, passwords, lastId >> /\ Still

-----------------------------------------------------------------------------
(* Sign-in: by password or by a signed challenge, a token is issued          *)

\* POST /login checks the password, the other sign-in a signed challenge that the
\* member's own client answered.
HandleLoginSubmit(w) ==
    /\ At(w, "signin", "password")
    /\ LET known == {m \in GetByFeed(req[w].feed) : m.id \in passwords} IN
       IF known = {} THEN To(w, "failed") ELSE \E m \in known : ToWith(w, "issue", m.id)
    /\ UNCHANGED rows /\ Still

HandleLogin(w) == At(w, "signin", "challenge") /\ Lookup(w, req[w].feed, "issue", "failed")

CreateToken(w) ==
    /\ At(w, "signin", "issue")
    /\ IF GetByID(req[w].id) = {} THEN To(w, "failed") /\ UNCHANGED rows
       ELSE /\ tokens' = tokens \cup
                    {[id |-> lastId + 1, member |-> req[w].id, line |-> lastId + 1]}
            /\ lastId' = lastId + 1
            /\ To(w, "ok")
            /\ UNCHANGED << members, invites, aliases, passwords >>
    /\ Still

\* httpAuth.invalidateAllSolutions
Invalidate(w) ==
    \/ At(w, "invalidate", "begin") /\ Lookup(w, req[w].feed, "wipe", "failed")
    \/ /\ At(w, "invalidate", "wipe")
       /\ tokens' = {t \in tokens : t.member # req[w].id}
       /\ To(w, "ok")
       /\ UNCHANGED << members, invites, aliases, passwords, lastId >> /\ Still

\* httpAuth.rotateToken: arg is the token; one transaction.
RotateToken(w) ==
    /\ At(w, "rotate", "begin")
    /\ LET old == {t \in tokens : t.id = req[w].arg} IN
       IF old = {} THEN To(w, "failed") /\ UNCHANGED rows
       ELSE /\ tokens' = (tokens \ old) \cup
                         {[t EXCEPT !.id = lastId + 1] : t \in old}
            /\ lastId' = lastId + 1
            /\ To(w, "ok")
            /\ UNCHANGED << members, invites, aliases, passwords >>
    /\ Still

\* SetPasswordWithToken: a password is only replaced, the token is used up.
ResetPassword(w) ==
    \/ /\ At(w, "reset", "begin")
       /\ To(w, IF \E t \in tokens : t.id = req[w].arg THEN "delete" ELSE "failed")
       /\ UNCHANGED rows /\ Still
    \/ /\ At(w, "reset", "delete")
       /\ tokens' = {t \in tokens : t.id # req[w].arg}
       /\ To(w, "ok")
       /\ UNCHANGED << members, invites, aliases, passwords, lastId >> /\ Still

-----------------------------------------------------------------------------
(* The operator: SQLiteRoomOpsProvider, one statement each                   *)

Order == orders < MaxOrders /\ orders' = orders + 1

MemberAdd(f, role) ==
    /\ Order /\ ~IsMember(f)
    /\ members' = members \cup {[id |-> lastId + 1, feed |-> f, role |-> role]}
    /\ lastId' = lastId + 1
    /\ UNCHANGED << mode, denied, invites, aliases, tokens, passwords, req, requests, answered >>

MemberRoleSet(m, role) ==
    /\ Order /\ m.role # role
    /\ members' = (members \ {m}) \cup {[m EXCEPT !.role = role]}
    /\ UNCHANGED << mode, denied, invites, aliases, tokens, passwords, lastId, req, requests,
                    answered >>

MemberRemove(m) ==
    /\ Order
    /\ members' = members \ {m}
    /\ invites' = {i \in invites : i.creator # m.id}
    /\ aliases' = {a \in aliases : a.member # m.id}
    /\ tokens' = {t \in tokens : t.member # m.id}
    /\ passwords' = passwords \ {m.id}
    /\ req' = [w \in Workers |-> [req[w] EXCEPT !.bereft = @ \/ ~Answered(w)]]
    /\ UNCHANGED << mode, denied, lastId, requests, answered >>

InviteCreate(m) ==
    /\ Order
    /\ invites' = invites \cup {[id |-> lastId + 1, creator |-> m.id, active |-> TRUE]}
    /\ lastId' = lastId + 1
    /\ UNCHANGED << mode, denied, members, aliases, tokens, passwords, req, requests, answered >>

InviteRevoke(i) ==
    /\ Order /\ i.active
    /\ invites' = (invites \ {i}) \cup {[i EXCEPT !.active = FALSE]}
    /\ answered' = answered \cup {i.id}
    /\ UNCHANGED << mode, denied, members, aliases, tokens, passwords, lastId, req, requests >>

DeniedChange(f) ==
    /\ Order
    /\ denied' \in {denied \cup {f}, denied \ {f}} /\ denied' # denied
    /\ UNCHANGED << mode, rows, req, requests, answered >>

\* canRevokeAlias: not in restricted mode.
OperatorAliasRevoke(a) ==
    /\ Order /\ mode # "restricted"
    /\ aliases' = aliases \ {a}
    /\ UNCHANGED << mode, denied, members, invites, tokens, passwords, lastId, req, requests,
                    answered >>

-----------------------------------------------------------------------------
Requested(w) ==
    \/ \E f \in Feeds : \/ \E i \in invites, entry \in {"web", "muxrpc"} :
                               Receive(w, "consume", entry, f, i.id)
                        \/ Receive(w, "invite", "muxrpc", f, 0)
                        \/ Receive(w, "invalidate", "begin", f, 0)
                        \/ \E entry \in {"password", "challenge"} : Receive(w, "signin", entry, f, 0)
                        \/ \E op \in {"register", "revoke"}, n \in Names :
                               Receive(w, op, "begin", f, n)
    \/ \E t \in tokens, op \in {"rotate", "reset"} : Receive(w, op, "begin", RoomFeed, t.id)
    \/ \E t \in {u.id : u \in tokens} \cup {0}, op \in {"invite", "unlink"} :
           Receive(w, op, "web", RoomFeed, t)

Served(w) ==
    \/ HandleInviteConsume(w) \/ HandleJoin(w)
    \/ ConsumeSelect(w) \/ ConsumeMember(w) \/ ConsumeSpend(w) \/ ConsumeRole(w)
    \/ CheckToken(w) \/ HandleCreateInviteSubmit(w) \/ HandleInviteRevoke(w)
    \/ HandleCreateInvite(w) \/ EnsureMember(w) \/ CreateInsert(w)
    \/ AliasBegin(w) \/ RegisterAlias(w) \/ RevokeAlias(w)
    \/ HandleLoginSubmit(w) \/ HandleLogin(w) \/ CreateToken(w)
    \/ Invalidate(w) \/ RotateToken(w) \/ ResetPassword(w)

Operator ==
    \/ \E f \in Feeds : DeniedChange(f) \/ \E role \in {Member, Admin} : MemberAdd(f, role)
    \/ \E m \in members : \/ MemberRemove(m) \/ InviteCreate(m)
                           \/ \E role \in {Member, Admin} : MemberRoleSet(m, role)
    \/ \E i \in invites : InviteRevoke(i)
    \/ \E a \in aliases : OperatorAliasRevoke(a)

Next == Operator \/ \E w \in Workers : Requested(w) \/ Served(w)

Spec == Init /\ [][Next]_memberVars

-----------------------------------------------------------------------------
\* An invite is spent: a use of it that begins after another use of it, or its
\* revocation, has been answered is refused (Invites.Consume).
InviteSpent == \A w \in Workers : At(w, "consume", "ok") => ~req[w].stale

\* In an open room an invite can always be made: requests that race to enter the
\* room's own member row all come out with it, unless the operator removes a member
\* meanwhile (ensureMemberID: "Handle races on unique pub_key by re-reading").
CreatorEnsured == \A w \in Workers : At(w, "invite", "failed") => mode # "open" \/ req[w].bereft

\* When httpAuth.invalidateAllSolutions has been answered, no sign-in that was
\* finished when it was called is valid, in no rotation of its token.
SolutionsInvalidated ==
    \A w \in Workers : At(w, "invalidate", "ok") => \A t \in tokens : t.line \notin req[w].seen

\* "The invite link is one-time use": one request at most comes out with it.
OneTimeUse ==
    \A v, w \in Workers :
        At(v, "consume", "ok") /\ At(w, "consume", "ok") /\ v # w => req[v].arg # req[w].arg
=============================================================================
