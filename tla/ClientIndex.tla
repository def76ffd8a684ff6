----------------------------- MODULE ClientIndex -----------------------------
(***************************************************************************)
(* The requests to ssb-client (cmd/ssb-client) that publish, and the index  *)
(* that the others ask (ui_index.go): they first bring it up to date, from  *)
(* the own feed's log and then from the receive log, and query it.  Own     *)
(* messages are in both logs: as their content in the one and as the signed *)
(* message in the other, and the later of the two to be indexed makes the   *)
(* row.                                                                     *)
(*                                                                          *)
(* Syncs exclude each other (mu), so that one request that asks is enough;  *)
(* the publisher and the replication do not wait for them.  A message is    *)
(* numbered by its author; its content is one of a few that the queries     *)
(* tell apart, and rows are ordered by number, which stands for the time.   *)
(***************************************************************************)
EXTENDS Integers, Sequences, FiniteSets, SequencesExt

CONSTANTS
    Peers,         \* other feeds
    MaxOwn, MaxForeign,      \* bounds: messages
    MaxFaults      \* bound: crashes and failed statements

Self == "self"
Empty == [type |-> "", root |-> <<>>, branch |-> <<>>, contact |-> "", following |-> FALSE,
          blocking |-> FALSE, link |-> <<>>, peer |-> "", private |-> FALSE]
Post == [Empty EXCEPT !.type = "post"]
Reply == [Post EXCEPT !.root = << Self, 1 >>, !.branch = << Self, 1 >>]
Vote == [Empty EXCEPT !.type = "vote", !.link = << Self, 1 >>]
Private == [Empty EXCEPT !.private = TRUE]
Contact(p, following, blocking) ==
    [Empty EXCEPT !.type = "contact", !.contact = p, !.following = following, !.blocking = blocking]

\* Rows of a page: the default of a request, and the most it may ask for (50 and 500).
DefaultPage == 1
LargestPage == 2

Logs == {"user", "rx"}
Key(m) == << m.author, m.seq >>

VARIABLES
    user,        \* the own feed
    rx,          \* the receive log
    rows,        \* the messages table: a function on keys
    synced,      \* sync_state: a sequence number per log
    outbox,      \* sent_private_outbox: [key, to]
    unread,      \* messages that Get failed on: [log, seq]
    wanted,      \* feeds the client asks its peers for
    sending,     \* recipients that a request to send has not come to yet
    unsent,      \* private messages that it has not put in the outbox yet: [key, to]
    work,        \* the request that asks: the log it is at, the number it read, the next
                 \* message, how many own messages there were, whether it has the index
    faults

logVars == << user, rx >>
indexVars == << rows, synced, outbox >>
sendVars == << wanted, sending, unsent >>
vars == << logVars, indexVars, unread, sendVars, work, faults >>

NoWork == [log |-> "none", current |-> 0, next |-> 0, floor |-> 0, ok |-> TRUE]

Init ==
    /\ user = <<>> /\ rx = <<>>
    /\ rows = << >> /\ synced = [l \in Logs |-> 0] /\ outbox = {}
    /\ unread = {} /\ wanted = {} /\ sending = <<>> /\ unsent = {} /\ work = NoWork /\ faults = 0

Fault == faults < MaxFaults /\ faults' = faults + 1

-----------------------------------------------------------------------------
(* What happens to the logs                                                  *)

\* The publisher writes the own feed and then the receive log, and the request goes on:
\* whom a contact message follows is asked for.  A request that it fails changes nothing.
PublishJSON(content) ==
    /\ Len(user) < MaxOwn
    /\ user' = Append(user, [author |-> Self, seq |-> Len(user) + 1, content |-> content])

ReplicationTargetFromContact(content) ==
    IF content.type = "contact" /\ content.following /\ ~content.blocking THEN {content.contact} ELSE {}

PublishReceived ==
    /\ \E m \in Range(user) :
          /\ m \notin Range(rx)
          /\ \A n \in 1..m.seq - 1 : user[n] \in Range(rx)
          /\ rx' = Append(rx, m)
          /\ wanted' = wanted \cup ReplicationTargetFromContact(m.content)
    /\ UNCHANGED << user, indexVars, unread, sending, unsent, work, faults >>

\* A message of any content that is not private; one of the form, of the follow buttons.
HandleAPIPublish(content) ==
    /\ PublishJSON(content)
    /\ UNCHANGED << rx, indexVars, unread, sendVars, work, faults >>
HandleCompose(root, branch) == HandleAPIPublish([Post EXCEPT !.root = root, !.branch = branch])
HandleAPIFollow(p, following) == HandleAPIPublish(Contact(p, following, FALSE))

\* A feed may be asked for without being followed.
HandleReplicate(p) ==
    /\ p \notin wanted
    /\ wanted' = wanted \cup {p}
    /\ UNCHANGED << logVars, indexVars, unread, sending, unsent, work, faults >>

\* A message of somebody else is replicated: whoever is asked for.
Receive(p, content) ==
    LET seqs == {m.seq : m \in {x \in Range(rx) : x.author = p}} IN
    /\ p \in wanted
    /\ Cardinality({x \in Range(rx) : x.author # Self}) < MaxForeign
    /\ rx' = Append(rx, [author |-> p, seq |-> Cardinality(seqs) + 1, content |-> content])
    /\ UNCHANGED << user, indexVars, unread, sendVars, work, faults >>

\* Private messages: the recipients of a request, those that are no feed left out,
Recipients(single, list) == SelectSeq(<< single >> \o list, LAMBDA p : p # "")
HandleAPISendDM(p) == Recipients(p, <<>>)

HandleAPIMessagesSend(recipients) ==
    /\ recipients # <<>> /\ sending = <<>> /\ unsent = {}
    /\ Len(user) + Len(recipients) <= MaxOwn
    /\ sending' = recipients
    /\ UNCHANGED << logVars, indexVars, unread, wanted, unsent, work, faults >>

\* a message to each of them, unless it fails,
PublishPrivate ==
    /\ sending # <<>> /\ unsent = {}
    /\ sending' = Tail(sending)
    /\ \/ /\ PublishJSON(Private)
          /\ unsent' = {[key |-> << Self, Len(user) + 1 >>, to |-> Head(sending)]}
          /\ UNCHANGED faults
       \/ Fault /\ UNCHANGED << user, unsent >>
    /\ UNCHANGED << rx, indexVars, unread, wanted, work >>

\* which is put in the outbox; an error, of this or of the receive log, ends it.  A sync
\* has the lock.
RecordSentPrivate(o) ==
    /\ o \in unsent /\ work.log \in {"none", "query"}
    /\ unsent' = unsent \ {o}
    /\ \/ /\ user[o.key[2]] \in Range(rx)
          /\ outbox' = outbox \cup {o}
          /\ UNCHANGED faults
       \/ Fault /\ UNCHANGED outbox
    /\ UNCHANGED << logVars, rows, synced, unread, wanted, sending, work >>

-----------------------------------------------------------------------------
(* A request asks: sync, and a query                                         *)

LogOf(l) == IF l = "user" THEN user ELSE rx

\* syncLog reads how far the log is and how far the index is.
\* The request, of the API or for a page, begins with the own feed.
Asked(l) == IF l = "user" THEN [NoWork EXCEPT !.floor = Len(user)] ELSE work
AfterLog(request, l) ==
    [request EXCEPT !.log = IF l = "user" THEN "between" ELSE "query", !.current = 0, !.next = 0]
SyncLog(l) ==
    /\ work.log = IF l = "user" THEN "none" ELSE "between"
    /\ work' = IF synced[l] < Len(LogOf(l))
               THEN [Asked(l) EXCEPT !.log = l, !.current = Len(LogOf(l)), !.next = synced[l] + 1]
               ELSE AfterLog(Asked(l), l)
    /\ UNCHANGED << logVars, indexVars, unread, sendVars, faults >>

\* Without the index a request of the API is an error, and the page of the feed reads
\* the logs.
SyncFails == {NoWork, [work EXCEPT !.log = "query", !.current = 0, !.next = 0, !.ok = FALSE]}

\* buildIndexedMessage: of a signed message only the metadata are found.  A private
\* message is shown with the peer that tryDecryptBox2 finds: none for what the client
\* sent itself.
BuildIndexedMessage(m, l) ==
    LET seen == IF l = "user" THEN m.content ELSE Empty IN
    [seen EXCEPT !.type = IF @ # "" THEN @ ELSE IF seen.private THEN "private" ELSE "unknown"]

UpsertMessage(m, l) ==
    [k \in DOMAIN rows \cup {Key(m)} |-> IF k = Key(m) THEN BuildIndexedMessage(m, l) ELSE rows[k]]

\* The statement may fail, and then the sync does; a message that cannot be read is
\* passed over.
IndexMessage ==
    /\ work.log \in Logs /\ work.next <= work.current
    /\ LET m == LogOf(work.log)[work.next] IN
       \/ /\ rows' = UpsertMessage(m, work.log)
          /\ work' = [work EXCEPT !.next = @ + 1]
          /\ UNCHANGED << unread, faults >>
       \/ /\ Fault
          /\ unread' = unread \cup {<< work.log, work.next >>}
          /\ work' = [work EXCEPT !.next = @ + 1]
          /\ UNCHANGED rows
       \/ Fault /\ work' \in SyncFails /\ UNCHANGED << rows, unread >>
    /\ UNCHANGED << logVars, synced, outbox, sendVars >>

SetSyncSeq ==
    /\ work.log \in Logs /\ work.next > work.current
    /\ synced' = [synced EXCEPT ![work.log] = work.current]
    /\ work' = AfterLog(work, work.log)
    /\ UNCHANGED << logVars, rows, outbox, unread, sendVars, faults >>

\* The rows are read, without the lock, and written out.
Answer ==
    /\ work.log = "query"
    /\ work' = NoWork
    /\ UNCHANGED << logVars, indexVars, unread, sendVars, faults >>

\* The process dies: the tables are on disk, the outbox entry is not written, and at the
\* start the feeds that have a log are asked for.
Crash ==
    /\ Fault
    /\ work' = NoWork /\ sending' = <<>> /\ unsent' = {}
    /\ wanted' = {m.author : m \in Range(rx)} \ {Self}
    /\ UNCHANGED << logVars, indexVars, unread >>

Next ==
    \/ \E content \in {Vote} \cup {Contact(p, TRUE, TRUE) : p \in Peers} : HandleAPIPublish(content)
    \/ \E k \in {<<>>, << Self, 1 >>} : HandleCompose(k, k)
    \/ \E p \in Peers, b \in BOOLEAN : HandleAPIFollow(p, b)
    \/ \E p \in Peers : HandleReplicate(p) \/ Receive(p, Reply)
    \/ \E p, q \in Peers \cup {""} : HandleAPIMessagesSend(Recipients(p, << q >>))
    \/ PublishPrivate \/ PublishReceived
    \/ \E o \in unsent : RecordSentPrivate(o)
    \/ \E l \in Logs : SyncLog(l)
    \/ IndexMessage \/ SetSyncSeq \/ Answer \/ Crash

Spec == Init /\ [][Next]_vars

-----------------------------------------------------------------------------
(* The queries, and the handlers that ask them                               *)

\* parseLimit, and the limits of the queries.
ParseLimit(l) == IF l \in 1..LargestPage THEN l ELSE DefaultPage
Page(seq, limit, offset) == SubSeq(seq, offset + 1, IF offset + limit < Len(seq) THEN offset + limit ELSE Len(seq))
Earlier(x, y) == x[2] < y[2] \/ (x[2] = y[2] /\ x[1] = Self /\ y[1] # Self)
Oldest(keys) == SetToSortSeq(keys, Earlier)
Newest(keys) == Reverse(Oldest(keys))

\* The last contact message of an author about a feed, by sequence number.
LatestContact(author, p) ==
    LET about == {k \in DOMAIN rows : k[1] = author /\ rows[k].type = "contact" /\ rows[k].contact = p} IN
    {rows[k] : k \in {x \in about : \A y \in about : y[2] <= x[2]}}
FollowingSet(author) ==
    {p \in Peers \cup {Self} : \E r \in LatestContact(author, p) : r.following /\ ~r.blocking}
QueryFollowers == [following |-> FollowingSet(Self), followers |-> {p \in Peers : Self \in FollowingSet(p)}]
HandleAPIFollowers == IF work.ok THEN {QueryFollowers} ELSE {}

QueryTimeline(mode) ==
    CASE mode = "inbox" -> {k \in DOMAIN rows : k[1] \in FollowingSet(Self) \cup {Self}}
      [] mode = "profile" -> {k \in DOMAIN rows : k[1] = Self}
      [] OTHER -> DOMAIN rows
HandleAPITimeline(mode, limit, offset) == Page(Newest(QueryTimeline(mode)), ParseLimit(limit), offset)

QueryThread(k) ==
    LET root == IF rows[k].root # <<>> THEN rows[k].root ELSE k IN
    {x \in DOMAIN rows : x = root \/ rows[x].root = root \/ rows[x].branch \in {root, k}}
HandleAPIThread(k) == IF k \in DOMAIN rows THEN Oldest(QueryThread(k)) ELSE <<>>

QueryVotes(k) == Cardinality({x \in DOMAIN rows : rows[x].type = "vote" /\ rows[x].link = k})
\* No target: those of all.
HandleAPIVotes(target, limit) ==
    LET links == {rows[x].link : x \in {y \in DOMAIN rows : rows[y].type = "vote"}} \ {<<>>}
        counted == SetToSortSeq({[target |-> k, total |-> QueryVotes(k)] : k \in links},
                                LAMBDA x, y : x.total >= y.total) IN
    Page(SelectSeq(counted, LAMBDA v : target \in {<<>>, v.target}), ParseLimit(limit), 0)

\* What others sent, and the outbox.
QueryConversations(p) ==
    Cardinality({x \in DOMAIN rows : rows[x].peer = p}) + Cardinality({o \in outbox : o.to = p})
HandleAPIConversationsV2 ==
    {c \in {[peer |-> p, count |-> QueryConversations(p)] : p \in Peers} : c.count > 0}

QueryConversationMessages(p, limit) ==
    Page(Oldest({x \in DOMAIN rows : rows[x].peer = p}) \o Oldest({o.key : o \in {y \in outbox : y.to = p}}), limit, 0)
HandleAPIConversationV2(p, limit) ==
    IF p = "" THEN <<>> ELSE QueryConversationMessages(p, ParseLimit(limit))

\* readFeedMessages: the last numbers of a log, newest first, one more than the limit.
ReadFeedMessages(log, limit) ==
    Reverse(SubSeq(log, IF Len(log) > limit THEN Len(log) - limit ELSE 1, Len(log)))
HandleAPIMessages(type, limit) ==
    SelectSeq(ReadFeedMessages(user, ParseLimit(limit)), LAMBDA m : type \in {"", m.content.type})

\* handleFeed: the timeline, or else the own feed and what the receive log has of others.
HandleFeed(limit) ==
    IF work.ok THEN Range(HandleAPITimeline("network", limit, 0))
    ELSE {Key(m) : m \in Range(ReadFeedMessages(user, limit))} \cup
         {Key(m) : m \in {x \in Range(ReadFeedMessages(rx, limit)) : x.author # Self}}

-----------------------------------------------------------------------------
\* The pages of a timeline, one after the other.
Pages(mode, limit) ==
    FlattenSeq([n \in 1..Cardinality(DOMAIN rows) + 1 |-> HandleAPITimeline(mode, limit, (n - 1) * limit)])

\* What the index says it has seen can be found: every message that could be read, of
\* both logs, up to the number on record, once in the pages of everybody's timeline and
\* in its author's, its thread with it, a vote among those of its target; whatever the
\* sync is interrupted by.
IndexKeepsUp ==
    LET pages == Pages("network", 1)
        wide == Pages("network", LargestPage)
        found == {k \in DOMAIN rows :
            /\ Cardinality({i \in DOMAIN pages : pages[i] = k}) = 1 /\ k \in Range(wide)
            /\ k[1] = Self => k \in QueryTimeline("profile") \cap QueryTimeline("inbox")
            /\ \A r \in {k, rows[k].root, rows[k].branch} \cap DOMAIN rows : k \in Range(HandleAPIThread(r))
            /\ rows[k].type = "vote" => HandleAPIVotes(rows[k].link, 0)[1].total >= 1} IN
    \A l \in Logs : \A n \in 1..synced[l] : << l, n >> \in unread \/ Key(LogOf(l)[n]) \in found

\* What the client has published before a request is in its answer: in the pages of the
\* timeline if the sync came through, and otherwise, on the page of the feed, if it is
\* one of the last.
AnswersAreCurrent ==
    work.log = "query" =>
        \A n \in 1..work.floor :
            IF work.ok THEN << "user", n >> \in unread \/ << Self, n >> \in Range(Pages("network", 1))
            ELSE Len(user) - n < DefaultPage => << Self, n >> \in HandleFeed(DefaultPage)

\* A conversation holds private messages that were sent in it, each once, and is counted
\* as it is shown.
ConversationsHold ==
    /\ \A o \in outbox : /\ user[o.key[2]].content.private
                          /\ \A x \in outbox : x.key = o.key => x = o
    /\ \A c \in HandleAPIConversationsV2 :
          Len(HandleAPIConversationV2(c.peer, LargestPage)) = IF c.count < LargestPage THEN c.count ELSE LargestPage

\* Once the index is up to date, whom the client follows is what its latest contact
\* messages say ("computed from latest contact graph").
FollowersAreLatest ==
    work.log = "query" /\ work.ok /\ unread = {} /\ (\A l \in Logs : synced[l] = Len(LogOf(l))) =>
        \A f \in HandleAPIFollowers :
            f.following =
                {p \in Peers : \E m \in Range(user) :
                    /\ m.content.contact = p /\ m.content.following /\ ~m.content.blocking
                    /\ \A x \in Range(user) : x.content.contact = p => x.seq <= m.seq}
==============================================================================
