---------------------------- MODULE MessagePages ----------------------------
(***************************************************************************)
(* Paging through the messages table (internal/db: ListMessagesPage,        *)
(* ListMessages, message_query.go, message_cursor.go) while the bridge      *)
(* writes to it.  A reader is the messages page of the admin UI, or the     *)
(* bridge_messages tool; a page comes with the cursors of its neighbours.   *)
(***************************************************************************)
EXTENDS Integers, Sequences, FiniteSets, SequencesExt

CONSTANTS
    URIs,            \* at_uri of records: numbers, in their order as texts
    States,          \* message_state
    Attempts,        \* attempts of a message: 0..Attempts
    Limits,          \* limits that are asked for
    DefaultLimit, MaxLimit,      \* DefaultPageLimit (100), MaxPageLimit (500)
    MaxClock         \* bound: milliseconds that pass

VARIABLES
    table,     \* the messages table: at_uri |-> [created, state, attempts]
    clock,     \* milliseconds
    walk       \* the reader: its query, its page, what it has been shown on the way
               \* and the rows that have matched since it began

vars == << table, clock, walk >>

KeysetSorts == {"newest", "oldest"}
Sorts == KeysetSorts \cup {"attempts_desc"}

NoCursor == [created |-> 0, uri |-> 0]

-----------------------------------------------------------------------------
(* The query                                                                 *)

NormalizeLimit(limit) ==
    IF limit <= 0 THEN DefaultLimit ELSE IF limit > MaxLimit THEN MaxLimit ELSE limit

\* appendMessageListFilters; "" asks for every state.
Matching(state) == {u \in DOMAIN table : state = "" \/ table[u].state = state}

Before(c, d) == c.created < d.created \/ (c.created = d.created /\ c.uri < d.uri)
CursorOf(u) == [created |-> table[u].created, uri |-> u]

\* A mutant: rows of the same millisecond as the cursor are left out.
KeysetClauseNoTie(sort, direction, c) ==
    {u \in DOMAIN table : IF (direction = "next") = (sort = "oldest")
                          THEN c.created < table[u].created ELSE table[u].created < c.created}

\* messageKeysetClause: the rows behind the cursor in the direction of reading.
KeysetClause(sort, direction, c) ==
    {u \in DOMAIN table : IF (direction = "next") = (sort = "oldest")
                          THEN Before(c, CursorOf(u)) ELSE Before(CursorOf(u), c)}

\* messageKeysetOrder; a page before the cursor is read backwards.
KeysetOrder(sort, reverse, rows) ==
    SetToSortSeq(rows, LAMBDA a, b : IF (sort = "oldest") # reverse
                                     THEN Before(CursorOf(a), CursorOf(b))
                                     ELSE Before(CursorOf(b), CursorOf(a)))

\* messageOrderClause of the other sorts.
OrderClause(rows) ==
    SetToSortSeq(rows, LAMBDA a, b :
        \/ table[a].attempts > table[b].attempts
        \/ table[a].attempts = table[b].attempts /\ Before(CursorOf(b), CursorOf(a)))

Take(s, n) == SubSeq(s, 1, IF Len(s) < n THEN Len(s) ELSE n)

\* ListMessagesPage, for the other sorts: the first page, whatever the cursor
\* says, and one row more than the limit unless the limit is the largest.
LegacyPage(q) ==
    LET rows == Take(OrderClause(Matching(q.state)), NormalizeLimit(q.limit + 1))
        more == Len(rows) > q.limit
        page == Take(rows, q.limit) IN
    [rows |-> page, hasPrev |-> FALSE, hasNext |-> more, prevCursor |-> NoCursor,
     nextCursor |-> IF more THEN CursorOf(Last(page)) ELSE NoCursor]

KeysetPage(q) ==
    LET given == q.cursor # NoCursor
        reverse == given /\ q.direction = "prev"
        found == IF given THEN Matching(q.state) \cap KeysetClause(q.sort, q.direction, q.cursor)
                 ELSE Matching(q.state)
        rows == KeysetOrder(q.sort, reverse, found)
        more == Len(rows) > q.limit
        page == IF reverse THEN Reverse(Take(rows, q.limit)) ELSE Take(rows, q.limit)
        hasPrev == IF q.direction = "prev" THEN more ELSE given
        hasNext == IF q.direction = "prev" THEN given ELSE more IN
    [rows |-> page, hasPrev |-> hasPrev, hasNext |-> hasNext,
     prevCursor |-> IF page # <<>> /\ hasPrev THEN CursorOf(Head(page)) ELSE NoCursor,
     nextCursor |-> IF page # <<>> /\ hasNext THEN CursorOf(Last(page)) ELSE NoCursor]

ListMessagesPage(query) ==
    LET q == [query EXCEPT !.limit = NormalizeLimit(@)] IN
    IF q.sort \in KeysetSorts THEN KeysetPage(q) ELSE LegacyPage(q)

-----------------------------------------------------------------------------
(* The writers and the reader                                                *)

Closed == [open |-> FALSE, query |-> [sort |-> "newest", state |-> "", limit |-> 1,
                                      direction |-> "next", cursor |-> NoCursor],
           page |-> [rows |-> <<>>, hasPrev |-> FALSE, hasNext |-> FALSE,
                     prevCursor |-> NoCursor, nextCursor |-> NoCursor],
           shown |-> <<>>, steady |-> {}]

Init == table = << >> /\ clock = 1 /\ walk = Closed

Tick == clock < MaxClock /\ clock' = clock + 1 /\ UNCHANGED << table, walk >>

\* AddMessage: created_at of a row stays, and attempts add up.
AddMessage(u, state, n) ==
    /\ table' = [v \in DOMAIN table \cup {u} |->
                    IF v # u THEN table[v]
                    ELSE IF u \in DOMAIN table
                    THEN [table[u] EXCEPT !.state = state, !.attempts = @ + n]
                    ELSE [created |-> clock, state |-> state, attempts |-> n]]
    /\ table'[u].attempts <= Attempts
    /\ walk' = [walk EXCEPT !.steady =
                   {v \in @ : walk.query.state = "" \/ table'[v].state = walk.query.state}]
    /\ UNCHANGED clock

Show(q, shown, steady) ==
    LET page == ListMessagesPage(q) IN
    walk' = [open |-> TRUE, query |-> q, page |-> page, shown |-> shown \o page.rows,
             steady |-> steady]

Open(sort, state, limit) ==
    /\ ~ walk.open
    /\ Show([sort |-> sort, state |-> state, limit |-> limit, direction |-> "next",
             cursor |-> NoCursor], <<>>, Matching(state))
    /\ UNCHANGED << table, clock >>

\* The reader follows the link to the next page.  Only an empty page before the
\* first one has a link without a cursor, which leads to the beginning.
NextPage ==
    /\ walk.open /\ walk.page.hasNext
    /\ LET anew == walk.page.nextCursor = NoCursor \/ walk.query.sort \notin KeysetSorts IN
       Show([walk.query EXCEPT !.direction = "next", !.cursor = walk.page.nextCursor],
            IF anew THEN <<>> ELSE walk.shown,
            IF anew THEN Matching(walk.query.state) ELSE walk.steady)
    /\ UNCHANGED << table, clock >>

\* Or back to the page before, and reads on from there.  An empty page after the
\* last one has a link without a cursor: the first page again, turned around.
PrevPage ==
    /\ walk.open /\ walk.page.hasPrev
    /\ LET q == [walk.query EXCEPT !.direction = "prev", !.cursor = walk.page.prevCursor]
           rows == ListMessagesPage(q).rows
           back == KeysetClause(q.sort, "prev", IF rows = <<>> THEN q.cursor ELSE CursorOf(Head(rows))) IN
       Show(q, <<>>, IF q.cursor = NoCursor THEN {} ELSE walk.steady \ back)
    /\ UNCHANGED << table, clock >>

Next ==
    \/ Tick
    \/ \E u \in URIs, s \in States, n \in 0..Attempts : AddMessage(u, s, n)
    \/ \E sort \in Sorts, state \in States \cup {""}, limit \in Limits : Open(sort, state, limit)
    \/ NextPage
    \/ PrevPage

Spec == Init /\ [][Next]_vars

-----------------------------------------------------------------------------
\* However the table changes meanwhile, a reader of a keyset sort sees no
\* message twice and every page in order, and once there is no next page has
\* seen every message that matched all the time since its walk began.
PagesComplete ==
    walk.open /\ walk.query.sort \in KeysetSorts =>
        /\ \A i, j \in DOMAIN walk.shown : i < j =>
              IF walk.query.sort = "oldest"
              THEN Before(CursorOf(walk.shown[i]), CursorOf(walk.shown[j]))
              ELSE Before(CursorOf(walk.shown[j]), CursorOf(walk.shown[i]))
        /\ ~ walk.page.hasNext => walk.steady \subseteq ToSet(walk.shown)
=============================================================================
