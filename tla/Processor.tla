------------------------------ MODULE Processor ------------------------------
(***************************************************************************)
(* The forward bridge: internal/bridge (Processor and the dependency        *)
(* resolver), the messages table of internal/db, the consumer of the record *)
(* event log and the three schedulers of cmd/bridge-cli.                    *)
(*                                                                          *)
(* Every goroutine is an actor with a stack of ProcessRecord activations:   *)
(* hydrating a dependency processes the dependency's record in a nested     *)
(* activation.  A step is one access to the messages table, one publish, one*)
(* remote fetch or one use of the resolver's in-flight map; what lies       *)
(* between two of them is local and belongs to the step before.             *)
(*                                                                          *)
(* Data: a record is its AT URI; what the properties tell apart of its      *)
(* content is the set of records it refers to.  An SSB message ref is the   *)
(* position of the message in the publish log, 0 standing for "".  A mapped *)
(* payload (raw_ssb_json) is the ref put in for each reference, 0 where the *)
(* _atproto_* placeholder is still in place.                                *)
(***************************************************************************)
EXTENDS Naturals, Sequences, FiniteSets

CONSTANTS
    URI,         \* AT URIs
    Refs,        \* Refs[u]: the records the content of u refers to
    Hydrated,    \* Hydrated[u]: those under subject, quote, root and parent keys
    Kind,        \* Kind[u]: what deleting a record of its collection does
    Incomplete,  \* records that are not ReadyForPublish even when resolved
    Remote,      \* Remote[u]: CIDs under which a PDS serves u; {}: it does not
    CID,         \* content identifiers
    Scripts,     \* possible contents of the record event log
    Schedulers,  \* the schedulers that run, of {"retry", "deferred", "expiry"}
    MaxAttempts, \* RetryConfig.MaxAttempts (8)
    Limit,       \* batch size of ResolveDeferredMessages (500)
    MaxAge,      \* DeferredMaxAgeDays, in ticks
    MaxDepth,    \* config.MaxDependencyDepth (16)
    MaxFetch,    \* maxDependencyRecords (256)
    MaxLog,      \* bound: published messages
    FaultyDB,    \* whether writes to the database may fail
    MaxFaults,   \* bound: failed publishes, fetches and writes, and crashes
    MaxResets    \* bound: operator resets

NoCid == ""
DeletedCid == "deleted-seq"
Cid == CID \cup {NoCid, DeletedCid}
Actor == {"consumer"} \cup Schedulers
Slot == 1..(MaxDepth + 1)
Event == [uri : URI, cid : CID \cup {NoCid}, act : {"upsert", "delete"}, raw : BOOLEAN]

ASSUME URIAssumption == URI # {} /\ IsFiniteSet(URI)
ASSUME RefsAssumption ==
    /\ Refs \in [URI -> SUBSET URI]
    /\ Hydrated \in [URI -> SUBSET URI]
    /\ \A u \in URI : Hydrated[u] \subseteq Refs[u]
ASSUME KindAssumption == Kind \in [URI -> {"plain", "reversible", "other", "unsupported"}]
ASSUME RemoteAssumption == Remote \in [URI -> SUBSET (CID \cup {NoCid})]
ASSUME ScriptsAssumption == \A s \in Scripts : s \in Seq(Event)
ASSUME SchedulersAssumption == Schedulers \subseteq {"retry", "deferred", "expiry"}
ASSUME FaultyDBAssumption == FaultyDB \in BOOLEAN
ASSUME BoundsAssumption ==
    /\ MaxAttempts \in Nat /\ Limit \in Nat /\ MaxAge \in Nat
    /\ MaxDepth \in Nat /\ MaxFetch \in Nat
    /\ MaxLog \in Nat /\ MaxFaults \in Nat /\ MaxResets \in Nat

VARIABLES
    events,    \* the record event log; constant after Init
    next,      \* position of the consumer in the event log
    cursor,    \* atproto_event_cursor, the persisted position
    rows,      \* the messages table
    log,       \* the messages published to SSB, in order
    frame,     \* frame[a][s]: the activation in slot s of the stack of a
    depth,     \* depth[a]: activations on the stack of a
    batch,     \* batch[a]: candidates a scheduler read and has not begun
    visited,   \* visited[a]: records of the current dependency scope
    fetched,   \* fetched[a]: fetches of the current dependency scope
    holder,    \* holder[u]: the actor with u in the in-flight map, if any
    waits,     \* waits[a]: the in-flight record a waits for, if any
    swept,     \* a resolver pass began since the last tick
    faults, resets

table == <<rows, log>>
stacks == <<frame, depth>>
scope == <<visited, fetched>>
flights == <<holder, waits>>
source == <<events, next, cursor>>
bounds == <<faults, resets>>
vars == <<source, table, stacks, batch, scope, flights, swept, bounds>>

-----------------------------------------------------------------------------
State == {"none", "pending", "deferred", "failed", "published", "deleted"}
Links == [URI -> Nat]
NoLinks == [d \in URI |-> 0]

\* A row of the messages table; "none" is the absent row.
Row == [state : State, cid : Cid, ref : Nat, links : Links, attempts : Nat,
        deleted : BOOLEAN, raw : BOOLEAN, age : Nat]
NoRow == [state |-> "none", cid |-> NoCid, ref |-> 0, links |-> NoLinks,
          attempts |-> 0, deleted |-> FALSE, raw |-> FALSE, age |-> 0]
Candidate == [uri : URI, row : Row]

\* An activation: the arguments of the call, the payload mapped so far, the
\* references still to look up or hydrate, and the update it will write.
Op == {"none", "record", "delete", "ensure", "deferred", "retry", "expire"}
Pc == {"load", "fetch", "resolve", "hydrate", "resolve2", "publish", "persist",
       "return", "error"}
Message == [uri : URI, cid : Cid, links : Links, deleted : BOOLEAN, by : Op]
Frame == [op : Op, pc : Pc, uri : URI, cid : Cid, deleted : BOOLEAN, raw : BOOLEAN,
          links : Links, todo : SUBSET URI, state : State, ref : Nat, tries : Nat]
NoFrame == [op |-> "none", pc |-> "return", uri |-> CHOOSE u \in URI : TRUE,
            cid |-> NoCid, deleted |-> FALSE, raw |-> FALSE, links |-> NoLinks,
            todo |-> {}, state |-> "none", ref |-> 0, tries |-> 0]

TypeOK ==
    /\ events \in Scripts /\ next \in Nat \ {0} /\ cursor \in Nat
    /\ rows \in [URI -> Row]
    /\ log \in Seq(Message)
    /\ frame \in [Actor -> [Slot -> Frame]]
    /\ depth \in [Actor -> 0..(MaxDepth + 1)]
    /\ batch \in [Actor -> SUBSET Candidate]
    /\ visited \in [Actor -> SUBSET URI]
    /\ fetched \in [Actor -> 0..MaxFetch]
    /\ holder \in [URI -> SUBSET Actor]
    /\ waits \in [Actor -> SUBSET URI]
    /\ swept \in BOOLEAN
    /\ faults \in 0..MaxFaults /\ resets \in 0..MaxResets

Top(a) == frame[a][depth[a]]
At(a, pc) == depth[a] > 0 /\ waits[a] = {} /\ Top(a).pc = pc
SetTop(a, f) == frame' = [frame EXCEPT ![a][depth[a]] = f] /\ UNCHANGED depth
Push(a, f) ==
    /\ frame' = [frame EXCEPT ![a][depth[a] + 1] = f]
    /\ depth' = [depth EXCEPT ![a] = @ + 1]
Free(a) == depth[a] = 0

Init ==
    /\ events \in Scripts /\ next = 1 /\ cursor = 0
    /\ rows = [u \in URI |-> NoRow]
    /\ log = <<>>
    /\ frame = [a \in Actor |-> [s \in Slot |-> NoFrame]]
    /\ depth = [a \in Actor |-> 0]
    /\ batch = [a \in Actor |-> {}]
    /\ visited = [a \in Actor |-> {}]
    /\ fetched = [a \in Actor |-> 0]
    /\ holder = [u \in URI |-> {}]
    /\ waits = [a \in Actor |-> {}]
    /\ swept = FALSE
    /\ faults = 0 /\ resets = 0

-----------------------------------------------------------------------------
(* Mapping a record: resolve, hydrate what is missing, resolve again.       *)

\* UnresolvedATProtoRefs: the placeholders left in a payload.
Unresolved(u, links) == {d \in Refs[u] : links[d] = 0}

\* Mutant of Decide: publish with whatever could be resolved.
decideLenient(f) ==
    IF f.uri \in Incomplete THEN [f EXCEPT !.pc = "persist", !.state = "deferred"]
    ELSE [f EXCEPT !.pc = "publish"]

\* applyMappedMessageLifecycle up to its Publish call.
Decide(f) ==
    IF Unresolved(f.uri, f.links) # {} \/ f.uri \in Incomplete
    THEN [f EXCEPT !.pc = "persist", !.state = "deferred"]
    ELSE [f EXCEPT !.pc = "publish"]

\* mapMappedRecord: what follows once every reference of a stage is dealt with.
Advance(f) ==
    LET open == Unresolved(f.uri, f.links)
        stop == f.todo = {} /\ (f.pc = "resolve2" \/ (f.pc = "resolve" /\ open = {}))
        need == f.todo = {} /\ f.pc = "resolve" /\ open \cap Hydrated[f.uri] # {}
    IN  IF f.todo # {} THEN f
        ELSE IF stop THEN Decide(f)
        ELSE IF need THEN [f EXCEPT !.pc = "hydrate", !.todo = open \cap Hydrated[f.uri]]
        ELSE [f EXCEPT !.pc = "resolve2", !.todo = open]

\* Mutant of StartMapping: reuse the stored payload, resolve nothing.
startStale(f) == Advance([f EXCEPT !.pc = "resolve2", !.todo = {}])
StartMapping(f) ==
    Advance([f EXCEPT !.pc = "resolve", !.links = NoLinks, !.todo = Refs[f.uri]])

\* resolveMessageReference: one lookup of ReplaceATProtoRefs.
LookupRef(a, d) ==
    /\ At(a, "resolve") \/ At(a, "resolve2")
    /\ d \in Top(a).todo
    /\ SetTop(a, Advance([Top(a) EXCEPT !.todo = @ \ {d}, !.links[d] = rows[d].ref]))
    /\ UNCHANGED <<source, table, batch, scope, flights, swept, bounds>>

-----------------------------------------------------------------------------
(* The dependency resolver.                                                 *)

\* beginDependencyRecord: the scope a dependency of the top activation is in.
\* ProcessDeletedRecord has no dependency context, so each dependency of its
\* root activation gets a new one.
Scope(a) == IF depth[a] = 1 /\ Top(a).op = "delete" THEN {} ELSE visited[a]
Ensured(a, d) == SetTop(a, Advance([Top(a) EXCEPT !.todo = @ \ {d}]))

\* beginDependencyRecord: the dependency is within config.MaxDependencyDepth.
DepthAllowed(a) == depth[a] <= MaxDepth

\* EnsureRecord returns at once: depth exceeded, or already visited.
EnsureSkip(a, d) ==
    /\ At(a, "hydrate")
    /\ d \in Top(a).todo
    /\ ~DepthAllowed(a) \/ d \in Scope(a)
    /\ Ensured(a, d)
    /\ UNCHANGED <<source, table, batch, scope, flights, swept, bounds>>

\* acquire finds another caller in flight: wait for it, whatever its outcome.
EnsureWait(a, d) ==
    /\ At(a, "hydrate")
    /\ d \in Top(a).todo
    /\ DepthAllowed(a) /\ d \notin Scope(a)
    /\ holder[d] # {}
    /\ visited' = [visited EXCEPT ![a] = Scope(a) \cup {d}]
    /\ fetched' = [fetched EXCEPT ![a] = IF Scope(a) = {} THEN 0 ELSE @]
    /\ waits' = [waits EXCEPT ![a] = {d}]
    /\ Ensured(a, d)
    /\ UNCHANGED <<source, table, batch, holder, swept, bounds>>

\* acquire succeeds: this actor ensures d, in a nested activation.
EnsureAcquire(a, d) ==
    /\ At(a, "hydrate")
    /\ d \in Top(a).todo
    /\ DepthAllowed(a) /\ d \notin Scope(a)
    /\ holder[d] = {}
    /\ visited' = [visited EXCEPT ![a] = Scope(a) \cup {d}]
    /\ fetched' = [fetched EXCEPT ![a] = IF Scope(a) = {} THEN 0 ELSE @]
    /\ holder' = [holder EXCEPT ![d] = {a}]
    /\ frame' = [frame EXCEPT ![a][depth[a]] = Advance([Top(a) EXCEPT !.todo = @ \ {d}]),
                              ![a][depth[a] + 1] = [NoFrame EXCEPT !.op = "ensure", !.pc = "load", !.uri = d]]
    /\ depth' = [depth EXCEPT ![a] = @ + 1]
    /\ UNCHANGED <<source, table, batch, waits, swept, bounds>>

\* EnsureRecord after acquire: use, reprocess or skip the local row, or fetch.
EnsureLoad(a) ==
    /\ At(a, "load") /\ Top(a).op = "ensure"
    /\ LET row == rows[Top(a).uri]
           stored == row.state \in {"deferred", "pending"} /\ row.raw /\ Kind[Top(a).uri] # "unsupported"
           go(f) == SetTop(a, f) /\ UNCHANGED fetched
       IN  \/ /\ row.ref # 0 \/ row.state = "failed"
              /\ go([Top(a) EXCEPT !.pc = "return"])
           \/ /\ row.ref = 0 /\ stored
              /\ go([Top(a) EXCEPT !.op = "record", !.cid = row.cid, !.raw = TRUE])
           \/ /\ row.ref = 0 /\ row.state # "failed" /\ ~stored
              /\ \/ /\ fetched[a] >= MaxFetch
                    /\ go([Top(a) EXCEPT !.pc = "error"])
                 \/ /\ fetched[a] < MaxFetch
                    /\ fetched' = [fetched EXCEPT ![a] = @ + 1]
                    /\ SetTop(a, [Top(a) EXCEPT !.pc = "fetch"])
    /\ UNCHANGED <<source, table, batch, visited, flights, swept, bounds>>

\* FetchRecord: the PDS serves some version of the record and it is processed.
Fetch(a) ==
    /\ At(a, "fetch")
    /\ Kind[Top(a).uri] # "unsupported"
    /\ \E c \in Remote[Top(a).uri] :
           SetTop(a, [Top(a) EXCEPT !.op = "record", !.pc = "load", !.cid = c, !.raw = TRUE])
    /\ UNCHANGED <<source, table, batch, scope, flights, swept, bounds>>

\* FetchRecord fails, or returns a record of an unsupported collection.
FetchFails(a) ==
    /\ At(a, "fetch")
    /\ \/ /\ Kind[Top(a).uri] = "unsupported" \/ Remote[Top(a).uri] = {}
          /\ UNCHANGED faults
       \/ faults < MaxFaults /\ faults' = faults + 1
    /\ SetTop(a, [Top(a) EXCEPT !.pc = "error"])
    /\ UNCHANGED <<source, table, batch, scope, flights, swept, resets>>

-----------------------------------------------------------------------------
(* ProcessRecord, ProcessDeletedRecord and the writes they end in.          *)

\* ProcessRecord: skip a version that is already published, else map it.
LoadRecord(a) ==
    /\ At(a, "load") /\ Top(a).op = "record"
    /\ LET f == Top(a)
           row == rows[f.uri]
           duplicate == row.ref # 0 /\ row.cid # NoCid /\ row.cid = f.cid
       IN  SetTop(a, IF duplicate THEN [f EXCEPT !.pc = "return"]
                     ELSE IF Kind[f.uri] = "unsupported" THEN [f EXCEPT !.pc = "error"]
                     ELSE StartMapping(f))
    /\ UNCHANGED <<source, table, batch, scope, flights, swept, bounds>>

\* ProcessDeletedRecord: a tombstone row, or a reversal message to publish.
LoadDelete(a) ==
    /\ At(a, "load") /\ Top(a).op = "delete"
    /\ LET row == rows[Top(a).uri]
           known == IF row.cid # NoCid THEN row.cid ELSE DeletedCid
           f == [Top(a) EXCEPT !.cid = IF @ # NoCid THEN @ ELSE known,
                               !.raw = @ \/ row.raw, !.deleted = TRUE]
       IN  SetTop(a, IF Kind[f.uri] = "plain" \/ ~f.raw
                     THEN [f EXCEPT !.pc = "persist", !.state = "deleted", !.links = row.links]
                     ELSE IF Kind[f.uri] = "reversible" THEN StartMapping(f)
                     ELSE [f EXCEPT !.pc = "error"])
    /\ UNCHANGED <<source, table, batch, scope, flights, swept, bounds>>

\* publisher.Publish appends the payload to the feed; markPublished.
Publish(a) ==
    LET f == Top(a)
    IN  /\ At(a, "publish")
        /\ Len(log) < MaxLog
        /\ log' = Append(log, [uri |-> f.uri, cid |-> f.cid, links |-> f.links,
                               deleted |-> f.deleted, by |-> f.op])
        /\ SetTop(a, [f EXCEPT !.pc = "persist", !.state = "published",
                               !.ref = Len(log) + 1, !.tries = 1])
        /\ UNCHANGED <<source, rows, batch, scope, flights, swept, bounds>>

\* Mutant of PublishFails: the ref is predicted and the error is dropped.
publishErrorDropped(a) ==
    /\ At(a, "publish")
    /\ faults < MaxFaults /\ faults' = faults + 1
    /\ SetTop(a, [Top(a) EXCEPT !.pc = "persist", !.state = "published",
                                !.ref = Len(log) + 1, !.tries = 1])
    /\ UNCHANGED <<source, table, batch, scope, flights, swept, resets>>

\* publisher.Publish returns an error; markPublishFailed.
PublishFails(a) ==
    /\ At(a, "publish")
    /\ faults < MaxFaults /\ faults' = faults + 1
    /\ SetTop(a, [Top(a) EXCEPT !.pc = "persist", !.state = "failed", !.tries = 1])
    /\ UNCHANGED <<source, table, batch, scope, flights, swept, resets>>

\* Mutant of AddMessage: an update without a ref keeps the ref of the row.
addMessageKeepingRef(f) ==
    rows' = [rows EXCEPT ![f.uri] =
                [state |-> f.state, cid |-> f.cid, ref |-> IF f.ref = 0 THEN @.ref ELSE f.ref,
                 links |-> f.links, attempts |-> @.attempts + f.tries,
                 deleted |-> f.deleted, raw |-> f.raw, age |-> 0]]

\* AddMessage: an upsert that overwrites every column, except that the publish
\* attempts of the row and of the update are added up.
AddMessage(f) ==
    rows' = [rows EXCEPT ![f.uri] =
                [state |-> f.state, cid |-> f.cid, ref |-> f.ref, links |-> f.links,
                 attempts |-> @.attempts + f.tries, deleted |-> f.deleted,
                 raw |-> f.raw, age |-> 0]]

Persist(a) ==
    /\ At(a, "persist")
    /\ AddMessage(Top(a))
    /\ SetTop(a, [Top(a) EXCEPT !.pc = "return"])
    /\ UNCHANGED <<source, log, batch, scope, flights, swept, bounds>>

PersistFails(a) ==
    /\ At(a, "persist")
    /\ FaultyDB
    /\ faults < MaxFaults /\ faults' = faults + 1
    /\ SetTop(a, [Top(a) EXCEPT !.pc = "error"])
    /\ UNCHANGED <<source, table, batch, scope, flights, swept, resets>>

\* Mutants of Finish: the waiters are not told, the map entry is not removed.
finishSilently(a) ==
    /\ At(a, "return") \/ At(a, "error")
    /\ depth[a] > 1
    /\ frame' = [frame EXCEPT ![a][depth[a]] = NoFrame]
    /\ depth' = [depth EXCEPT ![a] = @ - 1]
    /\ holder' = [holder EXCEPT ![Top(a).uri] = {}]
    /\ UNCHANGED <<source, table, batch, scope, waits, swept, bounds>>
finishHolding(a) ==
    /\ At(a, "return") \/ At(a, "error")
    /\ depth[a] > 1
    /\ frame' = [frame EXCEPT ![a][depth[a]] = NoFrame]
    /\ depth' = [depth EXCEPT ![a] = @ - 1]
    /\ waits' = [b \in Actor |-> waits[b] \ {Top(a).uri}]
    /\ UNCHANGED <<source, table, batch, scope, holder, swept, bounds>>

\* finish: a nested activation ends, its record leaves the in-flight map and
\* everyone waiting for it goes on.  hydrateRecordDependencies ignores errors.
Finish(a) ==
    LET u == Top(a).uri
    IN  /\ At(a, "return") \/ At(a, "error")
        /\ depth[a] > 1
        /\ frame' = [frame EXCEPT ![a][depth[a]] = NoFrame]
        /\ depth' = [depth EXCEPT ![a] = @ - 1]
        /\ holder' = [holder EXCEPT ![u] = {}]
        /\ waits' = [b \in Actor |-> waits[b] \ {u}]
        /\ UNCHANGED <<source, table, batch, scope, swept, bounds>>

\* A root activation ends: its dependency scope goes with it.
EndScope(a) ==
    /\ depth[a] = 1
    /\ frame' = [frame EXCEPT ![a][1] = NoFrame]
    /\ depth' = [depth EXCEPT ![a] = 0]
    /\ visited' = [visited EXCEPT ![a] = {}]
    /\ fetched' = [fetched EXCEPT ![a] = 0]

-----------------------------------------------------------------------------
(* The consumer of the event log (startIndexerConsumer).                    *)

\* HandleRecordEvent is called with the next event.
Consume ==
    LET e == events[next]
        op == IF e.act = "delete" THEN "delete" ELSE "record"
    IN  /\ Free("consumer")
        /\ next <= Len(events)
        /\ Push("consumer", [NoFrame EXCEPT !.op = op, !.pc = "load", !.uri = e.uri,
                                            !.cid = e.cid, !.raw = e.raw])
        /\ visited' = [visited EXCEPT !["consumer"] = IF op = "record" THEN {e.uri} ELSE {}]
        /\ UNCHANGED <<source, table, batch, fetched, flights, swept, bounds>>

\* The handler succeeded: the cursor is persisted (best effort).
Acknowledge ==
    /\ At("consumer", "return")
    /\ EndScope("consumer")
    /\ next' = next + 1
    /\ \/ cursor' = next /\ UNCHANGED faults
       \/ FaultyDB /\ faults < MaxFaults /\ faults' = faults + 1 /\ UNCHANGED cursor
    /\ UNCHANGED <<events, table, batch, flights, swept, resets>>

\* The handler failed: the event is logged and skipped, the cursor stays.
SkipEvent ==
    /\ At("consumer", "error")
    /\ EndScope("consumer")
    /\ next' = next + 1
    /\ UNCHANGED <<events, cursor, table, batch, flights, swept, bounds>>

-----------------------------------------------------------------------------
(* The schedulers: read a batch, then work through it row by row.           *)

Snapshot(S) == {[uri |-> u, row |-> rows[u]] : u \in S}
Rows(state) == {u \in URI : rows[u].state = state}

\* GetRetryCandidates.
RetryCandidates == {u \in Rows("failed") : rows[u].ref = 0 /\ rows[u].attempts < MaxAttempts}

ScanRetry ==
    /\ "retry" \in Schedulers /\ Free("retry") /\ batch["retry"] = {}
    /\ RetryCandidates # {}
    /\ batch' = [batch EXCEPT !["retry"] = Snapshot(RetryCandidates)]
    /\ UNCHANGED <<source, table, stacks, scope, flights, swept, bounds>>

\* GetDeferredCandidates puts the rows whose first missing reference is itself
\* deferred behind all others, and orders by the age of the last attempt.  With
\* several missing references any of them may be the first in the reason.
Blocked(B) ==
    \A u \in Rows("deferred") :
        LET open == Unresolved(u, rows[u].links)
            held == {d \in open : rows[d].state = "deferred"}
        IN  IF u \in B THEN held # {} ELSE open = {} \/ held # open
Before(u, v, B) ==
    \/ u \notin B /\ v \in B
    \/ (u \in B <=> v \in B) /\ rows[u].age > rows[v].age
DeferredCandidates(S, B) ==
    /\ Blocked(B)
    /\ Cardinality(S) = IF Cardinality(Rows("deferred")) < Limit
                        THEN Cardinality(Rows("deferred")) ELSE Limit
    /\ \A u \in S, v \in Rows("deferred") \ S : ~Before(v, u, B)

ScanDeferred ==
    /\ "deferred" \in Schedulers /\ Free("deferred") /\ batch["deferred"] = {}
    /\ Rows("deferred") # {}
    /\ \E S \in SUBSET Rows("deferred"), B \in SUBSET Rows("deferred") :
           /\ DeferredCandidates(S, B)
           /\ batch' = [batch EXCEPT !["deferred"] = Snapshot(S)]
    /\ swept' = TRUE
    /\ UNCHANGED <<source, table, stacks, scope, flights, bounds>>

\* GetExpiredDeferredMessages: the age counts from the last attempt.
ExpiredCandidates == {u \in Rows("deferred") : rows[u].age >= MaxAge}

ScanExpiry ==
    /\ "expiry" \in Schedulers /\ Free("expiry") /\ batch["expiry"] = {}
    /\ ExpiredCandidates # {}
    /\ batch' = [batch EXCEPT !["expiry"] = Snapshot(ExpiredCandidates)]
    /\ UNCHANGED <<source, table, stacks, scope, flights, swept, bounds>>

\* The update a candidate starts from: the columns of the row as it was read.
Resume(c, op, pc) ==
    [NoFrame EXCEPT !.op = op, !.pc = pc, !.uri = c.uri, !.cid = c.row.cid,
                    !.deleted = c.row.deleted, !.raw = c.row.raw, !.links = c.row.links]
Drop(a, c) == batch' = [batch EXCEPT ![a] = @ \ {c}]

\* resolveDeferredMessage maps the stored record again; the row is not reread.
BeginDeferred(c) ==
    /\ "deferred" \in Schedulers /\ Free("deferred") /\ c \in batch["deferred"]
    /\ Drop("deferred", c)
    /\ Push("deferred", StartMapping(Resume(c, "deferred", "resolve")))
    /\ visited' = [visited EXCEPT !["deferred"] = {c.uri}]
    /\ UNCHANGED <<source, table, fetched, flights, swept, bounds>>

\* retryMessage publishes the stored payload as it is.
BeginRetry(c) ==
    /\ "retry" \in Schedulers /\ Free("retry") /\ c \in batch["retry"]
    /\ Drop("retry", c)
    /\ Push("retry", Resume(c, "retry", "publish"))
    /\ UNCHANGED <<source, table, scope, flights, swept, bounds>>

\* retryDue is false: a message that was attempted backs off.
BackOff(c) ==
    /\ "retry" \in Schedulers /\ Free("retry") /\ c \in batch["retry"]
    /\ c.row.attempts > 0
    /\ Drop("retry", c)
    /\ UNCHANGED <<source, table, stacks, scope, flights, swept, bounds>>

\* ExpireDeferredMessages writes the row it read back as failed.
BeginExpire(c) ==
    /\ "expiry" \in Schedulers /\ Free("expiry") /\ c \in batch["expiry"]
    /\ Drop("expiry", c)
    /\ Push("expiry", [Resume(c, "expire", "persist") EXCEPT !.state = "failed",
                          !.ref = c.row.ref, !.tries = c.row.attempts])
    /\ UNCHANGED <<source, table, scope, flights, swept, bounds>>

\* A scheduler is done with a row, whether or not it succeeded.
EndRow(a) ==
    /\ a \in Schedulers
    /\ At(a, "return") \/ At(a, "error")
    /\ EndScope(a)
    /\ UNCHANGED <<source, table, batch, flights, swept, bounds>>

-----------------------------------------------------------------------------
(* The environment.                                                         *)

\* ResetMessageForRetry, called from the admin UI and the MCP server.
ResetMessageForRetry(u) ==
    /\ rows[u].state # "none"
    /\ resets < MaxResets /\ resets' = resets + 1
    /\ rows' = [rows EXCEPT ![u].state = "pending", ![u].attempts = 0, ![u].age = 0]
    /\ UNCHANGED <<source, log, stacks, batch, scope, flights, swept, faults>>

\* A day passes.  The resolver runs every 20 seconds, so that it completes a
\* pass between two ticks unless there is nothing for it to do.
Tick ==
    /\ \E u \in Rows("deferred") : rows[u].age < MaxAge
    /\ "deferred" \in Schedulers => swept /\ Free("deferred") /\ batch["deferred"] = {}
    /\ rows' = [u \in URI |-> IF rows[u].state = "deferred" /\ rows[u].age < MaxAge
                              THEN [rows[u] EXCEPT !.age = @ + 1] ELSE rows[u]]
    /\ swept' = FALSE
    /\ UNCHANGED <<source, log, stacks, batch, scope, flights, bounds>>

\* The process dies and restarts: the table, the feeds and the cursor remain.
Crash ==
    /\ faults < MaxFaults /\ faults' = faults + 1
    /\ next' = cursor + 1
    /\ frame' = [a \in Actor |-> [s \in Slot |-> NoFrame]]
    /\ depth' = [a \in Actor |-> 0]
    /\ batch' = [a \in Actor |-> {}]
    /\ visited' = [a \in Actor |-> {}]
    /\ fetched' = [a \in Actor |-> 0]
    /\ holder' = [u \in URI |-> {}]
    /\ waits' = [a \in Actor |-> {}]
    /\ UNCHANGED <<events, cursor, table, swept, resets>>

-----------------------------------------------------------------------------
\* What an actor does on its own once it is at work on a record.
Work(a) ==
    \/ \E d \in URI : LookupRef(a, d) \/ EnsureSkip(a, d) \/ EnsureWait(a, d) \/ EnsureAcquire(a, d)
    \/ EnsureLoad(a) \/ Fetch(a) \/ FetchFails(a)
    \/ LoadRecord(a) \/ LoadDelete(a)
    \/ Publish(a) \/ PublishFails(a)
    \/ Persist(a) \/ PersistFails(a)
    \/ Finish(a)

ConsumerStep == Consume \/ Acknowledge \/ SkipEvent
Candidates(a) == IF a \in Schedulers THEN batch[a] ELSE {}
SchedulerStep ==
    \/ ScanRetry \/ ScanDeferred \/ ScanExpiry
    \/ \E a \in Schedulers : EndRow(a)
    \/ \E c \in Candidates("deferred") : BeginDeferred(c)
    \/ \E c \in Candidates("retry") : BeginRetry(c) \/ BackOff(c)
    \/ \E c \in Candidates("expiry") : BeginExpire(c)

Next ==
    \/ \E a \in Actor : Work(a)
    \/ ConsumerStep
    \/ SchedulerStep
    \/ \E u \in URI : ResetMessageForRetry(u)
    \/ Tick
    \/ Crash

Spec == Init /\ [][Next]_vars

\* The Go scheduler runs every runnable goroutine and the tickers keep firing.
\* A message that backs off is due after at most ten minutes, and time passes:
\* BeginRetry and Tick are not postponed for ever although other steps of the
\* schedulers disable them now and then.
Fairness ==
    /\ \A a \in Actor : WF_vars(Work(a))
    /\ WF_vars(ConsumerStep)
    /\ WF_vars(ScanRetry) /\ WF_vars(ScanDeferred) /\ WF_vars(ScanExpiry)
    /\ \A a \in Schedulers : WF_vars(EndRow(a))
    /\ WF_vars(\E c \in Candidates("deferred") : BeginDeferred(c))
    /\ WF_vars(\E c \in Candidates("expiry") : BeginExpire(c))
    /\ WF_vars(\E c \in Candidates("retry") : BeginRetry(c) \/ BackOff(c))
    /\ \A u \in URI : SF_vars(\E c \in Candidates("retry") : c.uri = u /\ BeginRetry(c))
    /\ SF_vars(Tick)

FairSpec == Spec /\ Fairness

-----------------------------------------------------------------------------
\* A published message refers only to messages that were in the log before it,
\* and to the one of the record it means: no dangling, forward or crossed SSB
\* link, whatever update, retry or crash lies between lookup and publish.
CausalLinks ==
    \A i \in 1..Len(log) : \A d \in URI :
        log[i].links[d] # 0 => log[i].links[d] < i /\ log[log[i].links[d]].uri = d

\* A row that carries a message ref names a message of this record, published
\* for the version and the deletion state the row shows; a row never says
\* "published" without a message.
RowsMatchLog ==
    \A u \in URI :
        /\ rows[u].state = "published" => rows[u].ref # 0
        /\ rows[u].ref # 0 =>
               /\ rows[u].ref <= Len(log)
               /\ log[rows[u].ref].uri = u
               /\ log[rows[u].ref].cid = rows[u].cid
               /\ log[rows[u].ref].deleted = rows[u].deleted
               /\ rows[u].state \in {"published", "pending"}

\* Whoever waits for a record in flight waits for another goroutine that is
\* still ensuring it: finish never leaves a waiter behind.
NoLostWakeup ==
    \A a \in Actor : \A u \in waits[a] : holder[u] # {} /\ a \notin holder[u]

\* No set of goroutines waits in a circle.
NoWaitCycle ==
    \A S \in SUBSET Actor :
        (\A a \in S : \E u \in waits[a] : holder[u] \cap S # {}) => S = {}

\* Placeholders are published by nothing but retryMessage.
OnlyRetryLeaks ==
    \A i \in 1..Len(log) :
        Unresolved(log[i].uri, log[i].links) # {} => log[i].by = "retry"

\* SanitizeForPublish: "These fields are bridge-internal and must never appear
\* in published messages", and "deferred records are retried and published with
\* real SSB refs".
NoPlaceholderPublished ==
    \A i \in 1..Len(log) : Unresolved(log[i].uri, log[i].links) = {}

\* The consumer gets through the event log: no dependency wait, failure or
\* restart stops it for good.
EventsConsumed == <>(next > Len(events))

\* "Once the missing dependency is bridged, deferred records are retried and
\* published with real SSB refs": a deferred row all of whose references are in
\* the publish log does not stay deferred.
Bridged(d) == \E i \in 1..Len(log) : log[i].uri = d
DeferredResolves ==
    \A u \in URI :
        (rows[u].state = "deferred" /\ \A d \in Refs[u] : Bridged(d))
            ~> rows[u].state # "deferred"

\* A failed message is retried until it is published or its attempts are used up.
RetryTerminates ==
    \A u \in URI :
        rows[u].state = "failed"
            ~> (rows[u].state # "failed" \/ rows[u].attempts >= MaxAttempts)

\* The MCP tool bridge_retry, "Reset a specific message for retry by AT URI":
\* a message that was reset is picked up again.
ResetIsRetried ==
    \A u \in URI : rows[u].state = "pending" ~> rows[u].state # "pending"
=============================================================================
