--------------------------- MODULE ProcessorProofs ---------------------------
(***************************************************************************)
(* Proofs about Processor for any set of records, any references between    *)
(* them, any event logs and any bounds: type correctness; that neither the  *)
(* publish log nor the messages table ever names a message that is not the  *)
(* right one; that no wake-up of the in-flight map is lost; that only       *)
(* retries publish placeholders; and, when the references have no circle,   *)
(* that no goroutines wait for one another for ever.                        *)
(***************************************************************************)
EXTENDS Processor, TLAPS

\* Every ref of the payload l names an earlier message of the log lg, of the
\* record it stands for.
LinksBacked(l, lg) ==
    \A d \in URI : l[d] # 0 => l[d] <= Len(lg) /\ lg[l[d]].uri = d

\* The ref r names the message published for this version of u.
RefBacked(u, cid, deleted, r, lg) ==
    /\ r <= Len(lg)
    /\ lg[r].uri = u /\ lg[r].cid = cid /\ lg[r].deleted = deleted

RowBacked(u, row, lg) ==
    /\ LinksBacked(row.links, lg)
    /\ row.state = "published" => row.ref # 0
    /\ row.ref # 0 => /\ RefBacked(u, row.cid, row.deleted, row.ref, lg)
                      /\ row.state \in {"published", "pending"}

\* An activation has a ref only after its own publish, and then shows what it
\* published.
FrameBacked(f, lg) ==
    /\ LinksBacked(f.links, lg)
    /\ f.state = "published" => f.ref # 0
    /\ f.ref # 0 => /\ RefBacked(f.uri, f.cid, f.deleted, f.ref, lg)
                    /\ f.state = "published"
                    /\ f.pc \in {"persist", "return", "error"}

\* A row a scheduler read was not published when it was read.
CandidateBacked(c, lg) == LinksBacked(c.row.links, lg) /\ c.row.ref = 0

RowsBacked == \A u \in URI : RowBacked(u, rows[u], log)
FramesBacked == \A a \in Actor : \A s \in Slot : FrameBacked(frame[a][s], log)
BatchesBacked == \A a \in Actor : \A c \in batch[a] : CandidateBacked(c, log)

\* The inductive invariant behind CausalLinks and RowsMatchLog.
Backed == RowsBacked /\ FramesBacked /\ BatchesBacked /\ CausalLinks
IInv == TypeOK /\ Backed

-----------------------------------------------------------------------------
(* What the helpers return.                                                 *)

\* The empty activation is an activation.
LEMMA NoFrameType == NoFrame \in Frame /\ NoRow \in Row /\ NoLinks \in Links
<1>1. (CHOOSE u \in URI : TRUE) \in URI
    BY URIAssumption
<1>2. NoLinks \in Links
    BY DEF NoLinks, Links
<1> QED
    BY <1>1, <1>2 DEF NoFrame, Frame, NoRow, Row, Op, Pc, Cid, State

\* Changing the program counter and the outcome of an activation.
LEMMA FrameUpdate ==
    ASSUME NEW f \in Frame, NEW p \in Pc, NEW st \in State, NEW t \in SUBSET URI, NEW l \in Links
    PROVE  /\ [f EXCEPT !.pc = p] \in Frame
           /\ [f EXCEPT !.pc = p, !.state = st] \in Frame
           /\ [f EXCEPT !.pc = p, !.todo = t] \in Frame
           /\ [f EXCEPT !.todo = t] \in Frame
           /\ [f EXCEPT !.pc = p, !.links = l, !.todo = t] \in Frame
           /\ [f EXCEPT !.todo = t, !.links = l] \in Frame
           /\ [f EXCEPT !.pc = p, !.state = st, !.links = l] \in Frame
    BY DEF Frame

\* mapMappedRecord moves an activation on; the payload and the call stay.
LEMMA AdvanceFacts ==
    ASSUME NEW f \in Frame
    PROVE  /\ Advance(f) \in Frame
           /\ Advance(f).uri = f.uri /\ Advance(f).cid = f.cid /\ Advance(f).op = f.op
           /\ Advance(f).deleted = f.deleted /\ Advance(f).links = f.links
           /\ Advance(f).ref = f.ref
           /\ Advance(f).state \in {f.state, "deferred"}
<1>1. Unresolved(f.uri, f.links) \in SUBSET URI
    BY RefsAssumption DEF Unresolved, Frame
<1>2. /\ Decide(f) \in Frame
      /\ Decide(f).uri = f.uri /\ Decide(f).cid = f.cid /\ Decide(f).op = f.op
      /\ Decide(f).deleted = f.deleted /\ Decide(f).links = f.links
      /\ Decide(f).ref = f.ref
      /\ Decide(f).state \in {f.state, "deferred"}
  <2>1. LET g == [f EXCEPT !.pc = "persist", !.state = "deferred"]
        IN  /\ g \in Frame
            /\ g.uri = f.uri /\ g.cid = f.cid /\ g.op = f.op
            /\ g.deleted = f.deleted /\ g.links = f.links
            /\ g.ref = f.ref /\ g.state = "deferred"
      BY DEF Frame, Pc, State
  <2>2. LET g == [f EXCEPT !.pc = "publish"]
        IN  /\ g \in Frame
            /\ g.uri = f.uri /\ g.cid = f.cid /\ g.op = f.op
            /\ g.deleted = f.deleted /\ g.links = f.links
            /\ g.ref = f.ref /\ g.state = f.state
      BY DEF Frame, Pc
  <2> QED BY <2>1, <2>2 DEF Decide
<1>3. \A p \in Pc : \A t \in SUBSET URI :
      LET g == [f EXCEPT !.pc = p, !.todo = t]
      IN  /\ g \in Frame
          /\ g.uri = f.uri /\ g.cid = f.cid /\ g.op = f.op
          /\ g.deleted = f.deleted /\ g.links = f.links
          /\ g.ref = f.ref /\ g.state = f.state
    BY FrameUpdate DEF Frame
<1>4. Unresolved(f.uri, f.links) \cap Hydrated[f.uri] \in SUBSET URI
    BY <1>1
<1>5. "hydrate" \in Pc /\ "resolve2" \in Pc
    BY DEF Pc
<1> QED
    BY <1>1, <1>2, <1>3, <1>4, <1>5 DEF Advance

\* An activation that has not published stays without a ref as it moves on.
LEMMA AdvanceBacked ==
    ASSUME NEW f \in Frame, NEW lg, LinksBacked(f.links, lg), f.ref = 0, f.state # "published"
    PROVE  Advance(f) \in Frame /\ FrameBacked(Advance(f), lg)
    BY AdvanceFacts DEF FrameBacked

\* An empty set of links is backed by every log.
LEMMA NoLinksBacked == \A lg : LinksBacked(NoLinks, lg)
    BY DEF LinksBacked, NoLinks

\* An idle frame is backed by every log.
LEMMA NoFrameBacked == \A lg : FrameBacked(NoFrame, lg)
    BY NoLinksBacked DEF FrameBacked, NoFrame

\* Mapping starts from an empty payload.
LEMMA StartMappingFacts ==
    ASSUME NEW f \in Frame, NEW lg, f.ref = 0, f.state # "published"
    PROVE  StartMapping(f) \in Frame /\ FrameBacked(StartMapping(f), lg)
<1> DEFINE g == [f EXCEPT !.pc = "resolve", !.links = NoLinks, !.todo = Refs[f.uri]]
<1>1. Refs[f.uri] \in SUBSET URI /\ "resolve" \in Pc
    BY RefsAssumption DEF Frame, Pc
<1>2. g \in Frame
    BY <1>1, NoFrameType DEF Frame
<1>3. g.ref = 0 /\ g.state # "published" /\ g.links = NoLinks
    BY DEF Frame
<1>4. Advance(g) \in Frame /\ FrameBacked(Advance(g), lg)
    BY <1>2, <1>3, NoLinksBacked, AdvanceBacked
<1> QED
    BY <1>4 DEF StartMapping

-----------------------------------------------------------------------------
(* What a step leaves true.                                                 *)

\* The top activation is one, and backed by the log.
LEMMA TopFacts ==
    ASSUME IInv, NEW a \in Actor, depth[a] > 0
    PROVE  /\ depth[a] \in Slot
           /\ Top(a) \in Frame
           /\ FrameBacked(Top(a), log)
<1>1. depth[a] \in 0..(MaxDepth + 1)
    BY DEF IInv, TypeOK
<1>2. depth[a] \in Slot
    BY <1>1, BoundsAssumption DEF Slot
<1> QED
    BY <1>2 DEF IInv, TypeOK, Top, Backed, FramesBacked

\* Replacing the activation of one slot.
LEMMA SlotUpdate ==
    ASSUME IInv, NEW a \in Actor, NEW s \in Slot, NEW f \in Frame,
           FrameBacked(f, log), log' = log,
           frame' = [frame EXCEPT ![a][s] = f]
    PROVE  /\ frame' \in [Actor -> [Slot -> Frame]]
           /\ FramesBacked'
<1>1. frame \in [Actor -> [Slot -> Frame]]
    BY DEF IInv, TypeOK
<1>2. frame' \in [Actor -> [Slot -> Frame]]
    BY <1>1
<1>3. ASSUME NEW b \in Actor, NEW t \in Slot
      PROVE  FrameBacked(frame'[b][t], log')
  <2>1. frame'[b][t] = IF b = a /\ t = s THEN f ELSE frame[b][t]
      BY <1>1
  <2>2. FrameBacked(frame[b][t], log)
      BY DEF IInv, Backed, FramesBacked
  <2> QED
      BY <2>1, <2>2
<1> QED
    BY <1>2, <1>3 DEF FramesBacked

\* Replacing the top frame of a goroutine by a backed one.
LEMMA SetTopSafe ==
    ASSUME IInv, NEW a \in Actor, depth[a] > 0, NEW f \in Frame,
           FrameBacked(f, log), log' = log, SetTop(a, f)
    PROVE  /\ frame' \in [Actor -> [Slot -> Frame]]
           /\ depth' \in [Actor -> 0..(MaxDepth + 1)]
           /\ FramesBacked'
<1>1. depth[a] \in Slot
    BY TopFacts
<1>2. depth' = depth /\ frame' = [frame EXCEPT ![a][depth[a]] = f]
    BY DEF SetTop
<1>3. depth' \in [Actor -> 0..(MaxDepth + 1)]
    BY <1>2 DEF IInv, TypeOK
<1> QED
    BY <1>1, <1>2, <1>3, SlotUpdate

\* Pushing a backed frame.
LEMMA PushSafe ==
    ASSUME IInv, NEW a \in Actor, Free(a), NEW f \in Frame,
           FrameBacked(f, log), log' = log, Push(a, f)
    PROVE  /\ frame' \in [Actor -> [Slot -> Frame]]
           /\ depth' \in [Actor -> 0..(MaxDepth + 1)]
           /\ FramesBacked'
<1>1. depth[a] = 0 /\ 1 \in Slot /\ depth[a] + 1 = 1
    BY BoundsAssumption DEF Free, Slot
<1>2. depth' = [depth EXCEPT ![a] = 1] /\ frame' = [frame EXCEPT ![a][1] = f]
    BY <1>1 DEF Push
<1>3. depth' \in [Actor -> 0..(MaxDepth + 1)]
    BY <1>2, BoundsAssumption DEF IInv, TypeOK
<1> QED
    BY <1>1, <1>2, <1>3, SlotUpdate

\* The steps that touch neither the table nor the log nor a batch.
LEMMA QuietStep ==
    ASSUME IInv, UNCHANGED <<rows, log, batch>>, FramesBacked'
    PROVE  Backed'
<1>1. RowsBacked'
    BY DEF IInv, Backed, RowsBacked
<1>2. BatchesBacked'
    BY DEF IInv, Backed, BatchesBacked
<1>3. CausalLinks'
    BY DEF IInv, Backed, CausalLinks
<1> QED
    BY <1>1, <1>2, <1>3 DEF Backed
\* Moving the top activation of one goroutine and counting at most a fault.
LEMMA LocalStep ==
    ASSUME IInv, NEW a \in Actor, depth[a] > 0, NEW f \in Frame,
           FrameBacked(f, log), SetTop(a, f),
           UNCHANGED <<source, table, batch, scope, flights, swept, resets>>,
           faults' \in 0..MaxFaults
    PROVE  IInv'
<1>1. UNCHANGED <<rows, log, batch, events, next, cursor, visited, fetched, holder, waits, swept, resets>>
    BY DEF source, table, scope, flights
<1>2. /\ frame' \in [Actor -> [Slot -> Frame]]
      /\ depth' \in [Actor -> 0..(MaxDepth + 1)]
      /\ FramesBacked'
    BY <1>1, SetTopSafe
<1>3. Backed'
    BY <1>1, <1>2, QuietStep
<1>4. TypeOK'
    BY <1>1, <1>2 DEF IInv, TypeOK
<1> QED
    BY <1>3, <1>4 DEF IInv

\* A step that counts no fault, or one within the bound.
LEMMA FaultType ==
    ASSUME IInv, UNCHANGED faults \/ (faults < MaxFaults /\ faults' = faults + 1)
    PROVE  faults' \in 0..MaxFaults
    BY BoundsAssumption DEF IInv, TypeOK

\* Marking a reference as dealt with, with the ref found for it.
LEMMA MarkFacts ==
    ASSUME NEW f \in Frame, NEW lg, NEW d \in URI, FrameBacked(f, lg), f.ref = 0,
           f.state # "published"
    PROVE  /\ LET g == [f EXCEPT !.todo = @ \ {d}]
              IN  Advance(g) \in Frame /\ FrameBacked(Advance(g), lg)
           /\ \A r \in Nat :
                (r # 0 => r <= Len(lg) /\ lg[r].uri = d) =>
                LET g == [f EXCEPT !.todo = @ \ {d}, !.links[d] = r]
                IN  Advance(g) \in Frame /\ FrameBacked(Advance(g), lg)
<1>1. f.todo \ {d} \in SUBSET URI /\ f.links \in Links
    BY DEF Frame
<1>2. LET g == [f EXCEPT !.todo = @ \ {d}]
      IN  g \in Frame /\ g.ref = 0 /\ g.state # "published" /\ g.links = f.links
    BY <1>1 DEF Frame
<1>3. LinksBacked(f.links, lg)
    BY DEF FrameBacked
<1>4. ASSUME NEW r \in Nat, r # 0 => r <= Len(lg) /\ lg[r].uri = d
      PROVE  LET g == [f EXCEPT !.todo = @ \ {d}, !.links[d] = r]
             IN  Advance(g) \in Frame /\ FrameBacked(Advance(g), lg)
  <2> DEFINE l == [f.links EXCEPT ![d] = r]
             g == [f EXCEPT !.todo = @ \ {d}, !.links[d] = r]
  <2>1. l \in Links
      BY <1>1 DEF Links
  <2>2. LinksBacked(l, lg)
      BY <1>1, <1>3, <1>4 DEF LinksBacked, Links
  <2>3. g = [f EXCEPT !.todo = f.todo \ {d}, !.links = l]
      BY <1>1 DEF Frame
  <2>4. g \in Frame /\ g.ref = 0 /\ g.state # "published" /\ g.links = l
      BY <1>1, <2>1, <2>3 DEF Frame
  <2> HIDE DEF g, l
  <2>5. Advance(g) \in Frame /\ FrameBacked(Advance(g), lg)
      BY <2>2, <2>4, AdvanceBacked
  <2> QED
      BY <2>5 DEF g
<1>5. LET g == [f EXCEPT !.todo = @ \ {d}]
      IN  Advance(g) \in Frame /\ FrameBacked(Advance(g), lg)
    BY <1>2, <1>3, AdvanceBacked
<1> QED
    BY <1>4, <1>5

\* The look-up of a reference in the table.
LEMMA LookupRefStep ==
    ASSUME IInv, NEW a \in Actor, NEW d \in URI, LookupRef(a, d)
    PROVE  IInv'
<1> DEFINE f == Top(a)
<1>1. depth[a] > 0 /\ f.pc \in {"resolve", "resolve2"}
    BY DEF LookupRef, At
<1>2. f \in Frame /\ FrameBacked(f, log)
    BY <1>1, TopFacts
<1>3. f.ref = 0 /\ f.state # "published"
    BY <1>1, <1>2 DEF FrameBacked
<1>4. rows[d].ref \in Nat /\ (rows[d].ref # 0 => rows[d].ref <= Len(log) /\ log[rows[d].ref].uri = d)
    BY DEF IInv, TypeOK, Row, Backed, RowsBacked, RowBacked, RefBacked
<1> DEFINE g == [f EXCEPT !.todo = @ \ {d}, !.links[d] = rows[d].ref]
<1>5. Advance(g) \in Frame /\ FrameBacked(Advance(g), log)
    BY <1>2, <1>3, <1>4, MarkFacts
<1>6. SetTop(a, Advance(g)) /\ UNCHANGED <<source, table, batch, scope, flights, swept, resets>> /\ UNCHANGED faults
    BY DEF LookupRef, bounds
<1>7. faults' \in 0..MaxFaults
    BY <1>6, FaultType
<1> HIDE DEF g
<1> QED
    BY <1>1, <1>5, <1>6, <1>7, LocalStep
\* A dependency is dealt with, one way or another: the hydrating activation
\* stays as it was apart from its list.
LEMMA EnsuredFacts ==
    ASSUME IInv, NEW a \in Actor, NEW d \in URI, At(a, "hydrate")
    PROVE  LET g == Advance([Top(a) EXCEPT !.todo = @ \ {d}])
           IN  g \in Frame /\ FrameBacked(g, log) /\ depth[a] > 0
<1> DEFINE f == Top(a)
<1>1. depth[a] > 0 /\ f.pc = "hydrate"
    BY DEF At
<1>2. f \in Frame /\ FrameBacked(f, log)
    BY <1>1, TopFacts
<1>3. f.ref = 0 /\ f.state # "published"
    BY <1>1, <1>2 DEF FrameBacked
<1> QED
    BY <1>1, <1>2, <1>3, MarkFacts

\* A reference that needs no work.
LEMMA EnsureSkipStep ==
    ASSUME IInv, NEW a \in Actor, NEW d \in URI, EnsureSkip(a, d)
    PROVE  IInv'
<1> DEFINE g == Advance([Top(a) EXCEPT !.todo = @ \ {d}])
<1>1. At(a, "hydrate") /\ SetTop(a, g) /\ UNCHANGED faults
      /\ UNCHANGED <<source, table, batch, scope, flights, swept, resets>>
    BY DEF EnsureSkip, Ensured, bounds
<1>2. g \in Frame /\ FrameBacked(g, log) /\ depth[a] > 0
    BY <1>1, EnsuredFacts
<1>3. faults' \in 0..MaxFaults
    BY <1>1, FaultType
<1> HIDE DEF g
<1> QED
    BY <1>1, <1>2, <1>3, LocalStep

\* The dependency scope stays a set of records and the fetches stay bounded.
LEMMA ScopeType ==
    ASSUME IInv, NEW a \in Actor, NEW d \in URI,
           visited' = [visited EXCEPT ![a] = Scope(a) \cup {d}],
           fetched' = [fetched EXCEPT ![a] = IF Scope(a) = {} THEN 0 ELSE @]
    PROVE  /\ visited' \in [Actor -> SUBSET URI]
           /\ fetched' \in [Actor -> 0..MaxFetch]
<1>1. Scope(a) \in SUBSET URI
    BY DEF Scope, IInv, TypeOK
<1>2. 0 \in 0..MaxFetch
    BY BoundsAssumption
<1> QED
    BY <1>1, <1>2 DEF IInv, TypeOK

\* Waiting for a record that another goroutine has in flight.
LEMMA EnsureWaitStep ==
    ASSUME IInv, NEW a \in Actor, NEW d \in URI, EnsureWait(a, d)
    PROVE  IInv'
<1> DEFINE g == Advance([Top(a) EXCEPT !.todo = @ \ {d}])
<1>1. /\ At(a, "hydrate") /\ SetTop(a, g)
      /\ UNCHANGED <<events, next, cursor, rows, log, batch, holder, swept, faults, resets>>
      /\ visited' = [visited EXCEPT ![a] = Scope(a) \cup {d}]
      /\ fetched' = [fetched EXCEPT ![a] = IF Scope(a) = {} THEN 0 ELSE @]
      /\ waits' = [waits EXCEPT ![a] = {d}]
    BY DEF EnsureWait, Ensured, bounds, source, table
<1>2. g \in Frame /\ FrameBacked(g, log) /\ depth[a] > 0
    BY <1>1, EnsuredFacts
<1> HIDE DEF g
<1>3. /\ frame' \in [Actor -> [Slot -> Frame]]
      /\ depth' \in [Actor -> 0..(MaxDepth + 1)]
      /\ FramesBacked'
    BY <1>1, <1>2, SetTopSafe
<1>4. Backed'
    BY <1>1, <1>3, QuietStep
<1>5. visited' \in [Actor -> SUBSET URI] /\ fetched' \in [Actor -> 0..MaxFetch]
    BY <1>1, ScopeType
<1>6. waits' \in [Actor -> SUBSET URI]
    BY <1>1 DEF IInv, TypeOK
<1>7. TypeOK'
    BY <1>1, <1>3, <1>5, <1>6 DEF IInv, TypeOK
<1> QED
    BY <1>4, <1>7 DEF IInv

\* Taking a record in flight.
LEMMA EnsureAcquireStep ==
    ASSUME IInv, NEW a \in Actor, NEW d \in URI, EnsureAcquire(a, d)
    PROVE  IInv'
<1> DEFINE g == Advance([Top(a) EXCEPT !.todo = @ \ {d}])
           h == [NoFrame EXCEPT !.op = "ensure", !.pc = "load", !.uri = d]
           s == depth[a]
<1>1. /\ At(a, "hydrate") /\ DepthAllowed(a)
      /\ UNCHANGED <<events, next, cursor, rows, log, batch, waits, swept, faults, resets>>
      /\ visited' = [visited EXCEPT ![a] = Scope(a) \cup {d}]
      /\ fetched' = [fetched EXCEPT ![a] = IF Scope(a) = {} THEN 0 ELSE @]
      /\ holder' = [holder EXCEPT ![d] = {a}]
      /\ depth' = [depth EXCEPT ![a] = s + 1]
      /\ frame' = [frame EXCEPT ![a][s] = g, ![a][s + 1] = h]
    BY DEF EnsureAcquire, bounds, source, table
<1>2. g \in Frame /\ FrameBacked(g, log) /\ depth[a] > 0
    BY <1>1, EnsuredFacts
<1>3. s \in Slot /\ s + 1 \in Slot /\ s + 1 \in 0..(MaxDepth + 1)
    BY <1>1, <1>2, TopFacts, BoundsAssumption DEF DepthAllowed, Slot
<1>4. h \in Frame /\ h.links = NoLinks /\ h.ref = 0 /\ h.state = "none"
    BY NoFrameType DEF NoFrame, Frame, Op, Pc
<1>5. FrameBacked(h, log)
    BY <1>4, NoLinksBacked DEF FrameBacked
<1> HIDE DEF g, h, s
<1>6. frame \in [Actor -> [Slot -> Frame]]
    BY DEF IInv, TypeOK
<1>7. frame' \in [Actor -> [Slot -> Frame]]
    BY <1>1, <1>2, <1>3, <1>4, <1>6
<1>8. ASSUME NEW b \in Actor, NEW t \in Slot
      PROVE  FrameBacked(frame'[b][t], log')
  <2>1. frame'[b][t] \in {g, h, frame[b][t]}
      BY <1>1, <1>3, <1>6
  <2>2. FrameBacked(frame[b][t], log)
      BY DEF IInv, Backed, FramesBacked
  <2> QED
      BY <1>1, <1>2, <1>5, <2>1, <2>2
<1>9. FramesBacked'
    BY <1>8 DEF FramesBacked
<1>10. Backed'
    BY <1>1, <1>9, QuietStep
<1>11. visited' \in [Actor -> SUBSET URI] /\ fetched' \in [Actor -> 0..MaxFetch]
    BY <1>1, ScopeType
<1>12. holder' \in [URI -> SUBSET Actor] /\ depth' \in [Actor -> 0..(MaxDepth + 1)]
    BY <1>1, <1>3 DEF IInv, TypeOK
<1>13. TypeOK'
    BY <1>1, <1>7, <1>11, <1>12 DEF IInv, TypeOK
<1> QED
    BY <1>10, <1>13 DEF IInv
\* Changing where an activation that has not published goes next, or ending one.
LEMMA MoveFacts ==
    ASSUME NEW f \in Frame, NEW lg, FrameBacked(f, lg), NEW p \in Pc
    PROVE  LET g == [f EXCEPT !.pc = p]
           IN  g \in Frame /\ (f.ref = 0 \/ p \in {"return", "error"} => FrameBacked(g, lg))
<1> DEFINE g == [f EXCEPT !.pc = p]
<1>1. g \in Frame
    BY DEF Frame
<1>2. /\ g.pc = p /\ g.links = f.links /\ g.state = f.state /\ g.ref = f.ref
      /\ g.uri = f.uri /\ g.cid = f.cid /\ g.deleted = f.deleted
    BY DEF Frame
<1> QED
    BY <1>1, <1>2 DEF FrameBacked

\* The stored row of a dependency, or the request for it.
LEMMA EnsureLoadStep ==
    ASSUME IInv, NEW a \in Actor, EnsureLoad(a)
    PROVE  IInv'
<1> DEFINE f == Top(a)
           row == rows[f.uri]
<1>1. /\ depth[a] > 0 /\ f.pc = "load"
      /\ UNCHANGED <<source, table, batch, visited, flights, swept, bounds>>
    BY DEF EnsureLoad, At
<1>2. f \in Frame /\ FrameBacked(f, log)
    BY <1>1, TopFacts
<1>3. f.ref = 0 /\ f.state # "published"
    BY <1>1, <1>2 DEF FrameBacked
<1>4. row \in Row
    BY <1>2 DEF IInv, TypeOK, Frame
<1>5. "return" \in Pc /\ "error" \in Pc /\ "fetch" \in Pc
    BY DEF Pc
<1> DEFINE g == [f EXCEPT !.op = "record", !.cid = row.cid, !.raw = TRUE]
<1>6. g \in Frame /\ FrameBacked(g, log)
  <2>1. g \in Frame /\ g.links = f.links /\ g.state = f.state /\ g.ref = f.ref
      BY <1>2, <1>4 DEF Frame, Row, Op
  <2> QED
      BY <1>2, <1>3, <2>1 DEF FrameBacked
<1>7. PICK k \in Frame : FrameBacked(k, log) /\ SetTop(a, k)
  <2>1. \/ SetTop(a, [f EXCEPT !.pc = "return"]) \/ SetTop(a, g)
        \/ SetTop(a, [f EXCEPT !.pc = "error"]) \/ SetTop(a, [f EXCEPT !.pc = "fetch"])
      BY DEF EnsureLoad
  <2>2. \A p \in {"return", "error", "fetch"} :
            [f EXCEPT !.pc = p] \in Frame /\ FrameBacked([f EXCEPT !.pc = p], log)
      BY <1>2, <1>3, <1>5, MoveFacts
  <2> HIDE DEF g, f
  <2> QED
      BY <1>6, <2>1, <2>2
<1>8. fetched' \in [Actor -> 0..MaxFetch]
  <2>1. fetched' = fetched \/ (fetched[a] < MaxFetch /\ fetched' = [fetched EXCEPT ![a] = @ + 1])
      BY DEF EnsureLoad
  <2>2. fetched \in [Actor -> 0..MaxFetch]
      BY DEF IInv, TypeOK
  <2>3. fetched[a] < MaxFetch => fetched[a] + 1 \in 0..MaxFetch
      BY <2>2, BoundsAssumption
  <2> QED
      BY <2>1, <2>2, <2>3
<1>9. UNCHANGED <<rows, log, batch, events, next, cursor, visited, holder, waits, swept, faults, resets>>
    BY <1>1 DEF source, table, flights, bounds
<1>10. /\ frame' \in [Actor -> [Slot -> Frame]]
       /\ depth' \in [Actor -> 0..(MaxDepth + 1)]
       /\ FramesBacked'
    BY <1>1, <1>7, <1>9, SetTopSafe
<1>11. Backed'
    BY <1>9, <1>10, QuietStep
<1>12. TypeOK'
    BY <1>8, <1>9, <1>10 DEF IInv, TypeOK
<1> QED
    BY <1>11, <1>12 DEF IInv

\* The answer to the request for a dependency.
LEMMA FetchStep ==
    ASSUME IInv, NEW a \in Actor, Fetch(a)
    PROVE  IInv'
<1> DEFINE f == Top(a)
<1>1. /\ depth[a] > 0 /\ f.pc = "fetch" /\ UNCHANGED faults
      /\ UNCHANGED <<source, table, batch, scope, flights, swept, resets>>
    BY DEF Fetch, At, bounds
<1>2. f \in Frame /\ FrameBacked(f, log)
    BY <1>1, TopFacts
<1>3. f.ref = 0 /\ f.state # "published"
    BY <1>1, <1>2 DEF FrameBacked
<1>4. PICK c \in Remote[f.uri] :
          SetTop(a, [f EXCEPT !.op = "record", !.pc = "load", !.cid = c, !.raw = TRUE])
    BY DEF Fetch
<1> DEFINE g == [f EXCEPT !.op = "record", !.pc = "load", !.cid = c, !.raw = TRUE]
<1>5. c \in Cid
    BY <1>2, RemoteAssumption DEF Cid, Frame
<1>6. g \in Frame /\ g.links = f.links /\ g.state = f.state /\ g.ref = f.ref
    BY <1>2, <1>5 DEF Frame, Op, Pc
<1>7. FrameBacked(g, log)
    BY <1>2, <1>3, <1>6 DEF FrameBacked
<1>8. SetTop(a, g)
    BY <1>4
<1>9. faults' \in 0..MaxFaults
    BY <1>1, FaultType
<1> HIDE DEF g
<1> QED
    BY <1>1, <1>6, <1>7, <1>8, <1>9, LocalStep

\* A dependency that cannot be had.
LEMMA FailureStep ==
    ASSUME IInv, NEW a \in Actor, FetchFails(a) \/ PersistFails(a)
    PROVE  IInv'
<1> DEFINE g == [Top(a) EXCEPT !.pc = "error"]
<1>1. /\ depth[a] > 0 /\ SetTop(a, g)
      /\ UNCHANGED faults \/ (faults < MaxFaults /\ faults' = faults + 1)
      /\ UNCHANGED <<source, table, batch, scope, flights, swept, resets>>
    BY DEF FetchFails, PersistFails, At
<1>2. Top(a) \in Frame /\ FrameBacked(Top(a), log)
    BY <1>1, TopFacts
<1>3. g \in Frame /\ FrameBacked(g, log)
    BY <1>2, MoveFacts DEF Pc
<1>4. faults' \in 0..MaxFaults
    BY <1>1, FaultType
<1> HIDE DEF g
<1> QED
    BY <1>1, <1>3, <1>4, LocalStep

\* A record that is about to be mapped.
LEMMA LoadRecordStep ==
    ASSUME IInv, NEW a \in Actor, LoadRecord(a)
    PROVE  IInv'
<1> DEFINE f == Top(a)
<1>1. /\ depth[a] > 0 /\ f.pc = "load" /\ UNCHANGED faults
      /\ UNCHANGED <<source, table, batch, scope, flights, swept, resets>>
    BY DEF LoadRecord, At, bounds
<1>2. f \in Frame /\ FrameBacked(f, log)
    BY <1>1, TopFacts
<1>3. f.ref = 0 /\ f.state # "published"
    BY <1>1, <1>2 DEF FrameBacked
<1>4. \A p \in {"return", "error"} : [f EXCEPT !.pc = p] \in Frame /\ FrameBacked([f EXCEPT !.pc = p], log)
    BY <1>2, <1>3, MoveFacts DEF Pc
<1>5. StartMapping(f) \in Frame /\ FrameBacked(StartMapping(f), log)
    BY <1>2, <1>3, StartMappingFacts
<1>6. \/ SetTop(a, [f EXCEPT !.pc = "return"]) \/ SetTop(a, [f EXCEPT !.pc = "error"])
      \/ SetTop(a, StartMapping(f))
    BY DEF LoadRecord
<1>7. PICK k \in Frame : FrameBacked(k, log) /\ SetTop(a, k)
    BY <1>4, <1>5, <1>6
<1>8. faults' \in 0..MaxFaults
    BY <1>1, FaultType
<1> QED
    BY <1>1, <1>7, <1>8, LocalStep

\* A delete that is about to be published.
LEMMA LoadDeleteStep ==
    ASSUME IInv, NEW a \in Actor, LoadDelete(a)
    PROVE  IInv'
<1> DEFINE h == Top(a)
           row == rows[h.uri]
           known == IF row.cid # NoCid THEN row.cid ELSE DeletedCid
           cid == IF h.cid # NoCid THEN h.cid ELSE known
           f == [h EXCEPT !.cid = cid, !.raw = @ \/ row.raw, !.deleted = TRUE]
           tomb == [f EXCEPT !.pc = "persist", !.state = "deleted", !.links = row.links]
           bad == [f EXCEPT !.pc = "error"]
<1>1. /\ depth[a] > 0 /\ h.pc = "load" /\ UNCHANGED faults
      /\ UNCHANGED <<source, table, batch, scope, flights, swept, resets>>
    BY DEF LoadDelete, At, bounds
<1>2. h \in Frame /\ FrameBacked(h, log)
    BY <1>1, TopFacts
<1>3. h.ref = 0 /\ h.state # "published"
    BY <1>1, <1>2 DEF FrameBacked
<1>4. row \in Row /\ LinksBacked(row.links, log)
    BY <1>2 DEF IInv, TypeOK, Frame, Backed, RowsBacked, RowBacked
<1>5. cid \in Cid /\ (h.raw \/ row.raw) \in BOOLEAN /\ row.links \in Links
    BY <1>2, <1>4 DEF Frame, Row, Cid
<1>6. \/ SetTop(a, tomb) \/ SetTop(a, StartMapping(f)) \/ SetTop(a, bad)
    BY DEF LoadDelete
<1> HIDE DEF cid
<1>7. f \in Frame /\ f.ref = 0 /\ f.state = h.state /\ f.links = h.links
    BY <1>2, <1>3, <1>5 DEF Frame
<1> HIDE DEF f
<1>8. FrameBacked(f, log)
    BY <1>2, <1>3, <1>7 DEF FrameBacked
<1>9. tomb \in Frame /\ FrameBacked(tomb, log)
  <2>1. tomb \in Frame /\ tomb.ref = 0 /\ tomb.state = "deleted" /\ tomb.links = row.links
      BY <1>5, <1>7 DEF Frame, Pc, State
  <2> QED
      BY <1>4, <2>1 DEF FrameBacked
<1>10. bad \in Frame /\ FrameBacked(bad, log)
    BY <1>7, <1>8, MoveFacts DEF Pc
<1>11. StartMapping(f) \in Frame /\ FrameBacked(StartMapping(f), log)
    BY <1>3, <1>7, StartMappingFacts
<1>12. PICK k \in Frame : FrameBacked(k, log) /\ SetTop(a, k)
    BY <1>6, <1>9, <1>10, <1>11
<1>13. faults' \in 0..MaxFaults
    BY <1>1, FaultType
<1> QED
    BY <1>1, <1>12, <1>13, LocalStep
-----------------------------------------------------------------------------
(* Publishing: the log grows, and what was backed by it stays backed.       *)

LEMMA LogGrowth ==
    ASSUME NEW lg \in Seq(Message), NEW m \in Message
    PROVE  LET lh == Append(lg, m)
           IN  /\ lh \in Seq(Message) /\ Len(lh) = Len(lg) + 1 /\ lh[Len(lg) + 1] = m
               /\ \A i \in 1..Len(lg) : lh[i] = lg[i]
               /\ \A l \in Links : LinksBacked(l, lg) => LinksBacked(l, lh)
               /\ \A u, c, del : \A r \in Nat :
                    r # 0 /\ RefBacked(u, c, del, r, lg) => RefBacked(u, c, del, r, lh)
<1> DEFINE lh == Append(lg, m)
<1>1. /\ lh \in Seq(Message) /\ Len(lh) = Len(lg) + 1 /\ lh[Len(lg) + 1] = m
      /\ \A i \in 1..Len(lg) : lh[i] = lg[i]
    OBVIOUS
<1>2. Len(lg) \in Nat
    OBVIOUS
<1> HIDE DEF lh
<1>3. \A l \in Links : LinksBacked(l, lg) => LinksBacked(l, lh)
  <2> SUFFICES ASSUME NEW l \in Links, LinksBacked(l, lg), NEW d \in URI, l[d] # 0
               PROVE  l[d] <= Len(lh) /\ lh[l[d]].uri = d
      BY DEF LinksBacked
  <2>1. l[d] \in Nat /\ l[d] <= Len(lg) /\ lg[l[d]].uri = d
      BY DEF Links, LinksBacked
  <2>2. l[d] \in 1..Len(lg)
      BY <1>2, <2>1
  <2> QED
      BY <1>1, <1>2, <2>1, <2>2
<1>4. ASSUME NEW u, NEW c, NEW del, NEW r \in Nat, r # 0, RefBacked(u, c, del, r, lg)
      PROVE  RefBacked(u, c, del, r, lh)
  <2>1. r \in 1..Len(lg)
      BY <1>2, <1>4 DEF RefBacked
  <2> QED
      BY <1>1, <1>2, <1>4, <2>1 DEF RefBacked
<1> QED
    BY <1>1, <1>3, <1>4 DEF lh

\* What an earlier log backs, a longer one backs.
LEMMA BackedGrowth ==
    ASSUME NEW lg \in Seq(Message), NEW m \in Message
    PROVE  LET lh == Append(lg, m)
           IN  /\ \A u : \A row \in Row : RowBacked(u, row, lg) => RowBacked(u, row, lh)
               /\ \A f \in Frame : FrameBacked(f, lg) => FrameBacked(f, lh)
               /\ \A c \in Candidate : CandidateBacked(c, lg) => CandidateBacked(c, lh)
<1> DEFINE lh == Append(lg, m)
<1>1. /\ \A l \in Links : LinksBacked(l, lg) => LinksBacked(l, lh)
      /\ \A u, c, del : \A r \in Nat :
            r # 0 /\ RefBacked(u, c, del, r, lg) => RefBacked(u, c, del, r, lh)
    BY LogGrowth
<1> HIDE DEF lh
<1>2. ASSUME NEW u, NEW row \in Row, RowBacked(u, row, lg)
      PROVE  RowBacked(u, row, lh)
    BY <1>1, <1>2 DEF RowBacked, Row
<1>3. ASSUME NEW f \in Frame, FrameBacked(f, lg)
      PROVE  FrameBacked(f, lh)
    BY <1>1, <1>3 DEF FrameBacked, Frame
<1>4. ASSUME NEW c \in Candidate, CandidateBacked(c, lg)
      PROVE  CandidateBacked(c, lh)
    BY <1>1, <1>4 DEF CandidateBacked, Candidate, Row
<1> QED
    BY <1>2, <1>3, <1>4 DEF lh

\* markPublished.
LEMMA PublishedFrame ==
    ASSUME NEW f \in Frame, NEW r \in Nat
    PROVE  LET g == [f EXCEPT !.pc = "persist", !.state = "published", !.ref = r, !.tries = 1]
           IN  /\ g \in Frame /\ g.ref = r /\ g.links = f.links /\ g.uri = f.uri
               /\ g.cid = f.cid /\ g.deleted = f.deleted /\ g.state = "published" /\ g.pc = "persist"
    BY DEF Frame, Pc, State

\* The publish of a mapped record.
LEMMA PublishStep ==
    ASSUME IInv, NEW a \in Actor, Publish(a)
    PROVE  IInv'
<1> DEFINE f == Top(a)
           m == [uri |-> f.uri, cid |-> f.cid, links |-> f.links, deleted |-> f.deleted, by |-> f.op]
           g == [f EXCEPT !.pc = "persist", !.state = "published", !.ref = Len(log) + 1, !.tries = 1]
           s == depth[a]
<1>1. /\ s > 0 /\ f.pc = "publish" /\ log' = Append(log, m) /\ SetTop(a, g)
      /\ UNCHANGED <<source, rows, batch, scope, flights, swept, bounds>>
    BY DEF Publish, At
<1>2. s \in Slot /\ f \in Frame /\ FrameBacked(f, log)
    BY <1>1, TopFacts
<1>3. m \in Message
    BY <1>2 DEF Frame, Message
<1>4. log \in Seq(Message) /\ Len(log) \in Nat
    BY DEF IInv, TypeOK
<1>5. /\ g \in Frame /\ g.ref = Len(log) + 1 /\ g.links = f.links /\ g.uri = f.uri
      /\ g.cid = f.cid /\ g.deleted = f.deleted /\ g.state = "published" /\ g.pc = "persist"
  <2>1. Len(log) + 1 \in Nat
      BY <1>4
  <2> QED
      BY <1>2, <2>1, PublishedFrame
<1>6. /\ m.uri = f.uri /\ m.cid = f.cid /\ m.deleted = f.deleted /\ m.links = f.links
    OBVIOUS
<1>7. SetTop(a, g)
    BY <1>1
<1> HIDE DEF m, g
<1>8. /\ log' \in Seq(Message) /\ Len(log') = Len(log) + 1 /\ log'[Len(log) + 1] = m
      /\ \A i \in 1..Len(log) : log'[i] = log[i]
    BY <1>1, <1>3, <1>4, LogGrowth
<1>9. FrameBacked(g, log')
  <2>1. f.links \in Links /\ LinksBacked(f.links, log)
      BY <1>2 DEF Frame, FrameBacked
  <2>2. LinksBacked(g.links, log')
      BY <1>1, <1>3, <1>4, <1>5, <2>1, LogGrowth
  <2>3. RefBacked(g.uri, g.cid, g.deleted, g.ref, log')
      BY <1>4, <1>5, <1>6, <1>8 DEF RefBacked
  <2> QED
      BY <1>4, <1>5, <2>2, <2>3 DEF FrameBacked
<1>10. frame \in [Actor -> [Slot -> Frame]] /\ frame' = [frame EXCEPT ![a][s] = g] /\ depth' = depth
    BY <1>7 DEF IInv, TypeOK, SetTop
<1>11. frame' \in [Actor -> [Slot -> Frame]]
    BY <1>2, <1>5, <1>10
<1>12. FramesBacked'
  <2> SUFFICES ASSUME NEW b \in Actor, NEW t \in Slot
               PROVE  FrameBacked(frame'[b][t], log')
      BY DEF FramesBacked
  <2>1. frame'[b][t] \in {g, frame[b][t]}
      BY <1>2, <1>10
  <2>2. frame[b][t] \in Frame /\ FrameBacked(frame[b][t], log)
      BY DEF IInv, TypeOK, Backed, FramesBacked
  <2>3. FrameBacked(frame[b][t], log')
      BY <1>1, <1>3, <1>4, <2>2, BackedGrowth
  <2> QED
      BY <1>9, <2>1, <2>3
<1>13. RowsBacked'
  <2> SUFFICES ASSUME NEW u \in URI PROVE RowBacked(u, rows[u], log')
      BY <1>1 DEF RowsBacked
  <2>1. rows[u] \in Row /\ RowBacked(u, rows[u], log)
      BY DEF IInv, TypeOK, Backed, RowsBacked
  <2> QED
      BY <1>1, <1>3, <1>4, <2>1, BackedGrowth
<1>14. BatchesBacked'
  <2> SUFFICES ASSUME NEW b \in Actor, NEW c \in batch[b] PROVE CandidateBacked(c, log')
      BY <1>1 DEF BatchesBacked
  <2>1. c \in Candidate /\ CandidateBacked(c, log)
      BY DEF IInv, TypeOK, Backed, BatchesBacked
  <2> QED
      BY <1>1, <1>3, <1>4, <2>1, BackedGrowth
<1>15. CausalLinks'
  <2> SUFFICES ASSUME NEW i \in 1..Len(log'), NEW d \in URI, log'[i].links[d] # 0
               PROVE  log'[i].links[d] < i /\ log'[log'[i].links[d]].uri = d
      BY DEF CausalLinks
  <2>1. CASE i \in 1..Len(log)
    <3> DEFINE k == log[i].links[d]
    <3>1. log'[i] = log[i] /\ k # 0
        BY <1>8, <2>1
    <3>2. k < i /\ log[k].uri = d
        BY <2>1, <3>1 DEF IInv, Backed, CausalLinks
    <3>3. log[i] \in Message
        BY <1>4, <2>1
    <3>4. k \in Nat
        BY <3>3 DEF Message, Links
    <3>5. k \in 1..Len(log)
        BY <1>4, <2>1, <3>1, <3>2, <3>4
    <3> QED
        BY <1>8, <3>1, <3>2, <3>5
  <2>2. CASE i = Len(log) + 1
    <3> DEFINE k == f.links[d]
    <3>1. log'[i] = m /\ m.links = f.links /\ k # 0
        BY <1>6, <1>8, <2>2
    <3>2. k \in Nat /\ k <= Len(log) /\ log[k].uri = d
        BY <1>2, <3>1 DEF Frame, Links, FrameBacked, LinksBacked
    <3>3. k \in 1..Len(log)
        BY <1>4, <3>1, <3>2
    <3> QED
        BY <1>4, <1>8, <2>2, <3>1, <3>2, <3>3
  <2> QED
      BY <1>4, <1>8, <2>1, <2>2
<1>16. TypeOK'
    BY <1>1, <1>8, <1>10, <1>11 DEF IInv, TypeOK, source, scope, flights, bounds
<1> QED
    BY <1>12, <1>13, <1>14, <1>15, <1>16 DEF IInv, Backed
\* A publish that fails.
LEMMA PublishFailsStep ==
    ASSUME IInv, NEW a \in Actor, PublishFails(a)
    PROVE  IInv'
<1> DEFINE f == Top(a)
           g == [f EXCEPT !.pc = "persist", !.state = "failed", !.tries = 1]
<1>1. /\ depth[a] > 0 /\ f.pc = "publish" /\ SetTop(a, g)
      /\ faults < MaxFaults /\ faults' = faults + 1
      /\ UNCHANGED <<source, table, batch, scope, flights, swept, resets>>
    BY DEF PublishFails, At
<1>2. f \in Frame /\ FrameBacked(f, log)
    BY <1>1, TopFacts
<1>3. f.ref = 0
    BY <1>1, <1>2 DEF FrameBacked
<1>4. g \in Frame /\ g.ref = f.ref /\ g.state = "failed" /\ g.links = f.links
    BY <1>2 DEF Frame, Pc, State
<1>5. FrameBacked(g, log)
    BY <1>2, <1>3, <1>4 DEF FrameBacked
<1>6. faults' \in 0..MaxFaults
    BY <1>1, FaultType
<1> HIDE DEF g
<1> QED
    BY <1>1, <1>4, <1>5, <1>6, LocalStep

\* AddMessage, after the publish.
LEMMA PersistStep ==
    ASSUME IInv, NEW a \in Actor, Persist(a)
    PROVE  IInv'
<1> DEFINE f == Top(a)
           g == [f EXCEPT !.pc = "return"]
           row == [state |-> f.state, cid |-> f.cid, ref |-> f.ref, links |-> f.links,
                   attempts |-> rows[f.uri].attempts + f.tries, deleted |-> f.deleted,
                   raw |-> f.raw, age |-> 0]
<1>1. /\ depth[a] > 0 /\ SetTop(a, g) /\ rows' = [rows EXCEPT ![f.uri] = row]
      /\ UNCHANGED <<source, log, batch, scope, flights, swept, bounds>>
    BY DEF Persist, At, AddMessage
<1>2. f \in Frame /\ FrameBacked(f, log)
    BY <1>1, TopFacts
<1>3. g \in Frame /\ FrameBacked(g, log)
    BY <1>2, MoveFacts DEF Pc
<1>4. f.uri \in URI /\ rows \in [URI -> Row] /\ rows[f.uri].attempts \in Nat
    BY <1>2 DEF Frame, IInv, TypeOK, Row
<1>5. row \in Row
  <2>1. rows[f.uri].attempts + f.tries \in Nat
      BY <1>2, <1>4 DEF Frame
  <2> QED
      BY <1>2, <2>1 DEF Frame, Row
<1>6. RowBacked(f.uri, row, log)
  <2>1. /\ row.links = f.links /\ row.state = f.state /\ row.ref = f.ref
        /\ row.cid = f.cid /\ row.deleted = f.deleted
      OBVIOUS
  <2> HIDE DEF row
  <2> QED
      BY <1>2, <2>1 DEF FrameBacked, RowBacked
<1> HIDE DEF row, g
<1>7. /\ frame' \in [Actor -> [Slot -> Frame]]
      /\ depth' \in [Actor -> 0..(MaxDepth + 1)]
      /\ FramesBacked'
    BY <1>1, <1>3, SetTopSafe
<1>8. rows' \in [URI -> Row]
    BY <1>1, <1>4, <1>5
<1>9. RowsBacked'
  <2> SUFFICES ASSUME NEW u \in URI PROVE RowBacked(u, rows'[u], log)
      BY <1>1 DEF RowsBacked
  <2>1. rows'[u] = IF u = f.uri THEN row ELSE rows[u]
      BY <1>1, <1>4
  <2>2. RowBacked(u, rows[u], log)
      BY DEF IInv, Backed, RowsBacked
  <2> QED
      BY <1>6, <2>1, <2>2
<1>10. BatchesBacked' /\ CausalLinks'
    BY <1>1 DEF IInv, Backed, BatchesBacked, CausalLinks
<1>11. TypeOK'
    BY <1>1, <1>7, <1>8 DEF IInv, TypeOK, source, scope, flights, bounds
<1> QED
    BY <1>7, <1>9, <1>10, <1>11 DEF IInv, Backed

\* The end of a record, its entry in flight removed.
LEMMA FinishStep ==
    ASSUME IInv, NEW a \in Actor, Finish(a)
    PROVE  IInv'
<1>1. /\ depth[a] > 0
      /\ frame' = [frame EXCEPT ![a][depth[a]] = NoFrame]
      /\ depth' = [depth EXCEPT ![a] = depth[a] - 1]
      /\ holder' = [holder EXCEPT ![Top(a).uri] = {}]
      /\ waits' = [b \in Actor |-> waits[b] \ {Top(a).uri}]
      /\ UNCHANGED <<events, next, cursor, rows, log, batch, visited, fetched, swept, faults, resets>>
    BY DEF Finish, At, source, table, scope, bounds
<1>2. depth[a] \in Slot
    BY <1>1, TopFacts
<1>3. frame' \in [Actor -> [Slot -> Frame]] /\ FramesBacked'
    BY <1>1, <1>2, NoFrameType, NoFrameBacked, SlotUpdate
<1>4. depth[a] - 1 \in 0..(MaxDepth + 1)
    BY <1>2, BoundsAssumption DEF Slot
<1>5. depth' \in [Actor -> 0..(MaxDepth + 1)]
    BY <1>1, <1>4 DEF IInv, TypeOK
<1>6. holder' \in [URI -> SUBSET Actor] /\ waits' \in [Actor -> SUBSET URI]
    BY <1>1 DEF IInv, TypeOK
<1>7. Backed'
    BY <1>1, <1>3, QuietStep
<1>8. TypeOK'
    BY <1>1, <1>3, <1>5, <1>6 DEF IInv, TypeOK
<1> QED
    BY <1>7, <1>8 DEF IInv

\* The body of a goroutine at work keeps the invariant.
LEMMA WorkStep ==
    ASSUME IInv, NEW a \in Actor, Work(a)
    PROVE  IInv'
    BY LookupRefStep, EnsureSkipStep, EnsureWaitStep, EnsureAcquireStep, EnsureLoadStep, FetchStep,
       FailureStep, LoadRecordStep, LoadDeleteStep, PublishStep, PublishFailsStep, PersistStep, FinishStep
       DEF Work

-----------------------------------------------------------------------------
(* The consumer and the schedulers.                                         *)

\* A root activation ends.
LEMMA EndScopeSafe ==
    ASSUME IInv, NEW a \in Actor, EndScope(a), log' = log
    PROVE  /\ frame' \in [Actor -> [Slot -> Frame]] /\ FramesBacked'
           /\ depth' \in [Actor -> 0..(MaxDepth + 1)]
           /\ visited' \in [Actor -> SUBSET URI]
           /\ fetched' \in [Actor -> 0..MaxFetch]
<1>1. 1 \in Slot /\ 0 \in 0..(MaxDepth + 1) /\ 0 \in 0..MaxFetch
    BY BoundsAssumption DEF Slot
<1>2. frame' \in [Actor -> [Slot -> Frame]] /\ FramesBacked'
    BY <1>1, NoFrameType, NoFrameBacked, SlotUpdate DEF EndScope
<1> QED
    BY <1>1, <1>2 DEF EndScope, IInv, TypeOK

\* The consumer takes the next event.
LEMMA ConsumeStep ==
    ASSUME IInv, Consume
    PROVE  IInv'
<1> DEFINE e == events[next]
           op == IF e.act = "delete" THEN "delete" ELSE "record"
           g == [NoFrame EXCEPT !.op = op, !.pc = "load", !.uri = e.uri, !.cid = e.cid, !.raw = e.raw]
           seen == IF op = "record" THEN {e.uri} ELSE {}
<1>1. /\ Free("consumer") /\ next <= Len(events) /\ Push("consumer", g)
      /\ visited' = [visited EXCEPT !["consumer"] = seen]
      /\ UNCHANGED <<source, table, batch, fetched, flights, swept, bounds>>
    BY DEF Consume
<1>2. "consumer" \in Actor
    BY DEF Actor
<1>3. e \in Event
  <2>1. events \in Seq(Event) /\ next \in Nat \ {0}
      BY ScriptsAssumption DEF IInv, TypeOK
  <2>2. next \in 1..Len(events)
      BY <1>1, <2>1
  <2> QED
      BY <2>1, <2>2
<1>4. e.uri \in URI /\ e.cid \in Cid /\ e.raw \in BOOLEAN /\ op \in Op
    BY <1>3 DEF Event, Cid, Op
<1> HIDE DEF e, op
<1>5. g \in Frame /\ g.links = NoLinks /\ g.ref = 0 /\ g.state = "none"
  <2>1. NoFrame \in Frame /\ NoFrame.ref = 0 /\ NoFrame.state = "none" /\ NoFrame.links = NoLinks
      BY NoFrameType DEF NoFrame
  <2> QED
      BY <1>4, <2>1 DEF Frame, Pc
<1>6. FrameBacked(g, log)
    BY <1>5, NoLinksBacked DEF FrameBacked
<1> HIDE DEF g
<1>7. UNCHANGED <<rows, log, batch, events, next, cursor, fetched, holder, waits, swept, faults, resets>>
    BY <1>1 DEF source, table, flights, bounds
<1>8. /\ frame' \in [Actor -> [Slot -> Frame]]
      /\ depth' \in [Actor -> 0..(MaxDepth + 1)]
      /\ FramesBacked'
    BY <1>1, <1>2, <1>5, <1>6, <1>7, PushSafe
<1>9. visited' \in [Actor -> SUBSET URI]
    BY <1>1, <1>4 DEF IInv, TypeOK
<1>10. Backed'
    BY <1>7, <1>8, QuietStep
<1>11. TypeOK'
    BY <1>7, <1>8, <1>9 DEF IInv, TypeOK
<1> QED
    BY <1>10, <1>11 DEF IInv
\* Acknowledge, SkipEvent and EndRow: a root activation ends.
LEMMA EndStep ==
    ASSUME IInv, NEW a \in Actor, Acknowledge \/ SkipEvent \/ EndRow(a)
    PROVE  IInv'
<1>1. /\ EndScope("consumer") \/ EndScope(a)
      /\ UNCHANGED faults \/ (faults < MaxFaults /\ faults' = faults + 1)
      /\ next' \in {next, next + 1} /\ cursor' \in {cursor, next}
      /\ UNCHANGED <<events, rows, log, batch, holder, waits, swept, resets>>
    BY DEF Acknowledge, SkipEvent, EndRow, source, table, flights, bounds
<1>2. "consumer" \in Actor
    BY DEF Actor
<1>3. /\ frame' \in [Actor -> [Slot -> Frame]] /\ FramesBacked'
      /\ depth' \in [Actor -> 0..(MaxDepth + 1)]
      /\ visited' \in [Actor -> SUBSET URI]
      /\ fetched' \in [Actor -> 0..MaxFetch]
    BY <1>1, <1>2, EndScopeSafe
<1>4. faults' \in 0..MaxFaults
    BY <1>1, FaultType
<1>5. next' \in Nat \ {0} /\ cursor' \in Nat
    BY <1>1 DEF IInv, TypeOK
<1>6. Backed'
    BY <1>1, <1>3, QuietStep
<1>7. TypeOK'
    BY <1>1, <1>3, <1>4, <1>5 DEF IInv, TypeOK
<1> QED
    BY <1>6, <1>7 DEF IInv

\* A scan reads rows that are not published.
LEMMA ScanSafe ==
    ASSUME IInv, NEW a \in Actor, NEW S \in SUBSET URI, \A u \in S : rows[u].ref = 0,
           batch' = [batch EXCEPT ![a] = Snapshot(S)], swept' \in BOOLEAN,
           UNCHANGED <<source, table, stacks, scope, flights, bounds>>
    PROVE  IInv'
<1>1. UNCHANGED <<rows, log, events, next, cursor, frame, depth, visited, fetched, holder, waits, faults, resets>>
    BY DEF source, table, stacks, scope, flights, bounds
<1>2. ASSUME NEW c \in Snapshot(S)
      PROVE  c \in Candidate /\ CandidateBacked(c, log)
  <2>1. PICK u \in S : c = [uri |-> u, row |-> rows[u]]
      BY <1>2 DEF Snapshot
  <2>2. rows[u] \in Row /\ LinksBacked(rows[u].links, log) /\ rows[u].ref = 0
      BY DEF IInv, TypeOK, Backed, RowsBacked, RowBacked
  <2> QED
      BY <2>1, <2>2 DEF Candidate, CandidateBacked
<1>3. batch' \in [Actor -> SUBSET Candidate]
    BY <1>2 DEF IInv, TypeOK
<1>4. BatchesBacked'
  <2> SUFFICES ASSUME NEW b \in Actor, NEW c \in batch'[b] PROVE CandidateBacked(c, log)
      BY <1>1 DEF BatchesBacked
  <2>1. c \in Snapshot(S) \/ c \in batch[b]
      BY DEF IInv, TypeOK
  <2> QED
      BY <1>2, <2>1 DEF IInv, Backed, BatchesBacked
<1>5. RowsBacked' /\ FramesBacked' /\ CausalLinks'
    BY <1>1 DEF IInv, Backed, RowsBacked, FramesBacked, CausalLinks
<1>6. TypeOK'
    BY <1>1, <1>3 DEF IInv, TypeOK
<1> QED
    BY <1>4, <1>5, <1>6 DEF IInv, Backed

\* A scheduler selects its batch.
LEMMA ScanStep ==
    ASSUME IInv, ScanRetry \/ ScanDeferred \/ ScanExpiry
    PROVE  IInv'
<1>1. \A u \in Rows("deferred") : u \in URI /\ rows[u].ref = 0
    BY DEF Rows, IInv, Backed, RowsBacked, RowBacked
<1>2. swept \in BOOLEAN
    BY DEF IInv, TypeOK
<1>3. CASE ScanRetry
  <2>1. \A u \in RetryCandidates : u \in URI /\ rows[u].ref = 0
      BY DEF RetryCandidates, Rows
  <2>2. /\ "retry" \in Actor /\ batch' = [batch EXCEPT !["retry"] = Snapshot(RetryCandidates)]
        /\ UNCHANGED <<source, table, stacks, scope, flights, bounds>> /\ swept' = swept
      BY <1>3 DEF ScanRetry, Actor
  <2> QED
      BY <1>2, <2>1, <2>2, ScanSafe
<1>4. CASE ScanDeferred
  <2>1. PICK S \in SUBSET Rows("deferred") : batch' = [batch EXCEPT !["deferred"] = Snapshot(S)]
      BY <1>4 DEF ScanDeferred
  <2>2. /\ "deferred" \in Actor /\ swept' = TRUE
        /\ UNCHANGED <<source, table, stacks, scope, flights, bounds>>
      BY <1>4 DEF ScanDeferred, Actor
  <2> QED
      BY <1>1, <2>1, <2>2, ScanSafe
<1>5. CASE ScanExpiry
  <2>1. \A u \in ExpiredCandidates : u \in Rows("deferred")
      BY DEF ExpiredCandidates
  <2>2. /\ "expiry" \in Actor /\ batch' = [batch EXCEPT !["expiry"] = Snapshot(ExpiredCandidates)]
        /\ UNCHANGED <<source, table, stacks, scope, flights, bounds>> /\ swept' = swept
      BY <1>5 DEF ScanExpiry, Actor
  <2> QED
      BY <1>1, <1>2, <2>1, <2>2, ScanSafe
<1> QED
    BY <1>3, <1>4, <1>5

\* Dropping a candidate from a batch.
LEMMA DropSafe ==
    ASSUME IInv, NEW a \in Actor, NEW c, Drop(a, c), log' = log
    PROVE  batch' \in [Actor -> SUBSET Candidate] /\ BatchesBacked'
<1>1. batch' = [batch EXCEPT ![a] = batch[a] \ {c}]
    BY DEF Drop
<1>2. batch \in [Actor -> SUBSET Candidate]
    BY DEF IInv, TypeOK
<1>3. batch' \in [Actor -> SUBSET Candidate] /\ \A b \in Actor : batch'[b] \subseteq batch[b]
    BY <1>1, <1>2
<1>4. BatchesBacked'
    BY <1>3 DEF BatchesBacked, IInv, Backed
<1> QED
    BY <1>3, <1>4

\* A scheduler begins a row.
LEMMA BeginSafe ==
    ASSUME IInv, NEW a \in Actor, NEW c, Free(a), Drop(a, c), NEW g \in Frame,
           FrameBacked(g, log), Push(a, g), visited' \in [Actor -> SUBSET URI],
           UNCHANGED <<source, table, fetched, flights, swept, bounds>>
    PROVE  IInv'
<1>1. UNCHANGED <<rows, log, events, next, cursor, fetched, holder, waits, swept, faults, resets>>
    BY DEF source, table, flights, bounds
<1>2. /\ frame' \in [Actor -> [Slot -> Frame]]
      /\ depth' \in [Actor -> 0..(MaxDepth + 1)]
      /\ FramesBacked'
    BY <1>1, PushSafe
<1>3. batch' \in [Actor -> SUBSET Candidate] /\ BatchesBacked'
    BY <1>1, DropSafe
<1>4. RowsBacked' /\ CausalLinks'
    BY <1>1 DEF IInv, Backed, RowsBacked, CausalLinks
<1>5. TypeOK'
    BY <1>1, <1>2, <1>3 DEF IInv, TypeOK
<1> QED
    BY <1>2, <1>3, <1>4, <1>5 DEF IInv, Backed

\* What a candidate resumes with.
LEMMA ResumeFacts ==
    ASSUME IInv, NEW a \in Actor, NEW c \in batch[a], NEW op \in Op, NEW p \in Pc
    PROVE  /\ c \in Candidate /\ c.row.ref = 0 /\ c.row.attempts \in Nat /\ c.uri \in URI
           /\ Resume(c, op, p) \in Frame /\ FrameBacked(Resume(c, op, p), log)
           /\ Resume(c, op, p).ref = 0 /\ Resume(c, op, p).state = "none"
           /\ Resume(c, op, p).links = c.row.links
<1>1. c \in Candidate /\ LinksBacked(c.row.links, log) /\ c.row.ref = 0
    BY DEF IInv, TypeOK, Backed, BatchesBacked, CandidateBacked
<1>2. c.uri \in URI /\ c.row \in Row
    BY <1>1 DEF Candidate
<1>3. c.row.cid \in Cid /\ c.row.deleted \in BOOLEAN /\ c.row.raw \in BOOLEAN /\ c.row.links \in Links
      /\ c.row.attempts \in Nat
    BY <1>2 DEF Row
<1>4. NoFrame \in Frame /\ NoFrame.ref = 0 /\ NoFrame.state = "none"
    BY NoFrameType DEF NoFrame
<1> DEFINE g == [NoFrame EXCEPT !.op = op, !.pc = p, !.uri = c.uri, !.cid = c.row.cid,
                                !.deleted = c.row.deleted, !.raw = c.row.raw, !.links = c.row.links]
<1>5. g \in Frame /\ g.ref = 0 /\ g.state = "none" /\ g.links = c.row.links
    BY <1>2, <1>3, <1>4 DEF Frame
<1>6. g = Resume(c, op, p)
    BY DEF Resume
<1> HIDE DEF g
<1> QED
    BY <1>1, <1>2, <1>3, <1>5, <1>6 DEF FrameBacked

\* A scheduler begins the next row of its batch.
LEMMA BeginStep ==
    ASSUME IInv, NEW c, BeginDeferred(c) \/ BeginRetry(c) \/ BeginExpire(c)
    PROVE  IInv'
<1>1. CASE BeginDeferred(c)
  <2> DEFINE f == Resume(c, "deferred", "resolve")
  <2>1. /\ "deferred" \in Actor /\ Free("deferred") /\ c \in batch["deferred"] /\ Drop("deferred", c)
        /\ Push("deferred", StartMapping(f)) /\ visited' = [visited EXCEPT !["deferred"] = {c.uri}]
        /\ UNCHANGED <<source, table, fetched, flights, swept, bounds>>
      BY <1>1 DEF BeginDeferred, Actor
  <2>2. f \in Frame /\ f.ref = 0 /\ f.state = "none" /\ c.uri \in URI
      BY <2>1, ResumeFacts DEF Op, Pc
  <2> HIDE DEF f
  <2>3. StartMapping(f) \in Frame /\ FrameBacked(StartMapping(f), log)
      BY <2>2, StartMappingFacts
  <2>4. visited' \in [Actor -> SUBSET URI]
      BY <2>1, <2>2 DEF IInv, TypeOK
  <2> QED
      BY <2>1, <2>3, <2>4, BeginSafe
<1>2. CASE BeginRetry(c)
  <2> DEFINE f == Resume(c, "retry", "publish")
  <2>1. /\ "retry" \in Actor /\ Free("retry") /\ c \in batch["retry"] /\ Drop("retry", c)
        /\ Push("retry", f) /\ visited' = visited
        /\ UNCHANGED <<source, table, fetched, flights, swept, bounds>>
      BY <1>2 DEF BeginRetry, Actor, scope
  <2>2. f \in Frame /\ FrameBacked(f, log)
      BY <2>1, ResumeFacts DEF Op, Pc
  <2>3. visited' \in [Actor -> SUBSET URI]
      BY <2>1 DEF IInv, TypeOK
  <2> HIDE DEF f
  <2> QED
      BY <2>1, <2>2, <2>3, BeginSafe
<1>3. CASE BeginExpire(c)
  <2> DEFINE f == Resume(c, "expire", "persist")
             r == c.row.ref
             n == c.row.attempts
             g == [f EXCEPT !.state = "failed", !.ref = r, !.tries = n]
  <2>1. /\ "expiry" \in Actor /\ Free("expiry") /\ c \in batch["expiry"] /\ Drop("expiry", c)
        /\ Push("expiry", g) /\ visited' = visited
        /\ UNCHANGED <<source, table, fetched, flights, swept, bounds>>
      BY <1>3 DEF BeginExpire, Actor, scope
  <2>2. f \in Frame /\ FrameBacked(f, log) /\ r = 0 /\ n \in Nat
      BY <2>1, ResumeFacts DEF Op, Pc
  <2> HIDE DEF f, r, n
  <2>3. g \in Frame /\ g.state = "failed" /\ g.ref = 0 /\ g.links = f.links
    <3>1. r \in Nat
        BY <2>2
    <3>2. g \in Frame /\ g.state = "failed" /\ g.ref = r /\ g.links = f.links
        BY <2>2, <3>1 DEF Frame, State
    <3> QED
        BY <2>2, <3>2
  <2>4. FrameBacked(g, log)
      BY <2>2, <2>3 DEF FrameBacked
  <2>5. visited' \in [Actor -> SUBSET URI]
      BY <2>1 DEF IInv, TypeOK
  <2> HIDE DEF g
  <2> QED
      BY <2>1, <2>3, <2>4, <2>5, BeginSafe
<1> QED
    BY <1>1, <1>2, <1>3

\* A row that is not due yet.
LEMMA BackOffStep ==
    ASSUME IInv, NEW c, BackOff(c)
    PROVE  IInv'
<1>1. /\ "retry" \in Actor /\ Drop("retry", c)
      /\ UNCHANGED <<rows, log, events, next, cursor, frame, depth, visited, fetched, holder, waits, swept, faults, resets>>
    BY DEF BackOff, Actor, source, table, stacks, scope, flights, bounds
<1>2. batch' \in [Actor -> SUBSET Candidate] /\ BatchesBacked'
    BY <1>1, DropSafe
<1>3. RowsBacked' /\ FramesBacked' /\ CausalLinks'
    BY <1>1 DEF IInv, Backed, RowsBacked, FramesBacked, CausalLinks
<1>4. TypeOK'
    BY <1>1, <1>2 DEF IInv, TypeOK
<1> QED
    BY <1>2, <1>3, <1>4 DEF IInv, Backed
-----------------------------------------------------------------------------
(* The environment.                                                         *)

LEMMA ResetStep ==
    ASSUME IInv, NEW u \in URI, ResetMessageForRetry(u)
    PROVE  IInv'
<1> DEFINE r == rows[u]
           n == [rows[u] EXCEPT !.state = "pending", !.attempts = 0, !.age = 0]
<1>1. rows \in [URI -> Row] /\ r \in Row /\ RowBacked(u, r, log)
    BY DEF IInv, TypeOK, Backed, RowsBacked
<1>2. rows' = [rows EXCEPT ![u] = n]
    BY <1>1 DEF ResetMessageForRetry
<1>3. resets < MaxResets /\ resets' = resets + 1
      /\ UNCHANGED <<events, next, cursor, log, frame, depth, batch, visited, fetched, holder, waits, swept, faults>>
    BY DEF ResetMessageForRetry, source, stacks, scope, flights
<1>4. /\ n \in Row /\ n.links = r.links /\ n.ref = r.ref /\ n.cid = r.cid
      /\ n.deleted = r.deleted /\ n.state = "pending"
    BY <1>1 DEF Row, State
<1>5. RowBacked(u, n, log)
    BY <1>1, <1>4 DEF RowBacked
<1> HIDE DEF n
<1>6. rows' \in [URI -> Row]
    BY <1>1, <1>2, <1>4
<1>7. RowsBacked'
  <2> SUFFICES ASSUME NEW v \in URI PROVE RowBacked(v, rows'[v], log)
      BY <1>3 DEF RowsBacked
  <2>1. rows'[v] = IF v = u THEN n ELSE rows[v]
      BY <1>1, <1>2
  <2> QED
      BY <1>5, <2>1 DEF IInv, Backed, RowsBacked
<1>8. FramesBacked' /\ BatchesBacked' /\ CausalLinks'
    BY <1>3 DEF IInv, Backed, FramesBacked, BatchesBacked, CausalLinks
<1>9. resets' \in 0..MaxResets
    BY <1>3, BoundsAssumption DEF IInv, TypeOK
<1>10. TypeOK'
    BY <1>3, <1>6, <1>9 DEF IInv, TypeOK
<1> QED
    BY <1>7, <1>8, <1>10 DEF IInv, Backed

\* Time passes.
LEMMA TickStep ==
    ASSUME IInv, Tick
    PROVE  IInv'
<1> DEFINE older(u) == [rows[u] EXCEPT !.age = @ + 1]
<1>1. swept' = FALSE
      /\ UNCHANGED <<events, next, cursor, log, frame, depth, batch, visited, fetched, holder, waits, faults, resets>>
    BY DEF Tick, source, stacks, scope, flights, bounds
<1>2. rows \in [URI -> Row]
    BY DEF IInv, TypeOK
<1>3. /\ rows' \in [URI -> {rows[u] : u \in URI} \cup {older(u) : u \in URI}]
      /\ \A u \in URI : rows'[u] = rows[u] \/ rows'[u] = older(u)
    BY DEF Tick
<1>4. ASSUME NEW u \in URI
      PROVE  /\ older(u) \in Row /\ older(u).links = rows[u].links /\ older(u).ref = rows[u].ref
             /\ older(u).cid = rows[u].cid /\ older(u).deleted = rows[u].deleted
             /\ older(u).state = rows[u].state
    BY <1>2 DEF Row
<1> HIDE DEF older
<1>5. \A u \in URI : rows'[u] \in Row
    BY <1>2, <1>3, <1>4
<1>6. rows' \in [URI -> Row]
    BY <1>3, <1>5
<1>7. RowsBacked'
  <2> SUFFICES ASSUME NEW u \in URI PROVE RowBacked(u, rows'[u], log)
      BY <1>1 DEF RowsBacked
  <2>1. RowBacked(u, rows[u], log)
      BY DEF IInv, Backed, RowsBacked
  <2>2. RowBacked(u, older(u), log)
      BY <1>4, <2>1 DEF RowBacked
  <2> QED
      BY <1>3, <2>1, <2>2
<1>8. FramesBacked' /\ BatchesBacked' /\ CausalLinks'
    BY <1>1 DEF IInv, Backed, FramesBacked, BatchesBacked, CausalLinks
<1>9. TypeOK'
    BY <1>1, <1>6 DEF IInv, TypeOK
<1> QED
    BY <1>7, <1>8, <1>9 DEF IInv, Backed

\* A crash: the stacks and what is in flight are gone, table and log stay.
LEMMA CrashStep ==
    ASSUME IInv, Crash
    PROVE  IInv'
<1>1. /\ UNCHANGED <<events, cursor, rows, log, swept, resets>>
      /\ faults < MaxFaults /\ faults' = faults + 1 /\ next' = cursor + 1
      /\ frame' = [a \in Actor |-> [s \in Slot |-> NoFrame]]
      /\ depth' = [a \in Actor |-> 0]
      /\ batch' = [a \in Actor |-> {}]
      /\ visited' = [a \in Actor |-> {}]
      /\ fetched' = [a \in Actor |-> 0]
      /\ holder' = [u \in URI |-> {}]
      /\ waits' = [a \in Actor |-> {}]
    BY DEF Crash, table
<1>2. FramesBacked'
    BY <1>1, NoFrameBacked DEF FramesBacked
<1>3. RowsBacked' /\ BatchesBacked' /\ CausalLinks'
    BY <1>1 DEF IInv, Backed, RowsBacked, BatchesBacked, CausalLinks
<1>4. /\ faults' \in 0..MaxFaults /\ next' \in Nat \ {0}
      /\ depth' \in [Actor -> 0..(MaxDepth + 1)] /\ fetched' \in [Actor -> 0..MaxFetch]
    BY <1>1, BoundsAssumption DEF IInv, TypeOK
<1>5. frame' \in [Actor -> [Slot -> Frame]]
    BY <1>1, NoFrameType
<1>6. /\ batch' \in [Actor -> SUBSET Candidate] /\ visited' \in [Actor -> SUBSET URI]
      /\ holder' \in [URI -> SUBSET Actor] /\ waits' \in [Actor -> SUBSET URI]
    BY <1>1
<1>7. TypeOK'
    BY <1>1, <1>4, <1>5, <1>6 DEF IInv, TypeOK
<1> QED
    BY <1>2, <1>3, <1>7 DEF IInv, Backed

-----------------------------------------------------------------------------
(* The theorems.                                                            *)

LEMMA InitBacked == Init => IInv
<1> SUFFICES ASSUME Init PROVE IInv
    OBVIOUS
<1>1. /\ rows = [u \in URI |-> NoRow] /\ log = <<>>
      /\ frame = [a \in Actor |-> [s \in Slot |-> NoFrame]]
      /\ batch = [a \in Actor |-> {}]
    BY DEF Init
<1>2. RowsBacked
  <2>1. \A u \in URI : RowBacked(u, NoRow, log)
      BY NoLinksBacked DEF RowBacked, NoRow
  <2> QED
      BY <1>1, <2>1 DEF RowsBacked
<1>3. FramesBacked /\ BatchesBacked
    BY <1>1, NoFrameBacked DEF FramesBacked, BatchesBacked
<1>4. CausalLinks
    BY <1>1 DEF CausalLinks
<1>5. frame \in [Actor -> [Slot -> Frame]] /\ rows \in [URI -> Row]
    BY <1>1, NoFrameType
<1>6. 0 \in 0..MaxFaults /\ 0 \in 0..MaxResets /\ 0 \in 0..MaxFetch /\ 0 \in 0..(MaxDepth + 1)
    BY BoundsAssumption
<1>7. depth \in [Actor -> 0..(MaxDepth + 1)] /\ fetched \in [Actor -> 0..MaxFetch]
    BY <1>6 DEF Init
<1>8. /\ batch \in [Actor -> SUBSET Candidate] /\ visited \in [Actor -> SUBSET URI]
      /\ holder \in [URI -> SUBSET Actor] /\ waits \in [Actor -> SUBSET URI]
    BY DEF Init
<1>9. log \in Seq(Message)
    BY <1>1
<1>10. /\ events \in Scripts /\ next \in Nat \ {0} /\ cursor \in Nat
       /\ faults \in 0..MaxFaults /\ resets \in 0..MaxResets
  <2>1. events \in Scripts /\ next = 1 /\ cursor = 0 /\ faults = 0 /\ resets = 0
      BY DEF Init
  <2> QED
      BY <1>6, <2>1
<1>11. swept \in BOOLEAN
    BY DEF Init
<1>12. TypeOK
    BY <1>5, <1>7, <1>8, <1>9, <1>10, <1>11 DEF TypeOK
<1> QED
    BY <1>2, <1>3, <1>4, <1>12 DEF IInv, Backed

\* Every step keeps the invariant.
LEMMA NextBacked == IInv /\ [Next]_vars => IInv'
<1> SUFFICES ASSUME IInv, [Next]_vars PROVE IInv'
    OBVIOUS
<1>1. ASSUME NEW a \in Actor, Work(a) PROVE IInv'
    BY <1>1, WorkStep
<1>2. CASE ConsumerStep
    BY <1>2, ConsumeStep, EndStep DEF ConsumerStep, Actor
<1>3. CASE SchedulerStep
  <2>1. ASSUME NEW a \in Schedulers, EndRow(a) PROVE IInv'
      BY <2>1, EndStep DEF Actor
  <2> QED
      BY <1>3, <2>1, ScanStep, BeginStep, BackOffStep DEF SchedulerStep
<1>4. ASSUME NEW u \in URI, ResetMessageForRetry(u) PROVE IInv'
    BY <1>4, ResetStep
<1>5. CASE UNCHANGED vars
  <2>1. UNCHANGED <<events, next, cursor, rows, log, frame, depth, batch, visited, fetched, holder, waits,
                    swept, faults, resets>>
      BY <1>5 DEF vars, source, table, stacks, scope, flights, bounds
  <2>2. TypeOK'
      BY <2>1 DEF IInv, TypeOK
  <2>3. Backed'
      BY <2>1 DEF IInv, Backed, RowsBacked, FramesBacked, BatchesBacked, CausalLinks
  <2> QED
      BY <2>2, <2>3 DEF IInv
<1> QED
    BY <1>1, <1>2, <1>3, <1>4, <1>5, TickStep, CrashStep DEF Next

\* The table, the stacks, the resolver's map and the batches keep their types;
\* in particular no chain of dependencies outgrows config.MaxDependencyDepth and
\* no scope fetches more than maxDependencyRecords.
THEOREM TypeCorrect == Spec => []TypeOK
<1>1. IInv => TypeOK
    BY DEF IInv
<1> QED
    BY InitBacked, NextBacked, <1>1, PTL DEF Spec

\* Whatever updates, retries, crashes and failed writes lie between a lookup
\* and the publish, every SSB link points at an earlier message of its record.
THEOREM LinksAreCausal == Spec => []CausalLinks
<1>1. IInv => CausalLinks
    BY DEF IInv, Backed
<1> QED
    BY InitBacked, NextBacked, <1>1, PTL DEF Spec

\* The messages table never names a message of another record, of another
\* version, or one that was not published.
THEOREM TableMatchesLog == Spec => []RowsMatchLog
<1>1. IInv => RowsMatchLog
    BY DEF IInv, Backed, RowsBacked, RowBacked, RefBacked, RowsMatchLog
<1> QED
    BY InitBacked, NextBacked, <1>1, PTL DEF Spec

-----------------------------------------------------------------------------
(* The in-flight map, and what is published.                                *)

\* An activation hydrates references that its record has, and publishes with
\* every reference resolved unless it repeats a stored payload.
FrameReady(f) ==
    /\ f.pc = "hydrate" => f.todo \subseteq Hydrated[f.uri]
    /\ f.pc = "publish" => f.op = "retry" \/ Unresolved(f.uri, f.links) = {}
FramesReady == \A a \in Actor : \A s \in Slot : FrameReady(frame[a][s])

\* Who is in the in-flight map is at work on the record, in a nested activation,
HoldersWork == \A u \in URI : \A b \in holder[u] : \E s \in Slot : s > 1 /\ s <= depth[b] /\ frame[b][s].uri = u
\* who is at work in a nested activation is in the map, alone, and has the record in its scope,
WorkersHold ==
    \A a \in Actor : \A s \in Slot :
        s > 1 /\ s <= depth[a] => holder[frame[a][s].uri] = {a} /\ frame[a][s].uri \in visited[a]
\* works on no record twice,
WorkOnce ==
    \A a \in Actor : \A s, t \in Slot :
        s > 1 /\ s < t /\ t <= depth[a] => frame[a][s].uri # frame[a][t].uri
\* and waits for references of the record on top of its stack only.
WaitsForReference == \A a \in Actor : \A u \in waits[a] : depth[a] > 0 /\ u \in Hydrated[Top(a).uri]

\* The inductive invariant behind NoLostWakeup.
Flights == HoldersWork /\ WorkersHold /\ WorkOnce /\ WaitsForReference /\ NoLostWakeup
FlightInv == IInv /\ FramesReady /\ Flights

\* An actor moves the activation on top of its stack, which stays with its record.
Moves(a, f) ==
    /\ depth[a] \in Slot /\ waits[a] = {} /\ f \in Frame /\ FrameReady(f) /\ f.uri = Top(a).uri
    /\ frame' = [frame EXCEPT ![a][depth[a]] = f]
    /\ UNCHANGED <<depth, visited, flights>>

\* An actor without activations begins one.
Begins(a, f) ==
    /\ depth[a] = 0 /\ 1 \in Slot /\ f \in Frame /\ FrameReady(f)
    /\ frame' = [frame EXCEPT ![a][1] = f]
    /\ depth' = [depth EXCEPT ![a] = 1]
    /\ \A b \in Actor : b # a => visited'[b] = visited[b]
    /\ UNCHANGED flights

\* An actor ends its only activation.
Ends(a) ==
    /\ depth[a] = 1 /\ 1 \in Slot /\ waits[a] = {}
    /\ frame' = [frame EXCEPT ![a][1] = NoFrame]
    /\ depth' = [depth EXCEPT ![a] = 0]
    /\ \A b \in Actor : b # a => visited'[b] = visited[b]
    /\ UNCHANGED flights

\* mapMappedRecord leaves an activation ready for its next stage.
LEMMA AdvanceReady ==
    ASSUME NEW f \in Frame, f.pc \in {"resolve", "resolve2", "hydrate"},
           f.pc = "hydrate" => f.todo \subseteq Hydrated[f.uri]
    PROVE  FrameReady(Advance(f))
<1> DEFINE open == Unresolved(f.uri, f.links)
<1>1. FrameReady(f)
    BY DEF FrameReady
<1>2. FrameReady(Decide(f)) 
  <2>1. LET g == [f EXCEPT !.pc = "persist", !.state = "deferred"]
        IN  g.pc = "persist"
      BY DEF Frame
  <2>2. LET g == [f EXCEPT !.pc = "publish"]
        IN  g.pc = "publish" /\ g.uri = f.uri /\ g.links = f.links
      BY DEF Frame
  <2>3. CASE open # {} \/ f.uri \in Incomplete
      BY <2>1, <2>3 DEF Decide, FrameReady
  <2>4. CASE ~(open # {} \/ f.uri \in Incomplete)
      BY <2>2, <2>4 DEF Decide, FrameReady
  <2> QED
      BY <2>3, <2>4
<1>3. LET g == [f EXCEPT !.pc = "hydrate", !.todo = open \cap Hydrated[f.uri]]
      IN  FrameReady(g)
  <2>1. LET g == [f EXCEPT !.pc = "hydrate", !.todo = open \cap Hydrated[f.uri]]
        IN  g.pc = "hydrate" /\ g.todo = open \cap Hydrated[f.uri] /\ g.uri = f.uri
      BY DEF Frame
  <2> QED
      BY <2>1 DEF FrameReady
<1>4. LET g == [f EXCEPT !.pc = "resolve2", !.todo = open]
      IN  FrameReady(g)
  <2>1. LET g == [f EXCEPT !.pc = "resolve2", !.todo = open]
        IN  g.pc = "resolve2"
      BY DEF Frame
  <2> QED
      BY <2>1 DEF FrameReady
<1> QED
    BY <1>1, <1>2, <1>3, <1>4 DEF Advance

\* A fresh frame is ready.
LEMMA StartReady ==
    ASSUME NEW f \in Frame
    PROVE  FrameReady(StartMapping(f)) /\ StartMapping(f).uri = f.uri
<1> DEFINE g == [f EXCEPT !.pc = "resolve", !.links = NoLinks, !.todo = Refs[f.uri]]
<1>1. Refs[f.uri] \in SUBSET URI /\ "resolve" \in Pc
    BY RefsAssumption DEF Frame, Pc
<1>2. g \in Frame /\ g.pc = "resolve" /\ g.uri = f.uri
    BY <1>1, NoFrameType DEF Frame
<1> HIDE DEF g
<1>3. FrameReady(Advance(g)) /\ Advance(g).uri = f.uri
    BY <1>2, AdvanceReady, AdvanceFacts
<1> QED
    BY <1>3 DEF StartMapping, g

\* Any other program counter asks nothing of an activation.
LEMMA IdleReady ==
    ASSUME NEW f, f.pc \notin {"hydrate", "publish"}
    PROVE  FrameReady(f)
    BY DEF FrameReady

-----------------------------------------------------------------------------
(* What the kinds of steps preserve.                                        *)

LEMMA MovesFlights ==
    ASSUME IInv, FramesReady, Flights, NEW a \in Actor, NEW f, Moves(a, f)
    PROVE  FramesReady' /\ Flights'
<1>1. frame \in [Actor -> [Slot -> Frame]]
    BY DEF IInv, TypeOK
<1>2. /\ depth[a] \in Slot /\ waits[a] = {} /\ f \in Frame /\ FrameReady(f) /\ f.uri = Top(a).uri
      /\ frame' = [frame EXCEPT ![a][depth[a]] = f]
      /\ UNCHANGED <<depth, visited, holder, waits>>
    BY DEF Moves, flights
<1>3. \A b \in Actor : \A s \in Slot : frame'[b][s] = IF b = a /\ s = depth[a] THEN f ELSE frame[b][s]
    BY <1>1, <1>2
<1>4. FramesReady'
    BY <1>2, <1>3 DEF FramesReady
<1>5. \A b \in Actor : \A s \in Slot : frame'[b][s].uri = frame[b][s].uri
    BY <1>2, <1>3 DEF Top
<1>6. holder \in [URI -> SUBSET Actor]
    BY DEF IInv, TypeOK
<1>7. HoldersWork'
    BY <1>2, <1>5, <1>6 DEF Flights, HoldersWork
<1>8. WorkersHold' /\ WorkOnce'
    BY <1>2, <1>5 DEF Flights, WorkersHold, WorkOnce
<1>9. WaitsForReference'
  <2> SUFFICES ASSUME NEW b \in Actor, NEW u \in waits[b]
               PROVE  depth[b] > 0 /\ u \in Hydrated[frame'[b][depth[b]].uri]
      BY <1>2 DEF WaitsForReference, Top
  <2>1. b # a /\ depth[b] > 0 /\ u \in Hydrated[Top(b).uri]
      BY <1>2 DEF Flights, WaitsForReference
  <2>2. depth[b] \in Slot
      BY <2>1, TopFacts
  <2> QED
      BY <1>5, <2>1, <2>2 DEF Top
<1>10. NoLostWakeup'
    BY <1>2 DEF Flights, NoLostWakeup
<1> QED
    BY <1>4, <1>7, <1>8, <1>9, <1>10 DEF Flights

\* A goroutine that begins a record holds nothing yet.
LEMMA BeginsFlights ==
    ASSUME IInv, FramesReady, Flights, NEW a \in Actor, NEW f, Begins(a, f)
    PROVE  FramesReady' /\ Flights'
<1>1. /\ frame \in [Actor -> [Slot -> Frame]] /\ depth \in [Actor -> 0..(MaxDepth + 1)]
      /\ holder \in [URI -> SUBSET Actor]
    BY DEF IInv, TypeOK
<1>2. /\ depth[a] = 0 /\ 1 \in Slot /\ f \in Frame /\ FrameReady(f)
      /\ frame' = [frame EXCEPT ![a][1] = f]
      /\ depth' = [depth EXCEPT ![a] = 1]
      /\ \A b \in Actor : b # a => visited'[b] = visited[b]
      /\ UNCHANGED <<holder, waits>>
    BY DEF Begins, flights
<1>3. \A b \in Actor : \A s \in Slot : frame'[b][s] = IF b = a /\ s = 1 THEN f ELSE frame[b][s]
    BY <1>1, <1>2
<1>4. FramesReady'
    BY <1>2, <1>3 DEF FramesReady
<1>5. \A b \in Actor : depth'[b] = IF b = a THEN 1 ELSE depth[b]
    BY <1>1, <1>2
<1>6. \A b \in Actor : \A s \in Slot : s > 1 => frame'[b][s] = frame[b][s]
    BY <1>3
<1>7. \A s \in Slot : ~(s > 1 /\ s <= depth[a]) /\ ~(s > 1 /\ s <= depth'[a])
    BY <1>2, <1>5 DEF Slot
<1>8. HoldersWork'
  <2> SUFFICES ASSUME NEW u \in URI, NEW b \in holder[u]
               PROVE  \E s \in Slot : s > 1 /\ s <= depth'[b] /\ frame'[b][s].uri = u
      BY <1>2 DEF HoldersWork
  <2>1. b \in Actor
      BY <1>1
  <2>2. PICK s \in Slot : s > 1 /\ s <= depth[b] /\ frame[b][s].uri = u
      BY DEF Flights, HoldersWork
  <2>3. b # a
      BY <1>7, <2>2
  <2> QED
      BY <1>5, <1>6, <2>1, <2>2, <2>3
<1>9. WorkersHold'
  <2> SUFFICES ASSUME NEW b \in Actor, NEW s \in Slot, s > 1, s <= depth'[b]
               PROVE  holder[frame'[b][s].uri] = {b} /\ frame'[b][s].uri \in visited'[b]
      BY <1>2 DEF WorkersHold
  <2>1. b # a
      BY <1>7
  <2> QED
      BY <1>2, <1>5, <1>6, <2>1 DEF Flights, WorkersHold
<1>10. WorkOnce'
  <2> SUFFICES ASSUME NEW b \in Actor, NEW s \in Slot, NEW t \in Slot, s > 1, s < t, t <= depth'[b]
               PROVE  frame'[b][s].uri # frame'[b][t].uri
      BY DEF WorkOnce
  <2>1. t > 1
      BY DEF Slot
  <2>2. b # a
      BY <1>7, <2>1
  <2> QED
      BY <1>5, <1>6, <2>1, <2>2 DEF Flights, WorkOnce
<1>11. WaitsForReference'
  <2> SUFFICES ASSUME NEW b \in Actor, NEW u \in waits[b]
               PROVE  depth'[b] > 0 /\ u \in Hydrated[frame'[b][depth'[b]].uri]
      BY <1>2 DEF WaitsForReference, Top
  <2>1. b # a /\ depth[b] > 0 /\ u \in Hydrated[Top(b).uri]
      BY <1>2 DEF Flights, WaitsForReference
  <2>2. depth[b] \in Slot
      BY <2>1, TopFacts
  <2> QED
      BY <1>3, <1>5, <2>1, <2>2 DEF Top
<1>12. NoLostWakeup'
    BY <1>2 DEF Flights, NoLostWakeup
<1> QED
    BY <1>4, <1>8, <1>9, <1>10, <1>11, <1>12 DEF Flights

\* A frame that ends without an entry in flight.
LEMMA EndsFlights ==
    ASSUME IInv, FramesReady, Flights, NEW a \in Actor, Ends(a)
    PROVE  FramesReady' /\ Flights'
<1>1. /\ frame \in [Actor -> [Slot -> Frame]] /\ depth \in [Actor -> 0..(MaxDepth + 1)]
      /\ holder \in [URI -> SUBSET Actor]
    BY DEF IInv, TypeOK
<1>2. /\ depth[a] = 1 /\ 1 \in Slot /\ waits[a] = {}
      /\ frame' = [frame EXCEPT ![a][1] = NoFrame]
      /\ depth' = [depth EXCEPT ![a] = 0]
      /\ \A b \in Actor : b # a => visited'[b] = visited[b]
      /\ UNCHANGED <<holder, waits>>
    BY DEF Ends, flights
<1>3. \A b \in Actor : \A s \in Slot : frame'[b][s] = IF b = a /\ s = 1 THEN NoFrame ELSE frame[b][s]
    BY <1>1, <1>2
<1>4. FrameReady(NoFrame)
    BY DEF FrameReady, NoFrame
<1>5. FramesReady'
    BY <1>3, <1>4 DEF FramesReady
<1>6. \A b \in Actor : depth'[b] = IF b = a THEN 0 ELSE depth[b]
    BY <1>1, <1>2
<1>7. \A b \in Actor : \A s \in Slot : s > 1 => frame'[b][s] = frame[b][s]
    BY <1>3
<1>8. \A s \in Slot : ~(s > 1 /\ s <= depth[a]) /\ ~(s > 1 /\ s <= depth'[a])
    BY <1>2, <1>6 DEF Slot
<1>9. HoldersWork'
  <2> SUFFICES ASSUME NEW u \in URI, NEW b \in holder[u]
               PROVE  \E s \in Slot : s > 1 /\ s <= depth'[b] /\ frame'[b][s].uri = u
      BY <1>2 DEF HoldersWork
  <2>1. b \in Actor
      BY <1>1
  <2>2. PICK s \in Slot : s > 1 /\ s <= depth[b] /\ frame[b][s].uri = u
      BY DEF Flights, HoldersWork
  <2>3. b # a
      BY <1>8, <2>2
  <2> QED
      BY <1>6, <1>7, <2>1, <2>2, <2>3
<1>10. WorkersHold'
  <2> SUFFICES ASSUME NEW b \in Actor, NEW s \in Slot, s > 1, s <= depth'[b]
               PROVE  holder[frame'[b][s].uri] = {b} /\ frame'[b][s].uri \in visited'[b]
      BY <1>2 DEF WorkersHold
  <2>1. b # a
      BY <1>8
  <2> QED
      BY <1>2, <1>6, <1>7, <2>1 DEF Flights, WorkersHold
<1>11. WorkOnce'
  <2> SUFFICES ASSUME NEW b \in Actor, NEW s \in Slot, NEW t \in Slot, s > 1, s < t, t <= depth'[b]
               PROVE  frame'[b][s].uri # frame'[b][t].uri
      BY DEF WorkOnce
  <2>1. t > 1
      BY DEF Slot
  <2>2. b # a
      BY <1>8, <2>1
  <2> QED
      BY <1>6, <1>7, <2>1, <2>2 DEF Flights, WorkOnce
<1>12. WaitsForReference'
  <2> SUFFICES ASSUME NEW b \in Actor, NEW u \in waits[b]
               PROVE  depth'[b] > 0 /\ u \in Hydrated[frame'[b][depth'[b]].uri]
      BY <1>2 DEF WaitsForReference, Top
  <2>1. b # a /\ depth[b] > 0 /\ u \in Hydrated[Top(b).uri]
      BY <1>2 DEF Flights, WaitsForReference
  <2>2. depth[b] \in Slot
      BY <2>1, TopFacts
  <2> QED
      BY <1>3, <1>6, <2>1, <2>2 DEF Top
<1>13. NoLostWakeup'
    BY <1>2 DEF Flights, NoLostWakeup
<1> QED
    BY <1>5, <1>9, <1>10, <1>11, <1>12, <1>13 DEF Flights

\* What the hydrating activation becomes when one reference has been ensured, and
\* what is known of that reference.
LEMMA HydrateFacts ==
    ASSUME IInv, FramesReady, NEW a \in Actor, NEW d \in URI, At(a, "hydrate"), d \in Top(a).todo
    PROVE  LET g == Advance([Top(a) EXCEPT !.todo = @ \ {d}])
           IN  /\ g \in Frame /\ FrameReady(g) /\ g.uri = Top(a).uri
               /\ d \in Hydrated[Top(a).uri] /\ depth[a] \in Slot /\ waits[a] = {}
<1> DEFINE f == Top(a)
           h == [f EXCEPT !.todo = @ \ {d}]
<1>1. depth[a] > 0 /\ f.pc = "hydrate" /\ waits[a] = {}
    BY DEF At
<1>2. depth[a] \in Slot /\ f \in Frame
    BY <1>1, TopFacts
<1>3. FrameReady(f)
    BY <1>2 DEF FramesReady, Top
<1>4. f.todo \subseteq Hydrated[f.uri]
    BY <1>1, <1>3 DEF FrameReady
<1>5. h \in Frame /\ h.pc = "hydrate" /\ h.uri = f.uri /\ h.todo = f.todo \ {d}
    BY <1>1, <1>2 DEF Frame
<1> HIDE DEF h, f
<1>6. Advance(h) \in Frame /\ FrameReady(Advance(h)) /\ Advance(h).uri = f.uri
    BY <1>4, <1>5, AdvanceReady, AdvanceFacts
<1> QED
    BY <1>1, <1>2, <1>4, <1>6 DEF h, f

\* The scope of a nested activation is that of its actor: what the actor works on
\* is in it.
LEMMA WorkedOnInScope ==
    ASSUME IInv, Flights, NEW a \in Actor, NEW s \in Slot, s > 1, s <= depth[a]
    PROVE  frame[a][s].uri \in Scope(a)
<1>1. depth[a] # 1
    BY DEF IInv, TypeOK, Slot
<1>2. frame[a][s].uri \in visited[a]
    BY DEF Flights, WorkersHold
<1> QED
    BY <1>1, <1>2 DEF Scope

\* An actor that waits does not hold what it waits for.
LEMMA WaitFlights ==
    ASSUME IInv, FramesReady, Flights, NEW a \in Actor, NEW d \in URI, EnsureWait(a, d)
    PROVE  FramesReady' /\ Flights'
<1> DEFINE g == Advance([Top(a) EXCEPT !.todo = @ \ {d}])
<1>1. /\ At(a, "hydrate") /\ d \in Top(a).todo /\ d \notin Scope(a) /\ holder[d] # {}
      /\ visited' = [visited EXCEPT ![a] = Scope(a) \cup {d}]
      /\ waits' = [waits EXCEPT ![a] = {d}]
      /\ frame' = [frame EXCEPT ![a][depth[a]] = g]
      /\ UNCHANGED <<depth, holder>>
    BY DEF EnsureWait, Ensured, SetTop
<1>2. /\ g \in Frame /\ FrameReady(g) /\ g.uri = Top(a).uri
      /\ d \in Hydrated[Top(a).uri] /\ depth[a] \in Slot /\ waits[a] = {}
    BY <1>1, HydrateFacts
<1> HIDE DEF g
<1>3. /\ frame \in [Actor -> [Slot -> Frame]] /\ depth \in [Actor -> 0..(MaxDepth + 1)]
      /\ holder \in [URI -> SUBSET Actor] /\ waits \in [Actor -> SUBSET URI]
      /\ visited \in [Actor -> SUBSET URI]
    BY DEF IInv, TypeOK
<1>4. \A b \in Actor : \A s \in Slot : frame'[b][s] = IF b = a /\ s = depth[a] THEN g ELSE frame[b][s]
    BY <1>1, <1>2, <1>3
<1>5. FramesReady'
    BY <1>2, <1>4 DEF FramesReady
<1>6. \A b \in Actor : \A s \in Slot : frame'[b][s].uri = frame[b][s].uri
    BY <1>2, <1>4 DEF Top
<1>7. HoldersWork'
    BY <1>1, <1>3, <1>6 DEF Flights, HoldersWork
<1>8. WorkersHold'
  <2> SUFFICES ASSUME NEW b \in Actor, NEW s \in Slot, s > 1, s <= depth[b]
               PROVE  holder[frame[b][s].uri] = {b} /\ frame[b][s].uri \in visited'[b]
      BY <1>1, <1>6 DEF WorkersHold
  <2>1. holder[frame[b][s].uri] = {b} /\ frame[b][s].uri \in visited[b]
      BY DEF Flights, WorkersHold
  <2>2. b = a => frame[b][s].uri \in Scope(a)
      BY WorkedOnInScope
  <2> QED
      BY <1>1, <1>3, <2>1, <2>2
<1>9. WorkOnce'
    BY <1>1, <1>6 DEF Flights, WorkOnce
<1>10. \A b \in Actor : waits'[b] = IF b = a THEN {d} ELSE waits[b]
    BY <1>1, <1>3
<1>11. WaitsForReference'
  <2> SUFFICES ASSUME NEW b \in Actor, NEW u \in waits'[b]
               PROVE  depth[b] > 0 /\ u \in Hydrated[frame'[b][depth[b]].uri]
      BY <1>1 DEF WaitsForReference, Top
  <2>1. depth[b] > 0 /\ u \in Hydrated[Top(b).uri]
      BY <1>2, <1>10 DEF Flights, WaitsForReference, Slot
  <2>2. depth[b] \in Slot
      BY <2>1, TopFacts
  <2> QED
      BY <1>6, <2>1, <2>2 DEF Top
<1>12. a \notin holder[d]
  <2> SUFFICES ASSUME a \in holder[d] PROVE FALSE
      OBVIOUS
  <2>1. PICK s \in Slot : s > 1 /\ s <= depth[a] /\ frame[a][s].uri = d
      BY DEF Flights, HoldersWork
  <2> QED
      BY <1>1, <2>1, WorkedOnInScope
<1>13. NoLostWakeup'
  <2> SUFFICES ASSUME NEW b \in Actor, NEW u \in waits'[b]
               PROVE  holder[u] # {} /\ b \notin holder[u]
      BY <1>1 DEF NoLostWakeup
  <2> QED
      BY <1>1, <1>10, <1>12 DEF Flights, NoLostWakeup
<1> QED
    BY <1>5, <1>7, <1>8, <1>9, <1>11, <1>13 DEF Flights

\* acquire: nobody was at work on the record, and one activation is now.
LEMMA AcquireFlights ==
    ASSUME IInv, FramesReady, Flights, NEW a \in Actor, NEW d \in URI, EnsureAcquire(a, d)
    PROVE  FramesReady' /\ Flights'
<1> DEFINE g == Advance([Top(a) EXCEPT !.todo = @ \ {d}])
           h == [NoFrame EXCEPT !.op = "ensure", !.pc = "load", !.uri = d]
           s == depth[a]
<1>1. /\ At(a, "hydrate") /\ d \in Top(a).todo /\ d \notin Scope(a) /\ holder[d] = {} /\ DepthAllowed(a)
      /\ visited' = [visited EXCEPT ![a] = Scope(a) \cup {d}]
      /\ holder' = [holder EXCEPT ![d] = {a}]
      /\ depth' = [depth EXCEPT ![a] = s + 1]
      /\ frame' = [frame EXCEPT ![a][s] = g, ![a][s + 1] = h]
      /\ UNCHANGED waits
    BY DEF EnsureAcquire
<1>2. /\ g \in Frame /\ FrameReady(g) /\ g.uri = Top(a).uri
      /\ d \in Hydrated[Top(a).uri] /\ s \in Slot /\ waits[a] = {}
    BY <1>1, HydrateFacts
<1>3. s + 1 \in Slot /\ s \in Nat /\ s > 0
    BY <1>1, <1>2, BoundsAssumption DEF DepthAllowed, Slot
<1>4. h \in Frame /\ h.uri = d /\ h.pc = "load"
    BY NoFrameType DEF NoFrame, Frame, Op, Pc
<1>5. FrameReady(h)
    BY <1>4, IdleReady
<1>6. Top(a) = frame[a][s]
    BY DEF Top
<1> HIDE DEF g, h, s
<1>7. /\ frame \in [Actor -> [Slot -> Frame]] /\ depth \in [Actor -> 0..(MaxDepth + 1)]
      /\ holder \in [URI -> SUBSET Actor] /\ waits \in [Actor -> SUBSET URI]
      /\ visited \in [Actor -> SUBSET URI]
    BY DEF IInv, TypeOK
<1>8. /\ \A b \in Actor : \A t \in Slot : b # a => frame'[b][t] = frame[b][t]
      /\ \A t \in Slot : t # s /\ t # s + 1 => frame'[a][t] = frame[a][t]
      /\ frame'[a][s] = g /\ frame'[a][s + 1] = h
    BY <1>1, <1>2, <1>3, <1>7
<1>9. FramesReady'
  <2> SUFFICES ASSUME NEW b \in Actor, NEW t \in Slot PROVE FrameReady(frame'[b][t])
      BY DEF FramesReady
  <2>1. FrameReady(frame[b][t])
      BY DEF FramesReady
  <2> QED
      BY <1>2, <1>5, <1>8, <2>1
<1>10. depth'[a] = s + 1 /\ depth[a] = s /\ \A b \in Actor : b # a => depth'[b] = depth[b]
    BY <1>1, <1>7 DEF s
<1>11. \A b \in Actor : \A t \in Slot : t <= depth[b] => frame'[b][t].uri = frame[b][t].uri
  <2> SUFFICES ASSUME NEW t \in Slot, t <= s PROVE frame'[a][t].uri = frame[a][t].uri
      BY <1>8, <1>10
  <2>1. t # s + 1
      BY <1>3 DEF Slot
  <2> QED
      BY <1>2, <1>6, <1>8, <2>1
<1>12. holder'[d] = {a} /\ \A u \in URI : u # d => holder'[u] = holder[u]
    BY <1>1, <1>7
<1>13. HoldersWork'
  <2> SUFFICES ASSUME NEW u \in URI, NEW b \in holder'[u]
               PROVE  \E t \in Slot : t > 1 /\ t <= depth'[b] /\ frame'[b][t].uri = u
      BY DEF HoldersWork
  <2>1. CASE u = d
    <3>1. b = a
        BY <1>12, <2>1
    <3>2. s + 1 > 1 /\ s + 1 <= depth'[a] /\ frame'[a][s + 1].uri = d
        BY <1>3, <1>4, <1>8, <1>10
    <3> QED
        BY <1>3, <2>1, <3>1, <3>2
  <2>2. CASE u # d
    <3>1. b \in holder[u] /\ b \in Actor
        BY <1>7, <1>12, <2>2
    <3>2. PICK t \in Slot : t > 1 /\ t <= depth[b] /\ frame[b][t].uri = u
        BY <3>1 DEF Flights, HoldersWork
    <3>3. t <= depth'[b]
        BY <1>3, <1>10, <3>1, <3>2 DEF Slot
    <3> QED
        BY <1>11, <3>1, <3>2, <3>3
  <2> QED
      BY <2>1, <2>2
<1>14. \A b \in Actor : \A t \in Slot : t > 1 /\ t <= depth[b] => frame[b][t].uri # d
    BY <1>1 DEF Flights, WorkersHold
<1>15. \A t \in Slot : t <= depth'[a] => t <= depth[a] \/ t = s + 1
    BY <1>3, <1>10 DEF Slot
<1>16. WorkersHold'
  <2> SUFFICES ASSUME NEW b \in Actor, NEW t \in Slot, t > 1, t <= depth'[b]
               PROVE  holder'[frame'[b][t].uri] = {b} /\ frame'[b][t].uri \in visited'[b]
      BY DEF WorkersHold
  <2>1. visited'[a] = Scope(a) \cup {d} /\ \A c \in Actor : c # a => visited'[c] = visited[c]
      BY <1>1, <1>7
  <2>2. CASE t <= depth[b]
    <3>1. frame'[b][t].uri = frame[b][t].uri /\ frame[b][t].uri # d /\ frame[b][t].uri \in URI
        BY <1>7, <1>11, <1>14, <2>2 DEF Frame
    <3>2. holder[frame[b][t].uri] = {b} /\ frame[b][t].uri \in visited[b]
        BY <2>2 DEF Flights, WorkersHold
    <3>3. b = a => frame[b][t].uri \in Scope(a)
        BY <2>2, WorkedOnInScope
    <3> QED
        BY <1>12, <2>1, <3>1, <3>2, <3>3
  <2>3. CASE ~(t <= depth[b])
    <3>1. b = a /\ t = s + 1
        BY <1>10, <1>15, <2>3
    <3> QED
        BY <1>4, <1>8, <1>12, <2>1, <3>1
  <2> QED
      BY <2>2, <2>3
<1>17. WorkOnce'
  <2> SUFFICES ASSUME NEW b \in Actor, NEW r \in Slot, NEW t \in Slot, r > 1, r < t, t <= depth'[b]
               PROVE  frame'[b][r].uri # frame'[b][t].uri
      BY DEF WorkOnce
  <2>1. CASE t <= depth[b]
    <3>1. r <= depth[b]
        BY <1>7, <2>1 DEF Slot
    <3> QED
        BY <1>11, <2>1, <3>1 DEF Flights, WorkOnce
  <2>2. CASE ~(t <= depth[b])
    <3>1. b = a /\ t = s + 1
        BY <1>10, <1>15, <2>2
    <3>2. r <= depth[a]
        BY <1>3, <1>10, <3>1 DEF Slot
    <3>3. frame'[a][r].uri = frame[a][r].uri /\ frame[a][r].uri # d
        BY <1>11, <1>14, <3>2
    <3> QED
        BY <1>4, <1>8, <3>1, <3>3
  <2> QED
      BY <2>1, <2>2
<1>18. WaitsForReference'
  <2> SUFFICES ASSUME NEW b \in Actor, NEW u \in waits[b]
               PROVE  depth'[b] > 0 /\ u \in Hydrated[frame'[b][depth'[b]].uri]
      BY <1>1 DEF WaitsForReference, Top
  <2>1. b # a /\ depth[b] > 0 /\ u \in Hydrated[Top(b).uri]
      BY <1>2 DEF Flights, WaitsForReference
  <2>2. depth[b] \in Slot
      BY <2>1, TopFacts
  <2> QED
      BY <1>8, <1>10, <2>1, <2>2 DEF Top
<1>19. NoLostWakeup'
  <2> SUFFICES ASSUME NEW b \in Actor, NEW u \in waits[b]
               PROVE  holder'[u] # {} /\ b \notin holder'[u]
      BY <1>1 DEF NoLostWakeup
  <2>1. u \in URI /\ holder[u] # {} /\ b \notin holder[u]
      BY <1>7 DEF Flights, NoLostWakeup
  <2> QED
      BY <1>1, <1>12, <2>1
<1> QED
    BY <1>9, <1>13, <1>16, <1>17, <1>18, <1>19 DEF Flights

\* finish: the record leaves the map, nobody else works on it and nobody waits for it.
LEMMA FinishFlights ==
    ASSUME IInv, FramesReady, Flights, NEW a \in Actor, Finish(a)
    PROVE  FramesReady' /\ Flights'
<1> DEFINE s == depth[a]
           u == Top(a).uri
<1>1. /\ s > 1 /\ waits[a] = {}
      /\ frame' = [frame EXCEPT ![a][s] = NoFrame]
      /\ depth' = [depth EXCEPT ![a] = s - 1]
      /\ holder' = [holder EXCEPT ![u] = {}]
      /\ waits' = [b \in Actor |-> waits[b] \ {u}]
      /\ UNCHANGED visited
    BY DEF Finish, At, scope
<1>2. s > 0
    BY <1>1 DEF IInv, TypeOK
<1>3. s \in Slot /\ Top(a) \in Frame /\ Top(a) = frame[a][s]
    BY <1>2, TopFacts DEF Top
<1>4. u \in URI /\ u = frame[a][s].uri
    BY <1>3 DEF Frame
<1> HIDE DEF s, u
<1>5. /\ frame \in [Actor -> [Slot -> Frame]] /\ depth \in [Actor -> 0..(MaxDepth + 1)]
      /\ holder \in [URI -> SUBSET Actor] /\ waits \in [Actor -> SUBSET URI]
    BY DEF IInv, TypeOK
<1>6. \A b \in Actor : \A t \in Slot : frame'[b][t] = IF b = a /\ t = s THEN NoFrame ELSE frame[b][t]
    BY <1>1, <1>3, <1>5
<1>7. FramesReady'
  <2>1. FrameReady(NoFrame)
      BY DEF FrameReady, NoFrame
  <2> QED
      BY <1>6, <2>1 DEF FramesReady
<1>8. depth'[a] = s - 1 /\ depth[a] = s /\ \A b \in Actor : b # a => depth'[b] = depth[b]
    BY <1>1, <1>5 DEF s
<1>9. \A b \in Actor : \A t \in Slot : t <= depth'[b] => t <= depth[b] /\ frame'[b][t] = frame[b][t]
  <2>1. \A t \in Slot : t <= s - 1 => t <= s /\ t # s
      BY <1>3 DEF Slot
  <2> QED
      BY <1>6, <1>8, <2>1
<1>10. holder[u] = {a}
    BY <1>1, <1>3, <1>4, <1>8, <1>5 DEF Flights, WorkersHold, Slot
<1>11. holder'[u] = {} /\ \A v \in URI : v # u => holder'[v] = holder[v]
    BY <1>1, <1>4, <1>5
<1>12. HoldersWork'
  <2> SUFFICES ASSUME NEW v \in URI, NEW b \in holder'[v]
               PROVE  \E t \in Slot : t > 1 /\ t <= depth'[b] /\ frame'[b][t].uri = v
      BY DEF HoldersWork
  <2>1. v # u /\ b \in holder[v] /\ b \in Actor
      BY <1>5, <1>11
  <2>2. PICK t \in Slot : t > 1 /\ t <= depth[b] /\ frame[b][t].uri = v
      BY <2>1 DEF Flights, HoldersWork
  <2>3. ~(b = a /\ t = s)
      BY <1>4, <2>1, <2>2
  <2>4. t <= depth'[b]
      BY <1>3, <1>8, <2>1, <2>2, <2>3 DEF Slot
  <2> QED
      BY <1>9, <2>1, <2>2, <2>4
<1>13. \A b \in Actor : \A t \in Slot : t > 1 /\ t <= depth'[b] => frame[b][t].uri # u
  <2> SUFFICES ASSUME NEW b \in Actor, NEW t \in Slot, t > 1, t <= depth'[b], frame[b][t].uri = u
               PROVE  FALSE
      OBVIOUS
  <2>1. t <= depth[b]
      BY <1>9
  <2>2. b = a
      BY <1>10, <2>1 DEF Flights, WorkersHold
  <2>3. t < s
      BY <1>3, <1>8, <2>2 DEF Slot
  <2> QED
      BY <1>3, <1>4, <1>8, <2>2, <2>3 DEF Flights, WorkOnce, Slot
<1>14. WorkersHold'
  <2> SUFFICES ASSUME NEW b \in Actor, NEW t \in Slot, t > 1, t <= depth'[b]
               PROVE  holder'[frame'[b][t].uri] = {b} /\ frame'[b][t].uri \in visited[b]
      BY <1>1 DEF WorkersHold
  <2>1. t <= depth[b] /\ frame'[b][t] = frame[b][t] /\ frame[b][t].uri # u /\ frame[b][t].uri \in URI
      BY <1>5, <1>9, <1>13 DEF Frame
  <2> QED
      BY <1>11, <2>1 DEF Flights, WorkersHold
<1>15. WorkOnce'
  <2> SUFFICES ASSUME NEW b \in Actor, NEW r \in Slot, NEW t \in Slot, r > 1, r < t, t <= depth'[b]
               PROVE  frame'[b][r].uri # frame'[b][t].uri
      BY DEF WorkOnce
  <2>1. r <= depth'[b]
      BY <1>5, <1>8, <1>3 DEF Slot
  <2> QED
      BY <1>9, <2>1 DEF Flights, WorkOnce
<1>16. \A b \in Actor : waits'[b] = waits[b] \ {u}
    BY <1>1
<1>17. WaitsForReference'
  <2> SUFFICES ASSUME NEW b \in Actor, NEW v \in waits'[b]
               PROVE  depth'[b] > 0 /\ v \in Hydrated[frame'[b][depth'[b]].uri]
      BY DEF WaitsForReference, Top
  <2>1. b # a /\ depth[b] > 0 /\ v \in Hydrated[Top(b).uri]
      BY <1>1, <1>16 DEF Flights, WaitsForReference
  <2>2. depth[b] \in Slot
      BY <2>1, TopFacts
  <2> QED
      BY <1>6, <1>8, <2>1, <2>2 DEF Top
<1>18. NoLostWakeup'
  <2> SUFFICES ASSUME NEW b \in Actor, NEW v \in waits'[b]
               PROVE  holder'[v] # {} /\ b \notin holder'[v]
      BY DEF NoLostWakeup
  <2>1. v \in waits[b] /\ v # u /\ v \in URI
      BY <1>5, <1>16
  <2> QED
      BY <1>11, <2>1 DEF Flights, NoLostWakeup
<1> QED
    BY <1>7, <1>12, <1>14, <1>15, <1>17, <1>18 DEF Flights

\* A restart empties the stacks and the map.
LEMMA CrashFlights ==
    ASSUME Crash
    PROVE  FramesReady' /\ Flights'
<1>1. /\ frame' = [a \in Actor |-> [s \in Slot |-> NoFrame]]
      /\ depth' = [a \in Actor |-> 0]
      /\ holder' = [u \in URI |-> {}]
      /\ waits' = [a \in Actor |-> {}]
    BY DEF Crash
<1>2. FrameReady(NoFrame)
    BY DEF FrameReady, NoFrame
<1>3. FramesReady'
    BY <1>1, <1>2 DEF FramesReady
<1>4. HoldersWork' /\ WaitsForReference' /\ NoLostWakeup'
    BY <1>1 DEF HoldersWork, WaitsForReference, NoLostWakeup
<1>5. \A a \in Actor : \A s \in Slot : s > 1 => ~(s <= depth'[a])
    BY <1>1 DEF Slot
<1>6. WorkersHold'
    BY <1>5 DEF WorkersHold
<1>7. WorkOnce'
  <2>1. \A s, t \in Slot : s > 1 /\ s < t => t > 1
      BY DEF Slot
  <2> QED
      BY <1>5, <2>1 DEF WorkOnce
<1> QED
    BY <1>3, <1>4, <1>6, <1>7 DEF Flights

-----------------------------------------------------------------------------
(* Every step is of one of these kinds.                                     *)

\* What a step does to the stacks, the scopes and the in-flight map.
FlightStep ==
    \/ \E a \in Actor : \E f \in Frame : Moves(a, f) \/ Begins(a, f)
    \/ \E a \in Actor : Ends(a) \/ Finish(a)
    \/ \E a \in Actor : \E d \in URI : EnsureWait(a, d) \/ EnsureAcquire(a, d)
    \/ Crash
    \/ UNCHANGED <<frame, depth, visited, flights>>

\* Replacing the top frame is a move.
LEMMA MoveKind ==
    ASSUME IInv, NEW a \in Actor, NEW p, At(a, p), NEW f \in Frame, FrameReady(f), f.uri = Top(a).uri,
           SetTop(a, f), UNCHANGED <<visited, flights>>
    PROVE  FlightStep
<1>1. depth[a] > 0 /\ waits[a] = {}
    BY DEF At
<1>2. depth[a] \in Slot
    BY <1>1, TopFacts
<1>3. Moves(a, f)
    BY <1>1, <1>2 DEF Moves, SetTop
<1> QED
    BY <1>3 DEF FlightStep

\* What a look-up does to stacks and flights.
LEMMA LookupKind ==
    ASSUME IInv, FramesReady, NEW a \in Actor, NEW d \in URI, LookupRef(a, d) \/ EnsureSkip(a, d)
    PROVE  FlightStep
<1>1. CASE LookupRef(a, d)
  <2> DEFINE f == Top(a)
             r == rows[d].ref
             l == [f.links EXCEPT ![d] = r]
             g == [f EXCEPT !.todo = f.todo \ {d}, !.links = l]
  <2>1. PICK p \in {"resolve", "resolve2"} : At(a, p)
      BY <1>1 DEF LookupRef
  <2>2. f.pc = p /\ depth[a] > 0
      BY <2>1 DEF At
  <2>3. f \in Frame
      BY <2>2, TopFacts
  <2>4. r \in Nat
      BY DEF IInv, TypeOK, Row
  <2>5. SetTop(a, Advance([f EXCEPT !.todo = @ \ {d}, !.links[d] = r])) /\ UNCHANGED <<visited, flights>>
      BY <1>1 DEF LookupRef, scope
  <2>6. g = [f EXCEPT !.todo = @ \ {d}, !.links[d] = r]
      BY <2>3 DEF Frame
  <2>7. l \in Links
      BY <2>3, <2>4 DEF Frame, Links
  <2> HIDE DEF l, r
  <2>8. g \in Frame /\ g.pc = p /\ g.uri = f.uri
      BY <2>2, <2>3, <2>7 DEF Frame
  <2> HIDE DEF g
  <2>9. Advance(g) \in Frame /\ FrameReady(Advance(g)) /\ Advance(g).uri = f.uri
      BY <2>8, AdvanceReady, AdvanceFacts
  <2> QED
      BY <2>1, <2>5, <2>6, <2>9, MoveKind
<1>2. CASE EnsureSkip(a, d)
  <2> DEFINE g == Advance([Top(a) EXCEPT !.todo = @ \ {d}])
  <2>1. At(a, "hydrate") /\ d \in Top(a).todo /\ SetTop(a, g) /\ UNCHANGED <<visited, flights>>
      BY <1>2 DEF EnsureSkip, Ensured, scope
  <2>2. g \in Frame /\ FrameReady(g) /\ g.uri = Top(a).uri
      BY <2>1, HydrateFacts
  <2> HIDE DEF g
  <2> QED
      BY <2>1, <2>2, MoveKind
<1> QED
    BY <1>1, <1>2

\* What the steps of ensure do to stacks and flights.
LEMMA EnsureKind ==
    ASSUME IInv, FramesReady, NEW a \in Actor, EnsureLoad(a) \/ Fetch(a) \/ FetchFails(a) \/ PersistFails(a)
    PROVE  FlightStep
<1> DEFINE f == Top(a)
<1>1. PICK p : At(a, p)
    BY DEF EnsureLoad, Fetch, FetchFails, PersistFails
<1>2. f \in Frame
    BY <1>1, TopFacts DEF At
<1>3. rows[f.uri].cid \in Cid
    BY <1>2 DEF IInv, TypeOK, Row, Frame
<1>4. UNCHANGED <<visited, flights>>
    BY DEF EnsureLoad, Fetch, FetchFails, PersistFails, scope
<1>5. "record" \in Op /\ {"return", "error", "fetch", "load"} \subseteq Pc
    BY DEF Op, Pc
<1>6. \/ \E q \in {"return", "error", "fetch"} : SetTop(a, [f EXCEPT !.pc = q])
      \/ \E c \in Cid : SetTop(a, [f EXCEPT !.op = "record", !.pc = "load", !.cid = c, !.raw = TRUE])
  <2>1. CASE EnsureLoad(a)
    <3> DEFINE c == rows[f.uri].cid
    <3>1. f.pc = "load"
        BY <2>1 DEF EnsureLoad, At
    <3>2. [f EXCEPT !.op = "record", !.cid = c, !.raw = TRUE]
             = [f EXCEPT !.op = "record", !.pc = "load", !.cid = c, !.raw = TRUE]
        BY <1>2, <3>1 DEF Frame
    <3>3. \/ SetTop(a, [f EXCEPT !.pc = "return"]) \/ SetTop(a, [f EXCEPT !.op = "record", !.cid = c, !.raw = TRUE])
          \/ SetTop(a, [f EXCEPT !.pc = "error"]) \/ SetTop(a, [f EXCEPT !.pc = "fetch"])
        BY <2>1 DEF EnsureLoad
    <3> QED
        BY <1>3, <3>2, <3>3
  <2>2. CASE Fetch(a)
    <3>1. \E c \in Remote[f.uri] : SetTop(a, [f EXCEPT !.op = "record", !.pc = "load", !.cid = c, !.raw = TRUE])
        BY <2>2 DEF Fetch
    <3>2. Remote[f.uri] \subseteq Cid
        BY <1>2, RemoteAssumption DEF Frame, Cid
    <3> QED
        BY <3>1, <3>2
  <2>3. CASE FetchFails(a) \/ PersistFails(a)
      BY <2>3 DEF FetchFails, PersistFails
  <2> QED
      BY <2>1, <2>2, <2>3
<1>7. PICK g \in Frame : FrameReady(g) /\ g.uri = f.uri /\ SetTop(a, g)
  <2>1. ASSUME NEW q \in {"return", "error", "fetch"}, SetTop(a, [f EXCEPT !.pc = q])
        PROVE  \E g \in Frame : FrameReady(g) /\ g.uri = f.uri /\ SetTop(a, g)
    <3> DEFINE g == [f EXCEPT !.pc = q]
    <3>1. g \in Frame /\ g.pc = q /\ g.uri = f.uri
        BY <1>2, <1>5 DEF Frame
    <3> QED
        BY <2>1, <3>1, IdleReady
  <2>2. ASSUME NEW c \in Cid, SetTop(a, [f EXCEPT !.op = "record", !.pc = "load", !.cid = c, !.raw = TRUE])
        PROVE  \E g \in Frame : FrameReady(g) /\ g.uri = f.uri /\ SetTop(a, g)
    <3> DEFINE g == [f EXCEPT !.op = "record", !.pc = "load", !.cid = c, !.raw = TRUE]
    <3>1. g \in Frame /\ g.pc = "load" /\ g.uri = f.uri
        BY <1>2, <1>5 DEF Frame
    <3> QED
        BY <2>2, <3>1, IdleReady
  <2> QED
      BY <1>6, <2>1, <2>2
<1> QED
    BY <1>1, <1>4, <1>7, MoveKind

\* What loading a dependency does to stacks and flights.
LEMMA LoadKind ==
    ASSUME IInv, FramesReady, NEW a \in Actor, LoadRecord(a) \/ LoadDelete(a)
    PROVE  FlightStep
<1> DEFINE h == Top(a)
           row == rows[h.uri]
           known == IF row.cid # NoCid THEN row.cid ELSE DeletedCid
           cid == IF h.cid # NoCid THEN h.cid ELSE known
           f == [h EXCEPT !.cid = cid, !.raw = @ \/ row.raw, !.deleted = TRUE]
<1>1. At(a, "load") /\ UNCHANGED <<visited, flights>>
    BY DEF LoadRecord, LoadDelete, scope
<1>2. h \in Frame
    BY <1>1, TopFacts DEF At
<1>3. row \in Row
    BY <1>2 DEF IInv, TypeOK, Frame
<1>4. cid \in Cid /\ (h.raw \/ row.raw) \in BOOLEAN /\ row.links \in Links
    BY <1>2, <1>3 DEF Frame, Row, Cid
<1>5. \E k \in {h, f} : \/ SetTop(a, StartMapping(k))
                        \/ SetTop(a, [k EXCEPT !.pc = "return"]) \/ SetTop(a, [k EXCEPT !.pc = "error"])
                        \/ SetTop(a, [k EXCEPT !.pc = "persist", !.state = "deleted", !.links = row.links])
  <2>1. CASE LoadRecord(a)
    <3>1. \/ SetTop(a, [h EXCEPT !.pc = "return"]) \/ SetTop(a, [h EXCEPT !.pc = "error"])
          \/ SetTop(a, StartMapping(h))
        BY <2>1 DEF LoadRecord
    <3> HIDE DEF h, f
    <3> QED
        BY <3>1
  <2>2. CASE LoadDelete(a)
    <3>1. \/ SetTop(a, [f EXCEPT !.pc = "persist", !.state = "deleted", !.links = row.links])
          \/ SetTop(a, StartMapping(f)) \/ SetTop(a, [f EXCEPT !.pc = "error"])
        BY <2>2 DEF LoadDelete
    <3> HIDE DEF h, f, row
    <3> QED
        BY <3>1
  <2> QED
      BY <2>1, <2>2
<1> HIDE DEF cid
<1>6. f \in Frame /\ f.uri = h.uri
    BY <1>2, <1>4 DEF Frame
<1> HIDE DEF f
<1>7. PICK k \in Frame : /\ k.uri = h.uri
                         /\ \/ SetTop(a, StartMapping(k))
                            \/ SetTop(a, [k EXCEPT !.pc = "return"]) \/ SetTop(a, [k EXCEPT !.pc = "error"])
                            \/ SetTop(a, [k EXCEPT !.pc = "persist", !.state = "deleted", !.links = row.links])
    BY <1>2, <1>5, <1>6
<1>8. PICK g \in Frame : FrameReady(g) /\ g.uri = h.uri /\ SetTop(a, g)
  <2>1. StartMapping(k) \in Frame
      <3> DEFINE j == [k EXCEPT !.pc = "resolve", !.links = NoLinks, !.todo = Refs[k.uri]]
      <3>1. Refs[k.uri] \in SUBSET URI /\ "resolve" \in Pc
          BY RefsAssumption DEF Frame, Pc
      <3>2. j \in Frame
          BY <3>1, NoFrameType DEF Frame
      <3> HIDE DEF j
      <3>3. Advance(j) \in Frame
          BY <3>2, AdvanceFacts
      <3> QED
          BY <3>3 DEF StartMapping, j
  <2>2. FrameReady(StartMapping(k)) /\ StartMapping(k).uri = h.uri
      BY <1>7, StartReady
  <2>3. \A q \in {"return", "error"} : LET g == [k EXCEPT !.pc = q] IN g \in Frame /\ g.pc = q /\ g.uri = h.uri
      BY <1>7 DEF Frame, Pc
  <2>4. LET g == [k EXCEPT !.pc = "persist", !.state = "deleted", !.links = row.links]
        IN  g \in Frame /\ g.pc = "persist" /\ g.uri = h.uri
      BY <1>4, <1>7 DEF Frame, Pc, State
  <2> HIDE DEF h, row
  <2> QED
      BY <1>7, <2>1, <2>2, <2>3, <2>4, IdleReady
<1> QED
    BY <1>1, <1>8, MoveKind

\* What a publish does to stacks and flights.
LEMMA PublishKind ==
    ASSUME IInv, FramesReady, NEW a \in Actor, Publish(a) \/ PublishFails(a) \/ Persist(a)
    PROVE  FlightStep
<1> DEFINE f == Top(a)
<1>1. PICK p : At(a, p)
    BY DEF Publish, PublishFails, Persist
<1>2. f \in Frame
    BY <1>1, TopFacts DEF At
<1>3. UNCHANGED <<visited, flights>>
    BY DEF Publish, PublishFails, Persist, scope
<1>4. Len(log) + 1 \in Nat
    BY DEF IInv, TypeOK
<1>5. PICK g \in Frame : FrameReady(g) /\ g.uri = f.uri /\ SetTop(a, g)
  <2>1. CASE Publish(a)
    <3> DEFINE n == Len(log) + 1
               g == [f EXCEPT !.pc = "persist", !.state = "published", !.ref = n, !.tries = 1]
    <3>1. SetTop(a, g)
        BY <2>1 DEF Publish
    <3> HIDE DEF n
    <3>2. n \in Nat
        BY <1>4 DEF n
    <3>3. g \in Frame /\ g.pc = "persist" /\ g.uri = f.uri
        BY <1>2, <3>2, PublishedFrame
    <3> QED
        BY <3>1, <3>3, IdleReady
  <2>2. CASE PublishFails(a)
    <3> DEFINE g == [f EXCEPT !.pc = "persist", !.state = "failed", !.tries = 1]
    <3>1. SetTop(a, g)
        BY <2>2 DEF PublishFails
    <3>2. g \in Frame /\ g.pc = "persist" /\ g.uri = f.uri
        BY <1>2 DEF Frame, Pc, State
    <3> QED
        BY <3>1, <3>2, IdleReady
  <2>3. CASE Persist(a)
    <3> DEFINE g == [f EXCEPT !.pc = "return"]
    <3>1. SetTop(a, g)
        BY <2>3 DEF Persist
    <3>2. g \in Frame /\ g.pc = "return" /\ g.uri = f.uri
        BY <1>2 DEF Frame, Pc
    <3> QED
        BY <3>1, <3>2, IdleReady
  <2> QED
      BY <2>1, <2>2, <2>3
<1> QED
    BY <1>1, <1>3, <1>5, MoveKind

\* What the start of a row does to stacks and flights.
LEMMA BeginKind ==
    ASSUME IInv, NEW a \in Actor, Free(a), NEW f \in Frame, FrameReady(f), Push(a, f),
           \A b \in Actor : b # a => visited'[b] = visited[b], UNCHANGED flights
    PROVE  FlightStep
<1>1. depth[a] = 0 /\ 1 \in Slot /\ depth[a] + 1 = 1
    BY BoundsAssumption DEF Free, Slot
<1>2. Begins(a, f)
    BY <1>1 DEF Push, Begins
<1> QED
    BY <1>2 DEF FlightStep

\* What the consumer does to stacks and flights.
LEMMA ConsumeKind ==
    ASSUME IInv, Consume
    PROVE  FlightStep
<1> DEFINE e == events[next]
           op == IF e.act = "delete" THEN "delete" ELSE "record"
           g == [NoFrame EXCEPT !.op = op, !.pc = "load", !.uri = e.uri, !.cid = e.cid, !.raw = e.raw]
           seen == IF op = "record" THEN {e.uri} ELSE {}
<1>1. /\ Free("consumer") /\ next <= Len(events) /\ Push("consumer", g)
      /\ visited' = [visited EXCEPT !["consumer"] = seen]
      /\ UNCHANGED flights
    BY DEF Consume
<1>2. "consumer" \in Actor
    BY DEF Actor
<1>3. e \in Event
  <2>1. events \in Seq(Event) /\ next \in Nat \ {0}
      BY ScriptsAssumption DEF IInv, TypeOK
  <2>2. next \in 1..Len(events)
      BY <1>1, <2>1
  <2> QED
      BY <2>1, <2>2
<1>4. e.uri \in URI /\ e.cid \in Cid /\ e.raw \in BOOLEAN /\ op \in Op
    BY <1>3 DEF Event, Cid, Op
<1> HIDE DEF e, op
<1>5. g \in Frame /\ g.pc = "load"
  <2>1. NoFrame \in Frame
      BY NoFrameType
  <2> QED
      BY <1>4, <2>1 DEF Frame, Pc
<1> HIDE DEF g
<1>6. FrameReady(g)
    BY <1>5, IdleReady
<1>7. visited \in [Actor -> SUBSET URI]
    BY DEF IInv, TypeOK
<1>8. \A b \in Actor : b # "consumer" => visited'[b] = visited[b]
    BY <1>1, <1>7
<1> QED
    BY <1>1, <1>2, <1>5, <1>6, <1>8, BeginKind

\* What the end of a record does to stacks and flights.
LEMMA EndKind ==
    ASSUME IInv, NEW a \in Actor, Acknowledge \/ SkipEvent \/ EndRow(a)
    PROVE  FlightStep
<1>1. PICK b \in Actor : EndScope(b) /\ waits[b] = {} /\ UNCHANGED flights
    BY DEF Acknowledge, SkipEvent, EndRow, At, Actor
<1>2. 1 \in Slot
    BY BoundsAssumption DEF Slot
<1>3. visited \in [Actor -> SUBSET URI]
    BY DEF IInv, TypeOK
<1>4. Ends(b)
    BY <1>1, <1>2, <1>3 DEF EndScope, Ends
<1> QED
    BY <1>4 DEF FlightStep

\* What the writes to the table do to stacks and flights.
LEMMA RowKind ==
    ASSUME IInv, NEW c, BeginDeferred(c) \/ BeginRetry(c) \/ BeginExpire(c)
    PROVE  FlightStep
<1>1. visited \in [Actor -> SUBSET URI]
    BY DEF IInv, TypeOK
<1>2. CASE BeginDeferred(c)
  <2> DEFINE f == Resume(c, "deferred", "resolve")
  <2>1. /\ "deferred" \in Actor /\ Free("deferred") /\ c \in batch["deferred"]
        /\ Push("deferred", StartMapping(f)) /\ visited' = [visited EXCEPT !["deferred"] = {c.uri}]
        /\ UNCHANGED flights
      BY <1>2 DEF BeginDeferred, Actor
  <2>2. f \in Frame /\ f.ref = 0 /\ f.state = "none"
      BY <2>1, ResumeFacts DEF Op, Pc
  <2> HIDE DEF f
  <2>3. StartMapping(f) \in Frame /\ FrameReady(StartMapping(f))
      BY <2>2, StartMappingFacts, StartReady
  <2>4. \A b \in Actor : b # "deferred" => visited'[b] = visited[b]
      BY <1>1, <2>1
  <2> QED
      BY <2>1, <2>3, <2>4, BeginKind
<1>3. CASE BeginRetry(c)
  <2> DEFINE f == Resume(c, "retry", "publish")
  <2>1. /\ "retry" \in Actor /\ Free("retry") /\ c \in batch["retry"]
        /\ Push("retry", f) /\ visited' = visited /\ UNCHANGED flights
      BY <1>3 DEF BeginRetry, Actor, scope
  <2>2. f \in Frame
      BY <2>1, ResumeFacts DEF Op, Pc
  <2>3. f.pc = "publish" /\ f.op = "retry"
      BY NoFrameType DEF Resume, NoFrame
  <2> HIDE DEF f
  <2>4. FrameReady(f)
      BY <2>3 DEF FrameReady
  <2> QED
      BY <2>1, <2>2, <2>4, BeginKind
<1>4. CASE BeginExpire(c)
  <2> DEFINE f == Resume(c, "expire", "persist")
             r == c.row.ref
             n == c.row.attempts
             g == [f EXCEPT !.state = "failed", !.ref = r, !.tries = n]
  <2>1. /\ "expiry" \in Actor /\ Free("expiry") /\ c \in batch["expiry"]
        /\ Push("expiry", g) /\ visited' = visited /\ UNCHANGED flights
      BY <1>4 DEF BeginExpire, Actor, scope
  <2>2. f \in Frame /\ r = 0 /\ n \in Nat
      BY <2>1, ResumeFacts DEF Op, Pc
  <2>3. f.pc = "persist"
      BY NoFrameType DEF Resume, NoFrame
  <2> HIDE DEF f, r, n
  <2>4. r \in Nat
      BY <2>2
  <2>5. g \in Frame /\ g.pc = "persist"
      BY <2>2, <2>3, <2>4 DEF Frame, State
  <2> HIDE DEF g
  <2>6. FrameReady(g)
      BY <2>5, IdleReady
  <2> QED
      BY <2>1, <2>5, <2>6, BeginKind
<1> QED
    BY <1>2, <1>3, <1>4

\* Steps that concern the table, the batches or the clock alone.
LEMMA OtherKind ==
    ASSUME \/ ScanRetry \/ ScanDeferred \/ ScanExpiry \/ Tick \/ UNCHANGED vars
           \/ \E c \in Candidates("retry") : BackOff(c)
           \/ \E u \in URI : ResetMessageForRetry(u)
    PROVE  FlightStep
<1>1. UNCHANGED <<stacks, scope, flights>>
    BY DEF ScanRetry, ScanDeferred, ScanExpiry, Tick, BackOff, ResetMessageForRetry, vars
<1> QED
    BY <1>1 DEF FlightStep, stacks, scope

\* Every step is of one of these kinds.
LEMMA NextKind ==
    ASSUME IInv, FramesReady, [Next]_vars
    PROVE  FlightStep
<1>1. ASSUME NEW a \in Actor, Work(a) PROVE FlightStep
  <2>1. ASSUME NEW d \in URI, EnsureWait(a, d) \/ EnsureAcquire(a, d) PROVE FlightStep
      BY <2>1 DEF FlightStep
  <2>2. ASSUME Finish(a) PROVE FlightStep
      BY <2>2 DEF FlightStep
  <2> QED
      BY <1>1, <2>1, <2>2, LookupKind, EnsureKind, LoadKind, PublishKind DEF Work
<1>2. CASE ConsumerStep
    BY <1>2, ConsumeKind, EndKind DEF ConsumerStep, Actor
<1>3. CASE SchedulerStep
  <2>1. ASSUME NEW a \in Schedulers, EndRow(a) PROVE FlightStep
      BY <2>1, EndKind DEF Actor
  <2> QED
      BY <1>3, <2>1, RowKind, OtherKind DEF SchedulerStep
<1>4. CASE Crash
    BY <1>4 DEF FlightStep
<1> QED
    BY <1>1, <1>2, <1>3, <1>4, OtherKind DEF Next

\* Every step keeps the facts about records in flight.
LEMMA FlightNext == FlightInv /\ [Next]_vars => FlightInv'
<1> SUFFICES ASSUME FlightInv, [Next]_vars PROVE FlightInv'
    OBVIOUS
<1>1. IInv /\ FramesReady /\ Flights
    BY DEF FlightInv
<1>2. IInv'
    BY <1>1, NextBacked
<1>3. ASSUME UNCHANGED <<frame, depth, visited, flights>> PROVE FramesReady' /\ Flights'
  <2>1. UNCHANGED <<frame, depth, visited, holder, waits>>
      BY <1>3 DEF flights
  <2>2. FramesReady' /\ HoldersWork'
      BY <1>1, <2>1 DEF FramesReady, Flights, HoldersWork
  <2>3. WorkersHold' /\ WorkOnce'
      BY <1>1, <2>1 DEF Flights, WorkersHold, WorkOnce
  <2>4. WaitsForReference' /\ NoLostWakeup'
      BY <1>1, <2>1 DEF Flights, WaitsForReference, NoLostWakeup, Top
  <2> QED
      BY <2>2, <2>3, <2>4 DEF Flights
<1>4. FlightStep
    BY <1>1, NextKind
<1>5. ASSUME NEW a \in Actor, NEW f \in Frame, Moves(a, f) \/ Begins(a, f) PROVE FramesReady' /\ Flights'
    BY <1>1, <1>5, MovesFlights, BeginsFlights
<1>6. ASSUME NEW a \in Actor, Ends(a) \/ Finish(a) PROVE FramesReady' /\ Flights'
    BY <1>1, <1>6, EndsFlights, FinishFlights
<1>7. ASSUME NEW a \in Actor, NEW d \in URI, EnsureWait(a, d) \/ EnsureAcquire(a, d) PROVE FramesReady' /\ Flights'
    BY <1>1, <1>7, WaitFlights, AcquireFlights
<1>8. FramesReady' /\ Flights'
    BY <1>3, <1>4, <1>5, <1>6, <1>7, CrashFlights DEF FlightStep
<1> QED
    BY <1>2, <1>8 DEF FlightInv

\* At the start nothing is in flight.
LEMMA FlightInit == Init => FlightInv
<1> SUFFICES ASSUME Init PROVE FlightInv
    OBVIOUS
<1>1. /\ frame = [a \in Actor |-> [s \in Slot |-> NoFrame]]
      /\ depth = [a \in Actor |-> 0]
      /\ holder = [u \in URI |-> {}]
      /\ waits = [a \in Actor |-> {}]
    BY DEF Init
<1>2. FrameReady(NoFrame)
    BY DEF FrameReady, NoFrame
<1>3. FramesReady
    BY <1>1, <1>2 DEF FramesReady
<1>4. HoldersWork /\ WaitsForReference /\ NoLostWakeup
    BY <1>1 DEF HoldersWork, WaitsForReference, NoLostWakeup
<1>5. \A a \in Actor : \A s \in Slot : s > 1 => ~(s <= depth[a])
    BY <1>1 DEF Slot
<1>6. \A s, t \in Slot : s > 1 /\ s < t => t > 1
    BY DEF Slot
<1>7. WorkersHold /\ WorkOnce
    BY <1>5, <1>6 DEF WorkersHold, WorkOnce
<1> QED
    BY <1>3, <1>4, <1>7, InitBacked DEF FlightInv, Flights

\* finish never leaves a waiter behind: whoever waits for a record in flight
\* waits for another goroutine that is at work on it.
THEOREM WaitersHaveAHolder == Spec => []NoLostWakeup
<1>1. FlightInv => NoLostWakeup
    BY DEF FlightInv, Flights
<1> QED
    BY FlightInit, FlightNext, <1>1, PTL DEF Spec

-----------------------------------------------------------------------------
(* What is published.                                                       *)

\* Only Publish writes to the feeds.
LEMMA WhoPublishes ==
    ASSUME [Next]_vars
    PROVE  log' = log \/ \E a \in Actor : Publish(a)
<1>1. ASSUME NEW a \in Actor, Work(a), ~Publish(a) PROVE log' = log
    BY <1>1 DEF Work, LookupRef, EnsureSkip, EnsureWait, EnsureAcquire, EnsureLoad, Fetch, FetchFails,
       LoadRecord, LoadDelete, PublishFails, Persist, PersistFails, Finish, table
<1>2. ASSUME ConsumerStep \/ SchedulerStep PROVE log' = log
    BY <1>2 DEF ConsumerStep, SchedulerStep, Consume, Acknowledge, SkipEvent, ScanRetry, ScanDeferred,
       ScanExpiry, EndRow, BeginDeferred, BeginRetry, BackOff, BeginExpire, table
<1>3. ASSUME Tick \/ Crash \/ UNCHANGED vars \/ \E u \in URI : ResetMessageForRetry(u) PROVE log' = log
    BY <1>3 DEF Tick, Crash, ResetMessageForRetry, vars, table
<1> QED
    BY <1>1, <1>2, <1>3 DEF Next

\* Only a retry publishes a placeholder.
LEMMA LeakNext ==
    ASSUME FlightInv, OnlyRetryLeaks, [Next]_vars
    PROVE  OnlyRetryLeaks'
<1>1. CASE log' = log
    BY <1>1 DEF OnlyRetryLeaks
<1>2. ASSUME NEW a \in Actor, Publish(a) PROVE OnlyRetryLeaks'
  <2> DEFINE f == Top(a)
             m == [uri |-> f.uri, cid |-> f.cid, links |-> f.links, deleted |-> f.deleted, by |-> f.op]
  <2>1. depth[a] > 0 /\ f.pc = "publish" /\ log' = Append(log, m)
      BY <1>2 DEF Publish, At
  <2>2. f \in Frame /\ depth[a] \in Slot
      BY <2>1, TopFacts DEF FlightInv
  <2>3. FrameReady(f)
      BY <2>2 DEF FlightInv, FramesReady, Top
  <2>4. m \in Message /\ m.uri = f.uri /\ m.links = f.links /\ m.by = f.op
      BY <2>2 DEF Frame, Message
  <2>5. Unresolved(m.uri, m.links) # {} => m.by = "retry"
      BY <2>1, <2>3, <2>4 DEF FrameReady
  <2> HIDE DEF m, f
  <2>6. log \in Seq(Message)
      BY DEF FlightInv, IInv, TypeOK
  <2>7. Len(log') = Len(log) + 1 /\ log'[Len(log) + 1] = m /\ \A i \in 1..Len(log) : log'[i] = log[i]
      BY <2>1, <2>4, <2>6, LogGrowth
  <2> SUFFICES ASSUME NEW i \in 1..Len(log'), Unresolved(log'[i].uri, log'[i].links) # {}
               PROVE  log'[i].by = "retry"
      BY DEF OnlyRetryLeaks
  <2>8. i \in 1..Len(log) \/ i = Len(log) + 1
      BY <2>6, <2>7
  <2> QED
      BY <2>5, <2>7, <2>8 DEF OnlyRetryLeaks
<1> QED
    BY <1>1, <1>2, WhoPublishes

\* ProcessRecord, ProcessDeletedRecord, the resolver and the deferred scheduler
\* publish a message only when every reference in it is resolved, whatever
\* happens between the lookups and the publish; retryMessage alone repeats a
\* stored payload with what is missing in it.
THEOREM PlaceholdersAreRetries == Spec => []OnlyRetryLeaks
<1>1. Init => FlightInv /\ OnlyRetryLeaks
  <2>1. Init => OnlyRetryLeaks
      BY DEF Init, OnlyRetryLeaks
  <2> QED
      BY <2>1, FlightInit
<1>2. (FlightInv /\ OnlyRetryLeaks) /\ [Next]_vars => (FlightInv /\ OnlyRetryLeaks)'
    BY FlightNext, LeakNext
<1> QED
    BY <1>1, <1>2, PTL DEF Spec

-----------------------------------------------------------------------------
(* Nobody waits in a circle.                                                *)

\* The records that are hydrated for a record come before it: replies and quotes
\* refer to records that existed when they were written.
Ranked(rank) ==
    /\ rank \in [URI -> Nat]
    /\ \A u \in URI : \A d \in Hydrated[u] : rank[d] < rank[u]
Acyclic == \E rank \in [URI -> Nat] : Ranked(rank)

\* The records on a stack go back in time.
StacksDescend(rank) ==
    \A a \in Actor : \A s, t \in Slot :
        s < t /\ t <= depth[a] => rank[frame[a][t].uri] < rank[frame[a][s].uri]

\* Every step keeps the ranks decreasing along a stack.
LEMMA DescendNext ==
    ASSUME NEW rank, Ranked(rank), FlightInv, StacksDescend(rank), [Next]_vars
    PROVE  StacksDescend(rank)'
<1>1. /\ frame \in [Actor -> [Slot -> Frame]] /\ depth \in [Actor -> 0..(MaxDepth + 1)]
      /\ IInv /\ FramesReady
    BY DEF FlightInv, IInv, TypeOK
<1>2. \A s, t \in Slot : s < t => t > 1 /\ ~(t <= 0) /\ ~(t <= 1)
    BY DEF Slot
<1>3. ASSUME NEW a \in Actor, NEW f \in Frame, Moves(a, f) PROVE StacksDescend(rank)'
  <2>1. /\ depth[a] \in Slot /\ f.uri = Top(a).uri /\ frame' = [frame EXCEPT ![a][depth[a]] = f] /\ UNCHANGED depth
      BY <1>3 DEF Moves
  <2>2. \A b \in Actor : \A s \in Slot : frame'[b][s].uri = frame[b][s].uri
      BY <1>1, <2>1 DEF Top
  <2> QED
      BY <2>1, <2>2 DEF StacksDescend
<1>4. ASSUME NEW a \in Actor, NEW f \in Frame, Begins(a, f) PROVE StacksDescend(rank)'
  <2>1. 1 \in Slot /\ frame' = [frame EXCEPT ![a][1] = f] /\ depth' = [depth EXCEPT ![a] = 1]
      BY <1>4 DEF Begins
  <2>2. depth'[a] = 1 /\ \A b \in Actor : b # a => depth'[b] = depth[b] /\ \A s \in Slot : frame'[b][s] = frame[b][s]
      BY <1>1, <2>1
  <2> QED
      BY <1>2, <2>2 DEF StacksDescend
<1>5. ASSUME NEW a \in Actor, Ends(a) PROVE StacksDescend(rank)'
  <2>1. 1 \in Slot /\ frame' = [frame EXCEPT ![a][1] = NoFrame] /\ depth' = [depth EXCEPT ![a] = 0]
      BY <1>5 DEF Ends
  <2>2. depth'[a] = 0 /\ \A b \in Actor : b # a => depth'[b] = depth[b] /\ \A s \in Slot : frame'[b][s] = frame[b][s]
      BY <1>1, <2>1
  <2> QED
      BY <1>2, <2>2 DEF StacksDescend
<1>6. ASSUME NEW a \in Actor, Finish(a) PROVE StacksDescend(rank)'
  <2> DEFINE n == depth[a]
  <2>1. n > 1 /\ frame' = [frame EXCEPT ![a][n] = NoFrame] /\ depth' = [depth EXCEPT ![a] = n - 1]
      BY <1>6 DEF Finish
  <2>2. n \in Slot
      BY <1>1, <2>1 DEF Slot
  <2>3. depth'[a] = n - 1 /\ \A b \in Actor : b # a => depth'[b] = depth[b] /\ \A s \in Slot : frame'[b][s] = frame[b][s]
      BY <1>1, <2>1, <2>2
  <2>4. \A s \in Slot : s # n => frame'[a][s] = frame[a][s]
      BY <1>1, <2>1, <2>2
  <2>5. \A s, t \in Slot : s < t /\ t <= n - 1 => t <= n /\ s # n /\ t # n
      BY <2>2 DEF Slot
  <2>6. depth[a] = n
      OBVIOUS
  <2> HIDE DEF n
  <2> QED
      BY <2>3, <2>4, <2>5, <2>6 DEF StacksDescend
<1>7. ASSUME NEW a \in Actor, NEW d \in URI, EnsureWait(a, d) PROVE StacksDescend(rank)'
  <2> DEFINE g == Advance([Top(a) EXCEPT !.todo = @ \ {d}])
  <2>1. At(a, "hydrate") /\ d \in Top(a).todo /\ frame' = [frame EXCEPT ![a][depth[a]] = g] /\ UNCHANGED depth
      BY <1>7 DEF EnsureWait, Ensured, SetTop
  <2>2. g \in Frame /\ g.uri = Top(a).uri /\ depth[a] \in Slot
      BY <1>1, <2>1, HydrateFacts
  <2> HIDE DEF g
  <2>3. \A b \in Actor : \A s \in Slot : frame'[b][s].uri = frame[b][s].uri
      BY <1>1, <2>1, <2>2 DEF Top
  <2> QED
      BY <2>1, <2>3 DEF StacksDescend
<1>8. ASSUME NEW a \in Actor, NEW d \in URI, EnsureAcquire(a, d) PROVE StacksDescend(rank)'
  <2> DEFINE g == Advance([Top(a) EXCEPT !.todo = @ \ {d}])
             h == [NoFrame EXCEPT !.op = "ensure", !.pc = "load", !.uri = d]
             n == depth[a]
             u == Top(a).uri
  <2>1. /\ At(a, "hydrate") /\ d \in Top(a).todo /\ DepthAllowed(a)
        /\ depth' = [depth EXCEPT ![a] = n + 1]
        /\ frame' = [frame EXCEPT ![a][n] = g, ![a][n + 1] = h]
      BY <1>8 DEF EnsureAcquire
  <2>2. g \in Frame /\ g.uri = u /\ d \in Hydrated[u] /\ n \in Slot
      BY <1>1, <2>1, HydrateFacts
  <2>3. n + 1 \in Slot
      BY <2>1, <2>2, BoundsAssumption DEF DepthAllowed, Slot
  <2>4. h \in Frame /\ h.uri = d
      BY NoFrameType DEF NoFrame, Frame, Op, Pc
  <2>5. u = frame[a][n].uri /\ u \in URI
      BY <1>1, <2>2 DEF Top, Frame
  <2>6. rank[d] < rank[u] /\ rank \in [URI -> Nat]
      BY <2>2, <2>5 DEF Ranked
  <2>7. depth[a] = n
      OBVIOUS
  <2> HIDE DEF g, h, n, u
  <2>8. depth'[a] = n + 1 /\ \A b \in Actor : b # a => depth'[b] = depth[b] /\ \A s \in Slot : frame'[b][s] = frame[b][s]
      BY <1>1, <2>1, <2>2, <2>3
  <2>9. /\ \A s \in Slot : s # n /\ s # n + 1 => frame'[a][s] = frame[a][s]
        /\ frame'[a][n] = g /\ frame'[a][n + 1] = h
      BY <1>1, <2>1, <2>2, <2>3
  <2>10. \A s \in Slot : s <= n => frame'[a][s].uri = frame[a][s].uri
      BY <2>2, <2>5, <2>9 DEF Slot
  <2>11. \A s \in Slot : s <= n => rank[u] <= rank[frame[a][s].uri]
    <3> SUFFICES ASSUME NEW s \in Slot, s <= n PROVE rank[u] <= rank[frame[a][s].uri]
        OBVIOUS
    <3>1. CASE s = n
        BY <2>5, <2>6, <3>1
    <3>2. CASE s # n
      <4>1. s < n /\ n <= depth[a]
          BY <2>2, <2>7, <3>2 DEF Slot
      <4>2. rank[frame[a][n].uri] < rank[frame[a][s].uri]
          BY <2>2, <4>1 DEF StacksDescend
      <4>3. frame[a][s].uri \in URI
          BY <1>1 DEF Frame
      <4> QED
          BY <2>5, <2>6, <4>2, <4>3
    <3> QED
        BY <3>1, <3>2
  <2>12. ASSUME NEW s \in Slot, NEW t \in Slot, s < t, t <= n + 1
         PROVE  rank[frame'[a][t].uri] < rank[frame'[a][s].uri]
    <3>1. s <= n
        BY <2>2, <2>12 DEF Slot
    <3>2. CASE t = n + 1
      <4>1. frame[a][s].uri \in URI
          BY <1>1 DEF Frame
      <4> QED
          BY <2>4, <2>5, <2>6, <2>9, <2>10, <2>11, <3>1, <3>2, <4>1
    <3>3. CASE t # n + 1
      <4>1. t <= n
          BY <2>2, <2>12, <3>3 DEF Slot
      <4> QED
          BY <2>7, <2>10, <2>12, <3>1, <4>1 DEF StacksDescend
    <3> QED
        BY <3>2, <3>3
  <2> QED
      BY <2>8, <2>12 DEF StacksDescend
<1>9. ASSUME Crash PROVE StacksDescend(rank)'
  <2>1. \A a \in Actor : depth'[a] = 0
      BY <1>9 DEF Crash
  <2> QED
      BY <1>2, <2>1 DEF StacksDescend
<1>10. ASSUME UNCHANGED <<frame, depth, visited, flights>> PROVE StacksDescend(rank)'
    BY <1>10 DEF StacksDescend
<1>11. FlightStep
    BY <1>1, NextKind
<1> QED
    BY <1>3, <1>4, <1>5, <1>6, <1>7, <1>8, <1>9, <1>10, <1>11 DEF FlightStep

\* Whoever waits waits for a record that is earlier than every record of its own
\* stack, so that along a chain of waiters the records go back in time.
LEMMA WaitsDescend ==
    ASSUME NEW rank, Ranked(rank), FlightInv, StacksDescend(rank),
           NEW a \in Actor, NEW u \in waits[a], NEW b \in holder[u], NEW v \in waits[b]
    PROVE  rank[v] < rank[u] /\ u \in URI /\ v \in URI
<1>1. /\ frame \in [Actor -> [Slot -> Frame]] /\ holder \in [URI -> SUBSET Actor]
      /\ waits \in [Actor -> SUBSET URI] /\ IInv /\ Flights /\ rank \in [URI -> Nat]
    BY DEF FlightInv, IInv, TypeOK, Ranked
<1>2. u \in URI /\ b \in Actor /\ v \in URI
    BY <1>1
<1>3. PICK s \in Slot : s > 1 /\ s <= depth[b] /\ frame[b][s].uri = u
    BY <1>1, <1>2 DEF Flights, HoldersWork
<1>4. depth[b] > 0 /\ v \in Hydrated[Top(b).uri]
    BY <1>1, <1>2 DEF Flights, WaitsForReference
<1>5. depth[b] \in Slot /\ Top(b) \in Frame
    BY <1>1, <1>2, <1>4, TopFacts
<1>6. rank[v] < rank[Top(b).uri] /\ Top(b).uri \in URI
    BY <1>4, <1>5 DEF Ranked, Frame
<1>7. rank[Top(b).uri] <= rank[u]
  <2>1. CASE s = depth[b]
      BY <1>1, <1>2, <1>3, <2>1 DEF Top
  <2>2. CASE s # depth[b]
    <3>1. s < depth[b] /\ depth[b] <= depth[b]
        BY <1>3, <1>5, <2>2 DEF Slot
    <3>2. rank[frame[b][depth[b]].uri] < rank[frame[b][s].uri]
        BY <1>2, <1>5, <3>1 DEF StacksDescend
    <3> QED
        BY <1>1, <1>2, <1>3, <1>6, <3>2 DEF Top
  <2> QED
      BY <2>1, <2>2
<1> QED
    BY <1>1, <1>2, <1>6, <1>7

\* There are at most four actors: among them some waiter waits for the earliest record.
LEMMA EarliestWaiter ==
    ASSUME NEW S \in SUBSET Actor, S # {}, NEW r \in [S -> Nat]
    PROVE  \E m \in S : \A b \in S : r[m] <= r[b]
<1>1. S \subseteq {"consumer", "retry", "deferred", "expiry"}
    BY SchedulersAssumption DEF Actor
<1> SUFFICES ASSUME \A m \in S : \E b \in S : r[b] < r[m]
             PROVE  FALSE
  <2>1. \A m, b \in S : r[m] \in Nat /\ r[b] \in Nat
      OBVIOUS
  <2> QED
      BY <2>1
<1>2. PICK x1 \in S : TRUE
    OBVIOUS
<1>3. PICK x2 \in S : r[x2] < r[x1]
    BY <1>2
<1>4. PICK x3 \in S : r[x3] < r[x2]
    BY <1>3
<1>5. PICK x4 \in S : r[x4] < r[x3]
    BY <1>4
<1>6. PICK x5 \in S : r[x5] < r[x4]
    BY <1>5
<1>7. r[x1] \in Nat /\ r[x2] \in Nat /\ r[x3] \in Nat /\ r[x4] \in Nat /\ r[x5] \in Nat
    OBVIOUS
<1>8. /\ x1 # x2 /\ x1 # x3 /\ x1 # x4 /\ x1 # x5 /\ x2 # x3 /\ x2 # x4 /\ x2 # x5
      /\ x3 # x4 /\ x3 # x5 /\ x4 # x5
    BY <1>3, <1>4, <1>5, <1>6, <1>7
<1> QED
    BY <1>1, <1>8

\* With ranks that decrease along the stacks nobody waits in a circle.
LEMMA NoCircle ==
    ASSUME NEW rank, Ranked(rank), FlightInv, StacksDescend(rank)
    PROVE  NoWaitCycle
<1> SUFFICES ASSUME NEW S \in SUBSET Actor, \A a \in S : \E u \in waits[a] : holder[u] \cap S # {}, S # {}
             PROVE  FALSE
    BY DEF NoWaitCycle
<1> DEFINE w(a) == CHOOSE u \in waits[a] : holder[u] \cap S # {}
<1>1. \A a \in S : w(a) \in waits[a] /\ holder[w(a)] \cap S # {}
    OBVIOUS
<1> HIDE DEF w
<1>2. rank \in [URI -> Nat] /\ waits \in [Actor -> SUBSET URI]
    BY DEF Ranked, FlightInv, IInv, TypeOK
<1>3. \A a \in S : w(a) \in URI /\ rank[w(a)] \in Nat
    BY <1>1, <1>2
<1> DEFINE r == [a \in S |-> rank[w(a)]]
<1>4. r \in [S -> Nat]
    BY <1>3
<1>5. \A a \in S : r[a] = rank[w(a)]
    OBVIOUS
<1> HIDE DEF r
<1>6. PICK m \in S : \A b \in S : r[m] <= r[b]
    BY <1>4, EarliestWaiter
<1>7. PICK b \in S : b \in holder[w(m)]
    BY <1>1
<1>8. w(m) \in waits[m] /\ w(b) \in waits[b] /\ m \in Actor
    BY <1>1
<1>9. rank[w(b)] < rank[w(m)]
    BY <1>7, <1>8, WaitsDescend
<1> QED
    BY <1>3, <1>5, <1>6, <1>9

\* No set of goroutines waits in a circle for records in flight, when what is
\* hydrated for a record is earlier than the record.  (<-call.done has no other
\* way out: without this assumption two threads can wait for each other for ever.)
THEOREM NobodyWaitsInACircle ==
    ASSUME Acyclic
    PROVE  Spec => []NoWaitCycle
<1>1. PICK rank \in [URI -> Nat] : Ranked(rank)
    BY DEF Acyclic
<1>2. Init => FlightInv /\ StacksDescend(rank)
  <2>1. Init => StacksDescend(rank)
    <3> SUFFICES ASSUME Init PROVE StacksDescend(rank)
        OBVIOUS
    <3>1. \A a \in Actor : depth[a] = 0
        BY DEF Init
    <3>2. \A t \in Slot : ~(t <= 0)
        BY DEF Slot
    <3> QED
        BY <3>1, <3>2 DEF StacksDescend
  <2> QED
      BY <2>1, FlightInit
<1>3. (FlightInv /\ StacksDescend(rank)) /\ [Next]_vars => (FlightInv /\ StacksDescend(rank))'
    BY <1>1, FlightNext, DescendNext
<1>4. FlightInv /\ StacksDescend(rank) => NoWaitCycle
    BY <1>1, NoCircle
<1> QED
    BY <1>2, <1>3, <1>4, PTL DEF Spec
=============================================================================
