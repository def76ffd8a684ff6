-------------------------- MODULE EventStreamProofs --------------------------
(***************************************************************************)
(* The saved cursor of the event consumer never passes a row that was not   *)
(* processed or overtaken, and never moves back.                            *)
(***************************************************************************)
EXTENDS EventStream, TLAPS

InSeq(s, c) == \E i \in 1..Len(s) : s[i] = c

\* The records of a channel are in increasing order (0 is not a record).
Increasing(s) ==
    \A i, j \in 1..Len(s) : (i < j /\ s[i] # 0 /\ s[j] # 0) => s[i] < s[j]

\* Forwarding s after row n skips no row outside X.
NoJump(s, n, X) ==
    \A i \in 1..Len(s) : \A d \in Nat :
        (n < d /\ d < s[i]) => (d \in X \/ \E j \in 1..(i - 1) : s[j] = d)

\* What is accounted for, and what is on its way to be.
Done(c) == c \in handled \/ c \in failed \/ c \in overtaken
Held(c) == InSeq(out, c) \/ (consumer = "handling" /\ c = current)

Bounded ==
    /\ cursor <= tail /\ nextCursor <= tail
    /\ 0 \notin silent
    /\ \A a \in Appenders : pending[a] <= tail
    /\ \A i \in 1..Len(live) : live[i] <= tail
    /\ \A i \in 1..Len(page) : page[i] = nextCursor + i /\ page[i] <= tail

\* Replayed and forwarded rows reach the consumer in increasing order, past
\* the saved cursor and up to nextCursor.
Ordered ==
    /\ Increasing(out)
    /\ \A c \in Nat : InSeq(out, c) => c <= nextCursor
    /\ \A c \in Nat : (InSeq(out, c) /\ c # 0) => cursor < c
    /\ consumer # "waiting" =>
        /\ cursor < current /\ current <= nextCursor
        /\ \A c \in Nat : (InSeq(out, c) /\ c # 0) => current < c
    /\ phase # "off" => cursor <= nextCursor
    /\ phase = "live" => page = <<>>
    /\ phase = "off" =>
        /\ out = <<>> /\ live = <<>> /\ page = <<>>
        /\ consumer = "waiting" /\ ~registered
    /\ consumer = "saving" => current \in handled

\* No gap below what the consumer works on, what it will be given, and what
\* the subscription has sent.
Covered ==
    /\ \A c \in Nat : (0 < c /\ c <= cursor) => Done(c)
    /\ consumer # "waiting" => \A c \in Nat : (0 < c /\ c < current) => Done(c)
    /\ \A m \in Nat : InSeq(out, m) =>
        \A c \in Nat : (0 < c /\ c < m) => Done(c) \/ Held(c)
    /\ phase \in {"replay", "live"} =>
        \A c \in Nat : (0 < c /\ c <= nextCursor) => Done(c) \/ Held(c)

\* After the replay, what lies past nextCursor is in the live channel, in an
\* order that passes over overtaken rows only, or is yet to be announced.
LiveComplete ==
    phase = "live" =>
        /\ NoJump(live, nextCursor, overtaken)
        /\ registered => \A d \in Nat : (nextCursor < d /\ d <= tail) =>
                             (d \in overtaken \/ d \in silent \/ InSeq(live, d))

IInv == TypeOK /\ Bounded /\ Ordered /\ Covered /\ LiveComplete

-----------------------------------------------------------------------------
(* Channels as sequences. *)

\* What a channel holds after a send ...
LEMMA InAppend ==
    ASSUME NEW s \in Seq(Nat), NEW x \in Nat
    PROVE  /\ Append(s, x) \in Seq(Nat)
           /\ Len(Append(s, x)) = Len(s) + 1
           /\ \A c : InSeq(Append(s, x), c) <=> (InSeq(s, c) \/ c = x)
  <1>1. /\ Append(s, x) \in Seq(Nat) /\ Len(Append(s, x)) = Len(s) + 1 /\ Len(s) \in Nat
        /\ \A i \in 1..Len(s) : Append(s, x)[i] = s[i]
        /\ Append(s, x)[Len(s) + 1] = x
    OBVIOUS
  <1>2. ASSUME NEW c, InSeq(Append(s, x), c) PROVE InSeq(s, c) \/ c = x
    <2>1. PICK i \in 1..(Len(s) + 1) : Append(s, x)[i] = c
      BY <1>1, <1>2 DEF InSeq
    <2>2. CASE i = Len(s) + 1
      BY <1>1, <2>1, <2>2
    <2>3. CASE i \in 1..Len(s)
      BY <1>1, <2>1, <2>3 DEF InSeq
    <2> QED BY <2>1, <2>2, <2>3, <1>1
  <1>3. ASSUME NEW c, InSeq(s, c) PROVE InSeq(Append(s, x), c)
    <2>1. PICK i \in 1..Len(s) : s[i] = c
      BY <1>3 DEF InSeq
    <2>2. i \in 1..Len(Append(s, x)) /\ Append(s, x)[i] = c
      BY <1>1, <2>1
    <2> QED BY <2>2 DEF InSeq
  <1>4. InSeq(Append(s, x), x)
    <2>1. Len(s) + 1 \in 1..Len(Append(s, x))
      BY <1>1
    <2> QED BY <1>1, <2>1 DEF InSeq
  <1> QED BY <1>1, <1>2, <1>3, <1>4

\* ... and before a receive.
LEMMA InTail ==
    ASSUME NEW s \in Seq(Nat), s # <<>>
    PROVE  /\ Head(s) \in Nat /\ Tail(s) \in Seq(Nat)
           /\ Len(Tail(s)) = Len(s) - 1
           /\ \A c : InSeq(s, c) <=> (c = Head(s) \/ InSeq(Tail(s), c))
  <1>1. /\ Head(s) \in Nat /\ Tail(s) \in Seq(Nat) /\ Len(s) \in Nat \ {0}
        /\ Len(Tail(s)) = Len(s) - 1 /\ s[1] = Head(s)
        /\ \A i \in 1..(Len(s) - 1) : Tail(s)[i] = s[i + 1]
    OBVIOUS
  <1>2. ASSUME NEW c, InSeq(s, c) PROVE c = Head(s) \/ InSeq(Tail(s), c)
    <2>1. PICK i \in 1..Len(s) : s[i] = c
      BY <1>2 DEF InSeq
    <2>2. CASE i = 1
      BY <1>1, <2>1, <2>2
    <2>3. CASE i # 1
      <3>1. i - 1 \in 1..Len(Tail(s)) /\ Tail(s)[i - 1] = c
        BY <1>1, <2>1, <2>3
      <3> QED BY <3>1 DEF InSeq
    <2> QED BY <2>2, <2>3
  <1>3. ASSUME NEW c, InSeq(Tail(s), c) PROVE InSeq(s, c)
    <2>1. PICK i \in 1..Len(Tail(s)) : Tail(s)[i] = c
      BY <1>3 DEF InSeq
    <2>2. i + 1 \in 1..Len(s) /\ s[i + 1] = c
      BY <1>1, <2>1
    <2> QED BY <2>2 DEF InSeq
  <1>4. InSeq(s, Head(s))
    <2>1. 1 \in 1..Len(s)
      BY <1>1
    <2> QED BY <1>1, <2>1 DEF InSeq
  <1> QED BY <1>1, <1>2, <1>3, <1>4

\* A send of a larger record, or of none, keeps the order ...
LEMMA IncreasingAppend ==
    ASSUME NEW s \in Seq(Nat), NEW x \in Nat, Increasing(s),
           x = 0 \/ \A c \in Nat : (InSeq(s, c) /\ c # 0) => c < x
    PROVE  Increasing(Append(s, x))
  <1>1. /\ Len(Append(s, x)) = Len(s) + 1 /\ Len(s) \in Nat
        /\ \A i \in 1..Len(s) : Append(s, x)[i] = s[i] /\ s[i] \in Nat
        /\ Append(s, x)[Len(s) + 1] = x
    OBVIOUS
  <1> SUFFICES ASSUME NEW i \in 1..(Len(s) + 1), NEW j \in 1..(Len(s) + 1), i < j,
                      Append(s, x)[i] # 0, Append(s, x)[j] # 0
               PROVE  Append(s, x)[i] < Append(s, x)[j]
    BY <1>1 DEF Increasing
  <1>2. CASE j = Len(s) + 1
    <2>1. i \in 1..Len(s) /\ x # 0
      BY <1>1, <1>2
    <2>2. InSeq(s, s[i]) /\ s[i] \in Nat /\ s[i] # 0
      BY <1>1, <2>1 DEF InSeq
    <2> QED BY <1>1, <1>2, <2>1, <2>2
  <1>3. CASE j \in 1..Len(s)
    <2>1. i \in 1..Len(s)
      BY <1>1, <1>3
    <2> QED BY <1>1, <1>3, <2>1 DEF Increasing
  <1> QED BY <1>1, <1>2, <1>3

\* ... and so does a receive, which takes the smallest record.
LEMMA IncreasingTail ==
    ASSUME NEW s \in Seq(Nat), s # <<>>, Increasing(s)
    PROVE  /\ Increasing(Tail(s))
           /\ Head(s) # 0 => \A c \in Nat : (InSeq(Tail(s), c) /\ c # 0) => Head(s) < c
  <1>1. /\ Len(s) \in Nat \ {0} /\ Len(Tail(s)) = Len(s) - 1 /\ s[1] = Head(s)
        /\ \A i \in 1..(Len(s) - 1) : Tail(s)[i] = s[i + 1] /\ i + 1 \in 1..Len(s)
    OBVIOUS
  <1>2. Increasing(Tail(s))
    BY <1>1 DEF Increasing
  <1>3. ASSUME Head(s) # 0, NEW c \in Nat, InSeq(Tail(s), c), c # 0
        PROVE  Head(s) < c
    <2>1. PICK i \in 1..(Len(s) - 1) : s[i + 1] = c /\ i + 1 \in 1..Len(s)
      BY <1>1, <1>3 DEF InSeq
    <2> QED BY <1>1, <1>3, <2>1 DEF Increasing
  <1> QED BY <1>2, <1>3

\* A send skips nothing if every row below it is in the channel already ...
LEMMA NoJumpAppend ==
    ASSUME NEW s \in Seq(Nat), NEW n \in Nat, NEW x \in Nat, NEW X, NoJump(s, n, X),
           \A d \in Nat : (n < d /\ d < x) => (d \in X \/ InSeq(s, d))
    PROVE  NoJump(Append(s, x), n, X)
  <1>1. /\ Len(Append(s, x)) = Len(s) + 1 /\ Len(s) \in Nat
        /\ \A i \in 1..Len(s) : Append(s, x)[i] = s[i]
        /\ Append(s, x)[Len(s) + 1] = x
    OBVIOUS
  <1> SUFFICES ASSUME NEW i \in 1..(Len(s) + 1), NEW d \in Nat, n < d,
                      d < Append(s, x)[i], d \notin X
               PROVE  \E j \in 1..(i - 1) : Append(s, x)[j] = d
    BY <1>1 DEF NoJump
  <1>2. CASE i \in 1..Len(s)
    <2>1. PICK j \in 1..(i - 1) : s[j] = d
      BY <1>1, <1>2 DEF NoJump
    <2>2. j \in 1..Len(s)
      BY <1>1, <1>2, <2>1
    <2> QED BY <1>1, <2>1, <2>2
  <1>3. CASE i = Len(s) + 1
    <2>1. PICK j \in 1..Len(s) : s[j] = d
      BY <1>1, <1>3 DEF InSeq
    <2>2. j \in 1..(i - 1)
      BY <1>1, <1>3, <2>1
    <2> QED BY <1>1, <2>1, <2>2
  <1> QED BY <1>1, <1>2, <1>3

\* ... and a receive that moves to row m keeps that for the rows past m.
LEMMA NoJumpTail ==
    ASSUME NEW s \in Seq(Nat), s # <<>>, NEW n \in Nat, NEW m \in Nat, NEW X,
           NoJump(s, n, X), n <= m, Head(s) <= m
    PROVE  /\ NoJump(Tail(s), m, X)
           /\ \A d \in Nat : (n < d /\ d < Head(s)) => d \in X
  <1>1. /\ Len(s) \in Nat \ {0} /\ Len(Tail(s)) = Len(s) - 1 /\ s[1] = Head(s) /\ Head(s) \in Nat
        /\ \A i \in 1..(Len(s) - 1) : Tail(s)[i] = s[i + 1] /\ i + 1 \in 1..Len(s)
    OBVIOUS
  <1>2. ASSUME NEW i \in 1..(Len(s) - 1), NEW d \in Nat, m < d, d < s[i + 1], d \notin X
        PROVE  \E j \in 1..(i - 1) : Tail(s)[j] = d
    <2>1. PICK j \in 1..((i + 1) - 1) : s[j] = d
      <3>1. i + 1 \in 1..Len(s) /\ n < d
        BY <1>1, <1>2
      <3> QED BY <3>1, <1>2 DEF NoJump
    <2>2. j # 1
      BY <1>1, <1>2, <2>1
    <2>3. j - 1 \in 1..(i - 1) /\ j - 1 \in 1..(Len(s) - 1) /\ (j - 1) + 1 = j
      BY <1>1, <1>2, <2>1, <2>2
    <2> QED BY <1>1, <2>1, <2>3
  <1>3. NoJump(Tail(s), m, X)
    BY <1>1, <1>2 DEF NoJump
  <1>4. ASSUME NEW d \in Nat, n < d, d < Head(s) PROVE d \in X
    <2>1. 1 \in 1..Len(s) /\ ~\E j \in 1..(1 - 1) : s[j] = d
      BY <1>1
    <2> QED BY <1>1, <1>4, <2>1 DEF NoJump
  <1> QED BY <1>3, <1>4

-----------------------------------------------------------------------------
(* Type correctness. *)

\* The assumptions on the constants, together.
LEMMA Constants ==
    /\ LiveCap \in Nat \ {0} /\ OutCap \in Nat \ {0} /\ PageSize \in Nat \ {0}
    /\ MaxEvents \in Nat /\ MaxCrashes \in Nat
  BY LiveCapAssumption, OutCapAssumption, PageSizeAssumption, MaxEventsAssumption,
     MaxCrashesAssumption

\* What a replay query returns: the rows next in line, at most a page.
LEMMA PageFacts ==
    ASSUME TypeOK, nextCursor <= tail
    PROVE  /\ ListATProtoEventsAfter \in Seq(Nat)
           /\ Len(ListATProtoEventsAfter) <= PageSize
           /\ \A i \in 1..Len(ListATProtoEventsAfter) :
                /\ ListATProtoEventsAfter[i] = nextCursor + i
                /\ ListATProtoEventsAfter[i] <= tail
           /\ ListATProtoEventsAfter = <<>> => tail = nextCursor
  <1> DEFINE n == IF tail - nextCursor < PageSize THEN tail - nextCursor ELSE PageSize
  <1>1. tail \in Nat /\ nextCursor \in Nat /\ PageSize \in Nat \ {0}
    BY Constants DEF TypeOK
  <1>2. n \in Nat /\ n <= PageSize /\ n <= tail - nextCursor /\ (n = 0 => tail = nextCursor)
    BY <1>1
  <1>3. ListATProtoEventsAfter = [i \in 1..n |-> nextCursor + i]
    BY DEF ListATProtoEventsAfter
  <1> HIDE DEF n
  <1>4. [i \in 1..n |-> nextCursor + i] \in Seq(Nat) /\ Len([i \in 1..n |-> nextCursor + i]) = n
    BY <1>1, <1>2
  <1> QED BY <1>1, <1>2, <1>3, <1>4

\* broadcast leaves the channel as it was, or sends and stays within the buffer.
LEMMA OfferTypes ==
    ASSUME TypeOK, NEW note \in Nat, Offer(note)
    PROVE  /\ registered' \in BOOLEAN /\ liveClosed' \in BOOLEAN
           /\ live' \in Seq(Nat) /\ Len(live') <= LiveCap
           /\ registered' => registered /\ live' = Append(live, note)
           /\ live' = live \/ (registered /\ live' = Append(live, note))
  <1>1. registered \in BOOLEAN /\ liveClosed \in BOOLEAN /\ live \in Seq(Nat) /\ Len(live) <= LiveCap
    BY DEF TypeOK
  <1>2. CASE registered /\ Len(live) < LiveCap
    <2>1. Append(live, note) \in Seq(Nat) /\ Len(Append(live, note)) = Len(live) + 1
      BY <1>1, InAppend
    <2> QED BY <1>1, <1>2, <2>1, Constants DEF Offer
  <1>3. CASE ~registered
    BY <1>1, <1>3 DEF Offer, channel
  <1>4. CASE registered /\ ~(Len(live) < LiveCap)
    BY <1>1, <1>4 DEF Offer
  <1> QED BY <1>2, <1>3, <1>4

\* A send to the consumer stays within the buffer, or ends the subscription.
LEMMA SendTypes ==
    ASSUME TypeOK, NEW note \in Nat, Send(note)
    PROVE  /\ out' \in Seq(Nat) /\ Len(out') <= OutCap
           /\ phase' \in {"off", "replay", "live", "closed"} /\ registered' \in BOOLEAN
           /\ \/ out' = Append(out, note) /\ phase' = phase /\ registered' = registered
              \/ out' = out /\ phase' = "closed" /\ registered' = FALSE
  <1>1. /\ out \in Seq(Nat) /\ Len(out) <= OutCap /\ registered \in BOOLEAN
        /\ phase \in {"off", "replay", "live", "closed"}
    BY DEF TypeOK
  <1>2. CASE Len(out) < OutCap
    <2>1. Append(out, note) \in Seq(Nat) /\ Len(Append(out, note)) = Len(out) + 1
      BY <1>1, InAppend
    <2> QED BY <1>1, <1>2, <2>1, Constants DEF Send
  <1>3. CASE ~(Len(out) < OutCap)
    BY <1>1, <1>3 DEF Send
  <1> QED BY <1>2, <1>3

\* Every step keeps TypeOK; the replay query needs nextCursor below the tail.
LEMMA TypeStep ==
    ASSUME TypeOK, nextCursor <= tail, [Next]_vars
    PROVE  TypeOK'
  <1> USE DEF db, producers, channel, reader, loop
  <1>1. ASSUME NEW a \in Appenders, AppendATProtoEvent(a) PROVE TypeOK'
    BY <1>1 DEF TypeOK, AppendATProtoEvent
  <1>2. CASE AppendElsewhere
    BY <1>2 DEF TypeOK, AppendElsewhere
  <1>3. ASSUME NEW a \in Appenders, Broadcast(a) PROVE TypeOK'
    <2>1. pending[a] \in Nat
      BY <1>3 DEF TypeOK
    <2>2. /\ registered' \in BOOLEAN /\ liveClosed' \in BOOLEAN
          /\ live' \in Seq(Nat) /\ Len(live') <= LiveCap
      BY <1>3, <2>1, OfferTypes DEF Broadcast
    <2> QED BY <1>3, <2>2 DEF TypeOK, Broadcast
  <1>4. CASE BroadcastOther
    <2>1. /\ registered' \in BOOLEAN /\ liveClosed' \in BOOLEAN
          /\ live' \in Seq(Nat) /\ Len(live') <= LiveCap
      BY <1>4, OfferTypes DEF BroadcastOther
    <2> QED BY <1>4, <2>1 DEF TypeOK, BroadcastOther
  <1>5. CASE Subscribe
    BY <1>5 DEF TypeOK, Subscribe
  <1>6. CASE List
    BY <1>6, PageFacts DEF TypeOK, List
  <1>7. CASE ListFails
    BY <1>7 DEF TypeOK, ListFails, End
  <1>8. CASE Replay
    <2>1. page \in Seq(Nat) /\ page # <<>>
      BY <1>8 DEF TypeOK, Replay
    <2>2. Head(page) \in Nat /\ Tail(page) \in Seq(Nat) /\ Len(Tail(page)) = Len(page) - 1
      BY <2>1, InTail
    <2>3. /\ out' \in Seq(Nat) /\ Len(out') <= OutCap
          /\ phase' \in {"off", "replay", "live", "closed"} /\ registered' \in BOOLEAN
      BY <1>8, <2>2, SendTypes DEF Replay
    <2> QED BY <1>8, <2>1, <2>2, <2>3, Constants DEF TypeOK, Replay
  <1>9. CASE Forward
    <2>1. live \in Seq(Nat) /\ live # <<>>
      BY <1>9 DEF TypeOK, Forward
    <2>2. Head(live) \in Nat /\ Tail(live) \in Seq(Nat) /\ Len(Tail(live)) = Len(live) - 1
      BY <2>1, InTail
    <2>3. /\ out' \in Seq(Nat) /\ Len(out') <= OutCap
          /\ phase' \in {"off", "replay", "live", "closed"} /\ registered' \in BOOLEAN
          /\ nextCursor' \in Nat
      <3>1. CASE Head(live) # 0 /\ Head(live) <= nextCursor
        BY <1>9, <3>1 DEF TypeOK, Forward
      <3>2. CASE ~(Head(live) # 0 /\ Head(live) <= nextCursor)
        BY <1>9, <3>2, <2>2, SendTypes DEF TypeOK, Forward
      <3> QED BY <3>1, <3>2
    <2> QED BY <1>9, <2>1, <2>2, <2>3, Constants DEF TypeOK, Forward
  <1>10. CASE Evicted
    BY <1>10 DEF TypeOK, Evicted, End
  <1>11. CASE Take
    <2>1. out \in Seq(Nat) /\ out # <<>>
      BY <1>11 DEF TypeOK, Take
    <2>2. Head(out) \in Nat /\ Tail(out) \in Seq(Nat) /\ Len(Tail(out)) = Len(out) - 1
      BY <2>1, InTail
    <2> QED BY <1>11, <2>1, <2>2, Constants DEF TypeOK, Take
  <1>12. CASE HandleRecordEvent
    BY <1>12 DEF TypeOK, HandleRecordEvent
  <1>13. CASE HandleFails
    BY <1>13 DEF TypeOK, HandleFails
  <1>14. CASE SaveCursor
    BY <1>14 DEF TypeOK, SaveCursor
  <1>15. CASE SaveFails
    BY <1>15 DEF TypeOK, SaveFails
  <1>16. CASE Crash
    <2>1. <<>> \in Seq(Nat) /\ Len(<<>>) = 0 /\ [a \in Appenders |-> 0] \in [Appenders -> Nat]
      OBVIOUS
    <2>2. /\ live' \in Seq(Nat) /\ Len(live') <= LiveCap
          /\ page' \in Seq(Nat) /\ Len(page') <= PageSize
          /\ out' \in Seq(Nat) /\ Len(out') <= OutCap
          /\ pending' \in [Appenders -> Nat]
      BY <1>16, <2>1, Constants DEF Crash
    <2>3. registered' \in BOOLEAN /\ liveClosed' \in BOOLEAN
      BY <1>16 DEF Crash
    <2> QED BY <1>16, <2>2, <2>3, Constants DEF TypeOK, Crash
  <1>17. CASE UNCHANGED vars
    BY <1>17 DEF TypeOK, vars
  <1> QED BY <1>1, <1>2, <1>3, <1>4, <1>5, <1>6, <1>7, <1>8, <1>9, <1>10, <1>11, <1>12,
             <1>13, <1>14, <1>15, <1>16, <1>17 DEF Next

-----------------------------------------------------------------------------
(* The inductive invariant. *)

\* The empty channel.
LEMMA Empty ==
    /\ <<>> \in Seq(Nat) /\ Len(<<>>) = 0
    /\ \A c : ~InSeq(<<>>, c)
    /\ Increasing(<<>>)
  <1>1. <<>> \in Seq(Nat) /\ Len(<<>>) = 0
    OBVIOUS
  <1> QED BY <1>1 DEF InSeq, Increasing

\* The empty system satisfies the invariant.
LEMMA InitInv == Init => IInv
  <1> SUFFICES ASSUME Init PROVE IInv
    OBVIOUS
  <1> USE Constants, Empty
  <1>1. TypeOK
    <2>1. /\ live \in Seq(Nat) /\ Len(live) <= LiveCap
          /\ page \in Seq(Nat) /\ Len(page) <= PageSize
          /\ out \in Seq(Nat) /\ Len(out) <= OutCap
          /\ pending \in [Appenders -> Nat]
      BY DEF Init
    <2>2. registered \in BOOLEAN /\ liveClosed \in BOOLEAN
      BY DEF Init
    <2> QED BY <2>1, <2>2 DEF Init, TypeOK
  <1>2. Bounded
    BY DEF Init, Bounded
  <1>3. Ordered
    BY DEF Init, Ordered
  <1>4. Covered
    BY DEF Init, Covered
  <1>5. LiveComplete
    BY DEF Init, LiveComplete
  <1> QED BY <1>1, <1>2, <1>3, <1>4, <1>5 DEF IInv

\* A row is appended: past nextCursor, and silent.
LEMMA AppendStep ==
    ASSUME IInv, tail' = tail + 1, silent' = silent \union {tail + 1},
           \A a \in Appenders : pending'[a] = pending[a] \/ pending'[a] = tail + 1,
           UNCHANGED <<cursor, channel, reader, loop, overtaken>>
    PROVE  Bounded' /\ Ordered' /\ Covered' /\ LiveComplete'
  <1> USE DEF channel, reader, loop
  <1>0. TypeOK
    BY DEF IInv
  <1>1. Bounded'
    <2>1. tail \in Nat /\ tail' = tail + 1 /\ cursor \in Nat /\ nextCursor \in Nat
      BY <1>0 DEF TypeOK
    <2>2. \A a \in Appenders : pending[a] \in Nat
      BY <1>0 DEF TypeOK
    <2>3. /\ \A i \in 1..Len(live) : live[i] \in Nat
          /\ \A i \in 1..Len(page) : page[i] \in Nat
      BY <1>0 DEF TypeOK
    <2>4. \A a \in Appenders : pending'[a] <= tail'
      BY <2>1, <2>2 DEF IInv, Bounded
    <2>5. \A i \in 1..Len(live') : live'[i] <= tail'
      BY <2>1, <2>3 DEF IInv, Bounded
    <2>6. \A i \in 1..Len(page') : page'[i] = nextCursor' + i /\ page'[i] <= tail'
      BY <2>1, <2>3 DEF IInv, Bounded
    <2> QED BY <2>1, <2>4, <2>5, <2>6 DEF IInv, Bounded
  <1>2. Ordered'
    BY DEF IInv, Ordered
  <1>3. Covered'
    BY DEF IInv, Covered, Done, Held
  <1>4. LiveComplete'
    BY <1>0 DEF IInv, LiveComplete, TypeOK
  <1> QED BY <1>1, <1>2, <1>3, <1>4

\* A notification enters the live channel, or its subscriber is evicted.
LEMMA OfferStep ==
    ASSUME IInv, NEW note \in Nat, note <= tail, Offer(note),
           silent' = silent \ {note},
           overtaken' = IF phase = "live"
                        THEN overtaken \union {d \in silent : nextCursor < d /\ d < note}
                        ELSE overtaken,
           \A a \in Appenders : pending'[a] = pending[a] \/ pending'[a] = 0,
           UNCHANGED <<db, reader, loop>>
    PROVE  Bounded' /\ Ordered' /\ Covered' /\ LiveComplete'
  <1> USE DEF db, reader, loop
  <1>0. TypeOK
    BY DEF IInv
  <1>1. overtaken \subseteq overtaken'
    OBVIOUS
  <1>2. /\ live' = live \/ (registered /\ live' = Append(live, note))
        /\ registered' => registered /\ live' = Append(live, note)
    BY <1>0, OfferTypes
  <1>3. Bounded'
    <2>0. tail \in Nat /\ live \in Seq(Nat) /\ \A a \in Appenders : pending[a] \in Nat
      BY <1>0 DEF TypeOK
    <2>1. \A a \in Appenders : pending'[a] <= tail
      BY <2>0 DEF IInv, Bounded
    <2>2. \A i \in 1..Len(live') : live'[i] <= tail
      <3>1. CASE live' = live
        BY <3>1 DEF IInv, Bounded
      <3>2. CASE live' = Append(live, note)
        <4>1. /\ Len(live') = Len(live) + 1 /\ Len(live) \in Nat /\ live'[Len(live) + 1] = note
              /\ \A i \in 1..Len(live) : live'[i] = live[i]
          BY <2>0, <3>2
        <4>2. \A i \in 1..Len(live) : live[i] <= tail
          BY DEF IInv, Bounded
        <4> QED BY <4>1, <4>2
      <3> QED BY <1>2, <3>1, <3>2
    <2> QED BY <2>1, <2>2 DEF IInv, Bounded
  <1>4. Ordered'
    <2>1. phase = "off" => live' = <<>> /\ ~registered'
      \* A subscription that has not started is not registered.
      BY <1>2 DEF IInv, Ordered
    <2>2. phase' = phase /\ out' = out /\ cursor' = cursor /\ nextCursor' = nextCursor
          /\ consumer' = consumer /\ current' = current /\ page' = page /\ handled' = handled
      OBVIOUS
    <2> QED BY <2>1, <2>2 DEF IInv, Ordered
  <1>5. Covered'
    BY <1>1 DEF IInv, Covered, Done, Held
  <1>6. LiveComplete'
    <2> SUFFICES ASSUME phase = "live" PROVE LiveComplete'
      BY DEF LiveComplete
    <2>1. /\ NoJump(live, nextCursor, overtaken)
          /\ nextCursor \in Nat /\ live \in Seq(Nat) /\ tail \in Nat
      BY <1>0 DEF IInv, LiveComplete, TypeOK
    <2>2. NoJump(live, nextCursor, overtaken')
      BY <1>1, <2>1 DEF NoJump
    <2>3. CASE live' = live /\ ~registered'
      BY <2>2, <2>3 DEF LiveComplete
    <2>4. CASE registered /\ live' = Append(live, note)
      <3>1. \A d \in Nat : (nextCursor < d /\ d <= tail) =>
                (d \in overtaken \/ d \in silent \/ InSeq(live, d))
        BY <2>4 DEF IInv, LiveComplete
      <3>2. \A d \in Nat : (nextCursor < d /\ d < note) => (d \in overtaken' \/ InSeq(live, d))
        BY <1>0, <3>1 DEF TypeOK
      <3>3. NoJump(Append(live, note), nextCursor, overtaken')
        BY <2>1, <2>2, <3>2, NoJumpAppend
      <3>4. \A d : InSeq(Append(live, note), d) <=> (InSeq(live, d) \/ d = note)
        BY <2>1, InAppend
      <3> QED BY <2>4, <3>1, <3>3, <3>4 DEF LiveComplete
    <2> QED BY <1>0, <1>2, <2>3, <2>4, OfferTypes
  <1> QED BY <1>3, <1>4, <1>5, <1>6

\* A new subscription starts at the saved cursor, with its channels empty.
LEMMA SubscribeStep == IInv /\ Subscribe => Bounded' /\ Ordered' /\ Covered' /\ LiveComplete'
  <1> SUFFICES ASSUME IInv, Subscribe PROVE Bounded' /\ Ordered' /\ Covered' /\ LiveComplete'
    OBVIOUS
  <1> USE DEF db, producers, channel, reader, loop
  <1>0. /\ TypeOK /\ phase' = "replay" /\ nextCursor' = cursor /\ cursor' = cursor /\ tail' = tail
        /\ out = <<>> /\ live = <<>> /\ page = <<>> /\ consumer = "waiting"
        /\ UNCHANGED <<out, live, page, consumer, handled, failed, overtaken, current, pending,
                       silent>>
    BY DEF IInv, Ordered, Subscribe
  <1>1. Bounded'
    BY <1>0, Empty DEF IInv, Bounded, TypeOK
  <1>2. Ordered'
    BY <1>0, Empty DEF IInv, Ordered, TypeOK
  <1>3. Covered'
    BY <1>0, Empty DEF IInv, Covered, Done, Held
  <1>4. LiveComplete'
    BY <1>0 DEF LiveComplete
  <1> QED BY <1>1, <1>2, <1>3, <1>4

\* The replay query; when it is empty, the log holds nothing past nextCursor.
LEMMA ListStep == IInv /\ List => Bounded' /\ Ordered' /\ Covered' /\ LiveComplete'
  <1> SUFFICES ASSUME IInv, List PROVE Bounded' /\ Ordered' /\ Covered' /\ LiveComplete'
    OBVIOUS
  <1> USE DEF db, producers, channel, reader, loop
  <1>0. /\ TypeOK /\ phase = "replay" /\ phase' \in {"replay", "live"}
        /\ tail \in Nat /\ nextCursor \in Nat /\ live \in Seq(Nat)
        /\ page' = ListATProtoEventsAfter
        /\ phase' = "live" => (tail = nextCursor /\ page' = <<>>)
        /\ UNCHANGED <<tail, cursor, pending, registered, live, nextCursor, out, consumer,
                       current, handled, failed, overtaken, silent>>
    BY PageFacts DEF IInv, Bounded, List, TypeOK
  <1>1. Bounded'
    BY <1>0, PageFacts DEF IInv, Bounded
  <1>2. Ordered'
    BY <1>0 DEF IInv, Ordered
  <1>3. Covered'
    BY <1>0 DEF IInv, Covered, Done, Held
  <1>4. LiveComplete'
    <2> SUFFICES ASSUME phase' = "live" PROVE LiveComplete'
      BY DEF LiveComplete
    <2>1. \A i \in 1..Len(live) : live[i] <= nextCursor /\ live[i] \in Nat
      BY <1>0 DEF IInv, Bounded
    <2>2. NoJump(live, nextCursor, overtaken)
      BY <1>0, <2>1 DEF NoJump
    <2> QED BY <1>0, <2>2 DEF LiveComplete
  <1> QED BY <1>1, <1>2, <1>3, <1>4

\* The subscription ends; the consumer drains what it was sent.
LEMMA EndStep ==
    ASSUME IInv, phase \in {"replay", "live"}, End,
           UNCHANGED <<db, producers, page, nextCursor, out, loop, overtaken>>
    PROVE  Bounded' /\ Ordered' /\ Covered' /\ LiveComplete'
  <1> USE DEF db, producers, channel, reader, loop
  <1>0. /\ phase' = "closed"
        /\ UNCHANGED <<tail, cursor, pending, live, page, nextCursor, out, consumer, current,
                       handled, failed, overtaken>>
    BY DEF End
  <1>1. Bounded'
    BY <1>0 DEF IInv, Bounded
  <1>2. Ordered'
    BY <1>0 DEF IInv, Ordered
  <1>3. Covered' /\ LiveComplete'
    BY <1>0 DEF IInv, Covered, Done, Held, LiveComplete
  <1> QED BY <1>1, <1>2, <1>3

\* A notification is sent to the consumer, or its channel is full and the
\* subscription ends.
LEMMA SendStep ==
    ASSUME IInv, phase \in {"replay", "live"}, NEW note \in Nat, Send(note),
           note = 0 \/ nextCursor < note,
           nextCursor' = IF note = 0 THEN nextCursor ELSE note,
           \A d \in Nat : (nextCursor < d /\ d < note) => d \in overtaken,
           phase = "live" => page' = <<>>,
           UNCHANGED <<cursor, consumer, current, handled, failed, overtaken>>
    PROVE  Ordered' /\ Covered'
  <1>0. /\ TypeOK /\ out \in Seq(Nat) /\ nextCursor \in Nat /\ cursor \in Nat /\ current \in Nat
        /\ nextCursor' \in Nat /\ nextCursor <= nextCursor' /\ note <= nextCursor'
    BY DEF IInv, TypeOK
  <1>1. /\ \A c \in Nat : InSeq(out, c) => c <= nextCursor
        /\ cursor <= nextCursor
        /\ consumer # "waiting" => current <= nextCursor
    BY DEF IInv, Ordered
  <1>2. \A c : InSeq(Append(out, note), c) <=> (InSeq(out, c) \/ c = note)
    BY <1>0, InAppend
  <1>3. CASE out' = Append(out, note) /\ phase' = phase
    <2>1. Increasing(out')
      <3>1. note = 0 \/ \A c \in Nat : (InSeq(out, c) /\ c # 0) => c < note
        BY <1>0, <1>1
      <3> QED BY <1>0, <1>3, <3>1, IncreasingAppend DEF IInv, Ordered
    <2>2. Ordered'
      <3>1. \A c \in Nat : InSeq(out', c) => c <= nextCursor'
        BY <1>0, <1>1, <1>2, <1>3
      <3>2. \A c \in Nat : (InSeq(out', c) /\ c # 0) => cursor < c
        BY <1>0, <1>1, <1>2, <1>3 DEF IInv, Ordered
      <3>3. consumer # "waiting" =>
              /\ cursor < current /\ current <= nextCursor'
              /\ \A c \in Nat : (InSeq(out', c) /\ c # 0) => current < c
        BY <1>0, <1>1, <1>2, <1>3 DEF IInv, Ordered
      <3>4. cursor <= nextCursor' /\ phase' # "off" /\ (consumer = "saving" => current \in handled)
        BY <1>0, <1>1, <1>3 DEF IInv, Ordered
      <3> QED BY <1>3, <2>1, <3>1, <3>2, <3>3, <3>4 DEF Ordered
    <2>3. \A c \in Nat : (0 < c /\ c <= nextCursor) => Done(c) \/ Held(c)
      BY DEF IInv, Covered
    <2>4. \A c \in Nat : (Done(c) => Done(c)') /\ (Held(c) => Held(c)')
      BY <1>2, <1>3 DEF Done, Held
    <2>5. \A c \in Nat : (0 < c /\ c <= nextCursor') => Done(c)' \/ Held(c)'
      <3> SUFFICES ASSUME NEW c \in Nat, 0 < c, c <= nextCursor' PROVE Done(c)' \/ Held(c)'
        OBVIOUS
      <3>1. CASE c <= nextCursor
        BY <2>3, <2>4, <3>1
      <3>2. CASE c = note
        BY <1>2, <1>3, <3>2 DEF Held
      <3>3. CASE nextCursor < c /\ c < note
        BY <3>3 DEF Done
      <3> QED BY <1>0, <3>1, <3>2, <3>3
    <2>6. \A m \in Nat : InSeq(out', m) =>
              \A c \in Nat : (0 < c /\ c < m) => Done(c)' \/ Held(c)'
      BY <1>0, <1>1, <1>2, <1>3, <2>5
    <2>7. /\ \A c \in Nat : (0 < c /\ c <= cursor) => Done(c)
          /\ consumer # "waiting" => \A c \in Nat : (0 < c /\ c < current) => Done(c)
      BY DEF IInv, Covered
    <2>8. Covered'
      BY <2>4, <2>5, <2>6, <2>7 DEF Covered
    <2> QED BY <2>2, <2>8
  <1>4. CASE out' = out /\ phase' = "closed"
    <2>1. Ordered'
      BY <1>0, <1>1, <1>4 DEF IInv, Ordered
    <2>2. Covered'
      BY <1>4 DEF IInv, Covered, Done, Held
    <2> QED BY <2>1, <2>2
  <1> QED BY <1>0, <1>3, <1>4, SendTypes

\* The next row of the page is the row after nextCursor.
LEMMA ReplayStep == IInv /\ Replay => Bounded' /\ Ordered' /\ Covered' /\ LiveComplete'
  <1> SUFFICES ASSUME IInv, Replay PROVE Bounded' /\ Ordered' /\ Covered' /\ LiveComplete'
    OBVIOUS
  <1> USE DEF db, producers, channel, reader, loop
  <1>0. /\ TypeOK /\ phase = "replay" /\ page \in Seq(Nat) /\ page # <<>> /\ nextCursor \in Nat
        /\ tail \in Nat /\ nextCursor' = Head(page) /\ page' = Tail(page) /\ Send(Head(page))
        /\ UNCHANGED <<tail, cursor, pending, silent, live, consumer, current, handled, failed,
                       overtaken>>
    BY DEF IInv, TypeOK, Replay
  <1>1. /\ Len(page) \in Nat \ {0} /\ page[1] = Head(page)
        /\ Len(Tail(page)) = Len(page) - 1
        /\ \A i \in 1..(Len(page) - 1) : Tail(page)[i] = page[i + 1] /\ i + 1 \in 1..Len(page)
    BY <1>0
  <1>2. \A i \in 1..Len(page) : page[i] = nextCursor + i /\ page[i] <= tail
    BY DEF IInv, Bounded
  <1>3. Head(page) = nextCursor + 1 /\ Head(page) <= tail
    BY <1>1, <1>2
  <1>4. Bounded'
    <2>1. \A i \in 1..Len(page') : page'[i] = nextCursor' + i /\ page'[i] <= tail
      BY <1>0, <1>1, <1>2, <1>3
    <2> QED BY <1>0, <1>3, <2>1 DEF IInv, Bounded
  <1>5. Ordered' /\ Covered'
    BY <1>0, <1>3, SendStep
  <1>6. LiveComplete'
    BY <1>0, <1>3, SendTypes DEF LiveComplete
  <1> QED BY <1>4, <1>5, <1>6

\* The next live notification passes over overtaken rows only.
LEMMA ForwardStep == IInv /\ Forward => Bounded' /\ Ordered' /\ Covered' /\ LiveComplete'
  <1> SUFFICES ASSUME IInv, Forward PROVE Bounded' /\ Ordered' /\ Covered' /\ LiveComplete'
    OBVIOUS
  <1> USE DEF db, producers, channel, reader, loop
  <1>0. /\ TypeOK /\ phase = "live" /\ live \in Seq(Nat) /\ live # <<>> /\ nextCursor \in Nat
        /\ tail \in Nat /\ live' = Tail(live) /\ page = <<>>
        /\ UNCHANGED <<tail, cursor, pending, page, consumer, current, handled, failed,
                       overtaken, silent>>
    BY DEF IInv, TypeOK, Ordered, Forward
  <1>1. /\ Len(live) \in Nat \ {0} /\ live[1] = Head(live) /\ Head(live) \in Nat
        /\ Len(Tail(live)) = Len(live) - 1
        /\ \A i \in 1..(Len(live) - 1) : Tail(live)[i] = live[i + 1] /\ i + 1 \in 1..Len(live)
        /\ \A c : InSeq(live, c) <=> (c = Head(live) \/ InSeq(Tail(live), c))
    BY <1>0, InTail
  <1>2. /\ \A i \in 1..Len(live) : live[i] <= tail
        /\ NoJump(live, nextCursor, overtaken)
        /\ registered => \A d \in Nat : (nextCursor < d /\ d <= tail) =>
                             (d \in overtaken \/ d \in silent \/ InSeq(live, d))
    BY <1>0 DEF IInv, Bounded, LiveComplete
  <1>3. \A i \in 1..Len(live') : live'[i] <= tail
    BY <1>0, <1>1, <1>2
  <1>4. Head(live) <= tail
    BY <1>1, <1>2
  <1>5. CASE Head(live) # 0 /\ Head(live) <= nextCursor
    <2>1. UNCHANGED <<nextCursor, phase, registered, out>>
      BY <1>5 DEF Forward
    <2>2. NoJump(live', nextCursor, overtaken)
      BY <1>0, <1>1, <1>2, <1>5, NoJumpTail
    <2>3. Bounded'
      BY <1>0, <1>3, <2>1 DEF IInv, Bounded
    <2>4. Ordered' /\ Covered'
      BY <1>0, <2>1 DEF IInv, Ordered, Covered, Done, Held
    <2>5. LiveComplete'
      BY <1>0, <1>1, <1>2, <1>5, <2>1, <2>2 DEF LiveComplete
    <2> QED BY <2>3, <2>4, <2>5
  <1>6. CASE ~(Head(live) # 0 /\ Head(live) <= nextCursor)
    <2>1. /\ nextCursor' = IF Head(live) = 0 THEN nextCursor ELSE Head(live)
          /\ Send(Head(live))
          /\ Head(live) = 0 \/ nextCursor < Head(live)
      BY <1>0, <1>1, <1>6 DEF Forward
    <2>2. nextCursor <= nextCursor' /\ Head(live) <= nextCursor' /\ nextCursor' \in Nat
          /\ nextCursor' <= tail
      BY <1>0, <1>1, <1>4, <2>1 DEF IInv, Bounded
    <2>3. /\ NoJump(live', nextCursor', overtaken)
          /\ \A d \in Nat : (nextCursor < d /\ d < Head(live)) => d \in overtaken
      BY <1>0, <1>1, <1>2, <2>2, NoJumpTail
    <2>4. Bounded'
      BY <1>0, <1>3, <2>2, Empty DEF IInv, Bounded
    <2>5. Ordered' /\ Covered'
      BY <1>0, <1>1, <2>1, <2>3, SendStep
    <2>6. LiveComplete'
      <3>1. CASE phase' = phase /\ registered' = registered
        BY <1>0, <1>1, <1>2, <2>1, <2>2, <2>3, <3>1 DEF LiveComplete
      <3>2. CASE phase' = "closed"
        BY <3>2 DEF LiveComplete
      <3> QED BY <1>0, <1>1, <2>1, <3>1, <3>2, SendTypes
    <2> QED BY <2>4, <2>5, <2>6
  <1> QED BY <1>5, <1>6

\* The consumer takes a notification: everything below it is accounted for.
LEMMA TakeStep == IInv /\ Take => Bounded' /\ Ordered' /\ Covered' /\ LiveComplete'
  <1> SUFFICES ASSUME IInv, Take PROVE Bounded' /\ Ordered' /\ Covered' /\ LiveComplete'
    OBVIOUS
  <1> USE DEF db, producers, channel, reader, loop
  <1>0. /\ TypeOK /\ consumer = "waiting" /\ out \in Seq(Nat) /\ out # <<>> /\ out' = Tail(out)
        /\ consumer' = IF Head(out) = 0 THEN "waiting" ELSE "handling"
        /\ current' = Head(out) /\ cursor \in Nat /\ nextCursor \in Nat
        /\ UNCHANGED <<tail, cursor, pending, silent, registered, live, phase, page, nextCursor,
                       handled, failed, overtaken>>
    BY DEF IInv, TypeOK, Take
  <1>1. /\ Head(out) \in Nat /\ Tail(out) \in Seq(Nat)
        /\ \A c : InSeq(out, c) <=> (c = Head(out) \/ InSeq(Tail(out), c))
    BY <1>0, InTail
  <1>2. /\ Increasing(Tail(out))
        /\ Head(out) # 0 => \A c \in Nat : (InSeq(Tail(out), c) /\ c # 0) => Head(out) < c
    BY <1>0, IncreasingTail DEF IInv, Ordered
  <1>3. Bounded'
    BY <1>0 DEF IInv, Bounded
  <1>4. Ordered'
    <2>1. phase # "off"
      BY <1>0 DEF IInv, Ordered
    <2>2. /\ \A c \in Nat : InSeq(out', c) => c <= nextCursor
          /\ \A c \in Nat : (InSeq(out', c) /\ c # 0) => cursor < c
          /\ cursor <= nextCursor
      BY <1>0, <1>1, <2>1 DEF IInv, Ordered
    <2>3. Head(out) # 0 => cursor < Head(out) /\ Head(out) <= nextCursor
      BY <1>0, <1>1 DEF IInv, Ordered
    <2>4. phase = "live" => page = <<>>
      BY DEF IInv, Ordered
    <2> QED BY <1>0, <1>2, <2>1, <2>2, <2>3, <2>4 DEF Ordered
  <1>5. Covered'
    <2>1. \A c \in Nat : Done(c) <=> Done(c)'
      BY <1>0 DEF Done
    <2>2. \A c \in Nat : (0 < c /\ Held(c)) => Held(c)'
      BY <1>0, <1>1 DEF Held
    <2>3. Head(out) # 0 => \A c \in Nat : (0 < c /\ c < Head(out)) => Done(c)
      <3> SUFFICES ASSUME Head(out) # 0, NEW c \in Nat, 0 < c, c < Head(out) PROVE Done(c)
        OBVIOUS
      <3>1. Done(c) \/ Held(c)
        BY <1>1 DEF IInv, Covered
      <3>2. ~Held(c)
        BY <1>0, <1>1, <1>2 DEF Held
      <3> QED BY <3>1, <3>2
    <2>4. \A c \in Nat : (0 < c /\ c <= cursor) => Done(c)
      BY DEF IInv, Covered
    <2>5. \A m \in Nat : InSeq(out', m) =>
              \A c \in Nat : (0 < c /\ c < m) => Done(c) \/ Held(c)
      BY <1>0, <1>1 DEF IInv, Covered
    <2>6. phase \in {"replay", "live"} =>
              \A c \in Nat : (0 < c /\ c <= nextCursor) => Done(c) \/ Held(c)
      BY DEF IInv, Covered
    <2> QED BY <1>0, <2>1, <2>2, <2>3, <2>4, <2>5, <2>6 DEF Covered
  <1>6. LiveComplete'
    BY <1>0 DEF IInv, LiveComplete
  <1> QED BY <1>3, <1>4, <1>5, <1>6

\* The outcome of one event, and the save of its cursor.
LEMMA ConsumerStep ==
    ASSUME IInv, HandleRecordEvent \/ HandleFails \/ SaveCursor \/ SaveFails
    PROVE  Bounded' /\ Ordered' /\ Covered' /\ LiveComplete'
  <1> USE DEF db, producers, channel, reader, loop
  <1>0. /\ TypeOK /\ consumer # "waiting" /\ current \in Nat /\ cursor \in Nat /\ nextCursor \in Nat
        /\ tail \in Nat /\ cursor < current /\ current <= nextCursor /\ nextCursor <= tail
        /\ UNCHANGED <<tail, pending, silent, registered, live, phase, page, nextCursor, out,
                       current, overtaken>>
    BY DEF IInv, TypeOK, Bounded, Ordered, HandleRecordEvent, HandleFails, SaveCursor, SaveFails
  <1>1. /\ handled \subseteq handled' /\ failed \subseteq failed'
        /\ consumer = "handling" => current \in handled' \union failed'
        /\ consumer' \in {"waiting", "saving"}
        /\ consumer' = "saving" => (consumer = "handling" /\ current \in handled' /\ cursor' = cursor)
        /\ cursor' = cursor \/ (cursor' = current /\ consumer = "saving" /\ current \in handled)
    BY DEF IInv, Ordered, HandleRecordEvent, HandleFails, SaveCursor, SaveFails
  <1>2. Bounded'
    BY <1>0, <1>1 DEF IInv, Bounded
  <1>3. Ordered'
    <2>1. \A c \in Nat : (InSeq(out, c) /\ c # 0) => (cursor < c /\ current < c)
      BY <1>0 DEF IInv, Ordered
    <2>2. phase # "off" /\ (phase = "live" => page = <<>>) /\ Increasing(out)
          /\ cursor' <= nextCursor /\ \A c \in Nat : InSeq(out, c) => c <= nextCursor
      BY <1>0, <1>1 DEF IInv, Ordered
    <2> QED BY <1>0, <1>1, <2>1, <2>2 DEF Ordered
  <1>4. Covered'
    <2>1. \A c \in Nat : Done(c) => Done(c)'
      BY <1>0, <1>1 DEF Done
    <2>2. \A c \in Nat : Held(c) => (Held(c)' \/ Done(c)')
      BY <1>0, <1>1 DEF Held, Done
    <2>3. \A c \in Nat : (0 < c /\ c < current) => Done(c)
      BY <1>0 DEF IInv, Covered
    <2>4. \A c \in Nat : (0 < c /\ c <= cursor') => Done(c)'
      <3>1. CASE cursor' = cursor
        BY <2>1, <3>1 DEF IInv, Covered
      <3>2. CASE cursor' = current /\ current \in handled
        BY <1>0, <1>1, <2>1, <2>3, <3>2 DEF Done
      <3> QED BY <1>1, <3>1, <3>2
    <2>5. \A m \in Nat : InSeq(out, m) =>
              \A c \in Nat : (0 < c /\ c < m) => Done(c) \/ Held(c)
      BY DEF IInv, Covered
    <2>6. phase \in {"replay", "live"} =>
              \A c \in Nat : (0 < c /\ c <= nextCursor) => Done(c) \/ Held(c)
      BY DEF IInv, Covered
    <2> QED BY <1>0, <2>1, <2>2, <2>3, <2>4, <2>5, <2>6 DEF Covered
  <1>5. LiveComplete'
    BY <1>0 DEF IInv, LiveComplete
  <1> QED BY <1>2, <1>3, <1>4, <1>5

\* A restart keeps the database, and the gap-free cursor with it.
LEMMA CrashStep == IInv /\ Crash => Bounded' /\ Ordered' /\ Covered' /\ LiveComplete'
  <1> SUFFICES ASSUME IInv, Crash PROVE Bounded' /\ Ordered' /\ Covered' /\ LiveComplete'
    OBVIOUS
  <1> USE DEF db
  <1>1. Bounded'
    BY Empty DEF IInv, TypeOK, Bounded, Crash
  <1>2. Ordered'
    BY Empty DEF Ordered, Crash
  <1>3. Covered'
    BY Empty DEF IInv, Covered, Done, Crash
  <1>4. LiveComplete'
    BY DEF LiveComplete, Crash
  <1> QED BY <1>1, <1>2, <1>3, <1>4

\* The invariant is inductive.
LEMMA StepInv == IInv /\ [Next]_vars => IInv'
  <1> SUFFICES ASSUME IInv, [Next]_vars PROVE IInv'
    OBVIOUS
  <1>0. TypeOK' /\ TypeOK
    BY TypeStep DEF IInv, Bounded
  <1> SUFFICES Bounded' /\ Ordered' /\ Covered' /\ LiveComplete'
    BY <1>0 DEF IInv
  <1> USE DEF db, producers, channel, reader, loop
  <1>1. ASSUME NEW a \in Appenders, AppendATProtoEvent(a)
        PROVE  Bounded' /\ Ordered' /\ Covered' /\ LiveComplete'
    <2>1. \A b \in Appenders : pending'[b] = pending[b] \/ pending'[b] = tail + 1
      BY <1>0, <1>1 DEF AppendATProtoEvent, TypeOK
    <2> QED BY <1>1, <2>1, AppendStep DEF AppendATProtoEvent
  <1>2. CASE AppendElsewhere
    BY <1>2, AppendStep DEF AppendElsewhere
  <1>3. ASSUME NEW a \in Appenders, Broadcast(a)
        PROVE  Bounded' /\ Ordered' /\ Covered' /\ LiveComplete'
    <2>1. /\ pending[a] \in Nat /\ pending[a] <= tail
          /\ \A b \in Appenders : pending'[b] = pending[b] \/ pending'[b] = 0
      BY <1>0, <1>3 DEF IInv, Bounded, Broadcast, TypeOK
    <2> QED BY <1>3, <2>1, OfferStep DEF Broadcast
  <1>4. CASE BroadcastOther
    <2>1. 0 \notin silent
      BY DEF IInv, Bounded
    <2>2. silent' = silent \ {0} /\ 0 <= tail
      BY <1>0, <1>4, <2>1 DEF BroadcastOther, TypeOK
    <2>3. {d \in silent : nextCursor < d /\ d < 0} = {}
      <3>1. \A d \in silent : d \in Nat
        BY <1>0 DEF TypeOK
      <3>2. \A d \in silent : ~(d < 0)
        BY <3>1
      <3> QED BY <3>2
    <2>4. overtaken' = IF phase = "live"
                       THEN overtaken \union {d \in silent : nextCursor < d /\ d < 0}
                       ELSE overtaken
      BY <1>4, <2>3 DEF BroadcastOther
    <2>5. /\ Offer(0) /\ UNCHANGED <<db, reader, loop>>
          /\ \A a \in Appenders : pending'[a] = pending[a] \/ pending'[a] = 0
      BY <1>4 DEF BroadcastOther
    <2>6. 0 \in Nat
      OBVIOUS
    <2> QED BY <2>2, <2>4, <2>5, <2>6, OfferStep
  <1>5. CASE Subscribe
    BY <1>5, SubscribeStep
  <1>6. CASE List
    BY <1>6, ListStep
  <1>7. CASE ListFails
    BY <1>7, EndStep DEF ListFails
  <1>8. CASE Replay
    BY <1>8, ReplayStep
  <1>9. CASE Forward
    BY <1>9, ForwardStep
  <1>10. CASE Evicted
    BY <1>10, EndStep DEF Evicted
  <1>11. CASE Take
    BY <1>11, TakeStep
  <1>12. CASE HandleRecordEvent \/ HandleFails \/ SaveCursor \/ SaveFails
    BY <1>12, ConsumerStep
  <1>13. CASE Crash
    BY <1>13, CrashStep
  <1>14. CASE UNCHANGED vars
    BY <1>14 DEF vars, IInv, Bounded, Ordered, Covered, Done, Held, LiveComplete
  <1> QED BY <1>1, <1>2, <1>3, <1>4, <1>5, <1>6, <1>7, <1>8, <1>9, <1>10, <1>11, <1>12,
             <1>13, <1>14 DEF Next

-----------------------------------------------------------------------------
\* So it holds in every reachable state.
LEMMA Invariant == Spec => []IInv
  BY InitInv, StepInv, PTL DEF Spec

\* The subscription's state is well formed and no channel exceeds its buffer,
\* whatever the capacities: broadcast and Subscribe never block on a send.
THEOREM TypeCorrect == Spec => []TypeOK
  <1>1. IInv => TypeOK
    BY DEF IInv
  <1> QED BY <1>1, Invariant, PTL

\* The saved cursor never passes a row that HandleRecordEvent was not given,
\* unless a broadcast of a larger row overtook it: across replay, live
\* forwarding, eviction, overflow, failed saves and restarts.
THEOREM NothingSkipped == Spec => []NoSilentGap
  <1>1. IInv => NoSilentGap
    BY DEF IInv, TypeOK, Covered, Done, NoSilentGap, Seen
  <1> QED BY <1>1, Invariant, PTL

\* The saved cursor never moves back.
THEOREM CursorNeverBack == Spec => CursorForward
  <1>1. IInv /\ [Next]_vars => [cursor' >= cursor]_vars
    <2> SUFFICES ASSUME IInv, [Next]_vars PROVE cursor' >= cursor
      OBVIOUS
    <2>1. cursor \in Nat /\ current \in Nat
      BY DEF IInv, TypeOK
    <2>2. CASE SaveCursor
      BY <2>1, <2>2 DEF SaveCursor, IInv, Ordered
    <2>3. CASE ~SaveCursor
      <3>1. cursor' = cursor
        BY <2>3 DEF Next, vars, db, AppendATProtoEvent, AppendElsewhere, Broadcast,
           BroadcastOther, Subscribe, List, ListFails, Replay, Forward, Evicted, Take,
           HandleRecordEvent, HandleFails, SaveFails, Crash
      <3> QED BY <2>1, <3>1
    <2> QED BY <2>2, <2>3
  <1> QED BY <1>1, Invariant, PTL DEF Spec, CursorForward
=============================================================================
