--------------------------- MODULE FollowerTracker ---------------------------
(***************************************************************************)
(* Following back who announces itself in the room                          *)
(* (internal/bridge/follower_tracker.go).  Announcements go through a       *)
(* channel that drops them when it is full, are collected until none has    *)
(* come for a while, and are then handled one after the other by the same   *)
(* goroutine, as many as the window allows.  What has been followed is in   *)
(* the table ssb_follower_sync.                                             *)
(***************************************************************************)
EXTENDS Integers, Sequences, FiniteSets

CONSTANTS
    Members,        \* feeds that announce themselves
    Bot,            \* the bot's own feed
    ChanCap,        \* capacity of announceCh (100)
    MaxPerWindow,   \* MaxFollowsPer (10)
    MaxAnnounces, MaxFaults      \* bounds

VARIABLES
    announceCh,
    pending,        \* feeds that have announced themselves
    batch,          \* what the goroutine still has to handle of a batch
    sync,           \* syncFollower: its feed and where it is
    followCount,    \* follows of this window
    rows,           \* ssb_follower_sync
    follows,        \* follow records on the bot's PDS, in order
    excused,        \* history: feeds whose row was not written after the follow
    announces, mishaps

vars == << announceCh, pending, batch, sync, followCount, rows, follows, excused, announces, mishaps >>

Nobody == [feed |-> Bot, at |-> "none"]

Init ==
    /\ announceCh = <<>> /\ pending = {} /\ batch = {} /\ sync = Nobody /\ followCount = 0
    /\ rows = {} /\ follows = <<>> /\ excused = {} /\ announces = 0 /\ mishaps = 0

Mishap == mishaps < MaxFaults /\ mishaps' = mishaps + 1

\* Announce never blocks.
Announce(f) ==
    /\ announces < MaxAnnounces
    /\ announces' = announces + 1
    /\ announceCh' = IF Len(announceCh) < ChanCap THEN Append(announceCh, f) ELSE announceCh
    /\ UNCHANGED << pending, batch, sync, followCount, rows, follows, excused, mishaps >>

\* processLoop takes an announcement, or the batch when the debouncer fires,
Idle == batch = {} /\ sync = Nobody
ProcessLoop ==
    /\ Idle
    /\ \/ /\ announceCh # <<>>
          /\ pending' = pending \cup {Head(announceCh)}
          /\ announceCh' = Tail(announceCh) /\ UNCHANGED batch
       \/ /\ pending # {}
          /\ batch' = pending /\ pending' = {} /\ UNCHANGED announceCh
    /\ UNCHANGED << sync, followCount, rows, follows, excused, announces, mishaps >>

\* whose feeds are handled in any order: whom it has followed it does not follow again.
SyncFollower(f) ==
    /\ sync = Nobody /\ f \in batch
    /\ batch' = batch \ {f}
    /\ \/ f \in rows \cup {Bot} /\ UNCHANGED << sync, mishaps >>
       \/ f \notin rows \cup {Bot} /\ sync' = [feed |-> f, at |-> "limit"] /\ UNCHANGED mishaps
       \/ Mishap /\ UNCHANGED sync
    /\ UNCHANGED << announceCh, pending, followCount, rows, follows, excused, announces >>

\* The window counts attempts; a feed over the limit is passed over.
RateLimit ==
    /\ sync.at = "limit"
    /\ IF followCount >= MaxPerWindow THEN sync' = Nobody /\ UNCHANGED followCount
       ELSE sync' = [sync EXCEPT !.at = "resolve"] /\ followCount' = followCount + 1
    /\ UNCHANGED << announceCh, pending, batch, rows, follows, excused, announces, mishaps >>

RateLimitResetLoop ==
    /\ followCount > 0
    /\ followCount' = 0
    /\ UNCHANGED << announceCh, pending, batch, sync, rows, follows, excused, announces, mishaps >>

\* resolveSSBFeedToDID takes every error for a feed that has no DID.
ResolveSSBFeedToDID ==
    /\ sync.at = "resolve"
    /\ sync' \in {Nobody, [sync EXCEPT !.at = "publish"]}
    /\ UNCHANGED << announceCh, pending, batch, followCount, rows, follows, excused, announces, mishaps >>

\* The follow is created; or it is not; or it is and the answer is lost.
PublishATProtoFollow ==
    /\ sync.at = "publish"
    /\ \/ /\ follows' = Append(follows, sync.feed)
          /\ sync' = [sync EXCEPT !.at = "record"] /\ UNCHANGED << mishaps, excused >>
       \/ Mishap /\ sync' = Nobody /\ UNCHANGED << follows, excused >>
       \/ /\ Mishap /\ sync' = Nobody
          /\ follows' = Append(follows, sync.feed) /\ excused' = excused \cup {sync.feed}
    /\ UNCHANGED << announceCh, pending, batch, followCount, rows, announces >>

\* AddFollowerSync; its error is logged.
AddFollowerSync ==
    /\ sync.at = "record"
    /\ sync' = Nobody
    /\ \/ rows' = rows \cup {sync.feed} /\ UNCHANGED << mishaps, excused >>
       \/ Mishap /\ excused' = excused \cup {sync.feed} /\ UNCHANGED rows
    /\ UNCHANGED << announceCh, pending, batch, followCount, follows, announces >>

\* The process dies: the table stays.
Crash ==
    /\ Mishap
    /\ announceCh' = <<>> /\ pending' = {} /\ batch' = {} /\ sync' = Nobody /\ followCount' = 0
    /\ excused' = excused \cup IF sync.at = "record" THEN {sync.feed} ELSE {}
    /\ UNCHANGED << rows, follows, announces >>

Next ==
    \/ \E f \in Members \cup {Bot} : Announce(f) \/ SyncFollower(f)
    \/ ProcessLoop \/ RateLimit \/ RateLimitResetLoop
    \/ ResolveSSBFeedToDID \/ PublishATProtoFollow \/ AddFollowerSync \/ Crash

Spec == Init /\ [][Next]_vars

\* Nobody is followed twice, however often and whenever it announces itself, except when
\* the row that remembers the follow could not be written; and never the bot itself.
FollowedOnce ==
    /\ \A i, j \in DOMAIN follows : follows[i] = follows[j] => i = j \/ follows[i] \in excused
    /\ \A i \in DOMAIN follows : follows[i] # Bot
==============================================================================
