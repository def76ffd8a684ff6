------------------------------ MODULE MCFaults ------------------------------
(***************************************************************************)
(* Crashes, failed statements, lost answers and restarts: a behaviour is    *)
(* one of the way back to ATProto, one of the blob exchange, one of a feed  *)
(* that two nodes replicate over two connections, one after the other, or   *)
(* one of the tracker that follows back.                                    *)
(***************************************************************************)
EXTENDS ReverseSync

CONSTANTS
    BlobIds, Fetchers, Records, Uploads, Streams, Tries, ChanCap, MaxCrashes, NoBlob, Free,
    Nodes, Feeds, MaxLinks, Publishers, MaxPublish, MaxContent, MaxFrames,
    Members, Bot, AnnounceCap, MaxPerWindow, MaxAnnounces

VARIABLES
    part,
    files, blobs, holder, wants, subs, creating, told, jobs, table, old, crashes, dropped,
    replicas, received, note, theirs, token, link, wire, open, handler, held,
    loop, streams, pub, repl, published, replicated, connections, raced, blind, stale,
    announceCh, pending, batch, sync, followCount, followed, follows, unrecorded, announces, mishaps

MCAuthor(f) == "a"
MCDialler(l) == "d"
MCAcceptor(l) == "a"

Exchange == INSTANCE Blobs WITH rows <- blobs
Feed == INSTANCE Replication WITH Author <- MCAuthor, Dialler <- MCDialler, Acceptor <- MCAcceptor,
                                  Overlap <- FALSE, rows <- replicas
Follow == INSTANCE FollowerTracker WITH ChanCap <- AnnounceCap, rows <- followed, excused <- unrecorded

reverseVars == << feed, session, stored, log, cursor, mapping, credentials, bridged, rows, messages,
                  remote, job, orders, ignored, excused >>
blobVars == << files, blobs, holder, wants, subs, creating, told, jobs, table, old, crashes, dropped >>
feedVars == << replicas, received, note, theirs, token, link, wire, open, handler, held, loop, streams,
               pub, repl, published, replicated, connections, raced, blind, stale >>
followVars == << announceCh, pending, batch, sync, followCount, followed, follows, unrecorded, announces,
                 mishaps >>

\* The parts that are not chosen stay in an initial state.
FaultsInit ==
    /\ Init /\ Exchange!Init /\ Feed!Init /\ Follow!Init
    /\ part \in {"reverse", "blobs", "feed", "follow"}
    /\ part # "reverse" => credentials

FaultsNext ==
    \/ part = "reverse" /\ Next /\ UNCHANGED << part, blobVars, feedVars, followVars >>
    \/ part = "blobs" /\ Exchange!Next /\ UNCHANGED << part, faults, reverseVars, feedVars, followVars >>
    \/ part = "feed" /\ Feed!Next /\ UNCHANGED << part, reverseVars, blobVars, followVars >>
    \/ part = "follow" /\ Follow!Next /\ UNCHANGED << part, faults, reverseVars, blobVars, feedVars >>

FaultsSpec ==
    FaultsInit /\ [][FaultsNext]_<< part, faults, reverseVars, blobVars, feedVars, followVars >>

\* PublishedOnce, NothingPassedOver and CorrelatedFirst are those of ReverseSync.  The
\* properties of the other parts, stated in their modules (a part that is not chosen keeps
\* its initial state): peers are told of a blob that is missing, and one that is referred
\* to is served,
BlobsAreServed ==
    part = "blobs" => Exchange!MissingIsTold /\ Exchange!MappedIsServed /\ Exchange!PeersGetTheBlob
\* and a node announces no more of a feed than it has, whatever append fails, and a member
\* that announces itself is followed once.
AnnouncementsHold ==
    (part = "feed" => Feed!NoteNeverAhead) /\ (part = "follow" => Follow!FollowedOnce)
=============================================================================
