----------------------------- MODULE Translation -----------------------------
(***************************************************************************)
(* From a record to a message: the JSON decoders of pkg/atproto/appbsky,    *)
(* internal/mapper, the blob candidates of internal/blobbridge, and the     *)
(* order in which internal/bridge/processor.go calls them.                  *)
(*                                                                          *)
(* ReplaceATProtoRefs looks the references up one after the other, and runs *)
(* twice, before and after the dependencies are fetched; other goroutines   *)
(* publish what is looked up at any moment.  A message that is deferred is  *)
(* mapped anew from the record.  A reference to a record or an account is   *)
(* that record or account; a text is a sequence of bytes and of the marks   *)
(* that the translation adds.                                               *)
(***************************************************************************)
EXTENDS Integers, Sequences, FiniteSets, SequencesExt

CONSTANTS
    Records,        \* the records as they come, see MCRecords in MCTranslation
    Posts, DIDs,    \* what they refer to
    MaxMappings     \* bound: times a record is mapped

VARIABLES
    record,
    deleted,      \* a delete is translated
    known,        \* posts that are published and accounts that have a feed
    msg,          \* the message
    at,           \* where the translation is
    slot,         \* the reference that ReplaceATProtoRefs looks up next
    blobs,        \* blob candidates that are still to be bridged
    lost,         \* a blob could not be bridged
    before,       \* known when the record was mapped
    mappings

vars == << record, deleted, known, msg, at, slot, blobs, lost, before, mappings >>

-----------------------------------------------------------------------------
(* The JSON decoders.  What comes is a function on the keys that are there.  *)

Has(v, k) == k \in DOMAIN v
NoValue == <<>>

\* RichtextFacet_Features_Elem: by the field of the union, or by the field of the lexicon
\* unless it is blank.
DecodeFeature(f) ==
    [link    |-> IF Has(f, "link") THEN << f["link"] >>
                 ELSE IF Has(f, "uri") /\ f["uri"] # "" THEN << f["uri"] >> ELSE NoValue,
     mention |-> IF Has(f, "mention") THEN << f["mention"] >>
                 ELSE IF Has(f, "did") /\ f["did"] # "" THEN << f["did"] >> ELSE NoValue,
     tag     |-> IF Has(f, "tag") THEN << f["tag"] >> ELSE NoValue]

\* EmbedExternal and EmbedRecord hold what they stand for, or are it.
DecodeExternal(e) == IF Has(e, "uri") THEN << e >> ELSE IF Has(e, "external") THEN << e["external"] >> ELSE NoValue
DecodeRecord(e) == IF Has(e, "uri") THEN << e["uri"] >> ELSE IF Has(e, "record") THEN << e["record"]["uri"] >> ELSE NoValue
\* EmbedVideo has the blob in a field of its own.
DecodeVideo(e) == IF Has(e, "video") THEN << e["video"] >> ELSE NoValue

\* EmbedRecordWithMedia_Media, and the first half of FeedPost_Embed.
DecodeMedia(e) ==
    [images   |-> IF Has(e, "images") THEN << e["images"] >> ELSE NoValue,
     video    |-> IF Has(e, "video") THEN << DecodeVideo(e["video"]) >> ELSE NoValue,
     external |-> IF Has(e, "external") THEN << DecodeExternal(e["external"]) >> ELSE NoValue]

NoMedia == [images |-> NoValue, video |-> NoValue, external |-> NoValue]
DecodeEmbed(e) ==
    LET both == IF Has(e, "recordWithMedia") THEN e["recordWithMedia"] ELSE <<>> IN
    [own    |-> DecodeMedia(e),
     record |-> IF Has(e, "record") THEN DecodeRecord(e["record"]) ELSE NoValue,
     quoted |-> IF Has(both, "record") THEN DecodeRecord(both["record"]) ELSE NoValue,
     media  |-> IF Has(both, "media") THEN DecodeMedia(both["media"]) ELSE NoMedia]

-----------------------------------------------------------------------------
(* internal/mapper                                                           *)

\* rewriteRichText: the facets by their place, ...
RangedBefore(f, g) == IF f.start = g.start THEN f.end < g.end ELSE f.start < g.start
Ranged(facets) == SortSeq(SelectSeq(facets, LAMBDA f : Has(f, "start")), RangedBefore)

\* the first of its features with a link decides about a segment,
RewriteFacetSegment(segment, facet) ==
    LET linked == SelectSeq(facet.features, LAMBDA f : DecodeFeature(f).link # NoValue)
        uri == IF linked = <<>> THEN "" ELSE DecodeFeature(linked[1]).link[1]
    IN IF uri \in {"", "itself"} THEN segment ELSE << "[" >> \o segment \o << "](uri)" >>

\* and what is mentioned is listed once.
AppendUniqueMention(mentions, m) ==
    IF m.link = "" \/ m \in Range(mentions) THEN mentions ELSE Append(mentions, m)
AppendFacetMentions(mentions, segment, facet) ==
    LET add(f, ms) ==
            LET d == DecodeFeature(f) IN
            CASE d.mention # NoValue -> AppendUniqueMention(ms, [link |-> d.mention[1], name |-> segment])
              [] d.mention = NoValue /\ d.tag # NoValue /\ d.tag[1] # "" ->
                     AppendUniqueMention(ms, [link |-> d.tag[1], name |-> IF segment = <<>> THEN << "tag" >> ELSE segment])
              [] OTHER -> ms
    IN FoldLeft(LAMBDA ms, f : add(f, ms), mentions, facet.features)

\* A facet that overlaps the one before, or is out of range, is passed over.
Fits(f, prev, text) == f.start >= prev /\ f.start >= 0 /\ f.end >= f.start /\ f.end <= Len(text)
RewriteRichText(text, facets, tags) ==
    LET step(acc, f) ==
            LET segment == SubSeq(text, f.start + 1, f.end) IN
            IF ~Fits(f, acc.prev, text) THEN acc
            ELSE [prev |-> f.end,
                  text |-> acc.text \o SubSeq(text, acc.prev + 1, f.start) \o RewriteFacetSegment(segment, f),
                  mentions |-> AppendFacetMentions(acc.mentions, segment, f)]
        done == FoldLeft(step, [prev |-> 0, text |-> <<>>, mentions |-> <<>>], Ranged(facets))
        named == SelectSeq(tags, LAMBDA t : t # "")
    IN [text |-> done.text \o SubSeq(text, done.prev + 1, Len(text)),
        mentions |-> FoldLeft(LAMBDA ms, t : AppendUniqueMention(ms, [link |-> t, name |-> << "tag" >>]),
                              done.mentions, named)]

QuoteSubjectURI(embed) ==
    IF embed.record # NoValue THEN embed.record[1]
    ELSE IF embed.quoted # NoValue THEN embed.quoted[1] ELSE ""

\* A message: its type and text, the "_atproto_" placeholders, the references that took
\* their place, and what is mentioned.
Message(type, placeholders) ==
    [type |-> type, text |-> <<>>, mentions |-> <<>>, refs |-> placeholders, links |-> <<>>,
     tangle |-> <<>>, value |-> 1]

Only(keys, f) == [k \in keys \cap DOMAIN f |-> f[k]]
MapPost(r) ==
    LET rich == RewriteRichText(r.text, r.facets, r.tags)
        quote == QuoteSubjectURI(DecodeEmbed(r.embed))
        reply == Only({"root", "parent"}, r.refs)
    IN [Message("post", IF quote = "" THEN reply ELSE reply @@ ("quote" :> quote))
           EXCEPT !.text = rich.text, !.mentions = rich.mentions]
MapLike(r) == Message("vote", Only({"subject"}, r.refs))
MapRepost(r) == Message("repost", Only({"repost"}, r.refs))
MapFollow(r) == Message("contact", Only({"contact"}, r.refs))
MapBlock(r) == Message("contact", Only({"contact"}, r.refs))
MapProfile(r) == Message("about", Only({"about"}, r.refs))
MapList(r) == Message("list", <<>>)
MapListItem(r) == Message("listitem", Only({"list", "contact"}, r.refs))
MapThreadgate(r) == Message("threadgate", Only({"subject"}, r.refs))
MapRecord(r) ==
    CASE r.type = "post" -> MapPost(r)     [] r.type = "like" -> MapLike(r)
      [] r.type = "repost" -> MapRepost(r) [] r.type = "follow" -> MapFollow(r)
      [] r.type = "block" -> MapBlock(r)   [] r.type = "profile" -> MapProfile(r)
      [] r.type = "list" -> MapList(r)     [] r.type = "listitem" -> MapListItem(r)
      [] r.type = "threadgate" -> MapThreadgate(r)

\* mapDeleteRecord: taking a like, a follow or a block back; nothing else can be.
Revocable == {"like", "follow", "block"}
MapDeleteRecord(r) == [MapRecord(r) EXCEPT !.value = 0]

\* UnresolvedATProtoRefs: a blank placeholder does not count.
UnresolvedNoList(m) == {k \in DOMAIN m.refs \ {"list"} : m.refs[k] # ""}
UnresolvedATProtoRefs(m) == {k \in DOMAIN m.refs : m.refs[k] # ""}

ReadyForPublish(m) ==
    /\ m.type = "contact" => Has(m.links, "contact")
    /\ m.type = "vote" => Has(m.links, "subject")

-----------------------------------------------------------------------------
(* ReplaceATProtoRefs, one lookup after the other                            *)

Slots == << "root", "list", "parent", "subject", "quote", "contact", "about", "repost" >>
LastSlot == Len(Slots) + 1      \* the mentions

Without(f, k) == [x \in DOMAIN f \ {k} |-> f[x]]
AppendMarkdownBlock(text, block) == text \o << block >>

\* One placeholder that is found.  Only a vote has a place for a subject; a reply gets
\* its tangle if the root is there when the parent is found.
Replaced(m, k) ==
    LET ref == m.refs[k]
        n == [m EXCEPT !.refs = Without(@, k),
                       !.links = IF k = "quote" \/ (k = "subject" /\ m.type # "vote") THEN @ ELSE (k :> ref) @@ @]
    IN CASE k = "parent" -> [n EXCEPT !.tangle = IF Has(m.links, "root") THEN << m.links["root"], ref >> ELSE @]
         [] k = "quote" -> [n EXCEPT !.mentions = Append(@, [link |-> ref, name |-> << "quoted" >>]),
                                     !.text = AppendMarkdownBlock(@, "quote")]
         [] OTHER -> n
\* A mention of an account without a feed is dropped.
ResolvedMentions(m) ==
    [m EXCEPT !.mentions = SelectSeq(@, LAMBDA x : x.link \in DIDs => x.link \in known)]

\* A round over the references takes the place at to the next.
ReplaceATProtoRefs(from, to) ==
    /\ at = from
    /\ IF slot < LastSlot
       THEN LET k == Slots[slot] IN
            /\ msg' = IF Has(msg.refs, k) /\ msg.refs[k] \in known THEN Replaced(msg, k) ELSE msg
            /\ slot' = CHOOSE n \in slot + 1..LastSlot :
                          /\ n = LastSlot \/ Has(msg.refs, Slots[n])
                          /\ \A x \in slot + 1..n - 1 : ~Has(msg.refs, Slots[x])
            /\ UNCHANGED at
       ELSE /\ msg' = ResolvedMentions(msg)
            /\ slot' = 1 /\ at' = to
    /\ UNCHANGED << record, deleted, known, blobs, lost, before, mappings >>

-----------------------------------------------------------------------------
(* internal/blobbridge                                                       *)

ImageCandidates(images) == SelectSeq(images, LAMBDA b : b # "none")
VideoCandidates(video) == video
ExternalCandidate(external) ==
    IF external # NoValue /\ Has(external[1], "thumb") THEN << external[1]["thumb"] >> ELSE <<>>

\* The first part of an embed that is there decides.
MediaCandidates(media) ==
    CASE media.images # NoValue -> ImageCandidates(media.images[1])
      [] media.images = NoValue /\ media.video # NoValue -> VideoCandidates(media.video[1])
      [] media.images = NoValue /\ media.video = NoValue /\ media.external # NoValue ->
             ExternalCandidate(media.external[1])
      [] OTHER -> <<>>
PostBlobCandidates(embed) ==
    IF embed.own.images # NoValue \/ embed.own.video # NoValue \/ MediaCandidates(embed.own) # <<>>
    THEN MediaCandidates(embed.own) ELSE MediaCandidates(embed.media)

ProfileBlobs(r) == (IF Has(r.embed, "avatar") THEN << r.embed["avatar"] >> ELSE <<>>)
                   \o (IF Has(r.embed, "banner") THEN << r.embed["banner"] >> ELSE <<>>)

BridgeRecordBlobs ==
    /\ at = "blobs"
    /\ blobs' = CASE deleted -> <<>>
                  [] ~deleted /\ record.type = "post" -> PostBlobCandidates(DecodeEmbed(record.embed))
                  [] ~deleted /\ record.type = "profile" -> ProfileBlobs(record)
                  [] OTHER -> <<>>
    /\ at' = "bridge" /\ lost' = FALSE
    /\ UNCHANGED << record, deleted, known, msg, slot, before, mappings >>

\* appendMention: a blob is mentioned once however often it is shown.
AppendMention(ms, b) ==
    IF \E x \in Range(ms) : x.link = b THEN ms ELSE Append(ms, [link |-> b, name |-> << "blob" >>])
BridgeBlob ==
    /\ at = "bridge" /\ blobs # <<>>
    /\ blobs' = Tail(blobs)
    /\ msg' = IF record.type = "profile" THEN [msg EXCEPT !.mentions = Append(@, [link |-> Head(blobs), name |-> << "blob" >>])]
              ELSE [msg EXCEPT !.mentions = AppendMention(@, Head(blobs)),
                               !.text = AppendMarkdownBlock(@, Head(blobs))]
    /\ UNCHANGED << record, deleted, known, at, slot, lost, before, mappings >>

\* The first blob that cannot be had ends it; the message goes without the rest.
BlobFails ==
    /\ at = "bridge" /\ blobs # <<>>
    /\ blobs' = <<>> /\ lost' = TRUE
    /\ UNCHANGED << record, deleted, known, msg, at, slot, before, mappings >>

-----------------------------------------------------------------------------
(* The processor                                                             *)

Init ==
    /\ record \in Records
    /\ deleted \in IF record.type \in Revocable THEN BOOLEAN ELSE {FALSE}
    /\ known = {}
    /\ msg = Message("none", <<>>)
    /\ at = "new" /\ slot = 1 /\ blobs = <<>> /\ lost = FALSE /\ before = {} /\ mappings = 0

\* mapMappedRecord, for a record that comes or one that was deferred.
MapMappedRecord ==
    /\ at \in {"new", "deferred"} /\ mappings < MaxMappings
    /\ mappings' = mappings + 1
    /\ msg' = IF deleted THEN MapDeleteRecord(record) ELSE MapRecord(record)
    /\ before' = known
    /\ at' = "first" /\ slot' = 1
    /\ UNCHANGED << record, deleted, known, blobs, lost >>

\* hydrateRecordDependencies: what can be had of the posts is published.
HydrateRecordDependencies ==
    /\ at = "hydrate"
    /\ \E got \in SUBSET {msg.refs[k] : k \in UnresolvedATProtoRefs(msg) \cap {"root", "parent", "subject", "quote"}} :
          known' = known \cup got
    /\ at' = "second"
    /\ UNCHANGED << record, deleted, msg, slot, blobs, lost, before, mappings >>

\* Somebody else publishes a post or adds an account that the record names.
Named(r) == Range(r.refs) \cup {r.quote} \cup r.mentioned
Learn(x) ==
    /\ x \in Named(record) \ known
    /\ known' = known \cup {x}
    /\ UNCHANGED << record, deleted, msg, at, slot, blobs, lost, before, mappings >>

\* SanitizeForPublish
Sanitized(m) == [m EXCEPT !.refs = <<>>]

\* applyMappedMessageLifecycle, up to the publisher.
ApplyLifecycle ==
    /\ at = "bridge" /\ blobs = <<>>
    /\ IF UnresolvedATProtoRefs(msg) # {} \/ ~ReadyForPublish(Sanitized(msg))
       THEN at' = "deferred" /\ UNCHANGED msg
       ELSE at' = "published" /\ msg' = Sanitized(msg)
    /\ UNCHANGED << record, deleted, known, slot, blobs, lost, before, mappings >>

Next ==
    \/ MapMappedRecord
    \/ ReplaceATProtoRefs("first", "hydrate")
    \/ HydrateRecordDependencies
    \/ ReplaceATProtoRefs("second", "blobs")
    \/ BridgeRecordBlobs \/ BridgeBlob \/ BlobFails
    \/ ApplyLifecycle
    \/ \E x \in Posts \cup DIDs : Learn(x)

Spec == Init /\ [][Next]_vars

-----------------------------------------------------------------------------
Published == at = "published"
Count(s, x) == Len(SelectSeq(s, LAMBDA y : y = x))
Marks == {"[", "](uri)", "quote"}
Added(r) == Marks \cup r.shown

\* However the facets of a post lie, overlap or run out of it, its text is in the message
\* whole and in order: without the marks and blocks that the translation adds, what is
\* left is what the author wrote.
TextKept ==
    Published /\ record.type = "post" =>
        SelectSeq(msg.text, LAMBDA x : x \notin Added(record)) = record.text

\* A message is published only with every reference its record has, whichever of the two
\* rounds found it: a reply with its root and branch, a like and a contact with their
\* target, a quote with one block and one mention, every account that had a feed before
\* the record was mapped among the mentions, and each blob, unless one could not be had.
\* (The subject of a threadgate is not in the message, nor is the blob of a video or of a
\* quote with media in the form of the lexicon.)
NothingDropped ==
    Published =>
        /\ \A k \in DOMAIN record.refs :
              (record.refs[k] # "" /\ record.type # "threadgate") =>
                  Has(msg.links, k) /\ msg.links[k] = record.refs[k]
        /\ record.quote # "" => /\ Count(msg.text, "quote") = 1
                                /\ Count(msg.mentions, [link |-> record.quote, name |-> << "quoted" >>]) = 1
        /\ \A d \in record.mentioned \cap before : \E x \in Range(msg.mentions) : x.link = d
        /\ \A x \in Range(msg.mentions) : x.link \in DIDs => x.link \in known
        /\ ~lost /\ ~deleted => \A b \in record.shown : \E x \in Range(msg.mentions) : x.link = b
==============================================================================
