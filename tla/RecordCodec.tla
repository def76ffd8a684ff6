----------------------------- MODULE RecordCodec -----------------------------
(***************************************************************************)
(* The hand-written CBOR codecs of the record types (pkg/atproto/appbsky).  *)
(* MarshalCBOR writes a map header with a count it computes, then the pairs *)
(* one after the other; UnmarshalCBOR reads as many pairs as the header     *)
(* says.  A count that is not the number of pairs makes the reader take     *)
(* what follows for pairs of its own, or leave pairs behind.                *)
(*                                                                          *)
(* What is on the wire is a sequence of tokens.  A type is two tables, one  *)
(* of what its MarshalCBOR writes and one of what its UnmarshalCBOR knows;  *)
(* Encode and Decode run them.  A record is a function on the fields that   *)
(* are set.                                                                 *)
(***************************************************************************)
EXTENDS Integers, Sequences, FiniteSets, SequencesExt

CONSTANT Bits        \* bits of an int64

-----------------------------------------------------------------------------
(* What MarshalCBOR writes: the count of the header, before the fields that  *)
(* add to it, and the pairs, each always or when the field is set.           *)

Kind(is, of) == [is |-> is, of |-> of]
Text == Kind("text", "")
Texts == Kind("texts", "")
Signed == Kind("int", "")
Unsigned == Kind("uint", "")
Pointer(type) == Kind("pointer", type)
Value(type) == Kind("value", type)
List(type) == Kind("list", type)

Always(name, kind) == [name |-> name, kind |-> kind, optional |-> FALSE]
IfSet(name, kind) == [name |-> name, kind |-> kind, optional |-> TRUE]
Typed == Always("$type", Kind("const", ""))
Writes(base, fields) == [base |-> base, fields |-> fields]

RepoStrongRefMarshal == Writes(2, << Always("uri", Text), Always("cid", Text) >>)
LexBlobMarshal == Writes(3, << Always("ref", Text), Always("mimeType", Text), Always("size", Unsigned) >>)
FeedLikeMarshal == Writes(3, << Typed, Always("subject", Pointer("RepoStrongRef")), Always("createdAt", Text) >>)
FeedRepostMarshal == Writes(3, << Typed, Always("subject", Pointer("RepoStrongRef")), Always("createdAt", Text) >>)
GraphFollowMarshal == Writes(3, << Typed, Always("subject", Text), Always("createdAt", Text) >>)
GraphBlockMarshal == Writes(3, << Typed, Always("subject", Text), Always("createdAt", Text) >>)
ActorProfileMarshal == Writes(1, << Typed, IfSet("displayName", Text), IfSet("description", Text),
    IfSet("avatar", Pointer("LexBlob")), IfSet("banner", Pointer("LexBlob")) >>)
ReplyRefMarshal == Writes(2, << Always("root", Pointer("RepoStrongRef")), Always("parent", Pointer("RepoStrongRef")) >>)
FeedPostMarshal == Writes(2, << Typed, Always("text", Text), IfSet("createdAt", Text),
    IfSet("embed", Pointer("Embed")), IfSet("facets", List("Facet")), IfSet("langs", Texts),
    IfSet("reply", Pointer("ReplyRef")), IfSet("tags", Texts) >>)
EmbedMarshal == Writes(0, << IfSet("images", Pointer("Images")), IfSet("video", Pointer("Video")),
    IfSet("external", Pointer("External")), IfSet("record", Pointer("Record")),
    IfSet("recordWithMedia", Pointer("RecordWithMedia")) >>)
RecordWithMediaMarshal == Writes(0, << IfSet("record", Pointer("Record")), IfSet("media", Pointer("Media")) >>)
MediaMarshal == Writes(0, << IfSet("images", Pointer("Images")), IfSet("video", Pointer("Video")),
    IfSet("external", Pointer("External")) >>)
FacetMarshal == Writes(2, << Always("index", Pointer("ByteSlice")), Always("features", List("Feature")) >>)
ByteSliceMarshal == Writes(2, << Always("byteEnd", Signed), Always("byteStart", Signed) >>)
AspectRatioMarshal == Writes(2, << Always("width", Signed), Always("height", Signed) >>)
ImagesMarshal == Writes(1, << Always("images", List("Image")) >>)
ImageMarshal == Writes(2, << Always("alt", Text), Always("image", Pointer("LexBlob")),
    IfSet("aspectRatio", Pointer("AspectRatio")) >>)
\* The next three count one field more than they write, ...
VideoMarshal == Writes(1, << IfSet("alt", Text), IfSet("video", Pointer("LexBlob")),
    IfSet("aspectRatio", Pointer("AspectRatio")) >>)
ExternalMarshal == Writes(1, << IfSet("external", Pointer("Card")) >>)
RecordMarshal == Writes(1, << IfSet("record", Pointer("RepoStrongRef")) >>)
\* ... and this one a field less.
CardMarshal == Writes(2, << Always("uri", Text), Always("title", Text), Always("description", Text),
    IfSet("thumb", Pointer("LexBlob")) >>)
LinkMarshal == Writes(1, << Always("uri", Text) >>)
MentionMarshal == Writes(1, << Always("did", Text) >>)
TagMarshal == Writes(1, << Always("tag", Text) >>)

-----------------------------------------------------------------------------
(* What UnmarshalCBOR knows.  The first six types refuse a field they do not *)
(* know; the others skip it.  The others read a name into a buffer of eight  *)
(* bytes and skip the value of a name that does not fit.                     *)

Strict(cases) == [cases |-> cases, strict |-> TRUE]
Lenient(cases) == [cases |-> cases, strict |-> FALSE]

RepoStrongRefUnmarshal == Strict([uri |-> Text, cid |-> Text])
LexBlobUnmarshal == Strict([ref |-> Text, mimeType |-> Text, size |-> Signed])
\* The codecs of likes, reposts, follows and blocks do not know the "$type" they write.
FeedLikeUnmarshal == Strict([subject |-> Value("RepoStrongRef"), createdAt |-> Text])
FeedRepostUnmarshal == Strict([subject |-> Value("RepoStrongRef"), createdAt |-> Text])
GraphFollowUnmarshal == Strict([subject |-> Text, createdAt |-> Text])
GraphBlockUnmarshal == Strict([subject |-> Text, createdAt |-> Text])
ActorProfileUnmarshal == Lenient([displayName |-> Text, description |-> Text,
    avatar |-> Pointer("LexBlob"), banner |-> Pointer("LexBlob")])
ReplyRefUnmarshal == Lenient([root |-> Pointer("RepoStrongRef"), parent |-> Pointer("RepoStrongRef")])
FeedPostUnmarshal == Lenient([text |-> Text, createdAt |-> Text, embed |-> Pointer("Embed"),
    facets |-> List("Facet"), langs |-> Texts, reply |-> Pointer("ReplyRef"), tags |-> Texts])
EmbedUnmarshal == Lenient([images |-> Pointer("Images"), video |-> Pointer("Video"),
    external |-> Pointer("External"), record |-> Pointer("Record"), recordWithMedia |-> Pointer("RecordWithMedia")])
RecordWithMediaUnmarshal == Lenient([record |-> Pointer("Record"), media |-> Pointer("Media")])
MediaUnmarshal == Lenient([images |-> Pointer("Images"), video |-> Pointer("Video"), external |-> Pointer("External")])
FacetUnmarshal == Lenient([index |-> Pointer("ByteSlice"), features |-> List("Feature")])
ByteSliceUnmarshal == Lenient([byteEnd |-> Signed, byteStart |-> Signed])
AspectRatioUnmarshal == Lenient([width |-> Signed, height |-> Signed])
ImagesUnmarshal == Lenient([images |-> List("Image")])
ImageUnmarshal == Lenient([alt |-> Text, image |-> Pointer("LexBlob"), aspectRatio |-> Pointer("AspectRatio")])
VideoUnmarshal == Lenient([alt |-> Text, video |-> Pointer("LexBlob"), aspectRatio |-> Pointer("AspectRatio")])
ExternalUnmarshal == Lenient([external |-> Pointer("Card")])
CardUnmarshal == Lenient([uri |-> Text, title |-> Text, description |-> Text, thumb |-> Pointer("LexBlob")])
RecordUnmarshal == Lenient([record |-> Pointer("RepoStrongRef")])
LinkUnmarshal == Lenient([uri |-> Text])
MentionUnmarshal == Lenient([did |-> Text])
TagUnmarshal == Lenient([tag |-> Text])

Marshals ==
    [RepoStrongRef |-> RepoStrongRefMarshal, LexBlob |-> LexBlobMarshal, FeedLike |-> FeedLikeMarshal,
     FeedRepost |-> FeedRepostMarshal, GraphFollow |-> GraphFollowMarshal, GraphBlock |-> GraphBlockMarshal,
     ActorProfile |-> ActorProfileMarshal, ReplyRef |-> ReplyRefMarshal, FeedPost |-> FeedPostMarshal,
     Embed |-> EmbedMarshal, RecordWithMedia |-> RecordWithMediaMarshal, Media |-> MediaMarshal,
     Facet |-> FacetMarshal, ByteSlice |-> ByteSliceMarshal, AspectRatio |-> AspectRatioMarshal,
     Images |-> ImagesMarshal, Image |-> ImageMarshal, Video |-> VideoMarshal, External |-> ExternalMarshal,
     Card |-> CardMarshal, Record |-> RecordMarshal, Link |-> LinkMarshal, Mention |-> MentionMarshal,
     Tag |-> TagMarshal]
Unmarshals ==
    [RepoStrongRef |-> RepoStrongRefUnmarshal, LexBlob |-> LexBlobUnmarshal, FeedLike |-> FeedLikeUnmarshal,
     FeedRepost |-> FeedRepostUnmarshal, GraphFollow |-> GraphFollowUnmarshal, GraphBlock |-> GraphBlockUnmarshal,
     ActorProfile |-> ActorProfileUnmarshal, ReplyRef |-> ReplyRefUnmarshal, FeedPost |-> FeedPostUnmarshal,
     Embed |-> EmbedUnmarshal, RecordWithMedia |-> RecordWithMediaUnmarshal, Media |-> MediaUnmarshal,
     Facet |-> FacetUnmarshal, ByteSlice |-> ByteSliceUnmarshal, AspectRatio |-> AspectRatioUnmarshal,
     Images |-> ImagesUnmarshal, Image |-> ImageUnmarshal, Video |-> VideoUnmarshal, External |-> ExternalUnmarshal,
     Card |-> CardUnmarshal, Record |-> RecordUnmarshal, Link |-> LinkUnmarshal, Mention |-> MentionUnmarshal,
     Tag |-> TagUnmarshal]

-----------------------------------------------------------------------------
(* Running the tables                                                        *)

Header(major, n) == [major |-> major, n |-> n, text |-> ""]
String(t) == [major |-> "text", n |-> 0, text |-> t]
Null == Header("null", 0)

\* An integer is written as an unsigned or a negative number; the size of a blob is
\* converted to uint64 whatever its sign.
Number(n) == IF n >= 0 THEN Header("unsigned", n) ELSE Header("negative", -n - 1)
ToUint(n) == n % 2^Bits
ToInt(n) == IF n >= 2^(Bits - 1) THEN n - 2^Bits ELSE n

FieldCount(t, v) == Marshals[t].base + Cardinality({i \in DOMAIN Marshals[t].fields :
    Marshals[t].fields[i].optional /\ Marshals[t].fields[i].name \in DOMAIN v})

\* A feature is one of three; the first that is set is written in its place.
FeatureMarshal(v) ==
    IF "mention" \in DOMAIN v THEN << "Mention", v["mention"] >>
    ELSE IF "link" \in DOMAIN v THEN << "Link", v["link"] >> ELSE << "Tag", v["tag"] >>

RECURSIVE Encode(_, _)
EncodeField(f, v) ==
    LET x == v[f.name] IN
    << String(f.name) >> \o
    CASE f.kind.is = "const" -> << String("type") >>
      [] f.name \notin DOMAIN v -> << Null >>
      [] f.kind.is = "text" -> << String(x) >>
      [] f.kind.is = "uint" -> << Header("unsigned", ToUint(x)) >>
      [] f.kind.is = "int" -> << Number(x) >>
      [] f.kind.is = "texts" -> << Header("array", Len(x)) >> \o [i \in DOMAIN x |-> String(x[i])]
      [] f.kind.is = "list" -> << Header("array", Len(x)) >>
                               \o FlattenSeq([i \in DOMAIN x |-> Encode(f.kind.of, x[i])])
      [] OTHER -> Encode(f.kind.of, x)

Encode(t, v) ==
    IF t = "Feature" THEN Encode(FeatureMarshal(v)[1], FeatureMarshal(v)[2])
    ELSE LET written == SelectSeq(Marshals[t].fields, LAMBDA f : f.optional => f.name \in DOMAIN v)
         IN << Header("map", FieldCount(t, v)) >>
            \o FlattenSeq([i \in DOMAIN written |-> EncodeField(written[i], v)])

\* What a read returns: the value, and what is left of the tokens; Fail is an error.
Got(val, rest) == [ok |-> TRUE, val |-> val, rest |-> rest]
Fail == [ok |-> FALSE, val |-> <<>>, rest |-> <<>>]

\* ScanForLinks reads over one value.
RECURSIVE Skip(_, _)
Skip(n, s) ==
    IF n = 0 THEN Got(<<>>, s)
    ELSE IF s = <<>> THEN Fail
    ELSE Skip(n - 1 + CASE Head(s).major = "map" -> 2 * Head(s).n
                        [] Head(s).major = "array" -> Head(s).n
                        [] OTHER -> 0, Tail(s))

\* The names that do not fit a buffer of eight bytes.
Long == {"createdAt", "displayName", "description", "recordWithMedia", "aspectRatio", "byteStart"}

ReadNumber(s) ==
    CASE s = <<>> -> Fail
      [] Head(s).major = "unsigned" -> Got(ToInt(Head(s).n), Tail(s))
      [] Head(s).major = "negative" -> Got(-1 - Head(s).n, Tail(s))
      [] OTHER -> Fail
ReadText(s) == IF s # <<>> /\ Head(s).major = "text" THEN Got(Head(s).text, Tail(s)) ELSE Fail

\* UnmarshalCBOR of a feature reads the header and, when it is a map, nothing else.
FeatureUnmarshal(s) == IF s # <<>> /\ Head(s).major = "map" THEN Got(<<>>, Tail(s)) ELSE Fail

RECURSIVE Decode(_, _), DecodePairs(_, _, _, _), DecodeList(_, _, _, _)
DecodeList(kind, n, acc, s) ==
    IF n = 0 THEN Got(acc, s)
    ELSE LET x == IF kind.is = "texts" THEN ReadText(s) ELSE Decode(kind.of, s)
         IN IF x.ok THEN DecodeList(kind, n - 1, Append(acc, x.val), x.rest) ELSE Fail

DecodeField(kind, s) ==
    CASE s = <<>> -> Fail
      [] kind.is = "text" -> ReadText(s)
      [] kind.is = "int" -> ReadNumber(s)
      [] kind.is \in {"texts", "list"} ->
             IF Head(s).major = "array" THEN DecodeList(kind, Head(s).n, <<>>, Tail(s)) ELSE Fail
      [] OTHER -> Decode(kind.of, s)

DecodePairs(t, n, v, s) ==
    LET name == ReadText(s)
        known == Unmarshals[t].cases
        skipped == Skip(1, name.rest)
        x == DecodeField(known[name.val], name.rest)
    IN CASE n = 0 -> Got(v, s)
         [] n > 0 /\ ~name.ok -> Fail
         [] OTHER ->
            IF ~Unmarshals[t].strict /\ (name.val \in Long \/ name.val \notin DOMAIN known)
            THEN IF skipped.ok THEN DecodePairs(t, n - 1, v, skipped.rest) ELSE Fail
            ELSE IF name.val \notin DOMAIN known THEN Fail
            ELSE IF known[name.val].is = "pointer" /\ name.rest # <<>> /\ Head(name.rest) = Null
            THEN DecodePairs(t, n - 1, v, Tail(name.rest))
            ELSE IF ~x.ok THEN Fail
            ELSE IF Head(name.rest) = Header("array", 0) THEN DecodePairs(t, n - 1, v, x.rest)
            ELSE DecodePairs(t, n - 1, (name.val :> x.val) @@ v, x.rest)

Decode(t, s) ==
    IF t = "Feature" THEN FeatureUnmarshal(s)
    ELSE IF s # <<>> /\ Head(s).major = "map" THEN DecodePairs(t, Head(s).n, <<>>, Tail(s)) ELSE Fail

-----------------------------------------------------------------------------
(* The records that are written and read                                     *)

\* At most one field of a union is set, and at most two optional ones of another type.
Unions == {"Embed", "Media"}
RECURSIVE Samples(_)
FieldSamples(kind) ==
    CASE kind.is = "text" -> {"x"}
      [] kind.is = "texts" -> {<< "x" >>, << "x", "y" >>}
      [] kind.is \in {"int", "uint"} -> {-1, 2}
      [] kind.is = "list" -> {<<>>} \cup {<< x >> : x \in Samples(kind.of)}
      [] OTHER -> Samples(kind.of)
Samples(t) ==
    IF t = "Feature" THEN {"mention" :> [did |-> "x"], "link" :> [uri |-> "x"], "tag" :> [tag |-> "x"]}
    ELSE LET fields == {Marshals[t].fields[i] : i \in {j \in DOMAIN Marshals[t].fields :
                            Marshals[t].fields[j].kind.is # "const"}}
             named(f) == CHOOSE g \in fields : g.name = f
             must == {f.name : f \in {g \in fields : ~g.optional}}
             may == {f.name : f \in {g \in fields : g.optional}}
             chosen == {must \cup s : s \in {s \in SUBSET may :
                           Cardinality(s) <= IF t \in Unions THEN 1 ELSE 2}}
             extend(f, vs) == {(f :> x) @@ v : x \in FieldSamples(named(f).kind), v \in vs}
         IN UNION {FoldSet(extend, {<<>>}, s) : s \in chosen}

VARIABLES type, record, wire, back
vars == << type, record, wire, back >>

Start == [major |-> "none", n |-> 0, text |-> ""]
Trailer == String("what follows")

Init ==
    /\ type \in DOMAIN Marshals
    /\ record \in Samples(type)
    /\ wire = << Start >>
    /\ back = Fail

\* MarshalCBOR onto a stream on which something else follows.
MarshalCBOR ==
    /\ wire = << Start >>
    /\ wire' = Append(Encode(type, record), Trailer)
    /\ UNCHANGED << type, record, back >>

\* UnmarshalCBOR of what was written.
UnmarshalCBOR ==
    /\ wire # << Start >> /\ back = Fail
    /\ back' = Decode(type, wire)
    /\ UNCHANGED << type, record, wire >>

Next == MarshalCBOR \/ UnmarshalCBOR
Spec == Init /\ [][Next]_vars

-----------------------------------------------------------------------------
\* The types whose two halves do not agree: a count that is wrong, a body that is not
\* read, a "$type" that is refused.
Disagree == {"Video", "External", "Card", "Record", "Feature",
             "FeedLike", "FeedRepost", "GraphFollow", "GraphBlock"}

FieldKind(t, f) == Marshals[t].fields[CHOOSE i \in DOMAIN Marshals[t].fields : Marshals[t].fields[i].name = f].kind

\* No part of the record is of such a type.
RECURSIVE Agreeing(_, _)
Agreeing(t, v) ==
    /\ t \notin Disagree
    /\ \A f \in DOMAIN v :
           LET kind == FieldKind(t, f) IN
           /\ kind.is = "pointer" => Agreeing(kind.of, v[f])
           /\ kind.is = "list" => \A i \in DOMAIN v[f] : Agreeing(kind.of, v[f][i])

\* What a reader can know of a record: the fields whose names fit the buffer; an empty list is
\* the same as none.
RECURSIVE Readable(_, _)
Readable(t, v) ==
    [f \in {g \in DOMAIN v : /\ Unmarshals[t].strict \/ g \notin Long
                             /\ FieldKind(t, g).is = "list" => v[g] # <<>>} |->
        LET kind == FieldKind(t, f) IN
        CASE kind.is = "pointer" -> Readable(kind.of, v[f])
          [] kind.is = "list" -> [i \in DOMAIN v[f] |-> Readable(kind.of, v[f][i])]
          [] OTHER -> v[f]]

\* A record whose types agree is read back from what MarshalCBOR wrote, in every field
\* with a name that fits, a negative blob size included, and the reader stops where the
\* record ends: the count in every header is the number of pairs behind it.
RecordsReadBack ==
    wire # << Start >> /\ Agreeing(type, record) =>
        LET read == Decode(type, wire) IN
        read.ok /\ read.rest = << Trailer >> /\ read.val = Readable(type, record)

=============================================================================
