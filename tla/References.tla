----------------------------- MODULE References -----------------------------
(***************************************************************************)
(* The written forms of references and values (internal/ssb/refs, bfe,      *)
(* formats and message/bencode).  A reference is passed along in one form   *)
(* after another: the sigil form, an ssb: URI, or BFE bytes inside a        *)
(* BendyButt message.  A value is bencoded, read and bencoded again, which  *)
(* is what bendy.Message.Verify does to check a signature over bytes.       *)
(***************************************************************************)
EXTENDS Integers, Sequences, FiniteSets, SequencesExt

CONSTANTS Data,          \* [id, len]: keys and hashes, of 32 bytes or not
          Values,        \* content values that are bencoded
          MaxHops        \* bound: conversions

VARIABLES start, form, hops, value

vars == << start, form, hops, value >>

Kinds == {"feed", "message", "blob"}
FeedAlgos == {"ed25519", "bendybutt-v1", "gabbygrove-v1", "bamboo", "indexed-v1"}
MessageAlgos == {"sha256", "bendybutt-v1", "gabbygrove-v1", "bamboo", "indexed-v1"}
Default(kind) == IF kind = "feed" THEN "ed25519" ELSE "sha256"
Algos(kind) ==
    CASE kind = "feed" -> FeedAlgos [] kind = "message" -> MessageAlgos [] kind = "blob" -> {"sha256"}

Refused == [form |-> "refused"]

\* NewFeedRef, NewMessageRef, NewBlobRef: 32 bytes, and any algorithm.
NewRef(kind, algo, data) ==
    IF data.len # 32 THEN Refused ELSE [form |-> "ref", kind |-> kind, algo |-> algo, data |-> data]

-----------------------------------------------------------------------------
(* refs.go: @key.algo, %hash.algo, &hash.sha256                              *)

String(r) == [form |-> "sigil", kind |-> r.kind, suffix |-> r.algo, data |-> r.data]

\* ParseFeedRef and ParseMessageRef know a list of algorithms, and take a missing
\* one for the classic one; ParseBlobRef does not look at the suffix.
ParseRef(t) ==
    IF t.kind = "blob" THEN NewRef("blob", "sha256", t.data)
    ELSE IF t.suffix = "" THEN NewRef(t.kind, Default(t.kind), t.data)
    ELSE IF t.suffix \in Algos(t.kind) THEN NewRef(t.kind, t.suffix, t.data) ELSE Refused

-----------------------------------------------------------------------------
(* ssburi.go: ssb:feed/classic/key                                           *)

\* feedURIFormat and messageURIFormat; a reference of another format has no URI.
UriFormat(kind, algo) ==
    IF algo = Default(kind) THEN "classic" ELSE algo

UriString(r) ==
    IF r.algo \in Algos(r.kind)
    THEN [form |-> "uri", parts |-> << r.kind, UriFormat(r.kind, r.algo) >>, data |-> r.data]
    ELSE Refused

\* ParseSSBURI: parseFeedURI, parseMessageURI, parseBlobURI.
ParseSSBURI(t) ==
    LET kind == t.parts[1]
        algo == IF t.parts[2] = "classic" THEN Default(kind) ELSE t.parts[2] IN
    IF kind \in Kinds /\ algo \in Algos(kind) THEN NewRef(kind, algo, t.data) ELSE Refused

-----------------------------------------------------------------------------
(* bfe.go: two bytes, type and format, and the data                          *)

FeedFormatCodes == << "ed25519", "gabbygrove-v1", "bamboo", "bendybutt-v1", "buttwoo-v1", "indexed-v1" >>
MessageFormatCodes == << "sha256", "gabbygrove-v1", "cloaked", "bamboo", "bendybutt-v1", "buttwoo-v1",
                         "indexed-v1" >>
Codes(kind) ==
    CASE kind = "feed" -> FeedFormatCodes [] kind = "message" -> MessageFormatCodes
      [] kind = "blob" -> << "sha256" >>

\* A mutant: the codes of feeds are used for messages as well.
EncodeAsFeed(r) ==
    [form |-> "bfe", kind |-> r.kind,
     code |-> IF Contains(FeedFormatCodes, r.algo)
              THEN (CHOOSE i \in DOMAIN FeedFormatCodes : FeedFormatCodes[i] = r.algo) - 1 ELSE 0,
     data |-> r.data]

\* EncodeFeed, EncodeMessage, EncodeBlob: an algorithm without a code gets 0.
EncodeBFE(r) ==
    [form |-> "bfe", kind |-> r.kind,
     code |-> IF Contains(Codes(r.kind), r.algo)
              THEN (CHOOSE i \in DOMAIN Codes(r.kind) : Codes(r.kind)[i] = r.algo) - 1 ELSE 0,
     data |-> r.data]

\* DecodeFeed, DecodeMessage, DecodeBlob: at least 34 bytes, of which 32 are taken.
DecodeBFE(t) ==
    IF t.data.len < 32 \/ t.code + 1 \notin DOMAIN Codes(t.kind) THEN Refused
    ELSE NewRef(t.kind, Codes(t.kind)[t.code + 1], [t.data EXCEPT !.len = 32])

-----------------------------------------------------------------------------
(* bencode.go: a value is [t, ...], its encoding a sequence of tokens        *)

Nil == [t |-> "nil"]

\* sortedKeys
SortedKeys(dict) == SetToSortSeq(DOMAIN dict, LAMBDA a, b : a < b)

\* encodeValue: nil is the empty string; keys are written in order.
RECURSIVE EncodeValue(_)
EncodeValue(v) ==
    CASE v.t = "int" -> << << "i", v.v >> >>
      [] v.t \in {"str", "bytes"} -> << << "s", v.v >> >>
      [] v.t = "nil" -> << << "s", 0 >> >>
      [] v.t = "list" -> << << "l" >> >> \o FlattenSeq([i \in DOMAIN v.v |-> EncodeValue(v.v[i])])
                         \o << << "e" >> >>
      [] v.t = "dict" ->
            LET ks == SortedKeys(v.v) IN
            << << "d" >> >> \o FlattenSeq([i \in DOMAIN ks |-> << << "s", ks[i] >> >> \o EncodeValue(v.v[ks[i]])])
            \o << << "e" >> >>

\* decodeValue, decodeList, decodeDict: what is read, and the tokens that are left.
RECURSIVE DecodeValue(_), DecodeList(_, _), DecodeDict(_, _)
DecodeValue(ts) ==
    CASE Head(ts)[1] = "i" -> [v |-> [t |-> "int", v |-> Head(ts)[2]], rest |-> Tail(ts)]
      [] Head(ts)[1] = "s" -> [v |-> [t |-> "str", v |-> Head(ts)[2]], rest |-> Tail(ts)]
      [] Head(ts)[1] = "l" -> DecodeList(Tail(ts), <<>>)
      [] Head(ts)[1] = "d" -> DecodeDict(Tail(ts), <<>>)

DecodeList(ts, read) ==
    IF Head(ts)[1] = "e" THEN [v |-> [t |-> "list", v |-> read], rest |-> Tail(ts)]
    ELSE LET d == DecodeValue(ts) IN DecodeList(d.rest, Append(read, d.v))

DecodeDict(ts, read) ==
    IF Head(ts)[1] = "e" THEN [v |-> [t |-> "dict", v |-> read], rest |-> Tail(ts)]
    ELSE LET k == Head(ts)[2]
             d == DecodeValue(Tail(ts)) IN
         DecodeDict(d.rest, [x \in DOMAIN read \cup {k} |-> IF x = k THEN d.v ELSE read[x]])

\* convertStringsToBytes
RECURSIVE ConvertStringsToBytes(_)
ConvertStringsToBytes(v) ==
    CASE v.t = "str" -> [v EXCEPT !.t = "bytes"]
      [] v.t \in {"list", "dict"} -> [v EXCEPT !.v = [i \in DOMAIN v.v |-> ConvertStringsToBytes(v.v[i])]]
      [] OTHER -> v

-----------------------------------------------------------------------------
(* A reference goes from hand to hand                                        *)

Starts ==
    [form : {"sigil"}, kind : Kinds, suffix : FeedAlgos \cup MessageAlgos \cup {"", "buttwoo-v1"}, data : Data]
    \cup [form : {"uri"}, parts : Kinds \X (FeedAlgos \cup MessageAlgos \cup {"classic"}), data : Data]
    \cup [form : {"bfe"}, kind : Kinds, code : 0..7, data : Data]

Parse(t) ==
    CASE t.form = "sigil" -> ParseRef(t)
      [] t.form = "uri" -> ParseSSBURI(t)
      [] t.form = "bfe" -> DecodeBFE(t)
      [] t.form = "refused" -> Refused

\* A reference is passed on, or a value is encoded.
Init ==
    /\ \/ start \in Starts /\ value = Nil
       \/ start = Refused /\ value \in Values
    /\ form = start /\ hops = 0

\* Whoever can read the form writes the reference in another one.
PassOn ==
    /\ hops < MaxHops /\ Parse(form) # Refused
    /\ form' \in {String(Parse(form)), UriString(Parse(form)), EncodeBFE(Parse(form))}
    /\ hops' = hops + 1
    /\ UNCHANGED << start, value >>

Next == PassOn

Spec == Init /\ [][Next]_vars

-----------------------------------------------------------------------------
\* A reference that somebody can still read is the one that was passed on:
\* neither its kind nor its format nor its data changes on the way; and it stays
\* readable, unless its format is one that only BFE has a code for.
ReferencesKept ==
    LET first == Parse(start) IN
    IF Parse(form) # Refused THEN Parse(form) = first
    ELSE first # Refused => first.algo \notin Algos(first.kind)

\* bendy.Message.Verify: what a receiver encodes again is, byte for byte, what the
\* author encoded, and the whole of it was read.
BencodeStable ==
    LET sent == EncodeValue(value)
        read == DecodeValue(sent) IN
    read.rest = <<>> /\ EncodeValue(ConvertStringsToBytes(read.v)) = sent
=============================================================================
