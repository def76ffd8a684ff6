----------------------------- MODULE ReverseText -----------------------------
(***************************************************************************)
(* What the reverse bridge makes of the text and the mentions of a post     *)
(* (enrichReversePostRecord in internal/bridge/reverse_sync.go): blobs that *)
(* are mentioned become images, the markdown that shows them is cut out of  *)
(* the text, and the other mentions become facets over bytes of what is     *)
(* left.                                                                    *)
(*                                                                          *)
(* A text is a sequence of letters, blanks and newlines; a link, a URL and  *)
(* the markdown of a link are one symbol, since no step ends inside one.    *)
(* Of media types the case is dropped.                                      *)
(***************************************************************************)
EXTENDS Integers, Sequences, FiniteSets, SequencesExt

CONSTANTS
    Texts,        \* texts of posts, none with markdown right behind a URL
    Mentions,     \* sequences of mentions: [link, name, mime]
    Blobs, Feeds, Tags, URLs,    \* the links there are
    Shows,        \* the markdown there is, and the blob that it shows
    DIDs,         \* the feeds that belong to an ATProto account
    MaxImages     \* maxReverseImageEmbeds (4)

Images == {"png", "jpg"}
Space == " "
Newline == "/n"
Dot == "."

VARIABLES
    text, mentions,      \* of the message, and the text as it is by now
    pc, i,               \* the loop, and the mention it is at
    images,              \* the embedded blobs: [blob, mime]
    facets               \* [start, end, feature, of]: bytes start+1..end, and the mention

vars == << text, mentions, pc, i, images, facets >>

Init ==
    /\ text \in Texts /\ mentions \in Mentions
    /\ pc = "images" /\ i = 1 /\ images = <<>> /\ facets = <<>>

M == mentions[i]
Embedded == {images[k].blob : k \in DOMAIN images}
End(at) == pc' = at /\ UNCHANGED << text, mentions, i, images, facets >>

-----------------------------------------------------------------------------
(* buildReverseImageEmbeds                                                   *)

SkipOther ==
    /\ pc = "images" /\ i <= Len(mentions) /\ M.link \notin Blobs
    /\ i' = i + 1
    /\ UNCHANGED << text, mentions, pc, images, facets >>

\* A blob that has its image: only its type may disagree.
SeenAgain ==
    /\ pc = "images" /\ i <= Len(mentions) /\ M.link \in Embedded
    /\ \E k \in DOMAIN images :
          /\ images[k].blob = M.link
          /\ IF M.mime \notin {"", images[k].mime} THEN End("deferred")
             ELSE i' = i + 1 /\ UNCHANGED << text, mentions, pc, images, facets >>

\* The type is the one of the mention, or of the table, and both when both are there.
MimeType(mime, meta) == IF mime = "" THEN meta ELSE mime
Mismatch(mime, meta) == mime # "" /\ meta # "" /\ mime # meta

\* meta is the type in the blobs table, got whether the bytes are here or a peer sends
\* them and the upload succeeds, and answer the type that the PDS gives the upload.
EmbedImage(meta, got, answer) ==
    LET mime == MimeType(M.mime, meta) IN
    /\ pc = "images" /\ i <= Len(mentions) /\ M.link \in Blobs \ Embedded
    /\ IF \/ Mismatch(M.mime, meta) \/ mime \notin Images
          \/ Len(images) >= MaxImages
          \/ ~got
          \/ Mismatch(mime, answer)
       THEN End("deferred")
       ELSE /\ images' = Append(images, [blob |-> M.link, mime |-> mime])
            /\ i' = i + 1
            /\ UNCHANGED << text, mentions, pc, facets >>

-----------------------------------------------------------------------------
(* stripEmbeddedBlobMarkdown                                                 *)

\* normalizeReversePostText: of blanks one is left between two words of a line, and of
\* newlines two between two lines.
Blank(s, k) == k \notin DOMAIN s \/ s[k] \in {Space, Newline}
Kept(s, k) ==
    CASE s[k] = Space -> ~Blank(s, k + 1) /\ \E j \in 1..k : ~Blank(s, j) /\ \A l \in j..k : s[l] # Newline
      [] s[k] = Newline -> /\ \E j \in 1..k : ~Blank(s, j)
                           /\ \E j \in k..Len(s) : ~Blank(s, j)
                           /\ Cardinality({j \in 1..k : s[j] = Newline /\ \A l \in j..k : Blank(s, l)}) <= 2
      [] OTHER -> TRUE
NormalizeReversePostText(s) ==
    LET places == SetToSortSeq({k \in DOMAIN s : Kept(s, k)}, <) IN [n \in DOMAIN places |-> s[places[n]]]

\* Only the markdown of embedded blobs goes, and only then is the text tidied.
StripEmbeddedBlobMarkdown(s) ==
    IF Embedded = {} \/ Range(s) \cap DOMAIN Shows = {} THEN s
    ELSE NormalizeReversePostText(SelectSeq(s, LAMBDA x : x \in DOMAIN Shows => Shows[x] \notin Embedded))

Strip ==
    /\ pc = "images" /\ i > Len(mentions)
    /\ text' = StripEmbeddedBlobMarkdown(text)
    /\ pc' = "facets" /\ i' = 1
    /\ UNCHANGED << mentions, images, facets >>

-----------------------------------------------------------------------------
(* buildReverseFacets                                                        *)

RangeOverlaps(start, end) == end <= start \/ \E f \in Range(facets) : start < f.end /\ end > f.start

\* findFirstNonOverlappingToken: the first free place where the token starts.
Places(token) == {n \in 0..Len(text) - Len(token) :
                     /\ token # <<>> /\ SubSeq(text, n + 1, n + Len(token)) = token
                     /\ ~RangeOverlaps(n, n + Len(token))}

\* A feed without an account, an empty link or tag and a token that is nowhere are
\* left out.  The token is the name, or else the link.
Token(m) == IF m.name # <<>> THEN m.name ELSE << m.link >>
Feature(link) == IF link \in Feeds THEN "mention" ELSE IF link \in Tags THEN "tag" ELSE "link"
AppendFacet ==
    /\ pc = "facets" /\ i <= Len(mentions)
    /\ i' = i + 1
    /\ facets' = IF \/ M.link \in Embedded \/ M.link \in Feeds \ DIDs
                    \/ M.link \notin Feeds \cup Tags \cup URLs
                    \/ Places(Token(M)) = {}
                 THEN facets
                 ELSE LET n == CHOOSE n \in Places(Token(M)) : \A k \in Places(Token(M)) : n <= k IN
                      Append(facets, [start |-> n, end |-> n + Len(Token(M)),
                                      feature |-> Feature(M.link), of |-> i])
    /\ UNCHANGED << text, mentions, pc, images >>

\* A bare URL runs to the next blank; punctuation at its end is cut off.
URLEnd(n) == CHOOSE e \in n..Len(text) : Blank(text, e + 1) /\ \A k \in n..e : ~Blank(text, k)
Trimmed(n) == CHOOSE e \in n..URLEnd(n) : text[e] # Dot /\ \A k \in e + 1..URLEnd(n) : text[k] = Dot
Matches == {n \in DOMAIN text : text[n] \in URLs /\ ~\E k \in 1..n - 1 : text[k] \in URLs /\ URLEnd(k) >= n}
BareURLs ==
    /\ pc = "facets" /\ i > Len(mentions)
    /\ LET free == SetToSortSeq({n \in Matches : ~RangeOverlaps(n - 1, Trimmed(n))}, <) IN
       facets' = facets \o [k \in DOMAIN free |->
           [start |-> free[k] - 1, end |-> Trimmed(free[k]),
            feature |-> "link", of |-> 0]]
    /\ pc' = "done"
    /\ UNCHANGED << text, mentions, i, images >>

Next ==
    \/ SkipOther \/ SeenAgain \/ Strip \/ AppendFacet \/ BareURLs
    \/ \E meta, answer \in {"", "png", "jpg", "pdf"}, got \in BOOLEAN : EmbedImage(meta, got, answer)

Spec == Init /\ [][Next]_vars

\* The facets of a post lie in its final text, over the token of their mention or over a
\* bare URL, and share no byte; every blob that was mentioned is an image, one each and
\* no more than the PDS takes, and no markdown that shows it is left in the text.
FacetsFit ==
    pc = "done" =>
        /\ \A f \in Range(facets) :
              /\ 0 <= f.start /\ f.start < f.end /\ f.end <= Len(text)
              /\ LET covered == SubSeq(text, f.start + 1, f.end) IN
                 IF f.of = 0 THEN covered[1] \in URLs /\ f.feature = "link"
                 ELSE covered = Token(mentions[f.of]) /\ f.feature = Feature(mentions[f.of].link)
        /\ \A j, k \in DOMAIN facets : j < k => facets[j].end <= facets[k].start \/ facets[k].end <= facets[j].start
        /\ Embedded = {m.link : m \in Range(mentions)} \cap Blobs
        /\ Len(images) = Cardinality(Embedded) /\ Len(images) <= MaxImages
        /\ \A x \in Range(text) \cap DOMAIN Shows : Shows[x] \notin Embedded
==============================================================================
