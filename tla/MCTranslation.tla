---------------------------- MODULE MCTranslation ----------------------------
(***************************************************************************)
(* From one form to another.  A behaviour is one of a record that is        *)
(* encoded and decoded, of a repository whose blocks are read, of a record  *)
(* that becomes an SSB message, of an SSB message whose text becomes a      *)
(* record, of a reference or a value that is passed on in the forms it has, *)
(* or of messages that are signed, stored and passed on between two nodes.  *)
(***************************************************************************)
EXTENDS Integers, Sequences, FiniteSets, TLC

-----------------------------------------------------------------------------
(* Records, for Translation                                                  *)

Blank == [type |-> "post", text |-> << "a", "b", "c" >>, facets |-> <<>>, tags |-> <<>>, embed |-> <<>>,
          refs |-> <<>>, quote |-> "", mentioned |-> {}, shown |-> {}]
Facet(start, end, features) == [start |-> start, end |-> end, features |-> features]
Linked == << "uri" :> "u" >>

\* Two facets anywhere in a text of three bytes, or out of it.
Ranges == {[Blank EXCEPT !.facets = << Facet(s, e, Linked), Facet(t, f, Linked) >>] :
              s, t \in -1..3, e, f \in 0..4}

\* What a facet may hold.
Features == {"uri" :> "", "uri" :> "itself", "link" :> "u", "did" :> "", "did" :> "d1", "mention" :> "d1",
             "tag" :> "", "tag" :> "t"}
Faceted == {[Blank EXCEPT !.facets = << [features |-> Linked], Facet(0, 2, << f, g >>) >>, !.tags = << "", "t" >>,
                          !.mentioned = IF "d1" \in {f[k] : k \in DOMAIN f} \cup {g[k] : k \in DOMAIN g}
                                        THEN {"d1"} ELSE {}] : f, g \in Features}

\* The embeds, in the form of the lexicon and in the form of the types, with what they quote and show.
Quoting == "record" :> ("uri" :> "p1")
Card == "uri" :> "u" @@ "thumb" :> "b1"
Pictures == "images" :> << "b1", "none", "b2", "b1" >>
Embeds == {<< Pictures, "", {"b1", "b2"} >>,
           << "external" :> Card, "", {"b1"} >>, << "external" :> ("external" :> Card), "", {"b1"} >>,
           << Quoting, "p1", {} >>,
           << "video" :> ("ref" :> "b1"), "", {} >>, << "video" :> ("video" :> "b1"), "", {"b1"} >>,
           << ("record" :> Quoting) @@ ("media" :> Pictures), "p1", {} >>,
           << "recordWithMedia" :> (("record" :> Quoting) @@ ("media" :> Pictures)), "p1", {"b1", "b2"} >>}
Replies == {<<>>, "root" :> "p1" @@ "parent" :> "p2", "root" :> "p1" @@ "parent" :> "p1",
            "root" :> "" @@ "parent" :> "p2"}
Embedding == {[Blank EXCEPT !.embed = e[1], !.quote = e[2], !.shown = e[3], !.refs = r,
                            !.facets = << Facet(0, 1, << "did" :> "d1" >>) >>, !.mentioned = {"d1"}] :
                 e \in Embeds, r \in Replies}

Other(type, refs) == [Blank EXCEPT !.type = type, !.refs = refs]
Others == {Other("like", "subject" :> "p1"), Other("repost", "repost" :> "p1"), Other("follow", "contact" :> "d1"),
           Other("block", "contact" :> "d1"), Other("list", <<>>), Other("listitem", "list" :> "p1" @@ "contact" :> "d1"),
           Other("threadgate", "subject" :> "p1"),
           [Other("profile", "about" :> "d1") EXCEPT !.embed = "avatar" :> "b1" @@ "banner" :> "b2", !.shown = {"b1", "b2"}]}

MCRecords == Ranges \cup Faceted \cup Embedding \cup Others

-----------------------------------------------------------------------------
(* Texts, for ReverseText: letters, white space, a full stop, a URL, a feed  *)
(* and the markdown of an image                                              *)

Words(symbols, lengths) == UNION {[1..n -> symbols] : n \in lengths}
MCTexts == Words({"a", "b", " ", "/n", "m1"}, 0..4) \cup Words({"a", "b", " ", ".", "u", "f1"}, {4})
Mention(link, name, mime) == [link |-> link, name |-> name, mime |-> mime]
Named == << Mention("f1", << "a", "b" >>, ""), Mention("t1", << "b", "a" >>, ""), Mention("u", <<>>, "") >>
Blob(b, mime) == Mention(b, <<>>, mime)
MCMentions == {shown \o Named : shown \in {<< Blob("b1", "pdf") >>, << Blob("b1", "png"), Blob("b1", "") >>,
                                           << Blob("b1", "png"), Blob("b1", "jpg") >>,
                                           << Blob("b1", "png"), Blob("b2", ""), Blob("b3", "png") >>}}

-----------------------------------------------------------------------------
(* Keys and hashes of 32 bytes, and some that are not, and values, for       *)
(* References                                                                *)

MCData == [id : {1}, len : 31..33]
Flat == [t : {"int"}, v : {-1, 3}] \cup [t : {"str", "bytes"}, v : {0, 5}] \cup {[t |-> "nil"]}
Lists == [t : {"list"}, v : {<<>>} \cup (Flat \X Flat)]
MCValues == Flat \cup Lists \cup [t : {"dict"}, v : {<<>>} \cup [{2, 1} -> Flat] \cup [{7} -> Lists]]

-----------------------------------------------------------------------------
(* Contents, for SignedMessages                                              *)

MCContents == {[id |-> 1, sorted |-> TRUE, angle |-> TRUE, hollow |-> TRUE],
               [id |-> 2, sorted |-> FALSE, angle |-> FALSE, hollow |-> FALSE]}
-----------------------------------------------------------------------------
(* Keys and contents, for RepoTree                                           *)

MCPaths == {<< 1, 0, 1 >>, << 2, 0, 1 >>, << 2, 0, 2 >>, << 3 >>}
MCBlocks == [content : {1, 2}]

-----------------------------------------------------------------------------
(* The parts                                                                 *)

CONSTANTS Bits, Posts, MaxMappings, MaxImages, MaxHops, MaxMessages, None

VARIABLES
    part,
    type, record, wire, back,
    post, deleted, known, msg, at, slot, blobs, lost, before, mappings,
    text, mentions, pc, i, images, facets,
    start, form, hops, value,
    signed, logs, received,
    layer, repo, event, index, outcome

Codec == INSTANCE RecordCodec
Mapped == INSTANCE Translation WITH record <- post, Records <- MCRecords, DIDs <- {"d1"}
Text == INSTANCE ReverseText
    WITH Texts <- MCTexts, Mentions <- MCMentions, Blobs <- {"b1", "b2", "b3"}, Feeds <- {"f1", "f2"},
         Tags <- {"t1"}, URLs <- {"u"}, Shows <- [m1 |-> "b1"], DIDs <- {"f1"}
Refs == INSTANCE References WITH Data <- MCData, Values <- MCValues
Messages == INSTANCE SignedMessages
    WITH Nodes <- {"b", "c"}, Own <- [b |-> "own", c |-> "other"], Alien <- {"alien"}, Bendy <- {"bendy"},
         Contents <- MCContents

Tree == INSTANCE RepoTree
    WITH Paths <- MCPaths, Contents <- MCBlocks, First <- [content |-> 1], MaxLayer <- 1

codecVars == << type, record, wire, back >>
mappedVars == << post, deleted, known, msg, at, slot, blobs, lost, before, mappings >>
textVars == << text, mentions, pc, i, images, facets >>
refVars == << start, form, hops, value >>
messageVars == << signed, logs, received >>
treeVars == << layer, repo, event, index, outcome >>

\* The variables of the parts that are not chosen have no value.
NoCodec == type = None /\ record = None /\ wire = None /\ back = None
NoMapped ==
    /\ post = None /\ deleted = None /\ known = None /\ msg = None /\ at = None
    /\ slot = None /\ blobs = None /\ lost = None /\ before = None /\ mappings = None
NoText == text = None /\ mentions = None /\ pc = None /\ i = None /\ images = None /\ facets = None
NoRef == start = None /\ form = None /\ hops = None /\ value = None
NoMessages == signed = None /\ logs = None /\ received = None
NoTree == layer = None /\ repo = None /\ event = None /\ index = None /\ outcome = None
Parked == part = "none" /\ NoCodec /\ NoMapped /\ NoText /\ NoRef /\ NoMessages /\ NoTree

Init ==
    \/ part = "codec" /\ Codec!Init /\ NoMapped /\ NoText /\ NoRef /\ NoMessages /\ NoTree
    \/ part = "mapper" /\ Mapped!Init /\ NoCodec /\ NoText /\ NoRef /\ NoMessages /\ NoTree
    \/ part = "text" /\ Text!Init /\ NoCodec /\ NoMapped /\ NoRef /\ NoMessages /\ NoTree
    \/ part = "refs" /\ Refs!Init /\ NoCodec /\ NoMapped /\ NoText /\ NoMessages /\ NoTree
    \/ part = "messages" /\ Messages!Init /\ NoCodec /\ NoMapped /\ NoText /\ NoRef /\ NoTree
    \/ part = "tree" /\ Tree!Init /\ NoCodec /\ NoMapped /\ NoText /\ NoRef /\ NoMessages

Next ==
    /\ UNCHANGED part
    /\ \/ part = "codec" /\ Codec!Next /\ UNCHANGED << mappedVars, textVars, refVars, messageVars, treeVars >>
       \/ part = "mapper" /\ Mapped!Next /\ UNCHANGED << codecVars, textVars, refVars, messageVars, treeVars >>
       \/ part = "text" /\ Text!Next /\ UNCHANGED << codecVars, mappedVars, refVars, messageVars, treeVars >>
       \/ part = "refs" /\ Refs!Next /\ UNCHANGED << codecVars, mappedVars, textVars, messageVars, treeVars >>
       \/ part = "messages" /\ Messages!Next /\ UNCHANGED << codecVars, mappedVars, textVars, refVars, treeVars >>
       \/ part = "tree" /\ Tree!Next /\ UNCHANGED << codecVars, mappedVars, textVars, refVars, messageVars >>

Spec == Init /\ [][Next]_<< part, codecVars, mappedVars, textVars, refVars, messageVars, treeVars >>

\* The properties of the parts, stated in their modules: what is written in one form is
\* read back as it was,
WrittenIsRead ==
    /\ part = "codec" => Codec!RecordsReadBack
    /\ part = "tree" => Tree!ExportsRead /\ Tree!WrittenFilesRead /\ Tree!CommitsRead
    /\ part = "refs" => Refs!ReferencesKept /\ Refs!BencodeStable
\* a translation keeps text, links, images and references,
TranslationKeeps ==
    /\ part = "mapper" => Mapped!TextKept /\ Mapped!NothingDropped
    /\ part = "text" => Text!FacetsFit
\* and a message is the one its author has signed, wherever it is stored.
MessagesIntact ==
    part = "messages" => Messages!ReceivedIsAuthentic /\ Messages!BendyIsWhole /\ Messages!OwnFeedsExact
\* What is served as the raw message of an author has the bytes that the author signed.
ClassicRawIsExact == part = "messages" => Messages!ClassicRawIsExact
\* Every record of a commit can be read from the commit's own blocks.
CommitsSuffice == part = "tree" => Tree!CommitsSuffice
=============================================================================
