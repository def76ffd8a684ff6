--------------------------- MODULE SignedMessages ---------------------------
(***************************************************************************)
(* A message from its author to the stores that hold it (internal/ssb:      *)
(* message/legacy, message/bendy, feedlog, publisher, sbot, muxrpc/handlers *)
(* and cmd/bridge-cli/room_member_ingest.go).                               *)
(*                                                                          *)
(* A classic message is a JSON text, and the signature is over the text:    *)
(* the order of the keys of the content, the escaping and the layout are    *)
(* what a conversion may change.  A BendyButt message is a bencoded tree    *)
(* and the signature is over the tree encoded again.  Hashes and signatures *)
(* are ideal: a key is what was hashed, a signature names its text.         *)
(***************************************************************************)
EXTENDS Integers, Sequences, FiniteSets

CONSTANTS
    Nodes,          \* nodes that run this program
    Own,            \* Own[n]: the feed that n publishes
    Alien, Bendy,   \* feeds of other programs: classic, and BendyButt
    Contents,       \* [id, sorted, angle, hollow]: the author's keys are in order, a
                    \* string holds one of < > &, an object is empty
    None,           \* an empty string, a nil slice or a null
    MaxMessages     \* bound: messages that are written

AllFeeds == {Own[n] : n \in Nodes} \cup Alien \cup Bendy

VARIABLES
    signed,      \* signed[f]: what the author of f has signed, in order
    logs,        \* logs[n][f]: the rows of the messages table
    received     \* received[n]: the rows of receive_log

vars == << signed, logs, received >>

-----------------------------------------------------------------------------
(* JSON texts of a content: [content, order, escaped, pretty, gap]           *)

\* order is "author" or "sorted"; escaped: < is written \u003c; gap: an empty
\* object takes two lines.
Text(c, order, escaped, pretty, gap) ==
    [content |-> c, order |-> IF c.sorted THEN "sorted" ELSE order, escaped |-> escaped /\ c.angle,
     pretty |-> pretty, gap |-> gap /\ c.hollow]

\* JSON.stringify(content, null, 2), which every other program signs.
Stringify(c) == Text(c, "author", FALSE, TRUE, FALSE)

\* json.Unmarshal into interface{} and json.Marshal.
Remarshal(t) == Text(t.content, "sorted", TRUE, FALSE, FALSE)

\* formatJSON keeps the keys where they are and the strings as they are.
PrettyPrint(t) == Text(t.content, t.order, t.escaped, TRUE, TRUE)

\* json.Marshal of a json.RawMessage.
Compact(t) == Text(t.content, t.order, TRUE, FALSE, FALSE)

\* marshalLegacyContent
MarshalLegacyContent(t) == PrettyPrint(Remarshal(t))

-----------------------------------------------------------------------------
(* Classic messages: [form, author, seq, previous, text, sig]                *)

Signature(by, m) == [by |-> by, over |-> << m.author, m.seq, m.previous, m.text >>]

\* ExtractSignature: the bytes of the message without its signature.
Signable(m) == << m.author, m.seq, m.previous, m.text >>

\* Message.Sign; the previous of the first message is null.
Sign(f, s, previous, t) ==
    LET m == [form |-> "classic", author |-> f, seq |-> s, previous |-> previous, text |-> t] IN
    [form |-> "classic", author |-> f, seq |-> s, previous |-> previous, text |-> t,
     sig |-> Signature(f, m)]

\* marshalSignedMessageJSON: the message is printed again, with the content in its layout.
MarshalSignedMessageJSON(m) == [m EXCEPT !.text = PrettyPrint(@)]

\* SignedMessageRefFromJSON: the hash of the message printed again.
Key(m) == << "sha256", Signable(MarshalSignedMessageJSON(m)), m.sig >>

\* The key that the author gives its message.
AuthorKey(m) == << "sha256", Signable(m), m.sig >>

\* Signature.Verify over what ExtractSignature leaves.
SignatureValid(m) == m.sig = [by |-> m.author, over |-> Signable(m)]

\* VerifySignedMessageJSON, which the probes of a room use: over the message printed again.
VerifySignedMessageJSON(m) == SignatureValid(MarshalSignedMessageJSON(m))

\* SignedMessage.Verify: over the message built from its decoded content.
VerifyDecoded(m) == SignatureValid([m EXCEPT !.text = MarshalLegacyContent(@)])

-----------------------------------------------------------------------------
(* BendyButt messages: [author, seq, previous, content, contentSig, sig].    *)
(* The previous of the first one is nil in BFE, here None.                   *)

\* bendy.Message.Validate
Validate(m) ==
    /\ m.seq >= 1 /\ m.author \in Bendy
    /\ IF m.seq = 1 THEN m.previous = None ELSE m.previous # None /\ m.previous[1] = "bendybutt-v1"

\* Encode of ToBencode: << header, signature >>; the content section is in the header.
Header(m) == << m.author, m.seq, m.previous, << m.content, m.contentSig >> >>
Encode(m) == [form |-> "bendy", list |-> << Header(m), m.sig >>]

\* bendy.Message.Key and ToRefsMessage
BendyKey(m) == << "bendybutt-v1", Header(m), m.sig >>

\* bendy.Message.Sign: the content under a prefix, and then the header with that
\* signature in it.
SignBendy(m) ==
    LET with == [m EXCEPT !.contentSig = [by |-> m.author, over |-> << "bendybutt", m.content >>]] IN
    [with EXCEPT !.sig = [by |-> m.author, over |-> Header(with)]]

\* CreateMessage signs what is valid.
CreateMessage(f, s, previous, c) ==
    LET m == [author |-> f, seq |-> s, previous |-> previous, content |-> c, contentSig |-> None, sig |-> None] IN
    IF Validate(m) THEN SignBendy(m) ELSE None

\* bendy.Message.Verify
VerifyBendy(m) ==
    /\ Validate(m)
    /\ m.contentSig = [by |-> m.author, over |-> << "bendybutt", m.content >>]
    /\ m.sig = [by |-> m.author, over |-> Header(m)]

\* FromStoredMessage: None unless the lists have the lengths they must have.
FromStoredMessage(raw) ==
    IF raw.form # "bendy" \/ Len(raw.list) # 2 \/ Len(raw.list[1]) # 4 \/ Len(raw.list[1][4]) # 2 THEN None
    ELSE LET header == raw.list[1] IN
         [author |-> header[1], seq |-> header[2], previous |-> header[3], content |-> header[4][1],
          contentSig |-> header[4][2], sig |-> raw.list[2]]

-----------------------------------------------------------------------------
(* Rows                                                                      *)

FormatOfFeed(f) == IF f \in Bendy THEN "bendybutt-v1" ELSE "ed25519"
MessageFromFeed(format) == IF format = "bendybutt-v1" THEN "bendybutt-v1" ELSE "sha256"

\* normalizeMetadata fills in what the caller of Append left out; only the
\* receive log takes the content for the raw value.
NormalizeMetadata(content, md, defaultRaw) ==
    LET ff == IF md.feedFormat = None THEN FormatOfFeed(md.author) ELSE md.feedFormat
        mf == IF md.messageFormat # None THEN md.messageFormat
              ELSE IF md.hash # None THEN md.hash[1] ELSE MessageFromFeed(ff) IN
    [md EXCEPT !.feedFormat = ff, !.messageFormat = mf,
               !.canonicalRef = IF @ = None THEN md.hash ELSE @,
               !.raw = IF defaultRaw /\ @ = None THEN content ELSE @]

\* Log.Get: the stored columns, over the metadata of value_json; the key is the
\* canonical reference, or else the hash.
Get(n, f, s) ==
    LET row == logs[n][f][s] IN
    [key |-> IF row.md.canonicalRef # None THEN row.md.canonicalRef ELSE row.md.hash,
     value |-> row.value, md |-> row.md]

\* ClassicSignedMessageRaw: the stored bytes, or the message built again from
\* the content.
ClassicSignedMessageRaw(msg) ==
    IF msg.md.raw # None THEN msg.md.raw
    ELSE [form |-> "classic", author |-> msg.md.author, seq |-> msg.md.seq,
          previous |-> msg.md.previous, text |-> MarshalLegacyContent(msg.value),
          sig |-> msg.md.sig]

\* FeedManagerAdapter.GetMessage
GetMessage(n, f, s) ==
    LET msg == Get(n, f, s) IN
    IF msg.md.messageFormat = "sha256" THEN ClassicSignedMessageRaw(msg) ELSE msg.md.raw

\* A mutant: the fields are compared and the signature is not checked.
VerifyFields(m, md) == md.author = m.author /\ md.seq = m.seq /\ md.sig = m.sig

\* DefaultSignatureVerifier.Verify
Verify(m, md) ==
    /\ md.sig # None /\ md.sig = m.sig /\ SignatureValid(m)
    /\ md.author = m.author /\ md.seq = m.seq
    /\ md.hash # None => md.hash = Key(m)

-----------------------------------------------------------------------------
(* Appending                                                                 *)

AppendLog(n, f, value, md) ==
    logs' = [logs EXCEPT ![n][f] =
                Append(@, [value |-> value, md |-> NormalizeMetadata(None, md, FALSE)])]

\* receiveLog.Append refuses a classic message that does not verify; the row of
\* the feed log stays.
AppendReceived(n, m, md) ==
    LET full == NormalizeMetadata(m, md, TRUE) IN
    received' = IF full.messageFormat = "sha256" /\ ~ Verify(m, full) THEN received
                ELSE [received EXCEPT ![n] = Append(@, [raw |-> m, md |-> full])]

Metadata(m, raw) ==
    [author |-> m.author, seq |-> m.seq, previous |-> m.previous, sig |-> m.sig,
     hash |-> Key(m), feedFormat |-> FormatOfFeed(m.author),
     messageFormat |-> MessageFromFeed(FormatOfFeed(m.author)), raw |-> raw,
     canonicalRef |-> Key(m)]

IsNext(n, m) == m.seq = Len(logs[n][m.author]) + 1

\* appendBendyMessage: no signature is put in the metadata.
AppendBendyMessage(n, raw) ==
    LET m == FromStoredMessage(raw) IN
    /\ m # None /\ VerifyBendy(m) /\ IsNext(n, m)
    /\ LET md == [author |-> m.author, seq |-> m.seq, previous |-> m.previous, sig |-> None, hash |-> BendyKey(m),
                  feedFormat |-> "bendybutt-v1", messageFormat |-> "bendybutt-v1", raw |-> raw,
                  canonicalRef |-> BendyKey(m)] IN
       AppendLog(n, m.author, m.content, md) /\ AppendReceived(n, raw, md)

\* AppendReplicatedMessage: what is not JSON is a BendyButt message.
AppendReplicatedMessage(n, m) ==
    IF m.form = "bendy" THEN AppendBendyMessage(n, m)
    ELSE IsNext(n, m) /\ AppendLog(n, m.author, m.text, Metadata(m, m)) /\ AppendReceived(n, m, Metadata(m, m))

\* ingestHistoryFrame: the hash is the key of the envelope, the feed log gets no
\* raw value, the receive log the message built again.
IngestHistoryFrame(n, env) ==
    LET m == env.value
        built == [m EXCEPT !.text = MarshalLegacyContent(m.text)]
        md == [author |-> m.author, seq |-> m.seq, previous |-> m.previous, sig |-> m.sig,
               hash |-> env.key, feedFormat |-> None, messageFormat |-> None, raw |-> None,
               canonicalRef |-> None]
        keyed == IF env.key # None THEN md ELSE [md EXCEPT !.hash = Key(built)] IN
    IsNext(n, m) /\ AppendLog(n, m.author, m.text, md) /\ AppendReceived(n, built, keyed)

-----------------------------------------------------------------------------
(* Writers                                                                   *)

Written == UNION {{f} \X DOMAIN signed[f] : f \in AllFeeds}
MayWrite == Cardinality(Written) < MaxMessages

\* Publisher.Publish: the content goes through interface{} before it is signed.
Publish(n, c) ==
    LET f == Own[n]
        given == Compact(Stringify(c))
        previous == IF logs[n][f] = <<>> THEN None ELSE Get(n, f, Len(logs[n][f])).key
        m == Sign(f, Len(logs[n][f]) + 1, previous, MarshalLegacyContent(given)) IN
    /\ MayWrite
    /\ signed' = [signed EXCEPT ![f] = Append(@, m)]
    /\ AppendLog(n, f, given, Metadata(m, m))
    /\ AppendReceived(n, m, Metadata(m, m))

\* Another program signs the next message of its feed.
AlienSign(f, c) ==
    LET s == Len(signed[f]) + 1
        previous == IF s = 1 THEN None ELSE AuthorKey(signed[f][s - 1]) IN
    /\ MayWrite /\ f \in Alien
    /\ signed' = [signed EXCEPT ![f] = Append(@, Sign(f, s, previous, Stringify(c)))]
    /\ UNCHANGED << logs, received >>

BendySign(f, c) ==
    LET s == Len(signed[f]) + 1
        previous == IF s = 1 THEN None ELSE BendyKey(signed[f][s - 1])
        m == CreateMessage(f, s, previous, c) IN
    /\ MayWrite /\ f \in Bendy /\ m # None
    /\ signed' = [signed EXCEPT ![f] = Append(@, m)]
    /\ UNCHANGED << logs, received >>

\* EBT: the author's own program sends the message, or a node that has it.
Replicate(n, f, s) ==
    /\ \/ s \in DOMAIN signed[f] /\ f \in Alien /\ AppendReplicatedMessage(n, signed[f][s])
       \/ s \in DOMAIN signed[f] /\ f \in Bendy /\ AppendReplicatedMessage(n, Encode(signed[f][s]))
       \/ \E p \in Nodes \ {n} :
             s \in DOMAIN logs[p][f] /\ AppendReplicatedMessage(n, GetMessage(p, f, s))
    /\ UNCHANGED signed

\* createHistoryStream with keys: writeMessage, or the author's own program,
\* whose envelope is JSON without layout.
WriteMessage(p, f, s) ==
    LET raw == ClassicSignedMessageRaw(Get(p, f, s)) IN
    [key |-> Get(p, f, s).key, value |-> [raw EXCEPT !.text = Compact(@)]]

AuthorEnvelope(f, s) ==
    [key |-> AuthorKey(signed[f][s]),
     value |-> [signed[f][s] EXCEPT !.text = Text(@.content, "author", FALSE, FALSE, FALSE)]]

Ingest(n, f, s) ==
    /\ FormatOfFeed(f) = "ed25519"
    /\ \/ s \in DOMAIN signed[f] /\ f \in Alien /\ IngestHistoryFrame(n, AuthorEnvelope(f, s))
       \/ \E p \in Nodes \ {n} :
             s \in DOMAIN logs[p][f] /\ IngestHistoryFrame(n, WriteMessage(p, f, s))
    /\ UNCHANGED signed

Init ==
    /\ signed = [f \in AllFeeds |-> <<>>]
    /\ logs = [n \in Nodes |-> [f \in AllFeeds |-> <<>>]]
    /\ received = [n \in Nodes |-> <<>>]

Next ==
    \/ \E n \in Nodes, c \in Contents : Publish(n, c)
    \/ \E f \in AllFeeds, c \in Contents : AlienSign(f, c) \/ BendySign(f, c)
    \/ \E n \in Nodes, f \in AllFeeds, s \in 1..MaxMessages : Replicate(n, f, s) \/ Ingest(n, f, s)

Spec == Init /\ [][Next]_vars

-----------------------------------------------------------------------------
\* Whatever way it came, a message in the receive log is, to the byte, one that its
\* author signed, under the author's key, and none stands there twice.
ReceivedIsAuthentic ==
    \A n \in Nodes : \A i \in DOMAIN received[n] :
        LET e == received[n][i]
            written == {signed[e.md.author][s] : s \in DOMAIN signed[e.md.author]} IN
        /\ IF e.md.author \in Bendy THEN \E m \in written : e.raw = Encode(m) /\ e.md.hash = BendyKey(m)
           ELSE e.raw \in written /\ e.md.hash = Key(e.raw)
        /\ \A j \in DOMAIN received[n] : received[n][j].raw = e.raw => i = j

\* A BendyButt message is read back as it was and accepted, and no longer accepted when
\* any one of its fields is that of another message of the feed.
BendyIsWhole ==
    \A f \in Bendy : \A s, u \in DOMAIN signed[f] :
        LET m == signed[f][s] IN
        /\ FromStoredMessage(Encode(m)) = m /\ VerifyBendy(m)
        /\ \A field \in DOMAIN m : LET other == [m EXCEPT ![field] = signed[f][u][field]] IN
              VerifyBendy(other) => other = m

\* The messages that this program publishes survive every way of passing them
\* on: each node that has one holds it under the author's key, links the next
\* one to it, and serves the signed bytes, from storage or built again; every way of
\* verifying a message accepts it.
OwnFeedsExact ==
    \A n, p \in Nodes : \A s \in DOMAIN logs[n][Own[p]] :
        LET m == signed[Own[p]][s] IN
        /\ GetMessage(n, Own[p], s) = m
        /\ VerifySignedMessageJSON(WriteMessage(n, Own[p], s).value) /\ VerifyDecoded(m)
        /\ Get(n, Own[p], s).key = AuthorKey(m)
        /\ s > 1 => Get(n, Own[p], s - 1).key = m.previous

\* classic_raw.go:13: what is served for any classic message is the exact
\* payload that was signed.
ClassicRawIsExact ==
    \A n \in Nodes, f \in Alien : \A s \in DOMAIN logs[n][f] :
        GetMessage(n, f, s) = signed[f][s]
=============================================================================
