--------------------------- MODULE TransportProofs ---------------------------
(***************************************************************************)
(* Proofs about the layers of a connection.  The secret handshake: an end   *)
(* that is done has authenticated the other one and the two ends hold       *)
(* matching keys, for every pair of long-term keys, every pair of network   *)
(* identifiers and every key dialled.  The box stream: what the unboxer     *)
(* returns is what the boxer was given, and the packets read are the        *)
(* packets written, however the stream is cut.  muxrpc: the frames of a     *)
(* call arrive in order at both ends, for any number of calls and frames.   *)
(***************************************************************************)
EXTENDS MCTransport, Integers, TLAPS

\* The fields of State.
Fields == {"role", "remotePublic", "remoteExchange", "localAppMac", "remoteAppMac",
           "secret", "secHash", "aBob", "hello"}

\* The secret of the two exchange keys.
Exchanged == {"client eph", "server eph"}

Shape ==
    /\ DOMAIN hs = Ends
    /\ DOMAIN channel = Ends
    /\ \A e \in Ends : DOMAIN hs[e] = Fields

\* What travels to the server.
ToServer ==
    /\ channel["server"].kind \in {"none", "challenge", "auth", "closed"}
    /\ channel["server"].kind = "challenge" => channel["server"] = Challenge("client")
    /\ channel["server"].kind = "auth" =>
           /\ channel["server"].key =
                  << appKey["client"], Exchanged, {"client eph", hs["client"].remotePublic} >>
           /\ channel["server"].hello.pub = local["client"]
           /\ channel["server"].hello.sig =
                  [by |-> local["client"],
                   over |-> << appKey["client"], hs["client"].remotePublic, << "hash", Exchanged >> >>]

\* What travels to the client: the last message is only sent by a server that
\* is done, under the secret it kept the hash of.
ToClient ==
    /\ channel["client"].kind \in {"none", "challenge", "accept", "closed"}
    /\ channel["client"].kind = "challenge" => channel["client"] = Challenge("server")
    /\ channel["client"].kind = "accept" =>
           /\ hs["server"].role = "done"
           /\ hs["server"].secret = << "hash", channel["client"].key >>

\* What a server past the challenges knows, and what one that is done knows.
ServerKnows ==
    /\ hs["server"].role \in {"initial", "auth", "done", "failed"}
    /\ hs["server"].role \in {"auth", "done"} =>
           /\ hs["server"].localAppMac = AppMac("server")
           /\ hs["server"].remoteAppMac = AppMac("client")
           /\ appKey["server"] = appKey["client"]
    /\ hs["server"].role = "auth" =>
           /\ hs["server"].remoteExchange = "client eph"
           /\ hs["server"].secret = Exchanged
           /\ hs["server"].secHash = << "hash", Exchanged >>
    /\ hs["server"].role = "done" =>
           /\ hs["server"].remotePublic = local["client"]
           /\ hs["client"].remotePublic = local["server"]

\* The same for the client.
ClientKnows ==
    /\ hs["client"].role \in {"initial", "challenge", "accept", "done", "failed"}
    /\ hs["client"].role \in {"challenge", "accept", "done"} =>
           hs["client"].localAppMac = AppMac("client")
    /\ hs["client"].role \in {"accept", "done"} =>
           hs["client"].remoteAppMac = AppMac("server")
    /\ hs["client"].role = "done" =>
           /\ hs["server"].role = "done"
           /\ hs["client"].secret = hs["server"].secret

\* The inductive invariant.
HandshakeInv == Shape /\ ToServer /\ ToClient /\ ServerKnows /\ ClientKnows

----------------------------------------------------------------------------
\* A fresh connection: nothing has been sent and nobody knows anything.
LEMMA InitHandshake == Init => HandshakeInv
<1> SUFFICES ASSUME Init PROVE HandshakeInv
  OBVIOUS
<1>1. PICK remote \in Keys :
        hs = [e \in Ends |-> NewState(IF e = "client" THEN remote ELSE None)]
  BY DEF Init
<1>2. channel = [e \in Ends |-> NoMessage]
  BY DEF Init
<1>3. Shape
  BY <1>1, <1>2 DEF Shape, NewState, Fields, Ends
<1>4. hs["client"].role = "initial" /\ hs["server"].role = "initial"
  BY <1>1 DEF Ends, NewState
<1>5. channel["client"].kind = "none" /\ channel["server"].kind = "none"
  BY <1>2 DEF Ends, NoMessage
<1> QED
  BY <1>3, <1>4, <1>5 DEF HandshakeInv, ToServer, ToClient, ServerKnows, ClientKnows

\* What a move of one end changes.
LEMMA MoveEffect ==
  ASSUME Shape, NEW e \in Ends, NEW s, DOMAIN s = Fields, NEW message, Move(e, s, message)
  PROVE  /\ Shape'
         /\ hs'[e] = s
         /\ hs'[Other(e)] = hs[Other(e)]
         /\ channel'[e] = NoMessage
         /\ channel'[Other(e)] = message
         /\ local' = local
         /\ appKey' = appKey
BY DEF Shape, Move, Ends, Other

\* An end that gives up tells the other one nothing but the close.
LEMMA FailStep ==
  ASSUME HandshakeInv, NEW e \in Ends, hs[e].role \notin {"done", "failed"}, Fail(e)
  PROVE  HandshakeInv'
<1> DEFINE s == [hs[e] EXCEPT !.role = "failed"]
<1>1. DOMAIN s = Fields /\ s.role = "failed" /\ s.remotePublic = hs[e].remotePublic
  BY DEF HandshakeInv, Shape, Fields, Ends
<1>2. Move(e, s, [kind |-> "closed"])
  BY DEF Fail
<1> HIDE DEF s
<1>3. /\ Shape'
      /\ hs'[e] = s
      /\ hs'[Other(e)] = hs[Other(e)]
      /\ channel'[e] = NoMessage
      /\ channel'[Other(e)] = [kind |-> "closed"]
      /\ local' = local
      /\ appKey' = appKey
  BY <1>1, <1>2, MoveEffect DEF HandshakeInv
<1>4. channel'[e].kind = "none" /\ channel'[Other(e)].kind = "closed"
  BY <1>3 DEF NoMessage
<1>5. CASE e = "client"
  BY <1>1, <1>3, <1>4, <1>5
  DEF HandshakeInv, ToServer, ToClient, ServerKnows, ClientKnows, Other, AppMac
<1>6. CASE e = "server"
  BY <1>1, <1>3, <1>4, <1>6
  DEF HandshakeInv, ToServer, ToClient, ServerKnows, ClientKnows, Other, AppMac
<1> QED
  BY <1>5, <1>6 DEF Ends

\* The client opens with its challenge.
LEMMA ClientHelloStep == HandshakeInv /\ ClientHello => HandshakeInv'
<1> SUFFICES ASSUME HandshakeInv, ClientHello PROVE HandshakeInv'
  OBVIOUS
<1> DEFINE s == [hs["client"] EXCEPT !.role = "challenge", !.localAppMac = AppMac("client")]
<1>1. /\ DOMAIN s = Fields
      /\ s.role = "challenge"
      /\ s.localAppMac = AppMac("client")
      /\ s.remotePublic = hs["client"].remotePublic
  BY DEF HandshakeInv, Shape, Fields, Ends
<1>2. Move("client", s, Challenge("client"))
  BY DEF ClientHello
<1> HIDE DEF s
<1>3. /\ Shape'
      /\ hs'["client"] = s
      /\ hs'["server"] = hs["server"]
      /\ channel'["client"] = NoMessage
      /\ channel'["server"] = Challenge("client")
      /\ local' = local
      /\ appKey' = appKey
  BY <1>1, <1>2, MoveEffect DEF HandshakeInv, Ends, Other
<1>4. /\ channel'["client"].kind = "none"
      /\ channel'["server"].kind = "challenge"
      /\ channel'["server"] = Challenge("client")'
  BY <1>3 DEF NoMessage, Challenge, AppMac
<1> QED
  BY <1>1, <1>3, <1>4
  DEF HandshakeInv, ToServer, ToClient, ServerKnows, ClientKnows, AppMac, ClientHello

\* The fields that reading a challenge sets.
LEMMA ChallengeFields ==
  ASSUME Shape, NEW e \in Ends, NEW ch
  PROVE  /\ DOMAIN WithChallenge(e, ch) = Fields
         /\ WithChallenge(e, ch).remoteExchange = ch.exchange
         /\ WithChallenge(e, ch).remoteAppMac = ch.mac
         /\ WithChallenge(e, ch).secret = DH(Ephemeral(e), ch.exchange)
         /\ WithChallenge(e, ch).secHash = << "hash", DH(Ephemeral(e), ch.exchange) >>
         /\ WithChallenge(e, ch).remotePublic = hs[e].remotePublic
         /\ WithChallenge(e, ch).localAppMac = hs[e].localAppMac
BY DEF Shape, WithChallenge, Fields

\* The fields of a challenge.
LEMMA ChallengeIs ==
  /\ Challenge("client").exchange = "client eph"
  /\ Challenge("client").mac = AppMac("client")
  /\ Challenge("server").exchange = "server eph"
  /\ Challenge("server").mac = AppMac("server")
BY DEF Challenge, Ephemeral

\* The server accepts a challenge of its own network and answers with its own.
LEMMA ServerChallengeStep == HandshakeInv /\ ServerChallenge => HandshakeInv'
<1> SUFFICES ASSUME HandshakeInv, ServerChallenge PROVE HandshakeInv'
  OBVIOUS
<1>1. CASE ~ChallengeOK("server", channel["server"])
  <2>1. Fail("server") /\ hs["server"].role \notin {"done", "failed"}
    BY <1>1 DEF ServerChallenge
  <2> QED
    BY <2>1, FailStep DEF Ends
<1>2. CASE ChallengeOK("server", channel["server"])
  <2> DEFINE w == WithChallenge("server", channel["server"])
             s == [w EXCEPT !.role = "auth", !.localAppMac = AppMac("server")]
  <2>1. channel["server"] = Challenge("client")
    BY DEF HandshakeInv, ToServer, ServerChallenge
  <2>2. channel["server"].exchange = "client eph" /\ channel["server"].mac = AppMac("client")
    BY <2>1, ChallengeIs
  <2>3. appKey["server"] = appKey["client"]
    <3>1. AppMac("client") = << "mac", "client eph", appKey["server"] >>
      BY <1>2, <2>2 DEF ChallengeOK
    <3>2. AppMac("client") = << "mac", "client eph", appKey["client"] >>
      BY DEF AppMac, Ephemeral
    <3>3. /\ << "mac", "client eph", appKey["server"] >>[3] = appKey["server"]
          /\ << "mac", "client eph", appKey["client"] >>[3] = appKey["client"]
      OBVIOUS
    <3> QED
      BY <3>1, <3>2, <3>3
  <2>4. /\ DOMAIN w = Fields
        /\ w.remoteExchange = "client eph"
        /\ w.remoteAppMac = AppMac("client")
        /\ w.secret = Exchanged
        /\ w.secHash = << "hash", Exchanged >>
    <3>1. DH(Ephemeral("server"), channel["server"].exchange) = Exchanged
      BY <2>2 DEF DH, Ephemeral, Exchanged
    <3> QED
      BY <2>2, <3>1, ChallengeFields DEF HandshakeInv, Ends
  <2>5. Move("server", s, Challenge("server"))
    BY <1>2 DEF ServerChallenge
  <2> HIDE DEF w
  <2>6. /\ DOMAIN s = Fields
        /\ s.role = "auth"
        /\ s.localAppMac = AppMac("server")
        /\ s.remoteExchange = "client eph"
        /\ s.remoteAppMac = AppMac("client")
        /\ s.secret = Exchanged
        /\ s.secHash = << "hash", Exchanged >>
    BY <2>4 DEF Fields
  <2> HIDE DEF s
  <2>7. /\ Shape'
        /\ hs'["server"] = s
        /\ hs'["client"] = hs["client"]
        /\ channel'["server"] = NoMessage
        /\ channel'["client"] = Challenge("server")
        /\ local' = local
        /\ appKey' = appKey
    BY <2>5, <2>6, MoveEffect DEF HandshakeInv, Ends, Other
  <2>8. /\ channel'["server"].kind = "none"
        /\ channel'["client"].kind = "challenge"
        /\ channel'["client"] = Challenge("server")'
    BY <2>7 DEF NoMessage, Challenge, AppMac
  <2> QED
    BY <2>3, <2>6, <2>7, <2>8
    DEF HandshakeInv, ToServer, ToClient, ServerKnows, ClientKnows, AppMac, ServerChallenge
<1> QED
  BY <1>1, <1>2

\* The client accepts the server's challenge and identifies itself.
LEMMA ClientChallengeStep == HandshakeInv /\ ClientChallenge => HandshakeInv'
<1> SUFFICES ASSUME HandshakeInv, ClientChallenge PROVE HandshakeInv'
  OBVIOUS
<1>1. CASE ~ChallengeOK("client", channel["client"])
  <2>1. Fail("client") /\ hs["client"].role \notin {"done", "failed"}
    BY <1>1 DEF ClientChallenge
  <2> QED
    BY <2>1, FailStep DEF Ends
<1>2. CASE ChallengeOK("client", channel["client"])
  <2> DEFINE w == WithChallenge("client", channel["client"])
             aBob == DH(Ephemeral("client"), w.remotePublic)
             s == [w EXCEPT !.role = "accept", !.aBob = aBob, !.hello = Hello(w)]
             auth == ClientAuth(w, aBob)
  <2>1. channel["client"] = Challenge("server")
    BY DEF HandshakeInv, ToClient, ClientChallenge
  <2>2. channel["client"].exchange = "server eph" /\ channel["client"].mac = AppMac("server")
    BY <2>1, ChallengeIs
  <2>3. /\ DOMAIN w = Fields
        /\ w.remoteAppMac = AppMac("server")
        /\ w.secret = Exchanged
        /\ w.secHash = << "hash", Exchanged >>
        /\ w.remotePublic = hs["client"].remotePublic
        /\ w.localAppMac = hs["client"].localAppMac
    <3>1. DH(Ephemeral("client"), channel["client"].exchange) = Exchanged
      BY <2>2 DEF DH, Ephemeral, Exchanged
    <3> QED
      BY <2>2, <3>1, ChallengeFields DEF HandshakeInv, Ends
  <2>4. Move("client", s, auth)
    BY <1>2 DEF ClientChallenge
  <2> HIDE DEF w
  <2>5. /\ auth.kind = "auth"
        /\ auth.key = << appKey["client"], Exchanged, {"client eph", hs["client"].remotePublic} >>
        /\ auth.hello.pub = local["client"]
        /\ auth.hello.sig =
             [by |-> local["client"],
              over |-> << appKey["client"], hs["client"].remotePublic, << "hash", Exchanged >> >>]
    BY <2>3 DEF ClientAuth, Hello, DH, Ephemeral
  <2>6. /\ DOMAIN s = Fields
        /\ s.role = "accept"
        /\ s.remoteAppMac = AppMac("server")
        /\ s.remotePublic = hs["client"].remotePublic
        /\ s.localAppMac = hs["client"].localAppMac
    BY <2>3 DEF Fields
  <2> HIDE DEF s, auth
  <2>7. /\ Shape'
        /\ hs'["client"] = s
        /\ hs'["server"] = hs["server"]
        /\ channel'["client"] = NoMessage
        /\ channel'["server"] = auth
        /\ local' = local
        /\ appKey' = appKey
    BY <2>4, <2>6, MoveEffect DEF HandshakeInv, Ends, Other
  <2>8. channel'["client"].kind = "none"
    BY <2>7 DEF NoMessage
  <2>9. ToServer'
    BY <2>5, <2>6, <2>7 DEF ToServer
  <2> QED
    BY <2>6, <2>7, <2>8, <2>9
    DEF HandshakeInv, ToClient, ServerKnows, ClientKnows, AppMac, ClientChallenge
<1> QED
  BY <1>1, <1>2

\* The fields that cleaning the secrets leaves.
LEMMA CleanFields ==
  ASSUME NEW s, DOMAIN s = Fields, NEW secret3
  PROVE  /\ DOMAIN CleanSecrets(s, secret3) = Fields
         /\ CleanSecrets(s, secret3).role = "done"
         /\ CleanSecrets(s, secret3).secret = << "hash", secret3 >>
         /\ CleanSecrets(s, secret3).remotePublic = s.remotePublic
         /\ CleanSecrets(s, secret3).localAppMac = s.localAppMac
         /\ CleanSecrets(s, secret3).remoteAppMac = s.remoteAppMac
BY DEF CleanSecrets, Fields

\* The server identifies the client and is done: the box only opens when the
\* client dialled this server.
LEMMA ServerAuthStep == HandshakeInv /\ ServerAuth => HandshakeInv'
<1> SUFFICES ASSUME HandshakeInv, ServerAuth PROVE HandshakeInv'
  OBVIOUS
<1> DEFINE m == channel["server"]
           aBob == DH(hs["server"].remoteExchange, local["server"])
           w == [hs["server"] EXCEPT !.remotePublic = m.hello.pub, !.hello = m.hello]
           secret3 == Secret3("server", w, aBob, DH(Ephemeral("server"), w.remotePublic))
<1>1. CASE ~ClientAuthOK(w, aBob, m)
  <2>1. Fail("server") /\ hs["server"].role \notin {"done", "failed"}
    BY <1>1 DEF ServerAuth
  <2> QED
    BY <2>1, FailStep DEF Ends
<1>2. CASE ClientAuthOK(w, aBob, m)
  <2> DEFINE s == CleanSecrets(w, secret3)
             accept == ServerAccept(w, secret3)
  <2>1. Move("server", s, accept)
    BY <1>2 DEF ServerAuth
  <2>2. /\ m.hello.pub = local["client"]
        /\ m.hello.sig =
             [by |-> local["client"],
              over |-> << appKey["client"], hs["client"].remotePublic, << "hash", Exchanged >> >>]
    BY DEF HandshakeInv, ToServer, ServerAuth
  <2>3. /\ DOMAIN w = Fields
        /\ w.remotePublic = local["client"]
        /\ w.localAppMac = AppMac("server")
        /\ w.remoteAppMac = AppMac("client")
        /\ appKey["server"] = appKey["client"]
    BY <2>2 DEF HandshakeInv, Shape, ServerKnows, ServerAuth, Fields, Ends
  <2> HIDE DEF w
  <2>4. hs["client"].remotePublic = local["server"]
    <3>1. m.hello.sig.over = << appKey["server"], local["server"], w.secHash >>
      BY <1>2 DEF ClientAuthOK
    <3>2. m.hello.sig.over = << appKey["client"], hs["client"].remotePublic, << "hash", Exchanged >> >>
      BY <2>2
    <3> HIDE DEF m
    <3> QED
      BY <3>1, <3>2
  <2>5. accept.kind = "accept" /\ accept.key = secret3
    BY DEF ServerAccept
  <2> HIDE DEF secret3, m, aBob
  <2>6. /\ DOMAIN s = Fields
        /\ s.role = "done"
        /\ s.secret = << "hash", secret3 >>
        /\ s.remotePublic = local["client"]
        /\ s.localAppMac = AppMac("server")
        /\ s.remoteAppMac = AppMac("client")
    BY <2>3, CleanFields
  <2> HIDE DEF s, accept
  <2>7. /\ Shape'
        /\ hs'["server"] = s
        /\ hs'["client"] = hs["client"]
        /\ channel'["server"] = NoMessage
        /\ channel'["client"] = accept
        /\ local' = local
        /\ appKey' = appKey
    BY <2>1, <2>6, MoveEffect DEF HandshakeInv, Ends, Other
  <2>8. channel'["server"].kind = "none"
    BY <2>7 DEF NoMessage
  <2>9. hs["client"].role # "done"
    BY DEF HandshakeInv, ClientKnows, ServerAuth
  <2> QED
    BY <2>3, <2>4, <2>5, <2>6, <2>7, <2>8, <2>9
    DEF HandshakeInv, ToServer, ToClient, ServerKnows, ClientKnows, AppMac
<1> QED
  BY <1>1, <1>2

\* The client is done only after a server that is, with the same last secret.
LEMMA ClientAcceptStep == HandshakeInv /\ ClientAccept => HandshakeInv'
<1> SUFFICES ASSUME HandshakeInv, ClientAccept PROVE HandshakeInv'
  OBVIOUS
<1> DEFINE c == hs["client"]
           secret3 == Secret3("client", c, c.aBob, DH(c.remoteExchange, local["client"]))
<1>1. CASE ~ServerAcceptOK(c, secret3, channel["client"])
  <2>1. Fail("client") /\ hs["client"].role \notin {"done", "failed"}
    BY <1>1 DEF ClientAccept
  <2> QED
    BY <2>1, FailStep DEF Ends
<1>2. CASE ServerAcceptOK(c, secret3, channel["client"])
  <2> DEFINE s == CleanSecrets(c, secret3)
  <2>1. Move("client", s, NoMessage)
    BY <1>2 DEF ClientAccept
  <2>2. channel["client"].key = secret3
    BY <1>2 DEF ServerAcceptOK
  <2> HIDE DEF secret3
  <2>3. hs["server"].role = "done" /\ hs["server"].secret = << "hash", secret3 >>
    BY <2>2 DEF HandshakeInv, ToClient, ClientAccept
  <2>4. /\ DOMAIN s = Fields
        /\ s.role = "done"
        /\ s.secret = << "hash", secret3 >>
        /\ s.remotePublic = c.remotePublic
        /\ s.localAppMac = AppMac("client")
        /\ s.remoteAppMac = AppMac("server")
    BY CleanFields DEF HandshakeInv, Shape, ClientKnows, ClientAccept, Ends
  <2> HIDE DEF s
  <2>5. /\ Shape'
        /\ hs'["client"] = s
        /\ hs'["server"] = hs["server"]
        /\ channel'["client"] = NoMessage
        /\ channel'["server"] = NoMessage
        /\ local' = local
        /\ appKey' = appKey
    BY <2>1, <2>4, MoveEffect DEF HandshakeInv, Ends, Other
  <2>6. channel'["server"].kind = "none" /\ channel'["client"].kind = "none"
    BY <2>5 DEF NoMessage
  <2> QED
    BY <2>3, <2>4, <2>5, <2>6
    DEF HandshakeInv, ToServer, ToClient, ServerKnows, ClientKnows, AppMac
<1> QED
  BY <1>1, <1>2

----------------------------------------------------------------------------
\* Every step of either end keeps the invariant.
LEMMA NextHandshake == HandshakeInv /\ [Next]_hsVars => HandshakeInv'
<1> SUFFICES ASSUME HandshakeInv, [Next]_hsVars PROVE HandshakeInv'
  OBVIOUS
<1>1. CASE UNCHANGED hsVars
  <2>1. local' = local /\ appKey' = appKey /\ hs' = hs /\ channel' = channel
    BY <1>1 DEF hsVars
  <2>c. \A e \in Ends : Challenge(e)' = Challenge(e)
    BY <2>1 DEF Challenge, AppMac
  <2>2. Shape' /\ ToServer'
    BY <2>1, <2>c DEF HandshakeInv, Shape, ToServer, Ends
  <2>3. ToClient'
    BY <2>1, <2>c DEF HandshakeInv, ToClient, Ends
  <2>4. ServerKnows' /\ ClientKnows'
    BY <2>1 DEF HandshakeInv, ServerKnows, ClientKnows, AppMac
  <2> QED
    BY <2>2, <2>3, <2>4 DEF HandshakeInv
<1>2. ASSUME NEW e \in Ends, Lost(e) \/ SeesClose(e) PROVE HandshakeInv'
  BY <1>2, FailStep DEF Lost, SeesClose
<1> QED
  BY <1>1, <1>2, ClientHelloStep, ServerChallengeStep, ClientChallengeStep, ServerAuthStep,
     ClientAcceptStep DEF Next

\* The invariant gives the ends matching keys: the nonces of the two directions
\* differ because the exchange keys do.
LEMMA InvAgrees == HandshakeInv => KeysAgree
<1> SUFFICES ASSUME HandshakeInv PROVE KeysAgree
  OBVIOUS
<1>1. hs["server"].role = "done" =>
        /\ appKey["server"] = appKey["client"]
        /\ hs["server"].remotePublic = local["client"]
        /\ hs["client"].remotePublic = local["server"]
  BY DEF HandshakeInv, ServerKnows
<1>2. ASSUME hs["client"].role = "done"
      PROVE  /\ hs["server"].role = "done"
             /\ EncKeys("client") = DecKeys("server")
             /\ DecKeys("client") = EncKeys("server")
             /\ EncKeys("client") # DecKeys("client")
  <2>1. hs["server"].role = "done" /\ hs["client"].secret = hs["server"].secret
    BY <1>2 DEF HandshakeInv, ClientKnows
  <2>2. hs["client"].localAppMac = AppMac("client") /\ hs["client"].remoteAppMac = AppMac("server")
    BY <1>2 DEF HandshakeInv, ClientKnows
  <2>3. hs["server"].localAppMac = AppMac("server") /\ hs["server"].remoteAppMac = AppMac("client")
    BY <2>1 DEF HandshakeInv, ServerKnows
  <2>4. AppMac("client") # AppMac("server")
    BY DEF AppMac, Ephemeral
  <2> QED
    BY <1>1, <2>1, <2>2, <2>3, <2>4 DEF EncKeys, DecKeys
<1> QED
  BY <1>1, <1>2 DEF KeysAgree

\* An end that has finished the handshake has authenticated the other one, and
\* the box streams of the two ends get matching keys and nonces
\* (secretstream/secrethandshake: Client and Server): the app keys agree, the
\* client reached the key it dialled, the server learnt the client's key, and
\* no key and nonce is shared by the two directions.
THEOREM EndsAuthenticated == Spec => []KeysAgree
<1>1. Spec => []HandshakeInv
  BY InitHandshake, NextHandshake, PTL DEF Spec
<1> QED
  BY <1>1, InvAgrees, PTL
-----------------------------------------------------------------------------
(***************************************************************************)
(* The box stream and the packets on it.                                    *)
(***************************************************************************)

\* A body has a length, and the size of a segment is a number.
BoxParameters == BodyLengths \subseteq Nat /\ MaxSegment \in Nat

\* The units of the plaintext, and what is sealed.
Units == [pkt : Nat, part : Nat, len : Nat]
Boxes == [kind : {"head"}, nonce : Int, len : Nat, goodbye : BOOLEAN]
         \cup [kind : {"body"}, nonce : Int, unit : Units]

\* The sealed header at i of the boxes s, at offset off[i] of the plaintext p: its body
\* follows, and then the next header.
Segment(s, p, off, i) ==
    /\ i + s[i].len <= Len(s)
    /\ \A j \in 1..s[i].len : s[i + j].unit = p[off[i] + j]
    /\ off[i + s[i].len + 1] = off[i] + s[i].len
    /\ i + s[i].len < Len(s) => s[i + s[i].len + 1].kind = "head"

\* The sealed goodbye is the last box.
LastSegment(s, p, off, i) ==
    /\ i = Len(s) /\ s[i].len = 0
    /\ off[i + 1] = off[i] + 2
    /\ p[off[i] + 1] = Box!Zero /\ p[off[i] + 2] = Box!Zero

\* The boxes s hold the plaintext p after its first a units, and a goodbye only when c.
HoldsAt(s, p, a, c, off) ==
    /\ off[1] = a /\ off[Len(s) + 1] = Len(p)
    /\ \A i \in 1..(Len(s) + 1) : off[i] <= Len(p)
    /\ s # << >> => s[1].kind = "head"
    /\ \A i \in 1..Len(s) : s[i].kind = "head" =>
          /\ s[i].goodbye => c /\ LastSegment(s, p, off, i)
          /\ ~ s[i].goodbye => Segment(s, p, off, i)
Holds(s, p, a, c) == \E off \in [1..(Len(s) + 1) -> Nat] : HoldsAt(s, p, a, c, off)

\* A head has a length, and is a goodbye or not.
LEMMA HeadBox ==
    ASSUME NEW b \in Boxes, b.kind = "head"
    PROVE  b.len \in Nat /\ b.goodbye \in BOOLEAN
BY DEF Boxes

\* Two sequences with the same elements are the same.
LEMMA SameSequence ==
    ASSUME NEW S, NEW s \in Seq(S), NEW t \in Seq(S), Len(s) = Len(t),
           \A i \in 1..Len(s) : s[i] = t[i]
    PROVE  s = t
BY Z3

\* What a concatenation has where.
LEMMA Concatenated ==
    ASSUME NEW S, NEW s \in Seq(S), NEW t \in Seq(S)
    PROVE  /\ s \o t \in Seq(S) /\ Len(s \o t) = Len(s) + Len(t)
           /\ \A i \in 1..Len(s) : (s \o t)[i] = s[i]
           /\ \A i \in 1..Len(t) : (s \o t)[Len(s) + i] = t[i]
BY Z3

\* Concatenation is associative.
LEMMA ConcatenatedTwice ==
    ASSUME NEW S, NEW s \in Seq(S), NEW t \in Seq(S), NEW u \in Seq(S)
    PROVE  (s \o t) \o u = s \o (t \o u)
BY Z3

\* The lengths alone.
LEMMA ConcatenatedLength ==
    ASSUME NEW S, NEW s \in Seq(S), NEW t \in Seq(S)
    PROVE  s \o t \in Seq(S) /\ Len(s \o t) = Len(s) + Len(t)
BY Z3
\* The same for one element.
LEMMA AppendedLength ==
    ASSUME NEW S, NEW s \in Seq(S), NEW x \in S
    PROVE  Append(s, x) \in Seq(S) /\ Len(Append(s, x)) = Len(s) + 1
BY Z3

\* What an appended sequence has where.
LEMMA Appended ==
    ASSUME NEW S, NEW s \in Seq(S), NEW x \in S
    PROVE  /\ Append(s, x) \in Seq(S) /\ Len(Append(s, x)) = Len(s) + 1
           /\ \A i \in 1..Len(s) : Append(s, x)[i] = s[i]
           /\ Append(s, x)[Len(s) + 1] = x
BY Z3

\* What is left of a sequence after its first d elements.
LEMMA Dropped ==
    ASSUME NEW S, NEW s \in Seq(S), NEW d \in Nat, d <= Len(s)
    PROVE  /\ SubSeq(s, d + 1, Len(s)) \in Seq(S) /\ Len(SubSeq(s, d + 1, Len(s))) = Len(s) - d
           /\ \A i \in 1..(Len(s) - d) : SubSeq(s, d + 1, Len(s))[i] = s[d + i]
BY Z3

\* Where the end of a segment may be.
LEMMA Within ==
    ASSUME NEW k \in Nat, NEW i \in 1..k, NEW n \in Nat
    PROVE  /\ i + n < k => i + n + 1 \in 1..k
           /\ i + n <= k => i \in 1..(k + 1) /\ i + n + 1 \in 1..(k + 1)
           /\ i + n <= k => i + n < k \/ i + n = k
OBVIOUS

\* Where a unit of a segment is.
LEMMA WithinSegment ==
    ASSUME NEW k \in Nat, NEW i \in Nat, NEW n \in Nat, NEW j \in 1..n, i + n <= k
    PROVE  i + j \in 1..k
OBVIOUS

\* A message sealed at the end of the boxes (EncryptMessage).
LEMMA MessageSealed ==
    ASSUME NEW s \in Seq(Boxes), NEW p \in Seq(Units), NEW a \in Nat, Holds(s, p, a, FALSE),
           NEW msg \in Seq(Units), NEW t \in Seq(Boxes), Len(t) = Len(msg) + 1,
           t[1].kind = "head", t[1].len = Len(msg), ~ t[1].goodbye,
           \A j \in 1..Len(msg) : t[j + 1].kind = "body" /\ t[j + 1].unit = msg[j]
    PROVE  Holds(s \o t, p \o msg, a, FALSE)
<1>a. PICK k \in Nat : k = Len(s)
  OBVIOUS
<1>b. PICK m \in Nat : m = Len(msg)
  OBVIOUS
<1>c. PICK q \in Nat : q = Len(p)
  OBVIOUS
<1>0. Len(t) = m + 1 /\ t[1].len = m /\ \A j \in 1..m : t[j + 1].kind = "body" /\ t[j + 1].unit = msg[j]
  BY <1>b
<1>1. PICK off \in [1..(k + 1) -> Nat] : HoldsAt(s, p, a, FALSE, off)
  BY <1>a DEF Holds
<1>2. PICK st \in Seq(Boxes) : st = s \o t
  BY Concatenated
<1>3. Len(st) = k + m + 1 /\ (\A i \in 1..k : st[i] = s[i]) /\ (\A i \in 1..(m + 1) : st[k + i] = t[i])
  <2>a. Len(s \o t) = Len(s) + Len(t)
    BY ConcatenatedLength
  <2>b. \A i \in 1..Len(s) : (s \o t)[i] = s[i]
    BY Concatenated
  <2>c. \A i \in 1..Len(t) : (s \o t)[Len(s) + i] = t[i]
    BY Concatenated
  <2>2. Len(s) + Len(t) = k + m + 1
    BY <1>a, <1>0
  <2> QED
    BY <1>a, <1>0, <1>2, <2>a, <2>b, <2>c, <2>2
<1>4. PICK pm \in Seq(Units) : pm = p \o msg
  BY Concatenated
<1>5. Len(pm) = q + m /\ (\A i \in 1..q : pm[i] = p[i]) /\ (\A i \in 1..m : pm[q + i] = msg[i])
  BY <1>b, <1>c, <1>4, Concatenated
<1>6. PICK new \in [1..(k + m + 2) -> Nat] :
          new = [i \in 1..(k + m + 2) |-> IF i <= k + 1 THEN off[i] ELSE q + m]
  <2>1. \A i \in 1..(k + 1) : off[i] \in Nat
    BY <1>1
  <2>2. \A i \in 1..(k + m + 2) : (IF i <= k + 1 THEN off[i] ELSE q + m) \in Nat
    <3>1. TAKE i \in 1..(k + m + 2)
    <3>2. i <= k + 1 => i \in 1..(k + 1)
      OBVIOUS
    <3>3. CASE i <= k + 1
      BY <2>1, <3>2, <3>3
    <3>4. CASE ~ (i <= k + 1)
      BY <3>4
    <3> QED
      BY <3>3, <3>4
  <2> QED
    BY <2>2
<1>7. (\A i \in 1..(k + 1) : new[i] = off[i]) /\ new[k + m + 2] = q + m
  <2>1. \A i \in 1..(k + 1) : new[i] = off[i]
    <3>1. TAKE i \in 1..(k + 1)
    <3>2. i \in 1..(k + m + 2) /\ i <= k + 1
      OBVIOUS
    <3> QED
      BY <1>6, <3>2
  <2>2. new[k + m + 2] = q + m
    <3>1. k + m + 2 \in 1..(k + m + 2) /\ ~ (k + m + 2 <= k + 1)
      OBVIOUS
    <3> QED
      BY <1>6, <3>1
  <2> QED
    BY <2>1, <2>2
<1>8. off[1] = a /\ off[k + 1] = q /\ \A i \in 1..(k + 1) : off[i] <= q
  BY <1>a, <1>c, <1>1 DEF HoldsAt
<1>9. new[1] = a /\ new[Len(st) + 1] = Len(pm) /\ \A i \in 1..(Len(st) + 1) : new[i] <= Len(pm)
  <2>1. new[1] = a /\ new[Len(st) + 1] = Len(pm)
    BY <1>0, <1>3, <1>5, <1>7, <1>8
  <2>2. ASSUME NEW i \in 1..(k + m + 2) PROVE new[i] <= q + m
    <3>1. CASE i <= k + 1
      <4>1. i \in 1..(k + 1) /\ off[i] \in Nat
        BY <1>0, <1>1, <3>1
      <4> QED
        BY <1>0, <1>7, <1>8, <4>1
    <3>2. CASE ~ (i <= k + 1)
      BY <1>0, <1>6, <3>2
    <3> QED
      BY <3>1, <3>2
  <2> QED
    BY <1>0, <1>3, <1>5, <2>1, <2>2
<1>10. st # << >> => st[1].kind = "head"
  <2>1. CASE k = 0
    BY <1>0, <1>3, <2>1
  <2>2. CASE k # 0
    <3>1. s # << >> /\ st[1] = s[1]
      BY <1>a, <1>0, <1>3, <2>2
    <3> QED
      BY <1>a, <1>1, <3>1 DEF HoldsAt
  <2> QED
    BY <2>1, <2>2
<1>11. ASSUME NEW i \in 1..Len(st), st[i].kind = "head"
       PROVE  ~ st[i].goodbye /\ Segment(st, pm, new, i)
  <2>1. CASE i <= k
    <3>1. i \in 1..k /\ st[i] = s[i] /\ s[i] \in Boxes
      BY <1>a, <1>3, <2>1
    <3>2. PICK n \in Nat : n = s[i].len
      BY <1>11, <3>1, HeadBox
    <3>3. ~ s[i].goodbye /\ Segment(s, p, off, i)
      BY <1>a, <1>1, <1>11, <3>1 DEF HoldsAt
    <3>4. /\ i + n <= k /\ off[i + n + 1] = off[i] + n
          /\ \A j \in 1..n : s[i + j].unit = p[off[i] + j]
          /\ i + n < k => s[i + n + 1].kind = "head"
      BY <1>a, <3>2, <3>3 DEF Segment
    <3>a. i + n <= k
      BY <3>4
    <3>b. i \in 1..(k + 1) /\ i + n + 1 \in 1..(k + 1)
      BY <3>1, <3>a, Within
    <3>c. off[i] \in Nat /\ off[i + n + 1] <= q /\ new[i] = off[i] /\ new[i + n + 1] = off[i + n + 1]
      BY <1>1, <1>7, <1>8, <3>b
    <3>5. off[i] \in Nat /\ off[i] + n <= q /\ new[i] = off[i] /\ new[i + n + 1] = off[i] + n
      BY <3>4, <3>c
    <3>6. \A j \in 1..n : st[i + j].unit = pm[new[i] + j]
      <4>1. TAKE j \in 1..n
      <4>a. j \in Nat /\ 1 <= j /\ j <= n /\ i \in Nat
        BY <3>1
      <4>b. off[i] \in Nat /\ off[i] + n <= q
        BY <3>5
      <4>2. i + j \in 1..k
        BY <3>a, <4>a
      <4>3. off[i] + j \in 1..q
        BY <4>b, WithinSegment
      <4>4. st[i + j] = s[i + j] /\ pm[off[i] + j] = p[off[i] + j] /\ s[i + j].unit = p[off[i] + j]
        BY <1>3, <1>5, <3>4, <4>2, <4>3
      <4> QED
        BY <3>5, <4>4
    <3>7. i + n < Len(st) => st[i + n + 1].kind = "head"
      <4>1. CASE i + n < k
        <5>1. i + n + 1 \in 1..k
          BY <3>1, <4>1, Within
        <5> QED
          BY <1>3, <3>4, <4>1, <5>1
      <4>2. CASE i + n = k
        <5>a. \A b \in 1..(m + 1) : st[k + b] = t[b]
          BY <1>3, Zenon
        <5>b. 1 \in 1..(m + 1)
          OBVIOUS
        <5>1. st[k + 1] = t[1]
          BY <5>a, <5>b, Zenon
        <5> QED
          BY <4>2, <5>1
      <4> QED
        BY <3>1, <3>a, <4>1, <4>2, Within
    <3>8. st[i].len = n /\ ~ st[i].goodbye
      BY <3>1, <3>2, <3>3
    <3>9. i + n <= Len(st) /\ new[i + n + 1] = new[i] + n
      BY <1>0, <1>3, <3>4, <3>5
    <3> QED
      BY <3>6, <3>7, <3>8, <3>9 DEF Segment
  <2>2. CASE i > k
    <3>a. i \in 1..(k + m + 1)
      BY <1>3
    <3>b. i - k \in 1..(m + 1) /\ i = k + (i - k)
      BY <2>2, <3>a
    <3>1. PICK b \in 1..(m + 1) : i = k + b
      BY <3>b
    <3>2. st[i] = t[b]
      BY <1>3, <3>1
    <3>3. b = 1
      <4>1. SUFFICES ASSUME b # 1 PROVE FALSE
        OBVIOUS
      <4>a. b - 1 \in 1..m /\ (b - 1) + 1 = b
        BY <4>1
      <4>2. t[(b - 1) + 1].kind = "body" /\ (b - 1) + 1 = b
        BY <1>0, <4>a
      <4> QED
        BY <1>11, <3>2, <4>2
    <3>4. i = k + 1 /\ st[i].len = m /\ ~ st[i].goodbye /\ new[i] = q /\ new[i + m + 1] = q + m
      BY <1>0, <1>7, <1>8, <3>1, <3>2, <3>3
    <3>5. \A j \in 1..m : st[i + j].unit = pm[new[i] + j]
      <4>1. TAKE j \in 1..m
      <4>a. j + 1 \in 1..(m + 1) /\ k + (j + 1) = i + j
        BY <3>4
      <4>b. \A x \in 1..(m + 1) : st[k + x] = t[x]
        BY <1>3
      <4>c. st[k + (j + 1)] = t[j + 1]
        BY <4>a, <4>b, Zenon
      <4>2. j + 1 \in 1..(m + 1) /\ st[k + (j + 1)] = t[j + 1] /\ k + (j + 1) = i + j
        BY <4>a, <4>c
      <4>3. pm[q + j] = msg[j] /\ t[j + 1].unit = msg[j]
        BY <1>0, <1>5
      <4>4. st[i + j] = t[j + 1] /\ new[i] = q
        BY <3>4, <4>2
      <4> QED
        BY <4>3, <4>4
    <3> QED
      BY <1>0, <1>3, <3>4, <3>5 DEF Segment
  <2>3. i <= k \/ i > k
    BY <1>3
  <2> QED
    BY <2>1, <2>2, <2>3
<1>12. HoldsAt(st, pm, a, FALSE, new)
  BY <1>9, <1>10, <1>11 DEF HoldsAt
<1>13. new \in [1..(Len(st) + 1) -> Nat]
  <2>1. Len(st) + 1 = k + m + 2
    BY <1>3
  <2> QED
    BY <1>6, <2>1
<1> QED
  BY <1>2, <1>4, <1>12, <1>13 DEF Holds

\* The goodbye is two units of zeros.
LEMMA GoodbyeUnits ==
    /\ Box!Zero \in Units /\ Box!Goodbye \in Seq(Units)
    /\ Len(Box!Goodbye) = 2 /\ Box!Goodbye[1] = Box!Zero /\ Box!Goodbye[2] = Box!Zero
<1>1. PICK z \in Units : z = Box!Zero
  BY DEF Box!Zero, Units
<1>2. << z, z >> \in Seq(Units) /\ Len(<< z, z >>) = 2 /\ << z, z >>[1] = z /\ << z, z >>[2] = z
  OBVIOUS
<1> QED
  BY <1>1, <1>2 DEF Box!Goodbye

\* The goodbye sealed at the end of the boxes (Close).
LEMMA GoodbyeSealed ==
    ASSUME NEW s \in Seq(Boxes), NEW p \in Seq(Units), NEW a \in Nat, Holds(s, p, a, FALSE),
           NEW b \in Boxes, b.kind = "head", b.len = 0, b.goodbye
    PROVE  Holds(Append(s, b), p \o Box!Goodbye, a, TRUE)
<1>a. PICK k \in Nat : k = Len(s)
  OBVIOUS
<1>c. PICK q \in Nat : q = Len(p)
  OBVIOUS
<1>1. PICK off \in [1..(k + 1) -> Nat] : HoldsAt(s, p, a, FALSE, off)
  BY <1>a DEF Holds
<1>d. Append(s, b) \in Seq(Boxes) /\ Len(Append(s, b)) = Len(s) + 1
  BY AppendedLength
<1>2. PICK st \in Seq(Boxes) : st = Append(s, b)
  BY <1>d
<1>3. Len(st) = k + 1 /\ (\A i \in 1..k : st[i] = s[i]) /\ st[k + 1] = b
  BY <1>a, <1>2
<1>4. PICK g \in Seq(Units) : g = Box!Goodbye /\ Len(g) = 2 /\ g[1] = Box!Zero /\ g[2] = Box!Zero
  BY GoodbyeUnits
<1>5. PICK pm \in Seq(Units) : pm = p \o g
  BY Concatenated
<1>6. Len(pm) = q + 2 /\ (\A i \in 1..q : pm[i] = p[i]) /\ pm[q + 1] = Box!Zero /\ pm[q + 2] = Box!Zero
  <2>1. Len(p \o g) = Len(p) + Len(g)
    BY Concatenated
  <2>2. \A i \in 1..Len(p) : (p \o g)[i] = p[i]
    BY Concatenated
  <2>3. \A i \in 1..Len(g) : (p \o g)[Len(p) + i] = g[i]
    BY Concatenated
  <2>4. pm[q + 1] = Box!Zero /\ pm[q + 2] = Box!Zero
    <3>1. 1 \in 1..Len(g) /\ 2 \in 1..Len(g)
      BY <1>4
    <3>2. (p \o g)[Len(p) + 1] = g[1] /\ (p \o g)[Len(p) + 2] = g[2]
      BY <2>3, <3>1
    <3> QED
      BY <1>c, <1>4, <1>5, <3>2
  <2> QED
    BY <1>c, <1>4, <1>5, <2>1, <2>2, <2>4
<1>7. \A i \in 1..(k + 1) : off[i] \in Nat
  BY <1>1
<1>8. PICK new \in [1..(k + 2) -> Nat] :
          new = [i \in 1..(k + 2) |-> IF i <= k + 1 THEN off[i] ELSE q + 2]
  <2>2. \A i \in 1..(k + 2) : (IF i <= k + 1 THEN off[i] ELSE q + 2) \in Nat
    <3>1. TAKE i \in 1..(k + 2)
    <3>2. i <= k + 1 => i \in 1..(k + 1)
      OBVIOUS
    <3> QED
      BY <1>7, <3>2
  <2> QED
    BY <2>2
<1>9. (\A i \in 1..(k + 1) : new[i] = off[i]) /\ new[k + 2] = q + 2
  BY <1>8
<1>10. off[1] = a /\ off[k + 1] = q /\ \A i \in 1..(k + 1) : off[i] <= q
  BY <1>a, <1>c, <1>1 DEF HoldsAt
<1>11. new[1] = a /\ new[k + 2] = q + 2 /\ \A i \in 1..(k + 2) : new[i] <= q + 2
  <2>1. ASSUME NEW i \in 1..(k + 2) PROVE new[i] <= q + 2
    <3>1. CASE i = k + 2
      BY <1>9, <3>1
    <3>2. CASE i # k + 2
      <4>1. i \in 1..(k + 1)
        BY <3>2
      <4> QED
        BY <1>7, <1>9, <1>10, <4>1
    <3> QED
      BY <3>1, <3>2
  <2> QED
    BY <1>9, <1>10, <2>1
<1>12. st[1].kind = "head"
  <2>1. CASE k = 0
    BY <1>3, <2>1
  <2>2. CASE k # 0
    <3>1. s # << >> /\ st[1] = s[1]
      BY <1>a, <1>3, <2>2
    <3> QED
      BY <1>1, <3>1 DEF HoldsAt
  <2> QED
    BY <2>1, <2>2
<1>13. ASSUME NEW i \in 1..(k + 1), st[i].kind = "head"
       PROVE  /\ st[i].goodbye => LastSegment(st, pm, new, i)
              /\ ~ st[i].goodbye => Segment(st, pm, new, i)
  <2>1. CASE i = k + 1
    <3>1. st[i] = b /\ new[i] = q /\ new[i + 1] = q + 2
      BY <1>3, <1>9, <1>10, <2>1
    <3> QED
      BY <1>3, <1>6, <2>1, <3>1 DEF LastSegment
  <2>2. CASE i # k + 1
    <3>1. i \in 1..k
      BY <2>2
    <3>2. st[i] = s[i] /\ s[i] \in Boxes
      BY <1>a, <1>3, <3>1
    <3>3. PICK n \in Nat : n = s[i].len
      BY <1>13, <3>2, HeadBox
    <3>4. ~ s[i].goodbye /\ Segment(s, p, off, i)
      BY <1>a, <1>1, <1>13, <3>1, <3>2 DEF HoldsAt
    <3>5. /\ i + n <= k /\ off[i + n + 1] = off[i] + n
          /\ \A j \in 1..n : s[i + j].unit = p[off[i] + j]
          /\ i + n < k => s[i + n + 1].kind = "head"
      BY <1>a, <3>3, <3>4 DEF Segment
    <3>6. i + n <= k
      BY <3>5
    <3>7. i \in 1..(k + 1) /\ i + n + 1 \in 1..(k + 1)
      BY <3>1, <3>6, Within
    <3>8. off[i] \in Nat /\ off[i + n + 1] <= q /\ new[i] = off[i] /\ new[i + n + 1] = off[i + n + 1]
      BY <1>7, <1>9, <1>10, <3>7
    <3>9. off[i] \in Nat /\ off[i] + n <= q /\ new[i] = off[i] /\ new[i + n + 1] = off[i] + n
      BY <3>5, <3>8
    <3>10. \A j \in 1..n : st[i + j].unit = pm[new[i] + j]
      <4>1. TAKE j \in 1..n
      <4>a. i + j \in 1..k
        BY <3>1, <3>6, WithinSegment
      <4>b. off[i] + j \in 1..q
        BY <3>9, WithinSegment
      <4>2. i + j \in 1..k /\ off[i] + j \in 1..q
        BY <4>a, <4>b
      <4>3. st[i + j] = s[i + j] /\ pm[off[i] + j] = p[off[i] + j] /\ s[i + j].unit = p[off[i] + j]
        BY <1>3, <1>6, <3>5, <4>2
      <4> QED
        BY <3>9, <4>3
    <3>11. st[i + n + 1].kind = "head"
      <4>1. CASE i + n < k
        <5>1. i + n + 1 \in 1..k
          BY <3>1, <4>1, Within
        <5> QED
          BY <1>3, <3>5, <4>1, <5>1
      <4>2. CASE i + n = k
        BY <1>3, <4>2
      <4> QED
        BY <3>1, <3>6, <4>1, <4>2, Within
    <3>12. st[i].len = n /\ ~ st[i].goodbye
      BY <3>2, <3>3, <3>4
    <3>13. i + n <= k + 1 /\ new[i + n + 1] = new[i] + n
      BY <3>6, <3>9
    <3> QED
      BY <1>3, <3>10, <3>11, <3>12, <3>13 DEF Segment
  <2> QED
    BY <2>1, <2>2
<1>14. HoldsAt(st, pm, a, TRUE, new)
  BY <1>3, <1>6, <1>11, <1>12, <1>13 DEF HoldsAt
<1> QED
  <2>1. Len(st) + 1 = k + 2
    BY <1>3
  <2>2. new \in [1..(Len(st) + 1) -> Nat]
    BY <1>8, <2>1
  <2>3. Holds(st, pm, a, TRUE)
    BY <1>14, <2>2 DEF Holds
  <2> QED
    BY <1>2, <1>4, <1>5, <2>3

\* The first message of the boxes s is n units long and in d boxes.
FirstMessage(s, n, d) ==
    /\ ~ s[1].goodbye => n = s[1].len /\ d = n + 1
    /\ s[1].goodbye => n = 2 /\ d = 1

\* It has the n units of p after the first a.
FirstUnits(s, p, a, n) ==
    /\ ~ s[1].goodbye => \A j \in 1..n : s[1 + j].unit = p[a + j]
    /\ s[1].goodbye => Len(s) = 1 /\ \A j \in 1..n : p[a + j] = Box!Zero

\* A message taken from the front of the boxes (NextMessage).
LEMMA MessageTaken ==
    ASSUME NEW s \in Seq(Boxes), NEW p \in Seq(Units), NEW a \in Nat, NEW c \in BOOLEAN,
           Holds(s, p, a, c), s # << >>, NEW n \in Nat, NEW d \in Nat,
           FirstMessage(s, n, d)
    PROVE  /\ a + n <= Len(p) /\ d <= Len(s)
           /\ FirstUnits(s, p, a, n)
           /\ Holds(SubSeq(s, d + 1, Len(s)), p, a + n, c)
<1>a. PICK k \in Nat : k = Len(s)
  OBVIOUS
<1>c. PICK q \in Nat : q = Len(p)
  OBVIOUS
<1>1. PICK off \in [1..(k + 1) -> Nat] : HoldsAt(s, p, a, c, off)
  BY <1>a DEF Holds
<1>2. 1 \in 1..k /\ s[1] \in Boxes /\ s[1].kind = "head"
  BY <1>a, <1>1 DEF HoldsAt
<1>3. s[1].len \in Nat /\ s[1].goodbye \in BOOLEAN
  BY <1>2, HeadBox
<1>4. /\ s[1].goodbye => c /\ LastSegment(s, p, off, 1)
      /\ ~ s[1].goodbye => Segment(s, p, off, 1)
  BY <1>a, <1>1, <1>2 DEF HoldsAt
<1>5. off[1] = a /\ off[k + 1] = q /\ \A i \in 1..(k + 1) : off[i] <= q
  BY <1>a, <1>c, <1>1 DEF HoldsAt
<1>6. /\ d <= k /\ off[d + 1] = a + n
      /\ ~ s[1].goodbye => \A j \in 1..n : s[1 + j].unit = p[a + j]
      /\ s[1].goodbye => \A j \in 1..n : p[a + j] = Box!Zero
      /\ s[1].goodbye => k = 1
      /\ d < k => s[d + 1].kind = "head"
  <2>1. CASE s[1].goodbye
    <3>1. LastSegment(s, p, off, 1) /\ n = 2 /\ d = 1
      BY <1>4, <2>1 DEF FirstMessage
    <3>a. 1 = Len(s) /\ off[1 + 1] = off[1] + 2 /\ p[off[1] + 1] = Box!Zero /\ p[off[1] + 2] = Box!Zero
      BY <3>1 DEF LastSegment
    <3>b. off[1] = a
      BY <1>5
    <3>c. 1 + 1 = 2
      OBVIOUS
    <3>2. k = 1 /\ off[2] = a + 2 /\ p[a + 1] = Box!Zero /\ p[a + 2] = Box!Zero
      BY <1>a, <3>a, <3>b, <3>c
    <3>3. \A j \in 1..2 : p[a + j] = Box!Zero
      BY <3>2
    <3> QED
      BY <2>1, <3>1, <3>2, <3>3
  <2>2. CASE ~ s[1].goodbye
    <3>1. Segment(s, p, off, 1) /\ n = s[1].len /\ d = n + 1
      BY <1>4, <2>2 DEF FirstMessage
    <3>2. 1 + n <= k /\ (\A j \in 1..n : s[1 + j].unit = p[a + j]) /\ off[1 + n + 1] = a + n
          /\ (1 + n < k => s[1 + n + 1].kind = "head")
      BY <1>a, <1>5, <3>1 DEF Segment
    <3>3. 1 + n = d /\ 1 + n + 1 = d + 1
      BY <3>1
    <3> QED
      BY <2>2, <3>2, <3>3
  <2> QED
    BY <2>1, <2>2
<1>7. d <= k /\ d + 1 \in 1..(k + 1) /\ a + n <= q
  <2>1. d <= k /\ off[d + 1] = a + n
    BY <1>6
  <2>2. d + 1 \in 1..(k + 1)
    BY <2>1
  <2> QED
    BY <1>5, <2>1, <2>2
<1>8. PICK r \in Seq(Boxes) : r = SubSeq(s, d + 1, Len(s))
  BY <1>a, <1>7, Dropped
<1>9. Len(r) = k - d /\ \A i \in 1..(k - d) : r[i] = s[d + i]
  BY <1>a, <1>7, <1>8, Dropped
<1>10. PICK h \in Nat : h = k - d
  BY <1>7
<1>11. PICK new \in [1..(h + 1) -> Nat] : new = [i \in 1..(h + 1) |-> off[d + i]]
  <2>1. \A i \in 1..(h + 1) : d + i \in 1..(k + 1)
    BY <1>10
  <2> QED
    BY <1>1, <2>1
<1>12. \A i \in 1..(h + 1) : d + i \in 1..(k + 1) /\ new[i] = off[d + i]
  BY <1>10, <1>11
<1>13. new[1] = a + n /\ new[h + 1] = q /\ \A i \in 1..(h + 1) : new[i] <= q
  <2>1. new[1] = off[d + 1]
    BY <1>12
  <2>2. new[h + 1] = off[k + 1]
    BY <1>10, <1>12
  <2> QED
    BY <1>5, <1>6, <1>12, <2>1, <2>2
<1>14. r # << >> => r[1].kind = "head"
  <2>1. SUFFICES ASSUME r # << >> PROVE r[1].kind = "head"
    OBVIOUS
  <2>2. 1 \in 1..h /\ d < k
    BY <1>9, <1>10, <2>1
  <2>3. r[1] = s[d + 1]
    BY <1>9, <1>10, <2>2
  <2> QED
    BY <1>6, <2>2, <2>3
<1>15. ASSUME NEW i \in 1..h, r[i].kind = "head"
       PROVE  /\ r[i].goodbye => c /\ LastSegment(r, p, new, i)
              /\ ~ r[i].goodbye => Segment(r, p, new, i)
  <2>1. PICK e \in 1..k : e = d + i
    BY <1>10
  <2>2. r[i] = s[e] /\ s[e] \in Boxes
    BY <1>a, <1>9, <1>10, <2>1
  <2>3. /\ s[e].goodbye => c /\ LastSegment(s, p, off, e)
        /\ ~ s[e].goodbye => Segment(s, p, off, e)
    BY <1>a, <1>1, <1>15, <2>2 DEF HoldsAt
  <2>4. i \in 1..(h + 1) /\ new[i] = off[e]
    BY <1>12, <2>1
  <2>5. ASSUME r[i].goodbye PROVE c /\ LastSegment(r, p, new, i)
    <3>1. c /\ LastSegment(s, p, off, e)
      BY <2>2, <2>3, <2>5
    <3>2. e = k /\ s[e].len = 0 /\ off[e + 1] = off[e] + 2 /\ p[off[e] + 1] = Box!Zero /\ p[off[e] + 2] = Box!Zero
      BY <1>a, <3>1 DEF LastSegment
    <3>3. i = h /\ i + 1 \in 1..(h + 1) /\ d + (i + 1) = e + 1
      <4>1. d + i = k
        BY <2>1, <3>2
      <4> QED
        BY <1>10, <2>1, <4>1
    <3>4. new[i + 1] = off[e + 1]
      BY <1>12, <3>3
    <3> QED
      BY <1>9, <1>10, <2>2, <2>4, <3>1, <3>2, <3>3, <3>4 DEF LastSegment
  <2>6. ASSUME ~ r[i].goodbye PROVE Segment(r, p, new, i)
    <3>1. PICK m \in Nat : m = s[e].len
      BY <1>15, <2>2, HeadBox
    <3>2. Segment(s, p, off, e)
      BY <2>2, <2>3, <2>6
    <3>3. /\ e + m <= k /\ off[e + m + 1] = off[e] + m
          /\ \A j \in 1..m : s[e + j].unit = p[off[e] + j]
          /\ e + m < k => s[e + m + 1].kind = "head"
      BY <1>a, <3>1, <3>2 DEF Segment
    <3>4. e + m <= k
      BY <3>3
    <3>5. i + m <= h /\ i + m + 1 \in 1..(h + 1) /\ d + (i + m + 1) = e + m + 1
      BY <1>10, <2>1, <3>4
    <3>6. new[i + m + 1] = new[i] + m
      BY <1>12, <2>4, <3>3, <3>5
    <3>7. \A j \in 1..m : r[i + j].unit = p[new[i] + j]
      <4>1. TAKE j \in 1..m
      <4>2. i + j \in 1..h /\ d + (i + j) = e + j
        BY <2>1, <3>5, WithinSegment
      <4>3. r[i + j] = s[e + j]
        BY <1>9, <1>10, <4>2
      <4> QED
        BY <2>4, <3>3, <4>3
    <3>8. i + m < h => r[i + m + 1].kind = "head"
      <4>1. SUFFICES ASSUME i + m < h PROVE r[i + m + 1].kind = "head"
        OBVIOUS
      <4>2. i + m + 1 \in 1..h /\ e + m < k
        BY <1>10, <2>1, <4>1
      <4>3. r[i + m + 1] = s[d + (i + m + 1)]
        BY <1>9, <1>10, <4>2
      <4> QED
        BY <3>3, <3>5, <4>2, <4>3
    <3>9. r[i].len = m /\ Len(r) = h
      BY <1>9, <1>10, <2>2, <3>1
    <3> QED
      BY <3>5, <3>6, <3>7, <3>8, <3>9 DEF Segment
  <2> QED
    BY <2>5, <2>6
<1>16. HoldsAt(r, p, a + n, c, new)
  BY <1>c, <1>9, <1>10, <1>13, <1>14, <1>15 DEF HoldsAt
<1>17. Holds(r, p, a + n, c)
  BY <1>9, <1>10, <1>16 DEF Holds
<1>18. FirstUnits(s, p, a, n)
  BY <1>a, <1>6 DEF FirstUnits
<1> QED
  BY <1>a, <1>c, <1>7, <1>8, <1>17, <1>18

-----------------------------------------------------------------------------
\* Unit u is the one that ends the first k units of the body of packet i, where the
\* packets have the lengths sn; the header ends the first 0 of them.
At(sn, u, i, k) ==
    /\ i \in 1..Len(sn) /\ k \in 0..sn[i]
    /\ u = IF k = 0 THEN Box!HeaderUnit(i, sn[i]) ELSE Box!BodyUnit(i, k)

\* Unit v may follow unit u: a packet is written from its header to the end of its body,
\* unless it is the last one and cut, and after the goodbye there is nothing else.
FollowsAt(sn, cut, v, i, k) ==
    /\ k < sn[i] => At(sn, v, i, k + 1) \/ (v = Box!Zero /\ cut /\ i = Len(sn))
    /\ k = sn[i] => At(sn, v, i + 1, 0) \/ v = Box!Zero
Follows(sn, cut, u, v) ==
    /\ u = Box!Zero => v = Box!Zero
    /\ \A i, k \in Nat : At(sn, u, i, k) => FollowsAt(sn, cut, v, i, k)

\* The plaintext p is that of the packets, in order.
InOrder(sn, cut, p) ==
    /\ p # << >> => At(sn, p[1], 1, 0) \/ p[1] = Box!Zero
    /\ \A q \in 1..Len(p) : p[q] = Box!Zero \/ \E i, k \in Nat : At(sn, p[q], i, k)
    /\ \A q \in Nat : q \in 1..Len(p) /\ q + 1 \in 1..Len(p) => Follows(sn, cut, p[q], p[q + 1])

\* A unit of a packet is not a zero, and has one place.
LEMMA OnePlace ==
    ASSUME NEW sn, NEW u, NEW i \in Nat, NEW k \in Nat, At(sn, u, i, k)
    PROVE  u # Box!Zero /\ u.pkt = i /\ u.part = k
BY DEF At, Box!HeaderUnit, Box!BodyUnit, Box!Zero

\* A unit keeps its place when another packet is begun.
LEMMA PlaceStays ==
    ASSUME NEW sn \in Seq(Nat), NEW n \in Nat, NEW u, NEW i \in Nat, NEW k \in Nat, At(sn, u, i, k)
    PROVE  At(Append(sn, n), u, i, k) /\ Append(sn, n)[i] = sn[i]
<1>1. i \in 1..Len(sn) /\ i \in 1..Len(Append(sn, n)) /\ Append(sn, n)[i] = sn[i]
  BY DEF At
<1> QED
  BY <1>1 DEF At

\* What follows a unit whose place is known.
LEMMA FollowsPlace ==
    ASSUME NEW sn, NEW cut, NEW u, NEW v, NEW i \in Nat, NEW k \in Nat, At(sn, u, i, k),
           FollowsAt(sn, cut, v, i, k)
    PROVE  Follows(sn, cut, u, v)
<1>1. u # Box!Zero /\ u.pkt = i /\ u.part = k
  BY OnePlace
<1>2. ASSUME NEW i2 \in Nat, NEW k2 \in Nat, At(sn, u, i2, k2) PROVE i2 = i /\ k2 = k
  BY <1>1, <1>2, OnePlace
<1> QED
  BY <1>1, <1>2 DEF Follows

\* The header of a packet is written (WriteHeader).
LEMMA HeaderInOrder ==
    ASSUME NEW sn \in Seq(Nat), NEW p \in Seq(Units), NEW n \in Nat, NEW h \in Units,
           h = Box!HeaderUnit(Len(sn) + 1, n), InOrder(sn, FALSE, p),
           \A q \in 1..Len(p) : p[q] # Box!Zero,
           p # << >> => sn # << >> /\ At(sn, p[Len(p)], Len(sn), sn[Len(sn)]),
           p = << >> => sn = << >>
    PROVE  /\ InOrder(Append(sn, n), FALSE, Append(p, h))
           /\ \A q \in 1..Len(Append(p, h)) : Append(p, h)[q] # Box!Zero
           /\ At(Append(sn, n), h, Len(sn) + 1, 0)
<1>a. PICK s2 \in Seq(Nat) : s2 = Append(sn, n) /\ Len(s2) = Len(sn) + 1 /\ s2[Len(sn) + 1] = n
                             /\ \A i \in 1..Len(sn) : s2[i] = sn[i]
  <2>1. Append(sn, n) \in Seq(Nat) /\ Len(Append(sn, n)) = Len(sn) + 1
    BY AppendedLength
  <2>2. Append(sn, n)[Len(sn) + 1] = n /\ \A i \in 1..Len(sn) : Append(sn, n)[i] = sn[i]
    OBVIOUS
  <2> QED
    BY <2>1, <2>2
<1>b. Append(p, h) \in Seq(Units) /\ Len(Append(p, h)) = Len(p) + 1
  BY AppendedLength
<1>c. PICK p2 \in Seq(Units) : p2 = Append(p, h)
  BY <1>b
<1>d. PICK m \in Nat : m = Len(p)
  OBVIOUS
<1>e. Len(p2) = m + 1 /\ (\A i \in 1..m : p2[i] = p[i]) /\ p2[m + 1] = h
  BY <1>c, <1>d
<1>f. PICK j \in Nat : j = Len(sn)
  OBVIOUS
<1>1. At(s2, h, j + 1, 0)
  <2>1. Len(s2) = j + 1 /\ s2[j + 1] = n /\ j + 1 \in 1..(j + 1) /\ 0 \in 0..n
    BY <1>a, <1>f
  <2>2. h = Box!HeaderUnit(j + 1, n)
    BY <1>f
  <2> QED
    BY <2>1, <2>2 DEF At
<1>2. h # Box!Zero
  BY <1>1, OnePlace
<1>3. ASSUME NEW q \in 1..m
      PROVE  p2[q] = p[q] /\ p2[q] # Box!Zero /\ \E i, k \in Nat : At(sn, p[q], i, k) /\ At(s2, p2[q], i, k)
  <2>1. p2[q] = p[q] /\ q \in 1..Len(p)
    BY <1>d, <1>e
  <2>2. PICK i, k \in Nat : At(sn, p[q], i, k)
    BY <2>1 DEF InOrder
  <2>3. At(s2, p[q], i, k)
    BY <1>a, <2>2, PlaceStays
  <2> QED
    BY <2>1, <2>2, <2>3
<1>4. ASSUME NEW q \in 1..(m + 1)
      PROVE  p2[q] # Box!Zero /\ \E i, k \in Nat : At(s2, p2[q], i, k)
  <2>1. CASE q = m + 1
    BY <1>1, <1>2, <1>e, <1>f, <2>1
  <2>2. CASE q # m + 1
    <3>1. q \in 1..m
      BY <2>2
    <3> QED
      BY <1>3, <3>1
  <2> QED
    BY <2>1, <2>2
<1>5. At(s2, p2[1], 1, 0)
  <2>1. CASE m = 0
    <3>a. Len(p) = 0
      BY <1>d, <2>1
    <3>b. p = << >>
      BY <3>a
    <3>1. p = << >> /\ p2[1] = h
      BY <1>e, <2>1, <3>b
    <3>2. j = 0
      BY <1>f, <3>1
    <3> QED
      BY <1>1, <3>1, <3>2
  <2>2. CASE m # 0
    <3>1. p # << >> /\ 1 \in 1..m
      BY <1>d, <2>2
    <3>2. At(sn, p[1], 1, 0)
      BY <1>d, <3>1 DEF InOrder
    <3>3. At(s2, p[1], 1, 0)
      BY <1>a, <3>2, PlaceStays
    <3> QED
      BY <1>e, <3>1, <3>3
  <2> QED
    BY <2>1, <2>2
<1>6. ASSUME NEW q \in Nat, q \in 1..(m + 1), q + 1 \in 1..(m + 1)
      PROVE  Follows(s2, FALSE, p2[q], p2[q + 1])
  <2>1. q \in 1..m
    BY <1>6
  <2>2. PICK i, k \in Nat : At(sn, p[q], i, k) /\ At(s2, p2[q], i, k)
    BY <1>3, <2>1
  <2>3. i \in 1..Len(sn) /\ s2[i] = sn[i] /\ k \in 0..sn[i] /\ sn[i] \in Nat
    BY <1>a, <2>2 DEF At
  <2>4. FollowsAt(s2, FALSE, p2[q + 1], i, k)
    <3>1. CASE q = m
      <4>1. p # << >> /\ q = Len(p) /\ p2[q + 1] = h
        BY <1>d, <1>e, <2>1, <3>1
      <4>2. At(sn, p[q], Len(sn), sn[Len(sn)]) /\ Len(sn) \in Nat /\ sn[Len(sn)] \in Nat
        <5>1. At(sn, p[Len(p)], Len(sn), sn[Len(sn)]) /\ sn # << >>
          BY <4>1
        <5>2. Len(sn) \in Nat /\ sn[Len(sn)] \in Nat
          BY <5>1
        <5> QED
          BY <4>1, <5>1, <5>2
      <4>3. i = Len(sn) /\ k = sn[i]
        <5>1. p[q].pkt = i /\ p[q].part = k
          BY <2>2, OnePlace
        <5>2. p[q].pkt = Len(sn) /\ p[q].part = sn[Len(sn)]
          BY <4>2, OnePlace
        <5> QED
          BY <5>1, <5>2
      <4>4. At(s2, p2[q + 1], i + 1, 0) /\ ~ (k < s2[i])
        BY <1>1, <1>f, <2>3, <4>1, <4>3
      <4> QED
        BY <4>4 DEF FollowsAt
    <3>2. CASE q # m
      <4>1. q + 1 \in 1..m
        BY <1>6, <3>2
      <4>2. p2[q + 1] = p[q + 1] /\ p[q + 1] # Box!Zero
        BY <1>3, <4>1
      <4>3. Follows(sn, FALSE, p[q], p[q + 1])
        BY <1>d, <2>1, <4>1 DEF InOrder
      <4>4. FollowsAt(sn, FALSE, p[q + 1], i, k)
        BY <2>2, <4>3 DEF Follows
      <4>5. (k < sn[i] => At(sn, p[q + 1], i, k + 1)) /\ (k = sn[i] => At(sn, p[q + 1], i + 1, 0))
        BY <4>2, <4>4 DEF FollowsAt
      <4>6. k < sn[i] => At(s2, p[q + 1], i, k + 1)
        BY <1>a, <4>5, PlaceStays
      <4>7. k = sn[i] => At(s2, p[q + 1], i + 1, 0)
        BY <1>a, <4>5, PlaceStays
      <4> QED
        BY <2>3, <4>2, <4>6, <4>7 DEF FollowsAt
    <3> QED
      BY <3>1, <3>2
  <2> QED
    BY <2>2, <2>4, FollowsPlace
<1>7. InOrder(s2, FALSE, p2)
  BY <1>4, <1>5, <1>6, <1>e DEF InOrder
<1> QED
  BY <1>a, <1>c, <1>e, <1>f, <1>1, <1>4, <1>7

\* Units of the body of the packet that is being written are written (WriteBody).
LEMMA BodyInOrder ==
    ASSUME NEW sn \in Seq(Nat), NEW p \in Seq(Units), InOrder(sn, FALSE, p),
           \A q \in 1..Len(p) : p[q] # Box!Zero, p # << >>,
           NEW i \in Nat, NEW k \in Nat, At(sn, p[Len(p)], i, k),
           NEW msg \in Seq(Units), k + Len(msg) <= sn[i],
           \A j \in 1..Len(msg) : msg[j] = Box!BodyUnit(i, k + j)
    PROVE  /\ InOrder(sn, FALSE, p \o msg)
           /\ \A q \in 1..Len(p \o msg) : (p \o msg)[q] # Box!Zero
           /\ At(sn, (p \o msg)[Len(p \o msg)], i, k + Len(msg))
<1>d. PICK m \in Nat : m = Len(p)
  OBVIOUS
<1>g. PICK n \in Nat : n = Len(msg)
  OBVIOUS
<1>b. p \o msg \in Seq(Units) /\ Len(p \o msg) = Len(p) + Len(msg)
  BY ConcatenatedLength
<1>c. PICK p2 \in Seq(Units) : p2 = p \o msg
  BY <1>b
<1>e. Len(p2) = m + n /\ (\A q \in 1..m : p2[q] = p[q]) /\ (\A j \in 1..n : p2[m + j] = msg[j])
  BY <1>b, <1>c, <1>d, <1>g, Concatenated
<1>f. m # 0 /\ i \in 1..Len(sn) /\ sn[i] \in Nat /\ k + n <= sn[i]
  BY <1>d, <1>g DEF At
<1>1. ASSUME NEW j \in 0..n PROVE At(sn, p2[m + j], i, k + j)
  <2>1. CASE j = 0
    <3>1. m \in 1..m /\ m + j = m /\ k + j = k
      BY <1>f, <2>1
    <3>2. p2[m + j] = p[Len(p)]
      BY <1>d, <1>e, <3>1
    <3> QED
      BY <3>1, <3>2
  <2>2. CASE j # 0
    <3>1. j \in 1..n /\ k + j \in 0..sn[i] /\ k + j # 0
      BY <1>f, <2>2
    <3>2. p2[m + j] = Box!BodyUnit(i, k + j)
      BY <1>e, <1>g, <3>1
    <3> QED
      BY <1>f, <3>1, <3>2 DEF At
  <2> QED
    BY <2>1, <2>2
<1>2. ASSUME NEW q \in 1..(m + n)
      PROVE  p2[q] # Box!Zero /\ \E i2, k2 \in Nat : At(sn, p2[q], i2, k2)
  <2>1. CASE q \in 1..m
    <3>1. p2[q] = p[q] /\ q \in 1..Len(p)
      BY <1>d, <1>e, <2>1
    <3> QED
      BY <3>1 DEF InOrder
  <2>2. CASE ~ (q \in 1..m)
    <3>1. q - m \in 0..n /\ m + (q - m) = q /\ k + (q - m) \in Nat
      BY <2>2
    <3>2. At(sn, p2[m + (q - m)], i, k + (q - m))
      BY <1>1, <3>1
    <3>3. At(sn, p2[q], i, k + (q - m))
      BY <3>1, <3>2
    <3> QED
      BY <3>1, <3>3, OnePlace
  <2> QED
    BY <2>1, <2>2
<1>3. At(sn, p2[1], 1, 0)
  <2>1. 1 \in 1..m /\ 1 \in 1..Len(p)
    BY <1>d, <1>f
  <2> QED
    BY <1>e, <2>1 DEF InOrder
<1>4. ASSUME NEW q \in Nat, q \in 1..(m + n), q + 1 \in 1..(m + n)
      PROVE  Follows(sn, FALSE, p2[q], p2[q + 1])
  <2>1. CASE q < m
    <3>1. q \in 1..m /\ q + 1 \in 1..m
      BY <1>4, <2>1
    <3>2. Follows(sn, FALSE, p[q], p[q + 1])
      BY <1>d, <3>1 DEF InOrder
    <3> QED
      BY <1>e, <3>1, <3>2
  <2>2. CASE ~ (q < m)
    <3>1. PICK j \in Nat : q = m + j /\ j \in 0..n /\ j + 1 \in 0..n
      <4>1. q - m \in Nat /\ q = m + (q - m) /\ q - m \in 0..n /\ (q - m) + 1 \in 0..n
        BY <1>4, <2>2
      <4> QED
        BY <4>1
    <3>2. At(sn, p2[m + j], i, k + j) /\ At(sn, p2[m + (j + 1)], i, k + (j + 1))
      BY <1>1, <3>1
    <3>3. m + (j + 1) = q + 1 /\ k + (j + 1) = (k + j) + 1 /\ k + j \in Nat
      BY <3>1
    <3>4. At(sn, p2[q], i, k + j) /\ At(sn, p2[q + 1], i, (k + j) + 1)
      BY <3>1, <3>2, <3>3
    <3>5. k + j < sn[i]
      BY <1>f, <3>1
    <3>6. FollowsAt(sn, FALSE, p2[q + 1], i, k + j)
      BY <1>f, <3>3, <3>4, <3>5 DEF FollowsAt
    <3> QED
      BY <3>3, <3>4, <3>6, FollowsPlace
  <2> QED
    BY <2>1, <2>2
<1>5. InOrder(sn, FALSE, p2)
  BY <1>2, <1>3, <1>4, <1>e DEF InOrder
<1>6. At(sn, p2[m + n], i, k + n)
  <2>1. n \in 0..n
    OBVIOUS
  <2> QED
    BY <1>1, <2>1
<1> QED
  BY <1>c, <1>e, <1>g, <1>2, <1>5, <1>6

\* The goodbye is written, perhaps in the place of a body (Close).
LEMMA GoodbyeInOrder ==
    ASSUME NEW sn \in Seq(Nat), NEW p \in Seq(Units), InOrder(sn, FALSE, p), NEW cut \in BOOLEAN,
           \A q \in 1..Len(p) : p[q] # Box!Zero,
           p # << >> => sn # << >> /\ \E k \in Nat : /\ At(sn, p[Len(p)], Len(sn), k)
                                                     /\ ~ cut => k = sn[Len(sn)]
    PROVE  InOrder(sn, cut, p \o Box!Goodbye)
<1>d. PICK m \in Nat : m = Len(p)
  OBVIOUS
<1>a. PICK g \in Seq(Units) : g = Box!Goodbye /\ Len(g) = 2 /\ g[1] = Box!Zero /\ g[2] = Box!Zero
  BY GoodbyeUnits
<1>b. p \o g \in Seq(Units) /\ Len(p \o g) = Len(p) + Len(g)
  BY ConcatenatedLength
<1>c. PICK p2 \in Seq(Units) : p2 = p \o g
  BY <1>b
<1>e. Len(p2) = m + 2 /\ (\A q \in 1..m : p2[q] = p[q]) /\ p2[m + 1] = Box!Zero /\ p2[m + 2] = Box!Zero
  <2>1. \A i \in 1..Len(p) : (p \o g)[i] = p[i]
    BY Concatenated
  <2>2. \A i \in 1..Len(g) : (p \o g)[Len(p) + i] = g[i]
    BY Concatenated
  <2>3. 1 \in 1..Len(g) /\ 2 \in 1..Len(g)
    BY <1>a
  <2>4. (p \o g)[Len(p) + 1] = g[1] /\ (p \o g)[Len(p) + 2] = g[2]
    BY <2>2, <2>3
  <2> QED
    BY <1>a, <1>b, <1>c, <1>d, <2>1, <2>4
<1>1. p2 # << >> => At(sn, p2[1], 1, 0) \/ p2[1] = Box!Zero
  <2>1. CASE m = 0
    BY <1>e, <2>1
  <2>2. CASE m # 0
    <3>1. 1 \in 1..m /\ p # << >>
      BY <1>d, <2>2
    <3> QED
      BY <1>e, <3>1 DEF InOrder
  <2> QED
    BY <2>1, <2>2
<1>2. ASSUME NEW q \in 1..(m + 2)
      PROVE  p2[q] = Box!Zero \/ \E i, k \in Nat : At(sn, p2[q], i, k)
  <2>1. CASE q \in 1..m
    BY <1>d, <1>e, <2>1 DEF InOrder
  <2>2. CASE ~ (q \in 1..m)
    <3>1. q = m + 1 \/ q = m + 2
      BY <2>2
    <3> QED
      BY <1>e, <3>1
  <2> QED
    BY <2>1, <2>2
<1>3. ASSUME NEW q \in Nat, q \in 1..(m + 2), q + 1 \in 1..(m + 2)
      PROVE  Follows(sn, cut, p2[q], p2[q + 1])
  <2>1. CASE q < m
    <3>1. q \in 1..m /\ q + 1 \in 1..m
      BY <1>3, <2>1
    <3>2. Follows(sn, FALSE, p[q], p[q + 1])
      BY <1>d, <3>1 DEF InOrder
    <3>3. p2[q] = p[q] /\ p2[q + 1] = p[q + 1]
      BY <1>e, <3>1
    <3> QED
      BY <3>2, <3>3 DEF Follows, FollowsAt
  <2>2. CASE q = m
    <3>1. m \in 1..m /\ p # << >> /\ p2[q] = p[Len(p)] /\ p2[q + 1] = Box!Zero
      BY <1>d, <1>e, <1>3, <2>2
    <3>2. PICK k \in Nat : At(sn, p[Len(p)], Len(sn), k) /\ (~ cut => k = sn[Len(sn)])
      BY <3>1
    <3>3. Len(sn) \in Nat /\ sn[Len(sn)] \in Nat
      BY <3>2 DEF At
    <3>4. FollowsAt(sn, cut, Box!Zero, Len(sn), k)
      BY <3>2, <3>3 DEF FollowsAt
    <3> QED
      BY <3>1, <3>2, <3>3, <3>4, FollowsPlace
  <2>3. CASE q > m
    <3>1. q = m + 1 /\ q + 1 = m + 2
      BY <1>3, <2>3
    <3>2. p2[q] = Box!Zero /\ p2[q + 1] = Box!Zero
      BY <1>e, <3>1
    <3> QED
      BY <3>2, OnePlace DEF Follows
  <2> QED
    BY <1>3, <2>1, <2>2, <2>3
<1>4. InOrder(sn, cut, p2)
  BY <1>1, <1>2, <1>3, <1>e DEF InOrder
<1> QED
  BY <1>a, <1>c, <1>4

\* Where the reader of packets is: it has taken x units of the plaintext p, returned i
\* packets, and holds the header h and the units b of the next body.
ReaderAt(sn, cut, p, x, i, h, b) ==
    /\ x \in 0..Len(p)
    /\ h = Box!NoHeader =>
          /\ b = << >>
          /\ \/ x = 0 /\ i = 0
             \/ x > 0 /\ (p[x] = Box!Zero \/ At(sn, p[x], i, sn[i]))
    /\ h # Box!NoHeader =>
          /\ i + 1 \in 1..Len(sn) /\ h = Box!HeaderUnit(i + 1, sn[i + 1])
          /\ x > 0 /\ Len(b) <= sn[i + 1]
          /\ \/ At(sn, p[x], i + 1, Len(b))
             \/ p[x] = Box!Zero /\ cut /\ i + 1 = Len(sn)
          /\ \A j \in 1..Len(b) : \/ b[j] = Box!BodyUnit(i + 1, j)
                                  \/ b[j] = Box!Zero /\ cut /\ i + 1 = Len(sn)

\* A unit is never the header of no packet.
LEMMA UnitIsHeader ==
    ASSUME NEW u \in Units
    PROVE  u # Box!NoHeader
<1>1. u.len \in Nat
  BY DEF Units
<1>2. Box!NoHeader.len = -1
  BY DEF Box!NoHeader
<1> QED
  BY <1>1, <1>2

\* The reader takes a header, or the zeros of the goodbye (ReadHeader).
LEMMA HeaderTaken ==
    ASSUME NEW sn \in Seq(Nat), NEW cut \in BOOLEAN, NEW p \in Seq(Units), InOrder(sn, cut, p),
           NEW x \in Nat, NEW i \in Nat, NEW b, ReaderAt(sn, cut, p, x, i, Box!NoHeader, b),
           x + 1 <= Len(p), NEW u \in Units, u = p[x + 1]
    PROVE  /\ b = << >>
           /\ u = Box!Zero => ReaderAt(sn, cut, p, x + 1, i, Box!NoHeader, b)
           /\ u # Box!Zero => ReaderAt(sn, cut, p, x + 1, i, u, b)
<1>1. x + 1 \in 1..Len(p) /\ b = << >>
  BY DEF ReaderAt
<1>2. u = Box!Zero => ReaderAt(sn, cut, p, x + 1, i, Box!NoHeader, b)
  BY <1>1 DEF ReaderAt
<1>3. ASSUME u # Box!Zero PROVE At(sn, u, i + 1, 0)
  <2>1. CASE x = 0
    <3>1. p # << >> /\ x + 1 = 1
      BY <1>1, <2>1
    <3>2. i = 0
      <4>1. ~ (x > 0)
        BY <2>1
      <4> QED
        BY <4>1 DEF ReaderAt
    <3>3. At(sn, p[1], 1, 0)
      BY <1>3, <3>1 DEF InOrder
    <3>4. i + 1 = 1
      BY <3>2
    <3> QED
      BY <3>1, <3>3, <3>4
  <2>2. CASE x # 0
    <3>1. x \in 1..Len(p) /\ Follows(sn, cut, p[x], p[x + 1])
      BY <1>1, <2>2 DEF InOrder
    <3>2. p[x] = Box!Zero \/ At(sn, p[x], i, sn[i])
      BY <2>2 DEF ReaderAt
    <3>3. At(sn, p[x], i, sn[i])
      BY <1>3, <3>1, <3>2 DEF Follows
    <3>4. i \in 1..Len(sn) /\ sn[i] \in Nat
      BY <3>3 DEF At
    <3>5. FollowsAt(sn, cut, u, i, sn[i])
      BY <3>1, <3>3, <3>4 DEF Follows
    <3> QED
      BY <1>3, <3>5 DEF FollowsAt
  <2> QED
    BY <2>1, <2>2
<1>4. ASSUME u # Box!Zero PROVE ReaderAt(sn, cut, p, x + 1, i, u, b)
  <2>1. At(sn, u, i + 1, 0)
    BY <1>3, <1>4
  <2>2. i + 1 \in 1..Len(sn) /\ u = Box!HeaderUnit(i + 1, sn[i + 1]) /\ sn[i + 1] \in Nat
    BY <2>1 DEF At
  <2>3. Len(b) = 0 /\ u # Box!NoHeader /\ x + 1 > 0 /\ x + 1 \in 0..Len(p)
    BY <1>1, UnitIsHeader
  <2>4. At(sn, p[x + 1], i + 1, Len(b)) /\ Len(b) <= sn[i + 1] /\ \A j \in 1..Len(b) : FALSE
    BY <2>1, <2>2, <2>3
  <2> QED
    BY <2>2, <2>3, <2>4 DEF ReaderAt
<1> QED
  BY <1>1, <1>2, <1>4

\* The reader takes a unit of a body (ReadBody).
LEMMA BodyTaken ==
    ASSUME NEW sn \in Seq(Nat), NEW cut \in BOOLEAN, NEW p \in Seq(Units), InOrder(sn, cut, p),
           NEW x \in Nat, NEW i \in Nat, NEW h \in Units, NEW b \in Seq(Units),
           ReaderAt(sn, cut, p, x, i, h, b), Len(b) < h.len,
           x + 1 <= Len(p), NEW u \in Units, u = p[x + 1]
    PROVE  ReaderAt(sn, cut, p, x + 1, i, h, Append(b, u))
<1>1. x + 1 \in 0..Len(p) /\ x + 1 > 0 /\ h # Box!NoHeader
  BY UnitIsHeader
<1>2. /\ i + 1 \in 1..Len(sn) /\ h = Box!HeaderUnit(i + 1, sn[i + 1]) /\ x > 0
      /\ \/ At(sn, p[x], i + 1, Len(b))
         \/ p[x] = Box!Zero /\ cut /\ i + 1 = Len(sn)
      /\ \A j \in 1..Len(b) : \/ b[j] = Box!BodyUnit(i + 1, j)
                              \/ b[j] = Box!Zero /\ cut /\ i + 1 = Len(sn)
  BY <1>1 DEF ReaderAt
<1>3. h.len = sn[i + 1] /\ sn[i + 1] \in Nat
  BY <1>2 DEF Box!HeaderUnit
<1>4. PICK k \in Nat : k = Len(b) /\ k < sn[i + 1]
  <2>1. Len(b) < sn[i + 1]
    BY <1>3, Zenon
  <2>2. Len(b) \in Nat
    OBVIOUS
  <2> QED
    BY <2>1, <2>2, Zenon
<1>5. x \in 1..Len(p) /\ x + 1 \in 1..Len(p)
  BY <1>1, <1>2
<1>6. Follows(sn, cut, p[x], u)
  BY <1>5 DEF InOrder
<1>7. At(sn, u, i + 1, k + 1) \/ (u = Box!Zero /\ cut /\ i + 1 = Len(sn))
  <2>1. CASE At(sn, p[x], i + 1, Len(b))
    <3>1. FollowsAt(sn, cut, u, i + 1, k)
      BY <1>4, <1>6, <2>1 DEF Follows
    <3> QED
      BY <1>4, <3>1 DEF FollowsAt
  <2>2. CASE p[x] = Box!Zero /\ cut /\ i + 1 = Len(sn)
    BY <1>6, <2>2 DEF Follows
  <2> QED
    BY <1>2, <2>1, <2>2
<1>8. Append(b, u) \in Seq(Units) /\ Len(Append(b, u)) = Len(b) + 1
  BY AppendedLength
<1>9. PICK c \in Seq(Units) : c = Append(b, u)
  BY <1>8
<1>10. Len(c) = k + 1 /\ (\A j \in 1..k : c[j] = b[j]) /\ c[k + 1] = u
  BY <1>4, <1>9
<1>11. \A j \in 1..Len(c) : \/ c[j] = Box!BodyUnit(i + 1, j)
                            \/ c[j] = Box!Zero /\ cut /\ i + 1 = Len(sn)
  <2>1. TAKE j \in 1..Len(c)
  <2>2. CASE j \in 1..k
    BY <1>2, <1>4, <1>10, <2>2
  <2>3. CASE ~ (j \in 1..k)
    <3>1. j = k + 1 /\ c[j] = u /\ k + 1 # 0
      BY <1>10, <2>3
    <3> QED
      BY <1>7, <3>1 DEF At
  <2> QED
    BY <2>2, <2>3
<1>12. Len(c) <= sn[i + 1] /\ (At(sn, p[x + 1], i + 1, Len(c)) \/ (p[x + 1] = Box!Zero /\ cut /\ i + 1 = Len(sn)))
  BY <1>3, <1>4, <1>7, <1>10
<1>13. ReaderAt(sn, cut, p, x + 1, i, h, c)
  BY <1>1, <1>2, <1>11, <1>12 DEF ReaderAt
<1> QED
  BY <1>9, <1>13

\* The body is complete (ReturnPacket).
LEMMA PacketTaken ==
    ASSUME NEW sn \in Seq(Nat), NEW cut \in BOOLEAN, NEW p \in Seq(Units),
           NEW x \in Nat, NEW i \in Nat, NEW h \in Units, NEW b \in Seq(Units),
           ReaderAt(sn, cut, p, x, i, h, b), Len(b) = h.len
    PROVE  /\ i + 1 \in 1..Len(sn) /\ h = Box!HeaderUnit(i + 1, sn[i + 1])
           /\ \A k \in 1..sn[i + 1] : \/ b[k] = Box!BodyUnit(i + 1, k)
                                      \/ b[k] = Box!Zero /\ cut /\ i + 1 = Len(sn)
           /\ ReaderAt(sn, cut, p, x, i + 1, Box!NoHeader, << >>)
<1>1. h # Box!NoHeader
  BY UnitIsHeader
<1>2. /\ i + 1 \in 1..Len(sn) /\ h = Box!HeaderUnit(i + 1, sn[i + 1]) /\ x > 0 /\ x \in 0..Len(p)
      /\ \/ At(sn, p[x], i + 1, Len(b))
         \/ p[x] = Box!Zero /\ cut /\ i + 1 = Len(sn)
      /\ \A j \in 1..Len(b) : \/ b[j] = Box!BodyUnit(i + 1, j)
                              \/ b[j] = Box!Zero /\ cut /\ i + 1 = Len(sn)
  BY <1>1 DEF ReaderAt
<1>3. Len(b) = sn[i + 1]
  BY <1>2 DEF Box!HeaderUnit
<1>4. ReaderAt(sn, cut, p, x, i + 1, Box!NoHeader, << >>)
  BY <1>2, <1>3 DEF ReaderAt
<1> QED
  BY <1>2, <1>3, <1>4

\* More plaintext does not move the reader.
LEMMA ReaderStays ==
    ASSUME NEW sn \in Seq(Nat), NEW s2 \in Seq(Nat), NEW cut \in BOOLEAN, NEW p \in Seq(Units), NEW p2 \in Seq(Units),
           NEW x \in Nat, NEW i \in Nat, NEW h, NEW b \in Seq(Units),
           ReaderAt(sn, FALSE, p, x, i, h, b),
           Len(p) <= Len(p2), \A q \in 1..Len(p) : p2[q] = p[q],
           Len(sn) <= Len(s2), \A j \in 1..Len(sn) : s2[j] = sn[j]
    PROVE  ReaderAt(s2, cut, p2, x, i, h, b)
<1>1. ASSUME NEW u, NEW j \in Nat, NEW k \in Nat, At(sn, u, j, k)
      PROVE  At(s2, u, j, k) /\ s2[j] = sn[j]
  <2>1. j \in 1..Len(sn) /\ j \in 1..Len(s2) /\ s2[j] = sn[j]
    BY <1>1 DEF At
  <2> QED
    BY <1>1, <2>1 DEF At
<1>2. x \in 0..Len(p) /\ x \in 0..Len(p2)
  BY DEF ReaderAt
<1>3. x > 0 => p2[x] = p[x]
  BY <1>2
<1>4. ASSUME h = Box!NoHeader
      PROVE  ReaderAt(s2, cut, p2, x, i, h, b)
  <2>0. ReaderAt(sn, FALSE, p, x, i, Box!NoHeader, b)
    BY <1>4
  <2>a. b = << >>
    BY <2>0 DEF ReaderAt
  <2>b. \/ x = 0 /\ i = 0
        \/ x > 0 /\ (p[x] = Box!Zero \/ At(sn, p[x], i, sn[i]))
    BY <2>0 DEF ReaderAt
  <2>2. At(sn, p[x], i, sn[i]) => At(s2, p[x], i, s2[i])
    <3>1. SUFFICES ASSUME At(sn, p[x], i, sn[i]) PROVE At(s2, p[x], i, s2[i])
      OBVIOUS
    <3>2. sn[i] \in Nat
      BY <3>1 DEF At
    <3> QED
      BY <1>1, <3>1, <3>2
  <2> QED
    BY <1>2, <1>3, <1>4, <2>a, <2>b, <2>2 DEF ReaderAt
<1>5. ASSUME h # Box!NoHeader
      PROVE  ReaderAt(s2, cut, p2, x, i, h, b)
  <2>1. /\ i + 1 \in 1..Len(sn) /\ h = Box!HeaderUnit(i + 1, sn[i + 1]) /\ x > 0 /\ Len(b) <= sn[i + 1]
        /\ At(sn, p[x], i + 1, Len(b))
        /\ \A j \in 1..Len(b) : b[j] = Box!BodyUnit(i + 1, j)
    BY <1>5 DEF ReaderAt
  <2>2. At(s2, p[x], i + 1, Len(b)) /\ s2[i + 1] = sn[i + 1] /\ i + 1 \in 1..Len(s2)
    <3>1. i + 1 \in Nat /\ Len(b) \in Nat
      OBVIOUS
    <3>2. At(s2, p[x], i + 1, Len(b)) /\ s2[i + 1] = sn[i + 1]
      BY <1>1, <2>1, <3>1
    <3> QED
      BY <3>2 DEF At
  <2> QED
    BY <1>2, <1>3, <1>5, <2>1, <2>2 DEF ReaderAt
<1> QED
  BY <1>4, <1>5

-----------------------------------------------------------------------------
BoxTypes ==
    /\ sent \in Seq(Nat) /\ closed \in BOOLEAN
    /\ todo = << >> \/ \E rest \in Seq(Units) : todo = << rest >>
    /\ boxNonce \in Int /\ unNonce \in Int
    /\ sealed \in Seq(Boxes) /\ buffer \in Seq(Boxes)
    /\ plain \in Seq(Units) /\ opened \in Seq(Units) /\ leftover \in Seq(Units) /\ body \in Seq(Units)
    /\ packets \in Seq([head : Units, body : Seq(Units)])
    /\ header \in Units \cup {Box!NoHeader}

\* What is sealed and not opened is the plaintext that was not returned.
SealedHold == Holds(buffer \o sealed, plain, Len(opened), closed)

\* What was opened is the beginning of the plaintext.
OpenedIsPlain == Len(opened) <= Len(plain) /\ \A j \in 1..Len(opened) : opened[j] = plain[j]

\* Close came when a body was still to be written.
Cut == closed /\ todo # << >>
PlainInOrder ==
    /\ InOrder(sent, Cut, plain)
    /\ ~ closed => \A q \in 1..Len(plain) : plain[q] # Box!Zero

\* Until it is closed the writer is where the plaintext ends.
WriterAt(k) ==
    /\ At(sent, plain[Len(plain)], Len(sent), k)
    /\ todo = << >> => k = sent[Len(sent)]
    /\ todo # << >> =>
          /\ Len(todo[1]) = sent[Len(sent)] - k
          /\ \A j \in 1..Len(todo[1]) : todo[1][j] = Box!BodyUnit(Len(sent), k + j)
WriterInv ==
    ~ closed =>
        /\ plain = << >> => sent = << >> /\ todo = << >>
        /\ plain # << >> => sent # << >> /\ \E k \in Nat : WriterAt(k)

\* What the reader of packets has taken of what was opened; the rest is left over.
Taken == Len(opened) - Len(leftover)
LeftoverInv ==
    /\ Len(leftover) <= Len(opened)
    /\ \A j \in 1..Len(leftover) : leftover[j] = opened[Taken + j]
    /\ reading = "wait" => leftover = << >>

ReaderInv ==
    /\ ReaderAt(sent, Cut, plain, Taken, Len(packets), header, body)
    /\ Len(packets) <= Len(sent) /\ Box!PacketsIntact

\* The sequence t begins with s.
Grows(s, t) == Len(s) <= Len(t) /\ \A i \in 1..Len(s) : t[i] = s[i]

\* The inductive invariant of the box stream.
BoxInv ==
    /\ BoxTypes /\ SealedHold /\ OpenedIsPlain /\ PlainInOrder /\ WriterInv /\ LeftoverInv /\ ReaderInv

\* Nothing is sealed at first.
LEMMA InitBox == Box!Init => BoxInv
<1> SUFFICES ASSUME Box!Init PROVE BoxInv
  OBVIOUS
<1>1. BoxTypes
  <2>1. /\ sent = << >> /\ todo = << >> /\ closed = FALSE /\ boxNonce = 0 /\ unNonce = 0
        /\ sealed = << >> /\ buffer = << >> /\ plain = << >> /\ opened = << >>
        /\ leftover = << >> /\ body = << >> /\ packets = << >> /\ header = Box!NoHeader
    BY DEF Box!Init
  <2>2. ASSUME NEW S PROVE << >> \in Seq(S)
    OBVIOUS
  <2> QED
    <3>1. sent \in Seq(Nat) /\ sealed \in Seq(Boxes) /\ buffer \in Seq(Boxes)
      BY <2>1, <2>2
    <3>2. /\ plain \in Seq(Units) /\ opened \in Seq(Units) /\ leftover \in Seq(Units)
          /\ body \in Seq(Units) /\ packets \in Seq([head : Units, body : Seq(Units)])
      BY <2>1, <2>2, Zenon
    <3>3. closed \in BOOLEAN
      BY <2>1, Zenon
    <3>4. boxNonce \in Int /\ unNonce \in Int
      <4>1. boxNonce = 0 /\ unNonce = 0
        BY <2>1, Zenon
      <4> QED
        BY <4>1
    <3> QED
      BY <2>1, <3>1, <3>2, <3>3, <3>4, Zenon DEF BoxTypes
<1>2. SealedHold
  <2>1. buffer \o sealed = << >> /\ plain = << >> /\ Len(opened) = 0 /\ Len(plain) = 0
    BY DEF Box!Init
  <2>2. PICK off \in [1..1 -> Nat] : off = [i \in 1..1 |-> 0]
    OBVIOUS
  <2>3. off[1] = 0 /\ \A i \in 1..1 : off[i] = 0
    BY <2>2
  <2>4. HoldsAt(<< >>, << >>, 0, closed, off)
    BY <2>3 DEF HoldsAt
  <2>5. Holds(<< >>, << >>, 0, closed)
    BY <2>4 DEF Holds
  <2> QED
    BY <2>1, <2>5 DEF SealedHold
<1>3. OpenedIsPlain
  BY DEF Box!Init, OpenedIsPlain
<1>4. PlainInOrder
  BY DEF Box!Init, PlainInOrder, InOrder
<1>5. WriterInv
  BY DEF Box!Init, WriterInv
<1>6. LeftoverInv
  BY DEF Box!Init, LeftoverInv
<1>7. ReaderInv
  BY DEF Box!Init, ReaderInv, ReaderAt, Taken, Box!PacketsIntact
<1> QED
  BY <1>1, <1>2, <1>3, <1>4, <1>5, <1>6, <1>7 DEF BoxInv

\* What the writer puts at the end of the plaintext does not disturb the reader.
LEMMA WriterLeavesReader ==
    ASSUME BoxInv, BoxTypes', ~ closed, UNCHANGED << Box!engineVars, Box!packetVars >>,
           Len(plain) <= Len(plain'), \A q \in 1..Len(plain) : plain'[q] = plain[q],
           Len(sent) <= Len(sent'), \A i \in 1..Len(sent) : sent'[i] = sent[i]
    PROVE  OpenedIsPlain' /\ LeftoverInv' /\ ReaderInv'
<1>1. /\ opened' = opened /\ leftover' = leftover /\ reading' = reading
      /\ header' = header /\ body' = body /\ packets' = packets
  BY DEF Box!engineVars, Box!packetVars
<1>t. /\ sent \in Seq(Nat) /\ sent' \in Seq(Nat) /\ plain \in Seq(Units) /\ plain' \in Seq(Units)
      /\ opened \in Seq(Units) /\ leftover \in Seq(Units) /\ body \in Seq(Units) /\ Len(packets) \in Nat
  BY DEF BoxInv, BoxTypes
<1>2. OpenedIsPlain'
  BY <1>1, <1>t DEF BoxInv, OpenedIsPlain
<1>3. LeftoverInv'
  BY <1>1 DEF BoxInv, LeftoverInv, Taken
<1>4. Taken \in Nat /\ Taken' = Taken
  BY <1>1, <1>t DEF BoxInv, LeftoverInv, Taken
<1>5. ReaderAt(sent, FALSE, plain, Taken, Len(packets), header, body)
  BY DEF BoxInv, ReaderInv, ReaderAt, Cut
<1>6. PICK cut \in BOOLEAN : cut <=> Cut'
  OBVIOUS
<1>7. ReaderAt(sent', cut, plain', Taken, Len(packets), header, body)
  BY <1>4, <1>5, <1>t, ReaderStays
<1>8. ReaderAt(sent', Cut', plain', Taken', Len(packets'), header', body')
  BY <1>1, <1>4, <1>6, <1>7 DEF ReaderAt
<1>9. Len(packets') <= Len(sent')
  BY <1>1, <1>t DEF BoxInv, ReaderInv
<1>10. Box!PacketsIntact'
  <2>1. ASSUME NEW i \in 1..Len(packets)
        PROVE  /\ packets[i].head = Box!HeaderUnit(i, sent'[i])
               /\ \A k \in 1..sent'[i] : packets[i].body[k] = Box!BodyUnit(i, k)
    <3>1. i \in 1..Len(sent) /\ sent'[i] = sent[i]
      <4>1. Len(packets) <= Len(sent) /\ Len(sent) \in Nat
        BY <1>t DEF BoxInv, ReaderInv
      <4>2. i \in 1..Len(sent)
        BY <1>t, <4>1
      <4> QED
        BY <4>2
    <3> QED
      BY <3>1 DEF BoxInv, ReaderInv, Box!PacketsIntact
  <2> QED
    BY <1>1, <2>1 DEF Box!PacketsIntact
<1> QED
  BY <1>2, <1>3, <1>8, <1>9, <1>10 DEF ReaderInv

\* What EncryptMessage returns.
LEMMA Encrypted ==
    ASSUME NEW msg \in Seq(Units), boxNonce \in Int
    PROVE  LET t == Box!EncryptMessage(msg) IN
           /\ t \in Seq(Boxes) /\ Len(t) = Len(msg) + 1
           /\ t[1].kind = "head" /\ t[1].len = Len(msg) /\ ~ t[1].goodbye
           /\ \A j \in 1..Len(msg) : t[j + 1].kind = "body" /\ t[j + 1].unit = msg[j]
<1>1. PICK n \in Nat : n = Len(msg)
  OBVIOUS
<1>2. PICK h : h = [kind |-> "head", nonce |-> boxNonce, len |-> n, goodbye |-> FALSE]
  OBVIOUS
<1>3. h \in Boxes /\ h.kind = "head" /\ h.len = n /\ ~ h.goodbye
  BY <1>2 DEF Boxes
<1>4. PICK b : b = [i \in 1..n |-> [kind |-> "body", nonce |-> boxNonce + 1, unit |-> msg[i]]]
  OBVIOUS
<1>5. \A i \in 1..n : b[i] \in Boxes /\ b[i].kind = "body" /\ b[i].unit = msg[i]
  <2>1. TAKE i \in 1..n
  <2>2. msg[i] \in Units /\ boxNonce + 1 \in Int
    BY <1>1
  <2>3. b[i] = [kind |-> "body", nonce |-> boxNonce + 1, unit |-> msg[i]]
    BY <1>4
  <2> QED
    BY <2>2, <2>3 DEF Boxes
<1>6. b \in [1..n -> Boxes]
  BY <1>4, <1>5
<1>7. b \in Seq(Boxes) /\ Len(b) = n
  BY <1>6
<1>8. << h >> \in Seq(Boxes) /\ Len(<< h >>) = 1 /\ << h >>[1] = h
  BY <1>3
<1>9. PICK g \in Seq(Boxes) : g = << h >> /\ Len(g) = 1 /\ g[1] = h
  BY <1>8
<1>10. /\ g \o b \in Seq(Boxes) /\ Len(g \o b) = Len(g) + Len(b)
       /\ \A i \in 1..Len(g) : (g \o b)[i] = g[i]
       /\ \A i \in 1..Len(b) : (g \o b)[Len(g) + i] = b[i]
  <2>1. g \o b \in Seq(Boxes) /\ Len(g \o b) = Len(g) + Len(b)
    BY <1>7, ConcatenatedLength
  <2>2. \A i \in 1..Len(g) : (g \o b)[i] = g[i]
    BY <1>7, Concatenated
  <2>3. \A i \in 1..Len(b) : (g \o b)[Len(g) + i] = b[i]
    BY <1>7, Concatenated
  <2> QED
    BY <2>1, <2>2, <2>3
<1>11. PICK t \in Seq(Boxes) : t = g \o b
  BY <1>10
<1>12. Len(t) = n + 1 /\ t[1] = h /\ \A j \in 1..n : t[j + 1] = b[j]
  <2>1. \A i \in 1..n : t[1 + i] = b[i] /\ 1 + i = i + 1
    BY <1>7, <1>9, <1>10, <1>11
  <2> QED
    BY <1>7, <1>9, <1>10, <1>11, <2>1
<1>13. t = Box!EncryptMessage(msg)
  <2>1. Box!EncryptMessage(msg) = << h >> \o b
    BY <1>1, <1>2, <1>4, Zenon DEF Box!EncryptMessage
  <2> QED
    BY <1>9, <1>11, <2>1, Zenon
<1>14. /\ Len(t) = Len(msg) + 1 /\ t[1].kind = "head" /\ t[1].len = Len(msg) /\ ~ t[1].goodbye
       /\ \A j \in 1..Len(msg) : t[j + 1].kind = "body" /\ t[j + 1].unit = msg[j]
  BY <1>1, <1>3, <1>5, <1>12
<1> QED
  BY <1>13, <1>14, Zenon

\* A message written keeps what the boxes hold (WriteMessage).
LEMMA MessageWritten ==
    ASSUME BoxInv, ~ closed, NEW msg \in Seq(Units), Box!WriteMessage(msg),
           UNCHANGED << closed, buffer, opened >>
    PROVE  /\ sealed' \in Seq(Boxes) /\ boxNonce' \in Int
           /\ plain' = plain \o msg /\ plain' \in Seq(Units) /\ Len(plain') = Len(plain) + Len(msg)
           /\ \A q \in 1..Len(plain) : plain'[q] = plain[q]
           /\ SealedHold'
<1>t. /\ sealed \in Seq(Boxes) /\ buffer \in Seq(Boxes) /\ plain \in Seq(Units) /\ opened \in Seq(Units)
      /\ boxNonce \in Int
  BY DEF BoxInv, BoxTypes
<1>1. PICK t \in Seq(Boxes) :
          /\ t = Box!EncryptMessage(msg) /\ Len(t) = Len(msg) + 1
          /\ t[1].kind = "head" /\ t[1].len = Len(msg) /\ ~ t[1].goodbye
          /\ \A j \in 1..Len(msg) : t[j + 1].kind = "body" /\ t[j + 1].unit = msg[j]
  <2>1. LET x == Box!EncryptMessage(msg) IN
        /\ x \in Seq(Boxes) /\ Len(x) = Len(msg) + 1
        /\ x[1].kind = "head" /\ x[1].len = Len(msg) /\ ~ x[1].goodbye
        /\ \A j \in 1..Len(msg) : x[j + 1].kind = "body" /\ x[j + 1].unit = msg[j]
    BY <1>t, Encrypted, Zenon
  <2> QED
    BY <2>1, Zenon
<1>2. sealed' = sealed \o t /\ boxNonce' = boxNonce + 2 /\ plain' = plain \o msg
  BY <1>1 DEF Box!WriteMessage
<1>3. /\ sealed \o t \in Seq(Boxes) /\ buffer \o sealed \in Seq(Boxes)
      /\ (buffer \o sealed) \o t = buffer \o (sealed \o t)
  <2>1. sealed \o t \in Seq(Boxes)
    BY <1>t, ConcatenatedLength
  <2>2. buffer \o sealed \in Seq(Boxes)
    BY <1>t, ConcatenatedLength
  <2>3. (buffer \o sealed) \o t = buffer \o (sealed \o t)
    <3>1. PICK x \in Seq(Boxes) : x = buffer
      BY <1>t
    <3>2. PICK y \in Seq(Boxes) : y = sealed
      BY <1>t
    <3>3. (x \o y) \o t = x \o (y \o t)
      BY Z3
    <3> QED
      BY <3>1, <3>2, <3>3, Zenon
  <2> QED
    BY <2>1, <2>2, <2>3
<1>4. plain \o msg \in Seq(Units) /\ Len(plain \o msg) = Len(plain) + Len(msg)
  BY <1>t, ConcatenatedLength
<1>5. \A q \in 1..Len(plain) : (plain \o msg)[q] = plain[q]
  BY <1>t, Concatenated
<1>6. PICK s \in Seq(Boxes) : s = buffer \o sealed
  BY <1>3
<1>7. Holds(s, plain, Len(opened), FALSE) /\ Len(opened) \in Nat
  <2>1. Holds(s, plain, Len(opened), closed)
    BY <1>6 DEF BoxInv, SealedHold
  <2>2. Len(opened) \in Nat
    BY <1>t
  <2> QED
    BY <2>1, <2>2 DEF Holds, HoldsAt
<1>8. Holds(s \o t, plain \o msg, Len(opened), FALSE)
  BY <1>1, <1>7, <1>t, MessageSealed
<1>9. SealedHold'
  <2>1. buffer' \o sealed' = s \o t /\ opened' = opened /\ ~ closed'
    BY <1>2, <1>3, <1>6
  <2> QED
    BY <1>2, <1>8, <2>1 DEF SealedHold, Holds, HoldsAt
<1>10. boxNonce' \in Int
  BY <1>t, <1>2
<1> QED
  BY <1>2, <1>3, <1>4, <1>5, <1>9, <1>10

\* WriteHeader keeps the invariant.
LEMMA WriteHeaderKeeps ==
    ASSUME BoxParameters, BoxInv, NEW len \in BodyLengths, Box!WriteHeader(len)
    PROVE  BoxInv' /\ Grows(plain, plain') /\ opened' = opened
<1>t. /\ sent \in Seq(Nat) /\ plain \in Seq(Units) /\ len \in Nat
  BY DEF BoxInv, BoxTypes, BoxParameters
<1>0. /\ ~ closed /\ closed' = closed /\ todo = << >> /\ sent' = Append(sent, len)
      /\ todo' = << [i \in 1..len |-> Box!BodyUnit(Len(sent) + 1, i)] >>
      /\ Box!WriteMessage(<< Box!HeaderUnit(Len(sent) + 1, len) >>)
      /\ UNCHANGED << Box!engineVars, Box!packetVars >>
  BY DEF Box!WriteHeader
<1>1. PICK h \in Units : h = Box!HeaderUnit(Len(sent) + 1, len)
  <2>1. Len(sent) + 1 \in Nat /\ 0 \in Nat
    BY <1>t
  <2>2. Box!HeaderUnit(Len(sent) + 1, len) \in Units
    BY <1>t, <2>1, Zenon DEF Units, Box!HeaderUnit
  <2> QED
    BY <2>2
<1>2. << h >> \in Seq(Units) /\ Len(<< h >>) = 1
  OBVIOUS
<1>3. UNCHANGED << closed, buffer, opened >>
  BY <1>0 DEF Box!engineVars
<1>4. /\ sealed' \in Seq(Boxes) /\ boxNonce' \in Int
      /\ plain' = plain \o << h >> /\ plain' \in Seq(Units) /\ Len(plain') = Len(plain) + Len(<< h >>)
      /\ \A q \in 1..Len(plain) : plain'[q] = plain[q]
      /\ SealedHold'
  <2>1. Box!WriteMessage(<< h >>)
    BY <1>0, <1>1
  <2> QED
    BY <1>0, <1>2, <1>3, <2>1, MessageWritten
<1>5. plain \o << h >> = Append(plain, h)
  BY <1>t
<1>6. /\ Append(sent, len) \in Seq(Nat) /\ Len(Append(sent, len)) = Len(sent) + 1
      /\ (\A i \in 1..Len(sent) : Append(sent, len)[i] = sent[i]) /\ Append(sent, len)[Len(sent) + 1] = len
  BY <1>t, Appended
<1>7. PICK rest : rest = [i \in 1..len |-> Box!BodyUnit(Len(sent) + 1, i)]
  OBVIOUS
<1>8. rest \in Seq(Units) /\ Len(rest) = len
  <2>1. \A i \in 1..len : Box!BodyUnit(Len(sent) + 1, i) \in Units
    BY <1>t DEF Units, Box!BodyUnit
  <2>2. rest \in [1..len -> Units]
    BY <1>7, <2>1
  <2> QED
    BY <1>t, <2>2
<1>9. BoxTypes'
  <2>1. sent' \in Seq(Nat) /\ \E r \in Seq(Units) : todo' = << r >>
    BY <1>0, <1>6, <1>7, <1>8
  <2> QED
    BY <1>0, <1>4, <2>1 DEF BoxInv, BoxTypes, Box!engineVars, Box!packetVars
<1>10. /\ plain # << >> => sent # << >> /\ At(sent, plain[Len(plain)], Len(sent), sent[Len(sent)])
       /\ plain = << >> => sent = << >>
  BY <1>0 DEF BoxInv, WriterInv, WriterAt
<1>11. InOrder(sent, FALSE, plain) /\ \A q \in 1..Len(plain) : plain[q] # Box!Zero
  BY <1>0 DEF BoxInv, PlainInOrder, Cut, InOrder, Follows, FollowsAt
<1>12. /\ InOrder(Append(sent, len), FALSE, Append(plain, h))
       /\ \A q \in 1..Len(Append(plain, h)) : Append(plain, h)[q] # Box!Zero
       /\ At(Append(sent, len), h, Len(sent) + 1, 0)
  BY <1>t, <1>1, <1>10, <1>11, HeaderInOrder
<1>13. PlainInOrder'
  <2>1. plain' = Append(plain, h) /\ sent' = Append(sent, len) /\ ~ closed'
    BY <1>0, <1>4, <1>5
  <2>2. InOrder(sent', FALSE, plain') /\ \A q \in 1..Len(plain') : plain'[q] # Box!Zero
    BY <1>12, <2>1
  <2> QED
    BY <2>1, <2>2 DEF PlainInOrder, Cut, InOrder, Follows, FollowsAt
<1>14. WriterInv'
  <2>1. plain' # << >> /\ sent' # << >> /\ plain'[Len(plain')] = h /\ Len(sent') = Len(sent) + 1 /\ sent'[Len(sent')] = len
    <3>1. Len(plain') = Len(plain) + 1 /\ plain'[Len(plain) + 1] = h
      BY <1>t, <1>4, <1>5, Appended
    <3> QED
      BY <1>0, <1>t, <1>6, <3>1
  <2>2. At(sent', plain'[Len(plain')], Len(sent'), 0)
    BY <1>0, <1>12, <2>1
  <2>3. todo' # << >> /\ todo'[1] = rest
    BY <1>0, <1>7
  <2>4. Len(todo'[1]) = sent'[Len(sent')] - 0
    BY <1>8, <1>t, <2>1, <2>3
  <2>5. \A j \in 1..Len(todo'[1]) : todo'[1][j] = Box!BodyUnit(Len(sent'), 0 + j)
    <3>1. TAKE j \in 1..Len(todo'[1])
    <3>2. j \in 1..len /\ 0 + j = j
      BY <1>8, <1>t, <2>3
    <3> QED
      BY <1>7, <2>1, <2>3, <3>2
  <2>6. WriterAt(0)'
    BY <2>2, <2>3, <2>4, <2>5 DEF WriterAt
  <2> QED
    BY <2>1, <2>6 DEF WriterInv
<1>15. OpenedIsPlain' /\ LeftoverInv' /\ ReaderInv'
  <2>1. Len(plain) <= Len(plain') /\ Len(sent) <= Len(sent') /\ \A i \in 1..Len(sent) : sent'[i] = sent[i]
    BY <1>0, <1>t, <1>2, <1>4, <1>6
  <2> QED
    BY <1>0, <1>4, <1>9, <2>1, WriterLeavesReader
<1>16. Grows(plain, plain') /\ opened' = opened
  BY <1>t, <1>2, <1>3, <1>4 DEF Grows
<1> QED
  BY <1>4, <1>9, <1>13, <1>14, <1>15, <1>16 DEF BoxInv

\* The first n elements of a sequence.
LEMMA Beginning ==
    ASSUME NEW S, NEW s \in Seq(S), NEW n \in Nat, n <= Len(s)
    PROVE  /\ SubSeq(s, 1, n) \in Seq(S) /\ Len(SubSeq(s, 1, n)) = n
           /\ \A i \in 1..n : SubSeq(s, 1, n)[i] = s[i]
BY Z3

\* To append is to concatenate one element.
LEMMA AppendedIsConcatenated ==
    ASSUME NEW S, NEW s \in Seq(S), NEW x \in S
    PROVE  Append(s, x) = s \o << x >>
BY Z3

\* WriteBody keeps the invariant.
LEMMA WriteBodyKeeps ==
    ASSUME BoxParameters, BoxInv, Box!WriteBody
    PROVE  BoxInv' /\ Grows(plain, plain') /\ opened' = opened
<1>t. sent \in Seq(Nat) /\ plain \in Seq(Units)
  BY DEF BoxInv, BoxTypes
<1>0. /\ ~ closed /\ closed' = closed /\ todo # << >> /\ sent' = sent
      /\ UNCHANGED << Box!engineVars, Box!packetVars >>
  BY DEF Box!WriteBody
<1>1. PICK rest \in Seq(Units) : todo = << rest >> /\ todo[1] = rest
  BY <1>0 DEF BoxInv, BoxTypes
<1>2. PICK r \in Nat : r = Len(rest)
  OBVIOUS
<1>3. PICK n \in Nat : n = (IF r > MaxSegment THEN MaxSegment ELSE r) /\ n <= r
  BY DEF BoxParameters
<1>4. PICK msg \in Seq(Units) : msg = SubSeq(rest, 1, n) /\ Len(msg) = n /\ \A j \in 1..n : msg[j] = rest[j]
  <2>1. n <= Len(rest)
    BY <1>2, <1>3
  <2>2. SubSeq(rest, 1, n) \in Seq(Units) /\ Len(SubSeq(rest, 1, n)) = n
    BY <2>1, Beginning, Zenon
  <2>3. \A i \in 1..n : SubSeq(rest, 1, n)[i] = rest[i]
    BY <2>1, Beginning
  <2> QED
    BY <2>2, <2>3
<1>5. /\ Box!WriteMessage(msg)
      /\ todo' = IF n = r THEN << >> ELSE << SubSeq(rest, n + 1, r) >>
  BY <1>1, <1>2, <1>3, <1>4 DEF Box!WriteBody
<1>6. PICK left \in Seq(Units) : left = SubSeq(rest, n + 1, r) /\ Len(left) = r - n /\ \A j \in 1..(r - n) : left[j] = rest[n + j]
  <2>1. n <= Len(rest)
    BY <1>2, <1>3
  <2>2. SubSeq(rest, n + 1, Len(rest)) \in Seq(Units) /\ Len(SubSeq(rest, n + 1, Len(rest))) = Len(rest) - n
    BY <2>1, Dropped, Zenon
  <2>3. \A i \in 1..(Len(rest) - n) : SubSeq(rest, n + 1, Len(rest))[i] = rest[n + i]
    BY <2>1, Dropped
  <2> QED
    BY <1>2, <2>2, <2>3
<1>7. UNCHANGED << closed, buffer, opened >>
  BY <1>0 DEF Box!engineVars
<1>8. /\ sealed' \in Seq(Boxes) /\ boxNonce' \in Int
      /\ plain' = plain \o msg /\ plain' \in Seq(Units) /\ Len(plain') = Len(plain) + Len(msg)
      /\ \A q \in 1..Len(plain) : plain'[q] = plain[q]
      /\ SealedHold'
  BY <1>0, <1>5, <1>7, MessageWritten
<1>9. BoxTypes'
  <2>1. todo' = << >> \/ \E x \in Seq(Units) : todo' = << x >>
    BY <1>5, <1>6
  <2> QED
    BY <1>0, <1>8, <2>1 DEF BoxInv, BoxTypes, Box!engineVars, Box!packetVars
<1>10. plain # << >> /\ sent # << >> /\ \E k \in Nat : WriterAt(k)
  BY <1>0 DEF BoxInv, WriterInv
<1>11. PICK k \in Nat : WriterAt(k)
  BY <1>10
<1>12. PICK i \in Nat : i = Len(sent)
  BY <1>t
<1>13. /\ At(sent, plain[Len(plain)], i, k) /\ r = sent[i] - k /\ sent[i] \in Nat
       /\ \A j \in 1..r : rest[j] = Box!BodyUnit(i, k + j)
  <2>1. i \in 1..Len(sent) /\ sent[i] \in Nat
    BY <1>t, <1>10, <1>12
  <2>2. /\ At(sent, plain[Len(plain)], i, k) /\ Len(todo[1]) = sent[i] - k
        /\ \A j \in 1..Len(todo[1]) : todo[1][j] = Box!BodyUnit(i, k + j)
    BY <1>0, <1>11, <1>12 DEF WriterAt
  <2>3. todo[1] = rest /\ Len(todo[1]) = r
    BY <1>1, <1>2
  <2> QED
    BY <2>1, <2>2, <2>3
<1>14. k + n <= sent[i] /\ (n = r => k + n = sent[i]) /\ sent[i] - (k + n) = r - n
  <2>1. PICK l \in Nat : l = sent[i] /\ r = l - k
    BY <1>13
  <2>2. n \in Nat /\ r \in Nat /\ n <= r
    BY <1>2, <1>3
  <2>3. k + n <= l /\ (n = r => k + n = l) /\ l - (k + n) = r - n
    <3>1. l = k + r
      BY <2>1
    <3>2. k + n <= l
      BY <2>2, <3>1
    <3>3. n = r => k + n = l
      BY <3>1
    <3>4. l - (k + n) = r - n
      BY <3>1
    <3> QED
      BY <3>2, <3>3, <3>4
  <2> QED
    BY <2>1, <2>3
<1>15. \A j \in 1..n : msg[j] = Box!BodyUnit(i, k + j)
  <2>1. TAKE j \in 1..n
  <2>2. j \in 1..r
    BY <1>3
  <2> QED
    BY <1>4, <1>13, <2>2
<1>16. InOrder(sent, FALSE, plain) /\ \A q \in 1..Len(plain) : plain[q] # Box!Zero
  BY <1>0 DEF BoxInv, PlainInOrder, Cut, InOrder, Follows, FollowsAt
<1>17. /\ InOrder(sent, FALSE, plain \o msg)
       /\ \A q \in 1..Len(plain \o msg) : (plain \o msg)[q] # Box!Zero
       /\ At(sent, (plain \o msg)[Len(plain \o msg)], i, k + Len(msg))
  <2>1. k + Len(msg) <= sent[i] /\ \A j \in 1..Len(msg) : msg[j] = Box!BodyUnit(i, k + j)
    BY <1>4, <1>14, <1>15
  <2>2. At(sent, plain[Len(plain)], i, k)
    BY <1>13
  <2> QED
    BY <1>t, <1>10, <1>16, <2>1, <2>2, BodyInOrder
<1>18. PlainInOrder'
  <2>1. InOrder(sent', FALSE, plain') /\ (\A q \in 1..Len(plain') : plain'[q] # Box!Zero) /\ ~ closed'
    BY <1>0, <1>8, <1>17
  <2> QED
    BY <2>1 DEF PlainInOrder, Cut, InOrder, Follows, FollowsAt
<1>19. WriterInv'
  <2>1. At(sent', plain'[Len(plain')], Len(sent'), k + n) /\ k + n \in Nat
    <3>1. At(sent, (plain \o msg)[Len(plain \o msg)], i, k + n)
      BY <1>4, <1>17
    <3>2. sent' = sent /\ plain' = plain \o msg
      BY <1>0, <1>8
    <3>3. At(sent', plain'[Len(plain')], i, k + n)
      BY <3>1, <3>2
    <3>4. k + n \in Nat /\ i = Len(sent')
      BY <1>12, <3>2
    <3> QED
      BY <3>3, <3>4
  <2>2. plain' # << >> /\ sent' # << >>
    <3>1. Len(plain) \in Nat /\ Len(plain) > 0 /\ Len(plain') = Len(plain) + n
      BY <1>t, <1>4, <1>8, <1>10
    <3>2. Len(plain') # 0
      BY <3>1
    <3> QED
      BY <1>0, <1>10, <3>2
  <2>3. WriterAt(k + n)'
    <3>1. CASE n = r
      <4>1. todo' = << >> /\ k + n = sent'[Len(sent')]
        BY <1>0, <1>5, <1>12, <1>14, <3>1
      <4> QED
        BY <2>1, <4>1 DEF WriterAt
    <3>2. CASE n # r
      <4>1. todo' = << left >> /\ todo' # << >> /\ todo'[1] = left
        BY <1>5, <1>6, <3>2
      <4>2. Len(left) = sent'[Len(sent')] - (k + n)
        BY <1>0, <1>6, <1>12, <1>14
      <4>3. \A j \in 1..Len(left) : left[j] = Box!BodyUnit(Len(sent'), (k + n) + j)
        <5>1. TAKE j \in 1..Len(left)
        <5>2. j \in 1..(r - n) /\ n + j \in 1..r /\ k + (n + j) = (k + n) + j
          BY <1>3, <1>6
        <5>3. left[j] = rest[n + j] /\ rest[n + j] = Box!BodyUnit(i, k + (n + j))
          BY <1>6, <1>13, <5>2
        <5> QED
          BY <1>0, <1>12, <5>2, <5>3
      <4> QED
        BY <2>1, <4>1, <4>2, <4>3 DEF WriterAt
    <3> QED
      BY <3>1, <3>2
  <2> QED
    BY <2>1, <2>2, <2>3 DEF WriterInv
<1>20. OpenedIsPlain' /\ LeftoverInv' /\ ReaderInv'
  <2>1. Len(plain) <= Len(plain') /\ Len(sent) <= Len(sent') /\ \A j \in 1..Len(sent) : sent'[j] = sent[j]
    BY <1>0, <1>t, <1>4, <1>8
  <2> QED
    BY <1>0, <1>8, <1>9, <2>1, WriterLeavesReader
<1>21. Grows(plain, plain') /\ opened' = opened
  BY <1>t, <1>4, <1>7, <1>8 DEF Grows
<1> QED
  BY <1>8, <1>9, <1>18, <1>19, <1>20, <1>21 DEF BoxInv

\* Close keeps the invariant.
LEMMA CloseKeeps ==
    ASSUME BoxInv, Box!Close
    PROVE  BoxInv' /\ Grows(plain, plain') /\ opened' = opened
<1>t. /\ sent \in Seq(Nat) /\ plain \in Seq(Units) /\ opened \in Seq(Units) /\ boxNonce \in Int
      /\ sealed \in Seq(Boxes) /\ buffer \in Seq(Boxes)
  BY DEF BoxInv, BoxTypes
<1>0. /\ ~ closed /\ closed' = TRUE /\ sent' = sent /\ todo' = todo /\ boxNonce' = boxNonce
      /\ sealed' = Append(sealed, [kind |-> "head", nonce |-> boxNonce, len |-> 0, goodbye |-> TRUE])
      /\ plain' = plain \o Box!Goodbye
      /\ UNCHANGED << Box!engineVars, Box!packetVars >>
  BY DEF Box!Close
<1>1. PICK b : b = [kind |-> "head", nonce |-> boxNonce, len |-> 0, goodbye |-> TRUE]
  OBVIOUS
<1>2. b \in Boxes /\ b.kind = "head" /\ b.len = 0 /\ b.goodbye
  BY <1>t, <1>1 DEF Boxes
<1>3. PICK g \in Seq(Units) : g = Box!Goodbye /\ Len(g) = 2
  BY GoodbyeUnits
<1>4. plain \o g \in Seq(Units) /\ Len(plain \o g) = Len(plain) + Len(g)
  BY <1>t, ConcatenatedLength
<1>5. \A q \in 1..Len(plain) : (plain \o g)[q] = plain[q]
  BY <1>t, Concatenated
<1>6. plain' = plain \o g
  BY <1>0, <1>3
<1>7. Append(sealed, b) \in Seq(Boxes) /\ buffer \o sealed \in Seq(Boxes)
      /\ Append(buffer \o sealed, b) = buffer \o Append(sealed, b)
  <2>1. Append(sealed, b) \in Seq(Boxes) /\ buffer \o sealed \in Seq(Boxes)
    BY <1>t, <1>2
  <2>2. << b >> \in Seq(Boxes)
    BY <1>2
  <2>3. Append(sealed, b) = sealed \o << b >> /\ Append(buffer \o sealed, b) = (buffer \o sealed) \o << b >>
    BY <1>t, <1>2, <2>1, AppendedIsConcatenated
  <2>4. (buffer \o sealed) \o << b >> = buffer \o (sealed \o << b >>)
    BY <1>t, <2>2
  <2> QED
    BY <2>1, <2>3, <2>4
<1>8. BoxTypes'
  <2>1. sealed' \in Seq(Boxes) /\ plain' \in Seq(Units) /\ closed' \in BOOLEAN
    BY <1>0, <1>1, <1>4, <1>6, <1>7
  <2> QED
    BY <1>0, <2>1 DEF BoxInv, BoxTypes, Box!engineVars, Box!packetVars
<1>9. SealedHold'
  <2>1. PICK s \in Seq(Boxes) : s = buffer \o sealed
    BY <1>7
  <2>2. Holds(s, plain, Len(opened), closed) /\ Len(opened) \in Nat
    BY <1>t, <2>1 DEF BoxInv, SealedHold
  <2>3. Holds(s, plain, Len(opened), FALSE)
    BY <1>0, <2>2 DEF Holds, HoldsAt
  <2>4. Holds(Append(s, b), plain \o Box!Goodbye, Len(opened), TRUE)
    BY <1>t, <1>2, <2>2, <2>3, GoodbyeSealed
  <2>5. buffer' \o sealed' = Append(s, b) /\ opened' = opened /\ closed'
    BY <1>0, <1>1, <1>7, <2>1 DEF Box!engineVars
  <2> QED
    BY <1>0, <2>4, <2>5 DEF SealedHold, Holds, HoldsAt
<1>10. InOrder(sent, FALSE, plain) /\ \A q \in 1..Len(plain) : plain[q] # Box!Zero
  BY <1>0 DEF BoxInv, PlainInOrder, Cut, InOrder, Follows, FollowsAt
<1>11. PICK cut \in BOOLEAN : cut <=> todo # << >>
  OBVIOUS
<1>12. plain # << >> => sent # << >> /\ \E k \in Nat : /\ At(sent, plain[Len(plain)], Len(sent), k)
                                                       /\ ~ cut => k = sent[Len(sent)]
  BY <1>0, <1>11 DEF BoxInv, WriterInv, WriterAt
<1>13. InOrder(sent, cut, plain \o Box!Goodbye)
  BY <1>t, <1>10, <1>12, GoodbyeInOrder
<1>14. PlainInOrder'
  <2>1. InOrder(sent', cut, plain') /\ closed' /\ (cut <=> Cut')
    BY <1>0, <1>11, <1>13 DEF Cut
  <2> QED
    BY <2>1 DEF PlainInOrder, InOrder, Follows, FollowsAt
<1>15. WriterInv'
  BY <1>0 DEF WriterInv
<1>16. OpenedIsPlain' /\ LeftoverInv' /\ ReaderInv'
  <2>1. Len(plain) <= Len(plain') /\ Len(sent) <= Len(sent') /\ \A j \in 1..Len(sent) : sent'[j] = sent[j]
    BY <1>0, <1>t, <1>3, <1>4, <1>6
  <2>2. \A q \in 1..Len(plain) : plain'[q] = plain[q]
    BY <1>5, <1>6
  <2> QED
    BY <1>0, <1>8, <2>1, <2>2, WriterLeavesReader
<1>17. Grows(plain, plain') /\ opened' = opened
  <2>1. Len(plain) <= Len(plain')
    BY <1>t, <1>3, <1>4, <1>6
  <2> QED
    BY <1>0, <1>5, <1>6, <2>1 DEF Grows, Box!engineVars
<1> QED
  BY <1>8, <1>9, <1>14, <1>15, <1>16, <1>17 DEF BoxInv

\* What follows the first boxes of a buffer and the boxes behind it.
LEMMA DroppedConcatenated ==
    ASSUME NEW S, NEW s \in Seq(S), NEW t \in Seq(S), NEW d \in Nat, d <= Len(s)
    PROVE  SubSeq(s \o t, d + 1, Len(s \o t)) = SubSeq(s, d + 1, Len(s)) \o t
<1>1. PICK a \in Seq(S) : a = SubSeq(s, d + 1, Len(s)) /\ Len(a) = Len(s) - d /\ \A i \in 1..(Len(s) - d) : a[i] = s[d + i]
  <2>1. SubSeq(s, d + 1, Len(s)) \in Seq(S) /\ Len(SubSeq(s, d + 1, Len(s))) = Len(s) - d
    BY Dropped, Zenon
  <2>2. \A i \in 1..(Len(s) - d) : SubSeq(s, d + 1, Len(s))[i] = s[d + i]
    BY Dropped
  <2> QED
    BY <2>1, <2>2
<1>2. PICK c \in Seq(S) : /\ c = s \o t /\ Len(c) = Len(s) + Len(t)
                          /\ (\A i \in 1..Len(s) : c[i] = s[i]) /\ (\A i \in 1..Len(t) : c[Len(s) + i] = t[i])
  <2>1. s \o t \in Seq(S) /\ Len(s \o t) = Len(s) + Len(t)
    BY ConcatenatedLength
  <2>2. \A i \in 1..Len(s) : (s \o t)[i] = s[i]
    BY Concatenated
  <2>3. \A i \in 1..Len(t) : (s \o t)[Len(s) + i] = t[i]
    BY Concatenated
  <2> QED
    BY <2>1, <2>2, <2>3
<1>3. PICK x \in Seq(S) : x = SubSeq(c, d + 1, Len(c)) /\ Len(x) = Len(c) - d /\ \A i \in 1..(Len(c) - d) : x[i] = c[d + i]
  <2>0. d <= Len(c)
    BY <1>2
  <2>1. SubSeq(c, d + 1, Len(c)) \in Seq(S) /\ Len(SubSeq(c, d + 1, Len(c))) = Len(c) - d
    BY <2>0, Dropped, Zenon
  <2>2. \A i \in 1..(Len(c) - d) : SubSeq(c, d + 1, Len(c))[i] = c[d + i]
    BY <2>0, Dropped
  <2> QED
    BY <2>1, <2>2
<1>4. PICK y \in Seq(S) : /\ y = a \o t /\ Len(y) = Len(a) + Len(t)
                          /\ (\A i \in 1..Len(a) : y[i] = a[i]) /\ (\A i \in 1..Len(t) : y[Len(a) + i] = t[i])
  <2>1. a \o t \in Seq(S) /\ Len(a \o t) = Len(a) + Len(t)
    BY ConcatenatedLength
  <2>2. \A i \in 1..Len(a) : (a \o t)[i] = a[i]
    BY Concatenated
  <2>3. \A i \in 1..Len(t) : (a \o t)[Len(a) + i] = t[i]
    BY Concatenated
  <2> QED
    BY <2>1, <2>2, <2>3
<1>5. PICK k \in Nat : k = Len(s)
  OBVIOUS
<1>6. PICK m \in Nat : m = Len(t)
  OBVIOUS
<1>7. Len(a) = k - d /\ Len(c) = k + m /\ Len(x) = k + m - d /\ Len(y) = k + m - d
  <2>1. Len(a) = k - d
    BY <1>1, <1>5
  <2>2. Len(c) = k + m
    BY <1>2, <1>5, <1>6
  <2>3. Len(x) = k + m - d
    BY <1>3, <2>2
  <2>4. Len(y) = k + m - d
    BY <1>4, <1>6, <2>1
  <2> QED
    BY <2>1, <2>2, <2>3, <2>4
<1>8. ASSUME NEW i \in 1..(k + m - d) PROVE x[i] = y[i]
  <2>1. x[i] = c[d + i]
    BY <1>3, <1>7
  <2>2. CASE i <= k - d
    <3>1. i \in 1..(k - d) /\ d + i \in 1..k
      BY <2>2
    <3> QED
      BY <1>1, <1>2, <1>4, <1>5, <1>7, <2>1, <3>1
  <2>3. CASE ~ (i <= k - d)
    <3>1. i - (k - d) \in 1..m /\ (k - d) + (i - (k - d)) = i /\ k + (i - (k - d)) = d + i
      BY <2>3, <1>5
    <3>2. y[(k - d) + (i - (k - d))] = t[i - (k - d)] /\ c[k + (i - (k - d))] = t[i - (k - d)]
      BY <1>2, <1>4, <1>5, <1>6, <1>7, <3>1
    <3> QED
      BY <2>1, <3>1, <3>2
  <2> QED
    BY <2>2, <2>3
<1>9. x = y
  BY <1>7, <1>8, SameSequence
<1> QED
  BY <1>1, <1>2, <1>3, <1>4, <1>9

\* The outcome m of NextMessage has the next units of the plaintext, and leaves boxes that
\* hold, with the boxes w behind them, the rest.
OpensNext(m, w, p, a, c) ==
    /\ m.nonce \in Int /\ m.msg \in Seq(Units) /\ m.left \in Seq(Boxes)
    /\ a + Len(m.msg) <= Len(p) /\ \A j \in 1..Len(m.msg) : m.msg[j] = p[a + j]
    /\ Holds(m.left \o w, p, a + Len(m.msg), c)
    /\ m.r = "more" => m.msg = << >>

\* What NextMessage returns of a buffer that holds the plaintext after the first a units
\* is the next of it, and it leaves a buffer that holds the rest.
LEMMA NextMessageOpens ==
    ASSUME NEW buf \in Seq(Boxes), NEW w \in Seq(Boxes), NEW p \in Seq(Units), NEW a \in Nat, NEW c \in BOOLEAN,
           Holds(buf \o w, p, a, c), unNonce \in Int, NEW m, m = Box!NextMessage(buf)
    PROVE  OpensNext(m, w, p, a, c)
<1>0. a <= Len(p)
  <2>1. PICK off \in [1..(Len(buf \o w) + 1) -> Nat] : HoldsAt(buf \o w, p, a, c, off)
    BY DEF Holds
  <2>2. 1 \in 1..(Len(buf \o w) + 1)
    BY Concatenated
  <2> QED
    BY <2>1, <2>2 DEF HoldsAt
<1>1. ASSUME m.msg = << >>, m.left = buf, m.nonce \in Int
      PROVE  OpensNext(m, w, p, a, c)
  <2>1. Len(m.msg) = 0 /\ m.msg \in Seq(Units) /\ a + 0 = a
    BY <1>1
  <2> QED
    BY <1>0, <1>1, <2>1 DEF OpensNext
<1>2. CASE buf = << >>
  BY <1>1, <1>2 DEF Box!NextMessage
<1>3. CASE buf # << >>
  <2>0. buf[1] \in Boxes
    BY <1>3
  <2>1. CASE buf[1].kind # "head" \/ buf[1].nonce # unNonce
    BY <1>1, <1>3, <2>1 DEF Box!NextMessage
  <2>2. CASE ~ (buf[1].kind # "head" \/ buf[1].nonce # unNonce)
    <3>1. buf[1].kind = "head" /\ buf[1].nonce = unNonce
      BY <2>2
    <3>2. PICK n \in Nat : n = buf[1].len
      BY <2>0, <3>1, HeadBox
    <3>3. PICK s \in Seq(Boxes) : s = buf \o w
      BY Concatenated
    <3>4. Holds(s, p, a, c) /\ s # << >> /\ s[1] = buf[1]
      <4>1. Len(buf) > 0 /\ 1 \in 1..Len(buf)
        BY <1>3
      <4>2. Len(buf \o w) = Len(buf) + Len(w) /\ (buf \o w)[1] = buf[1]
        BY <4>1, Concatenated
      <4>3. Len(s) > 0
        BY <3>3, <4>1, <4>2
      <4> QED
        BY <3>3, <4>2, <4>3
    <3>5. CASE buf[1].goodbye
      <4>1. m = [r |-> "message", msg |-> Box!Goodbye, nonce |-> unNonce + 1, left |-> SubSeq(buf, n + 2, Len(buf))]
        BY <1>3, <2>2, <3>2, <3>5 DEF Box!NextMessage
      <4>2. /\ a + 2 <= Len(p) /\ 1 <= Len(s) /\ (\A j \in 1..2 : p[a + j] = Box!Zero) /\ Len(s) = 1
            /\ Holds(SubSeq(s, 1 + 1, Len(s)), p, a + 2, c)
        <5>1. FirstMessage(s, 2, 1)
          BY <3>4, <3>5 DEF FirstMessage
        <5>2. /\ a + 2 <= Len(p) /\ 1 <= Len(s) /\ FirstUnits(s, p, a, 2)
              /\ Holds(SubSeq(s, 1 + 1, Len(s)), p, a + 2, c)
          BY <3>4, <5>1, MessageTaken
        <5> QED
          BY <3>4, <3>5, <5>2 DEF FirstUnits
      <4>3. n = 0
        <5>1. PICK off \in [1..(Len(s) + 1) -> Nat] : HoldsAt(s, p, a, c, off)
          BY <3>4 DEF Holds
        <5>2. 1 \in 1..Len(s)
          BY <4>2
        <5>3. LastSegment(s, p, off, 1)
          BY <3>1, <3>4, <3>5, <5>1, <5>2 DEF HoldsAt
        <5> QED
          BY <3>2, <3>4, <5>3 DEF LastSegment
      <4>4. SubSeq(s, 1 + 1, Len(s)) = SubSeq(buf, 1 + 1, Len(buf)) \o w
        <5>1. 1 <= Len(buf)
          BY <1>3
        <5> QED
          BY <3>3, <5>1, DroppedConcatenated
      <4>5. n + 2 = 1 + 1 /\ SubSeq(buf, 1 + 1, Len(buf)) \in Seq(Boxes)
        BY <1>3, <4>3, Dropped
      <4>6. m.left = SubSeq(buf, 1 + 1, Len(buf)) /\ m.msg = Box!Goodbye /\ m.nonce = unNonce + 1 /\ m.r = "message"
        BY <4>1, <4>5
      <4>7. m.msg \in Seq(Units) /\ Len(m.msg) = 2 /\ \A j \in 1..2 : m.msg[j] = Box!Zero
        BY <4>6, GoodbyeUnits
      <4>8. m.nonce \in Int /\ m.left \in Seq(Boxes) /\ m.r # "more"
        BY <4>5, <4>6
      <4>9. Holds(m.left \o w, p, a + Len(m.msg), c)
        BY <4>2, <4>4, <4>6, <4>7
      <4>10. a + Len(m.msg) <= Len(p) /\ \A j \in 1..Len(m.msg) : m.msg[j] = p[a + j]
        BY <4>2, <4>7
      <4> QED
        BY <4>7, <4>8, <4>9, <4>10 DEF OpensNext
    <3>6. CASE ~ buf[1].goodbye /\ Len(buf) < 1 + n
      <4>1. m = [r |-> "more", msg |-> << >>, nonce |-> unNonce + 1, left |-> buf]
        BY <1>3, <2>2, <3>2, <3>6 DEF Box!NextMessage
      <4> QED
        BY <1>1, <4>1
    <3>7. CASE /\ ~ buf[1].goodbye /\ ~ (Len(buf) < 1 + n)
               /\ \E i \in 2..(n + 1) : buf[i].kind # "body" \/ buf[i].nonce # unNonce + 1
      <4>1. m = [r |-> "error", msg |-> << >>, nonce |-> unNonce + 1, left |-> buf]
        BY <1>3, <2>2, <3>2, <3>7 DEF Box!NextMessage
      <4> QED
        BY <1>1, <4>1
    <3>8. CASE /\ ~ buf[1].goodbye /\ ~ (Len(buf) < 1 + n)
               /\ ~ \E i \in 2..(n + 1) : buf[i].kind # "body" \/ buf[i].nonce # unNonce + 1
      <4>1. m = [r |-> IF n = 0 THEN "more" ELSE "message", msg |-> [i \in 1..n |-> buf[i + 1].unit],
                 nonce |-> unNonce + 2, left |-> SubSeq(buf, n + 2, Len(buf))]
        BY <1>3, <2>2, <3>2, <3>8 DEF Box!NextMessage
      <4>2. n + 1 \in Nat /\ n + 1 <= Len(buf) /\ n + 2 = (n + 1) + 1
        BY <3>8
      <4>3. /\ a + n <= Len(p) /\ (\A j \in 1..n : s[1 + j].unit = p[a + j])
            /\ Holds(SubSeq(s, (n + 1) + 1, Len(s)), p, a + n, c)
        <5>1. FirstMessage(s, n, n + 1) /\ n + 1 \in Nat
          BY <3>2, <3>4, <3>8, <4>2 DEF FirstMessage
        <5>2. /\ a + n <= Len(p) /\ FirstUnits(s, p, a, n)
              /\ Holds(SubSeq(s, (n + 1) + 1, Len(s)), p, a + n, c)
          BY <3>4, <5>1, MessageTaken
        <5> QED
          BY <3>4, <3>8, <5>2 DEF FirstUnits
      <4>4. SubSeq(s, (n + 1) + 1, Len(s)) = SubSeq(buf, (n + 1) + 1, Len(buf)) \o w
        BY <3>3, <4>2, DroppedConcatenated
      <4>5. SubSeq(buf, (n + 1) + 1, Len(buf)) \in Seq(Boxes)
        BY <4>2, Dropped
      <4>6. /\ m.left = SubSeq(buf, (n + 1) + 1, Len(buf)) /\ m.nonce = unNonce + 2
            /\ m.msg = [i \in 1..n |-> buf[i + 1].unit] /\ (m.r = "more" => n = 0)
        BY <4>1, <4>2
      <4>7. \A i \in 1..n : buf[i + 1] \in Boxes /\ buf[i + 1].kind = "body" /\ buf[i + 1] = s[1 + i]
        <5>1. TAKE i \in 1..n
        <5>2. i + 1 \in 2..(n + 1) /\ i + 1 \in 1..Len(buf) /\ i + 1 = 1 + i
          BY <4>2
        <5>3. (buf \o w)[i + 1] = buf[i + 1]
          BY <5>2, Concatenated
        <5> QED
          BY <3>3, <3>8, <5>2, <5>3
      <4>8. \A i \in 1..n : buf[i + 1].unit \in Units
        BY <4>7 DEF Boxes
      <4>9. m.msg \in [1..n -> Units]
        BY <4>6, <4>8
      <4>10. m.msg \in Seq(Units) /\ Len(m.msg) = n
        <5>1. PICK msg \in [1..n -> Units] : msg = m.msg
          BY <4>9
        <5>2. msg \in Seq(Units) /\ Len(msg) = n
          OBVIOUS
        <5> QED
          BY <5>1, <5>2
      <4>11. \A j \in 1..n : m.msg[j] = p[a + j]
        <5>1. TAKE j \in 1..n
        <5>2. m.msg[j] = buf[j + 1].unit
          BY <4>6
        <5>3. buf[j + 1] = s[1 + j] /\ s[1 + j].unit = p[a + j]
          BY <4>3, <4>7
        <5> QED
          BY <5>2, <5>3
      <4>12. m.r = "more" => m.msg = << >>
        BY <4>6, <4>10
      <4>13. m.nonce \in Int /\ m.left \in Seq(Boxes)
        BY <4>5, <4>6
      <4>14. Holds(m.left \o w, p, a + Len(m.msg), c)
        BY <4>3, <4>4, <4>6, <4>10
      <4>15. a + Len(m.msg) <= Len(p) /\ \A j \in 1..Len(m.msg) : m.msg[j] = p[a + j]
        BY <4>3, <4>10, <4>11
      <4> QED
        BY <4>10, <4>12, <4>13, <4>14, <4>15 DEF OpensNext
    <3> QED
      BY <3>5, <3>6, <3>7, <3>8
  <2> QED
    BY <2>1, <2>2
<1> QED
  BY <1>2, <1>3

\* A sequence cut in two is the two parts joined.
LEMMA CutAndJoined ==
    ASSUME NEW S, NEW s \in Seq(S), NEW n \in Nat, n <= Len(s)
    PROVE  SubSeq(s, 1, n) \o SubSeq(s, n + 1, Len(s)) = s
<1>1. PICK a \in Seq(S) : a = SubSeq(s, 1, n) /\ Len(a) = n /\ \A i \in 1..n : a[i] = s[i]
  <2>1. SubSeq(s, 1, n) \in Seq(S) /\ Len(SubSeq(s, 1, n)) = n
    BY Beginning, Zenon
  <2>2. \A i \in 1..n : SubSeq(s, 1, n)[i] = s[i]
    BY Beginning
  <2> QED
    BY <2>1, <2>2
<1>2. PICK b \in Seq(S) : b = SubSeq(s, n + 1, Len(s)) /\ Len(b) = Len(s) - n /\ \A i \in 1..(Len(s) - n) : b[i] = s[n + i]
  <2>1. SubSeq(s, n + 1, Len(s)) \in Seq(S) /\ Len(SubSeq(s, n + 1, Len(s))) = Len(s) - n
    BY Dropped, Zenon
  <2>2. \A i \in 1..(Len(s) - n) : SubSeq(s, n + 1, Len(s))[i] = s[n + i]
    BY Dropped
  <2> QED
    BY <2>1, <2>2
<1>3. PICK c \in Seq(S) : /\ c = a \o b /\ Len(c) = Len(a) + Len(b)
                          /\ (\A i \in 1..Len(a) : c[i] = a[i]) /\ (\A i \in 1..Len(b) : c[Len(a) + i] = b[i])
  <2>1. a \o b \in Seq(S) /\ Len(a \o b) = Len(a) + Len(b)
    BY ConcatenatedLength
  <2>2. \A i \in 1..Len(a) : (a \o b)[i] = a[i]
    BY Concatenated
  <2>3. \A i \in 1..Len(b) : (a \o b)[Len(a) + i] = b[i]
    BY Concatenated
  <2> QED
    BY <2>1, <2>2, <2>3
<1>4. PICK k \in Nat : k = Len(s) /\ n <= k
  OBVIOUS
<1>5. Len(c) = k
  <2>1. Len(a) = n /\ Len(b) = k - n /\ Len(c) = Len(a) + Len(b)
    BY <1>1, <1>2, <1>3, <1>4
  <2> QED
    BY <2>1
<1>6. ASSUME NEW i \in 1..k PROVE c[i] = s[i]
  <2>1. CASE i \in 1..n
    BY <1>1, <1>3, <2>1
  <2>2. CASE ~ (i \in 1..n)
    <3>1. i - n \in 1..(k - n) /\ n + (i - n) = i
      BY <1>4, <2>2
    <3>2. c[n + (i - n)] = b[i - n] /\ b[i - n] = s[n + (i - n)]
      BY <1>1, <1>2, <1>3, <1>4, <3>1
    <3> QED
      BY <3>1, <3>2
  <2> QED
    BY <2>1, <2>2
<1>7. c = s
  BY <1>4, <1>5, <1>6, SameSequence
<1> QED
  BY <1>1, <1>2, <1>3, <1>7

\* Deliver keeps the invariant, wherever the buffer is cut from what is sealed.
LEMMA DeliverKeeps ==
    ASSUME BoxInv, leftover = << >>, NEW buf \in Seq(Boxes), sealed' \in Seq(Boxes),
           buf \o sealed' = buffer \o sealed, Box!Deliver(buf),
           UNCHANGED << Box!writerVars, Box!packetVars >>
    PROVE  BoxInv' /\ Grows(opened, opened') /\ plain' = plain
<1>t. /\ plain \in Seq(Units) /\ opened \in Seq(Units) /\ unNonce \in Int /\ closed \in BOOLEAN /\ Len(opened) \in Nat
  BY DEF BoxInv, BoxTypes
<1>0. /\ sent' = sent /\ todo' = todo /\ boxNonce' = boxNonce /\ closed' = closed /\ plain' = plain
      /\ header' = header /\ body' = body /\ packets' = packets
  BY DEF Box!writerVars, Box!packetVars
<1>1. PICK m : m = Box!NextMessage(buf)
  OBVIOUS
<1>2. /\ unNonce' = m.nonce /\ buffer' = m.left /\ leftover' = m.msg /\ opened' = opened \o m.msg
      /\ reading' = IF m.r = "error" THEN "failed" ELSE IF m.r = "more" THEN "wait" ELSE "call"
  BY <1>1 DEF Box!Deliver
<1>3. Holds(buf \o sealed', plain, Len(opened), closed)
  BY DEF BoxInv, SealedHold
<1>4. /\ m.nonce \in Int /\ m.msg \in Seq(Units) /\ m.left \in Seq(Boxes)
      /\ Len(opened) + Len(m.msg) <= Len(plain) /\ \A j \in 1..Len(m.msg) : m.msg[j] = plain[Len(opened) + j]
      /\ Holds(m.left \o sealed', plain, Len(opened) + Len(m.msg), closed)
      /\ m.r = "more" => m.msg = << >>
  <2>1. OpensNext(m, sealed', plain, Len(opened), closed)
    BY <1>t, <1>1, <1>3, NextMessageOpens
  <2> QED
    BY <2>1 DEF OpensNext
<1>5. PICK msg \in Seq(Units) : msg = m.msg
  BY <1>4
<1>6. opened' = opened \o msg /\ leftover' = msg
  BY <1>2, <1>5
<1>7. opened' \in Seq(Units) /\ Len(opened') = Len(opened) + Len(msg)
  <2>1. opened \o msg \in Seq(Units) /\ Len(opened \o msg) = Len(opened) + Len(msg)
    BY <1>t, ConcatenatedLength
  <2> QED
    BY <1>6, <2>1
<1>8. \A i \in 1..Len(opened) : opened'[i] = opened[i]
  BY <1>t, <1>6, Concatenated
<1>9. \A i \in 1..Len(msg) : opened'[Len(opened) + i] = msg[i]
  BY <1>t, <1>6, Concatenated
<1>10. BoxTypes'
  BY <1>0, <1>2, <1>4, <1>5, <1>6, <1>7 DEF BoxInv, BoxTypes
<1>11. SealedHold'
  <2>1. Holds(buffer' \o sealed', plain', Len(opened'), closed)
    BY <1>0, <1>2, <1>4, <1>5, <1>7
  <2> QED
    BY <1>0, <2>1 DEF SealedHold
<1>12. OpenedIsPlain'
  <2>1. Len(opened') <= Len(plain')
    BY <1>0, <1>4, <1>5, <1>7
  <2>2. ASSUME NEW j \in 1..Len(opened') PROVE opened'[j] = plain[j]
    <3>1. CASE j \in 1..Len(opened)
      BY <1>8, <3>1 DEF BoxInv, OpenedIsPlain
    <3>2. CASE ~ (j \in 1..Len(opened))
      <4>1. j - Len(opened) \in 1..Len(msg) /\ Len(opened) + (j - Len(opened)) = j
        BY <1>t, <1>7, <3>2
      <4>2. opened'[Len(opened) + (j - Len(opened))] = msg[j - Len(opened)]
        BY <1>9, <4>1
      <4>3. msg[j - Len(opened)] = plain[Len(opened) + (j - Len(opened))]
        BY <1>4, <1>5, <4>1
      <4> QED
        BY <4>1, <4>2, <4>3
    <3> QED
      BY <3>1, <3>2
  <2> QED
    BY <1>0, <2>1, <2>2 DEF OpenedIsPlain
<1>13. PlainInOrder' /\ WriterInv'
  BY <1>0 DEF BoxInv, PlainInOrder, Cut, WriterInv, WriterAt
<1>14. Taken' = Taken /\ Taken' = Len(opened)
  <2>1. Len(leftover) = 0 /\ Len(leftover') = Len(msg) /\ Len(msg) \in Nat
    BY <1>6
  <2> QED
    BY <1>t, <1>7, <2>1 DEF Taken
<1>15. LeftoverInv'
  <2>1. Len(leftover') <= Len(opened')
    BY <1>t, <1>6, <1>7
  <2>2. \A j \in 1..Len(leftover') : leftover'[j] = opened'[Taken' + j]
    BY <1>6, <1>9, <1>14
  <2>3. reading' = "wait" => leftover' = << >>
    BY <1>2, <1>4
  <2> QED
    BY <2>1, <2>2, <2>3 DEF LeftoverInv
<1>16. ReaderInv'
  BY <1>0, <1>14 DEF BoxInv, ReaderInv, Cut, Box!PacketsIntact
<1>17. Grows(opened, opened')
  BY <1>t, <1>7, <1>8 DEF Grows
<1> QED
  BY <1>0, <1>10, <1>11, <1>12, <1>13, <1>15, <1>16, <1>17 DEF BoxInv

\* ReadBuffer keeps the invariant.
LEMMA ReadBufferKeeps ==
    ASSUME BoxInv, Box!ReadBuffer
    PROVE  BoxInv' /\ Grows(opened, opened') /\ plain' = plain
<1>1. buffer \in Seq(Boxes) /\ sealed \in Seq(Boxes)
  BY DEF BoxInv, BoxTypes
<1>2. leftover = << >> /\ Box!Deliver(buffer) /\ sealed' = sealed /\ UNCHANGED << Box!writerVars, Box!packetVars >>
  BY DEF Box!ReadBuffer
<1> QED
  BY <1>1, <1>2, DeliverKeeps

\* ConnRead keeps the invariant.
LEMMA ConnReadKeeps ==
    ASSUME BoxInv, NEW n \in 1..Len(sealed), Box!ConnRead(n)
    PROVE  BoxInv' /\ Grows(opened, opened') /\ plain' = plain
<1>1. buffer \in Seq(Boxes) /\ sealed \in Seq(Boxes) /\ n \in Nat /\ n <= Len(sealed)
  BY DEF BoxInv, BoxTypes
<1>2. /\ reading = "wait" /\ sealed' = SubSeq(sealed, n + 1, Len(sealed))
      /\ Box!Deliver(buffer \o SubSeq(sealed, 1, n)) /\ UNCHANGED << Box!writerVars, Box!packetVars >>
  BY DEF Box!ConnRead
<1>3. leftover = << >>
  BY <1>2 DEF BoxInv, LeftoverInv
<1>4. SubSeq(sealed, 1, n) \in Seq(Boxes) /\ SubSeq(sealed, n + 1, Len(sealed)) \in Seq(Boxes)
  BY <1>1
<1>5. SubSeq(sealed, 1, n) \o SubSeq(sealed, n + 1, Len(sealed)) = sealed
  BY <1>1, CutAndJoined
<1>6. PICK one \in Seq(Boxes) : one = SubSeq(sealed, 1, n)
  BY <1>4
<1>7. PICK two \in Seq(Boxes) : two = SubSeq(sealed, n + 1, Len(sealed))
  BY <1>4
<1>8. (buffer \o one) \o two = buffer \o (one \o two) /\ buffer \o one \in Seq(Boxes)
  BY <1>1
<1>9. /\ sealed' \in Seq(Boxes) /\ buffer \o one \in Seq(Boxes)
      /\ (buffer \o one) \o sealed' = buffer \o sealed /\ Box!Deliver(buffer \o one)
  BY <1>2, <1>5, <1>6, <1>7, <1>8
<1> QED
  BY <1>2, <1>3, <1>9, DeliverKeeps

\* The actions of the packet reader leave what is below it alone.
LEMMA ReaderLeavesStream ==
    ASSUME BoxInv, UNCHANGED << Box!writerVars, sealed, buffer, opened, unNonce >>,
           leftover' \in Seq(Units), body' \in Seq(Units),
           packets' \in Seq([head : Units, body : Seq(Units)]), header' \in Units \cup {Box!NoHeader},
           LeftoverInv', ReaderInv'
    PROVE  BoxInv'
<1>0. /\ sent' = sent /\ todo' = todo /\ boxNonce' = boxNonce /\ closed' = closed /\ plain' = plain
      /\ sealed' = sealed /\ buffer' = buffer /\ opened' = opened /\ unNonce' = unNonce
  BY DEF Box!writerVars
<1>1. BoxTypes'
  BY <1>0 DEF BoxInv, BoxTypes
<1>2. SealedHold' /\ OpenedIsPlain'
  BY <1>0 DEF BoxInv, SealedHold, OpenedIsPlain
<1>3. PlainInOrder' /\ WriterInv'
  BY <1>0 DEF BoxInv, PlainInOrder, Cut, WriterInv, WriterAt
<1> QED
  BY <1>1, <1>2, <1>3 DEF BoxInv

\* The first unit left over is the next of the plaintext, and taking it keeps the rest.
LEMMA UnitTaken ==
    ASSUME BoxInv, leftover # << >>, leftover' = Tail(leftover), opened' = opened,
           reading # "wait", reading' \in {reading, "eof"}
    PROVE  /\ leftover' \in Seq(Units) /\ leftover[1] \in Units /\ leftover[1] = plain[Taken + 1]
           /\ Taken \in Nat /\ Taken' = Taken + 1 /\ Taken + 1 <= Len(plain)
           /\ LeftoverInv'
<1>t. leftover \in Seq(Units) /\ opened \in Seq(Units) /\ plain \in Seq(Units)
  BY DEF BoxInv, BoxTypes
<1>1. PICK n \in Nat : n = Len(leftover) /\ n > 0
  BY <1>t
<1>2. PICK o \in Nat : o = Len(opened)
  BY <1>t
<1>3. PICK p \in Nat : p = Len(plain)
  BY <1>t
<1>4. n <= o /\ o <= p /\ \A j \in 1..n : leftover[j] = opened[Taken + j]
  BY <1>1, <1>2, <1>3 DEF BoxInv, LeftoverInv, OpenedIsPlain
<1>5. Taken = o - n /\ Taken \in Nat
  BY <1>1, <1>2, <1>4 DEF Taken
<1>6. Tail(leftover) \in Seq(Units) /\ Len(Tail(leftover)) = n - 1 /\ \A j \in 1..(n - 1) : Tail(leftover)[j] = leftover[j + 1]
  BY <1>t, <1>1
<1>7. Taken' = Taken + 1
  <2>1. Len(leftover') = n - 1 /\ Len(opened') = o
    BY <1>2, <1>6
  <2> QED
    BY <1>5, <2>1 DEF Taken
<1>8. leftover[1] \in Units /\ leftover[1] = plain[Taken + 1]
  <2>1. 1 \in 1..n /\ Taken + 1 \in 1..o
    BY <1>1, <1>4, <1>5
  <2>2. opened[Taken + 1] = plain[Taken + 1]
    BY <1>2, <2>1 DEF BoxInv, OpenedIsPlain
  <2> QED
    BY <1>t, <1>1, <1>4, <2>1, <2>2
<1>9. LeftoverInv'
  <2>1. Len(leftover') <= Len(opened')
    BY <1>1, <1>2, <1>4, <1>6
  <2>2. \A j \in 1..(n - 1) : leftover'[j] = opened'[Taken' + j]
    <3>1. TAKE j \in 1..(n - 1)
    <3>2. j + 1 \in 1..n /\ Taken + (j + 1) = Taken' + j
      BY <1>1, <1>5, <1>7
    <3>3. leftover'[j] = leftover[j + 1]
      BY <1>6
    <3> QED
      BY <1>4, <3>2, <3>3
  <2>3. reading' # "wait"
    OBVIOUS
  <2> QED
    BY <1>6, <2>1, <2>2, <2>3 DEF LeftoverInv
<1> QED
  BY <1>3, <1>4, <1>5, <1>6, <1>7, <1>8, <1>9, <1>1

\* ReadHeader keeps the invariant.
LEMMA ReadHeaderKeeps ==
    ASSUME BoxInv, Box!ReadHeader
    PROVE  BoxInv' /\ plain' = plain /\ opened' = opened
<1>0. /\ reading = "call" /\ leftover # << >> /\ header = Box!NoHeader /\ leftover' = Tail(leftover)
      /\ body' = body /\ packets' = packets
      /\ UNCHANGED << Box!writerVars, sealed, buffer, opened, unNonce >>
  BY DEF Box!ReadHeader
<1>1. reading' \in {reading, "eof"}
  BY DEF Box!ReadHeader
<1>2. \/ leftover[1] = Box!Zero /\ header' = header
      \/ leftover[1] # Box!Zero /\ header' = leftover[1]
  BY DEF Box!ReadHeader
<1>3. /\ sent' = sent /\ plain' = plain /\ closed' = closed /\ todo' = todo
  BY <1>0 DEF Box!writerVars
<1>t. /\ sent \in Seq(Nat) /\ plain \in Seq(Units) /\ Len(packets) \in Nat /\ body \in Seq(Units)
      /\ packets \in Seq([head : Units, body : Seq(Units)])
  BY DEF BoxInv, BoxTypes
<1>4. /\ leftover' \in Seq(Units) /\ leftover[1] \in Units /\ leftover[1] = plain[Taken + 1]
      /\ Taken \in Nat /\ Taken' = Taken + 1 /\ Taken + 1 <= Len(plain)
      /\ LeftoverInv'
  BY <1>0, <1>1, UnitTaken
<1>5. PICK cut \in BOOLEAN : cut <=> Cut
  OBVIOUS
<1>6. InOrder(sent, cut, plain)
  BY <1>5 DEF BoxInv, PlainInOrder, InOrder, Follows, FollowsAt
<1>7. ReaderAt(sent, cut, plain, Taken, Len(packets), Box!NoHeader, body)
  <2>1. ReaderAt(sent, Cut, plain, Taken, Len(packets), Box!NoHeader, body)
    BY <1>0 DEF BoxInv, ReaderInv
  <2> QED
    BY <1>5, <2>1 DEF ReaderAt
<1>8. PICK u \in Units : u = leftover[1]
  BY <1>4
<1>9. /\ u = Box!Zero => ReaderAt(sent, cut, plain, Taken + 1, Len(packets), Box!NoHeader, body)
      /\ u # Box!Zero => ReaderAt(sent, cut, plain, Taken + 1, Len(packets), u, body)
  <2>1. u = plain[Taken + 1]
    BY <1>4, <1>8
  <2> QED
    BY <1>t, <1>4, <1>6, <1>7, <2>1, HeaderTaken
<1>10. ReaderAt(sent, cut, plain, Taken', Len(packets), header', body)
  BY <1>0, <1>2, <1>4, <1>8, <1>9
<1>11. ReaderInv'
  <2>1. ReaderAt(sent', Cut', plain', Taken', Len(packets'), header', body')
    <3>1. cut <=> Cut'
      BY <1>3, <1>5 DEF Cut
    <3>2. ReaderAt(sent', cut, plain', Taken', Len(packets'), header', body')
      BY <1>0, <1>3, <1>10
    <3> QED
      BY <3>1, <3>2 DEF ReaderAt
  <2> QED
    BY <1>0, <1>3, <2>1 DEF BoxInv, ReaderInv, Box!PacketsIntact
<1>12. header' \in Units \cup {Box!NoHeader}
  BY <1>0, <1>2, <1>4
<1> QED
  BY <1>0, <1>3, <1>4, <1>11, <1>12, <1>t, ReaderLeavesStream

\* ReadBody keeps the invariant.
LEMMA ReadBodyKeeps ==
    ASSUME BoxInv, Box!ReadBody
    PROVE  BoxInv' /\ plain' = plain /\ opened' = opened
<1>0. /\ reading = "call" /\ leftover # << >> /\ header # Box!NoHeader /\ leftover' = Tail(leftover)
      /\ Len(body) < header.len /\ body' = Append(body, leftover[1])
      /\ packets' = packets /\ header' = header /\ reading' = reading
      /\ UNCHANGED << Box!writerVars, sealed, buffer, opened, unNonce >>
  BY DEF Box!ReadBody
<1>3. /\ sent' = sent /\ plain' = plain /\ closed' = closed /\ todo' = todo
  BY <1>0 DEF Box!writerVars
<1>t. /\ sent \in Seq(Nat) /\ plain \in Seq(Units) /\ Len(packets) \in Nat /\ body \in Seq(Units)
      /\ packets \in Seq([head : Units, body : Seq(Units)]) /\ header \in Units
  BY <1>0 DEF BoxInv, BoxTypes
<1>4. /\ leftover' \in Seq(Units) /\ leftover[1] \in Units /\ leftover[1] = plain[Taken + 1]
      /\ Taken \in Nat /\ Taken' = Taken + 1 /\ Taken + 1 <= Len(plain)
      /\ LeftoverInv'
  <2>1. reading # "wait" /\ reading' \in {reading, "eof"} /\ opened' = opened
    BY <1>0
  <2> QED
    BY <1>0, <2>1, UnitTaken
<1>5. PICK cut \in BOOLEAN : cut <=> Cut
  OBVIOUS
<1>6. InOrder(sent, cut, plain)
  BY <1>5 DEF BoxInv, PlainInOrder, InOrder, Follows, FollowsAt
<1>7. ReaderAt(sent, cut, plain, Taken, Len(packets), header, body)
  BY <1>5 DEF BoxInv, ReaderInv, ReaderAt
<1>8. PICK u \in Units : u = leftover[1] /\ u = plain[Taken + 1]
  BY <1>4
<1>9. ReaderAt(sent, cut, plain, Taken + 1, Len(packets), header, Append(body, u))
  BY <1>0, <1>t, <1>4, <1>6, <1>7, <1>8, BodyTaken
<1>10. body' \in Seq(Units)
  <2>1. Append(body, u) \in Seq(Units)
    BY <1>t
  <2> QED
    BY <1>0, <1>8, <2>1
<1>11. ReaderInv'
  <2>1. ReaderAt(sent', Cut', plain', Taken', Len(packets'), header', body')
    <3>1. cut <=> Cut'
      BY <1>3, <1>5 DEF Cut
    <3>2. ReaderAt(sent', cut, plain', Taken', Len(packets'), header', body')
      BY <1>0, <1>3, <1>4, <1>8, <1>9
    <3> QED
      BY <3>1, <3>2 DEF ReaderAt
  <2> QED
    BY <1>0, <1>3, <2>1 DEF BoxInv, ReaderInv, Box!PacketsIntact
<1>12. header' \in Units \cup {Box!NoHeader} /\ packets' \in Seq([head : Units, body : Seq(Units)])
  BY <1>0, <1>t
<1> QED
  BY <1>0, <1>3, <1>4, <1>10, <1>11, <1>12, ReaderLeavesStream

\* ReturnPacket keeps the invariant: the packet is the next one written.
LEMMA ReturnPacketKeeps ==
    ASSUME BoxInv, Box!ReturnPacket
    PROVE  BoxInv' /\ plain' = plain /\ opened' = opened
<1>0. /\ header # Box!NoHeader /\ Len(body) = header.len
      /\ packets' = Append(packets, [head |-> header, body |-> body])
      /\ header' = Box!NoHeader /\ body' = << >> /\ leftover' = leftover /\ reading' = reading
      /\ UNCHANGED << Box!writerVars, sealed, buffer, opened, unNonce >>
  BY DEF Box!ReturnPacket, Box!engineVars
<1>3. /\ sent' = sent /\ plain' = plain /\ closed' = closed /\ todo' = todo /\ opened' = opened
  BY <1>0 DEF Box!writerVars
<1>t. /\ sent \in Seq(Nat) /\ plain \in Seq(Units) /\ Len(packets) \in Nat /\ body \in Seq(Units)
      /\ packets \in Seq([head : Units, body : Seq(Units)]) /\ header \in Units
      /\ leftover \in Seq(Units) /\ opened \in Seq(Units)
  BY <1>0 DEF BoxInv, BoxTypes
<1>4. LeftoverInv' /\ Taken' = Taken /\ Taken \in Nat
  <2>1. Taken' = Taken
    BY <1>0 DEF Taken
  <2>2. LeftoverInv'
    BY <1>0, <2>1 DEF BoxInv, LeftoverInv
  <2>3. Taken \in Nat
    BY <1>t DEF BoxInv, LeftoverInv, Taken
  <2> QED
    BY <2>1, <2>2, <2>3
<1>5. PICK cut \in BOOLEAN : cut <=> Cut
  OBVIOUS
<1>6. PICK i \in Nat : i = Len(packets)
  BY <1>t
<1>7. ReaderAt(sent, cut, plain, Taken, i, header, body)
  BY <1>5, <1>6 DEF BoxInv, ReaderInv, ReaderAt
<1>8. /\ i + 1 \in 1..Len(sent) /\ header = Box!HeaderUnit(i + 1, sent[i + 1])
      /\ \A k \in 1..sent[i + 1] : \/ body[k] = Box!BodyUnit(i + 1, k)
                                   \/ body[k] = Box!Zero /\ cut /\ i + 1 = Len(sent)
      /\ ReaderAt(sent, cut, plain, Taken, i + 1, Box!NoHeader, << >>)
  BY <1>0, <1>t, <1>4, <1>7, PacketTaken
<1>9. PICK q \in [head : Units, body : Seq(Units)] : q = [head |-> header, body |-> body] /\ q.head = header /\ q.body = body
  <2>1. [head |-> header, body |-> body] \in [head : Units, body : Seq(Units)]
    BY <1>t
  <2> QED
    BY <2>1
<1>10. /\ packets' = Append(packets, q) /\ packets' \in Seq([head : Units, body : Seq(Units)])
       /\ Len(packets') = i + 1 /\ (\A j \in 1..i : packets'[j] = packets[j]) /\ packets'[i + 1] = q
  <2>1. packets' = Append(packets, q)
    BY <1>0, <1>9
  <2> QED
    BY <1>t, <1>6, <2>1
<1>11. ReaderAt(sent', Cut', plain', Taken', Len(packets'), header', body')
  <2>1. cut <=> Cut'
    BY <1>3, <1>5 DEF Cut
  <2>2. ReaderAt(sent', cut, plain', Taken', Len(packets'), header', body')
    BY <1>0, <1>3, <1>4, <1>8, <1>10
  <2> QED
    BY <2>1, <2>2 DEF ReaderAt
<1>12. Box!PacketsIntact'
  <2>1. ASSUME NEW j \in 1..(i + 1)
        PROVE  /\ packets'[j].head = Box!HeaderUnit(j, sent[j])
               /\ \A k \in 1..sent[j] : \/ packets'[j].body[k] = Box!BodyUnit(j, k)
                                        \/ packets'[j].body[k] = Box!Zero /\ closed /\ todo # << >> /\ j = Len(sent)
    <3>1. CASE j = i + 1
      BY <1>5, <1>8, <1>9, <1>10, <3>1 DEF Cut
    <3>2. CASE j # i + 1
      <4>1. j \in 1..i /\ packets'[j] = packets[j]
        BY <1>10, <3>2
      <4> QED
        BY <1>6, <4>1 DEF BoxInv, ReaderInv, Box!PacketsIntact
    <3> QED
      BY <3>1, <3>2
  <2> QED
    BY <1>3, <1>10, <2>1 DEF Box!PacketsIntact
<1>13. ReaderInv'
  BY <1>3, <1>8, <1>10, <1>11, <1>12 DEF ReaderInv
<1>14. leftover' \in Seq(Units) /\ body' \in Seq(Units) /\ header' \in Units \cup {Box!NoHeader}
  BY <1>0, <1>t
<1> QED
  BY <1>0, <1>3, <1>4, <1>10, <1>13, <1>14, ReaderLeavesStream

\* ConnEOF keeps the invariant.
LEMMA ConnEOFKeeps ==
    ASSUME BoxInv, Box!ConnEOF
    PROVE  BoxInv' /\ plain' = plain /\ opened' = opened
<1>0. /\ reading' = "eof" /\ leftover' = leftover /\ header' = header /\ body' = body /\ packets' = packets
      /\ UNCHANGED << Box!writerVars, sealed, buffer, opened, unNonce >>
  BY DEF Box!ConnEOF, Box!packetVars
<1>1. sent' = sent /\ plain' = plain /\ closed' = closed /\ todo' = todo /\ opened' = opened
  BY <1>0 DEF Box!writerVars
<1>2. LeftoverInv'
  BY <1>0 DEF BoxInv, LeftoverInv, Taken
<1>3. ReaderInv'
  BY <1>0, <1>1 DEF BoxInv, ReaderInv, Taken, Cut, Box!PacketsIntact
<1>4. /\ leftover' \in Seq(Units) /\ body' \in Seq(Units) /\ header' \in Units \cup {Box!NoHeader}
      /\ packets' \in Seq([head : Units, body : Seq(Units)])
  BY <1>0 DEF BoxInv, BoxTypes
<1> QED
  BY <1>0, <1>1, <1>2, <1>3, <1>4, ReaderLeavesStream

\* Every step keeps the invariant, and gives to the pipe or takes from it.
LEMMA BoxNextKeeps ==
    ASSUME BoxParameters, BoxInv, Box!Next
    PROVE  /\ BoxInv'
           /\ \/ Grows(plain, plain') /\ opened' = opened
              \/ Grows(opened, opened') /\ plain' = plain
<1>1. ASSUME NEW len \in BodyLengths, Box!WriteHeader(len)
      PROVE  BoxInv' /\ Grows(plain, plain') /\ opened' = opened
  BY <1>1, WriteHeaderKeeps
<1>2. CASE Box!WriteBody
  BY <1>2, WriteBodyKeeps
<1>3. CASE Box!Close
  BY <1>3, CloseKeeps
<1>4. CASE Box!ReadBuffer
  BY <1>4, ReadBufferKeeps
<1>5. ASSUME NEW n \in 1..Len(sealed), Box!ConnRead(n)
      PROVE  BoxInv' /\ Grows(opened, opened') /\ plain' = plain
  BY <1>5, ConnReadKeeps
<1>6. ASSUME plain' = plain, opened' = opened
      PROVE  Grows(plain, plain')
  <2>1. Len(plain) \in Nat
    BY DEF BoxInv, BoxTypes
  <2> QED
    BY <1>6, <2>1 DEF Grows
<1>7. CASE Box!ConnEOF
  BY <1>6, <1>7, ConnEOFKeeps
<1>8. CASE Box!ReadHeader
  BY <1>6, <1>8, ReadHeaderKeeps
<1>9. CASE Box!ReadBody
  BY <1>6, <1>9, ReadBodyKeeps
<1>10. CASE Box!ReturnPacket
  BY <1>6, <1>10, ReturnPacketKeeps
<1> QED
  BY <1>1, <1>2, <1>3, <1>4, <1>5, <1>7, <1>8, <1>9, <1>10 DEF Box!Next

\* A sequence that begins with another is longer than it or the same.
LEMMA GrownIsPrefix ==
    ASSUME NEW S, NEW s \in Seq(S), NEW t \in Seq(S), Grows(s, t)
    PROVE  Box!Pipe!IsPrefix(s, t)
<1>1. PICK n \in Nat : n = Len(s) /\ n <= Len(t) /\ \A i \in 1..n : t[i] = s[i]
  BY DEF Grows
<1>2. SubSeq(s, 1, n) \in Seq(S) /\ Len(SubSeq(s, 1, n)) = n /\ \A i \in 1..n : SubSeq(s, 1, n)[i] = s[i]
  BY <1>1, Beginning
<1>3. SubSeq(t, 1, n) \in Seq(S) /\ Len(SubSeq(t, 1, n)) = n /\ \A i \in 1..n : SubSeq(t, 1, n)[i] = t[i]
  BY <1>1, Beginning
<1>4. SubSeq(s, 1, n) = SubSeq(t, 1, n)
  BY <1>1, <1>2, <1>3, SameSequence
<1> QED
  BY <1>1, <1>4 DEF Box!Pipe!IsPrefix

\* The packets the reader returns are those written, the connection's cut apart, and what
\* the unboxer returns is the beginning of what the boxer was given.
LEMMA TransportKeepsBox ==
    ASSUME BoxParameters, BoxInv, [TransportNext]_<< layer, hsVars, boxVars, muxVars >>
    PROVE  /\ BoxInv'
           /\ [Box!Pipe!Next]_<< plain, opened >>
<1>1. ASSUME UNCHANGED boxVars
      PROVE  BoxInv' /\ [Box!Pipe!Next]_<< plain, opened >>
  <2>0. /\ sent' = sent /\ todo' = todo /\ boxNonce' = boxNonce /\ closed' = closed /\ sealed' = sealed
        /\ unNonce' = unNonce /\ buffer' = buffer /\ leftover' = leftover /\ reading' = reading
        /\ header' = header /\ body' = body /\ packets' = packets /\ plain' = plain /\ opened' = opened
    BY <1>1 DEF boxVars
  <2>1. BoxTypes' /\ SealedHold' /\ OpenedIsPlain'
    BY <2>0 DEF BoxInv, BoxTypes, SealedHold, OpenedIsPlain
  <2>2. PlainInOrder' /\ WriterInv' /\ LeftoverInv'
    BY <2>0 DEF BoxInv, PlainInOrder, Cut, WriterInv, WriterAt, LeftoverInv, Taken
  <2>3. ReaderInv'
    BY <2>0 DEF BoxInv, ReaderInv, Taken, Cut, Box!PacketsIntact
  <2> QED
    BY <2>0, <2>1, <2>2, <2>3 DEF BoxInv
<1>2. CASE Box!Next
  <2>1. BoxInv' /\ \/ Grows(plain, plain') /\ opened' = opened
                   \/ Grows(opened, opened') /\ plain' = plain
    BY <1>2, BoxNextKeeps
  <2>t. /\ plain \in Seq(Units) /\ plain' \in Seq(Units) /\ opened \in Seq(Units) /\ opened' \in Seq(Units)
    BY <2>1 DEF BoxInv, BoxTypes
  <2>2. CASE Grows(plain, plain') /\ opened' = opened
    <3>1. Box!Pipe!IsPrefix(plain, plain')
      BY <2>2, <2>t, GrownIsPrefix
    <3> QED
      BY <2>1, <2>2, <3>1 DEF Box!Pipe!Next, Box!Pipe!Put, Box!Pipe!IsStrictPrefix
  <2>3. CASE Grows(opened, opened') /\ plain' = plain
    <3>1. Box!Pipe!IsPrefix(opened, opened')
      BY <2>3, <2>t, GrownIsPrefix
    <3>2. Grows(opened', plain)
      BY <2>1, <2>3 DEF BoxInv, OpenedIsPlain, Grows
    <3>3. Box!Pipe!IsPrefix(opened', plain)
      BY <2>t, <3>2, GrownIsPrefix
    <3> QED
      BY <2>1, <2>3, <3>1, <3>3 DEF Box!Pipe!Next, Box!Pipe!Get, Box!Pipe!IsStrictPrefix
  <2> QED
    BY <2>1, <2>2, <2>3
<1> QED
  BY <1>1, <1>2 DEF TransportNext, Established

\* The sealed stream is a pipe (secretstream/boxstream): whatever the cuts of writes,
\* segments and reads, the unboxer returns the units the boxer was given, none twice, out of
\* order or changed.
THEOREM StreamIsPipe ==
    ASSUME BoxParameters
    PROVE  TransportSpec => PlainIsPipe
<1>1. TransportInit => BoxInv
  BY InitBox DEF TransportInit
<1>2. BoxInv /\ [TransportNext]_<< layer, hsVars, boxVars, muxVars >>
      => BoxInv' /\ [Box!Pipe!Next]_<< plain, opened >>
  BY TransportKeepsBox
<1>3. TransportInit => Box!Pipe!Init
  BY DEF TransportInit, Box!Init, Box!Pipe!Init
<1>4. TransportSpec => TransportInit /\ [][TransportNext]_<< layer, hsVars, boxVars, muxVars >>
  BY DEF TransportSpec
<1>5. TransportSpec => Box!Pipe!Init /\ [][Box!Pipe!Next]_<< plain, opened >>
  BY <1>1, <1>2, <1>3, <1>4, PTL
<1> QED
  BY <1>5 DEF PlainIsPipe, Box!PlainIsPipe, Box!Pipe!Spec
-----------------------------------------------------------------------------
(***************************************************************************)
(* The calls of an established connection.                                  *)
(***************************************************************************)

\* The number of calls is a number.
MuxParameters == MaxCalls \in Nat

Whats == {"request", "frame", "end", "result", "error"}
Packets == [call : Mux!AllCalls, sign : {1, -1}, what : Whats, n : Int]

\* Packet p carries a number of the stream of call c.
Numbered(p, c) == p.call = c /\ p.what \in {"frame", "result"}

\* The numbered packets of c in w are in order, without a hole and up to hi.
OrderedUpTo(w, c, hi) ==
    /\ \A i \in 1..Len(w) : Numbered(w[i], c) => w[i].n \in 1..hi
    /\ \A i, j \in 1..Len(w) : i < j /\ Numbered(w[i], c) /\ Numbered(w[j], c) => w[i].n < w[j].n
    /\ \A i \in 1..Len(w) : Numbered(w[i], c) /\ w[i].n < hi =>
          \E j \in 1..Len(w) : Numbered(w[j], c) /\ w[j].n = w[i].n + 1

\* They go on after m.
GoesOnAfter(w, c, hi, m) ==
    /\ m \in 0..hi
    /\ \A i \in 1..Len(w) : Numbered(w[i], c) => w[i].n > m
    /\ m < hi => \E j \in 1..Len(w) : Numbered(w[j], c) /\ w[j].n = m + 1

\* The last number that was received.
LastOf(got) == IF got = << >> THEN 0 ELSE got[Len(got)]

\* What was received, of the hi numbers that were sent: all of it in order, and an error at
\* the end; the beginning may be missing when the answer was late.
InSequence(got, failed, hi, tardy) ==
    \A i \in 1..Len(got) :
        \/ got[i] = -1 /\ i = Len(got) /\ failed
        \/ /\ got[i] \in 1..hi
           /\ i = 1 => got[i] = 1 \/ tardy
           /\ i > 1 => got[i] = got[i - 1] + 1

\* How many numbers of c were sent to e, and whether e's request c began, is in e's table,
\* and receives them without a loss.
SentTo(e, c) == IF e = c[1] THEN written[c] ELSE call[c].sent
Begun(e, c) ==
    /\ e = c[1] => call[c].at \in {"open", "over"}
    /\ e # c[1] => handler[c] # "none"
Present(e, c) == Begun(e, c) /\ (e # c[1] => handler[c] # "closed")
Receives(e, c) ==
    /\ up /\ ~ source[e][c].failed
    /\ e = c[1] => source[e][c].frames # << >> \/ ~ late[c]
    /\ e # c[1] => handler[c] # "closed"

\* The packets of c on their way to e and what e received of them.
DirectionInv(e, c) ==
    /\ OrderedUpTo(wire[e], c, SentTo(e, c))
    /\ Receives(e, c) => GoesOnAfter(wire[e], c, SentTo(e, c), LastOf(source[e][c].frames))
    /\ InSequence(source[e][c].frames, source[e][c].failed, SentTo(e, c), late[c] /\ e = c[1])
    /\ ~ Begun(e, c) => source[e][c].frames = << >> /\ ~ source[e][c].failed
    /\ Present(e, c) /\ ~ source[e][c].failed => table[e][c[2]] = c
    /\ table[e][c[2]] = c => Present(e, c)

\* Nothing of c is in w, or not its request.
NoneOf(w, c) == \A i \in 1..Len(w) : w[i].call # c
IsRequest(p, c) == p.call = c /\ p.what = "request"
NoRequestOf(w, c) == \A i \in 1..Len(w) : ~ IsRequest(w[i], c)
\* The request of c is in w, the only one and before every other packet of c.
RequestFirst(w, c) ==
    \E i \in 1..Len(w) :
        /\ IsRequest(w[i], c)
        /\ \A j \in 1..Len(w) : (j < i => w[j].call # c) /\ (j > i => ~ IsRequest(w[j], c))

\* A call that was not made has left nothing, and its handler starts with its request.
CallInv(c) ==
    /\ call[c].at = "none" <=> nextID[c[1]] <= c[2]
    /\ call[c].at = "none" =>
          /\ handler[c] = "none" /\ call[c].sent = 0
          /\ \A e \in Mux!Endpoints : NoneOf(wire[e], c)
    /\ handler[c] = "none" => written[c] = 0
    /\ call[c].kind = "async" /\ handler[c] = "run" => written[c] = 0
    /\ up /\ handler[c] = "none" /\ call[c].at # "none" => RequestFirst(wire[Mux!PeerOf(c[1])], c)
    /\ handler[c] # "none" => NoRequestOf(wire[Mux!PeerOf(c[1])], c)

\* What a packet to e can be.
PacketTo(e, p) ==
    /\ p.sign = 1 <=> p.call[1] # e
    /\ p.what = "request" => p.sign = 1
    /\ p.what = "error" => p.n = -1
WireInv ==
    \A e \in Mux!Endpoints : /\ ~ up => wire[e] = << >>
                             /\ \A i \in 1..Len(wire[e]) : PacketTo(e, wire[e][i])

CallRecords == [kind : {"async", "duplex", "none"}, at : {"none", "queued", "open", "over"},
                sink : {"open", "closed"}, sent : Nat]
MuxTypes ==
    /\ nextID \in [Mux!Endpoints -> Nat \ {0}]
    /\ table \in [Mux!Endpoints -> [Mux!Ids -> Mux!AllCalls \cup {Mux!NoRequest}]]
    /\ wire \in [Mux!Endpoints -> Seq(Packets)]
    /\ up \in BOOLEAN /\ crossed \in BOOLEAN
    /\ call \in [Mux!AllCalls -> CallRecords]
    /\ handler \in [Mux!AllCalls -> {"none", "run", "closing", "closed"}]
    /\ written \in [Mux!AllCalls -> Nat]
    /\ source \in [Mux!Endpoints -> [Mux!AllCalls -> [frames : Seq(Int), failed : BOOLEAN]]]
    /\ late \in [Mux!AllCalls -> BOOLEAN]

\* The inductive invariant of the calls, until ids have crossed.
Uncrossed ==
    /\ WireInv
    /\ \A c \in Mux!AllCalls : CallInv(c) /\ \A e \in Mux!Endpoints : DirectionInv(e, c)
MuxInv == MuxTypes /\ (~ crossed => Uncrossed)

\* The wire moves on without a numbered packet of c: nothing, a packet of another kind or
\* another call is sent, or one is received.
MovesOn(w, w2, c) ==
    \/ w2 = w
    \/ \E p \in Packets : w2 = Append(w, p) /\ ~ Numbered(p, c)
    \/ w # << >> /\ w2 = Tail(w) /\ ~ Numbered(w[1], c)

\* What is left of a wire when its first packet is received.
LEMMA Received ==
    ASSUME NEW S, NEW w \in Seq(S), w # << >>
    PROVE  /\ Tail(w) \in Seq(S) /\ Len(w) \in Nat /\ Len(w) > 0 /\ Len(Tail(w)) = Len(w) - 1
           /\ \A i \in 1..(Len(w) - 1) : Tail(w)[i] = w[i + 1]
           /\ 1 \in 1..Len(w) /\ w[1] \in S /\ Head(w) = w[1]
OBVIOUS

\* A packet without a number does not change the order.
LEMMA OtherSent ==
    ASSUME NEW w \in Seq(Packets), NEW c, NEW hi \in Nat, NEW p \in Packets, ~ Numbered(p, c),
           OrderedUpTo(w, c, hi)
    PROVE  /\ OrderedUpTo(Append(w, p), c, hi)
           /\ \A m \in Nat : GoesOnAfter(w, c, hi, m) => GoesOnAfter(Append(w, p), c, hi, m)
<1>1. PICK k \in Nat : k = Len(w)
  OBVIOUS
<1>2. Append(w, p) \in Seq(Packets) /\ Len(Append(w, p)) = Len(w) + 1
  BY AppendedLength
<1>3. PICK v \in Seq(Packets) : v = Append(w, p)
  BY <1>2
<1>4. Len(v) = k + 1 /\ (\A i \in 1..k : v[i] = w[i]) /\ v[k + 1] = p
  BY <1>1, <1>3
<1>5. \A i \in 1..(k + 1) : Numbered(v[i], c) => i \in 1..k /\ v[i] = w[i]
  BY <1>4
<1>6. \A i \in 1..k : i \in 1..(k + 1) /\ v[i] = w[i]
  BY <1>4
<1>7. OrderedUpTo(v, c, hi)
  BY <1>1, <1>4, <1>5, <1>6 DEF OrderedUpTo
<1>8. ASSUME NEW m \in Nat, GoesOnAfter(w, c, hi, m) PROVE GoesOnAfter(v, c, hi, m)
  BY <1>1, <1>4, <1>5, <1>6, <1>8 DEF GoesOnAfter
<1> QED
  BY <1>3, <1>7, <1>8

\* The next number is sent.
LEMMA NextSent ==
    ASSUME NEW w \in Seq(Packets), NEW c, NEW hi \in Nat, NEW p \in Packets, Numbered(p, c), p.n = hi + 1,
           OrderedUpTo(w, c, hi)
    PROVE  /\ OrderedUpTo(Append(w, p), c, hi + 1)
           /\ \A m \in Nat : GoesOnAfter(w, c, hi, m) => GoesOnAfter(Append(w, p), c, hi + 1, m)
<1>1. PICK k \in Nat : k = Len(w)
  OBVIOUS
<1>2. Append(w, p) \in Seq(Packets) /\ Len(Append(w, p)) = Len(w) + 1
  BY AppendedLength
<1>3. PICK v \in Seq(Packets) : v = Append(w, p)
  BY <1>2
<1>4. Len(v) = k + 1 /\ (\A i \in 1..k : v[i] = w[i]) /\ v[k + 1] = p
  BY <1>1, <1>3
<1>5. \A i \in 1..(k + 1) : (i \in 1..k /\ v[i] = w[i]) \/ (i = k + 1 /\ v[i] = p)
  BY <1>4
<1>6. \A i \in 1..k : i \in 1..(k + 1) /\ v[i] = w[i]
  BY <1>4
<1>7. \A i \in 1..k : Numbered(w[i], c) => w[i].n \in 1..hi
  BY <1>1 DEF OrderedUpTo
<1>8. ASSUME NEW i \in 1..(k + 1), Numbered(v[i], c) PROVE v[i].n \in 1..(hi + 1) /\ (i # k + 1 => v[i].n \in 1..hi)
  BY <1>5, <1>7, <1>8
<1>9. ASSUME NEW i \in 1..(k + 1), NEW j \in 1..(k + 1), i < j, Numbered(v[i], c), Numbered(v[j], c)
      PROVE  v[i].n < v[j].n
  <2>1. i \in 1..k /\ v[i] = w[i]
    BY <1>4, <1>9
  <2>2. CASE j = k + 1
    <3>1. v[j].n = hi + 1 /\ v[i].n \in 1..hi
      BY <1>4, <1>7, <1>9, <2>1, <2>2
    <3> QED
      BY <3>1
  <2>3. CASE j # k + 1
    <3>1. j \in 1..k /\ v[j] = w[j]
      BY <1>5, <2>3
    <3> QED
      BY <1>1, <1>9, <2>1, <3>1 DEF OrderedUpTo
  <2> QED
    BY <2>2, <2>3
<1>10. ASSUME NEW i \in 1..(k + 1), Numbered(v[i], c), v[i].n < hi + 1
       PROVE  \E j \in 1..(k + 1) : Numbered(v[j], c) /\ v[j].n = v[i].n + 1
  <2>1. i \in 1..k /\ v[i] = w[i] /\ v[i].n \in 1..hi
    BY <1>4, <1>5, <1>7, <1>10
  <2>2. CASE v[i].n = hi
    <3>1. k + 1 \in 1..(k + 1) /\ v[k + 1].n = v[i].n + 1 /\ Numbered(v[k + 1], c)
      BY <1>4, <2>2
    <3> QED
      BY <3>1
  <2>3. CASE v[i].n # hi
    <3>1. w[i].n < hi /\ Numbered(w[i], c)
      BY <1>10, <2>1, <2>3
    <3>2. PICK j \in 1..k : Numbered(w[j], c) /\ w[j].n = w[i].n + 1
      BY <1>1, <2>1, <3>1 DEF OrderedUpTo
    <3> QED
      BY <1>6, <2>1, <3>2
  <2> QED
    BY <2>2, <2>3
<1>11. OrderedUpTo(v, c, hi + 1)
  BY <1>4, <1>8, <1>9, <1>10 DEF OrderedUpTo
<1>12. ASSUME NEW m \in Nat, GoesOnAfter(w, c, hi, m) PROVE GoesOnAfter(v, c, hi + 1, m)
  <2>1. m \in 0..hi /\ m \in 0..(hi + 1)
    BY <1>12 DEF GoesOnAfter
  <2>2. ASSUME NEW i \in 1..(k + 1), Numbered(v[i], c) PROVE v[i].n > m
    <3>1. CASE i = k + 1
      <4>1. v[i].n = hi + 1
        BY <1>4, <3>1
      <4> QED
        BY <2>1, <4>1
    <3>2. CASE i # k + 1
      BY <1>1, <1>5, <1>12, <2>2, <3>2 DEF GoesOnAfter
    <3> QED
      BY <3>1, <3>2
  <2>3. ASSUME m < hi + 1 PROVE \E j \in 1..(k + 1) : Numbered(v[j], c) /\ v[j].n = m + 1
    <3>1. CASE m = hi
      <4>1. k + 1 \in 1..(k + 1) /\ v[k + 1].n = m + 1 /\ Numbered(v[k + 1], c)
        BY <1>4, <3>1
      <4> QED
        BY <4>1
    <3>2. CASE m # hi
      <4>1. m < hi
        BY <2>1, <3>2
      <4>2. PICK j \in 1..k : Numbered(w[j], c) /\ w[j].n = m + 1
        BY <1>1, <1>12, <4>1 DEF GoesOnAfter
      <4> QED
        BY <1>6, <4>2
    <3> QED
      BY <3>1, <3>2
  <2> QED
    BY <1>4, <2>1, <2>2, <2>3 DEF GoesOnAfter
<1> QED
  BY <1>3, <1>11, <1>12

\* A packet is received: the rest is in order, and if the packet is numbered it is the next
\* number, and the rest goes on after it.
LEMMA OneReceived ==
    ASSUME NEW w \in Seq(Packets), NEW c, NEW hi \in Nat, w # << >>, OrderedUpTo(w, c, hi)
    PROVE  /\ OrderedUpTo(Tail(w), c, hi)
           /\ ~ Numbered(w[1], c) => \A m \in Nat : GoesOnAfter(w, c, hi, m) => GoesOnAfter(Tail(w), c, hi, m)
           /\ Numbered(w[1], c) => w[1].n \in 1..hi /\ GoesOnAfter(Tail(w), c, hi, w[1].n)
           /\ Numbered(w[1], c) => \A m \in Nat : GoesOnAfter(w, c, hi, m) => w[1].n = m + 1
<1>1. PICK k \in Nat : k = Len(w) /\ k > 0
  BY Received
<1>2. Tail(w) \in Seq(Packets)
  BY Received
<1>3. PICK v \in Seq(Packets) : v = Tail(w)
  BY <1>2
<1>4. Len(v) = k - 1 /\ \A i \in 1..(k - 1) : v[i] = w[i + 1]
  BY <1>1, <1>3, Received
<1>5. /\ \A i \in 1..k : Numbered(w[i], c) => w[i].n \in 1..hi
      /\ \A i, j \in 1..k : i < j /\ Numbered(w[i], c) /\ Numbered(w[j], c) => w[i].n < w[j].n
      /\ \A i \in 1..k : Numbered(w[i], c) /\ w[i].n < hi =>
            \E j \in 1..k : Numbered(w[j], c) /\ w[j].n = w[i].n + 1
  BY <1>1 DEF OrderedUpTo
<1>6. \A i \in 1..(k - 1) : i + 1 \in 1..k /\ v[i] = w[i + 1] /\ 1 < i + 1
  BY <1>4
<1>7. ASSUME NEW j \in 1..k, j # 1 PROVE j - 1 \in 1..(k - 1) /\ v[j - 1] = w[j]
  <2>1. j - 1 \in 1..(k - 1) /\ (j - 1) + 1 = j
    BY <1>7
  <2> QED
    BY <1>4, <2>1
<1>8. 1 \in 1..k
  BY <1>1
<1>9. OrderedUpTo(v, c, hi)
  <2>1. ASSUME NEW i \in 1..(k - 1), Numbered(v[i], c) PROVE v[i].n \in 1..hi
    BY <1>5, <1>6, <2>1
  <2>2. ASSUME NEW i \in 1..(k - 1), NEW j \in 1..(k - 1), i < j, Numbered(v[i], c), Numbered(v[j], c)
        PROVE  v[i].n < v[j].n
    <3>1. i + 1 < j + 1
      BY <2>2
    <3> QED
      BY <1>5, <1>6, <2>2, <3>1
  <2>3. ASSUME NEW i \in 1..(k - 1), Numbered(v[i], c), v[i].n < hi
        PROVE  \E j \in 1..(k - 1) : Numbered(v[j], c) /\ v[j].n = v[i].n + 1
    <3>1. i + 1 \in 1..k /\ v[i] = w[i + 1] /\ v[i].n \in 1..hi
      BY <1>5, <1>6, <2>3
    <3>2. PICK j \in 1..k : Numbered(w[j], c) /\ w[j].n = v[i].n + 1
      BY <1>5, <2>3, <3>1
    <3>3. j # 1
      <4>1. SUFFICES ASSUME j = 1 PROVE FALSE
        OBVIOUS
      <4>2. w[1].n < w[i + 1].n
        BY <1>5, <1>6, <2>3, <3>1, <3>2, <4>1
      <4> QED
        BY <3>1, <3>2, <4>1, <4>2
    <3> QED
      BY <1>7, <3>2, <3>3
  <2> QED
    BY <1>4, <2>1, <2>2, <2>3 DEF OrderedUpTo
<1>10. ASSUME ~ Numbered(w[1], c), NEW m \in Nat, GoesOnAfter(w, c, hi, m) PROVE GoesOnAfter(v, c, hi, m)
  <2>1. /\ m \in 0..hi /\ \A i \in 1..k : Numbered(w[i], c) => w[i].n > m
        /\ m < hi => \E j \in 1..k : Numbered(w[j], c) /\ w[j].n = m + 1
    BY <1>1, <1>10 DEF GoesOnAfter
  <2>2. \A i \in 1..(k - 1) : Numbered(v[i], c) => v[i].n > m
    BY <1>6, <2>1
  <2>3. ASSUME m < hi PROVE \E j \in 1..(k - 1) : Numbered(v[j], c) /\ v[j].n = m + 1
    <3>1. PICK j \in 1..k : Numbered(w[j], c) /\ w[j].n = m + 1
      BY <2>1, <2>3
    <3>2. j # 1
      BY <1>10, <3>1
    <3> QED
      BY <1>7, <3>1, <3>2
  <2> QED
    BY <1>4, <2>1, <2>2, <2>3 DEF GoesOnAfter
<1>11. ASSUME Numbered(w[1], c) PROVE w[1].n \in 1..hi /\ GoesOnAfter(v, c, hi, w[1].n)
  <2>1. w[1].n \in 1..hi
    BY <1>5, <1>8, <1>11
  <2>2. ASSUME NEW i \in 1..(k - 1), Numbered(v[i], c) PROVE v[i].n > w[1].n
    <3>1. i + 1 \in 1..k /\ v[i] = w[i + 1] /\ 1 < i + 1
      BY <1>6
    <3>2. w[1].n < w[i + 1].n /\ w[i + 1].n \in 1..hi
      BY <1>5, <1>8, <1>11, <2>2, <3>1
    <3> QED
      BY <2>1, <3>1, <3>2
  <2>3. ASSUME w[1].n < hi PROVE \E j \in 1..(k - 1) : Numbered(v[j], c) /\ v[j].n = w[1].n + 1
    <3>1. PICK j \in 1..k : Numbered(w[j], c) /\ w[j].n = w[1].n + 1
      BY <1>5, <1>8, <1>11, <2>3
    <3>2. j # 1
      BY <2>1, <3>1
    <3> QED
      BY <1>7, <3>1, <3>2
  <2>4. w[1].n \in 0..hi
    BY <2>1
  <2> QED
    BY <1>4, <2>1, <2>2, <2>3, <2>4 DEF GoesOnAfter
<1>12. ASSUME Numbered(w[1], c), NEW m \in Nat, GoesOnAfter(w, c, hi, m) PROVE w[1].n = m + 1
  <2>1. /\ \A i \in 1..k : Numbered(w[i], c) => w[i].n > m
        /\ m < hi => \E j \in 1..k : Numbered(w[j], c) /\ w[j].n = m + 1
    BY <1>1, <1>12 DEF GoesOnAfter
  <2>2. w[1].n > m /\ w[1].n \in 1..hi
    BY <1>8, <1>11, <1>12, <2>1
  <2>3. PICK j \in 1..k : Numbered(w[j], c) /\ w[j].n = m + 1
    <3>1. m < hi
      BY <2>2
    <3> QED
      BY <2>1, <3>1
  <2>4. CASE j = 1
    BY <2>3, <2>4
  <2>5. CASE j # 1
    <3>1. 1 < j
      BY <2>5
    <3>2. w[1].n < w[j].n
      BY <1>5, <1>8, <1>12, <2>3, <3>1
    <3> QED
      BY <2>2, <2>3, <3>2
  <2> QED
    BY <2>4, <2>5
<1> QED
  BY <1>3, <1>9, <1>10, <1>11, <1>12

\* A wire that moves on keeps its order and goes on after the same number.
LEMMA MovedOn ==
    ASSUME NEW w \in Seq(Packets), NEW w2, NEW c, NEW hi \in Nat, OrderedUpTo(w, c, hi), MovesOn(w, w2, c)
    PROVE  /\ OrderedUpTo(w2, c, hi)
           /\ \A m \in Nat : GoesOnAfter(w, c, hi, m) => GoesOnAfter(w2, c, hi, m)
<1>1. CASE w2 = w
  BY <1>1
<1>2. CASE \E p \in Packets : w2 = Append(w, p) /\ ~ Numbered(p, c)
  BY <1>2, OtherSent
<1>3. CASE w # << >> /\ w2 = Tail(w) /\ ~ Numbered(w[1], c)
  BY <1>3, OneReceived
<1> QED
  BY <1>1, <1>2, <1>3 DEF MovesOn

\* Nothing is in order and goes on after everything.
LEMMA EmptyWire ==
    ASSUME NEW c, NEW hi \in Nat
    PROVE  OrderedUpTo(<< >>, c, hi) /\ GoesOnAfter(<< >>, c, hi, hi)
BY DEF OrderedUpTo, GoesOnAfter

\* What is received after m, and last of all an error.
LEMMA SequenceGrows ==
    ASSUME NEW got \in Seq(Int), NEW hi \in Nat, NEW tardy \in BOOLEAN, InSequence(got, FALSE, hi, tardy)
    PROVE  /\ LastOf(got) \in 0..hi
           /\ \A h2 \in Nat, f \in BOOLEAN, t2 \in BOOLEAN :
                 hi <= h2 /\ (tardy => t2) => InSequence(got, f, h2, t2)
           /\ \A n \in 1..hi, f \in BOOLEAN :
                 n = LastOf(got) + 1 \/ (got = << >> /\ tardy) =>
                     InSequence(Append(got, n), f, hi, tardy) /\ LastOf(Append(got, n)) = n
           /\ InSequence(Append(got, -1), TRUE, hi, tardy)
<1>1. PICK k \in Nat : k = Len(got)
  OBVIOUS
<1>2. \A i \in 1..k : /\ got[i] \in 1..hi
                      /\ i = 1 => got[i] = 1 \/ tardy
                      /\ i > 1 => got[i] = got[i - 1] + 1
  BY <1>1 DEF InSequence
<1>3. LastOf(got) \in 0..hi /\ (k = 0 => got = << >> /\ LastOf(got) = 0) /\ (k # 0 => got # << >> /\ LastOf(got) = got[k])
  <2>1. CASE k = 0
    <3>1. Len(got) = 0
      BY <1>1, <2>1
    <3>2. got = << >>
      BY <3>1
    <3>3. LastOf(got) = 0
      BY <3>2 DEF LastOf
    <3>4. 0 \in 0..hi
      OBVIOUS
    <3> QED
      BY <2>1, <3>2, <3>3, <3>4
  <2>2. CASE k # 0
    <3>1. k \in 1..k /\ got # << >>
      BY <1>1, <2>2
    <3> QED
      BY <1>1, <1>2, <2>2, <3>1 DEF LastOf
  <2> QED
    BY <2>1, <2>2
<1>4. ASSUME NEW h2 \in Nat, NEW f \in BOOLEAN, NEW t2 \in BOOLEAN, hi <= h2, tardy => t2
      PROVE  InSequence(got, f, h2, t2)
  BY <1>1, <1>2, <1>4 DEF InSequence
<1>5. ASSUME NEW n \in Int
      PROVE  /\ Append(got, n) \in Seq(Int) /\ Len(Append(got, n)) = k + 1 /\ Append(got, n)[k + 1] = n
             /\ \A i \in 1..k : Append(got, n)[i] = got[i]
  BY <1>1
<1>6. ASSUME NEW n \in 1..hi, NEW f \in BOOLEAN, n = LastOf(got) + 1 \/ (got = << >> /\ tardy)
      PROVE  InSequence(Append(got, n), f, hi, tardy) /\ LastOf(Append(got, n)) = n
  <2>0. n \in Int
    BY <1>6
  <2>a. Append(got, n) \in Seq(Int)
    BY <1>5, <2>0
  <2>1. PICK g \in Seq(Int) : g = Append(got, n)
    BY <2>a
  <2>2. Len(g) = k + 1 /\ g[k + 1] = n /\ \A i \in 1..k : g[i] = got[i]
    BY <1>5, <2>0, <2>1
  <2>3. ASSUME NEW i \in 1..(k + 1)
        PROVE  g[i] \in 1..hi /\ (i = 1 => g[i] = 1 \/ tardy) /\ (i > 1 => g[i] = g[i - 1] + 1)
    <3>1. CASE i = k + 1
      <4>1. g[i] = n
        BY <2>2, <3>1
      <4>2. i = 1 => n = 1 \/ tardy
        BY <1>3, <1>6, <3>1
      <4>3. i > 1 => g[i - 1] = LastOf(got) /\ got # << >>
        BY <1>3, <2>2, <3>1
      <4> QED
        BY <1>6, <4>1, <4>2, <4>3
    <3>2. CASE i # k + 1
      <4>1. i \in 1..k /\ g[i] = got[i] /\ (i > 1 => i - 1 \in 1..k)
        BY <2>2, <3>2
      <4> QED
        BY <1>2, <2>2, <4>1
    <3> QED
      BY <3>1, <3>2
  <2>4. LastOf(g) = n
    <3>1. g # << >>
      BY <2>2
    <3> QED
      BY <2>2, <3>1 DEF LastOf
  <2> QED
    BY <2>1, <2>2, <2>3, <2>4 DEF InSequence
<1>7. InSequence(Append(got, -1), TRUE, hi, tardy)
  <2>0. -1 \in Int
    OBVIOUS
  <2>a. Append(got, -1) \in Seq(Int)
    BY <1>5, <2>0
  <2>1. PICK g \in Seq(Int) : g = Append(got, -1)
    BY <2>a
  <2>2. Len(g) = k + 1 /\ g[k + 1] = -1 /\ \A i \in 1..k : g[i] = got[i]
    BY <1>5, <2>0, <2>1
  <2>3. ASSUME NEW i \in 1..k
        PROVE  g[i] \in 1..hi /\ (i = 1 => g[i] = 1 \/ tardy) /\ (i > 1 => g[i] = g[i - 1] + 1)
    <3>1. i > 1 => i - 1 \in 1..k
      OBVIOUS
    <3> QED
      BY <1>2, <2>2, <3>1
  <2> QED
    BY <2>1, <2>2, <2>3 DEF InSequence
<1> QED
  BY <1>3, <1>4, <1>6, <1>7


\* The ends of the connection, and the calls by their caller and number.
LEMMA CallNames ==
    ASSUME MuxParameters
    PROVE  /\ Mux!Endpoints = {"a", "b"}
           /\ \A e \in Mux!Endpoints : /\ Mux!PeerOf(e) \in Mux!Endpoints /\ Mux!PeerOf(e) # e
                                       /\ \A f \in Mux!Endpoints : f # e => f = Mux!PeerOf(e)
                                       /\ Mux!PeerOf(Mux!PeerOf(e)) = e
           /\ \A c \in Mux!AllCalls : /\ c[1] \in Mux!Endpoints /\ c[2] \in Mux!Ids /\ c[2] \in Nat
                                      /\ c = << c[1], c[2] >> /\ c # Mux!NoRequest
           /\ \A e \in Mux!Endpoints, i \in Nat : 1 <= i /\ i <= Calls[e] => << e, i >> \in Mux!AllCalls
<1>1. Mux!Endpoints = {"a", "b"}
  BY DEF Mux!Endpoints, Calls
<1>2. Mux!PeerOf("a") = "b" /\ Mux!PeerOf("b") = "a"
  BY <1>1 DEF Mux!PeerOf
<1>3. Calls["a"] = MaxCalls /\ Calls["b"] = MaxCalls
  BY DEF Calls
<1>4. Mux!AllCalls = {"a", "b"} \X (1..MaxCalls)
  BY <1>1, <1>3 DEF Mux!AllCalls
<1>5. Mux!Ids = 1..MaxCalls
  BY <1>1, <1>3 DEF Mux!Ids
<1>6. ASSUME NEW c \in Mux!AllCalls
      PROVE  /\ c[1] \in Mux!Endpoints /\ c[2] \in Mux!Ids /\ c[2] \in Nat
             /\ c = << c[1], c[2] >> /\ c # Mux!NoRequest
  BY <1>1, <1>4, <1>5, <1>6 DEF Mux!NoRequest, MuxParameters
<1>7. ASSUME NEW e \in Mux!Endpoints, NEW i \in Nat, 1 <= i, i <= Calls[e]
      PROVE  << e, i >> \in Mux!AllCalls
  BY <1>1, <1>3, <1>4, <1>7 DEF MuxParameters
<1> QED
  BY <1>1, <1>2, <1>6, <1>7

\* What was received stays in sequence when more was sent, the source fails or the answer
\* turns out late.
LEMMA SequenceStays ==
    ASSUME NEW got \in Seq(Int), NEW hi \in Nat, NEW h2 \in Nat, NEW f \in BOOLEAN, NEW f2 \in BOOLEAN,
           NEW t \in BOOLEAN, NEW t2 \in BOOLEAN,
           InSequence(got, f, hi, t), hi <= h2, f => f2, t => t2
    PROVE  InSequence(got, f2, h2, t2)
BY DEF InSequence

\* Nothing of call c changes but the packets on their way.
Untouched(c) ==
    /\ call'[c] = call[c] /\ handler'[c] = handler[c] /\ written'[c] = written[c] /\ late'[c] = late[c]
    /\ \A e \in Mux!Endpoints : /\ source'[e][c] = source[e][c]
                                /\ table'[e][c[2]] = c <=> table[e][c[2]] = c

\* What e knows of c stays, and what was sent to it.
Keeps(e, c) ==
    /\ source'[e][c] = source[e][c]
    /\ Begun(e, c)' <=> Begun(e, c)
    /\ Present(e, c)' <=> Present(e, c)
    /\ table'[e][c[2]] = c <=> table[e][c[2]] = c
    /\ Receives(e, c)' => Receives(e, c)
    /\ late[c] => late'[c]
Steady(e, c) == SentTo(e, c)' = SentTo(e, c) /\ Keeps(e, c)

\* The types of what a direction is made of.
LEMMA DirectionTypes ==
    ASSUME MuxTypes, MuxParameters, NEW e \in Mux!Endpoints, NEW c \in Mux!AllCalls
    PROVE  /\ wire[e] \in Seq(Packets) /\ SentTo(e, c) \in Nat /\ source[e][c].frames \in Seq(Int)
           /\ source[e][c].failed \in BOOLEAN /\ late[c] \in BOOLEAN
           /\ source[e][c] = [frames |-> source[e][c].frames, failed |-> source[e][c].failed]
<1>1. source[e][c] \in [frames : Seq(Int), failed : BOOLEAN]
  BY DEF MuxTypes
<1>2. written[c] \in Nat /\ call[c].sent \in Nat
  BY DEF MuxTypes, CallRecords
<1>3. wire[e] \in Seq(Packets) /\ late[c] \in BOOLEAN
  BY DEF MuxTypes
<1>4. SentTo(e, c) \in Nat
  BY <1>2 DEF SentTo
<1> QED
  BY <1>1, <1>3, <1>4

\* A source in sequence has a last number while it has not failed.
LEMMA LastReceived ==
    ASSUME MuxTypes, MuxParameters, NEW e \in Mux!Endpoints, NEW c \in Mux!AllCalls, DirectionInv(e, c),
           ~ source[e][c].failed
    PROVE  LastOf(source[e][c].frames) \in Nat
<1>1. PICK got \in Seq(Int) : got = source[e][c].frames
  BY DirectionTypes
<1>2. PICK t \in BOOLEAN : t <=> (late[c] /\ e = c[1])
  OBVIOUS
<1>3. PICK hi \in Nat : hi = SentTo(e, c)
  BY DirectionTypes
<1>4. InSequence(got, FALSE, hi, t)
  BY <1>1, <1>2, <1>3 DEF DirectionInv, InSequence
<1>5. LastOf(got) \in 0..hi
  BY <1>4, SequenceGrows
<1> QED
  BY <1>1, <1>5

\* The direction is as before when what e knows stays and no number moves.
LEMMA DirectionStays ==
    ASSUME MuxTypes, MuxTypes', MuxParameters, NEW e \in Mux!Endpoints, NEW c \in Mux!AllCalls,
           DirectionInv(e, c), Steady(e, c), MovesOn(wire[e], wire'[e], c)
    PROVE  DirectionInv(e, c)'
<1>1. PICK hi \in Nat : hi = SentTo(e, c)
  BY DirectionTypes
<1>2. wire[e] \in Seq(Packets)
  BY DirectionTypes
<1>3. SentTo(e, c)' = hi
  BY <1>1 DEF Steady, Keeps
<1>4. /\ OrderedUpTo(wire'[e], c, hi)
      /\ \A m \in Nat : GoesOnAfter(wire[e], c, hi, m) => GoesOnAfter(wire'[e], c, hi, m)
  <2>1. OrderedUpTo(wire[e], c, hi)
    BY <1>1 DEF DirectionInv
  <2> QED
    BY <1>2, <2>1, MovedOn
<1>5. Receives(e, c)' => GoesOnAfter(wire'[e], c, hi, LastOf(source[e][c].frames))
  <2>1. SUFFICES ASSUME Receives(e, c)' PROVE GoesOnAfter(wire'[e], c, hi, LastOf(source[e][c].frames))
    OBVIOUS
  <2>2. Receives(e, c) /\ ~ source[e][c].failed
    BY <2>1 DEF Steady, Keeps, Receives
  <2>3. GoesOnAfter(wire[e], c, hi, LastOf(source[e][c].frames))
    BY <1>1, <2>2 DEF DirectionInv
  <2> QED
    BY <1>4, <2>2, <2>3, LastReceived
<1>6. InSequence(source[e][c].frames, source[e][c].failed, hi, late'[c] /\ e = c[1])
  BY <1>1 DEF DirectionInv, InSequence, Steady, Keeps
<1>7. source'[e][c] = source[e][c]
  BY DEF Steady, Keeps
<1> QED
  BY <1>1, <1>3, <1>4, <1>5, <1>6, <1>7 DEF DirectionInv, Steady, Keeps

\* The wire moves on without a packet of c.
Foreign(w, w2, c) ==
    \/ w2 = w
    \/ \E p \in Packets : w2 = Append(w, p) /\ p.call # c
    \/ w # << >> /\ w2 = Tail(w) /\ w[1].call # c

\* What a packet that is sent means for the request of a call.
LEMMA RequestAfterSend ==
    ASSUME NEW w \in Seq(Packets), NEW c, NEW p \in Packets
    PROVE  /\ p.call # c /\ NoneOf(w, c) => NoneOf(Append(w, p), c)
           /\ ~ IsRequest(p, c) /\ NoRequestOf(w, c) => NoRequestOf(Append(w, p), c)
           /\ ~ IsRequest(p, c) /\ RequestFirst(w, c) => RequestFirst(Append(w, p), c)
           /\ IsRequest(p, c) /\ NoneOf(w, c) => RequestFirst(Append(w, p), c)
<1>1. PICK k \in Nat : k = Len(w)
  OBVIOUS
<1>2. Append(w, p) \in Seq(Packets) /\ Len(Append(w, p)) = Len(w) + 1
  BY AppendedLength
<1>3. PICK v \in Seq(Packets) : v = Append(w, p)
  BY <1>2
<1>4. Len(v) = k + 1 /\ (\A i \in 1..k : v[i] = w[i]) /\ v[k + 1] = p
  BY <1>1, <1>3
<1>5. \A i \in 1..(k + 1) : (i \in 1..k /\ v[i] = w[i]) \/ (i = k + 1 /\ v[i] = p)
  BY <1>4
<1>6. p.call # c /\ NoneOf(w, c) => NoneOf(v, c)
  BY <1>1, <1>4, <1>5 DEF NoneOf
<1>7. ~ IsRequest(p, c) /\ NoRequestOf(w, c) => NoRequestOf(v, c)
  BY <1>1, <1>4, <1>5 DEF NoRequestOf
<1>8. ASSUME ~ IsRequest(p, c), RequestFirst(w, c) PROVE RequestFirst(v, c)
  <2>1. PICK i \in 1..k : /\ IsRequest(w[i], c)
                          /\ \A j \in 1..k : (j < i => w[j].call # c) /\ (j > i => ~ IsRequest(w[j], c))
    BY <1>1, <1>8 DEF RequestFirst
  <2>2. i \in 1..(k + 1) /\ IsRequest(v[i], c)
    BY <1>4, <2>1
  <2>3. ASSUME NEW j \in 1..(k + 1) PROVE (j < i => v[j].call # c) /\ (j > i => ~ IsRequest(v[j], c))
    BY <1>5, <1>8, <2>1
  <2> QED
    BY <1>4, <2>2, <2>3 DEF RequestFirst
<1>9. ASSUME IsRequest(p, c), NoneOf(w, c) PROVE RequestFirst(v, c)
  <2>1. k + 1 \in 1..(k + 1) /\ IsRequest(v[k + 1], c)
    BY <1>4, <1>9
  <2>2. ASSUME NEW j \in 1..(k + 1)
        PROVE  (j < k + 1 => v[j].call # c) /\ (j > k + 1 => ~ IsRequest(v[j], c))
    BY <1>1, <1>5, <1>9 DEF NoneOf
  <2> QED
    BY <1>4, <2>1, <2>2 DEF RequestFirst
<1> QED
  BY <1>3, <1>6, <1>7, <1>8, <1>9

\* What a packet that is received means for the request of a call.
LEMMA RequestAfterReceive ==
    ASSUME NEW w \in Seq(Packets), NEW c, w # << >>
    PROVE  /\ NoneOf(w, c) => NoneOf(Tail(w), c) /\ w[1].call # c
           /\ NoRequestOf(w, c) => NoRequestOf(Tail(w), c) /\ ~ IsRequest(w[1], c)
           /\ w[1].call # c /\ RequestFirst(w, c) => RequestFirst(Tail(w), c)
           /\ w[1].call = c /\ RequestFirst(w, c) => IsRequest(w[1], c) /\ NoRequestOf(Tail(w), c)
<1>1. PICK k \in Nat : k = Len(w) /\ k > 0
  BY Received
<1>2. Tail(w) \in Seq(Packets)
  BY Received
<1>3. PICK v \in Seq(Packets) : v = Tail(w)
  BY <1>2
<1>4. Len(v) = k - 1 /\ \A i \in 1..(k - 1) : i + 1 \in 1..k /\ v[i] = w[i + 1]
  BY <1>1, <1>3, Received
<1>5. 1 \in 1..k
  BY <1>1
<1>6. NoneOf(w, c) => NoneOf(v, c) /\ w[1].call # c
  BY <1>1, <1>4, <1>5 DEF NoneOf
<1>7. NoRequestOf(w, c) => NoRequestOf(v, c) /\ ~ IsRequest(w[1], c)
  BY <1>1, <1>4, <1>5 DEF NoRequestOf
<1>8. ASSUME RequestFirst(w, c)
      PROVE  /\ w[1].call # c => RequestFirst(v, c)
             /\ w[1].call = c => IsRequest(w[1], c) /\ NoRequestOf(v, c)
  <2>1. PICK i \in 1..k : /\ IsRequest(w[i], c)
                          /\ \A j \in 1..k : (j < i => w[j].call # c) /\ (j > i => ~ IsRequest(w[j], c))
    BY <1>1, <1>8 DEF RequestFirst
  <2>2. ASSUME w[1].call # c PROVE RequestFirst(v, c)
    <3>1. i # 1
      BY <2>1, <2>2 DEF IsRequest
    <3>2. PICK l \in 1..(k - 1) : l + 1 = i
      BY <3>1
    <3>3. IsRequest(v[l], c)
      BY <1>4, <2>1, <3>2
    <3>4. ASSUME NEW j \in 1..(k - 1) PROVE (j < l => v[j].call # c) /\ (j > l => ~ IsRequest(v[j], c))
      <4>1. j + 1 \in 1..k /\ v[j] = w[j + 1] /\ (j < l => j + 1 < i) /\ (j > l => j + 1 > i)
        BY <1>4, <3>2
      <4> QED
        BY <2>1, <4>1
    <3> QED
      BY <1>4, <3>3, <3>4 DEF RequestFirst
  <2>3. ASSUME w[1].call = c PROVE IsRequest(w[1], c) /\ NoRequestOf(v, c)
    <3>1. i = 1
      BY <1>5, <2>1, <2>3
    <3>2. ASSUME NEW j \in 1..(k - 1) PROVE ~ IsRequest(v[j], c)
      <4>1. j + 1 \in 1..k /\ v[j] = w[j + 1] /\ j + 1 > i
        BY <1>4, <3>1
      <4> QED
        BY <2>1, <4>1
    <3> QED
      BY <1>4, <2>1, <3>1, <3>2 DEF NoRequestOf
  <2> QED
    BY <2>2, <2>3
<1> QED
  BY <1>3, <1>6, <1>7, <1>8

\* Packets of other calls change nothing.
LEMMA ForeignStays ==
    ASSUME NEW w \in Seq(Packets), NEW w2, NEW c, Foreign(w, w2, c)
    PROVE  /\ MovesOn(w, w2, c)
           /\ NoneOf(w, c) => NoneOf(w2, c)
           /\ NoRequestOf(w, c) => NoRequestOf(w2, c)
           /\ RequestFirst(w, c) => RequestFirst(w2, c)
<1>1. CASE w2 = w
  BY <1>1 DEF MovesOn
<1>2. ASSUME NEW p \in Packets, w2 = Append(w, p), p.call # c
      PROVE  /\ MovesOn(w, w2, c)
             /\ NoneOf(w, c) => NoneOf(w2, c)
             /\ NoRequestOf(w, c) => NoRequestOf(w2, c)
             /\ RequestFirst(w, c) => RequestFirst(w2, c)
  <2>1. ~ Numbered(p, c) /\ ~ IsRequest(p, c)
    BY <1>2 DEF Numbered, IsRequest
  <2>2. MovesOn(w, w2, c)
    BY <1>2, <2>1 DEF MovesOn
  <2> QED
    BY <1>2, <2>1, <2>2, RequestAfterSend
<1>3. CASE w # << >> /\ w2 = Tail(w) /\ w[1].call # c
  <2>1. ~ Numbered(w[1], c)
    BY <1>3 DEF Numbered
  <2>2. MovesOn(w, w2, c)
    BY <1>3, <2>1 DEF MovesOn
  <2> QED
    BY <1>3, <2>2, RequestAfterReceive
<1> QED
  BY <1>1, <1>2, <1>3 DEF Foreign

\* An untouched call is steady at both ends.
LEMMA UntouchedIsSteady ==
    ASSUME NEW e \in Mux!Endpoints, NEW c \in Mux!AllCalls, Untouched(c), up' => up
    PROVE  Steady(e, c)
BY DEF Untouched, Steady, Keeps, SentTo, Begun, Present, Receives

\* A step on another call keeps a call's invariant.
LEMMA OtherCallStays ==
    ASSUME MuxTypes, MuxTypes', MuxParameters, NEW c \in Mux!AllCalls, Untouched(c), up' => up, CallInv(c),
           nextID'[c[1]] <= c[2] <=> nextID[c[1]] <= c[2],
           \A e \in Mux!Endpoints : DirectionInv(e, c) /\ Foreign(wire[e], wire'[e], c)
    PROVE  CallInv(c)' /\ \A e \in Mux!Endpoints : DirectionInv(e, c)'
<1>1. \A e \in Mux!Endpoints : wire[e] \in Seq(Packets)
  BY DirectionTypes
<1>2. c[1] \in Mux!Endpoints /\ Mux!PeerOf(c[1]) \in Mux!Endpoints
  BY CallNames
<1>3. \A e \in Mux!Endpoints : /\ MovesOn(wire[e], wire'[e], c)
                               /\ NoneOf(wire[e], c) => NoneOf(wire'[e], c)
                               /\ NoRequestOf(wire[e], c) => NoRequestOf(wire'[e], c)
                               /\ RequestFirst(wire[e], c) => RequestFirst(wire'[e], c)
  BY <1>1, ForeignStays
<1>4. ASSUME NEW e \in Mux!Endpoints PROVE DirectionInv(e, c)'
  BY <1>3, UntouchedIsSteady, DirectionStays
<1>5. CallInv(c)'
  BY <1>2, <1>3 DEF CallInv, Untouched
<1> QED
  BY <1>4, <1>5

\* A packet is written: it is the last one to d, unless the connection has ended.
LEMMA Writes ==
    ASSUME MuxTypes, MuxParameters, WireInv, NEW d \in Mux!Endpoints, NEW p \in Packets, PacketTo(d, p),
           wire' = (IF up THEN [wire EXCEPT ![d] = Append(@, p)] ELSE wire), up' = up
    PROVE  /\ wire' \in [Mux!Endpoints -> Seq(Packets)] /\ WireInv'
           /\ \A e \in Mux!Endpoints : e # d => wire'[e] = wire[e]
           /\ up => wire'[d] = Append(wire[d], p)
           /\ ~ up => wire'[d] = wire[d] /\ wire'[d] = << >>
           /\ \A c \in Mux!AllCalls, e \in Mux!Endpoints : p.call # c => Foreign(wire[e], wire'[e], c)
           /\ \A c \in Mux!AllCalls, e \in Mux!Endpoints : ~ Numbered(p, c) => MovesOn(wire[e], wire'[e], c)
           /\ \A c \in Mux!AllCalls, e \in Mux!Endpoints :
                 ~ IsRequest(p, c) /\ NoRequestOf(wire[e], c) => NoRequestOf(wire'[e], c)
           /\ \A c \in Mux!AllCalls, e \in Mux!Endpoints :
                 ~ IsRequest(p, c) /\ RequestFirst(wire[e], c) => RequestFirst(wire'[e], c)
<1>1. wire \in [Mux!Endpoints -> Seq(Packets)] /\ up \in BOOLEAN
  BY DEF MuxTypes
<1>2. \A e \in Mux!Endpoints : wire[e] \in Seq(Packets)
  BY <1>1
<1>3. Append(wire[d], p) \in Seq(Packets)
  BY <1>2, Appended
<1>4. wire' \in [Mux!Endpoints -> Seq(Packets)]
  BY <1>1, <1>3
<1>5. \A e \in Mux!Endpoints : e # d => wire'[e] = wire[e]
  BY <1>1
<1>6. up => wire'[d] = Append(wire[d], p)
  BY <1>1
<1>7. ~ up => wire'[d] = wire[d] /\ wire'[d] = << >>
  BY DEF WireInv
<1>8. WireInv'
  <2>1. ASSUME NEW e \in Mux!Endpoints, ~ up' PROVE wire'[e] = << >>
    BY <2>1 DEF WireInv
  <2>2. ASSUME NEW e \in Mux!Endpoints, NEW i \in 1..Len(wire'[e]) PROVE PacketTo(e, wire'[e][i])
    <3>1. CASE up /\ e = d
      <4>1. Len(Append(wire[d], p)) = Len(wire[d]) + 1 /\ Len(wire[d]) \in Nat
        BY <1>2, Appended
      <4>2. CASE i = Len(wire[d]) + 1
        <5>1. wire'[e][i] = p
          BY <1>2, <1>6, <3>1, <4>2, Appended
        <5> QED
          BY <3>1, <5>1
      <4>3. CASE i # Len(wire[d]) + 1
        <5>1. i \in 1..Len(wire[d])
          BY <1>6, <2>2, <3>1, <4>1, <4>3
        <5>2. wire'[e][i] = wire[d][i]
          BY <1>2, <1>6, <3>1, <5>1, Appended
        <5> QED
          BY <3>1, <5>1, <5>2 DEF WireInv
      <4> QED
        BY <4>2, <4>3
    <3>2. CASE ~ (up /\ e = d)
      <4>1. wire'[e] = wire[e]
        BY <1>5, <3>2
      <4> QED
        BY <2>2, <4>1 DEF WireInv
    <3> QED
      BY <3>1, <3>2
  <2> QED
    BY <2>1, <2>2 DEF WireInv
<1>9. ASSUME NEW e \in Mux!Endpoints PROVE wire'[e] = wire[e] \/ wire'[e] = Append(wire[e], p)
  BY <1>5, <1>6, <1>7
<1>10. ASSUME NEW c \in Mux!AllCalls, NEW e \in Mux!Endpoints
       PROVE  /\ p.call # c => Foreign(wire[e], wire'[e], c)
              /\ ~ Numbered(p, c) => MovesOn(wire[e], wire'[e], c)
  BY <1>9 DEF Foreign, MovesOn
<1>11. ASSUME NEW c \in Mux!AllCalls, NEW e \in Mux!Endpoints
       PROVE  /\ ~ IsRequest(p, c) /\ NoRequestOf(wire[e], c) => NoRequestOf(wire'[e], c)
              /\ ~ IsRequest(p, c) /\ RequestFirst(wire[e], c) => RequestFirst(wire'[e], c)
  <2>1. wire[e] \in Seq(Packets)
    BY <1>2
  <2>2. CASE wire'[e] = wire[e]
    BY <2>2
  <2>3. CASE wire'[e] = Append(wire[e], p)
    BY <2>1, <2>3, RequestAfterSend
  <2> QED
    BY <1>9, <2>2, <2>3
<1> QED
  BY <1>4, <1>5, <1>6, <1>7, <1>8, <1>10, <1>11

\* The next number of c is sent to e.
LEMMA NumberSent ==
    ASSUME MuxTypes, MuxTypes', MuxParameters, NEW e \in Mux!Endpoints, NEW c \in Mux!AllCalls,
           DirectionInv(e, c), Keeps(e, c), NEW p \in Packets, Numbered(p, c), p.n = SentTo(e, c) + 1,
           SentTo(e, c)' = SentTo(e, c) + 1, up' = up,
           up => wire'[e] = Append(wire[e], p), ~ up => wire'[e] = << >>
    PROVE  DirectionInv(e, c)'
<1>1. PICK hi \in Nat : hi = SentTo(e, c)
  BY DirectionTypes
<1>2. wire[e] \in Seq(Packets) /\ up \in BOOLEAN
  BY DirectionTypes DEF MuxTypes
<1>3. SentTo(e, c)' = hi + 1 /\ hi + 1 \in Nat
  BY <1>1
<1>4. OrderedUpTo(wire[e], c, hi)
  BY <1>1 DEF DirectionInv
<1>5. /\ OrderedUpTo(Append(wire[e], p), c, hi + 1)
      /\ \A m \in Nat : GoesOnAfter(wire[e], c, hi, m) => GoesOnAfter(Append(wire[e], p), c, hi + 1, m)
  BY <1>1, <1>2, <1>4, NextSent
<1>6. OrderedUpTo(wire'[e], c, hi + 1)
  BY <1>2, <1>3, <1>5, EmptyWire
<1>7. Receives(e, c)' => GoesOnAfter(wire'[e], c, hi + 1, LastOf(source[e][c].frames))
  <2>1. SUFFICES ASSUME Receives(e, c)' PROVE GoesOnAfter(wire'[e], c, hi + 1, LastOf(source[e][c].frames))
    OBVIOUS
  <2>2. Receives(e, c) /\ ~ source[e][c].failed /\ up
    BY <2>1 DEF Keeps, Receives
  <2>3. GoesOnAfter(wire[e], c, hi, LastOf(source[e][c].frames))
    BY <1>1, <2>2 DEF DirectionInv
  <2> QED
    BY <1>5, <2>2, <2>3, LastReceived
<1>8. InSequence(source[e][c].frames, source[e][c].failed, hi + 1, late'[c] /\ e = c[1])
  <2>1. PICK t \in BOOLEAN : t <=> (late[c] /\ e = c[1])
    OBVIOUS
  <2>2. PICK t2 \in BOOLEAN : t2 <=> (late'[c] /\ e = c[1])
    OBVIOUS
  <2>3. PICK f \in BOOLEAN, got \in Seq(Int) : f = source[e][c].failed /\ got = source[e][c].frames
    BY DirectionTypes
  <2>4. InSequence(got, f, hi, t)
    BY <1>1, <2>1, <2>3 DEF DirectionInv, InSequence
  <2>5. t => t2
    BY <2>1, <2>2 DEF Keeps
  <2>a. hi <= hi + 1
    OBVIOUS
  <2>6. InSequence(got, f, hi + 1, t2)
    BY <1>3, <2>4, <2>5, <2>a, SequenceStays
  <2> QED
    BY <2>2, <2>3, <2>6 DEF InSequence
<1>9. source'[e][c] = source[e][c]
  BY DEF Keeps
<1> QED
  BY <1>1, <1>3, <1>6, <1>7, <1>8, <1>9 DEF DirectionInv, Keeps

\* A step that keeps each call keeps the invariant.
LEMMA CallByCall ==
    ASSUME MuxInv, MuxTypes', crossed => crossed',
           ~ crossed' => /\ WireInv'
                         /\ \A c \in Mux!AllCalls : CallInv(c)' /\ \A e \in Mux!Endpoints : DirectionInv(e, c)'
    PROVE  MuxInv'
BY DEF MuxInv, Uncrossed

\* A call has two directions.
LEMMA BothDirections ==
    ASSUME MuxParameters, NEW c \in Mux!AllCalls, DirectionInv(c[1], c)', DirectionInv(Mux!PeerOf(c[1]), c)'
    PROVE  \A e \in Mux!Endpoints : DirectionInv(e, c)'
<1>1. \A e \in Mux!Endpoints : e = c[1] \/ e = Mux!PeerOf(c[1])
  BY CallNames
<1> QED
  BY <1>1

\* A packet of a call, as either end writes it.
LEMMA PacketOf ==
    ASSUME MuxParameters, NEW c \in Mux!AllCalls, NEW sign \in {1, -1}, NEW what \in Whats, NEW n \in Int
    PROVE  /\ Mux!Packet(c, sign, what, n) \in Packets /\ Mux!Packet(c, sign, what, n).call = c
           /\ Mux!Packet(c, sign, what, n).n = n
           /\ \A k : IsRequest(Mux!Packet(c, sign, what, n), k) <=> (c = k /\ what = "request")
           /\ \A k : Numbered(Mux!Packet(c, sign, what, n), k) <=> (c = k /\ what \in {"frame", "result"})
           /\ sign = 1 /\ what # "error" => PacketTo(Mux!PeerOf(c[1]), Mux!Packet(c, sign, what, n))
           /\ sign = -1 /\ what # "request" /\ (what = "error" => n = -1) =>
                 PacketTo(c[1], Mux!Packet(c, sign, what, n))
<1>1. c[1] \in Mux!Endpoints /\ Mux!PeerOf(c[1]) # c[1]
  BY CallNames
<1>2. Mux!Packet(c, sign, what, n) \in Packets
  BY DEF Mux!Packet, Packets
<1> QED
  BY <1>1, <1>2 DEF Mux!Packet, IsRequest, Numbered, PacketTo

\* doCall sends the request of a call that was not made before.
LEMMA CallSendKeeps ==
    ASSUME MuxInv, MuxParameters, NEW e0 \in Mux!Endpoints, NEW kind \in Kinds[e0], Mux!CallSend(e0, kind)
    PROVE  MuxInv'
<1>0. MuxTypes
  BY DEF MuxInv
<1>1. nextID[e0] \in Nat /\ nextID[e0] # 0 /\ nextID[e0] <= Calls[e0]
  BY <1>0 DEF MuxTypes, Mux!CallSend
<1>2. << e0, nextID[e0] >> \in Mux!AllCalls
  BY <1>1, CallNames
<1>3. PICK c0 \in Mux!AllCalls : c0 = << e0, nextID[e0] >>
  BY <1>2
<1>4. c0[1] = e0 /\ c0[2] = nextID[e0]
  BY <1>3
<1>5. PICK d \in Mux!Endpoints : d = Mux!PeerOf(e0) /\ d # e0
  BY CallNames
<1>6. PICK p \in Packets : p = Mux!Packet(c0, 1, "request", 0)
  BY PacketOf DEF Whats
<1>7. p.call = c0 /\ IsRequest(p, c0) /\ ~ Numbered(p, c0) /\ PacketTo(d, p)
  BY <1>4, <1>5, <1>6, PacketOf DEF Whats
<1>8. /\ call' = [call EXCEPT ![c0] = [Mux!NoCall EXCEPT !.kind = kind, !.at = "queued"]]
      /\ wire' = (IF up THEN [wire EXCEPT ![d] = Append(@, p)] ELSE wire)
      /\ nextID' = [nextID EXCEPT ![e0] = @ + 1]
      /\ UNCHANGED << table, up, handler, written, source, crossed, late >>
  BY <1>3, <1>5, <1>6 DEF Mux!CallSend, Mux!Write
<1>9. kind \in {"async", "duplex"}
  BY CallNames DEF Kinds
<1>10. PICK r \in CallRecords : /\ r = [Mux!NoCall EXCEPT !.kind = kind, !.at = "queued"]
                                /\ r.at = "queued" /\ r.sent = 0
  <2>1. [Mux!NoCall EXCEPT !.kind = kind, !.at = "queued"]
          = [kind |-> kind, at |-> "queued", sink |-> "open", sent |-> 0]
    <3>1. Mux!NoCall = [kind |-> "none", at |-> "none", sink |-> "open", sent |-> 0]
      BY DEF Mux!NoCall
    <3>2. [Mux!NoCall EXCEPT !.kind = kind, !.at = "queued"]
            = [[Mux!NoCall EXCEPT !.kind = kind] EXCEPT !.at = "queued"]
      OBVIOUS
    <3>3. [Mux!NoCall EXCEPT !.kind = kind] = [kind |-> kind, at |-> "none", sink |-> "open", sent |-> 0]
      BY <3>1
    <3>4. [[kind |-> kind, at |-> "none", sink |-> "open", sent |-> 0] EXCEPT !.at = "queued"]
            = [kind |-> kind, at |-> "queued", sink |-> "open", sent |-> 0]
      OBVIOUS
    <3> QED
      BY <3>2, <3>3, <3>4
  <2>2. [kind |-> kind, at |-> "queued", sink |-> "open", sent |-> 0] \in CallRecords
    BY <1>9 DEF CallRecords
  <2> QED
    BY <2>1, <2>2
<1>11. /\ call' \in [Mux!AllCalls -> CallRecords] /\ call'[c0] = r
       /\ \A c \in Mux!AllCalls : c # c0 => call'[c] = call[c]
  BY <1>0, <1>8, <1>10 DEF MuxTypes
<1>12. /\ nextID' \in [Mux!Endpoints -> Nat \ {0}] /\ nextID'[e0] = nextID[e0] + 1
       /\ \A e \in Mux!Endpoints : e # e0 => nextID'[e] = nextID[e]
  BY <1>0, <1>8 DEF MuxTypes
<1>13. ASSUME ~ crossed'
       PROVE  /\ WireInv'
              /\ MuxTypes' => \A c \in Mux!AllCalls : CallInv(c)' /\ \A e \in Mux!Endpoints : DirectionInv(e, c)'
  <2>1. WireInv /\ \A c \in Mux!AllCalls : CallInv(c) /\ \A e \in Mux!Endpoints : DirectionInv(e, c)
    BY <1>8, <1>13 DEF MuxInv, Uncrossed
  <2>2. WireInv'
    BY <1>0, <1>7, <1>8, <2>1, Writes
  <2>3. ASSUME MuxTypes', NEW c \in Mux!AllCalls, c # c0
        PROVE  CallInv(c)' /\ \A e \in Mux!Endpoints : DirectionInv(e, c)'
    <3>1. \A e \in Mux!Endpoints : Foreign(wire[e], wire'[e], c)
      BY <1>0, <1>7, <1>8, <2>1, <2>3, Writes
    <3>2. Untouched(c)
      BY <1>8, <1>11, <2>3 DEF Untouched
    <3>3. nextID'[c[1]] <= c[2] <=> nextID[c[1]] <= c[2]
      <4>1. c[1] \in Mux!Endpoints /\ c[2] \in Nat /\ c = << c[1], c[2] >>
        BY CallNames
      <4>2. c[1] = e0 => c[2] # nextID[e0]
        BY <1>3, <2>3, <4>1
      <4> QED
        BY <1>1, <1>12, <4>1, <4>2
    <3> QED
      BY <1>0, <1>8, <2>1, <2>3, <3>1, <3>2, <3>3, OtherCallStays
  <2>4. call[c0].at = "none"
    <3>1. nextID[c0[1]] <= c0[2]
      BY <1>1, <1>4
    <3> QED
      BY <2>1, <3>1 DEF CallInv
  <2>5. handler[c0] = "none" /\ call[c0].sent = 0 /\ written[c0] = 0 /\ \A e \in Mux!Endpoints : NoneOf(wire[e], c0)
    BY <2>1, <2>4 DEF CallInv
  <2>6. CallInv(c0)'
    <3>1. ~ (nextID'[c0[1]] <= c0[2]) /\ call'[c0].at = "queued"
      BY <1>1, <1>4, <1>10, <1>11, <1>12
    <3>2. handler'[c0] = "none" /\ written'[c0] = 0
      BY <1>8, <2>5
    <3>3. up' => RequestFirst(wire'[Mux!PeerOf(c0[1])], c0)
      <4>1. up => wire'[d] = Append(wire[d], p)
        BY <1>0, <1>7, <1>8, <2>1, Writes
      <4>2. wire[d] \in Seq(Packets)
        BY <1>0, DirectionTypes
      <4>3. RequestFirst(Append(wire[d], p), c0)
        BY <1>7, <2>5, <4>2, RequestAfterSend
      <4> QED
        BY <1>4, <1>5, <1>8, <4>1, <4>3
    <3> QED
      BY <3>1, <3>2, <3>3 DEF CallInv
  <2>7. ASSUME MuxTypes', NEW e \in Mux!Endpoints PROVE DirectionInv(e, c0)'
    <3>1. MovesOn(wire[e], wire'[e], c0)
      BY <1>0, <1>7, <1>8, <2>1, Writes
    <3>2. Steady(e, c0)
      BY <1>8, <1>10, <1>11, <2>4, <2>5 DEF Steady, Keeps, SentTo, Begun, Present, Receives
    <3> QED
      BY <1>0, <2>1, <2>7, <3>1, <3>2, DirectionStays
  <2> QED
    BY <2>2, <2>3, <2>6, <2>7
<1>14. MuxTypes'
  <2>1. wire' \in [Mux!Endpoints -> Seq(Packets)]
    <3>1. wire \in [Mux!Endpoints -> Seq(Packets)]
      BY <1>0 DEF MuxTypes
    <3>2. Append(wire[d], p) \in Seq(Packets)
      BY <3>1, Appended
    <3> QED
      BY <1>8, <3>1, <3>2
  <2> QED
    BY <1>0, <1>8, <1>11, <1>12, <2>1 DEF MuxTypes
<1> QED
  BY <1>8, <1>13, <1>14, CallByCall

\* A step on call c0 that leaves the other calls alone.
LEMMA OneCall ==
    ASSUME MuxInv, MuxTypes', MuxParameters, NEW c0 \in Mux!AllCalls, nextID' = nextID, up' => up,
           crossed => crossed',
           ~ crossed' => /\ WireInv' /\ CallInv(c0)' /\ \A e \in Mux!Endpoints : DirectionInv(e, c0)'
                         /\ \A c \in Mux!AllCalls : c # c0 =>
                               Untouched(c) /\ \A e \in Mux!Endpoints : Foreign(wire[e], wire'[e], c)
    PROVE  MuxInv'
<1>1. MuxTypes
  BY DEF MuxInv
<1>2. ASSUME ~ crossed', NEW c \in Mux!AllCalls, c # c0
      PROVE  CallInv(c)' /\ \A e \in Mux!Endpoints : DirectionInv(e, c)'
  <2>1. CallInv(c) /\ \A e \in Mux!Endpoints : DirectionInv(e, c)
    BY <1>2 DEF MuxInv, Uncrossed
  <2>2. Untouched(c) /\ \A e \in Mux!Endpoints : Foreign(wire[e], wire'[e], c)
    BY <1>2
  <2> QED
    BY <1>1, <2>1, <2>2, OtherCallStays
<1> QED
  BY <1>2, CallByCall

\* The invariant before a step after which no id has crossed.
LEMMA Before ==
    ASSUME MuxInv, crossed => crossed', ~ crossed', NEW c \in Mux!AllCalls
    PROVE  WireInv /\ CallInv(c) /\ \A e \in Mux!Endpoints : DirectionInv(e, c)
BY DEF MuxInv, Uncrossed

\* The fields of a call.
LEMMA CallFields ==
    ASSUME MuxTypes, NEW c \in Mux!AllCalls
    PROVE  /\ call[c] \in CallRecords /\ call[c].sent \in Nat
           /\ \A x \in {"open", "over"} : /\ [call EXCEPT ![c].at = x] \in [Mux!AllCalls -> CallRecords]
                                          /\ [call EXCEPT ![c].at = x][c].at = x
                                          /\ [call EXCEPT ![c].at = x][c].sent = call[c].sent
                                          /\ [call EXCEPT ![c].at = x][c].kind = call[c].kind
                                          /\ \A k \in Mux!AllCalls : k # c => [call EXCEPT ![c].at = x][k] = call[k]
<1>1. call \in [Mux!AllCalls -> CallRecords]
  BY DEF MuxTypes
<1>2. call[c] \in CallRecords /\ call[c].sent \in Nat
  BY <1>1 DEF CallRecords
<1>3. ASSUME NEW x \in {"open", "over"}
      PROVE  /\ [call[c] EXCEPT !.at = x] \in CallRecords /\ [call[c] EXCEPT !.at = x].at = x
             /\ [call[c] EXCEPT !.at = x].sent = call[c].sent
             /\ [call[c] EXCEPT !.at = x].kind = call[c].kind
  BY <1>2 DEF CallRecords
<1>4. ASSUME NEW x \in {"open", "over"}
      PROVE  /\ [call EXCEPT ![c].at = x] = [call EXCEPT ![c] = [call[c] EXCEPT !.at = x]]
             /\ [call EXCEPT ![c].at = x][c] = [call[c] EXCEPT !.at = x]
             /\ \A k \in Mux!AllCalls : k # c => [call EXCEPT ![c].at = x][k] = call[k]
  BY <1>1
<1> QED
  BY <1>1, <1>2, <1>3, <1>4

\* doCall puts the call in its table.
LEMMA CallRegisterKeeps ==
    ASSUME MuxInv, MuxParameters, NEW c0 \in Mux!AllCalls, Mux!CallRegister(c0)
    PROVE  MuxInv'
<1>0. MuxTypes
  BY DEF MuxInv
<1>1. /\ call[c0].at = "queued" /\ call' = [call EXCEPT ![c0].at = "open"]
      /\ table' = [table EXCEPT ![c0[1]][c0[2]] = c0]
      /\ crossed' = (crossed \/ table[c0[1]][c0[2]] # Mux!NoRequest)
      /\ UNCHANGED << nextID, wire, up, handler, written, source, late >>
  BY DEF Mux!CallRegister
<1>2. /\ call' \in [Mux!AllCalls -> CallRecords] /\ call'[c0].at = "open" /\ call'[c0].sent = call[c0].sent
      /\ call'[c0].kind = call[c0].kind
      /\ \A c \in Mux!AllCalls : c # c0 => call'[c] = call[c]
  BY <1>0, <1>1, CallFields
<1>3. c0[1] \in Mux!Endpoints /\ c0[2] \in Mux!Ids
  BY CallNames
<1>4. /\ table' \in [Mux!Endpoints -> [Mux!Ids -> Mux!AllCalls \cup {Mux!NoRequest}]]
      /\ table'[c0[1]][c0[2]] = c0
      /\ \A e \in Mux!Endpoints, i \in Mux!Ids : e # c0[1] \/ i # c0[2] => table'[e][i] = table[e][i]
  BY <1>0, <1>1, <1>3 DEF MuxTypes
<1>5. MuxTypes'
  BY <1>0, <1>1, <1>2, <1>4 DEF MuxTypes
<1>6. crossed => crossed'
  BY <1>1
<1>7. ASSUME ~ crossed'
      PROVE  /\ WireInv' /\ CallInv(c0)' /\ \A e \in Mux!Endpoints : DirectionInv(e, c0)'
             /\ \A c \in Mux!AllCalls : c # c0 =>
                   Untouched(c) /\ \A e \in Mux!Endpoints : Foreign(wire[e], wire'[e], c)
  <2>1. WireInv /\ CallInv(c0) /\ \A e \in Mux!Endpoints : DirectionInv(e, c0)
    BY <1>6, <1>7, Before
  <2>2. table[c0[1]][c0[2]] = Mux!NoRequest
    BY <1>1, <1>7
  <2>3. WireInv'
    BY <1>1, <2>1 DEF WireInv
  <2>4. ASSUME NEW c \in Mux!AllCalls, c # c0
        PROVE  Untouched(c) /\ \A e \in Mux!Endpoints : Foreign(wire[e], wire'[e], c)
    <3>1. c # Mux!NoRequest /\ c[2] \in Mux!Ids
      BY CallNames
    <3>2. ASSUME NEW e \in Mux!Endpoints PROVE table'[e][c[2]] = c <=> table[e][c[2]] = c
      BY <1>4, <2>2, <2>4, <3>1
    <3> QED
      BY <1>1, <1>2, <2>4, <3>2 DEF Untouched, Foreign
  <2>5. CallInv(c0)'
    BY <1>1, <1>2, <2>1 DEF CallInv
  <2>6. DirectionInv(Mux!PeerOf(c0[1]), c0)'
    <3>1. PICK e \in Mux!Endpoints : e = Mux!PeerOf(c0[1]) /\ e # c0[1]
      BY <1>3, CallNames
    <3>2. Steady(e, c0)
      BY <1>1, <1>2, <1>3, <1>4, <3>1 DEF Steady, Keeps, SentTo, Begun, Present, Receives
    <3>3. MovesOn(wire[e], wire'[e], c0)
      BY <1>1 DEF MovesOn
    <3>4. DirectionInv(e, c0)'
      BY <1>0, <1>5, <2>1, <3>2, <3>3, DirectionStays
    <3> QED
      BY <3>1, <3>4
  <2>7. DirectionInv(c0[1], c0)'
    <3>1. PICK e \in Mux!Endpoints : e = c0[1]
      BY <1>3
    <3>2. /\ SentTo(e, c0)' = SentTo(e, c0)
          /\ Receives(e, c0)' => Receives(e, c0)
          /\ Begun(e, c0)' /\ Present(e, c0)' /\ table'[e][c0[2]] = c0
      BY <1>1, <1>2, <1>4, <3>1 DEF SentTo, Begun, Present, Receives
    <3>a. wire'[e] = wire[e] /\ source'[e][c0] = source[e][c0] /\ late'[c0] = late[c0]
      BY <1>1
    <3>b. /\ OrderedUpTo(wire'[e], c0, SentTo(e, c0)')
          /\ Receives(e, c0)' => GoesOnAfter(wire'[e], c0, SentTo(e, c0)', LastOf(source'[e][c0].frames))
      BY <2>1, <3>2, <3>a DEF DirectionInv
    <3>c. InSequence(source'[e][c0].frames, source'[e][c0].failed, SentTo(e, c0)', late'[c0] /\ e = c0[1])
      BY <2>1, <3>2, <3>a DEF DirectionInv, InSequence
    <3>3. DirectionInv(e, c0)'
      BY <3>2, <3>b, <3>c DEF DirectionInv
    <3> QED
      BY <3>1, <3>3
  <2>8. \A e \in Mux!Endpoints : DirectionInv(e, c0)'
    BY <2>6, <2>7, BothDirections
  <2> QED
    BY <2>1, <2>3, <2>4, <2>5, <2>8
<1> QED
  BY <1>1, <1>5, <1>6, <1>7, OneCall

\* The caller writes a frame, or closes its sink.
LEMMA CallWriteKeeps ==
    ASSUME MuxInv, MuxParameters, NEW c0 \in Mux!AllCalls, Mux!CallWrite(c0)
    PROVE  MuxInv'
<1>0. MuxTypes
  BY DEF MuxInv
<1>1. /\ call[c0].at = "open"
      /\ UNCHANGED << nextID, table, up, handler, written, source, crossed, late >>
  BY DEF Mux!CallWrite
<1>2. PICK d \in Mux!Endpoints : d = Mux!PeerOf(c0[1]) /\ d # c0[1]
  BY CallNames
<1>3. call \in [Mux!AllCalls -> CallRecords] /\ call[c0] \in CallRecords /\ call[c0].sent \in Nat
  BY <1>0, CallFields DEF MuxTypes
<1>4. CASE /\ call' = [call EXCEPT ![c0].sent = @ + 1]
           /\ Mux!Write(c0[1], Mux!Packet(c0, 1, "frame", call[c0].sent + 1))
  <2>1. PICK p \in Packets : p = Mux!Packet(c0, 1, "frame", call[c0].sent + 1)
    BY <1>3, PacketOf DEF Whats
  <2>2. /\ p.call = c0 /\ p.n = call[c0].sent + 1 /\ PacketTo(d, p) /\ Numbered(p, c0)
        /\ \A c : ~ IsRequest(p, c)
    BY <1>2, <1>3, <2>1, PacketOf DEF Whats
  <2>3. wire' = (IF up THEN [wire EXCEPT ![d] = Append(@, p)] ELSE wire) /\ up' = up
    BY <1>1, <1>2, <1>4, <2>1 DEF Mux!Write
  <2>4. /\ [call[c0] EXCEPT !.sent = call[c0].sent + 1] \in CallRecords
        /\ call'[c0] = [call[c0] EXCEPT !.sent = call[c0].sent + 1]
        /\ call' = [call EXCEPT ![c0] = [call[c0] EXCEPT !.sent = call[c0].sent + 1]]
    BY <1>3, <1>4 DEF CallRecords
  <2>5. /\ call' \in [Mux!AllCalls -> CallRecords] /\ call'[c0].at = "open"
        /\ call'[c0].sent = call[c0].sent + 1 /\ call'[c0].kind = call[c0].kind
        /\ \A c \in Mux!AllCalls : c # c0 => call'[c] = call[c]
    BY <1>1, <1>3, <2>4 DEF CallRecords
  <2>6. wire' \in [Mux!Endpoints -> Seq(Packets)]
    <3>1. wire \in [Mux!Endpoints -> Seq(Packets)]
      BY <1>0 DEF MuxTypes
    <3>2. Append(wire[d], p) \in Seq(Packets)
      BY <3>1, Appended
    <3> QED
      BY <2>3, <3>1, <3>2
  <2>7. MuxTypes'
    BY <1>0, <1>1, <2>5, <2>6 DEF MuxTypes
  <2>8. ASSUME ~ crossed'
        PROVE  /\ WireInv' /\ CallInv(c0)' /\ \A e \in Mux!Endpoints : DirectionInv(e, c0)'
               /\ \A c \in Mux!AllCalls : c # c0 =>
                     Untouched(c) /\ \A e \in Mux!Endpoints : Foreign(wire[e], wire'[e], c)
    <3>1. WireInv /\ CallInv(c0) /\ \A e \in Mux!Endpoints : DirectionInv(e, c0)
      BY <1>1, <2>8, Before
    <3>2. /\ WireInv' /\ \A e \in Mux!Endpoints : e # d => wire'[e] = wire[e]
          /\ up => wire'[d] = Append(wire[d], p)
          /\ ~ up => wire'[d] = << >>
          /\ \A c \in Mux!AllCalls, e \in Mux!Endpoints : p.call # c => Foreign(wire[e], wire'[e], c)
          /\ NoRequestOf(wire[d], c0) => NoRequestOf(wire'[d], c0)
          /\ RequestFirst(wire[d], c0) => RequestFirst(wire'[d], c0)
      BY <1>0, <2>2, <2>3, <3>1, Writes
    <3>3. \A c \in Mux!AllCalls : c # c0 => Untouched(c)
      BY <1>1, <2>5 DEF Untouched
    <3>4. CallInv(c0)'
      BY <1>1, <1>2, <2>5, <3>1, <3>2 DEF CallInv
    <3>5. DirectionInv(d, c0)'
      <4>1. Keeps(d, c0)
        BY <1>1, <1>2, <2>5 DEF Keeps, Begun, Present, Receives
      <4>2. SentTo(d, c0) = call[c0].sent /\ SentTo(d, c0)' = call[c0].sent + 1
        BY <1>2, <2>5 DEF SentTo
      <4> QED
        BY <1>0, <1>1, <2>2, <2>7, <3>1, <3>2, <4>1, <4>2, NumberSent
    <3>6. DirectionInv(c0[1], c0)'
      <4>1. PICK e \in Mux!Endpoints : e = c0[1] /\ e # d
        BY <1>2, CallNames
      <4>2. Steady(e, c0)
        BY <1>1, <2>5, <4>1 DEF Steady, Keeps, SentTo, Begun, Present, Receives
      <4>3. MovesOn(wire[e], wire'[e], c0)
        BY <3>2, <4>1 DEF MovesOn
      <4>4. DirectionInv(e, c0)'
        BY <1>0, <2>7, <3>1, <4>2, <4>3, DirectionStays
      <4> QED
        BY <4>1, <4>4
    <3>7. \A e \in Mux!Endpoints : DirectionInv(e, c0)'
      BY <1>2, <3>5, <3>6, BothDirections
    <3> QED
      BY <2>2, <3>2, <3>3, <3>4, <3>7
  <2> QED
    BY <1>1, <2>7, <2>8, OneCall
<1>5. CASE /\ call' = [call EXCEPT ![c0].sink = "closed"]
           /\ Mux!Write(c0[1], Mux!Packet(c0, 1, "end", 0))
  <2>1. PICK p \in Packets : p = Mux!Packet(c0, 1, "end", 0)
    BY PacketOf DEF Whats
  <2>2. p.call = c0 /\ PacketTo(d, p) /\ ~ Numbered(p, c0) /\ \A c : ~ IsRequest(p, c)
    BY <1>2, <2>1, PacketOf DEF Whats
  <2>3. wire' = (IF up THEN [wire EXCEPT ![d] = Append(@, p)] ELSE wire) /\ up' = up
    BY <1>1, <1>2, <1>5, <2>1 DEF Mux!Write
  <2>4. /\ [call[c0] EXCEPT !.sink = "closed"] \in CallRecords
        /\ call'[c0] = [call[c0] EXCEPT !.sink = "closed"]
        /\ call' = [call EXCEPT ![c0] = [call[c0] EXCEPT !.sink = "closed"]]
    BY <1>3, <1>5 DEF CallRecords
  <2>5. /\ call' \in [Mux!AllCalls -> CallRecords] /\ call'[c0].at = "open"
        /\ call'[c0].sent = call[c0].sent /\ call'[c0].kind = call[c0].kind
        /\ \A c \in Mux!AllCalls : c # c0 => call'[c] = call[c]
    BY <1>1, <1>3, <2>4 DEF CallRecords
  <2>6. wire' \in [Mux!Endpoints -> Seq(Packets)]
    <3>1. wire \in [Mux!Endpoints -> Seq(Packets)]
      BY <1>0 DEF MuxTypes
    <3>2. Append(wire[d], p) \in Seq(Packets)
      BY <3>1, Appended
    <3> QED
      BY <2>3, <3>1, <3>2
  <2>7. MuxTypes'
    BY <1>0, <1>1, <2>5, <2>6 DEF MuxTypes
  <2>8. ASSUME ~ crossed'
        PROVE  /\ WireInv' /\ CallInv(c0)' /\ \A e \in Mux!Endpoints : DirectionInv(e, c0)'
               /\ \A c \in Mux!AllCalls : c # c0 =>
                     Untouched(c) /\ \A e \in Mux!Endpoints : Foreign(wire[e], wire'[e], c)
    <3>1. WireInv /\ CallInv(c0) /\ \A e \in Mux!Endpoints : DirectionInv(e, c0)
      BY <1>1, <2>8, Before
    <3>2. /\ WireInv'
          /\ \A c \in Mux!AllCalls, e \in Mux!Endpoints : p.call # c => Foreign(wire[e], wire'[e], c)
          /\ \A e \in Mux!Endpoints : MovesOn(wire[e], wire'[e], c0)
          /\ NoRequestOf(wire[d], c0) => NoRequestOf(wire'[d], c0)
          /\ RequestFirst(wire[d], c0) => RequestFirst(wire'[d], c0)
      BY <1>0, <2>2, <2>3, <3>1, Writes
    <3>3. \A c \in Mux!AllCalls : c # c0 => Untouched(c)
      BY <1>1, <2>5 DEF Untouched
    <3>4. CallInv(c0)'
      BY <1>1, <1>2, <2>5, <3>1, <3>2 DEF CallInv
    <3>5. ASSUME NEW e \in Mux!Endpoints PROVE DirectionInv(e, c0)'
      <4>1. Steady(e, c0)
        BY <1>1, <2>5 DEF Steady, Keeps, SentTo, Begun, Present, Receives
      <4> QED
        BY <1>0, <2>7, <3>1, <3>2, <4>1, DirectionStays
    <3> QED
      BY <2>2, <3>2, <3>3, <3>4, <3>5
  <2> QED
    BY <1>1, <2>7, <2>8, OneCall
<1> QED
  BY <1>4, <1>5 DEF Mux!CallWrite

\* The next handler's state of a call that runs.
Handles(c0) ==
    /\ handler[c0] = "run" /\ handler' \in [Mux!AllCalls -> {"none", "run", "closing", "closed"}]
    /\ handler'[c0] \in {"run", "closing"}
    /\ \A c \in Mux!AllCalls : c # c0 => handler'[c] = handler[c]
    /\ UNCHANGED << nextID, table, up, call, source, crossed, late >>

\* The handler writes the next number, in a frame or as the result.
LEMMA NumberedResponse ==
    ASSUME MuxInv, MuxParameters, NEW c0 \in Mux!AllCalls, Handles(c0), NEW what \in {"frame", "result"},
           Mux!Respond(c0, what, written[c0] + 1), written' = [written EXCEPT ![c0] = written[c0] + 1],
           call[c0].kind = "async" => handler'[c0] # "run"
    PROVE  MuxInv'
<1>0. MuxTypes
  BY DEF MuxInv
<1>1. /\ handler[c0] = "run" /\ handler'[c0] \in {"run", "closing"}
      /\ \A c \in Mux!AllCalls : c # c0 => handler'[c] = handler[c]
      /\ UNCHANGED << nextID, table, up, call, source, crossed, late >>
  BY DEF Handles
<1>2. PICK e0 \in Mux!Endpoints : e0 = c0[1] /\ e0 = Mux!PeerOf(Mux!PeerOf(c0[1])) /\ Mux!PeerOf(c0[1]) # e0
                                  /\ Mux!PeerOf(c0[1]) \in Mux!Endpoints
  BY CallNames
<1>3. written \in [Mux!AllCalls -> Nat] /\ written[c0] \in Nat
  BY <1>0 DEF MuxTypes
<1>4. PICK p \in Packets : p = Mux!Packet(c0, -1, what, written[c0] + 1)
  BY <1>3, PacketOf DEF Whats
<1>5. /\ p.call = c0 /\ p.n = written[c0] + 1 /\ PacketTo(e0, p) /\ Numbered(p, c0)
      /\ \A c : ~ IsRequest(p, c)
  <2>1. p.call = c0 /\ p.n = written[c0] + 1 /\ p.what = what /\ p.sign = -1
    BY <1>4 DEF Mux!Packet
  <2>2. p.sign # 1
    BY <2>1
  <2>a. ~ (p.call[1] # e0)
    BY <1>2, <2>1
  <2>3. PacketTo(e0, p)
    BY <2>1, <2>2, <2>a DEF PacketTo
  <2> QED
    BY <2>1, <2>3 DEF IsRequest, Numbered
<1>6. wire' = (IF up THEN [wire EXCEPT ![e0] = Append(@, p)] ELSE wire) /\ up' = up
  BY <1>1, <1>2, <1>4 DEF Mux!Respond, Mux!Write
<1>7. /\ written' \in [Mux!AllCalls -> Nat] /\ written'[c0] = written[c0] + 1
      /\ \A c \in Mux!AllCalls : c # c0 => written'[c] = written[c]
  BY <1>3
<1>8. wire' \in [Mux!Endpoints -> Seq(Packets)]
  <2>1. wire \in [Mux!Endpoints -> Seq(Packets)]
    BY <1>0 DEF MuxTypes
  <2>2. Append(wire[e0], p) \in Seq(Packets)
    BY <2>1, Appended
  <2> QED
    BY <1>6, <2>1, <2>2
<1>9. MuxTypes'
  BY <1>0, <1>1, <1>7, <1>8 DEF MuxTypes, Handles
<1>10. ASSUME ~ crossed'
       PROVE  /\ WireInv' /\ CallInv(c0)' /\ \A e \in Mux!Endpoints : DirectionInv(e, c0)'
              /\ \A c \in Mux!AllCalls : c # c0 =>
                    Untouched(c) /\ \A e \in Mux!Endpoints : Foreign(wire[e], wire'[e], c)
  <2>1. WireInv /\ CallInv(c0) /\ \A e \in Mux!Endpoints : DirectionInv(e, c0)
    BY <1>1, <1>10, Before
  <2>2. /\ WireInv' /\ \A e \in Mux!Endpoints : e # e0 => wire'[e] = wire[e]
        /\ up => wire'[e0] = Append(wire[e0], p)
        /\ ~ up => wire'[e0] = << >>
        /\ \A c \in Mux!AllCalls, e \in Mux!Endpoints : p.call # c => Foreign(wire[e], wire'[e], c)
    BY <1>0, <1>5, <1>6, <2>1, Writes
  <2>3. \A c \in Mux!AllCalls : c # c0 => Untouched(c)
    BY <1>1, <1>7 DEF Untouched
  <2>4. CallInv(c0)'
    <3>1. wire'[Mux!PeerOf(c0[1])] = wire[Mux!PeerOf(c0[1])]
      BY <1>2, <2>2
    <3>2. call[c0].at # "none"
      BY <1>1, <2>1 DEF CallInv
    <3> QED
      BY <1>1, <2>1, <3>1, <3>2 DEF CallInv
  <2>5. DirectionInv(c0[1], c0)'
    <3>1. Keeps(e0, c0)
      BY <1>1, <1>2 DEF Keeps, Begun, Present, Receives
    <3>2. SentTo(e0, c0) = written[c0] /\ SentTo(e0, c0)' = written[c0] + 1
      BY <1>2, <1>7 DEF SentTo
    <3>3. DirectionInv(e0, c0)'
      BY <1>0, <1>1, <1>5, <1>9, <2>1, <2>2, <3>1, <3>2, NumberSent
    <3> QED
      BY <1>2, <3>3
  <2>6. DirectionInv(Mux!PeerOf(c0[1]), c0)'
    <3>1. PICK e \in Mux!Endpoints : e = Mux!PeerOf(c0[1]) /\ e # e0
      BY <1>2
    <3>2. Steady(e, c0)
      BY <1>1, <1>2, <3>1 DEF Steady, Keeps, SentTo, Begun, Present, Receives
    <3>3. MovesOn(wire[e], wire'[e], c0)
      BY <2>2, <3>1 DEF MovesOn
    <3>4. DirectionInv(e, c0)'
      BY <1>0, <1>9, <2>1, <3>2, <3>3, DirectionStays
    <3> QED
      BY <3>1, <3>4
  <2>7. \A e \in Mux!Endpoints : DirectionInv(e, c0)'
    BY <2>5, <2>6, BothDirections
  <2> QED
    BY <1>5, <2>2, <2>3, <2>4, <2>7
<1> QED
  BY <1>1, <1>9, <1>10, OneCall

\* The handler writes a last packet without a number.
LEMMA LastResponse ==
    ASSUME MuxInv, MuxParameters, NEW c0 \in Mux!AllCalls, Handles(c0), NEW what \in {"end", "error"},
           NEW n \in Int, what = "error" => n = -1, Mux!Respond(c0, what, n), written' = written
    PROVE  MuxInv'
<1>0. MuxTypes
  BY DEF MuxInv
<1>1. /\ handler[c0] = "run" /\ handler'[c0] \in {"run", "closing"}
      /\ \A c \in Mux!AllCalls : c # c0 => handler'[c] = handler[c]
      /\ UNCHANGED << nextID, table, up, call, source, crossed, late >>
  BY DEF Handles
<1>2. PICK e0 \in Mux!Endpoints : e0 = c0[1] /\ e0 = Mux!PeerOf(Mux!PeerOf(c0[1])) /\ Mux!PeerOf(c0[1]) # e0
                                  /\ Mux!PeerOf(c0[1]) \in Mux!Endpoints
  BY CallNames
<1>3. PICK p \in Packets : p = Mux!Packet(c0, -1, what, n)
  BY PacketOf DEF Whats
<1>4. p.call = c0 /\ PacketTo(e0, p) /\ ~ Numbered(p, c0) /\ \A c : ~ IsRequest(p, c)
  <2>1. p.call = c0 /\ p.n = n /\ p.what = what /\ p.sign = -1
    BY <1>3 DEF Mux!Packet
  <2>2. p.sign # 1
    BY <2>1
  <2>a. ~ (p.call[1] # e0)
    BY <1>2, <2>1
  <2>3. PacketTo(e0, p)
    BY <2>1, <2>2, <2>a DEF PacketTo
  <2> QED
    BY <2>1, <2>3 DEF IsRequest, Numbered
<1>5. wire' = (IF up THEN [wire EXCEPT ![e0] = Append(@, p)] ELSE wire) /\ up' = up
  BY <1>1, <1>2, <1>3 DEF Mux!Respond, Mux!Write
<1>6. wire' \in [Mux!Endpoints -> Seq(Packets)]
  <2>1. wire \in [Mux!Endpoints -> Seq(Packets)]
    BY <1>0 DEF MuxTypes
  <2>2. Append(wire[e0], p) \in Seq(Packets)
    BY <2>1, Appended
  <2> QED
    BY <1>5, <2>1, <2>2
<1>7. MuxTypes'
  BY <1>0, <1>1, <1>6 DEF MuxTypes, Handles
<1>8. ASSUME ~ crossed'
      PROVE  /\ WireInv' /\ CallInv(c0)' /\ \A e \in Mux!Endpoints : DirectionInv(e, c0)'
             /\ \A c \in Mux!AllCalls : c # c0 =>
                   Untouched(c) /\ \A e \in Mux!Endpoints : Foreign(wire[e], wire'[e], c)
  <2>1. WireInv /\ CallInv(c0) /\ \A e \in Mux!Endpoints : DirectionInv(e, c0)
    BY <1>1, <1>8, Before
  <2>2. /\ WireInv' /\ \A e \in Mux!Endpoints : e # e0 => wire'[e] = wire[e]
        /\ \A c \in Mux!AllCalls, e \in Mux!Endpoints : p.call # c => Foreign(wire[e], wire'[e], c)
        /\ \A e \in Mux!Endpoints : MovesOn(wire[e], wire'[e], c0)
    BY <1>0, <1>4, <1>5, <2>1, Writes
  <2>3. \A c \in Mux!AllCalls : c # c0 => Untouched(c)
    BY <1>1 DEF Untouched
  <2>4. CallInv(c0)'
    <3>1. wire'[Mux!PeerOf(c0[1])] = wire[Mux!PeerOf(c0[1])]
      BY <1>2, <2>2
    <3>2. call[c0].at # "none"
      BY <1>1, <2>1 DEF CallInv
    <3> QED
      BY <1>1, <2>1, <3>1, <3>2 DEF CallInv
  <2>5. ASSUME NEW e \in Mux!Endpoints PROVE DirectionInv(e, c0)'
    <3>1. Steady(e, c0)
      BY <1>1 DEF Steady, Keeps, SentTo, Begun, Present, Receives
    <3> QED
      BY <1>0, <1>7, <2>1, <2>2, <3>1, DirectionStays
  <2> QED
    BY <1>4, <2>2, <2>3, <2>4, <2>5
<1> QED
  BY <1>1, <1>7, <1>8, OneCall

\* The handler writes a frame, or returns.
LEMMA HandlerWrites ==
    ASSUME MuxInv, MuxParameters, NEW c0 \in Mux!AllCalls, Mux!HandlerWrite(c0) \/ Mux!HandlerClose(c0)
    PROVE  MuxInv'
<1>0. MuxTypes /\ handler \in [Mux!AllCalls -> {"none", "run", "closing", "closed"}]
  BY DEF MuxInv, MuxTypes
<1>1. CASE Mux!HandlerWrite(c0)
  <2>1. Handles(c0)
    BY <1>0, <1>1 DEF Mux!HandlerWrite, Handles
  <2>2. /\ Mux!Respond(c0, "frame", written[c0] + 1) /\ written' = [written EXCEPT ![c0] = written[c0] + 1]
        /\ call[c0].kind # "async"
    BY <1>1 DEF Mux!HandlerWrite
  <2> QED
    BY <2>1, <2>2, NumberedResponse
<1>2. CASE Mux!HandlerClose(c0)
  <2>1. Handles(c0) /\ handler'[c0] = "closing"
    BY <1>0, <1>2 DEF Mux!HandlerClose, Handles
  <2>2. CASE call[c0].kind = "async" /\ written' = [written EXCEPT ![c0] = 1] /\ Mux!Respond(c0, "result", 1)
    <3>1. CASE crossed
      <4>1. written' \in [Mux!AllCalls -> Nat]
        BY <1>0, <2>2 DEF MuxTypes
      <4>2. wire' \in [Mux!Endpoints -> Seq(Packets)]
        <5>1. PICK e0 \in Mux!Endpoints : e0 = Mux!PeerOf(Mux!PeerOf(c0[1]))
          BY CallNames
        <5>2. PICK p \in Packets : p = Mux!Packet(c0, -1, "result", 1)
          BY PacketOf DEF Whats
        <5>3. wire \in [Mux!Endpoints -> Seq(Packets)]
          BY <1>0 DEF MuxTypes
        <5>4. Append(wire[e0], p) \in Seq(Packets)
          BY <5>3, Appended
        <5> QED
          BY <2>2, <5>1, <5>2, <5>3, <5>4 DEF Mux!Respond, Mux!Write
      <4>3. MuxTypes' /\ crossed'
        BY <1>0, <2>1, <3>1, <4>1, <4>2 DEF MuxTypes, Handles
      <4> QED
        BY <4>3 DEF MuxInv
    <3>2. CASE ~ crossed
      <4>1. written[c0] = 0
        BY <2>1, <2>2, <3>2 DEF MuxInv, Uncrossed, CallInv, Handles
      <4>2. Mux!Respond(c0, "result", written[c0] + 1) /\ written' = [written EXCEPT ![c0] = written[c0] + 1]
        BY <2>2, <4>1
      <4> QED
        BY <2>1, <4>2, NumberedResponse
    <3> QED
      BY <3>1, <3>2
  <2>3. CASE Mux!Respond(c0, "end", 0) /\ written' = written
    BY <2>1, <2>3, LastResponse
  <2>4. CASE Mux!Respond(c0, "error", -1) /\ written' = written
    <3>1. -1 \in Int
      OBVIOUS
    <3> QED
      BY <2>1, <2>4, <3>1, LastResponse
  <2> QED
    BY <1>2, <2>2, <2>3, <2>4 DEF Mux!HandlerClose
<1> QED
  BY <1>1, <1>2

\* closeStream takes the entry of a handler that has returned out of the table.
LEMMA HandlerCloseStreamKeeps ==
    ASSUME MuxInv, MuxParameters, NEW c0 \in Mux!AllCalls, Mux!HandlerCloseStream(c0)
    PROVE  MuxInv'
<1>0. MuxTypes
  BY DEF MuxInv
<1>1. PICK d \in Mux!Endpoints : d = Mux!PeerOf(c0[1]) /\ d # c0[1]
  BY CallNames
<1>2. /\ handler[c0] = "closing" /\ handler' = [handler EXCEPT ![c0] = "closed"]
      /\ crossed' = (crossed \/ table[d][c0[2]] \notin {c0, Mux!NoRequest})
      /\ table' = [table EXCEPT ![d][c0[2]] = Mux!NoRequest]
      /\ UNCHANGED << nextID, wire, up, call, written, source, late >>
  BY <1>1 DEF Mux!HandlerCloseStream
<1>3. c0[2] \in Mux!Ids
  BY CallNames
<1>4. /\ handler' \in [Mux!AllCalls -> {"none", "run", "closing", "closed"}] /\ handler'[c0] = "closed"
      /\ \A c \in Mux!AllCalls : c # c0 => handler'[c] = handler[c]
  BY <1>0, <1>2 DEF MuxTypes
<1>5. /\ table' \in [Mux!Endpoints -> [Mux!Ids -> Mux!AllCalls \cup {Mux!NoRequest}]]
      /\ table'[d][c0[2]] = Mux!NoRequest
      /\ \A e \in Mux!Endpoints, i \in Mux!Ids : e # d \/ i # c0[2] => table'[e][i] = table[e][i]
  BY <1>0, <1>2, <1>3 DEF MuxTypes
<1>6. MuxTypes'
  BY <1>0, <1>2, <1>4, <1>5 DEF MuxTypes
<1>7. crossed => crossed'
  BY <1>2
<1>8. ASSUME ~ crossed'
      PROVE  /\ WireInv' /\ CallInv(c0)' /\ \A e \in Mux!Endpoints : DirectionInv(e, c0)'
             /\ \A c \in Mux!AllCalls : c # c0 =>
                   Untouched(c) /\ \A e \in Mux!Endpoints : Foreign(wire[e], wire'[e], c)
  <2>1. WireInv /\ CallInv(c0) /\ \A e \in Mux!Endpoints : DirectionInv(e, c0)
    BY <1>7, <1>8, Before
  <2>2. table[d][c0[2]] \in {c0, Mux!NoRequest}
    BY <1>2, <1>8
  <2>3. WireInv'
    BY <1>2, <2>1 DEF WireInv
  <2>4. ASSUME NEW c \in Mux!AllCalls, c # c0
        PROVE  Untouched(c) /\ \A e \in Mux!Endpoints : Foreign(wire[e], wire'[e], c)
    <3>1. c # Mux!NoRequest /\ c[2] \in Mux!Ids
      BY CallNames
    <3>2. ASSUME NEW e \in Mux!Endpoints PROVE table'[e][c[2]] = c <=> table[e][c[2]] = c
      BY <1>5, <2>2, <2>4, <3>1
    <3> QED
      BY <1>2, <1>4, <2>4, <3>2 DEF Untouched, Foreign
  <2>5. CallInv(c0)'
    BY <1>2, <1>4, <2>1 DEF CallInv
  <2>6. DirectionInv(c0[1], c0)'
    <3>1. PICK e \in Mux!Endpoints : e = c0[1] /\ e # d
      BY <1>1, CallNames
    <3>2. Steady(e, c0)
      BY <1>2, <1>3, <1>5, <3>1 DEF Steady, Keeps, SentTo, Begun, Present, Receives
    <3>3. MovesOn(wire[e], wire'[e], c0)
      BY <1>2 DEF MovesOn
    <3>4. DirectionInv(e, c0)'
      BY <1>0, <1>6, <2>1, <3>2, <3>3, DirectionStays
    <3> QED
      BY <3>1, <3>4
  <2>7. DirectionInv(d, c0)'
    <3>1. /\ SentTo(d, c0)' = SentTo(d, c0) /\ ~ Receives(d, c0)' /\ Begun(d, c0)' /\ ~ Present(d, c0)'
      BY <1>1, <1>2, <1>4 DEF SentTo, Begun, Present, Receives
    <3>2. wire'[d] = wire[d] /\ source'[d][c0] = source[d][c0] /\ late'[c0] = late[c0]
      BY <1>2
    <3>3. table'[d][c0[2]] # c0
      BY <1>5, CallNames
    <3>4. OrderedUpTo(wire'[d], c0, SentTo(d, c0)')
      BY <2>1, <3>1, <3>2 DEF DirectionInv
    <3>5. InSequence(source'[d][c0].frames, source'[d][c0].failed, SentTo(d, c0)', late'[c0] /\ d = c0[1])
      BY <2>1, <3>1, <3>2 DEF DirectionInv, InSequence
    <3> QED
      BY <3>1, <3>3, <3>4, <3>5 DEF DirectionInv
  <2>8. \A e \in Mux!Endpoints : DirectionInv(e, c0)'
    BY <1>1, <2>6, <2>7, BothDirections
  <2> QED
    BY <2>3, <2>4, <2>5, <2>8
<1> QED
  BY <1>2, <1>6, <1>7, <1>8, OneCall

\* A call is over when its source has a result or has failed.
LEMMA CallEndsKeeps ==
    ASSUME MuxInv, MuxParameters, NEW c0 \in Mux!AllCalls, Mux!CallEnds(c0)
    PROVE  MuxInv'
<1>0. MuxTypes
  BY DEF MuxInv
<1>1. /\ call[c0].at = "open" /\ call' = [call EXCEPT ![c0].at = "over"]
      /\ UNCHANGED << nextID, table, wire, up, handler, written, source, crossed, late >>
  BY DEF Mux!CallEnds
<1>2. /\ call' \in [Mux!AllCalls -> CallRecords] /\ call'[c0].at = "over" /\ call'[c0].sent = call[c0].sent
      /\ call'[c0].kind = call[c0].kind
      /\ \A c \in Mux!AllCalls : c # c0 => call'[c] = call[c]
  BY <1>0, <1>1, CallFields
<1>3. MuxTypes'
  BY <1>0, <1>1, <1>2 DEF MuxTypes
<1>4. ASSUME ~ crossed'
      PROVE  /\ WireInv' /\ CallInv(c0)' /\ \A e \in Mux!Endpoints : DirectionInv(e, c0)'
             /\ \A c \in Mux!AllCalls : c # c0 =>
                   Untouched(c) /\ \A e \in Mux!Endpoints : Foreign(wire[e], wire'[e], c)
  <2>1. WireInv /\ CallInv(c0) /\ \A e \in Mux!Endpoints : DirectionInv(e, c0)
    BY <1>1, <1>4, Before
  <2>2. WireInv'
    BY <1>1, <2>1 DEF WireInv
  <2>3. \A c \in Mux!AllCalls : c # c0 => Untouched(c) /\ \A e \in Mux!Endpoints : Foreign(wire[e], wire'[e], c)
    BY <1>1, <1>2 DEF Untouched, Foreign
  <2>4. CallInv(c0)'
    BY <1>1, <1>2, <2>1 DEF CallInv
  <2>5. ASSUME NEW e \in Mux!Endpoints PROVE DirectionInv(e, c0)'
    <3>1. Steady(e, c0)
      BY <1>1, <1>2 DEF Steady, Keeps, SentTo, Begun, Present, Receives
    <3>2. MovesOn(wire[e], wire'[e], c0)
      BY <1>1 DEF MovesOn
    <3> QED
      BY <1>0, <1>3, <2>1, <3>1, <3>2, DirectionStays
  <2> QED
    BY <2>2, <2>3, <2>4, <2>5
<1> QED
  BY <1>1, <1>3, <1>4, OneCall

\* The caller gives up.
LEMMA CallCancelKeeps ==
    ASSUME MuxInv, MuxParameters, NEW c0 \in Mux!AllCalls, Mux!CallCancel(c0)
    PROVE  MuxInv'
<1>0. MuxTypes
  BY DEF MuxInv
<1>1. /\ call[c0].at = "open" /\ call' = [call EXCEPT ![c0].at = "over"]
      /\ source' = [source EXCEPT ![c0[1]][c0].failed = TRUE]
      /\ UNCHANGED << nextID, table, wire, up, handler, written, crossed, late >>
  BY DEF Mux!CallCancel
<1>2. /\ call' \in [Mux!AllCalls -> CallRecords] /\ call'[c0].at = "over" /\ call'[c0].sent = call[c0].sent
      /\ call'[c0].kind = call[c0].kind
      /\ \A c \in Mux!AllCalls : c # c0 => call'[c] = call[c]
  BY <1>0, <1>1, CallFields
<1>3. PICK e0 \in Mux!Endpoints : e0 = c0[1] /\ Mux!PeerOf(c0[1]) # e0 /\ Mux!PeerOf(c0[1]) \in Mux!Endpoints
  BY CallNames
<1>4. source[e0][c0] \in [frames : Seq(Int), failed : BOOLEAN]
  BY <1>0 DEF MuxTypes
<1>5. /\ [source[e0][c0] EXCEPT !.failed = TRUE] \in [frames : Seq(Int), failed : BOOLEAN]
      /\ [source[e0][c0] EXCEPT !.failed = TRUE].frames = source[e0][c0].frames
      /\ [source[e0][c0] EXCEPT !.failed = TRUE].failed = TRUE
  BY <1>4
<1>6. source' = [source EXCEPT ![e0] = [source[e0] EXCEPT ![c0] = [source[e0][c0] EXCEPT !.failed = TRUE]]]
  BY <1>1, <1>3
<1>7. /\ source' \in [Mux!Endpoints -> [Mux!AllCalls -> [frames : Seq(Int), failed : BOOLEAN]]]
      /\ source'[e0][c0] = [source[e0][c0] EXCEPT !.failed = TRUE]
      /\ \A e \in Mux!Endpoints, c \in Mux!AllCalls : e # e0 \/ c # c0 => source'[e][c] = source[e][c]
  <2>1. source \in [Mux!Endpoints -> [Mux!AllCalls -> [frames : Seq(Int), failed : BOOLEAN]]]
    BY <1>0 DEF MuxTypes
  <2>2. PICK s \in [frames : Seq(Int), failed : BOOLEAN] : s = [source[e0][c0] EXCEPT !.failed = TRUE]
    BY <1>5
  <2>3. source' = [source EXCEPT ![e0] = [source[e0] EXCEPT ![c0] = s]]
    BY <1>6, <2>2
  <2> QED
    BY <2>1, <2>2, <2>3
<1>8. MuxTypes'
  BY <1>0, <1>1, <1>2, <1>7 DEF MuxTypes
<1>9. ASSUME ~ crossed'
      PROVE  /\ WireInv' /\ CallInv(c0)' /\ \A e \in Mux!Endpoints : DirectionInv(e, c0)'
             /\ \A c \in Mux!AllCalls : c # c0 =>
                   Untouched(c) /\ \A e \in Mux!Endpoints : Foreign(wire[e], wire'[e], c)
  <2>1. WireInv /\ CallInv(c0) /\ \A e \in Mux!Endpoints : DirectionInv(e, c0)
    BY <1>1, <1>9, Before
  <2>2. WireInv'
    BY <1>1, <2>1 DEF WireInv
  <2>3. \A c \in Mux!AllCalls : c # c0 => Untouched(c) /\ \A e \in Mux!Endpoints : Foreign(wire[e], wire'[e], c)
    BY <1>1, <1>2, <1>7 DEF Untouched, Foreign
  <2>4. CallInv(c0)'
    BY <1>1, <1>2, <2>1 DEF CallInv
  <2>5. DirectionInv(Mux!PeerOf(c0[1]), c0)'
    <3>1. PICK e \in Mux!Endpoints : e = Mux!PeerOf(c0[1]) /\ e # e0
      BY <1>3
    <3>2. Steady(e, c0)
      BY <1>1, <1>2, <1>3, <1>7, <3>1 DEF Steady, Keeps, SentTo, Begun, Present, Receives
    <3>3. MovesOn(wire[e], wire'[e], c0)
      BY <1>1 DEF MovesOn
    <3>4. DirectionInv(e, c0)'
      BY <1>0, <1>8, <2>1, <3>2, <3>3, DirectionStays
    <3> QED
      BY <3>1, <3>4
  <2>6. DirectionInv(e0, c0)'
    <3>1. PICK hi : hi = SentTo(e0, c0)
      OBVIOUS
    <3>2. /\ SentTo(e0, c0)' = hi /\ ~ Receives(e0, c0)' /\ Begun(e0, c0)' /\ Present(e0, c0)'
          /\ source'[e0][c0].failed /\ source'[e0][c0].frames = source[e0][c0].frames
      BY <1>1, <1>2, <1>3, <1>5, <1>7, <3>1 DEF SentTo, Begun, Present, Receives
    <3>3. OrderedUpTo(wire'[e0], c0, hi)
      BY <1>1, <2>1, <3>1 DEF DirectionInv
    <3>a. InSequence(source[e0][c0].frames, source[e0][c0].failed, hi, late[c0] /\ e0 = c0[1])
      BY <2>1, <3>1 DEF DirectionInv
    <3>b. late' = late
      BY <1>1
    <3>4. InSequence(source'[e0][c0].frames, source'[e0][c0].failed, hi, late'[c0] /\ e0 = c0[1])
      BY <3>2, <3>a, <3>b DEF InSequence
    <3> QED
      BY <3>2, <3>3, <3>4 DEF DirectionInv
  <2>7. \A e \in Mux!Endpoints : DirectionInv(e, c0)'
    BY <1>3, <2>5, <2>6, BothDirections
  <2> QED
    BY <2>2, <2>3, <2>4, <2>7
<1> QED
  BY <1>1, <1>8, <1>9, OneCall

\* The connection ends, and with it what is on its way.
LEMMA DisconnectKeeps ==
    ASSUME MuxInv, MuxParameters, Mux!Disconnect
    PROVE  MuxInv'
<1>0. MuxTypes
  BY DEF MuxInv
<1>1. /\ ~ up' /\ up' \in BOOLEAN /\ \A e \in Mux!Endpoints : wire'[e] = << >>
      /\ wire' \in [Mux!Endpoints -> Seq(Packets)]
      /\ UNCHANGED << nextID, table, call, handler, written, source, crossed, late >>
  <2>1. << >> \in Seq(Packets)
    OBVIOUS
  <2>2. wire' = [e \in Mux!Endpoints |-> << >>]
    BY DEF Mux!Disconnect
  <2>3. wire' \in [Mux!Endpoints -> Seq(Packets)] /\ \A e \in Mux!Endpoints : wire'[e] = << >>
    BY <2>1, <2>2, Zenon
  <2>4. up' = FALSE /\ UNCHANGED << nextID, table, call, handler, written, source, crossed, late >>
    BY DEF Mux!Disconnect
  <2> QED
    BY <2>3, <2>4
<1>2. MuxTypes'
  BY <1>0, <1>1 DEF MuxTypes
<1>3. WireInv'
  BY <1>1 DEF WireInv
<1>4. ASSUME ~ crossed', NEW c \in Mux!AllCalls
      PROVE  CallInv(c)' /\ \A e \in Mux!Endpoints : DirectionInv(e, c)'
  <2>1. CallInv(c) /\ \A e \in Mux!Endpoints : DirectionInv(e, c)
    BY <1>1, <1>4, Before
  <2>2. Mux!PeerOf(c[1]) \in Mux!Endpoints
    BY CallNames
  <2>3. NoneOf(<< >>, c) /\ NoRequestOf(<< >>, c)
    BY DEF NoneOf, NoRequestOf
  <2>4. CallInv(c)'
    BY <1>1, <2>1, <2>2, <2>3 DEF CallInv
  <2>5. ASSUME NEW e \in Mux!Endpoints PROVE DirectionInv(e, c)'
    <3>1. PICK hi \in Nat : hi = SentTo(e, c)
      BY <1>0, DirectionTypes
    <3>2. /\ SentTo(e, c)' = hi /\ ~ Receives(e, c)'
          /\ Begun(e, c)' <=> Begun(e, c)
          /\ Present(e, c)' <=> Present(e, c)
      BY <1>1, <3>1 DEF SentTo, Begun, Present, Receives
    <3>3. OrderedUpTo(wire'[e], c, hi)
      BY <1>1, EmptyWire
    <3>4. InSequence(source'[e][c].frames, source'[e][c].failed, hi, late'[c] /\ e = c[1])
      BY <1>1, <2>1, <3>1 DEF DirectionInv, InSequence
    <3> QED
      BY <1>1, <2>1, <3>2, <3>3, <3>4 DEF DirectionInv
  <2> QED
    BY <2>4, <2>5
<1> QED
  BY <1>1, <1>2, <1>3, <1>4, CallByCall

\* Endpoint e0 takes the first packet p off its wire.
Takes(e0, p) ==
    /\ up /\ wire[e0] # << >> /\ p = wire[e0][1]
    /\ UNCHANGED << nextID, up, call, written >>

\* What is left when a packet was taken.
LEMMA OneTaken ==
    ASSUME MuxTypes, MuxParameters, NEW e0 \in Mux!Endpoints, NEW p \in Packets, Takes(e0, p),
           wire' = [wire EXCEPT ![e0] = Tail(@)]
    PROVE  /\ wire' \in [Mux!Endpoints -> Seq(Packets)] /\ wire'[e0] = Tail(wire[e0])
           /\ \A e \in Mux!Endpoints : e # e0 => wire'[e] = wire[e]
           /\ WireInv => WireInv' /\ PacketTo(e0, p)
           /\ \A c \in Mux!AllCalls, e \in Mux!Endpoints : p.call # c => Foreign(wire[e], wire'[e], c)
           /\ \A c \in Mux!AllCalls, e \in Mux!Endpoints : ~ Numbered(p, c) => MovesOn(wire[e], wire'[e], c)
           /\ \A c \in Mux!AllCalls, e \in Mux!Endpoints : NoRequestOf(wire[e], c) => NoRequestOf(wire'[e], c)
           /\ p.call \in Mux!AllCalls
<1>1. wire \in [Mux!Endpoints -> Seq(Packets)] /\ wire[e0] \in Seq(Packets) /\ wire[e0] # << >>
  BY DEF MuxTypes, Takes
<1>2. Tail(wire[e0]) \in Seq(Packets)
  BY <1>1, Received
<1>3. /\ wire' \in [Mux!Endpoints -> Seq(Packets)] /\ wire'[e0] = Tail(wire[e0])
      /\ \A e \in Mux!Endpoints : e # e0 => wire'[e] = wire[e]
  BY <1>1, <1>2
<1>4. p = wire[e0][1] /\ up' = up /\ up
  BY DEF Takes
<1>5. ASSUME WireInv PROVE WireInv' /\ PacketTo(e0, p)
  <2>1. PICK k \in Nat : k = Len(wire[e0]) /\ k > 0
    BY <1>1, Received
  <2>2. 1 \in 1..k
    BY <2>1
  <2>3. PacketTo(e0, p)
    BY <1>4, <1>5, <2>1, <2>2 DEF WireInv
  <2>4. Len(wire'[e0]) = k - 1 /\ \A i \in 1..(k - 1) : wire'[e0][i] = wire[e0][i + 1]
    BY <1>1, <1>3, <2>1, Received
  <2>5. ASSUME NEW i \in 1..Len(wire'[e0]) PROVE PacketTo(e0, wire'[e0][i])
    <3>1. i \in 1..(k - 1) /\ i + 1 \in 1..k
      BY <2>1, <2>4, <2>5
    <3>2. wire'[e0][i] = wire[e0][i + 1]
      BY <2>4, <3>1
    <3> QED
      BY <1>5, <2>1, <3>1, <3>2 DEF WireInv
  <2>6. ASSUME NEW e \in Mux!Endpoints, e # e0, NEW i \in 1..Len(wire'[e]) PROVE PacketTo(e, wire'[e][i])
    BY <1>3, <1>5, <2>6 DEF WireInv
  <2> QED
    BY <1>4, <2>3, <2>5, <2>6 DEF WireInv
<1>6. ASSUME NEW c \in Mux!AllCalls, NEW e \in Mux!Endpoints
      PROVE  /\ p.call # c => Foreign(wire[e], wire'[e], c)
             /\ ~ Numbered(p, c) => MovesOn(wire[e], wire'[e], c)
             /\ NoRequestOf(wire[e], c) => NoRequestOf(wire'[e], c)
  <2>1. CASE e = e0
    <3>1. wire[e] # << >> /\ wire'[e] = Tail(wire[e]) /\ p = wire[e][1] /\ wire[e] \in Seq(Packets)
      BY <1>1, <1>3, <1>4, <2>1
    <3> QED
      BY <3>1, RequestAfterReceive DEF Foreign, MovesOn
  <2>2. CASE e # e0
    BY <1>3, <2>2 DEF Foreign, MovesOn
  <2> QED
    BY <2>1, <2>2
<1>7. p.call \in Mux!AllCalls
  BY DEF Packets
<1> QED
  BY <1>3, <1>5, <1>6, <1>7

\* What a source has after a packet.
LEMMA GivenFields ==
    ASSUME NEW src, NEW p
    PROVE  /\ Mux!Given(src, p).frames = (IF src.failed \/ p.what = "end" THEN src.frames ELSE Append(src.frames, p.n))
           /\ Mux!Given(src, p).failed = (src.failed \/ p.what \notin {"request", "frame"})
BY Zenon DEF Mux!Given

\* The packet goes to its own entry: the source has one number more, or the stream ends.
LEMMA GivenInOrder ==
    ASSUME MuxTypes, MuxTypes', MuxParameters, NEW e0 \in Mux!Endpoints, NEW p \in Packets, Takes(e0, p),
           NEW c \in Mux!AllCalls, p.call = c, p.what # "request", p.what = "error" => p.n = -1,
           DirectionInv(e0, c), table[e0][c[2]] = c,
           wire'[e0] = Tail(wire[e0]), source'[e0][c] = Mux!Given(source[e0][c], p),
           table'[e0][c[2]] = (IF p.what = "frame" THEN c ELSE Mux!NoRequest), handler' = handler, late' = late
    PROVE  DirectionInv(e0, c)'
<1>1. PICK hi \in Nat : hi = SentTo(e0, c)
  BY DirectionTypes
<1>2. PICK got \in Seq(Int), f \in BOOLEAN : got = source[e0][c].frames /\ f = source[e0][c].failed
  BY DirectionTypes
<1>3. PICK w \in Seq(Packets) : w = wire[e0] /\ w # << >> /\ p = w[1]
  BY DirectionTypes DEF Takes
<1>4. PICK t \in BOOLEAN : t <=> (late[c] /\ e0 = c[1])
  OBVIOUS
<1>5. OrderedUpTo(w, c, hi) /\ InSequence(got, f, hi, t)
  BY <1>1, <1>2, <1>3, <1>4 DEF DirectionInv, InSequence
<1>6. OrderedUpTo(Tail(w), c, hi)
  BY <1>3, <1>5, OneReceived
<1>7. SentTo(e0, c)' = hi
  BY <1>1 DEF SentTo, Takes
<1>8. Present(e0, c) /\ Begun(e0, c)
  BY DEF DirectionInv, Present
<1>9. Present(e0, c)' /\ Begun(e0, c)'
  BY <1>8 DEF Present, Begun, Takes
<1>a. /\ source'[e0][c].frames = (IF source[e0][c].failed \/ p.what = "end" THEN source[e0][c].frames
                                 ELSE Append(source[e0][c].frames, p.n))
      /\ source'[e0][c].failed = (source[e0][c].failed \/ p.what \notin {"request", "frame"})
  BY GivenFields
<1>10. CASE f
  <2>1. source'[e0][c].frames = got /\ source'[e0][c].failed
    BY <1>2, <1>10, <1>a
  <2>2. ~ Receives(e0, c)'
    BY <2>1 DEF Receives
  <2>3. InSequence(source'[e0][c].frames, source'[e0][c].failed, hi, late'[c] /\ e0 = c[1])
    <3>1. InSequence(got, TRUE, hi, t)
      BY <1>5, <1>10
    <3> QED
      BY <1>4, <2>1, <3>1 DEF InSequence
  <2>4. OrderedUpTo(wire'[e0], c, hi)
    BY <1>3, <1>6
  <2> QED
    BY <1>7, <1>9, <2>1, <2>2, <2>3, <2>4 DEF DirectionInv
<1>11. CASE ~ f /\ p.what = "end"
  <2>1. source'[e0][c].frames = got /\ source'[e0][c].failed
    BY <1>2, <1>11, <1>a
  <2>2. ~ Receives(e0, c)'
    BY <2>1 DEF Receives
  <2>3. InSequence(source'[e0][c].frames, source'[e0][c].failed, hi, late'[c] /\ e0 = c[1])
    <3>1. InSequence(got, FALSE, hi, t)
      BY <1>5, <1>11
    <3> QED
      BY <1>4, <2>1, <3>1 DEF InSequence
  <2>4. OrderedUpTo(wire'[e0], c, hi)
    BY <1>3, <1>6
  <2> QED
    BY <1>7, <1>9, <2>1, <2>2, <2>3, <2>4 DEF DirectionInv
<1>12. CASE ~ f /\ p.what = "error"
  <2>1. source'[e0][c].frames = Append(got, -1) /\ source'[e0][c].failed
    BY <1>2, <1>12, <1>a
  <2>2. ~ Receives(e0, c)'
    BY <2>1 DEF Receives
  <2>3. InSequence(got, FALSE, hi, t)
    BY <1>5, <1>12
  <2>4. InSequence(Append(got, -1), TRUE, hi, t)
    BY <2>3, SequenceGrows
  <2>5. InSequence(source'[e0][c].frames, source'[e0][c].failed, hi, late'[c] /\ e0 = c[1])
    BY <1>4, <2>1, <2>4 DEF InSequence
  <2>6. OrderedUpTo(wire'[e0], c, hi)
    BY <1>3, <1>6
  <2> QED
    BY <1>7, <1>9, <2>1, <2>2, <2>5, <2>6 DEF DirectionInv
<1>13. CASE ~ f /\ p.what \in {"frame", "result"}
  <2>1. Numbered(w[1], c)
    BY <1>3, <1>13 DEF Numbered
  <2>2. /\ p.n \in 1..hi /\ GoesOnAfter(Tail(w), c, hi, p.n)
        /\ \A m \in Nat : GoesOnAfter(w, c, hi, m) => p.n = m + 1
    BY <1>3, <1>5, <2>1, OneReceived
  <2>3. InSequence(got, FALSE, hi, t)
    BY <1>5, <1>13
  <2>4. LastOf(got) \in 0..hi /\ LastOf(got) \in Nat
    <3>1. LastOf(got) \in 0..hi
      BY <2>3, SequenceGrows
    <3> QED
      BY <3>1
  <2>5. p.n = LastOf(got) + 1 \/ (got = << >> /\ t)
    <3>1. CASE Receives(e0, c)
      <4>1. GoesOnAfter(w, c, hi, LastOf(got))
        BY <1>1, <1>2, <1>3, <3>1 DEF DirectionInv
      <4> QED
        BY <2>2, <2>4, <4>1
    <3>2. CASE ~ Receives(e0, c)
      BY <1>2, <1>4, <1>8, <1>13, <3>2 DEF Receives, Present, Takes
    <3> QED
      BY <3>1, <3>2
  <2>6. PICK n \in 1..hi : n = p.n
    BY <2>2
  <2>7. (\A g \in BOOLEAN : InSequence(Append(got, n), g, hi, t)) /\ LastOf(Append(got, n)) = n
    <3>1. n = LastOf(got) + 1 \/ (got = << >> /\ t)
      BY <2>5, <2>6
    <3>a. \A m \in 1..hi, g \in BOOLEAN : m = LastOf(got) + 1 \/ (got = << >> /\ t) =>
              InSequence(Append(got, m), g, hi, t) /\ LastOf(Append(got, m)) = m
      BY <2>3, SequenceGrows
    <3>2. ASSUME NEW g \in BOOLEAN PROVE InSequence(Append(got, n), g, hi, t) /\ LastOf(Append(got, n)) = n
      BY <3>1, <3>a, Zenon
    <3> QED
      BY <3>2
  <2>8. source'[e0][c].frames = Append(got, n) /\ (source'[e0][c].failed <=> p.what = "result")
    BY <1>2, <1>13, <1>a, <2>6
  <2>9. InSequence(source'[e0][c].frames, source'[e0][c].failed, hi, late'[c] /\ e0 = c[1])
    <3>1. PICK g \in BOOLEAN : g <=> source'[e0][c].failed
      OBVIOUS
    <3>a. PICK x : x = Append(got, n)
      OBVIOUS
    <3>2. InSequence(x, g, hi, t) /\ source'[e0][c].frames = x
      BY <2>7, <2>8, <3>a
    <3> QED
      BY <1>4, <3>1, <3>2 DEF InSequence
  <2>10. OrderedUpTo(wire'[e0], c, hi) /\ GoesOnAfter(wire'[e0], c, hi, LastOf(source'[e0][c].frames))
    BY <1>3, <1>6, <2>2, <2>6, <2>7, <2>8
  <2>11. source'[e0][c].failed \/ table'[e0][c[2]] = c
    BY <1>13, <2>8
  <2> QED
    BY <1>7, <1>9, <2>9, <2>10, <2>11 DEF DirectionInv
<1>14. p.what \in Whats
  BY DEF Packets
<1> QED
  BY <1>10, <1>11, <1>12, <1>13, <1>14 DEF Whats

\* A source is a source after a packet.
LEMMA GivenType ==
    ASSUME NEW src \in [frames : Seq(Int), failed : BOOLEAN], NEW p \in Packets
    PROVE  Mux!Given(src, p) \in [frames : Seq(Int), failed : BOOLEAN]
<1>1. src.frames \in Seq(Int) /\ p.n \in Int
  BY DEF Packets
<1>2. Append(src.frames, p.n) \in Seq(Int)
  BY <1>1, Appended
<1>3. PICK g \in Seq(Int) : g = IF src.failed \/ p.what = "end" THEN src.frames ELSE Append(src.frames, p.n)
  BY <1>1, <1>2
<1>4. PICK f \in BOOLEAN : f = (src.failed \/ p.what \notin {"request", "frame"})
  OBVIOUS
<1>5. [frames |-> g, failed |-> f] \in [frames : Seq(Int), failed : BOOLEAN]
  OBVIOUS
<1>6. Mux!Given(src, p) = [frames |-> g, failed |-> f]
  BY <1>3, <1>4, Zenon DEF Mux!Given
<1> QED
  BY <1>5, <1>6

\* A packet of a call that was made, on its way to e0.
LEMMA PacketsWereSent ==
    ASSUME MuxTypes, MuxParameters, NEW e0 \in Mux!Endpoints, NEW p \in Packets, Takes(e0, p),
           NEW c \in Mux!AllCalls, p.call = c, CallInv(c)
    PROVE  call[c].at # "none"
<1>1. wire[e0] \in Seq(Packets) /\ wire[e0] # << >> /\ p = wire[e0][1]
  BY DirectionTypes DEF Takes
<1>2. ~ NoneOf(wire[e0], c)
  BY <1>1, RequestAfterReceive
<1> QED
  BY <1>2 DEF CallInv

\* A packet for an entry.
LEMMA ToEntryKeeps ==
    ASSUME MuxInv, MuxParameters, NEW e0 \in Mux!Endpoints, NEW p \in Packets, Takes(e0, p),
           table[e0][p.call[2]] # Mux!NoRequest, Mux!ToEntry(e0, p), wire' = [wire EXCEPT ![e0] = Tail(@)]
    PROVE  MuxInv'
<1>0. MuxTypes
  BY DEF MuxInv
<1>1. PICK c \in Mux!AllCalls : c = p.call
  BY DEF Packets
<1>2. c[2] \in Mux!Ids /\ c[1] \in Mux!Endpoints /\ Mux!PeerOf(c[1]) \in Mux!Endpoints
  BY CallNames
<1>3. PICK r \in Mux!AllCalls : r = table[e0][c[2]]
  <2>1. table[e0][c[2]] \in Mux!AllCalls \cup {Mux!NoRequest}
    BY <1>0, <1>2 DEF MuxTypes
  <2>2. table[e0][c[2]] # Mux!NoRequest
    BY <1>1
  <2> QED
    BY <2>1, <2>2
<1>4. /\ source' = [source EXCEPT ![e0][r] = Mux!Given(@, p)]
      /\ table' = IF p.what \in {"request", "frame"} THEN table
                  ELSE [table EXCEPT ![e0][c[2]] = Mux!NoRequest]
      /\ crossed' = (crossed \/ r # c \/ p.what = "request")
      /\ handler' = handler /\ late' = late
  BY <1>1, <1>3 DEF Mux!ToEntry
<1>5. up' = up /\ nextID' = nextID /\ call' = call /\ written' = written
  BY DEF Takes
<1>6. /\ source' \in [Mux!Endpoints -> [Mux!AllCalls -> [frames : Seq(Int), failed : BOOLEAN]]]
      /\ source'[e0][r] = Mux!Given(source[e0][r], p)
      /\ \A e \in Mux!Endpoints, k \in Mux!AllCalls : e # e0 \/ k # r => source'[e][k] = source[e][k]
  <2>1. source \in [Mux!Endpoints -> [Mux!AllCalls -> [frames : Seq(Int), failed : BOOLEAN]]]
    BY <1>0 DEF MuxTypes
  <2>2. Mux!Given(source[e0][r], p) \in [frames : Seq(Int), failed : BOOLEAN]
    BY <2>1, GivenType
  <2>3. PICK s \in [frames : Seq(Int), failed : BOOLEAN] : s = Mux!Given(source[e0][r], p)
    BY <2>2
  <2>4. source' = [source EXCEPT ![e0] = [source[e0] EXCEPT ![r] = s]]
    BY <1>4, <2>3
  <2> QED
    BY <2>1, <2>3, <2>4
<1>7. /\ table' \in [Mux!Endpoints -> [Mux!Ids -> Mux!AllCalls \cup {Mux!NoRequest}]]
      /\ table'[e0][c[2]] = (IF p.what \in {"request", "frame"} THEN r ELSE Mux!NoRequest)
      /\ \A e \in Mux!Endpoints, i \in Mux!Ids : e # e0 \/ i # c[2] => table'[e][i] = table[e][i]
  BY <1>0, <1>2, <1>3, <1>4 DEF MuxTypes
<1>8. /\ wire' \in [Mux!Endpoints -> Seq(Packets)] /\ wire'[e0] = Tail(wire[e0])
      /\ \A e \in Mux!Endpoints : e # e0 => wire'[e] = wire[e]
      /\ WireInv => WireInv' /\ PacketTo(e0, p)
      /\ \A k \in Mux!AllCalls, e \in Mux!Endpoints : p.call # k => Foreign(wire[e], wire'[e], k)
      /\ \A k \in Mux!AllCalls, e \in Mux!Endpoints : NoRequestOf(wire[e], k) => NoRequestOf(wire'[e], k)
  BY <1>0, OneTaken
<1>9. MuxTypes'
  <2>1. crossed' \in BOOLEAN
    BY <1>4
  <2> QED
    BY <1>0, <1>4, <1>5, <1>6, <1>7, <1>8, <2>1 DEF MuxTypes
<1>10. crossed => crossed'
  BY <1>4
<1>11. ASSUME ~ crossed'
       PROVE  /\ WireInv' /\ CallInv(c)' /\ \A e \in Mux!Endpoints : DirectionInv(e, c)'
              /\ \A k \in Mux!AllCalls : k # c =>
                    Untouched(k) /\ \A e \in Mux!Endpoints : Foreign(wire[e], wire'[e], k)
  <2>1. WireInv /\ CallInv(c) /\ \A e \in Mux!Endpoints : DirectionInv(e, c)
    BY <1>10, <1>11, Before
  <2>2. r = c /\ p.what # "request"
    BY <1>4, <1>11
  <2>3. WireInv' /\ PacketTo(e0, p)
    BY <1>8, <2>1
  <2>4. ASSUME NEW k \in Mux!AllCalls, k # c PROVE Untouched(k)
    <3>1. k # Mux!NoRequest /\ k[2] \in Mux!Ids
      BY CallNames
    <3>2. ASSUME NEW e \in Mux!Endpoints PROVE table'[e][k[2]] = k <=> table[e][k[2]] = k
      BY <1>3, <1>7, <2>2, <2>4, <3>1
    <3> QED
      BY <1>4, <1>5, <1>6, <2>2, <2>4, <3>2 DEF Untouched
  <2>5. DirectionInv(e0, c)'
    <3>1. p.what = "error" => p.n = -1
      BY <2>3 DEF PacketTo
    <3>2. table'[e0][c[2]] = (IF p.what = "frame" THEN c ELSE Mux!NoRequest)
      BY <1>7, <2>2
    <3>3. table[e0][c[2]] = c /\ source'[e0][c] = Mux!Given(source[e0][c], p)
      BY <1>3, <1>6, <2>2
    <3> QED
      BY <1>0, <1>1, <1>4, <1>8, <1>9, <2>1, <2>2, <3>1, <3>2, <3>3, GivenInOrder
  <2>6. ASSUME NEW e \in Mux!Endpoints, e # e0 PROVE DirectionInv(e, c)'
    <3>1. Steady(e, c)
      BY <1>2, <1>4, <1>5, <1>6, <1>7, <2>6 DEF Steady, Keeps, SentTo, Begun, Present, Receives
    <3>2. MovesOn(wire[e], wire'[e], c)
      BY <1>8, <2>6 DEF MovesOn
    <3> QED
      BY <1>0, <1>9, <2>1, <3>1, <3>2, DirectionStays
  <2>7. CallInv(c)'
    <3>1. call[c].at # "none"
      BY <1>0, <1>1, <2>1, PacketsWereSent
    <3>2. CASE e0 = c[1]
      <4>1. wire'[Mux!PeerOf(c[1])] = wire[Mux!PeerOf(c[1])]
        BY <1>2, <1>8, <3>2, CallNames
      <4> QED
        BY <1>4, <1>5, <2>1, <3>1, <4>1 DEF CallInv
    <3>3. CASE e0 # c[1]
      <4>1. handler[c] # "none"
        BY <1>3, <2>1, <2>2, <3>3 DEF DirectionInv, Present, Begun
      <4> QED
        BY <1>2, <1>4, <1>5, <1>8, <2>1, <3>1, <4>1 DEF CallInv
    <3> QED
      BY <3>2, <3>3
  <2> QED
    BY <1>1, <1>8, <2>3, <2>4, <2>5, <2>6, <2>7
<1> QED
  BY <1>5, <1>9, <1>10, <1>11, OneCall

\* A response whose call has no entry is dropped.
LEMMA DropResponseKeeps ==
    ASSUME MuxInv, MuxParameters, NEW e0 \in Mux!Endpoints, NEW p \in Packets, Takes(e0, p),
           table[e0][p.call[2]] = Mux!NoRequest, p.sign = -1, Mux!DropResponse(e0, p),
           wire' = [wire EXCEPT ![e0] = Tail(@)]
    PROVE  MuxInv'
<1>0. MuxTypes
  BY DEF MuxInv
<1>1. PICK c \in Mux!AllCalls : c = p.call
  BY DEF Packets
<1>2. /\ c[2] \in Mux!Ids /\ c[1] \in Mux!Endpoints /\ Mux!PeerOf(c[1]) \in Mux!Endpoints
      /\ Mux!PeerOf(c[1]) # c[1] /\ c # Mux!NoRequest
  BY CallNames
<1>3. /\ late' = [late EXCEPT ![c] = @ \/ call[c].at = "queued"]
      /\ table' = table /\ handler' = handler /\ source' = source /\ crossed' = crossed
  BY <1>1 DEF Mux!DropResponse
<1>4. up' = up /\ nextID' = nextID /\ call' = call /\ written' = written
  BY DEF Takes
<1>5. /\ late' \in [Mux!AllCalls -> BOOLEAN] /\ late'[c] = (late[c] \/ call[c].at = "queued")
      /\ \A k \in Mux!AllCalls : k # c => late'[k] = late[k]
  BY <1>0, <1>3, Zenon DEF MuxTypes
<1>6. /\ wire' \in [Mux!Endpoints -> Seq(Packets)] /\ wire'[e0] = Tail(wire[e0])
      /\ \A e \in Mux!Endpoints : e # e0 => wire'[e] = wire[e]
      /\ WireInv => WireInv' /\ PacketTo(e0, p)
      /\ \A k \in Mux!AllCalls, e \in Mux!Endpoints : p.call # k => Foreign(wire[e], wire'[e], k)
  BY <1>0, OneTaken
<1>7. MuxTypes'
  BY <1>0, <1>3, <1>4, <1>5, <1>6 DEF MuxTypes
<1>8. ASSUME ~ crossed'
      PROVE  /\ WireInv' /\ CallInv(c)' /\ \A e \in Mux!Endpoints : DirectionInv(e, c)'
             /\ \A k \in Mux!AllCalls : k # c =>
                   Untouched(k) /\ \A e \in Mux!Endpoints : Foreign(wire[e], wire'[e], k)
  <2>1. WireInv /\ CallInv(c) /\ \A e \in Mux!Endpoints : DirectionInv(e, c)
    BY <1>3, <1>8, Before
  <2>2. WireInv' /\ PacketTo(e0, p)
    BY <1>6, <2>1
  <2>3. e0 = c[1]
    BY <1>1, <2>2 DEF PacketTo
  <2>4. \A k \in Mux!AllCalls : k # c => Untouched(k)
    BY <1>3, <1>4, <1>5 DEF Untouched
  <2>5. call[c].at # "none"
    BY <1>0, <1>1, <2>1, PacketsWereSent
  <2>6. CallInv(c)'
    <3>1. wire'[Mux!PeerOf(c[1])] = wire[Mux!PeerOf(c[1])]
      BY <1>2, <1>6, <2>3
    <3> QED
      BY <1>3, <1>4, <2>1, <2>5, <3>1 DEF CallInv
  <2>7. DirectionInv(e0, c)'
    <3>1. PICK hi \in Nat : hi = SentTo(e0, c)
      BY <1>0, DirectionTypes
    <3>2. /\ SentTo(e0, c)' = hi
          /\ Begun(e0, c)' <=> Begun(e0, c)
          /\ Present(e0, c)' <=> Present(e0, c)
      BY <1>3, <1>4, <3>1 DEF SentTo, Begun, Present
    <3>3. OrderedUpTo(wire'[e0], c, hi)
      <4>1. wire[e0] \in Seq(Packets) /\ wire[e0] # << >> /\ OrderedUpTo(wire[e0], c, hi)
        BY <1>0, <2>1, <3>1, DirectionTypes DEF Takes, DirectionInv
      <4> QED
        BY <1>6, <4>1, OneReceived
    <3>4. ~ Receives(e0, c)'
      <4>1. ~ Present(e0, c) \/ source[e0][c].failed
        BY <1>1, <1>2, <2>1 DEF DirectionInv
      <4>2. CASE source[e0][c].failed
        BY <1>3, <4>2 DEF Receives
      <4>3. CASE ~ Present(e0, c)
        <5>1. ~ Begun(e0, c)
          BY <2>3, <4>3 DEF Present
        <5>2. call[c].at = "queued"
          <6>1. call[c].at \in {"none", "queued", "open", "over"}
            BY <1>0, CallFields DEF CallRecords
          <6> QED
            BY <2>3, <2>5, <5>1, <6>1 DEF Begun
        <5>3. late'[c] /\ source[e0][c].frames = << >>
          BY <1>5, <2>1, <5>1, <5>2 DEF DirectionInv
        <5> QED
          BY <1>3, <2>3, <5>3 DEF Receives
      <4> QED
        BY <4>1, <4>2, <4>3
    <3>5. InSequence(source'[e0][c].frames, source'[e0][c].failed, hi, late'[c] /\ e0 = c[1])
      <4>1. late[c] => late'[c]
        BY <1>5
      <4> QED
        BY <1>3, <2>1, <3>1, <4>1 DEF DirectionInv, InSequence
    <3> QED
      BY <1>3, <2>1, <3>2, <3>3, <3>4, <3>5 DEF DirectionInv
  <2>8. ASSUME NEW e \in Mux!Endpoints, e # e0 PROVE DirectionInv(e, c)'
    <3>1. late[c] => late'[c]
      BY <1>5
    <3>2. Steady(e, c)
      BY <1>3, <1>4, <2>3, <2>8, <3>1 DEF Steady, Keeps, SentTo, Begun, Present, Receives
    <3>3. MovesOn(wire[e], wire'[e], c)
      BY <1>6, <2>8 DEF MovesOn
    <3> QED
      BY <1>0, <1>7, <2>1, <3>2, <3>3, DirectionStays
  <2> QED
    BY <1>1, <1>6, <2>2, <2>4, <2>6, <2>7, <2>8
<1> QED
  BY <1>3, <1>4, <1>7, <1>8, OneCall

\* A request starts the handler of its call.
LEMMA StartHandlerKeeps ==
    ASSUME MuxInv, MuxParameters, NEW e0 \in Mux!Endpoints, NEW p \in Packets, Takes(e0, p),
           table[e0][p.call[2]] = Mux!NoRequest, p.sign = 1, p.what = "request", Mux!StartHandler(e0, p),
           wire' = [wire EXCEPT ![e0] = Tail(@)]
    PROVE  MuxInv'
<1>0. MuxTypes
  BY DEF MuxInv
<1>1. PICK c \in Mux!AllCalls : c = p.call
  BY DEF Packets
<1>2. c[2] \in Mux!Ids /\ c[1] \in Mux!Endpoints /\ c # Mux!NoRequest
  BY CallNames
<1>3. /\ handler' = [handler EXCEPT ![c] = "run"] /\ table' = [table EXCEPT ![e0][c[2]] = c]
      /\ source' = source /\ crossed' = crossed /\ late' = late
  BY <1>1 DEF Mux!StartHandler
<1>4. up' = up /\ nextID' = nextID /\ call' = call /\ written' = written
  BY DEF Takes
<1>5. /\ handler' \in [Mux!AllCalls -> {"none", "run", "closing", "closed"}] /\ handler'[c] = "run"
      /\ \A k \in Mux!AllCalls : k # c => handler'[k] = handler[k]
  BY <1>0, <1>3 DEF MuxTypes
<1>6. /\ table' \in [Mux!Endpoints -> [Mux!Ids -> Mux!AllCalls \cup {Mux!NoRequest}]]
      /\ table'[e0][c[2]] = c
      /\ \A e \in Mux!Endpoints, i \in Mux!Ids : e # e0 \/ i # c[2] => table'[e][i] = table[e][i]
  BY <1>0, <1>2, <1>3 DEF MuxTypes
<1>7. /\ wire' \in [Mux!Endpoints -> Seq(Packets)] /\ wire'[e0] = Tail(wire[e0])
      /\ \A e \in Mux!Endpoints : e # e0 => wire'[e] = wire[e]
      /\ WireInv => WireInv' /\ PacketTo(e0, p)
      /\ \A k \in Mux!AllCalls, e \in Mux!Endpoints : p.call # k => Foreign(wire[e], wire'[e], k)
      /\ \A k \in Mux!AllCalls, e \in Mux!Endpoints : ~ Numbered(p, k) => MovesOn(wire[e], wire'[e], k)
  BY <1>0, OneTaken
<1>8. MuxTypes'
  BY <1>0, <1>3, <1>4, <1>5, <1>6, <1>7 DEF MuxTypes
<1>9. ASSUME ~ crossed'
      PROVE  /\ WireInv' /\ CallInv(c)' /\ \A e \in Mux!Endpoints : DirectionInv(e, c)'
             /\ \A k \in Mux!AllCalls : k # c =>
                   Untouched(k) /\ \A e \in Mux!Endpoints : Foreign(wire[e], wire'[e], k)
  <2>1. WireInv /\ CallInv(c) /\ \A e \in Mux!Endpoints : DirectionInv(e, c)
    BY <1>3, <1>9, Before
  <2>2. WireInv' /\ PacketTo(e0, p)
    BY <1>7, <2>1
  <2>3. e0 # c[1] /\ e0 = Mux!PeerOf(c[1])
    <3>1. e0 # c[1]
      BY <1>1, <2>2 DEF PacketTo
    <3> QED
      BY <1>2, <3>1, CallNames
  <2>4. ASSUME NEW k \in Mux!AllCalls, k # c PROVE Untouched(k)
    <3>1. k # Mux!NoRequest /\ k[2] \in Mux!Ids
      BY CallNames
    <3>2. ASSUME NEW e \in Mux!Endpoints PROVE table'[e][k[2]] = k <=> table[e][k[2]] = k
      BY <1>1, <1>6, <2>4, <3>1
    <3> QED
      BY <1>3, <1>4, <1>5, <2>4, <3>2 DEF Untouched
  <2>5. call[c].at # "none"
    BY <1>0, <1>1, <2>1, PacketsWereSent
  <2>6. wire[e0] \in Seq(Packets) /\ wire[e0] # << >> /\ IsRequest(wire[e0][1], c) /\ wire[e0][1].call = c
    BY <1>0, <1>1, DirectionTypes DEF Takes, IsRequest
  <2>7. handler[c] = "none"
    <3>1. ~ NoRequestOf(wire[e0], c)
      BY <2>6, RequestAfterReceive
    <3> QED
      BY <2>1, <2>3, <3>1 DEF CallInv
  <2>8. CallInv(c)'
    <3>1. RequestFirst(wire[e0], c) /\ written[c] = 0
      BY <2>1, <2>3, <2>5, <2>7 DEF CallInv, Takes
    <3>2. NoRequestOf(wire'[e0], c)
      BY <1>7, <2>6, <3>1, RequestAfterReceive
    <3> QED
      BY <1>4, <1>5, <2>1, <2>3, <2>5, <3>1, <3>2 DEF CallInv
  <2>9. ~ Numbered(p, c)
    BY DEF Numbered
  <2>10. DirectionInv(e0, c)'
    <3>1. PICK hi \in Nat : hi = SentTo(e0, c)
      BY <1>0, DirectionTypes
    <3>2. ~ Begun(e0, c)
      BY <2>3, <2>7 DEF Begun
    <3>3. source[e0][c].frames = << >> /\ ~ source[e0][c].failed
      BY <2>1, <3>2 DEF DirectionInv
    <3>4. /\ SentTo(e0, c)' = hi /\ Begun(e0, c)' /\ Present(e0, c)' /\ Receives(e0, c)
      BY <1>3, <1>4, <1>5, <2>3, <2>7, <3>1, <3>3 DEF SentTo, Begun, Present, Receives, Takes
    <3>5. OrderedUpTo(wire[e0], c, hi) /\ GoesOnAfter(wire[e0], c, hi, LastOf(source[e0][c].frames))
      BY <2>1, <3>1, <3>4 DEF DirectionInv
    <3>6. LastOf(source[e0][c].frames) \in Nat
      BY <3>3 DEF LastOf
    <3>7. MovesOn(wire[e0], wire'[e0], c)
      BY <1>7, <2>9
    <3>8. OrderedUpTo(wire'[e0], c, hi) /\ GoesOnAfter(wire'[e0], c, hi, LastOf(source[e0][c].frames))
      BY <2>6, <3>5, <3>6, <3>7, MovedOn
    <3>9. InSequence(source'[e0][c].frames, source'[e0][c].failed, hi, late'[c] /\ e0 = c[1])
      BY <1>3, <2>1, <3>1 DEF DirectionInv, InSequence
    <3> QED
      BY <1>3, <1>6, <3>4, <3>8, <3>9 DEF DirectionInv
  <2>11. ASSUME NEW e \in Mux!Endpoints, e # e0 PROVE DirectionInv(e, c)'
    <3>1. e = c[1]
      BY <1>2, <2>3, <2>11, CallNames
    <3>2. Steady(e, c)
      BY <1>2, <1>3, <1>4, <1>6, <2>11, <3>1 DEF Steady, Keeps, SentTo, Begun, Present, Receives
    <3>3. MovesOn(wire[e], wire'[e], c)
      BY <1>7, <2>11 DEF MovesOn
    <3> QED
      BY <1>0, <1>8, <2>1, <3>2, <3>3, DirectionStays
  <2> QED
    BY <1>1, <1>7, <2>2, <2>4, <2>8, <2>10, <2>11
<1> QED
  BY <1>3, <1>4, <1>8, <1>9, OneCall

\* A follow-up of a call without an entry is refused with an error to the caller.
LEMMA RefuseFollowUpKeeps ==
    ASSUME MuxInv, MuxParameters, NEW e0 \in Mux!Endpoints, NEW p \in Packets, Takes(e0, p),
           table[e0][p.call[2]] = Mux!NoRequest, p.sign = 1, p.what # "request", Mux!RefuseFollowUp(e0, p),
           wire' = [[wire EXCEPT ![e0] = Tail(@)]
                        EXCEPT ![Mux!PeerOf(e0)] = Append(@, Mux!Packet(p.call, -1, "error", -1))]
    PROVE  MuxInv'
<1>0. MuxTypes
  BY DEF MuxInv
<1>1. PICK c \in Mux!AllCalls : c = p.call
  BY DEF Packets
<1>2. c[2] \in Mux!Ids /\ c[1] \in Mux!Endpoints /\ c # Mux!NoRequest
  BY CallNames
<1>3. table' = table /\ handler' = handler /\ source' = source /\ crossed' = crossed /\ late' = late
  BY DEF Mux!RefuseFollowUp
<1>4. up' = up /\ nextID' = nextID /\ call' = call /\ written' = written /\ up
  BY DEF Takes
<1>5. PICK d \in Mux!Endpoints : d = Mux!PeerOf(e0) /\ d # e0 /\ \A e \in Mux!Endpoints : e = e0 \/ e = d
  BY CallNames
<1>6. PICK q \in Packets : q = Mux!Packet(c, -1, "error", -1)
  BY PacketOf DEF Whats
<1>7. q.call = c /\ q.what = "error" /\ q.n = -1 /\ q.sign = -1
  BY <1>6 DEF Mux!Packet
<1>8. \A k \in Mux!AllCalls : ~ Numbered(q, k) /\ ~ IsRequest(q, k)
  BY <1>7 DEF Numbered, IsRequest
<1>9. wire \in [Mux!Endpoints -> Seq(Packets)] /\ wire[e0] \in Seq(Packets) /\ wire[d] \in Seq(Packets)
  BY <1>0 DEF MuxTypes
<1>10. /\ wire' \in [Mux!Endpoints -> Seq(Packets)] /\ wire'[e0] = Tail(wire[e0])
       /\ wire'[d] = Append(wire[d], q)
  <2>1. Tail(wire[e0]) \in Seq(Packets)
    BY <1>9, Received DEF Takes
  <2>2. Append(wire[d], q) \in Seq(Packets)
    BY <1>9, Appended
  <2>a. PICK x \in Seq(Packets) : x = Tail(wire[e0])
    BY <2>1
  <2>b. PICK y \in Seq(Packets) : y = Append(wire[d], q)
    BY <2>2
  <2>c. PICK v : v = [wire EXCEPT ![e0] = Tail(@)]
    OBVIOUS
  <2>d. v = [wire EXCEPT ![e0] = x] /\ v[d] = wire[d]
    BY <1>5, <1>9, <2>a, <2>c
  <2>3. wire' = [v EXCEPT ![d] = y]
    BY <1>1, <1>5, <1>6, <2>b, <2>c, <2>d
  <2>e. v \in [Mux!Endpoints -> Seq(Packets)] /\ v[e0] = x
    BY <1>9, <2>d
  <2>f. wire' \in [Mux!Endpoints -> Seq(Packets)]
    BY <2>3, <2>e
  <2>g. wire'[d] = y
    BY <2>3, <2>e
  <2>h. wire'[e0] = v[e0]
    BY <1>5, <2>3, <2>e
  <2>4. /\ wire' \in [Mux!Endpoints -> Seq(Packets)] /\ wire'[e0] = x /\ wire'[d] = y
    BY <2>e, <2>f, <2>g, <2>h
  <2> QED
    BY <2>4, <2>a, <2>b
<1>11. MuxTypes'
  BY <1>0, <1>3, <1>4, <1>10 DEF MuxTypes
<1>12. wire[e0] # << >> /\ p = wire[e0][1]
  BY DEF Takes
<1>13. ASSUME ~ crossed'
       PROVE  /\ WireInv' /\ CallInv(c)' /\ \A e \in Mux!Endpoints : DirectionInv(e, c)'
              /\ \A k \in Mux!AllCalls : k # c =>
                    Untouched(k) /\ \A e \in Mux!Endpoints : Foreign(wire[e], wire'[e], k)
  <2>1. WireInv /\ CallInv(c) /\ \A e \in Mux!Endpoints : DirectionInv(e, c)
    BY <1>3, <1>13, Before
  <2>2. PacketTo(e0, p)
    <3>1. 1 \in 1..Len(wire[e0])
      BY <1>9, <1>12, Received
    <3> QED
      BY <1>12, <2>1, <3>1 DEF WireInv
  <2>3. e0 # c[1] /\ e0 = Mux!PeerOf(c[1]) /\ d = c[1]
    <3>1. e0 # c[1]
      BY <1>1, <2>2 DEF PacketTo
    <3> QED
      BY <1>2, <1>5, <3>1, CallNames
  <2>4. WireInv'
    <3>1. PacketTo(d, q)
      <4>1. q.sign # 1
        BY <1>7
      <4>2. ~ (q.call[1] # d)
        BY <1>7, <2>3
      <4> QED
        BY <1>7, <4>1, <4>2 DEF PacketTo
    <3>2. ASSUME NEW i \in 1..Len(wire'[d]) PROVE PacketTo(d, wire'[d][i])
      <4>1. Len(wire'[d]) = Len(wire[d]) + 1 /\ Len(wire[d]) \in Nat
        BY <1>9, <1>10, Appended
      <4>2. CASE i = Len(wire[d]) + 1
        <5>1. wire'[d][i] = q
          BY <1>9, <1>10, <4>2, Appended
        <5> QED
          BY <3>1, <5>1
      <4>3. CASE i # Len(wire[d]) + 1
        <5>1. i \in 1..Len(wire[d])
          BY <3>2, <4>1, <4>3
        <5>2. Append(wire[d], q)[i] = wire[d][i]
          BY <1>9, <5>1, Appended
        <5>3. wire'[d][i] = wire[d][i]
          BY <1>10, <5>2
        <5> QED
          BY <2>1, <5>1, <5>3 DEF WireInv
      <4> QED
        BY <4>2, <4>3
    <3>3. ASSUME NEW i \in 1..Len(wire'[e0]) PROVE PacketTo(e0, wire'[e0][i])
      <4>1. PICK n \in Nat : n = Len(wire[e0]) /\ n > 0
        BY <1>9, <1>12, Received
      <4>a. /\ Len(Tail(wire[e0])) = n - 1
            /\ \A j \in 1..(n - 1) : Tail(wire[e0])[j] = wire[e0][j + 1]
        BY <1>9, <1>12, <4>1, Received
      <4>b. wire'[e0] = Tail(wire[e0])
        BY <1>10
      <4>2. Len(wire'[e0]) = n - 1 /\ \A j \in 1..(n - 1) : wire'[e0][j] = wire[e0][j + 1]
        BY <4>a, <4>b, Zenon
      <4>c. i \in 1..(n - 1)
        BY <3>3, <4>2, Zenon
      <4>3. i \in 1..(n - 1) /\ i + 1 \in 1..n
        BY <4>1, <4>c
      <4>4. wire'[e0][i] = wire[e0][i + 1]
        BY <4>2, <4>3
      <4> QED
        BY <2>1, <4>1, <4>3, <4>4 DEF WireInv
    <3> QED
      BY <1>4, <1>5, <3>2, <3>3 DEF WireInv
  <2>5. \A k \in Mux!AllCalls : k # c => Untouched(k) /\ \A e \in Mux!Endpoints : Foreign(wire[e], wire'[e], k)
    <3>1. ASSUME NEW k \in Mux!AllCalls, k # c PROVE Untouched(k)
      BY <1>3, <1>4 DEF Untouched
    <3>2. ASSUME NEW k \in Mux!AllCalls, k # c PROVE Foreign(wire[e0], wire'[e0], k) /\ Foreign(wire[d], wire'[d], k)
      BY <1>1, <1>7, <1>10, <1>12, <3>2 DEF Foreign
    <3> QED
      BY <1>5, <3>1, <3>2
  <2>6. call[c].at # "none"
    BY <1>0, <1>1, <2>1, PacketsWereSent
  <2>7. handler[c] # "none"
    <3>1. ~ IsRequest(wire[e0][1], c) /\ wire[e0][1].call = c
      BY <1>1, <1>12 DEF IsRequest
    <3>2. ~ RequestFirst(wire[e0], c)
      BY <1>9, <1>12, <3>1, RequestAfterReceive
    <3> QED
      BY <1>4, <2>1, <2>3, <2>6, <3>2 DEF CallInv
  <2>8. CallInv(c)'
    <3>1. NoRequestOf(wire[e0], c)
      BY <2>1, <2>3, <2>7 DEF CallInv
    <3>a. NoRequestOf(Tail(wire[e0]), c)
      BY <1>9, <1>12, <3>1, RequestAfterReceive
    <3>2. NoRequestOf(wire'[e0], c)
      BY <1>10, <3>a
    <3> QED
      BY <1>3, <1>4, <2>1, <2>3, <2>6, <2>7, <3>2 DEF CallInv
  <2>9. DirectionInv(e0, c)'
    <3>1. PICK hi \in Nat : hi = SentTo(e0, c)
      BY <1>0, DirectionTypes
    <3>2. /\ SentTo(e0, c)' = hi
          /\ Begun(e0, c)' <=> Begun(e0, c)
          /\ Present(e0, c)' <=> Present(e0, c)
      BY <1>3, <1>4, <3>1 DEF SentTo, Begun, Present
    <3>3. OrderedUpTo(wire'[e0], c, hi)
      <4>1. OrderedUpTo(wire[e0], c, hi)
        BY <2>1, <3>1 DEF DirectionInv
      <4>2. OrderedUpTo(Tail(wire[e0]), c, hi)
        BY <1>9, <1>12, <4>1, OneReceived
      <4> QED
        BY <1>10, <4>2
    <3>4. ~ Receives(e0, c)'
      <4>1. ~ Present(e0, c) \/ source[e0][c].failed
        BY <1>1, <1>2, <2>1 DEF DirectionInv
      <4> QED
        BY <1>3, <2>3, <2>7, <4>1 DEF Receives, Present, Begun
    <3>5. InSequence(source'[e0][c].frames, source'[e0][c].failed, hi, late'[c] /\ e0 = c[1])
      BY <1>3, <2>1, <3>1 DEF DirectionInv, InSequence
    <3> QED
      BY <1>3, <2>1, <3>2, <3>3, <3>4, <3>5 DEF DirectionInv
  <2>10. DirectionInv(d, c)'
    <3>1. Steady(d, c)
      BY <1>3, <1>4 DEF Steady, Keeps, SentTo, Begun, Present, Receives
    <3>2. MovesOn(wire[d], wire'[d], c)
      BY <1>8, <1>10 DEF MovesOn
    <3> QED
      BY <1>0, <1>11, <2>1, <3>1, <3>2, DirectionStays
  <2> QED
    BY <1>5, <2>4, <2>5, <2>8, <2>9, <2>10
<1> QED
  BY <1>3, <1>4, <1>11, <1>13, OneCall

\* HandlePacket takes the next packet.
LEMMA HandlePacketKeeps ==
    ASSUME MuxInv, MuxParameters, NEW e0 \in Mux!Endpoints, Mux!HandlePacket(e0)
    PROVE  MuxInv'
<1>0. MuxTypes
  BY DEF MuxInv
<1>1. wire[e0] \in Seq(Packets) /\ wire[e0] # << >>
  BY <1>0 DEF MuxTypes, Mux!HandlePacket
<1>2. PICK p \in Packets : p = wire[e0][1] /\ p = Head(wire[e0])
  BY <1>1, Received
<1>3. Takes(e0, p)
  BY <1>1, <1>2 DEF Takes, Mux!HandlePacket
<1>4. CASE table[e0][p.call[2]] # Mux!NoRequest /\ Mux!ToEntry(e0, p) /\ wire' = [wire EXCEPT ![e0] = Tail(@)]
  BY <1>3, <1>4, ToEntryKeeps
<1>5. CASE /\ table[e0][p.call[2]] = Mux!NoRequest /\ p.sign = -1
           /\ Mux!DropResponse(e0, p) /\ wire' = [wire EXCEPT ![e0] = Tail(@)]
  BY <1>3, <1>5, DropResponseKeeps
<1>6. CASE /\ table[e0][p.call[2]] = Mux!NoRequest /\ p.sign = 1 /\ p.what = "request"
           /\ Mux!StartHandler(e0, p) /\ wire' = [wire EXCEPT ![e0] = Tail(@)]
  BY <1>3, <1>6, StartHandlerKeeps
<1>7. CASE /\ table[e0][p.call[2]] = Mux!NoRequest /\ p.sign = 1 /\ p.what # "request"
           /\ Mux!RefuseFollowUp(e0, p)
           /\ wire' = [[wire EXCEPT ![e0] = Tail(@)]
                          EXCEPT ![Mux!PeerOf(e0)] = Append(@, Mux!Packet(p.call, -1, "error", -1))]
  BY <1>3, <1>7, RefuseFollowUpKeeps
<1> QED
  BY <1>2, <1>4, <1>5, <1>6, <1>7 DEF Mux!HandlePacket

\* No call has been made.
LEMMA InitMux ==
    ASSUME MuxParameters, Mux!Init
    PROVE  MuxInv
<1>1. /\ \A e \in Mux!Endpoints : nextID[e] = 1 /\ wire[e] = << >>
      /\ \A e \in Mux!Endpoints, i \in Mux!Ids : table[e][i] = Mux!NoRequest
      /\ \A c \in Mux!AllCalls : /\ call[c].at = "none" /\ call[c].sent = 0 /\ call[c].kind = "none"
                                 /\ handler[c] = "none" /\ written[c] = 0
      /\ \A e \in Mux!Endpoints, c \in Mux!AllCalls : source[e][c].frames = << >> /\ ~ source[e][c].failed
  BY DEF Mux!Init, Mux!NoCall
<1>2. MuxTypes
  <2>1. nextID \in [Mux!Endpoints -> Nat \ {0}]
    BY DEF Mux!Init
  <2>2. table \in [Mux!Endpoints -> [Mux!Ids -> Mux!AllCalls \cup {Mux!NoRequest}]]
    BY DEF Mux!Init
  <2>3. wire \in [Mux!Endpoints -> Seq(Packets)]
    <3>1. << >> \in Seq(Packets)
      OBVIOUS
    <3> QED
      BY <3>1, Zenon DEF Mux!Init
  <2>4. call \in [Mux!AllCalls -> CallRecords]
    <3>1. Mux!NoCall \in CallRecords
      BY DEF Mux!NoCall, CallRecords
    <3> QED
      BY <3>1, Zenon DEF Mux!Init
  <2>5. /\ handler \in [Mux!AllCalls -> {"none", "run", "closing", "closed"}]
        /\ written \in [Mux!AllCalls -> Nat] /\ late \in [Mux!AllCalls -> BOOLEAN]
    BY DEF Mux!Init
  <2>6. source \in [Mux!Endpoints -> [Mux!AllCalls -> [frames : Seq(Int), failed : BOOLEAN]]]
    <3>1. [frames |-> << >>, failed |-> FALSE] \in [frames : Seq(Int), failed : BOOLEAN]
      OBVIOUS
    <3> QED
      BY <3>1, Zenon DEF Mux!Init
  <2>7. up \in BOOLEAN /\ crossed \in BOOLEAN
    BY DEF Mux!Init
  <2> QED
    BY <2>1, <2>2, <2>3, <2>4, <2>5, <2>6, <2>7 DEF MuxTypes
<1>3. WireInv
  BY <1>1 DEF WireInv
<1>4. ASSUME NEW c \in Mux!AllCalls PROVE CallInv(c)
  <2>1. c[1] \in Mux!Endpoints /\ 1 <= c[2]
    <3>1. Mux!Ids = 1..MaxCalls
      BY DEF Mux!Ids, Mux!Endpoints, Calls
    <3> QED
      BY <3>1, CallNames DEF MuxParameters
  <2>2. NoneOf(<< >>, c)
    BY DEF NoneOf
  <2> QED
    BY <1>1, <2>1, <2>2 DEF CallInv
<1>5. ASSUME NEW c \in Mux!AllCalls, NEW e \in Mux!Endpoints PROVE DirectionInv(e, c)
  <2>1. SentTo(e, c) = 0 /\ ~ Begun(e, c) /\ ~ Present(e, c)
    BY <1>1 DEF SentTo, Begun, Present
  <2>2. OrderedUpTo(wire[e], c, SentTo(e, c)) /\ GoesOnAfter(wire[e], c, SentTo(e, c), 0)
    BY <1>1, <2>1, EmptyWire
  <2>3. LastOf(source[e][c].frames) = 0
    BY <1>1 DEF LastOf
  <2>4. InSequence(source[e][c].frames, source[e][c].failed, SentTo(e, c), late[c] /\ e = c[1])
    BY <1>1 DEF InSequence
  <2>5. table[e][c[2]] # c
    BY <1>1, CallNames
  <2> QED
    BY <1>1, <2>1, <2>2, <2>3, <2>4, <2>5 DEF DirectionInv
<1> QED
  BY <1>2, <1>3, <1>4, <1>5 DEF MuxInv, Uncrossed

\* Every step of the layers of a connection keeps the invariant of the calls.
LEMMA TransportKeepsMux ==
    ASSUME MuxParameters, MuxInv, [TransportNext]_<< layer, hsVars, boxVars, muxVars >>
    PROVE  MuxInv'
<1>1. CASE UNCHANGED muxVars
  BY <1>1 DEF muxVars, MuxInv, MuxTypes, Uncrossed, WireInv, CallInv, DirectionInv, SentTo, Begun, Present, Receives
<1>2. CASE Mux!Next
  <2>1. ASSUME NEW e \in Mux!Endpoints, NEW kind \in Kinds[e], Mux!CallSend(e, kind) PROVE MuxInv'
    BY <2>1, CallSendKeeps
  <2>2. ASSUME NEW e \in Mux!Endpoints, Mux!HandlePacket(e) PROVE MuxInv'
    BY <2>2, HandlePacketKeeps
  <2>3. ASSUME NEW c \in Mux!AllCalls, Mux!CallRegister(c) PROVE MuxInv'
    BY <2>3, CallRegisterKeeps
  <2>4. ASSUME NEW c \in Mux!AllCalls, Mux!CallWrite(c) PROVE MuxInv'
    BY <2>4, CallWriteKeeps
  <2>5. ASSUME NEW c \in Mux!AllCalls, Mux!HandlerWrite(c) \/ Mux!HandlerClose(c) PROVE MuxInv'
    BY <2>5, HandlerWrites
  <2>6. ASSUME NEW c \in Mux!AllCalls, Mux!HandlerCloseStream(c) PROVE MuxInv'
    BY <2>6, HandlerCloseStreamKeeps
  <2>7. ASSUME NEW c \in Mux!AllCalls, Mux!CallEnds(c) PROVE MuxInv'
    BY <2>7, CallEndsKeeps
  <2>8. ASSUME NEW c \in Mux!AllCalls, Mux!CallCancel(c) PROVE MuxInv'
    BY <2>8, CallCancelKeeps
  <2>9. CASE Mux!Disconnect
    BY <2>9, DisconnectKeeps
  <2> QED
    BY <1>2, <2>1, <2>2, <2>3, <2>4, <2>5, <2>6, <2>7, <2>8, <2>9 DEF Mux!Next
<1> QED
  BY <1>1, <1>2 DEF TransportNext, Established

\* Until ids have crossed, the sources hold what was sent, in order.
LEMMA OrderFollows ==
    ASSUME MuxInv
    PROVE  Mux!FramesInOrder
<1>1. SUFFICES ASSUME ~ crossed, NEW c \in Mux!AllCalls, NEW e \in Mux!Endpoints,
                      NEW i \in 1..Len(source[e][c].frames)
               PROVE  \/ source[e][c].frames[i] = -1 /\ i = Len(source[e][c].frames)
                      \/ /\ source[e][c].frames[i] \in 1..(IF e = c[1] THEN written[c] ELSE call[c].sent)
                         /\ i = 1 => source[e][c].frames[i] = 1 \/ (late[c] /\ e = c[1])
                         /\ i > 1 => source[e][c].frames[i] = source[e][c].frames[i - 1] + 1
  BY DEF Mux!FramesInOrder
<1>2. InSequence(source[e][c].frames, source[e][c].failed, SentTo(e, c), late[c] /\ e = c[1])
  BY <1>1 DEF MuxInv, Uncrossed, DirectionInv
<1>3. SentTo(e, c) = IF e = c[1] THEN written[c] ELSE call[c].sent
  BY DEF SentTo
<1> QED
  BY <1>1, <1>2, <1>3 DEF InSequence

\* The packets the reader of packets returns are the packets written to the other end, one
\* by one and with the bodies they had (muxrpc/codec over secretstream/boxstream), however
\* the network cuts the stream; only the packet that Close cut off may have the zeros of the
\* goodbye in the place of its body.  And what a ByteSource of muxrpc was given is what the
\* other end wrote to the call, in order and without a hole, with any number of calls and
\* frames: only the start of an answer is missing when it came before doCall had registered
\* the call, and an error comes last.  A request whose id is that of an open call of the other
\* end is taken as its follow-up; from then on nothing is said of the calls.
THEOREM TrafficIsInOrder ==
    ASSUME BoxParameters, MuxParameters
    PROVE  TransportSpec => []TrafficInOrder
<1>1. TransportInit => BoxInv /\ MuxInv
  BY InitBox, InitMux DEF TransportInit
<1>2. BoxInv /\ MuxInv /\ [TransportNext]_<< layer, hsVars, boxVars, muxVars >> => BoxInv' /\ MuxInv'
  BY TransportKeepsBox, TransportKeepsMux
<1>3. BoxInv /\ MuxInv => TrafficInOrder
  <2>1. BoxInv => Box!PacketsIntact
    BY DEF BoxInv, ReaderInv
  <2> QED
    BY <2>1, OrderFollows DEF TrafficInOrder
<1>4. TransportSpec => TransportInit /\ [][TransportNext]_<< layer, hsVars, boxVars, muxVars >>
  BY DEF TransportSpec
<1> QED
  BY <1>1, <1>2, <1>3, <1>4, PTL
=============================================================================
