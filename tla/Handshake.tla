----------------------------- MODULE Handshake ------------------------------
(***************************************************************************)
(* internal/ssb/secretstream: the secret handshake of a client and a server *)
(* and the keys and nonces it gives the two box streams.                    *)
(*                                                                          *)
(* Cryptography is symbolic: a shared secret is the set of the two key      *)
(* pairs it is made of, a hash is the tuple of its inputs, a box opens with *)
(* the key it was sealed with, a signature names its signer and its text.   *)
(* The end that reads takes a whole message (io.ReadFull) or sees the       *)
(* connection end.                                                          *)
(***************************************************************************)
EXTENDS Integers, Sequences

CONSTANTS
    AppKeys,      \* network identifiers
    Keys          \* long-term key pairs

VARIABLES
    local,     \* local[e]: the long-term key of the client and of the server
    appKey,    \* appKey[e]
    hs,        \* hs[e]: role, remotePublic, macs and secrets of State
    channel    \* channel[e]: the handshake message travelling to e, or none

hsVars == << local, appKey, hs, channel >>

Ends == {"client", "server"}
Other(e) == IF e = "client" THEN "server" ELSE "client"

\* The ephemeral key pair newState generates.
Ephemeral(e) == IF e = "client" THEN "client eph" ELSE "server eph"
DH(a, b) == {a, b}
None == "none"
NoMessage == [kind |-> "none"]

\* newState; the client knows whom it calls.
NewState(remote) ==
    [role |-> "initial", remotePublic |-> remote, remoteExchange |-> None,
     localAppMac |-> None, remoteAppMac |-> None, secret |-> None, secHash |-> None,
     aBob |-> None, hello |-> None]

Init ==
    /\ local \in [Ends -> Keys]
    /\ appKey \in [Ends -> AppKeys]
    /\ \E remote \in Keys : hs = [e \in Ends |-> NewState(IF e = "client" THEN remote ELSE None)]
    /\ channel = [e \in Ends |-> NoMessage]

----------------------------------------------------------------------------
\* createChallenge: an authenticator of the exchange key under the app key.
AppMac(e) == << "mac", Ephemeral(e), appKey[e] >>
Challenge(e) == [kind |-> "challenge", mac |-> AppMac(e), exchange |-> Ephemeral(e)]

\* verifyChallenge.
ChallengeOK(e, ch) == ch.mac = << "mac", ch.exchange, appKey[e] >>
WithChallenge(e, ch) ==
    LET secret == DH(Ephemeral(e), ch.exchange) IN
    [hs[e] EXCEPT !.remoteExchange = ch.exchange, !.remoteAppMac = ch.mac,
                  !.secret = secret, !.secHash = << "hash", secret >>]

\* createClientAuth.
Hello(s) == [sig |-> [by |-> local["client"], over |-> << appKey["client"], s.remotePublic, s.secHash >>],
             pub |-> local["client"]]
ClientAuth(s, aBob) ==
    [kind |-> "auth", key |-> << appKey["client"], s.secret, aBob >>, hello |-> Hello(s)]

\* Mutant: the signed server key is not compared.
ClientAuthAnyServer(s, aBob, m) ==
    /\ m.key[1] = appKey["server"]
    /\ m.hello.sig.by = m.hello.pub

\* verifyClientAuth.
ClientAuthOK(s, aBob, m) ==
    /\ m.key = << appKey["server"], s.secret, aBob >>
    /\ m.hello.sig = [by |-> m.hello.pub, over |-> << appKey["server"], local["server"], s.secHash >>]

\* createServerAccept and verifyServerAccept.
Secret3(e, s, aBob, bAlice) == << appKey[e], s.secret, aBob, bAlice >>
ServerAccept(s, secret3) ==
    [kind |-> "accept", key |-> secret3,
     sig |-> [by |-> local["server"], over |-> << appKey["server"], s.hello, s.secHash >>]]
ServerAcceptOK(s, secret3, m) ==
    /\ m.key = secret3
    /\ m.sig = [by |-> s.remotePublic, over |-> << appKey["client"], s.hello, s.secHash >>]

\* cleanSecrets: only the hash of the last secret is left.
CleanSecrets(s, secret3) ==
    [s EXCEPT !.secHash = None, !.aBob = None, !.secret = << "hash", secret3 >>, !.role = "done"]

\* GetBoxstreamEncKeys and GetBoxstreamDecKeys: key and nonce.
EncKeys(e) == << hs[e].secret, hs[e].remotePublic, hs[e].remoteAppMac >>
DecKeys(e) == << hs[e].secret, local[e], hs[e].localAppMac >>

----------------------------------------------------------------------------
Move(e, s, message) ==
    /\ hs' = [hs EXCEPT ![e] = s]
    /\ channel' = [channel EXCEPT ![e] = NoMessage, ![Other(e)] = message]
    /\ UNCHANGED << local, appKey >>

\* ErrHandshakeFailed: the caller closes the connection.
Fail(e) == Move(e, [hs[e] EXCEPT !.role = "failed"], [kind |-> "closed"])

ClientHello ==
    /\ hs["client"].role = "initial"
    /\ Move("client", [hs["client"] EXCEPT !.role = "challenge", !.localAppMac = AppMac("client")],
            Challenge("client"))

ServerChallenge ==
    /\ hs["server"].role = "initial"
    /\ channel["server"].kind = "challenge"
    /\ IF ChallengeOK("server", channel["server"])
       THEN Move("server", [WithChallenge("server", channel["server"]) EXCEPT
                               !.role = "auth", !.localAppMac = AppMac("server")],
                 Challenge("server"))
       ELSE Fail("server")

ClientChallenge ==
    /\ hs["client"].role = "challenge"
    /\ channel["client"].kind = "challenge"
    /\ LET s    == WithChallenge("client", channel["client"])
           aBob == DH(Ephemeral("client"), s.remotePublic)
       IN IF ChallengeOK("client", channel["client"])
          THEN Move("client", [s EXCEPT !.role = "accept", !.aBob = aBob, !.hello = Hello(s)],
                    ClientAuth(s, aBob))
          ELSE Fail("client")

\* verifyClientAuth, createServerAccept, cleanSecrets: the server is done when
\* it writes its last message, whether or not the client reads it.
ServerAuth ==
    /\ hs["server"].role = "auth"
    /\ channel["server"].kind = "auth"
    /\ LET m       == channel["server"]
           aBob    == DH(hs["server"].remoteExchange, local["server"])
           s       == [hs["server"] EXCEPT !.remotePublic = m.hello.pub, !.hello = m.hello]
           secret3 == Secret3("server", s, aBob, DH(Ephemeral("server"), s.remotePublic))
       IN IF ClientAuthOK(s, aBob, m)
          THEN Move("server", CleanSecrets(s, secret3), ServerAccept(s, secret3))
          ELSE Fail("server")

ClientAccept ==
    /\ hs["client"].role = "accept"
    /\ channel["client"].kind = "accept"
    /\ LET s       == hs["client"]
           secret3 == Secret3("client", s, s.aBob, DH(s.remoteExchange, local["client"]))
       IN IF ServerAcceptOK(s, secret3, channel["client"])
          THEN Move("client", CleanSecrets(s, secret3), NoMessage)
          ELSE Fail("client")

\* The connection ends: whoever still reads fails.
Lost(e) ==
    /\ hs[e].role \notin {"done", "failed"}
    /\ Fail(e)

SeesClose(e) ==
    /\ hs[e].role \notin {"done", "failed"}
    /\ channel[e].kind = "closed"
    /\ Fail(e)

Next ==
    \/ ClientHello
    \/ ServerChallenge
    \/ ClientChallenge
    \/ ServerAuth
    \/ ClientAccept
    \/ \E e \in Ends : Lost(e) \/ SeesClose(e)

Spec == Init /\ [][Next]_hsVars

----------------------------------------------------------------------------
\* Whoever is done has authenticated the other end: the app keys agree, the
\* client reached the key it dialled, the server learnt the client's key, and
\* what one end encrypts with is what the other end decrypts with, the two
\* directions never sharing key and nonce.
KeysAgree ==
    /\ hs["server"].role = "done" =>
           /\ appKey["server"] = appKey["client"]
           /\ hs["server"].remotePublic = local["client"]
           /\ hs["client"].remotePublic = local["server"]
    /\ hs["client"].role = "done" =>
           /\ hs["server"].role = "done"
           /\ EncKeys("client") = DecKeys("server")
           /\ DecKeys("client") = EncKeys("server")
           /\ EncKeys("client") # DecKeys("client")
=============================================================================
