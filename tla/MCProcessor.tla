----------------------------- MODULE MCProcessor -----------------------------
(* An instance of Processor: two replies, one to the other, and a post that is *)
(* never served.                                                               *)
EXTENDS Processor, TLC

Up(u, c) == [uri |-> u, cid |-> c, act |-> "upsert", raw |-> TRUE]

NoRemote == [u \in URI |-> {}]

\* "b" replies to "a", which replies to a post nobody can serve.
StarveURI == {"m", "a", "b"}
StarveRefs == "m" :> {} @@ "a" :> {"m"} @@ "b" :> {"a"}
StarveKind == [u \in URI |-> "plain"]
StarveScripts == {<<Up("a", "c1"), Up("b", "c1")>>}
==============================================================================
