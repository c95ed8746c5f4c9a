-------------------------------- MODULE MCMemo --------------------------------
(* Model-checking instance of Memo: contents of 20, 21 and 40 tokens, the  *)
(* first two within the 10% of reread_with_diff, and a part of 20 tokens,  *)
(* within 10% of those two.                                                *)
EXTENDS Memo, TLC

CONSTANTS c1, c2, s1, s2, f1, old, near, far, most

MCConversations == {c1, c2}
MCSessions == {s1, s2}
MCOwnIds == (c1 :> s1) @@ (c2 :> s2)
(* Payloads without a session id, which the hooks file under "default".    *)
MCSharedId == (c1 :> s1) @@ (c2 :> s1)
MCSize == (old :> 20) @@ (near :> 21) @@ (far :> 40) @@ (most :> 20)
(* The two conversations, each with its own session, are interchangeable. *)
MCSymmetry == {(c1 :> c2) @@ (c2 :> c1) @@ (s1 :> s2) @@ (s2 :> s1)}
=============================================================================
