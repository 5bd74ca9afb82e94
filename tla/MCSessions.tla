----------------------------- MODULE MCSessions -----------------------------
(* A driver whose phone waits for its answers, and one whose does not.     *)
EXTENDS Sessions, TLC

CONSTANTS d1, d2, v1, v2

OneEach == v1 :> d1 @@ v2 :> d2
JustOne == v1 :> d1
=============================================================================
