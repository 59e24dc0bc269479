----------------------------- MODULE InsightsMC -----------------------------
(* Insights for TLC: two namesakes and another accused; the second namesake  *)
(* in the same case as the others or in a second case of the same pattern.   *)
EXTENDS Insights, TLC

CONSTANTS a1, a2, a3, k1, k2, kala, ravi

NameMC == a1 :> ravi @@ a2 :> ravi @@ a3 :> kala
PlacementsMC == {(a1 :> k1 @@ a2 :> k @@ a3 :> k1) : k \in {k1, k2}}
AlikeMC == {<<k1, k2>>, <<k2, k1>>}
=============================================================================
