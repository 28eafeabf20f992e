----------------------------- MODULE MCAssetPages -----------------------------
(* Model-checking instance of AssetPages.  No page shows both assets and     *)
(* policies, so the agent has policies of its own only while it has no       *)
(* assets: all states of each of the two, not all pairs.                     *)
EXTENDS AssetPages, TLC

PageSymmetry == Permutations(Calls) \cup Permutations(Assets)

MCNext == PagesNext /\ (policies' = {} \/ known' = {})
MCSpec == PagesInit /\ [][MCNext]_<<agentVars, pageVars, call, behind, fresh>>
=============================================================================
