---------------------------- MODULE MCResetClaims ----------------------------
(* Two tabs of the dashboard with three clicks between them; the cache's     *)
(* readers have a run of their own.                                           *)
EXTENDS ResetClaims, TLC

MCAlike == Permutations(Claimers) \cup Permutations(Clicks)

=============================================================================
