------------------------------- MODULE MCAccount -------------------------------
(***************************************************************************)
(* What intact remembers of an account, side by side: the sign-ins that make  *)
(* it, its quota, read by two readers and a claim, and its token, used by two  *)
(* callers at a provider that rotates refresh tokens. A run is one of them,    *)
(* and the others stay as they began.                                       *)
(***************************************************************************)
EXTENDS QuotaCache, TokenRefresh, SignIn

VARIABLE part

MCAccountVars == <<quotaVars, tokenVars, signInVars, part>>

MCAccountInit ==
    /\ part \in {"quota", "token", "signin"}
    /\ QuotaInit
    /\ TokenInit /\ (part # "token" => ~stored.due)
    /\ SignInInit /\ (part # "signin" => signsTo \in [SignIns -> {"github"}])

MCAccountNext ==
    /\ \/ part = "quota" /\ QuotaNext /\ UNCHANGED <<tokenVars, signInVars>>
       \/ part = "token" /\ TokenNext /\ UNCHANGED <<quotaVars, signInVars>>
       \/ part = "signin" /\ SignInNext /\ UNCHANGED <<quotaVars, tokenVars>>
    /\ UNCHANGED part

\* The fairness of the first two: no read and no renewal is under way in another part.
MCAccountSpec ==
    /\ MCAccountInit /\ [][MCAccountNext]_MCAccountVars
    /\ WF_quotaVars(\E n \in running : Land(n))
    /\ \A r \in Readers : WF_quotaVars(Wake(r)) /\ WF_quotaVars(Refreshed(r))
    /\ \A p \in Callers : WF_tokenVars(Continue(p)) /\ SF_tokenVars(Lock(p))
=============================================================================
