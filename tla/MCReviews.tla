----------------------------- MODULE MCReviews -----------------------------
(***************************************************************************)
(* Three instances side by side: the judge with the review off, the review   *)
(* of a change by the loop and the button, and the loop's review of the      *)
(* finding of a lost field while people and the consumer change it.          *)
(***************************************************************************)
EXTENDS Reviews

VARIABLE part

KnownToBeLost == [NoSig EXCEPT !.state = "approved", !.verdict = "lost"]

MCInit ==
    /\ part \in {"judge", "change", "finding"}
    /\ sig = [p \in Paths |-> IF part = "finding" THEN KnownToBeLost ELSE NoSig]
    /\ finding = [p \in Paths |-> IF part = "finding" THEN Upserted(NoFinding, "consumer", FALSE) ELSE NoFinding]
    /\ versions = {} /\ judge = NoTrace
    /\ lost = [c \in Callers |-> NoLost] /\ person = NoRequest
    /\ dayCount = 0
    /\ crashes = IF part = "finding" THEN MaxCrashes ELSE 0
    /\ traces = IF part = "finding" THEN MaxTraces - 1 ELSE 0
    /\ acts = 0
    /\ asked = [p \in Paths |-> 0] /\ cut = {}
    /\ change = [c \in Changes |-> NoChange]
    /\ filters = {}
    /\ cfg \in [enabled : {part # "judge"}, resolver : IF part = "judge" THEN {FALSE} ELSE BOOLEAN]
    /\ pass = [q \in Passes |-> NoPass]
    /\ running = {} /\ paused = FALSE
    /\ pressed = IF part = "finding" THEN MaxPasses ELSE 0
    /\ decided = [i \in Changes \cup Paths |-> 0]
    /\ reopened = [p \in Paths |-> 0]

PassesStep == \E q \in Passes : PassNext(q)

\* The field is seen again, and people resolve its finding; its signature stays.
SeenAgain ==
    \/ \E v \in Versions : TakeTrace(v, Paths, TRUE)
    \/ \E p \in Paths : SeeAgain(p) \/ PassOver(p) \/ ExpireFinding(p)
    \/ LeaveForTomorrow \/ FinishTrace
    \/ HandleLostCandidate("consumer")
    \/ \E p \in Paths, who \in People, status \in {"fixed", "wontfix"} : BeginResolve(p, who, status)
    \/ Resolve
    \/ Crash

MCNext ==
    /\ \/ part = "judge" /\ FindingsStep
       \/ part = "change" /\ (ChangeStep \/ PassesStep \/ Beside(Crash))
       \/ part = "finding" /\ (PassesStep \/ Beside(SeenAgain))
       \/ Resume
       \/ part # "judge" /\ SetResolver
    /\ UNCHANGED part

MCSpec == MCInit /\ [][MCNext]_<<reviewVars, part>> /\ ReviewFairness
=============================================================================
