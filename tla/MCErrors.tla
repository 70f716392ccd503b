------------------------------- MODULE MCErrors -------------------------------
(***************************************************************************)
(* The review of errors, the search for a refused text and the observer, side  *)
(* by side: a run is one of them, and the others stay as they began.           *)
(***************************************************************************)
EXTENDS ErrorReview, Bisect, ShapeDrift

VARIABLE part

MCErrorVars == <<errorVars, bisectVars, driftVars, part>>

MCErrorInit ==
    /\ part \in {"review", "search", "drift"}
    /\ IF part = "review" THEN ErrorInit
       ELSE ErrorInit /\ group = [g \in Groups |-> [kind |-> "auth", day |-> 0, after |-> 0, fake |-> FALSE, whole |-> FALSE]]
                      /\ cause = [g \in Groups |-> "real"]
    /\ IF part = "search" THEN BisectInit
       ELSE /\ offences = {{1}} /\ offending = <<1, 1>>
            /\ search = [pc |-> "none", text |-> SentencesOf(1, 1), half |-> 1, replays |-> 0]
    /\ DriftInit

MCErrorNext ==
    /\ \/ part = "review" /\ ErrorNext /\ UNCHANGED <<bisectVars, driftVars>>
       \/ part = "search" /\ BisectNext /\ UNCHANGED <<errorVars, driftVars>>
       \/ part = "drift" /\ DriftNext /\ UNCHANGED <<errorVars, bisectVars>>
    /\ UNCHANGED part

\* The fairness of ErrorReview: nothing of it is enabled in the other parts but
\* the start of a pass, which is conditional on the part.
MCErrorFairness ==
    /\ WF_errorVars(part = "review" /\ BeginReview("loop")) /\ WF_errorVars(BackoffEnds)
    /\ \A q \in Reviewers : WF_errorVars(PassStep(q)) /\ WF_errorVars(InstallRules(q))
    /\ \A g \in Groups : SF_errorVars(AnswersFor(g))

MCErrorSpec == MCErrorInit /\ [][MCErrorNext]_MCErrorVars /\ MCErrorFairness
=============================================================================
