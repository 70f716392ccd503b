------------------------------ MODULE Reviews ------------------------------
(***************************************************************************)
(* The automatic review (internal/httpapi: driftreview.go,                   *)
(* contractreview.go, drift.go; internal/store: drift.go).                   *)
(*                                                                         *)
(* One pass judges the structure changes the observer recorded and then the  *)
(* findings of the contracts, while people acknowledge changes and resolve   *)
(* findings, and the consumer opens findings again.  A background loop and a *)
(* button both start passes; a lock lets one run.  A decision model names    *)
(* the cause; what it is unsure of goes to a resolver when one is set.       *)
(***************************************************************************)
EXTENDS ContractFindings

CONSTANTS
    Changes,     \* recorded changes of structure
    MaxPasses    \* bound: passes started by the button

\* Changes and findings have ids of their own.
ASSUME ReviewAssumption == Changes \cap Paths = {} /\ MaxPasses \in Nat

Passes == {"loop", "button"}
NoItem == CHOOSE i \in Changes \cup Paths : TRUE   \* of a pass that asks nothing

VARIABLES
    change,      \* shape_changes
    filters,     \* changes whose field is blacklisted
    cfg,         \* the review's settings
    pass,        \* where each pass is
    running,     \* who holds the lock of a pass
    paused,      \* the loop waits after a failure of a model
    pressed,     \* times the button started a pass
    decided,     \* history: verdicts stored for a decision of the model, per item
    reopened     \* history: times a finding opened again

reviewOnly == <<change, filters, cfg, pass, running, paused, pressed, decided>>
reviewVars == <<findingsVars, reviewOnly, reopened>>

NoChange == [here |-> FALSE, verdict |-> FALSE, acked |-> FALSE, resolved |-> FALSE, blockable |-> FALSE]
NoPass   == [pc |-> "idle", todo |-> {}, unsure |-> {}, resolver |-> FALSE,
             item |-> NoItem, fresh |-> FALSE, was |-> "none"]

ReviewInit ==
    /\ FindingsInit
    /\ change = [c \in Changes |-> NoChange]
    /\ filters = {}
    /\ cfg \in [enabled : BOOLEAN, resolver : BOOLEAN]
    /\ pass = [q \in Passes |-> NoPass]
    /\ running = {} /\ paused = FALSE /\ pressed = 0
    /\ decided = [i \in Changes \cup Paths |-> 0]
    /\ reopened = [p \in Paths |-> 0]

-----------------------------------------------------------------------------
(* What waits for a reviewer.                                               *)

UnreviewedChanges == {c \in Changes : change[c].here /\ ~change[c].verdict /\ ~change[c].acked}
UnresolvedChanges == {c \in Changes : change[c].verdict /\ ~change[c].acked /\ ~change[c].resolved}
UnreviewedFindings == {p \in Paths : finding[p].status = "open" /\ ~finding[p].reviewed}
UnresolvedFindings ==
    {p \in Paths : finding[p].status = "open" /\ finding[p].reviewed /\ ~finding[p].resolved}

\* SetShapeVerdict: an acknowledgement is set, never taken back.
SetVerdict(c, ack, resolved) ==
    change' = [change EXCEPT ![c] = [@ EXCEPT !.verdict = TRUE, !.resolved = resolved, !.acked = change[c].acked \/ ack]]

\* SetContractFindingReview does not look at the status.
SetReview(p, resolved) ==
    finding' = [finding EXCEPT ![p] = [@ EXCEPT !.reviewed = TRUE, !.resolved = resolved]]

UnchangedFindings == UNCHANGED findingsVars
OnlyFinding == UNCHANGED <<sig, versions, judge, lost, person, dayCount, findingsBounds, history>>

-----------------------------------------------------------------------------
(* A pass.                                                                  *)

\* Slips of the code that the properties must notice.
AlwaysFree(q) == pass[q].pc = "idle"
LockKept(q) == IF pass[q].pc = "resolver" THEN running ELSE running \ {q}

\* TryLock: the loser does not wait.
MayRun(q) == pass[q].pc = "idle" /\ running = {}

Begin(q) ==
    /\ MayRun(q) /\ cfg.enabled
    /\ IF q = "loop" THEN ~paused /\ UNCHANGED pressed
       ELSE pressed < MaxPasses /\ pressed' = pressed + 1
    /\ running' = {q}
    /\ pass' = [pass EXCEPT ![q] = [NoPass EXCEPT !.pc = "drift", !.resolver = cfg.resolver,
                    !.todo = UnreviewedChanges,
                    !.unsure = IF cfg.resolver THEN UnresolvedChanges ELSE {}]]
    /\ UNCHANGED <<change, filters, cfg, paused, decided, reopened>>
    /\ UnchangedFindings

\* The findings are read once the changes are done.
TurnToFindings(q) ==
    /\ pass[q].pc = "drift" /\ pass[q].todo = {} /\ pass[q].unsure = {}
    /\ pass' = [pass EXCEPT ![q] = [@ EXCEPT !.pc = "findings", !.todo = UnreviewedFindings,
                    !.unsure = IF pass[q].resolver THEN UnresolvedFindings ELSE {}]]
    /\ UNCHANGED <<change, filters, cfg, running, paused, pressed, decided, reopened>>
    /\ UnchangedFindings

Unlocked(q) == running \ {q}

EndPass(q) ==
    /\ pass[q].pc = "findings" /\ pass[q].todo = {} /\ pass[q].unsure = {}
    /\ pass' = [pass EXCEPT ![q] = NoPass]
    /\ running' = Unlocked(q)
    /\ paused' = (paused /\ q = "loop")
    /\ UNCHANGED <<change, filters, cfg, pressed, decided, reopened>>
    /\ UnchangedFindings

\* A pass stops at the first failure of a model; the loop then pauses.
ModelFails(q) ==
    /\ \/ pass[q].pc \in {"drift", "findings"} /\ pass[q].todo # {}
       \/ pass[q].pc = "resolver"
    /\ pass' = [pass EXCEPT ![q] = NoPass]
    /\ running' = Unlocked(q)
    /\ paused' = (paused \/ q = "loop")
    /\ UNCHANGED <<change, filters, cfg, pressed, decided, reopened>>
    /\ UnchangedFindings

Resume ==
    /\ paused /\ paused' = FALSE
    /\ UNCHANGED <<change, filters, cfg, pass, running, pressed, decided, reopened>>
    /\ UnchangedFindings

Deciding(q, i) == pass[q].pc \in {"drift", "findings"} /\ i \in pass[q].todo
Goes(q, pc, i, todo, unsure) ==
    pass' = [pass EXCEPT ![q] = [@ EXCEPT !.pc = pc, !.item = i, !.todo = todo, !.unsure = unsure,
                                          !.was = "none", !.fresh = i \in pass[q].todo]]
GoesOn(q, pc) == Goes(q, pc, NoItem, pass[q].todo, pass[q].unsure)
Stored(i) == decided' = [decided EXCEPT ![i] = @ + 1]

\* The decision model answered.  sure: a benign cause with the confidence to act
\* alone, and for a change no failed answer since.  What it is not sure of goes to
\* the resolver when there is one.
AskResolver(q, i) ==
    /\ pass[q].resolver
    /\ Goes(q, "resolver", i, pass[q].todo \ {i}, pass[q].unsure)
    /\ UNCHANGED <<change, decided>> /\ UnchangedFindings

DecideChange(q, c, sure) ==
    /\ c \in Changes /\ Deciding(q, c)
    /\ \/ ~sure /\ AskResolver(q, c)
       \/ /\ sure \/ ~pass[q].resolver
          /\ Goes(q, "drift", NoItem, pass[q].todo \ {c}, pass[q].unsure)
          /\ SetVerdict(c, sure, FALSE) /\ Stored(c) /\ UnchangedFindings
    /\ UNCHANGED <<filters, cfg, running, paused, pressed, reopened>>

DecideFinding(q, p, sure) ==
    /\ p \in Paths /\ Deciding(q, p)
    /\ \/ ~sure /\ AskResolver(q, p)
       \/ /\ sure \/ ~pass[q].resolver
          /\ Goes(q, IF sure THEN "close" ELSE "findings", IF sure THEN p ELSE NoItem, pass[q].todo \ {p}, pass[q].unsure)
          /\ SetReview(p, sure) /\ Stored(p) /\ UNCHANGED change /\ OnlyFinding
    /\ UNCHANGED <<filters, cfg, running, paused, pressed, reopened>>

Decide(q, i, sure) == DecideChange(q, i, sure) \/ DecideFinding(q, i, sure)

\* What was judged before a resolver was set goes to it without a new decision.
HandOver(q, i) ==
    /\ pass[q].pc \in {"drift", "findings"} /\ pass[q].todo = {} /\ i \in pass[q].unsure
    /\ Goes(q, "resolver", i, {}, pass[q].unsure \ {i})
    /\ UNCHANGED <<change, filters, cfg, running, paused, pressed, decided, reopened>>
    /\ UnchangedFindings

\* The resolver's action is final for a change: it is acknowledged either way,
\* and its field is blacklisted when the evidence holds.
ResolveChange(q, blacklist) ==
    LET c == pass[q].item IN
    /\ pass[q].pc = "resolver" /\ c \in Changes
    /\ SetVerdict(c, TRUE, TRUE)
    /\ filters' = IF blacklist /\ change[c].blockable THEN filters \cup {c} ELSE filters
    /\ GoesOn(q, "drift")
    /\ IF pass[q].fresh THEN Stored(c) ELSE UNCHANGED decided
    /\ UNCHANGED <<cfg, running, paused, pressed, reopened>>
    /\ UnchangedFindings

\* A finding is closed for a benign cause, and kept open otherwise.
ResolveFinding(q, close) ==
    LET p == pass[q].item IN
    /\ pass[q].pc = "resolver" /\ p \in Paths
    /\ SetReview(p, TRUE)
    /\ Goes(q, IF close THEN "close" ELSE "findings", p, pass[q].todo, pass[q].unsure)
    /\ IF pass[q].fresh THEN Stored(p) ELSE UNCHANGED decided
    /\ UNCHANGED <<change, filters, cfg, running, paused, pressed, reopened>>
    /\ OnlyFinding

\* closeFinding: ResolveFinding reads the status, whatever it is by now, and
\* writes on the condition that it still is.  A finding that is wontfix already
\* is a conflict, which ends the matter.
BeginClose(q) ==
    /\ pass[q].pc = "close"
    /\ pass' = [pass EXCEPT ![q] = [@ EXCEPT !.pc = "closing", !.was = finding[pass[q].item].status]]
    /\ UNCHANGED <<change, filters, cfg, running, paused, pressed, decided, reopened>>
    /\ UnchangedFindings

Close(q) ==
    LET p == pass[q].item IN
    /\ pass[q].pc = "closing"
    /\ finding' = IF pass[q].was # "wontfix" /\ finding[p].status = pass[q].was
                  THEN [finding EXCEPT ![p] = Changed(@, "wontfix", "review", Newest(versions))]
                  ELSE finding
    /\ GoesOn(q, "findings")
    /\ UNCHANGED <<change, filters, cfg, running, paused, pressed, decided, reopened>>
    /\ OnlyFinding

-----------------------------------------------------------------------------
(* People and the observer.                                                 *)

\* The observer records a change.  blockable: a new request field, not needed by
\* the request, with failed answers since, and not sent by a dashboard key.
AddShapeChange(c, blockable) ==
    /\ ~change[c].here
    /\ change' = [change EXCEPT ![c] = [NoChange EXCEPT !.here = TRUE, !.blockable = blockable]]
    /\ UNCHANGED <<filters, cfg, pass, running, paused, pressed, decided, reopened>>
    /\ UnchangedFindings

\* Changes are acknowledged one by one or all at once.
Acknowledge(cs) ==
    /\ cs # {} /\ \A c \in cs : change[c].here /\ ~change[c].acked
    /\ change' = [c \in Changes |-> [change[c] EXCEPT !.acked = @ \/ c \in cs]]
    /\ UNCHANGED <<filters, cfg, pass, running, paused, pressed, decided, reopened>>
    /\ UnchangedFindings

SetResolver ==
    /\ ~cfg.resolver
    /\ cfg' = [cfg EXCEPT !.resolver = TRUE]
    /\ UNCHANGED <<change, filters, pass, running, paused, pressed, decided, reopened>>
    /\ UnchangedFindings

\* The steps of the consumer and of people on findings; a crash ends the passes.
Opened(p) == finding[p].status \notin {"none", "open"} /\ finding'[p].status = "open"

Beside(A) ==
    /\ A
    /\ reopened' = [p \in Paths |-> reopened[p] + IF Opened(p) THEN 1 ELSE 0]
    /\ IF crashes' # crashes
       THEN /\ pass' = [q \in Passes |-> NoPass]
            /\ running' = {} /\ paused' = FALSE
            /\ UNCHANGED <<change, filters, cfg, pressed, decided>>
       ELSE UNCHANGED reviewOnly

FindingsStep == Beside(FindingsNext)

PassNext(q) ==
    \/ Begin(q) \/ TurnToFindings(q) \/ EndPass(q) \/ ModelFails(q)
    \/ \E i \in Changes \cup Paths : HandOver(q, i) \/ \E sure \in BOOLEAN : Decide(q, i, sure)
    \/ \E b \in BOOLEAN : ResolveChange(q, b) \/ ResolveFinding(q, b)
    \/ BeginClose(q) \/ Close(q)

ChangeStep ==
    \/ \E c \in Changes, b \in BOOLEAN : AddShapeChange(c, b)
    \/ \E cs \in SUBSET Changes : Acknowledge(cs)

ReviewNext ==
    \/ \E q \in Passes : PassNext(q)
    \/ ChangeStep
    \/ Resume
    \/ SetResolver
    \/ FindingsStep

\* The loop runs every minute and ends its pause; a pass goes on by itself; a
\* model that is asked about an item again and again answers.
Decided(i)  == \E sure \in BOOLEAN : Decide("loop", i, sure)
Resolved(i) == pass["loop"].item = i /\ \E b \in BOOLEAN : ResolveChange("loop", b) \/ ResolveFinding("loop", b)

ReviewFairness ==
    /\ WF_reviewVars(Begin("loop")) /\ WF_reviewVars(Resume)
    /\ \A q \in Passes : WF_reviewVars(PassNext(q) /\ pass[q].pc # "idle")
    /\ \A i \in Changes \cup Paths : SF_reviewVars(Decided(i)) /\ SF_reviewVars(Resolved(i))

ReviewSpec == ReviewInit /\ [][ReviewNext]_reviewVars /\ ReviewFairness

-----------------------------------------------------------------------------
\* An item is judged once, and a finding once more for each time it opened again,
\* whoever starts a pass and whatever people do meanwhile (driftreview.go: a second
\* pass would read the same rows and pay every model call again).
JudgedOnce ==
    \A i \in Changes \cup Paths :
        decided[i] <= 1 + (IF i \in Paths THEN reopened[i] ELSE 0)

\* Every recorded change is judged or acknowledged in the end, and every open
\* finding is judged or no longer open, through failures of the models, pauses
\* and crashes (contracts.md: the review judges each open finding).
EverythingJudged ==
    cfg.enabled =>
    /\ \A c \in Changes : change[c].here ~> (change[c].verdict \/ change[c].acked)
    /\ \A p \in Paths : (finding[p].status = "open") ~> (finding[p].reviewed \/ finding[p].status # "open")

\* A person who changed the status first wins (contractreview.go:149): the review
\* does not change what a person made of the finding.
PersonWins ==
    [][\A p \in Paths : finding[p].who \in People => finding'[p].who # "review"]_reviewVars
=============================================================================
