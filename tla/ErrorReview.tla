----------------------------- MODULE ErrorReview -----------------------------
(***************************************************************************)
(* The log of provider errors and its review (internal/httpapi: errlog.go,    *)
(* errreview.go, filters.go; internal/store: errors.go, filter.go).           *)
(*                                                                         *)
(* Every failed answer joins a group of alike errors.  A pass judges the      *)
(* groups that recur: it replays the newest request, asks a model for an      *)
(* action and checks the action by replay before it acts.  A background loop  *)
(* and a button start passes, a lock lets one run.  The rules that strip      *)
(* requests are stored, and compiled into a cache after each change, by the   *)
(* review and by people alike.                                                *)
(***************************************************************************)
EXTENDS Integers, Sequences, FiniteSets

CONSTANTS
    Groups,      \* groups of alike errors: a provider and a signature
    Rules,       \* blacklist rules; every request holds what each would strip
    MinErrors,   \* errors that make a group recur (3)
    MaxErrors,   \* bound: errors counted in a group
    Batch,       \* groups of one pass (5)
    MaxActs      \* bound: passes by the button, changes of rules by people, crashes

ASSUME ErrorAssumption ==
    /\ MinErrors \in Nat \ {0} /\ MaxErrors \in Nat /\ Batch \in Nat \ {0} /\ MaxActs \in Nat

Reviewers == {"loop", "button"}
Actors    == Reviewers \cup {"person"}    \* who changes rules
Kinds     == {"rejected", "429", "auth"}   \* what the status says
Causes    == Rules \cup {"passed", "real"} \* why a request is refused: a rule would help, nothing, or nothing does
NoGroup   == CHOOSE g \in Groups : TRUE      \* of a pass that judges nothing

VARIABLES
    group,     \* upstream_errors, by group
    verdict,   \* the newest error_verdicts row, by group
    cause,     \* why the provider refuses the group's request now
    rules,     \* filters: the enabled rules
    cache,     \* filterCache
    reload,    \* the list an actor read and has not installed yet
    off,       \* groups whose model or account is switched off
    review,    \* where each pass is
    reviewing, \* who holds the lock of a pass
    backoff,   \* the loop waits after a failure of the model
    steps,     \* acts of people and crashes so far
    blamed     \* history: the causes of a pass's group since its replay

errorVars == <<group, verdict, cause, rules, cache, reload, off, review, reviewing, backoff, steps, blamed>>

\* A verdict is a fix that was applied, a guess of the model that no replay
\* checked, or leaves the group alone.  turn: changes with each new row.
NoVerdict == [is |-> "none", old |-> FALSE, turn |-> FALSE]
NoReview  == [pc |-> "idle", todo |-> {}, judged |-> {}, group |-> NoGroup, replays |-> FALSE, owner |-> FALSE,
              rest |-> <<>>, is |-> "none"]
NoList    == [on |-> FALSE, rules |-> {}]

ErrorInit ==
    /\ group \in [Groups -> [kind : Kinds, day : {0}, after : {0}, fake : {FALSE}, whole : {FALSE}]]
    /\ verdict = [g \in Groups |-> NoVerdict]
    /\ cause \in [Groups -> Causes \ {"passed"}]
    /\ rules = {} /\ cache = {} /\ reload = [a \in Actors |-> NoList]
    /\ off = {}
    /\ review = [q \in Reviewers |-> NoReview]
    /\ reviewing = {} /\ backoff = FALSE /\ steps = 0
    /\ blamed = [q \in Reviewers |-> {}]

-----------------------------------------------------------------------------
(* The log.                                                                 *)

OneMore(n) == IF n < MaxErrors THEN n + 1 ELSE n

\* sendLogged: a request that is refused.  whole: it is kept as it was sent, or a
\* full one of its group is kept.
LogError(g, whole) ==
    /\ cause[g] # "passed" /\ cause[g] \notin cache /\ g \notin off
    /\ group' = [group EXCEPT ![g].day = OneMore(@), ![g].after = OneMore(@), ![g].whole = whole]
    /\ UNCHANGED <<verdict, cause, rules, cache, reload, off, review, reviewing, backoff, steps, blamed>>

\* classify429: answered in a blink while the account's quota is left.
Classify429(g) ==
    /\ group[g].kind = "429" /\ group[g].day > 0 /\ ~group[g].fake
    /\ group' = [group EXCEPT ![g].fake = TRUE]
    /\ UNCHANGED <<verdict, cause, rules, cache, reload, off, review, reviewing, backoff, steps, blamed>>

\* The errors of a group are a day old, and so is its verdict.
DayPasses(g) ==
    /\ group[g].day > 0 \/ (verdict[g].is # "none" /\ ~verdict[g].old)
    /\ group' = [group EXCEPT ![g].day = 0]
    /\ verdict' = [verdict EXCEPT ![g].old = verdict[g].is # "none"]
    /\ UNCHANGED <<cause, rules, cache, reload, off, review, reviewing, backoff, steps, blamed>>

\* The provider or the client changed: the request is accepted from now on.
CausePasses(g) ==
    /\ cause[g] # "passed"
    /\ cause' = [cause EXCEPT ![g] = "passed"]
    /\ blamed' = [q \in Reviewers |->
           IF review[q].pc # "idle" /\ review[q].group = g THEN blamed[q] \cup {"passed"} ELSE blamed[q]]
    /\ UNCHANGED <<group, verdict, rules, cache, reload, off, review, reviewing, backoff, steps>>

-----------------------------------------------------------------------------
(* The rules.                                                               *)

\* reloadFilters installs the rules it has read.
InstallRules(a) ==
    /\ reload[a].on
    /\ cache' = reload[a].rules
    /\ reload' = [reload EXCEPT ![a] = NoList]
    /\ UNCHANGED <<group, verdict, cause, rules, off, review, reviewing, backoff, steps, blamed>>

\* saveFilter and deleteFilter: the rules are read after the change is stored, with
\* no lock over the reading and the installing.
ChangeRules(changed) ==
    /\ ~reload["person"].on /\ steps < MaxActs
    /\ rules' = changed
    /\ reload' = [reload EXCEPT !["person"] = [on |-> TRUE, rules |-> changed]]
    /\ steps' = steps + 1
    /\ UNCHANGED <<group, verdict, cause, cache, off, review, reviewing, backoff, blamed>>

SaveFilter(r)   == r \notin rules /\ ChangeRules(rules \cup {r})
DeleteFilter(r) == r \in rules /\ ChangeRules(rules \ {r})

-----------------------------------------------------------------------------
(* A pass.                                                                  *)

Reviewable(g) == group[g].kind # "429" \/ group[g].fake

GuessCanBeChecked(g) == group[g].fake /\ group[g].whole /\ verdict[g].is = "guess"

\* pendingGroups: never judged, failing after a fix, or left alone for a day.
Due(g) ==
    /\ Reviewable(g) /\ group[g].day >= MinErrors
    /\ \/ verdict[g].is = "none"
       \/ /\ group[g].after >= MinErrors
          /\ verdict[g].is = "fix" \/ verdict[g].old \/ GuessCanBeChecked(g)

Pending == {g \in Groups : Due(g)}
Others == <<group, verdict, cause, rules, cache, reload, off>>

\* Slips of the code that the properties must notice.
NoLock(q) == review[q].pc = "idle"
StillHeld(q) == reviewing

Free(q) == review[q].pc = "idle" /\ reviewing = {}

BeginReview(q) ==
    /\ Free(q)
    /\ IF q = "loop" THEN ~backoff /\ UNCHANGED steps ELSE steps < MaxActs /\ steps' = steps + 1
    /\ \E todo \in SUBSET Pending :
         /\ Cardinality(todo) = IF Cardinality(Pending) <= Batch THEN Cardinality(Pending) ELSE Batch
         /\ review' = [review EXCEPT ![q] = [NoReview EXCEPT !.pc = "groups", !.todo = todo]]
    /\ reviewing' = {q}
    /\ UNCHANGED <<Others, backoff, blamed>>

Released(q) == reviewing \ {q}

EndReview(q) ==
    /\ review[q].pc = "groups" /\ review[q].todo = {}
    /\ review' = [review EXCEPT ![q] = NoReview]
    /\ reviewing' = Released(q)
    /\ backoff' = (backoff /\ q = "loop")
    /\ UNCHANGED <<Others, steps, blamed>>

\* A failure of the model ends the pass: the groups behind it wait.
ModelFailsToJudge(q) ==
    /\ review[q].pc = "ask"
    /\ review' = [review EXCEPT ![q] = NoReview]
    /\ reviewing' = Released(q)
    /\ backoff' = (backoff \/ q = "loop")
    /\ UNCHANGED <<Others, steps, blamed>>

BackoffEnds ==
    /\ backoff /\ backoff' = FALSE
    /\ UNCHANGED <<Others, review, reviewing, steps, blamed>>

Turns(q, pc) == review' = [review EXCEPT ![q].pc = pc]
Judges(q, verdictIs) ==
    review' = [review EXCEPT ![q] = [@ EXCEPT !.pc = "store", !.is = verdictIs, !.rest = <<>>, !.owner = FALSE]]
Left(q) == IF review[q].replays THEN "left" ELSE "guess"

\* A group another pass judged meanwhile is skipped.  An error of sign-in is not
\* replayed.  owner: a dashboard key sent the newest request, or the review itself.
TakeGroup(q, g, owner) ==
    /\ review[q].pc = "groups" /\ g \in review[q].todo
    /\ review' = [review EXCEPT ![q] =
           IF g \in review[q].judged THEN [review[q] EXCEPT !.todo = @ \ {g}]
           ELSE [review[q] EXCEPT !.pc = "filtered", !.todo = @ \ {g}, !.group = g, !.owner = owner,
                          !.replays = group[g].whole /\ group[g].kind # "auth"]]
    /\ blamed' = [blamed EXCEPT ![q] = {cause[g]}]
    /\ UNCHANGED <<Others, reviewing, backoff, steps>>

\* The request as the rules in place leave it: accepted, so it is fixed already.
ReplayFiltered(q) ==
    LET g == review[q].group IN
    /\ review[q].pc = "filtered"
    /\ IF ~review[q].replays THEN Turns(q, "ask")
       ELSE \/ cache # {} /\ cause[g] \in cache \cup {"passed"} /\ Judges(q, "left")
            \/ Turns(q, "original")
    /\ UNCHANGED <<Others, reviewing, backoff, steps, blamed>>

\* The request as it failed.  Accepted: a passing failure.  No answer or another
\* error: nothing can be checked.  Refused again: a false 429 is searched for the
\* text that is refused.
ReplayOriginal(q) ==
    LET g == review[q].group IN
    /\ review[q].pc = "original"
    /\ \/ cause[g] = "passed" /\ Judges(q, "left")
       \/ review' = [review EXCEPT ![q] = [@ EXCEPT !.pc = "ask", !.replays = FALSE]]
       \/ cause[g] # "passed" /\ Turns(q, "ask")
       \/ /\ cause[g] \in Rules /\ group[g].kind = "429"
          /\ review' = [review EXCEPT ![q] = [@ EXCEPT !.pc = "put", !.is = "found", !.rest = <<cause[g]>>]]
    /\ blamed' = [blamed EXCEPT ![q] = {cause[g]}]
    /\ UNCHANGED <<Others, reviewing, backoff, steps>>

\* The model's answer.  What a dashboard key sent can steer the model, so nothing
\* acts on it.
Candidates == {<<>>} \cup {<<r>> : r \in Rules} \cup {<<r, s>> : r \in Rules, s \in Rules}

Ask(q, action, candidates) ==
    /\ review[q].pc = "ask"
    /\ IF action = "ignore" \/ review[q].owner THEN Judges(q, Left(q))
       ELSE review' = [review EXCEPT ![q] = [@ EXCEPT !.rest = candidates, !.owner = FALSE, !.pc = IF action = "blacklist" THEN "try" ELSE "switch off"]]
    /\ UNCHANGED <<Others, reviewing, backoff, steps, blamed>>

\* A candidate is kept when the request is accepted without it, or, when nothing
\* can be replayed, when the provider's message names it.
Accepted(q, r) == cause[review[q].group] \in {r, "passed"}

TryCandidate(q) ==
    /\ review[q].pc = "try"
    /\ IF review[q].rest = <<>> THEN Judges(q, Left(q))
       ELSE \/ (review[q].replays => Accepted(q, Head(review[q].rest))) /\ Turns(q, "put")
            \/ review' = [review EXCEPT ![q].rest = Tail(@)]
    /\ UNCHANGED <<Others, reviewing, backoff, steps, blamed>>

\* A rule in place is not stored a second time, and the cache is not rebuilt for it.
PutFilter(q) ==
    LET r == Head(review[q].rest) IN
    /\ review[q].pc = "put"
    /\ \/ /\ r \in rules
          /\ Judges(q, "fix")
          /\ UNCHANGED <<rules, reload>>
       \/ /\ r \notin rules
          /\ rules' = rules \cup {r}
          /\ reload' = [reload EXCEPT ![q] = [on |-> TRUE, rules |-> rules \cup {r}]]
          /\ Turns(q, "reload")
       \/ /\ r \notin rules   \* it cannot be stored
          /\ IF review[q].is = "found" THEN Judges(q, "left")
             ELSE review' = [review EXCEPT ![q].pc = "try", ![q].rest = Tail(@)]
          /\ UNCHANGED <<rules, reload>>
    /\ UNCHANGED <<group, verdict, cause, cache, off, reviewing, backoff, steps, blamed>>

RulesReloaded(q) ==
    /\ review[q].pc = "reload" /\ ~reload[q].on
    /\ Judges(q, "fix")
    /\ UNCHANGED <<Others, reviewing, backoff, steps, blamed>>

\* tryDisableModel and tryDisableAccount: when the errors are evidence enough.
SwitchOff(q, evidence) ==
    /\ review[q].pc = "switch off"
    /\ off' = IF evidence THEN off \cup {review[q].group} ELSE off
    /\ Judges(q, IF evidence THEN "fix" ELSE Left(q))
    /\ UNCHANGED <<group, verdict, cause, rules, cache, reload, reviewing, backoff, steps, blamed>>

\* AddErrorVerdict: the errors so far are before it.
StoreVerdict(q) ==
    LET p == review[q] IN
    /\ p.pc = "store"
    /\ verdict' = [verdict EXCEPT ![p.group] = [is |-> p.is, old |-> FALSE, turn |-> ~verdict[p.group].turn]]
    /\ group' = [group EXCEPT ![p.group].after = 0]
    /\ review' = [x \in Reviewers |->
           IF x = q THEN [NoReview EXCEPT !.pc = "groups", !.todo = p.todo, !.judged = p.judged]
           ELSE [review[x] EXCEPT !.judged = IF review[x].pc = "idle" THEN @ ELSE @ \cup {p.group}]]
    /\ UNCHANGED <<cause, rules, cache, reload, off, reviewing, backoff, steps, blamed>>

\* A crash ends passes and changes between the store and the cache, which is read
\* anew.
CrashReview ==
    /\ steps < MaxActs /\ steps' = steps + 1
    /\ review' = [q \in Reviewers |-> NoReview]
    /\ reviewing' = {} /\ backoff' = FALSE
    /\ cache' = rules /\ reload' = [a \in Actors |-> NoList]
    /\ UNCHANGED <<group, verdict, cause, rules, off, blamed>>

PassStep(q) ==
    \/ \E g \in Groups, owner \in BOOLEAN : TakeGroup(q, g, owner)
    \/ EndReview(q) \/ ModelFailsToJudge(q)
    \/ ReplayFiltered(q) \/ ReplayOriginal(q)
    \/ \E action \in {"ignore", "blacklist", "disable"}, c \in Candidates : Ask(q, action, c)
    \/ TryCandidate(q) \/ PutFilter(q) \/ RulesReloaded(q)
    \/ \E evidence \in BOOLEAN : SwitchOff(q, evidence)
    \/ StoreVerdict(q)

Outside ==
    \/ \E g \in Groups : \/ \E whole \in BOOLEAN : LogError(g, whole)
                         \/ Classify429(g) \/ DayPasses(g) \/ CausePasses(g)
    \/ \E r \in Rules : SaveFilter(r) \/ DeleteFilter(r)
    \/ CrashReview

ErrorNext ==
    \/ \E q \in Reviewers : BeginReview(q) \/ PassStep(q)
    \/ \E a \in Actors : InstallRules(a)
    \/ BackoffEnds
    \/ Outside

\* The loop runs every minute and ends its pause; a pass goes on by itself; a
\* model that is asked about a group again and again answers.
AnswersFor(g) ==
    /\ review["loop"].group = g
    /\ \E action \in {"ignore", "blacklist", "disable"}, c \in Candidates : Ask("loop", action, c)

ErrorFairness ==
    /\ WF_errorVars(BeginReview("loop")) /\ WF_errorVars(BackoffEnds)
    /\ \A q \in Reviewers : WF_errorVars(PassStep(q)) /\ WF_errorVars(InstallRules(q))
    /\ \A g \in Groups : SF_errorVars(AnswersFor(g))

ErrorSpec == ErrorInit /\ [][ErrorNext]_errorVars /\ ErrorFairness

-----------------------------------------------------------------------------
\* Groups, verdicts and passes keep their types, one pass holds the lock, and no
\* more groups are judged than a batch holds.
ErrorTypeOK ==
    /\ \A g \in Groups : group[g].day \in 0 .. MaxErrors /\ group[g].after \in 0 .. MaxErrors
    /\ cause \in [Groups -> Causes] /\ rules \subseteq Rules /\ cache \subseteq Rules /\ off \subseteq Groups
    /\ reviewing = {q \in Reviewers : review[q].pc # "idle"}
    /\ Cardinality(reviewing) <= 1
    /\ \A q \in Reviewers : Cardinality(review[q].todo) <= Batch

\* A group is judged again only for errors that came after its last verdict, enough
\* to make it recur (errreview.go: pendingGroups), whoever starts passes, through
\* crashes and while errors arrive.
JudgedOnNews ==
    [][\A g \in Groups : verdict'[g].turn # verdict[g].turn /\ verdict[g].is # "none"
                         => group[g].after >= MinErrors]_errorVars

\* A rule the review installs after a replay is the cause of the group's errors,
\* unless the failure passed after the request was replayed as it was
\* (errreview.go: a rule is kept only if the request is accepted without it).
InstalledForCause ==
    [][\A q \in Reviewers : review[q].pc = "put" /\ review[q].replays /\ rules' # rules /\ steps' = steps
                            => blamed[q] \cap {Head(review[q].rest), "passed"} # {}]_errorVars

\* A group that is due is judged, or not due any more, in the end.
RecurringJudged == \A g \in Groups : Due(g) ~> ~Due(g)

\* The rules applied are the rules stored once every change has rebuilt them
\* (filters.go:12: the cache is rebuilt after every change).
\* The code does not keep this (README.md, Disagreements found).
CacheFollows == (\A a \in Actors : ~reload[a].on) => cache = rules
=============================================================================
