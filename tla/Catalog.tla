------------------------------- MODULE Catalog -------------------------------
(***************************************************************************)
(* The model list of one provider and the policy of its models (internal/     *)
(* httpapi: v1.go, autotest.go, models.go; internal/store: models.go).        *)
(*                                                                         *)
(* One fetch at a time reads the provider's list, records it in the store and  *)
(* puts it in the cache; callers that find the cache stale wait for it.  A     *)
(* policy says which models are on: a run tests them, one run at a time, and   *)
(* a change of the policy stops it first.  A fetch that finds new models may   *)
(* start a run, and the run's tests read the list again.                      *)
(***************************************************************************)
EXTENDS Integers, FiniteSets

CONSTANTS
    Models,    \* models the provider may list
    Free,      \* those whose names say they are free
    Fallback,  \* the declared list of the provider, {} for none
    Askers,    \* those who ask for the list: requests, the dashboard, the loop
    Updaters,  \* those who change the policy
    Workers,   \* tests of a run under way at a time (3)
    MaxActs,   \* bound: changes by people, changes of the list, runs of the loop
    MaxFaults  \* bound: unread lists, failed writes, and ends of a run's or a test's time

ASSUME CatalogAssumption ==
    /\ Free \subseteq Models /\ Fallback \subseteq Models
    /\ Workers \in Nat \ {0} /\ MaxActs \in Nat /\ MaxFaults \in Nat

Fetches  == 1 .. 2
Policies == [auto : BOOLEAN, free : BOOLEAN]
Results  == {"works", "fails", "limited"}

VARIABLES
    listed,   \* what the provider lists now
    cached,   \* catalog.m
    fetches,  \* catalog.inflight: the fetches under way
    waiting,  \* callers that wait for a fetch
    rows,     \* provider_models: none, on or off
    policy,   \* the stored policy
    run,      \* autoState.running
    timers,   \* models whose test is due again, one set per timer
    update,   \* where each change of the policy is
    tester,   \* a person's test of one model
    acts,     \* acts so far
    faults,   \* faults so far
    byhand,   \* history: models a person switched or deleted
    pardoned, \* history: something went on under the old policy, or held up the new one's run
    fallen    \* history: what is cached is a declared list, or could not be recorded

catalogVars == <<listed, cached, fetches, waiting, rows, policy, run, timers, update, tester, acts, faults, byhand, pardoned, fallen>>

NoFetch  == [pc |-> "none", ids |-> {}, live |-> FALSE, ok |-> FALSE, known |-> {}, policy |-> [auto |-> FALSE, free |-> FALSE]]
NoTests  == [m \in Models |-> "no"]
NoRun    == [on |-> FALSE, cancelled |-> FALSE, stopped |-> FALSE, pc |-> "policy", full |-> FALSE, retest |-> FALSE, models |-> {},
             policy |-> [auto |-> FALSE, free |-> FALSE], tests |-> NoTests, limited |-> {}]
NoUpdate == [pc |-> "idle", policy |-> [auto |-> FALSE, free |-> FALSE]]
NoTester == [pc |-> "idle", models |-> {}, works |-> FALSE, policy |-> [auto |-> FALSE, free |-> FALSE]]

CatalogInit ==
    /\ listed \in SUBSET Models
    /\ cached = [ids |-> {}, ok |-> FALSE, fresh |-> FALSE]
    /\ fetches = [f \in Fetches |-> NoFetch] /\ waiting = {}
    /\ rows = [m \in Models |-> "none"]
    /\ policy \in Policies
    /\ run = NoRun /\ timers = {}
    /\ update = [u \in Updaters |-> NoUpdate] /\ tester = NoTester
    /\ acts = 0 /\ faults = 0 /\ byhand = {} /\ pardoned = FALSE /\ fallen = FALSE

-----------------------------------------------------------------------------

Stored == {m \in Models : rows[m] # "none"}
Wanted(p, m)   == p.free => m \in Free
StartsOn(p, m) == ~p.auto /\ Wanted(p, m)

\* SetModelsActive writes the rows that are there.
Switched(table, models, to) == [m \in Models |-> IF m \in models /\ table[m] # "none" THEN to ELSE table[m]]

Started(models, full, retest) ==
    [NoRun EXCEPT !.on = TRUE, !.models = models, !.full = full, !.retest = retest]

\* autoState.start: one run at a time.
StartIf(wish, models, full, retest) ==
    run' = IF wish /\ ~run.on THEN Started(models, full, retest) ELSE run

Acts == acts < MaxActs /\ acts' = acts + 1
Fault == faults < MaxFaults /\ faults' = faults + 1

-----------------------------------------------------------------------------
(* The list.                                                                *)

\* Slips of the code that the properties must notice.
LandsAfterRun == ~run.on
GoesOn == "save"
DropsList(old, ids) == FALSE

MayStart == \A f \in Fetches : fetches[f].pc = "none"

\* fetchCatalog: join the fetch under way or start one.
Joined ==
    LET free == {f \in Fetches : fetches[f].pc = "none"}
    IN  IF MayStart /\ free # {} THEN [fetches EXCEPT ![CHOOSE f \in free : TRUE].pc = "list"] ELSE fetches

\* catalogIDs when the cache is not fresh, refreshCatalog in any case.
AskList(c, refresh) ==
    /\ c \notin waiting /\ (refresh \/ ~cached.fresh)
    /\ waiting' = waiting \cup {c}
    /\ fetches' = Joined
    /\ UNCHANGED <<listed, cached, rows, policy, run, timers, update, tester, acts, faults, byhand, pardoned, fallen>>

\* A caller goes away: the fetch goes on.
StopAsking(c) ==
    /\ c \in waiting /\ waiting' = waiting \ {c}
    /\ UNCHANGED <<listed, cached, fetches, rows, policy, run, timers, update, tester, acts, faults, byhand, pardoned, fallen>>

\* fetchCatalogEntry: the provider's list, else the declared one; then the policy
\* and the models known so far are read.
ReadList(f, answered) ==
    LET ids == IF answered /\ listed # {} THEN listed ELSE Fallback IN
    /\ fetches[f].pc = "list"
    /\ IF answered THEN UNCHANGED faults ELSE Fault
    /\ fetches' = [fetches EXCEPT ![f] =
           [pc |-> IF ids = {} THEN "land" ELSE "sync", ids |-> ids, live |-> answered /\ listed # {},
            ok |-> answered \/ ids # {}, known |-> Stored, policy |-> policy]]
    /\ UNCHANGED <<listed, cached, waiting, rows, policy, run, timers, update, tester, acts, byhand, pardoned, fallen>>

\* SyncModels, in one transaction, and the run it may start.
Sync(f, written) ==
    LET e == fetches[f]
        added == e.ids \ e.known
    IN
    /\ e.pc = "sync"
    /\ IF written
       THEN /\ rows' = [m \in Models |->
                  IF m \in added /\ rows[m] = "none" THEN (IF StartsOn(e.policy, m) THEN "on" ELSE "off")
                  ELSE IF e.live /\ m \in e.known \ e.ids THEN "none"
                  ELSE rows[m]]
            /\ StartIf(e.policy.auto /\ added # {}, added, FALSE, FALSE)
            /\ UNCHANGED <<fallen, faults>>
       ELSE UNCHANGED <<rows, run>> /\ fallen' = TRUE /\ Fault
    /\ fetches' = [fetches EXCEPT ![f].pc = "land"]
    /\ UNCHANGED <<listed, cached, waiting, policy, timers, update, tester, acts, byhand, pardoned>>

\* A run that waits for the list, or whose test does, goes on.
Resumed(r) ==
    [r EXCEPT !.pc = IF @ = "list" THEN "rows" ELSE @,
              !.tests = [m \in Models |-> IF @[m] = "wait" THEN "call" ELSE @[m]]]

Keeps(old, ids) == ids = {} /\ old # {}
MayLand == TRUE

\* runCatalogFetch: a fetch that brings nothing keeps the list.
Lands(f) ==
    LET e == fetches[f] IN
    /\ e.pc = "land" /\ MayLand
    /\ cached' = IF Keeps(cached.ids, e.ids) THEN [cached EXCEPT !.ok = FALSE, !.fresh = TRUE]
                ELSE [ids |-> e.ids, ok |-> e.ok, fresh |-> TRUE]
    /\ fetches' = [fetches EXCEPT ![f] = NoFetch]
    /\ waiting' = {} /\ run' = Resumed(run)
    /\ UNCHANGED <<listed, rows, policy, timers, update, tester, acts, faults, byhand, pardoned, fallen>>

\* The list in the cache is ten minutes old, or one when it is not ok.
GoesStale ==
    /\ cached.fresh /\ cached' = [cached EXCEPT !.fresh = FALSE]
    /\ UNCHANGED <<listed, fetches, waiting, rows, policy, run, timers, update, tester, acts, faults, byhand, pardoned, fallen>>

-----------------------------------------------------------------------------
(* A run of tests: autoTestHeld.                                            *)

RunDone(u) == [x \in Updaters |-> IF u[x].pc = "wait" THEN [u[x] EXCEPT !.pc = "save"] ELSE u[x]]
Others == <<listed, cached, acts, byhand, pardoned, fallen, tester>>
Outside == <<Others, faults>>

RunReadsPolicy ==
    /\ run.on /\ run.pc = "policy"
    /\ run' = [run EXCEPT !.policy = policy, !.pc = IF run.full THEN "refresh" ELSE "split"]
    /\ UNCHANGED <<Outside, fetches, waiting, rows, policy, timers, update>>

RunRefreshes ==
    /\ run.on /\ run.pc = "refresh"
    /\ fetches' = Joined
    /\ run' = [run EXCEPT !.pc = "list"]
    /\ UNCHANGED <<Outside, waiting, rows, policy, timers, update>>

RunStopsWaiting ==
    /\ run.on /\ run.pc = "list" /\ run.cancelled
    /\ run' = [run EXCEPT !.pc = "rows"]
    /\ UNCHANGED <<Outside, fetches, waiting, rows, policy, timers, update>>

RunListsModels ==
    /\ run.on /\ run.pc = "rows"
    /\ run' = [run EXCEPT !.models = Stored, !.pc = "split"]
    /\ UNCHANGED <<Outside, fetches, waiting, rows, policy, timers, update>>

\* Models the policy does not want are switched off, the others are to be tested.
RunSplits ==
    LET wanted == {m \in run.models : Wanted(run.policy, m)} IN
    /\ run.on /\ run.pc = "split"
    /\ rows' = Switched(rows, run.models \ wanted, "off")
    /\ run' = [run EXCEPT !.pc = "test", !.tests = [m \in Models |-> IF m \in wanted THEN "todo" ELSE "no"]]
    /\ UNCHANGED <<Outside, fetches, waiting, policy, timers, update>>

UnderWay == {m \in Models : run.tests[m] \notin {"no", "todo"}}

\* A test is a request like any other: it reads the list first.
TestBegins(m) ==
    /\ run.on /\ run.pc = "test" /\ run.tests[m] = "todo" /\ ~run.cancelled
    /\ Cardinality(UnderWay) < Workers
    /\ fetches' = IF cached.fresh THEN fetches ELSE Joined
    /\ run' = [run EXCEPT !.tests[m] = IF cached.fresh THEN "call" ELSE "wait"]
    /\ UNCHANGED <<Outside, waiting, rows, policy, timers, update>>

\* The test's own time, or the run's, is up.
TestStopsWaiting(m) ==
    /\ run.tests[m] = "wait" /\ Fault
    /\ run' = [run EXCEPT !.tests[m] = "call"]
    /\ UNCHANGED <<Others, fetches, waiting, rows, policy, timers, update>>

\* The answer, after one more try when it is a 429.  A cancelled run writes nothing of it.
TestAnswers(m, result) ==
    /\ run.tests[m] = "call"
    /\ run' = [run EXCEPT !.tests[m] = IF run.cancelled THEN "no" ELSE result]
    /\ UNCHANGED <<Outside, fetches, waiting, rows, policy, timers, update>>

TestIsWritten(m) ==
    /\ run.tests[m] \in Results
    /\ rows' = Switched(rows, {m}, IF run.tests[m] = "works" THEN "on" ELSE "off")
    /\ run' = [run EXCEPT !.tests[m] = "no", !.limited = IF run.tests[m] = "limited" THEN @ \cup {m} ELSE @]
    /\ UNCHANGED <<Outside, fetches, waiting, policy, timers, update>>

Ends ==
    /\ run' = NoRun
    /\ update' = RunDone(update)

\* All tests are written, or the run was cancelled; the workers have stopped.
RunEnds ==
    /\ run.on /\ run.pc = "test" /\ UnderWay = {}
    /\ run.cancelled \/ \A m \in Models : run.tests[m] = "no"
    /\ timers' = IF run.limited # {} /\ ~run.retest /\ ~run.cancelled THEN timers \cup {run.limited} ELSE timers
    /\ IF run.full /\ ~run.cancelled
       THEN run' = [run EXCEPT !.pc = "save", !.policy = policy] /\ UNCHANGED update
       ELSE Ends
    /\ UNCHANGED <<Outside, fetches, waiting, rows, policy>>

\* The time of the run is written into the policy as it was read.
RunSaves ==
    /\ run.on /\ run.pc = "save"
    /\ policy' = run.policy
    /\ Ends
    /\ UNCHANGED <<Outside, fetches, waiting, rows, timers>>

\* The run's two hours are up.
RunTimesOut ==
    /\ run.on /\ ~run.cancelled /\ run' = [run EXCEPT !.cancelled = TRUE] /\ Fault
    /\ UNCHANGED <<Others, fetches, waiting, rows, policy, timers, update>>

\* autoTestLoop, when the last run is old enough.
LoopTests ==
    /\ policy.auto /\ ~run.on /\ Acts
    /\ StartIf(TRUE, {}, TRUE, FALSE)
    /\ UNCHANGED <<listed, cached, fetches, waiting, rows, policy, timers, update, tester, faults, byhand, pardoned, fallen>>

\* Models that were rate-limited are tested again, if no run is under way.
TimerFires(models) ==
    /\ models \in timers /\ timers' = timers \ {models}
    /\ StartIf(policy.auto, models, FALSE, TRUE)
    /\ UNCHANGED <<Outside, fetches, waiting, rows, policy, update>>

-----------------------------------------------------------------------------
(* The policy and the switches.                                             *)

UpdateBegins(u, p) ==
    /\ update[u].pc = "idle" /\ Acts
    /\ update' = [update EXCEPT ![u] = [pc |-> "stop", policy |-> p]]
    /\ UNCHANGED <<listed, cached, fetches, waiting, rows, policy, run, timers, tester, faults, byhand, pardoned, fallen>>

AfterStop == IF run.on THEN "wait" ELSE "save"

\* autoState.stop: cancel the run under way and wait for its end.
StopRun(u) ==
    /\ update[u].pc = "stop"
    /\ run' = [run EXCEPT !.cancelled = @ \/ run.on, !.stopped = run.on]
    /\ update' = [update EXCEPT ![u].pc = AfterStop]
    /\ UNCHANGED <<Outside, fetches, waiting, rows, policy, timers>>

\* Something began under the policy that is replaced, other than what was stopped.
Crossed(u) ==
    \/ run.on /\ ~run.stopped
    \/ \E f \in Fetches : fetches[f].pc = "sync"
    \/ tester.pc = "set"
    \/ \E x \in Updaters \ {u} : update[x].pc # "idle"

SavePolicy(u) ==
    /\ update[u].pc = "save"
    /\ policy' = update[u].policy
    /\ pardoned' = (pardoned \/ Crossed(u))
    /\ update' = [update EXCEPT ![u].pc = "apply"]
    /\ UNCHANGED <<listed, cached, fetches, waiting, rows, run, timers, tester, acts, faults, byhand, fallen>>

\* applyPolicy: a full run, or every switch by the policy.
ApplyPolicy(u) ==
    LET p == update[u].policy IN
    /\ update[u].pc = "apply"
    /\ StartIf(p.auto, {}, TRUE, FALSE)
    /\ rows' = IF p.auto THEN rows
               ELSE [m \in Models |-> IF rows[m] = "none" THEN "none" ELSE IF Wanted(p, m) THEN "on" ELSE "off"]
    /\ update' = [update EXCEPT ![u] = NoUpdate]
    /\ pardoned' = (pardoned \/ (p.auto /\ run.on))
    /\ UNCHANGED <<listed, cached, fetches, waiting, policy, timers, tester, acts, faults, byhand, fallen>>

\* testModel: the call, then the policy is read, then the switch is written.
PersonTests(m) ==
    /\ tester.pc = "idle" /\ Acts
    /\ tester' = [NoTester EXCEPT !.pc = "call", !.models = {m}]
    /\ UNCHANGED <<listed, cached, fetches, waiting, rows, policy, run, timers, update, faults, byhand, pardoned, fallen>>

PersonsAnswer(works) ==
    /\ tester.pc = "call"
    /\ tester' = [tester EXCEPT !.pc = "set", !.works = works, !.policy = policy]
    /\ UNCHANGED <<listed, cached, fetches, waiting, rows, policy, run, timers, update, acts, faults, byhand, pardoned, fallen>>

PersonsSwitch ==
    /\ tester.pc = "set"
    /\ rows' = IF ~tester.policy.auto THEN rows
               ELSE [m \in Models |-> IF m \in tester.models /\ rows[m] # "none"
                                      THEN IF tester.works /\ Wanted(tester.policy, m) THEN "on" ELSE "off"
                                      ELSE rows[m]]
    /\ tester' = NoTester
    /\ UNCHANGED <<listed, cached, fetches, waiting, policy, run, timers, update, acts, faults, byhand, pardoned, fallen>>

\* setModelsActive and deleteModels.
SwitchByHand(m, to) ==
    /\ rows[m] # "none" /\ rows[m] # to /\ Acts
    /\ rows' = [rows EXCEPT ![m] = to]
    /\ byhand' = byhand \cup {m}
    /\ UNCHANGED <<listed, cached, fetches, waiting, policy, run, timers, update, tester, faults, pardoned, fallen>>

ProviderLists(ids) ==
    /\ ids # listed /\ listed' = ids /\ Acts
    /\ UNCHANGED <<cached, fetches, waiting, rows, policy, run, timers, update, tester, faults, byhand, pardoned, fallen>>

FetchStep(f) ==
    \/ \E answered \in BOOLEAN : ReadList(f, answered)
    \/ \E written \in BOOLEAN : Sync(f, written)
    \/ Lands(f)

RunStep ==
    \/ RunReadsPolicy \/ RunRefreshes \/ RunStopsWaiting \/ RunListsModels \/ RunSplits
    \/ \E m \in Models : TestBegins(m) \/ TestIsWritten(m) \/ \E result \in Results : TestAnswers(m, result)
    \/ RunEnds \/ RunSaves

UpdateStep(u) == StopRun(u) \/ SavePolicy(u) \/ ApplyPolicy(u)

CatalogNext ==
    \/ \E c \in Askers : StopAsking(c) \/ \E refresh \in BOOLEAN : AskList(c, refresh)
    \/ \E f \in Fetches : FetchStep(f)
    \/ GoesStale
    \/ RunStep \/ RunTimesOut \/ LoopTests
    \/ \E m \in Models : TestStopsWaiting(m)
    \/ \E models \in timers : TimerFires(models)
    \/ \E u \in Updaters : UpdateStep(u) \/ \E p \in Policies : UpdateBegins(u, p)
    \/ \E m \in Models : PersonTests(m) \/ \E to \in {"none", "on", "off"} : SwitchByHand(m, to)
    \/ \E works \in BOOLEAN : PersonsAnswer(works)
    \/ PersonsSwitch
    \/ \E ids \in SUBSET Models : ProviderLists(ids)

\* A fetch is bounded by two minutes and a test by ninety seconds; the goroutines
\* of both, and of a change, go on by themselves.  Nobody's patience is assumed.
CatalogFairness ==
    /\ \A f \in Fetches : WF_catalogVars(FetchStep(f))
    /\ WF_catalogVars(RunStep)
    /\ \A u \in Updaters : WF_catalogVars(UpdateStep(u))

CatalogSpec == CatalogInit /\ [][CatalogNext]_catalogVars /\ CatalogFairness

-----------------------------------------------------------------------------
\* What is served is what is recorded, once no fetch is under way: each cached model
\* has its row, and after a live list no row is left of a model that is gone
\* (store/models.go: a kept row would look like a model the provider still offers),
\* but for what a person changed, a list that is a declared one and failed writes.
CatalogAgrees ==
    (\A f \in Fetches : fetches[f].pc = "none") /\ ~fallen =>
        /\ cached.ids \subseteq Stored \cup byhand
        /\ Fallback = {} => Stored \subseteq cached.ids \cup byhand

AtRest ==
    /\ ~run.on /\ tester.pc = "idle"
    /\ \A f \in Fetches : fetches[f].pc = "none"
    /\ \A u \in Updaters : update[u].pc = "idle"

\* At rest no model is on that the policy in force does not want, unless a person
\* switched it, something else went on under the old policy while the new one was
\* saved, or another run held up the new policy's: a run that a change stopped never
\* undoes it (autotest.go: cancel waits until the run has stopped, so the next switch
\* change is not undone by it).
PolicyKept ==
    AtRest /\ ~pardoned => \A m \in Models \ byhand : rows[m] = "on" => Wanted(policy, m)

\* The same without the excuse: a run under the old policy would undo the new one
\* (autotest.go:304), whenever it began.
\* The code does not keep this (README.md, Disagreements found).
PolicyInForce ==
    AtRest => \A m \in Models \ byhand : rows[m] = "on" => Wanted(policy, m)

\* Who waits for the list gets it, and a change of the policy goes on, although a
\* fetch starts runs, a run waits for a fetch and a change waits for a run.
NobodyStuck ==
    /\ \A c \in Askers : c \in waiting ~> c \notin waiting
    /\ \A u \in Updaters : update[u].pc = "wait" ~> update[u].pc # "wait"
=============================================================================
