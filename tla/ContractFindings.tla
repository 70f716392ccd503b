-------------------------- MODULE ContractFindings --------------------------
(***************************************************************************)
(* What the contract consumer makes of the fields a converter lost           *)
(* (internal/contract: judge.go, findings.go, and their store).              *)
(*                                                                         *)
(* A field that a trusted trace shows as lost is a candidate.  Its signature *)
(* is judged by a model, under a lease, a daily limit and an error limit; a  *)
(* field judged lost opens a finding.  A person approves or rejects what the *)
(* model proposed, and resolves findings; the retention policy expires them. *)
(* The consumer is one goroutine; people's requests run beside it.           *)
(***************************************************************************)
EXTENDS Integers, Sequences, FiniteSets

CONSTANTS
    Paths,        \* fields: the key of a signature and of a finding
    MaxVersion,   \* bound: versions of the switcher are 1..MaxVersion, 0 is none
    MaxTraces,    \* bound: traces that show a loss
    DayLimit,     \* attempts of one key on one day (50)
    ErrorLimit,   \* errors of a signature before it is given up (3)
    MaxActs,      \* bound: reviews and resolutions by people
    MaxCrashes    \* bound: crashes of the process

ASSUME FindingsAssumption ==
    /\ Paths # {} /\ \A n \in {MaxVersion, MaxTraces, DayLimit, ErrorLimit, MaxActs, MaxCrashes} : n \in Nat
    /\ ErrorLimit > 0

Versions == 0 .. MaxVersion
People   == {"session", "key"}           \* an administrator, and a trusted key
Callers  == {"consumer", "person"}       \* who runs HandleLostCandidate
Answers  == {"lost", "renamed", "benign", "invalid"}  \* normalized and noise are benign
NoPath   == CHOOSE p \in Paths : TRUE      \* of a step that is idle

VARIABLES
    sig,       \* contract_signatures, by path
    finding,   \* contract_findings, by path, with who wrote its last history row
    versions,  \* switcher versions of the trusted traces stored
    judge,     \* the consumer's work on a trace
    lost,      \* a HandleLostCandidate under way, per caller
    person,    \* a person's request under way
    dayCount,  \* attempts of the day, in memory
    traces, acts, crashes,
    asked,     \* history: times each path was put to the model
    cut        \* history: paths whose review by a person a crash cut short

findingsBounds == <<traces, acts, crashes>>
history == <<asked, cut>>
findingsVars == <<sig, finding, versions, judge, lost, person, dayCount, findingsBounds, history>>

NoSig     == [state |-> "none", verdict |-> "none", errors |-> 0, leased |-> FALSE]
NoFinding == [status |-> "none", who |-> "none", fixedIn |-> 0, mapped |-> FALSE,
              reviewed |-> FALSE, resolved |-> FALSE]
NoTrace   == [pc |-> "idle", version |-> 0, shows |-> {}, todo |-> {}, ask |-> {}, hasModel |-> FALSE]
NoLost    == [path |-> NoPath, step |-> "idle", version |-> 0, mapped |-> FALSE, was |-> NoFinding]
NoRequest == [pc |-> "idle", path |-> NoPath, who |-> "session", status |-> "none",
              was |-> "none", fixedIn |-> 0]

FindingsInit ==
    /\ sig = [p \in Paths |-> NoSig]
    /\ finding = [p \in Paths |-> NoFinding]
    /\ versions = {}
    /\ judge = NoTrace
    /\ lost = [c \in Callers |-> NoLost]
    /\ person = NoRequest
    /\ dayCount = 0
    /\ traces = 0 /\ acts = 0 /\ crashes = 0
    /\ asked = [p \in Paths |-> 0] /\ cut = {}

Newest(vs) == IF vs = {} THEN 0 ELSE CHOOSE v \in vs : \A w \in vs : w <= v

-----------------------------------------------------------------------------
(* The status of a finding.                                                 *)

\* The conditional update: one transaction with its history row.  Opening again
\* makes the finding unjudged.
Changed(f, status, who, fixedIn) ==
    [f EXCEPT !.status = status, !.who = who,
              !.fixedIn = IF fixedIn # 0 THEN fixedIn ELSE @,
              !.reviewed = @ /\ status # "open",
              !.resolved = @ /\ status # "open"]

\* An insert, or an update of a finding that another caller inserted meanwhile:
\* then the history row names the id of the row that was not inserted.
Upserted(f, who, mapped) ==
    IF f.status = "none" THEN [NoFinding EXCEPT !.status = "open", !.who = who, !.mapped = mapped]
    ELSE [f EXCEPT !.mapped = mapped,
                   !.status = IF @ = "fixed" THEN "open" ELSE @,
                   !.reviewed = @ /\ f.status # "fixed"]

\* HandleLostCandidate reads the finding before it decides.  mapped: with the
\* path it was renamed to.
StartLost(c, p, version, mapped) ==
    lost' = [lost EXCEPT ![c] = [path |-> p, step |-> "decide", version |-> version,
                                 mapped |-> mapped, was |-> finding[p]]]

Newer(version, f) == version # 0 /\ f.fixedIn # 0 /\ version > f.fixedIn

\* A wontfix of an administrator or of the review never reopens.
ForGood(f) == f.who \in {"session", "review"}

Reopens(f, was, version) ==
    CASE was.status = "fixed"   -> f.status = "fixed" /\ Newer(version, was)
      [] was.status = "wontfix" -> f.status = "wontfix" /\ ~ForGood(f) /\ Newer(version, was)
      [] was.status = "expired" -> f.status = "expired"
      [] OTHER -> FALSE

HandleLostCandidate(c) ==
    LET l == lost[c] IN
    /\ l.step = "decide"
    /\ finding' = [finding EXCEPT ![l.path] =
           IF l.was.status = "none" THEN Upserted(@, c, l.mapped)
           ELSE IF Reopens(@, l.was, l.version) THEN Changed(@, "open", "system", 0)
           ELSE @]
    /\ lost' = [lost EXCEPT ![c] = NoLost]
    /\ UNCHANGED <<sig, versions, judge, person, dayCount, findingsBounds, history>>

-----------------------------------------------------------------------------
(* The consumer and the judge.                                              *)

\* Slip: a failed call leaves the signature pending for good.
KeepsPending(s) == [s EXCEPT !.errors = @ + 1, !.leased = FALSE]

\* What the diff leaves: approved noise and approved renames are no candidates.
Explained(p) ==
    \/ sig[p].state = "approved" /\ sig[p].verdict \in {"benign", "renamed"}
    \/ finding[p].mapped

\* Diff: the fields one half shows and the other lacks, but for the explained ones.
Candidates(shows) == {p \in shows : ~Explained(p)}

\* A trace of a trusted caller, taken from the queue.
TakeTrace(version, shows, hasModel) ==
    /\ judge.pc = "idle" /\ traces < MaxTraces
    /\ judge' = [pc |-> "look", version |-> version, shows |-> shows, ask |-> {},
                 todo |-> Candidates(shows), hasModel |-> hasModel]
    /\ versions' = IF version = 0 THEN versions ELSE versions \cup {version}
    /\ traces' = traces + 1
    /\ UNCHANGED <<sig, finding, lost, person, dayCount, acts, crashes, history>>

WithoutNext(p) == [judge EXCEPT !.todo = @ \ {p}]

\* A field that nobody has seen before, or whose lease ran out, is put to the model.
Lookable(p) == judge.pc = "look" /\ lost["consumer"].step = "idle" /\ p \in judge.todo

Lease(p) ==
    /\ Lookable(p)
    /\ sig[p].state = "none" \/ (sig[p].state = "pending" /\ ~sig[p].leased /\ judge.hasModel)
    /\ sig' = [sig EXCEPT ![p] = [@ EXCEPT !.state = "pending", !.leased = judge.hasModel]]
    /\ judge' = [WithoutNext(p) EXCEPT !.ask = IF judge.hasModel THEN @ \cup {p} ELSE @]
    /\ UNCHANGED <<finding, versions, lost, person, dayCount, findingsBounds, history>>

KnownLost(p) == sig[p].state = "approved" /\ sig[p].verdict = "lost"

\* Slip: a field that was judged before needs nothing more.
SeenBefore(p) ==
    /\ Lookable(p)
    /\ KnownLost(p)
    /\ judge' = WithoutNext(p)
    /\ UNCHANGED <<sig, finding, versions, lost, person, dayCount, findingsBounds, history>>

SeeAgain(p) ==
    /\ Lookable(p)
    /\ KnownLost(p)
    /\ StartLost("consumer", p, judge.version, FALSE)
    /\ judge' = WithoutNext(p)
    /\ UNCHANGED <<sig, finding, versions, person, dayCount, findingsBounds, history>>

PassOver(p) ==
    /\ Lookable(p)
    /\ ~KnownLost(p)
    /\ \/ sig[p].state \in {"approved", "proposed", "error"}
       \/ sig[p].state = "pending" /\ (sig[p].leased \/ ~judge.hasModel)
    /\ judge' = WithoutNext(p)
    /\ UNCHANGED <<sig, finding, versions, lost, person, dayCount, findingsBounds, history>>

\* The day's attempts are counted before the model is asked.
Ask ==
    /\ judge.pc = "look" /\ judge.todo = {} /\ lost["consumer"].step = "idle" /\ judge.ask # {}
    /\ dayCount < DayLimit
    /\ dayCount' = dayCount + 1
    /\ judge' = [judge EXCEPT !.pc = "asking"]
    /\ asked' = [p \in Paths |-> asked[p] + IF p \in judge.ask THEN 1 ELSE 0]
    /\ UNCHANGED <<sig, finding, versions, lost, person, findingsBounds, cut>>

\* A key past its limit leaves its leases to run out.
LeaveForTomorrow ==
    /\ judge.pc = "look" /\ judge.todo = {} /\ lost["consumer"].step = "idle"
    /\ judge.ask = {} \/ dayCount >= DayLimit
    /\ judge' = [judge EXCEPT !.pc = "learn", !.ask = {}]
    /\ UNCHANGED <<sig, finding, versions, lost, person, dayCount, findingsBounds, history>>

\* A signature that was forgotten meanwhile has no row to update.
WithError(s) ==
    IF s.state = "none" THEN s ELSE
    [s EXCEPT !.errors = @ + 1, !.leased = FALSE,
              !.state = IF s.errors + 1 >= ErrorLimit THEN "error" ELSE @]

\* Every field asked about counts an error when the call failed.
JudgeFails ==
    /\ judge.pc = "asking" /\ lost["consumer"].step = "idle" /\ judge.ask # {}
    /\ sig' = [p \in Paths |-> IF p \in judge.ask THEN WithError(sig[p]) ELSE sig[p]]
    /\ judge' = [judge EXCEPT !.pc = "learn", !.ask = {}]
    /\ UNCHANGED <<finding, versions, lost, person, dayCount, findingsBounds, history>>

\* The verdict is written whatever a person decided meanwhile.
Judged(s, answer) ==
    IF answer = "invalid" \/ s.state = "none" THEN WithError(s)
    ELSE [s EXCEPT !.verdict = answer, !.leased = FALSE,
                   !.state = IF answer = "lost" THEN "approved" ELSE "proposed"]

Settle(p, answer) ==
    /\ judge.pc \in {"asking", "settling"} /\ lost["consumer"].step = "idle" /\ p \in judge.ask
    /\ sig' = [sig EXCEPT ![p] = Judged(@, answer)]
    /\ judge' = [judge EXCEPT !.pc = "settling", !.ask = @ \ {p}]
    /\ IF answer = "lost" THEN StartLost("consumer", p, judge.version, FALSE) ELSE UNCHANGED lost
    /\ UNCHANGED <<finding, versions, person, dayCount, findingsBounds, history>>

\* The trace is done: learned from and marked.
FinishTrace ==
    /\ \/ judge.pc = "learn"
       \/ judge.pc = "settling" /\ judge.ask = {} /\ lost["consumer"].step = "idle"
    /\ judge' = NoTrace
    /\ UNCHANGED <<sig, finding, versions, lost, person, dayCount, findingsBounds, history>>

LeaseRunsOut(p) ==
    /\ sig[p].leased /\ p \notin judge.ask
    /\ sig' = [sig EXCEPT ![p].leased = FALSE]
    /\ UNCHANGED <<finding, versions, judge, lost, person, dayCount, findingsBounds, history>>

NewDay ==
    /\ dayCount > 0
    /\ dayCount' = 0
    /\ UNCHANGED <<sig, finding, versions, judge, lost, person, findingsBounds, history>>

-----------------------------------------------------------------------------
(* People, retention and crashes.                                           *)

\* An administrator approves or rejects a signature in any state.  A rejected
\* one is lost; what an approved rename and a rejection show goes to a finding.
ReviewSignature(p, action) ==
    /\ lost["person"].step = "idle" /\ sig[p].state # "none" /\ acts < MaxActs
    /\ sig' = [sig EXCEPT ![p] = [@ EXCEPT !.state = "approved",
                                           !.verdict = IF action = "reject" THEN "lost" ELSE sig[p].verdict]]
    /\ IF action = "reject" \/ sig[p].verdict = "renamed"
       THEN StartLost("person", p, 0, action = "approve") ELSE UNCHANGED lost
    /\ acts' = acts + 1
    /\ UNCHANGED <<finding, versions, judge, person, dayCount, traces, crashes, history>>

\* ResolveFinding reads the finding and the versions before it writes.
BeginResolve(p, who, status) ==
    /\ person.pc = "idle" /\ acts < MaxActs
    /\ finding[p].status \notin {"none", status}
    /\ person' = [pc |-> "resolve", path |-> p, who |-> who, status |-> status,
                  was |-> finding[p].status, fixedIn |-> Newest(versions)]
    /\ acts' = acts + 1
    /\ UNCHANGED <<sig, finding, versions, judge, lost, dayCount, traces, crashes, history>>

\* The status read is the condition of the write: a conflict is the caller's.
Resolve ==
    /\ person.pc = "resolve"
    /\ finding' = IF finding[person.path].status = person.was
                  THEN [finding EXCEPT ![person.path] =
                            Changed(@, person.status, person.who, person.fixedIn)]
                  ELSE finding
    /\ person' = NoRequest
    /\ UNCHANGED <<sig, versions, judge, lost, dayCount, findingsBounds, history>>

\* An open finding that no trace showed for 90 days.
ExpireFinding(p) ==
    /\ finding[p].status = "open"
    /\ finding' = [finding EXCEPT ![p] = [@ EXCEPT !.status = "expired", !.who = "system"]]
    /\ UNCHANGED <<sig, versions, judge, lost, person, dayCount, findingsBounds, history>>

\* Learned signatures of a key or of another reducer are forgotten on request; an
\* attempt about to be made is one of the forgotten signature.
ResetContract ==
    /\ acts < MaxActs /\ acts' = acts + 1
    /\ sig' = [p \in Paths |-> NoSig]
    /\ asked' = [p \in Paths |-> IF judge.pc = "look" /\ p \in judge.ask THEN -1 ELSE 0]
    /\ UNCHANGED <<finding, versions, judge, lost, person, dayCount, traces, crashes, cut>>

\* A trace that was being worked on is still queued and starts over; the
\* leases are reset.
Crash ==
    /\ crashes < MaxCrashes /\ crashes' = crashes + 1
    /\ judge' = IF judge.pc = "idle" THEN judge
                ELSE [judge EXCEPT !.pc = "look", !.ask = {}, !.todo = Candidates(judge.shows)]
    /\ sig' = [p \in Paths |-> [sig[p] EXCEPT !.leased = FALSE]]
    /\ lost' = [c \in Callers |-> NoLost]
    /\ person' = NoRequest
    /\ dayCount' = 0
    /\ cut' = IF lost["person"].step = "idle" THEN cut ELSE cut \cup {lost["person"].path}
    /\ UNCHANGED <<finding, versions, traces, acts, asked>>

ConsumerNext ==
    \/ \E v \in Versions, s \in SUBSET Paths \ {{}}, m \in BOOLEAN : TakeTrace(v, s, m)
    \/ \E p \in Paths : Lease(p) \/ SeeAgain(p) \/ PassOver(p) \/ \E a \in Answers : Settle(p, a)
    \/ Ask \/ LeaveForTomorrow \/ JudgeFails \/ FinishTrace

PeopleNext ==
    \/ \E p \in Paths : \E action \in {"approve", "reject"} : ReviewSignature(p, action)
    \/ \E p \in Paths, who \in People, status \in {"fixed", "wontfix"} : BeginResolve(p, who, status)
    \/ Resolve
    \/ ResetContract

FindingsNext ==
    \/ ConsumerNext
    \/ PeopleNext
    \/ \E c \in Callers : HandleLostCandidate(c)
    \/ \E p \in Paths : LeaseRunsOut(p) \/ ExpireFinding(p)
    \/ NewDay
    \/ Crash

FindingsSpec == FindingsInit /\ [][FindingsNext]_findingsVars

-----------------------------------------------------------------------------
\* The signatures, findings and the work on them keep their types.
FindingsTypeOK ==
    /\ \A p \in Paths :
         /\ sig[p].state \in {"none", "pending", "proposed", "approved", "error"}
         /\ sig[p].errors \in 0 .. ErrorLimit /\ sig[p].leased \in BOOLEAN
         /\ finding[p].status \in {"none", "open", "fixed", "wontfix", "expired"}
         /\ finding[p].fixedIn \in Versions
    /\ judge.pc \in {"idle", "look", "asking", "settling", "learn"}
    /\ judge.ask \subseteq judge.shows /\ judge.todo \subseteq judge.shows
    /\ dayCount \in 0 .. DayLimit

\* A field is put to the model at most three times (judge.go: an error counts, a
\* verdict ends it), but for a crash while the model was asked, over leases that
\* run out, days that begin, and people's decisions meanwhile.
AskedBounded == \A p \in Paths : asked[p] <= ErrorLimit + crashes

\* When a trace is finished, every field it showed that is known to be lost has a
\* finding, unless a person's request is about to open it or a crash cut it short
\* (judge.go: a verdict lost, given now or earlier, opens or updates one), through
\* crashes between the verdict and the finding.
LostHasFinding ==
    [][judge.pc # "idle" /\ judge'.pc = "idle" =>
         \A p \in judge.shows : KnownLost(p) =>
            \/ finding[p].status # "none"
            \/ p \in cut
            \/ lost["person"].step # "idle" /\ lost["person"].path = p]_findingsVars
=============================================================================
