---------------------------- MODULE ReviewProofs ----------------------------
(***************************************************************************)
(* Theorems about the judge of the contracts and the automatic review, for   *)
(* any fields, changes, versions and limits: a field is put to the model a   *)
(* bounded number of times, every field known to be lost gets a finding, and *)
(* an item is judged once.                                                   *)
(***************************************************************************)
EXTENDS Reviews, WellFoundedInduction, TLAPS

SigSet == [state : {"none", "pending", "proposed", "approved", "error"},
           verdict : {"none", "lost", "renamed", "benign"}, errors : Nat, leased : BOOLEAN]
Statuses   == {"none", "open", "fixed", "wontfix", "expired"}
Writers    == {"none", "session", "key", "consumer", "person", "system", "review"}
FindingSet == [status : Statuses, who : Writers, fixedIn : Versions, mapped : BOOLEAN,
               reviewed : BOOLEAN, resolved : BOOLEAN]
JudgeSet   == [pc : {"idle", "look", "asking", "settling", "learn"}, version : Versions,
               shows : SUBSET Paths, todo : SUBSET Paths, ask : SUBSET Paths, hasModel : BOOLEAN]
LostSet    == [path : Paths, step : {"idle", "decide"}, version : Versions, mapped : BOOLEAN,
               was : FindingSet]
RequestSet == [pc : {"idle", "resolve"}, path : Paths, who : People, was : Statuses,
               status : {"none", "fixed", "wontfix"}, fixedIn : Versions]

FindingsTypes ==
    /\ sig \in [Paths -> SigSet]
    /\ finding \in [Paths -> FindingSet]
    /\ versions \subseteq Versions
    /\ judge \in JudgeSet
    /\ lost \in [Callers -> LostSet]
    /\ person \in RequestSet
    /\ dayCount \in Nat /\ dayCount <= DayLimit
    /\ traces \in Nat /\ acts \in Nat /\ crashes \in Nat
    /\ asked \in [Paths -> Int] /\ cut \subseteq Paths

\* What the judge works on: a field is asked about once per trace, while it looks
\* for fields and while the model answers, and only a field with errors left.
JudgeOK ==
    /\ judge.ask \subseteq judge.shows /\ judge.todo \subseteq judge.shows
    /\ judge.ask \cap judge.todo = {}
    /\ judge.pc \in {"idle", "learn"} => judge.ask = {}
    /\ judge.pc # "look" => judge.todo = {}
    /\ \A p \in judge.ask : sig[p].errors < ErrorLimit

ToBeAsked(p) == judge.pc = "look" /\ p \in judge.ask
BeingAsked(p) == judge.pc # "look" /\ p \in judge.ask

\* Every attempt is accounted for by an error of the signature, by a crash, by the
\* call under way, or by the verdict that ended them.
AttemptsOK(p) ==
    /\ sig[p].errors <= ErrorLimit
    /\ sig[p].state = "none" =>
         sig[p].errors = 0 /\ asked[p] + (IF ToBeAsked(p) THEN 1 ELSE 0) <= crashes
    /\ sig[p].state = "pending" =>
         sig[p].errors < ErrorLimit
         /\ asked[p] <= sig[p].errors + crashes + (IF BeingAsked(p) THEN 1 ELSE 0)
    /\ sig[p].state \in {"proposed", "approved", "error"} =>
         asked[p] + (IF ToBeAsked(p) THEN 1 ELSE 0) <= ErrorLimit + crashes

\* A finding that was read is still there.
FindingOK(p) == finding[p].status = "none" => ~finding[p].mapped /\ ~finding[p].reviewed
ReadOK(c) ==
    lost[c].step # "idle" /\ lost[c].was.status # "none" => finding[lost[c].path].status # "none"
RequestOK ==
    person.pc # "idle" => /\ person.status \in {"fixed", "wontfix"}
                          /\ finding[person.path].status # "none"

Recording(c, p) == lost[c].step # "idle" /\ lost[c].path = p

\* A field with the verdict lost has its finding, or it is on its way: a caller is
\* about to record it, or the judge looks at it again after a crash.
LostOK(p) ==
    /\ sig[p].state = "none" => sig[p].verdict = "none"
    /\ sig[p].verdict = "lost" =>
         \/ finding[p].status # "none"
         \/ p \in cut
         \/ \E c \in Callers : Recording(c, p)
         \/ p \in judge.todo /\ sig[p].state = "approved"

\* The consumer records a field of its trace, and asks nothing meanwhile.
ConsumerOK ==
    lost["consumer"].step # "idle" =>
        /\ judge.pc \in {"look", "settling"}
        /\ lost["consumer"].path \in judge.shows \ (judge.todo \cup judge.ask)
        /\ sig[lost["consumer"].path].state \in {"none", "approved"}
        /\ sig[lost["consumer"].path].state = "approved" => sig[lost["consumer"].path].verdict = "lost"

FindingsInv ==
    /\ FindingsTypes
    /\ JudgeOK
    /\ \A p \in Paths : AttemptsOK(p) /\ FindingOK(p) /\ LostOK(p)
    /\ \A c \in Callers : ReadOK(c)
    /\ RequestOK
    /\ ConsumerOK

-----------------------------------------------------------------------------
(* The constants and the operators on signatures and findings.              *)

LEMMA Constants ==
    /\ MaxVersion \in Nat /\ MaxTraces \in Nat /\ DayLimit \in Nat /\ ErrorLimit \in Nat
    /\ MaxActs \in Nat /\ MaxCrashes \in Nat /\ ErrorLimit > 0
    /\ NoPath \in Paths /\ NoItem \in Changes \cup Paths
BY FindingsAssumption DEF FindingsAssumption, NoPath, NoItem

LEMMA NewestVersion == ASSUME NEW vs, vs \subseteq Versions PROVE Newest(vs) \in Versions
<1>1. CASE vs = {}
  BY <1>1, Constants DEF Newest, Versions
<1>2. CASE vs # {}
  <2> DEFINE depths == {MaxVersion - v : v \in vs}
  <2>0. MaxVersion \in Nat /\ \A v \in vs : v \in Int /\ 0 <= v /\ v <= MaxVersion
    <3>1. \A v \in Versions : v \in Int /\ 0 <= v /\ v <= MaxVersion
      BY Constants DEF Versions
    <3> QED  BY <3>1, Constants
  <2>1. depths \subseteq Nat /\ depths # {}
    <3>1. \A v \in vs : MaxVersion - v \in Nat  BY <2>0
    <3> QED  BY <3>1, <1>2
  <2>2. IsWellFoundedOn(OpToRel(<, Nat), Nat)
    BY NatLessThanWellFounded
  <2>3. PICK d \in depths : \A e \in depths : ~ (<<e, d>> \in OpToRel(<, Nat))
    <3> HIDE DEF depths
    <3> QED  BY <2>1, <2>2, WFMin
  <2>4. \A e \in depths : ~ (e < d)
    BY <2>1, <2>3 DEF OpToRel
  <2>5. PICK v \in vs : d = MaxVersion - v
    OBVIOUS
  <2>6. \A w \in vs : w <= v
    <3> TAKE w \in vs
    <3>1. MaxVersion - w \in depths  OBVIOUS
    <3>2. ~ (MaxVersion - w < MaxVersion - v)  BY <2>4, <2>5, <3>1
    <3>3. w \in Int /\ v \in Int /\ MaxVersion \in Int  BY <2>0
    <3> HIDE DEF depths
    <3> QED  BY <3>2, <3>3
  <2>7. Newest(vs) \in vs
    BY <1>2, <2>6 DEF Newest
  <2> QED  BY <2>7
<1> QED  BY <1>1, <1>2

LEMMA ChangedType ==
    ASSUME NEW f \in FindingSet, NEW s \in Statuses, NEW w \in Writers, NEW v \in Versions
    PROVE  /\ Changed(f, s, w, v) \in FindingSet
           /\ Changed(f, s, w, v).status = s
           /\ Changed(f, s, w, v).mapped = f.mapped
           /\ Changed(f, s, w, v).reviewed = (f.reviewed /\ s # "open")
BY DEF FindingSet, Changed

LEMMA UpsertedType ==
    ASSUME NEW f \in FindingSet, NEW w \in Writers, NEW m \in BOOLEAN
    PROVE  /\ Upserted(f, w, m) \in FindingSet
           /\ Upserted(f, w, m).status # "none"
           /\ f.status = "fixed" => Upserted(f, w, m).status = "open"
           /\ f.status \notin {"none", "fixed"} =>
                Upserted(f, w, m).status = f.status /\ Upserted(f, w, m).reviewed = f.reviewed
           /\ f.status \in {"none", "fixed"} => Upserted(f, w, m).reviewed = FALSE
<1>1. NoFinding \in FindingSet
  BY Constants DEF NoFinding, FindingSet, Statuses, Writers, Versions
<1>2. CASE f.status = "none"
  BY <1>1, <1>2 DEF FindingSet, Upserted, Statuses, Writers, NoFinding
<1>3. CASE f.status # "none"
  BY <1>3 DEF FindingSet, Upserted, Statuses
<1> QED  BY <1>2, <1>3

LEMMA WithErrorType ==
    ASSUME NEW s \in SigSet, s.state = "none" => s.verdict = "none" /\ s.errors = 0
    PROVE  /\ WithError(s) \in SigSet
           /\ WithError(s).verdict = s.verdict
           /\ s.state = "none" => WithError(s) = s
           /\ s.state # "none" =>
                /\ WithError(s).errors = s.errors + 1
                /\ WithError(s).state = IF s.errors + 1 >= ErrorLimit THEN "error" ELSE s.state
<1>1. CASE s.state = "none"
  BY <1>1 DEF WithError
<1>2. CASE s.state # "none"
  <2>1. s.errors + 1 \in Nat
    BY DEF SigSet
  <2> QED  BY <1>2, <2>1 DEF WithError, SigSet
<1> QED  BY <1>1, <1>2

LEMMA JudgedType ==
    ASSUME NEW s \in SigSet, s.state = "none" => s.verdict = "none" /\ s.errors = 0,
           NEW a \in Answers
    PROVE  /\ Judged(s, a) \in SigSet
           /\ a = "invalid" \/ s.state = "none" => Judged(s, a) = WithError(s)
           /\ a # "invalid" /\ s.state # "none" =>
                /\ Judged(s, a).errors = s.errors
                /\ Judged(s, a).verdict = a
                /\ Judged(s, a).state = IF a = "lost" THEN "approved" ELSE "proposed"
BY WithErrorType DEF Judged, SigSet, Answers

-----------------------------------------------------------------------------
(* The types.                                                               *)

LEMMA StartLostType ==
    ASSUME FindingsTypes, NEW c \in Callers, NEW p \in Paths, NEW v \in Versions, NEW m \in BOOLEAN,
           StartLost(c, p, v, m)
    PROVE  lost' \in [Callers -> LostSet]
<1>1. finding[p] \in FindingSet
  BY DEF FindingsTypes
<1>2. [path |-> p, step |-> "decide", version |-> v, mapped |-> m, was |-> finding[p]] \in LostSet
  BY <1>1 DEF LostSet
<1> QED  BY <1>2 DEF StartLost, FindingsTypes

LEMMA BlankTypes ==
    /\ NoSig \in SigSet /\ NoFinding \in FindingSet /\ NoTrace \in JudgeSet
    /\ NoLost \in LostSet /\ NoRequest \in RequestSet
<1>1. 0 \in Versions
  BY Constants DEF Versions
<1>2. NoFinding \in FindingSet
  BY <1>1 DEF NoFinding, FindingSet, Statuses, Writers
<1>3. NoSig \in SigSet
  BY DEF NoSig, SigSet
<1>4. NoTrace \in JudgeSet
  BY <1>1 DEF NoTrace, JudgeSet
<1>5. NoLost \in LostSet
  BY <1>1, <1>2, Constants DEF NoLost, LostSet
<1>6. NoRequest \in RequestSet
  BY <1>1, Constants DEF NoRequest, RequestSet, People, Statuses
<1> QED  BY <1>2, <1>3, <1>4, <1>5, <1>6

LEMMA WithNextType ==
    ASSUME judge \in JudgeSet, NEW p \in Paths
    PROVE  WithoutNext(p) \in JudgeSet
BY DEF WithoutNext, JudgeSet

LEMMA ConsumerTypes ==
    ASSUME FindingsTypes, \A p \in Paths : AttemptsOK(p) /\ LostOK(p), ConsumerNext
    PROVE  FindingsTypes'
<1>a. /\ sig \in [Paths -> SigSet] /\ finding \in [Paths -> FindingSet] /\ versions \subseteq Versions
      /\ judge \in JudgeSet /\ lost \in [Callers -> LostSet] /\ person \in RequestSet
      /\ dayCount \in Nat /\ dayCount <= DayLimit
      /\ traces \in Nat /\ acts \in Nat /\ crashes \in Nat /\ asked \in [Paths -> Int] /\ cut \subseteq Paths
  BY DEF FindingsTypes
<1>b. "consumer" \in Callers /\ 0 \in Versions
  BY Constants DEF Callers, Versions
<1>c. \A p \in Paths : sig[p].state = "none" => sig[p].verdict = "none" /\ sig[p].errors = 0
  BY DEF AttemptsOK, LostOK
<1>1. ASSUME NEW v \in Versions, NEW s \in SUBSET Paths, NEW m \in BOOLEAN, TakeTrace(v, s, m)
      PROVE  FindingsTypes'
  <2>1. judge' \in JudgeSet
    BY <1>1 DEF TakeTrace, JudgeSet, Candidates
  <2> QED  BY <1>1, <2>1, <1>a DEF FindingsTypes, TakeTrace, history
<1>2. ASSUME NEW p \in Paths, Lease(p)
      PROVE  FindingsTypes'
  <2>1. sig[p] \in SigSet /\ judge.hasModel \in BOOLEAN
    BY <1>a DEF JudgeSet
  <2>2. [sig[p] EXCEPT !.state = "pending", !.leased = judge.hasModel] \in SigSet
    BY <2>1 DEF SigSet
  <2>3. sig' \in [Paths -> SigSet]
    BY <1>2, <2>2, <1>a DEF Lease
  <2>4. judge' \in JudgeSet
    BY <1>2, <1>a DEF Lease, WithoutNext, JudgeSet
  <2> QED  BY <1>2, <2>3, <2>4, <1>a DEF FindingsTypes, Lease, history, findingsBounds
<1>3. ASSUME NEW p \in Paths, SeeAgain(p)
      PROVE  FindingsTypes'
  <2>1. judge' \in JudgeSet
    BY <1>3, <1>a, WithNextType DEF SeeAgain
  <2>2. judge.version \in Versions
    BY <1>a DEF JudgeSet
  <2>3. lost' \in [Callers -> LostSet]
    BY <1>3, <2>2, <1>b, StartLostType DEF SeeAgain
  <2> QED  BY <1>3, <2>1, <2>3, <1>a DEF FindingsTypes, SeeAgain, history, findingsBounds
<1>4. ASSUME NEW p \in Paths, PassOver(p)
      PROVE  FindingsTypes'
  <2>1. judge' \in JudgeSet
    BY <1>4, <1>a, WithNextType DEF PassOver
  <2> QED  BY <1>4, <2>1, <1>a DEF FindingsTypes, PassOver, history, findingsBounds
<1>5. ASSUME NEW p \in Paths, NEW a \in Answers, Settle(p, a)
      PROVE  FindingsTypes'
  <2>1. judge' \in JudgeSet
    BY <1>5, <1>a DEF Settle, JudgeSet
  <2>2. Judged(sig[p], a) \in SigSet
    BY <1>a, <1>c, JudgedType
  <2>3. sig' \in [Paths -> SigSet]
    BY <1>5, <2>2, <1>a DEF Settle
  <2>4. judge.version \in Versions
    BY <1>a DEF JudgeSet
  <2>5. lost' \in [Callers -> LostSet]
    BY <1>5, <2>4, <1>a, <1>b, StartLostType DEF Settle
  <2> QED  BY <1>5, <2>1, <2>3, <2>5, <1>a DEF FindingsTypes, Settle, history, findingsBounds
<1>6. CASE Ask
  <2>1. judge' \in JudgeSet
    BY <1>6, <1>a DEF Ask, JudgeSet
  <2>2. asked' \in [Paths -> Int]
    BY <1>6, <1>a DEF Ask
  <2>3. dayCount' \in Nat /\ dayCount' <= DayLimit
    BY <1>6, <1>a, Constants DEF Ask
  <2> QED  BY <1>6, <2>1, <2>2, <2>3, <1>a DEF FindingsTypes, Ask, findingsBounds
<1>7. CASE LeaveForTomorrow
  <2>1. judge' \in JudgeSet
    BY <1>7, <1>a DEF LeaveForTomorrow, JudgeSet
  <2> QED  BY <1>7, <2>1, <1>a DEF FindingsTypes, LeaveForTomorrow, history, findingsBounds
<1>8. CASE JudgeFails
  <2>1. judge' \in JudgeSet
    BY <1>8, <1>a DEF JudgeFails, JudgeSet
  <2>2. \A p \in Paths : WithError(sig[p]) \in SigSet
    BY <1>a, <1>c, WithErrorType
  <2>3. sig' \in [Paths -> SigSet]
    BY <1>8, <2>2, <1>a DEF JudgeFails
  <2> QED  BY <1>8, <2>1, <2>3, <1>a DEF FindingsTypes, JudgeFails, history, findingsBounds
<1>9. CASE FinishTrace
  <2>1. judge' \in JudgeSet
    BY <1>9, BlankTypes DEF FinishTrace
  <2> QED  BY <1>9, <2>1, <1>a DEF FindingsTypes, FinishTrace, history, findingsBounds
<1> QED  BY <1>1, <1>2, <1>3, <1>4, <1>5, <1>6, <1>7, <1>8, <1>9 DEF ConsumerNext

LEMMA PeopleTypes ==
    ASSUME FindingsTypes, PeopleNext
    PROVE  FindingsTypes'
<1>a. /\ sig \in [Paths -> SigSet] /\ finding \in [Paths -> FindingSet] /\ versions \subseteq Versions
      /\ judge \in JudgeSet /\ lost \in [Callers -> LostSet] /\ person \in RequestSet
      /\ dayCount \in Nat /\ dayCount <= DayLimit
      /\ traces \in Nat /\ acts \in Nat /\ crashes \in Nat /\ asked \in [Paths -> Int] /\ cut \subseteq Paths
  BY DEF FindingsTypes
<1>b. "person" \in Callers /\ 0 \in Versions
  BY Constants DEF Callers, Versions
<1>1. ASSUME NEW p \in Paths, NEW action \in {"approve", "reject"}, ReviewSignature(p, action)
      PROVE  FindingsTypes'
  <2>1. sig[p] \in SigSet
    BY <1>a
  <2>2. [sig[p] EXCEPT !.state = "approved",
                       !.verdict = IF action = "reject" THEN "lost" ELSE sig[p].verdict] \in SigSet
    BY <2>1 DEF SigSet
  <2>3. sig' \in [Paths -> SigSet]
    BY <1>1, <2>2, <1>a DEF ReviewSignature
  <2>4. lost' \in [Callers -> LostSet]
    <3>1. (action = "approve") \in BOOLEAN  OBVIOUS
    <3>2. CASE StartLost("person", p, 0, action = "approve")
      BY <3>1, <3>2, <1>b, StartLostType
    <3>3. CASE UNCHANGED lost
      BY <3>3, <1>a
    <3> QED  BY <1>1, <3>2, <3>3 DEF ReviewSignature
  <2> QED  BY <1>1, <2>3, <2>4, <1>a DEF FindingsTypes, ReviewSignature, history
<1>2. ASSUME NEW p \in Paths, NEW who \in People, NEW status \in {"fixed", "wontfix"},
             BeginResolve(p, who, status)
      PROVE  FindingsTypes'
  <2>1. finding[p].status \in Statuses /\ Newest(versions) \in Versions
    BY <1>a, NewestVersion DEF FindingSet
  <2>2. person' \in RequestSet
    BY <1>2, <2>1 DEF BeginResolve, RequestSet
  <2> QED  BY <1>2, <2>2, <1>a DEF FindingsTypes, BeginResolve, history
<1>3. CASE Resolve
  <2>1. /\ person.path \in Paths /\ person.status \in Statuses /\ person.who \in Writers
        /\ person.fixedIn \in Versions
    BY <1>a DEF RequestSet, Statuses, Writers, People
  <2>2. Changed(finding[person.path], person.status, person.who, person.fixedIn) \in FindingSet
    BY <2>1, <1>a, ChangedType
  <2>3. finding' \in [Paths -> FindingSet]
    BY <1>3, <2>1, <2>2, <1>a DEF Resolve
  <2>4. person' \in RequestSet
    BY <1>3, BlankTypes DEF Resolve
  <2> QED  BY <1>3, <2>3, <2>4, <1>a DEF FindingsTypes, Resolve, history, findingsBounds
<1>4. CASE ResetContract
  <2>1. sig' \in [Paths -> SigSet]
    BY <1>4, BlankTypes DEF ResetContract
  <2>2. asked' \in [Paths -> Int]
    BY <1>4 DEF ResetContract
  <2> QED  BY <1>4, <2>1, <2>2, <1>a DEF FindingsTypes, ResetContract
<1> QED  BY <1>1, <1>2, <1>3, <1>4 DEF PeopleNext

LEMMA OtherTypes ==
    ASSUME FindingsTypes,
           \/ \E c \in Callers : HandleLostCandidate(c)
           \/ \E p \in Paths : LeaseRunsOut(p) \/ ExpireFinding(p)
           \/ NewDay
           \/ Crash
    PROVE  FindingsTypes'
<1>a. /\ sig \in [Paths -> SigSet] /\ finding \in [Paths -> FindingSet] /\ versions \subseteq Versions
      /\ judge \in JudgeSet /\ lost \in [Callers -> LostSet] /\ person \in RequestSet
      /\ dayCount \in Nat /\ dayCount <= DayLimit
      /\ traces \in Nat /\ acts \in Nat /\ crashes \in Nat /\ asked \in [Paths -> Int] /\ cut \subseteq Paths
  BY DEF FindingsTypes
<1>1. ASSUME NEW c \in Callers, HandleLostCandidate(c)
      PROVE  FindingsTypes'
  <2>1. lost[c].path \in Paths /\ lost[c].mapped \in BOOLEAN /\ c \in Writers
    BY <1>a DEF LostSet, Callers, Writers
  <2>2. finding[lost[c].path] \in FindingSet
    BY <2>1, <1>a
  <2>3. /\ Upserted(finding[lost[c].path], c, lost[c].mapped) \in FindingSet
        /\ Changed(finding[lost[c].path], "open", "system", 0) \in FindingSet
    <3>1. "open" \in Statuses /\ "system" \in Writers /\ 0 \in Versions
      BY Constants DEF Statuses, Writers, Versions
    <3> QED  BY <3>1, <2>1, <2>2, UpsertedType, ChangedType
  <2>4. finding' \in [Paths -> FindingSet]
    BY <1>1, <2>1, <2>2, <2>3, <1>a DEF HandleLostCandidate
  <2>5. lost' \in [Callers -> LostSet]
    BY <1>1, <1>a, BlankTypes DEF HandleLostCandidate
  <2> QED  BY <1>1, <2>4, <2>5, <1>a DEF FindingsTypes, HandleLostCandidate, history, findingsBounds
<1>2. ASSUME NEW p \in Paths, LeaseRunsOut(p)
      PROVE  FindingsTypes'
  <2>1. [sig[p] EXCEPT !.leased = FALSE] \in SigSet
    BY <1>a DEF SigSet
  <2>2. sig' = [sig EXCEPT ![p] = [sig[p] EXCEPT !.leased = FALSE]]
    BY <1>2 DEF LeaseRunsOut
  <2>3. sig' \in [Paths -> SigSet]
    BY <2>1, <2>2, <1>a
  <2> QED  BY <1>2, <2>3, <1>a DEF FindingsTypes, LeaseRunsOut, history, findingsBounds
<1>3. ASSUME NEW p \in Paths, ExpireFinding(p)
      PROVE  FindingsTypes'
  <2>1. [finding[p] EXCEPT !.status = "expired", !.who = "system"] \in FindingSet
    BY <1>a DEF FindingSet, Statuses, Writers
  <2>2. finding' \in [Paths -> FindingSet]
    BY <1>3, <2>1, <1>a DEF ExpireFinding
  <2> QED  BY <1>3, <2>2, <1>a DEF FindingsTypes, ExpireFinding, history, findingsBounds
<1>4. CASE NewDay
  BY <1>4, <1>a, Constants DEF FindingsTypes, NewDay, history, findingsBounds
<1>5. CASE Crash
  <2>1. judge' \in JudgeSet
    BY <1>5, <1>a DEF Crash, JudgeSet, Candidates
  <2>2. \A p \in Paths : [sig[p] EXCEPT !.leased = FALSE] \in SigSet
    BY <1>a DEF SigSet
  <2>3. sig' \in [Paths -> SigSet]
    BY <1>5, <2>2 DEF Crash
  <2>4. lost' \in [Callers -> LostSet] /\ person' \in RequestSet
    BY <1>5, BlankTypes DEF Crash
  <2>5. lost["person"].path \in Paths
    BY <1>a DEF LostSet, Callers
  <2>6. cut' \subseteq Paths
    BY <1>5, <2>5, <1>a DEF Crash
  <2> QED  BY <1>5, <2>1, <2>3, <2>4, <2>6, <1>a, Constants DEF FindingsTypes, Crash
<1> QED  BY <1>1, <1>2, <1>3, <1>4, <1>5

-----------------------------------------------------------------------------
(* The steps of the consumer.                                               *)

\* A finding that is there stays there.
FindingsStay == \A p \in Paths : finding[p].status # "none" => finding'[p].status # "none"

\* The steps that leave the findings and the requests on them as they are.
LEMMA QuietFindings ==
    ASSUME FindingsInv, UNCHANGED <<finding, person>>
    PROVE  (\A p \in Paths : FindingOK(p))' /\ RequestOK' /\ FindingsStay
BY DEF FindingsInv, FindingOK, RequestOK, FindingsStay

LEMMA QuietReads ==
    ASSUME FindingsInv, lost' = lost, FindingsStay
    PROVE  (\A c \in Callers : ReadOK(c))'
<1>1. \A c \in Callers : lost[c].path \in Paths
  BY DEF FindingsInv, FindingsTypes, LostSet
<1> QED  BY <1>1 DEF FindingsInv, ReadOK, FindingsStay

\* A caller that starts to record a finding has just read it.
LEMMA StartLostReads ==
    ASSUME FindingsInv, finding' = finding,
           NEW c \in Callers, NEW p \in Paths, NEW v \in Versions, NEW m \in BOOLEAN, StartLost(c, p, v, m)
    PROVE  /\ (\A d \in Callers : ReadOK(d))'
           /\ lost'[c].step # "idle" /\ lost'[c].path = p
           /\ \A d \in Callers : d # c => lost'[d] = lost[d]
<1>1. lost \in [Callers -> LostSet]
  BY DEF FindingsInv, FindingsTypes
<1>2. /\ lost'[c] = [path |-> p, step |-> "decide", version |-> v, mapped |-> m, was |-> finding[p]]
      /\ \A d \in Callers : d # c => lost'[d] = lost[d]
  BY <1>1 DEF StartLost
<1>3. (\A d \in Callers : ReadOK(d))'
  BY <1>2 DEF FindingsInv, ReadOK
<1> QED  BY <1>2, <1>3

LEMMA TakeTraceKeeps ==
    ASSUME FindingsInv, FindingsTypes',
           NEW v \in Versions, NEW s \in SUBSET Paths, NEW m \in BOOLEAN, TakeTrace(v, s, m)
    PROVE  FindingsInv'
<1>1. /\ judge.pc = "idle" /\ judge.ask = {} /\ judge.todo = {}
      /\ judge'.pc = "look" /\ judge'.ask = {} /\ judge'.todo \subseteq judge'.shows
      /\ UNCHANGED <<sig, finding, lost, person, crashes, asked, cut>>
  BY DEF FindingsInv, JudgeOK, TakeTrace, Candidates, history
<1>2. JudgeOK' /\ ConsumerOK'
  BY <1>1 DEF FindingsInv, JudgeOK, ConsumerOK
<1>3. \A p \in Paths : AttemptsOK(p)' /\ LostOK(p)'
  BY <1>1 DEF FindingsInv, AttemptsOK, LostOK, ToBeAsked, BeingAsked, Recording
<1> QED  BY <1>1, <1>2, <1>3, QuietFindings, QuietReads DEF FindingsInv

LEMMA LeaseKeeps ==
    ASSUME FindingsInv, FindingsTypes', NEW p \in Paths, Lease(p)
    PROVE  FindingsInv'
<1>a. sig \in [Paths -> SigSet] /\ judge \in JudgeSet /\ asked \in [Paths -> Int] /\ crashes \in Nat
  BY DEF FindingsInv, FindingsTypes
<1>1. /\ judge.pc = "look" /\ p \in judge.todo /\ p \notin judge.ask
      /\ lost["consumer"].step = "idle"
      /\ judge'.pc = "look" /\ judge'.shows = judge.shows /\ judge'.todo = judge.todo \ {p}
      /\ judge'.ask \in {judge.ask, judge.ask \cup {p}}
      /\ UNCHANGED <<finding, lost, person, crashes, asked, cut>>
  BY <1>a DEF FindingsInv, JudgeOK, Lease, Lookable, WithoutNext, JudgeSet, history, findingsBounds
<1>2. /\ sig[p].state \in {"none", "pending"} /\ sig'[p].state = "pending"
      /\ sig'[p].errors = sig[p].errors /\ sig'[p].verdict = sig[p].verdict
      /\ \A r \in Paths : r # p => sig'[r] = sig[r]
  BY <1>a DEF Lease, SigSet
<1>3. sig[p].errors < ErrorLimit
  BY <1>2, Constants DEF FindingsInv, AttemptsOK
<1>4. JudgeOK'
  <2>1. \A r \in judge'.ask : r \in Paths /\ (r = p \/ r \in judge.ask)
    BY <1>1, <1>a DEF JudgeSet
  <2>2. \A r \in judge'.ask : sig'[r].errors < ErrorLimit
    BY <2>1, <1>2, <1>3 DEF FindingsInv, JudgeOK
  <2> QED  BY <2>2, <1>1 DEF FindingsInv, JudgeOK
<1>5. ConsumerOK'
  BY <1>1 DEF ConsumerOK
<1>6. AttemptsOK(p)'
  BY <1>a, <1>1, <1>2, <1>3, Constants DEF FindingsInv, AttemptsOK, ToBeAsked, BeingAsked, SigSet
<1>7. \A r \in Paths : r # p => AttemptsOK(r)'
  BY <1>1, <1>2 DEF FindingsInv, AttemptsOK, ToBeAsked, BeingAsked
<1>8. \A r \in Paths : LostOK(r)'
  <2>1. LostOK(p)'
    BY <1>1, <1>2 DEF FindingsInv, LostOK, Recording
  <2>2. \A r \in Paths : r # p => LostOK(r)'
    BY <1>1, <1>2 DEF FindingsInv, LostOK, Recording
  <2> QED  BY <2>1, <2>2
<1> QED  BY <1>1, <1>4, <1>5, <1>6, <1>7, <1>8, QuietFindings, QuietReads DEF FindingsInv

LEMMA SeeAgainKeeps ==
    ASSUME FindingsInv, FindingsTypes', NEW p \in Paths, SeeAgain(p)
    PROVE  FindingsInv'
<1>a. judge \in JudgeSet /\ judge.version \in Versions /\ "consumer" \in Callers
  BY DEF FindingsInv, FindingsTypes, JudgeSet, Callers
<1>1. /\ judge.pc = "look" /\ p \in judge.todo /\ p \in judge.shows /\ p \notin judge.ask
      /\ sig[p].state = "approved" /\ sig[p].verdict = "lost"
      /\ judge'.pc = "look" /\ judge'.shows = judge.shows /\ judge'.todo = judge.todo \ {p}
      /\ judge'.ask = judge.ask
      /\ UNCHANGED <<sig, finding, person, crashes, asked, cut>>
  BY <1>a DEF FindingsInv, JudgeOK, SeeAgain, Lookable, KnownLost, WithoutNext, JudgeSet, history, findingsBounds
<1>2. /\ (\A d \in Callers : ReadOK(d))'
      /\ lost'["consumer"].step # "idle" /\ lost'["consumer"].path = p
      /\ \A d \in Callers : d # "consumer" => lost'[d] = lost[d]
  BY <1>a, <1>1, StartLostReads DEF SeeAgain
<1>3. JudgeOK'
  BY <1>1 DEF FindingsInv, JudgeOK
<1>4. ConsumerOK'
  BY <1>1, <1>2 DEF ConsumerOK
<1>5. \A r \in Paths : AttemptsOK(r)'
  BY <1>1 DEF FindingsInv, AttemptsOK, ToBeAsked, BeingAsked
<1>6. lost["consumer"].step = "idle"
  BY DEF SeeAgain, Lookable
<1>7. \A r \in Paths : LostOK(r)'
  <2>1. LostOK(p)'
    BY <1>1, <1>2, <1>a DEF FindingsInv, LostOK, Recording
  <2>2. ASSUME NEW r \in Paths, r # p  PROVE LostOK(r)'
    BY <1>1, <1>2, <1>6, <2>2 DEF FindingsInv, LostOK, Recording
  <2> QED  BY <2>1, <2>2
<1> QED  BY <1>1, <1>2, <1>3, <1>4, <1>5, <1>7, QuietFindings DEF FindingsInv

LEMMA PassOverKeeps ==
    ASSUME FindingsInv, FindingsTypes', NEW p \in Paths, PassOver(p)
    PROVE  FindingsInv'
<1>a. judge \in JudgeSet
  BY DEF FindingsInv, FindingsTypes
<1>1. /\ judge.pc = "look" /\ p \in judge.todo /\ lost["consumer"].step = "idle"
      /\ ~ (sig[p].state = "approved" /\ sig[p].verdict = "lost")
      /\ judge'.pc = "look" /\ judge'.shows = judge.shows /\ judge'.todo = judge.todo \ {p}
      /\ judge'.ask = judge.ask
      /\ UNCHANGED <<sig, finding, lost, person, crashes, asked, cut>>
  BY <1>a DEF PassOver, Lookable, KnownLost, WithoutNext, JudgeSet, history, findingsBounds
<1>2. JudgeOK' /\ ConsumerOK'
  BY <1>1 DEF FindingsInv, JudgeOK, ConsumerOK
<1>3. \A r \in Paths : AttemptsOK(r)'
  BY <1>1 DEF FindingsInv, AttemptsOK, ToBeAsked, BeingAsked
<1>4. \A r \in Paths : LostOK(r)'
  <2>1. LostOK(p)'
    BY <1>1 DEF FindingsInv, LostOK, Recording
  <2>2. \A r \in Paths : r # p => LostOK(r)'
    BY <1>1 DEF FindingsInv, LostOK, Recording
  <2> QED  BY <2>1, <2>2
<1> QED  BY <1>1, <1>2, <1>3, <1>4, QuietFindings, QuietReads DEF FindingsInv

LEMMA AskKeeps ==
    ASSUME FindingsInv, FindingsTypes', Ask
    PROVE  FindingsInv'
<1>a. sig \in [Paths -> SigSet] /\ judge \in JudgeSet /\ asked \in [Paths -> Int] /\ crashes \in Nat
  BY DEF FindingsInv, FindingsTypes
<1>1. /\ judge.pc = "look" /\ judge.todo = {} /\ lost["consumer"].step = "idle"
      /\ judge'.pc = "asking" /\ judge'.shows = judge.shows /\ judge'.todo = judge.todo
      /\ judge'.ask = judge.ask
      /\ \A r \in Paths : asked'[r] = asked[r] + IF r \in judge.ask THEN 1 ELSE 0
      /\ UNCHANGED <<sig, finding, lost, person, crashes, cut>>
  BY <1>a DEF Ask, JudgeSet, findingsBounds
<1>2. JudgeOK' /\ ConsumerOK'
  BY <1>1 DEF FindingsInv, JudgeOK, ConsumerOK
<1>3. ASSUME NEW r \in Paths PROVE AttemptsOK(r)'
  <2>1. sig[r].errors \in Nat /\ asked[r] \in Int
    BY <1>a DEF SigSet
  <2> QED  BY <2>1, <1>a, <1>1, Constants DEF FindingsInv, AttemptsOK, ToBeAsked, BeingAsked
<1>4. \A r \in Paths : LostOK(r)'
  BY <1>1 DEF FindingsInv, LostOK, Recording
<1> QED  BY <1>1, <1>2, <1>3, <1>4, QuietFindings, QuietReads DEF FindingsInv

LEMMA LeaveKeeps ==
    ASSUME FindingsInv, FindingsTypes', LeaveForTomorrow
    PROVE  FindingsInv'
<1>a. sig \in [Paths -> SigSet] /\ judge \in JudgeSet /\ asked \in [Paths -> Int] /\ crashes \in Nat
  BY DEF FindingsInv, FindingsTypes
<1>1. /\ judge.pc = "look" /\ judge.todo = {} /\ lost["consumer"].step = "idle"
      /\ judge'.pc = "learn" /\ judge'.shows = judge.shows /\ judge'.todo = {}
      /\ judge'.ask = {}
      /\ UNCHANGED <<sig, finding, lost, person, crashes, asked, cut>>
  BY <1>a DEF LeaveForTomorrow, JudgeSet, findingsBounds, history
<1>2. JudgeOK' /\ ConsumerOK'
  BY <1>1 DEF FindingsInv, JudgeOK, ConsumerOK
<1>3. ASSUME NEW r \in Paths PROVE AttemptsOK(r)'
  <2>1. sig[r].errors \in Nat /\ asked[r] \in Int
    BY <1>a DEF SigSet
  <2> QED  BY <2>1, <1>a, <1>1, Constants DEF FindingsInv, AttemptsOK, ToBeAsked, BeingAsked
<1>4. \A r \in Paths : LostOK(r)'
  BY <1>1 DEF FindingsInv, LostOK, Recording
<1> QED  BY <1>1, <1>2, <1>3, <1>4, QuietFindings, QuietReads DEF FindingsInv

LEMMA JudgeFailsKeeps ==
    ASSUME FindingsInv, FindingsTypes', JudgeFails
    PROVE  FindingsInv'
<1>a. sig \in [Paths -> SigSet] /\ judge \in JudgeSet /\ asked \in [Paths -> Int] /\ crashes \in Nat
  BY DEF FindingsInv, FindingsTypes
<1>1. /\ judge.pc = "asking" /\ judge.todo = {} /\ lost["consumer"].step = "idle"
      /\ judge'.pc = "learn" /\ judge'.shows = judge.shows /\ judge'.todo = {}
      /\ judge'.ask = {}
      /\ \A r \in Paths : sig'[r] = IF r \in judge.ask THEN WithError(sig[r]) ELSE sig[r]
      /\ UNCHANGED <<finding, lost, person, crashes, asked, cut>>
  BY <1>a DEF FindingsInv, JudgeOK, JudgeFails, JudgeSet, findingsBounds, history
<1>2. JudgeOK' /\ ConsumerOK'
  BY <1>1 DEF FindingsInv, JudgeOK, ConsumerOK
<1>3. ASSUME NEW r \in Paths PROVE AttemptsOK(r)' /\ LostOK(r)'
  <2>1. sig[r].errors \in Nat /\ asked[r] \in Int /\ sig[r] \in SigSet
    BY <1>a DEF SigSet
  <2>2. CASE r \notin judge.ask
    BY <2>1, <2>2, <1>a, <1>1, Constants
       DEF FindingsInv, AttemptsOK, ToBeAsked, BeingAsked, LostOK, Recording
  <2>3. CASE r \in judge.ask
    <3>1. sig'[r] = WithError(sig[r]) /\ sig[r].errors < ErrorLimit
      BY <1>1, <2>3 DEF FindingsInv, JudgeOK
    <3>2. sig[r].state = "none" => sig[r].verdict = "none" /\ sig[r].errors = 0
      BY DEF FindingsInv, AttemptsOK, LostOK
    <3>3. /\ sig'[r].verdict = sig[r].verdict
          /\ sig[r].state = "none" => sig'[r] = sig[r]
          /\ sig[r].state # "none" =>
               /\ sig'[r].errors = sig[r].errors + 1
               /\ sig'[r].state = IF sig[r].errors + 1 >= ErrorLimit THEN "error" ELSE sig[r].state
      BY <2>1, <3>1, <3>2, WithErrorType
    <3>4. LostOK(r)'
      BY <3>3, <1>1 DEF FindingsInv, LostOK, Recording
    <3>5. AttemptsOK(r)'
      BY <3>1, <3>3, <2>1, <2>3, <1>a, <1>1, Constants
         DEF FindingsInv, AttemptsOK, ToBeAsked, BeingAsked, SigSet
    <3> QED  BY <3>4, <3>5
  <2> QED  BY <2>2, <2>3
<1> QED  BY <1>1, <1>2, <1>3, QuietFindings, QuietReads DEF FindingsInv

LEMMA SettleKeeps ==
    ASSUME FindingsInv, FindingsTypes', NEW p \in Paths, NEW a \in Answers, Settle(p, a)
    PROVE  FindingsInv'
<1>a. /\ sig \in [Paths -> SigSet] /\ judge \in JudgeSet /\ asked \in [Paths -> Int] /\ crashes \in Nat
      /\ lost \in [Callers -> LostSet] /\ judge.version \in Versions /\ "consumer" \in Callers
  BY DEF FindingsInv, FindingsTypes, JudgeSet, Callers
<1>1. /\ judge.pc # "look" /\ judge.todo = {} /\ lost["consumer"].step = "idle"
      /\ p \in judge.ask /\ p \in judge.shows /\ sig[p].errors < ErrorLimit
      /\ judge'.pc = "settling" /\ judge'.shows = judge.shows /\ judge'.todo = {}
      /\ judge'.ask = judge.ask \ {p}
      /\ sig'[p] = Judged(sig[p], a)
      /\ \A r \in Paths : r # p => sig'[r] = sig[r]
      /\ UNCHANGED <<finding, person, crashes, asked, cut>>
  BY <1>a DEF FindingsInv, JudgeOK, Settle, JudgeSet, findingsBounds, history
<1>2. sig[p] \in SigSet /\ sig[p].errors \in Nat /\ asked[p] \in Int
  BY <1>a DEF SigSet
<1>3. sig[p].state = "none" => sig[p].verdict = "none" /\ sig[p].errors = 0
  BY DEF FindingsInv, AttemptsOK, LostOK
<1>4. JudgeOK'
  <2>1. \A r \in judge'.ask : r \in Paths /\ r # p /\ r \in judge.ask
    BY <1>1, <1>a DEF JudgeSet
  <2>2. \A r \in judge'.ask : sig'[r].errors < ErrorLimit
    BY <2>1, <1>1 DEF FindingsInv, JudgeOK
  <2> QED  BY <2>2, <1>1 DEF FindingsInv, JudgeOK
<1>5. /\ sig[p].state = "none" => sig'[p] = sig[p]
      /\ sig[p].state # "none" /\ a = "invalid" =>
           /\ sig'[p].errors = sig[p].errors + 1 /\ sig'[p].verdict = sig[p].verdict
           /\ sig'[p].state = IF sig[p].errors + 1 >= ErrorLimit THEN "error" ELSE sig[p].state
      /\ sig[p].state # "none" /\ a # "invalid" =>
           /\ sig'[p].errors = sig[p].errors /\ sig'[p].verdict = a
           /\ sig'[p].state = IF a = "lost" THEN "approved" ELSE "proposed"
  BY <1>1, <1>2, <1>3, WithErrorType, JudgedType
<1>6. /\ (\A d \in Callers : ReadOK(d))'
      /\ a = "lost" => lost'["consumer"].step # "idle" /\ lost'["consumer"].path = p
      /\ a # "lost" => lost' = lost
      /\ \A d \in Callers : d # "consumer" => lost'[d] = lost[d]
  <2>1. CASE a = "lost"
    BY <2>1, <1>a, <1>1, StartLostReads DEF Settle
  <2>2. CASE a # "lost"
    <3>1. lost' = lost
      BY <2>2 DEF Settle
    <3> QED  BY <2>2, <3>1, <1>1, QuietReads, QuietFindings
  <2> QED  BY <2>1, <2>2
<1>7. ConsumerOK'
  BY <1>1, <1>5, <1>6 DEF ConsumerOK
<1>8. AttemptsOK(p)'
  <2>1. ~ ToBeAsked(p)' /\ ~ BeingAsked(p)' /\ BeingAsked(p) /\ ~ ToBeAsked(p)
    BY <1>1 DEF ToBeAsked, BeingAsked
  <2>2. AttemptsOK(p)
    BY DEF FindingsInv
  <2>3. sig[p].state \in {"none", "pending", "proposed", "approved", "error"}
    BY <1>2 DEF SigSet
  <2>4. CASE sig[p].state = "none"
    BY <2>1, <2>2, <2>4, <1>1, <1>2, <1>5, <1>a, Constants DEF AttemptsOK
  <2>5. CASE sig[p].state # "none" /\ a = "invalid"
    BY <2>1, <2>2, <2>3, <2>5, <1>1, <1>2, <1>5, <1>a, Constants DEF AttemptsOK
  <2>6. CASE sig[p].state # "none" /\ a # "invalid"
    BY <2>1, <2>2, <2>3, <2>6, <1>1, <1>2, <1>5, <1>a, Constants DEF AttemptsOK
  <2> QED  BY <2>4, <2>5, <2>6
<1>9. \A r \in Paths : r # p => AttemptsOK(r)'
  BY <1>1 DEF FindingsInv, AttemptsOK, ToBeAsked, BeingAsked
<1>10. \A r \in Paths : LostOK(r)'
  <2>1. LostOK(p)'
    BY <1>1, <1>3, <1>5, <1>6, <1>a DEF FindingsInv, LostOK, Recording
  <2>2. ASSUME NEW r \in Paths, r # p  PROVE LostOK(r)'
    BY <1>1, <1>6, <2>2 DEF FindingsInv, LostOK, Recording
  <2> QED  BY <2>1, <2>2
<1> QED  BY <1>1, <1>4, <1>6, <1>7, <1>8, <1>9, <1>10, QuietFindings DEF FindingsInv

LEMMA FinishTraceKeeps ==
    ASSUME FindingsInv, FindingsTypes', FinishTrace
    PROVE  FindingsInv'
<1>1. /\ judge.ask = {} /\ judge.todo = {} /\ lost["consumer"].step = "idle"
      /\ judge'.pc = "idle" /\ judge'.shows = {} /\ judge'.todo = {} /\ judge'.ask = {}
      /\ UNCHANGED <<sig, finding, lost, person, crashes, asked, cut>>
  BY DEF FindingsInv, JudgeOK, ConsumerOK, FinishTrace, NoTrace, findingsBounds, history
<1>2. JudgeOK' /\ ConsumerOK'
  BY <1>1 DEF FindingsInv, JudgeOK, ConsumerOK
<1>3. \A r \in Paths : AttemptsOK(r)' /\ LostOK(r)'
  BY <1>1 DEF FindingsInv, AttemptsOK, ToBeAsked, BeingAsked, LostOK, Recording
<1> QED  BY <1>1, <1>2, <1>3, QuietFindings, QuietReads DEF FindingsInv

LEMMA ConsumerKeeps ==
    ASSUME FindingsInv, ConsumerNext
    PROVE  FindingsInv'
<1>1. FindingsTypes'
  BY ConsumerTypes DEF FindingsInv
<1> QED  BY <1>1, TakeTraceKeeps, LeaseKeeps, SeeAgainKeeps, PassOverKeeps, SettleKeeps, AskKeeps,
            LeaveKeeps, JudgeFailsKeeps, FinishTraceKeeps DEF ConsumerNext

-----------------------------------------------------------------------------
(* The steps of people, of retention and of a crash.                        *)

LEMMA ReviewSignatureKeeps ==
    ASSUME FindingsInv, FindingsTypes',
           NEW p \in Paths, NEW action \in {"approve", "reject"}, ReviewSignature(p, action)
    PROVE  FindingsInv'
<1>a. /\ sig \in [Paths -> SigSet] /\ judge \in JudgeSet /\ asked \in [Paths -> Int] /\ crashes \in Nat
      /\ lost \in [Callers -> LostSet] /\ "person" \in Callers /\ "consumer" \in Callers
      /\ 0 \in Versions
  BY Constants DEF FindingsInv, FindingsTypes, Callers, Versions
<1>b. sig[p] \in SigSet /\ sig[p].errors \in Nat /\ asked[p] \in Int
      /\ sig[p].state \in {"none", "pending", "proposed", "approved", "error"}
  BY <1>a DEF SigSet
<1>1. /\ lost["person"].step = "idle" /\ sig[p].state # "none"
      /\ sig'[p].state = "approved" /\ sig'[p].errors = sig[p].errors
      /\ sig'[p].verdict = IF action = "reject" THEN "lost" ELSE sig[p].verdict
      /\ \A r \in Paths : r # p => sig'[r] = sig[r]
      /\ UNCHANGED <<finding, judge, person, crashes, asked, cut>>
  <2>1. sig' = [sig EXCEPT ![p] = [sig[p] EXCEPT !.state = "approved",
                  !.verdict = IF action = "reject" THEN "lost" ELSE sig[p].verdict]]
    BY DEF ReviewSignature
  <2>2. /\ sig'[p] = [sig[p] EXCEPT !.state = "approved",
                        !.verdict = IF action = "reject" THEN "lost" ELSE sig[p].verdict]
        /\ \A r \in Paths : r # p => sig'[r] = sig[r]
    BY <2>1, <1>a
  <2>3. /\ sig'[p].state = "approved" /\ sig'[p].errors = sig[p].errors
        /\ sig'[p].verdict = IF action = "reject" THEN "lost" ELSE sig[p].verdict
    BY <2>2, <1>b DEF SigSet
  <2> QED  BY <2>2, <2>3 DEF ReviewSignature, history
<1>2. /\ (\A d \in Callers : ReadOK(d))'
      /\ lost'["consumer"] = lost["consumer"]
      /\ action = "reject" => lost'["person"].step # "idle" /\ lost'["person"].path = p
  <2>1. CASE action = "reject" \/ sig[p].verdict = "renamed"
    <3>1. StartLost("person", p, 0, action = "approve") /\ (action = "approve") \in BOOLEAN
      BY <2>1 DEF ReviewSignature
    <3> QED  BY <3>1, <1>a, <1>1, StartLostReads
  <2>2. CASE ~ (action = "reject" \/ sig[p].verdict = "renamed")
    <3>1. lost' = lost
      BY <2>2 DEF ReviewSignature
    <3> QED  BY <2>2, <3>1, <1>1, QuietReads, QuietFindings
  <2> QED  BY <2>1, <2>2
<1>3. JudgeOK'
  <2>1. \A r \in judge.ask : r \in Paths
    BY <1>a DEF JudgeSet
  <2>2. \A r \in judge.ask : sig'[r].errors < ErrorLimit
    BY <2>1, <1>1 DEF FindingsInv, JudgeOK
  <2> QED  BY <2>2, <1>1 DEF FindingsInv, JudgeOK
<1>4. ConsumerOK'
  <2>1. lost["consumer"].path \in Paths
    BY <1>a DEF LostSet
  <2> QED  BY <2>1, <1>1, <1>2 DEF FindingsInv, ConsumerOK
<1>5. AttemptsOK(p)'
  <2>1. AttemptsOK(p)
    BY DEF FindingsInv
  <2>2. ToBeAsked(p)' = ToBeAsked(p) /\ ~ (ToBeAsked(p) /\ BeingAsked(p))
    BY <1>1 DEF ToBeAsked, BeingAsked
  <2>3. CASE sig[p].state = "pending"
    BY <2>1, <2>2, <2>3, <1>1, <1>a, <1>b, Constants DEF AttemptsOK
  <2>4. CASE sig[p].state # "pending"
    BY <2>1, <2>2, <2>4, <1>1, <1>a, <1>b, Constants DEF AttemptsOK
  <2> QED  BY <2>3, <2>4
<1>6. \A r \in Paths : r # p => AttemptsOK(r)'
  BY <1>1 DEF FindingsInv, AttemptsOK, ToBeAsked, BeingAsked
<1>7. \A r \in Paths : LostOK(r)'
  <2>1. LostOK(p)'
    <3>1. CASE action = "reject"
      BY <3>1, <1>1, <1>2, <1>a DEF LostOK, Recording
    <3>2. CASE action # "reject"
      BY <3>2, <1>1, <1>2, <1>a DEF FindingsInv, LostOK, Recording, Callers
    <3> QED  BY <3>1, <3>2
  <2>2. ASSUME NEW r \in Paths, r # p  PROVE LostOK(r)'
    BY <1>1, <1>2, <2>2 DEF FindingsInv, LostOK, Recording, Callers
  <2> QED  BY <2>1, <2>2
<1> QED  BY <1>1, <1>2, <1>3, <1>4, <1>5, <1>6, <1>7, QuietFindings DEF FindingsInv

\* The steps that leave the signatures and the work on them as they are.
LEMMA QuietJudge ==
    ASSUME FindingsInv, UNCHANGED <<sig, judge, lost, asked, crashes, cut>>, FindingsStay
    PROVE  JudgeOK' /\ ConsumerOK' /\ (\A p \in Paths : AttemptsOK(p) /\ LostOK(p))'
<1>1. JudgeOK' /\ ConsumerOK'
  BY DEF FindingsInv, JudgeOK, ConsumerOK
<1>2. \A p \in Paths : AttemptsOK(p)'
  BY DEF FindingsInv, AttemptsOK, ToBeAsked, BeingAsked
<1>3. \A p \in Paths : LostOK(p)'
  BY DEF FindingsInv, LostOK, Recording, FindingsStay
<1> QED  BY <1>1, <1>2, <1>3

LEMMA ResolveKeeps ==
    ASSUME FindingsInv, FindingsTypes',
           \/ Resolve
           \/ \E p \in Paths, who \in People, status \in {"fixed", "wontfix"} : BeginResolve(p, who, status)
    PROVE  FindingsInv' /\ FindingsStay
<1>1. CASE Resolve
  <2>a. /\ person.path \in Paths /\ person.who \in Writers /\ person.fixedIn \in Versions
        /\ finding \in [Paths -> FindingSet] /\ person.status \in Statuses \ {"none", "open"}
        /\ finding[person.path].status # "none"
    BY <1>1 DEF FindingsInv, FindingsTypes, RequestSet, RequestOK, Resolve, Statuses, Writers, People
  <2>1. /\ UNCHANGED <<sig, judge, lost, asked, crashes, cut>> /\ person'.pc = "idle"
        /\ \A r \in Paths : r # person.path => finding'[r] = finding[r]
        /\ \/ finding'[person.path] = finding[person.path]
           \/ finding'[person.path] = Changed(finding[person.path], person.status, person.who, person.fixedIn)
    BY <1>1, <2>a DEF Resolve, findingsBounds, history, NoRequest
  <2>2. finding'[person.path].status # "none"
    <3>1. finding[person.path] \in FindingSet
      BY <2>a
    <3>2. Changed(finding[person.path], person.status, person.who, person.fixedIn).status = person.status
      BY <2>a, <3>1, ChangedType
    <3> QED  BY <2>1, <2>a, <3>2
  <2>3. FindingsStay
    BY <2>1, <2>2 DEF FindingsStay
  <2>4. RequestOK' /\ (\A p \in Paths : FindingOK(p))'
    BY <2>1, <2>2 DEF FindingsInv, RequestOK, FindingOK
  <2> QED  BY <2>1, <2>3, <2>4, QuietJudge, QuietReads DEF FindingsInv
<1>2. ASSUME NEW p \in Paths, NEW who \in People, NEW status \in {"fixed", "wontfix"},
             BeginResolve(p, who, status)
      PROVE  FindingsInv' /\ FindingsStay
  <2>1. /\ UNCHANGED <<sig, judge, lost, asked, crashes, cut, finding>>
        /\ person'.path = p /\ person'.status = status /\ finding[p].status # "none"
    BY <1>2 DEF BeginResolve, history
  <2>2. RequestOK' /\ (\A r \in Paths : FindingOK(r))' /\ FindingsStay
    BY <2>1 DEF FindingsInv, RequestOK, FindingOK, FindingsStay
  <2> QED  BY <2>1, <2>2, QuietJudge, QuietReads DEF FindingsInv
<1> QED  BY <1>1, <1>2

LEMMA ResetKeeps ==
    ASSUME FindingsInv, FindingsTypes', ResetContract
    PROVE  FindingsInv'
<1>1. /\ \A r \in Paths : sig'[r] = NoSig
      /\ \A r \in Paths : asked'[r] = IF judge.pc = "look" /\ r \in judge.ask THEN -1 ELSE 0
      /\ UNCHANGED <<finding, judge, lost, person, crashes, cut>>
  BY DEF ResetContract
<1>2. judge.ask \subseteq Paths /\ lost["consumer"].path \in Paths /\ crashes \in Nat
  BY DEF FindingsInv, FindingsTypes, JudgeSet, LostSet, Callers
<1>3. JudgeOK' /\ ConsumerOK'
  BY <1>1, <1>2, Constants DEF FindingsInv, JudgeOK, ConsumerOK, NoSig
<1>4. \A r \in Paths : AttemptsOK(r)'
  BY <1>1, <1>2, Constants DEF FindingsInv, AttemptsOK, ToBeAsked, BeingAsked, NoSig
<1>5. \A r \in Paths : LostOK(r)'
  BY <1>1 DEF LostOK, NoSig
<1> QED  BY <1>1, <1>3, <1>4, <1>5, QuietFindings, QuietReads DEF FindingsInv

LEMMA HandleKeeps ==
    ASSUME FindingsInv, FindingsTypes', NEW c \in Callers, HandleLostCandidate(c)
    PROVE  FindingsInv' /\ FindingsStay
<1>a. /\ lost \in [Callers -> LostSet] /\ finding \in [Paths -> FindingSet]
      /\ lost[c].path \in Paths /\ lost[c].mapped \in BOOLEAN /\ c \in Writers
      /\ finding[lost[c].path] \in FindingSet
  BY DEF FindingsInv, FindingsTypes, LostSet, Callers, Writers
<1>1. /\ lost[c].step = "decide" /\ lost'[c] = NoLost
      /\ \A d \in Callers : d # c => lost'[d] = lost[d]
      /\ UNCHANGED <<sig, judge, person, asked, crashes, cut>>
      /\ \A r \in Paths : r # lost[c].path => finding'[r] = finding[r]
      /\ \/ lost[c].was.status = "none"
            /\ finding'[lost[c].path] = Upserted(finding[lost[c].path], c, lost[c].mapped)
         \/ finding'[lost[c].path] = Changed(finding[lost[c].path], "open", "system", 0)
         \/ lost[c].was.status # "none" /\ finding'[lost[c].path] = finding[lost[c].path]
  BY <1>a DEF HandleLostCandidate, findingsBounds, history
<1>2. finding'[lost[c].path].status # "none"
  <2>1. /\ Upserted(finding[lost[c].path], c, lost[c].mapped).status # "none"
        /\ Changed(finding[lost[c].path], "open", "system", 0).status = "open"
    <3>1. "open" \in Statuses /\ "system" \in Writers /\ 0 \in Versions
      BY Constants DEF Statuses, Writers, Versions
    <3>2. Upserted(finding[lost[c].path], c, lost[c].mapped).status # "none"
      BY <1>a, UpsertedType
    <3>3. Changed(finding[lost[c].path], "open", "system", 0).status = "open"
      BY <3>1, <1>a, ChangedType
    <3> QED  BY <3>2, <3>3
  <2>2. lost[c].was.status # "none" => finding[lost[c].path].status # "none"
    BY <1>1 DEF FindingsInv, ReadOK
  <2> QED  BY <2>1, <2>2, <1>1
<1>3. FindingsStay
  BY <1>1, <1>2 DEF FindingsStay
<1>4. (\A p \in Paths : FindingOK(p))' /\ RequestOK'
  <2>1. person.path \in Paths
    BY DEF FindingsInv, FindingsTypes, RequestSet
  <2> QED  BY <2>1, <1>1, <1>2, <1>3 DEF FindingsInv, FindingOK, RequestOK, FindingsStay
<1>5. (\A d \in Callers : ReadOK(d))'
  <2>1. \A d \in Callers : lost[d].path \in Paths
    BY <1>a DEF LostSet
  <2>2. lost'[c].step = "idle"
    BY <1>1 DEF NoLost
  <2> QED  BY <2>1, <2>2, <1>1, <1>3 DEF FindingsInv, ReadOK, FindingsStay
<1>6. JudgeOK' /\ (\A p \in Paths : AttemptsOK(p))'
  BY <1>1 DEF FindingsInv, JudgeOK, AttemptsOK, ToBeAsked, BeingAsked
<1>7. ConsumerOK'
  BY <1>1 DEF FindingsInv, ConsumerOK, NoLost, Callers
<1>8. ASSUME NEW r \in Paths PROVE LostOK(r)'
  <2>1. CASE r = lost[c].path
    BY <2>1, <1>1, <1>2 DEF FindingsInv, LostOK
  <2>2. CASE r # lost[c].path
    BY <2>2, <1>1, <1>3 DEF FindingsInv, LostOK, Recording, FindingsStay
  <2> QED  BY <2>1, <2>2
<1> QED  BY <1>1, <1>3, <1>4, <1>5, <1>6, <1>7, <1>8 DEF FindingsInv

LEMMA LeaseRunsOutKeeps ==
    ASSUME FindingsInv, FindingsTypes', NEW p \in Paths, LeaseRunsOut(p)
    PROVE  FindingsInv'
<1>a. /\ sig \in [Paths -> SigSet] /\ judge.ask \subseteq Paths /\ lost["consumer"].path \in Paths
  BY DEF FindingsInv, FindingsTypes, JudgeSet, LostSet, Callers
<1>1. /\ \A r \in Paths : sig'[r].state = sig[r].state /\ sig'[r].errors = sig[r].errors
                          /\ sig'[r].verdict = sig[r].verdict
      /\ UNCHANGED <<finding, judge, lost, person, asked, crashes, cut>>
  BY <1>a DEF LeaseRunsOut, SigSet, findingsBounds, history
<1>2. JudgeOK' /\ ConsumerOK'
  BY <1>a, <1>1 DEF FindingsInv, JudgeOK, ConsumerOK
<1>3. \A r \in Paths : AttemptsOK(r)'
  BY <1>1 DEF FindingsInv, AttemptsOK, ToBeAsked, BeingAsked
<1>4. \A r \in Paths : LostOK(r)'
  BY <1>1 DEF FindingsInv, LostOK, Recording
<1> QED  BY <1>1, <1>2, <1>3, <1>4, QuietFindings, QuietReads DEF FindingsInv

LEMMA ExpireKeeps ==
    ASSUME FindingsInv, FindingsTypes', NEW p \in Paths, ExpireFinding(p)
    PROVE  FindingsInv' /\ FindingsStay
<1>a. finding \in [Paths -> FindingSet] /\ person.path \in Paths
  BY DEF FindingsInv, FindingsTypes, RequestSet
<1>1. /\ finding'[p].status = "expired"
      /\ \A r \in Paths : r # p => finding'[r] = finding[r]
      /\ UNCHANGED <<sig, judge, lost, person, asked, crashes, cut>>
  BY <1>a DEF ExpireFinding, FindingSet, findingsBounds, history
<1>2. FindingsStay /\ (\A r \in Paths : FindingOK(r))'
  BY <1>1 DEF FindingsStay, FindingsInv, FindingOK
<1>3. RequestOK'
  BY <1>a, <1>1, <1>2 DEF FindingsInv, FindingsStay, RequestOK
<1> QED  BY <1>1, <1>2, <1>3, QuietJudge, QuietReads DEF FindingsInv

LEMMA NewDayKeeps ==
    ASSUME FindingsInv, FindingsTypes', NewDay
    PROVE  FindingsInv'
<1>1. UNCHANGED <<sig, finding, judge, lost, person, asked, crashes, cut>>
  BY DEF NewDay, findingsBounds, history
<1> QED  BY <1>1, QuietFindings, QuietJudge, QuietReads DEF FindingsInv

LEMMA CrashKeeps ==
    ASSUME FindingsInv, FindingsTypes', Crash
    PROVE  FindingsInv'
<1>a. /\ sig \in [Paths -> SigSet] /\ judge \in JudgeSet /\ asked \in [Paths -> Int]
      /\ crashes \in Nat /\ judge.ask \subseteq Paths
  BY DEF FindingsInv, FindingsTypes, JudgeSet
<1>1. /\ judge'.shows = judge.shows /\ judge'.ask = {}
      /\ judge.pc = "idle" => judge'.pc = "idle" /\ judge'.todo = {}
      /\ judge.pc # "idle" => judge'.pc = "look" /\ judge'.todo = Candidates(judge.shows)
  BY <1>a DEF FindingsInv, JudgeOK, Crash, JudgeSet
<1>2. /\ \A r \in Paths : sig'[r].state = sig[r].state /\ sig'[r].errors = sig[r].errors
                          /\ sig'[r].verdict = sig[r].verdict
      /\ UNCHANGED <<finding, asked>> /\ crashes' = crashes + 1
      /\ \A c \in Callers : lost'[c] = NoLost
      /\ person' = NoRequest
      /\ cut \subseteq cut'
      /\ lost["person"].step # "idle" => lost["person"].path \in cut'
  BY <1>a DEF Crash, SigSet
<1>3. JudgeOK'
  BY <1>1 DEF FindingsInv, JudgeOK, Candidates
<1>4. ConsumerOK' /\ RequestOK' /\ (\A c \in Callers : ReadOK(c))' /\ (\A r \in Paths : FindingOK(r))'
  BY <1>2 DEF FindingsInv, ConsumerOK, RequestOK, ReadOK, FindingOK, NoLost, NoRequest, Callers
<1>5. ASSUME NEW r \in Paths PROVE AttemptsOK(r)'
  <2>1. sig[r].errors \in Nat /\ asked[r] \in Int
    BY <1>a DEF SigSet
  <2>2. ~ ToBeAsked(r)' /\ ~ BeingAsked(r)'
    BY <1>1 DEF ToBeAsked, BeingAsked
  <2>3. AttemptsOK(r)
    BY DEF FindingsInv
  <2> QED  BY <2>1, <2>2, <2>3, <1>a, <1>2, Constants DEF AttemptsOK
<1>6. ASSUME NEW r \in Paths PROVE LostOK(r)'
  <2>1. LostOK(r) /\ FindingOK(r)
    BY DEF FindingsInv
  <2>2. CASE Recording("consumer", r) /\ sig[r].verdict = "lost" /\ finding[r].status = "none"
    <3>1. judge.pc # "idle" /\ r \in judge.shows /\ sig[r].state = "approved"
      BY <2>1, <2>2 DEF FindingsInv, ConsumerOK, Recording, LostOK
    <3>2. r \in judge'.todo
      BY <3>1, <2>1, <2>2, <1>1 DEF Candidates, Explained, FindingOK
    <3> QED  BY <3>1, <3>2, <2>1, <1>2 DEF LostOK
  <2>3. CASE r \in judge.todo /\ sig[r].state = "approved" /\ sig[r].verdict = "lost"
             /\ finding[r].status = "none"
    <3>1. judge.pc # "idle" /\ r \in judge.shows
      BY <2>3 DEF FindingsInv, JudgeOK
    <3>2. r \in judge'.todo
      BY <3>1, <2>1, <2>3, <1>1 DEF Candidates, Explained, FindingOK
    <3> QED  BY <2>3, <3>2, <2>1, <1>2 DEF LostOK
  <2>4. CASE Recording("person", r)
    BY <2>4, <2>1, <1>2 DEF LostOK, Recording
  <2> QED  BY <2>1, <2>2, <2>3, <2>4, <1>2 DEF LostOK, Callers
<1> QED  BY <1>3, <1>4, <1>5, <1>6 DEF FindingsInv

LEMMA FindingsNextKeeps ==
    ASSUME FindingsInv, FindingsNext
    PROVE  FindingsInv'
<1>1. FindingsTypes
  BY DEF FindingsInv
<1>2. CASE ConsumerNext
  BY <1>2, ConsumerKeeps
<1>3. CASE PeopleNext
  BY <1>1, <1>3, PeopleTypes, ReviewSignatureKeeps, ResolveKeeps, ResetKeeps DEF PeopleNext
<1>4. ASSUME NEW c \in Callers, HandleLostCandidate(c)  PROVE FindingsInv'
  BY <1>1, <1>4, OtherTypes, HandleKeeps
<1>5. ASSUME NEW p \in Paths, LeaseRunsOut(p) \/ ExpireFinding(p)  PROVE FindingsInv'
  BY <1>1, <1>5, OtherTypes, LeaseRunsOutKeeps, ExpireKeeps
<1>6. CASE NewDay \/ Crash
  BY <1>1, <1>6, OtherTypes, NewDayKeeps, CrashKeeps
<1> QED  BY <1>2, <1>3, <1>4, <1>5, <1>6 DEF FindingsNext

-----------------------------------------------------------------------------
(* The state of the review.                                                 *)

Items     == Changes \cup Paths
ChangeSet == [here : BOOLEAN, verdict : BOOLEAN, acked : BOOLEAN, resolved : BOOLEAN, blockable : BOOLEAN]
PassSet   == [pc : {"idle", "drift", "findings", "resolver", "close", "closing"}, todo : SUBSET Items,
              unsure : SUBSET Items, resolver : BOOLEAN, item : Items, fresh : BOOLEAN, was : Statuses]

ReviewTypes ==
    /\ change \in [Changes -> ChangeSet]
    /\ filters \subseteq Changes
    /\ cfg \in [enabled : BOOLEAN, resolver : BOOLEAN]
    /\ pass \in [Passes -> PassSet]
    /\ running \subseteq Passes
    /\ paused \in BOOLEAN /\ pressed \in Nat
    /\ decided \in [Items -> Nat]
    /\ reopened \in [Paths -> Nat]

Reviewed(i) == IF i \in Paths THEN finding[i].reviewed ELSE change[i].verdict
Present(i)  == IF i \in Paths THEN finding[i].status # "none" ELSE change[i].here

\* The lock is held by the one pass that is under way.
LockOK ==
    /\ \A q \in Passes : pass[q].pc # "idle" <=> q \in running
    /\ \A q, r \in running : q = r

\* A pass that goes through the changes holds only changes, and then only findings.
PassOK(q) ==
    /\ pass[q].pc = "idle" => pass[q].todo = {} /\ pass[q].unsure = {}
    /\ pass[q].pc = "drift" => pass[q].todo \cup pass[q].unsure \subseteq Changes
    /\ pass[q].pc \in {"findings", "close", "closing"} => pass[q].todo \cup pass[q].unsure \subseteq Paths
    /\ pass[q].pc \in {"close", "closing"} => pass[q].item \in Paths
    /\ pass[q].pc = "resolver" =>
         /\ pass[q].item \notin pass[q].todo
         /\ pass[q].item \in Changes => pass[q].todo \cup pass[q].unsure \subseteq Changes
         /\ pass[q].item \in Paths => pass[q].todo \cup pass[q].unsure \subseteq Paths

Holds(q, i)   == i \in pass[q].todo \cup pass[q].unsure
                 \/ (pass[q].pc \in {"resolver", "close", "closing"} /\ pass[q].item = i)
ToJudge(q, i) == i \in pass[q].todo \/ (pass[q].pc = "resolver" /\ pass[q].fresh /\ pass[q].item = i)

\* What a pass holds was recorded, and what it has yet to judge has no verdict.
ItemOK(i) ==
    /\ \A q \in Passes : (Holds(q, i) => Present(i)) /\ (ToJudge(q, i) => ~Reviewed(i))
    /\ Reviewed(i) => Present(i)
    /\ decided[i] <= (IF i \in Paths THEN reopened[i] ELSE 0) + (IF Reviewed(i) THEN 1 ELSE 0)

ReviewInv ==
    /\ FindingsInv
    /\ ReviewTypes
    /\ LockOK
    /\ \A q \in Passes : PassOK(q)
    /\ \A i \in Items : ItemOK(i)

-----------------------------------------------------------------------------
(* The steps of a pass.                                                     *)

\* A pass that is under way is alone.
LEMMA Alone ==
    ASSUME ReviewInv, NEW q \in Passes, pass[q].pc # "idle"
    PROVE  /\ running = {q}
           /\ \A r \in Passes : r # q => pass[r].pc = "idle" /\ pass[r].todo = {} /\ pass[r].unsure = {}
BY DEF ReviewInv, LockOK, PassOK, ReviewTypes

LEMMA ItemKinds ==
    /\ \A c \in Changes : c \in Items /\ c \notin Paths
    /\ \A p \in Paths : p \in Items /\ p \notin Changes
    /\ NoItem \in Items
BY ReviewAssumption, Constants DEF ReviewAssumption, Items

\* What a pass holds is of the kind it goes through.
LEMMA HeldKinds ==
    ASSUME ReviewInv, NEW q \in Passes
    PROVE  /\ pass[q] \in PassSet
           /\ \A i \in pass[q].todo \cup pass[q].unsure : i \in Items
           /\ \A i \in Changes : i \in pass[q].todo \cup pass[q].unsure /\ pass[q].pc \in {"drift", "findings"}
                => pass[q].pc = "drift"
           /\ \A i \in Paths : i \in pass[q].todo \cup pass[q].unsure /\ pass[q].pc \in {"drift", "findings"}
                => pass[q].pc = "findings"
<1>1. pass[q] \in PassSet
  BY DEF ReviewInv, ReviewTypes
<1>2. PassOK(q)
  BY DEF ReviewInv
<1> QED  BY <1>1, <1>2, ItemKinds DEF PassOK, PassSet

\* A pass under way moves on: its new place keeps the lock, and what it holds.
LEMMA PassMoves ==
    ASSUME ReviewInv, NEW q \in Passes, pass[q].pc # "idle",
           NEW np \in PassSet, pass' = [pass EXCEPT ![q] = np],
           running' = IF np.pc = "idle" THEN running \ {q} ELSE running,
           PassOK(q)'
    PROVE  /\ pass' \in [Passes -> PassSet] /\ running' \subseteq Passes
           /\ LockOK'
           /\ (\A r \in Passes : PassOK(r))'
<1>a. pass \in [Passes -> PassSet]
  BY DEF ReviewInv, ReviewTypes
<1>1. pass' \in [Passes -> PassSet] /\ pass'[q] = np /\ \A r \in Passes : r # q => pass'[r] = pass[r]
  BY <1>a
<1>2. /\ running = {q}
      /\ \A r \in Passes : r # q => pass[r].pc = "idle" /\ pass[r].todo = {} /\ pass[r].unsure = {}
  BY Alone
<1>3. LockOK' /\ running' \subseteq Passes
  BY <1>1, <1>2 DEF LockOK
<1>4. \A r \in Passes : r # q => PassOK(r)'
  BY <1>1, <1>2 DEF PassOK
<1> QED  BY <1>1, <1>3, <1>4

\* Nothing is held by a pass that is not under way.
LEMMA IdleHolds ==
    ASSUME NEW q \in Passes, pass[q].pc = "idle", pass[q].todo = {}, pass[q].unsure = {}
    PROVE  \A i : ~ Holds(q, i) /\ ~ ToJudge(q, i)
BY DEF Holds, ToJudge

\* An item keeps its state when no verdict on it changes and no pass takes it up.
LEMMA ItemsStay ==
    ASSUME ReviewInv, NEW q \in Passes, NEW i \in Items,
           \A r \in Passes : r # q => pass'[r] = pass[r] \/ (~ Holds(r, i)' /\ ~ ToJudge(r, i)'),
           Holds(q, i)' => Present(i)', ToJudge(q, i)' => ~ Reviewed(i)',
           Reviewed(i)' = Reviewed(i), Present(i) => Present(i)',
           decided'[i] = decided[i], i \in Paths => reopened'[i] = reopened[i]
    PROVE  ItemOK(i)'
<1>1. ItemOK(i)
  BY DEF ReviewInv
<1>2. \A r \in Passes : r # q => (Holds(r, i)' => Present(i)') /\ (ToJudge(r, i)' => ~Reviewed(i)')
  BY <1>1 DEF ItemOK, Holds, ToJudge
<1> QED  BY <1>1, <1>2 DEF ItemOK

LEMMA GoesFacts ==
    ASSUME ReviewInv, NEW q \in Passes,
           NEW to \in {"drift", "findings", "resolver", "close"}, NEW i \in Items,
           NEW todo \in SUBSET Items, NEW unsure \in SUBSET Items, Goes(q, to, i, todo, unsure)
    PROVE  \E np \in PassSet :
             /\ pass' = [pass EXCEPT ![q] = np]
             /\ np.pc = to /\ np.item = i /\ np.todo = todo /\ np.unsure = unsure
             /\ np.resolver = pass[q].resolver
             /\ np.fresh <=> i \in pass[q].todo
<1> DEFINE fresh == i \in pass[q].todo
           np == [pass[q] EXCEPT !.pc = to, !.item = i, !.todo = todo, !.unsure = unsure,
                                 !.was = "none", !.fresh = fresh]
<1>1. pass[q] \in PassSet /\ "none" \in Statuses /\ fresh \in BOOLEAN
  BY HeldKinds DEF Statuses
<1>2. pass' = [pass EXCEPT ![q] = np]
  BY DEF Goes
<1>3. fresh = (i \in pass[q].todo)
  OBVIOUS
<1> HIDE DEF fresh
<1>4. np \in PassSet
  BY <1>1 DEF PassSet
<1>5. /\ np.pc = to /\ np.item = i /\ np.todo = todo /\ np.unsure = unsure
      /\ np.fresh = fresh /\ np.resolver = pass[q].resolver
  BY <1>1 DEF PassSet
<1> HIDE DEF np
<1> QED  BY <1>2, <1>3, <1>4, <1>5

LEMMA QuietFindingsInv ==
    ASSUME FindingsInv, UNCHANGED findingsVars
    PROVE  FindingsInv'
BY DEF findingsVars, findingsBounds, history, FindingsInv, FindingsTypes, JudgeOK, AttemptsOK,
     ToBeAsked, BeingAsked, FindingOK, LostOK, Recording, ReadOK, RequestOK, ConsumerOK

LEMMA BeginKeeps ==
    ASSUME ReviewInv, NEW q \in Passes, Begin(q)
    PROVE  ReviewInv'
<1> DEFINE np == [NoPass EXCEPT !.pc = "drift", !.resolver = cfg.resolver, !.todo = UnreviewedChanges,
                                !.unsure = IF cfg.resolver THEN UnresolvedChanges ELSE {}]
<1>a. /\ ReviewTypes /\ FindingsInv /\ pass \in [Passes -> PassSet]
      /\ UnreviewedChanges \subseteq Changes /\ UnresolvedChanges \subseteq Changes
      /\ \A c \in UnreviewedChanges : change[c].here /\ ~ change[c].verdict
      /\ \A c \in UnresolvedChanges : change[c].verdict
  BY DEF ReviewInv, ReviewTypes, UnreviewedChanges, UnresolvedChanges
<1>1. np \in PassSet /\ np.pc = "drift" /\ np.todo = UnreviewedChanges /\ np.unsure \subseteq UnresolvedChanges
      /\ np.item = NoItem
  <2>1. cfg.resolver \in BOOLEAN
    BY <1>a DEF ReviewTypes
  <2> QED  BY <1>a, <2>1, ItemKinds DEF PassSet, NoPass, Statuses, Items
<1>2. /\ running = {} /\ running' = {q} /\ pass' = [pass EXCEPT ![q] = np]
      /\ \A r \in Passes : pass[r].pc = "idle" /\ pass[r].todo = {} /\ pass[r].unsure = {}
      /\ UNCHANGED <<change, filters, cfg, paused, decided, reopened, findingsVars>>
      /\ pressed' \in Nat
  BY <1>a DEF Begin, MayRun, ReviewInv, LockOK, PassOK, ReviewTypes, UnchangedFindings
<1> HIDE DEF np
<1>3. /\ pass'[q] = np /\ \A r \in Passes : r # q => pass'[r] = pass[r]
      /\ pass' \in [Passes -> PassSet]
  BY <1>a, <1>1, <1>2
<1>4. FindingsInv'
  BY <1>a, <1>2, QuietFindingsInv
<1>5. ReviewTypes'
  BY <1>a, <1>2, <1>3 DEF ReviewTypes
<1>6. LockOK'
  BY <1>1, <1>2, <1>3 DEF LockOK
<1>7. (\A r \in Passes : PassOK(r))'
  BY <1>a, <1>1, <1>2, <1>3 DEF PassOK
<1>8. ASSUME NEW i \in Items PROVE ItemOK(i)'
  <2>1. UNCHANGED <<Reviewed(i), Present(i)>>
    BY <1>2 DEF Reviewed, Present, findingsVars
  <2>2. Holds(q, i)' => i \in Changes /\ ((change[i].here /\ ~ change[i].verdict) \/ change[i].verdict)
    BY <1>a, <1>1, <1>3 DEF Holds
  <2>3. ItemOK(i)
    BY DEF ReviewInv
  <2>4. Holds(q, i)' => Present(i)'
    BY <2>1, <2>2, <2>3, ItemKinds DEF Present, Reviewed, ItemOK
  <2>5. ToJudge(q, i)' => ~ Reviewed(i)'
    BY <1>a, <1>1, <1>3, <2>1, ItemKinds DEF ToJudge, Reviewed
  <2> QED  BY <1>2, <1>3, <2>1, <2>4, <2>5, ItemsStay
<1> QED  BY <1>4, <1>5, <1>6, <1>7, <1>8 DEF ReviewInv

\* A write to a finding that is there disturbs nothing of the judge.
LEMMA FindingWritten ==
    ASSUME FindingsInv, OnlyFinding, NEW p \in Paths, NEW f \in FindingSet,
           finding[p].status # "none", f.status # "none", finding' = [finding EXCEPT ![p] = f]
    PROVE  /\ FindingsInv'
           /\ finding'[p] = f /\ \A r \in Paths : r # p => finding'[r] = finding[r]
           /\ FindingsStay
<1>1. /\ finding' \in [Paths -> FindingSet] /\ finding'[p] = f
      /\ \A r \in Paths : r # p => finding'[r] = finding[r]
      /\ UNCHANGED <<sig, versions, judge, lost, person, dayCount, traces, acts, crashes, asked, cut>>
  BY DEF FindingsInv, FindingsTypes, OnlyFinding, findingsBounds, history
<1>2. FindingsTypes' /\ FindingsStay
  BY <1>1 DEF FindingsInv, FindingsTypes, FindingsStay
<1>3. (\A r \in Paths : FindingOK(r))'
  BY <1>1 DEF FindingsInv, FindingOK
<1>4. RequestOK'
  <2>1. person.path \in Paths
    BY DEF FindingsInv, FindingsTypes, RequestSet
  <2> QED  BY <2>1, <1>1, <1>2 DEF FindingsInv, FindingsStay, RequestOK
<1> QED  BY <1>1, <1>2, <1>3, <1>4, QuietJudge, QuietReads DEF FindingsInv

LEMMA ReviewWritten ==
    ASSUME FindingsInv, OnlyFinding, NEW p \in Paths, NEW resolved \in BOOLEAN,
           finding[p].status # "none", SetReview(p, resolved)
    PROVE  /\ FindingsInv' /\ FindingsStay
           /\ finding'[p].reviewed /\ finding'[p].status = finding[p].status
           /\ \A r \in Paths : r # p => finding'[r] = finding[r]
<1> DEFINE f == [finding[p] EXCEPT !.reviewed = TRUE, !.resolved = resolved]
<1>1. finding[p] \in FindingSet
  BY DEF FindingsInv, FindingsTypes
<1>2. f \in FindingSet /\ f.reviewed = TRUE /\ f.status = finding[p].status
  BY <1>1 DEF FindingSet
<1>3. finding' = [finding EXCEPT ![p] = f]
  BY DEF SetReview
<1> HIDE DEF f
<1>4. FindingsInv' /\ FindingsStay /\ finding'[p] = f /\ \A r \in Paths : r # p => finding'[r] = finding[r]
  BY <1>2, <1>3, FindingWritten
<1> QED  BY <1>2, <1>4

LEMMA VerdictWritten ==
    ASSUME ReviewTypes, NEW c \in Changes, NEW ack \in BOOLEAN, NEW resolved \in BOOLEAN,
           SetVerdict(c, ack, resolved)
    PROVE  /\ change' \in [Changes -> ChangeSet]
           /\ change'[c].verdict /\ change'[c].here = change[c].here
           /\ \A d \in Changes : d # c => change'[d] = change[d]
<1>1. change[c] \in ChangeSet /\ (change[c].acked \/ ack) \in BOOLEAN
  BY DEF ReviewTypes, ChangeSet
<1> DEFINE acked == change[c].acked \/ ack
           new == [change[c] EXCEPT !.verdict = TRUE, !.resolved = resolved, !.acked = acked]
<1>2. change' = [change EXCEPT ![c] = new] /\ acked \in BOOLEAN
  BY <1>1 DEF SetVerdict
<1> HIDE DEF acked
<1>3. new \in ChangeSet /\ new.verdict = TRUE /\ new.here = change[c].here
  BY <1>1, <1>2 DEF ChangeSet
<1> HIDE DEF new
<1> QED  BY <1>2, <1>3 DEF ReviewTypes

LEMMA TurnKeeps ==
    ASSUME ReviewInv, NEW q \in Passes, TurnToFindings(q)
    PROVE  ReviewInv'
<1> DEFINE np == [pass[q] EXCEPT !.pc = "findings", !.todo = UnreviewedFindings,
                                 !.unsure = IF pass[q].resolver THEN UnresolvedFindings ELSE {}]
<1>a. /\ ReviewTypes /\ FindingsInv /\ pass[q] \in PassSet
      /\ \A p \in UnreviewedFindings : p \in Paths /\ finding[p].status = "open" /\ ~ finding[p].reviewed
      /\ \A p \in UnresolvedFindings : p \in Paths /\ finding[p].status = "open"
  BY HeldKinds DEF ReviewInv, UnreviewedFindings, UnresolvedFindings
<1>1. np \in PassSet /\ np.pc = "findings" /\ np.todo = UnreviewedFindings
      /\ np.unsure \subseteq UnresolvedFindings
  BY <1>a DEF PassSet, Items
<1>2. /\ pass[q].pc = "drift" /\ pass' = [pass EXCEPT ![q] = np]
      /\ UNCHANGED <<change, filters, cfg, running, paused, pressed, decided, reopened, findingsVars>>
  BY DEF TurnToFindings, UnchangedFindings
<1> HIDE DEF np
<1>3. /\ pass'[q] = np /\ \A r \in Passes : r # q => pass'[r] = pass[r]
  BY <1>a, <1>2 DEF ReviewTypes
<1>4. PassOK(q)'
  BY <1>a, <1>1, <1>3 DEF PassOK
<1>5. /\ pass' \in [Passes -> PassSet] /\ running' \subseteq Passes
      /\ LockOK' /\ (\A r \in Passes : PassOK(r))'
  <2>1. running' = IF np.pc = "idle" THEN running \ {q} ELSE running
    BY <1>1, <1>2
  <2> QED  BY <2>1, <1>1, <1>2, <1>4, PassMoves
<1>6. FindingsInv'
  BY <1>a, <1>2, QuietFindingsInv
<1>7. ReviewTypes'
  BY <1>a, <1>2, <1>5 DEF ReviewTypes
<1>8. ASSUME NEW i \in Items PROVE ItemOK(i)'
  <2>1. UNCHANGED <<Reviewed(i), Present(i)>>
    BY <1>2 DEF Reviewed, Present, findingsVars
  <2>2. Holds(q, i)' => i \in Paths /\ finding[i].status = "open"
    BY <1>a, <1>1, <1>3 DEF Holds
  <2>3. ToJudge(q, i)' => i \in Paths /\ ~ finding[i].reviewed
    BY <1>a, <1>1, <1>3 DEF ToJudge
  <2>4. (Holds(q, i)' => Present(i)') /\ (ToJudge(q, i)' => ~ Reviewed(i)')
    BY <2>1, <2>2, <2>3 DEF Present, Reviewed
  <2> QED  BY <1>2, <1>3, <2>1, <2>4, ItemsStay
<1> QED  BY <1>5, <1>6, <1>7, <1>8 DEF ReviewInv

LEMMA StopKeeps ==
    ASSUME ReviewInv, NEW q \in Passes, EndPass(q) \/ ModelFails(q)
    PROVE  ReviewInv'
<1>a. ReviewTypes /\ FindingsInv
  BY DEF ReviewInv
<1>1. NoPass \in PassSet /\ NoPass.pc = "idle" /\ NoPass.todo = {} /\ NoPass.unsure = {}
  BY ItemKinds DEF NoPass, PassSet, Statuses
<1>2. /\ pass[q].pc # "idle" /\ pass' = [pass EXCEPT ![q] = NoPass] /\ running' = running \ {q}
      /\ UNCHANGED <<change, filters, cfg, pressed, decided, reopened, findingsVars>>
      /\ paused' \in BOOLEAN
  BY <1>a DEF EndPass, ModelFails, Unlocked, UnchangedFindings, ReviewTypes
<1>3. pass'[q] = NoPass /\ \A r \in Passes : r # q => pass'[r] = pass[r]
  BY <1>a, <1>2 DEF ReviewTypes
<1>4. PassOK(q)'
  BY <1>1, <1>3 DEF PassOK
<1>5. /\ pass' \in [Passes -> PassSet] /\ running' \subseteq Passes
      /\ LockOK' /\ (\A r \in Passes : PassOK(r))'
  <2>1. running' = IF NoPass.pc = "idle" THEN running \ {q} ELSE running
    BY <1>1, <1>2
  <2> QED  BY <2>1, <1>1, <1>2, <1>4, PassMoves
<1>6. FindingsInv'
  BY <1>a, <1>2, QuietFindingsInv
<1>7. ReviewTypes'
  BY <1>a, <1>2, <1>5 DEF ReviewTypes
<1>8. ASSUME NEW i \in Items PROVE ItemOK(i)'
  <2>1. UNCHANGED <<Reviewed(i), Present(i)>>
    BY <1>2 DEF Reviewed, Present, findingsVars
  <2>2. ~ Holds(q, i)' /\ ~ ToJudge(q, i)'
    BY <1>1, <1>3 DEF Holds, ToJudge
  <2> QED  BY <1>2, <1>3, <2>1, <2>2, ItemsStay
<1> QED  BY <1>5, <1>6, <1>7, <1>8 DEF ReviewInv

LEMMA HandOverKeeps ==
    ASSUME ReviewInv, NEW q \in Passes, NEW i \in Items, HandOver(q, i)
    PROVE  ReviewInv'
<1>a. ReviewTypes /\ FindingsInv /\ pass[q] \in PassSet /\ PassOK(q)
  BY HeldKinds DEF ReviewInv
<1>1. /\ pass[q].pc \in {"drift", "findings"} /\ pass[q].todo = {} /\ i \in pass[q].unsure
      /\ Goes(q, "resolver", i, {}, pass[q].unsure \ {i})
      /\ UNCHANGED <<change, filters, cfg, running, paused, pressed, decided, reopened, findingsVars>>
  BY DEF HandOver, UnchangedFindings
<1>2. PICK np \in PassSet :
        /\ pass' = [pass EXCEPT ![q] = np]
        /\ np.pc = "resolver" /\ np.item = i /\ np.todo = {} /\ np.unsure = pass[q].unsure \ {i}
        /\ np.fresh <=> i \in pass[q].todo
  <2>1. pass[q].unsure \ {i} \in SUBSET Items /\ {} \in SUBSET Items
    BY <1>a DEF PassSet
  <2> QED  BY <2>1, <1>1, GoesFacts
<1>3. pass'[q] = np /\ \A r \in Passes : r # q => pass'[r] = pass[r]
  BY <1>a, <1>2 DEF ReviewTypes
<1>4. PassOK(q)'
  BY <1>a, <1>1, <1>2, <1>3, ItemKinds DEF PassOK
<1>5. /\ pass' \in [Passes -> PassSet] /\ running' \subseteq Passes
      /\ LockOK' /\ (\A r \in Passes : PassOK(r))'
  <2>1. running' = IF np.pc = "idle" THEN running \ {q} ELSE running
    BY <1>1, <1>2
  <2> QED  BY <2>1, <1>1, <1>2, <1>4, PassMoves
<1>6. FindingsInv'
  BY <1>a, <1>1, QuietFindingsInv
<1>7. ReviewTypes'
  BY <1>a, <1>1, <1>5 DEF ReviewTypes
<1>8. ASSUME NEW j \in Items PROVE ItemOK(j)'
  <2>1. UNCHANGED <<Reviewed(j), Present(j)>>
    BY <1>1 DEF Reviewed, Present, findingsVars
  <2>2. (Holds(q, j)' => Holds(q, j)) /\ ~ ToJudge(q, j)'
    BY <1>1, <1>2, <1>3 DEF Holds, ToJudge
  <2>3. Holds(q, j)' => Present(j)'
    BY <2>1, <2>2 DEF ReviewInv, ItemOK
  <2> QED  BY <1>1, <1>3, <2>1, <2>2, <2>3, ItemsStay
<1> QED  BY <1>5, <1>6, <1>7, <1>8 DEF ReviewInv

\* What the model is unsure of goes to the resolver, with no verdict yet.
LEMMA AskResolverKeeps ==
    ASSUME ReviewInv, NEW q \in Passes, NEW i \in Items, Deciding(q, i), AskResolver(q, i),
           UNCHANGED <<filters, cfg, running, paused, pressed, reopened>>
    PROVE  ReviewInv'
<1>a. ReviewTypes /\ FindingsInv /\ pass[q] \in PassSet /\ PassOK(q)
  BY HeldKinds DEF ReviewInv
<1>1. /\ pass[q].pc \in {"drift", "findings"} /\ i \in pass[q].todo
      /\ Goes(q, "resolver", i, pass[q].todo \ {i}, pass[q].unsure)
      /\ UNCHANGED <<change, filters, cfg, running, paused, pressed, decided, reopened, findingsVars>>
  BY DEF Deciding, AskResolver, UnchangedFindings
<1>2. PICK np \in PassSet :
        /\ pass' = [pass EXCEPT ![q] = np]
        /\ np.pc = "resolver" /\ np.item = i /\ np.todo = pass[q].todo \ {i} /\ np.unsure = pass[q].unsure
  <2>1. pass[q].todo \ {i} \in SUBSET Items /\ pass[q].unsure \in SUBSET Items
    BY <1>a DEF PassSet
  <2> QED  BY <2>1, <1>1, GoesFacts
<1>3. pass'[q] = np /\ \A r \in Passes : r # q => pass'[r] = pass[r]
  BY <1>a, <1>2 DEF ReviewTypes
<1>4. PassOK(q)'
  BY <1>a, <1>1, <1>2, <1>3, ItemKinds DEF PassOK
<1>5. /\ pass' \in [Passes -> PassSet] /\ running' \subseteq Passes
      /\ LockOK' /\ (\A r \in Passes : PassOK(r))'
  <2>1. running' = IF np.pc = "idle" THEN running \ {q} ELSE running
    BY <1>1, <1>2
  <2> QED  BY <2>1, <1>1, <1>2, <1>4, PassMoves
<1>6. FindingsInv'
  BY <1>a, <1>1, QuietFindingsInv
<1>7. ReviewTypes'
  BY <1>a, <1>1, <1>5 DEF ReviewTypes
<1>8. ASSUME NEW j \in Items PROVE ItemOK(j)'
  <2>1. UNCHANGED <<Reviewed(j), Present(j)>>
    BY <1>1 DEF Reviewed, Present, findingsVars
  <2>2. (Holds(q, j)' => Holds(q, j)) /\ (ToJudge(q, j)' => ToJudge(q, j))
    BY <1>1, <1>2, <1>3 DEF Holds, ToJudge
  <2>3. (Holds(q, j)' => Present(j)') /\ (ToJudge(q, j)' => ~ Reviewed(j)')
    BY <2>1, <2>2 DEF ReviewInv, ItemOK
  <2> QED  BY <1>1, <1>3, <2>1, <2>3, ItemsStay
<1> QED  BY <1>5, <1>6, <1>7, <1>8 DEF ReviewInv

\* A verdict on an item that the pass holds: it is stored with the decision when
\* the item was still to be judged.
LEMMA VerdictItems ==
    ASSUME ReviewInv, NEW q \in Passes, NEW i \in Items, NEW np \in PassSet, pass[q].pc # "idle",
           pass' = [pass EXCEPT ![q] = np], Holds(q, i),
           np.pc \in {"drift", "findings", "close"}, np.pc = "close" => np.item = i,
           np.todo \subseteq pass[q].todo \ {i}, np.unsure \subseteq pass[q].unsure,
           Reviewed(i)', Present(i)' = Present(i),
           \A j \in Items : j # i => Reviewed(j)' = Reviewed(j) /\ Present(j)' = Present(j),
           \/ ToJudge(q, i) /\ decided' = [decided EXCEPT ![i] = decided[i] + 1]
           \/ decided' = decided,
           reopened' = reopened
    PROVE  (\A j \in Items : ItemOK(j))' /\ decided' \in [Items -> Nat]
<1>a. decided \in [Items -> Nat] /\ reopened \in [Paths -> Nat] /\ pass \in [Passes -> PassSet]
  BY DEF ReviewInv, ReviewTypes
<1>1. /\ pass'[q] = np
      /\ \A r \in Passes : r # q => \A j \in Items : ~ Holds(r, j)' /\ ~ ToJudge(r, j)'
  <2>1. \A r \in Passes : r # q => pass'[r].pc = "idle" /\ pass'[r].todo = {} /\ pass'[r].unsure = {}
    BY <1>a, Alone
  <2> QED  BY <1>a, <2>1 DEF Holds, ToJudge
<1>2. decided' \in [Items -> Nat]
  BY <1>a
<1>3. ItemOK(i) /\ Present(i) /\ decided[i] \in Nat /\ (i \in Paths => reopened[i] \in Nat)
  BY <1>a DEF ReviewInv, ItemOK
<1>4. ItemOK(i)'
  <2>1. ~ ToJudge(q, i)' /\ Present(i)'
    BY <1>1, <1>3 DEF ToJudge
  <2>2. decided'[i] <= (IF i \in Paths THEN reopened[i] ELSE 0) + 1
    <3>1. CASE ToJudge(q, i) /\ decided' = [decided EXCEPT ![i] = decided[i] + 1]
      <4>1. ~ Reviewed(i) /\ decided'[i] = decided[i] + 1
        BY <1>a, <1>3, <3>1 DEF ItemOK
      <4> QED  BY <1>3, <4>1 DEF ItemOK
    <3>2. CASE decided' = decided
      BY <1>3, <3>2 DEF ItemOK
    <3> QED  BY <3>1, <3>2
  <2> QED  BY <1>1, <2>1, <2>2 DEF ItemOK
<1>5. ASSUME NEW j \in Items, j # i  PROVE ItemOK(j)'
  <2>1. decided'[j] = decided[j] /\ Reviewed(j)' = Reviewed(j) /\ Present(j)' = Present(j) /\ ItemOK(j)
    BY <1>a, <1>5 DEF ReviewInv
  <2>2. (Holds(q, j)' => Holds(q, j)) /\ (ToJudge(q, j)' => ToJudge(q, j))
    BY <1>1, <1>5 DEF Holds, ToJudge
  <2> QED  BY <1>1, <2>1, <2>2 DEF ItemOK
<1> QED  BY <1>2, <1>4, <1>5

LEMMA DecideChangeKeeps ==
    ASSUME ReviewInv, NEW q \in Passes, NEW c \in Changes, NEW sure \in BOOLEAN, DecideChange(q, c, sure)
    PROVE  ReviewInv'
<1>a. ReviewTypes /\ FindingsInv /\ pass[q] \in PassSet /\ PassOK(q) /\ c \in Items /\ c \notin Paths
  BY HeldKinds, ItemKinds DEF ReviewInv
<1>b. pass[q].pc = "drift" /\ c \in pass[q].todo
  BY <1>a, HeldKinds DEF DecideChange, Deciding
<1>1. CASE AskResolver(q, c)
  BY <1>a, <1>1, AskResolverKeeps DEF DecideChange
<1>2. CASE /\ Goes(q, "drift", NoItem, pass[q].todo \ {c}, pass[q].unsure)
           /\ SetVerdict(c, sure, FALSE) /\ Stored(c) /\ UnchangedFindings
  <2>1. UNCHANGED <<filters, cfg, running, paused, pressed, reopened, findingsVars>>
        /\ decided' = [decided EXCEPT ![c] = decided[c] + 1]
    BY <1>2 DEF DecideChange, UnchangedFindings, Stored
  <2>2. PICK np \in PassSet :
          /\ pass' = [pass EXCEPT ![q] = np]
          /\ np.pc = "drift" /\ np.todo = pass[q].todo \ {c} /\ np.unsure = pass[q].unsure
    <3>1. pass[q].todo \ {c} \in SUBSET Items /\ pass[q].unsure \in SUBSET Items
      BY <1>a DEF PassSet
    <3> QED  BY <3>1, <1>2, ItemKinds, GoesFacts
  <2>3. /\ change' \in [Changes -> ChangeSet]
        /\ change'[c].verdict /\ change'[c].here = change[c].here
        /\ \A d \in Changes : d # c => change'[d] = change[d]
    BY <1>2, <1>a, VerdictWritten
  <2>4. pass'[q] = np
    BY <1>a, <2>2 DEF ReviewTypes
  <2>5. PassOK(q)'
    BY <1>a, <1>b, <2>2, <2>4 DEF PassOK
  <2>6. /\ pass' \in [Passes -> PassSet] /\ running' \subseteq Passes
        /\ LockOK' /\ (\A r \in Passes : PassOK(r))'
    <3>1. running' = IF np.pc = "idle" THEN running \ {q} ELSE running
      BY <2>1, <2>2
    <3> QED  BY <3>1, <1>b, <2>2, <2>5, PassMoves
  <2>7. FindingsInv'
    BY <1>a, <2>1, QuietFindingsInv
  <2>8. /\ Reviewed(c)' /\ Present(c)' = Present(c)
        /\ \A j \in Items : j # c => Reviewed(j)' = Reviewed(j) /\ Present(j)' = Present(j)
    BY <1>a, <2>1, <2>3 DEF Reviewed, Present, findingsVars, Items
  <2>9. Holds(q, c) /\ ToJudge(q, c)
    BY <1>b DEF Holds, ToJudge
  <2>10. (\A j \in Items : ItemOK(j))' /\ decided' \in [Items -> Nat]
    <3>1. np.todo \subseteq pass[q].todo \ {c} /\ np.unsure \subseteq pass[q].unsure
      BY <2>2
    <3> QED  BY <3>1, <1>a, <1>b, <2>1, <2>2, <2>8, <2>9, VerdictItems
  <2>11. ReviewTypes'
    BY <1>a, <2>1, <2>3, <2>6, <2>10 DEF ReviewTypes
  <2> QED  BY <2>6, <2>7, <2>10, <2>11 DEF ReviewInv
<1> QED  BY <1>1, <1>2 DEF DecideChange

LEMMA DecideFindingKeeps ==
    ASSUME ReviewInv, NEW q \in Passes, NEW p \in Paths, NEW sure \in BOOLEAN, DecideFinding(q, p, sure)
    PROVE  ReviewInv'
<1>a. ReviewTypes /\ FindingsInv /\ pass[q] \in PassSet /\ PassOK(q) /\ p \in Items /\ p \notin Changes
  BY HeldKinds, ItemKinds DEF ReviewInv
<1>b. pass[q].pc = "findings" /\ p \in pass[q].todo
  BY <1>a, HeldKinds DEF DecideFinding, Deciding
<1>1. CASE AskResolver(q, p)
  BY <1>a, <1>1, AskResolverKeeps DEF DecideFinding
<1>2. CASE /\ Goes(q, IF sure THEN "close" ELSE "findings", IF sure THEN p ELSE NoItem,
                   pass[q].todo \ {p}, pass[q].unsure)
           /\ SetReview(p, sure) /\ Stored(p) /\ UNCHANGED change /\ OnlyFinding
  <2>1. UNCHANGED <<change, filters, cfg, running, paused, pressed, reopened>>
        /\ decided' = [decided EXCEPT ![p] = decided[p] + 1]
    BY <1>2 DEF DecideFinding, Stored
  <2> DEFINE to == IF sure THEN "close" ELSE "findings"
             it == IF sure THEN p ELSE NoItem
  <2>2. PICK np \in PassSet :
          /\ pass' = [pass EXCEPT ![q] = np]
          /\ np.pc = to /\ np.item = it /\ np.todo = pass[q].todo \ {p} /\ np.unsure = pass[q].unsure
    <3>1. /\ pass[q].todo \ {p} \in SUBSET Items /\ pass[q].unsure \in SUBSET Items
          /\ to \in {"drift", "findings", "resolver", "close"} /\ it \in Items
          /\ Goes(q, to, it, pass[q].todo \ {p}, pass[q].unsure)
      BY <1>a, <1>2, ItemKinds DEF PassSet
    <3> HIDE DEF to, it
    <3> QED  BY <3>1, GoesFacts
  <2>3. finding[p].status # "none"
    <3>1. Holds(q, p) /\ ItemOK(p)
      BY <1>b, <1>a DEF Holds, ReviewInv
    <3> QED  BY <3>1 DEF ItemOK, Present
  <2>4. /\ FindingsInv' /\ FindingsStay
        /\ finding'[p].reviewed /\ finding'[p].status = finding[p].status
        /\ \A r \in Paths : r # p => finding'[r] = finding[r]
    BY <1>2, <1>a, <2>3, ReviewWritten
  <2>5. pass'[q] = np
    BY <1>a, <2>2 DEF ReviewTypes
  <2>6. PassOK(q)'
    BY <1>a, <1>b, <2>2, <2>5 DEF PassOK
  <2>7. /\ pass' \in [Passes -> PassSet] /\ running' \subseteq Passes
        /\ LockOK' /\ (\A r \in Passes : PassOK(r))'
    <3>1. running' = IF np.pc = "idle" THEN running \ {q} ELSE running
      BY <2>1, <2>2
    <3> QED  BY <3>1, <1>b, <2>2, <2>6, PassMoves
  <2>8. /\ Reviewed(p)' /\ Present(p)' = Present(p)
        /\ \A j \in Items : j # p => Reviewed(j)' = Reviewed(j) /\ Present(j)' = Present(j)
    BY <1>a, <2>1, <2>4 DEF Reviewed, Present, Items
  <2>9. Holds(q, p) /\ ToJudge(q, p)
    BY <1>b DEF Holds, ToJudge
  <2>10. (\A j \in Items : ItemOK(j))' /\ decided' \in [Items -> Nat]
    <3>1. np.todo \subseteq pass[q].todo \ {p} /\ np.unsure \subseteq pass[q].unsure
          /\ np.pc \in {"drift", "findings", "close"} /\ (np.pc = "close" => np.item = p)
      BY <2>2
    <3> QED  BY <3>1, <1>a, <1>b, <2>1, <2>2, <2>8, <2>9, VerdictItems
  <2>11. ReviewTypes'
    BY <1>a, <2>1, <2>7, <2>10 DEF ReviewTypes
  <2> QED  BY <2>4, <2>7, <2>10, <2>11 DEF ReviewInv
<1> QED  BY <1>1, <1>2 DEF DecideFinding

LEMMA ResolveChangeKeeps ==
    ASSUME ReviewInv, NEW q \in Passes, NEW b \in BOOLEAN, ResolveChange(q, b)
    PROVE  ReviewInv'
<1>0. PICK c : c = pass[q].item
  OBVIOUS
<1>a. /\ ReviewTypes /\ FindingsInv /\ pass[q] \in PassSet /\ PassOK(q)
      /\ c \in Changes /\ c \in Items /\ c \notin Paths /\ pass[q].pc = "resolver"
  BY <1>0, HeldKinds, ItemKinds DEF ReviewInv, ResolveChange
<1>1. /\ UNCHANGED <<cfg, running, paused, pressed, reopened, findingsVars>>
      /\ SetVerdict(c, TRUE, TRUE)
      /\ Goes(q, "drift", NoItem, pass[q].todo, pass[q].unsure)
      /\ \/ ToJudge(q, c) /\ decided' = [decided EXCEPT ![c] = decided[c] + 1]
         \/ decided' = decided
      /\ filters' \subseteq Changes
  BY <1>0, <1>a DEF ResolveChange, UnchangedFindings, Stored, GoesOn, ToJudge, ReviewTypes
<1>2. PICK np \in PassSet :
        /\ pass' = [pass EXCEPT ![q] = np]
        /\ np.pc = "drift" /\ np.todo = pass[q].todo /\ np.unsure = pass[q].unsure
  <2>1. pass[q].todo \in SUBSET Items /\ pass[q].unsure \in SUBSET Items
    BY <1>a DEF PassSet
  <2> QED  BY <2>1, <1>1, ItemKinds, GoesFacts
<1>3. /\ change' \in [Changes -> ChangeSet]
      /\ change'[c].verdict /\ change'[c].here = change[c].here
      /\ \A d \in Changes : d # c => change'[d] = change[d]
  BY <1>1, <1>a, VerdictWritten
<1>4. pass'[q] = np
  BY <1>a, <1>2 DEF ReviewTypes
<1>5. PassOK(q)'
  BY <1>0, <1>a, <1>2, <1>4 DEF PassOK
<1>6. /\ pass' \in [Passes -> PassSet] /\ running' \subseteq Passes
      /\ LockOK' /\ (\A r \in Passes : PassOK(r))'
  <2>1. running' = IF np.pc = "idle" THEN running \ {q} ELSE running
    BY <1>1, <1>2
  <2> QED  BY <2>1, <1>a, <1>2, <1>5, PassMoves
<1>7. FindingsInv'
  BY <1>a, <1>1, QuietFindingsInv
<1>8. /\ Reviewed(c)' /\ Present(c)' = Present(c)
      /\ \A j \in Items : j # c => Reviewed(j)' = Reviewed(j) /\ Present(j)' = Present(j)
  BY <1>a, <1>1, <1>3 DEF Reviewed, Present, findingsVars, Items
<1>9. Holds(q, c)
  BY <1>0, <1>a DEF Holds
<1>10. (\A j \in Items : ItemOK(j))' /\ decided' \in [Items -> Nat]
  <2>1. np.todo \subseteq pass[q].todo \ {c} /\ np.unsure \subseteq pass[q].unsure
    BY <1>0, <1>2, <1>a DEF PassOK
  <2> QED  BY <2>1, <1>a, <1>1, <1>2, <1>8, <1>9, VerdictItems
<1>11. ReviewTypes'
  BY <1>a, <1>1, <1>3, <1>6, <1>10 DEF ReviewTypes
<1> QED  BY <1>6, <1>7, <1>10, <1>11 DEF ReviewInv

LEMMA ResolveFindingKeeps ==
    ASSUME ReviewInv, NEW q \in Passes, NEW b \in BOOLEAN, ResolveFinding(q, b)
    PROVE  ReviewInv'
<1>0. PICK p : p = pass[q].item
  OBVIOUS
<1> DEFINE to == IF b THEN "close" ELSE "findings"
<1>a. /\ ReviewTypes /\ FindingsInv /\ pass[q] \in PassSet /\ PassOK(q)
      /\ p \in Paths /\ p \in Items /\ p \notin Changes /\ pass[q].pc = "resolver"
  BY <1>0, HeldKinds, ItemKinds DEF ReviewInv, ResolveFinding
<1>1. /\ UNCHANGED <<change, filters, cfg, running, paused, pressed, reopened>>
      /\ SetReview(p, TRUE) /\ OnlyFinding
      /\ Goes(q, to, p, pass[q].todo, pass[q].unsure)
      /\ \/ ToJudge(q, p) /\ decided' = [decided EXCEPT ![p] = decided[p] + 1]
         \/ decided' = decided
      /\ to \in {"findings", "close"}
  BY <1>0, <1>a DEF ResolveFinding, Stored, ToJudge
<1> HIDE DEF to
<1>2. PICK np \in PassSet :
        /\ pass' = [pass EXCEPT ![q] = np]
        /\ np.pc = to /\ np.item = p /\ np.todo = pass[q].todo /\ np.unsure = pass[q].unsure
  <2>1. pass[q].todo \in SUBSET Items /\ pass[q].unsure \in SUBSET Items
    BY <1>a DEF PassSet
  <2> QED  BY <2>1, <1>1, <1>a, GoesFacts
<1>3. Holds(q, p) /\ finding[p].status # "none"
  <2>1. Holds(q, p) /\ ItemOK(p)
    BY <1>0, <1>a DEF Holds, ReviewInv
  <2> QED  BY <2>1, <1>a DEF ItemOK, Present
<1>4. /\ FindingsInv' /\ FindingsStay
      /\ finding'[p].reviewed /\ finding'[p].status = finding[p].status
      /\ \A r \in Paths : r # p => finding'[r] = finding[r]
  BY <1>1, <1>a, <1>3, ReviewWritten
<1>5. pass'[q] = np
  BY <1>a, <1>2 DEF ReviewTypes
<1>6. PassOK(q)'
  BY <1>0, <1>a, <1>1, <1>2, <1>5 DEF PassOK
<1>7. /\ pass' \in [Passes -> PassSet] /\ running' \subseteq Passes
      /\ LockOK' /\ (\A r \in Passes : PassOK(r))'
  <2>1. running' = IF np.pc = "idle" THEN running \ {q} ELSE running
    BY <1>1, <1>2
  <2> QED  BY <2>1, <1>a, <1>2, <1>6, PassMoves
<1>8. /\ Reviewed(p)' /\ Present(p)' = Present(p)
      /\ \A j \in Items : j # p => Reviewed(j)' = Reviewed(j) /\ Present(j)' = Present(j)
  BY <1>a, <1>1, <1>4 DEF Reviewed, Present, Items
<1>9. (\A j \in Items : ItemOK(j))' /\ decided' \in [Items -> Nat]
  <2>1. np.todo \subseteq pass[q].todo \ {p} /\ np.unsure \subseteq pass[q].unsure
        /\ np.pc \in {"drift", "findings", "close"}
    BY <1>0, <1>1, <1>2, <1>a DEF PassOK
  <2> QED  BY <2>1, <1>a, <1>1, <1>2, <1>3, <1>8, VerdictItems
<1>10. ReviewTypes'
  BY <1>a, <1>1, <1>7, <1>9 DEF ReviewTypes
<1> QED  BY <1>4, <1>7, <1>9, <1>10 DEF ReviewInv

\* The finding is closed in two steps; its verdict stays.
LEMMA CloseKeeps ==
    ASSUME ReviewInv, NEW q \in Passes, BeginClose(q) \/ Close(q)
    PROVE  ReviewInv'
<1>a. /\ ReviewTypes /\ FindingsInv /\ pass[q] \in PassSet /\ PassOK(q) /\ pass[q].pc \in {"close", "closing"}
      /\ pass[q].item \in Paths /\ finding \in [Paths -> FindingSet]
  BY HeldKinds DEF ReviewInv, PassOK, BeginClose, Close, FindingsInv, FindingsTypes
<1>1. UNCHANGED <<change, filters, cfg, running, paused, pressed, decided, reopened>>
  BY DEF BeginClose, Close
<1>2. PICK np \in PassSet :
        /\ pass' = [pass EXCEPT ![q] = np]
        /\ np.pc \in {"closing", "findings"} /\ np.todo = pass[q].todo /\ np.unsure = pass[q].unsure
        /\ np.pc = "closing" => np.item = pass[q].item
  <2>1. CASE BeginClose(q)
    <3> DEFINE np == [pass[q] EXCEPT !.pc = "closing", !.was = finding[pass[q].item].status]
    <3>1. finding[pass[q].item].status \in Statuses
      BY <1>a DEF FindingSet
    <3>2. np \in PassSet /\ np.pc = "closing" /\ np.todo = pass[q].todo /\ np.unsure = pass[q].unsure
          /\ np.item = pass[q].item
      BY <1>a, <3>1 DEF PassSet
    <3>3. pass' = [pass EXCEPT ![q] = np]
      BY <2>1 DEF BeginClose
    <3> HIDE DEF np
    <3> QED  BY <3>2, <3>3
  <2>2. CASE Close(q)
    <3>1. Goes(q, "findings", NoItem, pass[q].todo, pass[q].unsure)
      BY <2>2 DEF Close, GoesOn
    <3>2. pass[q].todo \in SUBSET Items /\ pass[q].unsure \in SUBSET Items
      BY <1>a DEF PassSet
    <3>3. \E np \in PassSet :
            /\ pass' = [pass EXCEPT ![q] = np]
            /\ np.pc = "findings" /\ np.todo = pass[q].todo /\ np.unsure = pass[q].unsure
      BY <3>1, <3>2, ItemKinds, GoesFacts
    <3> QED  BY <3>3
  <2> QED  BY <2>1, <2>2
<1>3. finding[pass[q].item].status # "none"
  <2>1. Holds(q, pass[q].item) /\ ItemOK(pass[q].item)
    BY <1>a, ItemKinds DEF Holds, ReviewInv
  <2> QED  BY <2>1, <1>a DEF ItemOK, Present
<1>4. /\ FindingsInv'
      /\ \A r \in Paths : finding'[r].reviewed = finding[r].reviewed
                          /\ (finding[r].status # "none" => finding'[r].status # "none")
                          /\ (finding[r].status = "none" => finding'[r].status = "none")
  <2>1. CASE finding' = finding
    <3>1. UNCHANGED findingsVars
      BY <2>1 DEF BeginClose, Close, UnchangedFindings, OnlyFinding, findingsVars
    <3> QED  BY <1>a, <3>1, <2>1, QuietFindingsInv
  <2>2. CASE finding' # finding
    <3> DEFINE p == pass[q].item
               f == Changed(finding[p], "wontfix", "review", Newest(versions))
    <3>1. OnlyFinding /\ finding' = [finding EXCEPT ![p] = f]
      BY <2>2 DEF BeginClose, Close, UnchangedFindings, findingsVars
    <3>2. f \in FindingSet /\ f.status = "wontfix" /\ f.reviewed = finding[p].reviewed
      <4>1. /\ Newest(versions) \in Versions /\ "wontfix" \in Statuses /\ "review" \in Writers
            /\ finding[p] \in FindingSet
        BY <1>a, NewestVersion DEF Statuses, Writers, FindingsInv, FindingsTypes
      <4>2. /\ f \in FindingSet /\ f.status = "wontfix"
            /\ f.reviewed = (finding[p].reviewed /\ "wontfix" # "open")
        BY <4>1, ChangedType
      <4>3. finding[p].reviewed \in BOOLEAN
        BY <4>1 DEF FindingSet
      <4> QED  BY <4>2, <4>3
    <3> HIDE DEF f
    <3>3. /\ FindingsInv' /\ finding'[p] = f
          /\ \A r \in Paths : r # p => finding'[r] = finding[r]
      BY <1>a, <1>3, <3>1, <3>2, FindingWritten
    <3> QED  BY <1>3, <3>2, <3>3
  <2> QED  BY <2>1, <2>2
<1>5. pass'[q] = np /\ \A r \in Passes : r # q => pass'[r] = pass[r]
  BY <1>a, <1>2 DEF ReviewTypes
<1>6. PassOK(q)'
  BY <1>a, <1>2, <1>5 DEF PassOK
<1>7. /\ pass' \in [Passes -> PassSet] /\ running' \subseteq Passes
      /\ LockOK' /\ (\A r \in Passes : PassOK(r))'
  <2>1. running' = IF np.pc = "idle" THEN running \ {q} ELSE running
    BY <1>1, <1>2
  <2> QED  BY <2>1, <1>a, <1>2, <1>6, PassMoves
<1>8. ReviewTypes'
  BY <1>a, <1>1, <1>7 DEF ReviewTypes
<1>9. ASSUME NEW i \in Items PROVE ItemOK(i)'
  <2>1. Reviewed(i)' = Reviewed(i) /\ Present(i)' = Present(i)
    BY <1>1, <1>4 DEF Reviewed, Present
  <2>2. (Holds(q, i)' => Holds(q, i)) /\ (ToJudge(q, i)' => ToJudge(q, i))
    BY <1>a, <1>2, <1>5 DEF Holds, ToJudge
  <2>3. (Holds(q, i)' => Present(i)') /\ (ToJudge(q, i)' => ~ Reviewed(i)')
    BY <2>1, <2>2 DEF ReviewInv, ItemOK
  <2> QED  BY <1>1, <1>5, <2>1, <2>3, ItemsStay
<1> QED  BY <1>4, <1>7, <1>8, <1>9 DEF ReviewInv

-----------------------------------------------------------------------------
(* The steps beside the passes.                                             *)

LEMMA QuietPasses ==
    ASSUME ReviewInv, UNCHANGED <<pass, running>>
    PROVE  LockOK' /\ (\A q \in Passes : PassOK(q))'
BY DEF ReviewInv, LockOK, PassOK

LEMMA ChangeKeeps ==
    ASSUME ReviewInv, ChangeStep
    PROVE  ReviewInv'
<1>a. ReviewTypes /\ FindingsInv
  BY DEF ReviewInv
<1>1. UNCHANGED <<filters, cfg, pass, running, paused, pressed, decided, reopened, findingsVars>>
  BY DEF ChangeStep, AddShapeChange, Acknowledge, UnchangedFindings
<1>2. /\ change' \in [Changes -> ChangeSet]
      /\ \A c \in Changes : /\ change[c].here => change'[c].here
                            /\ change[c].here => change'[c].verdict = change[c].verdict
                            /\ change'[c].verdict \in {FALSE, change[c].verdict}
  <2>1. ASSUME NEW c \in Changes, NEW b \in BOOLEAN, AddShapeChange(c, b)
        PROVE  /\ change' \in [Changes -> ChangeSet]
               /\ change'[c].verdict = FALSE /\ ~ change[c].here
               /\ \A d \in Changes : d # c => change'[d] = change[d]
    <3> DEFINE new == [NoChange EXCEPT !.here = TRUE, !.blockable = b]
    <3>1. new \in ChangeSet /\ new.verdict = FALSE
      BY DEF NoChange, ChangeSet
    <3>2. change' = [change EXCEPT ![c] = new] /\ ~ change[c].here
      BY <2>1 DEF AddShapeChange
    <3> HIDE DEF new
    <3> QED  BY <3>1, <3>2, <1>a DEF ReviewTypes
  <2>2. ASSUME NEW cs \in SUBSET Changes, Acknowledge(cs)
        PROVE  /\ change' \in [Changes -> ChangeSet]
               /\ \A c \in Changes : change'[c].here = change[c].here
               /\ \A c \in Changes : change'[c].verdict = change[c].verdict
    <3>1. ASSUME NEW c \in Changes
          PROVE  /\ change'[c] \in ChangeSet /\ change'[c].here = change[c].here
                 /\ change'[c].verdict = change[c].verdict
      <4> DEFINE acked == change[c].acked \/ c \in cs
      <4>1. change[c] \in ChangeSet /\ acked \in BOOLEAN /\ change'[c] = [change[c] EXCEPT !.acked = acked]
        BY <2>2, <1>a DEF Acknowledge, ReviewTypes
      <4> HIDE DEF acked
      <4> QED  BY <4>1 DEF ChangeSet
    <3>2. change' = [c \in Changes |-> change'[c]]
      BY <2>2 DEF Acknowledge
    <3>3. change' \in [Changes -> ChangeSet]
      BY <3>1, <3>2
    <3> QED  BY <3>1, <3>3
  <2>3. CASE \E c \in Changes, b \in BOOLEAN : AddShapeChange(c, b)
    <3>1. PICK c \in Changes, b \in BOOLEAN : AddShapeChange(c, b)
      BY <2>3
    <3> QED  BY <2>1, <3>1
  <2>4. CASE \E cs \in SUBSET Changes : Acknowledge(cs)
    <3>1. PICK cs \in SUBSET Changes : Acknowledge(cs)
      BY <2>4
    <3> QED  BY <2>2, <3>1
  <2> QED  BY <2>3, <2>4 DEF ChangeStep
<1>3. \A c \in Changes : change[c].verdict => change[c].here
  <2>1. \A c \in Changes : ItemOK(c)
    BY ItemKinds DEF ReviewInv
  <2> QED  BY <2>1, ItemKinds DEF ItemOK, Reviewed, Present
<1>4. ReviewTypes' /\ FindingsInv'
  BY <1>a, <1>1, <1>2, QuietFindingsInv DEF ReviewTypes
<1>5. ASSUME NEW i \in Items PROVE ItemOK(i)'
  <2>1. /\ Present(i) => Present(i)'
        /\ Reviewed(i)' => Reviewed(i)
        /\ Reviewed(i) => Reviewed(i)'
    BY <1>1, <1>2, <1>3 DEF Reviewed, Present, findingsVars, Items
  <2>2. \A q \in Passes : (Holds(q, i)' => Holds(q, i)) /\ (ToJudge(q, i)' => ToJudge(q, i))
    BY <1>1 DEF Holds, ToJudge
  <2>3. ItemOK(i)
    BY DEF ReviewInv
  <2> QED  BY <1>1, <2>1, <2>2, <2>3 DEF ItemOK
<1> QED  BY <1>1, <1>4, <1>5, QuietPasses DEF ReviewInv

LEMMA SettingKeeps ==
    ASSUME ReviewInv, Resume \/ SetResolver
    PROVE  ReviewInv'
<1>a. ReviewTypes /\ FindingsInv
  BY DEF ReviewInv
<1>1. UNCHANGED <<change, filters, pass, running, pressed, decided, reopened, findingsVars>>
  BY DEF Resume, SetResolver, UnchangedFindings
<1>2. cfg' \in [enabled : BOOLEAN, resolver : BOOLEAN] /\ paused' \in BOOLEAN
  BY <1>a DEF Resume, SetResolver, ReviewTypes
<1>3. ReviewTypes' /\ FindingsInv'
  BY <1>a, <1>1, <1>2, QuietFindingsInv DEF ReviewTypes
<1>4. \A i \in Items : ItemOK(i)'
  BY <1>1 DEF ReviewInv, ItemOK, Holds, ToJudge, Reviewed, Present, findingsVars
<1> QED  BY <1>1, <1>3, <1>4, QuietPasses DEF ReviewInv

\* Nobody but a pass makes a finding judged, and what makes it unjudged opens it again.
LEMMA FindingsMove ==
    ASSUME FindingsInv, FindingsNext
    PROVE  /\ FindingsStay
           /\ \A p \in Paths : /\ finding'[p].reviewed => finding[p].reviewed
                               /\ finding[p].reviewed /\ ~ finding'[p].reviewed => Opened(p)
<1>a. finding \in [Paths -> FindingSet] /\ FindingsTypes
  BY DEF FindingsInv, FindingsTypes
<1>0. CASE UNCHANGED finding
  BY <1>0 DEF FindingsStay
<1>1. ASSUME NEW c \in Callers, HandleLostCandidate(c)
      PROVE  \A p \in Paths : /\ finding'[p].reviewed => finding[p].reviewed
                              /\ finding[p].reviewed /\ ~ finding'[p].reviewed => Opened(p)
  <2> DEFINE l == lost[c]
             f == finding[l.path]
  <2>a. /\ l.path \in Paths /\ l.mapped \in BOOLEAN /\ c \in Writers /\ f \in FindingSet
        /\ "open" \in Statuses /\ "system" \in Writers /\ 0 \in Versions /\ f.reviewed \in BOOLEAN
        /\ f.status \in Statuses /\ FindingOK(l.path)
    BY <1>a, Constants DEF FindingsInv, FindingsTypes, LostSet, Callers, Writers, Statuses, Versions, FindingSet
  <2>1. /\ \A p \in Paths : p # l.path => finding'[p] = finding[p]
        /\ \/ finding'[l.path] = Upserted(f, c, l.mapped)
           \/ f.status \in {"fixed", "wontfix", "expired"} /\ finding'[l.path] = Changed(f, "open", "system", 0)
           \/ finding'[l.path] = f
    BY <1>1, <1>a, <2>a DEF HandleLostCandidate, Reopens
  <2>2. CASE finding'[l.path] = Upserted(f, c, l.mapped)
    <3>1. /\ f.status = "fixed" => Upserted(f, c, l.mapped).status = "open"
          /\ f.status \notin {"none", "fixed"} => Upserted(f, c, l.mapped).reviewed = f.reviewed
          /\ f.status \in {"none", "fixed"} => Upserted(f, c, l.mapped).reviewed = FALSE
      BY <2>a, UpsertedType
    <3> QED  BY <2>a, <2>1, <2>2, <3>1 DEF Opened, FindingOK
  <2>3. CASE f.status \in {"fixed", "wontfix", "expired"} /\ finding'[l.path] = Changed(f, "open", "system", 0)
    <3>1. Changed(f, "open", "system", 0).status = "open"
          /\ Changed(f, "open", "system", 0).reviewed = (f.reviewed /\ "open" # "open")
      BY <2>a, ChangedType
    <3> QED  BY <2>1, <2>3, <3>1 DEF Opened
  <2>4. CASE finding'[l.path] = f
    BY <2>1, <2>4
  <2> QED  BY <2>1, <2>2, <2>3, <2>4
<1>2. CASE Resolve
  <2> DEFINE p == person.path
             g == Changed(finding[p], person.status, person.who, person.fixedIn)
  <2>a. /\ p \in Paths /\ person.who \in Writers /\ person.fixedIn \in Versions
        /\ person.status \in Statuses \ {"none", "open"} /\ finding[p] \in FindingSet
    BY <1>2, <1>a DEF FindingsInv, FindingsTypes, RequestSet, RequestOK, Resolve, Statuses, Writers, People
  <2>1. /\ \A r \in Paths : r # p => finding'[r] = finding[r]
        /\ finding'[p] = finding[p] \/ finding'[p] = g
    BY <1>2, <1>a, <2>a DEF Resolve
  <2>2. g.reviewed = (finding[p].reviewed /\ person.status # "open") /\ finding[p].reviewed \in BOOLEAN
    BY <2>a, ChangedType DEF FindingSet
  <2>3. \A r \in Paths : finding'[r].reviewed = finding[r].reviewed
    BY <2>a, <2>1, <2>2
  <2> QED  BY <1>2, <1>a, <2>3, PeopleTypes, ResolveKeeps DEF PeopleNext
<1>3. ASSUME NEW p \in Paths, ExpireFinding(p)
      PROVE  \A r \in Paths : finding'[r].reviewed = finding[r].reviewed
  BY <1>3, <1>a DEF ExpireFinding, FindingSet
<1>4. CASE ConsumerNext
  <2>1. UNCHANGED finding
    BY <1>4 DEF ConsumerNext, TakeTrace, Lease, SeeAgain, PassOver, Settle, Ask, LeaveForTomorrow,
                JudgeFails, FinishTrace
  <2> QED  BY <2>1, <1>0
<1>5. CASE PeopleNext
  <2>1. Resolve \/ UNCHANGED finding
    BY <1>5 DEF PeopleNext, ReviewSignature, BeginResolve, ResetContract
  <2> QED  BY <2>1, <1>0, <1>2
<1>6. CASE NewDay \/ Crash \/ \E p \in Paths : LeaseRunsOut(p)
  <2>1. UNCHANGED finding
    BY <1>6 DEF NewDay, Crash, LeaseRunsOut
  <2> QED  BY <2>1, <1>0
<1>7. CASE \E c \in Callers : HandleLostCandidate(c)
  BY <1>1, <1>7, <1>a, OtherTypes, HandleKeeps
<1>8. CASE \E p \in Paths : ExpireFinding(p)
  BY <1>3, <1>8, <1>a, OtherTypes, ExpireKeeps
<1> QED  BY <1>4, <1>5, <1>6, <1>7, <1>8 DEF FindingsNext

LEMMA FindingsStepKeeps ==
    ASSUME ReviewInv, FindingsStep
    PROVE  ReviewInv'
<1>a. ReviewTypes /\ FindingsInv /\ FindingsNext
  BY DEF ReviewInv, FindingsStep, Beside
<1>1. FindingsInv'
  BY <1>a, FindingsNextKeeps
<1>2. /\ UNCHANGED <<change, filters, cfg, pressed, decided>>
      /\ reopened' = [p \in Paths |-> reopened[p] + IF Opened(p) THEN 1 ELSE 0]
      /\ \/ pass' = [q \in Passes |-> NoPass] /\ running' = {} /\ paused' = FALSE
         \/ UNCHANGED <<pass, running, paused>>
  BY DEF FindingsStep, Beside, reviewOnly
<1>3. /\ FindingsStay
      /\ \A p \in Paths : /\ finding'[p].reviewed => finding[p].reviewed
                          /\ finding[p].reviewed /\ ~ finding'[p].reviewed => Opened(p)
  BY <1>a, FindingsMove
<1>4. NoPass \in PassSet /\ NoPass.pc = "idle" /\ NoPass.todo = {} /\ NoPass.unsure = {}
  BY ItemKinds DEF NoPass, PassSet, Statuses
<1>5. ReviewTypes'
  <2>1. reopened' \in [Paths -> Nat]
    BY <1>a, <1>2 DEF ReviewTypes
  <2>2. pass' \in [Passes -> PassSet] /\ running' \subseteq Passes /\ paused' \in BOOLEAN
    BY <1>a, <1>2, <1>4 DEF ReviewTypes
  <2> QED  BY <2>1, <2>2, <1>a, <1>2 DEF ReviewTypes
<1>6. LockOK' /\ (\A q \in Passes : PassOK(q))'
  <2>1. CASE pass' = [q \in Passes |-> NoPass] /\ running' = {}
    BY <1>4, <2>1 DEF LockOK, PassOK
  <2> QED  BY <1>2, <2>1, QuietPasses
<1>7. ASSUME NEW i \in Items PROVE ItemOK(i)'
  <2>1. \A q \in Passes : (Holds(q, i)' => Holds(q, i)) /\ (ToJudge(q, i)' => ToJudge(q, i))
    <3>1. CASE pass' = [q \in Passes |-> NoPass]
      BY <1>4, <3>1 DEF Holds, ToJudge
    <3> QED  BY <1>2, <3>1 DEF Holds, ToJudge
  <2>2. ItemOK(i)
    BY DEF ReviewInv
  <2>3. CASE i \in Paths
    <3>1. Reviewed(i) = finding[i].reviewed /\ Present(i) = (finding[i].status # "none")
          /\ Reviewed(i)' = finding'[i].reviewed /\ Present(i)' = (finding'[i].status # "none")
      BY <2>3 DEF Reviewed, Present
    <3>2. Present(i) => Present(i)'
      BY <2>3, <3>1, <1>3 DEF FindingsStay
    <3>3. reopened'[i] = reopened[i] + (IF Opened(i) THEN 1 ELSE 0) /\ reopened[i] \in Nat
          /\ decided'[i] = decided[i] /\ decided[i] \in Nat
      BY <2>3, <1>2, <1>a DEF ReviewTypes
    <3>4. (Reviewed(i)' => Reviewed(i)) /\ (Reviewed(i) /\ ~ Reviewed(i)' => Opened(i))
      BY <2>3, <3>1, <1>3
    <3>5. decided'[i] <= reopened'[i] + (IF Reviewed(i)' THEN 1 ELSE 0)
      BY <2>2, <2>3, <3>3, <3>4 DEF ItemOK
    <3> QED  BY <2>1, <2>2, <2>3, <3>2, <3>4, <3>5 DEF ItemOK
  <2>4. CASE i \notin Paths
    <3>1. Reviewed(i)' = Reviewed(i) /\ Present(i)' = Present(i) /\ decided'[i] = decided[i]
      BY <2>4, <1>2 DEF Reviewed, Present
    <3> QED  BY <2>1, <2>2, <2>4, <3>1 DEF ItemOK
  <2> QED  BY <2>3, <2>4
<1> QED  BY <1>1, <1>5, <1>6, <1>7 DEF ReviewInv

LEMMA PassKeeps ==
    ASSUME ReviewInv, NEW q \in Passes, PassNext(q)
    PROVE  ReviewInv'
<1>1. \A i \in Changes \cup Paths : i \in Items
  BY DEF Items
<1>2. ASSUME NEW i \in Items, NEW sure \in BOOLEAN, Decide(q, i, sure)  PROVE ReviewInv'
  <2>1. CASE DecideChange(q, i, sure)
    <3>1. i \in Changes  BY <2>1 DEF DecideChange
    <3> QED  BY <2>1, <3>1, DecideChangeKeeps
  <2>2. CASE DecideFinding(q, i, sure)
    <3>1. i \in Paths  BY <2>2 DEF DecideFinding
    <3> QED  BY <2>2, <3>1, DecideFindingKeeps
  <2> QED  BY <1>2, <2>1, <2>2 DEF Decide
<1>3. ASSUME NEW i \in Items, HandOver(q, i)  PROVE ReviewInv'
  BY <1>3, HandOverKeeps
<1> QED  BY <1>1, <1>2, <1>3, BeginKeeps, TurnKeeps, StopKeeps, ResolveChangeKeeps, ResolveFindingKeeps,
            CloseKeeps DEF PassNext

LEMMA ReviewStep ==
    ASSUME ReviewInv, [ReviewNext]_reviewVars
    PROVE  ReviewInv'
<1>1. CASE ReviewNext
  BY <1>1, PassKeeps, ChangeKeeps, SettingKeeps, FindingsStepKeeps DEF ReviewNext
<1>2. CASE UNCHANGED reviewVars
  <2>1. UNCHANGED <<change, filters, cfg, pass, running, paused, pressed, decided, reopened, findingsVars>>
    BY <1>2 DEF reviewVars, reviewOnly
  <2>2. FindingsInv' /\ ReviewTypes'
    BY <2>1, QuietFindingsInv DEF ReviewInv, ReviewTypes
  <2>3. \A i \in Items : ItemOK(i)'
    BY <2>1 DEF ReviewInv, ItemOK, Holds, ToJudge, Reviewed, Present, findingsVars
  <2> QED  BY <2>1, <2>2, <2>3, QuietPasses DEF ReviewInv
<1> QED  BY <1>1, <1>2

-----------------------------------------------------------------------------
(* The theorems.                                                            *)

LEMMA FindingsStart == FindingsInit => FindingsInv
<1> SUFFICES ASSUME FindingsInit PROVE FindingsInv
  OBVIOUS
<1>1. FindingsTypes
  BY BlankTypes, Constants DEF FindingsInit, FindingsTypes
<1>2. JudgeOK /\ RequestOK /\ ConsumerOK
  BY DEF FindingsInit, JudgeOK, RequestOK, ConsumerOK, NoTrace, NoRequest, NoLost, Callers
<1>3. \A p \in Paths : AttemptsOK(p) /\ FindingOK(p) /\ LostOK(p)
  BY Constants DEF FindingsInit, AttemptsOK, ToBeAsked, BeingAsked, FindingOK, LostOK, NoSig, NoFinding, NoTrace
<1>4. \A c \in Callers : ReadOK(c)
  BY DEF FindingsInit, ReadOK, NoLost
<1> QED  BY <1>1, <1>2, <1>3, <1>4 DEF FindingsInv

LEMMA ReviewStart == ReviewInit => ReviewInv
<1> SUFFICES ASSUME ReviewInit PROVE ReviewInv
  OBVIOUS
<1>1. FindingsInv
  BY FindingsStart DEF ReviewInit
<1>2. NoPass \in PassSet /\ NoPass.pc = "idle" /\ NoPass.todo = {} /\ NoPass.unsure = {}
  BY ItemKinds DEF NoPass, PassSet, Statuses
<1>3. NoChange \in ChangeSet /\ NoChange.verdict = FALSE
  BY DEF NoChange, ChangeSet
<1>4. ReviewTypes
  BY <1>2, <1>3, ItemKinds DEF ReviewInit, ReviewTypes, Items
<1>5. LockOK /\ \A q \in Passes : PassOK(q)
  BY <1>2 DEF ReviewInit, LockOK, PassOK
<1>6. ASSUME NEW i \in Items PROVE ItemOK(i)
  <2>1. \A q \in Passes : ~ Holds(q, i) /\ ~ ToJudge(q, i)
    BY <1>2 DEF ReviewInit, Holds, ToJudge
  <2>2. ~ Reviewed(i)
    BY <1>3 DEF ReviewInit, FindingsInit, Reviewed, NoFinding, Items
  <2>3. decided[i] = 0 /\ (i \in Paths => reopened[i] = 0)
    BY DEF ReviewInit, Items
  <2> QED  BY <2>1, <2>2, <2>3 DEF ItemOK
<1> QED  BY <1>1, <1>4, <1>5, <1>6 DEF ReviewInv

\* The judge keeps its invariant (judge.go, findings.go), beside people, retention
\* and crashes.
THEOREM FindingsInvariant == FindingsSpec => []FindingsInv
<1>1. FindingsInv /\ [FindingsNext]_findingsVars => FindingsInv'
  BY FindingsNextKeeps, QuietFindingsInv
<1> QED  BY <1>1, FindingsStart, PTL DEF FindingsSpec

\* The review keeps its invariant (driftreview.go, contractreview.go): one pass at a
\* time, and nothing that is judged waits to be judged.
THEOREM ReviewInvariant == ReviewSpec => []ReviewInv
BY ReviewStart, ReviewStep, PTL DEF ReviewSpec

LEMMA AttemptsBound == FindingsInv => AskedBounded
<1> SUFFICES ASSUME FindingsInv, NEW p \in Paths PROVE asked[p] <= ErrorLimit + crashes
  BY DEF AskedBounded
<1>1. /\ sig[p] \in SigSet /\ sig[p].errors \in Nat /\ asked[p] \in Int /\ crashes \in Nat
      /\ sig[p].state \in {"none", "pending", "proposed", "approved", "error"}
  BY DEF FindingsInv, FindingsTypes, SigSet
<1>2. AttemptsOK(p)
  BY DEF FindingsInv
<1> QED  BY <1>1, <1>2, Constants DEF AttemptsOK

\* No field is put to the model more often than the error limit and the crashes allow
\* (judge.go), while passes of the review run beside the judge.
THEOREM AttemptsAreBounded == ReviewSpec => []AskedBounded
<1>1. ReviewInv => AskedBounded
  BY AttemptsBound DEF ReviewInv
<1> QED  BY <1>1, ReviewInvariant, PTL

LEMMA LostStep ==
    ASSUME ReviewInv, [ReviewNext]_reviewVars
    PROVE  [judge.pc # "idle" /\ judge'.pc = "idle" =>
              \A p \in judge.shows : KnownLost(p) =>
                 \/ finding[p].status # "none"
                 \/ p \in cut
                 \/ lost["person"].step # "idle" /\ lost["person"].path = p]_findingsVars
<1> SUFFICES ASSUME judge.pc # "idle", judge'.pc = "idle", NEW p \in judge.shows, KnownLost(p)
             PROVE  \/ finding[p].status # "none"
                    \/ p \in cut
                    \/ lost["person"].step # "idle" /\ lost["person"].path = p
  OBVIOUS
<1>a. FindingsInv /\ judge \in JudgeSet /\ p \in Paths
  BY DEF ReviewInv, FindingsInv, FindingsTypes, JudgeSet
<1>1. judge' # judge
  OBVIOUS
<1>2. FindingsNext
  <2>1. ASSUME NEW q \in Passes, PassNext(q)  PROVE UNCHANGED judge
    <3>1. CASE Begin(q) \/ TurnToFindings(q) \/ EndPass(q) \/ ModelFails(q) \/ BeginClose(q) \/ Close(q)
      BY <3>1 DEF Begin, TurnToFindings, EndPass, ModelFails, BeginClose, Close, UnchangedFindings,
                  OnlyFinding, findingsVars
    <3>2. ASSUME NEW i \in Changes \cup Paths, HandOver(q, i) \/ \E sure \in BOOLEAN : Decide(q, i, sure)
          PROVE UNCHANGED judge
      BY <3>2 DEF HandOver, Decide, DecideChange, DecideFinding, AskResolver, UnchangedFindings, OnlyFinding,
                  findingsVars
    <3>3. ASSUME NEW b \in BOOLEAN, ResolveChange(q, b) \/ ResolveFinding(q, b)  PROVE UNCHANGED judge
      BY <3>3 DEF ResolveChange, ResolveFinding, UnchangedFindings, OnlyFinding, findingsVars
    <3> QED  BY <2>1, <3>1, <3>2, <3>3 DEF PassNext
  <2>2. ASSUME ChangeStep \/ Resume \/ SetResolver  PROVE UNCHANGED judge
    BY <2>2 DEF ChangeStep, AddShapeChange, Acknowledge, Resume, SetResolver, UnchangedFindings, findingsVars
  <2>3. ASSUME UNCHANGED reviewVars  PROVE UNCHANGED judge
    BY <2>3 DEF reviewVars, findingsVars
  <2>4. FindingsStep
    BY <1>1, <2>1, <2>2, <2>3 DEF ReviewNext
  <2> QED  BY <2>4 DEF FindingsStep, Beside
<1>3. FinishTrace
  BY <1>1, <1>2, <1>a DEF FindingsNext, ConsumerNext, PeopleNext, TakeTrace, Lease, SeeAgain, PassOver, Settle, Ask,
        LeaveForTomorrow, JudgeFails, ReviewSignature, BeginResolve, Resolve, ResetContract, HandleLostCandidate,
        LeaseRunsOut, ExpireFinding, NewDay, Crash, WithoutNext, JudgeSet
<1>4. judge.todo = {} /\ lost["consumer"].step = "idle"
  BY <1>3, <1>a DEF FinishTrace, FindingsInv, JudgeOK, ConsumerOK
<1>5. LostOK(p) /\ sig[p].verdict = "lost"
  BY <1>a DEF FindingsInv, KnownLost
<1> QED  BY <1>4, <1>5 DEF LostOK, Recording, Callers

\* When a trace is finished, every field it showed that is known to be lost has its
\* finding (judge.go, findings.go), for any crashes and requests of people before.
THEOREM LostFieldsAreFound == ReviewSpec => LostHasFinding
BY LostStep, ReviewInvariant, PTL DEF ReviewSpec, LostHasFinding

LEMMA DecisionsBound == ReviewInv => JudgedOnce
<1> SUFFICES ASSUME ReviewInv, NEW i \in Changes \cup Paths
             PROVE  decided[i] <= 1 + (IF i \in Paths THEN reopened[i] ELSE 0)
  BY DEF JudgedOnce
<1>1. ItemOK(i) /\ decided[i] \in Nat /\ (i \in Paths => reopened[i] \in Nat)
  BY DEF ReviewInv, ReviewTypes, Items
<1> QED  BY <1>1 DEF ItemOK

\* An item is judged once, and a finding once more for each time it opened again
\* (driftreview.go: the lock of a pass, and what it reads under it).
THEOREM ItemsAreJudgedOnce == ReviewSpec => []JudgedOnce
BY DecisionsBound, ReviewInvariant, PTL
=============================================================================
