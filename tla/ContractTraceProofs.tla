------------------------- MODULE ContractTraceProofs -------------------------
(***************************************************************************)
(* Theorems about contract traces, for any requests, uploads, ids, keys and  *)
(* limits: the slots taken are those of the captures under way, an untrusted *)
(* key never has more traces in the queue than places, nothing is learned    *)
(* from a trace that lost its trust, and no trace is forgotten.              *)
(***************************************************************************)
EXTENDS ContractTraces, FiniteSetTheorems, TLAPS

Bringing == {"reducing", "stored", "counted"}   \* a half is on its way to the queue

Rows == [status : Statuses, key : Keys, trusted : BOOLEAN, half : BOOLEAN]
Caps == [id : TraceIds \cup {NoId}, key : Keys, trusted : BOOLEAN, golden : BOOLEAN,
         version : Versions \cup {NoId},
         status : {"none", "capturing", "failed", "aborted", "open", "queued"},
         held : BOOLEAN, result : {"none", "half", "failed", "aborted"}]

Labels == {"idle", "checked", "capturing", "sealing", "aborting", "broken", "marked", "committed",
           "taken", "left", "unwritten", "held", "reducing", "stored", "counted", "answered",
           "ended", "cut", "gone", "submitted", "conflict", "accepted", "toolate"}

SlotSet   == [trusted : Int, untrusted : Int, golden : Int, key : [Keys -> Int]]
UploadSet == [id : TraceIds \cup {NoId}, key : Keys, found : Requests \cup {Nobody}]
BusySet   == [pc : {"read", "learned"}, id : TraceIds, trusted : BOOLEAN]

TraceTypes ==
    /\ row \in [TraceIds -> Rows]
    /\ trust \in [Keys -> BOOLEAN]
    /\ pc \in [Procs -> Labels]
    /\ cap \in [Requests -> Caps]
    /\ active \in [TraceIds -> Requests \cup {Nobody}]
    /\ slots \in SlotSet
    /\ samples \in [Versions -> Int] /\ seen \subseteq Versions
    /\ waiting \in [Keys -> Nat]
    /\ queue \in Seq(TraceIds)
    /\ busy \in BusySet \cup {Idle}
    /\ upload \in [Uploads -> UploadSet]
    /\ serving \in BOOLEAN
    /\ learned \in [TraceIds -> Nat] /\ tainted \subseteq TraceIds

\* A golden capture's trace is named after its request, another's after a caller's id.
CaptureOK(r) ==
    /\ pc[r] = "checked" => ~cap[r].golden
    /\ pc[r] \notin {"idle", "gone"} => IF cap[r].golden THEN cap[r].id = r /\ cap[r].trusted
                                        ELSE cap[r].id \in Ids
    /\ pc[r] \in {"marked", "unwritten"} => cap[r].result \in {"failed", "aborted"}
    /\ pc[r] = "taken" => cap[r].status = IF cap[r].golden THEN "queued" ELSE "open"
    /\ pc[r] = "held" => ~cap[r].golden /\ cap[r].status = "open"

\* The captures that hold a slot of each kind.
GoldenCaptures   == {r \in Requests : Capturing(r) /\ cap[r].golden}
TrustedCaptures  == {r \in Requests : Capturing(r) /\ ~cap[r].golden /\ cap[r].trusted}
KeyCaptures(k)   == {r \in Requests : Capturing(r) /\ cap[r].key = k /\ ~cap[r].trusted}

SlotsInv ==
    /\ IsFiniteSet(GoldenCaptures) /\ slots.golden = Cardinality(GoldenCaptures)
    /\ IsFiniteSet(TrustedCaptures) /\ slots.trusted = Cardinality(TrustedCaptures)
    /\ \A k \in Keys : IsFiniteSet(KeyCaptures(k)) /\ slots.key[k] = Cardinality(KeyCaptures(k))
    /\ \A r \in Requests : Capturing(r) => active[cap[r].id] = r

\* A half is brought to the queue by one process, and a trace that is being
\* brought has not been queued.
OneHandler ==
    /\ \A p \in Procs : pc[p] \in Bringing =>
            WorkId(p) \in Ids /\ row[WorkId(p)].status \in {"reducing"} \cup Ended
    /\ \A p, q \in Procs :
            pc[p] \in Bringing /\ pc[q] \in Bringing /\ WorkId(p) = WorkId(q) => p = q

\* The consumer works on a trace that was queued, and that nobody brings again.
ConsumerOK ==
    busy # Idle =>
        /\ row[busy.id].status \in {"queued"} \cup Ended
        /\ \A p \in Procs : pc[p] \in Bringing => WorkId(p) # busy.id
        /\ busy.trusted => busy.id \notin tainted
        /\ busy.pc = "read" => learned[busy.id] = 0

\* A trace is done with when it was learned from.
LearnedOK(t) ==
    /\ learned[t] \in {0, 1}
    /\ learned[t] = 1 => t \notin tainted /\ (row[t].status \in Ended \/ busy.id = t)

\* A trace that is not to be learned from says so, or has ended.
TaintedOK(t) == t \in tainted =>
    /\ t \notin Requests /\ row[t].status # "none"
    /\ ~row[t].trusted \/ row[t].status \in Ended

\* A golden trace has no half to wait for, and its caller is trusted.
GoldenOK(t) == t \in Requests =>
    /\ row[t].status \notin {"open", "reducing"}
    /\ row[t].status \in {"capturing", "queued"} => row[t].trusted

RecoveryOK == ~serving =>
    /\ \A p \in Procs : pc[p] \in {"idle", "gone"}
    /\ \A k \in Keys : waiting[k] = 0

\* The traces of a key that a place in the queue was taken for.
Places(k) == {t \in TraceIds : row[t].key = k /\
                 \/ busy.id = t /\ ~busy.trusted
                 \/ busy.id # t /\ ~row[t].trusted /\ row[t].status = "queued"
                 \/ ~row[t].trusted /\ \E p \in Procs : pc[p] = "counted" /\ WorkId(p) = t}

PlacesInv == serving => \A k \in Keys : IsFiniteSet(Places(k)) /\ Cardinality(Places(k)) <= waiting[k]

TracesOK == \A t \in TraceIds : LearnedOK(t) /\ TaintedOK(t) /\ GoldenOK(t)

TracesInv == OneHandler /\ ConsumerOK /\ TracesOK /\ PlacesInv

\* An upload that was let in names a trace.
UploadsOK == \A u \in Uploads : pc[u] = "submitted" => upload[u].id \in TraceIds

Facts ==
    /\ \A r \in Requests : CaptureOK(r)
    /\ SlotsInv /\ TracesInv /\ RecoveryOK /\ NoTraceForgotten

TraceInv == TraceTypes /\ UploadsOK /\ Facts

-----------------------------------------------------------------------------
(* Types.                                                                   *)

LEMMA Constants ==
    /\ NoId \notin TraceIds /\ Nobody \notin Procs /\ Nobody \notin Requests
    /\ Requests \cap Uploads = {} /\ Ids \cap Requests = {}
    /\ Requests \subseteq TraceIds /\ Ids \subseteq TraceIds
    /\ Requests \subseteq Procs /\ Uploads \subseteq Procs
    /\ NoKey \in Keys
    /\ Idle \notin BusySet
<1>1. NoKey \in Keys
  BY ContractAssumption DEF NoKey
<1> QED
  BY <1>1, ContractAssumption DEF TraceIds, Procs, Idle, BusySet

LEMMA TypesStart == TraceInit => TraceTypes
<1> SUFFICES ASSUME TraceInit PROVE TraceTypes
  OBVIOUS
<1>1. row \in [TraceIds -> Rows]
  BY Constants DEF TraceInit, Rows, NoRow, Statuses
<1>2. trust \in [Keys -> BOOLEAN]
  BY Zenon DEF TraceInit
<1>3. pc \in [Procs -> Labels]
  BY DEF TraceInit, Labels
<1>4. cap \in [Requests -> Caps]
  BY Constants DEF TraceInit, Caps, NoCap
<1>5. active \in [TraceIds -> Requests \cup {Nobody}]
  BY Constants DEF TraceInit
<1>6. slots \in SlotSet
  BY Constants DEF TraceInit, SlotSet
<1>7.  samples \in [Versions -> Int] /\ seen \subseteq Versions
  BY Constants DEF TraceInit
<1>8.  waiting \in [Keys -> Nat] /\  queue \in Seq(TraceIds)
  BY Constants DEF TraceInit
<1>9.  upload \in [Uploads -> UploadSet]
  BY Constants DEF TraceInit, UploadSet
<1>10.     /\ serving \in BOOLEAN
    /\ learned \in [TraceIds -> Nat] /\ tainted \subseteq TraceIds
  BY Constants DEF TraceInit
<1> QED BY <1>1, <1>2, <1>3, <1>4, <1>5, <1>6, <1>7, <1>8, <1>9, <1>10 DEF TraceTypes, TraceInit

LEMMA SlotUpdates ==
    ASSUME slots \in SlotSet, NEW c \in Caps, NEW by \in Int
    PROVE  Counted(c, by) \in SlotSet
<1>1. c.key \in Keys
  BY DEF Caps
<1>2. ASSUME NEW u \in Int, NEW f \in [Keys -> Int]
      PROVE  [slots EXCEPT !.untrusted = u, !.key = f] \in SlotSet
  BY <1>2 DEF SlotSet
<1>3. slots.untrusted + by \in Int /\ [slots.key EXCEPT ![c.key] = @ + by] \in [Keys -> Int]
  BY <1>1 DEF SlotSet
<1>4. [slots EXCEPT !.untrusted = slots.untrusted + by, !.key = [slots.key EXCEPT ![c.key] = @ + by]] \in SlotSet
  BY <1>2, <1>3
<1>5. [slots EXCEPT !.untrusted = @ + by, !.key[c.key] = @ + by] \in SlotSet
  BY <1>4 DEF SlotSet
<1>6. [slots EXCEPT !.golden = @ + by] \in SlotSet /\ [slots EXCEPT !.trusted = @ + by] \in SlotSet
  BY DEF SlotSet
<1> QED
  BY <1>5, <1>6 DEF Counted

\* A step that changes a request or an upload alone.
LEMMA Gone ==
    ASSUME TraceTypes, NEW p \in Procs, NEW l \in Labels, Goto(p, l)
    PROVE  pc' \in [Procs -> Labels]
  BY DEF TraceTypes, Goto

LEMMA CapUpdates ==
    ASSUME TraceTypes, NEW r \in Requests, NEW c \in Caps, cap' = [cap EXCEPT ![r] = c]
    PROVE  cap' \in [Requests -> Caps]
  BY DEF TraceTypes

LEMMA StatusUpdates ==
    ASSUME TraceTypes, NEW t, NEW s \in Statuses, row' = [row EXCEPT ![t].status = s]
    PROVE  row' \in [TraceIds -> Rows]
<1>1. ASSUME NEW x \in Rows PROVE [x EXCEPT !.status = s] \in Rows
  BY DEF Rows
<1> QED
  BY <1>1 DEF TraceTypes

LEMMA Claiming ==
    ASSUME TraceTypes, NEW r \in Requests, NEW c \in Caps, Claimed(r, c), c.id \in TraceIds
    PROVE  /\ pc' \in [Procs -> Labels] /\ cap' \in [Requests -> Caps]
           /\ row' \in [TraceIds -> Rows] /\ slots' \in SlotSet
           /\ active' \in [TraceIds -> Requests \cup {Nobody}] /\ tainted' \subseteq TraceIds
<1>1. c.key \in Keys /\ c.trusted \in BOOLEAN
  BY DEF Caps
<1>2. [NoRow EXCEPT !.status = "capturing", !.key = c.key, !.trusted = c.trusted] \in Rows
  BY <1>1 DEF NoRow, Rows, Statuses
<1>3. row' \in [TraceIds -> Rows]
  BY <1>2 DEF TraceTypes, Claimed
<1>4. slots' \in SlotSet
  BY SlotUpdates DEF TraceTypes, Claimed
<1>5. cap' \in [Requests -> Caps]
  BY CapUpdates DEF Claimed
<1>6. pc' \in [Procs -> Labels]
  BY Gone, Constants DEF Claimed, Labels
<1>7. active' \in [TraceIds -> Requests \cup {Nobody}] /\ tainted' \subseteq TraceIds
  BY DEF TraceTypes, Claimed
<1> QED
  BY <1>3, <1>4, <1>5, <1>6, <1>7

LEMMA ReleaseTypes ==
    ASSUME TraceTypes, NEW r \in Requests, NEW failed \in BOOLEAN, ReleaseSlots(r, failed)
    PROVE  /\ slots' \in SlotSet /\ samples' \in [Versions -> Int]
           /\ active' \in [TraceIds -> Requests \cup {Nobody}] /\ seen' = seen /\ waiting' = waiting
<1>1. cap[r] \in Caps
  BY DEF TraceTypes
<1>2. slots' \in SlotSet
  BY <1>1, SlotUpdates DEF TraceTypes, ReleaseSlots
<1>3. samples \in [Versions -> Int]
  BY DEF TraceTypes
<1>4. samples' \in [Versions -> Int]
  <2>1. ASSUME NEW x PROVE [samples EXCEPT ![x] = samples[x] - 1] \in [Versions -> Int]
    <3>1. CASE x \in Versions
      BY <1>3, <3>1
    <3>2. CASE x \notin Versions
      BY <1>3, <3>2
    <3> QED
      BY <3>1, <3>2
  <2> QED
    BY <1>3, <2>1 DEF ReleaseSlots
<1>5. active' \in [TraceIds -> Requests \cup {Nobody}]
  BY DEF TraceTypes, ReleaseSlots
<1> QED
  BY <1>2, <1>4, <1>5 DEF ReleaseSlots

LEMMA EnqueueTypes ==
    ASSUME TraceTypes, NEW t \in TraceIds, NEW rows \in [TraceIds -> Rows], Enqueue(t, rows)
    PROVE  queue' \in Seq(TraceIds) /\ row' \in [TraceIds -> Rows]
<1>1. ASSUME NEW x \in Rows PROVE [x EXCEPT !.status = "dropped"] \in Rows
  BY DEF Rows, Statuses
<1>2. row' \in [TraceIds -> Rows]
  BY <1>1 DEF Enqueue
<1>3. queue \in Seq(TraceIds) /\ Append(queue, t) \in Seq(TraceIds)
  BY DEF TraceTypes
<1> QED
  BY <1>2, <1>3 DEF Enqueue

\* The changes of a capture.
LEMMA CaptureTypes ==
    ASSUME NEW c \in Caps
    PROVE  /\ \A t \in TraceIds, k \in Keys, b \in BOOLEAN :
                 [NoCap EXCEPT !.id = t, !.key = k, !.trusted = b] \in Caps
           /\ \A t \in TraceIds, k \in Keys, v \in Versions :
                 [NoCap EXCEPT !.id = t, !.key = k, !.trusted = TRUE, !.golden = TRUE,
                               !.version = v, !.status = "capturing"] \in Caps
           /\ [c EXCEPT !.status = "capturing"] \in Caps
           /\ [c EXCEPT !.held = FALSE, !.result = "failed"] \in Caps
           /\ \A s \in {"failed", "aborted"} : [c EXCEPT !.status = s, !.result = s] \in Caps
           /\ \A s \in {"queued", "open"}, x \in {"half", "none"} :
                 [c EXCEPT !.status = s, !.held = FALSE, !.result = x] \in Caps
           /\ [c EXCEPT !.held = TRUE] \in Caps
  BY Constants DEF Caps, NoCap

\* The id and the key of a capture that is set up, and of whoever brings a half.
LEMMA WorkTypes ==
    ASSUME TraceTypes, OneHandler, NEW p \in Procs, pc[p] \in Bringing
    PROVE  WorkId(p) \in TraceIds /\ WorkId(p) \in Ids /\ WorkKey(p) \in Keys
<1>1. WorkId(p) \in Ids
  BY DEF OneHandler
<1>2. row[WorkId(p)] \in Rows
  BY <1>1, Constants DEF TraceTypes
<1> QED
  BY <1>1, <1>2, Constants DEF WorkKey, Rows

LEMMA TypesKept ==
    ASSUME TraceTypes, \A r \in Requests : CaptureOK(r), OneHandler, TraceNext
    PROVE  TraceTypes'
<1> USE DEF store, counters, history, bounds
<1>0. ASSUME Die
      PROVE  TraceTypes'
  <2>1. ASSUME NEW x \in Rows PROVE [x EXCEPT !.status = "lost"] \in Rows
    BY DEF Rows, Statuses
  <2>2. row' \in [TraceIds -> Rows]
    BY <1>0, <2>1 DEF Die, TraceTypes
  <2>3. pc' \in [Procs -> Labels]
    BY <1>0 DEF Die, Labels
  <2>4. cap' \in [Requests -> Caps]
    BY <1>0, Constants DEF Die, Caps, NoCap
  <2>5. slots' \in SlotSet
    BY <1>0 DEF Die, SlotSet
  <2>6. upload' \in [Uploads -> UploadSet]
    BY <1>0, Constants DEF Die, UploadSet
  <2>7. active' \in [TraceIds -> Requests \cup {Nobody}]
    BY <1>0 DEF Die
  <2>8. samples' \in [Versions -> Int] /\ seen' \subseteq Versions /\ waiting' \in [Keys -> Nat]
    BY <1>0 DEF Die
  <2>9. serving' \in BOOLEAN /\ busy' \in BusySet \cup {Idle}
    BY <1>0 DEF Die
  <2>12. queue' \in Seq(TraceIds)
    BY <1>0 DEF Die
  <2>11. learned' \in [TraceIds -> Nat]
    BY <1>0 DEF Die
  <2>10. tainted' \subseteq TraceIds /\ trust' \in [Keys -> BOOLEAN]
    BY <1>0 DEF Die, TraceTypes
  <2> QED
    BY <2>2, <2>3, <2>4, <2>5, <2>6, <2>7, <2>8, <2>9, <2>10, <2>11, <2>12 DEF TraceTypes
<1>1. ASSUME NEW r \in Requests, CaptureStep(r)
      PROVE  TraceTypes'
  <2>0. cap[r] \in Caps /\ r \in Procs /\ pc[r] \in Labels
    BY Constants DEF TraceTypes
  <2>1. ASSUME NEW t \in Ids, NEW c \in Keys, CheckId(r, t, c)
        PROVE  TraceTypes'
    <3>1. [NoCap EXCEPT !.id = t, !.key = c, !.trusted = IsTrusted(c)] \in Caps
      BY <2>0, CaptureTypes, Constants DEF IsTrusted, TraceTypes
    <3>2. cap' \in [Requests -> Caps]
      BY <2>1, <3>1, CapUpdates DEF CheckId
    <3>3. pc' \in [Procs -> Labels]
      BY <2>0, <2>1, Gone DEF CheckId, Labels
    <3> QED
      BY <2>1, <3>2, <3>3 DEF CheckId, TraceTypes
  <2>2. ASSUME ClaimTraced(r)
        PROVE  TraceTypes'
    <3>1. [cap[r] EXCEPT !.status = "capturing"] \in Caps
      BY <2>0, CaptureTypes
    <3>2. cap[r].id \in TraceIds
      BY <2>2, Constants DEF CaptureOK, ClaimTraced
    <3>3. [cap[r] EXCEPT !.status = "capturing"].id = cap[r].id
      BY <2>0 DEF Caps
    <3>4. Claimed(r, [cap[r] EXCEPT !.status = "capturing"])
      BY <2>2 DEF ClaimTraced
    <3>5. /\ pc' \in [Procs -> Labels] /\ cap' \in [Requests -> Caps]
          /\ row' \in [TraceIds -> Rows] /\ slots' \in SlotSet
          /\ active' \in [TraceIds -> Requests \cup {Nobody}] /\ tainted' \subseteq TraceIds
      BY <3>1, <3>2, <3>3, <3>4, Claiming
    <3> QED
      BY <2>2, <3>4, <3>5 DEF ClaimTraced, Claimed, TraceTypes
  <2>3. ASSUME Untraced(r)
        PROVE  TraceTypes'
    <3>1. pc' \in [Procs -> Labels]
      BY <2>0, <2>3, Gone DEF Untraced, Labels
    <3> QED
      BY <2>3, <3>1 DEF Untraced, TraceTypes
  <2>4. ASSUME NEW v \in Versions, NEW c \in Keys, ClaimGolden(r, v, c)
        PROVE  TraceTypes'
    <3> DEFINE new == [NoCap EXCEPT !.id = r, !.key = c, !.trusted = TRUE, !.golden = TRUE,
                                    !.version = v, !.status = "capturing"]
    <3>1. new \in Caps
      BY <2>0, CaptureTypes, Constants
    <3>2. new.id = r /\ r \in TraceIds
      BY Constants DEF NoCap
    <3>3. Claimed(r, new)
      BY <2>4 DEF ClaimGolden
    <3> HIDE DEF new
    <3>4. /\ pc' \in [Procs -> Labels] /\ cap' \in [Requests -> Caps]
          /\ row' \in [TraceIds -> Rows] /\ slots' \in SlotSet
          /\ active' \in [TraceIds -> Requests \cup {Nobody}] /\ tainted' \subseteq TraceIds
      BY <3>1, <3>2, <3>3, Claiming
    <3>5. samples' \in [Versions -> Int] /\ seen' \subseteq Versions
      BY <2>4 DEF ClaimGolden, TraceTypes
    <3> QED
      BY <3>3, <3>4, <3>5 DEF Claimed, TraceTypes
  <2>5. ASSUME Finish(r) \/ Abort(r) \/ LeaveUnsealed(r) \/ SecondRelay(r)
        PROVE  TraceTypes'
    <3>1. pc' \in [Procs -> Labels]
      BY <2>0, <2>5, Gone DEF Finish, Abort, LeaveUnsealed, SecondRelay, BeginSeal, Labels
    <3> QED
      BY <2>5, <3>1 DEF Finish, Abort, LeaveUnsealed, SecondRelay, BeginSeal, TraceTypes
  <2>6. ASSUME Panic(r)
        PROVE  TraceTypes'
    <3>1. [cap[r] EXCEPT !.held = FALSE, !.result = "failed"] \in Caps
      BY <2>0, CaptureTypes
    <3>2. cap' \in [Requests -> Caps]
      BY <2>6, <3>1, CapUpdates DEF Panic, TraceTypes
    <3>3. pc' \in [Procs -> Labels]
      BY <2>0, <2>6, Gone DEF Panic, Labels
    <3> QED
      BY <2>6, <3>2, <3>3 DEF Panic, TraceTypes
  <2> QED
    BY <1>0, <1>1, <2>1, <2>2, <2>3, <2>4, <2>5, <2>6 DEF CaptureStep, SecondStream
<1>2. ASSUME NEW r \in Requests, SealStep(r) \/ Expire(r)
      PROVE  TraceTypes'
  <2>0. cap[r] \in Caps /\ r \in Procs /\ pc[r] \in Labels
    BY Constants DEF TraceTypes
  <2>1. ASSUME CommitShapes(r)
        PROVE  TraceTypes'
    <3>1. row' \in [TraceIds -> Rows]
      <4>1. CASE row' = row
        BY <4>1 DEF TraceTypes
      <4>2. CASE \E s \in {"queued", "open"} : row' = [row EXCEPT ![cap[r].id].status = s]
        BY <4>2, StatusUpdates DEF Statuses
      <4> QED
        BY <2>1, <4>1, <4>2 DEF CommitShapes
    <3>2. pc' \in [Procs -> Labels]
      BY <2>0, <2>1, Gone DEF CommitShapes, Labels
    <3> QED
      BY <2>1, <3>1, <3>2 DEF CommitShapes, TraceTypes
  <2>2. ASSUME MarkFailure(r)
        PROVE  TraceTypes'
    <3>1. PICK s \in {"failed", "aborted"} : cap' = [cap EXCEPT ![r].status = s, ![r].result = s]
      BY <2>2 DEF MarkFailure
    <3>2. [cap[r] EXCEPT !.status = s, !.result = s] \in Caps
      BY <2>0, CaptureTypes
    <3>3. cap' \in [Requests -> Caps]
      BY <3>1, <3>2, CapUpdates DEF TraceTypes
    <3>4. pc' \in [Procs -> Labels]
      BY <2>0, <2>2, Gone DEF MarkFailure, Labels
    <3> QED
      BY <2>2, <3>3, <3>4 DEF MarkFailure, TraceTypes
  <2>3. ASSUME ReleaseFailed(r)
        PROVE  TraceTypes'
    <3>1. ReleaseSlots(r, cap[r].status # "failed")
      BY <2>3 DEF ReleaseFailed
    <3>2. /\ slots' \in SlotSet /\ samples' \in [Versions -> Int]
          /\ active' \in [TraceIds -> Requests \cup {Nobody}] /\ seen' = seen /\ waiting' = waiting
      BY <3>1, ReleaseTypes
    <3>3. pc' \in [Procs -> Labels]
      BY <2>0, <2>3, Gone DEF ReleaseFailed, Labels
    <3> QED
      BY <2>3, <3>2, <3>3 DEF ReleaseFailed, TraceTypes
  <2>4. ASSUME WriteFailure(r)
        PROVE  TraceTypes'
    <3>1. cap[r].result \in Statuses
      BY <2>0, <2>4 DEF WriteFailure, CaptureOK, Statuses
    <3>2. row' \in [TraceIds -> Rows]
      BY <2>4, <3>1, StatusUpdates DEF WriteFailure
    <3>3. pc' \in [Procs -> Labels]
      BY <2>0, <2>4, Gone DEF WriteFailure, Labels
    <3> QED
      BY <2>4, <3>2, <3>3 DEF WriteFailure, TraceTypes
  <2>5. ASSUME TakeHeld(r)
        PROVE  TraceTypes'
    <3>1. PICK s \in {"queued", "open"}, x \in {"half", "none"} :
              cap' = [cap EXCEPT ![r].status = s, ![r].held = FALSE, ![r].result = x]
      BY <2>5 DEF TakeHeld
    <3>2. [cap[r] EXCEPT !.status = s, !.held = FALSE, !.result = x] \in Caps
      BY <2>0, CaptureTypes
    <3>3. cap' \in [Requests -> Caps]
      BY <3>1, <3>2, CapUpdates DEF TraceTypes
    <3>4. pc' \in [Procs -> Labels]
      BY <2>0, <2>5, Gone DEF TakeHeld, Labels
    <3> QED
      BY <2>5, <3>3, <3>4 DEF TakeHeld, TraceTypes
  <2>6. ASSUME ReleaseSealed(r)
        PROVE  TraceTypes'
    <3>1. ReleaseSlots(r, FALSE)
      BY <2>6 DEF ReleaseSealed
    <3>2. /\ slots' \in SlotSet /\ samples' \in [Versions -> Int]
          /\ active' \in [TraceIds -> Requests \cup {Nobody}] /\ seen' = seen /\ waiting' = waiting
      BY <3>1, ReleaseTypes
    <3>3. pc' \in [Procs -> Labels]
      BY <2>0, <2>6, Gone DEF ReleaseSealed, Labels
    <3>4. cap[r].id \in TraceIds
      BY <2>6, Constants DEF ReleaseSealed, CaptureOK
    <3>5. queue' \in Seq(TraceIds) /\ row' \in [TraceIds -> Rows]
      <4>1. CASE Enqueue(cap[r].id, row)
        BY <3>4, <4>1, EnqueueTypes DEF TraceTypes
      <4>2. CASE UNCHANGED <<row, queue>>
        BY <4>2 DEF TraceTypes
      <4> QED
        BY <2>6, <4>1, <4>2 DEF ReleaseSealed
    <3> QED
      BY <2>6, <3>2, <3>3, <3>5 DEF ReleaseSealed, TraceTypes
  <2>7. ASSUME ProcessHeld(r)
        PROVE  TraceTypes'
    <3>1. row' \in [TraceIds -> Rows]
      <4>1. CASE row' = row
        BY <4>1 DEF TraceTypes
      <4>2. CASE row' = [row EXCEPT ![cap[r].id].status = "reducing"]
        BY <4>2, StatusUpdates DEF Statuses
      <4> QED
        BY <2>7, <4>1, <4>2 DEF ProcessHeld, Moved
    <3>2. pc' \in [Procs -> Labels]
      BY <2>0, <2>7, Gone DEF ProcessHeld, Labels
    <3> QED
      BY <2>7, <3>1, <3>2 DEF ProcessHeld, TraceTypes
  <2>8. ASSUME Expire(r)
        PROVE  TraceTypes'
    <3>1. row' \in [TraceIds -> Rows]
      BY <2>8, StatusUpdates DEF Expire, Moved, Statuses
    <3> QED
      BY <2>8, <3>1 DEF Expire, TraceTypes
  <2> QED
    BY <1>2, <2>1, <2>2, <2>3, <2>4, <2>5, <2>6, <2>7, <2>8 DEF SealStep
<1>3. ASSUME NEW u \in Uploads, NEW t \in TraceIds, NEW c \in Keys, Submit(u, t, c)
      PROVE  TraceTypes'
  <2>1. [id |-> t, key |-> c, found |-> active[t]] \in UploadSet
    BY DEF UploadSet, TraceTypes
  <2>2. upload' \in [Uploads -> UploadSet]
    BY <1>3, <2>1 DEF Submit, TraceTypes
  <2>3. pc' \in [Procs -> Labels]
    BY <1>3, Gone, Constants DEF Submit, Labels
  <2> QED
    BY <1>3, <2>2, <2>3 DEF Submit, TraceTypes
<1>4. ASSUME NEW u \in Uploads, Hold(u)
      PROVE  TraceTypes'
  <2>1. ASSUME NEW x \in Caps PROVE [x EXCEPT !.held = TRUE] \in Caps
    BY <2>1, CaptureTypes
  <2>2. cap' \in [Requests -> Caps]
    <3>1. CASE cap' = cap
      BY <3>1 DEF TraceTypes
    <3>2. CASE cap' = [cap EXCEPT ![upload[u].found].held = TRUE]
      BY <2>1, <3>2 DEF TraceTypes
    <3> QED
      BY <1>4, <3>1, <3>2 DEF Hold
  <2>3. pc' \in [Procs -> Labels]
    BY <1>4, Gone, Constants DEF Hold, Labels
  <2> QED
    BY <1>4, <2>2, <2>3 DEF Hold, TraceTypes
<1>5. ASSUME NEW u \in Uploads, SubmitOpen(u)
      PROVE  TraceTypes'
  <2>1. row' \in [TraceIds -> Rows]
    <3>1. CASE row' = row
      BY <3>1 DEF TraceTypes
    <3>2. CASE row' = [row EXCEPT ![upload[u].id].status = "reducing"]
      BY <3>2, StatusUpdates DEF Statuses
    <3> QED
      BY <1>5, <3>1, <3>2 DEF SubmitOpen, Moved
  <2>2. pc' \in [Procs -> Labels]
    BY <1>5, Gone, Constants DEF SubmitOpen, Labels
  <2> QED
    BY <1>5, <2>1, <2>2 DEF SubmitOpen, TraceTypes
<1>6. ASSUME NEW p \in Procs, HalfStep(p)
      PROVE  TraceTypes'
  <2>0. WorkId(p) \in TraceIds /\ WorkKey(p) \in Keys /\ WorkEnd(p) \in Labels
    BY <1>6, WorkTypes DEF HalfStep, StoreHalf, TakePlace, QueueTrace, Bringing, WorkEnd, Labels
  <2>1. ASSUME StoreHalf(p)
        PROVE  TraceTypes'
    <3>1. ASSUME NEW x \in Rows, NEW b \in BOOLEAN
          PROVE  [x EXCEPT !.half = TRUE, !.trusted = x.trusted /\ b] \in Rows
      BY <3>1 DEF Rows
    <3>2. IsTrusted(WorkKey(p)) \in BOOLEAN
      BY <2>0 DEF IsTrusted, TraceTypes
    <3>3. row' \in [TraceIds -> Rows]
      BY <2>0, <2>1, <3>1, <3>2 DEF StoreHalf, TraceTypes
    <3>4. pc' \in [Procs -> Labels]
      BY <2>1, Gone DEF StoreHalf, Labels
    <3> QED
      BY <2>1, <3>3, <3>4 DEF StoreHalf, TraceTypes
  <2>2. ASSUME TakePlace(p)
        PROVE  TraceTypes'
    <3>1. row' \in [TraceIds -> Rows]
      <4>1. CASE row' = row
        BY <4>1 DEF TraceTypes
      <4>2. CASE row' = [row EXCEPT ![WorkId(p)].status = "dropped"]
        BY <4>2, StatusUpdates DEF Statuses
      <4> QED
        BY <2>2, <4>1, <4>2 DEF TakePlace
    <3>2. waiting' \in [Keys -> Nat]
      <4>1. waiting \in [Keys -> Nat] /\ [waiting EXCEPT ![WorkKey(p)] = @ + 1] \in [Keys -> Nat]
        BY <2>0 DEF TraceTypes
      <4> QED
        BY <2>2, <4>1 DEF TakePlace
    <3>3. pc' \in [Procs -> Labels]
      BY <2>0, <2>2, Gone DEF TakePlace, Labels
    <3> QED
      BY <2>2, <3>1, <3>2, <3>3 DEF TakePlace, TraceTypes
  <2>3. ASSUME QueueTrace(p)
        PROVE  TraceTypes'
    <3>1. queue' \in Seq(TraceIds) /\ row' \in [TraceIds -> Rows]
      <4>1. ASSUME Enqueue(WorkId(p), [row EXCEPT ![WorkId(p)].status = "queued"])
            PROVE  queue' \in Seq(TraceIds) /\ row' \in [TraceIds -> Rows]
        <5>1. ASSUME NEW x \in Rows PROVE [x EXCEPT !.status = "queued"] \in Rows
          BY DEF Rows, Statuses
        <5>2. [row EXCEPT ![WorkId(p)].status = "queued"] \in [TraceIds -> Rows]
          BY <5>1 DEF TraceTypes
        <5> QED
          BY <2>0, <4>1, <5>2, EnqueueTypes
      <4>2. CASE UNCHANGED <<row, queue>>
        BY <4>2 DEF TraceTypes
      <4> QED
        BY <2>3, <4>1, <4>2 DEF QueueTrace
    <3>2. pc' \in [Procs -> Labels]
      BY <2>0, <2>3, Gone DEF QueueTrace
    <3> QED
      BY <2>3, <3>1, <3>2 DEF QueueTrace, TraceTypes
  <2> QED
    BY <1>6, <2>1, <2>2, <2>3 DEF HalfStep
<1>7. ASSUME ConsumerStep
      PROVE  TraceTypes'
  <2>0. \A t \in TraceIds : Working(t) \in BusySet
    BY DEF Working, TraceTypes, Rows, BusySet
  <2>1. ASSUME Take
        PROVE  TraceTypes'
    <3>1. queue' \in Seq(TraceIds) /\ Head(queue) \in TraceIds
      BY <2>1 DEF Take, TraceTypes
    <3>2. busy' \in BusySet \cup {Idle}
      BY <2>0, <2>1, <3>1 DEF Take
    <3> QED
      BY <2>1, <3>1, <3>2 DEF Take, TraceTypes
  <2>2. ASSUME Recover
        PROVE  TraceTypes'
    BY <2>0, <2>2 DEF Recover, TraceTypes
  <2>3. ASSUME busy.pc = "read"
        PROVE  busy \in BusySet /\ [busy EXCEPT !.pc = "learned"] \in BusySet
               /\ busy.id \in TraceIds
    <3>1. busy \in BusySet
      BY <2>3 DEF TraceTypes, Idle
    <3> QED
      BY <3>1 DEF BusySet
  <2>4. ASSUME Learn
        PROVE  TraceTypes'
    <3>1. learned' \in [TraceIds -> Nat]
      BY <2>3, <2>4 DEF Learn, TraceTypes
    <3> QED
      BY <2>3, <2>4, <3>1 DEF Learn, TraceTypes
  <2>5. ASSUME PassOver
        PROVE  TraceTypes'
    <3>1. ASSUME NEW x \in Rows PROVE [x EXCEPT !.trusted = FALSE] \in Rows
      BY DEF Rows
    <3>2. row' \in [TraceIds -> Rows]
      BY <2>5, <3>1 DEF PassOver, TraceTypes
    <3> QED
      BY <2>3, <2>5, <3>2 DEF PassOver, TraceTypes
  <2>6. ASSUME Done
        PROVE  TraceTypes'
    <3>1. PICK s \in {"done", "failed"} : row' = [row EXCEPT ![busy.id].status = s]
      BY <2>6 DEF Done
    <3>2. row' \in [TraceIds -> Rows]
      BY <3>1, StatusUpdates DEF Statuses
    <3>3. waiting' \in [Keys -> Nat]
      <4>1. waiting \in [Keys -> Nat]
        BY DEF TraceTypes
      <4>2. \A k \in Keys : waiting[k] > 0 => [waiting EXCEPT ![k] = @ - 1] \in [Keys -> Nat]
        BY <4>1
      <4>3. CASE busy.id \in TraceIds
        <5>1. row[busy.id].key \in Keys
          BY <4>3 DEF TraceTypes, Rows
        <5> QED
          BY <2>6, <4>1, <4>2, <5>1 DEF Done, PlaceBack
      <4>4. busy.id \in TraceIds
        BY <2>6 DEF Done, TraceTypes, BusySet, Idle
      <4> QED
        BY <4>3, <4>4
    <3> QED
      BY <2>6, <3>2, <3>3 DEF Done, TraceTypes
  <2> QED
    BY <1>7, <2>1, <2>2, <2>4, <2>5, <2>6 DEF ConsumerStep
<1>8. ASSUME NEW k \in Keys, SetTrusted(k) \/ Distrust(k)
      PROVE  TraceTypes'
  BY <1>8 DEF SetTrusted, Distrust, TraceTypes
<1>9. ASSUME NEW k \in Keys, RevokeOpen(k)
      PROVE  TraceTypes'
  <2>1. ASSUME NEW x \in Rows PROVE [x EXCEPT !.status = "revoked"] \in Rows
    BY DEF Rows, Statuses
  <2>2. row' \in [TraceIds -> Rows]
    BY <1>9, <2>1 DEF RevokeOpen, TraceTypes
  <2>3. tainted' \subseteq TraceIds
    BY <1>9 DEF RevokeOpen, TraceTypes
  <2> QED
    BY <1>9, <2>2, <2>3 DEF RevokeOpen, TraceTypes
<1> QED
  BY <1>0, <1>1, <1>2, <1>3, <1>4, <1>5, <1>6, <1>7, <1>8, <1>9 DEF TraceNext, Crash

-----------------------------------------------------------------------------
(* Who brings which trace, and the places of a key.                          *)

LEMMA WorkOf ==
    /\ \A r \in Requests : WorkId(r) = cap[r].id /\ WorkId(r)' = cap'[r].id
    /\ \A u \in Uploads : WorkId(u) = upload[u].id /\ WorkId(u)' = upload'[u].id
  BY Constants DEF WorkId

LEMMA BusyFacts ==
    ASSUME TraceTypes
    PROVE  /\ busy # Idle => busy \in BusySet /\ busy.id \in TraceIds
           /\ busy = Idle => busy.id \notin TraceIds /\ busy.pc \notin {"read", "learned"}
           /\ \A t \in TraceIds : Working(t) # Idle /\ Working(t).id = t
                                  /\ Working(t).trusted = row[t].trusted
  BY Constants DEF TraceTypes, BusySet, Idle, Working

LEMMA PlacesShrink ==
    ASSUME TraceTypes, PlacesInv, serving' = serving, waiting' = waiting,
           \A k \in Keys : Places(k)' \subseteq Places(k)
    PROVE  PlacesInv'
<1> SUFFICES ASSUME serving, NEW k \in Keys
             PROVE  IsFiniteSet(Places(k)') /\ Cardinality(Places(k)') <= waiting[k]
  BY DEF PlacesInv
<1>1. IsFiniteSet(Places(k)) /\ Cardinality(Places(k)) <= waiting[k] /\ waiting[k] \in Nat
  BY DEF PlacesInv, TraceTypes
<1>2. IsFiniteSet(Places(k)') /\ Cardinality(Places(k)') <= Cardinality(Places(k))
  BY <1>1, FS_Subset
<1>3. Cardinality(Places(k)) \in Nat /\ Cardinality(Places(k)') \in Nat
  BY <1>1, <1>2, FS_CardinalityType
<1> QED
  BY <1>1, <1>2, <1>3

\* What a step that neither brings, takes nor learns from a trace leaves as it was:
\* it may end traces.
Calm == /\ UNCHANGED <<busy, serving, waiting, learned, tainted>>
        /\ \A t \in TraceIds : \/ row'[t] = row[t]
                               \/ /\ row'[t].status \in Ended /\ row'[t].key = row[t].key
                                  /\ row'[t].trusted = row[t].trusted
        /\ \A p \in Procs : pc'[p] \in Bringing => pc'[p] = pc[p] /\ WorkId(p)' = WorkId(p)

LEMMA CalmKeeps ==
    ASSUME TraceTypes, TracesInv, Calm
    PROVE  TracesInv'
<1> USE DEF Calm
<1>0. \A t \in TraceIds : row[t].status \in Ended => row'[t].status \in Ended
  OBVIOUS
<1>1. OneHandler'
  <2>1. ASSUME NEW p \in Procs, (pc[p] \in Bringing)'
        PROVE  (WorkId(p) \in Ids /\ row[WorkId(p)].status \in {"reducing"} \cup Ended)'
    <3>1. WorkId(p)' = WorkId(p) /\ pc[p] \in Bringing
      BY <2>1 DEF Bringing
    <3>2. WorkId(p) \in Ids /\ row[WorkId(p)].status \in {"reducing"} \cup Ended
      BY <3>1 DEF TracesInv, OneHandler
    <3> QED
      BY <1>0, <3>1, <3>2, Constants
  <2>2. ASSUME NEW p \in Procs, NEW q \in Procs, pc'[p] \in Bringing, pc'[q] \in Bringing,
               WorkId(p)' = WorkId(q)'
        PROVE  p = q
    BY <2>2 DEF TracesInv, OneHandler, Bringing
  <2> QED
    BY <2>1, <2>2 DEF OneHandler, Bringing
<1>2. ConsumerOK'
  <2> SUFFICES ASSUME busy # Idle
               PROVE  /\ row'[busy.id].status \in {"queued"} \cup Ended
                      /\ \A p \in Procs : pc'[p] \in Bringing => WorkId(p)' # busy.id
                      /\ busy.trusted => busy.id \notin tainted
                      /\ busy.pc = "read" => learned[busy.id] = 0
    BY DEF ConsumerOK, Bringing
  <2>1. busy.id \in TraceIds
    BY BusyFacts
  <2> QED
    BY <1>0, <2>1 DEF TracesInv, ConsumerOK
<1>3. TracesOK'
  <2> SUFFICES ASSUME NEW t \in TraceIds
               PROVE  (LearnedOK(t) /\ TaintedOK(t) /\ GoldenOK(t))'
    BY DEF TracesOK
  <2>1. LearnedOK(t) /\ TaintedOK(t) /\ GoldenOK(t)
    BY DEF TracesInv, TracesOK
  <2> QED
    BY <1>0, <2>1 DEF LearnedOK, TaintedOK, GoldenOK, Ended, Statuses
<1>4. PlacesInv'
  <2>1. ASSUME NEW k \in Keys, NEW t \in Places(k)'
        PROVE  t \in Places(k)
    <3>1. t \in TraceIds /\ row'[t].key = k /\ row[t].key = k /\ row'[t].trusted = row[t].trusted
      BY <2>1 DEF Places
    <3>2. CASE busy.id = t /\ ~busy.trusted
      BY <3>1, <3>2 DEF Places
    <3>3. CASE busy.id # t /\ ~row'[t].trusted /\ row'[t].status = "queued"
      BY <3>1, <3>3 DEF Places, Ended
    <3>4. CASE ~row'[t].trusted /\ \E p \in Procs : pc'[p] = "counted" /\ WorkId(p)' = t
      BY <3>1, <3>4 DEF Places, Bringing
    <3> QED
      BY <2>1, <3>2, <3>3, <3>4 DEF Places
  <2> QED
    BY <2>1, PlacesShrink DEF TracesInv
<1> QED
  BY <1>1, <1>2, <1>3, <1>4 DEF TracesInv

\* A half starts on its way: its trace was open, and nobody brings it yet.
LEMMA BringKeeps ==
    ASSUME TraceTypes, TracesInv, NEW p \in Procs,
           pc[p] \notin Bringing, WorkId(p) \in Ids, Moved(WorkId(p), "open", "reducing"),
           Goto(p, "reducing"), UNCHANGED <<busy, serving, waiting, learned, tainted, cap, upload>>
    PROVE  TracesInv'
<1> DEFINE t == WorkId(p)
<1>1. /\ t \in Ids /\ t \in TraceIds /\ t \notin Requests /\ row[t].status = "open"
      /\ row'[t] = [row[t] EXCEPT !.status = "reducing"]
      /\ \A s \in TraceIds : s # t => row'[s] = row[s]
  BY Constants DEF Moved, TraceTypes
<1>2. /\ \A q \in Procs : WorkId(q)' = WorkId(q)
      /\ pc'[p] = "reducing" /\ \A q \in Procs : q # p => pc'[q] = pc[q]
  BY WorkOf DEF Goto, TraceTypes, WorkId
<1>3. row'[t].status = "reducing" /\ row'[t].key = row[t].key /\ row'[t].trusted = row[t].trusted
  BY <1>1 DEF TraceTypes, Rows
<1>4. \A q \in Procs : pc[q] \in Bringing => WorkId(q) # t
  BY <1>1 DEF TracesInv, OneHandler, Ended
<1>5. busy.id # t
  BY <1>1, BusyFacts DEF TracesInv, ConsumerOK, Ended
<1> HIDE DEF t
<1>6. OneHandler'
  <2>1. ASSUME NEW q \in Procs, pc'[q] \in Bringing
        PROVE  WorkId(q)' \in Ids /\ row'[WorkId(q)'].status \in {"reducing"} \cup Ended
    <3>1. CASE q = p
      BY <1>1, <1>2, <1>3, <3>1 DEF t
    <3>2. CASE q # p
      <4>1. WorkId(q)' = WorkId(q) /\ pc[q] \in Bringing /\ WorkId(q) # t
        BY <1>2, <1>4, <2>1, <3>2
      <4> QED
        BY <1>1, <4>1, Constants DEF TracesInv, OneHandler
    <3> QED
      BY <3>1, <3>2
  <2>2. ASSUME NEW q1 \in Procs, NEW q2 \in Procs, pc'[q1] \in Bringing, pc'[q2] \in Bringing,
               WorkId(q1)' = WorkId(q2)'
        PROVE  q1 = q2
    BY <1>2, <1>4, <2>2 DEF TracesInv, OneHandler, t
  <2> QED
    BY <2>1, <2>2 DEF OneHandler, Bringing
<1>7. ConsumerOK'
  <2> SUFFICES ASSUME busy # Idle
               PROVE  /\ row'[busy.id].status \in {"queued"} \cup Ended
                      /\ \A q \in Procs : pc'[q] \in Bringing => WorkId(q)' # busy.id
                      /\ busy.trusted => busy.id \notin tainted
                      /\ busy.pc = "read" => learned[busy.id] = 0
    BY DEF ConsumerOK, Bringing
  <2>1. busy.id \in TraceIds
    BY BusyFacts
  <2> QED
    BY <1>1, <1>2, <1>5, <2>1 DEF TracesInv, ConsumerOK, t
<1>8. TracesOK'
  <2> SUFFICES ASSUME NEW s \in TraceIds
               PROVE  (LearnedOK(s) /\ TaintedOK(s) /\ GoldenOK(s))'
    BY DEF TracesOK
  <2>1. LearnedOK(s) /\ TaintedOK(s) /\ GoldenOK(s)
    BY DEF TracesInv, TracesOK
  <2> QED
    BY <1>1, <1>3, <1>5, <2>1 DEF LearnedOK, TaintedOK, GoldenOK, Ended
<1>9. PlacesInv'
  <2>1. ASSUME NEW k \in Keys, NEW s \in Places(k)'
        PROVE  s \in Places(k)
    <3>1. s \in TraceIds /\ row'[s].key = k /\ row[s].key = k /\ row'[s].trusted = row[s].trusted
      BY <1>1, <1>3, <2>1 DEF Places
    <3>2. CASE busy.id = s /\ ~busy.trusted
      BY <3>1, <3>2 DEF Places
    <3>3. CASE busy.id # s /\ ~row'[s].trusted /\ row'[s].status = "queued"
      BY <1>1, <1>3, <3>1, <3>3 DEF Places
    <3>4. CASE ~row'[s].trusted /\ \E q \in Procs : pc'[q] = "counted" /\ WorkId(q)' = s
      BY <1>2, <3>1, <3>4 DEF Places
    <3> QED
      BY <2>1, <3>2, <3>3, <3>4 DEF Places
  <2> QED
    BY <2>1, PlacesShrink DEF TracesInv
<1> QED
  BY <1>6, <1>7, <1>8, <1>9 DEF TracesInv

LEMMA ClaimKeeps ==
    ASSUME TraceTypes, TracesInv, NEW r \in Requests, NEW c \in Caps, Claimed(r, c),
           c.id \in TraceIds, c.id \in Requests => c.trusted, pc[r] \notin Bringing
    PROVE  /\ TracesInv'
           /\ serving' = serving /\ waiting' = waiting
<1> DEFINE t == c.id
           new == [NoRow EXCEPT !.status = "capturing", !.key = c.key, !.trusted = c.trusted]
<1>0. UNCHANGED <<busy, serving, waiting, learned, upload>>
  BY DEF Claimed
<1>1. /\ new.status = "capturing" /\ new.trusted = c.trusted
      /\ row[t].status = "none" => row'[t] = new
      /\ row[t].status # "none" => row' = row /\ tainted' = tainted
      /\ \A s \in TraceIds : s # t => row'[s] = row[s]
      /\ tainted \subseteq tainted' /\ tainted' \subseteq tainted \cup {t}
      /\ c.trusted => tainted' = tainted
  BY Constants DEF Claimed, TraceTypes, NoRow
<1>2. \A q \in Procs : q # r => pc'[q] = pc[q] /\ WorkId(q)' = WorkId(q)
  BY WorkOf DEF Claimed, Goto, TraceTypes, WorkId
<1>3. pc'[r] = "capturing"
  BY Constants DEF Claimed, Goto, TraceTypes
<1>4. ASSUME row[t].status = "none"
      PROVE  /\ \A q \in Procs : pc[q] \in Bringing => WorkId(q) # t
             /\ busy.id # t /\ learned[t] = 0
  <2>1. busy.id # t
    BY <1>4, BusyFacts DEF TracesInv, ConsumerOK, Ended
  <2> QED
    BY <1>4, <2>1 DEF TracesInv, OneHandler, TracesOK, LearnedOK, Ended
<1> HIDE DEF t, new
<1> t \in TraceIds
  BY DEF t
<1>5. OneHandler'
  <2>1. ASSUME NEW q \in Procs, pc'[q] \in Bringing
        PROVE  /\ q # r /\ pc[q] \in Bringing /\ WorkId(q)' = WorkId(q) /\ WorkId(q) \in Ids
               /\ row'[WorkId(q)'].status \in {"reducing"} \cup Ended
    <3>1. q # r
      BY <1>3, <2>1 DEF Bringing
    <3>2. WorkId(q)' = WorkId(q) /\ pc[q] \in Bringing
      BY <1>2, <2>1, <3>1
    <3>3. WorkId(q) \in TraceIds /\ WorkId(q) \in Ids
          /\ row[WorkId(q)].status \in {"reducing"} \cup Ended
      BY <3>2, Constants DEF TracesInv, OneHandler
    <3>4. row'[WorkId(q)] = row[WorkId(q)]
      BY <1>1, <1>4, <3>2, <3>3
    <3> QED
      BY <3>1, <3>2, <3>3, <3>4
  <2>2. ASSUME NEW q1 \in Procs, NEW q2 \in Procs, pc'[q1] \in Bringing, pc'[q2] \in Bringing,
               WorkId(q1)' = WorkId(q2)'
        PROVE  q1 = q2
    BY <2>1, <2>2 DEF TracesInv, OneHandler
  <2> QED
    BY <2>1, <2>2 DEF OneHandler, Bringing
<1>6. ConsumerOK'
  <2> SUFFICES ASSUME busy # Idle
               PROVE  /\ row'[busy.id].status \in {"queued"} \cup Ended
                      /\ \A q \in Procs : pc'[q] \in Bringing => WorkId(q)' # busy.id
                      /\ busy.trusted => busy.id \notin tainted'
                      /\ busy.pc = "read" => learned[busy.id] = 0
    BY <1>0 DEF ConsumerOK, Bringing
  <2>1. busy.id \in TraceIds
    BY BusyFacts
  <2>2. row'[busy.id] = row[busy.id]
    BY <1>1, <1>4, <2>1
  <2>3. busy.id \in tainted' => busy.id \in tainted
    BY <1>1, <1>4
  <2>4. \A q \in Procs : pc'[q] \in Bringing => pc[q] \in Bringing /\ WorkId(q)' = WorkId(q)
    BY <1>2, <1>3 DEF Bringing
  <2> QED
    BY <2>2, <2>3, <2>4 DEF TracesInv, ConsumerOK
<1>7. TracesOK'
  <2> SUFFICES ASSUME NEW s \in TraceIds
               PROVE  (LearnedOK(s) /\ TaintedOK(s) /\ GoldenOK(s))'
    BY DEF TracesOK
  <2>1. LearnedOK(s) /\ TaintedOK(s) /\ GoldenOK(s)
    BY DEF TracesInv, TracesOK
  <2>2. CASE s # t \/ row[t].status # "none"
    <3>1. row'[s] = row[s] /\ (s \in tainted' <=> s \in tainted)
      BY <1>1, <2>2
    <3> QED
      BY <1>0, <2>1, <3>1 DEF LearnedOK, TaintedOK, GoldenOK
  <2>3. CASE s = t /\ row[t].status = "none"
    <3>1. row'[s].status = "capturing" /\ row'[s].trusted = c.trusted /\ learned[s] = 0
      BY <1>1, <1>4, <2>3
    <3>2. s \notin tainted
      BY <2>1, <2>3 DEF TaintedOK
    <3>3. s \in tainted' => ~c.trusted
      BY <1>1, <3>2
    <3> QED
      BY <1>0, <2>3, <3>1, <3>3 DEF LearnedOK, TaintedOK, GoldenOK, t
  <2> QED
    BY <2>2, <2>3
<1>8. PlacesInv'
  <2>1. ASSUME NEW k \in Keys, NEW s \in Places(k)'
        PROVE  s \in Places(k)
    <3>0. s \in TraceIds
      BY <2>1 DEF Places
    <3>1. CASE s = t /\ row[t].status = "none"
      <4>1. row'[s].status = "capturing" /\ busy.id # s
        BY <1>1, <1>4, <3>1
      <4>2. \A q \in Procs : pc'[q] = "counted" => WorkId(q)' # s
        BY <1>2, <1>3, <1>4, <3>1 DEF Bringing
      <4> QED
        BY <1>0, <2>1, <4>1, <4>2 DEF Places
    <3>2. CASE s # t \/ row[t].status # "none"
      <4>1. row'[s] = row[s]
        BY <1>1, <3>0, <3>2
      <4>2. \A q \in Procs : pc'[q] = "counted" => pc[q] = "counted" /\ WorkId(q)' = WorkId(q)
        BY <1>2, <1>3
      <4> QED
        BY <1>0, <2>1, <4>1, <4>2 DEF Places
    <3> QED
      BY <3>1, <3>2
  <2> QED
    BY <1>0, <2>1, PlacesShrink DEF TracesInv
<1> QED
  BY <1>0, <1>5, <1>6, <1>7, <1>8 DEF TracesInv

\* The shapes of a capture are stored: its trace awaits its half, or is queued when
\* it is golden.
LEMMA CommitKeeps ==
    ASSUME TraceTypes, TracesInv, NEW t \in TraceIds, NEW s \in {"open", "queued"},
           row[t].status = "capturing", s = IF t \in Requests THEN "queued" ELSE "open",
           row' = [row EXCEPT ![t].status = s],
           UNCHANGED <<busy, serving, waiting, learned, tainted>>,
           \A p \in Procs : pc'[p] \in Bringing => pc'[p] = pc[p] /\ WorkId(p)' = WorkId(p)
    PROVE  TracesInv'
<1>1. /\ row'[t].status = s /\ row'[t].key = row[t].key /\ row'[t].trusted = row[t].trusted
      /\ \A x \in TraceIds : x # t => row'[x] = row[x]
  BY DEF TraceTypes, Rows
<1>2. \A q \in Procs : pc[q] \in Bringing => WorkId(q) # t
  BY DEF TracesInv, OneHandler, Ended
<1>3. busy.id # t
  BY BusyFacts DEF TracesInv, ConsumerOK, Ended
<1>4. OneHandler'
  <2>1. ASSUME NEW q \in Procs, pc'[q] \in Bringing
        PROVE  /\ pc[q] \in Bringing /\ WorkId(q)' = WorkId(q) /\ WorkId(q) \in Ids
               /\ row'[WorkId(q)'].status \in {"reducing"} \cup Ended
    BY <1>1, <1>2, <2>1, Constants DEF TracesInv, OneHandler
  <2>2. ASSUME NEW q1 \in Procs, NEW q2 \in Procs, pc'[q1] \in Bringing, pc'[q2] \in Bringing,
               WorkId(q1)' = WorkId(q2)'
        PROVE  q1 = q2
    BY <2>1, <2>2 DEF TracesInv, OneHandler
  <2> QED
    BY <2>1, <2>2 DEF OneHandler, Bringing
<1>5. ConsumerOK'
  <2> SUFFICES ASSUME busy # Idle
               PROVE  /\ row'[busy.id].status \in {"queued"} \cup Ended
                      /\ \A q \in Procs : pc'[q] \in Bringing => WorkId(q)' # busy.id
                      /\ busy.trusted => busy.id \notin tainted
                      /\ busy.pc = "read" => learned[busy.id] = 0
    BY DEF ConsumerOK, Bringing
  <2>1. row'[busy.id] = row[busy.id]
    BY <1>1, <1>3, BusyFacts
  <2> QED
    BY <2>1 DEF TracesInv, ConsumerOK
<1>6. TracesOK'
  <2> SUFFICES ASSUME NEW x \in TraceIds
               PROVE  (LearnedOK(x) /\ TaintedOK(x) /\ GoldenOK(x))'
    BY DEF TracesOK
  <2>1. LearnedOK(x) /\ TaintedOK(x) /\ GoldenOK(x)
    BY DEF TracesInv, TracesOK
  <2>2. CASE x # t
    BY <1>1, <2>1, <2>2 DEF LearnedOK, TaintedOK, GoldenOK
  <2>3. CASE x = t
    BY <1>1, <1>3, <2>1, <2>3 DEF LearnedOK, TaintedOK, GoldenOK, Ended
  <2> QED
    BY <2>2, <2>3
<1>7. PlacesInv'
  <2>1. ASSUME NEW k \in Keys, NEW x \in Places(k)'
        PROVE  x \in Places(k)
    <3>1. /\ x \in TraceIds /\ row'[x].key = k /\ row[x].key = k
          /\ row'[x].trusted = row[x].trusted
          /\ x = t => row'[x].status = s
          /\ x # t => row'[x].status = row[x].status
      BY <1>1, <2>1 DEF Places
    <3>2. CASE busy.id = x /\ ~busy.trusted
      BY <3>1, <3>2 DEF Places
    <3>3. CASE busy.id # x /\ ~row'[x].trusted /\ row'[x].status = "queued"
      <4>1. x # t
        BY <3>1, <3>3 DEF TracesInv, TracesOK, GoldenOK
      <4> QED
        BY <3>1, <3>3, <4>1 DEF Places
    <3>4. CASE ~row'[x].trusted /\ \E q \in Procs : pc'[q] = "counted" /\ WorkId(q)' = x
      BY <3>1, <3>4 DEF Places, Bringing
    <3> QED
      BY <2>1, <3>2, <3>3, <3>4 DEF Places
  <2> QED
    BY <2>1, PlacesShrink DEF TracesInv
<1> QED
  BY <1>4, <1>5, <1>6, <1>7 DEF TracesInv

\* A step of whoever brings trace t: it stores the half, or queues or ends the trace.
HalfMoves(p, t) ==
    /\ pc[p] \in Bringing /\ t = WorkId(p)
    /\ \A q \in Procs : q # p => pc'[q] = pc[q]
    /\ UNCHANGED <<busy, serving, learned, tainted, cap, upload>>
    /\ \A s \in TraceIds : s # t => row'[s] = row[s]
    /\ row'[t].key = row[t].key /\ (row'[t].trusted => row[t].trusted)
    /\ row'[t].status \in {row[t].status} \cup Ended \cup {"queued"}
    /\ row'[t].status = "queued" => row[t].status = "reducing" /\ pc'[p] \notin Bringing

LEMMA HalfKeeps ==
    ASSUME TraceTypes, TracesInv, NEW p \in Procs, NEW t, HalfMoves(p, t)
    PROVE  OneHandler' /\ ConsumerOK' /\ TracesOK'
<1> USE DEF HalfMoves
<1>1. t \in Ids /\ t \in TraceIds /\ t \notin Requests
      /\ row[t].status \in {"reducing"} \cup Ended
  BY Constants DEF TracesInv, OneHandler
<1>2. \A q \in Procs : WorkId(q)' = WorkId(q)
  BY DEF WorkId
<1>3. \A q \in Procs : q # p /\ pc[q] \in Bringing => WorkId(q) # t
  BY DEF TracesInv, OneHandler
<1>4. busy # Idle => busy.id \in TraceIds /\ busy.id # t
  BY BusyFacts DEF TracesInv, ConsumerOK
<1>5. OneHandler'
  <2>1. ASSUME NEW q \in Procs, pc'[q] \in Bringing
        PROVE  /\ pc[q] \in Bringing /\ WorkId(q)' = WorkId(q) /\ WorkId(q) \in Ids
               /\ row'[WorkId(q)'].status \in {"reducing"} \cup Ended
    <3>1. CASE q = p
      BY <1>1, <1>2, <2>1, <3>1 DEF Ended
    <3>2. CASE q # p
      BY <1>2, <1>3, <2>1, <3>2, Constants DEF TracesInv, OneHandler
    <3> QED
      BY <3>1, <3>2
  <2>2. ASSUME NEW q1 \in Procs, NEW q2 \in Procs, pc'[q1] \in Bringing, pc'[q2] \in Bringing,
               WorkId(q1)' = WorkId(q2)'
        PROVE  q1 = q2
    BY <2>1, <2>2 DEF TracesInv, OneHandler
  <2> QED
    BY <2>1, <2>2 DEF OneHandler, Bringing
<1>6. ConsumerOK'
  <2> SUFFICES ASSUME busy # Idle
               PROVE  /\ row'[busy.id].status \in {"queued"} \cup Ended
                      /\ \A q \in Procs : pc'[q] \in Bringing => WorkId(q)' # busy.id
                      /\ busy.trusted => busy.id \notin tainted
                      /\ busy.pc = "read" => learned[busy.id] = 0
    BY DEF ConsumerOK, Bringing
  <2>1. row'[busy.id] = row[busy.id]
    BY <1>4
  <2>2. \A q \in Procs : pc'[q] \in Bringing => WorkId(q)' # busy.id
    BY <1>2, <1>3, <1>4 DEF TracesInv, ConsumerOK
  <2> QED
    BY <2>1, <2>2 DEF TracesInv, ConsumerOK
<1>7. TracesOK'
  <2> SUFFICES ASSUME NEW s \in TraceIds
               PROVE  (LearnedOK(s) /\ TaintedOK(s) /\ GoldenOK(s))'
    BY DEF TracesOK
  <2>1. LearnedOK(s) /\ TaintedOK(s) /\ GoldenOK(s)
    BY DEF TracesInv, TracesOK
  <2>2. CASE s # t
    BY <2>1, <2>2 DEF LearnedOK, TaintedOK, GoldenOK
  <2>3. CASE s = t
    <3>1. learned[t] = 1 => row[t].status \in Ended
      BY <1>1, <1>4, <2>1, <2>3, BusyFacts DEF LearnedOK
    <3>2. row'[t].status # "none"
      BY <1>1 DEF Ended
    <3>3. row[t].status \in Ended => row'[t].status \in Ended
      BY DEF Ended
    <3> QED
      BY <1>1, <2>1, <2>3, <3>1, <3>2, <3>3 DEF LearnedOK, TaintedOK, GoldenOK
  <2> QED
    BY <2>2, <2>3
<1> QED
  BY <1>5, <1>6, <1>7

LEMMA StoreHalfKeeps ==
    ASSUME TraceTypes, TracesInv, NEW p \in Procs, StoreHalf(p)
    PROVE  TracesInv'
<1> DEFINE t == WorkId(p)
<1>0. /\ UNCHANGED <<trust, cap, active, slots, samples, seen, waiting, queue, busy, upload,
                     serving, learned, tainted>>
      /\ pc[p] = "reducing" /\ t \in TraceIds /\ row[t].status \in {"reducing"} \cup Ended
  BY WorkTypes DEF StoreHalf, counters, history, Bringing, TracesInv, OneHandler
<1>1. /\ row'[t].status = row[t].status /\ row'[t].key = row[t].key
      /\ row'[t].trusted => row[t].trusted
      /\ \A s \in TraceIds : s # t => row'[s] = row[s]
  BY <1>0 DEF StoreHalf, TraceTypes, Rows
<1>2. /\ \A q \in Procs : q # p => pc'[q] = pc[q]
      /\ pc'[p] = IF row'[t].trusted THEN "counted" ELSE "stored"
      /\ \A q \in Procs : WorkId(q)' = WorkId(q)
  BY <1>0 DEF StoreHalf, Goto, TraceTypes, WorkId
<1>3. HalfMoves(p, t)
  BY <1>0, <1>1, <1>2 DEF HalfMoves, Bringing, Ended
<1>4. OneHandler' /\ ConsumerOK' /\ TracesOK'
  BY <1>3, HalfKeeps
<1>5. busy.id # t
  BY <1>0, BusyFacts DEF TracesInv, ConsumerOK, Bringing
<1> HIDE DEF t
<1>6. ASSUME NEW k \in Keys, NEW s \in Places(k)'
      PROVE  s \in Places(k)
  <2>1. s \in TraceIds /\ row'[s].key = k /\ row[s].key = k /\ row'[s].status = row[s].status
    BY <1>1, <1>6 DEF Places
  <2>2. CASE s = t
    <3>1. row'[s].status # "queued"
      BY <1>0, <2>1, <2>2 DEF Ended
    <3>2. \E q \in Procs : pc'[q] = "counted" /\ WorkId(q)' = s /\ ~row'[s].trusted
      BY <1>0, <1>5, <1>6, <2>2, <3>1 DEF Places
    <3>3. PICK q \in Procs : q # p /\ pc[q] = "counted" /\ WorkId(q) = s
      BY <1>2, <2>2, <3>2
    <3>4. q = p
      BY <1>0, <2>2, <3>3 DEF TracesInv, OneHandler, Bringing, t
    <3> QED
      BY <3>3, <3>4
  <2>3. CASE s # t
    <3>1. row'[s] = row[s]
      BY <1>1, <2>1, <2>3
    <3>2. \A q \in Procs : pc'[q] = "counted" /\ WorkId(q)' = s => pc[q] = "counted" /\ WorkId(q) = s
      BY <1>2, <2>3 DEF t
    <3> QED
      BY <1>0, <1>6, <2>1, <3>1, <3>2 DEF Places
  <2> QED
    BY <2>2, <2>3
<1>7. PlacesInv'
  BY <1>0, <1>6, PlacesShrink DEF TracesInv
<1> QED
  BY <1>4, <1>7 DEF TracesInv

\* A place is taken for a trace before it is queued.
LEMMA TakePlaceKeeps ==
    ASSUME TraceTypes, TracesInv, NEW p \in Procs, TakePlace(p)
    PROVE  TracesInv'
<1> DEFINE t == WorkId(p)
           k == WorkKey(p)
<1>0. /\ UNCHANGED <<trust, cap, active, queue, busy, upload, serving, learned, tainted>>
      /\ pc[p] = "stored" /\ t \in TraceIds /\ k \in Keys /\ k = row[t].key
      /\ row[t].status \in {"reducing"} \cup Ended /\ waiting \in [Keys -> Nat]
  BY WorkTypes DEF TakePlace, history, Bringing, TracesInv, OneHandler, TraceTypes, WorkKey
<1>1. /\ \A q \in Procs : q # p => pc'[q] = pc[q]
      /\ \A q \in Procs : WorkId(q)' = WorkId(q)
  BY <1>0 DEF TakePlace, Goto, TraceTypes, WorkId
<1>2. CASE waiting[k] < KeyQueue
  <2>1. row' = row /\ pc'[p] = "counted" /\ waiting' = [waiting EXCEPT ![k] = @ + 1]
    BY <1>2 DEF TakePlace, Goto, TraceTypes
  <2>2. HalfMoves(p, t)
    BY <1>0, <1>1, <2>1 DEF HalfMoves, Bringing, Ended
  <2>3. OneHandler' /\ ConsumerOK' /\ TracesOK'
    BY <2>2, HalfKeeps
  <2> HIDE DEF t, k
  <2>4. ASSUME NEW x \in Keys
        PROVE  Places(x)' \subseteq IF x = k THEN Places(x) \cup {t} ELSE Places(x)
    <3>1. ASSUME NEW s \in Places(x)', s # t
          PROVE  s \in Places(x)
      <4>1. \A q \in Procs : pc'[q] = "counted" /\ WorkId(q)' = s
                                => pc[q] = "counted" /\ WorkId(q) = s
        BY <1>1, <3>1 DEF t
      <4> QED
        BY <1>0, <2>1, <3>1, <4>1 DEF Places
    <3>2. t \in Places(x)' => x = k
      BY <1>0, <2>1 DEF Places
    <3> QED
      BY <3>1, <3>2
  <2>5. ASSUME serving, NEW x \in Keys
        PROVE  IsFiniteSet(Places(x)') /\ Cardinality(Places(x)') <= waiting'[x]
    <3>1. IsFiniteSet(Places(x)) /\ Cardinality(Places(x)) <= waiting[x]
      BY <2>5 DEF TracesInv, PlacesInv
    <3>2. Cardinality(Places(x)) \in Nat /\ waiting[x] \in Nat
      BY <1>0, <3>1, FS_CardinalityType
    <3>3. CASE x # k
      <4>1. IsFiniteSet(Places(x)') /\ Cardinality(Places(x)') <= Cardinality(Places(x))
        BY <2>4, <3>1, <3>3, FS_Subset
      <4>2. Cardinality(Places(x)') \in Nat
        BY <4>1, FS_CardinalityType
      <4> QED
        BY <1>0, <2>1, <3>1, <3>2, <3>3, <4>1, <4>2
    <3>4. CASE x = k
      <4>1. /\ IsFiniteSet(Places(x) \cup {t})
            /\ Cardinality(Places(x) \cup {t}) <= Cardinality(Places(x)) + 1
            /\ Cardinality(Places(x) \cup {t}) \in Nat
        <5>1. /\ IsFiniteSet(Places(x) \cup {t})
              /\ \/ Cardinality(Places(x) \cup {t}) = Cardinality(Places(x))
                 \/ Cardinality(Places(x) \cup {t}) = Cardinality(Places(x)) + 1
          BY <3>1, FS_AddElement
        <5> QED
          BY <3>2, <5>1
      <4>2. /\ IsFiniteSet(Places(x)')
            /\ Cardinality(Places(x)') <= Cardinality(Places(x) \cup {t})
        BY <2>4, <3>4, <4>1, FS_Subset
      <4>3. Cardinality(Places(x)') \in Nat
        BY <4>2, FS_CardinalityType
      <4>4. waiting'[x] = waiting[x] + 1
        BY <1>0, <2>1, <3>4
      <4> QED
        BY <3>1, <3>2, <4>1, <4>2, <4>3, <4>4
    <3> QED
      BY <3>3, <3>4
  <2>6. PlacesInv'
    BY <1>0, <2>5 DEF PlacesInv
  <2> QED
    BY <2>3, <2>6 DEF TracesInv
<1>3. CASE ~(waiting[k] < KeyQueue)
  <2>1. waiting' = waiting /\ row' = [row EXCEPT ![t].status = "dropped"] /\ pc'[p] \notin Bringing
    BY <1>0, <1>3 DEF TakePlace, Goto, TraceTypes, WorkEnd, Bringing
  <2>2. row'[t].status = "dropped" /\ row'[t].key = row[t].key /\ row'[t].trusted = row[t].trusted
        /\ \A s \in TraceIds : s # t => row'[s] = row[s]
    BY <1>0, <2>1 DEF TraceTypes, Rows
  <2>3. Calm
    BY <1>0, <1>1, <2>1, <2>2 DEF Calm, Ended, Statuses
  <2> QED
    BY <2>3, CalmKeeps
<1> QED
  BY <1>2, <1>3

LEMMA QueueKeeps ==
    ASSUME TraceTypes, TracesInv, NEW p \in Procs, QueueTrace(p)
    PROVE  TracesInv'
<1> DEFINE t == WorkId(p)
<1>0. /\ UNCHANGED <<trust, cap, active, waiting, busy, upload, serving, learned, tainted>>
      /\ pc[p] = "counted" /\ t \in TraceIds
      /\ row[t].status \in {"reducing"} \cup Ended
  BY WorkTypes DEF QueueTrace, history, counters, Bringing, TracesInv, OneHandler
<1>1. /\ \A q \in Procs : q # p => pc'[q] = pc[q]
      /\ \A q \in Procs : WorkId(q)' = WorkId(q)
      /\ pc'[p] \notin Bringing
  BY <1>0 DEF QueueTrace, Goto, TraceTypes, WorkId, WorkEnd, Bringing
<1>2. CASE row[t].status # "reducing"
  BY <1>0, <1>1, <1>2, CalmKeeps DEF Calm, QueueTrace, Bringing
<1>3. CASE row[t].status = "reducing" /\ Len(queue) < QueueSize
  <2>1. row' = [row EXCEPT ![t].status = "queued"]
    BY <1>3 DEF QueueTrace, Enqueue
  <2>2. row'[t].status = "queued" /\ row'[t].key = row[t].key /\ row'[t].trusted = row[t].trusted
        /\ \A s \in TraceIds : s # t => row'[s] = row[s]
    BY <1>0, <2>1 DEF TraceTypes, Rows
  <2>3. HalfMoves(p, t)
    BY <1>0, <1>1, <1>3, <2>2 DEF HalfMoves, Bringing
  <2>4. OneHandler' /\ ConsumerOK' /\ TracesOK'
    BY <2>3, HalfKeeps
  <2> HIDE DEF t
  <2>5. ASSUME NEW k \in Keys, NEW s \in Places(k)'
        PROVE  s \in Places(k)
    <3>1. \A q \in Procs : pc'[q] = "counted" /\ WorkId(q)' = s => pc[q] = "counted" /\ WorkId(q) = s
      BY <1>1 DEF Bringing
    <3>2. CASE s = t
      BY <1>0, <2>2, <2>5, <3>1, <3>2 DEF Places, t
    <3>3. CASE s # t
      BY <1>0, <2>2, <2>5, <3>1, <3>3 DEF Places
    <3> QED
      BY <3>2, <3>3
  <2> QED
    BY <1>0, <2>4, <2>5, PlacesShrink DEF TracesInv
<1>4. CASE row[t].status = "reducing" /\ ~(Len(queue) < QueueSize)
  <2>1. row' = [[row EXCEPT ![t].status = "queued"] EXCEPT ![t].status = "dropped"]
    BY <1>4 DEF QueueTrace, Enqueue
  <2>2. row'[t].status = "dropped" /\ row'[t].key = row[t].key /\ row'[t].trusted = row[t].trusted
        /\ \A s \in TraceIds : s # t => row'[s] = row[s]
    BY <1>0, <2>1 DEF TraceTypes, Rows
  <2>3. Calm
    BY <1>0, <1>1, <2>2 DEF Calm, Ended, Statuses
  <2> QED
    BY <2>3, CalmKeeps
<1> QED
  BY <1>2, <1>3, <1>4

\* The consumer reads a queued trace.
LEMMA TakeKeeps ==
    ASSUME TraceTypes, TracesInv, NEW t \in TraceIds, busy = Idle, row[t].status = "queued",
           busy' = Working(t),
           UNCHANGED <<row, pc, cap, upload, waiting, learned, tainted>>,
           serving' = serving
    PROVE  TracesInv'
<1>1. /\ \A q \in Procs : WorkId(q)' = WorkId(q)
      /\ busy'.id = t /\ busy'.trusted = row[t].trusted
      /\ busy.id \notin TraceIds
  BY BusyFacts DEF WorkId
<1>2. OneHandler'
  <2>1. OneHandler
    BY DEF TracesInv
  <2> QED
    BY <1>1, <2>1 DEF OneHandler
<1>3. ConsumerOK'
  <2>1. \A p \in Procs : pc[p] \in Bringing => WorkId(p) # t
    BY DEF TracesInv, OneHandler, Ended
  <2>2. learned[t] = 0 /\ (row[t].trusted => t \notin tainted)
    <3>1. LearnedOK(t) /\ TaintedOK(t)
      BY DEF TracesInv, TracesOK
    <3> QED
      BY <1>1, <3>1 DEF LearnedOK, TaintedOK, Ended
  <2>3. /\ row'[t].status \in {"queued"} \cup Ended
        /\ \A p \in Procs : pc'[p] \in Bringing => WorkId(p)' # t
        /\ busy'.trusted => t \notin tainted'
        /\ learned'[t] = 0
    BY <1>1, <2>1, <2>2
  <2> QED
    BY <1>1, <2>3 DEF ConsumerOK, Bringing
<1>4. TracesOK'
  <2>1. \A s \in TraceIds : LearnedOK(s) /\ TaintedOK(s) /\ GoldenOK(s)
    BY DEF TracesInv, TracesOK
  <2>2. \A s \in TraceIds : busy.id # s
    BY <1>1
  <2> QED
    BY <2>1, <2>2 DEF TracesOK, LearnedOK, TaintedOK, GoldenOK
<1>5. PlacesInv'
  <2>1. ASSUME NEW k \in Keys, NEW s \in Places(k)'
        PROVE  s \in Places(k)
    <3>1. s \in TraceIds /\ row[s].key = k /\ busy.id # s
      BY <1>1, <2>1 DEF Places
    <3>2. CASE s = t /\ ~row[t].trusted
      BY <3>1, <3>2 DEF Places
    <3>3. CASE s # t /\ ~row[s].trusted /\ row[s].status = "queued"
      BY <3>1, <3>3 DEF Places
    <3>4. CASE ~row[s].trusted /\ \E q \in Procs : pc[q] = "counted" /\ WorkId(q) = s
      BY <3>1, <3>4 DEF Places
    <3> QED
      BY <1>1, <2>1, <3>2, <3>3, <3>4 DEF Places
  <2> QED
    BY <2>1, PlacesShrink DEF TracesInv
<1> QED
  BY <1>2, <1>3, <1>4, <1>5 DEF TracesInv

LEMMA LearnKeeps ==
    ASSUME TraceTypes, TracesInv, Learn
    PROVE  TracesInv'
<1> DEFINE t == busy.id
<1>0. /\ UNCHANGED <<row, pc, cap, upload, waiting, serving, tainted>>
      /\ busy # Idle /\ busy \in BusySet /\ t \in TraceIds /\ MayLearn(t)
      /\ learned' = [learned EXCEPT ![t] = @ + 1]
  BY BusyFacts DEF Learn, store, counters, Idle
<1>1. /\ \A q \in Procs : WorkId(q)' = WorkId(q)
      /\ busy'.id = t /\ busy'.trusted = busy.trusted /\ busy'.pc = "learned" /\ busy' # Idle
  BY <1>0 DEF Learn, WorkId, BusySet, Idle
<1>2. learned[t] = 0 /\ learned'[t] = 1 /\ \A s \in TraceIds : s # t => learned'[s] = learned[s]
  BY <1>0 DEF Learn, TracesInv, ConsumerOK, TraceTypes
<1>3. t \notin tainted
  BY <1>0 DEF TracesInv, ConsumerOK, TracesOK, TaintedOK, MayLearn, IsGolden
<1> HIDE DEF t
<1>4. OneHandler'
  BY <1>0, <1>1 DEF TracesInv, OneHandler
<1>5. ConsumerOK'
  <2>1. /\ row[t].status \in {"queued"} \cup Ended
        /\ \A p \in Procs : pc[p] \in Bringing => WorkId(p) # t
    BY <1>0 DEF TracesInv, ConsumerOK, t
  <2>2. /\ row'[t].status \in {"queued"} \cup Ended
        /\ \A p \in Procs : pc'[p] \in Bringing => WorkId(p)' # t
        /\ busy'.trusted => t \notin tainted'
    BY <1>0, <1>1, <1>3, <2>1
  <2> QED
    BY <1>1, <2>2 DEF ConsumerOK, Bringing
<1>6. TracesOK'
  <2> SUFFICES ASSUME NEW s \in TraceIds
               PROVE  (LearnedOK(s) /\ TaintedOK(s) /\ GoldenOK(s))'
    BY DEF TracesOK
  <2>1. LearnedOK(s) /\ TaintedOK(s) /\ GoldenOK(s)
    BY DEF TracesInv, TracesOK
  <2>2. CASE s = t
    BY <1>0, <1>1, <1>2, <1>3, <2>1, <2>2 DEF LearnedOK, TaintedOK, GoldenOK
  <2>3. CASE s # t
    BY <1>0, <1>1, <1>2, <2>1, <2>3 DEF LearnedOK, TaintedOK, GoldenOK, t
  <2> QED
    BY <2>2, <2>3
<1>7. PlacesInv'
  <2>1. \A k \in Keys : Places(k)' \subseteq Places(k)
    BY <1>0, <1>1 DEF Places, t
  <2> QED
    BY <1>0, <2>1, PlacesShrink DEF TracesInv
<1> QED
  BY <1>4, <1>5, <1>6, <1>7 DEF TracesInv

LEMMA PassOverKeeps ==
    ASSUME TraceTypes, TracesInv, PassOver
    PROVE  TracesInv'
<1> DEFINE t == busy.id
<1>0. /\ UNCHANGED <<pc, cap, upload, waiting, serving, learned, tainted>>
      /\ busy # Idle /\ busy \in BusySet /\ t \in TraceIds /\ t \notin Requests
  BY BusyFacts DEF PassOver, counters, history, Idle, MayLearn, IsGolden
<1>1. /\ \A q \in Procs : WorkId(q)' = WorkId(q)
      /\ busy'.id = t /\ busy'.trusted = busy.trusted /\ busy'.pc = "learned" /\ busy' # Idle
  BY <1>0 DEF PassOver, WorkId, BusySet, Idle
<1>2. /\ row'[t].status = row[t].status /\ row'[t].key = row[t].key /\ ~row'[t].trusted
      /\ \A s \in TraceIds : s # t => row'[s] = row[s]
  BY <1>0 DEF PassOver, TraceTypes, Rows
<1>3. \A p \in Procs : pc[p] \in Bringing => WorkId(p) # t
  BY <1>0 DEF TracesInv, ConsumerOK
<1> HIDE DEF t
<1>4. OneHandler'
  <2>1. ASSUME NEW q \in Procs, pc[q] \in Bringing
        PROVE  WorkId(q) \in Ids /\ row'[WorkId(q)].status \in {"reducing"} \cup Ended
    BY <1>2, <1>3, <2>1, Constants DEF TracesInv, OneHandler
  <2> QED
    BY <1>0, <1>1, <2>1 DEF TracesInv, OneHandler, Bringing
<1>5. ConsumerOK'
  <2>1. /\ row[t].status \in {"queued"} \cup Ended
        /\ busy.trusted => t \notin tainted
    BY <1>0 DEF TracesInv, ConsumerOK, t
  <2>2. /\ row'[t].status \in {"queued"} \cup Ended
        /\ \A p \in Procs : pc'[p] \in Bringing => WorkId(p)' # t
        /\ busy'.trusted => t \notin tainted'
    BY <1>0, <1>1, <1>2, <1>3, <2>1
  <2> QED
    BY <1>1, <2>2 DEF ConsumerOK, Bringing
<1>6. TracesOK'
  <2> SUFFICES ASSUME NEW s \in TraceIds
               PROVE  (LearnedOK(s) /\ TaintedOK(s) /\ GoldenOK(s))'
    BY DEF TracesOK
  <2>1. LearnedOK(s) /\ TaintedOK(s) /\ GoldenOK(s)
    BY DEF TracesInv, TracesOK
  <2> QED
    BY <1>0, <1>1, <1>2, <2>1 DEF LearnedOK, TaintedOK, GoldenOK, t
<1>7. PlacesInv'
  <2>1. ASSUME NEW k \in Keys, NEW s \in Places(k)'
        PROVE  s \in Places(k)
    <3>1. CASE s = t
      <4>1. \A q \in Procs : pc'[q] = "counted" => WorkId(q)' # t
        BY <1>0, <1>1, <1>3 DEF Bringing
      <4> QED
        BY <1>1, <1>2, <2>1, <3>1, <4>1 DEF Places, t
    <3>2. CASE s # t
      BY <1>0, <1>1, <1>2, <2>1, <3>2 DEF Places, t
    <3> QED
      BY <3>1, <3>2
  <2> QED
    BY <1>0, <2>1, PlacesShrink DEF TracesInv
<1> QED
  BY <1>4, <1>5, <1>6, <1>7 DEF TracesInv

\* The consumer is done with a trace, whose place it gives back.
LEMMA DoneKeeps ==
    ASSUME TraceTypes, TraceTypes', TracesInv, RecoveryOK, Done
    PROVE  TracesInv' /\ (~serving => \A k \in Keys : waiting'[k] = 0)
<1> DEFINE t == busy.id
           key == row[t].key
<1>0. /\ UNCHANGED <<pc, cap, upload, serving, learned, tainted>>
      /\ busy # Idle /\ busy \in BusySet /\ t \in TraceIds /\ busy' = Idle
      /\ key \in Keys /\ waiting \in [Keys -> Nat]
  <2>1. busy # Idle /\ busy \in BusySet /\ t \in TraceIds
    BY BusyFacts DEF Done, Idle
  <2>2. row[t] \in Rows
    BY <2>1 DEF TraceTypes
  <2>3. key \in Keys
    BY <2>2 DEF Rows
  <2> QED
    BY <2>1, <2>3 DEF Done, counters, history, TraceTypes
<1>1. /\ \A q \in Procs : WorkId(q)' = WorkId(q)
      /\ busy'.id \notin TraceIds
  BY <1>0, BusyFacts, Constants DEF WorkId, Idle
<1>2. /\ row'[t].status \in {"done", "failed"} /\ row'[t].key = row[t].key
      /\ row'[t].trusted = row[t].trusted
      /\ \A s \in TraceIds : s # t => row'[s] = row[s]
  BY <1>0 DEF Done, TraceTypes, Rows
<1>3. \A p \in Procs : pc[p] \in Bringing => WorkId(p) # t
  BY <1>0 DEF TracesInv, ConsumerOK
<1>3a. waiting' = IF ~busy.trusted /\ waiting[key] > 0
                  THEN [waiting EXCEPT ![key] = @ - 1] ELSE waiting
  BY DEF Done, PlaceBack
<1> HIDE DEF t, key
<1>4. OneHandler'
  <2>1. ASSUME NEW q \in Procs, pc[q] \in Bringing
        PROVE  WorkId(q) \in Ids /\ row'[WorkId(q)].status \in {"reducing"} \cup Ended
    BY <1>2, <1>3, <2>1, Constants DEF TracesInv, OneHandler
  <2> QED
    BY <1>0, <1>1, <2>1 DEF TracesInv, OneHandler, Bringing
<1>5. ConsumerOK'
  BY <1>0 DEF ConsumerOK
<1>6. TracesOK'
  <2> SUFFICES ASSUME NEW s \in TraceIds
               PROVE  (LearnedOK(s) /\ TaintedOK(s) /\ GoldenOK(s))'
    BY DEF TracesOK
  <2>1. LearnedOK(s) /\ TaintedOK(s) /\ GoldenOK(s)
    BY DEF TracesInv, TracesOK
  <2>2. CASE s = t
    BY <1>0, <1>2, <2>1, <2>2 DEF LearnedOK, TaintedOK, GoldenOK, Ended, Statuses
  <2>3. CASE s # t
    BY <1>0, <1>2, <2>1, <2>3 DEF LearnedOK, TaintedOK, GoldenOK, t
  <2> QED
    BY <2>2, <2>3
<1>7. ASSUME NEW k \in Keys
      PROVE  Places(k)' \subseteq Places(k) \ {t}
  <2>1. ASSUME NEW s \in Places(k)'
        PROVE  s \in Places(k) /\ s # t
    <3>1. s # t
      <4>1. \A q \in Procs : pc'[q] = "counted" => WorkId(q)' # t
        BY <1>0, <1>1, <1>3 DEF Bringing
      <4>2. row'[t].status # "queued" /\ busy'.id # t
        BY <1>0, <1>1, <1>2
      <4> QED
        BY <2>1, <4>1, <4>2 DEF Places
    <3> QED
      BY <1>0, <1>1, <1>2, <2>1, <3>1 DEF Places, t
  <2> QED
    BY <2>1
<1>8. ASSUME serving, NEW k \in Keys
      PROVE  IsFiniteSet(Places(k)') /\ Cardinality(Places(k)') <= waiting'[k]
  <2>1. /\ IsFiniteSet(Places(k)) /\ Cardinality(Places(k)) <= waiting[k]
        /\ Cardinality(Places(k)) \in Nat /\ waiting[k] \in Nat
    <3>1. IsFiniteSet(Places(k)) /\ Cardinality(Places(k)) <= waiting[k]
      BY <1>8 DEF TracesInv, PlacesInv
    <3> QED
      BY <1>0, <3>1, FS_CardinalityType
  <2>2. /\ IsFiniteSet(Places(k) \ {t})
        /\ Cardinality(Places(k) \ {t}) = IF t \in Places(k) THEN Cardinality(Places(k)) - 1
                                          ELSE Cardinality(Places(k))
    BY <2>1, FS_RemoveElement
  <2>3. /\ IsFiniteSet(Places(k)') /\ Cardinality(Places(k)') <= Cardinality(Places(k) \ {t})
        /\ Cardinality(Places(k)') \in Nat
    <3>1. IsFiniteSet(Places(k)') /\ Cardinality(Places(k)') <= Cardinality(Places(k) \ {t})
      BY <1>7, <2>2, FS_Subset
    <3> QED
      BY <3>1, FS_CardinalityType
  <2>4. CASE ~busy.trusted /\ k = key
    <3>1. t \in Places(k)
      BY <1>0, <2>4 DEF Places, t, key
    <3>2. waiting[k] > 0 => waiting'[k] = waiting[k] - 1
      BY <1>0, <1>3a, <2>4
    <3>3. waiting[k] = 0 => waiting'[k] = 0
      BY <1>0, <1>3a, <2>4
    <3> QED
      BY <2>1, <2>2, <2>3, <3>1, <3>2, <3>3
  <2>5. CASE busy.trusted \/ k # key
    <3>1. waiting'[k] = waiting[k]
      BY <1>0, <1>3a, <2>5
    <3> QED
      BY <2>1, <2>2, <2>3, <3>1
  <2> QED
    BY <2>4, <2>5
<1>9. PlacesInv'
  BY <1>0, <1>8 DEF PlacesInv
<1>10. ~serving => \A k \in Keys : waiting'[k] = 0
  BY <1>0, <1>3a DEF RecoveryOK
<1> QED
  BY <1>4, <1>5, <1>6, <1>9, <1>10 DEF TracesInv

\* The traces of a key that is not trusted any more are revoked while they are open.
LEMMA RevokeKeeps ==
    ASSUME TraceTypes, TracesInv, NEW k \in Keys, RevokeOpen(k)
    PROVE  TracesInv'
<1> DEFINE open(s) == row[s].key = k /\ row[s].status = "open"
<1>0. /\ UNCHANGED <<pc, cap, upload, busy, waiting, serving, learned>>
      /\ tainted' = tainted \cup {s \in TraceIds : open(s)}
  BY DEF RevokeOpen, counters
<1>1. ASSUME NEW s \in TraceIds
      PROVE  /\ ~open(s) => row'[s] = row[s]
             /\ open(s) => /\ row'[s].status = "revoked" /\ row'[s].key = row[s].key
                           /\ row'[s].trusted = row[s].trusted
  BY DEF RevokeOpen, TraceTypes, Rows
<1>2. \A q \in Procs : WorkId(q)' = WorkId(q)
  BY <1>0 DEF WorkId
<1>3. \A s \in TraceIds : open(s) => row[s].status = "open" /\ busy.id # s
  BY BusyFacts DEF TracesInv, ConsumerOK, Ended
<1>4. \A p \in Procs : pc[p] \in Bringing => WorkId(p) \in Ids /\ ~open(WorkId(p))
  BY <1>3, Constants DEF TracesInv, OneHandler, Ended
<1> HIDE DEF open
<1>5. OneHandler'
  <2>1. ASSUME NEW q \in Procs, pc[q] \in Bringing
        PROVE  WorkId(q) \in Ids /\ row'[WorkId(q)].status \in {"reducing"} \cup Ended
    <3>1. row'[WorkId(q)] = row[WorkId(q)]
      BY <1>1, <1>4, <2>1, Constants
    <3> QED
      BY <2>1, <3>1 DEF TracesInv, OneHandler
  <2> QED
    BY <1>0, <1>2, <2>1 DEF TracesInv, OneHandler, Bringing
<1>6. ConsumerOK'
  <2> SUFFICES ASSUME busy # Idle
               PROVE  /\ row'[busy.id].status \in {"queued"} \cup Ended
                      /\ \A q \in Procs : pc[q] \in Bringing => WorkId(q)' # busy.id
                      /\ busy.trusted => busy.id \notin tainted'
                      /\ busy.pc = "read" => learned[busy.id] = 0
    BY <1>0 DEF ConsumerOK, Bringing
  <2>1. row'[busy.id] = row[busy.id] /\ (busy.id \in tainted' => busy.id \in tainted)
    BY <1>0, <1>1, <1>3, BusyFacts
  <2> QED
    BY <1>2, <2>1 DEF TracesInv, ConsumerOK
<1>7. TracesOK'
  <2> SUFFICES ASSUME NEW s \in TraceIds
               PROVE  (LearnedOK(s) /\ TaintedOK(s) /\ GoldenOK(s))'
    BY DEF TracesOK
  <2>1. LearnedOK(s) /\ TaintedOK(s) /\ GoldenOK(s)
    BY DEF TracesInv, TracesOK
  <2>2. CASE open(s)
    <3>1. row'[s].status \in Ended /\ row'[s].status = "revoked"
      BY <1>1, <2>2 DEF Ended, Statuses
    <3>2. learned[s] = 0 /\ s \notin Requests
      BY <1>3, <2>1, <2>2 DEF LearnedOK, GoldenOK, Ended
    <3> QED
      BY <1>0, <3>1, <3>2 DEF LearnedOK, TaintedOK, GoldenOK, Ended
  <2>3. CASE ~open(s)
    <3>1. row'[s] = row[s] /\ (s \in tainted' <=> s \in tainted)
      BY <1>0, <1>1, <2>3
    <3> QED
      BY <1>0, <2>1, <3>1 DEF LearnedOK, TaintedOK, GoldenOK
  <2> QED
    BY <2>2, <2>3
<1>8. PlacesInv'
  <2>1. ASSUME NEW x \in Keys, NEW s \in Places(x)'
        PROVE  s \in Places(x)
    <3>1. s \in TraceIds
      BY <2>1 DEF Places
    <3>2. CASE open(s)
      <4>1. \A q \in Procs : pc'[q] = "counted" => WorkId(q)' # s
        BY <1>0, <1>2, <1>4, <3>2 DEF Bringing
      <4> QED
        BY <1>0, <1>1, <1>3, <2>1, <3>1, <3>2, <4>1 DEF Places
    <3>3. CASE ~open(s)
      BY <1>0, <1>1, <1>2, <2>1, <3>1, <3>3 DEF Places
    <3> QED
      BY <3>2, <3>3
  <2> QED
    BY <1>0, <2>1, PlacesShrink DEF TracesInv
<1> QED
  BY <1>5, <1>6, <1>7, <1>8 DEF TracesInv

\* The next process knows the rows alone.
LEMMA DieKeeps ==
    ASSUME TraceTypes, TracesInv, Die
    PROVE  TracesInv' /\ RecoveryOK' /\ SlotsInv' /\ NoTraceForgotten'
<1>0. /\ busy' = Idle /\ serving' = FALSE /\ tainted' = tainted
      /\ learned' = [t \in TraceIds |-> 0]
      /\ \A p \in Procs : pc'[p] \in {"idle", "gone"}
      /\ \A k \in Keys : waiting'[k] = 0
  BY DEF Die
<1>1. ASSUME NEW t \in TraceIds
      PROVE  \/ row'[t] = row[t] /\ row[t].status \notin {"capturing", "open", "reducing"}
             \/ row'[t].status = "lost"
  BY DEF Die, TraceTypes, Rows
<1>2. OneHandler' /\ ConsumerOK' /\ RecoveryOK' /\ PlacesInv'
  BY <1>0 DEF OneHandler, Bringing, ConsumerOK, RecoveryOK, PlacesInv
<1>3. TracesOK'
  <2> SUFFICES ASSUME NEW t \in TraceIds
               PROVE  (LearnedOK(t) /\ TaintedOK(t) /\ GoldenOK(t))'
    BY DEF TracesOK
  <2>1. LearnedOK(t) /\ TaintedOK(t) /\ GoldenOK(t)
    BY DEF TracesInv, TracesOK
  <2> QED
    BY <1>0, <1>1, <2>1 DEF LearnedOK, TaintedOK, GoldenOK, Ended, Statuses
<1>4. SlotsInv'
  <2>1. /\ GoldenCaptures' = {} /\ TrustedCaptures' = {} /\ \A k \in Keys : KeyCaptures(k)' = {}
        /\ \A r \in Requests : ~Capturing(r)'
    BY <1>0, Constants DEF GoldenCaptures, TrustedCaptures, KeyCaptures, Capturing
  <2>2. slots'.golden = 0 /\ slots'.trusted = 0 /\ \A k \in Keys : slots'.key[k] = 0
    BY DEF Die
  <2> QED
    BY <2>1, <2>2, FS_EmptySet DEF SlotsInv
<1>5. NoTraceForgotten'
  BY <1>0, <1>1 DEF NoTraceForgotten
<1> QED
  BY <1>2, <1>3, <1>4, <1>5 DEF TracesInv

-----------------------------------------------------------------------------
(* Nothing is forgotten.                                                     *)

\* NoTraceForgotten, of one trace.
Known(t) ==
    /\ row[t].status = "open" => Sealing(t) \/ Awaited(t)
    /\ row[t].status = "reducing" => \E p \in Procs : Handles(p, t)
    /\ row[t].status = "queued" => \/ ~serving \/ busy.id = t
                                   \/ \E i \in 1 .. Len(queue) : queue[i] = t
                                   \/ IsGolden(t) /\ Sealing(t)

\* Whoever knew of a trace still does, or another does.
StillKnown(t) ==
    \/ Known(t)'
    \/ /\ row'[t].status \in {row[t].status, "capturing"} \cup Ended
       /\ \A r \in Requests : cap[r].id = t /\ pc[r] \in {"committed", "taken"} =>
                cap'[r].id = t /\ pc'[r] \in {"committed", "taken"}
       /\ \A r \in Requests :
                cap[r].id = t /\ cap[r].status = "open" /\ pc[r] \in {"held", "answered", "cut"} =>
                /\ cap'[r].id = t /\ cap'[r].status = "open"
                /\ pc'[r] \in {"held", "answered", "cut"}
       /\ \A p \in Procs : Handles(p, t) => Handles(p, t)'
       /\ \A i \in 1 .. Len(queue) : queue[i] = t => \E j \in 1 .. Len(queue') : queue'[j] = t
       /\ busy.id = t => busy'.id = t
       /\ ~serving /\ serving' => row'[t].status # "queued"

LEMMA KnownKept ==
    ASSUME NoTraceForgotten, \A t \in TraceIds : StillKnown(t)
    PROVE  NoTraceForgotten'
<1> SUFFICES ASSUME NEW t \in TraceIds PROVE Known(t)'
  BY DEF NoTraceForgotten, Known, Sealing, Awaited, Handles, IsGolden
<1>0. Known(t) /\ StillKnown(t)
  BY DEF NoTraceForgotten, Known
<1> SUFFICES ASSUME ~(Known(t)') PROVE FALSE
  OBVIOUS
<1>1. row'[t].status = row[t].status \/ row'[t].status \in {"capturing"} \cup Ended
  BY <1>0 DEF StillKnown
<1>2. row'[t].status = row[t].status /\ row[t].status \in {"open", "reducing", "queued"}
  BY <1>1 DEF Known, Ended
<1>3. Sealing(t) => Sealing(t)'
  BY <1>0 DEF StillKnown, Sealing
<1>4. Awaited(t) => Awaited(t)'
  BY <1>0 DEF StillKnown, Awaited
<1>5. (\E p \in Procs : Handles(p, t)) => (\E p \in Procs : Handles(p, t))'
  BY <1>0 DEF StillKnown
<1>6. row[t].status # "open"
  BY <1>0, <1>2, <1>3, <1>4 DEF Known
<1>7. row[t].status # "reducing"
  BY <1>0, <1>2, <1>5 DEF Known
<1>8. row[t].status = "queued" /\ row'[t].status = "queued"
  BY <1>2, <1>6, <1>7
<1>9. \/ ~serving \/ busy.id = t \/ \E i \in 1 .. Len(queue) : queue[i] = t
      \/ IsGolden(t) /\ Sealing(t)
  BY <1>0, <1>8 DEF Known
<1>10. /\ serving' /\ busy'.id # t /\ ~\E i \in 1 .. Len(queue') : queue'[i] = t
       /\ ~(IsGolden(t) /\ Sealing(t)')
  BY <1>8 DEF Known, IsGolden
<1>11. serving /\ busy.id # t /\ ~\E i \in 1 .. Len(queue) : queue[i] = t
  BY <1>0, <1>8, <1>10 DEF StillKnown
<1> QED
  BY <1>3, <1>9, <1>10, <1>11

\* A step that leaves alone whoever knows of a trace.
OthersKnow ==
    /\ UNCHANGED <<queue, busy, serving>>
    /\ \A t \in TraceIds : row'[t].status \in {row[t].status, "capturing"} \cup Ended
    /\ \A r \in Requests : pc[r] \in {"committed", "taken", "held", "answered", "cut"} =>
            /\ pc'[r] = pc[r] \/ (pc[r] = "answered" /\ pc'[r] = "cut")
            /\ cap'[r].id = cap[r].id /\ cap'[r].status = cap[r].status
    /\ \A p \in Procs : pc[p] \in Bringing => pc'[p] \in Bringing /\ WorkId(p)' = WorkId(p)

LEMMA OthersStillKnow ==
    ASSUME NoTraceForgotten, OthersKnow
    PROVE  NoTraceForgotten'
<1> SUFFICES ASSUME NEW t \in TraceIds
             PROVE  StillKnown(t)
  BY KnownKept
<1>1. \A r \in Requests : cap[r].id = t /\ pc[r] \in {"committed", "taken"} =>
            cap'[r].id = t /\ pc'[r] \in {"committed", "taken"}
  BY DEF OthersKnow
<1>2. \A r \in Requests :
            cap[r].id = t /\ cap[r].status = "open" /\ pc[r] \in {"held", "answered", "cut"} =>
            /\ cap'[r].id = t /\ cap'[r].status = "open"
            /\ pc'[r] \in {"held", "answered", "cut"}
  BY DEF OthersKnow
<1>3. \A p \in Procs : Handles(p, t) => Handles(p, t)'
  BY DEF OthersKnow, Handles, Bringing
<1>4. /\ row'[t].status \in {row[t].status, "capturing"} \cup Ended
      /\ queue' = queue /\ busy' = busy /\ serving' = serving
  BY DEF OthersKnow
<1> QED
  BY <1>1, <1>2, <1>3, <1>4 DEF StillKnown

LEMMA EnqueueKnows ==
    ASSUME TraceTypes, NEW t \in TraceIds, NEW rows \in [TraceIds -> Rows], Enqueue(t, rows)
    PROVE  /\ \A i \in 1 .. Len(queue) : \E j \in 1 .. Len(queue') : queue'[j] = queue[i]
           /\ \A s \in TraceIds : s # t => row'[s] = rows[s]
           /\ \/ row'[t] = rows[t] /\ \E j \in 1 .. Len(queue') : queue'[j] = t
              \/ /\ row'[t].status = "dropped" /\ row'[t].key = rows[t].key
                 /\ row'[t].trusted = rows[t].trusted
<1>1. queue \in Seq(TraceIds) /\ Len(queue) \in Nat
  BY DEF TraceTypes
<1>2. CASE Len(queue) < QueueSize
  <2>1. queue' = Append(queue, t) /\ row' = rows
    BY <1>2 DEF Enqueue
  <2>2. /\ Len(queue') = Len(queue) + 1 /\ queue'[Len(queue) + 1] = t
        /\ \A i \in 1 .. Len(queue) : queue'[i] = queue[i]
    BY <1>1, <2>1
  <2>3. \A i \in 1 .. Len(queue) : i \in 1 .. Len(queue')
    BY <1>1, <2>2
  <2>4. Len(queue) + 1 \in 1 .. Len(queue')
    BY <1>1, <2>2
  <2> QED
    BY <2>1, <2>2, <2>3, <2>4
<1>3. CASE ~(Len(queue) < QueueSize)
  <2>1. queue' = queue /\ row' = [rows EXCEPT ![t].status = "dropped"]
    BY <1>3 DEF Enqueue
  <2>2. /\ row'[t].status = "dropped" /\ row'[t].key = rows[t].key
        /\ row'[t].trusted = rows[t].trusted /\ \A s \in TraceIds : s # t => row'[s] = rows[s]
    BY <2>1 DEF Rows
  <2> QED
    BY <2>1, <2>2
<1> QED
  BY <1>2, <1>3

-----------------------------------------------------------------------------
(* Slots.                                                                   *)

LEMMA CountedFacts ==
    ASSUME slots \in SlotSet, NEW c \in Caps, NEW by \in Int
    PROVE  LET s == Counted(c, by)
           IN  /\ s.golden = slots.golden + (IF c.golden THEN by ELSE 0)
               /\ s.trusted = slots.trusted + (IF ~c.golden /\ c.trusted THEN by ELSE 0)
               /\ \A k \in Keys : s.key[k] = slots.key[k] +
                        (IF ~c.golden /\ ~c.trusted /\ c.key = k THEN by ELSE 0)
<1>1. /\ slots.golden \in Int /\ slots.trusted \in Int /\ slots.untrusted \in Int
      /\ slots.key \in [Keys -> Int] /\ \A k \in Keys : slots.key[k] \in Int
      /\ c.golden \in BOOLEAN /\ c.trusted \in BOOLEAN /\ c.key \in Keys
  BY DEF SlotSet, Caps
<1>2. CASE c.golden
  <2>1. Counted(c, by) = [slots EXCEPT !.golden = @ + by]
    BY <1>2 DEF Counted
  <2> QED
    BY <1>1, <1>2, <2>1 DEF SlotSet
<1>3. CASE ~c.golden /\ c.trusted
  <2>1. Counted(c, by) = [slots EXCEPT !.trusted = @ + by]
    BY <1>3 DEF Counted
  <2> QED
    BY <1>1, <1>3, <2>1 DEF SlotSet
<1>4. CASE ~c.golden /\ ~c.trusted
  <2> DEFINE f == [slots.key EXCEPT ![c.key] = slots.key[c.key] + by]
  <2>1. Counted(c, by) = [slots EXCEPT !.untrusted = slots.untrusted + by, !.key = f]
    BY <1>4 DEF Counted, SlotSet
  <2>2. \A k \in Keys : f[k] = slots.key[k] + (IF c.key = k THEN by ELSE 0)
    BY <1>1
  <2> HIDE DEF f
  <2>3. /\ Counted(c, by).golden = slots.golden /\ Counted(c, by).trusted = slots.trusted
        /\ Counted(c, by).key = f
    BY <2>1 DEF SlotSet
  <2> QED
    BY <1>1, <1>4, <2>2, <2>3
<1> QED
  BY <1>2, <1>3, <1>4

LEMMA SlotsSame ==
    ASSUME SlotsInv, slots' = slots, active' = active,
           \A r \in Requests : Capturing(r)' <=> Capturing(r),
           \A r \in Requests : Capturing(r) =>
                /\ cap'[r].id = cap[r].id /\ cap'[r].key = cap[r].key
                /\ cap'[r].trusted = cap[r].trusted /\ cap'[r].golden = cap[r].golden
    PROVE  SlotsInv'
<1>1. /\ GoldenCaptures' = GoldenCaptures /\ TrustedCaptures' = TrustedCaptures
      /\ \A k \in Keys : KeyCaptures(k)' = KeyCaptures(k)
  BY DEF GoldenCaptures, TrustedCaptures, KeyCaptures
<1> QED
  BY <1>1 DEF SlotsInv

LEMMA ClaimSlots ==
    ASSUME TraceTypes, SlotsInv, NEW r \in Requests, NEW c \in Caps, Claimed(r, c), ~Capturing(r),
           c.id \in TraceIds, c.golden => c.trusted,
           \A q \in Requests : Capturing(q) => cap[q].id # c.id
    PROVE  SlotsInv'
<1>1. /\ cap'[r] = c /\ active'[c.id] = r /\ slots' = Counted(c, 1) /\ Capturing(r)'
      /\ \A t \in TraceIds : t # c.id => active'[t] = active[t]
      /\ \A q \in Requests : q # r => cap'[q] = cap[q] /\ (Capturing(q)' <=> Capturing(q))
  BY Constants DEF Claimed, Goto, TraceTypes, Capturing
<1>2. /\ GoldenCaptures' = IF c.golden THEN GoldenCaptures \cup {r} ELSE GoldenCaptures
      /\ r \notin GoldenCaptures
  BY <1>1 DEF GoldenCaptures
<1>3. /\ TrustedCaptures' = IF ~c.golden /\ c.trusted THEN TrustedCaptures \cup {r}
                            ELSE TrustedCaptures
      /\ r \notin TrustedCaptures
  BY <1>1 DEF TrustedCaptures
<1>4. ASSUME NEW k \in Keys
      PROVE  /\ KeyCaptures(k)' = IF ~c.golden /\ ~c.trusted /\ c.key = k
                                  THEN KeyCaptures(k) \cup {r} ELSE KeyCaptures(k)
             /\ r \notin KeyCaptures(k)
  BY <1>1 DEF KeyCaptures
<1>5. ASSUME NEW S, IsFiniteSet(S), r \notin S
      PROVE  /\ IsFiniteSet(S \cup {r}) /\ Cardinality(S \cup {r}) = Cardinality(S) + 1
             /\ Cardinality(S) \in Nat
  BY <1>5, FS_AddElement, FS_CardinalityType
<1>6. /\ slots'.golden = slots.golden + (IF c.golden THEN 1 ELSE 0)
      /\ slots'.trusted = slots.trusted + (IF ~c.golden /\ c.trusted THEN 1 ELSE 0)
      /\ \A k \in Keys : slots'.key[k] = slots.key[k] +
                            (IF ~c.golden /\ ~c.trusted /\ c.key = k THEN 1 ELSE 0)
  BY <1>1, CountedFacts DEF TraceTypes
<1>7. IsFiniteSet(GoldenCaptures') /\ slots'.golden = Cardinality(GoldenCaptures')
  BY <1>2, <1>5, <1>6 DEF SlotsInv
<1>8. IsFiniteSet(TrustedCaptures') /\ slots'.trusted = Cardinality(TrustedCaptures')
  BY <1>3, <1>5, <1>6 DEF SlotsInv
<1>9. ASSUME NEW k \in Keys
      PROVE  IsFiniteSet(KeyCaptures(k)') /\ slots'.key[k] = Cardinality(KeyCaptures(k)')
  <2>1. IsFiniteSet(KeyCaptures(k)) /\ slots.key[k] = Cardinality(KeyCaptures(k))
    BY DEF SlotsInv
  <2>2. /\ IsFiniteSet(KeyCaptures(k) \cup {r}) /\ Cardinality(KeyCaptures(k)) \in Nat
        /\ Cardinality(KeyCaptures(k) \cup {r}) = Cardinality(KeyCaptures(k)) + 1
    BY <1>4, <1>5, <2>1
  <2>3. CASE ~c.golden /\ ~c.trusted /\ c.key = k
    BY <1>4, <1>6, <2>1, <2>2, <2>3
  <2>4. CASE ~(~c.golden /\ ~c.trusted /\ c.key = k)
    BY <1>4, <1>6, <2>1, <2>2, <2>4
  <2> QED
    BY <2>3, <2>4
<1>10. ASSUME NEW q \in Requests, Capturing(q)'
       PROVE  active'[cap'[q].id] = q
  <2>1. CASE q = r
    BY <1>1, <2>1
  <2>2. CASE q # r
    <3>1. cap'[q] = cap[q] /\ Capturing(q) /\ cap[q].id # c.id /\ active[cap[q].id] = q
      BY <1>1, <1>10, <2>2 DEF SlotsInv
    <3> QED
      BY <3>1 DEF Claimed
  <2> QED
    BY <2>1, <2>2
<1> QED
  BY <1>7, <1>8, <1>9, <1>10 DEF SlotsInv

LEMMA ReleaseSlotsKeeps ==
    ASSUME TraceTypes, SlotsInv, NEW r \in Requests, NEW failed, ReleaseSlots(r, failed),
           Capturing(r), ~Capturing(r)', cap' = cap, cap[r].golden => cap[r].trusted,
           \A q \in Requests : q # r => (Capturing(q)' <=> Capturing(q))
    PROVE  SlotsInv'
<1> DEFINE c == cap[r]
<1>1. c \in Caps /\ slots' = Counted(c, -1) /\ active' = [active EXCEPT ![c.id] = Nobody]
  BY DEF ReleaseSlots, TraceTypes
<1>2. \A q \in Requests : Capturing(q)' <=> Capturing(q) /\ q # r
  OBVIOUS
<1>3. /\ GoldenCaptures' = GoldenCaptures \ {r} /\ (r \in GoldenCaptures <=> c.golden)
      /\ TrustedCaptures' = TrustedCaptures \ {r}
      /\ r \in TrustedCaptures <=> ~c.golden /\ c.trusted
  BY <1>2 DEF GoldenCaptures, TrustedCaptures
<1>4. ASSUME NEW k \in Keys
      PROVE  /\ KeyCaptures(k)' = KeyCaptures(k) \ {r}
             /\ r \in KeyCaptures(k) <=> ~c.golden /\ ~c.trusted /\ c.key = k
  BY <1>2 DEF KeyCaptures
<1>5. ASSUME NEW S, IsFiniteSet(S)
      PROVE  /\ IsFiniteSet(S \ {r}) /\ Cardinality(S) \in Nat
             /\ Cardinality(S \ {r}) = Cardinality(S) + (IF r \in S THEN -1 ELSE 0)
  <2>1. Cardinality(S) \in Nat
    BY <1>5, FS_CardinalityType
  <2>2. IsFiniteSet(S \ {r}) /\ Cardinality(S \ {r}) = IF r \in S THEN Cardinality(S) - 1
                                                       ELSE Cardinality(S)
    BY <1>5, FS_RemoveElement
  <2> QED
    BY <2>1, <2>2
<1> HIDE DEF c
<1>6. /\ slots'.golden = slots.golden + (IF c.golden THEN -1 ELSE 0)
      /\ slots'.trusted = slots.trusted + (IF ~c.golden /\ c.trusted THEN -1 ELSE 0)
      /\ \A k \in Keys : slots'.key[k] = slots.key[k] +
                            (IF ~c.golden /\ ~c.trusted /\ c.key = k THEN -1 ELSE 0)
  BY <1>1, CountedFacts DEF TraceTypes
<1>7. IsFiniteSet(GoldenCaptures') /\ slots'.golden = Cardinality(GoldenCaptures')
  BY <1>3, <1>5, <1>6 DEF SlotsInv
<1>8. IsFiniteSet(TrustedCaptures') /\ slots'.trusted = Cardinality(TrustedCaptures')
  BY <1>3, <1>5, <1>6 DEF SlotsInv
<1>9. ASSUME NEW k \in Keys
      PROVE  IsFiniteSet(KeyCaptures(k)') /\ slots'.key[k] = Cardinality(KeyCaptures(k)')
  <2>1. IsFiniteSet(KeyCaptures(k)) /\ slots.key[k] = Cardinality(KeyCaptures(k))
    BY DEF SlotsInv
  <2> QED
    BY <1>4, <1>5, <1>6, <2>1
<1>10. ASSUME NEW q \in Requests, Capturing(q)'
       PROVE  active'[cap'[q].id] = q
  <2>1. Capturing(q) /\ q # r /\ active[cap[q].id] = q /\ active[c.id] = r
    BY <1>2, <1>10 DEF SlotsInv, c
  <2> QED
    BY <1>1, <2>1
<1> QED
  BY <1>7, <1>8, <1>9, <1>10 DEF SlotsInv

-----------------------------------------------------------------------------
(* The steps.                                                                *)

SameCapture(q) == /\ pc'[q] = pc[q] /\ cap'[q].id = cap[q].id /\ cap'[q].key = cap[q].key
                  /\ cap'[q].golden = cap[q].golden /\ cap'[q].trusted = cap[q].trusted
                  /\ cap'[q].status = cap[q].status /\ cap'[q].result = cap[q].result

LEMMA CapturesKept ==
    ASSUME \A q \in Requests : CaptureOK(q), \A q \in Requests : SameCapture(q) \/ CaptureOK(q)'
    PROVE  (\A q \in Requests : CaptureOK(q))'
  BY DEF CaptureOK, SameCapture

\* A request that is under way, or a half on its way, is of a process that serves.
LEMMA ServingNow ==
    ASSUME RecoveryOK, NEW p \in Procs, pc[p] \notin {"idle", "gone"}, serving' = serving
    PROVE  serving /\ RecoveryOK'
  BY DEF RecoveryOK

\* A step that changes the place of request r, and what it captured, alone.
LEMMA QuietKeeps ==
    ASSUME TraceTypes, Facts, NEW r \in Requests, serving, Calm, OthersKnow,
           slots' = slots, active' = active,
           \A q \in Requests : q # r => SameCapture(q), CaptureOK(r)',
           Capturing(r)' <=> Capturing(r),
           Capturing(r) => /\ cap'[r].id = cap[r].id /\ cap'[r].key = cap[r].key
                           /\ cap'[r].trusted = cap[r].trusted /\ cap'[r].golden = cap[r].golden
    PROVE  Facts'
<1>1. (\A q \in Requests : CaptureOK(q))'
  BY CapturesKept DEF Facts
<1>2. \A q \in Requests : q # r => (Capturing(q)' <=> Capturing(q))
  BY DEF SameCapture, Capturing
<1>3. SlotsInv'
  BY <1>2, SlotsSame DEF Facts, SameCapture
<1>4. TracesInv'
  BY CalmKeeps DEF Facts
<1>5. RecoveryOK'
  BY DEF Calm, RecoveryOK
<1>6. NoTraceForgotten'
  BY OthersStillKnow DEF Facts
<1> QED
  BY <1>1, <1>3, <1>4, <1>5, <1>6 DEF Facts

\* A step that changes nothing of any capture but where r is.
LEMMA MovedAlone ==
    ASSUME TraceTypes, NEW r \in Requests, NEW l, Goto(r, l), UNCHANGED <<cap, upload>>
    PROVE  /\ \A q \in Requests : q # r => SameCapture(q)
           /\ pc'[r] = l /\ \A p \in Procs : WorkId(p)' = WorkId(p) /\ (p # r => pc'[p] = pc[p])
  BY Constants DEF Goto, TraceTypes, SameCapture, WorkId

LEMMA CheckIdFacts ==
    ASSUME TraceTypes, Facts, NEW r \in Requests, NEW t \in Ids, NEW c \in Keys, CheckId(r, t, c)
    PROVE  Facts'
<1> USE DEF store, counters, history, bounds
<1>1. /\ \A p \in Procs : p # r => pc'[p] = pc[p]
      /\ \A q \in Requests : q # r => cap'[q] = cap[q]
      /\ pc[r] = "idle" /\ pc'[r] = "checked" /\ cap'[r].id = t /\ ~cap'[r].golden
      /\ UNCHANGED <<row, trust, active, slots, queue, busy, upload, serving, waiting, learned,
                     tainted>> /\ serving
  BY Constants DEF CheckId, Goto, TraceTypes, NoCap
<1>2. \A p \in Procs : p # r => WorkId(p)' = WorkId(p)
  BY <1>1, WorkOf DEF WorkId, Procs
<1>3. Calm
  BY <1>1, <1>2 DEF Calm, Bringing
<1>4. OthersKnow
  <2>1. \A q \in Requests : pc[q] \in {"committed", "taken", "held", "answered", "cut"} =>
            /\ pc'[q] = pc[q] \/ (pc[q] = "answered" /\ pc'[q] = "cut")
            /\ cap'[q].id = cap[q].id /\ cap'[q].status = cap[q].status
    BY <1>1, <1>2, Constants
  <2>2. \A p \in Procs : pc[p] \in Bringing => pc'[p] \in Bringing /\ WorkId(p)' = WorkId(p)
    BY <1>1, <1>2 DEF Bringing
  <2>3. \A x \in TraceIds : row'[x].status \in {row[x].status, "capturing"} \cup Ended
    BY <1>1, <1>2
  <2> QED
    BY <1>1, <1>2, <2>1, <2>2, <2>3 DEF OthersKnow
<1>5. CaptureOK(r)'
  BY <1>1 DEF CaptureOK
<1>6. \A q \in Requests : q # r => SameCapture(q)
  BY <1>1, Constants DEF SameCapture
<1>7. ~Capturing(r) /\ ~Capturing(r)'
  BY <1>1 DEF Capturing
<1> QED
  BY <1>1, <1>3, <1>4, <1>5, <1>6, <1>7, QuietKeeps

\* The steps of a capture that only change where it is.
LEMMA MoveFacts ==
    ASSUME TraceTypes, Facts, NEW r \in Requests, NEW l,
           \/ pc[r] = "checked" /\ l = "ended"
           \/ pc[r] = "capturing" /\ l \in {"sealing", "aborting", "left"}
           \/ pc[r] = "answered" /\ l = "cut",
           Goto(r, l),
           UNCHANGED <<row, cap, active, slots, waiting, queue, busy, upload, serving, learned,
                       tainted>>
    PROVE  Facts'
<1>1. serving
  BY Constants, ServingNow DEF Facts
<1>2. /\ \A q \in Requests : q # r => SameCapture(q)
      /\ pc'[r] = l /\ \A p \in Procs : WorkId(p)' = WorkId(p) /\ (p # r => pc'[p] = pc[p])
  BY MovedAlone
<1>3. Calm
  BY <1>2 DEF Calm, Bringing
<1>4. OthersKnow
  <2>1. \A q \in Requests : pc[q] \in {"committed", "taken", "held", "answered", "cut"} =>
            /\ pc'[q] = pc[q] \/ (pc[q] = "answered" /\ pc'[q] = "cut")
            /\ cap'[q].id = cap[q].id /\ cap'[q].status = cap[q].status
    BY <1>2, Constants
  <2>2. \A p \in Procs : pc[p] \in Bringing => pc'[p] \in Bringing /\ WorkId(p)' = WorkId(p)
    BY <1>2 DEF Bringing
  <2>3. \A t \in TraceIds : row'[t].status \in {row[t].status, "capturing"} \cup Ended
    BY <1>2
  <2> QED
    BY <1>2, <2>1, <2>2, <2>3 DEF OthersKnow
<1>5. CaptureOK(r)'
  BY <1>2 DEF CaptureOK, Facts
<1>6. Capturing(r)' <=> Capturing(r)
  BY <1>2 DEF Capturing
<1> QED
  BY <1>1, <1>2, <1>3, <1>4, <1>5, <1>6, QuietKeeps

\* The steps of a capture that also change its status, the half it holds, or its result.
LEMMA MarkFacts ==
    ASSUME TraceTypes, Facts, NEW r \in Requests, NEW s, NEW b, NEW x,
           \/ pc[r] = "capturing" /\ x = "failed" /\ Goto(r, "marked")
           \/ pc[r] \in {"aborting", "broken"} /\ x \in {"failed", "aborted"} /\ Goto(r, "marked")
           \/ /\ pc[r] = "committed" /\ s = (IF cap[r].golden THEN "queued" ELSE "open")
              /\ Goto(r, "taken"),
           cap' = [cap EXCEPT ![r].status = s, ![r].held = b, ![r].result = x],
           UNCHANGED <<row, active, slots, waiting, queue, busy, upload, serving, learned,
                       tainted>>
    PROVE  Facts'
<1>0. cap[r] \in Caps /\ r \in Procs
  BY Constants DEF TraceTypes
<1>1. serving
  BY <1>0, ServingNow DEF Facts
<1>2. /\ \A p \in Procs : p # r => pc'[p] = pc[p]
      /\ \A q \in Requests : q # r => cap'[q] = cap[q]
      /\ cap'[r].id = cap[r].id /\ cap'[r].key = cap[r].key /\ cap'[r].golden = cap[r].golden
      /\ cap'[r].trusted = cap[r].trusted /\ cap'[r].status = s /\ cap'[r].result = x
      /\ pc'[r] = IF pc[r] = "committed" THEN "taken" ELSE "marked"
  BY <1>0 DEF Goto, TraceTypes, Caps
<1>3. ASSUME NEW p \in Procs
      PROVE  WorkId(p)' = WorkId(p)
  <2>1. CASE p \in Requests
    <3>1. cap'[p].id = cap[p].id
      BY <1>2, <2>1
    <3>2. WorkId(p) = cap[p].id /\ WorkId(p)' = cap'[p].id
      BY <2>1, WorkOf
    <3> QED
      BY <3>1, <3>2
  <2>2. CASE p \in Uploads
    BY <2>2, WorkOf
  <2> QED
    BY <2>1, <2>2 DEF Procs
<1>4. Calm
  BY <1>2, <1>3 DEF Calm, Bringing
<1>5. CaptureOK(r)'
  BY <1>2 DEF CaptureOK, Facts
<1>6. \A q \in Requests : q # r => SameCapture(q)
  BY <1>2, Constants DEF SameCapture
<1>7. Capturing(r) /\ Capturing(r)'
  BY <1>2 DEF Capturing
<1>8. SlotsInv'
  BY <1>2, <1>6, <1>7, SlotsSame DEF Facts, SameCapture, Capturing
<1>9. NoTraceForgotten'
  <2> SUFFICES ASSUME NEW t \in TraceIds PROVE StillKnown(t)
    BY KnownKept DEF Facts
  <2>1. \A q \in Requests : cap[q].id = t /\ pc[q] \in {"committed", "taken"} =>
                cap'[q].id = t /\ pc'[q] \in {"committed", "taken"}
    BY <1>2, Constants
  <2>2. \A q \in Requests :
            cap[q].id = t /\ cap[q].status = "open" /\ pc[q] \in {"held", "answered", "cut"} =>
            /\ cap'[q].id = t /\ cap'[q].status = "open"
            /\ pc'[q] \in {"held", "answered", "cut"}
    BY <1>2, Constants
  <2>3. \A p \in Procs : Handles(p, t) => Handles(p, t)'
    BY <1>2, <1>3 DEF Handles
  <2> QED
    BY <2>1, <2>2, <2>3 DEF StillKnown
<1>10. RecoveryOK' /\ TracesInv' /\ (\A q \in Requests : CaptureOK(q))'
  BY <1>0, <1>1, <1>4, <1>5, <1>6, CapturesKept, CalmKeeps DEF Facts, RecoveryOK
<1> QED
  BY <1>8, <1>9, <1>10 DEF Facts

LEMMA ClaimFacts ==
    ASSUME TraceTypes, Facts, serving, NEW r \in Requests, NEW c \in Caps, Claimed(r, c),
           pc[r] \in {"idle", "checked"}, c.id \in TraceIds,
           IF c.golden THEN c.id = r /\ c.trusted ELSE c.id \in Ids,
           \A q \in Requests : Capturing(q) => cap[q].id # c.id
    PROVE  Facts'
<1>1. /\ pc'[r] = "capturing" /\ cap'[r] = c
      /\ \A p \in Procs : p # r => pc'[p] = pc[p]
      /\ \A q \in Requests : q # r => cap'[q] = cap[q]
      /\ UNCHANGED <<queue, busy, upload, serving>>
  BY Constants DEF Claimed, Goto, TraceTypes
<1>2. \A p \in Procs : p # r => WorkId(p)' = WorkId(p)
  BY <1>1, WorkOf DEF WorkId, Procs
<1>3. \A q \in Requests : q # r => SameCapture(q)
  BY <1>1, Constants DEF SameCapture
<1>4. CaptureOK(r)'
  BY <1>1 DEF CaptureOK
<1>5. SlotsInv'
  BY ClaimSlots DEF Facts, Capturing
<1>6. TracesInv'
  BY ClaimKeeps, Constants DEF Facts, Bringing
<1>7. \A t \in TraceIds : row'[t].status \in {row[t].status, "capturing"}
  BY DEF Claimed, TraceTypes, NoRow
<1>8. OthersKnow
  <2>1. \A q \in Requests : pc[q] \in {"committed", "taken", "held", "answered", "cut"} =>
            /\ pc'[q] = pc[q] \/ (pc[q] = "answered" /\ pc'[q] = "cut")
            /\ cap'[q].id = cap[q].id /\ cap'[q].status = cap[q].status
    BY <1>1, <1>2, <1>7, Constants
  <2>2. \A p \in Procs : pc[p] \in Bringing => pc'[p] \in Bringing /\ WorkId(p)' = WorkId(p)
    BY <1>1, <1>2, <1>7 DEF Bringing
  <2>3. \A t \in TraceIds : row'[t].status \in {row[t].status, "capturing"} \cup Ended
    BY <1>1, <1>2, <1>7
  <2> QED
    BY <1>1, <1>2, <1>7, <2>1, <2>2, <2>3 DEF OthersKnow
<1>9. RecoveryOK' /\ NoTraceForgotten' /\ (\A q \in Requests : CaptureOK(q))'
  BY <1>1, <1>3, <1>4, <1>8, CapturesKept, OthersStillKnow DEF Facts, RecoveryOK
<1> QED
  BY <1>5, <1>6, <1>9 DEF Facts

LEMMA CommitFacts ==
    ASSUME TraceTypes, Facts, NEW r \in Requests, CommitShapes(r)
    PROVE  Facts'
<1> DEFINE t == cap[r].id
           s == IF cap[r].golden THEN "queued" ELSE "open"
<1>0. /\ UNCHANGED <<trust, cap, active, slots, waiting, queue, busy, upload, serving, learned,
                     tainted>>
      /\ pc[r] = "sealing" /\ t \in TraceIds /\ (cap[r].golden <=> t \in Requests)
      /\ cap[r].golden => t = r
  BY Constants DEF CommitShapes, counters, history, Facts, CaptureOK
<1>1. serving /\ RecoveryOK'
  BY <1>0, Constants, ServingNow DEF Facts
<1>2. /\ \A q \in Requests : q # r => SameCapture(q)
      /\ pc'[r] = IF row[t].status = "capturing" THEN "committed" ELSE "broken"
      /\ \A p \in Procs : WorkId(p)' = WorkId(p) /\ (p # r => pc'[p] = pc[p])
  <2>1. Goto(r, IF row[t].status = "capturing" THEN "committed" ELSE "broken")
    BY DEF CommitShapes
  <2> QED
    BY <1>0, <2>1, MovedAlone
<1>3. IF row[t].status = "capturing" THEN row' = [row EXCEPT ![t].status = s] ELSE row' = row
  BY DEF CommitShapes
<1> HIDE DEF t, s
<1>4. CaptureOK(r)'
  BY <1>0, <1>2 DEF CaptureOK, Facts, t
<1>5. \A q \in Requests : Capturing(q)' <=> Capturing(q)
  BY <1>0, <1>2 DEF Capturing, SameCapture
<1>6. SlotsInv' /\ (\A q \in Requests : CaptureOK(q))'
  BY <1>0, <1>2, <1>4, <1>5, SlotsSame, CapturesKept DEF Facts
<1>7. \A p \in Procs : pc'[p] \in Bringing => pc'[p] = pc[p] /\ WorkId(p)' = WorkId(p)
  BY <1>2 DEF Bringing
<1>8. TracesInv'
  <2>1. CASE row[t].status = "capturing"
    BY <1>0, <1>3, <1>7, <2>1, CommitKeeps DEF Facts, s
  <2>2. CASE row[t].status # "capturing"
    <3>1. Calm
      BY <1>0, <1>3, <1>7, <2>2 DEF Calm
    <3> QED
      BY <3>1, CalmKeeps DEF Facts
  <2> QED
    BY <2>1, <2>2
<1>9. NoTraceForgotten'
  <2> SUFFICES ASSUME NEW x \in TraceIds PROVE StillKnown(x)
    BY KnownKept DEF Facts
  <2>1. CASE x = t /\ row[t].status = "capturing"
    <3>1. row'[x].status = s
      BY <1>0, <1>3, <2>1 DEF TraceTypes, Rows
    <3>2. Sealing(x)'
      BY <1>0, <1>2, <2>1 DEF Sealing, t
    <3>3. Known(x)'
      BY <1>0, <2>1, <3>1, <3>2 DEF Known, s, IsGolden
    <3> QED
      BY <3>3 DEF StillKnown
  <2>2. CASE ~(x = t /\ row[t].status = "capturing")
    <3>1. row'[x].status = row[x].status
      BY <1>3, <2>2 DEF TraceTypes
    <3>2. \A q \in Requests : cap[q].id = x /\ pc[q] \in {"committed", "taken"} =>
                cap'[q].id = x /\ pc'[q] \in {"committed", "taken"}
      BY <1>0, <1>2, Constants
    <3>3. \A q \in Requests :
              cap[q].id = x /\ cap[q].status = "open" /\ pc[q] \in {"held", "answered", "cut"} =>
              /\ cap'[q].id = x /\ cap'[q].status = "open"
              /\ pc'[q] \in {"held", "answered", "cut"}
      BY <1>0, <1>2, Constants
    <3>4. \A p \in Procs : Handles(p, x) => Handles(p, x)'
      BY <1>0, <1>2 DEF Handles
    <3> QED
      BY <1>0, <3>1, <3>2, <3>3, <3>4 DEF StillKnown
  <2> QED
    BY <2>1, <2>2
<1> QED
  BY <1>1, <1>6, <1>8, <1>9 DEF Facts

LEMMA ReleaseFailedFacts ==
    ASSUME TraceTypes, Facts, NEW r \in Requests, ReleaseFailed(r)
    PROVE  Facts'
<1>0. /\ UNCHANGED <<row, trust, cap, waiting, queue, busy, upload, serving, learned, tainted>>
      /\ pc[r] = "marked" /\ Goto(r, "unwritten")
      /\ \E failed : ReleaseSlots(r, failed)
  BY DEF ReleaseFailed, store, history, ReleaseSlots
<1>1. serving /\ RecoveryOK'
  BY <1>0, Constants, ServingNow DEF Facts
<1>2. /\ \A q \in Requests : q # r => SameCapture(q)
      /\ pc'[r] = "unwritten"
      /\ \A p \in Procs : WorkId(p)' = WorkId(p) /\ (p # r => pc'[p] = pc[p])
  BY <1>0, MovedAlone
<1>3. CaptureOK(r)'
  BY <1>0, <1>2 DEF CaptureOK, Facts
<1>4. SlotsInv'
  <2>1. Capturing(r) /\ ~Capturing(r)'
    BY <1>0, <1>2 DEF Capturing
  <2>2. \A q \in Requests : q # r => (Capturing(q)' <=> Capturing(q))
    BY <1>2 DEF Capturing, SameCapture
  <2>3. cap[r].golden => cap[r].trusted
    BY <1>0 DEF Facts, CaptureOK
  <2> QED
    BY <1>0, <2>1, <2>2, <2>3, ReleaseSlotsKeeps DEF Facts
<1>5. Calm
  BY <1>0, <1>2 DEF Calm, Bringing
<1>6. OthersKnow
  <2>1. \A q \in Requests : pc[q] \in {"committed", "taken", "held", "answered", "cut"} =>
            /\ pc'[q] = pc[q] \/ (pc[q] = "answered" /\ pc'[q] = "cut")
            /\ cap'[q].id = cap[q].id /\ cap'[q].status = cap[q].status
    BY <1>0, <1>2, Constants
  <2>2. \A p \in Procs : pc[p] \in Bringing => pc'[p] \in Bringing /\ WorkId(p)' = WorkId(p)
    BY <1>0, <1>2 DEF Bringing
  <2> QED
    BY <1>0, <2>1, <2>2 DEF OthersKnow
<1> QED
  BY <1>1, <1>2, <1>3, <1>4, <1>5, <1>6, CapturesKept, CalmKeeps, OthersStillKnow DEF Facts

\* A trace that ends: its request fails, or it expires.
LEMMA EndFacts ==
    ASSUME TraceTypes, Facts, NEW r \in Requests, NEW l, NEW s \in Ended,
           \/ pc[r] = "unwritten" /\ l = "ended"
           \/ pc[r] \in {"held", "answered", "cut"} /\ l = pc[r],
           Goto(r, l), row' = [row EXCEPT ![cap[r].id].status = s],
           UNCHANGED <<cap, active, slots, waiting, queue, busy, upload, serving, learned, tainted>>
    PROVE  Facts'
<1>1. serving
  BY Constants, ServingNow DEF Facts
<1>2. /\ \A q \in Requests : q # r => SameCapture(q)
      /\ pc'[r] = l /\ \A p \in Procs : WorkId(p)' = WorkId(p) /\ (p # r => pc'[p] = pc[p])
  BY MovedAlone
<1>3. ASSUME NEW t \in TraceIds
      PROVE  row'[t] = row[t] \/ /\ row'[t].status = s /\ row'[t].key = row[t].key
                                 /\ row'[t].trusted = row[t].trusted
  BY DEF TraceTypes, Rows
<1>4. Calm
  BY <1>2, <1>3 DEF Calm, Bringing
<1>5. OthersKnow
  <2>1. \A q \in Requests : pc[q] \in {"committed", "taken", "held", "answered", "cut"} =>
            /\ pc'[q] = pc[q] \/ (pc[q] = "answered" /\ pc'[q] = "cut")
            /\ cap'[q].id = cap[q].id /\ cap'[q].status = cap[q].status
    BY <1>2, Constants
  <2>2. \A p \in Procs : pc[p] \in Bringing => pc'[p] \in Bringing /\ WorkId(p)' = WorkId(p)
    BY <1>2 DEF Bringing
  <2>3. \A t \in TraceIds : row'[t].status \in {row[t].status, "capturing"} \cup Ended
    BY <1>3
  <2> QED
    BY <2>1, <2>2, <2>3 DEF OthersKnow
<1>6. CaptureOK(r)'
  BY <1>2 DEF CaptureOK, Facts
<1>7. Capturing(r)' <=> Capturing(r)
  BY <1>2 DEF Capturing
<1> QED
  BY <1>1, <1>2, <1>4, <1>5, <1>6, <1>7, QuietKeeps

LEMMA ReleaseSealedFacts ==
    ASSUME TraceTypes, Facts, NEW r \in Requests, ReleaseSealed(r)
    PROVE  Facts'
<1> DEFINE t == cap[r].id
           l == IF ~cap[r].golden /\ cap[r].result = "half" THEN "held" ELSE "answered"
<1>0. /\ UNCHANGED <<trust, cap, waiting, busy, upload, serving, learned, tainted>>
      /\ pc[r] = "taken" /\ ReleaseSlots(r, FALSE) /\ Goto(r, l)
      /\ IF cap[r].golden THEN Enqueue(t, row) ELSE UNCHANGED <<row, queue>>
  BY DEF ReleaseSealed, history, ReleaseSlots
<1>1. serving /\ RecoveryOK'
  BY <1>0, Constants, ServingNow DEF Facts
<1>2. /\ \A q \in Requests : q # r => SameCapture(q)
      /\ pc'[r] = l
      /\ \A p \in Procs : WorkId(p)' = WorkId(p) /\ (p # r => pc'[p] = pc[p])
  BY <1>0, MovedAlone
<1> HIDE DEF t, l
<1>2a. /\ l \in {"held", "answered"} /\ (l = "held" => ~cap[r].golden)
       /\ (~cap[r].golden => cap[r].status = "open") /\ (cap[r].golden => t = r /\ cap[r].trusted)
       /\ t \in TraceIds
  BY <1>0, Constants DEF l, t, Facts, CaptureOK
<1>3. CaptureOK(r)'
  BY <1>0, <1>2, <1>2a DEF CaptureOK, Facts
<1>4. SlotsInv'
  <2>1. Capturing(r) /\ ~Capturing(r)'
    BY <1>0, <1>2, <1>2a DEF Capturing
  <2>2. \A q \in Requests : q # r => (Capturing(q)' <=> Capturing(q))
    BY <1>2 DEF Capturing, SameCapture
  <2> QED
    BY <1>0, <1>2a, <2>1, <2>2, ReleaseSlotsKeeps DEF Facts
<1>4a. ASSUME cap[r].golden
       PROVE  /\ \A i \in 1 .. Len(queue) : \E j \in 1 .. Len(queue') : queue'[j] = queue[i]
              /\ \A x \in TraceIds : x # t => row'[x] = row[x]
              /\ \/ row'[t] = row[t] /\ \E j \in 1 .. Len(queue') : queue'[j] = t
                 \/ /\ row'[t].status = "dropped" /\ row'[t].key = row[t].key
                    /\ row'[t].trusted = row[t].trusted
  <2>1. row \in [TraceIds -> Rows]
    BY DEF TraceTypes
  <2> QED
    BY <1>0, <1>2a, <1>4a, <2>1, EnqueueKnows
<1>5. \A x \in TraceIds : \/ row'[x] = row[x]
                          \/ /\ row'[x].status = "dropped" /\ row'[x].key = row[x].key
                             /\ row'[x].trusted = row[x].trusted
  BY <1>0, <1>4a
<1>6. Calm
  BY <1>0, <1>2, <1>2a, <1>5 DEF Calm, Bringing, Ended, Statuses
<1>7. NoTraceForgotten'
  <2> SUFFICES ASSUME NEW x \in TraceIds PROVE StillKnown(x)
    BY KnownKept DEF Facts
  <2>1. CASE x = t /\ cap[r].golden
    <3>1. CASE row'[t] = row[t] /\ \E j \in 1 .. Len(queue') : queue'[j] = t
      <4>1. row'[x].status \notin {"open", "reducing"}
        BY <1>2a, <2>1, <3>1 DEF Facts, TracesInv, TracesOK, GoldenOK
      <4> QED
        BY <2>1, <3>1, <4>1 DEF StillKnown, Known
    <3>2. CASE row'[t].status = "dropped"
      BY <2>1, <3>2 DEF StillKnown, Known
    <3> QED
      BY <1>4a, <2>1, <3>1, <3>2
  <2>2. CASE x = t /\ ~cap[r].golden
    <3>1. row'[x] = row[x] /\ queue' = queue
      BY <1>0, <2>2
    <3>2. Awaited(x)'
      BY <1>0, <1>2, <1>2a, <2>2 DEF Awaited, t
    <3>3. ~IsGolden(x)
      BY <1>0, <2>2, Constants DEF t, Facts, CaptureOK, IsGolden
    <3>4. (\E p \in Procs : Handles(p, x)) => (\E p \in Procs : Handles(p, x))'
      BY <1>0, <1>2 DEF Handles
    <3>5. Known(x)
      BY DEF Facts, NoTraceForgotten, Known
    <3>6. Known(x)'
      BY <1>0, <3>1, <3>2, <3>3, <3>4, <3>5 DEF Known
    <3> QED
      BY <3>6 DEF StillKnown
  <2>3. CASE x # t
    <3>1. row'[x].status = row[x].status
          /\ \A i \in 1 .. Len(queue) : \E j \in 1 .. Len(queue') : queue'[j] = queue[i]
      <4>1. CASE cap[r].golden
        BY <1>4a, <2>3, <4>1
      <4>2. CASE ~cap[r].golden
        BY <1>0, <4>2
      <4> QED
        BY <4>1, <4>2
    <3>2. \A q \in Requests : cap[q].id = x /\ pc[q] \in {"committed", "taken"} =>
                cap'[q].id = x /\ pc'[q] \in {"committed", "taken"}
      BY <1>0, <1>2, <2>3, Constants DEF t
    <3>3. \A q \in Requests :
              cap[q].id = x /\ cap[q].status = "open" /\ pc[q] \in {"held", "answered", "cut"} =>
              /\ cap'[q].id = x /\ cap'[q].status = "open"
              /\ pc'[q] \in {"held", "answered", "cut"}
      BY <1>0, <1>2, Constants
    <3>4. \A p \in Procs : Handles(p, x) => Handles(p, x)'
      BY <1>0, <1>2 DEF Handles
    <3> QED
      BY <1>0, <3>1, <3>2, <3>3, <3>4 DEF StillKnown
  <2> QED
    BY <2>1, <2>2, <2>3
<1> QED
  BY <1>1, <1>2, <1>3, <1>4, <1>6, <1>7, CapturesKept, CalmKeeps DEF Facts

LEMMA UploadsMoved ==
    ASSUME TraceTypes, UploadsOK, upload' = upload, NEW p \in Procs, NEW l, l # "submitted",
           Goto(p, l)
    PROVE  UploadsOK'
  BY Constants DEF UploadsOK, Goto, TraceTypes

LEMMA UploadsKept ==
    ASSUME TraceTypes, UploadsOK, TraceNext
    PROVE  UploadsOK'
<1> USE DEF store, counters, history, bounds
<1>0. CASE Die
  BY <1>0, Constants DEF Die, UploadsOK
<1>1. ASSUME NEW r \in Requests, CaptureStep(r) \/ SealStep(r) \/ Expire(r)
      PROVE  UploadsOK'
  <2>1. CASE \E l : l # "submitted" /\ Goto(r, l) /\ upload' = upload
    BY <2>1, UploadsMoved, Constants
  <2>2. CASE pc' = pc /\ upload' = upload
    BY <2>2 DEF UploadsOK
  <2>3. CaptureStep(r) => \/ Die \/ \E l : l # "submitted" /\ Goto(r, l) /\ upload' = upload
    BY DEF CaptureStep, CheckId, ClaimTraced, Untraced, ClaimGolden, Claimed, Finish, Abort, Panic,
           LeaveUnsealed, SecondRelay, SecondStream, BeginSeal
  <2>4. SealStep(r) => \E l : l # "submitted" /\ Goto(r, l) /\ upload' = upload
    BY DEF SealStep, CommitShapes, MarkFailure, ReleaseFailed, WriteFailure, TakeHeld,
           ReleaseSealed, ProcessHeld
  <2>5. Expire(r) => pc' = pc /\ upload' = upload
    BY DEF Expire
  <2> QED
    BY <1>0, <1>1, <2>1, <2>2, <2>3, <2>4, <2>5
<1>2. ASSUME NEW u \in Uploads, NEW t \in TraceIds, NEW c \in Keys, Submit(u, t, c)
      PROVE  UploadsOK'
  BY <1>2, Constants DEF Submit, Goto, TraceTypes, UploadsOK
<1>3. ASSUME NEW u \in Uploads, Hold(u) \/ SubmitOpen(u)
      PROVE  UploadsOK'
  <2>1. \E l : l # "submitted" /\ Goto(u, l) /\ upload' = upload
    BY <1>3 DEF Hold, SubmitOpen
  <2> QED
    BY <2>1, UploadsMoved, Constants
<1>4. ASSUME NEW p \in Procs, HalfStep(p)
      PROVE  UploadsOK'
  <2>1. \E l : l # "submitted" /\ Goto(p, l) /\ upload' = upload
    BY <1>4 DEF HalfStep, StoreHalf, TakePlace, QueueTrace, WorkEnd
  <2> QED
    BY <2>1, UploadsMoved
<1>5. ASSUME \/ ConsumerStep \/ \E k \in Keys : SetTrusted(k) \/ Distrust(k) \/ RevokeOpen(k)
      PROVE  UploadsOK'
  <2>1. pc' = pc /\ upload' = upload
    BY <1>5 DEF ConsumerStep, Take, Recover, Learn, PassOver, Done, SetTrusted, Distrust, RevokeOpen
  <2> QED
    BY <2>1 DEF UploadsOK
<1> QED
  BY <1>0, <1>1, <1>2, <1>3, <1>4, <1>5 DEF TraceNext, Crash

\* A step of an upload, or of a half on its way: captures and slots stay.
LEMMA AloneKeeps ==
    ASSUME TraceTypes, \A q \in Requests : CaptureOK(q), SlotsInv, NEW p \in Procs, NEW l,
           Goto(p, l), UNCHANGED <<cap, active, slots>>,
           p \in Requests => /\ pc[p] \in {"held"} \cup Bringing
                             /\ l \in {"answered"} \cup Bringing
    PROVE  SlotsInv' /\ (\A q \in Requests : CaptureOK(q))'
<1>1. /\ \A q \in Procs : q # p => pc'[q] = pc[q]
      /\ pc'[p] = l
  BY DEF Goto, TraceTypes
<1>2. ASSUME NEW q \in Requests
      PROVE  (CaptureOK(q)' \/ SameCapture(q)) /\ (Capturing(q)' <=> Capturing(q))
  <2>1. CASE q = p
    <3>1. CaptureOK(q)'
      BY <1>1, <2>1 DEF CaptureOK, Bringing
    <3>2. ~Capturing(q) /\ ~Capturing(q)'
      BY <1>1, <2>1 DEF Capturing, Bringing
    <3> QED
      BY <3>1, <3>2
  <2>2. CASE q # p
    BY <1>1, <2>2, Constants DEF SameCapture, Capturing
  <2> QED
    BY <2>1, <2>2
<1> QED
  BY <1>2, SlotsSame, CapturesKept

\* A half begins to be brought.
LEMMA BringFacts ==
    ASSUME TraceTypes, Facts, NEW p \in Procs, pc[p] \in {"held", "submitted"},
           p \in Requests => pc[p] = "held",
           WorkId(p) \in Ids, Moved(WorkId(p), "open", "reducing"), Goto(p, "reducing"),
           UNCHANGED <<cap, active, slots, waiting, queue, busy, upload, serving, learned, tainted>>
    PROVE  Facts'
<1> DEFINE t == WorkId(p)
<1>1. serving /\ RecoveryOK'
  BY ServingNow DEF Facts
<1>2. TracesInv'
  BY BringKeeps DEF Facts, Bringing
<1>3. SlotsInv' /\ (\A q \in Requests : CaptureOK(q))'
  BY AloneKeeps DEF Facts, Bringing
<1>4. /\ \A q \in Procs : WorkId(q)' = WorkId(q) /\ (q # p => pc'[q] = pc[q])
      /\ pc'[p] = "reducing" /\ t \in TraceIds
      /\ row'[t].status = "reducing" /\ \A s \in TraceIds : s # t => row'[s] = row[s]
  BY Constants DEF Goto, TraceTypes, WorkId, Moved, Rows
<1> HIDE DEF t
<1>5. NoTraceForgotten'
  <2> SUFFICES ASSUME NEW x \in TraceIds PROVE StillKnown(x)
    BY KnownKept DEF Facts
  <2>1. CASE x = t
    <3>1. Handles(p, x)'
      BY <1>4, <2>1 DEF Handles, t
    <3> QED
      BY <1>4, <2>1, <3>1 DEF StillKnown, Known
  <2>2. CASE x # t
    <3>1. \A q \in Requests : cap[q].id = x => q # p
      BY <2>2, WorkOf DEF t
    <3>2. \A q \in Requests : cap[q].id = x => pc'[q] = pc[q]
      BY <1>4, <3>1, Constants
    <3>3. \A q \in Procs : Handles(q, x) => Handles(q, x)'
      BY <1>4 DEF Handles
    <3> QED
      BY <1>4, <2>2, <3>2, <3>3 DEF StillKnown
  <2> QED
    BY <2>1, <2>2
<1> QED
  BY <1>1, <1>2, <1>3, <1>5 DEF Facts

\* A step of one process that neither brings a half nor knows of an open trace.
LEMMA IdleFacts ==
    ASSUME TraceTypes, Facts, NEW p \in Procs, NEW l, serving, Goto(p, l),
           \/ p \in Uploads /\ pc[p] \in {"idle", "submitted"} /\ l \notin Bringing
           \/ /\ p \in Requests /\ pc[p] = "held" /\ l = "answered",
           \A q \in Requests : cap'[q] = [cap[q] EXCEPT !.held = cap'[q].held],
           \A q \in Procs : q # p => WorkId(q)' = WorkId(q),
           UNCHANGED <<row, active, slots, waiting, queue, busy, serving, learned, tainted>>
    PROVE  Facts'
<1>1. /\ \A q \in Procs : q # p => pc'[q] = pc[q]
      /\ pc'[p] = l /\ Requests \subseteq Procs
  BY Constants DEF Goto, TraceTypes
<1>2. ASSUME NEW q \in Requests
      PROVE  /\ cap'[q].id = cap[q].id /\ cap'[q].key = cap[q].key
             /\ cap'[q].golden = cap[q].golden /\ cap'[q].trusted = cap[q].trusted
             /\ cap'[q].status = cap[q].status /\ cap'[q].result = cap[q].result
             /\ pc'[q] = pc[q] \/ (pc[q] = "held" /\ pc'[q] = "answered")
  <2>1. cap[q] \in Caps
    BY DEF TraceTypes
  <2>2. /\ cap'[q].id = cap[q].id /\ cap'[q].key = cap[q].key
        /\ cap'[q].golden = cap[q].golden /\ cap'[q].trusted = cap[q].trusted
        /\ cap'[q].status = cap[q].status /\ cap'[q].result = cap[q].result
    BY <2>1 DEF Caps
  <2> QED
    BY <1>1, <2>2, Constants
<1>3. SlotsInv'
  <2>1. \A q \in Requests : Capturing(q)' <=> Capturing(q)
    BY <1>2 DEF Capturing
  <2> QED
    BY <1>2, <2>1, SlotsSame DEF Facts
<1>4. (\A q \in Requests : CaptureOK(q))'
  BY <1>2, CapturesKept DEF Facts, SameCapture, CaptureOK
<1>5. Calm
  BY <1>1 DEF Calm, Bringing
<1>6. NoTraceForgotten'
  <2> SUFFICES ASSUME NEW x \in TraceIds PROVE StillKnown(x)
    BY KnownKept DEF Facts
  <2>1. \A q \in Requests : cap[q].id = x /\ pc[q] \in {"committed", "taken"} =>
                cap'[q].id = x /\ pc'[q] \in {"committed", "taken"}
    BY <1>2
  <2>2. \A q \in Requests :
            cap[q].id = x /\ cap[q].status = "open" /\ pc[q] \in {"held", "answered", "cut"} =>
            /\ cap'[q].id = x /\ cap'[q].status = "open"
            /\ pc'[q] \in {"held", "answered", "cut"}
    BY <1>2
  <2>3. \A q \in Procs : Handles(q, x) => Handles(q, x)'
    BY <1>1 DEF Handles
  <2> QED
    BY <2>1, <2>2, <2>3 DEF StillKnown
<1> QED
  BY <1>3, <1>4, <1>5, <1>6, CalmKeeps DEF Facts, RecoveryOK

LEMMA ProcessHeldFacts ==
    ASSUME TraceTypes, Facts, NEW r \in Requests, ProcessHeld(r)
    PROVE  Facts'
<1>0. /\ UNCHANGED <<trust, cap, active, slots, waiting, queue, busy, upload, serving, learned,
                     tainted>>
      /\ pc[r] = "held" /\ WorkId(r) = cap[r].id /\ r \in Procs /\ r \notin Uploads
  BY Constants, WorkOf DEF ProcessHeld, counters, history
<1>1. serving
  BY <1>0, ServingNow DEF Facts
<1>2. CASE Moved(cap[r].id, "open", "reducing") /\ Goto(r, "reducing")
  <2>1. WorkId(r) \in Ids
    BY <1>0 DEF Facts, CaptureOK
  <2> QED
    BY <1>0, <1>2, <2>1, BringFacts
<1>3. CASE Goto(r, "answered") /\ row' = row
  <2>1. \A q \in Requests : cap'[q] = [cap[q] EXCEPT !.held = cap'[q].held]
    BY <1>0 DEF TraceTypes, Caps
  <2>2. \A q \in Procs : WorkId(q)' = WorkId(q)
    BY <1>0 DEF WorkId
  <2> QED
    BY <1>0, <1>1, <1>3, <2>1, <2>2, IdleFacts
<1> QED
  BY <1>2, <1>3 DEF ProcessHeld

LEMMA SubmitFacts ==
    ASSUME TraceTypes, Facts, NEW u \in Uploads, NEW t \in TraceIds, NEW c \in Keys,
           Submit(u, t, c)
    PROVE  Facts'
<1>0. /\ UNCHANGED <<row, cap, active, slots, waiting, queue, busy, serving, learned, tainted>>
      /\ serving /\ pc[u] = "idle" /\ u \in Procs
      /\ \A q \in Uploads : q # u => upload'[q] = upload[q]
  BY Constants DEF Submit, store, counters, history, TraceTypes
<1>1. \E l : l \notin Bringing /\ Goto(u, l)
  BY DEF Submit, Bringing
<1>2. \A q \in Requests : cap'[q] = [cap[q] EXCEPT !.held = cap'[q].held]
  BY <1>0 DEF TraceTypes, Caps
<1>3. ASSUME NEW q \in Procs, q # u
      PROVE  WorkId(q)' = WorkId(q)
  BY <1>0, <1>3 DEF WorkId
<1> QED
  BY <1>0, <1>1, <1>2, <1>3, IdleFacts

LEMMA HoldFacts ==
    ASSUME TraceTypes, Facts, NEW u \in Uploads, Hold(u)
    PROVE  Facts'
<1>0. /\ UNCHANGED <<row, active, slots, waiting, queue, busy, upload, serving, learned, tainted>>
      /\ pc[u] = "submitted" /\ u \in Procs
  BY Constants DEF Hold, store, counters, history
<1>1. serving
  BY <1>0, ServingNow DEF Facts
<1>2. \E l : l \notin Bringing /\ Goto(u, l)
  BY DEF Hold, Bringing
<1>3. ASSUME NEW q \in Requests
      PROVE  cap'[q] = [cap[q] EXCEPT !.held = cap'[q].held] /\ cap'[q].id = cap[q].id
  <2>1. cap[q] \in Caps /\ cap \in [Requests -> Caps]
    BY DEF TraceTypes
  <2>2. CASE cap' = cap
    BY <2>1, <2>2 DEF Caps
  <2>3. CASE cap' = [cap EXCEPT ![upload[u].found].held = TRUE]
    <3>1. cap'[q] = cap[q] \/ cap'[q] = [cap[q] EXCEPT !.held = TRUE]
      BY <2>1, <2>3
    <3> QED
      BY <2>1, <3>1 DEF Caps
  <2> QED
    BY <2>2, <2>3 DEF Hold
<1>4. \A q \in Procs : WorkId(q)' = WorkId(q)
  <2>1. \A q \in Requests : WorkId(q)' = WorkId(q)
    <3> SUFFICES ASSUME NEW q \in Requests PROVE WorkId(q)' = WorkId(q)
      OBVIOUS
    <3>1. cap'[q].id = cap[q].id
      BY <1>3
    <3>2. WorkId(q) = cap[q].id /\ WorkId(q)' = cap'[q].id
      BY WorkOf
    <3> QED
      BY <3>1, <3>2
  <2>2. \A q \in Uploads : WorkId(q)' = WorkId(q)
    BY <1>0, WorkOf
  <2> QED
    BY <2>1, <2>2 DEF Procs
<1> QED
  BY <1>0, <1>1, <1>2, <1>3, <1>4, IdleFacts

LEMMA SubmitOpenFacts ==
    ASSUME TraceTypes, Facts, UploadsOK, NEW u \in Uploads, SubmitOpen(u)
    PROVE  Facts'
<1>0. /\ UNCHANGED <<trust, cap, active, slots, waiting, queue, busy, upload, serving, learned,
                     tainted>>
      /\ pc[u] = "submitted" /\ WorkId(u) = upload[u].id /\ u \in Procs /\ u \notin Requests
      /\ upload[u].id \in TraceIds
  BY Constants, WorkOf DEF SubmitOpen, counters, history, UploadsOK
<1>1. serving
  BY <1>0, ServingNow DEF Facts
<1>2. CASE Moved(upload[u].id, "open", "reducing") /\ Goto(u, "reducing")
  <2>1. WorkId(u) \in Ids
    BY <1>0, <1>2 DEF Moved, Facts, TracesInv, TracesOK, GoldenOK, TraceIds
  <2> QED
    BY <1>0, <1>2, <2>1, BringFacts
<1>3. CASE Goto(u, "toolate") /\ row' = row
  <2>1. \A q \in Requests : cap'[q] = [cap[q] EXCEPT !.held = cap'[q].held]
    BY <1>0 DEF TraceTypes, Caps
  <2>2. \A q \in Procs : WorkId(q)' = WorkId(q)
    BY <1>0 DEF WorkId
  <2>3. "toolate" \notin Bringing
    BY DEF Bringing
  <2> QED
    BY <1>0, <1>1, <1>3, <2>1, <2>2, <2>3, IdleFacts
<1> QED
  BY <1>2, <1>3 DEF SubmitOpen

LEMMA HalfFacts ==
    ASSUME TraceTypes, Facts, NEW p \in Procs, HalfStep(p)
    PROVE  Facts'
<1> DEFINE t == WorkId(p)
<1>0. /\ UNCHANGED <<trust, cap, active, slots, busy, upload, serving, learned, tainted>>
      /\ pc[p] \in Bringing /\ t \in TraceIds
      /\ \E l \in {"answered", "accepted"} \cup Bringing :
            Goto(p, l) /\ (p \in Requests => l \in {"answered"} \cup Bringing)
  <2>1. /\ UNCHANGED <<trust, cap, active, slots, busy, upload, serving, learned, tainted>>
        /\ pc[p] \in Bringing
    BY DEF HalfStep, StoreHalf, TakePlace, QueueTrace, counters, history, Bringing
  <2>2. WorkEnd(p) \in {"answered", "accepted"} /\ (p \in Requests => WorkEnd(p) = "answered")
    BY Constants DEF WorkEnd
  <2>3. \E l \in {"answered", "accepted"} \cup Bringing :
            Goto(p, l) /\ (p \in Requests => l \in {"answered"} \cup Bringing)
    BY <2>2 DEF HalfStep, StoreHalf, TakePlace, QueueTrace, Bringing
  <2> QED
    BY <2>1, <2>3, WorkTypes DEF Facts, TracesInv
<1>1. serving /\ RecoveryOK'
  BY <1>0, ServingNow DEF Facts, Bringing
<1>2. SlotsInv' /\ (\A q \in Requests : CaptureOK(q))'
  BY <1>0, AloneKeeps DEF Facts
<1>3. TracesInv'
  BY StoreHalfKeeps, TakePlaceKeeps, QueueKeeps DEF HalfStep, Facts
<1>4. /\ \A q \in Procs : WorkId(q)' = WorkId(q) /\ (q # p => pc'[q] = pc[q])
      /\ \A q \in Requests : pc[q] \in {"committed", "taken", "held", "answered", "cut"}
                                => pc'[q] = pc[q]
  <2>1. \A q \in Procs : WorkId(q)' = WorkId(q) /\ (q # p => pc'[q] = pc[q])
    BY <1>0 DEF WorkId, Goto, TraceTypes
  <2>2. pc[p] \notin {"committed", "taken", "held", "answered", "cut"}
    BY <1>0 DEF Bringing
  <2> QED
    BY <2>1, <2>2, Constants
<1> HIDE DEF t
<1>5. ASSUME /\ \A x \in TraceIds : x # t => row'[x].status = row[x].status
             /\ \A i \in 1 .. Len(queue) : \E j \in 1 .. Len(queue') : queue'[j] = queue[i]
             /\ Known(t)' \/ (row'[t].status = row[t].status /\ pc'[p] \in Bringing)
      PROVE  NoTraceForgotten'
  <2> SUFFICES ASSUME NEW x \in TraceIds PROVE StillKnown(x)
    BY KnownKept DEF Facts
  <2>1. CASE x = t /\ Known(t)'
    <3>1. t' = t
      BY <1>4 DEF t
    <3> QED
      BY <2>1, <3>1 DEF StillKnown, Known, Sealing, Awaited, Handles, IsGolden
  <2>2. CASE ~(x = t /\ Known(t)')
    <3>1. row'[x].status = row[x].status
      BY <1>5, <2>2
    <3>2. \A q \in Procs : Handles(q, x) => Handles(q, x)'
      <4>1. ASSUME NEW q \in Procs, Handles(q, x), q # p
            PROVE  Handles(q, x)'
        BY <1>4, <4>1 DEF Handles
      <4>2. ASSUME Handles(p, x)
            PROVE  Handles(p, x)'
        <5>1. x = t /\ pc'[p] \in Bringing
          BY <1>5, <2>2, <4>2 DEF Handles, t
        <5> QED
          BY <1>4, <4>2, <5>1 DEF Handles, Bringing
      <4> QED
        BY <4>1, <4>2
    <3> QED
      BY <1>0, <1>4, <1>5, <3>1, <3>2 DEF StillKnown
  <2> QED
    BY <2>1, <2>2
<1>6. t' = t
  BY <1>4 DEF t
<1>7. CASE StoreHalf(p)
  <2>1. queue' = queue /\ pc'[p] \in Bringing
    BY <1>7 DEF StoreHalf, Goto, TraceTypes, Bringing
  <2>2. \A x \in TraceIds : row'[x].status = row[x].status
    BY <1>7 DEF StoreHalf, TraceTypes, Rows
  <2> QED
    BY <1>0, <1>1, <1>2, <1>3, <1>5, <2>1, <2>2 DEF Facts
<1>8. CASE TakePlace(p)
  <2>1. queue' = queue
    BY <1>8 DEF TakePlace
  <2>2. CASE row' = row /\ Goto(p, "counted")
    <3>1. pc'[p] \in Bringing
      BY <2>2 DEF Goto, TraceTypes, Bringing
    <3> QED
      BY <1>0, <1>1, <1>2, <1>3, <1>5, <2>1, <2>2, <3>1 DEF Facts
  <2>3. CASE row' = [row EXCEPT ![t].status = "dropped"]
    <3>1. row'[t].status = "dropped" /\ \A x \in TraceIds : x # t => row'[x] = row[x]
      BY <1>0, <2>3 DEF TraceTypes, Rows
    <3>2. Known(t)'
      BY <1>6, <3>1 DEF Known
    <3> QED
      BY <1>1, <1>2, <1>3, <1>5, <2>1, <3>1, <3>2 DEF Facts
  <2> QED
    BY <1>8, <2>2, <2>3 DEF TakePlace, t
<1>9. CASE QueueTrace(p)
  <2>1. CASE row[t].status # "reducing"
    <3>1. row' = row /\ queue' = queue
      BY <1>9, <2>1 DEF QueueTrace, t
    <3>2. row[t].status \in Ended
      BY <1>0, <2>1 DEF Facts, TracesInv, OneHandler, t
    <3>3. Known(t)'
      BY <1>6, <3>1, <3>2 DEF Known, Ended
    <3> QED
      BY <1>1, <1>2, <1>3, <1>5, <3>1, <3>3 DEF Facts
  <2>2. CASE row[t].status = "reducing"
    <3> DEFINE rows == [row EXCEPT ![t].status = "queued"]
    <3>1. /\ rows \in [TraceIds -> Rows] /\ rows[t].status = "queued"
          /\ \A x \in TraceIds : x # t => rows[x] = row[x]
      <4>1. ASSUME NEW x \in Rows
            PROVE  [x EXCEPT !.status = "queued"] \in Rows /\ [x EXCEPT !.status = "queued"].status = "queued"
        BY DEF Rows, Statuses
      <4> QED
        BY <1>0, <4>1 DEF TraceTypes
    <3>2. Enqueue(t, rows)
      BY <1>9, <2>2 DEF QueueTrace, t
    <3> HIDE DEF rows
    <3>3. /\ \A i \in 1 .. Len(queue) : \E j \in 1 .. Len(queue') : queue'[j] = queue[i]
          /\ \A x \in TraceIds : x # t => row'[x] = rows[x]
          /\ \/ row'[t] = rows[t] /\ \E j \in 1 .. Len(queue') : queue'[j] = t
             \/ row'[t].status = "dropped"
      BY <1>0, <3>1, <3>2, EnqueueKnows
    <3>4. Known(t)'
      BY <1>6, <3>1, <3>3 DEF Known
    <3> QED
      BY <1>1, <1>2, <1>3, <1>5, <3>1, <3>3, <3>4 DEF Facts
  <2> QED
    BY <2>1, <2>2
<1> QED
  BY <1>7, <1>8, <1>9 DEF HalfStep

\* A step of the consumer or of an operator: requests and uploads stay where they are.
LEMMA StillFacts ==
    ASSUME TraceTypes, Facts, UNCHANGED <<pc, cap, active, slots, upload>>,
           TracesInv', RecoveryOK', NoTraceForgotten'
    PROVE  Facts'
<1>1. SlotsInv'
  BY SlotsSame DEF Facts, Capturing
<1>2. (\A q \in Requests : CaptureOK(q))'
  BY DEF Facts, CaptureOK
<1> QED
  BY <1>1, <1>2 DEF Facts

LEMMA StillKnows ==
    ASSUME NoTraceForgotten, UNCHANGED <<pc, cap, upload>>,
           \A t \in TraceIds :
                \/ Known(t)'
                \/ /\ row'[t].status \in {row[t].status} \cup Ended
                   /\ \A i \in 1 .. Len(queue) :
                        queue[i] = t => \E j \in 1 .. Len(queue') : queue'[j] = t
                   /\ busy.id = t => busy'.id = t
                   /\ ~serving /\ serving' => row'[t].status # "queued"
    PROVE  NoTraceForgotten'
<1> SUFFICES ASSUME NEW t \in TraceIds, ~(Known(t)')
             PROVE  StillKnown(t)
  BY KnownKept DEF StillKnown
<1>1. \A p \in Procs : Handles(p, t) => Handles(p, t)'
  BY DEF Handles, WorkId
<1> QED
  BY <1>1 DEF StillKnown

LEMMA TakeFacts ==
    ASSUME TraceTypes, Facts, Take
    PROVE  Facts'
<1> DEFINE t == Head(queue)
<1>0. /\ UNCHANGED <<row, trust, pc, cap, active, slots, waiting, upload, serving, learned, tainted>>
      /\ serving /\ busy = Idle /\ queue # <<>> /\ queue \in Seq(TraceIds) /\ queue' = Tail(queue)
      /\ busy' = IF row[t].status = "queued" THEN Working(t) ELSE Idle
  BY DEF Take, store, counters, history, TraceTypes
<1>1. t \in TraceIds /\ \A i \in 1 .. Len(queue) :
            queue[i] = t \/ \E j \in 1 .. Len(queue') : queue'[j] = queue[i]
  <2>1. t \in TraceIds /\ t = queue[1] /\ Len(queue') = Len(queue) - 1 /\ Len(queue) \in Nat
    BY <1>0
  <2>2. \A j \in 1 .. Len(queue') : queue'[j] = queue[j + 1]
    BY <1>0, <2>1
  <2>3. ASSUME NEW i \in 1 .. Len(queue), i # 1
        PROVE  i - 1 \in 1 .. Len(queue') /\ queue'[i - 1] = queue[i]
    <3>1. i - 1 \in 1 .. Len(queue') /\ (i - 1) + 1 = i
      BY <2>1, <2>3
    <3> QED
      BY <2>2, <3>1
  <2> QED
    BY <2>1, <2>3
<1> HIDE DEF t
<1>2. TracesInv' /\ RecoveryOK'
  <2>1. CASE row[t].status = "queued"
    BY <1>0, <1>1, <2>1, TakeKeeps DEF Facts, RecoveryOK
  <2>2. CASE row[t].status # "queued"
    <3>1. Calm
      BY <1>0, <2>2 DEF Calm, WorkId
    <3> QED
      BY <1>0, <3>1, CalmKeeps DEF Facts, RecoveryOK
  <2> QED
    BY <2>1, <2>2
<1>3. busy.id \notin TraceIds
  BY <1>0, BusyFacts
<1>4. NoTraceForgotten'
  <2> SUFFICES ASSUME NEW x \in TraceIds
               PROVE  \/ Known(x)'
                      \/ /\ row'[x].status \in {row[x].status} \cup Ended
                         /\ \A i \in 1 .. Len(queue) :
                              queue[i] = x => \E j \in 1 .. Len(queue') : queue'[j] = x
                         /\ busy.id = x => busy'.id = x
                         /\ ~serving /\ serving' => row'[x].status # "queued"
    BY <1>0, StillKnows DEF Facts
  <2>1. CASE x # t
    BY <1>0, <1>1, <1>3, <2>1
  <2>2. CASE x = t
    <3>1. row'[x] = row[x]
      BY <1>0
    <3>2. row[t].status = "queued" => busy'.id = x
      BY <1>0, <1>1, <2>2, BusyFacts
    <3>3. Known(x)
      BY DEF Facts, NoTraceForgotten, Known
    <3>4. Sealing(x)' = Sealing(x) /\ Awaited(x)' = Awaited(x)
      BY <1>0 DEF Sealing, Awaited
    <3>5. (\E p \in Procs : Handles(p, x)) => (\E p \in Procs : Handles(p, x))'
      BY <1>0 DEF Handles, WorkId
    <3>6. Known(x)'
      BY <2>2, <3>1, <3>2, <3>3, <3>4, <3>5 DEF Known
    <3> QED
      BY <3>6
  <2> QED
    BY <2>1, <2>2
<1> QED
  BY <1>0, <1>2, <1>4, StillFacts

LEMMA RecoverFacts ==
    ASSUME TraceTypes, Facts, Recover
    PROVE  Facts'
<1>0. /\ UNCHANGED <<row, trust, pc, cap, active, slots, waiting, queue, upload, learned, tainted>>
      /\ ~serving /\ busy = Idle
  BY DEF Recover, store, counters, history
<1>1. CASE \E t \in TraceIds : row[t].status = "queued" /\ busy' = Working(t) /\ UNCHANGED serving
  <2>1. PICK t \in TraceIds : row[t].status = "queued" /\ busy' = Working(t) /\ serving' = serving
    BY <1>1
  <2>2. TracesInv' /\ RecoveryOK'
    BY <1>0, <2>1, TakeKeeps DEF Facts, RecoveryOK
  <2>3. NoTraceForgotten'
    <3>1. busy.id \notin TraceIds
      BY <1>0, BusyFacts
    <3> QED
      BY <1>0, <2>1, <3>1, StillKnows DEF Facts
  <2> QED
    BY <1>0, <2>2, <2>3, StillFacts
<1>2. CASE (\A t \in TraceIds : row[t].status # "queued") /\ serving' = TRUE /\ UNCHANGED busy
  <2>0. busy.id \notin TraceIds
    BY <1>0, BusyFacts
  <2>1. \A p \in Procs : pc[p] \notin Bringing /\ WorkId(p)' = WorkId(p)
    BY <1>0 DEF Facts, RecoveryOK, Bringing, WorkId
  <2>2. OneHandler' /\ ConsumerOK' /\ TracesOK'
    <3>1. OneHandler'
      BY <1>0, <2>1 DEF OneHandler, Bringing
    <3>2. ConsumerOK'
      BY <1>0, <1>2 DEF ConsumerOK
    <3>3. TracesOK'
      BY <1>0, <1>2 DEF Facts, TracesInv, TracesOK, LearnedOK, TaintedOK, GoldenOK
    <3> QED
      BY <3>1, <3>2, <3>3
  <2>3. PlacesInv'
    <3>1. ASSUME NEW k \in Keys PROVE Places(k)' = {}
      <4>1. busy' = busy /\ pc' = pc /\ row' = row
        BY <1>0, <1>2
      <4>2. \A t \in TraceIds : busy'.id # t /\ row'[t].status # "queued"
        BY <1>2, <2>0, <4>1
      <4>3. \A p \in Procs : pc'[p] # "counted"
        BY <2>1, <4>1 DEF Bringing
      <4> QED
        BY <4>2, <4>3 DEF Places
    <3>2. \A k \in Keys : waiting'[k] \in Nat
      BY <1>0 DEF TraceTypes
    <3>3. IsFiniteSet({}) /\ Cardinality({}) = 0
      BY FS_EmptySet
    <3> QED
      BY <3>1, <3>2, <3>3 DEF PlacesInv
  <2>4. NoTraceForgotten'
    BY <1>0, <1>2, StillKnows DEF Facts
  <2>5. RecoveryOK'
    BY <1>2 DEF RecoveryOK
  <2> QED
    BY <1>0, <2>2, <2>3, <2>4, <2>5, StillFacts DEF TracesInv
<1> QED
  BY <1>1, <1>2 DEF Recover

\* The consumer learns from the trace it has read, or not, and is done with it.
LEMMA ConsumeFacts ==
    ASSUME TraceTypes, TraceTypes', Facts, Learn \/ PassOver \/ Done
    PROVE  Facts'
<1>0. /\ UNCHANGED <<trust, pc, cap, active, slots, queue, upload, serving>>
  BY DEF Learn, PassOver, Done, store, counters
<1>1. TracesInv' /\ RecoveryOK'
  <2>1. CASE Learn
    BY <1>0, <2>1, LearnKeeps DEF Facts, RecoveryOK, Learn, counters
  <2>2. CASE PassOver
    BY <1>0, <2>2, PassOverKeeps DEF Facts, RecoveryOK, PassOver, counters
  <2>3. CASE Done
    BY <1>0, <2>3, DoneKeeps DEF Facts, RecoveryOK
  <2> QED
    BY <2>1, <2>2, <2>3
<1>2. busy # Idle /\ busy \in BusySet /\ busy.id \in TraceIds
  BY BusyFacts DEF Learn, PassOver, Done, Idle
<1>3. NoTraceForgotten'
  <2>1. CASE Learn \/ PassOver
    <3>1. busy'.id = busy.id
      BY <1>2, <2>1 DEF Learn, PassOver, BusySet
    <3>2. \A t \in TraceIds : row'[t].status = row[t].status
      <4>1. CASE Learn
        BY <4>1 DEF Learn, store
      <4>2. CASE PassOver
        BY <1>2, <4>2 DEF PassOver, TraceTypes, Rows
      <4> QED
        BY <2>1, <4>1, <4>2
    <3> QED
      BY <1>0, <3>1, <3>2, StillKnows DEF Facts
  <2>2. CASE Done
    <3>1. /\ row'[busy.id].status \in {"done", "failed"}
          /\ \A t \in TraceIds : t # busy.id => row'[t] = row[t]
      BY <1>2, <2>2 DEF Done, TraceTypes, Rows
    <3>2. ASSUME NEW t \in TraceIds, t = busy.id
          PROVE  Known(t)'
      BY <3>1, <3>2 DEF Known
    <3> QED
      BY <1>0, <3>1, <3>2, StillKnows DEF Facts
  <2> QED
    BY <2>1, <2>2
<1> QED
  BY <1>0, <1>1, <1>3, StillFacts

\* An operator trusts a key, distrusts it, or revokes its open traces.
LEMMA TrustFacts ==
    ASSUME TraceTypes, Facts, NEW k \in Keys, SetTrusted(k) \/ Distrust(k) \/ RevokeOpen(k)
    PROVE  Facts'
<1>0. /\ UNCHANGED <<pc, cap, active, slots, waiting, queue, busy, upload, serving, learned>>
      /\ serving
  BY DEF SetTrusted, Distrust, RevokeOpen, counters, history
<1>1. RecoveryOK'
  BY <1>0 DEF RecoveryOK
<1>2. TracesInv'
  <2>1. CASE RevokeOpen(k)
    BY <2>1, RevokeKeeps DEF Facts
  <2>2. CASE SetTrusted(k) \/ Distrust(k)
    <3>1. row' = row /\ tainted' = tainted
      BY <2>2 DEF SetTrusted, Distrust, history
    <3>2. Calm
      BY <1>0, <3>1 DEF Calm, WorkId
    <3> QED
      BY <3>2, CalmKeeps DEF Facts
  <2> QED
    BY <2>1, <2>2
<1>3. NoTraceForgotten'
  <2>1. \A t \in TraceIds : row'[t].status \in {row[t].status} \cup Ended
    BY DEF SetTrusted, Distrust, RevokeOpen, TraceTypes, Rows, Ended, Statuses
  <2> QED
    BY <1>0, <2>1, StillKnows DEF Facts
<1> QED
  BY <1>0, <1>1, <1>2, <1>3, StillFacts

LEMMA DieFacts ==
    ASSUME TraceTypes, Facts, Die
    PROVE  Facts'
<1>1. (\A r \in Requests : CaptureOK(r))'
  BY Constants DEF Die, CaptureOK
<1> QED
  BY <1>1, DieKeeps DEF Facts

-----------------------------------------------------------------------------
(* Theorems.                                                                 *)

LEMMA TraceStart == TraceInit => TraceInv
<1> SUFFICES ASSUME TraceInit PROVE TraceInv
  OBVIOUS
<1>1. /\ \A p \in Procs : pc[p] = "idle"
      /\ \A t \in TraceIds : row[t].status = "none"
      /\ busy = Idle /\ serving = TRUE /\ tainted = {}
      /\ \A t \in TraceIds : learned[t] = 0 /\ busy.id # t
  BY Constants DEF TraceInit, NoRow, Idle
<1>2. UploadsOK /\ \A r \in Requests : CaptureOK(r) /\ ~Capturing(r)
  BY <1>1, Constants DEF UploadsOK, CaptureOK, Capturing
<1>3. SlotsInv
  <2>1. GoldenCaptures = {} /\ TrustedCaptures = {} /\ \A k \in Keys : KeyCaptures(k) = {}
    BY <1>2 DEF GoldenCaptures, TrustedCaptures, KeyCaptures
  <2>2. slots.golden = 0 /\ slots.trusted = 0 /\ \A k \in Keys : slots.key[k] = 0
    BY DEF TraceInit
  <2> QED
    BY <1>2, <2>1, <2>2, FS_EmptySet DEF SlotsInv
<1>4. OneHandler /\ ConsumerOK /\ RecoveryOK
  BY <1>1 DEF OneHandler, ConsumerOK, RecoveryOK, Bringing
<1>5. TracesOK /\ NoTraceForgotten
  BY <1>1 DEF TracesOK, LearnedOK, TaintedOK, GoldenOK, NoTraceForgotten
<1>6. PlacesInv
  <2>1. \A k \in Keys : Places(k) = {}
    BY <1>1 DEF Places
  <2>2. \A k \in Keys : waiting[k] = 0
    BY DEF TraceInit
  <2> QED
    BY <2>1, <2>2, FS_EmptySet DEF PlacesInv
<1> QED
  BY <1>2, <1>3, <1>4, <1>5, <1>6, TypesStart DEF TraceInv, Facts, TracesInv

LEMMA CaptureStepFacts ==
    ASSUME TraceTypes, Facts, NEW r \in Requests, CaptureStep(r)
    PROVE  Facts'
<1> USE DEF store, counters, history, bounds
<1>0. cap[r] \in Caps /\ r \in Procs
  BY Constants DEF TraceTypes
<1>1. ASSUME NEW t \in Ids, NEW c \in Keys, CheckId(r, t, c)
      PROVE  Facts'
  BY <1>1, CheckIdFacts
<1>2. ASSUME ClaimTraced(r)
      PROVE  Facts'
  <2> DEFINE c == [cap[r] EXCEPT !.status = "capturing"]
  <2>1. /\ c \in Caps /\ c.id = cap[r].id /\ c.golden = cap[r].golden
        /\ c.trusted = cap[r].trusted
    <3>1. c \in Caps
      BY <1>0, CaptureTypes
    <3>2. c.id = cap[r].id /\ c.golden = cap[r].golden /\ c.trusted = cap[r].trusted
      BY <1>0 DEF Caps
    <3> QED
      BY <3>1, <3>2
  <2>2. /\ pc[r] = "checked" /\ active[cap[r].id] = Nobody /\ Claimed(r, c)
    BY <1>2 DEF ClaimTraced
  <2>3. serving /\ ~cap[r].golden /\ cap[r].id \in Ids /\ cap[r].id \in TraceIds
    BY <1>0, <2>2, ServingNow, Constants DEF Facts, CaptureOK, Claimed
  <2>4. \A q \in Requests : Capturing(q) => cap[q].id # cap[r].id
    BY <2>2, Constants DEF Facts, SlotsInv
  <2> HIDE DEF c
  <2> QED
    BY <2>1, <2>2, <2>3, <2>4, ClaimFacts
<1>3. ASSUME NEW v \in Versions, NEW c \in Keys, ClaimGolden(r, v, c)
      PROVE  Facts'
  <2> DEFINE new == [NoCap EXCEPT !.id = r, !.key = c, !.trusted = TRUE, !.golden = TRUE,
                                  !.version = v, !.status = "capturing"]
  <2>1. new \in Caps /\ new.id = r /\ new.golden /\ new.trusted /\ r \in TraceIds
    BY <1>0, CaptureTypes, Constants DEF NoCap
  <2>2. pc[r] = "idle" /\ serving /\ Claimed(r, new)
    BY <1>3 DEF ClaimGolden
  <2>3. \A q \in Requests : Capturing(q) => cap[q].id # r
    BY <2>2, Constants DEF Facts, CaptureOK, Capturing
  <2> HIDE DEF new
  <2> QED
    BY <2>1, <2>2, <2>3, ClaimFacts
<1>4. ASSUME Untraced(r) \/ Finish(r) \/ Abort(r) \/ LeaveUnsealed(r) \/ SecondRelay(r)
      PROVE  Facts'
  <2>1. UNCHANGED <<row, cap, active, slots, waiting, queue, busy, upload, serving, learned,
                    tainted>>
    BY <1>4 DEF Untraced, Finish, Abort, LeaveUnsealed, SecondRelay, BeginSeal
  <2>2. \E l : /\ \/ pc[r] = "checked" /\ l = "ended"
                  \/ pc[r] = "capturing" /\ l \in {"sealing", "aborting", "left"}
                  \/ pc[r] = "answered" /\ l = "cut"
               /\ Goto(r, l)
    BY <1>4 DEF Untraced, Finish, Abort, LeaveUnsealed, SecondRelay, BeginSeal
  <2> QED
    BY <2>1, <2>2, MoveFacts
<1>5. ASSUME Panic(r)
      PROVE  Facts'
  <2>1. cap' = [cap EXCEPT ![r].status = cap[r].status, ![r].held = FALSE, ![r].result = "failed"]
    BY <1>0, <1>5 DEF Panic, Caps, TraceTypes
  <2>2. UNCHANGED <<row, active, slots, waiting, queue, busy, upload, serving, learned, tainted>>
        /\ pc[r] = "capturing" /\ Goto(r, "marked")
    BY <1>5 DEF Panic
  <2> QED
    BY <2>1, <2>2, MarkFacts
<1>6. ASSUME SecondStream(r)
      PROVE  Facts'
  BY <1>6, DieFacts DEF SecondStream
<1> QED
  BY <1>1, <1>2, <1>3, <1>4, <1>5, <1>6 DEF CaptureStep

LEMMA SealStepFacts ==
    ASSUME TraceTypes, Facts, NEW r \in Requests, SealStep(r) \/ Expire(r)
    PROVE  Facts'
<1> USE DEF store, counters, history, bounds
<1>0. cap[r] \in Caps /\ r \in Procs
  BY Constants DEF TraceTypes
<1>1. ASSUME MarkFailure(r)
      PROVE  Facts'
  <2>1. PICK s \in {"failed", "aborted"} : cap' = [cap EXCEPT ![r].status = s, ![r].result = s]
    BY <1>1 DEF MarkFailure
  <2>2. cap' = [cap EXCEPT ![r].status = s, ![r].held = cap[r].held, ![r].result = s]
    BY <1>0, <2>1 DEF Caps, TraceTypes
  <2>3. UNCHANGED <<row, active, slots, waiting, queue, busy, upload, serving, learned, tainted>>
        /\ pc[r] \in {"aborting", "broken"} /\ Goto(r, "marked")
    BY <1>1 DEF MarkFailure
  <2> QED
    BY <2>2, <2>3, MarkFacts
<1>2. ASSUME TakeHeld(r)
      PROVE  Facts'
  <2>1. /\ UNCHANGED <<row, active, slots, waiting, queue, busy, upload, serving, learned, tainted>>
        /\ pc[r] = "committed" /\ Goto(r, "taken")
        /\ \E s, x : /\ s = IF cap[r].golden THEN "queued" ELSE "open"
                     /\ cap' = [cap EXCEPT ![r].status = s, ![r].held = FALSE, ![r].result = x]
    BY <1>2 DEF TakeHeld
  <2> QED
    BY <2>1, MarkFacts
<1>3. ASSUME WriteFailure(r)
      PROVE  Facts'
  <2>1. cap[r].result \in Ended
    BY <1>3 DEF WriteFailure, Facts, CaptureOK, Ended, Statuses
  <2>2. /\ UNCHANGED <<cap, active, slots, waiting, queue, busy, upload, serving, learned, tainted>>
        /\ pc[r] = "unwritten" /\ Goto(r, "ended")
        /\ row' = [row EXCEPT ![cap[r].id].status = cap[r].result]
    BY <1>3 DEF WriteFailure
  <2> QED
    BY <2>1, <2>2, EndFacts
<1>4. ASSUME Expire(r)
      PROVE  Facts'
  <2>1. "expired" \in Ended
    BY DEF Ended, Statuses
  <2>2. /\ UNCHANGED <<cap, active, slots, waiting, queue, busy, upload, serving, learned, tainted>>
        /\ pc[r] \in {"held", "answered", "cut"} /\ pc' = pc
        /\ row' = [row EXCEPT ![cap[r].id].status = "expired"]
    BY <1>4 DEF Expire, Moved
  <2>3. Goto(r, pc[r])
    BY <2>2 DEF Goto, TraceTypes
  <2> QED
    BY <2>1, <2>2, <2>3, EndFacts
<1> QED
  BY <1>1, <1>2, <1>3, <1>4, CommitFacts, ReleaseFailedFacts, ReleaseSealedFacts, ProcessHeldFacts
     DEF SealStep

LEMMA TraceStep == TraceInv /\ [TraceNext]_traceVars => TraceInv'
<1> SUFFICES ASSUME TraceInv, [TraceNext]_traceVars PROVE TraceInv'
  OBVIOUS
<1> USE DEF TraceInv
<1>1. CASE UNCHANGED traceVars
  <2> USE <1>1 DEF traceVars, store, counters, history, bounds
  <2>1. TraceTypes' /\ UploadsOK'
    BY DEF TraceTypes, UploadsOK
  <2>2. Calm
    BY DEF Calm, WorkId
  <2>3. TracesInv' /\ RecoveryOK'
    BY <2>2, CalmKeeps DEF Facts, RecoveryOK
  <2>4. NoTraceForgotten'
    BY StillKnows DEF Facts
  <2> QED
    BY <2>1, <2>3, <2>4, StillFacts
<1>2. CASE TraceNext
  <2>1. TraceTypes'
    BY <1>2, TypesKept DEF Facts, TracesInv
  <2>2. UploadsOK'
    BY <1>2, UploadsKept
  <2>3. Facts'
    <3>1. ASSUME NEW r \in Requests, CaptureStep(r) \/ SealStep(r) \/ Expire(r)
          PROVE  Facts'
      BY <3>1, CaptureStepFacts, SealStepFacts
    <3>2. ASSUME NEW u \in Uploads,
                 \/ \E t \in TraceIds, c \in Keys : Submit(u, t, c)
                 \/ Hold(u) \/ SubmitOpen(u)
          PROVE  Facts'
      BY <3>2, SubmitFacts, HoldFacts, SubmitOpenFacts
    <3>3. ASSUME NEW p \in Procs, HalfStep(p)
          PROVE  Facts'
      BY <3>3, HalfFacts
    <3>4. CASE ConsumerStep
      BY <2>1, <3>4, TakeFacts, RecoverFacts, ConsumeFacts DEF ConsumerStep
    <3>5. ASSUME NEW k \in Keys, SetTrusted(k) \/ Distrust(k) \/ RevokeOpen(k)
          PROVE  Facts'
      BY <3>5, TrustFacts
    <3>6. CASE Crash
      BY <3>6, DieFacts DEF Crash
    <3> QED
      BY <1>2, <3>1, <3>2, <3>3, <3>4, <3>5, <3>6 DEF TraceNext
  <2> QED
    BY <2>1, <2>2, <2>3
<1> QED
  BY <1>1, <1>2

\* The invariant of contract traces is an invariant, for every value of the constants.
THEOREM TracesInvariant == TraceSpec => []TraceInv
<1>1. TraceInit => TraceInv
  BY TraceStart
<1>2. TraceInv /\ [TraceNext]_traceVars => TraceInv'
  BY TraceStep
<1> QED
  BY <1>1, <1>2, PTL DEF TraceSpec

\* Each capture under way holds one slot of its kind, and no slot is held otherwise.
THEOREM SlotsAreCaptures == TraceSpec => []SlotsMatchCaptures
<1>1. TraceInv => SlotsMatchCaptures
  BY DEF TraceInv, Facts, SlotsInv, SlotsMatchCaptures, GoldenCaptures, TrustedCaptures, KeyCaptures
<1> QED
  BY <1>1, TracesInvariant, PTL

\* An untrusted key never has more traces waiting for the consumer than places.
THEOREM QueueIsCounted == TraceSpec => []QueuedAreCounted
<1>1. TraceInv => QueuedAreCounted
  <2> SUFFICES ASSUME TraceInv, serving, NEW k \in Keys
               PROVE  Cardinality({t \in TraceIds : /\ row[t].key = k /\ ~row[t].trusted
                                      /\ row[t].status = "queued" /\ busy.id # t}) <= waiting[k]
    BY DEF QueuedAreCounted
  <2> DEFINE queued == {t \in TraceIds : /\ row[t].key = k /\ ~row[t].trusted
                                         /\ row[t].status = "queued" /\ busy.id # t}
  <2>1. IsFiniteSet(Places(k)) /\ Cardinality(Places(k)) <= waiting[k] /\ waiting[k] \in Nat
    BY DEF TraceInv, Facts, TracesInv, PlacesInv, TraceTypes
  <2>2. queued \subseteq Places(k)
    BY DEF Places
  <2>3. IsFiniteSet(queued) /\ Cardinality(queued) <= Cardinality(Places(k))
    BY <2>1, <2>2, FS_Subset
  <2>4. Cardinality(queued) \in Nat /\ Cardinality(Places(k)) \in Nat
    BY <2>1, <2>3, FS_CardinalityType
  <2> QED
    BY <2>1, <2>3, <2>4
<1> QED
  BY <1>1, TracesInvariant, PTL

\* Nothing is learned twice in one life of the process, nor from a trace that was
\* opened without trust or revoked while it was open.
THEOREM LearnsFromTrusted == TraceSpec => []OnlyTrustedLearned
<1>1. TraceInv => OnlyTrustedLearned
  BY DEF TraceInv, Facts, TracesInv, TracesOK, LearnedOK, OnlyTrustedLearned
<1> QED
  BY <1>1, TracesInvariant, PTL

\* A trace that is open, reduced or queued is known to whoever takes its next step.
THEOREM TracesAreKnown == TraceSpec => []NoTraceForgotten
<1>1. TraceInv => NoTraceForgotten
  BY DEF TraceInv, Facts
<1> QED
  BY <1>1, TracesInvariant, PTL
=============================================================================
