--------------------------- MODULE ContractTraces ---------------------------
(***************************************************************************)
(* The life of a contract trace (internal/contract).                         *)
(*                                                                         *)
(* A request claims a slot and is captured (capture.go); sealing it stores   *)
(* its shapes.  The client tool then uploads its half, or uploaded it        *)
(* before.  A trace with both halves enters a bounded queue that one         *)
(* consumer empties (consumer.go), learning from traces of trusted callers   *)
(* alone.  The rows survive a crash; slots, held halves, the places of a key *)
(* in the queue and the queue do not.                                        *)
(***************************************************************************)
EXTENDS Integers, Sequences, FiniteSets

CONSTANTS
    Requests,        \* requests of one life of the process
    Uploads,         \* uploads of a client tool's half
    Ids,             \* trace ids that callers name
    Keys,            \* callers: API keys, or a session, whose trust never changes
    Versions,        \* versions of a coding tool, for golden samples
    MaxSlots,        \* MaxTracedSlots
    KeySlots,        \* MaxUntrustedSlotsPerKey
    KeyQueue,        \* MaxUntrustedQueuePerKey
    GoldenSlots,     \* MaxGoldenSlots
    GoldenSamples,   \* MaxGoldenSamplesPerDay
    GoldenVersions,  \* MaxGoldenVersionsPerTool
    QueueSize,       \* the length of the consumer's queue
    MaxTrustChanges, \* bound: times an operator changes a key's trust
    MaxCrashes       \* bound: crashes of the process

Nobody == "nobody"
NoId   == "noid"

TraceIds == Ids \cup Requests           \* a golden trace's id is its own
Procs    == Requests \cup Uploads

ASSUME ContractAssumption ==
    /\ Ids \cap Procs = {} /\ Requests \cap Uploads = {}
    /\ Keys # {} /\ Nobody \notin Procs /\ NoId \notin TraceIds
    /\ \A n \in {MaxSlots, KeySlots, KeyQueue, GoldenSlots, GoldenSamples, GoldenVersions,
                 QueueSize, MaxTrustChanges, MaxCrashes} : n \in Nat

VARIABLES
    row,        \* the contract_traces rows, and whether the client's half is stored
    trust,      \* the trusted flag of each key
    pc,         \* where each request and upload is
    cap,        \* the capture of each request
    active,     \* activeCaptures
    slots,      \* the slots in use: trusted, untrusted, golden, and per key
    samples,    \* golden samples of the day, per version
    seen,       \* versions sampled that day
    waiting,    \* untrustedQueue: places of a key in the queue
    queue,      \* the consumer's channel
    busy,       \* what the consumer works on
    upload,     \* the trace and the caller of each upload
    serving,    \* FALSE while a new process recovers
    changes, crashes,
    learned,    \* history: times each trace was learned from in this life
    tainted     \* history: traces whose caller was not trusted when it mattered

store      == <<row, trust>>
counters   == <<slots, samples, seen, waiting>>
history    == <<learned, tainted>>
bounds     == <<changes, crashes>>
traceVars  == <<store, pc, cap, active, counters, queue, busy, upload, serving, bounds, history>>

Statuses == {"none", "capturing", "open", "reducing", "queued", "done", "expired", "lost",
             "failed", "aborted", "dropped", "revoked"}
Ended    == Statuses \ {"none", "capturing", "open", "reducing", "queued"}

NoKey  == CHOOSE k \in Keys : TRUE       \* of a row or a capture that is not there
NoRow  == [status |-> "none", key |-> NoKey, trusted |-> FALSE, half |-> FALSE]
NoCap  == [id |-> NoId, key |-> NoKey, trusted |-> FALSE, golden |-> FALSE, version |-> NoId,
           status |-> "none", held |-> FALSE, result |-> "none"]
Idle   == [pc |-> "idle", id |-> NoId, trusted |-> FALSE]

IsTrusted(c) == trust[c]   \* isCallerTrusted, IsKeyTrusted

TraceInit ==
    /\ row = [t \in TraceIds |-> NoRow]
    /\ trust \in [Keys -> BOOLEAN]
    /\ pc = [p \in Procs |-> "idle"]
    /\ cap = [r \in Requests |-> NoCap]
    /\ active = [t \in TraceIds |-> Nobody]
    /\ slots = [trusted |-> 0, untrusted |-> 0, golden |-> 0, key |-> [k \in Keys |-> 0]]
    /\ samples = [v \in Versions |-> 0] /\ seen = {}
    /\ waiting = [k \in Keys |-> 0]
    /\ queue = <<>> /\ busy = Idle
    /\ upload = [u \in Uploads |-> [id |-> NoId, key |-> NoKey, found |-> Nobody]]
    /\ serving = TRUE
    /\ changes = 0 /\ crashes = 0
    /\ learned = [t \in TraceIds |-> 0] /\ tainted = {}

Goto(p, l) == pc' = [pc EXCEPT ![p] = l]

\* UpdateContractTraceStatusCAS: whether it found the row as expected is the guard.
Moved(t, from, to) == row[t].status = from /\ row' = [row EXCEPT ![t].status = to]

-----------------------------------------------------------------------------
(* Slots.                                                                   *)

SlotFree(c, trusted) ==
    IF trusted THEN slots.trusted < MaxSlots
    ELSE slots.untrusted < MaxSlots /\ slots.key[c] < KeySlots

Counted(c, by) ==
    IF c.golden THEN [slots EXCEPT !.golden = @ + by]
    ELSE IF c.trusted THEN [slots EXCEPT !.trusted = @ + by]
    ELSE [slots EXCEPT !.untrusted = @ + by, !.key[c.key] = @ + by]

\* Slips of the code that the properties must notice.
ReleaseByTrustNow(r, failed) ==
    /\ slots' = Counted([cap[r] EXCEPT !.trusted = IsTrusted(cap[r].key)], -1)
    /\ samples' = samples
    /\ active' = [active EXCEPT ![cap[r].id] = Nobody]
    /\ UNCHANGED <<seen, waiting>>

GoldenFree(v) ==
    /\ slots.golden < GoldenSlots
    /\ samples[v] < GoldenSamples
    /\ v \in seen \/ Cardinality(seen) < GoldenVersions

\* A sample that failed is given back; the version stays counted.
ReleaseSlots(r, failed) ==
    /\ slots' = Counted(cap[r], -1)
    /\ samples' = IF cap[r].golden /\ failed
                  THEN [samples EXCEPT ![cap[r].version] = @ - 1] ELSE samples
    /\ active' = [active EXCEPT ![cap[r].id] = Nobody]
    /\ UNCHANGED <<seen, waiting>>

-----------------------------------------------------------------------------
(* The capture of a request.                                                *)

\* The id is looked up before the lock is taken.
CheckId(r, t, c) ==
    /\ serving /\ pc[r] = "idle" /\ row[t].status = "none"
    /\ cap' = [cap EXCEPT ![r] = [NoCap EXCEPT !.id = t, !.key = c, !.trusted = IsTrusted(c)]]
    /\ Goto(r, "checked")
    /\ UNCHANGED <<store, active, counters, queue, busy, upload, serving, bounds, history>>

\* InsertContractTrace fails, unnoticed, when the id has a row by now.
Claimed(r, c) ==
    /\ cap' = [cap EXCEPT ![r] = c]
    /\ active' = [active EXCEPT ![c.id] = r]
    /\ slots' = Counted(c, 1)
    /\ row' = IF row[c.id].status = "none"
              THEN [row EXCEPT ![c.id] = [NoRow EXCEPT !.status = "capturing", !.key = c.key,
                                                       !.trusted = c.trusted]]
              ELSE row
    /\ tainted' = IF c.trusted \/ row[c.id].status # "none" THEN tainted ELSE tainted \cup {c.id}
    /\ Goto(r, "capturing")
    /\ UNCHANGED <<trust, waiting, queue, busy, upload, serving, bounds, learned>>

ClaimTraced(r) ==
    /\ pc[r] = "checked" /\ active[cap[r].id] = Nobody /\ SlotFree(cap[r].key, cap[r].trusted)
    /\ Claimed(r, [cap[r] EXCEPT !.status = "capturing"])
    /\ UNCHANGED <<samples, seen>>

Untraced(r) ==
    /\ pc[r] = "checked"
    /\ active[cap[r].id] # Nobody \/ ~SlotFree(cap[r].key, cap[r].trusted)
    /\ Goto(r, "ended")
    /\ UNCHANGED <<store, cap, active, counters, queue, busy, upload, serving, bounds, history>>

ClaimGolden(r, v, c) ==
    /\ serving /\ pc[r] = "idle" /\ IsTrusted(c) /\ GoldenFree(v)
    /\ samples' = [samples EXCEPT ![v] = @ + 1] /\ seen' = seen \cup {v}
    /\ Claimed(r, [NoCap EXCEPT !.id = r, !.key = c, !.trusted = TRUE, !.golden = TRUE,
                                !.version = v, !.status = "capturing"])

\* v1's ends without an answer, a relay that failed, and a panic: each marks the
\* capture sealed at once, so the others find nothing to do.
BeginSeal(r, to) ==
    /\ pc[r] = "capturing" /\ Goto(r, to)
    /\ UNCHANGED <<store, cap, active, counters, queue, busy, upload, serving, bounds, history>>
Finish(r) == BeginSeal(r, "sealing")
Abort(r)  == BeginSeal(r, "aborting")

\* The capture's status is not changed: an upload may still be told that it is held.
Panic(r) ==
    /\ pc[r] = "capturing" /\ Goto(r, "marked")
    /\ cap' = [cap EXCEPT ![r].held = FALSE, ![r].result = "failed"]
    /\ UNCHANGED <<store, active, counters, queue, busy, upload, serving, bounds, history>>

\* A request for server tools that cannot be prepared is refused past every release.
LeaveUnsealed(r) ==
    /\ pc[r] = "capturing" /\ Goto(r, "left")
    /\ UNCHANGED <<store, cap, active, counters, queue, busy, upload, serving, bounds, history>>

\* CommitIntactShapesAndSeal
CommitShapes(r) ==
    /\ pc[r] = "sealing"
    /\ IF row[cap[r].id].status = "capturing"
       THEN /\ row' = [row EXCEPT ![cap[r].id].status = IF cap[r].golden THEN "queued" ELSE "open"]
            /\ Goto(r, "committed")
       ELSE Goto(r, "broken") /\ UNCHANGED row
    /\ UNCHANGED <<trust, cap, active, counters, queue, busy, upload, serving, bounds, history>>

MarkFailure(r) ==
    /\ pc[r] \in {"aborting", "broken"}
    /\ LET s == IF pc[r] = "broken" THEN "failed" ELSE "aborted"
       IN  cap' = [cap EXCEPT ![r].status = s, ![r].result = s]
    /\ Goto(r, "marked")
    /\ UNCHANGED <<store, active, counters, queue, busy, upload, serving, bounds, history>>

ReleaseFailed(r) ==
    /\ pc[r] = "marked"
    /\ ReleaseSlots(r, cap[r].status # "failed")
    /\ Goto(r, "unwritten")
    /\ UNCHANGED <<store, cap, queue, busy, upload, serving, bounds, history>>

WriteFailure(r) ==
    /\ pc[r] = "unwritten"
    /\ row' = [row EXCEPT ![cap[r].id].status = cap[r].result]
    /\ Goto(r, "ended")
    /\ UNCHANGED <<trust, cap, active, counters, queue, busy, upload, serving, bounds, history>>

\* From here on an upload goes to the row; one held before is taken over.
TakeHeld(r) ==
    /\ pc[r] = "committed"
    /\ cap' = [cap EXCEPT ![r].status = IF cap[r].golden THEN "queued" ELSE "open",
                          ![r].held = FALSE,
                          ![r].result = IF cap[r].held THEN "half" ELSE "none"]
    /\ Goto(r, "taken")
    /\ UNCHANGED <<store, active, counters, queue, busy, upload, serving, bounds, history>>

\* A slip of the code that the properties must notice.
EnqueueOrForget(t, rows) ==
    /\ queue' = IF Len(queue) < QueueSize THEN Append(queue, t) ELSE queue
    /\ row' = rows

\* A full queue drops the trace; its key's place in the queue is not given back.
Enqueue(t, rows) ==
    IF Len(queue) < QueueSize
    THEN queue' = Append(queue, t) /\ row' = rows
    ELSE row' = [rows EXCEPT ![t].status = "dropped"] /\ UNCHANGED queue

\* The slots come back; a golden trace is enqueued, the others await their half.
ReleaseSealed(r) ==
    /\ pc[r] = "taken"
    /\ ReleaseSlots(r, FALSE)
    /\ IF cap[r].golden
       THEN Enqueue(cap[r].id, row) /\ Goto(r, "answered")
       ELSE /\ Goto(r, IF cap[r].result = "half" THEN "held" ELSE "answered")
            /\ UNCHANGED <<row, queue>>
    /\ UNCHANGED <<trust, cap, busy, upload, serving, bounds, history>>

ProcessHeld(r) ==
    /\ pc[r] = "held"
    /\ \/ Moved(cap[r].id, "open", "reducing") /\ Goto(r, "reducing")
       \/ row[cap[r].id].status # "open" /\ Goto(r, "answered") /\ UNCHANGED row
    /\ UNCHANGED <<trust, cap, active, counters, queue, busy, upload, serving, bounds, history>>

\* Thirty minutes after the seal.
Expire(r) ==
    /\ pc[r] \in {"held", "answered", "cut"} /\ cap[r].status = "open"
    /\ Moved(cap[r].id, "open", "expired")
    /\ UNCHANGED <<trust, pc, cap, active, counters, queue, busy, upload, serving, bounds,
                   history>>

-----------------------------------------------------------------------------
(* The client's half: an upload, or one held until the seal.                *)

\* The trace is read, then whether a half is stored, then the active capture.
Submit(u, t, c) ==
    /\ serving /\ pc[u] = "idle" /\ row[t].status # "none" /\ row[t].key = c
    /\ IF row[t].half THEN Goto(u, "conflict") ELSE Goto(u, "submitted")
    /\ upload' = [upload EXCEPT ![u] = [id |-> t, key |-> c, found |-> active[t]]]
    /\ UNCHANGED <<store, cap, active, counters, queue, busy, serving, bounds, history>>

\* The capture the upload found, as it is by now.
Found(u) == IF upload[u].found = Nobody THEN NoCap ELSE cap[upload[u].found]

Hold(u) ==
    /\ pc[u] = "submitted"
    /\ \/ Found(u).held /\ Goto(u, "conflict") /\ UNCHANGED cap
       \/ /\ ~Found(u).held /\ Found(u).status = "capturing"
          /\ cap' = [cap EXCEPT ![upload[u].found].held = TRUE]
          /\ Goto(u, "accepted")
    /\ UNCHANGED <<store, active, counters, queue, busy, upload, serving, bounds, history>>

SubmitOpen(u) ==
    /\ pc[u] = "submitted" /\ ~Found(u).held /\ Found(u).status # "capturing"
    /\ \/ Moved(upload[u].id, "open", "reducing") /\ Goto(u, "reducing")
       \/ row[upload[u].id].status # "open" /\ Goto(u, "toolate") /\ UNCHANGED row
    /\ UNCHANGED <<trust, cap, active, counters, queue, busy, upload, serving, bounds, history>>

WorkId(p)  == IF p \in Uploads THEN upload[p].id ELSE cap[p].id
WorkKey(p) == row[WorkId(p)].key
WorkEnd(p) == IF p \in Uploads THEN "accepted" ELSE "answered"

\* Trust is asked again; a trace that lost it never has it back.
StoreHalf(p) ==
    /\ pc[p] = "reducing"
    /\ row' = [row EXCEPT ![WorkId(p)].half = TRUE,
                          ![WorkId(p)].trusted = @ /\ IsTrusted(WorkKey(p))]
    /\ Goto(p, IF row'[WorkId(p)].trusted THEN "counted" ELSE "stored")
    /\ UNCHANGED <<trust, cap, active, counters, queue, busy, upload, serving, bounds, history>>

\* A slip of the code that the properties must notice.
TakesNoPlace(p) ==
    /\ pc[p] = "stored" /\ Goto(p, "counted")
    /\ UNCHANGED <<store, cap, active, counters, queue, busy, upload, serving, bounds, history>>

TakePlace(p) ==
    /\ pc[p] = "stored"
    /\ IF waiting[WorkKey(p)] < KeyQueue
       THEN /\ waiting' = [waiting EXCEPT ![WorkKey(p)] = @ + 1]
            /\ Goto(p, "counted") /\ UNCHANGED row
       ELSE /\ row' = [row EXCEPT ![WorkId(p)].status = "dropped"]
            /\ Goto(p, WorkEnd(p)) /\ UNCHANGED waiting
    /\ UNCHANGED <<trust, cap, active, slots, samples, seen, queue, busy, upload, serving, bounds,
                   history>>

QueueTrace(p) ==
    /\ pc[p] = "counted" /\ Goto(p, WorkEnd(p))
    /\ IF row[WorkId(p)].status = "reducing"
       THEN Enqueue(WorkId(p), [row EXCEPT ![WorkId(p)].status = "queued"])
       ELSE UNCHANGED <<row, queue>>
    /\ UNCHANGED <<trust, cap, active, counters, busy, upload, serving, bounds, history>>

-----------------------------------------------------------------------------
(* The consumer.                                                            *)

Working(t) == [pc |-> "read", id |-> t, trusted |-> row[t].trusted]

\* A trace that is not queued any more is passed over.
Take ==
    /\ serving /\ busy = Idle /\ queue # <<>>
    /\ queue' = Tail(queue)
    /\ busy' = IF row[Head(queue)].status = "queued" THEN Working(Head(queue)) ELSE Idle
    /\ UNCHANGED <<store, pc, cap, active, counters, upload, serving, bounds, history>>

\* StartupRecovery, which skips the queue; then the process serves.
Recover ==
    /\ ~serving /\ busy = Idle
    /\ \/ \E t \in TraceIds : row[t].status = "queued" /\ busy' = Working(t) /\ UNCHANGED serving
       \/ /\ \A t \in TraceIds : row[t].status # "queued"
          /\ serving' = TRUE /\ UNCHANGED busy
    /\ UNCHANGED <<store, pc, cap, active, counters, queue, upload, bounds, history>>

IsGolden(t) == t \in Requests
\* A slip of the code that the properties must notice.
MayLearnNow(t) == IsGolden(t) \/ IsTrusted(row[t].key)

MayLearn(t) == IsGolden(t) \/ (busy.trusted /\ IsTrusted(row[t].key))

Learn ==
    /\ busy.pc = "read" /\ MayLearn(busy.id)
    /\ learned' = [learned EXCEPT ![busy.id] = @ + 1]
    /\ busy' = [busy EXCEPT !.pc = "learned"]
    /\ UNCHANGED <<store, pc, cap, active, counters, queue, upload, serving, bounds, tainted>>

PassOver ==
    /\ busy.pc = "read" /\ ~MayLearn(busy.id)
    /\ row' = [row EXCEPT ![busy.id].trusted = FALSE]
    /\ busy' = [busy EXCEPT !.pc = "learned"]
    /\ UNCHANGED <<trust, pc, cap, active, counters, queue, upload, serving, bounds, history>>

\* ReleaseQueueSlot, with the trust of the row as the consumer read it.
PlaceBack ==
    waiting' = IF ~busy.trusted /\ waiting[row[busy.id].key] > 0
               THEN [waiting EXCEPT ![row[busy.id].key] = @ - 1] ELSE waiting

\* A panic of the consumer unwinds through the same release.
Done ==
    /\ busy.pc = "learned"
    /\ \E s \in {"done", "failed"} : row' = [row EXCEPT ![busy.id].status = s]
    /\ PlaceBack
    /\ busy' = Idle
    /\ UNCHANGED <<trust, pc, cap, active, slots, samples, seen, queue, upload, serving, bounds,
                   history>>

-----------------------------------------------------------------------------
(* Trust, crashes, server tools.                                            *)

\* Two statements: the flag, then the rows that are open.
SetTrusted(k) ==
    /\ serving /\ changes < MaxTrustChanges /\ changes' = changes + 1
    /\ trust' = [trust EXCEPT ![k] = TRUE]
    /\ UNCHANGED <<row, pc, cap, active, counters, queue, busy, upload, serving, crashes, history>>

Distrust(k) ==
    /\ serving /\ changes < MaxTrustChanges /\ changes' = changes + 1
    /\ trust' = [trust EXCEPT ![k] = FALSE]
    /\ UNCHANGED <<row, pc, cap, active, counters, queue, busy, upload, serving, crashes, history>>

RevokeOpen(k) ==
    /\ serving /\ ~trust[k]
    /\ \E t \in TraceIds : row[t].key = k /\ row[t].status = "open"
    /\ row' = [t \in TraceIds |-> IF row[t].key = k /\ row[t].status = "open"
                                  THEN [row[t] EXCEPT !.status = "revoked"] ELSE row[t]]
    /\ tainted' = tainted \cup {t \in TraceIds : row[t].key = k /\ row[t].status = "open"}
    /\ UNCHANGED <<trust, pc, cap, active, counters, queue, busy, upload, serving, bounds, learned>>

\* ResetStartupTraces is the first thing the next process does.
Die ==
    /\ crashes < MaxCrashes /\ crashes' = crashes + 1
    /\ row' = [t \in TraceIds |-> IF row[t].status \in {"capturing", "open", "reducing"}
                                  THEN [row[t] EXCEPT !.status = "lost"] ELSE row[t]]
    /\ pc' = [p \in Procs |-> IF pc[p] = "idle" THEN "idle" ELSE "gone"]
    /\ cap' = [r \in Requests |-> NoCap]
    /\ active' = [t \in TraceIds |-> Nobody]
    /\ slots' = [trusted |-> 0, untrusted |-> 0, golden |-> 0, key |-> [k \in Keys |-> 0]]
    /\ samples' = [v \in Versions |-> 0] /\ seen' = {}
    /\ waiting' = [k \in Keys |-> 0]
    /\ queue' = <<>> /\ busy' = Idle /\ serving' = FALSE
    /\ upload' = [u \in Uploads |-> [id |-> NoId, key |-> NoKey, found |-> Nobody]]
    /\ learned' = [t \in TraceIds |-> 0]
    /\ UNCHANGED <<trust, changes, tainted>>

Crash == serving /\ Die

\* Server tools send a second request of the same caller through the same capture,
\* which closes ProducerDone again: the handler panics, or the whole process when
\* it is the goroutine that reads the provider's stream.
SecondRelay(r) ==
    /\ pc[r] = "answered"
    /\ Goto(r, "cut")
    /\ UNCHANGED <<store, cap, active, counters, queue, busy, upload, serving, bounds, history>>
SecondStream(r) == pc[r] = "answered" /\ serving /\ Die

-----------------------------------------------------------------------------
CaptureStep(r) ==
    \/ \E t \in Ids, c \in Keys : CheckId(r, t, c)
    \/ ClaimTraced(r) \/ Untraced(r)
    \/ \E v \in Versions, c \in Keys : ClaimGolden(r, v, c)
    \/ Finish(r) \/ Abort(r) \/ Panic(r) \/ LeaveUnsealed(r)
    \/ SecondRelay(r) \/ SecondStream(r)

SealStep(r) ==
    \/ CommitShapes(r) \/ MarkFailure(r) \/ ReleaseFailed(r) \/ WriteFailure(r)
    \/ TakeHeld(r) \/ ReleaseSealed(r) \/ ProcessHeld(r)

HalfStep(p) == StoreHalf(p) \/ TakePlace(p) \/ QueueTrace(p)

ConsumerStep == Take \/ Recover \/ Learn \/ PassOver \/ Done

TraceNext ==
    \/ \E r \in Requests : CaptureStep(r) \/ SealStep(r) \/ Expire(r)
    \/ \E u \in Uploads : \/ \E t \in TraceIds, c \in Keys : Submit(u, t, c)
                          \/ Hold(u) \/ SubmitOpen(u)
    \/ \E p \in Procs : HalfStep(p)
    \/ ConsumerStep
    \/ \E k \in Keys : SetTrusted(k) \/ Distrust(k) \/ RevokeOpen(k)
    \/ Crash

TraceSpec == TraceInit /\ [][TraceNext]_traceVars

-----------------------------------------------------------------------------
(* Properties.                                                              *)

\* Rows, counters and places have the values the code gives them.
TraceTypeOK ==
    /\ \A t \in TraceIds : row[t].status \in Statuses /\ row[t].key \in Keys
    /\ \A k \in Keys : waiting[k] \in 0 .. KeyQueue /\ slots.key[k] \in 0 .. KeySlots
    /\ slots.trusted \in 0 .. MaxSlots /\ slots.untrusted \in 0 .. MaxSlots
    /\ slots.golden \in 0 .. GoldenSlots
    /\ \A v \in Versions : samples[v] \in 0 .. GoldenSamples
    /\ Cardinality(seen) <= GoldenVersions
    /\ Len(queue) <= QueueSize

Capturing(r) == pc[r] \in {"capturing", "sealing", "aborting", "broken", "marked", "committed",
                           "taken", "left"}

\* Each capture under way holds one slot of its kind and no other slot is held,
\* whichever of a seal, an abort or a panic ends it (capture.go:350).
SlotsMatchCaptures ==
    /\ slots.golden = Cardinality({r \in Requests : Capturing(r) /\ cap[r].golden})
    /\ slots.trusted = Cardinality({r \in Requests : Capturing(r) /\ ~cap[r].golden
                                                     /\ cap[r].trusted})
    /\ \A k \in Keys : slots.key[k] = Cardinality({r \in Requests :
                            Capturing(r) /\ cap[r].key = k /\ ~cap[r].trusted})
    /\ \A r \in Requests : Capturing(r) => active[cap[r].id] = r

\* The traces of an untrusted key that wait for the consumer never outnumber the
\* places the key has in the queue, so it cannot fill it (capture.go:583).
QueuedAreCounted ==
    \A k \in Keys : serving =>
        Cardinality({t \in TraceIds : /\ row[t].key = k /\ ~row[t].trusted
                                      /\ row[t].status = "queued" /\ busy.id # t}) <= waiting[k]

\* Nothing is learned, judged or found from a trace that its caller opened without
\* trust or that was revoked while open, whatever becomes of the key later, and from
\* no trace twice in the life of a process (consumer.go:169).
OnlyTrustedLearned ==
    \A t \in TraceIds : learned[t] <= 1 /\ (learned[t] > 0 => t \notin tainted)

\* Whoever must take the next step of a trace knows of it.
Handles(p, t) == /\ WorkId(p) = t
                 /\ pc[p] \in {"reducing", "stored", "counted"}
Sealing(t)    == \E r \in Requests : cap[r].id = t /\ pc[r] \in {"committed", "taken"}
Awaited(t)    == \E r \in Requests : /\ cap[r].id = t /\ cap[r].status = "open"
                                     /\ pc[r] \in {"held", "answered", "cut"}

\* No trace is forgotten once its capture is sealed: one that is open has a timer,
\* one that is reduced a goroutine that will queue it, and a queued one is in the
\* queue, at the consumer, or found again by the next process (capture.go:470,
\* consumer.go:67, consumer.go:90).
NoTraceForgotten ==
    \A t \in TraceIds :
        /\ row[t].status = "open" => Sealing(t) \/ Awaited(t)
        /\ row[t].status = "reducing" => \E p \in Procs : Handles(p, t)
        /\ row[t].status = "queued" => \/ ~serving \/ busy.id = t
                                       \/ \E i \in 1 .. Len(queue) : queue[i] = t
                                       \/ IsGolden(t) /\ Sealing(t)

\* README: the loop runs the tools Anthropic runs on its own servers.  A request
\* that is captured is answered to its end.
ToolLoopSurvives == \A r \in Requests : pc[r] # "cut"

\* docs/api.md: a second upload returns 409.
\* The code does not keep this (README.md, Disagreements found).
SecondUploadConflicts ==
    \A u1, u2 \in Uploads :
        pc[u1] = "accepted" /\ pc[u2] = "accepted" /\ upload[u1].id = upload[u2].id => u1 = u2
=============================================================================
