----------------------------- MODULE QuotaCache -----------------------------
(***************************************************************************)
(* The quota of one account, as intact remembers it (httpapi/quota.go).     *)
(*                                                                         *)
(* A read of the provider's quota takes a number when it begins and is kept *)
(* only if nothing later was kept before it ends.  Readers share one read,  *)
(* a flight, unless the operator asks for a read of its own.  A claim of a  *)
(* reset invalidates everything that began before it.                      *)
(*                                                                         *)
(* What a read brings is left out: a read is its number.                   *)
(***************************************************************************)
EXTENDS Integers, FiniteSets

CONSTANTS
    Readers,    \* pages, tools and checks of a 429 that ask for the quota
    Claimers,   \* claims of a reset that read it for themselves
    MaxSeq      \* bound: the number after which no read begins

ASSUME QuotaAssumption ==
    /\ Readers \cap Claimers = {}
    /\ MaxSeq \in Nat

VARIABLES
    seq,          \* the last number taken
    cache,        \* the read that is kept
    expired,      \* it is older than a minute
    highWater,    \* nothing up to this number may be kept any more
    flight,       \* the flight readers may join
    running,      \* flights under way, the superseded ones too
    joined,       \* the flight a reader waits for
    reading,      \* the read a reader or a claim makes for itself
    given,        \* history: the read a reader was given last
    since,        \* history: the last invalidation before a reader asked
    invalidated   \* history: the last invalidation

cacheVars  == <<seq, cache, expired, highWater, flight, running, invalidated>>
readerVars == <<joined, reading, given, since>>
quotaVars  == <<cacheVars, readerVars>>

None == 0

QuotaInit ==
    /\ seq = 0 /\ cache = None /\ expired = FALSE /\ highWater = 0
    /\ flight = None /\ running = {} /\ invalidated = 0
    /\ joined = [r \in Readers |-> None]
    /\ reading = [c \in Readers \cup Claimers |-> None]
    /\ given = [r \in Readers |-> None]
    /\ since = [r \in Readers |-> 0]

Idle(r) == joined[r] = None /\ reading[r] = None

Number == seq' = seq + 1
Room   == seq < MaxSeq

\* The read n is kept, unless a later one was or a claim came between.
Keep(n) ==
    IF n > highWater
    THEN highWater' = n /\ cache' = n /\ expired' = FALSE
    ELSE UNCHANGED <<highWater, cache, expired>>

-----------------------------------------------------------------------------
(* quotaFor, without refresh. *)

Asks(r) == since' = [since EXCEPT ![r] = invalidated]

Give(r, n) == given' = [given EXCEPT ![r] = n]

Hit == cache # None /\ ~expired

\* Slips of the code that the properties must notice.
JoinsAny          == flight # None

\* A flight that could still be kept may be joined.
MayJoin == flight # None /\ flight > highWater

AnswerFromCache(r) ==
    /\ Idle(r) /\ Hit
    /\ Give(r, cache) /\ Asks(r)
    /\ UNCHANGED <<cacheVars, joined, reading>>

Join(r) ==
    /\ Idle(r) /\ ~Hit /\ MayJoin
    /\ joined' = [joined EXCEPT ![r] = flight]
    /\ Give(r, None) /\ Asks(r)
    /\ UNCHANGED <<cacheVars, reading>>

TakeOff(r) ==
    /\ Idle(r) /\ ~Hit /\ ~MayJoin
    /\ Room /\ Number
    /\ flight' = seq' /\ running' = running \cup {seq'}
    /\ joined' = [joined EXCEPT ![r] = seq']
    /\ Give(r, None) /\ Asks(r)
    /\ UNCHANGED <<cache, expired, highWater, invalidated, reading>>

\* A slip of the code that the liveness must notice.
LandIfKept(n) ==
    /\ n \in running /\ n > highWater
    /\ Keep(n)
    /\ running' = running \ {n}
    /\ flight' = IF flight = n THEN None ELSE flight
    /\ UNCHANGED <<seq, invalidated, readerVars>>

\* A flight ends, with an answer or an error; both are kept.
Land(n) ==
    /\ n \in running
    /\ Keep(n)
    /\ running' = running \ {n}
    /\ flight' = IF flight = n THEN None ELSE flight
    /\ UNCHANGED <<seq, invalidated, readerVars>>

\* Those who waited take what is kept by now, or the flight's own answer.
Wake(r) ==
    /\ joined[r] # None /\ joined[r] \notin running
    /\ Give(r, IF cache # None THEN cache ELSE joined[r])
    /\ joined' = [joined EXCEPT ![r] = None]
    /\ UNCHANGED <<cacheVars, reading, since>>

\* The one who asks is gone, or has waited long enough; the flight goes on.
StopWaiting(r) ==
    /\ joined[r] # None
    /\ joined' = [joined EXCEPT ![r] = None]
    /\ UNCHANGED <<cacheVars, reading, given, since>>

-----------------------------------------------------------------------------
(* Reads of one's own: quotaFor with refresh, and freshQuota. *)

BeginRead(c) ==
    /\ Room /\ Number
    /\ reading' = [reading EXCEPT ![c] = seq']
    /\ UNCHANGED <<cache, expired, highWater, flight, running, invalidated, joined>>

Refresh(r) == Idle(r) /\ BeginRead(r) /\ Give(r, None) /\ Asks(r)

EndRead(c) ==
    /\ reading[c] # None
    /\ Keep(reading[c])
    /\ reading' = [reading EXCEPT ![c] = None]
    /\ UNCHANGED <<seq, flight, running, invalidated, joined, since>>

Refreshed(r) == EndRead(r) /\ Give(r, reading[r])

FreshBegins(c) == reading[c] = None /\ BeginRead(c) /\ UNCHANGED <<given, since>>
FreshEnds(c)   == EndRead(c) /\ UNCHANGED given

\* A read of freshQuota that fails is not kept.
FreshFails(c) ==
    /\ reading[c] # None
    /\ reading' = [reading EXCEPT ![c] = None]
    /\ UNCHANGED <<cacheVars, joined, given, since>>

-----------------------------------------------------------------------------

\* What is kept is forgotten, and what began by now will not be kept.
Invalidate ==
    /\ Number
    /\ cache' = None /\ expired' = FALSE
    /\ highWater' = seq' /\ invalidated' = seq'
    /\ UNCHANGED <<flight, running, readerVars>>

GrowOld ==
    /\ cache # None /\ ~expired
    /\ expired' = TRUE
    /\ UNCHANGED <<seq, cache, highWater, flight, running, invalidated, readerVars>>

\* The process starts anew and remembers nothing.
Forget ==
    /\ seq' = 0 /\ cache' = None /\ expired' = FALSE /\ highWater' = 0
    /\ flight' = None /\ running' = {} /\ invalidated' = 0
    /\ joined' = [r \in Readers |-> None]
    /\ reading' = [c \in Readers \cup Claimers |-> None]
    /\ given' = [r \in Readers |-> None]
    /\ since' = [r \in Readers |-> 0]

Ask(r) == AnswerFromCache(r) \/ Join(r) \/ TakeOff(r) \/ Refresh(r)

ReadOn ==
    \/ \E r \in Readers : Ask(r) \/ Wake(r) \/ StopWaiting(r) \/ Refreshed(r)
    \/ \E n \in running : Land(n)
    \/ GrowOld

QuotaNext ==
    \/ ReadOn
    \/ \E c \in Claimers : FreshBegins(c) \/ FreshEnds(c) \/ FreshFails(c)
    \/ Room /\ Invalidate
    \/ Forget

QuotaSpec == QuotaInit /\ [][QuotaNext]_quotaVars

\* Reads are bounded by 20 seconds and their goroutines run on.
FairQuotaSpec ==
    /\ QuotaSpec
    /\ WF_quotaVars(\E n \in running : Land(n))
    /\ \A r \in Readers : WF_quotaVars(Wake(r)) /\ WF_quotaVars(Refreshed(r))

-----------------------------------------------------------------------------
\* The type of every variable of quota.go's cache and its readers: no number is
\* used that was not taken first.
QuotaTypeOK ==
    /\ seq \in Nat /\ cache \in 0..seq /\ highWater \in 0..seq /\ invalidated \in 0..seq
    /\ expired \in BOOLEAN
    /\ flight \in 0..seq /\ running \subseteq 1..seq
    /\ joined \in [Readers -> 0..seq]
    /\ reading \in [Readers \cup Claimers -> 0..seq]
    /\ given \in [Readers -> 0..seq] /\ since \in [Readers -> 0..seq]

\* Whoever asks after a claim invalidated the quota is given a read that began
\* after it, whichever reads were under way and in whatever order they end
\* (quota.go:invalidateQuota, "raises the high-water mark").
FreshAfterClaim ==
    \A r \in Readers : given[r] # None => given[r] > since[r]

\* Readers never cause two flights at a time whose answers could both be kept
\* (quota_cache_test.go:100, "make exactly one usage call").
SingleFlight ==
    \A m, n \in running : m > highWater /\ n > highWater => m = n

\* Nobody waits for a read for ever, a superseded one included, even if they
\* never lose patience (quota.go:195, the flight closes its channel when it ends).
ReadersReturn == \A r \in Readers : ~Idle(r) ~> Idle(r)
=============================================================================
