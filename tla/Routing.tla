------------------------------ MODULE Routing ------------------------------
(***************************************************************************)
(* A model request from its arrival to its answer (httpapi/v1.go:v1).       *)
(*                                                                         *)
(* The active accounts that serve the model are read with their standby    *)
(* marks.  A conversation goes back to the account that last answered it   *)
(* (affinity.go), a new one starts where the rotation is (rotation.go).    *)
(* Accounts whose quota is spent are left out, and the rest are the        *)
(* candidates of the delivery, in order.  Meanwhile other requests of the  *)
(* same conversation run, the operator switches and marks accounts, quotas *)
(* are spent and reset, and the table of conversations forgets.            *)
(***************************************************************************)
EXTENDS Delivery, Lists

CONSTANTS
    Accounts,     \* connection ids
    Good,         \* the answers below 400
    Sessions,     \* the conversations' keys
    AffinityMax,  \* entries of the conversation table (20000 in the code)
    Order,        \* the accounts in their rotation's order
    Leveled,      \* accounts whose models come in level variants (Antigravity)
    MaxSwitches   \* bound: changes by the operator and of the quotas in a run

NoSession == "no session"       \* a request that names no conversation
Nobody    == "nobody"

ASSUME RoutingAssumption ==
    /\ Good \subseteq Answers /\ Elsewhere \subseteq Answers \ Good
    /\ Answers \cap {Waiting, Failed, Refused} = {}
    /\ AffinityMax \in Nat \ {0}
    /\ Order \in Seq(Accounts) /\ ToSet(Order) = Accounts /\ IsInjective(Order)
    /\ NoSession \notin Sessions /\ Nobody \notin Accounts
    /\ Leveled \subseteq Accounts
    /\ MaxSwitches \in Nat

VARIABLES
    active,    \* accounts switched on
    standby,   \* accounts marked standby
    spent,     \* tries (account, default variant?) whose cached quota is spent until
               \* a known reset
    switches,  \* changes so far
    home,      \* the conversation table, the entry longest unused first
    session,   \* the conversation of each request
    targets,   \* the accounts read for each request, with their marks
    attempts,  \* the tries of each request, in order
    left_out,  \* history: what was spent when the request was planned
    kept       \* history: who last answered each conversation, until forgotten

settingsVars == <<active, standby, spent, switches>>
requestVars  == <<deliveryVars, session, targets, attempts, left_out>>
routingVars  == <<requestVars, settingsVars, home, kept>>

On(accounts) == [acc : accounts, alt : BOOLEAN, standby : BOOLEAN]
Attempt == On(Accounts)
Entry   == [key : Sessions, conn : Accounts]

-----------------------------------------------------------------------------
(* The order of a request's attempts. *)

\* The active accounts, in the order of the rotation, as they are marked now.
Target(a) == [acc |-> a, alt |-> FALSE, standby |-> a \in standby]

ActiveTargets == LET reached == Select(Order, active)
                 IN  [n \in 1..Len(reached) |-> Target(reached[n])]

Normal(list)    == Select(list, [acc : Accounts, alt : BOOLEAN, standby : {FALSE}])
StandBys(list)  == Select(list, [acc : Accounts, alt : BOOLEAN, standby : {TRUE}])
Others(list, a) == Select(list, On(Accounts \ {a}))
Of(list, a)     == Select(list, On({a}))

\* The account a conversation is kept on; Nobody when the table does not say.
HomeOf(s) ==
    LET entries == {e \in ToSet(home) : e.key = s}
    IN  IF entries = {} THEN Nobody ELSE (CHOOSE e \in entries : TRUE).conn

\* Slips of the code that the properties must notice.
GoesHomeAlways(list, a) == Of(list, a) # <<>>

\* The conversation goes back to account a: it is a target, and no standby while
\* a normal account is active.
GoesHome(list, a) ==
    /\ Of(list, a) # <<>>
    /\ Of(list, a)[1].standby => Normal(Others(list, a)) = <<>>

\* The conversation's account, the normal accounts, the standby accounts.
SessionOrder(list, a) ==
    Of(list, a) \o Normal(Others(list, a)) \o StandBys(Others(list, a))

DropsEarlier(list, i) == SubSeq(Normal(list), i + 1, Len(Normal(list))) \o StandBys(list)

\* The rotation's list from place i of the accounts that take turns.
StartAt(list, i) ==
    LET n == Normal(list)
    IN  SubSeq(n, i + 1, Len(n)) \o SubSeq(n, 1, i) \o StandBys(list)

Places(list) == IF Normal(list) = <<>> THEN {0} ELSE 0..Len(Normal(list)) - 1

\* The orders a request may take: one for a known conversation, else the
\* rotation's, wherever it is.
Orderings(list, a) ==
    IF GoesHome(list, a) THEN {SessionOrder(list, a)}
    ELSE {StartAt(list, i) : i \in Places(list)}

\* Every account; then every account that has level variants again, on its
\* default one, unless that is the variant picked already.
DefaultVariants(list) ==
    LET again == Select(list, On(Leveled))
    IN  [n \in 1..Len(again) |-> [again[n] EXCEPT !.alt = TRUE]]

AttemptsFor(list, picked_default) ==
    IF picked_default THEN list ELSE list \o DefaultVariants(list)

\* Tries with a spent quota are left out, unless that leaves none.
Unspent(list) == Select(list, {t \in ToSet(list) : <<t.acc, t.alt>> \notin spent})

SkipSpent(list) == IF Unspent(list) = <<>> THEN list ELSE Unspent(list)

-----------------------------------------------------------------------------
(* The conversation table (affinity). *)

KeepsOldHome(table, s, a) ==
    IF \E e \in ToSet(table) : e.key = s THEN table
    ELSE Append(table, [key |-> s, conn |-> a])

\* The entry of s is the newest now.
Placed(table, s, a) ==
    Append(Select(table, [key : Sessions \ {s}, conn : Accounts]), [key |-> s, conn |-> a])

\* set prunes a full table before a new key: the entries up to a moment go, at
\* least the oldest of them.
MustPrune(table, s) ==
    Len(table) >= AffinityMax /\ \A e \in ToSet(table) : e.key # s

Drops(table, n) == {table[m].key : m \in 1..n}

\* The table without its n oldest entries, and the history with it.
Remember(s, a) ==
    \E n \in IF MustPrune(home, s) THEN 1..Len(home) ELSE {0} :
        /\ home' = Placed(SubSeq(home, n + 1, Len(home)), s, a)
        /\ kept' = [k \in Sessions |-> IF k = s THEN a
                                       ELSE IF k \in Drops(home, n) THEN Nobody
                                       ELSE kept[k]]

-----------------------------------------------------------------------------
\* The accounts may be set any way, and the table may hold anything, when the
\* requests of interest arrive.
RoutingInit ==
    /\ DeliveryInit
    /\ active \in SUBSET Accounts
    /\ standby \in SUBSET active
    /\ spent = {}
    /\ switches = 0
    /\ home \in {<<>>} \cup {<<e>> : e \in Entry}
    /\ session = [r \in Requests |-> NoSession]
    /\ targets = [r \in Requests |-> <<>>]
    /\ attempts = [r \in Requests |-> <<>>]
    /\ left_out = [r \in Requests |-> {}]
    /\ kept = [s \in Sessions |-> HomeOf(s)]

\* The handler has returned: what it worked on is gone.
Close(r) ==
    /\ session' = [session EXCEPT ![r] = NoSession]
    /\ targets' = [targets EXCEPT ![r] = <<>>]
    /\ attempts' = [attempts EXCEPT ![r] = <<>>]
    /\ left_out' = [left_out EXCEPT ![r] = {}]

\* The request names its conversation, and the accounts that serve it are read.
Resolve(r, s) ==
    /\ answer[r] = Waiting /\ ~Planned(r) /\ targets[r] = <<>>
    /\ ActiveTargets # <<>>
    /\ session' = [session EXCEPT ![r] = s]
    /\ targets' = [targets EXCEPT ![r] = ActiveTargets]
    /\ UNCHANGED <<deliveryVars, settingsVars, home, attempts, left_out, kept>>

\* The request itself is refused: its body, its model, the key it came with, or
\* no active account serves it.
Reject(r) ==
    /\ ~Planned(r) /\ targets[r] = <<>>
    /\ Refuse(r)
    /\ UNCHANGED <<settingsVars, home, session, targets, attempts, left_out, kept>>

HomeFor(r) == IF session[r] = NoSession THEN Nobody ELSE HomeOf(session[r])

PlanAttempts(r) ==
    /\ targets[r] # <<>>
    /\ \E list \in Orderings(targets[r], HomeFor(r)), picked_default \in BOOLEAN :
            LET tries == SkipSpent(AttemptsFor(list, picked_default))
            IN  /\ Plan(r, Len(tries))
                /\ attempts' = [attempts EXCEPT ![r] = tries]
    /\ left_out' = [left_out EXCEPT ![r] = spent]
    /\ UNCHANGED <<settingsVars, home, session, targets, kept>>

\* The attempt under way.
Place(r)   == Len(attempts[r]) - left[r] + 1
Current(r) == attempts[r][Place(r)]

\* It is given up, whatever the reason.
MoveOn(r) ==
    /\ GiveUp(r)
    /\ UNCHANGED <<session, targets, attempts, left_out, settingsVars, home, kept>>

\* The account that answers a conversation below 400 keeps it from now on.
Pins(r, s) == session[r] # NoSession /\ s \in Good

Relay(r, s) ==
    /\ Deliver(r, s)
    /\ IF Pins(r, s) THEN Remember(session[r], Current(r).acc) ELSE UNCHANGED <<home, kept>>
    /\ Close(r)
    /\ UNCHANGED settingsVars

\* The request fits no account's shape, or no attempt is left.
EndWithError(r) ==
    /\ Planned(r)
    /\ IF left[r] = 0 THEN Fail(r) ELSE Refuse(r)
    /\ Close(r)
    /\ UNCHANGED <<settingsVars, home, kept>>

\* The entry longest unused is an hour old.
Forget ==
    /\ home # <<>>
    /\ home' = Tail(home)
    /\ kept' = [kept EXCEPT ![home[1].key] = Nobody]
    /\ UNCHANGED <<requestVars, settingsVars>>

Switch ==
    /\ switches < MaxSwitches
    /\ switches' = switches + 1
    /\ UNCHANGED <<requestVars, home, kept>>

\* Switching an account off clears its standby mark.
SwitchOff(a) ==
    /\ Switch /\ a \in active
    /\ active' = active \ {a} /\ standby' = standby \ {a}
    /\ UNCHANGED spent

SwitchOn(a) ==
    /\ Switch /\ a \notin active
    /\ active' = active \cup {a}
    /\ UNCHANGED <<standby, spent>>

Mark(a) ==
    /\ Switch /\ a \in active
    /\ standby' = IF a \in standby THEN standby \ {a} ELSE standby \cup {a}
    /\ UNCHANGED <<active, spent>>

\* A level variant and the default one have their own quotas.
SpendOrReset(a, alt) ==
    /\ Switch /\ (alt => a \in Leveled)
    /\ spent' = IF <<a, alt>> \in spent THEN spent \ {<<a, alt>>}
                ELSE spent \cup {<<a, alt>>}
    /\ UNCHANGED <<active, standby>>

Environment ==
    \/ Forget
    \/ \E a \in Accounts : SwitchOff(a) \/ SwitchOn(a) \/ Mark(a)
    \/ \E a \in Accounts, alt \in BOOLEAN : SpendOrReset(a, alt)

RoutingNext ==
    \/ \E r \in Requests :
        \/ \E s \in Sessions \cup {NoSession} : Resolve(r, s)
        \/ Reject(r) \/ PlanAttempts(r) \/ MoveOn(r) \/ EndWithError(r)
        \/ \E s \in Answers : Relay(r, s)
    \/ Environment

RoutingSpec == RoutingInit /\ [][RoutingNext]_routingVars

-----------------------------------------------------------------------------
RoutingTypeOK ==
    /\ active \subseteq Accounts /\ standby \subseteq Accounts
    /\ spent \subseteq Accounts \X BOOLEAN
    /\ switches \in 0..MaxSwitches
    /\ home \in Seq(Entry)
    /\ session \in [Requests -> Sessions \cup {NoSession}]
    /\ targets \in [Requests -> Seq(Attempt)] /\ attempts \in [Requests -> Seq(Attempt)]
    /\ left \in [Requests -> Nat \cup {Unplanned}]
    /\ answer \in [Requests -> Answers \cup {Waiting, Failed, Refused}]
    /\ left_out \in [Requests -> SUBSET (Accounts \X BOOLEAN)]
    /\ kept \in [Sessions -> Accounts \cup {Nobody}]

\* The table names each conversation once and never holds more than its bound,
\* whatever order requests end in (affinity.go:set, prune).
SessionsBounded ==
    /\ Len(home) <= AffinityMax
    /\ \A m, n \in DOMAIN home : home[m].key = home[n].key => m = n

\* A standby account is tried on its own model only after every normal account
\* of the request was left out for its quota or given up (docs/routing.md:92).
TriedBefore(r, t) ==
    \/ <<t.acc, FALSE>> \in left_out[r]
    \/ \E n \in 1..Place(r) - 1 : attempts[r][n] = t

StandbyTriedLast ==
    \A r \in Requests :
        /\ answer[r] = Waiting /\ left[r] > 0
        /\ Current(r).standby /\ ~Current(r).alt
        => \A t \in ToSet(Normal(targets[r])) : TriedBefore(r, t)

\* A conversation goes back to the account that last answered it, whatever ran in
\* between, unless that account is off, spent, or a standby with a normal account
\* beside it (docs/routing.md:100, affinity.go:208).
Returns(r) ==
    /\ session[r] # NoSession
    /\ \E t \in ToSet(targets[r]) :
        /\ t.acc = kept[session[r]] /\ <<t.acc, FALSE>> \notin spent
        /\ t.standby => \A u \in ToSet(targets[r]) : u.standby

SessionReturns ==
    [][\A r \in Requests : attempts[r] = <<>> /\ attempts'[r] # <<>> /\ Returns(r)
         => attempts'[r][1].acc = kept[session[r]]]_routingVars

\* When a request ends without an answer of its own, every account that served
\* its model and had quota was tried (v1.go:733).
NobodyPassedOver ==
    [][\A r \in Requests :
         answer[r] = Waiting /\ answer'[r] \in {Failed} \cup Elsewhere =>
            \A t \in ToSet(targets[r]) :
                \/ <<t.acc, FALSE>> \in left_out[r]
                \/ \E n \in DOMAIN attempts[r] :
                        n <= Place(r) /\ attempts[r][n].acc = t.acc]_routingVars
=============================================================================
