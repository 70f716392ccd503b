------------------------------ MODULE Rotation ------------------------------
(***************************************************************************)
(* How a request picks the account it tries first (httpapi/rotation.go).   *)
(*                                                                         *)
(* A provider's accounts take turns: in round robin each serves `sticky`   *)
(* requests in a row, in fallback the first one serves every request.  The *)
(* place of a rotation is a cursor kept in memory, one per provider and    *)
(* one per bare model that several providers list.  An operator changes    *)
(* the settings and switches accounts while requests run.                  *)
(***************************************************************************)
EXTENDS Lists

CONSTANTS
    Listed,      \* every account, as ListConnections returns those of each provider
                 \* (newest first), and these in the order of the providers' ids
    Providers,
    ProviderOf,  \* the provider of each account
    Reach,       \* sets of providers one model name may resolve to
    Orders,      \* priority lists an operator may submit
    MaxSticky,   \* the largest `sticky` an operator submits (1000 in the code)
    Editors,     \* operators' setRotation calls that may overlap
    MaxEdits,    \* bound: setRotation calls in a behaviour
    MaxTests     \* bound: tests pinned to one account in a behaviour

Connections == ToSet(Listed)   \* connection ids
Pool        == "pool"          \* the cursor of a bare model name

ASSUME RotationAssumption ==
    /\ Listed \in Seq(Connections) /\ IsInjective(Listed)
    /\ ProviderOf \in [Connections -> Providers]
    /\ \A i, j, k \in DOMAIN Listed :
            i < j /\ j < k /\ ProviderOf[Listed[i]] = ProviderOf[Listed[k]]
            => ProviderOf[Listed[j]] = ProviderOf[Listed[i]]
    /\ Pool \notin Providers
    /\ Reach \subseteq (SUBSET Providers) \ {{}}
    /\ \A o \in Orders : o \in Seq(Connections) /\ IsInjective(o)
    /\ MaxSticky \in Nat \ {0}
    /\ MaxEdits \in Nat /\ MaxTests \in Nat

Modes     == {"round-robin", "fallback"}
Settings  == [mode : Modes, sticky : 1..MaxSticky, order : Orders \cup {<<>>}]
Keys      == Providers \cup {Pool}
Start     == [i |-> 0, used |-> 0]          \* an absent cursor reads as zero
Resting   == [prov |-> "", rot |-> Start, saved |-> FALSE]

VARIABLES
    active,    \* accounts switched on
    standby,   \* accounts marked standby
    rotation,  \* provider -> its stored settings
    cursor,    \* key -> the rotation's place (rrNext)
    editor,    \* setRotation calls in flight, between their steps
    edits,     \* setRotation calls so far
    tests,     \* tests pinned to one account so far
    marking,   \* standby marks setActive has still to write, by account
    turn       \* history: who served last on a key, from which list, how often

settingsVars == <<active, standby, rotation, editor, edits, marking>>
rotationVars == <<settingsVars, cursor, tests, turn>>

-----------------------------------------------------------------------------
(* The lists a request works on. *)

ActiveOf(q) == {a \in active : ProviderOf[a] \in q}

\* The active accounts of one provider.
ActiveConnections(p) == Select(Listed, ActiveOf({p}))

\* The accounts a model name reaches, provider by provider.
Targets(q) == Select(Listed, ActiveOf(q))

\* Accounts the priority names come first, in its order; the others keep theirs.
Ordered(rot, conns) ==
    Select(rot.order, ToSet(conns)) \o Select(conns, Connections \ ToSet(rot.order))

Normal(conns) == Select(conns, Connections \ standby)

\* The list to try, from index i of the accounts that take turns, with every
\* standby account behind them.
WithStandbyLast(conns, i) ==
    LET normal == Normal(conns)
    IN  SubSeq(normal, i + 1, Len(normal)) \o SubSeq(normal, 1, i)
            \o Select(conns, standby)

\* Slips of the code that the properties must notice.
LateAdvance(c, n, sticky) ==
    LET at == c.i % n
    IN  [at |-> at, next |-> IF c.used + 1 > sticky
                             THEN [i |-> (at + 1) % n, used |-> 0]
                             ELSE [i |-> at, used |-> c.used + 1]]
KeptPlace(c, p) == [c EXCEPT ![p].used = 0]

\* One turn of a cursor over n accounts: the index served and the new place.
Advance(c, n, sticky) ==
    LET at == c.i % n
    IN  [at |-> at,
         next |-> IF c.used + 1 >= sticky
                  THEN [i |-> (at + 1) % n, used |-> 0]
                  ELSE [i |-> at, used |-> c.used + 1]]

\* A cursor forgotten (delete(rrNext, "p:"+prov)).
Forgotten(c, p) == [c EXCEPT ![p] = Start]

\* What startFor decides for the accounts `conns`: the rotation it reads, the
\* cursor it moves ("" for none) and the list with the first account in front.
OneProvider(conns) == Cardinality({ProviderOf[a] : a \in ToSet(conns)}) = 1

StartFor(conns) ==
    LET prov    == ProviderOf[conns[1]]
        single  == OneProvider(conns)
        rot     == IF single THEN rotation[prov]
                   ELSE [mode |-> "round-robin", sticky |-> 1, order |-> <<>>]
        ordered == Ordered(rot, conns)
        n       == Len(Normal(ordered))
        turns   == rot.mode = "round-robin" /\ n > 0
        key     == IF single THEN prov ELSE Pool
        move    == IF turns THEN Advance(cursor[key], n, rot.sticky)
                   ELSE [at |-> 0, next |-> cursor[key]]
    IN  [list |-> WithStandbyLast(ordered, move.at), normal |-> Normal(ordered),
         key |-> key, turns |-> turns, sticky |-> rot.sticky, next |-> move.next]

NoTurn  == [list |-> <<>>, sticky |-> 1, acc |-> "none", run |-> 0, whole |-> TRUE]
NoMark  == "none"

\* History: the turn t after the decision s.  A turn is whole when it began on
\* the list it is on; one cut short by a change of the list is not.
Served(t, s) ==
    LET same  == t = NoTurn \/ (t.list = s.normal /\ t.sticky = s.sticky)
        again == same /\ t.acc = s.list[1] /\ t.run < s.sticky
    IN  [list |-> s.normal, sticky |-> s.sticky, acc |-> s.list[1],
         run |-> IF again THEN t.run + 1 ELSE 1,
         whole |-> same /\ (again => t.whole)]

-----------------------------------------------------------------------------

RotationInit ==
    /\ active = Connections
    /\ standby = {}
    /\ rotation = [p \in Providers |->
                      [mode |-> "round-robin", sticky |-> 1, order |-> <<>>]]
    /\ cursor = [k \in Keys |-> Start]
    /\ editor = [e \in Editors |-> Resting]
    /\ edits = 0
    /\ tests = 0
    /\ marking = [a \in Connections |-> NoMark]
    /\ turn = [k \in Keys |-> NoTurn]

\* startFor for a request whose model reaches the providers q.
Pick(q) ==
    /\ Targets(q) # <<>>
    /\ LET s == StartFor(Targets(q))
       IN  /\ cursor' = [cursor EXCEPT ![s.key] = s.next]
           /\ turn' = IF s.turns THEN [turn EXCEPT ![s.key] = Served(@, s)] ELSE turn
    /\ UNCHANGED <<settingsVars, tests>>

\* A test pinned to one account replaces the list by that account, switched on
\* or not, and takes the same way through startFor.
PickPinned(a) ==
    /\ tests < MaxTests
    /\ tests' = tests + 1
    /\ cursor' = [cursor EXCEPT ![ProviderOf[a]] = StartFor(<<a>>).next]
    /\ UNCHANGED <<settingsVars, turn>>

\* setRotation reads the settings and merges the fields of the request: a field
\* left out keeps its value.
EditRead(e, p) ==
    /\ editor[e] = Resting
    /\ edits < MaxEdits
    /\ edits' = edits + 1
    /\ \E mode \in Modes, sticky \in 1..MaxSticky,
          order \in Orders \cup {rotation[p].order} :
            editor' = [editor EXCEPT ![e] =
                [prov |-> p, saved |-> FALSE,
                 rot |-> [mode |-> mode, sticky |-> sticky, order |-> order]]]
    /\ UNCHANGED <<active, standby, rotation, cursor, tests, marking, turn>>

\* It stores them, or the write fails and everything stays as it was.
EditSave(e) ==
    /\ editor[e] # Resting /\ ~editor[e].saved
    /\ \/ /\ rotation' = [rotation EXCEPT ![editor[e].prov] = editor[e].rot]
          /\ editor' = [editor EXCEPT ![e].saved = TRUE]
       \/ /\ editor' = [editor EXCEPT ![e] = Resting]
          /\ UNCHANGED rotation
    /\ UNCHANGED <<active, standby, cursor, edits, tests, marking, turn>>

\* It forgets the provider's cursor: a new rotation starts from its first account.
EditReset(e) ==
    /\ editor[e].saved
    /\ cursor' = Forgotten(cursor, editor[e].prov)
    /\ turn' = [turn EXCEPT ![editor[e].prov] = NoTurn]
    /\ editor' = [editor EXCEPT ![e] = Resting]
    /\ UNCHANGED <<active, standby, rotation, edits, tests, marking>>

\* setActive switches an account on or off. Off always clears the standby mark;
\* a request that leaves the mark out keeps it.
SetActive(a, on) ==
    /\ marking[a] = NoMark
    /\ edits < MaxEdits
    /\ edits' = edits + 1
    /\ active' = IF on THEN active \cup {a} ELSE active \ {a}
    /\ \E mark \in IF on THEN {"on", "off", NoMark} ELSE {"off"} :
            marking' = [marking EXCEPT ![a] = mark]
    /\ UNCHANGED <<standby, rotation, cursor, editor, tests, turn>>

\* The mark is a second write of the same handler.
SetStandby(a) ==
    /\ marking[a] # NoMark
    /\ standby' = IF marking[a] = "on" THEN standby \cup {a} ELSE standby \ {a}
    /\ marking' = [marking EXCEPT ![a] = NoMark]
    /\ UNCHANGED <<active, rotation, cursor, editor, edits, tests, turn>>

Operate ==
    \/ \E e \in Editors, p \in Providers : EditRead(e, p)
    \/ \E e \in Editors : EditSave(e)
    \/ \E e \in Editors : EditReset(e)
    \/ \E a \in Connections, on \in BOOLEAN : SetActive(a, on)
    \/ \E a \in Connections : SetStandby(a)

RotationNext ==
    \/ \E q \in Reach : Pick(q)
    \/ \E a \in Connections : PickPinned(a)
    \/ Operate

RotationSpec == RotationInit /\ [][RotationNext]_rotationVars

-----------------------------------------------------------------------------
RotationTypeOK ==
    /\ active \subseteq Connections
    /\ standby \subseteq Connections
    /\ rotation \in [Providers -> Settings]
    /\ cursor \in [Keys -> [i : Nat, used : 0..MaxSticky - 1]]
    /\ editor \in [Editors -> [prov : Providers, rot : Settings, saved : BOOLEAN] \cup {Resting}]
    /\ edits \in 0..MaxEdits
    /\ tests \in 0..MaxTests
    /\ marking \in [Connections -> {"on", "off", NoMark}]

\* The account that follows a in a list, round the end.
After(list, a) == LET at == CHOOSE n \in DOMAIN list : list[n] = a
                  IN  list[(at % Len(list)) + 1]

\* Turn u may come right after turn t: while the list and `sticky` stay what they
\* are, the same account goes on, or it has had its turn and the next takes over.
\* A turn that a change of the list caught half way may end early.
InOrder(t, u) ==
    t.list = u.list /\ t.sticky = u.sticky
    => \/ u.acc = t.acc /\ t.run < t.sticky
       \/ u.acc = After(t.list, t.acc) /\ (t.run = t.sticky \/ ~t.whole)

NewTurn(k) == turn'[k] # turn[k] /\ turn[k] # NoTurn /\ turn'[k] # NoTurn

\* While no test is pinned, no account is passed over and none serves longer than
\* `sticky` requests, whatever the operator changes in between (docs/routing.md,
\* "Accounts take turns on every request"; rotation.go:advance).
TurnsInOrder ==
    [][\A k \in Keys : tests = 0 /\ NewTurn(k) => InOrder(turn[k], turn'[k])]_rotationVars

\* The same with tests: a test that is pinned to an account takes no turn of the
\* clients' rotation.  The code lets it move the cursor.
\* The code does not keep this (README.md, Disagreements found).
TestsTakeNoTurn ==
    [][\A k \in Keys : NewTurn(k) => InOrder(turn[k], turn'[k])]_rotationVars

\* The first request after a rotation was set starts from the first account of
\* its list, whatever requests ran while the settings were being saved
\* (rotation.go:193, "A new rotation starts from its first account").
NewRotationStartsFirst ==
    [][\A k \in Keys : turn[k] = NoTurn /\ turn'[k] # NoTurn
         => turn'[k].acc = turn'[k].list[1]]_rotationVars

\* Accounts the priority does not name follow in the order they were added
\* (rotation.go:17): with no priority set, the oldest account is the first.
\* The code does not keep this (README.md, Disagreements found).
UnnamedInOrderAdded ==
    \A p \in Providers :
        LET list == Ordered(rotation[p], ActiveConnections(p))
            added == Reverse(Listed)
            unnamed == Select(list, Connections \ ToSet(rotation[p].order))
        IN  unnamed = Select(added, ToSet(unnamed))
=============================================================================
