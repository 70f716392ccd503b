------------------------------ MODULE ShapeDrift ------------------------------
(***************************************************************************)
(* The observer of document structures (internal/drift/observer.go,           *)
(* internal/store/drift.go), for one key: a direction, a provider, an endpoint *)
(* and an event.                                                             *)
(*                                                                         *)
(* Every document of the key is an observation.  The first ones are learned    *)
(* silently; after them a field that is new, has a new type, is gone or has    *)
(* returned is recorded as a change.  What is learned is in memory; a ticker   *)
(* and requests write it to the database, and a restart reads it back.         *)
(***************************************************************************)
EXTENDS Integers, FiniteSets

CONSTANTS
    Fields,        \* paths of the documents
    Values,        \* what a value may be: the set of its types, {} for null
    Learn,         \* observations learned silently (3)
    GoneAfter,     \* observations without a field that make it gone (20)
    GoneMinSeen,   \* times a field was seen before it can be gone (20)
    GoneRatio,     \* and the share of the observations it was in, in percent (90)
    MaxObs,        \* bound: observations
    MaxRestarts    \* bound: restarts

ASSUME DriftAssumption ==
    \A n \in {Learn, GoneAfter, GoneMinSeen, GoneRatio, MaxObs, MaxRestarts} : n \in Nat

Flushers == {"ticker", "request"}

VARIABLES
    known,    \* what the observer knows: the count of observations and the fields
    saved,    \* shape_keys and shape_fields
    flush,    \* what each flush under way has taken to write
    docs, restarts,
    change,   \* the change of the last document, by field
    absent,   \* history: documents in a row without the field, those restarts lost aside
    agreed,   \* history: the same when the database last agreed with memory
    unsaved,  \* history: documents since the database agreed with memory, no flush under way
    forgotten \* history: those that restarts lost

driftVars == <<known, saved, flush, docs, restarts, change, absent, agreed, unsaved, forgotten>>

NoField == [seen |-> 0, types |-> {}, first |-> 0, last |-> 0, gone |-> FALSE, dirty |-> FALSE]
NoFlush == [on |-> FALSE, obs |-> 0, fields |-> {}, values |-> [f \in Fields |-> NoField]]
Nothing == [f \in Fields |-> "none"]
Unknown == [obs |-> 0, dirty |-> FALSE, fields |-> [f \in Fields |-> NoField]]

DriftInit ==
    /\ known = Unknown /\ saved = Unknown
    /\ flush = [w \in Flushers |-> NoFlush]
    /\ docs = 0 /\ restarts = 0
    /\ change = Nothing /\ unsaved = 0 /\ forgotten = 0
    /\ absent = [f \in Fields |-> 0] /\ agreed = absent

-----------------------------------------------------------------------------
(* One document.                                                            *)

\* A type in the field's set is no change; a new one joins it.  null has no type.
Seen(f, t, n) ==
    IF f.seen = 0 THEN [seen |-> 1, types |-> t, first |-> n, last |-> n, gone |-> FALSE, dirty |-> TRUE]
    ELSE [f EXCEPT !.seen = @ + 1, !.types = @ \cup t, !.last = n, !.gone = FALSE, !.dirty = TRUE]

\* A field nearly always there that a run of observations was without.
MissedFor(f, n) == n - f.last

\* Slip: the run is not measured from where the field was last seen.
GoneEarly(f, n) ==
    /\ f.seen > 0 /\ ~f.gone
    /\ n >= GoneAfter /\ f.seen >= GoneMinSeen
    /\ f.seen * 100 >= GoneRatio * (f.last - f.first + 1)

Gone(f, n) ==
    /\ f.seen > 0 /\ ~f.gone
    /\ MissedFor(f, n) >= GoneAfter /\ f.seen >= GoneMinSeen
    /\ f.seen * 100 >= GoneRatio * (f.last - f.first + 1)

ChangeOf(f, here, t, n) ==
    CASE here /\ f.seen = 0                                     -> "added"
      [] here /\ f.gone                                         -> "returned"
      [] here /\ ~(t \subseteq f.types) /\ f.types # {}         -> "type"
      [] ~here /\ Gone(f, n)                                    -> "removed"
      [] OTHER                                                  -> "none"

\* quiet: a reference document, which records no change.
Observe(doc, quiet) ==
    LET n == known.obs + 1
        field(f) == known.fields[f]
    IN
    /\ docs < MaxObs /\ docs' = docs + 1
    /\ known' = [obs |-> n, dirty |-> TRUE, fields |->
           [f \in Fields |-> IF f \in DOMAIN doc THEN Seen(field(f), doc[f], n)
                             ELSE IF Gone(field(f), n) THEN [field(f) EXCEPT !.gone = TRUE, !.dirty = TRUE]
                             ELSE field(f)]]
    /\ change' = IF quiet \/ n <= Learn THEN Nothing
                 ELSE [f \in Fields |-> ChangeOf(field(f), f \in DOMAIN doc, IF f \in DOMAIN doc THEN doc[f] ELSE {}, n)]
    /\ absent' = [f \in Fields |-> IF f \in DOMAIN doc THEN 0 ELSE absent[f] + 1]
    /\ unsaved' = unsaved + 1
    /\ UNCHANGED <<saved, flush, restarts, agreed, forgotten>>

-----------------------------------------------------------------------------
(* The flush: what is dirty is taken under the lock and written after it.    *)

Dirty(k) == {f \in Fields : k.fields[f].dirty}

BeginFlush(w) ==
    /\ ~flush[w].on /\ (known.dirty \/ Dirty(known) # {})
    /\ flush' = [flush EXCEPT ![w] = [on |-> TRUE, obs |-> known.obs, fields |-> Dirty(known),
                     values |-> [f \in Fields |-> IF f \in Dirty(known) THEN [known.fields[f] EXCEPT !.dirty = FALSE] ELSE NoField]]]
    /\ known' = [known EXCEPT !.dirty = FALSE, !.fields = [f \in Fields |-> [known.fields[f] EXCEPT !.dirty = FALSE]]]
    /\ change' = Nothing
    /\ UNCHANGED <<saved, docs, restarts, absent, agreed, unsaved, forgotten>>

\* One transaction; when it fails, what it took is dirty again.
EndFlush(w, written) ==
    LET t == flush[w] IN
    /\ t.on
    /\ IF written
       THEN /\ saved' = [saved EXCEPT !.obs = t.obs,
                            !.fields = [f \in Fields |-> IF f \in t.fields THEN t.values[f] ELSE saved.fields[f]]]
            /\ UNCHANGED known
       ELSE /\ known' = [known EXCEPT !.dirty = TRUE,
                            !.fields = [f \in Fields |-> [known.fields[f] EXCEPT !.dirty = @ \/ f \in t.fields]]]
            /\ UNCHANGED saved
    /\ flush' = [flush EXCEPT ![w] = NoFlush]
    /\ IF saved' = known' /\ \A x \in Flushers : ~flush'[x].on
       THEN unsaved' = 0 /\ agreed' = absent
       ELSE UNCHANGED <<unsaved, agreed>>
    /\ change' = Nothing
    /\ UNCHANGED <<docs, restarts, absent, forgotten>>

\* A crash loses what was not written; the start loads the rest.
RestartObserver ==
    /\ restarts < MaxRestarts /\ restarts' = restarts + 1
    /\ known' = saved
    /\ flush' = [w \in Flushers |-> NoFlush]
    /\ change' = Nothing
    /\ forgotten' = forgotten + unsaved /\ unsaved' = 0
    /\ absent' = [f \in Fields |-> IF absent[f] < agreed[f] THEN agreed[f] ELSE absent[f]]
    /\ agreed' = absent'
    /\ UNCHANGED <<saved, docs>>

Documents == UNION {[d -> Values] : d \in SUBSET Fields}

DriftNext ==
    \/ \E d \in Documents, quiet \in BOOLEAN : Observe(d, quiet)
    \/ \E w \in Flushers : BeginFlush(w) \/ \E written \in BOOLEAN : EndFlush(w, written)
    \/ RestartObserver

DriftSpec == DriftInit /\ [][DriftNext]_driftVars

-----------------------------------------------------------------------------
\* A field is reported removed only when the last documents were without it, as many
\* as make a field gone, through flushes that fail or pass each other (observer.go: a
\* field that was nearly always there has been missing for a run of observations).
\* A restart forgets what was observed since the database last agreed with memory, for
\* flushes that pass each other can set the database back: what it forgot neither
\* ends the run nor is missing from it.
RemovedMeansAbsent ==
    \A f \in Fields : change[f] = "removed" => absent[f] + forgotten >= GoneAfter

\* What is in memory and not to be written is in the database (observer.go:279: the
\* next flush retries these observations instead of losing them).
\* The code does not keep this (README.md, Disagreements found).
CleanMeansSaved ==
    (\A w \in Flushers : ~flush[w].on) =>
        \A f \in Fields : ~known.fields[f].dirty => saved.fields[f] = known.fields[f]
=============================================================================
