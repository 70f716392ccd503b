----------------------------- MODULE ErrorProofs ----------------------------
(***************************************************************************)
(* What holds of the review of errors, of the search for a refused text and of *)
(* the observer of structures: for any groups and rules, prompts and sentences  *)
(* of any length, any fields, and any bounds.                                *)
(***************************************************************************)
EXTENDS ErrorReview, Bisect, ShapeDrift, TLAPS

-----------------------------------------------------------------------------
(* The review: a pass judges news, and knows the cause of its group's errors.  *)

PassPlaces == {"idle", "groups", "filtered", "original", "ask", "try", "put", "reload", "switch off", "store"}
PassEnds   == {"none", "fix", "guess", "left", "found"}

Passes ==
    [pc : PassPlaces, todo : SUBSET Groups, judged : SUBSET Groups, group : Groups \cup {NoGroup},
     replays : BOOLEAN, owner : BOOLEAN, rest : Seq(Rules), is : PassEnds]

GroupLogs == [kind : Kinds, day : Int, after : Int, fake : BOOLEAN, whole : BOOLEAN]
Verdicts  == [is : PassEnds, old : BOOLEAN, turn : BOOLEAN]

ReviewTypes ==
    /\ group \in [Groups -> GroupLogs]
    /\ verdict \in [Groups -> Verdicts]
    /\ cause \in [Groups -> Causes]
    /\ review \in [Reviewers -> Passes]
    /\ blamed \in [Reviewers -> SUBSET Causes]

Judging(p) == p.pc \notin {"idle", "groups"}

\* A group without a verdict, or one that recurs after it.
News(g) == verdict[g].is = "none" \/ group[g].after >= MinErrors

\* The lock is held by the pass that is under way.
LockOK ==
    /\ reviewing = {q \in Reviewers : review[q].pc # "idle"}
    /\ \A q, r \in Reviewers : review[q].pc # "idle" /\ review[r].pc # "idle" => q = r

\* What a pass judges or will judge is news.
TodoOK == \A q \in Reviewers : \A g \in review[q].todo : review[q].pc # "idle" /\ News(g)
GroupOK ==
    \A q \in Reviewers : Judging(review[q]) =>
        /\ review[q].group \in Groups /\ review[q].group \notin review[q].todo
        /\ News(review[q].group)

\* What a pass has seen of its group's cause, and what it installs.
Blames(p, seen) ==
    /\ Judging(p) => cause[p.group] \in seen
    /\ p.pc = "put" => p.rest # <<>>
    /\ p.pc = "put" /\ p.replays => Head(p.rest) \in seen \/ "passed" \in seen
BlamedOK == \A q \in Reviewers : Blames(review[q], blamed[q])

ErrorInv == ReviewTypes /\ LockOK /\ TodoOK /\ GroupOK /\ BlamedOK

-----------------------------------------------------------------------------
\* A pass that has not begun.
LEMMA NoReviewIsPass == NoReview \in Passes /\ NoReview.pc = "idle" /\ NoReview.todo = {}
<1>1. <<>> \in Seq(Rules)
  OBVIOUS
<1> QED
  BY <1>1 DEF NoReview, Passes, PassPlaces, PassEnds

LEMMA ReviewStarts == ErrorInit => ErrorInv
<1> SUFFICES ASSUME ErrorInit PROVE ErrorInv
  OBVIOUS
<1> USE NoReviewIsPass
<1>1. review \in [Reviewers -> Passes] /\ \A q \in Reviewers : review[q].pc = "idle" /\ review[q].todo = {}
  BY DEF ErrorInit
<1>2. verdict \in [Groups -> Verdicts]
  BY DEF ErrorInit, NoVerdict, Verdicts, PassEnds
<1>3. group \in [Groups -> GroupLogs]
  <2>1. \A g \in Groups : group[g] \in [kind : Kinds, day : {0}, after : {0}, fake : {FALSE}, whole : {FALSE}]
    BY DEF ErrorInit
  <2>2. [kind : Kinds, day : {0}, after : {0}, fake : {FALSE}, whole : {FALSE}] \subseteq GroupLogs
    <3>1. {0} \subseteq Int /\ {FALSE} \subseteq BOOLEAN
      OBVIOUS
    <3> QED
      BY <3>1, Zenon DEF GroupLogs
  <2> QED
    BY <2>1, <2>2 DEF ErrorInit
<1>4. cause \in [Groups -> Causes] /\ blamed \in [Reviewers -> SUBSET Causes] /\ reviewing = {}
  BY DEF ErrorInit
<1> QED
  BY <1>1, <1>2, <1>3, <1>4 DEF ErrorInv, ReviewTypes, LockOK, TodoOK, GroupOK, BlamedOK, Blames, Judging

-----------------------------------------------------------------------------
\* A step of a pass that stores no verdict: it goes on with the groups it had, judges
\* one of them that is news, and has seen its cause.
LEMMA PassMoves ==
    ASSUME ErrorInv, NEW q \in Reviewers, review[q].pc # "idle",
           NEW p \in Passes, review' = [review EXCEPT ![q] = p],
           NEW seen \in SUBSET Causes, blamed' = [blamed EXCEPT ![q] = seen],
           reviewing' = IF p.pc = "idle" THEN reviewing \ {q} ELSE reviewing,
           p.todo \subseteq review[q].todo, p.pc = "idle" => p.todo = {},
           Judging(p) => p.group \in Groups /\ p.group \notin p.todo /\ News(p.group),
           Blames(p, seen),
           UNCHANGED <<group, verdict, cause>>
    PROVE  ErrorInv'
<1>1. /\ review' \in [Reviewers -> Passes] /\ review'[q] = p
      /\ \A r \in Reviewers : r # q => review'[r] = review[r]
  BY DEF ErrorInv, ReviewTypes
<1>2. /\ blamed' \in [Reviewers -> SUBSET Causes] /\ blamed'[q] = seen
      /\ \A r \in Reviewers : r # q => blamed'[r] = blamed[r]
  BY DEF ErrorInv, ReviewTypes
<1>3. ReviewTypes'
  BY <1>1, <1>2 DEF ErrorInv, ReviewTypes
<1>4. \A g : News(g)' <=> News(g)
  BY DEF News
<1>5. LockOK'
  BY <1>1 DEF ErrorInv, LockOK
<1>6. TodoOK'
  BY <1>1, <1>4 DEF ErrorInv, TodoOK
<1>7. GroupOK'
  <2> SUFFICES ASSUME NEW r \in Reviewers, NEW t \in Passes, t = review'[r], Judging(t)
               PROVE  t.group \in Groups /\ t.group \notin t.todo /\ News(t.group)'
    BY <1>1 DEF GroupOK, Judging, News
  <2>1. CASE r = q
    BY <1>1, <1>4, <2>1
  <2>2. CASE r # q
    BY <1>1, <1>4, <2>2 DEF ErrorInv, GroupOK
  <2> QED
    BY <2>1, <2>2
<1>8. BlamedOK'
  BY <1>1, <1>2 DEF ErrorInv, BlamedOK, Blames, Judging
<1> QED
  BY <1>3, <1>5, <1>6, <1>7, <1>8 DEF ErrorInv

\* What happens around the passes: more errors, an older verdict, a rule, a cause
\* that passed.
LEMMA OutsideKeeps ==
    ASSUME ErrorInv, UNCHANGED <<review, reviewing>>,
           group' \in [Groups -> GroupLogs], verdict' \in [Groups -> Verdicts],
           cause' \in [Groups -> Causes], blamed' \in [Reviewers -> SUBSET Causes],
           \A g \in Groups : group'[g].after >= group[g].after /\ verdict'[g].is = verdict[g].is,
           \A q \in Reviewers : Judging(review[q]) => cause'[review[q].group] \in blamed'[q],
           \A q \in Reviewers : review[q].pc # "idle" => blamed[q] \subseteq blamed'[q]
    PROVE  ErrorInv'
<1>1. ReviewTypes'
  BY DEF ErrorInv, ReviewTypes
<1>2. \A g \in Groups : News(g) => News(g)'
  BY ErrorAssumption DEF News, ErrorInv, ReviewTypes, GroupLogs
<1>3. LockOK'
  BY DEF ErrorInv, LockOK
<1>4. TodoOK'
  BY <1>2 DEF ErrorInv, TodoOK, ReviewTypes, Passes
<1>5. GroupOK'
  <2> SUFFICES ASSUME NEW q \in Reviewers, Judging(review[q])
               PROVE  review[q].group \in Groups /\ review[q].group \notin review[q].todo /\ News(review[q].group)'
    BY DEF GroupOK, Judging, News
  <2> QED
    BY <1>2 DEF ErrorInv, GroupOK
<1>6. BlamedOK'
  <2> SUFFICES ASSUME NEW q \in Reviewers PROVE Blames(review[q], blamed[q])'
    BY DEF BlamedOK, Blames, Judging
  <2>1. Blames(review[q], blamed[q])
    BY DEF ErrorInv, BlamedOK
  <2> QED
    BY <2>1 DEF Blames, Judging
<1> QED
  BY <1>1, <1>3, <1>4, <1>5, <1>6 DEF ErrorInv

-----------------------------------------------------------------------------
LEMMA LogErrorKeeps ==
    ASSUME ErrorInv, NEW g \in Groups, NEW whole \in BOOLEAN, LogError(g, whole)
    PROVE  ErrorInv'
<1>1. group[g].day \in Int /\ group[g].after \in Int
  BY DEF ErrorInv, ReviewTypes, GroupLogs
<1>2. OneMore(group[g].day) \in Int /\ OneMore(group[g].after) \in Int /\ OneMore(group[g].after) >= group[g].after
  BY <1>1 DEF OneMore
<1>3. PICK d \in Int, a \in Int : d = OneMore(group[g].day) /\ a = OneMore(group[g].after)
  BY <1>2
<1> DEFINE new == [group[g] EXCEPT !.day = d, !.after = a, !.whole = whole]
<1>6. new \in GroupLogs /\ new.after = a
  BY DEF ErrorInv, ReviewTypes, GroupLogs
<1>4. group' = [group EXCEPT ![g] = new]
  BY <1>3 DEF LogError
<1> HIDE DEF new
<1>5. group' \in [Groups -> GroupLogs] /\ \A h \in Groups : group'[h].after >= group[h].after
  <2>1. \A h \in Groups : group[h].after \in Int
    BY DEF ErrorInv, ReviewTypes, GroupLogs
  <2> QED
    BY <1>2, <1>3, <1>4, <1>6, <2>1 DEF ErrorInv, ReviewTypes
<1> QED
  BY <1>5, OutsideKeeps DEF LogError, ErrorInv, ReviewTypes, BlamedOK, Blames

LEMMA Classify429Keeps ==
    ASSUME ErrorInv, NEW g \in Groups, Classify429(g)
    PROVE  ErrorInv'
<1>1. /\ group' \in [Groups -> GroupLogs]
      /\ \A h \in Groups : group[h].after \in Int /\ group'[h].after = group[h].after
  BY DEF Classify429, ErrorInv, ReviewTypes, GroupLogs
<1> QED
  BY <1>1, OutsideKeeps DEF Classify429, ErrorInv, ReviewTypes, BlamedOK, Blames

LEMMA DayPassesKeeps ==
    ASSUME ErrorInv, NEW g \in Groups, DayPasses(g)
    PROVE  ErrorInv'
<1>1. /\ group' \in [Groups -> GroupLogs]
      /\ \A h \in Groups : group[h].after \in Int /\ group'[h].after = group[h].after
  BY DEF DayPasses, ErrorInv, ReviewTypes, GroupLogs
<1> DEFINE old == verdict[g].is # "none"
<1>2. old \in BOOLEAN /\ verdict' = [verdict EXCEPT ![g].old = old]
  BY DEF DayPasses
<1> HIDE DEF old
<1>3. verdict' \in [Groups -> Verdicts] /\ \A h \in Groups : verdict'[h].is = verdict[h].is
  BY <1>2 DEF ErrorInv, ReviewTypes, Verdicts
<1> QED
  BY <1>1, <1>3, OutsideKeeps DEF DayPasses, ErrorInv, ReviewTypes, BlamedOK, Blames

LEMMA CausePassesKeeps ==
    ASSUME ErrorInv, NEW g \in Groups, CausePasses(g)
    PROVE  ErrorInv'
<1>1. cause' \in [Groups -> Causes] /\ \A h \in Groups : cause'[h] = IF h = g THEN "passed" ELSE cause[h]
  BY DEF CausePasses, ErrorInv, ReviewTypes, Causes
<1>2. /\ blamed' \in [Reviewers -> SUBSET Causes]
      /\ \A q \in Reviewers : blamed'[q] = IF review[q].pc # "idle" /\ review[q].group = g
                                           THEN blamed[q] \cup {"passed"} ELSE blamed[q]
  BY DEF CausePasses, ErrorInv, ReviewTypes, Causes
<1>3. \A q \in Reviewers : Judging(review[q]) => cause'[review[q].group] \in blamed'[q]
  <2> SUFFICES ASSUME NEW q \in Reviewers, Judging(review[q]) PROVE cause'[review[q].group] \in blamed'[q]
    OBVIOUS
  <2>1. review[q].pc # "idle" /\ review[q].group \in Groups /\ cause[review[q].group] \in blamed[q]
    BY DEF Judging, ErrorInv, GroupOK, BlamedOK, Blames
  <2> QED
    BY <1>1, <1>2, <2>1
<1>4. \A q \in Reviewers : blamed[q] \subseteq blamed'[q]
  BY <1>2
<1>5. \A h \in Groups : group[h].after \in Int
  BY DEF ErrorInv, ReviewTypes, GroupLogs
<1>6. UNCHANGED <<group, verdict, review, reviewing>>
  BY DEF CausePasses
<1>7. \A h \in Groups : group'[h].after >= group[h].after
  BY <1>5, <1>6
<1>8. group' \in [Groups -> GroupLogs] /\ verdict' \in [Groups -> Verdicts]
  BY <1>6 DEF ErrorInv, ReviewTypes
<1>9. cause' \in [Groups -> Causes] /\ blamed' \in [Reviewers -> SUBSET Causes]
  BY <1>1, <1>2
<1> QED
  BY <1>3, <1>4, <1>6, <1>7, <1>8, <1>9, OutsideKeeps

\* A step that touches neither the groups nor the passes.
LEMMA ReviewIdle ==
    ASSUME ErrorInv, UNCHANGED <<group, verdict, cause, review, reviewing, blamed>>
    PROVE  ErrorInv'
BY DEF ErrorInv, ReviewTypes, LockOK, TodoOK, GroupOK, BlamedOK, Blames, News, Judging

LEMMA CrashReviewKeeps ==
    ASSUME ErrorInv, CrashReview
    PROVE  ErrorInv'
<1>1. /\ review' \in [Reviewers -> Passes] /\ \A q \in Reviewers : review'[q] = NoReview
      /\ reviewing' = {} /\ UNCHANGED <<group, verdict, cause, blamed>>
  BY NoReviewIsPass DEF CrashReview
<1> QED
  BY <1>1, NoReviewIsPass DEF ErrorInv, ReviewTypes, LockOK, TodoOK, GroupOK, BlamedOK, Blames, Judging, News

-----------------------------------------------------------------------------
\* A group that is due is news.
LEMMA DueIsNews ==
    ASSUME NEW g \in Pending
    PROVE  g \in Groups /\ News(g)
BY DEF Pending, Due, News

LEMMA BeginReviewKeeps ==
    ASSUME ErrorInv, NEW q \in Reviewers, BeginReview(q)
    PROVE  ErrorInv'
<1>1. PICK todo \in SUBSET Pending : review' = [review EXCEPT ![q] = [NoReview EXCEPT !.pc = "groups", !.todo = todo]]
  BY DEF BeginReview
<1>2. PICK p : p = [NoReview EXCEPT !.pc = "groups", !.todo = todo]
  OBVIOUS
<1>3. p \in Passes /\ p.pc = "groups" /\ p.todo = todo
  <2>1. todo \in SUBSET Groups
    BY DEF Pending
  <2>2. <<>> \in Seq(Rules)
    OBVIOUS
  <2> QED
    BY <1>2, <2>1, <2>2 DEF NoReview, Passes, PassPlaces, PassEnds
<1>4. /\ review' \in [Reviewers -> Passes] /\ review'[q] = p
      /\ \A r \in Reviewers : r # q => review'[r] = review[r]
  BY <1>1, <1>2, <1>3 DEF ErrorInv, ReviewTypes
<1>5. /\ reviewing' = {q} /\ UNCHANGED <<group, verdict, cause, blamed>>
      /\ \A r \in Reviewers : review[r].pc = "idle"
  BY DEF BeginReview, Free, Others, ErrorInv, LockOK
<1>6. ReviewTypes'
  BY <1>4, <1>5 DEF ErrorInv, ReviewTypes
<1>7. LockOK'
  BY <1>3, <1>4, <1>5 DEF LockOK
<1>8. TodoOK'
  <2>1. \A r \in Reviewers : \A g \in review'[r].todo : r = q
    BY <1>4, <1>5 DEF ErrorInv, TodoOK
  <2>2. \A g \in todo : News(g) /\ News(g)'
    BY <1>5, DueIsNews DEF News
  <2> QED
    BY <1>3, <1>4, <2>1, <2>2 DEF TodoOK
<1>9. GroupOK' /\ BlamedOK'
  BY <1>3, <1>4, <1>5 DEF GroupOK, BlamedOK, Blames, Judging
<1> QED
  BY <1>6, <1>7, <1>8, <1>9 DEF ErrorInv

\* A pass that ends lets the lock go.
LEMMA PassEndsKeeps ==
    ASSUME ErrorInv, NEW q \in Reviewers, EndReview(q) \/ ModelFailsToJudge(q)
    PROVE  ErrorInv'
<1>1. /\ review[q].pc # "idle" /\ review' = [review EXCEPT ![q] = NoReview] /\ reviewing' = reviewing \ {q}
      /\ UNCHANGED <<group, verdict, cause, blamed>>
  BY DEF EndReview, ModelFailsToJudge, Released, Others
<1>2. blamed[q] \in SUBSET Causes /\ blamed' = [blamed EXCEPT ![q] = blamed[q]]
  BY <1>1 DEF ErrorInv, ReviewTypes
<1>3. PICK p \in Passes : p = NoReview
  BY NoReviewIsPass
<1>4. p.pc = "idle" /\ p.todo = {} /\ ~Judging(p) /\ Blames(p, blamed[q])
  BY <1>3, NoReviewIsPass DEF Judging, Blames
<1> QED
  BY <1>1, <1>2, <1>3, <1>4, PassMoves

-----------------------------------------------------------------------------
\* A pass that goes on with the group it judges.
LEMMA GoesOn ==
    ASSUME ErrorInv, NEW q \in Reviewers, Judging(review[q]),
           NEW p \in Passes, review' = [review EXCEPT ![q] = p],
           NEW seen \in SUBSET Causes, blamed' = [blamed EXCEPT ![q] = seen],
           Judging(p), p.todo = review[q].todo, p.group = review[q].group,
           cause[review[q].group] \in seen,
           p.pc = "put" => p.rest # <<>>,
           p.pc = "put" /\ p.replays => Head(p.rest) \in seen \/ "passed" \in seen,
           UNCHANGED <<group, verdict, cause, reviewing>>
    PROVE  ErrorInv'
<1>1. review[q].pc # "idle" /\ p.pc # "idle"
  BY DEF Judging
<1>2. p.group \in Groups /\ p.group \notin p.todo /\ News(p.group)
  BY DEF ErrorInv, GroupOK
<1>3. Blames(p, seen)
  BY DEF Blames
<1> QED
  BY <1>1, <1>2, <1>3, PassMoves

\* Nothing more is seen of the cause than the pass has seen.
LEMMA SeenStays ==
    ASSUME ErrorInv, NEW q \in Reviewers, Judging(review[q])
    PROVE  /\ blamed = [blamed EXCEPT ![q] = blamed[q]]
           /\ blamed[q] \in SUBSET Causes /\ cause[review[q].group] \in blamed[q]
BY DEF ErrorInv, ReviewTypes, BlamedOK, Blames

LEMMA TurnsKeeps ==
    ASSUME ErrorInv, NEW q \in Reviewers, Judging(review[q]),
           NEW pc \in PassPlaces \ {"idle", "groups", "put"}, Turns(q, pc),
           NEW seen \in SUBSET Causes, blamed' = [blamed EXCEPT ![q] = seen],
           cause[review[q].group] \in seen,
           UNCHANGED <<group, verdict, cause, reviewing>>
    PROVE  ErrorInv'
<1>1. PICK p : p = [review[q] EXCEPT !.pc = pc]
  OBVIOUS
<1>2. p \in Passes /\ p.pc = pc /\ p.todo = review[q].todo /\ p.group = review[q].group
  BY <1>1 DEF ErrorInv, ReviewTypes, Passes
<1>3. review' = [review EXCEPT ![q] = p] /\ p.pc # "put" /\ Judging(p)
  BY <1>1, <1>2 DEF Turns, Judging
<1> QED
  BY <1>2, <1>3, GoesOn

LEMMA JudgesKeeps ==
    ASSUME ErrorInv, NEW q \in Reviewers, Judging(review[q]),
           NEW is \in PassEnds, Judges(q, is),
           NEW seen \in SUBSET Causes, blamed' = [blamed EXCEPT ![q] = seen],
           cause[review[q].group] \in seen,
           UNCHANGED <<group, verdict, cause, reviewing>>
    PROVE  ErrorInv'
<1>1. PICK p : p = [review[q] EXCEPT !.pc = "store", !.is = is, !.rest = <<>>, !.owner = FALSE]
  OBVIOUS
<1>2. p \in Passes /\ p.pc = "store" /\ p.todo = review[q].todo /\ p.group = review[q].group
  <2>1. <<>> \in Seq(Rules)
    OBVIOUS
  <2> QED
    BY <1>1, <2>1 DEF ErrorInv, ReviewTypes, Passes, PassPlaces
<1>3. review' = [review EXCEPT ![q] = p] /\ p.pc # "put" /\ Judging(p)
  BY <1>1, <1>2 DEF Judges, Judging
<1> QED
  BY <1>2, <1>3, GoesOn

LEMMA TakeGroupKeeps ==
    ASSUME ErrorInv, NEW q \in Reviewers, NEW g \in Groups, NEW owner \in BOOLEAN, TakeGroup(q, g, owner)
    PROVE  ErrorInv'
<1> DEFINE replays == group[g].whole /\ group[g].kind # "auth"
           todo == review[q].todo \ {g}
<1>1. PICK r \in BOOLEAN : r <=> replays
  OBVIOUS
<1>2. PICK p : p = IF g \in review[q].judged THEN [review[q] EXCEPT !.todo = todo]
                   ELSE [review[q] EXCEPT !.pc = "filtered", !.todo = todo, !.group = g, !.owner = owner, !.replays = replays]
  OBVIOUS
<1>3. /\ review' = [review EXCEPT ![q] = p] /\ blamed' = [blamed EXCEPT ![q] = {cause[g]}]
      /\ review[q].pc = "groups" /\ g \in review[q].todo /\ UNCHANGED <<group, verdict, cause, reviewing>>
  BY <1>2 DEF TakeGroup, Others
<1>4. News(g)
  BY <1>3 DEF ErrorInv, TodoOK
<1>5. review[q] \in Passes /\ todo \in SUBSET Groups /\ todo \subseteq review[q].todo /\ g \notin todo
  BY DEF ErrorInv, ReviewTypes, Passes
<1>6. {cause[g]} \in SUBSET Causes
  BY DEF ErrorInv, ReviewTypes
<1>7. p \in Passes /\ p.todo = todo /\ (Judging(p) => p.group = g /\ p.pc = "filtered") /\ p.pc \in {"groups", "filtered"}
  <2>0. replays \in BOOLEAN
    OBVIOUS
  <2> HIDE DEF todo, replays
  <2>1. CASE g \in review[q].judged
    <3>1. p = [review[q] EXCEPT !.todo = todo]
      BY <1>2, <2>1
    <3> QED
      BY <1>3, <1>5, <3>1 DEF Passes, Judging
  <2>2. CASE g \notin review[q].judged
    <3>1. p = [review[q] EXCEPT !.pc = "filtered", !.todo = todo, !.group = g, !.owner = owner, !.replays = replays]
      BY <1>2, <2>2
    <3> QED
      BY <1>5, <2>0, <3>1 DEF Passes, PassPlaces
  <2> QED
    BY <2>1, <2>2
<1>8. Blames(p, {cause[g]})
  BY <1>7 DEF Blames
<1> QED
  BY <1>3, <1>4, <1>5, <1>6, <1>7, <1>8, PassMoves

LEMMA ReplayFilteredKeeps ==
    ASSUME ErrorInv, NEW q \in Reviewers, ReplayFiltered(q)
    PROVE  ErrorInv'
<1>1. Judging(review[q]) /\ UNCHANGED <<group, verdict, cause, reviewing, blamed>>
  BY DEF ReplayFiltered, Judging, Others
<1>2. Turns(q, "ask") \/ Turns(q, "original") \/ Judges(q, "left")
  BY DEF ReplayFiltered
<1>3. {"ask", "original"} \subseteq PassPlaces \ {"idle", "groups", "put"} /\ "left" \in PassEnds
  BY DEF PassPlaces, PassEnds
<1> QED
  BY <1>1, <1>2, <1>3, SeenStays, TurnsKeeps, JudgesKeeps

LEMMA ReplayOriginalKeeps ==
    ASSUME ErrorInv, NEW q \in Reviewers, ReplayOriginal(q)
    PROVE  ErrorInv'
<1> DEFINE c == cause[review[q].group]
<1>1. Judging(review[q]) /\ UNCHANGED <<group, verdict, cause, reviewing>> /\ blamed' = [blamed EXCEPT ![q] = {c}]
  BY DEF ReplayOriginal, Judging, Others
<1>2. {c} \in SUBSET Causes
  BY <1>1 DEF ErrorInv, GroupOK, ReviewTypes
<1>3. "ask" \in PassPlaces \ {"idle", "groups", "put"} /\ "left" \in PassEnds
  BY DEF PassPlaces, PassEnds
<1>4. CASE Judges(q, "left")
  BY <1>1, <1>2, <1>3, <1>4, JudgesKeeps
<1>5. CASE Turns(q, "ask")
  BY <1>1, <1>2, <1>3, <1>5, TurnsKeeps
<1>6. CASE review' = [review EXCEPT ![q] = [@ EXCEPT !.pc = "ask", !.replays = FALSE]]
  <2>1. PICK p : p = [review[q] EXCEPT !.pc = "ask", !.replays = FALSE]
    OBVIOUS
  <2>2. p \in Passes /\ p.pc = "ask" /\ p.todo = review[q].todo /\ p.group = review[q].group
    BY <2>1, <1>3 DEF ErrorInv, ReviewTypes, Passes
  <2>3. review' = [review EXCEPT ![q] = p] /\ Judging(p) /\ p.pc # "put"
    BY <1>6, <2>1, <2>2 DEF Judging
  <2> QED
    BY <1>1, <1>2, <2>2, <2>3, GoesOn
<1>7. CASE /\ c \in Rules
           /\ review' = [review EXCEPT ![q] = [@ EXCEPT !.pc = "put", !.is = "found", !.rest = <<c>>]]
  <2>1. PICK p : p = [review[q] EXCEPT !.pc = "put", !.is = "found", !.rest = <<c>>]
    OBVIOUS
  <2>2. p \in Passes /\ p.pc = "put" /\ p.todo = review[q].todo /\ p.group = review[q].group /\ p.rest = <<c>>
    <3>1. PICK s \in Seq(Rules) : s = <<c>>
      <4>1. PICK r \in Rules : r = c
        BY <1>7
      <4>2. <<r>> \in Seq(Rules)
        OBVIOUS
      <4> QED
        BY <4>1, <4>2
    <3>2. p = [review[q] EXCEPT !.pc = "put", !.is = "found", !.rest = s]
      BY <2>1, <3>1
    <3>3. p \in Passes /\ p.pc = "put" /\ p.todo = review[q].todo /\ p.group = review[q].group /\ p.rest = s
      BY <3>2 DEF ErrorInv, ReviewTypes, Passes, PassPlaces, PassEnds
    <3> QED
      BY <3>1, <3>3
  <2>3. review' = [review EXCEPT ![q] = p] /\ Judging(p) /\ p.rest # <<>> /\ Head(p.rest) \in {c}
    BY <1>7, <2>1, <2>2 DEF Judging
  <2> QED
    BY <1>1, <1>2, <2>2, <2>3, GoesOn
<1> QED
  BY <1>4, <1>5, <1>6, <1>7 DEF ReplayOriginal

-----------------------------------------------------------------------------
\* What a model may answer is a list of rules.
LEMMA CandidatesAreLists ==
    ASSUME NEW candidates \in Candidates
    PROVE  candidates \in Seq(Rules)
<1>1. CASE candidates = <<>>
  BY <1>1
<1>2. CASE candidates \in {<<r>> : r \in Rules}
  <2>1. PICK r \in Rules : candidates = <<r>>
    BY <1>2
  <2>2. <<r>> \in Seq(Rules)
    OBVIOUS
  <2> QED
    BY <2>1, <2>2
<1>3. CASE candidates \in {<<r, s>> : r \in Rules, s \in Rules}
  <2>1. PICK r \in Rules, s \in Rules : candidates = <<r, s>>
    BY <1>3
  <2>2. <<r, s>> \in Seq(Rules)
    OBVIOUS
  <2> QED
    BY <2>1, <2>2
<1> QED
  BY <1>1, <1>2, <1>3 DEF Candidates

LEMMA LeftIsEnd == \A q : Left(q) \in PassEnds
  BY DEF Left, PassEnds

LEMMA AskKeeps ==
    ASSUME ErrorInv, NEW q \in Reviewers, NEW action, NEW candidates \in Candidates, Ask(q, action, candidates)
    PROVE  ErrorInv'
<1>1. Judging(review[q]) /\ UNCHANGED <<group, verdict, cause, reviewing, blamed>>
  BY DEF Ask, Judging, Others
<1>2. CASE Judges(q, Left(q))
  <2>1. PICK is \in PassEnds : is = Left(q)
    BY LeftIsEnd
  <2>2. Judges(q, is)
    BY <1>2, <2>1
  <2> QED
    BY <1>1, <2>2, SeenStays, JudgesKeeps
<1>3. CASE ~Judges(q, Left(q))
  <2>1. PICK pc \in {"try", "switch off"} : pc = IF action = "blacklist" THEN "try" ELSE "switch off"
    OBVIOUS
  <2>2. review' = [review EXCEPT ![q] = [@ EXCEPT !.rest = candidates, !.owner = FALSE, !.pc = IF action = "blacklist" THEN "try" ELSE "switch off"]]
    BY <1>3 DEF Ask
  <2>3. PICK p : p = [review[q] EXCEPT !.rest = candidates, !.owner = FALSE, !.pc = pc]
    OBVIOUS
  <2>4. review' = [review EXCEPT ![q] = p]
    BY <2>1, <2>2, <2>3
  <2>5. p \in Passes /\ p.pc = pc /\ p.todo = review[q].todo /\ p.group = review[q].group
    BY <2>3, CandidatesAreLists DEF ErrorInv, ReviewTypes, Passes, PassPlaces
  <2>6. Judging(p) /\ p.pc # "put"
    BY <2>5 DEF Judging
  <2> QED
    BY <1>1, <2>4, <2>5, <2>6, SeenStays, GoesOn
<1> QED
  BY <1>2, <1>3

\* A pass drops the candidate it is at.
LEMMA DropsCandidate ==
    ASSUME ErrorInv, NEW q \in Reviewers, Judging(review[q]), review[q].rest # <<>>,
           review' = [review EXCEPT ![q] = [review[q] EXCEPT !.pc = "try", !.rest = Tail(@)]],
           UNCHANGED <<group, verdict, cause, reviewing, blamed>>
    PROVE  ErrorInv'
<1>1. PICK p : p = [review[q] EXCEPT !.pc = "try", !.rest = Tail(@)]
  OBVIOUS
<1>2. review[q] \in Passes /\ review[q].rest \in Seq(Rules) /\ Tail(review[q].rest) \in Seq(Rules)
  <2>1. review[q] \in Passes /\ review[q].rest \in Seq(Rules)
    BY DEF ErrorInv, ReviewTypes, Passes
  <2> QED
    BY <2>1
<1>3. p \in Passes /\ p.pc = "try" /\ p.todo = review[q].todo /\ p.group = review[q].group
  BY <1>1, <1>2 DEF Passes, PassPlaces
<1>4. Judging(p) /\ p.pc # "put" /\ review' = [review EXCEPT ![q] = p]
  BY <1>1, <1>3 DEF Judging
<1> QED
  BY <1>3, <1>4, SeenStays, GoesOn

LEMMA TryCandidateKeeps ==
    ASSUME ErrorInv, NEW q \in Reviewers, TryCandidate(q)
    PROVE  ErrorInv'
<1>1. Judging(review[q]) /\ review[q].pc = "try" /\ UNCHANGED <<group, verdict, cause, reviewing, blamed>>
  BY DEF TryCandidate, Judging, Others
<1>2. CASE review[q].rest = <<>>
  <2>1. PICK is \in PassEnds : is = Left(q)
    BY LeftIsEnd
  <2>2. Judges(q, is)
    BY <1>2, <2>1 DEF TryCandidate
  <2> QED
    BY <1>1, <2>2, SeenStays, JudgesKeeps
<1>3. CASE review[q].rest # <<>> /\ review' = [review EXCEPT ![q].rest = Tail(@)]
  <2>1. [review[q] EXCEPT !.pc = "try", !.rest = Tail(@)] = [review[q] EXCEPT !.rest = Tail(@)]
    BY <1>1 DEF ErrorInv, ReviewTypes, Passes
  <2>2. review' = [review EXCEPT ![q] = [review[q] EXCEPT !.rest = Tail(@)]]
    BY <1>3
  <2> QED
    BY <1>1, <1>3, <2>1, <2>2, DropsCandidate
<1>4. CASE /\ review[q].rest # <<>> /\ Turns(q, "put")
           /\ review[q].replays => Accepted(q, Head(review[q].rest))
  <2>1. PICK p : p = [review[q] EXCEPT !.pc = "put"]
    OBVIOUS
  <2>2. /\ p \in Passes /\ p.pc = "put" /\ p.todo = review[q].todo /\ p.group = review[q].group
        /\ p.rest = review[q].rest /\ p.replays = review[q].replays
    BY <2>1 DEF ErrorInv, ReviewTypes, Passes, PassPlaces
  <2>3. p.replays => Head(p.rest) \in blamed[q] \/ "passed" \in blamed[q]
    BY <1>1, <1>4, <2>2, SeenStays DEF Accepted
  <2>4. Judging(p) /\ review' = [review EXCEPT ![q] = p]
    BY <1>4, <2>1, <2>2 DEF Turns, Judging
  <2> QED
    BY <1>1, <1>4, <2>2, <2>3, <2>4, SeenStays, GoesOn
<1> QED
  BY <1>2, <1>3, <1>4 DEF TryCandidate

LEMMA PutFilterKeeps ==
    ASSUME ErrorInv, NEW q \in Reviewers, PutFilter(q)
    PROVE  ErrorInv'
<1>1. Judging(review[q]) /\ review[q].rest # <<>> /\ UNCHANGED <<group, verdict, cause, reviewing, blamed>>
  BY DEF PutFilter, Judging, ErrorInv, BlamedOK, Blames
<1>2. Judges(q, "fix") \/ Judges(q, "left") \/ Turns(q, "reload") \/ review' = [review EXCEPT ![q].pc = "try", ![q].rest = Tail(@)]
  BY DEF PutFilter
<1>3. "reload" \in PassPlaces \ {"idle", "groups", "put"} /\ {"fix", "left"} \subseteq PassEnds
  BY DEF PassPlaces, PassEnds
<1>4. CASE review' = [review EXCEPT ![q].pc = "try", ![q].rest = Tail(@)]
  <2>1. review' = [review EXCEPT ![q] = [review[q] EXCEPT !.pc = "try", !.rest = Tail(@)]]
    BY <1>4 DEF ErrorInv, ReviewTypes, Passes
  <2> QED
    BY <1>1, <2>1, DropsCandidate
<1> QED
  BY <1>1, <1>2, <1>3, <1>4, SeenStays, TurnsKeeps, JudgesKeeps

LEMMA RulesReloadedKeeps ==
    ASSUME ErrorInv, NEW q \in Reviewers, RulesReloaded(q)
    PROVE  ErrorInv'
<1>1. Judging(review[q]) /\ Judges(q, "fix") /\ "fix" \in PassEnds /\ UNCHANGED <<group, verdict, cause, reviewing, blamed>>
  BY DEF RulesReloaded, Judging, PassEnds, Others
<1> QED
  BY <1>1, SeenStays, JudgesKeeps

LEMMA SwitchOffKeeps ==
    ASSUME ErrorInv, NEW q \in Reviewers, NEW evidence \in BOOLEAN, SwitchOff(q, evidence)
    PROVE  ErrorInv'
<1>1. Judging(review[q]) /\ UNCHANGED <<group, verdict, cause, reviewing, blamed>>
  BY DEF SwitchOff, Judging
<1>2. PICK is \in PassEnds : is = IF evidence THEN "fix" ELSE Left(q)
  BY LeftIsEnd DEF PassEnds
<1>3. Judges(q, is)
  BY <1>2 DEF SwitchOff
<1> QED
  BY <1>1, <1>3, SeenStays, JudgesKeeps

-----------------------------------------------------------------------------
\* The verdict is stored by the one pass under way, whose other groups stay news.
LEMMA StoreVerdictKeeps ==
    ASSUME ErrorInv, NEW q \in Reviewers, StoreVerdict(q)
    PROVE  ErrorInv'
<1> DEFINE g == review[q].group
<1>1. /\ review[q].pc = "store" /\ review[q] \in Passes /\ g \in Groups /\ g \notin review[q].todo
      /\ \A r \in Reviewers : r # q => review[r].pc = "idle" /\ review[r].todo = {}
  <2>1. review[q].pc = "store" /\ review[q].pc \notin {"idle", "groups"}
    BY DEF StoreVerdict
  <2> QED
    BY <2>1 DEF ErrorInv, ReviewTypes, GroupOK, LockOK, TodoOK, Judging, Passes
<1>2. PICK p : p = [NoReview EXCEPT !.pc = "groups", !.todo = review[q].todo, !.judged = review[q].judged]
  OBVIOUS
<1>3. p \in Passes /\ p.pc = "groups" /\ p.todo = review[q].todo
  <2>1. <<>> \in Seq(Rules)
    OBVIOUS
  <2> QED
    BY <1>1, <1>2, <2>1 DEF NoReview, Passes, PassPlaces, PassEnds
<1>4. /\ review' \in [Reviewers -> Passes] /\ review'[q] = p
      /\ \A r \in Reviewers : r # q => review'[r].pc = "idle" /\ review'[r].todo = {}
  <2>1. \A r \in Reviewers : r # q => review'[r] = [review[r] EXCEPT !.judged = review[r].judged]
    BY <1>1 DEF StoreVerdict
  <2>2. \A r \in Reviewers : review[r] \in Passes
    BY DEF ErrorInv, ReviewTypes
  <2>3. ASSUME NEW r \in Reviewers, r # q PROVE review'[r] = review[r]
    <3>1. PICK o \in Passes : o = review[r]
      BY <2>2
    <3>2. [o EXCEPT !.judged = o.judged] = o
      BY DEF Passes
    <3> QED
      BY <2>1, <2>3, <3>1, <3>2
  <2>4. review'[q] = p /\ DOMAIN review' = Reviewers /\ review' = [r \in Reviewers |-> review'[r]]
    BY <1>2 DEF StoreVerdict
  <2> QED
    BY <1>1, <1>3, <2>2, <2>3, <2>4
<1>5. /\ group' \in [Groups -> GroupLogs] /\ verdict' \in [Groups -> Verdicts]
      /\ \A h \in Groups : h # g => group'[h] = group[h] /\ verdict'[h] = verdict[h]
      /\ UNCHANGED <<cause, reviewing, blamed>>
  <2>1. review[q].is \in PassEnds
    BY <1>1 DEF Passes
  <2>2. PICK e \in PassEnds, t \in BOOLEAN : e = review[q].is /\ (t <=> ~verdict[g].turn)
    BY <2>1
  <2>3. verdict' = [verdict EXCEPT ![g] = [is |-> review[q].is, old |-> FALSE, turn |-> ~verdict[g].turn]]
    BY DEF StoreVerdict
  <2>4. [is |-> review[q].is, old |-> FALSE, turn |-> ~verdict[g].turn] \in Verdicts
    BY <2>1 DEF Verdicts
  <2>5. verdict' \in [Groups -> Verdicts] /\ \A h \in Groups : h # g => verdict'[h] = verdict[h]
    BY <1>1, <2>3, <2>4 DEF ErrorInv, ReviewTypes
  <2>6. group' = [group EXCEPT ![g].after = 0]
    BY DEF StoreVerdict
  <2>7. group' \in [Groups -> GroupLogs] /\ \A h \in Groups : h # g => group'[h] = group[h]
    BY <1>1, <2>6 DEF ErrorInv, ReviewTypes, GroupLogs
  <2> QED
    BY <2>5, <2>7 DEF StoreVerdict
<1>6. \A h \in Groups : h # g /\ News(h) => News(h)'
  BY <1>5 DEF News
<1>7. ReviewTypes'
  BY <1>4, <1>5 DEF ErrorInv, ReviewTypes
<1>8. LockOK'
  BY <1>1, <1>3, <1>4, <1>5 DEF ErrorInv, LockOK
<1>9. TodoOK'
  <2>1. \A h \in review[q].todo : h \in Groups /\ h # g /\ News(h)
    BY <1>1 DEF ErrorInv, TodoOK, Passes
  <2>2. \A h \in p.todo : News(h)'
    BY <1>3, <1>6, <2>1
  <2>3. \A r \in Reviewers : \A h \in review'[r].todo : r = q
    BY <1>4
  <2> QED
    BY <1>3, <1>4, <2>2, <2>3 DEF TodoOK
<1>10. GroupOK' /\ BlamedOK'
  BY <1>3, <1>4 DEF GroupOK, BlamedOK, Blames, Judging
<1> QED
  BY <1>7, <1>8, <1>9, <1>10 DEF ErrorInv

-----------------------------------------------------------------------------
LEMMA PassStepKeeps ==
    ASSUME ErrorInv, NEW q \in Reviewers, PassStep(q)
    PROVE  ErrorInv'
<1>1. CASE \E g \in Groups, owner \in BOOLEAN : TakeGroup(q, g, owner)
  BY <1>1, TakeGroupKeeps
<1>2. CASE EndReview(q) \/ ModelFailsToJudge(q)
  BY <1>2, PassEndsKeeps
<1>3. CASE ReplayFiltered(q) \/ ReplayOriginal(q)
  BY <1>3, ReplayFilteredKeeps, ReplayOriginalKeeps
<1>4. CASE \E action \in {"ignore", "blacklist", "disable"}, c \in Candidates : Ask(q, action, c)
  BY <1>4, AskKeeps
<1>5. CASE TryCandidate(q) \/ PutFilter(q) \/ RulesReloaded(q)
  BY <1>5, TryCandidateKeeps, PutFilterKeeps, RulesReloadedKeeps
<1>6. CASE \E evidence \in BOOLEAN : SwitchOff(q, evidence)
  BY <1>6, SwitchOffKeeps
<1>7. CASE StoreVerdict(q)
  BY <1>7, StoreVerdictKeeps
<1> QED
  BY <1>1, <1>2, <1>3, <1>4, <1>5, <1>6, <1>7 DEF PassStep

LEMMA ErrorStep == ErrorInv /\ [ErrorNext]_errorVars => ErrorInv'
<1> SUFFICES ASSUME ErrorInv, [ErrorNext]_errorVars PROVE ErrorInv'
  OBVIOUS
<1>1. CASE \E q \in Reviewers : BeginReview(q) \/ PassStep(q)
  BY <1>1, BeginReviewKeeps, PassStepKeeps
<1>2. CASE \E a \in Actors : InstallRules(a)
  BY <1>2, ReviewIdle DEF InstallRules
<1>3. CASE BackoffEnds
  BY <1>3, ReviewIdle DEF BackoffEnds, Others
<1>4. CASE \E g \in Groups : \/ \E whole \in BOOLEAN : LogError(g, whole)
                             \/ Classify429(g) \/ DayPasses(g) \/ CausePasses(g)
  BY <1>4, LogErrorKeeps, Classify429Keeps, DayPassesKeeps, CausePassesKeeps
<1>5. CASE \E r \in Rules : SaveFilter(r) \/ DeleteFilter(r)
  BY <1>5, ReviewIdle DEF SaveFilter, DeleteFilter, ChangeRules
<1>6. CASE CrashReview
  BY <1>6, CrashReviewKeeps
<1>7. CASE UNCHANGED errorVars
  BY <1>7, ReviewIdle DEF errorVars
<1> QED
  BY <1>1, <1>2, <1>3, <1>4, <1>5, <1>6, <1>7 DEF ErrorNext, Outside

\* A pass judges news, under the lock, and knows what was the cause of its group's
\* errors when it replayed them.
THEOREM ErrorInvariant == ErrorSpec => []ErrorInv
BY ReviewStarts, ErrorStep, PTL DEF ErrorSpec

-----------------------------------------------------------------------------
\* A verdict is stored by StoreVerdict alone.
LEMMA OnlyStoreJudges ==
    ASSUME ErrorInv, ErrorNext, NEW g \in Groups, verdict'[g].turn # verdict[g].turn
    PROVE  \E q \in Reviewers : StoreVerdict(q)
<1>1. CASE \E q \in Reviewers : BeginReview(q)
  BY <1>1 DEF BeginReview, Others
<1>2. ASSUME NEW q \in Reviewers, PassStep(q), ~StoreVerdict(q) PROVE verdict' = verdict
  BY <1>2 DEF PassStep, TakeGroup, EndReview, ModelFailsToJudge, ReplayFiltered, ReplayOriginal, Ask,
              TryCandidate, PutFilter, RulesReloaded, SwitchOff, Others
<1>3. CASE (\E a \in Actors : InstallRules(a)) \/ BackoffEnds
  BY <1>3 DEF InstallRules, BackoffEnds, Others
<1>4. CASE Outside
  <2>1. ASSUME NEW h \in Groups, DayPasses(h) PROVE verdict'[g].turn = verdict[g].turn
    <3> DEFINE old == verdict[h].is # "none"
    <3>1. old \in BOOLEAN /\ verdict' = [verdict EXCEPT ![h].old = old]
      BY <2>1 DEF DayPasses
    <3> HIDE DEF old
    <3> QED
      BY <3>1 DEF ErrorInv, ReviewTypes, Verdicts
  <2>2. CASE \E h \in Groups : DayPasses(h)
    BY <2>1, <2>2
  <2>3. CASE ~\E h \in Groups : DayPasses(h)
    <3>1. verdict' = verdict
      BY <1>4, <2>3 DEF Outside, LogError, Classify429, CausePasses, SaveFilter, DeleteFilter, ChangeRules, CrashReview
    <3> QED
      BY <3>1
  <2> QED
    BY <2>2, <2>3
<1> QED
  BY <1>1, <1>2, <1>3, <1>4 DEF ErrorNext

\* A group is judged again only for errors that came after its last verdict.
THEOREM JudgesOnlyNews == ErrorSpec => JudgedOnNews
<1> DEFINE News_g(g) == verdict'[g].turn # verdict[g].turn /\ verdict[g].is # "none" => group[g].after >= MinErrors
<1>1. ErrorInv /\ [ErrorNext]_errorVars => [\A g \in Groups : News_g(g)]_errorVars
  <2> SUFFICES ASSUME ErrorInv, ErrorNext, NEW g \in Groups, verdict'[g].turn # verdict[g].turn, verdict[g].is # "none"
               PROVE  group[g].after >= MinErrors
    OBVIOUS
  <2>1. PICK q \in Reviewers : StoreVerdict(q)
    BY OnlyStoreJudges
  <2>2. Judging(review[q]) /\ News(review[q].group)
    BY <2>1 DEF StoreVerdict, Judging, ErrorInv, GroupOK
  <2>3. g = review[q].group
    BY <2>1 DEF StoreVerdict, ErrorInv, ReviewTypes
  <2> QED
    BY <2>2, <2>3 DEF News
<1> QED
  BY <1>1, ErrorInvariant, PTL DEF ErrorSpec, JudgedOnNews

\* A rule that the review installs after a replay is the cause of the group's errors,
\* or the cause passed meanwhile.
THEOREM RulesHaveCause == ErrorSpec => InstalledForCause
<1>1. ErrorInv => \A q \in Reviewers : review[q].pc = "put" /\ review[q].replays
                                       => blamed[q] \cap {Head(review[q].rest), "passed"} # {}
  BY DEF ErrorInv, BlamedOK, Blames
<1>2. ErrorInv /\ [ErrorNext]_errorVars =>
        [\A q \in Reviewers : review[q].pc = "put" /\ review[q].replays /\ rules' # rules /\ steps' = steps
                              => blamed[q] \cap {Head(review[q].rest), "passed"} # {}]_errorVars
  BY <1>1
<1> QED
  BY <1>2, ErrorInvariant, PTL DEF ErrorSpec, InstalledForCause

-----------------------------------------------------------------------------
(* The search: what it goes on with or found was removed from a request that  *)
(* was accepted.                                                            *)

Texts == [of : {"prompt", "sentence"}, sentence : Int, lo : Int, hi : Int]

SearchTypeOK ==
    /\ search \in [pc : {"whole", "halve", "found", "none"}, text : Texts, half : 1 .. 2, replays : Int]
    /\ offending \in Words \X Words

\* What is searched on, or found, was removed in a request that was accepted.
BisectInv ==
    /\ SearchTypeOK
    /\ search.replays <= BisectReplays
    /\ search.pc \in {"halve", "found"} => AcceptedWithout(search.text)

-----------------------------------------------------------------------------
\* The first sentences of a prompt, or all of them, are a text.
LEMMA BisectStarts == BisectInit => BisectInv
<1> SUFFICES ASSUME BisectInit PROVE BisectInv
  OBVIOUS
<1>1. SentencesOf(1, NSentences) \in Texts
  BY BisectAssumption DEF SentencesOf, Texts
<1>2. offending \in Words \X Words
  BY DEF BisectInit
<1> QED
  BY <1>1, <1>2, BisectAssumption DEF BisectInit, BisectInv, SearchTypeOK

\* A half of a text is a text.
LEMMA HalfOfText ==
    ASSUME NEW text \in Texts, NEW n \in 1 .. 2
    PROVE  Half(text, n) \in Texts
<1>1. Size(text) \div 2 \in Int
  BY DEF Size, Texts
<1> DEFINE h == Size(text) \div 2
<1>2. text.lo + h - 1 \in Int /\ text.lo + h \in Int
  BY <1>1 DEF Texts
<1>3. Half(text, n) = IF n = 1 THEN [text EXCEPT !.hi = text.lo + h - 1] ELSE [text EXCEPT !.lo = text.lo + h]
  BY DEF Half
<1> HIDE DEF h
<1> QED
  BY <1>2, <1>3 DEF Texts

\* One sentence and all of its words are the same text: what is accepted without the
\* one is accepted without the other.
LEMMA NarrowedKeeps ==
    ASSUME SearchTypeOK, NEW text \in Texts, AcceptedWithout(text)
    PROVE  Narrowed(text) \in Texts /\ AcceptedWithout(Narrowed(text))
<1>1. CASE text.of = "prompt" /\ Size(text) = 1
  <2> DEFINE words == WordsOf(text.lo, 1, NWords)
  <2>1. Narrowed(text) = words
    BY <1>1 DEF Narrowed
  <2>2. words \in Texts
    BY BisectAssumption DEF WordsOf, Texts
  <2>3. text.lo = text.hi
    BY <1>1 DEF Size, Texts
  <2>4. offending[1] \in Int /\ offending[2] \in Int /\ 1 <= offending[2] /\ offending[1] <= NWords
    BY BisectAssumption DEF SearchTypeOK, Words
  <2>5. ASSUME NEW s, Touches(text, s) PROVE Touches(words, s)
    <3>1. s = text.lo
      BY <1>1, <2>3, <2>5 DEF Touches, Texts
    <3> QED
      BY <2>4, <3>1 DEF Touches, WordsOf
  <2> QED
    BY <2>1, <2>2, <2>5 DEF AcceptedWithout
<1>2. CASE ~(text.of = "prompt" /\ Size(text) = 1)
  BY <1>2 DEF Narrowed
<1> QED
  BY <1>1, <1>2

\* The search goes on from an accepted removal with one call spent.
LEMMA ContinuesKeeps ==
    ASSUME BisectInv, NEW text \in Texts, AcceptedWithout(text),
           search.replays < BisectReplays, search' = Continues(text),
           UNCHANGED <<offences, offending>>
    PROVE  BisectInv'
<1>1. Narrowed(text) \in Texts /\ AcceptedWithout(Narrowed(text))
  BY NarrowedKeeps DEF BisectInv
<1>2. PICK pc \in {"halve", "found"} :
        search' = [search EXCEPT !.pc = pc, !.text = Narrowed(text), !.half = 1, !.replays = search.replays + 1]
  BY DEF Continues
<1>3. PICK t \in Texts : t = Narrowed(text)
  BY <1>1
<1>4. search' = [search EXCEPT !.pc = pc, !.text = t, !.half = 1, !.replays = search.replays + 1]
  BY <1>2, <1>3
<1>r. search.replays + 1 \in Int /\ search = [pc |-> search.pc, text |-> search.text, half |-> search.half, replays |-> search.replays]
  BY DEF BisectInv, SearchTypeOK
<1>s. search' = [pc |-> pc, text |-> t, half |-> 1, replays |-> search.replays + 1]
  BY <1>4, <1>r
<1>5. /\ search'.text = t /\ search'.replays = search.replays + 1
      /\ search' \in [pc : {"whole", "halve", "found", "none"}, text : Texts, half : 1 .. 2, replays : Int]
  BY <1>r, <1>s
<1>6. AcceptedWithout(t)
  BY <1>1, <1>3
<1>7. AcceptedWithout(search.text)'
  BY <1>5, <1>6 DEF AcceptedWithout, Touches
<1>8. search'.replays <= BisectReplays
  BY <1>5, BisectAssumption DEF BisectInv, SearchTypeOK
<1>9. SearchTypeOK'
  BY <1>5 DEF BisectInv, SearchTypeOK
<1> QED
  BY <1>7, <1>8, <1>9 DEF BisectInv

\* Without a replay that was accepted the text stays what it is.
LEMMA StaysKeeps ==
    ASSUME BisectInv, NEW pc \in {"halve", "found", "none"}, NEW half \in 1 .. 2,
           NEW replays \in Int, replays <= BisectReplays,
           pc # "none" => search.pc \in {"halve", "found"},
           search' = [search EXCEPT !.pc = pc, !.half = half, !.replays = replays],
           UNCHANGED <<offences, offending>>
    PROVE  BisectInv'
<1>1. search' \in [pc : {"whole", "halve", "found", "none"}, text : Texts, half : 1 .. 2, replays : Int]
  BY DEF BisectInv, SearchTypeOK
<1>2. search'.text = search.text /\ search'.pc = pc /\ search'.replays = replays
  BY DEF BisectInv, SearchTypeOK
<1>3. pc # "none" => AcceptedWithout(search.text)'
  BY <1>2 DEF BisectInv, AcceptedWithout, Touches
<1>4. SearchTypeOK'
  BY <1>1 DEF BisectInv, SearchTypeOK
<1> QED
  BY <1>2, <1>3, <1>4 DEF BisectInv

LEMMA BisectStep == BisectInv /\ [BisectNext]_bisectVars => BisectInv'
<1> SUFFICES ASSUME BisectInv, [BisectNext]_bisectVars PROVE BisectInv'
  OBVIOUS
<1> USE BisectAssumption
<1>t. search.half \in 1 .. 2 /\ search.replays \in Int /\ search.text \in Texts /\ search.replays <= BisectReplays
  BY DEF BisectInv, SearchTypeOK
<1>1. CASE UNCHANGED bisectVars
  BY <1>1 DEF bisectVars, BisectInv, SearchTypeOK, AcceptedWithout, Touches
<1>2. CASE TryWhole
  <2>1. CASE AcceptedWithout(search.text)
    BY <1>2, <1>t, <2>1, ContinuesKeeps DEF TryWhole, MayReplay
  <2>2. CASE ~AcceptedWithout(search.text)
    <3>1. search' = [search EXCEPT !.pc = "none", !.half = search.half, !.replays = search.replays + 1]
      BY <1>2, <2>2 DEF TryWhole, BisectInv, SearchTypeOK
    <3>2. search.replays + 1 \in Int /\ search.replays + 1 <= BisectReplays /\ UNCHANGED <<offences, offending>>
      BY <1>2, <1>t DEF TryWhole, MayReplay
    <3> QED
      BY <1>t, <3>1, <3>2, StaysKeeps
  <2> QED
    BY <2>1, <2>2
<1>3. CASE TryHalf
  <2> DEFINE part == Half(search.text, search.half)
             spent == IF TooShort(part) THEN search.replays ELSE search.replays + 1
             pc == IF search.half = 2 THEN "found" ELSE "halve"
  <2>1. part \in Texts
    BY <1>t, HalfOfText
  <2>2. CASE ~TooShort(part) /\ Kept(part)
    BY <1>3, <2>1, <2>2, ContinuesKeeps DEF TryHalf, MayReplay, Kept
  <2>3. CASE ~(~TooShort(part) /\ Kept(part))
    <3>1. search' = [search EXCEPT !.replays = spent, !.half = 2, !.pc = pc] /\ UNCHANGED <<offences, offending>>
      BY <1>3, <2>3 DEF TryHalf
    <3>2. spent \in Int /\ spent <= BisectReplays
      BY <1>3, <1>t DEF TryHalf, MayReplay
    <3>3. search.pc \in {"halve", "found"} /\ pc \in {"halve", "found", "none"}
      BY <1>3 DEF TryHalf
    <3>4. PICK n \in Int, q \in {"halve", "found", "none"}, h \in 1 .. 2 : n = spent /\ q = pc /\ h = 2
      BY <3>2, <3>3
    <3>5. search' = [search EXCEPT !.pc = q, !.half = h, !.replays = n]
      BY <3>1, <3>4 DEF BisectInv, SearchTypeOK
    <3>8. q # "none" => search.pc \in {"halve", "found"}
      BY <3>3
    <3>6. n <= BisectReplays /\ search.pc \in {"halve", "found"}
      BY <3>2, <3>3, <3>4
    <3>7. UNCHANGED <<offences, offending>>
      BY <3>1
    <3> QED
      BY <3>5, <3>6, <3>7, <3>8, StaysKeeps
  <2> QED
    BY <2>2, <2>3
<1>4. CASE GiveUp
  <2>1. search' = [search EXCEPT !.pc = "none", !.half = search.half, !.replays = search.replays]
    BY <1>4 DEF GiveUp, BisectInv, SearchTypeOK
  <2> QED
    BY <1>4, <1>t, <2>1, StaysKeeps DEF GiveUp
<1> QED
  BY <1>1, <1>2, <1>3, <1>4 DEF BisectNext

\* The text a search finds is one without which the request was accepted, and the search
\* spends no more calls than it may.
THEOREM FoundTextIsRefused == BisectSpec => []FoundIsRefused
<1>1. BisectInv => FoundIsRefused
  BY DEF BisectInv, FoundIsRefused
<1> QED
  BY <1>1, BisectStarts, BisectStep, PTL DEF BisectSpec

-----------------------------------------------------------------------------
(* The observer: since when a field was not seen, as memory, the database and *)
(* the flushes under way count it.                                           *)

FieldRecords ==
    [seen : Nat, types : SUBSET UNION Values, first : Int, last : Int, gone : BOOLEAN, dirty : BOOLEAN]
Shapes  == [obs : Nat, dirty : BOOLEAN, fields : [Fields -> FieldRecords]]
Flushes == [on : BOOLEAN, obs : Nat, fields : SUBSET Fields, values : [Fields -> FieldRecords]]

DriftTypes ==
    /\ known \in Shapes /\ saved \in Shapes
    /\ flush \in [Flushers -> Flushes]
    /\ absent \in [Fields -> Nat] /\ agreed \in [Fields -> Nat]
    /\ unsaved \in Nat /\ forgotten \in Nat

\* Neither the database nor a flush counts more than memory.
NoneAhead ==
    /\ saved.obs <= known.obs
    /\ \A w \in Flushers : flush[w].obs <= known.obs /\ (~flush[w].on => flush[w].fields = {})

\* The observations memory counts since a field was last seen.
SinceSeen(r) == known.obs - r.last

\* In memory they are the documents without the field, and those forgotten.
MemoryOK == \A f \in Fields : known.fields[f].seen > 0 => SinceSeen(known.fields[f]) <= absent[f] + forgotten

\* In the database, in a flush and in memory they are those without it when memory and
\* database last agreed, those forgotten, and all documents since.
Dated(f, r) == r.seen > 0 => SinceSeen(r) <= agreed[f] + forgotten + unsaved
RecordsOK ==
    \A f \in Fields :
        /\ Dated(f, known.fields[f]) /\ Dated(f, saved.fields[f])
        /\ \A w \in Flushers : f \in flush[w].fields => Dated(f, flush[w].values[f])

DriftInv == DriftTypes /\ NoneAhead /\ MemoryOK /\ RecordsOK /\ RemovedMeansAbsent

-----------------------------------------------------------------------------
LEMMA DriftConstants == Learn \in Nat /\ GoneAfter \in Nat /\ GoneMinSeen \in Nat /\ GoneRatio \in Nat
  BY DriftAssumption

LEMMA NoFieldIsRecord == NoField \in FieldRecords /\ NoField.seen = 0
  BY DEF NoField, FieldRecords

LEMMA NoFlushIsFlush == NoFlush \in Flushes /\ NoFlush.fields = {} /\ NoFlush.obs = 0 /\ ~NoFlush.on
  BY NoFieldIsRecord DEF NoFlush, Flushes

LEMMA DriftStarts == DriftInit => DriftInv
<1> SUFFICES ASSUME DriftInit PROVE DriftInv
  OBVIOUS
<1>1. Unknown \in Shapes /\ Unknown.obs = 0 /\ \A f \in Fields : Unknown.fields[f].seen = 0
  BY NoFieldIsRecord DEF Unknown, Shapes
<1>2. DriftTypes
  BY <1>1, NoFlushIsFlush DEF DriftInit, DriftTypes
<1>3. NoneAhead
  BY <1>1, NoFlushIsFlush DEF DriftInit, NoneAhead
<1>4. MemoryOK /\ RecordsOK
  BY <1>1, NoFlushIsFlush DEF DriftInit, MemoryOK, RecordsOK, Dated
<1>5. RemovedMeansAbsent
  BY DEF DriftInit, RemovedMeansAbsent, Nothing
<1> QED
  BY <1>2, <1>3, <1>4, <1>5 DEF DriftInv

-----------------------------------------------------------------------------
\* Steps that record no change.
LEMMA NothingRemoved ==
    ASSUME change' = Nothing
    PROVE  RemovedMeansAbsent'
BY DEF RemovedMeansAbsent, Nothing

\* A field that is there is seen now; its types grow.
LEMMA SeenIsRecord ==
    ASSUME NEW r \in FieldRecords, NEW t \in SUBSET UNION Values, NEW n \in Nat
    PROVE  Seen(r, t, n) \in FieldRecords /\ Seen(r, t, n).last = n
<1>1. CASE r.seen = 0
  <2>1. Seen(r, t, n) = [seen |-> 1, types |-> t, first |-> n, last |-> n, gone |-> FALSE, dirty |-> TRUE]
    BY <1>1 DEF Seen
  <2> QED
    BY <2>1 DEF FieldRecords
<1>2. CASE r.seen # 0
  <2>1. PICK u \in SUBSET UNION Values : u = r.types \cup t
    BY DEF FieldRecords
  <2>3. PICK s \in Nat : s = r.seen + 1
    BY DEF FieldRecords
  <2>2. Seen(r, t, n) = [r EXCEPT !.seen = s, !.types = u, !.last = n, !.gone = FALSE, !.dirty = TRUE]
    BY <1>2, <2>1, <2>3 DEF Seen
  <2>4. Seen(r, t, n) = [seen |-> s, types |-> u, first |-> r.first, last |-> n, gone |-> FALSE, dirty |-> TRUE]
    BY <2>2 DEF FieldRecords
  <2>5. r.first \in Int
    BY DEF FieldRecords
  <2> QED
    BY <2>4, <2>5 DEF FieldRecords
<1> QED
  BY <1>1, <1>2

LEMMA ObserveKeeps ==
    ASSUME DriftInv, NEW doc \in Documents, NEW quiet \in BOOLEAN, Observe(doc, quiet)
    PROVE  DriftInv'
<1> DEFINE n == known.obs + 1
           next(f) == IF f \in DOMAIN doc THEN Seen(known.fields[f], doc[f], n)
                      ELSE IF Gone(known.fields[f], n) THEN [known.fields[f] EXCEPT !.gone = TRUE, !.dirty = TRUE]
                      ELSE known.fields[f]
<1>1. DOMAIN doc \subseteq Fields /\ \A f \in DOMAIN doc : doc[f] \in SUBSET UNION Values
  BY DEF Documents
<1>2. /\ known.obs \in Nat /\ n \in Nat /\ n > known.obs
      /\ \A f \in Fields : known.fields[f] \in FieldRecords
  BY DEF DriftInv, DriftTypes, Shapes
<1>3. ASSUME NEW f \in Fields PROVE next(f) \in FieldRecords
  <2>1. CASE f \in DOMAIN doc
    BY <1>1, <1>2, <2>1, SeenIsRecord
  <2>2. CASE f \notin DOMAIN doc
    <3>1. [known.fields[f] EXCEPT !.gone = TRUE, !.dirty = TRUE] \in FieldRecords
      BY <1>2 DEF FieldRecords
    <3> QED
      BY <1>2, <2>2, <3>1
  <2> QED
    BY <2>1, <2>2
<1>4. ASSUME NEW f \in Fields PROVE IF f \in DOMAIN doc THEN next(f).last = n
                                    ELSE next(f).last = known.fields[f].last /\ next(f).seen = known.fields[f].seen
  <2>1. CASE f \in DOMAIN doc
    BY <1>1, <1>2, <2>1, SeenIsRecord
  <2>2. CASE f \notin DOMAIN doc
    <3>1. PICK r \in FieldRecords : r = known.fields[f]
      BY <1>2
    <3>2. [r EXCEPT !.gone = TRUE, !.dirty = TRUE].last = r.last /\ [r EXCEPT !.gone = TRUE, !.dirty = TRUE].seen = r.seen
      BY DEF FieldRecords
    <3> QED
      BY <2>2, <3>1, <3>2
  <2> QED
    BY <2>1, <2>2
<1>5. known' = [obs |-> n, dirty |-> TRUE, fields |-> [f \in Fields |-> next(f)]]
  BY DEF Observe
<1> HIDE DEF next
<1>6. known' \in Shapes /\ known'.obs = n /\ \A f \in Fields : known'.fields[f] = next(f)
  BY <1>2, <1>3, <1>5 DEF Shapes
<1>7. /\ \A f \in Fields : absent'[f] = IF f \in DOMAIN doc THEN 0 ELSE absent[f] + 1
      /\ absent' \in [Fields -> Nat] /\ unsaved' = unsaved + 1
      /\ UNCHANGED <<saved, flush, agreed, forgotten>>
  <2>1. /\ absent' = [f \in Fields |-> IF f \in DOMAIN doc THEN 0 ELSE absent[f] + 1] /\ unsaved' = unsaved + 1
        /\ UNCHANGED <<saved, flush, agreed, forgotten>>
    BY DEF Observe
  <2>2. \A f \in Fields : absent[f] \in Nat
    BY DEF DriftInv, DriftTypes
  <2> QED
    BY <2>1, <2>2
<1>8. DriftTypes'
  BY <1>6, <1>7 DEF DriftInv, DriftTypes
<1>9. NoneAhead'
  <2>1. saved.obs \in Nat /\ \A w \in Flushers : flush[w].obs \in Nat
    BY DEF DriftInv, DriftTypes, Shapes, Flushes
  <2> QED
    BY <1>2, <1>6, <1>7, <2>1 DEF DriftInv, NoneAhead
<1>10. MemoryOK'
  <2> SUFFICES ASSUME NEW f \in Fields, next(f).seen > 0 PROVE n - next(f).last <= absent'[f] + forgotten
    BY <1>6, <1>7 DEF MemoryOK, SinceSeen
  <2>1. known.fields[f].last \in Int /\ absent[f] \in Nat /\ forgotten \in Nat /\ absent'[f] \in Nat
    BY <1>2, <1>7 DEF DriftInv, DriftTypes, FieldRecords
  <2> QED
    BY <1>2, <1>4, <1>7, <2>1 DEF DriftInv, MemoryOK, SinceSeen
<1>11. RecordsOK'
  <2>1. ASSUME NEW f \in Fields, NEW r \in FieldRecords, Dated(f, r) PROVE Dated(f, r)'
    <3>1. agreed[f] \in Nat /\ forgotten \in Nat /\ unsaved \in Nat /\ r.last \in Int
      BY DEF DriftInv, DriftTypes, FieldRecords
    <3> QED
      BY <1>2, <1>6, <1>7, <2>1, <3>1 DEF Dated, SinceSeen
  <2>2. \A f \in Fields : saved.fields[f] \in FieldRecords /\ \A w \in Flushers : flush[w].values[f] \in FieldRecords
    BY DEF DriftInv, DriftTypes, Shapes, Flushes
  <2>3. ASSUME NEW f \in Fields PROVE Dated(f, known.fields[f])'
    <3>1. next(f).seen > 0 => n - next(f).last <= agreed[f] + forgotten + unsaved'
      <4>1. /\ agreed[f] \in Nat /\ forgotten \in Nat /\ unsaved \in Nat /\ known.fields[f].last \in Int
            /\ Dated(f, known.fields[f])
        BY <1>2 DEF DriftInv, DriftTypes, FieldRecords, RecordsOK
      <4> QED
        BY <1>2, <1>4, <1>7, <4>1 DEF Dated, SinceSeen
    <3> QED
      BY <1>6, <1>7, <3>1 DEF Dated, SinceSeen
  <2>4. \A f \in Fields : Dated(f, saved.fields[f])' /\ \A w \in Flushers : f \in flush[w].fields => Dated(f, flush[w].values[f])'
    BY <1>7, <2>1, <2>2 DEF DriftInv, RecordsOK, Dated, SinceSeen
  <2> QED
    BY <1>7, <2>3, <2>4 DEF RecordsOK
<1>12. RemovedMeansAbsent'
  <2> SUFFICES ASSUME NEW f \in Fields, change'[f] = "removed" PROVE absent'[f] + forgotten >= GoneAfter
    BY <1>7 DEF RemovedMeansAbsent
  <2>1. change'[f] = ChangeOf(known.fields[f], f \in DOMAIN doc, IF f \in DOMAIN doc THEN doc[f] ELSE {}, n)
    BY DEF Observe, Nothing
  <2>2. f \notin DOMAIN doc /\ Gone(known.fields[f], n)
    BY <2>1 DEF ChangeOf
  <2>3. /\ known.fields[f].last \in Int /\ known.fields[f].seen > 0 /\ n - known.fields[f].last >= GoneAfter
        /\ absent[f] \in Nat /\ forgotten \in Nat
    BY <1>2, <2>2 DEF Gone, MissedFor, DriftInv, DriftTypes, FieldRecords
  <2> QED
    BY <1>2, <1>7, <2>2, <2>3, DriftConstants DEF DriftInv, MemoryOK, SinceSeen
<1> QED
  BY <1>8, <1>9, <1>10, <1>11, <1>12 DEF DriftInv

-----------------------------------------------------------------------------
\* A field's record with another mark of what is to be written.
LEMMA Marked ==
    ASSUME NEW r \in FieldRecords, NEW dirty \in BOOLEAN
    PROVE  /\ [r EXCEPT !.dirty = dirty] \in FieldRecords
           /\ [r EXCEPT !.dirty = dirty].seen = r.seen /\ [r EXCEPT !.dirty = dirty].last = r.last
BY DEF FieldRecords

\* What is dated stays dated while nothing is observed or forgotten.
LEMMA DatedStays ==
    ASSUME NEW f, NEW r, NEW s, Dated(f, r), s.seen = r.seen, s.last = r.last,
           known'.obs = known.obs, UNCHANGED <<agreed, forgotten, unsaved>>
    PROVE  Dated(f, s)'
BY DEF Dated, SinceSeen

LEMMA BeginFlushKeeps ==
    ASSUME DriftInv, NEW w \in Flushers, BeginFlush(w)
    PROVE  DriftInv'
<1> DEFINE value(f) == IF f \in Dirty(known) THEN [known.fields[f] EXCEPT !.dirty = FALSE] ELSE NoField
           clean(f) == [known.fields[f] EXCEPT !.dirty = FALSE]
<1>1. known \in Shapes /\ known.obs \in Nat /\ \A f \in Fields : known.fields[f] \in FieldRecords
  BY DEF DriftInv, DriftTypes, Shapes
<1>2. ASSUME NEW f \in Fields
      PROVE  clean(f) \in FieldRecords /\ clean(f).seen = known.fields[f].seen /\ clean(f).last = known.fields[f].last
  BY <1>1, Marked
<1>3. ASSUME NEW f \in Fields PROVE value(f) \in FieldRecords /\ (f \in Dirty(known) => value(f) = clean(f))
  BY <1>2, NoFieldIsRecord
<1>4. PICK t : t = [on |-> TRUE, obs |-> known.obs, fields |-> Dirty(known), values |-> [f \in Fields |-> value(f)]]
  OBVIOUS
<1>5. PICK k : k = [known EXCEPT !.dirty = FALSE, !.fields = [f \in Fields |-> clean(f)]]
  OBVIOUS
<1>6. flush' = [flush EXCEPT ![w] = t] /\ known' = k /\ change' = Nothing /\ UNCHANGED <<saved, absent, agreed, unsaved, forgotten>>
  BY <1>4, <1>5 DEF BeginFlush
<1> HIDE DEF value, clean
<1>7. k \in Shapes /\ k.obs = known.obs /\ \A f \in Fields : k.fields[f] = clean(f)
  <2>1. PICK fs \in [Fields -> FieldRecords] : fs = [f \in Fields |-> clean(f)]
    BY <1>2
  <2>2. k = [known EXCEPT !.dirty = FALSE, !.fields = fs]
    BY <1>5, <2>1
  <2>3. k \in Shapes /\ k.obs = known.obs /\ k.fields = fs
    BY <1>1, <2>2 DEF Shapes
  <2> QED
    BY <2>1, <2>3
<1>8. t \in Flushes /\ t.on /\ t.obs = known.obs /\ t.fields = Dirty(known) /\ \A f \in Fields : t.values[f] = value(f)
  <2>1. Dirty(known) \in SUBSET Fields
    BY DEF Dirty
  <2> QED
    BY <1>1, <1>3, <1>4, <2>1 DEF Flushes
<1>9. /\ flush' \in [Flushers -> Flushes] /\ flush'[w] = t
      /\ \A x \in Flushers : x # w => flush'[x] = flush[x]
  BY <1>6, <1>8 DEF DriftInv, DriftTypes
<1>10. DriftTypes'
  BY <1>6, <1>7, <1>9 DEF DriftInv, DriftTypes
<1>11. NoneAhead'
  BY <1>1, <1>6, <1>7, <1>8, <1>9 DEF DriftInv, NoneAhead
<1>12. MemoryOK'
  BY <1>2, <1>6, <1>7 DEF DriftInv, MemoryOK, SinceSeen
<1>13. ASSUME NEW f \in Fields PROVE Dated(f, known.fields[f])'
  <2>1. Dated(f, known.fields[f])
    BY DEF DriftInv, RecordsOK
  <2>2. PICK c : c = clean(f)
    OBVIOUS
  <2>3. c.seen = known.fields[f].seen /\ c.last = known.fields[f].last
    BY <1>2, <2>2
  <2>4. Dated(f, c)'
    BY <1>6, <1>7, <2>1, <2>3, DatedStays
  <2> QED
    BY <1>6, <1>7, <2>2, <2>4 DEF Dated, SinceSeen
<1>14. RecordsOK'
  <2> SUFFICES ASSUME NEW f \in Fields
               PROVE  Dated(f, saved.fields[f])' /\ \A x \in Flushers : (f \in flush[x].fields => Dated(f, flush[x].values[f]))'
    BY <1>13 DEF RecordsOK
  <2>1. Dated(f, saved.fields[f])'
    BY <1>6, <1>7 DEF DriftInv, RecordsOK, Dated, SinceSeen
  <2>2. (f \in flush[w].fields => Dated(f, flush[w].values[f]))'
    <3> SUFFICES ASSUME f \in t.fields PROVE Dated(f, flush[w].values[f])'
      BY <1>9
    <3>1. flush'[w].values[f] = known'.fields[f]
      BY <1>3, <1>6, <1>7, <1>8, <1>9
    <3> QED
      BY <1>13, <3>1 DEF Dated, SinceSeen
  <2>3. ASSUME NEW x \in Flushers, x # w PROVE (f \in flush[x].fields => Dated(f, flush[x].values[f]))'
    BY <1>6, <1>7, <1>9, <2>3 DEF DriftInv, RecordsOK, Dated, SinceSeen
  <2> QED
    BY <2>1, <2>2, <2>3
<1> QED
  BY <1>6, <1>10, <1>11, <1>12, <1>14, NothingRemoved DEF DriftInv

LEMMA EndFlushKeeps ==
    ASSUME DriftInv, NEW w \in Flushers, NEW written \in BOOLEAN, EndFlush(w, written)
    PROVE  DriftInv'
<1> DEFINE t == flush[w]
<1>1. /\ known \in Shapes /\ saved \in Shapes /\ t \in Flushes /\ known.obs \in Nat /\ t.obs \in Nat /\ t.obs <= known.obs
      /\ \A f \in Fields : known.fields[f] \in FieldRecords /\ saved.fields[f] \in FieldRecords /\ t.values[f] \in FieldRecords
  BY DEF DriftInv, DriftTypes, Shapes, Flushes, NoneAhead
<1>2. change' = Nothing /\ flush' = [flush EXCEPT ![w] = NoFlush] /\ UNCHANGED <<absent, forgotten>>
  BY DEF EndFlush
<1>3. /\ flush' \in [Flushers -> Flushes] /\ flush'[w] = NoFlush
      /\ \A x \in Flushers : x # w => flush'[x] = flush[x]
  BY <1>2, NoFlushIsFlush DEF DriftInv, DriftTypes
\* Memory counts and has seen what it had.
<1>4. /\ known' \in Shapes /\ known'.obs = known.obs
      /\ \A f \in Fields : known'.fields[f].seen = known.fields[f].seen /\ known'.fields[f].last = known.fields[f].last
  <2>1. CASE written
    BY <1>1, <2>1 DEF EndFlush
  <2>2. CASE ~written
    <3> DEFINE dirty(f) == known.fields[f].dirty \/ f \in t.fields
               mark(f) == [known.fields[f] EXCEPT !.dirty = dirty(f)]
    <3>1. PICK k : k = [known EXCEPT !.dirty = TRUE, !.fields = [f \in Fields |-> mark(f)]]
      OBVIOUS
    <3>2. known' = k
      BY <2>2, <3>1 DEF EndFlush
    <3>3. ASSUME NEW f \in Fields
          PROVE  mark(f) \in FieldRecords /\ mark(f).seen = known.fields[f].seen /\ mark(f).last = known.fields[f].last
      <4>1. dirty(f) \in BOOLEAN
        BY <1>1 DEF FieldRecords
      <4> HIDE DEF dirty
      <4> QED
        BY <1>1, <4>1, Marked
    <3> HIDE DEF mark
    <3>4. PICK fs \in [Fields -> FieldRecords] : fs = [f \in Fields |-> mark(f)]
      BY <3>3
    <3>5. k = [known EXCEPT !.dirty = TRUE, !.fields = fs]
      BY <3>1, <3>4
    <3>6. k \in Shapes /\ k.obs = known.obs /\ k.fields = fs
      BY <1>1, <3>5 DEF Shapes
    <3> QED
      BY <3>2, <3>3, <3>4, <3>6
  <2> QED
    BY <2>1, <2>2
\* The database holds what it held or what the flush took.
<1>5. /\ saved' \in Shapes /\ saved'.obs \in {saved.obs, t.obs}
      /\ \A f \in Fields : \/ saved'.fields[f] = saved.fields[f]
                           \/ f \in t.fields /\ saved'.fields[f] = t.values[f]
  <2>1. CASE written
    <3> DEFINE value(f) == IF f \in t.fields THEN t.values[f] ELSE saved.fields[f]
    <3>1. PICK fs \in [Fields -> FieldRecords] : fs = [f \in Fields |-> value(f)]
      BY <1>1
    <3>2. saved' = [saved EXCEPT !.obs = t.obs, !.fields = fs]
      BY <2>1, <3>1 DEF EndFlush
    <3>3. saved' \in Shapes /\ saved'.obs = t.obs /\ saved'.fields = fs
      BY <1>1, <3>2 DEF Shapes
    <3> QED
      BY <3>1, <3>3
  <2>2. CASE ~written
    BY <1>1, <2>2 DEF EndFlush
  <2> QED
    BY <2>1, <2>2
<1>6. NoneAhead'
  BY <1>1, <1>3, <1>4, <1>5, NoFlushIsFlush DEF DriftInv, NoneAhead
<1>7. MemoryOK'
  BY <1>2, <1>4 DEF DriftInv, MemoryOK, SinceSeen
<1>8. CASE saved' = known' /\ (\A x \in Flushers : ~flush'[x].on) /\ unsaved' = 0 /\ agreed' = absent
  <2>1. DriftTypes'
    BY <1>2, <1>3, <1>4, <1>5, <1>8 DEF DriftInv, DriftTypes
  <2>2. \A x \in Flushers : flush'[x].fields = {}
    BY <1>6, <1>8 DEF NoneAhead
  <2>3. ASSUME NEW f \in Fields PROVE Dated(f, known.fields[f])' /\ Dated(f, saved.fields[f])'
    <3>1. absent[f] \in Nat /\ forgotten \in Nat
      BY DEF DriftInv, DriftTypes
    <3>2. absent[f] + forgotten + 0 = absent[f] + forgotten
      BY <3>1
    <3>3. known'.fields[f].seen > 0 => known'.obs - known'.fields[f].last <= absent[f] + forgotten
      BY <1>4 DEF DriftInv, MemoryOK, SinceSeen
    <3> QED
      BY <1>2, <1>8, <3>2, <3>3 DEF Dated, SinceSeen
  <2>4. RecordsOK'
    BY <2>2, <2>3 DEF RecordsOK
  <2> QED
    BY <1>2, <1>6, <1>7, <2>1, <2>4, NothingRemoved DEF DriftInv
<1>9. CASE UNCHANGED <<unsaved, agreed>>
  <2>1. DriftTypes'
    BY <1>2, <1>3, <1>4, <1>5, <1>9 DEF DriftInv, DriftTypes
  <2>2. RecordsOK'
    <3> SUFFICES ASSUME NEW f \in Fields
                 PROVE  /\ Dated(f, known.fields[f])' /\ Dated(f, saved.fields[f])'
                        /\ \A x \in Flushers : (f \in flush[x].fields => Dated(f, flush[x].values[f]))'
      BY DEF RecordsOK
    <3>1. Dated(f, known.fields[f])'
      BY <1>2, <1>4, <1>9 DEF DriftInv, RecordsOK, Dated, SinceSeen
    <3>2. Dated(f, saved.fields[f])'
      BY <1>2, <1>4, <1>5, <1>9 DEF DriftInv, RecordsOK, Dated, SinceSeen
    <3>3. ASSUME NEW x \in Flushers PROVE (f \in flush[x].fields => Dated(f, flush[x].values[f]))'
      BY <1>2, <1>3, <1>4, <1>9, NoFlushIsFlush DEF DriftInv, RecordsOK, Dated, SinceSeen
    <3> QED
      BY <3>1, <3>2, <3>3
  <2> QED
    BY <1>2, <1>6, <1>7, <2>1, <2>2, NothingRemoved DEF DriftInv
<1> QED
  BY <1>8, <1>9 DEF EndFlush

\* What was observed since memory and database last agreed may be forgotten.
LEMMA RestartObserverKeeps ==
    ASSUME DriftInv, RestartObserver
    PROVE  DriftInv'
<1>1. /\ known' = saved /\ saved' = saved /\ flush' = [w \in Flushers |-> NoFlush] /\ change' = Nothing
      /\ forgotten' = forgotten + unsaved /\ unsaved' = 0 /\ agreed' = absent'
      /\ absent' = [f \in Fields |-> IF absent[f] < agreed[f] THEN agreed[f] ELSE absent[f]]
  BY DEF RestartObserver
<1>2. /\ saved \in Shapes /\ saved.obs \in Nat /\ known.obs \in Nat /\ saved.obs <= known.obs
      /\ unsaved \in Nat /\ forgotten \in Nat /\ forgotten' \in Nat
      /\ \A f \in Fields : saved.fields[f].last \in Int /\ absent[f] \in Nat /\ agreed[f] \in Nat
  BY <1>1 DEF DriftInv, DriftTypes, NoneAhead, Shapes, FieldRecords
<1>3. /\ absent' \in [Fields -> Nat]
      /\ \A f \in Fields : absent'[f] >= agreed[f]
  BY <1>1, <1>2
<1>4. DriftTypes'
  BY <1>1, <1>2, <1>3, NoFlushIsFlush DEF DriftInv, DriftTypes
<1>5. NoneAhead'
  BY <1>1, <1>2, NoFlushIsFlush DEF NoneAhead
<1>6. ASSUME NEW f \in Fields, saved.fields[f].seen > 0
      PROVE  saved.obs - saved.fields[f].last <= absent'[f] + forgotten'
  <2>1. known.obs - saved.fields[f].last <= agreed[f] + forgotten + unsaved
    BY <1>6 DEF DriftInv, RecordsOK, Dated, SinceSeen
  <2>2. absent'[f] \in Nat /\ absent'[f] >= agreed[f]
    BY <1>3
  <2> QED
    BY <1>1, <1>2, <2>1, <2>2
<1>7. MemoryOK'
  BY <1>1, <1>6 DEF MemoryOK, SinceSeen
<1>8. RecordsOK'
  <2>1. ASSUME NEW f \in Fields PROVE Dated(f, saved.fields[f])'
    <3>1. absent'[f] \in Nat /\ absent'[f] + forgotten' + 0 = absent'[f] + forgotten'
      BY <1>2, <1>3
    <3> QED
      BY <1>1, <1>6, <3>1 DEF Dated, SinceSeen
  <2>2. \A w \in Flushers : flush'[w].fields = {}
    BY <1>1, NoFlushIsFlush
  <2> QED
    BY <1>1, <2>1, <2>2 DEF RecordsOK, Dated, SinceSeen
<1> QED
  BY <1>1, <1>4, <1>5, <1>7, <1>8, NothingRemoved DEF DriftInv

LEMMA DriftStep == DriftInv /\ [DriftNext]_driftVars => DriftInv'
<1> SUFFICES ASSUME DriftInv, [DriftNext]_driftVars PROVE DriftInv'
  OBVIOUS
<1>1. CASE \E d \in Documents, quiet \in BOOLEAN : Observe(d, quiet)
  BY <1>1, ObserveKeeps
<1>2. CASE \E w \in Flushers : BeginFlush(w) \/ \E written \in BOOLEAN : EndFlush(w, written)
  BY <1>2, BeginFlushKeeps, EndFlushKeeps
<1>3. CASE RestartObserver
  BY <1>3, RestartObserverKeeps
<1>4. CASE UNCHANGED driftVars
  BY <1>4 DEF driftVars, DriftInv, DriftTypes, NoneAhead, MemoryOK, RecordsOK, Dated, SinceSeen, RemovedMeansAbsent
<1> QED
  BY <1>1, <1>2, <1>3, <1>4 DEF DriftNext

\* A field reported removed was missing for as many documents as make a field gone,
\* those aside that restarts forgot.
THEOREM RemovedIsAbsent == DriftSpec => []RemovedMeansAbsent
<1>1. DriftInv => RemovedMeansAbsent
  BY DEF DriftInv
<1> QED
  BY <1>1, DriftStarts, DriftStep, PTL DEF DriftSpec
=============================================================================
