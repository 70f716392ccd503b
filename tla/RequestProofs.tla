---------------------------- MODULE RequestProofs ---------------------------
(***************************************************************************)
(* Theorems about the parts a model request passes: the failover handler,   *)
(* the names its tools go out under, the account whose turn it is, and the  *)
(* model list with its policy.  For every set of accounts, requests and     *)
(* models, and for lists of any length.                                     *)
(***************************************************************************)
EXTENDS Failover, ToolNames, Catalog, Rotation, ListProofs

-----------------------------------------------------------------------------
(* FAILOVER. *)

(* The inductive invariant.  The properties speak of answered requests; what  *)
(* makes them so is how far a request still under way has come: the calls     *)
(* made for the attempts before it, and the resends spent on this one.        *)

\* Calls made for the attempts given up so far, five for each.
CallsBefore(r) == 5 * (idx[r] - 1)

IdleOK(r) ==
    pc[r] = "idle" => /\ attempts[r] = <<>> /\ idx[r] = 1 /\ stage[r] = FirstSend
                      /\ sends[r] = 0 /\ reply[r] = NoReply

TryOK(r) ==
    pc[r] = "try" => /\ stage[r] = FirstSend /\ reply[r] = NoReply
                     /\ idx[r] <= Len(attempts[r]) + 1
                     /\ sends[r] <= CallsBefore(r)

CallOK(r) ==
    pc[r] \in {"sent", "got"} => /\ reply[r] = NoReply
                                 /\ idx[r] <= Len(attempts[r])
                                 /\ sends[r] <= CallsBefore(r) + stage[r] + 1

GotOK(r) == pc[r] = "got" => status[r] \in Statuses

RelayedOK(r) ==
    reply[r].kind = "relay" =>
        /\ reply[r].status \in Busy \cup Refusals \cup {"empty"} => idx[r] = Len(attempts[r])
        /\ reply[r].status = "unauthorized" =>
              /\ Current(r) \in Exchanging => stage[r] >= Exchanged
              /\ Current(r) \in OAuth => stage[r] = Refreshed

DoneOK(r) ==
    pc[r] = "done" => /\ sends[r] <= 5 * Len(attempts[r])
                      /\ reply[r].kind # "none"
                      /\ RelayedOK(r)

FailoverInv ==
    /\ FailoverTypeOK
    /\ \A r \in Requests : IdleOK(r) /\ TryOK(r) /\ CallOK(r) /\ GotOK(r) /\ DoneOK(r)

-----------------------------------------------------------------------------
\* No request has started.
LEMMA InitInv == FailoverInit => FailoverInv
  BY DEF FailoverInit, FailoverInv, FailoverTypeOK, Replies, NoReply, FirstSend, Refreshed,
         IdleOK, TryOK, CallOK, GotOK, DoneOK, RelayedOK, Statuses, Attempt

\* The arithmetic of the calls.
LEMMA OneMoreCall ==
    ASSUME NEW s \in Nat, NEW i \in Nat, NEW m \in Nat, NEW n \in Nat,
           s <= 5 * (i - 1) + m + 1, m < n
    PROVE  s + 1 <= 5 * (i - 1) + n + 1
  OBVIOUS

\* A call more is allowed at a later stage, and none is due.
LEMMA LaterStage ==
    ASSUME NEW s \in Nat, NEW i \in Nat, NEW m \in Nat, NEW n \in Nat,
           s <= 5 * (i - 1) + m + 1, m < n
    PROVE  s <= 5 * (i - 1) + n + 1
  OBVIOUS

\* An attempt has five stages.
LEMMA FiveStages ==
    ASSUME NEW s \in Nat, NEW i \in Nat, NEW m \in 0..4, s <= 5 * (i - 1) + m + 1
    PROVE  s <= 5 * (i - 1) + 5
  OBVIOUS

\* The calls of attempts given up.
LEMMA AllCalls ==
    ASSUME NEW s \in Nat, NEW i \in Nat, NEW l \in Nat, s <= 5 * (i - 1), i <= l + 1
    PROVE  s <= 5 * l
  OBVIOUS

\* The calls with an attempt under way.
LEMMA CallsSoFar ==
    ASSUME NEW s \in Nat, NEW i \in Nat, NEW m \in 0..4, NEW l \in Nat,
           s <= 5 * (i - 1) + m + 1, i <= l
    PROVE  s <= 5 * l
  OBVIOUS

\* The counters are numbers.
LEMMA Numbers ==
    ASSUME FailoverTypeOK, NEW r \in Requests
    PROVE  /\ idx[r] \in Nat \ {0} /\ sends[r] \in Nat /\ stage[r] \in 0..4
           /\ Len(attempts[r]) \in Nat
  BY DEF FailoverTypeOK, FirstSend, Refreshed

\* What the invariant says of one request.
RequestOK(r) == IdleOK(r) /\ TryOK(r) /\ CallOK(r) /\ GotOK(r) /\ DoneOK(r)

\* A step of request r says nothing about the others.
Apart(r) ==
    \A q \in Requests \ {r} :
        /\ pc'[q] = pc[q] /\ attempts'[q] = attempts[q] /\ idx'[q] = idx[q]
        /\ stage'[q] = stage[q] /\ status'[q] = status[q] /\ sends'[q] = sends[q]
        /\ reply'[q] = reply[q]

\* It is enough to look at the request that moves.
LEMMA OthersStay ==
    ASSUME FailoverInv, NEW r \in Requests, Apart(r), FailoverTypeOK', RequestOK(r)'
    PROVE  FailoverInv'
<1>1. ASSUME NEW q \in Requests, q # r
      PROVE  (IdleOK(q) /\ TryOK(q) /\ CallOK(q) /\ GotOK(q) /\ DoneOK(q))'
  <2>1. IdleOK(q) /\ TryOK(q) /\ CallOK(q) /\ GotOK(q) /\ DoneOK(q)
    BY DEF FailoverInv
  <2>2. /\ pc'[q] = pc[q] /\ attempts'[q] = attempts[q] /\ idx'[q] = idx[q]
        /\ stage'[q] = stage[q] /\ status'[q] = status[q] /\ sends'[q] = sends[q]
        /\ reply'[q] = reply[q]
    BY <1>1 DEF Apart
  <2> QED
    BY <2>1, <2>2 DEF IdleOK, TryOK, CallOK, GotOK, DoneOK, RelayedOK, CallsBefore, Current
<1> QED
  BY <1>1 DEF FailoverInv, RequestOK

\* Giving an attempt up, from wherever it is.
LEMMA NextAttemptInv ==
    ASSUME FailoverInv, NEW r \in Requests,
           pc[r] \in {"try", "sent", "got"}, idx[r] <= Len(attempts[r]),
           NextAttempt(r), shortened' \in [Requests -> BOOLEAN],
           UNCHANGED <<attempts, sends, reply>>
    PROVE  FailoverInv'
<1> USE DEF FirstSend, NewPath, NoCipher, Exchanged, Refreshed
<1>1. /\ FailoverTypeOK /\ pc' = [pc EXCEPT ![r] = "try"]
      /\ idx' = [idx EXCEPT ![r] = idx[r] + 1]
      /\ stage' = [stage EXCEPT ![r] = 0] /\ status' = [status EXCEPT ![r] = "none"]
  BY DEF FailoverInv, NextAttempt, Goto
<1>2. FailoverTypeOK'
  BY <1>1 DEF FailoverTypeOK
<1>3. Apart(r)
  BY <1>1 DEF FailoverTypeOK, Apart
<1>4. /\ pc'[r] = "try" /\ idx'[r] = idx[r] + 1 /\ stage'[r] = 0
      /\ attempts'[r] = attempts[r] /\ sends'[r] = sends[r] /\ reply'[r] = reply[r]
      /\ idx[r] \in Nat \ {0} /\ sends[r] \in Nat /\ Len(attempts[r]) \in Nat
      /\ stage[r] \in 0..4
  BY <1>1 DEF FailoverTypeOK
<1>5. sends[r] <= 5 * (idx[r] - 1) + 5 /\ reply[r] = NoReply
  <2>1. TryOK(r) /\ CallOK(r)
    BY DEF FailoverInv
  <2>2. CASE pc[r] = "try"
    <3>1. sends[r] <= 5 * (idx[r] - 1) /\ reply[r] = NoReply
      BY <2>1, <2>2 DEF TryOK, CallsBefore
    <3> QED
      BY <3>1, <1>4
  <2>3. CASE pc[r] \in {"sent", "got"}
    <3>1. sends[r] <= 5 * (idx[r] - 1) + stage[r] + 1 /\ reply[r] = NoReply
      BY <2>1, <2>3 DEF CallOK, CallsBefore
    <3>2. idx[r] \in Nat
      BY <1>4
    <3> QED
      BY <3>1, <3>2, <1>4, FiveStages
  <2> QED
    BY <2>2, <2>3
<1>6. TryOK(r)'
  <2>1. 5 * (idx'[r] - 1) = 5 * (idx[r] - 1) + 5
    BY <1>4
  <2> QED
    BY <2>1, <1>4, <1>5 DEF TryOK, CallsBefore, NoReply
<1>7. RequestOK(r)'
  BY <1>4, <1>6 DEF RequestOK, GotOK, IdleOK, CallOK, DoneOK
<1> QED
  BY <1>2, <1>3, <1>7, OthersStay

\* A call, the first of an attempt or one more.
LEMMA ResendInv ==
    ASSUME FailoverInv, NEW r \in Requests, NEW n \in FirstSend..Refreshed,
           \/ pc[r] = "try" /\ idx[r] <= Len(attempts[r]) /\ n = FirstSend
           \/ pc[r] = "got" /\ stage[r] < n,
           Resend(r, n)
    PROVE  FailoverInv'
<1> USE DEF FirstSend, NewPath, NoCipher, Exchanged, Refreshed
<1>1. /\ FailoverTypeOK /\ pc' = [pc EXCEPT ![r] = "sent"]
      /\ stage' = [stage EXCEPT ![r] = n] /\ sends' = [sends EXCEPT ![r] = sends[r] + 1]
      /\ UNCHANGED <<attempts, idx, status, shortened, reply>>
  BY DEF FailoverInv, Resend, Goto
<1>2. FailoverTypeOK'
  BY <1>1 DEF FailoverTypeOK
<1>3. Apart(r)
  BY <1>1 DEF FailoverTypeOK, Apart
<1>4. /\ pc'[r] = "sent" /\ idx'[r] = idx[r] /\ stage'[r] = n
      /\ attempts'[r] = attempts[r] /\ sends'[r] = sends[r] + 1 /\ reply'[r] = reply[r]
      /\ idx[r] \in Nat \ {0} /\ sends[r] \in Nat /\ Len(attempts[r]) \in Nat
      /\ stage[r] \in 0..4
  BY <1>1 DEF FailoverTypeOK
<1>5. /\ sends[r] + 1 <= 5 * (idx[r] - 1) + n + 1
      /\ reply[r] = NoReply /\ idx[r] <= Len(attempts[r])
  <2>1. TryOK(r) /\ CallOK(r)
    BY DEF FailoverInv
  <2>2. CASE pc[r] = "try"
    BY <2>1, <2>2, <1>4 DEF TryOK, CallsBefore
  <2>3. CASE pc[r] = "got"
    <3>1. sends[r] <= 5 * (idx[r] - 1) + stage[r] + 1
      BY <2>1, <2>3 DEF CallOK, CallsBefore
    <3>2. /\ sends[r] \in Nat /\ idx[r] \in Nat /\ stage[r] \in Nat /\ n \in Nat
          /\ stage[r] < n
      BY <2>3, <1>4
    <3>3. sends[r] + 1 <= 5 * (idx[r] - 1) + n + 1
      BY <3>1, <3>2, OneMoreCall
    <3>4. reply[r] = NoReply /\ idx[r] <= Len(attempts[r])
      BY <2>1, <2>3 DEF CallOK
    <3> QED
      BY <3>3, <3>4
  <2> QED
    BY <2>2, <2>3
<1>6. CallOK(r)'
  BY <1>4, <1>5 DEF CallOK, CallsBefore, NoReply
<1>7. RequestOK(r)'
  BY <1>4, <1>6 DEF RequestOK, GotOK, IdleOK, TryOK, DoneOK
<1> QED
  BY <1>2, <1>3, <1>7, OthersStay

\* A resend that could not be prepared.
LEMMA GiveUpResendInv ==
    ASSUME FailoverInv, NEW r \in Requests, NEW n \in FirstSend..Refreshed,
           pc[r] = "got", stage[r] < n, GiveUpResend(r, n)
    PROVE  FailoverInv'
<1> USE DEF FirstSend, NewPath, NoCipher, Exchanged, Refreshed
<1>1. /\ FailoverTypeOK /\ stage' = [stage EXCEPT ![r] = n]
      /\ UNCHANGED <<pc, attempts, idx, status, sends, shortened, reply>>
  BY DEF FailoverInv, GiveUpResend
<1>2. FailoverTypeOK'
  BY <1>1 DEF FailoverTypeOK
<1>3. Apart(r)
  BY <1>1 DEF FailoverTypeOK, Apart
<1>4. /\ pc'[r] = "got" /\ idx'[r] = idx[r] /\ stage'[r] = n
      /\ attempts'[r] = attempts[r] /\ sends'[r] = sends[r] /\ reply'[r] = reply[r]
      /\ idx[r] \in Nat \ {0} /\ sends[r] \in Nat /\ stage[r] \in 0..4
  BY <1>1 DEF FailoverTypeOK
<1>5. /\ sends[r] <= 5 * (idx[r] - 1) + stage[r] + 1
      /\ reply[r] = NoReply /\ idx[r] <= Len(attempts[r])
  BY DEF FailoverInv, CallOK, CallsBefore
<1>6. CallOK(r)'
  <2>1. sends[r] <= 5 * (idx[r] - 1) + n + 1
    <3>1. /\ sends[r] \in Nat /\ idx[r] \in Nat /\ stage[r] \in Nat /\ n \in Nat
          /\ stage[r] < n
      BY <1>4
    <3> QED
      BY <3>1, <1>5, LaterStage
  <2> QED
    BY <2>1, <1>4, <1>5 DEF CallOK, CallsBefore, NoReply
<1>7. GotOK(r)'
  BY <1>1 DEF FailoverInv, GotOK
<1>8. RequestOK(r)'
  BY <1>4, <1>6, <1>7 DEF RequestOK, IdleOK, TryOK, DoneOK
<1> QED
  BY <1>2, <1>3, <1>8, OthersStay

\* An answer, or the one kept after a resend without one.
LEMMA ReceiveInv ==
    ASSUME FailoverInv, NEW r \in Requests, NEW s \in Statuses,
           pc[r] = "sent", pc' = [pc EXCEPT ![r] = "got"],
           status' = [status EXCEPT ![r] = s],
           UNCHANGED <<attempts, idx, stage, sends, shortened, reply>>
    PROVE  FailoverInv'
<1>1. FailoverTypeOK
  BY DEF FailoverInv
<1>2. FailoverTypeOK'
  BY <1>1 DEF FailoverTypeOK
<1>3. Apart(r)
  BY <1>1 DEF FailoverTypeOK, Apart
<1>4. /\ pc'[r] = "got" /\ status'[r] = s /\ idx'[r] = idx[r] /\ stage'[r] = stage[r]
      /\ attempts'[r] = attempts[r] /\ sends'[r] = sends[r] /\ reply'[r] = reply[r]
  BY <1>1 DEF FailoverTypeOK
<1>5. CallOK(r)
  BY DEF FailoverInv
<1>6. CallOK(r)'
  BY <1>4, <1>5 DEF CallOK, CallsBefore
<1>7. RequestOK(r)'
  BY <1>4, <1>6 DEF RequestOK, GotOK, IdleOK, TryOK, DoneOK
<1> QED
  BY <1>2, <1>3, <1>7, OthersStay

\* An error of intact's own, from between two attempts.
LEMMA AnswerInv ==
    ASSUME FailoverInv, NEW r \in Requests, pc[r] = "try",
           NEW kind \in {"untranslatable", "no usable account", "all accounts failed"},
           Answer(r, kind), UNCHANGED <<attempts, idx, stage, status, sends, shortened>>
    PROVE  FailoverInv'
<1> DEFINE own == [kind |-> kind, status |-> "none"]
<1>1. /\ FailoverTypeOK /\ pc' = [pc EXCEPT ![r] = "done"]
      /\ reply' = [reply EXCEPT ![r] = own]
  BY DEF FailoverInv, Answer, Goto, Own
<1>a. own \in Replies /\ own.kind = kind
  BY DEF Replies
<1> HIDE DEF own
<1>2. FailoverTypeOK'
  BY <1>1, <1>a DEF FailoverTypeOK
<1>3. Apart(r)
  BY <1>1 DEF FailoverTypeOK, Apart
<1>4. pc'[r] = "done" /\ reply'[r] = own
  BY <1>1 DEF FailoverTypeOK
<1>0. idx[r] \in Nat /\ sends[r] \in Nat /\ Len(attempts[r]) \in Nat
  BY <1>1, Numbers
<1>5. sends[r] <= 5 * (idx[r] - 1) /\ idx[r] <= Len(attempts[r]) + 1
  BY DEF FailoverInv, TryOK, CallsBefore
<1>6. DoneOK(r)'
  <2>1. sends[r] <= 5 * Len(attempts[r])
    BY <1>0, <1>5, AllCalls
  <2> QED
    BY <2>1, <1>4, <1>a, <1>0 DEF DoneOK, RelayedOK
<1>7. RequestOK(r)'
  BY <1>4, <1>6 DEF RequestOK, GotOK, IdleOK, TryOK, CallOK
<1> QED
  BY <1>2, <1>3, <1>7, OthersStay

\* The answer that is relayed: TryNext and the resends that no longer apply say
\* what it may be.
LEMMA CommitInv ==
    ASSUME FailoverInv, NEW r \in Requests, Commit(r)
    PROVE  FailoverInv'
<1> USE DEF FirstSend, NewPath, NoCipher, Exchanged, Refreshed
<1> DEFINE own == [kind |-> "relay", status |-> status[r]]
<1>1. /\ FailoverTypeOK /\ pc' = [pc EXCEPT ![r] = "done"]
      /\ reply' = [reply EXCEPT ![r] = own] /\ Settled(r)
      /\ ~TryNext(status[r]) \/ IsLast(r)
      /\ UNCHANGED <<attempts, idx, stage, status, sends, shortened>>
  BY DEF FailoverInv, Commit, Goto, Relay
<1>2. status[r] \in Statuses \cup {"none"}
  BY <1>1 DEF FailoverTypeOK
<1>3. own \in Replies /\ own.kind = "relay" /\ own.status = status[r]
  BY <1>2 DEF Replies
<1> HIDE DEF own
<1>4. FailoverTypeOK'
  BY <1>1, <1>3 DEF FailoverTypeOK
<1>5. Apart(r)
  BY <1>1 DEF FailoverTypeOK, Apart
<1>6. pc'[r] = "done" /\ reply'[r] = own
  BY <1>1 DEF FailoverTypeOK
<1>7. status[r] \in Busy \cup Refusals \cup {"empty"} => idx[r] = Len(attempts[r])
  BY <1>1 DEF TryNext, IsLast
<1>8. status[r] = "unauthorized" =>
          /\ Current(r) \in Exchanging => stage[r] >= 3
          /\ Current(r) \in OAuth => stage[r] = 4
  <2>1. stage[r] \in 0..4
    BY <1>1, Numbers
  <2> QED
    BY <2>1, <1>1 DEF Settled, MayExchange, MayRefresh
<1>9. Current(r)' = Current(r)
  BY <1>1 DEF Current
<1>10. RelayedOK(r)'
  BY <1>1, <1>3, <1>6, <1>7, <1>8, <1>9 DEF RelayedOK
<1>11. sends[r] <= 5 * Len(attempts[r])
  <2>1. /\ sends[r] <= 5 * (idx[r] - 1) + stage[r] + 1
        /\ idx[r] <= Len(attempts[r])
    BY <1>1 DEF FailoverInv, CallOK, CallsBefore, Settled
  <2>2. /\ idx[r] \in Nat /\ sends[r] \in Nat /\ stage[r] \in 0..4
        /\ Len(attempts[r]) \in Nat
    BY <1>1, Numbers
  <2> QED
    BY <2>1, <2>2, CallsSoFar
<1>12. DoneOK(r)'
  BY <1>1, <1>3, <1>6, <1>10, <1>11 DEF DoneOK
<1>13. RequestOK(r)'
  BY <1>6, <1>12 DEF RequestOK, GotOK, IdleOK, TryOK, CallOK
<1> QED
  BY <1>4, <1>5, <1>13, OthersStay

\* A list of any length starts a request.
LEMMA BeginInv ==
    ASSUME FailoverInv, NEW r \in Requests, NEW list, Begin(r, list)
    PROVE  FailoverInv'
<1>1. /\ FailoverTypeOK /\ pc' = [pc EXCEPT ![r] = "try"] /\ pc[r] = "idle"
      /\ list \in Seq(Attempt) /\ list # <<>>
      /\ attempts' = [attempts EXCEPT ![r] = list]
      /\ UNCHANGED <<idx, stage, status, sends, shortened, reply>>
  BY DEF FailoverInv, Begin, Goto
<1>2. FailoverTypeOK'
  BY <1>1 DEF FailoverTypeOK
<1>3. Apart(r)
  BY <1>1 DEF FailoverTypeOK, Apart
<1>4. pc'[r] = "try" /\ attempts'[r] = list
  BY <1>1 DEF FailoverTypeOK
<1>5. idx[r] = 1 /\ stage[r] = FirstSend /\ sends[r] = 0 /\ reply[r] = NoReply
  BY <1>1 DEF FailoverInv, IdleOK
<1>6. Len(list) \in Nat
  BY <1>1
<1>7. TryOK(r)'
  BY <1>1, <1>4, <1>5, <1>6 DEF TryOK, CallsBefore
<1>8. RequestOK(r)'
  BY <1>4, <1>7 DEF RequestOK, GotOK, IdleOK, CallOK, DoneOK
<1> QED
  BY <1>2, <1>3, <1>8, OthersStay

-----------------------------------------------------------------------------
\* A handler's own steps keep the invariant, one case for each of them.
LEMMA HandleInv ==
    ASSUME FailoverInv, NEW r \in Requests, Handle(r)
    PROVE  FailoverInv'
<1> USE DEF FirstSend, NewPath, NoCipher, Exchanged, Refreshed
<1>1. FailoverTypeOK
  BY DEF FailoverInv
<1>2. shortened \in [Requests -> BOOLEAN] /\ stage[r] \in 0..4
  BY <1>1, Numbers DEF FailoverTypeOK
<1>3. pc[r] \in {"sent", "got"} => idx[r] <= Len(attempts[r])
  BY DEF FailoverInv, CallOK
<1>4. CASE Skip(r)
  BY <1>2, <1>4, NextAttemptInv DEF Skip
<1>5. CASE Untranslatable(r)
  BY <1>5, AnswerInv DEF Untranslatable
<1>6. CASE Send(r)
  BY <1>6, ResendInv DEF Send
<1>7. CASE \E s \in Statuses : Receive(r, s)
  BY <1>7, ReceiveInv DEF Receive, Goto
<1>8. CASE LoseContact(r)
  <2>1. CASE KeepsAnswer(r)
    <3>1. status[r] \in Statuses
      BY <2>1 DEF KeepsAnswer, Statuses, Succeeded, Rejected
    <3>2. status' = [status EXCEPT ![r] = status[r]]
      BY <1>1, <1>8, <2>1 DEF LoseContact, FailoverTypeOK
    <3> QED
      BY <1>8, <2>1, <3>1, <3>2, ReceiveInv DEF LoseContact, Goto
  <2>2. CASE ~KeepsAnswer(r)
    BY <1>2, <1>3, <1>8, <2>2, NextAttemptInv DEF LoseContact
  <2> QED
    BY <2>1, <2>2
<1>9. CASE ResendOnNewPath(r)
  BY <1>9, ResendInv, GiveUpResendInv DEF ResendOnNewPath, MayRedirect
<1>10. CASE ResendWithoutCipher(r)
  BY <1>10, ResendInv DEF ResendWithoutCipher, MayDecipher
<1>11. CASE ResendExchanged(r)
  BY <1>11, ResendInv, GiveUpResendInv DEF ResendExchanged, MayExchange
<1>12. CASE ResendRefreshed(r)
  BY <1>12, ResendInv, GiveUpResendInv DEF ResendRefreshed, MayRefresh
<1>13. CASE \E worth \in BOOLEAN : MoveOn(r, worth)
  <2> PICK worth \in BOOLEAN : MoveOn(r, worth)
    BY <1>13
  <2>1. shortened' \in [Requests -> BOOLEAN]
    BY <1>2 DEF MoveOn
  <2> QED
    BY <1>3, <2>1, NextAttemptInv DEF MoveOn, Settled
<1>14. CASE Commit(r)
  BY <1>14, CommitInv
<1>15. CASE Exhausted(r)
  BY <1>15, AnswerInv DEF Exhausted
<1> QED
  BY <1>4, <1>5, <1>6, <1>7, <1>8, <1>9, <1>10, <1>11, <1>12, <1>13, <1>14, <1>15
     DEF Handle, Work

\* The invariant is inductive.
LEMMA NextInv == FailoverInv /\ [FailoverNext]_failoverVars => FailoverInv'
<1> SUFFICES ASSUME FailoverInv, [FailoverNext]_failoverVars
             PROVE  FailoverInv'
  OBVIOUS
<1>1. CASE UNCHANGED failoverVars
  BY <1>1 DEF failoverVars, FailoverInv, FailoverTypeOK, IdleOK, TryOK, CallOK, GotOK,
              DoneOK, RelayedOK, CallsBefore, Current
<1>2. CASE FailoverNext
  <2> PICK r \in Requests :
        \/ Handle(r)
        \/ \E n \in 1..MaxAttempts : \E list \in [1..n -> OwnModel] : Begin(r, list)
    BY <1>2 DEF FailoverNext
  <2> QED
    BY HandleInv, BeginInv
<1> QED
  BY <1>1, <1>2

\* The inductive invariant holds in every state of every behaviour.
THEOREM FailoverInvariant == FailoverSpec => []FailoverInv
  BY InitInv, NextInv, PTL DEF FailoverSpec

\* The variables keep their types; TLC checks the same on lists of three attempts.
THEOREM FailoverTypes == FailoverSpec => []FailoverTypeOK
<1>1. FailoverInv => FailoverTypeOK
  BY DEF FailoverInv
<1> QED
  BY <1>1, FailoverInvariant, PTL

\* For lists of any length, a busy answer, a refusal or an empty stream is relayed
\* only from the last account (v1.go:733).
THEOREM RelaysBusyOnlyFromLast == FailoverSpec => []BusyOnlyFromLast
<1>1. FailoverInv => BusyOnlyFromLast
  <2> SUFFICES ASSUME FailoverInv, NEW r \in Requests, reply[r].kind = "relay",
                      reply[r].status \in Busy \cup Refusals \cup {"empty"}
               PROVE  idx[r] = Len(attempts[r])
    BY DEF BusyOnlyFromLast
  <2>1. reply[r] # NoReply
    BY DEF NoReply
  <2>2. pc[r] = "done"
    BY <2>1 DEF FailoverInv, FailoverTypeOK, IdleOK, TryOK, CallOK
  <2> QED
    BY <2>2 DEF FailoverInv, DoneOK, RelayedOK
<1> QED
  BY <1>1, FailoverInvariant, PTL

\* For lists of any length, the calls are at most five for each attempt: the resends
\* cannot feed each other.
THEOREM CallsAreBounded == FailoverSpec => []SendsBounded
<1>1. FailoverInv => SendsBounded
  <2> SUFFICES ASSUME FailoverInv, NEW r \in Requests
               PROVE  sends[r] <= 5 * Len(attempts[r])
    BY DEF SendsBounded, Refreshed
  <2>1. /\ idx[r] \in Nat /\ sends[r] \in Nat /\ stage[r] \in 0..4
        /\ Len(attempts[r]) \in Nat
    BY Numbers DEF FailoverInv
  <2>2. CASE pc[r] = "idle"
    BY <2>1, <2>2 DEF FailoverInv, IdleOK
  <2>3. CASE pc[r] = "try"
    BY <2>1, <2>3, AllCalls DEF FailoverInv, TryOK, CallsBefore
  <2>4. CASE pc[r] \in {"sent", "got"}
    BY <2>1, <2>4, CallsSoFar DEF FailoverInv, CallOK, CallsBefore
  <2>5. CASE pc[r] = "done"
    BY <2>5 DEF FailoverInv, DoneOK
  <2> QED
    BY <2>2, <2>3, <2>4, <2>5 DEF FailoverInv, FailoverTypeOK
<1> QED
  BY <1>1, FailoverInvariant, PTL

\* For lists of any length, a 401 is relayed only after the account's credential was
\* renewed in every way it has (v1.go:736).
THEOREM RenewsBeforeRefusal == FailoverSpec => []RenewedBeforeRefusal
<1>1. FailoverInv => RenewedBeforeRefusal
  <2> SUFFICES ASSUME FailoverInv, NEW r \in Requests, reply[r].kind = "relay",
                      reply[r].status = "unauthorized"
               PROVE  /\ Current(r) \in Exchanging => stage[r] >= Exchanged
                      /\ Current(r) \in OAuth => stage[r] = Refreshed
    BY DEF RenewedBeforeRefusal
  <2>1. reply[r] # NoReply
    BY DEF NoReply
  <2>2. pc[r] = "done"
    BY <2>1 DEF FailoverInv, FailoverTypeOK, IdleOK, TryOK, CallOK
  <2> QED
    BY <2>2 DEF FailoverInv, DoneOK, RelayedOK
<1> QED
  BY <1>1, FailoverInvariant, PTL

-----------------------------------------------------------------------------
(* The handler implements the promise, its liveness aside: every step of a     *)
(* handler is a step of Delivery under the mapping of Promise, or changes       *)
(* nothing the caller can see.                                                  *)

Left(r)   == IF pc[r] = "idle" THEN -1 ELSE Len(attempts[r]) - idx[r] + 1
Got(r)    == IF reply[r].kind = "none" THEN "waiting"
             ELSE IF reply[r].kind = "relay" THEN reply[r].status
             ELSE IF reply[r].kind = "untranslatable" THEN "refused"
             ELSE "failed"
AllLeft   == [r \in Requests |-> Left(r)]
AllGot    == [r \in Requests |-> Got(r)]

\* The promise's actions, spelled out under the mapping.
LEMMA Mapping ==
    /\ Promise!DeliveryInit <=> /\ AllLeft = [r \in Requests |-> -1]
                               /\ AllGot = [r \in Requests |-> "waiting"]
    /\ \A r : Promise!Planned(r) <=> AllLeft[r] # -1
    /\ \A r, n : Promise!Plan(r, n) <=>
          /\ AllLeft[r] = -1 /\ AllGot[r] = "waiting" /\ n \in Nat \ {0}
          /\ AllLeft' = [AllLeft EXCEPT ![r] = n] /\ AllGot' = AllGot
    /\ \A r : Promise!GiveUp(r) <=>
          /\ AllLeft[r] # -1 /\ AllGot[r] = "waiting" /\ AllLeft[r] # 0
          /\ AllLeft' = [AllLeft EXCEPT ![r] = AllLeft[r] - 1] /\ AllGot' = AllGot
    /\ \A r, s : Promise!Deliver(r, s) <=>
          /\ AllLeft[r] # -1 /\ AllGot[r] = "waiting" /\ AllLeft[r] # 0
          /\ s \in Busy \cup Refusals \cup {"empty"} => AllLeft[r] = 1
          /\ AllGot' = [AllGot EXCEPT ![r] = s] /\ AllLeft' = AllLeft
    /\ \A r : Promise!Refuse(r) <=>
          /\ AllGot[r] = "waiting"
          /\ AllGot' = [AllGot EXCEPT ![r] = "refused"] /\ AllLeft' = AllLeft
    /\ \A r : Promise!Fail(r) <=>
          /\ AllGot[r] = "waiting" /\ AllLeft[r] = 0
          /\ AllGot' = [AllGot EXCEPT ![r] = "failed"] /\ AllLeft' = AllLeft
  BY DEF Promise!DeliveryInit, Promise!Plan, Promise!GiveUp, Promise!Deliver, Promise!Refuse,
         Promise!Fail, Promise!Planned, Promise!Unplanned, Promise!Waiting, Promise!Failed,
         Promise!Refused, AllLeft, AllGot, Left, Got

\* Steps the caller cannot see.
LEMMA QuietStep ==
    ASSUME FailoverTypeOK, NEW r \in Requests, NEW w, w # "idle", pc[r] # "idle",
           pc' = [pc EXCEPT ![r] = w], UNCHANGED <<attempts, idx, reply>>
    PROVE  AllLeft' = AllLeft /\ AllGot' = AllGot
<1>1. \A q \in Requests : Left(q)' = Left(q) /\ Got(q)' = Got(q)
  BY DEF FailoverTypeOK, Left, Got
<1> QED
  BY <1>1 DEF AllLeft, AllGot

\* Giving an attempt up takes one candidate away.
LEMMA NextAttemptGivesUp ==
    ASSUME FailoverInv, NEW r \in Requests,
           pc[r] \in {"try", "sent", "got"}, idx[r] <= Len(attempts[r]),
           NextAttempt(r), UNCHANGED <<attempts, reply>>
    PROVE  Promise!GiveUp(r)
<1>1. /\ FailoverTypeOK /\ pc' = [pc EXCEPT ![r] = "try"]
      /\ idx' = [idx EXCEPT ![r] = idx[r] + 1]
      /\ idx[r] \in Nat \ {0} /\ Len(attempts[r]) \in Nat
  BY Numbers DEF FailoverInv, NextAttempt, Goto
<1>2. \A q \in Requests : q # r => Left(q)' = Left(q)
  BY <1>1 DEF FailoverTypeOK, Left
<1>3. \A q \in Requests : Got(q)' = Got(q)
  BY DEF Got
<1>4. Left(r) = Len(attempts[r]) - idx[r] + 1
  BY DEF Left
<1>5. Left(r)' = Len(attempts[r]) - (idx[r] + 1) + 1
  <2>1. pc'[r] = "try" /\ idx'[r] = idx[r] + 1 /\ attempts'[r] = attempts[r]
    BY <1>1 DEF FailoverTypeOK
  <2> QED
    BY <2>1 DEF Left
<1>6. Left(r)' = Left(r) - 1 /\ Left(r) # -1 /\ Left(r) # 0
  BY <1>1, <1>4, <1>5
<1>7. AllLeft' = [AllLeft EXCEPT ![r] = AllLeft[r] - 1]
  BY <1>2, <1>6 DEF AllLeft
<1>8. AllGot' = AllGot
  BY <1>3 DEF AllGot
<1>9. reply[r] = NoReply
  BY DEF FailoverInv, TryOK, CallOK
<1>10. AllLeft[r] = Left(r) /\ AllGot[r] = "waiting"
  BY <1>9 DEF AllLeft, AllGot, Got, NoReply
<1> QED
  BY <1>6, <1>7, <1>8, <1>10, Mapping

\* An answer, relayed or intact's own, as the caller sees it.
LEMMA ReplyIsSeen ==
    ASSUME FailoverTypeOK, NEW r \in Requests, NEW rep, pc[r] # "idle", reply[r] = NoReply,
           pc' = [pc EXCEPT ![r] = "done"], reply' = [reply EXCEPT ![r] = rep],
           UNCHANGED <<attempts, idx>>
    PROVE  /\ AllLeft' = AllLeft
           /\ AllLeft[r] = Len(attempts[r]) - idx[r] + 1
           /\ AllGot[r] = "waiting"
           /\ AllGot' = [AllGot EXCEPT ![r] =
                IF rep.kind = "none" THEN "waiting"
                ELSE IF rep.kind = "relay" THEN rep.status
                ELSE IF rep.kind = "untranslatable" THEN "refused"
                ELSE "failed"]
<1>1. \A q \in Requests : Left(q)' = Left(q)
  BY DEF FailoverTypeOK, Left
<1>2. \A q \in Requests : q # r => Got(q)' = Got(q)
  BY DEF FailoverTypeOK, Got
<1>3. reply'[r] = rep
  BY DEF FailoverTypeOK
<1>4. Got(r) = "waiting"
  BY DEF Got, NoReply
<1>5. Left(r) = Len(attempts[r]) - idx[r] + 1
  BY DEF Left
<1> DEFINE seen == IF rep.kind = "none" THEN "waiting"
                   ELSE IF rep.kind = "relay" THEN rep.status
                   ELSE IF rep.kind = "untranslatable" THEN "refused"
                   ELSE "failed"
<1>6. Got(r)' = seen
  BY <1>3 DEF Got
<1> HIDE DEF seen
<1>7. AllLeft' = AllLeft /\ AllLeft[r] = Len(attempts[r]) - idx[r] + 1
  BY <1>1, <1>5 DEF AllLeft
<1>8. AllGot[r] = "waiting" /\ AllGot' = [AllGot EXCEPT ![r] = seen]
  BY <1>2, <1>4, <1>6 DEF AllGot
<1> QED
  BY <1>7, <1>8 DEF seen

\* What is relayed is what the promise allows.
LEMMA CommitDelivers ==
    ASSUME FailoverInv, NEW r \in Requests, Commit(r)
    PROVE  \E s \in Statuses : Promise!Deliver(r, s)
<1>1. /\ FailoverTypeOK /\ pc[r] = "got" /\ pc' = [pc EXCEPT ![r] = "done"]
      /\ reply' = [reply EXCEPT ![r] = Relay(status[r])]
      /\ ~TryNext(status[r]) \/ IsLast(r)
      /\ UNCHANGED <<attempts, idx>>
  BY DEF FailoverInv, Commit, Goto, Settled
<1>2. status[r] \in Statuses /\ reply[r] = NoReply /\ idx[r] <= Len(attempts[r])
  BY <1>1 DEF FailoverInv, GotOK, CallOK
<1>3. idx[r] \in Nat \ {0} /\ Len(attempts[r]) \in Nat
  BY <1>1, Numbers
<1>4. Relay(status[r]).kind = "relay" /\ Relay(status[r]).status = status[r]
  BY DEF Relay
<1>5. /\ AllLeft' = AllLeft /\ AllLeft[r] = Len(attempts[r]) - idx[r] + 1
      /\ AllGot[r] = "waiting" /\ AllGot' = [AllGot EXCEPT ![r] = status[r]]
  <2> DEFINE rep == Relay(status[r])
  <2>1. rep.kind = "relay" /\ rep.status = status[r]
    BY <1>4
  <2>2. reply' = [reply EXCEPT ![r] = rep]
    BY <1>1
  <2> HIDE DEF rep
  <2>3. /\ AllLeft' = AllLeft /\ AllLeft[r] = Len(attempts[r]) - idx[r] + 1
        /\ AllGot[r] = "waiting"
        /\ AllGot' = [AllGot EXCEPT ![r] =
              IF rep.kind = "none" THEN "waiting"
              ELSE IF rep.kind = "relay" THEN rep.status
              ELSE IF rep.kind = "untranslatable" THEN "refused"
              ELSE "failed"]
    <3>1. pc[r] # "idle" /\ UNCHANGED <<attempts, idx>>
      BY <1>1
    <3> QED
      BY <1>1, <1>2, <2>2, <3>1, ReplyIsSeen
  <2> QED
    BY <2>1, <2>3
<1>6. AllLeft[r] # -1 /\ AllLeft[r] # 0
  BY <1>2, <1>3, <1>5
<1>7. status[r] \in Busy \cup Refusals \cup {"empty"} => AllLeft[r] = 1
  BY <1>1, <1>3, <1>5 DEF TryNext, IsLast
<1> QED
  BY <1>2, <1>5, <1>6, <1>7, Mapping

\* A request that starts has as many candidates as attempts.
LEMMA BeginPlans ==
    ASSUME FailoverInv, NEW r \in Requests, NEW list, Begin(r, list)
    PROVE  \E n : n = AllLeft'[r] /\ Promise!Plan(r, n)
<1>1. /\ FailoverTypeOK /\ pc' = [pc EXCEPT ![r] = "try"] /\ pc[r] = "idle"
      /\ list \in Seq(Attempt) /\ list # <<>>
      /\ attempts' = [attempts EXCEPT ![r] = list]
      /\ UNCHANGED <<idx, reply>>
  BY DEF FailoverInv, Begin, Goto
<1>2. idx[r] = 1 /\ reply[r] = NoReply
  BY <1>1 DEF FailoverInv, IdleOK
<1>3. \A q \in Requests : q # r => Left(q)' = Left(q)
  BY <1>1 DEF FailoverTypeOK, Left
<1>4. \A q \in Requests : Got(q)' = Got(q)
  BY <1>1 DEF Got
<1>5. Left(r)' = Len(list)
  <2>1. pc'[r] = "try" /\ attempts'[r] = list /\ idx'[r] = 1
    BY <1>1, <1>2 DEF FailoverTypeOK
  <2>2. Len(list) \in Nat
    BY <1>1
  <2> QED
    BY <2>1, <2>2 DEF Left
<1>6. Len(list) \in Nat \ {0}
  BY <1>1
<1>7. AllLeft' = [AllLeft EXCEPT ![r] = Len(list)] /\ AllLeft'[r] = Len(list)
  BY <1>3, <1>5 DEF AllLeft
<1>8. AllGot' = AllGot
  BY <1>4 DEF AllGot
<1>9. AllLeft[r] = -1 /\ AllGot[r] = "waiting"
  BY <1>1, <1>2 DEF AllLeft, AllGot, Left, Got, NoReply
<1>10. Promise!Plan(r, Len(list))
  BY <1>6, <1>7, <1>8, <1>9, Mapping
<1> QED
  BY <1>7, <1>10

\* Each step of a handler is a step of the promise or is not seen.
LEMMA HandleKeepsPromise ==
    ASSUME FailoverInv, NEW r \in Requests, Handle(r)
    PROVE  \/ Promise!GiveUp(r) \/ Promise!Refuse(r) \/ Promise!Fail(r)
           \/ \E s \in Statuses : Promise!Deliver(r, s)
           \/ AllLeft' = AllLeft /\ AllGot' = AllGot
<1>1. FailoverTypeOK
  BY DEF FailoverInv
<1>2. pc[r] \in {"sent", "got"} => idx[r] <= Len(attempts[r])
  BY DEF FailoverInv, CallOK
<1>3. pc[r] = "try" => reply[r] = NoReply /\ idx[r] <= Len(attempts[r]) + 1
  BY DEF FailoverInv, TryOK
<1>4. CASE Skip(r)
  BY <1>4, NextAttemptGivesUp DEF Skip
<1>5. CASE Untranslatable(r)
  <2>1. /\ pc[r] = "try" /\ pc' = [pc EXCEPT ![r] = "done"]
        /\ reply' = [reply EXCEPT ![r] = Own("untranslatable")]
        /\ UNCHANGED <<attempts, idx>>
    BY <1>5 DEF Untranslatable, Answer, Goto
  <2>2. Own("untranslatable").kind = "untranslatable"
    BY DEF Own
  <2>3. /\ AllLeft' = AllLeft /\ AllGot[r] = "waiting"
        /\ AllGot' = [AllGot EXCEPT ![r] = "refused"]
    BY <1>1, <1>3, <2>1, <2>2, ReplyIsSeen
  <2> QED
    BY <2>3, Mapping
<1>6. CASE Exhausted(r)
  <2> DEFINE kind == IF sends[r] = 0 THEN "no usable account" ELSE "all accounts failed"
  <2>1. /\ pc[r] = "try" /\ idx[r] > Len(attempts[r])
        /\ pc' = [pc EXCEPT ![r] = "done"]
        /\ reply' = [reply EXCEPT ![r] = Own(kind)] /\ UNCHANGED <<attempts, idx>>
    BY <1>6 DEF Exhausted, Answer, Goto
  <2>2. Own(kind).kind \in {"no usable account", "all accounts failed"}
    BY DEF Own
  <2> HIDE DEF kind
  <2>3. /\ AllLeft' = AllLeft /\ AllGot[r] = "waiting"
        /\ AllLeft[r] = Len(attempts[r]) - idx[r] + 1
        /\ AllGot' = [AllGot EXCEPT ![r] = "failed"]
    BY <1>1, <1>3, <2>1, <2>2, ReplyIsSeen
  <2>4. AllLeft[r] = 0
    BY <1>1, <1>3, <2>1, <2>3, Numbers
  <2> QED
    BY <2>3, <2>4, Mapping
<1>7. CASE LoseContact(r) /\ ~KeepsAnswer(r)
  BY <1>2, <1>7, NextAttemptGivesUp DEF LoseContact
<1>8. CASE \E worth \in BOOLEAN : MoveOn(r, worth)
  BY <1>2, <1>8, NextAttemptGivesUp DEF MoveOn, Settled
<1>9. CASE Commit(r)
  BY <1>9, CommitDelivers
<1>10. CASE \/ Send(r) \/ \E s \in Statuses : Receive(r, s)
            \/ LoseContact(r) /\ KeepsAnswer(r)
  BY <1>1, <1>10, QuietStep DEF Send, Resend, Receive, LoseContact, Goto
<1>11. CASE \/ ResendOnNewPath(r) \/ ResendWithoutCipher(r)
            \/ ResendExchanged(r) \/ ResendRefreshed(r)
  <2>1. CASE pc' = [pc EXCEPT ![r] = "sent"] /\ UNCHANGED <<attempts, idx, reply>>
    <3>1. pc[r] = "got"
      BY <1>11 DEF ResendOnNewPath, ResendWithoutCipher, ResendExchanged, ResendRefreshed
    <3> QED
      BY <1>1, <2>1, <3>1, QuietStep
  <2>2. CASE UNCHANGED <<pc, attempts, idx, reply>>
    BY <2>2 DEF AllLeft, AllGot, Left, Got
  <2> QED
    BY <1>11, <2>1, <2>2 DEF ResendOnNewPath, ResendWithoutCipher, ResendExchanged,
                            ResendRefreshed, Resend, GiveUpResend, Goto
<1> QED
  BY <1>4, <1>5, <1>6, <1>7, <1>8, <1>9, <1>10, <1>11 DEF Handle, Work

\* The handler, over lists of any length, implements what Delivery promises the
\* caller, its liveness aside (v1.go:733).
THEOREM FailoverImplementsDelivery ==
    FailoverSpec => Promise!DeliveryInit /\ [][Promise!DeliveryNext]_(Promise!deliveryVars)
<1>1. FailoverInit => Promise!DeliveryInit
  BY Mapping DEF FailoverInit, AllLeft, AllGot, Left, Got, NoReply
<1>2. FailoverInv /\ [FailoverNext]_failoverVars
      => [Promise!DeliveryNext]_(Promise!deliveryVars)
  <2> SUFFICES ASSUME FailoverInv, [FailoverNext]_failoverVars
               PROVE  \/ Promise!DeliveryNext
                      \/ AllLeft' = AllLeft /\ AllGot' = AllGot
    BY DEF Promise!deliveryVars, AllLeft, AllGot, Left, Got
  <2>1. CASE UNCHANGED failoverVars
    BY <2>1 DEF failoverVars, AllLeft, AllGot, Left, Got
  <2>2. CASE \E r \in Requests : Handle(r)
    BY <2>2, HandleKeepsPromise DEF Promise!DeliveryNext
  <2>3. CASE \E r \in Requests, list \in Seq(Attempt) : Begin(r, list)
    <3> PICK r \in Requests, list \in Seq(Attempt) : Begin(r, list)
      BY <2>3
    <3>1. PICK n : n = AllLeft'[r] /\ Promise!Plan(r, n)
      BY BeginPlans
    <3>2. AllLeft'[r] = [q \in Requests |->
            IF pc[q] = "idle" THEN -1 ELSE Len(attempts[q]) - idx[q] + 1]'[r]
      BY DEF AllLeft, Left
    <3> QED
      BY <3>1, <3>2 DEF Promise!DeliveryNext, Promise!Plan
  <2> QED
    BY <2>1, <2>2, <2>3 DEF FailoverNext, Begin
<1> QED
  BY <1>1, <1>2, FailoverInvariant, PTL DEF FailoverSpec

-----------------------------------------------------------------------------
(* NAMES OF TOOLS.  No two declared tools go out under one name, and no name that *)
(* goes out is taken for another tool.                                           *)

\* The callers' names are none of the shortened ones.
NamesInv ==
    /\ declared \subseteq Names
    /\ \A n \in declared, m \in Long : Short[m] # n

LEMMA DeclaredNames == NamesSpec => []NamesInv
<1>1. NamesInit => NamesInv
  BY DEF NamesInit, NamesInv
<1>2. NamesInv /\ [NamesNext]_declared => NamesInv'
  <2> SUFFICES ASSUME NamesInv, [NamesNext]_declared PROVE NamesInv'
    OBVIOUS
  <2>1. CASE UNCHANGED declared
    BY <2>1 DEF NamesInv
  <2>2. ASSUME NEW n \in Names, Declare(n) PROVE NamesInv'
    BY <2>2 DEF NamesInv, Declare
  <2> QED
    BY <2>1, <2>2 DEF NamesNext
<1> QED
  BY <1>1, <1>2, PTL DEF NamesSpec

-----------------------------------------------------------------------------
\* What a tool that is renamed tells: it is the one of its kind, and goes out as the
\* word of that kind, which no long name and no namespace is.
LEMMA RenamedIsAlone ==
    ASSUME NEW n, Renamed(n), NamesInv
    PROVE  /\ n \in Names /\ FirstCap[n] \in Caps /\ OfKind(FirstCap[n]) = {n}
           /\ Vocab[FirstCap[n]] \in Names \ (Spaced \cup Long)
           /\ CapsOf[Vocab[FirstCap[n]]] = {FirstCap[n]}
           /\ FirstCap[Vocab[FirstCap[n]]] = FirstCap[n]
           /\ Vocab[FirstCap[n]] # n
<1> DEFINE c == FirstCap[n]  v == Vocab[c]
<1>1. n \in Names /\ OfKind(c) = {n} /\ v # NoName /\ v # n
  BY DEF Renamed, Alone, Known, NamesInv
<1>2. c \in Caps
  BY <1>1, NamesAssumption
<1>3. v \in Names /\ CapsOf[v] = {c} /\ v \notin Spaced \cup Long
  BY <1>1, <1>2, NamesAssumption
<1>4. FirstCap[v] \in CapsOf[v]
  BY <1>3, NamesAssumption
<1>5. FirstCap[v] = c
  BY <1>3, <1>4
<1> HIDE DEF c, v
<1>6. v \in Names \ (Spaced \cup Long)
  BY <1>3
<1> QED
  BY <1>1, <1>2, <1>3, <1>5, <1>6 DEF c, v

\* The word a tool goes out as is declared by no caller: it would be of the tool's kind.
LEMMA RenamedIsNew ==
    ASSUME NEW n, Renamed(n), NamesInv
    PROVE  Vocab[FirstCap[n]] \notin declared
<1> DEFINE v == Vocab[FirstCap[n]]
<1> SUFFICES ASSUME v \in declared PROVE FALSE
  OBVIOUS
<1>1. v \notin Spaced /\ CapsOf[v] # {}
  BY RenamedIsAlone
<1>2. v \in OfKind(FirstCap[n])
  BY <1>1, RenamedIsAlone DEF OfKind, Known
<1> QED
  BY <1>2, RenamedIsAlone

\* No two tools go out as one name: the name a tool goes out as is sent for it alone.
LEMMA SentOnce ==
    ASSUME NamesInv, NEW n \in declared, NEW k \in declared,
           SentFor(k, ToProvider(n))
    PROVE  k = n
<1> DEFINE name == ToProvider(n)
<1>1. CASE Renamed(n)
  <2>1. name = Vocab[FirstCap[n]] /\ name \notin Long /\ CapsOf[name] = {FirstCap[n]} /\ FirstCap[n] \in Caps
    BY <1>1, RenamedIsAlone DEF ToProvider
  <2>2. CASE Renamed(k) /\ name = Vocab[FirstCap[k]]
    <3>1. CapsOf[name] = {FirstCap[k]}
      BY <2>2, RenamedIsAlone
    <3>2. FirstCap[k] = FirstCap[n]
      BY <2>1, <3>1
    <3>3. OfKind(FirstCap[n]) = {n} /\ OfKind(FirstCap[k]) = {k}
      BY <1>1, <2>2, RenamedIsAlone
    <3> QED
      BY <3>2, <3>3
  <2>3. CASE k \in Long /\ name = Short[k]
    BY <2>1, <2>3, NamesAssumption
  <2> QED
    BY <2>2, <2>3 DEF SentFor
<1>2. CASE ~Renamed(n) /\ n \in Long
  <2>1. name = Short[n]
    BY <1>2 DEF ToProvider
  <2>2. ~(Renamed(k) /\ name = Vocab[FirstCap[k]])
    <3> SUFFICES ASSUME Renamed(k), name = Vocab[FirstCap[k]] PROVE FALSE
      OBVIOUS
    <3>1. FirstCap[k] \in Caps
      BY RenamedIsAlone
    <3> QED
      BY <1>2, <2>1, <3>1, NamesAssumption
  <2>3. k \in Long /\ Short[k] = Short[n]
    BY <2>1, <2>2 DEF SentFor
  <2> QED
    BY <1>2, <2>3, NamesAssumption
<1>3. CASE ~Renamed(n) /\ n \notin Long
  <2>1. name = n
    BY <1>3 DEF ToProvider
  <2>2. CASE Renamed(k) /\ name = Vocab[FirstCap[k]]
    BY <2>1, <2>2, RenamedIsNew
  <2>3. CASE k \in Long /\ name = Short[k]
    BY <2>1, <2>3 DEF NamesInv
  <2> QED
    BY <2>2, <2>3 DEF SentFor
<1> QED
  BY <1>1, <1>2, <1>3

\* No guess takes the name of a declared tool that goes out as it is.
LEMMA GuessIsRight ==
    ASSUME NamesInv, NEW n \in declared, NEW k \in Known,
           n \notin Spaced, Fits(k, n)
    PROVE  k = n
<1>1. n \in Known /\ n \in Names
  BY DEF Known, Fits, NamesInv
<1>2. FirstCap[n] \in CapsOf[n]
  BY <1>1, NamesAssumption DEF Fits
<1>3. n \in OfKind(FirstCap[n])
  BY <1>1 DEF OfKind
<1>4. OfKind(FirstCap[n]) = {k}
  BY <1>2 DEF Fits
<1> QED
  BY <1>3, <1>4

\* A call of any declared tool comes back as a call of that tool.
THEOREM CallsComeBack == NamesSpec => []NamesComeBack
<1>1. NamesInv => NamesComeBack
  <2> SUFFICES ASSUME NamesInv, NEW n \in declared PROVE ToClient(ToProvider(n)) = n
    BY DEF NamesComeBack
  <2> DEFINE name == ToProvider(n)
  <2>1. CASE Renamed(n) \/ n \in Long
    <3>1. SentFor(n, name)
      BY <2>1 DEF SentFor, ToProvider
    <3>2. \A k \in declared : SentFor(k, name) => k = n
      BY SentOnce
    <3>3. (CHOOSE k \in declared : SentFor(k, name)) = n
      BY <3>1, <3>2
    <3> QED
      BY <3>1, <3>3 DEF ToClient
  <2>2. CASE ~Renamed(n) /\ n \notin Long
    <3>1. name = n
      BY <2>2 DEF ToProvider
    <3>2. \A k \in declared : SentFor(k, name) => k = n
      BY SentOnce
    <3>3. \A k \in declared : ~SentFor(k, name)
      BY <2>2, <3>2 DEF SentFor
    <3>4. \A k \in Known : n \notin Spaced /\ Fits(k, n) => k = n
      BY GuessIsRight
    <3>5. CASE SeveralKnown /\ n \notin Spaced /\ \E k \in Known : Fits(k, n)
      <4>1. (CHOOSE k \in Known : Fits(k, n)) = n
        BY <3>4, <3>5
      <4> QED
        BY <3>1, <3>3, <3>5, <4>1 DEF ToClient
    <3>6. CASE ~(SeveralKnown /\ n \notin Spaced /\ \E k \in Known : Fits(k, n))
      BY <3>1, <3>3, <3>6 DEF ToClient
    <3> QED
      BY <3>5, <3>6
  <2> QED
    BY <2>1, <2>2
<1> QED
  BY <1>1, DeclaredNames, PTL

-----------------------------------------------------------------------------
(* MODEL LIST AND POLICY.  What is served is recorded, and the policy in force is *)
(* the one the switches follow.                                                   *)

Switches   == {"none", "on", "off"}
FetchSteps == {"none", "list", "sync", "land"}
RunSteps   == {"policy", "refresh", "list", "rows", "split", "test", "save"}
TestSteps  == {"no", "todo", "wait", "call"} \cup Results

CachedLists == [ids : SUBSET Models, ok : BOOLEAN, fresh : BOOLEAN]
FetchStates ==
    [pc : FetchSteps, ids : SUBSET Models, live : BOOLEAN, ok : BOOLEAN, known : SUBSET Models, policy : Policies]
RunStates ==
    [on : BOOLEAN, cancelled : BOOLEAN, stopped : BOOLEAN, pc : RunSteps, full : BOOLEAN, retest : BOOLEAN,
     models : SUBSET Models, policy : Policies, tests : [Models -> TestSteps], limited : SUBSET Models]
UpdateStates == [pc : {"idle", "stop", "wait", "save", "apply"}, policy : Policies]
TesterStates == [pc : {"idle", "call", "set"}, models : SUBSET Models, works : BOOLEAN, policy : Policies]

CatalogTypes ==
    /\ listed \in SUBSET Models /\ cached \in CachedLists
    /\ fetches \in [Fetches -> FetchStates]
    /\ rows \in [Models -> Switches]
    /\ policy \in Policies
    /\ run \in RunStates /\ timers \in SUBSET SUBSET Models
    /\ update \in [Updaters -> UpdateStates] /\ tester \in TesterStates
    /\ byhand \in SUBSET Models /\ pardoned \in BOOLEAN /\ fallen \in BOOLEAN

-----------------------------------------------------------------------------
LEMMA NoPolicy == [auto |-> FALSE, free |-> FALSE] \in Policies
  BY DEF Policies

LEMMA NoFetchIsFetch == NoFetch \in FetchStates /\ NoFetch.pc = "none"
  BY NoPolicy DEF NoFetch, FetchStates, FetchSteps

LEMMA NoTestsIsTests == NoTests \in [Models -> TestSteps] /\ \A m \in Models : NoTests[m] = "no"
  BY DEF NoTests, TestSteps

LEMMA NoRunIsRun ==
    /\ NoRun \in RunStates /\ ~NoRun.on /\ ~NoRun.stopped /\ NoRun.pc = "policy"
    /\ \A m \in Models : NoRun.tests[m] = "no"
  BY NoPolicy, NoTestsIsTests DEF NoRun, RunStates, RunSteps

LEMMA NoUpdateIsUpdate == NoUpdate \in UpdateStates /\ NoUpdate.pc = "idle"
  BY NoPolicy DEF NoUpdate, UpdateStates

LEMMA NoTesterIsTester == NoTester \in TesterStates /\ NoTester.pc = "idle"
  BY NoPolicy DEF NoTester, TesterStates

LEMMA CatalogStartsTyped == CatalogInit => CatalogTypes
<1> SUFFICES ASSUME CatalogInit PROVE CatalogTypes
  OBVIOUS
<1>1. cached \in CachedLists
  BY DEF CatalogInit, CachedLists
<1>2. rows \in [Models -> Switches]
  BY DEF CatalogInit, Switches
<1> QED
  BY <1>1, <1>2, NoFetchIsFetch, NoRunIsRun, NoUpdateIsUpdate, NoTesterIsTester DEF CatalogInit, CatalogTypes

-----------------------------------------------------------------------------
(* Types, action by action.                                                 *)

\* A fetch joins the one under way, or begins alone.
LEMMA JoinedFetches ==
    ASSUME CatalogTypes
    PROVE  \/ Joined = fetches
           \/ /\ \A f \in Fetches : fetches[f].pc = "none"
              /\ \E f \in Fetches : \E n \in FetchStates :
                   n.pc = "list" /\ Joined = [fetches EXCEPT ![f] = n]
<1> DEFINE free == {f \in Fetches : fetches[f].pc = "none"}
<1>1. CASE MayStart /\ free # {}
  <2>1. PICK f \in Fetches : f = CHOOSE x \in free : TRUE
    BY <1>1
  <2>2. Joined = [fetches EXCEPT ![f].pc = "list"]
    BY <1>1, <2>1 DEF Joined
  <2>3. PICK n : n = [fetches[f] EXCEPT !.pc = "list"]
    OBVIOUS
  <2>4. n \in FetchStates /\ n.pc = "list"
    BY <2>3 DEF CatalogTypes, FetchStates, FetchSteps
  <2> QED
    BY <1>1, <2>2, <2>3, <2>4 DEF MayStart
<1>2. CASE ~(MayStart /\ free # {})
  BY <1>2 DEF Joined
<1> QED
  BY <1>1, <1>2

LEMMA JoinedTyped ==
    ASSUME CatalogTypes
    PROVE  Joined \in [Fetches -> FetchStates]
BY JoinedFetches DEF CatalogTypes

\* A run that starts.
LEMMA StartedRun ==
    ASSUME NEW models \in SUBSET Models, NEW full \in BOOLEAN, NEW retest \in BOOLEAN,
           NEW r, r = Started(models, full, retest)
    PROVE  /\ r \in RunStates /\ r.on /\ ~r.stopped /\ r.pc = "policy" /\ (r.full <=> full)
           /\ \A m \in Models : r.tests[m] = "no"
BY NoRunIsRun DEF Started, RunStates

LEMMA StartIfRun ==
    ASSUME CatalogTypes, NEW models \in SUBSET Models, NEW full \in BOOLEAN, NEW retest \in BOOLEAN,
           NEW wish, StartIf(wish, models, full, retest)
    PROVE  /\ run' \in RunStates
           /\ \/ run' = run
              \/ ~run.on /\ run'.on /\ ~run'.stopped /\ run'.pc = "policy" /\ (run'.full <=> full)
                 /\ \A m \in Models : run'.tests[m] = "no"
           /\ wish /\ ~run.on => run' # run /\ run'.on
<1>1. PICK r : r = Started(models, full, retest)
  OBVIOUS
<1>2. r \in RunStates /\ r.on /\ ~r.stopped /\ r.pc = "policy" /\ (r.full <=> full) /\ \A m \in Models : r.tests[m] = "no"
  BY <1>1, StartedRun
<1>3. run' = IF wish /\ ~run.on THEN r ELSE run
  BY <1>1 DEF StartIf
<1> QED
  BY <1>2, <1>3 DEF CatalogTypes

LEMMA ResumedRun ==
    ASSUME CatalogTypes
    PROVE  /\ Resumed(run) \in RunStates
           /\ \A field \in {"on", "cancelled", "stopped", "full"} : Resumed(run)[field] = run[field]
           /\ Resumed(run).models = run.models /\ Resumed(run).policy = run.policy
           /\ Resumed(run).pc = IF run.pc = "list" THEN "rows" ELSE run.pc
           /\ \A m \in Models : Resumed(run).tests[m] = IF run.tests[m] = "wait" THEN "call" ELSE run.tests[m]
<1>1. run \in RunStates /\ \A m \in Models : run.tests[m] \in TestSteps
  BY DEF CatalogTypes, RunStates
<1>2. PICK at \in RunSteps : at = IF run.pc = "list" THEN "rows" ELSE run.pc
  BY <1>1 DEF RunStates, RunSteps
<1>3. PICK marks \in [Models -> TestSteps] : marks = [m \in Models |-> IF run.tests[m] = "wait" THEN "call" ELSE run.tests[m]]
  BY <1>1 DEF TestSteps
<1>4. Resumed(run) = [run EXCEPT !.pc = at, !.tests = marks]
  BY <1>2, <1>3 DEF Resumed
<1>5. PICK r : r = [run EXCEPT !.pc = at, !.tests = marks]
  OBVIOUS
<1>6. /\ r \in RunStates /\ r.on = run.on /\ r.cancelled = run.cancelled /\ r.stopped = run.stopped /\ r.full = run.full
      /\ r.models = run.models /\ r.policy = run.policy /\ r.pc = at /\ r.tests = marks
  BY <1>1, <1>5 DEF RunStates
<1> QED
  BY <1>2, <1>3, <1>4, <1>5, <1>6

-----------------------------------------------------------------------------
\* A run that only moves on keeps what it is and what it tests.
SameRun(r) ==
    /\ (r.on <=> run.on) /\ (r.cancelled <=> run.cancelled) /\ (r.stopped <=> run.stopped) /\ (r.full <=> run.full)

LEMMA RunReadsPolicyTyped ==
    ASSUME CatalogTypes, RunReadsPolicy
    PROVE  /\ CatalogTypes' /\ SameRun(run') /\ run.on
           /\ run'.models = run.models /\ run'.tests = run.tests /\ run'.policy = policy
           /\ run.pc = "policy" /\ run'.pc = IF run.full THEN "refresh" ELSE "split"
<1>1. PICK at \in RunSteps : at = IF run.full THEN "refresh" ELSE "split"
  BY DEF RunSteps
<1>2. run' = [run EXCEPT !.policy = policy, !.pc = at] /\ run.pc = "policy" /\ run.on
  BY <1>1 DEF RunReadsPolicy
<1>3. /\ run' \in RunStates /\ SameRun(run')
      /\ run'.models = run.models /\ run'.tests = run.tests /\ run'.policy = policy /\ run'.pc = at
  BY <1>2 DEF CatalogTypes, RunStates, SameRun
<1> QED
  BY <1>1, <1>2, <1>3 DEF RunReadsPolicy, CatalogTypes, Outside, Others

LEMMA RunRefreshesTyped ==
    ASSUME CatalogTypes, RunRefreshes
    PROVE  /\ CatalogTypes' /\ SameRun(run') /\ run.on
           /\ run'.models = run.models /\ run'.tests = run.tests /\ run'.policy = run.policy
           /\ run.pc = "refresh" /\ run'.pc = "list"
<1>1. run' = [run EXCEPT !.pc = "list"] /\ "list" \in RunSteps /\ run.pc = "refresh" /\ run.on
  BY DEF RunRefreshes, RunSteps
<1>2. /\ run' \in RunStates /\ SameRun(run')
      /\ run'.models = run.models /\ run'.tests = run.tests /\ run'.policy = run.policy /\ run'.pc = "list"
  BY <1>1 DEF CatalogTypes, RunStates, SameRun
<1> QED
  BY <1>1, <1>2, JoinedTyped DEF RunRefreshes, CatalogTypes, Outside, Others

LEMMA RunStopsWaitingTyped ==
    ASSUME CatalogTypes, RunStopsWaiting
    PROVE  /\ CatalogTypes' /\ SameRun(run') /\ run.on
           /\ run'.models = run.models /\ run'.tests = run.tests /\ run'.policy = run.policy
           /\ run.pc = "list" /\ run'.pc = "rows"
<1>1. run' = [run EXCEPT !.pc = "rows"] /\ "rows" \in RunSteps /\ run.pc = "list" /\ run.on
  BY DEF RunStopsWaiting, RunSteps
<1>2. /\ run' \in RunStates /\ SameRun(run')
      /\ run'.models = run.models /\ run'.tests = run.tests /\ run'.policy = run.policy /\ run'.pc = "rows"
  BY <1>1 DEF CatalogTypes, RunStates, SameRun
<1> QED
  BY <1>1, <1>2 DEF RunStopsWaiting, CatalogTypes, Outside, Others

LEMMA RunListsModelsTyped ==
    ASSUME CatalogTypes, RunListsModels
    PROVE  /\ CatalogTypes' /\ SameRun(run') /\ run.on
           /\ run'.models = Stored /\ run'.tests = run.tests /\ run'.policy = run.policy
           /\ run.pc = "rows" /\ run'.pc = "split"
<1>1. Stored \in SUBSET Models /\ "split" \in RunSteps
  BY DEF Stored, RunSteps
<1>2. run' = [run EXCEPT !.models = Stored, !.pc = "split"] /\ run.pc = "rows" /\ run.on
  BY DEF RunListsModels
<1>3. PICK ms \in SUBSET Models : ms = Stored
  BY <1>1
<1>4. run' = [run EXCEPT !.models = ms, !.pc = "split"]
  BY <1>2, <1>3
<1>5. /\ run' \in RunStates /\ SameRun(run')
      /\ run'.models = ms /\ run'.tests = run.tests /\ run'.policy = run.policy /\ run'.pc = "split"
  BY <1>1, <1>4 DEF CatalogTypes, RunStates, SameRun
<1> QED
  BY <1>2, <1>3, <1>5 DEF RunListsModels, CatalogTypes, Outside, Others

\* Switching rows keeps their models.
LEMMA SwitchedRows ==
    ASSUME CatalogTypes, NEW models, NEW to \in {"on", "off"}
    PROVE  /\ Switched(rows, models, to) \in [Models -> Switches]
           /\ \A m \in Models : /\ Switched(rows, models, to)[m] = "none" <=> rows[m] = "none"
                                /\ m \notin models => Switched(rows, models, to)[m] = rows[m]
                                /\ Switched(rows, models, to)[m] \in {"none", rows[m], to}
                                /\ m \in models => Switched(rows, models, to)[m] \in {"none", to}
BY DEF Switched, CatalogTypes, Switches

LEMMA RunSplitsTyped ==
    ASSUME CatalogTypes, RunSplits
    PROVE  /\ CatalogTypes' /\ SameRun(run') /\ run.on
           /\ run'.models = run.models /\ run'.policy = run.policy
           /\ run.pc = "split" /\ run'.pc = "test"
           /\ \A m \in Models : run'.tests[m] # "no" => Wanted(run.policy, m)
           /\ \A m \in Models : rows'[m] = "none" <=> rows[m] = "none"
           /\ \A m \in Models : rows'[m] = "on" => rows[m] = "on" /\ (m \in run.models => Wanted(run.policy, m))
<1> DEFINE wanted == {m \in run.models : Wanted(run.policy, m)}
<1>1. PICK marks \in [Models -> TestSteps] : marks = [m \in Models |-> IF m \in wanted THEN "todo" ELSE "no"]
  BY DEF TestSteps
<1>2. run' = [run EXCEPT !.pc = "test", !.tests = marks] /\ "test" \in RunSteps /\ run.pc = "split" /\ run.on
  BY <1>1 DEF RunSplits, RunSteps
<1>3. /\ run' \in RunStates /\ SameRun(run')
      /\ run'.models = run.models /\ run'.tests = marks /\ run'.policy = run.policy /\ run'.pc = "test"
  BY <1>2 DEF CatalogTypes, RunStates, SameRun
<1>4. rows' = Switched(rows, run.models \ wanted, "off")
  BY DEF RunSplits
<1>5. rows' \in [Models -> Switches] /\ \A m \in Models : rows'[m] = "none" <=> rows[m] = "none"
  BY <1>4, SwitchedRows
<1>6. \A m \in Models : rows'[m] = "on" => rows[m] = "on" /\ m \notin run.models \ wanted
  BY <1>4, SwitchedRows
<1> QED
  BY <1>1, <1>2, <1>3, <1>5, <1>6 DEF RunSplits, CatalogTypes, Outside, Others

\* One test of a run goes to another step.
LEMMA OneTest ==
    ASSUME CatalogTypes, NEW m \in Models, NEW step \in TestSteps, NEW limited \in SUBSET Models,
           run' = [run EXCEPT !.tests[m] = step, !.limited = limited]
    PROVE  /\ run' \in RunStates /\ SameRun(run') /\ run'.models = run.models /\ run'.policy = run.policy /\ run'.pc = run.pc
           /\ \A x \in Models : run'.tests[x] = IF x = m THEN step ELSE run.tests[x]
<1>1. PICK marks \in [Models -> TestSteps] : marks = [run.tests EXCEPT ![m] = step]
  BY DEF CatalogTypes, RunStates
<1>2. run' = [run EXCEPT !.tests = marks, !.limited = limited]
  BY <1>1
<1>3. /\ run' \in RunStates /\ SameRun(run') /\ run'.models = run.models /\ run'.policy = run.policy /\ run'.pc = run.pc
      /\ run'.tests = marks
  BY <1>2 DEF CatalogTypes, RunStates, SameRun
<1>4. run.tests \in [Models -> TestSteps]
  BY DEF CatalogTypes, RunStates
<1> QED
  BY <1>1, <1>3, <1>4

LEMMA OneTestOnly ==
    ASSUME CatalogTypes, NEW m \in Models, NEW step \in TestSteps, run' = [run EXCEPT !.tests[m] = step]
    PROVE  /\ run' \in RunStates /\ SameRun(run') /\ run'.models = run.models /\ run'.policy = run.policy /\ run'.pc = run.pc
           /\ \A x \in Models : run'.tests[x] = IF x = m THEN step ELSE run.tests[x]
<1>1. run.limited \in SUBSET Models
  BY DEF CatalogTypes, RunStates
<1>2. run' = [run EXCEPT !.tests[m] = step, !.limited = run.limited]
  BY DEF CatalogTypes, RunStates
<1> QED
  BY <1>1, <1>2, OneTest

LEMMA TestBeginsTyped ==
    ASSUME CatalogTypes, NEW m \in Models, TestBegins(m)
    PROVE  /\ CatalogTypes' /\ SameRun(run') /\ run'.models = run.models /\ run'.policy = run.policy /\ run'.pc = run.pc
           /\ \A x \in Models : run'.tests[x] # "no" => run.tests[x] # "no"
           /\ fetches' \in {fetches, Joined}
<1>1. PICK step \in TestSteps : step = IF cached.fresh THEN "call" ELSE "wait"
  BY DEF TestSteps
<1>2. run' = [run EXCEPT !.tests[m] = step] /\ run.tests[m] = "todo"
  BY <1>1 DEF TestBegins
<1>3. fetches' \in [Fetches -> FetchStates] /\ fetches' \in {fetches, Joined}
  BY JoinedTyped DEF TestBegins, CatalogTypes
<1> QED
  BY <1>2, <1>3, OneTestOnly DEF TestBegins, CatalogTypes, Outside, Others

LEMMA TestStopsWaitingTyped ==
    ASSUME CatalogTypes, NEW m \in Models, TestStopsWaiting(m)
    PROVE  /\ CatalogTypes' /\ SameRun(run') /\ run'.models = run.models /\ run'.policy = run.policy /\ run'.pc = run.pc
           /\ \A x \in Models : run'.tests[x] # "no" => run.tests[x] # "no"
<1>1. run' = [run EXCEPT !.tests[m] = "call"] /\ run.tests[m] = "wait" /\ "call" \in TestSteps
  BY DEF TestStopsWaiting, TestSteps
<1> QED
  BY <1>1, OneTestOnly DEF TestStopsWaiting, CatalogTypes, Others

LEMMA TestAnswersTyped ==
    ASSUME CatalogTypes, NEW m \in Models, NEW result \in Results, TestAnswers(m, result)
    PROVE  /\ CatalogTypes' /\ SameRun(run') /\ run'.models = run.models /\ run'.policy = run.policy /\ run'.pc = run.pc
           /\ \A x \in Models : run'.tests[x] # "no" => run.tests[x] # "no"
<1>1. PICK step \in TestSteps : step = IF run.cancelled THEN "no" ELSE result
  BY DEF TestSteps
<1>2. run' = [run EXCEPT !.tests[m] = step] /\ run.tests[m] = "call"
  BY <1>1 DEF TestAnswers
<1> QED
  BY <1>2, OneTestOnly DEF TestAnswers, CatalogTypes, Outside, Others

LEMMA TestIsWrittenTyped ==
    ASSUME CatalogTypes, NEW m \in Models, TestIsWritten(m)
    PROVE  /\ CatalogTypes' /\ SameRun(run') /\ run'.models = run.models /\ run'.policy = run.policy /\ run'.pc = run.pc
           /\ \A x \in Models : run'.tests[x] # "no" => run.tests[x] # "no"
           /\ \A x \in Models : rows'[x] = "none" <=> rows[x] = "none"
           /\ run.tests[m] # "no" /\ \A x \in Models : rows'[x] = "on" => rows[x] = "on" \/ x = m
<1>1. PICK to \in {"on", "off"} : to = IF run.tests[m] = "works" THEN "on" ELSE "off"
  OBVIOUS
<1>2. rows' = Switched(rows, {m}, to)
  BY <1>1 DEF TestIsWritten
<1>3. PICK limited \in SUBSET Models : limited = IF run.tests[m] = "limited" THEN run.limited \cup {m} ELSE run.limited
  BY DEF CatalogTypes, RunStates
<1>4. run' = [run EXCEPT !.tests[m] = "no", !.limited = limited] /\ "no" \in TestSteps
  BY <1>3 DEF TestIsWritten, TestSteps
<1>5. run.tests[m] # "no"
  BY DEF TestIsWritten, Results
<1>6. /\ rows' \in [Models -> Switches] /\ \A x \in Models : rows'[x] = "none" <=> rows[x] = "none"
      /\ \A x \in Models : rows'[x] = "on" => rows[x] = "on" \/ x = m
  BY <1>2, SwitchedRows
<1>7. /\ run' \in RunStates /\ SameRun(run') /\ run'.models = run.models /\ run'.policy = run.policy /\ run'.pc = run.pc
      /\ \A x \in Models : run'.tests[x] = IF x = m THEN "no" ELSE run.tests[x]
  BY <1>4, OneTest
<1>8. CatalogTypes'
  BY <1>6, <1>7 DEF TestIsWritten, CatalogTypes, Outside, Others
<1> QED
  BY <1>5, <1>6, <1>7, <1>8

-----------------------------------------------------------------------------
\* When a run is over, the changes that waited for it go on.
LEMMA RunDoneUpdates ==
    ASSUME CatalogTypes
    PROVE  /\ RunDone(update) \in [Updaters -> UpdateStates]
           /\ \A u \in Updaters : /\ update[u].pc = "wait" => RunDone(update)[u].pc = "save"
                                  /\ update[u].pc # "wait" => RunDone(update)[u] = update[u]
<1>1. ASSUME NEW u \in Updaters, NEW r, r = IF update[u].pc = "wait" THEN [update[u] EXCEPT !.pc = "save"] ELSE update[u]
      PROVE  r \in UpdateStates /\ (update[u].pc = "wait" => r.pc = "save") /\ (update[u].pc # "wait" => r = update[u])
  BY <1>1 DEF CatalogTypes, UpdateStates
<1> QED
  BY <1>1 DEF RunDone

LEMMA EndsTyped ==
    ASSUME CatalogTypes, Ends
    PROVE  /\ run' \in RunStates /\ ~run'.on /\ (\A m \in Models : run'.tests[m] = "no")
           /\ update' \in [Updaters -> UpdateStates]
           /\ \A u \in Updaters : update'[u].pc # "wait" /\ (update'[u] = update[u] \/ (update'[u].pc = "save" /\ update[u].pc = "wait"))
<1>1. run' = NoRun /\ update' = RunDone(update)
  BY DEF Ends
<1>2. update' \in [Updaters -> UpdateStates]
  BY <1>1, RunDoneUpdates
<1>3. ASSUME NEW u \in Updaters
      PROVE  update'[u].pc # "wait" /\ (update'[u] = update[u] \/ (update'[u].pc = "save" /\ update[u].pc = "wait"))
  <2>1. (update[u].pc = "wait" => update'[u].pc = "save") /\ (update[u].pc # "wait" => update'[u] = update[u])
    BY <1>1, RunDoneUpdates
  <2>2. CASE update[u].pc = "wait"
    BY <2>1, <2>2
  <2>3. CASE update[u].pc # "wait"
    BY <2>1, <2>3
  <2> QED
    BY <2>2, <2>3
<1> QED
  BY <1>1, <1>2, <1>3, NoRunIsRun

LEMMA RunEndsTyped ==
    ASSUME CatalogTypes, RunEnds
    PROVE  /\ CatalogTypes' /\ run.on /\ run.pc = "test"
           /\ \/ Ends
              \/ /\ SameRun(run') /\ run'.pc = "save" /\ run'.policy = policy /\ run'.tests = run.tests /\ update' = update
                 /\ \A m \in Models : run.tests[m] = "no"
<1>1. run.limited \in SUBSET Models /\ timers' \in SUBSET SUBSET Models
  BY DEF RunEnds, CatalogTypes, RunStates
<1>2. CASE Ends
  BY <1>1, <1>2, EndsTyped DEF RunEnds, CatalogTypes, Outside, Others
<1>3. CASE run.full /\ ~run.cancelled
  <2>1. run' = [run EXCEPT !.pc = "save", !.policy = policy] /\ "save" \in RunSteps /\ update' = update
    BY <1>3 DEF RunEnds, RunSteps
  <2>2. /\ run' \in RunStates /\ SameRun(run') /\ run'.pc = "save" /\ run'.policy = policy /\ run'.tests = run.tests
    BY <2>1 DEF CatalogTypes, RunStates, SameRun
  <2>3. CatalogTypes'
    BY <1>1, <2>1, <2>2 DEF RunEnds, CatalogTypes, Outside, Others
  <2>4. \A m \in Models : run.tests[m] = "no"
    BY <1>3 DEF RunEnds
  <2> QED
    BY <2>1, <2>2, <2>3, <2>4 DEF RunEnds
<1> QED
  BY <1>2, <1>3 DEF RunEnds

LEMMA RunSavesTyped ==
    ASSUME CatalogTypes, RunSaves
    PROVE  CatalogTypes' /\ run.on /\ run.pc = "save" /\ policy' = run.policy /\ Ends
<1>1. run.policy \in Policies
  BY DEF CatalogTypes, RunStates
<1> QED
  BY <1>1, EndsTyped DEF RunSaves, CatalogTypes, Outside, Others

LEMMA RunTimesOutTyped ==
    ASSUME CatalogTypes, RunTimesOut
    PROVE  /\ CatalogTypes' /\ run'.on /\ run.on /\ (run'.stopped <=> run.stopped) /\ (run'.full <=> run.full)
           /\ run'.pc = run.pc /\ run'.models = run.models /\ run'.policy = run.policy /\ run'.tests = run.tests
<1>1. run' = [run EXCEPT !.cancelled = TRUE] /\ run.on
  BY DEF RunTimesOut
<1>2. /\ run' \in RunStates /\ run'.on /\ (run'.stopped <=> run.stopped) /\ (run'.full <=> run.full)
      /\ run'.pc = run.pc /\ run'.models = run.models /\ run'.policy = run.policy /\ run'.tests = run.tests
  BY <1>1 DEF CatalogTypes, RunStates
<1> QED
  BY <1>1, <1>2 DEF RunTimesOut, CatalogTypes, Others

LEMMA LoopTestsTyped ==
    ASSUME CatalogTypes, LoopTests
    PROVE  CatalogTypes'
<1>1. run' \in RunStates
  BY StartIfRun DEF LoopTests
<1> QED
  BY <1>1 DEF LoopTests, CatalogTypes

LEMMA TimerFiresTyped ==
    ASSUME CatalogTypes, NEW models \in timers, TimerFires(models)
    PROVE  CatalogTypes'
<1>1. models \in SUBSET Models /\ timers' \in SUBSET SUBSET Models
  BY DEF CatalogTypes, TimerFires
<1>2. run' \in RunStates
  BY <1>1, StartIfRun DEF TimerFires
<1> QED
  BY <1>1, <1>2 DEF TimerFires, CatalogTypes, Outside, Others

-----------------------------------------------------------------------------
LEMMA UpdateBeginsTyped ==
    ASSUME CatalogTypes, NEW u \in Updaters, NEW p \in Policies, UpdateBegins(u, p)
    PROVE  /\ CatalogTypes' /\ update[u].pc = "idle" /\ update'[u].pc = "stop"
           /\ \A x \in Updaters : x # u => update'[x] = update[x]
<1>1. PICK n : n = [pc |-> "stop", policy |-> p]
  OBVIOUS
<1>2. n \in UpdateStates /\ n.pc = "stop"
  BY <1>1 DEF UpdateStates
<1>3. update' = [update EXCEPT ![u] = n] /\ update[u].pc = "idle"
  BY <1>1 DEF UpdateBegins
<1> QED
  BY <1>2, <1>3 DEF UpdateBegins, CatalogTypes

LEMMA StopRunTyped ==
    ASSUME CatalogTypes, NEW u \in Updaters, StopRun(u)
    PROVE  /\ CatalogTypes' /\ update[u].pc = "stop" /\ update'[u].pc = (IF run.on THEN "wait" ELSE "save")
           /\ \A x \in Updaters : x # u => update'[x] = update[x]
           /\ (run'.on <=> run.on) /\ (run'.stopped <=> run.on) /\ (run'.full <=> run.full)
           /\ run'.pc = run.pc /\ run'.models = run.models /\ run'.policy = run.policy /\ run'.tests = run.tests
<1> DEFINE c == run.cancelled \/ run.on
<1>1. c \in BOOLEAN /\ run.on \in BOOLEAN
  BY DEF CatalogTypes, RunStates
<1>2. run' = [run EXCEPT !.cancelled = c, !.stopped = run.on]
  BY DEF StopRun
<1> HIDE DEF c
<1>3. /\ run' \in RunStates /\ (run'.on <=> run.on) /\ (run'.stopped <=> run.on) /\ (run'.full <=> run.full)
      /\ run'.pc = run.pc /\ run'.models = run.models /\ run'.policy = run.policy /\ run'.tests = run.tests
  BY <1>1, <1>2 DEF CatalogTypes, RunStates
<1>4. PICK at \in {"wait", "save"} : at = IF run.on THEN "wait" ELSE "save"
  OBVIOUS
<1>5. update' = [update EXCEPT ![u].pc = at] /\ update[u].pc = "stop"
  BY <1>4 DEF StopRun, AfterStop
<1>6. /\ update' \in [Updaters -> UpdateStates] /\ update'[u].pc = at
      /\ \A x \in Updaters : x # u => update'[x] = update[x]
  BY <1>5 DEF CatalogTypes, UpdateStates
<1> QED
  BY <1>3, <1>4, <1>5, <1>6 DEF StopRun, CatalogTypes, Outside, Others

LEMMA SavePolicyTyped ==
    ASSUME CatalogTypes, NEW u \in Updaters, SavePolicy(u)
    PROVE  /\ CatalogTypes' /\ update[u].pc = "save" /\ update'[u].pc = "apply" /\ update'[u].policy = update[u].policy
           /\ policy' = update[u].policy /\ (pardoned' <=> pardoned \/ Crossed(u))
           /\ \A x \in Updaters : x # u => update'[x] = update[x]
<1>1. update[u].policy \in Policies
  BY DEF CatalogTypes, UpdateStates
<1>2. /\ update' \in [Updaters -> UpdateStates] /\ update'[u].pc = "apply" /\ update'[u].policy = update[u].policy
      /\ \A x \in Updaters : x # u => update'[x] = update[x]
  BY DEF SavePolicy, CatalogTypes, UpdateStates
<1>3. pardoned' = (pardoned \/ Crossed(u)) /\ pardoned' \in BOOLEAN
  BY DEF SavePolicy
<1> QED
  BY <1>1, <1>2, <1>3 DEF SavePolicy, CatalogTypes

LEMMA ApplyPolicyTyped ==
    ASSUME CatalogTypes, NEW u \in Updaters, ApplyPolicy(u)
    PROVE  /\ CatalogTypes' /\ update[u].pc = "apply" /\ update'[u].pc = "idle"
           /\ \A x \in Updaters : x # u => update'[x] = update[x]
           /\ \A m \in Models : rows'[m] = "none" <=> rows[m] = "none"
<1>1. update' \in [Updaters -> UpdateStates] /\ update'[u].pc = "idle" /\ \A x \in Updaters : x # u => update'[x] = update[x]
  BY NoUpdateIsUpdate DEF ApplyPolicy, CatalogTypes
<1>2. run' \in RunStates
  BY StartIfRun DEF ApplyPolicy
<1>3. rows' \in [Models -> Switches] /\ \A m \in Models : rows'[m] = "none" <=> rows[m] = "none"
  BY DEF ApplyPolicy, CatalogTypes, Switches
<1>4. pardoned' \in BOOLEAN
  BY DEF ApplyPolicy
<1> QED
  BY <1>1, <1>2, <1>3, <1>4 DEF ApplyPolicy, CatalogTypes

LEMMA PersonTestsTyped ==
    ASSUME CatalogTypes, NEW m \in Models, PersonTests(m)
    PROVE  CatalogTypes' /\ tester'.pc = "call"
<1>1. tester' \in TesterStates /\ tester'.pc = "call"
  BY NoTesterIsTester DEF PersonTests, TesterStates
<1> QED
  BY <1>1 DEF PersonTests, CatalogTypes

LEMMA PersonsAnswerTyped ==
    ASSUME CatalogTypes, NEW works \in BOOLEAN, PersonsAnswer(works)
    PROVE  CatalogTypes' /\ tester'.policy = policy
<1>1. tester' \in TesterStates /\ tester'.policy = policy
  BY DEF PersonsAnswer, CatalogTypes, TesterStates
<1> QED
  BY <1>1 DEF PersonsAnswer, CatalogTypes

LEMMA PersonsSwitchTyped ==
    ASSUME CatalogTypes, PersonsSwitch
    PROVE  /\ CatalogTypes' /\ tester.pc = "set" /\ tester'.pc = "idle"
           /\ \A m \in Models : rows'[m] = "none" <=> rows[m] = "none"
           /\ \A m \in Models : rows'[m] = "on" => rows[m] = "on" \/ Wanted(tester.policy, m)
<1>1. rows' \in [Models -> Switches] /\ \A m \in Models : rows'[m] = "none" <=> rows[m] = "none"
  BY DEF PersonsSwitch, CatalogTypes, Switches
<1>2. \A m \in Models : rows'[m] = "on" => rows[m] = "on" \/ Wanted(tester.policy, m)
  BY DEF PersonsSwitch
<1> QED
  BY <1>1, <1>2, NoTesterIsTester DEF PersonsSwitch, CatalogTypes

LEMMA SwitchByHandTyped ==
    ASSUME CatalogTypes, NEW m \in Models, NEW to \in {"none", "on", "off"}, SwitchByHand(m, to)
    PROVE  /\ CatalogTypes' /\ rows[m] # "none" /\ byhand' = byhand \cup {m}
           /\ \A x \in Models : x # m => rows'[x] = rows[x]
BY DEF SwitchByHand, CatalogTypes, Switches

-----------------------------------------------------------------------------
(* The list.                                                                *)

\* A list that holds what is recorded, but for what a person changed.
Agrees(ids) ==
    /\ ids \subseteq Stored \cup byhand
    /\ Fallback = {} => Stored \subseteq ids \cup byhand

OneFetch == \A f, g \in Fetches : fetches[f].pc # "none" /\ fetches[g].pc # "none" => f = g

\* What a fetch is to record, and knew of the store; what it has recorded; and what
\* is served until a fetch that has recorded a list puts it in the cache.
SyncOK ==
    \A f \in Fetches : fetches[f].pc = "sync" =>
        /\ fetches[f].ids # {} /\ (Fallback = {} => fetches[f].live)
        /\ Stored \subseteq fetches[f].known /\ fetches[f].known \subseteq Stored \cup byhand
Recorded(f) == fetches[f].pc = "land" /\ fetches[f].ids # {}
LandOK   == \A f \in Fetches : Recorded(f) => fallen \/ Agrees(fetches[f].ids)
CachedOK == fallen \/ Agrees(cached.ids) \/ \E f \in Fetches : Recorded(f)

ListInv == OneFetch /\ SyncOK /\ LandOK /\ CachedOK

LEMMA ListStarts == CatalogInit => ListInv
<1> SUFFICES ASSUME CatalogInit PROVE ListInv
  OBVIOUS
<1>1. \A f \in Fetches : fetches[f].pc = "none"
  BY NoFetchIsFetch DEF CatalogInit
<1>2. Stored = {} /\ cached.ids = {}
  BY DEF CatalogInit, Stored
<1> QED
  BY <1>1, <1>2 DEF ListInv, OneFetch, SyncOK, LandOK, CachedOK, Recorded, Agrees

\* The models recorded stay, but for those a person deletes.
SameStored == Stored' \subseteq Stored /\ Stored \subseteq Stored' \cup byhand' /\ byhand \subseteq byhand'

LEMMA AgreesStays ==
    ASSUME SameStored, NEW ids, Agrees(ids)
    PROVE  Agrees(ids)'
BY DEF SameStored, Agrees

LEMMA RowsSameStored ==
    ASSUME byhand' = byhand, \A m \in Models : rows'[m] = "none" <=> rows[m] = "none"
    PROVE  SameStored
BY DEF SameStored, Stored

\* Steps of others: the fetches go on, or one begins.
LEMMA ListFrame ==
    ASSUME CatalogTypes, ListInv, SameStored, fetches' \in {fetches, Joined},
           cached'.ids = cached.ids, fallen' = fallen
    PROVE  ListInv'
<1>1. CASE fetches' = fetches
  <2>1. OneFetch'
    BY <1>1 DEF ListInv, OneFetch
  <2>2. SyncOK'
    BY <1>1 DEF ListInv, SyncOK, SameStored
  <2>3. LandOK'
    <3>1. ASSUME NEW f \in Fetches, Recorded(f) PROVE fallen \/ Agrees(fetches[f].ids)'
      <4>1. PICK ids : ids = fetches[f].ids
        OBVIOUS
      <4>2. fallen \/ Agrees(ids)'
        BY <3>1, <4>1, AgreesStays DEF ListInv, LandOK
      <4> QED
        BY <1>1, <4>1, <4>2 DEF Agrees
    <3> QED
      BY <1>1, <3>1 DEF LandOK, Recorded
  <2>4. CachedOK'
    <3>1. PICK ids : ids = cached.ids
      OBVIOUS
    <3>2. fallen \/ Agrees(ids)' \/ \E f \in Fetches : Recorded(f)
      BY <3>1, AgreesStays DEF ListInv, CachedOK
    <3> QED
      BY <1>1, <3>1, <3>2 DEF CachedOK, Recorded, Agrees
  <2> QED
    BY <2>1, <2>2, <2>3, <2>4 DEF ListInv
<1>2. CASE /\ \A f \in Fetches : fetches[f].pc = "none"
           /\ \E f \in Fetches : \E n \in FetchStates : n.pc = "list" /\ fetches' = [fetches EXCEPT ![f] = n]
  <2>1. PICK f \in Fetches : /\ fetches'[f].pc = "list"
                             /\ \A g \in Fetches : g # f => fetches'[g] = fetches[g]
    BY <1>2 DEF CatalogTypes
  <2>2. OneFetch'
    BY <1>2, <2>1 DEF OneFetch
  <2>3. SyncOK' /\ LandOK'
    BY <1>2, <2>1 DEF SyncOK, LandOK, Recorded
  <2>4. CachedOK'
    <3>1. PICK ids : ids = cached.ids
      OBVIOUS
    <3>2. fallen \/ Agrees(ids)'
      BY <1>2, <3>1, AgreesStays DEF ListInv, CachedOK, Recorded
    <3> QED
      BY <3>1, <3>2 DEF CachedOK, Agrees
  <2> QED
    BY <2>2, <2>3, <2>4 DEF ListInv
<1> QED
  BY <1>1, <1>2, JoinedFetches

-----------------------------------------------------------------------------
LEMMA ReadListTyped ==
    ASSUME CatalogTypes, NEW f \in Fetches, NEW answered \in BOOLEAN, ReadList(f, answered)
    PROVE  /\ CatalogTypes' /\ fetches[f].pc = "list"
           /\ \A g \in Fetches : g # f => fetches'[g] = fetches[g]
           /\ fetches'[f].known = Stored /\ fetches'[f].policy = policy
           /\ fetches'[f].pc = IF fetches'[f].ids = {} THEN "land" ELSE "sync"
           /\ Fallback = {} /\ fetches'[f].ids # {} => fetches'[f].live
<1> DEFINE ids == IF answered /\ listed # {} THEN listed ELSE Fallback
           live == answered /\ listed # {}
           ok == answered \/ ids # {}
<1>1. ids \in SUBSET Models /\ live \in BOOLEAN /\ ok \in BOOLEAN /\ Stored \in SUBSET Models
  BY CatalogAssumption DEF CatalogTypes, Stored
<1>2. PICK at \in FetchSteps : at = IF ids = {} THEN "land" ELSE "sync"
  BY DEF FetchSteps
<1>3. PICK n : n = [pc |-> at, ids |-> ids, live |-> live, ok |-> ok, known |-> Stored, policy |-> policy]
  OBVIOUS
<1>4. fetches' = [fetches EXCEPT ![f] = n] /\ fetches[f].pc = "list"
  BY <1>2, <1>3 DEF ReadList
<1>5. Fallback = {} /\ ids # {} => live
  OBVIOUS
<1> HIDE DEF ids, live, ok
<1>6. n \in FetchStates
  BY <1>1, <1>2, <1>3 DEF FetchStates, CatalogTypes
<1>7. /\ fetches' \in [Fetches -> FetchStates] /\ fetches'[f] = n
      /\ \A g \in Fetches : g # f => fetches'[g] = fetches[g]
  BY <1>4, <1>6 DEF CatalogTypes
<1>8. CatalogTypes'
  BY <1>7 DEF ReadList, CatalogTypes
<1> QED
  BY <1>2, <1>3, <1>4, <1>5, <1>7, <1>8

LEMMA ReadListKeepsList ==
    ASSUME CatalogTypes, ListInv, NEW f \in Fetches, NEW answered \in BOOLEAN, ReadList(f, answered)
    PROVE  ListInv'
<1>1. /\ fetches[f].pc = "list" /\ \A g \in Fetches : g # f => fetches'[g] = fetches[g]
      /\ fetches'[f].known = Stored /\ (Fallback = {} /\ fetches'[f].ids # {} => fetches'[f].live)
      /\ fetches'[f].pc = IF fetches'[f].ids = {} THEN "land" ELSE "sync"
  BY ReadListTyped
<1>2. UNCHANGED <<cached, rows, byhand, fallen>> /\ Stored' = Stored
  BY DEF ReadList, Stored
<1>3. \A g \in Fetches : g # f => fetches'[g].pc = "none" /\ fetches[g].pc = "none"
  BY <1>1 DEF ListInv, OneFetch
<1>4. OneFetch'
  BY <1>3 DEF OneFetch
<1>5. SyncOK'
  BY <1>1, <1>2, <1>3 DEF SyncOK
<1>6. LandOK'
  BY <1>1, <1>3 DEF LandOK, Recorded
<1>7. CachedOK'
  BY <1>1, <1>2, <1>3 DEF ListInv, CachedOK, Recorded, Agrees
<1> QED
  BY <1>4, <1>5, <1>6, <1>7 DEF ListInv

\* What a fetch records: its new models, and not those gone from a live list.
Synced(f) ==
    [m \in Models |->
        IF m \in fetches[f].ids \ fetches[f].known /\ rows[m] = "none"
        THEN (IF StartsOn(fetches[f].policy, m) THEN "on" ELSE "off")
        ELSE IF fetches[f].live /\ m \in fetches[f].known \ fetches[f].ids THEN "none"
        ELSE rows[m]]

LEMMA SyncTyped ==
    ASSUME CatalogTypes, NEW f \in Fetches, NEW written \in BOOLEAN, Sync(f, written)
    PROVE  /\ CatalogTypes' /\ fetches[f].pc = "sync" /\ fetches'[f].pc = "land" /\ fetches'[f].ids = fetches[f].ids
           /\ \A g \in Fetches : g # f => fetches'[g] = fetches[g]
           /\ IF written
              THEN /\ rows' = Synced(f) /\ fallen' = fallen
                   /\ LET added == fetches[f].ids \ fetches[f].known
                      IN  StartIf(fetches[f].policy.auto /\ added # {}, added, FALSE, FALSE)
              ELSE UNCHANGED <<rows, run>> /\ fallen'
<1>1. /\ fetches' \in [Fetches -> FetchStates] /\ fetches'[f].pc = "land" /\ fetches'[f].ids = fetches[f].ids
      /\ \A g \in Fetches : g # f => fetches'[g] = fetches[g]
  BY DEF Sync, CatalogTypes, FetchStates, FetchSteps
<1>2. CASE written
  <2> DEFINE added == fetches[f].ids \ fetches[f].known
  <2>1. added \in SUBSET Models
    BY DEF CatalogTypes, FetchStates
  <2>2. rows' = Synced(f) /\ StartIf(fetches[f].policy.auto /\ added # {}, added, FALSE, FALSE) /\ fallen' = fallen
    BY <1>2 DEF Sync, Synced
  <2>3. run' \in RunStates
    BY <2>1, <2>2, StartIfRun
  <2>4. rows' \in [Models -> Switches]
    BY <2>2 DEF Synced, CatalogTypes, Switches
  <2>5. CatalogTypes'
    BY <1>1, <2>2, <2>3, <2>4 DEF Sync, CatalogTypes
  <2> QED
    BY <1>1, <1>2, <2>2, <2>5 DEF Sync
<1>3. CASE ~written
  <2>1. CatalogTypes'
    BY <1>1, <1>3 DEF Sync, CatalogTypes
  <2> QED
    BY <1>1, <1>3, <2>1 DEF Sync
<1> QED
  BY <1>2, <1>3

LEMMA SyncKeepsList ==
    ASSUME CatalogTypes, ListInv, NEW f \in Fetches, NEW written \in BOOLEAN, Sync(f, written)
    PROVE  ListInv'
<1>1. /\ fetches[f].pc = "sync" /\ fetches'[f].pc = "land" /\ fetches'[f].ids = fetches[f].ids
      /\ \A g \in Fetches : g # f => fetches'[g] = fetches[g]
      /\ byhand' = byhand
  BY SyncTyped DEF Sync
<1>2. \A g \in Fetches : g # f => fetches'[g].pc = "none"
  BY <1>1 DEF ListInv, OneFetch
<1>3. OneFetch' /\ SyncOK'
  BY <1>1, <1>2 DEF OneFetch, SyncOK
<1>4. fetches[f].ids # {} /\ Recorded(f)'
  BY <1>1 DEF ListInv, SyncOK, Recorded
<1>5. CachedOK'
  BY <1>4 DEF CachedOK
<1>6. fallen' \/ Agrees(fetches[f].ids)'
  <2> SUFFICES ASSUME ~fallen' PROVE Agrees(fetches[f].ids)'
    OBVIOUS
  <2>1. PICK e \in FetchStates : e = fetches[f]
    BY DEF CatalogTypes
  <2>2. /\ rows' = Synced(f) /\ Stored \subseteq e.known /\ e.known \subseteq Stored \cup byhand
        /\ (Fallback = {} => e.live)
    BY <1>1, <2>1, SyncTyped DEF ListInv, SyncOK
  <2>3. \A m \in Models : rows'[m] = IF m \in e.ids \ e.known /\ rows[m] = "none"
                                     THEN (IF StartsOn(e.policy, m) THEN "on" ELSE "off")
                                     ELSE IF e.live /\ m \in e.known \ e.ids THEN "none" ELSE rows[m]
    BY <2>1, <2>2 DEF Synced
  <2>4. e.ids \subseteq Models
    BY DEF FetchStates
  <2>5. e.ids \subseteq Stored' \cup byhand
    <3> SUFFICES ASSUME NEW m \in e.ids, m \notin byhand PROVE m \in Stored'
      OBVIOUS
    <3>1. m \in Models
      BY <2>4
    <3>2. m \in e.known => rows[m] # "none"
      BY <2>2 DEF Stored
    <3> QED
      BY <2>3, <3>1, <3>2 DEF Stored
  <2>6. Fallback = {} => Stored' \subseteq e.ids
    <3> SUFFICES ASSUME Fallback = {}, NEW m \in Stored' PROVE m \in e.ids
      OBVIOUS
    <3>1. m \in Models /\ rows'[m] # "none"
      BY DEF Stored
    <3>2. rows[m] # "none" => m \in e.known
      BY <2>2, <3>1 DEF Stored
    <3> QED
      BY <2>2, <2>3, <3>1, <3>2
  <2>7. Agrees(e.ids)'
    BY <1>1, <2>5, <2>6 DEF Agrees
  <2> QED
    BY <1>1, <2>1, <2>7 DEF Agrees
<1>7. LandOK'
  BY <1>1, <1>2, <1>6 DEF LandOK, Recorded, Agrees
<1> QED
  BY <1>3, <1>5, <1>7 DEF ListInv

-----------------------------------------------------------------------------
LEMMA LandsTyped ==
    ASSUME CatalogTypes, NEW f \in Fetches, Lands(f)
    PROVE  /\ CatalogTypes' /\ fetches[f].pc = "land" /\ fetches'[f].pc = "none"
           /\ \A g \in Fetches : g # f => fetches'[g] = fetches[g]
           /\ cached'.ids = IF Keeps(cached.ids, fetches[f].ids) THEN cached.ids ELSE fetches[f].ids
<1>1. /\ fetches' \in [Fetches -> FetchStates] /\ fetches'[f].pc = "none"
      /\ \A g \in Fetches : g # f => fetches'[g] = fetches[g]
  BY NoFetchIsFetch DEF Lands, CatalogTypes
<1>2. fetches[f] \in FetchStates
  BY DEF CatalogTypes
<1>3. cached' \in CachedLists /\ cached'.ids = IF Keeps(cached.ids, fetches[f].ids) THEN cached.ids ELSE fetches[f].ids
  <2>1. CASE Keeps(cached.ids, fetches[f].ids)
    BY <1>2, <2>1 DEF Lands, CatalogTypes, CachedLists
  <2>2. CASE ~Keeps(cached.ids, fetches[f].ids)
    <3>1. cached' = [ids |-> fetches[f].ids, ok |-> fetches[f].ok, fresh |-> TRUE]
      BY <2>2 DEF Lands
    <3>2. fetches[f].ids \in SUBSET Models /\ fetches[f].ok \in BOOLEAN
      BY <1>2 DEF FetchStates
    <3> QED
      BY <2>2, <3>1, <3>2 DEF CachedLists
  <2> QED
    BY <2>1, <2>2
<1>4. run' \in RunStates
  BY ResumedRun DEF Lands
<1>5. CatalogTypes'
  BY <1>1, <1>3, <1>4 DEF Lands, CatalogTypes
<1> QED
  BY <1>1, <1>3, <1>5 DEF Lands

LEMMA LandsKeepsList ==
    ASSUME CatalogTypes, ListInv, NEW f \in Fetches, Lands(f)
    PROVE  ListInv'
<1>1. /\ fetches[f].pc = "land" /\ fetches'[f].pc = "none" /\ \A g \in Fetches : g # f => fetches'[g] = fetches[g]
      /\ cached'.ids = IF Keeps(cached.ids, fetches[f].ids) THEN cached.ids ELSE fetches[f].ids
      /\ UNCHANGED <<rows, byhand, fallen>>
  BY LandsTyped DEF Lands
<1>2. \A g \in Fetches : fetches'[g].pc = "none" /\ (g # f => fetches[g].pc = "none")
  BY <1>1 DEF ListInv, OneFetch
<1>3. OneFetch' /\ SyncOK' /\ LandOK'
  BY <1>2 DEF OneFetch, SyncOK, LandOK, Recorded
<1>4. \A ids : Agrees(ids)' <=> Agrees(ids)
  BY <1>1 DEF Agrees, Stored
<1>5. CachedOK'
  <2> SUFFICES ASSUME ~fallen PROVE Agrees(cached.ids)'
    BY <1>1 DEF CachedOK
  <2>1. PICK served, ids : served = cached.ids /\ ids = fetches[f].ids
    OBVIOUS
  <2>2. CASE ids = {}
    <3>1. cached'.ids = served
      BY <1>1, <2>1, <2>2 DEF Keeps
    <3>2. Agrees(served)
      BY <1>2, <2>1, <2>2 DEF ListInv, CachedOK, Recorded
    <3> QED
      BY <1>4, <3>1, <3>2 DEF Agrees
  <2>3. CASE ids # {}
    <3>1. cached'.ids = ids
      BY <1>1, <2>1, <2>3 DEF Keeps
    <3>2. Agrees(ids)
      BY <1>1, <2>1, <2>3 DEF ListInv, LandOK, Recorded
    <3> QED
      BY <1>4, <3>1, <3>2 DEF Agrees
  <2> QED
    BY <2>2, <2>3
<1> QED
  BY <1>3, <1>5 DEF ListInv

\* Who asks, and a list that grows old, change no list.
LEMMA AskersKeepList ==
    ASSUME CatalogTypes, ListInv,
           (\E c \in Askers : StopAsking(c) \/ \E refresh \in BOOLEAN : AskList(c, refresh)) \/ GoesStale
    PROVE  CatalogTypes' /\ ListInv'
<1>1. fetches' \in {fetches, Joined} /\ UNCHANGED <<listed, rows, policy, run, timers, update, tester, byhand, pardoned, fallen>>
  BY DEF StopAsking, AskList, GoesStale
<1>2. fetches' \in [Fetches -> FetchStates]
  BY <1>1, JoinedTyped DEF CatalogTypes
<1>3. cached' \in CachedLists /\ cached'.ids = cached.ids
  BY DEF StopAsking, AskList, GoesStale, CatalogTypes, CachedLists
<1>4. CatalogTypes'
  BY <1>1, <1>2, <1>3 DEF CatalogTypes
<1>5. SameStored
  BY <1>1 DEF SameStored, Stored
<1> QED
  BY <1>1, <1>3, <1>4, <1>5, ListFrame

\* A step of a run records no model and drops none.
LEMMA RunKeepsList ==
    ASSUME CatalogTypes, ListInv, RunStep
    PROVE  CatalogTypes' /\ ListInv'
<1>1. CASE RunReadsPolicy \/ RunRefreshes \/ RunStopsWaiting \/ RunListsModels \/ RunEnds \/ RunSaves
  <2>1. CatalogTypes'
    BY <1>1, RunReadsPolicyTyped, RunRefreshesTyped, RunStopsWaitingTyped, RunListsModelsTyped, RunEndsTyped, RunSavesTyped
  <2>2. fetches' \in {fetches, Joined} /\ UNCHANGED <<cached, rows, byhand, fallen>>
    BY <1>1 DEF RunReadsPolicy, RunRefreshes, RunStopsWaiting, RunListsModels, RunEnds, RunSaves, Outside, Others
  <2>3. SameStored
    BY <2>2 DEF SameStored, Stored
  <2> QED
    BY <2>1, <2>2, <2>3, ListFrame
<1>2. CASE RunSplits
  <2>1. CatalogTypes' /\ \A m \in Models : rows'[m] = "none" <=> rows[m] = "none"
    BY <1>2, RunSplitsTyped
  <2>2. UNCHANGED <<cached, fetches, byhand, fallen>>
    BY <1>2 DEF RunSplits, Outside, Others
  <2> QED
    BY <2>1, <2>2, RowsSameStored, ListFrame
<1>3. ASSUME NEW m \in Models, TestBegins(m) PROVE CatalogTypes' /\ ListInv'
  <2>1. CatalogTypes' /\ fetches' \in {fetches, Joined}
    BY <1>3, TestBeginsTyped
  <2>2. UNCHANGED <<cached, rows, byhand, fallen>>
    BY <1>3 DEF TestBegins, Outside, Others
  <2>3. SameStored
    BY <2>2 DEF SameStored, Stored
  <2> QED
    BY <2>1, <2>2, <2>3, ListFrame
<1>4. ASSUME NEW m \in Models, TestIsWritten(m) PROVE CatalogTypes' /\ ListInv'
  <2>1. CatalogTypes' /\ \A x \in Models : rows'[x] = "none" <=> rows[x] = "none"
    BY <1>4, TestIsWrittenTyped
  <2>2. UNCHANGED <<cached, fetches, byhand, fallen>>
    BY <1>4 DEF TestIsWritten, Outside, Others
  <2> QED
    BY <2>1, <2>2, RowsSameStored, ListFrame
<1>5. ASSUME NEW m \in Models, NEW result \in Results, TestAnswers(m, result) PROVE CatalogTypes' /\ ListInv'
  <2>1. CatalogTypes'
    BY <1>5, TestAnswersTyped
  <2>2. UNCHANGED <<cached, fetches, rows, byhand, fallen>>
    BY <1>5 DEF TestAnswers, Outside, Others
  <2>3. SameStored
    BY <2>2 DEF SameStored, Stored
  <2> QED
    BY <2>1, <2>2, <2>3, ListFrame
<1> QED
  BY <1>1, <1>2, <1>3, <1>4, <1>5 DEF RunStep

\* Nor does anything else but a person.
LEMMA OthersKeepList ==
    ASSUME CatalogTypes, ListInv,
           \/ RunTimesOut \/ LoopTests
           \/ \E m \in Models : TestStopsWaiting(m) \/ PersonTests(m)
           \/ \E models \in timers : TimerFires(models)
           \/ \E u \in Updaters : StopRun(u) \/ SavePolicy(u) \/ \E p \in Policies : UpdateBegins(u, p)
           \/ \E works \in BOOLEAN : PersonsAnswer(works)
           \/ \E ids \in SUBSET Models : ProviderLists(ids)
    PROVE  CatalogTypes' /\ ListInv'
<1>1. CatalogTypes'
  <2>1. ASSUME NEW ids \in SUBSET Models, ProviderLists(ids) PROVE CatalogTypes'
    BY <2>1 DEF ProviderLists, CatalogTypes
  <2> QED
    BY <2>1, RunTimesOutTyped, LoopTestsTyped, TestStopsWaitingTyped, PersonTestsTyped, TimerFiresTyped, StopRunTyped,
       SavePolicyTyped, UpdateBeginsTyped, PersonsAnswerTyped
<1>2. UNCHANGED <<cached, fetches, rows, byhand, fallen>>
  BY DEF RunTimesOut, LoopTests, TestStopsWaiting, PersonTests, TimerFires, StopRun, SavePolicy, UpdateBegins,
         PersonsAnswer, ProviderLists, Outside, Others
<1>3. SameStored
  BY <1>2 DEF SameStored, Stored
<1> QED
  BY <1>1, <1>2, <1>3, ListFrame

LEMMA SwitchesKeepList ==
    ASSUME CatalogTypes, ListInv,
           \/ \E u \in Updaters : ApplyPolicy(u)
           \/ PersonsSwitch
           \/ \E m \in Models, to \in {"none", "on", "off"} : SwitchByHand(m, to)
    PROVE  CatalogTypes' /\ ListInv'
<1>1. ASSUME NEW u \in Updaters, ApplyPolicy(u) PROVE CatalogTypes' /\ ListInv'
  <2>1. CatalogTypes' /\ \A m \in Models : rows'[m] = "none" <=> rows[m] = "none"
    BY <1>1, ApplyPolicyTyped
  <2>2. UNCHANGED <<cached, fetches, byhand, fallen>>
    BY <1>1 DEF ApplyPolicy
  <2> QED
    BY <2>1, <2>2, RowsSameStored, ListFrame
<1>2. CASE PersonsSwitch
  <2>1. CatalogTypes' /\ \A m \in Models : rows'[m] = "none" <=> rows[m] = "none"
    BY <1>2, PersonsSwitchTyped
  <2>2. UNCHANGED <<cached, fetches, byhand, fallen>>
    BY <1>2 DEF PersonsSwitch
  <2> QED
    BY <2>1, <2>2, RowsSameStored, ListFrame
<1>3. ASSUME NEW m \in Models, NEW to \in {"none", "on", "off"}, SwitchByHand(m, to) PROVE CatalogTypes' /\ ListInv'
  <2>1. CatalogTypes' /\ rows[m] # "none" /\ byhand' = byhand \cup {m} /\ \A x \in Models : x # m => rows'[x] = rows[x]
    BY <1>3, SwitchByHandTyped
  <2>2. SameStored
    BY <2>1 DEF SameStored, Stored
  <2>3. UNCHANGED <<cached, fetches, fallen>>
    BY <1>3 DEF SwitchByHand
  <2> QED
    BY <2>1, <2>2, <2>3, ListFrame
<1> QED
  BY <1>1, <1>2, <1>3

LEMMA ListStep ==
    ASSUME CatalogTypes, ListInv, [CatalogNext]_catalogVars
    PROVE  CatalogTypes' /\ ListInv'
<1>1. ASSUME NEW f \in Fetches, FetchStep(f) PROVE CatalogTypes' /\ ListInv'
  BY <1>1, ReadListTyped, ReadListKeepsList, SyncTyped, SyncKeepsList, LandsTyped, LandsKeepsList DEF FetchStep
<1>2. CASE UNCHANGED catalogVars
  <2>1. CatalogTypes'
    BY <1>2 DEF catalogVars, CatalogTypes
  <2>2. SameStored /\ UNCHANGED <<cached, fetches, fallen>>
    BY <1>2 DEF catalogVars, SameStored, Stored
  <2> QED
    BY <2>1, <2>2, ListFrame
<1>3. CASE (\E c \in Askers : StopAsking(c) \/ \E refresh \in BOOLEAN : AskList(c, refresh)) \/ GoesStale
  BY <1>3, AskersKeepList
<1>4. CASE RunStep
  BY <1>4, RunKeepsList
<1>5. CASE \/ RunTimesOut \/ LoopTests
           \/ \E m \in Models : TestStopsWaiting(m) \/ PersonTests(m)
           \/ \E models \in timers : TimerFires(models)
           \/ \E u \in Updaters : StopRun(u) \/ SavePolicy(u) \/ \E p \in Policies : UpdateBegins(u, p)
           \/ \E works \in BOOLEAN : PersonsAnswer(works)
           \/ \E ids \in SUBSET Models : ProviderLists(ids)
  BY <1>5, OthersKeepList
<1>6. CASE \/ \E u \in Updaters : ApplyPolicy(u)
           \/ PersonsSwitch
           \/ \E m \in Models, to \in {"none", "on", "off"} : SwitchByHand(m, to)
  BY <1>6, SwitchesKeepList
<1> QED
  BY <1>1, <1>2, <1>3, <1>4, <1>5, <1>6 DEF CatalogNext, UpdateStep

-----------------------------------------------------------------------------
(* The policy.                                                              *)

\* A change waits for the run it stopped.
StoppedOK == run.on /\ run.stopped => \E u \in Updaters : update[u].pc = "wait"

\* What is tested is what the run's policy wants.
TestsOK == \A m \in Models : run.tests[m] # "no" => run.on /\ run.pc = "test" /\ Wanted(run.policy, m)

\* Whoever acts by a policy acts by the one in force.
SamePolicy ==
    ~pardoned =>
        /\ run.on /\ run.pc # "policy" => run.policy = policy
        /\ \A f \in Fetches : fetches[f].pc = "sync" => fetches[f].policy = policy
        /\ tester.pc = "set" => tester.policy = policy
        /\ \A u \in Updaters : update[u].pc = "apply" => update[u].policy = policy

\* A full run that will still switch off what the policy does not want.
WillSplit(m) ==
    /\ run.on /\ run.full
    /\ run.pc \in {"policy", "refresh", "list", "rows"} \/ (run.pc = "split" /\ m \in run.models)
WillApply == \E u \in Updaters : update[u].pc = "apply"

\* A model that is on is wanted, or will be switched off.
SwitchesOK ==
    ~pardoned => \A m \in Models \ byhand : rows[m] = "on" => Wanted(policy, m) \/ WillSplit(m) \/ WillApply

PolicyInv == StoppedOK /\ TestsOK /\ SamePolicy /\ SwitchesOK

LEMMA PolicyStarts == CatalogInit => PolicyInv
BY NoFetchIsFetch, NoRunIsRun, NoUpdateIsUpdate, NoTesterIsTester
   DEF CatalogInit, PolicyInv, StoppedOK, TestsOK, SamePolicy, SwitchesOK

\* Steps that leave the policy in force: a test, a record or an act by a policy is by
\* that policy, and a run that would switch a model off still would.
LEMMA PolicyFrame ==
    ASSUME PolicyInv, UNCHANGED <<policy, pardoned>>, byhand \subseteq byhand',
           \A f \in Fetches : fetches'[f].pc = "sync" => fetches'[f] = fetches[f] \/ fetches'[f].policy = policy,
           tester'.pc = "set" => tester' = tester \/ tester'.policy = policy,
           \A u \in Updaters : update[u].pc \in {"wait", "apply"} \/ update'[u].pc \in {"wait", "apply"} => update'[u] = update[u],
           run'.on /\ run'.stopped => run.on /\ run.stopped,
           TestsOK',
           ~pardoned /\ run'.on /\ run'.pc # "policy" => run'.policy = policy,
           ~pardoned => \A m \in Models \ byhand : rows'[m] = "on" =>
                            Wanted(policy, m) \/ (rows[m] = "on" /\ (WillSplit(m) => WillSplit(m)'))
    PROVE  PolicyInv'
<1>1. StoppedOK'
  BY DEF PolicyInv, StoppedOK
<1>2. SamePolicy'
  BY DEF PolicyInv, SamePolicy
<1>3. WillApply => WillApply'
  BY DEF WillApply
<1>4. SwitchesOK'
  <2> SUFFICES ASSUME ~pardoned, NEW m \in Models \ byhand', rows'[m] = "on"
               PROVE  Wanted(policy, m) \/ WillSplit(m)' \/ WillApply'
    BY DEF SwitchesOK, Wanted
  <2>1. Wanted(policy, m) \/ (rows[m] = "on" /\ (WillSplit(m) => WillSplit(m)'))
    OBVIOUS
  <2> QED
    BY <1>3, <2>1 DEF PolicyInv, SwitchesOK
<1> QED
  BY <1>1, <1>2, <1>4 DEF PolicyInv

\* The same when no run goes on.
LEMMA PolicyQuiet ==
    ASSUME PolicyInv, UNCHANGED <<policy, pardoned, run>>, byhand \subseteq byhand',
           \A f \in Fetches : fetches'[f].pc = "sync" => fetches'[f] = fetches[f] \/ fetches'[f].policy = policy,
           tester'.pc = "set" => tester' = tester \/ tester'.policy = policy,
           \A u \in Updaters : update[u].pc \in {"wait", "apply"} \/ update'[u].pc \in {"wait", "apply"} => update'[u] = update[u],
           ~pardoned => \A m \in Models \ byhand' : rows'[m] = "on" => Wanted(policy, m) \/ rows[m] = "on"
    PROVE  PolicyInv'
<1>1. TestsOK'
  BY DEF PolicyInv, TestsOK, Wanted
<1>2. WillApply => WillApply'
  BY DEF WillApply
<1>3. SwitchesOK'
  <2> SUFFICES ASSUME ~pardoned, NEW m \in Models \ byhand', rows'[m] = "on"
               PROVE  Wanted(policy, m) \/ WillSplit(m) \/ WillApply'
    BY DEF SwitchesOK, Wanted, WillSplit
  <2> QED
    BY <1>2 DEF PolicyInv, SwitchesOK
<1>4. StoppedOK' /\ SamePolicy'
  BY DEF PolicyInv, StoppedOK, SamePolicy
<1> QED
  BY <1>1, <1>3, <1>4 DEF PolicyInv

LEMMA JoinedSyncs ==
    ASSUME CatalogTypes, fetches' \in {fetches, Joined}
    PROVE  \A f \in Fetches : fetches'[f].pc = "sync" => fetches'[f] = fetches[f]
BY JoinedFetches DEF CatalogTypes

LEMMA AskersKeepPolicy ==
    ASSUME CatalogTypes, PolicyInv,
           (\E c \in Askers : StopAsking(c) \/ \E refresh \in BOOLEAN : AskList(c, refresh)) \/ GoesStale
    PROVE  PolicyInv'
<1>1. fetches' \in {fetches, Joined} /\ UNCHANGED <<rows, policy, run, update, tester, byhand, pardoned>>
  BY DEF StopAsking, AskList, GoesStale
<1> QED
  BY <1>1, JoinedSyncs, PolicyQuiet

LEMMA FetchesKeepPolicy ==
    ASSUME CatalogTypes, PolicyInv, NEW f \in Fetches, FetchStep(f)
    PROVE  PolicyInv'
<1>1. ASSUME NEW answered \in BOOLEAN, ReadList(f, answered) PROVE PolicyInv'
  <2>1. \A g \in Fetches : fetches'[g] = fetches[g] \/ fetches'[g].policy = policy
    BY <1>1, ReadListTyped
  <2>2. UNCHANGED <<rows, policy, run, update, tester, byhand, pardoned>>
    BY <1>1 DEF ReadList
  <2> QED
    BY <2>1, <2>2, PolicyQuiet
<1>2. ASSUME NEW written \in BOOLEAN, Sync(f, written) PROVE PolicyInv'
  <2>1. /\ fetches[f].pc = "sync" /\ fetches'[f].pc = "land" /\ \A g \in Fetches : g # f => fetches'[g] = fetches[g]
        /\ UNCHANGED <<policy, update, tester, byhand, pardoned>>
    BY <1>2, SyncTyped DEF Sync
  <2>2. CASE ~written
    <3>1. UNCHANGED <<rows, run>>
      BY <1>2, <2>2, SyncTyped
    <3> QED
      BY <2>1, <3>1, PolicyQuiet
  <2>3. CASE written
    <3>1. /\ rows' = Synced(f)
          /\ LET added == fetches[f].ids \ fetches[f].known
             IN  StartIf(fetches[f].policy.auto /\ added # {}, added, FALSE, FALSE)
      BY <1>2, <2>3, SyncTyped
    <3>2. ~pardoned => fetches[f].policy = policy
      BY <2>1 DEF PolicyInv, SamePolicy
    <3>3. ~pardoned => \A m \in Models : rows'[m] = "on" => Wanted(policy, m) \/ rows[m] = "on"
      BY <3>1, <3>2 DEF Synced, StartsOn
    <3>4. fetches[f].ids \ fetches[f].known \in SUBSET Models
      BY DEF CatalogTypes, FetchStates
    <3>5. \/ run' = run
          \/ ~run.on /\ run'.on /\ ~run'.stopped /\ run'.pc = "policy" /\ (\A m \in Models : run'.tests[m] = "no")
      BY <3>1, <3>4, StartIfRun
    <3>6. CASE run' = run
      BY <2>1, <3>3, <3>6, PolicyQuiet
    <3>7. CASE ~run.on /\ run'.on /\ ~run'.stopped /\ run'.pc = "policy" /\ (\A m \in Models : run'.tests[m] = "no")
      <4>1. TestsOK' /\ \A m : ~WillSplit(m)
        BY <3>7 DEF TestsOK, WillSplit
      <4> QED
        BY <2>1, <3>3, <3>7, <4>1, PolicyFrame
    <3> QED
      BY <3>5, <3>6, <3>7
  <2> QED
    BY <2>2, <2>3
<1>3. CASE Lands(f)
  <2>1. /\ fetches'[f].pc = "none" /\ \A g \in Fetches : g # f => fetches'[g] = fetches[g]
        /\ run' = Resumed(run) /\ UNCHANGED <<rows, policy, update, tester, byhand, pardoned>>
    BY <1>3, LandsTyped DEF Lands
  <2>2. PICK r : r = Resumed(run)
    OBVIOUS
  <2>3. /\ (r.on <=> run.on) /\ (r.stopped <=> run.stopped) /\ (r.full <=> run.full)
        /\ r.models = run.models /\ r.policy = run.policy
        /\ r.pc = IF run.pc = "list" THEN "rows" ELSE run.pc
        /\ \A m \in Models : r.tests[m] = IF run.tests[m] = "wait" THEN "call" ELSE run.tests[m]
    BY <2>2, ResumedRun
  <2>4. TestsOK'
    BY <2>1, <2>2, <2>3 DEF PolicyInv, TestsOK, Wanted
  <2>5. \A m : WillSplit(m) => WillSplit(m)'
    BY <2>1, <2>2, <2>3 DEF WillSplit
  <2>6. ~pardoned /\ r.on /\ r.pc # "policy" => r.policy = policy
    BY <2>3 DEF PolicyInv, SamePolicy
  <2> QED
    BY <2>1, <2>2, <2>3, <2>4, <2>5, <2>6, PolicyFrame
<1> QED
  BY <1>1, <1>2, <1>3 DEF FetchStep

-----------------------------------------------------------------------------
\* A run that goes on by the policy it has read.
LEMMA RunGoesOn ==
    ASSUME CatalogTypes, PolicyInv, SameRun(run'), fetches' \in {fetches, Joined},
           UNCHANGED <<policy, update, tester, byhand, pardoned>>,
           TestsOK',
           ~pardoned /\ run.on => run'.policy = policy,
           ~pardoned => \A m \in Models \ byhand : rows'[m] = "on" =>
                            Wanted(policy, m) \/ (rows[m] = "on" /\ (WillSplit(m) => WillSplit(m)'))
    PROVE  PolicyInv'
<1>1. run'.on /\ run'.stopped => run.on /\ run.stopped
  BY DEF SameRun
<1>2. ~pardoned /\ run'.on /\ run'.pc # "policy" => run'.policy = policy
  BY DEF SameRun
<1> QED
  BY <1>1, <1>2, JoinedSyncs, PolicyFrame

LEMMA RunReadsPolicyKeeps ==
    ASSUME CatalogTypes, PolicyInv, RunReadsPolicy
    PROVE  PolicyInv'
<1>1. /\ SameRun(run') /\ run.on /\ run'.tests = run.tests /\ run'.policy = policy
      /\ run.pc = "policy" /\ run'.pc = IF run.full THEN "refresh" ELSE "split"
  BY RunReadsPolicyTyped
<1>2. UNCHANGED <<fetches, rows, policy, update, tester, byhand, pardoned>>
  BY DEF RunReadsPolicy, Outside, Others
<1>3. TestsOK'
  BY <1>1 DEF PolicyInv, TestsOK
<1>4. \A m : WillSplit(m) => WillSplit(m)'
  BY <1>1 DEF WillSplit, SameRun
<1> QED
  BY <1>1, <1>2, <1>3, <1>4, RunGoesOn

\* A run that goes from one step to the next before it tests.
LEMMA RunMovesOn ==
    ASSUME CatalogTypes, PolicyInv, SameRun(run'), run.on,
           run.pc \in {"refresh", "list", "rows"}, run'.pc \in {"list", "rows", "split"},
           run'.pc = "split" => run'.models = Stored,
           run'.tests = run.tests, run'.policy = run.policy, fetches' \in {fetches, Joined},
           UNCHANGED <<rows, policy, update, tester, byhand, pardoned>>
    PROVE  PolicyInv'
<1>1. TestsOK'
  BY DEF PolicyInv, TestsOK
<1>2. ~pardoned => run'.policy = policy
  BY DEF PolicyInv, SamePolicy
<1>3. \A m \in Models : rows[m] = "on" /\ WillSplit(m) => WillSplit(m)'
  BY DEF WillSplit, SameRun, Stored
<1> QED
  BY <1>1, <1>2, <1>3, RunGoesOn

LEMMA RunSplitsKeeps ==
    ASSUME CatalogTypes, PolicyInv, RunSplits
    PROVE  PolicyInv'
<1>1. /\ SameRun(run') /\ run.on /\ run'.policy = run.policy /\ run.pc = "split" /\ run'.pc = "test"
      /\ \A m \in Models : run'.tests[m] # "no" => Wanted(run.policy, m)
      /\ \A m \in Models : rows'[m] = "on" => rows[m] = "on" /\ (m \in run.models => Wanted(run.policy, m))
  BY RunSplitsTyped
<1>2. UNCHANGED <<fetches, policy, update, tester, byhand, pardoned>>
  BY DEF RunSplits, Outside, Others
<1>3. TestsOK'
  BY <1>1 DEF TestsOK, SameRun, Wanted
<1>4. ~pardoned => run.policy = policy
  BY <1>1 DEF PolicyInv, SamePolicy
<1>5. \A m \in Models : ~pardoned /\ rows'[m] = "on" /\ WillSplit(m) => Wanted(policy, m)
  BY <1>1, <1>4 DEF WillSplit
<1>6. \A m \in Models : rows'[m] = "on" => rows[m] = "on"
  BY <1>1
<1> QED
  BY <1>1, <1>2, <1>3, <1>4, <1>5, <1>6, RunGoesOn

\* A test goes on, and may switch its model on, which the policy wants.
LEMMA RunTestsKeeps ==
    ASSUME CatalogTypes, PolicyInv, SameRun(run'), run'.models = run.models, run'.policy = run.policy, run'.pc = run.pc,
           \A m \in Models : run'.tests[m] # "no" => run.tests[m] # "no" \/ (run.on /\ run.pc = "test" /\ Wanted(run.policy, m)),
           \A m \in Models : rows'[m] = "on" => rows[m] = "on" \/ run.tests[m] # "no",
           fetches' \in {fetches, Joined},
           UNCHANGED <<policy, update, tester, byhand, pardoned>>
    PROVE  PolicyInv'
<1>1. TestsOK'
  BY DEF PolicyInv, TestsOK, SameRun, Wanted
<1>2. \A m : WillSplit(m) => WillSplit(m)'
  BY DEF WillSplit, SameRun
<1>3. ~pardoned /\ run.on /\ run.pc # "policy" => run.policy = policy
  BY DEF PolicyInv, SamePolicy
<1>4. ~pardoned => \A m \in Models \ byhand : rows'[m] = "on" =>
                       Wanted(policy, m) \/ (rows[m] = "on" /\ (WillSplit(m) => WillSplit(m)'))
  BY <1>2, <1>3 DEF PolicyInv, TestsOK
<1>5. run'.on /\ run'.stopped => run.on /\ run.stopped
  BY DEF SameRun
<1>6. ~pardoned /\ run'.on /\ run'.pc # "policy" => run'.policy = policy
  BY <1>3 DEF SameRun
<1> QED
  BY <1>1, <1>4, <1>5, <1>6, JoinedSyncs, PolicyFrame

\* The run is over: nothing was left for it to switch off.
LEMMA RunIsOver ==
    ASSUME CatalogTypes, PolicyInv, Ends, run.pc \in {"test", "save"},
           ~pardoned => policy' = policy,
           UNCHANGED <<fetches, rows, tester, byhand, pardoned>>
    PROVE  PolicyInv'
<1>1. /\ ~run'.on /\ (\A m \in Models : run'.tests[m] = "no")
      /\ \A u \in Updaters : update'[u].pc # "wait" /\ (update'[u] = update[u] \/ (update'[u].pc = "save" /\ update[u].pc = "wait"))
  BY EndsTyped
<1>2. StoppedOK' /\ TestsOK'
  BY <1>1 DEF StoppedOK, TestsOK
<1>3. SamePolicy'
  BY <1>1 DEF PolicyInv, SamePolicy
<1>4. (\A m : ~WillSplit(m)) /\ (WillApply => WillApply')
  BY <1>1 DEF WillSplit, WillApply
<1>5. SwitchesOK'
  <2> SUFFICES ASSUME ~pardoned, NEW m \in Models \ byhand, rows[m] = "on" PROVE Wanted(policy, m) \/ WillApply'
    BY DEF SwitchesOK, Wanted
  <2> QED
    BY <1>4 DEF PolicyInv, SwitchesOK
<1> QED
  BY <1>2, <1>3, <1>5 DEF PolicyInv

LEMMA RunEndsKeeps ==
    ASSUME CatalogTypes, PolicyInv, RunEnds
    PROVE  PolicyInv'
<1>1. UNCHANGED <<fetches, rows, policy, tester, byhand, pardoned>> /\ run.on /\ run.pc = "test"
  BY RunEndsTyped DEF RunEnds, Outside, Others
<1>2. CASE Ends
  BY <1>1, <1>2, RunIsOver
<1>3. CASE /\ SameRun(run') /\ run'.pc = "save" /\ run'.policy = policy /\ run'.tests = run.tests /\ update' = update
           /\ \A m \in Models : run.tests[m] = "no"
  <2>1. TestsOK' /\ \A m : ~WillSplit(m)
    BY <1>1, <1>3 DEF TestsOK, WillSplit
  <2> QED
    BY <1>1, <1>3, <2>1, RunGoesOn
<1> QED
  BY <1>2, <1>3, RunEndsTyped

LEMMA RunSavesKeeps ==
    ASSUME CatalogTypes, PolicyInv, RunSaves
    PROVE  PolicyInv'
<1>1. run.on /\ run.pc = "save" /\ policy' = run.policy /\ Ends
  BY RunSavesTyped
<1>2. ~pardoned => policy' = policy
  BY <1>1 DEF PolicyInv, SamePolicy
<1>3. UNCHANGED <<fetches, rows, tester, byhand, pardoned>>
  BY DEF RunSaves, Outside, Others
<1> QED
  BY <1>1, <1>2, <1>3, RunIsOver

LEMMA RunKeepsPolicy ==
    ASSUME CatalogTypes, PolicyInv, RunStep
    PROVE  PolicyInv'
<1>1. CASE RunRefreshes \/ RunStopsWaiting \/ RunListsModels
  <2>1. /\ SameRun(run') /\ run.on /\ run.pc \in {"refresh", "list", "rows"} /\ run'.pc \in {"list", "rows", "split"}
        /\ (run'.pc = "split" => run'.models = Stored) /\ run'.tests = run.tests /\ run'.policy = run.policy
    BY <1>1, RunRefreshesTyped, RunStopsWaitingTyped, RunListsModelsTyped
  <2>2. fetches' \in {fetches, Joined} /\ UNCHANGED <<rows, policy, update, tester, byhand, pardoned>>
    BY <1>1 DEF RunRefreshes, RunStopsWaiting, RunListsModels, Outside, Others
  <2> QED
    BY <2>1, <2>2, RunMovesOn
<1>2. ASSUME NEW m \in Models, TestBegins(m) PROVE PolicyInv'
  <2>1. /\ SameRun(run') /\ run'.models = run.models /\ run'.policy = run.policy /\ run'.pc = run.pc
        /\ (\A x \in Models : run'.tests[x] # "no" => run.tests[x] # "no") /\ fetches' \in {fetches, Joined}
    BY <1>2, TestBeginsTyped
  <2>2. UNCHANGED <<rows, policy, update, tester, byhand, pardoned>>
    BY <1>2 DEF TestBegins, Outside, Others
  <2> QED
    BY <2>1, <2>2, RunTestsKeeps
<1>3. ASSUME NEW m \in Models, TestIsWritten(m) PROVE PolicyInv'
  <2>1. /\ SameRun(run') /\ run'.models = run.models /\ run'.policy = run.policy /\ run'.pc = run.pc
        /\ (\A x \in Models : run'.tests[x] # "no" => run.tests[x] # "no") /\ run.tests[m] # "no"
        /\ \A x \in Models : rows'[x] = "on" => rows[x] = "on" \/ x = m
    BY <1>3, TestIsWrittenTyped
  <2>2. UNCHANGED <<fetches, policy, update, tester, byhand, pardoned>>
    BY <1>3 DEF TestIsWritten, Outside, Others
  <2> QED
    BY <2>1, <2>2, RunTestsKeeps
<1>4. ASSUME NEW m \in Models, NEW result \in Results, TestAnswers(m, result) PROVE PolicyInv'
  <2>1. /\ SameRun(run') /\ run'.models = run.models /\ run'.policy = run.policy /\ run'.pc = run.pc
        /\ (\A x \in Models : run'.tests[x] # "no" => run.tests[x] # "no")
    BY <1>4, TestAnswersTyped
  <2>2. UNCHANGED <<fetches, rows, policy, update, tester, byhand, pardoned>>
    BY <1>4 DEF TestAnswers, Outside, Others
  <2> QED
    BY <2>1, <2>2, RunTestsKeeps
<1> QED
  BY <1>1, <1>2, <1>3, <1>4, RunReadsPolicyKeeps, RunSplitsKeeps, RunEndsKeeps, RunSavesKeeps DEF RunStep

\* A run that starts is by no policy yet, and none was under way.
LEMMA StartKeepsPolicy ==
    ASSUME CatalogTypes, PolicyInv,
           \/ run' = run
           \/ ~run.on /\ run'.on /\ ~run'.stopped /\ run'.pc = "policy" /\ (\A m \in Models : run'.tests[m] = "no"),
           UNCHANGED <<fetches, rows, policy, update, tester, byhand, pardoned>>
    PROVE  PolicyInv'
<1>1. CASE run' = run
  BY <1>1, PolicyQuiet
<1>2. CASE ~run.on /\ run'.on /\ ~run'.stopped /\ run'.pc = "policy" /\ (\A m \in Models : run'.tests[m] = "no")
  <2>1. TestsOK' /\ \A m : ~WillSplit(m)
    BY <1>2 DEF TestsOK, WillSplit
  <2> QED
    BY <1>2, <2>1, PolicyFrame
<1> QED
  BY <1>1, <1>2

LEMMA StartsKeepPolicy ==
    ASSUME CatalogTypes, PolicyInv, LoopTests \/ \E models \in timers : TimerFires(models)
    PROVE  PolicyInv'
<1>1. CASE LoopTests
  <2>1. UNCHANGED <<fetches, rows, policy, update, tester, byhand, pardoned>> /\ StartIf(TRUE, {}, TRUE, FALSE)
    BY <1>1 DEF LoopTests
  <2>2. {} \in SUBSET Models
    OBVIOUS
  <2>3. \/ run' = run
        \/ ~run.on /\ run'.on /\ ~run'.stopped /\ run'.pc = "policy" /\ (\A m \in Models : run'.tests[m] = "no")
    BY <2>1, <2>2, StartIfRun
  <2> QED
    BY <2>1, <2>3, StartKeepsPolicy
<1>2. ASSUME NEW models \in timers, TimerFires(models) PROVE PolicyInv'
  <2>1. UNCHANGED <<fetches, rows, policy, update, tester, byhand, pardoned>> /\ StartIf(policy.auto, models, FALSE, TRUE)
    BY <1>2 DEF TimerFires, Outside, Others
  <2>2. models \in SUBSET Models
    BY DEF CatalogTypes
  <2>3. \/ run' = run
        \/ ~run.on /\ run'.on /\ ~run'.stopped /\ run'.pc = "policy" /\ (\A m \in Models : run'.tests[m] = "no")
    BY <2>1, <2>2, StartIfRun
  <2> QED
    BY <2>1, <2>3, StartKeepsPolicy
<1> QED
  BY <1>1, <1>2

-----------------------------------------------------------------------------
LEMMA RunTimesOutKeeps ==
    ASSUME CatalogTypes, PolicyInv, RunTimesOut
    PROVE  PolicyInv'
<1>1. /\ run'.on /\ run.on /\ (run'.stopped <=> run.stopped) /\ (run'.full <=> run.full)
      /\ run'.pc = run.pc /\ run'.models = run.models /\ run'.policy = run.policy /\ run'.tests = run.tests
  BY RunTimesOutTyped
<1>2. UNCHANGED <<fetches, rows, policy, update, tester, byhand, pardoned>>
  BY DEF RunTimesOut, Others
<1>3. TestsOK'
  BY <1>1 DEF PolicyInv, TestsOK, Wanted
<1>4. \A m : WillSplit(m) => WillSplit(m)'
  BY <1>1 DEF WillSplit
<1>5. ~pardoned /\ run'.on /\ run'.pc # "policy" => run'.policy = policy
  BY <1>1 DEF PolicyInv, SamePolicy
<1> QED
  BY <1>1, <1>2, <1>3, <1>4, <1>5, PolicyFrame

LEMMA TestStopsWaitingKeeps ==
    ASSUME CatalogTypes, PolicyInv, NEW m \in Models, TestStopsWaiting(m)
    PROVE  PolicyInv'
<1>1. /\ SameRun(run') /\ run'.models = run.models /\ run'.policy = run.policy /\ run'.pc = run.pc
      /\ (\A x \in Models : run'.tests[x] # "no" => run.tests[x] # "no")
  BY TestStopsWaitingTyped
<1>2. UNCHANGED <<fetches, rows, policy, update, tester, byhand, pardoned>>
  BY DEF TestStopsWaiting, Others
<1> QED
  BY <1>1, <1>2, RunTestsKeeps

\* A person's test, and what a person lists, switches or asks for.
LEMMA PersonKeepsPolicy ==
    ASSUME CatalogTypes, PolicyInv,
           \/ \E m \in Models : PersonTests(m) \/ \E to \in {"none", "on", "off"} : SwitchByHand(m, to)
           \/ \E works \in BOOLEAN : PersonsAnswer(works)
           \/ PersonsSwitch
           \/ \E ids \in SUBSET Models : ProviderLists(ids)
           \/ \E u \in Updaters, p \in Policies : UpdateBegins(u, p)
    PROVE  PolicyInv'
<1>1. ASSUME NEW m \in Models, PersonTests(m) PROVE PolicyInv'
  <2>1. tester'.pc # "set" /\ UNCHANGED <<fetches, rows, policy, run, update, byhand, pardoned>>
    BY <1>1, PersonTestsTyped DEF PersonTests
  <2> QED
    BY <2>1, PolicyQuiet
<1>2. ASSUME NEW m \in Models, NEW to \in {"none", "on", "off"}, SwitchByHand(m, to) PROVE PolicyInv'
  <2>1. /\ byhand' = byhand \cup {m} /\ (\A x \in Models : x # m => rows'[x] = rows[x])
        /\ UNCHANGED <<fetches, policy, run, update, tester, pardoned>>
    BY <1>2, SwitchByHandTyped DEF SwitchByHand
  <2> QED
    BY <2>1, PolicyQuiet
<1>3. ASSUME NEW works \in BOOLEAN, PersonsAnswer(works) PROVE PolicyInv'
  <2>1. tester'.policy = policy /\ UNCHANGED <<fetches, rows, policy, run, update, byhand, pardoned>>
    BY <1>3, PersonsAnswerTyped DEF PersonsAnswer
  <2> QED
    BY <2>1, PolicyQuiet
<1>4. CASE PersonsSwitch
  <2>1. /\ tester.pc = "set" /\ tester'.pc = "idle"
        /\ (\A m \in Models : rows'[m] = "on" => rows[m] = "on" \/ Wanted(tester.policy, m))
        /\ UNCHANGED <<fetches, policy, run, update, byhand, pardoned>>
    BY <1>4, PersonsSwitchTyped DEF PersonsSwitch
  <2>2. ~pardoned => tester.policy = policy
    BY <2>1 DEF PolicyInv, SamePolicy
  <2> QED
    BY <2>1, <2>2, PolicyQuiet
<1>5. ASSUME NEW ids \in SUBSET Models, ProviderLists(ids) PROVE PolicyInv'
  <2>1. UNCHANGED <<fetches, rows, policy, run, update, tester, byhand, pardoned>>
    BY <1>5 DEF ProviderLists
  <2> QED
    BY <2>1, PolicyQuiet
<1>6. ASSUME NEW u \in Updaters, NEW p \in Policies, UpdateBegins(u, p) PROVE PolicyInv'
  <2>1. /\ update[u].pc = "idle" /\ update'[u].pc = "stop" /\ (\A x \in Updaters : x # u => update'[x] = update[x])
        /\ UNCHANGED <<fetches, rows, policy, run, tester, byhand, pardoned>>
    BY <1>6, UpdateBeginsTyped DEF UpdateBegins
  <2> QED
    BY <2>1, PolicyQuiet
<1> QED
  BY <1>1, <1>2, <1>3, <1>4, <1>5, <1>6

\* A change that stops a run waits for it.
LEMMA StopRunKeeps ==
    ASSUME CatalogTypes, PolicyInv, NEW u \in Updaters, StopRun(u)
    PROVE  PolicyInv'
<1>1. /\ update[u].pc = "stop" /\ update'[u].pc = (IF run.on THEN "wait" ELSE "save")
      /\ \A x \in Updaters : x # u => update'[x] = update[x]
      /\ (run'.on <=> run.on) /\ (run'.full <=> run.full)
      /\ run'.pc = run.pc /\ run'.models = run.models /\ run'.policy = run.policy /\ run'.tests = run.tests
  BY StopRunTyped
<1>2. UNCHANGED <<fetches, rows, policy, tester, byhand, pardoned>>
  BY DEF StopRun, Outside, Others
<1>3. StoppedOK'
  BY <1>1 DEF StoppedOK
<1>4. TestsOK'
  BY <1>1 DEF PolicyInv, TestsOK, Wanted
<1>5. SamePolicy'
  BY <1>1, <1>2 DEF PolicyInv, SamePolicy
<1>6. (\A m : WillSplit(m) => WillSplit(m)') /\ (WillApply => WillApply')
  BY <1>1 DEF WillSplit, WillApply
<1>7. SwitchesOK'
  BY <1>2, <1>6 DEF PolicyInv, SwitchesOK, Wanted
<1> QED
  BY <1>3, <1>4, <1>5, <1>7 DEF PolicyInv

\* A new policy crosses nothing: no run is under way, for one that was stopped is waited
\* for by the change that stopped it.
LEMMA SavePolicyKeeps ==
    ASSUME CatalogTypes, PolicyInv, NEW u \in Updaters, SavePolicy(u)
    PROVE  PolicyInv'
<1>1. /\ update[u].pc = "save" /\ update'[u].pc = "apply" /\ update'[u].policy = update[u].policy
      /\ policy' = update[u].policy /\ (pardoned' <=> pardoned \/ Crossed(u))
      /\ \A x \in Updaters : x # u => update'[x] = update[x]
  BY SavePolicyTyped
<1>2. UNCHANGED <<fetches, rows, run, tester, byhand>>
  BY DEF SavePolicy
<1>3. StoppedOK'
  <2>1. \A x \in Updaters : update[x].pc = "wait" => update'[x].pc = "wait"
    BY <1>1
  <2> QED
    BY <1>2, <2>1 DEF PolicyInv, StoppedOK
<1>4. TestsOK'
  BY <1>2 DEF PolicyInv, TestsOK, Wanted
<1>5. SamePolicy'
  <2> SUFFICES ASSUME ~pardoned'
               PROVE  /\ run.on /\ run.pc # "policy" => run.policy = policy'
                      /\ \A f \in Fetches : fetches[f].pc = "sync" => fetches[f].policy = policy'
                      /\ tester.pc = "set" => tester.policy = policy'
                      /\ \A x \in Updaters : update'[x].pc = "apply" => update'[x].policy = policy'
    BY <1>2 DEF SamePolicy
  <2>1. /\ ~(run.on /\ ~run.stopped) /\ (\A f \in Fetches : fetches[f].pc # "sync") /\ tester.pc # "set"
        /\ \A x \in Updaters : x # u => update[x].pc = "idle"
    BY <1>1 DEF Crossed
  <2>2. ~run.on
    BY <1>1, <2>1 DEF PolicyInv, StoppedOK
  <2>3. \A x \in Updaters : update'[x].pc = "apply" => x = u
    BY <1>1, <2>1
  <2> QED
    BY <1>1, <2>1, <2>2, <2>3
<1>6. SwitchesOK'
  BY <1>1 DEF SwitchesOK, WillApply
<1> QED
  BY <1>3, <1>4, <1>5, <1>6 DEF PolicyInv

\* The new policy switches every model, or starts a full run.
LEMMA ApplyPolicyKeeps ==
    ASSUME CatalogTypes, PolicyInv, NEW u \in Updaters, ApplyPolicy(u)
    PROVE  PolicyInv'
<1> DEFINE p == update[u].policy
<1>1. /\ update[u].pc = "apply" /\ update'[u].pc = "idle"
      /\ \A x \in Updaters : x # u => update'[x] = update[x]
  BY ApplyPolicyTyped
<1>2. /\ StartIf(p.auto, {}, TRUE, FALSE) /\ (pardoned' <=> pardoned \/ (p.auto /\ run.on))
      /\ rows' = IF p.auto THEN rows
                 ELSE [m \in Models |-> IF rows[m] = "none" THEN "none" ELSE IF Wanted(p, m) THEN "on" ELSE "off"]
      /\ UNCHANGED <<fetches, policy, tester, byhand>>
  BY DEF ApplyPolicy
<1>3. {} \in SUBSET Models
  OBVIOUS
<1>4. /\ \/ run' = run
         \/ /\ ~run.on /\ run'.on /\ ~run'.stopped /\ run'.pc = "policy" /\ run'.full
            /\ \A m \in Models : run'.tests[m] = "no"
      /\ p.auto /\ ~run.on => run' # run
  BY <1>2, <1>3, StartIfRun
<1>5. StoppedOK'
  BY <1>1, <1>4 DEF PolicyInv, StoppedOK
<1>6. TestsOK'
  BY <1>4 DEF PolicyInv, TestsOK, Wanted
<1>7. SamePolicy'
  <2>1. ~pardoned' => ~pardoned
    BY <1>2
  <2>2. \A x \in Updaters : update'[x].pc = "apply" => update'[x] = update[x]
    BY <1>1
  <2>3. run'.on /\ run'.pc # "policy" => run' = run
    BY <1>4
  <2> QED
    BY <1>2, <2>1, <2>2, <2>3 DEF PolicyInv, SamePolicy
<1>8. SwitchesOK'
  <2> SUFFICES ASSUME ~pardoned', NEW m \in Models \ byhand, rows'[m] = "on"
               PROVE  Wanted(policy, m) \/ WillSplit(m)'
    BY <1>2 DEF SwitchesOK, Wanted
  <2>1. CASE p.auto
    <3>1. run'.on /\ run'.full /\ run'.pc = "policy"
      BY <1>2, <1>4, <2>1
    <3> QED
      BY <3>1 DEF WillSplit
  <2>2. CASE ~p.auto
    <3>1. Wanted(p, m)
      BY <1>2, <2>2
    <3>2. p = policy
      BY <1>1, <1>2 DEF PolicyInv, SamePolicy
    <3> QED
      BY <3>1, <3>2
  <2> QED
    BY <2>1, <2>2
<1> QED
  BY <1>5, <1>6, <1>7, <1>8 DEF PolicyInv

CatalogInv == CatalogTypes /\ ListInv /\ PolicyInv

LEMMA CatalogStep == CatalogInv /\ [CatalogNext]_catalogVars => CatalogInv'
<1> SUFFICES ASSUME CatalogTypes, ListInv, PolicyInv, [CatalogNext]_catalogVars PROVE PolicyInv'
  BY ListStep DEF CatalogInv
<1>1. CASE UNCHANGED catalogVars
  BY <1>1, PolicyQuiet DEF catalogVars
<1>2. CASE (\E c \in Askers : StopAsking(c) \/ \E refresh \in BOOLEAN : AskList(c, refresh)) \/ GoesStale
  BY <1>2, AskersKeepPolicy
<1>3. CASE (\E f \in Fetches : FetchStep(f)) \/ RunStep
  BY <1>3, FetchesKeepPolicy, RunKeepsPolicy
<1>4. CASE RunTimesOut \/ LoopTests \/ (\E m \in Models : TestStopsWaiting(m)) \/ (\E models \in timers : TimerFires(models))
  BY <1>4, RunTimesOutKeeps, StartsKeepPolicy, TestStopsWaitingKeeps
<1>5. CASE \E u \in Updaters : UpdateStep(u)
  BY <1>5, StopRunKeeps, SavePolicyKeeps, ApplyPolicyKeeps DEF UpdateStep
<1>6. CASE \/ \E m \in Models : PersonTests(m) \/ \E to \in {"none", "on", "off"} : SwitchByHand(m, to)
           \/ \E works \in BOOLEAN : PersonsAnswer(works)
           \/ PersonsSwitch
           \/ \E ids \in SUBSET Models : ProviderLists(ids)
           \/ \E u \in Updaters, p \in Policies : UpdateBegins(u, p)
  BY <1>6, PersonKeepsPolicy
<1> QED
  BY <1>1, <1>2, <1>3, <1>4, <1>5, <1>6 DEF CatalogNext

-----------------------------------------------------------------------------
\* Fetches record before they serve, one at a time, and everything that switches a model
\* does it by the policy in force, unless a change crossed it.
THEOREM CatalogInvariant == CatalogSpec => []CatalogInv
<1>1. CatalogInit => CatalogInv
  BY CatalogStartsTyped, ListStarts, PolicyStarts DEF CatalogInv
<1> QED
  BY <1>1, CatalogStep, PTL DEF CatalogSpec

\* What is served is what is recorded, once no fetch is under way.
THEOREM CachedIsRecorded == CatalogSpec => []CatalogAgrees
<1>1. CatalogInv => CatalogAgrees
  BY DEF CatalogInv, ListInv, CachedOK, Recorded, Agrees, CatalogAgrees
<1> QED
  BY <1>1, CatalogInvariant, PTL

\* At rest no model is on that the policy in force does not want, but for what a person
\* switched, unless something went on under a policy that was replaced.
THEOREM PolicyIsKept == CatalogSpec => []PolicyKept
<1>1. CatalogInv => PolicyKept
  BY DEF CatalogInv, PolicyInv, SwitchesOK, WillSplit, WillApply, PolicyKept, AtRest
<1> QED
  BY <1>1, CatalogInvariant, PTL

-----------------------------------------------------------------------------
(* ROTATION.  The accounts take turns, and a new rotation begins with its first. *)

\* A turn that began on the list L, which has more than one account: the cursor is at
\* the account that serves, with the requests it served, or at the next one.
OnTurn(t, c) ==
    LET at == t.list[(c.i % Len(t.list)) + 1]
    IN  IF c.used = 0 THEN at = After(t.list, t.acc) /\ (t.whole => t.run = t.sticky)
        ELSE at = t.acc /\ c.used < t.sticky /\ t.run <= c.used /\ (t.whole => t.run = c.used)

IsTurn(t) ==
    /\ t.list \in Seq(Connections) /\ t.list # <<>> /\ IsInjective(t.list)
    /\ t.acc \in ToSet(t.list)
    /\ t.sticky \in Nat \ {0} /\ t.run \in 1..t.sticky /\ t.whole \in BOOLEAN

\* Before a turn is taken nothing has moved the cursor but tests, which leave it at the
\* first account; afterwards it is where the turns of the clients have brought it.
TurnOK(k) ==
    /\ turn[k] = NoTurn => cursor[k].i = 0 /\ (tests = 0 => cursor[k].used = 0)
    /\ turn[k] # NoTurn =>
         /\ IsTurn(turn[k])
         /\ tests = 0 /\ Len(turn[k].list) > 1 => OnTurn(turn[k], cursor[k])

RotationInv ==
    /\ RotationTypeOK
    /\ DOMAIN turn = Keys
    /\ \A k \in Keys : TurnOK(k)

LEMMA SettingsUsable ==
    ASSUME NEW rot \in Settings
    PROVE  /\ rot.mode \in Modes /\ rot.sticky \in 1..MaxSticky /\ rot.sticky \in Pos
           /\ rot.order \in Seq(Connections) /\ IsInjective(rot.order)
<1>1. rot.order \in Orders \cup {<<>>} /\ rot.mode \in Modes /\ rot.sticky \in 1..MaxSticky
  BY DEF Settings
<1>2. \A o \in Orders : o \in Seq(Connections) /\ IsInjective(o)
  BY RotationAssumption
<1>3. <<>> \in Seq(Connections) /\ IsInjective(<<>>)
  BY DEF IsInjective
<1>4. rot.sticky \in Pos
  BY <1>1, RotationAssumption DEF Pos
<1> QED
  BY <1>1, <1>2, <1>3, <1>4

\* The priority changes the order of the accounts only.
LEMMA OrderedIsList ==
    ASSUME NEW rot, rot.order \in Seq(Connections), IsInjective(rot.order),
           NEW conns \in Seq(Connections), IsInjective(conns)
    PROVE  /\ Ordered(rot, conns) \in Seq(Connections) /\ IsInjective(Ordered(rot, conns))
           /\ ToSet(Ordered(rot, conns)) = ToSet(conns)
<1> DEFINE first == Select(rot.order, ToSet(conns))
           rest == Select(conns, Connections \ ToSet(rot.order))
<1>1. first \in Seq(Connections) /\ rest \in Seq(Connections)
  BY SelectPlaces
<1>2. ToSet(first) = ToSet(rot.order) \cap ToSet(conns)
  BY SelectElements
<1>3. ToSet(rest) = ToSet(conns) \cap (Connections \ ToSet(rot.order))
  BY SelectElements
<1>4. IsInjective(first) /\ IsInjective(rest)
  BY SelectInjective
<1>5. ToSet(conns) \subseteq Connections
  BY DEF ToSet
<1>6. Ordered(rot, conns) = first \o rest
  BY DEF Ordered
<1> HIDE DEF first, rest
<1>7. ToSet(first) \cap ToSet(rest) = {} /\ ToSet(first) \cup ToSet(rest) = ToSet(conns)
  BY <1>2, <1>3, <1>5
<1>8. IsInjective(first \o rest)
  BY <1>1, <1>4, <1>7, ConcatInjective
<1>9. ToSet(first \o rest) = ToSet(conns)
  <2>1. ToSet(first \o rest) = ToSet(first) \cup ToSet(rest)
    BY <1>1, ConcatElements
  <2> QED
    BY <1>7, <2>1
<1> QED
  BY <1>1, <1>6, <1>8, <1>9

\* The first account of the list is the one whose turn it is.
LEMMA FirstInTurn ==
    ASSUME NEW conns \in Seq(Connections), NEW i \in Nat, i < Len(Normal(conns))
    PROVE  WithStandbyLast(conns, i)[1] = Normal(conns)[i + 1]
<1> DEFINE normal == Normal(conns)
           turned == SubSeq(normal, i + 1, Len(normal)) \o SubSeq(normal, 1, i)
           last == Select(conns, standby)
<1>1. normal \in Seq(Connections) /\ last \in Seq(Connections)
  BY SelectPlaces DEF Normal
<1>2. WithStandbyLast(conns, i) = turned \o last
  BY DEF WithStandbyLast
<1>3. i < Len(normal)
  OBVIOUS
<1> HIDE DEF normal, last
<1>4. turned \in Seq(Connections) /\ turned[1] = normal[i + 1] /\ Len(turned) > 0
  <2> DEFINE a == SubSeq(normal, i + 1, Len(normal))
             b == SubSeq(normal, 1, i)
  <2>1. a \in Seq(Connections) /\ Len(a) = Len(normal) - i /\ a[1] = normal[i + 1]
    BY <1>1, <1>3
  <2>2. b \in Seq(Connections)
    BY <1>1, <1>3
  <2> HIDE DEF a, b
  <2>3. a \o b \in Seq(Connections) /\ (a \o b)[1] = a[1] /\ Len(a \o b) > 0
    BY <1>1, <1>3, <2>1, <2>2
  <2> QED
    BY <2>1, <2>3 DEF a, b
<1> HIDE DEF turned
<1>5. (turned \o last)[1] = normal[i + 1]
  BY <1>1, <1>4
<1> QED
  BY <1>2, <1>5 DEF normal

\* What one turn does to the cursor.
LEMMA AdvanceMoves ==
    ASSUME NEW c \in [i : Nat, used : Nat], NEW n \in Pos, NEW sticky \in Pos
    PROVE  LET move == Advance(c, n, sticky) IN
           /\ move.at = c.i % n /\ c.i % n \in 0..n - 1
           /\ c.used + 1 >= sticky => move.next.i = ((c.i % n) + 1) % n /\ move.next.used = 0
           /\ c.used + 1 < sticky => move.next.i = c.i % n /\ move.next.used = c.used + 1
           /\ move.next \in [i : Nat, used : 0..sticky - 1] /\ move.next.i < n
BY DEF Advance, Pos

\* What startFor decides for a list of accounts.
LEMMA Decision ==
    ASSUME RotationTypeOK, NEW conns \in Seq(Connections), conns # <<>>, IsInjective(conns)
    PROVE  LET s == StartFor(conns) IN
           /\ s.key \in Keys /\ ToSet(s.normal) \subseteq ToSet(conns)
           /\ s.normal \in Seq(Connections) /\ IsInjective(s.normal)
           /\ s.sticky \in Pos
           /\ s.next \in [i : Nat, used : 0..MaxSticky - 1]
           /\ ~s.turns => s.next = cursor[s.key]
           /\ s.turns => /\ Len(s.normal) \in Pos
                         /\ s.list[1] = s.normal[(cursor[s.key].i % Len(s.normal)) + 1]
                         /\ s.next = Advance(cursor[s.key], Len(s.normal), s.sticky).next
<1> DEFINE prov    == ProviderOf[conns[1]]
           single  == OneProvider(conns)
           rot     == IF single THEN rotation[prov]
                      ELSE [mode |-> "round-robin", sticky |-> 1, order |-> <<>>]
           ordered == Ordered(rot, conns)
           n       == Len(Normal(ordered))
           turns   == rot.mode = "round-robin" /\ n > 0
           key     == IF single THEN prov ELSE Pool
           move    == IF turns THEN Advance(cursor[key], n, rot.sticky)
                      ELSE [at |-> 0, next |-> cursor[key]]
<1>1. StartFor(conns) = [list |-> WithStandbyLast(ordered, move.at), normal |-> Normal(ordered),
         key |-> key, turns |-> turns, sticky |-> rot.sticky, next |-> move.next]
  BY DEF StartFor
<1>2. prov \in Providers
  BY RotationAssumption
<1>3. key \in Keys
  BY <1>2 DEF Keys
<1>4. rot \in Settings
  <2>1. single => rot \in Settings
    BY <1>2 DEF RotationTypeOK
  <2>2. ~single => rot \in Settings
    BY RotationAssumption DEF Settings, Modes
  <2> QED
    BY <2>1, <2>2
<1>5. cursor[key] \in [i : Nat, used : 0..MaxSticky - 1]
  BY <1>3 DEF RotationTypeOK
<1> HIDE DEF key, single, rot, prov
<1>6. rot.mode \in Modes /\ rot.sticky \in 1..MaxSticky /\ rot.sticky \in Pos
      /\ rot.order \in Seq(Connections) /\ IsInjective(rot.order)
  BY <1>4, SettingsUsable
<1>7. ordered \in Seq(Connections) /\ IsInjective(ordered) /\ ToSet(ordered) = ToSet(conns)
  BY <1>6, OrderedIsList
<1> HIDE DEF ordered
<1>8. Normal(ordered) \in Seq(Connections) /\ IsInjective(Normal(ordered))
      /\ ToSet(Normal(ordered)) \subseteq ToSet(conns)
  BY <1>7, SelectPlaces, SelectInjective, SelectElements DEF Normal
<1>9. n \in Nat
  BY <1>8
<1>10. CASE ~turns
  <2>1. move = [at |-> 0, next |-> cursor[key]]
    BY <1>10
  <2>2. move.next = cursor[key]
    BY <2>1
  <2> HIDE DEF move, turns
  <2> QED
    BY <1>1, <1>3, <1>5, <1>6, <1>8, <1>10, <2>2
<1>11. CASE turns
  <2>1. n \in Pos
    BY <1>9, <1>11 DEF Pos
  <2>2. move = Advance(cursor[key], n, rot.sticky)
    BY <1>11
  <2>3. cursor[key] \in [i : Nat, used : Nat]
    BY <1>5, RotationAssumption
  <2>4. /\ move.at = cursor[key].i % n /\ move.at \in 0..n - 1
        /\ move.next \in [i : Nat, used : 0..rot.sticky - 1]
    <3> DEFINE c == cursor[key]
               sticky == rot.sticky
               to == Advance(c, n, sticky)
    <3>1. c \in [i : Nat, used : Nat] /\ sticky \in Pos
      BY <1>6, <2>3
    <3> HIDE DEF c, sticky, n
    <3>2. to.at = c.i % n /\ c.i % n \in 0..n - 1 /\ to.next \in [i : Nat, used : 0..sticky - 1]
      BY <2>1, <3>1, AdvanceMoves
    <3> HIDE DEF to, move
    <3>3. move = to
      BY <2>2 DEF to, c, sticky
    <3> QED
      BY <3>2, <3>3 DEF c, sticky
  <2>5. WithStandbyLast(ordered, move.at)[1] = Normal(ordered)[move.at + 1]
    <3>1. move.at \in Nat /\ move.at < Len(Normal(ordered))
      BY <1>9, <2>4
    <3> HIDE DEF move
    <3> QED
      BY <1>7, <3>1, FirstInTurn
  <2> HIDE DEF move
  <2>6. move.next \in [i : Nat, used : 0..MaxSticky - 1]
    BY <1>6, <2>4, RotationAssumption
  <2>7. WithStandbyLast(ordered, move.at)[1] = Normal(ordered)[(cursor[key].i % n) + 1]
    BY <2>4, <2>5
  <2> HIDE DEF turns, n
  <2> QED
    BY <1>1, <1>3, <1>6, <1>8, <1>11, <2>1, <2>2, <2>6, <2>7 DEF n
<1> QED
  BY <1>10, <1>11

LEMMA Modulo ==
    ASSUME NEW n \in Pos
    PROVE  /\ \A x \in 0..n - 1 : x % n = x
           /\ n % n = 0
           /\ \A x \in Nat : x % n \in 0..n - 1
BY DEF Pos

LEMMA AfterNext ==
    ASSUME NEW L \in Seq(Connections), IsInjective(L), NEW k \in 0..Len(L) - 1
    PROVE  After(L, L[k + 1]) = L[((k + 1) % Len(L)) + 1]
<1> DEFINE at == CHOOSE n \in DOMAIN L : L[n] = L[k + 1]
<1>1. k + 1 \in DOMAIN L
  OBVIOUS
<1>2. at \in DOMAIN L /\ L[at] = L[k + 1]
  BY <1>1
<1> HIDE DEF at
<1>3. at = k + 1
  BY <1>1, <1>2 DEF IsInjective
<1> QED
  BY <1>3 DEF After, at

\* What a decision makes of the turn before it.
IsDecision(s, c) ==
    /\ s.normal \in Seq(Connections) /\ IsInjective(s.normal) /\ Len(s.normal) \in Pos
    /\ s.sticky \in Pos
    /\ s.list[1] = s.normal[(c.i % Len(s.normal)) + 1]

LEMMA ServedIsTurn ==
    ASSUME NEW c \in [i : Nat, used : Nat], NEW s, IsDecision(s, c), NEW t, t = NoTurn \/ IsTurn(t)
    PROVE  /\ IsTurn(Served(t, s)) /\ Served(t, s) # NoTurn
           /\ Served(t, s).list = s.normal /\ Served(t, s).acc = s.list[1]
           /\ Served(t, s).sticky = s.sticky
<1> DEFINE same  == t = NoTurn \/ (t.list = s.normal /\ t.sticky = s.sticky)
           again == same /\ t.acc = s.list[1] /\ t.run < s.sticky
           u == Served(t, s)
<1>1. u = [list |-> s.normal, sticky |-> s.sticky, acc |-> s.list[1],
           run |-> IF again THEN t.run + 1 ELSE 1, whole |-> same /\ (again => t.whole)]
  BY DEF Served
<1>2. t.run \in Nat
  BY DEF NoTurn, IsTurn
<1>3. (IF again THEN t.run + 1 ELSE 1) \in 1..s.sticky
  BY <1>2 DEF IsDecision, Pos
<1>4. (same /\ (again => t.whole)) \in BOOLEAN
  OBVIOUS
<1> HIDE DEF same, again
<1>5. u.list = s.normal /\ u.sticky = s.sticky /\ u.acc = s.list[1] /\ u.run \in 1..s.sticky /\ u.whole \in BOOLEAN
  BY <1>1, <1>3, <1>4
<1> HIDE DEF u
<1>6. Len(u.list) \in Pos /\ u.list # <<>>
  BY <1>5 DEF IsDecision, Pos
<1>7. (c.i % Len(s.normal)) + 1 \in DOMAIN s.normal
  BY DEF IsDecision, Pos
<1>8. u.acc \in ToSet(u.list)
  BY <1>5, <1>7 DEF IsDecision, ToSet
<1>9. IsTurn(u)
  BY <1>5, <1>6, <1>8 DEF IsDecision, IsTurn, Pos
<1>10. u # NoTurn
  BY <1>6 DEF NoTurn
<1> QED
  BY <1>5, <1>9, <1>10 DEF u

\* With more than one account that take turns: the turn after a turn, and the cursor.
LEMMA ServedInOrder ==
    ASSUME NEW c \in [i : Nat, used : Nat], NEW s, IsDecision(s, c), Len(s.normal) > 1,
           NEW t, IsTurn(t), Len(t.list) > 1 => OnTurn(t, c)
    PROVE  InOrder(t, Served(t, s)) /\ OnTurn(Served(t, s), Advance(c, Len(s.normal), s.sticky).next)
<1> DEFINE L == s.normal
           n == Len(L)
           k == c.i % n
           u == Served(t, s)
           d == Advance(c, n, s.sticky).next
           same  == t.list = L /\ t.sticky = s.sticky
           again == same /\ t.acc = L[k + 1] /\ t.run < s.sticky
<1>1. /\ L \in Seq(Connections) /\ IsInjective(L) /\ n \in Pos /\ n > 1 /\ s.sticky \in Pos
      /\ s.list[1] = L[k + 1] /\ k \in 0..n - 1 /\ (k + 1) % n \in 0..n - 1
  BY DEF IsDecision, Pos
<1>2. /\ c.used \in Nat /\ d.i \in 0..n - 1 /\ d.used \in Nat
      /\ c.used + 1 >= s.sticky => d.i = (k + 1) % n /\ d.used = 0
      /\ c.used + 1 < s.sticky => d.i = k /\ d.used = c.used + 1
  <2>1. c.used \in Nat /\ Advance(c, n, s.sticky).at = c.i % n
    BY DEF Advance
  <2>2. /\ c.used + 1 >= s.sticky => d.i = (k + 1) % n /\ d.used = 0
        /\ c.used + 1 < s.sticky => d.i = k /\ d.used = c.used + 1
        /\ d \in [i : Nat, used : 0..s.sticky - 1] /\ d.i < n
    BY <1>1, AdvanceMoves
  <2> HIDE DEF d, k, n, L
  <2>3. d.i \in Nat /\ d.used \in Nat
    BY <2>2
  <2> QED
    BY <1>1, <2>1, <2>2, <2>3 DEF Pos
<1>3. t # NoTurn /\ t.list # <<>> /\ t.run \in 1..t.sticky /\ t.sticky \in Nat /\ t.whole \in BOOLEAN
  BY DEF NoTurn, IsTurn
<1>4. u = [list |-> L, sticky |-> s.sticky, acc |-> L[k + 1],
           run |-> IF again THEN t.run + 1 ELSE 1, whole |-> same /\ (again => t.whole)]
  BY <1>1, <1>3 DEF Served
<1>5. /\ u.list = L /\ u.sticky = s.sticky /\ u.acc = L[k + 1]
      /\ u.run = IF again THEN t.run + 1 ELSE 1
      /\ u.whole <=> same /\ (again => t.whole)
      /\ u.whole \in BOOLEAN
  <2> DEFINE w == same /\ (again => t.whole)
             r == IF again THEN t.run + 1 ELSE 1
  <2>1. w \in BOOLEAN
    OBVIOUS
  <2>2. u = [list |-> L, sticky |-> s.sticky, acc |-> L[k + 1], run |-> r, whole |-> w]
    BY <1>4
  <2> HIDE DEF w, r, u
  <2>3. u.list = L /\ u.sticky = s.sticky /\ u.acc = L[k + 1] /\ u.run = r /\ u.whole = w
    BY <2>2
  <2> QED
    BY <2>1, <2>3 DEF w, r
<1>6. After(L, L[k + 1]) = L[((k + 1) % n) + 1]
  BY <1>1, AfterNext
<1>7. After(L, L[k + 1]) # L[k + 1]
  <2>1. (k + 1) % n # k
    <3> HIDE DEF k, n, L
    <3>1. CASE k + 1 < n
      <4>1. (k + 1) % n = k + 1
        <5>1. k + 1 \in 0..n - 1
          BY <1>1, <3>1 DEF Pos
        <5> QED
          BY <1>1, <5>1, Modulo
      <4> QED
        BY <1>1, <4>1
    <3>2. CASE k + 1 = n
      <4>1. (k + 1) % n = 0
        BY <1>1, <3>2, Modulo
      <4> QED
        BY <1>1, <3>2, <4>1
    <3> QED
      BY <1>1, <3>1, <3>2 DEF Pos
  <2>2. ((k + 1) % n) + 1 \in DOMAIN L /\ k + 1 \in DOMAIN L
    BY <1>1
  <2>3. ((k + 1) % n) + 1 # k + 1
    BY <1>1, <2>1
  <2> HIDE DEF k
  <2> QED
    BY <1>1, <1>6, <2>2, <2>3 DEF IsInjective
<1>8. same => IF c.used = 0 THEN L[k + 1] = After(L, t.acc) /\ (t.whole => t.run = s.sticky)
              ELSE L[k + 1] = t.acc /\ c.used < s.sticky /\ t.run <= c.used /\ (t.whole => t.run = c.used)
  BY <1>1 DEF OnTurn
<1>9. t.acc = L[k + 1] /\ same => c.used # 0
  BY <1>7, <1>8
<1> HIDE DEF k, d, u, L
<1>10. again <=> same /\ c.used # 0
  BY <1>2, <1>3, <1>8, <1>9, <1>1 DEF Pos
<1>11. InOrder(t, u)
  <2> SUFFICES ASSUME t.list = u.list, t.sticky = u.sticky
               PROVE  \/ u.acc = t.acc /\ t.run < t.sticky
                      \/ u.acc = After(t.list, t.acc) /\ (t.run = t.sticky \/ ~t.whole)
    BY DEF InOrder
  <2>1. same
    BY <1>5
  <2> QED
    BY <1>3, <1>5, <1>8, <1>10, <2>1
<1>12. d.i % n = d.i
  BY <1>1, <1>2, Modulo
<1>13. OnTurn(u, d)
  <2>1. CASE c.used + 1 >= s.sticky
    <3>1. L[(d.i % n) + 1] = After(L, L[k + 1])
      BY <1>2, <1>6, <1>12, <2>1
    <3>2. u.whole => u.run = s.sticky
      <4>1. CASE again
        BY <4>1, <1>1, <1>2, <1>3, <1>5, <1>8, <1>10, <2>1 DEF Pos
      <4>2. CASE ~again
        BY <4>2, <1>1, <1>2, <1>5, <1>10, <2>1 DEF Pos
      <4> QED
        BY <4>1, <4>2
    <3> QED
      BY <1>2, <1>5, <2>1, <3>1, <3>2 DEF OnTurn
  <2>2. CASE c.used + 1 < s.sticky
    <3>1. L[(d.i % n) + 1] = L[k + 1]
      BY <1>2, <1>12, <2>2
    <3>2. d.used # 0 /\ d.used < s.sticky /\ u.run <= d.used /\ (u.whole => u.run = d.used)
      <4>1. CASE again
        BY <4>1, <1>1, <1>2, <1>3, <1>5, <1>8, <1>10, <2>2 DEF Pos
      <4>2. CASE ~again
        BY <4>2, <1>1, <1>2, <1>5, <1>10, <2>2 DEF Pos
      <4> QED
        BY <4>1, <4>2
    <3> QED
      BY <1>2, <1>5, <3>1, <3>2 DEF OnTurn
  <2> QED
    BY <1>1, <1>2, <2>1, <2>2 DEF Pos
<1> QED
  BY <1>11, <1>13 DEF u, d, L

LEMMA AfterFirst ==
    ASSUME NEW L \in Seq(Connections), IsInjective(L), Len(L) \in Pos
    PROVE  After(L, L[1]) = L[(1 % Len(L)) + 1]
<1>1. 0 \in 0..Len(L) - 1
  BY DEF Pos
<1>2. After(L, L[0 + 1]) = L[((0 + 1) % Len(L)) + 1]
  BY <1>1, AfterNext
<1> QED
  BY <1>2

LEMMA StartsOK == RotationInit => RotationInv
<1> SUFFICES ASSUME RotationInit PROVE RotationInv
  OBVIOUS
<1>1. Start \in [i : Nat, used : 0..MaxSticky - 1] /\ Start.i = 0 /\ Start.used = 0
  BY RotationAssumption DEF Start
<1>2. [mode |-> "round-robin", sticky |-> 1, order |-> <<>>] \in Settings
  BY RotationAssumption DEF Settings, Modes
<1>3. RotationTypeOK
  BY <1>1, <1>2, RotationAssumption DEF RotationInit, RotationTypeOK
<1>4. \A k \in Keys : TurnOK(k)
  BY <1>1 DEF RotationInit, TurnOK
<1> QED
  BY <1>3, <1>4 DEF RotationInit, RotationInv

\* The accounts a request reaches.
LEMMA TargetsIsList ==
    ASSUME RotationTypeOK, NEW q
    PROVE  Targets(q) \in Seq(Connections) /\ IsInjective(Targets(q))
BY SelectPlaces, SelectInjective, RotationAssumption DEF Targets

\* One turn: the cursor and the history of its key.
LEMMA PickMoves ==
    ASSUME RotationInv, NEW q \in Reach, Pick(q)
    PROVE  \E s :
        /\ s.key \in Keys /\ (s.turns => IsDecision(s, cursor[s.key]))
        /\ s.next \in [i : Nat, used : 0..MaxSticky - 1]
        /\ IF s.turns THEN s.next = Advance(cursor[s.key], Len(s.normal), s.sticky).next
                      ELSE s.next = cursor[s.key]
        /\ cursor' = [cursor EXCEPT ![s.key] = s.next]
        /\ turn' = IF s.turns THEN [turn EXCEPT ![s.key] = Served(turn[s.key], s)] ELSE turn
<1> DEFINE conns == Targets(q)
           s == StartFor(conns)
<1>1. conns \in Seq(Connections) /\ IsInjective(conns) /\ conns # <<>>
  BY TargetsIsList DEF Pick, RotationInv
<1> HIDE DEF conns
<1>2. /\ s.key \in Keys
      /\ s.normal \in Seq(Connections) /\ IsInjective(s.normal) /\ s.sticky \in Pos
      /\ s.next \in [i : Nat, used : 0..MaxSticky - 1]
      /\ ~s.turns => s.next = cursor[s.key]
      /\ s.turns => /\ Len(s.normal) \in Pos
                    /\ s.list[1] = s.normal[(cursor[s.key].i % Len(s.normal)) + 1]
                    /\ s.next = Advance(cursor[s.key], Len(s.normal), s.sticky).next
  BY <1>1, Decision DEF RotationInv
<1>3. /\ cursor' = [cursor EXCEPT ![s.key] = s.next]
      /\ turn' = IF s.turns THEN [turn EXCEPT ![s.key] = Served(turn[s.key], s)] ELSE turn
  BY DEF Pick, conns
<1> HIDE DEF s
<1>4. s.turns => IsDecision(s, cursor[s.key])
  BY <1>2 DEF IsDecision
<1> QED
  BY <1>2, <1>3, <1>4

LEMMA CursorNats ==
    ASSUME RotationTypeOK, NEW k \in Keys
    PROVE  cursor[k] \in [i : Nat, used : Nat]
BY RotationAssumption DEF RotationTypeOK

\* A turn keeps the turns of the clients in order, and begins a new rotation at its first account.
LEMMA PickKeeps ==
    ASSUME RotationInv, NEW q \in Reach, Pick(q)
    PROVE  /\ RotationInv'
           /\ \A k \in Keys : tests = 0 /\ NewTurn(k) => InOrder(turn[k], turn'[k])
           /\ \A k \in Keys : turn[k] = NoTurn /\ turn'[k] # NoTurn => turn'[k].acc = turn'[k].list[1]
<1>1. PICK s :
        /\ s.key \in Keys /\ (s.turns => IsDecision(s, cursor[s.key]))
        /\ s.next \in [i : Nat, used : 0..MaxSticky - 1]
        /\ IF s.turns THEN s.next = Advance(cursor[s.key], Len(s.normal), s.sticky).next
                      ELSE s.next = cursor[s.key]
        /\ cursor' = [cursor EXCEPT ![s.key] = s.next]
        /\ turn' = IF s.turns THEN [turn EXCEPT ![s.key] = Served(turn[s.key], s)] ELSE turn
  BY PickMoves
<1>2. RotationTypeOK /\ UNCHANGED settingsVars /\ UNCHANGED tests
  BY DEF RotationInv, Pick
<1>3. RotationTypeOK'
  BY <1>1, <1>2 DEF RotationTypeOK, settingsVars
<1>4. DOMAIN turn' = Keys
  BY <1>1 DEF RotationInv
<1>5. ASSUME NEW k \in Keys, k # s.key \/ ~s.turns
      PROVE  cursor'[k] = cursor[k] /\ turn'[k] = turn[k]
  BY <1>1, <1>2, <1>5 DEF RotationTypeOK
<1>6. ASSUME s.turns, NEW k, k = s.key
      PROVE  /\ TurnOK(k)' /\ (tests = 0 /\ NewTurn(k) => InOrder(turn[k], turn'[k]))
             /\ (turn[k] = NoTurn /\ turn'[k] # NoTurn => turn'[k].acc = turn'[k].list[1])
  <2> DEFINE c == cursor[k]
             t == turn[k]
             u == Served(t, s)
             n == Len(s.normal)
  <2>1. k \in Keys /\ c \in [i : Nat, used : Nat] /\ IsDecision(s, c)
    BY <1>1, <1>2, <1>6, CursorNats
  <2>2. cursor'[k] = Advance(c, n, s.sticky).next /\ turn'[k] = u
    BY <1>1, <1>2, <1>6 DEF RotationTypeOK, RotationInv
  <2>n. n \in Pos /\ n \in Nat /\ n # 0
    BY <2>1 DEF IsDecision, Pos
  <2>3. TurnOK(k)
    BY <2>1 DEF RotationInv
  <2>4. t = NoTurn \/ IsTurn(t)
    BY <2>3 DEF TurnOK
  <2> HIDE DEF c, t
  <2>5. IsTurn(u) /\ u # NoTurn /\ u.list = s.normal /\ u.acc = s.list[1] /\ u.sticky = s.sticky
    BY <2>1, <2>4, ServedIsTurn
  <2>6. ASSUME t # NoTurn, tests = 0
        PROVE  InOrder(t, u) /\ (n > 1 => OnTurn(u, Advance(c, n, s.sticky).next))
    <3>1. IsTurn(t) /\ (Len(t.list) > 1 => OnTurn(t, c))
      BY <2>3, <2>4, <2>6 DEF TurnOK, t, c
    <3>2. CASE n > 1
      BY <2>1, <3>1, <3>2, ServedInOrder
    <3>3. CASE ~(n > 1)
      <4>1. n = 1
        <5> HIDE DEF n
        <5> QED
          BY <2>n, <3>3
      <4>2. SUFFICES ASSUME t.list = s.normal, t.sticky = s.sticky
                     PROVE  \/ u.acc = t.acc /\ t.run < t.sticky
                            \/ u.acc = After(t.list, t.acc) /\ t.run = t.sticky
        BY <2>5, <3>3 DEF InOrder
      <4>3. \A x \in ToSet(s.normal) : x = s.normal[1]
        BY <2>1, <4>1 DEF IsDecision, ToSet
      <4>4. t.acc = s.normal[1] /\ u.acc = s.normal[1]
        BY <2>5, <3>1, <4>2, <4>3 DEF IsTurn
      <4>5. After(s.normal, s.normal[1]) \in ToSet(s.normal)
        <5>1. 1 % 1 = 0
          OBVIOUS
        <5> QED
          BY <2>1, <4>1, <5>1, AfterFirst DEF IsDecision, ToSet
      <4>6. t.run < t.sticky \/ t.run = t.sticky
        BY <3>1 DEF IsTurn
      <4> QED
        BY <4>2, <4>3, <4>4, <4>5, <4>6
    <3> QED
      BY <3>2, <3>3
  <2>7. ASSUME t = NoTurn
        PROVE  u.acc = u.list[1] /\ (tests = 0 /\ n > 1 => OnTurn(u, Advance(c, n, s.sticky).next))
    <3>1. c.i = 0 /\ (tests = 0 => c.used = 0)
      BY <2>3, <2>7 DEF TurnOK, t, c
    <3>2. n \in Pos /\ c.i % n = 0 /\ s.sticky \in Nat /\ s.sticky # 0 /\ s.sticky \in Pos
      <4>1. s.sticky \in Pos
        BY <2>1 DEF IsDecision
      <4>2. \A m \in Pos : 0 % m = 0
        BY Modulo DEF Pos
      <4> QED
        BY <2>n, <3>1, <4>1, <4>2 DEF Pos
    <3>3. u.acc = s.normal[1]
      BY <2>1, <2>5, <3>2 DEF IsDecision
    <3>4. ASSUME tests = 0, n > 1 PROVE OnTurn(u, Advance(c, n, s.sticky).next)
      <4> DEFINE d == Advance(c, n, s.sticky).next
      <4>1. u.run = 1
        BY <2>7 DEF Served, NoTurn
      <4>2. /\ 1 >= s.sticky => d.i = 1 % n /\ d.used = 0
            /\ 1 < s.sticky => d.i = 0 /\ d.used = 1
        <5>1. /\ c.used + 1 >= s.sticky => d.i = ((c.i % n) + 1) % n /\ d.used = 0
              /\ c.used + 1 < s.sticky => d.i = c.i % n /\ d.used = c.used + 1
          BY <2>1, <3>2, AdvanceMoves
        <5> HIDE DEF d, n
        <5>2. c.used = 0 /\ c.i % n = 0
          BY <3>1, <3>2, <3>4
        <5>3. c.used + 1 = 1 /\ (c.i % n) + 1 = 1
          BY <5>2
        <5> QED
          BY <5>1, <5>2, <5>3
      <4>3. 0 % n = 0 /\ 1 % n = 1
        <5> HIDE DEF n
        <5>1. 0 \in 0..n - 1 /\ 1 \in 0..n - 1
          BY <2>n, <3>4
        <5> QED
          BY <2>n, <5>1, Modulo
      <4>4. After(s.normal, s.normal[1]) = s.normal[(1 % n) + 1]
        BY <2>1, AfterFirst DEF IsDecision
      <4> HIDE DEF d, u
      <4>5. ASSUME 1 >= s.sticky PROVE OnTurn(u, d)
        <5>1. s.sticky = 1 /\ d.used = 0 /\ d.i % n = 1 % n
          <6>1. s.sticky = 1
            BY <4>5, <3>2
          <6>2. d.used = 0 /\ d.i = 1
            BY <4>5, <4>2, <4>3
          <6> QED
            BY <6>1, <6>2
        <5>2. u.list[(d.i % Len(u.list)) + 1] = After(u.list, u.acc)
          BY <2>5, <3>3, <4>4, <5>1
        <5>3. u.run = u.sticky
          BY <2>5, <4>1, <5>1
        <5> QED
          BY <5>1, <5>2, <5>3 DEF OnTurn
      <4>6. ASSUME 1 < s.sticky PROVE OnTurn(u, d)
        <5>1. d.used = 1 /\ d.i % n = 0
          BY <4>6, <4>2, <4>3
        <5>2. u.list[(d.i % Len(u.list)) + 1] = u.acc
          BY <2>5, <3>3, <5>1
        <5>3. d.used # 0 /\ d.used < u.sticky /\ u.run <= d.used /\ u.run = d.used
          BY <2>5, <3>2, <4>1, <4>6, <5>1
        <5> QED
          BY <5>2, <5>3 DEF OnTurn
      <4> QED
        BY <3>2, <4>5, <4>6 DEF d, Pos
    <3> QED
      BY <2>5, <3>3, <3>4
  <2>8. tests' = 0 /\ n > 1 => OnTurn(u, Advance(c, n, s.sticky).next)
    BY <1>2, <2>6, <2>7
  <2>9. TurnOK(k)'
    BY <2>2, <2>5, <2>8 DEF TurnOK
  <2> HIDE DEF u
  <2> QED
    BY <2>2, <2>5, <2>6, <2>7, <2>9 DEF NewTurn, t
<1>7. \A k \in Keys : k # s.key \/ ~s.turns => TurnOK(k)'
  BY <1>2, <1>5 DEF RotationInv, TurnOK
<1>8. RotationInv'
  BY <1>3, <1>4, <1>6, <1>7 DEF RotationInv
<1>9. ASSUME NEW k \in Keys
      PROVE  /\ tests = 0 /\ NewTurn(k) => InOrder(turn[k], turn'[k])
             /\ turn[k] = NoTurn /\ turn'[k] # NoTurn => turn'[k].acc = turn'[k].list[1]
  <2>1. CASE s.turns /\ k = s.key
    BY <1>6, <2>1
  <2>2. CASE k # s.key \/ ~s.turns
    BY <1>5, <2>2 DEF NewTurn
  <2> QED
    BY <2>1, <2>2
<1> QED
  BY <1>8, <1>9

\* A test moves the cursor, and leaves it at the first account of a rotation nobody used.
LEMMA PinnedKeeps ==
    ASSUME RotationInv, NEW a \in Connections, PickPinned(a)
    PROVE  RotationInv' /\ UNCHANGED turn
<1> DEFINE s == StartFor(<<a>>)
           p == ProviderOf[a]
<1>1. <<a>> \in Seq(Connections) /\ <<a>> # <<>> /\ IsInjective(<<a>>) /\ <<a>>[1] = a
  BY DEF IsInjective
<1>2. p \in Providers /\ p \in Keys
  BY RotationAssumption DEF Keys
<1>3. s.key = p
  <2>1. ToSet(<<a>>) = {a}
    BY <1>1 DEF ToSet
  <2>2. {ProviderOf[x] : x \in {a}} = {ProviderOf[a]}
    OBVIOUS
  <2>3. OneProvider(<<a>>)
    BY <2>1, <2>2, FS_Singleton DEF OneProvider
  <2> QED
    BY <1>1, <2>3 DEF StartFor
<1>4. /\ ToSet(s.normal) \subseteq ToSet(<<a>>)
      /\ s.normal \in Seq(Connections) /\ IsInjective(s.normal) /\ s.sticky \in Pos
      /\ s.next \in [i : Nat, used : 0..MaxSticky - 1]
      /\ ~s.turns => s.next = cursor[p]
      /\ s.turns => /\ Len(s.normal) \in Pos
                    /\ s.next = Advance(cursor[p], Len(s.normal), s.sticky).next
  BY <1>1, <1>3, Decision DEF RotationInv
<1>5. /\ tests' = tests + 1 /\ tests < MaxTests /\ cursor' = [cursor EXCEPT ![p] = s.next]
      /\ UNCHANGED <<settingsVars, turn>>
  BY DEF PickPinned
<1> HIDE DEF s, p
<1>6. RotationTypeOK'
  BY <1>2, <1>4, <1>5, RotationAssumption DEF RotationInv, RotationTypeOK, settingsVars
<1>7. tests' # 0
  BY <1>5, RotationAssumption DEF RotationInv, RotationTypeOK
<1>8. cursor[p].i = 0 => s.next.i = 0
  <2>1. CASE ~s.turns
    BY <1>4, <2>1
  <2>2. CASE s.turns
    <3> DEFINE n == Len(s.normal)
    <3>1. n \in Pos
      BY <1>4, <2>2
    <3>2. n = 1
      <4>1. DOMAIN s.normal = 1..n
        BY <1>4
      <4>2. ToSet(<<a>>) = {a}
        BY <1>1 DEF ToSet
      <4>3. \A j, k \in 1..n : j = k
        <5>1. \A j \in 1..n : s.normal[j] \in ToSet(s.normal)
          BY <4>1 DEF ToSet
        <5>2. \A j \in 1..n : s.normal[j] = a
          BY <1>4, <4>2, <5>1
        <5> QED
          BY <1>4, <4>1, <5>2 DEF IsInjective
      <4> HIDE DEF n
      <4>4. 1 \in 1..n /\ n \in 1..n
        BY <3>1 DEF Pos
      <4> QED
        BY <4>3, <4>4
    <3>3. cursor[p] \in [i : Nat, used : Nat]
      BY <1>2, CursorNats DEF RotationInv
    <3>4. s.next.i \in Nat /\ s.next.i < 1
      BY <1>4, <2>2, <3>1, <3>2, <3>3, AdvanceMoves
    <3> QED
      BY <3>4
  <2> QED
    BY <2>1, <2>2
<1>9. ASSUME NEW k \in Keys PROVE TurnOK(k)'
  <2>1. cursor'[k] = IF k = p THEN s.next ELSE cursor[k]
    BY <1>2, <1>5 DEF RotationInv, RotationTypeOK
  <2>2. TurnOK(k)
    BY DEF RotationInv
  <2>3. turn'[k] = NoTurn => cursor'[k].i = 0
    BY <1>5, <1>8, <2>1, <2>2 DEF TurnOK
  <2> QED
    BY <1>5, <1>7, <2>2, <2>3 DEF TurnOK
<1> QED
  BY <1>5, <1>6, <1>9 DEF RotationInv

\* Steps that leave cursors and turns alone.
LEMMA SettingsKeep ==
    ASSUME RotationInv, RotationTypeOK', UNCHANGED <<cursor, tests, turn>>
    PROVE  RotationInv'
<1>1. ASSUME NEW k \in Keys PROVE TurnOK(k)'
  BY DEF RotationInv, TurnOK
<1> QED
  BY <1>1 DEF RotationInv

LEMMA EditReadKeeps ==
    ASSUME RotationInv, NEW e \in Editors, NEW p \in Providers, EditRead(e, p)
    PROVE  RotationInv' /\ UNCHANGED turn
<1>1. PICK mode \in Modes, sticky \in 1..MaxSticky, order \in Orders \cup {rotation[p].order} :
            editor' = [editor EXCEPT ![e] =
                [prov |-> p, saved |-> FALSE,
                 rot |-> [mode |-> mode, sticky |-> sticky, order |-> order]]]
  BY DEF EditRead
<1>2. rotation[p].order \in Orders \cup {<<>>}
  BY DEF RotationInv, RotationTypeOK, Settings
<1>3. [mode |-> mode, sticky |-> sticky, order |-> order] \in Settings
  BY <1>2 DEF Settings
<1>4. edits' \in 0..MaxEdits
  BY RotationAssumption DEF EditRead, RotationInv, RotationTypeOK
<1>5. RotationTypeOK' /\ UNCHANGED <<cursor, tests, turn>>
  BY <1>1, <1>3, <1>4 DEF EditRead, RotationInv, RotationTypeOK
<1> QED
  BY <1>5, SettingsKeep

\* An edit under way is of a provider, with settings that may be saved.
LEMMA EditorHas ==
    ASSUME RotationTypeOK, NEW e \in Editors, editor[e] # Resting
    PROVE  editor[e] \in [prov : Providers, rot : Settings, saved : BOOLEAN]
BY DEF RotationTypeOK

LEMMA EditSaveKeeps ==
    ASSUME RotationInv, NEW e \in Editors, EditSave(e)
    PROVE  RotationInv' /\ UNCHANGED turn
<1>1. editor[e] \in [prov : Providers, rot : Settings, saved : BOOLEAN]
  BY EditorHas DEF EditSave, RotationInv
<1>2. rotation' \in [Providers -> Settings]
  BY <1>1 DEF EditSave, RotationInv, RotationTypeOK
<1>3. editor' \in [Editors -> [prov : Providers, rot : Settings, saved : BOOLEAN] \cup {Resting}]
  <2>1. [editor[e] EXCEPT !.saved = TRUE] \in [prov : Providers, rot : Settings, saved : BOOLEAN]
    BY <1>1
  <2> QED
    BY <2>1 DEF EditSave, RotationInv, RotationTypeOK
<1>4. RotationTypeOK' /\ UNCHANGED <<cursor, tests, turn>>
  BY <1>2, <1>3 DEF EditSave, RotationInv, RotationTypeOK
<1> QED
  BY <1>4, SettingsKeep

\* A new rotation starts over.
LEMMA EditResetKeeps ==
    ASSUME RotationInv, NEW e \in Editors, EditReset(e)
    PROVE  RotationInv' /\ \A k \in Keys : turn'[k] = turn[k] \/ turn'[k] = NoTurn
<1> DEFINE p == editor[e].prov
<1>1. editor[e] # Resting
  <2>1. Resting.saved = FALSE
    BY DEF Resting
  <2>2. editor[e].saved
    BY DEF EditReset
  <2> QED
    BY <2>1, <2>2
<1>2. p \in Providers /\ p \in Keys
  BY <1>1, EditorHas DEF RotationInv, Keys
<1>3. Start \in [i : Nat, used : 0..MaxSticky - 1] /\ Start.i = 0 /\ Start.used = 0
  BY RotationAssumption DEF Start
<1> HIDE DEF p
<1>4. cursor' = [cursor EXCEPT ![p] = Start] /\ turn' = [turn EXCEPT ![p] = NoTurn]
      /\ editor' = [editor EXCEPT ![e] = Resting]
      /\ UNCHANGED <<active, standby, rotation, edits, tests, marking>>
  BY DEF EditReset, Forgotten, p
<1>5. RotationTypeOK'
  BY <1>2, <1>3, <1>4 DEF RotationInv, RotationTypeOK
<1>6. ASSUME NEW k \in Keys
      PROVE  IF k = p THEN cursor'[k] = Start /\ turn'[k] = NoTurn
             ELSE cursor'[k] = cursor[k] /\ turn'[k] = turn[k]
  BY <1>2, <1>4 DEF RotationInv, RotationTypeOK
<1>7. ASSUME NEW k \in Keys PROVE TurnOK(k)'
  <2>1. CASE k = p
    BY <1>3, <1>6, <2>1 DEF TurnOK
  <2>2. CASE k # p
    BY <1>4, <1>6, <2>2 DEF TurnOK, RotationInv
  <2> QED
    BY <2>1, <2>2
<1> QED
  BY <1>4, <1>5, <1>6, <1>7 DEF RotationInv

LEMMA SwitchKeeps ==
    ASSUME RotationInv, NEW a \in Connections,
           SetStandby(a) \/ \E on \in BOOLEAN : SetActive(a, on)
    PROVE  RotationInv' /\ UNCHANGED turn
<1>1. CASE SetStandby(a)
  <2>1. RotationTypeOK' /\ UNCHANGED <<cursor, tests, turn>>
    BY <1>1 DEF SetStandby, RotationInv, RotationTypeOK
  <2> QED
    BY <2>1, SettingsKeep
<1>2. ASSUME NEW on \in BOOLEAN, SetActive(a, on) PROVE RotationInv' /\ UNCHANGED turn
  <2>1. PICK mark \in {"on", "off", NoMark} : marking' = [marking EXCEPT ![a] = mark]
    BY <1>2 DEF SetActive
  <2>2. edits' \in 0..MaxEdits
    BY <1>2, RotationAssumption DEF SetActive, RotationInv, RotationTypeOK
  <2>3. RotationTypeOK' /\ UNCHANGED <<cursor, tests, turn>>
    BY <1>2, <2>1, <2>2 DEF SetActive, RotationInv, RotationTypeOK
  <2> QED
    BY <2>3, SettingsKeep
<1> QED
  BY <1>1, <1>2

\* Every step: the clients' turns in order, and a new rotation from its first account.
LEMMA RotationStep ==
    ASSUME RotationInv, [RotationNext]_rotationVars
    PROVE  /\ RotationInv'
           /\ \A k \in Keys : tests = 0 /\ NewTurn(k) => InOrder(turn[k], turn'[k])
           /\ \A k \in Keys : turn[k] = NoTurn /\ turn'[k] # NoTurn => turn'[k].acc = turn'[k].list[1]
<1>1. CASE \E q \in Reach : Pick(q)
  BY <1>1, PickKeeps
<1>2. CASE UNCHANGED rotationVars
  <2>1. RotationTypeOK' /\ UNCHANGED <<cursor, tests, turn>>
    BY <1>2 DEF rotationVars, settingsVars, RotationInv, RotationTypeOK
  <2> QED
    BY <2>1, SettingsKeep DEF NewTurn
<1>3. ASSUME RotationInv' /\ \A k \in Keys : turn'[k] = turn[k] \/ turn'[k] = NoTurn
      PROVE  /\ \A k \in Keys : tests = 0 /\ NewTurn(k) => InOrder(turn[k], turn'[k])
             /\ \A k \in Keys : turn[k] = NoTurn /\ turn'[k] # NoTurn => turn'[k].acc = turn'[k].list[1]
  BY <1>3 DEF NewTurn
<1>4. CASE \E a \in Connections : PickPinned(a)
  BY <1>3, <1>4, PinnedKeeps
<1>5. CASE \E e \in Editors, p \in Providers : EditRead(e, p)
  BY <1>3, <1>5, EditReadKeeps
<1>6. CASE \E e \in Editors : EditSave(e)
  BY <1>3, <1>6, EditSaveKeeps
<1>7. CASE \E e \in Editors : EditReset(e)
  BY <1>3, <1>7, EditResetKeeps
<1>8. CASE \E a \in Connections : SetStandby(a) \/ \E on \in BOOLEAN : SetActive(a, on)
  BY <1>3, <1>8, SwitchKeeps
<1> QED
  BY <1>1, <1>2, <1>4, <1>5, <1>6, <1>7, <1>8 DEF RotationNext, Operate

\* What the settings, the cursors and the turns are at every step.
THEOREM RotationInvariant == RotationSpec => []RotationInv
BY StartsOK, RotationStep, PTL DEF RotationSpec

\* While no test is pinned the accounts take turns: nobody is passed over and nobody serves
\* longer than its turn, for any accounts, settings and edits (rotation.go:advance).
THEOREM TurnsAreInOrder == RotationSpec => TurnsInOrder
<1>1. RotationInv /\ [RotationNext]_rotationVars
      => [\A k \in Keys : tests = 0 /\ NewTurn(k) => InOrder(turn[k], turn'[k])]_rotationVars
  BY RotationStep
<1> QED
  BY <1>1, RotationInvariant, PTL DEF RotationSpec, TurnsInOrder

\* A new rotation begins with the first account of its list, whatever tests and requests
\* ran while it was saved (rotation.go:setRotation).
THEOREM StartsWithFirst == RotationSpec => NewRotationStartsFirst
<1>1. RotationInv /\ [RotationNext]_rotationVars
      => [\A k \in Keys : turn[k] = NoTurn /\ turn'[k] # NoTurn
             => turn'[k].acc = turn'[k].list[1]]_rotationVars
  BY RotationStep
<1> QED
  BY <1>1, RotationInvariant, PTL DEF RotationSpec, NewRotationStartsFirst

=============================================================================
