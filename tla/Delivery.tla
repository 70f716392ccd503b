------------------------------ MODULE Delivery ------------------------------
(***************************************************************************)
(* What intact promises the caller of a model request (docs/routing.md,     *)
(* "When one account does not answer").                                    *)
(*                                                                         *)
(* A request is refused at once, or it has a number of candidates.  Each    *)
(* may be given up.  The first answer that is the caller's is relayed; one   *)
(* that sends the request elsewhere is relayed only from the last candidate,*)
(* where there is nowhere else.  Every request is answered once.            *)
(***************************************************************************)
EXTENDS Integers

CONSTANTS Requests,    \* client requests
          Answers,     \* what a candidate may answer
          Elsewhere    \* the answers that send a request to another candidate

VARIABLES left,        \* candidates of each open request
          answer       \* what its caller got

deliveryVars == <<left, answer>>

Unplanned == -1
Waiting   == "waiting"
Failed    == "failed"          \* no candidate answered
Refused   == "refused"         \* the request itself is at fault

DeliveryInit ==
    /\ left = [r \in Requests |-> Unplanned]
    /\ answer = [r \in Requests |-> Waiting]

Planned(r) == left[r] # Unplanned

Plan(r, n) ==
    /\ ~Planned(r) /\ answer[r] = Waiting
    /\ n \in Nat \ {0}
    /\ left' = [left EXCEPT ![r] = n]
    /\ UNCHANGED answer

GiveUp(r) ==
    /\ Planned(r) /\ answer[r] = Waiting /\ left[r] # 0
    /\ left' = [left EXCEPT ![r] = @ - 1]
    /\ UNCHANGED answer

Deliver(r, s) ==
    /\ Planned(r) /\ answer[r] = Waiting /\ left[r] # 0
    /\ s \in Elsewhere => left[r] = 1
    /\ answer' = [answer EXCEPT ![r] = s]
    /\ UNCHANGED left

Refuse(r) ==
    /\ answer[r] = Waiting
    /\ answer' = [answer EXCEPT ![r] = Refused]
    /\ UNCHANGED left

Fail(r) ==
    /\ answer[r] = Waiting /\ left[r] = 0
    /\ answer' = [answer EXCEPT ![r] = Failed]
    /\ UNCHANGED left

DeliveryNext ==
    \E r \in Requests :
        \/ Plan(r, left'[r]) \/ GiveUp(r) \/ Refuse(r) \/ Fail(r)
        \/ \E s \in Answers : Deliver(r, s)

\* Once a request has candidates it does not stay without an answer.
DeliverySpec ==
    /\ DeliveryInit /\ [][DeliveryNext]_deliveryVars
    /\ \A r \in Requests : Planned(r) ~> answer[r] # Waiting
=============================================================================
