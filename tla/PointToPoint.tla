---------------------------- MODULE PointToPoint ----------------------------
(***************************************************************************)
(* What the blocking VMK::send and VMK::recv promise to two PETs that run  *)
(* the same communication program, whatever kind of channel joins them:    *)
(* the k-th receive returns the k-th message, and an operation that is     *)
(* synchronous does not return to either PET before the other called it.   *)
(***************************************************************************)
EXTENDS Naturals

CONSTANTS
  Msgs,      \* the operations of the program are numbered 1, 2, ..., in Msgs
  Carries,   \* Carries[kind]: an operation of that kind carries data
  Rendezvous \* Rendezvous[kind]: its sender waits for its receiver

VARIABLES
  program,   \* program[k]: the kind of the k-th operation
  sent,      \* number of operations the sending PET has returned from
  inSend,    \* the sending PET is inside operation sent + 1
  rcvd,      \* number of operations the receiving PET has returned from
  inRecv,    \* the receiving PET is inside operation rcvd + 1
  result     \* result[k]: the message the receiver holds after operation k

vars == <<program, sent, inSend, rcvd, inRecv, result>>

Init ==
  /\ program \in [Msgs -> DOMAIN Carries]
  /\ sent = 0 /\ ~inSend
  /\ rcvd = 0 /\ ~inRecv
  /\ result = [k \in Msgs |-> 0]

SendCalled(k) == sent >= k \/ (inSend /\ sent + 1 = k)
RecvCalled(k) == rcvd >= k \/ (inRecv /\ rcvd + 1 = k)

SendCall ==
  /\ ~inSend /\ sent + 1 \in Msgs
  /\ inSend' = TRUE
  /\ UNCHANGED <<program, sent, rcvd, inRecv, result>>

SendReturn ==
  /\ inSend
  /\ Rendezvous[program[sent + 1]] => RecvCalled(sent + 1)
  /\ inSend' = FALSE
  /\ sent' = sent + 1
  /\ UNCHANGED <<program, rcvd, inRecv, result>>

RecvCall ==
  /\ ~inRecv /\ rcvd + 1 \in Msgs
  /\ inRecv' = TRUE
  /\ UNCHANGED <<program, sent, inSend, rcvd, result>>

RecvReturn ==
  /\ inRecv
  /\ SendCalled(rcvd + 1)
  /\ inRecv' = FALSE
  /\ rcvd' = rcvd + 1
  /\ result' = IF Carries[program[rcvd + 1]]
                 THEN [result EXCEPT ![rcvd + 1] = rcvd + 1]
                 ELSE result
  /\ UNCHANGED <<program, sent, inSend>>

Next == SendCall \/ SendReturn \/ RecvCall \/ RecvReturn

\* Both PETs get through the whole program.
Spec == Init /\ [][Next]_vars /\ WF_vars(Next)
=============================================================================
