---------------------------- MODULE RequestQueue ----------------------------
(* What the communication queue of a PET promises: the nonblocking calls that *)
(* are outstanding, in the order in which they were made, each with its       *)
(* messages.  A call is over only when MPI is done with all of its messages.  *)
EXTENDS Integers, Sequences

VARIABLES
    calls,   \* the messages of each outstanding call, in order
    active   \* the messages that MPI is not done with

vars == <<calls, active>>

Init == calls = << >> /\ active = {}

StartCall ==
    /\ active \subseteq active'
    /\ calls' = Append(calls, active' \ active)

MessagesDone == active' \subseteq active /\ UNCHANGED calls

FinishCall(k) ==
    /\ calls[k] \cap active = {}
    /\ calls' = [i \in 1 .. Len(calls) - 1 |->
                    IF i < k THEN calls[i] ELSE calls[i + 1]]
    /\ UNCHANGED active

Next == StartCall \/ MessagesDone \/ \E k \in DOMAIN calls : FinishCall(k)

Spec == Init /\ [][Next]_vars
=============================================================================
