------------------------- MODULE CollectiveBarrier -------------------------
(***************************************************************************)
(* What VMK::barrier and VMK::threadbarrier promise: no PET leaves its     *)
(* k-th barrier before every PET that takes part in it has entered it, and *)
(* every PET gets through all of them.                                     *)
(***************************************************************************)
EXTENDS Naturals

CONSTANTS
  PETs,        \* the PETs of the VM
  NBarriers,   \* number of barriers each of them calls
  Kinds,       \* kinds of barriers
  Party(_, _)  \* Party(kind, p): the PETs that take part with p in one

VARIABLES
  program,     \* program[k]: the kind of the k-th barrier
  entered,     \* entered[p]: number of barriers p has entered
  left         \* left[p]: number of barriers p has left

vars == <<program, entered, left>>

Init ==
  /\ program \in [1 .. NBarriers -> Kinds]
  /\ entered = [p \in PETs |-> 0]
  /\ left = [p \in PETs |-> 0]

Enter(p) ==
  /\ entered[p] = left[p] /\ entered[p] < NBarriers
  /\ entered' = [entered EXCEPT ![p] = @ + 1]
  /\ UNCHANGED <<program, left>>

Leave(p) ==
  /\ left[p] < entered[p]
  /\ \A q \in Party(program[entered[p]], p) : entered[q] >= entered[p]
  /\ left' = [left EXCEPT ![p] = @ + 1]
  /\ UNCHANGED <<program, entered>>

Next == \E p \in PETs : Enter(p) \/ Leave(p)

Spec == Init /\ [][Next]_vars /\ WF_vars(Next)
=============================================================================
