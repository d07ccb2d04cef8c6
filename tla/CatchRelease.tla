---------------------------- MODULE CatchRelease ----------------------------
(***************************************************************************)
(* What the catch/release loop of the VMKernel promises to a PET that runs *)
(* its child PETs in threads of their own: a release with an argument      *)
(* makes the child call back into user code exactly once, with that        *)
(* argument, a catch returns when that callback is over, and a join        *)
(* returns when the thread is gone.                                        *)
(***************************************************************************)
EXTENDS Naturals, Sequences

CONSTANTS
  Children,  \* the child PETs of one spawning PET
  MaxRounds  \* bound on the number of releases of a child

VARIABLES
  phase,     \* phase[c]: where child c is in its life
  arg,       \* arg[c]: the argument of its last release
  calls      \* calls[c]: the arguments of its callbacks, in order

vars == <<phase, arg, calls>>

Phases == {"none", "caught", "released", "ran", "joined"}

Init ==
  /\ phase = [c \in Children |-> "none"]
  /\ arg = [c \in Children |-> 0]
  /\ calls = [c \in Children |-> <<>>]

Move(c, from, to) == phase[c] = from /\ phase' = [phase EXCEPT ![c] = to]

Create(c) == Move(c, "none", "caught") /\ UNCHANGED <<arg, calls>>

Release(c) ==
  /\ Move(c, "caught", "released")
  /\ arg[c] < MaxRounds
  /\ arg' = [arg EXCEPT ![c] = @ + 1]
  /\ UNCHANGED calls

CallBack(c) ==
  /\ Move(c, "released", "ran")
  /\ calls' = [calls EXCEPT ![c] = Append(@, arg[c])]
  /\ UNCHANGED arg

Catch(c) == Move(c, "ran", "caught") /\ UNCHANGED <<arg, calls>>

Join(c) == Move(c, "caught", "joined") /\ UNCHANGED <<arg, calls>>

Next == \E c \in Children :
  Create(c) \/ Release(c) \/ CallBack(c) \/ Catch(c) \/ Join(c)

\* A released child calls back, and what has been created is joined in the end.
Spec == Init /\ [][Next]_vars /\ WF_vars(Next)
=============================================================================
