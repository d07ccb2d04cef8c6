----------------------------- MODULE VMBarrier -----------------------------
(***************************************************************************)
(* VMK::barrier and VMK::threadbarrier (ESMCI_VMKernel.C) of a VM whose    *)
(* PETs are threads of several processes.  The zero thread of a process is *)
(* its master: it flips with every other thread of the process in turn,    *)
(* meets the other masters in MPI_Barrier, and flops with every thread.    *)
(* The flags are those of the shared memory channel from the master to the *)
(* thread (see ShmSync).                                                   *)
(*                                                                         *)
(* All PETs run the same program of barriers.                              *)
(***************************************************************************)
EXTENDS ShmSync

CONSTANTS
  Pids,      \* the processes (VASs) of the VM
  NThreads,  \* NThreads[p]: number of PETs of process p
  NBarriers  \* length of the program

ASSUME ConstantsAssumption ==
  NThreads \in [Pids -> Nat \ {0}] /\ NBarriers \in Nat

\* A PET is a process and a thread number; tid 0 is the master.
PETs == UNION {{<<p, t>> : t \in 0 .. NThreads[p] - 1} : p \in Pids}
pid(pet) == pet[1]
tid(pet) == pet[2]
Masters == {pet \in PETs : tid(pet) = 0}
Threads == PETs \ Masters

Kinds == {"barrier", "threadbarrier"}

VARIABLES
  program,   \* program[k]: "barrier" or "threadbarrier"
  shms,      \* shms[t]: the shmsync of the channel from t's master to t
  pc,        \* pc[pet]: where the PET is
  at,        \* at[m]: the thread number at which a loop of master m stands
  round,     \* round[pet]: the barrier it is in, or calls next
  mpi        \* mpi[m]: the last round for which m called MPI_Barrier

vars == <<program, shms, pc, at, round, mpi>>

Init ==
  /\ program \in [1 .. NBarriers -> Kinds]
  /\ shms = [t \in Threads |-> SyncReset]
  /\ pc = [pet \in PETs |-> "out"]
  /\ at = [m \in Masters |-> 1]
  /\ round = [pet \in PETs |-> 1]
  /\ mpi = [m \in Masters |-> 0]

-----------------------------------------------------------------------------
Goto(pet, label) == pc' = [pc EXCEPT ![pet] = label]

Call(pet) ==
  /\ pc[pet] = "out" /\ round[pet] <= NBarriers
  /\ Goto(pet, "flip")
  /\ at' = IF pet \in Masters THEN [at EXCEPT ![pet] = 1] ELSE at
  /\ UNCHANGED <<program, shms, round, mpi>>

\* The thread at which a loop of master m stands, if the loop is not over.
Partner(m) == <<pid(m), at[m]>>
InLoop(m, label) == pc[m] = label /\ Partner(m) \in Threads
LoopOver(m, label) == pc[m] = label /\ Partner(m) \notin Threads

\* Mutants of the operators below.
AdvanceTwo(m) == at' = [at EXCEPT ![m] = @ + 2]
NeverAcross(m) == FALSE

\* The next iteration of the loop.
Advance(m) == at' = [at EXCEPT ![m] = @ + 1]

\* sync_a_flip with the next thread, then sync_a_flop with the next thread.
MasterFlip(m) ==
  /\ InLoop(m, "flip")
  /\ shms' = [shms EXCEPT ![Partner(m)] = FlipStore(@, "a")]
  /\ Goto(m, "flipWait")
  /\ UNCHANGED <<program, at, round, mpi>>

MasterFlipWait(m) ==
  /\ pc[m] = "flipWait" /\ FlipPassed(shms[Partner(m)], "a")
  /\ Goto(m, "flip")
  /\ Advance(m)
  /\ UNCHANGED <<program, shms, round, mpi>>

MasterFlop(m) ==
  /\ InLoop(m, "flop")
  /\ shms' = [shms EXCEPT ![Partner(m)] = FlopStore(@, "a")]
  /\ Goto(m, "flopWait")
  /\ UNCHANGED <<program, at, round, mpi>>

MasterFlopWait(m) ==
  /\ pc[m] = "flopWait" /\ FlopPassed(shms[Partner(m)], "a")
  /\ Goto(m, "flop")
  /\ Advance(m)
  /\ UNCHANGED <<program, shms, round, mpi>>

\* VMK::barrier extends over all processes, VMK::threadbarrier does not.
AcrossProcesses(m) == program[round[m]] = "barrier"

\* Between the loops: MPI_Barrier with the other masters, in VMK::barrier only.
AllFlipped(m) ==
  /\ LoopOver(m, "flip")
  /\ at' = [at EXCEPT ![m] = 1]
  /\ IF AcrossProcesses(m)
       THEN Goto(m, "mpi") /\ mpi' = [mpi EXCEPT ![m] = round[m]]
       ELSE Goto(m, "flop") /\ UNCHANGED mpi
  /\ UNCHANGED <<program, shms, round>>

MPIBarrier(m) ==
  /\ pc[m] = "mpi"
  /\ \A n \in Masters : mpi[n] >= round[m]
  /\ Goto(m, "flop")
  /\ UNCHANGED <<program, shms, at, round, mpi>>

MasterReturn(m) ==
  /\ LoopOver(m, "flop")
  /\ Goto(m, "out")
  /\ round' = [round EXCEPT ![m] = @ + 1]
  /\ UNCHANGED <<program, shms, at, mpi>>

-----------------------------------------------------------------------------
\* sync_b_flip and sync_b_flop of another thread with its master.
ThreadFlip(t) ==
  /\ pc[t] = "flip"
  /\ shms' = [shms EXCEPT ![t] = FlipStore(@, "b")]
  /\ Goto(t, "flipWait")
  /\ UNCHANGED <<program, at, round, mpi>>

ThreadFlipWait(t) ==
  /\ pc[t] = "flipWait" /\ FlipPassed(shms[t], "b")
  /\ Goto(t, "flop")
  /\ UNCHANGED <<program, shms, at, round, mpi>>

ThreadFlop(t) ==
  /\ pc[t] = "flop"
  /\ shms' = [shms EXCEPT ![t] = FlopStore(@, "b")]
  /\ Goto(t, "flopWait")
  /\ UNCHANGED <<program, at, round, mpi>>

ThreadReturn(t) ==
  /\ pc[t] = "flopWait" /\ FlopPassed(shms[t], "b")
  /\ Goto(t, "out")
  /\ round' = [round EXCEPT ![t] = @ + 1]
  /\ UNCHANGED <<program, shms, at, mpi>>

-----------------------------------------------------------------------------
MasterNext(m) ==
  \/ Call(m) \/ MasterFlip(m) \/ MasterFlipWait(m) \/ AllFlipped(m)
  \/ MPIBarrier(m) \/ MasterFlop(m) \/ MasterFlopWait(m) \/ MasterReturn(m)

ThreadNext(t) ==
  Call(t) \/ ThreadFlip(t) \/ ThreadFlipWait(t) \/ ThreadFlop(t) \/ ThreadReturn(t)

Finished == (\A pet \in PETs : round[pet] > NBarriers) /\ UNCHANGED vars

Next ==
  \/ \E m \in Masters : MasterNext(m)
  \/ \E t \in Threads : ThreadNext(t)
  \/ Finished

\* Every PET is a process or thread the operating system keeps scheduling.
Fairness ==
  /\ \A m \in Masters : WF_vars(MasterNext(m))
  /\ \A t \in Threads : WF_vars(ThreadNext(t))

Spec == Init /\ [][Next]_vars /\ Fairness

-----------------------------------------------------------------------------
\* Every variable holds a value the code could give it.
TypeOK ==
  /\ program \in [1 .. NBarriers -> Kinds]
  /\ shms \in [Threads -> ShmSyncs]
  /\ pc \in [PETs -> {"out", "flip", "flipWait", "mpi", "flop", "flopWait"}]
  /\ at \in [Masters -> Nat \ {0}]
  /\ \A m \in Masters : at[m] <= NThreads[pid(m)]
  /\ round \in [PETs -> 1 .. NBarriers + 1]
  /\ mpi \in [Masters -> 0 .. NBarriers]

\* A PET that is outside has its own flag down on every channel to its peers:
\* the peer has taken the announcement back, so that a stale flag can release
\* neither the next flip nor the next large message on that channel.
FlagsReset ==
  \A t \in Threads :
    /\ pc[t] = "out" => shms[t].done["b"] = 0
    /\ pc[<<pid(t), 0>>] = "out" => shms[t].done["a"] = 0

\* Who takes part in a barrier with PET p.
Party(kind, p) ==
  IF kind = "barrier" THEN PETs ELSE {q \in PETs : pid(q) = pid(p)}

Barrier == INSTANCE CollectiveBarrier WITH
  entered <- [p \in PETs |-> IF pc[p] = "out" THEN round[p] - 1 ELSE round[p]],
  left <- [p \in PETs |-> round[p] - 1]

\* The flip and flop of the threads under their masters is a barrier: no PET
\* leaves before every PET that takes part has entered, and all get through.
Implements == Barrier!Spec
=============================================================================
