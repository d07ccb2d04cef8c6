-------------------------- MODULE VMBarrierProofs --------------------------
(* Theorems about VMBarrier for any number of processes, threads and          *)
(* barriers: the inductive invariant IInv, that the flags of the channels are  *)
(* reset, and that no PET leaves a barrier before all who take part are in it. *)
EXTENDS VMBarrier, Integers, TLAPS

Master(t) == <<pid(t), 0>>

\* How far the master of thread t is with it in the barrier it is in: it has
\* announced itself, seen the thread, taken back the thread's flag, and seen its
\* own taken back.
Flipped(t) ==
  LET m == Master(t)
  IN  \/ pc[m] \in {"mpi", "flop", "flopWait"}
      \/ pc[m] = "flipWait" /\ at[m] >= tid(t)
      \/ pc[m] = "flip" /\ at[m] > tid(t)
Seen(t) ==
  LET m == Master(t)
  IN  \/ pc[m] \in {"mpi", "flop", "flopWait"}
      \/ pc[m] \in {"flip", "flipWait"} /\ at[m] > tid(t)
Flopped(t) ==
  LET m == Master(t)
  IN  \/ pc[m] = "flopWait" /\ at[m] >= tid(t)
      \/ pc[m] = "flop" /\ at[m] > tid(t)
Over(t) ==
  LET m == Master(t)
  IN  pc[m] \in {"flop", "flopWait"} /\ at[m] > tid(t)

\* The number of flips and flops that the master made with thread t, and the
\* thread with its master, in all barriers so far.
Made(r, thisOne) == IF thisOne THEN r ELSE r - 1
MasterFlips(t) == Made(round[Master(t)], Flipped(t))
MasterFlops(t) == Made(round[Master(t)], Flopped(t))
ThreadFlips(t) == Made(round[t], pc[t] \in {"flipWait", "flop", "flopWait"})
ThreadFlops(t) == Made(round[t], pc[t] = "flopWait")

\* A flag is up from a flip of its owner to the flop of the peer, and neither
\* side passes its wait before the other has made its part.
Pair(t) ==
  /\ shms[t].done["a"] = MasterFlips(t) - ThreadFlops(t)
  /\ shms[t].done["b"] = ThreadFlips(t) - MasterFlops(t)
  /\ Seen(t) => ThreadFlips(t) >= round[Master(t)]
  /\ pc[t] \in {"flop", "flopWait"} => MasterFlips(t) >= round[t]
  /\ ThreadFlops(t) >= Made(round[Master(t)], Over(t))
  /\ MasterFlops(t) >= round[t] - 1

Pairs == \A t \in Threads : Pair(t)

\* Who is inside is in one of the barriers of the program; only masters call MPI,
\* between their loops, and a master that waits waits for one of its threads.
Inside ==
  /\ \A pet \in PETs : pc[pet] # "out" => round[pet] <= NBarriers
  /\ \A t \in Threads : pc[t] # "mpi"
  /\ \A m \in Masters :
       /\ pc[m] = "mpi" => mpi[m] = round[m] /\ at[m] = 1
       /\ pc[m] \in {"flipWait", "flopWait"} => at[m] < NThreads[pid(m)]

\* A master calls MPI_Barrier after its flips, and comes back from it after all
\* masters have called it.
Met ==
  /\ \A m \in Masters :
       /\ mpi[m] <= round[m]
       /\ mpi[m] = round[m] => pc[m] \in {"mpi", "flop", "flopWait"}
  /\ \A m, n \in Masters : \A k \in 1 .. NBarriers :
       /\ program[k] = "barrier"
       /\ k < round[m] \/ (k = round[m] /\ pc[m] \in {"flop", "flopWait"})
       => mpi[n] >= k

IInv == TypeOK /\ Inside /\ Pairs /\ Met
-----------------------------------------------------------------------------
\* Masters and threads as pairs of a process and a thread number.
LEMMA Pets ==
  /\ \A pet \in PETs : /\ pid(pet) \in Pids
                       /\ NThreads[pid(pet)] \in Nat \ {0}
                       /\ tid(pet) \in 0 .. NThreads[pid(pet)] - 1
                       /\ pet = <<pid(pet), tid(pet)>>
  /\ \A p \in Pids : \A i \in Nat : <<p, i>> \in PETs <=> i < NThreads[p]
<1>1. ASSUME NEW pet \in PETs
      PROVE  /\ pid(pet) \in Pids
             /\ NThreads[pid(pet)] \in Nat \ {0}
             /\ tid(pet) \in 0 .. NThreads[pid(pet)] - 1
             /\ pet = <<pid(pet), tid(pet)>>
  <2>0. PICK p \in Pids : \E i \in 0 .. NThreads[p] - 1 : pet = <<p, i>>
    BY DEF PETs
  <2>1. PICK i \in 0 .. NThreads[p] - 1 : pet = <<p, i>>
    BY <2>0
  <2>2. pid(pet) = p /\ tid(pet) = i
    BY <2>1 DEF pid, tid
  <2> QED
    BY <2>1, <2>2, ConstantsAssumption
<1>2. ASSUME NEW p \in Pids, NEW i \in Nat
      PROVE  <<p, i>> \in PETs <=> i < NThreads[p]
  <2>1. NThreads[p] \in Nat \ {0}
    BY ConstantsAssumption
  <2>2. <<p, i>> \in PETs => i < NThreads[p]
    <3> SUFFICES ASSUME <<p, i>> \in PETs PROVE i < NThreads[p]
      OBVIOUS
    <3>0. PICK q \in Pids : \E j \in 0 .. NThreads[q] - 1 : <<p, i>> = <<q, j>>
      BY DEF PETs
    <3>1. PICK j \in 0 .. NThreads[q] - 1 : <<p, i>> = <<q, j>>
      BY <3>0
    <3>2. p = q /\ i = j
      BY <3>1
    <3> QED
      BY <2>1, <3>2
  <2>3. i < NThreads[p] => <<p, i>> \in PETs
    <3> SUFFICES ASSUME i < NThreads[p] PROVE <<p, i>> \in PETs
      OBVIOUS
    <3>1. i \in 0 .. NThreads[p] - 1
      BY <2>1
    <3> QED
      BY <3>1 DEF PETs
  <2> QED
    BY <2>2, <2>3
<1> QED
  BY <1>1, <1>2

\* Masters are the zero threads; each thread has the master of its process.
LEMMA MastersAndThreads ==
  /\ \A m \in Masters : /\ m \in PETs /\ m \notin Threads
                        /\ m = <<pid(m), 0>>
                        /\ NThreads[pid(m)] \in Nat \ {0}
  /\ \A t \in Threads : /\ t \in PETs /\ t \notin Masters
                        /\ Master(t) \in Masters
                        /\ tid(t) \in Nat \ {0} /\ tid(t) < NThreads[pid(Master(t))]
                        /\ t = <<pid(Master(t)), tid(t)>>
                        /\ pid(Master(t)) = pid(t)
  /\ \A m \in Masters : \A i \in Nat \ {0} :
       LET t == <<pid(m), i>>
       IN  /\ t \in Threads <=> i < NThreads[pid(m)]
           /\ tid(t) = i /\ Master(t) = m
<1>1. \A p : \A i : pid(<<p, i>>) = p /\ tid(<<p, i>>) = i
  BY DEF pid, tid
<1>2. ASSUME NEW m \in Masters
      PROVE  /\ m \in PETs /\ m \notin Threads /\ m = <<pid(m), 0>>
             /\ NThreads[pid(m)] \in Nat \ {0} /\ pid(m) \in Pids
  BY Pets DEF Masters, Threads
<1>3. ASSUME NEW t \in Threads
      PROVE  /\ t \in PETs /\ t \notin Masters
             /\ Master(t) \in Masters
             /\ tid(t) \in Nat \ {0} /\ tid(t) < NThreads[pid(Master(t))]
             /\ t = <<pid(Master(t)), tid(t)>>
             /\ pid(Master(t)) = pid(t)
  <2>1. t \in PETs /\ tid(t) # 0 /\ t \notin Masters
    BY DEF Threads, Masters
  <2>2. /\ pid(t) \in Pids /\ tid(t) \in 0 .. NThreads[pid(t)] - 1
        /\ t = <<pid(t), tid(t)>>
        /\ NThreads[pid(t)] \in Nat \ {0}
    BY <2>1, Pets
  <2>3. <<pid(t), 0>> \in PETs
    BY <2>2, Pets
  <2>4. pid(Master(t)) = pid(t) /\ tid(Master(t)) = 0
    BY <1>1 DEF Master
  <2> QED
    BY <2>1, <2>2, <2>3, <2>4 DEF Master, Masters
<1>4. ASSUME NEW m \in Masters, NEW i \in Nat \ {0}
      PROVE  LET t == <<pid(m), i>>
             IN  /\ t \in Threads <=> i < NThreads[pid(m)]
                 /\ tid(t) = i /\ Master(t) = m
  <2>1. <<pid(m), i>> \in PETs <=> i < NThreads[pid(m)]
    BY <1>2, Pets
  <2>2. tid(<<pid(m), i>>) = i /\ pid(<<pid(m), i>>) = pid(m)
    BY <1>1
  <2> QED
    BY <1>2, <2>1, <2>2 DEF Threads, Master
<1> QED
  BY <1>2, <1>3, <1>4

\* What the stores do to the two flags of a channel, and what the waits see.
LEMMA Flags ==
  ASSUME NEW x \in ShmSyncs
  PROVE  /\ x.done["a"] \in {0, 1} /\ x.done["b"] \in {0, 1}
         /\ FlipStore(x, "a") \in ShmSyncs /\ FlopStore(x, "a") \in ShmSyncs
         /\ FlipStore(x, "b") \in ShmSyncs /\ FlopStore(x, "b") \in ShmSyncs
         /\ FlipStore(x, "a").done["a"] = 1 /\ FlipStore(x, "a").done["b"] = x.done["b"]
         /\ FlipStore(x, "b").done["b"] = 1 /\ FlipStore(x, "b").done["a"] = x.done["a"]
         /\ FlopStore(x, "a").done["b"] = 0 /\ FlopStore(x, "a").done["a"] = x.done["a"]
         /\ FlopStore(x, "b").done["a"] = 0 /\ FlopStore(x, "b").done["b"] = x.done["b"]
         /\ FlipPassed(x, "a") <=> x.done["b"] = 1
         /\ FlipPassed(x, "b") <=> x.done["a"] = 1
         /\ FlopPassed(x, "a") <=> x.done["a"] = 0
         /\ FlopPassed(x, "b") <=> x.done["b"] = 0
BY DEF ShmSyncs, Ends, FlipStore, FlopStore, FlipPassed, FlopPassed, Peer

\* A thread and its master that stand still keep what relates them.
LEMMA StandStill ==
  ASSUME NEW t \in Threads, Pair(t),
         shms'[t] = shms[t], pc'[t] = pc[t], round'[t] = round[t],
         pc'[Master(t)] = pc[Master(t)], at'[Master(t)] = at[Master(t)],
         round'[Master(t)] = round[Master(t)]
  PROVE  Pair(t)'
BY DEF Pair, MasterFlips, MasterFlops, ThreadFlips, ThreadFlops, Flipped, Seen,
       Flopped, Over

\* The types of what belongs to a master, and to a thread and its master.
LEMMA MasterTypes ==
  ASSUME TypeOK, NEW m \in Masters
  PROVE  /\ m \in PETs /\ m \notin Threads
         /\ round[m] \in 1 .. NBarriers + 1 /\ at[m] \in Nat \ {0}
         /\ mpi[m] \in 0 .. NBarriers
         /\ Partner(m) \in Threads <=> at[m] < NThreads[pid(m)]
         /\ at[m] <= NThreads[pid(m)] /\ NThreads[pid(m)] \in Nat \ {0}
         /\ at[m] < NThreads[pid(m)] => tid(Partner(m)) = at[m] /\ Master(Partner(m)) = m
BY MastersAndThreads DEF TypeOK, Partner

\* ... of a thread and its master.
LEMMA ThreadTypes ==
  ASSUME TypeOK, NEW t \in Threads
  PROVE  /\ t \in PETs /\ t \notin Masters
         /\ Master(t) \in Masters /\ Master(t) \in PETs /\ Master(t) # t
         /\ tid(t) \in Nat \ {0} /\ tid(t) < NThreads[pid(Master(t))]
         /\ round[t] \in 1 .. NBarriers + 1 /\ round[Master(t)] \in 1 .. NBarriers + 1
         /\ at[Master(t)] \in Nat \ {0}
         /\ shms[t] \in ShmSyncs
         /\ tid(t) = at[Master(t)] => t = Partner(Master(t))
BY MastersAndThreads DEF TypeOK, Partner

\* All flags are down and nobody is in a barrier at the start.
LEMMA InitInvariant == Init => IInv
<1> SUFFICES ASSUME Init PROVE IInv
  OBVIOUS
<1> USE ConstantsAssumption
<1>1. TypeOK
  <2>1. SyncReset \in ShmSyncs
    BY DEF SyncReset, ShmSyncs
  <2>2. \A m \in Masters : NThreads[pid(m)] \in Nat \ {0}
    BY MastersAndThreads
  <2> QED
    BY <2>1, <2>2 DEF Init, TypeOK
<1>2. Inside
  BY MastersAndThreads DEF Init, Inside
<1>3. Pairs
  <2> SUFFICES ASSUME NEW t \in Threads PROVE Pair(t)
    BY DEF Pairs
  <2>1. shms[t].done["a"] = 0 /\ shms[t].done["b"] = 0
    BY DEF Init, SyncReset, Ends
  <2> QED
    BY <1>1, <2>1, ThreadTypes
       DEF Init, Pair, Made, MasterFlips, MasterFlops, ThreadFlips, ThreadFlops,
           Flipped, Seen, Flopped, Over
<1>4. Met
  BY MastersAndThreads DEF Init, Met
<1> QED
  BY <1>1, <1>2, <1>3, <1>4 DEF IInv

\* A master enters a barrier.
LEMMA CallMasterKeeps == ASSUME IInv, NEW m \in Masters, Call(m) PROVE IInv'
<1> USE ConstantsAssumption DEF IInv
<1>1. TypeOK'
  BY MasterTypes DEF Call, Goto, TypeOK
<1>2. Inside'
  BY DEF Call, Goto, Inside
<1>3. Pairs'
  <2> SUFFICES ASSUME NEW t \in Threads PROVE Pair(t)'
    BY DEF Pairs
  <2>1. Pair(t)
    BY DEF Pairs
  <2>2. CASE ~ (Master(t) = m)
    BY <2>1, <2>2, MasterTypes, StandStill DEF Call, Goto
  <2>3. CASE Master(t) = m /\ tid(t) # at[m]
    BY <2>1, <2>3, ThreadTypes, MasterTypes, Flags
       DEF Call, Goto, TypeOK, Pair, Made, MasterFlips, MasterFlops, ThreadFlips,
           ThreadFlops, Flipped, Seen, Flopped, Over
  <2>4. CASE Master(t) = m /\ tid(t) = at[m]
    BY <2>1, <2>4
       DEF Call, Goto, TypeOK, Pair, Made, MasterFlips, MasterFlops, ThreadFlips,
           ThreadFlops, Flipped, Seen, Flopped, Over
  <2> QED
    BY <2>2, <2>3, <2>4
<1>4. Met'
  BY DEF Call, Goto, Met
<1> QED
  BY <1>1, <1>2, <1>3, <1>4

\* It raises its flag for the next of its threads ...
LEMMA MasterFlipKeeps == ASSUME IInv, NEW m \in Masters, MasterFlip(m) PROVE IInv'
<1> USE ConstantsAssumption DEF IInv
<1>1. TypeOK'
  BY Flags DEF MasterFlip, Goto, TypeOK
<1>2. Inside'
  BY MasterTypes DEF MasterFlip, Goto, InLoop, Inside
<1>3. Pairs'
  <2> SUFFICES ASSUME NEW t \in Threads PROVE Pair(t)'
    BY DEF Pairs
  <2>1. Pair(t)
    BY DEF Pairs
  <2>2. CASE ~ (Master(t) = m)
    BY <2>1, <2>2, ThreadTypes, MasterTypes, StandStill DEF MasterFlip, Goto
  <2>3. CASE Master(t) = m /\ tid(t) # at[m]
    BY <2>1, <2>3, ThreadTypes, MasterTypes, Flags
       DEF MasterFlip, Goto, InLoop, Pair, Made, MasterFlips, MasterFlops,
           ThreadFlips, ThreadFlops, Flipped, Seen, Flopped, Over
  <2>4. CASE Master(t) = m /\ tid(t) = at[m]
    BY <2>1, <2>4, ThreadTypes, Flags
       DEF MasterFlip, Goto, InLoop, TypeOK, Pair, Made, MasterFlips, MasterFlops,
           ThreadFlips, ThreadFlops, Flipped, Seen, Flopped, Over
  <2> QED
    BY <2>2, <2>3, <2>4
<1>4. Met'
  BY DEF MasterFlip, Goto, InLoop, Met
<1> QED
  BY <1>1, <1>2, <1>3, <1>4

\* ... and has seen the flag of that thread.
LEMMA MasterFlipWaitKeeps ==
  ASSUME IInv, NEW m \in Masters, MasterFlipWait(m)
  PROVE  IInv'
<1> USE ConstantsAssumption DEF IInv
<1>1. TypeOK'
  BY MasterTypes DEF MasterFlipWait, Goto, Advance, TypeOK, Inside
<1>2. Inside'
  BY MastersAndThreads DEF MasterFlipWait, Goto, Advance, Inside, TypeOK
<1>3. Pairs'
  <2> SUFFICES ASSUME NEW t \in Threads PROVE Pair(t)'
    BY DEF Pairs
  <2>1. Pair(t)
    BY DEF Pairs
  <2>2. CASE ~ (Master(t) = m)
    BY <2>1, <2>2, MasterTypes, StandStill DEF MasterFlipWait, Goto, Advance
  <2>3. CASE Master(t) = m /\ tid(t) # at[m]
    <3>1. t \in PETs /\ t \notin Masters /\ Master(t) # t /\ Master(t) \in Masters
          /\ round[t] \in Nat /\ round[m] \in Nat /\ at[m] \in Nat /\ tid(t) \in Nat
      BY ThreadTypes, MasterTypes
    <3>2. /\ pc[m] = "flipWait" /\ pc'[m] = "flip" /\ at'[m] = at[m] + 1
          /\ round'[m] = round[m]
          /\ shms'[t] = shms[t] /\ pc'[t] = pc[t] /\ round'[t] = round[t]
      BY <2>3, <3>1, MasterTypes DEF MasterFlipWait, Goto, Advance, TypeOK
    <3> QED
      BY <2>1, <2>3, <3>1, <3>2
         DEF Pair, Made, MasterFlips, MasterFlops, ThreadFlips, ThreadFlops,
             Flipped, Seen, Flopped, Over, Master
  <2>4. CASE Master(t) = m /\ tid(t) = at[m]
    <3>1. t \in PETs /\ t \notin Masters /\ Master(t) # t /\ Master(t) \in Masters
          /\ round[t] \in Nat /\ round[m] \in Nat /\ at[m] \in Nat /\ tid(t) \in Nat
          /\ shms[t].done["a"] \in {0, 1} /\ shms[t].done["b"] \in {0, 1}
      BY ThreadTypes, MasterTypes, Flags
    <3>2. pc[m] = "flipWait" /\ shms[t].done["b"] = 1
      BY <2>4, ThreadTypes, Flags DEF MasterFlipWait
    <3>3. /\ pc'[m] = "flip" /\ at'[m] = at[m] + 1 /\ round'[m] = round[m]
          /\ shms'[t] = shms[t] /\ pc'[t] = pc[t] /\ round'[t] = round[t]
      BY MasterTypes DEF MasterFlipWait, Goto, Advance, TypeOK
    <3> QED
      BY <2>1, <2>4, <3>1, <3>2, <3>3
         DEF Pair, Made, MasterFlips, MasterFlops, ThreadFlips, ThreadFlops,
             Flipped, Flopped, Over
  <2> QED
    BY <2>2, <2>3, <2>4
<1>4. Met'
  BY DEF MasterFlipWait, Goto, Met
<1> QED
  BY <1>1, <1>2, <1>3, <1>4

\* It has met all its threads, and calls MPI_Barrier if the others take part.
LEMMA AllFlippedKeeps == ASSUME IInv, NEW m \in Masters, AllFlipped(m) PROVE IInv'
<1> USE ConstantsAssumption DEF IInv
<1>1. TypeOK'
  <2>1. /\ m \in PETs /\ round[m] \in 0 .. NBarriers /\ 1 <= NThreads[pid(m)]
        /\ \A n \in Masters : at'[n] \in Nat \ {0} /\ at'[n] <= NThreads[pid(n)]
    BY MasterTypes DEF AllFlipped, LoopOver, Inside
  <2>2. CASE AcrossProcesses(m)
    BY <2>1 DEF AllFlipped, Goto, TypeOK
  <2>3. CASE ~ AcrossProcesses(m)
    BY <2>1 DEF AllFlipped, Goto, TypeOK
  <2> QED
    BY <2>2, <2>3
<1>2. Inside'
  BY MastersAndThreads DEF AllFlipped, Goto, LoopOver, Inside, TypeOK
<1>3. Pairs'
  <2> SUFFICES ASSUME NEW t \in Threads PROVE Pair(t)'
    BY DEF Pairs
  <2>1. Pair(t)
    BY DEF Pairs
  <2>2. CASE ~ (Master(t) = m)
    BY <2>1, <2>2, ThreadTypes, StandStill DEF AllFlipped, Goto, TypeOK
  <2>3. CASE Master(t) = m /\ tid(t) # at[m]
    <3>1. t \in PETs /\ t \notin Masters /\ Master(t) # t /\ Master(t) \in Masters
          /\ round[t] \in Nat /\ round[m] \in Nat /\ at[m] \in Nat /\ tid(t) \in Nat
          /\ shms[t].done["a"] \in {0, 1} /\ shms[t].done["b"] \in {0, 1}
      BY ThreadTypes, MasterTypes, Flags
    <3>2. pc[m] = "flip" /\ at[m] > tid(t) /\ tid(t) >= 1
      BY <2>3, ThreadTypes, MasterTypes DEF AllFlipped, LoopOver
    <3>3. /\ pc'[m] \in {"mpi", "flop"} /\ at'[m] = 1 /\ round'[m] = round[m]
          /\ shms'[t] = shms[t] /\ pc'[t] = pc[t] /\ round'[t] = round[t]
      BY <3>1, MasterTypes DEF AllFlipped, Goto, TypeOK
    <3> QED
      BY <2>1, <2>3, <3>1, <3>2, <3>3
         DEF Pair, Made, MasterFlips, MasterFlops, ThreadFlips, ThreadFlops,
             Flipped, Seen, Flopped, Over
  <2>4. CASE Master(t) = m /\ tid(t) = at[m]
    BY <2>4, ThreadTypes DEF AllFlipped, LoopOver
  <2> QED
    BY <2>2, <2>3, <2>4
<1>4. Met'
  <2>1. /\ m \in PETs /\ m \notin Threads /\ round[m] \in 1 .. NBarriers
        /\ mpi[m] <= round[m]
        /\ pc[m] = "flip" /\ round' = round /\ \A n \in Masters : mpi[n] \in Nat /\ n \in PETs
    BY MasterTypes DEF AllFlipped, LoopOver, Inside, Met
  <2>2. CASE AcrossProcesses(m)
    <3>1. /\ pc' = [pc EXCEPT ![m] = "mpi"] /\ mpi' = [mpi EXCEPT ![m] = round[m]]
          /\ program' = program
      BY <2>2 DEF AllFlipped, Goto
    <3> QED
      BY <2>1, <3>1 DEF Met, TypeOK
  <2>3. CASE ~ AcrossProcesses(m)
    <3>1. /\ pc' = [pc EXCEPT ![m] = "flop"] /\ mpi' = mpi /\ program' = program
          /\ program[round[m]] # "barrier"
      BY <2>3 DEF AllFlipped, Goto, AcrossProcesses
    <3> QED
      BY <2>1, <3>1 DEF Met
  <2> QED
    BY <2>2, <2>3
<1> QED
  BY <1>1, <1>2, <1>3, <1>4

\* MPI_Barrier returns.
LEMMA MPIBarrierKeeps == ASSUME IInv, NEW m \in Masters, MPIBarrier(m) PROVE IInv'
<1> USE ConstantsAssumption DEF IInv
<1>1. TypeOK'
  BY DEF MPIBarrier, Goto, TypeOK
<1>2. Inside'
  BY DEF MPIBarrier, Goto, Inside
<1>3. Pairs'
  <2> SUFFICES ASSUME NEW t \in Threads PROVE Pair(t)'
    BY DEF Pairs
  <2>1. Pair(t)
    BY DEF Pairs
  <2>2. CASE ~ (Master(t) = m)
    BY <2>1, <2>2, MasterTypes, StandStill DEF MPIBarrier, Goto
  <2>3. CASE Master(t) = m /\ tid(t) # at[m]
    <3>1. t \in PETs /\ t \notin Masters /\ Master(t) # t /\ Master(t) \in Masters
          /\ round[t] \in Nat /\ round[m] \in Nat /\ at[m] \in Nat /\ tid(t) \in Nat
          /\ shms[t].done["a"] \in {0, 1} /\ shms[t].done["b"] \in {0, 1}
      BY ThreadTypes, MasterTypes, Flags
    <3>2. pc[m] = "mpi" /\ at[m] = 1 /\ tid(t) >= 1
      BY ThreadTypes DEF MPIBarrier, Inside
    <3>3. /\ pc'[m] = "flop" /\ at'[m] = at[m] /\ round'[m] = round[m]
          /\ shms'[t] = shms[t] /\ pc'[t] = pc[t] /\ round'[t] = round[t]
      BY MasterTypes DEF MPIBarrier, Goto, TypeOK
    <3> QED
      BY <2>1, <2>3, <3>1, <3>2, <3>3
         DEF Pair, Made, MasterFlips, MasterFlops, ThreadFlips, ThreadFlops,
             Flipped, Seen, Flopped, Over
  <2>4. CASE Master(t) = m /\ tid(t) = at[m]
    BY <2>1, <2>4
       DEF MPIBarrier, Goto, TypeOK, Pair, Made, MasterFlips, MasterFlops,
           ThreadFlips, ThreadFlops, Flipped, Seen, Flopped, Over
  <2> QED
    BY <2>2, <2>3, <2>4
<1>4. Met'
  BY DEF MPIBarrier, Goto, Met
<1> QED
  BY <1>1, <1>2, <1>3, <1>4

\* The master takes the flag of the next thread down ...
LEMMA MasterFlopKeeps == ASSUME IInv, NEW m \in Masters, MasterFlop(m) PROVE IInv'
<1> USE ConstantsAssumption DEF IInv
<1>1. TypeOK'
  BY Flags DEF MasterFlop, Goto, TypeOK
<1>2. Inside'
  BY MasterTypes DEF MasterFlop, Goto, InLoop, Inside
<1>3. Pairs'
  <2> SUFFICES ASSUME NEW t \in Threads PROVE Pair(t)'
    BY DEF Pairs
  <2>1. Pair(t)
    BY DEF Pairs
  <2>2. CASE ~ (Master(t) = m)
    BY <2>1, <2>2, ThreadTypes, MasterTypes, StandStill DEF MasterFlop, Goto
  <2>3. CASE Master(t) = m /\ tid(t) # at[m]
    BY <2>1, <2>3, ThreadTypes, MasterTypes, Flags
       DEF MasterFlop, Goto, InLoop, Pair, Made, MasterFlips, MasterFlops,
           ThreadFlips, ThreadFlops, Flipped, Seen, Flopped, Over
  <2>4. CASE Master(t) = m /\ tid(t) = at[m]
    BY <2>1, <2>4, ThreadTypes, Flags
       DEF MasterFlop, Goto, InLoop, TypeOK, Pair, Made, MasterFlips, MasterFlops,
           ThreadFlips, ThreadFlops, Flipped, Seen, Flopped, Over
  <2> QED
    BY <2>2, <2>3, <2>4
<1>4. Met'
  BY DEF MasterFlop, Goto, InLoop, Met
<1> QED
  BY <1>1, <1>2, <1>3, <1>4

\* ... and has seen its own taken down by that thread.
LEMMA MasterFlopWaitKeeps ==
  ASSUME IInv, NEW m \in Masters, MasterFlopWait(m)
  PROVE  IInv'
<1> USE ConstantsAssumption DEF IInv
<1>1. TypeOK'
  BY MasterTypes DEF MasterFlopWait, Goto, Advance, TypeOK, Inside
<1>2. Inside'
  BY MastersAndThreads DEF MasterFlopWait, Goto, Advance, Inside, TypeOK
<1>3. Pairs'
  <2> SUFFICES ASSUME NEW t \in Threads PROVE Pair(t)'
    BY DEF Pairs
  <2>1. Pair(t)
    BY DEF Pairs
  <2>2. CASE ~ (Master(t) = m)
    BY <2>1, <2>2, MasterTypes, StandStill DEF MasterFlopWait, Goto, Advance
  <2>3. CASE Master(t) = m /\ tid(t) # at[m]
    <3>1. t \in PETs /\ t \notin Masters /\ Master(t) # t /\ Master(t) \in Masters
          /\ round[t] \in Nat /\ round[m] \in Nat /\ at[m] \in Nat /\ tid(t) \in Nat
      BY ThreadTypes, MasterTypes
    <3>2. /\ pc[m] = "flopWait" /\ pc'[m] = "flop" /\ at'[m] = at[m] + 1
          /\ round'[m] = round[m]
          /\ shms'[t] = shms[t] /\ pc'[t] = pc[t] /\ round'[t] = round[t]
      BY <2>3, <3>1, MasterTypes DEF MasterFlopWait, Goto, Advance, TypeOK
    <3> QED
      BY <2>1, <2>3, <3>1, <3>2
         DEF Pair, Made, MasterFlips, MasterFlops, ThreadFlips, ThreadFlops,
             Flipped, Seen, Flopped, Over, Master
  <2>4. CASE Master(t) = m /\ tid(t) = at[m]
    <3>1. t \in PETs /\ t \notin Masters /\ Master(t) # t /\ Master(t) \in Masters
          /\ round[t] \in Nat /\ round[m] \in Nat /\ at[m] \in Nat /\ tid(t) \in Nat
          /\ shms[t].done["a"] \in {0, 1} /\ shms[t].done["b"] \in {0, 1}
      BY ThreadTypes, MasterTypes, Flags
    <3>2. pc[m] = "flopWait" /\ shms[t].done["a"] = 0
      BY <2>4, ThreadTypes, Flags DEF MasterFlopWait
    <3>3. /\ pc'[m] = "flop" /\ at'[m] = at[m] + 1 /\ round'[m] = round[m]
          /\ shms'[t] = shms[t] /\ pc'[t] = pc[t] /\ round'[t] = round[t]
      BY MasterTypes DEF MasterFlopWait, Goto, Advance, TypeOK
    <3> QED
      BY <2>1, <2>4, <3>1, <3>2, <3>3
         DEF Pair, Made, MasterFlips, MasterFlops, ThreadFlips, ThreadFlops,
             Flipped, Flopped
  <2> QED
    BY <2>2, <2>3, <2>4
<1>4. Met'
  BY DEF MasterFlopWait, Goto, Met
<1> QED
  BY <1>1, <1>2, <1>3, <1>4

\* It has done so with all threads, and leaves the barrier.
LEMMA MasterReturnKeeps ==
  ASSUME IInv, NEW m \in Masters, MasterReturn(m)
  PROVE  IInv'
<1> USE ConstantsAssumption DEF IInv
<1>1. TypeOK'
  <2>1. m \in PETs /\ round[m] \in 1 .. NBarriers + 1
    BY MasterTypes
  <2>2. pc[m] # "out"
    BY DEF MasterReturn, LoopOver
  <2>3. round[m] <= NBarriers
    BY <2>1, <2>2 DEF Inside
  <2>4. round[m] + 1 \in 1 .. NBarriers + 1
    BY <2>1, <2>3
  <2> QED
    BY <2>4 DEF MasterReturn, Goto, TypeOK
<1>2. Inside'
  BY DEF MasterReturn, Goto, Inside, TypeOK
<1>3. Pairs'
  <2> SUFFICES ASSUME NEW t \in Threads PROVE Pair(t)'
    BY DEF Pairs
  <2>1. Pair(t)
    BY DEF Pairs
  <2>2. CASE ~ (Master(t) = m)
    BY <2>1, <2>2, ThreadTypes, StandStill DEF MasterReturn, Goto
  <2>3. CASE Master(t) = m /\ tid(t) # at[m]
    <3>1. t \in PETs /\ t \notin Masters /\ Master(t) # t /\ Master(t) \in Masters
          /\ round[t] \in Nat /\ round[m] \in Nat /\ at[m] \in Nat /\ tid(t) \in Nat
          /\ shms[t].done["a"] \in {0, 1} /\ shms[t].done["b"] \in {0, 1}
      BY ThreadTypes, MasterTypes, Flags
    <3>2. pc[m] = "flop" /\ at[m] > tid(t)
      BY <2>3, ThreadTypes, MasterTypes DEF MasterReturn, LoopOver
    <3>3. /\ pc'[m] = "out" /\ at'[m] = at[m] /\ round'[m] = round[m] + 1
          /\ shms'[t] = shms[t] /\ pc'[t] = pc[t] /\ round'[t] = round[t]
      BY MasterTypes DEF MasterReturn, Goto, TypeOK
    <3> QED
      BY <2>1, <2>3, <3>1, <3>2, <3>3
         DEF Pair, Made, MasterFlips, MasterFlops, ThreadFlips, ThreadFlops,
             Flipped, Seen, Flopped, Over
  <2>4. CASE Master(t) = m /\ tid(t) = at[m]
    BY <2>4, ThreadTypes DEF MasterReturn, LoopOver
  <2> QED
    BY <2>2, <2>3, <2>4
<1>4. Met'
  BY DEF MasterReturn, Goto, LoopOver, Met, TypeOK
<1> QED
  BY <1>1, <1>2, <1>3, <1>4

\* A thread enters a barrier.
LEMMA CallThreadKeeps == ASSUME IInv, NEW u \in Threads, Call(u) PROVE IInv'
<1> USE ConstantsAssumption DEF IInv
<1>1. TypeOK'
  BY ThreadTypes DEF Call, Goto, TypeOK
<1>2. Inside'
  BY DEF Call, Goto, Inside
<1>3. Pairs'
  <2> SUFFICES ASSUME NEW t \in Threads PROVE Pair(t)'
    BY DEF Pairs
  <2>1. Pair(t)
    BY DEF Pairs
  <2>2. CASE ~ (t = u)
    BY <2>1, <2>2, ThreadTypes, StandStill DEF Call, Goto
  <2>3. CASE t = u
    BY <2>1, <2>3, ThreadTypes
       DEF Call, Goto, Pair, Made, MasterFlips, MasterFlops, ThreadFlips,
           ThreadFlops, Flipped, Seen, Flopped, Over
  <2> QED
    BY <2>2, <2>3
<1>4. Met'
  BY DEF Call, Goto, Met
<1> QED
  BY <1>1, <1>2, <1>3, <1>4

\* It raises its flag ...
LEMMA ThreadFlipKeeps == ASSUME IInv, NEW u \in Threads, ThreadFlip(u) PROVE IInv'
<1> USE ConstantsAssumption DEF IInv
<1>1. TypeOK'
  BY Flags DEF ThreadFlip, Goto, TypeOK
<1>2. Inside'
  BY MastersAndThreads DEF ThreadFlip, Goto, Inside
<1>3. Pairs'
  <2> SUFFICES ASSUME NEW t \in Threads PROVE Pair(t)'
    BY DEF Pairs
  <2>1. Pair(t)
    BY DEF Pairs
  <2>2. CASE ~ (t = u)
    BY <2>1, <2>2, ThreadTypes, StandStill DEF ThreadFlip, Goto
  <2>3. CASE t = u
    <3>1. /\ t \in PETs /\ Master(t) # t /\ shms[t] \in ShmSyncs
          /\ round[t] \in Nat /\ round[Master(t)] \in Nat
      BY ThreadTypes
    <3>2. shms[t].done["a"] \in {0, 1} /\ shms[t].done["b"] \in {0, 1}
      BY <3>1, Flags
    <3>3. /\ pc[t] = "flip" /\ pc'[t] = "flipWait" /\ round' = round /\ at' = at
          /\ pc'[Master(t)] = pc[Master(t)]
          /\ shms'[t].done["a"] = shms[t].done["a"] /\ shms'[t].done["b"] = 1
      BY <2>3, <3>1, Flags DEF ThreadFlip, Goto, TypeOK
    <3> QED
      BY <2>1, <2>3, <3>1, <3>2, <3>3
         DEF Pair, Made, MasterFlips, MasterFlops, ThreadFlips, ThreadFlops,
             Flipped, Seen, Flopped, Over
  <2> QED
    BY <2>2, <2>3
<1>4. Met'
  BY DEF ThreadFlip, Goto, Met
<1> QED
  BY <1>1, <1>2, <1>3, <1>4

\* ... and has seen the flag of its master.
LEMMA ThreadFlipWaitKeeps ==
  ASSUME IInv, NEW u \in Threads, ThreadFlipWait(u)
  PROVE  IInv'
<1> USE ConstantsAssumption DEF IInv
<1>1. TypeOK'
  BY DEF ThreadFlipWait, Goto, TypeOK
<1>2. Inside'
  BY DEF ThreadFlipWait, Goto, Inside
<1>3. Pairs'
  <2> SUFFICES ASSUME NEW t \in Threads PROVE Pair(t)'
    BY DEF Pairs
  <2>1. Pair(t)
    BY DEF Pairs
  <2>2. CASE ~ (t = u)
    BY <2>1, <2>2, ThreadTypes, StandStill DEF ThreadFlipWait, Goto
  <2>3. CASE t = u
    BY <2>1, <2>3, ThreadTypes, Flags
       DEF ThreadFlipWait, Goto, TypeOK, Pair, Made, MasterFlips, MasterFlops,
           ThreadFlips, ThreadFlops, Flipped, Seen, Flopped, Over
  <2> QED
    BY <2>2, <2>3
<1>4. Met'
  BY MastersAndThreads DEF ThreadFlipWait, Goto, Met
<1> QED
  BY <1>1, <1>2, <1>3, <1>4

\* It takes the flag of its master down ...
LEMMA ThreadFlopKeeps == ASSUME IInv, NEW u \in Threads, ThreadFlop(u) PROVE IInv'
<1> USE ConstantsAssumption DEF IInv
<1>1. TypeOK'
  BY Flags DEF ThreadFlop, Goto, TypeOK
<1>2. Inside'
  BY MastersAndThreads DEF ThreadFlop, Goto, Inside
<1>3. Pairs'
  <2> SUFFICES ASSUME NEW t \in Threads PROVE Pair(t)'
    BY DEF Pairs
  <2>1. Pair(t)
    BY DEF Pairs
  <2>2. CASE ~ (t = u)
    BY <2>1, <2>2, ThreadTypes, StandStill DEF ThreadFlop, Goto
  <2>3. CASE t = u
    BY <2>1, <2>3, ThreadTypes, Flags
       DEF ThreadFlop, Goto, TypeOK, Pair, Made, MasterFlips, MasterFlops,
           ThreadFlips, ThreadFlops, Flipped, Flopped, Over
  <2> QED
    BY <2>2, <2>3
<1>4. Met'
  BY DEF ThreadFlop, Goto, Met
<1> QED
  BY <1>1, <1>2, <1>3, <1>4

\* ... and leaves once its own is down.
LEMMA ThreadReturnKeeps ==
  ASSUME IInv, NEW u \in Threads, ThreadReturn(u)
  PROVE  IInv'
<1> USE ConstantsAssumption DEF IInv
<1>1. TypeOK'
  <2>1. u \in PETs /\ round[u] \in 1 .. NBarriers + 1
    BY ThreadTypes
  <2>2. pc[u] # "out"
    BY DEF ThreadReturn
  <2>3. round[u] <= NBarriers
    BY <2>1, <2>2 DEF Inside
  <2>4. round[u] + 1 \in 1 .. NBarriers + 1
    BY <2>1, <2>3
  <2> QED
    BY <2>4 DEF ThreadReturn, Goto, TypeOK
<1>2. Inside'
  BY DEF ThreadReturn, Goto, Inside, TypeOK
<1>3. Pairs'
  <2> SUFFICES ASSUME NEW t \in Threads PROVE Pair(t)'
    BY DEF Pairs
  <2>1. Pair(t)
    BY DEF Pairs
  <2>2. CASE ~ (t = u)
    BY <2>1, <2>2, ThreadTypes, StandStill DEF ThreadReturn, Goto
  <2>3. CASE t = u
    <3>1. t \in PETs /\ t \notin Masters /\ Master(t) # t /\ Master(t) \in Masters
          /\ round[t] \in Nat /\ round[Master(t)] \in Nat /\ at[Master(t)] \in Nat /\ tid(t) \in Nat
          /\ shms[t].done["a"] \in {0, 1}
      BY ThreadTypes, Flags
    <3>2. pc[t] = "flopWait" /\ shms[t].done["b"] = 0
      BY <2>3, ThreadTypes, Flags DEF ThreadReturn
    <3>3. /\ pc'[t] = "out" /\ round'[t] = round[t] + 1 /\ shms' = shms
          /\ pc'[Master(t)] = pc[Master(t)] /\ round'[Master(t)] = round[Master(t)] /\ at' = at
      BY <2>3, ThreadTypes DEF ThreadReturn, Goto, TypeOK
    <3> QED
      BY <2>1, <3>1, <3>2, <3>3
         DEF Pair, Made, MasterFlips, MasterFlops, ThreadFlips, ThreadFlops,
             Flipped, Seen, Flopped, Over
  <2> QED
    BY <2>2, <2>3
<1>4. Met'
  BY DEF ThreadReturn, Goto, Met, TypeOK
<1> QED
  BY <1>1, <1>2, <1>3, <1>4

\* Every step of a master or another thread preserves the inductive invariant.
THEOREM Inductive == IInv /\ [Next]_vars => IInv'
<1> SUFFICES ASSUME IInv, [Next]_vars PROVE IInv'
  OBVIOUS
<1>1. ASSUME NEW m \in Masters, MasterNext(m) PROVE IInv'
  BY <1>1, CallMasterKeeps, MasterFlipKeeps, MasterFlipWaitKeeps, AllFlippedKeeps,
     MPIBarrierKeeps, MasterFlopKeeps, MasterFlopWaitKeeps, MasterReturnKeeps
     DEF MasterNext
<1>2. ASSUME NEW t \in Threads, ThreadNext(t) PROVE IInv'
  BY <1>2, CallThreadKeeps, ThreadFlipKeeps, ThreadFlipWaitKeeps, ThreadFlopKeeps,
     ThreadReturnKeeps
     DEF ThreadNext
<1>3. CASE UNCHANGED vars
  BY <1>3
     DEF vars, IInv, TypeOK, Inside, Pairs, Met, Pair, Made, MasterFlips,
         MasterFlops, ThreadFlips, ThreadFlops, Flipped, Seen, Flopped, Over
<1> QED
  BY <1>1, <1>2, <1>3 DEF Next, Finished

\* The inductive invariant holds in every state.
THEOREM Invariance == Spec => []IInv
BY InitInvariant, Inductive, PTL DEF Spec

\* Every variable holds a value the code could give it.
THEOREM TypeCorrect == Spec => []TypeOK
<1>1. IInv => TypeOK
  BY DEF IInv
<1> QED
  BY <1>1, Invariance, PTL

\* A PET that is outside has its flag down on every channel, so that no stale flag
\* releases the next barrier or message, for any number of threads and barriers.
THEOREM FlagsAreReset == Spec => []FlagsReset
<1>1. ASSUME IInv, NEW t \in Threads
      PROVE  /\ pc[t] = "out" => shms[t].done["b"] = 0
             /\ pc[Master(t)] = "out" => shms[t].done["a"] = 0
  <2>1. Pair(t)
    BY <1>1 DEF IInv, Pairs
  <2>2. round[t] \in Nat /\ round[Master(t)] \in Nat /\ shms[t] \in ShmSyncs
    BY <1>1, ThreadTypes DEF IInv
  <2> QED
    BY <2>1, <2>2
       DEF Pair, Made, MasterFlips, MasterFlops, ThreadFlips, ThreadFlops,
           Flipped, Seen, Flopped
<1>2. IInv => FlagsReset
  BY <1>1 DEF FlagsReset, Master
<1> QED
  BY <1>2, Invariance, PTL
-----------------------------------------------------------------------------
\* How many barriers a PET has entered, as the refinement counts them.
Entered(q) == IF pc[q] = "out" THEN round[q] - 1 ELSE round[q]

\* A master that has gone through the flips of a barrier has seen all its threads
\* enter it.
LEMMA AllHere ==
  ASSUME IInv, NEW m \in Masters, NEW k \in Nat,
         k < round[m] \/ (k = round[m] /\ pc[m] \in {"mpi", "flop", "flopWait"}),
         NEW q \in PETs, pid(q) = pid(m)
  PROVE  Entered(q) >= k
<1>1. CASE q \in Masters
  <2>1. q = m
    BY <1>1, MastersAndThreads
  <2> QED
    BY <2>1, MasterTypes DEF Entered, IInv
<1>2. CASE q \in Threads
  <2>1. Master(q) = m
    BY MastersAndThreads DEF Master
  <2>2. Pair(q)
    BY <1>2 DEF IInv, Pairs
  <2>3. /\ round[q] \in Nat /\ round[m] \in Nat /\ at[m] \in Nat /\ tid(q) \in Nat
    BY <1>2, <2>1, ThreadTypes DEF IInv
  <2> QED
    BY <2>1, <2>2, <2>3 DEF Entered, Pair, Made, ThreadFlips, ThreadFlops, Seen
<1> QED
  BY <1>1, <1>2 DEF Threads

\* A master that may leave, and a thread that may, find all who take part inside.
LEMMA MayLeave ==
  ASSUME IInv, NEW p \in PETs, NEW m \in Masters, pid(m) = pid(p), round[p] \in 1 .. NBarriers,
         round[p] < round[m] \/ (round[p] = round[m] /\ pc[m] \in {"flop", "flopWait"}),
         NEW q \in Party(program[round[p]], p)
  PROVE  Entered(q) >= round[p]
<1>1. q \in PETs
  BY DEF Party
<1>2. CASE pid(q) = pid(p)
  BY <1>1, <1>2, AllHere
<1>3. CASE pid(q) # pid(p)
  <2> DEFINE n == <<pid(q), 0>>
  <2>1. program[round[p]] = "barrier"
    BY <1>3 DEF Party
  <2>2. n \in Masters /\ pid(n) = pid(q)
    BY <1>1, MastersAndThreads DEF Threads
  <2>3. mpi[n] >= round[p]
    BY <2>1, <2>2 DEF IInv, Met
  <2>4. /\ mpi[n] \in Nat /\ round[n] \in Nat /\ mpi[n] <= round[n]
        /\ mpi[n] = round[n] => pc[n] \in {"mpi", "flop", "flopWait"}
    BY <2>2, MasterTypes DEF IInv, Met
  <2>5. round[p] < round[n] \/ (round[p] = round[n] /\ pc[n] \in {"mpi", "flop", "flopWait"})
    BY <2>3, <2>4
  <2> QED
    BY <1>1, <2>2, <2>5, AllHere
<1> QED
  BY <1>2, <1>3

\* Before the program starts nobody has entered or left a barrier.
LEMMA RefinementInit == Init => Barrier!Init
BY DEF Init, Barrier!Init

\* The counts of the refinement, of PETs in barriers r at places c.
EnteredCounts(r, c) == [q \in PETs |-> IF c[q] = "out" THEN r[q] - 1 ELSE r[q]]
LeftCounts(r) == [q \in PETs |-> r[q] - 1]

\* How they change when PET p enters a barrier, and when it leaves one.
LEMMA CountEnter ==
  ASSUME NEW p \in PETs, NEW a \in [PETs -> Int],
         NEW c \in [PETs -> {"out", "flip", "flipWait", "mpi", "flop", "flopWait"}], c[p] = "out",
         NEW d, d = [c EXCEPT ![p] = "flip"]
  PROVE  EnteredCounts(a, d) = [EnteredCounts(a, c) EXCEPT ![p] = @ + 1]
<1>1. \A q \in PETs :
        (IF d[q] = "out" THEN a[q] - 1 ELSE a[q])
        = [[x \in PETs |-> IF c[x] = "out" THEN a[x] - 1 ELSE a[x]] EXCEPT ![p] = @ + 1][q]
  OBVIOUS
<1> QED
  BY <1>1 DEF EnteredCounts

\* ... and leaves.
LEMMA CountLeft ==
  ASSUME NEW p \in PETs, NEW a \in [PETs -> Int], NEW b, b = [a EXCEPT ![p] = @ + 1]
  PROVE  LeftCounts(b) = [LeftCounts(a) EXCEPT ![p] = @ + 1]
<1>1. \A q \in PETs : [[x \in PETs |-> a[x] - 1] EXCEPT ![p] = @ + 1][q] = b[q] - 1
  OBVIOUS
<1> QED
  BY <1>1 DEF LeftCounts

\* To call a barrier is to enter it, the last step of its last loop or wait leaves
\* it, and all other steps are inside.
LEMMA RefinementStep == IInv /\ [Next]_vars => [Barrier!Next]_(Barrier!vars)
<1> SUFFICES ASSUME IInv, [Next]_vars PROVE [Barrier!Next]_(Barrier!vars)
  OBVIOUS
<1>t. /\ round \in [PETs -> 1 .. NBarriers + 1]
      /\ pc \in [PETs -> {"out", "flip", "flipWait", "mpi", "flop", "flopWait"}]
      /\ Masters \subseteq PETs /\ Threads \subseteq PETs
  BY DEF IInv, TypeOK, Masters, Threads
<1>1. ASSUME NEW p \in PETs, Call(p) PROVE Barrier!Enter(p)
  <2>1. pc[p] = "out" /\ round[p] <= NBarriers /\ pc' = [pc EXCEPT ![p] = "flip"]
        /\ round' = round /\ program' = program
    BY <1>1 DEF Call, Goto
  <2>2. round \in [PETs -> Int]
    BY <1>t
  <2>3. EnteredCounts(round, pc') = [EnteredCounts(round, pc) EXCEPT ![p] = @ + 1]
    BY <1>t, <2>1, <2>2, CountEnter
  <2>4. /\ EnteredCounts(round, pc)[p] = LeftCounts(round)[p]
        /\ EnteredCounts(round, pc)[p] < NBarriers
        /\ LeftCounts(round') = LeftCounts(round)
    BY <1>t, <2>1, ConstantsAssumption DEF EnteredCounts, LeftCounts
  <2> QED
    BY <2>1, <2>3, <2>4 DEF Barrier!Enter, EnteredCounts
<1>2. ASSUME NEW p \in PETs, pc[p] # "out", round[p] \in 1 .. NBarriers,
             pc' = [pc EXCEPT ![p] = "out"], round' = [round EXCEPT ![p] = @ + 1],
             program' = program,
             \A q \in Party(program[round[p]], p) : Entered(q) >= round[p]
      PROVE  Barrier!Leave(p)
  <2>1. \A q \in Party(program[round[p]], p) : q \in PETs
    BY DEF Party
  <2>2. round \in [PETs -> Int] /\ round' \in [PETs -> Int]
    BY <1>t, <1>2
  <2>3. /\ pc \in [PETs -> {"out", "flip", "flipWait", "mpi", "flop", "flopWait"}]
        /\ pc[p] # "out"
    BY <1>t, <1>2
  <2>4. pc' = [pc EXCEPT ![p] = "out"] /\ round' = [round EXCEPT ![p] = @ + 1]
    BY <1>2
  <2>5. EnteredCounts(round', pc') = EnteredCounts(round, pc)
    <3>1. \A q \in PETs : (IF pc'[q] = "out" THEN round'[q] - 1 ELSE round'[q])
                          = (IF pc[q] = "out" THEN round[q] - 1 ELSE round[q])
      BY <2>2, <2>3, <2>4
    <3> QED
      BY <3>1 DEF EnteredCounts
  <2>6. LeftCounts(round') = [LeftCounts(round) EXCEPT ![p] = @ + 1]
    BY <1>2, <2>2, CountLeft
  <2>7. /\ LeftCounts(round)[p] < EnteredCounts(round, pc)[p]
        /\ EnteredCounts(round, pc)[p] = round[p]
        /\ \A q \in Party(program[round[p]], p) : EnteredCounts(round, pc)[q] >= round[p]
    BY <1>2, <2>1 DEF EnteredCounts, LeftCounts, Entered
  <2> QED
    BY <1>2, <2>5, <2>7, <2>6 DEF Barrier!Leave, EnteredCounts, LeftCounts
<1>3. ASSUME NEW m \in Masters, MasterReturn(m) PROVE Barrier!Leave(m)
  <2>1. m \in PETs /\ pc[m] = "flop" /\ round[m] \in 1 .. NBarriers
    BY <1>3, <1>t DEF MasterReturn, LoopOver, IInv, Inside
  <2>2. \A q \in Party(program[round[m]], m) : Entered(q) >= round[m]
    BY <2>1, MayLeave
  <2> QED
    BY <1>2, <1>3, <2>1, <2>2 DEF MasterReturn, Goto
<1>4. ASSUME NEW u \in Threads, ThreadReturn(u) PROVE Barrier!Leave(u)
  <2>1. u \in PETs /\ pc[u] = "flopWait" /\ round[u] \in 1 .. NBarriers
    BY <1>4, <1>t DEF ThreadReturn, IInv, Inside
  <2>2. Pair(u) /\ shms[u].done["b"] = 0
    BY <1>4, ThreadTypes, Flags DEF IInv, Pairs, ThreadReturn
  <2>3. /\ round[Master(u)] \in Nat /\ at[Master(u)] \in Nat /\ tid(u) \in Nat
        /\ Master(u) \in Masters /\ pid(Master(u)) = pid(u)
    BY ThreadTypes, MastersAndThreads DEF IInv
  <2>4. \/ round[u] < round[Master(u)]
        \/ round[u] = round[Master(u)] /\ pc[Master(u)] \in {"flop", "flopWait"}
    BY <2>1, <2>2, <2>3 DEF Pair, Made, ThreadFlips, MasterFlops, Flopped
  <2>5. \A q \in Party(program[round[u]], u) : Entered(q) >= round[u]
    BY <2>1, <2>3, <2>4, MayLeave
  <2> QED
    BY <1>2, <1>4, <2>1, <2>5 DEF ThreadReturn, Goto
<1>5. ASSUME NEW p \in PETs, NEW l, l # "out", pc[p] # "out", pc' = [pc EXCEPT ![p] = l],
             round' = round, program' = program
      PROVE  UNCHANGED Barrier!vars
  BY <1>5 DEF Barrier!vars
<1>6. ASSUME NEW m \in Masters,
             MasterFlip(m) \/ MasterFlipWait(m) \/ MPIBarrier(m) \/ MasterFlop(m) \/ MasterFlopWait(m)
             \/ AllFlipped(m)
      PROVE  UNCHANGED Barrier!vars
  <2>1. m \in PETs /\ pc[m] # "out" /\ round' = round /\ program' = program
    BY <1>6, <1>t
       DEF MasterFlip, MasterFlipWait, MPIBarrier, MasterFlop, MasterFlopWait,
           AllFlipped, InLoop, LoopOver
  <2>2. \E l \in {"flip", "flipWait", "mpi", "flop", "flopWait"} : pc' = [pc EXCEPT ![m] = l]
    BY <1>6
       DEF MasterFlip, MasterFlipWait, MPIBarrier, MasterFlop, MasterFlopWait,
           AllFlipped, Goto
  <2> QED
    BY <1>5, <2>1, <2>2
<1>7. ASSUME NEW u \in Threads, ThreadFlip(u) \/ ThreadFlipWait(u) \/ ThreadFlop(u)
      PROVE  UNCHANGED Barrier!vars
  <2>1. u \in PETs /\ pc[u] # "out" /\ round' = round /\ program' = program
    BY <1>7, <1>t DEF ThreadFlip, ThreadFlipWait, ThreadFlop
  <2>2. \E l \in {"flip", "flipWait", "mpi", "flop", "flopWait"} : pc' = [pc EXCEPT ![u] = l]
    BY <1>7 DEF ThreadFlip, ThreadFlipWait, ThreadFlop, Goto
  <2> QED
    BY <1>5, <2>1, <2>2
<1>8. CASE UNCHANGED vars
  BY <1>8 DEF vars, Barrier!vars
<1> QED
  BY <1>t, <1>1, <1>3, <1>4, <1>6, <1>7, <1>8
     DEF Next, MasterNext, ThreadNext, Finished, Barrier!Next

\* The safety half of Implements, for any number of processes, threads and barriers:
\* nobody leaves a barrier before everybody who takes part has entered it.
THEOREM Refinement == Spec => Barrier!Init /\ [][Barrier!Next]_(Barrier!vars)
BY Invariance, RefinementInit, RefinementStep, PTL DEF Spec

=============================================================================
