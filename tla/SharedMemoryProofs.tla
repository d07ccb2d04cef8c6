-------------------------- MODULE SharedMemoryProofs --------------------------
(***************************************************************************)
(* Proofs about what the PETs of a process share in its memory: the        *)
(* message channel of two PETs (ShmChannel, for programs of every length), *)
(* the memory and the mutexes of ipshmallocate and ipmutexallocate (IpShm, *)
(* for any number of PETs and allocations), and the work queue that a      *)
(* DELayout keeps in them (WorkQueue, for any number of PETs, DEs and      *)
(* offers).                                                                *)
(***************************************************************************)
EXTENDS ShmChannel, IpShm, WorkQueue, FiniteSetTheorems, Integers, TLAPS

-----------------------------------------------------------------------------
(* The message channel of two PETs: its inductive invariant IInv, the safety  *)
(* invariants that follow from it, and the safety half of the refinement of   *)
(* PointToPoint.                                                              *)

\* Every channel that sync_reset has set up starts in the inductive invariant.
LEMMA InitInvariant == Init => IInv
<1> SUFFICES ASSUME Init PROVE IInv
  OBVIOUS
<1> USE NMsgsAssumption DEF Init, SyncReset, Ends
<1>1. TypeOK
  BY DEF TypeOK, ShmSyncs, Buffers, PCs, Msgs, Halves
<1>2. PcKind /\ DoneFlags /\ Lag /\ BufferFlag /\ Pointers /\ Copied
  BY DEF PcKind, DoneFlags, Lag, BufferFlag, Pointers, Copied,
         Flipped, Flopped, Buffers, Msgs, Peer
<1> QED
  BY <1>1, <1>2 DEF IInv

-----------------------------------------------------------------------------
\* Every step of either PET preserves the inductive invariant: one step of the
\* proof per action of the code, and under it one per conjunct of IInv.
THEOREM Inductive == IInv /\ [Next]_vars => IInv'
<1> SUFFICES ASSUME IInv, [Next]_vars PROVE IInv'
  OBVIOUS
<1> USE NMsgsAssumption DEF IInv
<1>1. ASSUME NEW e \in Ends, Call(e) PROVE IInv'
  <2>1. TypeOK'
    BY <1>1 DEF Call, Goto, Kind, TypeOK, Ends, PCs, Kinds
  <2>2. PcKind'
    BY <1>1 DEF Call, Goto, Kind, TypeOK, PcKind, Ends, Kinds
  <2>3. DoneFlags'
    BY <1>1 DEF Call, Goto, Kind, TypeOK, DoneFlags, Flipped, Flopped, Ends, Kinds
  <2>4. Lag'
    BY <1>1 DEF Call, Goto, Lag
  <2>5. BufferFlag'
    BY <1>1 DEF Call, Goto, Kind, TypeOK, BufferFlag, Kinds
  <2>6. Pointers'
    BY <1>1 DEF Call, Goto, Kind, Pointers
  <2>7. Copied'
    BY <1>1 DEF Call, Goto, Copied, Kind
  <2> QED BY <2>1, <2>2, <2>3, <2>4, <2>5, <2>6, <2>7
<1>2. CASE WaitEmpty
  <2>1. TypeOK'
    BY <1>2 DEF WaitEmpty, Goto, TypeOK, PCs
  <2>2. PcKind'
    BY <1>2 DEF WaitEmpty, Goto, PcKind, Kind
  <2>3. DoneFlags'
    BY <1>2 DEF WaitEmpty, Goto, DoneFlags, Flipped, Flopped
  <2>4. Lag'
    BY <1>2 DEF WaitEmpty, Goto, Lag
  <2>5. BufferFlag'
    BY <1>2 DEF WaitEmpty, Goto, Emptied, TypeOK, BufferFlag, ShmSyncs, Buffers
  <2>6. Pointers'
    BY <1>2 DEF WaitEmpty, Goto, Pointers, Kind
  <2>7. Copied'
    BY <1>2 DEF WaitEmpty, Goto, Copied
  <2> QED BY <2>1, <2>2, <2>3, <2>4, <2>5, <2>6, <2>7
<1>3. CASE Fill
  <2>1. TypeOK'
    BY <1>3 DEF Fill, Goto, Source, TypeOK, PcKind, Ends, Msgs, PCs
  <2>2. PcKind'
    BY <1>3 DEF Fill, Goto, PcKind, Kind
  <2>3. DoneFlags'
    BY <1>3 DEF Fill, Goto, DoneFlags, Flipped, Flopped
  <2>4. Lag'
    BY <1>3 DEF Fill, Goto, Lag, BufferFlag
  <2>5. BufferFlag'
    BY <1>3 DEF Fill, Goto, Source, BufferFlag
  <2>6. Pointers'
    BY <1>3 DEF Fill, Goto, Pointers, Kind
  <2>7. Copied'
    BY <1>3 DEF Fill, Goto, Copied
  <2> QED BY <2>1, <2>2, <2>3, <2>4, <2>5, <2>6, <2>7
<1>4. CASE FlagFillReturn
  <2>1. TypeOK'
    <3>1. msg' \in [Ends -> 1 .. NMsgs + 1]
      BY <1>4 DEF FlagFillReturn, Return, TypeOK, PcKind, Ends, Msgs
    <3>2. shms' \in ShmSyncs
      BY <1>4 DEF FlagFillReturn, FlagFill, TypeOK, ShmSyncs
    <3>3. pc' \in [Ends -> PCs]
      BY <1>4 DEF FlagFillReturn, Return, Goto, TypeOK, PCs
    <3> QED
      BY <1>4, <3>1, <3>2, <3>3 DEF FlagFillReturn, TypeOK
  <2>2. PcKind'
    BY <1>4 DEF FlagFillReturn, Return, Goto, TypeOK, PcKind, Kind
  <2>3. DoneFlags'
    BY <1>4 DEF FlagFillReturn, Return, Goto, FlagFill, PcKind, DoneFlags, Flipped, Flopped, Ends, Msgs, Kind
  <2>4. Lag'
    BY <1>4 DEF FlagFillReturn, Return, Goto, FlagFill, TypeOK, PcKind, Lag, BufferFlag, Ends, Msgs, Kind, ShmSyncs, Buffers
  <2>5. BufferFlag'
    BY <1>4 DEF FlagFillReturn, Return, Goto, TypeOK, PcKind, BufferFlag, Lag, Ends, Peer, Kind
  <2>6. Pointers'
    BY <1>4 DEF FlagFillReturn, Return, Goto, Pointers, Kind
  <2>7. Copied'
    BY <1>4 DEF FlagFillReturn, Return, Goto, PcKind, Copied, Msgs, Kind
  <2> QED BY <2>1, <2>2, <2>3, <2>4, <2>5, <2>6, <2>7
<1>5. CASE WaitFill
  <2>1. TypeOK'
    BY <1>5 DEF WaitFill, Goto, TypeOK, PCs
  <2>2. PcKind'
    BY <1>5 DEF WaitFill, Goto, PcKind, Kind
  <2>3. DoneFlags'
    BY <1>5 DEF WaitFill, Goto, DoneFlags, Flipped, Flopped
  <2>4. Lag'
    BY <1>5 DEF WaitFill, Filled, TypeOK, Lag, BufferFlag, Ends, Peer, ShmSyncs, Buffers
  <2>5. BufferFlag'
    BY <1>5 DEF WaitFill, Goto, Filled, TypeOK, BufferFlag, ShmSyncs, Buffers
  <2>6. Pointers'
    BY <1>5 DEF WaitFill, Goto, Pointers, Kind
  <2>7. Copied'
    BY <1>5 DEF WaitFill, Goto, Copied
  <2> QED BY <2>1, <2>2, <2>3, <2>4, <2>5, <2>6, <2>7
<1>6. CASE Drain
  <2>1. TypeOK'
    BY <1>6 DEF Drain, Goto, TypeOK, PCs
  <2>2. PcKind'
    BY <1>6 DEF Drain, Goto, PcKind, Kind
  <2>3. DoneFlags'
    BY <1>6 DEF Drain, Goto, DoneFlags, Flipped, Flopped
  <2>4. Lag'
    BY <1>6 DEF Drain, TypeOK, Lag, BufferFlag, Ends, Peer
  <2>5. BufferFlag'
    BY <1>6 DEF Drain, Goto, BufferFlag
  <2>6. Pointers'
    BY <1>6 DEF Drain, Goto, Pointers, Kind
  <2>7. Copied'
    <3>0. buffer = msg["b"]
      <4>1. msg["b"] \in Msgs /\ program[msg["b"]] = "small" /\ msg["b"] < msg["a"]
        BY <1>6 DEF Drain, TypeOK, PcKind, BufferFlag, Ends, Kind
      <4> QED
        BY <4>1 DEF Lag, TypeOK, Ends, Peer
    <3>1. ASSUME NEW k \in Msgs, NEW f \in Ends,
                 program'[k] = "large",
                 msg'[f] > k \/ (msg'[f] = k /\ pc'[f] \in {"flop", "flopWait"})
          PROVE  dst'[k][HalfOf(f)] = k
      BY <1>6, <3>1 DEF Drain, Goto, Copied, PcKind, Ends, Kind
    <3>2. ASSUME NEW k \in Msgs, NEW h \in Halves,
                 program'[k] = "small",
                 msg'["b"] > k \/ (msg'["b"] = k /\ pc'["b"] = "flagEmpty")
          PROVE  dst'[k][h] = k
      BY <1>6, <3>2, <3>0 DEF Drain, Copied, TypeOK
    <3> QED
      BY <3>1, <3>2 DEF Copied
  <2> QED BY <2>1, <2>2, <2>3, <2>4, <2>5, <2>6, <2>7
<1>7. CASE FlagEmptyReturn
  <2>1. TypeOK'
    <3>1. pc["b"] = "flagEmpty" /\ msg["b"] \in Msgs
      BY <1>7 DEF FlagEmptyReturn, TypeOK, PcKind, Ends, Msgs, Kind
    <3>2. shms' \in ShmSyncs
      BY <1>7 DEF FlagEmptyReturn, FlagEmpty, TypeOK, ShmSyncs, Buffers, Ends
    <3>3. pc' \in [Ends -> PCs] /\ msg' \in [Ends -> 1 .. NMsgs + 1]
      BY <1>7, <3>1, NMsgsAssumption DEF FlagEmptyReturn, Return, Goto, TypeOK, Ends, Msgs, PCs
    <3> QED
      BY <1>7, <3>2, <3>3 DEF FlagEmptyReturn, TypeOK
  <2>2. PcKind'
    BY <1>7 DEF FlagEmptyReturn, Return, Goto, TypeOK, PcKind, Kind
  <2>3. DoneFlags'
    BY <1>7 DEF FlagEmptyReturn, Return, Goto, FlagEmpty, PcKind, DoneFlags, Flipped, Flopped, Ends, Msgs, Kind
  <2>4. Lag'
    <3>1. msg["b"] \in Msgs /\ Kind("b") = "small" /\ buffer = msg["b"] /\ msg["a"] > msg["b"]
      BY <1>7 DEF FlagEmptyReturn, TypeOK, PcKind, Lag, BufferFlag, Ends, Peer
    <3> QED
      BY <1>7, <3>1 DEF FlagEmptyReturn, Return, Lag, TypeOK, Ends, Msgs, Peer
  <2>5. BufferFlag'
    BY <1>7 DEF FlagEmptyReturn, Return, Goto, FlagEmpty, TypeOK, BufferFlag, Ends, ShmSyncs, Buffers
  <2>6. Pointers'
    BY <1>7 DEF FlagEmptyReturn, Return, Goto, Pointers, Kind
  <2>7. Copied'
    BY <1>7 DEF FlagEmptyReturn, Return, Goto, FlagEmpty, TypeOK, Copied, Lag, BufferFlag, Ends, Msgs, Peer
  <2> QED BY <2>1, <2>2, <2>3, <2>4, <2>5, <2>6, <2>7
<1>8. CASE SetPtrSrc
  <2>1. TypeOK'
    BY <1>8 DEF SetPtrSrc, Goto, TypeOK, PcKind, Ends, Msgs, PCs
  <2>2. PcKind'
    BY <1>8 DEF SetPtrSrc, Goto, PcKind, Kind
  <2>3. DoneFlags'
    BY <1>8 DEF SetPtrSrc, Goto, DoneFlags, Flipped, Flopped
  <2>4. Lag'
    BY <1>8 DEF SetPtrSrc, Goto, Lag
  <2>5. BufferFlag'
    BY <1>8 DEF SetPtrSrc, Goto, BufferFlag
  <2>6. Pointers'
    BY <1>8 DEF SetPtrSrc, Goto, Pointers, Kind
  <2>7. Copied'
    BY <1>8 DEF SetPtrSrc, Goto, Copied
  <2> QED BY <2>1, <2>2, <2>3, <2>4, <2>5, <2>6, <2>7
<1>9. CASE SetPtrDst
  <2>1. TypeOK'
    BY <1>9 DEF SetPtrDst, Goto, TypeOK, PcKind, Ends, Msgs, PCs
  <2>2. PcKind'
    BY <1>9 DEF SetPtrDst, Goto, PcKind, Kind
  <2>3. DoneFlags'
    BY <1>9 DEF SetPtrDst, Goto, DoneFlags, Flipped, Flopped
  <2>4. Lag'
    BY <1>9 DEF SetPtrDst, Goto, Lag
  <2>5. BufferFlag'
    BY <1>9 DEF SetPtrDst, Goto, BufferFlag
  <2>6. Pointers'
    BY <1>9 DEF SetPtrDst, Goto, Pointers, Kind
  <2>7. Copied'
    BY <1>9 DEF SetPtrDst, Goto, Copied
  <2> QED BY <2>1, <2>2, <2>3, <2>4, <2>5, <2>6, <2>7
<1>10. ASSUME NEW e \in Ends, Flip(e) PROVE IInv'
  <2>1. TypeOK'
    BY <1>10 DEF Flip, Goto, FlipStore, TypeOK, ShmSyncs, PCs
  <2>2. PcKind'
    BY <1>10 DEF Flip, Goto, PcKind, Kind
  <2>3. DoneFlags'
    BY <1>10 DEF Flip, Goto, FlipStore, TypeOK, PcKind, DoneFlags, Lag, Flipped, Flopped, Ends, Peer, Kind, ShmSyncs
  <2>4. Lag'
    BY <1>10 DEF Flip, Goto, FlipStore, Lag
  <2>5. BufferFlag'
    BY <1>10 DEF Flip, Goto, FlipStore, BufferFlag
  <2>6. Pointers'
    BY <1>10 DEF Flip, Goto, Pointers, Kind
  <2>7. Copied'
    BY <1>10 DEF Flip, Goto, Copied
  <2> QED BY <2>1, <2>2, <2>3, <2>4, <2>5, <2>6, <2>7
<1>11. ASSUME NEW e \in Ends, FlipWait(e) PROVE IInv'
  <2>1. TypeOK'
    BY <1>11 DEF FlipWait, Goto, TypeOK, PCs
  <2>2. PcKind'
    BY <1>11 DEF FlipWait, Goto, Kind, TypeOK, PcKind, Kinds
  <2>3. DoneFlags'
    BY <1>11 DEF FlipWait, Goto, FlipPassed, TypeOK, DoneFlags, Flipped, Flopped, Ends, Msgs, Peer, ShmSyncs
  <2>4. Lag'
    BY <1>11 DEF FlipWait, FlipPassed, TypeOK, Lag, DoneFlags, Flopped, Ends, Peer, ShmSyncs
  <2>5. BufferFlag'
    BY <1>11 DEF FlipWait, Goto, BufferFlag
  <2>6. Pointers'
    BY <1>11 DEF FlipWait, Goto, Kind, Pointers
  <2>7. Copied'
    BY <1>11 DEF FlipWait, Goto, Kind, Copied
  <2> QED BY <2>1, <2>2, <2>3, <2>4, <2>5, <2>6, <2>7
<1>12. ASSUME NEW e \in Ends, Copy(e) PROVE IInv'
  <2>1. TypeOK'
    <3>1. ptr_dst \in Msgs /\ HalfOf(e) \in Halves /\ Source(ptr_src) \in 0 .. NMsgs
      BY <1>12 DEF Copy, HalfOf, Halves, Source, PcKind, DoneFlags, Lag, Pointers, Flipped, Ends, Msgs, Peer, Kind
    <3>2. dst' \in [Msgs -> [Halves -> 0 .. NMsgs]]
      BY <1>12, <3>1 DEF Copy, TypeOK
    <3>3. pc' \in [Ends -> PCs]
      BY <1>12 DEF Copy, Goto, TypeOK, PCs
    <3> QED
      BY <1>12, <3>2, <3>3 DEF Copy, TypeOK
  <2>2. PcKind'
    BY <1>12 DEF Copy, Goto, PcKind, Kind
  <2>3. DoneFlags'
    BY <1>12 DEF Copy, Goto, DoneFlags, Flipped, Flopped
  <2>4. Lag'
    BY <1>12 DEF Copy, PcKind, Lag, DoneFlags, Flipped, Ends, Msgs, Peer
  <2>5. BufferFlag'
    BY <1>12 DEF Copy, Goto, BufferFlag
  <2>6. Pointers'
    BY <1>12 DEF Copy, Goto, Pointers, Kind
  <2>7. Copied'
    <3>0. ptr_dst = msg[e] /\ Source(ptr_src) = msg[e] /\ msg[e] \in Msgs /\ Kind(e) = "large"
      BY <1>12 DEF Copy, Source, PcKind, DoneFlags, Lag, Pointers, Flipped, Ends, Msgs, Peer, Kind
    <3>1. ASSUME NEW k \in Msgs, NEW f \in Ends,
                 program'[k] = "large",
                 msg'[f] > k \/ (msg'[f] = k /\ pc'[f] \in {"flop", "flopWait"})
          PROVE  dst'[k][HalfOf(f)] = k
      BY <1>12, <3>1, <3>0 DEF Copy, Goto, HalfOf, Halves, Copied, TypeOK
    <3>2. ASSUME NEW k \in Msgs, NEW h \in Halves,
                 program'[k] = "small",
                 msg'["b"] > k \/ (msg'["b"] = k /\ pc'["b"] = "flagEmpty")
          PROVE  dst'[k][h] = k
      BY <1>12, <3>2, <3>0 DEF Copy, Goto, Copied
    <3> QED
      BY <3>1, <3>2 DEF Copied
  <2> QED BY <2>1, <2>2, <2>3, <2>4, <2>5, <2>6, <2>7
<1>13. ASSUME NEW e \in Ends, Flop(e) PROVE IInv'
  <2>1. TypeOK'
    BY <1>13 DEF Flop, Goto, FlopStore, TypeOK, ShmSyncs, PCs
  <2>2. PcKind'
    BY <1>13 DEF Flop, Goto, PcKind, Kind
  <2>3. DoneFlags'
    BY <1>13 DEF Flop, Goto, FlopStore, TypeOK, PcKind, DoneFlags, Lag, Flipped, Flopped, Ends, Peer, Kind, ShmSyncs
  <2>4. Lag'
    BY <1>13 DEF Flop, PcKind, Lag, DoneFlags, Flipped, Ends, Msgs, Peer, Kind
  <2>5. BufferFlag'
    BY <1>13 DEF Flop, Goto, FlopStore, BufferFlag
  <2>6. Pointers'
    BY <1>13 DEF Flop, Goto, Pointers, Kind
  <2>7. Copied'
    BY <1>13 DEF Flop, Goto, Copied
  <2> QED BY <2>1, <2>2, <2>3, <2>4, <2>5, <2>6, <2>7
<1>14. ASSUME NEW e \in Ends, FlopWait(e) PROVE IInv'
  <2>1. TypeOK'
    BY <1>14 DEF FlopWait, Return, Goto, TypeOK, PcKind, Ends, Msgs, Kind, PCs
  <2>2. PcKind'
    BY <1>14 DEF FlopWait, Return, Goto, TypeOK, PcKind, Kind
  <2>3. DoneFlags'
    BY <1>14 DEF FlopWait, Return, Goto, FlopPassed, TypeOK, DoneFlags, Flipped, Flopped
  <2>4. Lag'
    BY <1>14 DEF FlopWait, Return, Goto, FlopPassed, TypeOK, PcKind, Lag, DoneFlags, Flopped, Ends, Msgs, Peer, Kind
  <2>5. BufferFlag'
    BY <1>14 DEF FlopWait, Return, Goto, TypeOK, PcKind, BufferFlag, Msgs, Kind
  <2>6. Pointers'
    BY <1>14 DEF FlopWait, Return, Goto, TypeOK, Pointers, Kind
  <2>7. Copied'
    <3>1. ASSUME NEW k \in Msgs, NEW f \in Ends,
                 program'[k] = "large",
                 msg'[f] > k \/ (msg'[f] = k /\ pc'[f] \in {"flop", "flopWait"})
          PROVE  dst'[k][HalfOf(f)] = k
      BY <1>14, <3>1 DEF FlopWait, Return, Goto, Copied, TypeOK, Msgs
    <3>2. ASSUME NEW k \in Msgs, NEW h \in Halves,
                 program'[k] = "small",
                 msg'["b"] > k \/ (msg'["b"] = k /\ pc'["b"] = "flagEmpty")
          PROVE  dst'[k][h] = k
      BY <1>14, <3>2 DEF FlopWait, Return, Goto, Copied, PcKind, Msgs, Kind
    <3> QED
      BY <3>1, <3>2 DEF Copied
  <2> QED BY <2>1, <2>2, <2>3, <2>4, <2>5, <2>6, <2>7
<1>15. CASE UNCHANGED vars
  BY <1>15 DEF vars, TypeOK, PcKind, DoneFlags, Lag, BufferFlag, Pointers, Copied, Flipped, Flopped, Kind
<1> QED BY <1>1, <1>2, <1>3, <1>4, <1>5, <1>6, <1>7, <1>8, <1>9, <1>10, <1>11, <1>12, <1>13, <1>14, <1>15 DEF Next, Sender, Receiver, Either, Finished

-----------------------------------------------------------------------------
\* The inductive invariant implies what the two PETs rely on.
LEMMA InvariantImplies == IInv => CopyValid /\ BufferExclusive /\ Delivery
<1> SUFFICES ASSUME IInv PROVE CopyValid /\ BufferExclusive /\ Delivery
  OBVIOUS
<1> USE NMsgsAssumption DEF IInv
<1>1. CopyValid
  <2> SUFFICES ASSUME NEW e \in Ends, pc[e] = "copy"
               PROVE  /\ ptr_src = msg[e] /\ ptr_dst = msg[e]
                      /\ msg[Peer(e)] = msg[e] /\ pc[Peer(e)] # "idle"
    BY DEF CopyValid
  <2>1. Kind(e) = "large" /\ msg[e] \in Msgs /\ Flipped(Peer(e), msg[e])
    BY DEF PcKind, DoneFlags
  <2>2. msg[Peer(e)] = msg[e] /\ pc[Peer(e)] \in {"flipWait", "copy", "flop", "flopWait"}
    BY <2>1 DEF Flipped, Lag, Ends, Peer, TypeOK, Msgs, Kind
  <2> QED
    BY <2>1, <2>2 DEF Pointers, Ends, Peer, Kind
<1>2. BufferExclusive
  <2>1. ~(pc["a"] \in {"fill", "flagFill"} /\ pc["b"] \in {"drain", "flagEmpty"})
    BY DEF BufferFlag
  <2>2. ASSUME pc["a"] = "fill", NEW k \in Msgs, program[k] = "small", k < msg["a"]
        PROVE  k < msg["b"]
    BY <2>2 DEF BufferFlag, Lag, Ends, Peer, TypeOK, Msgs
  <2> QED
    BY <2>1, <2>2 DEF BufferExclusive
<1>3. Delivery
  <2> SUFFICES ASSUME NEW k \in Msgs, k < msg["b"], program[k] # "barrier"
               PROVE  dst[k] = [h \in Halves |-> k]
    BY DEF Delivery
  <2>1. CASE program[k] = "small"
    BY <2>1 DEF Copied, TypeOK, Ends, Msgs
  <2>2. CASE program[k] = "large"
    <3>1. msg["a"] > k \/ (msg["a"] = k /\ pc["a"] = "flopWait")
      BY <2>2 DEF Lag, Ends, Peer, TypeOK, Msgs
    <3>2. dst[k][HalfOf("a")] = k /\ dst[k][HalfOf("b")] = k
      BY <2>2, <3>1 DEF Copied, Ends, TypeOK, Msgs
    <3> QED
      BY <3>2 DEF HalfOf, Halves, TypeOK
  <2> QED
    BY <2>1, <2>2 DEF TypeOK, Kinds
<1> QED
  BY <1>1, <1>2, <1>3

-----------------------------------------------------------------------------
\* IInv holds throughout every run of the program, whatever its length.
THEOREM Invariance == Spec => []IInv
  BY InitInvariant, Inductive, PTL DEF Spec

\* Type correctness of the channel.
THEOREM TypeCorrect == Spec => []TypeOK
<1>1. IInv => TypeOK
  BY DEF IInv
<1> QED
  BY <1>1, Invariance, PTL

\* Both pointers are those of the message being copied, and both PETs are still
\* inside the call (the comment "now ptr_src and ptr_dst are valid").
THEOREM CopiesAreValid == Spec => []CopyValid
  BY InvariantImplies, Invariance, PTL

\* The buffer is never filled while it is drained, or before it is drained.
THEOREM BufferIsExclusive == Spec => []BufferExclusive
  BY InvariantImplies, Invariance, PTL

\* What recv has returned is the whole of the right message.
THEOREM EveryMessageDelivered == Spec => []Delivery
  BY InvariantImplies, Invariance, PTL

-----------------------------------------------------------------------------
\* The result function of the refinement mapping, in an invariant state.
Received == [k \in Msgs |-> IF k < msg["b"] /\ program[k] # "barrier" THEN k ELSE 0]

LEMMA ResultValue == IInv => [k \in Msgs |-> Result(k)] = Received
<1> SUFFICES ASSUME IInv PROVE \A k \in Msgs : Result(k) = Received[k]
  BY DEF Received
<1>1. Delivery
  BY InvariantImplies
<1>2. ASSUME NEW k \in Msgs, k < msg["b"] /\ program[k] # "barrier"
      PROVE  dst[k]["lower"] = k /\ dst[k]["upper"] = k
  <2>1. dst[k] = [h \in Halves |-> k]
    BY <1>1, <1>2 DEF Delivery
  <2> QED
    BY <2>1 DEF Halves
<1> QED
  BY <1>2 DEF Result, Received

\* A synchronous operation ends only after the peer has called it.
LEMMA PeerCalled ==
  ASSUME IInv, NEW e \in Ends, FlopWait(e)
  PROVE  msg[Peer(e)] > msg[e] \/ (msg[Peer(e)] = msg[e] /\ pc[Peer(e)] # "idle")
BY DEF IInv, FlopWait, DoneFlags, Flipped

\* A channel that sync_reset has set up is an abstract one with nothing sent.
LEMMA RefinementInit == Init => P2P!Init
<1> SUFFICES ASSUME Init PROVE P2P!Init
  OBVIOUS
<1>1. \A k \in Msgs : Result(k) = 0
  BY DEF Init, Result, Ends, Msgs
<1> QED
  BY <1>1 DEF Init, P2P!Init, Carries, Ends

\* Every step of the channel is a step of the abstract send and receive, or
\* one it does not see.
LEMMA RefinementStep ==
  ASSUME IInv, [k \in Msgs |-> Result(k)] = Received,
         [k \in Msgs |-> Result(k)]' = Received', [Next]_vars
  PROVE  [P2P!Next]_(P2P!vars)
<1> USE DEF IInv, TypeOK, Received
<1>1. ASSUME NEW e \in Ends, Call(e) PROVE P2P!SendCall \/ P2P!RecvCall
  <2>1. /\ pc[e] = "idle" /\ msg[e] \in Msgs /\ msg[e] - 1 + 1 = msg[e]
        /\ UNCHANGED <<program, msg>> /\ Kind(e) \in Kinds
    BY <1>1 DEF Call, Kind
  <2>2. pc'[e] # "idle" /\ pc'[Peer(e)] = pc[Peer(e)]
    BY <1>1, <2>1 DEF Call, Goto, Peer, Ends, Kinds
  <2>3. CASE e = "a"
    BY <2>1, <2>2, <2>3 DEF P2P!SendCall, Peer
  <2>4. CASE e = "b"
    BY <2>1, <2>2, <2>4 DEF P2P!RecvCall, Peer
  <2> QED
    BY <2>3, <2>4 DEF Ends
<1>2. ASSUME FlagFillReturn \/ FlopWait("a") PROVE P2P!SendReturn
  <2>1. Return("a") /\ pc["a"] # "idle" /\ UNCHANGED program
    BY <1>2 DEF FlagFillReturn, FlopWait
  <2>2. msg["a"] - 1 + 1 = msg["a"] /\ Kind("a") \in Kinds
    BY <2>1 DEF PcKind, Ends, Kind
  <2>3. Kind("a") = "small" \/ (msg["b"] - 1 >= msg["a"] \/ (pc["b"] # "idle" /\ msg["b"] = msg["a"]))
    BY <1>2, PeerCalled DEF FlagFillReturn, PcKind, Ends, Peer
  <2>4. Rendezvous[program[msg["a"] - 1 + 1]] => P2P!RecvCalled(msg["a"] - 1 + 1)
    BY <2>2, <2>3 DEF P2P!RecvCalled, Rendezvous, Ends, Kind
  <2>5. /\ pc'["a"] = "idle" /\ msg'["a"] - 1 = msg["a"] - 1 + 1
        /\ msg'["b"] = msg["b"] /\ pc'["b"] = pc["b"]
    BY <2>1 DEF Return, Goto, Ends
  <2> QED
    BY <2>1, <2>4, <2>5 DEF P2P!SendReturn
<1>3. ASSUME FlagEmptyReturn \/ FlopWait("b") PROVE P2P!RecvReturn
  <2>1. Return("b") /\ pc["b"] # "idle" /\ UNCHANGED program
    BY <1>3 DEF FlagEmptyReturn, FlopWait
  <2>2. msg["b"] - 1 + 1 = msg["b"] /\ msg["b"] \in Msgs /\ Kind("b") \in Kinds
    BY <2>1 DEF PcKind, Ends, Kind
  <2>3. msg["a"] - 1 >= msg["b"] \/ (pc["a"] # "idle" /\ msg["a"] = msg["b"])
    BY <1>3, PeerCalled DEF FlagEmptyReturn, BufferFlag, Ends, Peer
  <2>4. P2P!SendCalled(msg["b"] - 1 + 1)
    BY <2>2, <2>3 DEF P2P!SendCalled, Ends
  <2>5. /\ pc'["b"] = "idle" /\ msg'["b"] = msg["b"] + 1
        /\ msg'["a"] = msg["a"] /\ pc'["a"] = pc["a"]
    BY <2>1 DEF Return, Goto, Ends
  <2>6. Received' = IF Carries[Kind("b")] THEN [Received EXCEPT ![msg["b"]] = msg["b"]] ELSE Received
    <3>1. Received' = [k \in Msgs |-> IF k < msg["b"] + 1 /\ program[k] # "barrier" THEN k ELSE 0]
      BY <2>1, <2>5
    <3>2. \A k \in Msgs : k < msg["b"] + 1 <=> k < msg["b"] \/ k = msg["b"]
      BY <2>2 DEF Msgs, Ends
    <3>3. Carries[Kind("b")] <=> program[msg["b"]] # "barrier"
      BY <2>2 DEF Carries, Kind
    <3> QED
      BY <2>2, <3>1, <3>2, <3>3
  <2>7. (msg["b"] - 1)' = msg["b"] - 1 + 1
    BY <2>5 DEF Ends
  <2> QED
    BY <2>1, <2>2, <2>4, <2>5, <2>6, <2>7 DEF P2P!RecvReturn, Kind
<1>4. ASSUME WaitEmpty \/ Fill \/ SetPtrSrc \/ WaitFill \/ Drain \/ SetPtrDst
              \/ (\E e \in Ends : Flip(e) \/ FlipWait(e) \/ Copy(e) \/ Flop(e))
      PROVE  UNCHANGED P2P!vars
  BY <1>4 DEF P2P!vars, WaitEmpty, Fill, SetPtrSrc, WaitFill, Drain, SetPtrDst, Flip, FlipWait, Copy, Flop, Goto, Ends
<1>5. CASE UNCHANGED vars
  BY <1>5 DEF vars, P2P!vars
<1> QED
  BY <1>1, <1>2, <1>3, <1>4, <1>5 DEF Next, Sender, Receiver, Either, Finished, P2P!Next, Ends

\* The safety half of Implements: messages arrive complete and in order, and a
\* large message or a barrier lets neither PET go before both have called.
THEOREM Refinement == Spec => P2P!Init /\ [][P2P!Next]_(P2P!vars)
<1>1. IInv /\ IInv' /\ [Next]_vars => [P2P!Next]_(P2P!vars)
  <2>1. IInv' => ([k \in Msgs |-> Result(k)] = Received)'
    BY ResultValue, PTL
  <2> QED
    BY <2>1, ResultValue, RefinementStep
<1> QED
  BY <1>1, RefinementInit, Invariance, PTL DEF Spec

-----------------------------------------------------------------------------
(* Memory and mutexes that the PETs of a process allocate together.           *)

(* A set of PETs is finite and not larger than all of them. *)
LEMMA ThreadsFinite ==
  ASSUME nthreads \in Nat, NEW S, S \subseteq Threads
  PROVE  IsFiniteSet(S) /\ Cardinality(S) \in Nat /\ Cardinality(S) <= nthreads
<1>1. IsFiniteSet(Threads) /\ Cardinality(Threads) = nthreads
  BY FS_Interval DEF Threads
<1> QED
  BY <1>1, FS_Subset, FS_CardinalityType

(* An element that a PET has still to deallocate counts somebody. *)
LEMMA OwedInUse ==
  ASSUME IpTypeOK, Counts, NEW k \in 1 .. Len(list), NEW t \in Owed(k)
  PROVE  InUse(k)
<1>0. nthreads \in Nat
  BY IpShmAssumption DEF IpTypeOK
<1>1. Owed(k) \subseteq Threads
  BY DEF Owed
<1>2. IsFiniteSet(Owed(k)) /\ Cardinality(Owed(k)) \in Nat
  BY <1>0, <1>1, ThreadsFinite
<1>3. Cardinality(Owed(k)) # 0
  BY <1>2, FS_EmptySet
<1> QED
  BY <1>2, <1>3 DEF Counts, InUse

(* An element of the shared list: an address, and a count of PETs. *)
LEMMA ElementTyped ==
  ASSUME IpTypeOK, NEW k \in 1 .. Len(list)
  PROVE  list[k] \in [allocation : Addresses, auxCounter : 0 .. nthreads] /\ At(k) \in Addresses
<1> DEFINE Elements == [allocation : Addresses, auxCounter : 0 .. nthreads]
<1>1. list \in Seq(Elements)
  BY DEF IpTypeOK
<1>2. list[k] \in Elements
  <2> HIDE DEF Elements
  <2> QED
    BY <1>1
<1> QED
  BY <1>2 DEF At

(* The loop of ipshmdeallocate that looks for a pointer from the back of the   *)
(* list ends at the element that still counts it: addresses are reused only    *)
(* by elements that come after one that counts nobody.                         *)
LEMMA FoundIs ==
  ASSUME IpTypeOK, Apart, NEW k \in 1 .. Len(list), InUse(k)
  PROVE  Found(At(k)) = k
<1>0. DOMAIN list = 1 .. Len(list)
  BY DEF IpTypeOK
<1> DEFINE P(i) == /\ list[i].allocation = At(k)
                   /\ \A j \in DOMAIN list : list[j].allocation = At(k) => j <= i
<1>1. P(k)
  BY DEF Apart, At
<1>2. \A i \in DOMAIN list : P(i) => i = k
  BY <1>1 DEF At
<1>3. Found(At(k)) \in DOMAIN list /\ P(Found(At(k)))
  BY <1>1 DEF Found
<1> HIDE DEF P
<1> QED
  BY <1>2, <1>3

(* The invariant holds when the PETs have started: the list is empty. *)
LEMMA InitKeeps == IpInit => IpInv
<1> SUFFICES ASSUME IpInit PROVE IpInv
  OBVIOUS
<1> USE IpShmAssumption DEF IpInit
<1>1. IpTypeOK
  BY DEF IpTypeOK, Threads, Allocs, Addresses
<1>2. Agreement
  BY DEF Agreement
<1>3. Tops /\ Firsts /\ Released
  BY DEF Tops, Firsts, Released, Threads, Allocs
<1>4. Counts /\ Apart /\ Backed /\ Initialised /\ Alone
  BY DEF Counts, Apart, Backed, Initialised, Alone
<1>5. Setup
  BY DEF Setup, Threads
<1> QED
  BY <1>1, <1>2, <1>3, <1>4, <1>5 DEF IpInv, Kept

-----------------------------------------------------------------------------
(* What the types say of the numbers and sequences the proofs use all the time. *)
LEMMA Basics ==
  ASSUME IpTypeOK
  PROVE  /\ nthreads \in Nat \ {0} /\ NAllocs \in Nat /\ Allocs = 1 .. NAllocs
         /\ Len(list) \in Nat /\ Len(list) <= NAllocs
         /\ pointers \in [Threads -> Seq(Addresses)]
         /\ \A u \in Threads : Len(pointers[u]) \in Nat /\ DOMAIN pointers[u] = 1 .. Len(pointers[u])
         /\ 0 \notin Threads
<1>1. nthreads \in Nat \ {0} /\ NAllocs \in Nat
  BY IpShmAssumption DEF IpTypeOK
<1>2. /\ pointers \in [Threads -> Seq(Addresses)]
      /\ list \in Seq([allocation : Addresses, auxCounter : 0 .. nthreads])
      /\ Len(list) <= NAllocs
  BY DEF IpTypeOK
<1>3. 0 \notin Threads /\ Allocs = 1 .. NAllocs
  BY DEF Threads, Allocs
<1> QED
  BY <1>1, <1>2, <1>3

(* ipshmallocate: the PET whose top is the end of the list appends an element   *)
(* that counts all PETs, every other one takes the element after its top.      *)
LEMMA AllocateKeeps ==
  ASSUME IpTypeOK, Kept, NEW t \in Threads, Allocate(t), UNCHANGED <<requests, nthreads, released>>,
         NEW k \in Allocs, k = Len(pointers[t]) + 1
  PROVE  /\ list' \in Seq([allocation : Addresses, auxCounter : 0 .. nthreads])
         /\ Len(list') <= NAllocs
         /\ ipshmLocalTop' \in [Threads -> 0 .. NAllocs]
         /\ heap' \in [Addresses -> 0 .. NAllocs]
         /\ pth_mutex' \in [Addresses -> {"raw", "init", "destroyed"}]
         /\ firsts' \in [Allocs -> SUBSET Threads]
         /\ pointers' \in [Threads -> Seq(Addresses)]
         /\ \A u \in Threads \ {t} : pointers'[u] = pointers[u]
         /\ Len(pointers'[t]) = k
         /\ Len(list) <= Len(list')
         /\ \A j \in 1 .. Len(list) : At(j)' = At(j) /\ InUse(j)' = InUse(j)
         /\ \A j \in 1 .. Len(list) : firsts'[j] = firsts[j]
         /\ \A j \in 1 .. Len(list) : InUse(j) => pth_mutex'[At(j)] = pth_mutex[At(j)]
         /\ \A j \in (1 .. Len(list')) \ (1 .. Len(list)) :
               j = k /\ firsts'[j] = {t}
         /\ (Tops /\ Firsts /\ Released /\ Counts /\ Apart /\ Backed)'
<1>0. /\ nthreads \in Nat \ {0} /\ nthreads' = nthreads /\ Threads' = Threads
      /\ NAllocs \in Nat /\ Allocs = 1 .. NAllocs /\ k \in 1 .. NAllocs
      /\ Len(list) \in Nat /\ DOMAIN list = 1 .. Len(list)
      /\ \A u \in Threads : Len(pointers[u]) \in Nat /\ pointers[u] \in Seq(Addresses)
      /\ requests' = requests /\ released' = released
      /\ list \in Seq([allocation : Addresses, auxCounter : 0 .. nthreads])
      /\ pointers \in [Threads -> Seq(Addresses)]
      /\ ipshmLocalTop \in [Threads -> 0 .. NAllocs]
      /\ released \in [Threads -> SUBSET Allocs]
  <2>1. /\ nthreads' = nthreads /\ Threads' = Threads
        /\ requests' = requests /\ released' = released
    BY DEF Threads
  <2>2. /\ list \in Seq([allocation : Addresses, auxCounter : 0 .. nthreads])
        /\ ipshmLocalTop \in [Threads -> 0 .. NAllocs]
        /\ released \in [Threads -> SUBSET Allocs]
    BY DEF IpTypeOK
  <2>3. k \in 1 .. NAllocs /\ DOMAIN list = 1 .. Len(list)
    BY <2>2 DEF Allocs
  <2>. QED
    BY <2>1, <2>2, <2>3, Basics
<1>1. /\ ipshmLocalTop[t] = Len(pointers[t])
      /\ Tops /\ Firsts /\ Released /\ Counts /\ Apart /\ Backed
  BY DEF Kept, Tops
<1>2. CASE IsFirst(t)
  <2>1. PICK a \in Addresses :
          /\ Malloc(a)
          /\ heap' = [heap EXCEPT ![a] = k]
          /\ pth_mutex' = [pth_mutex EXCEPT ![a] = "raw"]
          /\ list' = Append(list, [allocation |-> a, auxCounter |-> nthreads])
          /\ ipshmLocalTop' = [ipshmLocalTop EXCEPT ![t] = Len(list) + 1]
          /\ firsts' = [firsts EXCEPT ![k] = @ \cup {t}]
          /\ pointers' = [pointers EXCEPT ![t] = Append(@, a)]
    BY <1>2 DEF Allocate
  <2>2. k = Len(list) + 1
    BY <1>1, <1>2 DEF IsFirst
  <2>3. /\ list' \in Seq([allocation : Addresses, auxCounter : 0 .. nthreads])
        /\ Len(list') = k /\ Len(list') <= NAllocs
        /\ list'[k] = [allocation |-> a, auxCounter |-> nthreads]
        /\ \A j \in 1 .. Len(list) : list'[j] = list[j]
    <3>1. [allocation |-> a, auxCounter |-> nthreads] \in [allocation : Addresses, auxCounter : 0 .. nthreads]
      BY <1>0
    <3> QED
      BY <1>0, <2>1, <2>2 DEF IpTypeOK
  <2>4. /\ pointers' \in [Threads -> Seq(Addresses)]
        /\ \A u \in Threads \ {t} : pointers'[u] = pointers[u]
        /\ Len(pointers'[t]) = k
        /\ pointers'[t][k] = a
        /\ \A j \in 1 .. Len(pointers[t]) : pointers'[t][j] = pointers[t][j]
    BY <2>1 DEF IpTypeOK
  <2>5. /\ ipshmLocalTop' \in [Threads -> 0 .. NAllocs]
        /\ heap' \in [Addresses -> 0 .. NAllocs]
        /\ pth_mutex' \in [Addresses -> {"raw", "init", "destroyed"}]
        /\ firsts' \in [Allocs -> SUBSET Threads]
    BY <1>0, <2>1, <2>2 DEF IpTypeOK
  <2>6. \A j \in 1 .. Len(list) : At(j)' = At(j) /\ InUse(j)' = InUse(j)
    BY <2>3 DEF At, InUse
  <2>7. At(k)' = a /\ InUse(k)'
    BY <1>0, <2>3 DEF At, InUse
  <2>8. \A j \in 1 .. Len(list) : InUse(j) => At(j) # a /\ heap[At(j)] = j
    BY <1>1, <2>1 DEF Malloc, Apart
  <2>9. firsts \in [Allocs -> SUBSET Threads] /\ firsts[k] = {} /\ firsts'[k] = {t} /\ \A j \in Allocs \ {k} : firsts'[j] = firsts[j]
    <3>1. firsts \in [Allocs -> SUBSET Threads]
      BY DEF IpTypeOK
    <3>2. firsts[k] = {}
      <4>1. ~ (k <= Len(list))
        BY <2>2
      <4> QED
        BY <1>1, <4>1 DEF Firsts
    <3> QED
      BY <2>1, <3>1, <3>2
  <2>grows. \A u \in Threads : Len(pointers'[u]) \in Nat /\ Len(pointers[u]) <= Len(pointers'[u])
    <3> SUFFICES ASSUME NEW u \in Threads
                 PROVE  Len(pointers'[u]) \in Nat /\ Len(pointers[u]) <= Len(pointers'[u])
      OBVIOUS
    <3>1. CASE u = t
      BY <2>4
    <3>2. CASE u # t
      BY <2>4
    <3> QED
      BY <3>1, <3>2
  <2>10. Tops'
    <3> SUFFICES ASSUME NEW u \in Threads
                 PROVE  /\ ipshmLocalTop'[u] = Len(pointers'[u])
                        /\ Len(pointers'[u]) <= Len(list')
                        /\ \A j \in 1 .. Len(pointers'[u]) : pointers'[u][j] = At(j)'
      BY <1>0 DEF Tops
    <3>1. CASE u = t
      BY <1>0, <1>1, <2>1, <2>3, <2>6, <2>7 DEF Tops
    <3>2. CASE u # t
      BY <3>2, <1>1, <2>1, <2>6 DEF Tops
    <3> QED
      BY <3>1, <3>2
  <2>11. Firsts'
    <3> SUFFICES ASSUME NEW j \in Allocs
                 PROVE  IF j <= Len(list')
                          THEN \E u \in Threads : firsts'[j] = {u} /\ j <= Len(pointers'[u])
                          ELSE firsts'[j] = {}
      BY <1>0 DEF Firsts
    <3>1. CASE j = k
      BY <3>1, <2>3, <2>4, <2>9
    <3>2. CASE j # k
      <4>1. firsts'[j] = firsts[j]
        BY <3>2, <2>9
      <4>2. j <= Len(list') <=> j <= Len(list)
        BY <1>0, <3>2, <2>2, <2>3
      <4>3. CASE j <= Len(list)
        <5>1. PICK u \in Threads : firsts[j] = {u} /\ j <= Len(pointers[u])
          BY <1>1, <4>3 DEF Firsts
        <5>2. j \in Nat /\ j <= Len(pointers'[u])
          BY <1>0, <5>1, <2>grows
        <5> QED
          BY <5>1, <5>2, <4>1, <4>2, <4>3
      <4>4. CASE ~ (j <= Len(list))
        BY <1>1, <4>1, <4>2, <4>4 DEF Firsts
      <4> QED
        BY <4>3, <4>4
    <3> QED
      BY <3>1, <3>2
  <2>12. Released'
    <3> SUFFICES ASSUME NEW u \in Threads, NEW j \in released[u]
                 PROVE  j <= Len(pointers'[u])
      BY <1>0 DEF Released
    <3>1. j \in Nat /\ j <= Len(pointers[u])
      BY <1>0, <1>1 DEF Released
    <3> QED
      BY <2>grows, <3>1
  <2>13. Counts'
    <3>1. Owed(k) = Threads
      BY <1>1, <2>2 DEF Owed, Released, Tops
    <3>2. Cardinality(Owed(k)) = nthreads
      BY <1>0, <3>1, FS_Interval DEF Threads
    <3>3. \A j : Owed(j)' = Owed(j)
      BY <1>0 DEF Owed
    <3> SUFFICES ASSUME NEW j \in 1 .. Len(list')
                 PROVE  list'[j].auxCounter = IF nthreads = 1 THEN 1 ELSE Cardinality(Owed(j))
      BY <3>3 DEF Counts
    <3>4. CASE j = k
      BY <3>4, <2>3, <3>2
    <3>5. CASE j # k
      <4>1. j \in 1 .. Len(list)
        BY <2>2, <2>3, <3>5
      <4> QED
        BY <1>1, <2>3, <4>1 DEF Counts
    <3> QED
      BY <3>4, <3>5
  <2>14. Apart'
    <3>1. \A j \in 1 .. Len(list') : j = k \/ j \in 1 .. Len(list)
      BY <2>2, <2>3
    <3>2. \A j \in 1 .. Len(list') : InUse(j)' => heap'[At(j)'] = j
      <4> SUFFICES ASSUME NEW j \in 1 .. Len(list'), InUse(j)' PROVE heap'[At(j)'] = j
        OBVIOUS
      <4>0. heap \in [Addresses -> 0 .. NAllocs]
        BY DEF IpTypeOK
      <4>1. CASE j = k
        BY <4>0, <4>1, <2>1, <2>7
      <4>2. CASE j \in 1 .. Len(list)
        BY <4>2, <2>1, <2>6, <2>8
      <4> QED
        BY <3>1, <4>1, <4>2
    <3>3. \A i, j \in 1 .. Len(list') : i < j /\ InUse(i)' => At(i)' # At(j)'
      <4> SUFFICES ASSUME NEW i \in 1 .. Len(list'), NEW j \in 1 .. Len(list'), i < j, InUse(i)'
                   PROVE At(i)' # At(j)'
        OBVIOUS
      <4>1. i \in 1 .. Len(list)
        BY <2>2, <2>3
      <4>2. CASE j = k
        BY <4>1, <4>2, <2>6, <2>7, <2>8
      <4>3. CASE j \in 1 .. Len(list)
        BY <1>1, <4>3, <2>6 DEF Apart
      <4> QED
        BY <3>1, <4>2, <4>3
    <3> QED
      BY <3>2, <3>3 DEF Apart
  <2>b. Backed'
    <3> SUFFICES ASSUME NEW b \in Addresses, heap'[b] # 0
                 PROVE  \E j \in 1 .. Len(list') : InUse(j)' /\ At(j)' = b
      BY DEF Backed
    <3>1. CASE b = a
      BY <2>3, <2>7, <3>1
    <3>2. CASE b # a
      <4>1. heap[b] # 0
        BY <2>1, <3>2
      <4>2. PICK j \in 1 .. Len(list) : InUse(j) /\ At(j) = b
        BY <1>1, <4>1 DEF Backed
      <4> QED
        BY <2>2, <2>3, <2>6, <4>2
    <3> QED
      BY <3>1, <3>2
  <2>15. \A j \in 1 .. Len(list) : InUse(j) => pth_mutex'[At(j)] = pth_mutex[At(j)]
    <3>1. pth_mutex \in [Addresses -> {"raw", "init", "destroyed"}]
      BY DEF IpTypeOK
    <3> QED
      BY <2>1, <2>8
  <2>16. \A j \in 1 .. Len(list) : firsts'[j] = firsts[j]
    BY <1>0, <2>2, <2>9
  <2> QED
    <3>1. \A j \in (1 .. Len(list')) \ (1 .. Len(list)) : j = k /\ firsts'[j] = {t}
      BY <2>2, <2>3, <2>9
    <3>2. Len(list) <= Len(list')
      BY <2>2, <2>3
    <3> QED
      BY <3>1, <3>2, <2>3, <2>4, <2>5, <2>6, <2>10, <2>11, <2>12, <2>13, <2>14, <2>15, <2>16, <2>b
<1>3. CASE ~ IsFirst(t)
  <2>1. /\ ipshmLocalTop' = [ipshmLocalTop EXCEPT ![t] = k]
        /\ pointers' = [pointers EXCEPT ![t] = Append(@, At(k))]
        /\ UNCHANGED <<heap, pth_mutex, list, firsts>>
    BY <1>1, <1>3 DEF Allocate, Secondary, At
  <2>2. k \in 1 .. Len(list)
    BY <1>1, <1>3 DEF IsFirst, Tops
  <2>3. At(k) \in Addresses
    BY <2>2, ElementTyped
  <2>4. /\ pointers' \in [Threads -> Seq(Addresses)]
        /\ \A u \in Threads \ {t} : pointers'[u] = pointers[u]
        /\ Len(pointers'[t]) = k
        /\ pointers'[t][k] = At(k)
        /\ \A j \in 1 .. Len(pointers[t]) : pointers'[t][j] = pointers[t][j]
    BY <2>1, <2>3 DEF IpTypeOK
  <2>5. \A j : At(j)' = At(j) /\ InUse(j)' = InUse(j) /\ Owed(j)' = Owed(j)
    BY <1>0, <2>1 DEF At, InUse, Owed
  <2>6. Tops'
    <3> SUFFICES ASSUME NEW u \in Threads
                 PROVE  /\ ipshmLocalTop'[u] = Len(pointers'[u])
                        /\ Len(pointers'[u]) <= Len(list')
                        /\ \A j \in 1 .. Len(pointers'[u]) : pointers'[u][j] = At(j)'
      BY <1>0 DEF Tops
    <3>1. CASE u = t
      BY <1>0, <1>1, <2>1, <2>2, <2>5 DEF Tops
    <3>2. CASE u # t
      BY <3>2, <1>1, <2>1, <2>5 DEF Tops
    <3> QED
      BY <3>1, <3>2
  <2>grows. \A u \in Threads : Len(pointers'[u]) \in Nat /\ Len(pointers[u]) <= Len(pointers'[u])
    BY <2>4
  <2>7. Firsts' /\ Released'
    <3>1. Firsts'
      <4> SUFFICES ASSUME NEW j \in Allocs
                   PROVE  IF j <= Len(list)
                            THEN \E u \in Threads : firsts[j] = {u} /\ j <= Len(pointers'[u])
                            ELSE firsts[j] = {}
        BY <1>0, <2>1 DEF Firsts
      <4>1. CASE j <= Len(list)
        <5>1. PICK u \in Threads : firsts[j] = {u} /\ j <= Len(pointers[u])
          BY <1>1, <4>1 DEF Firsts
        <5> QED
          BY <2>grows, <4>1, <5>1
      <4>2. CASE ~ (j <= Len(list))
        BY <1>1, <4>2 DEF Firsts
      <4> QED
        BY <4>1, <4>2
    <3>2. Released'
      <4> SUFFICES ASSUME NEW u \in Threads, NEW j \in released[u]
                   PROVE  j <= Len(pointers'[u])
        BY <1>0 DEF Released
      <4>1. j \in Nat /\ j <= Len(pointers[u])
        BY <1>0, <1>1 DEF Released
      <4> QED
        BY <2>grows, <4>1
    <3> QED
      BY <3>1, <3>2
  <2>8. Counts' /\ Apart' /\ Backed'
    BY <1>1, <2>1, <2>5 DEF Counts, Apart, Backed
  <2> QED
    <3>1. /\ heap \in [Addresses -> 0 .. NAllocs] /\ firsts \in [Allocs -> SUBSET Threads]
          /\ pth_mutex \in [Addresses -> {"raw", "init", "destroyed"}] /\ Len(list) <= NAllocs
      BY DEF IpTypeOK
    <3>2. ipshmLocalTop' \in [Threads -> 0 .. NAllocs]
      BY <1>0, <2>1
    <3>3. \A j \in (1 .. Len(list')) \ (1 .. Len(list)) : j = k /\ firsts'[j] = {t}
      BY <2>1
    <3> QED
      BY <1>0, <2>1, <2>4, <2>5, <2>6, <2>7, <2>8, <3>1, <3>3
<1> QED
  BY <1>2, <1>3

-----------------------------------------------------------------------------
(* ipshmdeallocate, for a PET that still holds its k-th allocation: the element *)
(* it finds is the k-th one, and the last PET to be counted frees the memory.  *)
LEMMA DeallocateKeeps ==
  ASSUME IpTypeOK, Kept, NEW t \in Threads, NEW k \in 1 .. Len(pointers[t]), k \notin released[t],
         Deallocate(t, k), UNCHANGED <<requests, nthreads, pointers, ipshmLocalTop, firsts>>
  PROVE  /\ list' \in Seq([allocation : Addresses, auxCounter : 0 .. nthreads])
         /\ Len(list') = Len(list)
         /\ heap' \in [Addresses -> 0 .. NAllocs]
         /\ released' \in [Threads -> SUBSET Allocs]
         /\ released'[t] = released[t] \cup {k}
         /\ \A u \in Threads \ {t} : released'[u] = released[u]
         /\ \A j \in 1 .. Len(list) : At(j)' = At(j)
         /\ (Tops /\ Firsts /\ Released /\ Counts /\ Apart /\ Backed)'
<1>0. /\ nthreads \in Nat \ {0} /\ nthreads' = nthreads /\ Threads' = Threads
      /\ NAllocs \in Nat /\ Allocs = 1 .. NAllocs
      /\ Len(list) \in Nat /\ DOMAIN list = 1 .. Len(list) /\ Len(list) <= NAllocs
      /\ \A u \in Threads : Len(pointers[u]) \in Nat
      /\ list \in Seq([allocation : Addresses, auxCounter : 0 .. nthreads])
      /\ heap \in [Addresses -> 0 .. NAllocs]
      /\ released \in [Threads -> SUBSET Allocs]
      /\ pointers' = pointers /\ ipshmLocalTop' = ipshmLocalTop /\ firsts' = firsts
  <2>1. nthreads \in Nat \ {0} /\ NAllocs \in Nat
    BY IpShmAssumption DEF IpTypeOK
  <2>2. Threads' = Threads /\ Allocs = 1 .. NAllocs
    BY DEF Threads, Allocs
  <2>3. /\ list \in Seq([allocation : Addresses, auxCounter : 0 .. nthreads])
        /\ Len(list) <= NAllocs /\ heap \in [Addresses -> 0 .. NAllocs]
        /\ released \in [Threads -> SUBSET Allocs] /\ pointers \in [Threads -> Seq(Addresses)]
    BY DEF IpTypeOK
  <2> QED
    BY <2>1, <2>2, <2>3
<1>1. Tops /\ Firsts /\ Released /\ Counts /\ Apart /\ Backed
  BY DEF Kept
<1>2. k \in 1 .. Len(list) /\ pointers[t][k] = At(k) /\ k \in Allocs
  BY <1>0, <1>1 DEF Tops
<1>3. t \in Owed(k) /\ InUse(k)
  <2>1. t \in Owed(k)
    BY DEF Owed
  <2> QED
    BY <1>1, <1>2, <2>1, OwedInUse
<1>4. Found(At(k)) = k
  BY <1>1, <1>2, <1>3, FoundIs
<1>5. /\ released' = [released EXCEPT ![t] = @ \cup {k}]
      /\ IF nthreads = 1 THEN list' = list /\ heap' = heap
         ELSE /\ list' = [list EXCEPT ![k].auxCounter = @ - 1]
              /\ heap' = IF list[k].auxCounter - 1 = 0 THEN [heap EXCEPT ![At(k)] = 0] ELSE heap
  BY <1>2, <1>4 DEF Deallocate, IsLast
<1>6. /\ released' \in [Threads -> SUBSET Allocs]
      /\ released'[t] = released[t] \cup {k}
      /\ \A u \in Threads \ {t} : released'[u] = released[u]
  BY <1>0, <1>2, <1>5
<1>7. Tops' /\ Firsts'
      /\ list' \in Seq([allocation : Addresses, auxCounter : 0 .. nthreads])
      /\ Len(list') = Len(list)
      /\ heap' \in [Addresses -> 0 .. NAllocs]
      /\ \A j \in 1 .. Len(list) :
            /\ At(j)' = At(j)
            /\ list'[j].auxCounter = IF j = k /\ nthreads # 1 THEN list[j].auxCounter - 1
                                                              ELSE list[j].auxCounter
  <2>1. \A j \in 1 .. Len(list) :
          list[j] \in [allocation : Addresses, auxCounter : 0 .. nthreads]
    BY ElementTyped
  <2>2. list[k].auxCounter - 1 \in 0 .. nthreads
    BY <1>0, <1>2, <1>3, <2>1 DEF InUse
  <2>3. /\ list' \in Seq([allocation : Addresses, auxCounter : 0 .. nthreads])
        /\ Len(list') = Len(list)
        /\ \A j \in 1 .. Len(list) :
            /\ list'[j].allocation = list[j].allocation
            /\ list'[j].auxCounter = IF j = k /\ nthreads # 1 THEN list[j].auxCounter - 1
                                                              ELSE list[j].auxCounter
    <3>1. CASE nthreads = 1
      BY <1>0, <1>5, <3>1
    <3>2. CASE nthreads # 1
      <4> DEFINE Elements == [allocation : Addresses, auxCounter : 0 .. nthreads]
                 e == [list[k] EXCEPT !.auxCounter = @ - 1]
      <4>1. e \in Elements /\ e.allocation = list[k].allocation /\ e.auxCounter = list[k].auxCounter - 1
        BY <1>2, <2>1, <2>2
      <4>2. list' = [list EXCEPT ![k] = e]
        BY <1>5, <3>2
      <4>3. list \in Seq(Elements)
        BY <1>0
      <4> HIDE DEF e, Elements
      <4>4. /\ list' \in Seq(Elements)
            /\ Len(list') = Len(list)
            /\ list'[k] = e /\ \A j \in 1 .. Len(list) : j # k => list'[j] = list[j]
        BY <1>2, <4>1, <4>2, <4>3
      <4> QED
        BY <3>2, <4>1, <4>4 DEF Elements
    <3> QED
      BY <3>1, <3>2
  <2>4. heap' \in [Addresses -> 0 .. NAllocs]
    <3>1. CASE heap' = heap
      BY <1>0, <3>1
    <3>2. CASE heap' = [heap EXCEPT ![At(k)] = 0]
      <4>1. 0 \in 0 .. NAllocs
        BY <1>0
      <4>2. heap \in [Addresses -> 0 .. NAllocs]
        BY <1>0
      <4> QED
        BY <3>2, <4>1, <4>2
    <3> QED
      BY <1>5, <3>1, <3>2
  <2>5. \A j \in 1 .. Len(list) : At(j)' = At(j)
    BY <2>3 DEF At
  <2>6. Tops'
    <3>1. \A u \in Threads : \A j \in 1 .. Len(pointers[u]) : j \in 1 .. Len(list)
      BY <1>1 DEF Tops
    <3> QED
      <4> SUFFICES ASSUME NEW u \in Threads
                   PROVE  /\ ipshmLocalTop[u] = Len(pointers[u])
                          /\ Len(pointers[u]) <= Len(list')
                          /\ \A j \in 1 .. Len(pointers[u]) : pointers[u][j] = At(j)'
        BY <1>0 DEF Tops
      <4> QED
        BY <1>1, <2>3, <2>5 DEF Tops
  <2>7. Firsts'
    BY <1>0, <1>1, <2>3 DEF Firsts
  <2> QED
    BY <2>3, <2>4, <2>5, <2>6, <2>7
<1>8. Released'
  <2> SUFFICES ASSUME NEW u \in Threads, NEW j \in released'[u]
               PROVE  j <= Len(pointers[u])
    BY <1>0 DEF Released
  <2> QED
    BY <1>1, <1>6 DEF Released
<1>9. \A j \in 1 .. Len(list) : Owed(j)' = IF j = k THEN Owed(j) \ {t} ELSE Owed(j)
  BY <1>0, <1>6 DEF Owed
<1>10. Counts'
  <2> SUFFICES ASSUME NEW j \in 1 .. Len(list)
               PROVE  list'[j].auxCounter = IF nthreads = 1 THEN 1 ELSE Cardinality(Owed(j)')
    BY <1>7 DEF Counts
  <2>1. IsFiniteSet(Owed(j)) /\ Cardinality(Owed(j)) \in Nat
    BY <1>0, ThreadsFinite DEF Owed
  <2>2. CASE j = k
    <3>1. Cardinality(Owed(k) \ {t}) = Cardinality(Owed(k)) - 1
      BY <1>3, <2>1, <2>2, FS_RemoveElement
    <3> QED
      BY <1>1, <1>7, <1>9, <2>2, <3>1 DEF Counts
  <2>3. CASE j # k
    BY <1>1, <1>7, <1>9, <2>3 DEF Counts
  <2> QED
    BY <2>2, <2>3
<1>11. Apart'
  <2>1. \A j \in 1 .. Len(list) : InUse(j)' => InUse(j) /\ (j = k /\ nthreads # 1 => list[k].auxCounter - 1 # 0)
    <3> SUFFICES ASSUME NEW j \in 1 .. Len(list), InUse(j)'
                 PROVE  InUse(j) /\ (j = k /\ nthreads # 1 => list[k].auxCounter - 1 # 0)
      OBVIOUS
    <3>1. list[j].auxCounter \in 0 .. nthreads
      BY ElementTyped
    <3>2. CASE j = k /\ nthreads # 1
      <4>1. list'[j].auxCounter = list[j].auxCounter - 1 /\ list'[j].auxCounter > 0
        BY <1>7, <3>2 DEF InUse
      <4>2. list[j].auxCounter \in Nat
        BY <3>1
      <4> QED
        BY <4>1, <4>2 DEF InUse
    <3>3. CASE ~ (j = k /\ nthreads # 1)
      BY <1>7, <3>3 DEF InUse
    <3> QED
      BY <3>2, <3>3
  <2>2. \A j \in 1 .. Len(list) : InUse(j)' => heap'[At(j)] = j
    <3> SUFFICES ASSUME NEW j \in 1 .. Len(list), InUse(j)' PROVE heap'[At(j)] = j
      OBVIOUS
    <3>1. heap[At(j)] = j /\ heap[At(k)] = k /\ At(j) \in Addresses /\ At(k) \in Addresses
      BY <1>1, <1>2, <1>3, <2>1, ElementTyped DEF Apart
    <3>2. CASE j = k
      BY <1>5, <2>1, <3>1, <3>2
    <3>3. CASE j # k
      BY <1>0, <1>5, <3>1, <3>3
    <3> QED
      BY <3>2, <3>3
  <2> QED
    BY <1>1, <1>7, <2>1, <2>2 DEF Apart
<1>12. Backed'
  <2> SUFFICES ASSUME NEW b \in Addresses, heap'[b] # 0
               PROVE  \E j \in 1 .. Len(list') : InUse(j)' /\ At(j)' = b
    BY DEF Backed
  <2>1. /\ heap[b] # 0
        /\ b = At(k) => nthreads = 1 \/ list[k].auxCounter - 1 # 0
    <3>1. CASE heap' = heap /\ (nthreads = 1 \/ list[k].auxCounter - 1 # 0)
      BY <3>1
    <3>2. CASE heap' = [heap EXCEPT ![At(k)] = 0]
      BY <1>0, <3>2
    <3> QED
      BY <1>5, <3>2
  <2>2. PICK j \in 1 .. Len(list) : InUse(j) /\ At(j) = b
    BY <1>1, <2>1 DEF Backed
  <2>3. InUse(j)'
    <3>1. list[j].auxCounter \in 0 .. nthreads
      BY ElementTyped
    <3>2. CASE j = k /\ nthreads # 1
      <4>1. list'[j].auxCounter = list[j].auxCounter - 1
        BY <1>7, <3>2
      <4> QED
        BY <2>1, <2>2, <3>1, <3>2, <4>1 DEF InUse
    <3>3. CASE ~ (j = k /\ nthreads # 1)
      BY <1>7, <2>2, <3>3 DEF InUse
    <3> QED
      BY <3>2, <3>3
  <2> QED
    BY <1>7, <2>2, <2>3
<1> QED
  BY <1>6, <1>7, <1>8, <1>10, <1>11, <1>12

-----------------------------------------------------------------------------
(* ipshmallocate alone touches no mutex. *)
LEMMA AllocateMemoryKeeps ==
  ASSUME IpInv, NEW t \in Threads, AllocateMemory(t)
  PROVE  IpTypeOK' /\ Kept'
<1>0. PICK k \in Allocs : k = Len(pointers[t]) + 1 /\ requests[k] = "memory" /\ place[t] = "user"
  BY DEF AllocateMemory, Asks
<1>1. /\ IpTypeOK /\ Kept /\ Allocate(t)
      /\ UNCHANGED <<requests, nthreads, released>>
      /\ UNCHANGED <<ipSetupMutex, lastFlag, place, now>>
      /\ Threads' = Threads
  BY <1>0 DEF IpInv, AllocateMemory, Destructed, Running, Const, Threads
<1>2. /\ list' \in Seq([allocation : Addresses, auxCounter : 0 .. nthreads])
      /\ Len(list') <= NAllocs
      /\ ipshmLocalTop' \in [Threads -> 0 .. NAllocs]
      /\ heap' \in [Addresses -> 0 .. NAllocs]
      /\ pth_mutex' \in [Addresses -> {"raw", "init", "destroyed"}]
      /\ firsts' \in [Allocs -> SUBSET Threads]
      /\ pointers' \in [Threads -> Seq(Addresses)]
      /\ \A u \in Threads \ {t} : pointers'[u] = pointers[u]
      /\ Len(pointers'[t]) = k
      /\ \A j \in 1 .. Len(list) : At(j)' = At(j)
      /\ \A j \in 1 .. Len(list) : firsts'[j] = firsts[j]
      /\ \A j \in 1 .. Len(list) : InUse(j) => pth_mutex'[At(j)] = pth_mutex[At(j)]
      /\ \A j \in (1 .. Len(list')) \ (1 .. Len(list)) : j = k /\ firsts'[j] = {t}
      /\ (Tops /\ Firsts /\ Released /\ Counts /\ Apart /\ Backed)'
  BY <1>0, <1>1, AllocateKeeps
<1>3. IpTypeOK'
  BY <1>1, <1>2 DEF IpTypeOK
<1>4. Setup'
  <2> SUFFICES ASSUME NEW u \in Threads
               PROVE  /\ place[u] \in {"init", "free"} <=> ipSetupMutex = u
                      /\ place[u] \in {"init", "free"} =>
                           /\ now[u] \in 1 .. Len(pointers'[u])
                           /\ now[u] \notin released[u]
                           /\ requests[now[u]] = "mutex"
                      /\ place[u] = "gone" => Len(pointers'[u]) = NAllocs
    BY <1>1 DEF Setup
  <2> QED
    BY <1>0, <1>1, <1>2 DEF Kept, Setup
<1>5. /\ \A j : Owed(j)' = Owed(j) /\ Users(j)' = Users(j)
      /\ \A j \in 1 .. Len(list) : Fresh(j)' = Fresh(j)
  BY <1>1, <1>2 DEF Owed, Users, Fresh
<1>6. Initialised'
  <2> SUFFICES ASSUME NEW j \in 1 .. Len(list'), requests[j] = "mutex", ~ Fresh(j)', Users(j) # {}
               PROVE  /\ pth_mutex'[At(j)'] = "init"
                      /\ lastFlag[At(j)'] >= Cardinality(Users(j))
    BY <1>1, <1>5 DEF Initialised
  <2>1. j \in 1 .. Len(list)
    BY <1>0, <1>2
  <2>2. InUse(j)
    BY <1>1, <2>1, OwedInUse DEF Users, Kept
  <2> QED
    BY <1>1, <1>2, <1>5, <2>1, <2>2 DEF Initialised, Kept
<1>7. Alone'
  <2> SUFFICES ASSUME NEW j \in 1 .. Len(list'), Fresh(j)', NEW u \in Threads, j <= Len(pointers'[u])
               PROVE  firsts'[j] = {u}
    BY <1>1 DEF Alone
  <2>1. PICK v \in Threads : firsts'[j] = {v} /\ place[v] = "init" /\ now[v] = j
    BY <1>1 DEF Fresh
  <2>2. requests[j] = "mutex" /\ j # k
    BY <1>0, <1>1, <2>1 DEF Kept, Setup
  <2>3. j \in 1 .. Len(list)
    BY <1>2, <2>2
  <2>4. j <= Len(pointers[u])
    <3>1. CASE u = t
      <4>1. Len(pointers[t]) \in Nat /\ j \in Nat
        BY Basics
      <4>2. j <= k
        BY <1>2, <3>1
      <4> QED
        BY <1>0, <2>2, <3>1, <4>2
    <3>2. CASE u # t
      BY <1>2, <3>2
    <3> QED
      BY <3>1, <3>2
  <2> QED
    BY <1>1, <1>2, <1>5, <2>3, <2>4 DEF Alone, Kept
<1> QED
  BY <1>2, <1>3, <1>4, <1>6, <1>7 DEF Kept

(* ipmutexallocate: the first PET keeps ipSetupMutex until it has initialised   *)
(* the new mutex, so that nobody gets one that is not; lastFlag is set anew.   *)
LEMMA AllocateMutexKeeps ==
  ASSUME IpInv, NEW t \in Threads, AllocateMutex(t)
  PROVE  IpTypeOK' /\ Kept'
<1>0. PICK k \in Allocs : /\ k = Len(pointers[t]) + 1 /\ requests[k] = "mutex" /\ place[t] = "user"
                          /\ now' = [now EXCEPT ![t] = k]
  BY DEF AllocateMutex, Asks
<1>1. /\ IpTypeOK /\ Kept /\ Allocate(t)
      /\ UNCHANGED <<requests, nthreads, released, lastFlag>>
      /\ ipSetupMutex = 0 /\ ipSetupMutex' = t
      /\ place' = [place EXCEPT ![t] = "init"]
      /\ Threads' = Threads
  BY <1>0 DEF IpInv, AllocateMutex, SetupLock, GoesTo, Destructed, Running, Const, Threads
<1>2. /\ list' \in Seq([allocation : Addresses, auxCounter : 0 .. nthreads])
      /\ Len(list') <= NAllocs
      /\ ipshmLocalTop' \in [Threads -> 0 .. NAllocs]
      /\ heap' \in [Addresses -> 0 .. NAllocs]
      /\ pth_mutex' \in [Addresses -> {"raw", "init", "destroyed"}]
      /\ firsts' \in [Allocs -> SUBSET Threads]
      /\ pointers' \in [Threads -> Seq(Addresses)]
      /\ \A u \in Threads \ {t} : pointers'[u] = pointers[u]
      /\ Len(pointers'[t]) = k
      /\ \A j \in 1 .. Len(list) : At(j)' = At(j)
      /\ \A j \in 1 .. Len(list) : firsts'[j] = firsts[j]
      /\ \A j \in 1 .. Len(list) : InUse(j) => pth_mutex'[At(j)] = pth_mutex[At(j)]
      /\ \A j \in (1 .. Len(list')) \ (1 .. Len(list)) : j = k /\ firsts'[j] = {t}
      /\ (Tops /\ Firsts /\ Released /\ Counts /\ Apart /\ Backed)'
  BY <1>0, <1>1, AllocateKeeps
<1>3. /\ place \in [Threads -> {"user", "init", "free", "gone"}]
      /\ now \in [Threads -> 0 .. NAllocs]
      /\ nthreads \in Nat \ {0} /\ NAllocs \in Nat /\ Allocs = 1 .. NAllocs
  BY <1>1, Basics DEF IpTypeOK
<1>4. /\ place' \in [Threads -> {"user", "init", "free", "gone"}]
      /\ now' \in [Threads -> 0 .. NAllocs]
      /\ ipSetupMutex' \in 0 .. nthreads
      /\ place'[t] = "init" /\ now'[t] = k
      /\ \A u \in Threads \ {t} : place'[u] = place[u] /\ now'[u] = now[u]
  BY <1>0, <1>1, <1>3 DEF Threads
<1>5. IpTypeOK'
  BY <1>1, <1>2, <1>4 DEF IpTypeOK
<1>6. \A u \in Threads : place[u] \notin {"init", "free"}
  BY <1>1, Basics DEF Kept, Setup
<1>7. k \notin released[t]
  BY <1>0, <1>1 DEF Kept, Released
<1>8. Setup'
  <2> SUFFICES ASSUME NEW u \in Threads
               PROVE  /\ place'[u] \in {"init", "free"} <=> ipSetupMutex' = u
                      /\ place'[u] \in {"init", "free"} =>
                           /\ now'[u] \in 1 .. Len(pointers'[u])
                           /\ now'[u] \notin released[u]
                           /\ requests[now'[u]] = "mutex"
                      /\ place'[u] = "gone" => Len(pointers'[u]) = NAllocs
    BY <1>1 DEF Setup
  <2>1. CASE u = t
    BY <1>0, <1>1, <1>2, <1>4, <1>7, <2>1
  <2>2. CASE u # t
    BY <1>1, <1>2, <1>6, <2>2 DEF Kept, Setup
  <2> QED
    BY <2>1, <2>2
<1>9. \A j : Owed(j)' = Owed(j) /\ Users(j)' = Users(j)
  BY <1>1, <1>6 DEF Owed, Users
<1>10. \A j : ~ Fresh(j)
  BY <1>6 DEF Fresh
<1>11. Initialised'
  <2> SUFFICES ASSUME NEW j \in 1 .. Len(list'), requests[j] = "mutex", ~ Fresh(j)', Users(j) # {}
               PROVE  /\ pth_mutex'[At(j)'] = "init"
                      /\ lastFlag[At(j)'] >= Cardinality(Users(j))
    BY <1>1, <1>9 DEF Initialised
  <2>1. j \in 1 .. Len(list)
    <3> SUFFICES ASSUME j \notin 1 .. Len(list) PROVE FALSE
      OBVIOUS
    <3>1. j = k /\ firsts'[j] = {t}
      BY <1>2
    <3> QED
      BY <1>1, <1>4, <3>1 DEF Fresh
  <2>2. InUse(j)
    BY <1>1, <2>1, OwedInUse DEF Users, Kept
  <2> QED
    BY <1>1, <1>2, <1>10, <2>1, <2>2 DEF Initialised, Kept
<1>12. Alone'
  <2> SUFFICES ASSUME NEW j \in 1 .. Len(list'), Fresh(j)', NEW u \in Threads, j <= Len(pointers'[u])
               PROVE  firsts'[j] = {u}
    BY <1>1 DEF Alone
  <2>1. PICK v \in Threads : firsts'[j] = {v} /\ place'[v] = "init" /\ now'[v] = j
    BY <1>1 DEF Fresh
  <2>2. v = t /\ j = k
    BY <1>4, <1>6, <2>1
  <2>3. CASE u = t
    BY <2>1, <2>2, <2>3
  <2>4. CASE u # t
    <3>1. k <= Len(pointers[u])
      BY <1>2, <2>2, <2>4
    <3>2. k \in 1 .. Len(list)
      BY <1>1, <3>1, Basics DEF Kept, Tops
    <3>3. firsts[k] = {t}
      BY <1>2, <2>1, <2>2, <3>2
    <3>4. k <= Len(pointers[t])
      BY <1>1, <1>3, <3>2, <3>3 DEF Kept, Firsts
    <3> QED
      BY <1>0, <3>4
  <2> QED
    BY <2>3, <2>4
<1> QED
  BY <1>2, <1>5, <1>8, <1>11, <1>12 DEF Kept

(* The first PET initialises its mutex and gives up ipSetupMutex. *)
LEMMA InitMutexKeeps ==
  ASSUME IpInv, NEW t \in Threads, InitMutex(t)
  PROVE  IpTypeOK' /\ Kept'
<1>0. PICK k \in Nat : /\ k = now[t] /\ place[t] = "init"
                       /\ k \in 1 .. Len(pointers[t]) /\ k \notin released[t] /\ requests[k] = "mutex"
                       /\ ipSetupMutex = t
  BY DEF InitMutex, IpInv, Kept, Setup, Destructed, Running
<1>1. /\ IpTypeOK /\ Kept
      /\ UNCHANGED <<requests, nthreads, list, ipshmLocalTop, heap, firsts, pointers, released>>
      /\ Threads' = Threads
      /\ ipSetupMutex' = 0
      /\ place' = [place EXCEPT ![t] = "user"]
      /\ now' = [now EXCEPT ![t] = 0]
  BY DEF IpInv, InitMutex, Back, GoesTo, Destructed, Running, Const, Threads
<1>2. /\ nthreads \in Nat \ {0} /\ NAllocs \in Nat /\ Allocs = 1 .. NAllocs /\ 0 \notin Threads
      /\ Len(list) \in Nat /\ Len(list) <= NAllocs
      /\ \A u \in Threads : Len(pointers[u]) \in Nat
      /\ place \in [Threads -> {"user", "init", "free", "gone"}]
      /\ now \in [Threads -> 0 .. NAllocs]
      /\ pth_mutex \in [Addresses -> {"raw", "init", "destroyed"}]
      /\ lastFlag \in [Addresses -> 0 .. nthreads]
  BY <1>1, Basics DEF IpTypeOK
<1>3. /\ k \in 1 .. Len(list) /\ k \in Allocs /\ pointers[t][k] = At(k) /\ At(k) \in Addresses
      /\ t \in Users(k) /\ t \in Owed(k) /\ InUse(k)
  <2>1. k \in 1 .. Len(list) /\ k \in Allocs /\ pointers[t][k] = At(k)
    BY <1>0, <1>1, <1>2 DEF Kept, Tops
  <2>2. t \in Users(k) /\ t \in Owed(k)
    BY <1>0 DEF Users, Owed
  <2> QED
    BY <1>1, <2>1, <2>2, OwedInUse, ElementTyped DEF Kept
<1>4. /\ lastFlag' = [lastFlag EXCEPT ![At(k)] = nthreads]
      /\ pth_mutex' = IF t \in firsts[k] THEN [pth_mutex EXCEPT ![At(k)] = "init"] ELSE pth_mutex
  BY <1>0, <1>3 DEF InitMutex
<1>5. IpTypeOK'
  <2>1. nthreads \in 0 .. nthreads /\ 0 \in 0 .. nthreads /\ 0 \in 0 .. NAllocs
    BY <1>2
  <2>2. lastFlag' \in [Addresses -> 0 .. nthreads]
    BY <1>2, <1>4, <2>1
  <2>3. /\ pth_mutex' \in [Addresses -> {"raw", "init", "destroyed"}]
        /\ place' \in [Threads -> {"user", "init", "free", "gone"}]
        /\ now' \in [Threads -> 0 .. NAllocs]
    BY <1>1, <1>2, <1>4, <2>1
  <2> QED
    BY <1>1, <2>2, <2>3 DEF IpTypeOK
<1>6. /\ place'[t] = "user"
      /\ \A u \in Threads \ {t} : /\ place'[u] = place[u] /\ now'[u] = now[u]
                                  /\ place[u] \notin {"init", "free"}
  BY <1>0, <1>1, <1>2 DEF Kept, Setup
<1>7. (Tops /\ Firsts /\ Released /\ Counts /\ Apart /\ Backed)'
  <2>1. \A j : At(j)' = At(j) /\ InUse(j)' = InUse(j) /\ Owed(j)' = Owed(j)
    BY <1>1 DEF At, InUse, Owed
  <2>2. Tops' /\ Firsts' /\ Released'
    BY <1>1, <2>1 DEF Kept, Tops, Firsts, Released
  <2>3. Counts' /\ Apart' /\ Backed'
    BY <1>1, <2>1 DEF Kept, Counts, Apart, Backed
  <2> QED
    BY <2>2, <2>3
<1>8. Setup'
  BY <1>1, <1>2, <1>6 DEF Kept, Setup
<1>9. /\ \A j : Owed(j)' = Owed(j) /\ At(j)' = At(j)
      /\ \A j : Users(j) \subseteq Owed(j) /\ Users(j)' = Users(j)
  BY <1>0, <1>1 DEF Owed, Users, At
<1>10. \A j : ~ Fresh(j)'
  BY <1>1, <1>6 DEF Fresh
<1>11. Initialised'
  <2> SUFFICES ASSUME NEW j \in 1 .. Len(list), requests[j] = "mutex", Users(j) # {}
               PROVE  /\ pth_mutex'[At(j)] = "init"
                      /\ lastFlag'[At(j)] >= Cardinality(Users(j))
    BY <1>1, <1>9 DEF Initialised
  <2>1. CASE j = k
    <3>1. lastFlag'[At(j)] >= Cardinality(Users(j))
      BY <1>2, <1>3, <1>4, <2>1, ThreadsFinite DEF Users, Owed
    <3>2. t \in firsts[k] \/ ~ Fresh(k)
      BY <1>6 DEF Fresh
    <3>3. pth_mutex'[At(j)] = "init"
      BY <1>1, <1>2, <1>3, <1>4, <2>1, <3>2 DEF Kept, Initialised
    <3> QED
      BY <3>1, <3>3
  <2>2. CASE j # k
    <3>1. InUse(j) /\ At(j) \in Addresses
      BY <1>1, OwedInUse, ElementTyped DEF Users, Kept
    <3>2. At(j) # At(k)
      BY <1>1, <1>3, <2>2, <3>1 DEF Kept, Apart
    <3>3. ~ Fresh(j)
      BY <1>0, <1>6, <2>2 DEF Fresh
    <3> QED
      BY <1>1, <1>4, <3>2, <3>3 DEF Kept, Initialised
  <2> QED
    BY <2>1, <2>2
<1>12. Alone'
  BY <1>10 DEF Alone
<1> QED
  BY <1>5, <1>7, <1>8, <1>11, <1>12 DEF Kept

(* ipshmdeallocate alone touches no mutex. *)
LEMMA DeallocateMemoryKeeps ==
  ASSUME IpInv, NEW t \in Threads, NEW k \in Allocs, DeallocateMemory(t, k)
  PROVE  IpTypeOK' /\ Kept'
<1>1. /\ IpTypeOK /\ Kept /\ Deallocate(t, k)
      /\ UNCHANGED <<requests, nthreads, pointers, ipshmLocalTop, firsts>>
      /\ UNCHANGED <<ipSetupMutex, pth_mutex, lastFlag, place, now>>
      /\ Threads' = Threads
      /\ place[t] = "user" /\ requests[k] = "memory"
      /\ k \in DOMAIN pointers[t] /\ k \notin released[t]
  BY DEF IpInv, DeallocateMemory, Holds, Mutexes, Destructed, Running, Const, Threads
<1>2. k \in 1 .. Len(pointers[t])
  BY <1>1, Basics
<1>3. /\ list' \in Seq([allocation : Addresses, auxCounter : 0 .. nthreads])
      /\ Len(list') = Len(list)
      /\ heap' \in [Addresses -> 0 .. NAllocs]
      /\ released' \in [Threads -> SUBSET Allocs]
      /\ released'[t] = released[t] \cup {k}
      /\ \A u \in Threads \ {t} : released'[u] = released[u]
      /\ \A j \in 1 .. Len(list) : At(j)' = At(j)
      /\ (Tops /\ Firsts /\ Released /\ Counts /\ Apart /\ Backed)'
  BY <1>1, <1>2, DeallocateKeeps
<1>4. IpTypeOK'
  BY <1>1, <1>3 DEF IpTypeOK
<1>5. Setup'
  BY <1>1, <1>3 DEF Kept, Setup
<1>6. \A j : Fresh(j)' = Fresh(j) /\ (j # k => Users(j)' = Users(j))
  BY <1>1, <1>3 DEF Users, Owed, Fresh
<1>7. Initialised'
  <2> SUFFICES ASSUME NEW j \in 1 .. Len(list), requests[j] = "mutex", ~ Fresh(j), Users(j)' # {}
               PROVE  /\ pth_mutex[At(j)] = "init"
                      /\ lastFlag[At(j)] >= Cardinality(Users(j)')
    BY <1>1, <1>3, <1>6 DEF Initialised
  <2> QED
    BY <1>1, <1>6 DEF Kept, Initialised
<1>8. Alone'
  BY <1>1, <1>3, <1>6 DEF Kept, Alone
<1> QED
  BY <1>3, <1>4, <1>5, <1>7, <1>8 DEF Kept

(* ipmutexdeallocate frees the memory after it counted the PET. *)
LEMMA FreeMutexKeeps ==
  ASSUME IpInv, NEW t \in Threads, FreeMutex(t)
  PROVE  IpTypeOK' /\ Kept'
<1>0. PICK k \in Nat : /\ k = now[t] /\ place[t] = "free"
                       /\ k \in 1 .. Len(pointers[t]) /\ k \notin released[t] /\ requests[k] = "mutex"
                       /\ ipSetupMutex = t
  BY DEF FreeMutex, IpInv, Kept, Setup, Destructed, Running
<1>1. /\ IpTypeOK /\ Kept /\ Deallocate(t, k)
      /\ UNCHANGED <<requests, nthreads, pointers, ipshmLocalTop, firsts>>
      /\ UNCHANGED <<pth_mutex, lastFlag>>
      /\ Threads' = Threads
      /\ ipSetupMutex' = 0
      /\ place' = [place EXCEPT ![t] = "user"]
      /\ now' = [now EXCEPT ![t] = 0]
  BY <1>0 DEF IpInv, FreeMutex, Back, GoesTo, Mutexes, Destructed, Running, Const, Threads
<1>2. /\ nthreads \in Nat \ {0} /\ NAllocs \in Nat /\ 0 \notin Threads
      /\ place \in [Threads -> {"user", "init", "free", "gone"}]
      /\ now \in [Threads -> 0 .. NAllocs]
  BY <1>1, Basics DEF IpTypeOK
<1>3. /\ list' \in Seq([allocation : Addresses, auxCounter : 0 .. nthreads])
      /\ Len(list') = Len(list)
      /\ heap' \in [Addresses -> 0 .. NAllocs]
      /\ released' \in [Threads -> SUBSET Allocs]
      /\ released'[t] = released[t] \cup {k}
      /\ \A u \in Threads \ {t} : released'[u] = released[u]
      /\ \A j \in 1 .. Len(list) : At(j)' = At(j)
      /\ (Tops /\ Firsts /\ Released /\ Counts /\ Apart /\ Backed)'
  BY <1>0, <1>1, DeallocateKeeps
<1>4. /\ place' \in [Threads -> {"user", "init", "free", "gone"}]
      /\ now' \in [Threads -> 0 .. NAllocs]
      /\ 0 \in 0 .. nthreads
  BY <1>1, <1>2
<1>5. IpTypeOK'
  BY <1>1, <1>3, <1>4 DEF IpTypeOK
<1>6. /\ place'[t] = "user"
      /\ \A u \in Threads \ {t} : /\ place'[u] = place[u] /\ now'[u] = now[u]
                                  /\ place[u] \notin {"init", "free"}
  BY <1>0, <1>1, <1>2 DEF Kept, Setup
<1>7. Setup'
  BY <1>1, <1>2, <1>6 DEF Kept, Setup
<1>8. /\ \A j : Users(j)' = Users(j)
      /\ \A j : ~ Fresh(j) /\ ~ Fresh(j)'
  BY <1>0, <1>1, <1>3, <1>6 DEF Users, Owed, Fresh
<1>9. Initialised'
  <2> SUFFICES ASSUME NEW j \in 1 .. Len(list), requests[j] = "mutex", Users(j) # {}
               PROVE  /\ pth_mutex[At(j)] = "init"
                      /\ lastFlag[At(j)] >= Cardinality(Users(j))
    BY <1>1, <1>3, <1>8 DEF Initialised
  <2> QED
    BY <1>1, <1>8 DEF Kept, Initialised
<1>10. Alone'
  BY <1>8 DEF Alone
<1> QED
  BY <1>3, <1>5, <1>7, <1>9, <1>10 DEF Kept

(* ipmutexdeallocate: the PET is counted down in lastFlag, and the mutex is     *)
(* destroyed only by the PET after which nobody is left to be counted.         *)
LEMMA DeallocateMutexKeeps ==
  ASSUME IpInv, NEW t \in Threads, NEW k \in Allocs, DeallocateMutex(t, k)
  PROVE  IpTypeOK' /\ Kept'
<1>1. /\ IpTypeOK /\ Kept
      /\ UNCHANGED <<requests, nthreads, list, ipshmLocalTop, heap, firsts, pointers, released>>
      /\ Threads' = Threads
      /\ ipSetupMutex = 0 /\ ipSetupMutex' = t
      /\ place' = [place EXCEPT ![t] = "free"]
      /\ now' = [now EXCEPT ![t] = k]
      /\ place[t] = "user" /\ requests[k] = "mutex"
      /\ k \in DOMAIN pointers[t] /\ k \notin released[t]
  BY DEF IpInv, DeallocateMutex, Holds, SetupLock, GoesTo, Destructed, Running, Const, Threads
<1>2. /\ nthreads \in Nat \ {0} /\ NAllocs \in Nat /\ Allocs = 1 .. NAllocs /\ 0 \notin Threads
      /\ Len(list) \in Nat /\ Len(list) <= NAllocs
      /\ \A u \in Threads : Len(pointers[u]) \in Nat
      /\ place \in [Threads -> {"user", "init", "free", "gone"}]
      /\ now \in [Threads -> 0 .. NAllocs]
      /\ pth_mutex \in [Addresses -> {"raw", "init", "destroyed"}]
      /\ lastFlag \in [Addresses -> 0 .. nthreads]
      /\ k \in 1 .. Len(pointers[t])
  BY <1>1, Basics DEF IpTypeOK
<1>3. /\ k \in 1 .. Len(list) /\ pointers[t][k] = At(k) /\ At(k) \in Addresses
      /\ t \in Users(k) /\ t \in Owed(k) /\ InUse(k)
  <2>1. k \in 1 .. Len(list) /\ pointers[t][k] = At(k)
    BY <1>1 DEF Kept, Tops
  <2>2. t \in Users(k) /\ t \in Owed(k)
    BY <1>1 DEF Users, Owed
  <2> QED
    BY <1>1, <2>1, <2>2, OwedInUse, ElementTyped DEF Kept
<1>4. /\ lastFlag' = [lastFlag EXCEPT ![At(k)] = @ - 1]
      /\ pth_mutex' = IF lastFlag[At(k)] = 1 THEN [pth_mutex EXCEPT ![At(k)] = "destroyed"]
                                             ELSE pth_mutex
  BY <1>3 DEF DeallocateMutex
<1>5. \A u \in Threads : place[u] \notin {"init", "free"}
  BY <1>1, <1>2 DEF Kept, Setup
<1>6. \A j : ~ Fresh(j) /\ ~ Fresh(j)'
  BY <1>1, <1>5 DEF Fresh
<1>7. /\ lastFlag[At(k)] >= Cardinality(Users(k))
      /\ IsFiniteSet(Users(k)) /\ Cardinality(Users(k)) \in Nat /\ Cardinality(Users(k)) # 0
      /\ Cardinality(Users(k) \ {t}) = Cardinality(Users(k)) - 1
      /\ lastFlag[At(k)] \in 1 .. nthreads
  <2>1. lastFlag[At(k)] >= Cardinality(Users(k))
    BY <1>1, <1>3, <1>6 DEF Kept, Initialised
  <2>2. IsFiniteSet(Users(k)) /\ Cardinality(Users(k)) \in Nat
    BY <1>2, ThreadsFinite DEF Users, Owed
  <2>3. Cardinality(Users(k)) # 0 /\ Cardinality(Users(k) \ {t}) = Cardinality(Users(k)) - 1
    BY <1>3, <2>2, FS_EmptySet, FS_RemoveElement
  <2> QED
    BY <1>2, <1>3, <2>1, <2>2, <2>3
<1>8. IpTypeOK'
  <2>1. /\ lastFlag' \in [Addresses -> 0 .. nthreads]
        /\ pth_mutex' \in [Addresses -> {"raw", "init", "destroyed"}]
    BY <1>2, <1>3, <1>4, <1>7
  <2>2. /\ place' \in [Threads -> {"user", "init", "free", "gone"}]
        /\ now' \in [Threads -> 0 .. NAllocs]
        /\ ipSetupMutex' \in 0 .. nthreads
    BY <1>1, <1>2 DEF Threads
  <2> QED
    BY <1>1, <2>1, <2>2 DEF IpTypeOK
<1>9. (Tops /\ Firsts /\ Released /\ Counts /\ Apart /\ Backed)'
  <2>1. \A j : At(j)' = At(j) /\ InUse(j)' = InUse(j) /\ Owed(j)' = Owed(j)
    BY <1>1 DEF At, InUse, Owed
  <2>2. Tops' /\ Firsts' /\ Released'
    BY <1>1, <2>1 DEF Kept, Tops, Firsts, Released
  <2>3. Counts' /\ Apart' /\ Backed'
    BY <1>1, <2>1 DEF Kept, Counts, Apart, Backed
  <2> QED
    BY <2>2, <2>3
<1>10. Setup'
  BY <1>1, <1>2 DEF Kept, Setup
<1>11. /\ \A j : Owed(j)' = Owed(j) /\ At(j)' = At(j)
       /\ \A j : Users(j)' = IF j = k THEN Users(j) \ {t} ELSE Users(j)
  BY <1>1, <1>2 DEF Owed, Users, At
<1>12. Initialised'
  <2> SUFFICES ASSUME NEW j \in 1 .. Len(list), requests[j] = "mutex", Users(j)' # {}
               PROVE  /\ pth_mutex'[At(j)] = "init"
                      /\ lastFlag'[At(j)] >= Cardinality(Users(j)')
    BY <1>1, <1>11 DEF Initialised
  <2>0. Users(j) # {}
    BY <1>11
  <2>1. /\ pth_mutex[At(j)] = "init" /\ At(j) \in Addresses
        /\ lastFlag[At(j)] >= Cardinality(Users(j))
    BY <1>1, <1>6, <2>0, ElementTyped DEF Kept, Initialised
  <2>2. CASE j = k
    <3>1. Cardinality(Users(k) \ {t}) \in Nat \ {0}
      <4>1. IsFiniteSet(Users(k) \ {t})
        BY <1>7, FS_Subset
      <4> QED
        BY <1>11, <2>2, <4>1, FS_EmptySet, FS_CardinalityType
    <3>2. lastFlag[At(k)] # 1
      BY <1>7, <3>1
    <3> QED
      <4>1. pth_mutex'[At(j)] = "init"
        BY <1>4, <2>1, <3>2
      <4>2. lastFlag'[At(j)] = lastFlag[At(k)] - 1
        BY <1>2, <1>3, <1>4, <2>2
      <4>3. Cardinality(Users(j)') = Cardinality(Users(k)) - 1
        BY <1>7, <1>11, <2>2
      <4> QED
        BY <1>7, <4>1, <4>2, <4>3
  <2>3. CASE j # k
    <3>1. InUse(j)
      BY <1>1, <2>0, OwedInUse DEF Users, Kept
    <3>2. At(j) # At(k)
      BY <1>1, <1>3, <2>3, <3>1 DEF Kept, Apart
    <3> QED
      BY <1>4, <1>11, <2>1, <3>2
  <2> QED
    BY <2>2, <2>3
<1>13. Alone'
  BY <1>6 DEF Alone
<1> QED
  BY <1>8, <1>9, <1>10, <1>12, <1>13 DEF Kept

(* A PET that has made all its allocations leaves the VM. *)
LEMMA LeaveKeeps ==
  ASSUME IpInv, NEW t \in Threads, Leave(t)
  PROVE  IpTypeOK' /\ Kept'
<1>1. /\ IpTypeOK /\ Kept
      /\ UNCHANGED <<requests, nthreads, list, ipshmLocalTop, heap, firsts, pointers, released>>
      /\ UNCHANGED <<ipSetupMutex, pth_mutex, lastFlag, now>>
      /\ Threads' = Threads
      /\ place' = [place EXCEPT ![t] = "gone"]
      /\ place[t] = "user" /\ Len(pointers[t]) = NAllocs
  BY DEF IpInv, Leave, GoesTo, Destructed, Running, Const, Mutexes, Threads
<1>2. place \in [Threads -> {"user", "init", "free", "gone"}]
  BY <1>1 DEF IpTypeOK
<1>3. /\ place' \in [Threads -> {"user", "init", "free", "gone"}]
      /\ place'[t] = "gone"
      /\ \A u \in Threads \ {t} : place'[u] = place[u]
  BY <1>1, <1>2
<1>4. IpTypeOK'
  BY <1>1 DEF IpTypeOK
<1>5. \A j : /\ At(j)' = At(j) /\ InUse(j)' = InUse(j) /\ Owed(j)' = Owed(j)
             /\ Users(j)' = Users(j) /\ Fresh(j)' = Fresh(j)
  BY <1>1 DEF At, InUse, Owed, Users, Fresh
<1>6. Tops' /\ Firsts' /\ Released'
  BY <1>1, <1>5 DEF Kept, Tops, Firsts, Released
<1>7. Counts' /\ Apart' /\ Backed'
  BY <1>1, <1>5 DEF Kept, Counts, Apart, Backed
<1>8. Setup'
  BY <1>1 DEF Kept, Setup
<1>9. Initialised' /\ Alone'
  BY <1>1, <1>5 DEF Kept, Initialised, Alone
<1> QED
  BY <1>4, <1>6, <1>7, <1>8, <1>9 DEF Kept

(* The destructor of the last PET frees what the elements in use still hold. *)
LEMMA DestructFrees ==
  ASSUME IpInv, Destruct
  PROVE  IpInv' /\ heap' = [a \in Addresses |-> 0]
<1>1. /\ IpTypeOK /\ Agreement
      /\ UNCHANGED <<requests, nthreads, ipshmLocalTop, firsts, pointers, released>>
      /\ UNCHANGED <<ipSetupMutex, pth_mutex, lastFlag, place, now>>
      /\ Threads' = Threads /\ list' = <<>>
      /\ \A t \in Threads : place[t] = "gone"
  BY DEF IpInv, Destruct, Const, Mutexes, Threads
<1>2. heap' \in [Addresses -> 0 .. NAllocs]
  <2>1. heap \in [Addresses -> 0 .. NAllocs] /\ NAllocs \in Nat
    BY <1>1, Basics DEF IpTypeOK
  <2> QED
    BY <2>1 DEF Destruct
<1>3. IpTypeOK'
  BY <1>1, <1>2, Basics DEF IpTypeOK
<1>4. Agreement'
  BY <1>1 DEF Agreement
<1>5. heap' = [a \in Addresses |-> 0]
  <2>1. heap \in [Addresses -> 0 .. NAllocs]
    BY <1>1 DEF IpTypeOK
  <2>2. \A a \in Addresses : a \in Remaining \/ heap[a] = 0
    <3>1. CASE Destructed
      BY <3>1 DEF Destructed
    <3>2. CASE Kept
      <4>1. DOMAIN list = 1 .. Len(list)
        BY DEF IpTypeOK
      <4> QED
        BY <3>2 DEF Kept, Backed, Remaining, ToFree, InUse, At
    <3> QED
      BY <3>1, <3>2 DEF IpInv
  <2> QED
    BY <2>2 DEF Destruct
<1> QED
  BY <1>1, <1>3, <1>4, <1>5 DEF IpInv, Destructed, Running

(* While the VM runs, that the PETs agree follows from what the list says. *)
LEMMA ListAgrees ==
  ASSUME IpTypeOK, Tops, Firsts
  PROVE  Agreement
<1> SUFFICES ASSUME NEW t \in Threads, NEW k \in DOMAIN pointers[t]
             PROVE  /\ Cardinality(firsts[k]) = 1
                    /\ \A u \in Threads : k \in DOMAIN pointers[u] => pointers[u][k] = pointers[t][k]
  BY DEF Agreement
<1>1. k \in 1 .. Len(pointers[t]) /\ k \in Allocs /\ k <= Len(list)
  BY Basics DEF Tops
<1>2. PICK v \in Threads : firsts[k] = {v}
  BY <1>1 DEF Firsts
<1>3. Cardinality(firsts[k]) = 1
  BY <1>2, FS_Singleton
<1>4. \A u \in Threads : k \in DOMAIN pointers[u] => pointers[u][k] = At(k)
  BY Basics DEF Tops
<1> QED
  BY <1>3, <1>4

(* Every step of the PETs preserves the invariant: the shared list of           *)
(* allocations decides what each PET gets, whoever came first.                 *)
THEOREM IpInductive == IpInv /\ [IpNext]_ipvars => IpInv'
<1> SUFFICES ASSUME IpInv, [IpNext]_ipvars PROVE IpInv'
  OBVIOUS
<1>1. ASSUME IpTypeOK', Kept' PROVE IpInv'
  BY <1>1, ListAgrees, PTL DEF IpInv, Kept
<1>2. ASSUME NEW t \in Threads, ThreadNext(t) PROVE IpInv'
  BY <1>1, <1>2, AllocateMemoryKeeps, AllocateMutexKeeps, InitMutexKeeps, DeallocateMemoryKeeps,
     DeallocateMutexKeeps, FreeMutexKeeps, LeaveKeeps DEF ThreadNext
<1>3. CASE Destruct
  BY <1>3, DestructFrees
<1>4. CASE UNCHANGED ipvars
  <2>1. /\ UNCHANGED <<requests, nthreads, list, ipshmLocalTop, heap, firsts, pointers, released>>
        /\ UNCHANGED <<ipSetupMutex, pth_mutex, lastFlag, place, now>>
        /\ Threads' = Threads
    BY <1>4 DEF ipvars, Threads
  <2>2. IpTypeOK' <=> IpTypeOK
    BY <2>1 DEF IpTypeOK
  <2>3. Agreement' <=> Agreement
    BY <2>1 DEF Agreement
  <2>4. \A j : /\ At(j)' = At(j) /\ InUse(j)' = InUse(j) /\ Owed(j)' = Owed(j)
               /\ Users(j)' = Users(j) /\ Fresh(j)' = Fresh(j)
    BY <2>1 DEF At, InUse, Owed, Users, Fresh
  <2>5. (Tops' <=> Tops) /\ (Firsts' <=> Firsts) /\ (Released' <=> Released)
    BY <2>1, <2>4 DEF Tops, Firsts, Released
  <2>6. (Counts' <=> Counts) /\ (Apart' <=> Apart) /\ (Backed' <=> Backed) /\ (Setup' <=> Setup)
    BY <2>1, <2>4 DEF Counts, Apart, Backed, Setup
  <2>7. (Initialised' <=> Initialised) /\ (Alone' <=> Alone)
    BY <2>1, <2>4 DEF Initialised, Alone
  <2>8. Destructed' <=> Destructed
    BY <2>1 DEF Destructed, Running
  <2> QED
    BY <2>2, <2>3, <2>5, <2>6, <2>7, <2>8 DEF IpInv, Kept
<1> QED
  BY <1>2, <1>3, <1>4 DEF IpNext

(* What a PET holds is allocated, and a mutex it may use is initialised. *)
LEMMA KeptLive ==
  ASSUME IpInv PROVE LiveWhileHeld
<1> SUFFICES ASSUME NEW t \in Threads, place[t] # "gone", NEW k \in Holds(t)
             PROVE  /\ heap[pointers[t][k]] = k
                    /\ requests[k] = "mutex" /\ ~(place[t] \in {"init", "free"} /\ now[t] = k) =>
                         pth_mutex[pointers[t][k]] = "init"
  BY DEF LiveWhileHeld
<1>1. IpTypeOK /\ Kept
  BY DEF IpInv, Destructed, Running
<1>2. /\ k \in 1 .. Len(pointers[t]) /\ k \notin released[t]
      /\ k \in 1 .. Len(list) /\ pointers[t][k] = At(k)
  BY <1>1 DEF Holds, Kept, Tops
<1>3. t \in Owed(k) /\ InUse(k)
  <2>1. t \in Owed(k)
    BY <1>2 DEF Owed
  <2> QED
    BY <1>1, <1>2, <2>1, OwedInUse DEF Kept
<1>4. heap[pointers[t][k]] = k
  BY <1>1, <1>2, <1>3 DEF Kept, Apart
<1>5. ASSUME requests[k] = "mutex", ~(place[t] \in {"init", "free"} /\ now[t] = k)
      PROVE  pth_mutex[pointers[t][k]] = "init"
  <2>1. t \in Users(k)
    BY <1>3, <1>5 DEF Users
  <2>2. ~ Fresh(k)
    <3> SUFFICES ASSUME Fresh(k) PROVE FALSE
      OBVIOUS
    <3>1. PICK u \in Threads : firsts[k] = {u} /\ place[u] = "init" /\ now[u] = k
      BY DEF Fresh
    <3>2. k <= Len(pointers[t])
      BY <1>2
    <3>3. firsts[k] = {t}
      BY <1>1, <1>2 DEF Kept, Alone
    <3> QED
      BY <1>5, <3>1, <3>3
  <2> QED
    BY <1>1, <1>2, <1>5, <2>1, <2>2 DEF Kept, Initialised
<1> QED
  BY <1>4, <1>5

(* The inductive invariant of ipshmallocate, ipshmdeallocate and the calls for  *)
(* mutexes holds throughout, for any number of PETs and allocations.           *)
THEOREM IpInvariance == IpSpec => []IpInv
BY InitKeeps, IpInductive, PTL DEF IpSpec

(* Every variable of the shared memory keeps its type. *)
THEOREM IpTypeCorrect == IpSpec => []IpTypeOK
<1>1. IpInv => IpTypeOK
  BY DEF IpInv
<1> QED
  BY <1>1, IpInvariance, PTL

(* The k-th ipshmallocate or ipmutexallocate of every PET returns the same      *)
(* memory, and exactly one of the PETs is told that it is the first.           *)
THEOREM AllocationsAgree == IpSpec => []Agreement
<1>1. IpInv => Agreement
  BY DEF IpInv
<1> QED
  BY <1>1, IpInvariance, PTL

(* Memory that a PET has not deallocated is not freed by another one, and a     *)
(* mutex it holds is initialised and not destroyed.                            *)
THEOREM HeldIsLive == IpSpec => []LiveWhileHeld
BY KeptLive, IpInvariance, PTL

(* The destructor frees no block twice, nor one that the PETs have freed.        *)
THEOREM FreesAreOfAllocated == IpSpec => []FreedOnce
<1>1. IpInv => FreedOnce
  <2> SUFFICES ASSUME IpInv, NEW i \in ToFree
               PROVE  /\ heap[list[i].allocation] = i
                      /\ \A j \in ToFree : list[j].allocation = list[i].allocation => j = i
    BY DEF FreedOnce
  <2>1. CASE Destructed
    BY <2>1 DEF Destructed, ToFree
  <2>2. CASE Kept
    <3>1. \A k \in ToFree : k \in 1 .. Len(list) /\ InUse(k) /\ At(k) = list[k].allocation
      BY DEF IpInv, IpTypeOK, ToFree, InUse, At
    <3> QED
      BY <2>2, <3>1 DEF Kept, Apart
  <2> QED
    BY <2>1, <2>2 DEF IpInv
<1> QED
  BY <1>1, IpInvariance, PTL

(* The destructor leaves no memory behind, whatever the PETs have deallocated. *)
THEOREM DestructorFreesAll == IpSpec => [][Destruct => heap' = [a \in Addresses |-> 0]]_ipvars
<1>1. IpInv /\ [IpNext]_ipvars => [Destruct => heap' = [a \in Addresses |-> 0]]_ipvars
  BY DestructFrees
<1> QED
  BY <1>1, IpInvariance, PTL DEF IpSpec

-----------------------------------------------------------------------------
(* The work queue of a DELayout: its inductive invariant WorkInv, the         *)
(* exclusive service windows, one service per offer, and the steps of the     *)
(* refinement of WorkPool.                                                    *)

(* What the sets of numbers are good for: 0 is nobody, and the first DE exists. *)
LEMMA Numbers ==
  /\ 0 \notin PETs /\ PETs \subseteq Nat
  /\ 0 \notin DEs /\ 1 \in DEs /\ DEs \subseteq Nat
  /\ NOffers \in Nat /\ Offers = 1 .. NOffers
BY WorkQueueAssumption DEF PETs, DEs, Offers

(* The types of the counters of a PET and a DE.                                *)
LEMMA CounterTypes ==
  ASSUME WorkInv, NEW p \in PETs, NEW d \in DEs
  PROVE  /\ localServiceOfferCount[p][d] \in 0 .. NOffers
         /\ maxServiceOfferCount[d] \in Nat
         /\ served \in [DEs -> Nat] /\ served[d] \in Nat
BY DEF WorkInv, WorkTypeOK

(* The invariant holds when the program starts: nothing is locked, offered or  *)
(* accepted, and the counts hold what malloc left in them.                     *)
LEMMA WorkInitInvariant ==
  WorkInit => WorkInv
<1>. SUFFICES ASSUME WorkInit PROVE WorkInv
  OBVIOUS
<1>. USE Numbers, WorkQueueAssumption DEF WorkInit
<1>1. WorkTypeOK
  <2>1. maxServiceOfferCount \in [DEs -> Nat] /\ ~CountsReset
    BY DEF CountsReset
  <2>2. stage \in [PETs -> Labels] /\ pinFlag \in {"PET", "VAS"} /\ allocated \in BOOLEAN
    BY DEF Labels
  <2>. QED
    BY <2>1, <2>2 DEF WorkTypeOK
<1>2. Locks /\ OfferedDE
  BY DEF Locks, OfferedDE, HoldsOffer, InWindow
<1>3. SetUp /\ Counted /\ Entitled
  BY DEF SetUp, Counted, Entitled, CountsReset
<1>. QED
  BY <1>1, <1>2, <1>3 DEF WorkInv

-----------------------------------------------------------------------------
(* Every step of a PET preserves the invariant: one lemma per action.          *)

(* A PET takes the mutex of the first DE in construct. *)
LEMMA ConstructLockKeeps ==
  ASSUME NEW p \in PETs, WorkInv, ConstructLock(p)
  PROVE  WorkInv'
<1>. USE Numbers DEF ConstructLock, ToStage, Layout, Queue, Service, MutexLock
<1>1. WorkTypeOK'
  BY DEF WorkInv, WorkTypeOK, Labels, CountsReset
<1>2. Locks'
  BY DEF WorkInv, WorkTypeOK, Locks, OfferedDE, HoldsOffer, InWindow
<1>3. OfferedDE'
  BY DEF WorkInv, WorkTypeOK, OfferedDE
<1>4. SetUp'
  BY DEF WorkInv, WorkTypeOK, SetUp, CountsReset, Locks, HoldsOffer
<1>5. Counted'
  BY DEF WorkInv, WorkTypeOK, Counted, Answered, CountsReset, SetUp
<1>6. Entitled'
  BY DEF WorkInv, WorkTypeOK, Entitled, OfferedDE
<1>. QED
  BY <1>1, <1>2, <1>3, <1>4, <1>5, <1>6 DEF WorkInv

(* The first PET goes on to the reset, every other one found the counts allocated. *)
LEMMA ConstructAllocateKeeps ==
  ASSUME NEW p \in PETs, WorkInv, ConstructAllocate(p)
  PROVE  WorkInv'
<1>. USE Numbers DEF ConstructAllocate, ToStage, Layout, Queue, Service, Resets
<1>1. WorkTypeOK'
  BY DEF WorkInv, WorkTypeOK, Labels, CountsReset
<1>2. Locks'
  BY DEF WorkInv, WorkTypeOK, Locks, OfferedDE, HoldsOffer, InWindow
<1>3. OfferedDE'
  BY DEF WorkInv, WorkTypeOK, OfferedDE
<1>4. SetUp'
  BY DEF WorkInv, WorkTypeOK, SetUp, CountsReset, Locks, HoldsOffer
<1>5. Counted'
  BY DEF WorkInv, WorkTypeOK, Counted, Answered, CountsReset, SetUp
<1>6. Entitled'
  BY DEF WorkInv, WorkTypeOK, Entitled, OfferedDE
<1>. QED
  BY <1>1, <1>2, <1>3, <1>4, <1>5, <1>6 DEF WorkInv

(* The reset: no offer has been made yet, and nothing has been accepted. *)
LEMMA ConstructResetKeeps ==
  ASSUME NEW p \in PETs, WorkInv, ConstructReset(p)
  PROVE  WorkInv'
<1>. USE Numbers DEF ConstructReset, ToStage, Layout, Queue, Service
<1>1. WorkTypeOK'
  <2>1. stage' \in [PETs -> Labels]
    BY DEF WorkInv, WorkTypeOK, Labels
  <2>2. maxServiceOfferCount' \in [DEs -> 0 .. NOffers]
    OBVIOUS
  <2>3. maxServiceOfferCount' \in [DEs -> Nat]
    OBVIOUS
  <2>. QED
    BY <2>1, <2>2, <2>3 DEF WorkInv, WorkTypeOK
<1>2. Locks'
  BY DEF WorkInv, WorkTypeOK, Locks, OfferedDE, HoldsOffer, InWindow
<1>3. OfferedDE'
  BY DEF WorkInv, WorkTypeOK, OfferedDE
<1>4. SetUp'
  BY DEF WorkInv, WorkTypeOK, SetUp, CountsReset, Locks, HoldsOffer
<1>5. Counted'
  BY DEF WorkInv, WorkTypeOK, Counted, Answered, CountsReset, SetUp
<1>6. Entitled'
  BY DEF WorkInv, WorkTypeOK, Entitled, OfferedDE
<1>. QED
  BY <1>1, <1>2, <1>3, <1>4, <1>5, <1>6 DEF WorkInv

(* A PET leaves construct. *)
LEMMA ConstructUnlockKeeps ==
  ASSUME NEW p \in PETs, WorkInv, ConstructUnlock(p)
  PROVE  WorkInv'
<1>. USE Numbers DEF ConstructUnlock, ToStage, Layout, Queue, Service
<1>1. WorkTypeOK'
  BY DEF WorkInv, WorkTypeOK, Labels, CountsReset
<1>2. Locks'
  BY DEF WorkInv, WorkTypeOK, Locks, OfferedDE, HoldsOffer, InWindow
<1>3. OfferedDE'
  BY DEF WorkInv, WorkTypeOK, OfferedDE
<1>4. SetUp'
  BY DEF WorkInv, WorkTypeOK, SetUp, CountsReset, Locks, HoldsOffer
<1>5. Counted'
  <2>1. CountsReset' => CountsReset
    BY DEF WorkInv, WorkTypeOK, CountsReset
  <2>2. ASSUME NEW q \in PETs, NEW e \in DEs
        PROVE  Answered(q, e)' = Answered(q, e)
    BY DEF WorkInv, WorkTypeOK, Answered
  <2>3. ASSUME NEW q \in PETs, stage'[q] = "accept"
        PROVE  stage[q] = "accept" /\ de'[q] = de[q]
    BY <2>3 DEF WorkInv, WorkTypeOK
  <2>. QED
    BY <2>1, <2>2, <2>3 DEF WorkInv, Counted
<1>6. Entitled'
  BY DEF WorkInv, WorkTypeOK, Entitled, OfferedDE
<1>. QED
  BY <1>1, <1>2, <1>3, <1>4, <1>5, <1>6 DEF WorkInv

(* A PET counts its offer, which is not answered yet. *)
LEMMA OfferKeeps ==
  ASSUME NEW p \in PETs, NEW d \in DEs, WorkInv, Offer(p, d)
  PROVE  WorkInv'
<1>. USE Numbers DEF Offer, ToStage, Layout, Queue, Service, Local
<1>1. WorkTypeOK'
  <2>1. stage' \in [PETs -> Labels] /\ de' \in [PETs -> {0} \cup DEs]
    BY DEF WorkInv, WorkTypeOK, Labels
  <2>2. localServiceOfferCount' \in [PETs -> [DEs -> 0 .. NOffers]]
    BY DEF WorkInv, WorkTypeOK
  <2>3. CountsReset' => CountsReset
    BY DEF WorkInv, WorkTypeOK, CountsReset
  <2>. QED
    BY <2>1, <2>2, <2>3 DEF WorkInv, WorkTypeOK
<1>2. Locks'
  <2>1. ASSUME NEW q \in PETs, NEW e \in DEs
        PROVE  HoldsOffer(q, e)' = HoldsOffer(q, e) /\ InWindow(q, e)' = InWindow(q, e)
    BY DEF WorkInv, WorkTypeOK, HoldsOffer, InWindow
  <2>. QED
    BY <2>1 DEF WorkInv, Locks
<1>3. OfferedDE'
  BY DEF WorkInv, WorkTypeOK, OfferedDE
<1>4. SetUp'
  BY DEF WorkInv, WorkTypeOK, SetUp, CountsReset, Locks, HoldsOffer
<1>5. Counted'
  <2>1. CountsReset' => CountsReset
    BY DEF WorkInv, WorkTypeOK, CountsReset
  <2>2. ASSUME NEW q \in PETs, NEW e \in DEs
        PROVE  Answered(q, e)' = Answered(q, e)
    <3>1. CASE q = p /\ e = d
      BY <3>1 DEF WorkInv, WorkTypeOK, Answered
    <3>2. CASE ~ (q = p /\ e = d)
      BY <3>2 DEF WorkInv, WorkTypeOK, Answered
    <3>. QED
      BY <3>1, <3>2
  <2>3. ASSUME NEW q \in PETs, stage'[q] = "accept"
        PROVE  localServiceOfferCount'[q][de'[q]] = maxServiceOfferCount'[de'[q]] + 1
    BY <2>3 DEF WorkInv, WorkTypeOK, Counted
  <2>. QED
    BY <2>1, <2>2, <2>3 DEF WorkInv, Counted
<1>6. Entitled'
  BY DEF WorkInv, WorkTypeOK, Entitled, OfferedDE
<1>. QED
  BY <1>1, <1>2, <1>3, <1>4, <1>5, <1>6 DEF WorkInv

(* A PET takes the offer mutex of the DE it offers service for. *)
LEMMA OfferLockKeeps ==
  ASSUME NEW p \in PETs, WorkInv, OfferLock(p)
  PROVE  WorkInv'
<1>. USE Numbers DEF OfferLock, ToStage, Layout, Queue, Service, MutexLock
<1>1. WorkTypeOK'
  BY DEF WorkInv, WorkTypeOK, Labels, CountsReset
<1>2. Locks'
  BY DEF WorkInv, WorkTypeOK, Locks, OfferedDE, HoldsOffer, InWindow
<1>3. OfferedDE'
  BY DEF WorkInv, WorkTypeOK, OfferedDE
<1>4. SetUp'
  BY DEF WorkInv, WorkTypeOK, SetUp, CountsReset, Locks, HoldsOffer
<1>5. Counted'
  <2>1. CountsReset' => CountsReset
    BY DEF WorkInv, WorkTypeOK, CountsReset
  <2>2. ASSUME NEW q \in PETs, NEW e \in DEs
        PROVE  Answered(q, e)' = Answered(q, e)
    BY DEF WorkInv, WorkTypeOK, Answered
  <2>3. ASSUME NEW q \in PETs, stage'[q] = "accept"
        PROVE  stage[q] = "accept" /\ de'[q] = de[q]
    BY <2>3 DEF WorkInv, WorkTypeOK
  <2>. QED
    BY <2>1, <2>2, <2>3 DEF WorkInv, Counted
<1>6. Entitled'
  BY DEF WorkInv, WorkTypeOK, Entitled, OfferedDE
<1>. QED
  BY <1>1, <1>2, <1>3, <1>4, <1>5, <1>6 DEF WorkInv

(* The comparison: a PET is accepted for the increment after the last one given away. *)
LEMMA CompareKeeps ==
  ASSUME NEW p \in PETs, WorkInv, Compare(p)
  PROVE  WorkInv'
<1>. USE Numbers DEF Compare, ToStage, Layout, Queue, Service, Accepts
<1>1. WorkTypeOK'
  BY DEF WorkInv, WorkTypeOK, Labels, CountsReset
<1>2. Locks'
  BY DEF WorkInv, WorkTypeOK, Locks, OfferedDE, HoldsOffer, InWindow
<1>3. OfferedDE'
  BY DEF WorkInv, WorkTypeOK, OfferedDE
<1>4. SetUp'
  BY DEF WorkInv, WorkTypeOK, SetUp, CountsReset, Locks, HoldsOffer
<1>5. Counted'
  <2>1. CountsReset
    BY DEF WorkInv, WorkTypeOK, SetUp, CountsReset
  <2>2. ASSUME NEW q \in PETs, NEW e \in DEs
        PROVE  Answered(q, e)' <= maxServiceOfferCount[e]
    <3>1. Answered(q, e) <= maxServiceOfferCount[e]
      BY <2>1 DEF WorkInv, Counted
    <3>2. CASE q = p /\ e = de[p]
      BY <3>1, <3>2 DEF WorkInv, WorkTypeOK, Answered
    <3>3. CASE ~ (q = p /\ e = de[p])
      BY <3>1, <3>3 DEF WorkInv, WorkTypeOK, Answered
    <3>. QED
      BY <3>2, <3>3
  <2>3. ASSUME NEW q \in PETs, stage'[q] = "accept"
        PROVE  localServiceOfferCount[q][de[q]] = maxServiceOfferCount[de[q]] + 1
    <3>1. CASE q = p
      <4>1. de[p] \in DEs /\ Answered(p, de[p]) <= maxServiceOfferCount[de[p]]
        BY <2>1 DEF WorkInv, OfferedDE, Counted
      <4>2. localServiceOfferCount[p][de[p]] > maxServiceOfferCount[de[p]]
        BY <2>3, <3>1 DEF WorkInv, WorkTypeOK
      <4>3. Answered(p, de[p]) = localServiceOfferCount[p][de[p]] - 1
        BY DEF Answered
      <4>4. /\ localServiceOfferCount[p][de[p]] \in 0 .. NOffers
            /\ maxServiceOfferCount[de[p]] \in Nat
        BY <4>1, CounterTypes
      <4>. QED
        BY <3>1, <4>1, <4>2, <4>3, <4>4
    <3>2. CASE q # p
      BY <2>3, <3>2 DEF WorkInv, WorkTypeOK, Counted
    <3>. QED
      BY <3>1, <3>2
  <2>. QED
    BY <2>1, <2>2, <2>3 DEF WorkInv, Counted
<1>6. Entitled'
  BY DEF WorkInv, WorkTypeOK, Entitled, OfferedDE
<1>. QED
  BY <1>1, <1>2, <1>3, <1>4, <1>5, <1>6 DEF WorkInv

(* The increment: the holder of the mutex is still the only one that is accepted. *)
LEMMA AcceptKeeps ==
  ASSUME NEW p \in PETs, WorkInv, Accept(p)
  PROVE  WorkInv'
<1>. USE DEF Accept, Layout, Queue, Service, ToStage
<1>. DEFINE d == de[p]
            k == localServiceOfferCount[p][d]
<1>1. d \in DEs /\ CountsReset /\ offerMutex[d] = p
  <2>1. d \in DEs
    BY DEF WorkInv, OfferedDE
  <2>2. CountsReset
    BY DEF WorkInv, SetUp, CountsReset
  <2>. QED
    BY <2>1, <2>2 DEF WorkInv, Locks, HoldsOffer
<1>2. k = maxServiceOfferCount[d] + 1 /\ k \in Offers /\ maxServiceOfferCount[d] \in Nat
  <2>1. k = maxServiceOfferCount[d] + 1
    BY DEF WorkInv, Counted
  <2>2. k \in 0 .. NOffers /\ maxServiceOfferCount[d] \in Nat
    BY <1>1 DEF WorkInv, WorkTypeOK
  <2>. QED
    BY <2>1, <2>2, Numbers
<1>3. WorkTypeOK'
  <2>1. maxServiceOfferCount' \in [DEs -> 0 .. NOffers]
    BY <1>1, <1>2, Numbers DEF WorkInv, WorkTypeOK
  <2>2. servers' \in [DEs -> [Offers -> {0} \cup PETs]]
    BY <1>1, <1>2, Numbers DEF WorkInv, WorkTypeOK
  <2>3. stage' \in [PETs -> Labels]
    BY DEF WorkInv, WorkTypeOK, Labels
  <2>4. maxServiceOfferCount' \in [DEs -> Nat]
    BY <1>1, <1>2, Numbers DEF WorkInv, WorkTypeOK
  <2>. QED
    BY <2>1, <2>2, <2>3, <2>4 DEF WorkInv, WorkTypeOK
<1>4. Locks'
  BY Numbers DEF WorkInv, WorkTypeOK, Locks, OfferedDE, HoldsOffer, InWindow
<1>5. OfferedDE'
  BY DEF WorkInv, WorkTypeOK, OfferedDE
<1>6. SetUp'
  BY Numbers DEF WorkInv, WorkTypeOK, SetUp, CountsReset, Locks, HoldsOffer
<1>7. Counted'
  <2>1. ASSUME NEW e \in DEs, NEW j \in Offers
        PROVE  servers'[e][j] # 0 <=> j <= maxServiceOfferCount'[e]
    BY <1>1, <1>2, Numbers DEF WorkInv, WorkTypeOK, Counted
  <2>2. ASSUME NEW q \in PETs, NEW e \in DEs
        PROVE  Answered(q, e)' <= maxServiceOfferCount'[e]
    BY <1>1, <1>2, Numbers DEF WorkInv, WorkTypeOK, Counted, Answered
  <2>3. ASSUME NEW q \in PETs, stage'[q] = "accept"
        PROVE  localServiceOfferCount'[q][de'[q]] = maxServiceOfferCount'[de'[q]] + 1
    <3>1. q # p /\ stage[q] = "accept"
      BY <2>3 DEF WorkInv, WorkTypeOK
    <3>2. de[q] \in DEs /\ de[q] # d
      BY <3>1, <1>1 DEF WorkInv, OfferedDE, Locks, HoldsOffer
    <3>. QED
      BY <3>1, <3>2, <1>1 DEF WorkInv, WorkTypeOK, Counted
  <2>. QED
    BY <2>1, <2>2, <2>3 DEF Counted
<1>8. Entitled'
  <2>. SUFFICES ASSUME NEW q \in PETs, stage'[q] \in {"accepted", "service", "work"}
       PROVE  \E j \in Offers : servers'[de'[q]][j] = q
    BY DEF Entitled
  <2>1. CASE q = p
    BY <2>1, <1>1, <1>2 DEF WorkInv, WorkTypeOK
  <2>2. CASE q # p
    <3>1. PICK j \in Offers : servers[de[q]][j] = q
      BY <2>2 DEF WorkInv, WorkTypeOK, Entitled
    <3>2. ~ (de[q] = d /\ j = k)
      <4>1. servers[d][k] = 0
        <5>1. ~ (k <= maxServiceOfferCount[d])
          BY <1>2
        <5>. QED
          BY <5>1, <1>1, <1>2 DEF WorkInv, Counted
      <4>. QED
        BY <4>1, <3>1, Numbers
    <3>. QED
      BY <1>1, <1>2, <3>1, <3>2, <2>2, Numbers DEF WorkInv, WorkTypeOK, OfferedDE
  <2>. QED
    BY <2>1, <2>2
<1>. QED
  BY <1>3, <1>4, <1>5, <1>6, <1>7, <1>8 DEF WorkInv

(* A PET that has its answer gives the offer mutex back. *)
LEMMA OfferUnlockKeeps ==
  ASSUME NEW p \in PETs, WorkInv, OfferUnlock(p)
  PROVE  WorkInv'
<1>. USE Numbers DEF OfferUnlock, ToStage, Layout, Queue, Service
<1>1. WorkTypeOK'
  BY DEF WorkInv, WorkTypeOK, Labels, CountsReset
<1>2. Locks'
  BY DEF WorkInv, WorkTypeOK, Locks, OfferedDE, HoldsOffer, InWindow
<1>3. OfferedDE'
  BY DEF WorkInv, WorkTypeOK, OfferedDE
<1>4. SetUp'
  <2>1. /\ CountsReset' = CountsReset
        /\ \A q \in PETs : q # p => stage'[q] = stage[q]
        /\ stage'[p] \in {"service", "user"}
    BY DEF WorkInv, WorkTypeOK, CountsReset
  <2>2. allocated /\ \A q \in PETs : stage[q] # "reset"
    BY DEF WorkInv, SetUp
  <2>. QED
    BY <2>1, <2>2 DEF WorkInv, SetUp
<1>5. Counted'
  <2>1. CountsReset' => CountsReset
    BY DEF WorkInv, WorkTypeOK, CountsReset
  <2>2. ASSUME NEW q \in PETs, NEW e \in DEs
        PROVE  Answered(q, e)' = Answered(q, e)
    BY DEF WorkInv, WorkTypeOK, Answered
  <2>3. ASSUME NEW q \in PETs, stage'[q] = "accept"
        PROVE  q # p /\ stage[q] = "accept" /\ de'[q] = de[q]
    BY <2>3 DEF WorkInv, WorkTypeOK
  <2>. QED
    BY <2>1, <2>2, <2>3 DEF WorkInv, Counted
<1>6. Entitled'
  BY DEF WorkInv, WorkTypeOK, Entitled, OfferedDE
<1>. QED
  BY <1>1, <1>2, <1>3, <1>4, <1>5, <1>6 DEF WorkInv

(* A PET that was accepted opens its service window. *)
LEMMA ServiceLockKeeps ==
  ASSUME NEW p \in PETs, WorkInv, ServiceLock(p)
  PROVE  WorkInv'
<1>. USE Numbers DEF ServiceLock, ToStage, Layout, Queue, Service, MutexLock
<1>1. WorkTypeOK'
  BY DEF WorkInv, WorkTypeOK, Labels, CountsReset
<1>2. Locks'
  BY DEF WorkInv, WorkTypeOK, Locks, OfferedDE, HoldsOffer, InWindow
<1>3. OfferedDE'
  BY DEF WorkInv, WorkTypeOK, OfferedDE
<1>4. SetUp'
  BY DEF WorkInv, WorkTypeOK, SetUp, CountsReset, Locks, HoldsOffer
<1>5. Counted'
  <2>1. CountsReset' => CountsReset
    BY DEF WorkInv, WorkTypeOK, CountsReset
  <2>2. ASSUME NEW q \in PETs, NEW e \in DEs
        PROVE  Answered(q, e)' = Answered(q, e)
    BY DEF WorkInv, WorkTypeOK, Answered
  <2>3. ASSUME NEW q \in PETs, stage'[q] = "accept"
        PROVE  stage[q] = "accept" /\ de'[q] = de[q]
    BY <2>3 DEF WorkInv, WorkTypeOK
  <2>. QED
    BY <2>1, <2>2, <2>3 DEF WorkInv, Counted
<1>6. Entitled'
  BY DEF WorkInv, WorkTypeOK, Entitled, OfferedDE
<1>. QED
  BY <1>1, <1>2, <1>3, <1>4, <1>5, <1>6 DEF WorkInv

(* A PET closes its service window. *)
LEMMA ServiceCompleteKeeps ==
  ASSUME NEW p \in PETs, WorkInv, ServiceComplete(p)
  PROVE  WorkInv'
<1>. USE Numbers DEF ServiceComplete, ToStage, Layout, Queue, Service
<1>1. WorkTypeOK'
  <2>1. stage' \in [PETs -> Labels] /\ de' \in [PETs -> {0} \cup DEs]
    BY DEF WorkInv, WorkTypeOK, Labels
  <2>2. /\ serviceMutex' \in [DEs -> {0} \cup PETs]
        /\ serviceMutexFlag' \in [PETs -> [DEs -> {0, 1}]]
    BY DEF WorkInv, WorkTypeOK
  <2>3. served' \in [DEs -> Nat]
    <3>1. de[p] \in DEs
      BY DEF WorkInv, OfferedDE
    <3>2. served \in [DEs -> Nat] /\ served[de[p]] \in Nat
      BY <3>1, CounterTypes
    <3>3. served' = [served EXCEPT ![de[p]] = served[de[p]] + 1]
      OBVIOUS
    <3>. QED
      BY ONLY <3>1, <3>2, <3>3
  <2>4. CountsReset' => CountsReset
    BY DEF WorkInv, WorkTypeOK, CountsReset
  <2>. QED
    BY <2>1, <2>2, <2>3, <2>4 DEF WorkInv, WorkTypeOK
<1>2. Locks'
  BY DEF WorkInv, WorkTypeOK, Locks, OfferedDE, HoldsOffer, InWindow
<1>3. OfferedDE'
  BY DEF WorkInv, WorkTypeOK, OfferedDE
<1>4. SetUp'
  BY DEF WorkInv, WorkTypeOK, SetUp, CountsReset, Locks, HoldsOffer
<1>5. Counted'
  <2>1. CountsReset' => CountsReset
    BY DEF WorkInv, WorkTypeOK, CountsReset
  <2>2. ASSUME NEW q \in PETs, NEW e \in DEs
        PROVE  Answered(q, e)' = Answered(q, e)
    BY DEF WorkInv, WorkTypeOK, Answered
  <2>3. ASSUME NEW q \in PETs, stage'[q] = "accept"
        PROVE  stage[q] = "accept" /\ de'[q] = de[q]
    BY <2>3 DEF WorkInv, WorkTypeOK
  <2>. QED
    BY <2>1, <2>2, <2>3 DEF WorkInv, Counted
<1>6. Entitled'
  BY DEF WorkInv, WorkTypeOK, Entitled, OfferedDE
<1>. QED
  BY <1>1, <1>2, <1>3, <1>4, <1>5, <1>6 DEF WorkInv

(* A PET destroys the DELayout. *)
LEMMA DestructKeeps ==
  ASSUME NEW p \in PETs, WorkInv, DestroyLayout(p)
  PROVE  WorkInv'
<1>. USE Numbers DEF DestroyLayout, ToStage, Layout, Queue, Service, Local
<1>1. WorkTypeOK'
  BY DEF WorkInv, WorkTypeOK, Labels, CountsReset
<1>2. Locks'
  BY DEF WorkInv, WorkTypeOK, Locks, OfferedDE, HoldsOffer, InWindow
<1>3. OfferedDE'
  BY DEF WorkInv, WorkTypeOK, OfferedDE
<1>4. SetUp'
  BY DEF WorkInv, WorkTypeOK, SetUp, CountsReset, Locks, HoldsOffer
<1>5. Counted'
  <2>1. CountsReset' => CountsReset
    BY DEF WorkInv, WorkTypeOK, CountsReset
  <2>2. ASSUME NEW q \in PETs, NEW e \in DEs
        PROVE  Answered(q, e)' = Answered(q, e)
    BY DEF WorkInv, WorkTypeOK, Answered
  <2>3. ASSUME NEW q \in PETs, stage'[q] = "accept"
        PROVE  stage[q] = "accept" /\ de'[q] = de[q]
    BY <2>3 DEF WorkInv, WorkTypeOK
  <2>. QED
    BY <2>1, <2>2, <2>3 DEF WorkInv, Counted
<1>6. Entitled'
  BY DEF WorkInv, WorkTypeOK, Entitled, OfferedDE
<1>. QED
  BY <1>1, <1>2, <1>3, <1>4, <1>5, <1>6 DEF WorkInv

-----------------------------------------------------------------------------
(* The invariant is inductive.                                                 *)
THEOREM WorkInductive ==
  WorkInv /\ [WorkNext]_workvars => WorkInv'
<1>. SUFFICES ASSUME WorkInv, [WorkNext]_workvars PROVE WorkInv'
  OBVIOUS
<1>1. CASE UNCHANGED workvars
  BY <1>1 DEF workvars, WorkInv, WorkTypeOK, CountsReset, Locks, HoldsOffer, InWindow, OfferedDE,
              SetUp, Counted, Answered, Entitled
<1>2. CASE \E p \in PETs : PETNext(p)
  <2>1. PICK p \in PETs : PETNext(p)
    BY <1>2
  <2>2. CASE ConstructLock(p) \/ ConstructAllocate(p) \/ ConstructReset(p) \/ ConstructUnlock(p)
    BY <2>2, ConstructLockKeeps, ConstructAllocateKeeps, ConstructResetKeeps, ConstructUnlockKeeps
  <2>3. CASE \E d \in DEs : Offer(p, d)
    BY <2>3, OfferKeeps
  <2>4. CASE OfferLock(p) \/ Compare(p) \/ Accept(p) \/ OfferUnlock(p)
    BY <2>4, OfferLockKeeps, CompareKeeps, AcceptKeeps, OfferUnlockKeeps
  <2>5. CASE ServiceLock(p) \/ ServiceComplete(p) \/ DestroyLayout(p)
    BY <2>5, ServiceLockKeeps, ServiceCompleteKeeps, DestructKeeps
  <2>. QED
    BY <2>1, <2>2, <2>3, <2>4, <2>5 DEF PETNext
<1>. QED
  BY <1>1, <1>2 DEF WorkNext, WorkFinished

(* The invariant implies what the work queue has to guarantee.                 *)
LEMMA WorkInvariantImplies ==
  WorkInv => WindowExclusive /\ OneServicePerOffer
<1>. SUFFICES ASSUME WorkInv PROVE WindowExclusive /\ OneServicePerOffer
  OBVIOUS
<1>1. WindowExclusive
  BY DEF WorkInv, Locks, WindowExclusive
<1>2. ASSUME NEW p \in PETs, NEW d \in DEs, NEW k \in 1 .. Answered(p, d)
      PROVE  servers[d][k] # 0
  <2>1. localServiceOfferCount[p][d] \in 0 .. NOffers
    BY CounterTypes
  <2>2. k \in Offers /\ k <= Answered(p, d) /\ Answered(p, d) \in Int
    BY <2>1, Numbers DEF Answered
  <2>3. CASE CountsReset
    <3>1. Answered(p, d) <= maxServiceOfferCount[d] /\ maxServiceOfferCount[d] \in Nat
      BY <2>3 DEF WorkInv, WorkTypeOK, Counted
    <3>2. k <= maxServiceOfferCount[d]
      BY <2>2, <3>1, Numbers
    <3>. QED
      BY <2>2, <2>3, <3>2 DEF WorkInv, Counted
  <2>4. CASE ~CountsReset
    <3>1. stage[p] \in {"construct", "allocate", "reset", "constructed"}
      BY <2>4 DEF WorkInv, SetUp, CountsReset
    <3>. QED
      BY <2>2, <3>1, Numbers DEF WorkInv, SetUp, Answered
  <2>. QED
    BY <2>3, <2>4
<1>. QED
  BY <1>1, <1>2 DEF WorkInv, Counted, OneServicePerOffer

(* In every run of the work queue the inductive invariant holds.               *)
THEOREM WorkInvariance == WorkSpec => []WorkInv
  BY WorkInitInvariant, WorkInductive, PTL DEF WorkSpec

(* In every run, for any number of PETs, DEs and offers, all variables keep    *)
(* their types and the shared counts, once reset, stay within the offers made. *)
THEOREM WorkTypeCorrect == WorkSpec => []WorkTypeOK
<1>1. WorkInv => WorkTypeOK
  BY DEF WorkInv
<1>. QED
  BY <1>1, WorkInvariance, PTL

(* serviceOffer and serviceComplete keep the service windows of a DE apart.    *)
THEOREM WindowsAreExclusive == WorkSpec => []WindowExclusive
  BY WorkInvariance, WorkInvariantImplies, PTL

(* serviceOffer accepts one PET per offer increment, and denies an offer only  *)
(* when some PET has been accepted for it.                                     *)
THEOREM OneServicePerOfferIncrement == WorkSpec => []OneServicePerOffer
  BY WorkInvariance, WorkInvariantImplies, PTL

-----------------------------------------------------------------------------
(* The work queue starts as the abstract pool of services does.                *)
THEOREM WorkRefinementInit == WorkInit => Pool!Init
  BY DEF WorkInit, Pool!Init, Pool!DEs, Pool!Offers, DEs, Offers

(* Every step of a PET is a step of the pool or leaves it as it is: the        *)
(* increment claims the next service of the DE, the two ends of the service    *)
(* window open and close it.                                                   *)
THEOREM WorkRefinementStep ==
  WorkInv /\ [WorkNext]_workvars => [Pool!Next]_(Pool!vars)
<1>. SUFFICES ASSUME WorkInv, [WorkNext]_workvars PROVE [Pool!Next]_(Pool!vars)
  OBVIOUS
<1>. USE DEF Pool!vars
<1>1. CASE UNCHANGED workvars
  BY <1>1 DEF workvars
<1>2. ASSUME NEW p \in PETs, PETNext(p) PROVE [Pool!Next]_(Pool!vars)
  <2>1. CASE Accept(p)
    <3>. DEFINE d == de[p]
                k == localServiceOfferCount[p][d]
    <3>1. d \in DEs /\ CountsReset
      BY <2>1 DEF WorkInv, WorkTypeOK, OfferedDE, CountsReset, SetUp, Accept
    <3>2. k = maxServiceOfferCount[d] + 1 /\ k \in 0 .. NOffers /\ maxServiceOfferCount[d] \in Nat
      BY <2>1, <3>1 DEF WorkInv, WorkTypeOK, Counted, Accept
    <3>3. k \in Offers /\ \A j \in 1 .. k - 1 : j \in Offers /\ j <= maxServiceOfferCount[d]
      BY <3>2, Numbers
    <3>4. servers[d][k] = 0 /\ \A j \in 1 .. k - 1 : servers[d][j] # 0
      <4>1. ~ (k <= maxServiceOfferCount[d])
        BY <3>2
      <4>. QED
        BY <3>1, <3>3, <4>1 DEF WorkInv, Counted
    <3>5. Pool!Claim(p, d, k)
      BY <2>1, <3>4 DEF Accept, Pool!Claim, Service
    <3>. QED
      BY <3>1, <3>3, <3>5 DEF Pool!Next, Pool!DEs, Pool!Offers, DEs, Offers
  <2>2. CASE ServiceLock(p)
    <3>1. de[p] \in DEs /\ \E k \in Offers : servers[de[p]][k] = p
      BY <2>2 DEF WorkInv, WorkTypeOK, Entitled, OfferedDE, ServiceLock
    <3>2. Pool!Open(p, de[p])
      BY <2>2, <3>1 DEF ServiceLock, MutexLock, Pool!Open, Pool!Offers, Offers
    <3>. QED
      BY <3>1, <3>2 DEF Pool!Next, Pool!DEs, DEs
  <2>3. CASE ServiceComplete(p)
    <3>1. de[p] \in DEs /\ serviceMutex[de[p]] = p
      BY <2>3 DEF WorkInv, OfferedDE, Locks, InWindow, ServiceComplete
    <3>2. Pool!Close(p, de[p])
      BY <2>3, <3>1 DEF ServiceComplete, Pool!Close
    <3>. QED
      BY <3>1, <3>2 DEF Pool!Next, Pool!DEs, DEs
  <2>4. CASE ConstructLock(p) \/ ConstructAllocate(p) \/ ConstructReset(p) \/ ConstructUnlock(p)
    BY <2>4 DEF ConstructLock, ConstructAllocate, ConstructReset, ConstructUnlock, Service
  <2>5. CASE (\E d \in DEs : Offer(p, d)) \/ OfferLock(p) \/ Compare(p) \/ OfferUnlock(p) \/ DestroyLayout(p)
    BY <2>5 DEF Offer, OfferLock, Compare, OfferUnlock, DestroyLayout, Service
  <2>. QED
    BY <1>2, <2>1, <2>2, <2>3, <2>4, <2>5 DEF PETNext
<1>. QED
  BY <1>1, <1>2 DEF WorkNext, WorkFinished

(* The safety part of WorkImplements, for any number of PETs, DEs and offers: the  *)
(* work queue never gives a service twice and never lets two windows overlap.  *)
THEOREM WorkRefinement == WorkSpec => Pool!Init /\ [][Pool!Next]_(Pool!vars)
  BY WorkInvariance, WorkRefinementInit, WorkRefinementStep, PTL DEF WorkSpec
================================================================================
