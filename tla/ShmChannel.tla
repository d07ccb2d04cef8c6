----------------------------- MODULE ShmChannel -----------------------------
(***************************************************************************)
(* One shared memory channel of the VMKernel (comm_type                    *)
(* VM_COMM_TYPE_SHMHACK, structure shared_mp), from a sending PET "a" to a *)
(* receiving PET "b" of the same process: the blocking VMK::send and       *)
(* VMK::recv of ESMCI_VMKernel.C, and the VMK::threadbarrier of a thread   *)
(* group of these two PETs, which spins on the same two flags.             *)
(*                                                                         *)
(* The two PETs run the same program of operations:                        *)
(*   "small"    a message of at most SHARED_BUFFER bytes, through buffer   *)
(*   "large"    a longer one, each PET copying one half from the source to *)
(*              the destination                                            *)
(*   "barrier"  VMK::threadbarrier                                         *)
(*                                                                         *)
(* Memory is sequentially consistent, a copy is one step.  The source of   *)
(* message k holds k while its send runs and something else afterwards:    *)
(* the caller may reuse it as soon as the send returns.                    *)
(***************************************************************************)
EXTENDS ShmSync

CONSTANT NMsgs  \* length of the program

ASSUME NMsgsAssumption == NMsgs \in Nat

Msgs == 1 .. NMsgs
Kinds == {"small", "large", "barrier"}

VARIABLES
  program,   \* program[k]: kind of the k-th operation
  shms,      \* shared_mp::shms
  buffer,    \* shared_mp::buffer, as the message it holds (0: none)
  ptr_src,   \* shared_mp::ptr_src, as the message whose source it points to
  ptr_dst,   \* shared_mp::ptr_dst, as the message whose destination it is
  pc,        \* pc[end]: where the PET at that end of the channel is
  msg,       \* msg[end]: the operation it is in, or calls next
  dst        \* dst[k]: content of the two halves of k's destination

vars == <<program, shms, buffer, ptr_src, ptr_dst, pc, msg, dst>>

PCs == {"idle", "waitEmpty", "fill", "flagFill", "waitFill", "drain",
        "flagEmpty", "setPtr", "flip", "flipWait", "copy", "flop", "flopWait"}

Halves == {"lower", "upper"}

\* Mutant of Source: the pointer has already moved to the next message.
SourceNext(k) == IF msg["a"] = k /\ pc["a"] # "idle" THEN k + 1 ELSE 0

\* The content of the source of message k.
Source(k) == IF msg["a"] = k /\ pc["a"] # "idle" THEN k ELSE 0

Init ==
  /\ program \in [Msgs -> Kinds]
  /\ shms = SyncReset
  /\ buffer = 0 /\ ptr_src = 0 /\ ptr_dst = 0
  /\ pc = [e \in Ends |-> "idle"]
  /\ msg = [e \in Ends |-> 1]
  /\ dst = [k \in Msgs |-> [h \in Halves |-> 0]]

-----------------------------------------------------------------------------
Goto(e, label) == pc' = [pc EXCEPT ![e] = label]

\* The operation of PET e is over: back to the code that called it.
Return(e) ==
  /\ Goto(e, "idle")
  /\ msg' = [msg EXCEPT ![e] = @ + 1]

Kind(e) == program[msg[e]]

\* Call of send, recv or threadbarrier: the branch on the size.
Call(e) ==
  /\ pc[e] = "idle" /\ msg[e] \in Msgs
  /\ Goto(e, CASE Kind(e) = "small" /\ e = "a" -> "waitEmpty"
               [] Kind(e) = "small" /\ e = "b" -> "waitFill"
               [] Kind(e) = "large" -> "setPtr"
               [] Kind(e) = "barrier" -> "flip")
  /\ UNCHANGED <<program, shms, buffer, ptr_src, ptr_dst, msg, dst>>

\* send, size <= SHARED_BUFFER
WaitEmpty ==
  /\ pc["a"] = "waitEmpty" /\ Emptied(shms, 0)
  /\ Goto("a", "fill")
  /\ UNCHANGED <<program, shms, buffer, ptr_src, ptr_dst, msg, dst>>

Fill ==
  /\ pc["a"] = "fill"
  /\ buffer' = Source(msg["a"])
  /\ Goto("a", "flagFill")
  /\ UNCHANGED <<program, shms, ptr_src, ptr_dst, msg, dst>>

FlagFillReturn ==
  /\ pc["a"] = "flagFill"
  /\ shms' = FlagFill(shms, 0)
  /\ Return("a")
  /\ UNCHANGED <<program, buffer, ptr_src, ptr_dst, dst>>

\* recv, size <= SHARED_BUFFER
WaitFill ==
  /\ pc["b"] = "waitFill" /\ Filled(shms, 0)
  /\ Goto("b", "drain")
  /\ UNCHANGED <<program, shms, buffer, ptr_src, ptr_dst, msg, dst>>

Drain ==
  /\ pc["b"] = "drain"
  /\ dst' = [dst EXCEPT ![msg["b"]] = [h \in Halves |-> buffer]]
  /\ Goto("b", "flagEmpty")
  /\ UNCHANGED <<program, shms, buffer, ptr_src, ptr_dst, msg>>

FlagEmptyReturn ==
  /\ pc["b"] = "flagEmpty"
  /\ shms' = FlagEmpty(shms, 0)
  /\ Return("b")
  /\ UNCHANGED <<program, buffer, ptr_src, ptr_dst, dst>>

-----------------------------------------------------------------------------
\* send and recv, size > SHARED_BUFFER
SetPtrSrc ==
  /\ pc["a"] = "setPtr"
  /\ ptr_src' = msg["a"]
  /\ Goto("a", "flip")
  /\ UNCHANGED <<program, shms, buffer, ptr_dst, msg, dst>>

SetPtrDst ==
  /\ pc["b"] = "setPtr"
  /\ ptr_dst' = msg["b"]
  /\ Goto("b", "flip")
  /\ UNCHANGED <<program, shms, buffer, ptr_src, msg, dst>>

Flip(e) ==
  /\ pc[e] = "flip"
  /\ shms' = FlipStore(shms, e)
  /\ Goto(e, "flipWait")
  /\ UNCHANGED <<program, buffer, ptr_src, ptr_dst, msg, dst>>

\* A barrier goes from the flip straight to the flop.
FlipWait(e) ==
  /\ pc[e] = "flipWait" /\ FlipPassed(shms, e)
  /\ Goto(e, IF Kind(e) = "barrier" THEN "flop" ELSE "copy")
  /\ UNCHANGED <<program, shms, buffer, ptr_src, ptr_dst, msg, dst>>

\* "send takes the lower half", "recv takes the upper half"
HalfOf(e) == IF e = "a" THEN "lower" ELSE "upper"

Copy(e) ==
  /\ pc[e] = "copy"
  /\ dst' = [dst EXCEPT ![ptr_dst] = [@ EXCEPT ![HalfOf(e)] = Source(ptr_src)]]
  /\ Goto(e, "flop")
  /\ UNCHANGED <<program, shms, buffer, ptr_src, ptr_dst, msg>>

Flop(e) ==
  /\ pc[e] = "flop"
  /\ shms' = FlopStore(shms, e)
  /\ Goto(e, "flopWait")
  /\ UNCHANGED <<program, buffer, ptr_src, ptr_dst, msg, dst>>

FlopWait(e) ==
  /\ pc[e] = "flopWait" /\ FlopPassed(shms, e)
  /\ Return(e)
  /\ UNCHANGED <<program, shms, buffer, ptr_src, ptr_dst, dst>>

-----------------------------------------------------------------------------
Sender == WaitEmpty \/ Fill \/ FlagFillReturn \/ SetPtrSrc
Receiver == WaitFill \/ Drain \/ FlagEmptyReturn \/ SetPtrDst

Either(e) == Call(e) \/ Flip(e) \/ FlipWait(e) \/ Copy(e) \/ Flop(e) \/ FlopWait(e)

\* The whole program is done: nothing more happens.
Finished == /\ \A e \in Ends : pc[e] = "idle" /\ msg[e] \notin Msgs
            /\ UNCHANGED vars

Next == Sender \/ Receiver \/ (\E e \in Ends : Either(e)) \/ Finished

\* Every PET is a thread the operating system keeps scheduling.
Fairness ==
  /\ WF_vars(Sender \/ Either("a"))
  /\ WF_vars(Receiver \/ Either("b"))

Spec == Init /\ [][Next]_vars /\ Fairness

-----------------------------------------------------------------------------
\* Every variable holds a value the code could give it.
TypeOK ==
  /\ program \in [Msgs -> Kinds]
  /\ shms \in ShmSyncs
  /\ buffer \in 0 .. NMsgs
  /\ ptr_src \in 0 .. NMsgs
  /\ ptr_dst \in 0 .. NMsgs
  /\ pc \in [Ends -> PCs]
  /\ msg \in [Ends -> 1 .. NMsgs + 1]
  /\ dst \in [Msgs -> [Halves -> 0 .. NMsgs]]

\* "now ptr_src and ptr_dst are valid for this message": while a PET copies its
\* half of a large message, both pointers are those of its own message, and the
\* peer is still inside the call, so that neither buffer can be reused.
CopyValid ==
  \A e \in Ends : pc[e] = "copy" =>
    /\ ptr_src = msg[e] /\ ptr_dst = msg[e]
    /\ msg[Peer(e)] = msg[e] /\ pc[Peer(e)] # "idle"

\* The sender never fills the buffer while the receiver drains it, or before
\* the receiver has drained the message it holds.
BufferExclusive ==
  /\ ~(pc["a"] \in {"fill", "flagFill"} /\ pc["b"] \in {"drain", "flagEmpty"})
  /\ pc["a"] = "fill" => \A k \in Msgs :
       (program[k] = "small" /\ k < msg["a"]) => k < msg["b"]

\* A message that recv has returned is complete and is the right one: both
\* halves of its destination hold it.
Delivery ==
  \A k \in Msgs : k < msg["b"] /\ program[k] # "barrier" =>
    dst[k] = [h \in Halves |-> k]

-----------------------------------------------------------------------------
\* The strengthening of the invariants above that every step preserves.

\* A PET stands at a label of the branch its operation takes.
PcKind ==
  \A e \in Ends :
    /\ pc[e] # "idle" => msg[e] \in Msgs
    /\ pc[e] \in {"waitEmpty", "fill", "flagFill"} => e = "a" /\ Kind(e) = "small"
    /\ pc[e] \in {"waitFill", "drain", "flagEmpty"} => e = "b" /\ Kind(e) = "small"
    /\ pc[e] \in {"setPtr", "copy"} => Kind(e) = "large"
    /\ pc[e] \in {"flip", "flipWait", "flop", "flopWait"} => Kind(e) # "small"

\* PET e has announced itself in operation k; has taken the peer's back.
Flipped(e, k) == msg[e] > k \/ (msg[e] = k /\ pc[e] \in {"flipWait", "copy", "flop", "flopWait"})
Flopped(e, k) == msg[e] > k \/ (msg[e] = k /\ pc[e] = "flopWait")

\* A flag is up from its owner's flip to the peer's flop of the same operation.
DoneFlags ==
  \A e \in Ends :
    /\ shms.done[e] = 1 <=> /\ pc[e] \in {"flipWait", "copy", "flop", "flopWait"}
                            /\ ~Flopped(Peer(e), msg[e])
    /\ pc[e] \in {"copy", "flop", "flopWait"} => Flipped(Peer(e), msg[e])

\* The PET that is behind is at the end of the synchronous operation k its peer
\* has left, or the operation is a small message.
Lag ==
  \A e \in Ends : \A k \in Msgs : msg[e] <= k /\ k < msg[Peer(e)] =>
    IF program[k] = "small"
      THEN e = "b" /\ shms.buffer_done[0] = 1 /\ buffer = k
      ELSE msg[e] = k /\ pc[e] = "flopWait"

\* The buffer flag is up while one small message is in transit.
BufferFlag ==
  /\ shms.buffer_done[0] = 1 =>
       msg["b"] <= buffer /\ buffer < msg["a"] /\ program[buffer] = "small"
  /\ pc["a"] \in {"fill", "flagFill"} => shms.buffer_done[0] = 0
  /\ pc["a"] = "flagFill" => buffer = msg["a"]
  /\ pc["b"] \in {"drain", "flagEmpty"} => shms.buffer_done[0] = 1

\* A PET in a large message has published its pointer.
Pointers ==
  LET inLarge(e) == /\ pc[e] \in {"flip", "flipWait", "copy", "flop", "flopWait"}
                    /\ Kind(e) = "large"
  IN  /\ inLarge("a") => ptr_src = msg["a"]
      /\ inLarge("b") => ptr_dst = msg["b"]

\* What has been copied is in place.
Copied ==
  /\ \A k \in Msgs, e \in Ends :
       program[k] = "large" /\ (msg[e] > k \/ (msg[e] = k /\ pc[e] \in {"flop", "flopWait"}))
         => dst[k][HalfOf(e)] = k
  /\ \A k \in Msgs, h \in Halves :
       program[k] = "small" /\ (msg["b"] > k \/ (msg["b"] = k /\ pc["b"] = "flagEmpty"))
         => dst[k][h] = k

\* The inductive invariant.
IInv == TypeOK /\ PcKind /\ DoneFlags /\ Lag /\ BufferFlag /\ Pointers /\ Copied

-----------------------------------------------------------------------------
Carries == [k \in Kinds |-> k # "barrier"]
Rendezvous == [k \in Kinds |-> k # "small"]

\* What PointToPoint calls the result of operation k.
Result(k) ==
  IF k < msg["b"] /\ program[k] # "barrier"
    THEN IF dst[k]["lower"] = dst[k]["upper"] THEN dst[k]["lower"] ELSE NMsgs + 1
    ELSE 0

P2P == INSTANCE PointToPoint WITH
  sent <- msg["a"] - 1, inSend <- pc["a"] # "idle",
  rcvd <- msg["b"] - 1, inRecv <- pc["b"] # "idle",
  result <- [k \in Msgs |-> Result(k)]

\* The channel implements the blocking send and receive: messages arrive
\* complete, in order, large messages and barriers hold both PETs until each
\* has called, and both PETs finish their programs.
Implements == P2P!Spec
=============================================================================
