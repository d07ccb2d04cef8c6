------------------------------ MODULE VMEpoch ------------------------------
(***************************************************************************)
(* The buffering epoch of the VMKernel (ESMF_VMEPOCH_BUFFER): epochEnter,  *)
(* epochExit, epochSetFirst, epochFinal, sendBuffer::clear and the epoch   *)
(* branch of the non-blocking VMK::send and VMK::recv (ESMCI_VMKernel.C).  *)
(*                                                                         *)
(* Every PET goes through the same epochs.  Inside one, a sending PET      *)
(* appends its messages to one buffer per destination, and epochExit posts *)
(* each buffer as one MPI message.  A receiving PET fetches that message   *)
(* when it first receives from that source in the epoch, acknowledges it,  *)
(* and serves its receives from it.  No PET both sends and receives, as    *)
(* VM_options.tex demands.                                                 *)
(*                                                                         *)
(* A message is its position in the stream from its source to its          *)
(* destination, 0 is garbage.  MPI delivers in order between two PETs; it  *)
(* reads the buffer of an MPI_Isend at a time of its choice, at the latest *)
(* when the message is received.                                           *)
(***************************************************************************)
EXTENDS Naturals, Sequences

CONSTANTS
  NSenders,   \* number of sending PETs: a receiving PET takes them in order
  NReceivers, \* number of receiving PETs, in the order of the keys of sendMap
  NEpochs,    \* number of epochs
  Programs,   \* what the PETs may send: messages of each pair up to each epoch
  Throttle,   \* epochThrottle, "must be greater than zero"
  KeepAlloc,  \* values of the argument keepAlloc of epochEnter
  ExitKeepAlloc, \* values of the argument keepAlloc of epochExit
  Padding     \* may the size of a posted buffer need padding?

ASSUME ConstantsAssumption ==
  /\ {NSenders, NReceivers, NEpochs} \subseteq Nat
  /\ Throttle \in Nat \ {0}
  /\ KeepAlloc \subseteq BOOLEAN /\ ExitKeepAlloc \subseteq BOOLEAN /\ Padding \subseteq BOOLEAN

Senders == 1 .. NSenders
Receivers == 1 .. NReceivers
ASSUME ProgramsAssumption ==
  /\ Programs \subseteq [0 .. NEpochs -> [Senders -> [Receivers -> Nat]]]
  /\ \A q \in Programs, s \in Senders, r \in Receivers :
       /\ q[0][s][r] = 0
       /\ \A d, e \in 0 .. NEpochs : d <= e => q[d][s][r] <= q[e][s][r]

VARIABLES
  program,   \* program[e][s][r]: messages from s to r in the epochs 1 to e
  epoch,     \* epoch[p]: the epoch PET p is in, or enters next
  pc,        \* pc[p]: "out", "in", "exit", "final" or "done"
  at,        \* at[p]: the peer at which a loop of PET p stands
  sendMap,   \* sendMap[s][r]: the sendBuffer
  sent,      \* sent[s][r]: number of messages appended
  network,   \* network[s][r]: MPI messages posted and not yet received
  acked,     \* acked[s][r]: acknowledges sent by r that s did not wait for yet
  recvMap,   \* recvMap[r][s]: the recvBuffer
  delivered  \* delivered[r][s]: what the receives have returned

vars == <<program, epoch, pc, at, sendMap, sent, network, acked, recvMap, delivered>>

\* The PETs, in two disjoint roles.
S(s) == <<"sender", s>>
R(r) == <<"receiver", r>>
PETs == {S(s) : s \in Senders} \cup {R(r) : r \in Receivers}

Quota(e, s, r) == program[e][s][r]

\* A PET that neither sends nor receives is not a part of this VM.
Idle(p) ==
  \A s \in Senders, r \in Receivers :
    p \in {S(s), R(r)} => Quota(NEpochs, s, r) = 0

\* struct sendBuffer.  mpireq: not MPI_REQUEST_NULL.  An element of ackQueue
\* tells whether its MPI_Irecv writes to memory the queue still owns.
SendBuffer ==
  [charBuffer |-> <<>>, mpireq |-> FALSE, firstFlag |-> TRUE, ackQueue |-> <<>>]

\* struct recvBuffer.  probed: between the MPI_Probe and the MPI_Recv.
RecvBuffer == [chunks |-> <<>>, firstFlag |-> TRUE, probed |-> FALSE]

Init ==
  /\ program \in Programs
  /\ epoch = [p \in PETs |-> 1]
  /\ pc = [p \in PETs |-> IF Idle(p) THEN "done" ELSE "out"]
  /\ at = [p \in PETs |-> 1]
  /\ sendMap = [s \in Senders |-> [r \in Receivers |-> SendBuffer]]
  /\ sent = [s \in Senders |-> [r \in Receivers |-> 0]]
  /\ network = [s \in Senders |-> [r \in Receivers |-> <<>>]]
  /\ acked = [s \in Senders |-> [r \in Receivers |-> 0]]
  /\ recvMap = [r \in Receivers |-> [s \in Senders |-> RecvBuffer]]
  /\ delivered = [r \in Receivers |-> [s \in Senders |-> <<>>]]

-----------------------------------------------------------------------------
\* The MPI library: is it done with the buffer of the last MPI_Isend?
Complete(s, r) == \A i \in DOMAIN network[s][r] : ~network[s][r][i].pending

\* It may copy a posted message out of its buffer before it is received.
IsendCompletes(s, r) ==
  /\ ~Complete(s, r)
  /\ network' = [network EXCEPT ![s][r] =
       [i \in DOMAIN @ |-> [@[i] EXCEPT !.pending = FALSE]]]
  /\ UNCHANGED <<program, epoch, pc, at, sendMap, sent, acked, recvMap, delivered>>

\* Freeing the buffer of a pending message leaves MPI garbage to send.
Freed(messages) ==
  [i \in DOMAIN messages |->
     IF messages[i].pending
       THEN [messages[i] EXCEPT !.chunks = [c \in DOMAIN @ |-> 0]]
       ELSE messages[i]]

-----------------------------------------------------------------------------
\* Mutants of the operators below.
ClearNoWait(s, r) == TRUE
AckNoWait(s, r) == TRUE
NoAcknowledge(s, r) == UNCHANGED acked

\* The ackQueue of an element that is erased and recreated: the elements are
\* copied, and a pending MPI_Irecv keeps writing to the original.
CopiedQueue(b, acks) == [i \in DOMAIN b.ackQueue |-> b.ackQueue[i] /\ i <= acks]

\* epochSetFirst for one element of sendMap, with clear(true) in it.
SetFirst(b, testAndClear, complete, acks) ==
  IF ~testAndClear THEN [b EXCEPT !.firstFlag = TRUE]
  ELSE IF b.mpireq /\ complete
    THEN [SendBuffer EXCEPT !.ackQueue = CopiedQueue(b, acks)]
    ELSE [b EXCEPT !.firstFlag = TRUE, !.charBuffer = <<>>]

EpochEnter(s, keepAlloc) ==
  /\ pc[S(s)] = "out" /\ epoch[S(s)] <= NEpochs
  /\ sendMap' = [sendMap EXCEPT ![s] = [r \in Receivers |->
       SetFirst(sendMap[s][r], ~keepAlloc, Complete(s, r), acked[s][r])]]
  /\ network' = IF keepAlloc THEN network
                ELSE [network EXCEPT ![s] = [r \in Receivers |-> Freed(network[s][r])]]
  /\ pc' = [pc EXCEPT ![S(s)] = "in"]
  /\ UNCHANGED <<program, epoch, at, sent, acked, recvMap, delivered>>

\* sendBuffer::clear(false): MPI_Wait on the last message.
ClearWait(s, r) == sendMap[s][r].mpireq => Complete(s, r)

\* VMK::send: the first message of the epoch clears the buffer of the last one.
Send(s, r) ==
  LET b == sendMap[s][r]
      cleared == [b EXCEPT !.firstFlag = FALSE, !.mpireq = FALSE, !.charBuffer = <<>>]
      base == IF b.firstFlag THEN cleared ELSE b
  IN
  /\ pc[S(s)] = "in" /\ sent[s][r] < Quota(epoch[S(s)], s, r)
  /\ b.firstFlag => ClearWait(s, r)
  /\ sendMap' = [sendMap EXCEPT ![s][r] =
       [base EXCEPT !.charBuffer = Append(@, sent[s][r] + 1)]]
  /\ sent' = [sent EXCEPT ![s][r] = @ + 1]
  /\ network' = IF b.firstFlag THEN [network EXCEPT ![s][r] = Freed(@)] ELSE network
  /\ UNCHANGED <<program, epoch, pc, at, acked, recvMap, delivered>>

EpochExit(s) ==
  /\ pc[S(s)] = "in"
  /\ \A r \in Receivers : sent[s][r] = Quota(epoch[S(s)], s, r)
  /\ pc' = [pc EXCEPT ![S(s)] = "exit"]
  /\ at' = [at EXCEPT ![S(s)] = 1]
  /\ UNCHANGED <<program, epoch, sendMap, sent, network, acked, recvMap, delivered>>

\* The loop of epochExit over sendMap: the condition of the throttle loop.
Throttled(b) == Len(b.ackQueue) > Throttle

\* The MPI_Wait on the front of ackQueue returns.
AckArrived(s, r) == acked[s][r] > 0

ThrottleWait(s, r) ==
  /\ pc[S(s)] = "exit" /\ at[S(s)] = r
  /\ Throttled(sendMap[s][r])
  /\ AckArrived(s, r)
  /\ acked' = [acked EXCEPT ![s][r] = @ - 1]
  /\ sendMap' = [sendMap EXCEPT ![s][r].ackQueue = Tail(@)]
  /\ UNCHANGED <<program, epoch, pc, at, sent, network, recvMap, delivered>>

\* needAck: an acknowledge is expected for a buffer that is not empty.
NeedAck(b) == b.charBuffer # <<>>

\* A large buffer whose size is no multiple of the MPI type is resized to one:
\* the vector was resized to zero before, so this fills it with zeros.
Padded(chunks) == [c \in DOMAIN chunks |-> 0]

\* Post the buffer, if it holds anything, and the receive of its acknowledge.
Post(s, r, padding) ==
  LET b == sendMap[s][r]
      size == Len(b.charBuffer)
  IN
  /\ pc[S(s)] = "exit" /\ at[S(s)] = r
  /\ ~Throttled(b)
  /\ sendMap' = [sendMap EXCEPT ![s][r] =
       [b EXCEPT !.charBuffer = <<>>,
                 !.mpireq = @ \/ size > 0,
                 !.ackQueue = IF NeedAck(b) THEN Append(@, TRUE) ELSE @]]
  /\ network' = IF size = 0 THEN network ELSE [network EXCEPT ![s][r] =
       Append(@, [chunks |-> IF padding THEN Padded(b.charBuffer) ELSE b.charBuffer,
                 pending |-> TRUE])]
  /\ at' = [at EXCEPT ![S(s)] = r + 1]
  /\ UNCHANGED <<program, epoch, pc, sent, acked, recvMap, delivered>>

\* The end of an epoch; epochFinal comes after the last one.
Leave(p, last) ==
  /\ epoch' = [epoch EXCEPT ![p] = @ + 1]
  /\ pc' = [pc EXCEPT ![p] = IF epoch[p] = NEpochs THEN last ELSE "out"]
  /\ at' = [at EXCEPT ![p] = 1]

EpochExited(s) ==
  /\ pc[S(s)] = "exit" /\ at[S(s)] \notin Receivers
  /\ Leave(S(s), "final")
  /\ UNCHANGED <<program, sendMap, sent, network, acked, recvMap, delivered>>

\* epochFinal: wait for the last message and for every acknowledge, per peer.
EpochFinal(s, r) ==
  /\ pc[S(s)] = "final" /\ at[S(s)] = r
  /\ ClearWait(s, r)
  /\ acked[s][r] = Len(sendMap[s][r].ackQueue)
  /\ sendMap' = [sendMap EXCEPT ![s][r] = SendBuffer]
  /\ acked' = [acked EXCEPT ![s][r] = 0]
  /\ at' = [at EXCEPT ![S(s)] = r + 1]
  /\ pc' = IF r + 1 \in Receivers THEN pc ELSE [pc EXCEPT ![S(s)] = "done"]
  /\ UNCHANGED <<program, epoch, sent, network, recvMap, delivered>>

-----------------------------------------------------------------------------
RecvEpochEnter(r) ==
  /\ pc[R(r)] = "out" /\ epoch[R(r)] <= NEpochs
  /\ pc' = [pc EXCEPT ![R(r)] = "in"]
  /\ recvMap' = [recvMap EXCEPT ![r] =
       [s \in Senders |-> [recvMap[r][s] EXCEPT !.firstFlag = TRUE]]]
  /\ UNCHANGED <<program, epoch, at, sendMap, sent, network, acked, delivered>>

\* Inside a VMK::recv from s.
InRecv(r, s) ==
  /\ pc[R(r)] = "in" /\ at[R(r)] = s
  /\ Len(delivered[r][s]) < Quota(epoch[R(r)], s, r)

\* The MPI_Send of the acknowledge.
Acknowledge(s, r) == acked' = [acked EXCEPT ![s][r] = @ + 1]

\* The first receive of the epoch: MPI_Probe, then the acknowledge.
Probe(r, s) ==
  /\ InRecv(r, s) /\ recvMap[r][s].firstFlag
  /\ network[s][r] # <<>>
  /\ recvMap' = [recvMap EXCEPT ![r][s] = [@ EXCEPT !.firstFlag = FALSE, !.probed = TRUE]]
  /\ Acknowledge(s, r)
  /\ UNCHANGED <<program, epoch, pc, at, sendMap, sent, network, delivered>>

\* MPI_Recv of the whole buffer.
RecvBuffered(r, s) ==
  /\ InRecv(r, s) /\ recvMap[r][s].probed
  /\ recvMap' = [recvMap EXCEPT ![r][s] =
       [@ EXCEPT !.probed = FALSE, !.chunks = Head(network[s][r]).chunks]]
  /\ network' = [network EXCEPT ![s][r] = Tail(@)]
  /\ UNCHANGED <<program, epoch, pc, at, sendMap, sent, acked, delivered>>

\* "service the specific receive call with chunk of data from buffer"
RecvChunk(r, s) ==
  LET rm == recvMap[r][s] IN
  /\ InRecv(r, s) /\ ~rm.firstFlag /\ ~rm.probed
  /\ delivered' = [delivered EXCEPT ![r][s] =
       Append(@, IF rm.chunks = <<>> THEN 0 ELSE Head(rm.chunks))]
  /\ recvMap' = IF rm.chunks = <<>> THEN recvMap
                ELSE [recvMap EXCEPT ![r][s].chunks = Tail(@)]
  /\ UNCHANGED <<program, epoch, pc, at, sendMap, sent, network, acked>>

\* All receives from s are done: the next source, and then the epoch's end.
RecvNextSource(r, s) ==
  /\ pc[R(r)] = "in" /\ at[R(r)] = s
  /\ Len(delivered[r][s]) = Quota(epoch[R(r)], s, r)
  /\ at' = [at EXCEPT ![R(r)] = s + 1]
  /\ UNCHANGED <<program, epoch, pc, sendMap, sent, network, acked, recvMap, delivered>>

\* epochExit clears recvMap unless keepAlloc.
RecvEpochExit(r, keepAlloc) ==
  /\ pc[R(r)] = "in" /\ at[R(r)] \notin Senders
  /\ Leave(R(r), "done")
  /\ recvMap' = IF keepAlloc THEN recvMap
                ELSE [recvMap EXCEPT ![r] = [s \in Senders |-> RecvBuffer]]
  /\ UNCHANGED <<program, sendMap, sent, network, acked, delivered>>

-----------------------------------------------------------------------------
SenderNext(s) ==
  \/ \E keep \in KeepAlloc : EpochEnter(s, keep)
  \/ EpochExit(s)
  \/ EpochExited(s)
  \/ \E r \in Receivers : Send(s, r) \/ ThrottleWait(s, r) \/ EpochFinal(s, r)
  \/ \E r \in Receivers, padding \in Padding : Post(s, r, padding)

ReceiverNext(r) ==
  \/ RecvEpochEnter(r)
  \/ \E keep \in ExitKeepAlloc : RecvEpochExit(r, keep)
  \/ \E s \in Senders : Probe(r, s) \/ RecvBuffered(r, s) \/ RecvChunk(r, s) \/ RecvNextSource(r, s)

Finished == (\A p \in PETs : pc[p] = "done") /\ UNCHANGED vars

Next ==
  \/ \E s \in Senders : SenderNext(s)
  \/ \E r \in Receivers : ReceiverNext(r)
  \/ \E s \in Senders, r \in Receivers : IsendCompletes(s, r)
  \/ Finished

\* Every PET runs; MPI need not complete a send before it is received.
Fairness ==
  /\ \A s \in Senders : WF_vars(SenderNext(s))
  /\ \A r \in Receivers : WF_vars(ReceiverNext(r))

Spec == Init /\ [][Next]_vars /\ Fairness

-----------------------------------------------------------------------------
SendBuffers ==
  [charBuffer : Seq(Nat), mpireq : BOOLEAN, firstFlag : BOOLEAN, ackQueue : Seq(BOOLEAN)]
MPIMessages == [chunks : Seq(Nat), pending : BOOLEAN]
RecvBuffers == [chunks : Seq(Nat), firstFlag : BOOLEAN, probed : BOOLEAN]

\* Every variable holds a value the code could give it.
TypeOK ==
  /\ program \in Programs
  /\ epoch \in [PETs -> 1 .. NEpochs + 1]
  /\ pc \in [PETs -> {"out", "in", "exit", "final", "done"}]
  /\ at \in [PETs -> Nat]
  /\ sendMap \in [Senders -> [Receivers -> SendBuffers]]
  /\ sent \in [Senders -> [Receivers -> Nat]]
  /\ network \in [Senders -> [Receivers -> Seq(MPIMessages)]]
  /\ acked \in [Senders -> [Receivers -> Nat]]
  /\ recvMap \in [Receivers -> [Senders -> RecvBuffers]]
  /\ delivered \in [Receivers -> [Senders -> Seq(Nat)]]

\* Every receive returns the message the matching send was given: nothing is
\* lost, reordered, duplicated, or changed while MPI still reads the buffer.
DeliveredInOrder ==
  \A r \in Receivers, s \in Senders :
    \A i \in DOMAIN delivered[r][s] : delivered[r][s][i] = i

\* All PETs come through all epochs and the clean-up: the throttle and the
\* blocking probes never leave two PETs waiting for each other.
Completion == <>(\A p \in PETs : pc[p] = "done")

-----------------------------------------------------------------------------
\* What MPI sends is what the sends of the epoch appended to the buffer.  With
\* keepAlloc false epochEnter deallocates "all internal buffers not actively
\* used", so not this one; epochExit may "pad the buffer", no more.
PostedIntact ==
  \A s \in Senders, r \in Receivers : \A i \in DOMAIN network[s][r] :
    \A c \in DOMAIN network[s][r][i].chunks : network[s][r][i].chunks[c] # 0

=============================================================================
