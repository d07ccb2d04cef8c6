--------------------------- MODULE VMEpochProofs ---------------------------
(***************************************************************************)
(* Proofs about VMEpoch for any number of PETs and epochs, any programs    *)
(* and any throttle.                                                       *)
(***************************************************************************)
EXTENDS VMEpoch, TLAPS, SequenceTheorems

\* A PET is inside an epoch only while there are epochs left, its loops start at
\* the first peer, and an MPI_Recv finds the message that was probed.
InEpoch ==
  \A p \in PETs :
    /\ pc[p] \in {"in", "exit"} => epoch[p] <= NEpochs
    /\ at[p] >= 1
    /\ pc[p] = "out" => at[p] = 1
Probed == \A r \in Receivers, s \in Senders : recvMap[r][s].probed => network[s][r] # <<>>

\* Messages of s that r did not acknowledge.
Outstanding(s, r) == Len(sendMap[s][r].ackQueue) - acked[s][r]

\* An epochExit stops at a destination while more than epochThrottle messages
\* are outstanding there, and then posts one: one more than ESMF_VMEpochEnter
\* documents, "maximum number of outstanding communication calls".
OneAbove == \A s \in Senders, r \in Receivers : Outstanding(s, r) <= Throttle + 1

\* The part of the invariant that holds whatever is freed, kept or padded.
Basic == TypeOK /\ InEpoch /\ Probed /\ OneAbove

\* The messages from s to r that were posted and those that were fetched.
Posted(s, r) == sent[s][r] - Len(sendMap[s][r].charBuffer)
Fetched(s, r) == Len(delivered[r][s]) + Len(recvMap[r][s].chunks)

\* The first message of the i-th MPI message under way, or the next to post.
Start(s, r, i) ==
  IF i \in DOMAIN network[s][r] THEN network[s][r][i].chunks[1] ELSE Posted(s, r) + 1

\* The MPI messages under way are, in order, what was posted and not fetched, and
\* each holds what one epoch sends.
Chained(s, r) ==
  /\ Start(s, r, 1) = Fetched(s, r) + 1
  /\ \A i \in DOMAIN network[s][r] :
       LET chunks == network[s][r][i].chunks IN
       /\ chunks # <<>>
       /\ Start(s, r, i + 1) = chunks[1] + Len(chunks)
       /\ \E e \in 1 .. NEpochs :
            /\ Len(chunks) = Quota(e, s, r) - Quota(e - 1, s, r)
            /\ \A c \in DOMAIN chunks : chunks[c] = Quota(e - 1, s, r) + c

\* What the sender has sent and posted, as far as it is in its epoch; a buffer
\* that MPI may read is marked so.
Sending(s, r) ==
  LET b == sendMap[s][r]
      before == Quota(epoch[S(s)] - 1, s, r)
      until == Quota(epoch[S(s)], s, r)
  IN
  /\ \A c \in DOMAIN b.charBuffer : b.charBuffer[c] = Posted(s, r) + c
  /\ b.firstFlag => b.charBuffer = <<>>
  /\ b.mpireq \/ Complete(s, r)
  /\ pc[S(s)] = "in" => Posted(s, r) = before /\ sent[s][r] <= until
  /\ pc[S(s)] = "exit" => /\ sent[s][r] = until
                          /\ Posted(s, r) = IF at[S(s)] > r THEN until ELSE before
  /\ pc[S(s)] \notin {"in", "exit"} => sent[s][r] = before /\ Posted(s, r) = before

\* What the receiver has fetched and delivered, as far as it is in its epoch.
Receiving(s, r) ==
  LET rm == recvMap[r][s]
      count == Len(delivered[r][s])
      before == Quota(epoch[R(r)] - 1, s, r)
      until == Quota(epoch[R(r)], s, r)
  IN
  /\ \A i \in DOMAIN delivered[r][s] : delivered[r][s][i] = i
  /\ \A c \in DOMAIN rm.chunks : rm.chunks[c] = count + c
  /\ rm.probed => pc[R(r)] = "in" /\ at[R(r)] = s /\ ~rm.firstFlag /\ count < until
  /\ pc[R(r)] = "in" =>
       /\ rm.firstFlag \/ rm.probed => count = before /\ rm.chunks = <<>>
       /\ ~rm.firstFlag /\ ~rm.probed => Fetched(s, r) = until
       /\ at[R(r)] > s => count = until
       /\ at[R(r)] < s => rm.firstFlag
  /\ pc[R(r)] # "in" => count = before /\ rm.chunks = <<>>

\* The streams between all pairs.
Streams == \A s \in Senders, r \in Receivers : Chained(s, r) /\ Sending(s, r) /\ Receiving(s, r)

-----------------------------------------------------------------------------
\* The PETs are distinct.
LEMMA PETFacts ==
  /\ \A s \in Senders : S(s) \in PETs
  /\ \A r \in Receivers : R(r) \in PETs
  /\ \A s \in Senders, r \in Receivers : S(s) # R(r)
  /\ \A s, t \in Senders : S(s) = S(t) => s = t
  /\ \A r, q \in Receivers : R(r) = R(q) => r = q
  /\ \A p \in PETs : (\E s \in Senders : p = S(s)) \/ (\E r \in Receivers : p = R(r))
BY DEF PETs, S, R

\* What a buffer and a message are made of.
LEMMA RecordFacts ==
  /\ \A b \in SendBuffers : /\ b.charBuffer \in Seq(Nat) /\ b.ackQueue \in Seq(BOOLEAN)
                            /\ b.mpireq \in BOOLEAN /\ b.firstFlag \in BOOLEAN
  /\ \A m \in MPIMessages : m.chunks \in Seq(Nat) /\ m.pending \in BOOLEAN
  /\ \A b \in RecvBuffers : b.chunks \in Seq(Nat) /\ b.firstFlag \in BOOLEAN /\ b.probed \in BOOLEAN
  /\ SendBuffer \in SendBuffers /\ RecvBuffer \in RecvBuffers
  /\ \A chars \in Seq(Nat), req \in BOOLEAN, first \in BOOLEAN, acks \in Seq(BOOLEAN) :
       [charBuffer |-> chars, mpireq |-> req, firstFlag |-> first, ackQueue |-> acks]
         \in SendBuffers
  /\ \A chars \in Seq(Nat), first \in BOOLEAN, probed \in BOOLEAN :
       [chunks |-> chars, firstFlag |-> first, probed |-> probed] \in RecvBuffers
  /\ \A chars \in Seq(Nat), pending \in BOOLEAN :
       [chunks |-> chars, pending |-> pending] \in MPIMessages
BY DEF SendBuffers, MPIMessages, RecvBuffers, SendBuffer, RecvBuffer

\* The assignments of the actions to the members of a sendBuffer.
LEMMA SendBufferUpdates ==
  ASSUME NEW b \in SendBuffers, NEW d, NEW chars, NEW req, NEW acks
  PROVE  /\ d = [b EXCEPT !.firstFlag = FALSE, !.mpireq = FALSE, !.charBuffer = <<>>] =>
              d = [charBuffer |-> <<>>, mpireq |-> FALSE,
                   firstFlag |-> FALSE, ackQueue |-> b.ackQueue]
         /\ d = [b EXCEPT !.charBuffer = chars] =>
              d = [charBuffer |-> chars, mpireq |-> b.mpireq,
                   firstFlag |-> b.firstFlag, ackQueue |-> b.ackQueue]
         /\ d = [b EXCEPT !.ackQueue = acks] =>
              d = [charBuffer |-> b.charBuffer, mpireq |-> b.mpireq,
                   firstFlag |-> b.firstFlag, ackQueue |-> acks]
         /\ d = [b EXCEPT !.charBuffer = chars, !.mpireq = req, !.ackQueue = acks] =>
              d = [charBuffer |-> chars, mpireq |-> req,
                   firstFlag |-> b.firstFlag, ackQueue |-> acks]
         /\ d = [b EXCEPT !.firstFlag = TRUE] =>
              d = [charBuffer |-> b.charBuffer, mpireq |-> b.mpireq,
                   firstFlag |-> TRUE, ackQueue |-> b.ackQueue]
BY DEF SendBuffers

\* The assignments of the actions to the members of a recvBuffer.
LEMMA RecvBufferUpdates ==
  ASSUME NEW rm \in RecvBuffers, NEW d, NEW chars, NEW first, NEW probed
  PROVE  /\ d = [rm EXCEPT !.firstFlag = TRUE] =>
              d = [chunks |-> rm.chunks, firstFlag |-> TRUE, probed |-> rm.probed]
         /\ d = [rm EXCEPT !.firstFlag = FALSE, !.probed = TRUE] =>
              d = [chunks |-> rm.chunks, firstFlag |-> FALSE, probed |-> TRUE]
         /\ d = [rm EXCEPT !.probed = FALSE, !.chunks = chars] =>
              d = [chunks |-> chars, firstFlag |-> rm.firstFlag, probed |-> FALSE]
         /\ d = [rm EXCEPT !.chunks = chars] =>
              d = [chunks |-> chars, firstFlag |-> rm.firstFlag, probed |-> rm.probed]
BY DEF RecvBuffers

\* An assignment to what concerns one pair.
LEMMA PairUpdate ==
  ASSUME NEW A, NEW B, NEW X, NEW f \in [A -> [B -> X]], NEW a \in A, NEW b \in B, NEW x \in X
  PROVE  /\ [f EXCEPT ![a][b] = x] \in [A -> [B -> X]]
         /\ [f EXCEPT ![a][b] = x][a][b] = x
         /\ \A c \in A, d \in B : ~(c = a /\ d = b) => [f EXCEPT ![a][b] = x][c][d] = f[c][d]
OBVIOUS

\* The types of what concerns one pair of PETs.
LEMMA PairFacts ==
  ASSUME TypeOK, NEW s \in Senders, NEW r \in Receivers
  PROVE  /\ sent[s][r] \in Nat /\ acked[s][r] \in Nat
         /\ sendMap[s][r] \in SendBuffers /\ recvMap[r][s] \in RecvBuffers
         /\ network[s][r] \in Seq(MPIMessages) /\ delivered[r][s] \in Seq(Nat)
         /\ S(s) \in PETs /\ R(r) \in PETs
         /\ epoch[S(s)] \in 1 .. NEpochs + 1 /\ epoch[R(r)] \in 1 .. NEpochs + 1
         /\ at[S(s)] \in Nat /\ at[R(r)] \in Nat
         /\ NSenders \in Nat /\ NReceivers \in Nat /\ NEpochs \in Nat
         /\ s \in Nat /\ r \in Nat
<1>1. S(s) \in PETs /\ R(r) \in PETs
  BY PETFacts
<1>2. /\ sent[s][r] \in Nat /\ acked[s][r] \in Nat
      /\ sendMap[s][r] \in SendBuffers /\ recvMap[r][s] \in RecvBuffers
      /\ network[s][r] \in Seq(MPIMessages) /\ delivered[r][s] \in Seq(Nat)
  BY DEF TypeOK
<1>3. /\ epoch[S(s)] \in 1 .. NEpochs + 1 /\ epoch[R(r)] \in 1 .. NEpochs + 1
      /\ at[S(s)] \in Nat /\ at[R(r)] \in Nat
  BY <1>1 DEF TypeOK
<1>4. /\ NSenders \in Nat /\ NReceivers \in Nat /\ NEpochs \in Nat /\ s \in Nat
      /\ r \in Nat
  BY ConstantsAssumption DEF Senders, Receivers
<1> QED
  BY <1>1, <1>2, <1>3, <1>4

\* Freeing a buffer changes no more than what MPI still has to read.
LEMMA FreedFacts ==
  ASSUME NEW messages \in Seq(MPIMessages)
  PROVE  /\ Freed(messages) \in Seq(MPIMessages)
         /\ Freed(messages) = <<>> => messages = <<>>
         /\ (\A i \in DOMAIN messages : ~messages[i].pending) => Freed(messages) = messages
<1>2. ASSUME NEW i \in DOMAIN messages
      PROVE  [messages[i] EXCEPT !.chunks = [c \in DOMAIN messages[i].chunks |-> 0]] \in MPIMessages
  <2>1. messages[i].chunks \in Seq(Nat) /\ messages[i] \in MPIMessages
    BY RecordFacts
  <2>2. [c \in DOMAIN messages[i].chunks |-> 0] \in Seq(Nat)
    BY <2>1
  <2> QED
    BY <2>1, <2>2 DEF MPIMessages
<1>3. /\ DOMAIN Freed(messages) = 1 .. Len(messages)
      /\ Len(messages) \in Nat
      /\ \A i \in 1 .. Len(messages) : Freed(messages)[i] \in MPIMessages
      /\ Freed(messages) = [i \in 1 .. Len(messages) |-> Freed(messages)[i]]
  BY <1>2 DEF Freed
<1>4. Freed(messages) \in Seq(MPIMessages)
  BY <1>3
<1>5. Freed(messages) = <<>> => messages = <<>>
  <2>1. Len(Freed(messages)) = Len(messages)
    BY <1>3
  <2>2. Freed(messages) = <<>> => Len(messages) = 0
    BY <2>1
  <2> QED
    BY <2>2
<1>6. (\A i \in DOMAIN messages : ~messages[i].pending) => Freed(messages) = messages
  BY DEF Freed
<1> QED
  BY <1>4, <1>5, <1>6

\* epochSetFirst keeps the type of a buffer and the length of its ackQueue.
LEMMA SetFirstFacts ==
  ASSUME NEW b \in SendBuffers, NEW testAndClear \in BOOLEAN, NEW complete \in BOOLEAN,
         NEW acks \in Nat
  PROVE  /\ SetFirst(b, testAndClear, complete, acks) \in SendBuffers
         /\ Len(SetFirst(b, testAndClear, complete, acks).ackQueue) = Len(b.ackQueue)
<1>2. /\ CopiedQueue(b, acks) \in Seq(BOOLEAN)
      /\ Len(CopiedQueue(b, acks)) = Len(b.ackQueue)
  <2>2. CopiedQueue(b, acks) = [i \in 1 .. Len(b.ackQueue) |-> b.ackQueue[i] /\ i <= acks]
    BY DEF CopiedQueue
  <2>3. CopiedQueue(b, acks) \in [1 .. Len(b.ackQueue) -> BOOLEAN]
    BY <2>2, Zenon
  <2> QED
    BY <2>3
<1>3. CASE ~testAndClear
  BY <1>3 DEF SetFirst, SendBuffers
<1>4. CASE testAndClear /\ b.mpireq /\ complete
  <2>1. SetFirst(b, testAndClear, complete, acks) =
          [SendBuffer EXCEPT !.ackQueue = CopiedQueue(b, acks)]
    BY <1>4 DEF SetFirst
  <2>2. SetFirst(b, testAndClear, complete, acks) =
          [charBuffer |-> <<>>, mpireq |-> FALSE, firstFlag |-> TRUE,
           ackQueue |-> CopiedQueue(b, acks)]
    BY <2>1 DEF SendBuffer
  <2> QED
    BY <1>2, <2>2 DEF SendBuffers
<1>5. CASE testAndClear /\ ~(b.mpireq /\ complete)
  <2>1. SetFirst(b, testAndClear, complete, acks) =
          [b EXCEPT !.firstFlag = TRUE, !.charBuffer = <<>>]
    BY <1>5 DEF SetFirst
  <2>2. SetFirst(b, testAndClear, complete, acks) =
          [charBuffer |-> <<>>, mpireq |-> b.mpireq, firstFlag |-> TRUE,
           ackQueue |-> b.ackQueue]
    BY <2>1 DEF SendBuffers
  <2> QED
    BY <2>2 DEF SendBuffers
<1> QED
  BY <1>3, <1>4, <1>5

-----------------------------------------------------------------------------
\* epochEnter changes neither the number of acknowledges that are expected nor
\* that of the messages under way.
LEMMA EpochEnterBasic ==
  ASSUME Basic, NEW s \in Senders, NEW keep \in KeepAlloc, EpochEnter(s, keep)
  PROVE  Basic'
<1>0. TypeOK /\ InEpoch /\ Probed /\ OneAbove
  BY DEF Basic
<1>1. \A r \in Receivers :
         LET b == SetFirst(sendMap[s][r], ~keep, Complete(s, r), acked[s][r]) IN
         b \in SendBuffers /\ Len(b.ackQueue) = Len(sendMap[s][r].ackQueue)
  <2> SUFFICES ASSUME NEW r \in Receivers
               PROVE  LET b == SetFirst(sendMap[s][r], ~keep, Complete(s, r), acked[s][r]) IN
                      b \in SendBuffers /\ Len(b.ackQueue) = Len(sendMap[s][r].ackQueue)
    OBVIOUS
  <2>1. sendMap[s][r] \in SendBuffers /\ acked[s][r] \in Nat
    BY <1>0, PairFacts
  <2>2. (~keep) \in BOOLEAN /\ Complete(s, r) \in BOOLEAN
    BY DEF Complete
  <2> QED
    BY <2>1, <2>2, SetFirstFacts, ZenonT(30)
<1>2. sendMap' = [sendMap EXCEPT ![s] = [r \in Receivers |->
        SetFirst(sendMap[s][r], ~keep, Complete(s, r), acked[s][r])]]
  BY DEF EpochEnter
<1>3. /\ sendMap' \in [Senders -> [Receivers -> SendBuffers]]
      /\ \A t \in Senders, r \in Receivers :
           Len(sendMap'[t][r].ackQueue) = Len(sendMap[t][r].ackQueue)
  BY <1>0, <1>1, <1>2 DEF TypeOK
<1>4. \A t \in Senders, r \in Receivers :
         /\ network[t][r] \in Seq(MPIMessages) /\ Freed(network[t][r]) \in Seq(MPIMessages)
         /\ Freed(network[t][r]) = <<>> => network[t][r] = <<>>
  BY <1>0, PairFacts, FreedFacts
<1>5. /\ network' \in [Senders -> [Receivers -> Seq(MPIMessages)]]
      /\ \A t \in Senders, r \in Receivers : network'[t][r] = <<>> => network[t][r] = <<>>
  <2>1. CASE keep
    BY <1>0, <2>1 DEF EpochEnter, TypeOK
  <2>2. CASE ~keep
    <3>1. network' = [network EXCEPT ![s] = [r \in Receivers |-> Freed(network[s][r])]]
      BY <2>2 DEF EpochEnter
    <3> QED
      BY <1>0, <1>4, <3>1 DEF TypeOK
  <2> QED
    BY <2>1, <2>2
<1>6. TypeOK'
  BY <1>0, <1>3, <1>5 DEF TypeOK, EpochEnter
<1>7. InEpoch'
  BY <1>0 DEF InEpoch, EpochEnter
<1>8. Probed'
  BY <1>0, <1>5 DEF Probed, EpochEnter
<1>9. OneAbove'
  BY <1>0, <1>3 DEF OneAbove, Outstanding, EpochEnter
<1> QED
  BY <1>6, <1>7, <1>8, <1>9 DEF Basic

\* What VMK::send does to the buffer.
LEMMA SendFacts ==
  ASSUME TypeOK, NEW s \in Senders, NEW r \in Receivers, Send(s, r)
  PROVE  LET b == sendMap[s][r] IN
         \E next \in SendBuffers :
           /\ sendMap' = [sendMap EXCEPT ![s][r] = next]
           /\ next.ackQueue = b.ackQueue /\ ~next.firstFlag
           /\ b.firstFlag => next.charBuffer = Append(<<>>, sent[s][r] + 1) /\ ~next.mpireq
           /\ ~b.firstFlag => /\ next.charBuffer = Append(b.charBuffer, sent[s][r] + 1)
                              /\ next.mpireq = b.mpireq
<1> DEFINE b == sendMap[s][r]
           cleared == [b EXCEPT !.firstFlag = FALSE, !.mpireq = FALSE, !.charBuffer = <<>>]
           base == IF b.firstFlag THEN cleared ELSE b
           next == [base EXCEPT !.charBuffer = Append(base.charBuffer, sent[s][r] + 1)]
<1>1. b \in SendBuffers /\ sent[s][r] + 1 \in Nat
  BY PairFacts
<1>2. /\ b.charBuffer \in Seq(Nat) /\ b.ackQueue \in Seq(BOOLEAN)
      /\ b.mpireq \in BOOLEAN /\ b.firstFlag \in BOOLEAN
  BY <1>1, RecordFacts
<1>3. cleared = [charBuffer |-> <<>>, mpireq |-> FALSE, firstFlag |-> FALSE,
                 ackQueue |-> b.ackQueue]
  BY <1>1, SendBufferUpdates
<1>4. /\ cleared \in SendBuffers /\ cleared.ackQueue = b.ackQueue
      /\ ~cleared.mpireq
      /\ cleared.charBuffer = <<>> /\ ~cleared.firstFlag
  <2> HIDE DEF cleared
  <2> QED
    BY <1>2, <1>3 DEF SendBuffers
<1>5. /\ base \in SendBuffers /\ base.ackQueue = b.ackQueue /\ ~base.firstFlag
      /\ b.firstFlag => base.charBuffer = <<>> /\ ~base.mpireq
      /\ ~b.firstFlag => base.charBuffer = b.charBuffer /\ base.mpireq = b.mpireq
  <2> HIDE DEF cleared
  <2>1. CASE b.firstFlag
    <3>1. base = cleared
      BY <2>1
    <3> HIDE DEF base
    <3> QED
      BY <1>4, <2>1, <3>1
  <2>2. CASE ~b.firstFlag
    <3>1. base = b
      BY <2>2
    <3> HIDE DEF base
    <3> QED
      BY <1>1, <2>2, <3>1
  <2> QED
    BY <2>1, <2>2
<1>6. sendMap' = [sendMap EXCEPT ![s][r] = next]
  BY DEF Send
<1> HIDE DEF b, base
<1>7. next = [charBuffer |-> Append(base.charBuffer, sent[s][r] + 1),
              mpireq |-> base.mpireq, firstFlag |-> base.firstFlag,
              ackQueue |-> base.ackQueue]
  BY <1>5, SendBufferUpdates
<1>8. Append(base.charBuffer, sent[s][r] + 1) \in Seq(Nat)
  BY <1>1, <1>5, RecordFacts
<1> HIDE DEF next
<1>9. /\ next \in SendBuffers
      /\ next.charBuffer = Append(base.charBuffer, sent[s][r] + 1)
      /\ next.mpireq = base.mpireq /\ next.firstFlag = base.firstFlag
      /\ next.ackQueue = base.ackQueue
  BY <1>5, <1>7, <1>8, RecordFacts
<1> QED
  BY <1>5, <1>6, <1>9 DEF b

\* A message is appended to the buffer.
LEMMA SendBasic ==
  ASSUME Basic, NEW s \in Senders, NEW r \in Receivers, Send(s, r)
  PROVE  Basic'
<1>0. TypeOK /\ InEpoch /\ Probed /\ OneAbove
  BY DEF Basic
<1>1. PICK b \in SendBuffers :
        /\ sendMap' = [sendMap EXCEPT ![s][r] = b]
        /\ b.ackQueue = sendMap[s][r].ackQueue
  BY <1>0, SendFacts
<1>2. /\ sendMap' \in [Senders -> [Receivers -> SendBuffers]]
      /\ \A t \in Senders, q \in Receivers :
           Len(sendMap'[t][q].ackQueue) = Len(sendMap[t][q].ackQueue)
  BY <1>0, <1>1 DEF TypeOK
<1>4. /\ network' \in [Senders -> [Receivers -> Seq(MPIMessages)]]
      /\ \A t \in Senders, q \in Receivers : network'[t][q] = <<>> => network[t][q] = <<>>
  <2>1. Freed(network[s][r]) \in Seq(MPIMessages)
        /\ (Freed(network[s][r]) = <<>> => network[s][r] = <<>>)
    BY <1>0, PairFacts, FreedFacts
  <2>2. network \in [Senders -> [Receivers -> Seq(MPIMessages)]]
    BY <1>0 DEF TypeOK
  <2>3. CASE network' = network
    BY <2>2, <2>3
  <2>4. CASE network' = [network EXCEPT ![s][r] = Freed(network[s][r])]
    BY <2>1, <2>2, <2>4
  <2> QED
    BY <2>3, <2>4 DEF Send
<1>5. TypeOK'
  BY <1>0, <1>2, <1>4 DEF TypeOK, Send
<1>6. InEpoch'
  BY <1>0 DEF InEpoch, Send
<1>7. Probed'
  BY <1>0, <1>4 DEF Probed, Send
<1>8. OneAbove'
  BY <1>0 DEF OneAbove, Outstanding, Send
<1> QED
  BY <1>5, <1>6, <1>7, <1>8 DEF Basic

\* The throttle waits for one acknowledge, which is no longer outstanding.
LEMMA ThrottleWaitBasic ==
  ASSUME Basic, NEW s \in Senders, NEW r \in Receivers, ThrottleWait(s, r)
  PROVE  Basic'
<1> DEFINE b == sendMap[s][r]
           rest == Tail(b.ackQueue)
           next == [b EXCEPT !.ackQueue = rest]
<1>0. TypeOK /\ InEpoch /\ Probed /\ OneAbove
  BY DEF Basic
<1>1. b \in SendBuffers /\ acked[s][r] \in Nat /\ acked[s][r] > 0
  BY <1>0, PairFacts DEF ThrottleWait, AckArrived
<1>2. /\ b.ackQueue \in Seq(BOOLEAN) /\ b.charBuffer \in Seq(Nat)
      /\ b.mpireq \in BOOLEAN /\ b.firstFlag \in BOOLEAN
  BY <1>1, RecordFacts
<1>3. Len(b.ackQueue) > Throttle /\ Throttle \in Nat
  BY ConstantsAssumption DEF ThrottleWait, Throttled
<1>4. b.ackQueue # <<>>
  BY <1>3
<1>5. rest \in Seq(BOOLEAN) /\ Len(rest) = Len(b.ackQueue) - 1
  BY <1>2, <1>4, HeadTailProperties
<1>6. next = [charBuffer |-> b.charBuffer, mpireq |-> b.mpireq, firstFlag |-> b.firstFlag,
              ackQueue |-> rest]
  BY <1>1, SendBufferUpdates
<1>7. sendMap' = [sendMap EXCEPT ![s][r] = next]
  BY DEF ThrottleWait
<1> HIDE DEF rest, next, b
<1>8. next \in SendBuffers /\ next.ackQueue = rest
  BY <1>2, <1>5, <1>6, RecordFacts
<1>9. acked' = [acked EXCEPT ![s][r] = acked[s][r] - 1] /\ acked[s][r] - 1 \in Nat
  BY <1>1 DEF ThrottleWait
<1>10. /\ sendMap' \in [Senders -> [Receivers -> SendBuffers]]
       /\ acked' \in [Senders -> [Receivers -> Nat]]
  BY <1>0, <1>7, <1>8, <1>9 DEF TypeOK
<1>11. TypeOK'
  BY <1>0, <1>10 DEF TypeOK, ThrottleWait
<1>12. InEpoch' /\ Probed'
  BY <1>0 DEF InEpoch, Probed, ThrottleWait
<1>13. OneAbove'
  <2> SUFFICES ASSUME NEW t \in Senders, NEW q \in Receivers
               PROVE  Len(sendMap'[t][q].ackQueue) - acked'[t][q] <= Throttle + 1
    BY DEF OneAbove, Outstanding
  <2>1. Len(sendMap[t][q].ackQueue) - acked[t][q] <= Throttle + 1
    BY <1>0 DEF OneAbove, Outstanding
  <2>2. CASE t = s /\ q = r
    <3>1. sendMap'[t][q].ackQueue = rest /\ acked'[t][q] = acked[s][r] - 1
      BY <1>0, <1>7, <1>8, <1>9, <2>2 DEF TypeOK
    <3> QED
      BY <1>1, <1>3, <1>5, <2>1, <2>2, <3>1 DEF b
  <2>3. CASE ~(t = s /\ q = r)
    <3>1. sendMap'[t][q] = sendMap[t][q] /\ acked'[t][q] = acked[t][q]
      BY <1>7, <1>9, <2>3
    <3> QED
      BY <2>1, <3>1
  <2> QED
    BY <2>2, <2>3
<1> QED
  BY <1>11, <1>12, <1>13 DEF Basic

\* epochExit goes to the next destination, or leaves.
LEMMA EpochExitBasic ==
  ASSUME Basic, NEW s \in Senders, EpochExit(s)
  PROVE  Basic'
<1>0. TypeOK /\ InEpoch /\ Probed /\ OneAbove
  BY DEF Basic
<1>1. S(s) \in PETs /\ pc[S(s)] = "in"
  BY PETFacts DEF EpochExit
<1>2. TypeOK'
  BY <1>0, <1>1 DEF TypeOK, EpochExit
<1>3. InEpoch'
  BY <1>0 DEF InEpoch, EpochExit
<1>4. Probed' /\ OneAbove'
  BY <1>0 DEF Probed, OneAbove, Outstanding, EpochExit
<1> QED
  BY <1>2, <1>3, <1>4 DEF Basic

\* What epochExit does to a buffer.
LEMMA PostFacts ==
  ASSUME TypeOK, NEW s \in Senders, NEW r \in Receivers, NEW padding \in Padding,
         Post(s, r, padding)
  PROVE  LET b == sendMap[s][r] IN
         /\ \E next \in SendBuffers :
              /\ sendMap' = [sendMap EXCEPT ![s][r] = next]
              /\ next.charBuffer = <<>> /\ next.firstFlag = b.firstFlag
              /\ b.charBuffer = <<>> => next.ackQueue = b.ackQueue /\ next.mpireq = b.mpireq
              /\ b.charBuffer # <<>> => next.ackQueue = Append(b.ackQueue, TRUE) /\ next.mpireq
         /\ b.charBuffer = <<>> => network' = network
         /\ b.charBuffer # <<>> => \E m \in MPIMessages :
              /\ network' = [network EXCEPT ![s][r] = Append(network[s][r], m)]
              /\ m.pending /\ (~padding => m.chunks = b.charBuffer)
<1> DEFINE b == sendMap[s][r]
           size == Len(b.charBuffer)
           req == b.mpireq \/ size > 0
           acks == IF NeedAck(b) THEN Append(b.ackQueue, TRUE) ELSE b.ackQueue
           next == [b EXCEPT !.charBuffer = <<>>, !.mpireq = req, !.ackQueue = acks]
           chars == IF padding THEN Padded(b.charBuffer) ELSE b.charBuffer
           m == [chunks |-> chars, pending |-> TRUE]
<1>1. b \in SendBuffers
  BY PairFacts
<1>2. /\ b.charBuffer \in Seq(Nat) /\ b.ackQueue \in Seq(BOOLEAN)
      /\ b.mpireq \in BOOLEAN /\ b.firstFlag \in BOOLEAN
  BY <1>1, RecordFacts
<1>3. sendMap' = [sendMap EXCEPT ![s][r] = next]
  BY DEF Post
<1>4. network' = IF size = 0 THEN network
                 ELSE [network EXCEPT ![s][r] = Append(network[s][r], m)]
  BY DEF Post, TypeOK
<1>5. (size = 0) <=> (b.charBuffer = <<>>)
  BY <1>2
<1> HIDE DEF b
<1>6. acks \in Seq(BOOLEAN)
  BY <1>2, AppendProperties
<1>7. req \in BOOLEAN
  OBVIOUS
<1>8. next = [charBuffer |-> <<>>, mpireq |-> req, firstFlag |-> b.firstFlag, ackQueue |-> acks]
  <2> HIDE DEF req, acks
  <2>1. next = [b EXCEPT !.charBuffer = <<>>, !.mpireq = req, !.ackQueue = acks]
    OBVIOUS
  <2> HIDE DEF next
  <2> QED
    BY <1>1, <2>1 DEF SendBuffers
<1>9. /\ next \in SendBuffers /\ next.charBuffer = <<>>
      /\ next.firstFlag = b.firstFlag
      /\ next.ackQueue = acks /\ next.mpireq = req
  <2> HIDE DEF req, acks, next
  <2> QED
    BY <1>2, <1>6, <1>7, <1>8 DEF SendBuffers
<1>10. chars \in Seq(Nat)
  <2>1. Padded(b.charBuffer) \in Seq(Nat)
    BY <1>2 DEF Padded
  <2> QED
    BY <1>2, <2>1
<1>11. m \in MPIMessages /\ m.pending /\ (~padding => m.chunks = b.charBuffer)
  BY <1>10, RecordFacts
<1> HIDE DEF next, m
<1>12. b.charBuffer = <<>> => next.ackQueue = b.ackQueue /\ next.mpireq = b.mpireq
  BY <1>2, <1>9 DEF NeedAck
<1>13. b.charBuffer # <<>> => next.ackQueue = Append(b.ackQueue, TRUE) /\ next.mpireq
  <2>1. b.charBuffer # <<>> => size > 0
    BY <1>2
  <2> QED
    BY <1>9, <2>1 DEF NeedAck
<1> QED
  BY <1>3, <1>4, <1>5, <1>9, <1>11, <1>12, <1>13 DEF b

\* What is posted is what the buffer held, but for the padding.
LEMMA PostSends ==
  ASSUME TypeOK, NEW s \in Senders, NEW r \in Receivers, NEW padding \in Padding,
         Post(s, r, padding), sendMap[s][r].charBuffer # <<>>
  PROVE  \E m \in MPIMessages :
           /\ network' = [network EXCEPT ![s][r] = Append(network[s][r], m)]
           /\ m.pending /\ (~padding => m.chunks = sendMap[s][r].charBuffer)
BY PostFacts, ZenonT(30)

\* A buffer is posted only as long as the throttle lets it: at most one message
\* more than epochThrottle becomes outstanding.
LEMMA PostBasic ==
  ASSUME Basic, NEW s \in Senders, NEW r \in Receivers, NEW padding \in Padding,
         Post(s, r, padding)
  PROVE  Basic'
<1>0. TypeOK /\ InEpoch /\ Probed /\ OneAbove
  BY DEF Basic
<1>1. PICK next \in SendBuffers :
        /\ sendMap' = [sendMap EXCEPT ![s][r] = next]
        /\ next.ackQueue \in {sendMap[s][r].ackQueue, Append(sendMap[s][r].ackQueue, TRUE)}
  BY <1>0, PostFacts
<1>2. network' = network \/ \E m \in MPIMessages :
        network' = [network EXCEPT ![s][r] = Append(network[s][r], m)]
  <2>1. CASE sendMap[s][r].charBuffer = <<>>
    BY <1>0, <2>1, PostFacts
  <2>2. CASE sendMap[s][r].charBuffer # <<>>
    <3>1. PICK m \in MPIMessages :
            /\ network' = [network EXCEPT ![s][r] = Append(network[s][r], m)]
            /\ m.pending /\ (~padding => m.chunks = sendMap[s][r].charBuffer)
      BY <1>0, <2>2, PostSends
    <3> QED
      BY <3>1
  <2> QED
    BY <2>1, <2>2
<1>3. /\ network[s][r] \in Seq(MPIMessages)
      /\ sendMap[s][r].ackQueue \in Seq(BOOLEAN)
      /\ acked[s][r] \in Nat /\ at[S(s)] \in Nat /\ r \in Nat /\ Throttle \in Nat
      /\ S(s) \in PETs
  BY <1>0, PairFacts, RecordFacts, ConstantsAssumption
<1>4. /\ network' \in [Senders -> [Receivers -> Seq(MPIMessages)]]
      /\ \A t \in Senders, q \in Receivers : network'[t][q] = <<>> => network[t][q] = <<>>
  <2>1. network \in [Senders -> [Receivers -> Seq(MPIMessages)]]
    BY <1>0 DEF TypeOK
  <2>2. CASE network' = network
    BY <2>1, <2>2
  <2>3. ASSUME NEW m \in MPIMessages,
               network' = [network EXCEPT ![s][r] = Append(network[s][r], m)]
        PROVE  /\ network' \in [Senders -> [Receivers -> Seq(MPIMessages)]]
               /\ \A t \in Senders, q \in Receivers :
                    network'[t][q] = <<>> => network[t][q] = <<>>
    <3>1. /\ Append(network[s][r], m) \in Seq(MPIMessages)
          /\ Append(network[s][r], m) # <<>>
      BY <1>3
    <3> QED
      BY <2>1, <2>3, <3>1
  <2> QED
    BY <1>2, <2>2, <2>3
<1>5. TypeOK'
  <2>1. sendMap' \in [Senders -> [Receivers -> SendBuffers]]
    BY <1>0, <1>1 DEF TypeOK
  <2>2. at' \in [PETs -> Nat]
    BY <1>0, <1>3 DEF TypeOK, Post
  <2> QED
    BY <1>0, <1>4, <2>1, <2>2 DEF TypeOK, Post
<1>6. InEpoch'
  BY <1>0, <1>3 DEF InEpoch, Post
<1>7. Probed'
  BY <1>0, <1>4 DEF Probed, Post
<1>8. OneAbove'
  <2> SUFFICES ASSUME NEW t \in Senders, NEW q \in Receivers
               PROVE  Len(sendMap'[t][q].ackQueue) - acked[t][q] <= Throttle + 1
    BY DEF OneAbove, Outstanding, Post
  <2>1. CASE t = s /\ q = r
    <3>1. sendMap'[t][q] = next
      BY <1>0, <1>1, <2>1 DEF TypeOK
    <3>2. /\ Len(sendMap[s][r].ackQueue) \in Nat
          /\ Len(Append(sendMap[s][r].ackQueue, TRUE)) = Len(sendMap[s][r].ackQueue) + 1
      BY AppendProperties
    <3>3. ~(Len(sendMap[s][r].ackQueue) > Throttle)
      BY DEF Post, Throttled
    <3>4. Len(next.ackQueue) \in
            {Len(sendMap[s][r].ackQueue), Len(sendMap[s][r].ackQueue) + 1}
      BY <1>1, <3>2
    <3>5. Len(next.ackQueue) <= Throttle + 1
      <4>1. Throttle \in Nat /\ Len(sendMap[s][r].ackQueue) \in Nat
        BY <1>3, <3>2
      <4>2. \A m, n \in Nat : ~(n > m) => n <= m + 1 /\ n + 1 <= m + 1
        OBVIOUS
      <4> QED
        BY <3>3, <3>4, <4>1, <4>2
    <3>6. Len(next.ackQueue) \in Nat
      BY <3>2, <3>4
    <3> QED
      BY <1>3, <2>1, <3>1, <3>5, <3>6
  <2>2. CASE ~(t = s /\ q = r)
    <3>1. sendMap'[t][q] = sendMap[t][q]
      BY <1>1, <2>2
    <3> QED
      BY <1>0, <3>1 DEF OneAbove, Outstanding
  <2> QED
    BY <2>1, <2>2
<1> QED
  BY <1>5, <1>6, <1>7, <1>8 DEF Basic

\* What is left when a PET leaves an epoch.
LEMMA LeaveFacts ==
  ASSUME TypeOK, InEpoch, NEW p \in PETs, NEW last \in {"final", "done"},
         pc[p] \in {"in", "exit"}, Leave(p, last)
  PROVE  /\ epoch' \in [PETs -> 1 .. NEpochs + 1] /\ at' \in [PETs -> Nat]
         /\ pc' \in [PETs -> {"out", "in", "exit", "final", "done"}]
         /\ InEpoch'
<1>1. /\ epoch \in [PETs -> 1 .. NEpochs + 1] /\ at \in [PETs -> Nat]
      /\ pc \in [PETs -> {"out", "in", "exit", "final", "done"}] /\ NEpochs \in Nat
  BY ConstantsAssumption DEF TypeOK
<1>2. epoch[p] <= NEpochs
  BY DEF InEpoch
<1>3. /\ epoch' = [epoch EXCEPT ![p] = epoch[p] + 1] /\ at' = [at EXCEPT ![p] = 1]
      /\ pc' = [pc EXCEPT ![p] = IF epoch[p] = NEpochs THEN last ELSE "out"]
  BY DEF Leave
<1>4. /\ epoch' \in [PETs -> 1 .. NEpochs + 1] /\ at' \in [PETs -> Nat]
      /\ pc' \in [PETs -> {"out", "in", "exit", "final", "done"}]
  BY <1>1, <1>2, <1>3
<1>5. InEpoch'
  BY <1>1, <1>3 DEF InEpoch
<1> QED
  BY <1>4, <1>5

\* A sender leaves an epoch.
LEMMA EpochExitedBasic ==
  ASSUME Basic, NEW s \in Senders, EpochExited(s)
  PROVE  Basic'
<1>0. TypeOK /\ InEpoch /\ Probed /\ OneAbove
  BY DEF Basic
<1>1. S(s) \in PETs
  BY PETFacts
<1>2. /\ epoch' \in [PETs -> 1 .. NEpochs + 1] /\ at' \in [PETs -> Nat]
      /\ pc' \in [PETs -> {"out", "in", "exit", "final", "done"}]
      /\ InEpoch'
  BY <1>0, <1>1, LeaveFacts DEF EpochExited
<1>3. TypeOK'
  BY <1>0, <1>2 DEF TypeOK, EpochExited
<1>4. Probed' /\ OneAbove'
  BY <1>0 DEF Probed, OneAbove, Outstanding, EpochExited
<1> QED
  BY <1>2, <1>3, <1>4 DEF Basic

\* epochFinal leaves no acknowledge outstanding.
LEMMA EpochFinalBasic ==
  ASSUME Basic, NEW s \in Senders, NEW r \in Receivers, EpochFinal(s, r)
  PROVE  Basic'
<1>0. TypeOK /\ InEpoch /\ Probed /\ OneAbove
  BY DEF Basic
<1>1. S(s) \in PETs /\ pc[S(s)] = "final" /\ at[S(s)] \in Nat /\ r \in Nat
  BY <1>0, PairFacts DEF EpochFinal
<1>2. /\ sendMap' \in [Senders -> [Receivers -> SendBuffers]]
      /\ acked' \in [Senders -> [Receivers -> Nat]] /\ at' \in [PETs -> Nat]
      /\ pc' \in [PETs -> {"out", "in", "exit", "final", "done"}]
  <2>1. sendMap' \in [Senders -> [Receivers -> SendBuffers]]
    BY <1>0, RecordFacts DEF TypeOK, EpochFinal
  <2>2. acked' \in [Senders -> [Receivers -> Nat]]
    BY <1>0 DEF TypeOK, EpochFinal
  <2>3. at' \in [PETs -> Nat]
    BY <1>0, <1>1 DEF TypeOK, EpochFinal
  <2>4. pc' \in [PETs -> {"out", "in", "exit", "final", "done"}]
    BY <1>0 DEF TypeOK, EpochFinal
  <2> QED
    BY <2>1, <2>2, <2>3, <2>4
<1>3. TypeOK'
  BY <1>0, <1>2 DEF TypeOK, EpochFinal
<1>4. InEpoch'
  BY <1>0, <1>1 DEF InEpoch, EpochFinal
<1>5. Probed'
  BY <1>0 DEF Probed, EpochFinal
<1>6. OneAbove'
  <2> SUFFICES ASSUME NEW t \in Senders, NEW q \in Receivers
               PROVE  Len(sendMap'[t][q].ackQueue) - acked'[t][q] <= Throttle + 1
    BY DEF OneAbove, Outstanding
  <2>1. CASE t = s /\ q = r
    <3>1. sendMap'[t][q] = SendBuffer /\ acked'[t][q] = 0
      BY <1>0, <2>1 DEF TypeOK, EpochFinal
    <3>2. Len(SendBuffer.ackQueue) = 0 /\ Throttle \in Nat
      BY ConstantsAssumption DEF SendBuffer
    <3> QED
      BY <3>1, <3>2
  <2>2. CASE ~(t = s /\ q = r)
    <3>1. sendMap'[t][q] = sendMap[t][q] /\ acked'[t][q] = acked[t][q]
      BY <2>2 DEF EpochFinal
    <3> QED
      BY <1>0, <3>1 DEF OneAbove, Outstanding
  <2> QED
    BY <2>1, <2>2
<1> QED
  BY <1>3, <1>4, <1>5, <1>6 DEF Basic

\* What epochEnter does to the recvBuffers.
LEMMA RecvEpochEnterFacts ==
  ASSUME TypeOK, NEW r \in Receivers, RecvEpochEnter(r)
  PROVE  \E next \in [Senders -> RecvBuffers] :
           /\ recvMap' = [recvMap EXCEPT ![r] = next]
           /\ \A s \in Senders : /\ next[s].firstFlag /\ next[s].probed = recvMap[r][s].probed
                                 /\ next[s].chunks = recvMap[r][s].chunks
<1> DEFINE next == [s \in Senders |-> [recvMap[r][s] EXCEPT !.firstFlag = TRUE]]
<1>1. recvMap' = [recvMap EXCEPT ![r] = next]
  BY DEF RecvEpochEnter
<1>2. ASSUME NEW s \in Senders, NEW d, d = [recvMap[r][s] EXCEPT !.firstFlag = TRUE]
      PROVE  /\ d \in RecvBuffers /\ d.firstFlag /\ d.probed = recvMap[r][s].probed
             /\ d.chunks = recvMap[r][s].chunks
  <2>1. recvMap[r][s] \in RecvBuffers
    BY PairFacts
  <2>2. d = [chunks |-> recvMap[r][s].chunks, firstFlag |-> TRUE,
             probed |-> recvMap[r][s].probed]
    BY <1>2, <2>1, RecvBufferUpdates
  <2> QED
    BY <2>1, <2>2 DEF RecvBuffers
<1>3. ASSUME NEW s \in Senders
      PROVE  /\ next[s] \in RecvBuffers
             /\ next[s].firstFlag /\ next[s].probed = recvMap[r][s].probed
             /\ next[s].chunks = recvMap[r][s].chunks
  <2>1. next[s] = [recvMap[r][s] EXCEPT !.firstFlag = TRUE]
    OBVIOUS
  <2> HIDE DEF next
  <2> QED
    BY <1>2, <2>1
<1>4. next = [s \in Senders |-> next[s]]
  OBVIOUS
<1> HIDE DEF next
<1>5. next \in [Senders -> RecvBuffers]
  BY <1>3, <1>4
<1> QED
  BY <1>1, <1>3, <1>5

\* The receiver starts an epoch.
LEMMA RecvEpochEnterBasic ==
  ASSUME Basic, NEW r \in Receivers, RecvEpochEnter(r)
  PROVE  Basic'
<1>0. TypeOK /\ InEpoch /\ Probed /\ OneAbove
  BY DEF Basic
<1>1. R(r) \in PETs /\ pc[R(r)] = "out" /\ epoch[R(r)] <= NEpochs
  BY PETFacts DEF RecvEpochEnter
<1>2. PICK next \in [Senders -> RecvBuffers] :
        /\ recvMap' = [recvMap EXCEPT ![r] = next]
        /\ \A s \in Senders : next[s].probed = recvMap[r][s].probed
  BY <1>0, RecvEpochEnterFacts
<1>3. /\ recvMap' \in [Receivers -> [Senders -> RecvBuffers]]
      /\ \A q \in Receivers, s \in Senders : recvMap'[q][s].probed => recvMap[q][s].probed
  BY <1>0, <1>2 DEF TypeOK
<1>4. TypeOK'
  BY <1>0, <1>1, <1>3 DEF TypeOK, RecvEpochEnter
<1>5. InEpoch'
  BY <1>0 DEF InEpoch, RecvEpochEnter
<1>6. Probed'
  BY <1>0 DEF Probed, RecvEpochEnter
<1>7. OneAbove'
  BY <1>0 DEF OneAbove, Outstanding, RecvEpochEnter
<1> QED
  BY <1>4, <1>5, <1>6, <1>7 DEF Basic

\* An action gives the recvBuffer of receiver r for sender s a new value.
RecvMapSet(r, s, next) == recvMap' = [recvMap EXCEPT ![r][s] = next]

\* The assignment of a receive to its buffer.
LEMMA RecvMapFacts ==
  ASSUME TypeOK, NEW r \in Receivers, NEW s \in Senders, NEW next \in RecvBuffers,
         RecvMapSet(r, s, next)
  PROVE  /\ recvMap' \in [Receivers -> [Senders -> RecvBuffers]]
         /\ recvMap'[r][s] = next
         /\ \A q \in Receivers, t \in Senders :
              ~(q = r /\ t = s) => recvMap'[q][t] = recvMap[q][t]
BY PairUpdate DEF TypeOK, RecvMapSet

\* What the probe does to the recvBuffer.
LEMMA ProbeFacts ==
  ASSUME TypeOK, NEW r \in Receivers, NEW s \in Senders, Probe(r, s)
  PROVE  \E next \in RecvBuffers :
           /\ RecvMapSet(r, s, next)
           /\ next.chunks = recvMap[r][s].chunks /\ ~next.firstFlag /\ next.probed
<1> DEFINE next == [recvMap[r][s] EXCEPT !.firstFlag = FALSE, !.probed = TRUE]
<1>1. recvMap[r][s] \in RecvBuffers /\ recvMap[r][s].chunks \in Seq(Nat)
  BY PairFacts, RecordFacts
<1>2. RecvMapSet(r, s, next)
  BY DEF RecvMapSet, Probe, TypeOK
<1>3. next = [recvMap[r][s] EXCEPT !.firstFlag = FALSE, !.probed = TRUE]
  OBVIOUS
<1> HIDE DEF next
<1>4. next = [chunks |-> recvMap[r][s].chunks, firstFlag |-> FALSE, probed |-> TRUE]
  BY <1>1, <1>3, RecvBufferUpdates
<1>5. /\ next \in RecvBuffers /\ next.chunks = recvMap[r][s].chunks
      /\ ~next.firstFlag /\ next.probed
  BY <1>1, <1>4 DEF RecvBuffers
<1> QED
  BY <1>2, <1>5

\* The probe acknowledges a message that has not been received.
LEMMA ProbeBasic ==
  ASSUME Basic, NEW r \in Receivers, NEW s \in Senders, Probe(r, s)
  PROVE  Basic'
<1>0. TypeOK /\ InEpoch /\ Probed /\ OneAbove
  BY DEF Basic
<1>1. PICK next \in RecvBuffers : RecvMapSet(r, s, next)
  BY <1>0, ProbeFacts
<1>2. /\ recvMap' \in [Receivers -> [Senders -> RecvBuffers]]
      /\ \A q \in Receivers, t \in Senders :
           ~(q = r /\ t = s) => recvMap'[q][t] = recvMap[q][t]
  BY <1>0, <1>1, RecvMapFacts
<1>3. acked' = [acked EXCEPT ![s][r] = acked[s][r] + 1] /\ acked[s][r] \in Nat
  BY <1>0, PairFacts DEF Probe, Acknowledge
<1>4. TypeOK'
  <2>1. acked' \in [Senders -> [Receivers -> Nat]]
    BY <1>0, <1>3 DEF TypeOK
  <2> QED
    BY <1>0, <1>2, <2>1 DEF TypeOK, Probe
<1>5. InEpoch'
  BY <1>0 DEF InEpoch, Probe
<1>6. Probed'
  BY <1>0 DEF Probed, Probe
<1>7. OneAbove'
  <2> SUFFICES ASSUME NEW t \in Senders, NEW q \in Receivers
               PROVE  Len(sendMap[t][q].ackQueue) - acked'[t][q] <= Throttle + 1
    BY DEF OneAbove, Outstanding, Probe
  <2>1. /\ Len(sendMap[t][q].ackQueue) - acked[t][q] <= Throttle + 1
        /\ sendMap[t][q].ackQueue \in Seq(BOOLEAN) /\ acked[t][q] \in Nat
        /\ Throttle \in Nat
    BY <1>0, PairFacts, RecordFacts, ConstantsAssumption
       DEF OneAbove, Outstanding
  <2>2. acked'[t][q] \in {acked[t][q], acked[t][q] + 1}
    BY <1>3
  <2>3. Len(sendMap[t][q].ackQueue) \in Nat
    BY <2>1
  <2> QED
    BY <2>1, <2>2, <2>3
<1> QED
  BY <1>4, <1>5, <1>6, <1>7 DEF Basic

\* What the receive of a posted buffer does: it is there, for it was probed.
LEMMA RecvBufferedFacts ==
  ASSUME TypeOK, Probed, NEW r \in Receivers, NEW s \in Senders, RecvBuffered(r, s)
  PROVE  /\ network[s][r] \in Seq(MPIMessages) /\ network[s][r] # <<>>
         /\ network[s][r][1] \in MPIMessages
         /\ network' = [network EXCEPT ![s][r] = Tail(network[s][r])]
         /\ \E next \in RecvBuffers :
              /\ RecvMapSet(r, s, next)
              /\ next.chunks = network[s][r][1].chunks /\ ~next.probed
              /\ next.firstFlag = recvMap[r][s].firstFlag
<1> DEFINE m == Head(network[s][r])
           next == [recvMap[r][s] EXCEPT !.probed = FALSE, !.chunks = m.chunks]
<1>1. /\ network[s][r] \in Seq(MPIMessages) /\ network[s][r] # <<>>
      /\ recvMap[r][s] \in RecvBuffers
  BY PairFacts DEF RecvBuffered, Probed
<1>2. m = network[s][r][1] /\ m \in MPIMessages
  BY <1>1
<1>3. RecvMapSet(r, s, next)
  BY DEF RecvMapSet, RecvBuffered, TypeOK
<1>4. network' = [network EXCEPT ![s][r] = Tail(network[s][r])]
  BY DEF RecvBuffered
<1>5. next = [recvMap[r][s] EXCEPT !.probed = FALSE, !.chunks = m.chunks]
  OBVIOUS
<1> HIDE DEF next, m
<1>6. next = [chunks |-> m.chunks, firstFlag |-> recvMap[r][s].firstFlag, probed |-> FALSE]
  BY <1>1, <1>5, RecvBufferUpdates
<1>7. m.chunks \in Seq(Nat) /\ recvMap[r][s].firstFlag \in BOOLEAN
  BY <1>1, <1>2, RecordFacts
<1>8. /\ next \in RecvBuffers /\ next.chunks = m.chunks /\ ~next.probed
      /\ next.firstFlag = recvMap[r][s].firstFlag
  BY <1>6, <1>7 DEF RecvBuffers
<1> QED
  BY <1>1, <1>2, <1>3, <1>4, <1>8

\* The posted buffer is moved to the recvBuffer.
LEMMA RecvBufferedBasic ==
  ASSUME Basic, NEW r \in Receivers, NEW s \in Senders, RecvBuffered(r, s)
  PROVE  Basic'
<1>0. TypeOK /\ InEpoch /\ Probed /\ OneAbove
  BY DEF Basic
<1>1. PICK next \in RecvBuffers :
        RecvMapSet(r, s, next) /\ ~next.probed
  BY <1>0, RecvBufferedFacts
<1>2. /\ recvMap' \in [Receivers -> [Senders -> RecvBuffers]]
      /\ ~recvMap'[r][s].probed
      /\ \A q \in Receivers, t \in Senders :
           ~(q = r /\ t = s) => recvMap'[q][t] = recvMap[q][t]
  BY <1>0, <1>1, RecvMapFacts
<1>3. /\ network' = [network EXCEPT ![s][r] = Tail(network[s][r])]
      /\ Tail(network[s][r]) \in Seq(MPIMessages)
  BY <1>0, RecvBufferedFacts
<1>4. /\ network' \in [Senders -> [Receivers -> Seq(MPIMessages)]]
      /\ \A q \in Receivers, t \in Senders :
           ~(q = r /\ t = s) => network'[t][q] = network[t][q]
  BY <1>0, <1>3 DEF TypeOK
<1>5. TypeOK'
  BY <1>0, <1>2, <1>4 DEF TypeOK, RecvBuffered
<1>6. InEpoch'
  BY <1>0 DEF InEpoch, RecvBuffered
<1>7. Probed'
  BY <1>0, <1>2, <1>4 DEF Probed
<1>8. OneAbove'
  BY <1>0 DEF OneAbove, Outstanding, RecvBuffered
<1> QED
  BY <1>5, <1>6, <1>7, <1>8 DEF Basic

\* What serving a receive does to the recvBuffer.
LEMMA RecvChunkFacts ==
  ASSUME TypeOK, NEW r \in Receivers, NEW s \in Senders, RecvChunk(r, s)
  PROVE  LET rm == recvMap[r][s] IN
         \E next \in RecvBuffers :
           /\ RecvMapSet(r, s, next)
           /\ next.firstFlag = rm.firstFlag /\ next.probed = rm.probed
           /\ rm.chunks = <<>> => next.chunks = rm.chunks
           /\ rm.chunks # <<>> => next.chunks = Tail(rm.chunks)
<1> DEFINE rm == recvMap[r][s]
           next == [rm EXCEPT !.chunks = Tail(rm.chunks)]
<1>1. /\ rm \in RecvBuffers /\ rm.chunks \in Seq(Nat)
      /\ rm.firstFlag \in BOOLEAN /\ rm.probed \in BOOLEAN
  BY PairFacts, RecordFacts
<1>2. CASE rm.chunks = <<>>
  <2>1. RecvMapSet(r, s, rm)
    BY <1>2 DEF RecvMapSet, RecvChunk, TypeOK
  <2> HIDE DEF rm
  <2> QED
    BY <1>1, <1>2, <2>1 DEF rm
<1>3. CASE rm.chunks # <<>>
  <2>1. RecvMapSet(r, s, next)
    BY <1>3 DEF RecvMapSet, RecvChunk
  <2>2. next = [rm EXCEPT !.chunks = Tail(rm.chunks)]
    OBVIOUS
  <2> HIDE DEF rm, next
  <2>3. Tail(rm.chunks) \in Seq(Nat)
    BY <1>1, <1>3
  <2>4. next = [chunks |-> Tail(rm.chunks), firstFlag |-> rm.firstFlag, probed |-> rm.probed]
    BY <1>1, <2>2, RecvBufferUpdates
  <2>5. /\ next \in RecvBuffers /\ next.chunks = Tail(rm.chunks)
        /\ next.firstFlag = rm.firstFlag /\ next.probed = rm.probed
    BY <1>1, <2>3, <2>4 DEF RecvBuffers
  <2> QED
    BY <1>3, <2>1, <2>5 DEF rm
<1> QED
  BY <1>2, <1>3

\* A receive is served from the recvBuffer.
LEMMA RecvChunkBasic ==
  ASSUME Basic, NEW r \in Receivers, NEW s \in Senders, RecvChunk(r, s)
  PROVE  Basic'
<1>0. TypeOK /\ InEpoch /\ Probed /\ OneAbove
  BY DEF Basic
<1>1. PICK next \in RecvBuffers :
        RecvMapSet(r, s, next) /\ next.probed = recvMap[r][s].probed
  BY <1>0, RecvChunkFacts
<1>2. /\ recvMap' \in [Receivers -> [Senders -> RecvBuffers]]
      /\ recvMap'[r][s].probed = recvMap[r][s].probed
      /\ \A q \in Receivers, t \in Senders :
           ~(q = r /\ t = s) => recvMap'[q][t] = recvMap[q][t]
  BY <1>0, <1>1, RecvMapFacts
<1>3. delivered' \in [Receivers -> [Senders -> Seq(Nat)]]
  <2> DEFINE rm == recvMap[r][s]
             x == IF rm.chunks = <<>> THEN 0 ELSE Head(rm.chunks)
  <2>1. rm.chunks \in Seq(Nat) /\ delivered[r][s] \in Seq(Nat)
    BY <1>0, PairFacts, RecordFacts
  <2>2. delivered' = [delivered EXCEPT ![r][s] = Append(delivered[r][s], x)]
    BY DEF RecvChunk
  <2> HIDE DEF rm
  <2>3. x \in Nat
    BY <2>1
  <2> HIDE DEF x
  <2>4. Append(delivered[r][s], x) \in Seq(Nat)
    BY <2>1, <2>3
  <2> QED
    BY <1>0, <2>2, <2>4 DEF TypeOK
<1>4. TypeOK'
  BY <1>0, <1>2, <1>3 DEF TypeOK, RecvChunk
<1>5. InEpoch'
  BY <1>0 DEF InEpoch, RecvChunk
<1>6. Probed'
  BY <1>0 DEF Probed, RecvChunk
<1>7. OneAbove'
  BY <1>0 DEF OneAbove, Outstanding, RecvChunk
<1> QED
  BY <1>4, <1>5, <1>6, <1>7 DEF Basic

\* The receiver goes on to the next source.
LEMMA RecvNextSourceBasic ==
  ASSUME Basic, NEW r \in Receivers, NEW s \in Senders, RecvNextSource(r, s)
  PROVE  Basic'
<1>0. TypeOK /\ InEpoch /\ Probed /\ OneAbove
  BY DEF Basic
<1>1. R(r) \in PETs /\ pc[R(r)] = "in" /\ s \in Nat
  BY <1>0, PairFacts DEF RecvNextSource
<1>2. TypeOK'
  BY <1>0, <1>1 DEF TypeOK, RecvNextSource
<1>3. InEpoch'
  BY <1>0, <1>1 DEF InEpoch, RecvNextSource
<1>4. Probed' /\ OneAbove'
  BY <1>0 DEF Probed, OneAbove, Outstanding, RecvNextSource
<1> QED
  BY <1>2, <1>3, <1>4 DEF Basic

\* The receiver leaves the epoch and may forget its buffers.
LEMMA RecvEpochExitBasic ==
  ASSUME Basic, NEW r \in Receivers, NEW keep \in ExitKeepAlloc, RecvEpochExit(r, keep)
  PROVE  Basic'
<1>0. TypeOK /\ InEpoch /\ Probed /\ OneAbove
  BY DEF Basic
<1>1. R(r) \in PETs /\ pc[R(r)] = "in"
  BY PETFacts DEF RecvEpochExit
<1>2. /\ epoch' \in [PETs -> 1 .. NEpochs + 1] /\ at' \in [PETs -> Nat]
      /\ pc' \in [PETs -> {"out", "in", "exit", "final", "done"}]
      /\ InEpoch'
  BY <1>0, <1>1, LeaveFacts DEF RecvEpochExit
<1>3. /\ recvMap' \in [Receivers -> [Senders -> RecvBuffers]]
      /\ \A q \in Receivers, s \in Senders : recvMap'[q][s].probed => recvMap[q][s].probed
  <2>1. recvMap \in [Receivers -> [Senders -> RecvBuffers]]
    BY <1>0 DEF TypeOK
  <2>2. CASE keep
    BY <2>1, <2>2 DEF RecvEpochExit
  <2>3. CASE ~keep
    <3>1. recvMap' = [recvMap EXCEPT ![r] = [s \in Senders |-> RecvBuffer]]
      BY <2>3 DEF RecvEpochExit
    <3>2. RecvBuffer \in RecvBuffers /\ ~RecvBuffer.probed
      BY RecordFacts DEF RecvBuffer
    <3> QED
      BY <2>1, <3>1, <3>2
  <2> QED
    BY <2>2, <2>3
<1>4. TypeOK'
  BY <1>0, <1>2, <1>3 DEF TypeOK, RecvEpochExit
<1>5. Probed'
  BY <1>0, <1>3 DEF Probed, RecvEpochExit
<1>6. OneAbove'
  BY <1>0 DEF OneAbove, Outstanding, RecvEpochExit
<1> QED
  BY <1>2, <1>4, <1>5, <1>6 DEF Basic

\* The messages once MPI has read their buffers.
Completed(messages) == [i \in DOMAIN messages |-> [messages[i] EXCEPT !.pending = FALSE]]

\* MPI is done with the buffers, and nothing else about the messages changes.
LEMMA CompletedFacts ==
  ASSUME NEW messages \in Seq(MPIMessages)
  PROVE  /\ Completed(messages) \in Seq(MPIMessages)
         /\ DOMAIN Completed(messages) = DOMAIN messages
         /\ Completed(messages) = <<>> => messages = <<>>
         /\ \A i \in DOMAIN messages : /\ ~Completed(messages)[i].pending
                                       /\ Completed(messages)[i].chunks = messages[i].chunks
<1>1. ASSUME NEW i \in DOMAIN messages, NEW m, m = [messages[i] EXCEPT !.pending = FALSE]
      PROVE  m \in MPIMessages /\ ~m.pending /\ m.chunks = messages[i].chunks
  <2>1. messages[i] \in MPIMessages
    OBVIOUS
  <2>2. m = [chunks |-> messages[i].chunks, pending |-> FALSE]
    BY <1>1, <2>1 DEF MPIMessages
  <2> QED
    BY <2>1, <2>2 DEF MPIMessages
<1>2. /\ DOMAIN Completed(messages) = 1 .. Len(messages)
      /\ Len(messages) \in Nat
      /\ \A i \in 1 .. Len(messages) : /\ Completed(messages)[i] \in MPIMessages
                                       /\ ~Completed(messages)[i].pending
                                       /\ Completed(messages)[i].chunks = messages[i].chunks
      /\ Completed(messages) = [i \in 1 .. Len(messages) |-> Completed(messages)[i]]
  BY <1>1 DEF Completed
<1> QED
  BY <1>2

\* MPI reads the posted buffers.
LEMMA IsendCompletesBasic ==
  ASSUME Basic, NEW s \in Senders, NEW r \in Receivers, IsendCompletes(s, r)
  PROVE  Basic'
<1>0. TypeOK /\ InEpoch /\ Probed /\ OneAbove
  BY DEF Basic
<1>1. network' = [network EXCEPT ![s][r] = Completed(network[s][r])]
  BY DEF IsendCompletes, Completed
<1>2. /\ Completed(network[s][r]) \in Seq(MPIMessages)
      /\ Completed(network[s][r]) = <<>> => network[s][r] = <<>>
  BY <1>0, PairFacts, CompletedFacts
<1>3. /\ network' \in [Senders -> [Receivers -> Seq(MPIMessages)]]
      /\ \A t \in Senders, q \in Receivers : network'[t][q] = <<>> => network[t][q] = <<>>
  BY <1>0, <1>1, <1>2 DEF TypeOK
<1>4. TypeOK'
  BY <1>0, <1>3 DEF TypeOK, IsendCompletes
<1>5. InEpoch'
  BY <1>0 DEF InEpoch, IsendCompletes
<1>6. Probed'
  BY <1>0, <1>3 DEF Probed, IsendCompletes
<1>7. OneAbove'
  BY <1>0 DEF OneAbove, Outstanding, IsendCompletes
<1> QED
  BY <1>4, <1>5, <1>6, <1>7 DEF Basic

\* It holds before the first epoch.
LEMMA InitBasic == Init => Basic
<1> SUFFICES ASSUME Init
             PROVE  Basic
  OBVIOUS
<1>1. Throttle \in Nat /\ NEpochs \in Nat
  BY ConstantsAssumption
<1>2. TypeOK
  <2>1. epoch \in [PETs -> 1 .. NEpochs + 1]
    BY <1>1 DEF Init
  <2> QED
    BY <2>1, RecordFacts DEF Init, TypeOK
<1>3. InEpoch
  BY DEF Init, InEpoch
<1>4. Probed
  BY DEF Init, Probed, RecvBuffer
<1>5. OneAbove
  BY <1>1 DEF Init, OneAbove, Outstanding, SendBuffer
<1> QED
  BY <1>2, <1>3, <1>4, <1>5 DEF Basic

\* No step breaks it.
LEMMA NextBasic == Basic /\ [Next]_vars => Basic'
<1> SUFFICES ASSUME Basic, [Next]_vars
             PROVE  Basic'
  OBVIOUS
<1>1. CASE UNCHANGED vars
  BY <1>1 DEF vars, Basic, TypeOK, InEpoch, Probed, OneAbove, Outstanding
<1>2. ASSUME NEW s \in Senders, SenderNext(s)
      PROVE  Basic'
  BY <1>2, EpochEnterBasic, EpochExitBasic, EpochExitedBasic, SendBasic,
     ThrottleWaitBasic, EpochFinalBasic, PostBasic
     DEF SenderNext
<1>3. ASSUME NEW r \in Receivers, ReceiverNext(r)
      PROVE  Basic'
  BY <1>3, RecvEpochEnterBasic, RecvEpochExitBasic, ProbeBasic, RecvBufferedBasic,
     RecvChunkBasic, RecvNextSourceBasic
     DEF ReceiverNext
<1>4. ASSUME NEW s \in Senders, NEW r \in Receivers, IsendCompletes(s, r)
      PROVE  Basic'
  BY <1>4, IsendCompletesBasic
<1> QED
  BY <1>1, <1>2, <1>3, <1>4 DEF Next, Finished

\* What holds of every step whatever is freed, kept or padded.
THEOREM BasicInvariance == Spec => []Basic
BY InitBasic, NextBasic, PTL DEF Spec

\* Every variable always holds a value the code could give it.
THEOREM TypeCorrect == Spec => []TypeOK
<1>1. Basic => TypeOK
  BY DEF Basic
<1> QED
  BY <1>1, BasicInvariance, PTL

\* The throttle loop of epochExit lets at most one message more be outstanding for
\* a destination than the documentation of epochThrottle says, whatever is freed,
\* kept or padded.
THEOREM ThrottleBounds ==
  Spec => []OneAbove
<1>1. Basic => OneAbove
  BY DEF Basic
<1> QED
  BY <1>1, BasicInvariance, PTL

-----------------------------------------------------------------------------
\* The programs grow from one epoch to the next.
LEMMA QuotaFacts ==
  ASSUME TypeOK, NEW s \in Senders, NEW r \in Receivers
  PROVE  /\ \A e \in 0 .. NEpochs : Quota(e, s, r) \in Nat
         /\ \A d, e \in 0 .. NEpochs : d <= e => Quota(d, s, r) <= Quota(e, s, r)
         /\ Quota(0, s, r) = 0
<1>1. program \in Programs
  BY DEF TypeOK
<1>2. /\ program \in [0 .. NEpochs -> [Senders -> [Receivers -> Nat]]]
      /\ program[0][s][r] = 0
      /\ \A d, e \in 0 .. NEpochs : d <= e => program[d][s][r] <= program[e][s][r]
  BY <1>1, ProgramsAssumption
<1> QED
  BY <1>2 DEF Quota

\* The lengths of the buffers of one pair, and what was posted and fetched.
LEMMA LengthFacts ==
  ASSUME TypeOK, NEW s \in Senders, NEW r \in Receivers
  PROVE  /\ sendMap[s][r].charBuffer \in Seq(Nat) /\ recvMap[r][s].chunks \in Seq(Nat)
         /\ Len(sendMap[s][r].charBuffer) \in Nat /\ Len(recvMap[r][s].chunks) \in Nat
         /\ Len(delivered[r][s]) \in Nat /\ Len(network[s][r]) \in Nat
         /\ DOMAIN network[s][r] = 1 .. Len(network[s][r])
         /\ Posted(s, r) \in Int /\ Fetched(s, r) \in Nat
         /\ \A i \in DOMAIN network[s][r] : /\ network[s][r][i] \in MPIMessages
                                            /\ network[s][r][i].chunks \in Seq(Nat)
<1>1. /\ sent[s][r] \in Nat /\ sendMap[s][r] \in SendBuffers
      /\ recvMap[r][s] \in RecvBuffers
      /\ network[s][r] \in Seq(MPIMessages) /\ delivered[r][s] \in Seq(Nat)
  BY PairFacts
<1>2. sendMap[s][r].charBuffer \in Seq(Nat) /\ recvMap[r][s].chunks \in Seq(Nat)
  BY <1>1, RecordFacts
<1>3. /\ Len(sendMap[s][r].charBuffer) \in Nat
      /\ Len(recvMap[r][s].chunks) \in Nat
      /\ Len(delivered[r][s]) \in Nat /\ Len(network[s][r]) \in Nat
      /\ DOMAIN network[s][r] = 1 .. Len(network[s][r])
  <2>1. \A A : \A q \in Seq(A) : Len(q) \in Nat /\ DOMAIN q = 1 .. Len(q)
    OBVIOUS
  <2> QED
    BY <1>1, <1>2, <2>1, Zenon
<1>4. Posted(s, r) \in Int /\ Fetched(s, r) \in Nat
  <2>1. \A i, j \in Nat : i - j \in Int /\ i + j \in Nat
    OBVIOUS
  <2> QED
    BY <1>1, <1>3, <2>1 DEF Posted, Fetched
<1>5. \A i \in DOMAIN network[s][r] : network[s][r][i] \in MPIMessages
  BY <1>1
<1> QED
  BY <1>2, <1>3, <1>4, <1>5, RecordFacts

\* A step that changes nothing about a part of the stream keeps what holds of it.
LEMMA ChainedKept ==
  ASSUME NEW s \in Senders, NEW r \in Receivers, Chained(s, r), program' = program,
         network'[s][r] = network[s][r], Posted(s, r)' = Posted(s, r),
         Fetched(s, r)' = Fetched(s, r)
  PROVE  Chained(s, r)'
<1>1. \A i : Start(s, r, i)' = Start(s, r, i)
  BY DEF Start
<1>2. \A e : Quota(e, s, r)' = Quota(e, s, r)
  BY DEF Quota
<1>3. ASSUME NEW i \in DOMAIN network[s][r]
      PROVE  LET chunks == network[s][r][i].chunks IN
             /\ chunks # <<>>
             /\ Start(s, r, i + 1)' = chunks[1] + Len(chunks)
             /\ \E e \in 1 .. NEpochs :
                  /\ Len(chunks) = Quota(e, s, r)' - Quota(e - 1, s, r)'
                  /\ \A c \in DOMAIN chunks : chunks[c] = Quota(e - 1, s, r)' + c
  BY <1>1, <1>2 DEF Chained
<1>4. Start(s, r, 1)' = Fetched(s, r)' + 1
  BY <1>1 DEF Chained
<1> QED
  BY <1>3, <1>4 DEF Chained

\* What the sender has sent and posted does not change with what it does not depend on.
LEMMA SendingKept ==
  ASSUME NEW s \in Senders, NEW r \in Receivers, Sending(s, r), program' = program,
         sent'[s][r] = sent[s][r], Complete(s, r) => Complete(s, r)',
         sendMap'[s][r].charBuffer = sendMap[s][r].charBuffer,
         sendMap'[s][r].firstFlag = sendMap[s][r].firstFlag,
         sendMap'[s][r].mpireq = sendMap[s][r].mpireq,
         epoch'[S(s)] = epoch[S(s)], pc'[S(s)] = pc[S(s)], at'[S(s)] = at[S(s)]
  PROVE  Sending(s, r)'
BY DEF Sending, Posted, Quota

\* What the receiver has delivered does not change with what it does not depend on.
LEMMA ReceivingKept ==
  ASSUME NEW s \in Senders, NEW r \in Receivers, Receiving(s, r), program' = program,
         delivered'[r][s] = delivered[r][s], recvMap'[r][s] = recvMap[r][s],
         epoch'[R(r)] = epoch[R(r)], pc'[R(r)] = pc[R(r)], at'[R(r)] = at[R(r)]
  PROVE  Receiving(s, r)'
BY DEF Receiving, Fetched, Quota

\* All of it for a pair that a step does not concern.
LEMMA PairKept ==
  ASSUME NEW s \in Senders, NEW r \in Receivers,
         Chained(s, r), Sending(s, r), Receiving(s, r), program' = program,
         sent'[s][r] = sent[s][r], network'[s][r] = network[s][r],
         sendMap'[s][r].charBuffer = sendMap[s][r].charBuffer,
         sendMap'[s][r].firstFlag = sendMap[s][r].firstFlag,
         sendMap'[s][r].mpireq = sendMap[s][r].mpireq,
         delivered'[r][s] = delivered[r][s], recvMap'[r][s] = recvMap[r][s],
         epoch'[S(s)] = epoch[S(s)], pc'[S(s)] = pc[S(s)], at'[S(s)] = at[S(s)],
         epoch'[R(r)] = epoch[R(r)], pc'[R(r)] = pc[R(r)], at'[R(r)] = at[R(r)]
  PROVE  Chained(s, r)' /\ Sending(s, r)' /\ Receiving(s, r)'
<1>1. Posted(s, r)' = Posted(s, r) /\ Fetched(s, r)' = Fetched(s, r)
  BY DEF Posted, Fetched
<1>2. Complete(s, r) => Complete(s, r)'
  BY DEF Complete
<1> QED
  BY <1>1, <1>2, ChainedKept, SendingKept, ReceivingKept

\* What is left of a sequence, and what a sequence gets.
LEMMA TailFacts ==
  ASSUME NEW A, NEW q \in Seq(A), q # <<>>
  PROVE  /\ DOMAIN q = 1 .. Len(q) /\ Len(q) \in Nat /\ Len(q) > 0 /\ Head(q) = q[1]
         /\ Tail(q) \in Seq(A) /\ Len(Tail(q)) = Len(q) - 1
         /\ DOMAIN Tail(q) = 1 .. Len(q) - 1
         /\ \A i \in DOMAIN Tail(q) : i + 1 \in DOMAIN q /\ Tail(q)[i] = q[i + 1]
<1>2. /\ Tail(q) \in Seq(A) /\ Len(Tail(q)) = Len(q) - 1
      /\ \A i \in 1 .. Len(Tail(q)) : Tail(q)[i] = q[i + 1]
  BY HeadTailProperties
<1>3. DOMAIN Tail(q) = 1 .. Len(Tail(q))
  BY <1>2
<1> QED
  BY <1>3

-----------------------------------------------------------------------------
\* With keepAlloc, epochEnter only marks the buffers, which are empty.
LEMMA EpochEnterStreams ==
  ASSUME Basic, Streams, KeepAlloc \subseteq {TRUE}, NEW s \in Senders, NEW keep \in KeepAlloc,
         EpochEnter(s, keep)
  PROVE  Streams'
<1> SUFFICES ASSUME NEW t \in Senders, NEW r \in Receivers
             PROVE  Chained(t, r)' /\ Sending(t, r)' /\ Receiving(t, r)'
  BY DEF Streams
<1>1. TypeOK /\ InEpoch /\ Chained(t, r) /\ Sending(t, r) /\ Receiving(t, r)
  BY DEF Basic, Streams
<1>2. /\ program' = program /\ network' = network /\ sent' = sent
      /\ delivered' = delivered /\ recvMap' = recvMap
      /\ pc[S(s)] = "out" /\ epoch[S(s)] <= NEpochs
      /\ sendMap' = [sendMap EXCEPT ![s] = [q \in Receivers |->
           [sendMap[s][q] EXCEPT !.firstFlag = TRUE]]]
  BY DEF EpochEnter, SetFirst
<1>3. /\ epoch' = [epoch EXCEPT ![S(s)] = epoch[S(s)]]
      /\ pc' = [pc EXCEPT ![S(s)] = "in"] /\ at' = [at EXCEPT ![S(s)] = at[S(s)]]
  BY <1>1 DEF EpochEnter, TypeOK
<1>4. /\ epoch'[S(s)] = epoch[S(s)] /\ pc'[S(s)] = "in" /\ at'[S(s)] = at[S(s)]
      /\ t # s => epoch'[S(t)] = epoch[S(t)] /\ pc'[S(t)] = pc[S(t)] /\ at'[S(t)] = at[S(t)]
      /\ epoch'[R(r)] = epoch[R(r)] /\ pc'[R(r)] = pc[R(r)] /\ at'[R(r)] = at[R(r)]
  BY <1>1, <1>3, PETFacts DEF TypeOK
<1>5. CASE t # s
  <2>1. sendMap'[t][r] = sendMap[t][r]
    BY <1>2, <1>5
  <2> QED
    BY <1>1, <1>2, <1>4, <1>5, <2>1, PairKept
<1>6. CASE t = s
  <2>2. /\ sendMap[s][r] \in SendBuffers /\ sent[s][r] \in Nat
        /\ epoch[S(s)] \in 1 .. NEpochs + 1
    BY <1>1, PairFacts
  <2>4. Posted(t, r)' = Posted(t, r) /\ Fetched(t, r)' = Fetched(t, r)
    BY <1>2 DEF Posted, Fetched
  <2>5. /\ sendMap[s][r].charBuffer = <<>>
        /\ sent[s][r] = Quota(epoch[S(s)] - 1, s, r)
        /\ Posted(s, r) = sent[s][r]
    <3>1. sent[s][r] = Posted(s, r) /\ sent[s][r] = Quota(epoch[S(s)] - 1, s, r)
      BY <1>1, <1>2, <1>6 DEF Sending
    <3>2. Len(sendMap[s][r].charBuffer) = 0
      BY <2>2, <3>1 DEF Posted
    <3> QED
      BY <3>1, <3>2
  <2>6. sent[s][r] <= Quota(epoch[S(s)], s, r)
    <3>1. epoch[S(s)] - 1 \in 0 .. NEpochs /\ epoch[S(s)] \in 0 .. NEpochs
          /\ epoch[S(s)] - 1 <= epoch[S(s)]
      BY <1>2, <2>2, ConstantsAssumption
    <3> QED
      BY <1>1, <2>5, <3>1, QuotaFacts
  <2>7. Sending(t, r)'
    <3>1. \A e : Quota(e, s, r)' = Quota(e, s, r)
      BY <1>2 DEF Quota
    <3>2. Complete(s, r)' = Complete(s, r)
      BY <1>2 DEF Complete
    <3>4. sendMap[s][r].mpireq \/ Complete(s, r)
      BY <1>1, <1>6 DEF Sending
    <3> QED
      BY <1>2, <1>4, <1>6, <2>4, <2>5, <2>6, <3>1, <3>2, <3>4 DEF Sending
  <2>8. Chained(t, r)'
    BY <1>1, <1>2, <2>4, ChainedKept
  <2>9. Receiving(t, r)'
    BY <1>1, <1>2, <1>4, ReceivingKept
  <2> QED
    BY <2>7, <2>8, <2>9
<1> QED
  BY <1>5, <1>6

\* The first send of an epoch waits until MPI has read the buffer that it clears,
\* so that nothing under way is lost.
LEMMA SendStreams ==
  ASSUME Basic, Streams, NEW s \in Senders, NEW r \in Receivers, Send(s, r)
  PROVE  Streams'
<1> SUFFICES ASSUME NEW t \in Senders, NEW q \in Receivers
             PROVE  Chained(t, q)' /\ Sending(t, q)' /\ Receiving(t, q)'
  BY DEF Streams
<1>1. TypeOK /\ Chained(t, q) /\ Sending(t, q) /\ Receiving(t, q)
      /\ Chained(s, r) /\ Sending(s, r)
  BY DEF Basic, Streams
<1>2. /\ program' = program /\ delivered' = delivered /\ recvMap' = recvMap
      /\ epoch' = epoch /\ pc' = pc /\ at' = at
      /\ pc[S(s)] = "in" /\ sent[s][r] < Quota(epoch[S(s)], s, r)
      /\ sent' = [sent EXCEPT ![s][r] = sent[s][r] + 1]
  BY DEF Send
<1>3. PICK next \in SendBuffers :
        /\ sendMap' = [sendMap EXCEPT ![s][r] = next] /\ ~next.firstFlag
        /\ sendMap[s][r].firstFlag =>
             next.charBuffer = Append(<<>>, sent[s][r] + 1) /\ ~next.mpireq
        /\ ~sendMap[s][r].firstFlag =>
             /\ next.charBuffer = Append(sendMap[s][r].charBuffer, sent[s][r] + 1)
             /\ next.mpireq = sendMap[s][r].mpireq
  BY <1>1, SendFacts, ZenonT(30)
<1>4. sendMap[s][r].firstFlag => Complete(s, r) /\ sendMap[s][r].charBuffer = <<>>
  BY <1>1 DEF Send, ClearWait, Sending
<1>5. network' = network
  <2>1. CASE sendMap[s][r].firstFlag
    <3>1. Freed(network[s][r]) = network[s][r]
      BY <1>1, <1>4, <2>1, PairFacts, FreedFacts DEF Complete
    <3>2. network' = [network EXCEPT ![s][r] = Freed(network[s][r])]
      BY <2>1 DEF Send
    <3> QED
      BY <1>1, <3>1, <3>2 DEF TypeOK
  <2>2. CASE ~sendMap[s][r].firstFlag
    BY <2>2 DEF Send
  <2> QED
    BY <2>1, <2>2
<1>6. CASE ~(t = s /\ q = r)
  <2>1. sendMap'[t][q] = sendMap[t][q] /\ sent'[t][q] = sent[t][q]
    BY <1>2, <1>3, <1>6
  <2> QED
    BY <1>1, <1>2, <1>5, <2>1, PairKept
<1>7. CASE t = s /\ q = r
  <2>1. sendMap'[s][r] = next /\ sent'[s][r] = sent[s][r] + 1
    BY <1>1, <1>2, <1>3 DEF TypeOK
  <2>2. /\ sent[s][r] \in Nat /\ sendMap[s][r].charBuffer \in Seq(Nat)
        /\ Len(sendMap[s][r].charBuffer) \in Nat
        /\ epoch[S(s)] \in 1 .. NEpochs + 1
    BY <1>1, PairFacts, LengthFacts
  <2>3. next.charBuffer = Append(sendMap[s][r].charBuffer, sent[s][r] + 1)
    BY <1>3, <1>4
  <2>4. /\ Len(next.charBuffer) = Len(sendMap[s][r].charBuffer) + 1
        /\ DOMAIN next.charBuffer = 1 .. Len(sendMap[s][r].charBuffer) + 1
        /\ next.charBuffer[Len(sendMap[s][r].charBuffer) + 1] = sent[s][r] + 1
        /\ \A c \in 1 .. Len(sendMap[s][r].charBuffer) :
             next.charBuffer[c] = sendMap[s][r].charBuffer[c]
    BY <2>3
  <2>5. Posted(s, r)' = Posted(s, r) /\ Fetched(s, r)' = Fetched(s, r)
    <3>1. Posted(s, r)' = (sent[s][r] + 1) - (Len(sendMap[s][r].charBuffer) + 1)
      BY <2>1, <2>4 DEF Posted
    <3>2. \A m, n \in Nat : (m + 1) - (n + 1) = m - n
      OBVIOUS
    <3>3. Posted(s, r)' = Posted(s, r)
      BY <2>2, <3>1, <3>2 DEF Posted
    <3> QED
      BY <1>2, <3>3 DEF Fetched
  <2>6. \A c \in DOMAIN next.charBuffer : next.charBuffer[c] = Posted(s, r) + c
    <3>1. \A c \in 1 .. Len(sendMap[s][r].charBuffer) :
            sendMap[s][r].charBuffer[c] = Posted(s, r) + c
      BY <1>1 DEF Sending
    <3>2. sent[s][r] + 1 = Posted(s, r) + (Len(sendMap[s][r].charBuffer) + 1)
      BY <2>2 DEF Posted
    <3>3. \A c \in 1 .. Len(sendMap[s][r].charBuffer) + 1 :
            c \in 1 .. Len(sendMap[s][r].charBuffer) \/ c = Len(sendMap[s][r].charBuffer) + 1
      <4>1. \A n \in Nat : \A c \in 1 .. n + 1 : c \in 1 .. n \/ c = n + 1
        OBVIOUS
      <4> QED
        BY <2>2, <4>1
    <3> QED
      BY <2>4, <3>1, <3>2, <3>3
  <2>7. Sending(s, r)'
    <3>1. \A e : Quota(e, s, r)' = Quota(e, s, r)
      BY <1>2 DEF Quota
    <3>2. Complete(s, r)' = Complete(s, r)
      BY <1>5 DEF Complete
    <3>3. next.mpireq \/ Complete(s, r)
      BY <1>1, <1>3, <1>4 DEF Sending
    <3>4. /\ Quota(epoch[S(s)], s, r) \in Nat
          /\ Posted(s, r) = Quota(epoch[S(s)] - 1, s, r)
      <4>1. epoch[S(s)] \in 0 .. NEpochs
        <5>1. epoch[S(s)] <= NEpochs
          BY <1>2, PETFacts DEF Basic, InEpoch
        <5> QED
          BY <2>2, <5>1
      <4> QED
        BY <1>1, <1>2, <4>1, QuotaFacts DEF Sending
    <3>5. sent[s][r] + 1 <= Quota(epoch[S(s)], s, r)
      BY <1>2, <2>2, <3>4
    <3> QED
      BY <1>2, <1>3, <2>1, <2>5, <2>6, <3>1, <3>2, <3>3, <3>4, <3>5 DEF Sending
  <2>8. Chained(s, r)'
    BY <1>1, <1>2, <1>5, <2>5, ChainedKept
  <2>9. Receiving(s, r)'
    BY <1>1, <1>2, <1>7, ReceivingKept
  <2> QED
    BY <1>7, <2>7, <2>8, <2>9
<1> QED
  BY <1>6, <1>7

\* The wait for an acknowledge concerns no stream.
LEMMA ThrottleWaitStreams ==
  ASSUME Basic, Streams, NEW s \in Senders, NEW r \in Receivers, ThrottleWait(s, r)
  PROVE  Streams'
<1> SUFFICES ASSUME NEW t \in Senders, NEW q \in Receivers
             PROVE  Chained(t, q)' /\ Sending(t, q)' /\ Receiving(t, q)'
  BY DEF Streams
<1>1. TypeOK /\ Chained(t, q) /\ Sending(t, q) /\ Receiving(t, q)
  BY DEF Basic, Streams
<1>2. /\ program' = program /\ sent' = sent /\ network' = network
      /\ delivered' = delivered /\ recvMap' = recvMap
      /\ epoch' = epoch /\ pc' = pc /\ at' = at
      /\ sendMap' = [sendMap EXCEPT ![s][r].ackQueue = Tail(@)]
  BY DEF ThrottleWait
<1> QED
  BY <1>1, <1>2, PairKept

\* The sends of the epoch are done when the sender enters epochExit.
LEMMA EpochExitStreams ==
  ASSUME Basic, Streams, NEW s \in Senders, EpochExit(s)
  PROVE  Streams'
<1> SUFFICES ASSUME NEW t \in Senders, NEW r \in Receivers
             PROVE  Chained(t, r)' /\ Sending(t, r)' /\ Receiving(t, r)'
  BY DEF Streams
<1>1. TypeOK /\ Chained(t, r) /\ Sending(t, r) /\ Receiving(t, r)
  BY DEF Basic, Streams
<1>2. /\ program' = program /\ sent' = sent /\ network' = network
      /\ sendMap' = sendMap
      /\ delivered' = delivered /\ recvMap' = recvMap
      /\ pc[S(s)] = "in" /\ sent[s][r] = Quota(epoch[S(s)], s, r)
  BY DEF EpochExit
<1>3. /\ epoch' = [epoch EXCEPT ![S(s)] = epoch[S(s)]]
      /\ pc' = [pc EXCEPT ![S(s)] = "exit"] /\ at' = [at EXCEPT ![S(s)] = 1]
  BY <1>1 DEF EpochExit, TypeOK
<1>4. /\ epoch'[S(s)] = epoch[S(s)] /\ pc'[S(s)] = "exit" /\ at'[S(s)] = 1
      /\ t # s => epoch'[S(t)] = epoch[S(t)] /\ pc'[S(t)] = pc[S(t)] /\ at'[S(t)] = at[S(t)]
      /\ epoch'[R(r)] = epoch[R(r)] /\ pc'[R(r)] = pc[R(r)] /\ at'[R(r)] = at[R(r)]
  BY <1>1, <1>3, PETFacts DEF TypeOK
<1>5. CASE t # s
  BY <1>1, <1>2, <1>4, <1>5, PairKept
<1>6. CASE t = s
  <2>1. Posted(s, r)' = Posted(s, r) /\ Fetched(s, r)' = Fetched(s, r)
    BY <1>2 DEF Posted, Fetched
  <2>2. \A e : Quota(e, s, r)' = Quota(e, s, r)
    BY <1>2 DEF Quota
  <2>3. Complete(s, r)' = Complete(s, r)
    BY <1>2 DEF Complete
  <2>4. ~(1 > r)
    BY DEF Receivers
  <2>5. Sending(s, r)'
    BY <1>1, <1>2, <1>4, <1>6, <2>1, <2>2, <2>3, <2>4 DEF Sending
  <2>6. Chained(s, r)' /\ Receiving(s, r)'
    BY <1>1, <1>2, <1>4, <1>6, <2>1, ChainedKept, ReceivingKept
  <2> QED
    BY <1>6, <2>5, <2>6
<1> QED
  BY <1>5, <1>6

\* A message appended to those under way continues their chain.
LEMMA ChainedAppend ==
  ASSUME TypeOK, NEW s \in Senders, NEW r \in Receivers, Chained(s, r),
         NEW m \in MPIMessages, NEW e \in 1 .. NEpochs, program' = program,
         network'[s][r] = Append(network[s][r], m), m.chunks # <<>>,
         Len(m.chunks) = Quota(e, s, r) - Quota(e - 1, s, r),
         \A c \in DOMAIN m.chunks : m.chunks[c] = Quota(e - 1, s, r) + c,
         m.chunks[1] = Posted(s, r) + 1, Posted(s, r)' = Posted(s, r) + Len(m.chunks),
         Fetched(s, r)' = Fetched(s, r)
  PROVE  Chained(s, r)'
<1>0. PICK n \in Nat : n = Len(network[s][r])
  BY LengthFacts
<1>1. /\ network[s][r] \in Seq(MPIMessages) /\ DOMAIN network[s][r] = 1 .. n
      /\ Posted(s, r) \in Int
  BY <1>0, PairFacts, LengthFacts
<1>3. /\ DOMAIN network'[s][r] = 1 .. n + 1 /\ network'[s][r][n + 1] = m
      /\ \A i \in 1 .. n : network'[s][r][i] = network[s][r][i]
  BY <1>0, <1>1, AppendProperties
<1>4. \A i \in 1 .. n + 1 : Start(s, r, i)' = Start(s, r, i)
  <2> SUFFICES ASSUME NEW i \in 1 .. n + 1
               PROVE  Start(s, r, i)' = Start(s, r, i)
    OBVIOUS
  <2>1. CASE i \in 1 .. n
    BY <1>3 DEF Start
  <2>2. CASE i = n + 1
    <3>1. Start(s, r, i)' = m.chunks[1]
      BY <1>3, <2>2 DEF Start
    <3>2. Start(s, r, i) = Posted(s, r) + 1
      BY <1>1, <2>2 DEF Start
    <3> QED
      BY <3>1, <3>2
  <2> QED
    BY <2>1, <2>2
<1>5. Start(s, r, n + 2)' = m.chunks[1] + Len(m.chunks)
  <2>1. Start(s, r, n + 2)' = Posted(s, r)' + 1
    BY <1>3 DEF Start
  <2> QED
    BY <1>1, <2>1
<1>6. \A f : Quota(f, s, r)' = Quota(f, s, r)
  BY DEF Quota
<1>7. ASSUME NEW i \in 1 .. n
      PROVE  LET chunks == network'[s][r][i].chunks IN
             /\ chunks # <<>>
             /\ Start(s, r, i + 1)' = chunks[1] + Len(chunks)
             /\ \E f \in 1 .. NEpochs :
                  /\ Len(chunks) = Quota(f, s, r)' - Quota(f - 1, s, r)'
                  /\ \A c \in DOMAIN chunks : chunks[c] = Quota(f - 1, s, r)' + c
  <2>1. i \in DOMAIN network[s][r] /\ i + 1 \in 1 .. n + 1
    BY <1>1
  <2>2. PICK f \in 1 .. NEpochs :
          LET chunks == network[s][r][i].chunks IN
          /\ Len(chunks) = Quota(f, s, r) - Quota(f - 1, s, r)
          /\ \A c \in DOMAIN chunks : chunks[c] = Quota(f - 1, s, r) + c
    BY <2>1 DEF Chained
  <2>3. LET chunks == network[s][r][i].chunks IN
        chunks # <<>> /\ Start(s, r, i + 1) = chunks[1] + Len(chunks)
    BY <2>1 DEF Chained
  <2>4. network'[s][r][i] = network[s][r][i]
    BY <1>3
  <2>5. Start(s, r, i + 1)' = Start(s, r, i + 1)
    BY <1>4, <2>1
  <2>6. LET chunks == network'[s][r][i].chunks IN
        /\ Len(chunks) = Quota(f, s, r)' - Quota(f - 1, s, r)'
        /\ \A c \in DOMAIN chunks : chunks[c] = Quota(f - 1, s, r)' + c
    BY <1>6, <2>2, <2>4
  <2> QED
    BY <2>3, <2>4, <2>5, <2>6
<1>8. LET chunks == network'[s][r][n + 1].chunks IN
      /\ chunks # <<>>
      /\ Start(s, r, n + 2)' = chunks[1] + Len(chunks)
      /\ \E f \in 1 .. NEpochs :
           /\ Len(chunks) = Quota(f, s, r)' - Quota(f - 1, s, r)'
           /\ \A c \in DOMAIN chunks : chunks[c] = Quota(f - 1, s, r)' + c
  BY <1>3, <1>5, <1>6
<1>9. Start(s, r, 1)' = Fetched(s, r)' + 1
  BY <1>4 DEF Chained
<1>10. ASSUME NEW i \in DOMAIN network'[s][r]
       PROVE  LET chunks == network'[s][r][i].chunks IN
              /\ chunks # <<>>
              /\ Start(s, r, i + 1)' = chunks[1] + Len(chunks)
              /\ \E f \in 1 .. NEpochs :
                   /\ Len(chunks) = Quota(f, s, r)' - Quota(f - 1, s, r)'
                   /\ \A c \in DOMAIN chunks : chunks[c] = Quota(f - 1, s, r)' + c
  <2>1. i \in 1 .. n \/ i = n + 1
    BY <1>3
  <2>2. CASE i \in 1 .. n
    BY <1>7, <2>2
  <2>3. CASE i = n + 1
    <3>1. i + 1 = n + 2
      BY <2>3
    <3> QED
      BY <1>8, <2>3, <3>1
  <2> QED
    BY <2>1, <2>2, <2>3
<1> QED
  BY <1>9, <1>10 DEF Chained

\* Posting a buffer without padding hands MPI what the sends of the epoch appended.
LEMMA PostStreams ==
  ASSUME Basic, Streams, Padding \subseteq {FALSE}, NEW s \in Senders, NEW r \in Receivers,
         NEW padding \in Padding, Post(s, r, padding)
  PROVE  Streams'
<1> SUFFICES ASSUME NEW t \in Senders, NEW q \in Receivers
             PROVE  Chained(t, q)' /\ Sending(t, q)' /\ Receiving(t, q)'
  BY DEF Streams
<1>1. TypeOK /\ Chained(t, q) /\ Sending(t, q) /\ Receiving(t, q)
      /\ Chained(s, r) /\ Sending(s, r)
  BY DEF Basic, Streams
<1>2. /\ program' = program /\ sent' = sent /\ delivered' = delivered
      /\ recvMap' = recvMap
      /\ pc[S(s)] = "exit" /\ at[S(s)] = r
  BY DEF Post
<1>3. PICK next \in SendBuffers :
        /\ sendMap' = [sendMap EXCEPT ![s][r] = next]
        /\ next.charBuffer = <<>> /\ next.firstFlag = sendMap[s][r].firstFlag
        /\ sendMap[s][r].charBuffer = <<>> => next.mpireq = sendMap[s][r].mpireq
        /\ sendMap[s][r].charBuffer # <<>> => next.mpireq
  BY <1>1, PostFacts
<1>4. /\ epoch'[S(s)] = epoch[S(s)] /\ pc'[S(s)] = "exit" /\ at'[S(s)] = r + 1
      /\ t # s => epoch'[S(t)] = epoch[S(t)] /\ pc'[S(t)] = pc[S(t)] /\ at'[S(t)] = at[S(t)]
      /\ epoch'[R(q)] = epoch[R(q)] /\ pc'[R(q)] = pc[R(q)] /\ at'[R(q)] = at[R(q)]
  BY <1>1, <1>2, PETFacts DEF TypeOK, Post
<1>5. /\ sent[s][r] \in Nat /\ sendMap[s][r].charBuffer \in Seq(Nat)
      /\ Len(sendMap[s][r].charBuffer) \in Nat
      /\ epoch[S(s)] \in 1 .. NEpochs + 1 /\ r \in Nat /\ q \in Nat
  BY <1>1, PairFacts, LengthFacts
<1>6. epoch[S(s)] \in 1 .. NEpochs
  <2>1. epoch[S(s)] <= NEpochs
    BY <1>2, PETFacts DEF Basic, InEpoch
  <2> QED
    BY <1>5, <2>1
<1>7. /\ Posted(s, r) = Quota(epoch[S(s)] - 1, s, r)
      /\ sent[s][r] = Quota(epoch[S(s)], s, r)
  BY <1>1, <1>2, <1>5 DEF Sending
<1>8. \A e : Quota(e, t, q)' = Quota(e, t, q)
  BY <1>2 DEF Quota
<1>9. network' = network \/ \E m \in MPIMessages :
        network' = [network EXCEPT ![s][r] = Append(network[s][r], m)]
  <2>1. CASE sendMap[s][r].charBuffer = <<>>
    BY <2>1 DEF Post
  <2>2. CASE sendMap[s][r].charBuffer # <<>>
    <3>1. PICK m \in MPIMessages :
            /\ network' = [network EXCEPT ![s][r] = Append(network[s][r], m)]
            /\ m.pending /\ (~padding => m.chunks = sendMap[s][r].charBuffer)
      BY <1>1, <2>2, PostSends
    <3> QED
      BY <3>1
  <2> QED
    BY <2>1, <2>2
<1>10. CASE ~(t = s /\ q = r)
  <2>1. sendMap'[t][q] = sendMap[t][q] /\ network'[t][q] = network[t][q]
    <3>1. sendMap'[t][q] = sendMap[t][q]
      BY <1>1, <1>3, <1>10 DEF TypeOK
    <3>2. ASSUME NEW m \in MPIMessages,
                 network' = [network EXCEPT ![s][r] = Append(network[s][r], m)]
          PROVE  network'[t][q] = network[t][q]
      BY <1>1, <1>10, <3>2 DEF TypeOK
    <3>3. network'[t][q] = network[t][q]
      BY <1>9, <3>2
    <3> QED
      BY <3>1, <3>3
  <2>2. Posted(t, q)' = Posted(t, q) /\ Fetched(t, q)' = Fetched(t, q)
    BY <1>2, <2>1 DEF Posted, Fetched
  <2>3. Complete(t, q)' = Complete(t, q)
    BY <2>1 DEF Complete
  <2>4. Sending(t, q)'
    <3>1. CASE t # s
      BY <1>1, <1>2, <1>4, <2>1, <2>3, <3>1, SendingKept
    <3>2. CASE t = s
      <4>1. r + 1 > q <=> r > q
        BY <1>5, <1>10, <3>2
      <4> QED
        BY <1>1, <1>2, <1>4, <1>8, <2>1, <2>2, <2>3, <4>1 DEF Sending
    <3> QED
      BY <3>1, <3>2
  <2> QED
    BY <1>1, <1>2, <1>4, <2>1, <2>2, <2>4, ChainedKept, ReceivingKept
<1>11. CASE t = s /\ q = r
  <2>1. sendMap'[s][r] = next
    BY <1>1, <1>3 DEF TypeOK
  <2>2. Posted(s, r)' = sent[s][r] /\ Fetched(s, r)' = Fetched(s, r)
    <3>1. Posted(s, r)' = sent[s][r] - 0
      BY <1>2, <1>3, <2>1 DEF Posted
    <3> QED
      BY <1>2, <1>5, <3>1 DEF Fetched
  <2>3. r + 1 > r
    BY <1>5
  <2>4. Sending(s, r)'
    <3>1. next.mpireq \/ Complete(s, r)'
      <4>1. CASE sendMap[s][r].charBuffer = <<>>
        <5>1. network' = network
          BY <1>1, <4>1 DEF Post
        <5> QED
          BY <1>1, <1>3, <5>1 DEF Sending, Complete
      <4>2. CASE sendMap[s][r].charBuffer # <<>>
        BY <1>3, <4>2
      <4> QED
        BY <4>1, <4>2
    <3>2. next.charBuffer = <<>> /\ DOMAIN next.charBuffer = {}
      BY <1>3
    <3> QED
      BY <1>2, <1>4, <1>7, <1>8, <1>11, <2>1, <2>2, <2>3, <3>1, <3>2 DEF Sending
  <2>5. Chained(s, r)'
    <3>1. CASE sendMap[s][r].charBuffer = <<>>
      <4>1. network' = network
        BY <1>1, <3>1 DEF Post
      <4>2. Posted(s, r) = sent[s][r] - 0
        BY <3>1 DEF Posted
      <4> QED
        BY <1>1, <1>2, <1>5, <2>2, <4>1, <4>2, ChainedKept
    <3>2. CASE sendMap[s][r].charBuffer # <<>>
      <4>1. PICK m \in MPIMessages :
              /\ network' = [network EXCEPT ![s][r] = Append(network[s][r], m)]
              /\ m.pending /\ (~padding => m.chunks = sendMap[s][r].charBuffer)
        BY <1>1, <3>2, PostSends
      <4>2. m.chunks = sendMap[s][r].charBuffer /\ m.chunks # <<>>
        BY <3>2, <4>1
      <4>3. network'[s][r] = Append(network[s][r], m)
        BY <1>1, <4>1 DEF TypeOK
      <4>4. \A c \in DOMAIN m.chunks : m.chunks[c] = Posted(s, r) + c
        BY <1>1, <4>2 DEF Sending
      <4>5. 1 \in DOMAIN m.chunks
        BY <1>5, <4>2
      <4>6. Posted(s, r) \in Int /\ sent[s][r] = Posted(s, r) + Len(m.chunks)
        BY <1>5, <4>2 DEF Posted
      <4>7. Len(m.chunks) = Quota(epoch[S(s)], s, r) - Quota(epoch[S(s)] - 1, s, r)
        BY <1>7, <4>6
      <4>8. PICK e \in 1 .. NEpochs : e = epoch[S(s)]
        BY <1>6
      <4>9. /\ Len(m.chunks) = Quota(e, s, r) - Quota(e - 1, s, r)
            /\ \A c \in DOMAIN m.chunks : m.chunks[c] = Quota(e - 1, s, r) + c
        BY <1>7, <4>4, <4>7, <4>8
      <4>10. /\ m.chunks[1] = Posted(s, r) + 1
             /\ Posted(s, r)' = Posted(s, r) + Len(m.chunks)
        BY <2>2, <4>4, <4>5, <4>6
      <4> QED
        BY <1>1, <1>2, <2>2, <4>2, <4>3, <4>9, <4>10, ChainedAppend
    <3> QED
      BY <3>1, <3>2
  <2>6. Receiving(s, r)'
    BY <1>1, <1>2, <1>4, <1>11, ReceivingKept
  <2> QED
    BY <1>11, <2>4, <2>5, <2>6
<1> QED
  BY <1>10, <1>11

\* The epoch ends for a sender when its loop has posted every buffer.
LEMMA EpochExitedStreams ==
  ASSUME Basic, Streams, NEW s \in Senders, EpochExited(s)
  PROVE  Streams'
<1> SUFFICES ASSUME NEW t \in Senders, NEW r \in Receivers
             PROVE  Chained(t, r)' /\ Sending(t, r)' /\ Receiving(t, r)'
  BY DEF Streams
<1>1. TypeOK /\ Chained(t, r) /\ Sending(t, r) /\ Receiving(t, r)
  BY DEF Basic, Streams
<1>2. /\ program' = program /\ sent' = sent /\ network' = network
      /\ sendMap' = sendMap
      /\ delivered' = delivered /\ recvMap' = recvMap
      /\ pc[S(s)] = "exit" /\ at[S(s)] \notin Receivers
  BY DEF EpochExited
<1>3. /\ epoch'[S(s)] = epoch[S(s)] + 1 /\ pc'[S(s)] \in {"out", "final"}
      /\ t # s => epoch'[S(t)] = epoch[S(t)] /\ pc'[S(t)] = pc[S(t)] /\ at'[S(t)] = at[S(t)]
      /\ epoch'[R(r)] = epoch[R(r)] /\ pc'[R(r)] = pc[R(r)] /\ at'[R(r)] = at[R(r)]
  BY <1>1, PETFacts DEF TypeOK, EpochExited, Leave
<1>4. CASE t # s
  BY <1>1, <1>2, <1>3, <1>4, PairKept
<1>5. CASE t = s
  <2>1. Posted(s, r)' = Posted(s, r) /\ Fetched(s, r)' = Fetched(s, r)
    BY <1>2 DEF Posted, Fetched
  <2>2. \A e : Quota(e, s, r)' = Quota(e, s, r)
    BY <1>2 DEF Quota
  <2>3. Complete(s, r)' = Complete(s, r)
    BY <1>2 DEF Complete
  <2>4. at[S(s)] > r
    <3>1. /\ at[S(s)] \in Nat /\ at[S(s)] >= 1 /\ r \in 1 .. NReceivers
          /\ NReceivers \in Nat
          /\ at[S(s)] \notin 1 .. NReceivers
      BY <1>2, PairFacts DEF Basic, InEpoch, Receivers
    <3> QED
      BY <3>1
  <2>5. /\ sent[s][r] = Quota(epoch[S(s)], s, r)
        /\ Posted(s, r) = Quota(epoch[S(s)], s, r)
    BY <1>1, <1>2, <1>5, <2>4 DEF Sending
  <2>6. epoch'[S(s)] - 1 = epoch[S(s)]
    <3>1. epoch[S(s)] \in 1 .. NEpochs + 1
      BY <1>1, PairFacts
    <3> QED
      BY <1>3, <3>1
  <2>7. Sending(s, r)'
    BY <1>1, <1>2, <1>3, <1>5, <2>1, <2>2, <2>3, <2>5, <2>6 DEF Sending
  <2>8. Chained(s, r)' /\ Receiving(s, r)'
    BY <1>1, <1>2, <1>3, <1>5, <2>1, ChainedKept, ReceivingKept
  <2> QED
    BY <1>5, <2>7, <2>8
<1> QED
  BY <1>4, <1>5

\* epochFinal waits until MPI has read the last buffer, before it is forgotten.
LEMMA EpochFinalStreams ==
  ASSUME Basic, Streams, NEW s \in Senders, NEW r \in Receivers, EpochFinal(s, r)
  PROVE  Streams'
<1> SUFFICES ASSUME NEW t \in Senders, NEW q \in Receivers
             PROVE  Chained(t, q)' /\ Sending(t, q)' /\ Receiving(t, q)'
  BY DEF Streams
<1>1. TypeOK /\ Chained(t, q) /\ Sending(t, q) /\ Receiving(t, q)
      /\ Chained(s, r) /\ Sending(s, r)
  BY DEF Basic, Streams
<1>2. /\ program' = program /\ sent' = sent /\ network' = network
      /\ delivered' = delivered /\ recvMap' = recvMap /\ epoch' = epoch
      /\ pc[S(s)] = "final" /\ (sendMap[s][r].mpireq => Complete(s, r))
      /\ sendMap' = [sendMap EXCEPT ![s][r] = SendBuffer]
  BY DEF EpochFinal, ClearWait
<1>3. /\ pc'[S(s)] \in {"final", "done"}
      /\ t # s => pc'[S(t)] = pc[S(t)] /\ at'[S(t)] = at[S(t)]
      /\ pc'[R(q)] = pc[R(q)] /\ at'[R(q)] = at[R(q)]
  BY PETFacts DEF EpochFinal
<1>4. \A e : Quota(e, t, q)' = Quota(e, t, q)
  BY <1>2 DEF Quota
<1>5. Complete(t, q)' = Complete(t, q)
  BY <1>2 DEF Complete
<1>6. CASE ~(t = s /\ q = r)
  <2>1. sendMap'[t][q] = sendMap[t][q]
    BY <1>2, <1>6
  <2>2. Posted(t, q)' = Posted(t, q) /\ Fetched(t, q)' = Fetched(t, q)
    BY <1>2, <2>1 DEF Posted, Fetched
  <2>3. Sending(t, q)'
    BY <1>1, <1>2, <1>3, <1>4, <1>5, <2>1, <2>2 DEF Sending
  <2> QED
    BY <1>1, <1>2, <1>3, <2>2, <2>3, ChainedKept, ReceivingKept
<1>7. CASE t = s /\ q = r
  <2>1. sendMap'[s][r] = SendBuffer
    BY <1>1, <1>2 DEF TypeOK
  <2>2. /\ sent[s][r] = Quota(epoch[S(s)] - 1, s, r) /\ Posted(s, r) = sent[s][r]
        /\ Complete(s, r) /\ sent[s][r] \in Nat
    BY <1>1, <1>2, PairFacts DEF Sending
  <2>3. SendBuffer.charBuffer = <<>> /\ DOMAIN SendBuffer.charBuffer = {}
        /\ Len(SendBuffer.charBuffer) = 0
    BY DEF SendBuffer
  <2>4. Posted(s, r)' = Posted(s, r) /\ Fetched(s, r)' = Fetched(s, r)
    <3>1. Posted(s, r)' = sent[s][r] - 0
      BY <1>2, <2>1, <2>3 DEF Posted
    <3> QED
      BY <1>2, <2>2, <3>1 DEF Fetched
  <2>5. Sending(s, r)'
    BY <1>2, <1>3, <1>4, <1>5, <1>7, <2>1, <2>2, <2>3, <2>4 DEF Sending
  <2>6. Chained(s, r)' /\ Receiving(s, r)'
    BY <1>1, <1>2, <1>3, <1>7, <2>4, ChainedKept, ReceivingKept
  <2> QED
    BY <1>7, <2>5, <2>6
<1> QED
  BY <1>6, <1>7

-----------------------------------------------------------------------------
\* What was fetched in the last epoch has been delivered when the next one starts.
LEMMA RecvEpochEnterStreams ==
  ASSUME Basic, Streams, NEW r \in Receivers, RecvEpochEnter(r)
  PROVE  Streams'
<1> SUFFICES ASSUME NEW s \in Senders, NEW q \in Receivers
             PROVE  Chained(s, q)' /\ Sending(s, q)' /\ Receiving(s, q)'
  BY DEF Streams
<1>1. TypeOK /\ Chained(s, q) /\ Sending(s, q) /\ Receiving(s, q)
  BY DEF Basic, Streams
<1>2. /\ program' = program /\ sent' = sent /\ network' = network
      /\ sendMap' = sendMap
      /\ delivered' = delivered /\ pc[R(r)] = "out"
  BY DEF RecvEpochEnter
<1>3. /\ epoch'[R(r)] = epoch[R(r)] /\ pc'[R(r)] = "in" /\ at'[R(r)] = 1
      /\ q # r => epoch'[R(q)] = epoch[R(q)] /\ pc'[R(q)] = pc[R(q)] /\ at'[R(q)] = at[R(q)]
      /\ epoch'[S(s)] = epoch[S(s)] /\ pc'[S(s)] = pc[S(s)] /\ at'[S(s)] = at[S(s)]
  <2>1. at[R(r)] = 1
    BY <1>2, PETFacts DEF Basic, InEpoch
  <2> QED
    BY <1>1, <2>1, PETFacts DEF TypeOK, RecvEpochEnter
<1>4. PICK next \in [Senders -> RecvBuffers] :
        /\ recvMap' = [recvMap EXCEPT ![r] = next]
        /\ \A t \in Senders : /\ next[t].firstFlag /\ next[t].probed = recvMap[r][t].probed
                              /\ next[t].chunks = recvMap[r][t].chunks
  BY <1>1, RecvEpochEnterFacts
<1>5. CASE q # r
  <2>1. recvMap'[q] = recvMap[q]
    BY <1>4, <1>5
  <2> QED
    BY <1>1, <1>2, <1>3, <1>5, <2>1, PairKept
<1>6. CASE q = r
  <2>1. recvMap'[r][s] = next[s]
    BY <1>1, <1>4 DEF TypeOK
  <2>2. Posted(s, r)' = Posted(s, r) /\ Fetched(s, r)' = Fetched(s, r)
    BY <1>2, <1>4, <2>1 DEF Posted, Fetched
  <2>3. \A e : Quota(e, s, r)' = Quota(e, s, r)
    BY <1>2 DEF Quota
  <2>4. Complete(s, r)' = Complete(s, r)
    BY <1>2 DEF Complete
  <2>5. /\ Len(delivered[r][s]) = Quota(epoch[R(r)] - 1, s, r)
        /\ recvMap[r][s].chunks = <<>>
        /\ ~recvMap[r][s].probed
        /\ \A i \in DOMAIN delivered[r][s] : delivered[r][s][i] = i
    BY <1>1, <1>2, <1>6 DEF Receiving
  <2>6. ~(1 > s)
    BY DEF Senders
  <2>7. Receiving(s, r)'
    BY <1>2, <1>3, <1>4, <2>1, <2>3, <2>5, <2>6 DEF Receiving
  <2>8. Chained(s, r)' /\ Sending(s, r)'
    BY <1>1, <1>2, <1>3, <1>6, <2>2, <2>4, ChainedKept, SendingKept
  <2> QED
    BY <1>6, <2>7, <2>8
<1> QED
  BY <1>5, <1>6

\* A step inside a receive keeps the control of all PETs and what other pairs have.
LEMMA OtherReceives ==
  ASSUME Basic, Streams, NEW r \in Receivers, NEW s \in Senders,
         program' = program, sent' = sent, sendMap' = sendMap,
         epoch' = epoch, pc' = pc, at' = at,
         \A q \in Receivers, t \in Senders : ~(q = r /\ t = s) =>
           /\ network'[t][q] = network[t][q] /\ delivered'[q][t] = delivered[q][t]
           /\ recvMap'[q][t] = recvMap[q][t],
         Chained(s, r)' /\ Sending(s, r)' /\ Receiving(s, r)'
  PROVE  Streams'
<1> SUFFICES ASSUME NEW t \in Senders, NEW q \in Receivers
             PROVE  Chained(t, q)' /\ Sending(t, q)' /\ Receiving(t, q)'
  BY DEF Streams
<1>1. Chained(t, q) /\ Sending(t, q) /\ Receiving(t, q)
  BY DEF Streams
<1>2. CASE ~(q = r /\ t = s)
  BY <1>1, PairKept
<1>3. CASE q = r /\ t = s
  BY <1>3
<1> QED
  BY <1>2

\* The probe is the first step of the first receive of an epoch.
LEMMA ProbeStreams ==
  ASSUME Basic, Streams, NEW r \in Receivers, NEW s \in Senders, Probe(r, s)
  PROVE  Streams'
<1>1. TypeOK /\ Chained(s, r) /\ Sending(s, r) /\ Receiving(s, r)
  BY DEF Basic, Streams
<1>2. /\ program' = program /\ sent' = sent /\ network' = network
      /\ sendMap' = sendMap
      /\ delivered' = delivered /\ epoch' = epoch /\ pc' = pc /\ at' = at
      /\ pc[R(r)] = "in" /\ at[R(r)] = s /\ recvMap[r][s].firstFlag
      /\ Len(delivered[r][s]) < Quota(epoch[R(r)], s, r)
  BY DEF Probe, InRecv
<1>3. PICK next \in RecvBuffers :
        /\ RecvMapSet(r, s, next)
        /\ next.chunks = recvMap[r][s].chunks /\ ~next.firstFlag /\ next.probed
  BY <1>1, ProbeFacts
<1>4. /\ recvMap'[r][s] = next
      /\ \A q \in Receivers, t \in Senders :
           ~(q = r /\ t = s) => recvMap'[q][t] = recvMap[q][t]
  BY <1>1, <1>3, RecvMapFacts
<1>5. Posted(s, r)' = Posted(s, r) /\ Fetched(s, r)' = Fetched(s, r)
  BY <1>2, <1>3, <1>4 DEF Posted, Fetched
<1>6. Chained(s, r)' /\ Sending(s, r)'
  <2>1. Complete(s, r)' = Complete(s, r)
    BY <1>2 DEF Complete
  <2> QED
    BY <1>1, <1>2, <1>5, <2>1, ChainedKept, SendingKept
<1>7. \A e : Quota(e, s, r)' = Quota(e, s, r)
  BY <1>2 DEF Quota
<1>8. /\ Len(delivered[r][s]) = Quota(epoch[R(r)] - 1, s, r)
      /\ recvMap[r][s].chunks = <<>>
      /\ \A i \in DOMAIN delivered[r][s] : delivered[r][s][i] = i
  BY <1>1, <1>2 DEF Receiving
<1>9. ~(s > s) /\ ~(s < s)
  BY DEF Senders
<1>10. Receiving(s, r)'
  BY <1>2, <1>3, <1>4, <1>7, <1>8, <1>9 DEF Receiving
<1> QED
  BY <1>2, <1>4, <1>6, <1>10, OtherReceives

\* The message at the front is the one the sender posted in the same epoch: those
\* of earlier epochs have been fetched, and it holds the next one to deliver.
LEMMA FrontFacts ==
  ASSUME TypeOK, NEW s \in Senders, NEW r \in Receivers, Chained(s, r),
         network[s][r] # <<>>, NEW e \in 1 .. NEpochs,
         Fetched(s, r) = Quota(e - 1, s, r), Fetched(s, r) < Quota(e, s, r)
  PROVE  LET chunks == network[s][r][1].chunks IN
         /\ Len(chunks) = Quota(e, s, r) - Quota(e - 1, s, r)
         /\ \A c \in DOMAIN chunks : chunks[c] = Quota(e - 1, s, r) + c
         /\ Start(s, r, 2) = Quota(e, s, r) + 1
<1> DEFINE chunks == network[s][r][1].chunks
<1>1. 1 \in DOMAIN network[s][r] /\ chunks \in Seq(Nat) /\ Fetched(s, r) \in Nat
  BY LengthFacts
<1>2. /\ chunks # <<>> /\ chunks[1] = Fetched(s, r) + 1
      /\ Start(s, r, 2) = chunks[1] + Len(chunks)
  <2>1. chunks # <<>> /\ Start(s, r, 1 + 1) = chunks[1] + Len(chunks)
    BY <1>1 DEF Chained
  <2>2. Start(s, r, 1) = Fetched(s, r) + 1 /\ Start(s, r, 1) = chunks[1]
    BY <1>1 DEF Chained, Start
  <2> QED
    BY <2>1, <2>2
<1>3. PICK f \in 1 .. NEpochs :
        /\ Len(chunks) = Quota(f, s, r) - Quota(f - 1, s, r)
        /\ \A c \in DOMAIN chunks : chunks[c] = Quota(f - 1, s, r) + c
  BY <1>1 DEF Chained
<1> HIDE DEF chunks
<1>4. /\ Len(chunks) \in Nat /\ Len(chunks) > 0 /\ 1 \in DOMAIN chunks
  BY <1>2
<1>5. /\ NEpochs \in Nat
      /\ f \in 0 .. NEpochs /\ f - 1 \in 0 .. NEpochs
      /\ e \in 0 .. NEpochs /\ e - 1 \in 0 .. NEpochs
  BY ConstantsAssumption
<1>6. /\ Quota(f, s, r) \in Nat /\ Quota(f - 1, s, r) \in Nat
      /\ Quota(e, s, r) \in Nat /\ Quota(e - 1, s, r) \in Nat
  BY <1>5, QuotaFacts
<1>7. Quota(f - 1, s, r) = Quota(e - 1, s, r)
  <2>1. chunks[1] = Quota(f - 1, s, r) + 1
    BY <1>3, <1>4
  <2> QED
    BY <1>2, <1>6, <2>1
<1>8. ~(f < e)
  <2>1. f < e => Quota(f, s, r) <= Quota(e - 1, s, r)
    BY <1>5, QuotaFacts
  <2> QED
    BY <1>3, <1>4, <1>6, <1>7, <2>1
<1>9. ~(e < f)
  <2>1. e < f => Quota(e, s, r) <= Quota(f - 1, s, r)
    BY <1>5, QuotaFacts
  <2> QED
    BY <1>6, <1>7, <2>1
<1>10. f = e
  BY <1>8, <1>9
<1>11. Start(s, r, 2) = Quota(e, s, r) + 1
  BY <1>2, <1>3, <1>6, <1>10
<1> QED
  BY <1>3, <1>10, <1>11 DEF chunks

\* Without its front, the chain starts at the next message.
LEMMA ChainedTail ==
  ASSUME TypeOK, NEW s \in Senders, NEW r \in Receivers, Chained(s, r), program' = program,
         network[s][r] # <<>>, network'[s][r] = Tail(network[s][r]),
         Posted(s, r)' = Posted(s, r), Start(s, r, 2) = Fetched(s, r)' + 1
  PROVE  Chained(s, r)'
<1>0. PICK n \in Nat : n = Len(network[s][r])
  BY LengthFacts
<1>1. network[s][r] \in Seq(MPIMessages) /\ DOMAIN network[s][r] = 1 .. n /\ n > 0
  BY <1>0, PairFacts
<1>2. /\ DOMAIN network'[s][r] = 1 .. n - 1
      /\ \A i \in 1 .. n - 1 : network'[s][r][i] = network[s][r][i + 1]
  BY <1>1
<1>3. \A i \in 1 .. n : Start(s, r, i)' = Start(s, r, i + 1)
  <2> SUFFICES ASSUME NEW i \in 1 .. n
               PROVE  Start(s, r, i)' = Start(s, r, i + 1)
    OBVIOUS
  <2>1. CASE i \in 1 .. n - 1
    BY <1>2 DEF Start
  <2>2. CASE i \notin 1 .. n - 1
    <3>1. i + 1 \notin 1 .. n
      BY <2>2
    <3> QED
      BY <3>1 DEF Start
  <2> QED
    BY <2>1, <2>2
<1>4. \A f : Quota(f, s, r)' = Quota(f, s, r)
  BY DEF Quota
<1>5. ASSUME NEW i \in DOMAIN network'[s][r]
      PROVE  LET chunks == network'[s][r][i].chunks IN
             /\ chunks # <<>>
             /\ Start(s, r, i + 1)' = chunks[1] + Len(chunks)
             /\ \E f \in 1 .. NEpochs :
                  /\ Len(chunks) = Quota(f, s, r)' - Quota(f - 1, s, r)'
                  /\ \A c \in DOMAIN chunks : chunks[c] = Quota(f - 1, s, r)' + c
  <2>1. PICK j \in 1 .. n : j = i + 1 /\ i \in 1 .. n - 1
    BY <1>2
  <2>2. PICK f \in 1 .. NEpochs :
          LET chunks == network[s][r][j].chunks IN
          /\ Len(chunks) = Quota(f, s, r) - Quota(f - 1, s, r)
          /\ \A c \in DOMAIN chunks : chunks[c] = Quota(f - 1, s, r) + c
    BY <1>1 DEF Chained
  <2>3. LET chunks == network[s][r][j].chunks IN
        chunks # <<>> /\ Start(s, r, j + 1) = chunks[1] + Len(chunks)
    BY <1>1 DEF Chained
  <2>4. /\ network'[s][r][i] = network[s][r][j]
        /\ Start(s, r, j)' = Start(s, r, j + 1)
    BY <1>3, <2>1
  <2> QED
    BY <1>4, <2>1, <2>2, <2>3, <2>4
<1>6. Start(s, r, 1)' = Fetched(s, r)' + 1
  BY <1>1, <1>3
<1> QED
  BY <1>5, <1>6 DEF Chained

\* The receive of the probed message moves the messages of the epoch to the buffer.
LEMMA RecvBufferedStreams ==
  ASSUME Basic, Streams, NEW r \in Receivers, NEW s \in Senders, RecvBuffered(r, s)
  PROVE  Streams'
<1>1. /\ TypeOK /\ Probed /\ InEpoch /\ Chained(s, r) /\ Sending(s, r)
      /\ Receiving(s, r)
  BY DEF Basic, Streams
<1>2. /\ program' = program /\ sent' = sent /\ sendMap' = sendMap
      /\ delivered' = delivered /\ epoch' = epoch /\ pc' = pc /\ at' = at
      /\ pc[R(r)] = "in" /\ at[R(r)] = s /\ recvMap[r][s].probed
      /\ Len(delivered[r][s]) < Quota(epoch[R(r)], s, r)
  BY DEF RecvBuffered, InRecv
<1>3. /\ network[s][r] \in Seq(MPIMessages) /\ network[s][r] # <<>>
      /\ network' = [network EXCEPT ![s][r] = Tail(network[s][r])]
  BY <1>1, RecvBufferedFacts
<1>4. PICK next \in RecvBuffers :
        /\ RecvMapSet(r, s, next)
        /\ next.chunks = network[s][r][1].chunks /\ ~next.probed
        /\ next.firstFlag = recvMap[r][s].firstFlag
  BY <1>1, RecvBufferedFacts
<1>5. /\ recvMap'[r][s] = next
      /\ \A q \in Receivers, t \in Senders :
           ~(q = r /\ t = s) => recvMap'[q][t] = recvMap[q][t]
  BY <1>1, <1>4, RecvMapFacts
<1>6. /\ network'[s][r] = Tail(network[s][r])
      /\ \A q \in Receivers, t \in Senders :
           ~(q = r /\ t = s) => network'[t][q] = network[t][q]
  BY <1>1, <1>3 DEF TypeOK
<1>7. PICK e \in 1 .. NEpochs : e = epoch[R(r)]
  <2>1. epoch[R(r)] \in 1 .. NEpochs + 1 /\ epoch[R(r)] <= NEpochs
    BY <1>1, <1>2, PairFacts DEF InEpoch
  <2> QED
    BY <2>1
<1>8. /\ Len(delivered[r][s]) = Quota(e - 1, s, r) /\ recvMap[r][s].chunks = <<>>
      /\ ~recvMap[r][s].firstFlag
      /\ \A i \in DOMAIN delivered[r][s] : delivered[r][s][i] = i
  BY <1>1, <1>2, <1>7 DEF Receiving
<1>9. Len(delivered[r][s]) \in Nat /\ Fetched(s, r) = Len(delivered[r][s])
  <2>1. Len(recvMap[r][s].chunks) = 0 /\ Len(delivered[r][s]) \in Nat
    BY <1>8
  <2> QED
    BY <2>1 DEF Fetched
<1>10. /\ Len(next.chunks) = Quota(e, s, r) - Quota(e - 1, s, r)
       /\ \A c \in DOMAIN next.chunks : next.chunks[c] = Quota(e - 1, s, r) + c
       /\ Start(s, r, 2) = Quota(e, s, r) + 1
  BY <1>1, <1>2, <1>3, <1>4, <1>7, <1>8, <1>9, FrontFacts
<1>11. Posted(s, r)' = Posted(s, r) /\ Fetched(s, r)' = Quota(e, s, r)
  <2>1. Fetched(s, r)' = Len(delivered[r][s]) + Len(next.chunks)
    BY <1>2, <1>5 DEF Fetched
  <2>2. Quota(e, s, r) \in Nat /\ Quota(e - 1, s, r) \in Nat
    <3>1. e \in 0 .. NEpochs /\ e - 1 \in 0 .. NEpochs
      BY ConstantsAssumption
    <3> QED
      BY <1>1, <3>1, QuotaFacts
  <2> QED
    BY <1>2, <1>8, <1>10, <2>1, <2>2 DEF Posted
<1>12. Chained(s, r)'
  BY <1>1, <1>2, <1>3, <1>6, <1>10, <1>11, ChainedTail
<1>13. Sending(s, r)'
  <2>1. Complete(s, r) => Complete(s, r)'
    <3>1. \A i \in DOMAIN network'[s][r] :
            i + 1 \in DOMAIN network[s][r] /\ network'[s][r][i] = network[s][r][i + 1]
      <4>1. \A i \in DOMAIN Tail(network[s][r]) :
              /\ i + 1 \in DOMAIN network[s][r]
              /\ Tail(network[s][r])[i] = network[s][r][i + 1]
        BY <1>3
      <4> QED
        BY <1>6, <4>1
    <3> QED
      BY <3>1 DEF Complete
  <2> QED
    BY <1>1, <1>2, <2>1, SendingKept
<1>14. \A f : Quota(f, s, r)' = Quota(f, s, r)
  BY <1>2 DEF Quota
<1>15. ~(s > s) /\ ~(s < s)
  BY DEF Senders
<1>16. Receiving(s, r)'
  BY <1>2, <1>5, <1>4, <1>7, <1>8, <1>10, <1>11, <1>14, <1>15 DEF Receiving
<1> QED
  BY <1>2, <1>5, <1>6, <1>12, <1>13, <1>16, OtherReceives

\* A receive is served with the next message of the stream.
LEMMA RecvChunkStreams ==
  ASSUME Basic, Streams, NEW r \in Receivers, NEW s \in Senders, RecvChunk(r, s)
  PROVE  Streams'
<1>1. TypeOK /\ InEpoch /\ Chained(s, r) /\ Sending(s, r) /\ Receiving(s, r)
  BY DEF Basic, Streams
<1>2. /\ program' = program /\ sent' = sent /\ sendMap' = sendMap
      /\ network' = network
      /\ epoch' = epoch /\ pc' = pc /\ at' = at
      /\ pc[R(r)] = "in" /\ at[R(r)] = s
      /\ ~recvMap[r][s].firstFlag /\ ~recvMap[r][s].probed
      /\ Len(delivered[r][s]) < Quota(epoch[R(r)], s, r)
  BY DEF RecvChunk, InRecv
<1>3. /\ delivered[r][s] \in Seq(Nat) /\ recvMap[r][s].chunks \in Seq(Nat)
      /\ Len(delivered[r][s]) \in Nat /\ Len(recvMap[r][s].chunks) \in Nat
  BY <1>1, PairFacts, LengthFacts
<1>4. /\ Fetched(s, r) = Quota(epoch[R(r)], s, r)
      /\ \A i \in DOMAIN delivered[r][s] : delivered[r][s][i] = i
      /\ \A c \in DOMAIN recvMap[r][s].chunks :
           recvMap[r][s].chunks[c] = Len(delivered[r][s]) + c
  BY <1>1, <1>2 DEF Receiving
<1>5. recvMap[r][s].chunks # <<>>
  <2>1. Quota(epoch[R(r)], s, r) = Len(delivered[r][s]) + Len(recvMap[r][s].chunks)
    BY <1>4 DEF Fetched
  <2>2. Len(delivered[r][s]) < Len(delivered[r][s]) + Len(recvMap[r][s].chunks)
    BY <1>2, <2>1
  <2>3. \A d, n \in Nat : d < d + n => n # 0
    OBVIOUS
  <2>4. Len(recvMap[r][s].chunks) # 0
    BY <1>3, <2>2, <2>3
  <2> QED
    BY <2>4
<1>6. PICK next \in RecvBuffers :
        /\ RecvMapSet(r, s, next)
        /\ next.firstFlag = recvMap[r][s].firstFlag /\ next.probed = recvMap[r][s].probed
        /\ next.chunks = Tail(recvMap[r][s].chunks)
  BY <1>1, <1>5, RecvChunkFacts
<1>7. /\ recvMap'[r][s] = next
      /\ \A q \in Receivers, t \in Senders :
           ~(q = r /\ t = s) => recvMap'[q][t] = recvMap[q][t]
  BY <1>1, <1>6, RecvMapFacts
<1>8. Head(recvMap[r][s].chunks) = Len(delivered[r][s]) + 1
  <2>1. /\ 1 \in DOMAIN recvMap[r][s].chunks
        /\ Head(recvMap[r][s].chunks) = recvMap[r][s].chunks[1]
    BY <1>3, <1>5
  <2> QED
    BY <1>4, <2>1
<1>9. delivered' = [delivered EXCEPT ![r][s] =
        Append(delivered[r][s], Len(delivered[r][s]) + 1)]
  BY <1>5, <1>8 DEF RecvChunk
<1>10. /\ delivered'[r][s] = Append(delivered[r][s], Len(delivered[r][s]) + 1)
       /\ \A q \in Receivers, t \in Senders :
            ~(q = r /\ t = s) => delivered'[q][t] = delivered[q][t]
  BY <1>1, <1>9 DEF TypeOK
<1>11. /\ Len(delivered'[r][s]) = Len(delivered[r][s]) + 1
       /\ \A i \in DOMAIN delivered'[r][s] : delivered'[r][s][i] = i
  <2>1. /\ Len(delivered'[r][s]) = Len(delivered[r][s]) + 1
        /\ DOMAIN delivered'[r][s] = 1 .. Len(delivered[r][s]) + 1
        /\ \A i \in 1 .. Len(delivered[r][s]) : delivered'[r][s][i] = delivered[r][s][i]
        /\ delivered'[r][s][Len(delivered[r][s]) + 1] = Len(delivered[r][s]) + 1
    BY <1>10
  <2>2. \A i \in 1 .. Len(delivered[r][s]) + 1 :
          i \in 1 .. Len(delivered[r][s]) \/ i = Len(delivered[r][s]) + 1
    BY <1>3
  <2> QED
    BY <1>4, <2>1, <2>2
<1>12. /\ Len(next.chunks) = Len(recvMap[r][s].chunks) - 1
       /\ \A c \in DOMAIN next.chunks : next.chunks[c] = Len(delivered[r][s]) + 1 + c
  <2>1. /\ Len(next.chunks) = Len(recvMap[r][s].chunks) - 1
        /\ \A c \in DOMAIN next.chunks : /\ c + 1 \in DOMAIN recvMap[r][s].chunks
                                         /\ next.chunks[c] = recvMap[r][s].chunks[c + 1]
        /\ DOMAIN next.chunks = 1 .. Len(recvMap[r][s].chunks) - 1
    BY <1>3, <1>5, <1>6
  <2>2. \A c \in DOMAIN next.chunks : next.chunks[c] = Len(delivered[r][s]) + (c + 1)
    BY <1>4, <2>1
  <2>3. \A c, d \in Nat : d + (c + 1) = d + 1 + c
    OBVIOUS
  <2>4. \A c \in DOMAIN next.chunks : c \in Nat
    BY <1>3, <2>1
  <2>5. \A c \in DOMAIN next.chunks :
          Len(delivered[r][s]) + (c + 1) = Len(delivered[r][s]) + 1 + c
    BY <1>3, <2>3, <2>4
  <2> QED
    BY <2>1, <2>2, <2>5
<1>13. Posted(s, r)' = Posted(s, r) /\ Fetched(s, r)' = Fetched(s, r)
  <2>1. Fetched(s, r)' = Len(delivered'[r][s]) + Len(next.chunks)
    BY <1>7 DEF Fetched
  <2>2. \A d, n \in Nat : (d + 1) + (n - 1) = d + n
    OBVIOUS
  <2>3. Fetched(s, r)' = (Len(delivered[r][s]) + 1) + (Len(recvMap[r][s].chunks) - 1)
    <3>1. Len(delivered'[r][s]) = Len(delivered[r][s]) + 1
      BY <1>11
    <3>2. Len(next.chunks) = Len(recvMap[r][s].chunks) - 1
      BY <1>12
    <3> QED
      BY <2>1, <3>1, <3>2
  <2>4. Fetched(s, r)' = Len(delivered[r][s]) + Len(recvMap[r][s].chunks)
    BY <1>3, <2>2, <2>3
  <2> QED
    BY <1>2, <2>4 DEF Posted, Fetched
<1>14. Chained(s, r)' /\ Sending(s, r)'
  <2>1. Complete(s, r)' = Complete(s, r)
    BY <1>2 DEF Complete
  <2> QED
    BY <1>1, <1>2, <1>13, <2>1, ChainedKept, SendingKept
<1>15. \A f : Quota(f, s, r)' = Quota(f, s, r)
  BY <1>2 DEF Quota
<1>16. ~(s > s) /\ ~(s < s)
  BY DEF Senders
<1>17. Receiving(s, r)'
  BY <1>2, <1>4, <1>6, <1>7, <1>11, <1>12, <1>13, <1>15, <1>16 DEF Receiving
<1> QED
  BY <1>2, <1>7, <1>10, <1>14, <1>17, OtherReceives

\* The receives from one source are done before those from the next one start.
LEMMA RecvNextSourceStreams ==
  ASSUME Basic, Streams, NEW r \in Receivers, NEW s \in Senders, RecvNextSource(r, s)
  PROVE  Streams'
<1> SUFFICES ASSUME NEW t \in Senders, NEW q \in Receivers
             PROVE  Chained(t, q)' /\ Sending(t, q)' /\ Receiving(t, q)'
  BY DEF Streams
<1>1. TypeOK /\ Chained(t, q) /\ Sending(t, q) /\ Receiving(t, q)
  BY DEF Basic, Streams
<1>2. /\ program' = program /\ sent' = sent /\ network' = network
      /\ sendMap' = sendMap
      /\ delivered' = delivered /\ recvMap' = recvMap
      /\ pc[R(r)] = "in" /\ at[R(r)] = s
      /\ Len(delivered[r][s]) = Quota(epoch[R(r)], s, r)
  BY DEF RecvNextSource
<1>3. /\ epoch'[R(r)] = epoch[R(r)] /\ pc'[R(r)] = "in" /\ at'[R(r)] = s + 1
      /\ q # r => epoch'[R(q)] = epoch[R(q)] /\ pc'[R(q)] = pc[R(q)] /\ at'[R(q)] = at[R(q)]
      /\ epoch'[S(t)] = epoch[S(t)] /\ pc'[S(t)] = pc[S(t)] /\ at'[S(t)] = at[S(t)]
  BY <1>1, <1>2, PETFacts DEF TypeOK, RecvNextSource
<1>4. CASE q # r
  BY <1>1, <1>2, <1>3, <1>4, PairKept
<1>5. CASE q = r
  <2>1. Posted(t, r)' = Posted(t, r) /\ Fetched(t, r)' = Fetched(t, r)
    BY <1>2 DEF Posted, Fetched
  <2>2. \A e : Quota(e, t, r)' = Quota(e, t, r)
    BY <1>2 DEF Quota
  <2>3. Complete(t, r)' = Complete(t, r)
    BY <1>2 DEF Complete
  <2>4. s \in Nat /\ t \in Nat /\ Len(delivered[r][s]) \in Nat
    BY <1>1, PairFacts
  <2>6. /\ s + 1 > t => Len(delivered[r][t]) = Quota(epoch[R(r)], t, r)
        /\ s + 1 < t => recvMap[r][t].firstFlag
    <3>1. s > t => Len(delivered[r][t]) = Quota(epoch[R(r)], t, r)
      BY <1>1, <1>2, <1>5 DEF Receiving
    <3>2. s < t => recvMap[r][t].firstFlag
      BY <1>1, <1>2, <1>5 DEF Receiving
    <3>3. s + 1 > t => s > t \/ s = t
      BY <2>4
    <3>4. s + 1 < t => s < t
      BY <2>4
    <3> QED
      BY <1>2, <3>1, <3>2, <3>3, <3>4
  <2>7. Receiving(t, r)'
    BY <1>1, <1>2, <1>3, <1>5, <2>1, <2>2, <2>6 DEF Receiving
  <2>8. Chained(t, r)' /\ Sending(t, r)'
    BY <1>1, <1>2, <1>3, <1>5, <2>1, <2>3, ChainedKept, SendingKept
  <2> QED
    BY <1>5, <2>7, <2>8
<1> QED
  BY <1>4, <1>5

\* A receiver leaves the epoch when it has received all that was sent in it, so
\* that no buffer it clears holds a message.
LEMMA RecvEpochExitStreams ==
  ASSUME Basic, Streams, NEW r \in Receivers, NEW keep \in ExitKeepAlloc, RecvEpochExit(r, keep)
  PROVE  Streams'
<1> SUFFICES ASSUME NEW s \in Senders, NEW q \in Receivers
             PROVE  Chained(s, q)' /\ Sending(s, q)' /\ Receiving(s, q)'
  BY DEF Streams
<1>1. TypeOK /\ Chained(s, q) /\ Sending(s, q) /\ Receiving(s, q)
  BY DEF Basic, Streams
<1>2. /\ program' = program /\ sent' = sent /\ network' = network
      /\ sendMap' = sendMap
      /\ delivered' = delivered
      /\ pc[R(r)] = "in" /\ at[R(r)] \notin Senders
      /\ recvMap' = recvMap
           \/ recvMap' = [recvMap EXCEPT ![r] = [t \in Senders |-> RecvBuffer]]
  BY DEF RecvEpochExit
<1>3. /\ epoch'[R(r)] = epoch[R(r)] + 1 /\ pc'[R(r)] \in {"out", "done"}
      /\ q # r => epoch'[R(q)] = epoch[R(q)] /\ pc'[R(q)] = pc[R(q)] /\ at'[R(q)] = at[R(q)]
      /\ epoch'[S(s)] = epoch[S(s)] /\ pc'[S(s)] = pc[S(s)] /\ at'[S(s)] = at[S(s)]
  BY <1>1, PETFacts DEF TypeOK, RecvEpochExit, Leave
<1>4. CASE q # r
  <2>1. recvMap'[q][s] = recvMap[q][s]
    BY <1>1, <1>2, <1>4 DEF TypeOK
  <2> QED
    BY <1>1, <1>2, <1>3, <1>4, <2>1, PairKept
<1>5. CASE q = r
  <2>1. /\ at[R(r)] > s /\ at[R(r)] # s
    <3>1. /\ at[R(r)] \in Nat /\ at[R(r)] >= 1 /\ s \in 1 .. NSenders
          /\ NSenders \in Nat
          /\ at[R(r)] \notin 1 .. NSenders
      BY <1>2, PairFacts DEF Basic, InEpoch, Senders
    <3> QED
      BY <3>1
  <2>2. /\ Len(delivered[r][s]) = Quota(epoch[R(r)], s, r)
        /\ ~recvMap[r][s].probed
        /\ \A i \in DOMAIN delivered[r][s] : delivered[r][s][i] = i
    BY <1>1, <1>2, <1>5, <2>1 DEF Receiving
  <2>3. recvMap[r][s].chunks = <<>>
    <3>1. CASE recvMap[r][s].firstFlag
      BY <1>1, <1>5, <3>1 DEF Receiving
    <3>2. CASE ~recvMap[r][s].firstFlag
      <4>1. Fetched(s, r) = Quota(epoch[R(r)], s, r)
        BY <1>1, <1>2, <1>5, <3>2 DEF Receiving
      <4>3. Len(recvMap[r][s].chunks) = 0
        BY <2>2, <4>1 DEF Fetched
      <4> QED
        BY <4>3
    <3> QED
      BY <3>1, <3>2
  <2>4. recvMap'[r][s].chunks = <<>> /\ ~recvMap'[r][s].probed
    <3>1. CASE recvMap' = recvMap
      BY <2>2, <2>3, <3>1
    <3>2. CASE recvMap' = [recvMap EXCEPT ![r] = [t \in Senders |-> RecvBuffer]]
      <4>1. recvMap'[r][s] = RecvBuffer
        BY <1>1, <3>2 DEF TypeOK
      <4> QED
        BY <4>1 DEF RecvBuffer
    <3> QED
      BY <1>2, <3>1, <3>2
  <2>5. Posted(s, r)' = Posted(s, r) /\ Fetched(s, r)' = Fetched(s, r)
    BY <1>2, <2>3, <2>4 DEF Posted, Fetched
  <2>6. \A e : Quota(e, s, r)' = Quota(e, s, r)
    BY <1>2 DEF Quota
  <2>7. Complete(s, r)' = Complete(s, r)
    BY <1>2 DEF Complete
  <2>8. epoch'[R(r)] - 1 = epoch[R(r)]
    <3>1. epoch[R(r)] \in 1 .. NEpochs + 1
      BY <1>1, PairFacts
    <3> QED
      BY <1>3, <3>1
  <2>9. Receiving(s, r)'
    BY <1>2, <1>3, <2>2, <2>4, <2>6, <2>8 DEF Receiving
  <2>10. Chained(s, r)' /\ Sending(s, r)'
    BY <1>1, <1>2, <1>3, <1>5, <2>5, <2>7, ChainedKept, SendingKept
  <2> QED
    BY <1>5, <2>9, <2>10
<1> QED
  BY <1>4, <1>5

\* MPI copies the posted buffers as they are.
LEMMA IsendCompletesStreams ==
  ASSUME Basic, Streams, NEW s \in Senders, NEW r \in Receivers, IsendCompletes(s, r)
  PROVE  Streams'
<1> SUFFICES ASSUME NEW t \in Senders, NEW q \in Receivers
             PROVE  Chained(t, q)' /\ Sending(t, q)' /\ Receiving(t, q)'
  BY DEF Streams
<1>1. TypeOK /\ Chained(t, q) /\ Sending(t, q) /\ Receiving(t, q)
  BY DEF Basic, Streams
<1>2. /\ program' = program /\ sent' = sent /\ sendMap' = sendMap
      /\ delivered' = delivered /\ recvMap' = recvMap
      /\ epoch' = epoch /\ pc' = pc /\ at' = at
      /\ network' = [network EXCEPT ![s][r] = Completed(network[s][r])]
  BY DEF IsendCompletes, Completed
<1>3. CASE ~(t = s /\ q = r)
  <2>1. network'[t][q] = network[t][q]
    BY <1>2, <1>3
  <2> QED
    BY <1>1, <1>2, <2>1, PairKept
<1>4. CASE t = s /\ q = r
  <2>1. /\ network'[s][r] = Completed(network[s][r])
        /\ network[s][r] \in Seq(MPIMessages)
    BY <1>1, <1>2 DEF TypeOK
  <2>2. /\ DOMAIN network'[s][r] = DOMAIN network[s][r]
        /\ \A i \in DOMAIN network[s][r] :
             /\ ~network'[s][r][i].pending
             /\ network'[s][r][i].chunks = network[s][r][i].chunks
    BY <2>1, CompletedFacts
  <2>3. Posted(s, r)' = Posted(s, r) /\ Fetched(s, r)' = Fetched(s, r)
    BY <1>2 DEF Posted, Fetched
  <2>4. \A i : Start(s, r, i)' = Start(s, r, i)
    BY <2>2, <2>3 DEF Start
  <2>5. \A e : Quota(e, s, r)' = Quota(e, s, r)
    BY <1>2 DEF Quota
  <2>6. Chained(s, r)'
    <3>1. ASSUME NEW i \in DOMAIN network'[s][r]
          PROVE  LET chunks == network'[s][r][i].chunks IN
                 /\ chunks # <<>>
                 /\ Start(s, r, i + 1)' = chunks[1] + Len(chunks)
                 /\ \E e \in 1 .. NEpochs :
                      /\ Len(chunks) = Quota(e, s, r)' - Quota(e - 1, s, r)'
                      /\ \A c \in DOMAIN chunks : chunks[c] = Quota(e - 1, s, r)' + c
      <4>1. /\ i \in DOMAIN network[s][r]
            /\ network'[s][r][i].chunks = network[s][r][i].chunks
        BY <2>2
      <4>2. PICK e \in 1 .. NEpochs :
              LET chunks == network[s][r][i].chunks IN
              /\ Len(chunks) = Quota(e, s, r) - Quota(e - 1, s, r)
              /\ \A c \in DOMAIN chunks : chunks[c] = Quota(e - 1, s, r) + c
        BY <1>1, <1>4, <4>1 DEF Chained
      <4>3. LET chunks == network[s][r][i].chunks IN
            chunks # <<>> /\ Start(s, r, i + 1) = chunks[1] + Len(chunks)
        BY <1>1, <1>4, <4>1 DEF Chained
      <4> QED
        BY <2>4, <2>5, <4>1, <4>2, <4>3
    <3>2. Start(s, r, 1)' = Fetched(s, r)' + 1
      BY <1>1, <1>4, <2>3, <2>4 DEF Chained
    <3> QED
      BY <3>1, <3>2 DEF Chained
  <2>7. Complete(s, r)'
    BY <2>2 DEF Complete
  <2>8. Sending(s, r)' /\ Receiving(s, r)'
    BY <1>1, <1>2, <1>4, <2>7, SendingKept, ReceivingKept
  <2> QED
    BY <1>4, <2>6, <2>8
<1> QED
  BY <1>3, <1>4

\* Nothing is under way before the first epoch.
LEMMA InitStreams == Init => Streams
<1> SUFFICES ASSUME Init, NEW s \in Senders, NEW r \in Receivers
             PROVE  Chained(s, r) /\ Sending(s, r) /\ Receiving(s, r)
  BY DEF Streams
<1>1. TypeOK
  BY InitBasic DEF Basic
<1>2. /\ sendMap[s][r] = SendBuffer /\ sent[s][r] = 0 /\ network[s][r] = <<>>
      /\ recvMap[r][s] = RecvBuffer /\ delivered[r][s] = <<>>
      /\ epoch[S(s)] - 1 = 0 /\ epoch[R(r)] - 1 = 0
      /\ pc[S(s)] \notin {"in", "exit"} /\ pc[R(r)] # "in"
  BY PETFacts DEF Init
<1>3. Quota(0, s, r) = 0
  BY <1>1, QuotaFacts
<1>4. /\ SendBuffer.charBuffer = <<>> /\ RecvBuffer.chunks = <<>>
      /\ ~RecvBuffer.probed
  BY DEF SendBuffer, RecvBuffer
<1>5. Posted(s, r) = 0 /\ Fetched(s, r) = 0
  <2>1. Posted(s, r) = 0 - 0 /\ Fetched(s, r) = 0 + 0
    BY <1>2, <1>4 DEF Posted, Fetched
  <2> QED
    BY <2>1
<1>6. Chained(s, r)
  BY <1>2, <1>5 DEF Chained, Start
<1>7. Sending(s, r)
  BY <1>2, <1>3, <1>4, <1>5 DEF Sending, Complete
<1>8. Receiving(s, r)
  BY <1>2, <1>3, <1>4 DEF Receiving
<1> QED
  BY <1>6, <1>7, <1>8

\* No step of a program that keeps its buffers, and whose sizes need no padding,
\* breaks a stream.
LEMMA NextStreams ==
  ASSUME KeepAlloc \subseteq {TRUE}, Padding \subseteq {FALSE}
  PROVE  Basic /\ Streams /\ [Next]_vars => Streams'
<1> SUFFICES ASSUME Basic, Streams, [Next]_vars
             PROVE  Streams'
  OBVIOUS
<1>1. CASE UNCHANGED vars
  <2> SUFFICES ASSUME NEW s \in Senders, NEW r \in Receivers
               PROVE  Chained(s, r)' /\ Sending(s, r)' /\ Receiving(s, r)'
    BY DEF Streams
  <2>1. Chained(s, r) /\ Sending(s, r) /\ Receiving(s, r)
    BY DEF Streams
  <2> QED
    BY <1>1, <2>1, PairKept DEF vars
<1>2. ASSUME NEW s \in Senders, SenderNext(s)
      PROVE  Streams'
  BY <1>2, EpochEnterStreams, EpochExitStreams, EpochExitedStreams, SendStreams,
     ThrottleWaitStreams, EpochFinalStreams, PostStreams
     DEF SenderNext
<1>3. ASSUME NEW r \in Receivers, ReceiverNext(r)
      PROVE  Streams'
  BY <1>3, RecvEpochEnterStreams, RecvEpochExitStreams, ProbeStreams,
     RecvBufferedStreams, RecvChunkStreams, RecvNextSourceStreams
     DEF ReceiverNext
<1>4. ASSUME NEW s \in Senders, NEW r \in Receivers, IsendCompletes(s, r)
      PROVE  Streams'
  BY <1>4, IsendCompletesStreams
<1> QED
  BY <1>1, <1>2, <1>3, <1>4 DEF Next, Finished

\* Where the buffers are kept and need no padding, every receive returns what the
\* matching send was given, whatever the epochs, the throttle and MPI's pace.
THEOREM StreamsDeliver ==
  ASSUME KeepAlloc \subseteq {TRUE}, Padding \subseteq {FALSE}
  PROVE  Spec => []DeliveredInOrder
<1>1. Init => Basic /\ Streams
  BY InitBasic, InitStreams
<1>2. Basic /\ Streams /\ [Next]_vars => Basic' /\ Streams'
  BY NextBasic, NextStreams
<1>3. Basic /\ Streams => DeliveredInOrder
  BY DEF Streams, Receiving, DeliveredInOrder
<1> QED
  BY <1>1, <1>2, <1>3, PTL DEF Spec
=============================================================================
