----------------------------- MODULE MCVMEpoch -----------------------------
(* Model checking of VMEpoch: programs of one pair of PETs and of a mesh. *)
EXTENDS VMEpoch

\* The program in which each of the pairs has n[e] messages in epoch e.
Traffic(n, pairs) ==
  LET upTo[e \in 0 .. NEpochs] == IF e = 0 THEN 0 ELSE upTo[e - 1] + n[e]
  IN  [e \in 0 .. NEpochs |-> [s \in Senders |-> [r \in Receivers |->
         IF <<s, r>> \in pairs THEN upTo[e] ELSE 0]]]

\* One pair, with up to two messages in each epoch.
PairPrograms ==
  {Traffic(n, {<<1, 1>>}) : n \in [1 .. NEpochs -> 0 .. 2]}

\* Every sender has a message for every receiver in every epoch.
MeshPrograms == {Traffic([e \in 1 .. NEpochs |-> 1], Senders \X Receivers)}

PairAndMesh == PairPrograms \cup MeshPrograms
=============================================================================
