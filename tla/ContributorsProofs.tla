------------------------- MODULE ContributorsProofs -------------------------
(***************************************************************************)
(* The contributor of a child is back in user code only after the child    *)
(* has left its own, and no signal is missed, for every number of PETs,    *)
(* processes and rounds.                                                   *)
(*                                                                         *)
(* Everything that happens once per round is counted for each contributor: *)
(* how often it has entered, has sent its handshake, has been heard by the *)
(* spawner, its child has been released and has returned from user code,   *)
(* has sent it a message, and its blocker has been woken.  The invariant   *)
(* is that none of these counts gets ahead of the one before it, that the  *)
(* last is at most one behind the first, and what is under way between     *)
(* two of them.                                                            *)
(***************************************************************************)
EXTENDS Contributors, Integers, FiniteSetTheorems, WellFoundedInduction, TLAPS

\* How often the spawner has heard contributor k, and has released child c.
Heard(k) == IF spc = "handshake" /\ turn <= k THEN round[0] - 1 ELSE round[0]
Released(c) ==
  IF spc = "handshake" \/ (spc = "release" /\ turn <= c) THEN round[0] - 1 ELSE round[0]

\* How often contributor k has released its sigcatcher, and has sent its handshake.
Watched(k) == IF kpc[k] = "releaseCatcher" THEN round[k] - 1 ELSE round[k]
Told(k) == IF kpc[k] \in {"releaseCatcher", "handshake"} THEN round[k] - 1 ELSE round[k]

\* How often its child has sent a signal to contributor k, and has sent a message.
ToSignal(k) ==
  LET c == ChildOf[k] IN
  \/ cpc[c] = "kill" /\ serving[c] <= k
  \/ cpc[c] \in {"send", "sent"} /\ serving[c] < k
Signalled(k) == IF ToSignal(k) THEN returned[ChildOf[k]] - 1 ELSE returned[ChildOf[k]]
ToSend(k) == ToSignal(k) \/ (cpc[ChildOf[k]] = "send" /\ serving[ChildOf[k]] = k)
Mailed(k) == IF ToSend(k) THEN returned[ChildOf[k]] - 1 ELSE returned[ChildOf[k]]

\* How often the blocker of contributor k has been woken.
Woken(k) == IF bpc[k] \in {"released", "blocked"} THEN round[k] - 1 ELSE round[k]

\* The message for contributor k is with sigcatcher j, or under way.
With(j, k) == gpc[j] = "wake" /\ got[j] = k
Underway(k) == k \in mail[Process[k]] \/ \E j \in Contribs : With(j, k)

\* The contributors of process p whose sigcatcher is at a place, those that will
\* still be signalled, and the children that owe the process a message.
At(p, place) == {k \in Contribs : Process[k] = p /\ gpc[k] = place}
Unsignalled(p) == {k \in Contribs : Process[k] = p /\ Signalled(k) < Watched(k)}
Owing(p) == {c \in Children : cpc[c] = "send" /\ Process[serving[c]] = p}

-----------------------------------------------------------------------------
\* Typing but for the bound on the pending signals, which is a matter of counting.
Typed ==
  /\ buffered \in BOOLEAN /\ serialize \in BOOLEAN
  /\ round \in [PETs -> 0 .. MaxRounds]
  /\ kpc \in [Contribs -> {"user", "releaseCatcher", "handshake", "exit",
                           "catchCatcher", "catchBlocker", "barrier"}]
  /\ handshake \in [Contribs -> BOOLEAN]
  /\ cpc \in [Children -> {"parked", "callback", "kill", "send", "sent", "finish"}]
  /\ serving \in [Children -> 0 .. NContribs]
  /\ gpc \in [Contribs -> {"parked", "sigwait", "recv", "wake", "finish"}]
  /\ got \in [Contribs -> 0 .. NContribs]
  /\ bpc \in [Contribs -> {"parked", "released", "blocked", "woken", "finish"}]
  /\ pending \in [Processes -> Nat]
  /\ mail \in [Processes -> SUBSET Contribs]
  /\ returned \in [Children -> Nat]

\* The spawner serves contributors, then children, in the order of their numbers.
Turns ==
  /\ spc \in {"user", "handshake", "release", "exit", "catch", "barrier"}
  /\ spc = "handshake" => turn \in Contribs
  /\ spc \in {"release", "catch"} => turn \in Children
  /\ spc \in {"user", "exit", "barrier"} => turn = 1
  /\ spc # "user" => round[0] > 0

\* A child is with its parent exactly while it is neither released nor caught.
Parked ==
  \A c \in Children :
    cpc[c] = "parked" <=>
      \/ spc \in {"user", "handshake", "barrier"}
      \/ spc = "release" /\ turn <= c
      \/ spc = "catch" /\ c < turn

\* The blocker and the sigcatcher of a contributor are parked while it holds them.
Held ==
  \A k \in Contribs :
    /\ bpc[k] = "parked" <=> kpc[k] \in {"barrier", "user"}
    /\ gpc[k] = "parked" <=> kpc[k] \in {"user", "releaseCatcher", "catchBlocker", "barrier"}

\* A child signals and serves its own contributors only.
Serving ==
  \A c \in Children :
    cpc[c] \in {"kill", "send", "sent"} => serving[c] \in Contribs /\ ChildOf[serving[c]] = c

\* A message stays in the process it was sent to, and is in one place.
Delivered ==
  /\ \A p \in Processes : \A k \in mail[p] : Process[k] = p
  /\ \A j \in Contribs : gpc[j] = "wake" => got[j] \in Contribs /\ Process[got[j]] = Process[j]
  /\ \A j, k \in Contribs : With(j, k) => k \notin mail[Process[k]]
  /\ \A i, j, k \in Contribs : With(i, k) /\ With(j, k) => i = j

\* What the counts of a round have to do with each other.
Counted ==
  /\ \A k \in Contribs :
       /\ Told(k) = Heard(k) + (IF handshake[k] THEN 1 ELSE 0)
       /\ Mailed(k) = Woken(k) + (IF Underway(k) THEN 1 ELSE 0)
  /\ \A c \in Children : returned[c] = Released(c) - (IF cpc[c] = "callback" THEN 1 ELSE 0)

\* Where the signals and messages of a process are.
Matched ==
  \A p \in Processes :
    /\ pending[p] + Cardinality(At(p, "recv")) = Cardinality(Owing(p)) + Cardinality(mail[p])
    /\ Cardinality(At(p, "sigwait")) = pending[p] + Cardinality(Unsignalled(p))

IInv ==
  /\ Typed /\ Turns /\ Parked /\ Held /\ Serving /\ Delivered /\ Counted
  /\ IF Queued THEN Matched
     ELSE \A p \in Processes : pending[p] <= 1 /\ pending[p] <= NContribs

-----------------------------------------------------------------------------
\* A set of natural numbers that is not empty has a least element.
LEMMA LeastExists ==
  ASSUME NEW S \in SUBSET Nat, S # {}
  PROVE  \E n \in S : \A m \in S : n <= m
<1> DEFINE R == OpToRel(<, Nat)
<1>1. \A m, n \in Nat : m < n => <<m, n>> \in R
  BY DEF OpToRel
<1>2. IsWellFoundedOn(R, Nat)
  BY NatLessThanWellFounded
<1> HIDE DEF R
<1>3. PICK n \in S : \A m \in S : ~ (<<m, n>> \in R)
  BY <1>2, WFMin
<1>4. \A m \in S : ~ (m < n)
  BY <1>1, <1>3
<1> QED
  BY <1>4

\* What the CHOOSE of Following finds.
LEMMA FollowingFacts ==
  ASSUME NEW c \in Children, NEW k \in Nat
  PROVE  \/ /\ Following(c, k) = 0
            /\ \A j \in Contribs : ChildOf[j] = c => j <= k
         \/ /\ Following(c, k) \in Contribs
            /\ ChildOf[Following(c, k)] = c
            /\ k < Following(c, k)
            /\ \A j \in Contribs : ChildOf[j] = c /\ k < j => Following(c, k) <= j
<1>1. Nexts(c, k) \in SUBSET Nat
  BY ContributorsAssumption DEF Nexts, Contribs
<1>2. CASE Nexts(c, k) = {}
  <2>1. \A j \in Contribs : ChildOf[j] = c => ~ (j > k)
    BY <1>2 DEF Nexts
  <2>2. \A j \in Contribs : j \in Nat
    BY ContributorsAssumption DEF Contribs
  <2> QED
    BY <1>2, <2>1, <2>2 DEF Following
<1>3. CASE Nexts(c, k) # {}
  <2>1. \E j \in Nexts(c, k) : \A i \in Nexts(c, k) : j <= i
    BY <1>1, <1>3, LeastExists
  <2>2. Following(c, k) \in Nexts(c, k)
        /\ \A i \in Nexts(c, k) : Following(c, k) <= i
    BY <2>1 DEF Following
  <2> QED
    BY <2>2 DEF Nexts
<1> QED
  BY <1>2, <1>3

\* What the assumption says of the constants.
LEMMA ConstantFacts ==
  /\ NChildren \in Nat /\ NChildren > 0 /\ NContribs \in Nat /\ MaxRounds \in Nat
  /\ Contribs = 1 .. NContribs /\ Children = 1 .. NChildren
  /\ 0 \in PETs /\ 0 \notin Contribs /\ Contribs \subseteq PETs
  /\ \A k \in Contribs : k \in Int /\ k > 0 /\ k <= NContribs
                         /\ ChildOf[k] \in Children /\ Process[k] \in Processes
  /\ \A c \in Children : c \in Int /\ c > 0 /\ c <= NChildren
  /\ 1 \in Children /\ (Contribs # {} => 1 \in Contribs)
BY ContributorsAssumption DEF Contribs, Children, PETs, Processes

\* The parts of the invariant that do not count the signals.
Flow == Typed /\ Turns /\ Parked /\ Held /\ Serving /\ Delivered /\ Counted

\* No count of a round is ahead of the one before it, and the last one is at most
\* one behind the first.
LEMMA Ahead ==
  ASSUME Flow, NEW k \in Contribs
  PROVE  /\ round[k] \in Int /\ round[0] \in Int /\ returned[ChildOf[k]] \in Int
         /\ Heard(k) \in Int /\ Released(ChildOf[k]) \in Int /\ Watched(k) \in Int
         /\ Told(k) \in Int /\ Signalled(k) \in Int /\ Mailed(k) \in Int /\ Woken(k) \in Int
         /\ round[k] - 1 <= Woken(k) /\ Woken(k) <= Mailed(k) /\ Mailed(k) <= Signalled(k)
         /\ Signalled(k) <= returned[ChildOf[k]]
         /\ returned[ChildOf[k]] <= Released(ChildOf[k]) /\ Released(ChildOf[k]) <= Heard(k)
         /\ Heard(k) <= Told(k) /\ Told(k) <= Watched(k) /\ Watched(k) <= round[k]
<1>1. /\ round[k] \in Int /\ round[0] \in Int /\ returned[ChildOf[k]] \in Int
      /\ ChildOf[k] \in Children
  <2>1. k \in PETs /\ 0 \in PETs /\ ChildOf[k] \in Children
    BY ConstantFacts
  <2>2. round[k] \in 0 .. MaxRounds /\ round[0] \in 0 .. MaxRounds
    BY <2>1 DEF Flow, Typed
  <2>3. returned[ChildOf[k]] \in Nat
    BY <2>1 DEF Flow, Typed
  <2> QED
    BY <2>1, <2>2, <2>3
<1>2. /\ Watched(k) \in Int /\ Told(k) \in Int /\ Woken(k) \in Int
      /\ round[k] - 1 <= Woken(k) /\ Told(k) <= Watched(k) /\ Watched(k) <= round[k]
  BY <1>1 DEF Watched, Told, Woken
<1>3. /\ Heard(k) \in Int /\ Released(ChildOf[k]) \in Int
      /\ Released(ChildOf[k]) <= Heard(k)
  BY <1>1 DEF Heard, Released
<1>4. /\ Signalled(k) \in Int /\ Mailed(k) \in Int
      /\ Mailed(k) <= Signalled(k) /\ Signalled(k) <= returned[ChildOf[k]]
  BY <1>1 DEF Signalled, Mailed, ToSend
<1>5. Woken(k) <= Mailed(k) /\ Heard(k) <= Told(k)
  BY <1>2, <1>3 DEF Flow, Counted
<1>6. returned[ChildOf[k]] <= Released(ChildOf[k])
  BY <1>1, <1>3 DEF Flow, Counted
<1> QED
  BY <1>1, <1>2, <1>3, <1>4, <1>5, <1>6

\* What the assumption says of one contributor.
LEMMA ContribFacts ==
  ASSUME NEW k \in Contribs
  PROVE  /\ k \in PETs /\ k # 0 /\ 0 \in PETs /\ Process[k] \in Processes
         /\ k \in Nat /\ 1 <= k /\ k <= NContribs /\ Contribs # {}
         /\ ChildOf[k] \in Children /\ MaxRounds \in Nat
BY ConstantFacts

\* What the counts of contributor j have to do with each other.
LEMMA CountsOf ==
  ASSUME Flow, NEW j \in Contribs
  PROVE  /\ j \in PETs /\ 0 \in PETs /\ j # 0 /\ j \in Int /\ 1 <= j
         /\ ChildOf[j] \in Children
         /\ Told(j) = Heard(j) + (IF handshake[j] THEN 1 ELSE 0)
         /\ Mailed(j) = Woken(j) + (IF Underway(j) THEN 1 ELSE 0)
BY ContribFacts DEF Flow, Counted

\* A contributor that is through its blocker was woken in this round, and the
\* returns of its child are counted before that.
LEMMA CoresAreReturned ==
  ASSUME Flow
  PROVE  CoresReturned
<1> SUFFICES ASSUME NEW k \in Contribs,
                    kpc[k] \in {"barrier", "user"} \/ bpc[k] \in {"woken", "finish"}
             PROVE  returned[ChildOf[k]] >= round[k]
  BY DEF CoresReturned
<1>1. Woken(k) = round[k]
  BY DEF Flow, Held, Woken
<1> QED
  BY <1>1, Ahead

\* The spawner enters: a new round, of which it has heard nobody yet.
LEMMA SpawnerEnterFlow ==
  ASSUME Flow, SpawnerEnter
  PROVE  Flow'
<1>0. /\ spc = "user" /\ turn = 1 /\ turn' = turn /\ round[0] \in Nat
      /\ 0 \in PETs
      /\ spc' = (IF Contribs = {} THEN "release" ELSE "handshake")
      /\ round' = [round EXCEPT ![0] = @ + 1] /\ cpc' = cpc /\ returned' = returned
  BY ConstantFacts DEF Flow, Typed, Turns, SpawnerEnter
<1>r. round'[0] = round[0] + 1
  BY <1>0 DEF Flow, Typed
<1>1. Typed'
  <2>1. /\ round \in [PETs -> 0 .. MaxRounds] /\ MaxRounds \in Nat
        /\ round[0] < MaxRounds
    BY ConstantFacts DEF Flow, Typed, SpawnerEnter
  <2>2. round[0] + 1 \in 0 .. MaxRounds
    BY <1>0, <2>1
  <2>3. round' \in [PETs -> 0 .. MaxRounds]
    BY <1>0, <2>1, <2>2
  <2> QED
    BY <2>3 DEF Flow, Typed, SpawnerEnter, Catcher, Posts, Modes
<1>2. Turns'
  BY <1>0, <1>r, ConstantFacts DEF Turns
<1>3. Parked'
  BY <1>0, ConstantFacts DEF Flow, Parked
<1>4. Held' /\ Serving' /\ Delivered'
  BY DEF Flow, Held, Serving, Delivered, With, SpawnerEnter, Catcher, Posts
<1>5. ASSUME NEW j \in Contribs
      PROVE  /\ Told(j)' = Heard(j)' + (IF handshake'[j] THEN 1 ELSE 0)
             /\ Mailed(j)' = Woken(j)' + (IF Underway(j)' THEN 1 ELSE 0)
  <2>Same. /\ Mailed(j)' = Mailed(j) /\ Underway(j)' = Underway(j)
           /\ handshake'[j] = handshake[j]
    BY DEF Mailed, Underway, ToSend, ToSignal, With, SpawnerEnter, Catcher, Posts
  <2>Told. Told(j)' = Told(j)
    BY CountsOf DEF Told, SpawnerEnter
  <2>Heard. Heard(j)' = Heard(j)
    BY <1>0, <1>r, ConstantFacts DEF Heard
  <2>Woken. Woken(j)' = Woken(j)
    BY CountsOf DEF Woken, SpawnerEnter
  <2> QED
    BY CountsOf, <2>Told, <2>Heard, <2>Same, <2>Woken
<1>6. ASSUME NEW d \in Children
      PROVE  returned'[d] = Released(d)' - (IF cpc'[d] = "callback" THEN 1 ELSE 0)
  <2>1. /\ returned[d] = Released(d) - (IF cpc[d] = "callback" THEN 1 ELSE 0)
        /\ d \in Int
    BY ConstantFacts DEF Flow, Counted
  <2>2. Released(d)' = Released(d)
    BY <1>0, <1>r, ConstantFacts DEF Released
  <2> QED
    BY <1>0, <2>1, <2>2
<1> QED
  BY <1>1, <1>2, <1>3, <1>4, <1>5, <1>6 DEF Flow, Counted

\* The spawner hears the contributor whose turn it is, which has told it once more.
LEMMA RecvHandshakeFlow ==
  ASSUME Flow, RecvHandshake
  PROVE  Flow'
<1>1. Typed'
  <2>1. handshake' \in [Contribs -> BOOLEAN]
    BY ConstantFacts DEF Flow, Typed, Turns, RecvHandshake
  <2> QED
    BY <2>1 DEF Flow, Typed, RecvHandshake, Catcher, Posts, Modes
<1>2. Turns'
  BY ConstantFacts DEF Flow, Turns, RecvHandshake
<1>3. Parked'
  BY ConstantFacts DEF Flow, Parked, RecvHandshake
<1>4. Held' /\ Serving' /\ Delivered'
  BY DEF Flow, Held, Serving, Delivered, With, RecvHandshake, Catcher, Posts
<1>5. ASSUME NEW j \in Contribs
      PROVE  /\ Told(j)' = Heard(j)' + (IF handshake'[j] THEN 1 ELSE 0)
             /\ Mailed(j)' = Woken(j)' + (IF Underway(j)' THEN 1 ELSE 0)
  <2>Same. /\ Told(j)' = Told(j) /\ Mailed(j)' = Mailed(j)
           /\ Woken(j)' = Woken(j) /\ Underway(j)' = Underway(j)
    BY DEF Told, Mailed, Woken, Underway, ToSend, ToSignal, With, RecvHandshake,
           Catcher, Posts
  <2>Heard. Heard(j)' = Heard(j) + (IF j = turn THEN 1 ELSE 0)
    <3>1. /\ turn \in Int /\ turn <= NContribs /\ j <= NContribs
          /\ NContribs \in Int /\ round[0] \in Int
      BY CountsOf, ConstantFacts DEF Flow, Typed, Turns, RecvHandshake
    <3> QED
      BY CountsOf, <3>1 DEF Heard, RecvHandshake
  <2>Shake. /\ handshake[turn]
            /\ handshake'[j] = IF j = turn THEN FALSE ELSE handshake[j]
    BY DEF Flow, Typed, RecvHandshake
  <2> QED
    BY CountsOf, <2>Same, <2>Heard, <2>Shake, Ahead
<1>6. ASSUME NEW d \in Children
      PROVE  returned'[d] = Released(d)' - (IF cpc'[d] = "callback" THEN 1 ELSE 0)
  <2>1. returned[d] = Released(d) - (IF cpc[d] = "callback" THEN 1 ELSE 0)
    BY DEF Flow, Counted
  <2>2. Released(d)' = Released(d)
    BY ConstantFacts DEF Released, RecvHandshake
  <2>3. returned'[d] = returned[d] /\ (cpc'[d] = "callback" <=> cpc[d] = "callback")
    BY DEF RecvHandshake, Catcher, Posts
  <2> QED
    BY <2>1, <2>2, <2>3
<1> QED
  BY <1>1, <1>2, <1>3, <1>4, <1>5, <1>6 DEF Flow, Counted

\* The spawner releases the child whose turn it is, after all handshakes.
LEMMA ReleaseChildFlow ==
  ASSUME Flow, ReleaseChild
  PROVE  Flow'
<1>0. /\ turn \in Int /\ turn \in Children /\ round[0] \in Int
      /\ \A d \in Children : d \in Int /\ d > 0 /\ d <= NChildren
      /\ NChildren \in Int /\ spc = "release" /\ cpc[turn] = "parked"
      /\ \A d \in Children : cpc'[d] = IF d = turn THEN "callback" ELSE cpc[d]
      /\ IF turn < NChildren THEN turn' = turn + 1 /\ spc' = spc
                             ELSE turn' = 1 /\ spc' = "exit"
  BY ConstantFacts DEF Flow, Typed, Turns, ReleaseChild
<1>1. Typed'
  <2>1. cpc' \in [Children -> {"parked", "callback", "kill", "send", "sent", "finish"}]
    BY <1>0 DEF Flow, Typed, ReleaseChild
  <2> QED
    BY <2>1 DEF Flow, Typed, ReleaseChild, Catcher, Posts, Modes
<1>2. Turns'
  <2>1. round[0] > 0 /\ round' = round
    BY DEF Flow, Turns, ReleaseChild
  <2>2. turn < NChildren => turn + 1 \in Children
    BY <1>0, ConstantFacts
  <2> QED
    BY <1>0, <2>1, <2>2 DEF Turns
<1>3. Parked'
  BY <1>0 DEF Flow, Parked
<1>4. Serving'
  BY DEF Flow, Serving, ReleaseChild
<1>5. Held' /\ Delivered'
  BY DEF Flow, Held, Delivered, With, ReleaseChild, Catcher, Posts
<1>6. ASSUME NEW j \in Contribs
      PROVE  /\ Told(j)' = Heard(j)' + (IF handshake'[j] THEN 1 ELSE 0)
             /\ Mailed(j)' = Woken(j)' + (IF Underway(j)' THEN 1 ELSE 0)
  <2>Same. /\ Told(j)' = Told(j) /\ Woken(j)' = Woken(j)
           /\ Underway(j)' = Underway(j) /\ handshake'[j] = handshake[j]
    BY DEF Told, Woken, Underway, With, ReleaseChild, Catcher, Posts
  <2>Heard. Heard(j)' = Heard(j)
    BY DEF Heard, ReleaseChild
  <2>Mailed. Mailed(j)' = Mailed(j)
    BY DEF Mailed, ToSend, ToSignal, ReleaseChild
  <2> QED
    BY CountsOf, <2>Same, <2>Heard, <2>Mailed
<1>7. ASSUME NEW d \in Children
      PROVE  returned'[d] = Released(d)' - (IF cpc'[d] = "callback" THEN 1 ELSE 0)
  <2>1. returned[d] = Released(d) - (IF cpc[d] = "callback" THEN 1 ELSE 0)
    BY DEF Flow, Counted
  <2>2. Released(d)' = Released(d) + (IF d = turn THEN 1 ELSE 0)
    BY <1>0 DEF Released, ReleaseChild
  <2>3. /\ returned'[d] = returned[d]
        /\ cpc'[d] = (IF d = turn THEN "callback" ELSE cpc[d])
    BY <1>0 DEF ReleaseChild
  <2>4. Released(d) \in Int
    BY <1>0 DEF Released
  <2> QED
    BY <1>0, <2>1, <2>2, <2>3, <2>4
<1> QED
  BY <1>1, <1>2, <1>3, <1>4, <1>5, <1>6, <1>7 DEF Flow, Counted

\* The spawner moves on in VMK::exit: nothing is counted.
LEMMA SpawnerExitFlow ==
  ASSUME Flow, SpawnerExit
  PROVE  Flow'
<1>1. Typed'
  BY DEF Flow, Typed, SpawnerExit, Catcher, Posts, Modes
<1>2. Turns'
  BY ConstantFacts DEF Flow, Turns, SpawnerExit
<1>3. Parked'
  BY ConstantFacts DEF Flow, Turns, Parked, SpawnerExit
<1>4. Held' /\ Serving' /\ Delivered'
  BY DEF Flow, Held, Serving, Delivered, With, SpawnerExit, Catcher, Posts
<1>5. ASSUME NEW j \in Contribs
      PROVE  /\ Told(j)' = Heard(j)' + (IF handshake'[j] THEN 1 ELSE 0)
             /\ Mailed(j)' = Woken(j)' + (IF Underway(j)' THEN 1 ELSE 0)
  <2>Same. /\ Told(j)' = Told(j) /\ Mailed(j)' = Mailed(j)
           /\ Woken(j)' = Woken(j) /\ Underway(j)' = Underway(j)
           /\ handshake'[j] = handshake[j]
    BY DEF Told, Mailed, Woken, Underway, ToSend, ToSignal, With, SpawnerExit, Catcher,
           Posts
  <2>Heard. Heard(j)' = Heard(j)
    BY CountsOf DEF Heard, SpawnerExit
  <2> QED
    BY CountsOf, <2>Same, <2>Heard
<1>6. ASSUME NEW d \in Children
      PROVE  returned'[d] = Released(d)' - (IF cpc'[d] = "callback" THEN 1 ELSE 0)
  <2>1. returned[d] = Released(d) - (IF cpc[d] = "callback" THEN 1 ELSE 0)
    BY DEF Flow, Counted
  <2>2. Released(d)' = Released(d)
    BY ConstantFacts DEF Released, SpawnerExit
  <2>3. returned'[d] = returned[d] /\ (cpc'[d] = "callback" <=> cpc[d] = "callback")
    BY DEF SpawnerExit, Catcher, Posts
  <2> QED
    BY <2>1, <2>2, <2>3
<1> QED
  BY <1>1, <1>2, <1>3, <1>4, <1>5, <1>6 DEF Flow, Counted

\* A contributor enters and releases its blocker: it has entered once more, and has
\* neither released its sigcatcher nor sent its handshake nor been woken in this round.
LEMMA ReleaseBlockerFlow ==
  ASSUME Flow, NEW k \in Contribs, ReleaseBlocker(k)
  PROVE  Flow'
<1>k. /\ k \in PETs /\ k # 0 /\ 0 \in PETs /\ Process[k] \in Processes
      /\ MaxRounds \in Nat
  BY ContribFacts
<1>1. Typed'
  <2>1. kpc' \in [Contribs -> {"user", "releaseCatcher", "handshake", "exit",
                           "catchCatcher", "catchBlocker", "barrier"}]
    BY DEF Flow, Typed, ReleaseBlocker, Step
  <2>2. round' \in [PETs -> 0 .. MaxRounds]
    BY <1>k DEF Flow, Typed, ReleaseBlocker
  <2>3. bpc' \in [Contribs -> {"parked", "released", "blocked", "woken", "finish"}]
    BY DEF Flow, Typed, ReleaseBlocker
  <2> QED
    BY <2>1, <2>2, <2>3 DEF Flow, Typed, ReleaseBlocker, Catcher, Posts, Modes
<1>2. Turns'
  BY <1>k DEF Flow, Turns, ReleaseBlocker, Spawner
<1>3. Held'
  BY DEF Flow, Typed, Held, ReleaseBlocker, Step, Catcher
<1>4. Parked' /\ Serving' /\ Delivered'
  BY DEF Flow, Parked, Serving, Delivered, With, ReleaseBlocker, Step, Spawner, Catcher,
         Posts
<1>5. ASSUME NEW j \in Contribs
      PROVE  /\ Told(j)' = Heard(j)' + (IF handshake'[j] THEN 1 ELSE 0)
             /\ Mailed(j)' = Woken(j)' + (IF Underway(j)' THEN 1 ELSE 0)
  <2>Same. /\ Mailed(j)' = Mailed(j) /\ Underway(j)' = Underway(j)
           /\ handshake'[j] = handshake[j]
    BY DEF Mailed, Underway, ToSend, ToSignal, With, ReleaseBlocker, Step, Spawner,
           Catcher, Posts
  <2>Told. Told(j)' = Told(j)
    BY CountsOf DEF Flow, Typed, Told, ReleaseBlocker, Step
  <2>Heard. Heard(j)' = Heard(j)
    <3>1. round'[0] = round[0]
      BY <1>k DEF ReleaseBlocker
    <3> QED
      BY <3>1 DEF Heard, ReleaseBlocker, Spawner
  <2>Woken. Woken(j)' = Woken(j)
    BY CountsOf DEF Flow, Typed, Woken, ReleaseBlocker
  <2> QED
    BY CountsOf, <2>Told, <2>Heard, <2>Same, <2>Woken
<1>6. ASSUME NEW d \in Children
      PROVE  returned'[d] = Released(d)' - (IF cpc'[d] = "callback" THEN 1 ELSE 0)
  <2>1. returned[d] = Released(d) - (IF cpc[d] = "callback" THEN 1 ELSE 0)
    BY DEF Flow, Counted
  <2>2. Released(d)' = Released(d)
    <3>1. round'[0] = round[0]
      BY <1>k DEF ReleaseBlocker
    <3> QED
      BY <3>1 DEF Released, ReleaseBlocker, Spawner
  <2>3. returned'[d] = returned[d] /\ (cpc'[d] = "callback" <=> cpc[d] = "callback")
    BY DEF ReleaseBlocker, Step, Spawner, Catcher, Posts
  <2> QED
    BY <2>1, <2>2, <2>3
<1> QED
  BY <1>1, <1>2, <1>3, <1>4, <1>5, <1>6 DEF Flow, Counted

\* A contributor releases its sigcatcher: nothing that Flow speaks of is counted.
LEMMA ReleaseCatcherFlow ==
  ASSUME Flow, NEW k \in Contribs, ReleaseCatcher(k)
  PROVE  Flow'
<1>1. Typed'
  <2>1. kpc' \in [Contribs -> {"user", "releaseCatcher", "handshake", "exit",
                           "catchCatcher", "catchBlocker", "barrier"}]
    BY DEF Flow, Typed, ReleaseCatcher, Step
  <2>2. gpc' \in [Contribs -> {"parked", "sigwait", "recv", "wake", "finish"}]
    BY DEF Flow, Typed, ReleaseCatcher
  <2> QED
    BY <2>1, <2>2 DEF Flow, Typed, ReleaseCatcher, Posts, Modes
<1>2. Held'
  <2>1. ASSUME NEW j \in Contribs
        PROVE  /\ kpc'[j] = IF j = k THEN "handshake" ELSE kpc[j]
               /\ gpc'[j] = IF j = k THEN "sigwait" ELSE gpc[j]
               /\ bpc'[j] = bpc[j]
    BY DEF Flow, Typed, ReleaseCatcher, Step
  <2> QED
    BY <2>1 DEF Flow, Held, ReleaseCatcher, Step
<1>3. Delivered'
  <2>1. \A i, j \in Contribs : With(i, j)' => With(i, j)
    BY DEF Flow, Typed, With, ReleaseCatcher
  <2>2. mail' = mail /\ got' = got /\ \A j \in Contribs : gpc'[j] = "wake" => gpc[j] = "wake"
    BY DEF Flow, Typed, ReleaseCatcher, Posts
  <2> QED
    BY <2>1, <2>2 DEF Flow, Delivered
<1>4. Turns' /\ Parked' /\ Serving'
  BY DEF Flow, Turns, Parked, Serving, ReleaseCatcher, Step, Spawner, Posts
<1>5. ASSUME NEW j \in Contribs
      PROVE  /\ Told(j)' = Heard(j)' + (IF handshake'[j] THEN 1 ELSE 0)
             /\ Mailed(j)' = Woken(j)' + (IF Underway(j)' THEN 1 ELSE 0)
  <2>Same. /\ Heard(j)' = Heard(j) /\ Mailed(j)' = Mailed(j)
           /\ Woken(j)' = Woken(j) /\ handshake'[j] = handshake[j]
    BY DEF Heard, Mailed, Woken, ToSend, ToSignal, ReleaseCatcher, Step, Spawner, Posts
  <2>Told. Told(j)' = Told(j)
    BY DEF Told, ReleaseCatcher, Step
  <2>Underway. Underway(j)' = Underway(j)
    <3>1. \A h \in Contribs : With(h, j)' <=> With(h, j)
      BY DEF Flow, Typed, With, ReleaseCatcher
    <3> QED
      BY <3>1 DEF Underway, ReleaseCatcher, Posts
  <2> QED
    BY CountsOf, <2>Told, <2>Same, <2>Underway
<1>6. ASSUME NEW d \in Children
      PROVE  returned'[d] = Released(d)' - (IF cpc'[d] = "callback" THEN 1 ELSE 0)
  BY DEF Flow, Counted, Released, ReleaseCatcher, Step, Spawner, Posts
<1> QED
  BY <1>1, <1>2, <1>3, <1>4, <1>5, <1>6 DEF Flow, Counted

\* A contributor sends its handshake: none of an earlier round can still be unread.
LEMMA SendHandshakeFlow ==
  ASSUME Flow, NEW k \in Contribs, SendHandshake(k)
  PROVE  Flow'
<1>1. Typed'
  <2>1. kpc' \in [Contribs -> {"user", "releaseCatcher", "handshake", "exit",
                           "catchCatcher", "catchBlocker", "barrier"}]
    BY DEF Flow, Typed, SendHandshake, Step
  <2>2. handshake' \in [Contribs -> BOOLEAN]
    BY DEF Flow, Typed, SendHandshake
  <2> QED
    BY <2>1, <2>2 DEF Flow, Typed, SendHandshake, Catcher, Posts, Modes
<1>2. Held'
  <2>1. ASSUME NEW j \in Contribs
        PROVE  /\ kpc'[j] = IF j = k THEN "exit" ELSE kpc[j]
               /\ gpc'[j] = gpc[j]
               /\ bpc'[j] = bpc[j]
    BY DEF Flow, Typed, SendHandshake, Step, Catcher
  <2> QED
    BY <2>1 DEF Flow, Held, SendHandshake, Step
<1>3. Turns' /\ Parked' /\ Serving' /\ Delivered'
  BY DEF Flow, Turns, Parked, Serving, Delivered, With, SendHandshake, Step, Spawner,
         Catcher, Posts
<1>4. ASSUME NEW j \in Contribs
      PROVE  /\ Told(j)' = Heard(j)' + (IF handshake'[j] THEN 1 ELSE 0)
             /\ Mailed(j)' = Woken(j)' + (IF Underway(j)' THEN 1 ELSE 0)
  <2>Same. /\ Heard(j)' = Heard(j) /\ Mailed(j)' = Mailed(j)
           /\ Woken(j)' = Woken(j) /\ Underway(j)' = Underway(j)
    BY DEF Heard, Mailed, Woken, Underway, ToSend, ToSignal, With, SendHandshake, Step,
           Spawner, Catcher, Posts
  <2>Told. Told(j)' = Told(j) + (IF j = k THEN 1 ELSE 0)
    BY CountsOf DEF Flow, Typed, Told, SendHandshake, Step
  <2>Shake. handshake'[j] = IF j = k THEN TRUE ELSE handshake[j]
    BY DEF Flow, Typed, SendHandshake
  <2>1. ~ handshake[k]
    <3>1. Told(k) = round[k] - 1
      BY DEF Told, SendHandshake, Step
    <3>2. Told(k) <= Heard(k) /\ Heard(k) \in Int /\ Told(k) \in Int
      BY <3>1, Ahead
    <3> QED
      BY <3>2 DEF Flow, Counted
  <2> QED
    BY CountsOf, <2>1, <2>Told, <2>Same, <2>Shake, Ahead
<1>5. ASSUME NEW d \in Children
      PROVE  returned'[d] = Released(d)' - (IF cpc'[d] = "callback" THEN 1 ELSE 0)
  BY DEF Flow, Counted, Released, SendHandshake, Step, Spawner, Catcher, Posts
<1> QED
  BY <1>1, <1>2, <1>3, <1>4, <1>5 DEF Flow, Counted

\* A contributor moves on in VMK::exit: nothing is counted.
LEMMA ContributorExitFlow ==
  ASSUME Flow, NEW k \in Contribs, ContributorExit(k)
  PROVE  Flow'
<1>1. Typed'
  <2>1. kpc' \in [Contribs -> {"user", "releaseCatcher", "handshake", "exit",
                           "catchCatcher", "catchBlocker", "barrier"}]
    BY DEF Flow, Typed, ContributorExit, Step
  <2> QED
    BY <2>1 DEF Flow, Typed, ContributorExit, Catcher, Posts, Modes
<1>2. Held'
  <2>1. CASE Step(k, "exit", "catchCatcher")
    BY <2>1 DEF Flow, Held, ContributorExit, Step, Catcher
  <2>2. CASE Step(k, "barrier", "user")
    BY <2>2 DEF Flow, Held, ContributorExit, Step, Catcher
  <2> QED
    BY <2>1, <2>2 DEF ContributorExit
<1>3. Turns' /\ Parked' /\ Serving' /\ Delivered'
  BY DEF Flow, Turns, Parked, Serving, Delivered, With, ContributorExit, Step, Spawner,
         Catcher, Posts
<1>4. ASSUME NEW j \in Contribs
      PROVE  /\ Told(j)' = Heard(j)' + (IF handshake'[j] THEN 1 ELSE 0)
             /\ Mailed(j)' = Woken(j)' + (IF Underway(j)' THEN 1 ELSE 0)
  <2>Same. /\ Heard(j)' = Heard(j) /\ Mailed(j)' = Mailed(j)
           /\ Woken(j)' = Woken(j) /\ Underway(j)' = Underway(j)
           /\ handshake'[j] = handshake[j]
    BY DEF Heard, Mailed, Woken, Underway, ToSend, ToSignal, With, ContributorExit,
           Step, Spawner, Catcher, Posts
  <2>Told. Told(j)' = Told(j)
    BY DEF Flow, Typed, Told, ContributorExit, Step
  <2> QED
    BY CountsOf, <2>Told, <2>Same
<1>5. ASSUME NEW d \in Children
      PROVE  returned'[d] = Released(d)' - (IF cpc'[d] = "callback" THEN 1 ELSE 0)
  BY DEF Flow, Counted, Released, ContributorExit, Step, Spawner, Catcher, Posts
<1> QED
  BY <1>1, <1>2, <1>3, <1>4, <1>5 DEF Flow, Counted

\* A child returns from user code: it has still to signal every contributor of its own.
LEMMA CallBackFlow ==
  ASSUME Flow, NEW c \in Children, CallBack(c)
  PROVE  Flow'
<1>s. PICK n \in 0 .. NContribs : n = Following(c, 0)
  BY FollowingFacts, ConstantFacts
<1>f. /\ serving' = [serving EXCEPT ![c] = n]
      /\ cpc' = [cpc EXCEPT ![c] = IF n = 0 THEN "finish" ELSE "kill"]
  BY <1>s DEF CallBack, Serve
<1>n. \/ n = 0 /\ \A j \in Contribs : ChildOf[j] = c => j <= 0
      \/ /\ n \in Contribs /\ ChildOf[n] = c /\ 0 < n
         /\ \A j \in Contribs : ChildOf[j] = c /\ 0 < j => n <= j
  BY <1>s, FollowingFacts
<1>1. Typed'
  <2>1. returned' \in [Children -> Nat]
    BY DEF Flow, Typed, CallBack
  <2>2. serving' \in [Children -> 0 .. NContribs]
    BY <1>f DEF Flow, Typed
  <2>3. cpc' \in [Children -> {"parked", "callback", "kill", "send", "sent", "finish"}]
    BY <1>f DEF Flow, Typed
  <2> QED
    BY <2>1, <2>2, <2>3 DEF Flow, Typed, CallBack, Catcher, Posts, Modes
<1>2. Parked'
  BY <1>f DEF Flow, Parked, CallBack, Spawner
<1>3. Serving'
  <2> SUFFICES ASSUME NEW d \in Children, cpc'[d] \in {"kill", "send", "sent"}
               PROVE  serving'[d] \in Contribs /\ ChildOf[serving'[d]] = d
    BY DEF Serving
  <2>1. CASE d = c
    <3>1. serving'[c] = n /\ n # 0
      BY <1>f, <2>1 DEF Flow, Typed
    <3> QED
      BY <1>n, <2>1, <3>1
  <2>2. CASE d # c
    BY <1>f, <2>2 DEF Flow, Serving
  <2> QED
    BY <2>1, <2>2
<1>4. Turns' /\ Held' /\ Delivered'
  BY DEF Flow, Turns, Held, Delivered, With, CallBack, Serve, Spawner, Catcher, Posts
<1>5. ASSUME NEW j \in Contribs
      PROVE  /\ Told(j)' = Heard(j)' + (IF handshake'[j] THEN 1 ELSE 0)
             /\ Mailed(j)' = Woken(j)' + (IF Underway(j)' THEN 1 ELSE 0)
  <2>Same. /\ Told(j)' = Told(j) /\ Heard(j)' = Heard(j)
           /\ Woken(j)' = Woken(j) /\ Underway(j)' = Underway(j)
           /\ handshake'[j] = handshake[j]
    BY DEF Told, Heard, Woken, Underway, With, CallBack, Serve, Spawner, Catcher, Posts
  <2>Mailed. Mailed(j)' = Mailed(j)
    <3>1. returned'[ChildOf[j]] = (IF ChildOf[j] = c THEN returned[c] + 1 ELSE returned[ChildOf[j]])
          /\ returned[ChildOf[j]] \in Int
      BY CountsOf DEF Flow, Typed, CallBack
    <3>2. CASE ChildOf[j] = c
      <4>1. j > 0 /\ n # 0 /\ n \in Int /\ n <= j
        BY <1>n, <3>2, ConstantFacts
      <4>2. cpc'[c] = "kill" /\ serving'[c] = n /\ cpc[c] = "callback"
        BY <1>f, <4>1 DEF Flow, Typed, CallBack
      <4> QED
        BY <3>1, <3>2, <4>1, <4>2 DEF Mailed, ToSend, ToSignal
    <3>3. CASE ChildOf[j] # c
      <4>1. /\ cpc'[ChildOf[j]] = cpc[ChildOf[j]]
            /\ serving'[ChildOf[j]] = serving[ChildOf[j]]
        BY <1>f, <3>3
      <4> QED
        BY <3>1, <3>3, <4>1 DEF Mailed, ToSend, ToSignal
    <3> QED
      BY <3>2, <3>3
  <2> QED
    BY CountsOf, <2>Same, <2>Mailed
<1>6. ASSUME NEW d \in Children
      PROVE  returned'[d] = Released(d)' - (IF cpc'[d] = "callback" THEN 1 ELSE 0)
  <2>1. returned[d] = Released(d) - (IF cpc[d] = "callback" THEN 1 ELSE 0)
        /\ Released(d) \in Int /\ returned[d] \in Int
    BY ConstantFacts DEF Flow, Counted, Typed, Released
  <2>2. Released(d)' = Released(d)
    BY DEF Released, CallBack, Spawner
  <2>3. returned'[d] = (IF d = c THEN returned[d] + 1 ELSE returned[d])
    BY DEF Flow, Typed, CallBack
  <2>4. IF d = c THEN cpc[d] = "callback" /\ cpc'[d] # "callback" ELSE cpc'[d] = cpc[d]
    BY <1>f DEF Flow, Typed, CallBack
  <2> QED
    BY <2>1, <2>2, <2>3, <2>4
<1> QED
  BY <1>1, <1>2, <1>3, <1>4, <1>5, <1>6 DEF Flow, Counted

\* A child signals a contributor: the message is still to be sent.
LEMMA KillFlow ==
  ASSUME Flow, NEW c \in Children, Kill(c)
  PROVE  Flow'
<1>p. PICK p \in Processes : p = Process[serving[c]]
  BY ContribFacts DEF Flow, Serving, Kill
<1>t. pending' = [pending EXCEPT ![p] = IF Queued THEN @ + 1 ELSE 1]
  BY <1>p DEF Kill
<1>1. Typed'
  <2>2. pending' \in [Processes -> Nat]
    BY <1>t DEF Flow, Typed
  <2> QED
    BY <2>2 DEF Flow, Typed, Kill, Catcher, Modes
<1>2. Parked'
  BY ConstantFacts DEF Flow, Parked, Kill, Spawner
<1>3. Serving'
  BY ConstantFacts DEF Flow, Serving, Kill
<1>4. Turns' /\ Held' /\ Delivered'
  BY DEF Flow, Turns, Held, Delivered, With, Kill, Spawner, Catcher
<1>5. ASSUME NEW j \in Contribs
      PROVE  /\ Told(j)' = Heard(j)' + (IF handshake'[j] THEN 1 ELSE 0)
             /\ Mailed(j)' = Woken(j)' + (IF Underway(j)' THEN 1 ELSE 0)
  <2>Same. /\ Told(j)' = Told(j) /\ Heard(j)' = Heard(j)
           /\ Woken(j)' = Woken(j) /\ Underway(j)' = Underway(j)
           /\ handshake'[j] = handshake[j]
    BY DEF Told, Heard, Woken, Underway, With, Kill, Spawner, Catcher
  <2>Mailed. Mailed(j)' = Mailed(j)
    BY CountsOf DEF Flow, Typed, Turns, Mailed, ToSend, ToSignal, Kill, Catcher
  <2> QED
    BY CountsOf, <2>Same, <2>Mailed
<1>6. ASSUME NEW d \in Children
      PROVE  returned'[d] = Released(d)' - (IF cpc'[d] = "callback" THEN 1 ELSE 0)
  <2>1. returned[d] = Released(d) - (IF cpc[d] = "callback" THEN 1 ELSE 0)
    BY DEF Flow, Counted
  <2>2. Released(d)' = Released(d)
    BY DEF Released, Kill, Spawner, Catcher
  <2>3. returned'[d] = returned[d] /\ (cpc'[d] = "callback" <=> cpc[d] = "callback")
    BY ConstantFacts DEF Kill
  <2> QED
    BY <2>1, <2>2, <2>3
<1> QED
  BY <1>1, <1>2, <1>3, <1>4, <1>5, <1>6 DEF Flow, Counted

\* A child sends a message: the contributor has entered as often as the child has
\* returned, and its blocker is one behind, so that no other message is under way.
LEMMA SendFlow ==
  ASSUME Flow, NEW c \in Children, Send(c)
  PROVE  Flow'
<1>0. PICK k \in Contribs : k = serving[c] /\ ChildOf[k] = c /\ cpc[c] = "send"
  BY DEF Flow, Serving, Send
<1>p. Process[k] \in Processes /\ k \in Int
  BY ConstantFacts
<1>m. /\ mail' = [mail EXCEPT ![Process[k]] = @ \cup {k}]
      /\ cpc' = [cpc EXCEPT ![c] = "sent"]
  BY <1>0 DEF Send
<1>s. Signalled(k) = returned[c] /\ Mailed(k) = returned[c] - 1
  BY <1>0, ConstantFacts DEF Signalled, Mailed, ToSend, ToSignal
<1>u. ~ Underway(k)
  <2>1. Mailed(k) + 1 <= round[k]
    BY <1>s, Ahead
  <2>2. Mailed(k) = Woken(k) + (IF Underway(k) THEN 1 ELSE 0)
    BY DEF Flow, Counted
  <2> QED
    BY <2>1, <2>2, Ahead
<1>1. Typed'
  <2>2. mail' \in [Processes -> SUBSET Contribs]
    BY <1>m DEF Flow, Typed
  <2> QED
    BY <2>2 DEF Flow, Typed, Send, Catcher, Modes
<1>2. Parked'
  BY DEF Flow, Parked, Send, Spawner
<1>3. Serving'
  BY DEF Flow, Serving, Send
<1>4. Delivered'
  <2>1. \A p \in Processes : mail'[p] = IF p = Process[k] THEN mail[p] \cup {k} ELSE mail[p]
    BY <1>m, <1>p DEF Flow, Typed
  <2>2. gpc' = gpc /\ \A i, j \in Contribs : With(i, j)' <=> With(i, j)
    BY DEF Send, Catcher, With
  <2>3. \A p \in Processes : \A j \in mail'[p] : Process[j] = p
    <3> SUFFICES ASSUME NEW q \in Processes, NEW j \in mail'[q]
                 PROVE  Process[j] = q
      OBVIOUS
    <3>1. j \in mail[q] \/ (j = k /\ q = Process[k])
      BY <2>1
    <3> QED
      BY <3>1 DEF Flow, Delivered
  <2>4. \A j \in Contribs : gpc'[j] = "wake" =>
             got'[j] \in Contribs /\ Process[got'[j]] = Process[j]
    BY DEF Flow, Delivered, Send, Catcher
  <2>5. \A i, j \in Contribs : With(i, j)' => j \notin mail'[Process[j]]
    <3> SUFFICES ASSUME NEW i \in Contribs, NEW j \in Contribs, With(i, j)'
                 PROVE  j \notin mail'[Process[j]]
      OBVIOUS
    <3>1. With(i, j) /\ j # k /\ Process[j] \in Processes
      BY <1>u, <2>2, ConstantFacts DEF Underway
    <3>2. j \notin mail[Process[j]]
      BY <3>1 DEF Flow, Delivered
    <3> QED
      BY <2>1, <3>1, <3>2
  <2> QED
    BY <2>2, <2>3, <2>4, <2>5 DEF Flow, Delivered
<1>5. Turns' /\ Held'
  BY DEF Flow, Turns, Held, Send, Catching, Spawner, Catcher
<1>6. ASSUME NEW j \in Contribs
      PROVE  /\ Told(j)' = Heard(j)' + (IF handshake'[j] THEN 1 ELSE 0)
             /\ Mailed(j)' = Woken(j)' + (IF Underway(j)' THEN 1 ELSE 0)
  <2>Same. /\ Told(j)' = Told(j) /\ Heard(j)' = Heard(j)
           /\ Woken(j)' = Woken(j) /\ handshake'[j] = handshake[j]
    BY DEF Told, Heard, Woken, Send, Catching, Spawner, Catcher
  <2>Mailed. Mailed(j)' = Mailed(j) + (IF j = k THEN 1 ELSE 0)
    BY <1>0, CountsOf DEF Flow, Typed, Mailed, ToSend, ToSignal, Send
  <2>Underway. Underway(j)' <=> (j = k \/ Underway(j))
    <3>1. j \in mail'[Process[j]] <=> j = k \/ j \in mail[Process[j]]
      BY <1>p, <1>m DEF Flow, Typed
    <3>2. \A i \in Contribs : With(i, j)' <=> With(i, j)
      BY DEF With, Send, Catcher
    <3> QED
      BY <3>1, <3>2 DEF Underway
  <2>1. Woken(j) \in Int /\ Mailed(j) \in Int /\ (j = k => ~ Underway(j))
    BY <1>u, Ahead
  <2> QED
    BY CountsOf, <2>1, <2>Same, <2>Mailed, <2>Underway
<1>7. ASSUME NEW d \in Children
      PROVE  returned'[d] = Released(d)' - (IF cpc'[d] = "callback" THEN 1 ELSE 0)
  <2>1. returned[d] = Released(d) - (IF cpc[d] = "callback" THEN 1 ELSE 0)
    BY DEF Flow, Counted
  <2>2. Released(d)' = Released(d)
    BY DEF Released, Send, Catching, Spawner, Catcher
  <2>3. returned'[d] = returned[d] /\ (cpc'[d] = "callback" <=> cpc[d] = "callback")
    BY DEF Send
  <2> QED
    BY <2>1, <2>2, <2>3
<1> QED
  BY <1>1, <1>2, <1>3, <1>4, <1>5, <1>6, <1>7 DEF Flow, Counted

\* A child goes on to its next contributor, or has served them all.
LEMMA SentFlow ==
  ASSUME Flow, NEW c \in Children, Sent(c)
  PROVE  Flow'
<1>c. PICK k \in Contribs : k = serving[c] /\ ChildOf[k] = c /\ cpc[c] = "sent" /\ k \in Nat
  BY ConstantFacts DEF Flow, Serving, Sent
<1>s. PICK n \in 0 .. NContribs : n = Following(c, k)
  BY FollowingFacts, ConstantFacts
<1>f. /\ serving' = [serving EXCEPT ![c] = n]
      /\ cpc' = [cpc EXCEPT ![c] = IF n = 0 THEN "finish" ELSE "kill"]
  BY <1>c, <1>s DEF Sent, Serve
<1>n. \/ n = 0 /\ \A j \in Contribs : ChildOf[j] = c => j <= k
      \/ /\ n \in Contribs /\ ChildOf[n] = c /\ k < n
         /\ \A j \in Contribs : ChildOf[j] = c /\ k < j => n <= j
  BY <1>s, FollowingFacts, <1>c
<1>1. Typed'
  <2>1. serving' \in [Children -> 0 .. NContribs]
    BY <1>f DEF Flow, Typed
  <2>2. cpc' \in [Children -> {"parked", "callback", "kill", "send", "sent", "finish"}]
    BY <1>f DEF Flow, Typed
  <2> QED
    BY <2>1, <2>2 DEF Flow, Typed, Sent, Catcher, Posts, Modes
<1>2. Parked'
  BY <1>f DEF Flow, Parked, Sent, Spawner
<1>3. Serving'
  <2> SUFFICES ASSUME NEW d \in Children, cpc'[d] \in {"kill", "send", "sent"}
               PROVE  serving'[d] \in Contribs /\ ChildOf[serving'[d]] = d
    BY DEF Serving
  <2>1. CASE d = c
    <3>1. serving'[c] = n /\ n # 0
      BY <1>f, <2>1 DEF Flow, Typed
    <3> QED
      BY <1>n, <2>1, <3>1
  <2>2. CASE d # c
    BY <1>f, <2>2 DEF Flow, Serving
  <2> QED
    BY <2>1, <2>2
<1>4. Turns' /\ Held' /\ Delivered'
  BY DEF Flow, Turns, Held, Delivered, With, Sent, Serve, Spawner, Catcher, Posts
<1>5. ASSUME NEW j \in Contribs
      PROVE  /\ Told(j)' = Heard(j)' + (IF handshake'[j] THEN 1 ELSE 0)
             /\ Mailed(j)' = Woken(j)' + (IF Underway(j)' THEN 1 ELSE 0)
  <2>Same. /\ Told(j)' = Told(j) /\ Heard(j)' = Heard(j)
           /\ Woken(j)' = Woken(j) /\ Underway(j)' = Underway(j)
           /\ handshake'[j] = handshake[j]
    BY DEF Told, Heard, Woken, Underway, With, Sent, Serve, Spawner, Catcher, Posts
  <2>Mailed. Mailed(j)' = Mailed(j)
    <3>1. returned' = returned
      BY DEF Sent
    <3>2. CASE ChildOf[j] = c
      <4>1. /\ cpc[c] = "sent" /\ serving[c] = k /\ serving'[c] = n
            /\ cpc'[c] = IF n = 0 THEN "finish" ELSE "kill"
        BY <1>c, <1>f DEF Flow, Typed
      <4>2. IF n = 0 THEN j <= k ELSE n \in Int /\ k < n /\ (k < j => n <= j)
        BY <1>n, <3>2, ConstantFacts
      <4> QED
        BY CountsOf, <3>1, <3>2, <4>1, <4>2 DEF Mailed, ToSend, ToSignal
    <3>3. CASE ChildOf[j] # c
      <4>1. /\ cpc'[ChildOf[j]] = cpc[ChildOf[j]]
            /\ serving'[ChildOf[j]] = serving[ChildOf[j]]
        BY <1>f, <3>3
      <4> QED
        BY <3>1, <4>1 DEF Mailed, ToSend, ToSignal
    <3> QED
      BY <3>2, <3>3
  <2> QED
    BY CountsOf, <2>Same, <2>Mailed
<1>6. ASSUME NEW d \in Children
      PROVE  returned'[d] = Released(d)' - (IF cpc'[d] = "callback" THEN 1 ELSE 0)
  <2>1. returned[d] = Released(d) - (IF cpc[d] = "callback" THEN 1 ELSE 0)
    BY DEF Flow, Counted
  <2>2. Released(d)' = Released(d)
    BY DEF Released, Sent, Serve, Spawner, Catcher, Posts
  <2>3. returned'[d] = returned[d] /\ (cpc'[d] = "callback" <=> cpc[d] = "callback")
    BY ConstantFacts DEF Sent, Serve
  <2> QED
    BY <2>1, <2>2, <2>3
<1> QED
  BY <1>1, <1>2, <1>3, <1>4, <1>5, <1>6 DEF Flow, Counted

\* The spawner catches a child: nothing is counted.
LEMMA ChildCaughtFlow ==
  ASSUME Flow, NEW c \in Children, ChildCaught(c)
  PROVE  Flow'
<1>0. /\ turn \in Int /\ turn = c /\ spc = "catch" /\ cpc[c] = "finish"
      /\ \A d \in Children : d \in Int /\ d > 0 /\ d <= NChildren
      /\ NChildren \in Int /\ 1 \in Children
      /\ \A d \in Children : cpc'[d] = IF d = c THEN "parked" ELSE cpc[d]
      /\ IF turn < NChildren THEN turn' = turn + 1 /\ spc' = spc
                             ELSE turn' = 1 /\ spc' = "barrier"
  BY ConstantFacts DEF Flow, Typed, ChildCaught, Catching
<1>1. Typed'
  BY DEF Flow, Typed, ChildCaught, Catcher, Posts, Modes
<1>2. Turns'
  <2>1. round[0] > 0 /\ round' = round
    BY <1>0 DEF Flow, Turns, ChildCaught
  <2>2. turn < NChildren => turn + 1 \in Children
    BY <1>0, ConstantFacts
  <2> QED
    BY <1>0, <2>1, <2>2 DEF Turns
<1>3. Parked'
  BY <1>0 DEF Flow, Parked
<1>4. Serving'
  BY DEF Flow, Serving, ChildCaught
<1>5. Held' /\ Delivered'
  BY DEF Flow, Held, Delivered, With, ChildCaught, Catching, Catcher, Posts
<1>6. ASSUME NEW j \in Contribs
      PROVE  /\ Told(j)' = Heard(j)' + (IF handshake'[j] THEN 1 ELSE 0)
             /\ Mailed(j)' = Woken(j)' + (IF Underway(j)' THEN 1 ELSE 0)
  <2>Same. /\ Told(j)' = Told(j) /\ Woken(j)' = Woken(j)
           /\ Underway(j)' = Underway(j) /\ handshake'[j] = handshake[j]
    BY DEF Told, Woken, Underway, With, ChildCaught, Catching, Catcher, Posts
  <2>Heard. Heard(j)' = Heard(j)
    BY <1>0 DEF Heard, ChildCaught
  <2>Mailed. Mailed(j)' = Mailed(j)
    BY DEF Mailed, ToSend, ToSignal, ChildCaught
  <2> QED
    BY CountsOf, <2>Same, <2>Heard, <2>Mailed
<1>7. ASSUME NEW d \in Children
      PROVE  returned'[d] = Released(d)' - (IF cpc'[d] = "callback" THEN 1 ELSE 0)
  <2>1. returned[d] = Released(d) - (IF cpc[d] = "callback" THEN 1 ELSE 0)
    BY DEF Flow, Counted
  <2>2. Released(d)' = Released(d)
    BY <1>0 DEF Released, ChildCaught
  <2>3. returned'[d] = returned[d] /\ (cpc'[d] = "callback" <=> cpc[d] = "callback")
    BY DEF ChildCaught
  <2> QED
    BY <2>1, <2>2, <2>3
<1> QED
  BY <1>1, <1>2, <1>3, <1>4, <1>5, <1>6, <1>7 DEF Flow, Counted

\* A sigcatcher takes a signal: messages stay where they are.
LEMMA SigWaitFlow ==
  ASSUME Flow, NEW k \in Contribs, SigWait(k)
  PROVE  Flow'
<1>k. /\ k \in PETs /\ k # 0 /\ 0 \in PETs /\ Process[k] \in Processes
      /\ MaxRounds \in Nat
  BY ContribFacts
<1>1. Typed'
  <2>1. pending' \in [Processes -> Nat]
    BY <1>k DEF Flow, Typed, SigWait
  <2> QED
    BY <2>1 DEF Flow, Typed, SigWait, Modes
<1>2. Held'
  BY DEF Flow, Held, SigWait
<1>3. Delivered'
  <2>1. \A i, j \in Contribs : With(i, j)' => With(i, j)
    BY DEF Flow, Typed, With, SigWait
  <2>2. mail' = mail /\ got' = got /\ \A j \in Contribs : gpc'[j] = "wake" => gpc[j] = "wake"
    BY DEF Flow, Typed, SigWait, Posts
  <2> QED
    BY <2>1, <2>2 DEF Flow, Delivered
<1>4. Turns' /\ Parked' /\ Serving'
  BY DEF Flow, Turns, Parked, Serving, SigWait, Spawner
<1>5. ASSUME NEW j \in Contribs
      PROVE  /\ Told(j)' = Heard(j)' + (IF handshake'[j] THEN 1 ELSE 0)
             /\ Mailed(j)' = Woken(j)' + (IF Underway(j)' THEN 1 ELSE 0)
  <2>Same. /\ Told(j)' = Told(j) /\ Heard(j)' = Heard(j)
           /\ Mailed(j)' = Mailed(j) /\ Woken(j)' = Woken(j)
           /\ handshake'[j] = handshake[j]
    BY DEF Told, Heard, Mailed, Woken, ToSend, ToSignal, SigWait, Spawner
  <2>Underway. Underway(j)' = Underway(j)
    <3>1. \A h \in Contribs : With(h, j)' <=> With(h, j)
      BY DEF Flow, Typed, With, SigWait
    <3> QED
      BY <3>1 DEF Underway, SigWait
  <2> QED
    BY CountsOf, <2>Same, <2>Underway
<1>6. ASSUME NEW d \in Children
      PROVE  returned'[d] = Released(d)' - (IF cpc'[d] = "callback" THEN 1 ELSE 0)
  BY DEF Flow, Counted, Released, SigWait, Spawner
<1> QED
  BY <1>1, <1>2, <1>3, <1>4, <1>5, <1>6 DEF Flow, Counted

\* A sigcatcher receives a message, which may be for another contributor: it is still
\* under way.
LEMMA RecvMailFlow ==
  ASSUME Flow, NEW k \in Contribs, RecvMail(k)
  PROVE  Flow'
<1>k. /\ k \in PETs /\ k # 0 /\ 0 \in PETs /\ Process[k] \in Processes
      /\ MaxRounds \in Nat
  BY ContribFacts
<1>0. PICK i \in mail[Process[k]] :
        /\ mail' = [mail EXCEPT ![Process[k]] = @ \ {i}]
        /\ got' = [got EXCEPT ![k] = i]
  BY <1>k DEF RecvMail
<1>i. i \in Contribs /\ Process[i] = Process[k] /\ gpc[k] = "recv"
  BY <1>k DEF Flow, Typed, Delivered, RecvMail
<1>m. \A p \in Processes : mail'[p] = IF p = Process[k] THEN mail[p] \ {i} ELSE mail[p]
  BY <1>0, <1>k DEF Flow, Typed
<1>g. \A h, j \in Contribs : With(h, j)' <=> (IF h = k THEN j = i ELSE With(h, j))
  BY <1>0 DEF Flow, Typed, With, RecvMail
<1>1. Typed'
  <2>1. mail' \in [Processes -> SUBSET Contribs]
    BY <1>0, <1>k DEF Flow, Typed
  <2>2. got' \in [Contribs -> 0 .. NContribs]
    <3>1. i \in 0 .. NContribs
      BY <1>i, ConstantFacts
    <3> QED
      BY <1>0, <3>1 DEF Flow, Typed
  <2> QED
    BY <2>1, <2>2 DEF Flow, Typed, RecvMail, Modes
<1>2. Held'
  BY DEF Flow, Held, RecvMail
<1>3. Delivered'
  <2>1. \A j \in Contribs : With(j, i) => i \notin mail[Process[i]]
    BY <1>i DEF Flow, Delivered
  <2>2. \A j \in Contribs : gpc'[j] = "wake" =>
             got'[j] \in Contribs /\ Process[got'[j]] = Process[j]
    BY <1>0, <1>i DEF Flow, Typed, Delivered, RecvMail
  <2>3. \A p \in Processes : \A j \in mail'[p] : Process[j] = p
    BY <1>m DEF Flow, Delivered
  <2>4. \A j \in Contribs : ~ With(j, i)
    BY <1>i, <2>1
  <2>5. \A h, j \in Contribs : With(h, j)' => j \notin mail'[Process[j]]
    <3> SUFFICES ASSUME NEW h \in Contribs, NEW j \in Contribs, With(h, j)'
                 PROVE  j \notin mail'[Process[j]]
      OBVIOUS
    <3>1. Process[j] \in Processes
      BY ConstantFacts
    <3>2. CASE j = i
      BY <1>i, <1>m, <3>1, <3>2
    <3>3. CASE j # i
      <4>1. With(h, j)
        BY <1>g, <3>3
      <4>2. j \notin mail[Process[j]]
        BY <4>1 DEF Flow, Delivered
      <4> QED
        BY <1>m, <3>1, <4>2
    <3> QED
      BY <3>2, <3>3
  <2>6. \A h, g, j \in Contribs : With(h, j)' /\ With(g, j)' => h = g
    BY <1>g, <2>4 DEF Flow, Delivered
  <2> QED
    BY <2>2, <2>3, <2>5, <2>6 DEF Delivered
<1>4. Turns' /\ Parked' /\ Serving'
  BY DEF Flow, Turns, Parked, Serving, RecvMail, Spawner
<1>5. ASSUME NEW j \in Contribs
      PROVE  /\ Told(j)' = Heard(j)' + (IF handshake'[j] THEN 1 ELSE 0)
             /\ Mailed(j)' = Woken(j)' + (IF Underway(j)' THEN 1 ELSE 0)
  <2>Same. /\ Told(j)' = Told(j) /\ Heard(j)' = Heard(j)
           /\ Mailed(j)' = Mailed(j) /\ Woken(j)' = Woken(j)
           /\ handshake'[j] = handshake[j]
    BY DEF Told, Heard, Mailed, Woken, ToSend, ToSignal, RecvMail, Spawner
  <2>Underway. Underway(j)' = Underway(j)
    <3>1. ~ With(k, j)
      BY <1>i DEF With
    <3>2. Process[j] \in Processes /\ (j = i => Process[j] = Process[k])
      BY <1>i, ConstantFacts
    <3>3. j \in mail'[Process[j]] <=> j \in mail[Process[j]] /\ j # i
      BY <1>m, <3>2
    <3> QED
      BY <1>i, <1>g, <3>1, <3>3 DEF Underway
  <2> QED
    BY CountsOf, <2>Same, <2>Underway
<1>6. ASSUME NEW d \in Children
      PROVE  returned'[d] = Released(d)' - (IF cpc'[d] = "callback" THEN 1 ELSE 0)
  BY DEF Flow, Counted, Released, RecvMail, Spawner
<1> QED
  BY <1>1, <1>2, <1>3, <1>4, <1>5, <1>6 DEF Flow, Counted

\* A sigcatcher wakes a blocker: the message has arrived.
LEMMA WakeBlockerFlow ==
  ASSUME Flow, NEW k \in Contribs, WakeBlocker(k)
  PROVE  Flow'
<1>0. PICK i \in Contribs : i = got[k] /\ With(k, i) /\ Process[i] = Process[k]
  BY DEF Flow, Delivered, WakeBlocker, With
<1>w. bpc[i] = "blocked"
  <2>1. Mailed(i) = Woken(i) + 1
    BY <1>0 DEF Flow, Counted, Underway
  <2>2. Woken(i) < round[i]
    BY <2>1, Ahead
  <2> QED
    BY <1>0, <2>2, Ahead DEF Woken, WakeBlocker
<1>1. Typed'
  <2>1. bpc' \in [Contribs -> {"parked", "released", "blocked", "woken", "finish"}]
    BY <1>0 DEF Flow, Typed, WakeBlocker
  <2> QED
    BY <2>1 DEF Flow, Typed, WakeBlocker, Posts, Modes
<1>2. Held'
  BY DEF Flow, Held, WakeBlocker
<1>3. Delivered'
  <2>1. \A g, j \in Contribs : With(g, j)' => With(g, j)
    BY DEF Flow, Typed, With, WakeBlocker
  <2>2. mail' = mail /\ got' = got /\ \A j \in Contribs : gpc'[j] = "wake" => gpc[j] = "wake"
    BY DEF Flow, Typed, WakeBlocker, Posts
  <2> QED
    BY <2>1, <2>2 DEF Flow, Delivered
<1>4. Turns' /\ Parked' /\ Serving'
  BY DEF Flow, Turns, Parked, Serving, WakeBlocker, Spawner, Posts
<1>5. ASSUME NEW j \in Contribs
      PROVE  /\ Told(j)' = Heard(j)' + (IF handshake'[j] THEN 1 ELSE 0)
             /\ Mailed(j)' = Woken(j)' + (IF Underway(j)' THEN 1 ELSE 0)
  <2>Same. /\ Told(j)' = Told(j) /\ Heard(j)' = Heard(j)
           /\ Mailed(j)' = Mailed(j) /\ handshake'[j] = handshake[j]
    BY DEF Told, Heard, Mailed, ToSend, ToSignal, WakeBlocker, Spawner, Posts
  <2>Woken. Woken(j)' = Woken(j) + (IF j = i THEN 1 ELSE 0)
    BY <1>0, <1>w, CountsOf DEF Flow, Typed, Woken, WakeBlocker
  <2>Underway. /\ (Underway(j)' <=> j # i /\ Underway(j))
               /\ Underway(i)
    <3>1. \A h \in Contribs : With(h, j)' <=> h # k /\ With(h, j)
      BY DEF Flow, Typed, With, WakeBlocker
    <3>2. i \notin mail[Process[i]] /\ \A h \in Contribs : With(h, i) => h = k
      BY <1>0 DEF Flow, Delivered
    <3>3. mail' = mail
      BY DEF WakeBlocker, Posts
    <3>4. With(k, j) => j = i
      BY <1>0 DEF With
    <3> QED
      BY <1>0, <3>1, <3>2, <3>3, <3>4 DEF Underway
  <2>1. Woken(j) \in Int /\ Mailed(j) \in Int
    BY Ahead
  <2> QED
    BY CountsOf, <2>1, <2>Same, <2>Woken, <2>Underway
<1>6. ASSUME NEW d \in Children
      PROVE  returned'[d] = Released(d)' - (IF cpc'[d] = "callback" THEN 1 ELSE 0)
  BY DEF Flow, Counted, Released, WakeBlocker, Spawner, Posts
<1> QED
  BY <1>1, <1>2, <1>3, <1>4, <1>5, <1>6 DEF Flow, Counted

\* A contributor catches its sigcatcher, which has delivered its message.
LEMMA CatcherCaughtFlow ==
  ASSUME Flow, NEW k \in Contribs, CatcherCaught(k)
  PROVE  Flow'
<1>1. Typed'
  <2>2. got' \in [Contribs -> 0 .. NContribs]
    BY ConstantFacts DEF Flow, Typed, CatcherCaught
  <2>3. kpc' \in [Contribs -> {"user", "releaseCatcher", "handshake", "exit",
                           "catchCatcher", "catchBlocker", "barrier"}]
    BY DEF Flow, Typed, CatcherCaught, Step
  <2> QED
    BY <2>2, <2>3 DEF Flow, Typed, CatcherCaught, Posts, Modes
<1>2. Held'
  BY DEF Flow, Typed, Held, CatcherCaught, Step
<1>3. Delivered'
  <2>1. \A i, j \in Contribs : With(i, j)' => With(i, j)
    BY DEF Flow, Typed, With, CatcherCaught
  <2>2. mail' = mail /\ \A j \in Contribs : gpc'[j] = "wake" => gpc[j] = "wake" /\ got'[j] = got[j]
    BY DEF Flow, Typed, CatcherCaught, Posts
  <2> QED
    BY <2>1, <2>2 DEF Flow, Delivered
<1>4. Turns' /\ Parked' /\ Serving'
  BY DEF Flow, Turns, Parked, Serving, CatcherCaught, Step, Spawner, Posts
<1>5. ASSUME NEW j \in Contribs
      PROVE  /\ Told(j)' = Heard(j)' + (IF handshake'[j] THEN 1 ELSE 0)
             /\ Mailed(j)' = Woken(j)' + (IF Underway(j)' THEN 1 ELSE 0)
  <2>Same. /\ Heard(j)' = Heard(j) /\ Mailed(j)' = Mailed(j)
           /\ Woken(j)' = Woken(j) /\ handshake'[j] = handshake[j]
    BY DEF Heard, Mailed, Woken, ToSend, ToSignal, CatcherCaught, Step, Spawner, Posts
  <2>Told. Told(j)' = Told(j)
    BY DEF Told, CatcherCaught, Step
  <2>Underway. Underway(j)' = Underway(j)
    <3>1. \A h \in Contribs : With(h, j)' <=> With(h, j)
      BY DEF Flow, Typed, With, CatcherCaught
    <3> QED
      BY <3>1 DEF Underway, CatcherCaught, Posts
  <2> QED
    BY CountsOf, <2>Told, <2>Same, <2>Underway
<1>6. ASSUME NEW d \in Children
      PROVE  returned'[d] = Released(d)' - (IF cpc'[d] = "callback" THEN 1 ELSE 0)
  BY DEF Flow, Counted, Released, CatcherCaught, Step, Spawner, Posts
<1> QED
  BY <1>1, <1>2, <1>3, <1>4, <1>5, <1>6 DEF Flow, Counted

\* A blocker begins to wait: it has been woken as often as before.
LEMMA BlockFlow ==
  ASSUME Flow, NEW k \in Contribs, Block(k)
  PROVE  Flow'
<1>1. Typed'
  BY DEF Flow, Typed, Block, Catcher, Posts, Modes
<1>2. Held'
  BY DEF Flow, Held, Block, Catcher
<1>3. Turns' /\ Parked' /\ Serving' /\ Delivered'
  BY DEF Flow, Turns, Parked, Serving, Delivered, With, Block, Spawner, Catcher, Posts
<1>4. ASSUME NEW j \in Contribs
      PROVE  /\ Told(j)' = Heard(j)' + (IF handshake'[j] THEN 1 ELSE 0)
             /\ Mailed(j)' = Woken(j)' + (IF Underway(j)' THEN 1 ELSE 0)
  <2>Same. /\ Told(j)' = Told(j) /\ Heard(j)' = Heard(j)
           /\ Mailed(j)' = Mailed(j) /\ Underway(j)' = Underway(j)
           /\ handshake'[j] = handshake[j]
    BY DEF Told, Heard, Mailed, Underway, ToSend, ToSignal, With, Block, Spawner,
           Catcher, Posts
  <2>Woken. Woken(j)' = Woken(j)
    BY DEF Woken, Block
  <2> QED
    BY CountsOf, <2>Same, <2>Woken
<1>5. ASSUME NEW d \in Children
      PROVE  returned'[d] = Released(d)' - (IF cpc'[d] = "callback" THEN 1 ELSE 0)
  BY DEF Flow, Counted, Released, Block, Spawner, Catcher, Posts
<1> QED
  BY <1>1, <1>2, <1>3, <1>4, <1>5 DEF Flow, Counted

\* A blocker that was woken goes on.
LEMMA UnblockFlow ==
  ASSUME Flow, NEW k \in Contribs, Unblock(k)
  PROVE  Flow'
<1>1. Typed'
  BY DEF Flow, Typed, Unblock, Catcher, Posts, Modes
<1>2. Held'
  BY DEF Flow, Held, Unblock, Catcher
<1>3. Turns' /\ Parked' /\ Serving' /\ Delivered'
  BY DEF Flow, Turns, Parked, Serving, Delivered, With, Unblock, Spawner, Catcher, Posts
<1>4. ASSUME NEW j \in Contribs
      PROVE  /\ Told(j)' = Heard(j)' + (IF handshake'[j] THEN 1 ELSE 0)
             /\ Mailed(j)' = Woken(j)' + (IF Underway(j)' THEN 1 ELSE 0)
  <2>Same. /\ Told(j)' = Told(j) /\ Heard(j)' = Heard(j)
           /\ Mailed(j)' = Mailed(j) /\ Underway(j)' = Underway(j)
           /\ handshake'[j] = handshake[j]
    BY DEF Told, Heard, Mailed, Underway, ToSend, ToSignal, With, Unblock, Spawner,
           Catcher, Posts
  <2>Woken. Woken(j)' = Woken(j)
    BY DEF Woken, Unblock
  <2> QED
    BY CountsOf, <2>Same, <2>Woken
<1>5. ASSUME NEW d \in Children
      PROVE  returned'[d] = Released(d)' - (IF cpc'[d] = "callback" THEN 1 ELSE 0)
  BY DEF Flow, Counted, Released, Unblock, Spawner, Catcher, Posts
<1> QED
  BY <1>1, <1>2, <1>3, <1>4, <1>5 DEF Flow, Counted

\* A contributor catches its blocker, which was woken in this round.
LEMMA BlockerCaughtFlow ==
  ASSUME Flow, NEW k \in Contribs, BlockerCaught(k)
  PROVE  Flow'
<1>1. Typed'
  <2>1. bpc' \in [Contribs -> {"parked", "released", "blocked", "woken", "finish"}]
    BY DEF Flow, Typed, BlockerCaught
  <2>2. kpc' \in [Contribs -> {"user", "releaseCatcher", "handshake", "exit",
                           "catchCatcher", "catchBlocker", "barrier"}]
    BY DEF Flow, Typed, BlockerCaught, Step
  <2> QED
    BY <2>1, <2>2 DEF Flow, Typed, BlockerCaught, Catcher, Posts, Modes
<1>2. Held'
  BY DEF Flow, Typed, Held, BlockerCaught, Step, Catcher
<1>3. Turns' /\ Parked' /\ Serving' /\ Delivered'
  BY DEF Flow, Turns, Parked, Serving, Delivered, With, BlockerCaught, Step, Spawner,
         Catcher, Posts
<1>4. ASSUME NEW j \in Contribs
      PROVE  /\ Told(j)' = Heard(j)' + (IF handshake'[j] THEN 1 ELSE 0)
             /\ Mailed(j)' = Woken(j)' + (IF Underway(j)' THEN 1 ELSE 0)
  <2>Same. /\ Heard(j)' = Heard(j) /\ Mailed(j)' = Mailed(j)
           /\ Underway(j)' = Underway(j) /\ handshake'[j] = handshake[j]
    BY DEF Heard, Mailed, Underway, ToSend, ToSignal, With, BlockerCaught, Step,
           Spawner, Catcher, Posts
  <2>Told. Told(j)' = Told(j)
    BY DEF Told, BlockerCaught, Step
  <2>Woken. Woken(j)' = Woken(j)
    BY DEF Woken, BlockerCaught
  <2> QED
    BY CountsOf, <2>Told, <2>Same, <2>Woken
<1>5. ASSUME NEW d \in Children
      PROVE  returned'[d] = Released(d)' - (IF cpc'[d] = "callback" THEN 1 ELSE 0)
  BY DEF Flow, Counted, Released, BlockerCaught, Step, Spawner, Catcher, Posts
<1> QED
  BY <1>1, <1>2, <1>3, <1>4, <1>5 DEF Flow, Counted

-----------------------------------------------------------------------------
\* Before the first round everything has been counted zero times.
LEMMA FlowInit ==
  Init => Flow
<1> SUFFICES ASSUME Init
             PROVE  Flow
  OBVIOUS
<1>1. Typed
  BY ConstantFacts DEF Init, Typed
<1>2. Turns /\ Parked /\ Held /\ Serving
  BY DEF Init, Turns, Parked, Held, Serving
<1>3. \A j, k \in Contribs : ~ With(j, k)
  BY DEF Init, With
<1>4. \A p \in Processes : mail[p] = {}
  BY DEF Init
<1>5. Delivered
  BY <1>3 DEF Init, Delivered
<1>6. ASSUME NEW k \in Contribs
      PROVE  /\ Told(k) = Heard(k) + (IF handshake[k] THEN 1 ELSE 0)
             /\ Mailed(k) = Woken(k) + (IF Underway(k) THEN 1 ELSE 0)
  <2>1. ~ Underway(k)
    BY <1>3, <1>4, ContribFacts DEF Underway
  <2>2. /\ Told(k) = 0 /\ Heard(k) = 0 /\ handshake[k] = FALSE /\ Woken(k) = 0
        /\ Mailed(k) = 0
    BY ContribFacts DEF Init, Told, Heard, Woken, Mailed, ToSend, ToSignal
  <2> QED
    BY <2>1, <2>2
<1>7. \A c \in Children : returned[c] = Released(c) - (IF cpc[c] = "callback" THEN 1 ELSE 0)
  BY ConstantFacts DEF Init, Released
<1> QED
  BY <1>1, <1>2, <1>5, <1>6, <1>7 DEF Flow, Counted

\* Every step keeps the counts in order, whatever becomes of the signals.
LEMMA FlowStep ==
  Flow /\ [Next]_vars => Flow'
<1> SUFFICES ASSUME Flow, [Next]_vars
             PROVE  Flow'
  OBVIOUS
<1>1. CASE SpawnerStep
  BY <1>1, SpawnerEnterFlow, RecvHandshakeFlow, ReleaseChildFlow, SpawnerExitFlow
     DEF SpawnerStep
<1>2. ASSUME NEW c \in Children, ChildStep(c)
      PROVE  Flow'
  BY <1>2, CallBackFlow, KillFlow, SendFlow, SentFlow, ChildCaughtFlow DEF ChildStep
<1>3. ASSUME NEW k \in Contribs, ContributorStep(k)
      PROVE  Flow'
  BY <1>3, ReleaseBlockerFlow, ReleaseCatcherFlow, SendHandshakeFlow,
     ContributorExitFlow
     DEF ContributorStep
<1>4. ASSUME NEW k \in Contribs, CatcherStep(k)
      PROVE  Flow'
  BY <1>4, SigWaitFlow, RecvMailFlow, WakeBlockerFlow, CatcherCaughtFlow DEF CatcherStep
<1>5. ASSUME NEW k \in Contribs, BlockerStep(k)
      PROVE  Flow'
  BY <1>5, BlockFlow, UnblockFlow, BlockerCaughtFlow DEF BlockerStep
<1>6. CASE UNCHANGED vars
  <2>1. Typed' /\ Turns' /\ Parked' /\ Held' /\ Serving'
    BY <1>6 DEF Flow, vars, Typed, Turns, Parked, Held, Serving
  <2>2. Delivered'
    BY <1>6 DEF Flow, vars, Delivered, With
  <2>3. Counted'
    BY <1>6
       DEF Flow, vars, Counted, Told, Heard, Mailed, ToSend, ToSignal, Woken, Underway,
           With, Released
  <2> QED
    BY <2>1, <2>2, <2>3 DEF Flow
<1> QED
  BY <1>1, <1>2, <1>3, <1>4, <1>5, <1>6 DEF Next, Finished

\* "pets which did not spawn but contributed in the VMKPlan block until their
\* cores have been returned": in every behaviour, whatever the signals do.
THEOREM CoresComeBack == Spec => []CoresReturned
<1>1. Spec => []Flow
  BY FlowInit, FlowStep, PTL DEF Spec
<1> QED
  BY <1>1, CoresAreReturned, PTL

-----------------------------------------------------------------------------
\* A step that neither releases a sigcatcher nor moves a signal or a message.
Quiet ==
  /\ \A k \in Contribs : Signalled(k)' = Signalled(k) /\ Watched(k)' = Watched(k)
  /\ \A k \in Contribs : \A place \in {"sigwait", "recv"} : gpc'[k] = place <=> gpc[k] = place
  /\ \A c \in Children : cpc'[c] = "send" <=> cpc[c] = "send"
  /\ \A c \in Children : cpc[c] = "send" => serving'[c] = serving[c]
  /\ pending' = pending /\ mail' = mail

\* The spawner enters: quiet.
LEMMA SpawnerEnterQuiet ==
  ASSUME Flow, SpawnerEnter
  PROVE  Quiet
<1>1. ASSUME NEW j \in Contribs
      PROVE  Watched(j)' = Watched(j)
  BY CountsOf DEF Watched, SpawnerEnter
<1> QED
  BY <1>1 DEF Quiet, Signalled, ToSignal, SpawnerEnter, Catcher, Posts

\* A handshake is heard: quiet.
LEMMA RecvHandshakeQuiet ==
  ASSUME Flow, RecvHandshake
  PROVE  Quiet
BY DEF Quiet, Signalled, ToSignal, Watched, RecvHandshake, Catcher, Posts

\* The spawner releases a child: quiet.
LEMMA ReleaseChildQuiet ==
  ASSUME Flow, ReleaseChild
  PROVE  Quiet
<1>1. ASSUME NEW j \in Contribs
      PROVE  Signalled(j)' = Signalled(j)
  BY ContribFacts DEF Signalled, ToSignal, ReleaseChild
<1> QED
  BY <1>1 DEF Quiet, Watched, ReleaseChild, Catcher, Posts

\* The spawner moves on in VMK::exit: quiet.
LEMMA SpawnerExitQuiet ==
  ASSUME Flow, SpawnerExit
  PROVE  Quiet
BY DEF Quiet, Signalled, ToSignal, Watched, SpawnerExit, Catcher, Posts

\* A contributor enters, which does not release its sigcatcher yet: quiet.
LEMMA ReleaseBlockerQuiet ==
  ASSUME Flow, NEW k \in Contribs, ReleaseBlocker(k)
  PROVE  Quiet
<1>1. ASSUME NEW j \in Contribs
      PROVE  Watched(j)' = Watched(j)
  BY CountsOf DEF Flow, Typed, Watched, ReleaseBlocker, Step
<1> QED
  BY <1>1 DEF Quiet, Signalled, ToSignal, ReleaseBlocker, Catcher, Posts

\* A contributor sends its handshake: quiet.
LEMMA SendHandshakeQuiet ==
  ASSUME Flow, NEW k \in Contribs, SendHandshake(k)
  PROVE  Quiet
<1>1. ASSUME NEW j \in Contribs
      PROVE  Watched(j)' = Watched(j)
  BY DEF Watched, SendHandshake, Step
<1> QED
  BY <1>1 DEF Quiet, Signalled, ToSignal, SendHandshake, Catcher, Posts

\* A contributor moves on in VMK::exit: quiet.
LEMMA ContributorExitQuiet ==
  ASSUME Flow, NEW k \in Contribs, ContributorExit(k)
  PROVE  Quiet
<1>1. ASSUME NEW j \in Contribs
      PROVE  Watched(j)' = Watched(j)
  BY DEF Flow, Typed, Watched, ContributorExit, Step
<1> QED
  BY <1>1 DEF Quiet, Signalled, ToSignal, ContributorExit, Catcher, Posts

\* A child returns from user code: all its contributors are still to be signalled: quiet.
LEMMA CallBackQuiet ==
  ASSUME Flow, NEW c \in Children, CallBack(c)
  PROVE  Quiet
<1>s. PICK n \in 0 .. NContribs : n = Following(c, 0)
  BY FollowingFacts, ConstantFacts
<1>f. /\ serving' = [serving EXCEPT ![c] = n]
      /\ cpc' = [cpc EXCEPT ![c] = IF n = 0 THEN "finish" ELSE "kill"]
  BY <1>s DEF CallBack, Serve
<1>n. \/ n = 0 /\ \A j \in Contribs : ChildOf[j] = c => j <= 0
      \/ /\ n \in Contribs /\ ChildOf[n] = c /\ 0 < n
         /\ \A j \in Contribs : ChildOf[j] = c /\ 0 < j => n <= j
  BY <1>s, FollowingFacts
<1>1. ASSUME NEW j \in Contribs
      PROVE  Signalled(j)' = Signalled(j)
  <2>1. returned'[ChildOf[j]] = (IF ChildOf[j] = c THEN returned[c] + 1 ELSE returned[ChildOf[j]])
        /\ returned[ChildOf[j]] \in Int
    BY CountsOf DEF Flow, Typed, CallBack
  <2>2. CASE ChildOf[j] = c
    <3>1. j > 0 /\ n # 0 /\ n \in Int /\ n <= j
      BY <1>n, <2>2, ConstantFacts
    <3>2. cpc'[c] = "kill" /\ serving'[c] = n /\ cpc[c] = "callback"
      BY <1>f, <3>1 DEF Flow, Typed, CallBack
    <3> QED
      BY <2>1, <2>2, <3>1, <3>2 DEF Signalled, ToSignal
  <2>3. CASE ChildOf[j] # c
    <3>1. /\ cpc'[ChildOf[j]] = cpc[ChildOf[j]]
          /\ serving'[ChildOf[j]] = serving[ChildOf[j]]
      BY <1>f, <2>3
    <3> QED
      BY <2>1, <2>3, <3>1 DEF Signalled, ToSignal
  <2> QED
    BY <2>2, <2>3
<1>2. ASSUME NEW d \in Children
      PROVE  /\ cpc'[d] = "send" <=> cpc[d] = "send"
             /\ cpc[d] = "send" => serving'[d] = serving[d]
  BY DEF Flow, Typed, Turns, Parked, CallBack, Serve, Spawner, Catcher, Posts
<1> QED
  BY <1>1, <1>2 DEF Quiet, Watched, CallBack, Catcher, Posts

\* A child goes on to its next contributor, which it has not signalled yet: quiet.
LEMMA SentQuiet ==
  ASSUME Flow, NEW c \in Children, Sent(c)
  PROVE  Quiet
<1>c. PICK k \in Contribs : k = serving[c] /\ ChildOf[k] = c /\ cpc[c] = "sent" /\ k \in Nat
  BY ConstantFacts DEF Flow, Serving, Sent
<1>s. PICK n \in 0 .. NContribs : n = Following(c, k)
  BY FollowingFacts, ConstantFacts
<1>f. /\ serving' = [serving EXCEPT ![c] = n]
      /\ cpc' = [cpc EXCEPT ![c] = IF n = 0 THEN "finish" ELSE "kill"]
  BY <1>c, <1>s DEF Sent, Serve
<1>n. \/ n = 0 /\ \A j \in Contribs : ChildOf[j] = c => j <= k
      \/ /\ n \in Contribs /\ ChildOf[n] = c /\ k < n
         /\ \A j \in Contribs : ChildOf[j] = c /\ k < j => n <= j
  BY <1>s, FollowingFacts, <1>c
<1>1. ASSUME NEW j \in Contribs
      PROVE  Signalled(j)' = Signalled(j)
  <2>1. returned' = returned
    BY DEF Sent
  <2>2. CASE ChildOf[j] = c
    <3>1. /\ cpc[c] = "sent" /\ serving[c] = k /\ serving'[c] = n
          /\ cpc'[c] = IF n = 0 THEN "finish" ELSE "kill"
      BY <1>c, <1>f DEF Flow, Typed
    <3>2. IF n = 0 THEN j <= k ELSE n \in Int /\ k < n /\ (k < j => n <= j)
      BY <1>n, <2>2, ConstantFacts
    <3> QED
      BY CountsOf, <2>1, <2>2, <3>1, <3>2 DEF Signalled, ToSignal
  <2>3. CASE ChildOf[j] # c
    <3>1. /\ cpc'[ChildOf[j]] = cpc[ChildOf[j]]
          /\ serving'[ChildOf[j]] = serving[ChildOf[j]]
      BY <1>f, <2>3
    <3> QED
      BY <2>1, <3>1 DEF Signalled, ToSignal
  <2> QED
    BY <2>2, <2>3
<1>2. ASSUME NEW d \in Children
      PROVE  /\ cpc'[d] = "send" <=> cpc[d] = "send"
             /\ cpc[d] = "send" => serving'[d] = serving[d]
  BY DEF Flow, Typed, Turns, Parked, Sent, Serve, Spawner, Catcher, Posts
<1> QED
  BY <1>1, <1>2 DEF Quiet, Watched, Sent, Catcher, Posts

\* The spawner catches a child: quiet.
LEMMA ChildCaughtQuiet ==
  ASSUME Flow, NEW c \in Children, ChildCaught(c)
  PROVE  Quiet
<1>1. ASSUME NEW j \in Contribs
      PROVE  Signalled(j)' = Signalled(j)
  BY ContribFacts DEF Signalled, ToSignal, ChildCaught
<1> QED
  BY <1>1 DEF Quiet, Watched, ChildCaught, Catcher, Posts

\* A sigcatcher that has its signal and its message wakes a blocker: quiet.
LEMMA WakeBlockerQuiet ==
  ASSUME Flow, NEW k \in Contribs, WakeBlocker(k)
  PROVE  Quiet
BY DEF Quiet, Signalled, ToSignal, Watched, WakeBlocker, Posts

\* A sigcatcher that is through is caught: quiet.
LEMMA CatcherCaughtQuiet ==
  ASSUME Flow, NEW k \in Contribs, CatcherCaught(k)
  PROVE  Quiet
<1>1. ASSUME NEW j \in Contribs
      PROVE  Watched(j)' = Watched(j)
  BY DEF Watched, CatcherCaught, Step
<1> QED
  BY <1>1 DEF Quiet, Signalled, ToSignal, CatcherCaught, Posts

\* A blocker begins to wait: quiet.
LEMMA BlockQuiet ==
  ASSUME Flow, NEW k \in Contribs, Block(k)
  PROVE  Quiet
BY DEF Quiet, Signalled, ToSignal, Watched, Block, Spawner, Catcher, Posts

\* A blocker goes on: quiet.
LEMMA UnblockQuiet ==
  ASSUME Flow, NEW k \in Contribs, Unblock(k)
  PROVE  Quiet
BY DEF Quiet, Signalled, ToSignal, Watched, Unblock, Spawner, Catcher, Posts

\* A blocker is caught: quiet.
LEMMA BlockerCaughtQuiet ==
  ASSUME Flow, NEW k \in Contribs, BlockerCaught(k)
  PROVE  Quiet
<1>1. ASSUME NEW j \in Contribs
      PROVE  Watched(j)' = Watched(j)
  BY DEF Watched, BlockerCaught, Step
<1> QED
  BY <1>1 DEF Quiet, Signalled, ToSignal, BlockerCaught, Catcher, Posts

-----------------------------------------------------------------------------
\* The sets that Matched counts are finite.
LEMMA FiniteFacts ==
  ASSUME Flow, NEW p \in Processes, NEW place
  PROVE  /\ IsFiniteSet(At(p, place)) /\ Cardinality(At(p, place)) \in Nat
         /\ Cardinality(At(p, place)) <= NContribs
         /\ IsFiniteSet(Unsignalled(p)) /\ Cardinality(Unsignalled(p)) \in Nat
         /\ IsFiniteSet(Owing(p)) /\ Cardinality(Owing(p)) \in Nat
         /\ IsFiniteSet(mail[p]) /\ Cardinality(mail[p]) \in Nat
         /\ pending[p] \in Nat
<1>1. IsFiniteSet(Contribs) /\ Cardinality(Contribs) = NContribs
  BY ConstantFacts, FS_Interval
<1>2. IsFiniteSet(Children)
  BY ConstantFacts, FS_Interval
<1>3. At(p, place) \in SUBSET Contribs /\ Unsignalled(p) \in SUBSET Contribs
      /\ Owing(p) \in SUBSET Children /\ mail[p] \in SUBSET Contribs /\ pending[p] \in Nat
  BY DEF At, Unsignalled, Owing, Flow, Typed
<1>4. IsFiniteSet(At(p, place)) /\ Cardinality(At(p, place)) <= NContribs
  BY <1>1, <1>3, FS_Subset
<1>5. IsFiniteSet(Unsignalled(p)) /\ IsFiniteSet(mail[p]) /\ IsFiniteSet(Owing(p))
  BY <1>1, <1>2, <1>3, FS_Subset
<1> QED
  BY <1>3, <1>4, <1>5, FS_CardinalityType

\* A quiet step leaves all the sets that Matched counts as they are.
LEMMA QuietMatched ==
  ASSUME Flow, Matched, Quiet
  PROVE  Matched'
<1> SUFFICES ASSUME NEW p \in Processes
             PROVE  /\ pending'[p] + Cardinality(At(p, "recv"))' =
                         Cardinality(Owing(p))' + Cardinality(mail'[p])
                    /\ Cardinality(At(p, "sigwait"))' = pending'[p] + Cardinality(Unsignalled(p))'
  BY DEF Matched
<1>1. At(p, "recv")' = At(p, "recv") /\ At(p, "sigwait")' = At(p, "sigwait")
  BY DEF Quiet, At
<1>2. Unsignalled(p)' = Unsignalled(p)
  BY DEF Quiet, Unsignalled
<1>3. Owing(p)' = Owing(p)
  BY DEF Quiet, Owing
<1> QED
  BY <1>1, <1>2, <1>3 DEF Quiet, Matched

\* A contributor releases its sigcatcher: one more of its process waits, and one
\* more contributor is to be signalled.
LEMMA ReleaseCatcherMatched ==
  ASSUME Flow, Matched, NEW k \in Contribs, ReleaseCatcher(k)
  PROVE  Matched'
<1> SUFFICES ASSUME NEW p \in Processes
             PROVE  /\ pending'[p] + Cardinality(At(p, "recv"))' =
                         Cardinality(Owing(p))' + Cardinality(mail'[p])
                    /\ Cardinality(At(p, "sigwait"))' = pending'[p] + Cardinality(Unsignalled(p))'
  BY DEF Matched
<1>1. /\ At(p, "recv")' = At(p, "recv") /\ Owing(p)' = Owing(p) /\ mail' = mail
      /\ pending' = pending
  BY DEF Flow, Typed, At, Owing, ReleaseCatcher, Posts
<1>2. \A j \in Contribs : /\ Signalled(j)' = Signalled(j)
                          /\ Watched(j)' = Watched(j) + (IF j = k THEN 1 ELSE 0)
  <2> SUFFICES ASSUME NEW j \in Contribs
               PROVE  /\ Signalled(j)' = Signalled(j)
                      /\ Watched(j)' = Watched(j) + (IF j = k THEN 1 ELSE 0)
    OBVIOUS
  <2>1. Signalled(j)' = Signalled(j)
    BY DEF Signalled, ToSignal, ReleaseCatcher
  <2>2. Watched(j)' = Watched(j) + (IF j = k THEN 1 ELSE 0)
    BY ContribFacts DEF Flow, Typed, Watched, ReleaseCatcher, Step
  <2> QED
    BY <2>1, <2>2
<1>3. Signalled(k) = Watched(k) /\ Watched(k) \in Int
  <2>1. Watched(k) = round[k] - 1
    BY DEF Watched, ReleaseCatcher, Step
  <2> QED
    BY <2>1, Ahead
<1>4. CASE p = Process[k]
  <2>1. At(p, "sigwait")' = At(p, "sigwait") \cup {k} /\ k \notin At(p, "sigwait")
    BY <1>4 DEF Flow, Typed, At, ReleaseCatcher
  <2>2. Unsignalled(p)' = Unsignalled(p) \cup {k} /\ k \notin Unsignalled(p)
    BY <1>2, <1>3, <1>4, Ahead DEF Unsignalled
  <2>3. Cardinality(At(p, "sigwait"))' = Cardinality(At(p, "sigwait")) + 1
    BY <2>1, FiniteFacts, FS_AddElement
  <2>4. Cardinality(Unsignalled(p))' = Cardinality(Unsignalled(p)) + 1
    BY <2>2, FiniteFacts, FS_AddElement
  <2> QED
    BY <1>1, <2>3, <2>4, FiniteFacts DEF Matched
<1>5. CASE p # Process[k]
  <2>1. At(p, "sigwait")' = At(p, "sigwait") /\ Unsignalled(p)' = Unsignalled(p)
    BY <1>2, <1>5, Ahead DEF At, Unsignalled, ReleaseCatcher
  <2> QED
    BY <1>1, <2>1 DEF Matched
<1> QED
  BY <1>4, <1>5

\* One more signal is pending and one more message is owed; one contributor less is
\* to be signalled.
LEMMA KillMatched ==
  ASSUME Flow, Matched, Queued, NEW c \in Children, Kill(c)
  PROVE  Matched'
<1>0. PICK k \in Contribs : k = serving[c] /\ ChildOf[k] = c /\ cpc[c] = "kill"
  BY DEF Flow, Serving, Kill
<1>p. PICK q \in Processes : q = Process[k]
  BY ContribFacts
<1>t. /\ pending' = [pending EXCEPT ![q] = @ + 1]
      /\ cpc' = [cpc EXCEPT ![c] = "send"] /\ serving' = serving /\ returned' = returned
      /\ mail' = mail
  BY <1>0, <1>p DEF Kill
<1>2. \A j \in Contribs : /\ Signalled(j)' = Signalled(j) + (IF j = k THEN 1 ELSE 0)
                          /\ Watched(j)' = Watched(j)
  <2> SUFFICES ASSUME NEW j \in Contribs
               PROVE  /\ Signalled(j)' = Signalled(j) + (IF j = k THEN 1 ELSE 0)
                      /\ Watched(j)' = Watched(j)
    OBVIOUS
  <2>1. Signalled(j)' = Signalled(j) + (IF j = k THEN 1 ELSE 0)
    <3>1. /\ j \in Int /\ k \in Int /\ ChildOf[j] \in Children
          /\ returned[ChildOf[j]] \in Int
      BY ContribFacts DEF Flow, Typed
    <3>2. CASE ChildOf[j] = c
      <4>1. cpc'[c] = "send"
        BY <1>t DEF Flow, Typed
      <4> QED
        BY <1>0, <1>t, <3>1, <4>1 DEF Signalled, ToSignal
    <3>3. CASE ChildOf[j] # c
      <4>1. cpc'[ChildOf[j]] = cpc[ChildOf[j]] /\ j # k
        BY <1>0, <1>t, <3>3
      <4> QED
        BY <1>t, <3>1, <4>1 DEF Signalled, ToSignal
    <3> QED
      BY <3>2, <3>3
  <2>2. Watched(j)' = Watched(j)
    BY DEF Watched, Kill
  <2> QED
    BY <2>1, <2>2
<1>3. Signalled(k) + 1 = Watched(k)
  <2>1. Signalled(k) = returned[c] - 1
    BY <1>0, ContribFacts DEF Signalled, ToSignal
  <2> QED
    BY <1>0, <2>1, Ahead
<1> SUFFICES ASSUME NEW p \in Processes
             PROVE  /\ pending'[p] + Cardinality(At(p, "recv"))' =
                         Cardinality(Owing(p))' + Cardinality(mail'[p])
                    /\ Cardinality(At(p, "sigwait"))' = pending'[p] + Cardinality(Unsignalled(p))'
  BY DEF Matched
<1>1. \A place : At(p, place)' = At(p, place)
  BY DEF At, Kill, Catcher
<1>4. CASE p = q
  <2>1. Owing(p)' = Owing(p) \cup {c} /\ c \notin Owing(p)
    BY <1>0, <1>p, <1>t, <1>4 DEF Flow, Typed, Owing
  <2>2. Unsignalled(p)' = Unsignalled(p) \ {k} /\ k \in Unsignalled(p)
    BY <1>2, <1>3, <1>p, <1>4, Ahead DEF Unsignalled
  <2>3. Cardinality(Owing(p))' = Cardinality(Owing(p)) + 1
    BY <2>1, FiniteFacts, FS_AddElement
  <2>4. Cardinality(Unsignalled(p))' = Cardinality(Unsignalled(p)) - 1
    BY <2>2, FiniteFacts, FS_RemoveElement
  <2>5. pending'[p] = pending[p] + 1
    BY <1>t, <1>4 DEF Flow, Typed
  <2> QED
    BY <1>1, <1>t, <2>3, <2>4, <2>5, FiniteFacts DEF Matched
<1>5. CASE p # q
  <2>1. Owing(p)' = Owing(p)
    BY <1>0, <1>p, <1>t, <1>5 DEF Owing
  <2>2. Unsignalled(p)' = Unsignalled(p)
    BY <1>2, <1>p, <1>5, Ahead DEF Unsignalled
  <2>3. pending'[p] = pending[p]
    BY <1>t, <1>5
  <2> QED
    BY <1>1, <1>t, <2>1, <2>2, <2>3 DEF Matched
<1> QED
  BY <1>4, <1>5

\* One message less is owed and one more is under way.
LEMMA SendMatched ==
  ASSUME Flow, Matched, NEW c \in Children, Send(c)
  PROVE  Matched'
<1>0. PICK k \in Contribs : k = serving[c] /\ ChildOf[k] = c /\ cpc[c] = "send"
  BY DEF Flow, Serving, Send
<1>p. PICK q \in Processes : q = Process[k]
  BY ContribFacts
<1>t. /\ mail' = [mail EXCEPT ![q] = @ \cup {k}]
      /\ cpc' = [cpc EXCEPT ![c] = "sent"] /\ serving' = serving /\ returned' = returned
      /\ pending' = pending
  BY <1>0, <1>p DEF Send
<1>2. \A j \in Contribs : Signalled(j)' = Signalled(j) /\ Watched(j)' = Watched(j)
  BY DEF Signalled, ToSignal, Watched, Send
<1>u. k \notin mail[q]
  <2>1. Mailed(k) + 1 <= round[k]
    <3>1. Mailed(k) = returned[c] - 1
      BY <1>0 DEF Mailed, ToSend
    <3> QED
      BY <1>0, <3>1, Ahead
  <2>2. ~ Underway(k)
    BY <2>1, CountsOf, Ahead
  <2> QED
    BY <1>p, <2>2 DEF Underway
<1> SUFFICES ASSUME NEW p \in Processes
             PROVE  /\ pending'[p] + Cardinality(At(p, "recv"))' =
                         Cardinality(Owing(p))' + Cardinality(mail'[p])
                    /\ Cardinality(At(p, "sigwait"))' = pending'[p] + Cardinality(Unsignalled(p))'
  BY DEF Matched
<1>1. \A place : At(p, place)' = At(p, place)
  BY DEF At, Send, Catcher
<1>3. Unsignalled(p)' = Unsignalled(p)
  BY <1>2 DEF Unsignalled
<1>4. CASE p = q
  <2>1. Owing(p)' = Owing(p) \ {c} /\ c \in Owing(p)
    BY <1>0, <1>p, <1>t, <1>4 DEF Flow, Typed, Owing
  <2>2. mail'[p] = mail[p] \cup {k}
    BY <1>t, <1>4 DEF Flow, Typed
  <2>3. Cardinality(Owing(p))' = Cardinality(Owing(p)) - 1
    BY <2>1, FiniteFacts, FS_RemoveElement
  <2>4. Cardinality(mail'[p]) = Cardinality(mail[p]) + 1
    BY <1>u, <1>4, <2>2, FiniteFacts, FS_AddElement
  <2> QED
    BY <1>1, <1>3, <1>t, <2>3, <2>4, FiniteFacts DEF Matched
<1>5. CASE p # q
  <2>1. Owing(p)' = Owing(p)
    BY <1>0, <1>p, <1>t, <1>5 DEF Owing
  <2>2. mail'[p] = mail[p]
    BY <1>t, <1>5
  <2> QED
    BY <1>1, <1>3, <1>t, <2>1, <2>2 DEF Matched
<1> QED
  BY <1>4, <1>5

\* One signal less is pending; one sigcatcher receives that waited before.
LEMMA SigWaitMatched ==
  ASSUME Flow, Matched, NEW k \in Contribs, SigWait(k)
  PROVE  Matched'
<1>p. PICK q \in Processes : q = Process[k]
  BY ContribFacts
<1>t. /\ pending' = [pending EXCEPT ![q] = @ - 1] /\ pending[q] > 0
      /\ gpc' = [gpc EXCEPT ![k] = "recv"] /\ gpc[k] = "sigwait"
      /\ mail' = mail /\ cpc' = cpc /\ serving' = serving /\ returned' = returned
      /\ kpc' = kpc /\ round' = round
  BY <1>p DEF SigWait
<1> SUFFICES ASSUME NEW p \in Processes
             PROVE  /\ pending'[p] + Cardinality(At(p, "recv"))' =
                         Cardinality(Owing(p))' + Cardinality(mail'[p])
                    /\ Cardinality(At(p, "sigwait"))' = pending'[p] + Cardinality(Unsignalled(p))'
  BY DEF Matched
<1>1. Owing(p)' = Owing(p)
  BY <1>t DEF Owing
<1>2. Unsignalled(p)' = Unsignalled(p)
  BY <1>t DEF Unsignalled, Signalled, ToSignal, Watched
<1>4. CASE p = q
  <2>1. At(p, "sigwait")' = At(p, "sigwait") \ {k} /\ k \in At(p, "sigwait")
    BY <1>p, <1>t, <1>4 DEF Flow, Typed, At
  <2>2. At(p, "recv")' = At(p, "recv") \cup {k} /\ k \notin At(p, "recv")
    BY <1>p, <1>t, <1>4 DEF Flow, Typed, At
  <2>3. Cardinality(At(p, "sigwait"))' = Cardinality(At(p, "sigwait")) - 1
    BY <2>1, FiniteFacts, FS_RemoveElement
  <2>4. Cardinality(At(p, "recv"))' = Cardinality(At(p, "recv")) + 1
    BY <2>2, FiniteFacts, FS_AddElement
  <2>5. pending'[p] = pending[p] - 1
    BY <1>t, <1>4 DEF Flow, Typed
  <2> QED
    BY <1>1, <1>2, <1>t, <2>3, <2>4, <2>5, FiniteFacts DEF Matched
<1>5. CASE p # q
  <2>1. \A place : At(p, place)' = At(p, place)
    BY <1>p, <1>t, <1>5 DEF At
  <2>2. pending'[p] = pending[p]
    BY <1>t, <1>5
  <2> QED
    BY <1>1, <1>2, <1>t, <2>1, <2>2 DEF Matched
<1> QED
  BY <1>4, <1>5

\* One message less is under way, and one sigcatcher less receives.
LEMMA RecvMailMatched ==
  ASSUME Flow, Matched, NEW k \in Contribs, RecvMail(k)
  PROVE  Matched'
<1>p. PICK q \in Processes : q = Process[k]
  BY ContribFacts
<1>t. /\ gpc' = [gpc EXCEPT ![k] = "wake"] /\ gpc[k] = "recv"
      /\ pending' = pending /\ cpc' = cpc /\ serving' = serving /\ returned' = returned
      /\ kpc' = kpc /\ round' = round
  BY DEF RecvMail
<1>m. PICK i \in mail[q] : mail' = [mail EXCEPT ![q] = @ \ {i}]
  BY <1>p DEF RecvMail
<1> SUFFICES ASSUME NEW p \in Processes
             PROVE  /\ pending'[p] + Cardinality(At(p, "recv"))' =
                         Cardinality(Owing(p))' + Cardinality(mail'[p])
                    /\ Cardinality(At(p, "sigwait"))' = pending'[p] + Cardinality(Unsignalled(p))'
  BY DEF Matched
<1>1. Owing(p)' = Owing(p)
  BY <1>t DEF Owing
<1>2. Unsignalled(p)' = Unsignalled(p)
  BY <1>t DEF Unsignalled, Signalled, ToSignal, Watched
<1>3. At(p, "sigwait")' = At(p, "sigwait")
  BY <1>t DEF At
<1>4. CASE p = q
  <2>1. At(p, "recv")' = At(p, "recv") \ {k} /\ k \in At(p, "recv")
    BY <1>p, <1>t, <1>4 DEF Flow, Typed, At
  <2>2. mail'[p] = mail[p] \ {i} /\ i \in mail[p]
    BY <1>m, <1>4 DEF Flow, Typed
  <2>3. Cardinality(At(p, "recv"))' = Cardinality(At(p, "recv")) - 1
    BY <2>1, FiniteFacts, FS_RemoveElement
  <2>4. Cardinality(mail'[p]) = Cardinality(mail[p]) - 1
    BY <2>2, FiniteFacts, FS_RemoveElement
  <2> QED
    BY <1>1, <1>2, <1>3, <1>t, <2>3, <2>4, FiniteFacts DEF Matched
<1>5. CASE p # q
  <2>1. At(p, "recv")' = At(p, "recv")
    BY <1>p, <1>t, <1>5 DEF At
  <2>2. mail'[p] = mail[p]
    BY <1>m, <1>5
  <2> QED
    BY <1>1, <1>2, <1>3, <1>t, <2>1, <2>2 DEF Matched
<1> QED
  BY <1>4, <1>5

\* In the beginning there is nothing to match.
LEMMA MatchedInit ==
  Init => Matched
<1> SUFFICES ASSUME Init, NEW p \in Processes
             PROVE  /\ pending[p] + Cardinality(At(p, "recv")) =
                         Cardinality(Owing(p)) + Cardinality(mail[p])
                    /\ Cardinality(At(p, "sigwait")) = pending[p] + Cardinality(Unsignalled(p))
  BY DEF Matched
<1>1. At(p, "recv") = {} /\ At(p, "sigwait") = {} /\ Owing(p) = {} /\ mail[p] = {}
      /\ pending[p] = 0
  BY DEF Init, At, Owing
<1>2. Unsignalled(p) = {}
  BY ContribFacts DEF Init, Unsignalled, Signalled, ToSignal, Watched
<1> QED
  BY <1>1, <1>2, FS_EmptySet

\* With real-time signals every step keeps signals and messages matched.
LEMMA MatchedStep ==
  ASSUME Flow, Matched, Queued, [Next]_vars
  PROVE  Matched'
<1>1. CASE SpawnerStep
  BY <1>1, QuietMatched, SpawnerEnterQuiet, RecvHandshakeQuiet, ReleaseChildQuiet,
     SpawnerExitQuiet
     DEF SpawnerStep
<1>2. ASSUME NEW c \in Children, ChildStep(c)
      PROVE  Matched'
  BY <1>2, QuietMatched, KillMatched, SendMatched, CallBackQuiet, SentQuiet,
     ChildCaughtQuiet
     DEF ChildStep
<1>3. ASSUME NEW k \in Contribs, ContributorStep(k)
      PROVE  Matched'
  BY <1>3, QuietMatched, ReleaseCatcherMatched, ReleaseBlockerQuiet, SendHandshakeQuiet,
     ContributorExitQuiet
     DEF ContributorStep
<1>4. ASSUME NEW k \in Contribs, CatcherStep(k)
      PROVE  Matched'
  BY <1>4, QuietMatched, SigWaitMatched, RecvMailMatched, WakeBlockerQuiet,
     CatcherCaughtQuiet
     DEF CatcherStep
<1>5. ASSUME NEW k \in Contribs, BlockerStep(k)
      PROVE  Matched'
  BY <1>5, QuietMatched, BlockQuiet, UnblockQuiet, BlockerCaughtQuiet DEF BlockerStep
<1>6. CASE UNCHANGED vars
  <2>1. Quiet
    BY <1>6 DEF vars, Quiet, Signalled, ToSignal, Watched
  <2> QED
    BY <2>1, QuietMatched
<1> QED
  BY <1>1, <1>2, <1>3, <1>4, <1>5, <1>6 DEF Next, Finished

\* With a standard signal at most one is pending, and none where nobody contributes.
LEMMA OnePending ==
  ASSUME Flow, ~ Queued, NEW p \in Processes, pending[p] <= 1, pending[p] <= NContribs,
         [Next]_vars
  PROVE  pending'[p] <= 1 /\ pending'[p] <= NContribs
<1>1. ASSUME NEW c \in Children, Kill(c)
      PROVE  pending'[p] <= 1 /\ pending'[p] <= NContribs
  <2>1. serving[c] \in Contribs
    BY <1>1 DEF Flow, Serving, Kill
  <2>2. NContribs >= 1 /\ NContribs \in Nat
    BY <2>1, ConstantFacts
  <2>3. pending'[p] = 1 \/ pending'[p] = pending[p]
    BY <1>1 DEF Kill
  <2> QED
    BY <2>2, <2>3
<1>2. ASSUME NEW k \in Contribs, SigWait(k)
      PROVE  pending'[p] <= 1 /\ pending'[p] <= NContribs
  <2>1. pending'[p] = pending[p] - 1 \/ pending'[p] = pending[p]
    BY <1>2 DEF SigWait
  <2> QED
    BY <2>1, ConstantFacts DEF Flow, Typed
<1>3. CASE pending' = pending
  BY <1>3
<1> QED
  BY <1>1, <1>2, <1>3
     DEF Next, SpawnerStep, SpawnerEnter, RecvHandshake, ReleaseChild, SpawnerExit,
         ContributorStep, ReleaseBlocker, ReleaseCatcher, SendHandshake,
         ContributorExit, ChildStep, CallBack, Send, Sent, ChildCaught, CatcherStep,
         RecvMail, WakeBlocker, CatcherCaught, BlockerStep, Block, Unblock,
         BlockerCaught, Finished, vars, Posts

\* The inductive invariant holds in every behaviour.
THEOREM Invariance ==
  Spec => []IInv
<1>1. Init => IInv
  BY FlowInit, MatchedInit, ConstantFacts DEF IInv, Flow, Init
<1>2. IInv /\ [Next]_vars => IInv'
  <2> SUFFICES ASSUME IInv, [Next]_vars
               PROVE  IInv'
    OBVIOUS
  <2>1. Flow /\ Flow'
    BY FlowStep DEF IInv, Flow
  <2>2. CASE Queued
    <3>1. Matched'
      BY <2>1, <2>2, MatchedStep DEF IInv
    <3> QED
      BY <2>1, <2>2, <3>1 DEF IInv, Flow
  <2>3. CASE ~ Queued
    <3>1. \A p \in Processes : pending'[p] <= 1 /\ pending'[p] <= NContribs
      BY <2>1, <2>3, OnePending DEF IInv
    <3> QED
      BY <2>1, <2>3, <3>1 DEF IInv, Flow
  <2> QED
    BY <2>2, <2>3
<1> QED
  BY <1>1, <1>2, PTL DEF Spec

\* No more signals are pending in a process than there are contributors.
LEMMA FewPending ==
  ASSUME IInv, NEW p \in Processes
  PROVE  pending[p] \in 0 .. NContribs
<1>1. Flow
  BY DEF IInv, Flow
<1>2. CASE Queued
  <2>1. Cardinality(At(p, "sigwait")) = pending[p] + Cardinality(Unsignalled(p))
    BY <1>2 DEF IInv, Matched
  <2> QED
    BY <1>1, <2>1, FiniteFacts, ConstantFacts
<1>3. CASE ~ Queued
  BY <1>3 DEF IInv, Typed
<1> QED
  BY <1>2, <1>3

\* A child has returned from user code at most once per round.
LEMMA ReturnedBounded ==
  ASSUME Flow
  PROVE  returned \in [Children -> 0 .. MaxRounds]
<1> SUFFICES ASSUME NEW c \in Children
             PROVE  returned[c] \in 0 .. MaxRounds
  BY DEF Flow, Typed
<1>1. returned[c] \in Nat /\ round[0] \in 0 .. MaxRounds /\ MaxRounds \in Nat
  BY ConstantFacts DEF Flow, Typed
<1>2. Released(c) \in Int /\ Released(c) <= round[0]
  BY <1>1 DEF Released
<1>3. returned[c] = Released(c) - (IF cpc[c] = "callback" THEN 1 ELSE 0)
  BY DEF Flow, Counted
<1> QED
  BY <1>1, <1>2, <1>3

\* Type correctness of the specification.
THEOREM TypeCorrect == Spec => []TypeOK
<1>1. IInv => TypeOK
  <2> SUFFICES ASSUME IInv
               PROVE  TypeOK
    OBVIOUS
  <2>1. pending \in [Processes -> 0 .. NContribs]
    BY FewPending DEF IInv, Typed
  <2>2. turn \in Children \cup Contribs
    BY ConstantFacts DEF IInv, Turns
  <2>3. returned \in [Children -> 0 .. MaxRounds]
    BY ReturnedBounded DEF IInv, Flow
  <2> QED
    BY <2>1, <2>2, <2>3 DEF IInv, Typed, Turns, TypeOK
<1> QED
  BY <1>1, Invariance, PTL

\* "this is so that no signals get missed!": with a real-time signal there is a
\* signal or a sigcatcher for every message, and a sigcatcher for every signal.
THEOREM SignalsAreCaught ==
  ASSUME Queued = TRUE
  PROVE  Spec => []NoSignalMissed
<1>1. IInv => NoSignalMissed
  <2> SUFFICES ASSUME IInv, NEW p \in Processes
               PROVE  /\ pending[p] + Cardinality(At(p, "recv")) =
                           Cardinality(Owing(p)) + Cardinality(mail[p])
                      /\ pending[p] <= Cardinality(At(p, "sigwait"))
    BY DEF NoSignalMissed, At, Owing
  <2>1. Flow
    BY DEF IInv, Flow
  <2>2. Matched
    BY DEF IInv
  <2> QED
    BY <2>1, <2>2, FiniteFacts DEF Matched
<1> QED
  BY <1>1, Invariance, PTL

=============================================================================
