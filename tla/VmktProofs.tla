---------------------------- MODULE VmktProofs ----------------------------
(***************************************************************************)
(* Proofs about Vmkt for any number of children and rounds: the inductive  *)
(* invariant, that no signal is lost and no identity is read too early,    *)
(* and the steps of the refinement of CatchRelease.                        *)
(***************************************************************************)
EXTENDS Vmkt, TLAPS

\* The places of the spawning PET, by what it is doing, and those of a child.
Creating == {"create", "created", "backSync1", "backSync2"}
Releasing == {"release", "lock1", "signal1"}
Catching == {"catch", "caught"}
Joining == {"join", "lockJoin", "signalJoin", "thread"}
ParentPlaces == Creating \union Releasing \union Catching \union Joining \union {"user", "done"}
ChildPlaces ==
  {"none", "lockSync1", "signalSync1", "prepare", "construct", "lockSync2", "signalSync2",
   "wait", "waiting", "callback", "running", "lockFinish", "signalFinish", "destruct", "gone"}

\* Every variable has its type; outside enter, exit and the like child is 1.
TypeOK ==
  /\ ppc \in ParentPlaces
  /\ child \in Children
  /\ ppc \in {"user", "done"} => child = 1
  /\ round \in 0 .. MaxRounds
  /\ cpc \in [Children -> ChildPlaces]
  /\ owner \in [Children -> [Syncs -> {"free", "parent", "child"}]]
  /\ cond \in [Children -> [Syncs -> {"nobody", "waiter", "woken"}]]
  /\ flag \in [Children -> {0, 1}]
  /\ released \in [Children -> {0, 1}]
  /\ arg \in [Children -> 0 .. MaxRounds]
  /\ tid \in [Children -> BOOLEAN]
  /\ pthid \in [Children -> BOOLEAN]
  /\ vm \in [Children -> {"none", "constructed", "destructed"}]
  /\ calls \in [Children -> Seq(Nat)]

\* vmkt_create has started on c; c has been told to wrap up.
Begun(c) == Created(c) \/ (c = child /\ ppc # "create")
Dismissed(c) == Joined(c) \/ (c = child /\ ppc = "thread")

\* Child c is about to wait for a release or waits for one; it has been released
\* and is not done.
AtHome(c) == cpc[c] = "wait" \/ (cpc[c] = "waiting" /\ cond[c]["1"] = "waiter")
Woke(c) == cpc[c] = "waiting" /\ cond[c]["1"] = "woken"
Away(c) == Woke(c) \/ cpc[c] \in {"callback", "running", "lockFinish"}

\* The first back-sync and the second of vmkt_create.
BackSyncs(c) ==
  /\ ~Begun(c) => cpc[c] = "none" /\ cond[c]["0"] = "nobody" /\ cond[c]["extra2"] = "nobody"
  /\ c = child /\ ppc = "created" =>
       /\ cpc[c] = "lockSync1"
       /\ cond[c]["0"] = "nobody" /\ cond[c]["extra2"] = "nobody"
  /\ c = child /\ ppc = "backSync1" =>
       /\ cond[c]["extra2"] = "nobody"
       /\ \/ cond[c]["0"] = "waiter" /\ cpc[c] \in {"lockSync1", "signalSync1"}
          \/ cond[c]["0"] = "woken" /\ cpc[c] \in {"prepare", "construct", "lockSync2"}
  /\ c = child /\ ppc = "backSync2" =>
       /\ cond[c]["0"] = "nobody"
       /\ \/ /\ cond[c]["extra2"] = "waiter"
             /\ cpc[c] \in {"prepare", "construct", "lockSync2", "signalSync2"}
          \/ cond[c]["extra2"] = "woken" /\ AtHome(c)

\* From the release to the catch.
Rounds(c) ==
  /\ Created(c) => cond[c]["extra2"] = "nobody"
  /\ Created(c) /\ ~Dismissed(c) =>
       \/ released[c] = 0 /\ cond[c]["0"] = "nobody" /\ AtHome(c)
       \/ released[c] = 1 /\ cond[c]["0"] = "nobody" /\ Away(c)
       \/ released[c] = 1 /\ cond[c]["0"] = "waiter" /\ (Away(c) \/ cpc[c] = "signalFinish")
       \/ released[c] = 1 /\ cond[c]["0"] = "woken" /\ AtHome(c)
  /\ Dismissed(c) =>
       /\ released[c] = 0 /\ cond[c]["0"] = "nobody"
       /\ Woke(c) \/ cpc[c] \in {"destruct", "gone"}
  /\ Joined(c) => cpc[c] = "gone"

\* What the spawning PET waits for, and for whom.
Waits(c) ==
  /\ cond[c]["0"] # "nobody" => c = child /\ ppc \in {"backSync1", "caught", "join"}
  /\ c = child /\ ppc = "caught" => cond[c]["0"] # "nobody"
  /\ cond[c]["1"] # "nobody" <=> cpc[c] = "waiting"
  /\ c = child /\ ppc \in {"signal1", "signalJoin"} => cpc[c] = "waiting"

\* Who holds the mutexes of c.
Mutexes(c) ==
  /\ ~Begun(c) => /\ owner[c]["0"] = "free" /\ owner[c]["1"] = "free"
                  /\ owner[c]["extra2"] = "free"
  /\ Begun(c) =>
       /\ owner[c]["0"] = "child" <=> cpc[c] \in {"signalSync1", "signalFinish"}
       /\ owner[c]["0"] = "parent" <=> cond[c]["0"] = "nobody"
       /\ owner[c]["extra2"] = "child" <=> cpc[c] = "signalSync2"
       /\ owner[c]["extra2"] = "parent" <=> cond[c]["extra2"] = "nobody"
       /\ owner[c]["1"] = "child" <=>
            cpc[c] \notin {"none", "lockSync1", "signalSync1", "prepare", "waiting"}
       /\ owner[c]["1"] = "parent" <=> c = child /\ ppc \in {"signal1", "signalJoin"}

\* Which children have been released and told to wrap up.
Flags(c) ==
  /\ ppc \in Creating => released[c] = 0
  /\ ppc \in Releasing => (released[c] = 1 <=> c < child)
  /\ ppc \in Catching => (released[c] = 1 <=> c >= child)
  /\ ppc = "user" => released[c] = released[1]
  /\ c = child /\ ppc \in Joining \ {"join"} => released[c] = 0
  /\ flag[c] = 1 <=> Joined(c) \/ (c = child /\ ppc \in Joining \ {"join"})

\* The argument of a release, and how many callbacks there have been.
Owed(c) ==
  \/ ppc \in Releasing /\ c >= child
  \/ released[c] = 1 /\ (Woke(c) \/ cpc[c] = "callback")
Arguments(c) ==
  /\ ppc \in Creating => round = 0
  /\ ppc \in Releasing => round >= 1
  /\ released[c] = 1 \/ (c = child /\ ppc \in {"lock1", "signal1"}) => arg[c] = round /\ round >= 1
  /\ Len(calls[c]) = IF Owed(c) THEN round - 1 ELSE round

\* When the identity of the thread is known to whom.
Identity(c) ==
  /\ tid[c] <=> Begun(c) /\ ~(c = child /\ ppc = "created")
  /\ cpc[c] \notin {"none", "lockSync1", "signalSync1", "prepare"} => pthid[c]
  /\ vm[c] # "none" => cpc[c] \notin {"none", "lockSync1", "signalSync1", "prepare", "construct"}

\* What is always true of child c.
Life(c) == BackSyncs(c) /\ Rounds(c) /\ Waits(c) /\ Mutexes(c) /\ Flags(c) /\ Arguments(c) /\ Identity(c)

\* The inductive invariant.
IInv == TypeOK /\ \A c \in Children : Life(c)

\* What is stored in one mutex or condition variable of one child.
LEMMA SetIn ==
  ASSUME NEW V, NEW f \in [Children -> [Syncs -> V]], NEW d \in Children
  PROVE  /\ \A s \in Syncs, v \in V :
              /\ [f EXCEPT ![d][s] = v] \in [Children -> [Syncs -> V]]
              /\ \A r \in Syncs : [f EXCEPT ![d][s] = v][d][r] = IF r = s THEN v ELSE f[d][r]
OBVIOUS

\* The branches of the steps that stand for several places.
JoinWait ==
  /\ ppc = "join" /\ released[child] = 1
  /\ cond[child]["0"] = "nobody" /\ StartWait(child, "0")
  /\ UNCHANGED <<ppc, child, round, cpc, flag, released, arg, tid, pthid, vm, calls>>
JoinCaught ==
  /\ ppc = "join" /\ released[child] = 1
  /\ EndWait("parent", child, "0")
  /\ released' = [released EXCEPT ![child] = 0]
  /\ UNCHANGED <<ppc, child, round, cpc, flag, arg, tid, pthid, vm, calls>>
LockAt(d, from, to, s) ==
  /\ ChildAt(d, from, to) /\ Lock("child", d, s)
  /\ UNCHANGED <<ppc, child, round, cond, flag, released, arg, tid, pthid, vm, calls>>
SignalAt(d, from, to, s) ==
  /\ ChildAt(d, from, to) /\ SignalUnlock(d, s)
  /\ UNCHANGED <<ppc, child, round, flag, released, arg, tid, pthid, vm, calls>>

\* A step of child d leaves the invariant to be shown for d alone.
LEMMA OthersStay ==
  ASSUME IInv, NEW d \in Children, TypeOK', Life(d)',
         ppc' = ppc, child' = child, round' = round, released' = released,
         \A c \in Children \ {d} :
           /\ cpc'[c] = cpc[c] /\ flag'[c] = flag[c] /\ arg'[c] = arg[c]
           /\ tid'[c] = tid[c] /\ pthid'[c] = pthid[c] /\ vm'[c] = vm[c]
           /\ calls'[c] = calls[c] /\ owner'[c] = owner[c] /\ cond'[c] = cond[c]
  PROVE  IInv'
<1> SUFFICES ASSUME NEW c \in Children PROVE Life(c)'
  BY DEF IInv
<1>1. CASE c # d
  BY <1>1
     DEF IInv, Life, BackSyncs, Rounds, Waits, Mutexes, Flags, Arguments,
         Identity, Begun, Created, Dismissed, Joined, AtHome, Woke, Away, Owed
<1> QED
  BY <1>1

-----------------------------------------------------------------------------
\* vmkt_create locks mutex 0 and the extra mutex 2 and starts the thread.
LEMMA CreateKeeps == ASSUME IInv, Create PROVE IInv'
<1> USE VmktAssumption DEF Children
<1>1. TypeOK'
  BY DEF Create, IInv, TypeOK, ParentPlaces, ChildPlaces, Syncs, Creating,
         Releasing, Catching, Joining
<1>2. ASSUME NEW c \in Children PROVE Life(c)'
  <2>1. Life(c) /\ Life(child) /\ TypeOK /\ Life(1) /\ 1 \in Children
    <3>1. TypeOK /\ child \in Children /\ 1 \in Children
      BY DEF IInv, TypeOK
    <3> QED
      BY <3>1 DEF IInv
  <2>2. /\ ppc = "create"
        /\ ppc' = "created"
        /\ child' = child
        /\ round' = round
        /\ released' = released
    BY <2>1 DEF Create
  <2>3. child \in 1 .. NChildren /\ c \in 1 .. NChildren /\ round \in Nat
        /\ (ppc \in {"user", "done"} => child = 1)
    BY <2>1 DEF TypeOK
  <2>4. CASE c # child
    <3>1. /\ cpc'[c] = cpc[c] /\ flag'[c] = flag[c] /\ released'[c] = released[c]
          /\ arg'[c] = arg[c] /\ tid'[c] = tid[c] /\ pthid'[c] = pthid[c]
          /\ vm'[c] = vm[c] /\ calls'[c] = calls[c] /\ owner'[c] = owner[c]
          /\ cond'[c] = cond[c]
      BY <2>1, <2>4 DEF Create
    <3>2. BackSyncs(c)'
      BY <2>1, <2>2, <2>3, <2>4, <3>1 DEF Life, BackSyncs, Begun, Created
    <3>3. Rounds(c)'
      BY <2>1, <2>2, <2>3, <2>4, <3>1
         DEF Life, Rounds, Created, Dismissed, Joined, AtHome, Woke, Away
    <3>4. Waits(c)'
      BY <2>1, <2>2, <2>3, <2>4, <3>1 DEF Life, Waits
    <3>5. Mutexes(c)'
      BY <2>1, <2>2, <2>3, <2>4, <3>1 DEF Life, Mutexes, Begun, Created
    <3>6. Flags(c)'
      BY <2>1, <2>2, <2>3, <2>4, <3>1
         DEF Life, Flags, Joined, Creating, Releasing, Catching
    <3>7. Arguments(c)'
      BY <2>1, <2>2, <2>3, <2>4, <3>1
         DEF Life, Arguments, Owed, Creating, Releasing
    <3>8. Identity(c)'
      BY <2>1, <2>2, <2>3, <2>4, <3>1 DEF Life, Identity, Begun, Created
    <3> QED
      BY <3>2, <3>3, <3>4, <3>5, <3>6, <3>7, <3>8 DEF Life
  <2>5. CASE c = child
    <3>1. /\ cpc'[child] = "lockSync1" /\ flag'[child] = flag[child]
          /\ released'[child] = released[child] /\ arg'[child] = arg[child]
          /\ tid'[child] = tid[child] /\ pthid'[child] = pthid[child]
          /\ vm'[child] = vm[child] /\ calls'[child] = calls[child]
      BY <2>1 DEF Create, TypeOK
    <3>2. /\ owner'[child]["0"] = "parent"
          /\ owner'[child]["1"] = owner[child]["1"]
          /\ owner'[child]["extra2"] = "parent"
          /\ cond'[child] = cond[child]
      BY <2>1, SetIn DEF Create, TypeOK, Syncs
    <3>3. BackSyncs(c)'
      BY <2>1, <2>2, <2>3, <2>5, <3>1, <3>2 DEF Life, BackSyncs, Begun, Created
    <3>4. Rounds(c)'
      BY <2>1, <2>2, <2>3, <2>5, <3>1, <3>2 DEF Rounds, Created, Dismissed, Joined
    <3>5. Waits(c)'
      BY <2>1, <2>2, <2>3, <2>5, <3>1, <3>2
         DEF Life, Waits, BackSyncs, Begun, Created
    <3>6. Mutexes(c)'
      BY <2>1, <2>2, <2>3, <2>5, <3>1, <3>2
         DEF Life, Mutexes, BackSyncs, Begun, Created
    <3>7. Flags(c)'
      BY <2>1, <2>2, <2>3, <2>5, <3>1, <3>2
         DEF Life, Flags, Joined, Creating, Catching, Joining
    <3>8. Arguments(c)'
      BY <2>1, <2>2, <2>3, <2>5, <3>1, <3>2
         DEF Life, Arguments, Owed, Creating, Releasing
    <3>9. Identity(c)'
      BY <2>1, <2>2, <2>3, <2>5, <3>1, <3>2
         DEF Life, Identity, BackSyncs, Begun, Created
    <3> QED
      BY <3>3, <3>4, <3>5, <3>6, <3>7, <3>8, <3>9 DEF Life
  <2> QED
    BY <2>4, <2>5
<1> QED
  BY <1>1, <1>2 DEF IInv

\* The identity is stored, and the parent waits for the first back-sync.
LEMMA StartBackSync1Keeps == ASSUME IInv, StartBackSync1 PROVE IInv'
<1> USE VmktAssumption DEF Children
<1>1. TypeOK'
  BY DEF StartBackSync1, StartWait, IInv, TypeOK, ParentPlaces, ChildPlaces,
         Syncs, Creating, Releasing, Catching, Joining
<1>2. ASSUME NEW c \in Children PROVE Life(c)'
  <2>1. Life(c) /\ Life(child) /\ TypeOK /\ Life(1) /\ 1 \in Children
    <3>1. TypeOK /\ child \in Children /\ 1 \in Children
      BY DEF IInv, TypeOK
    <3> QED
      BY <3>1 DEF IInv
  <2>2. /\ ppc = "created"
        /\ ppc' = "backSync1"
        /\ child' = child
        /\ round' = round
        /\ released' = released
    BY <2>1 DEF StartBackSync1
  <2>3. child \in 1 .. NChildren /\ c \in 1 .. NChildren /\ round \in Nat
        /\ (ppc \in {"user", "done"} => child = 1)
    BY <2>1 DEF TypeOK
  <2>4. CASE c # child
    <3>1. /\ cpc'[c] = cpc[c] /\ flag'[c] = flag[c] /\ released'[c] = released[c]
          /\ arg'[c] = arg[c] /\ tid'[c] = tid[c] /\ pthid'[c] = pthid[c]
          /\ vm'[c] = vm[c] /\ calls'[c] = calls[c] /\ owner'[c] = owner[c]
          /\ cond'[c] = cond[c]
      BY <2>1, <2>4 DEF StartBackSync1, StartWait
    <3> QED
      BY <2>1, <2>2, <2>3, <2>4, <3>1
         DEF Life, BackSyncs, Rounds, Waits, Mutexes, Flags, Arguments, Identity,
             Begun, Created, Dismissed, Joined, AtHome, Owed, Creating, Releasing,
             Catching
  <2>5. CASE c = child
    <3>1. /\ cpc'[child] = cpc[child] /\ flag'[child] = flag[child]
          /\ released'[child] = released[child] /\ arg'[child] = arg[child]
          /\ tid'[child] = TRUE /\ pthid'[child] = pthid[child]
          /\ vm'[child] = vm[child] /\ calls'[child] = calls[child]
      BY <2>1 DEF StartBackSync1, TypeOK
    <3>2. /\ owner'[child]["0"] = "free"
          /\ owner'[child]["1"] = owner[child]["1"]
          /\ owner'[child]["extra2"] = owner[child]["extra2"]
          /\ cond'[child]["0"] = "waiter"
          /\ cond'[child]["1"] = cond[child]["1"]
          /\ cond'[child]["extra2"] = cond[child]["extra2"]
      BY <2>1, SetIn DEF StartBackSync1, StartWait, TypeOK, Syncs
    <3> QED
      BY <2>1, <2>2, <2>3, <2>5, <3>1, <3>2
         DEF Life, BackSyncs, Rounds, Waits, Mutexes, Flags, Arguments, Identity,
             Begun, Created, Dismissed, Joined, Owed, Creating, Releasing,
             Catching, Joining
  <2> QED
    BY <2>4, <2>5
<1> QED
  BY <1>1, <1>2 DEF IInv

\* The first back-sync: mutex 0 is held again, on to the second.
LEMMA BackSync1Keeps == ASSUME IInv, BackSync1 PROVE IInv'
<1> USE VmktAssumption DEF Children
<1>1. TypeOK'
  BY DEF BackSync1, Awake, IInv, TypeOK, ParentPlaces, ChildPlaces, Syncs,
         Creating, Releasing, Catching, Joining
<1>2. ASSUME NEW c \in Children PROVE Life(c)'
  <2>1. Life(c) /\ Life(child) /\ TypeOK /\ Life(1) /\ 1 \in Children
    <3>1. TypeOK /\ child \in Children /\ 1 \in Children
      BY DEF IInv, TypeOK
    <3> QED
      BY <3>1 DEF IInv
  <2>2. /\ ppc = "backSync1"
        /\ cond[child]["0"] = "woken"
        /\ owner[child]["0"] = "free"
        /\ ppc' = "backSync2"
        /\ child' = child
        /\ round' = round
        /\ released' = released
    BY <2>1 DEF BackSync1, Awake
  <2>3. child \in 1 .. NChildren /\ c \in 1 .. NChildren /\ round \in Nat
        /\ (ppc \in {"user", "done"} => child = 1)
    BY <2>1 DEF TypeOK
  <2>4. CASE c # child
    <3>1. /\ cpc'[c] = cpc[c] /\ flag'[c] = flag[c] /\ released'[c] = released[c]
          /\ arg'[c] = arg[c] /\ tid'[c] = tid[c] /\ pthid'[c] = pthid[c]
          /\ vm'[c] = vm[c] /\ calls'[c] = calls[c] /\ owner'[c] = owner[c]
          /\ cond'[c] = cond[c]
      BY <2>1, <2>4 DEF BackSync1
    <3> QED
      BY <2>1, <2>2, <2>3, <2>4, <3>1
         DEF Life, BackSyncs, Rounds, Waits, Mutexes, Flags, Arguments, Identity,
             Begun, Created, Dismissed, Joined, AtHome, Owed, Creating, Releasing,
             Catching
  <2>5. CASE c = child
    <3>1. /\ cpc'[child] = cpc[child] /\ flag'[child] = flag[child]
          /\ released'[child] = released[child] /\ arg'[child] = arg[child]
          /\ tid'[child] = tid[child] /\ pthid'[child] = pthid[child]
          /\ vm'[child] = vm[child] /\ calls'[child] = calls[child]
      BY <2>1 DEF BackSync1
    <3>2. /\ owner'[child]["0"] = "parent"
          /\ owner'[child]["1"] = owner[child]["1"]
          /\ owner'[child]["extra2"] = "free"
          /\ cond'[child]["0"] = "nobody"
          /\ cond'[child]["1"] = cond[child]["1"]
          /\ cond'[child]["extra2"] = "waiter"
      BY <2>1, SetIn DEF BackSync1, TypeOK, Syncs
    <3>3. BackSyncs(c)'
      BY <2>1, <2>2, <2>3, <2>5, <3>1, <3>2 DEF Life, BackSyncs, Begun
    <3>4. Rounds(c)'
      BY <2>1, <2>2, <2>3, <2>5, <3>1, <3>2 DEF Rounds, Created, Dismissed, Joined
    <3>5. Waits(c)'
      BY <2>1, <2>2, <2>3, <2>5, <3>1, <3>2 DEF Life, Waits
    <3>6. Mutexes(c)'
      BY <2>1, <2>2, <2>3, <2>5, <3>1, <3>2 DEF Life, Mutexes, BackSyncs, Begun
    <3>7. Flags(c)'
      BY <2>1, <2>2, <2>3, <2>5, <3>1, <3>2
         DEF Life, Flags, Joined, Creating, Catching, Joining
    <3>8. Arguments(c)'
      BY <2>1, <2>2, <2>3, <2>5, <3>1, <3>2
         DEF Life, Arguments, Owed, Creating, Releasing
    <3>9. Identity(c)'
      BY <2>1, <2>2, <2>3, <2>5, <3>1, <3>2 DEF Life, Identity, Begun
    <3> QED
      BY <3>3, <3>4, <3>5, <3>6, <3>7, <3>8, <3>9 DEF Life
  <2> QED
    BY <2>4, <2>5
<1> QED
  BY <1>1, <1>2 DEF IInv

\* The second back-sync ends the creation: on to the next child or to user code.
LEMMA BackSync2Keeps == ASSUME IInv, BackSync2 PROVE IInv'
<1> USE VmktAssumption DEF Children
<1>1. TypeOK'
  <2>1. ppc' \in ParentPlaces /\ child' \in Children /\ (ppc' \in {"user", "done"} => child' = 1)
    BY DEF BackSync2, NextChild, IInv, TypeOK, ParentPlaces, Creating, Releasing,
           Catching, Joining
  <2> QED
    BY <2>1 DEF BackSync2, EndWait, Awake, Lock, IInv, TypeOK, Syncs
<1>2. ASSUME NEW c \in Children PROVE Life(c)'
  <2>1. Life(c) /\ Life(child) /\ TypeOK /\ Life(1) /\ 1 \in Children
    <3>1. TypeOK /\ child \in Children /\ 1 \in Children
      BY DEF IInv, TypeOK
    <3> QED
      BY <3>1 DEF IInv
  <2>2. /\ ppc = "backSync2"
        /\ cond[child]["extra2"] = "woken"
        /\ owner[child]["extra2"] = "free"
        /\ round' = round
        /\ released' = released
    BY <2>1 DEF BackSync2, EndWait, Awake, Lock
  <2>3. \/ child < NChildren /\ ppc' = "create" /\ child' = child + 1
        \/ child = NChildren /\ ppc' = "user" /\ child' = 1
    BY <2>1 DEF BackSync2, NextChild, TypeOK
  <2>4. child \in 1 .. NChildren /\ c \in 1 .. NChildren /\ round \in Nat
        /\ (ppc \in {"user", "done"} => child = 1)
    BY <2>1 DEF TypeOK
  <2>5. CASE c # child
    <3>1. /\ cpc'[c] = cpc[c] /\ flag'[c] = flag[c] /\ released'[c] = released[c]
          /\ arg'[c] = arg[c] /\ tid'[c] = tid[c] /\ pthid'[c] = pthid[c]
          /\ vm'[c] = vm[c] /\ calls'[c] = calls[c] /\ owner'[c] = owner[c]
          /\ cond'[c] = cond[c]
      BY <2>1, <2>5 DEF BackSync2, EndWait, Lock
    <3>2. BackSyncs(c)'
      BY <2>1, <2>2, <2>3, <2>4, <2>5, <3>1 DEF Life, BackSyncs, Begun, Created
    <3>3. Rounds(c)'
      BY <2>1, <2>2, <2>3, <2>4, <2>5, <3>1
         DEF Life, Rounds, Created, Dismissed, Joined, AtHome, Woke, Away
    <3>4. Waits(c)'
      BY <2>1, <2>2, <2>3, <2>4, <2>5, <3>1 DEF Life, Waits
    <3>5. Mutexes(c)'
      BY <2>1, <2>2, <2>3, <2>4, <2>5, <3>1 DEF Life, Mutexes, Begun, Created
    <3>6. Flags(c)'
      BY <2>1, <2>2, <2>3, <2>4, <2>5, <3>1
         DEF Life, Flags, Joined, Creating, Releasing, Catching, Joining
    <3>7. Arguments(c)'
      <4>1. CASE child < NChildren
        <5>1. Owed(c)' <=> Owed(c)
          BY <2>1, <2>2, <2>3, <2>4, <2>5, <3>1, <4>1 DEF Owed, Releasing, Woke
        <5> QED
          BY <2>1, <2>2, <2>3, <2>4, <2>5, <3>1, <4>1, <5>1
             DEF Life, Arguments, Creating, Releasing
      <4>2. CASE child = NChildren
        <5>1. Owed(c)' <=> Owed(c)
          BY <2>1, <2>2, <2>3, <2>4, <2>5, <3>1, <4>2 DEF Owed, Releasing, Woke
        <5> QED
          BY <2>1, <2>2, <2>3, <2>4, <2>5, <3>1, <4>2, <5>1
             DEF Life, Arguments, Creating, Releasing
      <4> QED
        BY <2>3, <4>1, <4>2
    <3>8. Identity(c)'
      BY <2>1, <2>2, <2>3, <2>4, <2>5, <3>1 DEF Life, Identity, Begun, Created
    <3> QED
      BY <3>2, <3>3, <3>4, <3>5, <3>6, <3>7, <3>8 DEF Life
  <2>6. CASE c = child
    <3>1. /\ cpc'[child] = cpc[child] /\ flag'[child] = flag[child]
          /\ released'[child] = released[child] /\ arg'[child] = arg[child]
          /\ tid'[child] = tid[child] /\ pthid'[child] = pthid[child]
          /\ vm'[child] = vm[child] /\ calls'[child] = calls[child]
      BY <2>1 DEF BackSync2
    <3>2. /\ owner'[child]["0"] = owner[child]["0"]
          /\ owner'[child]["1"] = owner[child]["1"]
          /\ owner'[child]["extra2"] = "parent"
          /\ cond'[child]["0"] = cond[child]["0"]
          /\ cond'[child]["1"] = cond[child]["1"]
          /\ cond'[child]["extra2"] = "nobody"
      BY <2>1, SetIn DEF BackSync2, EndWait, Lock, TypeOK, Syncs
    <3>3. BackSyncs(c)'
      BY <2>1, <2>2, <2>3, <2>4, <2>6, <3>1, <3>2 DEF BackSyncs, Begun, Created
    <3>4. Rounds(c)'
      BY <2>1, <2>2, <2>3, <2>4, <2>6, <3>1, <3>2
         DEF Life, Rounds, BackSyncs, Flags, Dismissed, Joined, AtHome, Creating
    <3>5. Waits(c)'
      BY <2>1, <2>2, <2>3, <2>4, <2>6, <3>1, <3>2 DEF Life, Waits
    <3>6. Mutexes(c)'
      BY <2>1, <2>2, <2>3, <2>4, <2>6, <3>1, <3>2
         DEF Life, Mutexes, Begun, Created
    <3>7. Flags(c)'
      BY <2>1, <2>2, <2>3, <2>4, <2>6, <3>1, <3>2
         DEF Life, Flags, Joined, Creating, Releasing, Catching, Joining
    <3>8. Arguments(c)'
      <4>1. CASE child < NChildren
        <5>1. Owed(c)' <=> Owed(c)
          BY <2>1, <2>2, <2>3, <2>4, <2>6, <3>1, <3>2, <4>1
             DEF Owed, Releasing, Woke
        <5> QED
          BY <2>1, <2>2, <2>3, <2>4, <2>6, <3>1, <3>2, <4>1, <5>1
             DEF Life, Arguments, Creating, Releasing
      <4>2. CASE child = NChildren
        <5>1. Owed(c)' <=> Owed(c)
          BY <2>1, <2>2, <2>3, <2>4, <2>6, <3>1, <3>2, <4>2
             DEF Owed, Releasing, Woke
        <5> QED
          BY <2>1, <2>2, <2>3, <2>4, <2>6, <3>1, <3>2, <4>2, <5>1
             DEF Life, Arguments, Creating, Releasing
      <4> QED
        BY <2>3, <4>1, <4>2
    <3>9. Identity(c)'
      BY <2>1, <2>2, <2>3, <2>4, <2>6, <3>1, <3>2
         DEF Life, Identity, Begun, Created
    <3> QED
      BY <3>3, <3>4, <3>5, <3>6, <3>7, <3>8, <3>9 DEF Life
  <2> QED
    BY <2>5, <2>6
<1> QED
  BY <1>1, <1>2 DEF IInv

\* VMK::enter begins a round at the first child.
LEMMA EnterKeeps == ASSUME IInv, Enter PROVE IInv'
<1> USE VmktAssumption DEF Children
<1>1. TypeOK'
  BY DEF Enter, IInv, TypeOK, ParentPlaces, ChildPlaces, Syncs, Creating,
         Releasing, Catching, Joining
<1>2. ASSUME NEW c \in Children PROVE Life(c)'
  <2>1. Life(c) /\ Life(child) /\ TypeOK /\ Life(1) /\ 1 \in Children
    <3>1. TypeOK /\ child \in Children /\ 1 \in Children
      BY DEF IInv, TypeOK
    <3> QED
      BY <3>1 DEF IInv
  <2>2. /\ ppc = "user"
        /\ released[1] = 0
        /\ ppc' = "release"
        /\ child' = child
        /\ round' = round + 1
        /\ released' = released
    BY <2>1 DEF Enter
  <2>3. child \in 1 .. NChildren /\ c \in 1 .. NChildren /\ round \in Nat
        /\ (ppc \in {"user", "done"} => child = 1)
    BY <2>1 DEF TypeOK
  <2>4. CASE c # child
    <3>1. /\ cpc'[c] = cpc[c] /\ flag'[c] = flag[c] /\ released'[c] = released[c]
          /\ arg'[c] = arg[c] /\ tid'[c] = tid[c] /\ pthid'[c] = pthid[c]
          /\ vm'[c] = vm[c] /\ calls'[c] = calls[c] /\ owner'[c] = owner[c]
          /\ cond'[c] = cond[c]
      BY <2>1, <2>4 DEF Enter
    <3> QED
      BY <2>1, <2>2, <2>3, <2>4, <3>1
         DEF Life, BackSyncs, Rounds, Waits, Mutexes, Flags, Arguments, Identity,
             Begun, Created, Dismissed, Joined, AtHome, Owed, Creating, Releasing,
             Catching
  <2>5. CASE c = child
    <3>1. /\ cpc'[child] = cpc[child] /\ flag'[child] = flag[child]
          /\ released'[child] = released[child] /\ arg'[child] = arg[child]
          /\ tid'[child] = tid[child] /\ pthid'[child] = pthid[child]
          /\ vm'[child] = vm[child] /\ calls'[child] = calls[child]
      BY <2>1 DEF Enter
    <3>2. /\ owner'[child] = owner[child]
          /\ cond'[child] = cond[child]
      BY <2>1, SetIn DEF Enter
    <3> QED
      BY <2>1, <2>2, <2>3, <2>5, <3>1, <3>2
         DEF Life, BackSyncs, Rounds, Waits, Mutexes, Flags, Arguments, Identity,
             Begun, Created, Dismissed, Joined, AtHome, Owed, Creating, Releasing,
             Catching, Joining
  <2> QED
    BY <2>4, <2>5
<1> QED
  BY <1>1, <1>2 DEF IInv

\* vmkt_release stores the argument of the round.
LEMMA ReleaseKeeps == ASSUME IInv, Release PROVE IInv'
<1> USE VmktAssumption DEF Children
<1>1. TypeOK'
  BY DEF Release, IInv, TypeOK, ParentPlaces, ChildPlaces, Syncs, Creating,
         Releasing, Catching, Joining
<1>2. ASSUME NEW c \in Children PROVE Life(c)'
  <2>1. Life(c) /\ Life(child) /\ TypeOK /\ Life(1) /\ 1 \in Children
    <3>1. TypeOK /\ child \in Children /\ 1 \in Children
      BY DEF IInv, TypeOK
    <3> QED
      BY <3>1 DEF IInv
  <2>2. /\ ppc = "release"
        /\ ppc' = "lock1"
        /\ child' = child
        /\ round' = round
        /\ released' = released
    BY <2>1 DEF Release
  <2>3. child \in 1 .. NChildren /\ c \in 1 .. NChildren /\ round \in Nat
        /\ (ppc \in {"user", "done"} => child = 1)
    BY <2>1 DEF TypeOK
  <2>4. CASE c # child
    <3>1. /\ cpc'[c] = cpc[c] /\ flag'[c] = flag[c] /\ released'[c] = released[c]
          /\ arg'[c] = arg[c] /\ tid'[c] = tid[c] /\ pthid'[c] = pthid[c]
          /\ vm'[c] = vm[c] /\ calls'[c] = calls[c] /\ owner'[c] = owner[c]
          /\ cond'[c] = cond[c]
      BY <2>1, <2>4 DEF Release
    <3> QED
      BY <2>1, <2>2, <2>3, <2>4, <3>1
         DEF Life, BackSyncs, Rounds, Waits, Mutexes, Flags, Arguments, Identity,
             Begun, Created, Dismissed, Joined, AtHome, Woke, Away, Owed,
             Creating, Releasing, Catching
  <2>5. CASE c = child
    <3>1. /\ cpc'[child] = cpc[child] /\ flag'[child] = flag[child]
          /\ released'[child] = released[child] /\ arg'[child] = round
          /\ tid'[child] = tid[child] /\ pthid'[child] = pthid[child]
          /\ vm'[child] = vm[child] /\ calls'[child] = calls[child]
      BY <2>1 DEF Release, TypeOK
    <3>2. /\ owner'[child] = owner[child]
          /\ cond'[child] = cond[child]
      BY <2>1, SetIn DEF Release
    <3> QED
      BY <2>1, <2>2, <2>3, <2>5, <3>1, <3>2
         DEF Life, BackSyncs, Rounds, Waits, Mutexes, Flags, Arguments, Identity,
             Begun, Created, Dismissed, Joined, AtHome, Owed, Creating, Releasing,
             Catching, Joining
  <2> QED
    BY <2>4, <2>5
<1> QED
  BY <1>1, <1>2 DEF IInv

\* vmkt_release gets mutex 1 only when the child waits with it.
LEMMA ReleaseLockKeeps == ASSUME IInv, ReleaseLock PROVE IInv'
<1> USE VmktAssumption DEF Children
<1>1. TypeOK'
  BY DEF ReleaseLock, Lock, IInv, TypeOK, ParentPlaces, ChildPlaces, Syncs,
         Creating, Releasing, Catching, Joining
<1>2. ASSUME NEW c \in Children PROVE Life(c)'
  <2>1. Life(c) /\ Life(child) /\ TypeOK /\ Life(1) /\ 1 \in Children
    <3>1. TypeOK /\ child \in Children /\ 1 \in Children
      BY DEF IInv, TypeOK
    <3> QED
      BY <3>1 DEF IInv
  <2>2. /\ ppc = "lock1"
        /\ owner[child]["1"] = "free"
        /\ ppc' = "signal1"
        /\ child' = child
        /\ round' = round
        /\ released' = released
    BY <2>1 DEF ReleaseLock, Lock
  <2>3. child \in 1 .. NChildren /\ c \in 1 .. NChildren /\ round \in Nat
        /\ (ppc \in {"user", "done"} => child = 1)
    BY <2>1 DEF TypeOK
  <2>4. CASE c # child
    <3>1. /\ cpc'[c] = cpc[c] /\ flag'[c] = flag[c] /\ released'[c] = released[c]
          /\ arg'[c] = arg[c] /\ tid'[c] = tid[c] /\ pthid'[c] = pthid[c]
          /\ vm'[c] = vm[c] /\ calls'[c] = calls[c] /\ owner'[c] = owner[c]
          /\ cond'[c] = cond[c]
      BY <2>1, <2>4 DEF ReleaseLock, Lock
    <3> QED
      BY <2>1, <2>2, <2>3, <2>4, <3>1
         DEF Life, BackSyncs, Rounds, Waits, Mutexes, Flags, Arguments, Identity,
             Begun, Created, Dismissed, Joined, AtHome, Woke, Away, Owed,
             Creating, Releasing, Catching
  <2>5. CASE c = child
    <3>1. /\ cpc'[child] = cpc[child] /\ flag'[child] = flag[child]
          /\ released'[child] = released[child] /\ arg'[child] = arg[child]
          /\ tid'[child] = tid[child] /\ pthid'[child] = pthid[child]
          /\ vm'[child] = vm[child] /\ calls'[child] = calls[child]
      BY <2>1 DEF ReleaseLock
    <3>2. /\ owner'[child]["0"] = owner[child]["0"]
          /\ owner'[child]["1"] = "parent"
          /\ owner'[child]["extra2"] = owner[child]["extra2"]
          /\ cond'[child] = cond[child]
      BY <2>1, SetIn DEF ReleaseLock, Lock, TypeOK, Syncs
    <3> QED
      BY <2>1, <2>2, <2>3, <2>5, <3>1, <3>2
         DEF Life, BackSyncs, Rounds, Waits, Mutexes, Flags, Arguments, Identity,
             Begun, Created, Dismissed, Joined, AtHome, Owed, Creating, Releasing,
             Catching, Joining
  <2> QED
    BY <2>4, <2>5
<1> QED
  BY <1>1, <1>2 DEF IInv

\* vmkt_release signals; on to the next child or, after the last, to user code.
LEMMA ReleaseSignalKeeps == ASSUME IInv, ReleaseSignal PROVE IInv'
<1> USE VmktAssumption DEF Children
<1>1. TypeOK'
  <2>1. ppc' \in ParentPlaces /\ child' \in Children /\ (ppc' \in {"user", "done"} => child' = 1)
    BY DEF ReleaseSignal, NextChild, IInv, TypeOK, ParentPlaces, Creating,
           Releasing, Catching, Joining
  <2> QED
    BY <2>1 DEF ReleaseSignal, SignalUnlock, IInv, TypeOK, Syncs
<1>2. ASSUME NEW c \in Children PROVE Life(c)'
  <2>1. Life(c) /\ Life(child) /\ TypeOK /\ Life(1) /\ 1 \in Children
    <3>1. TypeOK /\ child \in Children /\ 1 \in Children
      BY DEF IInv, TypeOK
    <3> QED
      BY <3>1 DEF IInv
  <2>2. /\ ppc = "signal1"
        /\ round' = round
        /\ released' = [released EXCEPT ![child] = 1]
    BY <2>1 DEF ReleaseSignal
  <2>3. \/ child < NChildren /\ ppc' = "release" /\ child' = child + 1
        \/ child = NChildren /\ ppc' = "user" /\ child' = 1
    BY <2>1 DEF ReleaseSignal, NextChild, TypeOK
  <2>4. child \in 1 .. NChildren /\ c \in 1 .. NChildren /\ round \in Nat
        /\ (ppc \in {"user", "done"} => child = 1)
    BY <2>1 DEF TypeOK
  <2>5. CASE c # child
    <3>1. /\ cpc'[c] = cpc[c] /\ flag'[c] = flag[c] /\ released'[c] = released[c]
          /\ arg'[c] = arg[c] /\ tid'[c] = tid[c] /\ pthid'[c] = pthid[c]
          /\ vm'[c] = vm[c] /\ calls'[c] = calls[c] /\ owner'[c] = owner[c]
          /\ cond'[c] = cond[c]
      BY <2>1, <2>5 DEF ReleaseSignal, SignalUnlock
    <3>2. BackSyncs(c)'
      BY <2>1, <2>2, <2>3, <2>4, <2>5, <3>1 DEF BackSyncs, Begun, Created
    <3>3. Rounds(c)'
      BY <2>1, <2>2, <2>3, <2>4, <2>5, <3>1
         DEF Life, Rounds, Created, Dismissed, Joined, AtHome, Woke, Away
    <3>4. Waits(c)'
      BY <2>1, <2>2, <2>3, <2>4, <2>5, <3>1 DEF Life, Waits
    <3>5. Mutexes(c)'
      BY <2>1, <2>2, <2>3, <2>4, <2>5, <3>1 DEF Life, Mutexes, Begun, Created
    <3>6. Flags(c)'
      BY <2>1, <2>2, <2>3, <2>4, <2>5, <3>1
         DEF Life, Flags, Rounds, Joined, Creating, Releasing, Catching, Joining,
             Dismissed, AtHome, Woke, Away
    <3>7. Arguments(c)'
      <4>1. CASE child < NChildren
        <5>1. Owed(c)' <=> Owed(c)
          BY <2>1, <2>2, <2>3, <2>4, <2>5, <3>1, <4>1 DEF Owed, Releasing, Woke
        <5> QED
          BY <2>1, <2>2, <2>3, <2>4, <2>5, <3>1, <4>1, <5>1
             DEF Life, Arguments, Creating
      <4>2. CASE child = NChildren
        <5>1. Owed(c)' <=> Owed(c)
          BY <2>1, <2>2, <2>3, <2>4, <2>5, <3>1, <4>2 DEF Owed, Releasing, Woke
        <5> QED
          BY <2>1, <2>2, <2>3, <2>4, <2>5, <3>1, <4>2, <5>1
             DEF Life, Arguments, Creating
      <4> QED
        BY <2>3, <4>1, <4>2
    <3>8. Identity(c)'
      BY <2>1, <2>2, <2>3, <2>4, <2>5, <3>1 DEF Life, Identity, Begun, Created
    <3> QED
      BY <3>2, <3>3, <3>4, <3>5, <3>6, <3>7, <3>8 DEF Life
  <2>6. CASE c = child
    <3>1. /\ cpc'[child] = cpc[child] /\ flag'[child] = flag[child]
          /\ released'[child] = 1 /\ arg'[child] = arg[child]
          /\ tid'[child] = tid[child] /\ pthid'[child] = pthid[child]
          /\ vm'[child] = vm[child] /\ calls'[child] = calls[child]
      BY <2>1 DEF ReleaseSignal, TypeOK
    <3>2. /\ owner'[child]["0"] = owner[child]["0"]
          /\ owner'[child]["1"] = "free"
          /\ owner'[child]["extra2"] = owner[child]["extra2"]
          /\ cond'[child]["0"] = cond[child]["0"]
          /\ cond'[child]["1"] = (IF cond[child]["1"] = "waiter" THEN "woken" ELSE cond[child]["1"])
          /\ cond'[child]["extra2"] = cond[child]["extra2"]
      BY <2>1, SetIn DEF ReleaseSignal, SignalUnlock, TypeOK, Syncs
    <3>3. BackSyncs(c)'
      BY <2>1, <2>2, <2>3, <2>4, <2>6, <3>1, <3>2 DEF BackSyncs, Begun, Created
    <3>4. Rounds(c)'
      BY <2>1, <2>2, <2>3, <2>4, <2>6, <3>1, <3>2
         DEF Life, Rounds, Flags, Mutexes, Created, Dismissed, Joined, AtHome,
             Woke, Away, Begun, Releasing
    <3>5. Waits(c)'
      BY <2>1, <2>2, <2>3, <2>4, <2>6, <3>1, <3>2 DEF Life, Waits
    <3>6. Mutexes(c)'
      BY <2>1, <2>2, <2>3, <2>4, <2>6, <3>1, <3>2
         DEF Life, Mutexes, Begun, Created
    <3>7. Flags(c)'
      BY <2>1, <2>2, <2>3, <2>4, <2>6, <3>1, <3>2
         DEF Life, Flags, Joined, Creating, Releasing, Catching, Joining
    <3>8. Arguments(c)'
      BY <2>1, <2>2, <2>3, <2>4, <2>6, <3>1, <3>2
         DEF Life, Arguments, Rounds, Waits, Owed, Woke, Creating, Releasing,
             Created, AtHome, Away
    <3>9. Identity(c)'
      BY <2>1, <2>2, <2>3, <2>4, <2>6, <3>1, <3>2
         DEF Life, Identity, Begun, Created
    <3> QED
      BY <3>3, <3>4, <3>5, <3>6, <3>7, <3>8, <3>9 DEF Life
  <2> QED
    BY <2>5, <2>6
<1> QED
  BY <1>1, <1>2 DEF IInv

\* VMK::exit begins to catch at the first child.
LEMMA ExitKeeps == ASSUME IInv, Exit PROVE IInv'
<1> USE VmktAssumption DEF Children
<1>1. TypeOK'
  BY DEF Exit, IInv, TypeOK, ParentPlaces, ChildPlaces, Syncs, Creating,
         Releasing, Catching, Joining
<1>2. ASSUME NEW c \in Children PROVE Life(c)'
  <2>1. Life(c) /\ Life(child) /\ TypeOK /\ Life(1) /\ 1 \in Children
    <3>1. TypeOK /\ child \in Children /\ 1 \in Children
      BY DEF IInv, TypeOK
    <3> QED
      BY <3>1 DEF IInv
  <2>2. /\ ppc = "user"
        /\ released[1] = 1
        /\ ppc' = "catch"
        /\ child' = child
        /\ round' = round
        /\ released' = released
    BY <2>1 DEF Exit
  <2>3. child \in 1 .. NChildren /\ c \in 1 .. NChildren /\ round \in Nat
        /\ (ppc \in {"user", "done"} => child = 1)
    BY <2>1 DEF TypeOK
  <2>4. CASE c # child
    <3>1. /\ cpc'[c] = cpc[c] /\ flag'[c] = flag[c] /\ released'[c] = released[c]
          /\ arg'[c] = arg[c] /\ tid'[c] = tid[c] /\ pthid'[c] = pthid[c]
          /\ vm'[c] = vm[c] /\ calls'[c] = calls[c] /\ owner'[c] = owner[c]
          /\ cond'[c] = cond[c]
      BY <2>1, <2>4 DEF Exit
    <3> QED
      BY <2>1, <2>2, <2>3, <2>4, <3>1
         DEF Life, BackSyncs, Rounds, Waits, Mutexes, Flags, Arguments, Identity,
             Begun, Created, Dismissed, Joined, Woke, Away, Owed, Creating,
             Releasing
  <2>5. CASE c = child
    <3>1. /\ cpc'[child] = cpc[child] /\ flag'[child] = flag[child]
          /\ released'[child] = released[child] /\ arg'[child] = arg[child]
          /\ tid'[child] = tid[child] /\ pthid'[child] = pthid[child]
          /\ vm'[child] = vm[child] /\ calls'[child] = calls[child]
      BY <2>1 DEF Exit
    <3>2. /\ owner'[child] = owner[child]
          /\ cond'[child] = cond[child]
      BY <2>1, SetIn DEF Exit
    <3> QED
      BY <2>1, <2>2, <2>3, <2>5, <3>1, <3>2
         DEF Life, BackSyncs, Rounds, Waits, Mutexes, Flags, Arguments, Identity,
             Begun, Created, Dismissed, Joined, Woke, Away, Owed, Creating,
             Releasing, Joining
  <2> QED
    BY <2>4, <2>5
<1> QED
  BY <1>1, <1>2 DEF IInv

\* vmkt_catch waits, and with that gives mutex 0 to the child.
LEMMA StartCatchKeeps == ASSUME IInv, StartCatch PROVE IInv'
<1> USE VmktAssumption DEF Children
<1>1. TypeOK'
  BY DEF StartCatch, StartWait, IInv, TypeOK, ParentPlaces, ChildPlaces, Syncs,
         Creating, Releasing, Catching, Joining
<1>2. ASSUME NEW c \in Children PROVE Life(c)'
  <2>1. Life(c) /\ Life(child) /\ TypeOK /\ Life(1) /\ 1 \in Children
    <3>1. TypeOK /\ child \in Children /\ 1 \in Children
      BY DEF IInv, TypeOK
    <3> QED
      BY <3>1 DEF IInv
  <2>2. /\ ppc = "catch"
        /\ ppc' = "caught"
        /\ child' = child
        /\ round' = round
        /\ released' = released
    BY <2>1 DEF StartCatch
  <2>3. child \in 1 .. NChildren /\ c \in 1 .. NChildren /\ round \in Nat
        /\ (ppc \in {"user", "done"} => child = 1)
    BY <2>1 DEF TypeOK
  <2>4. CASE c # child
    <3>1. /\ cpc'[c] = cpc[c] /\ flag'[c] = flag[c] /\ released'[c] = released[c]
          /\ arg'[c] = arg[c] /\ tid'[c] = tid[c] /\ pthid'[c] = pthid[c]
          /\ vm'[c] = vm[c] /\ calls'[c] = calls[c] /\ owner'[c] = owner[c]
          /\ cond'[c] = cond[c]
      BY <2>1, <2>4 DEF StartCatch, StartWait
    <3> QED
      BY <2>1, <2>2, <2>3, <2>4, <3>1
         DEF Life, BackSyncs, Rounds, Waits, Mutexes, Flags, Arguments, Identity,
             Begun, Created, Dismissed, Joined, AtHome, Woke, Away, Owed,
             Creating, Releasing, Catching
  <2>5. CASE c = child
    <3>1. /\ cpc'[child] = cpc[child] /\ flag'[child] = flag[child]
          /\ released'[child] = released[child] /\ arg'[child] = arg[child]
          /\ tid'[child] = tid[child] /\ pthid'[child] = pthid[child]
          /\ vm'[child] = vm[child] /\ calls'[child] = calls[child]
      BY <2>1 DEF StartCatch
    <3>2. /\ owner'[child]["0"] = "free"
          /\ owner'[child]["1"] = owner[child]["1"]
          /\ owner'[child]["extra2"] = owner[child]["extra2"]
          /\ cond'[child]["0"] = "waiter"
          /\ cond'[child]["1"] = cond[child]["1"]
          /\ cond'[child]["extra2"] = cond[child]["extra2"]
      BY <2>1, SetIn DEF StartCatch, StartWait, TypeOK, Syncs
    <3> QED
      BY <2>1, <2>2, <2>3, <2>5, <3>1, <3>2
         DEF Life, BackSyncs, Rounds, Waits, Mutexes, Flags, Arguments, Identity,
             Begun, Created, Dismissed, Joined, Woke, Away, Owed, Creating,
             Releasing, Catching, Joining
  <2> QED
    BY <2>4, <2>5
<1> QED
  BY <1>1, <1>2 DEF IInv

\* vmkt_catch is over; on to the next child or, after the last, to user code.
LEMMA CatchKeeps == ASSUME IInv, Catch PROVE IInv'
<1> USE VmktAssumption DEF Children
<1>1. TypeOK'
  <2>1. ppc' \in ParentPlaces /\ child' \in Children /\ (ppc' \in {"user", "done"} => child' = 1)
    BY DEF Catch, NextChild, IInv, TypeOK, ParentPlaces, Creating, Releasing,
           Catching, Joining
  <2> QED
    BY <2>1 DEF Catch, EndWait, Awake, Lock, IInv, TypeOK, ChildPlaces, Syncs
<1>2. ASSUME NEW c \in Children PROVE Life(c)'
  <2>1. Life(c) /\ Life(child) /\ TypeOK /\ Life(1) /\ 1 \in Children
    <3>1. TypeOK /\ child \in Children /\ 1 \in Children
      BY DEF IInv, TypeOK
    <3> QED
      BY <3>1 DEF IInv
  <2>2. /\ ppc = "caught"
        /\ cond[child]["0"] = "woken"
        /\ owner[child]["0"] = "free"
        /\ round' = round
        /\ released' = [released EXCEPT ![child] = 0]
    BY <2>1 DEF Catch, EndWait, Awake, Lock
  <2>3. \/ child < NChildren /\ ppc' = "catch" /\ child' = child + 1
        \/ child = NChildren /\ ppc' = "user" /\ child' = 1
    BY <2>1 DEF Catch, NextChild, TypeOK
  <2>4. child \in 1 .. NChildren /\ c \in 1 .. NChildren /\ round \in Nat
        /\ (ppc \in {"user", "done"} => child = 1)
    BY <2>1 DEF TypeOK
  <2>5. CASE c # child
    <3>1. /\ cpc'[c] = cpc[c] /\ flag'[c] = flag[c] /\ released'[c] = released[c]
          /\ arg'[c] = arg[c] /\ tid'[c] = tid[c] /\ pthid'[c] = pthid[c]
          /\ vm'[c] = vm[c] /\ calls'[c] = calls[c] /\ owner'[c] = owner[c]
          /\ cond'[c] = cond[c]
      BY <2>1, <2>5 DEF Catch, EndWait, Lock
    <3>2. BackSyncs(c)'
      BY <2>1, <2>2, <2>3, <2>4, <2>5, <3>1 DEF BackSyncs, Begun, Created
    <3>3. Rounds(c)'
      BY <2>1, <2>2, <2>3, <2>4, <2>5, <3>1
         DEF Life, Rounds, Created, Dismissed, Joined, AtHome, Woke, Away
    <3>4. Waits(c)'
      BY <2>1, <2>2, <2>3, <2>4, <2>5, <3>1 DEF Life, Waits
    <3>5. Mutexes(c)'
      BY <2>1, <2>2, <2>3, <2>4, <2>5, <3>1 DEF Life, Mutexes, Begun, Created
    <3>6. Flags(c)'
      BY <2>1, <2>2, <2>3, <2>4, <2>5, <3>1
         DEF Life, Flags, Rounds, Joined, Creating, Releasing, Catching, Joining,
             Created, Dismissed, AtHome, Woke, Away
    <3>7. Arguments(c)'
      BY <2>1, <2>2, <2>3, <2>4, <2>5, <3>1
         DEF Life, Arguments, Flags, Owed, Woke, Creating, Releasing, Joined,
             Catching
    <3>8. Identity(c)'
      BY <2>1, <2>2, <2>3, <2>4, <2>5, <3>1 DEF Life, Identity, Begun, Created
    <3> QED
      BY <3>2, <3>3, <3>4, <3>5, <3>6, <3>7, <3>8 DEF Life
  <2>6. CASE c = child
    <3>1. /\ cpc'[child] = cpc[child] /\ flag'[child] = flag[child]
          /\ released'[child] = 0 /\ arg'[child] = arg[child]
          /\ tid'[child] = tid[child] /\ pthid'[child] = pthid[child]
          /\ vm'[child] = vm[child] /\ calls'[child] = calls[child]
      BY <2>1 DEF Catch, TypeOK
    <3>2. /\ owner'[child]["0"] = "parent"
          /\ owner'[child]["1"] = owner[child]["1"]
          /\ owner'[child]["extra2"] = owner[child]["extra2"]
          /\ cond'[child]["0"] = "nobody"
          /\ cond'[child]["1"] = cond[child]["1"]
          /\ cond'[child]["extra2"] = cond[child]["extra2"]
      BY <2>1, SetIn DEF Catch, EndWait, Lock, TypeOK, Syncs
    <3>3. BackSyncs(c)'
      BY <2>1, <2>2, <2>3, <2>4, <2>6, <3>1, <3>2 DEF BackSyncs, Begun, Created
    <3>4. Rounds(c)'
      BY <2>1, <2>2, <2>3, <2>4, <2>6, <3>1, <3>2
         DEF Life, Rounds, Created, Dismissed, Joined, AtHome
    <3>5. Waits(c)'
      BY <2>1, <2>2, <2>3, <2>4, <2>6, <3>1, <3>2 DEF Life, Waits
    <3>6. Mutexes(c)'
      BY <2>1, <2>2, <2>3, <2>4, <2>6, <3>1, <3>2
         DEF Life, Mutexes, Begun, Created
    <3>7. Flags(c)'
      BY <2>1, <2>2, <2>3, <2>4, <2>6, <3>1, <3>2
         DEF Life, Flags, Rounds, Joined, Releasing, Catching, Joining, Created,
             Dismissed, Away
    <3>8. Arguments(c)'
      <4>1. released[c] = 1 /\ AtHome(c)
        BY <2>1, <2>2, <2>4, <2>6 DEF Life, Rounds, Created
      <4>2. Len(calls[c]) = round
        BY <2>1, <2>2, <2>4, <2>6, <4>1
           DEF Life, Arguments, Owed, AtHome, Woke, Releasing
      <4>3. ~Owed(c)'
        BY <2>3, <2>4, <2>6, <3>1 DEF Owed, Releasing
      <4> QED
        BY <2>1, <2>2, <2>3, <2>4, <2>6, <3>1, <3>2, <4>2, <4>3
           DEF Arguments, Creating, Releasing
    <3>9. Identity(c)'
      BY <2>1, <2>2, <2>3, <2>4, <2>6, <3>1, <3>2
         DEF Life, Identity, Begun, Created
    <3> QED
      BY <3>3, <3>4, <3>5, <3>6, <3>7, <3>8, <3>9 DEF Life
  <2> QED
    BY <2>5, <2>6
<1> QED
  BY <1>1, <1>2 DEF IInv

\* VMK::shutdown begins to join at the first child.
LEMMA ShutdownKeeps == ASSUME IInv, Shutdown PROVE IInv'
<1> USE VmktAssumption DEF Children
<1>1. TypeOK'
  BY DEF Shutdown, IInv, TypeOK, ParentPlaces, ChildPlaces, Syncs, Creating,
         Releasing, Catching, Joining
<1>2. ASSUME NEW c \in Children PROVE Life(c)'
  <2>1. Life(c) /\ Life(child) /\ TypeOK /\ Life(1) /\ 1 \in Children
    <3>1. TypeOK /\ child \in Children /\ 1 \in Children
      BY DEF IInv, TypeOK
    <3> QED
      BY <3>1 DEF IInv
  <2>2. /\ ppc = "user"
        /\ ppc' = "join"
        /\ child' = child
        /\ round' = round
        /\ released' = released
    BY <2>1 DEF Shutdown
  <2>3. child \in 1 .. NChildren /\ c \in 1 .. NChildren /\ round \in Nat
        /\ (ppc \in {"user", "done"} => child = 1)
    BY <2>1 DEF TypeOK
  <2>4. CASE c # child
    <3>1. /\ cpc'[c] = cpc[c] /\ flag'[c] = flag[c] /\ released'[c] = released[c]
          /\ arg'[c] = arg[c] /\ tid'[c] = tid[c] /\ pthid'[c] = pthid[c]
          /\ vm'[c] = vm[c] /\ calls'[c] = calls[c] /\ owner'[c] = owner[c]
          /\ cond'[c] = cond[c]
      BY <2>1, <2>4 DEF Shutdown
    <3> QED
      BY <2>1, <2>2, <2>3, <2>4, <3>1
         DEF Life, BackSyncs, Rounds, Waits, Mutexes, Flags, Arguments, Identity,
             Begun, Created, Dismissed, Joined, AtHome, Woke, Away, Owed,
             Creating, Releasing, Catching
  <2>5. CASE c = child
    <3>1. /\ cpc'[child] = cpc[child] /\ flag'[child] = flag[child]
          /\ released'[child] = released[child] /\ arg'[child] = arg[child]
          /\ tid'[child] = tid[child] /\ pthid'[child] = pthid[child]
          /\ vm'[child] = vm[child] /\ calls'[child] = calls[child]
      BY <2>1 DEF Shutdown
    <3>2. /\ owner'[child] = owner[child]
          /\ cond'[child] = cond[child]
      BY <2>1, SetIn DEF Shutdown
    <3> QED
      BY <2>1, <2>2, <2>3, <2>5, <3>1, <3>2
         DEF Life, BackSyncs, Rounds, Waits, Mutexes, Flags, Arguments, Identity,
             Begun, Created, Dismissed, Joined, AtHome, Woke, Away, Owed,
             Creating, Releasing, Catching, Joining
  <2> QED
    BY <2>4, <2>5
<1> QED
  BY <1>1, <1>2 DEF IInv

\* vmkt_join of a child that was released but not caught waits for it first,
LEMMA JoinWaitKeeps == ASSUME IInv, JoinWait PROVE IInv'
<1> USE VmktAssumption DEF Children
<1>1. TypeOK'
  BY DEF JoinWait, StartWait, IInv, TypeOK, ParentPlaces, ChildPlaces, Syncs,
         Creating, Releasing, Catching, Joining
<1>2. ASSUME NEW c \in Children PROVE Life(c)'
  <2>1. Life(c) /\ Life(child) /\ TypeOK /\ Life(1) /\ 1 \in Children
    <3>1. TypeOK /\ child \in Children /\ 1 \in Children
      BY DEF IInv, TypeOK
    <3> QED
      BY <3>1 DEF IInv
  <2>2. /\ ppc = "join"
        /\ released[child] = 1
        /\ cond[child]["0"] = "nobody"
        /\ ppc' = "join"
        /\ child' = child
        /\ round' = round
        /\ released' = released
    BY <2>1 DEF JoinWait
  <2>3. child \in 1 .. NChildren /\ c \in 1 .. NChildren /\ round \in Nat
        /\ (ppc \in {"user", "done"} => child = 1)
    BY <2>1 DEF TypeOK
  <2>4. CASE c # child
    <3>1. /\ cpc'[c] = cpc[c] /\ flag'[c] = flag[c] /\ released'[c] = released[c]
          /\ arg'[c] = arg[c] /\ tid'[c] = tid[c] /\ pthid'[c] = pthid[c]
          /\ vm'[c] = vm[c] /\ calls'[c] = calls[c] /\ owner'[c] = owner[c]
          /\ cond'[c] = cond[c]
      BY <2>1, <2>4 DEF JoinWait, StartWait
    <3> QED
      BY <2>1, <2>2, <2>3, <2>4, <3>1
         DEF Life, BackSyncs, Rounds, Waits, Mutexes, Flags, Arguments, Identity,
             Begun, Created, Dismissed, Joined, AtHome, Woke, Away, Owed
  <2>5. CASE c = child
    <3>1. /\ cpc'[child] = cpc[child] /\ flag'[child] = flag[child]
          /\ released'[child] = released[child] /\ arg'[child] = arg[child]
          /\ tid'[child] = tid[child] /\ pthid'[child] = pthid[child]
          /\ vm'[child] = vm[child] /\ calls'[child] = calls[child]
      BY <2>1 DEF JoinWait
    <3>2. /\ owner'[child]["0"] = "free"
          /\ owner'[child]["1"] = owner[child]["1"]
          /\ owner'[child]["extra2"] = owner[child]["extra2"]
          /\ cond'[child]["0"] = "waiter"
          /\ cond'[child]["1"] = cond[child]["1"]
          /\ cond'[child]["extra2"] = cond[child]["extra2"]
      BY <2>1, SetIn DEF JoinWait, StartWait, TypeOK, Syncs
    <3> QED
      BY <2>1, <2>2, <2>3, <2>5, <3>1, <3>2
         DEF Life, BackSyncs, Rounds, Waits, Mutexes, Flags, Arguments, Identity,
             Begun, Created, Dismissed, Joined, Woke, Away, Owed, Creating
  <2> QED
    BY <2>4, <2>5
<1> QED
  BY <1>1, <1>2 DEF IInv

\* and goes on when it is back.
LEMMA JoinCaughtKeeps == ASSUME IInv, JoinCaught PROVE IInv'
<1> USE VmktAssumption DEF Children
<1>1. TypeOK'
  BY DEF JoinCaught, EndWait, Awake, Lock, IInv, TypeOK, ParentPlaces,
         ChildPlaces, Syncs, Creating, Releasing, Catching, Joining
<1>2. ASSUME NEW c \in Children PROVE Life(c)'
  <2>1. Life(c) /\ Life(child) /\ TypeOK /\ Life(1) /\ 1 \in Children
    <3>1. TypeOK /\ child \in Children /\ 1 \in Children
      BY DEF IInv, TypeOK
    <3> QED
      BY <3>1 DEF IInv
  <2>2. /\ ppc = "join"
        /\ released[child] = 1
        /\ cond[child]["0"] = "woken"
        /\ owner[child]["0"] = "free"
        /\ ppc' = "join"
        /\ child' = child
        /\ round' = round
        /\ released' = [released EXCEPT ![child] = 0]
    BY <2>1 DEF JoinCaught, EndWait, Awake, Lock
  <2>3. child \in 1 .. NChildren /\ c \in 1 .. NChildren /\ round \in Nat
        /\ (ppc \in {"user", "done"} => child = 1)
    BY <2>1 DEF TypeOK
  <2>4. CASE c # child
    <3>1. /\ cpc'[c] = cpc[c] /\ flag'[c] = flag[c] /\ released'[c] = released[c]
          /\ arg'[c] = arg[c] /\ tid'[c] = tid[c] /\ pthid'[c] = pthid[c]
          /\ vm'[c] = vm[c] /\ calls'[c] = calls[c] /\ owner'[c] = owner[c]
          /\ cond'[c] = cond[c]
      BY <2>1, <2>4 DEF JoinCaught, EndWait, Lock
    <3> QED
      BY <2>1, <2>2, <2>3, <2>4, <3>1
         DEF Life, BackSyncs, Rounds, Waits, Mutexes, Flags, Arguments, Identity,
             Begun, Created, Dismissed, Joined, AtHome, Woke, Away, Owed
  <2>5. CASE c = child
    <3>1. /\ cpc'[child] = cpc[child] /\ flag'[child] = flag[child]
          /\ released'[child] = 0 /\ arg'[child] = arg[child]
          /\ tid'[child] = tid[child] /\ pthid'[child] = pthid[child]
          /\ vm'[child] = vm[child] /\ calls'[child] = calls[child]
      BY <2>1 DEF JoinCaught, TypeOK
    <3>2. /\ owner'[child]["0"] = "parent"
          /\ owner'[child]["1"] = owner[child]["1"]
          /\ owner'[child]["extra2"] = owner[child]["extra2"]
          /\ cond'[child]["0"] = "nobody"
          /\ cond'[child]["1"] = cond[child]["1"]
          /\ cond'[child]["extra2"] = cond[child]["extra2"]
      BY <2>1, SetIn DEF JoinCaught, EndWait, Lock, TypeOK, Syncs
    <3> QED
      BY <2>1, <2>2, <2>3, <2>5, <3>1, <3>2
         DEF Life, BackSyncs, Rounds, Waits, Mutexes, Flags, Arguments, Identity,
             Begun, Created, Dismissed, Joined, AtHome, Woke, Owed, Catching
  <2> QED
    BY <2>4, <2>5
<1> QED
  BY <1>1, <1>2 DEF IInv

\* vmkt_join raises the flag that tells the child to wrap up.
LEMMA JoinFlagKeeps == ASSUME IInv, JoinFlag PROVE IInv'
<1> USE VmktAssumption DEF Children
<1>1. TypeOK'
  BY DEF JoinFlag, IInv, TypeOK, ParentPlaces, ChildPlaces, Syncs, Creating,
         Releasing, Catching, Joining
<1>2. ASSUME NEW c \in Children PROVE Life(c)'
  <2>1. Life(c) /\ Life(child) /\ TypeOK /\ Life(1) /\ 1 \in Children
    <3>1. TypeOK /\ child \in Children /\ 1 \in Children
      BY DEF IInv, TypeOK
    <3> QED
      BY <3>1 DEF IInv
  <2>2. /\ ppc = "join"
        /\ released[child] = 0
        /\ ppc' = "lockJoin"
        /\ child' = child
        /\ round' = round
        /\ released' = released
    BY <2>1 DEF JoinFlag
  <2>3. child \in 1 .. NChildren /\ c \in 1 .. NChildren /\ round \in Nat
        /\ (ppc \in {"user", "done"} => child = 1)
    BY <2>1 DEF TypeOK
  <2>4. CASE c # child
    <3>1. /\ cpc'[c] = cpc[c] /\ flag'[c] = flag[c] /\ released'[c] = released[c]
          /\ arg'[c] = arg[c] /\ tid'[c] = tid[c] /\ pthid'[c] = pthid[c]
          /\ vm'[c] = vm[c] /\ calls'[c] = calls[c] /\ owner'[c] = owner[c]
          /\ cond'[c] = cond[c]
      BY <2>1, <2>4 DEF JoinFlag
    <3> QED
      BY <2>1, <2>2, <2>3, <2>4, <3>1
         DEF Life, BackSyncs, Rounds, Waits, Mutexes, Flags, Arguments, Identity,
             Begun, Created, Dismissed, Joined, AtHome, Woke, Away, Owed,
             Creating, Releasing, Catching
  <2>5. CASE c = child
    <3>1. /\ cpc'[child] = cpc[child] /\ flag'[child] = 1
          /\ released'[child] = released[child] /\ arg'[child] = arg[child]
          /\ tid'[child] = tid[child] /\ pthid'[child] = pthid[child]
          /\ vm'[child] = vm[child] /\ calls'[child] = calls[child]
      BY <2>1 DEF JoinFlag, TypeOK
    <3>2. /\ owner'[child] = owner[child]
          /\ cond'[child] = cond[child]
      BY <2>1, SetIn DEF JoinFlag
    <3>3. BackSyncs(c)'
      BY <2>1, <2>2, <2>3, <2>5, <3>1, <3>2 DEF BackSyncs, Begun
    <3>4. Rounds(c)'
      BY <2>1, <2>2, <2>3, <2>5, <3>1, <3>2
         DEF Life, Rounds, Created, Dismissed, Joined, AtHome
    <3>5. Waits(c)'
      BY <2>1, <2>2, <2>3, <2>5, <3>1, <3>2 DEF Life, Waits, Rounds, Created
    <3>6. Mutexes(c)'
      BY <2>1, <2>2, <2>3, <2>5, <3>1, <3>2 DEF Life, Mutexes, Begun
    <3>7. Flags(c)'
      BY <2>1, <2>2, <2>3, <2>5, <3>1, <3>2 DEF Flags, Catching, Joining
    <3>8. Arguments(c)'
      BY <2>1, <2>2, <2>3, <2>5, <3>1, <3>2
         DEF Life, Arguments, Owed, Creating, Releasing
    <3>9. Identity(c)'
      BY <2>1, <2>2, <2>3, <2>5, <3>1, <3>2 DEF Life, Identity, Begun
    <3> QED
      BY <3>3, <3>4, <3>5, <3>6, <3>7, <3>8, <3>9 DEF Life
  <2> QED
    BY <2>4, <2>5
<1> QED
  BY <1>1, <1>2 DEF IInv

\* It gets mutex 1 only when the child waits with it.
LEMMA JoinLockKeeps == ASSUME IInv, JoinLock PROVE IInv'
<1> USE VmktAssumption DEF Children
<1>1. TypeOK'
  BY DEF JoinLock, Lock, IInv, TypeOK, ParentPlaces, ChildPlaces, Syncs, Creating,
         Releasing, Catching, Joining
<1>2. ASSUME NEW c \in Children PROVE Life(c)'
  <2>1. Life(c) /\ Life(child) /\ TypeOK /\ Life(1) /\ 1 \in Children
    <3>1. TypeOK /\ child \in Children /\ 1 \in Children
      BY DEF IInv, TypeOK
    <3> QED
      BY <3>1 DEF IInv
  <2>2. /\ ppc = "lockJoin"
        /\ owner[child]["1"] = "free"
        /\ ppc' = "signalJoin"
        /\ child' = child
        /\ round' = round
        /\ released' = released
    BY <2>1 DEF JoinLock, Lock
  <2>3. child \in 1 .. NChildren /\ c \in 1 .. NChildren /\ round \in Nat
        /\ (ppc \in {"user", "done"} => child = 1)
    BY <2>1 DEF TypeOK
  <2>4. CASE c # child
    <3>1. /\ cpc'[c] = cpc[c] /\ flag'[c] = flag[c] /\ released'[c] = released[c]
          /\ arg'[c] = arg[c] /\ tid'[c] = tid[c] /\ pthid'[c] = pthid[c]
          /\ vm'[c] = vm[c] /\ calls'[c] = calls[c] /\ owner'[c] = owner[c]
          /\ cond'[c] = cond[c]
      BY <2>1, <2>4 DEF JoinLock, Lock
    <3> QED
      BY <2>1, <2>2, <2>3, <2>4, <3>1
         DEF Life, BackSyncs, Rounds, Waits, Mutexes, Flags, Arguments, Identity,
             Begun, Created, Dismissed, Joined, AtHome, Woke, Away, Owed,
             Creating, Releasing, Catching
  <2>5. CASE c = child
    <3>1. /\ cpc'[child] = cpc[child] /\ flag'[child] = flag[child]
          /\ released'[child] = released[child] /\ arg'[child] = arg[child]
          /\ tid'[child] = tid[child] /\ pthid'[child] = pthid[child]
          /\ vm'[child] = vm[child] /\ calls'[child] = calls[child]
      BY <2>1 DEF JoinLock
    <3>2. /\ owner'[child]["0"] = owner[child]["0"]
          /\ owner'[child]["1"] = "parent"
          /\ owner'[child]["extra2"] = owner[child]["extra2"]
          /\ cond'[child] = cond[child]
      BY <2>1, SetIn DEF JoinLock, Lock, TypeOK, Syncs
    <3>3. BackSyncs(c)'
      BY <2>1, <2>2, <2>3, <2>5, <3>1, <3>2 DEF BackSyncs, Begun
    <3>4. Rounds(c)'
      BY <2>1, <2>2, <2>3, <2>5, <3>1, <3>2
         DEF Life, Rounds, Created, Dismissed, Joined, AtHome, Woke, Away
    <3>5. Waits(c)'
      BY <2>1, <2>2, <2>3, <2>5, <3>1, <3>2
         DEF Life, Waits, Rounds, Mutexes, Begun, Created, AtHome, Woke, Away
    <3>6. Mutexes(c)'
      BY <2>1, <2>2, <2>3, <2>5, <3>1, <3>2 DEF Life, Mutexes, Begun
    <3>7. Flags(c)'
      BY <2>1, <2>2, <2>3, <2>5, <3>1, <3>2 DEF Life, Flags, Catching, Joining
    <3>8. Arguments(c)'
      BY <2>1, <2>2, <2>3, <2>5, <3>1, <3>2
         DEF Life, Arguments, Owed, Woke, Creating, Releasing
    <3>9. Identity(c)'
      BY <2>1, <2>2, <2>3, <2>5, <3>1, <3>2 DEF Life, Identity, Begun
    <3> QED
      BY <3>3, <3>4, <3>5, <3>6, <3>7, <3>8, <3>9 DEF Life
  <2> QED
    BY <2>4, <2>5
<1> QED
  BY <1>1, <1>2 DEF IInv

\* The child is told.
LEMMA JoinSignalKeeps == ASSUME IInv, JoinSignal PROVE IInv'
<1> USE VmktAssumption DEF Children
<1>1. TypeOK'
  BY DEF JoinSignal, SignalUnlock, IInv, TypeOK, ParentPlaces, ChildPlaces, Syncs,
         Creating, Releasing, Catching, Joining
<1>2. ASSUME NEW c \in Children PROVE Life(c)'
  <2>1. Life(c) /\ Life(child) /\ TypeOK /\ Life(1) /\ 1 \in Children
    <3>1. TypeOK /\ child \in Children /\ 1 \in Children
      BY DEF IInv, TypeOK
    <3> QED
      BY <3>1 DEF IInv
  <2>2. /\ ppc = "signalJoin"
        /\ ppc' = "thread"
        /\ child' = child
        /\ round' = round
        /\ released' = released
    BY <2>1 DEF JoinSignal
  <2>3. child \in 1 .. NChildren /\ c \in 1 .. NChildren /\ round \in Nat
        /\ (ppc \in {"user", "done"} => child = 1)
    BY <2>1 DEF TypeOK
  <2>4. CASE c # child
    <3>1. /\ cpc'[c] = cpc[c] /\ flag'[c] = flag[c] /\ released'[c] = released[c]
          /\ arg'[c] = arg[c] /\ tid'[c] = tid[c] /\ pthid'[c] = pthid[c]
          /\ vm'[c] = vm[c] /\ calls'[c] = calls[c] /\ owner'[c] = owner[c]
          /\ cond'[c] = cond[c]
      BY <2>1, <2>4 DEF JoinSignal, SignalUnlock
    <3> QED
      BY <2>1, <2>2, <2>3, <2>4, <3>1
         DEF Life, BackSyncs, Rounds, Waits, Mutexes, Flags, Arguments, Identity,
             Begun, Created, Dismissed, Joined, AtHome, Woke, Away, Owed,
             Creating, Releasing, Catching
  <2>5. CASE c = child
    <3>1. /\ cpc'[child] = cpc[child] /\ flag'[child] = flag[child]
          /\ released'[child] = released[child] /\ arg'[child] = arg[child]
          /\ tid'[child] = tid[child] /\ pthid'[child] = pthid[child]
          /\ vm'[child] = vm[child] /\ calls'[child] = calls[child]
      BY <2>1 DEF JoinSignal
    <3>2. /\ owner'[child]["0"] = owner[child]["0"]
          /\ owner'[child]["1"] = "free"
          /\ owner'[child]["extra2"] = owner[child]["extra2"]
          /\ cond'[child]["0"] = cond[child]["0"]
          /\ cond'[child]["1"] = (IF cond[child]["1"] = "waiter" THEN "woken" ELSE cond[child]["1"])
          /\ cond'[child]["extra2"] = cond[child]["extra2"]
      BY <2>1, SetIn DEF JoinSignal, SignalUnlock, TypeOK, Syncs
    <3> QED
      BY <2>1, <2>2, <2>3, <2>5, <3>1, <3>2
         DEF Life, BackSyncs, Rounds, Waits, Mutexes, Flags, Arguments, Identity,
             Begun, Created, Dismissed, Joined, AtHome, Woke, Owed, Creating,
             Releasing, Catching, Joining
  <2> QED
    BY <2>4, <2>5
<1> QED
  BY <1>1, <1>2 DEF IInv

\* pthread_join: the thread is gone; on to the next child or to the end.
LEMMA JoinThreadKeeps == ASSUME IInv, JoinThread PROVE IInv'
<1> USE VmktAssumption DEF Children
<1>1. TypeOK'
  <2>1. ppc' \in ParentPlaces /\ child' \in Children /\ (ppc' \in {"user", "done"} => child' = 1)
    BY DEF JoinThread, NextChild, IInv, TypeOK, ParentPlaces, Creating, Releasing,
           Catching, Joining
  <2> QED
    BY <2>1 DEF JoinThread, IInv, TypeOK, Syncs
<1>2. ASSUME NEW c \in Children PROVE Life(c)'
  <2>1. Life(c) /\ Life(child) /\ TypeOK /\ Life(1) /\ 1 \in Children
    <3>1. TypeOK /\ child \in Children /\ 1 \in Children
      BY DEF IInv, TypeOK
    <3> QED
      BY <3>1 DEF IInv
  <2>2. /\ ppc = "thread"
        /\ cpc[child] = "gone"
        /\ round' = round
        /\ released' = released
    BY <2>1 DEF JoinThread
  <2>3. \/ child < NChildren /\ ppc' = "join" /\ child' = child + 1
        \/ child = NChildren /\ ppc' = "done" /\ child' = 1
    BY <2>1 DEF JoinThread, NextChild, TypeOK
  <2>4. child \in 1 .. NChildren /\ c \in 1 .. NChildren /\ round \in Nat
        /\ (ppc \in {"user", "done"} => child = 1)
    BY <2>1 DEF TypeOK
  <2>5. CASE c # child
    <3>1. /\ cpc'[c] = cpc[c] /\ flag'[c] = flag[c] /\ released'[c] = released[c]
          /\ arg'[c] = arg[c] /\ tid'[c] = tid[c] /\ pthid'[c] = pthid[c]
          /\ vm'[c] = vm[c] /\ calls'[c] = calls[c] /\ owner'[c] = owner[c]
          /\ cond'[c] = cond[c]
      BY <2>1, <2>5 DEF JoinThread
    <3>2. BackSyncs(c)'
      BY <2>1, <2>2, <2>3, <2>4, <2>5, <3>1 DEF BackSyncs, Begun, Created
    <3>3. Rounds(c)'
      BY <2>1, <2>2, <2>3, <2>4, <2>5, <3>1
         DEF Life, Rounds, Created, Dismissed, Joined, AtHome, Woke, Away
    <3>4. Waits(c)'
      BY <2>1, <2>2, <2>3, <2>4, <2>5, <3>1 DEF Life, Waits
    <3>5. Mutexes(c)'
      BY <2>1, <2>2, <2>3, <2>4, <2>5, <3>1 DEF Life, Mutexes, Begun, Created
    <3>6. Flags(c)'
      BY <2>1, <2>2, <2>3, <2>4, <2>5, <3>1
         DEF Life, Flags, Rounds, Joined, Creating, Releasing, Catching, Joining,
             Dismissed, AtHome, Woke, Away
    <3>7. Arguments(c)'
      BY <2>1, <2>2, <2>3, <2>4, <2>5, <3>1
         DEF Life, Arguments, Flags, Owed, Woke, Creating, Releasing, Joined,
             Catching
    <3>8. Identity(c)'
      BY <2>1, <2>2, <2>3, <2>4, <2>5, <3>1 DEF Life, Identity, Begun, Created
    <3> QED
      BY <3>2, <3>3, <3>4, <3>5, <3>6, <3>7, <3>8 DEF Life
  <2>6. CASE c = child
    <3>1. /\ cpc'[child] = cpc[child] /\ flag'[child] = flag[child]
          /\ released'[child] = released[child] /\ arg'[child] = arg[child]
          /\ tid'[child] = tid[child] /\ pthid'[child] = pthid[child]
          /\ vm'[child] = vm[child] /\ calls'[child] = calls[child]
      BY <2>1 DEF JoinThread
    <3>2. /\ owner'[child] = owner[child]
          /\ cond'[child] = cond[child]
      BY <2>1, SetIn DEF JoinThread
    <3>3. BackSyncs(c)'
      BY <2>1, <2>2, <2>3, <2>4, <2>6, <3>1, <3>2 DEF BackSyncs, Begun, Created
    <3>4. Rounds(c)'
      BY <2>1, <2>2, <2>3, <2>4, <2>6, <3>1, <3>2
         DEF Life, Rounds, Created, Dismissed, Joined
    <3>5. Waits(c)'
      BY <2>1, <2>2, <2>3, <2>4, <2>6, <3>1, <3>2 DEF Life, Waits
    <3>6. Mutexes(c)'
      BY <2>1, <2>2, <2>3, <2>4, <2>6, <3>1, <3>2
         DEF Life, Mutexes, Begun, Created
    <3>7. Flags(c)'
      BY <2>1, <2>2, <2>3, <2>4, <2>6, <3>1, <3>2
         DEF Life, Flags, Joined, Creating, Releasing, Catching, Joining
    <3>8. Arguments(c)'
      BY <2>1, <2>2, <2>3, <2>4, <2>6, <3>1, <3>2
         DEF Life, Arguments, Flags, Waits, BackSyncs, Owed, Woke, Creating,
             Releasing, Created, Joined, AtHome, Catching, Joining, Begun
    <3>9. Identity(c)'
      BY <2>1, <2>2, <2>3, <2>4, <2>6, <3>1, <3>2
         DEF Life, Identity, Begun, Created
    <3> QED
      BY <3>3, <3>4, <3>5, <3>6, <3>7, <3>8, <3>9 DEF Life
  <2> QED
    BY <2>5, <2>6
<1> QED
  BY <1>1, <1>2 DEF IInv

\* A child gets mutex 0 for the first back-sync when the parent waits with it,
LEMMA LockSync1Keeps ==
  ASSUME IInv, NEW d \in Children, LockAt(d, "lockSync1", "signalSync1", "0")
  PROVE  IInv'
<1> USE VmktAssumption DEF Children
<1>1. TypeOK'
  BY DEF LockAt, ChildAt, Lock, IInv, TypeOK, ParentPlaces, ChildPlaces, Syncs,
         Creating, Releasing, Catching, Joining
<1>2. /\ TypeOK /\ Life(d) /\ child \in 1 .. NChildren /\ round \in Nat
      /\ ppc \in {"user", "done"} => child = 1
  BY DEF IInv, TypeOK
<1>3. /\ cpc[d] = "lockSync1" /\ owner[d]["0"] = "free"
      /\ ppc' = ppc /\ child' = child
      /\ round' = round /\ released' = released
  BY <1>2 DEF LockAt, ChildAt, Lock
<1>4. /\ cpc'[d] = "signalSync1" /\ flag'[d] = flag[d]
      /\ arg'[d] = arg[d] /\ tid'[d] = tid[d]
      /\ pthid'[d] = pthid[d] /\ vm'[d] = vm[d]
      /\ calls'[d] = calls[d]
  BY <1>2 DEF LockAt, ChildAt, TypeOK
<1>5. /\ owner'[d]["0"] = "child"
      /\ owner'[d]["1"] = owner[d]["1"]
      /\ owner'[d]["extra2"] = owner[d]["extra2"]
      /\ cond'[d] = cond[d]
  BY <1>2, SetIn DEF LockAt, Lock, TypeOK, Syncs
<1>6. Life(d)'
  <2>1. BackSyncs(d)'
    BY <1>2, <1>3, <1>4, <1>5 DEF Life, BackSyncs, Mutexes, Begun, Created
  <2>2. Rounds(d)'
    BY <1>2, <1>3, <1>4, <1>5
       DEF Life, Rounds, Created, Dismissed, Joined, AtHome, Woke, Away
  <2>3. Waits(d)'
    BY <1>2, <1>3, <1>4, <1>5 DEF Life, Waits
  <2>4. Mutexes(d)'
    BY <1>2, <1>3, <1>4, <1>5 DEF Life, Mutexes, BackSyncs, Begun, Created
  <2>5. Flags(d)'
    BY <1>2, <1>3, <1>4, <1>5 DEF Life, Flags, Joined
  <2>6. Arguments(d)'
    BY <1>2, <1>3, <1>4, <1>5 DEF Life, Arguments, Owed, Woke
  <2>7. Identity(d)'
    BY <1>2, <1>3, <1>4, <1>5 DEF Life, Identity, Begun, Created
  <2> QED
    BY <2>1, <2>2, <2>3, <2>4, <2>5, <2>6, <2>7 DEF Life
<1>7. \A c \in Children \ {d} :
        /\ cpc'[c] = cpc[c] /\ flag'[c] = flag[c] /\ arg'[c] = arg[c]
        /\ tid'[c] = tid[c] /\ pthid'[c] = pthid[c] /\ vm'[c] = vm[c]
        /\ calls'[c] = calls[c] /\ owner'[c] = owner[c] /\ cond'[c] = cond[c]
  BY <1>2 DEF LockAt, ChildAt, Lock
<1> QED
  BY <1>1, <1>3, <1>6, <1>7, OthersStay

\* the extra mutex 2 for the second,
LEMMA LockSync2Keeps ==
  ASSUME IInv, NEW d \in Children, LockAt(d, "lockSync2", "signalSync2", "extra2")
  PROVE  IInv'
<1> USE VmktAssumption DEF Children
<1>1. TypeOK'
  BY DEF LockAt, ChildAt, Lock, IInv, TypeOK, ParentPlaces, ChildPlaces, Syncs,
         Creating, Releasing, Catching, Joining
<1>2. /\ TypeOK /\ Life(d) /\ child \in 1 .. NChildren /\ round \in Nat
      /\ ppc \in {"user", "done"} => child = 1
  BY DEF IInv, TypeOK
<1>3. /\ cpc[d] = "lockSync2" /\ owner[d]["extra2"] = "free"
      /\ ppc' = ppc /\ child' = child
      /\ round' = round /\ released' = released
  BY <1>2 DEF LockAt, ChildAt, Lock
<1>4. /\ cpc'[d] = "signalSync2" /\ flag'[d] = flag[d]
      /\ arg'[d] = arg[d] /\ tid'[d] = tid[d]
      /\ pthid'[d] = pthid[d] /\ vm'[d] = vm[d]
      /\ calls'[d] = calls[d]
  BY <1>2 DEF LockAt, ChildAt, TypeOK
<1>5. /\ owner'[d]["0"] = owner[d]["0"]
      /\ owner'[d]["1"] = owner[d]["1"]
      /\ owner'[d]["extra2"] = "child"
      /\ cond'[d] = cond[d]
  BY <1>2, SetIn DEF LockAt, Lock, TypeOK, Syncs
<1>6. Life(d)'
  <2>1. BackSyncs(d)'
    BY <1>2, <1>3, <1>4, <1>5 DEF Life, BackSyncs, Mutexes, Begun, Created, AtHome
  <2>2. Rounds(d)'
    BY <1>2, <1>3, <1>4, <1>5
       DEF Life, Rounds, Created, Dismissed, Joined, AtHome, Woke, Away
  <2>3. Waits(d)'
    BY <1>2, <1>3, <1>4, <1>5 DEF Life, Waits
  <2>4. Mutexes(d)'
    BY <1>2, <1>3, <1>4, <1>5 DEF Life, Mutexes, BackSyncs, Begun, Created
  <2>5. Flags(d)'
    BY <1>2, <1>3, <1>4, <1>5 DEF Life, Flags, Joined
  <2>6. Arguments(d)'
    BY <1>2, <1>3, <1>4, <1>5 DEF Life, Arguments, Owed, Woke
  <2>7. Identity(d)'
    BY <1>2, <1>3, <1>4, <1>5 DEF Life, Identity, Begun, Created
  <2> QED
    BY <2>1, <2>2, <2>3, <2>4, <2>5, <2>6, <2>7 DEF Life
<1>7. \A c \in Children \ {d} :
        /\ cpc'[c] = cpc[c] /\ flag'[c] = flag[c] /\ arg'[c] = arg[c]
        /\ tid'[c] = tid[c] /\ pthid'[c] = pthid[c] /\ vm'[c] = vm[c]
        /\ calls'[c] = calls[c] /\ owner'[c] = owner[c] /\ cond'[c] = cond[c]
  BY <1>2 DEF LockAt, ChildAt, Lock
<1> QED
  BY <1>1, <1>3, <1>6, <1>7, OthersStay

\* and mutex 0 at the end of a round when the parent catches.
LEMMA LockFinishKeeps ==
  ASSUME IInv, NEW d \in Children, LockAt(d, "lockFinish", "signalFinish", "0")
  PROVE  IInv'
<1> USE VmktAssumption DEF Children
<1>1. TypeOK'
  BY DEF LockAt, ChildAt, Lock, IInv, TypeOK, ParentPlaces, ChildPlaces, Syncs,
         Creating, Releasing, Catching, Joining
<1>2. /\ TypeOK /\ Life(d) /\ child \in 1 .. NChildren /\ round \in Nat
      /\ ppc \in {"user", "done"} => child = 1
  BY DEF IInv, TypeOK
<1>3. /\ cpc[d] = "lockFinish" /\ owner[d]["0"] = "free"
      /\ ppc' = ppc /\ child' = child
      /\ round' = round /\ released' = released
  BY <1>2 DEF LockAt, ChildAt, Lock
<1>4. /\ cpc'[d] = "signalFinish" /\ flag'[d] = flag[d]
      /\ arg'[d] = arg[d] /\ tid'[d] = tid[d]
      /\ pthid'[d] = pthid[d] /\ vm'[d] = vm[d]
      /\ calls'[d] = calls[d]
  BY <1>2 DEF LockAt, ChildAt, TypeOK
<1>5. /\ owner'[d]["0"] = "child"
      /\ owner'[d]["1"] = owner[d]["1"]
      /\ owner'[d]["extra2"] = owner[d]["extra2"]
      /\ cond'[d] = cond[d]
  BY <1>2, SetIn DEF LockAt, Lock, TypeOK, Syncs
<1>6. Life(d)'
  BY <1>2, <1>3, <1>4, <1>5
     DEF Life, BackSyncs, Rounds, Waits, Mutexes, Flags, Arguments, Identity,
         Begun, Created, Dismissed, Joined, AtHome, Woke, Owed
<1>7. \A c \in Children \ {d} :
        /\ cpc'[c] = cpc[c] /\ flag'[c] = flag[c] /\ arg'[c] = arg[c]
        /\ tid'[c] = tid[c] /\ pthid'[c] = pthid[c] /\ vm'[c] = vm[c]
        /\ calls'[c] = calls[c] /\ owner'[c] = owner[c] /\ cond'[c] = cond[c]
  BY <1>2 DEF LockAt, ChildAt, Lock
<1> QED
  BY <1>1, <1>3, <1>6, <1>7, OthersStay

\* A child signals for the first back-sync, to the parent that waits for it,
LEMMA SignalSync1Keeps ==
  ASSUME IInv, NEW d \in Children, SignalAt(d, "signalSync1", "prepare", "0")
  PROVE  IInv'
<1> USE VmktAssumption DEF Children
<1>1. TypeOK'
  BY DEF SignalAt, ChildAt, SignalUnlock, IInv, TypeOK, ParentPlaces, ChildPlaces,
         Syncs, Creating, Releasing, Catching, Joining
<1>2. /\ TypeOK /\ Life(d) /\ child \in 1 .. NChildren /\ round \in Nat
      /\ ppc \in {"user", "done"} => child = 1
  BY DEF IInv, TypeOK
<1>3. /\ cpc[d] = "signalSync1" /\ ppc' = ppc
      /\ child' = child /\ round' = round
      /\ released' = released
  BY <1>2 DEF SignalAt, ChildAt
<1>4. /\ cpc'[d] = "prepare" /\ flag'[d] = flag[d]
      /\ arg'[d] = arg[d] /\ tid'[d] = tid[d]
      /\ pthid'[d] = pthid[d] /\ vm'[d] = vm[d]
      /\ calls'[d] = calls[d]
  BY <1>2 DEF SignalAt, ChildAt, TypeOK
<1>5. /\ owner'[d]["0"] = "free"
      /\ owner'[d]["1"] = owner[d]["1"]
      /\ owner'[d]["extra2"] = owner[d]["extra2"]
      /\ cond'[d]["0"] = (IF cond[d]["0"] = "waiter" THEN "woken" ELSE cond[d]["0"])
      /\ cond'[d]["1"] = cond[d]["1"]
      /\ cond'[d]["extra2"] = cond[d]["extra2"]
  BY <1>2, SetIn DEF SignalAt, SignalUnlock, TypeOK, Syncs
<1>6. Life(d)'
  BY <1>2, <1>3, <1>4, <1>5
     DEF Life, BackSyncs, Rounds, Waits, Mutexes, Flags, Arguments, Identity,
         Begun, Created, Dismissed, Joined, AtHome, Woke, Away, Owed
<1>7. \A c \in Children \ {d} :
        /\ cpc'[c] = cpc[c] /\ flag'[c] = flag[c] /\ arg'[c] = arg[c]
        /\ tid'[c] = tid[c] /\ pthid'[c] = pthid[c] /\ vm'[c] = vm[c]
        /\ calls'[c] = calls[c] /\ owner'[c] = owner[c] /\ cond'[c] = cond[c]
  BY <1>2 DEF SignalAt, ChildAt, SignalUnlock
<1> QED
  BY <1>1, <1>3, <1>6, <1>7, OthersStay

\* for the second,
LEMMA SignalSync2Keeps ==
  ASSUME IInv, NEW d \in Children, SignalAt(d, "signalSync2", "wait", "extra2")
  PROVE  IInv'
<1> USE VmktAssumption DEF Children
<1>1. TypeOK'
  BY DEF SignalAt, ChildAt, SignalUnlock, IInv, TypeOK, ParentPlaces, ChildPlaces,
         Syncs, Creating, Releasing, Catching, Joining
<1>2. /\ TypeOK /\ Life(d) /\ child \in 1 .. NChildren /\ round \in Nat
      /\ ppc \in {"user", "done"} => child = 1
  BY DEF IInv, TypeOK
<1>3. /\ cpc[d] = "signalSync2" /\ ppc' = ppc
      /\ child' = child /\ round' = round
      /\ released' = released
  BY <1>2 DEF SignalAt, ChildAt
<1>4. /\ cpc'[d] = "wait" /\ flag'[d] = flag[d]
      /\ arg'[d] = arg[d] /\ tid'[d] = tid[d]
      /\ pthid'[d] = pthid[d] /\ vm'[d] = vm[d]
      /\ calls'[d] = calls[d]
  BY <1>2 DEF SignalAt, ChildAt, TypeOK
<1>5. /\ owner'[d]["0"] = owner[d]["0"]
      /\ owner'[d]["1"] = owner[d]["1"]
      /\ owner'[d]["extra2"] = "free"
      /\ cond'[d]["0"] = cond[d]["0"]
      /\ cond'[d]["1"] = cond[d]["1"]
      /\ cond'[d]["extra2"] = (IF cond[d]["extra2"] = "waiter" THEN "woken" ELSE cond[d]["extra2"])
  BY <1>2, SetIn DEF SignalAt, SignalUnlock, TypeOK, Syncs
<1>6. Life(d)'
  BY <1>2, <1>3, <1>4, <1>5
     DEF Life, BackSyncs, Rounds, Waits, Mutexes, Flags, Arguments, Identity,
         Begun, Created, Dismissed, Joined, AtHome, Woke, Owed
<1>7. \A c \in Children \ {d} :
        /\ cpc'[c] = cpc[c] /\ flag'[c] = flag[c] /\ arg'[c] = arg[c]
        /\ tid'[c] = tid[c] /\ pthid'[c] = pthid[c] /\ vm'[c] = vm[c]
        /\ calls'[c] = calls[c] /\ owner'[c] = owner[c] /\ cond'[c] = cond[c]
  BY <1>2 DEF SignalAt, ChildAt, SignalUnlock
<1> QED
  BY <1>1, <1>3, <1>6, <1>7, OthersStay

\* and at the end of a round.
LEMMA SignalFinishKeeps ==
  ASSUME IInv, NEW d \in Children, SignalAt(d, "signalFinish", "wait", "0")
  PROVE  IInv'
<1> USE VmktAssumption DEF Children
<1>1. TypeOK'
  BY DEF SignalAt, ChildAt, SignalUnlock, IInv, TypeOK, ParentPlaces, ChildPlaces,
         Syncs, Creating, Releasing, Catching, Joining
<1>2. /\ TypeOK /\ Life(d) /\ child \in 1 .. NChildren /\ round \in Nat
      /\ ppc \in {"user", "done"} => child = 1
  BY DEF IInv, TypeOK
<1>3. /\ cpc[d] = "signalFinish" /\ ppc' = ppc
      /\ child' = child /\ round' = round
      /\ released' = released
  BY <1>2 DEF SignalAt, ChildAt
<1>4. /\ cpc'[d] = "wait" /\ flag'[d] = flag[d]
      /\ arg'[d] = arg[d] /\ tid'[d] = tid[d]
      /\ pthid'[d] = pthid[d] /\ vm'[d] = vm[d]
      /\ calls'[d] = calls[d]
  BY <1>2 DEF SignalAt, ChildAt, TypeOK
<1>5. /\ owner'[d]["0"] = "free"
      /\ owner'[d]["1"] = owner[d]["1"]
      /\ owner'[d]["extra2"] = owner[d]["extra2"]
      /\ cond'[d]["0"] = (IF cond[d]["0"] = "waiter" THEN "woken" ELSE cond[d]["0"])
      /\ cond'[d]["1"] = cond[d]["1"]
      /\ cond'[d]["extra2"] = cond[d]["extra2"]
  BY <1>2, SetIn DEF SignalAt, SignalUnlock, TypeOK, Syncs
<1>6. Life(d)'
  BY <1>2, <1>3, <1>4, <1>5
     DEF Life, BackSyncs, Rounds, Waits, Mutexes, Flags, Arguments, Identity,
         Begun, Created, Dismissed, Joined, AtHome, Woke, Owed
<1>7. \A c \in Children \ {d} :
        /\ cpc'[c] = cpc[c] /\ flag'[c] = flag[c] /\ arg'[c] = arg[c]
        /\ tid'[c] = tid[c] /\ pthid'[c] = pthid[c] /\ vm'[c] = vm[c]
        /\ calls'[c] = calls[c] /\ owner'[c] = owner[c] /\ cond'[c] = cond[c]
  BY <1>2 DEF SignalAt, ChildAt, SignalUnlock
<1> QED
  BY <1>1, <1>3, <1>6, <1>7, OthersStay

\* A child locks mutex 1 and notes its identity before the second back-sync.
LEMMA PrepareKeeps ==
  ASSUME IInv, NEW d \in Children, Prepare(d)
  PROVE  IInv'
<1> USE VmktAssumption DEF Children
<1>1. TypeOK'
  BY DEF Prepare, ChildAt, Lock, IInv, TypeOK, ParentPlaces, ChildPlaces, Syncs,
         Creating, Releasing, Catching, Joining
<1>2. /\ TypeOK /\ Life(d) /\ child \in 1 .. NChildren /\ round \in Nat
      /\ ppc \in {"user", "done"} => child = 1
  BY DEF IInv, TypeOK
<1>3. /\ cpc[d] = "prepare" /\ owner[d]["1"] = "free"
      /\ ppc' = ppc /\ child' = child
      /\ round' = round /\ released' = released
  BY <1>2 DEF Prepare, ChildAt, Lock
<1>4. /\ cpc'[d] = "construct" /\ flag'[d] = flag[d]
      /\ arg'[d] = arg[d] /\ tid'[d] = tid[d]
      /\ pthid'[d] = tid[d] /\ vm'[d] = vm[d]
      /\ calls'[d] = calls[d]
  BY <1>2 DEF Prepare, ChildAt, TypeOK
<1>5. /\ owner'[d]["0"] = owner[d]["0"]
      /\ owner'[d]["1"] = "child"
      /\ owner'[d]["extra2"] = owner[d]["extra2"]
      /\ cond'[d] = cond[d]
  BY <1>2, SetIn DEF Prepare, Lock, TypeOK, Syncs
<1>6. Life(d)'
  BY <1>2, <1>3, <1>4, <1>5
     DEF Life, BackSyncs, Rounds, Waits, Mutexes, Flags, Arguments, Identity,
         Begun, Created, Dismissed, Joined, AtHome, Woke, Away, Owed
<1>7. \A c \in Children \ {d} :
        /\ cpc'[c] = cpc[c] /\ flag'[c] = flag[c] /\ arg'[c] = arg[c]
        /\ tid'[c] = tid[c] /\ pthid'[c] = pthid[c] /\ vm'[c] = vm[c]
        /\ calls'[c] = calls[c] /\ owner'[c] = owner[c] /\ cond'[c] = cond[c]
  BY <1>2 DEF Prepare, ChildAt, Lock
<1> QED
  BY <1>1, <1>3, <1>6, <1>7, OthersStay

\* It constructs its VM.
LEMMA ConstructKeeps ==
  ASSUME IInv, NEW d \in Children, Construct(d)
  PROVE  IInv'
<1> USE VmktAssumption DEF Children
<1>1. TypeOK'
  BY DEF Construct, ChildAt, IInv, TypeOK, ParentPlaces, ChildPlaces, Syncs,
         Creating, Releasing, Catching, Joining
<1>2. /\ TypeOK /\ Life(d) /\ child \in 1 .. NChildren /\ round \in Nat
      /\ ppc \in {"user", "done"} => child = 1
  BY DEF IInv, TypeOK
<1>3. /\ cpc[d] = "construct" /\ ppc' = ppc
      /\ child' = child /\ round' = round
      /\ released' = released
  BY <1>2 DEF Construct, ChildAt
<1>4. /\ cpc'[d] = "lockSync2" /\ flag'[d] = flag[d]
      /\ arg'[d] = arg[d] /\ tid'[d] = tid[d]
      /\ pthid'[d] = pthid[d] /\ vm'[d] = "constructed"
      /\ calls'[d] = calls[d]
  BY <1>2 DEF Construct, ChildAt, TypeOK
<1>5. /\ owner'[d] = owner[d]
      /\ cond'[d] = cond[d]
  BY <1>2, SetIn DEF Construct
<1>6. Life(d)'
  BY <1>2, <1>3, <1>4, <1>5
     DEF Life, BackSyncs, Rounds, Waits, Mutexes, Flags, Arguments, Identity,
         Begun, Created, Dismissed, Joined, AtHome, Woke, Away, Owed
<1>7. \A c \in Children \ {d} :
        /\ cpc'[c] = cpc[c] /\ flag'[c] = flag[c] /\ arg'[c] = arg[c]
        /\ tid'[c] = tid[c] /\ pthid'[c] = pthid[c] /\ vm'[c] = vm[c]
        /\ calls'[c] = calls[c] /\ owner'[c] = owner[c] /\ cond'[c] = cond[c]
  BY <1>2 DEF Construct, ChildAt
<1> QED
  BY <1>1, <1>3, <1>6, <1>7, OthersStay

\* It waits for its release, which gives mutex 1 to the parent.
LEMMA WaitForReleaseKeeps ==
  ASSUME IInv, NEW d \in Children, WaitForRelease(d)
  PROVE  IInv'
<1> USE VmktAssumption DEF Children
<1>1. TypeOK'
  BY DEF WaitForRelease, ChildAt, StartWait, IInv, TypeOK, ParentPlaces,
         ChildPlaces, Syncs, Creating, Releasing, Catching, Joining
<1>2. /\ TypeOK /\ Life(d) /\ child \in 1 .. NChildren /\ round \in Nat
      /\ ppc \in {"user", "done"} => child = 1
  BY DEF IInv, TypeOK
<1>3. /\ cpc[d] = "wait" /\ ppc' = ppc
      /\ child' = child /\ round' = round
      /\ released' = released
  BY <1>2 DEF WaitForRelease, ChildAt
<1>4. /\ cpc'[d] = "waiting" /\ flag'[d] = flag[d]
      /\ arg'[d] = arg[d] /\ tid'[d] = tid[d]
      /\ pthid'[d] = pthid[d] /\ vm'[d] = vm[d]
      /\ calls'[d] = calls[d]
  BY <1>2 DEF WaitForRelease, ChildAt, TypeOK
<1>5. /\ owner'[d]["0"] = owner[d]["0"]
      /\ owner'[d]["1"] = "free"
      /\ owner'[d]["extra2"] = owner[d]["extra2"]
      /\ cond'[d]["0"] = cond[d]["0"]
      /\ cond'[d]["1"] = "waiter"
      /\ cond'[d]["extra2"] = cond[d]["extra2"]
  BY <1>2, SetIn DEF WaitForRelease, StartWait, TypeOK, Syncs
<1>6. Life(d)'
  BY <1>2, <1>3, <1>4, <1>5
     DEF Life, BackSyncs, Rounds, Waits, Mutexes, Flags, Arguments, Identity,
         Begun, Created, Dismissed, Joined, AtHome, Woke, Away, Owed
<1>7. \A c \in Children \ {d} :
        /\ cpc'[c] = cpc[c] /\ flag'[c] = flag[c] /\ arg'[c] = arg[c]
        /\ tid'[c] = tid[c] /\ pthid'[c] = pthid[c] /\ vm'[c] = vm[c]
        /\ calls'[c] = calls[c] /\ owner'[c] = owner[c] /\ cond'[c] = cond[c]
  BY <1>2 DEF WaitForRelease, ChildAt, StartWait
<1> QED
  BY <1>1, <1>3, <1>6, <1>7, OthersStay

\* It is released, to be called back, or told to wrap up.
LEMMA WokenKeeps ==
  ASSUME IInv, NEW d \in Children, Woken(d)
  PROVE  IInv'
<1> USE VmktAssumption DEF Children
<1>1. TypeOK'
  BY DEF Woken, ChildAt, EndWait, Awake, Lock, IInv, TypeOK, ParentPlaces,
         ChildPlaces, Syncs, Creating, Releasing, Catching, Joining
<1>2. /\ TypeOK /\ Life(d) /\ child \in 1 .. NChildren /\ round \in Nat
      /\ ppc \in {"user", "done"} => child = 1
  BY DEF IInv, TypeOK
<1>3. /\ cpc[d] = "waiting" /\ cond[d]["1"] = "woken"
      /\ owner[d]["1"] = "free" /\ ppc' = ppc
      /\ child' = child /\ round' = round
      /\ released' = released
  BY <1>2 DEF Woken, ChildAt, EndWait, Awake, Lock
<1>4. /\ cpc'[d] = (IF flag[d] = 1 THEN "destruct" ELSE "callback")
      /\ flag'[d] = flag[d]
      /\ arg'[d] = arg[d] /\ tid'[d] = tid[d]
      /\ pthid'[d] = pthid[d] /\ vm'[d] = vm[d]
      /\ calls'[d] = calls[d]
  BY <1>2 DEF Woken, ChildAt, TypeOK
<1>5. /\ owner'[d]["0"] = owner[d]["0"]
      /\ owner'[d]["1"] = "child"
      /\ owner'[d]["extra2"] = owner[d]["extra2"]
      /\ cond'[d]["0"] = cond[d]["0"]
      /\ cond'[d]["1"] = "nobody"
      /\ cond'[d]["extra2"] = cond[d]["extra2"]
  BY <1>2, SetIn DEF Woken, EndWait, Lock, TypeOK, Syncs
<1>6. Life(d)'
  BY <1>2, <1>3, <1>4, <1>5
     DEF Life, BackSyncs, Rounds, Waits, Mutexes, Flags, Arguments, Identity,
         Begun, Created, Dismissed, Joined, AtHome, Away, Owed, Joining
<1>7. \A c \in Children \ {d} :
        /\ cpc'[c] = cpc[c] /\ flag'[c] = flag[c] /\ arg'[c] = arg[c]
        /\ tid'[c] = tid[c] /\ pthid'[c] = pthid[c] /\ vm'[c] = vm[c]
        /\ calls'[c] = calls[c] /\ owner'[c] = owner[c] /\ cond'[c] = cond[c]
  BY <1>2 DEF Woken, ChildAt, EndWait, Lock
<1> QED
  BY <1>1, <1>3, <1>6, <1>7, OthersStay

\* It enters user code with its argument.
LEMMA CallBackKeeps ==
  ASSUME IInv, NEW d \in Children, CallBack(d)
  PROVE  IInv'
<1> USE VmktAssumption DEF Children
<1>1. TypeOK'
  BY DEF CallBack, ChildAt, IInv, TypeOK, ParentPlaces, ChildPlaces, Syncs,
         Creating, Releasing, Catching, Joining
<1>2. /\ TypeOK /\ Life(d) /\ child \in 1 .. NChildren /\ round \in Nat
      /\ ppc \in {"user", "done"} => child = 1
  BY DEF IInv, TypeOK
<1>3. /\ cpc[d] = "callback" /\ ppc' = ppc
      /\ child' = child /\ round' = round
      /\ released' = released
  BY <1>2 DEF CallBack, ChildAt
<1>4. /\ cpc'[d] = "running" /\ flag'[d] = flag[d]
      /\ arg'[d] = arg[d] /\ tid'[d] = tid[d]
      /\ pthid'[d] = pthid[d] /\ vm'[d] = vm[d]
      /\ calls'[d] = Append(calls[d], arg[d])
  BY <1>2 DEF CallBack, ChildAt, TypeOK
<1>5. /\ owner'[d] = owner[d]
      /\ cond'[d] = cond[d]
  BY <1>2, SetIn DEF CallBack
<1>6. Life(d)'
  BY <1>2, <1>3, <1>4, <1>5
     DEF Life, BackSyncs, Rounds, Waits, Mutexes, Flags, Arguments, Identity,
         Begun, Created, Dismissed, Joined, AtHome, Woke, Away, Owed
<1>7. \A c \in Children \ {d} :
        /\ cpc'[c] = cpc[c] /\ flag'[c] = flag[c] /\ arg'[c] = arg[c]
        /\ tid'[c] = tid[c] /\ pthid'[c] = pthid[c] /\ vm'[c] = vm[c]
        /\ calls'[c] = calls[c] /\ owner'[c] = owner[c] /\ cond'[c] = cond[c]
  BY <1>2 DEF CallBack, ChildAt
<1> QED
  BY <1>1, <1>3, <1>6, <1>7, OthersStay

\* It comes back from user code.
LEMMA CallBackReturnsKeeps ==
  ASSUME IInv, NEW d \in Children, CallBackReturns(d)
  PROVE  IInv'
<1> USE VmktAssumption DEF Children
<1>1. TypeOK'
  BY DEF CallBackReturns, ChildAt, IInv, TypeOK, ParentPlaces, ChildPlaces, Syncs,
         Creating, Releasing, Catching, Joining
<1>2. /\ TypeOK /\ Life(d) /\ child \in 1 .. NChildren /\ round \in Nat
      /\ ppc \in {"user", "done"} => child = 1
  BY DEF IInv, TypeOK
<1>3. /\ cpc[d] = "running" /\ ppc' = ppc
      /\ child' = child /\ round' = round
      /\ released' = released
  BY <1>2 DEF CallBackReturns, ChildAt
<1>4. /\ cpc'[d] = "lockFinish" /\ flag'[d] = flag[d]
      /\ arg'[d] = arg[d] /\ tid'[d] = tid[d]
      /\ pthid'[d] = pthid[d] /\ vm'[d] = vm[d]
      /\ calls'[d] = calls[d]
  BY <1>2 DEF CallBackReturns, ChildAt, TypeOK
<1>5. /\ owner'[d] = owner[d]
      /\ cond'[d] = cond[d]
  BY <1>2, SetIn DEF CallBackReturns
<1>6. Life(d)'
  BY <1>2, <1>3, <1>4, <1>5
     DEF Life, BackSyncs, Rounds, Waits, Mutexes, Flags, Arguments, Identity,
         Begun, Created, Dismissed, Joined, AtHome, Woke, Away, Owed
<1>7. \A c \in Children \ {d} :
        /\ cpc'[c] = cpc[c] /\ flag'[c] = flag[c] /\ arg'[c] = arg[c]
        /\ tid'[c] = tid[c] /\ pthid'[c] = pthid[c] /\ vm'[c] = vm[c]
        /\ calls'[c] = calls[c] /\ owner'[c] = owner[c] /\ cond'[c] = cond[c]
  BY <1>2 DEF CallBackReturns, ChildAt
<1> QED
  BY <1>1, <1>3, <1>6, <1>7, OthersStay

\* It destructs its VM and ends.
LEMMA DestructKeeps ==
  ASSUME IInv, NEW d \in Children, Destruct(d)
  PROVE  IInv'
<1> USE VmktAssumption DEF Children
<1>1. TypeOK'
  BY DEF Destruct, ChildAt, IInv, TypeOK, ParentPlaces, ChildPlaces, Syncs,
         Creating, Releasing, Catching, Joining
<1>2. /\ TypeOK /\ Life(d) /\ child \in 1 .. NChildren /\ round \in Nat
      /\ ppc \in {"user", "done"} => child = 1
  BY DEF IInv, TypeOK
<1>3. /\ cpc[d] = "destruct" /\ ppc' = ppc
      /\ child' = child /\ round' = round
      /\ released' = released
  BY <1>2 DEF Destruct, ChildAt
<1>4. /\ cpc'[d] = "gone" /\ flag'[d] = flag[d]
      /\ arg'[d] = arg[d] /\ tid'[d] = tid[d]
      /\ pthid'[d] = pthid[d] /\ vm'[d] = "destructed"
      /\ calls'[d] = calls[d]
  BY <1>2 DEF Destruct, ChildAt, TypeOK
<1>5. /\ owner'[d] = owner[d]
      /\ cond'[d] = cond[d]
  BY <1>2, SetIn DEF Destruct
<1>6. Life(d)'
  BY <1>2, <1>3, <1>4, <1>5
     DEF Life, BackSyncs, Rounds, Waits, Mutexes, Flags, Arguments, Identity,
         Begun, Created, Dismissed, Joined, AtHome, Woke, Away, Owed
<1>7. \A c \in Children \ {d} :
        /\ cpc'[c] = cpc[c] /\ flag'[c] = flag[c] /\ arg'[c] = arg[c]
        /\ tid'[c] = tid[c] /\ pthid'[c] = pthid[c] /\ vm'[c] = vm[c]
        /\ calls'[c] = calls[c] /\ owner'[c] = owner[c] /\ cond'[c] = cond[c]
  BY <1>2 DEF Destruct, ChildAt
<1> QED
  BY <1>1, <1>3, <1>6, <1>7, OthersStay

\* Before vmkt_create has started on any child, all is untouched.
LEMMA InitInvariant == Init => IInv
<1> SUFFICES ASSUME Init PROVE IInv
  OBVIOUS
<1> USE VmktAssumption DEF Children
<1>1. TypeOK
  BY DEF Init, TypeOK, ParentPlaces, Creating, ChildPlaces, Syncs
<1>2. ASSUME NEW c \in Children PROVE Life(c)
  BY DEF Init, Life, BackSyncs, Rounds, Waits, Mutexes, Flags, Arguments,
         Identity, Begun, Created, Dismissed, Joined, AtHome, Woke, Away, Owed,
         Creating, Releasing, Catching, Joining, Syncs
<1> QED
  BY <1>1, <1>2 DEF IInv

\* Every step of the spawning PET or a child preserves the inductive invariant.
THEOREM Inductive == IInv /\ [Next]_vars => IInv'
<1> SUFFICES ASSUME IInv, [Next]_vars PROVE IInv'
  OBVIOUS
<1>1. ASSUME Parent PROVE IInv'
  <2>1. ASSUME JoinCatch PROVE JoinWait \/ JoinCaught
    BY <2>1 DEF JoinCatch, JoinWait, JoinCaught
  <2> QED
    BY <1>1, <2>1, CreateKeeps, StartBackSync1Keeps, BackSync1Keeps,
       BackSync2Keeps, EnterKeeps, ReleaseKeeps, ReleaseLockKeeps,
       ReleaseSignalKeeps, ExitKeeps, StartCatchKeeps, CatchKeeps, ShutdownKeeps,
       JoinWaitKeeps, JoinCaughtKeeps, JoinFlagKeeps, JoinLockKeeps,
       JoinSignalKeeps, JoinThreadKeeps
       DEF Parent
<1>2. ASSUME NEW d \in Children, Child(d) PROVE IInv'
  <2>1. CASE ChildLock(d)
    <3>1. \/ LockAt(d, "lockSync1", "signalSync1", "0")
          \/ LockAt(d, "lockSync2", "signalSync2", "extra2")
          \/ LockAt(d, "lockFinish", "signalFinish", "0")
      BY <2>1 DEF ChildLock, LockAt
    <3> QED
      BY <3>1, LockSync1Keeps, LockSync2Keeps, LockFinishKeeps
  <2>2. CASE ChildSignal(d)
    <3>1. \/ SignalAt(d, "signalSync1", "prepare", "0")
          \/ SignalAt(d, "signalSync2", "wait", "extra2")
          \/ SignalAt(d, "signalFinish", "wait", "0")
      BY <2>2 DEF ChildSignal, SignalAt
    <3> QED
      BY <3>1, SignalSync1Keeps, SignalSync2Keeps, SignalFinishKeeps
  <2> QED
    BY <1>2, <2>1, <2>2, PrepareKeeps, ConstructKeeps, WaitForReleaseKeeps,
       WokenKeeps, CallBackKeeps, CallBackReturnsKeeps, DestructKeeps
       DEF Child
<1>3. CASE UNCHANGED vars
  <2>1. ASSUME NEW c \in Children PROVE Life(c)'
    BY <1>3
       DEF vars, IInv, Life, BackSyncs, Rounds, Waits, Mutexes, Flags, Arguments,
           Identity, Begun, Created, Dismissed, Joined, AtHome, Woke, Away, Owed
  <2>2. TypeOK'
    BY <1>3 DEF vars, IInv, TypeOK
  <2> QED
    BY <2>1, <2>2 DEF IInv
<1> QED
  BY <1>1, <1>2, <1>3 DEF Next, Finished

\* The inductive invariant holds in every state of every run.
THEOREM Invariance == Spec => []IInv
BY InitInvariant, Inductive, PTL DEF Spec

\* No signal of the loop is lost: whoever is signalled waits at that moment, for
\* any number of children and rounds.
THEOREM SignalsFindTheirWaiter == Spec => []NoLostSignal
<1>1. IInv => NoLostSignal
  <2> SUFFICES ASSUME IInv, NEW c \in Children
               PROVE  /\ cpc[c] \in {"signalSync1", "signalFinish"} => cond[c]["0"] = "waiter"
                      /\ cpc[c] = "signalSync2" => cond[c]["extra2"] = "waiter"
                      /\ ppc \in {"signal1", "signalJoin"} /\ c = child => cond[c]["1"] = "waiter"
    BY DEF NoLostSignal
  <2>1. Life(c) /\ TypeOK
    BY DEF IInv
  <2>2. cpc[c] \in {"signalSync1", "signalFinish"} => cond[c]["0"] = "waiter"
    BY <2>1 DEF Life, BackSyncs, Rounds, Begun, Created, AtHome, Woke, Away
  <2>3. cpc[c] = "signalSync2" => cond[c]["extra2"] = "waiter"
    BY <2>1 DEF Life, BackSyncs, Rounds, Begun, Created, AtHome, Woke, Away
  <2>4. ppc \in {"signal1", "signalJoin"} /\ c = child => cond[c]["1"] = "waiter"
    <3> SUFFICES ASSUME ppc \in {"signal1", "signalJoin"}, c = child
                 PROVE  cond[c]["1"] = "waiter"
      OBVIOUS
    <3>0. child \in Nat
      BY <2>1, VmktAssumption DEF Children
    <3>1. Created(c) /\ ~Dismissed(c)
      BY <3>0 DEF Created, Dismissed, Joined
    <3>2. released[c] = 0 /\ cpc[c] = "waiting"
      BY <2>1, <3>0 DEF TypeOK, Life, Flags, Waits, Releasing, Joining
    <3> QED
      BY <2>1, <3>1, <3>2 DEF Life, Rounds, AtHome
  <2> QED
    BY <2>2, <2>3, <2>4
<1> QED
  BY <1>1, Invariance, PTL

\* A child that puts its thread identity into its VM finds it stored by
\* pthread_create, for any number of children.
THEOREM IdentitiesAreKnown == Spec => []IdentityKnown
<1>1. IInv => IdentityKnown
  BY DEF IInv, TypeOK, Life, Identity, IdentityKnown
<1> QED
  BY <1>1, Invariance, PTL
-----------------------------------------------------------------------------
\* The last argument of c as the refinement sees it.
LoopArg(c) == IF released[c] = 1 THEN arg[c] ELSE Len(calls[c])

\* A child for which nothing happens that the abstract loop can see.
LEMMA Unseen ==
  ASSUME NEW c \in Children,
         Created(c)' <=> Created(c), Joined(c)' <=> Joined(c),
         released[c] \in {0, 1}, released'[c] = released[c],
         released[c] = 1 => arg'[c] = arg[c], calls'[c] = calls[c]
  PROVE  Phase(c)' = Phase(c) /\ LoopArg(c)' = LoopArg(c)
<1>1. Phase(c)' = Phase(c)
  BY SMT DEF Phase
<1>2. LoopArg(c)' = LoopArg(c)
  BY DEF LoopArg
<1> QED
  BY <1>1, <1>2

\* No child exists yet, for either specification.
LEMMA RefinementInit == Init => Loop!Init
<1> SUFFICES ASSUME Init PROVE Loop!Init
  OBVIOUS
<1>1. \A c \in Children : Phase(c) = "none" /\ LoopArg(c) = 0 /\ calls[c] = <<>>
  BY VmktAssumption DEF Init, Phase, LoopArg, Created, Children
<1> QED
  BY <1>1 DEF Init, Loop!Init

\* A step that the abstract loop cannot see for any child.
LEMMA UnseenStep ==
  ASSUME TypeOK, calls' = calls,
         \A c \in Children :
           /\ Created(c)' <=> Created(c)
           /\ Joined(c)' <=> Joined(c)
           /\ released'[c] = released[c]
           /\ released[c] = 1 => arg'[c] = arg[c]
  PROVE  UNCHANGED Loop!vars
<1>1. \A c \in Children : Phase(c)' = Phase(c) /\ LoopArg(c)' = LoopArg(c)
  BY Unseen DEF TypeOK
<1> QED
  BY <1>1 DEF Loop!vars

\* A step that the abstract loop sees for child d, and for no other.
LEMMA SeenStep ==
  ASSUME TypeOK, NEW d \in Children, NEW p, NEW a,
         Phase(d)' = p, LoopArg(d)' = a,
         \A c \in Children \ {d} :
           /\ Created(c)' <=> Created(c)
           /\ Joined(c)' <=> Joined(c)
           /\ released'[c] = released[c]
           /\ released[c] = 1 => arg'[c] = arg[c]
           /\ calls'[c] = calls[c]
  PROVE  /\ [c \in Children |-> Phase(c)]' = [[c \in Children |-> Phase(c)] EXCEPT ![d] = p]
         /\ [c \in Children |-> LoopArg(c)]' = [[c \in Children |-> LoopArg(c)] EXCEPT ![d] = a]
<1>1. \A c \in Children \ {d} : Phase(c)' = Phase(c) /\ LoopArg(c)' = LoopArg(c)
  BY Unseen DEF TypeOK
<1> QED
  BY <1>1

\* What each step is to the abstract loop: creation, release, callback, catch and
\* join are its steps, everything else is a stutter.
LEMMA RefinementStep == IInv /\ [Next]_vars => [Loop!Next]_(Loop!vars)
<1> SUFFICES ASSUME IInv, [Next]_vars PROVE [Loop!Next]_(Loop!vars)
  OBVIOUS
<1> USE VmktAssumption DEF Children
<1>t. TypeOK /\ Life(child) /\ \A c \in Children : Life(c)
  BY DEF IInv, TypeOK
<1>a. /\ child \in 1 .. NChildren /\ Children = 1 .. NChildren
      /\ round \in 0 .. MaxRounds
      /\ released \in [Children -> {0, 1}] /\ (ppc \in {"user", "done"} => child = 1)
      /\ (released[1] = 0 \/ released[1] = 1)
  BY <1>t DEF TypeOK
<1>1. ASSUME Create \/ StartBackSync1 \/ BackSync1 \/ Enter \/ ReleaseLock \/ Exit \/ StartCatch
             \/ Shutdown \/ JoinWait \/ JoinFlag \/ JoinLock \/ JoinSignal
      PROVE  UNCHANGED Loop!vars
  <2>1. calls' = calls /\ released' = released /\ arg' = arg /\ child' = child
    BY <1>1
       DEF Create, StartBackSync1, BackSync1, Enter, ReleaseLock, Exit,
           StartCatch, Shutdown, JoinWait, JoinFlag, JoinLock, JoinSignal
  <2>2. \A c \in Children : (Created(c)' <=> Created(c)) /\ (Joined(c)' <=> Joined(c))
    BY <1>1, <1>a, <2>1
       DEF Create, StartBackSync1, BackSync1, Enter, ReleaseLock, Exit,
           StartCatch, Shutdown, JoinWait, JoinFlag, JoinLock, JoinSignal,
           Created, Joined
  <2> QED
    BY <2>1, <2>2, <1>t, UnseenStep
<1>2. ASSUME Release PROVE UNCHANGED Loop!vars
  <2>1. /\ calls' = calls /\ released' = released
        /\ \A c \in Children : c # child => arg'[c] = arg[c]
    BY <1>2, <1>t DEF Release
  <2>2. released[child] # 1
    BY <1>2, <1>t, <1>a DEF Release, Life, Flags, Releasing
  <2>3. \A c \in Children : (Created(c)' <=> Created(c)) /\ (Joined(c)' <=> Joined(c))
    BY <1>2 DEF Release, Created, Joined
  <2> QED
    BY <2>1, <2>2, <2>3, <1>t, UnseenStep
<1>3. ASSUME NEW d \in Children,
             ChildLock(d) \/ ChildSignal(d) \/ Prepare(d) \/ Construct(d) \/ WaitForRelease(d)
             \/ Woken(d) \/ CallBackReturns(d) \/ Destruct(d)
      PROVE  UNCHANGED Loop!vars
  <2>1. /\ calls' = calls /\ released' = released /\ arg' = arg /\ child' = child
        /\ ppc' = ppc
    BY <1>3
       DEF ChildLock, ChildSignal, Prepare, Construct, WaitForRelease, Woken,
           CallBackReturns, Destruct
  <2>2. \A c \in Children : (Created(c)' <=> Created(c)) /\ (Joined(c)' <=> Joined(c))
    BY <2>1 DEF Created, Joined
  <2> QED
    BY <2>1, <2>2, <1>t, UnseenStep
<1>4. ASSUME NEW d \in Children, d = child, BackSync2 PROVE Loop!Create(d)
  <2>1. /\ ppc = "backSync2" /\ calls' = calls /\ released' = released
        /\ arg' = arg
        /\ \/ child < NChildren /\ ppc' = "create" /\ child' = child + 1
           \/ child = NChildren /\ ppc' = "user" /\ child' = 1
    BY <1>4, <1>a DEF BackSync2, NextChild
  <2>2. released[d] = 0
    BY <1>4, <1>t, <2>1, <1>a DEF Life, Flags, Creating
  <2>3. ~Created(d) /\ Created(d)' /\ ~Joined(d)'
    BY <1>4, <1>a, <2>1 DEF Created, Joined
  <2>4. Phase(d) = "none" /\ Phase(d)' = "caught" /\ LoopArg(d)' = LoopArg(d)
    BY <1>4, <2>1, <2>2, <2>3 DEF Phase, LoopArg
  <2>5. \A c \in Children \ {d} : (Created(c)' <=> Created(c)) /\ (Joined(c)' <=> Joined(c))
    BY <1>4, <1>a, <2>1 DEF Created, Joined
  <2>6. /\ [c \in Children |-> Phase(c)]' = [[c \in Children |-> Phase(c)] EXCEPT ![d] = "caught"]
        /\ [c \in Children |-> LoopArg(c)]' = [[c \in Children |-> LoopArg(c)] EXCEPT ![d] = LoopArg(d)]
    BY <1>4, <1>a, <2>1, <2>4, <2>5, <1>t, SeenStep
  <2>7. [c \in Children |-> LoopArg(c)]' = [c \in Children |-> LoopArg(c)]
    BY <1>4, <2>6
  <2>8. [c \in Children |-> Phase(c)][d] = "none"
    BY <1>4, <1>a, <2>4
  <2> QED
    BY <1>4, <2>1, <2>6, <2>7, <2>8 DEF Loop!Create, Loop!Move
<1>5. ASSUME NEW d \in Children, d = child, Catch \/ JoinCaught
      PROVE  Loop!Catch(d)
  <2>1. /\ ppc \in {"caught", "join"} /\ calls' = calls /\ arg' = arg
        /\ cond[child]["0"] = "woken"
        /\ released' = [released EXCEPT ![child] = 0]
    BY <1>5 DEF Catch, JoinCaught, EndWait, Awake
  <2>2. \/ child' = child /\ ppc' = ppc /\ ppc = "join"
        \/ ppc = "caught" /\ ppc' \in {"catch", "user"}
    BY <1>5 DEF Catch, JoinCaught, NextChild
  <2>3. released[d] = 1 /\ AtHome(d) /\ Created(d) /\ ~Joined(d)
    BY <1>5, <1>t, <1>a, <2>1 DEF Life, Rounds, Created, Joined
  <2>4. Len(calls[d]) = arg[d]
    BY <1>5, <1>t, <1>a, <2>1, <2>3
       DEF Life, Arguments, Owed, AtHome, Woke, Releasing
  <2>5. \A c \in Children : (Created(c)' <=> Created(c)) /\ (Joined(c)' <=> Joined(c))
    BY <1>5, <1>a, <2>1, <2>2 DEF Created, Joined
  <2>6. Phase(d) = "ran" /\ Phase(d)' = "caught" /\ LoopArg(d)' = LoopArg(d)
    BY <1>5, <1>a, <2>1, <2>3, <2>4, <2>5 DEF Phase, LoopArg
  <2>7. /\ [c \in Children |-> Phase(c)]' = [[c \in Children |-> Phase(c)] EXCEPT ![d] = "caught"]
        /\ [c \in Children |-> LoopArg(c)]' = [[c \in Children |-> LoopArg(c)] EXCEPT ![d] = LoopArg(d)]
    BY <1>5, <1>a, <2>1, <2>5, <2>6, <1>t, SeenStep
  <2>8. [c \in Children |-> LoopArg(c)]' = [c \in Children |-> LoopArg(c)]
    BY <1>5, <2>7
  <2>9. [c \in Children |-> Phase(c)][d] = "ran"
    BY <1>5, <1>a, <2>6
  <2> QED
    BY <1>5, <2>1, <2>7, <2>8, <2>9 DEF Loop!Catch, Loop!Move, LoopArg
<1>6. ASSUME NEW d \in Children, d = child, JoinThread PROVE Loop!Join(d)
  <2>1. /\ ppc = "thread" /\ calls' = calls /\ released' = released /\ arg' = arg
        /\ \/ child < NChildren /\ ppc' = "join" /\ child' = child + 1
           \/ child = NChildren /\ ppc' = "done" /\ child' = 1
    BY <1>6, <1>a DEF JoinThread, NextChild
  <2>2. released[d] = 0
    BY <1>6, <1>t, <2>1, <1>a DEF Life, Flags, Joining
  <2>3. Created(d) /\ ~Joined(d) /\ Created(d)' /\ Joined(d)'
    BY <1>6, <1>a, <2>1 DEF Created, Joined
  <2>4. Phase(d) = "caught" /\ Phase(d)' = "joined" /\ LoopArg(d)' = LoopArg(d)
    BY <1>6, <2>1, <2>2, <2>3 DEF Phase, LoopArg
  <2>5. \A c \in Children \ {d} : (Created(c)' <=> Created(c)) /\ (Joined(c)' <=> Joined(c))
    BY <1>6, <1>a, <2>1 DEF Created, Joined
  <2>6. /\ [c \in Children |-> Phase(c)]' = [[c \in Children |-> Phase(c)] EXCEPT ![d] = "joined"]
        /\ [c \in Children |-> LoopArg(c)]' = [[c \in Children |-> LoopArg(c)] EXCEPT ![d] = LoopArg(d)]
    BY <1>6, <1>a, <2>1, <2>4, <2>5, <1>t, SeenStep
  <2>7. [c \in Children |-> LoopArg(c)]' = [c \in Children |-> LoopArg(c)]
    BY <1>6, <2>6
  <2>8. [c \in Children |-> Phase(c)][d] = "caught"
    BY <1>6, <1>a, <2>4
  <2> QED
    BY <1>6, <2>1, <2>6, <2>7, <2>8 DEF Loop!Join, Loop!Move
<1>7. ASSUME NEW d \in Children, d = child, ReleaseSignal PROVE Loop!Release(d)
  <2>1. /\ ppc = "signal1" /\ calls' = calls /\ arg' = arg
        /\ released' = [released EXCEPT ![child] = 1] /\ ppc' \in {"release", "user"}
    BY <1>7, <1>a DEF ReleaseSignal, NextChild
  <2>2. released[d] = 0 /\ arg[d] = round /\ Len(calls[d]) = round - 1
    BY <1>7, <1>t, <2>1, <1>a DEF Life, Flags, Arguments, Owed, Releasing
  <2>3. \A c \in Children : /\ Created(c) /\ Created(c)' /\ ~Joined(c) /\ ~Joined(c)'
    BY <1>7, <2>1 DEF Created, Joined
  <2>4. /\ Phase(d) = "caught" /\ Phase(d)' = "released"
        /\ LoopArg(d) = round - 1 /\ LoopArg(d)' = round
    BY <1>7, <1>a, <2>1, <2>2, <2>3 DEF Phase, LoopArg
  <2>6. /\ [c \in Children |-> Phase(c)]' = [[c \in Children |-> Phase(c)] EXCEPT ![d] = "released"]
        /\ [c \in Children |-> LoopArg(c)]' = [[c \in Children |-> LoopArg(c)] EXCEPT ![d] = round]
    BY <1>7, <1>a, <2>1, <2>3, <2>4, <1>t, SeenStep
  <2>7. [c \in Children |-> LoopArg(c)]' = [[c \in Children |-> LoopArg(c)] EXCEPT ![d] = @ + 1]
    BY <1>7, <1>a, <2>4, <2>6
  <2>8. /\ [c \in Children |-> Phase(c)][d] = "caught"
        /\ [c \in Children |-> LoopArg(c)][d] < MaxRounds
    BY <1>7, <1>a, <2>4
  <2> QED
    BY <1>7, <2>1, <2>6, <2>7, <2>8 DEF Loop!Release, Loop!Move, LoopArg
<1>8. ASSUME NEW d \in Children, CallBack(d) PROVE Loop!CallBack(d)
  <2>1. /\ cpc[d] = "callback" /\ calls' = [calls EXCEPT ![d] = Append(@, arg[d])]
        /\ released' = released /\ arg' = arg /\ child' = child /\ ppc' = ppc
    BY <1>8 DEF CallBack, ChildAt
  <2>2. Created(d) /\ ~Joined(d) /\ released[d] = 1
    BY <1>t, <1>a, <2>1 DEF Life, BackSyncs, Rounds, Begun, Created, AtHome, Woke
  <2>3. Len(calls[d]) = round - 1 /\ arg[d] = round /\ round \in Nat \ {0}
    BY <1>t, <1>a, <2>1, <2>2 DEF Life, Arguments, Owed
  <2>4. \A c \in Children : (Created(c)' <=> Created(c)) /\ (Joined(c)' <=> Joined(c))
    BY <2>1 DEF Created, Joined
  <2>5. calls[d] \in Seq(Nat) /\ calls'[d] = Append(calls[d], arg[d]) /\ \A c \in Children \ {d} : calls'[c] = calls[c]
    BY <1>t, <2>1 DEF TypeOK
  <2>6. Len(calls'[d]) = round
    BY <2>3, <2>5
  <2>7. /\ Phase(d) = "released" /\ Phase(d)' = "ran"
        /\ LoopArg(d) = arg[d] /\ LoopArg(d)' = LoopArg(d)
    BY <2>1, <2>2, <2>3, <2>4, <2>6 DEF Phase, LoopArg
  <2>8. /\ [c \in Children |-> Phase(c)]' = [[c \in Children |-> Phase(c)] EXCEPT ![d] = "ran"]
        /\ [c \in Children |-> LoopArg(c)]' = [[c \in Children |-> LoopArg(c)] EXCEPT ![d] = LoopArg(d)]
    BY <2>1, <2>4, <2>5, <2>7, <1>t, SeenStep
  <2>9. [c \in Children |-> LoopArg(c)]' = [c \in Children |-> LoopArg(c)]
    BY <2>8
  <2>10. /\ [c \in Children |-> Phase(c)][d] = "released"
         /\ [c \in Children |-> LoopArg(c)][d] = arg[d]
    BY <2>7
  <2> QED
    BY <2>1, <2>8, <2>9, <2>10 DEF Loop!CallBack, Loop!Move, LoopArg
<1>9. CASE UNCHANGED vars
  BY <1>9 DEF vars, Loop!vars, Phase, Created, Joined
<1>10. ASSUME Parent PROVE Loop!Next \/ UNCHANGED Loop!vars
  <2>1. ASSUME JoinCatch PROVE JoinWait \/ JoinCaught
    BY <2>1 DEF JoinCatch, JoinWait, JoinCaught
  <2> QED
    BY <1>1, <1>2, <1>4, <1>5, <1>6, <1>7, <1>10, <1>t, <2>1
       DEF Parent, Loop!Next, TypeOK
<1>11. ASSUME NEW d \in Children, Child(d) PROVE Loop!Next \/ UNCHANGED Loop!vars
  BY <1>3, <1>8, <1>11 DEF Child, Loop!Next
<1> QED
  BY <1>9, <1>10, <1>11 DEF Next, Finished

\* The safety half of Implements, for any number of children and rounds: every
\* release is called back once, with its argument, before its catch returns.
THEOREM Refinement == Spec => Loop!Init /\ [][Loop!Next]_(Loop!vars)
BY Invariance, RefinementInit, RefinementStep, PTL DEF Spec
=============================================================================
