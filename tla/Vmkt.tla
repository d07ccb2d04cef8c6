-------------------------------- MODULE Vmkt --------------------------------
(***************************************************************************)
(* The threads of a VM whose child PETs run in Pthreads of their own: the  *)
(* vmkt_create, vmkt_release, vmkt_catch and vmkt_join of a spawning PET,  *)
(* called by VMK::startup, VMK::enter, VMK::exit and VMK::shutdown, and    *)
(* the loop of vmk_spawn that each child runs.                             *)
(*                                                                         *)
(* A condition variable has at most one waiter.  Waiting on it is two      *)
(* steps: the mutex is released and the thread waits; it is woken and      *)
(* takes the mutex again.  A signal that finds nobody waiting is lost, and *)
(* nobody wakes without one (spurious returns of the wait are left out).   *)
(*                                                                         *)
(* The user code of a release is the same for all children.  In some       *)
(* rounds it communicates: no child then returns before each has started.  *)
(* Every pthread_create succeeds: where one fails VMK::startup gives up    *)
(* and returns the error; there is no VM to enter then, and no model of it.*)
(***************************************************************************)
EXTENDS Naturals, Sequences

CONSTANTS
  NChildren, \* spawnflag[mypet]: the number of children of the PET
  MaxRounds, \* bound on the number of times the component is entered
  Collective \* the rounds in which the user code communicates with all children

ASSUME VmktAssumption ==
  NChildren \in Nat \ {0} /\ MaxRounds \in Nat /\ Collective \subseteq Nat

Children == 1 .. NChildren

\* The synchronisation objects of a vmkt_t: a mutex and a condition variable each.
Syncs == {"0", "1", "extra2"}

VARIABLES
  ppc,         \* where the spawning PET is: at a step of vmkt_create, release,
               \*   catch or join, in "user" code, or "done"
  child,       \* the child whose vmkt it works on
  round,       \* how often it has entered the component
  cpc,         \* cpc[c]: where child c is: "none" yet, at a step of vmk_spawn,
               \*   in the "callback", or "gone"
  owner,       \* owner[c][s]: who holds mutex s of the vmkt of c
  cond,        \* cond[c][s]: its condition variable: nobody, a waiter, a woken waiter
  flag,        \* vmkt_t::flag
  released,    \* vmkt_t::released
  arg,         \* vmkt_t::arg, as the number of the round it belongs to
  tid,         \* tid[c]: vmkt_t::tid has been stored by pthread_create
  pthid,       \* pthid[c]: SpawnArg::pthid is the identity of the thread
  vm,          \* vm[c]: the VM instance of c
  calls        \* calls[c]: the arguments of the callbacks of c

vars == <<ppc, child, round, cpc, owner, cond, flag, released, arg, tid, pthid, vm, calls>>

Init ==
  /\ ppc = "create" /\ child = 1 /\ round = 0
  /\ cpc = [c \in Children |-> "none"]
  /\ owner = [c \in Children |-> [s \in Syncs |-> "free"]]
  /\ cond = [c \in Children |-> [s \in Syncs |-> "nobody"]]
  /\ flag = [c \in Children |-> 0]
  /\ released = [c \in Children |-> 0]
  /\ arg = [c \in Children |-> 0]
  /\ tid = [c \in Children |-> FALSE]
  /\ pthid = [c \in Children |-> FALSE]
  /\ vm = [c \in Children |-> "none"]
  /\ calls = [c \in Children |-> <<>>]

-----------------------------------------------------------------------------
(* pthread_mutex_lock, pthread_cond_signal with pthread_mutex_unlock, and   *)
(* the two halves of pthread_cond_wait.                                     *)

Lock(who, c, s) ==
  /\ owner[c][s] = "free"
  /\ owner' = [owner EXCEPT ![c][s] = who]

SignalUnlock(c, s) ==
  /\ owner' = [owner EXCEPT ![c][s] = "free"]
  /\ cond' = [cond EXCEPT ![c][s] = IF @ = "waiter" THEN "woken" ELSE @]

StartWait(c, s) ==
  /\ owner' = [owner EXCEPT ![c][s] = "free"]
  /\ cond' = [cond EXCEPT ![c][s] = "waiter"]

Awake(c, s) == cond[c][s] = "woken"

EndWait(who, c, s) ==
  /\ Awake(c, s)
  /\ Lock(who, c, s)
  /\ cond' = [cond EXCEPT ![c][s] = "nobody"]

-----------------------------------------------------------------------------
\* The loop over the children is over, or goes on with the next one.
NextChild(again, over) ==
  IF child < NChildren THEN ppc' = again /\ child' = child + 1
                       ELSE ppc' = over /\ child' = 1

\* Mutants of the operations below: creates that do not hold one of the mutexes,
\* a release that forgets its argument.
CreateUnlocked ==
  /\ ppc = "create"
  /\ owner' = [owner EXCEPT ![child]["0"] = "parent"]
  /\ cpc' = [cpc EXCEPT ![child] = "lockSync1"]
  /\ ppc' = "created"
  /\ UNCHANGED <<child, round, cond, flag, released, arg, tid, pthid, vm, calls>>
CreateUnlocked0 ==
  /\ ppc = "create"
  /\ owner' = [owner EXCEPT ![child]["extra2"] = "parent"]
  /\ cpc' = [cpc EXCEPT ![child] = "lockSync1"]
  /\ ppc' = "created"
  /\ UNCHANGED <<child, round, cond, flag, released, arg, tid, pthid, vm, calls>>
ReleaseNoArg ==
  /\ ppc = "release"
  /\ ppc' = "lock1"
  /\ UNCHANGED <<child, round, cpc, owner, cond, flag, released, arg, tid, pthid, vm, calls>>

-----------------------------------------------------------------------------
(* The spawning PET.                                                        *)

\* vmkt_create: both back-sync mutexes are locked before the thread starts.
Create ==
  /\ ppc = "create"
  /\ owner' = [owner EXCEPT ![child] = [@ EXCEPT !["0"] = "parent", !["extra2"] = "parent"]]
  /\ cpc' = [cpc EXCEPT ![child] = "lockSync1"]
  /\ ppc' = "created"
  /\ UNCHANGED <<child, round, cond, flag, released, arg, tid, pthid, vm, calls>>

\* pthread_create has stored the identity of the thread and returned.
StartBackSync1 ==
  /\ ppc = "created" /\ StartWait(child, "0")
  /\ tid' = [tid EXCEPT ![child] = TRUE]
  /\ ppc' = "backSync1"
  /\ UNCHANGED <<child, round, cpc, flag, released, arg, pthid, vm, calls>>

\* Back from the first wait, into the second one.
BackSync1 ==
  /\ ppc = "backSync1" /\ Awake(child, "0") /\ owner[child]["0"] = "free"
  /\ owner' = [owner EXCEPT ![child] = [@ EXCEPT !["0"] = "parent", !["extra2"] = "free"]]
  /\ cond' = [cond EXCEPT ![child] = [@ EXCEPT !["0"] = "nobody", !["extra2"] = "waiter"]]
  /\ ppc' = "backSync2"
  /\ UNCHANGED <<child, round, cpc, flag, released, arg, tid, pthid, vm, calls>>

BackSync2 ==
  /\ ppc = "backSync2" /\ EndWait("parent", child, "extra2")
  /\ NextChild("create", "user")
  /\ UNCHANGED <<round, cpc, flag, released, arg, tid, pthid, vm, calls>>

\* VMK::enter, with the argument of this round.
Enter ==
  /\ ppc = "user" /\ round < MaxRounds /\ released[1] = 0
  /\ round' = round + 1
  /\ ppc' = "release"
  /\ UNCHANGED <<child, cpc, owner, cond, flag, released, arg, tid, pthid, vm, calls>>

\* vmkt_release
Release ==
  /\ ppc = "release"
  /\ arg' = [arg EXCEPT ![child] = round]
  /\ ppc' = "lock1"
  /\ UNCHANGED <<child, round, cpc, owner, cond, flag, released, tid, pthid, vm, calls>>

ReleaseLock ==
  /\ ppc = "lock1" /\ Lock("parent", child, "1")
  /\ ppc' = "signal1"
  /\ UNCHANGED <<child, round, cpc, cond, flag, released, arg, tid, pthid, vm, calls>>

ReleaseSignal ==
  /\ ppc = "signal1" /\ SignalUnlock(child, "1")
  /\ released' = [released EXCEPT ![child] = 1]
  /\ NextChild("release", "user")
  /\ UNCHANGED <<round, cpc, flag, arg, tid, pthid, vm, calls>>

\* VMK::exit
Exit ==
  /\ ppc = "user" /\ released[1] = 1
  /\ ppc' = "catch"
  /\ UNCHANGED <<child, round, cpc, owner, cond, flag, released, arg, tid, pthid, vm, calls>>

\* vmkt_catch, of VMK::exit or, at ppc = "join", of vmkt_join
StartCatch ==
  /\ ppc = "catch" /\ StartWait(child, "0")
  /\ ppc' = "caught"
  /\ UNCHANGED <<child, round, cpc, flag, released, arg, tid, pthid, vm, calls>>

Catch ==
  /\ ppc = "caught" /\ EndWait("parent", child, "0")
  /\ released' = [released EXCEPT ![child] = 0]
  /\ NextChild("catch", "user")
  /\ UNCHANGED <<round, cpc, flag, arg, tid, pthid, vm, calls>>

\* VMK::shutdown, also of a component that was entered and never waited for
Shutdown ==
  /\ ppc = "user"
  /\ ppc' = "join"
  /\ UNCHANGED <<child, round, cpc, owner, cond, flag, released, arg, tid, pthid, vm, calls>>

\* vmkt_join
JoinCatch ==
  /\ ppc = "join" /\ released[child] = 1
  /\ \/ /\ cond[child]["0"] = "nobody" /\ StartWait(child, "0")
        /\ UNCHANGED released
     \/ /\ EndWait("parent", child, "0")
        /\ released' = [released EXCEPT ![child] = 0]
  /\ UNCHANGED <<ppc, child, round, cpc, flag, arg, tid, pthid, vm, calls>>

JoinFlag ==
  /\ ppc = "join" /\ released[child] = 0
  /\ flag' = [flag EXCEPT ![child] = 1]
  /\ ppc' = "lockJoin"
  /\ UNCHANGED <<child, round, cpc, owner, cond, released, arg, tid, pthid, vm, calls>>

JoinLock ==
  /\ ppc = "lockJoin" /\ Lock("parent", child, "1")
  /\ ppc' = "signalJoin"
  /\ UNCHANGED <<child, round, cpc, cond, flag, released, arg, tid, pthid, vm, calls>>

JoinSignal ==
  /\ ppc = "signalJoin" /\ SignalUnlock(child, "1")
  /\ ppc' = "thread"
  /\ UNCHANGED <<child, round, cpc, flag, released, arg, tid, pthid, vm, calls>>

\* pthread_join
JoinThread ==
  /\ ppc = "thread" /\ cpc[child] = "gone"
  /\ NextChild("join", "done")
  /\ UNCHANGED <<round, cpc, owner, cond, flag, released, arg, tid, pthid, vm, calls>>

Parent ==
  \/ Create \/ StartBackSync1 \/ BackSync1 \/ BackSync2
  \/ Enter \/ Release \/ ReleaseLock \/ ReleaseSignal
  \/ Exit \/ StartCatch \/ Catch
  \/ Shutdown \/ JoinCatch \/ JoinFlag \/ JoinLock \/ JoinSignal \/ JoinThread

-----------------------------------------------------------------------------
(* The child: vmk_spawn.                                                    *)

ChildAt(c, from, to) == cpc[c] = from /\ cpc' = [cpc EXCEPT ![c] = to]

\* Lock the mutex of a vmkt that its parent holds except while it waits.
ChildLock(c) ==
  /\ \/ ChildAt(c, "lockSync1", "signalSync1") /\ Lock("child", c, "0")
     \/ ChildAt(c, "lockSync2", "signalSync2") /\ Lock("child", c, "extra2")
     \/ ChildAt(c, "lockFinish", "signalFinish") /\ Lock("child", c, "0")
  /\ UNCHANGED <<ppc, child, round, cond, flag, released, arg, tid, pthid, vm, calls>>

ChildSignal(c) ==
  /\ \/ ChildAt(c, "signalSync1", "prepare") /\ SignalUnlock(c, "0")
     \/ ChildAt(c, "signalSync2", "wait") /\ SignalUnlock(c, "extra2")
     \/ ChildAt(c, "signalFinish", "wait") /\ SignalUnlock(c, "0")
  /\ UNCHANGED <<ppc, child, round, flag, released, arg, tid, pthid, vm, calls>>

\* "prepare this thread's mutex" and "fill in the tid for this thread"
Prepare(c) ==
  /\ ChildAt(c, "prepare", "construct") /\ Lock("child", c, "1")
  /\ pthid' = [pthid EXCEPT ![c] = tid[c]]
  /\ UNCHANGED <<ppc, child, round, cond, flag, released, arg, tid, vm, calls>>

Construct(c) ==
  /\ ChildAt(c, "construct", "lockSync2")
  /\ vm' = [vm EXCEPT ![c] = "constructed"]
  /\ UNCHANGED <<ppc, child, round, owner, cond, flag, released, arg, tid, pthid, calls>>

WaitForRelease(c) ==
  /\ ChildAt(c, "wait", "waiting") /\ StartWait(c, "1")
  /\ UNCHANGED <<ppc, child, round, flag, released, arg, tid, pthid, vm, calls>>

\* Woken: "check whether this was a wrap up call"
Woken(c) ==
  /\ ChildAt(c, "waiting", IF flag[c] = 1 THEN "destruct" ELSE "callback")
  /\ EndWait("child", c, "1")
  /\ UNCHANGED <<ppc, child, round, flag, released, arg, tid, pthid, vm, calls>>

\* enter_callback: into user code with vmkt->arg ...
CallBack(c) ==
  /\ ChildAt(c, "callback", "running")
  /\ calls' = [calls EXCEPT ![c] = Append(@, arg[c])]
  /\ UNCHANGED <<ppc, child, round, owner, cond, flag, released, arg, tid, pthid, vm>>

\* ... which returns, in some rounds once all its siblings are in it.
CallBackReturns(c) ==
  /\ ChildAt(c, "running", "lockFinish")
  /\ Len(calls[c]) \in Collective => \A d \in Children : Len(calls[d]) >= Len(calls[c])
  /\ UNCHANGED <<ppc, child, round, owner, cond, flag, released, arg, tid, pthid, vm, calls>>

Destruct(c) ==
  /\ ChildAt(c, "destruct", "gone")
  /\ vm' = [vm EXCEPT ![c] = "destructed"]
  /\ UNCHANGED <<ppc, child, round, owner, cond, flag, released, arg, tid, pthid, calls>>

Child(c) ==
  \/ ChildLock(c) \/ ChildSignal(c) \/ Prepare(c) \/ Construct(c)
  \/ WaitForRelease(c) \/ Woken(c) \/ CallBack(c) \/ CallBackReturns(c)
  \/ Destruct(c)

Finished == ppc = "done" /\ UNCHANGED vars

Next == Parent \/ (\E c \in Children : Child(c)) \/ Finished

\* Every thread is scheduled: what it can do, it does.
Spec == /\ Init /\ [][Next]_vars
        /\ WF_vars(Parent)
        /\ \A c \in Children : WF_vars(Child(c))

-----------------------------------------------------------------------------
\* vmkt_create has returned for child c; vmkt_join has.
Created(c) == ppc \notin {"create", "created", "backSync1", "backSync2"} \/ c < child
Joined(c) == \/ ppc = "done"
             \/ ppc \in {"join", "lockJoin", "signalJoin", "thread"} /\ c < child

\* "now we know that vmkt_create is past pthread_create()": the thread identity
\* that the child puts into its VM is that of its thread.
IdentityKnown ==
  \A c \in Children : vm[c] # "none" => pthid[c]

\* A signal always finds its waiter: the thread it is for waits for it, or has
\* been woken by it and has not run since.
NoLostSignal ==
  \A c \in Children :
    /\ cpc[c] \in {"signalSync1", "signalFinish"} => cond[c]["0"] = "waiter"
    /\ cpc[c] = "signalSync2" => cond[c]["extra2"] = "waiter"
    /\ ppc \in {"signal1", "signalJoin"} /\ c = child => cond[c]["1"] = "waiter"

Phase(c) ==
  IF ~Created(c) THEN "none"
  ELSE IF Joined(c) THEN "joined"
  ELSE IF released[c] = 0 THEN "caught"
  ELSE IF Len(calls[c]) = arg[c] THEN "ran" ELSE "released"

Loop == INSTANCE CatchRelease WITH
  phase <- [c \in Children |-> Phase(c)],
  arg <- [c \in Children |-> IF released[c] = 1 THEN arg[c] ELSE Len(calls[c])]

\* The threads implement the catch/release loop: every release is called back
\* once, with its argument, before its catch returns, and no wake-up is lost.
Implements == Loop!Spec
=============================================================================
