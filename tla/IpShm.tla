------------------------------- MODULE IpShm -------------------------------
(***************************************************************************)
(* Memory and mutexes that the PETs of a process share (ESMCI_VMKernel.C): *)
(* ipshmallocate, ipshmdeallocate, ipmutexallocate, ipmutexdeallocate, and *)
(* the clean-up of the list when the VM is gone.                           *)
(*                                                                         *)
(* All PETs make the same sequence of allocations.  Nothing but the order  *)
(* of its own calls tells a PET which allocation is the next one.  A PET   *)
(* may deallocate what it has allocated at any time, once, or never.       *)
(*                                                                         *)
(* The list of ipshmAlloc elements only grows at its top: it is a sequence *)
(* whose last element is the top.  The pointer to an element is its index, *)
(* 0 is NULL, "next" is the index before and "prev" the index after.       *)
(***************************************************************************)
EXTENDS Naturals, Sequences, FiniteSets

CONSTANTS
  NThreads,   \* bound on the PETs of the process
  NAllocs     \* the number of allocations each PET makes

ASSUME IpShmAssumption == NThreads \in Nat \ {0} /\ NAllocs \in Nat

Allocs == 1 .. NAllocs
Addresses == 1 .. NAllocs
Purposes == {"memory", "mutex"}

VARIABLES
  requests,       \* requests[k]: what the k-th allocation is for
  nthreads,       \* getNthreads: the PETs of the process
  list,           \* the ipshmAlloc elements
  ipshmLocalTop,  \* ipshmLocalTop[t]
  ipSetupMutex,   \* the PET that holds it, or 0
  heap,           \* heap[a]: the allocation that lives at address a, or 0
  pth_mutex,      \* pth_mutex[a]: "raw", "init" or "destroyed" memory
  lastFlag,       \* lastFlag[a]: of the ipmutex at address a
  place,          \* place[t]: where the PET is
  now,            \* now[t]: the allocation its current call is about
  firsts,         \* firsts[k]: the PETs that got firstFlag with allocation k
  pointers,       \* pointers[t][k]: what the k-th allocation returned, <<>> before
  released        \* released[t]: the allocations t has deallocated

ipvars == <<requests, nthreads, list, ipshmLocalTop, ipSetupMutex, heap, pth_mutex, lastFlag,
            place, now, firsts, pointers, released>>

Threads == 1 .. nthreads

IpInit ==
  /\ requests \in [Allocs -> Purposes]
  /\ nthreads \in 1 .. NThreads
  /\ list = <<>>
  /\ ipshmLocalTop = [t \in Threads |-> 0]
  /\ ipSetupMutex = 0
  /\ heap = [a \in Addresses |-> 0]
  /\ pth_mutex = [a \in Addresses |-> "raw"]
  /\ lastFlag = [a \in Addresses |-> 0]
  /\ place = [t \in Threads |-> "user"]
  /\ now = [t \in Threads |-> 0]
  /\ firsts = [k \in Allocs |-> {}]
  /\ pointers = [t \in Threads |-> <<>>]
  /\ released = [t \in Threads |-> {}]

-----------------------------------------------------------------------------
GoesTo(t, label) == place' = [place EXCEPT ![t] = label]
Back(t) == GoesTo(t, "user") /\ now' = [now EXCEPT ![t] = 0]

Const == <<requests, nthreads>>
Mutexes == <<pth_mutex, lastFlag>>

\* Mutants of the operators below.
HoldsForever(t) == DOMAIN pointers[t]
TopOfList(t) == Len(list)
SetupUnlocked(t) == ipSetupMutex' = t
NobodyIsLast(count) == FALSE
FreesEvery == DOMAIN list

\* "this is the first thread for this new request"
IsFirst(t) == ipshmLocalTop[t] = Len(list)

\* "this is a secondary thread for this request": the element after the one the
\* PET got last, reached through prev or, from NULL, by a search from the top.
Secondary(t) == ipshmLocalTop[t] + 1

\* malloc: any address that is free.  Addresses that were never used before are
\* alike, and taken in the order of their numbers.
Malloc(a) ==
  /\ heap[a] = 0
  /\ \A b \in 1 .. a - 1 : \E i \in DOMAIN list : list[i].allocation = b

\* ipshmallocate, all under ipshmMutex.
Allocate(t) ==
  LET k == Len(pointers[t]) + 1 IN
  IF IsFirst(t)
    THEN \E a \in Addresses :
      /\ Malloc(a)
      /\ heap' = [heap EXCEPT ![a] = k]
      /\ pth_mutex' = [pth_mutex EXCEPT ![a] = "raw"]
      /\ list' = Append(list, [allocation |-> a, auxCounter |-> nthreads])
      /\ ipshmLocalTop' = [ipshmLocalTop EXCEPT ![t] = Len(list) + 1]
      /\ firsts' = [firsts EXCEPT ![k] = @ \cup {t}]
      /\ pointers' = [pointers EXCEPT ![t] = Append(@, a)]
    ELSE
      /\ ipshmLocalTop' = [ipshmLocalTop EXCEPT ![t] = Secondary(t)]
      /\ pointers' = [pointers EXCEPT ![t] = Append(@, list[Secondary(t)].allocation)]
      /\ UNCHANGED <<heap, pth_mutex, list, firsts>>

\* The next allocation the PET asks for.
Asks(t, kind) ==
  LET k == Len(pointers[t]) + 1 IN
  place[t] = "user" /\ k \in Allocs /\ requests[k] = kind

\* pthread_mutex_lock(ipSetupMutex)
SetupLock(t) == ipSetupMutex = 0 /\ ipSetupMutex' = t

AllocateMemory(t) ==
  /\ Asks(t, "memory")
  /\ Allocate(t)
  /\ UNCHANGED <<Const, ipSetupMutex, lastFlag, place, now, released>>

\* ipmutexallocate: lock and ipshmallocate; initialise, set lastFlag, unlock.
AllocateMutex(t) ==
  /\ Asks(t, "mutex")
  /\ SetupLock(t)
  /\ Allocate(t)
  /\ GoesTo(t, "init") /\ now' = [now EXCEPT ![t] = Len(pointers[t]) + 1]
  /\ UNCHANGED <<Const, lastFlag, released>>

InitMutex(t) ==
  LET ipm == pointers[t][now[t]] IN
  /\ place[t] = "init"
  /\ pth_mutex' = IF t \in firsts[now[t]] THEN [pth_mutex EXCEPT ![ipm] = "init"] ELSE pth_mutex
  /\ lastFlag' = [lastFlag EXCEPT ![ipm] = nthreads]
  /\ ipSetupMutex' = 0
  /\ Back(t)
  /\ UNCHANGED <<Const, list, ipshmLocalTop, heap, firsts, pointers, released>>

-----------------------------------------------------------------------------
\* "this was the last thread to call deallocate for this allocation"
IsLast(count) == count = 0

\* The first element from the top that has the pointer.
Found(pointer) ==
  CHOOSE i \in DOMAIN list :
    /\ list[i].allocation = pointer
    /\ \A j \in DOMAIN list : list[j].allocation = pointer => j <= i

\* ipshmdeallocate, all under ipshmMutex.
Deallocate(t, k) ==
  LET a == pointers[t][k]
      i == Found(a)
  IN
  /\ released' = [released EXCEPT ![t] = @ \cup {k}]
  /\ IF nthreads = 1 THEN UNCHANGED <<list, heap>>
     ELSE /\ list' = [list EXCEPT ![i].auxCounter = @ - 1]
          /\ heap' = IF IsLast(list[i].auxCounter - 1) THEN [heap EXCEPT ![a] = 0] ELSE heap

\* What the PET has allocated and not deallocated.
Holds(t) == DOMAIN pointers[t] \ released[t]

DeallocateMemory(t, k) ==
  /\ place[t] = "user" /\ k \in Holds(t) /\ requests[k] = "memory"
  /\ Deallocate(t, k)
  /\ UNCHANGED <<Const, ipshmLocalTop, ipSetupMutex, Mutexes, place, now, firsts, pointers>>

\* ipmutexdeallocate: lock, count, destroy; ipshmdeallocate, unlock.
DeallocateMutex(t, k) ==
  LET ipm == pointers[t][k] IN
  /\ place[t] = "user" /\ k \in Holds(t) /\ requests[k] = "mutex"
  /\ SetupLock(t)
  /\ now' = [now EXCEPT ![t] = k]
  /\ lastFlag' = [lastFlag EXCEPT ![ipm] = @ - 1]
  /\ pth_mutex' = IF lastFlag[ipm] = 1 THEN [pth_mutex EXCEPT ![ipm] = "destroyed"] ELSE pth_mutex
  /\ GoesTo(t, "free")
  /\ UNCHANGED <<Const, list, ipshmLocalTop, heap, firsts, pointers, released>>

FreeMutex(t) ==
  /\ place[t] = "free"
  /\ Deallocate(t, now[t])
  /\ ipSetupMutex' = 0
  /\ Back(t)
  /\ UNCHANGED <<Const, ipshmLocalTop, Mutexes, firsts, pointers>>

-----------------------------------------------------------------------------
\* The VM shuts down when every PET has come to its end.
Leave(t) ==
  /\ place[t] = "user" /\ Len(pointers[t]) = NAllocs
  /\ GoesTo(t, "gone")
  /\ UNCHANGED <<Const, list, ipshmLocalTop, ipSetupMutex, heap, Mutexes, now, firsts,
                 pointers, released>>

\* The elements whose memory the destructor frees, from the top of the list: those
\* that still count somebody.
ToFree == {i \in DOMAIN list : list[i].auxCounter > 0}
Remaining == {list[i].allocation : i \in ToFree}

Destruct ==
  /\ \A t \in Threads : place[t] = "gone"
  /\ heap' = [a \in Addresses |-> IF a \in Remaining THEN 0 ELSE heap[a]]
  /\ list' = <<>>
  /\ UNCHANGED <<Const, ipshmLocalTop, ipSetupMutex, Mutexes, place, now, firsts,
                 pointers, released>>

ThreadNext(t) ==
  \/ AllocateMemory(t) \/ AllocateMutex(t) \/ InitMutex(t)
  \/ \E k \in Allocs : DeallocateMemory(t, k) \/ DeallocateMutex(t, k)
  \/ FreeMutex(t) \/ Leave(t)

IpNext == (\E t \in Threads : ThreadNext(t)) \/ Destruct

\* PETs are threads that keep running; the last one destroys the VM.
IpFairness == (\A t \in 1 .. NThreads : WF_ipvars(t \in Threads /\ ThreadNext(t))) /\ WF_ipvars(Destruct)

IpSpec == IpInit /\ [][IpNext]_ipvars /\ IpFairness

-----------------------------------------------------------------------------
\* Every variable holds a value the code could give it.
IpTypeOK ==
  /\ requests \in [Allocs -> Purposes]
  /\ nthreads \in 1 .. NThreads
  /\ list \in Seq([allocation : Addresses, auxCounter : 0 .. nthreads])
  /\ Len(list) <= NAllocs
  /\ ipshmLocalTop \in [Threads -> 0 .. NAllocs]
  /\ ipSetupMutex \in 0 .. nthreads
  /\ heap \in [Addresses -> 0 .. NAllocs]
  /\ pth_mutex \in [Addresses -> {"raw", "init", "destroyed"}]
  /\ lastFlag \in [Addresses -> 0 .. nthreads]
  /\ place \in [Threads -> {"user", "init", "free", "gone"}]
  /\ now \in [Threads -> 0 .. NAllocs]
  /\ firsts \in [Allocs -> SUBSET Threads]
  /\ pointers \in [Threads -> Seq(Addresses)]
  /\ released \in [Threads -> SUBSET Allocs]

\* The k-th allocation is the same memory for every PET, and exactly one of
\* them is told that it is the first.
Agreement ==
  \A t \in Threads : \A k \in DOMAIN pointers[t] :
    /\ Cardinality(firsts[k]) = 1
    /\ \A u \in Threads : k \in DOMAIN pointers[u] => pointers[u][k] = pointers[t][k]

\* What a PET has allocated and not deallocated is there, and a mutex that
\* ipmutexallocate returned to it is initialised and not destroyed.
LiveWhileHeld ==
  \A t \in Threads : place[t] # "gone" => \A k \in Holds(t) :
    /\ heap[pointers[t][k]] = k
    /\ requests[k] = "mutex" /\ ~(place[t] \in {"init", "free"} /\ now[t] = k) =>
         pth_mutex[pointers[t][k]] = "init"

\* Every free of the destructor is of memory that is allocated, and no two of them
\* are of the same block: no element of the list leads to what the PETs have freed,
\* nor, where malloc returned an address again, to what another element owns.
FreedOnce ==
  (\A t \in Threads : place[t] = "gone") =>
    \A i \in ToFree :
      /\ heap[list[i].allocation] = i
      /\ \A j \in ToFree : list[j].allocation = list[i].allocation => j = i

\* In the end all memory is freed, also what a PET never deallocated.
NothingLeaks == <>[](heap = [a \in Addresses |-> 0])

-----------------------------------------------------------------------------
(* The inductive invariant.  The list that the PETs share decides what each   *)
(* of them has: the k-th element is the k-th allocation.                      *)

Running == \E t \in Threads : place[t] # "gone"

\* The element of the k-th allocation: its memory, the PETs that have still to
\* deallocate it, and whether the list counts any of them.
At(k) == list[k].allocation
Owed(k) == {t \in Threads : k \notin released[t]}
InUse(k) == list[k].auxCounter > 0

\* ipshmLocalTop is the element a PET got last, and it got all those below it.
Tops ==
  \A t \in Threads :
    /\ ipshmLocalTop[t] = Len(pointers[t])
    /\ Len(pointers[t]) <= Len(list)
    /\ \A k \in 1 .. Len(pointers[t]) : pointers[t][k] = At(k)

\* Every element was made by one PET, which has it.
Firsts ==
  \A k \in Allocs :
    IF k <= Len(list)
      THEN \E t \in Threads : firsts[k] = {t} /\ k <= Len(pointers[t])
      ELSE firsts[k] = {}

\* Only what was allocated is deallocated.
Released == \A t \in Threads : \A k \in released[t] : k <= Len(pointers[t])

\* auxCounter counts the PETs that have not deallocated the element, those that
\* have not allocated it yet included; a PET alone never counts.
Counts ==
  \A k \in 1 .. Len(list) :
    list[k].auxCounter = IF nthreads = 1 THEN 1 ELSE Cardinality(Owed(k))

\* The memory of a counted element is its own: malloc returns an address a
\* second time only when the element that had it counts nobody.
Apart ==
  /\ \A k \in 1 .. Len(list) : InUse(k) => heap[At(k)] = k
  /\ \A j, k \in 1 .. Len(list) : j < k /\ InUse(j) => At(j) # At(k)

\* All memory is reachable from a counted element.
Backed ==
  \A a \in Addresses : heap[a] # 0 => \E k \in 1 .. Len(list) : InUse(k) /\ At(k) = a

\* The PET between the two halves of a mutex call holds ipSetupMutex, and the
\* call is about a mutex that it has; a PET leaves after its last allocation.
Setup ==
  \A t \in Threads :
    /\ place[t] \in {"init", "free"} <=> ipSetupMutex = t
    /\ place[t] \in {"init", "free"} =>
         /\ now[t] \in 1 .. Len(pointers[t])
         /\ now[t] \notin released[t]
         /\ requests[now[t]] = "mutex"
    /\ place[t] = "gone" => Len(pointers[t]) = NAllocs

\* The PETs that ipmutexdeallocate has still to count for the k-th allocation.
Users(k) == {t \in Owed(k) : ~(place[t] = "free" /\ now[t] = k)}

\* The PET that allocated the k-th mutex has not initialised it yet.
Fresh(k) == \E t \in Threads : firsts[k] = {t} /\ place[t] = "init" /\ now[t] = k

\* An allocated mutex is initialised, and not destroyed while one PET has still
\* to be counted: lastFlag, which every ipmutexallocate sets anew to the number
\* of PETs, never falls below the number of those.
Initialised ==
  \A k \in 1 .. Len(list) :
    requests[k] = "mutex" /\ ~Fresh(k) /\ Users(k) # {} =>
      /\ pth_mutex[At(k)] = "init"
      /\ lastFlag[At(k)] >= Cardinality(Users(k))

\* Nobody else has a mutex while the first PET initialises it.
Alone ==
  \A k \in 1 .. Len(list) : Fresh(k) =>
    \A t \in Threads : k <= Len(pointers[t]) => firsts[k] = {t}

\* What holds while the VM runs, and what is left when it is gone.
Kept == Tops /\ Firsts /\ Released /\ Counts /\ Apart /\ Backed /\ Setup /\ Initialised /\ Alone
Destructed == ~Running /\ list = <<>> /\ heap = [a \in Addresses |-> 0]

IpInv == IpTypeOK /\ Agreement /\ (Kept \/ Destructed)
=============================================================================
