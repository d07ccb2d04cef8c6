----------------------------- MODULE WorkQueue -----------------------------
(***************************************************************************)
(* The work queue of a DELayout (ESMCI_DELayout.C) for the PETs of one     *)
(* VAS: DELayout::construct as far as it sets up the work queue,           *)
(* serviceOffer, serviceComplete and the destructor.                       *)
(*                                                                         *)
(* Every PET constructs the DELayout, offers service NOffers times for     *)
(* every DE that it may service, in an order of its own, closes a service  *)
(* window before it makes the next offer, and destroys the DELayout.  An   *)
(* offer for a DE that is not local to the PET returns an error, and so    *)
(* does serviceComplete without an open window; neither changes anything.  *)
(*                                                                         *)
(* That the k-th allocation of every PET returns the same memory and that  *)
(* mutexes are initialised is the business of module IpShm.                *)
(***************************************************************************)
EXTENDS Naturals

CONSTANTS
  NPETs,    \* the number of PETs in the VAS
  NDEs,     \* vasLocalDeCount
  NOffers,  \* bound on the number of offers each PET makes for a DE
  Owner,    \* Owner[de]: the PET the DE is mapped to
  Garbage   \* values malloc may leave in memory

PETs == 1 .. NPETs
DEs == 1 .. NDEs
Offers == 1 .. NOffers

ASSUME WorkQueueAssumption ==
  /\ NPETs \in Nat \ {0} /\ NDEs \in Nat \ {0} /\ NOffers \in Nat
  /\ Owner \in [DEs -> PETs]
  /\ Garbage \subseteq Nat /\ Garbage # {}

VARIABLES
  pinFlag,               \* ESMF_PIN_DE_TO_PET or ESMF_PIN_DE_TO_VAS
  allocated,             \* some PET has allocated maxServiceOfferCount
  maxServiceOfferCount,  \* per DE, shared
  offerMutex,            \* serviceOfferMutex[de]: the PET that holds it, or 0
  serviceMutex,          \* serviceMutex[de]: the PET that holds it, or 0
  localServiceOfferCount,\* per PET and DE
  serviceMutexFlag,      \* per PET and DE
  stage,                 \* stage[p]: where PET p is
  de,                    \* de[p]: the DE it offers service for, or services; or 0
  servers,               \* servers[d][k]: the PET whose k-th offer was accepted
  served                 \* served[d]: the number of closed service windows

workvars ==
  <<pinFlag, allocated, maxServiceOfferCount, offerMutex, serviceMutex,
    localServiceOfferCount, serviceMutexFlag, stage, de, servers, served>>

Layout == <<pinFlag, allocated>>
Queue == <<maxServiceOfferCount, localServiceOfferCount>>
Service == <<serviceMutex, serviceMutexFlag, served>>

WorkInit ==
  /\ pinFlag \in {"PET", "VAS"}
  /\ allocated = FALSE
  /\ maxServiceOfferCount \in [DEs -> Garbage]
  /\ offerMutex = [d \in DEs |-> 0]
  /\ serviceMutex = [d \in DEs |-> 0]
  /\ localServiceOfferCount = [p \in PETs |-> [d \in DEs |-> 0]]
  /\ serviceMutexFlag = [p \in PETs |-> [d \in DEs |-> 0]]
  /\ stage = [p \in PETs |-> "construct"]
  /\ de = [p \in PETs |-> 0]
  /\ servers = [d \in DEs |-> [k \in Offers |-> 0]]
  /\ served = [d \in DEs |-> 0]

-----------------------------------------------------------------------------
ToStage(p, label) == stage' = [stage EXCEPT ![p] = label]

\* Mutants of the operators below.
NoMutex(mutex, p, d) == mutex' = [mutex EXCEPT ![d] = p]
ResetAgain(first) == TRUE
AcceptsAgain(offers, max) == offers >= max
AcceptsLate(offers, max) == offers > max + 1

\* ipmutexlock
MutexLock(mutex, p, d) ==
  /\ mutex[d] = 0
  /\ mutex' = [mutex EXCEPT ![d] = p]

\* construct: the mutexes exist; the one of the first DE is taken for the
\* time in which maxServiceOfferCount is allocated and reset.
ConstructLock(p) ==
  /\ stage[p] = "construct"
  /\ MutexLock(offerMutex, p, 1)
  /\ ToStage(p, "allocate")
  /\ UNCHANGED <<Layout, Queue, Service, de, servers>>

\* "if (firstFlag)"
Resets(first) == first

ConstructAllocate(p) ==
  /\ stage[p] = "allocate"
  /\ allocated' = TRUE
  /\ ToStage(p, IF Resets(~allocated) THEN "reset" ELSE "constructed")
  /\ UNCHANGED <<pinFlag, Queue, Service, offerMutex, de, servers>>

ConstructReset(p) ==
  /\ stage[p] = "reset"
  /\ maxServiceOfferCount' = [d \in DEs |-> 0]
  /\ ToStage(p, "constructed")
  /\ UNCHANGED <<Layout, localServiceOfferCount, Service, offerMutex, de, servers>>

ConstructUnlock(p) ==
  /\ stage[p] = "constructed"
  /\ offerMutex' = [offerMutex EXCEPT ![1] = 0]
  /\ ToStage(p, "user")
  /\ UNCHANGED <<Layout, Queue, Service, de, servers>>

-----------------------------------------------------------------------------
\* "DE to PET pinning is more restrictive": the DEs a PET may offer service for.
Local(p) == {d \in DEs : pinFlag = "PET" => Owner[d] = p}

\* serviceOffer of PET p for DE d
Offer(p, d) ==
  /\ stage[p] = "user" /\ d \in Local(p)
  /\ localServiceOfferCount[p][d] < NOffers
  /\ localServiceOfferCount' = [localServiceOfferCount EXCEPT ![p][d] = @ + 1]
  /\ de' = [de EXCEPT ![p] = d]
  /\ ToStage(p, "offer")
  /\ UNCHANGED <<Layout, maxServiceOfferCount, Service, offerMutex, servers>>

OfferLock(p) ==
  /\ stage[p] = "offer"
  /\ MutexLock(offerMutex, p, de[p])
  /\ ToStage(p, "compare")
  /\ UNCHANGED <<Layout, Queue, Service, de, servers>>

Accepts(offers, max) == offers > max

Compare(p) ==
  /\ stage[p] = "compare"
  /\ ToStage(p, IF Accepts(localServiceOfferCount[p][de[p]], maxServiceOfferCount[de[p]])
               THEN "accept" ELSE "deny")
  /\ UNCHANGED <<Layout, Queue, Service, offerMutex, de, servers>>

Accept(p) ==
  /\ stage[p] = "accept"
  /\ maxServiceOfferCount' = [maxServiceOfferCount EXCEPT ![de[p]] = @ + 1]
  /\ servers' = [servers EXCEPT ![de[p]][localServiceOfferCount[p][de[p]]] = p]
  /\ ToStage(p, "accepted")
  /\ UNCHANGED <<Layout, localServiceOfferCount, Service, offerMutex, de>>

OfferUnlock(p) ==
  /\ stage[p] \in {"accepted", "deny"}
  /\ offerMutex' = [offerMutex EXCEPT ![de[p]] = 0]
  /\ IF stage[p] = "accepted" THEN ToStage(p, "service") /\ UNCHANGED de
                            ELSE ToStage(p, "user") /\ de' = [de EXCEPT ![p] = 0]
  /\ UNCHANGED <<Layout, Queue, Service, servers>>

\* Accepted: the PET returns when it has the service mutex.
ServiceLock(p) ==
  /\ stage[p] = "service"
  /\ MutexLock(serviceMutex, p, de[p])
  /\ serviceMutexFlag' = [serviceMutexFlag EXCEPT ![p][de[p]] = 1]
  /\ ToStage(p, "work")
  /\ UNCHANGED <<Layout, Queue, served, offerMutex, de, servers>>

\* serviceComplete, called when the work is done
ServiceComplete(p) ==
  /\ stage[p] = "work" /\ serviceMutexFlag[p][de[p]] = 1
  /\ serviceMutex' = [serviceMutex EXCEPT ![de[p]] = 0]
  /\ serviceMutexFlag' = [serviceMutexFlag EXCEPT ![p][de[p]] = 0]
  /\ served' = [served EXCEPT ![de[p]] = @ + 1]
  /\ ToStage(p, "user") /\ de' = [de EXCEPT ![p] = 0]
  /\ UNCHANGED <<Layout, Queue, offerMutex, servers>>

\* The destructor, after the last offer.
DestroyLayout(p) ==
  /\ stage[p] = "user"
  /\ \A d \in Local(p) : localServiceOfferCount[p][d] = NOffers
  /\ ToStage(p, "destroyed")
  /\ UNCHANGED <<Layout, Queue, Service, offerMutex, de, servers>>

-----------------------------------------------------------------------------
PETNext(p) ==
  \/ ConstructLock(p) \/ ConstructAllocate(p) \/ ConstructReset(p) \/ ConstructUnlock(p)
  \/ \E d \in DEs : Offer(p, d)
  \/ OfferLock(p) \/ Compare(p) \/ Accept(p) \/ OfferUnlock(p)
  \/ ServiceLock(p) \/ ServiceComplete(p) \/ DestroyLayout(p)

WorkFinished == (\A p \in PETs : stage[p] = "destroyed") /\ UNCHANGED workvars

WorkNext == (\E p \in PETs : PETNext(p)) \/ WorkFinished

\* Every PET is a thread that keeps running.  No fairness of the mutexes is
\* assumed: the number of offers is bounded.
WorkFairness == \A p \in PETs : WF_workvars(PETNext(p))

WorkSpec == WorkInit /\ [][WorkNext]_workvars /\ WorkFairness

-----------------------------------------------------------------------------
\* The shared counts are in use: allocated, and reset by the PET that did.
CountsReset == allocated /\ \A p \in PETs : stage[p] # "reset"

Labels == {"construct", "allocate", "reset", "constructed", "user", "offer", "compare",
           "accept", "accepted", "deny", "service", "work", "destroyed"}

\* Every variable holds a value the code could give it.
WorkTypeOK ==
  /\ pinFlag \in {"PET", "VAS"}
  /\ allocated \in BOOLEAN
  /\ maxServiceOfferCount \in [DEs -> Nat]
  /\ CountsReset => maxServiceOfferCount \in [DEs -> 0 .. NOffers]
  /\ offerMutex \in [DEs -> {0} \cup PETs]
  /\ serviceMutex \in [DEs -> {0} \cup PETs]
  /\ localServiceOfferCount \in [PETs -> [DEs -> 0 .. NOffers]]
  /\ serviceMutexFlag \in [PETs -> [DEs -> {0, 1}]]
  /\ stage \in [PETs -> Labels]
  /\ de \in [PETs -> {0} \cup DEs]
  /\ servers \in [DEs -> [Offers -> {0} \cup PETs]]
  /\ served \in [DEs -> Nat]

\* "PET holds service mutex for specified DE": a DE is in the service window of
\* one PET at a time, and only that PET may complete the service.
InWindow(p, d) == stage[p] = "work" /\ de[p] = d

WindowExclusive ==
  \A p \in PETs, d \in DEs : serviceMutexFlag[p][d] = 1 =>
    InWindow(p, d) /\ \A q \in PETs \ {p} : ~InWindow(q, d)

\* The offers of p for d that have been accepted or denied.
Answered(p, d) ==
  IF stage[p] \in {"offer", "compare", "accept"} /\ de[p] = d
    THEN localServiceOfferCount[p][d] - 1 ELSE localServiceOfferCount[p][d]

\* The DELayout "accepts only one PET's offer for each offer increment": the
\* count is the number of increments given away, and an offer is denied only if
\* some PET has been accepted for it.
OneServicePerOffer ==
  /\ CountsReset => \A d \in DEs, k \in Offers :
       servers[d][k] # 0 <=> k <= maxServiceOfferCount[d]
  /\ \A p \in PETs, d \in DEs : \A k \in 1 .. Answered(p, d) : servers[d][k] # 0

-----------------------------------------------------------------------------
\* The strengthening of the invariants above that every step preserves.

\* A mutex is held by the PET that stands between its lock and its unlock, and
\* the flag of a PET is up while it has the service mutex.
HoldsOffer(p, d) ==
  \/ d = 1 /\ stage[p] \in {"allocate", "reset", "constructed"}
  \/ d = de[p] /\ stage[p] \in {"compare", "accept", "accepted", "deny"}

Locks ==
  \A p \in PETs, d \in DEs :
    /\ offerMutex[d] = p <=> HoldsOffer(p, d)
    /\ serviceMutex[d] = p <=> InWindow(p, d)
    /\ serviceMutexFlag[p][d] = 1 <=> InWindow(p, d)

\* A PET that deals with an offer knows for which DE.
OfferedDE ==
  \A p \in PETs :
    stage[p] \in {"offer", "compare", "accept", "accepted", "deny", "service", "work"} =>
      de[p] \in DEs

\* No offer is made before the shared counts are reset: the PET that allocated
\* them holds the mutex the others need to come out of construct.
SetUp ==
  /\ ~allocated => \A p \in PETs : stage[p] \in {"construct", "allocate"}
  /\ \A p \in PETs : stage[p] = "reset" =>
       allocated /\ \A q \in PETs \ {p} : stage[q] = "construct"
  /\ \A p \in PETs : stage[p] \in {"construct", "allocate", "reset", "constructed"} =>
       \A d \in DEs : localServiceOfferCount[p][d] = 0
  /\ ~CountsReset => \A d \in DEs, k \in Offers : servers[d][k] = 0

\* The count is the number of increments given away; no PET has been answered
\* for more, and the comparison still holds when the count is incremented.
Counted ==
  /\ CountsReset => \A d \in DEs, k \in Offers :
       servers[d][k] # 0 <=> k <= maxServiceOfferCount[d]
  /\ CountsReset => \A p \in PETs, d \in DEs : Answered(p, d) <= maxServiceOfferCount[d]
  /\ \A p \in PETs : stage[p] = "accept" =>
       localServiceOfferCount[p][de[p]] = maxServiceOfferCount[de[p]] + 1

\* A PET on its way to a service window has been accepted.
Entitled ==
  \A p \in PETs : stage[p] \in {"accepted", "service", "work"} =>
    \E k \in Offers : servers[de[p]][k] = p

\* The inductive invariant.
WorkInv == WorkTypeOK /\ Locks /\ OfferedDE /\ SetUp /\ Counted /\ Entitled

-----------------------------------------------------------------------------
Pool == INSTANCE WorkPool WITH window <- serviceMutex

\* The work queue gives every service to exactly one PET, in exclusive windows,
\* and gets all of them done.
WorkImplements == Pool!Spec
=============================================================================
