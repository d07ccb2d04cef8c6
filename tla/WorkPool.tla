------------------------------ MODULE WorkPool ------------------------------
(***************************************************************************)
(* What the work queue of a DELayout promises ("dynamic load balancing via *)
(* a work queue approach", ESMF_DELayoutServiceOffer): every DE is to be   *)
(* serviced NOffers times.  Each of these services is given to exactly one *)
(* PET, a DE is in the service window of one PET at a time, and in the end *)
(* all services have been performed.                                       *)
(***************************************************************************)
EXTENDS Naturals

CONSTANTS
  PETs,     \* the PETs that share the work
  NDEs,     \* the number of DEs
  NOffers   \* how often each DE is to be serviced

VARIABLES
  servers,  \* servers[de][k]: the PET that got service k of the DE, or 0
  window,   \* window[de]: the PET that services the DE, or 0
  served    \* served[de]: the number of services performed

vars == <<servers, window, served>>

DEs == 1 .. NDEs
Offers == 1 .. NOffers

Init ==
  /\ servers = [de \in DEs |-> [k \in Offers |-> 0]]
  /\ window = [de \in DEs |-> 0]
  /\ served = [de \in DEs |-> 0]

\* The services of a DE are given away one after another.
Claim(p, de, k) ==
  /\ servers[de][k] = 0
  /\ \A j \in 1 .. k - 1 : servers[de][j] # 0
  /\ servers' = [servers EXCEPT ![de][k] = p]
  /\ UNCHANGED <<window, served>>

Open(p, de) ==
  /\ window[de] = 0
  /\ \E k \in Offers : servers[de][k] = p
  /\ window' = [window EXCEPT ![de] = p]
  /\ UNCHANGED <<servers, served>>

Close(p, de) ==
  /\ window[de] = p
  /\ window' = [window EXCEPT ![de] = 0]
  /\ served' = [served EXCEPT ![de] = @ + 1]
  /\ UNCHANGED servers

Next == \E p \in PETs, de \in DEs :
  Open(p, de) \/ Close(p, de) \/ \E k \in Offers : Claim(p, de, k)

\* All work gets done.
AllServed == <>[](served = [de \in DEs |-> NOffers] /\ window = [de \in DEs |-> 0])

Spec == Init /\ [][Next]_vars /\ AllServed
=============================================================================
