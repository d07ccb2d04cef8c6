---------------------------- MODULE Contributors ----------------------------
(***************************************************************************)
(* PETs that do not spawn but contribute their cores to a child PET of     *)
(* another PET, and get them back when the child returns from user code:   *)
(* the handshake of VMK::enter, the signals and messages of                *)
(* enter_callback, the threads vmk_sigcatcher and vmk_block of each        *)
(* contributor, and VMK::exit.                                             *)
(*                                                                         *)
(* The threads are released and caught through the vmkt of module Vmkt:    *)
(* here a release waits until the thread is parked, and a thread that      *)
(* locks the mutex its parent holds waits until the parent catches it.     *)
(*                                                                         *)
(* One PET spawns all the children, in one process; a contributor may live *)
(* in that process or in another one.  The threadbarrier that ends         *)
(* VMK::exit holds the PETs of a process until all of them are there.      *)
(***************************************************************************)
EXTENDS Naturals, FiniteSets

CONSTANTS
  NChildren,  \* spawnflag of the spawning PET
  NContribs,  \* the number of contributing PETs
  ChildOf,    \* ChildOf[k]: the child that contributor k gives its cores to
  Process,    \* Process[k]: the process of contributor k, Process[0] of the spawner
  Queued,     \* VM_SIG1 is a real-time signal: every kill is delivered
  MaxRounds   \* bound on the number of times the component is entered

Children == 1 .. NChildren
Contribs == 1 .. NContribs
PETs == {0} \cup Contribs
Processes == {Process[k] : k \in PETs}

ASSUME ContributorsAssumption ==
  /\ NChildren \in Nat \ {0} /\ NContribs \in Nat /\ MaxRounds \in Nat
  /\ ChildOf \in [Contribs -> Children]
  /\ DOMAIN Process = PETs
  /\ Queued \in BOOLEAN

VARIABLES
  buffered,  \* MPI_Send may return before the message is received
  serialize, \* vm->mpi_thread_level < MPI_THREAD_MULTIPLE
  spc,       \* where the spawning PET is, and
  turn,      \* the contributor or child whose turn it is there
  round,     \* round[0] of the spawner and round[k] of contributor k: times entered
  kpc,       \* kpc[k]: where contributor k is
  handshake, \* handshake[k]: a message to the spawner is under way
  cpc,       \* cpc[c]: where child c is
  serving,   \* serving[c]: the contributor it is signalling
  gpc,       \* gpc[k]: where the sigcatcher of k is, and
  got,       \* got[k]: the contributor whose blocker it has been told to wake
  bpc,       \* bpc[k]: where the blocker of k is
  pending,   \* pending[p]: number of VM_SIG1 pending for process p
  mail,      \* mail[p]: the messages with VM_TID_MPI_TAG under way to p
  returned   \* returned[c]: number of user codes child c has returned from

vars == <<buffered, serialize, spc, turn, round, kpc, handshake, cpc, serving,
          gpc, got, bpc, pending, mail, returned>>

Spawner == <<spc, turn>>
Catcher == <<gpc, got>>
Posts == <<pending, mail>>
Modes == <<buffered, serialize>>

Init ==
  /\ buffered \in BOOLEAN /\ serialize \in BOOLEAN
  /\ spc = "user" /\ turn = 1
  /\ round = [k \in PETs |-> 0]
  /\ kpc = [k \in Contribs |-> "user"]
  /\ handshake = [k \in Contribs |-> FALSE]
  /\ cpc = [c \in Children |-> "parked"]
  /\ serving = [c \in Children |-> 0]
  /\ gpc = [k \in Contribs |-> "parked"]
  /\ got = [k \in Contribs |-> 0]
  /\ bpc = [k \in Contribs |-> "parked"]
  /\ pending = [p \in Processes |-> 0]
  /\ mail = [p \in Processes |-> {}]
  /\ returned = [c \in Children |-> 0]

-----------------------------------------------------------------------------
\* Mutants: the spawner does not wait for the handshake, the blocker waits for
\* nobody, the threadbarrier holds nobody, the child signals the same contributor
\* again.
HandshakeUnread ==
  /\ spc = "handshake"
  /\ IF turn < NContribs THEN turn' = turn + 1 /\ UNCHANGED spc
                         ELSE turn' = 1 /\ spc' = "release"
  /\ UNCHANGED <<Modes, round, kpc, handshake, cpc, serving, Catcher, bpc, Posts, returned>>
NoThreadBarrier(k) == TRUE
NextsAgain(c, k) == {j \in Contribs : ChildOf[j] = c /\ j >= k}
BlockNoWait(k) ==
  /\ bpc[k] \in {"blocked", "woken"} /\ bpc' = [bpc EXCEPT ![k] = "finish"]
  /\ UNCHANGED <<Modes, Spawner, round, kpc, handshake, cpc, serving, Catcher, Posts, returned>>


\* VMK::threadbarrier: all PETs of the process have reached the end of the
\* VMK::exit that belongs to the round of PET k.
InExit(j) == IF j = 0 THEN spc \in {"barrier", "user"} ELSE kpc[j] \in {"barrier", "user"}
ThreadBarrier(k) ==
  \A j \in PETs : Process[j] = Process[k] =>
    round[j] > round[k] \/ (round[j] = round[k] /\ InExit(j))

(* The spawning PET.                                                        *)

\* VMK::enter: first listen to the contributors, one after another.
SpawnerEnter ==
  /\ spc = "user" /\ round[0] < MaxRounds
  /\ round' = [round EXCEPT ![0] = @ + 1]
  /\ spc' = IF Contribs = {} THEN "release" ELSE "handshake"
  /\ UNCHANGED <<Modes, turn, kpc, handshake, cpc, serving, Catcher, bpc, Posts, returned>>

RecvHandshake ==
  /\ spc = "handshake" /\ handshake[turn]
  /\ handshake' = [handshake EXCEPT ![turn] = FALSE]
  /\ IF turn < NContribs THEN turn' = turn + 1 /\ UNCHANGED spc
                         ELSE turn' = 1 /\ spc' = "release"
  /\ UNCHANGED <<Modes, round, kpc, cpc, serving, Catcher, bpc, Posts, returned>>

\* vmkt_release of the children
ReleaseChild ==
  /\ spc = "release" /\ cpc[turn] = "parked"
  /\ cpc' = [cpc EXCEPT ![turn] = "callback"]
  /\ IF turn < NChildren THEN turn' = turn + 1 /\ UNCHANGED spc
                         ELSE turn' = 1 /\ spc' = "exit"
  /\ UNCHANGED <<Modes, round, kpc, handshake, serving, Catcher, bpc, Posts, returned>>

SpawnerExit ==
  /\ \/ spc = "exit" /\ spc' = "catch"
     \/ spc = "barrier" /\ ThreadBarrier(0) /\ spc' = "user"
  /\ UNCHANGED <<Modes, turn, round, kpc, handshake, cpc, serving, Catcher, bpc, Posts, returned>>

\* The parent waits in vmkt_catch of child c: c can lock their common mutex.
Catching(c) == spc = "catch" /\ turn = c

-----------------------------------------------------------------------------
(* A contributing PET.                                                      *)

Step(k, from, to) == kpc[k] = from /\ kpc' = [kpc EXCEPT ![k] = to]

\* VMK::enter: "release their blocker and sigcatcher _before_ the actual
\* spawner threads get released"
ReleaseBlocker(k) ==
  /\ round[k] < MaxRounds /\ bpc[k] = "parked"
  /\ Step(k, "user", "releaseCatcher")
  /\ round' = [round EXCEPT ![k] = @ + 1]
  /\ bpc' = [bpc EXCEPT ![k] = "released"]
  /\ UNCHANGED <<Modes, Spawner, handshake, cpc, serving, Catcher, Posts, returned>>

ReleaseCatcher(k) ==
  /\ Step(k, "releaseCatcher", "handshake") /\ gpc[k] = "parked"
  /\ gpc' = [gpc EXCEPT ![k] = "sigwait"]
  /\ UNCHANGED <<Modes, Spawner, round, handshake, cpc, serving, got, bpc, Posts, returned>>

SendHandshake(k) ==
  /\ Step(k, "handshake", "exit")
  /\ handshake' = [handshake EXCEPT ![k] = TRUE]
  /\ UNCHANGED <<Modes, Spawner, round, cpc, serving, Catcher, bpc, Posts, returned>>

\* VMK::exit: catch the sigcatcher, then the blocker.
ContributorExit(k) ==
  /\ \/ Step(k, "exit", "catchCatcher")
     \/ Step(k, "barrier", "user") /\ ThreadBarrier(k)
  /\ UNCHANGED <<Modes, Spawner, round, handshake, cpc, serving, Catcher, bpc, Posts, returned>>

-----------------------------------------------------------------------------
(* A child PET: enter_callback, and the end of the loop of vmk_spawn.       *)

\* The contributors of child c are signalled in the order of their number.
Nexts(c, k) == {j \in Contribs : ChildOf[j] = c /\ j > k}
Following(c, k) == IF Nexts(c, k) = {} THEN 0
                   ELSE CHOOSE j \in Nexts(c, k) : \A i \in Nexts(c, k) : j <= i

Serve(c, k) ==
  /\ serving' = [serving EXCEPT ![c] = k]
  /\ cpc' = [cpc EXCEPT ![c] = IF k = 0 THEN "finish" ELSE "kill"]

CallBack(c) ==
  /\ cpc[c] = "callback"
  /\ returned' = [returned EXCEPT ![c] = @ + 1]
  /\ Serve(c, Following(c, 0))
  /\ UNCHANGED <<Modes, Spawner, round, kpc, handshake, Catcher, bpc, Posts>>

\* kill(contributors[i].pid, VM_SIG1): the signal is blocked in all threads, so
\* it stays pending; a standard signal that is already pending is discarded.
Kill(c) ==
  LET p == Process[serving[c]] IN
  /\ cpc[c] = "kill" /\ cpc' = [cpc EXCEPT ![c] = "send"]
  /\ pending' = [pending EXCEPT ![p] = IF Queued THEN @ + 1 ELSE 1]
  /\ UNCHANGED <<Modes, Spawner, round, kpc, handshake, serving, Catcher, bpc, mail, returned>>

\* MPI_Send of the vmkt of the blocker, under the mutex when MPI asks for it.
Send(c) ==
  /\ cpc[c] = "send" /\ (serialize => Catching(c))
  /\ cpc' = [cpc EXCEPT ![c] = "sent"]
  /\ mail' = [mail EXCEPT ![Process[serving[c]]] = @ \cup {serving[c]}]
  /\ UNCHANGED <<Modes, Spawner, round, kpc, handshake, serving, Catcher, bpc, pending, returned>>

Sent(c) ==
  /\ cpc[c] = "sent"
  /\ buffered \/ serving[c] \notin mail[Process[serving[c]]]
  /\ Serve(c, Following(c, serving[c]))
  /\ UNCHANGED <<Modes, Spawner, round, kpc, handshake, Catcher, bpc, Posts, returned>>

\* The child signals its parent, which returns from vmkt_catch.
ChildCaught(c) ==
  /\ cpc[c] = "finish" /\ Catching(c)
  /\ cpc' = [cpc EXCEPT ![c] = "parked"]
  /\ IF turn < NChildren THEN turn' = turn + 1 /\ UNCHANGED spc
                         ELSE turn' = 1 /\ spc' = "barrier"
  /\ UNCHANGED <<Modes, round, kpc, handshake, serving, Catcher, bpc, Posts, returned>>

-----------------------------------------------------------------------------
(* The sigcatcher of contributor k.                                         *)

\* sigwait takes one pending signal of the process.
SigWait(k) ==
  /\ gpc[k] = "sigwait" /\ pending[Process[k]] > 0
  /\ pending' = [pending EXCEPT ![Process[k]] = @ - 1]
  /\ gpc' = [gpc EXCEPT ![k] = "recv"]
  /\ UNCHANGED <<Modes, Spawner, round, kpc, handshake, cpc, serving, got, bpc, mail, returned>>

\* MPI_Recv from MPI_ANY_SOURCE
RecvMail(k) ==
  /\ gpc[k] = "recv"
  /\ \E j \in mail[Process[k]] :
       /\ mail' = [mail EXCEPT ![Process[k]] = @ \ {j}]
       /\ got' = [got EXCEPT ![k] = j]
  /\ gpc' = [gpc EXCEPT ![k] = "wake"]
  /\ UNCHANGED <<Modes, Spawner, round, kpc, handshake, cpc, serving, bpc, pending, returned>>

\* The blocker holds mut_extra1 except while it waits on cond_extra1.
WakeBlocker(k) ==
  /\ gpc[k] = "wake" /\ bpc[got[k]] \in {"blocked", "woken"}
  /\ bpc' = [bpc EXCEPT ![got[k]] = "woken"]
  /\ gpc' = [gpc EXCEPT ![k] = "finish"]
  /\ UNCHANGED <<Modes, Spawner, round, kpc, handshake, cpc, serving, got, Posts, returned>>

CatcherCaught(k) ==
  /\ gpc[k] = "finish" /\ Step(k, "catchCatcher", "catchBlocker")
  /\ gpc' = [gpc EXCEPT ![k] = "parked"]
  /\ got' = [got EXCEPT ![k] = 0]
  /\ UNCHANGED <<Modes, Spawner, round, handshake, cpc, serving, bpc, Posts, returned>>

-----------------------------------------------------------------------------
(* The blocker of contributor k.                                            *)

Block(k) ==
  /\ bpc[k] = "released" /\ bpc' = [bpc EXCEPT ![k] = "blocked"]
  /\ UNCHANGED <<Modes, Spawner, round, kpc, handshake, cpc, serving, Catcher, Posts, returned>>

Unblock(k) ==
  /\ bpc[k] = "woken" /\ bpc' = [bpc EXCEPT ![k] = "finish"]
  /\ UNCHANGED <<Modes, Spawner, round, kpc, handshake, cpc, serving, Catcher, Posts, returned>>

BlockerCaught(k) ==
  /\ bpc[k] = "finish" /\ Step(k, "catchBlocker", "barrier")
  /\ bpc' = [bpc EXCEPT ![k] = "parked"]
  /\ UNCHANGED <<Modes, Spawner, round, handshake, cpc, serving, Catcher, Posts, returned>>

-----------------------------------------------------------------------------
SpawnerStep == SpawnerEnter \/ RecvHandshake \/ ReleaseChild \/ SpawnerExit
ContributorStep(k) ==
  ReleaseBlocker(k) \/ ReleaseCatcher(k) \/ SendHandshake(k) \/ ContributorExit(k)
ChildStep(c) == CallBack(c) \/ Kill(c) \/ Send(c) \/ Sent(c) \/ ChildCaught(c)
CatcherStep(k) == SigWait(k) \/ RecvMail(k) \/ WakeBlocker(k) \/ CatcherCaught(k)
BlockerStep(k) == Block(k) \/ Unblock(k) \/ BlockerCaught(k)

Over == /\ spc = "user" /\ \A k \in PETs : round[k] = MaxRounds
        /\ \A k \in Contribs : kpc[k] = "user"

Finished == Over /\ UNCHANGED vars

Next ==
  \/ SpawnerStep \/ (\E c \in Children : ChildStep(c))
  \/ \E k \in Contribs : ContributorStep(k) \/ CatcherStep(k) \/ BlockerStep(k)
  \/ Finished

\* Every thread is scheduled, and so is a sigcatcher that others compete with
\* for the signals and messages of its process.
Spec ==
  /\ Init /\ [][Next]_vars
  /\ WF_vars(SpawnerStep) /\ \A c \in Children : WF_vars(ChildStep(c))
  /\ \A k \in Contribs : WF_vars(ContributorStep(k)) /\ WF_vars(CatcherStep(k))
                         /\ WF_vars(BlockerStep(k))

-----------------------------------------------------------------------------
TypeOK ==
  /\ buffered \in BOOLEAN /\ serialize \in BOOLEAN
  /\ spc \in {"user", "handshake", "release", "exit", "catch", "barrier"}
  /\ turn \in Children \cup Contribs
  /\ round \in [PETs -> 0 .. MaxRounds]
  /\ kpc \in [Contribs -> {"user", "releaseCatcher", "handshake", "exit",
                           "catchCatcher", "catchBlocker", "barrier"}]
  /\ handshake \in [Contribs -> BOOLEAN]
  /\ cpc \in [Children -> {"parked", "callback", "kill", "send", "sent", "finish"}]
  /\ serving \in [Children -> 0 .. NContribs]
  /\ gpc \in [Contribs -> {"parked", "sigwait", "recv", "wake", "finish"}]
  /\ got \in [Contribs -> 0 .. NContribs]
  /\ bpc \in [Contribs -> {"parked", "released", "blocked", "woken", "finish"}]
  /\ pending \in [Processes -> 0 .. NContribs]
  /\ mail \in [Processes -> SUBSET Contribs]
  /\ returned \in [Children -> 0 .. MaxRounds]

\* "pets which did not spawn but contributed in the VMKPlan block until their
\* cores have been returned": a contributor is back in user code, and its
\* blocker is woken, only after the child that has its cores has left user code
\* as often as the contributor has entered.
CoresReturned ==
  \A k \in Contribs :
    (kpc[k] \in {"barrier", "user"} \/ bpc[k] \in {"woken", "finish"}) =>
      returned[ChildOf[k]] >= round[k]

\* "this is so that no signals get missed!": for every message that a child
\* owes or has under way to a process there is a signal or a sigcatcher that is
\* past its sigwait, and for every pending signal a sigcatcher in sigwait.
NoSignalMissed ==
  \A p \in Processes :
    LET catchers(at) == Cardinality({k \in Contribs : Process[k] = p /\ gpc[k] = at})
        owed == Cardinality({c \in Children : cpc[c] = "send" /\ Process[serving[c]] = p})
    IN  /\ pending[p] + catchers("recv") = owed + Cardinality(mail[p])
        /\ pending[p] <= catchers("sigwait")

\* Every PET gets through all its rounds: no contributor is left behind.
AllReturn == <>[]Over
=============================================================================
