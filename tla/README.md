# A verification project for the concurrent core of ESMF

ESMF couples the components of Earth system models.  Almost all of its source
is numeric (regridding, decompositions, calendars) or bookkeeping (attributes,
files, states).  The part in which correctness depends on the order of steps is
the virtual machine, "VM": PETs that are MPI processes or POSIX threads,
channels made of spin flags and shared pointers, threads parked on condition
variables, signals between processes, lists of shared memory, queues of
outstanding messages.  Around it there are a work queue, a protocol between two
processes over a socket, and the clock with its alarms, which a program drives
through long sequences of legal calls.  This directory holds TLA+ models of that
core, TLC configurations that check them on small instances, and TLAPS proofs
for every value of the constants.

Source paths below are relative to `src/src/Infrastructure/`; `VMKernel.C` is
`VM/src/ESMCI_VMKernel.C`, `DELayout.C` is `DELayout/src/ESMCI_DELayout.C`,
`Clock.C` and `Alarm.C` are `TimeMgr/src/ESMCI_Clock.C` and `ESMCI_Alarm.C`;
`CompTunnel.C`, `FTable.C` and `Comp.F90` are `ESMCI_CompTunnel.C`,
`ESMCI_FTable.C` and `ESMF_Comp.F90` of `src/src/Superstructure/Component/src/`.
`PROJECT.json` maps every definition to its lines, and lists components, runs,
mutants, findings, hazards and theorems.

1. [Inventory](#1-inventory)
2. [Modules](#2-modules)
3. [Runs, bounds and fairness](#3-runs-bounds-and-fairness)
4. [Findings and observations](#4-findings-and-observations)
5. [Proofs](#5-proofs)
6. [Only model-checked, and not modelled](#6-only-model-checked-and-not-modelled)
7. [Plan](#7-plan)

Run a check with `tlc -workers 2 -config MCVmkt.cfg MCVmkt`, a proof with
`tlapm SharedMemoryProofs.tla`.

## 1. Inventory

A *PET* is an execution thread of a VM.  The PETs of one process (a *VAS*,
virtual address space) are POSIX threads that share memory.  A component with
its own VM is *entered* by the PETs of the parent VM: some of them *spawn*
child PETs, the others *contribute* their cores to a child and wait until they
are returned.

### The virtual machine: `VM/`

| component | state | operations | interacts with | hard behaviour | what makes it correct |
|---|---|---|---|---|---|
| blocking point-to-point (`VMK::send`, `recv`) | one channel per ordered pair of PETs: flags `a_done`, `b_done`, `buffer_done[2]`, buffers, `ptr_src`, `ptr_dst` | `send`, `recv`, `sendrecv`, `sync_*` | barriers use the same flags; collectives are built on it | two threads, spin flags that each end resets for the other, pointers published without a lock, one buffer per channel | the k-th receive returns the k-th message whole; pointers are those of the message; the buffer has one owner; nobody spins for ever |
| barriers (`barrier`, `threadbarrier`) | the flags of the channels from the master thread to the others, `MPI_Barrier` between masters | flip and flop loops | channels, `VMK::exit` | a fast thread reaches its next operation while the master serves others | nobody leaves before all have entered; flags are down afterwards |
| epochs (`epochEnter`, `epochExit`, `epochFinal`) | per destination a `sendBuffer` with `charBuffer`, `mpireq`, `ackQueue`; per source a `recvBuffer` | enter, exit with throttle, buffered send and recv, clear, final | MPI | a buffer that MPI reads while the next epoch begins, acknowledges that arrive any time later, waits of senders and receivers for each other | messages arrive in order and intact; a bounded number is outstanding; every wait ends |
| threads of child PETs (`vmkt_*`, `vmk_spawn`) | per child a `vmkt_t`: mutexes and condition variables, `flag`, `released`, `arg`, `tid` | create, release, catch, join; `startup`, `enter`, `exit`, `shutdown` | enter callback, contributors | a signal to a condition variable without a waiter is lost; `tid` is stored while the thread runs | each release is called back once with its argument; no signal is lost; all is joined |
| contributing PETs (`enter`, `exit`, `vmk_sigcatcher`, `vmk_block`) | two threads per contributor, pending signals of the process, messages with the identity of the thread to wake | handshake, release, `kill`, `MPI_Send`, `sigwait`, `MPI_Recv`, wake, catch | `vmkt_*`, MPI, POSIX signals | any sigcatcher of a process takes any signal and any message | as many signals as messages; cores come back only after user code; everybody comes back |
| memory and mutexes of a process (`ipshm*`, `ipmutex*`) | list of `ipshmAlloc` with `auxCounter`, one position per PET, `lastFlag` per mutex | allocate, deallocate, lock, unlock, clean-up in `destruct` | DELayout, Array, VM | the order of calls is the only name of an allocation; `malloc` reuses addresses the list still holds | PETs share what they think they share; nothing is freed while held, or twice, or never |
| nonblocking queue (`commqueueitem_link` … `commcancel`) | a doubly linked list of commhandles per VM, `nhandles`, `firsthandle`, trees of sub-handles, MPI requests | link, unlink, test, wait, wait for all, cancel | epochs, XXE of DELayout, collectives | completion in any order, handles that leave from the front, the middle or the end, addresses reused, epochs in between | the list is the sequence of the outstanding calls; a call ends only when MPI is done with its messages; no handle is used after it is deleted |
| memory of a node (`ssishm*`) | MPI windows | allocate, get pointers, sync, free | Array | collective calls | (MPI) |
| collectives (broadcast, scatter, gather, reduce, …) | none | | send, recv | matching order of sends and receives | no deadlock for any channel kind |
| resource plans (`VMKPlan`) | tables | computed once | | sequential | |
| VM contexts (`ESMCI_VM.C`) | `matchTable_*` per thread, garbage list of objects | enter, exit, get current, add and remove objects, finalize | components, every class | tables shared by threads, slots reused, objects deleted by user and by the collection | a thread finds its own context; each object is deleted once |
| identifiers (`VMId`) | keys | create, compare | | pure data | |

### Data classes

| component | state and operations | hard behaviour and properties |
|---|---|---|
| DELayout work queue (`serviceOffer`, `serviceComplete`) | shared offer counts, per-PET counts, two mutexes per DE | PETs race for an increment, windows open after the offer mutex is released; one service per increment, exclusive windows |
| DELayout exchange streams (`XXE`) | an instruction stream run against the communication queue | order of posting, waiting and testing |
| Array, ArrayBundle, LocalArray; Field, FieldBundle | data on the DEs, halo and redistribution handles | index arithmetic; sequential per PET |
| DistGrid, Grid, LocStream, XGrid, Mesh, PointList, Route, Regrid | geometry, sparse matrices | numeric |
| Util (Fraction, Container), Base, Info, Config, HConfig | rational numbers, containers, attributes | sequential data structures |
| LogErr, Trace | log entries, a stack of regions | sequential per PET |
| IO | files through NetCDF, PIO, GDAL | input and output of other libraries |

### Time

| component | state and operations | hard behaviour and properties |
|---|---|---|
| Clock and alarms (`Clock.C`, `Alarm.C`) | current and previous time, `advanceCount`, direction, `repeatCount`, a list of alarms with their ring times, flags and counts; `advance`, `set`, `getNextTime`, `checkRingTime`, `ringerOn`, `ringerOff`, `enable`, `disable`, `set`, `willRingNext`, `wasPrevRinging` | long sequences of legal calls: reversed clocks, time steps of either sign, sticky ringers, changed ring times, repeating clocks; an alarm rings when its time has come and at no other, at the same times on the way back, and every call returns |
| Time, TimeInterval, Calendar | numbers | pure conversions |

### Superstructure

| component | state and operations | hard behaviour and properties |
|---|---|---|
| Component method table and callbacks (`FTable.C`) | registered methods; execute through `VM::enter` and `exit` | follows the threads above |
| Tunnels (`CompTunnel.C`, `FTable.C`, `Comp.F90`) | on the dual side the socket, `outstandingWaitFlag`, `vm_released`, `vm_cargo`; on the actual side the service loop; connect and negotiate, execute, wait, timeouts, destroy | a timeout races a late answer, a call is given up with its connection; calls and answers stay in step, each is performed at most once and answered with its own answer, every call returns |
| State, StateReconcile | items each PET has | collective exchange |
| WebServices, NUOPC, ESMX, ESMPy, applications | | layers above the library |
| ParallelIO, Zoltan, yaml-cpp, … | | vendored code |

`PROJECT.json` lists the hazards of the modelled code, each at its line with the
properties that would catch it.

## 2. Modules

Every module keeps the order of stores, waits and early returns of the code and
abstracts the data: a message is its number, a pointer the number of what it
points to, a malloc'ed block an address in a small set.  What the code does
without a chance for anybody to notice a difference is one step; every store to
shared memory, every wait and every MPI call another thread can see is a step
of its own.

### Shared memory channel: `ShmSync`, `ShmChannel`, `PointToPoint`

`ShmSync` holds the `sync_*` functions (`VMKernel.C` 7654-7704) as operators on
one `shmsync`: `FlipStore` and `FlipPassed` are the two halves of a `flip`,
`FlopStore` and `FlopPassed` those of a `flop`, `FlagFill`, `Filled`,
`FlagEmpty` and `Emptied` handle the flag of a buffer.  A flip raises the
caller's flag and spins for the peer's; a flop takes the *peer's* flag down and
spins until the peer took the caller's down.

`ShmChannel` is one channel of type `VM_COMM_TYPE_SHMHACK` (send 4803-4829,
recv 5205-5232) and the thread barrier of the same two PETs (5724-5760), because
both use the same flags.  The two ends run the same arbitrary program of small
messages (through the buffer), large messages (each end copies one half between
the two published pointers) and barriers.  `pc[end]` is the line the PET stands
at, `msg[end]` the operation it is in; `Source(k)` makes the sender's memory
change when its `send` returns, so a copy that comes late is seen.

`PointToPoint` is the abstract specification: calls and returns of a blocking
send and receive, in order, with rendezvous for some kinds of operation.
`Implements == P2P!Spec` maps `sent` to `msg["a"] - 1`, `inSend` to
`pc["a"] # "idle"`, and so on.

### Barriers: `VMBarrier`, `CollectiveBarrier`

`VMBarrier` is `VMK::barrier` and `threadbarrier` (5590-5632, 5724-5760): the
zero thread of a process flips with its threads one after another (`MasterFlip`,
`MasterFlipWait`), the masters meet in `MPI_Barrier` (`MPIBarrier`), then they
flop with their threads.  `CollectiveBarrier` says what that is for: `Leave`
requires that everybody who takes part has entered.

### Epochs: `VMEpoch`

`sendMap[s][r]` and `recvMap[r][s]` are the code's maps, with the fields of
`sendBuffer` and `recvBuffer`.  `EpochEnter` is `epochEnter` with
`epochSetFirst` and `clear(true)`; `Send` is the epoch branch of the nonblocking
send with `clear(false)` before the first message; `ThrottleWait` and `Post` are
the loop of `epochExit` per destination; `Probe`, `RecvBuffered`, `RecvChunk`
are the epoch branch of `recv`; `EpochFinal` is `epochFinal`.  MPI is external:
`network` is ordered per pair, and `pending` says that MPI still reads the
buffer of an `MPI_Isend`; `IsendCompletes` may happen early or never, and what
is freed or refilled while pending arrives as something else than was sent.
`program` is what the caller sends, as the number of messages of each pair up to
the end of each epoch.

### Threads of child PETs: `Vmkt`, `CatchRelease`

`Vmkt` models one spawning PET and its children with the mutexes and condition
variables of each `vmkt_t`: `vmkt_create`, `vmkt_release`, `vmkt_catch`,
`vmkt_join` (190-280) as `VMK::startup`, `enter`, `exit` and `shutdown` call
them, and the loop of `vmk_spawn` (1350-1450).  `pthread_cond_wait` is two steps
(release and wait; wake and lock), a signal without a waiter is lost.
The program that is called back may communicate with all children of a round,
and then none returns from it before all have started: the rounds in `Collective`
are of this sort, the others are not.  An error of `pthread_create`, after which
the child does not exist, is left out.
`CatchRelease` is the abstract life of a child: caught, released, ran, caught, …,
joined, with the arguments of its callbacks in order.  `Phase` maps the places
of the two threads to it.

### Contributing PETs: `Contributors`

On top of `Vmkt`, whose catch and release it takes as single steps: the handshake
of `VMK::enter`, the `kill` and `MPI_Send` of `enter_callback`, `vmk_sigcatcher`,
`vmk_block` and `VMK::exit` for one spawning PET, its children and any number of
contributors in any processes.  `pending[p]` counts the `VM_SIG1` pending for a
process, `mail[p]` the messages on their way to it.  `buffered` and `serialize`
are chosen at the start: whether `MPI_Send` returns before it is received, and
whether the MPI library makes `enter_callback` lock the mutex first.

The checks show what the `threadbarrier` at the end of `VMK::exit` (2759-2761)
is for: without it a contributor that is back early enters again, its new
sigcatcher takes the signal of a sibling in the same process, and the sibling
waits for ever (the mutant of `AllReturn`).

### Shared memory and mutexes: `IpShm`

`list` is the list of `ipshmAlloc` elements, `ipshmLocalTop[t]` the position of
a PET; `Allocate` is `ipshmallocate` (7486-7521), `Deallocate` is
`ipshmdeallocate` (7527-7562) with the look-up by address, `AllocateMutex`,
`InitMutex`, `DeallocateMutex` and `FreeMutex` are `ipmutexallocate` and
`ipmutexdeallocate` split where another PET can get in, `Destruct` is the
clean-up in `VMK::destruct`, which frees the memory of the elements `ToFree`.  `Malloc` may return any address that is free.  The
variables that only the properties read are `pointers[t]`, what each PET's calls
returned, `firsts[k]`, who was told to be the first, and `released[t]`.

### Communication queue: `CommQueue`, `RequestQueue`

`CommQueue` is the queue of one PET (`VMKernel.C` 3920-4310) with its memory:
the pointers `firsthandle`, `prev_handle`, `next_handle`, the count `nhandles`,
the commhandles that are allocated and what each holds (`content`: MPI requests,
sub-handles, or nothing that was ever set).  Each turn of a loop over the list
is a step (`LinkNext`, `UnlinkNext`, `WaitFirst`), so a list whose links are
wrong makes a search end early or never.  `Start` and `LinkLast` are a
nonblocking `send`, `recv` or `sendrecv`: `Message` leaves one request, several
(a large message in parts), a dummy (MPIUNI) or, in an epoch, an uninitialised
handle; `SendRecv` is a container with two sub-handles.  `Wait`, `WaitAll`,
`Test` and `Cancel` are `commwait`, `commqueuewait`, `commtest` and
`commcancel`; `UnlinkFound` deletes the handle and sets the program's pointer to
NULL, as the callers of `commqueueitem_unlink` do.  `New(_)` says which free
address `new` may return; the run takes one, always the same of those that are
free, which is what brings an old address back into the list.  Two
restrictions of the program are stated in the module head: handles of one epoch
are not used in the next, and `commtest` gets one request at a time.  Section 4
says what the code does otherwise.

`RequestQueue` is the abstract queue: calls in the order they were made, each
with its messages; a call leaves, from any position, only when MPI is done with
all of them.

### Clock and alarms: `Alarm`, `ClockAlarm`

`Alarm` holds the pure part, `Alarm::checkRingTime` and what it calls, as
operators from an alarm and a clock record to an alarm record: `CheckForward`,
`CheckReverse`, `CheckRepeat`, with `MovePast` for the loops that move the ring
time over the current time, `Adjusted` for the step back when the direction
changes, `RepeatHits` and `RepeatStops` for the loop over the ring times of a
repeating clock.  A loop becomes the set of the numbers of rounds after which it
can end (`RoundsPast`, `StickyRounds`, `Rounds`), taken from as many rounds as it
may need: a ring time that moves by at least 1 has passed the time by then, or
never will, and on a repeating clock the loop has gone round the period once.
`Endless` says that the set is empty.  `CASE`s here have exclusive guards and
follow the branches of the code.

`ClockAlarm` is the clock with its list of alarms: `Advance` is `Clock::advance`
with the check of every alarm in the order of the list, and the flag
`userChangedDirection` that the first alarm resets for all of them.  The loop
over the list is stated by what each turn of it meets: `Before` are the alarms
earlier in the list, `Untold` the alarms that find the flag reset by one of
them, `Seen` the clock as an alarm finds it, `Stuck` the alarms whose check does
not end, `Checked` those the loop comes to.
`SetDirection`, `GetNextTime`, `AlarmCreate`, `AlarmDestroy`, `TurnRingerOff`,
`TurnRingerOn`, `Enable`, `Disable`, `SetRingTime`, `SetSticky` are the calls of
the program.  `rang` remembers which alarms rang at each time going forward and
`touched` which alarms the program (or a shared flag, or a change of sign) has
taken off their schedule: the properties about the schedule leave them out.

The reference the properties compare with does not look at the alarm's own
`ringTime`: `Due` says from the first ring time and the interval alone whether a
step reaches or crosses a ring time.

### Component tunnels: `CompTunnel`, `RemoteCall`

`CompTunnel` models a dual component, whose methods the program calls, and the
actual component in another process that runs them in its service loop, over a
socket.  `SetServices`, `Connect`, `RecvHello`, `RecvProceed` and
`NegotiateTimeout` are the set-up; `Call` is `ESMF_CompExecute` (run, start,
destroy), `SendMethod` and `SendPhase` are `CompTunnel::execute`, `CompWait`,
`Waited` and `WaitTimeout` are `ESMF_CompWait` through `c_esmc_compwait` and
`CompTunnel::wait`, `WaitedFirst` and `WaitFirstTimeout` are the wait that comes
before `METHOD_NONE`; the actual side is `ServiceLoop` to `SendAnswer`.  Every
wait may end in a timeout as long as nothing has arrived, and the actual side
may stop at any step: there is no fairness for it.  A connection that is given
up keeps what was in it, as sockets are never closed.

`RemoteCall` is the promise to the caller: calls are asked one at a time,
performed at most once, answered after they were performed with their own
answer, or forgotten.

### Work queue: `WorkQueue`, `WorkPool`

`WorkQueue` follows `DELayout::construct` (607-629), `serviceOffer` (1755-1809),
`serviceComplete` (1842-1886) and the destructor, one step per lock, comparison,
increment and unlock.  `WorkPool` is the promise: the services of a DE are given
away one after another, each to one PET, windows exclude each other and in the
end all are served.  The mutexes are those of `IpShm`, whose `Agreement` and
`LiveWhileHeld` are what the work queue relies on.

### How the modules fit together

```
 WorkQueue ---- relies on ----> IpShm
 Contributors - takes catch and release of -> Vmkt
 Vmkt, Contributors - end in threadbarrier of -> VMBarrier
 VMBarrier, ShmChannel - share the flags of -> ShmSync
 CommQueue - holds what the nonblocking calls of an epoch leave -> VMEpoch
 ClockAlarm - checks each alarm by -> Alarm
 VMEpoch, CompTunnel - MPI and a socket only

 implements:  ShmChannel -> PointToPoint     VMBarrier -> CollectiveBarrier
              Vmkt -> CatchRelease           WorkQueue -> WorkPool
              CommQueue -> RequestQueue      CompTunnel -> RemoteCall
```

## 3. Runs, bounds and fairness

| run | instance | distinct states | what it shows |
|---|---|---|---|
| `shm_channel` | every program of 4 operations | 8 500 | the pointers of a large message are valid for both ends while they copy (`CopyValid`), the buffer has one owner (`BufferExclusive`), what `recv` returned is whole and right (`Delivery`), the channel implements `PointToPoint` including that both ends finish |
| `vm_barrier` | processes of 3 and 2 threads, every program of 3 barriers | 204 000 | nobody leaves a flag up (`FlagsReset`), the barrier implements `CollectiveBarrier`: nobody leaves before all have entered, everybody leaves |
| `epoch` | 1 sender and 1 receiver with 0 to 2 messages in each of 3 epochs, or 2 of each with a message per pair and epoch; throttle 1 | 553 000 | order and integrity (`DeliveredInOrder`), the waits of senders for one destination after another and of receivers for one source after another never close a cycle, and every awaited acknowledge comes (`Completion`) |
| `vmkt` | 3 children, up to 3 rounds, shutdown at any point | 2 600 | a signal always finds its waiter (`NoLostSignal`), a thread's identity is known when it is used (`IdentityKnown`), the threads implement `CatchRelease` |
| `contributors` | 2 children, 2 contributors, 1 process, 2 rounds, MPI buffered or not, serialised or not | 58 000 | signals match messages (`NoSignalMissed`), cores come back after user code (`CoresReturned`), everybody comes back (`AllReturn`) |
| `ipshm` | 1 or 2 PETs, every program of 3 allocations, freed in any order or never | 140 000 | PETs agree on what they share (`Agreement`), nothing is gone or uninitialised while held (`LiveWhileHeld`), the destructor frees no block twice or after a PET has (`FreedOnce`), all is freed in the end (`NothingLeaks`) |
| `comm_queue` | 4 addresses, 2 variables, 3 MPI requests, epochs | 672 000 | the list is the outstanding calls in order (`ListIsOrder`), no request or handle is lost or used after its deletion (`NothingLost`), it implements `RequestQueue`, every call returns (`CallsReturn`) |
| `work_queue` | 2 PETs, 2 DEs, 3 offers, both kinds of pinning | 75 000 | exclusive windows (`WindowExclusive`), one service per increment (`OneServicePerOffer`), and `WorkPool` with its promise that all are served |
| `clock_alarm` | 10 kinds of clock, 33 choices of one or two alarms, 5 steps | 833 000 | an alarm rings at its times and at no others (`RingsWhenDue`), at the same times on the way back (`RetracesInReverse`), what it says of the step ahead and the step behind is true (`QueriesAreTrue`), a call that does not return is in the loop of an alarm whose ring time cannot pass a time (`EndlessLoops`) |
| `comp_tunnel` | 4 calls, 3 connections, every wait timing out or not | 280 000 | the two sides stay in step (`InStep`), it implements `RemoteCall`, every call of the dual component returns (`CallsReturn`) |
| `epoch_dealloc`, `clock_returns` | as small as shows the case | | the findings of section 4 |

Every property of a passing run has a mutant, a plausible bug in one mapped
definition (a dropped wait, an off-by-one, a missing lock, a reset at the wrong
time, a forgotten back link), that violates it under the same configuration.

**Why the bounds are enough.**  *Channel*: the two ends are at most one
operation apart unless the sender has left a small message in the buffer, so
programs of four operations contain every kind of operation after every pair of
predecessors that can still be visible; the proofs remove the bound.
*Barrier*: two threads besides the master make it serve one while the other
runs ahead, the second process makes MPI matter, three barriers let a thread
be ahead of a stale flag from two barriers before; the proofs remove the bound.
*Epochs*: with throttle 1 the queue first exceeds the throttle in the exit of
the third epoch; zero messages leave an epoch without a post; two messages share
a buffer.  Two by two is the smallest cycle of waits.  *Threads*: three
children have a first, a middle and a last one in every loop; the second
round overwrites the argument of the first, and a third follows a round that
did; the proofs remove the bound.  *Contributors*: two contributors in one
process are needed for one to take the signal of the other, two rounds for a
stale sigcatcher.  *Shared memory*: three allocations let an address be reused
while the list still holds one or two elements with that address.  *Queue*: a
variable can be used again while its call is outstanding, so up to four handles
are linked, with one or two in the middle; with a sendrecv and its two
sub-handles there is room for one other handle; three requests make a message
of two parts next to a message of one.  Every address is reused.
*Work queue*: two PETs race for one increment and one may run two increments
ahead of the other (three offers); the second DE is not protected by the mutex
that construct holds; the proofs remove the bound.  *Clock*: five steps cover
the interval of every alarm of the run at least once, two changes of direction
go back and forward again, and one call by hand in between meets every state of
a ringing alarm; the kinds are chosen so that ring times fall on steps, between
steps, at the start time, and past the stop time, that rings last one step,
several, or a time, and that steps vary, stand still or change sign; every
repeating clock goes round.  *Tunnel*: the second
connection is the first with a stale answer in an older one, the third shows
that a stale cargo and a second reconnect meet; four calls let a run, a started
call that times out, its late answer and the call after it follow each other;
the proofs remove the bound.

Constants that only bound a run are named in their modules: `NMsgs`,
`NBarriers`, `NEpochs` and `Programs` (what is sent in each), `MaxRounds` of
`Vmkt` and `Contributors`, `NAllocs`, `NOffers`, `Addresses`, `Slots` and
`Requests`, `MaxCalls` and `MaxConnections`; in the clock `MaxAdvances`,
`MaxTurns`, `MaxCalls` and `RingTimes`.  The rounds of a loop over ring times
have no bound of their own: `Alarm` computes how many are enough.

**Deadlock** is checked in every run but those of `ClockAlarm`: each of the
other specifications has a `Finished` step that is enabled only when all actors
are done (in `IpShm` the clean-up, which changes nothing the second time; in
`CommQueue` and `CompTunnel` the program can always make another call), so a
state in which somebody waits for ever is reported.  In `ClockAlarm` the program
really stops: it advances the clock until the clock is done.

**Fairness** is weak fairness of each thread, as a thread: the operating system
schedules it, and a step it can take and goes on being able to take is taken.
No fairness is assumed of single branches, of user code (which calls enter,
exit, send and so on, but in an order the models leave open), of MPI's choice to
complete a send early, or of mutexes.  A spin loop is a wait: a thread that
spins is not enabled until its condition holds.  Four models need a remark.
`WorkQueue` has weak fairness although a mutex may be taken by others again and
again: each PET makes a bounded number of offers.  In `Contributors` sigcatchers
compete for signals; `NoSignalMissed` is the reason weak fairness is enough.
`CommQueue` is fair to the call that is going on and to the completion of each
MPI request, which says that the other PETs make the matching calls; it is not
fair to the program.  `CompTunnel` is fair to the dual side alone: its calls must
return because their waits time out, whatever the other process does.
`ClockAlarm` has no concurrency and needs none.

## 4. Findings and observations

Two findings are runs that TLC finds violated; the property states what a
comment or a document says.

* **`epochEnter(keepAlloc=.false.)` frees a buffer in flight** (`epoch_dealloc`).
  `sendBuffer::clear(true)` frees `charBuffer` (`VMKernel.C` 4677) whatever
  `MPI_Test` said.  The documentation (`VM/interface/ESMF_VM.F90` 4291) promises
  to deallocate "all internal buffers not actively used".
* **A repeating clock's alarm check may not end** (`clock_returns`).  The loop of
  `checkRingingDueToRepeatClockTimeStep` stops when the ring time has gone round
  the clock and is *greater* than the first (`Alarm.C` 1037), although the
  comment above says "wrapped and passed the original ringTime".  If `ringTime`
  is the last ring time of the period, the wrapped times never exceed it, and a
  step that passes none of them leaves `Clock::advance` in the loop for ever.

What follows was met while modelling, and no run shows it.  The models keep to what the
code does; these are the places where it is worth a second look, and where a precondition
in a module (section 2) comes from.

*Communication queue.*  `commtest` of a container deletes the sub-handles but
leaves the flag 0 and the container in the queue, with pointers to deleted
memory, against the comment at 3984-3988; of several requests it uses the last
flag only (4045).  Handles made in an epoch never have `type` set, which
`commtest` and `commcancel` (4293) read; a call started before an epoch and
waited for inside is not waited for; `commwait` in an epoch leaks the
sub-handles of a sendrecv.  A message of zero bytes allocates no request, and
`MPI_Isend` and `MPI_Irecv` write one there (5442, 4948).

*Epochs.*  The loop of `epochExit` (4434) waits while the queue of acknowledges is
*longer* than `epochThrottle`, and one message is posted after it: `epochThrottle + 1`
are outstanding, against "Maximum number of outstanding communication calls" between
any two PETs (`VM/interface/ESMF_VM.F90` 4295).  No property of a run says that the
documented bound holds, for it does not; the theorem `ThrottleBounds` says that the
code is off by one and by no more.  `epochSetFirst` (4580-4587) copies `ackQueue` and erases the
element that owns it while receives are posted into it, with
`keepAlloc=.false.`.  Padding a message beyond 2 GiB resizes a buffer that was
resized to zero (4471, 4511), which sets all of it to zero.

*Threads and signals.*  Every `pthread_cond_wait` of the catch and release loop
stands without a predicate, so a spurious return counts as a signal; the models
have none.  Where `SIGRTMIN` is missing (line 114) `SIGUSR1` and `SIGUSR2` do
not queue, against "this is so that no signals get missed!" (2571).
`ipmutexallocate` sets `lastFlag` back to the number of PETs each time (7581), so
a mutex that one PET deallocates before another allocates it is freed without
being destroyed.

*Clock and alarms.*  (1) An alarm that rings
once has no interval, and the loop after a change of direction (1538-1549) never ends
if its ring time is not after the previous time of the clock: create one with ring
time 2 after the direction was set at time 3.  `EndlessLoops` admits such alarms: it
shows that these loops end for all others.  (2) Nor does that of an
interval against the sign of the clock's step, where a step of zero counts as
forward (1482), or of a negative interval on a repeating clock, and an alarm that
is created right after that sign changed has its interval negated.  (3) `getNextTime`, and with it
`willRingNext`, counts the rounds of a repeating clock (`Clock.C` 1099) although
it only foretells.  (4) `ringingOnCurrTimeStep` is false while an alarm rings for
a second step (2311), and stays true on a repeating clock after `ringerOff`.
(5) `userChangedDirection` belongs to the clock, and the first alarm that is
checked resets it for all (1554, 1683).  (6) An alarm that is not sticky gets
stuck with a time step larger than its interval.  (7) An alarm that never rang
may ring in reverse (1707-1710).  (8) `Clock::set` on a repeating clock refuses
the reverse direction after it has taken it (391-400).  (9) `Alarm::set` joins
the list of a new clock before `this->clock` changes (422-426), and (10) returns
success after it has restored an invalid alarm (510-517).  (11) When
`Clock::advance` of a repeating clock refuses a step (626-632), nothing rings
although `willRingNext` may have said so.  (12) `checkTurnOn` (2306-2322) takes a clock whose
`advanceCount` has come back to 0, forward from before its start, for one that
was never advanced, so that a ring time it has just passed can ring again; both
are outside `StepForward`.  (13) An alarm with a `ringDuration` longer than some
step and shorter than another rings for one step or two, and
`ringingOnPrevTimeStep` follows only the first: hence `OneStep`.
(14) A clock in reverse without a stop time compares with one that was never set
(`Clock.C` 973-986); the model lets such a clock go on, and its runs include those that
would end earlier.

*Tunnels.*  `VMHop` overwrites the return code of the actual component, so its
ESMF errors are never passed back, against "pass the actual return codes back
through dual cargo".  When a send fails, `execute` (182-191) returns before it sets
`outstandingWaitFlag`, and the nested wait finds nothing to wait for and overwrites the
error with success; and if the method was sent and its phase was not, the actual side
takes the next method for the phase, so that `InStep` needs sends that succeed.  When the wait before `METHOD_NONE` times out and the one after it gets the
late answer of the earlier call, `ESMF_CompDestroy` succeeds although
`METHOD_NONE` was never sent (`WaitFirstTimeout`, then `Waited`; against the
comment at `Comp.F90` 944).  A new connection keeps the old `vm_cargo`; the
destructor does not close the socket; a send to a closed peer raises `SIGPIPE`.
In the tunnel inside a VM, `rootPet = petList[i*2]` should read `[i*2+1]`.

## 5. Proofs

TLAPS checks eight modules, for every value of the constants, from the named
assumptions only.  In each, one invariant (`IInv`, or `IpInv`, `WorkInv`,
`ClockInv`) is inductive: one lemma or step per action shows that it is kept, and
the theorems follow.

**`SharedMemoryProofs`** is about what the PETs of one process share: the channel
between two of them, the list of allocations, and the work queue that relies on
both mutexes and memory of that list.

*The channel* (`ShmChannel`, assumption `NMsgsAssumption`: `NMsgs` is a number):
programs of every length.  `CopyValid`, `BufferExclusive` and `Delivery` are not
inductive: whether a flip passes depends on a flag whose meaning depends on where
the other end is.  `IInv` adds

* `PcKind`: a PET stands at a label of the branch of its operation;
* `DoneFlags`: a flag is up exactly from its owner's flip to the peer's flop *of
  the same operation* — the statement that a stale flag does not exist;
* `Lag`: if one end is ahead, the operation it left is a small message still in
  the buffer, or the other end has only the return from its flop to do;
* `BufferFlag`, `Pointers`, `Copied`: what the buffer, the published pointers and
  the destinations hold.

Theorems: `Invariance`, `TypeCorrect`, `CopiesAreValid`, `BufferIsExclusive`,
`EveryMessageDelivered`, and `Refinement`: every step of the channel is a step of
`PointToPoint` or a stutter.

*Allocations and mutexes* (`IpShm`, assumption `IpShmAssumption`: at least one
PET): any number of PETs and allocations, deallocated in any order or never, and
any address from `malloc`.  The order of the calls is the only name of an
allocation, so the invariant must say that the shared list is that order, and
`auxCounter` says less than one would like: it is decremented by whoever
deallocates, not by a named PET.  While the VM runs, `IpInv` adds `Kept`:

* `Tops`, `Firsts`: `ipshmLocalTop` is the number of calls a PET has made, the
  k-th call of every PET returned the k-th element, and the PET that made the
  element was told to be the first;
* `Released`, `Counts`: `auxCounter` is the cardinality of the set of the PETs that
  have not deallocated the element, those that have not come to it included (a PET
  alone never counts);
* `Apart`, `Backed`: the address of an element that counts somebody belongs to no
  later element and is allocated for it, and nothing else is allocated.  `Apart`
  is why the search from the back of the list (lemma `FoundIs`) finds the
  element of the PET's own call although `malloc` has reused its address;
* `Setup`, `Alone`, `Initialised`: the PET between the halves of a mutex call has
  `ipSetupMutex`, nobody else has the mutex before it is initialised, and
  `lastFlag`, which every allocation sets anew, never falls below the number of
  PETs still to be counted, so that no mutex is destroyed early.

`Destructed` is what is left when the VM is gone.  Theorems: `IpInvariance`,
`IpTypeCorrect`, `AllocationsAgree` (`Agreement`), `HeldIsLive` (`LiveWhileHeld`)
`FreesAreOfAllocated` (`FreedOnce`, by `Apart` and `Backed`) and
`DestructorFreesAll`, the safety half of `NothingLeaks`.

*The work queue* (`WorkQueue`, assumption `WorkQueueAssumption`: at least one PET
and one DE, an owner for each DE, some value malloc leaves behind): any number of
PETs, DEs and offers.  `WorkInv` adds

* `Locks`: a mutex is held by the PET that stands between its lock and its
  unlock, and by nobody else;
* `SetUp`: until the counts are reset (`CountsReset`) nobody has made an offer,
  because the PET that resets them holds the mutex the others need to leave
  `construct`;
* `Counted`: the count is the number of increments given away, nobody has been
  answered for more, and between comparison and increment the count cannot move;
* `Entitled`: whoever is on its way to a window has been accepted.

Theorems: `WorkInvariance`, `WorkTypeCorrect`, `WindowsAreExclusive`,
`OneServicePerOfferIncrement`, and `WorkRefinement` of the steps of `WorkPool`.

**`ClockProofs`** (assumptions `ProgramsAssumption`: a time step that is not zero,
a `repeatDuration` that is not negative, times and intervals that are integers;
`NeverAssumption`): any clock, any alarms, any steps and any number of turns and
of calls by hand.  The flags of an alarm are set in four functions for three
kinds of clock, and the queries read them a step later.  The lemmas
`CheckForwardFacts`, `CheckReverseFacts` and `CheckRepeatFacts` say what each
branch of `Alarm::checkRingTime` leaves in an alarm; `ClockInv` is

* `TypeOK` and `Typed`: what the members hold, and that every alarm of the list
  is one that was created;
* `OneWay`: while one alarm is untouched, the steps of the clock have not changed
  sign, so no interval was negated;
* `AsCreated`: an untouched alarm is enabled and has what it was created with;
* `Steady`: a sticky alarm that rings rang at the last step too, and one that
  rings for one step has counted it;
* `Recorded`: `ringingOnCurrTimeStep` is the history of the step that brought the
  clock here, unless the direction was changed since;
* `Forth`: a clock that was never turned goes forward and knows of no turn;
* `Timely`: on such a clock the ring time of an untouched alarm is the first one
  and a number of intervals, and the first of these that the clock has not
  reached (`AtRound`).

Theorems: `ClockInvariance`, `ClockTypeCorrect`, and three properties.

*What an alarm says of itself.*  `QueriesHold`: at every step forward, of any
length and on clocks that repeat or not, `willRingNext` foretold whether an
untouched alarm begins to ring, and `wasPrevRinging` says whether it rang after
the step before, for alarms that are sticky or ring for one step.
`QueriesWithoutDurations` is `QueriesAreTrue` as it is checked, under the
hypothesis that no alarm that goes off by itself has a `ringDuration` (its
default); with one, whether it rang depends on `ringBegin`, which the turns of
the clock move by hand, and that part is model-checked.

*When it rings.*  `RingsUnlessTurned`: an untouched alarm whose interval is not
negative, and that is sticky or has room between its events (`Spaced`), rings
after a step that reaches or crosses one of its ring times, unless it has a
`stopTime`, and begins to ring at no other step, as long as its clock steps
forward, does not repeat and was never turned.
The code keeps one ring time and asks about that one alone; by `Timely` no other
ring time lies between it and the clock.  `RingsWhenDueUnturned` is
`RingsWhenDue` as it is checked, for programs of such clocks and alarms that
never turn them (`MaxTurns = 0`).

*That its calls return.*  `OnlyTheseAreEndless` is `EndlessLoops` for every value
of the constants, turned clocks, repeating clocks and alarms changed by hand
included: a call that does not return is in the loop of an alarm that
`CannotPass` describes.  The lemmas `PastReached`, `StickyReached` and
`RepeatReached` show of each loop that it ends if its interval goes the clock's
way: a ring time that moves by at least 1 per round passes the time, and on a
repeating clock it is past the one it began with after one period.  What they
need of an alarm is `Paced`, kept together with `ClockInv`: the clock takes the
program's steps, and an interval is the one the alarm was created with, unless a
step of the other sign turned it round, and divides the period of a clock that
repeats.

**`VMBarrierProofs`** (assumption `ConstantsAssumption`): any processes, any
number of threads in each, programs of any length.  A flag alone says little:
what matters is which barrier the two ends of a pair are in.  `IInv` adds

* `Inside`: only masters are in MPI, after their flips with all of their
  threads, and a master's loop is at a thread that exists;
* `Pairs`: for each thread of a process, the flags it shares with its master
  and the places of the two say that both are in the same barrier, or which of
  them is one ahead;
* `Met`: a master calls `MPI_Barrier` after its flips, and a master that is
  past it was met there by all the others.

Theorems: `Invariance`, `TypeCorrect`, `FlagsAreReset`, and `Refinement`: every
step is a step of `CollectiveBarrier` or a stutter, so nobody ever leaves before
everybody has entered.

**`VmktProofs`** (assumption `VmktAssumption`: at least one child): any number of
children and rounds.  `NoLostSignal` needs to know who holds which mutex while
nobody waits.  `IInv` is the type and, for each child, the conjunction of
`BackSyncs` (the two synchronisations of `vmkt_create`), `Rounds` (from release
to catch), `Waits` (which condition variable has which waiter), `Mutexes` (a
mutex is held by the parent exactly while it is not waiting in it, by the child
where it stands), `Flags`, `Arguments` (what the child was called with, and how
often) and `Identity`.  A step of a child leaves the conjunctions of the others
alone; a step of the parent may move `child` to the next one, which is where the
loops of enter, exit and shutdown are used.  Theorems: `Invariance`,
`SignalsFindTheirWaiter`, `IdentitiesAreKnown`, and `Refinement` of the steps of
`CatchRelease`.

**`CompTunnelProofs`** (assumption `BoundsAssumption`, both bounds any natural
numbers): the protocol of the tunnel for any number of calls and connections.
`InStep` speaks of what is in the connection; to keep it one must know what the
actual side, wherever it is or stopped, is about to put there.  `IInv` adds `Unused` (a connection that was not made is empty), `Places`, `Negotiation`
(the handshake that is going on), `Idle`, `HalfSent` (a method without its
phase), `Outstanding` (where the one call that is outstanding is: on its way,
being performed, answered) and `NoneNewer` (the actual side never has a call
that the dual side has not sent).  Theorems: `Invariance`, `TypeCorrect`,
`StaysInStep`, and `Refinement`, which is all of `Implements`: `RemoteCall` asks for no liveness.

**`CommQueueProofs`** (assumptions `NullAssumption`, `NewAssumption`): any number of
handles, variables and MPI requests, whatever free address `new` chooses.  The list is changed by
pointer surgery in several statements, handles are freed and their addresses used
again.  `IInv` has `ListIsOrder` and

* `Memory`: a linked handle is allocated and owns its sub-handles alone, and what is
  not allocated was never set or belongs to the handle that is being deleted;
* `Fresh`: the handle that is about to be linked is not in the list;
* `Variables`: a variable of the program holds a linked handle that no other one has;
* `Places`: the loop of unlink has not gone past the handle it looks for;
* `Requested`: a request that is active or complete belongs to one handle of the
  list, and those of the handle that is being unlinked are over;
* `Typed`: outside an epoch every linked handle knows what it holds.

`PrevAfter`, `NextAfter` and `FirstAfter` are shown to be the pointers of the
sequence without the handle (`OrderAfterUnlink`).  Theorems: `Invariance`,
`TypeCorrect`, `ListStaysInOrder`, `NothingIsLost`, and `Refinement`: linking is
the start of a call of `RequestQueue`, unlinking its finish, everything else a
stutter or the completion of messages.  `RequestQueue` asks for no liveness, so
this is all of `Implements`.

**`VMEpochProofs`** (assumptions `ConstantsAssumption`, `ProgramsAssumption`): any number of senders,
receivers and epochs, any programs and any throttle.  The invariant has two parts.
`Basic` is the type, where a PET stands, the probed message and the bound of the
throttle; it is inductive alone, whatever is freed, kept or padded, and gives
`TypeCorrect` and `ThrottleBounds`: at most one message more than the throttle is
outstanding for any pair of PETs.  `Streams` says of each pair of PETs

* `Sending`: the sender's buffer continues what it has posted, and how much it has
  sent and posted follows from its place in the epoch;
* `Chained`: the MPI messages under way are, in order, what was posted and not
  fetched, and each is what one epoch sends;
* `Receiving`: what was delivered, and what the `recvBuffer` still holds of the
  epoch the receiver is in.

`StreamsDeliver` is `DeliveredInOrder`, under the hypotheses that buffers are kept
(`KeepAlloc \subseteq {TRUE}`, the default of `keepAlloc`) and that no message is
large enough to be padded (`Padding \subseteq {FALSE}`).  They are needed: without
them MPI sends what nobody appended, as `epoch_dealloc` shows.

**`ContributorsProofs`** (assumption `ContributorsAssumption`): any number of
children, contributors and rounds, in any processes.  What happens once per round
is counted for each contributor: it has entered, has released its sigcatcher
(`Watched`), has sent its handshake (`Told`), was heard (`Heard`), its child was
released (`Released`) and has returned from user code, has signalled it
(`Signalled`), has sent it a message (`Mailed`), its blocker was woken (`Woken`).
`Counted` says that none of these is ahead of the one before it and what is under
way between two of them; as the last is at most one behind the first, nothing of
an earlier round can be met (lemma `Ahead`).  That part, `Flow`, is inductive
whatever the signals do and gives `CoresComeBack`.  `Matched` counts, per process,
the sigcatchers that wait against the pending signals and the contributors still
to be signalled; it needs `Queued` and gives `SignalsAreCaught`.

The proofs of the other refinements show the safety half of `Implements`, the
initial states and the steps; the fairness half is model-checked.

## 6. Only model-checked, and not modelled

*Only model-checked.*  Liveness (`Completion`, `AllReturn`, `NothingLeaks`,
`CallsReturn`, the fairness part of every `Implements` and of `WorkImplements`):
the prover has no rules for fairness and `ENABLED`; the safety half of
`NothingLeaks` is proved.  Of the clock: `RingsWhenDue` of a clock that was
turned, that repeats or that steps backwards, and of an alarm with a negative
interval; `RetracesInReverse`, which relates a step back to the history of all
the steps forward, while the ring time and the counts of the alarm are moved by
hand at each turn; and what `wasPrevRinging` says of an alarm with a
`ringDuration`.

*Assumed.*  Memory is sequentially consistent and a copy is one step: the flags
are `volatile` integers without fences, and what a weaker memory may do with
them is outside the models.  MPI keeps its guarantees, a socket delivers in
order what it delivers, and a send into it succeeds.  `pthread_create` succeeds.  The PETs of a VM call the same collective operations in
the same order.  The caller of an epoch does not let a PET send and receive in
the same epoch, as `VM_options.tex` demands.

*Not modelled, and why.*  Builds without Pthreads, without MPI or with another
channel type.  The MPI channel: a call.  Collectives: loops over send and recv
in a fixed order.  Resource plans and identifiers: sequential tables.  The table
of contexts (`ESMCI_VM.C`): threads fill it under one mutex, and the objects it
holds are Fortran's.  The tunnel inside one VM: its several PETs exchange by
`VMK::send` in a pattern computed from two PET lists.  In the clock: moving an
alarm to another clock, the other arguments of `Clock::set` and `Alarm::set`, and
the arithmetic of times, which are integers here.  The numeric classes,
attributes, files and the layers above the library: no interleaving, and their
correctness is in arithmetic and data that TLC cannot enumerate; they are the
great majority of the lines.  Vendored code.

## 7. Plan

Done: the channel, barriers, epochs, child threads, contributors, shared memory,
communication queue, work queue, clock and alarms, tunnels; proofs about all of
them.

What would come next, in the order of what matters to the system:

1. Other channels behind `PointToPoint`: the Pthread channel, the double buffer
   of the POSIX IPC channel (4830-4855, 5233-5258), the ring of 16 of MPIUNI
   (4856-4875, whose overflow is not checked); `sendrecv` (5634-5720) and the
   collectives on top.
2. `Contributors` with two components entered at the same time, whose
   sigcatchers share the signals of a process.  `IpShm` with children that are
   constructed late (`ipshmLocalTop = *ipshmTop`, line 1054).
3. `ESMCI_VM.C` 846-1230, 2139, 2781: slots of the match table and the garbage
   collection list under several threads, composed with `Vmkt`.
4. The exchange streams of the DELayout on top of `CommQueue`, and the tunnel
   inside one VM.
