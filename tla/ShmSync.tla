------------------------------ MODULE ShmSync ------------------------------
(***************************************************************************)
(* The spin-lock synchronisation of two PETs that share memory: the        *)
(* structure shmsync (ESMCI_VMKernel.h) and the sync_* functions of        *)
(* ESMCI_VMKernel.C, as operators on the value of one shmsync.             *)
(*                                                                         *)
(* The sync_a_* functions are called by the sending end of a channel and   *)
(* the sync_b_* functions, which swap the roles of a_done and b_done, by   *)
(* the receiving end.  A call is a store followed by a spin loop, and each *)
(* of the two is a step of its own in the modules that use this one.       *)
(***************************************************************************)
EXTENDS Naturals

\* The two ends of a channel: "a" sends, "b" receives.
Ends == {"a", "b"}

\* SYNC_NBUFFERS flags, one per buffer of the channel.
Buffers == {0, 1}

Peer(end) == IF end = "a" THEN "b" ELSE "a"

\* The values of a shmsync: done["a"] is a_done and done["b"] is b_done.
ShmSyncs == [done : [Ends -> {0, 1}], buffer_done : [Buffers -> {0, 1}]]

\* sync_reset
SyncReset == [done |-> [e \in Ends |-> 0], buffer_done |-> [i \in Buffers |-> 0]]

-----------------------------------------------------------------------------
\* Mutants of the operators below.
FlipNoWait(s, end) == TRUE
FlopNoReset(s, end) == s
FlopNoWait(s, end) == TRUE
EmptiedNoWait(s, i) == TRUE

\* sync_a_flip and sync_b_flip: announce the caller, then spin for the peer.
FlipStore(s, end) == [s EXCEPT !.done[end] = 1]
FlipPassed(s, end) == s.done[Peer(end)] # 0

\* sync_a_flop and sync_b_flop: take back the peer's announcement, then spin
\* until the peer has taken back the caller's.
FlopStore(s, end) == [s EXCEPT !.done[Peer(end)] = 0]
FlopPassed(s, end) == s.done[end] # 1

\* sync_buffer_flag_* and sync_buffer_wait_*
FlagFill(s, i) == [s EXCEPT !.buffer_done[i] = 1]
FlagEmpty(s, i) == [s EXCEPT !.buffer_done[i] = 0]
Filled(s, i) == s.buffer_done[i] # 0
Emptied(s, i) == s.buffer_done[i] # 1
=============================================================================
