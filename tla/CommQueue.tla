----------------------------- MODULE CommQueue -----------------------------
(* The queue of nonblocking communication of a PET (ESMCI_VMKernel.C): send,  *)
(* recv and sendrecv make a commhandle and link it; commwait, commtest,       *)
(* commqueuewait and commcancel work on it.  The queue is a doubly linked     *)
(* list of handles in memory; a handle holds MPI requests, or other handles   *)
(* that are not linked themselves.  Each turn of a loop over the list is a    *)
(* step.  The program is one that keeps to what the code can do: commhandles  *)
(* of one epoch are not used in the next (EpochTurn), and commtest gets one   *)
(* request at a time (Testable).                                              *)
EXTENDS Integers, Sequences, FiniteSets, Functions

CONSTANTS
    Addresses,   \* the addresses of commhandles
    New(_),      \* the addresses that new may return when these are free
    Slots,       \* the variables in which the program keeps commhandles
    Requests,    \* the MPI requests there can be at a time
    NULL

ASSUME NullAssumption == NULL \notin Addresses /\ NULL \notin Slots
ASSUME NewAssumption == \A free \in SUBSET Addresses : New(free) \subseteq free

VARIABLES
    epoch,        \* is the epoch epochBuffer?
    firsthandle,
    nhandles,
    prev_handle,
    next_handle,
    allocated,    \* the commhandles there are
    content,      \* the rest of each: its type, MPI requests and sub-handles
    request,      \* MPI requests: "null", "active" or "complete"
    commh,        \* the program's variables, NULL when their call is over
    pc,           \* "user", "link", "wait", "unlink" or "all" (commqueuewait)
    handle,       \* the loop variable of link and unlink
    ch,           \* the commhandle the call is about
    slot,         \* the variable it was passed in, NULL in commqueuewait
    remaining,    \* the turns that commqueuewait has left
    order         \* history: the linked commhandles, in order

list == <<firsthandle, nhandles, prev_handle, next_handle, order>>
memory == <<allocated, content, request>>
program == <<epoch, commh>>
call == <<pc, handle, ch, slot, remaining>>
vars == <<list, memory, program, call>>

Leaf(requests) == [type |-> "requests", mpireq |-> requests, handles |-> {}]
Dummy == [type |-> "dummy", mpireq |-> {}, handles |-> {}]
Garbage == [type |-> "unset", mpireq |-> {}, handles |-> {}]
Container(handles) == [type |-> "handles", mpireq |-> {}, handles |-> handles]

SubHandles(h) == content[h].handles
\* The MPI requests of a commhandle and of those in it.
RequestsOf(h) == UNION {content[g].mpireq : g \in {h} \cup SubHandles(h)}

Init ==
    /\ epoch = FALSE
    /\ firsthandle = NULL
    /\ nhandles = 0
    /\ prev_handle = [h \in Addresses |-> NULL]
    /\ next_handle = [h \in Addresses |-> NULL]
    /\ allocated = {}
    /\ content = [h \in Addresses |-> Garbage]
    /\ request = [r \in Requests |-> "null"]
    /\ commh = [s \in Slots |-> NULL]
    /\ pc = "user"
    /\ handle = NULL
    /\ ch = NULL
    /\ slot = NULL
    /\ remaining = 0
    /\ order = << >>

-----------------------------------------------------------------------------
\* A nonblocking call: *ch is NULL, so a new commhandle is linked.
Start(s, h) ==
    /\ pc = "user"
    /\ allocated' = allocated \cup {h}
    /\ commh' = [commh EXCEPT ![s] = h]
    /\ pc' = "link"
    /\ handle' = firsthandle
    /\ ch' = h
    /\ slot' = s
    /\ UNCHANGED <<list, content, request, epoch, remaining>>

LinkNext ==
    /\ pc = "link"
    /\ nhandles # 0
    /\ next_handle[handle] # NULL
    /\ handle' = next_handle[handle]
    /\ UNCHANGED <<list, memory, program, pc, ch, slot, remaining>>

\* commqueueitem_link, at the end of the list.
Linked ==
    /\ IF nhandles = 0
       THEN /\ firsthandle' = ch
            /\ prev_handle' = [prev_handle EXCEPT ![ch] = NULL]
            /\ next_handle' = [next_handle EXCEPT ![ch] = NULL]
       ELSE /\ prev_handle' = [prev_handle EXCEPT ![ch] = handle]
            /\ next_handle' = [next_handle EXCEPT ![handle] = ch, ![ch] = NULL]
            /\ UNCHANGED firsthandle
    /\ nhandles' = nhandles + 1
    /\ order' = Append(order, ch)

\* MPI_Isend or MPI_Irecv.
Posted(requests) ==
    /\ \A r \in requests : request[r] = "null"
    /\ request' = [r \in Requests |->
                      IF r \in requests THEN "active" ELSE request[r]]

\* A message to or from a PET: one MPI request, or one for each part of a large
\* message.  In an epoch there is no request and not even type is set; on the
\* MPIUNI channel the message is done with at once.
Message ==
    /\ UNCHANGED allocated
    /\ IF epoch THEN UNCHANGED <<content, request>>
       ELSE \/ /\ content' = [content EXCEPT ![ch] = Dummy]
               /\ UNCHANGED request
            \/ \E r, part \in Requests :
                  /\ content' = [content EXCEPT ![ch] = Leaf({r, part})]
                  /\ Posted({r, part})

\* sendrecv: a container of a commhandle for the send and one for the recv.
SendRecv ==
    \E sub \in New(Addresses \ allocated) :
    \E other \in New(Addresses \ (allocated \cup {sub})) :
        /\ allocated' = allocated \cup {sub, other}
        /\ IF epoch
           THEN /\ content' = [content EXCEPT ![ch] = Container({sub, other})]
                /\ UNCHANGED request
           ELSE \E r, q \in Requests :
                   /\ r # q
                   /\ content' = [content EXCEPT ![ch] = Container({sub, other}),
                                      ![sub] = Leaf({r}), ![other] = Leaf({q})]
                   /\ Posted({r, q})

LinkLast ==
    /\ pc = "link"
    /\ nhandles # 0 => next_handle[handle] = NULL
    /\ Linked
    /\ Message \/ SendRecv
    /\ pc' = "user"
    /\ handle' = NULL
    /\ ch' = NULL
    /\ slot' = NULL
    /\ UNCHANGED <<program, remaining>>

-----------------------------------------------------------------------------
\* commwait takes NULL too.
Wait(s) ==
    /\ pc = "user"
    /\ pc' = "wait"
    /\ ch' = commh[s]
    /\ slot' = s
    /\ UNCHANGED <<list, memory, program, handle, remaining>>

\* commqueuewait: as many commwaits of firsthandle as there are handles; the
\* program's commhandles are gone.
WaitAll ==
    /\ pc = "user"
    /\ pc' = "all"
    /\ remaining' = nhandles
    /\ commh' = [s \in Slots |-> NULL]
    /\ UNCHANGED <<list, memory, epoch, handle, ch, slot>>

WaitFirst ==
    /\ pc = "all"
    /\ remaining > 0
    /\ pc' = "wait"
    /\ ch' = firsthandle
    /\ remaining' = remaining - 1
    /\ UNCHANGED <<list, memory, program, handle, slot>>

WaitedAll ==
    /\ pc = "all"
    /\ remaining = 0
    /\ pc' = "user"
    /\ UNCHANGED <<list, memory, program, handle, ch, slot, remaining>>

Unlink(h) ==
    /\ pc' = "unlink"
    /\ handle' = firsthandle
    /\ ch' = h

\* commwait of NULL, or of any commhandle in an epoch, waits for nothing.
Skipped == ch = NULL \/ epoch

\* Mutant of Pending: one of the requests only.
PendingOne(h) ==
    IF RequestsOf(h) = {} THEN {} ELSE {CHOOSE r \in RequestsOf(h) : TRUE}

\* What commwait calls MPI_Wait for.
Pending(h) == RequestsOf(h)

\* commwait has waited for all that is in *ch, and deletes it; the search for
\* a sub-handle in the list finds nothing.
Waited ==
    /\ pc = "wait"
    /\ \/ Skipped /\ UNCHANGED memory
       \/ /\ ~ Skipped
          /\ \A r \in Pending(ch) : request[r] = "complete"
          /\ request' = [r \in Requests |->
                IF r \in Pending(ch) THEN "null" ELSE request[r]]
          /\ allocated' = allocated \ SubHandles(ch)
          /\ UNCHANGED content
    /\ Unlink(ch)
    /\ UNCHANGED <<list, program, slot, remaining>>

\* The calls of commtest that the code gets right: see the README for the rest.
Testable(s) ==
    /\ commh[s] # NULL
    /\ ~ epoch
    /\ content[commh[s]].type # "handles"
    /\ Cardinality(content[commh[s]].mpireq) <= 1

Test(s) ==
    /\ pc = "user"
    /\ Testable(s)
    /\ \A r \in RequestsOf(commh[s]) : request[r] = "complete"
    /\ request' = [r \in Requests |->
          IF r \in RequestsOf(commh[s]) THEN "null" ELSE request[r]]
    /\ Unlink(commh[s])
    /\ slot' = s
    /\ UNCHANGED <<list, allocated, content, program, remaining>>

\* commcancel: a cancelled request completes.
Cancel(s) ==
    /\ pc = "user"
    /\ commh[s] # NULL
    /\ ~ epoch
    /\ request' = [r \in Requests |->
          IF r \in RequestsOf(commh[s]) /\ request[r] = "active" THEN "complete"
          ELSE request[r]]
    /\ UNCHANGED <<list, allocated, content, program, call>>

-----------------------------------------------------------------------------
\* commqueueitem_unlink: the search, and what it does when it has found *ch.
UnlinkNext ==
    /\ pc = "unlink"
    /\ nhandles >= 1
    /\ next_handle[handle] # NULL
    /\ handle # ch
    /\ handle' = next_handle[handle]
    /\ UNCHANGED <<list, memory, program, pc, ch, slot, remaining>>

\* Mutants of the operators below.
KeepFirst(h) == firsthandle
NoBackLink(h) == prev_handle

OneLess(found) == nhandles - 1

HandlesLeft(found) == IF found THEN nhandles - 1 ELSE nhandles
FirstAfter(h) == IF prev_handle[h] = NULL THEN next_handle[h] ELSE firsthandle
NextAfter(h) ==
    IF prev_handle[h] = NULL THEN next_handle
    ELSE [next_handle EXCEPT ![prev_handle[h]] = next_handle[h]]
PrevAfter(h) ==
    IF next_handle[h] = NULL THEN prev_handle
    ELSE [prev_handle EXCEPT ![next_handle[h]] = prev_handle[h]]

\* The call returns; the variable is NULL if the commhandle was deleted.
Return ==
    /\ pc' = IF slot = NULL THEN "all" ELSE "user"
    /\ handle' = NULL
    /\ ch' = NULL
    /\ slot' = NULL
    /\ UNCHANGED remaining

UnlinkFound ==
    /\ pc = "unlink"
    /\ nhandles >= 1
    /\ handle = ch
    /\ nhandles' = HandlesLeft(TRUE)
    /\ firsthandle' = FirstAfter(ch)
    /\ next_handle' = [NextAfter(ch) EXCEPT ![ch] = NULL]
    /\ prev_handle' = [PrevAfter(ch) EXCEPT ![ch] = NULL]
    /\ order' = [i \in 1 .. Len(order) - 1 |->
                    IF \E j \in 1 .. i : order[j] = ch THEN order[i + 1] ELSE order[i]]
    /\ allocated' = allocated \ {ch}
    /\ content' = [h \in Addresses |-> IF h \in {ch} \cup SubHandles(ch)
                                       THEN Garbage ELSE content[h]]
    /\ commh' = IF slot = NULL THEN commh ELSE [commh EXCEPT ![slot] = NULL]
    /\ Return
    /\ UNCHANGED <<request, epoch>>

UnlinkMissed ==
    /\ pc = "unlink"
    /\ nhandles >= 1 => next_handle[handle] = NULL /\ handle # ch
    /\ nhandles' = HandlesLeft(FALSE)
    /\ Return
    /\ UNCHANGED <<firsthandle, prev_handle, next_handle, order, memory, epoch,
                   commh>>

-----------------------------------------------------------------------------
\* MPI completes a request.
Completes(r) ==
    /\ request[r] = "active"
    /\ request' = [request EXCEPT ![r] = "complete"]
    /\ UNCHANGED <<list, allocated, content, program, call>>

\* epochEnter and epochExit.
EpochTurn ==
    /\ pc = "user"
    /\ nhandles = 0
    /\ epoch' = ~ epoch
    /\ UNCHANGED <<list, memory, commh, call>>

Calls == \/ \E s \in Slots : Wait(s) \/ Test(s) \/ Cancel(s)
         \/ \E s \in Slots, h \in New(Addresses \ allocated) : Start(s, h)
         \/ WaitAll
         \/ EpochTurn

\* The steps of a call that was made.
Proceeds ==
    \/ LinkNext
    \/ LinkLast
    \/ WaitFirst
    \/ WaitedAll
    \/ Waited
    \/ UnlinkNext
    \/ UnlinkFound
    \/ UnlinkMissed

Next == Calls \/ Proceeds \/ \E r \in Requests : Completes(r)

\* The PET runs, and the other PETs make the calls that match.
Fairness == WF_vars(Proceeds) /\ \A r \in Requests : WF_vars(Completes(r))

Spec == Init /\ [][Next]_vars /\ Fairness

-----------------------------------------------------------------------------
Handles == Addresses \cup {NULL}
ContentOf == [type : {"requests", "dummy", "unset", "handles"},
              mpireq : SUBSET Requests, handles : SUBSET Addresses]

\* Every variable has its type.
TypeOK ==
    /\ epoch \in BOOLEAN
    /\ firsthandle \in Handles
    /\ nhandles \in Nat
    /\ prev_handle \in [Addresses -> Handles]
    /\ next_handle \in [Addresses -> Handles]
    /\ allocated \subseteq Addresses
    /\ content \in [Addresses -> ContentOf]
    /\ request \in [Requests -> {"null", "active", "complete"}]
    /\ commh \in [Slots -> Handles]
    /\ pc \in {"user", "link", "wait", "unlink", "all"}
    /\ handle \in Handles
    /\ ch \in Handles
    /\ slot \in Slots \cup {NULL}
    /\ remaining \in Nat
    /\ order \in Seq(Addresses)

\* The pointers are a doubly linked list of the handles in the order in which
\* the calls were made, without a handle twice, and nhandles is its length:
\* whatever was unlinked from wherever (commqueueitem_link, _unlink).
ListIsOrder ==
    /\ IsInjective(order)
    /\ nhandles = Len(order)
    /\ firsthandle = IF order = << >> THEN NULL ELSE order[1]
    /\ \A i \in DOMAIN order :
          /\ next_handle[order[i]] = IF i = Len(order) THEN NULL ELSE order[i + 1]
          /\ prev_handle[order[i]] = IF i = 1 THEN NULL ELSE order[i - 1]

\* The handles whose content no one has deleted yet.
Intact == {order[i] : i \in DOMAIN order} \ (IF pc = "unlink" THEN {ch} ELSE {})

\* Nothing is lost and nothing is used after it is deleted: each MPI request
\* that was not waited for is in one handle of the queue, and outside an epoch
\* each handle of the queue, and each in it, is allocated and has its type set
\* (what commwait and commqueuewait read).
NothingLost ==
    /\ \A r \in Requests : request[r] # "null" =>
          Cardinality({h \in Intact : r \in RequestsOf(h)}) = 1
    /\ epoch \/ \A h \in Intact : \A g \in {h} \cup SubHandles(h) :
          g \in allocated /\ content[g].type # "unset"

\* A call is over only when MPI is done with all of its messages, and leaves
\* the other calls outstanding in their order.
Queue == INSTANCE RequestQueue WITH
    calls <- [i \in DOMAIN order |-> RequestsOf(order[i])],
    active <- {r \in Requests : request[r] = "active"}
Implements == Queue!Spec

\* Every call on the queue returns: the search through the list ends and
\* commqueuewait finds a handle for each of its turns.
CallsReturn == (pc # "user") ~> (pc = "user")
=============================================================================
