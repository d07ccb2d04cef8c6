--------------------------- MODULE CommQueueProofs ---------------------------
(***************************************************************************)
(* Proofs about CommQueue for any addresses, variables, requests and       *)
(* allocator: the inductive invariant, that the list is the sequence of    *)
(* the outstanding calls, that nothing is lost, and the refinement of      *)
(* RequestQueue.                                                           *)
(***************************************************************************)
EXTENDS CommQueue, FiniteSetTheorems, TLAPS

\* Is h linked, and is it the commhandle that is being unlinked?
InList(h) == \E i \in DOMAIN order : order[i] = h
Leaving(h) == pc = "unlink" /\ h = ch

\* The memory: linked handles and their sub-handles are allocated and belong to
\* one call only, and the rest has never been set.
Memory ==
    /\ \A h \in Addresses : InList(h) =>
          /\ h \in allocated
          /\ \A g \in SubHandles(h) : ~ InList(g) /\ (g \in allocated \/ Leaving(h))
    /\ \A h, k \in Addresses : \A g \in SubHandles(h) :
          InList(h) /\ InList(k) /\ g \in SubHandles(k) => h = k
    /\ \A h \in Addresses \ allocated :
          \/ content[h] = Garbage
          \/ \E k \in Addresses : Leaving(k) /\ InList(k) /\ h \in SubHandles(k)

\* The commhandle of a call that has just started.
Fresh ==
    pc = "link" =>
        /\ ch \in allocated
        /\ ~ InList(ch)
        /\ content[ch] = Garbage
        /\ \A h \in Addresses : InList(h) => ch \notin SubHandles(h)

\* The program's variables: each holds NULL or a call of its own.
Variables ==
    /\ \A s \in Slots : commh[s] # NULL =>
          InList(commh[s]) \/ (pc = "link" /\ s = slot /\ commh[s] = ch)
    /\ \A s, t \in Slots : commh[s] = commh[t] /\ commh[s] # NULL => s = t
    /\ pc = "link" => slot \in Slots /\ commh[slot] = ch
    /\ pc \in {"wait", "unlink"} =>
          /\ ch = NULL \/ InList(ch)
          /\ IF slot = NULL THEN \A s \in Slots : commh[s] = NULL ELSE commh[slot] = ch
    /\ pc \in {"user", "all"} => slot = NULL
    /\ pc = "all" => \A s \in Slots : commh[s] = NULL

\* Where the loops over the list are.
Places ==
    /\ pc \in {"link", "unlink"} /\ order # << >> => InList(handle)
    /\ pc = "unlink" =>
          \A i, j \in DOMAIN order : order[i] = handle /\ order[j] = ch => i <= j

\* The MPI requests of the linked handles are the outstanding ones, each in one
\* of them, and those of the handle that is being unlinked are over.
Requested ==
    /\ \A h \in Addresses : InList(h) =>
          \A r \in RequestsOf(h) : request[r] = "null" <=> Leaving(h)
    /\ \A r \in Requests : request[r] # "null" =>
          \E h \in Addresses : InList(h) /\ r \in RequestsOf(h)
    /\ \A h, k \in Addresses : \A r \in RequestsOf(h) :
          InList(h) /\ InList(k) /\ r \in RequestsOf(k) => h = k
    /\ epoch => \A h \in Addresses : InList(h) => RequestsOf(h) = {}

\* Outside an epoch every linked handle knows what it holds.
Typed ==
    ~ epoch => \A h \in Addresses : InList(h) =>
        \A g \in {h} \cup SubHandles(h) : content[g].type # "unset"

\* The inductive invariant.
IInv ==
    TypeOK /\ ListIsOrder /\ Memory /\ Fresh /\ Variables /\ Places /\ Requested /\ Typed

-----------------------------------------------------------------------------
\* What the loops find in the list.
LEMMA ListFacts ==
  ASSUME IInv
  PROVE  /\ \A h : InList(h) => h \in Addresses /\ h # NULL
         /\ nhandles = 0 <=> order = << >>
         /\ order = << >> => firsthandle = NULL
         /\ order # << >> => InList(firsthandle)
         /\ \A i \in DOMAIN order : order[i] = firsthandle => i = 1
         /\ \A i \in DOMAIN order :
               /\ next_handle[order[i]] # NULL =>
                    i + 1 \in DOMAIN order /\ next_handle[order[i]] = order[i + 1]
               /\ next_handle[order[i]] = NULL => i = Len(order)
         /\ \A i, j \in DOMAIN order : order[i] = order[j] => i = j
         /\ \A i \in DOMAIN order : i \in Nat /\ 1 <= i /\ i <= Len(order)
         /\ \A h : ~ InList(h) /\ InList(handle) => handle # h
<1> USE NullAssumption
<1>0. TypeOK /\ ListIsOrder /\ order \in Seq(Addresses) /\ Len(order) \in Nat
      /\ DOMAIN order = 1 .. Len(order)
  BY DEF IInv, TypeOK
<1>1. \A i \in DOMAIN order : order[i] \in Addresses /\ order[i] # NULL
  BY <1>0
<1>4. \A i, j \in DOMAIN order : order[i] = order[j] => i = j
  BY <1>0 DEF ListIsOrder, IsInjective
<1>5. /\ nhandles = 0 <=> order = << >>
      /\ order = << >> => firsthandle = NULL
      /\ order # << >> => firsthandle = order[1]
  BY <1>0 DEF ListIsOrder
<1>6. \A i \in DOMAIN order :
         /\ next_handle[order[i]] # NULL =>
              i + 1 \in DOMAIN order /\ next_handle[order[i]] = order[i + 1]
         /\ next_handle[order[i]] = NULL => i = Len(order)
  BY <1>0 DEF ListIsOrder
<1>7. order # << >> => InList(firsthandle)
  BY <1>5 DEF InList
<1>9. \A h : InList(h) => h \in Addresses /\ h # NULL
  BY <1>1 DEF InList
<1> QED
  BY <1>4, <1>5, <1>6, <1>7, <1>9

\* What a commhandle holds.
LEMMA ContentFacts ==
  ASSUME TypeOK, NEW h \in Addresses
  PROVE  SubHandles(h) \subseteq Addresses /\ RequestsOf(h) \subseteq Requests
<1>1. content[h] \in ContentOf /\ \A g \in Addresses : content[g] \in ContentOf
  BY DEF TypeOK
<1>2. SubHandles(h) \subseteq Addresses
  BY <1>1 DEF ContentOf, SubHandles
<1>3. \A g \in {h} \cup SubHandles(h) : content[g].mpireq \subseteq Requests
  BY <1>1, <1>2 DEF ContentOf
<1>4. RequestsOf(h) \subseteq Requests
  BY <1>3 DEF RequestsOf
<1> QED
  BY <1>2, <1>4

\* A nonblocking call takes a free address for its commhandle.
LEMMA StartKeeps ==
  ASSUME IInv, NEW s \in Slots, NEW h \in New(Addresses \ allocated), Start(s, h)
  PROVE  IInv'
<1> USE NullAssumption
<1>0. /\ TypeOK /\ ListIsOrder /\ Memory /\ Fresh /\ Variables /\ Places
      /\ Requested /\ Typed
      /\ order \in Seq(Addresses) /\ Len(order) \in Nat /\ DOMAIN order = 1 .. Len(order)
  BY DEF IInv, TypeOK
<1>s. \A g : /\ InList(g)' = InList(g)
             /\ SubHandles(g)' = SubHandles(g)
             /\ RequestsOf(g)' = RequestsOf(g)
  BY DEF InList, SubHandles, RequestsOf, Start, list, memory, program, call
<1>n. h \in Addresses \ allocated
  BY NewAssumption
<1>1. TypeOK'
  BY <1>0, <1>n DEF TypeOK, Handles, Start, list, memory, program, call
<1>2. ListIsOrder'
  BY <1>0 DEF ListIsOrder, Start, list, memory, program, call
<1>3. Memory'
  BY <1>0, <1>s DEF Memory, Leaving, Start
<1>4. Fresh'
  BY <1>0, <1>s, <1>n DEF Fresh, Memory, Start, Leaving
<1>5. Variables'
  BY <1>0, <1>s, <1>n DEF Variables, Memory, TypeOK, Start
<1>6. Places'
  BY <1>0 DEF Places, InList, ListIsOrder, Start, list
<1>7. Requested'
  BY <1>0, <1>s DEF Requested, Leaving, Start
<1>8. Typed'
  BY <1>0, <1>s DEF Typed, Start
<1> QED
  BY <1>1, <1>2, <1>3, <1>4, <1>5, <1>6, <1>7, <1>8 DEF IInv

\* The loop of commqueueitem_link goes to the next commhandle.
LEMMA LinkNextKeeps ==
  ASSUME IInv, LinkNext
  PROVE  IInv'
<1> USE NullAssumption
<1>0. /\ TypeOK /\ ListIsOrder /\ Memory /\ Fresh /\ Variables /\ Places
      /\ Requested /\ Typed
      /\ order \in Seq(Addresses) /\ Len(order) \in Nat /\ DOMAIN order = 1 .. Len(order)
  BY DEF IInv, TypeOK
<1>s. \A h : /\ InList(h)' = InList(h)
             /\ SubHandles(h)' = SubHandles(h)
             /\ RequestsOf(h)' = RequestsOf(h)
  BY DEF InList, SubHandles, RequestsOf, LinkNext, list, memory, program, call
<1>n. InList(handle) /\ handle \in Addresses /\ InList(next_handle[handle])
  BY <1>0, ListFacts DEF Places, InList, LinkNext, UnlinkNext
<1>1. TypeOK'
  BY <1>0, <1>n DEF TypeOK, LinkNext, list, memory, program
<1>2. ListIsOrder'
  BY <1>0 DEF ListIsOrder, LinkNext, list
<1>3. Memory'
  BY <1>0, <1>s DEF Memory, Leaving, LinkNext, memory
<1>4. Fresh'
  BY <1>0, <1>s DEF Fresh, LinkNext, memory
<1>5. Variables'
  BY <1>0, <1>s DEF Variables, LinkNext, program
<1>6. Places'
  BY <1>s, <1>n DEF Places, LinkNext
<1>7. Requested'
  BY <1>0, <1>s DEF Requested, Leaving, LinkNext, memory, program
<1>8. Typed'
  BY <1>0, <1>s DEF Typed, LinkNext, memory, program
<1> QED
  BY <1>1, <1>2, <1>3, <1>4, <1>5, <1>6, <1>7, <1>8 DEF IInv

\* VMK::commwait of a commhandle the program holds, or of none.
LEMMA WaitKeeps ==
  ASSUME IInv, NEW s \in Slots, Wait(s)
  PROVE  IInv'
<1> USE NullAssumption
<1>0. /\ TypeOK /\ ListIsOrder /\ Memory /\ Fresh /\ Variables /\ Places
      /\ Requested /\ Typed
      /\ order \in Seq(Addresses) /\ Len(order) \in Nat /\ DOMAIN order = 1 .. Len(order)
  BY DEF IInv, TypeOK
<1>s. \A h : /\ InList(h)' = InList(h)
             /\ SubHandles(h)' = SubHandles(h)
             /\ RequestsOf(h)' = RequestsOf(h)
  BY DEF InList, SubHandles, RequestsOf, Wait, list, memory, program, call
<1>1. TypeOK'
  BY <1>0 DEF TypeOK, Wait, list, memory, program
<1>2. ListIsOrder'
  BY <1>0 DEF ListIsOrder, Wait, list
<1>3. Memory'
  BY <1>0, <1>s DEF Memory, Leaving, Wait, memory
<1>4. Fresh'
  BY DEF Fresh, Wait
<1>5. Variables'
  BY <1>0, <1>s DEF Variables, Wait, program
<1>6. Places'
  BY DEF Places, Wait
<1>7. Requested'
  BY <1>0, <1>s DEF Requested, Leaving, Wait, memory, program
<1>8. Typed'
  BY <1>0, <1>s DEF Typed, Wait, memory, program
<1> QED
  BY <1>1, <1>2, <1>3, <1>4, <1>5, <1>6, <1>7, <1>8 DEF IInv

\* VMK::commqueuewait starts; the program forgets its commhandles.
LEMMA WaitAllKeeps ==
  ASSUME IInv, WaitAll
  PROVE  IInv'
<1> USE NullAssumption
<1>0. /\ TypeOK /\ ListIsOrder /\ Memory /\ Fresh /\ Variables /\ Places
      /\ Requested /\ Typed
      /\ order \in Seq(Addresses) /\ Len(order) \in Nat /\ DOMAIN order = 1 .. Len(order)
  BY DEF IInv, TypeOK
<1>s. \A h : /\ InList(h)' = InList(h)
             /\ SubHandles(h)' = SubHandles(h)
             /\ RequestsOf(h)' = RequestsOf(h)
  BY DEF InList, SubHandles, RequestsOf, WaitAll, list, memory, program, call
<1>1. TypeOK'
  BY <1>0 DEF TypeOK, Handles, WaitAll, list, memory, program, call
<1>2. ListIsOrder'
  BY <1>0 DEF ListIsOrder, WaitAll, list
<1>3. Memory'
  BY <1>0, <1>s DEF Memory, Leaving, WaitAll, memory
<1>4. Fresh'
  BY DEF Fresh, WaitAll
<1>5. Variables'
  BY <1>0 DEF Variables, WaitAll
<1>6. Places'
  BY DEF Places, WaitAll
<1>7. Requested'
  BY <1>0, <1>s DEF Requested, Leaving, WaitAll, memory
<1>8. Typed'
  BY <1>0, <1>s DEF Typed, WaitAll, memory
<1> QED
  BY <1>1, <1>2, <1>3, <1>4, <1>5, <1>6, <1>7, <1>8 DEF IInv

\* commqueuewait takes the first commhandle of the list.
LEMMA WaitFirstKeeps ==
  ASSUME IInv, WaitFirst
  PROVE  IInv'
<1> USE NullAssumption
<1>0. /\ TypeOK /\ ListIsOrder /\ Memory /\ Fresh /\ Variables /\ Places
      /\ Requested /\ Typed
      /\ order \in Seq(Addresses) /\ Len(order) \in Nat /\ DOMAIN order = 1 .. Len(order)
  BY DEF IInv, TypeOK
<1>s. \A h : /\ InList(h)' = InList(h)
             /\ SubHandles(h)' = SubHandles(h)
             /\ RequestsOf(h)' = RequestsOf(h)
  BY DEF InList, SubHandles, RequestsOf, WaitFirst, list, memory, program, call
<1>n. /\ order # << >> => InList(firsthandle)
      /\ order = << >> => firsthandle = NULL
      /\ \A i \in DOMAIN order : order[i] = firsthandle => i = 1
  BY ListFacts
<1>1. TypeOK'
  BY <1>0 DEF TypeOK, WaitFirst, list, memory, program
<1>2. ListIsOrder'
  BY <1>0 DEF ListIsOrder, WaitFirst, list
<1>3. Memory'
  BY <1>0, <1>s DEF Memory, Leaving, WaitFirst, memory
<1>4. Fresh'
  BY DEF Fresh, WaitFirst
<1>5. Variables'
  BY <1>0, <1>s, <1>n DEF Variables, WaitFirst, program
<1>6. Places'
  BY DEF Places, WaitFirst
<1>7. Requested'
  BY <1>0, <1>s DEF Requested, Leaving, WaitFirst, memory, program
<1>8. Typed'
  BY <1>0, <1>s DEF Typed, WaitFirst, memory, program
<1> QED
  BY <1>1, <1>2, <1>3, <1>4, <1>5, <1>6, <1>7, <1>8 DEF IInv

\* commqueuewait returns when the list is empty.
LEMMA WaitedAllKeeps ==
  ASSUME IInv, WaitedAll
  PROVE  IInv'
<1> USE NullAssumption
<1>0. /\ TypeOK /\ ListIsOrder /\ Memory /\ Fresh /\ Variables /\ Places
      /\ Requested /\ Typed
      /\ order \in Seq(Addresses) /\ Len(order) \in Nat /\ DOMAIN order = 1 .. Len(order)
  BY DEF IInv, TypeOK
<1>s. \A h : /\ InList(h)' = InList(h)
             /\ SubHandles(h)' = SubHandles(h)
             /\ RequestsOf(h)' = RequestsOf(h)
  BY DEF InList, SubHandles, RequestsOf, WaitedAll, list, memory, program, call
<1>1. TypeOK'
  BY <1>0 DEF TypeOK, WaitedAll, list, memory, program
<1>2. ListIsOrder'
  BY <1>0 DEF ListIsOrder, WaitedAll, list
<1>3. Memory'
  BY <1>0, <1>s DEF Memory, Leaving, WaitedAll, memory
<1>4. Fresh'
  BY DEF Fresh, WaitedAll
<1>5. Variables'
  BY <1>0 DEF Variables, WaitedAll, program
<1>6. Places'
  BY DEF Places, WaitedAll
<1>7. Requested'
  BY <1>0, <1>s DEF Requested, Leaving, WaitedAll, memory, program
<1>8. Typed'
  BY <1>0, <1>s DEF Typed, WaitedAll, memory, program
<1> QED
  BY <1>1, <1>2, <1>3, <1>4, <1>5, <1>6, <1>7, <1>8 DEF IInv

\* commwait returns from MPI and frees the sub-handles before the unlinking.
LEMMA WaitedKeeps ==
  ASSUME IInv, Waited
  PROVE  IInv'
<1> USE NullAssumption
<1>0. /\ TypeOK /\ ListIsOrder /\ Memory /\ Fresh /\ Variables /\ Places
      /\ Requested /\ Typed
      /\ order \in Seq(Addresses) /\ Len(order) \in Nat /\ DOMAIN order = 1 .. Len(order)
  BY DEF IInv, TypeOK
<1>s. \A h : /\ InList(h)' = InList(h)
             /\ SubHandles(h)' = SubHandles(h)
             /\ RequestsOf(h)' = RequestsOf(h)
  BY DEF InList, SubHandles, RequestsOf, Waited, list, memory, program, call, Unlink,
         Skipped, Pending
<1>n. /\ order # << >> => InList(firsthandle)
      /\ order = << >> => firsthandle = NULL
      /\ \A i \in DOMAIN order : order[i] = firsthandle => i = 1
  BY ListFacts
<1>1. TypeOK'
  BY <1>0 DEF TypeOK, Waited, list, memory, program, Unlink
<1>2. ListIsOrder'
  BY <1>0 DEF ListIsOrder, Waited, list
<1>3. Memory'
  <2>1. CASE Skipped
    BY <1>0, <1>s, <2>1 DEF Memory, Leaving, Waited, memory
  <2>2. CASE ~ Skipped
    <3>1. ch \in Addresses /\ InList(ch)
      BY <1>0, <2>2, ListFacts DEF Skipped, Waited, Variables
    <3>2. /\ allocated' = allocated \ SubHandles(ch) /\ content' = content
          /\ ch' = ch
          /\ pc = "wait" /\ pc' = "unlink"
      BY <2>2 DEF Waited, Unlink
    <3> QED
      BY <1>0, <1>s, <3>1, <3>2 DEF Memory, Leaving
  <2> QED
    BY <2>1, <2>2
<1>4. Fresh'
  BY DEF Fresh, Waited, Unlink
<1>5. Variables'
  BY <1>0, <1>s DEF Variables, Waited, program, Unlink
<1>6. Places'
  BY <1>s, <1>n DEF Places, Waited, list, Unlink
<1>7. Requested'
  <2>1. \A h \in Addresses : RequestsOf(h) \subseteq Requests
    BY <1>0, ContentFacts
  <2>2. CASE Skipped
    <3>1. ch # NULL => epoch /\ ch \in Addresses /\ InList(ch)
      BY <1>0, <2>2, ListFacts DEF Skipped, Waited, Variables
    <3>2. request' = request /\ epoch' = epoch /\ pc = "wait" /\ ch' = ch
      BY <2>2 DEF Waited, memory, program, Unlink
    <3> QED
      BY <1>0, <1>s, <3>1, <3>2 DEF Requested, Leaving
  <2>3. CASE ~ Skipped
    <3>1. ch \in Addresses /\ InList(ch)
      BY <1>0, <2>3, ListFacts DEF Skipped, Waited, Variables
    <3>2. \A r \in Requests :
            request'[r] = IF r \in RequestsOf(ch) THEN "null" ELSE request[r]
      BY <2>3 DEF Waited, Pending
    <3>3. ~ epoch /\ epoch' = epoch /\ pc = "wait" /\ pc' = "unlink" /\ ch' = ch
      BY <2>3 DEF Skipped, Waited, program, Unlink
    <3> QED
      BY <1>0, <1>s, <2>1, <3>1, <3>2, <3>3 DEF Requested, Leaving
  <2> QED
    BY <2>2, <2>3
<1>8. Typed'
  BY <1>0, <1>s DEF Typed, Waited, memory, program
<1> QED
  BY <1>1, <1>2, <1>3, <1>4, <1>5, <1>6, <1>7, <1>8 DEF IInv

\* VMK::commtest finds all requests of a commhandle completed, and unlinks it.
LEMMA TestKeeps ==
  ASSUME IInv, NEW s \in Slots, Test(s)
  PROVE  IInv'
<1> USE NullAssumption
<1>0. /\ TypeOK /\ ListIsOrder /\ Memory /\ Fresh /\ Variables /\ Places
      /\ Requested /\ Typed
      /\ order \in Seq(Addresses) /\ Len(order) \in Nat /\ DOMAIN order = 1 .. Len(order)
  BY DEF IInv, TypeOK
<1>s. \A h : /\ InList(h)' = InList(h)
             /\ SubHandles(h)' = SubHandles(h)
             /\ RequestsOf(h)' = RequestsOf(h)
  BY DEF InList, SubHandles, RequestsOf, Test, list, memory, program, call, Unlink,
         Testable
<1>n. /\ order # << >> => InList(firsthandle)
      /\ order = << >> => firsthandle = NULL
      /\ \A i \in DOMAIN order : order[i] = firsthandle => i = 1
  BY ListFacts
<1>1. TypeOK'
  BY <1>0 DEF TypeOK, Test, list, program, Unlink
<1>2. ListIsOrder'
  BY <1>0 DEF ListIsOrder, Test, list
<1>3. Memory'
  BY <1>0, <1>s DEF Memory, Leaving, Test
<1>4. Fresh'
  BY DEF Fresh, Test, Unlink
<1>5. Variables'
  BY <1>0, <1>s DEF Variables, Test, program, Unlink
<1>6. Places'
  BY <1>s, <1>n DEF Places, Test, list, Unlink
<1>7. Requested'
  <2>1. \A h \in Addresses : RequestsOf(h) \subseteq Requests
    BY <1>0, ContentFacts
  <2>2. PICK h \in Addresses : h = commh[s] /\ InList(h)
    BY <1>0, ListFacts DEF Test, Testable, Variables
  <2>3. \A r \in Requests :
          request'[r] = IF r \in RequestsOf(h) THEN "null" ELSE request[r]
    BY <2>2 DEF Test
  <2>4. ~ epoch /\ epoch' = epoch /\ pc = "user" /\ pc' = "unlink" /\ ch' = h
    BY <2>2 DEF Test, Testable, Unlink, program
  <2> QED
    BY <1>0, <1>s, <2>1, <2>2, <2>3, <2>4 DEF Requested, Leaving
<1>8. Typed'
  BY <1>0, <1>s DEF Typed, Test, Testable
<1> QED
  BY <1>1, <1>2, <1>3, <1>4, <1>5, <1>6, <1>7, <1>8 DEF IInv

\* VMK::commcancel completes active requests only.
LEMMA CancelKeeps ==
  ASSUME IInv, NEW s \in Slots, Cancel(s)
  PROVE  IInv'
<1> USE NullAssumption
<1>0. /\ TypeOK /\ ListIsOrder /\ Memory /\ Fresh /\ Variables /\ Places
      /\ Requested /\ Typed
      /\ order \in Seq(Addresses) /\ Len(order) \in Nat /\ DOMAIN order = 1 .. Len(order)
  BY DEF IInv, TypeOK
<1>s. \A h : /\ InList(h)' = InList(h)
             /\ SubHandles(h)' = SubHandles(h)
             /\ RequestsOf(h)' = RequestsOf(h)
  BY DEF InList, SubHandles, RequestsOf, Cancel, list, memory, program, call
<1>1. TypeOK'
  BY <1>0 DEF TypeOK, Cancel, list, program, call
<1>2. ListIsOrder'
  BY <1>0 DEF ListIsOrder, Cancel, list
<1>3. Memory'
  BY <1>0, <1>s DEF Memory, Leaving, Cancel
<1>4. Fresh'
  BY DEF Fresh, Cancel, call
<1>5. Variables'
  BY <1>0, <1>s DEF Variables, Cancel, program, call
<1>6. Places'
  BY DEF Places, Cancel, call
<1>7. Requested'
  <2>1. \A h \in Addresses : RequestsOf(h) \subseteq Requests
    BY <1>0, ContentFacts
  <2> QED
    BY <1>0, <1>s, <2>1 DEF Requested, Leaving, Cancel, program, call
<1>8. Typed'
  BY <1>0, <1>s DEF Typed, Cancel
<1> QED
  BY <1>1, <1>2, <1>3, <1>4, <1>5, <1>6, <1>7, <1>8 DEF IInv

\* The loop of commqueueitem_unlink goes to the next commhandle.
LEMMA UnlinkNextKeeps ==
  ASSUME IInv, UnlinkNext
  PROVE  IInv'
<1> USE NullAssumption
<1>0. /\ TypeOK /\ ListIsOrder /\ Memory /\ Fresh /\ Variables /\ Places
      /\ Requested /\ Typed
      /\ order \in Seq(Addresses) /\ Len(order) \in Nat /\ DOMAIN order = 1 .. Len(order)
  BY DEF IInv, TypeOK
<1>s. \A h : /\ InList(h)' = InList(h)
             /\ SubHandles(h)' = SubHandles(h)
             /\ RequestsOf(h)' = RequestsOf(h)
  BY DEF InList, SubHandles, RequestsOf, UnlinkNext, list, memory, program, call
<1>n. InList(handle) /\ handle \in Addresses /\ InList(next_handle[handle])
  BY <1>0, ListFacts DEF Places, InList, LinkNext, UnlinkNext
<1>1. TypeOK'
  BY <1>0, <1>n DEF TypeOK, UnlinkNext, list, memory, program
<1>2. ListIsOrder'
  BY <1>0 DEF ListIsOrder, UnlinkNext, list
<1>3. Memory'
  BY <1>0, <1>s DEF Memory, Leaving, UnlinkNext, memory
<1>4. Fresh'
  BY DEF Fresh, UnlinkNext
<1>5. Variables'
  BY <1>0, <1>s DEF Variables, UnlinkNext, program
<1>6. Places'
  <2>1. pc = "unlink" /\ pc' = pc /\ ch' = ch /\ order' = order
        /\ handle' = next_handle[handle] /\ handle # ch
    BY DEF UnlinkNext, list
  <2>2. ASSUME NEW i \in DOMAIN order, NEW j \in DOMAIN order,
               order[i] = next_handle[handle], order[j] = ch
        PROVE  i <= j
    <3>1. PICK k \in DOMAIN order : order[k] = handle
      BY <1>n DEF InList
    <3>2. i = k + 1
      BY <2>2, <3>1, ListFacts DEF UnlinkNext
    <3>3. k <= j /\ k # j
      BY <1>0, <2>1, <2>2, <3>1 DEF Places
    <3> QED
      BY <1>0, <3>2, <3>3
  <2> QED
    BY <1>n, <2>1, <2>2 DEF Places, InList
<1>7. Requested'
  BY <1>0, <1>s DEF Requested, Leaving, UnlinkNext, memory, program
<1>8. Typed'
  BY <1>0, <1>s DEF Typed, UnlinkNext, memory, program
<1> QED
  BY <1>1, <1>2, <1>3, <1>4, <1>5, <1>6, <1>7, <1>8 DEF IInv

\* The loop of commqueueitem_unlink ends without having found only NULL.
LEMMA UnlinkMissedKeeps ==
  ASSUME IInv, UnlinkMissed
  PROVE  IInv'
<1> USE NullAssumption
<1>0. /\ TypeOK /\ ListIsOrder /\ Memory /\ Fresh /\ Variables /\ Places
      /\ Requested /\ Typed
      /\ order \in Seq(Addresses) /\ Len(order) \in Nat /\ DOMAIN order = 1 .. Len(order)
  BY DEF IInv, TypeOK
<1>s. \A h : /\ InList(h)' = InList(h)
             /\ SubHandles(h)' = SubHandles(h)
             /\ RequestsOf(h)' = RequestsOf(h)
  BY DEF InList, SubHandles, RequestsOf, UnlinkMissed, list, memory, program, call,
         Return, HandlesLeft
<1>m. ~ InList(ch)
  <2>1. SUFFICES ASSUME InList(ch) PROVE FALSE
    OBVIOUS
  <2>2. PICK j \in DOMAIN order : order[j] = ch
    BY <2>1 DEF InList
  <2>3. nhandles >= 1
    BY <1>0, ListFacts DEF TypeOK
  <2>4. next_handle[handle] = NULL /\ handle # ch /\ InList(handle)
    BY <1>0, <2>3 DEF UnlinkMissed, Places
  <2>5. PICK i \in DOMAIN order : order[i] = handle
    BY <2>4 DEF InList
  <2>6. i = Len(order) /\ i <= j
    BY <1>0, <2>2, <2>4, <2>5, ListFacts DEF UnlinkMissed, Places
  <2> QED
    BY <2>2, <2>4, <2>5, <2>6
<1>1. TypeOK'
  BY <1>0
     DEF TypeOK, Handles, UnlinkMissed, list, memory, program, call, Return, HandlesLeft
<1>2. ListIsOrder'
  BY <1>0 DEF ListIsOrder, UnlinkMissed, HandlesLeft
<1>3. Memory'
  <2>1. ~ InList(ch)
    BY <1>m
  <2> QED
    BY <1>0, <1>s, <2>1 DEF Memory, Leaving, UnlinkMissed, memory
<1>4. Fresh'
  BY DEF Fresh, UnlinkMissed, Return
<1>5. Variables'
  BY <1>0, <1>s DEF Variables, UnlinkMissed, Return
<1>6. Places'
  BY DEF Places, UnlinkMissed, Return
<1>7. Requested'
  BY <1>0, <1>s, <1>m DEF Requested, Leaving, UnlinkMissed, memory, Return
<1>8. Typed'
  BY <1>0, <1>s DEF Typed, UnlinkMissed, memory
<1> QED
  BY <1>1, <1>2, <1>3, <1>4, <1>5, <1>6, <1>7, <1>8 DEF IInv

\* MPI completes an active request.
LEMMA CompletesKeeps ==
  ASSUME IInv, NEW r \in Requests, Completes(r)
  PROVE  IInv'
<1> USE NullAssumption
<1>0. /\ TypeOK /\ ListIsOrder /\ Memory /\ Fresh /\ Variables /\ Places
      /\ Requested /\ Typed
      /\ order \in Seq(Addresses) /\ Len(order) \in Nat /\ DOMAIN order = 1 .. Len(order)
  BY DEF IInv, TypeOK
<1>s. \A h : /\ InList(h)' = InList(h)
             /\ SubHandles(h)' = SubHandles(h)
             /\ RequestsOf(h)' = RequestsOf(h)
  BY DEF InList, SubHandles, RequestsOf, Completes, list, memory, program, call
<1>1. TypeOK'
  BY <1>0 DEF TypeOK, Completes, list, program, call
<1>2. ListIsOrder'
  BY <1>0 DEF ListIsOrder, Completes, list
<1>3. Memory'
  BY <1>0, <1>s DEF Memory, Leaving, Completes, call
<1>4. Fresh'
  BY <1>0, <1>s DEF Fresh, Completes, call
<1>5. Variables'
  BY <1>0, <1>s DEF Variables, Completes, program, call
<1>6. Places'
  BY <1>0, <1>s DEF Places, Completes, list, call
<1>7. Requested'
  BY <1>0, <1>s DEF Requested, Leaving, Completes, program, call
<1>8. Typed'
  BY <1>0, <1>s DEF Typed, Completes, program
<1> QED
  BY <1>1, <1>2, <1>3, <1>4, <1>5, <1>6, <1>7, <1>8 DEF IInv

\* An epoch starts or ends while the queue is empty.
LEMMA EpochTurnKeeps ==
  ASSUME IInv, EpochTurn
  PROVE  IInv'
<1> USE NullAssumption
<1>0. /\ TypeOK /\ ListIsOrder /\ Memory /\ Fresh /\ Variables /\ Places
      /\ Requested /\ Typed
      /\ order \in Seq(Addresses) /\ Len(order) \in Nat /\ DOMAIN order = 1 .. Len(order)
  BY DEF IInv, TypeOK
<1>s. \A h : /\ InList(h)' = InList(h)
             /\ SubHandles(h)' = SubHandles(h)
             /\ RequestsOf(h)' = RequestsOf(h)
  BY DEF InList, SubHandles, RequestsOf, EpochTurn, list, memory, program, call
<1>1. TypeOK'
  BY <1>0 DEF TypeOK, EpochTurn, list, memory, call
<1>2. ListIsOrder'
  BY <1>0 DEF ListIsOrder, EpochTurn, list
<1>3. Memory'
  BY <1>0, <1>s DEF Memory, Leaving, EpochTurn, memory
<1>4. Fresh'
  BY DEF Fresh, EpochTurn, call
<1>5. Variables'
  BY <1>0, <1>s DEF Variables, EpochTurn, call
<1>6. Places'
  BY DEF Places, EpochTurn, call
<1>7. Requested'
  <2>1. \A h \in Addresses : ~ InList(h)
    BY ListFacts DEF EpochTurn, InList
  <2> QED
    BY <1>0, <1>s, <2>1 DEF Requested, EpochTurn, memory
<1>8. Typed'
  <2>1. \A h \in Addresses : ~ InList(h)
    BY ListFacts DEF EpochTurn, InList
  <2> QED
    BY <1>s, <2>1 DEF Typed
<1> QED
  BY <1>1, <1>2, <1>3, <1>4, <1>5, <1>6, <1>7, <1>8 DEF IInv

\* The call of commhandle d has begun with the memory A, C and requests Q: no
\* other handle has changed, and what is new belongs to this call alone.
RequestsIn(C, h) == UNION {C[g].mpireq : g \in {h} \cup C[h].handles}
Begun(d, A, C, Q) ==
    /\ allocated \subseteq A /\ A \subseteq Addresses
    /\ C \in [Addresses -> ContentOf]
    /\ Q \in [Requests -> {"null", "active", "complete"}]
    /\ \A g \in allocated : g # d => C[g] = content[g]
    /\ \A g \in Addresses \ A : C[g] = content[g]
    /\ C[d].handles \subseteq A \ allocated
    /\ \A r \in RequestsIn(C, d) : r \in Requests /\ request[r] = "null" /\ Q[r] = "active"
    /\ \A r \in Requests : r \notin RequestsIn(C, d) => Q[r] = request[r]
    /\ epoch => RequestsIn(C, d) = {}
    /\ ~ epoch => \A g \in {d} \cup C[d].handles : C[g].type # "unset"

\* Every branch of a nonblocking call begins so.
LEMMA BegunByLink ==
  ASSUME IInv, LinkLast
  PROVE  Begun(ch, allocated', content', request')
<1>0. /\ ch \in allocated /\ ch \in Addresses /\ content[ch] = Garbage
      /\ content \in [Addresses -> ContentOf]
      /\ request \in [Requests -> {"null", "active", "complete"}]
      /\ allocated \subseteq Addresses
  BY DEF IInv, TypeOK, Fresh, LinkLast
<1>1. \A g \in Addresses \ allocated : content[g] = Garbage
  BY DEF IInv, Memory, Leaving, LinkLast
<1>2. CASE Message
  <2>1. CASE epoch
    <3>1. content' = content /\ request' = request /\ allocated' = allocated
      BY <1>2, <2>1 DEF Message
    <3>2. content[ch].handles = {} /\ RequestsIn(content, ch) = {}
      BY <1>0 DEF Garbage, RequestsIn
    <3> QED
      BY <1>0, <2>1, <3>1, <3>2 DEF Begun
  <2>2. CASE ~ epoch /\ content' = [content EXCEPT ![ch] = Dummy] /\ request' = request
    <3>1. allocated' = allocated
      BY <1>2 DEF Message
    <3>2. content'[ch] = Dummy /\ Dummy \in ContentOf
      BY <1>0, <2>2 DEF Dummy, ContentOf
    <3>3. content'[ch].handles = {} /\ RequestsIn(content', ch) = {}
      BY <3>2 DEF Dummy, RequestsIn
    <3> QED
      BY <1>0, <2>2, <3>1, <3>2, <3>3 DEF Begun, Dummy
  <2>3. ASSUME ~ epoch, NEW r \in Requests, NEW part \in Requests,
               content' = [content EXCEPT ![ch] = Leaf({r, part})], Posted({r, part})
        PROVE  Begun(ch, allocated', content', request')
    <3>1. allocated' = allocated
      BY <1>2 DEF Message
    <3>2. content'[ch] = Leaf({r, part}) /\ Leaf({r, part}) \in ContentOf
      BY <1>0, <2>3 DEF Leaf, ContentOf
    <3>3. content'[ch].handles = {} /\ RequestsIn(content', ch) = {r, part}
      BY <3>2 DEF Leaf, RequestsIn
    <3> QED
      BY <1>0, <2>3, <3>1, <3>2, <3>3 DEF Begun, Posted, Leaf
  <2> QED
    BY <1>2, <2>1, <2>2, <2>3 DEF Message
<1>3. CASE SendRecv
  <2>1. PICK sub \in Addresses \ allocated, other \in Addresses \ allocated :
          /\ sub # other
          /\ allocated' = allocated \cup {sub, other}
          /\ epoch => content' = [content EXCEPT ![ch] = Container({sub, other})]
                      /\ request' = request
          /\ ~ epoch => \E r, q \in Requests :
                /\ content' = [content EXCEPT ![ch] = Container({sub, other}),
                                   ![sub] = Leaf({r}), ![other] = Leaf({q})]
                /\ Posted({r, q})
    <3>1. PICK sub \in New(Addresses \ allocated) :
            \E other \in New(Addresses \ (allocated \cup {sub})) :
              /\ allocated' = allocated \cup {sub, other}
              /\ epoch => content' = [content EXCEPT ![ch] = Container({sub, other})]
                          /\ request' = request
              /\ ~ epoch => \E r, q \in Requests :
                    /\ content' = [content EXCEPT ![ch] = Container({sub, other}),
                                       ![sub] = Leaf({r}), ![other] = Leaf({q})]
                    /\ Posted({r, q})
      BY <1>3 DEF SendRecv
    <3>2. /\ New(Addresses \ allocated) \subseteq Addresses \ allocated
          /\ New(Addresses \ (allocated \cup {sub}))
               \subseteq Addresses \ (allocated \cup {sub})
      BY NewAssumption
    <3> QED
      BY <3>1, <3>2
  <2>2. sub # ch /\ other # ch /\ sub # other
    BY <1>0, <2>1
  <2>3. Container({sub, other}) \in ContentOf
        /\ Container({sub, other}).handles = {sub, other}
        /\ Container({sub, other}).mpireq = {} /\ Container({sub, other}).type = "handles"
    BY DEF Container, ContentOf
  <2>4. CASE epoch
    <3>1. /\ content'[ch] = Container({sub, other})
          /\ \A g \in Addresses : g # ch => content'[g] = content[g]
          /\ content' \in [Addresses -> ContentOf]
      BY <1>0, <2>1, <2>3, <2>4
    <3>2. content'[sub] = Garbage /\ content'[other] = Garbage
      BY <1>1, <2>2, <3>1
    <3>3. RequestsIn(content', ch) = {}
      <4>1. \A x : x \in RequestsIn(content', ch) <=>
                     \E g \in {ch, sub, other} : x \in content'[g].mpireq
        BY <2>3, <3>1 DEF RequestsIn
      <4>2. content'[ch].mpireq = {} /\ content'[sub].mpireq = {}
            /\ content'[other].mpireq = {}
        BY <2>3, <3>1, <3>2 DEF Garbage
      <4> QED
        BY <4>1, <4>2
    <3>4. content'[ch].handles = {sub, other}
      BY <2>3, <3>1
    <3> QED
      BY <1>0, <2>1, <2>4, <3>1, <3>3, <3>4 DEF Begun
  <2>5. CASE ~ epoch
    <3>1. PICK r, q \in Requests :
            /\ content' = [content EXCEPT ![ch] = Container({sub, other}),
                               ![sub] = Leaf({r}), ![other] = Leaf({q})]
            /\ Posted({r, q})
      BY <2>1, <2>5
    <3>2. /\ Leaf({r}) \in ContentOf /\ Leaf({q}) \in ContentOf
          /\ Leaf({r}).mpireq = {r} /\ Leaf({q}).mpireq = {q}
          /\ Leaf({r}).type = "requests" /\ Leaf({q}).type = "requests"
      BY DEF Leaf, ContentOf
    <3>3. /\ content'[ch] = Container({sub, other})
          /\ content'[sub] = Leaf({r}) /\ content'[other] = Leaf({q})
          /\ \A g \in Addresses : g \notin {ch, sub, other} => content'[g] = content[g]
          /\ content' \in [Addresses -> ContentOf]
      BY <1>0, <2>2, <2>3, <3>1, <3>2
    <3>4. RequestsIn(content', ch) = {r, q}
      <4>1. \A x : x \in RequestsIn(content', ch) <=>
                     \E g \in {ch, sub, other} : x \in content'[g].mpireq
        BY <2>3, <3>3 DEF RequestsIn
      <4>2. content'[ch].mpireq = {} /\ content'[sub].mpireq = {r}
            /\ content'[other].mpireq = {q}
        BY <2>3, <3>2, <3>3
      <4> QED
        BY <4>1, <4>2
    <3>5. content'[ch].type # "unset" /\ content'[sub].type # "unset"
          /\ content'[other].type # "unset"
      BY <2>3, <3>2, <3>3
    <3>6. /\ \A x \in RequestsIn(content', ch) :
                 x \in Requests /\ request[x] = "null" /\ request'[x] = "active"
          /\ \A x \in Requests : x \notin RequestsIn(content', ch) => request'[x] = request[x]
      BY <1>0, <3>1, <3>4 DEF Posted
    <3>7. content'[ch].handles = {sub, other}
      BY <2>3, <3>3
    <3>8. \A g \in Addresses \ allocated' : content'[g] = content[g]
      BY <1>0, <2>1, <3>3
    <3>9. \A g \in allocated : g # ch => content'[g] = content[g]
      BY <1>0, <2>1, <3>3
    <3>10. request' \in [Requests -> {"null", "active", "complete"}]
      BY <1>0, <3>1 DEF Posted
    <3> QED
      BY <1>0, <2>1, <2>5, <3>3, <3>5, <3>6, <3>7, <3>8, <3>9, <3>10 DEF Begun
  <2> QED
    BY <2>4, <2>5
<1> QED
  BY <1>2, <1>3 DEF LinkLast

\* The handles of the other calls hold what they held.
LEMMA OthersKeptByLink ==
  ASSUME IInv, LinkLast, NEW h \in Addresses, InList(h)
  PROVE  /\ h # ch /\ h \in allocated
         /\ SubHandles(h)' = SubHandles(h) /\ RequestsOf(h)' = RequestsOf(h)
         /\ \A g \in {h} \cup SubHandles(h) : content'[g] = content[g] /\ g \in allocated
<1>1. /\ pc = "link" /\ ~ InList(ch) /\ ch \notin SubHandles(h)
      /\ h \in allocated /\ \A g \in SubHandles(h) : g \in allocated
  BY DEF IInv, LinkLast, Fresh, Memory, Leaving
<1>2. h # ch
  BY <1>1
<1>3. \A g \in {h} \cup SubHandles(h) : content'[g] = content[g] /\ g \in allocated
  BY <1>1, BegunByLink DEF Begun
<1>4. SubHandles(h)' = SubHandles(h)
  BY <1>3 DEF SubHandles
<1>5. RequestsOf(h)' = RequestsOf(h)
  BY <1>3, <1>4 DEF RequestsOf
<1> QED
  BY <1>2, <1>3, <1>4, <1>5

\* commqueueitem_link appends the commhandle, and the call starts its requests.
LEMMA LinkLastKeeps ==
  ASSUME IInv, LinkLast
  PROVE  IInv'
<1> USE NullAssumption
<1>0. /\ TypeOK /\ ListIsOrder /\ Memory /\ Fresh /\ Variables /\ Places
      /\ Requested /\ Typed
      /\ order \in Seq(Addresses) /\ Len(order) \in Nat /\ DOMAIN order = 1 .. Len(order)
  BY DEF IInv, TypeOK
<1>p. PICK d \in Addresses : d = ch
  BY <1>0 DEF Fresh, LinkLast, TypeOK
<1>b. Begun(d, allocated', content', request')
  BY <1>p, BegunByLink
<1>c. /\ pc = "link" /\ pc' = "user" /\ handle' = NULL /\ ch' = NULL
      /\ slot' = NULL
      /\ epoch' = epoch /\ commh' = commh /\ remaining' = remaining
      /\ d \in allocated /\ ~ InList(d) /\ content[d] = Garbage
      /\ \A h \in Addresses : InList(h) => d \notin SubHandles(h)
      /\ slot \in Slots /\ commh[slot] = d
  BY <1>0, <1>p DEF LinkLast, program, Fresh, Variables
<1>e. /\ order' \in Seq(Addresses)
      /\ Len(order') = Len(order) + 1 /\ DOMAIN order' = 1 .. Len(order) + 1
      /\ \A i \in 1 .. Len(order) : order'[i] = order[i]
      /\ order'[Len(order) + 1] = d
  BY <1>0, <1>p DEF LinkLast, Linked
<1>i. \A h : InList(h)' <=> InList(h) \/ h = d
  BY <1>e DEF InList
<1>s. \A h \in Addresses : InList(h) =>
         /\ h # d /\ h \in allocated
         /\ SubHandles(h)' = SubHandles(h) /\ RequestsOf(h)' = RequestsOf(h)
         /\ \A g \in {h} \cup SubHandles(h) : content'[g] = content[g] /\ g \in allocated
  BY <1>p, OthersKeptByLink
<1>d. /\ SubHandles(d)' = content'[d].handles
      /\ RequestsOf(d)' = RequestsIn(content', d)
      /\ SubHandles(d)' \subseteq allocated' \ allocated
  BY <1>b DEF SubHandles, RequestsOf, RequestsIn, Begun
<1>1. TypeOK'
  <2>1. nhandles' \in Nat /\ firsthandle' \in Handles
        /\ prev_handle' \in [Addresses -> Handles] /\ next_handle' \in [Addresses -> Handles]
    <3>1. /\ handle \in Handles /\ firsthandle \in Handles /\ nhandles \in Nat
          /\ prev_handle \in [Addresses -> Handles]
          /\ next_handle \in [Addresses -> Handles]
          /\ NULL \in Handles /\ d \in Handles
      BY <1>0 DEF TypeOK, Handles
    <3>2. Linked
      BY DEF LinkLast
    <3>3. CASE nhandles = 0
      <4>1. firsthandle' = d /\ nhandles' = nhandles + 1
            /\ prev_handle' = [prev_handle EXCEPT ![d] = NULL]
            /\ next_handle' = [next_handle EXCEPT ![d] = NULL]
        BY <1>p, <3>2, <3>3 DEF Linked
      <4> QED
        BY <3>1, <4>1
    <3>4. CASE nhandles # 0
      <4>1. firsthandle' = firsthandle /\ nhandles' = nhandles + 1
            /\ prev_handle' = [prev_handle EXCEPT ![d] = handle]
            /\ next_handle' = [next_handle EXCEPT ![handle] = d, ![d] = NULL]
        BY <1>p, <3>2, <3>4 DEF Linked
      <4> QED
        BY <3>1, <4>1
    <3> QED
      BY <3>3, <3>4
  <2> QED
    BY <1>0, <1>b, <1>c, <1>e, <2>1 DEF TypeOK, Handles, Begun
<1>2. ListIsOrder'
  <2>1. /\ nhandles = Len(order)
        /\ \A i \in 1 .. Len(order) : order[i] # d /\ order[i] \in Addresses
    BY <1>0, <1>c DEF ListIsOrder, InList
  <2>2. IsInjective(order')
    BY <1>0, <1>e, <2>1 DEF ListIsOrder, IsInjective
  <2>3. CASE nhandles = 0
    <3>1. order = << >> /\ Len(order) = 0
      BY <1>0, <2>1, <2>3
    <3>2. firsthandle' = d /\ nhandles' = 1
          /\ prev_handle' = [prev_handle EXCEPT ![d] = NULL]
          /\ next_handle' = [next_handle EXCEPT ![d] = NULL]
      BY <1>p, <2>3 DEF LinkLast, Linked
    <3>3. /\ DOMAIN order' = {1} /\ Len(order') = 1 /\ order'[1] = d
          /\ order' # << >>
      BY <1>e, <3>1
    <3>4. prev_handle'[d] = NULL /\ next_handle'[d] = NULL
      BY <1>0, <3>2 DEF TypeOK
    <3> QED
      BY <2>2, <3>2, <3>3, <3>4 DEF ListIsOrder
  <2>4. CASE nhandles # 0
    <3>1. Len(order) >= 1 /\ order # << >>
      BY <2>1, <2>4
    <3>2. handle = order[Len(order)]
      <4>1. InList(handle)
        BY <1>0, <1>c, <3>1 DEF Places
      <4>2. next_handle[handle] = NULL
        BY <2>4 DEF LinkLast
      <4>3. PICK i \in DOMAIN order : order[i] = handle
        BY <4>1 DEF InList
      <4> QED
        BY <4>2, <4>3, ListFacts
    <3>3. firsthandle' = firsthandle /\ nhandles' = nhandles + 1
          /\ prev_handle' = [prev_handle EXCEPT ![d] = handle]
          /\ next_handle' = [next_handle EXCEPT ![handle] = d, ![d] = NULL]
      BY <1>p, <2>4 DEF LinkLast, Linked
    <3>4. firsthandle' = order'[1] /\ order' # << >>
      BY <1>0, <1>e, <3>1, <3>3 DEF ListIsOrder
    <3>5. ASSUME NEW i \in 1 .. Len(order) + 1
          PROVE  /\ next_handle'[order'[i]] =
                      IF i = Len(order) + 1 THEN NULL ELSE order'[i + 1]
                 /\ prev_handle'[order'[i]] = IF i = 1 THEN NULL ELSE order'[i - 1]
      <4>1. CASE i = Len(order) + 1
        BY <1>0, <1>e, <3>1, <3>2, <3>3, <4>1 DEF TypeOK
      <4>2. CASE i \in 1 .. Len(order)
        <5>1. order'[i] = order[i] /\ order[i] # d /\ order[i] \in Addresses
          BY <1>e, <2>1, <4>2
        <5>2. prev_handle'[order[i]] = prev_handle[order[i]]
          BY <3>3, <5>1
        <5>3. prev_handle[order[i]] = IF i = 1 THEN NULL ELSE order'[i - 1]
          BY <1>0, <1>e, <4>2 DEF ListIsOrder
        <5>4. CASE i = Len(order)
          <6>1. next_handle'[order[i]] = d
            <7>1. handle = order[i] /\ handle # d /\ handle \in Addresses
              BY <3>2, <5>1, <5>4
            <7>2. next_handle \in [Addresses -> Handles]
              BY <1>0 DEF TypeOK
            <7> QED
              BY <3>3, <7>1, <7>2
          <6> QED
            BY <1>e, <5>2, <5>3, <5>4, <6>1
        <5>5. CASE i # Len(order)
          <6>1. order[i] # handle
            <7>1. i \in DOMAIN order /\ Len(order) \in DOMAIN order
              BY <4>2
            <7>2. order[i] # order[Len(order)]
              BY <5>5, <7>1, ListFacts
            <7> QED
              BY <3>2, <7>2
          <6>2. next_handle'[order[i]] = next_handle[order[i]]
            BY <1>0, <3>3, <5>1, <6>1 DEF TypeOK
          <6>3. /\ next_handle[order[i]] = order[i + 1]
                /\ order'[i + 1] = order[i + 1]
            <7>1. i \in DOMAIN order /\ i + 1 \in 1 .. Len(order)
              <8>1. PICK n \in Nat : n = Len(order) /\ DOMAIN order = 1 .. n
                BY <1>0
              <8>2. i \in 1 .. n /\ i # n
                BY <4>2, <5>5, <8>1
              <8>3. i + 1 \in 1 .. n
                BY <8>2
              <8> QED
                BY <8>1, <8>3
            <7>2. next_handle[order[i]] = IF i = Len(order) THEN NULL ELSE order[i + 1]
              BY <1>0, <7>1 DEF ListIsOrder
            <7> QED
              BY <1>e, <7>1, <7>2
          <6> QED
            BY <4>2, <5>1, <5>2, <5>3, <6>2, <6>3
        <5> QED
          BY <5>4, <5>5
      <4> QED
        BY <4>1, <4>2
    <3>6. nhandles' = Len(order')
      BY <1>e, <2>1, <3>3
    <3>7. \A i \in DOMAIN order' :
             /\ next_handle'[order'[i]] = IF i = Len(order') THEN NULL ELSE order'[i + 1]
             /\ prev_handle'[order'[i]] = IF i = 1 THEN NULL ELSE order'[i - 1]
      BY <1>e, <3>5
    <3> QED
      BY <2>2, <3>4, <3>6, <3>7 DEF ListIsOrder
  <2> QED
    BY <2>3, <2>4
<1>3. Memory'
  <2>1. \A h \in Addresses : InList(h)' =>
           /\ h \in allocated'
           /\ \A g \in SubHandles(h)' : ~ InList(g)' /\ g \in allocated'
    BY <1>0, <1>b, <1>c, <1>d, <1>i, <1>s DEF Memory, Begun
  <2>2. \A h, k \in Addresses : \A g \in SubHandles(h)' :
           InList(h)' /\ InList(k)' /\ g \in SubHandles(k)' => h = k
    BY <1>0, <1>d, <1>i, <1>s DEF Memory
  <2>3. \A h \in Addresses \ allocated' : content'[h] = Garbage
    BY <1>0, <1>b, <1>c DEF Memory, Leaving, Begun
  <2> QED
    BY <2>1, <2>2, <2>3 DEF Memory
<1>4. Fresh'
  BY <1>c DEF Fresh
<1>5. Variables'
  <2>1. \A s \in Slots : commh[s] # NULL => InList(commh[s])'
    BY <1>0, <1>c, <1>e DEF Variables, InList
  <2> QED
    BY <1>0, <1>c, <2>1 DEF Variables
<1>6. Places'
  BY <1>c DEF Places
<1>7. Requested'
  <2>1. \A r \in Requests : request'[r] # "null" =>
           \E h \in Addresses : InList(h)' /\ r \in RequestsOf(h)'
    BY <1>0, <1>b, <1>d, <1>i, <1>s DEF Requested, Begun
  <2>2. \A h \in Addresses : InList(h)' => \A r \in RequestsOf(h)' : request'[r] # "null"
    <3> SUFFICES ASSUME NEW h \in Addresses, InList(h)', NEW r \in RequestsOf(h)'
                 PROVE  request'[r] # "null"
      OBVIOUS
    <3>1. CASE h = d
      BY <1>b, <1>d, <3>1 DEF Begun
    <3>2. CASE h # d
      <4>1. InList(h) /\ r \in RequestsOf(h) /\ r \in Requests
        BY <1>0, <1>i, <1>s, <3>2, ContentFacts
      <4>2. request[r] # "null"
        BY <1>0, <1>c, <4>1 DEF Requested, Leaving
      <4> QED
        BY <1>b, <4>1, <4>2 DEF Begun
    <3> QED
      BY <3>1, <3>2
  <2>3. \A h, k \in Addresses : \A r \in RequestsOf(h)' :
           InList(h)' /\ InList(k)' /\ r \in RequestsOf(k)' => h = k
    <3>1. \A h \in Addresses : InList(h) => \A r \in RequestsOf(h) : r \notin RequestsOf(d)'
      BY <1>0, <1>b, <1>c, <1>d DEF Requested, Leaving, Begun
    <3> QED
      BY <1>0, <1>i, <1>s, <3>1 DEF Requested
  <2>4. epoch => \A h \in Addresses : InList(h)' => RequestsOf(h)' = {}
    BY <1>0, <1>b, <1>d, <1>i, <1>s DEF Requested, Begun
  <2> QED
    BY <1>c, <2>1, <2>2, <2>3, <2>4 DEF Requested, Leaving
<1>8. Typed'
  <2> SUFFICES ASSUME ~ epoch, NEW h \in Addresses, InList(h)',
                      NEW g \in {h} \cup SubHandles(h)'
               PROVE  content'[g].type # "unset"
    BY <1>c DEF Typed
  <2>1. CASE h = d
    BY <1>b, <1>d, <2>1 DEF Begun
  <2>2. CASE h # d
    BY <1>0, <1>i, <1>s, <2>2 DEF Typed
  <2> QED
    BY <2>1, <2>2
<1> QED
  BY <1>1, <1>2, <1>3, <1>4, <1>5, <1>6, <1>7, <1>8 DEF IInv

\* The list without ch, which was somewhere in it.
LEMMA OrderAfterUnlink ==
  ASSUME IInv, UnlinkFound
  PROVE  \E n \in Nat, k \in Nat, d \in Addresses :
        /\ k \in 1 .. n /\ n = Len(order) /\ n = nhandles /\ DOMAIN order = 1 .. n
        /\ d = ch /\ order[k] = d /\ InList(d)
        /\ \A i \in 1 .. n : order[i] \in Addresses /\ (order[i] = d <=> i = k)
        /\ order' \in Seq(Addresses) /\ Len(order') = n - 1 /\ DOMAIN order' = 1 .. n - 1
        /\ \A i \in 1 .. n - 1 : order'[i] = IF i < k THEN order[i] ELSE order[i + 1]
<1> USE NullAssumption
<1>0. /\ TypeOK /\ ListIsOrder /\ Memory /\ Fresh /\ Variables /\ Places
      /\ Requested /\ Typed
      /\ order \in Seq(Addresses) /\ Len(order) \in Nat /\ DOMAIN order = 1 .. Len(order)
  BY DEF IInv, TypeOK
<1>p. PICK n \in Nat, k \in Nat, d \in Addresses :
        /\ k \in 1 .. n /\ n = Len(order) /\ n = nhandles /\ DOMAIN order = 1 .. n
        /\ d = ch /\ order[k] = d /\ InList(d)
  <2>1. nhandles = Len(order) /\ pc = "unlink" /\ nhandles >= 1 /\ handle = ch
    BY <1>0 DEF ListIsOrder, UnlinkFound
  <2>3. InList(ch)
    BY <1>0, <2>1 DEF Places
  <2>4. PICK i \in DOMAIN order : order[i] = ch
    BY <2>3 DEF InList
  <2>5. i \in Nat /\ i \in 1 .. Len(order) /\ ch \in Addresses
    BY <1>0, <2>4
  <2> QED
    BY <2>1, <2>3, <2>4, <2>5
<1>k. k \in 1 .. n
  BY <1>p
<1> USE <1>k
<1>o. \A i \in 1 .. n : order[i] \in Addresses /\ (order[i] = d <=> i = k)
  <2>1. \A i, j \in 1 .. n : order[i] = order[j] => i = j
    BY <1>p, ListFacts
  <2> QED
    BY <1>0, <1>p, <2>1
<1>e. /\ order' \in Seq(Addresses) /\ Len(order') = n - 1
      /\ DOMAIN order' = 1 .. n - 1
      /\ \A i \in 1 .. n - 1 : order'[i] = IF i < k THEN order[i] ELSE order[i + 1]
  <2>1. order' = [i \in 1 .. n - 1 |->
                    IF \E j \in 1 .. i : order[j] = d THEN order[i + 1] ELSE order[i]]
    BY <1>p DEF UnlinkFound
  <2>2. \A i \in 1 .. n - 1 : (\E j \in 1 .. i : order[j] = d) <=> k <= i
    BY <1>o
  <2>3. \A i \in 1 .. n - 1 : order'[i] = IF i < k THEN order[i] ELSE order[i + 1]
    BY <2>1, <2>2
  <2>4. \A i \in 1 .. n - 1 : order'[i] \in Addresses
    BY <1>o, <2>3
  <2>5. order' \in [1 .. n - 1 -> Addresses] /\ n - 1 \in Nat
    BY <1>p, <2>1, <2>4
  <2>6. order' \in Seq(Addresses) /\ DOMAIN order' = 1 .. n - 1
    BY <2>5
  <2> QED
    BY <2>3, <2>6
<1> QED
  BY <1>e, <1>o, <1>p

\* The handles of the other calls hold what they held.
LEMMA OthersKeptByUnlink ==
  ASSUME IInv, UnlinkFound, NEW h \in Addresses, InList(h), h # ch
  PROVE  /\ SubHandles(h)' = SubHandles(h) /\ RequestsOf(h)' = RequestsOf(h)
         /\ \A g \in {h} \cup SubHandles(h) : content'[g] = content[g] /\ g # ch
<1>1. InList(ch) /\ ch \in Addresses
  BY OrderAfterUnlink
<1>2. \A g \in {h} \cup SubHandles(h) : g \in Addresses /\ g # ch /\ g \notin SubHandles(ch)
  BY <1>1, ContentFacts DEF IInv, Memory
<1>3. \A g \in {h} \cup SubHandles(h) : content'[g] = content[g] /\ g # ch
  BY <1>2 DEF UnlinkFound
<1>4. SubHandles(h)' = SubHandles(h)
  BY <1>3 DEF SubHandles
<1>5. RequestsOf(h)' = RequestsOf(h)
  BY <1>3, <1>4 DEF RequestsOf
<1> QED
  BY <1>3, <1>4, <1>5

\* commqueueitem_unlink takes the commhandle out of the list and it is deleted.
LEMMA UnlinkFoundKeeps ==
  ASSUME IInv, UnlinkFound
  PROVE  IInv'
<1> USE NullAssumption
<1>0. /\ TypeOK /\ ListIsOrder /\ Memory /\ Fresh /\ Variables /\ Places
      /\ Requested /\ Typed
      /\ order \in Seq(Addresses) /\ Len(order) \in Nat /\ DOMAIN order = 1 .. Len(order)
  BY DEF IInv, TypeOK
<1>p. PICK n \in Nat, k \in Nat, d \in Addresses :
        /\ k \in 1 .. n /\ n = Len(order) /\ n = nhandles /\ DOMAIN order = 1 .. n
        /\ d = ch /\ order[k] = d /\ InList(d)
        /\ \A i \in 1 .. n : order[i] \in Addresses /\ (order[i] = d <=> i = k)
        /\ order' \in Seq(Addresses) /\ Len(order') = n - 1 /\ DOMAIN order' = 1 .. n - 1
        /\ \A i \in 1 .. n - 1 : order'[i] = IF i < k THEN order[i] ELSE order[i + 1]
  BY OrderAfterUnlink
<1>k. k \in 1 .. n
  BY <1>p
<1> USE <1>k
<1>c. /\ pc = "unlink" /\ pc' = (IF slot = NULL THEN "all" ELSE "user")
      /\ handle' = NULL /\ ch' = NULL /\ slot' = NULL /\ remaining' = remaining
      /\ epoch' = epoch /\ request' = request
      /\ allocated' = allocated \ {d}
      /\ content' = [h \in Addresses |-> IF h \in {d} \cup SubHandles(d)
                                         THEN Garbage ELSE content[h]]
      /\ commh' = IF slot = NULL THEN commh ELSE [commh EXCEPT ![slot] = NULL]
  BY <1>p DEF UnlinkFound, Return
<1>o. \A i \in 1 .. n : order[i] \in Addresses /\ (order[i] = d <=> i = k)
  BY <1>p
<1>e. /\ order' \in Seq(Addresses) /\ Len(order') = n - 1
      /\ DOMAIN order' = 1 .. n - 1
      /\ \A i \in 1 .. n - 1 : order'[i] = IF i < k THEN order[i] ELSE order[i + 1]
  BY <1>p
<1>i. \A h : InList(h)' <=> InList(h) /\ h # d
  <2>1. ASSUME NEW i \in 1 .. n - 1
        PROVE  order'[i] # d /\ \E j \in 1 .. n : order'[i] = order[j]
    BY <1>e, <1>o
  <2>2. ASSUME NEW j \in 1 .. n, order[j] # d
        PROVE  \E i \in 1 .. n - 1 : order'[i] = order[j]
    <3>1. CASE j < k
      BY <1>e, <3>1
    <3>2. CASE j > k
      <4>1. PICK i \in 1 .. n - 1 : i + 1 = j /\ ~ (i < k)
        <5>1. j - 1 \in 1 .. n - 1 /\ (j - 1) + 1 = j /\ ~ (j - 1 < k)
          BY <3>2
        <5> QED
          BY <5>1
      <4>2. order'[i] = order[j]
        BY <1>e, <4>1
      <4> QED
        BY <4>2
    <3> QED
      BY <1>p, <2>2, <3>2
  <2>3. \A h : InList(h) <=> \E j \in 1 .. n : order[j] = h
    BY <1>p DEF InList
  <2>4. \A h : InList(h)' <=> \E i \in 1 .. n - 1 : order'[i] = h
    BY <1>e DEF InList
  <2> QED
    BY <2>1, <2>2, <2>3, <2>4
<1>s. \A h \in Addresses : InList(h) /\ h # d =>
         /\ SubHandles(h)' = SubHandles(h) /\ RequestsOf(h)' = RequestsOf(h)
         /\ \A g \in {h} \cup SubHandles(h) : content'[g] = content[g] /\ g # d
  BY <1>p, OthersKeptByUnlink
\* The pointers of the other handles: only those beside d change.
<1>l. /\ prev_handle[d] = (IF k = 1 THEN NULL ELSE order[k - 1])
      /\ next_handle[d] = (IF k = n THEN NULL ELSE order[k + 1])
  BY <1>0, <1>p DEF ListIsOrder
<1>x. /\ next_handle' \in [Addresses -> Handles]
      /\ \A h \in Addresses : h # d => next_handle'[h] =
            IF k # 1 /\ h = order[k - 1] THEN next_handle[d] ELSE next_handle[h]
  <2>1. next_handle' = [NextAfter(d) EXCEPT ![d] = NULL]
    BY <1>p DEF UnlinkFound
  <2>2. next_handle \in [Addresses -> Handles] /\ NULL \in Handles
    BY <1>0 DEF TypeOK, Handles
  <2>3. CASE k = 1
    BY <1>l, <2>1, <2>2 DEF NextAfter
  <2>4. CASE k # 1
    <3>1. PICK q \in Addresses : q = order[k - 1] /\ q = prev_handle[d] /\ q # NULL
      BY <1>l, <1>o, <2>4
    <3>2. next_handle' = [[next_handle EXCEPT ![q] = next_handle[d]] EXCEPT ![d] = NULL]
      BY <2>1, <3>1 DEF NextAfter
    <3> QED
      BY <2>2, <2>4, <3>1, <3>2
  <2> QED
    BY <2>3, <2>4
<1>y. /\ prev_handle' \in [Addresses -> Handles]
      /\ \A h \in Addresses : h # d => prev_handle'[h] =
            IF k # n /\ h = order[k + 1] THEN prev_handle[d] ELSE prev_handle[h]
  <2>1. prev_handle' = [PrevAfter(d) EXCEPT ![d] = NULL]
    BY <1>p DEF UnlinkFound
  <2>2. prev_handle \in [Addresses -> Handles] /\ NULL \in Handles
    BY <1>0 DEF TypeOK, Handles
  <2>3. CASE k = n
    BY <1>l, <2>1, <2>2 DEF PrevAfter
  <2>4. CASE k # n
    <3>1. PICK q \in Addresses : q = order[k + 1] /\ q = next_handle[d] /\ q # NULL
      BY <1>l, <1>o, <2>4
    <3>2. prev_handle' = [[prev_handle EXCEPT ![q] = prev_handle[d]] EXCEPT ![d] = NULL]
      BY <2>1, <3>1 DEF PrevAfter
    <3> QED
      BY <2>2, <2>4, <3>1, <3>2
  <2> QED
    BY <2>3, <2>4
<1>1. TypeOK'
  <2>1. firsthandle' \in Handles /\ nhandles' \in Nat
    BY <1>0, <1>p DEF UnlinkFound, FirstAfter, HandlesLeft, TypeOK
  <2>2. content' \in [Addresses -> ContentOf]
    <3>1. Garbage \in ContentOf
      BY DEF Garbage, ContentOf
    <3> QED
      BY <1>0, <1>c, <3>1 DEF TypeOK
  <2> QED
    BY <1>0, <1>c, <1>e, <1>x, <1>y, <2>1, <2>2 DEF TypeOK, Handles
<1>2. ListIsOrder'
  <2>1. \A i, j \in 1 .. n : order[i] = order[j] => i = j
    BY <1>p, ListFacts
  <2>2. IsInjective(order')
    <3>1. \A i, j \in 1 .. n - 1 : order'[i] = order'[j] => i = j
      BY <1>e, <2>1
    <3> QED
      BY <1>e, <3>1 DEF IsInjective
  <2>3. nhandles' = Len(order')
    BY <1>p DEF UnlinkFound, HandlesLeft
  <2>4. firsthandle' = IF order' = << >> THEN NULL ELSE order'[1]
    <3>1. firsthandle' = IF prev_handle[d] = NULL THEN next_handle[d] ELSE firsthandle
      BY <1>p DEF UnlinkFound, FirstAfter
    <3>2. order' = << >> <=> n = 1
      BY <1>e
    <3>3. order # << >> /\ firsthandle = order[1]
      BY <1>0, <1>p DEF ListIsOrder
    <3>4. CASE k = 1
      <4>1. n # 1 => order'[1] = order[2]
        BY <1>e, <3>4
      <4> QED
        BY <1>l, <3>1, <3>2, <3>4, <4>1
    <3>5. CASE k # 1
      <4>1. order[k - 1] # NULL /\ n # 1 /\ order'[1] = order[1]
        BY <1>e, <3>5
      <4> QED
        BY <1>l, <3>1, <3>2, <3>3, <3>5, <4>1
    <3> QED
      BY <3>4, <3>5
  <2>5. ASSUME NEW i \in 1 .. n - 1
        PROVE  next_handle'[order'[i]] = IF i = n - 1 THEN NULL ELSE order'[i + 1]
    <3>1. \A j \in 1 .. n : next_handle[order[j]] = IF j = n THEN NULL ELSE order[j + 1]
      BY <1>0, <1>p DEF ListIsOrder
    <3>2. CASE i < k - 1
      <4>1. order'[i] = order[i] /\ order'[i + 1] = order[i + 1] /\ i # n - 1
        BY <1>e, <3>2
      <4>2. order[i] # order[k - 1] /\ order[i] \in Addresses /\ order[i] # d
        BY <1>o, <2>1, <3>2
      <4>3. next_handle'[order[i]] = next_handle[order[i]]
        BY <1>x, <4>2
      <4>4. next_handle[order[i]] = order[i + 1]
        BY <3>1
      <4> QED
        BY <4>1, <4>3, <4>4
    <3>3. CASE i = k - 1
      <4>1. /\ order'[i] = order[k - 1] /\ k # 1 /\ order[k - 1] \in Addresses
            /\ order[k - 1] # d
        BY <1>e, <1>o, <3>3
      <4>2. next_handle'[order[k - 1]] = next_handle[d]
        BY <1>x, <4>1
      <4>3. (i = n - 1 <=> k = n) /\ (k # n => order'[i + 1] = order[k + 1])
        BY <1>e, <3>3
      <4> QED
        BY <1>l, <4>1, <4>2, <4>3
    <3>4. CASE i >= k
      <4>1. order'[i] = order[i + 1] /\ (i # n - 1 => order'[i + 1] = order[(i + 1) + 1])
        BY <1>e, <3>4
      <4>2. /\ k # 1 => order[i + 1] # order[k - 1]
            /\ order[i + 1] \in Addresses /\ order[i + 1] # d
        BY <1>o, <2>1, <3>4
      <4>3. next_handle'[order[i + 1]] = next_handle[order[i + 1]]
        BY <1>x, <4>2
      <4>4. next_handle[order[i + 1]] = IF i = n - 1 THEN NULL ELSE order[(i + 1) + 1]
        BY <3>1
      <4> QED
        BY <4>1, <4>3, <4>4
    <3> QED
      BY <3>2, <3>3, <3>4
  <2>6. ASSUME NEW i \in 1 .. n - 1
        PROVE  prev_handle'[order'[i]] = IF i = 1 THEN NULL ELSE order'[i - 1]
    <3>1. \A j \in 1 .. n : prev_handle[order[j]] = IF j = 1 THEN NULL ELSE order[j - 1]
      BY <1>0, <1>p DEF ListIsOrder
    <3>2. CASE i < k
      <4>1. order'[i] = order[i] /\ (i # 1 => order'[i - 1] = order[i - 1])
        BY <1>e, <3>2
      <4>2. /\ k # n => order[i] # order[k + 1]
            /\ order[i] \in Addresses /\ order[i] # d
        BY <1>o, <2>1, <3>2
      <4>3. prev_handle'[order[i]] = prev_handle[order[i]]
        BY <1>y, <4>2
      <4>4. prev_handle[order[i]] = IF i = 1 THEN NULL ELSE order[i - 1]
        BY <3>1
      <4> QED
        BY <4>1, <4>3, <4>4
    <3>3. CASE i = k
      <4>1. /\ order'[i] = order[k + 1] /\ k # n /\ order[k + 1] \in Addresses
            /\ order[k + 1] # d
        BY <1>e, <1>o, <3>3
      <4>2. prev_handle'[order[k + 1]] = prev_handle[d]
        BY <1>y, <4>1
      <4>3. k # 1 => order'[i - 1] = order[k - 1]
        BY <1>e, <3>3
      <4> QED
        BY <1>l, <3>3, <4>1, <4>2, <4>3
    <3>4. CASE i > k
      <4>1. order'[i] = order[i + 1] /\ order'[i - 1] = order[i] /\ i # 1
        <5>1. /\ i - 1 \in 1 .. n - 1 /\ ~ (i - 1 < k) /\ (i - 1) + 1 = i
              /\ ~ (i < k) /\ i # 1
          BY <3>4
        <5> QED
          BY <1>e, <5>1
      <4>2. /\ order[i + 1] # order[k + 1] /\ order[i + 1] \in Addresses
            /\ order[i + 1] # d
        BY <1>o, <2>1, <3>4
      <4>3. prev_handle'[order[i + 1]] = prev_handle[order[i + 1]]
        BY <1>y, <4>2
      <4>4. prev_handle[order[i + 1]] = order[i]
        BY <3>1
      <4> QED
        BY <4>1, <4>3, <4>4
    <3> QED
      BY <3>2, <3>3, <3>4
  <2> QED
    BY <1>e, <2>2, <2>3, <2>4, <2>5, <2>6 DEF ListIsOrder
<1>3. Memory'
  <2>1. \A h \in Addresses : InList(h)' =>
           /\ h \in allocated'
           /\ \A g \in SubHandles(h)' : ~ InList(g)' /\ g \in allocated'
    BY <1>0, <1>c, <1>i, <1>p, <1>s DEF Memory, Leaving
  <2>2. \A h, k1 \in Addresses : \A g \in SubHandles(h)' :
           InList(h)' /\ InList(k1)' /\ g \in SubHandles(k1)' => h = k1
    BY <1>0, <1>i, <1>s DEF Memory
  <2>3. \A h \in Addresses \ allocated' : content'[h] = Garbage
    BY <1>0, <1>c, <1>p DEF Memory, Leaving
  <2> QED
    BY <2>1, <2>2, <2>3 DEF Memory
<1>4. Fresh'
  BY <1>c DEF Fresh
<1>5. Variables'
  <2>1. \A s \in Slots : commh'[s] # NULL => commh'[s] = commh[s] /\ commh[s] # d
    <3>1. CASE slot = NULL
      BY <1>0, <1>c, <3>1 DEF Variables
    <3>2. CASE slot # NULL
      <4>1. slot \in Slots /\ commh[slot] = d /\ d # NULL
        BY <1>0, <1>p, <3>2 DEF Variables, TypeOK
      <4>2. \A s \in Slots : s # slot => commh[s] # d
        BY <1>0, <4>1 DEF Variables
      <4>3. \A s \in Slots : commh'[s] = IF s = slot THEN NULL ELSE commh[s]
        BY <1>0, <1>c DEF TypeOK
      <4> QED
        BY <4>2, <4>3
    <3> QED
      BY <3>1, <3>2
  <2>2. \A s \in Slots : commh'[s] # NULL => \E i \in DOMAIN order' : order'[i] = commh'[s]
    <3>1. ASSUME NEW s \in Slots, commh'[s] # NULL
          PROVE  \E i \in DOMAIN order' : order'[i] = commh'[s]
      <4>1. PICK h \in Addresses : h = commh'[s] /\ h = commh[s] /\ h # d
        BY <1>0, <2>1, <3>1 DEF TypeOK, Handles
      <4>2. InList(h)
        BY <1>0, <1>c, <4>1 DEF Variables
      <4>3. InList(h)'
        BY <1>i, <4>1, <4>2
      <4> QED
        BY <4>1, <4>3 DEF InList
    <3> QED
      BY <3>1
  <2>3. \A s, t \in Slots : commh'[s] = commh'[t] /\ commh'[s] # NULL => s = t
    BY <1>0, <2>1 DEF Variables
  <2>5. slot = NULL => \A s \in Slots : commh[s] = NULL
    <3>1. pc = "unlink"
      BY <1>c
    <3> QED
      BY <1>0, <3>1 DEF Variables
  <2>6. /\ pc' # "link" /\ pc' \notin {"wait", "unlink"} /\ slot' = NULL
        /\ pc' = "all" => \A s \in Slots : commh'[s] = NULL
    BY <1>c, <2>5
  <2> QED
    BY <2>2, <2>3, <2>6 DEF Variables, InList
<1>6. Places'
  BY <1>c DEF Places
<1>7. Requested'
  <2>1. \A r \in Requests : request[r] # "null" =>
           \E h \in Addresses : InList(h)' /\ r \in RequestsOf(h)'
    BY <1>0, <1>c, <1>i, <1>p, <1>s DEF Requested, Leaving
  <2>2. \A h \in Addresses : InList(h)' => \A r \in RequestsOf(h)' : request[r] # "null"
    BY <1>0, <1>i, <1>p, <1>s DEF Requested, Leaving
  <2>3. \A h, k1 \in Addresses : \A r \in RequestsOf(h)' :
           InList(h)' /\ InList(k1)' /\ r \in RequestsOf(k1)' => h = k1
    BY <1>0, <1>i, <1>s DEF Requested
  <2>4. epoch => \A h \in Addresses : InList(h)' => RequestsOf(h)' = {}
    BY <1>0, <1>i, <1>s DEF Requested
  <2> QED
    BY <1>c, <2>1, <2>2, <2>3, <2>4 DEF Requested, Leaving
<1>8. Typed'
  BY <1>0, <1>c, <1>i, <1>s DEF Typed
<1> QED
  BY <1>1, <1>2, <1>3, <1>4, <1>5, <1>6, <1>7, <1>8 DEF IInv

\* A step that changes nothing keeps all of it.
LEMMA StutterKeeps ==
  ASSUME IInv, UNCHANGED vars
  PROVE  IInv'
<1>1. /\ TypeOK' = TypeOK /\ ListIsOrder' = ListIsOrder
  BY DEF TypeOK, ListIsOrder, vars, list, memory, program, call
<1>2. Memory' = Memory /\ Fresh' = Fresh
  BY DEF Memory, Fresh, InList, Leaving, SubHandles, vars, list, memory, program, call
<1>3. Variables' = Variables /\ Places' = Places
  BY DEF Variables, Places, InList, vars, list, memory, program, call
<1>4. Requested' = Requested /\ Typed' = Typed
  BY DEF Requested, Typed, InList, Leaving, RequestsOf, SubHandles, vars, list, memory,
         program, call
<1> QED
  BY <1>1, <1>2, <1>3, <1>4 DEF IInv

\* The queue is empty at first.
LEMMA InitInvariant == Init => IInv
<1> SUFFICES ASSUME Init PROVE IInv
  OBVIOUS
<1> USE NullAssumption
<1>1. TypeOK
  <2>1. Garbage \in ContentOf
    BY DEF Garbage, ContentOf
  <2>2. order \in Seq(Addresses) /\ allocated \subseteq Addresses
    BY DEF Init
  <2>3. /\ prev_handle \in [Addresses -> Handles]
        /\ next_handle \in [Addresses -> Handles]
        /\ commh \in [Slots -> Handles]
    BY DEF Init, Handles
  <2>4. /\ request \in [Requests -> {"null", "active", "complete"}]
        /\ content \in [Addresses -> ContentOf]
    BY <2>1 DEF Init
  <2>5. /\ epoch \in BOOLEAN /\ nhandles \in Nat /\ remaining \in Nat
        /\ firsthandle \in Handles /\ handle \in Handles /\ ch \in Handles
        /\ slot \in Slots \cup {NULL} /\ pc \in {"user", "link", "wait", "unlink", "all"}
    BY DEF Init, Handles
  <2> QED
    BY <2>2, <2>3, <2>4, <2>5 DEF TypeOK
<1>2. \A h : ~ InList(h)
  BY DEF Init, InList
<1>3. ListIsOrder
  BY DEF Init, ListIsOrder, IsInjective
<1>4. Memory /\ Fresh /\ Variables /\ Places /\ Requested /\ Typed
  BY <1>2 DEF Init, Memory, Fresh, Variables, Places, Requested, Typed
<1> QED
  BY <1>1, <1>3, <1>4 DEF IInv

\* Every step of the program, the loops and MPI keeps the invariant.
LEMMA Inductive == IInv /\ [Next]_vars => IInv'
<1> SUFFICES ASSUME IInv, [Next]_vars PROVE IInv'
  OBVIOUS
<1>1. CASE Calls
  BY <1>1, StartKeeps, WaitKeeps, TestKeeps, CancelKeeps, WaitAllKeeps, EpochTurnKeeps
     DEF Calls
<1>2. CASE Proceeds
  BY <1>2, LinkNextKeeps, LinkLastKeeps, WaitFirstKeeps, WaitedAllKeeps, WaitedKeeps,
     UnlinkNextKeeps, UnlinkFoundKeeps, UnlinkMissedKeeps
     DEF Proceeds
<1>3. CASE \E r \in Requests : Completes(r)
  BY <1>3, CompletesKeeps
<1>4. CASE UNCHANGED vars
  BY <1>4, StutterKeeps
<1> QED
  BY <1>1, <1>2, <1>3, <1>4 DEF Next

\* The inductive invariant holds in every state.
THEOREM Invariance == Spec => []IInv
BY InitInvariant, Inductive, PTL DEF Spec

\* Every variable always holds a value the code could give it.
THEOREM TypeCorrect == Spec => []TypeOK
<1>1. IInv => TypeOK
  BY DEF IInv
<1> QED
  BY <1>1, Invariance, PTL

\* The links, firsthandle and nhandles always describe the same list, in the order of
\* the calls, and each commhandle is in it once.
THEOREM ListStaysInOrder == Spec => []ListIsOrder
<1>1. IInv => ListIsOrder
  BY DEF IInv
<1> QED
  BY <1>1, Invariance, PTL

\* Every MPI request that is not over is in one linked handle, and what commwait and
\* commqueuewait read of a linked handle is allocated and set.
THEOREM NothingIsLost == Spec => []NothingLost
<1>1. IInv => NothingLost
  <2> SUFFICES ASSUME IInv PROVE NothingLost
    OBVIOUS
  <2>0. Memory /\ Requested /\ Typed
    BY DEF IInv
  <2>1. \A h : h \in Intact <=> InList(h) /\ ~ Leaving(h)
    BY DEF Intact, InList, Leaving
  <2>2. \A h \in Intact : h \in Addresses
    BY <2>1, ListFacts
  <2>3. ASSUME NEW r \in Requests, request[r] # "null"
        PROVE  Cardinality({h \in Intact : r \in RequestsOf(h)}) = 1
    <3>1. PICK h \in Addresses : InList(h) /\ r \in RequestsOf(h)
      BY <2>0, <2>3 DEF Requested
    <3>2. h \in Intact
      BY <2>0, <2>1, <2>3, <3>1 DEF Requested
    <3>3. \A g \in Intact : r \in RequestsOf(g) => g = h
      BY <2>0, <2>1, <2>2, <3>1 DEF Requested
    <3>4. {g \in Intact : r \in RequestsOf(g)} = {h}
      BY <3>1, <3>2, <3>3
    <3> QED
      BY <3>4, FS_Singleton
  <2>4. ASSUME ~ epoch, NEW h \in Intact, NEW g \in {h} \cup SubHandles(h)
        PROVE  g \in allocated /\ content[g].type # "unset"
    BY <2>0, <2>1, <2>2, <2>4 DEF Memory, Typed
  <2> QED
    BY <2>3, <2>4 DEF NothingLost
<1> QED
  BY <1>1, Invariance, PTL

-----------------------------------------------------------------------------
\* What the refinement maps the queue to.
CallsOf == [i \in DOMAIN order |-> RequestsOf(order[i])]
ActiveOf == {r \in Requests : request[r] = "active"}

\* The requests of each call before and after a step.
LEMMA CallsFacts ==
  /\ CallsOf = [i \in DOMAIN order |-> RequestsIn(content, order[i])]
  /\ CallsOf' = [i \in DOMAIN order' |-> RequestsIn(content', order'[i])]
  /\ \A h : RequestsOf(h) = RequestsIn(content, h) /\ RequestsOf(h)' = RequestsIn(content', h)
BY DEF CallsOf, RequestsOf, SubHandles, RequestsIn

\* Linking the commhandle of a call is the Start of the abstract queue.
LEMMA LinkLastStarts ==
  ASSUME IInv, LinkLast
  PROVE  ActiveOf \subseteq ActiveOf' /\ CallsOf' = Append(CallsOf, ActiveOf' \ ActiveOf)
<1>0. /\ order \in Seq(Addresses) /\ Len(order) \in Nat
      /\ DOMAIN order = 1 .. Len(order)
      /\ ch \in Addresses
  BY DEF IInv, TypeOK, Fresh, LinkLast
<1>p. PICK d \in Addresses, n \in Nat : d = ch /\ n = Len(order)
  BY <1>0
<1>1. /\ order' \in Seq(Addresses) /\ DOMAIN order' = 1 .. n + 1
      /\ \A i \in 1 .. n : order'[i] = order[i]
      /\ order'[n + 1] = d
  BY <1>0, <1>p DEF LinkLast, Linked
<1>2. /\ \A r \in RequestsIn(content', d) :
            r \in Requests /\ request[r] = "null" /\ request'[r] = "active"
      /\ \A r \in Requests : r \notin RequestsIn(content', d) => request'[r] = request[r]
  BY <1>p, BegunByLink DEF Begun
<1>3. /\ ActiveOf \subseteq ActiveOf'
      /\ ActiveOf' \ ActiveOf = RequestsIn(content', d)
  BY <1>2 DEF ActiveOf
<1>4. \A i \in 1 .. n : RequestsIn(content', order'[i]) = RequestsIn(content, order[i])
  <2> SUFFICES ASSUME NEW i \in 1 .. n
               PROVE  RequestsIn(content', order'[i]) = RequestsIn(content, order[i])
    OBVIOUS
  <2>1. PICK h \in Addresses : h = order[i] /\ h = order'[i] /\ InList(h)
    BY <1>1, <1>p DEF InList
  <2>2. RequestsOf(h)' = RequestsOf(h)
    BY <2>1, OthersKeptByLink
  <2> QED
    BY <2>1, <2>2, CallsFacts
<1>5. /\ CallsOf = [i \in 1 .. n |-> RequestsIn(content, order[i])]
      /\ CallsOf' = [i \in 1 .. n + 1 |-> RequestsIn(content', order'[i])]
  BY <1>1, <1>p, CallsFacts
<1> QED
  BY <1>1, <1>3, <1>4, <1>5

\* Unlinking a commhandle is the Finish of the abstract queue.
LEMMA UnlinkFoundFinishes ==
  ASSUME IInv, UnlinkFound
  PROVE  /\ ActiveOf' = ActiveOf
         /\ \E k \in DOMAIN CallsOf :
               /\ CallsOf[k] \cap ActiveOf = {}
               /\ CallsOf' = [i \in 1 .. Len(CallsOf) - 1 |->
                                 IF i < k THEN CallsOf[i] ELSE CallsOf[i + 1]]
<1>p. PICK n \in Nat, k \in Nat, d \in Addresses :
        /\ k \in 1 .. n /\ DOMAIN order = 1 .. n
        /\ d = ch /\ order[k] = d /\ InList(d)
        /\ \A i \in 1 .. n : order[i] \in Addresses /\ (order[i] = d <=> i = k)
        /\ DOMAIN order' = 1 .. n - 1
        /\ \A i \in 1 .. n - 1 : order'[i] = IF i < k THEN order[i] ELSE order[i + 1]
  BY OrderAfterUnlink
<1>k. k \in 1 .. n
  BY <1>p
<1>1. ActiveOf' = ActiveOf
  BY DEF UnlinkFound, ActiveOf
<1>2. /\ CallsOf = [i \in 1 .. n |-> RequestsIn(content, order[i])]
      /\ CallsOf' = [i \in 1 .. n - 1 |-> RequestsIn(content', order'[i])]
  BY <1>p, CallsFacts
<1>3. Len(CallsOf) = n /\ DOMAIN CallsOf = 1 .. n
  BY <1>2
<1>4. CallsOf[k] \cap ActiveOf = {}
  <2>1. \A r \in RequestsOf(d) : request[r] = "null"
    BY <1>p DEF IInv, Requested, Leaving, UnlinkFound
  <2>2. CallsOf[k] = RequestsOf(d)
    BY <1>p, CallsFacts
  <2> QED
    BY <2>1, <2>2 DEF ActiveOf
<1>5. ASSUME NEW i \in 1 .. n - 1
      PROVE  RequestsIn(content', order'[i]) = IF i < k THEN CallsOf[i] ELSE CallsOf[i + 1]
  <2>1. PICK j \in 1 .. n : j # k /\ j = (IF i < k THEN i ELSE i + 1) /\ order'[i] = order[j]
    <3>1. CASE i < k
      BY <1>p
    <3>2. CASE ~ (i < k)
      BY <1>p
    <3> QED
      BY <3>1, <3>2
  <2>2. PICK h \in Addresses : h = order[j] /\ h # ch /\ InList(h)
    BY <1>p, <2>1 DEF InList
  <2>3. RequestsOf(h)' = RequestsOf(h)
    BY <2>2, OthersKeptByUnlink
  <2>4. RequestsIn(content', order'[i]) = CallsOf[j]
    BY <1>2, <2>1, <2>2, <2>3, CallsFacts
  <2> QED
    BY <2>1, <2>4
<1>6. CallsOf' = [i \in 1 .. n - 1 |-> IF i < k THEN CallsOf[i] ELSE CallsOf[i + 1]]
  BY <1>2, <1>5
<1> QED
  BY <1>k, <1>1, <1>3, <1>4, <1>6

\* A step that changes neither the list nor what its commhandles hold, nor which
\* requests are active, is a stutter of the abstract queue.
LEMMA OtherStepsKeepCalls ==
  ASSUME IInv, [Next]_vars, ~ LinkLast, ~ UnlinkFound
  PROVE  ActiveOf' \subseteq ActiveOf /\ CallsOf' = CallsOf
<1>1. order' = order /\ content' = content
  BY DEF Next, Calls, Proceeds, vars, list, memory, program, call, Start, LinkNext,
         Wait, WaitAll, WaitFirst, WaitedAll, Waited, Test, Cancel, UnlinkNext,
         UnlinkMissed, Completes, EpochTurn
<1>2. request \in [Requests -> {"null", "active", "complete"}]
  BY DEF IInv, TypeOK
<1>3. \A r \in Requests : request'[r] = "active" => request[r] = "active"
  BY <1>2
     DEF Next, Calls, Proceeds, vars, list, memory, program, call, Start, LinkNext,
         Wait, WaitAll, WaitFirst, WaitedAll, Waited, Test, Cancel, UnlinkNext,
         UnlinkMissed, Completes, EpochTurn
<1> QED
  BY <1>1, <1>3, CallsFacts DEF ActiveOf

\* The initial states are those of the abstract queue.
LEMMA RefinementInit == Init => Queue!Init
BY DEF Init, Queue!Init

\* Every step is a step of the abstract queue or a stutter.
LEMMA RefinementStep == IInv /\ [Next]_vars => [Queue!Next]_(Queue!vars)
<1> SUFFICES ASSUME IInv, [Next]_vars PROVE [Queue!Next]_(Queue!vars)
  OBVIOUS
<1>1. CASE LinkLast
  <2>1. Queue!StartCall
    BY <1>1, LinkLastStarts DEF Queue!StartCall, CallsOf, ActiveOf
  <2> QED
    BY <2>1 DEF Queue!Next
<1>2. CASE UnlinkFound
  <2>1. \E k \in DOMAIN CallsOf : Queue!FinishCall(k)
    BY <1>2, UnlinkFoundFinishes DEF Queue!FinishCall, CallsOf, ActiveOf
  <2> QED
    BY <2>1 DEF Queue!Next, CallsOf
<1>3. CASE ~ LinkLast /\ ~ UnlinkFound
  <2>1. Queue!MessagesDone
    BY <1>3, OtherStepsKeepCalls DEF Queue!MessagesDone, CallsOf, ActiveOf
  <2> QED
    BY <2>1 DEF Queue!Next
<1> QED
  BY <1>1, <1>2, <1>3

\* The linked list of commhandles implements the queue of calls with their requests.
THEOREM Refinement == Spec => Implements
<1>1. Spec => Queue!Init /\ [][Queue!Next]_(Queue!vars)
  BY Invariance, RefinementInit, RefinementStep, PTL DEF Spec
<1> QED
  BY <1>1 DEF Implements, Queue!Spec

=============================================================================
