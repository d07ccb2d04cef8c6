-------------------------- MODULE CompTunnelProofs --------------------------
(* Theorems about CompTunnel for any number of calls and connections: the     *)
(* inductive invariant IInv, that the sides stay in step, and the refinement  *)
(* of RemoteCall.                                                             *)
EXTENDS CompTunnel, SequenceTheorems, TLAPS

\* The actual side is in one of these places, or it has given up since.
At(places) == apc \in {"user", "accept"} \cup places

\* Nothing is in the connections that have not been made.
Unused ==
    \A c \in Connections : c > connections =>
        toActual[c] = << >> /\ toDual[c] = << >>

\* Where each side is, and what it may do there.
Places ==
    /\ sock # 0 => asock = sock
    /\ connected => sock # 0
    /\ ~ connected => ~ outstandingWaitFlag /\ ~ vm_released
    /\ ~ connected => dpc \in {"user", "connect", "hello", "proceed"}
    /\ connected => dpc \in {"user", "execute", "phase", "wait"}
    /\ ~ connected /\ dpc \in {"user", "connect"} => sock = 0
    /\ asock = 0 => At({})
    /\ dpc \in {"hello", "proceed"} => sock # 0
    /\ dpc \in {"execute", "phase", "wait"} => vm_cargo # NoCargo
    /\ dpc \in {"execute", "phase"} => sent < MaxCalls
    /\ dpc = "execute" /\ op # "destroy" => ~ outstandingWaitFlag
    /\ dpc = "phase" => ~ outstandingWaitFlag
    /\ dpc = "wait" => outstandingWaitFlag
    /\ dpc = "user" => (vm_released <=> outstandingWaitFlag)
    /\ outstandingWaitFlag => vm_cargo # NoCargo

\* The wires while the tunnel is negotiated.
Negotiation ==
    /\ dpc = "hello" =>
         At({"continue"}) /\ toActual[sock] = << >>
         /\ toDual[sock] = <<Handshake("hello")>>
    /\ dpc = "proceed" =>
         \/ At({"continue"}) /\ toActual[sock] = <<Handshake("continue")>>
            /\ toDual[sock] = << >>
         \/ At({"method"}) /\ toActual[sock] = << >>
            /\ toDual[sock] = <<Handshake("proceed")>>

\* Between two calls the wires are empty.
Idle ==
    connected /\ ~ outstandingWaitFlag /\ dpc # "phase" =>
        At({"method"}) /\ toActual[sock] = << >> /\ toDual[sock] = << >>

\* The method is sent, its phase not yet.
HalfSent ==
    dpc = "phase" =>
        /\ toDual[sock] = << >>
        /\ \/ /\ At({"method"})
              /\ \E k \in {"run", "none"} : toActual[sock] = <<Message(k, sent + 1)>>
           \/ /\ At({"phase"})
              /\ apc = "phase" => job.call = sent + 1
              /\ toActual[sock] = << >>

\* An outstanding call is on its way, being performed, or answered.
Outstanding ==
    outstandingWaitFlag =>
        \/ /\ At({"method"})
           /\ \E k \in {"run", "none"} :
                toActual[sock] = <<Message(k, sent), Message("phase", sent)>>
           /\ toDual[sock] = << >>
        \/ /\ At({"phase"})
           /\ apc = "phase" => job.call = sent
           /\ toActual[sock] = <<Message("phase", sent)>>
           /\ toDual[sock] = << >>
        \/ /\ At({"execute", "answer"})
           /\ apc \in {"execute", "answer"} => job.call = sent
           /\ apc = "answer" => performed = sent
           /\ toActual[sock] = << >>
           /\ toDual[sock] = << >>
        \/ /\ At({"method"})
           /\ performed = sent
           /\ toActual[sock] = << >>
           /\ toDual[sock] = <<Message("answer", sent)>>

\* What was sent to the actual side, received or performed by it on any
\* connection is not newer than the last call, or the one being sent.
Newest == IF dpc = "phase" THEN sent + 1 ELSE sent
Below(wire, n) == \A i \in 1 .. Len(wire) : wire[i].call <= n
NoneNewer ==
    /\ \A c \in Connections : Below(toActual[c], Newest)
    /\ job.call <= Newest
    /\ performed <= sent

\* A step leaves the other connections alone.
Elsewhere(c) == \A d \in Connections \ {c} : toActual'[d] = toActual[d] /\ toDual'[d] = toDual[d]

\* The inductive invariant.
IInv == TypeOK /\ Unused /\ Places /\ Negotiation /\ Idle /\ HalfSent /\ Outstanding
        /\ NoneNewer
-----------------------------------------------------------------------------
\* What Head, Tail and Append do to the short sequences on the wires.
LEMMA Short == ASSUME NEW x, NEW y
               PROVE  /\ Append(<< >>, x) = <<x>>
                      /\ Append(<<x>>, y) = <<x, y>>
                      /\ Head(<<x>>) = x
                      /\ Head(<<x, y>>) = x
                      /\ Tail(<<x>>) = << >>
                      /\ Tail(<<x, y>>) = <<y>>
                      /\ <<x>> # << >>
                      /\ <<x, y>> # << >>
<1>1. Append(<< >>, x) = <<x>>
  OBVIOUS
<1>6. Append(<<x>>, y) = <<x, y>>
  <2>1. <<x>> \in Seq({x, y}) /\ y \in {x, y}
    OBVIOUS
  <2>2. <<x, y>> \in Seq({x, y}) /\ Len(<<x, y>>) = 2
    OBVIOUS
  <2>3. Append(<<x>>, y) \in Seq({x, y}) /\ Len(Append(<<x>>, y)) = 2
    BY <2>1, AppendProperties
  <2>4. Append(<<x>>, y)[1] = x /\ Append(<<x>>, y)[2] = y
    BY <2>1, AppendProperties
  <2>5. \A i \in 1 .. 2 : Append(<<x>>, y)[i] = <<x, y>>[i]
    BY <2>4
  <2> QED
    BY <2>2, <2>3, <2>5, SeqEqual
<1>2. Head(<<x>>) = x /\ Head(<<x, y>>) = x
  OBVIOUS
<1>3. Tail(<<x>>) = << >>
  OBVIOUS
<1>4. Tail(<<x, y>>) = <<y>>
  OBVIOUS
<1>5. <<x>> # << >> /\ <<x, y>> # << >>
  OBVIOUS
<1> QED
  BY <1>1, <1>2, <1>3, <1>4, <1>5, <1>6

\* The tail of a sequence of messages, and its head.
LEMMA Tails == ASSUME NEW w \in Seq(Messages), w # << >>
               PROVE  /\ Head(w) \in Messages
                      /\ Tail(w) \in Seq(Messages)
                      /\ Head(w) = w[1] /\ 1 \in 1 .. Len(w)
                      /\ \A i \in 1 .. Len(Tail(w)) : i + 1 \in 1 .. Len(w) /\ Tail(w)[i] = w[i + 1]
OBVIOUS

\* Messages about calls within the bound, and those of the negotiation.
LEMMA MessageTypes ==
    ASSUME NEW k \in {"hello", "continue", "proceed", "run", "none", "phase", "answer"}
    PROVE  /\ \A n \in 0 .. MaxCalls : Message(k, n) \in Messages
           /\ Handshake(k) \in Messages
           /\ Handshake(k).call = 0
           /\ \A n : Message(k, n).call = n
BY BoundsAssumption DEF Messages, Message, Handshake

\* A wire with nothing newer than n stays so when a message is taken from it,
\* or one that is not newer is put.
LEMMA Bounded == ASSUME NEW w \in Seq(Messages), NEW n \in Nat, Below(w, n)
                 PROVE  /\ w # << >> => Below(Tail(w), n) /\ Head(w).call <= n
                        /\ \A m \in Messages : m.call <= n => Below(Append(w, m), n)
                        /\ Below(w, n + 1)
<1> USE BoundsAssumption DEF Below
<1>1. w # << >> => Below(Tail(w), n) /\ Head(w).call <= n
  BY Tails
<1>2. ASSUME NEW m \in Messages, m.call <= n PROVE Below(Append(w, m), n)
  <2>1. Len(Append(w, m)) = Len(w) + 1 /\ Append(w, m)[Len(w) + 1] = m
        /\ \A i \in 1 .. Len(w) : Append(w, m)[i] = w[i]
    BY AppendProperties
  <2> QED
    BY <1>2, <2>1
<1>3. Below(w, n + 1)
  <2> SUFFICES ASSUME NEW i \in 1 .. Len(w) PROVE w[i].call <= n + 1
    OBVIOUS
  <2>1. w[i] \in Messages
    OBVIOUS
  <2>2. w[i].call \in Nat /\ w[i].call <= n
    BY <2>1 DEF Messages
  <2> QED
    BY <2>2
<1> QED
  BY <1>1, <1>2, <1>3

\* Everything is in its initial place before the first call.
LEMMA InitInvariant == Init => IInv
<1> SUFFICES ASSUME Init PROVE IInv
  OBVIOUS
<1> USE BoundsAssumption DEF Init
<1>1. TypeOK
  <2>1. job \in Messages
    BY DEF Messages, Handshake, Message
  <2>5. /\ connected \in BOOLEAN /\ outstandingWaitFlag \in BOOLEAN
        /\ vm_released \in BOOLEAN
    OBVIOUS
  <2> QED
    BY <2>1, <2>5 DEF TypeOK
<1>2. Unused /\ Places /\ Negotiation /\ Idle /\ HalfSent /\ Outstanding
  BY DEF Unused, Places, Negotiation, Idle, HalfSent, Outstanding, At
<1>3. NoneNewer
  BY DEF NoneNewer, Newest, Below, Handshake, Message
<1> QED
  BY <1>1, <1>2, <1>3 DEF IInv

-----------------------------------------------------------------------------
\* Every step of either side preserves the inductive invariant: one step of the
\* proof per action of the code, and under it one per conjunct of IInv.
THEOREM Inductive == IInv /\ [Next]_vars => IInv'
<1> SUFFICES ASSUME IInv, [Next]_vars PROVE IInv'
  OBVIOUS
<1> USE BoundsAssumption DEF IInv, dualState, actualState, wires
<1>w. /\ toActual \in [Connections -> Seq(Messages)]
      /\ toDual \in [Connections -> Seq(Messages)]
  BY DEF TypeOK
<1>t. /\ connected \in BOOLEAN /\ outstandingWaitFlag \in BOOLEAN
      /\ vm_released \in BOOLEAN
  BY DEF TypeOK
<1>1. CASE SetServices
  <2>1. TypeOK'
    <3>1. /\ connected' \in BOOLEAN /\ outstandingWaitFlag' \in BOOLEAN
          /\ vm_released' \in BOOLEAN
      BY <1>1, <1>t, Zenon DEF SetServices, Destroyed, FlagAfterTimeout
    <3> QED
      BY <1>1, <3>1 DEF SetServices, Destroyed, FlagAfterTimeout, NoCargo, TypeOK
  <2>2. Unused'
    BY <1>1 DEF SetServices, Unused
  <2>3. Places'
    BY <1>1 DEF SetServices, Places, At
  <2>4. Negotiation'
    BY <1>1 DEF SetServices, Negotiation
  <2>5. Idle'
    BY <1>1 DEF SetServices, Idle
  <2>6. HalfSent'
    BY <1>1 DEF SetServices, HalfSent
  <2>7. Outstanding'
    BY <1>1 DEF SetServices, Outstanding
  <2>8. NoneNewer'
    <3>1. Newest' = Newest /\ performed' <= sent' /\ job' = job
      BY <1>1 DEF SetServices, Newest, NoneNewer
    <3>2. \A x \in Connections : Below(toActual'[x], Newest)
      BY <1>1 DEF SetServices, NoneNewer
    <3> QED
      BY <3>1, <3>2 DEF NoneNewer
  <2> QED
    BY <2>1, <2>2, <2>3, <2>4, <2>5, <2>6, <2>7, <2>8
<1>2. CASE Connect
  <2> DEFINE c == connections + 1
  <2>a. c \in Connections /\ toDual[c] = << >> /\ toActual[c] = << >>
    BY <1>2 DEF Connect, TypeOK, Unused, Connections
  <2>p. toDual' = Put(toDual, c, Handshake("hello")) /\ toActual' = toActual
    BY <1>2 DEF Connect
  <2>b. toDual'[c] = <<Handshake("hello")>> /\ toActual'[c] = << >>
    BY <2>a, <2>p, <1>w DEF Put
  <2>e. Elsewhere(c)
    BY <2>p DEF Elsewhere, Put
  <2>c. /\ toActual' \in [Connections -> Seq(Messages)]
        /\ toDual' \in [Connections -> Seq(Messages)]
    BY <2>a, <2>p, <1>w, MessageTypes DEF Put
  <2>f. sock' = c /\ asock' = c /\ connections' = c /\ sock = 0 /\ ~ connected
    BY <1>2 DEF Connect, Places
  <2> HIDE DEF c
  <2>1. TypeOK'
    BY <1>2, <2>c DEF Connect, TypeOK
  <2>2. Unused'
    <3>1. /\ connections \in Nat /\ connections' = connections + 1
          /\ connections + 1 = c
      BY <2>f DEF TypeOK, c
    <3>2. ASSUME NEW x \in Connections, x > connections'
          PROVE  x # c /\ x > connections
      BY <3>1, <3>2 DEF Connections
    <3> QED
      BY <2>e, <3>2 DEF Unused, Elsewhere
  <2>3. Places'
    BY <1>2 DEF Connect, Places, TypeOK
  <2>4. Negotiation'
    BY <1>2, <2>b, <2>f DEF Connect, Negotiation, At
  <2>5. Idle'
    BY <1>2 DEF Connect, Idle, Places
  <2>6. HalfSent'
    BY <1>2 DEF Connect, HalfSent
  <2>7. Outstanding'
    BY <1>2 DEF Connect, Outstanding, Places
  <2>8. NoneNewer'
    <3>1. Newest' = Newest /\ performed' <= sent' /\ job' = job
      BY <1>2 DEF Connect, Newest, NoneNewer
    <3>2. \A x \in Connections : Below(toActual'[x], Newest)
      BY <1>2 DEF Connect, NoneNewer
    <3> QED
      BY <3>1, <3>2 DEF NoneNewer
  <2> QED
    BY <2>1, <2>2, <2>3, <2>4, <2>5, <2>6, <2>7, <2>8
<1>3. CASE RecvHello
  <2>a. sock \in Connections /\ asock = sock
    BY <1>3 DEF RecvHello, TypeOK, Places, Connections
  <2>b. /\ toActual[sock] = << >> /\ toDual[sock] = <<Handshake("hello")>>
        /\ At({"continue"})
    BY <1>3 DEF RecvHello, Negotiation
  <2>p. /\ toActual' = Put(toActual, sock, Handshake("continue"))
        /\ toDual' = Take(toDual, sock)
    BY <1>3 DEF RecvHello, Places
  <2>c. toActual'[sock] = <<Handshake("continue")>> /\ toDual'[sock] = << >>
    BY <2>a, <2>b, <2>p, <1>w DEF Put, Take
  <2>e. Elsewhere(sock)
    BY <2>p DEF Elsewhere, Put, Take
  <2>d. /\ toActual' \in [Connections -> Seq(Messages)]
        /\ toDual' \in [Connections -> Seq(Messages)]
    BY <2>a, <2>b, <2>p, <1>w, MessageTypes DEF Put, Take
  <2>1. TypeOK'
    BY <1>3, <2>d DEF RecvHello, TypeOK
  <2>2. Unused'
    BY <1>3, <2>e DEF RecvHello, Elsewhere, Unused
  <2>3. Places'
    BY <1>3 DEF RecvHello, Places
  <2>4. Negotiation'
    BY <1>3, <2>c DEF RecvHello, Negotiation, At
  <2>5. Idle'
    BY <1>3 DEF RecvHello, Idle
  <2>6. HalfSent'
    BY <1>3 DEF RecvHello, HalfSent
  <2>7. Outstanding'
    BY <1>3 DEF RecvHello, Outstanding, Places
  <2>8. NoneNewer'
    <3>1. /\ Newest' = Newest /\ performed' <= sent' /\ job' = job
          /\ Newest \in Nat /\ job.call \in Nat
      BY <1>3 DEF RecvHello, Newest, NoneNewer, TypeOK, Messages
    <3>2. \A x \in Connections \ {sock} : Below(toActual'[x], Newest')
      BY <2>e, <3>1 DEF NoneNewer, Elsewhere
    <3>3. Below(toActual'[sock], Newest')
      BY <2>c, <3>1 DEF Below, Message, Handshake
    <3> QED
      BY <3>1, <3>2, <3>3 DEF NoneNewer
  <2> QED
    BY <2>1, <2>2, <2>3, <2>4, <2>5, <2>6, <2>7, <2>8
<1>4. CASE RecvProceed
  <2>a. sock \in Connections /\ asock = sock
    BY <1>4 DEF RecvProceed, TypeOK, Places, Connections
  <2>b. /\ toActual[sock] = << >> /\ toDual[sock] = <<Handshake("proceed")>>
        /\ At({"method"})
    BY <1>4 DEF RecvProceed, Negotiation
  <2>p. toActual' = toActual /\ toDual' = Take(toDual, sock)
    BY <1>4 DEF RecvProceed, Places
  <2>c. toActual'[sock] = << >> /\ toDual'[sock] = << >>
    BY <2>a, <2>b, <2>p, <1>w DEF Take
  <2>e. Elsewhere(sock)
    BY <2>p DEF Elsewhere, Take
  <2>d. /\ toActual' \in [Connections -> Seq(Messages)]
        /\ toDual' \in [Connections -> Seq(Messages)]
    BY <2>a, <2>b, <2>p, <1>w DEF Take
  <2>1. TypeOK'
    BY <1>4, <2>d DEF RecvProceed, TypeOK
  <2>2. Unused'
    BY <1>4, <2>e DEF RecvProceed, Elsewhere, Unused
  <2>3. Places'
    BY <1>4 DEF RecvProceed, Places
  <2>4. Negotiation'
    BY <1>4 DEF RecvProceed, Negotiation
  <2>5. Idle'
    BY <1>4, <2>c DEF RecvProceed, Idle, At, Negotiation
  <2>6. HalfSent'
    BY <1>4 DEF RecvProceed, HalfSent
  <2>7. Outstanding'
    BY <1>4 DEF RecvProceed, Outstanding, Places
  <2>8. NoneNewer'
    <3>1. Newest' = Newest /\ performed' <= sent' /\ job' = job
      BY <1>4 DEF RecvProceed, Newest, NoneNewer
    <3>2. \A x \in Connections : Below(toActual'[x], Newest)
      BY <1>4 DEF RecvProceed, NoneNewer
    <3> QED
      BY <3>1, <3>2 DEF NoneNewer
  <2> QED
    BY <2>1, <2>2, <2>3, <2>4, <2>5, <2>6, <2>7, <2>8
<1>5. CASE NegotiateTimeout
  <2>1. TypeOK'
    BY <1>5 DEF NegotiateTimeout, TypeOK
  <2>2. Unused'
    BY <1>5 DEF NegotiateTimeout, Unused
  <2>3. Places'
    BY <1>5 DEF NegotiateTimeout, Places, At
  <2>4. Negotiation'
    BY <1>5 DEF NegotiateTimeout, Negotiation
  <2>5. Idle'
    BY <1>5 DEF NegotiateTimeout, Idle, Places
  <2>6. HalfSent'
    BY <1>5 DEF NegotiateTimeout, HalfSent
  <2>7. Outstanding'
    BY <1>5 DEF NegotiateTimeout, Outstanding, Places
  <2>8. NoneNewer'
    <3>1. Newest' = Newest /\ performed' <= sent' /\ job' = job
      BY <1>5 DEF NegotiateTimeout, Newest, NoneNewer
    <3>2. \A x \in Connections : Below(toActual'[x], Newest)
      BY <1>5 DEF NegotiateTimeout, NoneNewer
    <3> QED
      BY <3>1, <3>2 DEF NoneNewer
  <2> QED
    BY <2>1, <2>2, <2>3, <2>4, <2>5, <2>6, <2>7, <2>8
<1>6. ASSUME NEW o \in {"run", "start", "destroy"}, Call(o) PROVE IInv'
  <2>1. TypeOK'
    BY <1>6 DEF Call, NoCargo, TypeOK
  <2>2. Unused'
    BY <1>6 DEF Call, NoCargo, Unused
  <2>3. Places'
    BY <1>6 DEF Call, NoCargo, Places
  <2>4. Negotiation'
    BY <1>6 DEF Call, NoCargo, Negotiation
  <2>5. Idle'
    BY <1>6 DEF Call, NoCargo, Idle, At
  <2>6. HalfSent'
    BY <1>6 DEF Call, NoCargo, HalfSent
  <2>7. Outstanding'
    BY <1>6 DEF Call, NoCargo, Outstanding, At
  <2>8. NoneNewer'
    <3>1. Newest' = Newest /\ performed' <= sent' /\ job' = job
      BY <1>6 DEF Call, Newest, NoneNewer
    <3>2. \A x \in Connections : Below(toActual'[x], Newest)
      BY <1>6 DEF Call, NoneNewer
    <3> QED
      BY <3>1, <3>2 DEF NoneNewer
  <2> QED
    BY <2>1, <2>2, <2>3, <2>4, <2>5, <2>6, <2>7, <2>8
<1>7. CASE CompWait
  <2>1. TypeOK'
    BY <1>7 DEF CompWait, TypeOK
  <2>2. Unused'
    BY <1>7 DEF CompWait, Unused
  <2>3. Places'
    BY <1>7 DEF CompWait, Places
  <2>4. Negotiation'
    BY <1>7 DEF CompWait, Negotiation
  <2>5. Idle'
    BY <1>7 DEF CompWait, Idle, At
  <2>6. HalfSent'
    BY <1>7 DEF CompWait, HalfSent
  <2>7. Outstanding'
    BY <1>7 DEF CompWait, Outstanding, At
  <2>8. NoneNewer'
    <3>1. Newest' = Newest /\ performed' <= sent' /\ job' = job
      BY <1>7 DEF CompWait, Newest, NoneNewer
    <3>2. \A x \in Connections : Below(toActual'[x], Newest)
      BY <1>7 DEF CompWait, NoneNewer
    <3> QED
      BY <3>1, <3>2 DEF NoneNewer
  <2> QED
    BY <2>1, <2>2, <2>3, <2>4, <2>5, <2>6, <2>7, <2>8
<1>8. CASE WaitedFirst
  <2>a. sock \in Connections /\ asock = sock
    BY <1>8 DEF WaitedFirst, TypeOK, Places, Connections
  <2>b. /\ toActual[sock] = << >> /\ toDual[sock] = <<Message("answer", sent)>>
        /\ At({"method"})
    BY <1>8 DEF WaitedFirst, Outstanding
  <2>p. toActual' = toActual /\ toDual' = Take(toDual, sock)
    BY <1>8 DEF WaitedFirst, Places
  <2>c. toActual'[sock] = << >> /\ toDual'[sock] = << >>
    BY <2>a, <2>b, <2>p, <1>w DEF Take
  <2>e. Elsewhere(sock)
    BY <2>p DEF Elsewhere, Take
  <2>d. /\ toActual' \in [Connections -> Seq(Messages)]
        /\ toDual' \in [Connections -> Seq(Messages)]
    BY <2>a, <2>b, <2>p, <1>w DEF Take
  <2>h. Head(toDual[sock]).call = sent /\ Head(toDual[sock]).call # NoCargo
    BY <2>b, MessageTypes DEF NoCargo, TypeOK
  <2>1. TypeOK'
    BY <1>8, <2>d, <2>h DEF WaitedFirst, TypeOK
  <2>2. Unused'
    BY <1>8, <2>e DEF WaitedFirst, Elsewhere, Unused
  <2>3. Places'
    BY <1>8, <2>h DEF WaitedFirst, Places
  <2>4. Negotiation'
    BY <1>8 DEF WaitedFirst, Negotiation
  <2>5. Idle'
    BY <1>8, <2>c DEF WaitedFirst, Idle, At, Outstanding
  <2>6. HalfSent'
    BY <1>8 DEF WaitedFirst, HalfSent
  <2>7. Outstanding'
    BY <1>8 DEF WaitedFirst, Outstanding
  <2>8. NoneNewer'
    <3>1. Newest' = Newest /\ performed' <= sent' /\ job' = job
      BY <1>8 DEF WaitedFirst, Newest, NoneNewer
    <3>2. \A x \in Connections : Below(toActual'[x], Newest)
      BY <1>8 DEF WaitedFirst, NoneNewer
    <3> QED
      BY <3>1, <3>2 DEF NoneNewer
  <2> QED
    BY <2>1, <2>2, <2>3, <2>4, <2>5, <2>6, <2>7, <2>8
<1>9. CASE WaitFirstTimeout
  <2>1. TypeOK'
    BY <1>9 DEF WaitFirstTimeout, TypeOK
  <2>2. Unused'
    BY <1>9 DEF WaitFirstTimeout, Unused
  <2>3. Places'
    BY <1>9 DEF WaitFirstTimeout, Places
  <2>4. Negotiation'
    BY <1>9 DEF WaitFirstTimeout, Negotiation
  <2>5. Idle'
    BY <1>9 DEF WaitFirstTimeout, Idle
  <2>6. HalfSent'
    BY <1>9 DEF WaitFirstTimeout, HalfSent
  <2>7. Outstanding'
    BY <1>9 DEF WaitFirstTimeout, Outstanding, At
  <2>8. NoneNewer'
    <3>1. Newest' = Newest /\ performed' <= sent' /\ job' = job
      BY <1>9 DEF WaitFirstTimeout, Newest, NoneNewer
    <3>2. \A x \in Connections : Below(toActual'[x], Newest)
      BY <1>9 DEF WaitFirstTimeout, NoneNewer
    <3> QED
      BY <3>1, <3>2 DEF NoneNewer
  <2> QED
    BY <2>1, <2>2, <2>3, <2>4, <2>5, <2>6, <2>7, <2>8
<1>10. CASE SendMethod
  <2>a. sock \in Connections /\ asock = sock /\ sent + 1 \in 0 .. MaxCalls
    BY <1>10 DEF SendMethod, TypeOK, Places, Connections
  <2>b. toActual[sock] = << >> /\ toDual[sock] = << >> /\ At({"method"})
    BY <1>10 DEF SendMethod, Places, Idle
  <2>p. /\ toActual' = Put(toActual, sock, Message(IF op = "destroy" THEN "none" ELSE "run", sent + 1))
        /\ toDual' = toDual
    BY <1>10 DEF SendMethod, Places
  <2>c. /\ toActual'[sock] = <<Message(IF op = "destroy" THEN "none" ELSE "run", sent + 1)>>
        /\ toDual'[sock] = << >>
    BY <2>a, <2>b, <2>p, <1>w DEF Put
  <2>e. Elsewhere(sock)
    BY <2>p DEF Elsewhere, Put
  <2>d. /\ toActual' \in [Connections -> Seq(Messages)]
        /\ toDual' \in [Connections -> Seq(Messages)]
    BY <2>a, <2>p, <1>w, MessageTypes DEF Put
  <2>1. TypeOK'
    BY <1>10, <2>d DEF SendMethod, TypeOK
  <2>2. Unused'
    <3>1. connections' = connections /\ \A x \in Connections : x > connections => x # sock
      BY <1>10 DEF SendMethod, TypeOK
    <3> QED
      BY <2>e, <3>1 DEF Unused, Elsewhere
  <2>3. Places'
    BY <1>10 DEF SendMethod, Places
  <2>4. Negotiation'
    BY <1>10 DEF SendMethod, Negotiation
  <2>5. Idle'
    BY <1>10 DEF SendMethod, Idle
  <2>6. HalfSent'
    BY <1>10, <2>c DEF SendMethod, HalfSent, Places, At, Idle
  <2>7. Outstanding'
    BY <1>10 DEF SendMethod, Outstanding
  <2>8. NoneNewer'
    <3>1. /\ Newest' = sent + 1 /\ Newest = sent /\ performed' <= sent'
          /\ job' = job /\ Newest \in Nat /\ job.call \in Nat
      BY <1>10 DEF SendMethod, Newest, NoneNewer, TypeOK, Messages
    <3>2. \A x \in Connections \ {sock} : Below(toActual'[x], Newest')
      BY <1>w, <2>e, <3>1, Bounded DEF NoneNewer, Elsewhere
    <3>3. Below(toActual'[sock], Newest')
      BY <2>c, <3>1 DEF Below, Message
    <3> QED
      BY <3>1, <3>2, <3>3 DEF NoneNewer
  <2> QED
    BY <2>1, <2>2, <2>3, <2>4, <2>5, <2>6, <2>7, <2>8
<1>11. CASE SendPhase
  <2>a. sock \in Connections /\ asock = sock /\ sent + 1 \in 0 .. MaxCalls
    BY <1>11 DEF SendPhase, TypeOK, Places, Connections
  <2>p. /\ toActual' = Put(toActual, sock, Message("phase", sent + 1))
        /\ toDual' = toDual
    BY <1>11 DEF SendPhase
  <2>c. /\ toActual'[sock] = Append(toActual[sock], Message("phase", sent + 1))
        /\ toDual'[sock] = toDual[sock]
    BY <2>a, <2>p, <1>w DEF Put
  <2>e. Elsewhere(sock)
    BY <2>p DEF Elsewhere, Put
  <2>d. /\ toActual' \in [Connections -> Seq(Messages)]
        /\ toDual' \in [Connections -> Seq(Messages)]
    BY <2>a, <2>p, <1>w, MessageTypes DEF Put
  <2>1. TypeOK'
    BY <1>11, <2>a, <2>d DEF SendPhase, TypeOK
  <2>2. Unused'
    <3>1. connections' = connections /\ \A x \in Connections : x > connections => x # sock
      BY <1>11 DEF SendPhase, TypeOK
    <3> QED
      BY <2>e, <3>1 DEF Unused, Elsewhere
  <2>3. Places'
    BY <1>11 DEF SendPhase, Places
  <2>4. Negotiation'
    BY <1>11 DEF SendPhase, Negotiation
  <2>5. Idle'
    BY <1>11 DEF SendPhase, Idle
  <2>6. HalfSent'
    BY <1>11 DEF SendPhase, HalfSent
  <2>7. Outstanding'
    <3>1. /\ dpc = "phase" /\ sock' = sock /\ sent' = sent + 1
          /\ apc' = apc /\ job' = job /\ performed' = performed
      BY <1>11 DEF SendPhase
    <3>2. CASE /\ At({"method"})
               /\ \E k \in {"run", "none"} : toActual[sock] = <<Message(k, sent + 1)>>
      BY <2>c, <3>1, <3>2, Short DEF Outstanding, HalfSent, At
    <3>3. CASE /\ At({"phase"})
               /\ apc = "phase" => job.call = sent + 1
               /\ toActual[sock] = << >>
      BY <2>c, <3>1, <3>3, Short DEF Outstanding, HalfSent, At
    <3> QED
      BY <3>1, <3>2, <3>3 DEF HalfSent
  <2>8. NoneNewer'
    <3>1. /\ Newest' = Newest /\ Newest = sent + 1 /\ performed' <= sent'
          /\ job' = job
      BY <1>11 DEF SendPhase, Newest, NoneNewer, TypeOK
    <3>2. /\ toActual[sock] \in Seq(Messages) /\ Newest \in Nat
          /\ Below(toActual[sock], Newest)
      BY <1>w, <2>a, <3>1 DEF NoneNewer
    <3>3. /\ Message("phase", sent + 1) \in Messages
          /\ Message("phase", sent + 1).call = sent + 1
      BY <2>a, MessageTypes
    <3>4. Below(toActual'[sock], Newest)
      BY <2>c, <3>1, <3>2, <3>3, Bounded
    <3> QED
      BY <2>e, <3>1, <3>4 DEF NoneNewer, Elsewhere
  <2> QED
    BY <2>1, <2>2, <2>3, <2>4, <2>5, <2>6, <2>7, <2>8
<1>12. CASE Waited
  <2>a. sock \in Connections /\ asock = sock
    BY <1>12 DEF Waited, TypeOK, Places, Connections
  <2>b. /\ toActual[sock] = << >> /\ toDual[sock] = <<Message("answer", sent)>>
        /\ At({"method"})
    BY <1>12 DEF Waited, Places, Outstanding
  <2>p. toActual' = toActual /\ toDual' = Take(toDual, sock)
    BY <1>12 DEF Waited, Places
  <2>c. toActual'[sock] = << >> /\ toDual'[sock] = << >>
    BY <2>a, <2>b, <2>p, <1>w DEF Take
  <2>e. Elsewhere(sock)
    BY <2>p DEF Elsewhere, Take
  <2>d. /\ toActual' \in [Connections -> Seq(Messages)]
        /\ toDual' \in [Connections -> Seq(Messages)]
    BY <2>a, <2>b, <2>p, <1>w DEF Take
  <2>h. Head(toDual[sock]).call = sent /\ Head(toDual[sock]).call # NoCargo
    BY <2>b, MessageTypes DEF NoCargo, TypeOK
  <2>1. TypeOK'
    <3>1. /\ connected' \in BOOLEAN /\ outstandingWaitFlag' \in BOOLEAN
          /\ vm_released' \in BOOLEAN
      BY <1>12, <1>t, Zenon DEF Waited, Destroyed
    <3>2. /\ sock' \in 0 .. connections /\ userrc' \in 0 .. MaxCalls
          /\ vm_cargo' = NoCargo
      <4>1. CASE op = "destroy"
        BY <1>12, <4>1 DEF Waited, Destroyed, TypeOK
      <4>2. CASE op # "destroy"
        BY <1>12, <2>h, <4>2 DEF Waited, TypeOK, Places
      <4> QED
        BY <4>1, <4>2
    <3> QED
      BY <1>12, <2>d, <3>1, <3>2 DEF Waited, TypeOK
  <2>2. Unused'
    BY <1>12, <2>e DEF Waited, Elsewhere, Unused
  <2>3. Places'
    BY <1>12 DEF Waited, Destroyed, Places
  <2>4. Negotiation'
    BY <1>12 DEF Waited, Negotiation
  <2>5. Idle'
    BY <1>12, <2>c DEF Waited, Destroyed, Idle, At, Outstanding
  <2>6. HalfSent'
    BY <1>12 DEF Waited, HalfSent
  <2>7. Outstanding'
    BY <1>12 DEF Waited, Destroyed, Outstanding
  <2>8. NoneNewer'
    <3>1. Newest' = Newest /\ performed' <= sent' /\ job' = job
      BY <1>12 DEF Waited, Newest, NoneNewer
    <3>2. \A x \in Connections : Below(toActual'[x], Newest)
      BY <1>12 DEF Waited, NoneNewer
    <3> QED
      BY <3>1, <3>2 DEF NoneNewer
  <2> QED
    BY <2>1, <2>2, <2>3, <2>4, <2>5, <2>6, <2>7, <2>8
<1>13. CASE WaitTimeout
  <2>1. TypeOK'
    <3>1. /\ connected' \in BOOLEAN /\ outstandingWaitFlag' \in BOOLEAN
          /\ vm_released' \in BOOLEAN
      BY <1>13, <1>t, Zenon DEF WaitTimeout, Destroyed, FlagAfterTimeout
    <3>2. sock' \in {sock, 0} /\ vm_cargo' \in {vm_cargo, NoCargo}
      BY <1>13 DEF WaitTimeout, Destroyed
    <3> QED
      BY <1>13, <3>1, <3>2 DEF WaitTimeout, TypeOK
  <2>2. Unused'
    BY <1>13 DEF WaitTimeout, Unused
  <2>3. Places'
    <3>1. CASE vm_released' /\ outstandingWaitFlag' /\ UNCHANGED <<sock, connected, vm_cargo>>
      BY <1>13, <3>1 DEF WaitTimeout, Places
    <3>2. CASE op = "destroy" /\ Destroyed
      BY <1>13, <3>2 DEF WaitTimeout, Destroyed, Places
    <3> QED
      BY <1>13, <3>1, <3>2 DEF WaitTimeout, FlagAfterTimeout
  <2>4. Negotiation'
    BY <1>13 DEF WaitTimeout, Negotiation
  <2>5. Idle'
    BY <1>13 DEF WaitTimeout, Destroyed, FlagAfterTimeout, Idle
  <2>6. HalfSent'
    BY <1>13 DEF WaitTimeout, HalfSent
  <2>7. Outstanding'
    BY <1>13 DEF WaitTimeout, Destroyed, Outstanding, At
  <2>8. NoneNewer'
    <3>1. Newest' = Newest /\ performed' <= sent' /\ job' = job
      BY <1>13 DEF WaitTimeout, Newest, NoneNewer
    <3>2. \A x \in Connections : Below(toActual'[x], Newest)
      BY <1>13 DEF WaitTimeout, NoneNewer
    <3> QED
      BY <3>1, <3>2 DEF NoneNewer
  <2> QED
    BY <2>1, <2>2, <2>3, <2>4, <2>5, <2>6, <2>7, <2>8
<1>14. CASE ServiceLoop
  <2>1. TypeOK'
    BY <1>14 DEF ServiceLoop, TypeOK
  <2>2. Unused'
    BY <1>14 DEF ServiceLoop, Unused
  <2>3. Places'
    BY <1>14 DEF ServiceLoop, Places, At
  <2>4. Negotiation'
    BY <1>14 DEF ServiceLoop, Negotiation, At
  <2>5. Idle'
    BY <1>14 DEF ServiceLoop, Idle, At
  <2>6. HalfSent'
    BY <1>14 DEF ServiceLoop, HalfSent, At
  <2>7. Outstanding'
    BY <1>14 DEF ServiceLoop, Outstanding, At
  <2>8. NoneNewer'
    <3>1. Newest' = Newest /\ performed' <= sent' /\ job' = job
      BY <1>14 DEF ServiceLoop, Newest, NoneNewer
    <3>2. \A x \in Connections : Below(toActual'[x], Newest)
      BY <1>14 DEF ServiceLoop, NoneNewer
    <3> QED
      BY <3>1, <3>2 DEF NoneNewer
  <2> QED
    BY <2>1, <2>2, <2>3, <2>4, <2>5, <2>6, <2>7, <2>8
<1>15. CASE RecvContinue
  <2>a. asock \in Connections
    BY <1>15 DEF RecvContinue, TypeOK, Places, At, Connections
  <2>p. /\ toActual' = Take(toActual, asock)
        /\ toDual' = Put(toDual, asock, Handshake("proceed"))
    BY <1>15 DEF RecvContinue
  <2>b. /\ toActual'[asock] = Tail(toActual[asock])
        /\ toDual'[asock] = Append(toDual[asock], Handshake("proceed"))
    BY <2>a, <2>p, <1>w DEF Put, Take
  <2>e. Elsewhere(asock)
    BY <2>p DEF Elsewhere, Put, Take
  <2>d. /\ toActual' \in [Connections -> Seq(Messages)]
        /\ toDual' \in [Connections -> Seq(Messages)]
    BY <1>15, <2>a, <1>w, MessageTypes DEF RecvContinue, Put, Take
  <2>1. TypeOK'
    BY <1>15, <2>d DEF RecvContinue, TypeOK
  <2>2. Unused'
    BY <1>15, <2>e DEF RecvContinue, Elsewhere, Unused
  <2>3. Places'
    BY <1>15 DEF RecvContinue, Places, At
  <2>4. Negotiation'
    BY <1>15, <2>a, <2>b, <2>d DEF RecvContinue, Negotiation, Places, At, TypeOK
  <2>5. Idle'
    BY <1>15 DEF RecvContinue, Idle, At
  <2>6. HalfSent'
    BY <1>15 DEF RecvContinue, HalfSent, At
  <2>7. Outstanding'
    BY <1>15 DEF RecvContinue, Outstanding, At
  <2>8. NoneNewer'
    <3>1. Newest' = Newest /\ Newest \in Nat /\ performed' <= sent' /\ job' = job
      BY <1>15 DEF RecvContinue, Newest, NoneNewer, TypeOK
    <3>2. \A x \in Connections \ {asock} : Below(toActual'[x], Newest)
      BY <2>e DEF NoneNewer, Elsewhere
    <3>3. Below(toActual'[asock], Newest) /\ Head(toActual[asock]).call <= Newest
      BY <1>15, <1>w, <2>a, <2>b, <3>1, Bounded DEF RecvContinue, NoneNewer
    <3> QED
      BY <3>1, <3>2, <3>3 DEF NoneNewer
  <2> QED
    BY <2>1, <2>2, <2>3, <2>4, <2>5, <2>6, <2>7, <2>8
<1>16. CASE RecvMethod
  <2>a. asock \in Connections
    BY <1>16 DEF RecvMethod, TypeOK, Places, At, Connections
  <2>p. toActual' = Take(toActual, asock) /\ toDual' = toDual
    BY <1>16 DEF RecvMethod
  <2>b. toActual'[asock] = Tail(toActual[asock]) /\ toDual'[asock] = toDual[asock]
    BY <2>a, <2>p, <1>w DEF Put, Take
  <2>e. Elsewhere(asock)
    BY <2>p DEF Elsewhere, Take
  <2>d. /\ toActual' \in [Connections -> Seq(Messages)]
        /\ toDual' \in [Connections -> Seq(Messages)]
    BY <1>16, <2>a, <1>w DEF RecvMethod, Take
  <2>1. TypeOK'
    BY <1>16, <2>a, <2>d DEF RecvMethod, TypeOK
  <2>2. Unused'
    BY <1>16, <2>e DEF RecvMethod, Elsewhere, Unused
  <2>3. Places'
    BY <1>16 DEF RecvMethod, Places, At
  <2>4. Negotiation'
    BY <1>16 DEF RecvMethod, Negotiation, Places, At
  <2>5. Idle'
    BY <1>16 DEF RecvMethod, Idle, Places
  <2>6. HalfSent'
    <3>1. CASE dpc = "phase"
      <4>1. sock = asock /\ toDual[sock] = << >>
        BY <3>1 DEF HalfSent, Places
      <4>2. PICK k \in {"run", "none"} : toActual[sock] = <<Message(k, sent + 1)>>
        BY <1>16, <3>1 DEF RecvMethod, HalfSent, At
      <4>3. job' = Message(k, sent + 1)
        BY <1>16, <4>1, <4>2 DEF RecvMethod
      <4>4. toActual'[sock] = << >> /\ toDual'[sock] = << >>
        BY <2>b, <4>1, <4>2, Short
      <4>5. job'.call = sent + 1
        BY <4>3 DEF Message
      <4> QED
        BY <1>16, <4>4, <4>5 DEF RecvMethod, HalfSent, At
    <3>2. CASE ~ (dpc = "phase")
      BY <1>16, <3>2 DEF RecvMethod, HalfSent
    <3> QED
      BY <3>1, <3>2
  <2>7. Outstanding'
    <3>1. CASE outstandingWaitFlag
      <4>1. sock = asock /\ toDual[sock] = << >>
        BY <1>16, <3>1 DEF RecvMethod, Outstanding, Places
      <4>2. PICK k \in {"run", "none"} : toActual[sock] = <<Message(k, sent), Message("phase", sent)>>
        BY <1>16, <3>1 DEF RecvMethod, Outstanding, Places, At
      <4>3. job' = Message(k, sent)
        BY <1>16, <4>1, <4>2 DEF RecvMethod
      <4>4. toActual'[sock] = <<Message("phase", sent)>> /\ toDual'[sock] = << >>
        BY <2>b, <4>1, <4>2, Short
      <4>5. job'.call = sent
        BY <4>3 DEF Message
      <4> QED
        BY <1>16, <4>4, <4>5 DEF RecvMethod, Outstanding, At
    <3>2. CASE ~ (outstandingWaitFlag)
      BY <1>16, <3>2 DEF RecvMethod, Outstanding
    <3> QED
      BY <3>1, <3>2
  <2>8. NoneNewer'
    <3>1. /\ Newest' = Newest /\ Newest \in Nat /\ performed' <= sent'
          /\ job' = Head(toActual[asock])
      BY <1>16 DEF RecvMethod, Newest, NoneNewer, TypeOK
    <3>2. \A x \in Connections \ {asock} : Below(toActual'[x], Newest)
      BY <2>e DEF NoneNewer, Elsewhere
    <3>3. Below(toActual'[asock], Newest) /\ Head(toActual[asock]).call <= Newest
      BY <1>16, <1>w, <2>a, <2>b, <3>1, Bounded DEF RecvMethod, NoneNewer
    <3> QED
      BY <3>1, <3>2, <3>3 DEF NoneNewer
  <2> QED
    BY <2>1, <2>2, <2>3, <2>4, <2>5, <2>6, <2>7, <2>8
<1>17. CASE RecvPhase
  <2>a. asock \in Connections
    BY <1>17 DEF RecvPhase, TypeOK, Places, At, Connections
  <2>p. toActual' = Take(toActual, asock) /\ toDual' = toDual
    BY <1>17 DEF RecvPhase
  <2>b. toActual'[asock] = Tail(toActual[asock]) /\ toDual'[asock] = toDual[asock]
    BY <2>a, <2>p, <1>w DEF Put, Take
  <2>e. Elsewhere(asock)
    BY <2>p DEF Elsewhere, Take
  <2>d. /\ toActual' \in [Connections -> Seq(Messages)]
        /\ toDual' \in [Connections -> Seq(Messages)]
    BY <1>17, <2>a, <1>w DEF RecvPhase, Take
  <2>1. TypeOK'
    BY <1>17, <2>d DEF RecvPhase, TypeOK
  <2>2. Unused'
    BY <1>17, <2>e DEF RecvPhase, Elsewhere, Unused
  <2>3. Places'
    BY <1>17 DEF RecvPhase, Places, At
  <2>4. Negotiation'
    BY <1>17 DEF RecvPhase, Negotiation, At
  <2>5. Idle'
    BY <1>17 DEF RecvPhase, Idle, At
  <2>6. HalfSent'
    BY <1>17 DEF RecvPhase, HalfSent, Places, At
  <2>7. Outstanding'
    <3>1. ASSUME outstandingWaitFlag
          PROVE  job.call = sent /\ toActual'[sock] = << >> /\ toDual'[sock] = << >> /\ sock = asock
      BY <1>17, <3>1, <2>b, Short DEF RecvPhase, Outstanding, Places, At
    <3> QED
      BY <1>17, <3>1 DEF RecvPhase, Outstanding, At
  <2>8. NoneNewer'
    <3>1. Newest' = Newest /\ Newest \in Nat /\ performed' <= sent' /\ job' = job
      BY <1>17 DEF RecvPhase, Newest, NoneNewer, TypeOK
    <3>2. \A x \in Connections \ {asock} : Below(toActual'[x], Newest)
      BY <2>e DEF NoneNewer, Elsewhere
    <3>3. Below(toActual'[asock], Newest) /\ Head(toActual[asock]).call <= Newest
      BY <1>17, <1>w, <2>a, <2>b, <3>1, Bounded DEF RecvPhase, NoneNewer
    <3> QED
      BY <3>1, <3>2, <3>3 DEF NoneNewer
  <2> QED
    BY <2>1, <2>2, <2>3, <2>4, <2>5, <2>6, <2>7, <2>8
<1>18. CASE Perform
  <2>a. job.call \in 0 .. MaxCalls
    BY DEF TypeOK, Messages
  <2>1. TypeOK'
    BY <1>18, <2>a DEF Perform, TypeOK
  <2>2. Unused'
    BY <1>18, Short DEF Perform, Unused
  <2>3. Places'
    BY <1>18, Short DEF Perform, Places, At
  <2>4. Negotiation'
    BY <1>18, Short DEF Perform, Negotiation, At
  <2>5. Idle'
    BY <1>18, Short DEF Perform, Idle, At
  <2>6. HalfSent'
    BY <1>18, Short DEF Perform, HalfSent, At
  <2>7. Outstanding'
    BY <1>18, Short DEF Perform, Outstanding, At
  <2>8. NoneNewer'
    <3>1. dpc # "phase"
      BY <1>18 DEF Perform, HalfSent, At
    <3> QED
      BY <1>18, <3>1 DEF Perform, NoneNewer, Newest
  <2> QED
    BY <2>1, <2>2, <2>3, <2>4, <2>5, <2>6, <2>7, <2>8
<1>19. CASE SendAnswer
  <2>a. asock \in Connections /\ job.call \in 0 .. MaxCalls
    BY <1>19 DEF SendAnswer, TypeOK, Places, At, Connections, Messages
  <2>p. /\ toActual' = toActual
        /\ toDual' = Put(toDual, asock, Message("answer", job.call))
    BY <1>19 DEF SendAnswer
  <2>b. /\ toActual' = toActual
        /\ toDual'[asock] = Append(toDual[asock], Message("answer", job.call))
    BY <2>a, <2>p, <1>w DEF Put, Take
  <2>e. Elsewhere(asock)
    BY <2>p DEF Elsewhere, Put
  <2>d. /\ toActual' \in [Connections -> Seq(Messages)]
        /\ toDual' \in [Connections -> Seq(Messages)]
    BY <2>a, <2>p, <1>w, MessageTypes DEF Put
  <2>1. TypeOK'
    BY <1>19, <2>d DEF SendAnswer, TypeOK
  <2>2. Unused'
    <3>1. connections' = connections /\ \A x \in Connections : x > connections => x # asock
      BY <1>19 DEF SendAnswer, TypeOK
    <3> QED
      BY <2>e, <3>1 DEF Unused, Elsewhere
  <2>3. Places'
    BY <1>19 DEF SendAnswer, Places, At
  <2>4. Negotiation'
    BY <1>19 DEF SendAnswer, Negotiation, At
  <2>5. Idle'
    BY <1>19 DEF SendAnswer, Idle, At
  <2>6. HalfSent'
    BY <1>19 DEF SendAnswer, HalfSent, At
  <2>7. Outstanding'
    BY <1>19, <2>b DEF SendAnswer, Outstanding, Places, At
  <2>8. NoneNewer'
    <3>1. Newest' = Newest /\ performed' <= sent' /\ job' = job
      BY <1>19 DEF SendAnswer, Newest, NoneNewer
    <3>2. \A x \in Connections : Below(toActual'[x], Newest)
      BY <1>19 DEF SendAnswer, NoneNewer
    <3> QED
      BY <3>1, <3>2 DEF NoneNewer
  <2> QED
    BY <2>1, <2>2, <2>3, <2>4, <2>5, <2>6, <2>7, <2>8
<1>20. CASE ServiceTimeout
  <2>1. TypeOK'
    BY <1>20 DEF ServiceTimeout, TypeOK
  <2>2. Unused'
    BY <1>20 DEF ServiceTimeout, Unused
  <2>3. Places'
    BY <1>20 DEF ServiceTimeout, Places, At
  <2>4. Negotiation'
    BY <1>20 DEF ServiceTimeout, Negotiation, At
  <2>5. Idle'
    BY <1>20 DEF ServiceTimeout, Idle, At
  <2>6. HalfSent'
    BY <1>20 DEF ServiceTimeout, HalfSent, At
  <2>7. Outstanding'
    BY <1>20 DEF ServiceTimeout, Outstanding, At
  <2>8. NoneNewer'
    <3>1. Newest' = Newest /\ performed' <= sent' /\ job' = job
      BY <1>20 DEF ServiceTimeout, Newest, NoneNewer
    <3>2. \A x \in Connections : Below(toActual'[x], Newest)
      BY <1>20 DEF ServiceTimeout, NoneNewer
    <3> QED
      BY <3>1, <3>2 DEF NoneNewer
  <2> QED
    BY <2>1, <2>2, <2>3, <2>4, <2>5, <2>6, <2>7, <2>8
<1>30. CASE UNCHANGED vars
  <2>1. TypeOK'
    BY <1>30 DEF vars, TypeOK, At
  <2>2. Unused'
    BY <1>30 DEF vars, Unused, At
  <2>3. Places'
    BY <1>30 DEF vars, Places, At
  <2>4. Negotiation'
    BY <1>30 DEF vars, Negotiation, At
  <2>5. Idle'
    BY <1>30 DEF vars, Idle, At
  <2>6. HalfSent'
    BY <1>30 DEF vars, HalfSent, At
  <2>7. Outstanding'
    BY <1>30 DEF vars, Outstanding, At
  <2>8. NoneNewer'
    BY <1>30 DEF vars, NoneNewer, At, Newest
  <2> QED
    BY <2>1, <2>2, <2>3, <2>4, <2>5, <2>6, <2>7, <2>8
<1> QED
  BY <1>1, <1>2, <1>3, <1>4, <1>5, <1>6, <1>7, <1>8, <1>9, <1>10, <1>11, <1>12,
     <1>13, <1>14, <1>15, <1>16, <1>17, <1>18, <1>19, <1>20, <1>30
     DEF Next, User, Dual, Actual

\* Every variable has its type in every state.
THEOREM TypeCorrect == Spec => []TypeOK
<1>1. IInv => TypeOK
  BY DEF IInv
<1> QED
  BY <1>1, InitInvariant, Inductive, PTL DEF Spec

\* The inductive invariant holds in every state.
THEOREM Invariance == Spec => []IInv
BY InitInvariant, Inductive, PTL DEF Spec

\* For any number of calls and connections: however calls, timeouts, late answers
\* and new connections race, what is on the wires belongs to the call that is
\* outstanding, and vm_released tells the next call so.
THEOREM StaysInStep == Spec => []InStep
<1>1. IInv => InStep
  <2> SUFFICES ASSUME IInv, connected PROVE InStep
    BY DEF InStep
  <2> USE DEF IInv
  <2>1. CASE outstandingWaitFlag
    <3>1. dpc \in {"user", "execute", "wait"}
      BY <2>1 DEF Places
    <3>2. toDual[sock] \in {<< >>, <<Message("answer", sent)>>}
          /\ (toDual[sock] # << >> => toActual[sock] = << >>)
      BY <2>1 DEF Outstanding
    <3>3. vm_cargo # NoCargo /\ (dpc = "execute" => op = "destroy")
      BY <2>1 DEF Places
    <3>4. dpc = "user" => vm_released = outstandingWaitFlag
      BY Zenon DEF Places, TypeOK
    <3> QED
      BY <2>1, <3>1, <3>2, <3>3, <3>4, Zenon DEF InStep
  <2>2. CASE ~ outstandingWaitFlag
    <3>1. toDual[sock] = << >> /\ (dpc # "phase" => toActual[sock] = << >>)
      BY <2>2 DEF Idle, HalfSent
    <3>2. dpc = "user" => vm_released = outstandingWaitFlag
      BY Zenon DEF Places, TypeOK
    <3> QED
      BY <2>2, <3>1, <3>2, Zenon DEF InStep
  <2> QED
    BY <2>1, <2>2
<1> QED
  BY <1>1, Invariance, PTL
-----------------------------------------------------------------------------
\* Before the first call there is none.
LEMMA RefinementInit == Init => Remote!Init
BY DEF Init, Remote!Init

\* What a step of the tunnel is to the program: a call is asked for when its phase
\* is sent, performed, answered when its wait returns, and forgotten when the
\* tunnel or the component is deleted, or METHOD_NONE swallows its answer.
LEMMA RefinementStep == IInv /\ [Next]_vars => [Remote!Next]_(Remote!vars)
<1> SUFFICES ASSUME IInv, [Next]_vars PROVE [Remote!Next]_(Remote!vars)
  OBVIOUS
<1> USE DEF IInv, Remote!vars, Remote!Next, dualState, actualState, wires
<1>t. sent \in Nat /\ performed \in Nat
  BY DEF TypeOK
<1>1. CASE SetServices
  BY <1>1 DEF SetServices, Remote!Forget
<1>2. CASE WaitedFirst
  BY <1>2 DEF WaitedFirst, Remote!Forget
<1>3. CASE SendPhase
  <2>1. ~ outstandingWaitFlag /\ performed # sent + 1
    BY <1>3, <1>t DEF SendPhase, Places, NoneNewer
  <2>2. /\ sent' = sent + 1 /\ outstandingWaitFlag' /\ performed' = performed
        /\ userrc' = userrc
    BY <1>3 DEF SendPhase
  <2> QED
    BY <2>1, <2>2 DEF Remote!Ask
<1>4. CASE Waited
  <2>1. outstandingWaitFlag
    BY <1>4 DEF Waited, Places
  <2>2. CASE op = "destroy"
    BY <1>4, <2>2 DEF Waited, Destroyed, Remote!Forget
  <2>3. CASE op # "destroy"
    <3>1. performed = sent /\ Head(toDual[sock]).call = sent
      BY <1>4, <2>1 DEF Waited, Outstanding, Message
    <3> QED
      BY <1>4, <2>1, <2>3, <3>1 DEF Waited, Remote!Answer
  <2> QED
    BY <2>2, <2>3
<1>5. CASE WaitTimeout
  <2>1. CASE UNCHANGED outstandingWaitFlag
    BY <1>5, <2>1 DEF WaitTimeout
  <2>2. CASE Destroyed
    BY <1>5 DEF WaitTimeout, Remote!Forget
  <2> QED
    BY <1>5, <2>2 DEF WaitTimeout, FlagAfterTimeout
<1>6. CASE Perform
  <2>1. outstandingWaitFlag => job.call = sent
    BY <1>6 DEF Perform, Outstanding, At
  <2>2. CASE outstandingWaitFlag
    BY <1>6, <2>1 DEF Perform, Remote!Perform
  <2>3. CASE ~ outstandingWaitFlag
    BY <1>6, <2>3 DEF Perform
  <2> QED
    BY <2>2, <2>3
<1>7. CASE Connect \/ RecvHello \/ RecvProceed \/ NegotiateTimeout \/ WaitFirstTimeout
           \/ SendMethod
  BY <1>7
     DEF Connect, RecvHello, RecvProceed, NegotiateTimeout, WaitFirstTimeout,
         SendMethod
<1>8. CASE ServiceLoop \/ RecvContinue \/ RecvMethod \/ RecvPhase \/ SendAnswer
           \/ ServiceTimeout
  BY <1>8
     DEF ServiceLoop, RecvContinue, RecvMethod, RecvPhase, SendAnswer,
         ServiceTimeout
<1>9. CASE (\E o \in {"run", "start", "destroy"} : Call(o)) \/ CompWait
  BY <1>9 DEF Call, CompWait
<1>10. CASE UNCHANGED vars
  BY <1>10 DEF vars
<1> QED
  BY <1>1, <1>2, <1>3, <1>4, <1>5, <1>6, <1>7, <1>8, <1>9, <1>10
     DEF Next, User, Dual, Actual

\* The tunnel implements a remote call, for any number of calls and connections: a
\* call is performed at most once, and an answer is passed on only after its call
\* was performed, and to that call.
THEOREM Refinement == Spec => Implements
<1>1. Spec => Remote!Init /\ [][Remote!Next]_(Remote!vars)
  BY Invariance, RefinementInit, RefinementStep, PTL DEF Spec
<1> QED
  BY <1>1 DEF Implements, Remote!Spec
=============================================================================
