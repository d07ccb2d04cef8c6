----------------------------- MODULE CompTunnel -----------------------------
(* The socket based component tunnel (ESMCI_CompTunnel.C, ESMCI_FTable.C,     *)
(* ESMF_Comp.F90): the program calls the dual component, whose methods are    *)
(* sent to the service loop of the actual component in another process.       *)
(* Every wait for the other side may time out; a call that timed out stays    *)
(* outstanding and may be waited for again, given up with a new connection,   *)
(* or left behind by destroying the dual component.  Each side is its master  *)
(* PET, the only one that uses the socket.  A send fits into the buffers of   *)
(* the socket; the actual side may stop at any step.                          *)
EXTENDS Integers, Sequences

CONSTANTS
    MaxCalls,         \* bound: calls sent through the tunnels
    MaxConnections    \* bound: connections made

ASSUME BoundsAssumption == MaxCalls \in Nat /\ MaxConnections \in Nat

VARIABLES
    dpc,          \* dual: "user", "connect", "hello", "proceed" (negotiate),
                  \*   "execute", "phase" (execute), "wait" (c_esmc_compwait)
    op,           \* the user's call: "run", "start" (nonblocking), "wait", "destroy"
    sock,         \* its connection, 0 if there is none
    connected,    \* is there a tunnel that is connected?
    outstandingWaitFlag,
    vm_released,
    vm_cargo,     \* the user return code in the cargo, NoCargo if there is none
    userrc,       \* the user return code of the last call that returned one
    apc,          \* actual: "user", "accept", "continue" (negotiate), "method",
                  \*   "phase", "execute", "answer" (ServiceLoop)
    asock,        \* its connection
    job,          \* the method it received
    toActual, toDual,   \* what is in each connection
    connections,  \* connections made so far
    sent,         \* calls sent so far: the number of the last one
    performed     \* history: the last call that the actual side performed

dualState == <<op, sock, connected, outstandingWaitFlag, vm_released, vm_cargo,
               userrc, sent>>
actualState == <<apc, asock, job, performed>>
wires == <<toActual, toDual, connections>>
vars == <<dpc, dualState, actualState, wires>>

NoCargo == -1
Connections == 1 .. MaxConnections
Message(kind, call) == [kind |-> kind, call |-> call]
Handshake(kind) == Message(kind, 0)
Put(wire, c, message) == [wire EXCEPT ![c] = Append(@, message)]
Take(wire, c) == [wire EXCEPT ![c] = Tail(@)]

Init ==
    /\ dpc = "user"
    /\ op = "wait"
    /\ sock = 0
    /\ connected = FALSE
    /\ outstandingWaitFlag = FALSE
    /\ vm_released = FALSE
    /\ vm_cargo = NoCargo
    /\ userrc = 0
    /\ apc = "user"
    /\ asock = 0
    /\ job = Handshake("none")
    /\ toActual = [c \in Connections |-> << >>]
    /\ toDual = [c \in Connections |-> << >>]
    /\ connections = 0
    /\ sent = 0
    /\ performed = 0

-----------------------------------------------------------------------------
\* ESMF_CompSetServices with a port: the old tunnel is deleted, with no word to
\* the other side, and the flag of an outstanding call is reset.
SetServices ==
    /\ dpc = "user"
    /\ dpc' = "connect"
    /\ sock' = 0
    /\ connected' = FALSE
    /\ outstandingWaitFlag' = FALSE
    /\ vm_released' = FALSE
    /\ UNCHANGED <<op, vm_cargo, userrc, sent, actualState, wires>>

\* socketClientInit meets socketServerInit; the server greets.
Connect ==
    LET c == connections + 1
    IN  /\ dpc = "connect"
        /\ apc = "accept"
        /\ connections < MaxConnections
        /\ connections' = c
        /\ sock' = c
        /\ asock' = c
        /\ toDual' = Put(toDual, c, Handshake("hello"))
        /\ dpc' = "hello"
        /\ apc' = "continue"
        /\ UNCHANGED <<op, connected, outstandingWaitFlag, vm_released, vm_cargo,
                       userrc, sent, job, performed, toActual>>

RecvHello ==
    /\ dpc = "hello"
    /\ toDual[sock] # << >>
    /\ toDual' = Take(toDual, sock)
    /\ toActual' = Put(toActual, sock, Handshake("continue"))
    /\ dpc' = "proceed"
    /\ UNCHANGED <<dualState, actualState, connections>>

RecvProceed ==
    /\ dpc = "proceed"
    /\ toDual[sock] # << >>
    /\ toDual' = Take(toDual, sock)
    /\ connected' = TRUE
    /\ dpc' = "user"
    /\ UNCHANGED <<op, sock, outstandingWaitFlag, vm_released, vm_cargo, userrc,
                   sent, actualState, toActual, connections>>

\* Nothing came in time: the tunnel is deleted.
NegotiateTimeout ==
    /\ \/ dpc = "connect"
       \/ dpc \in {"hello", "proceed"} /\ toDual[sock] = << >>
    /\ sock' = 0
    /\ dpc' = "user"
    /\ UNCHANGED <<op, connected, outstandingWaitFlag, vm_released, vm_cargo,
                   userrc, sent, actualState, wires>>

-----------------------------------------------------------------------------
\* ESMF_CompExecute, which refuses all but METHOD_WAIT and METHOD_NONE while
\* vm_released is set; the cargo of an outstanding call is taken again.
Call(o) ==
    /\ dpc = "user"
    /\ connected
    /\ o # "destroy" => ~ vm_released
    /\ sent < MaxCalls
    /\ vm_cargo' = IF vm_cargo = NoCargo THEN 0 ELSE vm_cargo
    /\ op' = o
    /\ dpc' = "execute"
    /\ UNCHANGED <<sock, connected, outstandingWaitFlag, vm_released, userrc, sent,
                   actualState, wires>>

\* ESMF_CompWait.
CompWait ==
    /\ dpc = "user"
    /\ connected
    /\ vm_released
    /\ op' = "wait"
    /\ dpc' = "wait"
    /\ UNCHANGED <<sock, connected, outstandingWaitFlag, vm_released, vm_cargo,
                   userrc, sent, actualState, wires>>

\* METHOD_NONE first waits for an outstanding call, and swallows its answer.
WaitedFirst ==
    /\ dpc = "execute"
    /\ op = "destroy"
    /\ outstandingWaitFlag
    /\ toDual[sock] # << >>
    /\ vm_cargo' = Head(toDual[sock]).call
    /\ toDual' = Take(toDual, sock)
    /\ outstandingWaitFlag' = FALSE
    /\ UNCHANGED <<dpc, op, sock, connected, vm_released, userrc, sent, actualState,
                   toActual, connections>>

\* ... and if that times out, METHOD_NONE is not sent, but waited for all the same.
WaitFirstTimeout ==
    /\ dpc = "execute"
    /\ op = "destroy"
    /\ outstandingWaitFlag
    /\ toDual[sock] = << >>
    /\ dpc' = "wait"
    /\ UNCHANGED <<dualState, actualState, wires>>

SendMethod ==
    /\ dpc = "execute"
    /\ ~ outstandingWaitFlag
    /\ toActual' = Put(toActual, sock,
                       Message(IF op = "destroy" THEN "none" ELSE "run", sent + 1))
    /\ dpc' = "phase"
    /\ UNCHANGED <<dualState, actualState, toDual, connections>>

SendPhase ==
    /\ dpc = "phase"
    /\ toActual' = Put(toActual, sock, Message("phase", sent + 1))
    /\ sent' = sent + 1
    /\ outstandingWaitFlag' = TRUE
    /\ IF op = "start"
       THEN vm_released' = TRUE /\ dpc' = "user"
       ELSE dpc' = "wait" /\ UNCHANGED vm_released
    /\ UNCHANGED <<op, sock, connected, vm_cargo, userrc, actualState, toDual,
                   connections>>

\* ESMF_CompDestruct deletes the tunnel, and the component with all it has.
Destroyed ==
    /\ sock' = 0
    /\ connected' = FALSE
    /\ outstandingWaitFlag' = FALSE
    /\ vm_released' = FALSE
    /\ vm_cargo' = NoCargo

\* Mutants of the operators below.
ResetFlag == FALSE
Forever == FALSE

FlagAfterTimeout == outstandingWaitFlag
NoAnswer == toDual[sock] = << >>

\* c_esmc_compwait executes METHOD_WAIT, which waits only for a call that is
\* outstanding, takes the return code from the cargo and deletes it;
\* ESMF_CompDestruct does not look at the return code.
Waited ==
    /\ dpc = "wait"
    /\ outstandingWaitFlag => toDual[sock] # << >>
    /\ toDual' = IF outstandingWaitFlag THEN Take(toDual, sock) ELSE toDual
    /\ IF op = "destroy" THEN Destroyed /\ UNCHANGED userrc
       ELSE /\ userrc' = IF outstandingWaitFlag THEN Head(toDual[sock]).call ELSE vm_cargo
            /\ outstandingWaitFlag' = FALSE
            /\ vm_released' = FALSE
            /\ vm_cargo' = NoCargo
            /\ UNCHANGED <<sock, connected>>
    /\ dpc' = "user"
    /\ UNCHANGED <<op, sent, actualState, toActual, connections>>

\* The nested METHOD_WAIT is nonblocking and sets vm_released, which no one takes
\* back when it has timed out.  A destroy that has a timeoutFlag goes on.
WaitTimeout ==
    /\ dpc = "wait"
    /\ outstandingWaitFlag
    /\ NoAnswer
    /\ \/ /\ vm_released' = TRUE
          /\ outstandingWaitFlag' = FlagAfterTimeout
          /\ UNCHANGED <<sock, connected, vm_cargo>>
       \/ op = "destroy" /\ Destroyed
    /\ dpc' = "user"
    /\ UNCHANGED <<op, userrc, sent, actualState, wires>>

-----------------------------------------------------------------------------
ServiceLoop ==
    /\ apc = "user"
    /\ apc' = "accept"
    /\ UNCHANGED <<dpc, dualState, asock, job, performed, wires>>

RecvContinue ==
    /\ apc = "continue"
    /\ toActual[asock] # << >>
    /\ toActual' = Take(toActual, asock)
    /\ toDual' = Put(toDual, asock, Handshake("proceed"))
    /\ apc' = "method"
    /\ UNCHANGED <<dpc, dualState, asock, job, performed, connections>>

RecvMethod ==
    /\ apc = "method"
    /\ toActual[asock] # << >>
    /\ job' = Head(toActual[asock])
    /\ toActual' = Take(toActual, asock)
    /\ apc' = "phase"
    /\ UNCHANGED <<dpc, dualState, asock, performed, toDual, connections>>

RecvPhase ==
    /\ apc = "phase"
    /\ toActual[asock] # << >>
    /\ toActual' = Take(toActual, asock)
    /\ apc' = "execute"
    /\ UNCHANGED <<dpc, dualState, asock, job, performed, toDual, connections>>

Perform ==
    /\ apc = "execute"
    /\ performed' = job.call
    /\ apc' = "answer"
    /\ UNCHANGED <<dpc, dualState, asock, job, wires>>

\* The return codes go back; after METHOD_NONE, which executes nothing, the
\* service loop is over.
SendAnswer ==
    /\ apc = "answer"
    /\ toDual' = Put(toDual, asock, Message("answer", job.call))
    /\ apc' = IF job.kind = "none" THEN "user" ELSE "method"
    /\ UNCHANGED <<dpc, dualState, asock, job, performed, toActual, connections>>

\* The service loop gives up, and leaves the connection open.
ServiceTimeout ==
    /\ \/ apc = "accept"
       \/ apc \in {"continue", "method", "phase"} /\ toActual[asock] = << >>
    /\ apc' = "user"
    /\ UNCHANGED <<dpc, dualState, asock, job, performed, wires>>

-----------------------------------------------------------------------------
User == \/ SetServices
        \/ \E o \in {"run", "start", "destroy"} : Call(o)
        \/ CompWait

\* The steps of a call of the dual side.
Dual ==
    \/ Connect
    \/ RecvHello
    \/ RecvProceed
    \/ NegotiateTimeout
    \/ WaitedFirst
    \/ WaitFirstTimeout
    \/ SendMethod
    \/ SendPhase
    \/ Waited
    \/ WaitTimeout

Actual ==
    \/ ServiceLoop
    \/ RecvContinue
    \/ RecvMethod
    \/ RecvPhase
    \/ Perform
    \/ SendAnswer
    \/ ServiceTimeout

Next == User \/ Dual \/ Actual

\* The dual side runs; nothing is asked of the actual side.
Spec == Init /\ [][Next]_vars /\ WF_vars(Dual)

-----------------------------------------------------------------------------
Messages == [kind : {"hello", "continue", "proceed", "run", "none", "phase", "answer"},
             call : 0 .. MaxCalls]

\* Every variable has its type.
TypeOK ==
    /\ dpc \in {"user", "connect", "hello", "proceed", "execute", "phase", "wait"}
    /\ op \in {"run", "start", "wait", "destroy"}
    /\ sock \in 0 .. connections
    /\ connected \in BOOLEAN
    /\ outstandingWaitFlag \in BOOLEAN
    /\ vm_released \in BOOLEAN
    /\ vm_cargo \in {NoCargo} \cup 0 .. MaxCalls
    /\ userrc \in 0 .. MaxCalls
    /\ apc \in {"user", "accept", "continue", "method", "phase", "execute", "answer"}
    /\ asock \in 0 .. connections
    /\ job \in Messages
    /\ toActual \in [Connections -> Seq(Messages)]
    /\ toDual \in [Connections -> Seq(Messages)]
    /\ connections \in 0 .. MaxConnections
    /\ sent \in 0 .. MaxCalls
    /\ performed \in 0 .. MaxCalls

\* The two sides never get out of step, however calls, timeouts and answers race
\* (CompTunnel::execute, wait and ServiceLoop): unless a call is outstanding,
\* nothing is on the way in either direction that a later call could take for
\* its own, and what is on the way otherwise belongs to that call.  Between two
\* calls of the program vm_released says whether one is outstanding, so that the
\* next one is refused rather than mixed with it, and a wait has its cargo.
InStep ==
    connected =>
        /\ outstandingWaitFlag =>
              /\ dpc \in {"user", "execute", "wait"}
              /\ toDual[sock] \in {<< >>, <<Message("answer", sent)>>}
              /\ toDual[sock] # << >> => toActual[sock] = << >>
              /\ vm_cargo # NoCargo
              /\ dpc = "execute" => op = "destroy"
        /\ ~ outstandingWaitFlag =>
              /\ toDual[sock] = << >>
              /\ dpc # "phase" => toActual[sock] = << >>
        /\ dpc = "user" => vm_released = outstandingWaitFlag

\* A call is performed at most once, answered only after it was performed, and
\* the answer the program gets is its own.
Remote == INSTANCE RemoteCall WITH
    call <- sent,
    stage <- IF ~ outstandingWaitFlag THEN "over"
             ELSE IF performed = sent THEN "performed" ELSE "asked",
    result <- userrc
Implements == Remote!Spec

\* Every call of the dual component returns, whatever the actual side does.
CallsReturn == (dpc # "user") ~> (dpc = "user")
=============================================================================
