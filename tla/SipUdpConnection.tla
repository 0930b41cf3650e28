-------------------------- MODULE SipUdpConnection --------------------------
(***************************************************************************)
(* The UDP transport of the SIP stack (SipUdpConnection, SipMsgContainer): *)
(* a heap of message containers ordered by the time of their next          *)
(* transmission, retransmitted with exponential back-off until their       *)
(* retransmission limit, and a FIFO of received messages into which        *)
(* statuses made up after a failed send are put as well.                   *)
(*                                                                         *)
(* The limit of a container belongs to the transaction databases, which    *)
(* lower it to 0 to stop a retransmission while the container stays in     *)
(* the heap; everything else of a container belongs to the transport.      *)
(*                                                                         *)
(* Times are distances to now: dueIn[c] is nextTx - now, and 0 once the    *)
(* moment has come.  One pass of the loop of tick() is one action: tick()  *)
(* returns after any pass when the socket would block (EAGAIN).            *)
(***************************************************************************)
EXTENDS SipMsg, Sequences

CONSTANTS
    Container,    \* the containers the process creates, a bound on its sends
    RetransInit,  \* retransmitTimeInitial
    RetransCeil,  \* retransmitTimeMax
    MaxRetrans,   \* MAX_RETRANS_COUNT
    MayNotResolve,\* ids of messages whose destination may fail to resolve
    SendError,    \* the codes that tick() makes of socket errors
    FifoBound     \* no datagram arrives, and no send fails, with more in the FIFO

ASSUME RetransAssumption ==
    /\ RetransInit \in Nat \ {0}
    /\ RetransCeil \in Nat \ {0}
    /\ MaxRetrans \in Nat \ {0}
ASSUME SendErrorAssumption ==
    SendError \subseteq StatusCode /\ \A st \in SendError : IsFinal(st)
ASSUME FifoBoundAssumption == FifoBound \in Nat

VARIABLES
    msgIn,         \* the message of a container, NoMsg before it is created
    retransMax,    \* retransCount
    retransSoFar,
    waitPeriod,    \* wait_period
    dueIn,         \* nextTx, relative to now
    sendQ,         \* the heap of containers to transmit
    unroutable,    \* containers whose send() returned -1
    rcvFifo        \* messages received or made up, not yet taken by receiveNB

dbOwned == <<retransMax>>
udpOwned == <<msgIn, retransSoFar, waitPeriod, dueIn, sendQ, unroutable>>
udpVars == <<dbOwned, udpOwned, rcvFifo>>

\* The longest wait that doubling below the ceiling can reach.
WaitBound ==
    IF RetransInit > 2 * (RetransCeil - 1) THEN RetransInit ELSE 2 * (RetransCeil - 1)

UdpTypeOK ==
    /\ msgIn \in [Container -> SipMessage \cup {NoMsg}]
    /\ retransMax \in [Container -> 0..MaxRetrans]
    /\ retransSoFar \in [Container -> 0..MaxRetrans]
    /\ waitPeriod \in [Container -> 0..WaitBound]
    /\ dueIn \in [Container -> 0..WaitBound]
    /\ sendQ \subseteq Container
    /\ unroutable \subseteq Container
    /\ rcvFifo \in Seq(SipMessage)

UdpInit ==
    /\ msgIn = [c \in Container |-> NoMsg]
    /\ retransMax = [c \in Container |-> 1]
    /\ retransSoFar = [c \in Container |-> 0]
    /\ waitPeriod = [c \in Container |-> 0]
    /\ dueIn = [c \in Container |-> 0]
    /\ sendQ = {}
    /\ unroutable = {}
    /\ rcvFifo = <<>>

-----------------------------------------------------------------------------
(* Sending.                                                                *)

IsFresh(c) == msgIn[c] = NoMsg

\* A new container c for m is handed to send(); routable tells whether the
\* destination resolves.  retransMax' is left to the database that made it.
Send(c, m, routable) ==
    /\ IsFresh(c)
    /\ routable \/ m.tid \in MayNotResolve
    /\ msgIn' = [msgIn EXCEPT ![c] = m]
    /\ sendQ' = IF routable THEN sendQ \cup {c} ELSE sendQ
    /\ unroutable' = IF routable THEN unroutable ELSE unroutable \cup {c}
    /\ UNCHANGED <<retransSoFar, waitPeriod, dueIn>>

\* Mutants of NextWait (no ceiling) and LastTransmission (off by one).
NextWaitNoCeiling(w) == IF w = 0 THEN RetransInit ELSE 2 * w
LastTransmissionEarly(c) == ~ (retransMax[c] > retransSoFar[c] + 2)

NextWait(w) ==
    IF w = 0 THEN RetransInit
    ELSE IF w < RetransCeil THEN 2 * w ELSE w

MayTransmit(c) == retransMax[c] > retransSoFar[c]

\* The transmission now under way is the last one.
LastTransmission(c) == ~ (retransMax[c] > retransSoFar[c] + 1)

\* What a transmission with result st (0: sent, or dropped by the simulated
\* loss) puts into the receive FIFO: a status for every failed request, and a
\* second one when it was the last attempt at anything but an ACK.
LocalErrors(c, st) ==
    LET err == MkStatus(msgIn[c].tid, st)
    IN  IF st = 0 \/ msgIn[c].kind = "status" THEN <<>>
        ELSE IF LastTransmission(c) /\ msgIn[c].tid.method # "ACK"
             THEN <<err, err>> ELSE <<err>>

Due(c) == c \in sendQ /\ dueIn[c] = 0

Transmit(c, st) ==
    /\ Due(c)
    /\ MayTransmit(c)
    /\ st # 0 => Len(rcvFifo) < FifoBound
    /\ retransSoFar' = [retransSoFar EXCEPT ![c] = @ + 1]
    /\ rcvFifo' = rcvFifo \o LocalErrors(c, st)
    /\ IF LastTransmission(c)
       THEN /\ sendQ' = sendQ \ {c}
            /\ UNCHANGED <<waitPeriod, dueIn>>
       ELSE /\ waitPeriod' = [waitPeriod EXCEPT ![c] = NextWait(@)]
            /\ dueIn' = [dueIn EXCEPT ![c] = NextWait(waitPeriod[c])]
            /\ UNCHANGED sendQ
    /\ UNCHANGED <<dbOwned, msgIn, unroutable>>

\* Mutant of Discard: the container is pushed back.
DiscardRequeues(c) == Due(c) /\ ~ MayTransmit(c) /\ UNCHANGED udpVars

\* A container whose limit was lowered leaves the heap without being sent.
Discard(c) ==
    /\ Due(c)
    /\ ~ MayTransmit(c)
    /\ sendQ' = sendQ \ {c}
    /\ UNCHANGED <<dbOwned, rcvFifo, msgIn, retransSoFar, waitPeriod, dueIn, unroutable>>

-----------------------------------------------------------------------------
(* Receiving, and the passage of time.                                     *)

\* tick() reads one datagram and pushes it onto the FIFO.
Receive(m) ==
    /\ Len(rcvFifo) < FifoBound
    /\ rcvFifo' = Append(rcvFifo, m)
    /\ UNCHANGED <<dbOwned, udpOwned>>

\* getNextMessage
GetNextMessage == rcvFifo # <<>> /\ rcvFifo' = Tail(rcvFifo)

UdpElapse ==
    /\ dueIn' = [c \in Container |-> IF dueIn[c] > 0 THEN dueIn[c] - 1 ELSE 0]
    /\ UNCHANGED <<dbOwned, rcvFifo, msgIn, retransSoFar, waitPeriod, sendQ, unroutable>>

=============================================================================
