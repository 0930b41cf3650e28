-------------------------- MODULE SipSentRequestDB --------------------------
(***************************************************************************)
(* The client half of the SIP transaction layer: SipSentRequestDB together *)
(* with the transport it sends through.  The application hands requests to *)
(* SipTransceiver::sendAsync; statuses come back through receiveNB.        *)
(*                                                                         *)
(* A SipMsgPair is kept with the container of its request.  pair[c] says   *)
(* what became of the pair: "none" if c was never recorded, "pending"      *)
(* while it has no response, "answered" once it has, "purged" once its     *)
(* call container left the table.  A call has a container in the table     *)
(* exactly while one of its pairs is recorded.                             *)
(***************************************************************************)
EXTENDS SipTransactionDB

CONSTANT AppRequest  \* ids of the requests that the application sends

ASSUME AppRequestAssumption == AppRequest \subseteq SipTransactionId

VARIABLES
    pair,
    finals,     \* history: recorded final statuses handed up for a request (up to 2)
    heard,      \* history: requests whose pair processed a status
    cancelled   \* history: requests recorded when a CANCEL of their call was sent

dbVars == <<pair, finals, heard, cancelled>>
vars == <<udpVars, purgeVars, dbVars>>

PairState == {"none", "pending", "answered", "purged"}

\* Every variable has its type: in particular the transmission count, the
\* back-off and the purge timers of the stack stay within their bounds.
TypeOK ==
    /\ UdpTypeOK
    /\ PurgeTypeOK
    /\ pair \in [Container -> PairState]
    /\ finals \in [Container -> 0..2]
    /\ heard \subseteq Container
    /\ cancelled \subseteq Container

Init ==
    /\ UdpInit
    /\ PurgeInit
    /\ pair = [c \in Container |-> "none"]
    /\ finals = [c \in Container |-> 0]
    /\ heard = {}
    /\ cancelled = {}

Recorded(c) == pair[c] \in {"pending", "answered"}

\* Mutant of FindMsgPair: only unanswered pairs are looked at.
FindPendingPair(tid) == {c \in Container : pair[c] = "pending" /\ msgIn[c].tid = tid}

\* findMsgPair(id): the pairs of the table with this transaction id.
FindMsgPair(tid) == {c \in Container : Recorded(c) /\ msgIn[c].tid = tid}

\* The pairs of a call container.
PairsOf(k) == {c \in Container : Recorded(c) /\ msgIn[c].tid.call = k}

-----------------------------------------------------------------------------
(* sendAsync: processSend, then send.                                      *)

InitialRetransMax(tid) == IF tid.method = "ACK" THEN 1 ELSE MaxRetrans

\* Mutants of StopAllRetrans: no request, and those of every call.
StopNoRetrans(k) == {}
StopEveryCall(k) == {c \in Container : Recorded(c)}

\* stopAllRetrans: the requests whose limit it lowers to 0.
StopAllRetrans(k) == PairsOf(k)

\* An id that the table has already: logged, and sent without a record.
SendAgain(c, tid, routable) ==
    /\ FindMsgPair(tid) # {}
    /\ Send(c, MkRequest(tid), routable)
    /\ retransMax' = [retransMax EXCEPT ![c] = InitialRetransMax(tid)]
    /\ UNCHANGED <<rcvFifo, purgeVars, dbVars>>

SendFirst(c, tid, routable) ==
    LET stopped == IF tid.method = "CANCEL" THEN StopAllRetrans(tid.call) ELSE {}
    IN  /\ FindMsgPair(tid) = {}
        /\ Send(c, MkRequest(tid), routable)
        /\ retransMax' = [d \in Container |->
                            IF d = c THEN InitialRetransMax(tid)
                            ELSE IF d \in stopped THEN 0 ELSE retransMax[d]]
        /\ IF tid.method \in {"CANCEL", "BYE"}
           THEN SetPurgeTimer(tid.call) /\ UNCHANGED released
           ELSE UNCHANGED purgeVars
        /\ pair' = [pair EXCEPT ![c] = "pending"]
        /\ cancelled' = IF tid.method = "CANCEL"
                        THEN cancelled \cup PairsOf(tid.call) ELSE cancelled
        /\ UNCHANGED <<rcvFifo, finals, heard>>

SendRequest ==
    \E c \in Container, tid \in AppRequest, routable \in BOOLEAN :
        SendAgain(c, tid, routable) \/ SendFirst(c, tid, routable)

-----------------------------------------------------------------------------
(* receiveNB for a status: getNextMessage, then processRecv.               *)

\* Mutant of LimitAfterStatus: no status ends it.
LimitAfterStatusKept(c) == retransMax

\* Any status for a recorded request ends its retransmission.
LimitAfterStatus(c) == [retransMax EXCEPT ![c] = 0]

\* Given to the application and otherwise forgotten: a provisional status,
\* and in a proxy a 200 for an INVITE.
Forwarded(m) ==
    \/ ~ IsFinal(m.code)
    \/ Proxy /\ m.code = 200 /\ m.tid.method = "INVITE"

RecvUnmatched ==
    /\ GetNextMessage
    /\ FindMsgPair(Head(rcvFifo).tid) = {}
    /\ UNCHANGED <<dbOwned, udpOwned, purgeVars, dbVars>>

RecvForwarded(c) ==
    /\ GetNextMessage
    /\ c \in FindMsgPair(Head(rcvFifo).tid)
    /\ Forwarded(Head(rcvFifo))
    /\ retransMax' = LimitAfterStatus(c)
    /\ heard' = heard \cup {c}
    /\ UNCHANGED <<udpOwned, purgeVars, pair, finals, cancelled>>

\* Mutant of RecvFirstFinal: the response is not recorded.
RecvFirstFinalUnrecorded(c) ==
    /\ GetNextMessage
    /\ c \in FindMsgPair(Head(rcvFifo).tid)
    /\ ~ Forwarded(Head(rcvFifo))
    /\ pair[c] = "pending"
    /\ retransMax' = LimitAfterStatus(c)
    /\ heard' = heard \cup {c}
    /\ UNCHANGED <<udpOwned, purgeVars, pair, finals, cancelled>>

RecvFirstFinal(c) ==
    /\ GetNextMessage
    /\ c \in FindMsgPair(Head(rcvFifo).tid)
    /\ ~ Forwarded(Head(rcvFifo))
    /\ pair[c] = "pending"
    /\ retransMax' = LimitAfterStatus(c)
    /\ pair' = [pair EXCEPT ![c] = "answered"]
    /\ finals' = [finals EXCEPT ![c] = IF @ < 2 THEN @ + 1 ELSE 2]
    /\ heard' = heard \cup {c}
    /\ UNCHANGED <<udpOwned, purgeVars, cancelled>>

\* Mutant of RecvDuplicateFinal: the duplicate goes up as well.
RecvDuplicateFinalUp(c) ==
    /\ GetNextMessage
    /\ c \in FindMsgPair(Head(rcvFifo).tid)
    /\ ~ Forwarded(Head(rcvFifo))
    /\ pair[c] = "answered"
    /\ retransMax' = LimitAfterStatus(c)
    /\ finals' = [finals EXCEPT ![c] = IF @ < 2 THEN @ + 1 ELSE 2]
    /\ UNCHANGED <<udpOwned, purgeVars, pair, heard, cancelled>>

RecvDuplicateFinal(c) ==
    /\ GetNextMessage
    /\ c \in FindMsgPair(Head(rcvFifo).tid)
    /\ ~ Forwarded(Head(rcvFifo))
    /\ pair[c] = "answered"
    /\ retransMax' = LimitAfterStatus(c)
    /\ heard' = heard \cup {c}
    /\ UNCHANGED <<udpOwned, purgeVars, pair, finals, cancelled>>

RecvStatus ==
    \/ RecvUnmatched
    \/ \E c \in Container :
         RecvForwarded(c) \/ RecvFirstFinal(c) \/ RecvDuplicateFinal(c)

-----------------------------------------------------------------------------
(* Purging, transmission, time.                                            *)

ReleaseCall(k) ==
    /\ DeleteLeg(k, PairsOf(k) # {})
    /\ UNCHANGED <<udpVars, dbVars>>

PurgeOldCalls ==
    /\ SweepTimers
    /\ pair' = [c \in Container |->
                  IF Recorded(c) /\ Expired(msgIn[c].tid.call) THEN "purged" ELSE pair[c]]
    /\ UNCHANGED <<udpVars, finals, heard, cancelled>>

UdpTick ==
    \E c \in Container :
        \/ \E st \in {0} \cup SendError : Transmit(c, st) /\ UNCHANGED <<purgeVars, dbVars>>
        \/ Discard(c) /\ UNCHANGED <<purgeVars, dbVars>>

\* A datagram with a status for a request that the application may have sent.
NetworkStatus ==
    \E tid \in AppRequest, code \in StatusCode :
        Receive(MkStatus(tid, code)) /\ UNCHANGED <<purgeVars, dbVars>>

Elapse == UdpElapse /\ PurgeElapse /\ UNCHANGED dbVars

Next ==
    \/ SendRequest
    \/ RecvStatus
    \/ \E k \in Call : ReleaseCall(k)
    \/ PurgeOldCalls
    \/ UdpTick
    \/ NetworkStatus
    \/ Elapse

Spec == Init /\ [][Next]_vars

\* The event loop runs tick() and receiveNB() again and again, the socket
\* does not block for ever, and time passes.
Fairness ==
    /\ WF_vars(UdpTick)
    /\ WF_vars(RecvStatus)
    /\ WF_vars(PurgeOldCalls)
    /\ WF_vars(Elapse)

FairSpec == Spec /\ Fairness

-----------------------------------------------------------------------------
(* Properties.                                                             *)

\* Never two records for one transaction id, although the application may
\* send an id again (processSend then skips addMsgPair) and a purge makes
\* room for a new record: so findMsgPair, which returns the first match,
\* has no choice to make and a status cannot go to the wrong pair.
UniquePairs ==
    \A c, d \in Container :
        Recorded(c) /\ Recorded(d) /\ msgIn[c].tid = msgIn[d].tid => c = d

\* The application gets at most one recorded final status for a request,
\* although the network may duplicate it, several attempts to send may each
\* make up one, and the last failed attempt makes up two.
AtMostOneFinal ==
    \A c \in Container : finals[c] <= 1

\* A recorded request without status and not cancelled is being worked on:
\* it is in the heap, or was sent as often as allowed, or its destination did
\* not resolve.  The transport drops none on an error path.
NoLostRequest ==
    \A c \in Container :
        pair[c] = "pending" /\ c \notin heard \cup cancelled =>
            c \in sendQ \/ c \in unroutable
            \/ retransSoFar[c] = InitialRetransMax(msgIn[c].tid)

\* Once a status of any kind was processed for a request, the request is
\* never on the wire again, even after its record is purged while its
\* container still sits in the heap.
QuietAfterStatus ==
    [][\A c \in heard : retransSoFar'[c] = retransSoFar[c]]_vars

\* Once a CANCEL was sent for a call, the requests recorded for the call
\* until then are never on the wire again.
QuietAfterCancel ==
    [][\A c \in cancelled : retransSoFar'[c] = retransSoFar[c]]_vars

\* Every container leaves the heap, however statuses, cancellations, failed
\* sends and purges interleave with its retransmissions.
QueueDrains ==
    \A c \in Container : c \in sendQ ~> c \notin sendQ

\* A final status waiting in the FIFO, from the network or made up for a
\* failed send, ends the transaction that waits for it.
FinalEndsTransaction ==
    \A c \in Container :
        (pair[c] = "pending" /\ \E i \in DOMAIN rcvFifo :
             /\ rcvFifo[i].tid = msgIn[c].tid
             /\ ~ Forwarded(rcvFifo[i]))
        ~> pair[c] # "pending"

\* The records of a call that ended (BYE or CANCEL sent, or its leg deleted)
\* are reclaimed, also when the timer is set again before it expires.
EndedCallIsForgotten ==
    \A k \in Call : k \in armed ~> PairsOf(k) = {}

\* Where a request stands on its way through the transport.
Air(c) ==
    IF IsFresh(c) THEN "unsent"
    ELSE IF c \in sendQ /\ MayTransmit(c) THEN "sending" ELSE "silent"

Promise == INSTANCE ClientTransaction WITH
    Message <- Container, MaxSends <- MaxRetrans,
    air <- [c \in Container |-> Air(c)], sends <- retransSoFar, record <- pair

\* The databases and the transport, which stop a retransmission only through
\* the limit in the container they share, keep the promise of a client
\* transaction: every step is one of ClientTransaction's or none.
ImplementsPromise == Promise!Spec

=============================================================================
