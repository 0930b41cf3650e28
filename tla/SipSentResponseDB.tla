------------------------- MODULE SipSentResponseDB --------------------------
(***************************************************************************)
(* The server half of the SIP transaction layer: SipSentResponseDB         *)
(* together with the transport.  Requests come in through receiveNB; the   *)
(* application answers with SipTransceiver::sendReply.                     *)
(*                                                                         *)
(* pairs[k] is the list msgs of the call container of k.  Of a pair's      *)
(* request container only the kind of its message is kept ("status" once   *)
(* an out-of-order request was overwritten with the 400 that rejects it).  *)
(* Its response is a container handed to the transport, or one that never  *)
(* reaches it: the container of a duplicate request (RcvdCopy) or the 400  *)
(* of a rejected request (Unsent).                                         *)
(***************************************************************************)
EXTENDS SipTransactionDB

CONSTANTS
    PeerRequest,  \* ids of the requests that the network delivers
    ReplyCode,    \* codes of the statuses that the application sends
    NoResponse, RcvdCopy, Unsent

NotTransported == {NoResponse, RcvdCopy, Unsent}

ASSUME PeerRequestAssumption == PeerRequest \subseteq SipTransactionId
ASSUME ReplyCodeAssumption == ReplyCode \subseteq StatusCode
ASSUME ResponseAssumption == Container \cap NotTransported = {}

VARIABLES
    known,     \* calls with a container in the table
    pairs,
    curSeqNum,
    seqSet,    \* calls whose setSeq is true
    handed,    \* requests handed to the application that it may answer
    ups,       \* history: deliveries of a request, not ACK or CANCEL, since its
               \* call is known (up to 2)
    ackSeq,    \* history: highest CSeq of an ACK or CANCEL handed up
    acked      \* history: recorded INVITE responses whose ACK was handed up

dbVars == <<known, pairs, curSeqNum, seqSet>>
history == <<handed, ups, ackSeq, acked>>
vars == <<udpVars, purgeVars, dbVars, history>>

Pair == [tid : SipTransactionId, req : {"request", "status"},
         resp : Container \cup NotTransported]

\* Every variable has its type.
TypeOK ==
    /\ UdpTypeOK
    /\ PurgeTypeOK
    /\ known \subseteq Call
    /\ pairs \in [Call -> Seq(Pair)]
    /\ curSeqNum \in [Call -> Nat]
    /\ seqSet \subseteq Call
    /\ handed \subseteq SipTransactionId
    /\ ups \in [SipTransactionId -> 0..2]
    /\ ackSeq \in [Call -> Nat]
    /\ acked \subseteq Container

Init ==
    /\ UdpInit
    /\ PurgeInit
    /\ known = {}
    /\ pairs = [k \in Call |-> <<>>]
    /\ curSeqNum = [k \in Call |-> 0]
    /\ seqSet = {}
    /\ handed = {}
    /\ ups = [tid \in SipTransactionId |-> 0]
    /\ ackSeq = [k \in Call |-> 0]
    /\ acked = {}

SeqExempt(tid) == tid.method \in {"ACK", "CANCEL"}

\* Mutant of FindMsgPair: answered pairs are overlooked.
FindPendingPair(tid) ==
    {i \in DOMAIN pairs[tid.call] : /\ pairs[tid.call][i].tid = tid
                                    /\ pairs[tid.call][i].resp = NoResponse}

\* findMsgPair(id): the positions of the pairs with this transaction id.
FindMsgPair(tid) == {i \in DOMAIN pairs[tid.call] : pairs[tid.call][i].tid = tid}

\* findMsgPair(SIP_INVITE): a pair counts if its request, or a duplicate
\* request kept in the place of its response, is an INVITE.
HoldsInvite(p) == p.tid.method = "INVITE" /\ (p.req = "request" \/ p.resp = RcvdCopy)

FirstInvite(k) ==
    {i \in DOMAIN pairs[k] : /\ HoldsInvite(pairs[k][i])
                             /\ \A j \in 1..(i - 1) : ~ HoldsInvite(pairs[k][j])}

-----------------------------------------------------------------------------
(* sendReply: processSend, then send.                                      *)

\* Mutants of ReplyRetransMax: one transmission too many; no test for a proxy.
ReplyRetransMaxOneMore(m) ==
    IF m.tid.call \in known /\ ToBeRetransmitted(m) /\ ~ Proxy THEN MaxRetrans + 1 ELSE 1
ReplyRetransMaxAnyContext(m) ==
    IF m.tid.call \in known /\ ToBeRetransmitted(m) THEN MaxRetrans ELSE 1

ReplyRetransMax(m) ==
    IF m.tid.call \in known /\ ToBeRetransmitted(m) /\ ~ Proxy THEN MaxRetrans ELSE 1

\* Mutant of PairsAfterReply: every pair without a response takes the status.
PairsAfterReplyAnyPair(c, m) ==
    [pairs EXCEPT ![m.tid.call] =
        [i \in DOMAIN @ |->
            IF IsFinal(m.code) /\ pairs[m.tid.call][i].resp = NoResponse
            THEN [@[i] EXCEPT !.resp = c] ELSE @[i]]]

\* A final status becomes its pair's response unless the pair has one; a
\* second one ("Collision") is sent without being recorded.
PairsAfterReply(c, m) ==
    [pairs EXCEPT ![m.tid.call] =
        [i \in DOMAIN @ |->
            IF /\ i \in FindMsgPair(m.tid) /\ IsFinal(m.code)
               /\ pairs[m.tid.call][i].resp = NoResponse
            THEN [@[i] EXCEPT !.resp = c] ELSE @[i]]]

SendReply(c, m, routable) ==
    /\ Send(c, m, routable)
    /\ retransMax' = [retransMax EXCEPT ![c] = ReplyRetransMax(m)]
    /\ pairs' = PairsAfterReply(c, m)
    /\ UNCHANGED <<rcvFifo, purgeVars, known, curSeqNum, seqSet, history>>

-----------------------------------------------------------------------------
(* receiveNB for a request: getNextMessage, then processRecv.              *)

\* No status answers an ACK.
Answerable(tid) == IF tid.method = "ACK" THEN {} ELSE {tid}

\* History: the request is handed to the application.
HandUp(tid) ==
    /\ handed' = handed \cup Answerable(tid)
    /\ ups' = [ups EXCEPT ![tid] = IF SeqExempt(tid) THEN 0 ELSE IF @ < 2 THEN @ + 1 ELSE 2]
    /\ ackSeq' = [ackSeq EXCEPT ![tid.call] =
                    IF SeqExempt(tid) /\ tid.seq > @ THEN tid.seq ELSE @]

\* No call container and none made: passed up unfiltered.
RecvOutsideCall(tid) ==
    /\ tid.call \notin known
    /\ tid.method # "INVITE"
    /\ handed' = handed \cup Answerable(tid)
    /\ UNCHANGED <<dbOwned, dbVars, ups, ackSeq, acked>>

\* The list of pairs that processRecv works on: an INVITE makes its call known.
InCall(tid) == tid.call \in known \/ tid.method = "INVITE"

MakeKnown(tid) == known' = known \cup {tid.call}

LimitAfterDuplicate(resp) ==
    IF resp \in Container THEN [retransMax EXCEPT ![resp] = 0] ELSE retransMax

\* A duplicate of an answered request: the response stops, and the
\* duplicate's container, which nobody sends, takes its place.
RecvAnsweredDuplicate(tid) ==
    \E i \in FindMsgPair(tid) :
        LET resp == pairs[tid.call][i].resp
        IN  /\ tid.call \in known
            /\ resp # NoResponse
            /\ retransMax' = LimitAfterDuplicate(resp)
            /\ pairs' = [pairs EXCEPT ![tid.call][i].resp = RcvdCopy]
            /\ UNCHANGED <<known, curSeqNum, seqSet, history>>

RecvPendingDuplicate(tid) ==
    \E i \in FindMsgPair(tid) :
        /\ tid.call \in known
        /\ pairs[tid.call][i].resp = NoResponse
        /\ UNCHANGED <<dbOwned, dbVars, history>>

FirstTime(tid) == InCall(tid) /\ FindMsgPair(tid) = {}

\* A proxy keeps the call container but no pairs and no CSeq.
RecvAsProxy(tid) ==
    /\ Proxy
    /\ FirstTime(tid)
    /\ MakeKnown(tid)
    /\ HandUp(tid)
    /\ UNCHANGED <<dbOwned, pairs, curSeqNum, seqSet, acked>>

AddPair(tid, req, resp) ==
    pairs' = [pairs EXCEPT ![tid.call] = Append(@, [tid |-> tid, req |-> req, resp |-> resp])]

\* Mutant of InOrder: an equal number is let through.
InOrderOrEqual(tid) == tid.call \in seqSet => tid.seq >= curSeqNum[tid.call]

\* The order is checked only once an ACK or CANCEL has set curSeqNum.
InOrder(tid) == tid.call \in seqSet => tid.seq > curSeqNum[tid.call]

RecvInOrder(tid) ==
    /\ ~ Proxy /\ ~ SeqExempt(tid)
    /\ FirstTime(tid)
    /\ InOrder(tid)
    /\ MakeKnown(tid)
    /\ AddPair(tid, "request", NoResponse)
    /\ curSeqNum' = IF tid.call \in seqSet
                    THEN [curSeqNum EXCEPT ![tid.call] = tid.seq] ELSE curSeqNum
    /\ HandUp(tid)
    /\ UNCHANGED <<dbOwned, seqSet, acked>>

\* processSend(400) records a container that receiveNB never transmits.
RecvOutOfOrder(tid) ==
    /\ ~ Proxy /\ ~ SeqExempt(tid)
    /\ FirstTime(tid)
    /\ ~ InOrder(tid)
    /\ MakeKnown(tid)
    /\ AddPair(tid, "status", Unsent)
    /\ UNCHANGED <<dbOwned, curSeqNum, seqSet, history>>

\* Mutant of AckedResponses: the last pair with an INVITE instead of the first.
AckedResponsesOfLast(k) ==
    {pairs[k][i].resp :
        i \in {i \in DOMAIN pairs[k] :
                 /\ HoldsInvite(pairs[k][i])
                 /\ \A j \in (i + 1)..Len(pairs[k]) : ~ HoldsInvite(pairs[k][j])}}
    \cap Container

\* The response containers whose retransmission the ACK of this call ends.
AckedResponses(k) == {pairs[k][i].resp : i \in FirstInvite(k)} \cap Container

\* History: the recorded response that the ACK acknowledges.
AcknowledgedBy(tid) ==
    {pairs[tid.call][i].resp : i \in FindMsgPair([tid EXCEPT !.method = "INVITE"])}
        \cap Container

RecvAckOrCancel(tid) ==
    /\ ~ Proxy /\ SeqExempt(tid)
    /\ FirstTime(tid)
    /\ curSeqNum' = [curSeqNum EXCEPT ![tid.call] = IF tid.seq > @ THEN tid.seq ELSE @]
    /\ seqSet' = IF tid.seq > curSeqNum[tid.call] THEN seqSet \cup {tid.call} ELSE seqSet
    /\ retransMax' = [c \in Container |->
                        IF tid.method = "ACK" /\ c \in AckedResponses(tid.call)
                        THEN 0 ELSE retransMax[c]]
    /\ acked' = IF tid.method = "ACK" THEN acked \cup AcknowledgedBy(tid) ELSE acked
    /\ HandUp(tid)
    /\ UNCHANGED <<known, pairs>>

RecvRequest ==
    /\ GetNextMessage
    /\ LET tid == Head(rcvFifo).tid
       IN  \/ RecvOutsideCall(tid)
           \/ RecvAnsweredDuplicate(tid)
           \/ RecvPendingDuplicate(tid)
           \/ RecvAsProxy(tid)
           \/ RecvInOrder(tid)
           \/ RecvOutOfOrder(tid)
           \/ RecvAckOrCancel(tid)
    /\ UNCHANGED <<udpOwned, purgeVars>>

-----------------------------------------------------------------------------
(* The application, the network, purging, transmission, time.              *)

\* The application answers what it was handed, also more than once.
AppReply ==
    \E c \in Container, tid \in handed, code \in ReplyCode, routable \in BOOLEAN :
        SendReply(c, MkStatus(tid, code), routable)

NetworkRequest ==
    \E tid \in PeerRequest :
        Receive(MkRequest(tid)) /\ UNCHANGED <<purgeVars, dbVars, history>>

ReleaseCall(k) ==
    /\ DeleteLeg(k, k \in known)
    /\ UNCHANGED <<udpVars, dbVars, history>>

\* Erasing a call container loses its pairs and its CSeq.
PurgeOldCalls ==
    /\ SweepTimers
    /\ known' = {k \in known : ~ Expired(k)}
    /\ pairs' = [k \in Call |-> IF Expired(k) THEN <<>> ELSE pairs[k]]
    /\ curSeqNum' = [k \in Call |-> IF Expired(k) THEN 0 ELSE curSeqNum[k]]
    /\ seqSet' = {k \in seqSet : ~ Expired(k)}
    /\ ups' = [tid \in SipTransactionId |-> IF Expired(tid.call) THEN 0 ELSE ups[tid]]
    /\ ackSeq' = [k \in Call |-> IF Expired(k) THEN 0 ELSE ackSeq[k]]
    /\ UNCHANGED <<udpVars, handed, acked>>

UdpTick ==
    \E c \in Container :
        \/ \E st \in {0} \cup SendError :
               Transmit(c, st) /\ UNCHANGED <<purgeVars, dbVars, history>>
        \/ Discard(c) /\ UNCHANGED <<purgeVars, dbVars, history>>

Elapse == UdpElapse /\ PurgeElapse /\ UNCHANGED <<dbVars, history>>

Next ==
    \/ AppReply
    \/ RecvRequest
    \/ NetworkRequest
    \/ \E k \in Call : ReleaseCall(k)
    \/ PurgeOldCalls
    \/ UdpTick
    \/ Elapse

Spec == Init /\ [][Next]_vars

\* As in SipSentRequestDB: the event loop keeps running.
Fairness ==
    /\ WF_vars(UdpTick)
    /\ WF_vars(RecvRequest)
    /\ WF_vars(PurgeOldCalls)
    /\ WF_vars(Elapse)

FairSpec == Spec /\ Fairness

-----------------------------------------------------------------------------
(* Properties.                                                             *)

\* While its call is known, a user agent's application is handed a request
\* at most once however often the peer retransmits it, be it answered,
\* rejected or pending.  (ACK and CANCEL have no record and are handed up
\* every time.)
NoDuplicateDelivery ==
    \A tid \in SipTransactionId :
        ~ Proxy /\ ~ SeqExempt(tid) /\ tid.call \in known => ups[tid] <= 1

\* One record for a transaction id, and each response container belongs to
\* the pair whose id it answers: an ACK or a duplicate can only stop the
\* retransmission of a response of its own call.
PairsConsistent ==
    \A k \in Call : \A i \in DOMAIN pairs[k] :
        /\ k \in known
        /\ pairs[k][i].tid.call = k
        /\ \A j \in DOMAIN pairs[k] : pairs[k][j].tid = pairs[k][i].tid => i = j
        /\ pairs[k][i].resp \in Container => msgIn[pairs[k][i].resp].tid = pairs[k][i].tid

\* After an ACK or CANCEL with number n was handed up to a user agent's
\* application, no other request of the call with a number up to n is, until
\* the call is purged.
NoRequestBehindAck ==
    [][\A tid \in SipTransactionId :
          ~ Proxy /\ ups'[tid] > ups[tid] /\ ~ SeqExempt(tid) => tid.seq > ackSeq[tid.call]]_vars

\* A user agent's final status for an INVITE that is still on record is
\* retransmitted until it was sent MAX_RETRANS_COUNT times or an ACK came: its
\* own for any but the first INVITE, whose status every ACK of the call stops.
RecordedFinalKeepsGoing ==
    \A k \in Call : \A i \in DOMAIN pairs[k] :
        LET c == pairs[k][i].resp
        IN  ~ Proxy /\ c \in Container /\ pairs[k][i].tid.method = "INVITE" =>
              \/ c \in sendQ /\ retransMax[c] = MaxRetrans
              \/ c \in unroutable \/ retransSoFar[c] = MaxRetrans
              \/ i \in FirstInvite(k) /\ ackSeq[k] > 0

\* The recorded final status of a call's first INVITE is not sent again once
\* its ACK was handed up.
AckSilencesFirstInvite ==
    [][\A k \in Call : \A i \in FirstInvite(k) :
          pairs[k][i].resp \in acked
          => retransSoFar'[pairs[k][i].resp] = retransSoFar[pairs[k][i].resp]]_vars

\* A proxy transmits no status more than once.
ProxySendsOnce ==
    Proxy => \A c \in Container : retransSoFar[c] <= 1

\* A call whose leg was deleted leaves the table.
EndedCallIsForgotten ==
    \A k \in Call : k \in armed ~> k \notin known

\* As the change log has it: the stack resends lost responses; a final status
\* for an INVITE goes on until its ACK comes or it was sent as often as allowed.
LostResponseResent ==
    \A c \in Container :
        ~ IsFresh(c) /\ msgIn[c].tid.call \in known /\ ToBeRetransmitted(msgIn[c]) =>
            \/ c \in sendQ /\ retransMax[c] = MaxRetrans
            \/ c \in unroutable \/ retransSoFar[c] = MaxRetrans
            \/ ackSeq[msgIn[c].tid.call] > 0

=============================================================================
