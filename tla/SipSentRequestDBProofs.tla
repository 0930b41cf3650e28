----------------------- MODULE SipSentRequestDBProofs -----------------------
(***************************************************************************)
(* Proofs about SipSentRequestDB, for any number of containers, calls and  *)
(* retransmissions, any timers, and both application contexts.             *)
(***************************************************************************)
EXTENDS SipSentRequestDB, SipTransactionDBProofs

(***************************************************************************)
(* The inductive invariant.  NoLostRequest needs that the limit of a       *)
(* request nobody silenced is still the one it was created with and not    *)
(* yet used up while it is queued; the two Quiet properties need that a    *)
(* silenced request has limit 0, which in turn needs that no container is  *)
(* used for a second message.                                              *)
(***************************************************************************)
FreshUntouched ==
    \A c \in Container :
        IsFresh(c) => c \notin sendQ /\ pair[c] = "none" /\ retransSoFar[c] = 0

RecordsAreRequests ==
    \A c \in Container : pair[c] # "none" => msgIn[c] \in Request

SilencedHaveLimitZero ==
    \A c \in heard \cup cancelled : pair[c] # "none" /\ retransMax[c] = 0

FinalsMatchState ==
    \A c \in Container :
        /\ pair[c] \in {"none", "pending"} => finals[c] = 0
        /\ finals[c] <= 1

Active(c) == pair[c] = "pending" /\ c \notin heard \cup cancelled

ActiveKeepsLimit ==
    \A c \in Container :
        Active(c) => /\ retransMax[c] = InitialRetransMax(msgIn[c].tid)
                     /\ c \in sendQ => retransSoFar[c] < retransMax[c]

IInv ==
    /\ TypeOK
    /\ FreshUntouched
    /\ RecordsAreRequests
    /\ SilencedHaveLimitZero
    /\ FinalsMatchState
    /\ ActiveKeepsLimit
    /\ UniquePairs
    /\ NoLostRequest

-----------------------------------------------------------------------------
(* IInv is inductive: one lemma for each action.                           *)

\* Init of the model: nothing created, nothing recorded.
LEMMA InitIInv == Init => IInv
<1> SUFFICES ASSUME Init PROVE IInv
  OBVIOUS
<1> USE DEF Init, UdpInit, PurgeInit
<1>1. TypeOK
  BY RetransAssumption, PurgeAssumption
     DEF TypeOK, UdpTypeOK, PurgeTypeOK, PairState, WaitBound
<1>2. FreshUntouched /\ RecordsAreRequests /\ SilencedHaveLimitZero
  BY DEF FreshUntouched, RecordsAreRequests, SilencedHaveLimitZero
<1>3. FinalsMatchState /\ ActiveKeepsLimit /\ UniquePairs /\ NoLostRequest
  BY DEF FinalsMatchState, ActiveKeepsLimit, Active, UniquePairs, Recorded, NoLostRequest
<1> QED BY <1>1, <1>2, <1>3 DEF IInv

\* sendAsync of an id on record (processSend logs "two identical requests").
LEMMA SendAgainIInv ==
    ASSUME IInv, NEW c \in Container, NEW tid \in AppRequest, NEW routable \in BOOLEAN,
           SendAgain(c, tid, routable)
    PROVE  IInv'
<1> USE DEF SendAgain, Send, dbVars, purgeVars
<1>0. tid \in SipTransactionId
  BY AppRequestAssumption
<1>m. MkRequest(tid) \in Request /\ MkRequest(tid) \in SipMessage /\ MkRequest(tid) # NoMsg
  BY <1>0, MkRequestType, NoMsgAssumption DEF SipMessage
<1>n. pair[c] = "none" /\ c \notin heard \cup cancelled
  BY DEF IInv, FreshUntouched, SilencedHaveLimitZero
<1>l. InitialRetransMax(tid) \in 0..MaxRetrans
  BY RetransAssumption DEF InitialRetransMax
<1>1. TypeOK'
  BY <1>m, <1>l DEF IInv, TypeOK, UdpTypeOK, PurgeTypeOK
<1>2. FreshUntouched'
  BY <1>m DEF IInv, TypeOK, UdpTypeOK, FreshUntouched, IsFresh
<1>3. RecordsAreRequests'
  BY <1>m, <1>n DEF IInv, TypeOK, UdpTypeOK, RecordsAreRequests
<1>4. SilencedHaveLimitZero'
  BY <1>n DEF IInv, TypeOK, UdpTypeOK, SilencedHaveLimitZero
<1>5. FinalsMatchState'
  BY DEF IInv, FinalsMatchState
<1>6. ActiveKeepsLimit'
  BY <1>n DEF IInv, TypeOK, UdpTypeOK, ActiveKeepsLimit, Active
<1>7. UniquePairs'
  BY <1>n DEF IInv, TypeOK, UdpTypeOK, UniquePairs, Recorded
<1>8. NoLostRequest'
  BY <1>n DEF IInv, TypeOK, UdpTypeOK, NoLostRequest
<1> QED BY <1>1, <1>2, <1>3, <1>4, <1>5, <1>6, <1>7, <1>8 DEF IInv

\* sendAsync of a new id: processSend records it, a CANCEL stops its call.
LEMMA SendFirstIInv ==
    ASSUME IInv, NEW c \in Container, NEW tid \in AppRequest, NEW routable \in BOOLEAN,
           SendFirst(c, tid, routable)
    PROVE  IInv'
<1> USE DEF SendFirst, Send
<1>0. tid \in SipTransactionId /\ tid.call \in Call
  BY AppRequestAssumption DEF SipTransactionId
<1>m. /\ MkRequest(tid) \in Request /\ MkRequest(tid) \in SipMessage
      /\ MkRequest(tid) # NoMsg /\ MkRequest(tid).tid = tid
  BY <1>0, MkRequestType, NoMsgAssumption DEF SipMessage
<1>n. /\ pair[c] = "none" /\ c \notin heard \cup cancelled
      /\ retransSoFar[c] = 0 /\ c \notin PairsOf(tid.call)
  BY DEF IInv, FreshUntouched, SilencedHaveLimitZero, PairsOf, Recorded
<1>l. InitialRetransMax(tid) \in 1..MaxRetrans
  BY RetransAssumption DEF InitialRetransMax
<1>u. \A d \in Container : Recorded(d) => msgIn[d].tid # tid
  BY DEF FindMsgPair
<1>p. PurgeTypeOK'
  BY <1>0, PurgeAssumption DEF IInv, TypeOK, PurgeTypeOK, purgeVars, SetPurgeTimer
<1>1. TypeOK'
  <2>1. retransMax' \in [Container -> 0..MaxRetrans]
    BY <1>l, RetransAssumption DEF IInv, TypeOK, UdpTypeOK
  <2>2. msgIn' \in [Container -> SipMessage \cup {NoMsg}]
    BY <1>m DEF IInv, TypeOK, UdpTypeOK
  <2>3. sendQ' \subseteq Container /\ unroutable' \subseteq Container
    BY DEF IInv, TypeOK, UdpTypeOK
  <2>4. pair' \in [Container -> PairState] /\ cancelled' \subseteq Container
    BY DEF IInv, TypeOK, PairState, PairsOf
  <2> QED BY <1>p, <2>1, <2>2, <2>3, <2>4 DEF IInv, TypeOK, UdpTypeOK
<1>2. FreshUntouched'
  BY <1>m DEF IInv, TypeOK, UdpTypeOK, FreshUntouched, IsFresh
<1>3. RecordsAreRequests'
  BY <1>m DEF IInv, TypeOK, UdpTypeOK, RecordsAreRequests
<1>4. SilencedHaveLimitZero'
  BY <1>n DEF IInv, TypeOK, UdpTypeOK, SilencedHaveLimitZero, StopAllRetrans,
              PairsOf, Recorded
<1>5. FinalsMatchState'
  BY <1>n DEF IInv, TypeOK, FinalsMatchState
<1>6. ActiveKeepsLimit'
  BY <1>m, <1>n, <1>l DEF IInv, TypeOK, UdpTypeOK, ActiveKeepsLimit, Active,
                          StopAllRetrans, PairsOf
<1>7. UniquePairs'
  BY <1>m, <1>n, <1>u DEF IInv, TypeOK, UdpTypeOK, UniquePairs, Recorded
<1>8. NoLostRequest'
  BY <1>n DEF IInv, TypeOK, UdpTypeOK, NoLostRequest
<1> QED BY <1>1, <1>2, <1>3, <1>4, <1>5, <1>6, <1>7, <1>8 DEF IInv

\* receiveNB of a status that matches no record: processRecv drops it.
LEMMA RecvUnmatchedIInv ==
    ASSUME IInv, RecvUnmatched
    PROVE  IInv'
<1> USE DEF RecvUnmatched, GetNextMessage, dbOwned, udpOwned, purgeVars, dbVars
<1>1. TypeOK'
  BY DEF IInv, TypeOK, UdpTypeOK, PurgeTypeOK
<1> QED
  BY <1>1 DEF IInv, FreshUntouched, IsFresh, RecordsAreRequests, SilencedHaveLimitZero,
              FinalsMatchState, ActiveKeepsLimit, Active, UniquePairs, Recorded, NoLostRequest

\* receiveNB of a status for a recorded request, whether it is forwarded,
\* recorded as the response, or ignored as a duplicate.
LEMMA RecvMatchedIInv ==
    ASSUME IInv, NEW c \in Container,
           RecvForwarded(c) \/ RecvFirstFinal(c) \/ RecvDuplicateFinal(c)
    PROVE  IInv'
<1> USE DEF RecvForwarded, RecvFirstFinal, RecvDuplicateFinal, GetNextMessage, LimitAfterStatus,
            udpOwned, purgeVars
<1>r. Recorded(c)
  BY DEF FindMsgPair
<1>f. pair[c] = "pending" => finals[c] = 0
  BY DEF IInv, FinalsMatchState
<1>h. heard' = heard \cup {c} /\ retransMax' = [retransMax EXCEPT ![c] = 0]
  OBVIOUS
<1>v. UNCHANGED <<udpOwned, purgeVars, cancelled>>
  OBVIOUS
<1>t. rcvFifo # <<>> /\ rcvFifo' = Tail(rcvFifo)
  OBVIOUS
<1>s. \A d \in Container : /\ pair'[d] = "none" <=> pair[d] = "none"
                           /\ pair'[d] = "pending" => pair[d] = "pending"
                           /\ Recorded(d)' <=> Recorded(d)
  BY <1>r DEF IInv, TypeOK, Recorded
<1>1. TypeOK'
  <2>1. retransMax' \in [Container -> 0..MaxRetrans]
    BY <1>h, RetransAssumption DEF IInv, TypeOK, UdpTypeOK
  <2>2. rcvFifo' \in Seq(SipMessage)
    BY <1>t DEF IInv, TypeOK, UdpTypeOK
  <2>3. UdpTypeOK'
    BY <1>v, <2>1, <2>2 DEF IInv, TypeOK, UdpTypeOK
  <2>4. PurgeTypeOK'
    BY DEF IInv, TypeOK, PurgeTypeOK
  <2>5. pair' \in [Container -> PairState] /\ finals' \in [Container -> 0..2]
    BY <1>f DEF IInv, TypeOK, PairState
  <2> QED BY <1>h, <2>3, <2>4, <2>5 DEF IInv, TypeOK
<1>2. FreshUntouched'
  BY <1>s DEF IInv, FreshUntouched, IsFresh
<1>3. RecordsAreRequests'
  BY <1>s DEF IInv, RecordsAreRequests
<1>4. SilencedHaveLimitZero'
  BY <1>r, <1>s, <1>h DEF IInv, TypeOK, UdpTypeOK, SilencedHaveLimitZero, Recorded
<1>5. FinalsMatchState'
  BY <1>f DEF IInv, TypeOK, FinalsMatchState
<1>6. ActiveKeepsLimit'
  BY <1>s, <1>h DEF IInv, TypeOK, UdpTypeOK, ActiveKeepsLimit, Active
<1>7. UniquePairs'
  BY <1>s DEF IInv, UniquePairs
<1>8. NoLostRequest'
  BY <1>s, <1>h DEF IInv, NoLostRequest
<1> QED BY <1>1, <1>2, <1>3, <1>4, <1>5, <1>6, <1>7, <1>8 DEF IInv

\* tick(): one transmission.
LEMMA TransmitIInv ==
    ASSUME IInv, NEW c \in Container, NEW st \in {0} \cup SendError,
           Transmit(c, st), UNCHANGED <<purgeVars, dbVars>>
    PROVE  IInv'
<1> USE DEF Transmit, Due, MayTransmit, LastTransmission, dbOwned, purgeVars, dbVars
<1>m. msgIn[c] \in SipMessage
  BY DEF IInv, TypeOK, UdpTypeOK, FreshUntouched, IsFresh
<1>1. TypeOK'
  <2>1. UdpTypeOK'
    BY <1>m, TransmitType DEF IInv, TypeOK
  <2> QED BY <2>1 DEF IInv, TypeOK, PurgeTypeOK
<1>2. FreshUntouched'
  BY <1>m, NoMsgAssumption DEF IInv, TypeOK, UdpTypeOK, FreshUntouched, IsFresh
<1>3. RecordsAreRequests' /\ SilencedHaveLimitZero' /\ FinalsMatchState' /\ UniquePairs'
  BY DEF IInv, RecordsAreRequests, SilencedHaveLimitZero, FinalsMatchState, UniquePairs, Recorded
<1>4. ActiveKeepsLimit'
  BY DEF IInv, TypeOK, UdpTypeOK, ActiveKeepsLimit, Active
<1>5. NoLostRequest'
  BY DEF IInv, TypeOK, UdpTypeOK, ActiveKeepsLimit, Active, NoLostRequest
<1> QED BY <1>1, <1>2, <1>3, <1>4, <1>5 DEF IInv

\* tick(): a container whose limit was lowered leaves the heap.
LEMMA DiscardIInv ==
    ASSUME IInv, NEW c \in Container, Discard(c), UNCHANGED <<purgeVars, dbVars>>
    PROVE  IInv'
<1> USE DEF Discard, Due, MayTransmit, dbOwned, purgeVars, dbVars
<1>1. TypeOK'
  BY DEF IInv, TypeOK, UdpTypeOK, PurgeTypeOK
<1>2. FreshUntouched' /\ RecordsAreRequests' /\ SilencedHaveLimitZero'
  BY DEF IInv, FreshUntouched, IsFresh, RecordsAreRequests, SilencedHaveLimitZero
<1>3. FinalsMatchState' /\ ActiveKeepsLimit' /\ UniquePairs'
  BY DEF IInv, FinalsMatchState, ActiveKeepsLimit, Active, UniquePairs, Recorded
<1>4. NoLostRequest'
  BY DEF IInv, TypeOK, UdpTypeOK, ActiveKeepsLimit, Active, NoLostRequest
<1> QED BY <1>1, <1>2, <1>3, <1>4 DEF IInv

\* purgeOldCalls: records disappear, containers stay where they are.
LEMMA PurgeIInv ==
    ASSUME IInv, PurgeOldCalls
    PROVE  IInv'
<1> USE DEF PurgeOldCalls, SweepTimers, udpVars, dbOwned, udpOwned
<1>s. \A d \in Container : /\ pair'[d] = "none" <=> pair[d] = "none"
                           /\ pair'[d] = "pending" => pair[d] = "pending"
                           /\ Recorded(d)' => Recorded(d)
  BY DEF IInv, TypeOK, PairState, Recorded
<1>1. TypeOK'
  BY PurgeAssumption DEF IInv, TypeOK, UdpTypeOK, PurgeTypeOK, PairState
<1>2. FreshUntouched' /\ RecordsAreRequests' /\ SilencedHaveLimitZero'
  BY <1>s DEF IInv, TypeOK, FreshUntouched, IsFresh, RecordsAreRequests, SilencedHaveLimitZero
<1>3. FinalsMatchState'
  BY <1>s DEF IInv, FinalsMatchState
<1>4. ActiveKeepsLimit' /\ UniquePairs' /\ NoLostRequest'
  BY <1>s DEF IInv, ActiveKeepsLimit, Active, UniquePairs, NoLostRequest
<1> QED BY <1>1, <1>2, <1>3, <1>4 DEF IInv

\* The steps that touch neither records nor containers: a leg is deleted, a
\* datagram arrives, time passes.
LEMMA EnvironmentIInv ==
    ASSUME IInv,
           (\E k \in Call : ReleaseCall(k)) \/ NetworkStatus \/ Elapse \/ UNCHANGED vars
    PROVE  IInv'
<1>u. UNCHANGED <<dbVars, dbOwned, msgIn, retransSoFar, waitPeriod, sendQ, unroutable>>
  BY DEF ReleaseCall, NetworkStatus, Receive, Elapse, UdpElapse, vars, udpVars, udpOwned
<1>1. TypeOK'
  <2>1. CASE \E k \in Call : ReleaseCall(k)
    BY <2>1, PurgeAssumption
       DEF ReleaseCall, DeleteLeg, SetPurgeTimer, udpVars, dbOwned, udpOwned, dbVars,
           IInv, TypeOK, UdpTypeOK, PurgeTypeOK
  <2>2. CASE NetworkStatus
    <3>1. PICK tid \in AppRequest, code \in StatusCode :
             Receive(MkStatus(tid, code)) /\ UNCHANGED <<purgeVars, dbVars>>
      BY <2>2 DEF NetworkStatus
    <3>2. MkStatus(tid, code) \in SipMessage
      BY MkStatusType, AppRequestAssumption
    <3> QED
      BY <3>1, <3>2 DEF Receive, dbOwned, udpOwned, purgeVars, dbVars,
                        IInv, TypeOK, UdpTypeOK, PurgeTypeOK
  <2>3. CASE Elapse
    <3>1. UdpTypeOK'
      BY <2>3, RetransAssumption DEF Elapse, UdpElapse, dbOwned, IInv, TypeOK, UdpTypeOK, WaitBound
    <3>2. PurgeTypeOK'
      BY <2>3, PurgeAssumption DEF Elapse, PurgeElapse, SweepDue, IInv, TypeOK, PurgeTypeOK
    <3> QED BY <2>3, <3>1, <3>2 DEF Elapse, dbVars, IInv, TypeOK
  <2>4. CASE UNCHANGED vars
    BY <2>4 DEF vars, udpVars, dbOwned, udpOwned, purgeVars, dbVars,
                IInv, TypeOK, UdpTypeOK, PurgeTypeOK
  <2> QED BY <2>1, <2>2, <2>3, <2>4
<1> QED
  BY <1>u, <1>1
     DEF dbVars, dbOwned, IInv, FreshUntouched, IsFresh, RecordsAreRequests,
         SilencedHaveLimitZero, FinalsMatchState, ActiveKeepsLimit, Active,
         UniquePairs, Recorded, NoLostRequest

\* Every step of the client half preserves IInv.
LEMMA NextIInv == IInv /\ [Next]_vars => IInv'
<1> SUFFICES ASSUME IInv, [Next]_vars PROVE IInv'
  OBVIOUS
<1>1. CASE SendRequest
  BY <1>1, SendAgainIInv, SendFirstIInv DEF SendRequest
<1>2. CASE RecvStatus
  BY <1>2, RecvUnmatchedIInv, RecvMatchedIInv DEF RecvStatus
<1>3. CASE UdpTick
  BY <1>3, TransmitIInv, DiscardIInv DEF UdpTick
<1>4. CASE PurgeOldCalls
  BY <1>4, PurgeIInv
<1>5. CASE (\E k \in Call : ReleaseCall(k)) \/ NetworkStatus \/ Elapse \/ UNCHANGED vars
  BY <1>5, EnvironmentIInv
<1> QED BY <1>1, <1>2, <1>3, <1>4, <1>5 DEF Next

-----------------------------------------------------------------------------
(* The theorems.                                                           *)

\* The inductive invariant holds in every reachable state.
LEMMA Invariance == Spec => []IInv
BY InitIInv, NextIInv, PTL DEF Spec

\* Type correctness: transmission counts, back-off and timers of the client
\* half stay within their bounds whatever the constants are.
THEOREM TypeCorrect == Spec => []TypeOK
<1>1. IInv => TypeOK
  BY DEF IInv
<1> QED BY <1>1, Invariance, PTL

\* processSend never records one transaction id twice.
THEOREM UniquePairsCorrect == Spec => []UniquePairs
<1>1. IInv => UniquePairs
  BY DEF IInv
<1> QED BY <1>1, Invariance, PTL

\* processRecv hands up at most one recorded final status for a request.
THEOREM AtMostOneFinalCorrect == Spec => []AtMostOneFinal
<1>1. IInv => AtMostOneFinal
  BY DEF IInv, FinalsMatchState, AtMostOneFinal
<1> QED BY <1>1, Invariance, PTL

\* The transport drops no request that still waits for a status.
THEOREM NoLostRequestCorrect == Spec => []NoLostRequest
<1>1. IInv => NoLostRequest
  BY DEF IInv
<1> QED BY <1>1, Invariance, PTL

\* A request with limit 0 is not transmitted.
LEMMA SilencedStaysQuiet ==
    ASSUME IInv, [Next]_vars, NEW c \in heard \cup cancelled
    PROVE  retransSoFar'[c] = retransSoFar[c]
<1>1. c \in Container /\ retransMax[c] = 0
  BY DEF IInv, TypeOK, SilencedHaveLimitZero
<1>2. CASE UdpTick
  <2>1. \A st : ~ Transmit(c, st)
    BY <1>1 DEF Transmit, MayTransmit, IInv, TypeOK, UdpTypeOK
  <2>2. PICK d \in Container : (\E st : Transmit(d, st)) \/ Discard(d)
    BY <1>2 DEF UdpTick
  <2> QED BY <1>1, <2>1, <2>2 DEF Transmit, Discard, IInv, TypeOK, UdpTypeOK
<1>3. CASE ~ UdpTick
  BY <1>3 DEF Next, SendRequest, SendAgain, SendFirst, Send, RecvStatus, RecvUnmatched,
              RecvForwarded, RecvFirstFinal, RecvDuplicateFinal, ReleaseCall, PurgeOldCalls,
              NetworkStatus, Receive, Elapse, UdpElapse, vars, udpVars, udpOwned
<1> QED BY <1>2, <1>3

\* Once any status for a request was processed, it is never sent again.
THEOREM QuietAfterStatusCorrect == Spec => QuietAfterStatus
<1>1. IInv /\ [Next]_vars => [\A c \in heard : retransSoFar'[c] = retransSoFar[c]]_vars
  BY SilencedStaysQuiet
<1> QED BY <1>1, Invariance, PTL DEF Spec, QuietAfterStatus

\* Once a CANCEL was sent, the requests recorded for its call are never sent again.
THEOREM QuietAfterCancelCorrect == Spec => QuietAfterCancel
<1>1. IInv /\ [Next]_vars => [\A c \in cancelled : retransSoFar'[c] = retransSoFar[c]]_vars
  BY SilencedStaysQuiet
<1> QED BY <1>1, Invariance, PTL DEF Spec, QuietAfterCancel

-----------------------------------------------------------------------------
(* The client half implements ClientTransaction.                           *)

\* The initial state of the databases and the heap is the promise's.
LEMMA InitRefines == Init => Promise!Init
BY DEF Init, UdpInit, Promise!Init, Air, IsFresh

\* A step that leaves messages, limits, counts, heap and records alone is no
\* step of the promise.
LEMMA StutterRefines ==
    ASSUME UNCHANGED <<msgIn, retransMax, retransSoFar, sendQ, pair>>
    PROVE  UNCHANGED Promise!vars
<1>1. \A c \in Container : Air(c)' = Air(c)
  BY DEF Air, IsFresh, MayTransmit
<1> QED BY <1>1 DEF Promise!vars

\* sendAsync of an id on record is an Accept without record.
LEMMA SendAgainRefines ==
    ASSUME IInv, NEW c \in Container, NEW tid \in AppRequest, NEW routable \in BOOLEAN,
           SendAgain(c, tid, routable)
    PROVE  Promise!Next
<1> DEFINE outcome == IF routable THEN "sending" ELSE "silent"
<1>0. MkRequest(tid) # NoMsg
  BY AppRequestAssumption, MkRequestType, NoMsgAssumption DEF SipMessage
<1>1. Air(c) = "unsent" /\ retransSoFar[c] = 0 /\ c \notin sendQ /\ pair[c] = "none"
  BY DEF SendAgain, Send, Air, IInv, FreshUntouched
<1>2. InitialRetransMax(tid) > 0
  BY RetransAssumption DEF InitialRetransMax
<1>3. Air(c)' = outcome
  BY <1>0, <1>1, <1>2 DEF SendAgain, Send, Air, IsFresh, MayTransmit, IInv, TypeOK, UdpTypeOK
<1>4. \A d \in Container \ {c} : Air(d)' = Air(d)
  BY DEF SendAgain, Send, Air, IsFresh, MayTransmit, IInv, TypeOK, UdpTypeOK
<1>5. UNCHANGED <<retransSoFar, pair>>
  BY DEF SendAgain, Send, dbVars
<1>6. Promise!Accept(c, {}, outcome, "none")
  <2> HIDE DEF outcome
  <2>1. pair = [pair EXCEPT ![c] = "none"]
    BY <1>1 DEF IInv, TypeOK
  <2> QED BY <1>1, <1>3, <1>4, <1>5, <2>1 DEF Promise!Accept, Promise!Silenced
<1>7. outcome \in {"sending", "silent"}
  OBVIOUS
<1> QED BY <1>6, <1>7 DEF Promise!Next

\* sendAsync of a new id is an Accept with a record; a CANCEL silences the
\* call's requests in the same step (stopAllRetrans).
LEMMA SendFirstRefines ==
    ASSUME IInv, NEW c \in Container, NEW tid \in AppRequest, NEW routable \in BOOLEAN,
           SendFirst(c, tid, routable)
    PROVE  Promise!Next
<1> DEFINE outcome == IF routable THEN "sending" ELSE "silent"
           stopped == IF tid.method = "CANCEL" THEN StopAllRetrans(tid.call) ELSE {}
<1>0. MkRequest(tid) # NoMsg
  BY AppRequestAssumption, MkRequestType, NoMsgAssumption DEF SipMessage
<1>1. Air(c) = "unsent" /\ retransSoFar[c] = 0 /\ c \notin sendQ /\ pair[c] = "none"
  BY DEF SendFirst, Send, Air, IInv, FreshUntouched
<1>2. InitialRetransMax(tid) > 0
  BY RetransAssumption DEF InitialRetransMax
<1>3. Air(c)' = outcome
  BY <1>0, <1>1, <1>2 DEF SendFirst, Send, Air, IsFresh, MayTransmit, IInv, TypeOK, UdpTypeOK
<1>4. stopped \subseteq Promise!OnRecord
  BY DEF StopAllRetrans, PairsOf, Recorded, Promise!OnRecord
<1>5. c \notin stopped
  BY <1>1 DEF StopAllRetrans, PairsOf, Recorded
<1>6. \A d \in stopped : Air(d)' = "silent"
  <2> SUFFICES ASSUME NEW d \in stopped PROVE Air(d)' = "silent"
    OBVIOUS
  <2>1. d \in Container /\ Recorded(d)
    BY DEF StopAllRetrans, PairsOf
  <2>2. msgIn[d] # NoMsg
    BY <2>1, NoMsgAssumption DEF IInv, RecordsAreRequests, Recorded, SipMessage
  <2>3. retransMax'[d] = 0 /\ msgIn'[d] = msgIn[d] /\ retransSoFar'[d] = retransSoFar[d]
    BY <1>5, <2>1 DEF SendFirst, Send, IInv, TypeOK, UdpTypeOK
  <2> QED BY <2>1, <2>2, <2>3 DEF Air, IsFresh, MayTransmit, IInv, TypeOK, UdpTypeOK
<1>7. \A d \in Container \ (stopped \cup {c}) : Air(d)' = Air(d)
  BY DEF SendFirst, Send, Air, IsFresh, MayTransmit, IInv, TypeOK, UdpTypeOK
<1>8. Promise!Accept(c, stopped, outcome, "pending")
  <2>1. pair' = [pair EXCEPT ![c] = "pending"] /\ UNCHANGED retransSoFar
    BY DEF SendFirst, Send
  <2> HIDE DEF outcome, stopped
  <2> QED BY <1>1, <1>3, <1>5, <1>6, <1>7, <2>1 DEF Promise!Accept, Promise!Silenced
<1>9. outcome \in {"sending", "silent"} /\ stopped \in SUBSET Promise!OnRecord
  BY <1>4
<1> HIDE DEF outcome, stopped
<1> QED BY <1>8, <1>9 DEF Promise!Next

\* A status for a recorded request silences it; the first final one, and no
\* other, is its answer.
LEMMA RecvMatchedRefines ==
    ASSUME IInv, NEW c \in Container,
           RecvForwarded(c) \/ RecvFirstFinal(c) \/ RecvDuplicateFinal(c)
    PROVE  Promise!Next
<1>1. Recorded(c)
  BY DEF RecvForwarded, RecvFirstFinal, RecvDuplicateFinal, FindMsgPair
<1>2. UNCHANGED <<msgIn, retransSoFar, sendQ>> /\ retransMax' = [retransMax EXCEPT ![c] = 0]
  BY DEF RecvForwarded, RecvFirstFinal, RecvDuplicateFinal, LimitAfterStatus, udpOwned
<1>3. Air(c)' = "silent"
  BY <1>1, <1>2, NoMsgAssumption
     DEF Air, IsFresh, MayTransmit, IInv, RecordsAreRequests, Recorded, SipMessage, TypeOK, UdpTypeOK
<1>4. \A d \in Container \ {c} : Air(d)' = Air(d)
  BY <1>2 DEF Air, IsFresh, MayTransmit, IInv, TypeOK, UdpTypeOK
<1>5. [d \in Container |-> Air(d)]' = Promise!Silenced({c})
  BY <1>3, <1>4 DEF Promise!Silenced
<1>6. CASE RecvFirstFinal(c)
  BY <1>2, <1>5, <1>6 DEF RecvFirstFinal, Promise!Answer, Promise!Next
<1>7. CASE RecvForwarded(c) \/ RecvDuplicateFinal(c)
  <2>1. c \in Promise!OnRecord /\ UNCHANGED pair
    BY <1>1, <1>7 DEF Recorded, Promise!OnRecord, RecvForwarded, RecvDuplicateFinal
  <2> QED BY <1>2, <1>5, <2>1 DEF Promise!Hear, Promise!Next
<1> QED BY <1>6, <1>7

\* A pass of tick() that sends is a Transmit.
LEMMA TransmitRefines ==
    ASSUME IInv, NEW c \in Container, NEW st, Transmit(c, st), UNCHANGED dbVars
    PROVE  Promise!Next
<1>0. msgIn[c] # NoMsg /\ c \in sendQ
  BY DEF Transmit, Due, IInv, FreshUntouched, IsFresh
<1>1. Air(c) = "sending"
  BY <1>0 DEF Transmit, Air, IsFresh
<1>2. \A d \in Container \ {c} : Air(d)' = Air(d)
  BY DEF Transmit, Air, IsFresh, MayTransmit, dbOwned, IInv, TypeOK, UdpTypeOK
<1>3. retransSoFar' = [retransSoFar EXCEPT ![c] = @ + 1] /\ UNCHANGED pair
  BY DEF Transmit, dbVars
<1>4. CASE LastTransmission(c)
  <2>1. Air(c)' = "silent"
    BY <1>0, <1>4 DEF Transmit, Air, IsFresh
  <2>2. [d \in Container |-> Air(d)]' = Promise!Silenced({c})
    BY <1>2, <2>1 DEF Promise!Silenced
  <2> QED BY <1>1, <1>3, <2>2 DEF Promise!Transmit, Promise!Next
<1>5. CASE ~ LastTransmission(c)
  <2>1. Air(c)' = "sending"
    BY <1>0, <1>5 DEF Transmit, LastTransmission, MayTransmit, Air, IsFresh, dbOwned,
                      IInv, TypeOK, UdpTypeOK
  <2>2. retransSoFar[c] + 1 < MaxRetrans
    BY <1>5, RetransAssumption DEF LastTransmission, IInv, TypeOK, UdpTypeOK
  <2>3. [d \in Container |-> Air(d)]' = [d \in Container |-> Air(d)]
    BY <1>1, <1>2, <2>1
  <2> QED BY <1>1, <1>3, <2>2, <2>3 DEF Promise!Transmit, Promise!Next
<1> QED BY <1>4, <1>5

\* A pass of tick() that drops a container which may not be sent changes
\* nothing for the promise: the container was silent before.
LEMMA DiscardRefines ==
    ASSUME IInv, NEW c \in Container, Discard(c), UNCHANGED dbVars
    PROVE  UNCHANGED Promise!vars
<1>1. \A d \in Container : Air(d)' = Air(d)
  BY DEF Discard, Air, IsFresh, MayTransmit, dbOwned
<1> QED BY <1>1 DEF Discard, dbVars, Promise!vars

\* purgeOldCalls forgets records and silences nobody.
LEMMA PurgeRefines ==
    ASSUME IInv, PurgeOldCalls
    PROVE  Promise!Next
<1> DEFINE S == {c \in Container : Recorded(c) /\ Expired(msgIn[c].tid.call)}
<1>1. \A d \in Container : Air(d)' = Air(d)
  BY DEF PurgeOldCalls, udpVars, dbOwned, udpOwned, Air, IsFresh, MayTransmit
<1>2. S \in SUBSET Promise!OnRecord
  BY DEF Recorded, Promise!OnRecord
<1>3. Promise!Forget(S)
  BY <1>1 DEF PurgeOldCalls, udpVars, udpOwned, Promise!Forget
<1> QED BY <1>2, <1>3 DEF Promise!Next

\* Every step of the client half is a step of the promise or none.
LEMMA NextRefines == IInv /\ [Next]_vars => [Promise!Next]_(Promise!vars)
<1> SUFFICES ASSUME IInv, [Next]_vars PROVE Promise!Next \/ UNCHANGED Promise!vars
  OBVIOUS
<1>1. CASE SendRequest
  BY <1>1, SendAgainRefines, SendFirstRefines DEF SendRequest
<1>2. CASE RecvStatus
  <2>1. CASE RecvUnmatched
    BY <2>1, StutterRefines DEF RecvUnmatched, dbOwned, udpOwned, dbVars
  <2> QED BY <1>2, <2>1, RecvMatchedRefines DEF RecvStatus
<1>3. CASE UdpTick
  BY <1>3, TransmitRefines, DiscardRefines DEF UdpTick
<1>4. CASE PurgeOldCalls
  BY <1>4, PurgeRefines
<1>5. CASE (\E k \in Call : ReleaseCall(k)) \/ NetworkStatus \/ Elapse \/ UNCHANGED vars
  BY <1>5, StutterRefines
     DEF ReleaseCall, NetworkStatus, Receive, Elapse, UdpElapse, vars, udpVars, udpOwned,
         dbOwned, dbVars
<1> QED BY <1>1, <1>2, <1>3, <1>4, <1>5 DEF Next

\* The client half, with its heap, timers and tables, implements the abstract
\* client transaction.
THEOREM ImplementsPromiseCorrect == Spec => ImplementsPromise
<1>1. IInv /\ [Next]_vars => [Promise!Next]_(Promise!vars)
  BY NextRefines
<1> QED BY <1>1, InitRefines, Invariance, PTL DEF Spec, ImplementsPromise, Promise!Spec

=============================================================================
