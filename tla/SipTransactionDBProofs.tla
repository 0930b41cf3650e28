----------------------- MODULE SipTransactionDBProofs -----------------------
(***************************************************************************)
(* Lemmas about the transport and the call table that the proofs about the *)
(* two transaction databases share.                                        *)
(***************************************************************************)
EXTENDS SipTransactionDB, TLAPS

(* Lemmas about the transport's operators.                                 *)

\* NextWait keeps the back-off below its bound: below the ceiling it doubles.
LEMMA NextWaitType ==
    ASSUME NEW w \in 0..WaitBound
    PROVE  NextWait(w) \in 0..WaitBound
BY RetransAssumption DEF NextWait, WaitBound

\* A status made for a created container is a status message.
LEMMA MkStatusType ==
    ASSUME NEW tid \in SipTransactionId, NEW code \in StatusCode
    PROVE  MkStatus(tid, code) \in SipMessage
BY DEF MkStatus, SipMessage, StatusMsg

LEMMA MkRequestType ==
    ASSUME NEW tid \in SipTransactionId
    PROVE  MkRequest(tid) \in Request /\ MkRequest(tid).tid = tid
BY DEF MkRequest, Request

\* What a failed transmission puts into the FIFO are messages.
LEMMA LocalErrorsType ==
    ASSUME NEW c \in Container, msgIn[c] \in SipMessage, NEW st \in {0} \cup SendError
    PROVE  LocalErrors(c, st) \in Seq(SipMessage)
<1> DEFINE err == MkStatus(msgIn[c].tid, st)
<1>1. CASE st = 0
  BY <1>1 DEF LocalErrors
<1>2. CASE st # 0
  <2>1. msgIn[c].tid \in SipTransactionId
    BY DEF SipMessage, Request, StatusMsg
  <2>2. st \in StatusCode
    BY <1>2, SendErrorAssumption
  <2>3. err \in SipMessage
    BY <2>1, <2>2, MkStatusType
  <2> HIDE DEF err
  <2>4. <<err>> \in Seq(SipMessage) /\ <<err, err>> \in Seq(SipMessage)
    BY <2>3
  <2> QED BY <2>4 DEF LocalErrors, err
<1> QED BY <1>1, <1>2

-----------------------------------------------------------------------------
(* The steps of the transport and of the table's timers keep their types.  *)

\* send() of a new container: what the database leaves to the transport.
LEMMA SendType ==
    ASSUME UdpTypeOK, NEW c \in Container, NEW m \in SipMessage, NEW routable \in BOOLEAN,
           Send(c, m, routable), retransMax' \in [Container -> 0..MaxRetrans], rcvFifo' = rcvFifo
    PROVE  UdpTypeOK'
BY DEF Send, UdpTypeOK

\* tick(): one transmission.
LEMMA TransmitType ==
    ASSUME UdpTypeOK, NEW c \in Container, NEW st \in {0} \cup SendError,
           msgIn[c] \in SipMessage, Transmit(c, st)
    PROVE  UdpTypeOK'
<1>1. rcvFifo' \in Seq(SipMessage)
  <2>1. LocalErrors(c, st) \in Seq(SipMessage)
    BY LocalErrorsType
  <2> QED BY <2>1 DEF Transmit, UdpTypeOK
<1>2. NextWait(waitPeriod[c]) \in 0..WaitBound
  BY NextWaitType DEF UdpTypeOK
<1>3. retransSoFar' \in [Container -> 0..MaxRetrans]
  BY RetransAssumption DEF Transmit, MayTransmit, UdpTypeOK
<1>4. waitPeriod' \in [Container -> 0..WaitBound] /\ dueIn' \in [Container -> 0..WaitBound]
  BY <1>2 DEF Transmit, UdpTypeOK
<1>5. sendQ' \subseteq Container
  BY DEF Transmit, UdpTypeOK
<1> QED BY <1>1, <1>3, <1>4, <1>5 DEF Transmit, dbOwned, UdpTypeOK

LEMMA DiscardType ==
    ASSUME UdpTypeOK, NEW c \in Container, Discard(c)
    PROVE  UdpTypeOK'
BY DEF Discard, dbOwned, UdpTypeOK

LEMMA ReceiveType ==
    ASSUME UdpTypeOK, NEW m \in SipMessage, Receive(m)
    PROVE  UdpTypeOK'
BY DEF Receive, dbOwned, udpOwned, UdpTypeOK

LEMMA UdpElapseType ==
    ASSUME UdpTypeOK, UdpElapse
    PROVE  UdpTypeOK'
BY RetransAssumption DEF UdpElapse, dbOwned, UdpTypeOK, WaitBound

LEMMA PurgeElapseType ==
    ASSUME PurgeTypeOK, PurgeElapse
    PROVE  PurgeTypeOK'
BY PurgeAssumption DEF PurgeElapse, SweepDue, PurgeTypeOK

LEMMA SweepTimersType ==
    ASSUME PurgeTypeOK, SweepTimers
    PROVE  PurgeTypeOK'
BY PurgeAssumption DEF SweepTimers, PurgeTypeOK

LEMMA DeleteLegType ==
    ASSUME PurgeTypeOK, NEW k \in Call, NEW inTable \in BOOLEAN, DeleteLeg(k, inTable)
    PROVE  PurgeTypeOK'
BY PurgeAssumption DEF DeleteLeg, SetPurgeTimer, PurgeTypeOK

=============================================================================
