---------------------- MODULE SipSentResponseDBProofs -----------------------
(***************************************************************************)
(* Proofs about SipSentResponseDB, for any calls, CSeq numbers, containers *)
(* and timers, any requests of the peer and replies of the application,    *)
(* and both application contexts.                                          *)
(***************************************************************************)
EXTENDS SipSentResponseDB, SipTransactionDBProofs, SequenceTheorems

(***************************************************************************)
(* The inductive invariant.                                                *)
(***************************************************************************)

\* A container without a message is nowhere.
FreshUntouched ==
    \A c \in Container : IsFresh(c) =>
        /\ c \notin sendQ /\ c \notin acked
        /\ \A k \in Call : \A i \in DOMAIN pairs[k] : pairs[k][i].resp # c

\* A call container is made for an INVITE, and its order is not checked
\* before: the first pair is an INVITE that was not rejected, so it stays the
\* one findMsgPair(SIP_INVITE) finds.
FirstPairIsInvite ==
    \A k \in Call : pairs[k] # <<>> =>
        pairs[k][1].tid.method = "INVITE" /\ pairs[k][1].req = "request"

\* curSeqNum and setSeq belong to calls in the table, and cover every ACK and
\* CANCEL that was handed up.
SeqFollowsAck ==
    /\ seqSet \subseteq known
    /\ \A k \in Call \ seqSet : curSeqNum[k] = 0
    /\ ~ Proxy => \A k \in Call : k \in known => pairs[k] # <<>>
    /\ ~ Proxy => \A k \in Call : ackSeq[k] > 0 => k \in seqSet /\ ackSeq[k] <= curSeqNum[k]

\* A request that was handed up has a pair, by which its duplicates are found.
DeliveredHasPair ==
    \A tid \in SipTransactionId :
        ~ Proxy /\ ~ SeqExempt(tid) /\ ups[tid] > 0 => ups[tid] = 1 /\ FindMsgPair(tid) # {}

ProxyLimit ==
    Proxy => \A c \in Container : retransMax[c] <= 1 /\ retransSoFar[c] <= 1

\* The response of the first pair has no transmissions left once its ACK came.
AckedHasLimitZero ==
    \A k \in Call : pairs[k] # <<>> /\ pairs[k][1].resp \in acked =>
        retransMax[pairs[k][1].resp] = 0

\* What RecordedFinalKeepsGoing says, for the pairs of a call by their place.
KeepsGoing ==
    \A k \in Call : \A i \in DOMAIN pairs[k] :
        LET c == pairs[k][i].resp
        IN  ~ Proxy /\ c \in Container /\ pairs[k][i].tid.method = "INVITE" =>
              \/ c \in sendQ /\ retransMax[c] = MaxRetrans
              \/ c \in unroutable \/ retransSoFar[c] = MaxRetrans
              \/ i = 1 /\ ackSeq[k] > 0

IInv ==
    /\ TypeOK
    /\ FreshUntouched
    /\ PairsConsistent
    /\ FirstPairIsInvite
    /\ SeqFollowsAck
    /\ DeliveredHasPair
    /\ ProxyLimit
    /\ AckedHasLimitZero
    /\ KeepsGoing

-----------------------------------------------------------------------------
(* Lemmas about lists of pairs.                                            *)

LEMMA PairsAreSeqs ==
    ASSUME TypeOK, NEW k \in Call
    PROVE  /\ pairs[k] \in Seq(Pair) /\ Len(pairs[k]) \in Nat
           /\ DOMAIN pairs[k] = 1..Len(pairs[k])
           /\ \A i \in DOMAIN pairs[k] : pairs[k][i] \in Pair
           /\ pairs[k] # <<>> <=> 1 \in DOMAIN pairs[k]
<1>1. pairs[k] \in Seq(Pair)
  BY DEF TypeOK
<1>2. pairs[k] # <<>> => Len(pairs[k]) \in Nat \ {0}
  BY <1>1, EmptySeq
<1> QED BY <1>1, <1>2

\* The first INVITE of a call is its first pair.
LEMMA FirstInviteIsFirst ==
    ASSUME IInv, NEW k \in Call
    PROVE  FirstInvite(k) = IF pairs[k] = <<>> THEN {} ELSE {1}
<1>1. pairs[k] # <<>> => HoldsInvite(pairs[k][1])
  BY DEF IInv, FirstPairIsInvite, HoldsInvite
<1>2. CASE pairs[k] = <<>>
  <2>1. DOMAIN pairs[k] = {}
    BY <1>2
  <2> QED BY <1>2, <2>1 DEF FirstInvite
<1>3. CASE pairs[k] # <<>>
  <2>1. DOMAIN pairs[k] = 1..Len(pairs[k]) /\ Len(pairs[k]) \in Nat /\ 1 \in DOMAIN pairs[k]
    BY <1>3, PairsAreSeqs DEF IInv
  <2>2. 1 \in FirstInvite(k)
    BY <1>1, <1>3, <2>1 DEF FirstInvite
  <2>3. ASSUME NEW i \in FirstInvite(k)  PROVE i = 1
    <3>1. i \in 1..Len(pairs[k]) /\ \A j \in 1..(i - 1) : ~ HoldsInvite(pairs[k][j])
      BY <2>1, <2>3 DEF FirstInvite
    <3> QED BY <1>1, <1>3, <2>1, <3>1
  <2> QED BY <1>3, <2>2, <2>3
<1> QED BY <1>2, <1>3

\* A container is the response of one pair only.
LEMMA OneResponseOnePair ==
    ASSUME IInv, NEW k \in Call, NEW i \in DOMAIN pairs[k],
           NEW l \in Call, NEW j \in DOMAIN pairs[l],
           pairs[k][i].resp \in Container, pairs[k][i].resp = pairs[l][j].resp
    PROVE  k = l /\ i = j
<1>1. pairs[k][i].tid = pairs[l][j].tid
  BY DEF IInv, PairsConsistent
<1>2. k = l
  BY <1>1 DEF IInv, PairsConsistent
<1> QED BY <1>1, <1>2 DEF IInv, PairsConsistent

LEMMA InitIInv == Init => IInv
<1> SUFFICES ASSUME Init PROVE IInv
  OBVIOUS
<1> USE DEF Init, UdpInit, PurgeInit
<1>0. \A k \in Call : pairs[k] = <<>> /\ DOMAIN pairs[k] = {}
  <2>1. \A k \in Call : pairs[k] = <<>>
    OBVIOUS
  <2>2. DOMAIN <<>> = {}
    OBVIOUS
  <2> QED BY <2>1, <2>2
<1>1. TypeOK
  BY RetransAssumption, PurgeAssumption DEF TypeOK, UdpTypeOK, PurgeTypeOK, WaitBound
<1>2. FreshUntouched /\ PairsConsistent /\ FirstPairIsInvite /\ AckedHasLimitZero /\ KeepsGoing
  BY <1>0 DEF FreshUntouched, PairsConsistent, FirstPairIsInvite, AckedHasLimitZero, KeepsGoing
<1>3. SeqFollowsAck /\ DeliveredHasPair /\ ProxyLimit
  BY DEF SeqFollowsAck, DeliveredHasPair, ProxyLimit
<1> QED BY <1>1, <1>2, <1>3 DEF IInv

-----------------------------------------------------------------------------
(* IInv is inductive: one lemma for each action.                           *)

\* processSend(status): the lists keep their pairs, and at most one gets c.
LEMMA ReplyPairs ==
    ASSUME TypeOK, NEW c \in Container, NEW m \in StatusMsg, pairs' = PairsAfterReply(c, m)
    PROVE  /\ pairs' \in [Call -> Seq(Pair)]
           /\ \A k \in Call : DOMAIN pairs'[k] = DOMAIN pairs[k]
           /\ \A k \in Call : \A i \in DOMAIN pairs[k] :
                /\ pairs'[k][i].tid = pairs[k][i].tid /\ pairs'[k][i].req = pairs[k][i].req
                /\ \/ pairs'[k][i].resp = pairs[k][i].resp
                   \/ /\ pairs'[k][i].resp = c /\ pairs[k][i].resp = NoResponse
                      /\ pairs[k][i].tid = m.tid /\ k = m.tid.call /\ IsFinal(m.code)
<1> DEFINE l == m.tid.call
           takes(i) == /\ i \in FindMsgPair(m.tid) /\ IsFinal(m.code)
                       /\ pairs[l][i].resp = NoResponse
           new == [i \in DOMAIN pairs[l] |->
                     IF takes(i) THEN [pairs[l][i] EXCEPT !.resp = c] ELSE pairs[l][i]]
<1>1. l \in Call
  BY DEF StatusMsg, SipTransactionId
<1>2. pairs \in [Call -> Seq(Pair)] /\ pairs' = [pairs EXCEPT ![l] = new]
  BY DEF PairsAfterReply, TypeOK
<1>3. pairs[l] \in Seq(Pair) /\ DOMAIN pairs[l] = 1..Len(pairs[l]) /\ Len(pairs[l]) \in Nat
  BY <1>1, PairsAreSeqs
<1>4. \A i \in DOMAIN pairs[l] :
        /\ pairs[l][i] \in Pair
        /\ [pairs[l][i] EXCEPT !.resp = c] \in Pair
        /\ [pairs[l][i] EXCEPT !.resp = c].tid = pairs[l][i].tid
        /\ [pairs[l][i] EXCEPT !.resp = c].req = pairs[l][i].req
        /\ [pairs[l][i] EXCEPT !.resp = c].resp = c
  <2> SUFFICES ASSUME NEW q \in Pair
               PROVE  LET e == [q EXCEPT !.resp = c]
                      IN  e \in Pair /\ e.tid = q.tid /\ e.req = q.req /\ e.resp = c
    BY <1>1, PairsAreSeqs
  <2> QED BY DEF Pair
<1> HIDE DEF takes
<1>5. new \in Seq(Pair) /\ DOMAIN new = DOMAIN pairs[l]
  <2>1. \A i \in 1..Len(pairs[l]) : new[i] \in Pair
    BY <1>3, <1>4
  <2>2. new \in [1..Len(pairs[l]) -> Pair]
    BY <1>3, <2>1
  <2> QED BY <1>3, <2>2
<1>6. \A k \in Call : pairs'[k] = IF k = l THEN new ELSE pairs[k]
  BY <1>1, <1>2
<1>7. \A i \in DOMAIN pairs[l] : takes(i) =>
         pairs[l][i].resp = NoResponse /\ pairs[l][i].tid = m.tid /\ IsFinal(m.code)
  BY DEF takes, FindMsgPair
<1>8. \A i \in DOMAIN pairs[l] :
        /\ new[i].tid = pairs[l][i].tid /\ new[i].req = pairs[l][i].req
        /\ \/ new[i].resp = pairs[l][i].resp
           \/ /\ new[i].resp = c /\ pairs[l][i].resp = NoResponse
              /\ pairs[l][i].tid = m.tid /\ IsFinal(m.code)
  BY <1>4, <1>7
<1> HIDE DEF new
<1>9. pairs' \in [Call -> Seq(Pair)]
  BY <1>2, <1>5
<1> QED BY <1>5, <1>6, <1>8, <1>9

\* sendReply of a status, recorded or not.
LEMMA SendReplyIInv ==
    ASSUME IInv, NEW c \in Container, NEW tid \in handed, NEW code \in ReplyCode,
           NEW routable \in BOOLEAN, SendReply(c, MkStatus(tid, code), routable)
    PROVE  IInv'
<1> DEFINE m == MkStatus(tid, code)
<1>t. TypeOK
  BY DEF IInv
<1>m. m \in StatusMsg /\ m \in SipMessage /\ m # NoMsg /\ m.tid = tid /\ m.code = code
  BY <1>t, ReplyCodeAssumption, NoMsgAssumption DEF TypeOK, MkStatus, SipMessage, StatusMsg
<1>s. /\ Send(c, m, routable)
      /\ retransMax' = [retransMax EXCEPT ![c] = ReplyRetransMax(m)]
      /\ pairs' = PairsAfterReply(c, m)
      /\ UNCHANGED <<rcvFifo, purgeVars, known, curSeqNum, seqSet, history>>
  BY DEF SendReply
<1> HIDE DEF m
<1>f. IsFresh(c)
  BY <1>s DEF Send
<1>n. /\ c \notin sendQ /\ c \notin acked
      /\ \A k \in Call : \A i \in DOMAIN pairs[k] : pairs[k][i].resp # c
  BY <1>f DEF IInv, FreshUntouched
<1>i. /\ msgIn' = [msgIn EXCEPT ![c] = m] /\ msgIn \in [Container -> SipMessage \cup {NoMsg}]
      /\ sendQ' = (IF routable THEN sendQ \cup {c} ELSE sendQ)
      /\ unroutable' = (IF routable THEN unroutable ELSE unroutable \cup {c})
      /\ UNCHANGED <<retransSoFar, ackSeq, acked, ups, known, curSeqNum, seqSet>>
  BY <1>s, <1>t DEF Send, history, TypeOK, UdpTypeOK
<1>p. /\ pairs' \in [Call -> Seq(Pair)]
      /\ \A k \in Call : DOMAIN pairs'[k] = DOMAIN pairs[k]
      /\ \A k \in Call : \A i \in DOMAIN pairs[k] :
           /\ pairs'[k][i].tid = pairs[k][i].tid /\ pairs'[k][i].req = pairs[k][i].req
           /\ \/ pairs'[k][i].resp = pairs[k][i].resp
              \/ /\ pairs'[k][i].resp = c /\ pairs[k][i].resp = NoResponse
                 /\ pairs[k][i].tid = m.tid /\ k = m.tid.call /\ IsFinal(m.code)
  BY <1>m, <1>s, <1>t, ReplyPairs
<1>l. /\ ReplyRetransMax(m) \in 1..MaxRetrans
      /\ retransMax' \in [Container -> 0..MaxRetrans]
      /\ retransMax'[c] = ReplyRetransMax(m)
      /\ \A d \in Container : d # c => retransMax'[d] = retransMax[d]
  BY <1>s, <1>t, RetransAssumption DEF ReplyRetransMax, TypeOK, UdpTypeOK
<1>e. \A k \in Call : (pairs'[k] # <<>> <=> pairs[k] # <<>>) /\ (pairs[k] # <<>> => 1 \in DOMAIN pairs[k])
  <2> SUFFICES ASSUME NEW k \in Call
               PROVE  (pairs'[k] # <<>> <=> pairs[k] # <<>>) /\ (pairs[k] # <<>> => 1 \in DOMAIN pairs[k])
    OBVIOUS
  <2>1. pairs'[k] \in Seq(Pair) /\ pairs[k] \in Seq(Pair) /\ DOMAIN pairs'[k] = DOMAIN pairs[k]
    BY <1>p, <1>t DEF TypeOK
  <2>2. \A q \in Seq(Pair) : q # <<>> <=> 1 \in DOMAIN q
    BY EmptySeq
  <2> QED BY <2>1, <2>2
<1>1. TypeOK'
  <2>1. UdpTypeOK'
    BY <1>m, <1>s, <1>t, <1>l, SendType DEF TypeOK
  <2> QED BY <1>s, <1>t, <1>p, <2>1 DEF TypeOK, PurgeTypeOK, purgeVars, history
<1>2. FreshUntouched'
  BY <1>m, <1>n, <1>i, <1>p DEF IInv, FreshUntouched, IsFresh
<1>3. PairsConsistent'
  BY <1>m, <1>n, <1>i, <1>p DEF IInv, PairsConsistent
<1>4. FirstPairIsInvite'
  BY <1>p, <1>e DEF IInv, FirstPairIsInvite
<1>5. SeqFollowsAck'
  BY <1>i, <1>e DEF IInv, SeqFollowsAck
<1>6. DeliveredHasPair'
  <2>1. \A t \in SipTransactionId : t.call \in Call
    BY DEF SipTransactionId
  <2>2. \A t \in SipTransactionId : FindMsgPair(t)' = FindMsgPair(t)
    BY <1>p, <2>1 DEF FindMsgPair
  <2> QED BY <1>i, <2>2 DEF IInv, DeliveredHasPair
<1>7. ProxyLimit'
  BY <1>i, <1>l DEF IInv, ProxyLimit, ReplyRetransMax
<1>8. AckedHasLimitZero'
  <2> SUFFICES ASSUME NEW k \in Call, pairs'[k] # <<>>, pairs'[k][1].resp \in acked'
               PROVE  retransMax'[pairs'[k][1].resp] = 0
    BY DEF AckedHasLimitZero
  <2>1. pairs[k] # <<>> /\ 1 \in DOMAIN pairs[k] /\ acked' = acked /\ acked \subseteq Container
    BY <1>e, <1>i, <1>t DEF TypeOK
  <2>2. pairs'[k][1].resp # c /\ pairs'[k][1].resp = pairs[k][1].resp
    BY <1>n, <1>p, <2>1
  <2>3. pairs[k][1].resp \in Container /\ retransMax[pairs[k][1].resp] = 0
    BY <2>1, <2>2 DEF IInv, AckedHasLimitZero
  <2> QED BY <1>l, <2>2, <2>3
<1>9. KeepsGoing'
  <2> SUFFICES ASSUME NEW k \in Call, NEW i \in DOMAIN pairs'[k], ~ Proxy,
                      pairs'[k][i].resp \in Container, pairs'[k][i].tid.method = "INVITE"
               PROVE  LET d == pairs'[k][i].resp
                      IN  \/ d \in sendQ' /\ retransMax'[d] = MaxRetrans
                          \/ d \in unroutable' \/ retransSoFar'[d] = MaxRetrans
                          \/ i = 1 /\ ackSeq'[k] > 0
    BY DEF KeepsGoing
  <2>1. i \in DOMAIN pairs[k] /\ pairs[k][i].tid = pairs'[k][i].tid
    BY <1>p
  <2>2. CASE pairs'[k][i].resp = pairs[k][i].resp
    <3>1. pairs[k][i].resp # c /\ pairs[k][i].resp \in Container
      BY <1>n, <2>1, <2>2
    <3> QED BY <1>i, <1>l, <2>1, <2>2, <3>1 DEF IInv, KeepsGoing
  <2>3. CASE /\ pairs'[k][i].resp = c
             /\ pairs[k][i].tid = m.tid /\ k = m.tid.call /\ IsFinal(m.code)
    <3>1. k \in known
      BY <2>1 DEF IInv, PairsConsistent
    <3>2. retransMax'[c] = MaxRetrans
      BY <1>l, <2>1, <2>3, <3>1 DEF ReplyRetransMax, ToBeRetransmitted
    <3> QED BY <1>i, <2>3, <3>2
  <2> QED BY <1>p, <2>1, <2>2, <2>3
<1> QED BY <1>1, <1>2, <1>3, <1>4, <1>5, <1>6, <1>7, <1>8, <1>9 DEF IInv

\* receiveNB takes a message from the FIFO.
LEMMA TakeType ==
    ASSUME TypeOK, GetNextMessage, UNCHANGED <<udpOwned, purgeVars>>,
           retransMax' \in [Container -> 0..MaxRetrans]
    PROVE  /\ UdpTypeOK' /\ PurgeTypeOK'
           /\ UNCHANGED <<msgIn, retransSoFar, sendQ, unroutable>>
<1>1. rcvFifo' \in Seq(SipMessage)
  BY DEF TypeOK, UdpTypeOK, GetNextMessage
<1> QED BY <1>1 DEF TypeOK, UdpTypeOK, PurgeTypeOK, udpOwned, purgeVars

LEMMA HandUpType ==
    ASSUME TypeOK, NEW tid \in SipTransactionId, HandUp(tid)
    PROVE  /\ handed' \subseteq SipTransactionId
           /\ ups' \in [SipTransactionId -> 0..2]
           /\ ackSeq' \in [Call -> Nat]
           /\ \A t \in SipTransactionId : t # tid => ups'[t] = ups[t]
           /\ \A k \in Call : ackSeq'[k] >= ackSeq[k]
           /\ \A k \in Call : k # tid.call \/ ~ SeqExempt(tid) => ackSeq'[k] = ackSeq[k]
           /\ tid.call \in Call /\ tid.seq \in Nat \ {0}
<1>1. tid.call \in Call /\ tid.seq \in Nat \ {0}
  BY CSeqAssumption DEF SipTransactionId
<1>2. handed' \subseteq SipTransactionId
  BY DEF HandUp, Answerable, TypeOK
<1>3. ups' \in [SipTransactionId -> 0..2] /\ \A t \in SipTransactionId : t # tid => ups'[t] = ups[t]
  BY DEF HandUp, TypeOK
<1>4. ackSeq' \in [Call -> Nat] /\ \A k \in Call : ackSeq'[k] >= ackSeq[k]
  BY <1>1 DEF HandUp, TypeOK
<1>5. \A k \in Call : k # tid.call \/ ~ SeqExempt(tid) => ackSeq'[k] = ackSeq[k]
  BY <1>1 DEF HandUp, TypeOK
<1> QED BY <1>1, <1>2, <1>3, <1>4, <1>5

\* A request outside any call, or a duplicate of one that is not answered yet.
LEMMA RecvIgnoredIInv ==
    ASSUME IInv, GetNextMessage, UNCHANGED <<udpOwned, purgeVars>>,
           NEW tid \in SipTransactionId, RecvOutsideCall(tid) \/ RecvPendingDuplicate(tid)
    PROVE  IInv'
<1>1. /\ UNCHANGED <<retransMax, known, pairs, curSeqNum, seqSet, ups, ackSeq, acked>>
      /\ handed' \subseteq SipTransactionId
  BY DEF IInv, TypeOK, RecvOutsideCall, RecvPendingDuplicate, Answerable, dbOwned, dbVars, history
<1>2. TypeOK /\ retransMax' \in [Container -> 0..MaxRetrans]
  BY <1>1 DEF IInv, TypeOK, UdpTypeOK
<1>3. UdpTypeOK' /\ PurgeTypeOK' /\ UNCHANGED <<msgIn, retransSoFar, sendQ, unroutable>>
  BY <1>2, TakeType
<1>4. TypeOK'
  BY <1>1, <1>2, <1>3 DEF TypeOK
<1> QED BY <1>1, <1>3, <1>4
        DEF IInv, FreshUntouched, IsFresh, PairsConsistent, FirstPairIsInvite, SeqFollowsAck,
            DeliveredHasPair, FindMsgPair, ProxyLimit, AckedHasLimitZero, KeepsGoing

\* A duplicate of an answered request takes the place of the response.
LEMMA RecvAnsweredDuplicateIInv ==
    ASSUME IInv, GetNextMessage, UNCHANGED <<udpOwned, purgeVars>>,
           NEW tid \in SipTransactionId, RecvAnsweredDuplicate(tid)
    PROVE  IInv'
<1> DEFINE l == tid.call
<1>t. TypeOK /\ l \in Call
  BY DEF IInv, SipTransactionId
<1>1. PICK i \in FindMsgPair(tid) :
        /\ retransMax' = LimitAfterDuplicate(pairs[l][i].resp)
        /\ pairs' = [pairs EXCEPT ![l][i].resp = RcvdCopy]
        /\ UNCHANGED <<known, curSeqNum, seqSet, history>>
  BY DEF RecvAnsweredDuplicate
<1>2. i \in DOMAIN pairs[l] /\ pairs[l] \in Seq(Pair) /\ pairs[l][i] \in Pair
  BY <1>t, PairsAreSeqs DEF FindMsgPair
<1> DEFINE e == [pairs[l][i] EXCEPT !.resp = RcvdCopy]
<1>3. e \in Pair /\ e.tid = pairs[l][i].tid /\ e.req = pairs[l][i].req /\ e.resp = RcvdCopy
  BY <1>2 DEF Pair, NotTransported
<1>4. pairs \in [Call -> Seq(Pair)] /\ pairs' = [pairs EXCEPT ![l] = [pairs[l] EXCEPT ![i] = e]]
  BY <1>t, <1>1 DEF TypeOK
<1> HIDE DEF e
<1>5. /\ [pairs[l] EXCEPT ![i] = e] \in Seq(Pair)
      /\ DOMAIN [pairs[l] EXCEPT ![i] = e] = DOMAIN pairs[l]
      /\ \A j \in DOMAIN pairs[l] : [pairs[l] EXCEPT ![i] = e][j] = IF j = i THEN e ELSE pairs[l][j]
  BY <1>2, <1>3
<1>p. /\ pairs' \in [Call -> Seq(Pair)]
      /\ \A k \in Call : DOMAIN pairs'[k] = DOMAIN pairs[k]
      /\ \A k \in Call : \A j \in DOMAIN pairs[k] :
           /\ pairs'[k][j].tid = pairs[k][j].tid /\ pairs'[k][j].req = pairs[k][j].req
           /\ pairs'[k][j].resp = IF k = l /\ j = i THEN RcvdCopy ELSE pairs[k][j].resp
  BY <1>t, <1>3, <1>4, <1>5
<1>c. RcvdCopy \notin Container
  BY ResponseAssumption DEF NotTransported
<1>l. /\ retransMax' \in [Container -> 0..MaxRetrans]
      /\ \A d \in Container : retransMax'[d] = 0 \/ retransMax'[d] = retransMax[d]
      /\ \A d \in Container : d # pairs[l][i].resp => retransMax'[d] = retransMax[d]
  BY <1>t, <1>1, RetransAssumption DEF LimitAfterDuplicate, TypeOK, UdpTypeOK
<1>u. UNCHANGED <<ups, ackSeq, acked, handed>>
  BY <1>1 DEF history
<1>3a. UdpTypeOK' /\ PurgeTypeOK' /\ UNCHANGED <<msgIn, retransSoFar, sendQ, unroutable>>
  BY <1>t, <1>l, TakeType
<1>e. \A k \in Call : (pairs'[k] # <<>> <=> pairs[k] # <<>>) /\ (pairs[k] # <<>> => 1 \in DOMAIN pairs[k])
  <2>1. \A q \in Seq(Pair) : q # <<>> <=> 1 \in DOMAIN q
    BY EmptySeq
  <2> QED BY <1>p, <1>4, <2>1
<1>6. TypeOK'
  BY <1>1, <1>t, <1>p, <1>u, <1>3a DEF TypeOK
<1>7. FreshUntouched'
  BY <1>p, <1>c, <1>u, <1>3a DEF IInv, FreshUntouched, IsFresh
<1>8. PairsConsistent'
  BY <1>1, <1>p, <1>c, <1>3a DEF IInv, PairsConsistent
<1>9. FirstPairIsInvite' /\ SeqFollowsAck'
  BY <1>1, <1>p, <1>e, <1>u DEF IInv, FirstPairIsInvite, SeqFollowsAck
<1>10. DeliveredHasPair'
  <2>1. \A t \in SipTransactionId : t.call \in Call
    BY DEF SipTransactionId
  <2>2. \A t \in SipTransactionId : FindMsgPair(t)' = FindMsgPair(t)
    BY <1>p, <2>1 DEF FindMsgPair
  <2> QED BY <1>u, <2>2 DEF IInv, DeliveredHasPair
<1>11. ProxyLimit'
  BY <1>l, <1>3a DEF IInv, ProxyLimit
<1>12. AckedHasLimitZero'
  <2>1. acked \subseteq Container
    BY <1>t DEF TypeOK
  <2> QED BY <1>p, <1>c, <1>l, <1>u, <1>e, <2>1 DEF IInv, AckedHasLimitZero
<1>13. KeepsGoing'
  <2> SUFFICES ASSUME NEW k \in Call, NEW j \in DOMAIN pairs[k], ~ Proxy,
                      pairs'[k][j].resp \in Container, pairs[k][j].tid.method = "INVITE"
               PROVE  LET d == pairs'[k][j].resp
                      IN  \/ d \in sendQ' /\ retransMax'[d] = MaxRetrans
                          \/ d \in unroutable' \/ retransSoFar'[d] = MaxRetrans
                          \/ j = 1 /\ ackSeq'[k] > 0
    BY <1>p DEF KeepsGoing
  <2>1. pairs'[k][j].resp = pairs[k][j].resp /\ ~ (k = l /\ j = i)
    BY <1>p, <1>c
  <2>2. pairs[k][j].resp # pairs[l][i].resp
    BY <1>t, <1>2, <2>1, OneResponseOnePair
  <2> QED BY <1>l, <1>u, <1>3a, <2>1, <2>2 DEF IInv, KeepsGoing
<1> QED BY <1>6, <1>7, <1>8, <1>9, <1>10, <1>11, <1>12, <1>13 DEF IInv

\* A proxy hands everything up that it has no pair for.
LEMMA RecvAsProxyIInv ==
    ASSUME IInv, GetNextMessage, UNCHANGED <<udpOwned, purgeVars>>,
           NEW tid \in SipTransactionId, RecvAsProxy(tid)
    PROVE  IInv'
<1>1. /\ UNCHANGED <<retransMax, pairs, curSeqNum, seqSet, acked>>
      /\ known' = known \cup {tid.call} /\ Proxy
  BY DEF RecvAsProxy, MakeKnown, dbOwned
<1>2. TypeOK /\ retransMax' \in [Container -> 0..MaxRetrans]
  BY <1>1 DEF IInv, TypeOK, UdpTypeOK
<1>3. UdpTypeOK' /\ PurgeTypeOK' /\ UNCHANGED <<msgIn, retransSoFar, sendQ, unroutable>>
  BY <1>2, TakeType
<1>4. /\ handed' \subseteq SipTransactionId /\ ups' \in [SipTransactionId -> 0..2]
      /\ ackSeq' \in [Call -> Nat] /\ tid.call \in Call
  BY <1>2, HandUpType DEF RecvAsProxy
<1>5. TypeOK'
  BY <1>1, <1>2, <1>3, <1>4 DEF TypeOK
<1> QED BY <1>1, <1>3, <1>5
        DEF IInv, FreshUntouched, IsFresh, PairsConsistent, FirstPairIsInvite, SeqFollowsAck,
            DeliveredHasPair, ProxyLimit, AckedHasLimitZero, KeepsGoing

\* What a new pair at the end of a list changes.
LEMMA AddPairShape ==
    ASSUME IInv, NEW tid \in SipTransactionId, NEW req \in {"request", "status"},
           NEW resp \in NotTransported, AddPair(tid, req, resp)
    PROVE  LET l == tid.call
               n == Len(pairs[l]) + 1
           IN  /\ pairs' \in [Call -> Seq(Pair)] /\ n \in Nat /\ l \in Call
               /\ \A k \in Call : k # l => pairs'[k] = pairs[k]
               /\ DOMAIN pairs'[l] = DOMAIN pairs[l] \cup {n} /\ n \notin DOMAIN pairs[l]
               /\ \A i \in DOMAIN pairs[l] : pairs'[l][i] = pairs[l][i]
               /\ pairs'[l][n].tid = tid /\ pairs'[l][n].req = req /\ pairs'[l][n].resp = resp
               /\ pairs'[l] # <<>> /\ (pairs[l] = <<>> => n = 1)
               /\ (pairs[l] # <<>> => 1 \in DOMAIN pairs[l] /\ n # 1)
<1> DEFINE l == tid.call
           n == Len(pairs[l]) + 1
           e == [tid |-> tid, req |-> req, resp |-> resp]
<1>1. l \in Call /\ TypeOK
  BY DEF IInv, SipTransactionId
<1>2. e \in Pair /\ e.tid = tid /\ e.req = req /\ e.resp = resp
  BY DEF Pair
<1>3. pairs' = [pairs EXCEPT ![l] = Append(pairs[l], e)] /\ pairs \in [Call -> Seq(Pair)]
  BY <1>1 DEF AddPair, TypeOK
<1> HIDE DEF e
<1>4. pairs[l] \in Seq(Pair) /\ Len(pairs[l]) \in Nat /\ DOMAIN pairs[l] = 1..Len(pairs[l])
  BY <1>1, PairsAreSeqs
<1>5. /\ Append(pairs[l], e) \in Seq(Pair)
      /\ DOMAIN Append(pairs[l], e) = 1..n
      /\ \A i \in 1..Len(pairs[l]) : Append(pairs[l], e)[i] = pairs[l][i]
      /\ Append(pairs[l], e)[n] = e
  BY <1>2, <1>4
<1>6. pairs'[l] = Append(pairs[l], e) /\ \A k \in Call : k # l => pairs'[k] = pairs[k]
  BY <1>1, <1>3
<1>7. pairs' \in [Call -> Seq(Pair)]
  BY <1>3, <1>5
<1>8. 1..n = (1..Len(pairs[l])) \cup {n} /\ n \notin 1..Len(pairs[l]) /\ n \in Nat
  BY <1>4
<1>9. pairs[l] = <<>> <=> Len(pairs[l]) = 0
  BY <1>4
<1>10. pairs'[l] # <<>>
  <2>1. Len(Append(pairs[l], e)) = n
    BY <1>2, <1>4
  <2> QED BY <1>6, <2>1, <1>4
<1>11. (pairs[l] = <<>> => n = 1) /\ (pairs[l] # <<>> => 1 \in DOMAIN pairs[l] /\ n # 1)
  BY <1>4, <1>9
<1> QED BY <1>1, <1>2, <1>4, <1>5, <1>6, <1>7, <1>8, <1>10, <1>11

\* A request for the first time, handed up or rejected.
LEMMA RecvFirstTimeIInv ==
    ASSUME IInv, GetNextMessage, UNCHANGED <<udpOwned, purgeVars>>,
           NEW tid \in SipTransactionId, RecvInOrder(tid) \/ RecvOutOfOrder(tid)
    PROVE  IInv'
<1> DEFINE l == tid.call
           n == Len(pairs[l]) + 1
<1>1. /\ ~ Proxy /\ ~ SeqExempt(tid) /\ FirstTime(tid)
      /\ known' = known \cup {l}
      /\ UNCHANGED <<retransMax, seqSet, acked>>
  BY DEF RecvInOrder, RecvOutOfOrder, MakeKnown, dbOwned, history
<1>2. TypeOK /\ retransMax' \in [Container -> 0..MaxRetrans]
  BY <1>1 DEF IInv, TypeOK, UdpTypeOK
<1>3. UdpTypeOK' /\ PurgeTypeOK' /\ UNCHANGED <<msgIn, retransSoFar, sendQ, unroutable>>
  BY <1>2, TakeType
<1>4. PICK req \in {"request", "status"}, resp \in NotTransported :
         /\ AddPair(tid, req, resp)
         /\ (RecvInOrder(tid) /\ req = "request") \/ RecvOutOfOrder(tid)
  BY DEF RecvInOrder, RecvOutOfOrder, NotTransported
<1>p. /\ pairs' \in [Call -> Seq(Pair)] /\ n \in Nat /\ l \in Call
      /\ \A k \in Call : k # l => pairs'[k] = pairs[k]
      /\ DOMAIN pairs'[l] = DOMAIN pairs[l] \cup {n} /\ n \notin DOMAIN pairs[l]
      /\ \A i \in DOMAIN pairs[l] : pairs'[l][i] = pairs[l][i]
      /\ pairs'[l][n].tid = tid /\ pairs'[l][n].req = req /\ pairs'[l][n].resp = resp
      /\ pairs'[l] # <<>> /\ (pairs[l] = <<>> => n = 1)
      /\ (pairs[l] # <<>> => 1 \in DOMAIN pairs[l] /\ n # 1)
  BY <1>4, AddPairShape
<1> HIDE DEF n
<1>c. resp \notin Container
  BY ResponseAssumption
<1>d. \A i \in DOMAIN pairs[l] : pairs[l][i].tid # tid
  BY <1>1 DEF FirstTime, FindMsgPair
<1>h. /\ handed' \subseteq SipTransactionId /\ ups' \in [SipTransactionId -> 0..2]
      /\ ackSeq' = ackSeq
      /\ \A t \in SipTransactionId : t # tid => ups'[t] = ups[t]
      /\ ups'[tid] <= 1
  <2>1. ups[tid] = 0
    <3>1. FindMsgPair(tid) = {} /\ ups[tid] \in 0..2
      BY <1>1, <1>2 DEF FirstTime, TypeOK
    <3> QED BY <1>1, <3>1 DEF IInv, DeliveredHasPair
  <2>2. CASE RecvInOrder(tid)
    <3>1. HandUp(tid)
      BY <2>2 DEF RecvInOrder
    <3>2. \A k \in Call : ackSeq'[k] = ackSeq[k]
      BY <1>1, <1>2, <3>1, HandUpType
    <3>3. ackSeq' = ackSeq
      BY <1>2, <3>1, <3>2, HandUpType DEF TypeOK
    <3>4. ups'[tid] <= 1
      BY <1>1, <1>2, <2>1, <3>1 DEF HandUp, TypeOK
    <3> QED BY <1>2, <3>1, <3>3, <3>4, HandUpType
  <2>3. CASE RecvOutOfOrder(tid)
    BY <1>2, <2>1, <2>3 DEF RecvOutOfOrder, history, TypeOK
  <2> QED BY <2>2, <2>3
<1>q. /\ curSeqNum' \in [Call -> Nat]
      /\ \A k \in Call : curSeqNum'[k] >= curSeqNum[k]
      /\ \A k \in Call \ seqSet : curSeqNum'[k] = curSeqNum[k]
  <2>1. CASE RecvInOrder(tid)
    <3>1. curSeqNum \in [Call -> Nat] /\ l \in Call /\ tid.seq \in Nat
      BY <1>2, <1>p, CSeqAssumption DEF TypeOK, SipTransactionId
    <3>2. CASE l \in seqSet
      <4>1. tid.seq > curSeqNum[l] /\ curSeqNum' = [curSeqNum EXCEPT ![l] = tid.seq]
        BY <2>1, <3>2 DEF RecvInOrder, InOrder
      <4>2. \A k \in Call : curSeqNum'[k] = IF k = l THEN tid.seq ELSE curSeqNum[k]
        BY <3>1, <4>1
      <4> HIDE DEF l
      <4>3. curSeqNum' \in [Call -> Nat]
        BY <3>1, <4>1
      <4> QED BY <3>1, <3>2, <4>1, <4>2, <4>3
    <3>3. CASE l \notin seqSet
      <4>1. curSeqNum' = curSeqNum
        BY <2>1, <3>3 DEF RecvInOrder
      <4> QED BY <3>1, <4>1
    <3> QED BY <3>2, <3>3
  <2>2. CASE RecvOutOfOrder(tid)
    BY <1>2, <2>2 DEF RecvOutOfOrder, TypeOK
  <2> QED BY <2>1, <2>2
<1>5. TypeOK'
  BY <1>1, <1>2, <1>3, <1>p, <1>h, <1>q DEF TypeOK
<1>6. FreshUntouched'
  BY <1>1, <1>3, <1>p, <1>c DEF IInv, FreshUntouched, IsFresh
<1>7. PairsConsistent'
  <2> SUFFICES ASSUME NEW k \in Call, NEW i \in DOMAIN pairs'[k]
               PROVE  /\ k \in known' /\ pairs'[k][i].tid.call = k
                      /\ \A j \in DOMAIN pairs'[k] : pairs'[k][j].tid = pairs'[k][i].tid => i = j
                      /\ pairs'[k][i].resp \in Container
                         => msgIn'[pairs'[k][i].resp].tid = pairs'[k][i].tid
    BY DEF PairsConsistent
  <2>1. CASE k # l
    BY <1>1, <1>3, <1>p, <2>1 DEF IInv, PairsConsistent
  <2>2. CASE k = l
    BY <1>1, <1>3, <1>p, <1>c, <1>d, <2>2 DEF IInv, PairsConsistent
  <2> QED BY <2>1, <2>2
<1>8. FirstPairIsInvite'
  <2>1. ASSUME pairs[l] = <<>>  PROVE tid.method = "INVITE" /\ req = "request"
    <3>1. l \notin known /\ l \notin seqSet
      BY <1>1, <1>p, <2>1 DEF IInv, SeqFollowsAck
    <3>2. InOrder(tid)
      BY <3>1 DEF InOrder
    <3> QED BY <1>1, <1>4, <3>1, <3>2 DEF FirstTime, InCall, RecvOutOfOrder
  <2> QED BY <1>p, <2>1 DEF IInv, FirstPairIsInvite
<1>9. SeqFollowsAck'
  <2>1. seqSet' \subseteq known' /\ \A k \in Call \ seqSet' : curSeqNum'[k] = 0
    BY <1>1, <1>q DEF IInv, SeqFollowsAck
  <2>2. \A k \in Call : k \in known' => pairs'[k] # <<>>
    BY <1>1, <1>p DEF IInv, SeqFollowsAck
  <2>3. \A k \in Call : ackSeq'[k] > 0 => k \in seqSet' /\ ackSeq'[k] <= curSeqNum'[k]
    <3> SUFFICES ASSUME NEW k \in Call, ackSeq[k] > 0
                 PROVE  k \in seqSet /\ ackSeq[k] <= curSeqNum'[k]
      BY <1>1, <1>h
    <3>1. k \in seqSet /\ ackSeq[k] <= curSeqNum[k]
      BY <1>1 DEF IInv, SeqFollowsAck
    <3>2. ackSeq[k] \in Nat /\ curSeqNum[k] \in Nat /\ curSeqNum'[k] \in Nat
      BY <1>2, <1>q DEF TypeOK
    <3> QED BY <1>q, <3>1, <3>2
  <2> QED BY <2>1, <2>2, <2>3 DEF SeqFollowsAck
<1>10. DeliveredHasPair'
  <2> SUFFICES ASSUME NEW t \in SipTransactionId, ~ SeqExempt(t), ups'[t] > 0
               PROVE  ups'[t] = 1 /\ FindMsgPair(t)' # {}
    BY DEF DeliveredHasPair
  <2>0. t.call \in Call
    BY DEF SipTransactionId
  <2>1. CASE t = tid
    <3>1. n \in FindMsgPair(t)'
      BY <1>p, <2>1 DEF FindMsgPair
    <3>2. ups'[t] = 1
      BY <1>h, <2>1
    <3> QED BY <3>1, <3>2
  <2>2. CASE t # tid
    <3>1. ups[t] = 1 /\ FindMsgPair(t) # {} /\ ups'[t] = 1
      BY <1>1, <1>h, <2>2 DEF IInv, DeliveredHasPair
    <3>2. PICK i : i \in FindMsgPair(t)
      BY <3>1
    <3>3. i \in FindMsgPair(t)'
      BY <1>p, <2>0, <3>2 DEF FindMsgPair
    <3> QED BY <3>1, <3>3
  <2> QED BY <2>1, <2>2
<1>11. ProxyLimit'
  BY <1>1 DEF ProxyLimit
<1>12. AckedHasLimitZero'
  <2>1. acked \subseteq Container
    BY <1>2 DEF TypeOK
  <2> QED BY <1>1, <1>p, <1>c, <2>1 DEF IInv, AckedHasLimitZero
<1>13. KeepsGoing'
  <2> SUFFICES ASSUME NEW k \in Call, NEW i \in DOMAIN pairs'[k], ~ Proxy,
                      pairs'[k][i].resp \in Container, pairs'[k][i].tid.method = "INVITE"
               PROVE  LET d == pairs'[k][i].resp
                      IN  \/ d \in sendQ' /\ retransMax'[d] = MaxRetrans
                          \/ d \in unroutable' \/ retransSoFar'[d] = MaxRetrans
                          \/ i = 1 /\ ackSeq'[k] > 0
    BY DEF KeepsGoing
  <2>1. i \in DOMAIN pairs[k] /\ pairs'[k][i] = pairs[k][i]
    BY <1>p, <1>c
  <2> QED BY <1>1, <1>3, <1>h, <2>1 DEF IInv, KeepsGoing
<1> QED BY <1>5, <1>6, <1>7, <1>8, <1>9, <1>10, <1>11, <1>12, <1>13 DEF IInv

\* An ACK or CANCEL raises curSeqNum; the ACK stops the first INVITE's status.
LEMMA RecvAckOrCancelIInv ==
    ASSUME IInv, GetNextMessage, UNCHANGED <<udpOwned, purgeVars>>,
           NEW tid \in SipTransactionId, RecvAckOrCancel(tid)
    PROVE  IInv'
<1> DEFINE l == tid.call
<1>1. /\ ~ Proxy /\ SeqExempt(tid) /\ FirstTime(tid) /\ HandUp(tid)
      /\ curSeqNum' = [curSeqNum EXCEPT ![l] = IF tid.seq > @ THEN tid.seq ELSE @]
      /\ seqSet' = IF tid.seq > curSeqNum[l] THEN seqSet \cup {l} ELSE seqSet
      /\ retransMax' = [c \in Container |->
                          IF tid.method = "ACK" /\ c \in AckedResponses(l)
                          THEN 0 ELSE retransMax[c]]
      /\ acked' = IF tid.method = "ACK" THEN acked \cup AcknowledgedBy(tid) ELSE acked
      /\ UNCHANGED <<known, pairs>>
  BY DEF RecvAckOrCancel
<1>2. TypeOK /\ retransMax' \in [Container -> 0..MaxRetrans]
  BY <1>1, RetransAssumption DEF IInv, TypeOK, UdpTypeOK
<1>3. UdpTypeOK' /\ PurgeTypeOK' /\ UNCHANGED <<msgIn, retransSoFar, sendQ, unroutable>>
  BY <1>2, TakeType
<1>h. /\ handed' \subseteq SipTransactionId
      /\ ups' \in [SipTransactionId -> 0..2]
      /\ ackSeq' \in [Call -> Nat]
      /\ \A t \in SipTransactionId : t # tid => ups'[t] = ups[t]
      /\ \A k \in Call : ackSeq'[k] >= ackSeq[k]
      /\ \A k \in Call : k # l => ackSeq'[k] = ackSeq[k]
      /\ l \in Call /\ tid.seq \in Nat /\ tid.seq > 0
  BY <1>1, <1>2, HandUpType
<1>k. l \in known /\ pairs[l] # <<>>
  <2>1. tid.method # "INVITE"
    BY <1>1 DEF SeqExempt
  <2>2. l \in known
    BY <1>1, <2>1 DEF FirstTime, InCall
  <2> QED BY <1>1, <1>h, <2>2 DEF IInv, SeqFollowsAck
<1>a. /\ ackSeq'[l] = IF tid.seq > ackSeq[l] THEN tid.seq ELSE ackSeq[l]
      /\ ackSeq \in [Call -> Nat] /\ curSeqNum \in [Call -> Nat]
      /\ curSeqNum' \in [Call -> Nat]
      /\ curSeqNum'[l] = IF tid.seq > curSeqNum[l] THEN tid.seq ELSE curSeqNum[l]
      /\ \A k \in Call : k # l => curSeqNum'[k] = curSeqNum[k]
      /\ ackSeq'[l] > 0
  <2>1. ackSeq \in [Call -> Nat] /\ curSeqNum \in [Call -> Nat]
    BY <1>2 DEF TypeOK
  <2>2. ackSeq'[l] = IF tid.seq > ackSeq[l] THEN tid.seq ELSE ackSeq[l]
    BY <1>1, <1>h, <2>1 DEF HandUp
  <2>3. curSeqNum' \in [Call -> Nat]
    BY <1>1, <1>h, <2>1
  <2>4. /\ curSeqNum'[l] = IF tid.seq > curSeqNum[l] THEN tid.seq ELSE curSeqNum[l]
        /\ \A k \in Call : k # l => curSeqNum'[k] = curSeqNum[k]
    BY <1>1, <1>h, <2>1
  <2>5. ackSeq[l] \in Nat
    BY <1>h, <2>1
  <2> HIDE DEF l
  <2>6. ackSeq'[l] > 0
    BY <1>h, <2>2, <2>5
  <2> QED BY <2>1, <2>2, <2>3, <2>4, <2>6
<1>r. /\ 1 \in DOMAIN pairs[l]
      /\ AckedResponses(l) = {pairs[l][1].resp} \cap Container
  <2>1. 1 \in DOMAIN pairs[l]
    BY <1>2, <1>h, <1>k, PairsAreSeqs
  <2>2. FirstInvite(l) = {1}
    BY <1>h, <1>k, FirstInviteIsFirst
  <2> QED BY <2>1, <2>2 DEF AckedResponses
<1>c. \A c \in AcknowledgedBy(tid) :
         c \in Container /\ \E i \in DOMAIN pairs[l] : pairs[l][i].resp = c
  <2>1. [tid EXCEPT !.method = "INVITE"].call = l
    BY DEF SipTransactionId
  <2> QED BY <2>1 DEF AcknowledgedBy, FindMsgPair
<1>4. TypeOK'
  BY <1>1, <1>2, <1>3, <1>h, <1>a, <1>c DEF TypeOK
<1>5. FreshUntouched'
  BY <1>1, <1>3, <1>h, <1>c DEF IInv, FreshUntouched, IsFresh
<1>6. PairsConsistent' /\ FirstPairIsInvite'
  BY <1>1, <1>3 DEF IInv, PairsConsistent, FirstPairIsInvite
<1>7. SeqFollowsAck'
  <2>1. seqSet' \subseteq known' /\ \A k \in Call : k \in known' => pairs'[k] # <<>>
    BY <1>1, <1>k DEF IInv, SeqFollowsAck
  <2>2. l \in seqSet'
    <3>1. curSeqNum[l] \in Nat
      BY <1>h, <1>a
    <3>2. CASE tid.seq > curSeqNum[l]
      BY <1>1, <3>2
    <3>3. CASE ~ (tid.seq > curSeqNum[l])
      <4>1. curSeqNum[l] # 0
        BY <1>h, <3>1, <3>3
      <4>2. l \in seqSet
        BY <1>h, <4>1 DEF IInv, SeqFollowsAck
      <4> QED BY <1>1, <3>3, <4>2
    <3> QED BY <3>2, <3>3
  <2>3. seqSet \subseteq seqSet'
    BY <1>1
  <2>4. \A k \in Call \ seqSet' : curSeqNum'[k] = 0
    BY <1>a, <2>2, <2>3 DEF IInv, SeqFollowsAck
  <2>5. \A k \in Call : ackSeq'[k] > 0 => k \in seqSet' /\ ackSeq'[k] <= curSeqNum'[k]
    <3> SUFFICES ASSUME NEW k \in Call, ackSeq'[k] > 0
                 PROVE  k \in seqSet' /\ ackSeq'[k] <= curSeqNum'[k]
      OBVIOUS
    <3>1. CASE k # l
      BY <1>1, <1>h, <1>a, <2>3, <3>1 DEF IInv, SeqFollowsAck
    <3>2. CASE k = l
      <4>1. ackSeq[l] \in Nat /\ curSeqNum[l] \in Nat /\ ackSeq[l] <= curSeqNum[l]
        <5>1. ackSeq[l] \in Nat /\ curSeqNum[l] \in Nat
          BY <1>h, <1>a
        <5>2. ackSeq[l] > 0 => ackSeq[l] <= curSeqNum[l]
          BY <1>1, <1>h DEF IInv, SeqFollowsAck
        <5> QED BY <5>1, <5>2
      <4> HIDE DEF l
      <4>2. ackSeq'[l] <= curSeqNum'[l]
        BY <1>h, <1>a, <4>1
      <4> QED BY <2>2, <3>2, <4>2
    <3> QED BY <3>1, <3>2
  <2> QED BY <2>1, <2>4, <2>5 DEF SeqFollowsAck
<1>8. DeliveredHasPair'
  BY <1>1, <1>h DEF IInv, DeliveredHasPair, FindMsgPair
<1>9. ProxyLimit'
  BY <1>1 DEF ProxyLimit
<1>10. AckedHasLimitZero'
  <2> SUFFICES ASSUME NEW k \in Call, pairs[k] # <<>>, pairs[k][1].resp \in acked'
               PROVE  retransMax'[pairs[k][1].resp] = 0
    BY <1>1 DEF AckedHasLimitZero
  <2>1. 1 \in DOMAIN pairs[k] /\ pairs[k][1].resp \in Container
    <3>1. acked' \subseteq Container
      BY <1>4 DEF TypeOK
    <3> QED BY <1>2, <3>1, PairsAreSeqs
  <2>2. CASE pairs[k][1].resp \in acked
    <3>1. retransMax[pairs[k][1].resp] = 0
      BY <2>2 DEF IInv, AckedHasLimitZero
    <3> QED BY <1>1, <2>1, <3>1
  <2>3. CASE tid.method = "ACK" /\ pairs[k][1].resp \in AcknowledgedBy(tid)
    <3>1. PICK i \in DOMAIN pairs[l] : pairs[l][i].resp = pairs[k][1].resp
      BY <1>c, <2>3
    <3>2. k = l
      BY <1>h, <2>1, <3>1, OneResponseOnePair
    <3>3. pairs[k][1].resp \in AckedResponses(l)
      BY <1>r, <2>1, <3>2
    <3> QED BY <1>1, <2>1, <2>3, <3>3
  <2> QED BY <1>1, <2>2, <2>3
<1>11. KeepsGoing'
  <2> SUFFICES ASSUME NEW k \in Call, NEW i \in DOMAIN pairs[k],
                      pairs[k][i].resp \in Container, pairs[k][i].tid.method = "INVITE"
               PROVE  LET d == pairs[k][i].resp
                      IN  \/ d \in sendQ' /\ retransMax'[d] = MaxRetrans
                          \/ d \in unroutable' \/ retransSoFar'[d] = MaxRetrans
                          \/ i = 1 /\ ackSeq'[k] > 0
    BY <1>1 DEF KeepsGoing
  <2>1. CASE pairs[k][i].resp = pairs[l][1].resp
    <3>1. k = l /\ i = 1
      BY <1>h, <1>r, <2>1, OneResponseOnePair
    <3> QED BY <1>a, <3>1
  <2>2. CASE pairs[k][i].resp # pairs[l][1].resp
    <3>1. retransMax'[pairs[k][i].resp] = retransMax[pairs[k][i].resp]
      BY <1>1, <1>r, <2>2
    <3>2. ackSeq[k] > 0 => ackSeq'[k] > 0
      <4>1. ackSeq[k] \in Nat /\ ackSeq'[k] \in Nat /\ ackSeq'[k] >= ackSeq[k]
        BY <1>h, <1>a
      <4> QED BY <4>1
    <3> QED BY <1>1, <1>3, <3>1, <3>2 DEF IInv, KeepsGoing
  <2> QED BY <2>1, <2>2
<1> QED BY <1>4, <1>5, <1>6, <1>7, <1>8, <1>9, <1>10, <1>11 DEF IInv

LEMMA RecvRequestIInv == IInv /\ RecvRequest => IInv'
<1> SUFFICES ASSUME IInv, RecvRequest PROVE IInv'
  OBVIOUS
<1> DEFINE tid == Head(rcvFifo).tid
<1>1. tid \in SipTransactionId
  <2>1. rcvFifo \in Seq(SipMessage) /\ rcvFifo # <<>>
    BY DEF RecvRequest, GetNextMessage, IInv, TypeOK, UdpTypeOK
  <2>2. Head(rcvFifo) \in SipMessage
    BY <2>1
  <2> QED BY <2>2 DEF SipMessage, Request, StatusMsg
<1>2. GetNextMessage /\ UNCHANGED <<udpOwned, purgeVars>>
  BY DEF RecvRequest
<1>3. \/ RecvOutsideCall(tid) \/ RecvAnsweredDuplicate(tid) \/ RecvPendingDuplicate(tid)
      \/ RecvAsProxy(tid) \/ RecvInOrder(tid) \/ RecvOutOfOrder(tid) \/ RecvAckOrCancel(tid)
  BY DEF RecvRequest
<1> HIDE DEF tid
<1> QED BY <1>1, <1>2, <1>3, RecvIgnoredIInv, RecvAnsweredDuplicateIInv, RecvAsProxyIInv,
           RecvFirstTimeIInv, RecvAckOrCancelIInv

\* Steps that touch neither the containers' limits nor the table.
LEMMA QuietIInv ==
    ASSUME IInv, UdpTypeOK', PurgeTypeOK', UNCHANGED <<dbVars, history>>,
           UNCHANGED <<msgIn, retransMax, retransSoFar, sendQ, unroutable>>
    PROVE  IInv'
<1>1. UNCHANGED <<known, pairs, curSeqNum, seqSet, handed, ups, ackSeq, acked>>
  BY DEF dbVars, history
<1>2. TypeOK'
  BY <1>1 DEF IInv, TypeOK
<1> QED BY <1>1, <1>2
        DEF IInv, FreshUntouched, IsFresh, PairsConsistent, FirstPairIsInvite, SeqFollowsAck,
            DeliveredHasPair, FindMsgPair, ProxyLimit, AckedHasLimitZero, KeepsGoing

\* A pass of tick(): the last transmission leaves the heap at its limit.
LEMMA UdpTickIInv == IInv /\ UdpTick => IInv'
<1> SUFFICES ASSUME IInv, NEW c \in Container,
                    \/ \E st \in {0} \cup SendError : Transmit(c, st)
                    \/ Discard(c),
                    UNCHANGED <<purgeVars, dbVars, history>>
             PROVE  IInv'
  BY DEF UdpTick
<1>t. TypeOK
  BY DEF IInv
<1>1. c \in sendQ /\ msgIn[c] \in SipMessage
  <2>1. c \in sendQ
    BY DEF Transmit, Discard, Due
  <2>2. ~ IsFresh(c)
    BY <2>1 DEF IInv, FreshUntouched
  <2> QED BY <1>t, <2>1, <2>2 DEF IsFresh, TypeOK, UdpTypeOK
<1>2. UdpTypeOK'
  BY <1>t, <1>1, TransmitType, DiscardType DEF TypeOK
<1>3. PurgeTypeOK'
  BY <1>t DEF TypeOK, PurgeTypeOK, purgeVars
<1>4. UNCHANGED <<known, pairs, curSeqNum, seqSet, handed, ups, ackSeq, acked>>
  BY DEF dbVars, history
<1>5. TypeOK'
  BY <1>t, <1>2, <1>3, <1>4 DEF TypeOK
<1>6. UNCHANGED <<msgIn, retransMax, unroutable>> /\ sendQ' \subseteq sendQ
  BY DEF Transmit, Discard, dbOwned
<1>7. /\ \A d \in Container \ {c} : (d \in sendQ' <=> d \in sendQ) /\ retransSoFar'[d] = retransSoFar[d]
      /\ retransSoFar'[c] >= retransSoFar[c] /\ retransSoFar'[c] <= MaxRetrans
      /\ retransMax[c] = MaxRetrans => c \in sendQ' \/ retransSoFar'[c] = MaxRetrans
      /\ retransMax[c] <= 1 /\ retransSoFar[c] <= 1 => retransSoFar'[c] <= 1
  <2>1. retransSoFar \in [Container -> 0..MaxRetrans] /\ retransMax \in [Container -> 0..MaxRetrans]
        /\ MaxRetrans \in Nat
    BY <1>t, RetransAssumption DEF TypeOK, UdpTypeOK
  <2>2. CASE Discard(c)
    BY <1>1, <2>1, <2>2 DEF Discard, MayTransmit
  <2>3. ASSUME NEW st, Transmit(c, st)  PROVE <1>7!:
    BY <1>1, <2>1, <2>3 DEF Transmit, MayTransmit, LastTransmission
  <2> QED BY <2>2, <2>3
<1>8. FreshUntouched' /\ PairsConsistent' /\ FirstPairIsInvite' /\ AckedHasLimitZero'
  BY <1>4, <1>6 DEF IInv, FreshUntouched, IsFresh, PairsConsistent, FirstPairIsInvite,
                    AckedHasLimitZero
<1>9. SeqFollowsAck' /\ DeliveredHasPair'
  BY <1>4 DEF IInv, SeqFollowsAck, DeliveredHasPair, FindMsgPair
<1>10. ProxyLimit'
  BY <1>6, <1>7 DEF IInv, ProxyLimit
<1>11. KeepsGoing'
  <2> SUFFICES ASSUME NEW k \in Call, NEW i \in DOMAIN pairs[k], ~ Proxy,
                      pairs[k][i].resp \in Container, pairs[k][i].tid.method = "INVITE"
               PROVE  LET d == pairs[k][i].resp
                      IN  \/ d \in sendQ' /\ retransMax'[d] = MaxRetrans
                          \/ d \in unroutable' \/ retransSoFar'[d] = MaxRetrans
                          \/ i = 1 /\ ackSeq'[k] > 0
    BY <1>4 DEF KeepsGoing
  <2>1. LET d == pairs[k][i].resp
        IN  \/ d \in sendQ /\ retransMax[d] = MaxRetrans
            \/ d \in unroutable \/ retransSoFar[d] = MaxRetrans
            \/ i = 1 /\ ackSeq[k] > 0
    BY DEF IInv, KeepsGoing
  <2>2. retransSoFar[c] = MaxRetrans => retransSoFar'[c] = MaxRetrans
    <3>1. MaxRetrans \in Nat /\ retransSoFar'[c] \in Nat
      BY <1>2, RetransAssumption DEF UdpTypeOK
    <3> QED BY <1>7, <3>1
  <2> QED BY <1>4, <1>6, <1>7, <2>1, <2>2
<1> QED BY <1>5, <1>8, <1>9, <1>10, <1>11 DEF IInv

\* purgeOldCalls forgets whole calls.
LEMMA PurgeOldCallsIInv == IInv /\ PurgeOldCalls => IInv'
<1> SUFFICES ASSUME IInv, PurgeOldCalls PROVE IInv'
  OBVIOUS
<1>t. TypeOK
  BY DEF IInv
<1>1. /\ known' = {k \in known : ~ Expired(k)}
      /\ seqSet' = {k \in seqSet : ~ Expired(k)}
      /\ UNCHANGED <<msgIn, retransMax, retransSoFar, sendQ, unroutable, handed, acked>>
  BY DEF PurgeOldCalls, udpVars, udpOwned, dbOwned
<1>2. /\ \A k \in Call : Expired(k) => /\ pairs'[k] = <<>> /\ DOMAIN pairs'[k] = {}
                                       /\ curSeqNum'[k] = 0 /\ ackSeq'[k] = 0
      /\ \A k \in Call : ~ Expired(k) => /\ pairs'[k] = pairs[k]
                                         /\ curSeqNum'[k] = curSeqNum[k]
                                         /\ ackSeq'[k] = ackSeq[k]
      /\ \A t \in SipTransactionId : ups'[t] = IF Expired(t.call) THEN 0 ELSE ups[t]
  <2>1. DOMAIN <<>> = {}
    OBVIOUS
  <2> QED BY <2>1 DEF PurgeOldCalls
<1>3. UdpTypeOK' /\ PurgeTypeOK'
  <2>1. UdpTypeOK'
    BY <1>t DEF PurgeOldCalls, udpVars, udpOwned, dbOwned, TypeOK, UdpTypeOK
  <2>2. SweepTimers
    BY DEF PurgeOldCalls
  <2> QED BY <1>t, <2>1, <2>2, SweepTimersType DEF TypeOK
<1>4. TypeOK'
  <2>1. pairs' \in [Call -> Seq(Pair)]
    <3>1. <<>> \in Seq(Pair)
      OBVIOUS
    <3> QED BY <1>t, <3>1 DEF PurgeOldCalls, TypeOK
  <2>2. /\ curSeqNum' \in [Call -> Nat] /\ ackSeq' \in [Call -> Nat]
        /\ ups' \in [SipTransactionId -> 0..2]
    BY <1>t DEF PurgeOldCalls, TypeOK
  <2> QED BY <1>t, <1>1, <1>3, <2>1, <2>2 DEF TypeOK
<1>5. FreshUntouched' /\ PairsConsistent' /\ FirstPairIsInvite'
  BY <1>1, <1>2 DEF IInv, FreshUntouched, IsFresh, PairsConsistent, FirstPairIsInvite
<1>6. SeqFollowsAck'
  BY <1>1, <1>2 DEF IInv, SeqFollowsAck
<1>7. DeliveredHasPair'
  <2> SUFFICES ASSUME NEW t \in SipTransactionId, ~ Proxy, ~ SeqExempt(t), ups'[t] > 0
               PROVE  ups'[t] = 1 /\ FindMsgPair(t)' # {}
    BY DEF DeliveredHasPair
  <2>1. ~ Expired(t.call) /\ t.call \in Call /\ ups'[t] = ups[t]
    BY <1>2 DEF SipTransactionId
  <2>2. FindMsgPair(t)' = FindMsgPair(t)
    BY <1>2, <2>1 DEF FindMsgPair
  <2> QED BY <2>1, <2>2 DEF IInv, DeliveredHasPair
<1>8. ProxyLimit'
  BY <1>1 DEF IInv, ProxyLimit
<1>9. AckedHasLimitZero'
  BY <1>1, <1>2 DEF IInv, AckedHasLimitZero
<1>10. KeepsGoing'
  <2> SUFFICES ASSUME NEW k \in Call, NEW i \in DOMAIN pairs'[k], ~ Proxy,
                      pairs'[k][i].resp \in Container, pairs'[k][i].tid.method = "INVITE"
               PROVE  LET d == pairs'[k][i].resp
                      IN  \/ d \in sendQ' /\ retransMax'[d] = MaxRetrans
                          \/ d \in unroutable' \/ retransSoFar'[d] = MaxRetrans
                          \/ i = 1 /\ ackSeq'[k] > 0
    BY DEF KeepsGoing
  <2>1. ~ Expired(k) /\ pairs'[k] = pairs[k] /\ ackSeq'[k] = ackSeq[k]
    BY <1>2
  <2> QED BY <1>1, <2>1 DEF IInv, KeepsGoing
<1> QED BY <1>4, <1>5, <1>6, <1>7, <1>8, <1>9, <1>10 DEF IInv

LEMMA NextIInv == IInv /\ [Next]_vars => IInv'
<1> SUFFICES ASSUME IInv, [Next]_vars PROVE IInv'
  OBVIOUS
<1>t. TypeOK /\ UdpTypeOK /\ PurgeTypeOK
  BY DEF IInv, TypeOK
<1>1. CASE AppReply
  BY <1>1, SendReplyIInv DEF AppReply
<1>2. CASE RecvRequest
  BY <1>2, RecvRequestIInv
<1>3. CASE NetworkRequest
  <2>1. PICK tid \in PeerRequest :
           Receive(MkRequest(tid)) /\ UNCHANGED <<purgeVars, dbVars, history>>
    BY <1>3 DEF NetworkRequest
  <2>2. MkRequest(tid) \in SipMessage
    BY PeerRequestAssumption, MkRequestType DEF SipMessage
  <2>3. UdpTypeOK'
    BY <1>t, <2>1, <2>2, ReceiveType
  <2>4. PurgeTypeOK'
    BY <1>t, <2>1 DEF PurgeTypeOK, purgeVars
  <2> QED BY <2>1, <2>3, <2>4, QuietIInv DEF Receive, udpOwned, dbOwned
<1>4. ASSUME NEW k \in Call, ReleaseCall(k)  PROVE IInv'
  <2>1. DeleteLeg(k, k \in known) /\ UNCHANGED <<udpVars, dbVars, history>>
    BY <1>4 DEF ReleaseCall
  <2>2. (k \in known) \in BOOLEAN
    OBVIOUS
  <2>3. PurgeTypeOK'
    BY <1>t, <2>1, <2>2, DeleteLegType
  <2>4. UdpTypeOK' /\ UNCHANGED <<msgIn, retransMax, retransSoFar, sendQ, unroutable>>
    BY <1>t, <2>1 DEF UdpTypeOK, udpVars, udpOwned, dbOwned
  <2> QED BY <2>1, <2>3, <2>4, QuietIInv
<1>5. CASE PurgeOldCalls
  BY <1>5, PurgeOldCallsIInv
<1>6. CASE UdpTick
  BY <1>6, UdpTickIInv
<1>7. CASE Elapse
  <2>1. UdpTypeOK' /\ PurgeTypeOK'
    BY <1>t, <1>7, UdpElapseType, PurgeElapseType DEF Elapse
  <2> QED BY <1>7, <2>1, QuietIInv DEF Elapse, UdpElapse, dbOwned
<1>8. CASE UNCHANGED vars
  <2>1. UdpTypeOK' /\ PurgeTypeOK'
    BY <1>t, <1>8 DEF vars, udpVars, udpOwned, dbOwned, purgeVars, UdpTypeOK, PurgeTypeOK
  <2> QED BY <1>8, <2>1, QuietIInv DEF vars, udpVars, udpOwned, dbOwned
<1> QED BY <1>1, <1>2, <1>3, <1>4, <1>5, <1>6, <1>7, <1>8 DEF Next

LEMMA Invariance == Spec => []IInv
<1>1. Init => IInv
  BY InitIInv
<1>2. IInv /\ [Next]_vars => IInv'
  BY NextIInv
<1> QED BY <1>1, <1>2, PTL DEF Spec

-----------------------------------------------------------------------------
(* The properties.                                                         *)

\* Every variable of the server half keeps its type.
THEOREM TypeCorrect == Spec => []TypeOK
<1>1. IInv => TypeOK
  BY DEF IInv
<1> QED BY <1>1, Invariance, PTL

\* One record for a transaction id, and a response only of its own pair.
THEOREM PairsConsistentCorrect == Spec => []PairsConsistent
<1>1. IInv => PairsConsistent
  BY DEF IInv
<1> QED BY <1>1, Invariance, PTL

\* However often the peer retransmits a request, a user agent's application
\* gets it at most once while the call is in the table.
THEOREM NoDuplicateDeliveryCorrect == Spec => []NoDuplicateDelivery
<1>1. IInv => NoDuplicateDelivery
  <2> SUFFICES ASSUME IInv, NEW tid \in SipTransactionId, ~ Proxy, ~ SeqExempt(tid)
               PROVE  ups[tid] <= 1
    BY DEF NoDuplicateDelivery
  <2>1. ups[tid] \in 0..2
    BY DEF IInv, TypeOK
  <2>2. ups[tid] > 0 => ups[tid] = 1
    BY DEF IInv, DeliveredHasPair
  <2> QED BY <2>1, <2>2
<1> QED BY <1>1, Invariance, PTL

\* A recorded final status for an INVITE goes on until it was sent as often as
\* allowed or an ACK came, and no ACK but its own stops one that is not the
\* first INVITE's.
THEOREM RecordedFinalKeepsGoingCorrect == Spec => []RecordedFinalKeepsGoing
<1>1. IInv => RecordedFinalKeepsGoing
  <2> SUFFICES ASSUME IInv PROVE RecordedFinalKeepsGoing
    OBVIOUS
  <2>1. \A k \in Call : 1 \in DOMAIN pairs[k] => 1 \in FirstInvite(k)
    BY FirstInviteIsFirst, PairsAreSeqs DEF IInv
  <2> QED BY <2>1 DEF IInv, KeepsGoing, RecordedFinalKeepsGoing
<1> QED BY <1>1, Invariance, PTL

\* A proxy transmits no status more than once.
THEOREM ProxySendsOnceCorrect == Spec => []ProxySendsOnce
<1>1. IInv => ProxySendsOnce
  BY DEF IInv, ProxyLimit, ProxySendsOnce
<1> QED BY <1>1, Invariance, PTL

\* A delivery to a user agent's application of anything but an ACK or CANCEL
\* has a number above every ACK and CANCEL of the call.
LEMMA OrderedStep ==
    ASSUME IInv, [Next]_vars, NEW tid \in SipTransactionId,
           ~ Proxy, ups'[tid] > ups[tid], ~ SeqExempt(tid)
    PROVE  tid.seq > ackSeq[tid.call]
<1>t. ups \in [SipTransactionId -> 0..2] /\ tid.call \in Call /\ tid.seq \in Nat \ {0}
  BY CSeqAssumption DEF IInv, TypeOK, SipTransactionId
<1>1. ups' # ups
  BY <1>t
<1>2. CASE RecvRequest
  <2> DEFINE t == Head(rcvFifo).tid
  <2>1. \/ RecvOutsideCall(t) \/ RecvAnsweredDuplicate(t) \/ RecvPendingDuplicate(t)
        \/ RecvAsProxy(t) \/ RecvInOrder(t) \/ RecvOutOfOrder(t) \/ RecvAckOrCancel(t)
    BY <1>2 DEF RecvRequest
  <2> HIDE DEF t
  <2>2. RecvInOrder(t) \/ RecvAckOrCancel(t)
    BY <1>1, <2>1 DEF RecvOutsideCall, RecvAnsweredDuplicate, RecvPendingDuplicate, RecvAsProxy,
                      RecvOutOfOrder, history
  <2>3. HandUp(t)
    BY <2>2 DEF RecvInOrder, RecvAckOrCancel
  <2>4. t = tid
    <3>1. ups'[tid] # ups[tid]
      BY <1>t
    <3> QED BY <1>t, <2>3, <3>1 DEF HandUp
  <2>5. InOrder(tid)
    BY <2>2, <2>4 DEF RecvInOrder, RecvAckOrCancel
  <2>6. ackSeq[tid.call] \in Nat /\ curSeqNum[tid.call] \in Nat
    BY <1>t DEF IInv, TypeOK
  <2>7. CASE ackSeq[tid.call] > 0
    <3>1. tid.call \in seqSet /\ ackSeq[tid.call] <= curSeqNum[tid.call]
      BY <1>t, <2>7 DEF IInv, SeqFollowsAck
    <3>2. tid.seq > curSeqNum[tid.call]
      BY <2>5, <3>1 DEF InOrder
    <3> QED BY <1>t, <2>6, <3>1, <3>2
  <2> QED BY <1>t, <2>6, <2>7
<1>3. CASE PurgeOldCalls
  <2>1. ups'[tid] = 0 \/ ups'[tid] = ups[tid]
    BY <1>3 DEF PurgeOldCalls
  <2> QED BY <1>t, <2>1
<1>4. CASE \/ AppReply \/ NetworkRequest \/ (\E k \in Call : ReleaseCall(k))
           \/ UdpTick \/ Elapse \/ UNCHANGED vars
  BY <1>1, <1>4 DEF AppReply, SendReply, NetworkRequest, ReleaseCall, UdpTick, Elapse, vars, history
<1> QED BY <1>2, <1>3, <1>4 DEF Next

\* The CSeq of a call, once an ACK or CANCEL has set it, keeps late requests out.
THEOREM NoRequestBehindAckCorrect == Spec => NoRequestBehindAck
<1>1. IInv /\ [Next]_vars =>
        [\A tid \in SipTransactionId :
           ~ Proxy /\ ups'[tid] > ups[tid] /\ ~ SeqExempt(tid) => tid.seq > ackSeq[tid.call]]_vars
  BY OrderedStep
<1> QED BY <1>1, Invariance, PTL DEF Spec, NoRequestBehindAck

\* A response that was acknowledged is not transmitted.
LEMMA SilencedStep ==
    ASSUME IInv, [Next]_vars, NEW k \in Call, NEW i \in FirstInvite(k), pairs[k][i].resp \in acked
    PROVE  retransSoFar'[pairs[k][i].resp] = retransSoFar[pairs[k][i].resp]
<1> DEFINE c == pairs[k][i].resp
<1>1. i = 1 /\ pairs[k] # <<>>
  BY FirstInviteIsFirst
<1>2. c \in Container /\ retransMax[c] = 0
  BY <1>1 DEF IInv, TypeOK, AckedHasLimitZero
<1> HIDE DEF c
<1>3. retransSoFar \in [Container -> 0..MaxRetrans] /\ ~ MayTransmit(c)
  BY <1>2, RetransAssumption DEF MayTransmit, IInv, TypeOK, UdpTypeOK
<1>4. ASSUME UdpTick  PROVE retransSoFar'[c] = retransSoFar[c]
  <2>1. PICK d \in Container : (\E st \in {0} \cup SendError : Transmit(d, st)) \/ Discard(d)
    BY <1>4 DEF UdpTick
  <2>2. CASE Discard(d)
    BY <2>2 DEF Discard
  <2>3. ASSUME NEW st, Transmit(d, st)  PROVE retransSoFar'[c] = retransSoFar[c]
    <3>1. d # c /\ retransSoFar' = [retransSoFar EXCEPT ![d] = @ + 1]
      BY <1>3, <2>3 DEF Transmit
    <3> QED BY <1>2, <1>3, <3>1
  <2> QED BY <2>1, <2>2, <2>3
<1>5. ASSUME ~ UdpTick  PROVE retransSoFar'[c] = retransSoFar[c]
  <2>1. UNCHANGED retransSoFar
    BY <1>5 DEF Next, AppReply, SendReply, Send, RecvRequest, NetworkRequest, Receive, ReleaseCall,
                PurgeOldCalls, Elapse, UdpElapse, vars, udpVars, udpOwned
  <2> QED BY <2>1
<1>6. retransSoFar'[c] = retransSoFar[c]
  BY <1>4, <1>5
<1> QED BY <1>6 DEF c

\* The final status of a call's first INVITE is silent once its ACK was handed up.
THEOREM AckSilencesFirstInviteCorrect == Spec => AckSilencesFirstInvite
<1>1. IInv /\ [Next]_vars =>
        [\A k \in Call : \A i \in FirstInvite(k) :
            pairs[k][i].resp \in acked
            => retransSoFar'[pairs[k][i].resp] = retransSoFar[pairs[k][i].resp]]_vars
  BY SilencedStep
<1> QED BY <1>1, Invariance, PTL DEF Spec, AckSilencesFirstInvite

=============================================================================
