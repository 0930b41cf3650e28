------------------------- MODULE UaCallJoinedProofs -------------------------
(***************************************************************************)
(* Proofs about UaCall: what the agents of both sides of a call and the    *)
(* messages on their way say of each other, while it is set up, while it   *)
(* is up and after somebody has hung up.  They are about the calls that    *)
(* are not put on hold and whose messages neither get lost nor fail to be  *)
(* sent; those of other calls of the same user agents may.                 *)
(***************************************************************************)
EXTENDS UaCallProofs

(***************************************************************************)
(* The inductive invariant.                                                *)
(***************************************************************************)

CallerAgent(c) == agent[Caller[c]][c]
CalleeAgent(c) == agent[Callee[c]][c]
Regular(c) == reInvites[c] = 0 /\ Undisturbed(c)

\* The INVITE, and its final responses.
IsPending(m, c) == m.call = c /\ m.method = "INVITE" /\ (m.code = 0 \/ m.code >= 200)

\* A call nobody has hung up: one INVITE or one final response is on its way,
\* or the callee has the call, never two of these.
Calm(c) ==
    /\ \A m \in net : m.call = c => m.method \in {"INVITE", "ACK"}
    /\ \A m, k \in net : IsPending(m, c) /\ IsPending(k, c) => m = k
    /\ \A m \in net : IsPending(m, c) =>
          /\ ~IsUp(CallerAgent(c))
          /\ m.code = 200 => IsUp(CalleeAgent(c))
          /\ m.code # 200 => CalleeAgent(c) = NoAgent
    /\ CallerAgent(c) # NoAgent => CallerAgent(c).leg # "FAILURE" /\ ~CallerAgent(c).freed
    /\ CalleeAgent(c) # NoAgent => CalleeAgent(c).leg # "FAILURE"
    /\ IsUp(CallerAgent(c)) => CallerAgent(c).ctl = "IN_CALL" /\ IsUp(CalleeAgent(c))
    /\ IsUp(CalleeAgent(c)) => CalleeAgent(c).ctl = "IN_CALL"

\* A call somebody has hung up: it does not come up any more.
Done(c) ==
    \/ CallerAgent(c) = NoAgent
    \/ CallerAgent(c).freed
    \/ /\ CalleeAgent(c) = NoAgent
       /\ \A m \in net : m.call = c /\ m.method = "INVITE" => m.code \notin {0, 302, 401}

IsBye(m, c) == m.call = c /\ m.method = "BYE"

\* A call both sides were in: if one has left, its BYE is on its way, unless it
\* sent none, or one that may be refused.
Joined(c) ==
    /\ \A m \in net : m.call = c => ~IsPending(m, c) /\ m.method # "CANCEL"
    /\ \A m \in net : IsBye(m, c) => agent[m.from][c] = NoAgent
    /\ CallerAgent(c) # NoAgent => CallerAgent(c).ctl = "IN_CALL"
    /\ CalleeAgent(c) # NoAgent => CalleeAgent(c).ctl = "IN_CALL"
    /\ c \notin silent \cup behind =>
          /\ CallerAgent(c) = NoAgent /\ CalleeAgent(c) # NoAgent =>
                \E m \in net : IsBye(m, c) /\ m.from = Caller[c]
          /\ CalleeAgent(c) = NoAgent /\ CallerAgent(c) # NoAgent =>
                \E m \in net : IsBye(m, c) /\ m.from = Callee[c]

CallInv(c) ==
    Regular(c) =>
        /\ c \notin quit => Calm(c)
        /\ c \in quit => c \in placed /\ Done(c)
        /\ c \in joined => c \in placed /\ Joined(c)
        /\ c \in joined /\ c \notin quit => IsUp(CallerAgent(c))

\* A telephone has one call at a time, a server never loses a session it needs:
\* what ends the process of a user agent concerns no other call.
OneCallInv ==
    \A u \in Ua \ ServerUa, c, d \in Call :
        agent[u][c] # NoAgent /\ agent[u][d] # NoAgent => c = d
ServerUaInv ==
    \A u \in ServerUa, c \in Call :
        agent[u][c] # NoAgent => agent[u][c].own /\ ~agent[u][c].freed

JInv == IInv /\ OneCallInv /\ ServerUaInv /\ \A c \in Call : CallInv(c)
(***************************************************************************)
(* What events make of an agent.                                           *)
(***************************************************************************)

\* A message does not give an agent a session or take it away, unless it ends
\* the call.
Keeps(s, t) == t \in Step /\ (t.active => (t.freed <=> s.freed) /\ (t.own <=> s.own))

\* Failing a call tears it down; it sends nothing if it is not up.
LEMMA FailedGone ==
    ASSUME NEW s \in Step, s.active
    PROVE  /\ CallFailed(s) \in Step /\ ~CallFailed(s).active
           /\ DoCancel(s) \in Step /\ ~DoCancel(s).active
           /\ s.ctl \notin Up => CallFailed(s).out = s.out /\ DoCancel(s).out = s.out
<1>1. ASSUME NEW r \in Step, r.active
      PROVE  /\ CallFailed(r) \in Step /\ ~CallFailed(r).active
             /\ r.ctl \notin Up => CallFailed(r).out = r.out
  <2>1. CASE r.ctl \in Up
    <3>1. CallFailed(r) = DoBye(r)
      BY <1>1, <2>1 DEF CallFailed, End, Up
    <3> QED BY <1>1, <2>1, <3>1, DoByeFields DEF Finished, Ended
  <2>2. CASE r.ctl \notin Up
    <3>1. CallFailed(r) = TearDown(r)
      BY <2>2 DEF CallFailed, Up
    <3> QED BY <3>1, TearDownFields
  <2> QED BY <2>1, <2>2
<1>2. LET f == FreeMedia(s)
      IN  f \in Step /\ f.active /\ f.ctl = s.ctl /\ f.out = s.out
  BY FreeMediaFields DEF Core
<1>3. DoCancel(s) = CallFailed(FreeMedia(s))
  BY DEF DoCancel
<1> QED BY <1>1, <1>2, <1>3

LEMMA ControlStatusKeeps ==
    ASSUME NEW s \in Step, s.active, NEW m \in Msg, m.method \in {"INVITE", "CANCEL"}
    PROVE  Keeps(s, ControlStatus(s, m))
<1> DEFINE t == ControlStatus(s, m)
<1>1. "UAC_RINGING" \in ControlStates /\ "IN_CALL" \in ControlStates
  BY DEF ControlStates
<1>2. \/ t = [s EXCEPT !.ctl = "UAC_RINGING"] \/ t = [s EXCEPT !.ctl = "IN_CALL"]
      \/ t = InviteAgain(s) \/ t = DoAuthentication(s) \/ t = DoCancel(s) \/ t = CallFailed(s) \/ t = s
  BY ControlStatusFields
<1>0. SUFFICES Keeps(s, t)
  OBVIOUS
<1> HIDE DEF t
<1>3. CASE t = [s EXCEPT !.ctl = "UAC_RINGING"] \/ t = [s EXCEPT !.ctl = "IN_CALL"]
  <2>1. \A x \in ControlStates : Keeps(s, [s EXCEPT !.ctl = x])
    BY CtlFields DEF Keeps
  <2> QED BY <1>1, <1>3, <2>1
<1>4. CASE t = InviteAgain(s) \/ t = DoAuthentication(s)
  BY <1>4, InviteAgainFields, DoAuthenticationFields DEF Keeps, Like
<1>5. CASE t = DoCancel(s) \/ t = CallFailed(s)
  BY <1>5, FailedGone DEF Keeps
<1> QED BY <1>2, <1>3, <1>4, <1>5 DEF Keeps

LEMMA AckStatusKeeps ==
    ASSUME NEW s \in Step, NEW m \in Msg
    PROVE  LET t == AckStatus(s, m)
           IN  /\ t \in Step /\ (t.freed <=> s.freed) /\ (t.own <=> s.own) /\ (t.active <=> s.active)
               /\ t.leg = s.leg /\ t.ctl = s.ctl
BY AckStatusFields DEF Like

LEMMA ReceivedStatusKeeps ==
    ASSUME NEW s \in Step, s.active, NEW m \in Msg, m.method \in {"INVITE", "CANCEL"}
    PROVE  Keeps(s, ReceivedStatus(s, m))
<1> DEFINE k == ControlStatus(s, m)
<1>1. Keeps(s, k)
  BY ControlStatusKeeps
<1>2. ReceivedStatus(s, m) \in {k, AckStatus(k, m)}
  BY DEF ReceivedStatus
<1> HIDE DEF k
<1>3. Keeps(s, AckStatus(k, m))
  BY <1>1, AckStatusKeeps DEF Keeps
<1> QED BY <1>1, <1>2, <1>3

LEMMA RecvStatusKeeps ==
    ASSUME NEW s \in Step, s.active, NEW m \in Msg, m.method \in {"INVITE", "CANCEL"}
    PROVE  Keeps(s, RecvStatus(s, m))
<1>0. /\ s.leg \in LegState /\ "INCALL" \in LegState /\ "REDIRECT" \in LegState /\ "RINGING" \in LegState
      /\ "IN_HOLD" \in ControlStates
  BY DEF Step, LegState, ControlStates
<1>1. \A r : Keeps(s, r) => /\ \A x \in LegState : Keeps(s, [r EXCEPT !.leg = x])
                            /\ \A x \in ControlStates : Keeps(s, [r EXCEPT !.ctl = x])
  BY LegFields, CtlFields DEF Keeps
<1>2. \A r \in Step : r.active /\ Keeps(s, r) => Keeps(s, ReceivedStatus(r, m))
  BY ReceivedStatusKeeps DEF Keeps
<1>3. /\ Keeps(s, s) /\ Keeps(s, AckStatus(s, m)) /\ AckStatus(s, m) \in Step /\ AckStatus(s, m).active
      /\ Keeps(s, Synced(s, m)) /\ Synced(s, m) \in Step /\ Synced(s, m).active
  BY AckStatusKeeps, SyncedFields DEF Keeps, Like
<1>4. CASE s.leg \in {"C_TRYING", "REDIRECT", "RINGING"}
  <2> DEFINE p == [AckStatus(s, m) EXCEPT !.leg = "REDIRECT"]
             q == [s EXCEPT !.leg = "RINGING"]
             t == StatusInSetUp(s, m)
  <2>1. p \in Step /\ p.active /\ Keeps(s, p) /\ q \in Step /\ q.active /\ Keeps(s, q)
    BY <1>0, <1>1, <1>3, LegFields
  <2>2. \/ t = [ReceivedStatus(s, m) EXCEPT !.leg = "INCALL"]
        \/ t = [ReceivedStatus(Synced(s, m), m) EXCEPT !.leg = "INCALL"]
        \/ t = ReceivedStatus(p, m) \/ t = ReceivedStatus(q, m)
        \/ t = ReceivedStatus(s, m) \/ t = ReceivedStatus(AckStatus(s, m), m) \/ t = s
    BY DEF StatusInSetUp
  <2>3. RecvStatus(s, m) = t
    BY <1>4 DEF RecvStatus
  <2> HIDE DEF p, q, t
  <2> QED BY <1>0, <1>1, <1>2, <1>3, <2>1, <2>2, <2>3
<1>5. CASE s.leg = "FAILURE"
  <2> DEFINE r == IF m.code = 487 THEN AckStatus(s, m) ELSE s
             k == ReceivedStatus(r, m)
  <2>1. r \in Step /\ r.active /\ Keeps(s, r)
    BY <1>3
  <2>2. Keeps(s, k)
    BY <1>2, <2>1
  <2>3. \/ RecvStatus(s, m) = s
        \/ k.active /\ RecvStatus(s, m) = CallFailed(k)
        \/ ~k.active /\ RecvStatus(s, m) = k
    BY <1>5 DEF RecvStatus, StatusInFailure
  <2> HIDE DEF k
  <2>4. k.active => Keeps(s, CallFailed(k))
    BY <2>2, FailedGone DEF Keeps
  <2> QED BY <1>3, <2>2, <2>3, <2>4
<1>6. CASE s.leg = "INCALL"
  <2>1. RecvStatus(s, m) \in {ReceivedStatus(Synced(s, m), m), ReceivedStatus(AckStatus(s, m), m)}
    BY <1>6 DEF RecvStatus, StatusInCall
  <2> QED BY <1>2, <1>3, <2>1
<1>7. CASE s.leg = "HOLD"
  <2>1. RecvStatus(s, m) \in {[AckStatus(s, m) EXCEPT !.ctl = "IN_HOLD"],
                              ReceivedStatus(s, m), ReceivedStatus(AckStatus(s, m), m)}
    BY <1>7 DEF RecvStatus, StatusInHold
  <2> QED BY <1>0, <1>1, <1>2, <1>3, <2>1
<1> QED BY <1>0, <1>4, <1>5, <1>6, <1>7 DEF LegState

LEMMA RecvRequestKeeps ==
    ASSUME NEW s \in Step, s.active, AgentOK(s), NEW m \in Msg, m.code = 0
    PROVE  Keeps(s, RecvRequest(s, m))
<1> DEFINE t == RecvRequest(s, m)
<1>0. SUFFICES Keeps(s, t)
  OBVIOUS
<1>c. /\ "FAILURE" \in LegState /\ "IN_CALL" \in ControlStates /\ m.cseq \in Nat /\ m.method \in Method
      /\ {"CANCEL", "INVITE"} \subseteq Method /\ {100, 200, 487} \subseteq Codes /\ OtherLeg(s.leg) \in LegState
  BY DEF LegState, ControlStates, Msg, Method, Codes, OtherLeg
<1>1. ASSUME NEW x \in {"CANCEL", "INVITE"}, NEW y \in {"CANCEL", "INVITE"}, NEW i \in {100, 200}, NEW j \in {200, 487}
      PROVE  LET r == Send(Send(s, x, i, m.cseq), y, j, m.cseq)
             IN  /\ r \in Step /\ r.active /\ (r.freed <=> s.freed) /\ (r.own <=> s.own)
                 /\ r.ctl = s.ctl /\ r.leg = s.leg
  <2>1. Send(s, x, i, m.cseq) \in Step /\ Like(s, Send(s, x, i, m.cseq))
    BY <1>c, SendLike
  <2> HIDE DEF Send
  <2> QED BY <1>c, <2>1, SendLike DEF Like
<1>r. \A k \in Step, n \in Nat, y \in LegState :
          Keeps(k, [k EXCEPT !.request = n, !.ctl = "IN_CALL", !.leg = y])
  BY DEF Step, ControlStates, Keeps
<1>2. CASE s.leg = "RINGING"
  <2> DEFINE r == Send(Send(s, "CANCEL", 200, m.cseq), "INVITE", 487, m.cseq)
  <2>1. t \in {[r EXCEPT !.leg = "FAILURE"], DoCancel(s), [s EXCEPT !.leg = "FAILURE"], s}
    BY <1>2 DEF RecvRequest, RequestInRinging
  <2>2. r \in Step /\ (r.freed <=> s.freed) /\ (r.own <=> s.own)
    BY <1>1
  <2> HIDE DEF r, t
  <2>3. \A k \in Step : (k.freed <=> s.freed) /\ (k.own <=> s.own) => Keeps(s, [k EXCEPT !.leg = "FAILURE"])
    BY <1>c, LegFields DEF Keeps
  <2>4. Keeps(s, DoCancel(s)) /\ Keeps(s, s)
    BY FailedGone DEF Keeps
  <2> QED BY <2>1, <2>2, <2>3, <2>4
<1>3. CASE s.leg = "FAILURE"
  <2>1. t \in {CallFailed(s), s}
    BY <1>3 DEF RecvRequest, RequestInFailure
  <2> HIDE DEF t
  <2> QED BY <2>1, FailedGone DEF Keeps
<1>4. CASE s.leg \in {"INCALL", "HOLD"}
  <2> DEFINE r == Send(Send(s, "CANCEL", 200, m.cseq), "CANCEL", 487, m.cseq)
             q == Send(Send(s, "INVITE", 100, m.cseq), "INVITE", 200, m.cseq)
             x == OtherLeg(s.leg)
             n == m.cseq
             v == [q EXCEPT !.request = n, !.ctl = "IN_CALL", !.leg = x]
             w == [s EXCEPT !.acked = TRUE]
  <2>1. t \in {w, EndCall(s), EndCall(r), v}
    BY <1>4, <1>c DEF RecvRequest, RequestInCall, Method
  <2>2. r \in Step /\ r.active /\ r.ctl = s.ctl /\ q \in Step /\ (q.freed <=> s.freed) /\ (q.own <=> s.own)
    BY <1>1
  <2> HIDE DEF r, q, t
  <2>x. x \in LegState /\ q \in Step /\ n \in Nat
    BY <1>c, <2>2
  <2> HIDE DEF x, n
  <2>y. Keeps(q, v)
    BY <1>r, <2>x, Zenon
  <2>3. Keeps(s, v)
    BY <2>2, <2>y DEF Keeps
  <2>4. w \in Step /\ (w.freed <=> s.freed) /\ (w.own <=> s.own)
    BY DEF Step
  <2>5. s.ctl \in {"UAS_RINGING"} \cup Up
    BY <1>4 DEF AgentOK, ClientOK, ServerOK, SetUp, Step
  <2>6. ASSUME NEW k \in Step, k.active, k.ctl = s.ctl  PROVE EndCall(k) \in Step /\ ~EndCall(k).active
    <3> DEFINE f == FreeMedia(k)
    <3>1. f \in Step /\ f.active /\ f.ctl = s.ctl
      BY <2>6, FreeMediaFields DEF Core
    <3>2. CASE s.ctl \in Up
      <4>1. EndCall(k) = TearDown(f)
        BY <2>6, <3>2 DEF EndCall, Up
      <4> QED BY <3>1, <4>1, TearDownFields
    <3>3. CASE s.ctl = "UAS_RINGING"
      <4> DEFINE g == IF f.leg = "RINGING" THEN Send(f, "INVITE", 486, f.request) ELSE f
      <4>1. EndCall(k) = TearDown(g)
        BY <2>6, <3>1, <3>3 DEF EndCall, End, EndIncoming
      <4>2. f.request \in Nat /\ "INVITE" \in Method /\ 486 \in Codes
        BY <3>1 DEF Step, Method, Codes
      <4> HIDE DEF f
      <4>3. g \in Step
        BY <3>1, <4>2, SendFields
      <4> HIDE DEF g
      <4> QED BY <4>1, <4>3, TearDownFields
    <3> QED BY <2>5, <3>2, <3>3
  <2> QED BY <2>1, <2>2, <2>3, <2>4, <2>6 DEF Keeps
<1>5. CASE s.leg \notin {"RINGING", "FAILURE", "INCALL", "HOLD"}
  <2>1. t = s
    BY <1>5 DEF RecvRequest
  <2> QED BY <2>1 DEF Keeps
<1> QED BY <1>2, <1>3, <1>4, <1>5

\* An ACK or a BYE is not answered; the one leaves the call as it is, the other
\* ends a call that is up.
LEMMA AckByeFields ==
    ASSUME NEW s \in Step, s.active, s.out = {}, AgentOK(s),
           NEW m \in Msg, m.code = 0, m.method \in {"ACK", "BYE"}
    PROVE  LET t == RecvRequest(s, m)
           IN  /\ t \in Step /\ t.out = {}
               /\ m.method = "ACK" /\ s.leg # "FAILURE" =>
                     /\ t.active /\ t.leg = s.leg /\ t.ctl = s.ctl /\ (t.freed <=> s.freed)
                     /\ t.cseq = s.cseq /\ t.request = s.request
               /\ m.method = "BYE" /\ s.ctl \in Up => ~t.active
<1> DEFINE t == RecvRequest(s, m)
<1>0. /\ s.ctl \in {"UAS_RINGING"} \cup SetUp \cup Up
      /\ s.ctl \in Up => s.leg \in {"INCALL", "HOLD"}
      /\ s.leg \in {"RINGING", "FAILURE"} => s.ctl \notin Up
      /\ s.leg \in {"INCALL", "HOLD"} => s.ctl \in Up \cup {"UAS_RINGING"}
  BY DEF AgentOK, ClientOK, ServerOK, SetUp, Up, Step
<1>1. CASE s.leg = "RINGING"
  <2>1. /\ t \in {DoCancel(s), [s EXCEPT !.leg = "FAILURE"], s}
        /\ m.method = "ACK" => t = s
    BY <1>1 DEF RecvRequest, RequestInRinging
  <2>2. LET r == [s EXCEPT !.leg = "FAILURE"] IN r \in Step /\ r.out = s.out
    BY DEF Step, LegState
  <2> QED BY <1>0, <1>1, <2>1, <2>2, FailedGone
<1>2. CASE s.leg = "FAILURE"
  <2>1. t \in {CallFailed(s), s}
    BY <1>2 DEF RecvRequest, RequestInFailure
  <2> QED BY <1>0, <1>2, <2>1, FailedGone
<1>3. CASE s.leg \in {"INCALL", "HOLD"} /\ m.method = "ACK"
  <2>1. t = [s EXCEPT !.acked = TRUE]
    BY <1>3 DEF RecvRequest, RequestInCall
  <2> QED BY <1>3, <2>1 DEF Step
<1>4. CASE s.leg \in {"INCALL", "HOLD"} /\ m.method = "BYE"
  <2> DEFINE f == FreeMedia(s)
  <2>1. t = EndCall(s)
    BY <1>4 DEF RecvRequest, RequestInCall
  <2>2. f \in Step /\ f.active /\ f.ctl = s.ctl /\ f.out = {} /\ f.leg = s.leg
    BY FreeMediaFields DEF Core
  <2>3. t = TearDown(f)
    <3>1. CASE s.ctl \in Up
      BY <2>1, <3>1 DEF EndCall, Up
    <3>2. CASE s.ctl = "UAS_RINGING"
      BY <1>4, <2>1, <2>2, <3>2 DEF EndCall, End, EndIncoming
    <3> QED BY <1>0, <1>4, <3>1, <3>2
  <2> HIDE DEF f
  <2> QED BY <1>4, <2>2, <2>3, TearDownFields
<1>5. CASE s.leg \notin {"RINGING", "FAILURE", "INCALL", "HOLD"}
  <2>1. t = s
    BY <1>5 DEF RecvRequest
  <2> QED BY <1>0, <1>5, <2>1
<1> QED BY <1>1, <1>2, <1>3, <1>4, <1>5

\* What a status makes of a caller's agent that waits for it.
LEMMA SetUpStatusFields ==
    ASSUME NEW s \in Step, s.active, s.out = {}, AgentOK(s), s.role = "client",
           s.leg \in {"C_TRYING", "REDIRECT", "RINGING"},
           NEW m \in Msg, m.code > 0, m.method = "INVITE"
    PROVE  LET t == RecvStatus(s, m)
           IN  /\ t \in Step
               /\ \A o \in t.out : \/ o.method = "ACK" /\ o.code = 0
                                   \/ o.method = "INVITE" /\ o.code = 0 /\ m.code \in {302, 401}
               /\ \A o, k \in t.out : o.method = "INVITE" /\ k.method = "INVITE" => o = k
               /\ t.active => t.leg # "FAILURE"
               /\ m.code = 200 => t.active /\ t.ctl = "IN_CALL"
               /\ m.code # 200 => t.ctl \in SetUp
<1> DEFINE t == RecvStatus(s, m)
<1>0. /\ s.ctl \in SetUp /\ s.ctl \notin Up
      /\ s.leg = "C_TRYING" => s.ctl = "TRYING"
      /\ s.leg = "REDIRECT" => s.ctl = "TRYING"
      /\ s.leg = "RINGING" => s.ctl = "UAC_RINGING"
  BY DEF AgentOK, ClientOK, SetUp, Up, Step
<1>c. /\ m.code \in Codes /\ m.code \in Nat /\ m.method \in {"INVITE", "CANCEL"}
      /\ {"INCALL", "REDIRECT", "RINGING"} \subseteq LegState
      /\ {"IN_CALL", "UAC_RINGING"} \subseteq ControlStates
  BY DEF Msg, Codes, LegState, ControlStates
<1>t. t = StatusInSetUp(s, m)
  BY DEF RecvStatus
\* The INVITE again, of an agent that has sent nothing yet.
<1>a. ASSUME NEW r \in Step, r.out = {}
      PROVE  LET v == InviteAgain(r)
             IN  /\ v \in Step /\ Like(r, v)
                 /\ \A o \in v.out : o.method = "INVITE" /\ o.code = 0
                 /\ \A o, k \in v.out : o = k
  <2> DEFINE q == Send(r, "INVITE", 0, r.cseq + 1)
             v == [q EXCEPT !.cseq = r.cseq + 1, !.request = r.cseq + 1]
  <2>1. InviteAgain(r) = v
    BY DEF InviteAgain
  <2>2. r.cseq + 1 \in Nat /\ "INVITE" \in Method /\ 0 \in Codes
    BY DEF Step, Method, Codes
  <2>3. q \in Step /\ q.out = {[method |-> "INVITE", code |-> 0, cseq |-> r.cseq + 1]}
    BY <1>a, <2>2, SendFields
  <2>4. v.out = q.out
    BY <2>3 DEF Step
  <2> HIDE DEF q, v
  <2>5. v \in Step /\ Like(r, v) /\ \A o \in v.out : o.method = "INVITE" /\ o.code = 0
    BY <1>a, <2>1, InviteAgainFields
  <2> QED BY <2>1, <2>3, <2>4, <2>5
<1>b. ASSUME NEW r \in Step, r.out = {}
      PROVE  LET v == DoAuthentication(r)
             IN  /\ v \in Step /\ Like(r, v)
                 /\ \A o \in v.out : o.method = "INVITE" /\ o.code = 0
                 /\ \A o, k \in v.out : o = k
  <2> DEFINE n == r.request + 1
             q == IF r.leg = "C_TRYING" THEN Send(r, "INVITE", 0, n) ELSE r
             v == [q EXCEPT !.request = n]
  <2>1. DoAuthentication(r) = v
    BY DEF DoAuthentication
  <2>2. n \in Nat /\ "INVITE" \in Method /\ 0 \in Codes
    BY DEF Step, Method, Codes
  <2> HIDE DEF n
  <2>3. q \in Step /\ q.out \in {{}, {[method |-> "INVITE", code |-> 0, cseq |-> n]}}
    BY <1>b, <2>2, SendFields
  <2> HIDE DEF q
  <2>4. v.out = q.out
    BY <2>3 DEF Step
  <2> HIDE DEF v
  <2>5. v \in Step /\ Like(r, v) /\ \A o \in v.out : o.method = "INVITE" /\ o.code = 0
    BY <1>b, <2>1, DoAuthenticationFields
  <2> QED BY <2>1, <2>3, <2>4, <2>5
<1>1. CASE m.code = 200
  <2> DEFINE y == IF s.leg = "RINGING" THEN Synced(s, m) ELSE s
             k == [y EXCEPT !.ctl = "IN_CALL"]
             a == AckStatus(k, m)
  <2>y. y \in Step /\ y.active /\ y.ctl = s.ctl /\ y.out = {}
    BY SyncedFields DEF Like
  <2>t. t = [ReceivedStatus(y, m) EXCEPT !.leg = "INCALL"]
    BY <1>1, <1>t DEF StatusInSetUp
  <2> HIDE DEF y
  <2>1. ControlStatus(y, m) = k
    BY <1>0, <1>1, <2>y DEF ControlStatus, SetUp
  <2>2. t = [a EXCEPT !.leg = "INCALL"]
    BY <1>1, <2>t, <2>1 DEF ReceivedStatus
  <2>3. k \in Step /\ k.ctl = "IN_CALL" /\ k.active /\ k.out = {}
    BY <1>c, <2>y, CtlFields
  <2> HIDE DEF k
  <2>4. a \in Step /\ a.ctl = "IN_CALL" /\ a.active /\ \A o \in a.out : o.method = "ACK" /\ o.code = 0
    BY <2>3, AckStatusFields DEF Like
  <2> HIDE DEF a, t
  <2>5. t \in Step /\ t.leg = "INCALL" /\ t.ctl = "IN_CALL" /\ t.active /\ t.out = a.out
    BY <1>c, <2>2, <2>4, LegFields
  <2>6. /\ t.leg # "FAILURE" /\ \A o \in t.out : o.method = "ACK" /\ o.code = 0
    BY <2>4, <2>5
  <2> QED BY <1>1, <2>5, <2>6 DEF t
<1>2. CASE m.code = 302 /\ s.leg = "C_TRYING"
  <2> DEFINE r == [s EXCEPT !.leg = "REDIRECT"]
  <2>1. r \in Step /\ r.leg = "REDIRECT" /\ r.ctl = s.ctl /\ r.out = {} /\ r.active
    BY <1>c, LegFields
  <2>2. AckStatus(s, m) = s
    BY <1>2 DEF AckStatus
  <2>3. t = InviteAgain(r)
    BY <1>0, <1>2, <1>t, <2>1, <2>2 DEF StatusInSetUp, ReceivedStatus, ControlStatus
  <2> HIDE DEF r, t
  <2>4. /\ t \in Step /\ Like(r, t) /\ \A o \in t.out : o.method = "INVITE" /\ o.code = 0
        /\ \A o, k \in t.out : o = k
    BY <1>a, <2>1, <2>3
  <2> QED BY <1>0, <1>2, <2>1, <2>4 DEF Like, t
<1>3. CASE m.code > 200 /\ ~(m.code = 302 /\ s.leg = "C_TRYING")
  <2> DEFINE r == IF m.code = 408 THEN s ELSE AckStatus(s, m)
  <2>1. t = ControlStatus(r, m)
    BY <1>3, <1>c, <1>t DEF StatusInSetUp, ReceivedStatus
  <2>2. /\ r \in Step /\ Like(s, r)
        /\ \A o \in r.out : o.method = "ACK" /\ o.code = 0 /\ m.code \notin {401, 302}
    BY AckStatusFields DEF Like
  <2> HIDE DEF r
  <2>3. r.active /\ r.ctl = s.ctl /\ r.leg = s.leg /\ r.ctl \in SetUp /\ r.ctl \notin Up /\ r.ctl # "IN_HOLD"
    BY <1>0, <2>2 DEF Like, SetUp, Up
  <2>4. \/ m.code \in {302, 401} /\ (t = InviteAgain(r) \/ t = DoAuthentication(r))
        \/ t = DoCancel(r)
    <3>1. m.code # 180 /\ m.code # 200 /\ m.code >= 200
      BY <1>3, <1>c
    <3> QED BY <1>c, <2>1, <2>2, <2>3, <3>1, ControlStatusFields
  <2> HIDE DEF t
  <2>5. CASE m.code \in {302, 401} /\ (t = InviteAgain(r) \/ t = DoAuthentication(r))
    <3>1. r.out = {}
      BY <2>2, <2>5
    <3>2. /\ t \in Step /\ Like(r, t) /\ \A o \in t.out : o.method = "INVITE" /\ o.code = 0
          /\ \A o, k \in t.out : o = k
      BY <1>a, <1>b, <2>2, <2>5, <3>1
    <3> QED BY <1>3, <1>c, <2>3, <2>5, <3>2 DEF Like, t
  <2>6. CASE t = DoCancel(r)
    <3>1. t \in Step /\ ~t.active /\ t.out = r.out
      BY <2>2, <2>3, <2>6, FailedGone
    <3>2. t.ctl = r.ctl
      <4>1. FreeMedia(r) \in Step /\ FreeMedia(r).ctl = r.ctl
        BY <2>2, FreeMediaFields DEF Core
      <4>2. t = TearDown(FreeMedia(r))
        BY <2>3, <2>6, <4>1 DEF DoCancel, CallFailed, Up
      <4> QED BY <4>1, <4>2, TearDownFields DEF Core
    <3> QED BY <1>3, <1>c, <2>2, <2>3, <3>1, <3>2 DEF t
  <2> QED BY <2>4, <2>5, <2>6
<1>4. CASE m.code = 180 /\ s.leg # "RINGING"
  <2> DEFINE r == [s EXCEPT !.leg = "RINGING"]
  <2>1. r \in Step /\ r.leg = "RINGING" /\ r.ctl = s.ctl /\ r.out = {} /\ r.active
    BY <1>c, LegFields
  <2>2. t = [r EXCEPT !.ctl = "UAC_RINGING"]
    BY <1>0, <1>4, <1>t, <2>1 DEF StatusInSetUp, ReceivedStatus, ControlStatus
  <2> HIDE DEF r, t
  <2>3. t \in Step /\ t.leg = "RINGING" /\ t.ctl = "UAC_RINGING" /\ t.out = {}
    BY <1>c, <2>1, <2>2, CtlFields
  <2> QED BY <1>4, <2>3 DEF SetUp, t
<1>5. CASE m.code < 200 /\ ~(m.code = 180 /\ s.leg # "RINGING")
  <2>1. t = s
    BY <1>5, <1>c, <1>t DEF StatusInSetUp
  <2> QED BY <1>0, <1>5, <2>1
<1> QED BY <1>c, <1>1, <1>2, <1>3, <1>4, <1>5

\* ... and of one that is in call.
LEMMA UpStatusFields ==
    ASSUME NEW s \in Step, s.active, s.out = {}, AgentOK(s), s.role = "client", s.ctl \in Up,
           NEW m \in Msg, m.code > 0, m.method = "INVITE"
    PROVE  LET t == RecvStatus(s, m)
           IN  /\ t \in Step
               /\ \A o \in t.out : o.method # "INVITE"
               /\ s.ctl = "IN_CALL" /\ m.code < 200 => t = s
<1> DEFINE t == RecvStatus(s, m)
<1>0. s.leg \in {"INCALL", "HOLD"}
  BY DEF AgentOK, ClientOK
<1>c. "IN_HOLD" \in ControlStates /\ "IN_CALL" \in ControlStates /\ m.code \in Nat
  BY DEF ControlStates, Msg
<1>1. ASSUME NEW r \in Step, Like(s, r), \A o \in r.out : o.method = "ACK"
      PROVE  ReceivedStatus(r, m) \in Step /\ \A o \in ReceivedStatus(r, m).out : o.method # "INVITE"
  <2> DEFINE k == ControlStatus(r, m)
  <2>0. r.active /\ r.ctl \in Up /\ r.role = "client"
    BY <1>1 DEF Like
  <2>1. k = r \/ k = [r EXCEPT !.ctl = "IN_CALL"] \/ k = CallFailed(r)
    <3>1. r.ctl \notin SetUp /\ r.ctl # "TRYING"
      BY <2>0 DEF SetUp, Up
    <3> QED BY <2>0, <3>1, ControlStatusFields
  <2>2. ReceivedStatus(r, m) \in {k, AckStatus(k, m)}
    BY DEF ReceivedStatus
  <2> HIDE DEF k
  <2>3. k \in Step /\ \A o \in k.out : o.method # "INVITE"
    <3>1. CASE k = r
      BY <1>1, <3>1
    <3>2. CASE k = [r EXCEPT !.ctl = "IN_CALL"]
      BY <1>1, <1>c, <3>2, CtlFields
    <3>3. CASE k = CallFailed(r)
      <4>1. k = DoBye(r)
        BY <2>0, <3>3 DEF CallFailed, End, Up
      <4>2. Finished(r, k)
        BY <2>0, <4>1, DoByeFields
      <4> QED BY <1>1, <2>0, <4>2 DEF Finished, Ended, EndMsg, Core
    <3> QED BY <2>1, <3>1, <3>2, <3>3
  <2>4. AckStatus(k, m) \in Step /\ \A o \in AckStatus(k, m).out : o.method # "INVITE"
    BY <2>3, AckStatusFields
  <2> QED BY <2>2, <2>3, <2>4
<1> DEFINE a == AckStatus(s, m)
           y == Synced(s, m)
<1>2. /\ a \in Step /\ Like(s, a) /\ (\A o \in a.out : o.method = "ACK") /\ Like(s, s)
      /\ y \in Step /\ Like(s, y) /\ y.out = {}
  BY AckStatusFields, SyncedFields DEF Like
<1>3. t \in {[a EXCEPT !.ctl = "IN_HOLD"], ReceivedStatus(a, m), ReceivedStatus(s, m), ReceivedStatus(y, m)}
  BY <1>0 DEF RecvStatus, StatusInCall, StatusInHold
<1>4. s.ctl = "IN_CALL" /\ m.code < 200 => t = s
  <2>1. SUFFICES ASSUME s.ctl = "IN_CALL", m.code < 200  PROVE t = s
    OBVIOUS
  <2>2. ControlStatus(s, m) = s /\ Synced(s, m) = s
    BY <2>1 DEF ControlStatus, Synced
  <2>3. ReceivedStatus(s, m) = s
    BY <1>c, <2>1, <2>2 DEF ReceivedStatus
  <2> QED BY <1>0, <1>c, <2>1, <2>2, <2>3 DEF RecvStatus, StatusInCall, StatusInHold
<1> HIDE DEF a, t, y
<1>5. LET k == [a EXCEPT !.ctl = "IN_HOLD"] IN k \in Step /\ k.out = a.out
  BY <1>2, <1>c, CtlFields
<1>6. t \in Step /\ \A o \in t.out : o.method # "INVITE"
  BY <1>1, <1>2, <1>3, <1>5
<1> QED BY <1>4, <1>6 DEF t

(***************************************************************************)
(* What a step makes of a call.                                            *)
(***************************************************************************)

\* The state after an event of call c at u, as far as calls are concerned.
View(u, c, in, s) ==
    /\ agent'[u][c] = IF s.active THEN Closed(s) ELSE NoAgent
    /\ \A v \in Ua, d \in Call : v # u \/ d # c => agent'[v][d] = agent[v][d]
    /\ \A m \in net' : \/ m \in net /\ m \notin in
                       \/ \E o \in s.out : m = Sent(u, c, o)
    /\ \A m \in net : m \notin in => m \in net'
    /\ \A o \in s.out : Sent(u, c, o) \in net'
    /\ joined \subseteq joined'
    /\ \A d \in joined' : d \in joined \/ (d = c /\ IsUp(agent'[u][c]) /\ IsUp(agent[Peer(c, u)][c]))
    /\ silent \subseteq silent' /\ silent' \subseteq silent \cup {c}
    /\ behind \subseteq behind' /\ behind' \subseteq behind \cup {c}
    /\ IsUp(agent[u][c]) /\ ~s.active /\ in = {} /\ s.role = "server" /\ ~s.acked => c \in silent'

LEMMA EventView ==
    ASSUME TypeOK, NEW u \in Ua, NEW c \in Call, NEW in \in SUBSET net, NEW s \in Step,
           Handled(u, c, in, s)
    PROVE  View(u, c, in, s)
<1> DEFINE a == IF s.active THEN Closed(s) ELSE NoAgent
<1>1. agent \in [Ua -> [Call -> Agent \cup {NoAgent}]]
  BY DEF TypeOK
<1>2. /\ agent' = [agent EXCEPT ![u][c] = a]
      /\ net' = (net \ in) \cup {Sent(u, c, o) : o \in s.out}
      /\ behind \subseteq behind' /\ behind' \subseteq behind \cup {c}
      /\ joined' = joined \cup (IF IsUp(a) /\ IsUp(agent[Peer(c, u)][c]) THEN {c} ELSE {})
      /\ silent' = silent \cup (IF /\ IsUp(agent[u][c]) /\ ~s.active /\ in = {}
                                   /\ s.role = "server" /\ ~s.acked
                                THEN {c} ELSE {})
  BY DEF Handled
<1> HIDE DEF a
<1>3. agent'[u][c] = a /\ \A v \in Ua, d \in Call : v # u \/ d # c => agent'[v][d] = agent[v][d]
  BY <1>1, <1>2
<1>4. /\ \A m \in net' : \/ m \in net /\ m \notin in
                         \/ \E o \in s.out : m = Sent(u, c, o)
      /\ \A m \in net : m \notin in => m \in net'
      /\ \A o \in s.out : Sent(u, c, o) \in net'
  BY <1>2
<1>5. /\ joined \subseteq joined'
      /\ \A d \in joined' : d \in joined \/ (d = c /\ IsUp(agent'[u][c]) /\ IsUp(agent[Peer(c, u)][c]))
  BY <1>2, <1>3
<1>6. /\ silent \subseteq silent' /\ silent' \subseteq silent \cup {c}
      /\ behind \subseteq behind' /\ behind' \subseteq behind \cup {c}
      /\ IsUp(agent[u][c]) /\ ~s.active /\ in = {} /\ s.role = "server" /\ ~s.acked => c \in silent'
  BY <1>2
<1> QED BY <1>3, <1>4, <1>5, <1>6 DEF a, View

\* A step that is not about call c.
Same(c) ==
    /\ CallerAgent(c)' = CallerAgent(c) /\ CalleeAgent(c)' = CalleeAgent(c)
    /\ \A m \in net : m.call = c => m \in net'
    /\ \A m \in net' : m.call = c => m \in net
    /\ Regular(c)' => Regular(c)
    /\ c \in placed => c \in placed'
    /\ (c \in quit' <=> c \in quit) /\ (c \in joined' <=> c \in joined)
    /\ (c \in silent' <=> c \in silent) /\ (c \in behind' <=> c \in behind)

LEMMA SameInv ==
    ASSUME IInv, NEW c \in Call, CallInv(c), Same(c)
    PROVE  CallInv(c)'
<1>1. SUFFICES ASSUME Regular(c)'
               PROVE  /\ c \notin quit' => Calm(c)'
                      /\ c \in quit' => c \in placed' /\ Done(c)'
                      /\ c \in joined' => c \in placed' /\ Joined(c)'
                      /\ c \in joined' /\ c \notin quit' => IsUp(CallerAgent(c))'
  BY DEF CallInv
<1>2. /\ Regular(c) /\ (CallerAgent(c))' = CallerAgent(c) /\ (CalleeAgent(c))' = CalleeAgent(c)
      /\ \A m \in net' : m.call = c => m \in net
      /\ \A m \in net : m.call = c => m \in net'
  BY <1>1 DEF Same
<1>3. Calm(c) => Calm(c)'
  BY <1>2 DEF Calm, IsPending, IsUp
<1>4. Done(c) => Done(c)'
  BY <1>2 DEF Done
<1>5. Joined(c) => Joined(c)'
  <2>1. \A m \in net : IsBye(m, c) => m.from \in {Caller[c], Callee[c]}
    BY DEF IInv, NetInv, MsgOK, IsBye
  <2>2. agent'[Caller[c]][c] = agent[Caller[c]][c] /\ agent'[Callee[c]][c] = agent[Callee[c]][c]
    BY <1>2 DEF CallerAgent, CalleeAgent
  <2>3. (c \in silent' <=> c \in silent) /\ (c \in behind' <=> c \in behind)
    BY DEF Same
  <2> QED BY <1>2, <2>1, <2>2, <2>3 DEF Joined, IsPending, IsBye
<1>6. IsUp(CallerAgent(c))' <=> IsUp(CallerAgent(c))
  BY <1>2 DEF IsUp
<1> QED BY <1>2, <1>3, <1>4, <1>5, <1>6 DEF CallInv, Same

\* A step about call c: what has to be shown of it.
Good(c) ==
    Regular(c)' =>
        /\ c \notin quit' => Calm(c)'
        /\ c \in quit' => c \in placed' /\ Done(c)'
        /\ c \in joined => c \in placed' /\ Joined(c)'
        /\ c \in joined /\ c \notin quit' => IsUp(CallerAgent(c))'

\* A call that comes up on both sides is one that nobody has hung up.
LEMMA GoodInv ==
    ASSUME IInv', NEW c \in Call, Good(c),
           c \in joined' => c \in joined \/ (IsUp(CallerAgent(c))' /\ IsUp(CalleeAgent(c))')
    PROVE  CallInv(c)'
<1>1. SUFFICES ASSUME Regular(c)', c \in joined', c \notin joined
               PROVE  c \notin quit' /\ c \in placed' /\ Joined(c)' /\ IsUp(CallerAgent(c))'
  BY DEF CallInv, Good
<1>2. IsUp(CallerAgent(c))' /\ IsUp(CalleeAgent(c))'
  BY <1>1
<1> DEFINE a == agent'[Caller[c]][c]
           b == agent'[Callee[c]][c]
<1>3. a # NoAgent /\ a.ctl \in Up /\ b # NoAgent /\ b.ctl \in Up
  BY <1>2 DEF IsUp, CallerAgent, CalleeAgent, Up
<1>4. Caller[c] \in Ua /\ Callee[c] \in Ua
  BY UaRolesAssumption
<1>5. a \in Agent /\ c \in placed' /\ AgentOK(a)
  <2>1. a \in Agent
    BY <1>3, <1>4 DEF IInv, TypeOK
  <2>2. c \in placed' /\ AgentOK(a)
    BY <1>3, <1>4 DEF IInv, AgentInv, AgentOK, ClientOK, ServerOK
  <2> QED BY <2>1, <2>2
<1>6. ~a.freed
  BY <1>3, <1>5 DEF Agent, AgentOK, ClientOK, ServerOK
<1>7. c \notin quit'
  BY <1>1, <1>3, <1>6 DEF Good, Done, CallerAgent, CalleeAgent
<1>8. Calm(c)'
  BY <1>1, <1>7 DEF Good
<1>9. Joined(c)'
  BY <1>2, <1>3, <1>8 DEF Joined, Calm, IsPending, IsBye, CallerAgent, CalleeAgent
<1> QED BY <1>2, <1>5, <1>7, <1>9

\* A step about call c leaves the other calls as they are.
About(c) ==
    /\ \A d \in Call : d # c => CallerAgent(d)' = CallerAgent(d) /\ CalleeAgent(d)' = CalleeAgent(d)
    /\ \A m \in net : m.call # c => m \in net'
    /\ \A m \in net' : m.call # c => m \in net
    /\ joined \subseteq joined' /\ joined' \subseteq joined \cup {c}
    /\ silent \subseteq silent' /\ silent' \subseteq silent \cup {c}
    /\ behind \subseteq behind' /\ behind' \subseteq behind \cup {c}

\* Counters and histories only grow, the hang ups by those of c.
Grows(c) ==
    /\ \A d \in Call : reInvites'[d] = 0 => reInvites[d] = 0
    /\ lost \subseteq lost' /\ failed \subseteq failed' /\ placed \subseteq placed'
    /\ quit \subseteq quit' /\ quit' \subseteq quit \cup {c}

\* A step about call c, after which both sides are in call, or were before.
Stepped(c) ==
    /\ About(c) /\ Grows(c)
    /\ c \in joined' => c \in joined \/ (IsUp(CallerAgent(c))' /\ IsUp(CalleeAgent(c))')

LEMMA GrowsRegular ==
    ASSUME NEW c, Grows(c), NEW d \in Call, Regular(d)'
    PROVE  Regular(d)
BY DEF Grows, Regular, Undisturbed, Lossless

LEMMA CallsInv ==
    ASSUME JInv, IInv', NEW c \in Call, About(c), Grows(c), Good(c),
           c \in joined' => c \in joined \/ (IsUp(CallerAgent(c))' /\ IsUp(CalleeAgent(c))')
    PROVE  \A d \in Call : CallInv(d)'
<1>1. CallInv(c)'
  BY GoodInv
<1>2. ASSUME NEW d \in Call, d # c  PROVE CallInv(d)'
  <2>1. Regular(d)' => Regular(d)
    BY GrowsRegular
  <2>2. Same(d)
    BY <1>2, <2>1 DEF Same, About, Grows
  <2> QED BY <2>2, SameInv DEF JInv
<1> QED BY <1>1, <1>2

\* A telephone that is not busy has no agent.
LEMMA IdleTelephone ==
    ASSUME IInv, NEW u \in Ua \ ServerUa, ~Busy(u), NEW c \in Call
    PROVE  agent[u][c] = NoAgent
<1>1. SUFFICES ASSUME agent[u][c] # NoAgent  PROVE FALSE
  OBVIOUS
<1>2. agent[u][c].id \in Number
  BY <1>1 DEF IInv, TypeOK, Agent
<1>3. callMap[u][agent[u][c].id] = c
  BY <1>1 DEF IInv, AgentPersisted
<1> QED BY <1>2, <1>3, UaNoCallAssumption DEF Busy

\* An event of call c at u.
LEMMA EventInv ==
    ASSUME JInv, IInv', NEW c \in Call, NEW u \in {Caller[c], Callee[c]},
           NEW in \in SUBSET net, \A n \in in : n.call = c, NEW s \in Step,
           Handled(u, c, in, s), Grows(c), Good(c),
           agent[u][c] = NoAgent => u \in ServerUa \/ ~Busy(u),
           s.active /\ u \in ServerUa => s.own /\ ~s.freed
    PROVE  JInv' /\ Stepped(c)
<1>0. /\ u \in Ua /\ Caller[c] \in Ua /\ Callee[c] \in Ua /\ Caller[c] # Callee[c] /\ TypeOK /\ IInv
      /\ OneCallInv /\ ServerUaInv
  BY UaRolesAssumption DEF JInv, IInv
<1>1. /\ agent'[u][c] = IF s.active THEN Closed(s) ELSE NoAgent
      /\ \A v \in Ua, d \in Call : v # u \/ d # c => agent'[v][d] = agent[v][d]
      /\ \A m \in net' : \/ m \in net /\ m \notin in
                         \/ \E o \in s.out : m = Sent(u, c, o)
      /\ \A m \in net : m \notin in => m \in net'
      /\ joined \subseteq joined'
      /\ \A d \in joined' : d \in joined \/ (/\ d = c /\ IsUp(agent'[u][c])
                                             /\ IsUp(agent[Peer(c, u)][c]))
      /\ silent \subseteq silent' /\ silent' \subseteq silent \cup {c}
      /\ behind \subseteq behind' /\ behind' \subseteq behind \cup {c}
  <2>1. View(u, c, in, s)
    BY <1>0, EventView
  <2> QED BY <2>1 DEF View
<1>2. \A m \in net' : m.call # c => m \in net
  <2>1. SUFFICES ASSUME NEW m \in net', m.call # c, m \notin net  PROVE FALSE
    OBVIOUS
  <2>2. ~\E o \in s.out : m = Sent(u, c, o)
    BY <2>1 DEF Sent
  <2> QED BY <1>1, <2>1, <2>2
<1>3. About(c)
  <2>1. \A d \in Call : d # c => CallerAgent(d)' = CallerAgent(d) /\ CalleeAgent(d)' = CalleeAgent(d)
    BY <1>1, UaRolesAssumption DEF CallerAgent, CalleeAgent
  <2> QED BY <1>1, <1>2, <2>1 DEF About
<1>4. c \in joined' => c \in joined \/ (IsUp(CallerAgent(c))' /\ IsUp(CalleeAgent(c))')
  <2>1. SUFFICES ASSUME IsUp(agent'[u][c]), IsUp(agent[Peer(c, u)][c])
                 PROVE  IsUp(agent'[Caller[c]][c]) /\ IsUp(agent'[Callee[c]][c])
    BY <1>1 DEF CallerAgent, CalleeAgent, IsUp
  <2>2. Peer(c, u) \in {Caller[c], Callee[c]} /\ Peer(c, u) # u
    BY <1>0 DEF Peer
  <2>3. agent'[Peer(c, u)][c] = agent[Peer(c, u)][c]
    BY <1>0, <1>1, <2>2
  <2> QED BY <2>1, <2>2, <2>3
<1>5. OneCallInv'
  <2>1. SUFFICES ASSUME NEW v \in Ua \ ServerUa, NEW d \in Call, NEW e \in Call,
                        agent'[v][d] # NoAgent, agent'[v][e] # NoAgent
                 PROVE  d = e
    BY DEF OneCallInv
  <2>2. CASE v # u \/ agent[u][c] # NoAgent
    <3>1. agent[v][d] # NoAgent /\ agent[v][e] # NoAgent
      BY <1>1, <2>1, <2>2
    <3> QED BY <1>0, <3>1 DEF OneCallInv
  <2>3. CASE v = u /\ agent[u][c] = NoAgent
    <3>1. \A x \in Call : agent[v][x] = NoAgent
      BY <1>0, <2>3, IdleTelephone
    <3> QED BY <1>1, <2>1, <2>3, <3>1
  <2> QED BY <2>2, <2>3
<1>6. ServerUaInv'
  <2>1. SUFFICES ASSUME NEW v \in ServerUa, NEW d \in Call, agent'[v][d] # NoAgent
                 PROVE  agent'[v][d].own /\ ~agent'[v][d].freed
    BY DEF ServerUaInv
  <2>2. CASE v = u /\ d = c
    BY <1>1, <2>1, <2>2, ClosedFields
  <2>3. CASE v # u \/ d # c
    <3>1. agent'[v][d] = agent[v][d]
      BY <1>1, <2>3, UaRolesAssumption
    <3> QED BY <1>0, <2>1, <3>1 DEF ServerUaInv
  <2> QED BY <2>2, <2>3
<1>7. \A d \in Call : CallInv(d)'
  BY <1>3, <1>4, CallsInv
<1> QED BY <1>3, <1>4, <1>5, <1>6, <1>7 DEF JInv, Stepped

\* A step of the network about call c.
LEMMA NetEventInv ==
    ASSUME JInv, IInv', NEW c \in Call, Grows(c), Good(c),
           UNCHANGED <<agent, joined, silent, behind>>,
           \A m \in net : m.call # c => m \in net',
           \A m \in net' : m.call # c => m \in net
    PROVE  JInv' /\ Stepped(c)
<1>1. About(c)
  BY DEF About, CallerAgent, CalleeAgent
<1>2. \A d \in Call : CallInv(d)'
  BY <1>1, CallsInv
<1>3. OneCallInv' /\ ServerUaInv'
  BY DEF JInv, OneCallInv, ServerUaInv
<1> QED BY <1>1, <1>2, <1>3 DEF JInv, Stepped

\* The process of telephone u ends at an event of call c, its only call.
LEMMA AbortEventInv ==
    ASSUME JInv, IInv', NEW c \in Call, Grows(c), Good(c),
           NEW u \in Ua \ ServerUa, agent[u][c] # NoAgent, NEW x, Abort(u, x),
           UNCHANGED <<joined, silent, behind>>,
           \A m \in net : m.call # c => m \in net',
           \A m \in net' : m.call # c => m \in net
    PROVE  JInv' /\ Stepped(c)
<1>0. TypeOK /\ OneCallInv /\ ServerUaInv
  BY DEF JInv, IInv
<1>1. /\ \A d \in Call : agent'[u][d] = NoAgent
      /\ \A v \in Ua, d \in Call : v # u => agent'[v][d] = agent[v][d]
  BY <1>0 DEF TypeOK, Abort
<1>2. \A v \in Ua, d \in Call : d # c => agent'[v][d] = agent[v][d]
  BY <1>0, <1>1 DEF OneCallInv
<1>3. About(c)
  BY <1>2, UaRolesAssumption DEF About, CallerAgent, CalleeAgent
<1>4. \A d \in Call : CallInv(d)'
  BY <1>3, CallsInv
<1>5. \A v \in Ua, d \in Call : agent'[v][d] # NoAgent => agent'[v][d] = agent[v][d]
  BY <1>1
<1>6. OneCallInv'
  BY <1>0, <1>5 DEF OneCallInv
<1>7. ServerUaInv'
  BY <1>0, <1>5, UaRolesAssumption DEF ServerUaInv
<1> QED BY <1>3, <1>4, <1>6, <1>7 DEF JInv, Stepped

(***************************************************************************)
(* The actions.                                                            *)
(***************************************************************************)

\* What is known of a regular call before a step about it.
LEMMA Before ==
    ASSUME JInv, NEW c \in Call, Grows(c), Regular(c)'
    PROVE  /\ Regular(c)
           /\ c \notin quit => Calm(c)
           /\ c \in quit => c \in placed /\ Done(c)
           /\ c \in joined => c \in placed /\ Joined(c)
           /\ c \in joined /\ c \notin quit => IsUp(CallerAgent(c))
BY GrowsRegular DEF JInv, CallInv

LEMMA OnNet ==
    ASSUME JInv, NEW m \in net
    PROVE  m \in Msg /\ m.code \in Nat /\ MsgOK(m)
<1>1. m \in Msg /\ MsgOK(m)
  BY DEF JInv, IInv, TypeOK, NetInv
<1>2. m.code \in Nat
  BY <1>1 DEF Msg
<1> QED BY <1>1, <1>2

\* Message m is gone, or answered with a failure (r); if it was a BYE, there was
\* nobody to receive it.
LEMMA AnsweredGood ==
    ASSUME JInv, NEW m \in net, NEW c \in Call, m.call = c, Grows(c),
           UNCHANGED <<agent, joined, silent, behind, quit>>, NEW r,
           \A k \in net' : k.call = c =>
               \/ k \in net /\ k # m
               \/ /\ k = r /\ m.code = 0 /\ r.code > 200
                  /\ r.method = m.method /\ m.method \in {"INVITE", "CANCEL"},
           c \in joined \ behind =>
               \A k \in net : IsBye(k, c) => k \in net' \/ agent[Peer(c, k.from)][c] = NoAgent
    PROVE  Good(c)
<1>1. SUFFICES ASSUME Regular(c)'
               PROVE  /\ c \notin quit => Calm(c)'
                      /\ c \in quit => c \in placed' /\ Done(c)'
                      /\ c \in joined => c \in placed' /\ Joined(c)'
                      /\ c \in joined /\ c \notin quit => IsUp(CallerAgent(c))'
  BY DEF Good
<1>2. /\ c \notin quit => Calm(c)
      /\ c \in quit => c \in placed /\ Done(c)
      /\ c \in joined => c \in placed /\ Joined(c)
      /\ c \in joined /\ c \notin quit => IsUp(CallerAgent(c))
      /\ c \in placed => c \in placed'
  BY <1>1, Before DEF Grows
<1>3. /\ CallerAgent(c)' = CallerAgent(c) /\ CalleeAgent(c)' = CalleeAgent(c)
      /\ Caller[c] # Callee[c]
      /\ \A k \in net : k.code \in Nat /\ (k.call = c => k.from \in {Caller[c], Callee[c]})
  <2>1. \A k \in net : k.code \in Nat /\ MsgOK(k)
    BY OnNet
  <2> QED BY <2>1, UaRolesAssumption DEF CallerAgent, CalleeAgent, MsgOK
<1>4. ASSUME Calm(c)  PROVE Calm(c)'
  <2>1. m.code = 0 /\ m.method = "INVITE" => IsPending(m, c)
    BY DEF IsPending
  <2>2. m.method # "CANCEL"
    BY <1>4 DEF Calm
  <2>3. \A k \in net' : k.call = c =>
            (k \in net /\ k # m) \/ (k = r /\ IsPending(m, c) /\ m.code # 200 /\ r.code # 200 /\ r.method = "INVITE")
    BY <2>1, <2>2
  <2>4. \A k, l \in net' : IsPending(k, c) /\ IsPending(l, c) => k = l
    BY <1>4, <2>3 DEF Calm, IsPending
  <2>5. \A k \in net' : k.call = c => k.method \in {"INVITE", "ACK"}
    BY <1>4, <2>3 DEF Calm
  <2>6. \A k \in net' : IsPending(k, c) =>
          /\ ~IsUp(CallerAgent(c))
          /\ k.code = 200 => IsUp(CalleeAgent(c))
          /\ k.code # 200 => CalleeAgent(c) = NoAgent
    BY <1>4, <2>3 DEF Calm, IsPending
  <2> QED BY <1>3, <1>4, <2>4, <2>5, <2>6 DEF Calm, IsUp, IsPending
<1>5. ASSUME Done(c)  PROVE Done(c)'
  BY <1>3, <1>5 DEF Done
<1>6. ASSUME c \in joined, Joined(c)  PROVE Joined(c)'
  <2>1. ~IsPending(m, c) /\ m.method # "CANCEL"
    BY <1>6 DEF Joined
  <2>2. \A k \in net' : k.call = c => k \in net
    BY <2>1 DEF IsPending
  <2>3. /\ \A k \in net' : k.call = c => ~IsPending(k, c) /\ k.method # "CANCEL"
        /\ \A k \in net' : IsBye(k, c) => agent[k.from][c] = NoAgent
    BY <1>6, <2>2 DEF Joined, IsBye
  <2>4. c \notin behind =>
        \A k \in net : /\ IsBye(k, c) /\ k.from = Caller[c] /\ k \notin net' => CalleeAgent(c) = NoAgent
                       /\ IsBye(k, c) /\ k.from = Callee[c] /\ k \notin net' => CallerAgent(c) = NoAgent
    BY <1>3, <1>6 DEF Peer, CallerAgent, CalleeAgent
  <2> QED BY <1>3, <1>6, <2>3, <2>4 DEF Joined, IsPending, IsBye
<1>7. IsUp(CallerAgent(c)) => IsUp(CallerAgent(c))'
  BY <1>3 DEF IsUp
<1> QED BY <1>2, <1>4, <1>5, <1>6, <1>7

LEMMA DeliverOutOfDialogCalls ==
    ASSUME JInv, IInv', NEW m \in net, DeliverOutOfDialog(Peer(m.call, m.from), m)
    PROVE  JInv' /\ Stepped(m.call)
<1> DEFINE c == m.call
           u == Peer(c, m.from)
           r == Answer(m, 501, u)
<1>1. /\ net' = (net \ ({m} \cup SameFinal(m))) \cup (IF m.code = 0 /\ m.method = "CANCEL" THEN {r} ELSE {})
      /\ UNCHANGED <<agent, placed, reInvites, joined, quit, silent, behind, lost, failed>>
      /\ agent[u][c] = NoAgent
  BY DEF DeliverOutOfDialog, userVars, faultVars
<1>2. m \in Msg /\ c \in Call /\ u \in Ua /\ 501 \in Codes
  BY PeerFields DEF JInv, Codes
<1>3. r.code = 501 /\ r.method = m.method /\ r.call = c
  BY <1>2, AnswerFields
<1>4. Grows(c)
  BY <1>1 DEF Grows
<1>5. \A k \in net : IsBye(k, c) => k \in net' \/ agent[Peer(c, k.from)][c] = NoAgent
  <2>1. SUFFICES ASSUME NEW k \in net, IsBye(k, c), k \notin net'  PROVE k = m
    BY <1>1
  <2>2. MsgOK(k) /\ k.code \in Nat
    BY OnNet
  <2>3. k \notin SameFinal(m)
    BY <2>1, <2>2 DEF SameFinal, MsgOK, IsBye
  <2> QED BY <1>1, <2>1, <2>3
<1>6. \A k \in SameFinal(m) : k.call = c
  BY DEF SameFinal
<1> HIDE DEF r, u
<1>7. \A k \in net' : k.call = c =>
          \/ k \in net /\ k # m
          \/ /\ k = r /\ m.code = 0 /\ r.code > 200
             /\ r.method = m.method /\ m.method \in {"INVITE", "CANCEL"}
  BY <1>1, <1>3
<1>8. Good(c)
  BY <1>1, <1>2, <1>4, <1>5, <1>7, AnsweredGood
<1> QED BY <1>1, <1>2, <1>3, <1>4, <1>6, <1>8, NetEventInv

LEMMA ProxyAnswersCalls ==
    ASSUME JInv, IInv', NEW m \in net, NEW code \in ProxyCode, ProxyAnswers(m, code)
    PROVE  JInv' /\ Stepped(m.call)
<1> DEFINE c == m.call
           r == Answer(m, code, Peer(c, m.from))
<1>1. /\ m.code = 0 /\ m.method = "INVITE" /\ net' = (net \ {m}) \cup {r}
      /\ UNCHANGED <<agent, placed, reInvites, joined, quit, silent, behind, lost, failed>>
  BY DEF ProxyAnswers, userVars
<1>2. /\ m \in Msg /\ c \in Call /\ Peer(c, m.from) \in Ua /\ code \in Codes /\ code > 200
  BY PeerFields, UaBoundAssumption DEF JInv, Codes
<1>3. r.code = code /\ r.method = m.method /\ r.call = c
  BY <1>2, AnswerFields
<1> HIDE DEF r
<1>4. Grows(c)
  BY <1>1 DEF Grows
<1>5. \A k \in net : IsBye(k, c) => k \in net'
  BY <1>1 DEF IsBye
<1>6. \A k \in net' : k.call = c =>
          \/ k \in net /\ k # m
          \/ /\ k = r /\ m.code = 0 /\ r.code > 200
             /\ r.method = m.method /\ m.method \in {"INVITE", "CANCEL"}
  BY <1>1, <1>2, <1>3
<1>7. Good(c)
  BY <1>1, <1>2, <1>4, <1>5, <1>6, AnsweredGood
<1> QED BY <1>1, <1>2, <1>3, <1>4, <1>7, NetEventInv

LEMMA LoseCalls ==
    ASSUME JInv, IInv', NEW m \in net, Lose(m)
    PROVE  JInv' /\ Stepped(m.call)
<1> DEFINE c == m.call
           u == Peer(c, m.from)
<1>1. /\ net' = net \ {m}
      /\ lost' = lost \cup {m} \/ (lost' = lost /\ aborted[u] # "none")
      /\ UNCHANGED <<agent, placed, reInvites, joined, quit, silent, behind, failed>>
  BY DEF Lose, userVars
<1>2. c \in Call /\ u \in Ua
  BY PeerFields DEF JInv
<1>3. Grows(c)
  BY <1>1 DEF Grows
<1>4. CASE m \in lost'
  <2>1. ~Regular(c)'
    BY <1>4 DEF Regular, Undisturbed, Lossless
  <2>2. Good(c)
    BY <2>1 DEF Good
  <2> QED BY <1>1, <1>2, <1>3, <2>2, NetEventInv
<1>5. CASE aborted[u] # "none"
  <2>1. agent[u][c] = NoAgent
    BY <1>2, <1>5 DEF JInv, IInv, AgentInv
  <2>2. \A k \in net : IsBye(k, c) => k \in net' \/ agent[Peer(c, k.from)][c] = NoAgent
    BY <1>1, <2>1
  <2>3. \A k \in net' : k \in net /\ k # m
    BY <1>1
  <2>4. Good(c)
    BY <1>1, <1>2, <1>3, <2>2, <2>3, AnsweredGood
  <2> QED BY <1>1, <1>2, <1>3, <2>4, NetEventInv
<1> QED BY <1>1, <1>4, <1>5

LEMMA SendFailsCalls ==
    ASSUME JInv, IInv', NEW m \in net, NEW code \in {404, 408}, SendFails(m, code)
    PROVE  JInv' /\ Stepped(m.call) /\ ~Regular(m.call)'
<1> DEFINE c == m.call
           r == Answer(m, code, Peer(c, m.from))
<1>1. /\ net' = (net \ {m}) \cup {r} /\ failed' = failed \cup {m}
      /\ UNCHANGED <<agent, placed, reInvites, joined, quit, silent, behind, lost>>
  BY DEF SendFails, userVars
<1>2. m \in Msg /\ c \in Call /\ Peer(c, m.from) \in Ua /\ code \in Codes
  BY PeerFields DEF JInv, Codes
<1>3. r.call = c
  BY <1>2, AnswerFields
<1> HIDE DEF r
<1>4. Grows(c)
  BY <1>1 DEF Grows
<1>5. ~Regular(c)'
  BY <1>1 DEF Regular, Undisturbed
<1>6. Good(c)
  BY <1>5 DEF Good
<1> QED BY <1>1, <1>2, <1>3, <1>4, <1>5, <1>6, NetEventInv

\* The BYEs that end a call both sides were in are not out of order.
ByeInOrder(c) ==
    Regular(c) /\ c \in joined \ behind =>
        \A m \in net :
            LET u == Peer(c, m.from)
            IN  IsBye(m, c) /\ agent[u][c] # NoAgent => ~OutOfOrder(stack[u][c], m)

LEMMA RefuseCalls ==
    ASSUME JInv, IInv', NEW m \in net, Refuse(stack[Peer(m.call, m.from)][m.call], m),
           ByeInOrder(m.call)
    PROVE  JInv' /\ Stepped(m.call)
<1> DEFINE c == m.call
           u == Peer(c, m.from)
<1>1. /\ Duplicate(stack[u][c], m) \/ OutOfOrder(stack[u][c], m)
      /\ net' = net \ {m}
      /\ UNCHANGED <<agent, placed, reInvites, joined, quit, silent, behind, lost, failed>>
  BY DEF Refuse, userVars, faultVars
<1>2. c \in Call /\ u \in Ua
  BY PeerFields DEF JInv
<1>3. Grows(c)
  BY <1>1 DEF Grows
<1>4. IsBye(m, c) => OutOfOrder(stack[u][c], m)
  BY <1>1 DEF Duplicate, IsBye
<1>5. \A k \in net' : k \in net /\ k # m
  BY <1>1
<1>6. CASE Regular(c) /\ (c \in joined => c \notin behind)
  <2>1. c \in joined => \A k \in net : IsBye(k, c) => k \in net' \/ agent[Peer(c, k.from)][c] = NoAgent
    BY <1>1, <1>4, <1>6 DEF ByeInOrder
  <2>2. Good(c)
    BY <1>1, <1>2, <1>3, <1>5, <2>1, AnsweredGood
  <2> QED BY <1>1, <1>2, <1>3, <2>2, NetEventInv
<1>7. CASE ~Regular(c)
  <2>1. Good(c)
    BY <1>2, <1>3, <1>7, GrowsRegular DEF Good
  <2> QED BY <1>1, <1>2, <1>3, <2>1, NetEventInv
<1>8. CASE c \in behind
  <2>1. Good(c)
    BY <1>1, <1>2, <1>3, <1>5, <1>8, AnsweredGood
  <2> QED BY <1>1, <1>2, <1>3, <2>1, NetEventInv
<1> QED BY <1>6, <1>7, <1>8

\* Of a regular call, the caller has the client and the callee the server.
LEMMA RegularRoles ==
    ASSUME JInv, NEW c \in Call, Regular(c), NEW u \in Ua, agent[u][c] # NoAgent
    PROVE  /\ u \in {Caller[c], Callee[c]} /\ Caller[c] # Callee[c] /\ c \in placed
           /\ u = Caller[c] => agent[u][c].role = "client"
           /\ u = Callee[c] => agent[u][c].role = "server"
           /\ agent[u][c] \in Agent /\ AgentOK(agent[u][c])
<1>1. /\ u \in {Caller[c], Callee[c]} /\ c \in placed /\ (agent[u][c].role = "client" => u = Caller[c])
      /\ AgentOK(agent[u][c])
  BY DEF JInv, IInv, AgentInv
<1>2. Caller[c] # Callee[c]
  BY UaRolesAssumption
<1>3. agent[u][c].role = "server" => u = Callee[c]
  BY DEF JInv, IInv, PlainInv, Regular
<1>4. agent[u][c] \in Agent
  BY DEF JInv, IInv, TypeOK
<1>5. agent[u][c].role \in {"client", "server"}
  BY <1>4 DEF Agent
<1> QED BY <1>1, <1>2, <1>3, <1>4, <1>5

\* The callee leaves, and the INVITE is not sent again.
LEMMA CalleeLeaves ==
    ASSUME NEW c \in Call, c \notin quit => Calm(c), c \in quit => Done(c),
           CalleeAgent(c) # NoAgent, CalleeAgent(c)' = NoAgent, CallerAgent(c)' = CallerAgent(c),
           \A m \in net : m.call = c => m.code \in Nat,
           \A m \in net' : m.call = c /\ m.method = "INVITE" => m \in net \/ m.code \notin {0, 302, 401}
    PROVE  Done(c)'
<1>1. CASE c \in quit
  BY <1>1 DEF Done
<1>2. CASE c \notin quit
  <2>1. \A m \in net : m.call = c /\ m.method = "INVITE" => m.code \notin {0, 302, 401}
    BY <1>2 DEF Calm, IsPending
  <2> QED BY <2>1 DEF Done
<1> QED BY <1>1, <1>2

\* What a call that is up sends when it is ended.
Leaves(s, t) ==
    s.ctl = "IN_CALL" =>
        /\ \A o \in t.out : o.method = "BYE" /\ o.cseq = s.cseq + 1
        /\ s.role = "client" \/ s.acked => \E o \in t.out : o.method = "BYE"

LEMMA DoByeLeaves ==
    ASSUME NEW s \in Step, s.active, s.out = {}
    PROVE  Leaves(s, DoBye(s))
<1> SUFFICES ASSUME s.ctl = "IN_CALL"  PROVE Leaves(s, DoBye(s))
  BY DEF Leaves
<1> DEFINE r == SendBye(s)
<1>1. DoBye(s) = TearDown(FreeMedia(r))
  BY DEF DoBye
<1>2. s.cseq + 1 \in Nat /\ "BYE" \in Method /\ 0 \in Codes
  BY DEF Step, Method, Codes
<1>3. r \in Step
  BY SendByeFields
<1>4. /\ \A o \in r.out : o.method = "BYE" /\ o.cseq = s.cseq + 1
      /\ s.role = "client" \/ s.acked => \E o \in r.out : o.method = "BYE"
  <2> DEFINE q == Send(s, "BYE", 0, s.cseq + 1)
             o == [method |-> "BYE", code |-> 0, cseq |-> s.cseq + 1]
  <2>1. r = IF s.role = "client" \/ s.acked THEN q ELSE s
    BY DEF SendBye
  <2>2. q.out = {o} /\ o.method = "BYE" /\ o.cseq = s.cseq + 1
    BY <1>2, SendFields
  <2> HIDE DEF q, o, r
  <2> QED BY <2>1, <2>2
<1> HIDE DEF r
<1>5. FreeMedia(r) \in Step /\ FreeMedia(r).out = r.out
  BY <1>3, FreeMediaFields
<1>6. DoBye(s).out = r.out
  BY <1>1, <1>5, TearDownFields
<1> QED BY <1>4, <1>6 DEF Leaves

LEMMA StopCallLeaves ==
    ASSUME NEW s \in Step, s.active, s.out = {}, AgentOK(s)
    PROVE  Leaves(s, StopCall(s)) /\ Leaves(s, PurgeCall(s))
<1> SUFFICES ASSUME s.ctl = "IN_CALL"  PROVE Leaves(s, StopCall(s)) /\ Leaves(s, PurgeCall(s))
  BY DEF Leaves
<1> DEFINE d == DoBye(s)
           f == FreeMedia(d)
<1>1. StopCall(s) = f
  BY DEF StopCall, End
<1>2. d \in Step /\ ~d.active /\ Leaves(s, d)
  BY DoByeFields, DoByeLeaves DEF Finished, Ended
<1> HIDE DEF d
<1>3. f \in Step /\ f.out = d.out /\ ~f.active
  BY <1>2, FreeMediaFields
<1>4. PurgeCall(s) = f
  BY <1>1, <1>3 DEF PurgeCall, EndCall
<1> QED BY <1>1, <1>2, <1>3, <1>4 DEF Leaves

\* A user or a device of u hangs up.
LEMMA HungUp ==
    ASSUME JInv, IInv', NEW c \in Call, NEW u \in Ua, agent[u][c] # NoAgent, NEW t,
           Finished(Opened(u, c), t), Leaves(Opened(u, c), t), Handled(u, c, {}, t),
           quit' = quit \cup {c}, UNCHANGED <<placed, reInvites, lost, failed>>,
           u \in ServerUa => ~t.active
    PROVE  JInv' /\ Stepped(c)
<1> DEFINE s == Opened(u, c)
           a == agent[u][c]
<1>0. IInv /\ TypeOK /\ Caller[c] \in Ua /\ Callee[c] \in Ua /\ Caller[c] # Callee[c] /\ c \in placed
      /\ u \in {Caller[c], Callee[c]} /\ c \in quit'
  BY UaRolesAssumption DEF JInv, IInv, AgentInv
<1>1. /\ s \in Step /\ s.out = {} /\ AgentOK(s) /\ s.role = a.role /\ s.ctl = a.ctl /\ s.leg = a.leg
      /\ (s.acked <=> a.acked)
  BY <1>0, OpenedFields
<1>2. Finished(s, t) /\ Leaves(s, t)
  OBVIOUS
<1> HIDE DEF s
<1>3. /\ t \in Step /\ t.role = s.role /\ t.ctl = s.ctl /\ (t.acked <=> s.acked)
      /\ \A o \in t.out : EndMsg(t, o)
      /\ t.active => t.role = "client" /\ t.freed /\ t.ctl \in SetUp
  BY <1>1, <1>2 DEF Finished, Ended, Core
<1>4. Grows(c)
  BY DEF Grows
<1>5. View(u, c, {}, t)
  BY <1>0, <1>3, EventView
<1>6. /\ agent'[u][c] = IF t.active THEN Closed(t) ELSE NoAgent
      /\ \A v \in Ua, d \in Call : v # u \/ d # c => agent'[v][d] = agent[v][d]
      /\ \A m \in net' : m \in net \/ \E o \in t.out : m = Sent(u, c, o)
      /\ net \subseteq net'
      /\ \A o \in t.out : Sent(u, c, o) \in net'
      /\ silent \subseteq silent' /\ behind \subseteq behind'
      /\ IsUp(a) /\ ~t.active /\ t.role = "server" /\ ~t.acked => c \in silent'
  BY <1>5 DEF View
<1>7. agent'[u][c] # NoAgent => agent'[u][c].freed
  BY <1>3, <1>6, ClosedFields
<1>8. ASSUME Regular(c)'  PROVE Done(c)' /\ (c \in joined => Joined(c)')
  <2>1. /\ Regular(c)
        /\ c \notin quit => Calm(c)
        /\ c \in quit => Done(c)
        /\ c \in joined => Joined(c)
    BY <1>4, <1>8, Before
  <2>2. /\ u = Caller[c] => a.role = "client"
        /\ u = Callee[c] => a.role = "server"
    BY <2>1, RegularRoles
  <2>3. Done(c)'
    <3>1. CASE u = Caller[c]
      BY <1>7, <3>1 DEF Done, CallerAgent
    <3>2. CASE u = Callee[c]
      <4>1. ~t.active
        BY <1>1, <1>3, <2>2, <3>2
      <4>2. CalleeAgent(c) # NoAgent /\ CalleeAgent(c)' = NoAgent /\ CallerAgent(c)' = CallerAgent(c)
        BY <1>0, <1>6, <3>2, <4>1 DEF CalleeAgent, CallerAgent
      <4>3. \A m \in net' : m.call = c /\ m.method = "INVITE" => m \in net \/ m.code \notin {0, 302, 401}
        BY <1>3, <1>6 DEF Sent, EndMsg
      <4>4. \A m \in net : m.code \in Nat
        BY OnNet
      <4> QED BY <2>1, <4>2, <4>3, <4>4, CalleeLeaves
    <3> QED BY <1>0, <3>1, <3>2
  <2>4. ASSUME c \in joined  PROVE Joined(c)'
    <3>1. Joined(c) /\ a.ctl = "IN_CALL"
      BY <1>0, <2>1, <2>4 DEF Joined, CallerAgent, CalleeAgent
    <3>2. ~t.active /\ agent'[u][c] = NoAgent
      BY <1>1, <1>3, <1>6, <3>1 DEF SetUp
    <3>3. /\ \A o \in t.out : o.method = "BYE"
          /\ a.role = "client" \/ a.acked => \E o \in t.out : o.method = "BYE"
      BY <1>1, <1>2, <3>1 DEF Leaves
    <3>4. \A m \in net' : m \in net \/ (m.call = c /\ m.method = "BYE" /\ m.from = u)
      BY <1>6, <3>3 DEF Sent
    <3>5. \A m \in net' : IsBye(m, c) => agent'[m.from][c] = NoAgent
      <4>1. SUFFICES ASSUME NEW m \in net', IsBye(m, c), m.from # u  PROVE agent'[m.from][c] = NoAgent
        BY <3>2
      <4>2. m \in net /\ agent[m.from][c] = NoAgent
        BY <3>1, <3>4, <4>1 DEF Joined
      <4>3. m.from \in Ua
        BY <4>2, OnNet DEF Msg
      <4> QED BY <1>6, <4>1, <4>2, <4>3
    <3>6. c \notin silent' => \E m \in net' : IsBye(m, c) /\ m.from = u
      <4>1. SUFFICES ASSUME c \notin silent'  PROVE \E m \in net' : IsBye(m, c) /\ m.from = u
        OBVIOUS
      <4>2. IsUp(a)
        BY <3>1 DEF IsUp
      <4>3. a.role = "client" \/ a.acked
        BY <1>0, <1>1, <1>3, <1>6, <2>2, <3>2, <4>1, <4>2
      <4> QED BY <1>6, <3>3, <4>3 DEF Sent, IsBye
    <3>7. /\ \A m \in net' : m.call = c => ~IsPending(m, c) /\ m.method # "CANCEL"
      BY <3>1, <3>4 DEF Joined, IsPending
    <3>8. CASE u = Caller[c]
      <4>1. CallerAgent(c)' = NoAgent /\ CalleeAgent(c)' = CalleeAgent(c)
        BY <1>0, <1>6, <3>2, <3>8 DEF CallerAgent, CalleeAgent
      <4> QED BY <3>1, <3>5, <3>6, <3>7, <3>8, <4>1 DEF Joined, IsPending, IsBye
    <3>9. CASE u = Callee[c]
      <4>1. CalleeAgent(c)' = NoAgent /\ CallerAgent(c)' = CallerAgent(c)
        BY <1>0, <1>6, <3>2, <3>9 DEF CallerAgent, CalleeAgent
      <4> QED BY <3>1, <3>5, <3>6, <3>7, <3>9, <4>1 DEF Joined, IsPending, IsBye
    <3> QED BY <1>0, <3>8, <3>9
  <2> QED BY <2>3, <2>4
<1>9. Good(c)
  BY <1>0, <1>8 DEF Good
<1>10. t.active /\ u \in ServerUa => t.own /\ ~t.freed
  OBVIOUS
<1> QED BY <1>0, <1>3, <1>4, <1>9, <1>10, EventInv

LEMMA StopCalls ==
    ASSUME JInv, IInv', NEW u \in Ua, NEW c \in Call, Stop(u, c)
    PROVE  JInv' /\ Stepped(c)
<1> DEFINE s == Opened(u, c)
           t == StopCall(s)
<1>1. /\ u \notin ServerUa /\ agent[u][c] # NoAgent /\ Handled(u, c, {}, t)
      /\ quit' = quit \cup {c} /\ UNCHANGED <<placed, reInvites, lost, failed>>
  BY DEF Stop, ActiveCall, faultVars
<1>2. s \in Step /\ s.active /\ s.out = {} /\ AgentOK(s)
  BY <1>1, OpenedFields DEF JInv
<1> HIDE DEF s
<1>3. Finished(s, t) /\ Leaves(s, t)
  BY <1>2, StopCallFields, StopCallLeaves
<1> HIDE DEF t
<1>4. Finished(Opened(u, c), t) /\ Leaves(Opened(u, c), t)
  BY <1>3 DEF s
<1> QED BY <1>1, <1>4, HungUp

LEMMA PurgeCalls ==
    ASSUME JInv, IInv', NEW u \in Ua, NEW c \in Call, Purge(u, c)
    PROVE  JInv' /\ Stepped(c)
<1> DEFINE s == Opened(u, c)
           t == PurgeCall(s)
<1>1. /\ u \notin ServerUa /\ agent[u][c] # NoAgent /\ Handled(u, c, {}, t)
      /\ quit' = quit \cup {c} /\ UNCHANGED <<placed, reInvites, lost, failed>>
  BY DEF Purge, ActiveCall, faultVars
<1>2. s \in Step /\ s.active /\ s.out = {} /\ AgentOK(s)
  BY <1>1, OpenedFields DEF JInv
<1> HIDE DEF s
<1>3. Finished(s, t) /\ Leaves(s, t)
  BY <1>2, PurgeCallFields, StopCallLeaves
<1> HIDE DEF t
<1>4. Finished(Opened(u, c), t) /\ Leaves(Opened(u, c), t)
  BY <1>3 DEF s
<1> QED BY <1>1, <1>4, HungUp

LEMMA DeviceStopCalls ==
    ASSUME JInv, IInv', NEW u \in Ua, NEW n \in Number, DeviceStop(u, n)
    PROVE  JInv' /\ Stepped(callMap[u][n])
<1> DEFINE c == callMap[u][n]
           s == Opened(u, c)
           t == DoBye(s)
<1>1. c \in Call /\ agent[u][c] # NoAgent
  BY DEF JInv, IInv, TypeOK, DeviceStop, IsUp
<1>2. Handled(u, c, {}, t) /\ quit' = quit \cup {c} /\ UNCHANGED <<placed, reInvites, lost, failed>>
  BY DEF DeviceStop, faultVars
<1>3. s \in Step /\ s.active /\ s.out = {}
  BY <1>1, OpenedFields DEF JInv
<1> HIDE DEF s, c
<1>4. Finished(s, t) /\ ~t.active /\ Leaves(s, t)
  BY <1>3, DoByeFields, DoByeLeaves
<1> HIDE DEF t
<1>5. Finished(Opened(u, c), t) /\ Leaves(Opened(u, c), t)
  BY <1>4 DEF s
<1>6. JInv' /\ Stepped(c)
  BY <1>1, <1>2, <1>4, <1>5, HungUp
<1> QED BY <1>6 DEF c

LEMMA BusyAbortsCalls ==
    ASSUME JInv, IInv', NEW u \in Ua, NEW c \in Call, BusyAborts(u, c)
    PROVE  JInv' /\ Stepped(c) /\ (Regular(c)' => c \notin joined)
<1> DEFINE a == agent[u][c]
           m == [method |-> "INVITE", code |-> 486, cseq |-> a.request, call |-> c, from |-> u]
<1>1. /\ u \notin ServerUa /\ a # NoAgent /\ a.ctl = "UAS_RINGING"
      /\ Abort(u, "deleted") /\ net' = net \cup {m} /\ quit' = quit \cup {c}
      /\ UNCHANGED <<placed, reInvites, lost, failed, joined, silent, behind>>
  BY DEF BusyAborts, ActiveCall
<1>2. m.code = 486 /\ m.call = c
  OBVIOUS
<1> HIDE DEF m
<1>3. Grows(c)
  BY <1>1 DEF Grows
<1>4. /\ agent'[u][c] = NoAgent
      /\ \A v \in Ua : v # u => agent'[v][c] = agent[v][c]
  BY <1>1 DEF JInv, IInv, TypeOK, Abort
<1>5. ASSUME Regular(c)'  PROVE Done(c)' /\ c \notin joined /\ c \in placed
  <2>1. /\ Regular(c)
        /\ c \notin quit => Calm(c)
        /\ c \in quit => Done(c)
        /\ c \in joined => Joined(c)
    BY <1>3, <1>5, Before
  <2>2. /\ u \in {Caller[c], Callee[c]} /\ Caller[c] # Callee[c] /\ c \in placed
        /\ u = Caller[c] => a.role = "client"
        /\ AgentOK(a)
    BY <1>1, <2>1, RegularRoles
  <2>3. u = Callee[c] /\ Caller[c] \in Ua
    BY <1>1, <2>2, UaRolesAssumption DEF AgentOK, ClientOK, SetUp, Up
  <2>4. CalleeAgent(c) # NoAgent /\ CalleeAgent(c)' = NoAgent /\ CallerAgent(c)' = CallerAgent(c)
    BY <1>1, <1>4, <2>2, <2>3 DEF CallerAgent, CalleeAgent
  <2>5. \A k \in net' : k.call = c /\ k.method = "INVITE" => k \in net \/ k.code \notin {0, 302, 401}
    BY <1>1, <1>2
  <2>6. \A k \in net : k.code \in Nat
    BY OnNet
  <2>7. Done(c)'
    BY <2>1, <2>4, <2>5, <2>6, CalleeLeaves
  <2>8. c \notin joined
    BY <1>1, <2>1, <2>3, <2>4 DEF Joined, CalleeAgent
  <2> QED BY <2>2, <2>7, <2>8
<1>6. Good(c)
  BY <1>1, <1>5 DEF Good
<1>7. (\A k \in net : k.call # c => k \in net') /\ (\A k \in net' : k.call # c => k \in net)
  BY <1>1, <1>2
<1> QED BY <1>1, <1>3, <1>5, <1>6, <1>7, AbortEventInv

LEMMA ReInviteCalls ==
    ASSUME JInv, IInv', NEW u \in Ua, NEW c \in Call, ReInvite(u, c)
    PROVE  JInv' /\ Stepped(c) /\ ~Regular(c)'
<1> DEFINE s == Opened(u, c)
           p == Send(s, "INVITE", 0, s.cseq + 1)
           q == Send(s, "INVITE", 0, s.request)
           x == OtherLeg(s.leg)
           v == [p EXCEPT !.cseq = s.cseq + 1, !.leg = x]
           t == ReInvited(s, c \notin proxied \/ s.request > 1)
<1>1. /\ u \notin ServerUa /\ agent[u][c] # NoAgent /\ Handled(u, c, {}, t)
      /\ reInvites' = [reInvites EXCEPT ![c] = @ + 1] /\ UNCHANGED <<placed, lost, failed, quit>>
  BY DEF ReInvite, ActiveCall, faultVars
<1>2. s \in Step
  BY <1>1, OpenedFields DEF JInv
<1> HIDE DEF s
<1>3. /\ s.cseq + 1 \in Nat /\ s.request \in Nat /\ "INVITE" \in Method /\ 0 \in Codes
      /\ x \in LegState
  BY <1>2 DEF Step, Method, Codes, OtherLeg, LegState
<1>4. p \in Step /\ q \in Step
  BY <1>2, <1>3, SendLike
<1>5. t \in {v, q, s}
  BY DEF ReInvited
<1> HIDE DEF p, q, x, t
<1>6. v \in Step
  BY <1>3, <1>4 DEF Step
<1> HIDE DEF v
<1>7. t \in Step
  BY <1>2, <1>4, <1>5, <1>6
<1>8. reInvites \in [Call -> Nat]
  BY UaBoundAssumption DEF JInv, IInv, TypeOK
<1>9. reInvites'[c] # 0 /\ \A d \in Call : reInvites'[d] = 0 => reInvites[d] = 0
  BY <1>1, <1>8
<1>10. Grows(c) /\ Good(c) /\ ~Regular(c)'
  BY <1>1, <1>9 DEF Grows, Good, Regular
<1>11. u \in {Caller[c], Callee[c]}
  BY <1>1 DEF JInv, IInv, AgentInv
<1> QED BY <1>1, <1>7, <1>10, <1>11, EventInv

LEMMA ReInviteAbortsCalls ==
    ASSUME JInv, IInv', NEW u \in Ua, NEW c \in Call, ReInviteAborts(u, c)
    PROVE  JInv' /\ Stepped(c) /\ ~Regular(c)'
<1>1. /\ u \notin ServerUa /\ agent[u][c] # NoAgent /\ Abort(u, "session")
      /\ reInvites' = [reInvites EXCEPT ![c] = @ + 1]
      /\ UNCHANGED <<net, placed, lost, failed, quit, joined, silent, behind>>
  BY DEF ReInviteAborts, ActiveCall
<1>2. reInvites \in [Call -> Nat]
  BY UaBoundAssumption DEF JInv, IInv, TypeOK
<1>3. reInvites'[c] # 0 /\ \A d \in Call : reInvites'[d] = 0 => reInvites[d] = 0
  BY <1>1, <1>2
<1>4. Grows(c) /\ Good(c) /\ ~Regular(c)'
  BY <1>1, <1>3 DEF Grows, Good, Regular
<1> QED BY <1>1, <1>4, AbortEventInv

LEMMA InitiateInviteCalls ==
    ASSUME JInv, IInv', NEW c \in Call, InitiateInvite(c)
    PROVE  JInv' /\ Stepped(c)
<1> DEFINE u == Caller[c]
           k == sessions[u][c] + 1
           o == [method |-> "INVITE", code |-> 0, cseq |-> 1]
           s == [role |-> "client", id |-> 0, leg |-> "C_TRYING", ctl |-> "TRYING", acked |-> FALSE,
                 own |-> TRUE, freed |-> FALSE, cseq |-> 1, request |-> 1,
                 open |-> k, active |-> TRUE, out |-> {o}]
<1>1. /\ c \notin placed /\ ~Busy(u) /\ agent[u][c] = NoAgent
      /\ placed' = placed \cup {c} /\ Handled(u, c, {}, s)
      /\ UNCHANGED <<lost, failed, reInvites, quit>>
  BY DEF InitiateInvite, faultVars
<1>2. u \in Ua /\ Callee[c] \in Ua /\ Caller[c] # Callee[c] /\ IInv /\ TypeOK
  BY UaRolesAssumption DEF JInv, IInv
<1>3. 0 \in Number /\ k \in Int
  <2>1. sessions[u][c] \in Nat
    BY <1>2 DEF TypeOK
  <2>2. 0 \in Number
    BY <1>1, <1>2, NumberFree
  <2> QED BY <2>1, <2>2
<1> HIDE DEF k
<1>4. s \in Step
  <2>1. s.out \in SUBSET Out
    BY DEF Out, Method, Codes
  <2> QED BY <1>3, <2>1 DEF Step, LegState, ControlStates
<1>5. /\ s.leg = "C_TRYING" /\ s.ctl = "TRYING" /\ s.own /\ ~s.freed /\ s.active /\ s.out = {o}
      /\ o.method = "INVITE" /\ o.code = 0
  OBVIOUS
<1> HIDE DEF s, o
<1>6. Grows(c)
  BY <1>1 DEF Grows
<1>7. View(u, c, {}, s)
  BY <1>1, <1>2, <1>4, EventView
<1> DEFINE b == Closed(s)
<1>8. /\ agent'[u][c] = b
      /\ \A v \in Ua, d \in Call : v # u \/ d # c => agent'[v][d] = agent[v][d]
      /\ \A m \in net' : m \in net \/ m = Sent(u, c, o)
  BY <1>5, <1>7 DEF View
<1>9. b # NoAgent /\ b.leg = "C_TRYING" /\ b.ctl = "TRYING" /\ ~b.freed
  BY <1>4, <1>5, ClosedFields
<1> HIDE DEF b
<1>10. agent'[Callee[c]][c] = NoAgent
  BY <1>1, <1>2, <1>8 DEF IInv, AgentInv
<1>11. \A m \in net' : m.call = c => m = Sent(u, c, o)
  BY <1>1, <1>2, <1>8 DEF IInv, NetInv, MsgOK
<1>12. Sent(u, c, o).method = "INVITE" /\ Sent(u, c, o).code = 0
  BY <1>5 DEF Sent
<1>13. Calm(c)'
  <2>1. /\ ~IsUp(CallerAgent(c))' /\ ~IsUp(CalleeAgent(c))'
    BY <1>8, <1>9, <1>10 DEF IsUp, CallerAgent, CalleeAgent
  <2>2. /\ CallerAgent(c)' # NoAgent => (CallerAgent(c)').leg # "FAILURE" /\ ~(CallerAgent(c)').freed
        /\ CalleeAgent(c)' = NoAgent
    BY <1>8, <1>9, <1>10 DEF CallerAgent, CalleeAgent
  <2>3. /\ \A m \in net' : m.call = c => m.method \in {"INVITE", "ACK"} /\ m.code = 0
        /\ \A m, n \in net' : m.call = c /\ n.call = c => m = n
    BY <1>11, <1>12
  <2> QED BY <2>1, <2>2, <2>3 DEF Calm, IsPending
<1>14. Regular(c)' => c \notin quit' /\ c \notin joined
  BY <1>1, <1>6, Before
<1>15. Good(c)
  BY <1>13, <1>14 DEF Good
<1> QED BY <1>1, <1>2, <1>4, <1>5, <1>6, <1>15, EventInv

LEMMA DeliverAbortsCalls ==
    ASSUME JInv, IInv', NEW m \in net, DeliverAborts(Peer(m.call, m.from), m)
    PROVE  JInv' /\ Stepped(m.call) /\ (Regular(m.call)' => m.call \in quit \ joined)
<1> DEFINE c == m.call
           u == Peer(c, m.from)
           a == agent[u][c]
<1>1. /\ a # NoAgent /\ UsesSession(a, m) /\ ~HasSession(a)
      /\ Abort(u, "session") /\ net' = net \ {m}
      /\ UNCHANGED <<placed, reInvites, lost, failed, joined, silent, behind, quit>>
  BY DEF DeliverAborts, userVars
<1>2. /\ c \in Call /\ u \in Ua /\ Caller[c] # Callee[c] /\ u \in {Caller[c], Callee[c]}
      /\ m.from = Caller[c] <=> u = Callee[c]
      /\ m.from = Callee[c] <=> u = Caller[c]
      /\ Caller[c] \in Ua /\ Callee[c] \in Ua
  BY PeerFields, UaRolesAssumption DEF JInv
<1> HIDE DEF u
<1>3. u \notin ServerUa
  BY <1>1, <1>2 DEF JInv, ServerUaInv, HasSession
<1>4. /\ agent'[u][c] = NoAgent
      /\ \A v \in Ua : v # u => agent'[v][c] = agent[v][c]
  BY <1>1, <1>2 DEF JInv, IInv, TypeOK, Abort
<1>5. Grows(c)
  BY <1>1 DEF Grows
<1>6. ASSUME Regular(c)'  PROVE c \in quit /\ c \in placed /\ Done(c)' /\ c \notin joined
  <2>1. /\ Regular(c)
        /\ c \notin quit => Calm(c)
        /\ c \in quit => c \in placed /\ Done(c)
        /\ c \in joined => Joined(c)
    BY <1>2, <1>5, <1>6, Before
  <2>2. /\ m.method = "INVITE" /\ m.code \in {0, 200}
        /\ m.code = 0 => u = Callee[c]
        /\ m.code = 200 => u = Caller[c]
    <3>1. m.method = "INVITE" /\ m.code \in {0, 200}
      BY <1>1 DEF UsesSession
    <3>2. reInvites[c] = 0
      BY <2>1 DEF Regular
    <3> QED BY <1>2, <3>1, <3>2 DEF JInv, IInv, PlainInv
  <2>3. IsPending(m, c)
    BY <2>2 DEF IsPending
  <2>4. /\ u = Caller[c] => a.role = "client"
        /\ a \in Agent /\ AgentOK(a)
    BY <1>1, <1>2, <2>1, RegularRoles
  <2>5. ASSUME Calm(c)  PROVE FALSE
    <3>1. m.code = 200 /\ u = Caller[c]
      BY <1>1, <2>2, <2>3, <2>5 DEF Calm, CalleeAgent
    <3>2. ~a.freed /\ a.own
      BY <1>1, <2>4, <2>5, <3>1 DEF Calm, CallerAgent, AgentOK, ClientOK
    <3> QED BY <1>1, <3>2 DEF HasSession
  <2>6. c \in quit /\ c \in placed /\ Done(c)
    BY <2>1, <2>5
  <2>7. c \notin joined
    BY <2>1, <2>3 DEF Joined
  <2>8. Done(c)'
    <3>1. CASE u = Caller[c]
      BY <1>4, <3>1 DEF Done, CallerAgent
    <3>2. CASE u = Callee[c]
      <4>1. CalleeAgent(c)' = NoAgent /\ CallerAgent(c)' = CallerAgent(c)
        BY <1>2, <1>4, <3>2 DEF CallerAgent, CalleeAgent
      <4>2. \A k \in net' : k \in net
        BY <1>1
      <4> QED BY <2>6, <4>1, <4>2 DEF Done
    <3> QED BY <1>2, <3>1, <3>2
  <2> QED BY <2>6, <2>7, <2>8
<1>7. Good(c)
  BY <1>1, <1>6 DEF Good
<1>8. (\A k \in net : k.call # c => k \in net') /\ (\A k \in net' : k.call # c => k \in net)
  BY <1>1
<1>9. Regular(c)' => c \in quit \ joined
  BY <1>6
<1> QED BY <1>1, <1>2, <1>3, <1>5, <1>7, <1>8, <1>9, AbortEventInv

\* Two agents that differ in nothing that matters to their call.
SameAgent(a, b) ==
    /\ a = NoAgent <=> b = NoAgent
    /\ a # NoAgent => a.leg = b.leg /\ a.ctl = b.ctl /\ (a.freed <=> b.freed)

LEMMA KeptGood ==
    ASSUME JInv, NEW c \in Call, Grows(c), quit' = quit, silent \subseteq silent', behind \subseteq behind',
           SameAgent(CallerAgent(c), CallerAgent(c)'), SameAgent(CalleeAgent(c), CalleeAgent(c)'),
           \A k \in net' : k.call = c => k \in net,
           \A k \in net : IsBye(k, c) => k \in net'
    PROVE  Good(c)
<1>1. SUFFICES ASSUME Regular(c)'
               PROVE  /\ c \notin quit => Calm(c)'
                      /\ c \in quit => c \in placed' /\ Done(c)'
                      /\ c \in joined => c \in placed' /\ Joined(c)'
                      /\ c \in joined /\ c \notin quit => IsUp(CallerAgent(c))'
  BY DEF Good
<1>2. /\ c \notin quit => Calm(c)
      /\ c \in quit => c \in placed /\ Done(c)
      /\ c \in joined => c \in placed /\ Joined(c)
      /\ c \in joined /\ c \notin quit => IsUp(CallerAgent(c))
      /\ c \in placed => c \in placed'
  BY <1>1, Before DEF Grows
<1> DEFINE a == CallerAgent(c)
           b == CalleeAgent(c)
           p == CallerAgent(c)'
           q == CalleeAgent(c)'
<1>3. /\ a = NoAgent <=> p = NoAgent
      /\ b = NoAgent <=> q = NoAgent
      /\ a # NoAgent => a.leg = p.leg /\ a.ctl = p.ctl /\ (a.freed <=> p.freed)
      /\ b # NoAgent => b.leg = q.leg /\ b.ctl = q.ctl
      /\ IsUp(a) <=> IsUp(p)
      /\ IsUp(b) <=> IsUp(q)
  BY DEF SameAgent, IsUp
<1>4. /\ p = agent'[Caller[c]][c] /\ q = agent'[Callee[c]][c]
      /\ a = agent[Caller[c]][c] /\ b = agent[Callee[c]][c]
  BY DEF CallerAgent, CalleeAgent
<1>5. ASSUME Calm(c)  PROVE Calm(c)'
  <2>1. /\ \A m \in net : m.call = c => m.method \in {"INVITE", "ACK"}
        /\ \A m, k \in net : IsPending(m, c) /\ IsPending(k, c) => m = k
        /\ \A m \in net : IsPending(m, c) =>
              ~IsUp(a) /\ (m.code = 200 => IsUp(b)) /\ (m.code # 200 => b = NoAgent)
        /\ a # NoAgent => a.leg # "FAILURE" /\ ~a.freed
        /\ b # NoAgent => b.leg # "FAILURE"
        /\ IsUp(a) => a.ctl = "IN_CALL" /\ IsUp(b)
        /\ IsUp(b) => b.ctl = "IN_CALL"
    BY <1>5 DEF Calm
  <2>2. \A m : IsPending(m, c) => m.call = c
    BY DEF IsPending
  <2>3. /\ \A m \in net' : m.call = c => m.method \in {"INVITE", "ACK"}
        /\ \A m, k \in net' : IsPending(m, c) /\ IsPending(k, c) => m = k
        /\ \A m \in net' : IsPending(m, c) =>
              ~IsUp(p) /\ (m.code = 200 => IsUp(q)) /\ (m.code # 200 => q = NoAgent)
        /\ p # NoAgent => p.leg # "FAILURE" /\ ~p.freed
        /\ q # NoAgent => q.leg # "FAILURE"
        /\ IsUp(p) => p.ctl = "IN_CALL" /\ IsUp(q)
        /\ IsUp(q) => q.ctl = "IN_CALL"
    <3> HIDE DEF a, b, p, q
    <3>1. (IsUp(a) => a # NoAgent) /\ (IsUp(b) => b # NoAgent)
      BY DEF IsUp
    <3> QED BY <1>3, <2>1, <2>2, <3>1
  <2> QED BY <2>3 DEF Calm, IsUp, IsPending
<1>6. ASSUME Done(c)  PROVE Done(c)'
  BY <1>3, <1>6 DEF Done
<1>7. ASSUME Joined(c)  PROVE Joined(c)'
  <2>1. \A k \in net' : IsBye(k, c) => agent'[k.from][c] = NoAgent
    <3>1. SUFFICES ASSUME NEW k \in net', IsBye(k, c)  PROVE agent'[k.from][c] = NoAgent
      OBVIOUS
    <3>2. k \in net /\ k.call = c
      BY <3>1 DEF IsBye
    <3>3. k.from \in {Caller[c], Callee[c]}
      BY <3>2, OnNet DEF MsgOK
    <3>4. agent[k.from][c] = NoAgent
      BY <1>7, <3>1, <3>2 DEF Joined
    <3> QED BY <1>3, <1>4, <3>3, <3>4
  <2>2. \A m \in net' : m.call = c => ~IsPending(m, c) /\ m.method # "CANCEL"
    BY <1>7 DEF Joined
  <2>3. c \notin silent' \cup behind' =>
          /\ p = NoAgent /\ q # NoAgent => \E m \in net' : IsBye(m, c) /\ m.from = Caller[c]
          /\ q = NoAgent /\ p # NoAgent => \E m \in net' : IsBye(m, c) /\ m.from = Callee[c]
    BY <1>3, <1>7 DEF Joined
  <2>4. (p # NoAgent => p.ctl = "IN_CALL") /\ (q # NoAgent => q.ctl = "IN_CALL")
    BY <1>3, <1>7 DEF Joined
  <2> QED BY <2>1, <2>2, <2>3, <2>4 DEF Joined, IsPending, IsBye
<1>8. IsUp(CallerAgent(c)) => IsUp(CallerAgent(c))'
  BY <1>3 DEF IsUp
<1> QED BY <1>2, <1>5, <1>6, <1>7, <1>8

\* The callee answers the INVITE: it rings, or it accepts the call with r.
LEMMA CalleeAnswers ==
    ASSUME JInv, NEW c \in Call, Grows(c), quit' = quit, silent \subseteq silent', behind \subseteq behind',
           CallerAgent(c)' = CallerAgent(c), ~IsUp(CalleeAgent(c)),
           CalleeAgent(c) = NoAgent => \E m \in net : m.call = c /\ m.method = "INVITE" /\ m.code = 0 /\ m \notin net',
           NEW b, CalleeAgent(c)' = b, b # NoAgent, b.leg # "FAILURE", IsUp(b) => b.ctl = "IN_CALL", NEW r,
           \A k \in net' : k.call = c => \/ k \in net
                                         \/ k.method = "INVITE" /\ k.code = 180
                                         \/ k = r /\ r.method = "INVITE" /\ r.code = 200 /\ IsUp(b)
    PROVE  Good(c)
<1>1. SUFFICES ASSUME Regular(c)'
               PROVE  /\ c \notin quit => Calm(c)'
                      /\ c \in quit => c \in placed' /\ Done(c)'
                      /\ c \notin joined
  BY DEF Good
<1>2. /\ c \notin quit => Calm(c)
      /\ c \in quit => c \in placed /\ Done(c)
      /\ c \in joined => Joined(c)
      /\ c \in placed => c \in placed'
  BY <1>1, Before DEF Grows
<1>3. \A m : m.call = c /\ m.method = "INVITE" /\ m.code = 0 => IsPending(m, c)
  BY DEF IsPending
<1>4. ASSUME Calm(c)  PROVE Calm(c)'
  <2>1. \A k \in net : IsPending(k, c) => k \notin net'
    <3>1. CASE CalleeAgent(c) = NoAgent
      <4>1. PICK m \in net : IsPending(m, c) /\ m \notin net'
        BY <1>3, <3>1
      <4> QED BY <1>4, <4>1 DEF Calm
    <3>2. CASE CalleeAgent(c) # NoAgent
      BY <1>4, <3>2 DEF Calm
    <3> QED BY <3>1, <3>2
  <2>2. \A k \in net' : IsPending(k, c) => k = r /\ r.code = 200 /\ IsUp(b)
    BY <2>1 DEF IsPending
  <2>3. \A k \in net' : k.call = c => k.method \in {"INVITE", "ACK"}
    BY <1>4 DEF Calm
  <2>4. ~IsUp(CallerAgent(c))
    BY <1>4 DEF Calm
  <2>5. CallerAgent(c) # NoAgent => CallerAgent(c).leg # "FAILURE" /\ ~CallerAgent(c).freed
    BY <1>4 DEF Calm
  <2> QED BY <2>2, <2>3, <2>4, <2>5 DEF Calm, IsUp, IsPending
<1>5. ASSUME Done(c)  PROVE Done(c)'
  <2>1. CallerAgent(c) = NoAgent \/ CallerAgent(c).freed
    BY <1>5 DEF Done
  <2> QED BY <2>1 DEF Done
<1>6. ~Joined(c)
  <2>1. SUFFICES ASSUME Joined(c)  PROVE FALSE
    OBVIOUS
  <2>2. CASE CalleeAgent(c) = NoAgent
    BY <1>3, <2>1, <2>2 DEF Joined
  <2>3. CASE CalleeAgent(c) # NoAgent
    BY <2>1, <2>3 DEF Joined, IsUp
  <2> QED BY <2>2, <2>3
<1> QED BY <1>2, <1>4, <1>5, <1>6

\* What a callee sends when it accepts a call.
LEMMA AcceptCallOut ==
    ASSUME NEW s \in Step
    PROVE  LET t == AcceptCall(s)
               o == [method |-> "INVITE", code |-> 200, cseq |-> s.request]
           IN  /\ s.leg = "RINGING" => t.leg = "INCALL" /\ t.out = s.out \cup {o}
               /\ s.leg # "RINGING" => t.out = s.out
<1> DEFINE t == AcceptCall(s)
           o == [method |-> "INVITE", code |-> 200, cseq |-> s.request]
           p == [s EXCEPT !.open = s.open + 1]
           q == Send(p, "INVITE", 200, s.request)
<1>1. t = IF s.leg = "RINGING" THEN [q EXCEPT !.own = TRUE, !.ctl = "IN_CALL", !.leg = "INCALL"] ELSE p
  BY DEF AcceptCall
<1>2. p \in Step /\ p.out = s.out /\ s.request \in Nat /\ "INVITE" \in Method /\ 200 \in Codes
  BY DEF Step, Method, Codes
<1> HIDE DEF p
<1>3. q \in Step /\ q.out = s.out \cup {o}
  BY <1>2, SendFields
<1> HIDE DEF q, o
<1>4. LET r == [q EXCEPT !.own = TRUE, !.ctl = "IN_CALL", !.leg = "INCALL"]
      IN  r.leg = "INCALL" /\ r.out = q.out
  BY <1>3 DEF Step
<1>5. /\ s.leg = "RINGING" => t.leg = "INCALL" /\ t.out = s.out \cup {o}
      /\ s.leg # "RINGING" => t.out = s.out
  BY <1>1, <1>2, <1>3, <1>4
<1> QED BY <1>5 DEF o

LEMMA AcceptCalls ==
    ASSUME JInv, IInv', NEW u \in Ua, NEW c \in Call, Accept(u, c)
    PROVE  JInv' /\ Stepped(c)
<1> DEFINE s == Opened(u, c)
           a == agent[u][c]
           t == AcceptCall(s)
           b == Closed(t)
           o == [method |-> "INVITE", code |-> 200, cseq |-> s.request]
           r == Sent(u, c, o)
<1>1. /\ u \notin ServerUa /\ a # NoAgent /\ a.role = "server" /\ Handled(u, c, {}, t)
      /\ UNCHANGED <<lost, failed, placed, reInvites, quit>>
  BY DEF Accept, ActiveCall, faultVars
<1>0. IInv /\ TypeOK /\ Caller[c] \in Ua /\ Callee[c] \in Ua /\ Caller[c] # Callee[c] /\ u \in {Caller[c], Callee[c]}
  BY <1>1, UaRolesAssumption DEF JInv, IInv, AgentInv
<1>2. /\ s \in Step /\ s.active /\ s.out = {} /\ AgentOK(s)
      /\ s.role = a.role /\ s.leg = a.leg /\ s.ctl = a.ctl /\ (s.freed <=> a.freed)
  BY <1>0, <1>1, OpenedFields
<1>3. Grows(c)
  BY <1>1 DEF Grows
<1>r. r.method = "INVITE" /\ r.code = 200
  BY DEF Sent
<1> HIDE DEF s
<1>4. ServerOK(s) /\ s.role = "server"
  BY <1>1, <1>2 DEF AgentOK
<1>5. /\ t \in Step /\ t.active /\ ServerOK(t)
      /\ s.leg = "RINGING" => t.ctl = "IN_CALL" /\ t.leg = "INCALL" /\ t.out = {o}
      /\ s.leg # "RINGING" => t.ctl = s.ctl /\ t.leg = s.leg /\ t.out = {}
  BY <1>2, <1>4, AcceptCallFields, AcceptCallOut
<1> HIDE DEF t, o
<1>6. View(u, c, {}, t)
  BY <1>0, <1>1, <1>5, EventView
<1>7. /\ agent'[u][c] = b
      /\ \A v \in Ua, d \in Call : v # u \/ d # c => agent'[v][d] = agent[v][d]
      /\ \A m \in net' : m \in net \/ \E x \in t.out : m = Sent(u, c, x)
      /\ net \subseteq net'
      /\ silent \subseteq silent' /\ behind \subseteq behind'
  BY <1>5, <1>6 DEF View
<1>8. b # NoAgent /\ b.leg = t.leg /\ b.ctl = t.ctl /\ (b.freed <=> t.freed)
  BY <1>5, ClosedFields
<1> HIDE DEF b, r
<1>9. ~s.freed /\ ~t.freed
  BY <1>4, <1>5 DEF ServerOK
<1>10. ASSUME Regular(c)'  PROVE Good(c)
  <2>1. Regular(c)
    BY <1>3, <1>10, Before
  <2>2. u = Callee[c]
    BY <1>0, <1>1, <2>1, RegularRoles
  <2>3. CallerAgent(c)' = CallerAgent(c) /\ CalleeAgent(c)' = b /\ CalleeAgent(c) = a
    BY <1>0, <1>7, <2>2 DEF CallerAgent, CalleeAgent
  <2>4. CASE s.leg = "RINGING"
    <3>1. ~IsUp(CalleeAgent(c))
      BY <1>2, <1>4, <2>3, <2>4 DEF ServerOK, IsUp, Up
    <3>2. b.leg # "FAILURE" /\ b.ctl = "IN_CALL" /\ IsUp(b)
      BY <1>5, <1>8, <2>4 DEF IsUp
    <3>3. \A k \in net' : k \in net \/ k = r
      BY <1>5, <1>7, <2>4 DEF r
    <3> QED BY <1>1, <1>3, <1>7, <1>8, <1>r, <2>3, <3>1, <3>2, <3>3, CalleeAnswers
  <2>5. CASE s.leg # "RINGING"
    <3>1. SameAgent(CallerAgent(c), CallerAgent(c)') /\ SameAgent(CalleeAgent(c), CalleeAgent(c)')
      BY <1>1, <1>2, <1>5, <1>8, <1>9, <2>3, <2>5 DEF SameAgent
    <3>2. \A k \in net' : k \in net
      BY <1>5, <1>7, <2>5
    <3> QED BY <1>1, <1>3, <1>7, <3>1, <3>2, KeptGood
  <2> QED BY <2>4, <2>5
<1>11. Good(c)
  BY <1>10 DEF Good
<1> QED BY <1>0, <1>1, <1>3, <1>5, <1>11, EventInv

LEMMA DeliverInviteCalls ==
    ASSUME JInv, IInv', NEW m \in net, DeliverInvite(Peer(m.call, m.from), m)
    PROVE  JInv' /\ Stepped(m.call)
<1> DEFINE c == m.call
           u == Peer(c, m.from)
<1>1. /\ agent[u][c] = NoAgent /\ m.code = 0 /\ m.method = "INVITE"
      /\ UNCHANGED <<placed, reInvites, quit, lost, failed>>
  BY DEF DeliverInvite, faultVars
<1>2. /\ m \in Msg /\ c \in Call /\ u \in Ua /\ Caller[c] # Callee[c]
      /\ Caller[c] \in Ua /\ Callee[c] \in Ua
      /\ u \in {Caller[c], Callee[c]} /\ m.cseq \in Nat
      /\ m.from = Caller[c] <=> u = Callee[c]
      /\ IInv /\ TypeOK
  BY PeerFields, UaRolesAssumption DEF JInv, IInv, Msg
<1>3. Grows(c)
  BY <1>1 DEF Grows
<1>4. Regular(c) => u = Callee[c]
  BY <1>1, <1>2 DEF IInv, PlainInv, Regular
<1>5. \/ /\ net' = (net \ {m}) \cup {Answer(m, 486, u)}
         /\ UNCHANGED <<agent, joined, silent, behind>>
      \/ /\ Handled(u, c, {m}, Incoming(u, c, m))
         /\ u \in ServerUa \/ ~Busy(u)
  BY DEF DeliverInvite
<1> HIDE DEF u
<1>6. CASE net' = (net \ {m}) \cup {Answer(m, 486, u)} /\ UNCHANGED <<agent, joined, silent, behind>>
  <2> DEFINE r == Answer(m, 486, u)
  <2>1. 486 \in Codes
    BY DEF Codes
  <2>2. r.code = 486 /\ r.method = m.method /\ r.call = c
    BY <1>2, <2>1, AnswerFields
  <2> HIDE DEF r
  <2>3. net' = (net \ {m}) \cup {r}
    BY <1>6 DEF r
  <2>4. \A k \in net' : k.call = c =>
            \/ k \in net /\ k # m
            \/ /\ k = r /\ m.code = 0 /\ r.code > 200
               /\ r.method = m.method /\ m.method \in {"INVITE", "CANCEL"}
    BY <1>1, <2>2, <2>3
  <2>5. \A k \in net : IsBye(k, c) => k \in net'
    BY <1>1, <2>3 DEF IsBye
  <2>6. Good(c)
    BY <1>1, <1>2, <1>3, <1>6, <2>4, <2>5, AnsweredGood
  <2> QED BY <1>1, <1>2, <1>3, <1>6, <2>2, <2>3, <2>6, NetEventInv
<1>7. CASE Handled(u, c, {m}, Incoming(u, c, m)) /\ (u \in ServerUa \/ ~Busy(u))
  <2> DEFINE n == Cardinality({i \in Number : callMap[u][i] # NoCall})
             e == sessions[u][c]
             o == [method |-> "INVITE", code |-> 180, cseq |-> m.cseq]
             s == [role |-> "server", id |-> n,
                   leg |-> "RINGING", ctl |-> "UAS_RINGING", acked |-> FALSE, own |-> FALSE,
                   freed |-> FALSE, cseq |-> m.cseq, request |-> m.cseq, open |-> e,
                   active |-> TRUE, out |-> {o}]
             y == [method |-> "INVITE", code |-> 200, cseq |-> s.request]
             t == Incoming(u, c, m)
             b == Closed(t)
             r == Sent(u, c, y)
  <2>1. t = IF u \in ServerUa THEN AcceptCall(s) ELSE s
    BY DEF Incoming
  <2>2. e \in Int
    BY <1>2 DEF TypeOK
  <2>3. n \in Number
    BY <1>1, <1>2, NumberFree
  <2> HIDE DEF n, e
  <2>4. /\ s.role = "server" /\ s.leg = "RINGING" /\ s.ctl = "UAS_RINGING" /\ ~s.own /\ ~s.freed /\ s.active
        /\ s.out = {o} /\ o.method = "INVITE" /\ o.code = 180 /\ o.cseq = m.cseq
        /\ y.method = "INVITE" /\ y.code = 200
    OBVIOUS
  <2>5. s \in Step
    <3>1. s.out \in SUBSET Out
      BY <1>2 DEF Out, Method, Codes
    <3> QED BY <1>2, <2>2, <2>3, <3>1 DEF Step, LegState, ControlStates
  <2> HIDE DEF s, t, o, y
  <2>6. ServerOK(s)
    BY <2>4 DEF ServerOK, Up
  <2>7. /\ t \in Step /\ t.active /\ o \in t.out /\ ~t.freed
        /\ t.leg # "FAILURE"
        /\ u \in ServerUa => t.own /\ t.ctl = "IN_CALL" /\ t.out = {o, y}
        /\ u \notin ServerUa => t.ctl = "UAS_RINGING" /\ t.out = {o}
    <3>1. CASE u \in ServerUa
      <4> DEFINE w == AcceptCall(s)
      <4>1. w \in Step /\ w.active /\ ServerOK(w) /\ w.own /\ w.ctl = "IN_CALL"
        BY <2>4, <2>5, <2>6, AcceptCallFields
      <4>2. w.leg = "INCALL" /\ w.out = s.out \cup {y}
        BY <2>4, <2>5, AcceptCallOut DEF y
      <4>3. t = w
        BY <2>1, <3>1
      <4> HIDE DEF w
      <4>4. ~w.freed
        BY <4>1 DEF ServerOK
      <4> QED BY <2>4, <3>1, <4>1, <4>2, <4>3, <4>4
    <3>2. CASE u \notin ServerUa
      BY <2>1, <2>4, <2>5, <3>2
    <3> QED BY <3>1, <3>2
  <2>8. {m} \in SUBSET net /\ Handled(u, c, {m}, t)
    BY <1>7 DEF t
  <2>9. View(u, c, {m}, t)
    BY <1>2, <2>7, <2>8, EventView
  <2>11. /\ agent'[u][c] = b
         /\ \A v \in Ua, d \in Call : v # u \/ d # c => agent'[v][d] = agent[v][d]
         /\ \A k \in net' : (k \in net /\ k # m) \/ \E x \in t.out : k = Sent(u, c, x)
         /\ silent \subseteq silent' /\ behind \subseteq behind'
    BY <2>7, <2>9 DEF View
  <2>12. b # NoAgent /\ b.leg = t.leg /\ b.ctl = t.ctl
    BY <2>7, ClosedFields
  <2> HIDE DEF b
  <2>13. /\ Sent(u, c, o).method = "INVITE" /\ Sent(u, c, o).code = 180
         /\ r.method = "INVITE" /\ r.code = 200
    BY <2>4 DEF Sent
  <2>14. ASSUME Regular(c)'  PROVE Good(c)
    <3>1. u = Callee[c]
      BY <1>2, <1>3, <1>4, <2>14, Before
    <3>2. CallerAgent(c)' = CallerAgent(c) /\ CalleeAgent(c)' = b /\ CalleeAgent(c) = NoAgent
      BY <1>1, <1>2, <2>11, <3>1 DEF CallerAgent, CalleeAgent
    <3>3. b.leg # "FAILURE" /\ (IsUp(b) => b.ctl = "IN_CALL") /\ (u \in ServerUa => IsUp(b))
      BY <2>7, <2>12 DEF IsUp
    <3>4. ~IsUp(CalleeAgent(c))
      BY <3>2 DEF IsUp
    <3>5. \A k \in net' : \/ k \in net
                          \/ k.method = "INVITE" /\ k.code = 180
                          \/ k = r /\ r.method = "INVITE" /\ r.code = 200 /\ IsUp(b)
      BY <2>7, <2>11, <2>13, <3>3
    <3>6. m \notin net'
      <4>1. SUFFICES ASSUME m \in net'  PROVE FALSE
        OBVIOUS
      <4>2. m = Sent(u, c, o) \/ m = r
        BY <2>7, <2>11, <4>1
      <4> QED BY <1>1, <2>13, <4>2
    <3> HIDE DEF c, r
    <3>7. CalleeAgent(c) = NoAgent => \E k \in net : k.call = c /\ k.method = "INVITE" /\ k.code = 0 /\ k \notin net'
      BY <1>1, <3>6 DEF c
    <3> QED BY <1>1, <1>2, <1>3, <2>11, <2>12, <3>2, <3>3, <3>4, <3>5, <3>7, CalleeAnswers
  <2>15. Good(c)
    BY <2>14 DEF Good
  <2>16. \A k \in {m} : k.call = c
    OBVIOUS
  <2> HIDE DEF c
  <2>17. JInv' /\ Stepped(c)
    BY <1>2, <1>3, <1>7, <2>7, <2>8, <2>15, <2>16, EventInv
  <2> QED BY <2>17 DEF c
<1> QED BY <1>5, <1>6, <1>7

\* What becomes of an agent that receives a message, and of call c when u has
\* received m and its agent is t.
Received(s, m) == IF m.code = 0 THEN RecvRequest(s, m) ELSE RecvStatus(s, m)
Delivered(u, c, m, t) ==
    /\ agent'[u][c] = IF t.active THEN Closed(t) ELSE NoAgent
    /\ \A v \in Ua : v # u => agent'[v][c] = agent[v][c]
    /\ \A k \in net' : k.call = c =>
          \/ k \in net /\ k # m
          \/ \E o \in t.out : k = Sent(u, c, o)
    /\ \A k \in net : IsBye(k, c) /\ k # m => k \in net'
    /\ silent \subseteq silent' /\ behind \subseteq behind' /\ quit' = quit /\ placed' = placed

LEMMA DeliverToAgentView ==
    ASSUME JInv, NEW m \in net, DeliverToAgent(Peer(m.call, m.from), m)
    PROVE  LET c == m.call
               u == Peer(c, m.from)
               s == Opened(u, c)
               t == Received(s, m)
           IN  /\ agent[u][c] # NoAgent
               /\ Keeps(s, t) /\ Delivered(u, c, m, t)
               /\ Handled(u, c, {m} \cup SameFinal(m), t)
               /\ UNCHANGED <<lost, failed, placed, reInvites, quit>>
<1> DEFINE c == m.call
           u == Peer(c, m.from)
           s == Opened(u, c)
           t == Received(s, m)
           in == {m} \cup SameFinal(m)
<1>1. /\ agent[u][c] # NoAgent /\ Handled(u, c, in, t)
      /\ UNCHANGED <<lost, failed, placed, reInvites, quit>>
  BY DEF DeliverToAgent, Received, userVars, faultVars
<1>2. m \in Msg /\ MsgOK(m) /\ c \in Call /\ u \in Ua /\ m.code \in Nat /\ TypeOK
  BY PeerFields DEF JInv, IInv
<1>3. s \in Step /\ s.active /\ s.out = {} /\ AgentOK(s)
  BY <1>1, <1>2, OpenedFields DEF JInv
<1> HIDE DEF s, u
<1>4. Keeps(s, t)
  <2>1. m.code # 0 => m.method \in {"INVITE", "CANCEL"}
    BY <1>2 DEF MsgOK
  <2> QED BY <1>2, <1>3, <2>1, RecvRequestKeeps, RecvStatusKeeps DEF Received
<1> HIDE DEF t
<1>5. t \in Step
  BY <1>4 DEF Keeps
<1>6. /\ in \in SUBSET net
      /\ \A n \in in : n.call = c /\ n \in Msg /\ MsgOK(n)
      /\ \A n \in in : n = m \/ (n.code >= 200 /\ n.method = m.method)
  <2>1. \A n \in in : n \in net /\ n.call = c /\ (n = m \/ (n.code >= 200 /\ n.method = m.method))
    BY DEF SameFinal
  <2> QED BY <2>1, OnNet
<1> HIDE DEF in
<1>7. View(u, c, in, t)
  BY <1>1, <1>2, <1>5, <1>6, EventView
<1>10. m \in in /\ \A k \in net : IsBye(k, c) /\ k \in in => k = m
  <2>1. SUFFICES ASSUME NEW k \in net, IsBye(k, c), k \in in, k # m  PROVE FALSE
    BY DEF in
  <2>2. k.code >= 200 /\ k.code \in Nat /\ MsgOK(k)
    BY <1>6, <2>1, OnNet
  <2> QED BY <2>1, <2>2 DEF MsgOK, IsBye
<1>11. Delivered(u, c, m, t)
  <2>1. \A k \in net' : \/ k \in net /\ k # m
                        \/ \E o \in t.out : k = Sent(u, c, o)
    BY <1>7, <1>10 DEF View
  <2>2. /\ agent'[u][c] = IF t.active THEN Closed(t) ELSE NoAgent
        /\ \A v \in Ua : v # u => agent'[v][c] = agent[v][c]
        /\ \A k \in net : IsBye(k, c) /\ k # m => k \in net'
        /\ silent \subseteq silent' /\ behind \subseteq behind'
    BY <1>2, <1>7, <1>10 DEF View
  <2> QED BY <1>1, <2>1, <2>2 DEF Delivered
<1>12. Handled(u, c, {m} \cup SameFinal(m), t)
  BY <1>1 DEF in
<1> QED BY <1>1, <1>4, <1>11, <1>12 DEF s, t, u

\* Who receives what in a regular call.
LEMMA RegularMessage ==
    ASSUME JInv, NEW c \in Call, Regular(c), NEW m \in net, m.call = c, NEW u \in Ua,
           u = Peer(c, m.from), agent[u][c] # NoAgent
    PROVE  LET s == Opened(u, c)
           IN  /\ u \in {Caller[c], Callee[c]} /\ Caller[c] # Callee[c]
               /\ Caller[c] \in Ua /\ Callee[c] \in Ua
               /\ m \in Msg /\ m.code \in Nat /\ m.method \in Method /\ m.from = Peer(c, u)
               /\ s \in Step /\ s.active /\ s.out = {} /\ AgentOK(s)
               /\ m.code > 0 => u = Caller[c] /\ m.method \in {"INVITE", "CANCEL"}
               /\ m.code = 0 /\ m.method \in {"INVITE", "CANCEL"} => u = Callee[c]
               /\ u = Caller[c] => s.role = "client" /\ ClientOK(s)
               /\ u = Callee[c] => s.role = "server" /\ ServerOK(s)
               /\ u = Caller[c] /\ m.method = "CANCEL" => s.freed
<1> DEFINE s == Opened(u, c)
           a == agent[u][c]
<1>1. /\ m \in Msg /\ MsgOK(m) /\ m.code \in Nat /\ Caller[c] # Callee[c]
      /\ u \in {Caller[c], Callee[c]}
      /\ m.from = Caller[c] <=> u = Callee[c]
      /\ m.from = Callee[c] <=> u = Caller[c]
      /\ Caller[c] \in Ua /\ Callee[c] \in Ua
  BY PeerFields, UaRolesAssumption DEF JInv
<1>2. m.method \in Method /\ m.from = Peer(c, u)
  BY <1>1 DEF Msg, Peer
<1>3. /\ s \in Step /\ s.active /\ s.out = {} /\ AgentOK(s) /\ s.role = a.role /\ s.leg = a.leg
  BY OpenedFields DEF JInv
<1> HIDE DEF s
<1>4. /\ m.code > 0 => u = Caller[c] /\ m.method \in {"INVITE", "CANCEL"}
      /\ m.code = 0 /\ m.method \in {"INVITE", "CANCEL"} => u = Callee[c]
  <2>1. /\ m.code > 0 => m.from = Callee[c]
        /\ m.code = 0 /\ m.method = "INVITE" => m.from = Caller[c]
    BY DEF JInv, IInv, PlainInv, Regular
  <2> QED BY <1>1, <2>1 DEF MsgOK
<1>5. /\ u = Caller[c] => s.role = "client" /\ ClientOK(s)
      /\ u = Callee[c] => s.role = "server" /\ ServerOK(s)
  BY <1>3, RegularRoles DEF AgentOK
<1>6. u = Caller[c] /\ m.method = "CANCEL" => s.freed
  BY <1>1, <1>3, <1>5 DEF MsgOK, Failed, ClientOK
<1> QED BY <1>1, <1>2, <1>3, <1>4, <1>5, <1>6 DEF s

\* A call that was hung up does not come up again.
LEMMA DeliveredDone ==
    ASSUME JInv, NEW c \in Call, Regular(c), NEW m \in net, m.call = c, NEW u \in Ua,
           u = Peer(c, m.from), agent[u][c] # NoAgent, NEW t, t = Received(Opened(u, c), m),
           Keeps(Opened(u, c), t), Delivered(u, c, m, t), Done(c)
    PROVE  Done(c)'
<1> DEFINE s == Opened(u, c)
<1>1. /\ u \in {Caller[c], Callee[c]} /\ Caller[c] # Callee[c]
      /\ Caller[c] \in Ua /\ Callee[c] \in Ua
      /\ m \in Msg /\ m.code \in Nat /\ m.method \in Method
      /\ s \in Step /\ s.active /\ s.out = {} /\ AgentOK(s)
      /\ m.code > 0 => m.method \in {"INVITE", "CANCEL"}
      /\ m.code = 0 /\ m.method \in {"INVITE", "CANCEL"} => u = Callee[c]
      /\ u = Caller[c] => s.role = "client" /\ ClientOK(s)
      /\ u = Caller[c] /\ m.method = "CANCEL" => s.freed
  BY RegularMessage
<1>2. s.freed <=> agent[u][c].freed
  BY OpenedFields DEF JInv
<1>3. /\ t = Received(s, m) /\ t \in Step /\ (t.active => (t.freed <=> s.freed))
      /\ agent'[u][c] = IF t.active THEN Closed(t) ELSE NoAgent
      /\ \A v \in Ua : v # u => agent'[v][c] = agent[v][c]
  BY DEF Keeps, Delivered
<1> HIDE DEF s
<1>4. CASE u = Callee[c]
  <2>1. CallerAgent(c)' = CallerAgent(c) /\ CalleeAgent(c) # NoAgent
    BY <1>1, <1>3, <1>4 DEF CallerAgent, CalleeAgent
  <2> QED BY <2>1 DEF Done
<1>5. CASE u = Caller[c] /\ s.freed
  <2>1. agent'[u][c] # NoAgent => agent'[u][c].freed
    BY <1>3, <1>5, ClosedFields
  <2> QED BY <1>5, <2>1 DEF Done, CallerAgent
<1>6. CASE u = Caller[c] /\ ~s.freed
  <2>1. /\ CalleeAgent(c)' = NoAgent
        /\ \A k \in net : k.call = c /\ k.method = "INVITE" => k.code \notin {0, 302, 401}
    BY <1>1, <1>2, <1>3, <1>6 DEF Done, CallerAgent, CalleeAgent
  <2>2. \A o \in t.out : o.method # "INVITE"
    <3>1. CASE m.code = 0
      <4>1. m.method \in {"ACK", "BYE"}
        BY <1>1, <1>6, <3>1 DEF Method
      <4>2. t = RecvRequest(s, m)
        BY <1>3, <3>1 DEF Received
      <4> QED BY <1>1, <3>1, <4>1, <4>2, AckByeFields
    <3>2. CASE m.code > 0
      <4>1. m.method = "INVITE" /\ m.code \notin {302, 401}
        BY <1>1, <1>6, <2>1, <3>2
      <4>2. t = RecvStatus(s, m)
        BY <1>1, <1>3, <3>2 DEF Received
      <4>3. s.leg # "FAILURE" /\ s.leg \in LegState /\ s.role = "client"
        BY <1>1, <1>6 DEF ClientOK, Step
      <4>4. CASE s.leg \in {"C_TRYING", "REDIRECT", "RINGING"}
        BY <1>1, <3>2, <4>1, <4>2, <4>3, <4>4, SetUpStatusFields
      <4>5. CASE s.leg \in {"INCALL", "HOLD"}
        <5>1. s.ctl \in Up
          BY <1>1, <1>6, <4>5 DEF ClientOK, SetUp
        <5> QED BY <1>1, <3>2, <4>1, <4>2, <4>3, <5>1, UpStatusFields
      <4> QED BY <4>3, <4>4, <4>5 DEF LegState
    <3> QED BY <1>1, <3>1, <3>2
  <2>3. \A k \in net' : k.call = c /\ k.method = "INVITE" => k.code \notin {0, 302, 401}
    BY <2>1, <2>2 DEF Delivered, Sent
  <2> QED BY <2>1, <2>3 DEF Done
<1> QED BY <1>1, <1>4, <1>5, <1>6

\* A caller that waits for an answer receives a response.
LEMMA DeliveredCalm ==
    ASSUME JInv, NEW c \in Call, Regular(c), NEW m \in net, m.call = c, NEW u \in Ua,
           u = Peer(c, m.from), agent[u][c] # NoAgent, NEW t, t = Received(Opened(u, c), m),
           Keeps(Opened(u, c), t), Delivered(u, c, m, t), Calm(c),
           m.code > 0, m.method = "INVITE", agent[u][c].leg \in {"C_TRYING", "REDIRECT", "RINGING"}
    PROVE  Calm(c)'
<1> DEFINE s == Opened(u, c)
<1>1. /\ u = Caller[c] /\ Caller[c] # Callee[c] /\ Callee[c] \in Ua
      /\ m \in Msg /\ m.code \in Nat
      /\ s \in Step /\ s.active /\ s.out = {} /\ AgentOK(s) /\ s.role = "client"
  BY RegularMessage
<1>2. s.leg \in {"C_TRYING", "REDIRECT", "RINGING"} /\ (s.freed <=> agent[u][c].freed)
  BY OpenedFields DEF JInv
<1>3. /\ t = RecvStatus(s, m) /\ t \in Step /\ (t.active => (t.freed <=> s.freed))
      /\ agent'[u][c] = IF t.active THEN Closed(t) ELSE NoAgent
      /\ \A v \in Ua : v # u => agent'[v][c] = agent[v][c]
  BY DEF Keeps, Delivered, Received
<1> HIDE DEF s
<1>4. /\ \A o \in t.out : \/ o.method = "ACK" /\ o.code = 0
                          \/ o.method = "INVITE" /\ o.code = 0 /\ m.code \in {302, 401}
      /\ \A o, k \in t.out : o.method = "INVITE" /\ k.method = "INVITE" => o = k
      /\ t.active => t.leg # "FAILURE"
      /\ m.code = 200 => t.active /\ t.ctl = "IN_CALL"
      /\ m.code # 200 => t.ctl \in SetUp
  BY <1>1, <1>2, <1>3, SetUpStatusFields
<1> DEFINE p == CallerAgent(c)'
           q == CalleeAgent(c)
<1>5. p = (IF t.active THEN Closed(t) ELSE NoAgent) /\ CalleeAgent(c)' = q /\ ~s.freed
  BY <1>1, <1>2, <1>3 DEF CallerAgent, CalleeAgent, Calm
<1>6. /\ p # NoAgent => p.leg # "FAILURE" /\ ~p.freed
      /\ m.code = 200 => p # NoAgent /\ p.ctl = "IN_CALL"
      /\ m.code # 200 => ~IsUp(p)
  <2>1. t.active => p # NoAgent /\ p.leg = t.leg /\ (p.freed <=> t.freed) /\ p.ctl = t.ctl
    BY <1>3, <1>5, ClosedFields
  <2> HIDE DEF p
  <2> QED BY <1>3, <1>4, <1>5, <2>1 DEF IsUp, SetUp
<1> HIDE DEF p, q
<1>7. /\ \A k \in net' : k.call = c =>
            \/ k \in net /\ k # m
            \/ k.method = "ACK"
            \/ k.method = "INVITE" /\ k.code = 0 /\ m.code \in {302, 401}
      /\ \A k, l \in net' : /\ k.call = c /\ k.method = "INVITE" /\ ~(k \in net /\ k # m)
                            /\ l.call = c /\ l.method = "INVITE" /\ ~(l \in net /\ l # m)
                            => k = l
  <2>1. \A k \in net' : k.call = c => (k \in net /\ k # m) \/ \E o \in t.out : k = Sent(u, c, o)
    BY DEF Delivered
  <2>2. \A o : Sent(u, c, o).method = o.method /\ Sent(u, c, o).code = o.code
    BY DEF Sent
  <2> QED BY <1>4, <2>1, <2>2
<1>8. /\ \A k \in net : k.call = c => k.method \in {"INVITE", "ACK"}
      /\ \A k, l \in net : IsPending(k, c) /\ IsPending(l, c) => k = l
      /\ \A k \in net : IsPending(k, c) =>
            (k.code = 200 => IsUp(q)) /\ (k.code # 200 => q = NoAgent)
      /\ q # NoAgent => q.leg # "FAILURE"
      /\ IsUp(q) => q.ctl = "IN_CALL"
  BY DEF Calm, q
<1>9. m.code >= 200 => IsPending(m, c)
  BY DEF IsPending
<1>10. \A k : IsPending(k, c) => k.call = c /\ k.method = "INVITE"
  BY DEF IsPending
<1>11. /\ m.code >= 200 => \A k \in net' : IsPending(k, c) => ~(k \in net /\ k # m)
       /\ m.code < 200 => \A k \in net' : IsPending(k, c) => k \in net
  BY <1>7, <1>8, <1>9, <1>10
<1>12. \A k, l \in net' : IsPending(k, c) /\ IsPending(l, c) => k = l
  BY <1>1, <1>7, <1>8, <1>10, <1>11
<1>13. \A k \in net' : IsPending(k, c) =>
          ~IsUp(p) /\ (k.code = 200 => IsUp(q)) /\ (k.code # 200 => q = NoAgent)
  <2>1. SUFFICES ASSUME NEW k \in net', IsPending(k, c)
                 PROVE  ~IsUp(p) /\ (k.code = 200 => IsUp(q)) /\ (k.code # 200 => q = NoAgent)
    OBVIOUS
  <2>2. CASE m.code < 200
    BY <1>6, <1>8, <1>11, <2>1, <2>2
  <2>3. CASE m.code >= 200
    <3>1. k.code = 0 /\ m.code \in {302, 401}
      BY <1>7, <1>10, <1>11, <2>1, <2>3
    <3> QED BY <1>6, <1>8, <1>9, <2>3, <3>1
  <2> QED BY <1>1, <2>2, <2>3
<1>14. IsUp(p) => p.ctl = "IN_CALL" /\ IsUp(q)
  BY <1>6, <1>8, <1>9
<1>15. \A k \in net' : k.call = c => k.method \in {"INVITE", "ACK"}
  BY <1>7, <1>8
<1>16. CallerAgent(c)' = p /\ CalleeAgent(c)' = q
  BY <1>5 DEF p
<1> QED BY <1>6, <1>8, <1>12, <1>13, <1>14, <1>15, <1>16 DEF Calm, IsUp, IsPending

\* A BYE ends the call of its receiver; its sender is gone.
LEMMA DeliveredBye ==
    ASSUME JInv, NEW c \in Call, Regular(c), NEW m \in net, m.call = c, NEW u \in Ua,
           u = Peer(c, m.from), agent[u][c] # NoAgent, NEW t, t = Received(Opened(u, c), m),
           Delivered(u, c, m, t), Joined(c), m.method = "BYE"
    PROVE  Joined(c)'
<1> DEFINE s == Opened(u, c)
<1>1. /\ u \in {Caller[c], Callee[c]} /\ Caller[c] # Callee[c]
      /\ Caller[c] \in Ua /\ Callee[c] \in Ua
      /\ m \in Msg /\ m.code \in Nat /\ m.from = Peer(c, u)
      /\ s \in Step /\ s.active /\ s.out = {} /\ AgentOK(s)
      /\ m.code > 0 => m.method \in {"INVITE", "CANCEL"}
  BY RegularMessage
<1>2. m.code = 0
  BY <1>1
<1>3. s.ctl \in Up
  <2>1. s.ctl = agent[u][c].ctl
    BY OpenedFields DEF JInv
  <2> QED BY <1>1, <2>1 DEF Joined, CallerAgent, CalleeAgent, Up
<1>4. t = RecvRequest(s, m)
  BY <1>2 DEF Received
<1> HIDE DEF s
<1>5. ~t.active /\ t.out = {}
  BY <1>1, <1>2, <1>3, <1>4, AckByeFields
<1>6. /\ agent'[u][c] = NoAgent
      /\ \A v \in Ua : v # u => agent'[v][c] = agent[v][c]
      /\ \A k \in net' : k.call = c => k \in net
  BY <1>5 DEF Delivered
<1>7. agent[m.from][c] = NoAgent
  BY DEF Joined, IsBye
<1>8. agent'[Caller[c]][c] = NoAgent /\ agent'[Callee[c]][c] = NoAgent
  BY <1>1, <1>6, <1>7 DEF Peer
<1>9. \A k \in net' : IsBye(k, c) => agent'[k.from][c] = NoAgent
  BY <1>6, <1>8, OnNet DEF IsBye, MsgOK
<1>10. \A k \in net' : k.call = c => ~IsPending(k, c) /\ k.method # "CANCEL"
  BY <1>6 DEF Joined
<1> QED BY <1>8, <1>9, <1>10 DEF Joined, IsPending, IsBye, CallerAgent, CalleeAgent

\* A call that goes on, or is hung up, or ends, when a message of it arrives.
LEMMA DeliveredGood ==
    ASSUME JInv, NEW c \in Call, Regular(c)', NEW m \in net, m.call = c, NEW u \in Ua,
           u = Peer(c, m.from), agent[u][c] # NoAgent, NEW t, t = Received(Opened(u, c), m),
           Keeps(Opened(u, c), t), Delivered(u, c, m, t), Grows(c)
    PROVE  Good(c)
<1> DEFINE s == Opened(u, c)
           a == agent[u][c]
<1>1. /\ Regular(c)
      /\ c \notin quit => Calm(c)
      /\ c \in quit => c \in placed /\ Done(c)
      /\ c \in joined => c \in placed /\ Joined(c)
  BY Before
<1>2. /\ u \in {Caller[c], Callee[c]} /\ Caller[c] # Callee[c]
      /\ Caller[c] \in Ua /\ Callee[c] \in Ua
      /\ m \in Msg /\ m.code \in Nat /\ m.method \in Method
      /\ s \in Step /\ s.active /\ s.out = {} /\ AgentOK(s)
      /\ m.code > 0 => u = Caller[c] /\ m.method \in {"INVITE", "CANCEL"}
      /\ m.code = 0 /\ m.method \in {"INVITE", "CANCEL"} => u = Callee[c]
      /\ u = Caller[c] => s.role = "client" /\ ClientOK(s)
      /\ u = Callee[c] => s.role = "server" /\ ServerOK(s)
  BY <1>1, RegularMessage
<1>3. s.leg = a.leg /\ s.ctl = a.ctl /\ (s.freed <=> a.freed)
  BY OpenedFields DEF JInv
<1>4. t = Received(s, m) /\ Keeps(s, t)
  OBVIOUS
<1> HIDE DEF s
<1>5. /\ agent'[u][c] = IF t.active THEN Closed(t) ELSE NoAgent
      /\ \A v \in Ua : v # u => agent'[v][c] = agent[v][c]
      /\ silent \subseteq silent' /\ behind \subseteq behind' /\ quit' = quit /\ placed' = placed
  BY DEF Delivered
<1>6. /\ Joined(c) => a.ctl = "IN_CALL" /\ ~IsPending(m, c) /\ m.method # "CANCEL"
      /\ Calm(c) => a.leg # "FAILURE" /\ m.method \in {"INVITE", "ACK"}
      /\ Calm(c) /\ u = Callee[c] /\ IsPending(m, c) => m.code = 200
      /\ Calm(c) /\ u = Caller[c] /\ IsUp(a) => a.ctl = "IN_CALL" /\ ~IsPending(m, c)
  <2>1. Joined(c) => a.ctl = "IN_CALL" /\ ~IsPending(m, c) /\ m.method # "CANCEL"
    BY <1>2 DEF Joined, CallerAgent, CalleeAgent
  <2>2. Calm(c) => a.leg # "FAILURE" /\ m.method \in {"INVITE", "ACK"}
    BY <1>2 DEF Calm, CallerAgent, CalleeAgent
  <2>3. Calm(c) /\ u = Callee[c] /\ IsPending(m, c) => m.code = 200
    BY DEF Calm, CalleeAgent
  <2>4. Calm(c) /\ u = Caller[c] /\ IsUp(a) => a.ctl = "IN_CALL" /\ ~IsPending(m, c)
    BY DEF Calm, CallerAgent
  <2> QED BY <2>1, <2>2, <2>3, <2>4
\* Nothing has changed.
<1>7. ASSUME m.method # "BYE", ~(m.code = 0 /\ m.method \in {"INVITE", "CANCEL"}), t \in Step, t.out = {},
             t.active, t.leg = s.leg, t.ctl = s.ctl, t.freed <=> s.freed
      PROVE  Good(c)
  <2>1. SameAgent(a, agent'[u][c])
    BY <1>3, <1>5, <1>7, ClosedFields DEF SameAgent
  <2>2. SameAgent(CallerAgent(c), CallerAgent(c)') /\ SameAgent(CalleeAgent(c), CalleeAgent(c)')
    <3>1. CASE u = Caller[c]
      <4>1. CalleeAgent(c)' = CalleeAgent(c)
        BY <1>2, <1>5, <3>1 DEF CalleeAgent
      <4>2. CallerAgent(c) = a /\ CallerAgent(c)' = agent'[u][c]
        BY <3>1 DEF CallerAgent
      <4> QED BY <2>1, <4>1, <4>2 DEF SameAgent
    <3>2. CASE u = Callee[c]
      <4>1. CallerAgent(c)' = CallerAgent(c)
        BY <1>2, <1>5, <3>2 DEF CallerAgent
      <4>2. CalleeAgent(c) = a /\ CalleeAgent(c)' = agent'[u][c]
        BY <3>2 DEF CalleeAgent
      <4> QED BY <2>1, <4>1, <4>2 DEF SameAgent
    <3> QED BY <1>2, <3>1, <3>2
  <2>3. \A k \in net' : k.call = c => k \in net
    BY <1>7 DEF Delivered
  <2>4. \A k \in net : IsBye(k, c) => k \in net'
    BY <1>7 DEF Delivered, IsBye
  <2> QED BY <1>5, <2>2, <2>3, <2>4, KeptGood
\* The call changes.
<1>8. ASSUME Calm(c) => Calm(c)' /\ ~Joined(c), Joined(c) => Joined(c)'  PROVE Good(c)
  <2>1. Done(c) => Done(c)'
    BY <1>1, DeliveredDone
  <2> QED BY <1>1, <1>5, <1>8, <2>1 DEF Good
<1>9. CASE m.method = "ACK"
  <2>1. m.code = 0
    BY <1>2, <1>9
  <2>2. t = RecvRequest(s, m)
    BY <1>4, <2>1 DEF Received
  <2>3. CASE s.leg # "FAILURE"
    <3>1. t \in Step /\ t.out = {} /\ t.active /\ t.leg = s.leg /\ t.ctl = s.ctl /\ (t.freed <=> s.freed)
      BY <1>2, <1>9, <2>1, <2>2, <2>3, AckByeFields
    <3> QED BY <1>7, <1>9, <3>1
  <2>4. CASE s.leg = "FAILURE"
    <3>1. s.ctl # "IN_CALL"
      BY <1>2, <2>4 DEF ClientOK, ServerOK, Up
    <3> QED BY <1>3, <1>6, <1>8, <2>4, <3>1
  <2> QED BY <2>3, <2>4
<1>10. CASE m.method = "BYE"
  <2>1. Joined(c) => Joined(c)'
    BY <1>1, <1>10, DeliveredBye
  <2> QED BY <1>6, <1>8, <1>10, <2>1
<1>11. CASE m.method = "CANCEL"
  BY <1>6, <1>8, <1>11
<1>12. CASE m.method = "INVITE" /\ m.code = 0
  <2>1. IsPending(m, c)
    BY <1>12 DEF IsPending
  <2> QED BY <1>2, <1>6, <1>8, <1>12, <2>1
<1>13. CASE m.method = "INVITE" /\ m.code > 0
  <2>1. u = Caller[c] /\ s.role = "client" /\ ClientOK(s) /\ s.leg \in LegState
    BY <1>2, <1>13 DEF Step
  <2>2. t = RecvStatus(s, m)
    BY <1>2, <1>4, <1>13 DEF Received
  <2>3. CASE s.leg = "FAILURE"
    <3>1. s.ctl # "IN_CALL"
      BY <2>1, <2>3 DEF ClientOK, Up
    <3> QED BY <1>3, <1>6, <1>8, <2>3, <3>1
  <2>4. CASE s.leg \in {"C_TRYING", "REDIRECT", "RINGING"}
    <3>1. s.ctl # "IN_CALL"
      BY <2>1, <2>4 DEF ClientOK, Up
    <3>2. Calm(c) => Calm(c)'
      BY <1>1, <1>3, <1>13, <2>4, DeliveredCalm
    <3> QED BY <1>3, <1>6, <1>8, <3>1, <3>2
  <2>5. CASE s.leg \in {"INCALL", "HOLD"}
    <3>1. s.ctl \in Up
      BY <2>1, <2>5 DEF ClientOK, SetUp
    <3>2. IsUp(a)
      BY <1>3, <3>1 DEF IsUp, Up
    <3>3. CASE s.ctl = "IN_CALL" /\ m.code < 200
      <4>1. t = s
        BY <1>2, <1>13, <2>1, <2>2, <3>1, <3>3, UpStatusFields
      <4> QED BY <1>2, <1>7, <1>13, <4>1
    <3>4. CASE ~(s.ctl = "IN_CALL" /\ m.code < 200)
      <4>1. m.code >= 200 => IsPending(m, c)
        BY <1>13 DEF IsPending
      <4> QED BY <1>2, <1>3, <1>6, <1>8, <2>1, <3>2, <3>4, <4>1
    <3> QED BY <3>3, <3>4
  <2> QED BY <2>1, <2>3, <2>4, <2>5 DEF LegState
<1> QED BY <1>2, <1>9, <1>10, <1>11, <1>12, <1>13 DEF Method

LEMMA DeliverToAgentCalls ==
    ASSUME JInv, IInv', NEW m \in net, DeliverToAgent(Peer(m.call, m.from), m)
    PROVE  JInv' /\ Stepped(m.call)
<1> DEFINE c == m.call
           u == Peer(c, m.from)
           s == Opened(u, c)
           t == Received(s, m)
           in == {m} \cup SameFinal(m)
<1>1. /\ agent[u][c] # NoAgent
      /\ Keeps(s, t) /\ Delivered(u, c, m, t)
      /\ Handled(u, c, in, t)
      /\ UNCHANGED <<lost, failed, placed, reInvites, quit>>
  BY DeliverToAgentView
<1>2. c \in Call /\ u \in Ua /\ u \in {Caller[c], Callee[c]}
  BY PeerFields DEF JInv
<1>3. Grows(c)
  BY <1>1 DEF Grows
<1>4. in \in SUBSET net /\ \A n \in in : n.call = c
  BY DEF SameFinal
<1>5. /\ s.own <=> agent[u][c].own
      /\ s.freed <=> agent[u][c].freed
  BY <1>1, <1>2, OpenedFields DEF JInv
<1>7. Keeps(Opened(u, c), t) /\ t = Received(Opened(u, c), m)
  BY <1>1
<1> HIDE DEF t, in, s, u, c
<1>8. Good(c)
  <2>1. m.call = c /\ u = Peer(c, m.from)
    BY DEF c, u
  <2>2. Regular(c)' => Good(c)
    BY <1>1, <1>2, <1>3, <1>7, <2>1, DeliveredGood
  <2> QED BY <2>2 DEF Good
<1>9. t.active /\ u \in ServerUa => t.own /\ ~t.freed
  BY <1>1, <1>2, <1>5 DEF JInv, ServerUaInv, Keeps
<1>10. t \in Step
  BY <1>1 DEF Keeps
<1>11. JInv' /\ Stepped(c)
  BY <1>1, <1>2, <1>3, <1>4, <1>8, <1>9, <1>10, EventInv
<1> QED BY <1>11 DEF c

LEMMA StutterCalls ==
    ASSUME JInv, IInv', UNCHANGED vars
    PROVE  JInv'
<1>1. UNCHANGED <<agent, net, lost, failed, reInvites, placed, quit, joined, silent, behind>>
  BY DEF vars
<1>2. \A c \in Call : Same(c)
  BY <1>1 DEF Same, CallerAgent, CalleeAgent, Regular, Undisturbed, Lossless
<1>3. \A c \in Call : CallInv(c)'
  BY <1>2, SameInv DEF JInv
<1>4. OneCallInv' /\ ServerUaInv'
  BY <1>1 DEF JInv, OneCallInv, ServerUaInv
<1> QED BY <1>3, <1>4 DEF JInv

LEMMA InitCalls == UaInit => JInv
<1> SUFFICES ASSUME UaInit  PROVE JInv
  OBVIOUS
<1>1. \A u \in Ua, c \in Call : agent[u][c] = NoAgent
  BY DEF UaInit
<1>2. net = {} /\ quit = {} /\ joined = {}
  BY DEF UaInit
<1>3. OneCallInv /\ ServerUaInv
  BY <1>1, UaRolesAssumption DEF OneCallInv, ServerUaInv
<1>4. ASSUME NEW c \in Call  PROVE CallInv(c)
  <2>1. CallerAgent(c) = NoAgent /\ CalleeAgent(c) = NoAgent
    BY <1>1, UaRolesAssumption DEF CallerAgent, CalleeAgent
  <2>2. Calm(c)
    BY <1>2, <2>1 DEF Calm, IsUp
  <2> QED BY <1>2, <2>2 DEF CallInv
<1> QED BY <1>3, <1>4, InitInv DEF JInv
=============================================================================
