---------------------------- MODULE UaCallProofs ----------------------------
(***************************************************************************)
(* Proofs about UaCall, for any user agents and calls between them, any    *)
(* number of hold commands and of lost messages.                           *)
(***************************************************************************)
EXTENDS UaCall, FunctionTheorems, FiniteSetTheorems, TLAPS

(***************************************************************************)
(* The inductive invariant.                                                *)
(***************************************************************************)

SetUp == {"TRYING", "UAC_RINGING"}
Up == {"IN_CALL", "IN_HOLD"}

\* The agent of a caller, or such an agent in the middle of a step.
ClientOK(a) ==
    /\ a.own
    /\ a.ctl \in SetUp \cup Up
    /\ a.ctl \in Up => a.leg \in {"INCALL", "HOLD"} /\ ~a.freed
    /\ a.ctl = "TRYING" => a.leg \in {"C_TRYING", "REDIRECT", "FAILURE"}
    /\ a.ctl = "UAC_RINGING" => a.leg \in {"RINGING", "FAILURE"}
    /\ a.leg = "FAILURE" => a.freed

\* The agent of a callee, or of a call that rings again.
ServerOK(a) ==
    /\ ~a.freed
    /\ a.ctl \in {"UAS_RINGING"} \cup Up
    /\ a.own <=> a.ctl \in Up
    /\ a.own => a.leg \in {"INCALL", "HOLD"}
    /\ a.leg \in {"RINGING", "FAILURE", "INCALL", "HOLD"}

AgentOK(a) == (a.role = "client" => ClientOK(a)) /\ (a.role = "server" => ServerOK(a))

AgentInv ==
    \A u \in Ua, c \in Call : agent[u][c] # NoAgent =>
        /\ c \in placed /\ aborted[u] = "none"
        /\ u \in {Caller[c], Callee[c]}
        /\ agent[u][c].role = "client" => u = Caller[c]
        /\ AgentOK(agent[u][c])

\* The caller's agent is not waiting for a final response any more, or it has
\* sent a CANCEL.
Past(c) ==
    LET a == agent[Caller[c]][c]
    IN  a # NoAgent /\ a.role = "client" => a.leg \in {"INCALL", "HOLD", "FAILURE"}
Failed(c) ==
    LET a == agent[Caller[c]][c]
    IN  a # NoAgent /\ a.role = "client" => a.leg = "FAILURE"

\* A CANCEL, an ACK or a BYE that is on its way, and what came of them.
MsgOK(m) ==
    /\ m.call \in placed
    /\ m.from \in {Caller[m.call], Callee[m.call]}
    /\ m.code > 0 => m.method \in {"INVITE", "CANCEL"}
    /\ m.method = "CANCEL" => Failed(m.call) /\ (m.code = 0 <=> m.from = Caller[m.call])
    /\ m.method = "ACK" /\ m.from = Caller[m.call] => Past(m.call)
    /\ m.method = "BYE" /\ m.from = Callee[m.call] => Past(m.call)
NetInv == \A m \in net : MsgOK(m)

AckedInv ==
    \A c \in Call :
        agent[Callee[c]][c] # NoAgent /\ agent[Callee[c]][c].acked => Past(c)

\* What is in the map is in CallDB, under the same number.
MapInv ==
    \A u \in Ua, n \in Number : callMap[u][n] # NoCall =>
        agent[u][callMap[u][n]] # NoAgent /\ agent[u][callMap[u][n]].id = n

\* Before the first re-INVITE of a call, all requests are the caller's but BYE.
PlainInv ==
    \A c \in Call : reInvites[c] = 0 =>
        /\ \A m \in net : m.call = c /\ m.code > 0 => m.from = Callee[c]
        /\ \A m \in net : m.call = c /\ m.code = 0 /\ m.method = "INVITE" => m.from = Caller[c]
        /\ \A u \in Ua : agent[u][c] # NoAgent /\ agent[u][c].role = "server" =>
              u = Callee[c] /\ (agent[u][c].ctl = "UAS_RINGING" => agent[u][c].leg \in {"RINGING", "FAILURE"})

Direct(a) ==
    a.role = "client" => a.leg # "REDIRECT" /\ (a.freed => a.leg = "FAILURE")

\* Without a redirection no leg is in REDIRECT, where it can lose its session
\* and still be answered.
DirectInv ==
    302 \notin ProxyCode =>
        /\ \A m \in net : m.code # 302
        /\ \A u \in Ua, c \in Call : agent[u][c] # NoAgent => Direct(agent[u][c])
        /\ SessionAtHand

IInv ==
    /\ TypeOK
    /\ AgentInv
    /\ NetInv
    /\ AckedInv
    /\ MapInv
    /\ AgentPersisted
    /\ MediaReleased
    /\ PlainInv
    /\ DirectInv

(***************************************************************************)
(* An agent in the middle of a step.                                       *)
(***************************************************************************)

Codes == {0, 100, 180, 200, 302, 401, 404, 408, 486, 487, 501}
Out == [method : Method, code : Codes, cseq : Nat]
Step == [role : {"client", "server"}, id : Number, leg : LegState, ctl : ControlStates,
         acked : BOOLEAN, own : BOOLEAN, freed : BOOLEAN, cseq : Nat, request : Nat,
         open : Int, out : SUBSET Out, active : BOOLEAN]

\* The open sessions that are not the agent's own.
Rest(s) == s.open - (IF s.own /\ ~s.freed THEN 1 ELSE 0)

\* What only messages and commands of a call that goes on change.
Core(s, t) ==
    /\ t.role = s.role /\ t.id = s.id /\ t.ctl = s.ctl
    /\ (t.acked <=> s.acked) /\ (t.own <=> s.own)
    /\ t.cseq = s.cseq /\ t.request = s.request

LEMMA SendFields ==
    ASSUME NEW s \in Step, NEW method \in Method, NEW code \in Codes, NEW cseq \in Nat
    PROVE  LET t == Send(s, method, code, cseq)
           IN  /\ t \in Step /\ Core(s, t)
               /\ t.leg = s.leg /\ (t.freed <=> s.freed) /\ t.open = s.open /\ (t.active <=> s.active)
               /\ t.out = s.out \cup {[method |-> method, code |-> code, cseq |-> cseq]}
BY DEF Send, Step, Core, Out

LEMMA FreeMediaFields ==
    ASSUME NEW s \in Step
    PROVE  LET t == FreeMedia(s)
           IN  /\ t \in Step /\ Core(s, t)
               /\ t.leg = s.leg /\ t.out = s.out /\ (t.active <=> s.active)
               /\ t.freed
               /\ s.active => t.open = Rest(s)
               /\ ~s.active \/ ~s.own => t.open = s.open
<1>1. s.active \in BOOLEAN /\ s.own \in BOOLEAN /\ s.freed \in BOOLEAN /\ s.open \in Int
  BY DEF Step
<1>2. CASE s.freed
  <2>1. FreeMedia(s) = s
    BY <1>2 DEF FreeMedia
  <2>2. Rest(s) = s.open
    BY <1>1, <1>2 DEF Rest
  <2> QED BY <1>2, <2>1, <2>2 DEF Core
<1>3. CASE ~s.freed
  <2> DEFINE n == IF s.active /\ s.own THEN s.open - 1 ELSE s.open
  <2>1. FreeMedia(s) = [s EXCEPT !.freed = TRUE, !.open = n]
    BY <1>3 DEF FreeMedia
  <2>2. n \in Int /\ (s.active => n = Rest(s)) /\ (~s.active \/ ~s.own => n = s.open)
    BY <1>1, <1>3 DEF Rest
  <2> HIDE DEF n
  <2> QED BY <2>1, <2>2 DEF Core, Step
<1> QED BY <1>2, <1>3

LEMMA TearDownFields ==
    ASSUME NEW s \in Step
    PROVE  LET t == TearDown(s)
           IN  /\ t \in Step /\ Core(s, t)
               /\ t.leg = s.leg /\ (t.freed <=> s.freed) /\ t.open = s.open /\ t.out = s.out
               /\ ~t.active
BY DEF TearDown, Step, Core

-----------------------------------------------------------------------------
(* Ending a call.                                                          *)

\* What is sent to end a call.
EndMsg(t, o) ==
    \/ o.method = "CANCEL" /\ o.code = 0 /\ t.role = "client" /\ t.leg = "FAILURE"
    \/ o.method = "BYE" /\ o.code = 0 /\ (t.role = "client" \/ t.acked)
    \/ o.method = "INVITE" /\ o.code = 486 /\ t.role = "server"

\* t comes from s by functions that end calls.
Ended(s, t) ==
    /\ t \in Step /\ Core(s, t)
    /\ t.leg = s.leg \/ (s.role = "client" /\ s.leg \in {"C_TRYING", "RINGING"} /\ t.leg = "FAILURE")
    /\ \A o \in t.out : o \in s.out \/ EndMsg(t, o)

\* ... and neither loses a session nor frees one that is not the agent's.
Finished(s, t) ==
    /\ Ended(s, t)
    /\ t.open = Rest(s)
    /\ t.active => /\ t.role = "client" /\ t.ctl \in SetUp /\ t.freed
                   /\ t.leg = "FAILURE" \/ (t.leg = "REDIRECT" /\ s.leg = "REDIRECT")
                   /\ ClientOK(t)

LEMMA EndedTrans ==
    ASSUME NEW s \in Step, NEW t, NEW v, Ended(s, t), Ended(t, v)
    PROVE  Ended(s, v)
BY DEF Ended, Core, EndMsg

LEMMA EndOutgoingFields ==
    ASSUME NEW s \in Step, s.active, s.role = "client"
    PROVE  LET t == EndOutgoing(s)
           IN  /\ Ended(s, t) /\ t.open = s.open /\ (t.freed <=> s.freed)
               /\ t.active <=> s.leg \in {"C_TRYING", "RINGING", "REDIRECT"}
               /\ t.active => t.leg = IF s.leg = "REDIRECT" THEN "REDIRECT" ELSE "FAILURE"
<1>1. CASE s.leg \in {"C_TRYING", "RINGING"}
  <2> DEFINE r == Send(s, "CANCEL", 0, s.request)
  <2>1. EndOutgoing(s) = [r EXCEPT !.leg = "FAILURE"]
    BY <1>1 DEF EndOutgoing
  <2>2. s.request \in Nat /\ "CANCEL" \in Method /\ 0 \in Codes
    BY DEF Step, Method, Codes
  <2>3. /\ r \in Step /\ Core(s, r)
        /\ (r.freed <=> s.freed) /\ r.open = s.open /\ (r.active <=> s.active)
        /\ r.out = s.out \cup {[method |-> "CANCEL", code |-> 0, cseq |-> s.request]}
    BY <2>2, SendFields
  <2> HIDE DEF r
  <2> DEFINE t == [r EXCEPT !.leg = "FAILURE"]
  <2>4. /\ t \in Step /\ Core(s, t) /\ t.leg = "FAILURE"
        /\ (t.freed <=> s.freed) /\ t.open = s.open /\ (t.active <=> s.active) /\ t.out = r.out
    BY <2>3 DEF Step, Core, LegState
  <2> HIDE DEF t
  <2>5. \A o \in t.out : o \in s.out \/ EndMsg(t, o)
    BY <2>3, <2>4 DEF EndMsg, Core
  <2> QED BY <1>1, <2>1, <2>4, <2>5 DEF Ended, t
<1>2. CASE s.leg = "REDIRECT"
  <2>1. EndOutgoing(s) = s
    BY <1>2 DEF EndOutgoing
  <2> QED BY <1>2, <2>1 DEF Ended, Core
<1>3. CASE s.leg \notin {"C_TRYING", "RINGING", "REDIRECT"}
  <2>1. EndOutgoing(s) = TearDown(s)
    BY <1>3 DEF EndOutgoing
  <2> QED BY <1>3, <2>1, TearDownFields DEF Ended
<1> QED BY <1>1, <1>2, <1>3

LEMMA EndIncomingFields ==
    ASSUME NEW s \in Step, s.role = "server"
    PROVE  LET t == EndIncoming(s)
           IN  Ended(s, t) /\ t.open = s.open /\ ~t.active
<1> DEFINE r == IF s.leg = "RINGING" THEN Send(s, "INVITE", 486, s.request) ELSE s
<1>1. s.request \in Nat /\ "INVITE" \in Method /\ 486 \in Codes
  BY DEF Step, Method, Codes
<1>2. /\ r \in Step /\ Core(s, r) /\ r.leg = s.leg /\ r.open = s.open
      /\ \A o \in r.out : o \in s.out \/ (o.method = "INVITE" /\ o.code = 486)
  <2>1. CASE s.leg = "RINGING"
    BY <1>1, <2>1, SendFields
  <2>2. CASE s.leg # "RINGING"
    BY <2>2 DEF Core
  <2> QED BY <2>1, <2>2
<1>3. EndIncoming(s) = TearDown(r)
  BY DEF EndIncoming
<1> HIDE DEF r
<1> QED BY <1>2, <1>3, TearDownFields DEF Ended, EndMsg, Core

LEMMA SendByeFields ==
    ASSUME NEW s \in Step
    PROVE  LET t == SendBye(s)
           IN  /\ t \in Step /\ Core(s, t) /\ Ended(s, t)
               /\ t.leg = s.leg /\ (t.freed <=> s.freed) /\ t.open = s.open /\ (t.active <=> s.active)
<1>1. s.cseq + 1 \in Nat /\ "BYE" \in Method /\ 0 \in Codes
  BY DEF Step, Method, Codes
<1>2. CASE s.role = "client" \/ s.acked
  <2> DEFINE t == Send(s, "BYE", 0, s.cseq + 1)
  <2>1. SendBye(s) = t
    BY <1>2 DEF SendBye
  <2>2. /\ t \in Step /\ Core(s, t)
        /\ t.leg = s.leg /\ (t.freed <=> s.freed) /\ t.open = s.open /\ (t.active <=> s.active)
        /\ t.out = s.out \cup {[method |-> "BYE", code |-> 0, cseq |-> s.cseq + 1]}
    BY <1>1, SendFields
  <2> HIDE DEF t
  <2> QED BY <1>2, <2>1, <2>2 DEF Ended, EndMsg, Core
<1>3. CASE ~(s.role = "client" \/ s.acked)
  <2>1. SendBye(s) = s
    BY <1>3 DEF SendBye
  <2> QED BY <2>1 DEF Ended, Core
<1> QED BY <1>2, <1>3

LEMMA DoByeFields ==
    ASSUME NEW s \in Step, s.active
    PROVE  LET t == DoBye(s)
           IN  Finished(s, t) /\ ~t.active
<1> DEFINE r == IF s.ctl = "IN_HOLD" THEN s ELSE SendBye(s)
           f == FreeMedia(r)
<1>1. r \in Step /\ Ended(s, r) /\ r.active /\ Rest(r) = Rest(s)
  BY SendByeFields DEF Ended, Core, Rest
<1>2. DoBye(s) = TearDown(f)
  BY DEF DoBye
<1> HIDE DEF r
<1>3. /\ f \in Step /\ Core(r, f) /\ f.leg = r.leg /\ f.out = r.out /\ f.open = Rest(r)
  BY <1>1, FreeMediaFields
<1>4. Ended(r, f)
  BY <1>3 DEF Ended
<1> HIDE DEF f
<1>5. Ended(f, TearDown(f)) /\ TearDown(f).open = f.open /\ ~TearDown(f).active
  BY <1>3, TearDownFields DEF Ended
<1>6. Ended(s, TearDown(f))
  BY <1>1, <1>3, <1>4, <1>5, EndedTrans
<1> QED BY <1>1, <1>2, <1>3, <1>5, <1>6 DEF Finished

LEMMA EndFields ==
    ASSUME NEW s \in Step, s.active, AgentOK(s)
    PROVE  LET t == End(s)
           IN  /\ Ended(s, t)
               /\ s.ctl \in Up => ~t.active /\ t.open = Rest(s)
               /\ s.ctl \notin Up => t.open = s.open
               /\ s.ctl = "UAS_RINGING" => ~t.active
               /\ s.ctl \in SetUp =>
                     /\ t.freed <=> s.freed
                     /\ t.active <=> s.leg \in {"C_TRYING", "RINGING", "REDIRECT"}
                     /\ t.active => t.leg = IF s.leg = "REDIRECT" THEN "REDIRECT" ELSE "FAILURE"
<1>1. /\ s.ctl \in SetUp \cup {"UAS_RINGING"} \cup Up
      /\ s.ctl \in SetUp => s.role = "client"
      /\ s.ctl = "UAS_RINGING" => s.role = "server"
  BY DEF Step, AgentOK, ClientOK, ServerOK, SetUp, Up
<1>2. CASE s.ctl \in SetUp
  <2>1. End(s) = EndOutgoing(s)
    BY <1>2 DEF End, SetUp
  <2>2. s.ctl \notin Up /\ s.ctl # "UAS_RINGING"
    BY <1>2 DEF SetUp, Up
  <2> QED BY <1>1, <1>2, <2>1, <2>2, EndOutgoingFields
<1>3. CASE s.ctl = "UAS_RINGING"
  <2>1. End(s) = EndIncoming(s)
    BY <1>3 DEF End
  <2>2. s.ctl \notin Up /\ s.ctl \notin SetUp
    BY <1>3 DEF SetUp, Up
  <2> QED BY <1>1, <1>3, <2>1, <2>2, EndIncomingFields
<1>4. CASE s.ctl \in Up
  <2>1. End(s) = DoBye(s)
    BY <1>4 DEF End, Up
  <2>2. s.ctl # "UAS_RINGING" /\ s.ctl \notin SetUp
    BY <1>4 DEF SetUp, Up
  <2> QED BY <1>4, <2>1, <2>2, DoByeFields DEF Finished
<1> QED BY <1>1, <1>2, <1>3, <1>4

\* The same with its session freed before.
LEMMA FreedOK ==
    ASSUME NEW s \in Step, s.active, AgentOK(s), s.ctl \notin Up
    PROVE  LET f == FreeMedia(s)
           IN  /\ f \in Step /\ Ended(s, f) /\ f.active /\ f.freed /\ f.open = Rest(s) /\ Rest(f) = Rest(s)
               /\ f.leg = s.leg
               /\ s.role = "client" => ClientOK(f)
<1> DEFINE f == FreeMedia(s)
<1>1. /\ f \in Step /\ Core(s, f) /\ f.leg = s.leg /\ f.out = s.out
      /\ f.active /\ f.freed /\ f.open = Rest(s)
  BY FreeMediaFields
<1> HIDE DEF f
<1>2. Rest(f) = f.open
  BY <1>1 DEF Rest, Step
<1>3. s.role = "client" => ClientOK(f)
  BY <1>1 DEF AgentOK, ClientOK, Core
<1> QED BY <1>1, <1>2, <1>3 DEF Ended, f

LEMMA EndCallFields ==
    ASSUME NEW s \in Step, s.active, AgentOK(s)
    PROVE  Finished(s, EndCall(s))
<1> DEFINE f == FreeMedia(s)
<1>0. s.role \in {"client", "server"}
  BY DEF Step
<1>1. CASE s.ctl \in Up
  <2>1. EndCall(s) = TearDown(f)
    BY <1>1 DEF EndCall, Up
  <2>2. f \in Step /\ Core(s, f) /\ f.leg = s.leg /\ f.out = s.out /\ f.open = Rest(s)
    BY FreeMediaFields
  <2> HIDE DEF f
  <2>3. LET t == TearDown(f)
        IN  t \in Step /\ Core(f, t) /\ t.leg = f.leg /\ t.out = f.out /\ t.open = f.open /\ ~t.active
    BY <2>2, TearDownFields
  <2>4. Ended(s, f) /\ Ended(f, TearDown(f))
    BY <2>2, <2>3 DEF Ended
  <2> QED BY <2>1, <2>2, <2>3, <2>4, EndedTrans DEF Finished
<1>2. CASE s.ctl \notin Up /\ s.role = "client"
  <2>1. EndCall(s) = End(f)
    BY <1>2 DEF EndCall, Up
  <2>2. /\ f \in Step /\ Ended(s, f) /\ f.active /\ f.freed /\ f.open = Rest(s) /\ f.leg = s.leg
        /\ ClientOK(f)
    BY <1>2, FreedOK
  <2> HIDE DEF f
  <2>3. f.ctl \in SetUp /\ f.ctl \notin Up /\ f.role = "client" /\ AgentOK(f) /\ s.leg \in LegState
    BY <1>2, <2>2 DEF Ended, Core, AgentOK, ClientOK, Step
  <2> DEFINE t == End(f)
  <2>4. /\ Ended(f, t) /\ t.open = f.open
        /\ t.freed <=> f.freed
        /\ t.active => t.leg = IF f.leg = "REDIRECT" THEN "REDIRECT" ELSE "FAILURE"
    BY <2>2, <2>3, EndFields
  <2> HIDE DEF t
  <2>5. Ended(s, t)
    BY <2>2, <2>4, EndedTrans
  <2>6. t.active => /\ t.role = "client" /\ t.ctl \in SetUp /\ t.freed
                    /\ t.leg = "FAILURE" \/ (t.leg = "REDIRECT" /\ s.leg = "REDIRECT")
                    /\ t.ctl = f.ctl /\ (t.own <=> f.own)
    BY <2>2, <2>3, <2>4 DEF Ended, Core
  <2>7. t.active => ClientOK(t)
    BY <2>2, <2>3, <2>4, <2>6 DEF ClientOK, SetUp, Up
  <2> QED BY <2>1, <2>2, <2>4, <2>5, <2>6, <2>7 DEF Finished, t
<1>3. CASE s.ctl \notin Up /\ s.role = "server"
  <2>1. s.ctl = "UAS_RINGING" /\ ~s.own
    BY <1>3 DEF AgentOK, ServerOK
  <2>2. EndCall(s) = EndIncoming(f)
    BY <1>3, <2>1, FreeMediaFields DEF EndCall, End, Core
  <2>3. f \in Step /\ Ended(s, f) /\ f.active /\ f.open = Rest(s) /\ f.role = "server"
    BY <1>3, FreedOK DEF Ended, Core
  <2> HIDE DEF f
  <2>4. Ended(f, EndIncoming(f)) /\ EndIncoming(f).open = f.open /\ ~EndIncoming(f).active
    BY <2>3, EndIncomingFields
  <2> QED BY <2>2, <2>3, <2>4, EndedTrans DEF Finished
<1> QED BY <1>0, <1>1, <1>2, <1>3

\* A call that is not up loses no session if it has none.
LEMMA CallFailedFields ==
    ASSUME NEW s \in Step, s.active, AgentOK(s) \/ s.ctl \notin Up,
           s.ctl \notin Up => ~s.own \/ s.freed
    PROVE  Finished(s, CallFailed(s)) /\ ~CallFailed(s).active
<1>1. CASE s.ctl \in Up
  <2>1. CallFailed(s) = End(s)
    BY <1>1 DEF CallFailed, Up
  <2>2. AgentOK(s)
    BY <1>1
  <2> QED BY <1>1, <2>1, <2>2, EndFields DEF Finished
<1>2. CASE s.ctl \notin Up
  <2>1. CallFailed(s) = TearDown(s)
    BY <1>2 DEF CallFailed, Up
  <2>2. Rest(s) = s.open
    BY <1>2 DEF Rest, Step
  <2> QED BY <2>1, <2>2, TearDownFields DEF Finished, Ended
<1> QED BY <1>1, <1>2

LEMMA DoCancelFields ==
    ASSUME NEW s \in Step, s.active, AgentOK(s), s.ctl \notin Up
    PROVE  Finished(s, DoCancel(s)) /\ ~DoCancel(s).active
<1> DEFINE f == FreeMedia(s)
<1>1. f \in Step /\ Ended(s, f) /\ f.active /\ f.freed /\ Rest(f) = Rest(s)
  BY FreedOK
<1>2. DoCancel(s) = CallFailed(f)
  BY DEF DoCancel
<1> HIDE DEF f
<1>3. f.ctl \notin Up
  BY <1>1 DEF Ended, Core
<1>4. Finished(f, CallFailed(f)) /\ ~CallFailed(f).active
  BY <1>1, <1>3, CallFailedFields
<1> QED BY <1>1, <1>2, <1>4, EndedTrans DEF Finished

LEMMA StopCallFields ==
    ASSUME NEW s \in Step, s.active, AgentOK(s)
    PROVE  Finished(s, StopCall(s))
<1> DEFINE e == End(s)
           f == FreeMedia(e)
<1>0. s.role \in {"client", "server"} /\ s.leg \in LegState
  BY DEF Step
<1>1. /\ Ended(s, e)
      /\ s.ctl \in Up => ~e.active /\ e.open = Rest(s)
      /\ s.ctl \notin Up => e.open = s.open
      /\ s.ctl = "UAS_RINGING" => ~e.active
      /\ s.ctl \in SetUp =>
            /\ e.freed <=> s.freed
            /\ e.active <=> s.leg \in {"C_TRYING", "RINGING", "REDIRECT"}
            /\ e.active => e.leg = IF s.leg = "REDIRECT" THEN "REDIRECT" ELSE "FAILURE"
  BY EndFields
<1>2. StopCall(s) = f
  BY DEF StopCall
<1> HIDE DEF e
<1>3. e \in Step /\ Core(s, e)
  BY <1>1 DEF Ended
<1>4. /\ f \in Step /\ Core(e, f) /\ f.leg = e.leg /\ f.out = e.out /\ (f.active <=> e.active) /\ f.freed
      /\ e.active => f.open = Rest(e)
      /\ ~e.active \/ ~e.own => f.open = e.open
  BY <1>3, FreeMediaFields
<1> HIDE DEF f
<1>5. Ended(s, f)
  BY <1>1, <1>3, <1>4, EndedTrans DEF Ended
<1>6. CASE s.ctl \in Up
  BY <1>1, <1>2, <1>4, <1>5, <1>6 DEF Finished
<1>7. CASE s.ctl \notin Up /\ s.role = "server"
  <2>1. s.ctl = "UAS_RINGING" /\ ~s.own /\ Rest(s) = s.open
    BY <1>7 DEF AgentOK, ServerOK, Rest, Step
  <2> QED BY <1>1, <1>2, <1>4, <1>5, <1>7, <2>1 DEF Finished
<1>8. CASE s.ctl \notin Up /\ s.role = "client"
  <2>1. s.ctl \in SetUp /\ ClientOK(s) /\ s.own
    BY <1>8 DEF AgentOK, ClientOK
  <2>2. f.role = "client" /\ f.ctl = s.ctl /\ f.own /\ e.own
    BY <1>3, <1>4, <1>8, <2>1 DEF Core
  <2>3. f.open = Rest(s)
    <3>1. CASE e.active
      BY <1>1, <1>3, <1>4, <1>8, <2>1, <2>2, <3>1 DEF Rest
    <3>2. CASE ~e.active
      <4>1. s.leg = "FAILURE"
        BY <1>0, <1>1, <1>8, <2>1, <3>2 DEF ClientOK, SetUp, LegState
      <4>2. Rest(s) = s.open
        BY <2>1, <4>1 DEF ClientOK, Rest, Step
      <4> QED BY <1>1, <1>4, <1>8, <3>2, <4>2
    <3> QED BY <3>1, <3>2
  <2>4. f.active => f.leg = "FAILURE" \/ (f.leg = "REDIRECT" /\ s.leg = "REDIRECT")
    BY <1>1, <1>4, <2>1
  <2>5. f.active => ClientOK(f)
    BY <1>1, <1>4, <2>1, <2>2, <2>4 DEF ClientOK, SetUp, Up
  <2> QED BY <1>2, <1>4, <1>5, <2>1, <2>2, <2>3, <2>4, <2>5 DEF Finished
<1> QED BY <1>0, <1>6, <1>7, <1>8

LEMMA PurgeCallFields ==
    ASSUME NEW s \in Step, s.active, AgentOK(s)
    PROVE  Finished(s, PurgeCall(s))
<1> DEFINE t == StopCall(s)
           v == EndCall(t)
<1>1. Finished(s, t)
  BY StopCallFields
<1>2. PurgeCall(s) = v
  BY DEF PurgeCall
<1> HIDE DEF t
<1>3. t \in Step /\ Ended(s, t)
  BY <1>1 DEF Finished, Ended
<1>4. CASE ~t.active
  <2>1. v = t
    BY <1>4 DEF EndCall
  <2> QED BY <1>1, <1>2, <2>1
<1>5. CASE t.active
  <2>1. AgentOK(t) /\ t.freed
    BY <1>1, <1>5 DEF Finished, AgentOK
  <2>2. Rest(t) = Rest(s)
    BY <1>1, <1>3, <2>1 DEF Finished, Rest, Step
  <2>3. Finished(t, v)
    BY <1>3, <1>5, <2>1, EndCallFields
  <2> HIDE DEF v
  <2>4. Ended(s, v)
    BY <1>3, <2>3, EndedTrans DEF Finished
  <2>5. t.leg = "REDIRECT" => s.leg = "REDIRECT"
    BY <1>1, <1>5 DEF Finished
  <2> QED BY <1>2, <2>2, <2>3, <2>4, <2>5 DEF Finished
<1> QED BY <1>4, <1>5

-----------------------------------------------------------------------------
(* Receiving a message.                                                    *)

PastLegs == {"INCALL", "HOLD", "FAILURE"}

\* What an agent sends on its own account, and what it answers to request m.
Fine(t, o) ==
    /\ o.method = "CANCEL" => o.code = 0 /\ t.role = "client" /\ t.leg = "FAILURE"
    /\ o.method = "ACK" => o.code = 0 /\ (t.role = "client" /\ t.active => t.leg \in PastLegs)
    /\ o.method = "BYE" => o.code = 0 /\ (t.role = "client" \/ t.acked)
    /\ o.method = "INVITE" => IF t.role = "client" THEN o.code = 0 ELSE o.code > 0
    /\ o.code # 302
Reply(m, o) ==
    /\ m.code = 0 /\ m.method \in {"INVITE", "CANCEL"}
    /\ o.method = m.method /\ o.code > 0 /\ o.code # 302

\* What becomes of agent s when it receives m.
Took(s, t, m) ==
    /\ t \in Step /\ t.role = s.role /\ t.id = s.id
    /\ t.active => AgentOK(t) /\ Rest(t) = Rest(s)
    /\ ~t.active => t.open = Rest(s)
    /\ t.acked => s.acked \/ (m.method = "ACK" /\ m.code = 0)
    /\ s.leg = "FAILURE" => t.leg = "FAILURE"
    /\ s.leg \in PastLegs => t.leg \in PastLegs
    /\ \A o \in t.out : Fine(t, o) \/ Reply(m, o)
    /\ Direct(s) /\ m.code # 302 /\ t.active => Direct(t)
    /\ m.code = 0 /\ s.leg \in {"RINGING", "FAILURE"} /\ t.active => t.leg \in {"RINGING", "FAILURE"}
    /\ t.active /\ t.ctl = "UAS_RINGING" => s.ctl = "UAS_RINGING"

\* All but the messages sent is the same.
Like(s, t) ==
    /\ t \in Step /\ t.role = s.role /\ t.id = s.id /\ t.leg = s.leg /\ t.ctl = s.ctl
    /\ (t.acked <=> s.acked) /\ (t.own <=> s.own) /\ (t.freed <=> s.freed)
    /\ t.open = s.open /\ (t.active <=> s.active)

LEMMA LikeOK ==
    ASSUME NEW s \in Step, NEW t \in Step, Like(s, t)
    PROVE  /\ Rest(t) = Rest(s) /\ (AgentOK(s) <=> AgentOK(t))
           /\ Direct(s) <=> Direct(t)
BY DEF Like, Rest, AgentOK, ClientOK, ServerOK, Direct

LEMMA SendLike ==
    ASSUME NEW s \in Step, NEW method \in Method, NEW code \in Codes, NEW cseq \in Nat
    PROVE  LET t == Send(s, method, code, cseq)
           IN  /\ t \in Step /\ Like(s, t)
               /\ t.out = s.out \cup {[method |-> method, code |-> code, cseq |-> cseq]}
BY SendFields DEF Like, Core

LEMMA AckStatusFields ==
    ASSUME NEW s \in Step, NEW m \in Msg
    PROVE  LET t == AckStatus(s, m)
           IN  /\ t \in Step /\ Like(s, t)
               /\ \A o \in t.out : o \in s.out \/ (/\ o.method = "ACK" /\ o.code = 0
                                                   /\ m.code \notin {401, 302})
<1>1. CASE m.code \in {401, 302}
  <2>1. AckStatus(s, m) = s
    BY <1>1 DEF AckStatus
  <2> QED BY <2>1 DEF Like
<1>2. CASE m.code \notin {401, 302}
  <2>1. AckStatus(s, m) = Send(s, "ACK", 0, m.cseq)
    BY <1>2 DEF AckStatus
  <2>2. m.cseq \in Nat /\ "ACK" \in Method /\ 0 \in Codes
    BY DEF Msg, Method, Codes
  <2> DEFINE t == Send(s, "ACK", 0, m.cseq)
  <2>3. /\ t \in Step /\ Like(s, t)
        /\ t.out = s.out \cup {[method |-> "ACK", code |-> 0, cseq |-> m.cseq]}
    BY <2>2, SendLike
  <2> HIDE DEF t
  <2>4. \A o \in t.out : o \in s.out \/ (o.method = "ACK" /\ o.code = 0)
    BY <2>3
  <2> QED BY <1>2, <2>1, <2>3, <2>4 DEF t
<1> QED BY <1>1, <1>2

LEMMA InviteAgainFields ==
    ASSUME NEW s \in Step
    PROVE  LET t == InviteAgain(s)
           IN  /\ t \in Step /\ Like(s, t)
               /\ \A o \in t.out : o \in s.out \/ (o.method = "INVITE" /\ o.code = 0)
<1> DEFINE r == Send(s, "INVITE", 0, s.cseq + 1)
           t == [r EXCEPT !.cseq = s.cseq + 1, !.request = s.cseq + 1]
<1>1. s.cseq + 1 \in Nat /\ "INVITE" \in Method /\ 0 \in Codes
  BY DEF Step, Method, Codes
<1>2. /\ r \in Step /\ Like(s, r)
      /\ r.out = s.out \cup {[method |-> "INVITE", code |-> 0, cseq |-> s.cseq + 1]}
  BY <1>1, SendLike
<1>3. InviteAgain(s) = t
  BY DEF InviteAgain
<1> HIDE DEF r
<1>4. t \in Step /\ Like(s, t) /\ t.out = r.out
  BY <1>1, <1>2 DEF Step, Like
<1> HIDE DEF t
<1> QED BY <1>2, <1>3, <1>4

LEMMA DoAuthenticationFields ==
    ASSUME NEW s \in Step
    PROVE  LET t == DoAuthentication(s)
           IN  /\ t \in Step /\ Like(s, t)
               /\ \A o \in t.out : o \in s.out \/ (o.method = "INVITE" /\ o.code = 0)
<1> DEFINE n == s.request + 1
           r == IF s.leg = "C_TRYING" THEN Send(s, "INVITE", 0, n) ELSE s
           t == [r EXCEPT !.request = n]
<1>1. n \in Nat /\ "INVITE" \in Method /\ 0 \in Codes
  BY DEF Step, Method, Codes
<1>2. DoAuthentication(s) = t
  BY DEF DoAuthentication
<1> HIDE DEF n
<1>3. /\ r \in Step /\ Like(s, r)
      /\ \A o \in r.out : o \in s.out \/ (o.method = "INVITE" /\ o.code = 0)
  <2>1. CASE s.leg = "C_TRYING"
    BY <1>1, <2>1, SendLike
  <2>2. CASE s.leg # "C_TRYING"
    BY <2>2 DEF Like
  <2> QED BY <2>1, <2>2
<1> HIDE DEF r
<1>4. t \in Step /\ Like(s, t) /\ t.out = r.out
  BY <1>1, <1>3 DEF Step, Like
<1> HIDE DEF t
<1> QED BY <1>2, <1>3, <1>4

LEMMA SyncedFields ==
    ASSUME NEW s \in Step, NEW m \in Msg
    PROVE  LET t == Synced(s, m)
           IN  t \in Step /\ Like(s, t) /\ t.out = s.out
<1>1. m.cseq \in Nat
  BY DEF Msg
<1>2. CASE m.method = "INVITE" /\ m.code = 200
  <2>1. Synced(s, m) = [s EXCEPT !.cseq = m.cseq]
    BY <1>2 DEF Synced
  <2> QED BY <1>1, <2>1 DEF Step, Like
<1>3. CASE ~(m.method = "INVITE" /\ m.code = 200)
  <2>1. Synced(s, m) = s
    BY <1>3 DEF Synced
  <2> QED BY <2>1 DEF Like
<1> QED BY <1>2, <1>3

\* The control state at a status.
LEMMA ControlStatusFields ==
    ASSUME NEW s \in Step, s.active, NEW m \in Msg, m.method \in {"INVITE", "CANCEL"}
    PROVE  LET t == ControlStatus(s, m)
           IN  \/ s.ctl = "TRYING" /\ m.code = 180 /\ t = [s EXCEPT !.ctl = "UAC_RINGING"]
               \/ s.ctl = "TRYING" /\ m.code = 302 /\ t = InviteAgain(s)
               \/ s.ctl = "TRYING" /\ m.code = 401 /\ t = DoAuthentication(s)
               \/ s.ctl \in SetUp /\ m.code > 200 /\ t = DoCancel(s)
               \/ /\ s.ctl \in {"TRYING", "UAC_RINGING", "IN_HOLD"} /\ m.method = "INVITE"
                  /\ m.code = 200 /\ t = [s EXCEPT !.ctl = "IN_CALL"]
               \/ s.ctl = "IN_HOLD" /\ ~(m.method = "INVITE" /\ m.code = 200) /\ t = CallFailed(s)
               \/ t = s /\ ~(s.ctl \in SetUp /\ m.method = "INVITE" /\ m.code >= 200) /\ s.ctl # "IN_HOLD"
BY DEF ControlStatus, SetUp, Msg

LEMMA CtlFields ==
    ASSUME NEW s \in Step, NEW x \in ControlStates
    PROVE  LET t == [s EXCEPT !.ctl = x]
           IN  /\ t \in Step /\ t.ctl = x
               /\ t.role = s.role /\ t.id = s.id /\ t.leg = s.leg /\ t.open = s.open /\ t.out = s.out
               /\ (t.acked <=> s.acked) /\ (t.own <=> s.own) /\ (t.freed <=> s.freed) /\ (t.active <=> s.active)
BY DEF Step

LEMMA LegFields ==
    ASSUME NEW s \in Step, NEW x \in LegState
    PROVE  LET t == [s EXCEPT !.leg = x]
           IN  /\ t \in Step /\ t.leg = x
               /\ t.role = s.role /\ t.id = s.id /\ t.ctl = s.ctl /\ t.open = s.open /\ t.out = s.out
               /\ (t.acked <=> s.acked) /\ (t.own <=> s.own) /\ (t.freed <=> s.freed) /\ (t.active <=> s.active)
BY DEF Step

\* An agent that is ended after it sent messages.
LEMMA FinishedTook ==
    ASSUME NEW s \in Step, NEW r \in Step, NEW t, NEW m, AgentOK(s), Like(s, r), Finished(r, t),
           \A o \in r.out : \/ o.method = "ACK" /\ o.code = 0 /\ ~t.active
                            \/ o.method = "INVITE" /\ o.code = 0 /\ s.role = "client"
                            \/ Reply(m, o)
    PROVE  Took(s, t, m)
<1>1. t \in Step /\ Core(r, t) /\ t.role = s.role /\ t.id = s.id /\ t.ctl = s.ctl
  BY DEF Finished, Ended, Core, Like
<1>2. Rest(r) = Rest(s)
  BY LikeOK
<1>3. t.active => AgentOK(t) /\ Rest(t) = Rest(s)
  BY <1>1, <1>2 DEF Finished, AgentOK, Rest, Step
<1>4. ~t.active => t.open = Rest(s)
  BY <1>2 DEF Finished
<1>5. t.acked => s.acked
  BY <1>1 DEF Core, Like
<1>6. /\ s.leg = "FAILURE" => t.leg = "FAILURE"
      /\ s.leg \in PastLegs => t.leg \in PastLegs
      /\ s.leg \in {"RINGING", "FAILURE"} /\ t.active => t.leg \in {"RINGING", "FAILURE"}
  BY DEF Finished, Ended, Like, PastLegs
<1>7. Direct(s) /\ t.active => Direct(t)
  BY <1>1 DEF Finished, Direct, Like
<1>8. ASSUME NEW o \in t.out  PROVE Fine(t, o) \/ Reply(m, o)
  <2>1. CASE o \in r.out
    BY <1>1, <2>1 DEF Fine
  <2>2. CASE EndMsg(t, o)
    BY <2>2 DEF EndMsg, Fine
  <2> QED BY <1>8, <2>1, <2>2 DEF Finished, Ended
<1> QED BY <1>1, <1>3, <1>4, <1>5, <1>6, <1>7, <1>8 DEF Took

\* An agent that goes on as it is, but for its messages.
LEMMA LikeTook ==
    ASSUME NEW s \in Step, NEW t \in Step, NEW m, AgentOK(s), s.active, Like(s, t),
           \A o \in t.out : Fine(t, o) \/ Reply(m, o)
    PROVE  Took(s, t, m)
<1>1. AgentOK(t) /\ Rest(t) = Rest(s) /\ (Direct(s) <=> Direct(t))
  BY LikeOK
<1> QED BY <1>1 DEF Took, Like, PastLegs

LEMMA StatusInSetUpTook ==
    ASSUME NEW s \in Step, s.active, s.out = {}, AgentOK(s),
           s.leg \in {"C_TRYING", "REDIRECT", "RINGING"},
           NEW m \in Msg, m.code > 0, m.method \in {"INVITE", "CANCEL"},
           s.role = "client" => m.method = "INVITE",
           UsesSession(s, m) => HasSession(s)
    PROVE  Took(s, StatusInSetUp(s, m), m)
<1>0. /\ s.role \in {"client", "server"}
      /\ s.role = "client" => ClientOK(s) /\ s.ctl \in SetUp /\ s.ctl # "IN_HOLD" /\ s.own
      /\ s.role = "server" => /\ ServerOK(s) /\ s.leg = "RINGING" /\ s.ctl = "UAS_RINGING"
                              /\ s.ctl \notin SetUp /\ s.ctl # "IN_HOLD" /\ ~s.own
  BY DEF Step, AgentOK, ClientOK, ServerOK, SetUp, Up
<1>c. m.code \in Codes /\ m.code \in Nat /\ "INCALL" \in LegState /\ "REDIRECT" \in LegState
      /\ "RINGING" \in LegState /\ "IN_CALL" \in ControlStates /\ "UAC_RINGING" \in ControlStates
  BY DEF Msg, Codes, LegState, ControlStates
<1>1. CASE m.code = 200 /\ s.role = "client"
  <2> DEFINE y == IF s.leg = "RINGING" THEN Synced(s, m) ELSE s
             k == [y EXCEPT !.ctl = "IN_CALL"]
             a == AckStatus(k, m)
             t == [a EXCEPT !.leg = "INCALL"]
  <2>0. y \in Step /\ Like(s, y) /\ y.out = s.out
    BY SyncedFields DEF Like
  <2>2. StatusInSetUp(s, m) = t
    <3>1. StatusInSetUp(s, m) = [ReceivedStatus(y, m) EXCEPT !.leg = "INCALL"]
      BY <1>1 DEF StatusInSetUp
    <3> HIDE DEF y
    <3>2. y.ctl \in SetUp
      BY <1>0, <1>1, <2>0 DEF Like
    <3>3. ControlStatus(y, m) = k
      BY <1>1, <3>2 DEF ControlStatus, SetUp
    <3> QED BY <1>1, <3>1, <3>3 DEF ReceivedStatus
  <2> HIDE DEF y
  <2>3. s.own /\ ~s.freed
    BY <1>0, <1>1 DEF UsesSession, HasSession, SetUp
  <2>4. /\ k \in Step /\ k.ctl = "IN_CALL"
        /\ k.role = s.role /\ k.id = s.id /\ k.leg = s.leg /\ k.open = s.open /\ k.out = s.out
        /\ (k.acked <=> s.acked) /\ (k.own <=> s.own) /\ (k.freed <=> s.freed) /\ k.active
    BY <1>c, <2>0, CtlFields DEF Like
  <2> HIDE DEF k
  <2>5. a \in Step /\ Like(k, a) /\ \A o \in a.out : o.method = "ACK" /\ o.code = 0
    BY <2>4, AckStatusFields
  <2> HIDE DEF a
  <2>6. /\ t \in Step /\ t.leg = "INCALL"
        /\ t.role = a.role /\ t.id = a.id /\ t.ctl = a.ctl /\ t.open = a.open /\ t.out = a.out
        /\ (t.acked <=> a.acked) /\ (t.own <=> a.own) /\ (t.freed <=> a.freed) /\ (t.active <=> a.active)
    BY <1>c, <2>5, LegFields
  <2> HIDE DEF t
  <2>7. /\ t.role = "client" /\ t.id = s.id /\ t.ctl = "IN_CALL" /\ t.open = s.open
        /\ (t.acked <=> s.acked) /\ t.own /\ ~t.freed /\ t.active
    BY <1>1, <2>3, <2>4, <2>5, <2>6 DEF Like
  <2>8. AgentOK(t) /\ Direct(t)
    BY <2>6, <2>7 DEF AgentOK, ClientOK, Direct, SetUp, Up
  <2>9. Rest(t) = Rest(s)
    BY <2>3, <2>7 DEF Rest
  <2>10. \A o \in t.out : Fine(t, o)
    BY <2>5, <2>6, <2>7 DEF Fine, PastLegs
  <2> QED BY <1>1, <2>2, <2>6, <2>7, <2>8, <2>9, <2>10 DEF Took, PastLegs
<1>2. CASE m.code = 200 /\ s.role = "server"
  <2> DEFINE y == IF s.leg = "RINGING" THEN Synced(s, m) ELSE s
             a == IF m.method = "INVITE" THEN AckStatus(y, m) ELSE y
             t == [a EXCEPT !.leg = "INCALL"]
  <2>0. y \in Step /\ Like(s, y) /\ y.out = s.out
    BY SyncedFields DEF Like
  <2>2. StatusInSetUp(s, m) = t
    <3>1. StatusInSetUp(s, m) = [ReceivedStatus(y, m) EXCEPT !.leg = "INCALL"]
      BY <1>2 DEF StatusInSetUp
    <3> HIDE DEF y
    <3>2. y.ctl = "UAS_RINGING"
      BY <1>0, <1>2, <2>0 DEF Like
    <3>3. ControlStatus(y, m) = y
      BY <1>2, <3>2 DEF ControlStatus
    <3> QED BY <1>2, <3>1, <3>3 DEF ReceivedStatus
  <2> HIDE DEF y
  <2>5. a \in Step /\ Like(s, a) /\ \A o \in a.out : o.method = "ACK" /\ o.code = 0
    <3>1. CASE m.method = "INVITE"
      BY <2>0, <3>1, AckStatusFields DEF Like
    <3>2. CASE m.method # "INVITE"
      BY <2>0, <3>2
    <3> QED BY <3>1, <3>2
  <2> HIDE DEF a
  <2>6. /\ t \in Step /\ t.leg = "INCALL"
        /\ t.role = a.role /\ t.id = a.id /\ t.ctl = a.ctl /\ t.open = a.open /\ t.out = a.out
        /\ (t.acked <=> a.acked) /\ (t.own <=> a.own) /\ (t.freed <=> a.freed) /\ (t.active <=> a.active)
    BY <1>c, <2>5, LegFields
  <2> HIDE DEF t
  <2>7. /\ t.role = "server" /\ t.id = s.id /\ t.ctl = s.ctl /\ t.open = s.open
        /\ (t.acked <=> s.acked) /\ (t.own <=> s.own) /\ (t.freed <=> s.freed) /\ t.active
    BY <1>2, <2>5, <2>6 DEF Like
  <2>8. AgentOK(t) /\ Direct(t)
    BY <1>0, <1>2, <2>6, <2>7 DEF AgentOK, ServerOK, Direct, Up
  <2>9. Rest(t) = Rest(s)
    BY <2>7 DEF Rest
  <2>10. \A o \in t.out : Fine(t, o)
    BY <2>5, <2>6, <2>7 DEF Fine
  <2> QED BY <1>2, <2>2, <2>6, <2>7, <2>8, <2>9, <2>10 DEF Took, PastLegs
<1>3. CASE m.code = 302 /\ s.leg = "C_TRYING"
  <2> DEFINE r == [s EXCEPT !.leg = "REDIRECT"]
             t == InviteAgain(r)
  <2>0. s.role = "client" /\ s.ctl = "TRYING"
    BY <1>0, <1>3 DEF ClientOK, SetUp, Up
  <2>1. /\ r \in Step /\ r.leg = "REDIRECT"
        /\ r.role = s.role /\ r.id = s.id /\ r.ctl = s.ctl /\ r.open = s.open /\ r.out = s.out
        /\ (r.acked <=> s.acked) /\ (r.own <=> s.own) /\ (r.freed <=> s.freed) /\ (r.active <=> s.active)
    BY <1>c, LegFields
  <2>2. AckStatus(s, m) = s
    BY <1>3 DEF AckStatus
  <2>3. ControlStatus(r, m) = t
    BY <1>3, <2>0, <2>1 DEF ControlStatus
  <2>4. StatusInSetUp(s, m) = t
    BY <1>3, <2>2, <2>3 DEF StatusInSetUp, ReceivedStatus
  <2> HIDE DEF r
  <2>5. t \in Step /\ Like(r, t) /\ \A o \in t.out : o.method = "INVITE" /\ o.code = 0
    BY <2>1, InviteAgainFields
  <2> HIDE DEF t
  <2>6. AgentOK(r) /\ Rest(r) = Rest(s)
    BY <1>0, <2>0, <2>1 DEF AgentOK, ClientOK, Rest, SetUp, Up
  <2>7. AgentOK(t) /\ Rest(t) = Rest(r)
    BY <2>1, <2>5, <2>6, LikeOK
  <2>8. /\ t.role = "client" /\ t.leg = "REDIRECT" /\ t.active /\ t.id = s.id /\ (t.acked <=> s.acked)
        /\ t.ctl = s.ctl
    BY <2>0, <2>1, <2>5 DEF Like
  <2>9. \A o \in t.out : Fine(t, o)
    BY <2>5, <2>8 DEF Fine
  <2> QED BY <1>3, <2>0, <2>4, <2>5, <2>6, <2>7, <2>8, <2>9 DEF Took, PastLegs
<1>4. CASE m.code > 200 /\ ~(m.code = 302 /\ s.leg = "C_TRYING")
  <2> DEFINE r == IF m.code = 408 THEN s ELSE AckStatus(s, m)
             t == ControlStatus(r, m)
  <2>1. StatusInSetUp(s, m) = t
    BY <1>4, <1>c DEF StatusInSetUp, ReceivedStatus
  <2>2. /\ r \in Step /\ Like(s, r)
        /\ \A o \in r.out : o.method = "ACK" /\ o.code = 0 /\ m.code \notin {401, 302}
    BY AckStatusFields DEF Like
  <2> HIDE DEF r
  <2>3. r.active /\ AgentOK(r) /\ r.role = s.role /\ r.ctl = s.ctl
    BY <2>2, LikeOK DEF Like
  <2>4. \/ s.ctl = "TRYING" /\ m.code \in {302, 401} /\ (t = DoAuthentication(r) \/ t = InviteAgain(r))
        \/ s.ctl \in SetUp /\ t = DoCancel(r)
        \/ t = r /\ s.role = "server"
    <3>1. /\ m.code >= 200 /\ m.code # 180 /\ m.code # 200 /\ r.ctl # "IN_HOLD"
          /\ s.ctl \in SetUp => s.role = "client" /\ m.method = "INVITE"
          /\ s.ctl \notin SetUp => s.role = "server"
      BY <1>0, <1>4, <1>c, <2>3
    <3> QED BY <2>2, <2>3, <3>1, ControlStatusFields
  <2> HIDE DEF t
  <2>5. CASE s.ctl = "TRYING" /\ m.code \in {302, 401} /\ (t = DoAuthentication(r) \/ t = InviteAgain(r))
    <3>1. s.role = "client"
      BY <1>0, <2>5
    <3>2. t \in Step /\ Like(s, t) /\ \A o \in t.out : o.method = "INVITE" /\ o.code = 0
      BY <2>2, <2>5, InviteAgainFields, DoAuthenticationFields DEF Like
    <3>3. \A o \in t.out : Fine(t, o)
      BY <3>1, <3>2 DEF Fine, Like
    <3> QED BY <2>1, <3>2, <3>3, LikeTook
  <2>6. CASE s.ctl \in SetUp /\ t = DoCancel(r)
    <3>1. r.ctl \notin Up
      BY <2>3, <2>6 DEF SetUp, Up
    <3>2. Finished(r, t) /\ ~t.active
      BY <2>2, <2>3, <2>6, <3>1, DoCancelFields
    <3> QED BY <2>1, <2>2, <3>2, FinishedTook
  <2>7. CASE t = r /\ s.role = "server"
    <3>1. \A o \in t.out : Fine(t, o)
      BY <2>2, <2>3, <2>7 DEF Fine
    <3> QED BY <2>1, <2>2, <2>7, <3>1, LikeTook
  <2> QED BY <2>4, <2>5, <2>6, <2>7
<1>5. CASE m.code = 180 /\ s.leg # "RINGING"
  <2> DEFINE r == [s EXCEPT !.leg = "RINGING"]
             t == [r EXCEPT !.ctl = "UAC_RINGING"]
  <2>0. s.role = "client" /\ s.ctl = "TRYING"
    BY <1>0, <1>5 DEF ClientOK, SetUp, Up
  <2>1. /\ r \in Step /\ r.leg = "RINGING"
        /\ r.role = s.role /\ r.id = s.id /\ r.ctl = s.ctl /\ r.open = s.open /\ r.out = s.out
        /\ (r.acked <=> s.acked) /\ (r.own <=> s.own) /\ (r.freed <=> s.freed) /\ (r.active <=> s.active)
    BY <1>c, LegFields
  <2>3. ControlStatus(r, m) = t
    BY <1>5, <2>0, <2>1 DEF ControlStatus
  <2>4. StatusInSetUp(s, m) = t
    BY <1>5, <2>3 DEF StatusInSetUp, ReceivedStatus
  <2> HIDE DEF r
  <2>5. /\ t \in Step /\ t.ctl = "UAC_RINGING"
        /\ t.role = r.role /\ t.id = r.id /\ t.leg = r.leg /\ t.open = r.open /\ t.out = r.out
        /\ (t.acked <=> r.acked) /\ (t.own <=> r.own) /\ (t.freed <=> r.freed) /\ (t.active <=> r.active)
    BY <1>c, <2>1, CtlFields
  <2> HIDE DEF t
  <2>6. AgentOK(t) /\ Rest(t) = Rest(s) /\ t.out = {} /\ t.active
    BY <1>0, <2>0, <2>1, <2>5 DEF AgentOK, ClientOK, Rest, SetUp, Up
  <2>7. Direct(s) => Direct(t)
    BY <1>5, <2>0, <2>1, <2>5 DEF Direct
  <2> QED BY <1>5, <2>0, <2>1, <2>4, <2>5, <2>6, <2>7 DEF Took, PastLegs
<1>6. CASE m.code < 200 /\ ~(m.code = 180 /\ s.leg # "RINGING")
  <2>1. StatusInSetUp(s, m) = s
    BY <1>6, <1>c DEF StatusInSetUp
  <2>2. Like(s, s)
    BY DEF Like
  <2> QED BY <2>1, <2>2, LikeTook
<1> QED BY <1>0, <1>c, <1>1, <1>2, <1>3, <1>4, <1>5, <1>6

LEMMA StatusInFailureTook ==
    ASSUME NEW s \in Step, s.active, s.out = {}, AgentOK(s), s.leg = "FAILURE",
           NEW m \in Msg, m.code > 0, m.method \in {"INVITE", "CANCEL"}
    PROVE  Took(s, StatusInFailure(s, m), m)
<1>0. /\ s.role \in {"client", "server"} /\ s.ctl \notin Up /\ (~s.own \/ s.freed)
      /\ s.ctl \in SetUp => s.role = "client"
      /\ s.ctl # "IN_HOLD"
  BY DEF Step, AgentOK, ClientOK, ServerOK, SetUp, Up
<1>c. m.code \in Nat
  BY DEF Msg
<1>1. CASE m.code <= 200
  <2>1. StatusInFailure(s, m) = s
    BY <1>1 DEF StatusInFailure
  <2>2. Like(s, s)
    BY DEF Like
  <2> QED BY <2>1, <2>2, LikeTook
<1>2. CASE m.code > 200
  <2> DEFINE r == IF m.code = 487 THEN AckStatus(s, m) ELSE s
             t == ControlStatus(r, m)
  <2>1. StatusInFailure(s, m) = IF t.active THEN CallFailed(t) ELSE t
    <3>1. ~(m.code <= 200) /\ m.code # 200
      BY <1>2, <1>c
    <3> QED BY <3>1 DEF StatusInFailure, ReceivedStatus
  <2>2. r \in Step /\ Like(s, r) /\ \A o \in r.out : o.method = "ACK" /\ o.code = 0
    BY AckStatusFields DEF Like
  <2> HIDE DEF r
  <2>3. r.active /\ AgentOK(r) /\ r.role = s.role /\ r.ctl = s.ctl
    BY <2>2, LikeOK DEF Like
  <2>4. \/ t = r
        \/ s.role = "client" /\ (t = DoAuthentication(r) \/ t = InviteAgain(r))
        \/ t = DoCancel(r)
    <3>1. m.code # 180 /\ m.code # 200 /\ r.ctl # "IN_HOLD" /\ (r.ctl = "TRYING" => s.role = "client")
      BY <1>0, <1>2, <1>c, <2>3 DEF SetUp
    <3> QED BY <2>2, <2>3, <3>1, ControlStatusFields
  <2> HIDE DEF t
  <2>5. CASE t = DoCancel(r)
    <3>1. Finished(r, t) /\ ~t.active
      BY <1>0, <2>2, <2>3, <2>5, DoCancelFields
    <3> QED BY <2>1, <2>2, <3>1, FinishedTook
  <2>6. CASE t = r \/ (s.role = "client" /\ (t = DoAuthentication(r) \/ t = InviteAgain(r)))
    <3>1. /\ t \in Step /\ Like(s, t)
          /\ \A o \in t.out : \/ o.method = "ACK" /\ o.code = 0
                              \/ o.method = "INVITE" /\ o.code = 0 /\ s.role = "client"
      BY <2>2, <2>6, InviteAgainFields, DoAuthenticationFields DEF Like
    <3>2. t.active /\ t.ctl \notin Up /\ (~t.own \/ t.freed)
      BY <1>0, <3>1 DEF Like
    <3>3. Finished(t, CallFailed(t)) /\ ~CallFailed(t).active
      BY <3>1, <3>2, CallFailedFields
    <3> QED BY <2>1, <3>1, <3>2, <3>3, FinishedTook
  <2> QED BY <2>4, <2>5, <2>6
<1> QED BY <1>c, <1>1, <1>2

\* The leg of a call that is up tells the control state, r being the agent
\* that perhaps has sent an ACK.
LEMMA StatusInUpTook ==
    ASSUME NEW s \in Step, s.active, AgentOK(s), s.leg \in {"INCALL", "HOLD"},
           NEW m \in Msg, m.code > 0, m.method \in {"INVITE", "CANCEL"},
           NEW r \in Step, Like(s, r), \A o \in r.out : o.method = "ACK" /\ o.code = 0
    PROVE  Took(s, ReceivedStatus(r, m), m)
<1>0. /\ s.role \in {"client", "server"} /\ s.ctl \notin SetUp
      /\ s.ctl = "IN_HOLD" => s.own /\ ~s.freed
  BY DEF Step, AgentOK, ClientOK, ServerOK, SetUp, Up
<1> DEFINE k == ControlStatus(r, m)
           t == IF m.method = "INVITE" /\ m.code = 200 THEN AckStatus(k, m) ELSE k
<1>1. ReceivedStatus(r, m) = t
  BY DEF ReceivedStatus
<1>2. r.active /\ AgentOK(r) /\ r.role = s.role /\ r.ctl = s.ctl
  BY LikeOK DEF Like
<1>3. \/ s.ctl = "IN_HOLD" /\ m.method = "INVITE" /\ m.code = 200 /\ k = [r EXCEPT !.ctl = "IN_CALL"]
      \/ s.ctl = "IN_HOLD" /\ ~(m.method = "INVITE" /\ m.code = 200) /\ k = CallFailed(r)
      \/ k = r
  <2>1. r.ctl \notin SetUp /\ r.ctl # "TRYING" /\ r.ctl # "UAC_RINGING"
    BY <1>0, <1>2 DEF SetUp
  <2> QED BY <1>2, <2>1, ControlStatusFields
<1> HIDE DEF k
<1>4. CASE s.ctl = "IN_HOLD" /\ m.method = "INVITE" /\ m.code = 200 /\ k = [r EXCEPT !.ctl = "IN_CALL"]
  <2>1. "IN_CALL" \in ControlStates
    BY DEF ControlStates
  <2>2. /\ k \in Step /\ k.ctl = "IN_CALL"
        /\ k.role = r.role /\ k.id = r.id /\ k.leg = r.leg /\ k.open = r.open /\ k.out = r.out
        /\ (k.acked <=> r.acked) /\ (k.own <=> r.own) /\ (k.freed <=> r.freed) /\ (k.active <=> r.active)
    BY <1>4, <2>1, CtlFields
  <2>3. t \in Step /\ Like(k, t) /\ \A o \in t.out : o.method = "ACK" /\ o.code = 0
    <3>1. t = AckStatus(k, m)
      BY <1>4
    <3> HIDE DEF t
    <3> QED BY <2>2, <3>1, AckStatusFields
  <2> HIDE DEF t
  <2>4. /\ t.role = s.role /\ t.id = s.id /\ t.leg = s.leg /\ t.open = s.open /\ t.ctl = "IN_CALL"
        /\ (t.acked <=> s.acked) /\ t.own /\ ~t.freed /\ t.active /\ s.own /\ ~s.freed
    BY <1>0, <1>4, <2>2, <2>3 DEF Like
  <2>5. AgentOK(t) /\ Direct(t) /\ Rest(t) = Rest(s)
    <3>1. ClientOK(t) /\ ServerOK(t)
      BY <2>4 DEF ClientOK, ServerOK, SetUp, Up
    <3>2. Direct(t) /\ Rest(t) = Rest(s)
      BY <2>4 DEF Direct, Rest
    <3> QED BY <3>1, <3>2 DEF AgentOK
  <2>6. \A o \in t.out : Fine(t, o)
    BY <2>3, <2>4 DEF Fine, PastLegs
  <2> QED BY <1>1, <2>3, <2>4, <2>5, <2>6 DEF Took, PastLegs
<1>5. CASE s.ctl = "IN_HOLD" /\ ~(m.method = "INVITE" /\ m.code = 200) /\ k = CallFailed(r)
  <2>1. t = k
    BY <1>5
  <2>2. r.ctl \in Up
    BY <1>2, <1>5 DEF Up
  <2>3. Finished(r, k) /\ ~k.active
    BY <1>2, <1>5, <2>2, CallFailedFields
  <2> QED BY <1>1, <2>1, <2>3, FinishedTook
<1>6. CASE k = r
  <2>1. t \in Step /\ Like(s, t) /\ \A o \in t.out : o.method = "ACK" /\ o.code = 0
    <3>1. CASE m.method = "INVITE" /\ m.code = 200
      <4>1. t = AckStatus(r, m)
        BY <1>6, <3>1
      <4>2. t \in Step /\ Like(r, t) /\ \A o \in t.out : o.method = "ACK" /\ o.code = 0
        BY <4>1, AckStatusFields
      <4> QED BY <4>2 DEF Like
    <3>2. CASE ~(m.method = "INVITE" /\ m.code = 200)
      BY <1>6, <3>2
    <3> QED BY <3>1, <3>2
  <2> HIDE DEF t
  <2>2. \A o \in t.out : Fine(t, o)
    BY <2>1 DEF Fine, Like, PastLegs
  <2> QED BY <1>1, <2>1, <2>2, LikeTook
<1> QED BY <1>3, <1>4, <1>5, <1>6

LEMMA StatusInHoldTook ==
    ASSUME NEW s \in Step, s.active, s.out = {}, AgentOK(s), s.leg = "HOLD",
           NEW m \in Msg, m.code > 0, m.method \in {"INVITE", "CANCEL"},
           UsesSession(s, m) => HasSession(s)
    PROVE  Took(s, StatusInHold(s, m), m)
<1>1. CASE m.method = "INVITE" /\ m.code = 200
  <2> DEFINE a == AckStatus(s, m)
             t == [a EXCEPT !.ctl = "IN_HOLD"]
  <2>1. StatusInHold(s, m) = t
    BY <1>1 DEF StatusInHold
  <2>2. s.own /\ ~s.freed /\ s.role \in {"client", "server"}
    BY <1>1 DEF UsesSession, HasSession, Step
  <2>3. a \in Step /\ Like(s, a) /\ \A o \in a.out : o.method = "ACK" /\ o.code = 0
    BY AckStatusFields
  <2> HIDE DEF a
  <2>4. "IN_HOLD" \in ControlStates
    BY DEF ControlStates
  <2>5. /\ t \in Step /\ t.ctl = "IN_HOLD"
        /\ t.role = a.role /\ t.id = a.id /\ t.leg = a.leg /\ t.open = a.open /\ t.out = a.out
        /\ (t.acked <=> a.acked) /\ (t.own <=> a.own) /\ (t.freed <=> a.freed) /\ (t.active <=> a.active)
    BY <2>3, <2>4, CtlFields
  <2> HIDE DEF t
  <2>6. /\ t.role = s.role /\ t.id = s.id /\ t.leg = "HOLD" /\ t.open = s.open
        /\ (t.acked <=> s.acked) /\ t.own /\ ~t.freed /\ t.active
    BY <2>2, <2>3, <2>5 DEF Like
  <2>7. AgentOK(t) /\ Direct(t) /\ Rest(t) = Rest(s)
    BY <2>2, <2>5, <2>6 DEF AgentOK, ClientOK, ServerOK, Direct, Rest, SetUp, Up
  <2>8. \A o \in t.out : Fine(t, o)
    BY <2>3, <2>5, <2>6 DEF Fine, PastLegs
  <2> QED BY <2>1, <2>5, <2>6, <2>7, <2>8 DEF Took, PastLegs
<1>2. CASE ~(m.method = "INVITE" /\ m.code = 200)
  <2> DEFINE r == IF m.code > 200 /\ m.method = "INVITE" THEN AckStatus(s, m) ELSE s
  <2>1. StatusInHold(s, m) = ReceivedStatus(r, m)
    BY <1>2 DEF StatusInHold
  <2>2. r \in Step /\ Like(s, r) /\ \A o \in r.out : o.method = "ACK" /\ o.code = 0
    BY AckStatusFields DEF Like
  <2> HIDE DEF r
  <2> QED BY <2>1, <2>2, StatusInUpTook
<1> QED BY <1>1, <1>2

LEMMA RecvStatusTook ==
    ASSUME NEW s \in Step, s.active, s.out = {}, AgentOK(s),
           NEW m \in Msg, m.code > 0, m.method \in {"INVITE", "CANCEL"},
           s.role = "client" /\ m.method = "CANCEL" => s.leg = "FAILURE",
           UsesSession(s, m) => HasSession(s)
    PROVE  Took(s, RecvStatus(s, m), m)
<1>0. s.leg \in LegState
  BY DEF Step
<1>1. CASE s.leg \in {"C_TRYING", "REDIRECT", "RINGING"}
  <2>1. RecvStatus(s, m) = StatusInSetUp(s, m) /\ (s.role = "client" => m.method = "INVITE")
    BY <1>1 DEF RecvStatus
  <2> QED BY <1>1, <2>1, StatusInSetUpTook
<1>2. CASE s.leg = "FAILURE"
  <2>1. RecvStatus(s, m) = StatusInFailure(s, m)
    BY <1>2 DEF RecvStatus
  <2> QED BY <1>2, <2>1, StatusInFailureTook
<1>3. CASE s.leg = "INCALL"
  <2> DEFINE r == IF m.code > 200 THEN AckStatus(s, m) ELSE Synced(s, m)
  <2>1. RecvStatus(s, m) = ReceivedStatus(r, m)
    BY <1>3 DEF RecvStatus, StatusInCall
  <2>2. r \in Step /\ Like(s, r) /\ \A o \in r.out : o.method = "ACK" /\ o.code = 0
    BY AckStatusFields, SyncedFields DEF Like
  <2> HIDE DEF r
  <2> QED BY <1>3, <2>1, <2>2, StatusInUpTook
<1>4. CASE s.leg = "HOLD"
  <2>1. RecvStatus(s, m) = StatusInHold(s, m)
    BY <1>4 DEF RecvStatus
  <2> QED BY <1>4, <2>1, StatusInHoldTook
<1> QED BY <1>0, <1>1, <1>2, <1>3, <1>4 DEF LegState

LEMMA RequestInRingingTook ==
    ASSUME NEW s \in Step, s.active, s.out = {}, AgentOK(s), s.leg = "RINGING",
           NEW m \in Msg, m.code = 0,
           m.method = "CANCEL" => s.role = "server",
           m.method = "BYE" /\ s.role = "client" => s.leg \in PastLegs
    PROVE  Took(s, RequestInRinging(s, m), m)
<1>0. /\ s.role \in {"client", "server"} /\ s.ctl \notin Up
      /\ s.role = "server" => s.ctl = "UAS_RINGING" /\ ServerOK(s) /\ ~s.own
      /\ m.cseq \in Nat /\ m.method \in Method
      /\ {"CANCEL", "INVITE"} \subseteq Method /\ {200, 487} \subseteq Codes /\ "FAILURE" \in LegState
  BY DEF Step, AgentOK, ClientOK, ServerOK, SetUp, Up, Msg, Method, Codes, LegState
<1>1. CASE m.method = "CANCEL"
  <2> DEFINE p == Send(s, "CANCEL", 200, m.cseq)
             q == Send(p, "INVITE", 487, m.cseq)
             t == [q EXCEPT !.leg = "FAILURE"]
  <2>1. RequestInRinging(s, m) = t
    BY <1>1 DEF RequestInRinging
  <2>2. /\ p \in Step /\ Like(s, p)
        /\ p.out = s.out \cup {[method |-> "CANCEL", code |-> 200, cseq |-> m.cseq]}
    BY <1>0, SendLike
  <2> HIDE DEF p
  <2>3. /\ q \in Step /\ Like(p, q)
        /\ q.out = p.out \cup {[method |-> "INVITE", code |-> 487, cseq |-> m.cseq]}
    BY <1>0, <2>2, SendLike
  <2> HIDE DEF q
  <2>4. /\ t \in Step /\ t.leg = "FAILURE"
        /\ t.role = q.role /\ t.id = q.id /\ t.ctl = q.ctl /\ t.open = q.open /\ t.out = q.out
        /\ (t.acked <=> q.acked) /\ (t.own <=> q.own) /\ (t.freed <=> q.freed) /\ (t.active <=> q.active)
    BY <1>0, <2>3, LegFields
  <2> HIDE DEF t
  <2>5. /\ t.role = "server" /\ t.id = s.id /\ t.ctl = s.ctl /\ t.open = s.open /\ s.role = "server"
        /\ (t.acked <=> s.acked) /\ (t.own <=> s.own) /\ (t.freed <=> s.freed) /\ t.active
    BY <1>1, <2>2, <2>3, <2>4 DEF Like
  <2>6. ServerOK(t) /\ Direct(t) /\ Rest(t) = Rest(s)
    BY <1>0, <2>4, <2>5 DEF ServerOK, Direct, Rest
  <2>7. \A o \in t.out : \/ o.method = "CANCEL" /\ o.code = 200
                         \/ o.method = "INVITE" /\ o.code = 487
    BY <2>2, <2>3, <2>4
  <2>8. \A o \in t.out : Fine(t, o) \/ Reply(m, o)
    BY <1>1, <2>5, <2>7 DEF Fine, Reply
  <2> QED BY <2>1, <2>4, <2>5, <2>6, <2>8 DEF Took, AgentOK, PastLegs
<1>2. CASE m.method = "BYE" /\ s.ctl = "UAS_RINGING"
  <2>1. RequestInRinging(s, m) = DoCancel(s)
    BY <1>2 DEF RequestInRinging
  <2>2. Finished(s, DoCancel(s)) /\ Like(s, s)
    BY <1>0, DoCancelFields DEF Like
  <2> QED BY <2>1, <2>2, FinishedTook
<1>3. CASE m.method = "BYE" /\ s.ctl # "UAS_RINGING"
  BY <1>0, <1>3 DEF PastLegs
<1>4. CASE m.method \notin {"BYE", "CANCEL"}
  <2>1. RequestInRinging(s, m) = s /\ Like(s, s)
    BY <1>4 DEF RequestInRinging, Like
  <2> QED BY <2>1, LikeTook
<1> QED BY <1>1, <1>2, <1>3, <1>4

LEMMA RequestInFailureTook ==
    ASSUME NEW s \in Step, s.active, s.out = {}, AgentOK(s), s.leg = "FAILURE", NEW m \in Msg
    PROVE  Took(s, RequestInFailure(s, m), m)
<1>0. Like(s, s)
  BY DEF Like
<1>1. CASE m.method = "ACK" /\ s.role = "server"
  <2>1. RequestInFailure(s, m) = CallFailed(s) /\ ~s.own /\ s.ctl \notin Up
    BY <1>1 DEF RequestInFailure, AgentOK, ServerOK, Up
  <2>2. Finished(s, CallFailed(s))
    BY <2>1, CallFailedFields
  <2> QED BY <1>0, <2>1, <2>2, FinishedTook
<1>2. CASE ~(m.method = "ACK" /\ s.role = "server")
  <2>1. RequestInFailure(s, m) = s
    BY <1>2 DEF RequestInFailure
  <2> QED BY <1>0, <2>1, LikeTook
<1> QED BY <1>1, <1>2

LEMMA ReInvitedFields ==
    ASSUME NEW s \in Step, NEW n \in Nat, NEW x \in ControlStates, NEW y \in LegState
    PROVE  LET t == [s EXCEPT !.request = n, !.ctl = x, !.leg = y]
           IN  /\ t \in Step /\ t.leg = y /\ t.ctl = x
               /\ t.role = s.role /\ t.id = s.id /\ t.open = s.open /\ t.out = s.out
               /\ (t.acked <=> s.acked) /\ (t.own <=> s.own) /\ (t.freed <=> s.freed) /\ (t.active <=> s.active)
BY DEF Step

LEMMA RequestInCallTook ==
    ASSUME NEW s \in Step, s.active, s.out = {}, AgentOK(s), s.leg \in {"INCALL", "HOLD"},
           NEW m \in Msg, m.code = 0,
           UsesSession(s, m) => HasSession(s)
    PROVE  Took(s, RequestInCall(s, m), m)
<1>0. /\ s.role \in {"client", "server"} /\ m.cseq \in Nat /\ m.method \in Method
      /\ {"CANCEL", "INVITE"} \subseteq Method /\ {100, 200, 487} \subseteq Codes
      /\ OtherLeg(s.leg) \in {"INCALL", "HOLD"} /\ {"INCALL", "HOLD"} \subseteq LegState
      /\ "IN_CALL" \in ControlStates
  BY DEF Step, Msg, Method, Codes, LegState, ControlStates, OtherLeg
<1>1. CASE m.method = "ACK"
  <2> DEFINE t == [s EXCEPT !.acked = TRUE]
  <2>1. RequestInCall(s, m) = t
    BY <1>1 DEF RequestInCall
  <2>2. /\ t \in Step /\ t.role = s.role /\ t.id = s.id /\ t.leg = s.leg /\ t.ctl = s.ctl
        /\ t.open = s.open /\ t.out = {}
        /\ (t.own <=> s.own) /\ (t.freed <=> s.freed) /\ t.active
    BY DEF Step
  <2> HIDE DEF t
  <2>3. AgentOK(t) /\ Rest(t) = Rest(s) /\ (Direct(s) => Direct(t))
    BY <2>2 DEF AgentOK, ClientOK, ServerOK, Rest, Direct
  <2> QED BY <1>1, <2>1, <2>2, <2>3 DEF Took, PastLegs
<1>2. CASE m.method = "BYE"
  <2>1. RequestInCall(s, m) = EndCall(s)
    BY <1>2 DEF RequestInCall
  <2>2. Finished(s, EndCall(s)) /\ Like(s, s)
    BY EndCallFields DEF Like
  <2> QED BY <2>1, <2>2, FinishedTook
<1>3. CASE m.method = "CANCEL"
  <2> DEFINE p == Send(s, "CANCEL", 200, m.cseq)
             q == Send(p, "CANCEL", 487, m.cseq)
  <2>1. RequestInCall(s, m) = EndCall(q)
    BY <1>3 DEF RequestInCall
  <2>2. /\ p \in Step /\ Like(s, p)
        /\ p.out = s.out \cup {[method |-> "CANCEL", code |-> 200, cseq |-> m.cseq]}
    BY <1>0, SendLike
  <2> HIDE DEF p
  <2>3. /\ q \in Step /\ Like(p, q)
        /\ q.out = p.out \cup {[method |-> "CANCEL", code |-> 487, cseq |-> m.cseq]}
    BY <1>0, <2>2, SendLike
  <2> HIDE DEF q
  <2>4. Like(s, q)
    BY <2>2, <2>3 DEF Like
  <2>5. q.active /\ AgentOK(q)
    BY <2>3, <2>4, LikeOK DEF Like
  <2>6. \A o \in q.out : o.method = "CANCEL" /\ o.code \in {200, 487}
    BY <2>2, <2>3
  <2>7. \A o \in q.out : Reply(m, o)
    BY <1>3, <2>6 DEF Reply
  <2>8. Finished(q, EndCall(q))
    BY <2>3, <2>5, EndCallFields
  <2> QED BY <2>1, <2>3, <2>4, <2>7, <2>8, FinishedTook
<1>4. CASE m.method = "INVITE"
  <2> DEFINE p == Send(s, "INVITE", 100, m.cseq)
             q == Send(p, "INVITE", 200, m.cseq)
             x == OtherLeg(s.leg)
             t == [q EXCEPT !.request = m.cseq, !.ctl = "IN_CALL", !.leg = x]
  <2>1. RequestInCall(s, m) = t
    BY <1>4 DEF RequestInCall
  <2>2. /\ p \in Step /\ Like(s, p)
        /\ p.out = s.out \cup {[method |-> "INVITE", code |-> 100, cseq |-> m.cseq]}
    BY <1>0, SendLike
  <2> HIDE DEF p
  <2>3. /\ q \in Step /\ Like(p, q)
        /\ q.out = p.out \cup {[method |-> "INVITE", code |-> 200, cseq |-> m.cseq]}
    BY <1>0, <2>2, SendLike
  <2> HIDE DEF q
  <2>4. s.own /\ ~s.freed
    BY <1>4 DEF UsesSession, HasSession
  <2>5. x \in LegState /\ x \in {"INCALL", "HOLD"}
    BY <1>0
  <2> HIDE DEF x
  <2>6. /\ t \in Step /\ t.leg = x /\ t.ctl = "IN_CALL"
        /\ t.role = q.role /\ t.id = q.id /\ t.open = q.open /\ t.out = q.out
        /\ (t.acked <=> q.acked) /\ (t.own <=> q.own) /\ (t.freed <=> q.freed) /\ (t.active <=> q.active)
    BY <1>0, <2>3, <2>5, ReInvitedFields
  <2> HIDE DEF t
  <2>7. /\ t.role = s.role /\ t.id = s.id /\ t.open = s.open
        /\ (t.acked <=> s.acked) /\ t.own /\ ~t.freed /\ t.active
    BY <2>2, <2>3, <2>4, <2>6 DEF Like
  <2>8. ClientOK(t) /\ ServerOK(t) /\ Direct(t)
    BY <2>5, <2>6, <2>7 DEF ClientOK, ServerOK, Direct, SetUp, Up
  <2>9. Rest(t) = Rest(s)
    BY <2>4, <2>7 DEF Rest
  <2>10. \A o \in t.out : o.method = "INVITE" /\ o.code \in {100, 200}
    BY <2>2, <2>3, <2>6
  <2>11. \A o \in t.out : Reply(m, o)
    BY <1>4, <2>10 DEF Reply
  <2> QED BY <2>1, <2>5, <2>6, <2>7, <2>8, <2>9, <2>11 DEF Took, AgentOK, PastLegs
<1> QED BY <1>0, <1>1, <1>2, <1>3, <1>4 DEF Method

LEMMA RecvRequestTook ==
    ASSUME NEW s \in Step, s.active, s.out = {}, AgentOK(s),
           NEW m \in Msg, m.code = 0,
           m.method = "CANCEL" => s.role = "server",
           m.method = "BYE" /\ s.role = "client" => s.leg \in PastLegs,
           UsesSession(s, m) => HasSession(s)
    PROVE  Took(s, RecvRequest(s, m), m)
<1>1. CASE s.leg = "RINGING"
  <2>1. RecvRequest(s, m) = RequestInRinging(s, m)
    BY <1>1 DEF RecvRequest
  <2> QED BY <1>1, <2>1, RequestInRingingTook
<1>2. CASE s.leg = "FAILURE"
  <2>1. RecvRequest(s, m) = RequestInFailure(s, m)
    BY <1>2 DEF RecvRequest
  <2> QED BY <1>2, <2>1, RequestInFailureTook
<1>3. CASE s.leg \in {"INCALL", "HOLD"}
  <2>1. RecvRequest(s, m) = RequestInCall(s, m)
    BY <1>3 DEF RecvRequest
  <2> QED BY <1>3, <2>1, RequestInCallTook
<1>4. CASE s.leg \notin {"RINGING", "FAILURE", "INCALL", "HOLD"}
  <2>1. RecvRequest(s, m) = s /\ Like(s, s)
    BY <1>4 DEF RecvRequest, Like
  <2> QED BY <2>1, LikeTook
<1> QED BY <1>1, <1>2, <1>3, <1>4

-----------------------------------------------------------------------------
(* What a step leaves behind.                                              *)

LEMMA OpenedFields ==
    ASSUME IInv, NEW u \in Ua, NEW c \in Call, agent[u][c] # NoAgent
    PROVE  LET s == Opened(u, c)
               a == agent[u][c]
           IN  /\ a \in Agent /\ s \in Step /\ s.active /\ s.out = {} /\ AgentOK(s) /\ AgentOK(a)
               /\ s.role = a.role /\ s.id = a.id /\ s.leg = a.leg /\ s.ctl = a.ctl
               /\ (s.acked <=> a.acked) /\ (s.own <=> a.own) /\ (s.freed <=> a.freed)
               /\ s.cseq = a.cseq /\ s.request = a.request
               /\ Rest(s) = IF <<u, c>> \in tooLate THEN 1 ELSE 0
               /\ Direct(s) <=> Direct(a)
<1> DEFINE s == Opened(u, c)
           a == agent[u][c]
<1>1. a \in Agent /\ sessions[u][c] \in Nat /\ AgentOK(a) /\ aborted[u] = "none"
  BY DEF IInv, TypeOK, AgentInv
<1>2. sessions[u][c] = (IF a.own /\ ~a.freed THEN 1 ELSE 0) + (IF <<u, c>> \in tooLate THEN 1 ELSE 0)
  BY <1>1 DEF IInv, MediaReleased
<1>3. /\ s.role = a.role /\ s.id = a.id /\ s.leg = a.leg /\ s.ctl = a.ctl
      /\ s.acked = a.acked /\ s.own = a.own /\ s.freed = a.freed
      /\ s.cseq = a.cseq /\ s.request = a.request
      /\ s.open = sessions[u][c] /\ s.out = {} /\ s.active
  BY DEF Opened
<1>4. s \in Step
  BY <1>1 DEF Opened, Agent, Step
<1> HIDE DEF s, a
<1>5. AgentOK(s) /\ (Direct(s) <=> Direct(a))
  BY <1>1, <1>3 DEF AgentOK, ClientOK, ServerOK, Direct
<1>6. Rest(s) = IF <<u, c>> \in tooLate THEN 1 ELSE 0
  BY <1>2, <1>3 DEF Rest
<1> QED BY <1>1, <1>3, <1>4, <1>5, <1>6 DEF s, a

LEMMA ClosedFields ==
    ASSUME NEW s \in Step
    PROVE  LET a == Closed(s)
           IN  /\ a \in Agent /\ a # NoAgent
               /\ a.role = s.role /\ a.id = s.id /\ a.leg = s.leg /\ a.ctl = s.ctl
               /\ (a.acked <=> s.acked) /\ (a.own <=> s.own) /\ (a.freed <=> s.freed)
               /\ AgentOK(s) <=> AgentOK(a)
               /\ Direct(s) <=> Direct(a)
<1> DEFINE a == Closed(s)
<1>1. /\ a.role = s.role /\ a.id = s.id /\ a.leg = s.leg /\ a.ctl = s.ctl
      /\ a.acked = s.acked /\ a.own = s.own /\ a.freed = s.freed
  BY DEF Closed
<1>2. a \in Agent
  BY DEF Closed, Agent, Step
<1> HIDE DEF a
<1>3. (AgentOK(s) <=> AgentOK(a)) /\ (Direct(s) <=> Direct(a))
  BY <1>1 DEF AgentOK, ClientOK, ServerOK, Direct
<1> QED BY <1>1, <1>2, <1>3, UaNoAgentAssumption DEF a

\* The state after an event of call c at u.
LEMMA HandledFields ==
    ASSUME TypeOK, NEW u \in Ua, NEW c \in Call, NEW in \in SUBSET net, NEW s \in Step,
           s.open \in Nat, Handled(u, c, in, s)
    PROVE  /\ agent' \in [Ua -> [Call -> Agent \cup {NoAgent}]]
           /\ callMap' \in [Ua -> [Number -> Call \cup {NoCall}]]
           /\ sessions' \in [Ua -> [Call -> Nat]]
           /\ joined' \in SUBSET Call /\ silent' \in SUBSET Call /\ behind' \in SUBSET Call
           /\ agent'[u][c] = IF s.active THEN Closed(s) ELSE NoAgent
           /\ callMap'[u][s.id] = IF ~s.active THEN NoCall
                                  ELSE IF agent[u][c] = NoAgent THEN c ELSE callMap[u][s.id]
           /\ sessions'[u][c] = s.open
           /\ \A v \in Ua, d \in Call : v # u \/ d # c => agent'[v][d] = agent[v][d]
           /\ \A v \in Ua, d \in Call : v # u \/ d # c => sessions'[v][d] = sessions[v][d]
           /\ \A v \in Ua, n \in Number : v # u \/ n # s.id => callMap'[v][n] = callMap[v][n]
<1> DEFINE a == IF s.active THEN Closed(s) ELSE NoAgent
           x == IF ~s.active THEN NoCall ELSE IF agent[u][c] = NoAgent THEN c ELSE callMap[u][s.id]
<1>1. /\ agent \in [Ua -> [Call -> Agent \cup {NoAgent}]]
      /\ callMap \in [Ua -> [Number -> Call \cup {NoCall}]]
      /\ sessions \in [Ua -> [Call -> Nat]]
      /\ joined \in SUBSET Call /\ silent \in SUBSET Call /\ behind \in SUBSET Call
  BY DEF TypeOK
<1>2. s.id \in Number
  BY DEF Step
<1>3. a \in Agent \cup {NoAgent} /\ x \in Call \cup {NoCall}
  BY <1>1, <1>2, ClosedFields
<1>4. /\ agent' = [agent EXCEPT ![u][c] = a]
      /\ callMap' = [callMap EXCEPT ![u][s.id] = x]
      /\ sessions' = [sessions EXCEPT ![u][c] = s.open]
      /\ joined' \subseteq joined \cup {c} /\ silent' \subseteq silent \cup {c}
      /\ behind' \subseteq behind \cup {c}
  BY DEF Handled
<1> HIDE DEF a, x
<1>5. /\ agent' \in [Ua -> [Call -> Agent \cup {NoAgent}]] /\ agent'[u][c] = a
      /\ \A v \in Ua, d \in Call : v # u \/ d # c => agent'[v][d] = agent[v][d]
  BY <1>1, <1>3, <1>4
<1>6. /\ callMap' \in [Ua -> [Number -> Call \cup {NoCall}]] /\ callMap'[u][s.id] = x
      /\ \A v \in Ua, n \in Number : v # u \/ n # s.id => callMap'[v][n] = callMap[v][n]
  BY <1>1, <1>2, <1>3, <1>4
<1>7. /\ sessions' \in [Ua -> [Call -> Nat]] /\ sessions'[u][c] = s.open
      /\ \A v \in Ua, d \in Call : v # u \/ d # c => sessions'[v][d] = sessions[v][d]
  BY <1>1, <1>4
<1> QED BY <1>1, <1>4, <1>5, <1>6, <1>7 DEF a, x

\* The messages after it: those that were there, and those that u sent.
LEMMA HandledNet ==
    ASSUME NEW u \in Ua, NEW c \in Call, NEW in \in SUBSET net, NEW s \in Step,
           Handled(u, c, in, s), NEW m \in net'
    PROVE  \/ m \in net
           \/ \E o \in s.out : m = Sent(u, c, o)
BY DEF Handled

\* The answer of another party to request m.
LEMMA AnswerFields ==
    ASSUME NEW m \in Msg, NEW code \in Codes, NEW u \in Ua
    PROVE  LET r == Answer(m, code, u)
           IN  /\ r \in Msg /\ r.code = code /\ r.from = u
               /\ r.method = m.method /\ r.call = m.call
<1>1. m = [method |-> m.method, code |-> m.code, cseq |-> m.cseq, call |-> m.call, from |-> m.from]
  BY DEF Msg
<1>2. m.method \in Method /\ m.cseq \in Nat /\ m.call \in Call
  BY DEF Msg
<1>3. Answer(m, code, u) = [method |-> m.method, code |-> code, cseq |-> m.cseq, call |-> m.call, from |-> u]
  <2>1. PICK r : r = Answer(m, code, u)
    OBVIOUS
  <2>2. r = [m EXCEPT !.code = code, !.from = u]
    BY <2>1 DEF Answer
  <2>3. r = [method |-> m.method, code |-> code, cseq |-> m.cseq, call |-> m.call, from |-> u]
    BY <1>1, <2>2
  <2> QED BY <2>1, <2>3
<1> QED BY <1>2, <1>3 DEF Msg, Codes

\* The variables that only some events change, and how.
Frame(u, c) ==
    /\ UNCHANGED <<aborted, lost, failed>>
    /\ stack' \in [Ua -> [Call -> Container]]
    /\ placed \subseteq placed' /\ placed' \in SUBSET Call
    /\ proxied' \in SUBSET Call /\ answered' \in SUBSET Call /\ quit' \in SUBSET Call
    /\ reInvites' \in [Call -> 0..MaxReInvite]
    /\ \A d \in Call : reInvites'[d] >= reInvites[d]
    /\ tooLate \subseteq tooLate' /\ tooLate' \subseteq tooLate \cup {<<u, c>>}

\* A message that u may send in call c.
Sendable(u, c, o) ==
    /\ o.code > 0 => o.method \in {"INVITE", "CANCEL"}
    /\ o.method = "CANCEL" => Failed(c)' /\ (o.code = 0 <=> u = Caller[c])
    /\ o.method = "ACK" /\ u = Caller[c] => Past(c)'
    /\ o.method = "BYE" /\ u = Callee[c] => Past(c)'
    /\ o.code # 302
    /\ reInvites'[c] = 0 => /\ o.code > 0 => u = Callee[c]
                            /\ o.code = 0 /\ o.method = "INVITE" => u = Caller[c]

\* What an event of call c at u must make of its agent.
Sound(u, c, s) ==
    /\ u \in {Caller[c], Callee[c]} /\ aborted[u] = "none"
    /\ s.active => /\ c \in placed' /\ AgentOK(s)
                   /\ s.role = "client" => u = Caller[c]
                   /\ u = Callee[c] /\ s.acked => Past(c)'
                   /\ 302 \notin ProxyCode => Direct(s)
                   /\ reInvites'[c] = 0 /\ s.role = "server" =>
                         u = Callee[c] /\ (s.ctl = "UAS_RINGING" => s.leg \in {"RINGING", "FAILURE"})
    /\ s.open = (IF s.active /\ s.own /\ ~s.freed THEN 1 ELSE 0) + (IF <<u, c>> \in tooLate' THEN 1 ELSE 0)
    /\ agent[u][c] # NoAgent => s.id = agent[u][c].id
    /\ agent[u][c] = NoAgent => s.active /\ (u \in ServerUa \/ ~Busy(u))
    /\ c \in placed => (Past(c) => Past(c)') /\ (Failed(c) => Failed(c)')
    /\ \A o \in s.out : Sendable(u, c, o)

LEMMA HandledType ==
    ASSUME IInv, NEW u \in Ua, NEW c \in Call, NEW in \in SUBSET net, NEW s \in Step,
           Handled(u, c, in, s), Frame(u, c), Sound(u, c, s)
    PROVE  TypeOK' /\ s.open \in Nat
<1>1. s.open \in Nat
  BY DEF Sound
<1>2. TypeOK /\ net \subseteq Msg /\ \A n \in net : MsgOK(n)
  BY DEF IInv, TypeOK, NetInv
<1>3. /\ agent' \in [Ua -> [Call -> Agent \cup {NoAgent}]]
      /\ callMap' \in [Ua -> [Number -> Call \cup {NoCall}]]
      /\ sessions' \in [Ua -> [Call -> Nat]]
      /\ joined' \in SUBSET Call /\ silent' \in SUBSET Call /\ behind' \in SUBSET Call
  BY <1>1, <1>2, HandledFields
<1>4. ASSUME NEW m \in net'  PROVE m \in Msg
  <2>1. CASE m \in net
    BY <1>2, <2>1
  <2>2. ASSUME NEW o \in s.out, m = Sent(u, c, o)  PROVE m \in Msg
    <3>1. o \in Out
      BY DEF Step
    <3> QED BY <2>2, <3>1 DEF Sent, Out, Msg, Codes
  <2> QED BY <2>1, <2>2, HandledNet
<1>5. /\ aborted' \in [Ua -> Assertion] /\ lost' \subseteq Msg /\ failed' \subseteq Msg
      /\ tooLate' \subseteq Ua \X Call
  BY <1>2 DEF Frame, TypeOK
<1> QED BY <1>1, <1>3, <1>4, <1>5 DEF TypeOK, Frame

\* The other calls' agents stay as they are.
LEMMA PastKept ==
    ASSUME IInv, NEW u \in Ua, NEW c \in Call, NEW in \in SUBSET net, NEW s \in Step,
           Handled(u, c, in, s), s.open \in Nat, Sound(u, c, s), NEW d \in placed
    PROVE  (Past(d) => Past(d)') /\ (Failed(d) => Failed(d)')
<1>1. CASE d = c
  BY <1>1 DEF Sound
<1>2. CASE d # c
  <2>1. d \in Call /\ Caller[d] \in Ua
    BY UaRolesAssumption DEF IInv, TypeOK
  <2>0. TypeOK
    BY DEF IInv
  <2>2. \A v \in Ua, e \in Call : v # u \/ e # c => agent'[v][e] = agent[v][e]
    BY <2>0, HandledFields
  <2>3. agent'[Caller[d]][d] = agent[Caller[d]][d]
    BY <1>2, <2>1, <2>2
  <2> QED BY <2>3 DEF Past, Failed
<1> QED BY <1>1, <1>2

LEMMA HandledNetInv ==
    ASSUME IInv, NEW u \in Ua, NEW c \in Call, NEW in \in SUBSET net, NEW s \in Step,
           Handled(u, c, in, s), Frame(u, c), Sound(u, c, s), c \in placed' \/ s.out = {}
    PROVE  NetInv'
<1>0. s.open \in Nat
  BY HandledType
<1>1. /\ net \subseteq Msg /\ \A n \in net : MsgOK(n) /\ n.call \in placed /\ n.call \in Call
      /\ placed \subseteq placed'
  BY DEF IInv, TypeOK, NetInv, MsgOK, Frame, Msg
<1>2. \A n \in net : (Past(n.call) => Past(n.call)') /\ (Failed(n.call) => Failed(n.call)')
  BY <1>0, <1>1, PastKept
<1>3. SUFFICES ASSUME NEW m \in net'  PROVE MsgOK(m)'
  BY DEF NetInv
<1>4. CASE m \in net
  BY <1>1, <1>2, <1>4 DEF MsgOK
<1>5. ASSUME NEW o \in s.out, m = Sent(u, c, o)  PROVE MsgOK(m)'
  <2>1. m.call = c /\ m.from = u /\ m.method = o.method /\ m.code = o.code
    BY <1>5 DEF Sent
  <2>2. Sendable(u, c, o) /\ u \in {Caller[c], Callee[c]}
    BY DEF Sound
  <2>3. c \in placed'
    BY <1>5
  <2> QED BY <2>1, <2>2, <2>3 DEF Sendable, MsgOK
<1> QED BY <1>4, <1>5, HandledNet

LEMMA HandledAgents ==
    ASSUME IInv, NEW u \in Ua, NEW c \in Call, NEW in \in SUBSET net, NEW s \in Step,
           Handled(u, c, in, s), Frame(u, c), Sound(u, c, s)
    PROVE  AgentInv' /\ AckedInv'
<1>0. s.open \in Nat /\ TypeOK /\ aborted' = aborted /\ placed \subseteq placed'
  BY HandledType DEF IInv, Frame
<1>1. /\ agent'[u][c] = IF s.active THEN Closed(s) ELSE NoAgent
      /\ \A v \in Ua, d \in Call : v # u \/ d # c => agent'[v][d] = agent[v][d]
  BY <1>0, HandledFields
<1>2. LET a == Closed(s)
      IN  /\ a.role = s.role /\ (a.acked <=> s.acked) /\ (AgentOK(s) <=> AgentOK(a))
  BY ClosedFields
<1>3. /\ u \in {Caller[c], Callee[c]} /\ aborted[u] = "none"
      /\ s.active => /\ c \in placed' /\ AgentOK(s)
                     /\ s.role = "client" => u = Caller[c]
                     /\ u = Callee[c] /\ s.acked => Past(c)'
  BY DEF Sound
<1>4. AgentInv'
  <2>1. SUFFICES ASSUME NEW v \in Ua, NEW d \in Call, agent'[v][d] # NoAgent
                 PROVE  /\ d \in placed' /\ aborted'[v] = "none"
                        /\ v \in {Caller[d], Callee[d]}
                        /\ agent'[v][d].role = "client" => v = Caller[d]
                        /\ AgentOK(agent'[v][d])
    BY DEF AgentInv, AgentOK, ClientOK, ServerOK
  <2>2. CASE v = u /\ d = c
    BY <1>0, <1>1, <1>2, <1>3, <2>1, <2>2
  <2>3. CASE v # u \/ d # c
    <3>1. agent'[v][d] = agent[v][d]
      BY <1>1, <2>3
    <3> QED BY <1>0, <2>1, <3>1 DEF IInv, AgentInv
  <2> QED BY <2>2, <2>3
<1>5. AckedInv'
  <2>1. SUFFICES ASSUME NEW d \in Call, agent'[Callee[d]][d] # NoAgent, agent'[Callee[d]][d].acked
                 PROVE  Past(d)'
    BY DEF AckedInv
  <2>2. CASE Callee[d] = u /\ d = c
    BY <1>1, <1>2, <1>3, <2>1, <2>2
  <2>3. CASE Callee[d] # u \/ d # c
    <3>1. Callee[d] \in Ua
      BY UaRolesAssumption
    <3>2. agent'[Callee[d]][d] = agent[Callee[d]][d]
      BY <1>1, <2>3, <3>1
    <3>3. Past(d) /\ d \in placed
      BY <2>1, <3>1, <3>2 DEF IInv, AckedInv, AgentInv
    <3> QED BY <1>0, <3>3, PastKept
  <2> QED BY <2>2, <2>3
<1> QED BY <1>4, <1>5

LEMMA HandledMap ==
    ASSUME IInv, NEW u \in Ua, NEW c \in Call, NEW in \in SUBSET net, NEW s \in Step,
           Handled(u, c, in, s), Frame(u, c), Sound(u, c, s)
    PROVE  MapInv' /\ AgentPersisted'
<1>0. s.open \in Nat /\ TypeOK /\ s.id \in Number
  BY HandledType DEF IInv, Step
<1>1. /\ agent'[u][c] = IF s.active THEN Closed(s) ELSE NoAgent
      /\ \A v \in Ua, d \in Call : v # u \/ d # c => agent'[v][d] = agent[v][d]
      /\ callMap'[u][s.id] = IF ~s.active THEN NoCall
                             ELSE IF agent[u][c] = NoAgent THEN c ELSE callMap[u][s.id]
      /\ \A v \in Ua, n \in Number : v # u \/ n # s.id => callMap'[v][n] = callMap[v][n]
  <2>1. /\ agent'[u][c] = IF s.active THEN Closed(s) ELSE NoAgent
        /\ \A v \in Ua, d \in Call : v # u \/ d # c => agent'[v][d] = agent[v][d]
    BY <1>0, HandledFields
  <2>2. callMap'[u][s.id] = IF ~s.active THEN NoCall
                            ELSE IF agent[u][c] = NoAgent THEN c ELSE callMap[u][s.id]
    BY <1>0, HandledFields
  <2>3. \A v \in Ua, n \in Number : v # u \/ n # s.id => callMap'[v][n] = callMap[v][n]
    BY <1>0, HandledFields
  <2> QED BY <2>1, <2>2, <2>3
<1>2. Closed(s).id = s.id /\ Closed(s) # NoAgent
  BY ClosedFields
<1>3. /\ agent[u][c] # NoAgent => s.id = agent[u][c].id
      /\ agent[u][c] = NoAgent => s.active /\ (u \in ServerUa \/ ~Busy(u))
  BY DEF Sound
<1>4. /\ \A v \in Ua, n \in Number : callMap[v][n] \in Call \cup {NoCall}
      /\ \A v \in Ua, d \in Call : agent[v][d] # NoAgent => agent[v][d].id \in Number
  <2>1. \A v \in Ua, d \in Call : agent[v][d] # NoAgent => agent[v][d] \in Agent
    BY <1>0 DEF TypeOK
  <2>2. \A a \in Agent : a.id \in Number
    BY DEF Agent
  <2>3. \A v \in Ua, n \in Number : callMap[v][n] \in Call \cup {NoCall}
    BY <1>0 DEF TypeOK
  <2> QED BY <2>1, <2>2, <2>3
<1>5. MapInv'
  <2>1. SUFFICES ASSUME NEW v \in Ua, NEW n \in Number, callMap'[v][n] # NoCall
                 PROVE  LET d == callMap'[v][n] IN agent'[v][d] # NoAgent /\ agent'[v][d].id = n
    BY DEF MapInv
  <2> DEFINE d == callMap'[v][n]
  <2>2. CASE v = u /\ n = s.id
    <3>1. s.active
      BY <1>1, <2>1, <2>2
    <3>2. CASE d = c
      BY <1>1, <1>2, <2>2, <3>1, <3>2
    <3>3. CASE d # c
      <4>1. d = callMap[v][n] /\ d \in Call
        BY <1>1, <1>4, <2>1, <2>2, <3>1, <3>3
      <4>2. agent'[v][d] = agent[v][d]
        BY <1>1, <3>3, <4>1
      <4> QED BY <2>1, <4>1, <4>2 DEF IInv, MapInv
    <3> QED BY <3>2, <3>3
  <2>3. CASE v # u \/ n # s.id
    <3>1. d = callMap[v][n] /\ d \in Call
      BY <1>1, <1>4, <2>1, <2>3
    <3>2. agent[v][d] # NoAgent /\ agent[v][d].id = n
      BY <2>1, <3>1 DEF IInv, MapInv
    <3>3. v # u \/ d # c
      BY <1>3, <2>3, <3>2
    <3>4. agent'[v][d] = agent[v][d]
      BY <1>1, <3>1, <3>3
    <3> QED BY <3>2, <3>4
  <2> QED BY <2>2, <2>3
<1>6. AgentPersisted'
  <2>1. SUFFICES ASSUME NEW v \in Ua \ ServerUa, NEW d \in Call, agent'[v][d] # NoAgent
                 PROVE  callMap'[v][agent'[v][d].id] = d
    BY DEF AgentPersisted
  <2>2. CASE v = u /\ d = c
    <3>1. s.active /\ agent'[v][d].id = s.id
      BY <1>1, <1>2, <2>1, <2>2
    <3>2. agent[u][c] # NoAgent => callMap[u][s.id] = c
      BY <1>3, <2>2 DEF IInv, AgentPersisted
    <3> QED BY <1>1, <2>2, <3>1, <3>2
  <2>3. CASE v # u \/ d # c
    <3>1. agent'[v][d] = agent[v][d]
      BY <1>1, <2>3
    <3>2. callMap[v][agent[v][d].id] = d /\ agent[v][d].id \in Number
      BY <1>4, <2>1, <3>1 DEF IInv, AgentPersisted
    <3>3. v # u \/ agent[v][d].id # s.id
      <4>1. SUFFICES ASSUME v = u, agent[v][d].id = s.id  PROVE FALSE
        OBVIOUS
      <4>2. CASE agent[u][c] # NoAgent
        BY <1>3, <2>3, <3>2, <4>1, <4>2 DEF IInv, AgentPersisted
      <4>3. CASE agent[u][c] = NoAgent
        BY <1>0, <1>3, <3>2, <4>1, <4>3, UaNoCallAssumption DEF Busy
      <4> QED BY <4>2, <4>3
    <3> QED BY <1>1, <3>1, <3>2, <3>3
  <2> QED BY <2>2, <2>3
<1> QED BY <1>5, <1>6

LEMMA HandledMedia ==
    ASSUME IInv, NEW u \in Ua, NEW c \in Call, NEW in \in SUBSET net, NEW s \in Step,
           Handled(u, c, in, s), Frame(u, c), Sound(u, c, s)
    PROVE  MediaReleased'
<1>0. s.open \in Nat /\ TypeOK /\ aborted' = aborted
  BY HandledType DEF IInv, Frame
<1>1. /\ agent'[u][c] = IF s.active THEN Closed(s) ELSE NoAgent
      /\ sessions'[u][c] = s.open
      /\ \A v \in Ua, d \in Call : v # u \/ d # c => agent'[v][d] = agent[v][d]
      /\ \A v \in Ua, d \in Call : v # u \/ d # c => sessions'[v][d] = sessions[v][d]
  BY <1>0, HandledFields
<1>2. Closed(s) # NoAgent /\ (Closed(s).own <=> s.own) /\ (Closed(s).freed <=> s.freed)
  BY ClosedFields
<1>3. s.open = (IF s.active /\ s.own /\ ~s.freed THEN 1 ELSE 0) + (IF <<u, c>> \in tooLate' THEN 1 ELSE 0)
  BY DEF Sound
<1>4. SUFFICES ASSUME NEW v \in Ua, aborted[v] = "none", NEW d \in Call
               PROVE  sessions'[v][d] = (IF agent'[v][d] # NoAgent /\ agent'[v][d].own /\ ~agent'[v][d].freed
                                         THEN 1 ELSE 0) + (IF <<v, d>> \in tooLate' THEN 1 ELSE 0)
  BY <1>0 DEF MediaReleased
<1>5. CASE v = u /\ d = c
  <2>1. CASE s.active
    BY <1>1, <1>2, <1>3, <1>5, <2>1
  <2>2. CASE ~s.active
    BY <1>1, <1>2, <1>3, <1>5, <2>2
  <2> QED BY <2>1, <2>2
<1>6. CASE v # u \/ d # c
  <2>1. <<v, d>> \in tooLate' <=> <<v, d>> \in tooLate
    BY <1>6 DEF Frame
  <2>2. agent'[v][d] = agent[v][d] /\ sessions'[v][d] = sessions[v][d]
    BY <1>1, <1>6
  <2> QED BY <1>4, <2>1, <2>2 DEF IInv, MediaReleased
<1> QED BY <1>5, <1>6

LEMMA HandledPlain ==
    ASSUME IInv, NEW u \in Ua, NEW c \in Call, NEW in \in SUBSET net, NEW s \in Step,
           Handled(u, c, in, s), Frame(u, c), Sound(u, c, s)
    PROVE  PlainInv'
<1>0. s.open \in Nat /\ TypeOK
  BY HandledType DEF IInv
<1>1. /\ agent'[u][c] = IF s.active THEN Closed(s) ELSE NoAgent
      /\ \A v \in Ua, d \in Call : v # u \/ d # c => agent'[v][d] = agent[v][d]
  BY <1>0, HandledFields
<1>2. Closed(s).role = s.role /\ Closed(s).ctl = s.ctl /\ Closed(s).leg = s.leg
  BY ClosedFields
<1>3. /\ s.active => (reInvites'[c] = 0 /\ s.role = "server" =>
                         u = Callee[c] /\ (s.ctl = "UAS_RINGING" => s.leg \in {"RINGING", "FAILURE"}))
      /\ \A o \in s.out : Sendable(u, c, o)
  BY DEF Sound
<1>4. SUFFICES ASSUME NEW d \in Call, reInvites'[d] = 0
               PROVE  /\ \A m \in net' : m.call = d /\ m.code > 0 => m.from = Callee[d]
                      /\ \A m \in net' : m.call = d /\ m.code = 0 /\ m.method = "INVITE" => m.from = Caller[d]
                      /\ \A v \in Ua : agent'[v][d] # NoAgent /\ agent'[v][d].role = "server" =>
                            v = Callee[d] /\ (agent'[v][d].ctl = "UAS_RINGING" => agent'[v][d].leg \in {"RINGING", "FAILURE"})
  BY DEF PlainInv
<1>5. reInvites[d] = 0
  BY <1>0, <1>4, UaBoundAssumption DEF Frame, TypeOK
<1>6. /\ \A m \in net : m.call = d /\ m.code > 0 => m.from = Callee[d]
      /\ \A m \in net : m.call = d /\ m.code = 0 /\ m.method = "INVITE" => m.from = Caller[d]
      /\ \A v \in Ua : agent[v][d] # NoAgent /\ agent[v][d].role = "server" =>
            v = Callee[d] /\ (agent[v][d].ctl = "UAS_RINGING" => agent[v][d].leg \in {"RINGING", "FAILURE"})
  BY <1>5 DEF IInv, PlainInv
<1>7. ASSUME NEW m \in net', m.call = d
      PROVE  /\ m.code > 0 => m.from = Callee[d]
             /\ m.code = 0 /\ m.method = "INVITE" => m.from = Caller[d]
  <2>1. CASE m \in net
    BY <1>6, <1>7, <2>1
  <2>2. ASSUME NEW o \in s.out, m = Sent(u, c, o)
        PROVE  /\ m.code > 0 => m.from = Callee[d]
               /\ m.code = 0 /\ m.method = "INVITE" => m.from = Caller[d]
    <3>1. m.call = c /\ m.from = u /\ m.method = o.method /\ m.code = o.code
      BY <2>2 DEF Sent
    <3>2. Sendable(u, c, o)
      BY <1>3
    <3> QED BY <1>4, <1>7, <3>1, <3>2 DEF Sendable
  <2> QED BY <2>1, <2>2, HandledNet
<1>8. ASSUME NEW v \in Ua, agent'[v][d] # NoAgent, agent'[v][d].role = "server"
      PROVE  v = Callee[d] /\ (agent'[v][d].ctl = "UAS_RINGING" => agent'[v][d].leg \in {"RINGING", "FAILURE"})
  <2>1. CASE v = u /\ d = c
    BY <1>1, <1>2, <1>3, <1>4, <1>8, <2>1
  <2>2. CASE v # u \/ d # c
    BY <1>1, <1>6, <1>8, <2>2
  <2> QED BY <2>1, <2>2
<1> QED BY <1>7, <1>8

LEMMA HandledDirect ==
    ASSUME IInv, NEW u \in Ua, NEW c \in Call, NEW in \in SUBSET net, NEW s \in Step,
           Handled(u, c, in, s), Frame(u, c), Sound(u, c, s)
    PROVE  DirectInv'
<1>0. s.open \in Nat /\ TypeOK
  BY HandledType DEF IInv
<1>1. /\ agent'[u][c] = IF s.active THEN Closed(s) ELSE NoAgent
      /\ \A v \in Ua, d \in Call : v # u \/ d # c => agent'[v][d] = agent[v][d]
  BY <1>0, HandledFields
<1>2. SUFFICES ASSUME 302 \notin ProxyCode
               PROVE  /\ \A m \in net' : m.code # 302
                      /\ \A v \in Ua, d \in Call : agent'[v][d] # NoAgent => Direct(agent'[v][d])
                      /\ \A v \in Ua : aborted'[v] = "session" => \E d \in Call : reInvites'[d] > 0
  BY DEF DirectInv, SessionAtHand, Direct
<1>3. /\ \A m \in net : m.code # 302
      /\ \A v \in Ua, d \in Call : agent[v][d] # NoAgent => Direct(agent[v][d])
      /\ \A v \in Ua : aborted[v] = "session" => \E d \in Call : reInvites[d] > 0
  BY <1>2 DEF IInv, DirectInv, SessionAtHand
<1>4. ASSUME NEW m \in net'  PROVE m.code # 302
  <2>1. ASSUME NEW o \in s.out, m = Sent(u, c, o)  PROVE m.code # 302
    <3>1. Sendable(u, c, o) /\ m.code = o.code
      BY <2>1 DEF Sound, Sent
    <3> QED BY <3>1 DEF Sendable
  <2> QED BY <1>3, <2>1, HandledNet
<1>5. ASSUME NEW v \in Ua, NEW d \in Call, agent'[v][d] # NoAgent  PROVE Direct(agent'[v][d])
  <2>1. CASE v = u /\ d = c
    <3>1. s.active /\ agent'[v][d] = Closed(s)
      BY <1>1, <1>5, <2>1
    <3>2. Direct(s)
      BY <1>2, <3>1 DEF Sound
    <3> QED BY <3>1, <3>2, ClosedFields
  <2>2. CASE v # u \/ d # c
    BY <1>1, <1>3, <1>5, <2>2
  <2> QED BY <2>1, <2>2
<1>6. ASSUME NEW v \in Ua, aborted'[v] = "session"  PROVE \E d \in Call : reInvites'[d] > 0
  <2>1. PICK d \in Call : reInvites[d] > 0
    BY <1>3, <1>6 DEF Frame
  <2>2. reInvites'[d] >= reInvites[d] /\ reInvites'[d] \in Nat /\ reInvites[d] \in Nat
    BY <1>0, UaBoundAssumption DEF Frame, TypeOK
  <2> QED BY <2>1, <2>2
<1> QED BY <1>4, <1>5, <1>6

LEMMA HandledInv ==
    ASSUME IInv, NEW u \in Ua, NEW c \in Call, NEW in \in SUBSET net, NEW s \in Step,
           Handled(u, c, in, s), Frame(u, c), Sound(u, c, s), c \in placed'
    PROVE  IInv'
<1>1. TypeOK'
  BY HandledType
<1>2. AgentInv' /\ AckedInv'
  BY HandledAgents
<1>3. NetInv'
  BY HandledNetInv
<1>4. MapInv' /\ AgentPersisted'
  BY HandledMap
<1>5. MediaReleased'
  BY HandledMedia
<1>6. PlainInv' /\ DirectInv'
  BY HandledPlain, HandledDirect
<1> QED BY <1>1, <1>2, <1>3, <1>4, <1>5, <1>6 DEF IInv

\* How the agent of the caller after the event decides Past and Failed.
LEMMA PastAfter ==
    ASSUME TypeOK, NEW u \in Ua, NEW c \in Call, NEW in \in SUBSET net, NEW s \in Step,
           s.open \in Nat, Handled(u, c, in, s)
    PROVE  /\ u # Caller[c] => (Past(c)' <=> Past(c)) /\ (Failed(c)' <=> Failed(c))
           /\ u = Caller[c] => /\ Past(c)' <=> (s.active /\ s.role = "client" => s.leg \in PastLegs)
                               /\ Failed(c)' <=> (s.active /\ s.role = "client" => s.leg = "FAILURE")
<1>1. /\ agent'[u][c] = IF s.active THEN Closed(s) ELSE NoAgent
      /\ \A v \in Ua, d \in Call : v # u \/ d # c => agent'[v][d] = agent[v][d]
  BY HandledFields
<1>2. Closed(s) # NoAgent /\ Closed(s).role = s.role /\ Closed(s).leg = s.leg
  BY ClosedFields
<1>3. CASE u # Caller[c]
  <2>1. agent'[Caller[c]][c] = agent[Caller[c]][c]
    BY <1>1, <1>3, UaRolesAssumption
  <2> QED BY <1>3, <2>1 DEF Past, Failed
<1>4. CASE u = Caller[c]
  BY <1>1, <1>2, <1>4 DEF Past, Failed, PastLegs
<1> QED BY <1>3, <1>4

-----------------------------------------------------------------------------
(* The actions.                                                            *)

\* What is known of a message for u in call c, and trivially of a command.
From(u, c, m) ==
    /\ m.method = "ACK" /\ m.code = 0 /\ u = Callee[c] => Past(c)
    /\ m.method = "CANCEL" /\ m.code = 0 => u = Callee[c] /\ Failed(c)
    /\ reInvites[c] = 0 => /\ m.code = 0 /\ m.method = "INVITE" => u = Callee[c]
                           /\ m.code # 0 => u = Caller[c]
    /\ 302 \notin ProxyCode => m.code # 302

\* An agent that has received a message, or a command to end its call.
LEMMA TookInv ==
    ASSUME IInv, NEW u \in Ua, NEW c \in Call, NEW in \in SUBSET net, NEW t, NEW m,
           agent[u][c] # NoAgent, Took(Opened(u, c), t, m), From(u, c, m),
           Handled(u, c, in, t), Frame(u, c), reInvites'[c] = 0 => reInvites[c] = 0,
           tooLate' = tooLate
    PROVE  IInv'
<1> DEFINE s == Opened(u, c)
           a == agent[u][c]
<1>1. /\ s \in Step /\ s.active /\ s.out = {} /\ AgentOK(s)
      /\ s.role = a.role /\ s.id = a.id /\ s.leg = a.leg /\ s.ctl = a.ctl
      /\ (s.acked <=> a.acked)
      /\ Rest(s) = IF <<u, c>> \in tooLate THEN 1 ELSE 0
      /\ Direct(s) <=> Direct(a)
  BY OpenedFields
<1>2. /\ c \in placed /\ c \in placed' /\ aborted[u] = "none" /\ u \in {Caller[c], Callee[c]}
      /\ a.role = "client" => u = Caller[c]
      /\ Caller[c] # Callee[c]
  BY UaRolesAssumption DEF IInv, AgentInv, Frame
<1>3. Took(s, t, m)
  OBVIOUS
<1> HIDE DEF s, a
<1>4. /\ t \in Step /\ t.role = s.role /\ t.id = s.id
      /\ t.role \in {"client", "server"} /\ t.active \in BOOLEAN /\ t.open \in Int
  BY <1>3 DEF Took, Step
<1>5. t.open = (IF t.active /\ t.own /\ ~t.freed THEN 1 ELSE 0) + (IF <<u, c>> \in tooLate THEN 1 ELSE 0)
  <2>1. CASE t.active
    <3>1. t.open - (IF t.own /\ ~t.freed THEN 1 ELSE 0) = IF <<u, c>> \in tooLate THEN 1 ELSE 0
      BY <1>1, <1>3, <2>1 DEF Took, Rest
    <3> QED BY <1>4, <2>1, <3>1
  <2>2. CASE ~t.active
    BY <1>1, <1>3, <2>2 DEF Took
  <2> QED BY <2>1, <2>2
<1>6. t.open \in Nat
  BY <1>5
<1>7. /\ u # Caller[c] => (Past(c)' <=> Past(c)) /\ (Failed(c)' <=> Failed(c))
      /\ u = Caller[c] => /\ Past(c)' <=> (t.active /\ t.role = "client" => t.leg \in PastLegs)
                          /\ Failed(c)' <=> (t.active /\ t.role = "client" => t.leg = "FAILURE")
  BY <1>4, <1>6, PastAfter DEF IInv
<1>8. u = Callee[c] /\ t.acked => Past(c)'
  <2>1. u = Callee[c] /\ a.acked => Past(c)
    BY DEF IInv, AckedInv, a
  <2> QED BY <1>1, <1>2, <1>3, <1>7, <2>1 DEF Took, From
<1>9. (Past(c) => Past(c)') /\ (Failed(c) => Failed(c)')
  <2>1. CASE u # Caller[c]
    BY <1>7, <2>1
  <2>2. CASE u = Caller[c]
    <3>1. /\ Past(c) => (a.role = "client" => a.leg \in PastLegs)
          /\ Failed(c) => (a.role = "client" => a.leg = "FAILURE")
      BY <2>2 DEF Past, Failed, PastLegs, a
    <3> QED BY <1>1, <1>3, <1>4, <1>7, <2>2, <3>1 DEF Took
  <2> QED BY <2>1, <2>2
<1>10. /\ t.active => AgentOK(t)
       /\ 302 \notin ProxyCode /\ t.active => Direct(t)
  <2>1. 302 \notin ProxyCode => Direct(a)
    BY DEF IInv, DirectInv, a
  <2> QED BY <1>1, <1>3, <2>1 DEF Took, From
<1>11. t.active /\ reInvites[c] = 0 /\ t.role = "server" =>
          u = Callee[c] /\ (t.ctl = "UAS_RINGING" => t.leg \in {"RINGING", "FAILURE"})
  <2>1. SUFFICES ASSUME t.active, reInvites[c] = 0, t.role = "server"
                 PROVE  u = Callee[c] /\ (t.ctl = "UAS_RINGING" => t.leg \in {"RINGING", "FAILURE"})
    OBVIOUS
  <2>2. u = Callee[c] /\ (a.ctl = "UAS_RINGING" => a.leg \in {"RINGING", "FAILURE"})
    BY <1>1, <1>4, <2>1 DEF IInv, PlainInv, a
  <2>3. m.code = 0
    BY <1>2, <2>1, <2>2 DEF From
  <2> QED BY <1>1, <1>3, <2>1, <2>2, <2>3 DEF Took
<1>12. ASSUME NEW o \in t.out  PROVE Sendable(u, c, o)
  <2>0. o.method \in Method
    BY <1>4 DEF Step, Out
  <2>1. CASE Fine(t, o)
    <3>1. t.role = "server" /\ reInvites[c] = 0 => u = Callee[c]
      <4>1. a.role = "server" /\ reInvites[c] = 0 => u = Callee[c]
        BY DEF IInv, PlainInv, a
      <4> QED BY <1>1, <1>4, <4>1
    <3>2. o.code > 0 => o.method = "INVITE" /\ t.role = "server"
      BY <1>4, <2>0, <2>1 DEF Fine, Method
    <3>3. o.method = "CANCEL" => Failed(c)' /\ (o.code = 0 <=> u = Caller[c])
      BY <1>1, <1>2, <1>4, <1>7, <2>1 DEF Fine
    <3>4. o.method = "ACK" /\ u = Caller[c] => Past(c)'
      BY <1>7, <2>1 DEF Fine
    <3>5. o.method = "BYE" /\ u = Callee[c] => Past(c)'
      BY <1>1, <1>2, <1>4, <1>8, <2>1 DEF Fine
    <3>6. o.code = 0 /\ o.method = "INVITE" => u = Caller[c]
      BY <1>1, <1>2, <1>4, <2>1 DEF Fine
    <3>7. o.code # 302
      BY <2>1 DEF Fine
    <3> QED BY <3>1, <3>2, <3>3, <3>4, <3>5, <3>6, <3>7 DEF Sendable
  <2>2. CASE Reply(m, o)
    <3>1. o.method \in {"INVITE", "CANCEL"} /\ o.code > 0 /\ o.code # 0 /\ o.code # 302
      BY <2>2 DEF Reply
    <3>2. o.method = "CANCEL" => Failed(c)' /\ u = Callee[c]
      BY <1>9, <2>2 DEF Reply, From
    <3>3. reInvites[c] = 0 => u = Callee[c]
      BY <2>2 DEF Reply, From
    <3> QED BY <1>2, <3>1, <3>2, <3>3 DEF Sendable
  <2> QED BY <1>3, <2>1, <2>2 DEF Took
<1>13. Sound(u, c, t)
  BY <1>1, <1>2, <1>4, <1>5, <1>8, <1>9, <1>10, <1>11, <1>12 DEF Sound, a
<1> QED BY <1>2, <1>4, <1>13, HandledInv

\* The variables an event of a call with an agent leaves alone.
LEMMA FrameKept ==
    ASSUME IInv, NEW u \in Ua, NEW c \in Call,
           UNCHANGED <<aborted, lost, failed, proxied, placed, reInvites, tooLate>>,
           stack' \in [Ua -> [Call -> Container]],
           answered' \in SUBSET Call, quit' \in SUBSET Call
    PROVE  Frame(u, c)
BY UaBoundAssumption DEF IInv, TypeOK, Frame

\* A call that is ended by a command or a device.
LEMMA FinishedInv ==
    ASSUME IInv, NEW u \in Ua, NEW c \in Call, NEW t, agent[u][c] # NoAgent,
           Finished(Opened(u, c), t), Handled(u, c, {}, t),
           UNCHANGED <<aborted, lost, failed, stack, proxied, placed, reInvites, tooLate, answered>>,
           quit' = quit \cup {c}
    PROVE  IInv'
<1> DEFINE s == Opened(u, c)
           m == [method |-> "BYE", code |-> 0]
<1>1. s \in Step /\ s.out = {} /\ AgentOK(s)
  BY OpenedFields
<1>2. Like(s, s) /\ Finished(s, t)
  BY <1>1 DEF Like
<1>3. Frame(u, c)
  BY FrameKept DEF IInv, TypeOK
<1>4. From(u, c, m)
  BY DEF From
<1> HIDE DEF s, m
<1>5. Took(s, t, m)
  BY <1>1, <1>2, FinishedTook
<1> QED BY <1>3, <1>4, <1>5, TookInv DEF s

LEMMA StopInv ==
    ASSUME IInv, NEW u \in Ua, NEW c \in Call, Stop(u, c)
    PROVE  IInv'
<1>1. agent[u][c] # NoAgent
  BY DEF Stop, ActiveCall
<1>2. Finished(Opened(u, c), StopCall(Opened(u, c)))
  BY <1>1, OpenedFields, StopCallFields
<1> QED BY <1>1, <1>2, FinishedInv DEF Stop, faultVars

LEMMA PurgeInv ==
    ASSUME IInv, NEW u \in Ua, NEW c \in Call, Purge(u, c)
    PROVE  IInv'
<1>1. agent[u][c] # NoAgent
  BY DEF Purge, ActiveCall
<1>2. Finished(Opened(u, c), PurgeCall(Opened(u, c)))
  BY <1>1, OpenedFields, PurgeCallFields
<1> QED BY <1>1, <1>2, FinishedInv DEF Purge, faultVars

LEMMA DeviceStopInv ==
    ASSUME IInv, NEW u \in Ua, NEW n \in Number, DeviceStop(u, n)
    PROVE  IInv'
<1> DEFINE c == callMap[u][n]
<1>1. c \in Call /\ agent[u][c] # NoAgent
  BY DEF IInv, TypeOK, DeviceStop, IsUp
<1>2. Finished(Opened(u, c), DoBye(Opened(u, c)))
  BY <1>1, OpenedFields, DoByeFields
<1>3. /\ Handled(u, c, {}, DoBye(Opened(u, c))) /\ quit' = quit \cup {c}
      /\ UNCHANGED <<aborted, lost, failed, stack, proxied, placed, reInvites, tooLate, answered>>
  BY DEF DeviceStop, faultVars
<1> QED BY <1>1, <1>2, <1>3, FinishedInv

LEMMA DeliverToAgentInv ==
    ASSUME IInv, NEW m \in net, DeliverToAgent(Peer(m.call, m.from), m),
           stack' \in [Ua -> [Call -> Container]]
    PROVE  IInv'
<1> DEFINE c == m.call
           u == Peer(c, m.from)
           s == Opened(u, c)
           t == IF m.code = 0 THEN RecvRequest(s, m) ELSE RecvStatus(s, m)
           a == agent[u][c]
<1>1. m \in Msg /\ MsgOK(m) /\ m.code \in Nat
  BY DEF IInv, TypeOK, NetInv, Msg
<1>2. /\ c \in Call /\ Caller[c] \in Ua /\ Callee[c] \in Ua /\ Caller[c] # Callee[c]
      /\ m.from \in {Caller[c], Callee[c]}
  BY <1>1, UaRolesAssumption DEF Msg, MsgOK
<1>3. /\ u \in Ua
      /\ m.from = Caller[c] <=> u = Callee[c]
      /\ m.from = Callee[c] <=> u = Caller[c]
  BY <1>2 DEF Peer
<1>4. /\ a # NoAgent /\ (UsesSession(s, m) => HasSession(s))
      /\ Handled(u, c, {m} \cup SameFinal(m), t)
      /\ UNCHANGED <<aborted, lost, failed, proxied, placed, reInvites, tooLate, answered, quit>>
  BY DEF DeliverToAgent, userVars, faultVars
<1>5. {m} \cup SameFinal(m) \in SUBSET net
  BY DEF SameFinal
<1> HIDE DEF u, t
<1>6. /\ s \in Step /\ s.active /\ s.out = {} /\ AgentOK(s)
      /\ s.role = a.role /\ s.leg = a.leg
  BY <1>2, <1>3, <1>4, OpenedFields
<1>7. a.role \in {"client", "server"} /\ (a.role = "client" => u = Caller[c])
  BY <1>2, <1>3, <1>4, <1>6 DEF IInv, AgentInv, Step
<1> HIDE DEF s
<1>8. /\ u = Caller[c] /\ a.role = "client" /\ Past(c) => a.leg \in PastLegs
      /\ u = Caller[c] /\ a.role = "client" /\ Failed(c) => a.leg = "FAILURE"
  BY <1>4 DEF Past, Failed, PastLegs
<1>9. From(u, c, m)
  <2>1. m.method = "ACK" /\ m.code = 0 /\ u = Callee[c] => Past(c)
    BY <1>1, <1>3 DEF MsgOK
  <2>2. m.method = "CANCEL" /\ m.code = 0 => u = Callee[c] /\ Failed(c)
    BY <1>1, <1>3 DEF MsgOK
  <2>3. reInvites[c] = 0 => /\ m.code = 0 /\ m.method = "INVITE" => u = Callee[c]
                            /\ m.code # 0 => u = Caller[c]
    BY <1>1, <1>2, <1>3 DEF IInv, PlainInv
  <2>4. 302 \notin ProxyCode => m.code # 302
    BY DEF IInv, DirectInv
  <2> QED BY <2>1, <2>2, <2>3, <2>4 DEF From
<1>10. Took(s, t, m)
  <2>1. CASE m.code = 0
    <3>1. m.method = "CANCEL" => s.role = "server"
      BY <1>2, <1>6, <1>7, <1>9, <2>1 DEF From
    <3>2. m.method = "BYE" /\ s.role = "client" => s.leg \in PastLegs
      BY <1>1, <1>3, <1>6, <1>7, <1>8 DEF MsgOK
    <3>3. t = RecvRequest(s, m)
      BY <2>1 DEF t
    <3> QED BY <1>1, <1>4, <1>6, <2>1, <3>1, <3>2, <3>3, RecvRequestTook
  <2>2. CASE m.code # 0
    <3>1. m.code > 0 /\ m.method \in {"INVITE", "CANCEL"}
      BY <1>1, <2>2 DEF MsgOK
    <3>2. s.role = "client" /\ m.method = "CANCEL" => s.leg = "FAILURE"
      BY <1>1, <1>6, <1>7, <1>8 DEF MsgOK
    <3>3. t = RecvStatus(s, m)
      BY <2>2 DEF t
    <3> QED BY <1>1, <1>4, <1>6, <3>1, <3>2, <3>3, RecvStatusTook
  <2> QED BY <2>1, <2>2
<1>11. Frame(u, c)
  BY <1>2, <1>3, <1>4, FrameKept DEF IInv, TypeOK
<1>12. Took(Opened(u, c), t, m)
  BY <1>10 DEF s
<1> HIDE DEF c
<1> QED BY <1>2, <1>3, <1>4, <1>5, <1>9, <1>11, <1>12, TookInv

\* There is a number for the next call.
LEMMA NumberFree ==
    ASSUME IInv, NEW u \in Ua, NEW c \in Call, agent[u][c] = NoAgent
    PROVE  /\ Cardinality({n \in Number : callMap[u][n] # NoCall}) \in Number
           /\ 0 \in Number
<1> DEFINE S == {n \in Number : callMap[u][n] # NoCall}
           T == Call \ {c}
           f == [n \in S |-> callMap[u][n]]
<1>1. IsFiniteSet(T) /\ Cardinality(T) = Cardinality(Call) - 1
  BY FS_RemoveElement, UaBoundAssumption
<1>2. Cardinality(T) \in Nat /\ Cardinality(Call) \in Nat
  BY <1>1, FS_CardinalityType, UaBoundAssumption
<1>3. \A n \in S : callMap[u][n] \in Call /\ agent[u][callMap[u][n]] # NoAgent /\ agent[u][callMap[u][n]].id = n
  BY DEF IInv, TypeOK, MapInv
<1>4. f \in [S -> T]
  BY <1>3
<1>5. \A n, k \in S : f[n] = f[k] => n = k
  BY <1>3
<1> HIDE DEF f
<1>6. f \in Injection(S, T)
  BY <1>4, <1>5, Fun_IsInj
<1>7. IsFiniteSet(S) /\ Cardinality(S) <= Cardinality(T)
  BY <1>1, <1>6, FS_Injection
<1>8. Cardinality(S) \in Nat
  BY <1>7, FS_CardinalityType
<1> QED BY <1>1, <1>2, <1>7, <1>8 DEF Number

\* No session is open for a call that has no agent, but that of an accept
\* command that came too late.
LEMMA NoAgentSessions ==
    ASSUME IInv, NEW u \in Ua, NEW c \in Call, agent[u][c] = NoAgent, aborted[u] = "none"
    PROVE  sessions[u][c] = IF <<u, c>> \in tooLate THEN 1 ELSE 0
BY DEF IInv, MediaReleased

LEMMA InitiateInviteInv ==
    ASSUME IInv, NEW c \in Call, InitiateInvite(c)
    PROVE  IInv'
<1> DEFINE u == Caller[c]
           s == [role |-> "client", id |-> 0, leg |-> "C_TRYING", ctl |-> "TRYING", acked |-> FALSE,
                 own |-> TRUE, freed |-> FALSE, cseq |-> 1, request |-> 1,
                 open |-> sessions[u][c] + 1, active |-> TRUE,
                 out |-> {[method |-> "INVITE", code |-> 0, cseq |-> 1]}]
<1>1. /\ c \notin placed /\ ~Busy(u) /\ agent[u][c] = NoAgent /\ aborted[u] = "none"
      /\ placed' = placed \cup {c} /\ Handled(u, c, {}, s)
      /\ UNCHANGED <<aborted, lost, failed, stack, proxied, reInvites, tooLate, answered, quit>>
  BY DEF InitiateInvite, faultVars
<1>2. u \in Ua /\ Caller[c] # Callee[c]
  BY UaRolesAssumption
<1>3. sessions[u][c] = IF <<u, c>> \in tooLate THEN 1 ELSE 0
  BY <1>1, <1>2, NoAgentSessions
<1>4. 0 \in Number
  BY <1>1, <1>2, NumberFree
<1>5. /\ s.role = "client" /\ s.leg = "C_TRYING" /\ s.ctl = "TRYING" /\ ~s.acked /\ s.own /\ ~s.freed
      /\ s.active /\ s.open = sessions[u][c] + 1
      /\ \A o \in s.out : o.method = "INVITE" /\ o.code = 0
  OBVIOUS
<1>6. s \in Step
  <2>1. s.out \in SUBSET Out
    BY DEF Out, Method, Codes
  <2>2. sessions[u][c] + 1 \in Int
    BY <1>3
  <2> QED BY <1>4, <2>1, <2>2 DEF Step, LegState, ControlStates
<1> HIDE DEF s, u
<1>7. AgentOK(s) /\ Direct(s)
  BY <1>5 DEF AgentOK, ClientOK, Direct, SetUp, Up
<1>8. \A o \in s.out : Sendable(u, c, o)
  BY <1>2, <1>5 DEF Sendable, u
<1>9. Sound(u, c, s)
  BY <1>1, <1>2, <1>3, <1>5, <1>7, <1>8 DEF Sound, u
<1>10. Frame(u, c)
  BY <1>1, UaBoundAssumption DEF IInv, TypeOK, Frame
<1> QED BY <1>1, <1>2, <1>6, <1>9, <1>10, HandledInv

\* Accepting a call opens a session, and answers if the call rings.
LEMMA AcceptCallFields ==
    ASSUME NEW s \in Step, s.active, s.role = "server", ServerOK(s)
    PROVE  LET t == AcceptCall(s)
           IN  /\ t \in Step /\ t.role = "server" /\ t.id = s.id /\ t.active /\ ServerOK(t)
               /\ (t.acked <=> s.acked) /\ t.open = s.open + 1
               /\ s.leg = "RINGING" => t.own /\ t.ctl = "IN_CALL"
               /\ s.leg # "RINGING" => (t.own <=> s.own) /\ t.ctl = s.ctl /\ t.leg = s.leg
               /\ \A o \in t.out : o \in s.out \/ (s.leg = "RINGING" /\ o.method = "INVITE" /\ o.code = 200)
<1> DEFINE x == s.open + 1
           p == [s EXCEPT !.open = x]
<1>1. x \in Int /\ s.request \in Nat /\ "INVITE" \in Method /\ 200 \in Codes
  BY DEF Step, Method, Codes
<1> HIDE DEF x
<1>2. /\ p \in Step /\ p.open = x
      /\ p.role = s.role /\ p.id = s.id /\ p.leg = s.leg /\ p.ctl = s.ctl /\ p.out = s.out
      /\ (p.acked <=> s.acked) /\ (p.own <=> s.own) /\ (p.freed <=> s.freed) /\ (p.active <=> s.active)
  BY <1>1 DEF Step
<1> HIDE DEF p
<1>3. CASE s.leg = "RINGING"
  <2> DEFINE q == Send(p, "INVITE", 200, s.request)
             t == [q EXCEPT !.own = TRUE, !.ctl = "IN_CALL", !.leg = "INCALL"]
  <2>1. AcceptCall(s) = t
    BY <1>3 DEF AcceptCall, p, x
  <2>2. /\ q \in Step /\ Like(p, q)
        /\ q.out = p.out \cup {[method |-> "INVITE", code |-> 200, cseq |-> s.request]}
    BY <1>1, <1>2, SendLike
  <2> HIDE DEF q
  <2>3. /\ t \in Step /\ t.leg = "INCALL" /\ t.ctl = "IN_CALL" /\ t.own
        /\ t.role = q.role /\ t.id = q.id /\ t.open = q.open /\ t.out = q.out
        /\ (t.acked <=> q.acked) /\ (t.freed <=> q.freed) /\ (t.active <=> q.active)
    BY <2>2 DEF Step, LegState, ControlStates
  <2> HIDE DEF t
  <2>4. /\ t.role = "server" /\ t.id = s.id /\ t.open = x
        /\ (t.acked <=> s.acked) /\ (t.freed <=> s.freed) /\ t.active
    BY <1>2, <2>2, <2>3 DEF Like
  <2>5. ServerOK(t)
    BY <2>3, <2>4 DEF ServerOK, Up
  <2>6. \A o \in t.out : o \in s.out \/ (o.method = "INVITE" /\ o.code = 200)
    BY <1>2, <2>2, <2>3
  <2> QED BY <1>3, <2>1, <2>3, <2>4, <2>5, <2>6 DEF x
<1>4. CASE s.leg # "RINGING"
  <2>1. AcceptCall(s) = p
    BY <1>4 DEF AcceptCall, p, x
  <2>2. ServerOK(p)
    BY <1>2 DEF ServerOK
  <2> QED BY <1>2, <1>4, <2>1, <2>2 DEF x
<1> QED BY <1>3, <1>4

LEMMA AcceptInv ==
    ASSUME IInv, NEW u \in Ua, NEW c \in Call, Accept(u, c)
    PROVE  IInv'
<1> DEFINE s == Opened(u, c)
           a == agent[u][c]
           t == AcceptCall(s)
<1>1. /\ a # NoAgent /\ a.role = "server" /\ <<u, c>> \notin tooLate /\ Handled(u, c, {}, t)
      /\ a.leg = "RINGING" => tooLate' = tooLate
      /\ a.leg # "RINGING" => tooLate' = tooLate \cup {<<u, c>>}
      /\ answered' \subseteq answered \cup {c}
      /\ UNCHANGED <<aborted, lost, failed, stack, proxied, placed, reInvites, quit>>
  BY DEF Accept, ActiveCall, faultVars
<1>2. /\ s \in Step /\ s.active /\ s.out = {} /\ AgentOK(s)
      /\ s.role = a.role /\ s.id = a.id /\ s.leg = a.leg /\ s.ctl = a.ctl
      /\ (s.acked <=> a.acked) /\ (s.own <=> a.own) /\ (s.freed <=> a.freed)
      /\ Rest(s) = 0
  BY <1>1, OpenedFields
<1>3. /\ c \in placed /\ aborted[u] = "none" /\ u \in {Caller[c], Callee[c]} /\ Caller[c] # Callee[c]
      /\ u = Callee[c] /\ a.acked => Past(c)
      /\ reInvites[c] = 0 => u = Callee[c] /\ (a.ctl = "UAS_RINGING" => a.leg \in {"RINGING", "FAILURE"})
  <2>1. c \in placed /\ aborted[u] = "none" /\ u \in {Caller[c], Callee[c]}
    BY <1>1 DEF IInv, AgentInv
  <2>2. u = Callee[c] /\ a.acked => Past(c)
    BY <1>1 DEF IInv, AckedInv
  <2>3. reInvites[c] = 0 => u = Callee[c] /\ (a.ctl = "UAS_RINGING" => a.leg \in {"RINGING", "FAILURE"})
    BY <1>1 DEF IInv, PlainInv
  <2> QED BY <2>1, <2>2, <2>3, UaRolesAssumption
<1> HIDE DEF s, a
<1>4. ServerOK(s) /\ s.role = "server"
  BY <1>1, <1>2 DEF AgentOK
<1>5. /\ t \in Step /\ t.role = "server" /\ t.id = s.id /\ t.active /\ ServerOK(t)
      /\ (t.acked <=> s.acked) /\ t.open = s.open + 1
      /\ s.leg = "RINGING" => t.own /\ t.ctl = "IN_CALL"
      /\ s.leg # "RINGING" => (t.own <=> s.own) /\ t.ctl = s.ctl /\ t.leg = s.leg
      /\ \A o \in t.out : o \in s.out \/ (s.leg = "RINGING" /\ o.method = "INVITE" /\ o.code = 200)
  BY <1>2, <1>4, AcceptCallFields
<1> HIDE DEF t
<1>6. t.open = (IF t.active /\ t.own /\ ~t.freed THEN 1 ELSE 0) + (IF <<u, c>> \in tooLate' THEN 1 ELSE 0)
  <2>1. /\ ~s.freed /\ ~t.freed /\ s.open \in Int
        /\ s.leg = "RINGING" => ~s.own
    BY <1>2, <1>4, <1>5 DEF ServerOK, Step
  <2>2. s.open = IF s.own THEN 1 ELSE 0
    BY <1>2, <2>1 DEF Rest
  <2>3. CASE s.leg = "RINGING"
    BY <1>1, <1>2, <1>5, <2>1, <2>2, <2>3
  <2>4. CASE s.leg # "RINGING"
    BY <1>1, <1>2, <1>5, <2>1, <2>2, <2>4
  <2> QED BY <2>3, <2>4
<1>7. t.open \in Nat
  BY <1>6
<1>8. /\ u # Caller[c] => (Past(c)' <=> Past(c)) /\ (Failed(c)' <=> Failed(c))
      /\ u = Caller[c] => /\ Past(c)' <=> (t.active /\ t.role = "client" => t.leg \in PastLegs)
                          /\ Failed(c)' <=> (t.active /\ t.role = "client" => t.leg = "FAILURE")
  BY <1>1, <1>5, <1>7, PastAfter DEF IInv
<1>9. (Past(c) => Past(c)') /\ (Failed(c) => Failed(c)') /\ (u = Callee[c] /\ t.acked => Past(c)')
  BY <1>2, <1>3, <1>5, <1>8
<1>10. \A o \in t.out : Sendable(u, c, o)
  <2>1. \A o \in t.out : o.method = "INVITE" /\ o.code = 200
    BY <1>2, <1>5
  <2> QED BY <1>1, <1>3, <2>1 DEF Sendable
<1>11. reInvites[c] = 0 => u = Callee[c] /\ (t.ctl = "UAS_RINGING" => t.leg \in {"RINGING", "FAILURE"})
  BY <1>2, <1>3, <1>5
<1>12. AgentOK(t) /\ Direct(t)
  BY <1>5 DEF AgentOK, Direct
<1>13. Sound(u, c, t)
  BY <1>1, <1>2, <1>3, <1>5, <1>6, <1>9, <1>10, <1>11, <1>12 DEF Sound, a
<1>14. Frame(u, c)
  <2>1. tooLate \subseteq tooLate' /\ tooLate' \subseteq tooLate \cup {<<u, c>>}
    BY <1>1
  <2> QED BY <1>1, <2>1, UaBoundAssumption DEF IInv, TypeOK, Frame
<1> QED BY <1>1, <1>3, <1>5, <1>13, <1>14, HandledInv

\* A hold or resume command to a call that is up.
LEMMA ReInviteUpInv ==
    ASSUME IInv, NEW u \in Ua, NEW c \in Call, ReInvite(u, c), agent[u][c].leg \in {"INCALL", "HOLD"}
    PROVE  IInv'
<1> DEFINE s == Opened(u, c)
           a == agent[u][c]
           p == Send(s, "INVITE", 0, s.cseq + 1)
           x == OtherLeg(s.leg)
           t == [p EXCEPT !.cseq = s.cseq + 1, !.leg = x]
           r == ReInvited(s, c \notin proxied \/ s.request > 1)
<1>0. /\ a # NoAgent /\ HasSession(s)
      /\ reInvites[c] < MaxReInvite /\ Handled(u, c, {}, r)
      /\ reInvites' = [reInvites EXCEPT ![c] = @ + 1]
      /\ UNCHANGED <<aborted, lost, failed, stack, proxied, placed, answered, tooLate, quit>>
  BY DEF ReInvite, ActiveCall, faultVars
<1>1. /\ a # NoAgent /\ s.leg \in {"INCALL", "HOLD"} /\ HasSession(s)
      /\ reInvites[c] < MaxReInvite /\ Handled(u, c, {}, t)
      /\ reInvites' = [reInvites EXCEPT ![c] = @ + 1]
      /\ UNCHANGED <<aborted, lost, failed, stack, proxied, placed, answered, tooLate, quit>>
  <2>1. s.leg \in {"INCALL", "HOLD"}
    BY <1>0, OpenedFields
  <2>2. r = t
    BY <2>1 DEF ReInvited
  <2> QED BY <1>0, <2>1, <2>2
<1> HIDE DEF r
<1>2. /\ s \in Step /\ s.active /\ s.out = {} /\ AgentOK(s)
      /\ s.role = a.role /\ s.id = a.id /\ s.leg = a.leg /\ s.ctl = a.ctl
      /\ (s.acked <=> a.acked)
      /\ Rest(s) = IF <<u, c>> \in tooLate THEN 1 ELSE 0
  BY <1>1, OpenedFields
<1>3. /\ c \in placed /\ aborted[u] = "none" /\ u \in {Caller[c], Callee[c]} /\ Caller[c] # Callee[c]
      /\ a.role = "client" => u = Caller[c]
      /\ u = Callee[c] /\ a.acked => Past(c)
      /\ u = Caller[c] /\ a.role = "client" /\ Failed(c) => a.leg = "FAILURE"
  <2>1. /\ c \in placed /\ aborted[u] = "none" /\ u \in {Caller[c], Callee[c]}
        /\ a.role = "client" => u = Caller[c]
    BY <1>1 DEF IInv, AgentInv
  <2>2. u = Callee[c] /\ a.acked => Past(c)
    BY <1>1 DEF IInv, AckedInv
  <2>3. u = Caller[c] /\ a.role = "client" /\ Failed(c) => a.leg = "FAILURE"
    BY <1>1 DEF Failed
  <2> QED BY <2>1, <2>2, <2>3, UaRolesAssumption
<1> HIDE DEF s, a
<1>4. /\ s.cseq + 1 \in Nat /\ "INVITE" \in Method /\ 0 \in Codes
      /\ x \in {"INCALL", "HOLD"} /\ x \in LegState
      /\ s.role \in {"client", "server"} /\ s.own /\ ~s.freed /\ s.open \in Int
  BY <1>1, <1>2 DEF Step, Method, Codes, OtherLeg, LegState, HasSession
<1>5. /\ p \in Step /\ Like(s, p)
      /\ p.out = s.out \cup {[method |-> "INVITE", code |-> 0, cseq |-> s.cseq + 1]}
  BY <1>2, <1>4, SendLike
<1> HIDE DEF p, x
<1>6. /\ t \in Step /\ t.leg = x /\ t.ctl = p.ctl /\ t.role = p.role /\ t.id = p.id
      /\ t.open = p.open /\ t.out = p.out
      /\ (t.acked <=> p.acked) /\ (t.own <=> p.own) /\ (t.freed <=> p.freed) /\ (t.active <=> p.active)
  BY <1>4, <1>5 DEF Step
<1> HIDE DEF t
<1>7. /\ t.leg \in {"INCALL", "HOLD"} /\ t.ctl = s.ctl /\ t.role = s.role /\ t.id = s.id /\ t.open = s.open
      /\ (t.acked <=> s.acked) /\ t.own /\ ~t.freed /\ t.active
  BY <1>2, <1>4, <1>5, <1>6 DEF Like
<1>8. \A o \in t.out : o.method = "INVITE" /\ o.code = 0
  BY <1>2, <1>5, <1>6
<1>9. AgentOK(t) /\ Direct(t)
  <2>1. s.role = "client" => ClientOK(t)
    BY <1>1, <1>2, <1>7 DEF AgentOK, ClientOK, SetUp, Up
  <2>2. s.role = "server" => ServerOK(t)
    BY <1>2, <1>4, <1>7 DEF AgentOK, ServerOK
  <2> QED BY <1>7, <2>1, <2>2 DEF AgentOK, Direct
<1>10. t.open = (IF t.active /\ t.own /\ ~t.freed THEN 1 ELSE 0) + (IF <<u, c>> \in tooLate THEN 1 ELSE 0)
  BY <1>2, <1>4, <1>7 DEF Rest
<1>11. t.open \in Nat
  BY <1>10
<1>12. /\ u # Caller[c] => (Past(c)' <=> Past(c)) /\ (Failed(c)' <=> Failed(c))
       /\ u = Caller[c] => /\ Past(c)' <=> (t.active /\ t.role = "client" => t.leg \in PastLegs)
                           /\ Failed(c)' <=> (t.active /\ t.role = "client" => t.leg = "FAILURE")
  BY <1>1, <1>6, <1>11, PastAfter DEF IInv
<1>13. (Past(c) => Past(c)') /\ (Failed(c) => Failed(c)') /\ (u = Callee[c] /\ t.acked => Past(c)')
  BY <1>1, <1>2, <1>3, <1>7, <1>12 DEF PastLegs
<1>14. reInvites \in [Call -> 0..MaxReInvite] /\ MaxReInvite \in Nat
  BY UaBoundAssumption DEF IInv, TypeOK
<1>15. /\ reInvites' \in [Call -> 0..MaxReInvite] /\ reInvites'[c] # 0
       /\ \A d \in Call : reInvites'[d] >= reInvites[d]
  BY <1>1, <1>14
<1>16. \A o \in t.out : Sendable(u, c, o)
  BY <1>8, <1>15 DEF Sendable
<1>17. Sound(u, c, t)
  BY <1>1, <1>2, <1>3, <1>7, <1>9, <1>10, <1>13, <1>15, <1>16 DEF Sound, a
<1>18. Frame(u, c)
  BY <1>1, <1>15 DEF IInv, TypeOK, Frame
<1> QED BY <1>1, <1>3, <1>6, <1>17, <1>18, HandledInv

\* ... or to one that is being set up, which sends its INVITE once more or nothing.
LEMMA ReInviteSetUpInv ==
    ASSUME IInv, NEW u \in Ua, NEW c \in Call, ReInvite(u, c), agent[u][c].leg \notin {"INCALL", "HOLD"}
    PROVE  IInv'
<1> DEFINE s == Opened(u, c)
           passed == c \notin proxied \/ s.request > 1
           t == ReInvited(s, passed)
           m == [method |-> "BYE", code |-> 0]
<1>1. /\ agent[u][c] # NoAgent
      /\ reInvites[c] < MaxReInvite /\ Handled(u, c, {}, t)
      /\ reInvites' = [reInvites EXCEPT ![c] = @ + 1]
      /\ UNCHANGED <<aborted, lost, failed, stack, proxied, placed, answered, tooLate, quit>>
  BY DEF ReInvite, ActiveCall, faultVars
<1>2. s \in Step /\ s.active /\ s.out = {} /\ AgentOK(s) /\ s.leg \notin {"INCALL", "HOLD"}
  BY <1>1, OpenedFields
<1> HIDE DEF s, passed
<1>3. /\ s.request \in Nat /\ "INVITE" \in Method /\ 0 \in Codes
      /\ s.leg = "C_TRYING" => s.role = "client"
  BY <1>2 DEF Step, Method, Codes, AgentOK, ServerOK
<1>4. /\ t \in Step /\ Like(s, t)
      /\ \A o \in t.out : o.method = "INVITE" /\ o.code = 0 /\ s.role = "client"
  <2>1. CASE s.leg = "C_TRYING" /\ passed
    <3>1. t = Send(s, "INVITE", 0, s.request)
      BY <1>2, <2>1 DEF ReInvited
    <3>2. t \in Step /\ Like(s, t) /\ t.out = {[method |-> "INVITE", code |-> 0, cseq |-> s.request]}
      BY <1>2, <1>3, <3>1, SendLike
    <3> HIDE DEF t
    <3> QED BY <1>3, <2>1, <3>2
  <2>2. CASE ~(s.leg = "C_TRYING" /\ passed)
    <3>1. t = s
      BY <1>2, <2>2 DEF ReInvited
    <3> QED BY <1>2, <3>1 DEF Like
  <2> QED BY <2>1, <2>2
<1> HIDE DEF t
<1>5. \A o \in t.out : Fine(t, o)
  BY <1>4 DEF Fine, Like
<1>6. Took(s, t, m)
  BY <1>2, <1>4, <1>5, LikeTook
<1>7. From(u, c, m)
  BY DEF From
<1>8. reInvites \in [Call -> 0..MaxReInvite] /\ MaxReInvite \in Nat
  BY UaBoundAssumption DEF IInv, TypeOK
<1>9. /\ reInvites' \in [Call -> 0..MaxReInvite] /\ reInvites'[c] # 0
      /\ \A d \in Call : reInvites'[d] >= reInvites[d]
  BY <1>1, <1>8
<1>10. Frame(u, c)
  BY <1>1, <1>9 DEF IInv, TypeOK, Frame
<1> HIDE DEF m
<1> QED BY <1>1, <1>6, <1>7, <1>9, <1>10, TookInv DEF s

LEMMA ReInviteInv ==
    ASSUME IInv, NEW u \in Ua, NEW c \in Call, ReInvite(u, c)
    PROVE  IInv'
BY ReInviteUpInv, ReInviteSetUpInv

\* A message that comes onto the network.
NewMsg(m) ==
    /\ m \in Msg /\ MsgOK(m)
    /\ reInvites[m.call] = 0 => /\ m.code > 0 => m.from = Callee[m.call]
                                /\ m.code = 0 /\ m.method = "INVITE" => m.from = Caller[m.call]
    /\ 302 \notin ProxyCode => m.code # 302

\* Who receives a message.
LEMMA PeerFields ==
    ASSUME IInv, NEW m \in net
    PROVE  LET u == Peer(m.call, m.from)
           IN  /\ m \in Msg /\ MsgOK(m) /\ m.call \in Call /\ u \in Ua /\ m.code \in Nat
               /\ Caller[m.call] # Callee[m.call]
               /\ u \in {Caller[m.call], Callee[m.call]}
               /\ m.from = Caller[m.call] <=> u = Callee[m.call]
               /\ m.from = Callee[m.call] <=> u = Caller[m.call]
<1>1. m \in Msg /\ MsgOK(m) /\ m.code \in Nat /\ m.call \in Call
  BY DEF IInv, TypeOK, NetInv, Msg
<1>2. /\ Caller[m.call] \in Ua /\ Callee[m.call] \in Ua /\ Caller[m.call] # Callee[m.call]
      /\ m.from \in {Caller[m.call], Callee[m.call]}
  BY <1>1, UaRolesAssumption DEF MsgOK
<1> QED BY <1>1, <1>2 DEF Peer

\* A step of the network, and of no agent.
LEMMA NetStepInv ==
    ASSUME IInv,
           UNCHANGED <<agent, callMap, sessions, aborted, placed, reInvites,
                       answered, joined, quit, silent, behind, tooLate>>,
           proxied' \in SUBSET Call, lost' \subseteq Msg, failed' \subseteq Msg,
           stack' \in [Ua -> [Call -> Container]],
           \A m \in net' : m \in net \/ NewMsg(m)
    PROVE  IInv'
<1>1. TypeOK'
  BY DEF IInv, TypeOK, NewMsg
<1>2. AgentInv' /\ AckedInv' /\ MapInv' /\ AgentPersisted' /\ MediaReleased'
  BY DEF IInv, AgentInv, AckedInv, MapInv, AgentPersisted, MediaReleased, Past
<1>3. NetInv'
  <2>1. SUFFICES ASSUME NEW m \in net'  PROVE MsgOK(m)'
    BY DEF NetInv
  <2>2. MsgOK(m)
    BY DEF IInv, NetInv, NewMsg
  <2> QED BY <2>2 DEF MsgOK, Past, Failed
<1>4. PlainInv'
  <2>1. SUFFICES ASSUME NEW c \in Call, reInvites[c] = 0
                 PROVE  /\ \A m \in net' : m.call = c /\ m.code > 0 => m.from = Callee[c]
                        /\ \A m \in net' : m.call = c /\ m.code = 0 /\ m.method = "INVITE" => m.from = Caller[c]
                        /\ \A u \in Ua : agent[u][c] # NoAgent /\ agent[u][c].role = "server" =>
                              u = Callee[c] /\ (agent[u][c].ctl = "UAS_RINGING" => agent[u][c].leg \in {"RINGING", "FAILURE"})
    BY DEF PlainInv
  <2> QED BY <2>1 DEF IInv, PlainInv, NewMsg
<1>5. DirectInv'
  BY DEF IInv, DirectInv, SessionAtHand, NewMsg
<1> QED BY <1>1, <1>2, <1>3, <1>4, <1>5 DEF IInv

\* The process of u ends.
LEMMA AbortInv ==
    ASSUME IInv, NEW u \in Ua, NEW x \in {"deleted", "session"}, Abort(u, x),
           UNCHANGED <<placed, answered, tooLate, proxied, lost, failed, joined, silent, behind>>,
           quit' \in SUBSET Call, stack' \in [Ua -> [Call -> Container]],
           reInvites' \in [Call -> 0..MaxReInvite], \A c \in Call : reInvites'[c] >= reInvites[c],
           \A m \in net' : m \in net \/ NewMsg(m),
           302 \notin ProxyCode /\ x = "session" => \E c \in Call : reInvites'[c] > 0
    PROVE  IInv'
<1>r. \A c \in Call : (reInvites'[c] = 0 => reInvites[c] = 0) /\ (reInvites[c] > 0 => reInvites'[c] > 0)
  BY UaBoundAssumption DEF IInv, TypeOK
<1>0. /\ TypeOK
      /\ aborted' = [aborted EXCEPT ![u] = x]
      /\ agent' = [agent EXCEPT ![u] = [d \in Call |-> NoAgent]]
      /\ callMap' = [callMap EXCEPT ![u] = [n \in Number |-> NoCall]]
      /\ sessions' = [sessions EXCEPT ![u] = [d \in Call |-> 0]]
  BY DEF IInv, Abort
<1>1. /\ aborted' \in [Ua -> Assertion] /\ aborted'[u] = x
      /\ \A v \in Ua : v # u => aborted'[v] = aborted[v]
  BY <1>0 DEF TypeOK, Assertion
<1>2. /\ agent' \in [Ua -> [Call -> Agent \cup {NoAgent}]]
      /\ \A d \in Call : agent'[u][d] = NoAgent
      /\ \A v \in Ua, d \in Call : v # u => agent'[v][d] = agent[v][d]
  BY <1>0 DEF TypeOK
<1>3. /\ callMap' \in [Ua -> [Number -> Call \cup {NoCall}]]
      /\ \A n \in Number : callMap'[u][n] = NoCall
      /\ \A v \in Ua, n \in Number : v # u => callMap'[v][n] = callMap[v][n]
  BY <1>0 DEF TypeOK
<1>4. /\ sessions' \in [Ua -> [Call -> Nat]]
      /\ \A v \in Ua, d \in Call : v # u => sessions'[v][d] = sessions[v][d]
  BY <1>0 DEF TypeOK
<1>5. TypeOK'
  BY <1>0, <1>1, <1>2, <1>3, <1>4 DEF TypeOK, NewMsg
<1>6. \A d \in Call : (Past(d) => Past(d)') /\ (Failed(d) => Failed(d)')
  <2>1. SUFFICES ASSUME NEW d \in Call  PROVE (Past(d) => Past(d)') /\ (Failed(d) => Failed(d)')
    OBVIOUS
  <2>2. agent'[Caller[d]][d] \in {NoAgent, agent[Caller[d]][d]}
    BY <1>2, UaRolesAssumption
  <2> QED BY <2>2 DEF Past, Failed
<1>7. AgentInv'
  BY <1>1, <1>2 DEF IInv, AgentInv
<1>8. AckedInv'
  BY <1>2, <1>6, UaRolesAssumption DEF IInv, AckedInv
<1>9. NetInv'
  <2>1. SUFFICES ASSUME NEW m \in net'  PROVE MsgOK(m)'
    BY DEF NetInv
  <2>2. MsgOK(m) /\ m.call \in Call
    BY <1>0 DEF IInv, TypeOK, NetInv, NewMsg, Msg
  <2> QED BY <1>6, <2>2 DEF MsgOK
<1>10. MapInv'
  <2>1. SUFFICES ASSUME NEW v \in Ua, NEW n \in Number, callMap'[v][n] # NoCall
                 PROVE  agent'[v][callMap'[v][n]] # NoAgent /\ agent'[v][callMap'[v][n]].id = n
    BY DEF MapInv
  <2>2. v # u /\ callMap'[v][n] = callMap[v][n] /\ callMap[v][n] \in Call
    BY <1>0, <1>3, <2>1 DEF TypeOK
  <2> QED BY <1>2, <2>1, <2>2 DEF IInv, MapInv
<1>11. AgentPersisted'
  <2>1. SUFFICES ASSUME NEW v \in Ua \ ServerUa, NEW d \in Call, agent'[v][d] # NoAgent
                 PROVE  callMap'[v][agent'[v][d].id] = d
    BY DEF AgentPersisted
  <2>2. v # u /\ agent'[v][d] = agent[v][d]
    BY <1>2, <2>1
  <2>3. agent[v][d] \in Agent
    BY <1>0, <2>1, <2>2 DEF TypeOK
  <2>4. agent[v][d].id \in Number
    BY <2>3 DEF Agent
  <2> QED BY <1>3, <2>1, <2>2, <2>4 DEF IInv, AgentPersisted
<1>12. MediaReleased'
  <2>1. SUFFICES ASSUME NEW v \in Ua, aborted'[v] = "none", NEW d \in Call
                 PROVE  sessions'[v][d] = (IF agent'[v][d] # NoAgent /\ agent'[v][d].own /\ ~agent'[v][d].freed
                                           THEN 1 ELSE 0) + (IF <<v, d>> \in tooLate' THEN 1 ELSE 0)
    BY DEF MediaReleased
  <2>2. v # u /\ aborted[v] = "none"
    BY <1>1, <2>1
  <2>3. sessions'[v][d] = sessions[v][d] /\ agent'[v][d] = agent[v][d] /\ tooLate' = tooLate
    BY <1>2, <1>4, <2>2
  <2> QED BY <2>2, <2>3 DEF IInv, MediaReleased
<1>13. PlainInv'
  <2>0. SUFFICES ASSUME NEW c \in Call, reInvites'[c] = 0
                 PROVE  /\ \A m \in net' : m.call = c /\ m.code > 0 => m.from = Callee[c]
                        /\ \A m \in net' : m.call = c /\ m.code = 0 /\ m.method = "INVITE" => m.from = Caller[c]
                        /\ \A v \in Ua : agent'[v][c] # NoAgent /\ agent'[v][c].role = "server" =>
                              v = Callee[c] /\ (agent'[v][c].ctl = "UAS_RINGING" => agent'[v][c].leg \in {"RINGING", "FAILURE"})
    BY DEF PlainInv
  <2>1. reInvites[c] = 0
    BY <1>r, <2>0
  <2>2. /\ \A m \in net' : m.call = c /\ m.code > 0 => m.from = Callee[c]
        /\ \A m \in net' : m.call = c /\ m.code = 0 /\ m.method = "INVITE" => m.from = Caller[c]
    BY <2>1 DEF IInv, PlainInv, NewMsg
  <2> QED BY <1>2, <2>1, <2>2 DEF IInv, PlainInv
<1>14. DirectInv'
  <2>1. SUFFICES ASSUME 302 \notin ProxyCode
                 PROVE  /\ \A m \in net' : m.code # 302
                        /\ \A v \in Ua, d \in Call : agent'[v][d] # NoAgent => Direct(agent'[v][d])
                        /\ \A v \in Ua : aborted'[v] = "session" => \E d \in Call : reInvites'[d] > 0
    BY DEF DirectInv, SessionAtHand, Direct
  <2>2. /\ \A m \in net : m.code # 302
        /\ \A v \in Ua, d \in Call : agent[v][d] # NoAgent => Direct(agent[v][d])
        /\ \A v \in Ua : aborted[v] = "session" => \E d \in Call : reInvites[d] > 0
    BY <2>1 DEF IInv, DirectInv, SessionAtHand
  <2>3. \A m \in net' : m.code # 302
    BY <2>1, <2>2 DEF NewMsg
  <2>4. \A v \in Ua, d \in Call : agent'[v][d] # NoAgent => Direct(agent'[v][d])
    BY <1>2, <2>2
  <2>5. \A v \in Ua : aborted'[v] = "session" => \E d \in Call : reInvites'[d] > 0
    BY <1>r, <1>1, <2>1, <2>2
  <2> QED BY <2>3, <2>4, <2>5
<1> QED BY <1>5, <1>7, <1>8, <1>9, <1>10, <1>11, <1>12, <1>13, <1>14 DEF IInv

LEMMA BusyAbortsInv ==
    ASSUME IInv, NEW u \in Ua, NEW c \in Call, BusyAborts(u, c)
    PROVE  IInv'
<1> DEFINE a == agent[u][c]
           m == [method |-> "INVITE", code |-> 486, cseq |-> a.request, call |-> c, from |-> u]
<1>1. /\ a # NoAgent /\ a.ctl = "UAS_RINGING"
      /\ Abort(u, "deleted") /\ net' = net \cup {m} /\ quit' = quit \cup {c}
      /\ UNCHANGED <<placed, reInvites, answered, tooLate, stack, proxied, lost, failed, joined, silent, behind>>
  BY DEF BusyAborts, ActiveCall
<1>2. a \in Agent /\ AgentOK(a) /\ c \in placed /\ u \in {Caller[c], Callee[c]}
  BY <1>1 DEF IInv, TypeOK, AgentInv
<1>3. a.role = "server" /\ a.request \in Nat
  BY <1>1, <1>2 DEF Agent, AgentOK, ClientOK, SetUp, Up
<1>4. reInvites[c] = 0 => u = Callee[c]
  BY <1>1, <1>3 DEF IInv, PlainInv
<1>5. m \in Msg
  BY <1>3 DEF Msg, Method
<1>6. m.method = "INVITE" /\ m.code = 486 /\ m.call = c /\ m.from = u
  OBVIOUS
<1> HIDE DEF m
<1>7. NewMsg(m)
  BY <1>2, <1>4, <1>5, <1>6 DEF NewMsg, MsgOK
<1>8. \A n \in net' : n \in net \/ NewMsg(n)
  BY <1>1, <1>7
<1>9. /\ quit' \in SUBSET Call /\ stack' \in [Ua -> [Call -> Container]]
      /\ reInvites' \in [Call -> 0..MaxReInvite] /\ \A d \in Call : reInvites'[d] >= reInvites[d]
  BY <1>1, UaBoundAssumption DEF IInv, TypeOK
<1> QED BY <1>1, <1>8, <1>9, AbortInv

LEMMA ReInviteAbortsInv ==
    ASSUME IInv, NEW u \in Ua, NEW c \in Call, ReInviteAborts(u, c)
    PROVE  IInv'
<1>1. /\ Abort(u, "session") /\ reInvites[c] < MaxReInvite
      /\ reInvites' = [reInvites EXCEPT ![c] = @ + 1]
      /\ UNCHANGED <<placed, answered, quit, tooLate, stack, net, proxied, lost, failed, joined, silent, behind>>
  BY DEF ReInviteAborts
<1>2. reInvites \in [Call -> 0..MaxReInvite] /\ MaxReInvite \in Nat
  BY UaBoundAssumption DEF IInv, TypeOK
<1>3. /\ reInvites' \in [Call -> 0..MaxReInvite] /\ reInvites'[c] > 0
      /\ \A d \in Call : reInvites'[d] >= reInvites[d]
  BY <1>1, <1>2
<1>4. quit' \in SUBSET Call /\ stack' \in [Ua -> [Call -> Container]] /\ \A n \in net' : n \in net
  BY <1>1 DEF IInv, TypeOK
<1> QED BY <1>1, <1>3, <1>4, AbortInv

LEMMA DeliverAbortsInv ==
    ASSUME IInv, NEW m \in net, DeliverAborts(Peer(m.call, m.from), m),
           stack' \in [Ua -> [Call -> Container]]
    PROVE  IInv'
<1> DEFINE c == m.call
           u == Peer(c, m.from)
           a == agent[u][c]
<1>1. /\ a # NoAgent /\ UsesSession(a, m) /\ ~HasSession(a)
      /\ Abort(u, "session") /\ net' = net \ {m}
      /\ UNCHANGED <<placed, reInvites, answered, tooLate, proxied, lost, failed, joined, silent, behind, quit>>
  BY DEF DeliverAborts, userVars
<1>2. /\ MsgOK(m) /\ c \in Call /\ u \in Ua /\ Caller[c] # Callee[c]
      /\ m.from = Caller[c] <=> u = Callee[c]
      /\ m.from = Callee[c] <=> u = Caller[c]
  BY PeerFields
<1> HIDE DEF u
<1>3. a \in Agent /\ AgentOK(a) /\ (a.role = "client" => u = Caller[c])
  BY <1>1, <1>2 DEF IInv, TypeOK, AgentInv
<1>4. ASSUME 302 \notin ProxyCode, reInvites[c] = 0  PROVE FALSE
  <2>1. /\ m.code > 0 => m.from = Callee[c]
        /\ m.code = 0 /\ m.method = "INVITE" => m.from = Caller[c]
        /\ a.role = "server" => u = Callee[c] /\ (a.ctl = "UAS_RINGING" => a.leg \in {"RINGING", "FAILURE"})
    BY <1>1, <1>2, <1>4 DEF IInv, PlainInv
  <2>2. Direct(a)
    BY <1>1, <1>2, <1>4 DEF IInv, DirectInv
  <2>3. a.role \in {"client", "server"} /\ a.own \in BOOLEAN /\ a.freed \in BOOLEAN
    BY <1>3 DEF Agent
  <2>4. CASE a.role = "server"
    <3>1. m.code = 0 /\ a.leg \in {"INCALL", "HOLD"}
      BY <1>1, <1>2, <2>1, <2>4 DEF UsesSession
    <3>2. a.own /\ ~a.freed
      BY <1>3, <2>1, <2>4, <3>1 DEF AgentOK, ServerOK, Up
    <3> QED BY <1>1, <3>2 DEF HasSession
  <2>5. CASE a.role = "client"
    <3>1. ClientOK(a) /\ u = Caller[c]
      BY <1>3, <2>5 DEF AgentOK
    <3>2. m.code = 200
      BY <1>1, <1>2, <2>1, <3>1 DEF UsesSession
    <3>3. a.leg = "HOLD" \/ a.ctl = "IN_HOLD" \/ (a.leg # "FAILURE" /\ a.ctl \in SetUp)
      BY <1>1, <3>2 DEF UsesSession, SetUp
    <3>4. a.own /\ ~a.freed
      BY <2>2, <2>5, <3>1, <3>3 DEF ClientOK, Direct, SetUp, Up
    <3> QED BY <1>1, <3>4 DEF HasSession
  <2> QED BY <2>3, <2>4, <2>5
<1>5. reInvites[c] \in Nat
  BY <1>2, UaBoundAssumption DEF IInv, TypeOK
<1>6. 302 \notin ProxyCode => \E d \in Call : reInvites'[d] > 0
  BY <1>1, <1>2, <1>4, <1>5
<1>7. /\ quit' \in SUBSET Call /\ \A n \in net' : n \in net
      /\ reInvites' \in [Call -> 0..MaxReInvite] /\ \A d \in Call : reInvites'[d] >= reInvites[d]
  BY <1>1, UaBoundAssumption DEF IInv, TypeOK
<1> QED BY <1>1, <1>2, <1>6, <1>7, AbortInv

LEMMA DeliverInviteInv ==
    ASSUME IInv, NEW m \in net, DeliverInvite(Peer(m.call, m.from), m),
           aborted[Peer(m.call, m.from)] = "none", stack' \in [Ua -> [Call -> Container]]
    PROVE  IInv'
<1> DEFINE c == m.call
           u == Peer(c, m.from)
<1>1. /\ agent[u][c] = NoAgent /\ m.code = 0 /\ m.method = "INVITE" /\ aborted[u] = "none"
      /\ UNCHANGED <<placed, reInvites, quit, tooLate, aborted, proxied, lost, failed>>
  BY DEF DeliverInvite, faultVars
<1>2. /\ m \in Msg /\ MsgOK(m) /\ c \in Call /\ u \in Ua /\ Caller[c] # Callee[c]
      /\ u \in {Caller[c], Callee[c]}
      /\ m.from = Caller[c] <=> u = Callee[c]
  BY PeerFields
<1>3. c \in placed /\ m.cseq \in Nat
  BY <1>2 DEF MsgOK, Msg
<1>4. reInvites[c] = 0 => u = Callee[c]
  BY <1>1, <1>2 DEF IInv, PlainInv
<1>5. \/ /\ net' = (net \ {m}) \cup {Answer(m, 486, u)}
         /\ UNCHANGED <<agent, callMap, sessions, joined, silent, behind, answered>>
      \/ /\ Handled(u, c, {m}, Incoming(u, c, m)) /\ answered' \subseteq answered \cup {c}
         /\ u \in ServerUa \/ ~Busy(u)
  BY DEF DeliverInvite
<1> HIDE DEF u
<1>6. CASE /\ net' = (net \ {m}) \cup {Answer(m, 486, u)}
           /\ UNCHANGED <<agent, callMap, sessions, joined, silent, behind, answered>>
  <2>0. 486 \in Codes
    BY DEF Codes
  <2> DEFINE r == Answer(m, 486, u)
  <2>1. r \in Msg /\ r.code = 486 /\ r.from = u /\ r.method = m.method /\ r.call = m.call
    BY <1>2, <2>0, AnswerFields
  <2>2. \A n \in net' : n \in net \/ n = r
    BY <1>6
  <2> HIDE DEF r
  <2>3. NewMsg(r)
    BY <1>1, <1>2, <1>3, <1>4, <2>1 DEF NewMsg, MsgOK
  <2>4. proxied' \in SUBSET Call /\ lost' \subseteq Msg /\ failed' \subseteq Msg
    BY <1>1 DEF IInv, TypeOK
  <2> QED BY <1>1, <1>6, <2>2, <2>3, <2>4, NetStepInv
<1>7. CASE /\ Handled(u, c, {m}, Incoming(u, c, m)) /\ answered' \subseteq answered \cup {c}
           /\ u \in ServerUa \/ ~Busy(u)
  <2> DEFINE k == Cardinality({n \in Number : callMap[u][n] # NoCall})
             s == [role |-> "server", id |-> k,
                   leg |-> "RINGING", ctl |-> "UAS_RINGING", acked |-> FALSE, own |-> FALSE,
                   freed |-> FALSE, cseq |-> m.cseq, request |-> m.cseq, open |-> sessions[u][c],
                   active |-> TRUE,
                   out |-> {[method |-> "INVITE", code |-> 180, cseq |-> m.cseq]}]
             t == Incoming(u, c, m)
  <2>1. t = IF u \in ServerUa THEN AcceptCall(s) ELSE s
    BY DEF Incoming
  <2>2. sessions[u][c] = IF <<u, c>> \in tooLate THEN 1 ELSE 0
    BY <1>1, <1>2, NoAgentSessions
  <2>3. k \in Number
    BY <1>1, <1>2, NumberFree
  <2> HIDE DEF k
  <2>4. /\ s.role = "server" /\ s.leg = "RINGING" /\ s.ctl = "UAS_RINGING" /\ ~s.acked /\ ~s.own
        /\ ~s.freed /\ s.active /\ s.open = sessions[u][c]
        /\ \A o \in s.out : o.method = "INVITE" /\ o.code = 180
    OBVIOUS
  <2>5. s \in Step
    <3>1. s.out \in SUBSET Out
      BY <1>3 DEF Out, Method, Codes
    <3>2. sessions[u][c] \in Int
      BY <2>2
    <3> QED BY <1>3, <2>3, <3>1, <3>2 DEF Step, LegState, ControlStates
  <2> HIDE DEF s, t
  <2>6. ServerOK(s)
    BY <2>4 DEF ServerOK, Up
  <2>7. /\ t \in Step /\ t.role = "server" /\ t.active /\ ServerOK(t) /\ ~t.acked
        /\ t.ctl = "UAS_RINGING" => t.leg \in {"RINGING", "FAILURE"}
        /\ t.open = (IF t.own THEN 1 ELSE 0) + (IF <<u, c>> \in tooLate THEN 1 ELSE 0)
        /\ \A o \in t.out : o.method = "INVITE" /\ o.code \in {180, 200}
    <3>1. CASE u \in ServerUa
      <4> DEFINE w == AcceptCall(s)
      <4>1. /\ w \in Step /\ w.role = "server" /\ w.active /\ ServerOK(w)
            /\ (w.acked <=> s.acked) /\ w.open = s.open + 1
            /\ s.leg = "RINGING" => w.own /\ w.ctl = "IN_CALL"
            /\ \A o \in w.out : o \in s.out \/ (s.leg = "RINGING" /\ o.method = "INVITE" /\ o.code = 200)
        BY <2>4, <2>5, <2>6, AcceptCallFields
      <4>2. t = w
        BY <2>1, <3>1
      <4> HIDE DEF w
      <4> QED BY <2>2, <2>4, <4>1, <4>2
    <3>2. CASE u \notin ServerUa
      BY <2>1, <2>2, <2>4, <2>5, <2>6, <3>2
    <3> QED BY <3>1, <3>2
  <2>8. ~t.freed
    BY <2>7 DEF ServerOK
  <2>9. t.open \in Nat
    BY <2>7
  <2>10. {m} \in SUBSET net /\ Handled(u, c, {m}, t)
    BY <1>7 DEF t
  <2>11. /\ u # Caller[c] => (Past(c)' <=> Past(c)) /\ (Failed(c)' <=> Failed(c))
         /\ u = Caller[c] => /\ Past(c)' <=> (t.active /\ t.role = "client" => t.leg \in PastLegs)
                             /\ Failed(c)' <=> (t.active /\ t.role = "client" => t.leg = "FAILURE")
    BY <1>2, <2>7, <2>9, <2>10, PastAfter DEF IInv
  <2>12. (Past(c) => Past(c)') /\ (Failed(c) => Failed(c)')
    BY <2>7, <2>11
  <2>13. \A o \in t.out : Sendable(u, c, o)
    BY <1>1, <1>4, <2>7 DEF Sendable
  <2>14. AgentOK(t) /\ Direct(t)
    BY <2>7 DEF AgentOK, Direct
  <2>15. Sound(u, c, t)
    BY <1>1, <1>2, <1>3, <1>4, <1>7, <2>7, <2>8, <2>12, <2>13, <2>14 DEF Sound
  <2>16. Frame(u, c)
    BY <1>1, <1>2, <1>7, FrameKept DEF IInv, TypeOK
  <2> HIDE DEF c
  <2> QED BY <1>1, <1>2, <1>3, <2>7, <2>10, <2>15, <2>16, HandledInv
<1> QED BY <1>5, <1>6, <1>7

LEMMA DeliverOutOfDialogInv ==
    ASSUME IInv, NEW m \in net, DeliverOutOfDialog(Peer(m.call, m.from), m),
           stack' \in [Ua -> [Call -> Container]]
    PROVE  IInv'
<1> DEFINE u == Peer(m.call, m.from)
           r == Answer(m, 501, u)
<1>1. /\ net' = (net \ ({m} \cup SameFinal(m))) \cup (IF m.code = 0 /\ m.method = "CANCEL" THEN {r} ELSE {})
      /\ UNCHANGED <<agent, callMap, sessions, aborted, placed, reInvites,
                     answered, joined, quit, silent, behind, tooLate, proxied, lost, failed>>
  BY DEF DeliverOutOfDialog, userVars, faultVars
<1>2. /\ m \in Msg /\ MsgOK(m) /\ u \in Ua /\ Caller[m.call] # Callee[m.call]
      /\ u \in {Caller[m.call], Callee[m.call]}
      /\ m.from = Caller[m.call] <=> u = Callee[m.call]
  BY PeerFields
<1>3. 501 \in Codes
  BY DEF Codes
<1> HIDE DEF u
<1>4. r \in Msg /\ r.code = 501 /\ r.from = u /\ r.method = m.method /\ r.call = m.call
  BY <1>2, <1>3, AnswerFields
<1> HIDE DEF r
<1>5. m.code = 0 /\ m.method = "CANCEL" => NewMsg(r)
  BY <1>2, <1>4 DEF NewMsg, MsgOK
<1>6. \A n \in net' : n \in net \/ NewMsg(n)
  BY <1>1, <1>5
<1>7. proxied' \in SUBSET Call /\ lost' \subseteq Msg /\ failed' \subseteq Msg
  BY <1>1 DEF IInv, TypeOK
<1> QED BY <1>1, <1>6, <1>7, NetStepInv

LEMMA ProxyAnswersInv ==
    ASSUME IInv, NEW m \in net, NEW code \in ProxyCode, ProxyAnswers(m, code)
    PROVE  IInv'
<1> DEFINE u == Peer(m.call, m.from)
           r == Answer(m, code, u)
<1>1. /\ m.code = 0 /\ m.method = "INVITE" /\ m.from = Caller[m.call]
      /\ proxied' = proxied \cup {m.call} /\ net' = (net \ {m}) \cup {r}
      /\ UNCHANGED <<agent, callMap, sessions, aborted, placed, reInvites,
                     answered, joined, quit, silent, behind, tooLate, lost, failed, stack>>
  BY DEF ProxyAnswers, userVars
<1>2. /\ m \in Msg /\ MsgOK(m) /\ u \in Ua /\ m.call \in Call
      /\ m.from = Caller[m.call] <=> u = Callee[m.call]
  BY PeerFields
<1>3. code \in Codes /\ code \in {401, 302}
  BY UaBoundAssumption DEF Codes
<1> HIDE DEF u
<1>4. r \in Msg /\ r.code = code /\ r.from = u /\ r.method = m.method /\ r.call = m.call
  BY <1>2, <1>3, AnswerFields
<1> HIDE DEF r
<1>5. NewMsg(r)
  BY <1>1, <1>2, <1>3, <1>4 DEF NewMsg, MsgOK
<1>6. \A n \in net' : n \in net \/ NewMsg(n)
  BY <1>1, <1>5
<1>7. /\ proxied' \in SUBSET Call /\ lost' \subseteq Msg /\ failed' \subseteq Msg
      /\ stack' \in [Ua -> [Call -> Container]]
  BY <1>1, <1>2 DEF IInv, TypeOK
<1> QED BY <1>1, <1>6, <1>7, NetStepInv

LEMMA RefuseInv ==
    ASSUME IInv, NEW d, NEW m \in net, Refuse(d, m), stack' \in [Ua -> [Call -> Container]]
    PROVE  IInv'
<1>1. /\ net' = net \ {m}
      /\ UNCHANGED <<agent, callMap, sessions, aborted, placed, reInvites,
                     answered, joined, quit, silent, behind, tooLate, proxied, lost, failed>>
  BY DEF Refuse, userVars, faultVars
<1>2. proxied' \in SUBSET Call /\ lost' \subseteq Msg /\ failed' \subseteq Msg
  BY <1>1 DEF IInv, TypeOK
<1> QED BY <1>1, <1>2, NetStepInv

LEMMA LoseInv ==
    ASSUME IInv, NEW m \in net, Lose(m)
    PROVE  IInv'
<1>1. /\ net' = net \ {m} /\ lost' \subseteq lost \cup {m}
      /\ UNCHANGED <<agent, callMap, sessions, aborted, placed, reInvites,
                     answered, joined, quit, silent, behind, tooLate, proxied, failed, stack>>
  BY DEF Lose, userVars
<1>2. m \in Msg
  BY PeerFields
<1>3. /\ proxied' \in SUBSET Call /\ lost' \subseteq Msg /\ failed' \subseteq Msg
      /\ stack' \in [Ua -> [Call -> Container]]
  BY <1>1, <1>2 DEF IInv, TypeOK
<1> QED BY <1>1, <1>3, NetStepInv

LEMMA SendFailsInv ==
    ASSUME IInv, NEW m \in net, NEW code \in {404, 408}, SendFails(m, code)
    PROVE  IInv'
<1> DEFINE u == Peer(m.call, m.from)
           r == Answer(m, code, u)
<1>1. /\ m.code = 0 /\ m.method \in {"INVITE", "CANCEL"}
      /\ failed' = failed \cup {m} /\ net' = (net \ {m}) \cup {r}
      /\ UNCHANGED <<agent, callMap, sessions, aborted, placed, reInvites,
                     answered, joined, quit, silent, behind, tooLate, proxied, lost, stack>>
  BY DEF SendFails, userVars
<1>2. /\ m \in Msg /\ MsgOK(m) /\ u \in Ua /\ m.call \in Call /\ Caller[m.call] # Callee[m.call]
      /\ u \in {Caller[m.call], Callee[m.call]}
      /\ m.from = Caller[m.call] <=> u = Callee[m.call]
  BY PeerFields
<1>3. code \in Codes /\ code > 0 /\ code # 302 /\ code # 0
  BY DEF Codes
<1> HIDE DEF u
<1>4. r \in Msg /\ r.code = code /\ r.from = u /\ r.method = m.method /\ r.call = m.call
  BY <1>2, <1>3, AnswerFields
<1> HIDE DEF r
<1>5. reInvites[m.call] = 0 => m.from = Caller[m.call]
  BY <1>1, <1>2 DEF IInv, PlainInv, MsgOK
<1>6. NewMsg(r)
  BY <1>1, <1>2, <1>3, <1>4, <1>5 DEF NewMsg, MsgOK
<1>7. \A n \in net' : n \in net \/ NewMsg(n)
  BY <1>1, <1>6
<1>8. /\ proxied' \in SUBSET Call /\ lost' \subseteq Msg /\ failed' \subseteq Msg
      /\ stack' \in [Ua -> [Call -> Container]]
  BY <1>1, <1>2 DEF IInv, TypeOK
<1> QED BY <1>1, <1>7, <1>8, NetStepInv

\* The stack keeps the type of its containers.
LEMMA RecordedType ==
    ASSUME IInv, NEW m \in net, Deliver(m)
    PROVE  stack' \in [Ua -> [Call -> Container]]
<1> DEFINE u == Peer(m.call, m.from)
           d == stack[u][m.call]
           e == Recorded(d, m)
<1>1. /\ stack \in [Ua -> [Call -> Container]] /\ u \in Ua /\ m.call \in Call /\ m.cseq \in Nat
  BY PeerFields DEF IInv, TypeOK, Msg
<1>2. d.seq \in Nat /\ d.invites \in SUBSET Nat
  BY <1>1 DEF Container
<1>3. stack' = [stack EXCEPT ![u][m.call] = e]
  BY DEF Deliver
<1> HIDE DEF u, d
<1>4. e \in Container
  BY <1>1, <1>2 DEF Recorded, Container
<1> HIDE DEF e
<1> QED BY <1>1, <1>3, <1>4

LEMMA StutterInv ==
    ASSUME IInv, UNCHANGED vars
    PROVE  IInv'
<1>1. UNCHANGED <<agent, callMap, sessions, aborted, placed, reInvites,
                  answered, joined, quit, silent, behind, tooLate, net, proxied, lost, failed, stack>>
  BY DEF vars
<1>2. /\ proxied' \in SUBSET Call /\ lost' \subseteq Msg /\ failed' \subseteq Msg
      /\ stack' \in [Ua -> [Call -> Container]]
  BY <1>1 DEF IInv, TypeOK
<1> QED BY <1>1, <1>2, NetStepInv

LEMMA InitInv == UaInit => IInv
<1> SUFFICES ASSUME UaInit  PROVE IInv
  OBVIOUS
<1>1. TypeOK
  <2>1. stack \in [Ua -> [Call -> Container]]
    BY DEF UaInit, Container
  <2> QED BY <2>1, UaBoundAssumption DEF UaInit, TypeOK, Assertion
<1>2. \A u \in Ua, c \in Call : agent[u][c] = NoAgent /\ sessions[u][c] = 0
  BY DEF UaInit
<1>3. \A u \in Ua, n \in Number : callMap[u][n] = NoCall
  BY DEF UaInit
<1>4. net = {} /\ tooLate = {} /\ \A u \in Ua : aborted[u] = "none"
  BY DEF UaInit
<1>5. AgentInv /\ AgentPersisted
  BY <1>2 DEF AgentInv, AgentPersisted
<1>6. AckedInv
  BY <1>2, UaRolesAssumption DEF AckedInv
<1>7. NetInv /\ PlainInv /\ DirectInv
  BY <1>2, <1>4 DEF NetInv, PlainInv, DirectInv, SessionAtHand
<1>8. MapInv
  BY <1>3 DEF MapInv
<1>9. MediaReleased
  BY <1>2, <1>4 DEF MediaReleased
<1> QED BY <1>1, <1>5, <1>6, <1>7, <1>8, <1>9 DEF IInv

LEMMA NextInv == IInv /\ [Next]_vars => IInv'
<1> SUFFICES ASSUME IInv, [Next]_vars  PROVE IInv'
  OBVIOUS
<1>1. ASSUME NEW c \in Call, InitiateInvite(c)  PROVE IInv'
  BY <1>1, InitiateInviteInv
<1>2. ASSUME NEW u \in Ua, NEW c \in Call,
             \/ Accept(u, c) \/ Stop(u, c) \/ Purge(u, c)
             \/ BusyAborts(u, c) \/ ReInvite(u, c) \/ ReInviteAborts(u, c)
      PROVE  IInv'
  BY <1>2, AcceptInv, StopInv, PurgeInv, BusyAbortsInv, ReInviteInv, ReInviteAbortsInv
<1>3. ASSUME NEW u \in Ua, NEW n \in Number, DeviceStop(u, n)  PROVE IInv'
  BY <1>3, DeviceStopInv
<1>4. ASSUME NEW m \in net, Deliver(m)  PROVE IInv'
  <2>0. stack' \in [Ua -> [Call -> Container]]
    BY <1>4, RecordedType
  <2>1. /\ aborted[Peer(m.call, m.from)] = "none"
        /\ \/ Refuse(stack[Peer(m.call, m.from)][m.call], m)
           \/ DeliverToAgent(Peer(m.call, m.from), m)
           \/ DeliverAborts(Peer(m.call, m.from), m)
           \/ DeliverInvite(Peer(m.call, m.from), m)
           \/ DeliverOutOfDialog(Peer(m.call, m.from), m)
    BY <1>4 DEF Deliver, HandUp
  <2> QED BY <2>0, <2>1, RefuseInv, DeliverToAgentInv, DeliverAbortsInv, DeliverInviteInv, DeliverOutOfDialogInv
<1>5. ASSUME NEW m \in net, Lose(m)  PROVE IInv'
  BY <1>5, LoseInv
<1>6. ASSUME NEW m \in net, NEW code \in ProxyCode, ProxyAnswers(m, code)  PROVE IInv'
  BY <1>6, ProxyAnswersInv
<1>7. ASSUME NEW m \in net, NEW code \in {404, 408}, SendFails(m, code)  PROVE IInv'
  BY <1>7, SendFailsInv
<1>8. CASE UNCHANGED vars
  BY <1>8, StutterInv
<1> QED BY <1>1, <1>2, <1>3, <1>4, <1>5, <1>6, <1>7, <1>8 DEF Next

-----------------------------------------------------------------------------
(* The theorems.                                                           *)

\* The invariant: what agents, numbers, sessions and messages of the user
\* agents say of each other after any sequence of events.
THEOREM Invariance == Spec => []IInv
BY InitInv, NextInv, PTL DEF Spec

\* Types: in particular a number for the next call of a server is always free,
\* in the sense that it is one of the numbers of myCallMap.
THEOREM TypeCorrect == Spec => []TypeOK
<1>1. IInv => TypeOK
  BY DEF IInv
<1> QED BY <1>1, Invariance, PTL

\* An agent of a telephone stays in myCallMap under its number while it is in
\* CallDB (UaCallControl::processEvent, UaFacade), for any number of calls.
THEOREM AgentPersistedCorrect == Spec => []AgentPersisted
<1>1. IInv => AgentPersisted
  BY DEF IInv
<1> QED BY <1>1, Invariance, PTL

\* No media session is leaked or freed twice, however a call ends.
THEOREM MediaReleasedCorrect == Spec => []MediaReleased
<1>1. IInv => MediaReleased
  BY DEF IInv
<1> QED BY <1>1, Invariance, PTL

\* The call leg and the control state of an agent agree, whatever messages
\* cross: uaState and controlState are told of every message in the right order.
THEOREM LegFollowsControlCorrect == Spec => []LegFollowsControl
<1>1. ASSUME IInv  PROVE LegFollowsControl
  <2>1. SUFFICES ASSUME NEW u \in Ua, NEW c \in Call, agent[u][c] # NoAgent, ~RingsAgain(u, c)
                 PROVE  agent[u][c].leg \in
                            CASE agent[u][c].ctl \in {"IN_CALL", "IN_HOLD"} -> {"INCALL", "HOLD"}
                              [] agent[u][c].ctl = "TRYING" -> {"C_TRYING", "REDIRECT", "FAILURE"}
                              [] OTHER -> {"RINGING", "FAILURE"}
    BY DEF LegFollowsControl
  <2> DEFINE a == agent[u][c]
  <2>2. a \in Agent /\ AgentOK(a)
    BY <1>1, <2>1 DEF IInv, TypeOK, AgentInv
  <2>3. reInvites[c] = 0 /\ a.role = "server" => (a.ctl = "UAS_RINGING" => a.leg \in {"RINGING", "FAILURE"})
    BY <1>1, <2>1 DEF IInv, PlainInv
  <2>4. a.ctl = "UAS_RINGING" => reInvites[c] = 0
    BY <1>1, <2>1, UaBoundAssumption DEF IInv, TypeOK, RingsAgain
  <2> HIDE DEF a
  <2>5. a.role \in {"client", "server"} /\ a.ctl \in ControlStates
    BY <2>2 DEF Agent
  <2>6. /\ a.ctl \in {"IN_CALL", "IN_HOLD"} => a.leg \in {"INCALL", "HOLD"}
        /\ a.ctl = "TRYING" => a.leg \in {"C_TRYING", "REDIRECT", "FAILURE"}
        /\ a.ctl \in {"UAC_RINGING", "UAS_RINGING"} => a.leg \in {"RINGING", "FAILURE"}
    <3>1. CASE a.role = "client"
      BY <2>2, <3>1 DEF AgentOK, ClientOK, SetUp, Up
    <3>2. CASE a.role = "server"
      BY <2>2, <2>3, <2>4, <3>2 DEF AgentOK, ServerOK, Up
    <3> QED BY <2>5, <3>1, <3>2
  <2>7. a.leg \in CASE a.ctl \in {"IN_CALL", "IN_HOLD"} -> {"INCALL", "HOLD"}
                    [] a.ctl = "TRYING" -> {"C_TRYING", "REDIRECT", "FAILURE"}
                    [] OTHER -> {"RINGING", "FAILURE"}
    <3>1. CASE a.ctl \in {"IN_CALL", "IN_HOLD"}
      BY <2>6, <3>1
    <3>2. CASE a.ctl = "TRYING"
      BY <2>6, <3>2
    <3>3. CASE a.ctl \in {"UAC_RINGING", "UAS_RINGING"}
      BY <2>6, <3>3
    <3> QED BY <2>5, <3>1, <3>2, <3>3 DEF ControlStates
  <2> QED BY <2>7 DEF a
<1> QED BY <1>1, Invariance, PTL

\* A call that is up has its session, through any number of hold and resume
\* commands and of messages that are late or lost.
THEOREM InCallHasSessionCorrect == Spec => []InCallHasSession
<1>1. ASSUME IInv  PROVE InCallHasSession
  <2>1. SUFFICES ASSUME NEW u \in Ua, NEW c \in Call, IsUp(agent[u][c])
                 PROVE  HasSession(agent[u][c]) /\ sessions[u][c] > 0
    BY DEF InCallHasSession
  <2> DEFINE a == agent[u][c]
  <2>2. a \in Agent /\ AgentOK(a) /\ aborted[u] = "none" /\ a # NoAgent /\ a.ctl \in Up
    BY <1>1, <2>1 DEF IInv, TypeOK, AgentInv, IsUp, Up
  <2>3. a.own /\ ~a.freed
    <3>1. a.role \in {"client", "server"}
      BY <2>2 DEF Agent
    <3>2. CASE a.role = "client"
      BY <2>2, <3>2 DEF AgentOK, ClientOK
    <3>3. CASE a.role = "server"
      BY <2>2, <3>3 DEF AgentOK, ServerOK
    <3> QED BY <3>1, <3>2, <3>3
  <2>4. sessions[u][c] = 1 + (IF <<u, c>> \in tooLate THEN 1 ELSE 0)
    BY <1>1, <2>2, <2>3 DEF IInv, MediaReleased
  <2> QED BY <2>3, <2>4 DEF HasSession
<1> QED BY <1>1, Invariance, PTL

\* Without redirection no assertion of MediaController fails before a call is
\* put on hold: the session that a message needs is there.
THEOREM SessionAtHandCorrect ==
    ASSUME 302 \notin ProxyCode
    PROVE  Spec => []SessionAtHand
<1>1. IInv => SessionAtHand
  BY DEF IInv, DirectInv, SessionAtHand
<1> QED BY <1>1, Invariance, PTL

=============================================================================
