------------------------ MODULE UaCallNumbersProofs ------------------------
(***************************************************************************)
(* Proofs about UaCall: the BYE that ends a call both sides were in is not *)
(* refused by the order check of the callee's stack, and the call ends on  *)
(* both sides.  The CSeqs of the caller's requests are compared with those *)
(* of its agent: the number of the INVITE it last sent, while the call is  *)
(* set up, and the number of the call leg, once it is up.                  *)
(***************************************************************************)
EXTENDS UaCallJoinedProofs

(***************************************************************************)
(* The inductive invariant.                                                *)
(***************************************************************************)

\* The requests of the caller but BYE have CSeqs below n, those on their way and
\* those the stack of the callee has seen.
Below(c, n) ==
    /\ stack[Callee[c]][c].seq < n
    /\ \A m \in net : m.call = c /\ m.from = Caller[c] /\ m.code = 0 /\ m.method # "BYE" => m.cseq < n

\* While nobody has hung up: the INVITE, its answer and the callee's agent have the
\* number of the INVITE the caller last sent, and the caller that is up counts from
\* there, unless it fell behind.
CalmNumbers(c) ==
    LET a == CallerAgent(c)
        b == CalleeAgent(c)
    IN  a # NoAgent =>
          /\ Below(c, a.request + 1) /\ (~IsUp(a) => a.cseq > 0)
          /\ \A m \in net : IsPending(m, c) =>
                m.cseq = a.request /\ (m.code \in {302, 401} => m.cseq = 1)
          /\ ~IsUp(a) /\ b # NoAgent => b.request = a.request
          /\ IsUp(a) /\ c \notin behind => a.cseq >= a.request
          /\ a.leg = "REDIRECT" => a.cseq >= a.request /\ a.request > 1

\* In a call both sides were in: the BYE of the caller has, or will have, a number
\* of its own.
JoinedNumbers(c) ==
    c \notin behind =>
        /\ CallerAgent(c) # NoAgent => Below(c, CallerAgent(c).cseq + 1)
        /\ CalleeAgent(c) # NoAgent =>
              \A m \in net : IsBye(m, c) /\ m.from = Caller[c] => Below(c, m.cseq)

\* The callee sends no INVITE: the stack of the caller has no container.
CallerStack(c) == stack[Caller[c]][c].seq = 0 /\ stack[Caller[c]][c].invites = {}

Numbers(c) ==
    Regular(c) =>
        /\ CallerStack(c)
        /\ c \notin placed => stack[Callee[c]][c].seq = 0
        /\ c \notin quit => CalmNumbers(c)
        /\ c \in joined => JoinedNumbers(c)
NumInv == \A c \in Call : Numbers(c)

(***************************************************************************)
(* What a step makes of the numbers of a call.                             *)
(***************************************************************************)

LEMMA AgentNumbers ==
    ASSUME TypeOK, NEW c \in Call
    PROVE  /\ CallerAgent(c) # NoAgent => CallerAgent(c).cseq \in Nat /\ CallerAgent(c).request \in Nat
           /\ CalleeAgent(c) # NoAgent => CalleeAgent(c).request \in Nat
           /\ stack[Callee[c]][c].seq \in Nat
           /\ \A m \in net : m.cseq \in Nat
<1>1. Caller[c] \in Ua /\ Callee[c] \in Ua
  BY UaRolesAssumption
<1>2. agent \in [Ua -> [Call -> Agent \cup {NoAgent}]] /\ stack \in [Ua -> [Call -> Container]] /\ net \subseteq Msg
  BY DEF TypeOK
<1>3. /\ CallerAgent(c) # NoAgent => CallerAgent(c) \in Agent
      /\ CalleeAgent(c) # NoAgent => CalleeAgent(c) \in Agent
      /\ stack[Callee[c]][c] \in Container
  BY <1>1, <1>2 DEF CallerAgent, CalleeAgent
<1>4. \A m \in net : m.cseq \in Nat
  BY <1>2 DEF Msg
<1> QED BY <1>3, <1>4 DEF Agent, Container

\* The stacks have nothing new of the calls but c, and of c only what is right.
StackStep(c) ==
    /\ \A v \in Ua, d \in Call : d # c => stack'[v][d] = stack[v][d]
    /\ Regular(c)' => CallerStack(c)' /\ (c \notin placed' => stack'[Callee[c]][c].seq = 0)

LEMMA StackUnchanged ==
    ASSUME NumInv, NEW c \in Call, Grows(c), UNCHANGED stack
    PROVE  StackStep(c)
BY GrowsRegular DEF NumInv, Numbers, CallerStack, StackStep, Grows

LEMMA OtherNumbers ==
    ASSUME JInv, NumInv, NEW c \in Call, Stepped(c), StackStep(c), NEW d \in Call, d # c
    PROVE  Numbers(d)'
<1>1. SUFFICES ASSUME Regular(d)'
               PROVE  /\ CallerStack(d)'
                      /\ d \notin placed' => stack'[Callee[d]][d].seq = 0
                      /\ d \notin quit' => CalmNumbers(d)'
                      /\ d \in joined' => JoinedNumbers(d)'
  BY DEF Numbers
<1>2. Caller[d] \in Ua /\ Callee[d] \in Ua
  BY UaRolesAssumption
<1>3. /\ CallerAgent(d)' = CallerAgent(d) /\ CalleeAgent(d)' = CalleeAgent(d)
      /\ \A m \in net' : m.call = d => m \in net
      /\ d \in joined' <=> d \in joined
      /\ d \in behind' <=> d \in behind
      /\ d \in quit' <=> d \in quit
      /\ d \in placed => d \in placed'
  BY DEF Stepped, About, Grows
<1>4. stack'[Caller[d]][d] = stack[Caller[d]][d] /\ stack'[Callee[d]][d] = stack[Callee[d]][d]
  BY <1>2 DEF StackStep
<1>5. Regular(d)
  BY <1>1, GrowsRegular DEF Stepped
<1>6. /\ CallerStack(d)
      /\ d \notin placed => stack[Callee[d]][d].seq = 0
      /\ d \notin quit => CalmNumbers(d)
      /\ d \in joined => JoinedNumbers(d)
  BY <1>5 DEF NumInv, Numbers
<1>7. \A n : Below(d, n) => Below(d, n)'
  BY <1>3, <1>4 DEF Below
<1>8. CallerStack(d)' /\ (d \notin placed' => stack'[Callee[d]][d].seq = 0)
  BY <1>3, <1>4, <1>6 DEF CallerStack
<1>9. CalmNumbers(d) => CalmNumbers(d)'
  BY <1>3, <1>7 DEF CalmNumbers, IsPending, IsUp
<1>10. JoinedNumbers(d) => JoinedNumbers(d)'
  BY <1>3, <1>7 DEF JoinedNumbers, IsBye
<1> QED BY <1>3, <1>6, <1>8, <1>9, <1>10

\* What has to be shown of call c.
GoodNumbers(c) ==
    Regular(c)' => /\ c \notin quit' => CalmNumbers(c)'
                   /\ c \in joined => JoinedNumbers(c)'

LEMMA NumbersInv ==
    ASSUME JInv, JInv', NumInv, NEW c \in Call, Stepped(c), StackStep(c), GoodNumbers(c)
    PROVE  NumInv'
<1>1. ASSUME Regular(c)', c \in joined', c \notin joined  PROVE JoinedNumbers(c)'
  <2> DEFINE a == CallerAgent(c)'
  <2>1. IsUp(a) /\ IsUp(CalleeAgent(c))'
    BY <1>1 DEF Stepped, IsUp
  <2>2. a # NoAgent /\ CalleeAgent(c)' # NoAgent /\ a.ctl \in Up
    BY <2>1 DEF IsUp, Up
  <2>3. ~a.freed
    <3>1. Caller[c] \in Ua /\ a = agent'[Caller[c]][c]
      BY UaRolesAssumption DEF CallerAgent
    <3>2. a \in Agent /\ AgentOK(a)
      BY <2>2, <3>1 DEF JInv, IInv, TypeOK, AgentInv
    <3> QED BY <2>2, <3>2 DEF Agent, AgentOK, ClientOK, ServerOK
  <2>4. c \notin quit' /\ Calm(c)'
    BY <1>1, <2>2, <2>3 DEF JInv, CallInv, Done
  <2>5. CalmNumbers(c)'
    BY <1>1, <2>4 DEF GoodNumbers
  <2>6. a.cseq \in Nat /\ a.request \in Nat /\ stack'[Callee[c]][c].seq \in Nat /\ \A m \in net' : m.cseq \in Nat
    <3>1. TypeOK'
      BY DEF JInv, IInv
    <3>2. /\ (CallerAgent(c) # NoAgent => CallerAgent(c).cseq \in Nat /\ CallerAgent(c).request \in Nat)'
          /\ (stack[Callee[c]][c].seq \in Nat /\ \A m \in net : m.cseq \in Nat)'
      BY <3>1, AgentNumbers, PTL
    <3> QED BY <2>2, <3>2
  <2>7. /\ stack'[Callee[c]][c].seq < a.request + 1
        /\ \A m \in net' : m.call = c /\ m.from = Caller[c] /\ m.code = 0 /\ m.method # "BYE" =>
              m.cseq < a.request + 1
        /\ c \notin behind' => a.cseq >= a.request
    BY <2>1, <2>2, <2>5 DEF CalmNumbers, Below, IsUp
  <2>8. c \notin behind' => Below(c, CallerAgent(c).cseq + 1)'
    <3> HIDE DEF a
    <3>1. c \notin behind' =>
             /\ stack'[Callee[c]][c].seq < a.cseq + 1
             /\ \A m \in net' : m.call = c /\ m.from = Caller[c] /\ m.code = 0 /\ m.method # "BYE" =>
                   m.cseq < a.cseq + 1
      BY <2>6, <2>7
    <3> QED BY <3>1 DEF a, Below
  <2>9. \A m \in net' : ~IsBye(m, c)
    BY <2>4 DEF Calm, IsBye
  <2> QED BY <2>8, <2>9 DEF JoinedNumbers, IsBye
<1>2. Numbers(c)'
  BY <1>1 DEF Numbers, GoodNumbers, StackStep, Stepped, About
<1> QED BY <1>2, OtherNumbers DEF NumInv

\* The stack of the callee has seen nothing new, or a request that was on its way.
SeqStep(c) ==
    \/ stack'[Callee[c]][c].seq = stack[Callee[c]][c].seq
    \/ \E k \in net : /\ k.call = c /\ k.from = Caller[c] /\ k.code = 0
                      /\ stack'[Callee[c]][c].seq = k.cseq
                      /\ k.method = "BYE" => CalleeAgent(c)' = NoAgent

\* Below(c, n) after the step.
BelowNext(c, n) ==
    /\ stack'[Callee[c]][c].seq < n
    /\ \A m \in net' : m.call = c /\ m.from = Caller[c] /\ m.code = 0 /\ m.method # "BYE" => m.cseq < n

LEMMA BelowKept ==
    ASSUME NEW c \in Call, SeqStep(c),
           \/ CalleeAgent(c)' # NoAgent
           \/ \A k \in net : k.call = c /\ k.from = Caller[c] => k.method # "BYE"
    PROVE  \A n : /\ Below(c, n)
                  /\ \A k \in net' : k.call = c /\ k.from = Caller[c] /\ k.code = 0 /\ k.method # "BYE" =>
                        k \in net \/ k.cseq < n
                  => BelowNext(c, n)
BY DEF Below, BelowNext, SeqStep

\* A step that leaves the caller's agent as it is, or ends it, and sends nothing
\* but answers of the callee.
LEMMA CalmKept ==
    ASSUME NEW c \in Call, CalmNumbers(c), Calm(c), SeqStep(c), c \in behind => c \in behind',
           \/ CallerAgent(c)' = NoAgent
           \/ /\ CallerAgent(c) # NoAgent
              /\ CallerAgent(c)'.cseq = CallerAgent(c).cseq
              /\ CallerAgent(c)'.request = CallerAgent(c).request
              /\ CallerAgent(c)'.leg = "REDIRECT" => CallerAgent(c).leg = "REDIRECT"
              /\ IsUp(CallerAgent(c)') <=> IsUp(CallerAgent(c))
              /\ ~IsUp(CallerAgent(c)) /\ CalleeAgent(c)' # NoAgent =>
                    CalleeAgent(c)'.request = CallerAgent(c).request,
           \A k \in net' : k.call = c =>
               \/ k \in net
               \/ /\ k.from = Callee[c]
                  /\ IsPending(k, c) /\ CallerAgent(c) # NoAgent =>
                        k.cseq = CallerAgent(c).request /\ (k.code \in {302, 401} => k.cseq = 1)
    PROVE  CalmNumbers(c)'
<1> DEFINE a == CallerAgent(c)
           p == CallerAgent(c)'
           q == CalleeAgent(c)'
<1>1. CASE p = NoAgent
  BY <1>1 DEF CalmNumbers
<1>2. CASE p # NoAgent
  <2>1. /\ a # NoAgent /\ p.cseq = a.cseq /\ p.request = a.request
        /\ p.leg = "REDIRECT" => a.leg = "REDIRECT"
        /\ IsUp(p) <=> IsUp(a)
        /\ ~IsUp(a) /\ q # NoAgent => q.request = a.request
    BY <1>2
  <2>2. /\ Below(c, a.request + 1) /\ (~IsUp(a) => a.cseq > 0)
        /\ \A m \in net : IsPending(m, c) => m.cseq = a.request /\ (m.code \in {302, 401} => m.cseq = 1)
        /\ IsUp(a) /\ c \notin behind => a.cseq >= a.request
        /\ a.leg = "REDIRECT" => a.cseq >= a.request /\ a.request > 1
    BY <2>1 DEF CalmNumbers
  <2>3. Caller[c] # Callee[c] /\ \A k \in net : k.call = c => k.method # "BYE"
    BY UaRolesAssumption DEF Calm
  <2>4. \A m \in net' : IsPending(m, c) => m.cseq = a.request /\ (m.code \in {302, 401} => m.cseq = 1)
    BY <2>1, <2>2 DEF IsPending
  <2>5. BelowNext(c, a.request + 1)
    BY <2>2, <2>3, BelowKept
  <2>6. BelowNext(c, p.request + 1)
    BY <2>1, <2>5
  <2>7. c \notin behind' => c \notin behind
    OBVIOUS
  <2>8. /\ ~IsUp(p) => p.cseq > 0
        /\ \A m \in net' : IsPending(m, c) => m.cseq = p.request /\ (m.code \in {302, 401} => m.cseq = 1)
        /\ ~IsUp(p) /\ q # NoAgent => q.request = p.request
        /\ IsUp(p) /\ c \notin behind' => p.cseq >= p.request
        /\ p.leg = "REDIRECT" => p.cseq >= p.request /\ p.request > 1
    <3> HIDE DEF a, p, q
    <3> QED BY <2>1, <2>2, <2>4, <2>7
  <2> QED BY <2>6, <2>8 DEF CalmNumbers, Below, BelowNext, IsUp, IsPending
<1> QED BY <1>1, <1>2

LEMMA ByeCode ==
    ASSUME JInv
    PROVE  \A m \in net : m.method = "BYE" => m.code = 0
BY OnNet DEF MsgOK

\* A call both sides were in, whose caller's agent stays as it is, or sends a BYE
\* and ends.
LEMMA JoinedKept ==
    ASSUME JInv', NEW c \in Call, JoinedNumbers(c), Joined(c), SeqStep(c), c \in behind => c \in behind',
           \/ CallerAgent(c)' = NoAgent
           \/ CallerAgent(c) # NoAgent /\ CallerAgent(c)'.cseq = CallerAgent(c).cseq,
           CalleeAgent(c)' # NoAgent => CalleeAgent(c) # NoAgent,
           \A k \in net' : k.call = c /\ k.from = Caller[c] /\ k.code = 0 =>
               \/ k \in net
               \/ k.method = "BYE" /\ CallerAgent(c) # NoAgent /\ k.cseq = CallerAgent(c).cseq + 1
    PROVE  JoinedNumbers(c)'
<1> DEFINE a == CallerAgent(c)
           p == CallerAgent(c)'
           q == CalleeAgent(c)'
<1>1. SUFFICES ASSUME c \notin behind'
               PROVE  /\ p # NoAgent => BelowNext(c, p.cseq + 1)
                      /\ q # NoAgent =>
                            \A m \in net' : IsBye(m, c) /\ m.from = Caller[c] => BelowNext(c, m.cseq)
  BY DEF JoinedNumbers, BelowNext, Below, IsBye
<1>2. /\ a # NoAgent => Below(c, a.cseq + 1)
      /\ CalleeAgent(c) # NoAgent =>
            \A m \in net : IsBye(m, c) /\ m.from = Caller[c] => Below(c, m.cseq)
  BY <1>1 DEF JoinedNumbers
<1>3. \A k \in net : IsBye(k, c) /\ k.from = Caller[c] => a = NoAgent
  BY DEF Joined, CallerAgent
<1>4. a # NoAgent => BelowNext(c, a.cseq + 1)
  <2>1. SUFFICES ASSUME a # NoAgent  PROVE BelowNext(c, a.cseq + 1)
    OBVIOUS
  <2>2. \A k \in net : k.call = c /\ k.from = Caller[c] => k.method # "BYE"
    BY <1>3, <2>1 DEF IsBye
  <2> QED BY <1>2, <2>1, <2>2, BelowKept
<1>5. p # NoAgent => BelowNext(c, p.cseq + 1)
  BY <1>4
<1>6. ASSUME q # NoAgent, NEW m \in net', IsBye(m, c), m.from = Caller[c], m.code = 0
      PROVE  BelowNext(c, m.cseq)
  <2>1. CASE m \in net
    <3>1. Below(c, m.cseq)
      BY <1>2, <1>6, <2>1
    <3> QED BY <1>6, <3>1, BelowKept
  <2>2. CASE m \notin net
    BY <1>4, <1>6, <2>2 DEF IsBye
  <2> QED BY <2>1, <2>2
<1>7. \A m \in net' : m.method = "BYE" => m.code = 0
  <2>1. (\A m \in net : m.method = "BYE" => m.code = 0)'
    BY ByeCode, PTL
  <2> QED BY <2>1
<1> QED BY <1>5, <1>6, <1>7 DEF IsBye

LEMMA DeliverStack ==
    ASSUME JInv, NumInv, NEW m \in net, Grows(m.call),
           stack' = [stack EXCEPT ![Peer(m.call, m.from)][m.call] = Recorded(@, m)]
    PROVE  LET c == m.call
           IN  /\ StackStep(c)
               /\ \/ stack'[Callee[c]][c].seq = stack[Callee[c]][c].seq
                  \/ m.from = Caller[c] /\ m.code = 0 /\ stack'[Callee[c]][c].seq = m.cseq
<1> DEFINE c == m.call
           u == Peer(c, m.from)
           d == stack[u][c]
           e == Recorded(d, m)
<1>1. /\ c \in Call /\ u \in Ua /\ u \in {Caller[c], Callee[c]} /\ Caller[c] # Callee[c]
      /\ m.from = Caller[c] <=> u = Callee[c]
      /\ m.from = Callee[c] <=> u = Caller[c]
      /\ Caller[c] \in Ua /\ Callee[c] \in Ua
  BY PeerFields, UaRolesAssumption DEF JInv
<1>2. stack \in [Ua -> [Call -> Container]]
  BY DEF JInv, IInv, TypeOK
<1>3. c \in placed
  BY OnNet DEF MsgOK
<1>4. /\ e.seq = d.seq \/ (m.code = 0 /\ d.invites # {} /\ e.seq = m.cseq)
      /\ e.invites = d.invites \/ (m.code = 0 /\ m.method = "INVITE")
  BY DEF Recorded, Counted
<1>5. stack' = [stack EXCEPT ![u][c] = e]
  OBVIOUS
<1> HIDE DEF e, u
<1>6. stack'[u][c] = e /\ \A v \in Ua, x \in Call : v # u \/ x # c => stack'[v][x] = stack[v][x]
  BY <1>1, <1>2, <1>5
<1> HIDE DEF c
<1>7. c \in placed'
  BY <1>3 DEF Grows, c
<1>8. ASSUME Regular(c)'  PROVE CallerStack(c)'
  <2>1. Regular(c)
    BY <1>1, <1>8, GrowsRegular DEF c
  <2>2. CallerStack(c)
    BY <1>1, <2>1 DEF NumInv, Numbers
  <2>3. m.code = 0 /\ m.method = "INVITE" => m.from = Caller[c]
    BY <1>1, <2>1 DEF JInv, IInv, PlainInv, Regular, c
  <2>4. CASE u = Caller[c]
    <3>1. e.seq = d.seq /\ e.invites = d.invites
      BY <1>1, <1>4, <2>2, <2>3, <2>4 DEF CallerStack
    <3> QED BY <1>6, <2>2, <2>4, <3>1 DEF CallerStack
  <2>5. CASE u # Caller[c]
    BY <1>1, <1>6, <2>2, <2>5 DEF CallerStack
  <2> QED BY <2>4, <2>5
<1>9. StackStep(c)
  BY <1>6, <1>7, <1>8 DEF StackStep
<1>10. \/ stack'[Callee[c]][c].seq = stack[Callee[c]][c].seq
       \/ m.from = Caller[c] /\ m.code = 0 /\ stack'[Callee[c]][c].seq = m.cseq
  BY <1>1, <1>4, <1>6
<1> QED BY <1>9, <1>10 DEF c

\* What a status makes of the numbers of a caller's agent that waits for it.
LEMMA SetUpNumbers ==
    ASSUME NEW s \in Step, s.active, s.out = {}, AgentOK(s), s.role = "client",
           s.leg \in {"C_TRYING", "REDIRECT", "RINGING"},
           NEW m \in Msg, m.code > 0, m.method = "INVITE", RecvStatus(s, m).active
    PROVE  LET t == RecvStatus(s, m)
           IN  \/ /\ m.code < 200 /\ t.cseq = s.cseq /\ t.request = s.request /\ t.out = {}
                  /\ t.leg \in {s.leg, "RINGING"}
               \/ /\ m.code = 200 /\ t.request = s.request /\ t.leg = "INCALL" /\ t.role = "client"
                  /\ t.cseq = IF s.leg = "RINGING" THEN m.cseq ELSE s.cseq
                  /\ \A o \in t.out : o.cseq = m.cseq
               \/ /\ m.code = 302 /\ t.leg = "REDIRECT" /\ s.leg # "RINGING"
                  /\ t.cseq = s.cseq + 1 /\ t.request = s.cseq + 1
                  /\ \A o \in t.out : o.cseq = s.cseq + 1
               \/ /\ m.code = 401 /\ t.leg = s.leg /\ s.leg # "RINGING"
                  /\ t.cseq = s.cseq /\ t.request = s.request + 1
                  /\ \A o \in t.out : o.cseq = s.request + 1
<1> DEFINE t == RecvStatus(s, m)
<1>0. /\ s.ctl \in SetUp /\ s.ctl \notin Up
      /\ s.leg = "C_TRYING" => s.ctl = "TRYING"
      /\ s.leg = "REDIRECT" => s.ctl = "TRYING"
      /\ s.leg = "RINGING" => s.ctl = "UAC_RINGING"
  BY DEF AgentOK, ClientOK, SetUp, Up, Step
<1>c. /\ m.code \in Codes /\ m.code \in Nat /\ m.cseq \in Nat
      /\ {"INCALL", "REDIRECT", "RINGING"} \subseteq LegState
      /\ {"IN_CALL", "UAC_RINGING"} \subseteq ControlStates
      /\ {"ACK", "INVITE"} \subseteq Method /\ 0 \in Codes
  BY DEF Msg, Codes, LegState, ControlStates, Method
<1>t. t = StatusInSetUp(s, m) /\ t.active
  BY DEF RecvStatus
<1>1. CASE m.code = 200
  <2> DEFINE y == IF s.leg = "RINGING" THEN Synced(s, m) ELSE s
             n == IF s.leg = "RINGING" THEN m.cseq ELSE s.cseq
             k == [y EXCEPT !.ctl = "IN_CALL"]
             a == Send(k, "ACK", 0, m.cseq)
  <2>n. n \in Nat
    BY <1>c DEF Step
  <2>y. y \in Step /\ y.ctl = s.ctl /\ y.out = {} /\ y.cseq = n /\ y.request = s.request /\ y.role = s.role
    <3>1. Synced(s, m) = [s EXCEPT !.cseq = m.cseq]
      BY <1>1 DEF Synced
    <3>2. LET z == [s EXCEPT !.cseq = m.cseq]
          IN  z \in Step /\ z.ctl = s.ctl /\ z.out = s.out /\ z.cseq = m.cseq /\ z.request = s.request /\ z.role = s.role
      BY <1>c DEF Step
    <3> QED BY <3>1, <3>2
  <2>t. t = [ReceivedStatus(y, m) EXCEPT !.leg = "INCALL"]
    BY <1>1, <1>t DEF StatusInSetUp
  <2> HIDE DEF y, n
  <2>1. ControlStatus(y, m) = k
    BY <1>0, <1>1, <2>y DEF ControlStatus, SetUp
  <2>2. t = [a EXCEPT !.leg = "INCALL"]
    BY <1>1, <2>t, <2>1 DEF ReceivedStatus, AckStatus
  <2>3. k \in Step /\ k.out = {} /\ k.cseq = n /\ k.request = s.request /\ k.role = s.role
    <3>1. "IN_CALL" \in ControlStates
      BY <1>c
    <3>2. k \in Step /\ k.out = y.out /\ k.cseq = y.cseq /\ k.request = y.request /\ k.role = y.role
      BY <2>y, <3>1 DEF Step
    <3> QED BY <2>y, <3>2
  <2> HIDE DEF k
  <2>4. /\ a \in Step /\ a.cseq = n /\ a.request = s.request /\ a.role = s.role
        /\ a.out = {[method |-> "ACK", code |-> 0, cseq |-> m.cseq]}
    <3>1. "ACK" \in Method /\ 0 \in Codes /\ m.cseq \in Nat
      BY <1>c
    <3>2. /\ a \in Step /\ Core(k, a)
          /\ a.out = k.out \cup {[method |-> "ACK", code |-> 0, cseq |-> m.cseq]}
      BY <2>3, <3>1, SendFields
    <3> HIDE DEF a
    <3> QED BY <2>3, <3>2 DEF Core
  <2> HIDE DEF a, t
  <2>5. t.leg = "INCALL" /\ t.cseq = n /\ t.request = s.request /\ t.out = a.out /\ t.role = a.role
    BY <2>2, <2>4 DEF Step
  <2>6. \A o \in t.out : o.cseq = m.cseq
    BY <2>4, <2>5
  <2> QED BY <1>1, <2>4, <2>5, <2>6 DEF t, n
<1>2. CASE m.code = 302 /\ s.leg # "RINGING"
  <2> DEFINE r == [s EXCEPT !.leg = "REDIRECT"]
             q == Send(r, "INVITE", 0, r.cseq + 1)
             v == [q EXCEPT !.cseq = r.cseq + 1, !.request = r.cseq + 1]
  <2>1. r \in Step /\ r.leg = "REDIRECT" /\ r.ctl = "TRYING" /\ r.out = {} /\ r.cseq = s.cseq /\ s.cseq + 1 \in Nat
    BY <1>0, <1>2, <1>c DEF Step
  <2>2. AckStatus(s, m) = s
    BY <1>2 DEF AckStatus
  <2>3. t = InviteAgain(r)
    <3>1. CASE s.leg = "C_TRYING"
      BY <1>2, <1>t, <2>1, <2>2, <3>1 DEF StatusInSetUp, ReceivedStatus, ControlStatus
    <3>2. CASE s.leg = "REDIRECT"
      <4>1. s = r
        BY <3>2 DEF Step
      <4>2. t = InviteAgain(s)
        BY <1>0, <1>2, <1>t, <2>2, <3>2 DEF StatusInSetUp, ReceivedStatus, ControlStatus
      <4> QED BY <4>1, <4>2
    <3> QED BY <1>2, <3>1, <3>2
  <2> HIDE DEF r
  <2>4. t = v
    BY <2>3 DEF InviteAgain
  <2>5. /\ q \in Step /\ q.leg = "REDIRECT"
        /\ q.out = {[method |-> "INVITE", code |-> 0, cseq |-> s.cseq + 1]}
    <3>1. "INVITE" \in Method /\ 0 \in Codes /\ r.cseq + 1 \in Nat
      BY <1>c, <2>1
    <3>2. /\ q \in Step /\ q.leg = r.leg
          /\ q.out = r.out \cup {[method |-> "INVITE", code |-> 0, cseq |-> r.cseq + 1]}
      BY <2>1, <3>1, SendFields
    <3> HIDE DEF q
    <3> QED BY <2>1, <3>2
  <2> HIDE DEF q, t
  <2>6. v.leg = "REDIRECT" /\ v.cseq = s.cseq + 1 /\ v.request = s.cseq + 1 /\ v.out = q.out
    <3> DEFINE n == r.cseq + 1
    <3>1. n = s.cseq + 1 /\ n \in Nat
      BY <2>1
    <3>2. v = [q EXCEPT !.cseq = n, !.request = n]
      OBVIOUS
    <3> HIDE DEF n, v
    <3>3. v.leg = q.leg /\ v.cseq = n /\ v.request = n /\ v.out = q.out
      BY <2>5, <3>1, <3>2 DEF Step
    <3> QED BY <2>5, <3>1, <3>3
  <2> HIDE DEF v
  <2>7. \A o \in t.out : o.cseq = s.cseq + 1
    BY <2>4, <2>5, <2>6
  <2> QED BY <1>2, <2>4, <2>6, <2>7 DEF t
<1>3. CASE m.code = 401 /\ s.leg # "RINGING"
  <2> DEFINE n == s.request + 1
             q == IF s.leg = "C_TRYING" THEN Send(s, "INVITE", 0, n) ELSE s
             v == [q EXCEPT !.request = n]
  <2>1. AckStatus(s, m) = s
    BY <1>3 DEF AckStatus
  <2>2. t = DoAuthentication(s)
    BY <1>0, <1>3, <1>t, <2>1 DEF StatusInSetUp, ReceivedStatus, ControlStatus
  <2>3. t = v
    BY <2>2 DEF DoAuthentication
  <2>4. n \in Nat
    BY DEF Step
  <2> HIDE DEF n
  <2>5. /\ q \in Step /\ q.leg = s.leg /\ q.cseq = s.cseq
        /\ q.out \subseteq {[method |-> "INVITE", code |-> 0, cseq |-> n]}
    BY <1>c, <2>4, SendFields DEF Core
  <2> HIDE DEF q, t
  <2>6. v.leg = s.leg /\ v.cseq = s.cseq /\ v.request = n /\ v.out = q.out
    BY <2>4, <2>5 DEF Step
  <2> HIDE DEF v
  <2>7. \A o \in t.out : o.cseq = n
    BY <2>3, <2>5, <2>6
  <2> QED BY <1>3, <2>3, <2>6, <2>7 DEF t, n
<1>4. CASE m.code > 200 /\ ~(m.code \in {302, 401} /\ s.leg # "RINGING")
  <2> DEFINE r == IF m.code = 408 THEN s ELSE AckStatus(s, m)
  <2>1. t = ControlStatus(r, m)
    BY <1>4, <1>c, <1>t DEF StatusInSetUp, ReceivedStatus
  <2>2. r \in Step /\ Like(s, r)
    BY AckStatusFields DEF Like
  <2> HIDE DEF r
  <2>3. r.active /\ r.ctl = s.ctl
    BY <2>2 DEF Like
  <2>4. t = DoCancel(r)
    <3>1. CASE m.code \in {302, 401}
      BY <1>0, <1>4, <2>1, <2>3, <3>1 DEF ControlStatus
    <3>2. CASE m.code \notin {302, 401}
      BY <1>0, <1>4, <1>c, <2>1, <2>3, <3>2 DEF ControlStatus, SetUp
    <3> QED BY <3>1, <3>2
  <2> QED BY <1>t, <2>2, <2>3, <2>4, FailedGone
<1>5. CASE m.code = 180 /\ s.leg # "RINGING"
  <2> DEFINE r == [s EXCEPT !.leg = "RINGING"]
  <2>1. r \in Step /\ r.leg = "RINGING" /\ r.ctl = s.ctl /\ r.out = {} /\ r.cseq = s.cseq /\ r.request = s.request
    BY <1>c DEF Step
  <2>2. t = [r EXCEPT !.ctl = "UAC_RINGING"]
    BY <1>0, <1>5, <1>t, <2>1 DEF StatusInSetUp, ReceivedStatus, ControlStatus
  <2> HIDE DEF r, t
  <2>3. t.leg = "RINGING" /\ t.out = {} /\ t.cseq = s.cseq /\ t.request = s.request
    BY <2>1, <2>2 DEF Step
  <2> QED BY <1>5, <2>3 DEF t
<1>6. CASE m.code < 200 /\ ~(m.code = 180 /\ s.leg # "RINGING")
  <2>1. t = s
    BY <1>6, <1>c, <1>t DEF StatusInSetUp
  <2> QED BY <1>6, <2>1
<1> QED BY <1>c, <1>1, <1>2, <1>3, <1>4, <1>5, <1>6

(***************************************************************************)
(* The actions.                                                            *)
(***************************************************************************)

\* What is known of the numbers of a regular call before a step about it.
LEMMA NumbersBefore ==
    ASSUME JInv, NumInv, NEW c \in Call, Grows(c), Regular(c)'
    PROVE  /\ Regular(c) /\ CallerStack(c)
           /\ c \notin placed => stack[Callee[c]][c].seq = 0
           /\ c \notin quit => Calm(c) /\ CalmNumbers(c)
           /\ c \in joined => Joined(c) /\ JoinedNumbers(c)
BY Before DEF NumInv, Numbers

\* A step of the network about call c: a message is gone, or answered with r.
LEMMA NetNumbers ==
    ASSUME JInv, JInv', NumInv, NEW c \in Call, Stepped(c), StackStep(c), SeqStep(c),
           UNCHANGED <<agent, quit>>, NEW r,
           \A k \in net' : k.call = c =>
               \/ k \in net
               \/ /\ k = r /\ r.from = Callee[c]
                  /\ Regular(c) /\ c \notin quit /\ CallerAgent(c) # NoAgent /\ IsPending(r, c) =>
                        r.cseq = CallerAgent(c).request /\ (r.code \in {302, 401} => r.cseq = 1)
    PROVE  NumInv'
<1>1. SUFFICES ASSUME Regular(c)'
               PROVE  (c \notin quit' => CalmNumbers(c)') /\ (c \in joined => JoinedNumbers(c)')
  BY NumbersInv DEF GoodNumbers
<1>2. /\ Regular(c)
      /\ c \notin quit => Calm(c) /\ CalmNumbers(c)
      /\ c \in joined => Joined(c) /\ JoinedNumbers(c)
      /\ c \in behind => c \in behind'
  BY <1>1, NumbersBefore DEF Stepped, About
<1>3. CallerAgent(c)' = CallerAgent(c) /\ CalleeAgent(c)' = CalleeAgent(c) /\ Caller[c] # Callee[c]
  BY UaRolesAssumption DEF CallerAgent, CalleeAgent
<1>4. ASSUME c \notin quit  PROVE CalmNumbers(c)'
  <2>1. Calm(c) /\ CalmNumbers(c)
    BY <1>2, <1>4
  <2>2. \/ CallerAgent(c)' = NoAgent
        \/ /\ CallerAgent(c) # NoAgent
           /\ CallerAgent(c)'.cseq = CallerAgent(c).cseq
           /\ CallerAgent(c)'.request = CallerAgent(c).request
           /\ CallerAgent(c)'.leg = "REDIRECT" => CallerAgent(c).leg = "REDIRECT"
           /\ IsUp(CallerAgent(c)') <=> IsUp(CallerAgent(c))
           /\ ~IsUp(CallerAgent(c)) /\ CalleeAgent(c)' # NoAgent =>
                 CalleeAgent(c)'.request = CallerAgent(c).request
    BY <1>3, <2>1 DEF CalmNumbers
  <2>3. \A k \in net' : k.call = c =>
            \/ k \in net
            \/ /\ k.from = Callee[c]
               /\ IsPending(k, c) /\ CallerAgent(c) # NoAgent =>
                     k.cseq = CallerAgent(c).request /\ (k.code \in {302, 401} => k.cseq = 1)
    BY <1>2, <1>4
  <2> QED BY <1>2, <2>1, <2>2, <2>3, CalmKept
<1>5. ASSUME c \in joined  PROVE JoinedNumbers(c)'
  <2>1. Joined(c) /\ JoinedNumbers(c)
    BY <1>2, <1>5
  <2>2. \A k \in net' : k.call = c /\ k.from = Caller[c] /\ k.code = 0 => k \in net
    BY <1>3
  <2> QED BY <1>2, <1>3, <2>1, <2>2, JoinedKept
<1> QED BY <1>4, <1>5

LEMMA NotRegularNumbers ==
    ASSUME JInv, JInv', NumInv, NEW c \in Call, Stepped(c), UNCHANGED stack, ~Regular(c)'
    PROVE  NumInv'
<1>1. StackStep(c)
  BY StackUnchanged DEF Stepped
<1> QED BY <1>1, NumbersInv DEF GoodNumbers

LEMMA LoseNumbers ==
    ASSUME JInv, NumInv, IInv', NEW m \in net, Lose(m)
    PROVE  JInv' /\ NumInv'
<1>1. JInv' /\ Stepped(m.call) /\ m.call \in Call
  BY LoseCalls, PeerFields DEF JInv
<1>2. net' = net \ {m} /\ UNCHANGED <<agent, quit, stack>>
  BY DEF Lose, userVars
<1>3. StackStep(m.call) /\ SeqStep(m.call)
  BY <1>1, <1>2, StackUnchanged DEF Stepped, SeqStep
<1>4. \A k \in net' : k \in net
  BY <1>2
<1> QED BY <1>1, <1>2, <1>3, <1>4, NetNumbers

LEMMA ProxyAnswersNumbers ==
    ASSUME JInv, NumInv, IInv', NEW m \in net, NEW code \in ProxyCode, ProxyAnswers(m, code)
    PROVE  JInv' /\ NumInv'
<1> DEFINE c == m.call
           r == Answer(m, code, Peer(c, m.from))
<1>1. JInv' /\ Stepped(c) /\ c \in Call /\ Peer(c, m.from) \in Ua /\ m \in Msg
  BY ProxyAnswersCalls, PeerFields DEF JInv
<1>2. /\ m.code = 0 /\ m.method = "INVITE" /\ m.cseq = 1 /\ m.from = Caller[c]
      /\ net' = (net \ {m}) \cup {r} /\ UNCHANGED <<agent, quit, stack>>
  BY DEF ProxyAnswers, userVars
<1>3. StackStep(c) /\ SeqStep(c)
  BY <1>1, <1>2, StackUnchanged DEF Stepped, SeqStep
<1>4. r.from = Callee[c] /\ r.cseq = m.cseq
  <2>1. code \in Codes
    BY UaBoundAssumption DEF Codes
  <2>2. r.from = Peer(c, m.from)
    BY <1>1, <2>1, AnswerFields
  <2> QED BY <1>1, <1>2, <2>2 DEF Answer, Peer, Msg
<1> HIDE DEF r
<1>5. Regular(c) /\ c \notin quit /\ CallerAgent(c) # NoAgent => m.cseq = CallerAgent(c).request
  <2>1. IsPending(m, c)
    BY <1>2 DEF IsPending
  <2> QED BY <1>1, <2>1 DEF NumInv, Numbers, CalmNumbers
<1>6. \A k \in net' : k \in net \/ k = r
  BY <1>2
<1> QED BY <1>1, <1>2, <1>3, <1>4, <1>5, <1>6, NetNumbers

LEMMA RefuseNumbers ==
    ASSUME JInv, NumInv, IInv', NEW m \in net, Refuse(stack[Peer(m.call, m.from)][m.call], m),
           stack' = [stack EXCEPT ![Peer(m.call, m.from)][m.call] = Recorded(@, m)], ByeInOrder(m.call)
    PROVE  JInv' /\ NumInv'
<1> DEFINE c == m.call
           u == Peer(c, m.from)
           d == stack[u][c]
<1>1. JInv' /\ Stepped(c)
  BY RefuseCalls
<1>2. net' = net \ {m} /\ UNCHANGED <<agent, quit>> /\ (Duplicate(d, m) \/ OutOfOrder(d, m))
  BY DEF Refuse, userVars
<1>3. StackStep(c)
  BY <1>1, DeliverStack DEF Stepped
<1>4. c \in Call /\ u \in Ua /\ Callee[c] \in Ua
  BY PeerFields, UaRolesAssumption DEF JInv
<1>5. Recorded(d, m).seq = d.seq
  <2>1. d.seq \in Nat /\ m.cseq \in Nat
    BY <1>4, OnNet DEF JInv, IInv, TypeOK, Container, Msg
  <2> HIDE DEF d
  <2> QED BY <1>2, <2>1 DEF Recorded, Counted, OutOfOrder
<1>6. stack'[Callee[c]][c].seq = stack[Callee[c]][c].seq
  <2> DEFINE e == Recorded(d, m)
  <2>1. stack \in [Ua -> [Call -> Container]]
    BY DEF JInv, IInv, TypeOK
  <2>2. stack' = [stack EXCEPT ![u][c] = e]
    OBVIOUS
  <2>3. e.seq = d.seq
    BY <1>5
  <2> HIDE DEF e, u, c
  <2>4. stack'[u][c] = e /\ (Callee[c] # u => stack'[Callee[c]][c] = stack[Callee[c]][c])
    BY <1>4, <2>1, <2>2
  <2> QED BY <2>3, <2>4
<1>7. SeqStep(c)
  BY <1>6 DEF SeqStep
<1>8. \A k \in net' : k \in net
  BY <1>2
<1> QED BY <1>1, <1>2, <1>3, <1>4, <1>7, <1>8, NetNumbers

LEMMA DeliverOutOfDialogNumbers ==
    ASSUME JInv, NumInv, IInv', NEW m \in net, DeliverOutOfDialog(Peer(m.call, m.from), m),
           stack' = [stack EXCEPT ![Peer(m.call, m.from)][m.call] = Recorded(@, m)]
    PROVE  JInv' /\ NumInv'
<1> DEFINE c == m.call
           u == Peer(c, m.from)
           r == Answer(m, 501, u)
<1>1. JInv' /\ Stepped(c)
  BY DeliverOutOfDialogCalls
<1>2. /\ net' = (net \ ({m} \cup SameFinal(m))) \cup (IF m.code = 0 /\ m.method = "CANCEL" THEN {r} ELSE {})
      /\ UNCHANGED <<agent, quit>> /\ agent[u][c] = NoAgent
  BY DEF DeliverOutOfDialog, userVars
<1>3. /\ c \in Call /\ u \in Ua /\ m \in Msg /\ MsgOK(m)
      /\ m.from = Caller[c] <=> u = Callee[c]
  BY PeerFields DEF JInv
<1>4. /\ StackStep(c)
      /\ \/ stack'[Callee[c]][c].seq = stack[Callee[c]][c].seq
         \/ m.from = Caller[c] /\ m.code = 0 /\ stack'[Callee[c]][c].seq = m.cseq
  BY <1>1, DeliverStack DEF Stepped
<1>5. SeqStep(c)
  BY <1>2, <1>3, <1>4 DEF SeqStep, CalleeAgent
<1>6. r.from = u /\ r.method = m.method
  <2>1. 501 \in Codes
    BY DEF Codes
  <2> QED BY <1>3, <2>1, AnswerFields
<1>7. m.code = 0 /\ m.method = "CANCEL" => r.from = Callee[c] /\ ~IsPending(r, c)
  BY <1>3, <1>6 DEF MsgOK, IsPending
<1> HIDE DEF r
<1>8. \A k \in net' : k \in net \/ (k = r /\ r.from = Callee[c] /\ ~IsPending(r, c))
  BY <1>2, <1>7
<1> QED BY <1>1, <1>2, <1>3, <1>4, <1>5, <1>8, NetNumbers

LEMMA DeliverAbortsNumbers ==
    ASSUME JInv, NumInv, IInv', NEW m \in net, DeliverAborts(Peer(m.call, m.from), m),
           stack' = [stack EXCEPT ![Peer(m.call, m.from)][m.call] = Recorded(@, m)]
    PROVE  JInv' /\ NumInv'
<1>1. JInv' /\ Stepped(m.call) /\ (Regular(m.call)' => m.call \in quit \ joined) /\ m.call \in Call
  BY DeliverAbortsCalls, PeerFields DEF JInv
<1>2. StackStep(m.call)
  BY <1>1, DeliverStack DEF Stepped
<1>3. quit' = quit
  BY DEF DeliverAborts, userVars
<1> QED BY <1>1, <1>2, <1>3, NumbersInv DEF GoodNumbers

LEMMA BusyAbortsNumbers ==
    ASSUME JInv, NumInv, IInv', NEW u \in Ua, NEW c \in Call, BusyAborts(u, c)
    PROVE  JInv' /\ NumInv'
<1>1. JInv' /\ Stepped(c) /\ (Regular(c)' => c \notin joined)
  BY BusyAbortsCalls
<1>2. c \in quit' /\ UNCHANGED stack
  BY DEF BusyAborts
<1>3. StackStep(c)
  BY <1>1, <1>2, StackUnchanged DEF Stepped
<1> QED BY <1>1, <1>2, <1>3, NumbersInv DEF GoodNumbers

\* A user or a device of u hangs up.
LEMMA HungUpNumbers ==
    ASSUME JInv, JInv', NumInv, NEW c \in Call, Stepped(c), NEW u \in Ua, agent[u][c] # NoAgent, NEW t,
           Finished(Opened(u, c), t), Leaves(Opened(u, c), t), Handled(u, c, {}, t),
           quit' = quit \cup {c}, UNCHANGED stack
    PROVE  NumInv'
<1> DEFINE s == Opened(u, c)
           a == agent[u][c]
<1>0. IInv /\ TypeOK /\ Caller[c] \in Ua /\ Callee[c] \in Ua /\ Caller[c] # Callee[c]
      /\ u \in {Caller[c], Callee[c]} /\ c \in quit'
  BY UaRolesAssumption DEF JInv, IInv, AgentInv
<1>1. s.ctl = a.ctl /\ s.cseq = a.cseq
  BY <1>0, OpenedFields
<1>2. StackStep(c) /\ SeqStep(c) /\ (c \in behind => c \in behind')
  BY StackUnchanged DEF Stepped, SeqStep, About
<1>3. SUFFICES ASSUME Regular(c)', c \in joined  PROVE JoinedNumbers(c)'
  BY <1>0, <1>2, NumbersInv DEF GoodNumbers
<1>4. Joined(c) /\ JoinedNumbers(c) /\ a.ctl = "IN_CALL"
  <2>1. Joined(c) /\ JoinedNumbers(c)
    BY <1>3, NumbersBefore DEF Stepped
  <2> QED BY <1>0, <2>1 DEF Joined, CallerAgent, CalleeAgent
<1>5. Finished(s, t) /\ Leaves(s, t)
  OBVIOUS
<1> HIDE DEF s
<1>6. t \in Step /\ ~t.active /\ \A o \in t.out : o.method = "BYE" /\ o.cseq = a.cseq + 1
  BY <1>1, <1>4, <1>5 DEF Finished, Ended, Core, Leaves, SetUp
<1>7. View(u, c, {}, t)
  BY <1>0, <1>6, EventView
<1>8. /\ agent'[u][c] = NoAgent
      /\ \A v \in Ua, d \in Call : v # u \/ d # c => agent'[v][d] = agent[v][d]
      /\ \A k \in net' : k \in net \/ (k.method = "BYE" /\ k.cseq = a.cseq + 1 /\ k.from = u)
  BY <1>6, <1>7 DEF View, Sent
<1>9. CASE u = Caller[c]
  <2>1. CallerAgent(c) = a /\ CallerAgent(c)' = NoAgent /\ CalleeAgent(c)' = CalleeAgent(c)
    BY <1>0, <1>8, <1>9 DEF CallerAgent, CalleeAgent
  <2>2. \A k \in net' : k \in net \/ (k.method = "BYE" /\ CallerAgent(c) # NoAgent /\ k.cseq = CallerAgent(c).cseq + 1)
    BY <1>8, <2>1
  <2> QED BY <1>2, <1>4, <2>1, <2>2, JoinedKept
<1>10. CASE u = Callee[c]
  <2>1. CallerAgent(c)' = CallerAgent(c) /\ CalleeAgent(c)' = NoAgent
    BY <1>0, <1>8, <1>10 DEF CallerAgent, CalleeAgent
  <2>2. \A k \in net' : k.from = Caller[c] => k \in net
    BY <1>0, <1>8, <1>10
  <2> QED BY <1>2, <1>4, <2>1, <2>2, JoinedKept
<1> QED BY <1>0, <1>9, <1>10

LEMMA StopNumbers ==
    ASSUME JInv, NumInv, IInv', NEW u \in Ua, NEW c \in Call, Stop(u, c) \/ Purge(u, c)
    PROVE  JInv' /\ NumInv'
<1> DEFINE s == Opened(u, c)
<1>1. JInv' /\ Stepped(c)
  BY StopCalls, PurgeCalls
<1>2. PICK t \in {StopCall(s), PurgeCall(s)} :
          /\ agent[u][c] # NoAgent /\ Handled(u, c, {}, t) /\ quit' = quit \cup {c} /\ UNCHANGED stack
  BY DEF Stop, Purge, ActiveCall
<1>3. s \in Step /\ s.active /\ s.out = {} /\ AgentOK(s)
  BY <1>2, OpenedFields DEF JInv
<1> HIDE DEF s
<1>4. Finished(s, t) /\ Leaves(s, t)
  BY <1>3, StopCallFields, PurgeCallFields, StopCallLeaves
<1>5. Finished(Opened(u, c), t) /\ Leaves(Opened(u, c), t)
  BY <1>4 DEF s
<1> QED BY <1>1, <1>2, <1>5, HungUpNumbers

LEMMA DeviceStopNumbers ==
    ASSUME JInv, NumInv, IInv', NEW u \in Ua, NEW n \in Number, DeviceStop(u, n)
    PROVE  JInv' /\ NumInv'
<1> DEFINE c == callMap[u][n]
           s == Opened(u, c)
           t == DoBye(s)
<1>1. c \in Call /\ agent[u][c] # NoAgent /\ JInv' /\ Stepped(c)
  BY DeviceStopCalls DEF JInv, IInv, TypeOK, DeviceStop, IsUp
<1>2. Handled(u, c, {}, t) /\ quit' = quit \cup {c} /\ UNCHANGED stack
  BY DEF DeviceStop
<1>3. s \in Step /\ s.active /\ s.out = {}
  BY <1>1, OpenedFields DEF JInv
<1> HIDE DEF s, c
<1>4. Finished(s, t) /\ Leaves(s, t)
  BY <1>3, DoByeFields, DoByeLeaves
<1> HIDE DEF t
<1>5. Finished(Opened(u, c), t) /\ Leaves(Opened(u, c), t)
  BY <1>4 DEF s
<1> QED BY <1>1, <1>2, <1>5, HungUpNumbers

LEMMA ClosedNumbers ==
    ASSUME NEW t
    PROVE  /\ Closed(t).cseq = t.cseq /\ Closed(t).request = t.request
           /\ Closed(t).leg = t.leg /\ Closed(t).ctl = t.ctl
BY DEF Closed

LEMMA InitiateInviteNumbers ==
    ASSUME JInv, NumInv, IInv', NEW c \in Call, InitiateInvite(c)
    PROVE  JInv' /\ NumInv'
<1> DEFINE u == Caller[c]
           x == sessions[u][c] + 1
           o == [method |-> "INVITE", code |-> 0, cseq |-> 1]
           s == [role |-> "client", id |-> 0, leg |-> "C_TRYING", ctl |-> "TRYING", acked |-> FALSE,
                 own |-> TRUE, freed |-> FALSE, cseq |-> 1, request |-> 1,
                 open |-> x, active |-> TRUE, out |-> {o}]
           p == CallerAgent(c)'
<1>1. JInv' /\ Stepped(c)
  BY InitiateInviteCalls
<1>2. c \notin placed /\ Handled(u, c, {}, s) /\ UNCHANGED <<quit, stack>>
  BY DEF InitiateInvite
<1>3. StackStep(c) /\ Grows(c)
  BY <1>1, <1>2, StackUnchanged DEF Stepped
<1>4. u \in Ua /\ Callee[c] \in Ua /\ Caller[c] # Callee[c] /\ agent \in [Ua -> [Call -> Agent \cup {NoAgent}]]
  BY UaRolesAssumption DEF JInv, IInv, TypeOK
<1>5. /\ s.active /\ s.out = {o} /\ o.cseq = 1 /\ o.code = 0
      /\ s.cseq = 1 /\ s.request = 1 /\ s.leg = "C_TRYING" /\ s.ctl = "TRYING"
  OBVIOUS
<1> HIDE DEF s, o
<1>6. agent' = [agent EXCEPT ![u][c] = Closed(s)] /\ net' = net \cup {Sent(u, c, o)}
  <2>1. /\ agent' = [agent EXCEPT ![u][c] = IF s.active THEN Closed(s) ELSE NoAgent]
        /\ net' = (net \ {}) \cup {Sent(u, c, e) : e \in s.out}
    BY <1>2 DEF Handled
  <2>2. {Sent(u, c, e) : e \in s.out} = {Sent(u, c, o)}
    BY <1>5
  <2>3. net \ {} = net
    OBVIOUS
  <2> QED BY <1>5, <2>1, <2>2, <2>3
<1>7. p = Closed(s) /\ CalleeAgent(c)' = CalleeAgent(c)
  <2> DEFINE b == Closed(s)
  <2>1. agent' = [agent EXCEPT ![u][c] = b]
    BY <1>6
  <2> HIDE DEF b, u
  <2>2. agent'[u][c] = b /\ agent'[Callee[c]][c] = agent[Callee[c]][c]
    BY <1>4, <2>1 DEF u
  <2> QED BY <2>2 DEF CallerAgent, CalleeAgent, b, u
<1>8. p.cseq = 1 /\ p.request = 1 /\ p.leg = "C_TRYING" /\ p.ctl = "TRYING"
  BY <1>5, <1>7, ClosedNumbers
<1>9. CalleeAgent(c) = NoAgent /\ \A k \in net : k.call # c
  BY <1>2, <1>4, OnNet DEF JInv, IInv, AgentInv, CalleeAgent, MsgOK
<1>10. Sent(u, c, o).cseq = 1 /\ Sent(u, c, o).code = 0
  BY <1>5 DEF Sent
<1>11. \A k \in net' : k.call = c => k.cseq = 1 /\ k.code = 0
  BY <1>6, <1>9, <1>10
<1> HIDE DEF p
<1>12. Regular(c)' => stack'[Callee[c]][c].seq = 0 /\ c \notin joined
  BY <1>2, <1>3, NumbersBefore, Before
<1>13. Regular(c)' => BelowNext(c, p.request + 1)
  BY <1>8, <1>11, <1>12 DEF BelowNext
<1>14. ~IsUp(p)
  BY <1>8 DEF IsUp
<1>15. Regular(c)' => CalmNumbers(c)'
  <2>1. p = CallerAgent(c)'
    BY DEF p
  <2>2. \A k \in net' : IsPending(k, c) => k.cseq = p.request /\ (k.code \in {302, 401} => k.cseq = 1)
    BY <1>8, <1>11 DEF IsPending
  <2>3. p.cseq > 0 /\ CalleeAgent(c)' = NoAgent /\ p.leg # "REDIRECT"
    BY <1>7, <1>8, <1>9
  <2> QED BY <1>13, <1>14, <2>1, <2>2, <2>3 DEF CalmNumbers, BelowNext, Below, IsUp, IsPending
<1> QED BY <1>1, <1>3, <1>12, <1>15, NumbersInv DEF GoodNumbers

\* An event of call c at its callee, which answers the INVITE, or sends nothing.
LEMMA CalleeNumbers ==
    ASSUME JInv, JInv', NumInv, NEW c \in Call, Stepped(c), StackStep(c),
           Regular(c)' /\ (c \notin quit \/ c \in joined) => SeqStep(c), quit' = quit,
           NEW in \in SUBSET net, NEW t \in Step, Handled(Callee[c], c, in, t),
           Regular(c) /\ (c \notin quit \/ c \in joined) =>
               \A o \in t.out : o.method = "INVITE" /\ o.code \in {180, 200},
           Regular(c) /\ c \notin quit /\ CallerAgent(c) # NoAgent =>
               /\ ~IsUp(CallerAgent(c)) /\ t.active => t.request = CallerAgent(c).request
               /\ \A o \in t.out : o.cseq = CallerAgent(c).request,
           Regular(c) /\ c \in joined /\ t.active => CalleeAgent(c) # NoAgent
    PROVE  NumInv'
<1> DEFINE u == Callee[c]
           a == CallerAgent(c)
           q == CalleeAgent(c)'
<1>1. SUFFICES ASSUME Regular(c)'
               PROVE  (c \notin quit => CalmNumbers(c)') /\ (c \in joined => JoinedNumbers(c)')
  BY NumbersInv DEF GoodNumbers
<1>2. /\ Regular(c)
      /\ c \notin quit => Calm(c) /\ CalmNumbers(c)
      /\ c \in joined => Joined(c) /\ JoinedNumbers(c)
      /\ c \in behind => c \in behind'
  BY <1>1, NumbersBefore DEF Stepped, About
<1>3. u \in Ua /\ Caller[c] \in Ua /\ Caller[c] # Callee[c] /\ TypeOK
  BY UaRolesAssumption DEF JInv, IInv
<1>4. View(u, c, in, t)
  BY <1>3, EventView
<1>5. /\ q = IF t.active THEN Closed(t) ELSE NoAgent
      /\ CallerAgent(c)' = a
      /\ \A k \in net' : k \in net \/ \E o \in t.out : k = Sent(u, c, o)
  BY <1>3, <1>4 DEF View, CallerAgent, CalleeAgent
<1>6. q # NoAgent => t.active /\ q.request = t.request
  BY <1>5, ClosedNumbers
<1>7. c \notin quit \/ c \in joined =>
          \A k \in net' : \/ k \in net
                          \/ /\ k.from = Callee[c] /\ k.code \in {180, 200}
                             /\ c \notin quit /\ a # NoAgent => k.cseq = a.request
  BY <1>2, <1>5 DEF Sent
<1>8. ASSUME c \notin quit  PROVE CalmNumbers(c)'
  <2>1. Calm(c) /\ CalmNumbers(c) /\ SeqStep(c)
    BY <1>1, <1>2, <1>8
  <2>2. \/ CallerAgent(c)' = NoAgent
        \/ /\ CallerAgent(c) # NoAgent
           /\ CallerAgent(c)'.cseq = CallerAgent(c).cseq
           /\ CallerAgent(c)'.request = CallerAgent(c).request
           /\ CallerAgent(c)'.leg = "REDIRECT" => CallerAgent(c).leg = "REDIRECT"
           /\ IsUp(CallerAgent(c)') <=> IsUp(CallerAgent(c))
           /\ ~IsUp(CallerAgent(c)) /\ CalleeAgent(c)' # NoAgent =>
                 CalleeAgent(c)'.request = CallerAgent(c).request
    BY <1>2, <1>5, <1>6, <1>8
  <2>3. \A k \in net' : k.call = c =>
            \/ k \in net
            \/ /\ k.from = Callee[c]
               /\ IsPending(k, c) /\ CallerAgent(c) # NoAgent =>
                     k.cseq = CallerAgent(c).request /\ (k.code \in {302, 401} => k.cseq = 1)
    BY <1>7, <1>8
  <2> QED BY <1>2, <2>1, <2>2, <2>3, CalmKept
<1>9. ASSUME c \in joined  PROVE JoinedNumbers(c)'
  <2>1. Joined(c) /\ JoinedNumbers(c) /\ SeqStep(c)
    BY <1>1, <1>2, <1>9
  <2>2. \A k \in net' : k.call = c /\ k.from = Caller[c] /\ k.code = 0 => k \in net
    BY <1>3, <1>7, <1>9
  <2>3. CalleeAgent(c)' # NoAgent => CalleeAgent(c) # NoAgent
    BY <1>2, <1>6, <1>9
  <2> QED BY <1>2, <1>5, <2>1, <2>2, <2>3, JoinedKept
<1> QED BY <1>8, <1>9
LEMMA AcceptCallRequest ==
    ASSUME NEW s \in Step
    PROVE  AcceptCall(s).request = s.request
<1> DEFINE p == [s EXCEPT !.open = s.open + 1]
           q == Send(p, "INVITE", 200, s.request)
<1>1. AcceptCall(s) = IF s.leg = "RINGING" THEN [q EXCEPT !.own = TRUE, !.ctl = "IN_CALL", !.leg = "INCALL"] ELSE p
  BY DEF AcceptCall
<1>2. p \in Step /\ p.request = s.request /\ s.request \in Nat /\ "INVITE" \in Method /\ 200 \in Codes
  BY DEF Step, Method, Codes
<1> HIDE DEF p
<1>3. q \in Step /\ q.request = s.request
  BY <1>2, SendFields DEF Core
<1> HIDE DEF q
<1>4. [q EXCEPT !.own = TRUE, !.ctl = "IN_CALL", !.leg = "INCALL"].request = q.request
  BY <1>3 DEF Step
<1> QED BY <1>1, <1>2, <1>3, <1>4

LEMMA AcceptNumbers ==
    ASSUME JInv, NumInv, IInv', NEW u \in Ua, NEW c \in Call, Accept(u, c)
    PROVE  JInv' /\ NumInv'
<1> DEFINE s == Opened(u, c)
           t == AcceptCall(s)
           b == agent[u][c]
           a == CallerAgent(c)
<1>1. JInv' /\ Stepped(c)
  BY AcceptCalls
<1>2. b # NoAgent /\ b.role = "server" /\ Handled(u, c, {}, t) /\ UNCHANGED <<quit, stack>>
  BY DEF Accept, ActiveCall
<1>3. StackStep(c) /\ SeqStep(c)
  BY <1>1, <1>2, StackUnchanged DEF Stepped, SeqStep
<1>4. CASE ~Regular(c)
  BY <1>1, <1>2, <1>4, GrowsRegular, NotRegularNumbers DEF Stepped
<1>5. CASE Regular(c)
  <2>1. u = Callee[c] /\ b.role = "server" /\ AgentOK(b)
    BY <1>2, <1>5, RegularRoles
  <2>2. /\ s \in Step /\ s.active /\ s.out = {} /\ AgentOK(s)
        /\ s.role = b.role /\ s.leg = b.leg /\ s.ctl = b.ctl /\ s.request = b.request
    BY <1>2, OpenedFields DEF JInv
  <2> HIDE DEF s
  <2>3. ServerOK(s)
    BY <2>1, <2>2 DEF AgentOK
  <2>4. t \in Step /\ t.request = b.request
    BY <2>1, <2>2, <2>3, AcceptCallFields, AcceptCallRequest
  <2>5. \A o \in t.out : /\ s.leg = "RINGING"
                         /\ o = [method |-> "INVITE", code |-> 200, cseq |-> b.request]
    BY <2>2, AcceptCallOut
  <2> HIDE DEF t
  <2>6. s.leg = "RINGING" => ~IsUp(b)
    BY <2>2, <2>3 DEF ServerOK, IsUp, Up
  <2>7. ASSUME c \notin quit, a # NoAgent
        PROVE  /\ ~IsUp(a) => b.request = a.request
               /\ IsUp(a) => IsUp(b)
    <3>1. Calm(c) /\ CalmNumbers(c) /\ CalleeAgent(c) = b
      BY <1>5, <2>1, <2>7 DEF JInv, CallInv, NumInv, Numbers, CalleeAgent
    <3> QED BY <1>2, <2>7, <3>1 DEF Calm, CalmNumbers
  <2>8. {} \in SUBSET net /\ CalleeAgent(c) # NoAgent
    BY <1>2, <2>1 DEF CalleeAgent
  <2>9. \A o \in t.out : o.method = "INVITE" /\ o.code \in {180, 200} /\ o.cseq = b.request
    BY <2>5
  <2>10. c \notin quit /\ a # NoAgent =>
            /\ ~IsUp(a) /\ t.active => t.request = a.request
            /\ \A o \in t.out : o.cseq = a.request
    BY <2>4, <2>5, <2>6, <2>7, <2>9
  <2> QED BY <1>1, <1>2, <1>3, <2>1, <2>4, <2>8, <2>9, <2>10, CalleeNumbers
<1> QED BY <1>4, <1>5

LEMMA IncomingNumbers ==
    ASSUME JInv, NEW u \in Ua, NEW c \in Call, agent[u][c] = NoAgent, NEW m \in Msg
    PROVE  LET t == Incoming(u, c, m)
           IN  /\ t \in Step /\ t.request = m.cseq
               /\ \A o \in t.out : o.method = "INVITE" /\ o.code \in {180, 200} /\ o.cseq = m.cseq
<1> DEFINE n == Cardinality({i \in Number : callMap[u][i] # NoCall})
           e == sessions[u][c]
           x == m.cseq
           o == [method |-> "INVITE", code |-> 180, cseq |-> x]
           y == [method |-> "INVITE", code |-> 200, cseq |-> x]
           s == [role |-> "server", id |-> n,
                 leg |-> "RINGING", ctl |-> "UAS_RINGING", acked |-> FALSE, own |-> FALSE,
                 freed |-> FALSE, cseq |-> x, request |-> x, open |-> e,
                 active |-> TRUE, out |-> {o}]
           t == Incoming(u, c, m)
<1>1. t = IF u \in ServerUa THEN AcceptCall(s) ELSE s
  BY DEF Incoming
<1>2. e \in Int /\ n \in Number /\ x \in Nat
  <2>1. IInv /\ TypeOK
    BY DEF JInv, IInv
  <2> QED BY <2>1, NumberFree DEF TypeOK, Msg
<1> HIDE DEF n, e, x
<1>3. /\ s.role = "server" /\ s.leg = "RINGING" /\ s.ctl = "UAS_RINGING" /\ ~s.own /\ ~s.freed /\ s.active
      /\ s.out = {o} /\ s.request = x
      /\ o.method = "INVITE" /\ o.code = 180 /\ o.cseq = x
      /\ y.method = "INVITE" /\ y.code = 200 /\ y.cseq = x
  OBVIOUS
<1>4. s \in Step
  <2>1. s.out \in SUBSET Out
    BY <1>2 DEF Out, Method, Codes
  <2> QED BY <1>2, <2>1 DEF Step, LegState, ControlStates
<1> HIDE DEF s, o, t
<1>5. ServerOK(s)
  BY <1>3 DEF ServerOK, Up
<1>6. LET w == AcceptCall(s) IN w \in Step /\ w.request = x /\ w.out = {o, y}
  <2> DEFINE w == AcceptCall(s)
  <2>1. w \in Step /\ w.request = x
    BY <1>3, <1>4, <1>5, AcceptCallFields, AcceptCallRequest
  <2>2. w.out = s.out \cup {y}
    BY <1>3, <1>4, AcceptCallOut
  <2> HIDE DEF w
  <2>3. w.out = {o, y}
    BY <1>3, <2>2
  <2> QED BY <2>1, <2>3 DEF w
<1> HIDE DEF y
<1>7. t \in Step /\ t.request = x /\ t.out \subseteq {o, y}
  BY <1>1, <1>3, <1>4, <1>6
<1> QED BY <1>3, <1>7 DEF t, x

LEMMA DeliverInviteNumbers ==
    ASSUME JInv, NumInv, IInv', NEW m \in net, DeliverInvite(Peer(m.call, m.from), m),
           stack' = [stack EXCEPT ![Peer(m.call, m.from)][m.call] = Recorded(@, m)]
    PROVE  JInv' /\ NumInv'
<1> DEFINE c == m.call
           u == Peer(c, m.from)
           a == CallerAgent(c)
<1>1. JInv' /\ Stepped(c)
  BY DeliverInviteCalls
<1>2. /\ agent[u][c] = NoAgent /\ m.code = 0 /\ m.method = "INVITE" /\ quit' = quit
      /\ \/ net' = (net \ {m}) \cup {Answer(m, 486, u)} /\ UNCHANGED agent
         \/ Handled(u, c, {m}, Incoming(u, c, m))
  BY DEF DeliverInvite
<1>3. /\ m \in Msg /\ c \in Call /\ u \in Ua /\ Caller[c] # Callee[c] /\ m.cseq \in Nat
      /\ m.from = Caller[c] <=> u = Callee[c]
      /\ IInv /\ TypeOK
  BY PeerFields, UaRolesAssumption DEF JInv, IInv, Msg
<1>4. /\ StackStep(c)
      /\ \/ stack'[Callee[c]][c].seq = stack[Callee[c]][c].seq
         \/ m.from = Caller[c] /\ m.code = 0 /\ stack'[Callee[c]][c].seq = m.cseq
  BY <1>1, DeliverStack DEF Stepped
<1>5. SeqStep(c)
  BY <1>2, <1>4 DEF SeqStep
<1>6. IsPending(m, c)
  BY <1>2 DEF IsPending
<1>7. CASE ~Regular(c)
  BY <1>1, <1>3, <1>4, <1>7, GrowsRegular, NumbersInv DEF Stepped, GoodNumbers
<1>8. CASE Regular(c)
  <2>1. u = Callee[c] /\ m.from = Caller[c]
    BY <1>2, <1>3, <1>8 DEF IInv, PlainInv, Regular
  <2>2. /\ c \notin quit /\ a # NoAgent => m.cseq = a.request
        /\ c \notin joined
    BY <1>3, <1>6, <1>8 DEF JInv, CallInv, Joined, NumInv, Numbers, CalmNumbers
  <2>3. CASE net' = (net \ {m}) \cup {Answer(m, 486, u)} /\ UNCHANGED agent
    <3> DEFINE r == Answer(m, 486, u)
    <3>1. 486 \in Codes
      BY DEF Codes
    <3>2. r.code = 486 /\ r.from = u
      BY <1>3, <3>1, AnswerFields
    <3>3. r.cseq = m.cseq
      BY <1>3 DEF Answer, Msg
    <3> HIDE DEF r
    <3>4. \A k \in net' : k \in net \/ k = r
      BY <2>3 DEF r
    <3> HIDE DEF u, c
    <3> QED BY <1>1, <1>2, <1>3, <1>4, <1>5, <2>1, <2>2, <2>3, <3>2, <3>3, <3>4, NetNumbers
  <2>4. CASE Handled(u, c, {m}, Incoming(u, c, m))
    <3> DEFINE t == Incoming(u, c, m)
    <3>1. /\ t \in Step /\ t.request = m.cseq
          /\ \A o \in t.out : o.method = "INVITE" /\ o.code \in {180, 200} /\ o.cseq = m.cseq
      BY <1>2, <1>3, IncomingNumbers
    <3> HIDE DEF t
    <3>2. Handled(Callee[c], c, {m}, t) /\ {m} \in SUBSET net
      BY <2>1, <2>4 DEF t
    <3> HIDE DEF u, c
    <3> QED BY <1>1, <1>2, <1>3, <1>4, <1>5, <2>2, <3>1, <3>2, CalleeNumbers
  <2> QED BY <1>2, <2>3, <2>4
<1> QED BY <1>1, <1>7, <1>8

\* A message arrives at the agent of the callee.
LEMMA ToCalleeNumbers ==
    ASSUME JInv, JInv', NumInv, NEW c \in Call, Regular(c), Stepped(c), StackStep(c), NEW m \in net, m.call = c,
           Callee[c] = Peer(c, m.from), CalleeAgent(c) # NoAgent,
           NEW t, t = Received(Opened(Callee[c], c), m), Keeps(Opened(Callee[c], c), t),
           NEW in \in SUBSET net, Handled(Callee[c], c, in, t), quit' = quit,
           \/ stack'[Callee[c]][c].seq = stack[Callee[c]][c].seq
           \/ m.from = Caller[c] /\ m.code = 0 /\ stack'[Callee[c]][c].seq = m.cseq
    PROVE  NumInv'
<1> DEFINE u == Callee[c]
           s == Opened(u, c)
           a == CallerAgent(c)
           b == CalleeAgent(c)
<1>0. u \in Ua /\ b = agent[u][c] /\ TypeOK
  BY UaRolesAssumption DEF CalleeAgent, JInv, IInv
<1>1. /\ m \in Msg /\ m.code \in Nat /\ m.method \in Method /\ m.code = 0
      /\ s \in Step /\ s.active /\ s.out = {} /\ AgentOK(s) /\ ServerOK(s)
  <2>1. agent[u][c] # NoAgent /\ u = Peer(c, m.from)
    BY <1>0
  <2>2. /\ m \in Msg /\ m.code \in Nat /\ m.method \in Method /\ Caller[c] # Callee[c]
        /\ s \in Step /\ s.active /\ s.out = {} /\ AgentOK(s)
        /\ m.code > 0 => u = Caller[c]
        /\ ServerOK(s)
    BY <1>0, <2>1, RegularMessage
  <2> HIDE DEF s
  <2> QED BY <2>2
<1>2. s.leg = b.leg /\ s.ctl = b.ctl /\ s.request = b.request
  <2>1. IInv /\ agent[u][c] # NoAgent
    BY <1>0 DEF JInv
  <2>2. s.leg = agent[u][c].leg /\ s.ctl = agent[u][c].ctl /\ s.request = agent[u][c].request
    BY <1>0, <2>1, OpenedFields
  <2> QED BY <1>0, <2>2
<1>3. t = RecvRequest(s, m) /\ t \in Step
  BY <1>1 DEF Received, Keeps
<1>4. /\ c \notin quit => Calm(c) /\ CalmNumbers(c)
      /\ c \in joined => Joined(c)
  BY DEF JInv, CallInv, NumInv, Numbers
<1>5. m.method \in {"INVITE", "CANCEL"} => (m.method = "INVITE" => IsPending(m, c))
  BY <1>1 DEF IsPending
<1> HIDE DEF s
<1>6. /\ c \notin quit => m.method = "ACK" /\ s.leg # "FAILURE"
      /\ c \in joined => m.method \in {"ACK", "BYE"} /\ s.ctl = "IN_CALL" /\ s.leg # "FAILURE"
  <2>1. c \notin quit => m.method = "ACK" /\ s.leg # "FAILURE"
    BY <1>1, <1>2, <1>4, <1>5 DEF Calm
  <2>2. c \in joined => m.method \in {"ACK", "BYE"} /\ s.ctl = "IN_CALL"
    BY <1>1, <1>2, <1>4, <1>5 DEF Joined, Method
  <2>3. s.ctl = "IN_CALL" => s.leg # "FAILURE"
    BY <1>1 DEF ServerOK, Up
  <2> QED BY <2>1, <2>2, <2>3
<1>7. c \notin quit \/ c \in joined =>
          /\ t.out = {}
          /\ m.method = "ACK" => t.request = s.request
          /\ m.method = "BYE" => ~t.active
  <2>1. SUFFICES ASSUME c \notin quit \/ c \in joined
                 PROVE  /\ t.out = {}
                        /\ m.method = "ACK" => t.request = s.request
                        /\ m.method = "BYE" => ~t.active
    OBVIOUS
  <2>2. m.method \in {"ACK", "BYE"} /\ s.leg # "FAILURE" /\ (m.method = "BYE" => s.ctl \in Up)
    BY <1>6, <2>1 DEF Up
  <2> QED BY <1>1, <1>3, <2>2, AckByeFields
<1>8. View(u, c, in, t)
  BY <1>0, <1>3, EventView
<1>9. ~t.active => CalleeAgent(c)' = NoAgent
  BY <1>8 DEF View, CalleeAgent
<1>10. c \notin quit \/ c \in joined => SeqStep(c)
  <2>1. SUFFICES ASSUME c \notin quit \/ c \in joined  PROVE SeqStep(c)
    OBVIOUS
  <2>2. m.method = "BYE" => CalleeAgent(c)' = NoAgent
    BY <1>7, <1>9, <2>1
  <2> QED BY <2>2 DEF SeqStep
<1>11. c \notin quit /\ a # NoAgent =>
          /\ ~IsUp(a) /\ t.active => t.request = a.request
          /\ \A o \in t.out : o.cseq = a.request
  BY <1>2, <1>4, <1>6, <1>7 DEF CalmNumbers
<1>12. Regular(c) /\ (c \notin quit \/ c \in joined) =>
          \A o \in t.out : o.method = "INVITE" /\ o.code \in {180, 200}
  BY <1>7
<1> QED BY <1>3, <1>10, <1>11, <1>12, CalleeNumbers

\* The caller's agent is up, and a message arrives: it stays as it is, or ends.
LEMMA UpNumbers ==
    ASSUME JInv, NEW c \in Call, Regular(c), NEW m \in net, m.call = c,
           Caller[c] = Peer(c, m.from), CallerAgent(c) # NoAgent,
           NEW t, t = Received(Opened(Caller[c], c), m),
           m.method \in {"ACK", "BYE"} \/ (m.method = "INVITE" /\ m.code < 200),
           CallerAgent(c).ctl = "IN_CALL" \/ m.method = "ACK", CallerAgent(c).leg # "FAILURE"
    PROVE  /\ t.out = {}
           /\ m.method = "BYE" => ~t.active
           /\ m.method # "BYE" =>
                 /\ t.cseq = CallerAgent(c).cseq /\ t.request = CallerAgent(c).request
                 /\ t.leg = CallerAgent(c).leg /\ t.ctl = CallerAgent(c).ctl
<1> DEFINE u == Caller[c]
           s == Opened(u, c)
           a == CallerAgent(c)
<1>0. u \in Ua /\ a = agent[u][c]
  BY UaRolesAssumption DEF CallerAgent
<1>1. /\ m \in Msg /\ m.code \in Nat
      /\ s \in Step /\ s.active /\ s.out = {} /\ AgentOK(s) /\ s.role = "client"
      /\ m.code > 0 => m.method \in {"INVITE", "CANCEL"}
      /\ m.code = 0 /\ m.method = "INVITE" => u = Callee[c]
      /\ Caller[c] # Callee[c]
  <2>1. agent[u][c] # NoAgent /\ u = Peer(c, m.from)
    BY <1>0
  <2> QED BY <1>0, <2>1, RegularMessage
<1>2. s.leg = a.leg /\ s.ctl = a.ctl /\ s.request = a.request /\ s.cseq = a.cseq
  <2>1. IInv /\ agent[u][c] # NoAgent
    BY <1>0 DEF JInv
  <2>2. /\ s.leg = agent[u][c].leg /\ s.ctl = agent[u][c].ctl
        /\ s.request = agent[u][c].request /\ s.cseq = agent[u][c].cseq
    BY <1>0, <2>1, OpenedFields
  <2> QED BY <1>0, <2>2
<1>3. t = Received(s, m)
  OBVIOUS
<1> HIDE DEF s
<1>4. CASE m.method \in {"ACK", "BYE"}
  <2>1. t = RecvRequest(s, m) /\ m.code = 0
    BY <1>1, <1>3, <1>4 DEF Received
  <2>2. m.method = "BYE" => s.ctl \in Up
    BY <1>2 DEF Up
  <2> QED BY <1>1, <1>2, <1>4, <2>1, <2>2, AckByeFields
<1>5. CASE m.method = "INVITE" /\ m.code < 200
  <2>1. m.code > 0 /\ s.ctl \in Up /\ s.ctl = "IN_CALL"
    BY <1>1, <1>2, <1>5 DEF Up
  <2>2. t = RecvStatus(s, m)
    BY <1>3, <2>1 DEF Received
  <2>3. t = s
    BY <1>1, <1>5, <2>1, <2>2, UpStatusFields
  <2> QED BY <1>1, <1>2, <1>5, <2>3
<1> QED BY <1>4, <1>5

\* A response arrives at the caller's agent, which waits for it.
LEMMA SetUpCalm ==
    ASSUME JInv, NEW c \in Call, Regular(c), Calm(c), CalmNumbers(c), SeqStep(c), NEW m \in net, m.call = c,
           Caller[c] = Peer(c, m.from), CallerAgent(c) # NoAgent,
           NEW t, t = Received(Opened(Caller[c], c), m), Keeps(Opened(Caller[c], c), t),
           Delivered(Caller[c], c, m, t), m.code > 0, m.method = "INVITE",
           CallerAgent(c).leg \in {"C_TRYING", "REDIRECT", "RINGING"},
           ~IsUp(CallerAgent(c)) /\ t.active /\ IsUp(CallerAgent(c))' /\ t.role = "client" =>
               (t.cseq < t.request /\ CallerAgent(c).leg = "C_TRYING" => c \in behind')
    PROVE  CalmNumbers(c)'
<1> DEFINE u == Caller[c]
           s == Opened(u, c)
           a == CallerAgent(c)
           p == CallerAgent(c)'
<1>0. u \in Ua /\ a = agent[u][c] /\ agent[u][c] # NoAgent /\ u = Peer(c, m.from) /\ IInv /\ TypeOK
      /\ Callee[c] \in Ua /\ Caller[c] # Callee[c]
  BY UaRolesAssumption DEF CallerAgent, JInv, IInv
<1>1. /\ m \in Msg /\ m.code \in Nat
      /\ s \in Step /\ s.active /\ s.out = {} /\ AgentOK(s) /\ s.role = "client" /\ ClientOK(s)
  BY <1>0, RegularMessage
<1>2. s.leg = a.leg /\ s.ctl = a.ctl /\ s.request = a.request /\ s.cseq = a.cseq
  <2>1. IInv /\ agent[u][c] # NoAgent /\ u \in Ua
    BY <1>0
  <2>2. /\ s.leg = agent[u][c].leg /\ s.ctl = agent[u][c].ctl
        /\ s.request = agent[u][c].request /\ s.cseq = agent[u][c].cseq
    BY <2>1, OpenedFields
  <2> QED BY <1>0, <2>2
<1>3. t = RecvStatus(s, m) /\ t \in Step
  BY DEF Received, Keeps
<1> HIDE DEF s
<1>4. /\ p = IF t.active THEN Closed(t) ELSE NoAgent
      /\ CalleeAgent(c)' = CalleeAgent(c)
      /\ \A k \in net' : k.call = c => (k \in net /\ k # m) \/ \E o \in t.out : k = Sent(u, c, o)
      /\ behind \subseteq behind'
  BY <1>0 DEF Delivered, CallerAgent, CalleeAgent
<1>5. CASE ~t.active
  BY <1>4, <1>5 DEF CalmNumbers
<1>6. CASE t.active
  <2>1. /\ p # NoAgent /\ p.leg = t.leg /\ p.ctl = t.ctl /\ p.cseq = t.cseq /\ p.request = t.request
    BY <1>3, <1>4, <1>6, ClosedFields, ClosedNumbers
  <2> HIDE DEF p
  <2>2. /\ \A o \in t.out : \/ o.method = "ACK" /\ o.code = 0
                            \/ o.method = "INVITE" /\ o.code = 0 /\ m.code \in {302, 401}
        /\ m.code = 200 => t.ctl = "IN_CALL"
        /\ m.code # 200 => t.ctl \in SetUp
    BY <1>1, <1>2, <1>3, SetUpStatusFields
  <2>3. ~IsUp(a) /\ (m.code # 200 => ~IsUp(p)) /\ (m.code = 200 => IsUp(p))
    BY <1>1, <1>2, <2>1, <2>2 DEF IsUp, ClientOK, SetUp, Up
  <2>4. /\ a.cseq \in Nat /\ a.request \in Nat /\ stack[Callee[c]][c].seq \in Nat
        /\ \A k \in net : k.cseq \in Nat
        /\ t.request \in Nat /\ t.cseq \in Nat
    BY <1>0, <1>3, AgentNumbers DEF Step
  <2>5. /\ Below(c, a.request + 1) /\ a.cseq > 0
        /\ \A k \in net : IsPending(k, c) => k.cseq = a.request /\ (k.code \in {302, 401} => k.cseq = 1)
        /\ CalleeAgent(c) # NoAgent => CalleeAgent(c).request = a.request
        /\ a.leg = "REDIRECT" => a.cseq >= a.request /\ a.request > 1
    BY <2>3 DEF CalmNumbers
  <2>6. \/ /\ m.code < 200 /\ t.cseq = s.cseq /\ t.request = s.request /\ t.out = {}
           /\ t.leg \in {s.leg, "RINGING"}
        \/ /\ m.code = 200 /\ t.request = s.request /\ t.leg = "INCALL" /\ t.role = "client"
           /\ t.cseq = IF s.leg = "RINGING" THEN m.cseq ELSE s.cseq
           /\ \A o \in t.out : o.cseq = m.cseq
        \/ /\ m.code = 302 /\ t.leg = "REDIRECT" /\ s.leg # "RINGING"
           /\ t.cseq = s.cseq + 1 /\ t.request = s.cseq + 1
           /\ \A o \in t.out : o.cseq = s.cseq + 1
        \/ /\ m.code = 401 /\ t.leg = s.leg /\ s.leg # "RINGING"
           /\ t.cseq = s.cseq /\ t.request = s.request + 1
           /\ \A o \in t.out : o.cseq = s.request + 1
    BY <1>1, <1>2, <1>3, <1>6, SetUpNumbers
  <2>7. CASE m.code < 200
    <3>1. t.cseq = a.cseq /\ t.request = a.request /\ t.out = {} /\ t.leg \in {a.leg, "RINGING"}
      BY <1>2, <2>6, <2>7
    <3>2. /\ p.cseq = a.cseq /\ p.request = a.request
          /\ p.leg = "REDIRECT" => a.leg = "REDIRECT"
          /\ IsUp(p) <=> IsUp(a)
          /\ CalleeAgent(c)' # NoAgent => CalleeAgent(c)'.request = a.request
      BY <1>4, <2>1, <2>3, <2>5, <2>7, <3>1
    <3>3. \A k \in net' : k.call = c => k \in net
      BY <1>4, <3>1
    <3> QED BY <1>4, <3>2, <3>3, CalmKept DEF p
  <2>8. CASE m.code >= 200
    <3>1. IsPending(m, c) /\ m.cseq = a.request /\ (m.code \in {302, 401} => m.cseq = 1)
      BY <2>5, <2>8 DEF IsPending
    <3>2. m.code \in {302, 401} => a.leg = "C_TRYING" /\ CalleeAgent(c) = NoAgent
      <4>1. m.code \in {302, 401} => CalleeAgent(c) = NoAgent
        BY <3>1 DEF Calm
      <4>2. m.code \in {302, 401} => a.leg = "C_TRYING"
        BY <1>2, <2>4, <2>5, <2>6, <3>1
      <4> QED BY <4>1, <4>2
    <3>3. /\ t.request >= a.request /\ \A o \in t.out : o.cseq <= t.request
          /\ \A o \in t.out : o.method = "INVITE" => o.cseq = t.request /\ o.code = 0
      <4>1. CASE m.code = 200
        BY <1>2, <2>2, <2>4, <2>6, <3>1, <4>1
      <4>2. CASE m.code = 302
        BY <1>2, <2>2, <2>4, <2>5, <2>6, <3>1, <4>2
      <4>3. CASE m.code = 401
        BY <1>2, <2>2, <2>4, <2>6, <3>1, <4>3
      <4> QED BY <1>1, <2>6, <2>8, <4>1, <4>2, <4>3
    <3>4. Below(c, t.request + 1)
      BY <2>4, <2>5, <3>3 DEF Below
    <3>5. \A o : Sent(u, c, o).cseq = o.cseq /\ Sent(u, c, o).method = o.method /\ Sent(u, c, o).code = o.code
      BY DEF Sent
    <3>6. \A k \in net' : k.call = c => k \in net \/ k.cseq < t.request + 1
      <4>1. \A o \in t.out : o.cseq \in Nat
        BY <1>3 DEF Step, Out
      <4> QED BY <1>4, <2>4, <3>3, <3>5, <4>1
    <3>7. \A k \in net : k.call = c /\ k.from = Caller[c] => k.method # "BYE"
      BY DEF Calm
    <3>8. BelowNext(c, t.request + 1)
      BY <3>4, <3>6, <3>7, BelowKept
    <3>9. \A k \in net' : IsPending(k, c) => k.cseq = t.request /\ k.code = 0
      <4>1. SUFFICES ASSUME NEW k \in net', IsPending(k, c)  PROVE k.cseq = t.request /\ k.code = 0
        OBVIOUS
      <4>2. ~(k \in net /\ k # m)
        BY <3>1, <4>1 DEF Calm
      <4>3. PICK o \in t.out : k = Sent(u, c, o)
        BY <1>4, <4>1, <4>2 DEF IsPending
      <4>4. o.method = "INVITE"
        BY <3>5, <4>1, <4>3 DEF IsPending
      <4> QED BY <3>3, <3>5, <4>3, <4>4
    <3>10. CASE m.code = 200
      <4>1. IsUp(p) /\ p.leg # "REDIRECT"
        BY <2>1, <2>3, <2>6, <3>10
      <4>2. c \notin behind' => t.cseq >= t.request
        <5>1. IsUp(CallerAgent(c))'
          BY <4>1 DEF p, IsUp
        <5>2. CASE a.leg = "RINGING"
          BY <1>2, <2>4, <2>6, <3>1, <3>10, <5>2
        <5>3. CASE a.leg = "REDIRECT"
          BY <1>2, <2>4, <2>5, <2>6, <3>10, <5>3
        <5>4. CASE a.leg = "C_TRYING"
          BY <1>6, <2>3, <2>4, <2>6, <3>10, <5>1, <5>4
        <5> QED BY <5>2, <5>3, <5>4
      <4>3. BelowNext(c, p.request + 1) /\ (c \notin behind' => p.cseq >= p.request)
        BY <2>1, <3>8, <4>2
      <4>4. \A k \in net' : IsPending(k, c) => k.cseq = p.request /\ k.code = 0
        BY <2>1, <3>9
      <4>5. p = CallerAgent(c)'
        BY DEF p
      <4> QED BY <4>1, <4>3, <4>4, <4>5 DEF CalmNumbers, BelowNext, Below, IsUp, IsPending
    <3>11. CASE m.code \in {302, 401}
      <4>1. ~IsUp(p) /\ CalleeAgent(c)' = NoAgent
        BY <1>4, <2>3, <3>2, <3>11
      <4>2. t.cseq > 0 /\ (t.leg = "REDIRECT" => t.cseq >= t.request /\ t.request > 1)
        BY <1>2, <2>4, <2>5, <2>6, <3>2, <3>11
      <4>3. BelowNext(c, p.request + 1) /\ p.cseq > 0 /\ (p.leg = "REDIRECT" => p.cseq >= p.request /\ p.request > 1)
        BY <2>1, <3>8, <4>2
      <4>4. \A k \in net' : IsPending(k, c) => k.cseq = p.request /\ k.code = 0
        BY <2>1, <3>9
      <4>5. p = CallerAgent(c)'
        BY DEF p
      <4> QED BY <4>1, <4>3, <4>4, <4>5 DEF CalmNumbers, BelowNext, Below, IsUp, IsPending
    <3> QED BY <1>1, <2>6, <2>8, <3>10, <3>11
  <2> QED BY <1>1, <2>7, <2>8
<1> QED BY <1>5, <1>6

\* A message arrives at the agent of the caller.
LEMMA ToCallerNumbers ==
    ASSUME JInv, JInv', NumInv, NEW c \in Call, Regular(c), Stepped(c), StackStep(c), SeqStep(c),
           NEW m \in net, m.call = c, Caller[c] = Peer(c, m.from), CallerAgent(c) # NoAgent,
           NEW t, t = Received(Opened(Caller[c], c), m), Keeps(Opened(Caller[c], c), t),
           Delivered(Caller[c], c, m, t), NEW in, Handled(Caller[c], c, in, t), quit' = quit
    PROVE  NumInv'
<1> DEFINE u == Caller[c]
           a == CallerAgent(c)
           p == CallerAgent(c)'
<1>1. SUFFICES ASSUME Regular(c)'
               PROVE  (c \notin quit => CalmNumbers(c)') /\ (c \in joined => JoinedNumbers(c)')
  BY NumbersInv DEF GoodNumbers
<1>2. /\ c \notin quit => Calm(c) /\ CalmNumbers(c)
      /\ c \in joined => Joined(c) /\ JoinedNumbers(c)
      /\ c \in behind => c \in behind'
  BY <1>1, NumbersBefore DEF Stepped, About
<1>3. /\ u \in Ua /\ Callee[c] \in Ua /\ Caller[c] # Callee[c] /\ a = agent[u][c] /\ p = agent'[u][c]
      /\ agent[u][c] # NoAgent /\ u = Peer(c, m.from)
  BY UaRolesAssumption DEF CallerAgent
<1>4. /\ m.code \in Nat /\ m.method \in Method
      /\ m.code > 0 => m.method \in {"INVITE", "CANCEL"}
      /\ ~(m.code = 0 /\ m.method \in {"INVITE", "CANCEL"})
  BY <1>3, RegularMessage
<1>5. a \in Agent /\ ClientOK(a)
  <2>1. agent[u][c].role = "client" /\ agent[u][c] \in Agent /\ AgentOK(agent[u][c])
    BY <1>3, RegularRoles
  <2> QED BY <1>3, <2>1 DEF AgentOK
<1>6. /\ p = IF t.active THEN Closed(t) ELSE NoAgent
      /\ CalleeAgent(c)' = CalleeAgent(c)
      /\ t.out = {} => \A k \in net' : k.call = c => k \in net
      /\ t \in Step
  BY <1>3 DEF Delivered, CalleeAgent, Keeps
<1>7. p = NoAgent \/ (p.leg = t.leg /\ p.ctl = t.ctl /\ p.cseq = t.cseq /\ p.request = t.request)
  BY <1>6, ClosedNumbers
<1>8. ASSUME m.method \in {"ACK", "BYE"} \/ (m.method = "INVITE" /\ m.code < 200),
             a.ctl = "IN_CALL" \/ m.method = "ACK", a.leg # "FAILURE"
      PROVE  /\ \A k \in net' : k.call = c => k \in net
             /\ \/ p = NoAgent
                \/ p.leg = a.leg /\ p.ctl = a.ctl /\ p.cseq = a.cseq /\ p.request = a.request
  <2>1. /\ t.out = {}
        /\ m.method = "BYE" => ~t.active
        /\ m.method # "BYE" => t.cseq = a.cseq /\ t.request = a.request /\ t.leg = a.leg /\ t.ctl = a.ctl
    BY <1>8, UpNumbers
  <2> QED BY <1>6, <1>7, <2>1
<1> HIDE DEF p
<1>9. ASSUME c \notin quit  PROVE CalmNumbers(c)'
  <2>1. Calm(c) /\ CalmNumbers(c)
    BY <1>2, <1>9
  <2>2. /\ m.method \in {"INVITE", "ACK"} /\ a.leg # "FAILURE"
        /\ IsUp(a) => a.ctl = "IN_CALL" /\ ~IsPending(m, c)
    BY <2>1 DEF Calm
  <2>3. CASE m.method = "ACK" \/ (m.code < 200 /\ a.ctl = "IN_CALL")
    <3>1. /\ \A k \in net' : k.call = c => k \in net
          /\ \/ p = NoAgent
             \/ p.leg = a.leg /\ p.ctl = a.ctl /\ p.cseq = a.cseq /\ p.request = a.request
      BY <1>8, <2>2, <2>3
    <3>2. p # NoAgent => (IsUp(p) <=> IsUp(a)) /\ p.cseq = a.cseq /\ p.request = a.request /\ p.leg = a.leg
      BY <3>1 DEF IsUp
    <3>3. ~IsUp(a) /\ CalleeAgent(c)' # NoAgent => CalleeAgent(c)'.request = a.request
      BY <1>6, <2>1 DEF CalmNumbers
    <3> QED BY <1>2, <2>1, <3>1, <3>2, <3>3, CalmKept DEF p
  <2>4. CASE ~(m.method = "ACK" \/ (m.code < 200 /\ a.ctl = "IN_CALL"))
    <3>1. m.method = "INVITE" /\ m.code > 0
      BY <1>4, <2>2, <2>4
    <3>2. ~IsUp(a)
      <4>1. m.code >= 200 => IsPending(m, c)
        BY <3>1 DEF IsPending
      <4> QED BY <1>4, <2>2, <2>4, <4>1
    <3>3. a.leg \in {"C_TRYING", "REDIRECT", "RINGING"}
      <4>1. a.ctl \in SetUp
        BY <1>5, <3>2 DEF IsUp, ClientOK, Up
      <4> QED BY <1>5, <2>2, <4>1 DEF ClientOK, SetUp
    <3>4. ~IsUp(a) /\ t.active /\ IsUp(p) /\ t.role = "client" =>
              (t.cseq < t.request /\ a.leg = "C_TRYING" => c \in behind')
      <4> DEFINE b == IF t.active THEN Closed(t) ELSE NoAgent
      <4>1. behind' = behind \cup (IF /\ ~IsUp(agent[u][c]) /\ IsUp(b)
                                      /\ t.role = "client" /\ t.cseq < t.request
                                      /\ agent[u][c].leg = "C_TRYING"
                                   THEN {c} ELSE {})
        BY DEF Handled
      <4>2. b = p
        BY <1>6
      <4> HIDE DEF b
      <4> QED BY <1>3, <4>1, <4>2
    <3>5. IsUp(CallerAgent(c))' <=> IsUp(p)
      BY DEF p, IsUp
    <3>6. ~IsUp(CallerAgent(c)) /\ t.active /\ IsUp(CallerAgent(c))' /\ t.role = "client" =>
              (t.cseq < t.request /\ CallerAgent(c).leg = "C_TRYING" => c \in behind')
      BY <3>4, <3>5
    <3> QED BY <2>1, <3>1, <3>3, <3>6, SetUpCalm
  <2> QED BY <2>3, <2>4
<1>10. ASSUME c \in joined  PROVE JoinedNumbers(c)'
  <2>1. Joined(c) /\ JoinedNumbers(c)
    BY <1>2, <1>10
  <2>2. a.ctl = "IN_CALL" /\ ~IsPending(m, c) /\ m.method # "CANCEL"
    BY <2>1 DEF Joined
  <2>3. a.leg # "FAILURE"
    BY <1>5, <2>2 DEF ClientOK, Up
  <2>4. m.method \in {"ACK", "BYE"} \/ (m.method = "INVITE" /\ m.code < 200)
    <3>1. m.method = "INVITE" /\ m.code >= 200 => IsPending(m, c)
      BY DEF IsPending
    <3> QED BY <1>4, <2>2, <3>1 DEF Method
  <2>5. /\ \A k \in net' : k.call = c => k \in net
        /\ p = NoAgent \/ p.cseq = a.cseq
    BY <1>8, <2>2, <2>3, <2>4
  <2>6. CallerAgent(c)' = NoAgent \/ (CallerAgent(c) # NoAgent /\ CallerAgent(c)'.cseq = CallerAgent(c).cseq)
    BY <2>5 DEF p
  <2>7. CalleeAgent(c)' # NoAgent => CalleeAgent(c) # NoAgent
    BY <1>6
  <2> QED BY <1>2, <2>1, <2>5, <2>6, <2>7, JoinedKept
<1> QED BY <1>9, <1>10

LEMMA DeliverToAgentNumbers ==
    ASSUME JInv, NumInv, IInv', NEW m \in net, DeliverToAgent(Peer(m.call, m.from), m),
           stack' = [stack EXCEPT ![Peer(m.call, m.from)][m.call] = Recorded(@, m)]
    PROVE  JInv' /\ NumInv'
<1> DEFINE c == m.call
           u == Peer(c, m.from)
           s == Opened(u, c)
           t == Received(s, m)
           in == {m} \cup SameFinal(m)
<1>1. JInv' /\ Stepped(c)
  BY DeliverToAgentCalls
<1>2. /\ agent[u][c] # NoAgent /\ Keeps(s, t) /\ Delivered(u, c, m, t)
      /\ Handled(u, c, in, t) /\ quit' = quit
  BY DeliverToAgentView
<1>3. /\ c \in Call /\ u \in {Caller[c], Callee[c]} /\ Caller[c] # Callee[c] /\ in \in SUBSET net
      /\ m.from = Caller[c] <=> u = Callee[c]
  BY PeerFields DEF JInv, SameFinal
<1>4. /\ StackStep(c)
      /\ \/ stack'[Callee[c]][c].seq = stack[Callee[c]][c].seq
         \/ m.from = Caller[c] /\ m.code = 0 /\ stack'[Callee[c]][c].seq = m.cseq
  BY <1>1, DeliverStack DEF Stepped
<1>5. t = Received(Opened(u, c), m) /\ Keeps(Opened(u, c), t) /\ m.call = c /\ u = Peer(c, m.from)
  BY <1>2
<1> HIDE DEF t, s, in, u, c
<1>6. CASE ~Regular(c)
  BY <1>1, <1>3, <1>4, <1>6, GrowsRegular, NumbersInv DEF Stepped, GoodNumbers
<1>7. CASE Regular(c) /\ u = Callee[c]
  <2>1. CalleeAgent(c) # NoAgent
    BY <1>2, <1>7 DEF CalleeAgent
  <2> QED BY <1>1, <1>2, <1>3, <1>4, <1>5, <1>7, <2>1, ToCalleeNumbers
<1>8. CASE Regular(c) /\ u = Caller[c]
  <2>1. CallerAgent(c) # NoAgent
    BY <1>2, <1>8 DEF CallerAgent
  <2>2. SeqStep(c)
    BY <1>3, <1>4, <1>8 DEF SeqStep
  <2> QED BY <1>1, <1>2, <1>3, <1>4, <1>5, <1>8, <2>1, <2>2, ToCallerNumbers
<1> QED BY <1>1, <1>3, <1>6, <1>7, <1>8

LEMMA ByeIsInOrder ==
    ASSUME JInv, NumInv, NEW c \in Call
    PROVE  ByeInOrder(c)
<1>1. SUFFICES ASSUME Regular(c), c \in joined \ behind, NEW m \in net, IsBye(m, c),
                      agent[Peer(c, m.from)][c] # NoAgent
               PROVE  ~OutOfOrder(stack[Peer(c, m.from)][c], m)
  BY DEF ByeInOrder
<1> DEFINE u == Peer(c, m.from)
<1>2. m.call = c /\ Caller[c] # Callee[c] /\ u \in {Caller[c], Callee[c]} /\ (m.from = Caller[c] <=> u = Callee[c])
  BY <1>1, PeerFields DEF JInv, IsBye
<1>3. CASE u = Caller[c]
  <2>1. stack[u][c].seq = 0
    BY <1>1, <1>3 DEF NumInv, Numbers, CallerStack
  <2> QED BY <2>1 DEF OutOfOrder
<1>4. CASE u = Callee[c]
  <2>1. CalleeAgent(c) # NoAgent /\ m.from = Caller[c] /\ JoinedNumbers(c)
    BY <1>1, <1>2, <1>4 DEF CalleeAgent, NumInv, Numbers
  <2>2. stack[u][c].seq < m.cseq
    BY <1>1, <1>4, <2>1 DEF JoinedNumbers, Below
  <2>3. stack[u][c].seq \in Nat /\ m.cseq \in Nat
    BY <1>4, AgentNumbers DEF JInv, IInv
  <2> QED BY <2>2, <2>3 DEF OutOfOrder
<1> QED BY <1>2, <1>3, <1>4

LEMMA InitNumbers == UaInit => NumInv
<1> SUFFICES ASSUME UaInit, NEW c \in Call  PROVE Numbers(c)
  BY DEF NumInv
<1>1. Caller[c] \in Ua /\ Callee[c] \in Ua
  BY UaRolesAssumption
<1>2. /\ stack[Caller[c]][c].seq = 0 /\ stack[Caller[c]][c].invites = {} /\ stack[Callee[c]][c].seq = 0
      /\ CallerAgent(c) = NoAgent /\ joined = {}
  BY <1>1 DEF UaInit, CallerAgent
<1> QED BY <1>2 DEF Numbers, CallerStack, CalmNumbers

LEMMA StutterNumbers ==
    ASSUME NumInv, UNCHANGED vars
    PROVE  NumInv'
<1>1. UNCHANGED <<agent, stack, net, placed, reInvites, lost, failed, joined, quit, behind>>
  BY DEF vars
<1>2. ASSUME NEW c \in Call  PROVE Numbers(c)'
  <2>1. CallerAgent(c)' = CallerAgent(c) /\ CalleeAgent(c)' = CalleeAgent(c) /\ (Regular(c)' <=> Regular(c))
    BY <1>1 DEF CallerAgent, CalleeAgent, Regular, Undisturbed, Lossless
  <2>2. \A n : Below(c, n) => BelowNext(c, n)
    BY <1>1 DEF Below, BelowNext
  <2>3. CalmNumbers(c) => CalmNumbers(c)'
    BY <1>1, <2>1, <2>2 DEF CalmNumbers, BelowNext, Below, IsUp, IsPending
  <2>4. JoinedNumbers(c) => JoinedNumbers(c)'
    BY <1>1, <2>1, <2>2 DEF JoinedNumbers, BelowNext, Below, IsBye
  <2>5. CallerStack(c) => CallerStack(c)'
    BY <1>1 DEF CallerStack
  <2> QED BY <1>1, <2>1, <2>3, <2>4, <2>5 DEF NumInv, Numbers
<1> QED BY <1>2 DEF NumInv

LEMMA NextNumbers ==
    ASSUME JInv, NumInv, [Next]_vars
    PROVE  JInv' /\ NumInv'
<1>0. IInv'
  BY NextInv DEF JInv
<1>1. ASSUME NEW c \in Call, InitiateInvite(c)  PROVE JInv' /\ NumInv'
  BY <1>0, <1>1, InitiateInviteNumbers
<1>2. ASSUME NEW u \in Ua, NEW c \in Call, Accept(u, c) \/ Stop(u, c) \/ Purge(u, c) \/ BusyAborts(u, c)
      PROVE  JInv' /\ NumInv'
  BY <1>0, <1>2, AcceptNumbers, StopNumbers, BusyAbortsNumbers
<1>3. ASSUME NEW u \in Ua, NEW c \in Call, ReInvite(u, c) \/ ReInviteAborts(u, c)
      PROVE  JInv' /\ NumInv'
  <2>1. JInv' /\ Stepped(c) /\ ~Regular(c)'
    BY <1>0, <1>3, ReInviteCalls, ReInviteAbortsCalls
  <2>2. UNCHANGED stack
    BY <1>3 DEF ReInvite, ReInviteAborts
  <2> QED BY <2>1, <2>2, NotRegularNumbers
<1>4. ASSUME NEW u \in Ua, NEW n \in Number, DeviceStop(u, n)  PROVE JInv' /\ NumInv'
  BY <1>0, <1>4, DeviceStopNumbers
<1>5. ASSUME NEW m \in net, Deliver(m)  PROVE JInv' /\ NumInv'
  <2>1. /\ stack' = [stack EXCEPT ![Peer(m.call, m.from)][m.call] = Recorded(@, m)]
        /\ \/ Refuse(stack[Peer(m.call, m.from)][m.call], m)
           \/ DeliverToAgent(Peer(m.call, m.from), m)
           \/ DeliverAborts(Peer(m.call, m.from), m)
           \/ DeliverInvite(Peer(m.call, m.from), m)
           \/ DeliverOutOfDialog(Peer(m.call, m.from), m)
    BY <1>5 DEF Deliver, HandUp
  <2>2. ByeInOrder(m.call)
    BY PeerFields, ByeIsInOrder DEF JInv
  <2> QED BY <1>0, <2>1, <2>2, RefuseNumbers, DeliverToAgentNumbers, DeliverAbortsNumbers,
             DeliverInviteNumbers, DeliverOutOfDialogNumbers
<1>6. ASSUME NEW m \in net, Lose(m)  PROVE JInv' /\ NumInv'
  BY <1>0, <1>6, LoseNumbers
<1>7. ASSUME NEW m \in net, NEW code \in ProxyCode, ProxyAnswers(m, code)  PROVE JInv' /\ NumInv'
  BY <1>0, <1>7, ProxyAnswersNumbers
<1>8. ASSUME NEW m \in net, NEW code \in {404, 408}, SendFails(m, code)  PROVE JInv' /\ NumInv'
  <2>1. JInv' /\ Stepped(m.call) /\ ~Regular(m.call)' /\ m.call \in Call
    BY <1>0, <1>8, SendFailsCalls, PeerFields DEF JInv
  <2>2. UNCHANGED stack
    BY <1>8 DEF SendFails
  <2> QED BY <2>1, <2>2, NotRegularNumbers
<1>9. CASE UNCHANGED vars
  BY <1>0, <1>9, StutterCalls, StutterNumbers
<1> QED BY <1>1, <1>2, <1>3, <1>4, <1>5, <1>6, <1>7, <1>8, <1>9 DEF Next

(***************************************************************************)
(* Theorems.                                                               *)
(***************************************************************************)

\* What JInv says of the agents and the messages of a call, and NumInv of their
\* CSeqs, holds in every state: the state machines of both sides, the order check
\* of the stack and the numbering of requests keep it up together.
THEOREM JoinedInvariance == Spec => [](JInv /\ NumInv)
<1>1. UaInit => JInv /\ NumInv
  BY InitCalls, InitNumbers
<1>2. JInv /\ NumInv /\ [Next]_vars => (JInv /\ NumInv)'
  BY NextNumbers
<1> QED BY <1>1, <1>2, PTL DEF Spec

\* A call both sides were in and nobody hung up stays up on both sides, however its
\* messages overtake each other, for any number of user agents and calls: the late
\* 180s and other responses that UaStateInCall receives do not end it.
THEOREM StaysUpCorrect == Spec => []StaysUp
<1>1. ASSUME JInv  PROVE StaysUp
  <2>1. SUFFICES ASSUME NEW c \in joined \ quit, reInvites[c] = 0, Undisturbed(c)
                 PROVE  IsUp(CallerAgent(c)) /\ IsUp(CalleeAgent(c))
    BY DEF StaysUp, CallerAgent, CalleeAgent
  <2>2. c \in Call /\ Regular(c)
    BY <1>1, <2>1 DEF JInv, IInv, TypeOK, Regular
  <2>3. Calm(c) /\ IsUp(CallerAgent(c))
    BY <1>1, <2>1, <2>2 DEF JInv, CallInv
  <2> QED BY <2>3 DEF Calm
<1> QED BY <1>1, JoinedInvariance, PTL

\* A call both sides were in ends on both: when one side has hung up, its BYE has a
\* CSeq the stack of the other does not refuse, and UaStateInCall ends the call when
\* it comes (unless the callee hung up before the ACK, or the caller's numbering
\* fell behind its authenticated INVITE).
THEOREM EndsOnBothSidesCorrect == Spec => []EndsOnBothSides
<1>1. ASSUME JInv  PROVE EndsOnBothSides
  <2>1. SUFFICES ASSUME NEW c \in joined \ (silent \cup behind), Quiet(c), reInvites[c] = 0, Undisturbed(c)
                 PROVE  CallerAgent(c) = NoAgent <=> CalleeAgent(c) = NoAgent
    BY DEF EndsOnBothSides, CallerAgent, CalleeAgent
  <2>2. c \in Call /\ Regular(c)
    BY <1>1, <2>1 DEF JInv, IInv, TypeOK, Regular
  <2>3. Joined(c) /\ \A m \in net : ~IsBye(m, c)
    BY <1>1, <2>1, <2>2 DEF JInv, CallInv, Quiet, IsBye
  <2> QED BY <2>1, <2>3 DEF Joined
<1> QED BY <1>1, JoinedInvariance, PTL

=============================================================================
