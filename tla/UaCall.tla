------------------------------- MODULE UaCall -------------------------------
(***************************************************************************)
(* Calls between SIP user agents.  A user agent (UaCallControl) handles    *)
(* one event at a time: a SIP message, a command of its user, or an event  *)
(* of a media device.  A call has a CallAgent in each user agent, made of  *)
(* two state machines that call each other: the call leg (uaState), which  *)
(* sends and receives SIP messages, and the control state (controlState),  *)
(* which decides what becomes of the call.  CallDB finds the agent of a    *)
(* message by its call id, myCallMap that of a command or a device by the  *)
(* number of the call in this user agent.                                  *)
(*                                                                         *)
(* The SIP stack delivers a request once, and one final response at most   *)
(* of a request (SipSentRequestDB); the messages may overtake each other.  *)
(* The stack of the receiver refuses requests whose CSeq is out of order   *)
(* (SipSentResponseDB).  A message may get lost for good, and then nothing *)
(* tells its sender; only a transmission that fails at once makes the      *)
(* stack of the sender answer it.  The responses to BYE are left out:      *)
(* whoever sends a BYE deletes its agent in the same step.  A proxy that   *)
(* records its route is on the path, as createReInvite() demands.          *)
(***************************************************************************)
EXTENDS Integers, FiniteSets

CONSTANTS
    Ua,          \* user agents
    ServerUa,    \* those in CALL_MODE_ANNON, _VMAIL or _SPEECH
    Call,        \* calls, named by their call ids
    Caller,      \* the user agent that places a call
    Callee,      \* the user agent it is placed to
    ProxyCode,   \* final responses of proxies to the first INVITE: 401, 302
    MaxReInvite, \* hold and resume commands in a call, a bound
    MaxLost,     \* messages that get lost or cannot be sent, a bound
    NoCall,      \* a number without a call
    NoAgent      \* a call without an agent

ASSUME UaRolesAssumption ==
    /\ ServerUa \subseteq Ua
    /\ Caller \in [Call -> Ua] /\ Callee \in [Call -> Ua]
    /\ \A c \in Call : Caller[c] # Callee[c]
ASSUME UaBoundAssumption ==
    /\ IsFiniteSet(Call)
    /\ ProxyCode \subseteq {401, 302}
    /\ {MaxReInvite, MaxLost} \subseteq Nat
ASSUME UaNoCallAssumption == NoCall \notin Call

VARIABLES
    agent,     \* the agent of each call in each user agent: CallDB
    callMap,   \* myCallMap: the call of each number
    sessions,  \* open sessions of MediaController, by the call they are for
    stack,     \* the call containers of SipSentResponseDB
    net,       \* messages on their way
    aborted,   \* the assertion that ended the process of a user agent
    placed,    \* calls that were placed
    proxied,   \* calls a proxy has answered
    reInvites, \* hold and resume commands so far, by call
    lost,      \* the messages that got lost
    failed,    \* the requests that could not be sent
    answered,  \* calls that were accepted while they rang
    joined,    \* calls in which both sides were in call
    quit,      \* calls some user or device hung up
    silent,    \* calls the callee hung up before the ACK of its 200 came
    behind,    \* calls that came up in C_TRYING with a CSeq behind their INVITE's
    tooLate    \* accept commands for a call that did not ring any more

vars == <<agent, callMap, sessions, stack, net, aborted, placed, proxied, reInvites, lost,
          failed, answered, joined, quit, silent, behind, tooLate>>

Number == 0..(Cardinality(Call) - 1)
Method == {"INVITE", "ACK", "BYE", "CANCEL"}
LegState == {"C_TRYING", "RINGING", "INCALL", "HOLD", "FAILURE", "REDIRECT"}
ControlStates == {"TRYING", "UAC_RINGING", "UAS_RINGING", "IN_CALL", "IN_HOLD"}

\* A request has code 0; a response has the method and the CSeq of its request.
Msg == [method : Method, code : {0, 100, 180, 200, 302, 401, 404, 408, 486, 487, 501},
        cseq : Nat, call : Call, from : Ua]

\* acked: myAckMsg # 0; own: getLocalSdp() names a session of this user agent;
\* freed: freedMedia; cseq: myLocalCSeq; request: the CSeq of getRequest().
Agent == [role : {"client", "server"}, id : Number, leg : LegState, ctl : ControlStates,
          acked : BOOLEAN, own : BOOLEAN, freed : BOOLEAN, cseq : Nat, request : Nat]
ASSUME UaNoAgentAssumption == NoAgent \notin Agent

\* seq: curSeqNum, 0 while it is not set; invites: the CSeqs of the INVITEs that
\* came, which make the container.
Container == [seq : Nat, invites : SUBSET Nat]

\* UaStateRinging asserts that its leg is not deleted, MediaController that the
\* session of a call exists.
Assertion == {"none", "deleted", "session"}

Peer(c, u) == IF u = Caller[c] THEN Callee[c] ELSE Caller[c]
\* Mutant of Busy: only a call that is up makes a user agent busy.
BusyIfUp(u) == \E n \in Number : callMap[u][n] # NoCall /\ agent[u][callMap[u][n]].ctl = "IN_CALL"

\* busy(): there is a call, of whatever state.
Busy(u) == \E n \in Number : callMap[u][n] # NoCall
-----------------------------------------------------------------------------
(* Inside one step an agent also has its open sessions, the messages it    *)
(* has sent, and whether it is active (myActiveFlg, in CallDB).            *)

Opened(u, c) ==
    LET a == agent[u][c]
    IN  [role |-> a.role, id |-> a.id, leg |-> a.leg, ctl |-> a.ctl, acked |-> a.acked,
         own |-> a.own, freed |-> a.freed, cseq |-> a.cseq, request |-> a.request,
         open |-> sessions[u][c], out |-> {}, active |-> TRUE]
Closed(s) ==
    [role |-> s.role, id |-> s.id, leg |-> s.leg, ctl |-> s.ctl, acked |-> s.acked,
     own |-> s.own, freed |-> s.freed, cseq |-> s.cseq, request |-> s.request]

Send(s, method, code, cseq) ==
    [s EXCEPT !.out = @ \cup {[method |-> method, code |-> code, cseq |-> cseq]}]

\* The ACK of a final response to an INVITE; that of a proxy ends at the proxy.
AckStatus(s, m) == IF m.code \in {401, 302} THEN s ELSE Send(s, "ACK", 0, m.cseq)

\* Mutant of FreeMedia: frees the session again.
FreeMediaAgain(s) ==
    [s EXCEPT !.freed = TRUE, !.open = IF s.active /\ s.own THEN @ - 1 ELSE @]

FreeMedia(s) ==
    IF s.freed THEN s
    ELSE [s EXCEPT !.freed = TRUE, !.open = IF s.active /\ s.own THEN @ - 1 ELSE @]

\* StateTearDown::end(): setDeleted() takes the agent out of CallDB and the map.
TearDown(s) == [s EXCEPT !.active = FALSE]

\* Mutant of EndOutgoing: the leg that sends the CANCEL keeps its state.
EndOutgoingKeepsLeg(s) ==
    CASE s.leg \in {"C_TRYING", "RINGING"} -> Send(s, "CANCEL", 0, s.request)
      [] s.leg = "REDIRECT" -> s
      [] OTHER -> TearDown(s)

\* StateTrying::end(), StateUacRinging::end(): the call stays until an answer
\* to its CANCEL comes, or is torn down if the leg cannot send one.
EndOutgoing(s) ==
    CASE s.leg \in {"C_TRYING", "RINGING"} ->
            [Send(s, "CANCEL", 0, s.request) EXCEPT !.leg = "FAILURE"]
      [] s.leg = "REDIRECT" -> s
      [] OTHER -> TearDown(s)

\* StateUasRinging::end(), sendBusy(): a leg that still rings sends 486.
EndIncoming(s) ==
    TearDown(IF s.leg = "RINGING" THEN Send(s, "INVITE", 486, s.request) ELSE s)

\* UaServer::sendBye() needs the ACK of the caller, UaClient::sendBye() nothing.
SendBye(s) ==
    IF s.role = "client" \/ s.acked THEN Send(s, "BYE", 0, s.cseq + 1) ELSE s

\* doBye() and endCall() in the two states of a call that is up: a call on hold
\* cannot BYE (canBye).
DoBye(s) == TearDown(FreeMedia(IF s.ctl = "IN_HOLD" THEN s ELSE SendBye(s)))

\* while (myState->end(*this) < 0)
End(s) ==
    CASE ~s.active -> s
      [] s.active /\ s.ctl \in {"TRYING", "UAC_RINGING"} -> EndOutgoing(s)
      [] s.active /\ s.ctl = "UAS_RINGING" -> EndIncoming(s)
      [] s.active /\ s.ctl \in {"IN_CALL", "IN_HOLD"} -> DoBye(s)

\* Mutant of EndCall: keeps the session of a call that is up.
EndCallKeepsMedia(s) ==
    IF ~s.active THEN s
    ELSE IF s.ctl \in {"IN_CALL", "IN_HOLD"} THEN TearDown(s)
    ELSE End(FreeMedia(s))

\* endCall(), reached while a call is set up only by a purge.
EndCall(s) ==
    IF ~s.active THEN s
    ELSE IF s.ctl \in {"IN_CALL", "IN_HOLD"} THEN TearDown(FreeMedia(s))
    ELSE End(FreeMedia(s))

\* callFailed(): a call that is up has no cancel() and is ended.
CallFailed(s) ==
    IF s.ctl \in {"IN_CALL", "IN_HOLD"} THEN End(s) ELSE TearDown(s)

\* Mutant of DoCancel: keeps the session of the call.
DoCancelKeepsMedia(s) == CallFailed(s)

DoCancel(s) == CallFailed(FreeMedia(s))

StopCall(s) == FreeMedia(End(s))

\* stopCall(), and endCall() as the "bigger stick".
PurgeCall(s) == EndCall(StopCall(s))

\* The INVITE to the contact of a 302, under a new CSeq.
InviteAgain(s) ==
    [Send(s, "INVITE", 0, s.cseq + 1) EXCEPT !.cseq = s.cseq + 1, !.request = s.cseq + 1]

\* The INVITE with credentials, under a new CSeq, which is not that of the call
\* leg; a leg that failed does not send it.
DoAuthentication(s) ==
    [IF s.leg = "C_TRYING" THEN Send(s, "INVITE", 0, s.request + 1) ELSE s
        EXCEPT !.request = s.request + 1]
-----------------------------------------------------------------------------
(* Responses.  The control state is told of them by receivedStatus().      *)

\* recvStatus() of the control states.
ControlStatus(s, m) ==
    CASE s.ctl = "TRYING" /\ m.code = 180 -> [s EXCEPT !.ctl = "UAC_RINGING"]
      [] s.ctl = "TRYING" /\ m.code = 401 -> DoAuthentication(s)
      [] s.ctl = "TRYING" /\ m.code = 302 -> InviteAgain(s)
      [] s.ctl = "TRYING" /\ m.code > 200 /\ m.code \notin {401, 302} -> DoCancel(s)
      [] s.ctl = "UAC_RINGING" /\ m.method = "INVITE" /\ m.code > 200 -> DoCancel(s)
      [] s.ctl \in {"TRYING", "UAC_RINGING", "IN_HOLD"} /\ m.method = "INVITE" /\ m.code = 200 ->
            [s EXCEPT !.ctl = "IN_CALL"]
      [] s.ctl = "IN_HOLD" /\ ~(m.method = "INVITE" /\ m.code = 200) -> CallFailed(s)
      [] OTHER -> s

\* receivedStatus(): the 200 of an INVITE is acknowledged.
ReceivedStatus(s, m) ==
    LET told == ControlStatus(s, m)
    IN  IF m.method = "INVITE" /\ m.code = 200 THEN AckStatus(told, m) ELSE told

\* Mutant of Synced: the CSeq stays that of the first INVITE.
SyncedNever(s, m) == s

\* setLocalCSeq(): the CSeq follows that of the 200 of an INVITE.
Synced(s, m) == IF m.method = "INVITE" /\ m.code = 200 THEN [s EXCEPT !.cseq = m.cseq] ELSE s

\* UacStateTrying, UaStateRedirect and UaStateRinging of a client.
StatusInSetUp(s, m) ==
    CASE m.code = 200 ->
            [ReceivedStatus(IF s.leg = "RINGING" THEN Synced(s, m) ELSE s, m) EXCEPT !.leg = "INCALL"]
      [] m.code = 302 /\ s.leg = "C_TRYING" ->
            ReceivedStatus([AckStatus(s, m) EXCEPT !.leg = "REDIRECT"], m)
      [] m.code > 200 /\ ~(m.code = 302 /\ s.leg = "C_TRYING") ->
            ReceivedStatus(IF m.code = 408 THEN s ELSE AckStatus(s, m), m)
      [] m.code = 180 /\ s.leg # "RINGING" ->
            ReceivedStatus([s EXCEPT !.leg = "RINGING"], m)
      [] OTHER -> s

\* Mutant of StatusInFailure: the 200 that crosses a CANCEL is told to the
\* control state.
StatusInFailureTells200(s, m) ==
    CASE m.code < 200 -> s
      [] m.code = 200 -> ReceivedStatus(s, m)
      [] OTHER -> CallFailed(s)

\* Mutant of StatusInFailure: waits for the 487 only.
StatusInFailureOnly487(s, m) ==
    IF m.code # 487 THEN s ELSE CallFailed(ReceivedStatus(AckStatus(s, m), m))

\* UaStateFailure: a call that was cancelled ends with its final response.
StatusInFailure(s, m) ==
    IF m.code <= 200 THEN s
    ELSE LET told == ReceivedStatus(IF m.code = 487 THEN AckStatus(s, m) ELSE s, m)
         IN  IF told.active THEN CallFailed(told) ELSE told

\* Mutant of StatusInCall: whatever is not a 200 fails the call, as in a hold.
StatusInCallFails(s, m) ==
    IF m.code = 200 THEN ReceivedStatus(Synced(s, m), m) ELSE CallFailed(s)

StatusInCall(s, m) ==
    ReceivedStatus(IF m.code > 200 THEN AckStatus(s, m) ELSE Synced(s, m), m)

\* UaStateInHold: the answer to a hold puts the call on hold.
StatusInHold(s, m) ==
    IF m.method = "INVITE" /\ m.code = 200 THEN [AckStatus(s, m) EXCEPT !.ctl = "IN_HOLD"]
    ELSE ReceivedStatus(IF m.code > 200 /\ m.method = "INVITE" THEN AckStatus(s, m) ELSE s, m)

RecvStatus(s, m) ==
    CASE s.leg \in {"C_TRYING", "REDIRECT", "RINGING"} -> StatusInSetUp(s, m)
      [] s.leg = "FAILURE" -> StatusInFailure(s, m)
      [] s.leg = "INCALL" -> StatusInCall(s, m)
      [] s.leg = "HOLD" -> StatusInHold(s, m)
-----------------------------------------------------------------------------
(* Requests. *)

\* UaStateRinging: a CANCEL leaves the agent until the ACK of its 487.
RequestInRinging(s, m) ==
    CASE m.method = "CANCEL" ->
            [Send(Send(s, "CANCEL", 200, m.cseq), "INVITE", 487, m.cseq) EXCEPT !.leg = "FAILURE"]
      [] m.method = "BYE" /\ s.ctl = "UAS_RINGING" -> DoCancel(s)
      [] m.method = "BYE" /\ s.ctl # "UAS_RINGING" -> [s EXCEPT !.leg = "FAILURE"]
      [] OTHER -> s

RequestInFailure(s, m) ==
    IF m.method = "ACK" /\ s.role = "server" THEN CallFailed(s) ELSE s

\* A re-INVITE takes the leg to the other of its states.
OtherLeg(leg) == IF leg = "INCALL" THEN "HOLD" ELSE "INCALL"

\* UaStateInCall and UaStateInHold: a re-INVITE is answered at once, and takes
\* the leg from one of these states to the other; the control state goes on
\* hold and back (holdAndResumeReinvite), or leaves it (reqResume).
RequestInCall(s, m) ==
    CASE m.method = "ACK" -> [s EXCEPT !.acked = TRUE]
      [] m.method = "BYE" -> EndCall(s)
      [] m.method = "CANCEL" ->
            EndCall(Send(Send(s, "CANCEL", 200, m.cseq), "CANCEL", 487, m.cseq))
      [] m.method = "INVITE" ->
            [Send(Send(s, "INVITE", 100, m.cseq), "INVITE", 200, m.cseq) EXCEPT
                !.request = m.cseq, !.ctl = "IN_CALL", !.leg = OtherLeg(s.leg)]

RecvRequest(s, m) ==
    CASE s.leg = "RINGING" -> RequestInRinging(s, m)
      [] s.leg = "FAILURE" -> RequestInFailure(s, m)
      [] s.leg \in {"INCALL", "HOLD"} -> RequestInCall(s, m)
      [] OTHER -> s

\* The calls of MediaController a message leads to: startSession() for the answer
\* to a call, suspendSession() and resumeSession() for a re-INVITE or its answer.
UsesSession(s, m) ==
    /\ m.method = "INVITE"
    /\ \/ m.code = 0 /\ s.leg \in {"INCALL", "HOLD"}
       \/ m.code = 200 /\ (s.leg = "HOLD" \/ s.ctl = "IN_HOLD")
       \/ m.code = 200 /\ s.leg # "FAILURE" /\ s.ctl \in {"TRYING", "UAC_RINGING"}
HasSession(s) == s.own /\ ~s.freed

\* acceptCall() of a server: the session is created whatever the leg says.
AcceptCall(s) ==
    LET t == [s EXCEPT !.open = s.open + 1]
    IN  IF s.leg = "RINGING"
        THEN [Send(t, "INVITE", 200, s.request) EXCEPT !.own = TRUE, !.ctl = "IN_CALL", !.leg = "INCALL"]
        ELSE t

\* The agent of a first INVITE: its leg sends 180 once it is mapped.  The 100 it
\* sends before has no effect that a 180 that comes late does not have.
Incoming(u, c, m) ==
    LET s == [role |-> "server", id |-> Cardinality({n \in Number : callMap[u][n] # NoCall}),
              leg |-> "RINGING", ctl |-> "UAS_RINGING", acked |-> FALSE, own |-> FALSE,
              freed |-> FALSE, cseq |-> m.cseq, request |-> m.cseq, open |-> sessions[u][c], active |-> TRUE,
              out |-> {[method |-> "INVITE", code |-> 180, cseq |-> m.cseq]}]
    IN  IF u \in ServerUa THEN AcceptCall(s) ELSE s
-----------------------------------------------------------------------------
UaInit ==
    /\ agent = [u \in Ua |-> [c \in Call |-> NoAgent]]
    /\ callMap = [u \in Ua |-> [n \in Number |-> NoCall]]
    /\ sessions = [u \in Ua |-> [c \in Call |-> 0]]
    /\ stack = [u \in Ua |-> [c \in Call |-> [seq |-> 0, invites |-> {}]]]
    /\ net = {}
    /\ aborted = [u \in Ua |-> "none"]
    /\ placed = {}
    /\ proxied = {}
    /\ reInvites = [c \in Call |-> 0]
    /\ lost = {}
    /\ failed = {}
    /\ answered = {}
    /\ joined = {}
    /\ quit = {}
    /\ silent = {}
    /\ behind = {}
    /\ tooLate = {}

IsUp(a) == a # NoAgent /\ a.ctl \in {"IN_CALL", "IN_HOLD"}

\* Of the finals of one request the stack delivers the first.
SameFinal(m) == {f \in net : f.code >= 200 /\ m.code >= 200 /\ f.method = m.method
                                /\ f.cseq = m.cseq /\ f.call = m.call /\ f.from = m.from}

\* The response of user agent u, or of a proxy on its side, to request m.
Answer(m, code, u) == [m EXCEPT !.code = code, !.from = u]

Sent(u, c, o) ==
    [method |-> o.method, code |-> o.code, cseq |-> o.cseq, call |-> c, from |-> u]

\* u has handled an event of call c, the messages of in if it was one.
Handled(u, c, in, result) ==
    \E s \in {result} :
        LET a == IF s.active THEN Closed(s) ELSE NoAgent
        IN  /\ agent' = [agent EXCEPT ![u][c] = a]
            /\ callMap' = [callMap EXCEPT ![u][s.id] =
                              IF ~s.active THEN NoCall ELSE IF agent[u][c] = NoAgent THEN c ELSE @]
            /\ sessions' = [sessions EXCEPT ![u][c] = s.open]
            /\ net' = (net \ in) \cup {Sent(u, c, o) : o \in s.out}
            /\ joined' = joined \cup (IF IsUp(a) /\ IsUp(agent[Peer(c, u)][c]) THEN {c} ELSE {})
            /\ silent' = silent \cup (IF /\ IsUp(agent[u][c]) /\ ~s.active /\ in = {}
                                         /\ s.role = "server" /\ ~s.acked
                                      THEN {c} ELSE {})
            /\ behind' = behind \cup (IF /\ ~IsUp(agent[u][c]) /\ IsUp(a)
                                         /\ s.role = "client" /\ s.cseq < s.request
                                         /\ agent[u][c].leg = "C_TRYING"
                                      THEN {c} ELSE {})

userVars == <<placed, reInvites, answered, quit, tooLate>>
faultVars == <<aborted, proxied, lost, failed>>

\* initiateInvite(): refused while there is any call.
InitiateInvite(c) ==
    LET u == Caller[c]
    IN  /\ c \notin placed /\ ~Busy(u) /\ agent[u][c] = NoAgent /\ aborted[u] = "none"
        /\ placed' = placed \cup {c}
        /\ Handled(u, c, {},
              [role |-> "client", id |-> 0, leg |-> "C_TRYING", ctl |-> "TRYING", acked |-> FALSE,
               own |-> TRUE, freed |-> FALSE, cseq |-> 1, request |-> 1,
               open |-> sessions[u][c] + 1, active |-> TRUE,
               out |-> {[method |-> "INVITE", code |-> 0, cseq |-> 1]}])
        /\ UNCHANGED <<reInvites, answered, quit, tooLate, stack>> /\ UNCHANGED faultVars

\* getActiveCall(): the call a command of the user is for; nobody is at a server.
ActiveCall(u, c) == u \notin ServerUa /\ agent[u][c] # NoAgent /\ \E n \in Number : callMap[u][n] = c

\* G_ACCEPT.
Accept(u, c) ==
    /\ ActiveCall(u, c) /\ agent[u][c].role = "server" /\ <<u, c>> \notin tooLate
    /\ Handled(u, c, {}, AcceptCall(Opened(u, c)))
    /\ IF agent[u][c].leg = "RINGING"
       THEN answered' = answered \cup {c} /\ UNCHANGED tooLate
       ELSE tooLate' = tooLate \cup {<<u, c>>} /\ UNCHANGED answered
    /\ UNCHANGED <<placed, reInvites, quit, stack>> /\ UNCHANGED faultVars

\* G_STOP.
Stop(u, c) ==
    /\ ActiveCall(u, c)
    /\ Handled(u, c, {}, StopCall(Opened(u, c)))
    /\ quit' = quit \cup {c}
    /\ UNCHANGED <<placed, reInvites, answered, tooLate, stack>> /\ UNCHANGED faultVars

\* G_PURGE.
Purge(u, c) ==
    /\ ActiveCall(u, c)
    /\ Handled(u, c, {}, PurgeCall(Opened(u, c)))
    /\ quit' = quit \cup {c}
    /\ UNCHANGED <<placed, reInvites, answered, tooLate, stack>> /\ UNCHANGED faultVars

\* An assertion fails: the process of u ends.
Abort(u, assertion) ==
    /\ aborted' = [aborted EXCEPT ![u] = assertion]
    /\ agent' = [agent EXCEPT ![u] = [d \in Call |-> NoAgent]]
    /\ callMap' = [callMap EXCEPT ![u] = [n \in Number |-> NoCall]]
    /\ sessions' = [sessions EXCEPT ![u] = [d \in Call |-> 0]]

\* sendBusy() of a leg that rings: after the 486 callFailed() gives up the last
\* reference to the leg, which then asserts that it is not deleted.
BusyAborts(u, c) ==
    /\ ActiveCall(u, c)
    /\ agent[u][c].ctl = "UAS_RINGING" /\ agent[u][c].leg = "RINGING"
    /\ Abort(u, "deleted")
    /\ net' = net \cup {[method |-> "INVITE", code |-> 486, cseq |-> agent[u][c].request,
                         call |-> c, from |-> u]}
    /\ quit' = quit \cup {c}
    /\ UNCHANGED <<placed, reInvites, answered, tooLate, stack, proxied, lost, failed, joined, silent, behind>>

\* sendMsg() of the INVITE of a hold or a resume: a re-INVITE, that takes a leg
\* that is up to its other state, or the INVITE of the call once more.  (A proxy
\* that has answered that one does not pass it on.)
ReInvited(s, passed) ==
    CASE s.leg \in {"INCALL", "HOLD"} ->
            [Send(s, "INVITE", 0, s.cseq + 1) EXCEPT !.cseq = s.cseq + 1, !.leg = OtherLeg(s.leg)]
      [] s.leg = "C_TRYING" /\ passed -> Send(s, "INVITE", 0, s.request)
      [] OTHER -> s

\* G_HOLD and G_RESUME, in whatever state the call is.
ReInvite(u, c) ==
    LET s == Opened(u, c)
    IN  /\ ActiveCall(u, c) /\ HasSession(s) /\ reInvites[c] < MaxReInvite
        /\ Handled(u, c, {}, ReInvited(s, c \notin proxied \/ s.request > 1))
        /\ reInvites' = [reInvites EXCEPT ![c] = @ + 1]
        /\ UNCHANGED <<placed, answered, quit, tooLate, stack>> /\ UNCHANGED faultVars

\* The same when the session is not there, as in a call that rings.
ReInviteAborts(u, c) ==
    /\ ActiveCall(u, c) /\ ~HasSession(agent[u][c]) /\ reInvites[c] < MaxReInvite
    /\ Abort(u, "session")
    /\ reInvites' = [reInvites EXCEPT ![c] = @ + 1]
    /\ UNCHANGED <<placed, answered, quit, tooLate, stack, net, proxied, lost, failed,
                   joined, silent, behind>>

\* UaHardwareEvent AudioStop, DeviceEventHookDown: the device with number n is
\* done, and the call with that number is ended.
DeviceStop(u, n) ==
    LET c == callMap[u][n]
    IN  /\ u \in ServerUa /\ c # NoCall /\ IsUp(agent[u][c])
        /\ Handled(u, c, {}, DoBye(Opened(u, c)))
        /\ quit' = quit \cup {c}
        /\ UNCHANGED <<placed, reInvites, answered, tooLate, stack>> /\ UNCHANGED faultVars


\* CallControl::processEvent() of a message of a call that has an agent.
DeliverToAgent(u, m) ==
    LET s == Opened(u, m.call)
        t == IF m.code = 0 THEN RecvRequest(s, m) ELSE RecvStatus(s, m)
    IN  /\ agent[u][m.call] # NoAgent
        /\ UsesSession(s, m) => HasSession(s)
        /\ Handled(u, m.call, {m} \cup SameFinal(m), t)
        /\ UNCHANGED userVars /\ UNCHANGED faultVars

\* The same when the session it needs is not there.
DeliverAborts(u, m) ==
    /\ agent[u][m.call] # NoAgent
    /\ UsesSession(agent[u][m.call], m) /\ ~HasSession(agent[u][m.call])
    /\ Abort(u, "session")
    /\ net' = net \ {m}
    /\ UNCHANGED <<proxied, lost, failed, joined, silent, behind>> /\ UNCHANGED userVars

\* UaCallControl::processEvent() of an INVITE without one.
DeliverInvite(u, m) ==
    LET c == m.call
    IN  /\ agent[u][c] = NoAgent /\ m.code = 0 /\ m.method = "INVITE"
        /\ IF Busy(u) /\ u \notin ServerUa
           THEN /\ net' = (net \ {m}) \cup {Answer(m, 486, u)}
                /\ UNCHANGED <<agent, callMap, sessions, joined, silent, behind, answered>>
           ELSE /\ Handled(u, c, {m}, Incoming(u, c, m))
                /\ answered' = IF u \in ServerUa THEN answered \cup {c} ELSE answered
        /\ UNCHANGED <<placed, reInvites, quit, tooLate>> /\ UNCHANGED faultVars

\* UaCallControl::processEvent() of any other message without one.
DeliverOutOfDialog(u, m) ==
    /\ agent[u][m.call] = NoAgent /\ ~(m.code = 0 /\ m.method = "INVITE")
    /\ net' = (net \ ({m} \cup SameFinal(m))) \cup
              (IF m.code = 0 /\ m.method = "CANCEL" THEN {Answer(m, 501, u)} ELSE {})
    /\ UNCHANGED <<agent, callMap, sessions, joined, silent, behind>>
    /\ UNCHANGED userVars /\ UNCHANGED faultVars

\* The stack of the receiver, whose container for the call is d, takes request m:
\* an ACK or a CANCEL sets the CSeq, the others raise it once it is set.
Duplicate(d, m) == m.code = 0 /\ m.method = "INVITE" /\ m.cseq \in d.invites
Counted(d, m) ==
    /\ m.code = 0 /\ d.invites # {} /\ ~Duplicate(d, m) /\ m.cseq > d.seq
    /\ m.method \in {"ACK", "CANCEL"} \/ d.seq > 0
Recorded(d, m) ==
    [seq |-> IF Counted(d, m) THEN m.cseq ELSE d.seq,
     invites |-> IF m.code = 0 /\ m.method = "INVITE" THEN d.invites \cup {m.cseq} ELSE d.invites]

\* "Sequence number out of order"; the 400 is never sent.
OutOfOrder(d, m) ==
    m.code = 0 /\ m.method \in {"INVITE", "BYE"} /\ d.seq > 0 /\ m.cseq <= d.seq

\* A request that the stack does not hand up.
Refuse(d, m) ==
    /\ Duplicate(d, m) \/ OutOfOrder(d, m)
    /\ net' = net \ {m}
    /\ UNCHANGED <<agent, callMap, sessions, joined, silent, behind>>
    /\ UNCHANGED userVars /\ UNCHANGED faultVars

HandUp(u, m) ==
    /\ ~Duplicate(stack[u][m.call], m) /\ ~OutOfOrder(stack[u][m.call], m)
    /\ \/ DeliverToAgent(u, m) \/ DeliverAborts(u, m)
       \/ DeliverInvite(u, m) \/ DeliverOutOfDialog(u, m)

Deliver(m) ==
    LET u == Peer(m.call, m.from)
    IN  /\ aborted[u] = "none"
        /\ stack' = [stack EXCEPT ![u][m.call] = Recorded(@, m)]
        /\ Refuse(stack[u][m.call], m) \/ HandUp(u, m)

\* A proxy answers the first INVITE of a call instead of forwarding it.
ProxyAnswers(m, code) ==
    /\ m.code = 0 /\ m.method = "INVITE" /\ m.cseq = 1 /\ m.from = Caller[m.call]
    /\ m.call \notin proxied /\ m.cseq \notin stack[Callee[m.call]][m.call].invites
    /\ proxied' = proxied \cup {m.call}
    /\ net' = (net \ {m}) \cup {Answer(m, code, Peer(m.call, m.from))}
    /\ UNCHANGED <<agent, callMap, sessions, stack, aborted, lost, failed, joined, silent, behind>>
    /\ UNCHANGED userVars

Faults == Cardinality(lost) + Cardinality(failed)

\* A message gets lost for good, although the stack sends it more than once, or
\* there is nobody to receive it: nothing tells its sender.
Lose(m) ==
    /\ \/ Faults < MaxLost /\ lost' = lost \cup {m}
       \/ aborted[Peer(m.call, m.from)] # "none" /\ UNCHANGED lost
    /\ net' = net \ {m}
    /\ UNCHANGED <<agent, callMap, sessions, stack, aborted, proxied, failed, joined, silent, behind>>
    /\ UNCHANGED userVars

\* sendto() fails on a request: the stack answers it as if it had come back, with
\* 408, which is not acknowledged, or another code (404 for 400, 403 and 404).
SendFails(m, code) ==
    /\ m.code = 0 /\ m.method \in {"INVITE", "CANCEL"}
    /\ Faults < MaxLost /\ failed' = failed \cup {m}
    /\ net' = (net \ {m}) \cup {Answer(m, code, Peer(m.call, m.from))}
    /\ UNCHANGED <<agent, callMap, sessions, stack, aborted, proxied, lost, joined, silent, behind>>
    /\ UNCHANGED userVars

Next ==
    \/ \E c \in Call : InitiateInvite(c)
    \/ \E u \in Ua, c \in Call : \/ Accept(u, c) \/ Stop(u, c) \/ Purge(u, c)
                                \/ BusyAborts(u, c) \/ ReInvite(u, c) \/ ReInviteAborts(u, c)
    \/ \E u \in Ua, n \in Number : DeviceStop(u, n)
    \/ \E m \in net : \/ Deliver(m) \/ Lose(m)
                      \/ \E code \in ProxyCode : ProxyAnswers(m, code)
                      \/ \E code \in {404, 408} : SendFails(m, code)

Spec == UaInit /\ [][Next]_vars

\* The event loop of a user agent takes every message the stack hands up, in its
\* turn; nothing is assumed of users, proxies and losses.
FairSpec == Spec /\ WF_vars(\E m \in net : Deliver(m))
-----------------------------------------------------------------------------
(* Properties. *)

\* The variables have the types of the members of the classes.
TypeOK ==
    /\ agent \in [Ua -> [Call -> Agent \cup {NoAgent}]]
    /\ callMap \in [Ua -> [Number -> Call \cup {NoCall}]]
    /\ sessions \in [Ua -> [Call -> Nat]]
    /\ stack \in [Ua -> [Call -> Container]]
    /\ net \subseteq Msg
    /\ aborted \in [Ua -> Assertion]
    /\ {placed, proxied, answered, joined, quit, silent, behind} \subseteq SUBSET Call
    /\ reInvites \in [Call -> 0..MaxReInvite]
    /\ lost \subseteq Msg /\ failed \subseteq Msg
    /\ tooLate \subseteq Ua \X Call

\* A re-INVITE that arrives at a user agent that has no agent for it any more
\* makes the telephone ring again.
RingsAgain(u, c) == agent[u][c].ctl = "UAS_RINGING" /\ reInvites[c] > 0

\* The two state machines of an agent agree: the control state is that of a
\* call that is up when the leg is, and a call that is being set up has a leg
\* that waits for an answer, or that has failed (unless it rings again).
LegFollowsControl ==
    \A u \in Ua, c \in Call :
        agent[u][c] # NoAgent /\ ~RingsAgain(u, c) =>
        agent[u][c].leg \in CASE agent[u][c].ctl \in {"IN_CALL", "IN_HOLD"} -> {"INCALL", "HOLD"}
                              [] agent[u][c].ctl = "TRYING" -> {"C_TRYING", "REDIRECT", "FAILURE"}
                              [] OTHER -> {"RINGING", "FAILURE"}

\* "Persist the agent for the duration of the call": an agent in CallDB is in
\* myCallMap under its number until it is deleted, so that commands and device
\* events with this number reach this call and no other.  (A server takes calls
\* while it has others, and numbers them by how many there are: with a third
\* caller after a first one left, two calls have the same number.)
AgentPersisted ==
    \A u \in Ua \ ServerUa, c \in Call :
        agent[u][c] # NoAgent => callMap[u][agent[u][c].id] = c

\* A call that is up has a media session until it ends, whatever else happens
\* to it: hold, resume, answers that come late.
InCallHasSession ==
    \A u \in Ua, c \in Call :
        IsUp(agent[u][c]) => HasSession(agent[u][c]) /\ sessions[u][c] > 0

\* The assertions of MediaController that a session exists hold as long as no
\* call is put on hold: every message that needs a session, a late 200 as well
\* as one that crosses a CANCEL, finds it.  (A re-INVITE that crosses the end of
\* its call finds none.)
SessionAtHand ==
    \A u \in Ua : aborted[u] = "session" => \E c \in Call : reInvites[c] > 0

\* Sessions, and with them RTP ports, are not leaked: one is open only for the
\* agent that owns it, unless a call was accepted that did not ring any more.
MediaReleased ==
    \A u \in {v \in Ua : aborted[v] = "none"}, c \in Call :
        sessions[u][c] = (IF agent[u][c] # NoAgent /\ agent[u][c].own /\ ~agent[u][c].freed
                          THEN 1 ELSE 0) + (IF <<u, c>> \in tooLate THEN 1 ELSE 0)

Quiet(c) == \A m \in net : m.call # c
Lossless(c) == \A m \in lost : m.call # c
Undisturbed(c) == Lossless(c) /\ \A m \in failed : m.call # c

\* A call both sides were in, and nobody hung up, stays up on both sides,
\* however its messages were reordered (calls without hold or resume).
StaysUp ==
    \A c \in joined \ quit :
        reInvites[c] = 0 /\ Undisturbed(c) =>
            IsUp(agent[Caller[c]][c]) /\ IsUp(agent[Callee[c]][c])

\* The same of every call: to hold a call and to resume it do not end it.
HoldKeepsCall ==
    \A c \in joined \ quit :
        Undisturbed(c) => IsUp(agent[Caller[c]][c]) /\ IsUp(agent[Callee[c]][c])

\* A call both sides were in ends on both: once its messages have arrived, one
\* side has an agent only if the other has.  Excepted are the calls whose callee
\* hung up before the ACK came, and sent no BYE, and those whose INVITE had to be
\* authenticated and was answered with 200 before 180: the BYE of the caller has
\* then the number of its ACK, and is refused (calls without hold or resume).
EndsOnBothSides ==
    \A c \in joined \ (silent \cup behind) :
        Quiet(c) /\ reInvites[c] = 0 /\ Undisturbed(c) =>
            (agent[Caller[c]][c] = NoAgent <=> agent[Callee[c]][c] = NoAgent)

\* A caller that has cancelled a call is rid of it in the end, also when the CANCEL
\* or its INVITE cannot be sent, crosses another answer or arrives first, unless
\* the call was accepted first, a message got lost, or the callee's process ended.
CancelEnds ==
    \A c \in Call :
        /\ agent[Caller[c]][c] # NoAgent
        /\ agent[Caller[c]][c].leg = "FAILURE"
        ~> \/ agent[Caller[c]][c] = NoAgent \/ c \in answered
           \/ ~Lossless(c) \/ aborted[Callee[c]] # "none"
=============================================================================
