------------------------------- MODULE SipMsg -------------------------------
(***************************************************************************)
(* SIP messages as the transaction layer of sip/sipstack sees them.        *)
(*                                                                         *)
(* The stack reads five things of a message: whether it is a request or a  *)
(* status, its call (SipCallId), its CSeq number and method, and a         *)
(* status's code.  Headers, bodies and routing are left out.               *)
(***************************************************************************)
EXTENDS Integers

CONSTANTS
    Call,        \* call-ids
    CSeq,        \* CSeq numbers (a number stands for the number and the Via branch)
    StatusCode,  \* status codes that occur
    NoMsg        \* a container's null message pointer

ASSUME CSeqAssumption == CSeq \subseteq Nat \ {0}
ASSUME StatusCodeAssumption == StatusCode \subseteq 100..699

\* INFO stands for every request that the stack gives no special treatment.
Method == {"INVITE", "ACK", "CANCEL", "BYE", "INFO"}

\* Two ids are equal when To, From, Call-ID, CSeq, branch and method are.
SipTransactionId == [call : Call, seq : CSeq, method : Method]

Request == [kind : {"request"}, tid : SipTransactionId, code : {0}]

StatusMsg == [kind : {"status"}, tid : SipTransactionId, code : StatusCode]

SipMessage == Request \cup StatusMsg

ASSUME NoMsgAssumption == NoMsg \notin SipMessage

MkRequest(tid) == [kind |-> "request", tid |-> tid, code |-> 0]

\* The StatusMsg built from a command copies the fields that make up its id.
MkStatus(tid, code) == [kind |-> "status", tid |-> tid, code |-> code]

IsFinal(code) == code >= 200

\* StatusMsg::toBeRetransmitted
ToBeRetransmitted(status) ==
    status.tid.method = "INVITE" /\ IsFinal(status.code)

=============================================================================
