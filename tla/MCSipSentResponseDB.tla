------------------------ MODULE MCSipSentResponseDB -------------------------
(* Model values and request sets for the runs of SipSentResponseDB. *)
EXTENDS SipSentResponseDB, TLC

CONSTANTS k1

Tid(n, m) == [call |-> k1, seq |-> n, method |-> m]

\* A call with a late request, and its end.
OneInvite == {Tid(1, "INVITE"), Tid(1, "ACK"), Tid(1, "INFO"), Tid(2, "BYE")}

\* A call with a late request that the caller changes with a second INVITE.
SecondInvite == {Tid(1, "INVITE"), Tid(1, "ACK"), Tid(1, "INFO"), Tid(2, "INVITE")}

\* A call that the caller cancels.
Cancelled == {Tid(1, "INVITE"), Tid(1, "CANCEL"), Tid(1, "ACK")}

TheInvite == {Tid(1, "INVITE")}

Interchangeable == Permutations(Container)

=============================================================================
