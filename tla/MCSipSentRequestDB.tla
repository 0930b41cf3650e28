------------------------- MODULE MCSipSentRequestDB -------------------------
(* Model values and request sets for the runs of SipSentRequestDB. *)
EXTENDS SipSentRequestDB, TLC

CONSTANTS k1, k2

Tid(k, n, m) == [call |-> k, seq |-> n, method |-> m]

\* A call that is set up, acknowledged and cancelled, and a request of another.
TwoCalls == {Tid(k1, 1, "INVITE"), Tid(k1, 1, "ACK"), Tid(k1, 1, "CANCEL"), Tid(k2, 1, "INFO")}

\* A call set up and ended.
SetUpAndEnd == {Tid(k1, 1, "INVITE"), Tid(k1, 2, "BYE")}

TheInfo == {Tid(k2, 1, "INFO")}

Interchangeable == Permutations(Container)

=============================================================================
