--------------------------- MODULE MCRtpReceiver ----------------------------
(* Transmitters, and the packets they send, for the runs of RtpReceiver. *)
EXTENDS RtpReceiver, TLC

CONSTANTS s1, s2

\* Two transmitters: the sequence numbers of the first wrap, and one of its
\* packets is not voice or follows a pause; the second sends one packet.
Start == (s1 :> SeqMod - 3) @@ (s2 :> 4)
TwoTalkers == (s1 :> 6) @@ (s2 :> 1)
OddOfFirst == (s1 :> 1) @@ (s2 :> 0)

\* One transmitter, and one event.
StartOne == (s1 :> SeqMod - 3)
OneTalker == (s1 :> 4)
OneEvent == (s1 :> 1)

=============================================================================
