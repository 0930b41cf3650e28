---------------------------- MODULE MCCdrServer -----------------------------
(* Calls, marshals and what happens to the calls, for the runs of CdrServer. *)
EXTENDS CdrServer, TLC

CONSTANTS c1, c2, m1, m2

\* The first call passes both marshals, the second one of them.
BothAndOne == (c1 :> {m1, m2}) @@ (c2 :> {m1})
Synchronised == (m1 :> 0) @@ (m2 :> 0)
SecondAhead == (m1 :> 0) @@ (m2 :> 1)
RingAndTalk == (c1 :> <<"ring", "start", "end">>) @@ (c2 :> <<"start", "end">>)

\* One call, which passes both marshals.
Both == (c1 :> {m1, m2})
Talk == (c1 :> <<"start", "end">>)

=============================================================================
