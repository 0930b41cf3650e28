------------------------- MODULE ClientTransaction --------------------------
(***************************************************************************)
(* What the client half of the transaction layer promises of the requests  *)
(* it is given, whatever its heap, timers and tables do:                   *)
(*   - a request is transmitted up to MaxSends times and then falls        *)
(*     silent for good;                                                    *)
(*   - a status for it, or a CANCEL of its call, silences it earlier;      *)
(*   - its record goes from pending to answered to forgotten, and never    *)
(*     back; the answer both is recorded and silences the request.         *)
(* Forgetting the record of a request does not silence it.                 *)
(***************************************************************************)
EXTENDS Naturals

CONSTANTS
    Message,   \* the requests
    MaxSends   \* the most transmissions of one request

VARIABLES
    air,     \* "unsent", "sending" or "silent"
    sends,   \* transmissions so far
    record   \* "none", "pending", "answered" or "purged"

vars == <<air, sends, record>>

Init ==
    /\ air = [m \in Message |-> "unsent"]
    /\ sends = [m \in Message |-> 0]
    /\ record = [m \in Message |-> "none"]

OnRecord == {m \in Message : record[m] \in {"pending", "answered"}}

Silenced(S) == [m \in Message |-> IF m \in S THEN "silent" ELSE air[m]]

\* A request is accepted, with a record or without.  Accepting a recorded one
\* may silence earlier ones on record; it may itself be impossible to send.
Accept(m, S, outcome, entry) ==
    /\ air[m] = "unsent"
    /\ entry = "none" => S = {}
    /\ air' = [Silenced(S) EXCEPT ![m] = outcome]
    /\ record' = [record EXCEPT ![m] = entry]
    /\ UNCHANGED sends

Transmit(m) ==
    /\ air[m] = "sending"
    /\ sends' = [sends EXCEPT ![m] = @ + 1]
    /\ \/ air' = Silenced({m})
       \/ sends[m] + 1 < MaxSends /\ UNCHANGED air
    /\ UNCHANGED record

\* A status that is passed on or dropped.
Hear(m) ==
    /\ m \in OnRecord
    /\ air' = Silenced({m})
    /\ UNCHANGED <<sends, record>>

\* The final status that ends the transaction.
Answer(m) ==
    /\ record[m] = "pending"
    /\ record' = [record EXCEPT ![m] = "answered"]
    /\ air' = Silenced({m})
    /\ UNCHANGED sends

Forget(S) ==
    /\ record' = [m \in Message |-> IF m \in S THEN "purged" ELSE record[m]]
    /\ UNCHANGED <<air, sends>>

Next ==
    \/ \E S \in SUBSET OnRecord :
         \/ Forget(S)
         \/ \E m \in Message, outcome \in {"sending", "silent"}, entry \in {"none", "pending"} :
              Accept(m, S, outcome, entry)
    \/ \E m \in Message : Transmit(m) \/ Hear(m) \/ Answer(m)

Spec == Init /\ [][Next]_vars

=============================================================================
