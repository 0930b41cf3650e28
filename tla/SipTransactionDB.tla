-------------------------- MODULE SipTransactionDB --------------------------
(***************************************************************************)
(* What the two transaction databases share: a table of call containers,   *)
(* each with a purge timer, swept by SipTransceiver::tick every            *)
(* PurgePeriod.  The contents of a call container differ between the       *)
(* databases and are in SipSentRequestDB and SipSentResponseDB.            *)
(***************************************************************************)
EXTENDS SipUdpConnection

CONSTANTS
    PurgeDelay,   \* 10 s: from BYE, CANCEL or the end of a call leg to its purge
    PurgePeriod,  \* 5 s: between two sweeps of the tables
    Proxy         \* myAppContext = APP_CONTEXT_PROXY

ASSUME PurgeAssumption == PurgeDelay \in Nat /\ PurgePeriod \in Nat
ASSUME ProxyAssumption == Proxy \in BOOLEAN

VARIABLES
    released,    \* calls whose leg (UaBase) has been deleted
    armed,       \* calls whose purgeAt is not 0
    purgeIn,     \* purgeAt - now, and -1 once now is past it
    sincePurge   \* now - lastPurge, up to the first value that starts a sweep

purgeVars == <<released, armed, purgeIn, sincePurge>>

PurgeTypeOK ==
    /\ released \subseteq Call
    /\ armed \subseteq Call
    /\ purgeIn \in [Call -> -1..PurgeDelay]
    /\ sincePurge \in 0..(PurgePeriod + 1)

\* lastPurge starts at 0, long before any real time.
PurgeInit ==
    /\ released = {}
    /\ armed = {}
    /\ purgeIn = [k \in Call |-> 0]
    /\ sincePurge = PurgePeriod + 1

\* SipCallContainer::setPurgeTimer(now + 10 s)
SetPurgeTimer(k) ==
    /\ armed' = armed \cup {k}
    /\ purgeIn' = [purgeIn EXCEPT ![k] = PurgeDelay]
    /\ UNCHANGED sincePurge

\* UaBase::~UaBase calls setCallPurgeTimer, which does nothing for a call
\* that the table does not have.
DeleteLeg(k, inTable) ==
    /\ k \notin released
    /\ released' = released \cup {k}
    /\ IF inTable THEN SetPurgeTimer(k) ELSE UNCHANGED <<armed, purgeIn, sincePurge>>

SweepDue == sincePurge > PurgePeriod

\* Mutant of Expired: the counter never gets that far.
NeverExpired(k) == k \in armed /\ purgeIn[k] < -1

Expired(k) == k \in armed /\ purgeIn[k] < 0

\* The part of a sweep common to both tables.
SweepTimers ==
    /\ SweepDue
    /\ armed' = {k \in armed : ~ Expired(k)}
    /\ sincePurge' = 0
    /\ UNCHANGED <<released, purgeIn>>

PurgeElapse ==
    /\ purgeIn' = [k \in Call |->
                     IF k \in armed /\ purgeIn[k] >= 0 THEN purgeIn[k] - 1 ELSE purgeIn[k]]
    /\ sincePurge' = IF SweepDue THEN sincePurge ELSE sincePurge + 1
    /\ UNCHANGED <<released, armed>>

=============================================================================
