----------------------------- MODULE CdrServer ------------------------------
(***************************************************************************)
(* The call detail record server: marshals report the events of a call     *)
(* over TCP (CdrMarshal), CdrCache correlates the reports of one call and  *)
(* writes a bill into the billing file when the call ends, CdrFileHandler  *)
(* rolls that file over into an unsent one, and CdrBilling hands the bills *)
(* of unsent files to the RADIUS client (MindClient, RadiusStack), renames *)
(* the files and keeps the rejected bills in an error file.                *)
(*                                                                         *)
(* The server is one loop; a crash loses what it holds in memory and the   *)
(* connections, never the files.  Every marshal on the path of a call      *)
(* reports it, under the same call id, with the time of its own clock.     *)
(* Only bills are kept of the contents of files: nothing reads the others. *)
(***************************************************************************)
EXTENDS Integers, Sequences, FiniteSets, SequencesExt

CONSTANTS
    Call,         \* calls, named by their call ids
    Marshal,      \* marshals, one connection each
    Path,         \* the marshals that report a call
    Skew,         \* how far the clock of a marshal is ahead of the server's
    Script,       \* the events of a call, in the order they happen
    BillRing,     \* m_billRingTime
    BillLife,     \* CDR_BILL_LIFE
    MaxLife,      \* CDR_MAX_LIFE
    Word,         \* times are unsigned: differences are modulo Word
    MaxClock,     \* the clock stops here, a bound
    MaxDelay,     \* a report is received within this time
    RequestIds,   \* RADIUS request ids, 256 in the code
    StorageLimit, \* unsent files that reach BILLING_MAX_TOTAL_SIZE
    MaxFaults,    \* crashes and short reads, a bound
    NoCall        \* a call that is not in the cache

ASSUME CdrPathAssumption ==
    /\ Path \in [Call -> SUBSET Marshal]
    /\ Skew \in [Marshal -> 0..MaxClock]
    /\ Script \in [Call -> Seq({"ring", "start", "end"})]
ASSUME CdrTimeAssumption ==
    /\ {BillLife, MaxLife, MaxClock, MaxDelay, MaxFaults, StorageLimit} \subseteq Nat
    /\ MaxClock > 0
    /\ Word \in Nat /\ Word > 2 * MaxClock
ASSUME CdrRadiusAssumption == RequestIds \in Nat \ {0}
ASSUME CdrFlagAssumption == BillRing \in BOOLEAN

VARIABLES
    progress,   \* events of each call that have happened
    stream,     \* reports on their way from each marshal
    clock,      \* time(0)
    cache,      \* m_cdrMap
    bills,      \* number of bills written for each call
    billFile,   \* the bills in the current billing file
    unsent,     \* files that were rolled over
    job,        \* the file being sent and the bills of it dealt with
    sent,       \* files that were renamed after they were sent
    deleted,    \* files that were deleted to free space
    mind,       \* MindClient::m_instance # 0
    pending,    \* number of request ids in pendingMessages
    handed,     \* how often each bill went to the RADIUS server
    errorFile,  \* bills in the error file
    errHandle,  \* errorFile and errFileBusted of this process
    unkept,     \* bills that were refused and not written to the error file
    crashes,
    drops       \* short reads so far

vars == <<progress, stream, clock, cache, bills, billFile, unsent, job, sent, deleted,
          mind, pending, handed, errorFile, errHandle, unkept, crashes, drops>>

marshalVars == <<progress, clock, crashes, drops>>
cacheVars == <<cache, bills>>
errorVars == <<errorFile, errHandle, unkept>>
billingVars == <<unsent, job, sent, deleted, mind, pending, handed, errorVars>>

\* The bills of one call, a bound that no run reaches.
MaxBills == 4
Bill == Call \X (1..MaxBills)

Report == [call : Call, event : {"ring", "start", "end"}, time : 1..(2 * MaxClock + 1)]
CacheEntry == [event : {"ring", "start", "bill"}, start : Nat, end : Nat]
NoJob == [file |-> <<>>, done |-> 0]

ASSUME CdrNoCallAssumption == NoCall \notin CacheEntry

\* The loop is not inside sendBillingRecords(), so other events are handled.
BillingIdle == job = NoJob

CdrInit ==
    /\ progress = [c \in Call |-> 0]
    /\ stream = [m \in Marshal |-> <<>>]
    /\ clock = 1
    /\ cache = [c \in Call |-> NoCall]
    /\ bills = [c \in Call |-> 0]
    /\ billFile = <<>>
    /\ unsent = {} /\ sent = {} /\ deleted = {} /\ errorFile = {} /\ unkept = {}
    /\ errHandle = "closed"
    /\ job = NoJob
    /\ mind = FALSE /\ pending = 0
    /\ handed = [b \in Bill |-> 0]
    /\ crashes = 0 /\ drops = 0

-----------------------------------------------------------------------------
(* The calls, the marshals and time *)

\* Something happens to a call: every marshal on its path reports it.
CallEvent(c) ==
    LET event == Script[c][progress[c] + 1]
        report(m) == [call |-> c, event |-> event, time |-> clock + Skew[m]]
    IN  /\ progress[c] < Len(Script[c])
        /\ progress' = [progress EXCEPT ![c] = @ + 1]
        /\ stream' = [m \in Marshal |->
                         IF m \in Path[c] THEN Append(stream[m], report(m)) ELSE stream[m]]
        /\ UNCHANGED <<clock, crashes, drops, cacheVars, billFile, billingVars>>

Tick ==
    /\ clock < MaxClock
    /\ \A m \in Marshal :
          stream[m] # <<>> => clock + Skew[m] - Head(stream[m]).time < MaxDelay
    /\ clock' = clock + 1
    /\ UNCHANGED <<progress, crashes, drops, stream, cacheVars, billFile, billingVars>>

-----------------------------------------------------------------------------
(* CdrCache *)

\* CdrRadius::update(), for the fields that the cache looks at again.
Update(entry, r) ==
    IF r.event = "end" THEN [entry EXCEPT !.end = r.time]
    ELSE [event |-> r.event, start |-> r.time, end |-> 0]

\* Whether a report opens a record, or refreshes it.
Opens(r) == r.event = "start" \/ (r.event = "ring" /\ BillRing)

\* The call has been billed: reports that follow are out of order.
AlreadyBilled(c) == cache[c] # NoCall /\ cache[c].event = "bill"

\* CdrCache::add(), for a call that is in the cache.
AddKnown(r) ==
    LET c == r.call
        bill == <<c, bills[c] + 1>>
    IN  /\ cache[c] # NoCall
        /\ \/ /\ AlreadyBilled(c)
              /\ UNCHANGED <<cacheVars, billFile>>
           \/ /\ ~AlreadyBilled(c)
              /\ r.event # "end"
              /\ cache' = IF Opens(r) THEN [cache EXCEPT ![c] = Update(@, r)] ELSE cache
              /\ UNCHANGED <<bills, billFile>>
           \/ /\ ~AlreadyBilled(c)
              /\ r.event = "end"
              /\ bills[c] < MaxBills
              /\ cache' = [cache EXCEPT ![c] = [Update(@, r) EXCEPT !.event = "bill"]]
              /\ bills' = [bills EXCEPT ![c] = @ + 1]
              /\ billFile' = Append(billFile, bill)

\* CdrCache::add(), for a call that is not: the end of a call nobody knows is
\* in the billing file, but not billed.
AddUnknown(r) ==
    /\ cache[r.call] = NoCall
    /\ cache' = IF Opens(r) /\ r.time > 0
                THEN [cache EXCEPT ![r.call] = Update([event |-> "start", start |-> 0, end |-> 0], r)]
                ELSE cache
    /\ UNCHANGED <<bills, billFile>>

\* CdrMarshal::getData() takes the reports that have arrived, one at a time.
Receive(m) ==
    /\ BillingIdle
    /\ stream[m] # <<>>
    /\ AddKnown(Head(stream[m])) \/ AddUnknown(Head(stream[m]))
    /\ stream' = [stream EXCEPT ![m] = Tail(@)]
    /\ UNCHANGED <<marshalVars, billingVars>>

\* A read brings less than a report: getData() closes the connection, and
\* what is on its way is lost.
ShortRead(m) ==
    /\ BillingIdle
    /\ stream[m] # <<>> /\ crashes + drops < MaxFaults
    /\ stream' = [stream EXCEPT ![m] = <<>>]
    /\ drops' = drops + 1
    /\ UNCHANGED <<progress, clock, crashes, cacheVars, billFile, billingVars>>

\* The differences of unsigned times.
Elapsed(t) == (clock - t) % Word

\* Mutant of Purgeable: the life of a billed record does not count.
PurgeableOnceBilled(entry) ==
    \/ entry.event = "bill"
    \/ entry.end # 0 /\ Elapsed(entry.end) > MaxLife
    \/ entry.end = 0 /\ Elapsed(entry.start) > MaxLife

Purgeable(entry) ==
    \/ entry.event = "bill" /\ Elapsed(entry.end) > BillLife
    \/ entry.end # 0 /\ Elapsed(entry.end) > MaxLife
    \/ entry.end = 0 /\ Elapsed(entry.start) > MaxLife

\* CdrCache::purgeCache()
PurgeCache ==
    LET old == {c \in Call : cache[c] # NoCall /\ Purgeable(cache[c])}
    IN  /\ BillingIdle /\ old # {}
        /\ cache' = [c \in Call |-> IF c \in old THEN NoCall ELSE cache[c]]
        /\ UNCHANGED <<marshalVars, stream, bills, billFile, billingVars>>

\* Mutant of CheckFileSize: the new name is that of an earlier unsent file.
CheckFileSizeOverwrites ==
    /\ BillingIdle /\ billFile # <<>>
    /\ unsent' = {billFile}
    /\ billFile' = <<>>
    /\ UNCHANGED <<marshalVars, stream, cacheVars, job, sent, deleted, mind,
                   pending, handed, errorVars>>

\* CdrFileHandler::checkFileSize(): the size or the age of the billing file
\* has reached its limit.
CheckFileSize ==
    /\ BillingIdle /\ billFile # <<>>
    /\ unsent' = unsent \cup {billFile}
    /\ billFile' = <<>>
    /\ UNCHANGED <<marshalVars, stream, cacheVars, job, sent, deleted, mind,
                   pending, handed, errorVars>>

-----------------------------------------------------------------------------
(* CdrBilling, MindClient and RadiusStack *)

\* Mutant of Taken: an id in use is given away again.
TakenUnbounded(n) == pending + n

\* The request ids in use after n more were wanted (RadiusStack::findNextId).
Taken(n) == IF pending + n < RequestIds THEN pending + n ELSE RequestIds

\* MindClient::initialize() succeeds, once: it sends Accounting-On.
MindInitialize ==
    /\ ~mind
    /\ mind' = TRUE
    /\ pending' = Taken(1)
    /\ UNCHANGED <<marshalVars, stream, cacheVars, billFile, unsent, job, sent, deleted,
                   handed, errorVars>>

\* sendBillingRecords() takes the next file of the directory.
OpenFile(f) ==
    /\ mind /\ BillingIdle
    /\ f \in unsent
    /\ job' = [file |-> f, done |-> 0]
    /\ UNCHANGED <<marshalVars, stream, cacheVars, billFile, unsent, sent, deleted, mind,
                   pending, handed, errorVars>>

\* accountingStartCall() and accountingStopCall() queue four requests, since
\* m_connected is never set: Accounting-On precedes each of the two.  No
\* response is read while this program runs: pendingMessages only fills up.
Accounted == pending + 4 <= RequestIds

\* A bill that is refused goes to the error file, which the first one opens.  If
\* that fails, it and those that follow are written nowhere: errFileBusted is
\* not reset as long as the process runs.
Refuse(bill) ==
    \/ /\ errHandle # "busted"
       /\ errHandle' = "open"
       /\ errorFile' = errorFile \cup {bill}
       /\ UNCHANGED unkept
    \/ /\ errHandle # "open"
       /\ errHandle' = "busted"
       /\ unkept' = unkept \cup {bill}
       /\ UNCHANGED errorFile

\* Mutant of SendBill: a refused bill is not written to the error file.
SendBillForgetsRejected ==
    LET bill == job.file[job.done + 1]
    IN  /\ job.done < Len(job.file)
        /\ handed' = IF Accounted THEN [handed EXCEPT ![bill] = @ + 1] ELSE handed
        /\ pending' = Taken(4)
        /\ job' = [job EXCEPT !.done = @ + 1]
        /\ UNCHANGED <<marshalVars, stream, cacheVars, billFile, unsent, sent, deleted, mind, errorVars>>

SendBill ==
    LET bill == job.file[job.done + 1]
    IN  /\ job.done < Len(job.file)
        /\ IF Accounted THEN handed' = [handed EXCEPT ![bill] = @ + 1] /\ UNCHANGED errorVars
           ELSE UNCHANGED handed /\ Refuse(bill)
        /\ pending' = Taken(4)
        /\ job' = [job EXCEPT !.done = @ + 1]
        /\ UNCHANGED <<marshalVars, stream, cacheVars, billFile, unsent, sent, deleted, mind>>

\* Mutant of RenameFile: the file keeps its name, and is sent again.
RenameFileNot ==
    /\ ~BillingIdle /\ job.done = Len(job.file)
    /\ job' = NoJob
    /\ UNCHANGED <<marshalVars, stream, cacheVars, billFile, unsent, sent, deleted, mind,
                   pending, handed, errorVars>>

RenameFile ==
    /\ ~BillingIdle /\ job.done = Len(job.file)
    /\ job' = NoJob
    /\ unsent' = unsent \ {job.file}
    /\ sent' = sent \cup {job.file}
    /\ UNCHANGED <<marshalVars, stream, cacheVars, billFile, deleted, mind, pending, handed, errorVars>>

\* deleteOldestFiles(), while the RADIUS client cannot be set up: nothing
\* initialises lastConnectTime, so the 72 hours may be over at once.
DeleteOldestFiles ==
    /\ ~mind /\ Cardinality(unsent) >= StorageLimit
    /\ \E old \in (SUBSET unsent) \ {{}} :
          unsent' = unsent \ old /\ deleted' = deleted \cup old
    /\ UNCHANGED <<marshalVars, stream, cacheVars, billFile, job, sent, mind, pending,
                   handed, errorVars>>

\* The process dies and is started again: what the marshals had sent and the
\* server had not read is lost with the connections.
Crash ==
    /\ crashes + drops < MaxFaults
    /\ crashes' = crashes + 1
    /\ stream' = [m \in Marshal |-> <<>>]
    /\ cache' = [c \in Call |-> NoCall]
    /\ job' = NoJob
    /\ mind' = FALSE
    /\ pending' = 0
    /\ errHandle' = "closed"
    /\ UNCHANGED <<progress, clock, drops, bills, billFile, unsent, sent, deleted, handed,
                   errorFile, unkept>>

Next ==
    \/ \E c \in Call : CallEvent(c)
    \/ Tick
    \/ \E m \in Marshal : Receive(m) \/ ShortRead(m)
    \/ PurgeCache
    \/ CheckFileSize
    \/ MindInitialize
    \/ \E f \in unsent : OpenFile(f)
    \/ SendBill
    \/ RenameFile
    \/ DeleteOldestFiles
    \/ Crash

Spec == CdrInit /\ [][Next]_vars

\* The loop never stops calling tick(): connections are read, the billing
\* file ages, the RADIUS client can be set up, unsent files are sent.
Fairness ==
    /\ \A m \in Marshal : WF_vars(Receive(m))
    /\ WF_vars(CheckFileSize)
    /\ WF_vars(MindInitialize)
    /\ WF_vars(\E f \in unsent : OpenFile(f))
    /\ WF_vars(SendBill)
    /\ WF_vars(RenameFile)

FairSpec == Spec /\ Fairness

-----------------------------------------------------------------------------
(* Properties *)

\* The variables have the types of the members; the RADIUS ids in use never exceed
\* what findNextId() has to give, and no file is sent past its end.
TypeOK ==
    /\ progress \in [Call -> Nat]
    /\ \A c \in Call : progress[c] <= Len(Script[c])
    /\ stream \in [Marshal -> Seq(Report)]
    /\ clock \in 1..MaxClock
    /\ cache \in [Call -> CacheEntry \cup {NoCall}]
    /\ bills \in [Call -> 0..MaxBills]
    /\ billFile \in Seq(Bill)
    /\ \A f \in unsent \cup sent \cup deleted : f \in Seq(Bill)
    /\ job \in [file : Seq(Bill), done : Nat] /\ job.done <= Len(job.file)
    /\ mind \in BOOLEAN /\ pending \in 0..RequestIds
    /\ handed \in [Bill -> Nat]
    /\ errorFile \subseteq Bill /\ unkept \subseteq Bill
    /\ errHandle \in {"closed", "open", "busted"}
    /\ crashes \in 0..MaxFaults /\ drops \in 0..MaxFaults

\* Two marshals report one call, at different speeds, and the cache is purged
\* meanwhile: the call is billed once, unless a crash made the server forget.
BilledOnce == crashes = 0 => \A c \in Call : bills[c] <= 1

BillsOf(files) == UNION {ToSet(f) : f \in files}

\* A file that was renamed as sent holds no bill that was neither handed to
\* the RADIUS client nor kept in the error file, crashes included, unless the
\* error file could not be opened when the bill was refused.
SentIsAccountedFor ==
    \A b \in BillsOf(sent) : handed[b] > 0 \/ b \in errorFile \cup unkept

\* Every bill written is in the billing file or in an unsent, a sent or a
\* deleted one, and in one of them only.
BillsKept ==
    \A c \in Call : \A n \in 1..bills[c] :
        Cardinality({f \in unsent \cup sent \cup deleted \cup {billFile} : <<c, n>> \in ToSet(f)}) = 1

\* A bill is handed over, or refused, a second time only after a crash between
\* that and the renaming of its file.
AccountedOncePerRun ==
    \A b \in Bill : handed[b] + (IF b \in errorFile THEN 1 ELSE 0)
                              + (IF b \in unkept THEN 1 ELSE 0) <= 1 + crashes

\* A call whose end the server got while it had the call in its cache is in
\* the end handed to the RADIUS client or kept in the error file, unless that
\* could not be opened, or the file of the bill is deleted while the RADIUS
\* server cannot be reached.
BilledIsAccountedFor ==
    \A c \in Call :
        bills[c] > 0 ~> (handed[<<c, 1>>] > 0
                         \/ <<c, 1>> \in errorFile \cup unkept \cup BillsOf(deleted))

=============================================================================
