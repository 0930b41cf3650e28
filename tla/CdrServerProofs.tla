-------------------------- MODULE CdrServerProofs ---------------------------
(***************************************************************************)
(* Proofs about CdrServer, for any calls, marshals, paths, clocks and      *)
(* number of request ids, and any number of crashes.                       *)
(***************************************************************************)
EXTENDS CdrServer, FiniteSetTheorems, TLAPS

-----------------------------------------------------------------------------
(* Type correctness, one lemma for each part of the server.                *)

LEMMA Bounds == MaxClock \in Nat /\ MaxClock > 0 /\ MaxFaults \in Nat
BY CdrTimeAssumption

\* What add() leaves in the cache and in the billing file has its type.
LEMMA AddType ==
    ASSUME TypeOK, NEW r \in Report, AddKnown(r) \/ AddUnknown(r)
    PROVE  /\ cache' \in [Call -> CacheEntry \cup {NoCall}]
           /\ bills' \in [Call -> 0..MaxBills]
           /\ billFile' \in Seq(Bill)
<1> DEFINE c == r.call
<1>1. /\ c \in Call
      /\ r.event \in {"ring", "start", "end"}
      /\ r.time \in Nat
  BY CdrTimeAssumption DEF Report
<1>2. cache[c] \in CacheEntry \cup {NoCall} /\ bills[c] \in 0..MaxBills
  BY <1>1 DEF TypeOK
<1>3. CASE AddUnknown(r)
  <2>1. Opens(r) => Update([event |-> "start", start |-> 0, end |-> 0], r) \in CacheEntry
    BY <1>1 DEF Opens, Update, CacheEntry
  <2> QED  BY <1>1, <1>3, <2>1 DEF AddUnknown, TypeOK, cacheVars
<1>4. CASE AddKnown(r)
  <2>1. cache[c] \in CacheEntry
    BY <1>2, <1>4 DEF AddKnown
  <2>2. Update(cache[c], r) \in CacheEntry
    BY <1>1, <2>1 DEF Update, CacheEntry
  <2>3. [Update(cache[c], r) EXCEPT !.event = "bill"] \in CacheEntry
    BY <2>2 DEF CacheEntry
  <2>4. cache' \in [Call -> CacheEntry \cup {NoCall}]
    BY <1>1, <1>4, <2>2, <2>3 DEF AddKnown, TypeOK, cacheVars
  <2>5. bills' \in [Call -> 0..MaxBills]
    BY <1>1, <1>2, <1>4 DEF AddKnown, TypeOK, cacheVars, MaxBills
  <2>6. bills[c] < MaxBills => <<c, bills[c] + 1>> \in Bill
    BY <1>1, <1>2 DEF Bill, MaxBills
  <2>7. \/ billFile' = billFile
        \/ bills[c] < MaxBills /\ billFile' = Append(billFile, <<c, bills[c] + 1>>)
    BY <1>4, Zenon DEF AddKnown, cacheVars
  <2>8. billFile \in Seq(Bill) /\ \A b \in Bill : Append(billFile, b) \in Seq(Bill)
    BY DEF TypeOK
  <2>9. billFile' \in Seq(Bill)
    BY <2>6, <2>7, <2>8, Zenon
  <2> QED  BY <2>4, <2>5, <2>9
<1> QED  BY <1>3, <1>4

\* An event of a call adds a report to the streams on its path.
LEMMA CallEventType ==
    ASSUME TypeOK, NEW c \in Call, CallEvent(c)
    PROVE  TypeOK'
<1> DEFINE event == Script[c][progress[c] + 1]
           report(m) == [call |-> c, event |-> event, time |-> clock + Skew[m]]
<1>1. event \in {"ring", "start", "end"}
  <2>1. progress[c] \in Nat /\ progress[c] < Len(Script[c])
    BY DEF CallEvent, TypeOK
  <2>2. Script[c] \in Seq({"ring", "start", "end"})
    BY CdrPathAssumption
  <2> QED  BY <2>1, <2>2
<1>2. \A m \in Marshal : report(m) \in Report
  <2> SUFFICES ASSUME NEW m \in Marshal  PROVE report(m) \in Report
    OBVIOUS
  <2>1. Skew[m] \in 0..MaxClock /\ clock \in 1..MaxClock
    BY CdrPathAssumption DEF TypeOK
  <2>2. clock + Skew[m] \in 1..(2 * MaxClock + 1)
    BY <2>1, Bounds
  <2> HIDE DEF event
  <2> QED  BY <1>1, <2>2 DEF Report
<1>3. stream' \in [Marshal -> Seq(Report)]
  BY <1>2 DEF CallEvent, TypeOK
<1>4. progress' \in [Call -> Nat] /\ \A d \in Call : progress'[d] <= Len(Script[d])
  BY CdrPathAssumption DEF CallEvent, TypeOK
<1> QED  BY <1>3, <1>4 DEF CallEvent, TypeOK, cacheVars, billingVars, errorVars

\* Reports, the clock and the purging of the cache keep the types.
LEMMA CacheStepType ==
    ASSUME TypeOK,
           Tick \/ PurgeCache \/ CheckFileSize \/ \E m \in Marshal : Receive(m) \/ ShortRead(m)
    PROVE  TypeOK'
<1>1. CASE Tick
  BY <1>1, Bounds DEF Tick, TypeOK, cacheVars, billingVars, errorVars
<1>2. CASE PurgeCache
  BY <1>2 DEF PurgeCache, TypeOK, marshalVars, billingVars, errorVars
<1>3. CASE CheckFileSize
  BY <1>3 DEF CheckFileSize, TypeOK, marshalVars, cacheVars, errorVars
<1>4. ASSUME NEW m \in Marshal, Receive(m)  PROVE TypeOK'
  <2>1. stream[m] \in Seq(Report) /\ stream[m] # <<>>
    BY <1>4 DEF Receive, TypeOK
  <2>2. Head(stream[m]) \in Report /\ Tail(stream[m]) \in Seq(Report)
    BY <2>1
  <2>3. /\ cache' \in [Call -> CacheEntry \cup {NoCall}]
        /\ bills' \in [Call -> 0..MaxBills]
        /\ billFile' \in Seq(Bill)
    BY <1>4, <2>2, AddType DEF Receive
  <2>4. stream' \in [Marshal -> Seq(Report)]
    BY <1>4, <2>2 DEF Receive, TypeOK
  <2> QED  BY <1>4, <2>3, <2>4 DEF Receive, TypeOK, marshalVars, billingVars, errorVars
<1>5. ASSUME NEW m \in Marshal, ShortRead(m)  PROVE TypeOK'
  BY <1>5, Bounds DEF ShortRead, TypeOK, cacheVars, billingVars, errorVars
<1> QED  BY <1>1, <1>2, <1>3, <1>4, <1>5

\* The bill that is sent next is a bill of the file.
LEMMA NextBill ==
    ASSUME TypeOK, job.done < Len(job.file)
    PROVE  job.done + 1 \in 1..Len(job.file) /\ job.file[job.done + 1] \in Bill
BY DEF TypeOK

\* The ids in use stay below what there is.
LEMMA TakenType ==
    ASSUME TypeOK, NEW n \in Nat
    PROVE  Taken(n) \in 0..RequestIds
BY CdrRadiusAssumption DEF Taken, TypeOK

LEMMA NoJobType == NoJob \in [file : Seq(Bill), done : Nat] /\ NoJob.done <= Len(NoJob.file)
BY DEF NoJob

\* A bill that is sent is handed over, or refused: kept in the error file or not.
LEMMA SendBillResult ==
    ASSUME SendBill
    PROVE  LET bill == job.file[job.done + 1]
           IN  \/ /\ handed' = [handed EXCEPT ![bill] = handed[bill] + 1]
                  /\ errorFile' = errorFile /\ unkept' = unkept
               \/ /\ handed' = handed
                  /\ \/ errorFile' = errorFile \cup {bill} /\ unkept' = unkept
                     \/ unkept' = unkept \cup {bill} /\ errorFile' = errorFile
BY DEF SendBill, Refuse, errorVars

\* Sending, renaming and deleting files, and a crash, keep the types.
LEMMA BillingStepType ==
    ASSUME TypeOK,
           \/ MindInitialize \/ SendBill \/ RenameFile \/ DeleteOldestFiles \/ Crash
           \/ \E f \in unsent : OpenFile(f)
    PROVE  TypeOK'
<1>1. CASE MindInitialize
  <2>1. Taken(1) \in 0..RequestIds
    BY TakenType
  <2> QED  BY <1>1, <2>1 DEF MindInitialize, TypeOK, marshalVars, cacheVars, errorVars
<1>2. CASE SendBill
  <2> DEFINE bill == job.file[job.done + 1]
  <2>1. Taken(4) \in 0..RequestIds
    BY TakenType
  <2>2. bill \in Bill
    BY <1>2, NextBill DEF SendBill
  <2>3. handed' \in [Bill -> Nat]
    <3>1. handed' = handed \/ handed' = [handed EXCEPT ![bill] = handed[bill] + 1]
      BY <1>2, SendBillResult
    <3>2. handed \in [Bill -> Nat]
      BY DEF TypeOK
    <3>3. bill \in Bill => handed[bill] + 1 \in Nat
      BY <3>2
    <3> HIDE DEF bill
    <3> QED  BY <2>2, <3>1, <3>2, <3>3
  <2>4. /\ errorFile' \subseteq Bill /\ unkept' \subseteq Bill
        /\ errHandle' \in {"closed", "open", "busted"}
    BY <1>2, <2>2 DEF SendBill, Refuse, TypeOK, errorVars
  <2>5. job' \in [file : Seq(Bill), done : Nat] /\ job'.done <= Len(job'.file)
    <3>1. /\ job \in [file : Seq(Bill), done : Nat]
          /\ job.done < Len(job.file)
          /\ job' = [job EXCEPT !.done = job.done + 1]
      BY <1>2 DEF SendBill, TypeOK
    <3>2. job'.file = job.file /\ job'.done = job.done + 1
      BY <3>1
    <3>3. job' \in [file : Seq(Bill), done : Nat]
      BY <3>1
    <3> QED  BY <3>1, <3>2, <3>3
  <2> QED  BY <1>2, <2>1, <2>3, <2>4, <2>5 DEF SendBill, TypeOK, marshalVars, cacheVars, errorVars
<1>3. CASE RenameFile
  BY <1>3 DEF RenameFile, TypeOK, NoJob, marshalVars, cacheVars, errorVars
<1>4. CASE DeleteOldestFiles
  BY <1>4 DEF DeleteOldestFiles, TypeOK, marshalVars, cacheVars, errorVars
<1>5. CASE Crash
  <2>1. stream' \in [Marshal -> Seq(Report)] /\ cache' \in [Call -> CacheEntry \cup {NoCall}]
    BY <1>5 DEF Crash
  <2>2. crashes' \in 0..MaxFaults /\ pending' \in 0..RequestIds
    BY <1>5, Bounds, CdrRadiusAssumption DEF Crash, TypeOK
  <2> QED  BY <1>5, <2>1, <2>2, NoJobType DEF Crash, TypeOK
<1>6. ASSUME NEW f \in unsent, OpenFile(f)  PROVE TypeOK'
  BY <1>6 DEF OpenFile, TypeOK, marshalVars, cacheVars, errorVars
<1> QED  BY <1>1, <1>2, <1>3, <1>4, <1>5, <1>6

LEMMA InitType == CdrInit => TypeOK
<1> SUFFICES ASSUME CdrInit  PROVE TypeOK
  OBVIOUS
<1>1. progress \in [Call -> Nat] /\ \A c \in Call : progress[c] <= Len(Script[c])
  BY CdrPathAssumption DEF CdrInit
<1>2. stream \in [Marshal -> Seq(Report)] /\ cache \in [Call -> CacheEntry \cup {NoCall}]
  BY DEF CdrInit
<1>3. bills \in [Call -> 0..MaxBills] /\ billFile \in Seq(Bill) /\ handed \in [Bill -> Nat]
  BY DEF CdrInit, MaxBills
<1>4. clock \in 1..MaxClock /\ pending \in 0..RequestIds
  BY Bounds, CdrRadiusAssumption DEF CdrInit
<1>5. crashes \in 0..MaxFaults /\ drops \in 0..MaxFaults
  BY Bounds DEF CdrInit
<1> QED  BY <1>1, <1>2, <1>3, <1>4, <1>5, NoJobType DEF CdrInit, TypeOK

LEMMA NextType == TypeOK /\ [Next]_vars => TypeOK'
<1> SUFFICES ASSUME TypeOK, [Next]_vars  PROVE TypeOK'
  OBVIOUS
<1>1. CASE UNCHANGED vars
  BY <1>1 DEF vars, TypeOK
<1>2. CASE Next
  BY <1>2, CallEventType, CacheStepType, BillingStepType DEF Next
<1> QED  BY <1>1, <1>2

\* The members keep their types in every behaviour: no file is sent past its
\* end, and the RADIUS ids never exceed what findNextId() has to give.
THEOREM TypeCorrect == Spec => []TypeOK
BY InitType, NextType, PTL DEF Spec

-----------------------------------------------------------------------------
(***************************************************************************)
(* Files that were renamed.  A file is renamed when the loop over its      *)
(* bills has ended, so the invariant has to say that the bills the loop    *)
(* has passed are accounted for; a crash forgets the loop, not the bills.  *)
(***************************************************************************)
AccountedFor(b) == handed[b] > 0 \/ b \in errorFile \cup unkept

JobAccounted == \A i \in 1..job.done : AccountedFor(job.file[i])

SentInv == SentIsAccountedFor /\ JobAccounted

LEMMA BillsOfFiles ==
    ASSUME NEW S, NEW b
    PROVE  b \in BillsOf(S) <=> \E f \in S : \E i \in DOMAIN f : f[i] = b
BY DEF BillsOf, ToSet

\* What was accounted for stays accounted for.
LEMMA AccountedStays ==
    ASSUME TypeOK, Next
    PROVE  \A b \in Bill : AccountedFor(b) => handed'[b] > 0 \/ b \in errorFile' \cup unkept'
<1>1. CASE SendBill
  <2> DEFINE bill == job.file[job.done + 1]
  <2>1. bill \in Bill /\ handed \in [Bill -> Nat]
    BY <1>1, NextBill DEF SendBill, TypeOK
  <2>2. /\ handed' = handed \/ handed' = [handed EXCEPT ![bill] = handed[bill] + 1]
        /\ errorFile \subseteq errorFile' /\ unkept \subseteq unkept'
    BY <1>1, SendBillResult
  <2> HIDE DEF bill
  <2> QED  BY <2>1, <2>2 DEF AccountedFor
<1>2. CASE ~SendBill
  BY <1>2 DEF Next, AccountedFor, CallEvent, Tick, Receive, ShortRead, PurgeCache, CheckFileSize,
              MindInitialize, OpenFile, RenameFile, DeleteOldestFiles, Crash, billingVars, errorVars
<1> QED  BY <1>1, <1>2

LEMMA SentStep ==
    ASSUME TypeOK, SentInv, Next
    PROVE  SentInv'
<1>1. \A f \in sent : \A i \in DOMAIN f : f[i] \in Bill
  BY DEF TypeOK
<1>2. \A f \in sent : \A i \in DOMAIN f : AccountedFor(f[i])
  BY BillsOfFiles DEF SentInv, SentIsAccountedFor, AccountedFor
<1>3. \A f \in sent : \A i \in DOMAIN f : handed'[f[i]] > 0 \/ f[i] \in errorFile' \cup unkept'
  BY <1>1, <1>2, AccountedStays
<1>4. \A i \in 1..job.done : job.file[i] \in Bill /\ AccountedFor(job.file[i])
  BY DEF TypeOK, SentInv, JobAccounted
<1>5. \A i \in 1..job.done : handed'[job.file[i]] > 0 \/ job.file[i] \in errorFile' \cup unkept'
  BY <1>4, AccountedStays
<1>6. CASE SendBill
  <2> DEFINE bill == job.file[job.done + 1]
  <2>1. bill \in Bill /\ handed \in [Bill -> Nat]
    BY <1>6, NextBill DEF SendBill, TypeOK
  <2>2. handed'[bill] > 0 \/ bill \in errorFile' \cup unkept'
    BY <1>6, <2>1, SendBillResult
  <2>3. job'.file = job.file /\ job'.done = job.done + 1 /\ job.done \in Nat
    BY <1>6 DEF SendBill, TypeOK
  <2>4. \A i \in 1..job'.done : i \in 1..job.done \/ i = job.done + 1
    BY <2>3
  <2>5. JobAccounted'
    BY <1>5, <2>2, <2>3, <2>4 DEF JobAccounted, AccountedFor
  <2>6. sent' = sent
    BY <1>6 DEF SendBill
  <2> QED  BY <1>3, <2>5, <2>6, BillsOfFiles DEF SentInv, SentIsAccountedFor
<1>7. CASE RenameFile
  <2>1. sent' = sent \cup {job.file} /\ job.done = Len(job.file) /\ job'.done = 0
    BY <1>7 DEF RenameFile, NoJob
  <2>2. DOMAIN job.file = 1..job.done
    BY <2>1 DEF TypeOK
  <2>3. \A f \in sent' : \A i \in DOMAIN f : handed'[f[i]] > 0 \/ f[i] \in errorFile' \cup unkept'
    BY <1>3, <1>5, <2>1, <2>2
  <2> QED  BY <2>1, <2>3, BillsOfFiles DEF SentInv, SentIsAccountedFor, JobAccounted
<1>8. CASE ~SendBill /\ ~RenameFile
  <2>1. sent' = sent /\ (job' = job \/ job'.done = 0)
    BY <1>8 DEF Next, NoJob, CallEvent, Tick, Receive, ShortRead, PurgeCache, CheckFileSize,
                MindInitialize, OpenFile, DeleteOldestFiles, Crash, billingVars
  <2> QED  BY <1>3, <1>5, <2>1, BillsOfFiles
           DEF SentInv, SentIsAccountedFor, JobAccounted, AccountedFor
<1> QED  BY <1>6, <1>7, <1>8

\* In every behaviour, crashes included, a file that was renamed as sent holds
\* no bill that was neither handed to the RADIUS client nor kept in the error file,
\* unless that file could not be opened when the bill was refused.
THEOREM SentAccounted == Spec => []SentIsAccountedFor
<1>1. CdrInit => SentInv
  BY BillsOfFiles DEF CdrInit, NoJob, SentInv, SentIsAccountedFor, JobAccounted
<1>2. TypeOK /\ SentInv /\ [Next]_vars => SentInv'
  <2>1. ASSUME SentInv, UNCHANGED vars  PROVE SentInv'
    BY <2>1 DEF vars, SentInv, SentIsAccountedFor, BillsOf, JobAccounted, AccountedFor
  <2> QED  BY <2>1, SentStep
<1>3. SentInv => SentIsAccountedFor
  BY DEF SentInv
<1> QED  BY <1>1, <1>2, <1>3, TypeCorrect, PTL DEF Spec

-----------------------------------------------------------------------------
(***************************************************************************)
(* Where the bills are.  A bill is written once: at one place of one file. *)
(* Rolling over, renaming and deleting move whole files, and the new bill  *)
(* of a call has a number that no bill of that call had.                   *)
(***************************************************************************)
Filed == unsent \cup sent \cup deleted

Files == Filed \cup {billFile}

\* No two places of the files hold the same bill.
OnePlace ==
    \A f, g \in Files : \A i \in DOMAIN f, j \in DOMAIN g : f[i] = g[j] => f = g /\ i = j

\* The bills in the files have been written.
FiledAreWritten ==
    \A f \in Files : \A i \in DOMAIN f : f[i][2] <= bills[f[i][1]]

\* The bills that were written are in the files.
WrittenAreFiled ==
    \A c \in Call : \A n \in 1..bills[c] :
        \E f \in Files : \E i \in DOMAIN f : f[i] = <<c, n>>

\* The current billing file is no file that was rolled over.
CurrentIsNotFiled == billFile # <<>> => billFile \notin Filed

PlaceInv == OnePlace /\ FiledAreWritten /\ WrittenAreFiled /\ CurrentIsNotFiled

\* Steps that move whole files, or none.
LEMMA MoveKeepsPlaces ==
    ASSUME PlaceInv, bills' = bills,
           \/ Filed' = Filed /\ billFile' = billFile
           \/ Filed' = Files /\ billFile' = <<>> /\ billFile # <<>>
    PROVE  PlaceInv'
<1>1. CASE Filed' = Filed /\ billFile' = billFile
  BY <1>1 DEF PlaceInv, OnePlace, FiledAreWritten, WrittenAreFiled, CurrentIsNotFiled, Files
<1>2. CASE Filed' = Files /\ billFile' = <<>>
  <2>1. Files' = Files \cup {<<>>} /\ DOMAIN <<>> = {}
    BY <1>2 DEF Files
  <2>2. OnePlace'
    BY <2>1 DEF PlaceInv, OnePlace
  <2>3. FiledAreWritten'
    BY <2>1 DEF PlaceInv, FiledAreWritten
  <2>4. WrittenAreFiled'
    BY <2>1 DEF PlaceInv, WrittenAreFiled
  <2>5. CurrentIsNotFiled'
    BY <1>2 DEF CurrentIsNotFiled
  <2> QED  BY <2>2, <2>3, <2>4, <2>5 DEF PlaceInv
<1> QED  BY <1>1, <1>2

\* add() writes a bill of its own number at the end of the billing file.
LEMMA WriteKeepsPlaces ==
    ASSUME TypeOK, PlaceInv, NEW c \in Call, bills[c] < MaxBills,
           bills' = [bills EXCEPT ![c] = bills[c] + 1],
           billFile' = Append(billFile, <<c, bills[c] + 1>>),
           Filed' = Filed
    PROVE  PlaceInv'
<1> DEFINE new == <<c, bills[c] + 1>>
           last == Len(billFile) + 1
<1>1. bills[c] \in Nat /\ bills \in [Call -> Nat]
  BY DEF TypeOK
<1>2. billFile \in Seq(Bill) /\ \A f \in Filed : f \in Seq(Bill)
  BY DEF TypeOK, Filed
<1>3. new \in Bill /\ new[1] = c /\ new[2] = bills[c] + 1
  BY <1>1 DEF Bill, MaxBills
<1>4. \A f \in Files : \A i \in DOMAIN f : f[i] \in Bill /\ f[i] # new
  BY <1>1, <1>2, <1>3 DEF Files, PlaceInv, FiledAreWritten
<1> HIDE DEF new
<1>5. /\ DOMAIN billFile' = DOMAIN billFile \cup {last}
      /\ last \notin DOMAIN billFile
      /\ billFile'[last] = new
      /\ \A i \in DOMAIN billFile : billFile'[i] = billFile[i]
  BY <1>2, <1>3 DEF new
<1>6. \A f \in Filed : \A i \in DOMAIN f, j \in DOMAIN billFile' : f[i] # billFile'[j]
  <2> SUFFICES ASSUME NEW f \in Filed, NEW i \in DOMAIN f, NEW j \in DOMAIN billFile'
               PROVE  f[i] # billFile'[j]
    OBVIOUS
  <2>1. CASE j = last
    BY <1>4, <1>5, <2>1 DEF Files
  <2>2. CASE j \in DOMAIN billFile
    <3>1. f # billFile
      BY <1>2, <2>2 DEF PlaceInv, CurrentIsNotFiled
    <3>2. f[i] # billFile[j]
      BY <2>2, <3>1 DEF PlaceInv, OnePlace, Files
    <3> QED  BY <1>5, <2>2, <3>2
  <2> QED  BY <1>5, <2>1, <2>2
<1>7. \A i, j \in DOMAIN billFile' : billFile'[i] = billFile'[j] => i = j
  BY <1>4, <1>5 DEF PlaceInv, OnePlace, Files
<1>8. OnePlace'
  <2> SUFFICES ASSUME NEW f \in Files', NEW g \in Files', NEW i \in DOMAIN f, NEW j \in DOMAIN g,
                      f[i] = g[j]
               PROVE  f = g /\ i = j
    BY DEF OnePlace
  <2>1. (f \in Filed \/ f = billFile') /\ (g \in Filed \/ g = billFile')
    BY DEF Files
  <2>2. CASE f \in Filed /\ g \in Filed
    BY <2>2 DEF PlaceInv, OnePlace, Files
  <2>3. CASE f = billFile' /\ g = billFile'
    BY <1>7, <2>3
  <2> QED  BY <1>6, <2>1, <2>2, <2>3
<1>9. FiledAreWritten'
  <2>1. \A d \in Call : bills[d] <= bills'[d]
    BY <1>1
  <2>2. \A f \in Files : \A i \in DOMAIN f : f[i][2] <= bills'[f[i][1]]
    <3> SUFFICES ASSUME NEW f \in Files, NEW i \in DOMAIN f  PROVE f[i][2] <= bills'[f[i][1]]
      OBVIOUS
    <3>1. f[i][1] \in Call /\ f[i][2] \in Nat
      BY <1>4 DEF Bill
    <3>2. f[i][2] <= bills[f[i][1]] /\ bills[f[i][1]] <= bills'[f[i][1]]
      BY <2>1, <3>1 DEF PlaceInv, FiledAreWritten
    <3>3. bills'[f[i][1]] \in Nat /\ bills[f[i][1]] \in Nat
      BY <1>1, <3>1
    <3> QED  BY <3>1, <3>2, <3>3
  <2>3. new[2] <= bills'[new[1]]
    BY <1>1, <1>3
  <2>4. \A i \in DOMAIN billFile' : billFile'[i][2] <= bills'[billFile'[i][1]]
    BY <1>5, <2>2, <2>3 DEF Files
  <2> QED  BY <2>2, <2>4 DEF FiledAreWritten, Files
<1>10. WrittenAreFiled'
  <2> SUFFICES ASSUME NEW d \in Call, NEW n \in 1..bills'[d]
               PROVE  \E f \in Files' : \E i \in DOMAIN f : f[i] = <<d, n>>
    BY DEF WrittenAreFiled
  <2>1. CASE n \in 1..bills[d]
    <3>1. PICK f \in Files : \E i \in DOMAIN f : f[i] = <<d, n>>
      BY <2>1 DEF PlaceInv, WrittenAreFiled
    <3>2. CASE f \in Filed
      BY <3>1, <3>2 DEF Files
    <3>3. CASE f = billFile
      BY <1>5, <3>1, <3>3 DEF Files
    <3> QED  BY <3>2, <3>3 DEF Files
  <2>2. CASE n \notin 1..bills[d]
    <3>1. d = c /\ n = bills[c] + 1
      BY <1>1, <2>2
    <3> QED  BY <1>5, <3>1 DEF Files, new
  <2> QED  BY <2>1, <2>2
<1>11. CurrentIsNotFiled'
  BY <1>4, <1>5 DEF CurrentIsNotFiled, Files
<1> QED  BY <1>8, <1>9, <1>10, <1>11 DEF PlaceInv

(***************************************************************************)
(* The file being sent is an unsent one: nothing else is done meanwhile    *)
(* that moves it, and files are only deleted while there is no client.     *)
(***************************************************************************)
SendingInv ==
    /\ ~BillingIdle => mind /\ job.file \in unsent
    /\ unsent \cap sent = {}

LEMMA BusyWhileSending ==
    ASSUME TypeOK, job.done < Len(job.file)
    PROVE  ~BillingIdle
BY DEF TypeOK, BillingIdle, NoJob

LEMMA SendingStep ==
    ASSUME TypeOK, PlaceInv, SendingInv, Next
    PROVE  SendingInv'
<1>1. CASE SendBill
  <2>1. ~BillingIdle
    BY <1>1, BusyWhileSending DEF SendBill
  <2>2. job'.file = job.file /\ UNCHANGED <<mind, unsent, sent>>
    BY <1>1 DEF SendBill, TypeOK
  <2> QED  BY <2>1, <2>2 DEF SendingInv
<1>2. CASE CheckFileSize
  BY <1>2 DEF CheckFileSize, SendingInv, BillingIdle, PlaceInv, CurrentIsNotFiled, Filed
<1>3. CASE ~SendBill /\ ~CheckFileSize
  BY <1>3 DEF SendingInv, BillingIdle, Next, CallEvent, Tick, Receive, ShortRead, PurgeCache,
              MindInitialize, OpenFile, RenameFile, DeleteOldestFiles, Crash, billingVars
<1> QED  BY <1>1, <1>2, <1>3

LEMMA PlaceStep ==
    ASSUME TypeOK, PlaceInv, SendingInv, Next
    PROVE  PlaceInv'
<1>1. ASSUME NEW m \in Marshal, Receive(m)  PROVE PlaceInv'
  <2> DEFINE r == Head(stream[m])
             c == r.call
  <2>1. c \in Call
    <3>1. stream[m] \in Seq(Report) /\ stream[m] # <<>>
      BY <1>1 DEF Receive, TypeOK
    <3>2. r \in Report
      BY <3>1
    <3> QED  BY <3>2 DEF Report
  <2>2. Filed' = Filed
    BY <1>1 DEF Receive, billingVars, Filed
  <2>3. CASE UNCHANGED <<bills, billFile>>
    BY <2>2, <2>3, MoveKeepsPlaces
  <2>4. CASE /\ bills[c] < MaxBills
             /\ bills' = [bills EXCEPT ![c] = bills[c] + 1]
             /\ billFile' = Append(billFile, <<c, bills[c] + 1>>)
    <3> HIDE DEF c
    <3>1. PICK d \in Call : d = c
      BY <2>1
    <3> QED  BY <2>2, <2>4, <3>1, WriteKeepsPlaces
  <2> QED  BY <1>1, <2>3, <2>4, Zenon DEF Receive, AddKnown, AddUnknown, cacheVars
<1>2. CASE CheckFileSize
  <2>1. Filed' = Files /\ billFile' = <<>> /\ billFile # <<>> /\ bills' = bills
    BY <1>2 DEF CheckFileSize, Filed, Files, cacheVars
  <2> QED  BY <2>1, MoveKeepsPlaces
<1>3. CASE RenameFile
  <2>1. Filed' = Filed /\ UNCHANGED <<bills, billFile>>
    BY <1>3 DEF RenameFile, SendingInv, Filed, cacheVars
  <2> QED  BY <2>1, MoveKeepsPlaces
<1>4. CASE DeleteOldestFiles
  <2>1. Filed' = Filed /\ UNCHANGED <<bills, billFile>>
    BY <1>4 DEF DeleteOldestFiles, Filed, cacheVars
  <2> QED  BY <2>1, MoveKeepsPlaces
<1>5. CASE \/ Tick \/ PurgeCache \/ MindInitialize \/ SendBill \/ Crash
           \/ \E c \in Call : CallEvent(c)
           \/ \E m \in Marshal : ShortRead(m)
           \/ \E f \in unsent : OpenFile(f)
  <2>1. Filed' = Filed /\ UNCHANGED <<bills, billFile>>
    BY <1>5 DEF CallEvent, Tick, ShortRead, PurgeCache, MindInitialize, OpenFile, SendBill,
                Crash, Filed, cacheVars, billingVars
  <2> QED  BY <2>1, MoveKeepsPlaces
<1> QED  BY <1>1, <1>2, <1>3, <1>4, <1>5 DEF Next

-----------------------------------------------------------------------------
(***************************************************************************)
(* How often a bill is accounted for.  A bill that the loop has passed, or *)
(* whose file was renamed, has used up the one time that no crash excuses. *)
(***************************************************************************)
Times(b) == handed[b] + (IF b \in errorFile THEN 1 ELSE 0) + (IF b \in unkept THEN 1 ELSE 0)

Passed(b) == \/ \E f \in sent : \E i \in DOMAIN f : f[i] = b
             \/ \E i \in 1..job.done : job.file[i] = b

TimesInv == \A b \in Bill : Times(b) <= crashes + (IF Passed(b) THEN 1 ELSE 0)

LEMMA TimesStep ==
    ASSUME TypeOK, PlaceInv, SendingInv, TimesInv, Next
    PROVE  TimesInv'
<1>1. handed \in [Bill -> Nat] /\ crashes \in Nat
  BY DEF TypeOK
<1>2. CASE SendBill
  <2> DEFINE bill == job.file[job.done + 1]
  <2>1. /\ job.done \in Nat /\ job.done + 1 \in DOMAIN job.file
        /\ 1..job.done \subseteq DOMAIN job.file
        /\ bill \in Bill
    BY <1>2, NextBill DEF SendBill, TypeOK
  <2>2. job.file \in unsent
    BY <1>2, BusyWhileSending DEF SendBill, SendingInv
  <2>3. ~Passed(bill)
    <3>1. ASSUME NEW f \in sent, NEW i \in DOMAIN f  PROVE f[i] # bill
      <4>1. f # job.file
        BY <2>2, <3>1 DEF SendingInv
      <4> QED  BY <2>1, <2>2, <4>1 DEF PlaceInv, OnePlace, Files, Filed
    <3>2. ASSUME NEW i \in 1..job.done  PROVE job.file[i] # bill
      <4>1. i # job.done + 1
        BY <2>1, <3>2
      <4> QED  BY <2>1, <2>2, <4>1 DEF PlaceInv, OnePlace, Files, Filed
    <3> QED  BY <3>1, <3>2 DEF Passed
  <2>4. job'.file = job.file /\ job'.done = job.done + 1 /\ UNCHANGED <<sent, crashes>>
    BY <1>2 DEF SendBill, TypeOK, marshalVars
  <2>5. \A b \in Bill : Passed(b) \/ b = bill => Passed(b)'
    BY <2>1, <2>4 DEF Passed
  <2>6. \/ /\ handed' = [handed EXCEPT ![bill] = handed[bill] + 1]
           /\ errorFile' = errorFile /\ unkept' = unkept
        \/ /\ handed' = handed
           /\ \/ errorFile' = errorFile \cup {bill} /\ unkept' = unkept
              \/ unkept' = unkept \cup {bill} /\ errorFile' = errorFile
    BY <1>2, SendBillResult
  <2> HIDE DEF bill
  <2> SUFFICES ASSUME NEW b \in Bill
               PROVE  Times(b)' <= crashes + (IF Passed(b)' THEN 1 ELSE 0)
    BY <2>4 DEF TimesInv
  <2>7. handed[b] \in Nat /\ Times(b) <= crashes + (IF Passed(b) THEN 1 ELSE 0)
    BY <1>1 DEF TimesInv
  <2>8. CASE b = bill
    <3>1. Passed(b)' /\ ~Passed(b)
      BY <2>3, <2>5, <2>8
    <3>2. Times(b)' <= Times(b) + 1
      BY <1>1, <2>1, <2>6, <2>7, <2>8 DEF Times
    <3> QED  BY <1>1, <2>7, <3>1, <3>2, <2>6, <2>8 DEF Times
  <2>9. CASE b # bill
    <3>1. Times(b)' = Times(b)
      BY <1>1, <2>1, <2>6, <2>9 DEF Times
    <3> QED  BY <1>1, <2>5, <2>7, <3>1 DEF Times
  <2> QED  BY <2>8, <2>9
<1>3. CASE Crash
  <2>1. crashes' = crashes + 1 /\ UNCHANGED <<handed, errorFile, unkept>>
    BY <1>3 DEF Crash
  <2> QED  BY <1>1, <2>1 DEF TimesInv, Times
<1>4. CASE ~SendBill /\ ~Crash
  <2>1. UNCHANGED <<handed, errorFile, unkept, crashes>>
    BY <1>4 DEF Next, CallEvent, Tick, Receive, ShortRead, PurgeCache, CheckFileSize,
                MindInitialize, OpenFile, RenameFile, DeleteOldestFiles, billingVars, errorVars, marshalVars
  <2>2. CASE RenameFile
    <3>1. sent' = sent \cup {job.file} /\ DOMAIN job.file = 1..job.done
      BY <2>2 DEF RenameFile, TypeOK
    <3>2. \A b \in Bill : Passed(b) => Passed(b)'
      BY <3>1 DEF Passed
    <3> QED  BY <1>1, <2>1, <3>2 DEF TimesInv, Times
  <2>3. CASE ~RenameFile
    <3>1. sent' = sent /\ (job' = job \/ job.done = 0)
      BY <1>4, <2>3 DEF Next, CallEvent, Tick, Receive, ShortRead, PurgeCache, CheckFileSize,
                        MindInitialize, OpenFile, DeleteOldestFiles, billingVars, BillingIdle, NoJob
    <3>2. \A b \in Bill : Passed(b) => Passed(b)'
      BY <3>1 DEF Passed
    <3> QED  BY <1>1, <2>1, <3>2 DEF TimesInv, Times
  <2> QED  BY <2>2, <2>3
<1> QED  BY <1>2, <1>3, <1>4

-----------------------------------------------------------------------------
(***************************************************************************)
(* The three invariants hold together: TimesInv needs that a bill has one  *)
(* place and that the file being sent is not a sent one, which in turn     *)
(* needs that the billing file is not one that was rolled over before.     *)
(***************************************************************************)
LedgerInv == PlaceInv /\ SendingInv /\ TimesInv

LEMMA LedgerInit == CdrInit => LedgerInv
<1> SUFFICES ASSUME CdrInit  PROVE LedgerInv
  OBVIOUS
<1>1. Files = {<<>>} /\ Filed = {} /\ DOMAIN <<>> = {}
  BY DEF CdrInit, Files, Filed
<1>2. PlaceInv
  BY <1>1 DEF CdrInit, PlaceInv, OnePlace, FiledAreWritten, WrittenAreFiled, CurrentIsNotFiled
<1>3. SendingInv
  BY DEF CdrInit, SendingInv, BillingIdle
<1>4. TimesInv
  BY DEF CdrInit, TimesInv, Times, Passed, NoJob
<1> QED  BY <1>2, <1>3, <1>4 DEF LedgerInv

LEMMA LedgerStep == TypeOK /\ LedgerInv /\ [Next]_vars => LedgerInv'
<1>1. ASSUME LedgerInv, UNCHANGED vars  PROVE LedgerInv'
  BY <1>1 DEF vars, LedgerInv, PlaceInv, OnePlace, FiledAreWritten, WrittenAreFiled,
              CurrentIsNotFiled, Files, Filed, SendingInv, BillingIdle, TimesInv, Times, Passed
<1>2. ASSUME TypeOK, LedgerInv, Next  PROVE LedgerInv'
  BY <1>2, PlaceStep, SendingStep, TimesStep DEF LedgerInv
<1> QED  BY <1>1, <1>2

LEMMA LedgerAlways == Spec => []LedgerInv
BY LedgerInit, LedgerStep, TypeCorrect, PTL DEF Spec

\* Every bill add() has written is in exactly one file, whatever was rolled
\* over, renamed or deleted since, and whatever crashes happened.
THEOREM NoBillLostOrCopied == Spec => []BillsKept
<1>1. ASSUME LedgerInv  PROVE BillsKept
  <2> SUFFICES ASSUME NEW c \in Call, NEW n \in 1..bills[c]
               PROVE  Cardinality({f \in Files : <<c, n>> \in ToSet(f)}) = 1
    BY DEF BillsKept, Files, Filed
  <2>1. PICK g \in Files : \E i \in DOMAIN g : g[i] = <<c, n>>
    BY <1>1 DEF LedgerInv, PlaceInv, WrittenAreFiled
  <2>2. \A f \in Files : <<c, n>> \in ToSet(f) <=> \E i \in DOMAIN f : f[i] = <<c, n>>
    BY DEF ToSet
  <2>3. \A f \in Files : <<c, n>> \in ToSet(f) <=> f = g
    BY <1>1, <2>1, <2>2 DEF LedgerInv, PlaceInv, OnePlace
  <2>4. {f \in Files : <<c, n>> \in ToSet(f)} = {g}
    BY <2>3
  <2> QED  BY <2>4, FS_Singleton
<1> QED  BY <1>1, LedgerAlways, PTL

\* A bill goes to the RADIUS client, or into the error file, once, and once
\* more for each crash at most.
THEOREM AccountedOnce == Spec => []AccountedOncePerRun
<1>1. ASSUME TypeOK, LedgerInv  PROVE AccountedOncePerRun
  <2> SUFFICES ASSUME NEW b \in Bill  PROVE Times(b) <= 1 + crashes
    BY DEF AccountedOncePerRun, Times
  <2>1. Times(b) <= crashes + (IF Passed(b) THEN 1 ELSE 0)
    BY <1>1 DEF LedgerInv, TimesInv
  <2>2. crashes \in Nat /\ Times(b) \in Nat
    BY <1>1 DEF TypeOK, Times
  <2> QED  BY <2>1, <2>2
<1> QED  BY <1>1, TypeCorrect, LedgerAlways, PTL

-----------------------------------------------------------------------------
(***************************************************************************)
(* A call is billed once.  While its record is in the cache as billed, the *)
(* reports that follow are ignored; the record is purged BILL_LIFE after   *)
(* the end, and by then no report of the call is on its way any more: it   *)
(* would be older than the end, since the end is the last event, and no    *)
(* report is on its way for that long.                                     *)
(***************************************************************************)

\* What this takes: the clocks of the marshals agree with the server's, the end
\* of a call is the last that is reported of it, and a record lives as long as
\* a report may be on its way.  Without the first it does not hold.
ClocksAgree == \A m \in Marshal : Skew[m] = 0
EndIsLast == \A c \in Call : \A i \in DOMAIN Script[c] : Script[c][i] = "end" => i = Len(Script[c])
LivesCoverDelay == MaxDelay <= BillLife /\ MaxDelay <= MaxLife

\* A stream has its reports in the order in which they were made, and none
\* that was made more than MaxDelay ago.
StreamsInOrder ==
    \A m \in Marshal : \A i, j \in DOMAIN stream[m] :
        i <= j => stream[m][i].time <= stream[m][j].time

StreamsTimely ==
    \A m \in Marshal : \A i \in DOMAIN stream[m] :
        stream[m][i].time <= clock /\ clock - stream[m][i].time <= MaxDelay

\* Call c is over, and no report of it is newer than t.
Over(c, t) ==
    /\ progress[c] = Len(Script[c])
    /\ \A m \in Marshal : \A i \in DOMAIN stream[m] :
          stream[m][i].call = c => stream[m][i].time <= t

EndIsNewest ==
    \A m \in Marshal : \A i \in DOMAIN stream[m] :
        stream[m][i].event = "end" => Over(stream[m][i].call, stream[m][i].time)

\* A call that was billed once is held in the cache as long as reports of it
\* may come.
Held(c) ==
    \/ AlreadyBilled(c) /\ cache[c].end \in 1..clock /\ Over(c, cache[c].end)
    \/ Over(c, 0)

BilledIsHeld == crashes = 0 => \A c \in Call : bills[c] = 0 \/ (bills[c] = 1 /\ Held(c))

OnceInv == StreamsInOrder /\ StreamsTimely /\ EndIsNewest /\ BilledIsHeld

LEMMA StreamsAreSeqs ==
    ASSUME TypeOK, NEW m \in Marshal
    PROVE  /\ stream[m] \in Seq(Report) /\ Len(stream[m]) \in Nat
           /\ DOMAIN stream[m] = 1..Len(stream[m])
           /\ \A i \in DOMAIN stream[m] : /\ stream[m][i] \in Report
                                          /\ stream[m][i].time \in Nat \ {0}
                                          /\ stream[m][i].call \in Call
<1>1. stream[m] \in Seq(Report)
  BY DEF TypeOK
<1>2. DOMAIN stream[m] = 1..Len(stream[m]) /\ Len(stream[m]) \in Nat
  BY <1>1
<1>3. \A i \in DOMAIN stream[m] : stream[m][i] \in Report
  BY <1>1, <1>2
<1>4. \A r \in Report : r.time \in Nat \ {0} /\ r.call \in Call
  BY Bounds DEF Report
<1> QED  BY <1>1, <1>2, <1>3, <1>4

\* Reading and losing reports leaves ends of the streams.
EndsOfStreams ==
    \A m \in Marshal : \E d \in Nat : \A i \in DOMAIN stream'[m] :
        i \in Nat /\ i + d \in DOMAIN stream[m] /\ stream'[m][i] = stream[m][i + d]

LEMMA ReadingLeavesEnds ==
    ASSUME TypeOK,
           \/ UNCHANGED stream
           \/ \E m \in Marshal : Receive(m) \/ ShortRead(m)
           \/ Crash
    PROVE  EndsOfStreams
<1> SUFFICES ASSUME NEW m \in Marshal
             PROVE  \E d \in Nat : \A i \in DOMAIN stream'[m] :
                       i \in Nat /\ i + d \in DOMAIN stream[m] /\ stream'[m][i] = stream[m][i + d]
  BY DEF EndsOfStreams
<1>1. stream[m] \in Seq(Report) /\ Len(stream[m]) \in Nat /\ DOMAIN stream[m] = 1..Len(stream[m])
  BY StreamsAreSeqs
<1>2. \/ stream'[m] = stream[m] \/ stream'[m] = <<>>
      \/ stream[m] # <<>> /\ stream'[m] = Tail(stream[m])
  BY DEF TypeOK, Receive, ShortRead, Crash
<1>3. CASE stream'[m] = stream[m]
  <2>1. \A i \in DOMAIN stream[m] : i \in Nat /\ i + 0 = i
    BY <1>1
  <2> QED  BY <1>3, <2>1
<1>4. CASE stream'[m] = <<>>
  <2>1. DOMAIN <<>> = {}
    OBVIOUS
  <2>2. DOMAIN stream'[m] = {}
    BY <1>4, <2>1
  <2> QED  BY <2>2
<1>5. CASE stream[m] # <<>> /\ stream'[m] = Tail(stream[m])
  <2>1. \A i \in DOMAIN Tail(stream[m]) :
           i \in Nat /\ i + 1 \in DOMAIN stream[m] /\ Tail(stream[m])[i] = stream[m][i + 1]
    BY <1>1, <1>5
  <2> QED  BY <1>5, <2>1
<1> QED  BY <1>2, <1>3, <1>4, <1>5

\* What is over stays over.
LEMMA OverStays ==
    ASSUME TypeOK, EndsOfStreams, UNCHANGED progress, NEW c \in Call, NEW t, Over(c, t)
    PROVE  Over(c, t)'
BY DEF EndsOfStreams, Over

LEMMA ReadingKeepsStreams ==
    ASSUME TypeOK, EndsOfStreams, StreamsInOrder, StreamsTimely, EndIsNewest, UNCHANGED <<progress, clock>>
    PROVE  StreamsInOrder' /\ StreamsTimely' /\ EndIsNewest'
<1>1. StreamsInOrder'
  <2> SUFFICES ASSUME NEW m \in Marshal, NEW i \in DOMAIN stream'[m], NEW j \in DOMAIN stream'[m], i <= j
               PROVE  stream'[m][i].time <= stream'[m][j].time
    BY DEF StreamsInOrder
  <2>1. PICK d \in Nat : \A k \in DOMAIN stream'[m] :
           k \in Nat /\ k + d \in DOMAIN stream[m] /\ stream'[m][k] = stream[m][k + d]
    BY DEF EndsOfStreams
  <2>2. i + d <= j + d
    BY <2>1
  <2> QED  BY <2>1, <2>2 DEF StreamsInOrder
<1>2. StreamsTimely'
  BY DEF StreamsTimely, EndsOfStreams
<1>3. EndIsNewest'
  <2> SUFFICES ASSUME NEW m \in Marshal, NEW i \in DOMAIN stream'[m], stream'[m][i].event = "end"
               PROVE  Over(stream[m][i].call, stream[m][i].time)'
    BY DEF EndIsNewest
  <2>1. PICK j \in DOMAIN stream[m] : stream'[m][i] = stream[m][j]
    BY DEF EndsOfStreams
  <2>2. Over(stream[m][j].call, stream[m][j].time)
    BY <2>1 DEF EndIsNewest
  <2> QED  BY <2>1, <2>2 DEF Over, EndsOfStreams
<1> QED  BY <1>1, <1>2, <1>3

\* An event of a call is newer than all reports on their way, and the last
\* one of the call if it is the end.
LEMMA CallEventOnce ==
    ASSUME ClocksAgree, EndIsLast, TypeOK, OnceInv, NEW c \in Call, CallEvent(c)
    PROVE  OnceInv'
<1> DEFINE event == Script[c][progress[c] + 1]
           new == [call |-> c, event |-> event, time |-> clock]
<1>0. /\ new.call = c /\ new.event = event /\ new.time = clock
      /\ MaxDelay \in Nat /\ clock \in Nat /\ clock > 0
  BY CdrTimeAssumption DEF TypeOK
<1>1. /\ progress[c] < Len(Script[c])
      /\ progress' = [progress EXCEPT ![c] = progress[c] + 1]
      /\ \A m \in Marshal : stream'[m] = IF m \in Path[c] THEN Append(stream[m], new) ELSE stream[m]
      /\ UNCHANGED <<clock, crashes, cache, bills>>
  <2>1. \A m \in Marshal : clock + Skew[m] = clock
    BY DEF ClocksAgree, TypeOK
  <2> QED  BY <2>1 DEF CallEvent, cacheVars
<1>p. /\ \A d \in Call : d # c => progress'[d] = progress[d]
      /\ progress'[c] = progress[c] + 1 /\ progress[c] \in Nat /\ Len(Script[c]) \in Nat
      /\ DOMAIN Script[c] = 1..Len(Script[c])
  BY <1>1, CdrPathAssumption DEF TypeOK
<1>e. event = "end" => progress'[c] = Len(Script[c])
  <2>1. progress[c] + 1 \in DOMAIN Script[c]
    BY <1>1, <1>p
  <2> QED  BY <1>p, <2>1 DEF EndIsLast
<1> HIDE DEF new, event
<1>2. \A m \in Marshal : \A i \in DOMAIN stream'[m] :
         \/ i \in DOMAIN stream[m] /\ stream'[m][i] = stream[m][i]
         \/ i = Len(stream[m]) + 1 /\ stream'[m][i] = new
  <2> SUFFICES ASSUME NEW m \in Marshal, NEW i \in DOMAIN stream'[m]
               PROVE  \/ i \in DOMAIN stream[m] /\ stream'[m][i] = stream[m][i]
                      \/ i = Len(stream[m]) + 1 /\ stream'[m][i] = new
    OBVIOUS
  <2>1. stream[m] \in Seq(Report) /\ Len(stream[m]) \in Nat /\ DOMAIN stream[m] = 1..Len(stream[m])
    BY StreamsAreSeqs
  <2>2. /\ DOMAIN Append(stream[m], new) = 1..(Len(stream[m]) + 1)
        /\ \A j \in 1..Len(stream[m]) : Append(stream[m], new)[j] = stream[m][j]
        /\ Append(stream[m], new)[Len(stream[m]) + 1] = new
    BY <2>1
  <2>3. stream'[m] = stream[m] \/ stream'[m] = Append(stream[m], new)
    BY <1>1
  <2>4. CASE stream'[m] = stream[m]
    BY <2>4
  <2>5. CASE stream'[m] = Append(stream[m], new)
    BY <2>1, <2>2, <2>5
  <2> QED  BY <2>3, <2>4, <2>5
<1>n. \A m \in Marshal : \A i \in DOMAIN stream[m] : stream[m][i].call = c => stream[m][i].event # "end"
  BY <1>1, <1>p DEF OnceInv, EndIsNewest, Over
<1>3. StreamsInOrder'
  <2> SUFFICES ASSUME NEW m \in Marshal, NEW i \in DOMAIN stream'[m], NEW j \in DOMAIN stream'[m], i <= j
               PROVE  stream'[m][i].time <= stream'[m][j].time
    BY DEF StreamsInOrder
  <2>1. DOMAIN stream[m] = 1..Len(stream[m]) /\ Len(stream[m]) \in Nat
    BY StreamsAreSeqs
  <2>2. \A k \in DOMAIN stream[m] : stream[m][k].time <= clock
    BY DEF OnceInv, StreamsTimely
  <2>3. CASE j \in DOMAIN stream[m] /\ stream'[m][j] = stream[m][j]
    <3>1. i \in DOMAIN stream[m] /\ stream'[m][i] = stream[m][i]
      BY <1>2, <2>1, <2>3
    <3> QED  BY <2>3, <3>1 DEF OnceInv, StreamsInOrder
  <2>4. CASE stream'[m][j] = new
    <3>1. stream'[m][j].time = clock
      BY <1>0, <2>4
    <3>2. stream'[m][i].time <= clock
      <4>1. CASE i \in DOMAIN stream[m] /\ stream'[m][i] = stream[m][i]
        BY <2>2, <4>1
      <4>2. CASE stream'[m][i] = new
        BY <1>0, <4>2
      <4> QED  BY <1>2, <4>1, <4>2
    <3> QED  BY <3>1, <3>2
  <2> QED  BY <1>2, <2>3, <2>4
<1>4. StreamsTimely'
  <2> SUFFICES ASSUME NEW m \in Marshal, NEW i \in DOMAIN stream'[m]
               PROVE  stream'[m][i].time <= clock /\ clock - stream'[m][i].time <= MaxDelay
    BY <1>1 DEF StreamsTimely
  <2>1. CASE i \in DOMAIN stream[m] /\ stream'[m][i] = stream[m][i]
    BY <2>1 DEF OnceInv, StreamsTimely
  <2>2. CASE stream'[m][i] = new
    <3>1. stream'[m][i].time = clock
      BY <1>0, <2>2
    <3> QED  BY <1>0, <3>1
  <2> QED  BY <1>2, <2>1, <2>2
<1>5. ASSUME NEW d \in Call, NEW t, d # c, Over(d, t)  PROVE Over(d, t)'
  <2> SUFFICES ASSUME NEW m \in Marshal, NEW i \in DOMAIN stream'[m], stream'[m][i].call = d
               PROVE  stream'[m][i].time <= t
    BY <1>p, <1>5 DEF Over
  <2>1. i \in DOMAIN stream[m] /\ stream'[m][i] = stream[m][i]
    BY <1>0, <1>2, <1>5
  <2> QED  BY <1>5, <2>1 DEF Over
<1>6. EndIsNewest'
  <2> SUFFICES ASSUME NEW m \in Marshal, NEW i \in DOMAIN stream'[m], stream'[m][i].event = "end"
               PROVE  Over(stream[m][i].call, stream[m][i].time)'
    BY DEF EndIsNewest
  <2>1. CASE i \in DOMAIN stream[m] /\ stream'[m][i] = stream[m][i]
    <3>1. stream[m][i].call \in Call /\ stream[m][i].call # c
      BY <1>n, <2>1, StreamsAreSeqs
    <3>2. Over(stream[m][i].call, stream[m][i].time)
      BY <2>1 DEF OnceInv, EndIsNewest
    <3>3. \A d \in Call, t \in Nat : d # c /\ Over(d, t) => Over(d, t)'
      BY <1>5
    <3>4. stream[m][i].time \in Nat
      BY <2>1, StreamsAreSeqs
    <3>5. progress'[stream[m][i].call] = Len(Script[stream[m][i].call])
      BY <1>p, <3>1, <3>2 DEF Over
    <3>6. ASSUME NEW n \in Marshal, NEW j \in DOMAIN stream'[n], stream'[n][j].call = stream[m][i].call
          PROVE  stream'[n][j].time <= stream[m][i].time
      <4>1. j \in DOMAIN stream[n] /\ stream'[n][j] = stream[n][j]
        BY <1>0, <1>2, <3>1, <3>6
      <4> QED  BY <3>2, <3>6, <4>1 DEF Over
    <3> QED  BY <2>1, <3>5, <3>6 DEF Over
  <2>2. CASE stream'[m][i] = new
    <3>1. progress'[c] = Len(Script[c]) /\ stream'[m][i].call = c /\ stream'[m][i].time = clock
      BY <1>0, <1>e, <2>2
    <3> QED  BY <1>1, <1>4, <3>1 DEF StreamsTimely, Over
  <2> QED  BY <1>2, <2>1, <2>2
<1>7. BilledIsHeld'
  <2> SUFFICES ASSUME crashes = 0, NEW d \in Call, bills[d] # 0
               PROVE  bills[d] = 1 /\ Held(d)'
    BY <1>1 DEF BilledIsHeld
  <2>1. bills[d] = 1 /\ Held(d)
    BY DEF OnceInv, BilledIsHeld
  <2>2. d # c
    BY <1>1, <1>p, <2>1 DEF Held, Over
  <2>3. CASE AlreadyBilled(d) /\ cache[d].end \in 1..clock /\ Over(d, cache[d].end)
    <3>1. AlreadyBilled(d)' /\ cache'[d].end \in 1..clock'
      BY <1>1, <2>3 DEF AlreadyBilled
    <3>2. progress'[d] = Len(Script[d])
      BY <1>p, <2>2, <2>3 DEF Over
    <3>3. ASSUME NEW m \in Marshal, NEW i \in DOMAIN stream'[m], stream'[m][i].call = d
          PROVE  stream'[m][i].time <= cache'[d].end
      <4>1. i \in DOMAIN stream[m] /\ stream'[m][i] = stream[m][i]
        BY <1>0, <1>2, <2>2, <3>3
      <4> QED  BY <1>1, <2>3, <3>3, <4>1 DEF Over
    <3> QED  BY <2>1, <3>1, <3>2, <3>3 DEF Held, Over
  <2>4. CASE Over(d, 0)
    <3>1. Over(d, 0)'
      BY <1>5, <2>2, <2>4
    <3> QED  BY <2>1, <3>1 DEF Held
  <2> QED  BY <2>1, <2>3, <2>4 DEF Held
<1> QED  BY <1>3, <1>4, <1>6, <1>7 DEF OnceInv

\* Time passes only while no report is late.
LEMMA TickOnce ==
    ASSUME ClocksAgree, TypeOK, OnceInv, Tick
    PROVE  OnceInv'
<1>1. clock' = clock + 1 /\ UNCHANGED <<progress, stream, cache, bills, crashes>>
  BY DEF Tick, cacheVars
<1>2. MaxDelay \in Nat /\ clock \in Nat
  BY CdrTimeAssumption DEF TypeOK
<1>3. StreamsTimely'
  <2> SUFFICES ASSUME NEW m \in Marshal, NEW i \in DOMAIN stream[m]
               PROVE  stream[m][i].time <= clock + 1 /\ (clock + 1) - stream[m][i].time <= MaxDelay
    BY <1>1 DEF StreamsTimely
  <2>1. /\ stream[m] \in Seq(Report) /\ Len(stream[m]) \in Nat /\ DOMAIN stream[m] = 1..Len(stream[m])
        /\ stream[m][i].time \in Nat /\ stream[m][i].time <= clock
    BY StreamsAreSeqs DEF OnceInv, StreamsTimely
  <2>2. stream[m] # <<>> /\ 1 \in DOMAIN stream[m] /\ 1 <= i
    BY <2>1
  <2>3. Head(stream[m]) = stream[m][1] /\ stream[m][1].time \in Nat
    BY <2>1, <2>2, StreamsAreSeqs
  <2>4. clock - stream[m][1].time < MaxDelay
    <3>1. clock + Skew[m] - Head(stream[m]).time < MaxDelay /\ Skew[m] = 0
      BY <2>2 DEF Tick, ClocksAgree
    <3> QED  BY <1>2, <2>3, <3>1
  <2>5. stream[m][1].time <= stream[m][i].time
    BY <2>2 DEF OnceInv, StreamsInOrder
  <2>6. \A a, b \in Nat : a <= b /\ b <= clock /\ clock - a < MaxDelay
                             => b <= clock + 1 /\ (clock + 1) - b <= MaxDelay
    BY <1>2
  <2> QED  BY <2>1, <2>3, <2>4, <2>5, <2>6
<1>4. StreamsInOrder' /\ EndIsNewest'
  BY <1>1 DEF OnceInv, StreamsInOrder, EndIsNewest, Over
<1>5. BilledIsHeld'
  <2>1. 1..clock \subseteq 1..clock'
    BY <1>1, <1>2
  <2> QED  BY <1>1, <2>1 DEF OnceInv, BilledIsHeld, Held, AlreadyBilled, Over
<1> QED  BY <1>3, <1>4, <1>5 DEF OnceInv

\* add(): a report of a call that was billed finds the record.
LEMMA ReceiveOnce ==
    ASSUME TypeOK, OnceInv, NEW m \in Marshal, Receive(m)
    PROVE  OnceInv'
<1> DEFINE r == stream[m][1]
<1>1. /\ 1 \in DOMAIN stream[m] /\ Head(stream[m]) = r
      /\ r \in Report /\ r.time \in Nat \ {0} /\ r.call \in Call
  <2>1. stream[m] # <<>> /\ stream[m] \in Seq(Report)
    BY DEF Receive, TypeOK
  <2>2. 1 \in DOMAIN stream[m] /\ Head(stream[m]) = r
    BY <2>1
  <2> QED  BY <2>2, StreamsAreSeqs
<1>2. AddKnown(r) \/ AddUnknown(r)
  BY <1>1 DEF Receive
<1>3. EndsOfStreams /\ UNCHANGED <<progress, clock, crashes>>
  BY ReadingLeavesEnds DEF Receive, marshalVars
<1>4. StreamsInOrder' /\ StreamsTimely' /\ EndIsNewest'
  BY <1>3, ReadingKeepsStreams DEF OnceInv
<1>5. ~ Over(r.call, 0) /\ r.time \in 1..clock
  <2>1. r.time <= clock /\ clock \in Nat
    BY <1>1 DEF OnceInv, StreamsTimely, TypeOK
  <2> QED  BY <1>1, <2>1 DEF Over
<1>e. r.event = "end" => Over(r.call, r.time)
  BY <1>1 DEF OnceInv, EndIsNewest
<1>t. cache \in [Call -> CacheEntry \cup {NoCall}] /\ bills \in [Call -> 0..MaxBills]
  BY DEF TypeOK
<1> HIDE DEF r
<1>6. BilledIsHeld'
  <2> SUFFICES ASSUME crashes = 0, NEW d \in Call, bills'[d] # 0
               PROVE  bills'[d] = 1 /\ Held(d)'
    BY <1>3 DEF BilledIsHeld
  <2>1. ASSUME bills[d] # 0, cache'[d] = cache[d], bills'[d] = bills[d]
        PROVE  bills'[d] = 1 /\ Held(d)'
    <3>1. bills[d] = 1 /\ Held(d)
      BY <2>1 DEF OnceInv, BilledIsHeld
    <3>2. CASE Over(d, 0)
      BY <1>3, <2>1, <3>1, <3>2, OverStays DEF Held
    <3>3. CASE AlreadyBilled(d) /\ cache[d].end \in 1..clock /\ Over(d, cache[d].end)
      <4>1. AlreadyBilled(d)' /\ cache'[d].end \in 1..clock'
        BY <1>3, <2>1, <3>3 DEF AlreadyBilled
      <4>2. Over(d, cache[d].end)'
        BY <1>3, <2>1, <3>3 DEF EndsOfStreams, Over
      <4> QED  BY <2>1, <3>1, <4>1, <4>2 DEF Held
    <3> QED  BY <3>1, <3>2, <3>3 DEF Held
  <2>2. CASE d # r.call
    <3>1. cache'[d] = cache[d] /\ bills'[d] = bills[d]
      BY <1>1, <1>2, <1>t, <2>2 DEF AddKnown, AddUnknown, cacheVars
    <3> QED  BY <2>1, <3>1
  <2>3. CASE d = r.call /\ bills[d] # 0
    <3>1. AlreadyBilled(d)
      BY <1>5, <2>3 DEF OnceInv, BilledIsHeld, Held
    <3>2. cache' = cache /\ bills' = bills
      BY <1>2, <2>3, <3>1 DEF AddKnown, AddUnknown, AlreadyBilled, cacheVars
    <3> QED  BY <2>1, <2>3, <3>2
  <2>4. CASE d = r.call /\ bills[d] = 0
    <3> DEFINE old == Update(cache[d], r)
               new == [old EXCEPT !.event = "bill"]
    <3>1. /\ r.event = "end" /\ cache[d] # NoCall
          /\ cache' = [cache EXCEPT ![d] = new] /\ bills' = [bills EXCEPT ![d] = bills[d] + 1]
      BY <1>2, <2>4 DEF AddKnown, AddUnknown, cacheVars
    <3>2. old \in CacheEntry /\ old.end = r.time
      <4>1. cache[d] \in CacheEntry
        BY <1>t, <3>1
      <4> QED  BY <1>1, <3>1, <4>1 DEF Update, CacheEntry
    <3>3. new \in CacheEntry /\ new.end = r.time /\ new.event = "bill"
      <4> HIDE DEF old
      <4> QED  BY <3>2 DEF CacheEntry
    <3> HIDE DEF new, old
    <3>4. cache'[d] = new /\ bills'[d] = 1
      BY <1>t, <2>4, <3>1
    <3>5. AlreadyBilled(d)' /\ cache'[d].end \in 1..clock'
      BY <1>3, <1>5, <3>3, <3>4, CdrNoCallAssumption DEF AlreadyBilled
    <3>6. Over(d, cache[d].end)'
      <4>1. Over(d, r.time)
        BY <1>e, <2>4, <3>1
      <4> QED  BY <1>3, <3>3, <3>4, <4>1 DEF EndsOfStreams, Over
    <3> QED  BY <3>4, <3>5, <3>6 DEF Held
  <2> QED  BY <2>2, <2>3, <2>4
<1> QED  BY <1>4, <1>6 DEF OnceInv

\* A difference of times that has not wrapped.
LEMMA NotWrapped ==
    ASSUME NEW n \in Nat, NEW a \in 0..(n - 1)
    PROVE  a % n = a
OBVIOUS

\* purgeCache(): when the record of a billed call goes, its reports are gone.
LEMMA PurgeOnce ==
    ASSUME LivesCoverDelay, TypeOK, OnceInv, PurgeCache
    PROVE  OnceInv'
<1>1. UNCHANGED <<progress, clock, crashes, stream, bills>>
  BY DEF PurgeCache, marshalVars
<1>2. StreamsInOrder' /\ StreamsTimely' /\ EndIsNewest'
  BY <1>1 DEF OnceInv, StreamsInOrder, StreamsTimely, EndIsNewest, Over
<1>3. BilledIsHeld'
  <2> SUFFICES ASSUME crashes = 0, NEW d \in Call, bills[d] # 0
               PROVE  bills[d] = 1 /\ Held(d)'
    BY <1>1 DEF BilledIsHeld
  <2>1. bills[d] = 1 /\ Held(d)
    BY DEF OnceInv, BilledIsHeld
  <2>2. CASE Over(d, 0)
    BY <1>1, <2>1, <2>2 DEF Held, Over
  <2>3. CASE AlreadyBilled(d) /\ cache[d].end \in 1..clock /\ Over(d, cache[d].end)
    <3>1. CASE cache'[d] = cache[d]
      BY <1>1, <2>1, <2>3, <3>1 DEF Held, Over, AlreadyBilled
    <3>2. CASE cache'[d] # cache[d]
      <4>1. Purgeable(cache[d]) /\ cache[d].event = "bill"
        BY <2>3, <3>2 DEF PurgeCache, AlreadyBilled
      <4>2. Elapsed(cache[d].end) = clock - cache[d].end
        <5>1. clock \in 1..MaxClock /\ Word \in Nat /\ Word > 2 * MaxClock /\ MaxClock \in Nat
          BY CdrTimeAssumption DEF TypeOK
        <5>2. clock - cache[d].end \in 0..(Word - 1)
          BY <2>3, <5>1
        <5> QED  BY <5>1, <5>2, NotWrapped DEF Elapsed
      <4>3. clock - cache[d].end > MaxDelay
        <5>1. cache[d].end # 0
          BY <2>3
        <5>2. Elapsed(cache[d].end) > BillLife \/ Elapsed(cache[d].end) > MaxLife
          BY <4>1, <5>1 DEF Purgeable
        <5>3. /\ BillLife \in Nat /\ MaxLife \in Nat /\ MaxDelay \in Nat
              /\ MaxDelay <= BillLife /\ MaxDelay <= MaxLife
              /\ clock \in Int /\ cache[d].end \in Int
          BY <2>3, CdrTimeAssumption DEF LivesCoverDelay, TypeOK
        <5> QED  BY <4>2, <5>2, <5>3
      <4>4. \A m \in Marshal : \A i \in DOMAIN stream[m] : stream[m][i].call # d
        <5> SUFFICES ASSUME NEW m \in Marshal, NEW i \in DOMAIN stream[m], stream[m][i].call = d
                     PROVE  FALSE
          OBVIOUS
        <5>1. stream[m][i].time <= cache[d].end /\ clock - stream[m][i].time <= MaxDelay
          BY <2>3 DEF Over, OnceInv, StreamsTimely
        <5>2. /\ stream[m][i].time \in Nat /\ MaxDelay \in Nat
              /\ clock \in Int /\ cache[d].end \in Int
          <6>1. stream[m][i].time \in Nat
            BY StreamsAreSeqs
          <6>2. clock \in Nat /\ MaxDelay \in Nat
            BY CdrTimeAssumption DEF TypeOK
          <6> QED  BY <2>3, <6>1, <6>2
        <5> QED  BY <4>3, <5>1, <5>2
      <4>5. Over(d, 0)'
        BY <1>1, <2>3, <4>4 DEF Over
      <4> QED  BY <2>1, <4>5 DEF Held
    <3> QED  BY <3>1, <3>2
  <2> QED  BY <2>1, <2>2, <2>3 DEF Held
<1> QED  BY <1>2, <1>3 DEF OnceInv

LEMMA OnceStep ==
    ASSUME ClocksAgree, EndIsLast, LivesCoverDelay, TypeOK, OnceInv, [Next]_vars
    PROVE  OnceInv'
<1>1. CASE \E c \in Call : CallEvent(c)
  BY <1>1, CallEventOnce
<1>2. CASE Tick
  BY <1>2, TickOnce
<1>3. CASE \E m \in Marshal : Receive(m)
  BY <1>3, ReceiveOnce
<1>4. CASE PurgeCache
  BY <1>4, PurgeOnce
<1>5. CASE \E m \in Marshal : ShortRead(m)
  <2>1. EndsOfStreams /\ UNCHANGED <<progress, clock, crashes, cache, bills>>
    BY <1>5, ReadingLeavesEnds DEF ShortRead, cacheVars
  <2>2. BilledIsHeld'
    BY <2>1 DEF OnceInv, BilledIsHeld, Held, AlreadyBilled, Over, EndsOfStreams
  <2> QED  BY <2>1, <2>2, ReadingKeepsStreams DEF OnceInv
<1>6. CASE Crash
  <2>1. EndsOfStreams
    BY <1>6, ReadingLeavesEnds
  <2>2. UNCHANGED <<progress, clock>>
    BY <1>6 DEF Crash
  <2>3. crashes' # 0
    BY <1>6, CdrTimeAssumption DEF Crash, TypeOK
  <2> QED  BY <2>1, <2>2, <2>3, ReadingKeepsStreams DEF OnceInv, BilledIsHeld
<1>7. CASE \/ CheckFileSize \/ MindInitialize \/ SendBill \/ RenameFile \/ DeleteOldestFiles
           \/ (\E f \in unsent : OpenFile(f)) \/ UNCHANGED vars
  <2>1. UNCHANGED <<progress, stream, clock, cache, bills, crashes>>
    BY <1>7 DEF CheckFileSize, MindInitialize, SendBill, RenameFile, DeleteOldestFiles, OpenFile,
                vars, marshalVars, cacheVars
  <2> QED  BY <2>1 DEF OnceInv, StreamsInOrder, StreamsTimely, EndIsNewest, BilledIsHeld, Held,
                       AlreadyBilled, Over
<1> QED  BY <1>1, <1>2, <1>3, <1>4, <1>5, <1>6, <1>7 DEF Next

LEMMA OnceInit == CdrInit => OnceInv
<1> SUFFICES ASSUME CdrInit  PROVE OnceInv
  OBVIOUS
<1>1. DOMAIN <<>> = {}
  OBVIOUS
<1>2. \A m \in Marshal : DOMAIN stream[m] = {}
  BY <1>1 DEF CdrInit
<1> QED  BY <1>2 DEF CdrInit, OnceInv, StreamsInOrder, StreamsTimely, EndIsNewest, BilledIsHeld

\* However many marshals report a call, however their reports are interleaved
\* and whatever reports are lost, a server that has not crashed bills it once,
\* if the clocks agree and records live as long as a report may take.
THEOREM BilledOnceCorrect ==
    ASSUME ClocksAgree, EndIsLast, LivesCoverDelay
    PROVE  Spec => []BilledOnce
<1>1. ASSUME TypeOK, OnceInv  PROVE BilledOnce
  BY <1>1 DEF OnceInv, BilledIsHeld, BilledOnce
<1>2. TypeOK /\ OnceInv /\ [Next]_vars => OnceInv'
  BY OnceStep
<1> QED  BY <1>1, <1>2, OnceInit, TypeCorrect, PTL DEF Spec

=============================================================================
