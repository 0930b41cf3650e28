# A verification project for VOCAL

VOCAL is a voice-over-IP system: a SIP stack, a SIP user agent, an RTP stack, and
the servers around them (RTSP, voice mail, call detail records, STUN). This project
models four of its parts: the SIP transaction layer that every call goes through, the user
agent's calls, the receiving half of RTP, and the call detail record server. TLC checks the models;
the safety properties of both halves of the transaction layer, a refinement, the jitter buffer of
the receiver for voice, and the bills of the call detail record server are proved with TLAPS. Paths below are under `src/`; `sipstack/` stands for `src/sip/sipstack/`.

## Inventory

| Component | State it keeps | Operations | Modelled |
|---|---|---|---|
| UDP transport: `sipstack/SipUdpConnection`, `SipMsgContainer` | heap of containers by next transmission, attempt count, back-off, receive FIFO | `send`, `tick` (receive, transmit, discard), `getNextMessage` | `SipUdpConnection` |
| Messages and ids: `sipstack/SipTransactionId`, `StatusMsg` | method, call, CSeq, code | equality, `toBeRetransmitted` | `SipMsg` (what the transaction layer reads) |
| Call table: `sipstack/SipTransactionDB`, `SipCallContainer` | call containers with pairs, purge time, CSeq | lookup, `stopAllRetrans`, `setCallPurgeTimer`, `purgeOldCalls` | `SipTransactionDB` and the two below |
| Client transactions: `sipstack/SipSentRequestDB` | request/response pairs | `processSend`, `processRecv` | `SipSentRequestDB` |
| Server transactions: `sipstack/SipSentResponseDB` | request/response pairs, `curSeqNum` | `processSend`, `processRecv` | `SipSentResponseDB` |
| Transceiver and thread: `sipstack/SipTransceiver`, `sip/base/SipThread` | last purge, transports | `sendAsync`, `sendReply`, `receiveNB`, `tick` | in the actions of the two databases |
| Call leg: `sip/libsipua` (`UaClient`, `UaServer`, `uaState/*`, `CallDB`) | leg state, saved INVITE, ACK, response, CSeq | `recvRequest`, `recvStatus`, `sendRequest`, `sendStatus` per state | `UaCall` |
| User agent: `sip/gua` (`CallAgent`, `controlState/*`, `UaCallControl`) | control state, map of calls, media sessions | place, accept, stop, purge, hold, resume, device events | `UaCall` |
| Registration: `sip/gua/Registration*` | registrations and their timers | refresh, authentication | planned |
| RTP/RTCP: `rtp/RtpReceiver`, `RtpTransmitter`, `RtcpReceiver` | jitter buffer, source and its probation, sequence numbers | `readNetwork`, `retrieve`, `transmit`, BYE | `RtpReceiver`; statistics and reports not |
| CDR server: `cdr/cdrServer`, `cdr/cdrLib` | cache of calls, billing files, RADIUS requests | report, correlate, bill, roll over, send, delete | `CdrServer` |
| Media library: `libmedia/MediaController` | sessions | create, start, suspend, free | the life of a session, in `UaCall` |
| RTSP server, STUN, TCP transport | | session states; NAT classification; reassembly | planned |
| Utilities: `util` FIFO, timers, `Sptr` | queues, timer map | | in the actions that use them |
| Header parsing, SDP, voice mail, sound card, proxy framework, `contrib` | | text and device I/O, third-party code | no |

How the parts interact. One thread (`gua.cxx`, a `select` loop) calls
`SipThread::tick`, which runs `SipTransceiver::tick` (transport, then a purge when one
is due) and hands what `receiveNB` returns to the user agent. Downwards, the user
agent calls `sendAsync` and `sendReply`: the database makes a `SipMsgContainer`, keeps a
reference to it in its pair, and gives the same object to the transport. That shared
object is how a database later stops a retransmission: it sets the container's
`retransMax` to 0 while the container stays in the transport's heap. The transport in
turn talks back by pushing statuses that it makes up for failed sends into the FIFO
of received messages. In the user agent `CallControl` finds the leg of a message in `CallDB`; the leg
changes its state, sends what the protocol asks for, and tells the `CallAgent`, whose control state
may call back into the leg. The same loop runs the media sessions, whose `RtpReceiver` fills its
jitter buffer from the network and empties it at the pace of the codec. The CDR server is a process of its own,
also one loop, to which marshals report calls over TCP.

What is hard here: retransmission timers race with statuses, CANCEL and purges;
messages are lost, duplicated and reordered; a send fails on one attempt and not on
the next; a purge forgets a transaction whose container is still in the heap; commands of
users on both sides of a call cross each other's messages; two state machines per call must agree; a
session must be freed on each of many ways a call can end; sequence numbers wrap while packets overtake
each other; reports of one call arrive from machines with different clocks; the server crashes between
sending bills and recording that it did. `PROJECT.json` lists these as hazards, at
their lines, with the properties that cover them.

## Modules

    SipMsg <- SipUdpConnection <- SipTransactionDB <- SipSentRequestDB  <- SipSentRequestDBProofs, MCSipSentRequestDB
                                                   <- SipSentResponseDB <- SipSentResponseDBProofs, MCSipSentResponseDB
                                                   <- SipTransactionDBProofs <- SipSentRequestDBProofs, SipSentResponseDBProofs
    ClientTransaction <- SipSentRequestDB
    RtpReceiver <- RtpReceiverProofs, MCRtpReceiver
    CdrServer   <- CdrServerProofs, MCCdrServer
    UaCall      <- UaCallProofs <- UaCallJoinedProofs <- UaCallNumbersProofs
                <- MCUaCall

**SipMsg.** A message is a kind, a transaction id (call, CSeq number, method) and a
code. The id comparison of the source also looks at To, From and branch; within a
call these differ exactly when the CSeq number of the model does, so the number
stands for them. "INFO" stands for every request without special treatment.

**SipUdpConnection.** A container is created once and never reused, so `Container` is
the bound on what the process sends. Times are distances to now: `dueIn[c] = 0`
means the time of the next transmission has come, and `Elapse` counts down. One pass of the
loop in `tick()` is one action (`Transmit` or `Discard`): `tick()` may return after any pass
because the socket would block. Which of several due containers comes first is
left open: they are ordered by times finer than the model's. A transmission that is sent
and one that is dropped by the simulated loss look the same to the stack
(`st = 0`); a failed one makes up a status, two of them when it was the last attempt
(`LocalErrors`). A destination that does not resolve makes `send()` return -1,
which its caller ignores (`unroutable`).

**SipTransactionDB.** Call containers' purge timers, common to the two databases. `purgeIn` is
the rest of the 10 s, and -1 once past, since `purgeOldCalls` compares with `<`; `sincePurge` is
the time since the last sweep.

**SipSentRequestDB.** A pair lives with the container of its request: `pair[c]` is
"none", "pending", "answered" or "purged". `SendRequest` is `sendAsync` (an id already on
record is sent without a record; CANCEL stops the call's requests; CANCEL and BYE
set the purge timer), `RecvStatus` is `receiveNB` for a status, with one action per
outcome of `processRecv`. `finals`, `heard` and `cancelled` are history variables for the properties.

**ClientTransaction.** The abstract specification that the client half implements. A request is
"unsent", "sending" or "silent", has a number of transmissions and a record; there is no heap, no
timer and no table. The refinement mapping (`Air` in `SipSentRequestDB`) calls a container
"sending" while it is in the heap with its limit above its count, so a container that was stopped
is silent from the moment the shared limit is lowered, not from when the heap drops it.
What it does not promise is that forgetting a record silences the request.

**SipSentResponseDB.** `pairs[k]` is the list of pairs of a call in the order of
the source's list. `RecvRequest` is `receiveNB` for a request, one action per outcome:
outside a call, duplicate of an answered or a pending request, proxy, in order, out
of order, ACK or CANCEL. `AppReply` is `sendReply`; the application may answer
anything it was handed, also twice. When a duplicate of an answered request arrives the source
stores the duplicate's own container where the response was (`RcvdCopy`), and an
out-of-order request's pair gets a 400 that is never transmitted (`Unsent`); both are modelled as
they are.

The two halves share only the transport; they are checked one at a time, since a
status never enters the response database and a request never the request database.

**UaCall.** Several user agents and the calls between them, above the transaction layer. What that layer shows to a user agent is taken from the two modules above:

- a request is delivered once, of the finals of a request one, provisional statuses always, in no particular order;
- before a request is handed up, the receiver's stack compares its CSeq with that of the call (`stack`, `Duplicate`, `OutOfOrder`, `Recorded`: the part of `SipSentResponseDB::processRecv` that
  depends on numbers): the first ACK or CANCEL sets the number, a later INVITE or BYE has to be above it, or it is dropped (`Refuse`; its 400 is never sent);
- a message may get lost for good, and then nobody tells its sender (`Lose`): a request whose transmissions are exhausted gets no status. Only a `sendto` that fails makes
  the sender's own stack answer the request (`SendFails`), with 408, which is not acknowledged, or another code (404 stands for 400, 403 and 404).

An agent is a record with the state of the leg (`leg`), the control state (`ctl`), its number in `myCallMap` (`id`), two CSeqs, and whether it owns a media session and has freed it.
The two CSeqs are that of the leg (`cseq`, `myLocalCSeq`), from which the next BYE or re-INVITE is numbered, and that of the saved INVITE (`request`), which a CANCEL carries. They are not the same:
a 302 raises both (`InviteAgain`), a 401 only the second (`DoAuthentication`); the 200 of an INVITE brings them together in RINGING and INCALL (`Synced`), not in C_TRYING.
One event is one action, with every call back and forth between leg, control state and media controller inside: the operators from `Send` to `AcceptCall`
take the agent in the middle of a step (with its messages and sessions so far) to the agent after one function of the
source, and `Handled` stores the result; `myCallMap` is written when an agent is made and when it is deleted, at no other time. States that are left in the step that enters them (IDLE,
S_TRYING, END, TEAR_DOWN) do not appear. Users and devices act at any time (`Accept`, `Stop`, `Purge`, `DeviceStop`, and `ReInvite` for hold and resume, which the code accepts in any state: a leg in C_TRYING
sends its INVITE once more, a call that rings has no session and runs into an assertion, `ReInviteAborts`). Assertions of the code that can fail end the process
(`Abort`): that of `UaStateRinging` after `callFailed()` depends on who still holds a reference, so rejecting a call has two
outcomes (`Stop`, `BusyAborts`). `answered`, `joined`, `quit`, `silent`, `behind`, `tooLate`, `lost` and `failed` are history variables.

What `UaCall` leaves out of the parts it models; its properties say nothing of these cases:

- a call's container in `stack` is kept for good; the source purges it 10 s after the agent is gone (`UaBase::~UaBase`), when a late message of the call may be handed up again;
- a proxy gives one final response per call, to its first INVITE. A 302 after a 401, or a 401 after a 302, is left out: the leg in REDIRECT does not send the INVITE
  with credentials, and a 302 after a 401 reuses the challenged INVITE's number. When a hold repeats an INVITE that the proxy has answered, the proxy does not pass it on;
- accepting a call that is up sends another 200 (`UaStateInCall::sendStatus`); the caller's stack drops it as a second final, and it is left out;
- a `sendto` that fails for a retransmission, after an earlier copy of the request arrived, is left out (the callee's answer and the made-up one would race; `SipSentRequestDB` has that case). So are the
  statuses made up for an ACK, which no request waits for, and for a BYE, whose agent is gone;
- a 480, which frees the session on one more path; `freedMedia` makes the second time do nothing.

**RtpReceiver.** Transmitters send packets with the numbers and times `transmit` gives them; every packet sent may
be received any number of times in any order (`sent` is never emptied). `jb` is the ring with `inPos` and `playPos`; `ReadNetwork` is
`readNetwork` with `getPacket` and `updateSource`: an event for the call-back, a packet of a stranger that is refused or believed after its probation, or a packet that
goes into the buffer (`Buffered`: prime, patch silence, append, or put a late one in its place). The loops that insert silence are
written in closed form: `Missing` is the round in which the `while` of `readNetwork` ends, and `InsertSilence` the ring after that many
calls of `insertSilenceRtpData`. `Retrieve` takes the next slot. Payloads are the number and the source of the packet.

**CdrServer.** `stream[m]` is a marshal's TCP connection, `cache` the map of calls, `billFile` the open billing
file, `unsent` the files rolled over, `job` the file that `sendBillingRecords` is in the middle of; that function runs in
the loop without being interrupted by others, but a crash may come between any two bills, so it is split (`OpenFile`, `SendBill`,
`RenameFile`) and everything else waits (`BillingIdle`). Times are the clocks of the machines, subtracted as unsigned numbers (`Elapsed`). A crash
empties the cache and the pending requests and keeps the files. A bill that the RADIUS client refuses goes to the error file (`Refuse`), which is opened at the first refusal and stays
open (`errHandle`). If it does not open, the code logs an alert, sets `errFileBusted` and does not try again before it is restarted: refused bills are then in no file but the one
that is renamed as sent (`unkept`). The properties of the ledger name these bills as the one exception. A file is identified by its contents: the name with the time in seconds
that `checkFileSize` gives it, and so a collision of two names, is not in the model; neither are failing writes, nor a billing file that cannot be opened (the source skips it).

Definitions under a comment "Mutant of ..." are not part of the model: each is a plausible bug
in the code that a property of the project has to detect.

## Runs

| Run | What is checked |
|---|---|
| `request_calls` | Two sends out of INVITE, ACK, CANCEL of a call and a request of another, possibly the same twice, in a proxy, with statuses, failed sends, a destination that may not resolve, four transmissions (so the back-off reaches its ceiling), purges. `TypeOK`; `AtMostOneFinal`: no second recorded final status for the application; `NoLostRequest`: a request waiting for a status is in the heap or exhausted; `UniquePairs`: one record per id, also when an id is sent again; `QuietAfterStatus`, `QuietAfterCancel`: nothing on the wire after a status or a CANCEL; `ImplementsPromise`: every step is one of `ClientTransaction`'s or none. |
| `request_liveness` | `QueueDrains`, `FinalEndsTransaction`, `EndedCallIsForgotten` under fairness, in a user agent. |
| `response_invites` | An INVITE, its ACK, a late request with the INVITE's number and a second INVITE, each duplicated and reordered. `TypeOK`; `NoDuplicateDelivery`; `PairsConsistent`: a response is on record only with the request it answers; `RecordedFinalKeepsGoing`; `NoRequestBehindAck`; `AckSilencesFirstInvite`. |
| `response_proxy` | `ProxySendsOnce`, with a CANCEL, an unresolvable destination and purges; `EndedCallIsForgotten` under fairness. |
| `ua_calls` | A calls B, and B calls a server, in any overlap. `TypeOK`; `AgentPersisted`: the map of calls and `CallDB` agree; `MediaReleased`: a session is open exactly while its agent owns it, on every way a call ends; `StaysUp`: a call both sides are in stays up on both until somebody hangs up, whatever arrives late; `EndsOnBothSides`: it ends on both, because the BYE passes the order check of the peer; excepted are a callee that left before the ACK came (`silent`) and a caller whose numbers fell behind (`behind`, see below). |
| `ua_hold` | One call, challenged or not, with a hold at any time, one message that gets lost or cannot be sent, a re-INVITE that arrives after the end. `LegFollowsControl`: the two state machines of an agent agree, but for a call that rings again; `InCallHasSession`: no call is up without a session; `SessionAtHand`: before the first re-INVITE, no message finds the session it needs gone; `MediaReleased`; `CancelEnds`: a cancelled call goes away under a fair event loop, also when the CANCEL or the INVITE cannot be sent; if a message is lost for good it may stay in FAILURE, and that is excepted, as is a callee that accepted first or whose process ended. |
| `rtp_voice` | Two talkers, reordering and duplication of everything, wrap-around, silence, a takeover. `TypeOK`; `JbSane`: what `verifyJbSanity` asserts; `Contiguous`; `PlaysForward`; `VoiceOfSource`; `VoiceKept`: an arriving packet destroys no voice but the oldest. |
| `cdr_two_marshals` | Two marshals, two calls, a fault. `TypeOK`; `BilledOnce`; `SentIsAccountedFor`: a bill in a file renamed as sent was handed over, is in the error file, or was refused while the error file could not be opened; `BillsKept`; `AccountedOncePerRun`; `BilledIsAccountedFor` under fairness, with the same exception. |
| `response_resent`, `rtp_events`, `cdr_clock_ahead`, `ua_resume` | findings, below |

Bounds. SIP stack: times are scaled: `RetransInit` 1 and `RetransCeil` 2 for 500 and 4000 ms, so
that doubling, the ceiling and equality with it all occur with `MaxRetrans` 4 and the first two
with 2 or 3 (7 in the source); `PurgeDelay` and `PurgePeriod` are 0 or 1 for 10 s and 5 s.
In the source seven transmissions take 15.5 s, longer than the purge delay; in
the model too a purge can come between two transmissions. `FifoBound` 1 bounds
arrivals, not what failed sends add: a second datagram may arrive after the first is
taken, so every order of arrivals still occurs. Two containers allow a
second send of an id, a CANCEL beside a request of another call, or two replies. Containers
are interchangeable and reduced by symmetry in the safety runs without liveness.
User agent: two calls that share a user agent are the least with a busy callee, a device
event and numbers that differ; `MaxReInvite` 1 has the hold cross everything else, and 2 (hold and resume) is used for the finding; `MaxLost` 1 bounds the messages that are lost and those that cannot be sent together.
RTP: six packets through a buffer of four slots (configured, 1024 at most, in the source) overrun it and let it run empty; the first
talker starts three numbers before the wrap; numbers modulo 16 instead of 2^16, more than twice what is ever in flight; one packet
is not voice or follows a pause. CDR: four ticks of the clock with life times 1 and 2; one crash or short read; 7 RADIUS ids instead of 256, so that
they run out; two files reach the storage limit; `MaxBills` 4 bills of one call, which no run reaches.
`CHECK_DEADLOCK FALSE` is used because a process with nothing left to do may stop.

Fairness. SIP stack: weak fairness of the transport's tick, of taking a message from the
FIFO, of the sweep and of time. `gua.cxx` loops over `select`, with a sleep of at most 60 s, and
`SipThread::tick`, and nothing else runs in that thread; the assumption is that the
socket does not return "would block" for ever. Nothing is assumed of the application
and the network. User agent: the same loop hands up what has arrived (`Deliver`);
nothing is assumed of users, proxies, losses and failed sends. CDR server: its loop calls `tick` of every part, so each connection is read, and files age, are opened,
sent and renamed; nothing is assumed of marshals, calls, purges and crashes.

## Findings

1. `LostResponseResent`: a retransmitted INVITE should bring the lost 200 again. The code
   sets the 200's limit to 0 instead and stores the duplicate request in its place.
2. `JbSane`, with telephone events: an event takes a sequence number and no time and never enters the
   jitter buffer. Places counted back by sequence numbers are then off by one, and a late
   packet can be written outside the queue, where the receiver's own assertion forbids it.
3. `BilledOnce`, with a marshal whose clock is ahead: the age of a billed record wraps, the record is purged
   at once, and the second marshal's reports are billed again.
4. `HoldKeepsCall`: on hold, any status but a 200 ends the call without a BYE. The 100 that precedes the 200 of a
   resume is such a status.

Other disagreements met on the way, without a run of their own:

- the change log promises that transactions are collected only after a final response; the purge timer that a BYE
  sets (10 s) expires while the BYE is still retransmitted (15.5 s), and its late answer is dropped;
- the ACK of a second INVITE is matched to the first INVITE of the call, so the second 200 is sent
  again although it was acknowledged;
- the 400 for an out-of-order request is recorded and never transmitted; the order check also starts only with the first
  ACK or CANCEL of a call, so `NoRequestBehindAck` says less than the change log does;
- a request whose transmissions are exhausted gets no time-out status, which is why `NoLostRequest` has that disjunct;
- a user agent that is a server numbers its calls by how many it has; with three callers, after the first hangs up, two calls have one
  number and one place in the map (`AgentPersisted` excepts servers);
- after a 401 the leg's CSeq stays behind that of its INVITE (`doAuthentication` raises only the latter). A 200 that arrives after the 180 brings it up (`UaStateRinging`), one that overtakes the 180
  does not (`UacStateTrying`). The caller's BYE then carries the number of its own ACK, the callee's stack refuses it as out of order, and the callee stays in a call that the caller has stopped.
  `EndsOnBothSides` excepts these calls (`behind`); without the exception TLC finds this trace in `ua_calls`;
- hanging up on hold, and a callee's hanging up before the ACK came, send no BYE; the properties except these calls;
- stopping a call that was redirected frees its session and sends nothing, so its answer fails an assertion: `SessionAtHand` does not hold
  with a 302, which is why only `ua_calls` has one, and why its theorem excludes redirection;
- a re-INVITE that crosses the end of its call rings at a telephone that had hung up, and the answers of that second call find no session: `SessionAtHand` and
  `LegFollowsControl` except it. Nobody need have hung up: a call that fails silently on hold is enough;
- a duplicated RTCP BYE, or one of an unknown source, runs into `assert(0)`; a talker that returns after it was replaced is discarded for good;
- CDR: once the error file could not be opened, refused bills are lost for good although their file is renamed as sent; this is what the code's alert announces;
- CDR: life times are in milliseconds and compared with seconds; "true if sent and acknowledged by server" is returned once a request is queued; nothing ever calls
  `RadiusStack::tick`, so answers are not read and ids are not freed.

## Proofs

`SipSentRequestDBProofs` proves, for all values of the constants that satisfy the
assumptions of the modules, `Spec => []` of `TypeOK`, `UniquePairs`, `AtMostOneFinal` and
`NoLostRequest`, and `Spec =>` the action properties `QuietAfterStatus` and `QuietAfterCancel`.
None of the last four is inductive. The invariant that carries them is `IInv`, the conjunction of
the type invariant and named parts:

- a container without a message is in no set and has no pair, so `Send` cannot disturb history;
- the message of a recorded container is a request, so the FIFO's statuses find what they answer;
- one record per id (`UniquePairs`);
- a request that was handed a final status is "answered" or "purged", never "pending":
  hence at most one;
- a container in `heard` or `cancelled` has limit 0, and the limit never rises again because only
  a fresh container is given one: hence the silence, also after the record is gone;
- a pending request that nothing stopped still has its initial limit, and a container leaves the heap only
  when its attempts reached its limit: hence `NoLostRequest`.

The back-off stays within `WaitBound`: doubling happens only below the ceiling.
One lemma per action shows that it preserves `IInv`; `IInv` was checked with TLC before it was proved.

`ImplementsPromiseCorrect` proves that the specification implements `ClientTransaction`: one
lemma per action shows which abstract step it is. It needs `IInv` for three facts: a fresh container has
count 0 and is not in the heap, so accepting it makes it "sending"; a recorded container holds a
message, so silencing it makes it "silent" and not "unsent"; limits are at most `MaxRetrans`, so a transmission
that is not the last one leaves room for another.

`CdrServerProofs` proves, for any calls, paths, scripts, clocks, number of request ids and number of
crashes, `Spec => []` of `TypeOK`, `SentIsAccountedFor`, `BillsKept` and `AccountedOncePerRun` of the CDR server.
None of the last three is inductive either.

- `SentIsAccountedFor` is carried by `JobAccounted`: the bills that the loop of `sendBillingRecords` has passed are
  accounted for: handed over, in the error file, or in `unkept`. The file is renamed when the loop has passed all of them; a crash forgets the loop and no bill.
- `BillsKept` is carried by `PlaceInv`: no two places of the files hold the same bill, the bills in the files are those written,
  and the current billing file is not one that was rolled over. A new bill has a number its call never had;
  every other step moves whole files.
- `AccountedOncePerRun` is carried by `TimesInv`: a bill is accounted for at most once per crash, and once more if the
  loop has passed it or its file was renamed. The bill sent next is neither, because it has one place (`PlaceInv`)
  and its file is unsent and not sent (`SendingInv`); that file cannot be deleted meanwhile, since files are deleted only while there
  is no RADIUS client.

`BilledOnceCorrect` proves `BilledOnce` from three hypotheses, which the constants of `cdr_two_marshals` satisfy: the clocks
of the marshals agree with the server's (`ClocksAgree`; without it the property is false, finding 3), END is
the last event of a call (`EndIsLast`), and a record lives at least as long as a report may be under way
(`LivesCoverDelay`). The argument: a connection delivers reports in the order of their times and none later than `MaxDelay`;
once an END is in a stream, no report of its call is newer; so a billed record (`BilledIsHeld`) stays in the cache
until the last report that could start another record has been read. "At most once" is not inductive without saying what holds the record.

`SipSentResponseDBProofs` proves, for both application contexts, `TypeOK`, `PairsConsistent`, `NoDuplicateDelivery`,
`RecordedFinalKeepsGoing`, `ProxySendsOnce`, and the action properties `NoRequestBehindAck` and `AckSilencesFirstInvite`. `IInv` has
beside the type invariant and `PairsConsistent`:

- `FirstPairIsInvite`: the first pair of a call is an INVITE that was not rejected, because a call container is made only for an
  INVITE and the order check starts later. It stays the pair that an ACK finds, however many follow;
- `DeliveredHasPair`: what was handed up has a pair, by which a duplicate is recognised, until the call is purged and its history with it;
- `SeqFollowsAck`: `curSeqNum` covers every ACK and CANCEL handed up, so the order check refuses what is behind them;
- `AckedHasLimitZero`, `ProxyLimit`, `KeepsGoing`: who may have lowered a limit. A container is the response of one pair only (from `PairsConsistent`
  and a fresh container being nowhere), so stopping one response disturbs no other.

What the two halves share (a step of the transport changes no message and lowers no limit; a container that leaves the heap
is exhausted) is in `SipTransactionDBProofs`.

`RtpReceiverProofs` proves all the properties of `rtp_voice`: `TypeOK`, `JbSane`, `Contiguous`, `PlaysForward`, `VoiceOfSource` and the action
property `VoiceKept`, for any transmitters, buffer size and moduli. The hypotheses are that there are no events (`NoEvents`; with them `JbSane` is false,
finding 2) and that numbers and times are not ambiguous (`NumbersFit`, `TimesFit`). Since the network of the model may deliver any packet ever sent at any time, these bound a
stream as a whole: with 2^16 numbers, to about 32000 packets, some eleven minutes at 20 ms. What is proved of longer calls is that no trouble comes from what is
younger than that. The run's constants satisfy the hypotheses. The invariant:

- `StreamInv`: a transmitter's numbers are consecutive and its times at least as far apart as the numbers, so the loop that patches silence
  ends by the numbers (`Missing` is exactly the gap);
- `RingInv`: exactly the `Count` slots before `inPos` are in use, and their numbers go down from the newest. `JbSane` and `Contiguous` follow;
- `LastInv`: the newest slot is a packet that was sent, and the buffer holds no more than its stream had before it and the leading silence. Together
  with `NumbersFit` the differences that `RtpSeqDifference` computes modulo 2^16 are then the true ones;
- `VoiceInv`: all voice in use is the source's; a takeover clears the buffer;
- `PlayedInv`: what was played last is behind all slots in use, and not so far behind that it seems ahead: a late packet is played in order or dropped.

Lemmas on remainders carry the wrap-around of numbers and positions.

`UaCallProofs` proves of the user agents `TypeOK`, `AgentPersisted`, `MediaReleased`, `LegFollowsControl`, `InCallHasSession`, for any user agents, servers and calls between them and any number of
holds, lost messages and failed sends, and `SessionAtHand` where no proxy redirects (`302 \notin ProxyCode`; with redirection it is false, see above). None is inductive: what an agent does with a message
depends on what the other side knew when it sent it. Beside these properties `IInv` has:

- `AgentInv`: which combinations of leg, control state, ownership and freed session a caller's agent (`ClientOK`) and a callee's (`ServerOK`) can have; in particular a caller's agent has freed its session
  when its leg has failed;
- `NetInv`: a CANCEL or an answer to one is on its way only if the caller's leg has failed (`Failed`), an ACK of the caller or a BYE of the callee only if that leg is past its final response (`Past`).
  These facts are stable, because no step takes a leg back. Without them a BYE that overtakes the 200 would find a leg that rings;
- `AckedInv`: the same of a callee that has its ACK, which is what makes its BYE harmless;
- `MapInv`: what is in `myCallMap` is in `CallDB` under that number. So different numbers have different calls, and the number of a server's new call, the count of the others, is in range;
- `PlainInv`: before the first re-INVITE of a call only its callee answers and only its caller invites, so no agent of the caller rings;
- `DirectInv`: without redirection no leg is in REDIRECT, the one state in which a stopped call has no session and still takes a 200.

The proof has three layers. One lemma per function of the source says what it makes of an agent in the middle of a step (`Finished` for those that end a call, `Took` for those that receive a message). `HandledInv`
says what the agent after the step must be (`Sound`) for storing it to keep `IInv`. One lemma per action connects them.

`UaCallJoinedProofs` and `UaCallNumbersProofs` prove `StaysUp` and `EndsOnBothSides`, for any user agents and calls, of each call that was not put on hold and had no message lost or fail to be sent; its neighbours may hold, lose and
crash. Both properties speak of two user agents at once, so the invariant `JInv` adds to `IInv` what the messages on their way say of both agents of a call:

- `Calm`, before anybody hangs up: the INVITE, or one final response to it, is on its way, or the callee has the call, never two of these; a 200 is on its way only to a caller that is not up, from
  a callee that is; no CANCEL and no BYE exists. Hence there is no second final response that could end a call that came up, and what is left of the setting up, a 180 or an ACK, changes nothing;
- `Done`, once somebody has hung up: the caller's agent is gone or has freed its session, or the callee's is gone and no message can make the INVITE arrive again. So the call does not come up any more, and a call
  that comes up is calm;
- `Joined`, for a call both sides were in: a side that left sent a BYE that is still on its way while the other side is there (except for the calls in `silent` and `behind`), and who sent a BYE is gone. So the BYE's arrival
  makes both gone;
- `OneCallInv` and `ServerUaInv`: a telephone has one call at a time and a server never misses a session, so that an assertion that ends the process of a user agent ends no other call.

These facts are not enough: a BYE on its way ends the call only if the callee's stack does not refuse it. `NumInv` compares numbers, and is carried together with `JInv`:

- `Below`: the requests of the caller other than BYE, those on their way and those the callee's stack has counted, have numbers below a given one;
- `CalmNumbers`, before anybody hangs up: that one is above the INVITE the caller sent last; the INVITE, its answer and the callee's agent have the number of that INVITE; and a caller that is up
  numbers from it or from above it, unless it fell behind. A 200 in RINGING is what establishes this after a 401, and `behind` is exactly the calls that came up without it;
- `JoinedNumbers`, for a call both sides were in: the BYE that the caller sends, or would send, is above all of them, so `OutOfOrder` does not hold of it (`ByeIsInOrder`);
- `CallerStack`: the callee sends no INVITE, so the caller's stack has no container and refuses nothing.

One lemma per action shows what it makes of its own call (`Good`, and `Numbers` in the second module); `EventInv`, `NetEventInv` and `AbortEventInv` show once that it leaves the other calls alone. `JInv` and `NumInv` were checked with TLC, on the constants of the `ua_` runs, before they were proved.

Only model-checked: the liveness properties (`QueueDrains`, `FinalEndsTransaction`, `EndedCallIsForgotten`, `BilledIsAccountedFor`, `CancelEnds`), which
rest on fairness and `ENABLED`; the receiver with events, and streams longer than the hypotheses allow.

## Not modelled

SIP stack: TCP transport, NAT rewriting of Via and Contact, Max-Forwards, DNS beyond "may not resolve", To-tag
bookkeeping, header parsing and formatting, the 64 KB limit of a datagram, and the statistics
interface. User agent: SUBSCRIBE, INFO, OPTIONS, the content of SDP, responses to BYE (whoever sends one deletes its agent), a
`resumeSession` that fails, three-way calls. RTP: RTCP reports, jitter statistics, codecs. CDR: record formats, RADIUS encoding and answers. And the
components marked "planned" or "no" above.

## Plan

1. An abstract server transaction, and an abstract call that `UaCall` implements as long as nobody holds it (`JInv` is where to start).
2. Registration (one timer per registration, retries), then the RTSP session and NAT classification.
