---------------------------- MODULE RtpReceiver -----------------------------
(***************************************************************************)
(* The receiving half of an RTP session (RtpReceiver): which transmitter   *)
(* is listened to, and the jitter buffer, a ring of cur_max_jbs slots that *)
(* puts reordered packets back in order and fills gaps with silence.       *)
(* readNetwork() runs when a datagram arrives, retrieve() when the codec   *)
(* wants the next frame; RTCP datagrams add and remove transmitters.       *)
(*                                                                         *)
(* The peers are RtpTransmitters.  The network loses, duplicates and       *)
(* reorders: every packet sent may be received any number of times, in     *)
(* any order.  Sequence numbers and times wrap.  An event packet takes a   *)
(* sequence number but leaves the transmitter's RTP time alone.            *)
(***************************************************************************)
EXTENDS Integers, FiniteSets

CONSTANTS
    Ssrc,          \* the transmitters
    SeqMod,        \* RTP_SEQ_MOD, 2^16 in the code
    TimeMod,       \* RTP times are 0..TimeMod-1, RTP_TIME_MOD is TimeMod-1
    SampleSize,    \* sampleSize, the time from one packet to the next
    JbSize,        \* cur_max_jbs
    MaxProbation,  \* packets of a stranger refused before it is believed, 4
    Kind,          \* the kinds of packet sent: "other" is a payload that is not
                   \* of the format expected, "cn" comfort noise or no payload
    DtmfCallback,  \* getDTMFInterface() # 0
    SeqStart,      \* prevSequence of a new transmitter
    MaxSent,       \* packets a transmitter sends, a bound
    MaxOdd,        \* of these, how many are not voice or follow a pause, a bound
    NoSsrc,
    NoSeq

ASSUME RtpModAssumption ==
    /\ SeqMod \in Nat /\ SeqMod > 2 * JbSize
    /\ TimeMod \in Nat \ {0}
    /\ SampleSize \in 1..(TimeMod - 1)
ASSUME RtpJbAssumption == JbSize \in Nat \ {0} /\ MaxProbation \in Nat
ASSUME RtpKindAssumption == Kind \subseteq {"voice", "other", "cn", "event"}
ASSUME RtpSentAssumption ==
    /\ SeqStart \in [Ssrc -> 0..(SeqMod - 1)]
    /\ MaxSent \in [Ssrc -> Nat] /\ MaxOdd \in [Ssrc -> Nat]
    /\ \A s \in Ssrc : 2 * MaxSent[s] < SeqMod
ASSUME RtpNoneAssumption == NoSsrc \notin Ssrc /\ NoSeq \notin Nat

VARIABLES
    tran,     \* per transmitter: prevSequence, prevRtpTime, and what was sent
    sent,     \* packets sent, each may still be received
    jb,       \* jitterBuffer, inPos and playPos
    source,   \* sourceSet, ssrc, probation, srcProbation (with probationSet)
    played    \* sequence number of the last slot retrieved since the buffer
              \* last ran empty or was cleared

vars == <<tran, sent, jb, source, played>>

Packet == [ssrc : Ssrc, seq : 0..(SeqMod - 1), time : 0..(TimeMod - 1), kind : Kind]

-----------------------------------------------------------------------------
(* Arithmetic of sequence numbers and times (rtpTools) *)

\* a - b, with wrapping taken into account.
RtpSeqDifference(a, b) ==
    CASE a - b > SeqMod \div 2 -> -((SeqMod - a) + b)
      [] b - a > SeqMod \div 2 -> a + (SeqMod - b)
      [] OTHER -> a - b

RtpSeqGreater(a, b) == RtpSeqDifference(a, b) > 0

RtpTimeGreater(a, b) ==
    \/ a > b /\ a - b <= (TimeMod - 1) \div 2
    \/ a < b /\ b - a > (TimeMod - 1) \div 2

-----------------------------------------------------------------------------
(* The ring *)

Pos == 0..(JbSize - 1)

\* A slot that is NULL, or not in use: nothing reads its other fields.
FreeSlot == [inUse |-> FALSE, silence |-> FALSE, ssrc |-> NoSsrc, seq |-> 0, time |-> 0]

EmptyJb == [slot |-> [i \in Pos |-> FreeSlot], inPos |-> 0, playPos |-> 0]

Following(i) == (i + 1) % JbSize

\* getJitterPktsInQueueCount()
Count(b) ==
    IF b.inPos = b.playPos
    THEN IF b.slot[b.inPos].inUse THEN JbSize ELSE 0
    ELSE (b.inPos - b.playPos) % JbSize

\* calculatePreviousInPos()
PreviousInPos(b, ago) == (b.inPos - ago) % JbSize

LastSlot(b) == b.slot[PreviousInPos(b, 1)]

VoiceSlot(p) ==
    [inUse |-> TRUE, silence |-> FALSE, ssrc |-> p.ssrc, seq |-> p.seq, time |-> p.time]
SilenceSlot(s, t) ==
    [inUse |-> TRUE, silence |-> TRUE, ssrc |-> NoSsrc, seq |-> s, time |-> t]

\* Mutant of SetRtpData: a duplicate moves the play position as well.
SetRtpDataMovesOnDup(b, p, i) ==
    LET full == b.slot[i].inUse /\ Count(b) = JbSize /\ b.playPos = i
    IN  [b EXCEPT !.slot[i] = VoiceSlot(p),
                  !.playPos = IF full THEN Following(@) ELSE @]

\* setRtpData(): when the ring is full and its oldest slot is overwritten
\* with another packet, the next slot becomes the oldest.
SetRtpData(b, p, i) ==
    LET overrun == /\ b.slot[i].inUse /\ b.slot[i].seq # p.seq
                   /\ Count(b) = JbSize /\ b.playPos = i
    IN  [b EXCEPT !.slot[i] = VoiceSlot(p),
                  !.playPos = IF overrun THEN Following(@) ELSE @]

AppendRtpData(b, p) == [SetRtpData(b, p, b.inPos) EXCEPT !.inPos = Following(@)]

\* insertSilenceRtpData(), n times, with numbers from s and times from t on.
\* Once the ring is full its oldest slot is the one inserted next.
InsertSilence(b, n, s, t) ==
    LET silence(k) == SilenceSlot((s + k) % SeqMod, (t + SampleSize * k) % TimeMod)
        place(i) == (i - b.inPos) % JbSize
    IN  [slot |-> [i \in Pos |-> IF place(i) < n THEN silence(place(i)) ELSE b.slot[i]],
         inPos |-> (b.inPos + n) % JbSize,
         playPos |-> IF Count(b) + n > JbSize THEN (b.inPos + n) % JbSize ELSE b.playPos]

-----------------------------------------------------------------------------
(* readNetwork(), once the packet has been accepted *)

\* An empty buffer is half filled with the silence before the packet.
Lead == IF JbSize \div 2 > 1 THEN JbSize \div 2 - 1 ELSE 0

Prime(b, p) ==
    InsertSilence(b, Lead, (p.seq - Lead) % SeqMod, (p.time - SampleSize * Lead) % TimeMod)

\* After k rounds of the while loop the time, or the sequence number, still
\* shows a gap between the newest slot and the packet.
TimeGap(b, p, k) ==
    RtpTimeGreater((p.time - SampleSize) % TimeMod, (LastSlot(b).time + SampleSize * k) % TimeMod)
SeqGap(b, p, k) == RtpSeqDifference(p.seq, (LastSlot(b).seq + k) % SeqMod) > 1

\* Mutant of Missing: the time alone decides how much is missing.
MissingByTime(b, p) ==
    CHOOSE k \in 0..JbSize :
        (k = JbSize \/ ~TimeGap(b, p, k)) /\ \A j \in 0..(k - 1) : TimeGap(b, p, j)

\* The number of rounds; a packet that is not early is less than JbSize ahead.
Missing(b, p) ==
    CHOOSE k \in 0..(JbSize - 1) :
        /\ ~(TimeGap(b, p, k) /\ SeqGap(b, p, k))
        /\ \A j \in 0..(k - 1) : TimeGap(b, p, j) /\ SeqGap(b, p, j)

\* The while loop: silence for the missing packets, as long as both the time
\* and the sequence number show a gap.
PatchSilence(b, p) ==
    InsertSilence(b, Missing(b, p), (LastSlot(b).seq + 1) % SeqMod,
                  (LastSlot(b).time + SampleSize) % TimeMod)

\* Mutant of SetLate: the slot after the right one.
SetLateOffByOne(b, p) ==
    LET sd == RtpSeqDifference(LastSlot(b).seq, p.seq)
    IN  IF sd > Count(b) THEN b ELSE SetRtpData(b, p, PreviousInPos(b, sd))

\* Mutant of SetLate: a packet older than the oldest slot is not dropped.
SetLateKeepsOld(b, p) ==
    LET sd == RtpSeqDifference(LastSlot(b).seq, p.seq) + 1
    IN  IF sd > JbSize THEN b ELSE SetRtpData(b, p, PreviousInPos(b, sd))

\* A late packet goes to its slot, unless that has been played already.
SetLate(b, p) ==
    LET sd == RtpSeqDifference(LastSlot(b).seq, p.seq) + 1
    IN  IF sd > Count(b) THEN b ELSE SetRtpData(b, p, PreviousInPos(b, sd))

\* The packet is so early that the buffer starts afresh.
Early(b, p) == Count(b) > 0 /\ RtpSeqDifference(p.seq, LastSlot(b).seq) > JbSize

Buffered(b, p) ==
    CASE Count(b) = 0 -> AppendRtpData(Prime(b, p), p)
      [] Early(b, p) -> AppendRtpData(Prime(EmptyJb, p), p)
      [] Count(b) > 0 /\ ~Early(b, p) /\ RtpSeqGreater(p.seq, LastSlot(b).seq) ->
            AppendRtpData(PatchSilence(b, p), p)
      [] OTHER -> SetLate(b, p)

-----------------------------------------------------------------------------
(* The transmitters *)

RtpInit ==
    /\ tran = [s \in Ssrc |-> [count |-> 0, odd |-> 0, seq |-> SeqStart[s], time |-> 0]]
    /\ sent = {}
    /\ jb = EmptyJb
    /\ source = [set |-> FALSE, ssrc |-> NoSsrc, probation |-> -2, old |-> NoSsrc]
    /\ played = NoSeq

\* RtpTransmitter::transmit(), after the sender left out pause frames.
Transmit(s, kind, pause) ==
    LET seq == (tran[s].seq + 1) % SeqMod
        time == (tran[s].time + SampleSize * (pause + 1)) % TimeMod
        odd == kind # "voice" \/ pause > 0
    IN  /\ tran[s].count < MaxSent[s]
        /\ odd => tran[s].odd < MaxOdd[s] /\ (kind = "voice" \/ pause = 0)
        /\ tran' = [tran EXCEPT ![s] = [count |-> @.count + 1,
                                        odd |-> IF odd THEN @.odd + 1 ELSE @.odd,
                                        seq |-> seq,
                                        time |-> IF kind = "event" THEN @.time ELSE time]]
        /\ sent' = sent \cup {[ssrc |-> s, seq |-> seq, time |-> time, kind |-> kind]}
        /\ UNCHANGED <<jb, source, played>>

-----------------------------------------------------------------------------
(* The receiver *)

\* getPacket(): an event goes to the call-back, or is taken like any other
\* packet without a look at its source.
IsUncheckedEvent(p) == p.kind = "event" /\ ~DtmfCallback

\* updateSource(): packets of the transmitter that was given up last.
FromOldSource(p) == source.set /\ source.old = p.ssrc

FromStranger(p) == ~source.set \/ source.ssrc # p.ssrc

\* Nothing of the packet is kept: an event for the call-back, a packet of the
\* old source, an event without a source (probation < 0).
Discard(p) ==
    /\ \/ p.kind = "event" /\ DtmfCallback
       \/ p.kind # "event" /\ FromOldSource(p)
       \/ IsUncheckedEvent(p) /\ source.probation < 0
    /\ UNCHANGED vars

\* Mutant of RefuseStranger: refused however long the source has been silent.
RefuseStrangerAlways(p) ==
    /\ p.kind # "event" /\ ~FromOldSource(p)
    /\ source.set /\ source.ssrc # p.ssrc
    /\ source' = [source EXCEPT !.probation = @ + 1]
    /\ UNCHANGED <<tran, sent, jb, played>>

\* addSource(): a stranger is refused while the current source is believed.
RefuseStranger(p) ==
    /\ p.kind # "event" /\ ~FromOldSource(p)
    /\ source.set /\ source.ssrc # p.ssrc
    /\ source.probation < MaxProbation
    /\ source' = [source EXCEPT !.probation = @ + 1]
    /\ UNCHANGED <<tran, sent, jb, played>>

\* Mutant of Initialised: a new source inherits the buffer.
InitialisedKeepsBuffer(p) == IF p.kind = "other" THEN EmptyJb ELSE jb

\* The buffer after updateSource(): initSource() has cleared it for a new
\* source and for a payload that is not of the expected format.
Initialised(p) == IF FromStranger(p) \/ p.kind = "other" THEN EmptyJb ELSE jb

\* The last slot played counts until the buffer is empty or starts afresh.
PlayedAfter(b, p) == IF Count(b) = 0 \/ Early(b, p) THEN NoSeq ELSE played

\* A packet of the source, or of a stranger that becomes the source
\* (removeSource, addSource, initSource); comfort noise and packets without a
\* payload are dropped after that.
Accept(p) ==
    /\ p.kind # "event" /\ ~FromOldSource(p)
    /\ FromStranger(p) /\ source.set => source.probation >= MaxProbation
    /\ source' = IF FromStranger(p)
                 THEN [set |-> TRUE, ssrc |-> p.ssrc, probation |-> 0,
                       old |-> IF source.set THEN source.ssrc ELSE source.old]
                 ELSE source
    /\ jb' = IF p.kind = "cn" THEN Initialised(p) ELSE Buffered(Initialised(p), p)
    /\ played' = IF p.kind = "cn" /\ ~FromStranger(p) THEN played
                 ELSE PlayedAfter(Initialised(p), p)
    /\ UNCHANGED <<tran, sent>>

AcceptEvent(p) ==
    /\ IsUncheckedEvent(p) /\ source.probation >= 0
    /\ jb' = Buffered(jb, p)
    /\ played' = PlayedAfter(jb, p)
    /\ UNCHANGED <<tran, sent, source>>

ReadNetwork(p) ==
    /\ p \in sent
    /\ Discard(p) \/ RefuseStranger(p) \/ Accept(p) \/ AcceptEvent(p)

\* retrieve(): an extra silence is skipped when the buffer is over half full;
\* playing a frame makes the source believed again.
Retrieve ==
    LET skip == /\ jb.slot[jb.playPos].silence
                /\ JbSize >= 2 /\ Count(jb) > JbSize \div 2 + 1
        at == IF skip THEN Following(jb.playPos) ELSE jb.playPos
        taken == IF skip THEN {jb.playPos, at} ELSE {at}
        after == [jb EXCEPT !.slot = [i \in Pos |-> IF i \in taken THEN FreeSlot ELSE @[i]],
                            !.playPos = Following(at)]
    IN  /\ Count(jb) > 0
        /\ jb' = after
        /\ played' = IF Count(after) = 0 THEN NoSeq ELSE jb.slot[at].seq
        /\ source' = [source EXCEPT !.probation = IF @ > 0 THEN @ - 1 ELSE @]
        /\ UNCHANGED <<tran, sent>>

\* RtcpReceiver::removeTranInfo(), for a BYE of the source: the receiver
\* keeps its buffer.  A BYE of any other known transmitter changes nothing
\* here, one of an unknown transmitter fails an assertion and is left out.
RtcpBye ==
    /\ source.set
    /\ source' = [set |-> FALSE, ssrc |-> NoSsrc, probation |-> -2, old |-> source.ssrc]
    /\ UNCHANGED <<tran, sent, jb, played>>

Next ==
    \/ \E s \in Ssrc, kind \in Kind, pause \in {0, 1} : Transmit(s, kind, pause)
    \/ \E p \in sent : ReadNetwork(p)
    \/ Retrieve
    \/ RtcpBye

Spec == RtpInit /\ [][Next]_vars

-----------------------------------------------------------------------------
(* Properties *)

\* The positions, numbers and times of the ring and of the transmitters stay in
\* their ranges, and the count-down of a stranger's probation ends.
TypeOK ==
    /\ tran \in [Ssrc -> [count : Nat, odd : Nat, seq : 0..(SeqMod - 1), time : 0..(TimeMod - 1)]]
    /\ sent \subseteq Packet
    /\ jb.slot \in [Pos -> [inUse : BOOLEAN, silence : BOOLEAN, ssrc : Ssrc \cup {NoSsrc},
                            seq : 0..(SeqMod - 1), time : 0..(TimeMod - 1)]]
    /\ jb.inPos \in Pos /\ jb.playPos \in Pos
    /\ source \in [set : BOOLEAN, ssrc : Ssrc \cup {NoSsrc},
                   probation : -2..MaxProbation, old : Ssrc \cup {NoSsrc}]
    /\ played \in 0..(SeqMod - 1) \cup {NoSeq}

\* The slots from the one to be played next to the newest.
Queue == [k \in 0..(Count(jb) - 1) |-> jb.slot[(jb.playPos + k) % JbSize]]

\* What verifyJbSanity() and retrieve() assert: exactly the Count(jb) slots
\* before inPos are in use, whatever was lost, duplicated or reordered.
JbSane ==
    \A k \in 1..JbSize : jb.slot[PreviousInPos(jb, k)].inUse <=> k <= Count(jb)

\* The slots in use hold consecutive sequence numbers, wrapping included:
\* what makes SetLate put a late packet into the slot meant for it.
Contiguous ==
    \A k \in 1..(Count(jb) - 1) : Queue[k].seq = (Queue[k - 1].seq + 1) % SeqMod

\* As long as the buffer does not run empty, what is still to be played is
\* newer than what was played: a late packet is never played out of order.
PlaysForward ==
    played # NoSeq => \A k \in DOMAIN Queue : RtpSeqGreater(Queue[k].seq, played)

\* Voice waiting to be played comes from the transmitter listened to: a
\* change of source leaves nothing of the old one behind.
VoiceOfSource ==
    source.set => \A k \in DOMAIN Queue :
        ~Queue[k].silence => Queue[k].ssrc = source.ssrc

\* The numbers of the voice packets in the buffer.
Voice == {Queue[k].seq : k \in {i \in DOMAIN Queue : ~Queue[i].silence}}

\* A packet of the current source never destroys voice already buffered,
\* except what is older than all that stays: an overrun drops the oldest.
VoiceKept ==
    [][\A p \in sent :
          (p.kind = "voice" /\ source.set /\ p.ssrc = source.ssrc /\ ReadNetwork(p)) =>
              \A s \in Voice \ Voice' : \A k \in DOMAIN Queue' : RtpSeqGreater(Queue'[k].seq, s)
      ]_vars

=============================================================================
