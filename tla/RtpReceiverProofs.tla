------------------------- MODULE RtpReceiverProofs --------------------------
(***************************************************************************)
(* Proofs about RtpReceiver, for any transmitters and any size of the      *)
(* jitter buffer, whatever is lost, duplicated and reordered.              *)
(***************************************************************************)
EXTENDS RtpReceiver, TLAPS

\* What the proofs assume, as the run on voice does: no events (they take a
\* sequence number and no time, and the buffer then breaks), and transmitters
\* that do not send so much that numbers and times become ambiguous.
NoEvents == "event" \notin Kind
NumbersFit == \A s \in Ssrc : 2 * MaxSent[s] + JbSize <= SeqMod
TimesFit == \A s \in Ssrc : 4 * (SampleSize * MaxSent[s]) < TimeMod

(***************************************************************************)
(* The inductive invariant.                                                *)
(***************************************************************************)

\* The sequence number of the x-th packet, the slot of the x-th position.
Num(x) == x % SeqMod
At(x) == x % JbSize

\* The number of a packet, or of a slot that holds one, in its stream.
Index(q) == Num(q.seq - SeqStart[q.ssrc])

\* What a transmitter has sent: consecutive numbers, and times that are at
\* least as far apart as the numbers.
StreamInv ==
    /\ \A s \in Ssrc :
          /\ tran[s].count <= MaxSent[s]
          /\ tran[s].seq = Num(SeqStart[s] + tran[s].count)
          /\ tran[s].time <= 2 * (SampleSize * tran[s].count)
    /\ \A q \in sent :
          /\ Index(q) \in 1..tran[q.ssrc].count
          /\ q.time + SampleSize * (tran[q.ssrc].count - Index(q)) <= tran[q.ssrc].time
    /\ \A p, q \in sent :
          p.ssrc = q.ssrc /\ Index(q) <= Index(p)
          => q.time + SampleSize * (Index(p) - Index(q)) <= p.time

Slot == [inUse : BOOLEAN, silence : BOOLEAN, ssrc : Ssrc \cup {NoSsrc},
         seq : 0..(SeqMod - 1), time : 0..(TimeMod - 1)]
Jb == [slot : [Pos -> Slot], inPos : Pos, playPos : Pos]

\* The n slots before inPos are in use, and no others; their numbers go down
\* from the newest, last.
Ring(b, n, last) ==
    /\ b \in Jb /\ n \in 0..JbSize
    /\ b.playPos = At(b.inPos - n)
    /\ \A k \in 1..JbSize :
          /\ b.slot[At(b.inPos - k)].inUse <=> k <= n
          /\ k <= n => b.slot[At(b.inPos - k)].seq = Num(last - (k - 1))

RingOf(b) == Ring(b, Count(b), LastSlot(b).seq)

\* The newest slot is a packet of the source, and not more is in the buffer
\* than its stream has had, and the silence before it.
LastOf(b) ==
    Count(b) > 0 =>
        /\ \E q \in sent : LastSlot(b) = VoiceSlot(q)
        /\ Count(b) <= Index(LastSlot(b)) + Lead

\* All voice in use is the transmitter's.
VoiceOf(b, s) ==
    \A i \in Pos : b.slot[i].inUse /\ ~b.slot[i].silence => b.slot[i].ssrc = s

\* What was played last is behind all slots in use, and not so far behind
\* that it seems to be ahead.
PlayedOf(b, x) ==
    x # NoSeq =>
        /\ Count(b) > 0
        /\ Num(LastSlot(b).seq - x) \in Count(b)..(Index(LastSlot(b)) + Lead)

RingInv == RingOf(jb)
LastInv == LastOf(jb)
VoiceInv == source.set => VoiceOf(jb, source.ssrc)
PlayedInv == PlayedOf(jb, played)

IInv == TypeOK /\ StreamInv /\ RingInv /\ LastInv /\ VoiceInv /\ PlayedInv

(***************************************************************************)
(* Remainders.                                                             *)
(***************************************************************************)

LEMMA ModType == \A n \in Nat \ {0}, a \in Int : a % n \in 0..(n - 1)
OBVIOUS

LEMMA ModDiv == \A n \in Nat \ {0}, a \in Int : a \div n \in Int /\ a = n * (a \div n) + (a % n)
OBVIOUS

LEMMA MulGap == \A n \in Nat \ {0}, x \in Int : n * x < n /\ n * x > -n => x = 0
OBVIOUS

\* Division has one remainder.
LEMMA ModUnique ==
    ASSUME NEW n \in Nat \ {0}, NEW q \in Int, NEW r \in 0..(n - 1)
    PROVE  (n * q + r) % n = r
<1> DEFINE a == n * q + r
           d == a \div n
           m == a % n
<1>1. a \in Int
  OBVIOUS
<1>2. d \in Int /\ a = n * d + m /\ m \in 0..(n - 1)
  BY <1>1, ModDiv, ModType
<1>3. n * (d - q) = r - m
  <2>1. n * (d - q) = n * d - n * q
    BY <1>2
  <2>2. n * q \in Int /\ n * d \in Int
    BY <1>2
  <2> QED BY <2>1, <2>2, <1>2
<1>4. d - q = 0
  <2>1. n * (d - q) < n /\ n * (d - q) > -n
    BY <1>3, <1>2
  <2> QED BY <2>1, MulGap, <1>2
<1> QED BY <1>4, <1>2

\* Multiples of n do not change the remainder.
LEMMA ModMove ==
    ASSUME NEW n \in Nat \ {0}, NEW a \in Int, NEW b \in Int, NEW q \in Int, a = b + n * q
    PROVE  a % n = b % n
<1> DEFINE d == b \div n
           m == b % n
<1>1. b = n * d + m /\ d \in Int /\ m \in 0..(n - 1)
  BY ModDiv, ModType
<1>2. a = n * (d + q) + m
  <2>1. n * (d + q) = n * d + n * q
    BY <1>1
  <2>2. n * d \in Int /\ n * q \in Int
    BY <1>1
  <2> QED BY <2>1, <2>2, <1>1
<1>3. (n * (d + q) + m) % n = m
  <2>1. d + q \in Int
    BY <1>1
  <2> HIDE DEF d, m
  <2> QED BY <2>1, <1>1, ModUnique
<1> QED BY <1>2, <1>3

LEMMA ModAdd ==
    ASSUME NEW n \in Nat \ {0}, NEW a \in Int, NEW b \in Int
    PROVE  ((a % n) + b) % n = (a + b) % n
<1>1. PICK q \in Int, m \in 0..(n - 1) : m = a % n /\ a = n * q + m
  BY ModDiv, ModType
<1>2. a + b \in Int /\ m + b \in Int /\ a + b = (m + b) + n * q
  BY <1>1
<1>3. \A x, y \in Int : x = y + n * q => x % n = y % n
  BY ModMove, <1>1
<1>4. (a + b) % n = (m + b) % n
  BY <1>2, <1>3, Zenon
<1> QED BY <1>1, <1>4

LEMMA ModSub ==
    ASSUME NEW n \in Nat \ {0}, NEW a \in Int, NEW b \in Int
    PROVE  (b - (a % n)) % n = (b - a) % n
<1>1. PICK q \in Int, m \in 0..(n - 1) : m = a % n /\ a = n * q + m
  BY ModDiv, ModType
<1>2. b - a \in Int /\ b - m \in Int /\ b - m = (b - a) + n * q
  BY <1>1
<1>3. \A x, y \in Int : x = y + n * q => x % n = y % n
  BY ModMove, <1>1
<1>4. (b - m) % n = (b - a) % n
  BY <1>2, <1>3, Zenon
<1> QED BY <1>1, <1>4

LEMMA ModSmall == ASSUME NEW n \in Nat \ {0}, NEW a \in 0..(n - 1) PROVE a % n = a
OBVIOUS

\* Numbers with the same remainder are equal or at least n apart.
LEMMA ModEq ==
    ASSUME NEW n \in Nat \ {0}, NEW a \in Int, NEW b \in Int, a % n = b % n,
           a - b < n, b - a < n
    PROVE  a = b
<1> DEFINE d == a \div n
           e == b \div n
<1>1. d \in Int /\ a = n * d + (a % n) /\ a % n \in 0..(n - 1)
  BY ModDiv, ModType
<1>2. e \in Int /\ b = n * e + (b % n) /\ b % n \in 0..(n - 1)
  BY ModDiv, ModType
<1>3. n * (d - e) = n * d - n * e
  BY <1>1, <1>2
<1>4. a - b = n * (d - e)
  BY <1>1, <1>2, <1>3
<1>5. d - e = 0
  BY <1>4, <1>1, <1>2, MulGap
<1> QED BY <1>5, <1>4, <1>1, <1>2

(***************************************************************************)
(* Sequence numbers and positions of the ring, as remainders.              *)
(***************************************************************************)

LEMMA Sizes ==
    /\ JbSize \in Nat \ {0} /\ SeqMod \in Nat \ {0} /\ TimeMod \in Nat \ {0}
    /\ SampleSize \in Nat \ {0} /\ SampleSize < TimeMod
    /\ SeqMod > 2 * JbSize /\ MaxProbation \in Nat
    /\ Lead \in 0..(JbSize - 1) /\ 2 * Lead < JbSize
BY RtpModAssumption, RtpJbAssumption DEF Lead

LEMMA NumType == \A x \in Int : Num(x) \in 0..(SeqMod - 1)
BY Sizes, ModType DEF Num

LEMMA NumSmall == \A x \in 0..(SeqMod - 1) : Num(x) = x
BY Sizes, ModSmall DEF Num

LEMMA NumAdd == \A x, y \in Int : Num(Num(x) + y) = Num(x + y)
BY Sizes, ModAdd DEF Num

LEMMA NumSub == \A x, y \in Int : Num(y - Num(x)) = Num(y - x)
BY Sizes, ModSub DEF Num

LEMMA NumEq == \A x, y \in Int : Num(x) = Num(y) /\ x - y < SeqMod /\ y - x < SeqMod => x = y
BY Sizes, ModEq DEF Num

LEMMA AtType == \A x \in Int : At(x) \in Pos
BY Sizes, ModType DEF At, Pos

LEMMA AtSmall == \A x \in Pos : At(x) = x
BY Sizes, ModSmall DEF At, Pos

LEMMA AtAdd == \A x, y \in Int : At(At(x) + y) = At(x + y)
BY Sizes, ModAdd DEF At

LEMMA AtSub == \A x, y \in Int : At(y - At(x)) = At(y - x)
BY Sizes, ModSub DEF At

LEMMA AtEq == \A x, y \in Int : At(x) = At(y) /\ x - y < JbSize /\ y - x < JbSize => x = y
BY Sizes, ModEq DEF At

LEMMA AtTurn == \A x \in Int : At(x - JbSize) = At(x)
<1> TAKE x \in Int
<1>1. x - JbSize \in Int /\ -1 \in Int /\ x - JbSize = x + JbSize * (-1)
  BY Sizes
<1>2. \A q \in Int : \A a, b \in Int : a = b + JbSize * q => a % JbSize = b % JbSize
  BY ModMove, Sizes
<1> QED BY <1>1, <1>2, Zenon DEF At

(***************************************************************************)
(* The ring.                                                               *)
(***************************************************************************)

\* The slots before inPos are all different, and they are all slots.
LEMMA Behind ==
    ASSUME NEW i \in Pos
    PROVE  /\ \A k \in 0..JbSize : At(i - k) \in Pos
           /\ \A j, k \in 1..JbSize : At(i - j) = At(i - k) => j = k
           /\ \A x \in Pos : \E k \in 1..JbSize : x = At(i - k)
           /\ At(i) = i /\ At(i - JbSize) = i
<1>0. i \in Int /\ \A x \in Pos : x \in Int
  BY Sizes DEF Pos
<1>1. \A k \in 0..JbSize : At(i - k) \in Pos
  BY <1>0, AtType, Sizes
<1>2. \A j, k \in 1..JbSize : At(i - j) = At(i - k) => j = k
  <2> TAKE j, k \in 1..JbSize
  <2> HAVE At(i - j) = At(i - k)
  <2>1. i - j \in Int /\ i - k \in Int /\ (i - j) - (i - k) < JbSize /\ (i - k) - (i - j) < JbSize
    BY <1>0, Sizes
  <2>2. i - j = i - k
    BY <2>1, AtEq, Zenon
  <2> QED BY <2>2, <1>0, Sizes
<1>3. At(i) = i /\ At(i - JbSize) = i
  BY <1>0, AtSmall, AtTurn
<1>4. \A x \in Pos : \E k \in 1..JbSize : x = At(i - k)
  <2> TAKE x \in Pos
  <2>1. x \in Int
    BY <1>0
  <2>2. CASE x < i
    BY <2>1, <2>2, <1>0, AtSmall, Sizes DEF Pos
  <2>3. CASE x >= i
    <3> DEFINE k == JbSize - (x - i)
    <3>1. k \in 1..JbSize /\ i - k = x - JbSize
      BY <2>1, <2>3, <1>0, Sizes DEF Pos
    <3>2. At(x - JbSize) = x
      BY <2>1, AtTurn, AtSmall
    <3> QED BY <3>1, <3>2
  <2> QED BY <2>1, <2>2, <2>3, <1>0
<1> QED BY <1>1, <1>2, <1>3, <1>4

LEMMA RingCount ==
    ASSUME NEW b, NEW n, NEW last \in Int, Ring(b, n, last)
    PROVE  Count(b) = n
<1> DEFINE i == b.inPos
<1>1. i \in Pos /\ n \in 0..JbSize /\ b.playPos = At(i - n) /\ i \in Int
  BY Sizes DEF Ring, Jb, Pos
<1>2. b.slot[i].inUse <=> n = JbSize
  <2>1. JbSize \in 1..JbSize /\ At(i - JbSize) = i
    BY <1>1, Behind, Sizes
  <2>2. b.slot[At(i - JbSize)].inUse <=> JbSize <= n
    BY <2>1 DEF Ring
  <2> QED BY <2>1, <2>2, <1>1, Sizes
<1>3. CASE n = JbSize
  BY <1>1, <1>2, <1>3, Behind DEF Count
<1>4. CASE n = 0
  BY <1>1, <1>2, <1>4, Behind, Sizes DEF Count
<1>5. CASE n # 0 /\ n # JbSize
  <2>1. At(i - n) # i
    BY <1>1, <1>5, Behind, Sizes
  <2>2. At(i - At(i - n)) = At(n)
    <3>1. i - n \in Int /\ i - (i - n) = n
      BY <1>1, Sizes
    <3>2. At(i - At(i - n)) = At(i - (i - n))
      BY <3>1, <1>1, AtSub, Zenon
    <3> QED BY <3>1, <3>2
  <2>3. At(n) = n
    BY <1>1, <1>5, AtSmall, Sizes DEF Pos
  <2> QED BY <2>1, <2>2, <2>3, <1>1 DEF Count, At
<1> QED BY <1>3, <1>4, <1>5

LEMMA RingLast ==
    ASSUME NEW b, NEW n, NEW last \in Int, Ring(b, n, last), n > 0
    PROVE  LastSlot(b).seq = Num(last) /\ LastSlot(b).inUse
BY Sizes DEF Ring, LastSlot, PreviousInPos, At

LEMMA Move ==
    ASSUME NEW i \in Pos, NEW x \in Int, NEW y \in Int
    PROVE  /\ At(At(i + x) + y) = At(i + (x + y))
           /\ At(At(i + x) - y) = At(i + (x - y))
           /\ At(At(i + x) - i) = At(x)
           /\ At(i + x) \in Pos
<1>1. i \in Int /\ i + x \in Int /\ -y \in Int /\ -i \in Int
  BY Sizes DEF Pos
<1>2. At(At(i + x) + y) = At((i + x) + y)
  BY <1>1, AtAdd, Zenon
<1>3. At(At(i + x) + (-y)) = At((i + x) + (-y))
  BY <1>1, AtAdd, Zenon
<1>4. At(At(i + x) + (-i)) = At((i + x) + (-i))
  BY <1>1, AtAdd, Zenon
<1>5. At(i + x) \in Pos /\ At(i + x) \in Int
  BY <1>1, AtType, Sizes DEF Pos
<1>6. /\ (i + x) + y = i + (x + y) /\ (i + x) + (-y) = i + (x - y) /\ (i + x) + (-i) = x
      /\ At(i + x) + (-y) = At(i + x) - y /\ At(i + x) + (-i) = At(i + x) - i
  BY <1>1, <1>5
<1> QED BY <1>2, <1>3, <1>4, <1>5, <1>6

\* Where the k-th slot before the new inPos lies after m insertions.
LEMMA Place ==
    ASSUME NEW i \in Pos, NEW m \in 0..JbSize, NEW k \in 1..JbSize
    PROVE  /\ At(At(i + m) - k) = At(i + (m - k))
           /\ At(i + (m - k)) \in Pos
           /\ k <= m => At(At(i + (m - k)) - i) = m - k
           /\ k > m  => /\ At(At(i + (m - k)) - i) = m - k + JbSize
                        /\ At(i + (m - k)) = At(i - (k - m))
<1>1. m \in Int /\ k \in Int /\ m - k \in Int /\ i \in Int
  BY Sizes DEF Pos
<1>2. /\ At(At(i + m) - k) = At(i + (m - k))
      /\ At(At(i + (m - k)) - i) = At(m - k)
      /\ At(i + (m - k)) \in Pos
  BY <1>1, Move
<1>3. k <= m => At(m - k) = m - k
  <2>1. k <= m => m - k \in Pos
    BY Sizes DEF Pos
  <2> QED BY <2>1, AtSmall
<1>4. k > m => At(m - k) = m - k + JbSize
  <2>1. k > m => m - k + JbSize \in Pos /\ (m - k + JbSize) - JbSize = m - k
    BY Sizes DEF Pos
  <2>2. \A x \in Pos : At(x - JbSize) = x
    BY AtTurn, AtSmall, Sizes DEF Pos
  <2> QED BY <2>1, <2>2
<1>5. i + (m - k) = i - (k - m)
  BY <1>1
<1> QED BY <1>2, <1>3, <1>4, <1>5

LEMMA SilenceType ==
    ASSUME NEW s \in Int, NEW t \in Int
    PROVE  /\ SilenceSlot(s % SeqMod, t % TimeMod) \in Slot
           /\ SilenceSlot(s % SeqMod, t % TimeMod).inUse
           /\ SilenceSlot(s % SeqMod, t % TimeMod).silence
           /\ SilenceSlot(s % SeqMod, t % TimeMod).seq = Num(s)
<1>1. s % SeqMod \in 0..(SeqMod - 1) /\ t % TimeMod \in 0..(TimeMod - 1)
  BY Sizes, ModType
<1> QED BY <1>1 DEF SilenceSlot, Slot, Num

\* No more than JbSize slots are ever in use.
Capped(x) == IF x > JbSize THEN JbSize ELSE x

\* All slots of b that c still has are m places older in c.
Shifted(b, c, m) ==
    \A k \in 1..JbSize : k > m => c.slot[At(c.inPos - k)] = b.slot[At(b.inPos - (k - m))]

\* No voice is new in c.
NoNewVoice(b, c) == \A i \in Pos : c.slot[i] = b.slot[i] \/ c.slot[i].silence

\* Silence continues the numbers, and overwrites the oldest slots of a full ring.
LEMMA RingInsert ==
    ASSUME NEW b, NEW n, NEW last \in Int, Ring(b, n, last),
           NEW m \in 0..JbSize, NEW s, s = Num(last + 1), NEW t \in Int,
           NEW c, c = InsertSilence(b, m, s, t)
    PROVE  /\ Ring(c, Capped(n + m), last + m)
           /\ NoNewVoice(b, c)
           /\ Shifted(b, c, m)
<1> DEFINE i == b.inPos
           silence(k) == SilenceSlot((s + k) % SeqMod, (t + SampleSize * k) % TimeMod)
           N == Capped(n + m)
<1>0. /\ i \in Pos /\ i \in Int /\ n \in 0..JbSize /\ m \in 0..JbSize /\ s \in Int
      /\ b.playPos = At(i - n) /\ b \in Jb
  BY Sizes, NumType DEF Ring, Jb, Pos
<1>1. /\ c.slot = [x \in Pos |-> IF At(x - i) < m THEN silence(At(x - i)) ELSE b.slot[x]]
      /\ c.inPos = At(i + m)
      /\ c.playPos = IF n + m > JbSize THEN At(i + m) ELSE At(i - n)
      /\ c = [slot |-> c.slot, inPos |-> c.inPos, playPos |-> c.playPos]
  BY <1>0, RingCount DEF InsertSilence, At
<1>2. \A k \in 0..(m - 1) :
          silence(k) \in Slot /\ silence(k).inUse /\ silence(k).silence
          /\ silence(k).seq = Num(last + 1 + k)
  <2> TAKE k \in 0..(m - 1)
  <2>1. s + k \in Int /\ t + SampleSize * k \in Int
    BY <1>0, Sizes
  <2>2. Num(s + k) = Num(last + 1 + k)
    <3>1. last + 1 \in Int /\ k \in Int
      BY Sizes
    <3> QED BY <3>1, NumAdd
  <2> QED BY <2>1, <2>2, SilenceType
<1>3. \A x \in Pos : At(x - i) \in Pos /\ At(x - i) \in Int
  BY <1>0, AtType, Sizes DEF Pos
<1>4. c.slot \in [Pos -> Slot] /\ \A x \in Pos : c.slot[x] = b.slot[x] \/ c.slot[x].silence
  <2> SUFFICES ASSUME NEW x \in Pos
               PROVE  /\ c.slot[x] \in Slot
                      /\ c.slot[x] = b.slot[x] \/ c.slot[x].silence
    BY <1>1
  <2>1. b.slot[x] \in Slot
    BY <1>0 DEF Jb
  <2>2. At(x - i) < m => At(x - i) \in 0..(m - 1)
    BY <1>3, <1>0 DEF Pos
  <2> HIDE DEF silence
  <2> QED BY <2>1, <2>2, <1>1, <1>2
<1>5. c.inPos \in Pos /\ c.playPos \in Pos /\ N \in 0..JbSize
  BY <1>0, <1>1, AtType, Sizes DEF Capped
<1>6. c \in Jb
  BY <1>1, <1>4, <1>5 DEF Jb
<1>7. c.playPos = At(c.inPos - N)
  <2>1. CASE n + m > JbSize
    BY <2>1, <1>1, <1>5, Behind DEF Capped
  <2>2. CASE ~ (n + m > JbSize)
    <3>1. At(At(i + m) - (n + m)) = At(i + (m - (n + m)))
      BY <1>0, Move
    <3>2. i + (m - (n + m)) = i - n
      BY <1>0
    <3> QED BY <3>1, <3>2, <2>2, <1>1 DEF Capped
  <2> QED BY <2>1, <2>2
<1>8. ASSUME NEW k \in 1..JbSize
      PROVE  /\ c.slot[At(c.inPos - k)].inUse <=> k <= N
             /\ k <= N => c.slot[At(c.inPos - k)].seq = Num(last + m - (k - 1))
             /\ k > m => c.slot[At(c.inPos - k)] = b.slot[At(i - (k - m))]
  <2> DEFINE x == At(i + (m - k))
  <2>1. x \in Pos /\ At(c.inPos - k) = x
    BY <1>0, <1>1, Place
  <2>2. CASE k <= m
    <3>1. At(x - i) = m - k /\ m - k \in 0..(m - 1)
      BY <2>2, <1>0, Place
    <3>2. c.slot[x] = silence(m - k)
      BY <3>1, <2>1, <1>1
    <3>3. k <= N /\ ~ (k > m)
      BY <2>2, <1>0 DEF Capped
    <3>4. last + 1 + (m - k) = last + m - (k - 1)
      BY <1>0
    <3> HIDE DEF x, silence, N
    <3> QED BY <3>1, <3>2, <3>3, <3>4, <1>2, <2>1
  <2>3. CASE k > m
    <3>0. k - m \in 1..JbSize /\ k - m \in Int
      BY <2>3, <1>0, Sizes
    <3>1. At(x - i) = m - k + JbSize /\ x = At(i - (k - m))
      BY <2>3, <1>0, Place
    <3>2. c.slot[x] = b.slot[At(i - (k - m))]
      <4>1. ~ (At(x - i) < m)
        BY <3>1, <1>0, Sizes
      <4> HIDE DEF x, silence
      <4> QED BY <4>1, <3>1, <2>1, <1>1
    <3>3. /\ b.slot[At(i - (k - m))].inUse <=> k - m <= n
          /\ k - m <= n => b.slot[At(i - (k - m))].seq = Num(last - ((k - m) - 1))
      BY <3>0 DEF Ring
    <3>4. k - m <= n <=> k <= N
      BY <1>0, Sizes DEF Capped
    <3>5. last - ((k - m) - 1) = last + m - (k - 1)
      BY <1>0
    <3> HIDE DEF x, N
    <3> QED BY <3>2, <3>3, <3>4, <3>5, <2>1
  <2> QED BY <2>2, <2>3, <1>0
<1> HIDE DEF N
<1>9. Ring(c, N, last + m)
  BY <1>5, <1>6, <1>7, <1>8 DEF Ring
<1>10. Shifted(b, c, m)
  BY <1>8 DEF Shifted
<1> QED BY <1>4, <1>9, <1>10 DEF N, NoNewVoice

LEMMA VoiceType ==
    ASSUME NEW p \in Packet
    PROVE  VoiceSlot(p) \in Slot
BY DEF VoiceSlot, Packet, Slot

\* A packet with the next number is appended: the oldest slot of a full ring
\* holds another number, so that it is given up.
LEMMA RingAppend ==
    ASSUME NEW b, NEW n, NEW last \in Int, Ring(b, n, last),
           NEW p \in Packet, p.seq = Num(last + 1), NEW c, c = AppendRtpData(b, p)
    PROVE  /\ Ring(c, Capped(n + 1), last + 1)
           /\ LastSlot(c) = VoiceSlot(p)
           /\ \A x \in Pos : c.slot[x] = b.slot[x] \/ c.slot[x] = VoiceSlot(p)
           /\ Shifted(b, c, 1)
<1> DEFINE i == b.inPos
           N == Capped(n + 1)
<1>0. /\ i \in Pos /\ i \in Int /\ n \in 0..JbSize /\ 1 \in 0..JbSize
      /\ b.playPos = At(i - n) /\ b.playPos \in Pos /\ b \in Jb
      /\ At(i) = i /\ At(i - JbSize) = i
  <2>1. i \in Pos /\ n \in 0..JbSize /\ b.playPos = At(i - n) /\ b.playPos \in Pos /\ b \in Jb
    BY DEF Ring, Jb
  <2>2. i \in Int /\ 1 \in 0..JbSize
    BY <2>1, Sizes DEF Pos
  <2> QED BY <2>1, <2>2, Behind
<1>1. n = JbSize => b.slot[i].inUse /\ b.slot[i].seq # p.seq /\ b.playPos = i
  <2> HAVE n = JbSize
  <2>1. JbSize \in 1..JbSize
    BY Sizes
  <2>2. b.slot[i].inUse /\ b.slot[i].seq = Num(last - (JbSize - 1))
    BY <2>1, <1>0 DEF Ring
  <2>3. Num(last - (JbSize - 1)) # Num(last + 1)
    <3>1. /\ last - (JbSize - 1) \in Int /\ last + 1 \in Int
          /\ (last - (JbSize - 1)) - (last + 1) < SeqMod
          /\ (last + 1) - (last - (JbSize - 1)) < SeqMod
          /\ last - (JbSize - 1) # last + 1
      BY Sizes
    <3> QED BY <3>1, NumEq, Zenon
  <2> QED BY <2>2, <2>3, <1>0
<1>2. /\ c.slot = [b.slot EXCEPT ![i] = VoiceSlot(p)]
      /\ c.inPos = At(i + 1)
      /\ c.playPos = IF n = JbSize THEN At(i + 1) ELSE b.playPos
      /\ c = [slot |-> c.slot, inPos |-> c.inPos, playPos |-> c.playPos]
  <2> DEFINE overrun == /\ b.slot[i].inUse /\ b.slot[i].seq # p.seq
                        /\ Count(b) = JbSize /\ b.playPos = i
  <2>1. overrun <=> n = JbSize
    BY <1>1, RingCount
  <2>2. SetRtpData(b, p, i) =
            [b EXCEPT !.slot = [b.slot EXCEPT ![i] = VoiceSlot(p)],
                      !.playPos = IF n = JbSize THEN At(b.playPos + 1) ELSE b.playPos]
    <3> HIDE DEF overrun
    <3>1. SetRtpData(b, p, i) =
              [b EXCEPT !.slot = [b.slot EXCEPT ![i] = VoiceSlot(p)],
                        !.playPos = IF overrun THEN At(b.playPos + 1) ELSE b.playPos]
      BY <1>0 DEF SetRtpData, Following, At, Jb, overrun
    <3> QED BY <3>1, <2>1
  <2>3. c = [SetRtpData(b, p, i) EXCEPT !.inPos = At(@ + 1)]
    BY DEF AppendRtpData, Following, At
  <2>4. /\ c.slot = [b.slot EXCEPT ![i] = VoiceSlot(p)]
        /\ c.inPos = At(i + 1)
        /\ c.playPos = IF n = JbSize THEN At(b.playPos + 1) ELSE b.playPos
        /\ c = [slot |-> c.slot, inPos |-> c.inPos, playPos |-> c.playPos]
    <3> QED BY <2>2, <2>3, <1>0 DEF Jb
  <2> QED BY <2>4, <1>1
<1>3. c.slot \in [Pos -> Slot] /\ c.slot[i] = VoiceSlot(p)
      /\ \A x \in Pos : x # i => c.slot[x] = b.slot[x]
  BY <1>0, <1>2, VoiceType DEF Jb
<1>4. c.inPos \in Pos /\ c.playPos \in Pos /\ N \in 0..JbSize
  BY <1>0, <1>2, AtType, Sizes DEF Capped
<1>5. c \in Jb
  BY <1>2, <1>3, <1>4 DEF Jb
<1>6. c.playPos = At(c.inPos - N)
  <2>1. CASE n = JbSize
    BY <2>1, <1>0, <1>2, <1>4, Behind, Sizes DEF Capped
  <2>2. CASE n # JbSize
    <3>1. At(At(i + 1) - (n + 1)) = At(i + (1 - (n + 1)))
      BY <1>0, Move
    <3>2. i + (1 - (n + 1)) = i - n /\ ~ (n + 1 > JbSize)
      BY <1>0, <2>2, Sizes
    <3> QED BY <3>1, <3>2, <2>2, <1>0, <1>2 DEF Capped
  <2> QED BY <2>1, <2>2
<1>7. At(c.inPos - 1) = i
  <2>1. 1 \in 1..JbSize /\ i + (1 - 1) = i
    BY <1>0
  <2> QED BY <2>1, <1>0, <1>2, Place
<1>8. ASSUME NEW k \in 1..JbSize
      PROVE  /\ c.slot[At(c.inPos - k)].inUse <=> k <= N
             /\ k <= N => c.slot[At(c.inPos - k)].seq = Num(last + 1 - (k - 1))
             /\ k > 1 => c.slot[At(c.inPos - k)] = b.slot[At(i - (k - 1))]
  <2>1. CASE k = 1
    <3>1. VoiceSlot(p).inUse /\ VoiceSlot(p).seq = p.seq
      BY DEF VoiceSlot
    <3>2. 1 <= N /\ last + 1 - (1 - 1) = last + 1
      BY <1>0, Sizes DEF Capped
    <3> HIDE DEF N
    <3> QED BY <2>1, <3>1, <3>2, <1>3, <1>7
  <2>2. CASE k > 1
    <3>1. k - 1 \in 1..JbSize /\ k - 1 # JbSize /\ JbSize \in 1..JbSize
      BY <2>2, Sizes
    <3>2. At(c.inPos - k) = At(i - (k - 1))
      BY <2>2, <1>0, <1>2, Place
    <3>3. At(i - (k - 1)) # i /\ At(i - (k - 1)) \in Pos
      <4>1. k - 1 \in 0..JbSize
        BY <3>1
      <4>2. At(i - (k - 1)) \in Pos
        BY <4>1, <1>0, Behind
      <4>3. At(i - (k - 1)) # At(i - JbSize)
        BY <3>1, <1>0, Behind, Zenon
      <4> QED BY <4>2, <4>3, <1>0
    <3>4. c.slot[At(c.inPos - k)] = b.slot[At(i - (k - 1))]
      BY <3>2, <3>3, <1>3
    <3>5. /\ b.slot[At(i - (k - 1))].inUse <=> k - 1 <= n
          /\ k - 1 <= n => b.slot[At(i - (k - 1))].seq = Num(last - ((k - 1) - 1))
      BY <3>1 DEF Ring
    <3>6. (k - 1 <= n <=> k <= N) /\ last - ((k - 1) - 1) = last + 1 - (k - 1)
      BY <1>0, Sizes DEF Capped
    <3> HIDE DEF N
    <3> QED BY <3>4, <3>5, <3>6
  <2> QED BY <2>1, <2>2
<1> HIDE DEF N
<1>9. Ring(c, N, last + 1)
  BY <1>4, <1>5, <1>6, <1>8 DEF Ring
<1>10. LastSlot(c) = VoiceSlot(p)
  BY <1>3, <1>7 DEF LastSlot, PreviousInPos, At
<1>11. Shifted(b, c, 1)
  BY <1>8 DEF Shifted
<1> QED BY <1>3, <1>9, <1>10, <1>11 DEF N

\* A packet is put into the slot of its number.
LEMMA RingSet ==
    ASSUME NEW b, NEW n, NEW last \in Int, Ring(b, n, last),
           NEW k \in 1..n, NEW p \in Packet, p.seq = Num(last - (k - 1))
    PROVE  /\ Ring(SetRtpData(b, p, PreviousInPos(b, k)), n, last)
           /\ SetRtpData(b, p, PreviousInPos(b, k)) =
                  [b EXCEPT !.slot = [b.slot EXCEPT ![At(b.inPos - k)] = VoiceSlot(p)]]
<1> DEFINE i == b.inPos
           x == At(i - k)
           c == SetRtpData(b, p, PreviousInPos(b, k))
<1>0. /\ i \in Pos /\ n \in 0..JbSize /\ b.playPos \in Pos /\ b \in Jb
      /\ b.playPos = At(i - n) /\ k \in 1..JbSize /\ x \in Pos
  <2>1. n \in 0..JbSize /\ b \in Jb /\ b.playPos = At(i - n)
    BY DEF Ring
  <2>2. k \in 1..JbSize /\ k \in 0..JbSize
    BY <2>1, Sizes
  <2>3. i \in Pos /\ b.playPos \in Pos
    BY <2>1 DEF Jb
  <2> QED BY <2>1, <2>2, <2>3, Behind
<1>1. b.slot[x].inUse /\ b.slot[x].seq = p.seq
  BY <1>0 DEF Ring
<1>2. c = [b EXCEPT !.slot = [b.slot EXCEPT ![x] = VoiceSlot(p)]]
  BY <1>0, <1>1 DEF SetRtpData, PreviousInPos, At, Jb
<1>3. c.slot = [b.slot EXCEPT ![x] = VoiceSlot(p)] /\ c.inPos = i /\ c.playPos = b.playPos /\ c \in Jb
  BY <1>0, <1>2, VoiceType DEF Jb
<1>4. VoiceSlot(p).inUse /\ VoiceSlot(p).seq = p.seq
  BY DEF VoiceSlot
<1>5. ASSUME NEW j \in 1..JbSize
      PROVE  /\ c.slot[At(c.inPos - j)].inUse <=> j <= n
             /\ j <= n => c.slot[At(c.inPos - j)].seq = Num(last - (j - 1))
  <2>1. /\ b.slot[At(i - j)].inUse <=> j <= n
        /\ j <= n => b.slot[At(i - j)].seq = Num(last - (j - 1))
    BY DEF Ring
  <2>2. At(i - j) \in Pos
    <3>1. i - j \in Int
      BY <1>0, Sizes DEF Pos
    <3> QED BY <3>1, AtType
  <2>3. CASE At(i - j) = x
    <3>1. j = k
      BY <2>3, <1>0, Behind
    <3>2. c.slot[At(c.inPos - j)] = VoiceSlot(p)
      BY <2>2, <2>3, <1>0, <1>3 DEF Jb
    <3> HIDE DEF c, x
    <3> QED BY <2>1, <3>1, <3>2, <1>4
  <2>4. CASE At(i - j) # x
    BY <2>1, <2>2, <2>4, <1>0, <1>3 DEF Jb
  <2> QED BY <2>3, <2>4
<1> HIDE DEF c
<1>6. Ring(c, n, last)
  BY <1>0, <1>3, <1>5 DEF Ring
<1> QED BY <1>2, <1>6 DEF c

\* The oldest slot is taken.
DropOldest(b) ==
    [b EXCEPT !.slot = [b.slot EXCEPT ![b.playPos] = FreeSlot], !.playPos = Following(b.playPos)]

LEMMA FreeType == FreeSlot \in Slot /\ ~ FreeSlot.inUse
BY Sizes DEF FreeSlot, Slot

LEMMA RingDrop ==
    ASSUME NEW b, NEW n, NEW last \in Int, Ring(b, n, last), n > 0
    PROVE  /\ Ring(DropOldest(b), n - 1, last)
           /\ DropOldest(b).slot = [b.slot EXCEPT ![b.playPos] = FreeSlot]
           /\ DropOldest(b).inPos = b.inPos
           /\ DropOldest(b).playPos = At(b.inPos - (n - 1))
<1> DEFINE i == b.inPos
           x == At(i - n)
           c == DropOldest(b)
<1>0. /\ i \in Pos /\ n \in 1..JbSize /\ b.playPos = x /\ x \in Pos /\ b \in Jb /\ i \in Int
  BY Sizes DEF Ring, Jb, Pos
<1>1. At(x + 1) = At(i - (n - 1)) /\ At(i - (n - 1)) \in Pos
  <2>1. i - n \in Int /\ (i - n) + 1 = i - (n - 1) /\ 1 \in Int
    BY <1>0, Sizes
  <2>2. At(At(i - n) + 1) = At((i - n) + 1)
    BY <2>1, AtAdd, Zenon
  <2>3. n - 1 \in 0..JbSize
    BY <1>0, Sizes
  <2>4. At(i - (n - 1)) \in Pos
    BY <2>3, <1>0, Behind
  <2> QED BY <2>1, <2>2, <2>4
<1>2. /\ c.slot = [b.slot EXCEPT ![x] = FreeSlot] /\ c.inPos = i
      /\ c.playPos = At(i - (n - 1)) /\ c \in Jb
  BY <1>0, <1>1, FreeType DEF Jb, DropOldest, Following, At
<1>3. ASSUME NEW j \in 1..JbSize
      PROVE  /\ c.slot[At(c.inPos - j)].inUse <=> j <= n - 1
             /\ j <= n - 1 => c.slot[At(c.inPos - j)].seq = Num(last - (j - 1))
  <2>1. /\ b.slot[At(i - j)].inUse <=> j <= n
        /\ j <= n => b.slot[At(i - j)].seq = Num(last - (j - 1))
    BY DEF Ring
  <2>2. At(i - j) \in Pos
    <3>1. i - j \in Int
      BY <1>0, Sizes DEF Pos
    <3> QED BY <3>1, AtType
  <2>3. CASE j = n
    <3>1. c.slot[At(c.inPos - j)] = FreeSlot
      BY <2>2, <2>3, <1>0, <1>2 DEF Jb
    <3>2. ~ (j <= n - 1)
      BY <2>3, <1>0, Sizes
    <3> HIDE DEF c
    <3> QED BY <3>1, <3>2, FreeType
  <2>4. CASE j # n
    <3>1. At(i - j) # x
      BY <2>4, <1>0, Behind
    <3>2. c.slot[At(c.inPos - j)] = b.slot[At(i - j)]
      BY <3>1, <2>2, <1>0, <1>2 DEF Jb
    <3>3. j <= n <=> j <= n - 1
      BY <2>4, <1>0, Sizes
    <3> HIDE DEF c
    <3> QED BY <2>1, <3>2, <3>3
  <2> QED BY <2>3, <2>4
<1>4. n - 1 \in 0..JbSize
  BY <1>0, Sizes
<1> HIDE DEF c
<1>5. Ring(c, n - 1, last)
  BY <1>2, <1>3, <1>4 DEF Ring
<1> QED BY <1>0, <1>2, <1>5 DEF c

\* An empty ring has no last number.
LEMMA RingEmpty ==
    ASSUME NEW b, NEW last \in Int, Ring(b, 0, last), NEW x \in Int
    PROVE  Ring(b, 0, x)
<1>1. \A k \in 1..JbSize : ~ (k <= 0)
  BY Sizes
<1> QED BY <1>1 DEF Ring

LEMMA RingFresh ==
    ASSUME NEW x \in Int
    PROVE  Ring(EmptyJb, 0, x)
<1>1. 0 \in Pos /\ 0 \in 0..JbSize /\ \A k \in 1..JbSize : ~ (k <= 0)
  BY Sizes DEF Pos
<1>2. EmptyJb \in Jb /\ EmptyJb.inPos = 0 /\ EmptyJb.playPos = 0
      /\ \A i \in Pos : EmptyJb.slot[i] = FreeSlot
  BY <1>1, FreeType DEF EmptyJb, Jb
<1>3. At(0 - 0) = 0 /\ \A k \in 1..JbSize : At(0 - k) \in Pos
  BY <1>1, AtSmall, AtType, Sizes
<1> QED BY <1>1, <1>2, <1>3, FreeType DEF Ring

\* The last number only counts modulo SeqMod.
LEMMA RingNum ==
    ASSUME NEW b, NEW n, NEW x \in Int
    PROVE  Ring(b, n, x) <=> Ring(b, n, Num(x))
<1>1. \A k \in 1..JbSize : Num(Num(x) - (k - 1)) = Num(x - (k - 1))
  <2> TAKE k \in 1..JbSize
  <2>1. -(k - 1) \in Int /\ Num(x) \in Int
    BY NumType, Sizes
  <2>2. Num(Num(x) + (-(k - 1))) = Num(x + (-(k - 1)))
    BY <2>1, NumAdd, Zenon
  <2>3. Num(x) + (-(k - 1)) = Num(x) - (k - 1) /\ x + (-(k - 1)) = x - (k - 1)
    BY <2>1
  <2> QED BY <2>2, <2>3
<1> QED BY <1>1, Zenon DEF Ring

LEMMA RingOfIntro ==
    ASSUME NEW b, NEW n, NEW last \in Int, Ring(b, n, last)
    PROVE  RingOf(b) /\ Count(b) = n
<1>1. Count(b) = n
  BY RingCount
<1>2. CASE n > 0
  BY <1>1, <1>2, RingLast, RingNum DEF RingOf
<1>3. CASE n = 0
  <2>1. LastSlot(b).seq \in Int
    <3>1. b.inPos - 1 \in Int /\ b \in Jb
      BY Sizes DEF Ring, Jb, Pos
    <3>2. b.slot[At(b.inPos - 1)] \in Slot
      BY <3>1, AtType DEF Jb
    <3>3. LastSlot(b) = b.slot[At(b.inPos - 1)]
      BY DEF LastSlot, PreviousInPos, At
    <3> QED BY <3>2, <3>3, Sizes DEF Slot
  <2> QED BY <2>1, <1>1, <1>3, RingEmpty DEF RingOf
<1>4. n \in 0..JbSize
  BY DEF Ring
<1> QED BY <1>1, <1>2, <1>3, <1>4, Sizes

(***************************************************************************)
(* Differences of numbers.                                                 *)
(***************************************************************************)

LEMMA SeqDiff ==
    ASSUME NEW x \in Int, NEW y \in Int, 2 * (x - y) < SeqMod, 2 * (y - x) < SeqMod
    PROVE  RtpSeqDifference(Num(x), Num(y)) = x - y
<1>1. PICK q1 \in Int, m1 \in 0..(SeqMod - 1) : m1 = Num(x) /\ x = SeqMod * q1 + m1
  BY ModDiv, ModType, Sizes DEF Num
<1>2. PICK q2 \in Int, m2 \in 0..(SeqMod - 1) : m2 = Num(y) /\ y = SeqMod * q2 + m2
  BY ModDiv, ModType, Sizes DEF Num
<1>3. SeqMod * (q1 - q2) = (x - y) - (m1 - m2)
  <2>1. SeqMod * (q1 - q2) = SeqMod * q1 - SeqMod * q2
    BY <1>1, <1>2, Sizes
  <2>2. SeqMod * q1 \in Int /\ SeqMod * q2 \in Int
    BY <1>1, <1>2, Sizes
  <2> QED BY <2>1, <2>2, <1>1, <1>2, Sizes
<1>4. q1 - q2 \in {-1, 0, 1}
  <2>1. SeqMod * (q1 - q2) < 2 * SeqMod /\ SeqMod * (q1 - q2) > -(2 * SeqMod)
    BY <1>1, <1>2, <1>3, Sizes
  <2>2. \A n \in Nat \ {0}, z \in Int : n * z < 2 * n /\ n * z > -(2 * n) => z \in {-1, 0, 1}
    OBVIOUS
  <2> QED BY <2>1, <2>2, <1>1, <1>2, Sizes
<1>5. m1 - m2 \in {x - y, x - y + SeqMod, x - y - SeqMod}
  <2>1. CASE q1 - q2 = 0
    BY <2>1, <1>1, <1>2, <1>3, Sizes
  <2>2. CASE q1 - q2 = 1
    BY <2>2, <1>1, <1>2, <1>3, Sizes
  <2>3. CASE q1 - q2 = -1
    <3>1. SeqMod * (-1) = -SeqMod
      BY Sizes
    <3>2. (x - y) - (m1 - m2) = -SeqMod
      BY <3>1, <2>3, <1>3
    <3>3. m1 \in Int /\ m2 \in Int /\ SeqMod \in Int
      BY Sizes
    <3>4. m1 - m2 = x - y + SeqMod
      BY <3>2, <3>3
    <3> QED BY <3>4
  <2> QED BY <1>4, <2>1, <2>2, <2>3
<1>6. RtpSeqDifference(m1, m2) = x - y
  BY <1>5, Sizes DEF RtpSeqDifference
<1> QED BY <1>1, <1>2, <1>6

\* The number of a packet of transmitter s.
LEMMA IndexNum ==
    ASSUME NEW q, q.ssrc \in Ssrc, q.seq \in 0..(SeqMod - 1)
    PROVE  /\ q.seq = Num(SeqStart[q.ssrc] + Index(q))
           /\ Index(q) \in 0..(SeqMod - 1) /\ SeqStart[q.ssrc] \in 0..(SeqMod - 1)
<1> DEFINE s == SeqStart[q.ssrc]
<1>1. s \in 0..(SeqMod - 1) /\ s \in Int /\ q.seq \in Int /\ q.seq - s \in Int
  BY RtpSentAssumption, Sizes
<1>2. Num(Num(q.seq - s) + s) = Num((q.seq - s) + s)
  BY <1>1, NumAdd
<1>3. Num(q.seq - s) \in 0..(SeqMod - 1)
  BY <1>1, NumType
<1>4. (q.seq - s) + s = q.seq /\ Num(q.seq - s) + s = s + Num(q.seq - s)
  BY <1>1, <1>3, Sizes
<1> QED BY <1>1, <1>2, <1>3, <1>4, NumSmall DEF Index

\* What is known of a packet that was sent.
LEMMA SentFacts ==
    ASSUME TypeOK, StreamInv, NumbersFit, NEW p \in sent
    PROVE  /\ p \in Packet /\ p.ssrc \in Ssrc /\ p.seq \in 0..(SeqMod - 1) /\ p.time \in 0..(TimeMod - 1)
           /\ p.seq = Num(SeqStart[p.ssrc] + Index(p)) /\ SeqStart[p.ssrc] \in 0..(SeqMod - 1)
           /\ MaxSent[p.ssrc] \in Nat /\ 2 * (MaxSent[p.ssrc] + Lead) < SeqMod
           /\ Index(p) \in 1..MaxSent[p.ssrc]
           /\ tran[p.ssrc].count \in Nat /\ tran[p.ssrc].time \in 0..(TimeMod - 1)
<1>1. p \in Packet
  BY DEF TypeOK
<1>2. p.ssrc \in Ssrc /\ p.seq \in 0..(SeqMod - 1) /\ p.time \in 0..(TimeMod - 1)
  BY <1>1 DEF Packet
<1>3. MaxSent[p.ssrc] \in Nat /\ 2 * MaxSent[p.ssrc] + JbSize <= SeqMod
  BY <1>2, RtpSentAssumption DEF NumbersFit
<1>4. tran[p.ssrc].count \in Nat /\ tran[p.ssrc].time \in 0..(TimeMod - 1)
  BY <1>2 DEF TypeOK
<1>5. Index(p) \in 1..tran[p.ssrc].count /\ tran[p.ssrc].count <= MaxSent[p.ssrc]
  BY <1>2 DEF StreamInv
<1> QED BY <1>1, <1>2, <1>3, <1>4, <1>5, IndexNum, Sizes

LEMMA SentDiff ==
    ASSUME TypeOK, StreamInv, NumbersFit, NEW p \in sent, NEW q \in sent, p.ssrc = q.ssrc
    PROVE  RtpSeqDifference(p.seq, q.seq) = Index(p) - Index(q)
<1> DEFINE s == SeqStart[p.ssrc]
           x == s + Index(p)
           y == s + Index(q)
<1>1. /\ p.seq = Num(x) /\ q.seq = Num(y) /\ x \in Int /\ y \in Int
      /\ 2 * (x - y) < SeqMod /\ 2 * (y - x) < SeqMod /\ x - y = Index(p) - Index(q)
  BY SentFacts, Sizes
<1> HIDE DEF x, y
<1> QED BY <1>1, SeqDiff

\* The while loop inserts exactly the packets that are missing: the time shows
\* a gap as long as the number does.
LEMMA MissingNumber ==
    ASSUME TypeOK, StreamInv, NumbersFit, TimesFit, NEW p \in sent, NEW q \in sent,
           p.ssrc = q.ssrc, NEW b, LastSlot(b) = VoiceSlot(q),
           Index(p) - Index(q) \in 1..JbSize
    PROVE  Missing(b, p) = Index(p) - Index(q) - 1
<1> DEFINE d == Index(p) - Index(q)
           s == p.ssrc
<1>1. /\ LastSlot(b).seq = q.seq /\ LastSlot(b).time = q.time
  BY DEF VoiceSlot
<1>2. /\ Index(p) \in Int /\ Index(q) \in Int /\ d \in 1..JbSize /\ SeqStart[s] \in Int
      /\ p.seq = Num(SeqStart[s] + Index(p)) /\ q.seq = Num(SeqStart[s] + Index(q))
      /\ 2 * d < SeqMod /\ p.time \in Nat /\ q.time \in Nat
  BY SentFacts, Sizes
<1>3. ASSUME NEW k \in 0..(d - 1)
      PROVE  SeqGap(b, p, k) <=> k < d - 1
  <2>1. k \in Int /\ SeqStart[s] + Index(q) \in Int /\ SeqStart[s] + Index(p) \in Int
    BY <1>2, Sizes
  <2> DEFINE x == SeqStart[s] + Index(p)
             y == SeqStart[s] + Index(q) + k
  <2>2. /\ x \in Int /\ y \in Int /\ x - y = d - k
        /\ 2 * (x - y) < SeqMod /\ 2 * (y - x) < SeqMod
    BY <1>2, Sizes
  <2>3. (q.seq + k) % SeqMod = Num(y)
    <3>1. Num(Num(SeqStart[s] + Index(q)) + k) = Num(SeqStart[s] + Index(q) + k)
      BY <2>1, NumAdd
    <3> QED BY <3>1, <1>2 DEF Num
  <2>4. RtpSeqDifference(Num(x), Num(y)) = x - y
    <3> HIDE DEF x, y
    <3> QED BY <2>2, SeqDiff
  <2>5. SeqGap(b, p, k) <=> d - k > 1
    <3>1. SeqGap(b, p, k) <=> RtpSeqDifference(p.seq, (q.seq + k) % SeqMod) > 1
      BY <1>1 DEF SeqGap
    <3> HIDE DEF y
    <3> QED BY <3>1, <2>2, <2>3, <2>4, <1>2
  <2> QED BY <2>5, <1>2, Sizes
<1>4. q.time + SampleSize * d <= p.time
  <2>1. q.time + SampleSize * (Index(p) - Index(q)) <= p.time
    BY <1>2, Sizes DEF StreamInv
  <2> QED BY <2>1
<1>5. 2 * p.time < TimeMod
  <2> DEFINE n == tran[s].count
  <2>1. /\ n \in Nat /\ MaxSent[s] \in Nat /\ n <= MaxSent[s] /\ tran[s].time \in Nat
        /\ Index(p) \in 1..n /\ s \in Ssrc
    BY SentFacts, Sizes DEF StreamInv
  <2>2. tran[s].time <= 2 * (SampleSize * n) /\ p.time + SampleSize * (n - Index(p)) <= tran[s].time
    BY <2>1 DEF StreamInv
  <2>3. SampleSize * (n - Index(p)) \in Nat /\ SampleSize * n \in Nat /\ SampleSize * MaxSent[s] \in Nat
    BY <2>1, Sizes
  <2>4. SampleSize * n <= SampleSize * MaxSent[s]
    BY <2>1, Sizes
  <2>5. 4 * (SampleSize * MaxSent[s]) < TimeMod
    BY <2>1 DEF TimesFit
  <2> HIDE DEF n, s
  <2> QED BY <2>1, <2>2, <2>3, <2>4, <2>5, <1>2, Sizes
<1>6. ASSUME NEW k \in 0..(d - 2)
      PROVE  TimeGap(b, p, k)
  <2>1. /\ SampleSize * k \in Nat /\ SampleSize * d \in Nat
        /\ SampleSize * k + 2 * SampleSize <= SampleSize * d
    <3>1. k + 2 <= d /\ k \in Nat /\ d \in Nat
      BY <1>2, Sizes
    <3>2. SampleSize * (k + 2) = SampleSize * k + 2 * SampleSize
      BY <3>1, Sizes
    <3>3. SampleSize * (k + 2) <= SampleSize * d
      BY <3>1, Sizes
    <3> QED BY <3>1, <3>2, <3>3, Sizes
  <2> DEFINE x == p.time - SampleSize
             y == q.time + SampleSize * k
  <2>2. x \in 0..(TimeMod - 1) /\ y \in 0..(TimeMod - 1) /\ x > y /\ x - y <= (TimeMod - 1) \div 2
    <3> DEFINE u == SampleSize * k
               v == SampleSize * d
    <3>1. u \in Nat /\ v \in Nat /\ u + 2 * SampleSize <= v /\ q.time + v <= p.time
      BY <2>1, <1>4
    <3> HIDE DEF u, v
    <3>2. /\ p.time - SampleSize \in 0..(TimeMod - 1) /\ q.time + u \in 0..(TimeMod - 1)
          /\ p.time - SampleSize > q.time + u
          /\ (p.time - SampleSize) - (q.time + u) <= (TimeMod - 1) \div 2
      BY <3>1, <1>2, <1>5, Sizes
    <3> QED BY <3>2 DEF u
  <2>3. x % TimeMod = x /\ y % TimeMod = y
    <3> HIDE DEF x, y
    <3> QED BY <2>2, ModSmall, Sizes
  <2>4. TimeGap(b, p, k) <=> RtpTimeGreater(x % TimeMod, y % TimeMod)
    BY <1>1 DEF TimeGap
  <2> HIDE DEF x, y
  <2> QED BY <2>2, <2>3, <2>4 DEF RtpTimeGreater
<1>7. d - 1 \in 0..(JbSize - 1)
  BY <1>2, Sizes
<1> DEFINE P(k) == /\ ~(TimeGap(b, p, k) /\ SeqGap(b, p, k))
                   /\ \A j \in 0..(k - 1) : TimeGap(b, p, j) /\ SeqGap(b, p, j)
<1>8. P(d - 1)
  <2>1. ~ SeqGap(b, p, d - 1)
    BY <1>3, <1>7, <1>2, Sizes
  <2>2. \A j \in 0..(d - 1 - 1) : TimeGap(b, p, j) /\ SeqGap(b, p, j)
    <3> TAKE j \in 0..(d - 1 - 1)
    <3>1. j \in 0..(d - 2) /\ j \in 0..(d - 1) /\ j < d - 1
      BY <1>2, Sizes
    <3> QED BY <3>1, <1>3, <1>6
  <2> QED BY <2>1, <2>2
<1>9. \A k \in 0..(JbSize - 1) : P(k) => k = d - 1
  <2> TAKE k \in 0..(JbSize - 1)
  <2> HAVE P(k)
  <2>1. CASE k < d - 1
    <3>1. k \in 0..(d - 2) /\ k \in 0..(d - 1)
      BY <2>1, <1>2, Sizes
    <3> QED BY <3>1, <2>1, <1>3, <1>6
  <2>2. CASE k > d - 1
    <3>1. d - 1 \in 0..(k - 1) /\ d - 1 \in 0..(d - 1) /\ ~ (d - 1 < d - 1)
      BY <2>2, <1>2, Sizes
    <3> QED BY <3>1, <1>3
  <2> QED BY <2>1, <2>2, <1>2, Sizes
<1>10. Missing(b, p) = CHOOSE k \in 0..(JbSize - 1) : P(k)
  BY DEF Missing
<1> HIDE DEF P
<1> QED BY <1>7, <1>8, <1>9, <1>10

(***************************************************************************)
(* readNetwork(): what becomes of the ring when a packet is buffered.      *)
(***************************************************************************)

LEMMA VoiceFields ==
    ASSUME NEW q
    PROVE  /\ VoiceSlot(q).inUse /\ ~ VoiceSlot(q).silence /\ VoiceSlot(q).ssrc = q.ssrc
           /\ VoiceSlot(q).seq = q.seq /\ VoiceSlot(q).time = q.time
           /\ Index(VoiceSlot(q)) = Index(q)
BY DEF VoiceSlot, Index

\* A buffer that starts afresh: the packet, behind Lead silences.
LEMMA FreshBuffered ==
    ASSUME NEW p \in Packet, NEW b, NEW x \in Int, Ring(b, 0, x)
    PROVE  /\ Ring(AppendRtpData(Prime(b, p), p), Lead + 1, p.seq)
           /\ LastSlot(AppendRtpData(Prime(b, p), p)) = VoiceSlot(p)
           /\ VoiceOf(b, p.ssrc) => VoiceOf(AppendRtpData(Prime(b, p), p), p.ssrc)
<1> DEFINE last == p.seq - Lead - 1
           t == (p.time - SampleSize * Lead) % TimeMod
           a == Prime(b, p)
           c == AppendRtpData(a, p)
<1>1. /\ p.seq \in 0..(SeqMod - 1) /\ p.seq \in Int /\ p.time \in Int /\ Lead \in 0..JbSize
      /\ last \in Int /\ last + 1 = p.seq - Lead /\ last + Lead + 1 = p.seq
  BY Sizes DEF Packet
<1>2. t \in Int
  <2>1. p.time - SampleSize * Lead \in Int
    BY <1>1, Sizes
  <2> QED BY <2>1, ModType, Sizes
<1>3. a = InsertSilence(b, Lead, Num(last + 1), t)
  BY <1>1 DEF Prime, Num
<1>4. Ring(b, 0, last)
  BY <1>1, RingEmpty
<1> HIDE DEF last, t, a
<1>5. /\ Ring(a, Capped(0 + Lead), last + Lead)
      /\ NoNewVoice(b, a)
  BY <1>1, <1>2, <1>3, <1>4, RingInsert
<1>6. /\ Ring(c, Capped(Capped(0 + Lead) + 1), last + Lead + 1) /\ LastSlot(c) = VoiceSlot(p)
      /\ \A i \in Pos : c.slot[i] = a.slot[i] \/ c.slot[i] = VoiceSlot(p)
  <2>1. p.seq = Num(last + Lead + 1) /\ last + Lead \in Int
    BY <1>1, NumSmall, Sizes
  <2> QED BY <2>1, <1>5, RingAppend
<1>7. Capped(Capped(0 + Lead) + 1) = Lead + 1
  BY Sizes DEF Capped
<1>8. VoiceOf(b, p.ssrc) => VoiceOf(c, p.ssrc)
  BY <1>5, <1>6, VoiceFields DEF VoiceOf, NoNewVoice
<1> QED BY <1>1, <1>6, <1>7, <1>8 DEF a

\* A packet ahead of the newest: it is appended behind what is missing.
LEMMA AheadBuffered ==
    ASSUME TypeOK, StreamInv, NumbersFit, TimesFit, NEW p \in sent, NEW q \in sent, p.ssrc = q.ssrc,
           NEW b, NEW n, Ring(b, n, SeqStart[q.ssrc] + Index(q)), LastSlot(b) = VoiceSlot(q),
           NEW d, d = Index(p) - Index(q), d \in 1..JbSize
    PROVE  LET c == AppendRtpData(PatchSilence(b, p), p)
           IN  /\ Ring(c, Capped(n + d), SeqStart[p.ssrc] + Index(p))
               /\ LastSlot(c) = VoiceSlot(p)
               /\ VoiceOf(b, p.ssrc) => VoiceOf(c, p.ssrc)
               /\ Shifted(b, c, d)
<1> DEFINE last == SeqStart[q.ssrc] + Index(q)
           t == (q.time + SampleSize) % TimeMod
           a == PatchSilence(b, p)
           c == AppendRtpData(a, p)
<1>1. /\ p \in Packet /\ last \in Int /\ n \in 0..JbSize /\ d - 1 \in 0..JbSize
      /\ q.seq = Num(last) /\ p.seq = Num(last + (d - 1) + 1) /\ q.time \in Int
      /\ last + (d - 1) + 1 = SeqStart[p.ssrc] + Index(p) /\ last + (d - 1) \in Int
  <2>1. n \in 0..JbSize
    BY DEF Ring
  <2>2. /\ p \in Packet /\ Index(p) \in Int /\ Index(q) \in Int /\ SeqStart[p.ssrc] \in Int
        /\ q.seq = Num(last) /\ q.time \in Int /\ p.seq = Num(SeqStart[p.ssrc] + Index(p))
    BY SentFacts, Sizes
  <2>3. last + (d - 1) + 1 = SeqStart[p.ssrc] + Index(p) /\ d - 1 \in 0..JbSize
        /\ last + (d - 1) \in Int /\ last \in Int
    BY <2>2, Sizes
  <2> QED BY <2>1, <2>2, <2>3
<1>2. a = InsertSilence(b, d - 1, Num(last + 1), t)
  <2>1. Missing(b, p) = d - 1
    BY MissingNumber
  <2>2. (q.seq + 1) % SeqMod = Num(last + 1)
    <3>1. Num(Num(last) + 1) = Num(last + 1)
      <4> HIDE DEF last
      <4> QED BY <1>1, NumAdd
    <3> QED BY <3>1, <1>1 DEF Num
  <2> QED BY <2>1, <2>2, VoiceFields DEF PatchSilence
<1>3. t \in Int
  <2>1. q.time + SampleSize \in Int
    BY <1>1, Sizes
  <2>2. \A z \in Int : z % TimeMod \in Int
    BY ModType, Sizes
  <2> QED BY <2>1, <2>2, Zenon
<1> HIDE DEF last, t, a
<1>4. Ring(b, n, last)
  BY DEF last
<1>5. /\ Ring(a, Capped(n + (d - 1)), last + (d - 1))
      /\ NoNewVoice(b, a)
      /\ Shifted(b, a, d - 1)
  <2> DEFINE m == d - 1
             s == Num(last + 1)
  <2>1. m \in 0..JbSize /\ s = Num(last + 1) /\ a = InsertSilence(b, m, s, t) /\ last \in Int
    BY <1>1, <1>2
  <2> HIDE DEF m, s
  <2>2. /\ Ring(a, Capped(n + m), last + m)
        /\ NoNewVoice(b, a)
        /\ Shifted(b, a, m)
    BY <2>1, <1>3, <1>4, RingInsert
  <2> QED BY <2>2 DEF m
<1>6. /\ Ring(c, Capped(Capped(n + (d - 1)) + 1), last + (d - 1) + 1) /\ LastSlot(c) = VoiceSlot(p)
      /\ \A i \in Pos : c.slot[i] = a.slot[i] \/ c.slot[i] = VoiceSlot(p)
      /\ Shifted(a, c, 1)
  BY <1>1, <1>5, RingAppend
<1>7. Capped(Capped(n + (d - 1)) + 1) = Capped(n + d)
  BY <1>1, Sizes DEF Capped
<1>8. VoiceOf(b, p.ssrc) => VoiceOf(c, p.ssrc)
  <2>1. \A i \in Pos : c.slot[i] = b.slot[i] \/ c.slot[i].silence \/ c.slot[i] = VoiceSlot(p)
    BY <1>5, <1>6 DEF NoNewVoice
  <2> HIDE DEF c
  <2> QED BY <2>1, VoiceFields DEF VoiceOf
<1>9. Shifted(b, c, d)
  <2> HIDE DEF c
  <2> SUFFICES ASSUME NEW k \in 1..JbSize, k > d
               PROVE  c.slot[At(c.inPos - k)] = b.slot[At(b.inPos - (k - d))]
    BY DEF Shifted
  <2>1. k > 1 /\ k - 1 \in 1..JbSize /\ k - 1 > d - 1 /\ (k - 1) - (d - 1) = k - d
    BY Sizes
  <2>2. a.slot[At(a.inPos - (k - 1))] = b.slot[At(b.inPos - ((k - 1) - (d - 1)))]
    BY <2>1, <1>5 DEF Shifted
  <2>3. c.slot[At(c.inPos - k)] = a.slot[At(a.inPos - (k - 1))]
    BY <2>1, <1>6 DEF Shifted
  <2> QED BY <2>1, <2>2, <2>3
<1> QED BY <1>1, <1>6, <1>7, <1>8, <1>9 DEF a

\* A packet behind the newest, or the newest again: it goes to its slot, or is
\* dropped when that has been played.
LEMMA LateBuffered ==
    ASSUME TypeOK, StreamInv, NumbersFit, NEW p \in sent, NEW q \in sent, p.ssrc = q.ssrc,
           NEW b, NEW n, Ring(b, n, SeqStart[q.ssrc] + Index(q)), LastSlot(b) = VoiceSlot(q),
           n > 0, Index(p) <= Index(q)
    PROVE  LET c == SetLate(b, p)
           IN  /\ Ring(c, n, SeqStart[q.ssrc] + Index(q))
               /\ \/ LastSlot(c) = VoiceSlot(q)
                  \/ LastSlot(c) = VoiceSlot(p) /\ Index(p) = Index(q)
               /\ c.inPos = b.inPos
               /\ \A i \in Pos : \/ c.slot[i] = b.slot[i]
                                 \/ c.slot[i] = VoiceSlot(p) /\ b.slot[i].seq = p.seq
<1> DEFINE last == SeqStart[q.ssrc] + Index(q)
           sd == Index(q) - Index(p) + 1
           c == SetLate(b, p)
<1>1. /\ p \in Packet /\ Index(p) \in Int /\ Index(q) \in Int /\ last \in Int /\ SeqStart[q.ssrc] \in Int
      /\ p.seq = Num(SeqStart[q.ssrc] + Index(p)) /\ q.seq = Num(last)
  <2>1. /\ p \in Packet /\ Index(p) \in 1..MaxSent[p.ssrc] /\ MaxSent[p.ssrc] \in Nat
        /\ Index(q) \in 1..MaxSent[p.ssrc] /\ SeqStart[q.ssrc] \in 0..(SeqMod - 1)
        /\ p.seq = Num(SeqStart[q.ssrc] + Index(p)) /\ q.seq = Num(last)
    BY SentFacts
  <2> QED BY <2>1, Sizes
<1>2. c = IF sd > n THEN b ELSE SetRtpData(b, p, PreviousInPos(b, sd))
  <2>1. RtpSeqDifference(q.seq, p.seq) = Index(q) - Index(p)
    BY SentDiff
  <2>2. Count(b) = n
    BY <1>1, RingCount
  <2> QED BY <2>1, <2>2, VoiceFields DEF SetLate
<1>3. /\ b \in Jb /\ b.inPos \in Pos /\ b.inPos \in Int /\ n \in 1..JbSize
  <2>1. b \in Jb /\ n \in 0..JbSize
    BY DEF Ring
  <2> QED BY <2>1, Sizes DEF Jb, Pos
<1>4. CASE sd > n
  BY <1>2, <1>4
<1>5. CASE ~ (sd > n)
  <2> DEFINE x == At(b.inPos - sd)
  <2>1. sd \in 1..n /\ sd \in 1..JbSize /\ last - (sd - 1) = SeqStart[q.ssrc] + Index(p)
    BY <1>1, <1>3, <1>5, Sizes
  <2>2. p.seq = Num(last - (sd - 1))
    BY <2>1, <1>1
  <2> HIDE DEF sd, last
  <2>3. Ring(b, n, last)
    BY DEF last
  <2>4. Ring(c, n, last) /\ c = [b EXCEPT !.slot = [b.slot EXCEPT ![x] = VoiceSlot(p)]]
    <3>1. c = SetRtpData(b, p, PreviousInPos(b, sd))
      BY <1>2, <1>5
    <3> HIDE DEF c
    <3> QED BY <3>1, <2>1, <2>2, <2>3, <1>1, RingSet
  <2>5. x \in Pos
    <3>1. b.inPos - sd \in Int
      BY <2>1, <1>3, Sizes
    <3> QED BY <3>1, AtType
  <2>6. b.slot[x].seq = p.seq
    BY <2>1, <2>2, <2>3 DEF Ring
  <2> HIDE DEF x, c
  <2>7. c.inPos = b.inPos /\ c.slot[x] = VoiceSlot(p) /\ \A i \in Pos : i # x => c.slot[i] = b.slot[i]
    BY <2>4, <2>5, <1>3 DEF Jb
  <2>8. \/ LastSlot(c) = VoiceSlot(q)
        \/ LastSlot(c) = VoiceSlot(p) /\ Index(p) = Index(q)
    <3> DEFINE y == At(b.inPos - 1)
    <3>1. LastSlot(c) = c.slot[y] /\ LastSlot(b) = b.slot[y]
      BY <2>7 DEF LastSlot, PreviousInPos, At
    <3>2. y \in Pos
      <4>1. b.inPos - 1 \in Int
        BY <1>3
      <4> QED BY <4>1, AtType
    <3>3. CASE y = x
      <4>1. 1 \in 1..JbSize /\ At(b.inPos - 1) = At(b.inPos - sd)
        BY <3>3, Sizes DEF x
      <4>2. sd = 1
        BY <4>1, <2>1, <1>3, Behind
      <4>3. Index(p) = Index(q)
        BY <4>2, <1>1 DEF sd
      <4> QED BY <4>3, <3>1, <3>3, <2>7
    <3>4. CASE y # x
      BY <3>1, <3>2, <3>4, <2>7
    <3> QED BY <3>3, <3>4
  <2>9. \A i \in Pos : c.slot[i] = b.slot[i] \/ (c.slot[i] = VoiceSlot(p) /\ b.slot[i].seq = p.seq)
    BY <2>6, <2>7
  <2> QED BY <2>4, <2>7, <2>8, <2>9 DEF c, last
<1> QED BY <1>4, <1>5

\* The packet in the newest slot.
LEMMA Newest ==
    ASSUME TypeOK, StreamInv, NumbersFit, NEW b, NEW s, RingOf(b), LastOf(b), VoiceOf(b, s), Count(b) > 0
    PROVE  \E q \in sent : /\ q.ssrc = s
                           /\ LastSlot(b) = VoiceSlot(q) /\ LastSlot(b).seq = q.seq
                           /\ Index(LastSlot(b)) = Index(q)
                           /\ Ring(b, Count(b), SeqStart[q.ssrc] + Index(q))
                           /\ Count(b) <= Index(q) + Lead
<1>1. PICK q \in sent : LastSlot(b) = VoiceSlot(q)
  BY DEF LastOf
<1>2. /\ LastSlot(b).inUse /\ ~ LastSlot(b).silence /\ LastSlot(b).ssrc = q.ssrc
      /\ LastSlot(b).seq = q.seq /\ Index(LastSlot(b)) = Index(q)
  BY <1>1, VoiceFields
<1>3. q.ssrc = s
  <2>1. b.inPos - 1 \in Int
    BY Sizes DEF RingOf, Ring, Jb, Pos
  <2>2. LastSlot(b) = b.slot[At(b.inPos - 1)] /\ At(b.inPos - 1) \in Pos
    BY <2>1, AtType DEF LastSlot, PreviousInPos, At
  <2> QED BY <2>2, <1>2 DEF VoiceOf
<1>4. Count(b) <= Index(q) + Lead
  BY <1>2 DEF LastOf
<1>5. Ring(b, Count(b), SeqStart[q.ssrc] + Index(q))
  <2>1. q.seq = Num(SeqStart[q.ssrc] + Index(q)) /\ SeqStart[q.ssrc] + Index(q) \in Int
    BY SentFacts, Sizes
  <2> QED BY <2>1, <1>2, RingNum DEF RingOf
<1> QED BY <1>1, <1>2, <1>3, <1>4, <1>5

\* A buffer whose newest slot is the packet q, from a ring.
LEMMA NewestIntro ==
    ASSUME NEW b, NEW n, NEW last \in Int, Ring(b, n, last), NEW q \in sent,
           LastSlot(b) = VoiceSlot(q), n <= Index(q) + Lead
    PROVE  /\ RingOf(b) /\ LastOf(b) /\ Count(b) = n
           /\ LastSlot(b).seq = q.seq /\ Index(LastSlot(b)) = Index(q)
<1>1. RingOf(b) /\ Count(b) = n
  BY RingOfIntro
<1>2. LastSlot(b).seq = q.seq /\ Index(LastSlot(b)) = Index(q)
  BY VoiceFields
<1> QED BY <1>1, <1>2 DEF LastOf

LEMMA VoiceFresh == \A s : VoiceOf(EmptyJb, s)
<1>1. \A i \in Pos : EmptyJb.slot[i] = FreeSlot
  BY DEF EmptyJb
<1> QED BY <1>1, FreeType DEF VoiceOf

\* A packet of the transmitter whose voice is in the buffer.
LEMMA Buffering ==
    ASSUME TypeOK, StreamInv, NumbersFit, TimesFit, NEW p \in sent,
           NEW b, RingOf(b), LastOf(b), VoiceOf(b, p.ssrc),
           NEW c, c = Buffered(b, p)
    PROVE  /\ RingOf(c) /\ LastOf(c) /\ VoiceOf(c, p.ssrc)
           /\ \A x \in 0..(SeqMod - 1) :
                 PlayedOf(b, x) => Count(b) = 0 \/ Early(b, p) \/ PlayedOf(c, x)
<1> DEFINE n == Count(b)
<1>1. /\ p \in Packet /\ Index(p) \in 1..MaxSent[p.ssrc] /\ MaxSent[p.ssrc] \in Nat
      /\ SeqStart[p.ssrc] \in Int /\ 2 * (MaxSent[p.ssrc] + Lead) < SeqMod
      /\ p.seq \in 0..(SeqMod - 1) /\ Index(p) \in Int /\ n \in 0..JbSize /\ Lead \in Nat
  <2>1. n \in 0..JbSize
    BY DEF RingOf, Ring
  <2> QED BY <2>1, SentFacts, Sizes
<1>2. CASE n = 0 \/ Early(b, p)
  <2>1. PICK a : /\ c = AppendRtpData(Prime(a, p), p) /\ Ring(a, 0, 0) /\ VoiceOf(a, p.ssrc)
    <3>1. CASE n = 0
      <4>1. c = AppendRtpData(Prime(b, p), p)
        <5>1. ~ Early(b, p)
          BY <3>1 DEF Early
        <5> QED BY <5>1, <3>1 DEF Buffered
      <4>2. LastSlot(b).seq \in Int
        <5>1. b.inPos - 1 \in Int /\ b \in Jb
          BY Sizes DEF RingOf, Ring, Jb, Pos
        <5>2. b.slot[At(b.inPos - 1)] \in Slot
          BY <5>1, AtType DEF Jb
        <5> QED BY <5>2, Sizes DEF Slot, LastSlot, PreviousInPos, At
      <4>3. Ring(b, 0, 0)
        BY <3>1, <4>2, RingEmpty DEF RingOf
      <4> QED BY <4>1, <4>3
    <3>2. CASE n # 0
      <4>1. c = AppendRtpData(Prime(EmptyJb, p), p)
        BY <1>2, <3>2 DEF Buffered
      <4>2. Ring(EmptyJb, 0, 0)
        BY RingFresh
      <4>3. VoiceOf(EmptyJb, p.ssrc)
        BY VoiceFresh
      <4> QED BY <4>1, <4>2, <4>3
    <3> QED BY <3>1, <3>2
  <2>2. Ring(c, Lead + 1, p.seq) /\ LastSlot(c) = VoiceSlot(p) /\ VoiceOf(c, p.ssrc)
    BY <2>1, <1>1, FreshBuffered
  <2>3. Lead + 1 <= Index(p) + Lead /\ p.seq \in Int
    BY <1>1, Sizes
  <2>4. RingOf(c) /\ LastOf(c)
    BY <2>2, <2>3, NewestIntro
  <2> QED BY <2>2, <2>4, <1>2
<1>3. CASE n # 0 /\ ~ Early(b, p)
  <2>0. n \in 1..JbSize /\ n > 0
    BY <1>1, <1>3, Sizes
  <2>1. PICK q \in sent : /\ q.ssrc = p.ssrc
                          /\ LastSlot(b) = VoiceSlot(q) /\ LastSlot(b).seq = q.seq
                          /\ Index(LastSlot(b)) = Index(q)
                          /\ Ring(b, n, SeqStart[q.ssrc] + Index(q))
                          /\ n <= Index(q) + Lead
    BY <2>0, Newest
  <2>2. Index(q) \in 1..MaxSent[p.ssrc] /\ Index(q) \in Int /\ q.seq \in 0..(SeqMod - 1)
        /\ q.seq = Num(SeqStart[p.ssrc] + Index(q)) /\ p.seq = Num(SeqStart[p.ssrc] + Index(p))
    BY <2>1, <1>1, SentFacts, Sizes
  <2> DEFINE d == Index(p) - Index(q)
  <2>3. RtpSeqDifference(p.seq, q.seq) = d /\ d \in Int
    BY <2>1, <2>2, <1>1, SentDiff
  <2>4. d <= JbSize
    BY <2>0, <2>1, <2>3, <1>3, Sizes DEF Early
  <2>5. CASE d > 0
    <3>1. c = AppendRtpData(PatchSilence(b, p), p)
      BY <2>0, <2>1, <2>3, <2>5, <1>3 DEF Buffered, RtpSeqGreater
    <3>2. d \in 1..JbSize
      BY <2>3, <2>4, <2>5, Sizes
    <3>3. /\ Ring(c, Capped(n + d), SeqStart[p.ssrc] + Index(p)) /\ LastSlot(c) = VoiceSlot(p)
          /\ VoiceOf(c, p.ssrc)
      <4> HIDE DEF n, d
      <4>1. d = Index(p) - Index(q)
        BY DEF d
      <4> QED BY <3>1, <3>2, <4>1, <2>1, AheadBuffered
    <3>4. /\ Capped(n + d) \in Int /\ Capped(n + d) <= n + d /\ Capped(n + d) <= Index(p) + Lead
          /\ Capped(n + d) >= 1 /\ SeqStart[p.ssrc] + Index(p) \in Int
      BY <3>2, <2>0, <2>1, <2>2, <1>1, Sizes DEF Capped
    <3>5. /\ RingOf(c) /\ LastOf(c) /\ Count(c) = Capped(n + d)
          /\ LastSlot(c).seq = p.seq /\ Index(LastSlot(c)) = Index(p)
      <4> HIDE DEF d, n
      <4> QED BY <3>3, <3>4, NewestIntro
    <3>6. ASSUME NEW x \in 0..(SeqMod - 1), PlayedOf(b, x)
          PROVE  PlayedOf(c, x)
      <4> DEFINE D == Num(q.seq - x)
      <4>1. x # NoSeq /\ x \in Int
        BY RtpNoneAssumption, Sizes
      <4>2. D \in n..(Index(q) + Lead) /\ D \in Int
        <5>1. D \in n..(Index(q) + Lead)
          <6>1. Num(LastSlot(b).seq - x) \in n..(Index(LastSlot(b)) + Lead)
            BY <4>1, <3>6 DEF PlayedOf
          <6>2. LastSlot(b).seq = q.seq /\ Index(LastSlot(b)) = Index(q)
            BY <2>1
          <6> QED BY <6>1, <6>2
        <5>2. q.seq - x \in Int
          BY <4>1, <2>2, Sizes
        <5> QED BY <5>1, <5>2, NumType, Sizes
      <4>3. Num(p.seq - x) = D + d
        <5> DEFINE y == SeqStart[p.ssrc] + Index(q)
        <5>1. y \in Int /\ SeqStart[p.ssrc] + Index(p) = y + d /\ -x \in Int /\ y + d \in Int
          BY <4>1, <2>2, <2>3, <1>1
        <5>2. Num(Num(y + d) + (-x)) = Num(y + d + (-x))
          <6> HIDE DEF y, d
          <6> QED BY <5>1, NumAdd
        <5>3. Num(Num(y) + (-x)) = Num(y + (-x))
          <6> HIDE DEF y
          <6> QED BY <5>1, NumAdd
        <5>4. Num(Num(y + (-x)) + d) = Num(y + (-x) + d)
          <6>1. y + (-x) \in Int
            BY <5>1
          <6> HIDE DEF y, d
          <6> QED BY <6>1, <2>3, NumAdd
        <5>5. y + (-x) + d = y + d + (-x) /\ q.seq - x = Num(y) + (-x) /\ p.seq - x = Num(y + d) + (-x)
          <6>1. q.seq = Num(y) /\ p.seq = Num(y + d) /\ q.seq \in Int /\ p.seq \in Int
            BY <5>1, <2>2, <1>1, Sizes
          <6> HIDE DEF y, d
          <6>2. y + (-x) + d = y + d + (-x)
            BY <5>1, <4>1, <2>3
          <6>3. \A z \in Int : z - x = z + (-x)
            BY <4>1
          <6> QED BY <6>1, <6>2, <6>3
        <5>6. Num(p.seq - x) = Num(D + d)
          BY <5>2, <5>3, <5>4, <5>5
        <5>7. D + d \in 0..(SeqMod - 1)
          BY <4>2, <3>2, <2>0, <2>2, <1>1, Sizes
        <5> QED BY <5>6, <5>7, NumSmall
      <4>4. D + d \in Capped(n + d)..(Index(p) + Lead)
        BY <4>2, <3>2, <3>4, <2>0, <2>2, <1>1, Sizes
      <4> QED BY <4>3, <4>4, <3>4, <3>5 DEF PlayedOf
    <3> QED BY <3>3, <3>5, <3>6
  <2>6. CASE ~ (d > 0)
    <3>1. c = SetLate(b, p)
      BY <2>0, <2>1, <2>3, <2>6, <1>3 DEF Buffered, RtpSeqGreater
    <3>2. Index(p) <= Index(q)
      BY <2>2, <2>6, <1>1
    <3>3. /\ Ring(c, n, SeqStart[q.ssrc] + Index(q))
          /\ LastSlot(c) = VoiceSlot(q) \/ (LastSlot(c) = VoiceSlot(p) /\ Index(p) = Index(q))
          /\ \A i \in Pos : c.slot[i] = b.slot[i] \/ c.slot[i] = VoiceSlot(p)
      <4> HIDE DEF n
      <4> QED BY <3>1, <3>2, <2>0, <2>1, LateBuffered
    <3>4. SeqStart[q.ssrc] + Index(q) \in Int
      BY <2>1, <2>2, <1>1
    <3>5. /\ RingOf(c) /\ LastOf(c) /\ Count(c) = n
          /\ LastSlot(c).seq = q.seq /\ Index(LastSlot(c)) = Index(q)
      <4> HIDE DEF n
      <4>1. CASE LastSlot(c) = VoiceSlot(q)
        BY <4>1, <3>3, <3>4, <2>1, NewestIntro
      <4>2. CASE LastSlot(c) = VoiceSlot(p) /\ Index(p) = Index(q)
        <5>1. p.seq = q.seq /\ n <= Index(p) + Lead
          BY <4>2, <2>1, <2>2
        <5> QED BY <5>1, <4>2, <3>3, <3>4, <2>1, NewestIntro
      <4> QED BY <4>1, <4>2, <3>3
    <3>6. VoiceOf(c, p.ssrc)
      BY <3>3, VoiceFields DEF VoiceOf
    <3>7. \A x : PlayedOf(b, x) => PlayedOf(c, x)
      BY <3>5, <2>1 DEF PlayedOf
    <3> QED BY <3>5, <3>6, <3>7
  <2> QED BY <2>5, <2>6
<1> QED BY <1>2, <1>3

(***************************************************************************)
(* retrieve(): the slots up to the m-th before inPos are taken.            *)
(***************************************************************************)

LEMMA Retrieved ==
    ASSUME RingOf(jb), Retrieve
    PROVE  \E m \in 1..Count(jb) :
              /\ Ring(jb', m - 1, LastSlot(jb).seq)
              /\ \A i \in Pos : jb'.slot[i] = jb.slot[i] \/ jb'.slot[i] = FreeSlot
              /\ m > 1 => LastSlot(jb') = LastSlot(jb)
              /\ played' = IF m = 1 THEN NoSeq ELSE jb.slot[At(jb.inPos - m)].seq
<1> DEFINE n == Count(jb)
           i == jb.inPos
           last == LastSlot(jb).seq
           skip == /\ jb.slot[jb.playPos].silence
                   /\ JbSize >= 2 /\ Count(jb) > JbSize \div 2 + 1
           at == IF skip THEN Following(jb.playPos) ELSE jb.playPos
           taken == IF skip THEN {jb.playPos, at} ELSE {at}
           after == [jb EXCEPT !.slot = [x \in Pos |-> IF x \in taken THEN FreeSlot ELSE @[x]],
                               !.playPos = Following(at)]
<1>1. Count(jb) > 0 /\ jb' = after /\ played' = IF Count(after) = 0 THEN NoSeq ELSE jb.slot[at].seq
  BY DEF Retrieve
<1>2. /\ Ring(jb, n, last) /\ jb \in Jb /\ i \in Pos /\ i \in Int /\ n \in 1..JbSize
      /\ jb.playPos = At(i - n) /\ jb.playPos \in Pos
  <2>1. Ring(jb, n, last) /\ jb \in Jb /\ n \in 0..JbSize /\ jb.playPos = At(i - n)
    BY DEF RingOf, Ring
  <2>2. i \in Pos /\ jb.playPos \in Pos
    BY <2>1 DEF Jb
  <2> QED BY <2>1, <2>2, <1>1, Sizes DEF Pos
<1>3. last \in Int
  <2>1. i - 1 \in Int
    BY <1>2
  <2>2. jb.slot[At(i - 1)] \in Slot
    BY <2>1, <1>2, AtType DEF Jb
  <2>3. LastSlot(jb) = jb.slot[At(i - 1)]
    BY DEF LastSlot, PreviousInPos, At
  <2> QED BY <2>2, <2>3, Sizes DEF Slot
<1> DEFINE c == DropOldest(jb)
<1>4. /\ Ring(c, n - 1, last) /\ c.slot = [jb.slot EXCEPT ![jb.playPos] = FreeSlot]
      /\ c.inPos = i /\ c.playPos = At(i - (n - 1)) /\ c.playPos = Following(jb.playPos)
  <2>1. c.playPos = Following(jb.playPos)
    BY <1>2 DEF DropOldest, Jb
  <2> HIDE DEF n, last
  <2>2. n > 0
    BY <1>2, Sizes
  <2> QED BY <2>1, <2>2, <1>2, <1>3, RingDrop
<1>5. 1 \in 1..JbSize /\ n \in 1..JbSize /\ (n > 1 => n - 1 \in 1..JbSize) /\ n \in Int
  BY <1>2, Sizes
<1>0. \A j, k \in 1..JbSize : At(i - j) = At(i - k) => j = k
  BY <1>2, Behind
<1>6. n > 1 => At(i - 1) # At(i - n)
  <2>1. n > 1 => n # 1
    BY <1>5
  <2> HIDE DEF n, i
  <2> QED BY <2>1, <1>0, <1>5
<1>7. At(i - 1) \in Pos
  <2>1. i - 1 \in Int
    BY <1>2
  <2> QED BY <2>1, AtType
<1>8. CASE ~ skip
  <2>1. jb' = c
    <3>1. after = [jb EXCEPT !.slot = [jb.slot EXCEPT ![jb.playPos] = FreeSlot],
                             !.playPos = Following(jb.playPos)]
      BY <1>2, <1>8 DEF Jb
    <3> QED BY <3>1, <1>1 DEF DropOldest
  <2> HIDE DEF c
  <2>2. Count(jb') = n - 1
    BY <2>1, <1>3, <1>4, RingCount
  <2>3. played' = IF n = 1 THEN NoSeq ELSE jb.slot[At(i - n)].seq
    <3>1. n - 1 = 0 <=> n = 1
      BY <1>5
    <3>2. at = At(i - n)
      BY <1>2, <1>8
    <3> HIDE DEF n, at, after
    <3> QED BY <3>1, <3>2, <2>2, <1>1
  <2>4. \A x \in Pos : jb'.slot[x] = jb.slot[x] \/ jb'.slot[x] = FreeSlot
    BY <2>1, <1>2, <1>4 DEF Jb
  <2>5. n > 1 => LastSlot(jb') = LastSlot(jb)
    <3>1. LastSlot(jb') = jb'.slot[At(i - 1)] /\ LastSlot(jb) = jb.slot[At(i - 1)]
      BY <2>1, <1>4 DEF LastSlot, PreviousInPos, At
    <3>2. n > 1 => jb'.slot[At(i - 1)] = jb.slot[At(i - 1)]
      BY <2>1, <1>2, <1>4, <1>6, <1>7 DEF Jb
    <3> QED BY <3>1, <3>2
  <2>6. n \in 1..n
    BY <1>5, <1>2
  <2> HIDE DEF n, last
  <2> QED BY <2>1, <2>3, <2>4, <2>5, <2>6, <1>4 DEF last, n
<1>9. CASE skip
  <2>0. n > 2 /\ n - 1 > 0 /\ n - 1 \in 1..n /\ n - 1 > 1 /\ n - 1 \in 1..JbSize /\ n - 1 # 1
    BY <1>2, <1>9, Sizes
  <2> DEFINE e == DropOldest(c)
  <2>1. /\ Ring(e, (n - 1) - 1, last) /\ e.slot = [c.slot EXCEPT ![At(i - (n - 1))] = FreeSlot]
        /\ e.inPos = i
    <3> DEFINE k == n - 1
    <3>1. Ring(c, k, last) /\ k > 0 /\ c.inPos = i /\ c.playPos = At(i - k)
      BY <1>4, <2>0
    <3> HIDE DEF c, k
    <3>2. Ring(e, k - 1, last) /\ e.slot = [c.slot EXCEPT ![At(i - k)] = FreeSlot] /\ e.inPos = i
      BY <3>1, <1>3, RingDrop
    <3> QED BY <3>2 DEF k
  <2>2. jb' = e
    <3> DEFINE y == Following(jb.playPos)
    <3>1. after = [jb EXCEPT !.slot = [x \in Pos |-> IF x \in {jb.playPos, y} THEN FreeSlot ELSE jb.slot[x]],
                             !.playPos = Following(y)]
      BY <1>9
    <3>2. c = [jb EXCEPT !.slot = [jb.slot EXCEPT ![jb.playPos] = FreeSlot], !.playPos = y]
      BY DEF DropOldest
    <3>3. e = [c EXCEPT !.slot = [c.slot EXCEPT ![c.playPos] = FreeSlot], !.playPos = Following(c.playPos)]
      BY DEF DropOldest
    <3>4. y \in Pos
      BY <1>2, <1>4, AtType
    <3> HIDE DEF y, c, e, after
    <3>5. /\ c.slot = [jb.slot EXCEPT ![jb.playPos] = FreeSlot] /\ c.playPos = y
          /\ c = [slot |-> c.slot, inPos |-> i, playPos |-> y]
      BY <3>2, <1>2 DEF Jb
    <3>6. e = [slot |-> [c.slot EXCEPT ![y] = FreeSlot], inPos |-> i, playPos |-> Following(y)]
      <4> DEFINE z == c.slot
                 w == [z EXCEPT ![y] = FreeSlot]
      <4>1. c = [slot |-> z, inPos |-> i, playPos |-> y] /\ e = [c EXCEPT !.slot = w, !.playPos = Following(y)]
        BY <3>3, <3>5
      <4> HIDE DEF z, w
      <4>2. e = [slot |-> w, inPos |-> i, playPos |-> Following(y)]
        BY <4>1
      <4> QED BY <4>2 DEF z, w
    <3>7. after = [slot |-> [x \in Pos |-> IF x \in {jb.playPos, y} THEN FreeSlot ELSE jb.slot[x]],
                   inPos |-> i, playPos |-> Following(y)]
      BY <3>1, <1>2 DEF Jb
    <3>8. [c.slot EXCEPT ![y] = FreeSlot] = [x \in Pos |-> IF x \in {jb.playPos, y} THEN FreeSlot ELSE jb.slot[x]]
      BY <3>4, <3>5, <1>2 DEF Jb
    <3> QED BY <3>6, <3>7, <3>8, <1>1
  <2>3. at = At(i - (n - 1))
    BY <1>4, <1>9
  <2>4. At(i - (n - 1)) \in Pos /\ At(i - 1) # At(i - (n - 1))
    <3>1. i - (n - 1) \in Int
      BY <1>2, Sizes
    <3>2. At(i - (n - 1)) \in Pos
      BY <3>1, AtType
    <3>3. At(i - 1) # At(i - (n - 1))
      BY <2>0, <1>0, <1>5, Zenon
    <3> QED BY <3>2, <3>3
  <2> HIDE DEF c, e
  <2>5. Count(jb') = (n - 1) - 1
    BY <2>1, <2>2, <1>3, RingCount
  <2>6. played' = IF n - 1 = 1 THEN NoSeq ELSE jb.slot[At(i - (n - 1))].seq
    <3>1. (n - 1) - 1 # 0
      BY <2>0, <1>5
    <3> HIDE DEF n, at, after
    <3> QED BY <3>1, <2>0, <2>3, <2>5, <1>1
  <2>7. \A x \in Pos : jb'.slot[x] = jb.slot[x] \/ jb'.slot[x] = FreeSlot
    BY <2>1, <2>2, <1>2, <1>4 DEF Jb
  <2>8. LastSlot(jb') = LastSlot(jb)
    <3>1. LastSlot(jb') = jb'.slot[At(i - 1)] /\ LastSlot(jb) = jb.slot[At(i - 1)]
      BY <2>1, <2>2 DEF LastSlot, PreviousInPos, At
    <3>2. jb'.slot[At(i - 1)] = c.slot[At(i - 1)]
      BY <2>1, <2>2, <2>4, <1>2, <1>4, <1>7 DEF Jb
    <3>3. c.slot[At(i - 1)] = jb.slot[At(i - 1)]
      BY <2>0, <1>2, <1>4, <1>6, <1>7 DEF Jb
    <3> QED BY <3>1, <3>2, <3>3
  <2> DEFINE m == n - 1
  <2>9. m \in 1..n /\ Ring(jb', m - 1, last) /\ played' = IF m = 1 THEN NoSeq ELSE jb.slot[At(i - m)].seq
    BY <2>0, <2>1, <2>2, <2>6
  <2> HIDE DEF m, n, last
  <2> QED BY <2>7, <2>8, <2>9 DEF n, last
<1> QED BY <1>8, <1>9

(***************************************************************************)
(* The invariant is preserved, one lemma per action.                       *)
(***************************************************************************)

\* The record source, and what was played.
SourceOK ==
    source \in [set : BOOLEAN, ssrc : Ssrc \cup {NoSsrc},
                probation : -2..MaxProbation, old : Ssrc \cup {NoSsrc}]
PlayedOK == played \in 0..(SeqMod - 1) \cup {NoSeq}
StreamOK ==
    /\ tran \in [Ssrc -> [count : Nat, odd : Nat, seq : 0..(SeqMod - 1), time : 0..(TimeMod - 1)]]
    /\ sent \subseteq Packet

LEMMA TypeParts ==
    ASSUME jb \in Jb
    PROVE  TypeOK <=> StreamOK /\ SourceOK /\ PlayedOK
BY DEF TypeOK, StreamOK, SourceOK, PlayedOK, Jb, Slot

LEMMA InitInv ==
    ASSUME RtpInit
    PROVE  IInv
<1>1. jb \in Jb /\ RingInv /\ Count(jb) = 0
  <2>1. Ring(EmptyJb, 0, 0)
    BY RingFresh
  <2>2. jb = EmptyJb
    BY DEF RtpInit
  <2>3. RingOf(EmptyJb) /\ Count(EmptyJb) = 0
    BY <2>1, RingOfIntro
  <2>4. EmptyJb \in Jb
    BY <2>1 DEF Ring
  <2> QED BY <2>2, <2>3, <2>4 DEF RingInv
<1>2. StreamOK /\ SourceOK /\ PlayedOK
  BY Sizes, RtpSentAssumption, RtpNoneAssumption DEF RtpInit, StreamOK, SourceOK, PlayedOK
<1>3. StreamInv
  <2>1. sent = {} /\ tran = [s \in Ssrc |-> [count |-> 0, odd |-> 0, seq |-> SeqStart[s], time |-> 0]]
    BY DEF RtpInit
  <2>2. \A s \in Ssrc : /\ tran[s].count <= MaxSent[s]
                        /\ tran[s].seq = Num(SeqStart[s] + tran[s].count)
                        /\ tran[s].time <= 2 * (SampleSize * tran[s].count)
    <3> TAKE s \in Ssrc
    <3>1. /\ tran[s].count = 0 /\ tran[s].seq = SeqStart[s] /\ tran[s].time = 0
          /\ SeqStart[s] \in 0..(SeqMod - 1) /\ MaxSent[s] \in Nat
      BY <2>1, RtpSentAssumption
    <3>2. SeqStart[s] + 0 = SeqStart[s] /\ 2 * (SampleSize * 0) = 0
      BY <3>1, Sizes
    <3> QED BY <3>1, <3>2, NumSmall
  <2> QED BY <2>1, <2>2 DEF StreamInv
<1>4. LastInv
  BY <1>1 DEF LastInv, LastOf
<1>5. VoiceInv /\ PlayedInv
  BY DEF RtpInit, VoiceInv, PlayedInv, PlayedOf
<1> QED BY <1>1, <1>2, <1>3, <1>4, <1>5, TypeParts DEF IInv

\* A transmitter's stream goes on: the next number, and a time at least one
\* sample later that has not wrapped.
LEMMA TransmitStream ==
    ASSUME IInv, NoEvents, NumbersFit, TimesFit,
           NEW s \in Ssrc, NEW kind \in Kind, NEW pause \in {0, 1}, Transmit(s, kind, pause)
    PROVE  StreamOK' /\ StreamInv' /\ sent \subseteq sent'
<1> DEFINE n == tran[s].count
           T == tran[s].time
           seq == (tran[s].seq + 1) % SeqMod
           time == (T + SampleSize * (pause + 1)) % TimeMod
           r == [ssrc |-> s, seq |-> seq, time |-> time, kind |-> kind]
<1>1. StreamOK /\ StreamInv
  BY TypeParts DEF IInv, RingInv, RingOf, Ring
<1>2. /\ n \in Nat /\ T \in Nat /\ tran[s].seq \in 0..(SeqMod - 1) /\ tran[s].odd \in Nat
      /\ MaxSent[s] \in Nat /\ SeqStart[s] \in 0..(SeqMod - 1) /\ n < MaxSent[s]
      /\ tran[s].seq = Num(SeqStart[s] + n) /\ T <= 2 * (SampleSize * n)
      /\ 2 * MaxSent[s] + JbSize <= SeqMod /\ 4 * (SampleSize * MaxSent[s]) < TimeMod
  BY <1>1, RtpSentAssumption, Sizes DEF StreamOK, StreamInv, NumbersFit, TimesFit, Transmit
<1>3. kind # "event"
  BY DEF NoEvents
<1>4. seq = Num(SeqStart[s] + (n + 1)) /\ seq \in 0..(SeqMod - 1)
  <2>1. SeqStart[s] + n \in Int /\ (SeqStart[s] + n) + 1 = SeqStart[s] + (n + 1)
        /\ SeqStart[s] + (n + 1) \in Int
    BY <1>2, Sizes
  <2>2. Num(Num(SeqStart[s] + n) + 1) = Num((SeqStart[s] + n) + 1)
    BY <2>1, NumAdd
  <2>3. seq = Num(tran[s].seq + 1)
    BY DEF Num
  <2>4. seq = Num(SeqStart[s] + (n + 1))
    BY <2>1, <2>2, <2>3, <1>2
  <2> QED BY <2>1, <2>4, NumType
<1>5. /\ time = T + SampleSize * (pause + 1) /\ time \in 0..(TimeMod - 1)
      /\ T + SampleSize <= time /\ time <= 2 * (SampleSize * (n + 1))
  <2>1. SampleSize * (n + 1) = SampleSize * n + SampleSize /\ SampleSize * n \in Nat
    BY <1>2, Sizes
  <2>2. SampleSize * (n + 1) <= SampleSize * MaxSent[s] /\ SampleSize * MaxSent[s] \in Nat
    BY <1>2, Sizes
  <2>3. SampleSize * (pause + 1) \in {SampleSize, 2 * SampleSize}
    BY Sizes
  <2> DEFINE w == T + SampleSize * (pause + 1)
  <2>4. w \in 0..(TimeMod - 1) /\ T + SampleSize <= w /\ w <= 2 * (SampleSize * (n + 1))
    BY <2>1, <2>2, <2>3, <1>2, Sizes
  <2>5. w % TimeMod = w
    <3> HIDE DEF w
    <3> QED BY <2>4, ModSmall, Sizes
  <2> QED BY <2>4, <2>5
<1> DEFINE new == [count |-> n + 1,
                   odd |-> IF kind # "voice" \/ pause > 0 THEN tran[s].odd + 1 ELSE tran[s].odd,
                   seq |-> seq, time |-> time]
<1>6. tran' = [tran EXCEPT ![s] = new] /\ sent' = sent \cup {r}
  BY <1>3 DEF Transmit
<1>7. /\ tran'[s].count = n + 1 /\ tran'[s].seq = seq /\ tran'[s].time = time
      /\ \A x \in Ssrc : x # s => tran'[x] = tran[x]
      /\ tran' \in [Ssrc -> [count : Nat, odd : Nat, seq : 0..(SeqMod - 1), time : 0..(TimeMod - 1)]]
  <2> DEFINE Rec == [count : Nat, odd : Nat, seq : 0..(SeqMod - 1), time : 0..(TimeMod - 1)]
  <2>1. tran \in [Ssrc -> Rec] /\ tran[s] \in Rec
    BY <1>1 DEF StreamOK
  <2> HIDE DEF T, seq, time
  <2>2. new \in Rec /\ new.count = n + 1 /\ new.seq = seq /\ new.time = time
    BY <2>1, <1>4, <1>5
  <2> HIDE DEF new, Rec, n
  <2> QED BY <2>1, <2>2, <1>6 DEF Rec
<1> HIDE DEF n, T, seq, time, new
<1>8. r \in Packet
  BY <1>4, <1>5 DEF Packet
<1>9. StreamOK'
  BY <1>1, <1>6, <1>7, <1>8 DEF StreamOK
<1>10. Index(r) = n + 1
  <2>1. n + 1 \in 0..(SeqMod - 1) /\ SeqStart[s] + (n + 1) \in Int /\ -SeqStart[s] \in Int
        /\ (SeqStart[s] + (n + 1)) + (-SeqStart[s]) = n + 1 /\ seq - SeqStart[s] = seq + (-SeqStart[s])
    BY <1>2, <1>4, Sizes
  <2>2. Num(Num(SeqStart[s] + (n + 1)) + (-SeqStart[s])) = Num((SeqStart[s] + (n + 1)) + (-SeqStart[s]))
    BY <2>1, NumAdd, Zenon
  <2> QED BY <2>1, <2>2, <1>4, NumSmall DEF Index
<1>11. r.ssrc = s /\ r.time = time /\ SampleSize * 0 = 0
  BY Sizes
<1> HIDE DEF r
\* An old packet of s, seen from the new one.
<1>12. ASSUME NEW q \in sent, q.ssrc = s
       PROVE  /\ Index(q) \in 1..n /\ q.time \in Nat
              /\ q.time + SampleSize * ((n + 1) - Index(q)) <= time
  <2>1. Index(q) \in 1..n /\ q.time + SampleSize * (n - Index(q)) <= T
    <3>1. /\ Index(q) \in 1..tran[q.ssrc].count
          /\ q.time + SampleSize * (tran[q.ssrc].count - Index(q)) <= tran[q.ssrc].time
      BY <1>1 DEF StreamInv
    <3> QED BY <3>1, <1>12 DEF n, T
  <2>2. q.time \in Nat
    BY <1>1 DEF StreamOK, Packet
  <2>3. SampleSize * ((n + 1) - Index(q)) = SampleSize * (n - Index(q)) + SampleSize
    BY <2>1, <1>2, Sizes
  <2>4. SampleSize * (n - Index(q)) \in Int
    BY <2>1, <1>2, Sizes
  <2> QED BY <2>1, <2>2, <2>3, <2>4, <1>2, <1>5, Sizes
<1>13. \A x \in Ssrc : /\ tran'[x].count <= MaxSent[x]
                       /\ tran'[x].seq = Num(SeqStart[x] + tran'[x].count)
                       /\ tran'[x].time <= 2 * (SampleSize * tran'[x].count)
  <2> TAKE x \in Ssrc
  <2>1. CASE x = s
    <3>1. n + 1 <= MaxSent[s]
      BY <1>2
    <3> QED BY <2>1, <3>1, <1>4, <1>5, <1>7
  <2>2. CASE x # s
    BY <2>2, <1>1, <1>7 DEF StreamInv
  <2> QED BY <2>1, <2>2
<1>14. \A q \in sent' :
          /\ Index(q) \in 1..tran'[q.ssrc].count
          /\ q.time + SampleSize * (tran'[q.ssrc].count - Index(q)) <= tran'[q.ssrc].time
  <2> TAKE q \in sent'
  <2>1. CASE q = r
    <3>1. n + 1 \in 1..(n + 1) /\ (n + 1) - (n + 1) = 0 /\ time + 0 <= time
      BY <1>2, <1>5, Sizes
    <3> QED BY <2>1, <3>1, <1>7, <1>10, <1>11
  <2>2. CASE q \in sent /\ q.ssrc = s
    <3>1. Index(q) \in 1..(n + 1)
      BY <2>2, <1>2, <1>12
    <3> QED BY <2>2, <3>1, <1>7, <1>12
  <2>3. CASE q \in sent /\ q.ssrc # s
    <3>1. q.ssrc \in Ssrc
      BY <2>3, <1>1 DEF StreamOK, Packet
    <3> QED BY <2>3, <3>1, <1>1, <1>7 DEF StreamInv
  <2> QED BY <2>1, <2>2, <2>3, <1>6
<1>15. \A p, q \in sent' :
          p.ssrc = q.ssrc /\ Index(q) <= Index(p)
          => q.time + SampleSize * (Index(p) - Index(q)) <= p.time
  <2> TAKE p, q \in sent'
  <2> HAVE p.ssrc = q.ssrc /\ Index(q) <= Index(p)
  <2>1. CASE p \in sent /\ q \in sent
    BY <2>1, <1>1 DEF StreamInv
  <2>2. CASE p = r /\ q = r
    <3>1. (n + 1) - (n + 1) = 0 /\ time + 0 <= time
      BY <1>2, <1>5, Sizes
    <3> QED BY <2>2, <3>1, <1>10, <1>11
  <2>3. CASE p = r /\ q \in sent
    BY <2>3, <1>10, <1>11, <1>12
  <2>4. CASE p \in sent /\ q = r
    <3>1. Index(p) \in 1..n
      BY <2>4, <1>11, <1>12
    <3> QED BY <2>4, <3>1, <1>2, <1>10
  <2> QED BY <2>1, <2>2, <2>3, <2>4, <1>6
<1>16. StreamInv'
  <2>1. (\A q : Index(q)' = Index(q)) /\ MaxSent' = MaxSent /\ SeqStart' = SeqStart
    BY DEF Index, Num
  <2> QED BY <2>1, <1>13, <1>14, <1>15 DEF StreamInv, Index, Num
<1> QED BY <1>9, <1>16, <1>6

\* The invariant of the next state, from its parts.
LEMMA NextInv ==
    ASSUME StreamOK', SourceOK', PlayedOK', StreamInv', RingOf(jb'), LastOf(jb)',
           source'.set => VoiceOf(jb', source'.ssrc), PlayedOf(jb', played')
    PROVE  IInv'
<1>1. jb' \in Jb
  BY DEF RingOf, Ring
<1>2. TypeOK'
  BY <1>1 DEF TypeOK, StreamOK, SourceOK, PlayedOK, Jb, Slot
<1>3. RingInv' /\ VoiceInv' /\ PlayedInv' /\ LastInv'
  BY DEF RingInv, VoiceInv, PlayedInv, LastInv
<1> QED BY <1>2, <1>3 DEF IInv

LEMMA Parts ==
    ASSUME IInv
    PROVE  /\ TypeOK /\ StreamOK /\ SourceOK /\ PlayedOK /\ StreamInv /\ RingOf(jb) /\ LastOf(jb)
           /\ source.set => VoiceOf(jb, source.ssrc)
           /\ PlayedOf(jb, played)
BY TypeParts DEF IInv, RingInv, LastInv, VoiceInv, PlayedInv, RingOf, Ring

\* The buffer stays as it is, and no packet is forgotten.
LEMMA SameBuffer ==
    ASSUME IInv, StreamOK', StreamInv', SourceOK', sent \subseteq sent', jb' = jb, played' = played,
           source'.set => source.set /\ source'.ssrc = source.ssrc
    PROVE  IInv'
<1>1. PlayedOK'
  BY Parts DEF PlayedOK
<1>2. LastOf(jb)'
  BY Parts DEF LastOf, Index, Num, LastSlot, PreviousInPos, Count, Lead, VoiceSlot
<1>3. RingOf(jb') /\ (source'.set => VoiceOf(jb', source'.ssrc)) /\ PlayedOf(jb', played')
  BY Parts
<1> QED BY <1>1, <1>2, <1>3, NextInv

LEMMA TransmitInv ==
    ASSUME IInv, NoEvents, NumbersFit, TimesFit,
           NEW s \in Ssrc, NEW kind \in Kind, NEW pause \in {0, 1}, Transmit(s, kind, pause)
    PROVE  IInv'
<1>1. jb' = jb /\ played' = played /\ source' = source
  BY DEF Transmit
<1>2. SourceOK'
  BY <1>1, Parts DEF SourceOK
<1> QED BY <1>1, <1>2, TransmitStream, SameBuffer

\* What the actions of the receiver leave alone.
LEMMA SameStream ==
    ASSUME IInv, tran' = tran, sent' = sent
    PROVE  StreamOK' /\ StreamInv' /\ \A b : LastOf(b)' <=> LastOf(b)
BY Parts DEF StreamOK, StreamInv, LastOf, Index, Num

LEMMA RefuseInv ==
    ASSUME IInv, NEW p \in sent, RefuseStranger(p)
    PROVE  IInv'
<1>1. SourceOK'
  BY Parts, Sizes DEF SourceOK, RefuseStranger
<1>2. tran' = tran /\ sent' = sent /\ jb' = jb /\ played' = played
      /\ source'.set = source.set /\ source'.ssrc = source.ssrc
  BY Parts DEF RefuseStranger, SourceOK
<1> QED BY <1>1, <1>2, SameStream, SameBuffer

LEMMA ByeInv ==
    ASSUME IInv, RtcpBye
    PROVE  IInv'
<1>1. SourceOK'
  BY Parts, Sizes DEF SourceOK, RtcpBye
<1>2. tran' = tran /\ sent' = sent /\ jb' = jb /\ played' = played /\ ~ source'.set
  BY DEF RtcpBye
<1> QED BY <1>1, <1>2, SameStream, SameBuffer

\* A packet of the source, or of the next source.
LEMMA AcceptInv ==
    ASSUME IInv, NumbersFit, TimesFit, NEW p \in sent, Accept(p)
    PROVE  IInv'
<1> DEFINE b == Initialised(p)
<1>0. tran' = tran /\ sent' = sent /\ p.ssrc \in Ssrc
  BY Parts DEF Accept, StreamOK, Packet
<1>1. SourceOK' /\ source'.ssrc = p.ssrc
  BY <1>0, Parts, Sizes DEF SourceOK, Accept, FromStranger
<1>2. (b = EmptyJb /\ Count(b) = 0) \/ (b = jb /\ ~ FromStranger(p))
  <2>1. Ring(EmptyJb, 0, 0)
    BY RingFresh
  <2>2. Count(EmptyJb) = 0
    BY <2>1, RingCount
  <2> QED BY <2>2 DEF Initialised
<1>3. RingOf(b) /\ LastOf(b) /\ VoiceOf(b, p.ssrc) /\ (b = jb \/ Count(b) = 0)
  <2>1. CASE b = EmptyJb /\ Count(b) = 0
    <3>1. RingOf(EmptyJb)
      BY RingFresh, RingOfIntro
    <3>2. LastOf(b)
      BY <2>1 DEF LastOf
    <3> QED BY <2>1, <3>1, <3>2, VoiceFresh
  <2>2. CASE b = jb /\ ~ FromStranger(p)
    BY <2>2, Parts DEF FromStranger
  <2> QED BY <1>2, <2>1, <2>2
<1> HIDE DEF b
<1>4. CASE p.kind = "cn"
  <2>1. jb' = b
    BY <1>4 DEF Accept, b
  <2>2. PlayedOK' /\ PlayedOf(jb', played')
    <3>1. CASE FromStranger(p)
      <4>1. b = EmptyJb /\ Count(b) = 0
        BY <1>2, <3>1
      <4>2. played' = NoSeq
        BY <4>1, <3>1 DEF Accept, PlayedAfter, b
      <4> QED BY <4>2 DEF PlayedOK, PlayedOf
    <3>2. CASE ~ FromStranger(p)
      <4>1. played' = played /\ b = jb
        BY <1>4, <3>2 DEF Accept, Initialised, b
      <4> QED BY <4>1, <2>1, Parts DEF PlayedOK
    <3> QED BY <3>1, <3>2
  <2>3. LastOf(jb)'
    BY <2>1, <1>0, <1>3, SameStream DEF LastOf, Index, Num, LastSlot, PreviousInPos, Count, Lead, VoiceSlot
  <2> QED BY <2>1, <2>2, <2>3, <1>0, <1>1, <1>3, SameStream, NextInv
<1>5. CASE p.kind # "cn"
  <2>1. jb' = Buffered(b, p) /\ played' = PlayedAfter(b, p)
    BY <1>5 DEF Accept, b
  <2>2. /\ RingOf(jb') /\ LastOf(jb') /\ VoiceOf(jb', p.ssrc)
        /\ \A x \in 0..(SeqMod - 1) :
              PlayedOf(b, x) => Count(b) = 0 \/ Early(b, p) \/ PlayedOf(jb', x)
    BY <2>1, <1>3, Parts, Buffering
  <2>3. PlayedOK' /\ PlayedOf(jb', played')
    <3>1. CASE played' = NoSeq
      BY <3>1 DEF PlayedOK, PlayedOf
    <3>2. CASE played' # NoSeq
      <4>1. Count(b) # 0 /\ ~ Early(b, p) /\ played' = played
        BY <2>1, <3>2 DEF PlayedAfter
      <4>2. b = jb /\ played \in 0..(SeqMod - 1)
        BY <4>1, <3>2, <1>3, Parts DEF PlayedOK
      <4> QED BY <4>1, <4>2, <2>2, Parts DEF PlayedOK
    <3> QED BY <3>1, <3>2
  <2>4. LastOf(jb)'
    BY <2>2, <1>0 DEF LastOf, Index, Num, LastSlot, PreviousInPos, Count, Lead, VoiceSlot
  <2> QED BY <2>2, <2>3, <2>4, <1>0, <1>1, SameStream, NextInv
<1> QED BY <1>4, <1>5

LEMMA RetrieveInv ==
    ASSUME IInv, NumbersFit, Retrieve
    PROVE  IInv'
<1> DEFINE n == Count(jb)
           last == LastSlot(jb).seq
           I == Index(LastSlot(jb))
<1>0. tran' = tran /\ sent' = sent /\ source'.set = source.set /\ source'.ssrc = source.ssrc /\ SourceOK'
  BY Parts, Sizes DEF Retrieve, SourceOK
<1>1. PICK m \in 1..n :
              /\ Ring(jb', m - 1, last)
              /\ \A i \in Pos : jb'.slot[i] = jb.slot[i] \/ jb'.slot[i] = FreeSlot
              /\ m > 1 => LastSlot(jb') = LastSlot(jb)
              /\ played' = IF m = 1 THEN NoSeq ELSE jb.slot[At(jb.inPos - m)].seq
  BY Parts, Retrieved
<1>2. /\ jb \in Jb /\ n \in 1..JbSize /\ m \in 1..JbSize /\ m - 1 \in Int /\ m \in Int
      /\ jb.inPos \in Int /\ Ring(jb, n, last)
  <2>1. jb \in Jb /\ n \in 0..JbSize /\ Ring(jb, n, last)
    BY Parts DEF RingOf, Ring
  <2> QED BY <2>1, <1>1, Sizes DEF Jb, Pos
<1>3. \A k \in 1..JbSize : jb.slot[At(jb.inPos - k)].seq \in 0..(SeqMod - 1)
  <2> TAKE k \in 1..JbSize
  <2>1. jb.inPos - k \in Int
    BY <1>2, Sizes
  <2>2. jb.slot[At(jb.inPos - k)] \in Slot
    BY <2>1, <1>2, AtType DEF Jb
  <2> QED BY <2>2 DEF Slot
<1>4. last \in 0..(SeqMod - 1) /\ last \in Int
  <2>1. last = jb.slot[At(jb.inPos - 1)].seq /\ 1 \in 1..JbSize
    BY Sizes DEF LastSlot, PreviousInPos, At
  <2> QED BY <2>1, <1>3, Sizes
<1>5. n <= I + Lead /\ (\E q \in sent : LastSlot(jb) = VoiceSlot(q)) /\ I \in Int
  <2>1. n > 0
    BY <1>2, Sizes
  <2>2. n <= I + Lead /\ \E q \in sent : LastSlot(jb) = VoiceSlot(q)
    BY <2>1, Parts DEF LastOf
  <2>3. PICK q \in sent : LastSlot(jb) = VoiceSlot(q)
    BY <2>2
  <2>4. I = Index(q) /\ Index(q) \in Int
    BY <2>3, VoiceFields, Parts, SentFacts, Sizes
  <2> QED BY <2>2, <2>4
<1>6. RingOf(jb') /\ Count(jb') = m - 1
  <2> HIDE DEF last
  <2> QED BY <1>1, <1>4, RingOfIntro
<1>7. LastOf(jb')
  <2>1. CASE m = 1
    BY <2>1, <1>6 DEF LastOf
  <2>2. CASE m > 1
    <3>1. m - 1 <= I + Lead
      BY <1>1, <1>2, <1>5, Sizes
    <3> QED BY <2>2, <3>1, <1>1, <1>5, <1>6 DEF LastOf
  <2> QED BY <2>1, <2>2, <1>1
<1>8. \A s : VoiceOf(jb, s) => VoiceOf(jb', s)
  BY <1>1, FreeType DEF VoiceOf
<1>9. PlayedOK' /\ PlayedOf(jb', played')
  <2>1. CASE m = 1
    BY <2>1, <1>1 DEF PlayedOK, PlayedOf
  <2>2. CASE m > 1
    <3>1. played' = jb.slot[At(jb.inPos - m)].seq /\ LastSlot(jb') = LastSlot(jb)
      BY <2>2, <1>1, <1>2
    <3>2. played' = Num(last - (m - 1)) /\ played' \in 0..(SeqMod - 1)
      <4>1. m <= n
        BY <1>1
      <4>2. jb.slot[At(jb.inPos - m)].seq = Num(last - (m - 1))
        BY <4>1, <1>2 DEF Ring
      <4> QED BY <3>1, <4>2, <1>2, <1>3
    <3>3. Num(last - played') = m - 1
      <4> DEFINE y == last - (m - 1)
      <4>1. y \in Int /\ last - y = m - 1 /\ m - 1 \in 0..(SeqMod - 1)
        BY <1>2, <1>4, Sizes
      <4>2. Num(last - Num(y)) = Num(last - y)
        <5> HIDE DEF y, last
        <5> QED BY <4>1, <1>4, NumSub
      <4> QED BY <4>1, <4>2, <3>2, NumSmall
    <3>4. m - 1 \in (m - 1)..(I + Lead) /\ m - 1 > 0
      BY <2>2, <1>1, <1>2, <1>5, Sizes
    <3> QED BY <3>1, <3>2, <3>3, <3>4, <1>6 DEF PlayedOK, PlayedOf
  <2> QED BY <2>1, <2>2, <1>1
<1>10. LastOf(jb)'
  BY <1>7, <1>0 DEF LastOf, Index, Num, LastSlot, PreviousInPos, Count, Lead, VoiceSlot
<1>11. source'.set => VoiceOf(jb', source'.ssrc)
  BY <1>0, <1>8, Parts
<1> QED BY <1>0, <1>6, <1>9, <1>10, <1>11, SameStream, NextInv

(***************************************************************************)
(* The queue, from the slot played next to the newest.                     *)
(***************************************************************************)

QueueOf(b) == [k \in 0..(Count(b) - 1) |-> b.slot[(b.playPos + k) % JbSize]]
VoiceIn(b) == {QueueOf(b)[k].seq : k \in {i \in DOMAIN QueueOf(b) : ~QueueOf(b)[i].silence}}

LEMMA QueueSlots ==
    ASSUME NEW b, NEW n, NEW last \in Int, Ring(b, n, last)
    PROVE  /\ DOMAIN QueueOf(b) = 0..(n - 1) /\ n \in 0..JbSize
           /\ \A k \in 0..(n - 1) :
                 /\ n - k \in 1..n
                 /\ QueueOf(b)[k] = b.slot[At(b.inPos - (n - k))]
                 /\ QueueOf(b)[k].seq = Num(last - ((n - k) - 1))
           /\ \A j \in 1..n :
                 /\ n - j \in 0..(n - 1)
                 /\ QueueOf(b)[n - j] = b.slot[At(b.inPos - j)]
<1>1. Count(b) = n /\ n \in 0..JbSize /\ b \in Jb /\ b.playPos = At(b.inPos - n) /\ b.inPos \in Int
  <2>1. Count(b) = n
    BY RingCount
  <2>2. n \in 0..JbSize /\ b \in Jb /\ b.playPos = At(b.inPos - n)
    BY DEF Ring
  <2> QED BY <2>1, <2>2, Sizes DEF Jb, Pos
<1>2. DOMAIN QueueOf(b) = 0..(n - 1)
  BY <1>1 DEF QueueOf
<1>3. ASSUME NEW k \in 0..(n - 1)
      PROVE  /\ n - k \in 1..n /\ n - k \in 1..JbSize
             /\ QueueOf(b)[k] = b.slot[At(b.inPos - (n - k))]
             /\ QueueOf(b)[k].seq = Num(last - ((n - k) - 1))
  <2>1. n - k \in 1..n /\ n - k \in 1..JbSize /\ b.inPos - n \in Int /\ k \in Int
        /\ (b.inPos - n) + k = b.inPos - (n - k)
    BY <1>1, Sizes
  <2>2. At(At(b.inPos - n) + k) = At((b.inPos - n) + k)
    BY <2>1, AtAdd, Zenon
  <2>3. QueueOf(b)[k] = b.slot[At(b.playPos + k)]
    BY <1>1 DEF QueueOf, At
  <2>4. QueueOf(b)[k] = b.slot[At(b.inPos - (n - k))]
    BY <2>1, <2>2, <2>3, <1>1
  <2>5. n - k <= n
    BY <2>1, <1>1
  <2>6. b.slot[At(b.inPos - (n - k))].seq = Num(last - ((n - k) - 1))
    BY <2>1, <2>5 DEF Ring
  <2> QED BY <2>1, <2>4, <2>6
<1>4. ASSUME NEW j \in 1..n
      PROVE  n - j \in 0..(n - 1) /\ QueueOf(b)[n - j] = b.slot[At(b.inPos - j)]
  <2>1. n - j \in 0..(n - 1) /\ n - (n - j) = j
    BY <1>1, Sizes
  <2>2. QueueOf(b)[n - j] = b.slot[At(b.inPos - (n - (n - j)))]
    BY <2>1, <1>3
  <2> QED BY <2>1, <2>2
<1> QED BY <1>1, <1>2, <1>3, <1>4

LEMMA VoiceSlots ==
    ASSUME NEW b, NEW n, NEW last \in Int, Ring(b, n, last), NEW s
    PROVE  s \in VoiceIn(b) <=>
              \E j \in 1..n : ~ b.slot[At(b.inPos - j)].silence /\ s = Num(last - (j - 1))
<1>1. s \in VoiceIn(b) <=> \E k \in 0..(n - 1) : ~ QueueOf(b)[k].silence /\ s = QueueOf(b)[k].seq
  BY QueueSlots DEF VoiceIn
<1>2. ASSUME NEW k \in 0..(n - 1), ~ QueueOf(b)[k].silence, s = QueueOf(b)[k].seq
      PROVE  \E j \in 1..n : ~ b.slot[At(b.inPos - j)].silence /\ s = Num(last - (j - 1))
  <2>1. /\ n - k \in 1..n /\ QueueOf(b)[k] = b.slot[At(b.inPos - (n - k))]
        /\ QueueOf(b)[k].seq = Num(last - ((n - k) - 1))
    BY QueueSlots
  <2> QED BY <2>1, <1>2
<1>3. ASSUME NEW j \in 1..n, ~ b.slot[At(b.inPos - j)].silence, s = Num(last - (j - 1))
      PROVE  \E k \in 0..(n - 1) : ~ QueueOf(b)[k].silence /\ s = QueueOf(b)[k].seq
  <2>1. n - j \in 0..(n - 1) /\ QueueOf(b)[n - j] = b.slot[At(b.inPos - j)] /\ n \in 0..JbSize
    BY QueueSlots
  <2>2. n - (n - j) = j
    BY <2>1, Sizes
  <2>3. QueueOf(b)[n - j].seq = Num(last - ((n - (n - j)) - 1))
    <3>1. \A k \in 0..(n - 1) : QueueOf(b)[k].seq = Num(last - ((n - k) - 1))
      BY QueueSlots
    <3> QED BY <2>1, <3>1, Zenon
  <2> QED BY <2>1, <2>2, <2>3, <1>3
<1> QED BY <1>1, <1>2, <1>3

\* Every number of the queue is ahead of y, when its oldest number is and its
\* newest is not too far ahead.
LEMMA AllAhead ==
    ASSUME NEW b, NEW n, NEW last \in Int, Ring(b, n, last), NEW y \in Int,
           last - (n - 1) > y, 2 * (last - y) < SeqMod
    PROVE  \A k \in DOMAIN QueueOf(b) : RtpSeqGreater(QueueOf(b)[k].seq, Num(y))
<1>0. DOMAIN QueueOf(b) = 0..(n - 1) /\ n \in 0..JbSize
  BY QueueSlots
<1> SUFFICES ASSUME NEW k \in 0..(n - 1)
             PROVE  RtpSeqGreater(QueueOf(b)[k].seq, Num(y))
  BY <1>0
<1> DEFINE x == last - ((n - k) - 1)
<1>1. x \in Int /\ x > y /\ 2 * (x - y) < SeqMod /\ 2 * (y - x) < SeqMod
  BY <1>0, Sizes
<1>2. QueueOf(b)[k].seq = Num(x)
  BY QueueSlots
<1> HIDE DEF x
<1>3. RtpSeqDifference(Num(x), Num(y)) = x - y
  BY <1>1, SeqDiff
<1> QED BY <1>1, <1>2, <1>3 DEF RtpSeqGreater

\* Voice is only lost at the old end of the queue.
LEMMA BufferingKeeps ==
    ASSUME TypeOK, StreamInv, NumbersFit, TimesFit, NEW p \in sent,
           NEW b, RingOf(b), LastOf(b), VoiceOf(b, p.ssrc),
           NEW c, c = Buffered(b, p), NEW s \in VoiceIn(b), s \notin VoiceIn(c)
    PROVE  \A k \in DOMAIN QueueOf(c) : RtpSeqGreater(QueueOf(c)[k].seq, s)
<1> DEFINE n == Count(b)
<1>1. /\ p \in Packet /\ Index(p) \in 1..MaxSent[p.ssrc] /\ MaxSent[p.ssrc] \in Nat
      /\ SeqStart[p.ssrc] \in Int /\ 2 * (MaxSent[p.ssrc] + Lead) < SeqMod
      /\ p.seq = Num(SeqStart[p.ssrc] + Index(p)) /\ p.seq \in Int /\ Index(p) \in Int
      /\ n \in 0..JbSize /\ Lead \in Nat /\ SeqStart[p.ssrc] + Index(p) \in Int
  <2>1. n \in 0..JbSize
    BY DEF RingOf, Ring
  <2> QED BY <2>1, SentFacts, Sizes
<1>2. n > 0
  <2>1. LastSlot(b).seq \in Int
    <3>1. b.inPos - 1 \in Int /\ b \in Jb
      BY Sizes DEF RingOf, Ring, Jb, Pos
    <3>2. b.slot[At(b.inPos - 1)] \in Slot
      BY <3>1, AtType DEF Jb
    <3> QED BY <3>2, Sizes DEF Slot, LastSlot, PreviousInPos, At
  <2>2. \E j \in 1..n : TRUE
    BY <2>1, VoiceSlots DEF RingOf
  <2> QED BY <2>2, <1>1, Sizes
<1>3. PICK q \in sent : /\ q.ssrc = p.ssrc
                        /\ LastSlot(b) = VoiceSlot(q) /\ LastSlot(b).seq = q.seq
                        /\ Ring(b, n, SeqStart[q.ssrc] + Index(q))
                        /\ n <= Index(q) + Lead
  BY <1>2, Newest
<1> DEFINE last == SeqStart[q.ssrc] + Index(q)
           new == SeqStart[p.ssrc] + Index(p)
           d == Index(p) - Index(q)
<1>4. Index(q) \in 1..MaxSent[p.ssrc] /\ Index(q) \in Int /\ last \in Int /\ new \in Int
      /\ d \in Int /\ new = last + d
  BY <1>1, <1>3, SentFacts, Sizes
<1>5. RtpSeqDifference(p.seq, q.seq) = d
  BY <1>3, SentDiff
<1>6. PICK j \in 1..n : ~ b.slot[At(b.inPos - j)].silence /\ s = Num(last - (j - 1))
  <2> HIDE DEF last, n
  <2>1. Ring(b, n, last)
    BY <1>3 DEF last
  <2> QED BY <2>1, <1>4, VoiceSlots
<1> DEFINE y == last - (j - 1)
<1>7. j \in 1..JbSize /\ j \in Int /\ y \in Int /\ s = Num(y) /\ 2 * (new - y) < SeqMod
  BY <1>1, <1>3, <1>4, <1>6, Sizes
<1>8. CASE Early(b, p)
  <2>1. c = AppendRtpData(Prime(EmptyJb, p), p)
    BY <1>2, <1>8, <1>1 DEF Buffered
  <2>2. Ring(c, Lead + 1, p.seq)
    <3>1. Ring(EmptyJb, 0, 0)
      BY RingFresh
    <3> QED BY <2>1, <3>1, <1>1, FreshBuffered
  <2>3. Ring(c, Lead + 1, new)
    BY <2>2, <1>1, RingNum
  <2>4. new - ((Lead + 1) - 1) > y
    <3>1. d > JbSize
      BY <1>3, <1>5, <1>8 DEF Early
    <3> QED BY <3>1, <1>1, <1>4, <1>6, <1>7, Sizes
  <2> HIDE DEF new, y
  <2> QED BY <2>3, <2>4, <1>4, <1>7, AllAhead
<1>9. CASE ~ Early(b, p) /\ d > 0
  <2>1. d \in 1..JbSize
    BY <1>2, <1>3, <1>4, <1>5, <1>9, Sizes DEF Early
  <2>2. c = AppendRtpData(PatchSilence(b, p), p)
    BY <1>2, <1>3, <1>5, <1>9, <1>1 DEF Buffered, RtpSeqGreater
  <2> DEFINE N == Capped(n + d)
  <2>3. Ring(c, N, new) /\ Shifted(b, c, d)
    <3>1. d = Index(p) - Index(q)
      OBVIOUS
    <3> HIDE DEF n, d
    <3> QED BY <2>1, <2>2, <3>1, <1>3, AheadBuffered
  <2>4. N \in 0..JbSize /\ N = IF n + d > JbSize THEN JbSize ELSE n + d
    BY <2>1, <1>1, <1>4, Sizes DEF Capped
  <2>5. ~ (j + d <= N)
    <3> SUFFICES ASSUME j + d <= N
                 PROVE  FALSE
      OBVIOUS
    <3>1. j + d \in 1..N /\ j + d \in 1..JbSize /\ j + d > d /\ (j + d) - d = j
          /\ new - ((j + d) - 1) = y
      BY <2>1, <2>4, <1>4, <1>6, <1>7, Sizes
    <3>2. c.slot[At(c.inPos - (j + d))] = b.slot[At(b.inPos - ((j + d) - d))]
      BY <2>3, <3>1, Zenon DEF Shifted
    <3>3. ~ c.slot[At(c.inPos - (j + d))].silence
      BY <3>1, <3>2, <1>6
    <3>4. \E k \in 1..N : ~ c.slot[At(c.inPos - k)].silence /\ s = Num(new - (k - 1))
      <4> HIDE DEF new, y, N
      <4> QED BY <3>1, <3>3, <1>7
    <3> HIDE DEF new, N
    <3> QED BY <3>4, <2>3, <1>4, VoiceSlots
  <2>6. new - (N - 1) > y
    BY <2>1, <2>4, <2>5, <1>1, <1>4, <1>6, <1>7, Sizes
  <2> HIDE DEF new, y, N
  <2> QED BY <2>3, <2>6, <1>4, <1>7, AllAhead
<1>10. CASE ~ Early(b, p) /\ ~ (d > 0)
  <2>1. c = SetLate(b, p)
    BY <1>2, <1>3, <1>5, <1>10, <1>1 DEF Buffered, RtpSeqGreater
  <2>2. Index(p) <= Index(q)
    BY <1>1, <1>4, <1>10
  <2>3. /\ Ring(c, n, last) /\ c.inPos = b.inPos
        /\ \A i \in Pos : c.slot[i] = b.slot[i] \/ c.slot[i] = VoiceSlot(p)
    <3> HIDE DEF n
    <3> QED BY <2>1, <2>2, <1>2, <1>3, LateBuffered
  <2>4. ~ c.slot[At(c.inPos - j)].silence
    <3>1. b.inPos - j \in Int
      BY <1>7, Sizes DEF RingOf, Ring, Jb, Pos
    <3>2. At(b.inPos - j) \in Pos
      BY <3>1, AtType
    <3> QED BY <3>2, <2>3, <1>6, VoiceFields
  <2>5. s \in VoiceIn(c)
    <3> HIDE DEF last, n
    <3> QED BY <2>3, <2>4, <1>4, <1>6, VoiceSlots
  <2> QED BY <2>5
<1> QED BY <1>8, <1>9, <1>10

(***************************************************************************)
(* The theorems.                                                           *)
(***************************************************************************)

LEMMA Inductive ==
    ASSUME NoEvents, NumbersFit, TimesFit
    PROVE  Spec => []IInv
<1>1. RtpInit => IInv
  BY InitInv
<1>2. IInv /\ [Next]_vars => IInv'
  <2> SUFFICES ASSUME IInv, [Next]_vars
               PROVE  IInv'
    OBVIOUS
  <2>1. CASE \E s \in Ssrc, kind \in Kind, pause \in {0, 1} : Transmit(s, kind, pause)
    BY <2>1, TransmitInv
  <2>2. CASE \E p \in sent : ReadNetwork(p)
    <3>1. PICK p \in sent : ReadNetwork(p)
      BY <2>2
    <3>2. p.kind # "event"
      BY Parts DEF StreamOK, Packet, NoEvents
    <3>3. ~ AcceptEvent(p)
      BY <3>2 DEF AcceptEvent, IsUncheckedEvent
    <3>4. CASE Discard(p)
      <4>1. UNCHANGED vars
        BY <3>4 DEF Discard
      <4>2. SourceOK' /\ sent' = sent /\ tran' = tran
        BY <4>1, Parts DEF vars, SourceOK
      <4> QED BY <4>1, <4>2, SameStream, SameBuffer DEF vars
    <3>5. CASE RefuseStranger(p)
      BY <3>5, RefuseInv
    <3>6. CASE Accept(p)
      BY <3>6, AcceptInv
    <3> QED BY <3>1, <3>3, <3>4, <3>5, <3>6 DEF ReadNetwork
  <2>3. CASE Retrieve
    BY <2>3, RetrieveInv
  <2>4. CASE RtcpBye
    BY <2>4, ByeInv
  <2>5. CASE UNCHANGED vars
    <3>1. SourceOK' /\ sent' = sent /\ tran' = tran
      BY <2>5, Parts DEF vars, SourceOK
    <3> QED BY <2>5, <3>1, SameStream, SameBuffer DEF vars
  <2> QED BY <2>1, <2>2, <2>3, <2>4, <2>5 DEF Next
<1> QED BY <1>1, <1>2, PTL DEF Spec

\* What the queue holds in a state of the invariant.
LEMMA QueueInv ==
    ASSUME IInv
    PROVE  /\ Ring(jb, Count(jb), LastSlot(jb).seq) /\ LastSlot(jb).seq \in 0..(SeqMod - 1)
           /\ Queue = QueueOf(jb) /\ Voice = VoiceIn(jb)
           /\ Count(jb) \in 0..JbSize
<1>1. Ring(jb, Count(jb), LastSlot(jb).seq) /\ jb \in Jb /\ jb.inPos - 1 \in Int /\ Count(jb) \in 0..JbSize
  BY Parts, Sizes DEF RingOf, Ring, Jb, Pos
<1>2. jb.slot[At(jb.inPos - 1)] \in Slot
  BY <1>1, AtType DEF Jb
<1>3. LastSlot(jb) = jb.slot[At(jb.inPos - 1)]
  BY DEF LastSlot, PreviousInPos, At
<1>4. LastSlot(jb).seq \in 0..(SeqMod - 1)
  BY <1>2, <1>3 DEF Slot
<1>5. Queue = QueueOf(jb) /\ Voice = VoiceIn(jb)
  BY DEF Queue, QueueOf, Voice, VoiceIn
<1> QED BY <1>1, <1>4, <1>5

\* The positions, numbers and times stay in their ranges, and a stranger's
\* probation is counted within its limits.
THEOREM TypeCorrect ==
    ASSUME NoEvents, NumbersFit, TimesFit
    PROVE  Spec => []TypeOK
<1>1. IInv => TypeOK
  BY DEF IInv
<1> QED BY <1>1, Inductive, PTL

\* What verifyJbSanity() and retrieve() assert never fails: the slots in use
\* are exactly those between playPos and inPos, for a buffer of any size and
\* whatever the network does to the packets.
THEOREM JbSaneCorrect ==
    ASSUME NoEvents, NumbersFit, TimesFit
    PROVE  Spec => []JbSane
<1>1. IInv => JbSane
  <2> SUFFICES ASSUME IInv, NEW k \in 1..JbSize
               PROVE  jb.slot[PreviousInPos(jb, k)].inUse <=> k <= Count(jb)
    BY DEF JbSane
  <2>1. PreviousInPos(jb, k) = At(jb.inPos - k)
    BY DEF PreviousInPos, At
  <2> QED BY <2>1, QueueInv DEF Ring
<1> QED BY <1>1, Inductive, PTL

\* The slots to be played hold consecutive sequence numbers: the while loop of
\* readNetwork() inserts as much silence as packets are missing, and a late
\* packet finds the slot meant for it.
THEOREM ContiguousCorrect ==
    ASSUME NoEvents, NumbersFit, TimesFit
    PROVE  Spec => []Contiguous
<1>1. IInv => Contiguous
  <2> SUFFICES ASSUME IInv, NEW k \in 1..(Count(jb) - 1)
               PROVE  Queue[k].seq = (Queue[k - 1].seq + 1) % SeqMod
    BY DEF Contiguous
  <2> DEFINE n == Count(jb)
             last == LastSlot(jb).seq
             x == last - ((n - (k - 1)) - 1)
  <2>1. k \in 0..(n - 1) /\ k - 1 \in 0..(n - 1) /\ last \in Int /\ x \in Int
        /\ x + 1 = last - ((n - k) - 1)
    BY QueueInv, Sizes
  <2>2. \A i \in 0..(n - 1) : Queue[i].seq = Num(last - ((n - i) - 1))
    <3>1. Ring(jb, n, last) /\ Queue = QueueOf(jb) /\ last \in Int
      BY QueueInv, Sizes
    <3> HIDE DEF n, last
    <3>2. \A i \in 0..(n - 1) : QueueOf(jb)[i].seq = Num(last - ((n - i) - 1))
      BY <3>1, QueueSlots
    <3> QED BY <3>1, <3>2
  <2>3. Queue[k].seq = Num(x + 1) /\ Queue[k - 1].seq = Num(x)
    BY <2>1, <2>2, Zenon
  <2>4. Num(Num(x) + 1) = Num(x + 1)
    <3> HIDE DEF x
    <3> QED BY <2>1, NumAdd
  <2> QED BY <2>3, <2>4 DEF Num
<1> QED BY <1>1, Inductive, PTL

\* A change of source leaves no voice of the old source to be played.
THEOREM VoiceOfSourceCorrect ==
    ASSUME NoEvents, NumbersFit, TimesFit
    PROVE  Spec => []VoiceOfSource
<1>1. IInv => VoiceOfSource
  <2> SUFFICES ASSUME IInv, source.set, NEW k \in DOMAIN Queue, ~ Queue[k].silence
               PROVE  Queue[k].ssrc = source.ssrc
    BY DEF VoiceOfSource
  <2> DEFINE n == Count(jb)
             last == LastSlot(jb).seq
  <2>1. Ring(jb, n, last) /\ Queue = QueueOf(jb) /\ last \in Int /\ n \in 0..JbSize
    BY QueueInv, Sizes
  <2>2. /\ k \in 0..(n - 1) /\ n - k \in 1..n
        /\ Queue[k] = jb.slot[At(jb.inPos - (n - k))]
    <3> HIDE DEF n, last
    <3>1. k \in 0..(n - 1)
      BY <2>1, QueueSlots
    <3> QED BY <3>1, <2>1, QueueSlots
  <2>3. jb.inPos - (n - k) \in Int /\ n - k \in 1..JbSize /\ n - k <= n
    <3>1. jb \in Jb
      BY <2>1 DEF Ring
    <3>2. jb.inPos \in Int
      BY <3>1, Sizes DEF Jb, Pos
    <3> QED BY <3>2, <2>1, <2>2, Sizes
  <2>4. jb.slot[At(jb.inPos - (n - k))].inUse
    BY <2>1, <2>3 DEF Ring
  <2>5. At(jb.inPos - (n - k)) \in Pos
    BY <2>3, AtType
  <2> QED BY <2>2, <2>4, <2>5, Parts DEF VoiceOf
<1> QED BY <1>1, Inductive, PTL

\* Nothing is played out of order while the buffer does not run empty: all that
\* waits is newer than what retrieve() returned last.
THEOREM PlaysForwardCorrect ==
    ASSUME NoEvents, NumbersFit, TimesFit
    PROVE  Spec => []PlaysForward
<1>1. IInv => PlaysForward
  <2> SUFFICES ASSUME IInv, played # NoSeq
               PROVE  \A k \in DOMAIN Queue : RtpSeqGreater(Queue[k].seq, played)
    BY DEF PlaysForward
  <2> DEFINE n == Count(jb)
             last == LastSlot(jb).seq
             D == Num(last - played)
             y == last - D
  <2>1. Ring(jb, n, last) /\ Queue = QueueOf(jb) /\ last \in Int /\ n \in 0..JbSize
    BY QueueInv, Sizes
  <2>2. played \in 0..(SeqMod - 1) /\ played \in Int
    BY Parts, Sizes DEF PlayedOK
  <2>3. n > 0 /\ D \in n..(Index(LastSlot(jb)) + Lead)
    BY Parts DEF PlayedOf
  <2>4. PICK q \in sent : LastSlot(jb) = VoiceSlot(q)
    BY <2>3, Parts DEF LastOf
  <2>5. /\ Index(LastSlot(jb)) = Index(q) /\ Index(q) \in 1..MaxSent[q.ssrc]
        /\ MaxSent[q.ssrc] \in Nat /\ 2 * (MaxSent[q.ssrc] + Lead) < SeqMod
    BY <2>4, VoiceFields, Parts, SentFacts
  <2>6. D \in Int /\ y \in Int /\ last - (n - 1) > y /\ 2 * (last - y) < SeqMod
    <3>1. last - played \in Int
      BY <2>1, <2>2
    <3>2. D \in Int
      BY <3>1, NumType, Sizes
    <3>3. D >= n /\ D <= MaxSent[q.ssrc] + Lead
      <4> HIDE DEF D, n
      <4> QED BY <3>2, <2>1, <2>3, <2>5, Sizes
    <3>4. y \in Int /\ last - y = D
      <4> HIDE DEF D, last
      <4> QED BY <3>2, <2>1
    <3> HIDE DEF D, last, n, y
    <3> QED BY <3>2, <3>3, <3>4, <2>1, <2>5, Sizes
  <2>7. Num(y) = played
    <3>1. last - played \in Int /\ last - (last - played) = played
      BY <2>1, <2>2
    <3>2. Num(last - Num(last - played)) = Num(last - (last - played))
      BY <3>1, <2>1, NumSub, Zenon
    <3> QED BY <3>1, <3>2, <2>2, NumSmall
  <2> HIDE DEF n, last, y
  <2>8. \A k \in DOMAIN QueueOf(jb) : RtpSeqGreater(QueueOf(jb)[k].seq, Num(y))
    BY <2>1, <2>6, AllAhead
  <2> QED BY <2>1, <2>7, <2>8
<1> QED BY <1>1, Inductive, PTL

\* A packet of the source, late, doubled or early, never destroys voice that is
\* in the buffer, except what is older than all that stays.
THEOREM VoiceKeptCorrect ==
    ASSUME NoEvents, NumbersFit, TimesFit
    PROVE  Spec => VoiceKept
<1> DEFINE A == \A p \in sent :
          (p.kind = "voice" /\ source.set /\ p.ssrc = source.ssrc /\ ReadNetwork(p)) =>
              \A s \in Voice \ Voice' : \A k \in DOMAIN Queue' : RtpSeqGreater(Queue'[k].seq, s)
<1>1. IInv => A
  <2> SUFFICES ASSUME IInv, NEW p \in sent, p.kind = "voice", source.set, p.ssrc = source.ssrc,
                      ReadNetwork(p), NEW s \in Voice \ Voice', NEW k \in DOMAIN Queue'
               PROVE  RtpSeqGreater(Queue'[k].seq, s)
    OBVIOUS
  <2>1. Voice = VoiceIn(jb) /\ Queue' = QueueOf(jb') /\ Voice' = VoiceIn(jb')
    BY QueueInv DEF Queue, Voice, QueueOf, VoiceIn
  <2>2. jb' # jb
    <3>1. jb' = jb => VoiceIn(jb') = VoiceIn(jb)
      BY DEF VoiceIn, QueueOf
    <3> QED BY <2>1, <3>1
  <2>3. Accept(p)
    <3>1. ~ Discard(p)
      BY <2>2 DEF Discard, vars
    <3>2. ~ RefuseStranger(p) /\ ~ AcceptEvent(p)
      BY DEF RefuseStranger, AcceptEvent, IsUncheckedEvent
    <3> QED BY <3>1, <3>2 DEF ReadNetwork
  <2>4. jb' = Buffered(jb, p)
    BY <2>3 DEF Accept, Initialised, FromStranger
  <2>5. VoiceOf(jb, p.ssrc)
    BY Parts
  <2>6. \A i \in DOMAIN QueueOf(jb') : RtpSeqGreater(QueueOf(jb')[i].seq, s)
    <3>1. s \in VoiceIn(jb) /\ s \notin VoiceIn(jb')
      BY <2>1
    <3> QED BY <3>1, <2>4, <2>5, Parts, BufferingKeeps
  <2> QED BY <2>1, <2>6
<1>2. IInv => [A]_vars
  BY <1>1
<1> QED BY <1>2, Inductive, PTL DEF VoiceKept

=============================================================================
