\* A talker whose packets are reordered, and a second one that takes over.
SPECIFICATION Spec
CONSTANTS
    s1 = s1
    s2 = s2
    Ssrc = {s1, s2}
    SeqMod = 16
    TimeMod = 32
    SampleSize = 1
    JbSize = 4
    MaxProbation = 1
    Kind = {"voice", "cn", "other"}
    DtmfCallback = TRUE
    SeqStart <- Start
    MaxSent <- TwoTalkers
    MaxOdd <- OddOfFirst
    NoSsrc = NoSsrc
    NoSeq = NoSeq
INVARIANTS
    TypeOK
    JbSane
    Contiguous
    PlaysForward
    VoiceOfSource
PROPERTIES
    VoiceKept
