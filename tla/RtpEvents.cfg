\* A talker who sends an event, consumed by the call-back.
SPECIFICATION Spec
CONSTANTS
    s1 = s1
    s2 = s2
    Ssrc = {s1}
    SeqMod = 16
    TimeMod = 32
    SampleSize = 1
    JbSize = 4
    MaxProbation = 1
    Kind = {"voice", "event"}
    DtmfCallback = TRUE
    SeqStart <- StartOne
    MaxSent <- OneTalker
    MaxOdd <- OneEvent
    NoSsrc = NoSsrc
    NoSeq = NoSeq
INVARIANT
    JbSane
