SPECIFICATION CodecSpec
CONSTANTS
    Codecs <- AllCodecs
    NewTypes <- Unheard
    Disagreements <- KnownDisagreements
    Refused <- KnownRefused
    MaySendNothing <- KnownSilent
    Brittle <- KnownBrittle
INVARIANTS
    ReadingsSurvive
    OfferedAccepted
    AcceptedSaysSomething
    UnknownKeepsEarlier
