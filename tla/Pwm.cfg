SPECIFICATION FairSpec
CONSTANTS
    Programs <- AllPrograms
    SampleRate = 44100
    Samples <- EdgeSamples
    MayBeTaken = TRUE
    WavMayFail = TRUE
INVARIANTS
    TypeOK
    InterruptSilences
    NotesAreClean
PROPERTIES
    WritesTakeEffect
    InterruptEnds
