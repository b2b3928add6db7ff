SPECIFICATION Spec
CONSTANTS
    Kinds = {"draw"}
    Keys = {1, 2, 3, 4, 5, 6, 7, 8}
    NumShards = 2
    Loc <- MCLoc
    Gap = 2
    LetterRuns <- MCLetterRuns
    NumberRuns <- MCNumberRuns
    SpaceRuns <- MCSpaceRuns
    VocabFile <- MCVocab
    MergesFile <- MCMerges
    AddedFile <- MCAdded
    EosEntry <- MCEos
    EndOfText <- MCEndOfText
    MaxText = 4
    MaxDim = 1073741824
    TwoTo64 = 4096
    Underscored = {"__metadata__", "_old"}
    NumLayers = 2
    FirstKDense = 1
    NumExperts = 2
    Digits <- MCDigits
    MaxTensors = 2
    Vocab = 4
    Masked <- MCMasked
    Reach = 150
    Exp <- MCExp
    Logits <- MCLogits
    Settings <- MCSettings
    Window <- MCWindow
    Lowest <- MCLowest
    Strongest = 8
    MaxSet = 3
CHECK_DEADLOCK FALSE
INVARIANT
    NucleusIsDrawn
