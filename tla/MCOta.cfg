\* Blocks that may carry patch_len past its width.
CONSTANTS
    Images <- MCImages
    Blocks = {1, 2, 3}
    ElemHdr = 1
    PatchHdr = 2
    Digest = 1
    ImageHdr = 2
    PatchMod = 4
    MaxTransfers = 3
SPECIFICATION MCSpec
INVARIANTS
    OtaInv
    BootOnlyComplete
    CleanCheckPasses
PROPERTIES
    PoisonedForGood
    KeepsUpgrade
CHECK_DEADLOCK FALSE
