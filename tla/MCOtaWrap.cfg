\* Delta files only; a block may carry patch_len past its width.
CONSTANTS
    Images <- MCDelta
    Blocks = {1, 2, 3}
    ElemHdr = 1
    PatchHdr = 2
    Digest = 1
    ImageHdr = 2
    PatchMod = 4
    MaxTransfers = 1
SPECIFICATION MCSpec
INVARIANTS
    WrittenSequentially
CHECK_DEADLOCK FALSE
