SPECIFICATION XmodemSpec
CONSTANTS
    BlockMod = 4
    MaxRetries = 4
    MaxBlocks = 8
    MaxBytes = 7
    MaxKeys = 5
    MaxPokes = 3
    MaxDamage = 2
INVARIANTS XmodemTypeOK TransferFaithful
PROPERTIES TransferEnds
CHECK_DEADLOCK FALSE
