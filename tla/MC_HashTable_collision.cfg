CONSTANTS
    v1 = v1  v2 = v2  NoValue = NoValue
    Key <- KeysColliding
    Value <- MCValue
    \* hash_new starts with 256 slots; one slot puts the three keys in one bucket, and they fill it before any grow separates them.
    InitSlots = 1
    \* No key here hashes past 2^12, so no reduction modulo 2^64 (or this
    \* smaller modulus, which TLC's integers can hold) changes a hash.
    SizeMod = 1073741824
SPECIFICATION Spec
\* The API can always be called again.
PROPERTY ImplementsHashMap
