CONSTANTS
    v1 = v1  v2 = v2  NoValue = NoValue
    Key <- KeysDistinct
    Value <- MCValue
    \* hash_new starts with 256 slots; one slot makes four keys grow the
    \* table three times (1 -> 2 -> 4 -> 8).
    InitSlots = 1
    \* No key here hashes past 2^12, so no reduction modulo 2^64 (or this
    \* smaller modulus, which TLC's integers can hold) changes a hash.
    SizeMod = 1073741824
SPECIFICATION Spec
\* The API can always be called again.
INVARIANTS TypeOK LoadBounded
PROPERTY ImplementsHashMap
