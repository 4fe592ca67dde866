----------------------------- MODULE HashTable -----------------------------
(* lib/hash.c: a chained hash table.  slots[b] is the chain of bucket b as a
   sequence from its head; an entry keeps the full hash h of its key, as
   struct entry does.  Each action is one call of the library API, whole.
   Keys are byte sequences (the C string without its NUL).                 *)
EXTENDS Integers, Sequences, SequencesExt

CONSTANTS Key,        \* keys callers pass: sequences of byte values
          Value,      \* values callers store
          NoValue,    \* hash_find's NULL
          InitSlots,  \* nslots of hash_new (256 in the code), a power of two
          SizeMod     \* 2^(bits of size_t): hashfn's arithmetic is modulo this

ASSUME InitSlots \in {2^i : i \in 0..8} /\ SizeMod > 0

Modes == {"HASH_INSERT", "HASH_REPLACE", "HASH_INSERT_OR_REPLACE"}

VARIABLES nslots,  \* h->nslots
          nitems,  \* h->nitems
          slots,   \* h->slots: bucket -> chain of entries, head first
          call,    \* the last call made: its function and key argument
          ret,     \* the return value of the last call
          seen     \* the keys the last call listed (hash_keys) or visited (hash_foreach)

vars == <<nslots, nitems, slots, call, ret, seen>>

Entry == [h : 0..SizeMod - 1, key : Key, value : Value]

\* hashfn: i = 33 * i + byte over the key, in size_t arithmetic.
RECURSIVE HashFrom(_, _)
HashFrom(i, s) ==
    IF s = <<>> THEN i ELSE HashFrom((33 * i + Head(s)) % SizeMod, Tail(s))

hashfn(key) == HashFrom(0, key)

\* n & (nslots - 1): nslots is a power of two, so this is n modulo nslots.
Bucket(n, ns) == n % ns

\* The for loop that walks the chain of key's bucket and stops at the first
\* entry whose stored hash equals n OR whose key equals the key: the index
\* in the chain of the entry it stops at, 0 when it runs off the end.
Match(chain, n, key) == SelectInSeq(chain, LAMBDA e : e.h = n \/ e.key = key)

\* Mutant of grow: entries are placed with the old table's mask.
growOldMask(ns, sl) ==
    LET new == 2 * ns
        walk == FlattenSeq([j \in 1..ns |-> sl[j - 1]])
    IN [b \in 0..new - 1 |->
            Reverse(SelectSeq(walk, LAMBDA e : Bucket(e.h, ns) = b))]

\* grow: walk the old buckets in order and each chain from its head, pushing
\* every entry onto the head of its bucket in a table twice the size.
grow(ns, sl) ==
    LET new == 2 * ns
        walk == FlattenSeq([j \in 1..ns |-> sl[j - 1]])
    IN [b \in 0..new - 1 |->
            Reverse(SelectSeq(walk, LAMBDA e : Bucket(e.h, new) = b))]

hash_new ==
    /\ nslots = InitSlots
    /\ nitems = 0
    /\ slots = [b \in 0..InitSlots - 1 |-> <<>>]
    /\ call = [fn |-> "hash_new", key |-> NoValue]
    /\ ret = 0
    /\ seen = <<>>

Init == hash_new

\* Mutant of Insert: the table grows only once nitems exceeds nslots.
InsertLateGrow(n, key, v) ==
    LET grows == nitems > nslots
        ns == IF grows THEN 2 * nslots ELSE nslots
        sl == IF grows THEN grow(nslots, slots) ELSE slots
        b == Bucket(n, ns)
    IN /\ nslots' = ns
       /\ slots' = [sl EXCEPT ![b] = <<[h |-> n, key |-> key, value |-> v]>> \o @]
       /\ nitems' = nitems + 1

\* hash_add for a key the chain walk did not find: grow when nitems has
\* reached nslots, then push a new entry onto the head of the key's bucket.
Insert(n, key, v) ==
    LET grows == nitems >= nslots
        ns == IF grows THEN 2 * nslots ELSE nslots
        sl == IF grows THEN grow(nslots, slots) ELSE slots
        b == Bucket(n, ns)
    IN /\ nslots' = ns
       /\ slots' = [sl EXCEPT ![b] = <<[h |-> n, key |-> key, value |-> v]>> \o @]
       /\ nitems' = nitems + 1

hash_add(key, v, mode) ==
    LET n == hashfn(key)
        b == Bucket(n, nslots)
        i == Match(slots[b], n, key)
    IN IF i # 0
       THEN \* present: INSERT fails; otherwise the value is copied in
            IF mode = "HASH_INSERT"
            THEN ret' = -1 /\ UNCHANGED <<nslots, nitems, slots>>
            ELSE /\ slots' = [slots EXCEPT ![b][i].value = v]
                 /\ ret' = 0
                 /\ UNCHANGED <<nslots, nitems>>
       ELSE \* absent: REPLACE fails; otherwise a new entry
            IF mode = "HASH_REPLACE"
            THEN ret' = -1 /\ UNCHANGED <<nslots, nitems, slots>>
            ELSE Insert(n, key, v) /\ ret' = 0

\* Mutant of hash_remove: nitems is decremented whether or not the key was found.
hash_removeAlwaysCount(key) ==
    LET n == hashfn(key)
        b == Bucket(n, nslots)
        i == Match(slots[b], n, key)
    IN /\ nitems' = nitems - 1
       /\ UNCHANGED nslots
       /\ IF i # 0
          THEN slots' = [slots EXCEPT ![b] = RemoveAt(@, i)] /\ ret' = 0
          ELSE ret' = -1 /\ UNCHANGED slots

hash_remove(key) ==
    LET n == hashfn(key)
        b == Bucket(n, nslots)
        i == Match(slots[b], n, key)
    IN IF i # 0
       THEN /\ slots' = [slots EXCEPT ![b] = RemoveAt(@, i)]
            /\ nitems' = nitems - 1
            /\ ret' = 0
            /\ UNCHANGED nslots
       ELSE ret' = -1 /\ UNCHANGED <<nslots, nitems, slots>>

hash_find(key) ==
    LET n == hashfn(key)
        chain == slots[Bucket(n, nslots)]
        i == Match(chain, n, key)
    IN /\ ret' = IF i # 0 THEN chain[i].value ELSE NoValue
       /\ UNCHANGED <<nslots, nitems, slots>>

\* The entries in the order hash_keys and hash_foreach walk them: bucket
\* 0 to nslots - 1, each chain from its head.
Entries == FlattenSeq([j \in 1..nslots |-> slots[j - 1]])

EntryKeys == [i \in 1..Len(Entries) |-> Entries[i].key]

hash_count == ret' = nitems /\ seen' = <<>> /\ UNCHANGED <<nslots, nitems, slots>>

\* A vector of nitems + 1 zeroed pointers is filled with the walk's keys,
\* so the list ends at the first NULL (nitems + 1 slots hold the walk while
\* nitems counts the entries, as LoadBounded checks).
hash_keys ==
    /\ seen' = EntryKeys
    /\ UNCHANGED <<nslots, nitems, slots, ret>>

\* The callback is given every key of the walk in turn and returns 0, or
\* stops the walk by returning non-zero (1 here) at the i-th, which
\* hash_foreach returns.  No caller in the tree adds or removes entries from
\* its callback.
hash_foreach ==
    /\ \/ ret' = 0 /\ seen' = EntryKeys
       \/ \E i \in 1..Len(Entries) : ret' = 1 /\ seen' = SubSeq(EntryKeys, 1, i)
    /\ UNCHANGED <<nslots, nitems, slots>>

\* A caller's call of one of the functions, with its key.
Call(fn, key) == call' = [fn |-> fn, key |-> key]

Next ==
    \/ hash_count /\ Call("hash_count", NoValue)
    \/ hash_keys /\ Call("hash_keys", NoValue)
    \/ hash_foreach /\ Call("hash_foreach", NoValue)
    \/ \E key \in Key :
        /\ \/ \E v \in Value, mode \in Modes : hash_add(key, v, mode) /\ Call("hash_add", key)
           \/ hash_remove(key) /\ Call("hash_remove", key)
           \/ hash_find(key) /\ Call("hash_find", key)
        /\ seen' = <<>>

Spec == Init /\ [][Next]_vars

-----------------------------------------------------------------------------
(* Properties *)

\* hash_add grows the table before the insertion that would take nitems past
\* nslots ("bound mean chain length"), and nitems counts the entries that
\* the chains really hold, through every grow and remove.
LoadBounded ==
    /\ nitems = Len(Entries)
    /\ nitems <= nslots

\* The map the table stands for: the value of the entry holding each key.
Stored(k) ==
    LET i == SelectInSeq(Entries, LAMBDA e : e.key = k)
    IN IF i # 0 THEN Entries[i].value ELSE NoValue

HM == INSTANCE HashMap WITH dict <- [k \in Key |-> Stored(k)]

TypeOK ==
    /\ nslots \in {InitSlots * 2^i : i \in 0..Cardinality(Key)}
    /\ slots \in [0..nslots - 1 -> Seq(Entry)]
    /\ nitems \in Nat
    /\ call \in HM!Calls
    /\ ret \in Nat \cup {-1} \cup Value \cup {NoValue}
    /\ seen \in Seq(Key)

\* The table implements the map of HashMap: every hash_add, hash_remove and
\* hash_find returns what the map says and changes the stored map as the map
\* changes.
ImplementsHashMap == HM!Spec
=============================================================================
