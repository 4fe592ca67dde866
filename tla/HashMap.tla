------------------------------ MODULE HashMap ------------------------------
(* What lib/hash.c promises its callers: a finite map from string keys to
   values, with hash_add's three modes, hash_remove and hash_find, and the
   return value of the last call.  HashTable refines this specification.   *)
EXTENDS Integers, Sequences, FiniteSets, Functions

CONSTANTS Key,       \* the keys callers pass (user names, macro names)
          Value,     \* the values they store
          NoValue    \* hash_find's NULL, and "no entry" in the map

ASSUME NoValue \notin Value

\* The add modes of hash.h.
Modes == {"HASH_INSERT", "HASH_REPLACE", "HASH_INSERT_OR_REPLACE"}

VARIABLES dict,  \* dict[k]: the value stored under k, or NoValue
          call,  \* the last call: its function and key
          ret,   \* what the last call returned (0 or -1, a count, or a found value)
          seen   \* the keys the last call listed (hash_keys) or visited (hash_foreach)

vars == <<dict, call, ret, seen>>

Calls == [fn : {"hash_add", "hash_remove", "hash_find", "hash_new", "hash_count",
                "hash_keys", "hash_foreach"},
          key : Key \cup {NoValue}]

TypeOK ==
    /\ dict \in [Key -> Value \cup {NoValue}]
    /\ call \in Calls
    /\ ret \in Nat \cup {-1} \cup Value \cup {NoValue}
    /\ seen \in Seq(Key)

Init ==
    /\ dict = [k \in Key |-> NoValue]
    /\ call = [fn |-> "hash_new", key |-> NoValue]
    /\ ret = 0
    /\ seen = <<>>

Present(k) == dict[k] # NoValue

\* INSERT fails on a present key, REPLACE on an absent one; otherwise the
\* value is stored under the key.
Add(k, v, mode) ==
    /\ call' = [fn |-> "hash_add", key |-> k]
    /\ IF \/ mode = "HASH_INSERT" /\ Present(k)
          \/ mode = "HASH_REPLACE" /\ ~Present(k)
       THEN ret' = -1 /\ seen' = <<>> /\ UNCHANGED dict
       ELSE ret' = 0 /\ dict' = [dict EXCEPT ![k] = v] /\ seen' = <<>>

Remove(k) ==
    /\ call' = [fn |-> "hash_remove", key |-> k]
    /\ IF Present(k)
       THEN ret' = 0 /\ dict' = [dict EXCEPT ![k] = NoValue] /\ seen' = <<>>
       ELSE ret' = -1 /\ seen' = <<>> /\ UNCHANGED dict

Find(k) ==
    /\ call' = [fn |-> "hash_find", key |-> k]
    /\ ret' = dict[k]
    /\ seen' = <<>> /\ UNCHANGED dict

\* The keys stored, and their orderings: the table promises no order.
Stored == {k \in Key : Present(k)}
Orderings(S) == {f \in [1..Cardinality(S) -> S] : IsInjective(f)}

Count ==
    /\ call' = [fn |-> "hash_count", key |-> NoValue]
    /\ ret' = Cardinality(Stored)
    /\ seen' = <<>> /\ UNCHANGED dict

\* Every stored key once, in some order.
Keys ==
    /\ call' = [fn |-> "hash_keys", key |-> NoValue]
    /\ seen' \in Orderings(Stored)
    /\ UNCHANGED <<dict, ret>>

\* The callback is given every stored key once and the call returns 0, or
\* the callback stops the walk at some stored key by returning non-zero,
\* and the call returns that value, having given it distinct stored keys.
Foreach ==
    /\ call' = [fn |-> "hash_foreach", key |-> NoValue]
    /\ \/ ret' = 0 /\ seen' \in Orderings(Stored)
       \/ ret' = 1 /\ seen' \in UNION {Orderings(S) : S \in SUBSET Stored \ {{}}}
    /\ UNCHANGED dict

Next ==
    \/ Count \/ Keys \/ Foreach
    \/ \E k \in Key :
        \/ \E v \in Value, mode \in Modes : Add(k, v, mode)
        \/ Remove(k)
        \/ Find(k)

Spec == Init /\ [][Next]_vars
=============================================================================
