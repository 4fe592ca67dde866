---------------------------- MODULE MC_HashTable ----------------------------
(* Keys and values for checking HashTable with TLC.  Keys are written as
   their byte values: "aB" and "b!" are distinct user names with the same
   hashfn value, 33 * 97 + 66 = 33 * 98 + 33 = 3267, at any size_t width. *)
EXTENDS HashTable, TLC

CONSTANTS v1, v2

K_a == <<97>>
K_b == <<98>>
K_c == <<99>>
K_aB == <<97, 66>>
K_bBang == <<98, 33>>

\* Keys whose hashes all differ but share buckets at every table size used.
KeysDistinct == {K_a, K_b, K_c, K_aB}

\* Two keys with equal hashes, and one that shares only their bucket.
KeysColliding == {K_a, K_aB, K_bBang}

MCValue == {v1, v2}
=============================================================================
