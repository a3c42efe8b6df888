------------------------------- MODULE MCLRU --------------------------------
EXTENDS LRU, TLC
CONSTANTS k1, k2, k3, s, b
MCKeys == {k1, k2, k3}
MCValues == {s, b}
\* Keys of one or two bytes, a small and a big value: entries of 2 to 5 bytes.
MCKeyLen == k1 :> 1 @@ k2 :> 1 @@ k3 :> 2
MCValueLen == s :> 1 @@ b :> 3
\* Unbounded; smaller than the big entries; two small or one big; all but one.
MCBudgets == {0, 3, 5, 9}
=============================================================================
