------------------------------- MODULE MCLru -------------------------------
\* Keys and values with their lengths, for the run of Lru.
EXTENDS Lru, TLC

CONSTANTS k1, k2, k3, v1, v2

\* One key is longer than the others, and one value is empty.
KeyLens == k1 :> 1 @@ k2 :> 1 @@ k3 :> 2
ValueLens == v1 :> 0 @@ v2 :> 2

\* No limit; a limit no entry is within but the smallest; one that two or
\* three entries are within; one that all but the largest lists are within;
\* a negative one.
Limits == {0, 1, 4, 7, -1}
=============================================================================
