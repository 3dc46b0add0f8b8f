----------------------------- MODULE MCHashtable ----------------------------
EXTENDS Hashtable

\* Keys 1 and 2 have one hash; 3 shares a chain with them in tables of 1 and 3.
MCPrimes == <<1, 2, 3>>
MCLoadFactors == <<1, 2, 2>>
MCHash == [k \in Keys |-> IF k = 3 THEN 0 ELSE 3]
=============================================================================
