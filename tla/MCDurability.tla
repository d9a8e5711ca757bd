--------------------------- MODULE MCDurability ---------------------------
EXTENDS Durability, TLC

CONSTANTS k1, k2, v1, v2, t1, t2

MCKeys == {k1, k2}
MCShardOf == k1 :> 1 @@ k2 :> 2
MCShardOf1 == k1 :> 1
MCSessions == {t1, t2}
MCSymmetry == Permutations(MCSessions) \cup Permutations(Values)
=============================================================================
