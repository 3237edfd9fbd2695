----------------------------- MODULE MCEfsGroup -----------------------------
(* Two phones of two models and one group, a mirrored pair of partitions.   *)
EXTENDS EfsGroup, TLC

CONSTANTS a9, b7, m1, m2, g1, g2

MCPhones == {a9, b7}
MCOtherModel == [ph \in MCPhones |-> ph]
MCPair == {m1, m2}
MCPairGroups == [modem_nv |-> MCPair]
MCGens == {g1, g2}
MCSymmetry == Permutations(MCGens) \cup Permutations(MCPair) \cup Permutations(MCPhones)
=============================================================================
