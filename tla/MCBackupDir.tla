----------------------------- MODULE MCBackupDir -----------------------------
(* Two phones of two models and two partitions. *)
EXTENDS BackupDir, TLC

CONSTANTS a9, b7, boot, persist, g1, g2
MCPhones == {a9, b7}
MCModel == [ph \in MCPhones |-> ph]
MCParts == {boot, persist}
MCGens == {g1, g2}
MCSymmetry == {f @@ g @@ h : f \in Permutations(MCGens), g \in Permutations(MCPhones),
                             h \in Permutations(MCParts)}
=============================================================================
