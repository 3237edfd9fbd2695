------------------------------ MODULE MCPayload ------------------------------
(* Ways to write three blocks with two operations over extents in several   *)
(* orders, beside a longer image and a differential one of the same names.  *)
EXTENDS Payload, SequencesExt

CONSTANTS boot, vendor
MCNames == {boot, vendor}
MCBlocks == {Zero, Damaged} \cup {<<at, i>> : at \in 1..2, i \in 1..5}

X(s, n) == [start |-> s, num |-> n]
Orders == {<<X(0, 3)>>, <<X(1, 2), X(0, 1)>>, <<X(2, 1), X(0, 1), X(1, 1)>>, <<X(1, 1), X(2, 1), X(0, 1)>>}
Op(t, at, dst) ==
  [type |-> t, at |-> at, dst |-> dst,
   blob |-> IF t \in Replacing THEN [i \in 1..FoldLeft(LAMBDA n, e : n + e.num, 0, dst) |-> <<at, i>>] ELSE <<>>]
TwoOps(dst, k, t, u) == <<Op(t, 1, SubSeq(dst, 1, k)), Op(u, 2, SubSeq(dst, k + 1, Len(dst)))>>
Boots == UNION {{TwoOps(dst, k, t, u) : k \in DOMAIN dst, t \in {"REPLACE", "ZERO"},
                                        u \in {"REPLACE_XZ", "DISCARD"}} : dst \in Orders}
Longer == <<Op("REPLACE_BZ", 1, <<X(0, 5)>>)>>
Differential == <<Op("REPLACE", 1, <<X(0, 1)>>), Op("SOURCE_COPY", 2, <<X(1, 1)>>)>>
Of(n, ops) == [name |-> n, ops |-> ops]

MCPackages == {<<Of(boot, ops)>> : ops \in Boots}
              \cup {<<Of(boot, Longer), Of(vendor, Longer)>>,
                    <<Of(boot, Longer), Of(vendor, Differential)>>}
=============================================================================
