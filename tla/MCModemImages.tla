--------------------------- MODULE MCModemImages ---------------------------
(* Two phones of different geometry; an age of three bits.  An nvram image  *)
(* is a region, one that contradicts itself with a smaller and older one    *)
(* left behind it, or one that claims too much and another behind it.       *)
EXTENDS ModemImages, TLC

MCWorking == [name |-> "a", pages |-> 3]
MCGeos == {MCWorking, [name |-> "b", pages |-> 3]}
Header(table, buf, ends) == [kind |-> "nvram", flag |-> TRUE, table |-> table, buf |-> buf, ends |-> ends]
Ext4(bad) == [kind |-> "ext4", bad |-> bad]
MCFactory == "nvram" :> {<<Header(1, 2, {1, 2}), Other, Other>>,
                         <<Header(1, 2, {3}), Header(1, 1, {1}), Other>>,
                         <<Header(1, 9, {9}), Header(1, 1, {1}), Other>>}
             @@ "nvdata" :> {<<Ext4(b), Other>> : b \in BOOLEAN}
             @@ "fsc" :> {<<Erased>>}
MCSpelling == "fsg_a" :> "fsg"
=============================================================================
