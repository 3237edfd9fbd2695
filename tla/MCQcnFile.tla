------------------------------ MODULE MCQcnFile ------------------------------
(* Sectors of 4 units, mini sectors of 2; a tree of small streams, one with streams *)
(* at and above the cutoff, and one that needs more FAT sectors than the header lists. *)
EXTENDS QcnFile

Data(tag, n) == [k \in 1..n |-> <<tag, k>>]
MCItems == {"10", "550", "x"}
MCStorages == {"nv", "prov"}
MCKey == ("10" :> 2) @@ ("550" :> 3) @@ ("nv" :> 13) @@ ("prov" :> 23) @@ ("ver" :> 7) @@ ("x" :> 40)
Small == << Stream(<<"ver">>, Data("v", 1)), Storage(<<"prov">>), Stream(<<"prov", "550">>, Data("p", 3)),
            Stream(<<"prov", "10">>, <<>>), Storage(<<"nv">>), Stream(<<"nv", "550">>, Data("a", 3)) >>
Mixed == << Storage(<<"nv">>), Stream(<<"nv", "10">>, Data("a", 9)), Stream(<<"nv", "550">>, Data("b", 5)),
            Stream(<<"550">>, Data("c", 8)), Storage(<<"prov">>), Storage(<<"prov", "nv">>),
            Stream(<<"prov", "nv", "10">>, Data("d", 3)) >>
Large == << Storage(<<"nv">>), Stream(<<"nv", "10">>, Data("a", 40)), Stream(<<"nv", "550">>, Data("b", 3)) >>
MCTrees == {Small, Mixed, Large}
MCLengths == {3, 8}
=============================================================================
