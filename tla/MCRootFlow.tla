----------------------------- MODULE MCRootFlow -----------------------------
(* Two phones of different models, and one phone alone. *)
EXTENDS RootFlow, TLC

CONSTANTS a9, b7
MCPhones == {a9, b7}
MCOne == {a9}
MCModels == {"pixel", "redmi"}
MCPixel == {"pixel"}
MCModel == (a9 :> "pixel") @@ (b7 :> "redmi")
MCOneModel == a9 :> "pixel"
MCTwo == {b7}
=============================================================================
