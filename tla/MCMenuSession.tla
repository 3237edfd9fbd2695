---------------------------- MODULE MCMenuSession ----------------------------
(* A userdebug phone and a retail phone. *)
EXTENDS MenuSession

CONSTANTS a9, b7
MCPhones == {a9, b7}
MCUserdebug == {a9}
=============================================================================
