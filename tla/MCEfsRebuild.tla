---------------------------- MODULE MCEfsRebuild ----------------------------
(* modemst1, modemst2 and fsg of a Qualcomm phone, nvdata and nvram of a    *)
(* MediaTek one: the module's own sets; only the commands are bounded.      *)
EXTENDS EfsRebuild
=============================================================================
