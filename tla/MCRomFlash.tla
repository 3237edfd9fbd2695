----------------------------- MODULE MCRomFlash -----------------------------
(* One partition of each kind: firmware, boot chain, two logical ones (one  *)
(* of them before "super" in the order), protected data, and a name the     *)
(* order does not know.                                                     *)
EXTENDS RomFlash

MCNames == {"radio", "boot", "vendor_dlkm", "super", "persist", "proinfo"}
MCOrder == <<"radio", "boot", "vendor_dlkm", "super", "persist">>
MCRest == <<"proinfo">>
MCFastbootd == {"vendor_dlkm", "super"}
MCNeverAuto == {"persist"}
MCFirmware == {"radio"}
MCImages == {{}, {"radio", "vendor_dlkm", "persist"}, {"boot", "vendor_dlkm", "proinfo"}}
MCAll == {{}, MCNames}
=============================================================================
