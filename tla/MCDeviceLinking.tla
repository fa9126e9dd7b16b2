--------------------------- MODULE MCDeviceLinking ---------------------------
(* Small instances of DeviceLinking.  Two codes link two devices at most,  *)
(* so two are always enough.  Liveness is checked: no symmetry.            *)
EXTENDS DeviceLinking, TLC
=============================================================================
