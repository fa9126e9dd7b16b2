-------------------------- MODULE MCUploadProgress --------------------------
(* Small instances of UploadProgress. *)
EXTENDS UploadProgress, TLC
=============================================================================
