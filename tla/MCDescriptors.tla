----------------------------- MODULE MCDescriptors -----------------------------
(* Two descriptors on two files of up to three bytes.                      *)
EXTENDS Descriptors
=============================================================================
