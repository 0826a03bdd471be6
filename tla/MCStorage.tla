------------------------------- MODULE MCStorage -------------------------------
(* Every archive of two names that fits four blocks of two bytes, with up  *)
(* to two faults.                                                          *)
EXTENDS StorageHistory
=============================================================================
