-------------------------------- MODULE MCUstar --------------------------------
(* Every archive of three names that fits six blocks of two bytes.         *)
EXTENDS Ustar
=============================================================================
