---------------------------------- MODULE MCAta ----------------------------------
(* Three sectors of two words, addresses of two bytes, waits of two looks.  *)
EXTENDS AtaHistory
=============================================================================
