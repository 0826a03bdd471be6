------------------------------- MODULE MCConsole -------------------------------
(* The console on a 3 x 2 screen: every wrap and scroll is one call away.  *)
EXTENDS ConsoleHistory
=============================================================================
