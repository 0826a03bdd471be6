------------------------------ MODULE MCTerminal ------------------------------
(* A typist with two letters (Ctrl clears the screen with one), Enter,      *)
(* backspace and Ctrl, on a 2 x 2 screen.                                  *)
EXTENDS TerminalHistory

MCkeymap == [k \in TextKeys |-> CASE k = "K_L" -> "l" [] k = "K_M" -> "m"
                                  [] k = "K_ENTER" -> NL
                                  [] k = "K_BS" -> BS]
MCPrinted == {"m"}
=============================================================================
