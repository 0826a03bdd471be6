------------------------------ MODULE MCKeyboard ------------------------------
(* The keyboard with the two letters Ctrl treats specially, a key the maps *)
(* leave empty, and a ring of three slots.                                 *)
EXTENDS KeyboardHistory

MCkeymap        == [k \in TextKeys |-> CASE k = "K_L" -> "l" [] k = "K_D" -> "d"
                                         [] OTHER -> NUL]
MCkeymapShifted == [k \in TextKeys |-> CASE k = "K_L" -> "L" [] OTHER -> NUL]
=============================================================================
