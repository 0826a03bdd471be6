\* A ring of 3 slots is full after 2 characters and wraps at the third; the
\* shifted map has an entry of 0; two arrow keys tell a press from another.
CONSTANTS
  VGA_W = 1
  VGA_H = 1
  WORD = 4
  RADIX = 2
  Glyph = {"l", "L", "d"}
  BUFFER_SIZE = 3
  TextKeys = {"K_L", "K_D", "K_F1"}
  ArrowKeys = {"UP", "DOWN"}
  keymap <- MCkeymap
  keymapShifted <- MCkeymapShifted
SPECIFICATION TypistSpec
INVARIANTS
  KeyboardTypeOK
  SlotBeingReadIsStable
  NoStuckModifier
PROPERTIES
  ImplementsFifo
  EveryKeyDelivered
