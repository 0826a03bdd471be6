\* The ring holds one character besides the one being read; a line of two
\* characters wraps the screen; a read of two bytes is more than a line, all
\* of it, or part of it.
CONSTANTS
  VGA_W = 2
  VGA_H = 2
  WORD = 16
  RADIX = 2
  Glyph = {"l", "m"}
  BUFFER_SIZE = 2
  TextKeys = {"K_L", "K_M", "K_ENTER", "K_BS"}
  ArrowKeys = {}
  keymap <- MCkeymap
  keymapShifted <- MCkeymap
  STDIN_BUF_LEN = 4
  Counts = {2}
  Typed = {"K_L", "K_M", "K_ENTER", "K_BS", "LCTRL"}
  Printed <- MCPrinted
  MaxLine = 2
  MaxPrompt = 1
SPECIFICATION Spec
INVARIANTS
  EchoIsLine
PROPERTIES
  ImplementsLineDiscipline
  EnterCompletesRead
