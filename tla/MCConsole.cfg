\* A 3 x 2 screen, two glyphs, words of 32 values (the positions a backspace
\* can wrap to stay apart from the cells) and CRTC registers of 3 values (a
\* position needs both registers).
CONSTANTS
  VGA_W = 3
  VGA_H = 2
  WORD = 32
  RADIX = 3
  Glyph = {g, h}
SPECIFICATION ScreenSpec
INVARIANTS
  ConsoleTypeOK
  CursorHealed
  UndisturbedWrite
  HwCursorFollows
  OneGlyphSurvivesClear
  PutOnScreen
PROPERTIES
  CallReturns
