CONSTANTS
  SIZE = 8
  MAX_TOKENS = 3
  clear <- MCclear
  Writers <- MCWriters
  Redirect <- MCRedirect
  Commands <- MCCommands
  Lines <- MCLines
SPECIFICATION Spec
INVARIANTS
  TokensAreTheLine
  OnlyTextIsLeftOver
