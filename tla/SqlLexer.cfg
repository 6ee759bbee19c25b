SPECIFICATION Spec
CONSTANTS
  MaxText = 4
  TextChars = {"'", "*", "-", "/", "0", ".", "newline"}
INVARIANTS
  AutomatonIsRules
  TokensOfText
PROPERTIES
  YylexReturns
