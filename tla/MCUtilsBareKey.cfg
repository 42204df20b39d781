CONSTANTS
  Word = 4
  MaxSymbol = 3
  HexBase = 2
  HashLen = 2
  Text <- MCText
  Strkey <- MCStrkey
  Given <- MCGiven
  Received <- MCReceived
SPECIFICATION Spec
INVARIANT BareSymbolKey
CHECK_DEADLOCK FALSE
