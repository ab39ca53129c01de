CONSTANTS
  Half <- MCHalf
  Base <- MCBase
  Io <- MCIo
  Joyp <- MCJoyp
  PowerUp <- MCPowerUp
  SerialBit = 8
  LowBanks = 4
  HighBanks = 4
  RomSize <- MCRomSize
  Rom <- MCRom
  And <- MCAnd
  Or <- MCOr
  Xor <- MCXor
  Digit = 2
  Bits = {1, 2, 4, 8}
  Mixes <- MCMixes
  Straddling = FALSE
  Unguarded = FALSE
SPECIFICATION Spec
INVARIANT TypeOK
PROPERTIES SameAsInterpreter CodeFlagged
CHECK_DEADLOCK FALSE
