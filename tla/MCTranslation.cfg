CONSTANTS
  MaxEvents = 7
  MaxCalls = 2
  MaxPieces = 2
  MaxItems = 5
  CallIds = {1, 2}
  Urls = {u1, u2}
  MaxTurns = 2
  MaxUses = 1
  MaxBlocks = 3
  MaxRequests = 3
  Names <- MCNames
  Caps = {"shell", "read", "write"}
  CapsOf <- MCCapsOf
  FirstCap <- MCFirstCap
  Spaced = {"mcp__fs__read", "mcp__long"}
  Long = {"mcp__long"}
  Short <- MCShort
  Vocab <- MCVocab
SPECIFICATION MCTranslationSpec
CHECK_DEADLOCK FALSE
INVARIANTS BlocksNest   HealedPairsUp HistoryComesBack CallsAnsweredOnce NamesComeBack
