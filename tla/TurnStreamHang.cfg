CONSTANTS
  p1 = p1
  p2 = p2
  r1 = r1
  Prompts <- OnePrompt
  Reactions = {}
  NoTurn = NoTurn
  sessionQueueCap = 1
  chunkChCap = 2
  ChunksPerTurn = 1
SPECIFICATION StreamFairSpec
PROPERTY DoneAlwaysClosed
