SPECIFICATION Spec
CONSTANTS
  Docs = {d1}
  Bodies <- MCBodies
  Original <- Page
  Size <- MCSize
  Runs = {r1, r2}
  Deploys <- MCDeploys
  First <- MCFirst
  MaxChanges = 2
  MaxDeploys = 1
  MaxReembeds = 1
  Gone = Gone
INVARIANTS TypeOK ChunksSayWhatRowsSay VectorsAreOfTheirChunks ChunksHaveVectors
PROPERTIES RunsBringUpToDate ReembedRestores
SYMMETRY Symmetry
