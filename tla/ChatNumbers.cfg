SPECIFICATION Spec
CONSTANTS
  MaxPassages = 1
  MaxPoints = 1
  Sentences <- MCSentences
  MaxSentences = 2
  Chunks = {p1, p2, p3}
  MaxParts = 2
  MaxRead = 2
  MaxEvidence = 2
INVARIANT NumbersPointHome
