SPECIFICATION Spec
CONSTANTS
  filing = filing
  plain = plain
  f1 = f1
  p1 = p1
  p2 = p2
  Blocks <- MCBlocks
  Threads <- MCThreads
  Owner <- MCOwner
  Masks <- MCMasks
  Succeeded <- MCSucceeded
  MaxSize = 2
  MaxMsgs = 5
  MaxSec = 1
  MaxEntries = 3
  MaxAdds = 4
  MaxFaults = 2
SYMMETRY Alike
CONSTRAINT Apart
INVARIANTS TypeOK SizeTracked ReportsKept EntriesKept
