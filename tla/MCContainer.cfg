CONSTANTS
  Bean = {a, b}
  Load = {l1, l2}
  MaxCode = 3
SPECIFICATION ContainerSafety
INVARIANTS
  OnlyCommittedServed
PROPERTIES
  SharedUntilPublished
  PublishedIsNext
