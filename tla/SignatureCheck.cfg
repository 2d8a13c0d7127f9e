\* Every file with every pattern, and both programs with all their options on a few files.
SPECIFICATION Spec
CONSTANTS
  Wild = wild
  Bad = bad
  None = none
  Cases <- AllCases
  Hooked = {1, 2}
INVARIANTS
  TypeOK
  MappedIsUnique
  FileAgrees
  SmokeFailsClosed
  HooksAtSignatures
\* The program has returned.
CHECK_DEADLOCK FALSE
