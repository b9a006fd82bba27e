\* Two processes reading, changing and storing the catalog, failing and dying.
SPECIFICATION Spec
CONSTANTS
  Alphanumeric = {"a", "b"}
  Writers = {w1, w2}
  Names <- MCNames
  Odd = Odd
  Shown = Shown
  Here = Here
  Absolute = {Odd, Shown}
  Relative = {Here}
  displayed <- MCDisplayed
  Files <- MCFiles
  Spare <- MCSpare
  None = None
  Torn = Torn
  Bare = Bare
SYMMETRY WriterSymmetry
INVARIANTS
  TypeOK
  NamesAreSendable
  FixableInTwoPasses
PROPERTIES
  ImplementsRegister
