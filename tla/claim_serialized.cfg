\* A store takes back the change another process stored since the load.
SPECIFICATION ClaimedSpec
CONSTANTS
  Alphanumeric = {"a", "b"}
  Writers = {w1, w2}
  Names <- TwoNames
  Odd = Odd
  Shown = Shown
  Here = Here
  Absolute = {Odd, Shown}
  Relative = {Here}
  displayed <- MCDisplayed
  Files <- InUseOnly
  Spare <- NoSpare
  None = None
  Torn = Torn
  Bare = Bare
PROPERTY
  MutationsAreSerialized
