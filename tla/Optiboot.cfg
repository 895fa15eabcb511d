SPECIFICATION MCSpec
CONSTANTS
  Pages = {low, high}
  NRWW = {high}
  PageSize = 2
  Data = {a, b}
  Erased = Erased
  Ruined = Ruined
  NoPage = NoPage
INVARIANT BootSafe
PROPERTY RunsTheSketch
