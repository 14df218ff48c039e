\* Two fingers and two slots: a wrong finger and a wrong slot are possible.  Id 2 is
\* out of range, and the lower bits of 5 name slot 1.
SPECIFICATION FairSpec
CONSTANTS
  Fingers = {f1, f2}
  None = None
  Capacity = 2
  Locations = 4
  Ids = {0, 1, 2, 5}
INVARIANTS
  TypeOK
  MatchIsOfThisFinger
  ResultIsTrue
PROPERTIES
  ReaderSafe
  TemplatesAreEarned
  EnrollmentEnds
