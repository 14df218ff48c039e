\* The lower 16 bits of an id may name another slot: here, two bits of 5.
SPECIFICATION Spec
CONSTANTS
  Fingers = {f1, f2}
  None = None
  Capacity = 2
  Locations = 4
  Ids = {0, 1, 2, 5}
INVARIANT DeletedIsTheIdAsked
