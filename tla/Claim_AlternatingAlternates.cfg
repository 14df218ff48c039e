\* Two phases of an alternating pattern are enough.
SPECIFICATION Spec
INVARIANT AlternatingAlternates
