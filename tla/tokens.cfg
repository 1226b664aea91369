\* Two goroutines that share a token whose life may be longer or shorter than
\* the margin before its renewal, or of which the answer does not say it.
CONSTANTS
  Callers = {c1, c2}
  Ttls = {0, 2, 6}
  Margin = 3
  Timeout = 2
  DoubleChecked = TRUE
  None = None
SPECIFICATION Spec
INVARIANTS
  TokenTypeOK
  StillGood
  LockCovers
PROPERTIES
  EverybodyServed
