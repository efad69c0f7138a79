SPECIFICATION Spec
CONSTANTS
  s1 = s1
  s2 = s2
  up1 = up1
  up2 = up2
  Slots = {s1, s2}
  Targets <- OwnTargets
  RandomNames = {r1}
  TempNames = {t1}
  Lengths = {1}
  None = None
INVARIANT
  UploadExact
