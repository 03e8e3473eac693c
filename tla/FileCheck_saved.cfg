SPECIFICATION Spec
CONSTANTS
  Files = {f, h}
  f = f
  h = h
  NoFile = NoFile
  MaxUploads = 1
  MaxFaults = 2
SYMMETRY FileSymmetry
INVARIANTS TypeOK OptionsKept StartChecked
