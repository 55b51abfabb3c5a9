CONSTANTS
  Procs = {dev, build}
  Entries = {clang, sysroot}
  MaxCrashes = 1
SYMMETRY MCSymmetry
SPECIFICATION Spec
INVARIANT EnsuredSdkComplete
