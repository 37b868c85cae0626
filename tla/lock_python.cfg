SPECIFICATION PlatformSpec
CONSTANTS
  py1 = py1
  py2 = py2
  py3 = py3
  NoProc = NoProc
  PyProcs <- ThreePythons
  BashProcs <- NoShells
  Attempts = 3
  MaxReuse = 1
  Prompt = FALSE
SYMMETRY PythonSymmetry
INVARIANTS MutualExclusion ReclaimEffective NoLeakedLock
PROPERTY LiveLockKept
