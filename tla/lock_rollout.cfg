SPECIFICATION Spec
CONSTANTS
  py1 = py1
  py2 = py2
  sh1 = sh1
  NoProc = NoProc
  PyProcs <- TwoPythons
  BashProcs <- OneShell
  Attempts = 3
  MaxReuse = 0
  Prompt = TRUE
INVARIANT MutualExclusion
