SPECIFICATION FairSpec
CONSTANTS
  py1 = py1
  py2 = py2
  sh1 = sh1
  NoProc = NoProc
  PyProcs <- TwoPythons
  BashProcs <- OneShell
  Attempts = 2
  MaxReuse = 1
  Prompt = TRUE
 
PROPERTY EveryContenderDecides
