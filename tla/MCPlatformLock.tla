---------------------------- MODULE MCPlatformLock ----------------------------
(***************************************************************************)
(* An instance of PlatformLock for TLC: Python uploaders on one machine,   *)
(* which is either a Unix or a Windows one.                                *)
(***************************************************************************)
EXTENDS PlatformLock, TLC

CONSTANTS py1, py2, py3
ThreePythons == {py1, py2, py3}
NoShells == {}
PythonSymmetry == Permutations(ThreePythons)
=============================================================================
