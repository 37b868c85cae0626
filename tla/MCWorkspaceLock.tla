--------------------------- MODULE MCWorkspaceLock ---------------------------
(***************************************************************************)
(* Instances of WorkspaceLock for TLC: Python uploaders next to a Bash     *)
(* uploader.                                                               *)
(***************************************************************************)
EXTENDS WorkspaceLock

CONSTANTS py1, py2, sh1
TwoPythons == {py1, py2}
OneShell == {sh1}
=============================================================================
