----------------------------- MODULE MCDiscovery -----------------------------
(***************************************************************************)
(* An instance of Discovery for TLC: a payload that is parsed and a raw    *)
(* coverage file; a poll that does not divide the budget.                  *)
(***************************************************************************)
EXTENDS Discovery, TLC

CONSTANTS test, coverage, nofile

TestAndCoverage == {test, coverage}
ThreeSettings == {<<2, 3>>, <<0, 1>>, <<0, 0>>}
=============================================================================
