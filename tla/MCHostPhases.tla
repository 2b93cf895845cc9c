---------------------------- MODULE MCHostPhases ----------------------------
(* Model values for checking HostPhases.  Three targets and three steps    *)
(* reach every mix of unreachable, failing and healthy hosts around a      *)
(* middle one, for every plan of three steps.                              *)
EXTENDS HostPhases
=============================================================================
