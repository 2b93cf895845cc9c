---------------------------- MODULE MCDBInstall ----------------------------
(* Model values for checking DBInstall: two targets make a YAC cluster     *)
(* with one secondary OM host, three add a host behind a failing one.      *)
EXTENDS DBInstall
=============================================================================
