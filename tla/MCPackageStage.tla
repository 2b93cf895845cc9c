--------------------------- MODULE MCPackageStage ---------------------------
(* Model values for checking PackageStage.  Two versions make discovery a  *)
(* choice between an older and a newer package in every place; the second  *)
(* of three runs meets what an interruption of the first has left, and the *)
(* third the result of both.                                               *)
EXTENDS PackageStage
=============================================================================
