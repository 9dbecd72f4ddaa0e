--------------------------- MODULE MCHostAdmission ---------------------------
(* Instances of HostAdmission for TLC. *)
EXTENDS HostAdmission
================================================================================
