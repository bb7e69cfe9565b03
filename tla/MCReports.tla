----------------------------- MODULE MCReports -----------------------------
(* Values of the constants of Reports for TLC. *)
EXTENDS Reports
=============================================================================
