---- MODULE MCAuditExport ----
(***************************************************************************)
(* The log and its archive.  Processes are not declared interchangeable:   *)
(* the run checks liveness, which symmetry would make unsound.             *)
(***************************************************************************)
EXTENDS AuditExport

====
