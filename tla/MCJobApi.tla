------------------------------ MODULE MCJobApi ------------------------------
(* Small instances of JobApi; the columns and slots are MCJobStore's.          *)
EXTENDS JobApi, MCJobStore
=============================================================================
