---------------------------- MODULE MCQueueSystem ----------------------------
(* Small instances of QueueSystem; the columns and slots are MCJobStore's.    *)
EXTENDS QueueSystem, MCJobStore
=============================================================================
