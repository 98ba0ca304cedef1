------------------------------ MODULE IngestJobs ------------------------------
(* The messages that may arrive over MQTT; each becomes one IngestJob.       *)
EXTENDS Naturals, Sequences, FiniteSets, Functions

CONSTANTS Messages, NoMessage

ASSUME NoMessageAssumption == NoMessage \notin Messages
=============================================================================
