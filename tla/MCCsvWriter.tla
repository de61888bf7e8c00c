----------------------------- MODULE MCCsvWriter -----------------------------
(* Instances of CsvWriter for TLC; the configurations give the constants. *)
EXTENDS CsvWriterLog
=============================================================================
