--------------------------- MODULE MCAnalysisHub ---------------------------
(* Small instances of AnalysisHub for TLC. *)
EXTENDS AnalysisHub, TLC

=============================================================================
