-------------------------- MODULE MCAnalysisWorker --------------------------
(***************************************************************************)
(* AnalysisWorker for TLC.                                                 *)
(***************************************************************************)
EXTENDS AnalysisWorker, TLC

\* Two windows of the first connection overlap, the second one has one.
Streams == <<3, 2>>
=============================================================================
