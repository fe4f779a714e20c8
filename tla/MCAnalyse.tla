----------------------------- MODULE MCAnalyse -----------------------------
(* cli.analyse over every short capture of the packets of MCFlowTable.     *)
EXTENDS Analyse, MCFlowTable
=============================================================================
