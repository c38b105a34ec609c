------------------------------ MODULE MCAnalyzer ------------------------------
(***************************************************************************)
(* The analyzer on the programs of AnalyzerPrograms.tla.                   *)
(***************************************************************************)
EXTENDS Analyzer

P == INSTANCE AnalyzerPrograms

AnalyzerSources == P!AnalyzerSources

ASSUME SourcesAssumption == \A t \in Sources : OneMain(t) /\ FlatFunctions(t)
==============================================================================
