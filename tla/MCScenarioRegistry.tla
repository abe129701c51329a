------------------------ MODULE MCScenarioRegistry -------------------------
(***************************************************************************)
(* A small instance of ScenarioRegistry: a scenario and its revision, an   *)
(* approval of each, one that names an unknown draft, a receipt for each   *)
(* approval, and deviations, analyses and admissions of the first run,     *)
(* with and without an analysis.                                           *)
(***************************************************************************)
EXTENDS ScenarioRegistry

CONSTANTS draft, revision

Artifact(id, type, source, analysis) ==
  [id |-> id, type |-> type, source |-> source, analysis |-> analysis]

MCParent == (draft :> NoScenario) @@ (revision :> draft)

MCArtifacts == {
  Artifact("signed", "approval_bound", draft, NoAnalysis),
  Artifact("resigned", "approval_bound", revision, NoAnalysis),
  Artifact("run", "execution_receipted", "signed", NoAnalysis),
  Artifact("deviation", "deviation_recorded", "run", NoAnalysis),
  Artifact("first", "analysis_bound", "run", NoAnalysis),
  Artifact("second", "analysis_bound", "run", NoAnalysis),
  Artifact("admitted", "admission_recorded", "run", "first"),
  Artifact("refused", "admission_recorded", "run", NoAnalysis),
  Artifact("owner", "scenario_closed", NoScenario, NoAnalysis)}
=============================================================================
