------------------------------- MODULE Outcome -------------------------------
(***************************************************************************)
(* How a run is classified (principal/outcome.py, classify): a pure        *)
(* function of the job row, the task rows and the last result event of     *)
(* each check (principal/orchestrator/signals.py, gather_signals).         *)
(***************************************************************************)
EXTENDS Naturals, FiniteSets

TerminalStates == {"Done", "NoPR", "NoSafetyNet", "Aborted"}

(* Mutant of OpenCaveats: the tasks left out are not counted.              *)
OpenCaveatsTestsOnly(s) ==
  \/ s.impact = "warn"
  \/ s.strength = "below_floor"
  \/ s.uncovered

(* A signals record: state and reason of the job row; verified, discarded  *)
(* and inconclusive (discarded with the infrastructure prefix), the sets   *)
(* of tasks so settled; integration, security, impact and strength, the    *)
(* last result event of the check, "none" when it did not run; uncovered,  *)
(* whether a touched file has no test or only a generated one.             *)
OpenCaveats(s) ==
  \/ s.impact = "warn"
  \/ s.strength = "below_floor"
  \/ s.discarded # {}
  \/ s.uncovered

ClassifyDone(s) ==
  IF s.reason = "dry_run" \/ s.verified = {} \/ OpenCaveats(s)
    THEN "UNVERIFIED" ELSE "VERIFIED"

AllInconclusive(s) ==
  /\ s.discarded # {}
  /\ Cardinality(s.inconclusive) >= Cardinality(s.discarded)
  /\ s.verified = {}

(* A cancellation first, then what is known to be wrong, then a dependency *)
(* that could not be checked, then a platform that judged nothing.         *)
ClassifyNoPR(s) ==
  IF s.reason = "cancelled" THEN "UNVERIFIED"
  ELSE IF \/ s.impact = "defect"
          \/ s.integration = "fail"
          \/ s.security = "introduced" THEN "FAILED"
  ELSE IF s.impact # "uncheckable" /\ AllInconclusive(s) THEN "ERROR"
  ELSE "UNVERIFIED"

Classify(s) ==
  CASE s.state = "Aborted" -> "ERROR"
    [] s.state = "NoSafetyNet" -> "UNVERIFIED"
    [] s.state = "NoPR" -> ClassifyNoPR(s)
    [] s.state = "Done" -> ClassifyDone(s)
    [] OTHER -> "none"
=============================================================================
