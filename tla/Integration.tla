----------------------------- MODULE Integration -----------------------------
(***************************************************************************)
(* From a green integration run to the gates that compare it with the      *)
(* baseline (principal/orchestrator/job.py, _integrate_and_publish;        *)
(* gates/behaviour.py; the comparison of gates/security.py).  The sandbox  *)
(* applied the winning diffs one after the other; the host rebuilds the    *)
(* touched files from the same diffs, by their line numbers, and judges    *)
(* what it has rebuilt.                                                    *)
(*                                                                         *)
(* The text of a file is a record [exports, flaws]: the names it exports   *)
(* and the fingerprints of the security findings in it.  A verified task   *)
(* is a record [file, readable, exact, drops, adds, mends, flaws]: whether *)
(* its diff is on disk, whether it still applies by its numbers after the  *)
(* diffs before it, and what it does to the text.  An input g has          *)
(*   tasks               the verified tasks in seq order,                  *)
(*   text                per file, its text in the snapshot,               *)
(*   parsed, python      the files of a known language and those in Python,*)
(*   names, fqns         the removals the tasks declare, by name or in full,*)
(*   collected           the tests collected [before, after],              *)
(*   covered             per file, its line coverage [before, after].      *)
(***************************************************************************)
EXTENDS Naturals, Sequences, SequencesExt

CONSTANT Unmeasured    \* a count or a coverage nobody has

Touched(g) == {g.tasks[i].file : i \in DOMAIN g.tasks}

Edited(text, d) ==
  [exports |-> (text.exports \ d.drops) \cup d.adds,
   flaws |-> (text.flaws \ d.mends) \cup d.flaws]

(* The winning diffs of a file, kept by task: a cleanup task has the file  *)
(* of a refactor task.                                                     *)
Winning(g, f) == SelectSeq(g.tasks, LAMBDA t : t.file = f /\ t.readable)

(* What the sandbox tested: git finds a hunk that other diffs have moved.  *)
Applied(g, f, diffs) == FoldLeft(Edited, g.text[f], diffs)
Tested(g, f) == Applied(g, f, Winning(g, f))

(* What the host rebuilds: a diff that does not apply is left out with a   *)
(* warning, and the file counts as patched when any of its diffs applied.  *)
Exact(g, f) == SelectSeq(Winning(g, f), LAMBDA d : d.exact)

(* Mutant of Rebuilt: every diff is applied to the snapshot.               *)
RebuiltAfresh(g, f) ==
  IF Exact(g, f) = << >> THEN g.text[f] ELSE Edited(g.text[f], Last(Exact(g, f)))

Rebuilt(g, f) == Applied(g, f, Exact(g, f))
AppliedAny(g, f) == Exact(g, f) # << >>

(* The tree of the impact gate and of the audit holds Python files only,   *)
(* and a diff of any other file meets an empty text.                       *)
Unapplied(g) == {f \in Touched(g) : f \notin g.python \/ ~AppliedAny(g, f)}
PatchedTree(g) == [f \in g.python |-> IF f \in Touched(g) THEN Rebuilt(g, f) ELSE g.text[f]]

-----------------------------------------------------------------------------
(* Gate 4's companions (check_api_delta, check_test_count,                 *)
(* check_coverage_floor).                                                  *)

PatchedExports(g, f) ==
  IF AppliedAny(g, f) /\ f \in g.parsed THEN Rebuilt(g, f).exports ELSE {}

Declared(g, f, n) == n \in g.names \/ <<f, n>> \in g.fqns

RemovedUndeclared(g) ==
  {m \in UNION {{f} \X g.text[f].exports : f \in Touched(g) \cap g.parsed} :
     m[2] \notin PatchedExports(g, m[1]) /\ ~Declared(g, m[1], m[2])}

Measured(p) == Unmeasured \notin {p.before, p.after}
TestCountOk(g) == Measured(g.collected) => g.collected.before = g.collected.after
CoverageOk(g) ==
  \A f \in Touched(g) : Measured(g.covered[f]) => g.covered[f].after >= g.covered[f].before

(* What gate 5 scans of a touched file.                                    *)
ScanTexts(g, f) == [before |-> g.text[f], after |-> Rebuilt(g, f)]

(* Gate 5: a finding is known when the same rule met the same code in the  *)
(* same file before.                                                       *)
Introduced(g) ==
  UNION {{f} \X (ScanTexts(g, f).after.flaws \ ScanTexts(g, f).before.flaws) : f \in Touched(g)}

(* The gates in order; the first that objects ends the job.  A file the    *)
(* host could not rebuild is an objection of the impact gate.              *)
Gates(g) ==
  << [gate |-> "api", ok |-> RemovedUndeclared(g) = {}],
     [gate |-> "tests", ok |-> TestCountOk(g)],
     [gate |-> "coverage", ok |-> CoverageOk(g)],
     [gate |-> "security", ok |-> Introduced(g) = {}],
     [gate |-> "uncheckable", ok |-> Unapplied(g) = {}] >>

Judged(g) ==
  LET objecting == {i \in DOMAIN Gates(g) : ~Gates(g)[i].ok} IN
    IF \A f \in Touched(g) : Winning(g, f) = << >> THEN "no diff"
    ELSE IF objecting = {} THEN "passed"
    ELSE Gates(g)[CHOOSE i \in objecting : \A k \in objecting : i <= k].gate

-----------------------------------------------------------------------------
(* The host has the file as the sandbox had it, or nothing of it.          *)
Replayed(g, f) == Exact(g, f) \in {Winning(g, f), << >>}

(* What the gates read of a touched file is what was tested.               *)
ReadAsTested(g, f) ==
  /\ Rebuilt(g, f) = Tested(g, f)
  /\ f \in g.python => PatchedTree(g)[f] = Tested(g, f)
=============================================================================
