------------------------------ MODULE Analyses ------------------------------
(***************************************************************************)
(* What the orchestrator computes about a candidate and about a verified   *)
(* refactor: the blast radius (BlastRadius), the local gates (Patch), the  *)
(* impact gate (Impact over Signatures), the cleanup pass (Cleanup), the   *)
(* gates after integration (Integration) and the audit (Audit).  The       *)
(* analyses share no state: a behaviour is one use of one of them.         *)
(***************************************************************************)
EXTENDS Patch, Impact, Cleanup, Audit, BlastRadius, Integration

CONSTANTS
  Comparisons,   \* signatures before and after, and calls: [before, after, call]
  ImpactInputs,  \* what the impact gate may be given, see Impact
  CleanupInputs, \* what the cleanup pass may be given: [tree, touched, g]
  IntegrationInputs, \* green integration runs, see Integration
  Graphs,        \* code graphs and what is asked of them, see BlastRadius
  Private,       \* the names with an underscore
  Unanswered     \* no answer yet

(* A parameter list, of any length.                                        *)
Listed(p) ==
  /\ Len(p.positional) \in Nat /\ DOMAIN p.positional = 1..Len(p.positional)
  /\ p.posonly \in Nat

(* What the parsers and the planner hand over: parameter lists and changes *)
(* are lists, the calls the impact gate looks at were parsed from Python   *)
(* files, and Python is one of the languages whose exports are extracted.  *)
ASSUME AnalysesAssumption ==
  /\ \A c \in Comparisons : Listed(c.before) /\ Listed(c.after) /\ c.call.npos \in Nat
  /\ \A g \in ImpactInputs :
       /\ \A c \in g.calls : c.file \in g.python /\ c.call.npos \in Nat
       /\ g.after # NoFn => IsSequence(g.after.posonly) /\ IsSequence(g.after.args)
  /\ \A g \in IntegrationInputs : g.python \subseteq g.parsed
  /\ \A g \in Graphs : IsGraph(g)
  /\ Caps \subseteq Nat
  /\ \A c \in Changes :
       /\ IsSequence(c)
       /\ \A f \in DOMAIN c : IsSequence(c[f]) /\ \A r \in DOMAIN c[f] : IsSequence(c[f][r])

VARIABLES
  input,       \* of an analysis without state of its own
  report       \* what it answers

vars == <<patchVars, auditVars, input, report>>

NoPatch ==
  /\ source = << >> /\ reply = "none" /\ stage = "unused"
  /\ placed = 0 /\ cursor = 0 /\ out = << >> /\ paths = {}

NoAudit ==
  /\ changed = << >> /\ cap = 0 /\ planned = << >> /\ step = "unused" /\ turn = 1
  /\ tree = << >> /\ bytecode = << >> /\ tried = << >> /\ exits = << >>
  /\ verdict = "none"

Asked(use, inputs) ==
  /\ \E asked \in inputs : input = [use |-> use, asked |-> asked]
  /\ NoPatch /\ NoAudit

Init ==
  /\ report = Unanswered
  /\ \/ input = [use |-> "patch"] /\ PatchInit /\ NoAudit
     \/ input = [use |-> "audit"] /\ AuditInit /\ NoPatch
     \/ Asked("radius", Graphs)
     \/ Asked("compare", Comparisons)
     \/ Asked("impact", ImpactInputs)
     \/ Asked("cleanup", CleanupInputs)
     \/ Asked("integration", IntegrationInputs)

Answer(use, answer) ==
  /\ input.use = use /\ report = Unanswered
  /\ report' = answer
  /\ UNCHANGED <<patchVars, auditVars, input>>

FindRadius ==
  /\ input.use = "radius"
  /\ Answer("radius", Radiate(input.asked))

CompareSignatures ==
  /\ input.use = "compare"
  /\ Answer("compare", [breaking |-> SignatureBreaking(input.asked.before, input.asked.after),
                        before |-> CallCompat(input.asked.call, input.asked.before),
                        after |-> CallCompat(input.asked.call, input.asked.after)])

AnalyseImpact ==
  /\ input.use = "impact"
  /\ Answer("impact", Findings(input.asked))

PlanCleanup ==
  /\ input.use = "cleanup"
  /\ Answer("cleanup", CleanupTasks(input.asked.tree, input.asked.touched, input.asked.g, Private))

JudgeIntegration ==
  /\ input.use = "integration"
  /\ Answer("integration", Judged(input.asked))

Next ==
  \/ PatchNext /\ UNCHANGED <<auditVars, input, report>>
  \/ AuditNext /\ UNCHANGED <<patchVars, input, report>>
  \/ FindRadius \/ CompareSignatures \/ AnalyseImpact \/ PlanCleanup
  \/ JudgeIntegration

Spec == Init /\ [][Next]_vars

-----------------------------------------------------------------------------
Answered(use) == input.use = use /\ report # Unanswered

(* The radius misses nothing within its depth: the files and the tests it  *)
(* names are those of whatever depends on the target over so many steps,   *)
(* and a radius over the cap is refused and not cut (radius.py:3-7).       *)
RadiusIsReach ==
  Answered("radius") =>
    LET g == input.asked
        files == ({g.owner[g.target]} \cup g.loose
                    \cup {f \in AllFiles(g) : \E d \in Nearer(g) : FileDependsOn(g, f, d)}) \ g.isTest IN
      IF Cardinality(files) > g.cap THEN report.large
      ELSE /\ report.files = files
           /\ report.tests = {t.test : t \in {k \in g.tests : k.symbol \in Within(g)[g.depth]}}

Decided(p) == WellFormed(p) /\ (p.posonly = 0 \/ ~p.kwarg)

(* The check of one call says what Python's binding of it says, unless the *)
(* signature has positional-only parameters and takes any keyword.         *)
CompatIsBinding ==
  Answered("compare") =>
    LET c == input.asked IN
      /\ Decided(c.before) /\ ~c.call.open => (report.before <=> Accepts(c.call, c.before))
      /\ Decided(c.after) /\ ~c.call.open => (report.after <=> Accepts(c.call, c.after))

(* A change of signature that is not called breaking breaks no call: what  *)
(* the old signature accepted the new one does, when the survivors keep    *)
(* their defaults, *args and **kwargs, and nothing is positional-only.     *)
NotBreakingBreaksNothing ==
  Answered("compare") =>
    LET c == input.asked IN
      ~report.breaking /\ Relaxed(c.before, c.after) /\ WellFormed(c.before) /\ WellFormed(c.after)
        /\ c.before.posonly = 0 /\ c.after.posonly = 0 /\ ~c.call.open
        => (Accepts(c.call, c.before) => Accepts(c.call, c.after))

Blocked(findings) == {f \in findings : f.severity = "block"}

(* The call is spelled as a call on the line of a known site of its file.  *)
SpelledAsBefore(g, c) == \E s \in g.sites : s.file = c.file /\ c.text \in s.texts

TargetCalls(g) == {c \in g.calls : c.file \in Callers(g) /\ c.callee = "target"}

(* What the gate lets through must say of a call: there is a definition    *)
(* for it, which accepts it, or an alias.                                  *)
Suits(g, c) ==
  /\ g.after = NoFn => g.defines
  /\ g.after # NoFn /\ ~c.call.open /\ Decided(Interface(g)) => Accepts(c.call, Interface(g))

(* A refactor of a Python function that the gate lets through has looked   *)
(* at every caller: each has a task or was declined, the Python files      *)
(* among them parse, and the calls of the target in them that are spelled  *)
(* as at a known site are calls that the definition left there accepts.    *)
CallersFit ==
  Answered("impact") /\ Blocked(report) = {} =>
    LET g == input.asked IN
      IsFunction(g) /\ g.target \in g.python =>
        /\ Callers(g) \cap g.python \subseteq g.parses
        /\ Callers(g) \subseteq g.planned \cup g.declined
        /\ \A c \in TargetCalls(g) : SpelledAsBefore(g, c) => Suits(g, c)

(* Not so (README, disagreements): the gate compares every known caller    *)
(* with the interface that is left behind (impact.py:517).  A call that    *)
(* the patch spells another way, through its module or a renamed receiver, *)
(* is not looked at.                                                       *)
EveryCallFits ==
  Answered("impact") /\ Blocked(report) = {} =>
    LET g == input.asked IN
      IsFunction(g) /\ g.target \in g.python => \A c \in TargetCalls(g) : Suits(g, c)

(* A call is reported only on a definite mismatch (impact.py:225-227): in  *)
(* the file there is a call of the target that Python would refuse.        *)
DefiniteMismatch ==
  Answered("impact") =>
    \A f \in report : f.kind = "incompatible_call" =>
      \E c \in input.asked.calls : c.file = f.file /\ c.callee = "target"
                                    /\ ~Accepts(c.call, Interface(input.asked))

(* Nothing is left dangling by a cleanup: in a tree the pass can judge, no *)
(* file imports, reads or looks up a name that the plan takes away.        *)
NothingDangles ==
  Answered("cleanup") /\ Plain(input.asked.tree) =>
    ~Dangling(CleanedTree(input.asked.tree, report), input.asked.tree)

(* What the gates pass they have checked of the code that was tested: in a *)
(* touched file of which no diff was left out, the tested text exports     *)
(* everything the snapshot did that no task declares gone, it has no       *)
(* finding the snapshot had not, and it is what every gate has read.       *)
PassedIsChecked ==
  Answered("integration") /\ report = "passed" =>
    LET g == input.asked IN
      \A f \in Touched(g) : Replayed(g, f) =>
        /\ \A n \in g.text[f].exports \ Tested(g, f).exports : Declared(g, f, n)
        /\ Tested(g, f).flaws \subseteq g.text[f].flaws
        /\ ReadAsTested(g, f)

(* Not so (README, disagreements): the gates read exactly what the sandbox *)
(* tested (the docstring of _patched_trees, job.py:991-992).  Of two diffs *)
(* written against the same text the second may apply for git, which looks *)
(* for a hunk nearby, and not by its numbers; the host leaves it out and   *)
(* counts the file patched.                                                *)
GatesReadTested ==
  Answered("integration") /\ report = "passed" =>
    \A f \in Touched(input.asked) : ReadAsTested(input.asked, f)
=============================================================================
