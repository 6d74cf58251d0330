-------------------------------- MODULE Audit --------------------------------
(***************************************************************************)
(* The audit of a verified refactor (principal/gates/strength.py with      *)
(* gates/mutation.py and the loop of sandbox/scripts.py): faults are       *)
(* planned in the changed lines and put in one at a time, the tests run    *)
(* against each, and what they miss is counted.                            *)
(*                                                                         *)
(* A changed file is a sequence of ranges of changed lines, a range the    *)
(* sequence of its mutation sites, and a site is named by its line and     *)
(* what the fault does to it: two sites may have the same name.            *)
(***************************************************************************)
EXTENDS Naturals, Sequences, SequencesExt, FiniteSets

CONSTANTS
  Changes,       \* what a refactor may change: sequences of changed files
  Caps           \* the caps an audit may have

VARIABLES
  changed,     \* the changed Python files, in the order of their paths
  cap,
  planned,     \* the planned faults [file, range, index, name], in order
  step,        \* how far the audit got, see Steps
  turn,        \* the fault that is tried
  tree,        \* per file, the fault its text has, or Patched
  bytecode,    \* per file, what its compiled version was made from, if any
  tried,       \* history: per fault, what the tests ran
  exits,       \* per tried fault, the exit class of the tests
  verdict      \* the status of the result

auditVars == <<changed, cap, planned, step, turn, tree, bytecode, tried, exits, verdict>>

Patched == 0
Steps == {"idle", "planned", "write", "test", "restore", "emit", "over"}

AuditInit ==
  /\ changed \in Changes /\ cap \in Caps
  /\ planned = << >> /\ step = "idle" /\ turn = 1
  /\ tree = [f \in DOMAIN changed |-> Patched]
  /\ bytecode = [f \in DOMAIN changed |-> {Patched}]
  /\ tried = << >> /\ exits = << >>
  /\ verdict = "none"

-----------------------------------------------------------------------------
(* The plan.                                                               *)

(* round(a / b), halves to the even neighbour.                             *)
Round(a, b) ==
  LET q == a \div b
      twice == 2 * (a % b) IN
    IF twice < b \/ (twice = b /\ q % 2 = 0) THEN q ELSE q + 1

(* k of n places, evenly.                                                  *)
Even(n, k) ==
  IF k >= n THEN [i \in 1..n |-> i]
  ELSE IF k = 1 THEN <<1>>
  ELSE [i \in 1..k |-> 1 + Round((i - 1) * (n - 1), k - 1)]

Spread(items, k) ==
  IF k = 0 /\ items # << >> THEN << >>
  ELSE LET places == Even(Len(items), k) IN [i \in DOMAIN places |-> items[places[i]]]

Quota(n, i) == cap \div n + (IF i <= cap % n THEN 1 ELSE 0)

(* What a mutator can alter in one range, docstrings left out.             *)
Sites(f, r) == changed[f][r]

(* generate_mutants: the sites of one range, at most k of them.            *)
Generated(f, r, k) ==
  LET sites == Sites(f, r)
      indices == Even(Len(sites), k) IN
    [i \in DOMAIN indices |->
       [file |-> f, range |-> r, index |-> indices[i], name |-> sites[indices[i]]]]

(* A fault that looks like one found before is not found again.            *)
AddFound(acc, m) ==
  IF \E i \in DOMAIN acc : acc[i].name = m.name /\ acc[i].range = m.range
  THEN acc ELSE Append(acc, m)

Found(f, k) ==
  FoldLeft(AddFound, << >>, FlattenSeq([r \in DOMAIN changed[f] |-> Generated(f, r, k)]))

PerRange(f, quota) ==
  LET share == quota \div Len(changed[f]) IN IF share = 0 THEN 1 ELSE share

(* Files, when there are more of them than faults, are sampled evenly.     *)
Sampled == LET files == [f \in DOMAIN changed |-> f]
           IN IF Len(files) > cap THEN Spread(files, cap) ELSE files

PlanOf ==
  IF changed = << >> \/ cap = 0 THEN << >>
  ELSE FlattenSeq([i \in DOMAIN Sampled |->
         LET f == Sampled[i]
             quota == Quota(Len(Sampled), i) IN
           IF changed[f] = << >> THEN << >> ELSE Spread(Found(f, PerRange(f, quota)), quota)])

Report(status) == verdict' = status /\ step' = "over"

NoImage ==
  /\ step = "idle" /\ Report("unavailable")
  /\ UNCHANGED <<changed, cap, planned, turn, tree, bytecode, tried, exits>>

(* The image is looked up outside the audit's try.                         *)
LookupRaises ==
  /\ step = "planned" /\ Report("raised")
  /\ UNCHANGED <<changed, cap, planned, turn, tree, bytecode, tried, exits>>

PlanMutants ==
  /\ step = "idle" /\ step' = "planned"
  /\ planned' = PlanOf
  /\ UNCHANGED <<changed, cap, turn, tree, bytecode, tried, exits, verdict>>

NothingToAlter ==
  /\ step = "planned" /\ planned = << >>
  /\ Report("no_mutants")
  /\ UNCHANGED <<changed, cap, planned, turn, tree, bytecode, tried, exits>>

-----------------------------------------------------------------------------
(* The loop, one operation of the sandbox.                                 *)

Launch ==
  /\ step = "planned" /\ planned # << >>
  /\ step' = "write"
  /\ UNCHANGED <<changed, cap, planned, turn, tree, bytecode, tried, exits, verdict>>

Fault == planned[turn]

(* Mutant of Write: the compiled version stays.                            *)
WriteBeside ==
  /\ step = "write" /\ step' = "test"
  /\ tree' = [tree EXCEPT ![Fault.file] = turn]
  /\ UNCHANGED <<changed, cap, planned, turn, bytecode, tried, exits, verdict>>

(* The fault is copied over its file and what was compiled is removed.     *)
Write ==
  /\ step = "write" /\ step' = "test"
  /\ tree' = [tree EXCEPT ![Fault.file] = turn]
  /\ bytecode' = [bytecode EXCEPT ![Fault.file] = {}]
  /\ UNCHANGED <<changed, cap, planned, turn, tried, exits, verdict>>

(* What the interpreter may run of a file: its text, or what was compiled  *)
(* from another one of the same second and size.                           *)
MayRun(f) == {tree[f]} \cup bytecode[f]

(* No bytecode is written.  The tests pass, fail, or do not run.           *)
Try ==
  /\ step = "test" /\ step' = "restore"
  /\ \E ran \in [DOMAIN tree -> UNION {MayRun(f) : f \in DOMAIN tree}] :
       /\ \A f \in DOMAIN tree : ran[f] \in MayRun(f)
       /\ tried' = Append(tried, ran)
  /\ \E exit \in {"passed", "failed", "broken"} : exits' = Append(exits, exit)
  /\ UNCHANGED <<changed, cap, planned, turn, tree, bytecode, verdict>>

Restore ==
  /\ step = "restore"
  /\ tree' = [tree EXCEPT ![Fault.file] = Patched]
  /\ bytecode' = [bytecode EXCEPT ![Fault.file] = {}]
  /\ turn' = turn + 1
  /\ step' = IF turn < Len(planned) THEN "write" ELSE "emit"
  /\ UNCHANGED <<changed, cap, planned, tried, exits, verdict>>

(* The operation fails or is cut short: its results, which are emitted at  *)
(* the end of the script, are lost.                                        *)
Lost ==
  /\ step \in {"planned", "write", "test", "restore", "emit"} /\ planned # << >>
  /\ Report("unavailable")
  /\ UNCHANGED <<changed, cap, planned, turn, tree, bytecode, tried, exits>>

Count(class) == Cardinality({i \in DOMAIN exits : exits[i] = class})

(* The summary: only a fault the tests could judge is scored.              *)
Summarise ==
  /\ step = "emit"
  /\ Report(IF Count("passed") + Count("failed") > 0 THEN "measured" ELSE "no_mutants")
  /\ UNCHANGED <<changed, cap, planned, turn, tree, bytecode, tried, exits>>

AuditNext ==
  \/ NoImage \/ PlanMutants \/ LookupRaises \/ NothingToAlter
  \/ Launch \/ Write \/ Try \/ Restore \/ Lost \/ Summarise

-----------------------------------------------------------------------------
Named(i) == <<planned[i].file, planned[i].range, planned[i].name>>

(* The plan is fair: it keeps to its cap, asks nothing twice, and when the *)
(* cap has room for every file no file that can be measured is left out: a *)
(* large change in one file cannot use up the budget of the others.  And   *)
(* the score is that of the plan: when the audit was measured, every       *)
(* planned fault was tried, and the tests that judged it ran the patched   *)
(* tree with that one change.                                              *)
AuditIsSound ==
  /\ step = "planned" =>
       /\ Len(planned) <= cap
       /\ \A i, k \in DOMAIN planned : Named(i) = Named(k) => i = k
       /\ Len(changed) <= cap =>
            \A f \in DOMAIN changed :
              (\E r \in DOMAIN changed[f] : changed[f][r] # << >>)
                => \E i \in DOMAIN planned : planned[i].file = f
  /\ verdict = "measured" =>
       /\ Len(exits) = Len(planned)
       /\ \A i \in DOMAIN planned :
            tried[i] = [f \in DOMAIN changed |-> IF f = planned[i].file THEN i ELSE Patched]
=============================================================================
