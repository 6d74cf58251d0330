----------------------------- MODULE SafetyNet -----------------------------
(***************************************************************************)
(* The safety net of a job: the test_edge rows of its graph and the        *)
(* generated tests of its baseline image (_map, _characterise, _plan,      *)
(* _characterisation_diff of principal/orchestrator/job.py,                *)
(* establish_safety_net of gates/characterise.py, select_tests of          *)
(* gates/tests.py).  A graph belongs to a repository at a commit and is    *)
(* shared by the jobs that work on it; an image, an artifact and the       *)
(* radius belong to one job.  The jobs of this model work on one commit.   *)
(*                                                                         *)
(* A job is asked for a target by some name, and a symbol has many: its    *)
(* full name, the end of it, its bare name.                                *)
(***************************************************************************)
EXTENDS Naturals

CONSTANTS
  Jobs,      \* the jobs on the commit
  Symbols,   \* the symbols of the graph
  Files,     \* the files that define them
  FileOf,    \* the file of a symbol
  Reach,     \* the symbols of the blast radius of a symbol
  Requests,  \* the names a target can be asked for by
  Fqn,       \* the full name of a symbol
  Resolve,   \* the symbol a name resolves to (find_target)
  PathOf,    \* the test file of a name (characterisation_path)
  Names,     \* the names of generated tests
  Methods    \* those of them that are not functions of the module

ASSUME SafetyNetAssumption ==
  /\ FileOf \in [Symbols -> Files]
  /\ Reach \in [Symbols -> SUBSET Symbols]
  /\ \A s \in Symbols : s \in Reach[s]
  /\ Fqn \in [Symbols -> Requests] /\ Resolve \in [Requests -> Symbols]
  /\ \A s \in Symbols : Fqn[Resolve[Fqn[s]]] = Fqn[s]
  /\ DOMAIN PathOf = Requests
  /\ Methods \subseteq Names

VARIABLES
  own,       \* what the repository's tests do to a symbol: import it, run it
  built,     \* whether the graph exists
  edges,     \* test_edge
  asked,     \* per job, the name of its target as it was asked for
  progress,     \* per job, where its coroutine is
  written,   \* per job, the generated suite that is being proved
  image,     \* per job, the generated tests its baseline image holds
  artifact,  \* per job, its characterisation artifact
  radius,    \* per job, radius.tests as of its planning
  gate,      \* per job, what its last candidate was run with
  published  \* per job, the generated tests of its pull request

rows == <<built, edges>>
net == <<written, image, artifact>>
netVars == <<own, rows, asked, progress, net, radius, gate, published>>

(* job.target_fqn is what was asked for; every phase resolves it afresh,   *)
(* and the graph of a commit always gives the same answer.                 *)
Target(j) == Resolve[asked[j]]

(* A test is its pytest node: its file and its name.  The repository's     *)
(* tests of a symbol count as one, in a file of the symbol's own; a        *)
(* generated test is in the file that a name of the target gives.  Names   *)
(* that differ in case or punctuation alone share a file.                  *)
RepoTest(s) == [suite |-> "repo", file |-> s, name |-> "repo"]
Generated(asName, n) == [suite |-> "generated", file |-> PathOf[asName], name |-> n]

RepoTests == {RepoTest(s) : s \in Symbols}
GeneratedTests == {Generated(r, n) : r \in Requests, n \in Names}
Tests == RepoTests \cup GeneratedTests

Edges == [symbol : Symbols, test : Tests,
          source : {"import", "coverage", "characterisation"}]

NetInit ==
  /\ own \in [Symbols -> SUBSET {"import", "coverage"}]
  /\ asked \in [Jobs -> Requests]
  /\ built = FALSE /\ edges = {}
  /\ progress = [j \in Jobs |-> "baselining"]
  /\ written = [j \in Jobs |-> {}]
  /\ image = [j \in Jobs |-> {}]
  /\ artifact = [j \in Jobs |-> {}]
  /\ radius = [j \in Jobs |-> {}]
  /\ gate = [j \in Jobs |-> {}]
  /\ published = [j \in Jobs |-> {}]

-----------------------------------------------------------------------------
(* The rows.                                                               *)

TestsCovering(S, E) == {e \in E : e.symbol \in S}

Rows(S, source) == {[symbol |-> s, test |-> RepoTest(s), source |-> source] : s \in S}

(* build: what the bindings of the test files name.                        *)
ImportRows == Rows({s \in Symbols : "import" \in own[s]}, "import")

(* ingest_coverage: the symbols whose lines a test of the baseline ran.    *)
CoverageRows == Rows({s \in Symbols : "coverage" \in own[s]}, "coverage")

(* The import rows are written once for the graph, the coverage rows by    *)
(* every job whose own baseline run left a report.                         *)
Mapped(reported) ==
  edges \cup (IF built THEN {} ELSE ImportRows) \cup (IF reported THEN CoverageRows ELSE {})

NeedsCharacterisation(s, E) == TestsCovering({s}, E) = {}

(* seed_radius: the tests of every symbol in the blast radius, whoever     *)
(* registered them.                                                        *)
RadiusTests(s, E) == {e.test : e \in TestsCovering(Reach[s], E)}

(* Mutant of Chosen: generated tests are selected like the others.         *)
ChosenAll(f, E) == TestsCovering({s \in Symbols : FileOf[s] = f}, E)

(* select_tests: the coverage rows of the symbols of a file, or else the   *)
(* import rows.  Nothing chosen stands for the whole suite.                *)
Chosen(f, E) ==
  LET covering == TestsCovering({s \in Symbols : FileOf[s] = f}, E)
      coverage == {e \in covering : e.source = "coverage"}
  IN IF coverage # {} THEN coverage ELSE {e \in covering : e.source = "import"}

OnDisk(j) == RepoTests \cup image[j]

SelectTests(j, f) ==
  IF Chosen(f, edges) = {} THEN OnDisk(j) ELSE {e.test : e \in Chosen(f, edges)}

-----------------------------------------------------------------------------
(* One job, from await to await.                                           *)

(* _map, up to the question of _characterise and, when it has nothing to   *)
(* do, on to the radius of _plan: nothing is awaited in between.           *)
MapCovered(j) ==
  /\ progress[j] = "baselining"
  /\ \E reported \in BOOLEAN :
       /\ ~NeedsCharacterisation(Target(j), Mapped(reported))
       /\ edges' = Mapped(reported)
       /\ radius' = [radius EXCEPT ![j] = RadiusTests(Target(j), Mapped(reported))]
  /\ built' = TRUE
  /\ progress' = [progress EXCEPT ![j] = "executing"]
  /\ UNCHANGED <<own, asked, net, gate, published>>

MapUncovered(j) ==
  /\ progress[j] = "baselining"
  /\ \E reported \in BOOLEAN :
       /\ NeedsCharacterisation(Target(j), Mapped(reported))
       /\ edges' = Mapped(reported)
  /\ built' = TRUE
  /\ progress' = [progress EXCEPT ![j] = "asking"]
  /\ UNCHANGED <<own, asked, net, radius, gate, published>>

(* run_plan_only: the rows of the map and the radius, and no safety net.   *)
MapDry(j) ==
  /\ progress[j] = "baselining"
  /\ \E reported \in BOOLEAN :
       /\ edges' = Mapped(reported)
       /\ radius' = [radius EXCEPT ![j] = RadiusTests(Target(j), Mapped(reported))]
  /\ built' = TRUE
  /\ progress' = [progress EXCEPT ![j] = "dry"]
  /\ UNCHANGED <<own, asked, net, gate, published>>

(* The Characteriser answers, and its suite goes to the sandbox.           *)
Write(j) ==
  /\ progress[j] = "asking"
  /\ \E N \in SUBSET Names :
       written' = [written EXCEPT ![j] = {Generated(Fqn[Target(j)], n) : n \in N}]
  /\ progress' = [progress EXCEPT ![j] = "proving"]
  /\ UNCHANGED <<own, rows, asked, image, artifact, radius, gate, published>>

(* _register_characterisation finds the functions named test_ of the       *)
(* module; a test that is a method has no row.                             *)
Registered(j) ==
  {[symbol |-> Target(j), test |-> t, source |-> "characterisation"] :
     t \in {u \in written[j] : u.name \notin Methods}}

(* Mutant of Rebaselined: the job keeps the image it had.                  *)
RebaselinedNever(j) == image[j]

Rebaselined(j) == written[j]

(* The suite passed on C0, collected something and met the mutation floor: *)
(* it is kept, registered and put on the image, and the job plans.         *)
Establish(j) ==
  /\ progress[j] = "proving" /\ written[j] # {}
  /\ artifact' = [artifact EXCEPT ![j] = written[j]]
  /\ edges' = edges \cup Registered(j)
  /\ image' = [image EXCEPT ![j] = Rebaselined(j)]
  /\ radius' = [radius EXCEPT ![j] = RadiusTests(Target(j), edges \cup Registered(j))]
  /\ progress' = [progress EXCEPT ![j] = "executing"]
  /\ UNCHANGED <<own, built, asked, written, gate, published>>

(* Any other result of establish_safety_net is NoSafetyNet.                *)
Refuse(j) ==
  /\ progress[j] = "proving"
  /\ progress' = [progress EXCEPT ![j] = "refused"]
  /\ UNCHANGED <<own, rows, asked, net, radius, gate, published>>

(* A candidate for a file of the radius goes to the sandbox: the tests are *)
(* selected from the rows as they are then.                                *)
Gate(j) ==
  /\ progress[j] = "executing"
  /\ \E s \in Reach[Target(j)] :
       gate' = [gate EXCEPT ![j] = {[file |-> FileOf[s], tests |-> SelectTests(j, FileOf[s])]}]
  /\ UNCHANGED <<own, rows, asked, progress, net, radius, published>>

(* Mutant of CharacterisationDiff: the artifact of whichever job.          *)
CharacterisationDiffAny(j) ==
  IF \E e \in edges : e.source = "characterisation" /\ e.test.file = PathOf[asked[j]]
  THEN {[t EXCEPT !.file = PathOf[asked[j]]] : t \in UNION {artifact[k] : k \in Jobs}}
  ELSE {}

(* _characterisation_diff: the artifact of the job, if the file that the   *)
(* target's name gives, as it was asked for, has a row of a generated      *)
(* test; it is published as that file.                                     *)
CharacterisationDiff(j) ==
  IF \E e \in edges : e.source = "characterisation" /\ e.test.file = PathOf[asked[j]]
  THEN {[t EXCEPT !.file = PathOf[asked[j]]] : t \in artifact[j]}
  ELSE {}

Publish(j) ==
  /\ progress[j] = "executing"
  /\ published' = [published EXCEPT ![j] = CharacterisationDiff(j)]
  /\ progress' = [progress EXCEPT ![j] = "published"]
  /\ UNCHANGED <<own, rows, asked, net, radius, gate>>

(* The job is cancelled, aborts or ends without a pull request; the rows   *)
(* it wrote stay.                                                          *)
GiveUp(j) ==
  /\ progress[j] \in {"baselining", "asking", "proving", "executing"}
  /\ progress' = [progress EXCEPT ![j] = "stopped"]
  /\ UNCHANGED <<own, rows, asked, net, radius, gate, published>>

NetNext ==
  \E j \in Jobs :
    \/ MapCovered(j) \/ MapUncovered(j) \/ MapDry(j)
    \/ Write(j) \/ Establish(j) \/ Refuse(j)
    \/ Gate(j) \/ Publish(j) \/ GiveUp(j)

NetSpec == NetInit /\ [][NetNext]_netVars

-----------------------------------------------------------------------------
(* Properties.                                                             *)

NetTypeOK ==
  /\ own \in [Symbols -> SUBSET {"import", "coverage"}]
  /\ built \in BOOLEAN /\ edges \subseteq Edges
  /\ asked \in [Jobs -> Requests]
  /\ progress \in [Jobs -> {"baselining", "asking", "proving", "executing", "dry",
                         "refused", "published", "stopped"}]
  /\ written \in [Jobs -> SUBSET GeneratedTests]
  /\ image \in [Jobs -> SUBSET GeneratedTests]
  /\ artifact \in [Jobs -> SUBSET GeneratedTests]
  /\ radius \in [Jobs -> SUBSET Tests]
  /\ gate \in [Jobs -> SUBSET [file : Files, tests : SUBSET Tests]]
  /\ published \in [Jobs -> SUBSET GeneratedTests]

(* A candidate is never run with a test that its own image does not hold,  *)
(* whatever other jobs on the commit have registered since: such a run is  *)
(* an error of pytest, which every candidate would be blamed for           *)
(* (select_tests, the re-baselining of _characterise).                     *)
GateRunsOnDisk ==
  \A j \in Jobs : \A run \in gate[j] : run.tests \subseteq OnDisk(j)

InExecution(j) == progress[j] \in {"executing", "published"}

Covered(s) == \E e \in edges : e.symbol = s /\ e.source # "characterisation"

(* A job works on a target that a test of the repository covers, or holds  *)
(* generated tests on its own image, or finds the rows of another job on   *)
(* the same target that had them (_characterise, NoSafetyNet).             *)
NetOrBorrowed ==
  \A j \in Jobs : InExecution(j) =>
    \/ Covered(Target(j))
    \/ image[j] # {}
    \/ \E k \in Jobs \ {j} : Target(k) = Target(j) /\ artifact[k] # {}

HasRow(t) == t.name \notin Methods

(* A pull request carries generated tests of its own job and no other's,   *)
(* by the names they have on the image of the job.  When the job was asked *)
(* for its target by a name of the same file as the full name, they are in *)
(* the file that ran, and they are all there when one of them has a row    *)
(* (_characterisation_diff against _characterise).                         *)
NetPublished ==
  \A j \in Jobs : progress[j] = "published" =>
    /\ published[j] # {} =>
         published[j] = {[t EXCEPT !.file = PathOf[asked[j]]] : t \in image[j]}
    /\ PathOf[asked[j]] = PathOf[Fqn[Target(j)]] =>
         /\ published[j] \subseteq image[j]
         /\ (\E t \in image[j] : HasRow(t)) => published[j] = image[j]

(* Not so (README, disagreements): the pull request carries the test that  *)
(* the refactor rests on (_characterisation_diff, job.py:1118-1123); not   *)
(* when the target was asked for by its bare name or the end of its name.  *)
NetReachesPullRequest ==
  \A j \in Jobs : progress[j] = "published" =>
    ((\E t \in image[j] : HasRow(t)) => published[j] = image[j])

(* Not so (README, disagreements): a net is established where the          *)
(* repository has no oracle (_characterise); another job may have left its *)
(* rows.                                                                   *)
TargetHasOracle == \A j \in Jobs : InExecution(j) => Covered(Target(j)) \/ image[j] # {}

(* Not so (README, disagreements): the generated tests are picked up by    *)
(* the selection (_register_characterisation); not when the file has other *)
(* tests.                                                                  *)
NetIsSelected ==
  \A j \in Jobs : \A run \in gate[j] :
    run.file = FileOf[Target(j)] =>
      \A t \in image[j] : HasRow(t) => t \in run.tests
=============================================================================
