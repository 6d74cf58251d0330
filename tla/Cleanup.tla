------------------------------- MODULE Cleanup -------------------------------
(***************************************************************************)
(* The second planning pass (principal/orchestrator/cleanup.py): which     *)
(* imports and private definitions a refactor left without a use.          *)
(*                                                                         *)
(* A tree maps files to records [python, parses, star, imports, loads,     *)
(* strings, defs, all]: imports [bound, name, from], the names that are    *)
(* read (attributes included), the names in strings, the private top-level *)
(* definitions, and the readable part of __all__.  The graph g maps files  *)
(* to names under test (covered), and knows the names of unresolved calls  *)
(* (unresolved).                                                           *)
(***************************************************************************)
EXTENDS Naturals, FiniteSets

Bound(file) == {imp.bound : imp \in file.imports}

References(file) == file.loads \cup file.strings

(* A name with an underscore is left alone.                                *)
UnusedImports(file, private) ==
  IF ~file.parses \/ file.star THEN {}
  ELSE Bound(file) \ (References(file) \cup file.all \cup private)

(* What a file other than its definer, or the definer itself, still names. *)
(* In the definer a string alone does not count.                           *)
ReferencedIn(tree, path, f) ==
  IF f # path THEN References(tree[f])
  ELSE References(tree[f]) \ (tree[f].defs \ tree[f].loads)

PythonFiles(tree) == {f \in DOMAIN tree : tree[f].python}

(* Mutant of Orphans: only the touched files are searched.                 *)
OrphansOfTouched(tree, touched, g, path) ==
  IF \E f \in PythonFiles(tree) : ~tree[f].parses THEN {}
  ELSE tree[path].defs \
         ((UNION {ReferencedIn(tree, path, f) : f \in touched \cap PythonFiles(tree)})
            \cup tree[path].all \cup g.covered[path] \cup g.unresolved)

(* One file that does not parse makes every conclusion unsafe.             *)
Orphans(tree, touched, g, path) ==
  IF \E f \in PythonFiles(tree) : ~tree[f].parses THEN {}
  ELSE tree[path].defs \
         ((UNION {ReferencedIn(tree, path, f) : f \in PythonFiles(tree)})
            \cup tree[path].all \cup g.covered[path] \cup g.unresolved)

(* plan_cleanup: a task for every touched file with something to remove.   *)
CleanupTasks(tree, touched, g, private) ==
  {t \in {[file |-> f,
           imports |-> UnusedImports(tree[f], private),
           symbols |-> Orphans(tree, touched, g, f)] : f \in touched \cap PythonFiles(tree)} :
     t.imports # {} \/ t.symbols # {}}

-----------------------------------------------------------------------------
(* What the plan does when it is carried out, and what that may break.     *)

Removed(tasks, f, field) == UNION {t[field] : t \in {u \in tasks : u.file = f}}

CleanedTree(tree, tasks) ==
  [f \in DOMAIN tree |->
     [python |-> tree[f].python, loads |-> tree[f].loads, strings |-> tree[f].strings,
      imports |-> {i \in tree[f].imports : i.bound \notin Removed(tasks, f, "imports")},
      defs |-> tree[f].defs \ Removed(tasks, f, "symbols")]]

Offers(tree, f) == tree[f].defs \cup Bound(tree[f])

(* Something that was there is not: a name a file imports, reads, or looks *)
(* up as a string in another file.                                         *)
Dangling(tree, before) ==
  \/ \E f \in PythonFiles(tree) : \E i \in tree[f].imports :
       i.from \in DOMAIN tree /\ i.name \in Offers(before, i.from) \ Offers(tree, i.from)
  \/ \E f \in PythonFiles(tree) :
       (tree[f].loads \cap Offers(before, f)) \ Offers(tree, f) # {}
  \/ \E f, d \in PythonFiles(tree) :
       f # d /\ (tree[f].strings \cap before[d].defs) \ tree[d].defs # {}

(* The trees the pass can judge: a private definition is imported under    *)
(* its own name by files that read it or pass it on in __all__, and what a *)
(* file passes on is in its __all__.                                       *)
Plain(tree) ==
  \A f \in PythonFiles(tree) : \A i \in tree[f].imports :
    /\ i.bound = i.name
    /\ i.from \in DOMAIN tree =>
         /\ i.name \in tree[i.from].defs => i.name \in tree[f].loads
         /\ i.name \in Bound(tree[i.from]) => i.name \in tree[i.from].all \cup tree[i.from].loads

=============================================================================
