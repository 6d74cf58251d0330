----------------------------- MODULE BlastRadius -----------------------------
(***************************************************************************)
(* What a change of the target may reach (principal/graph/radius.py): a    *)
(* breadth-first search over the reverse edges of the code graph.          *)
(*                                                                         *)
(* A code graph is a record: owner maps symbols to the files that define   *)
(* them; calls [caller, file, callee], with NoSymbol for the caller of a   *)
(* call outside any function; imports [file, symbol]; modules [file, of],  *)
(* the files that import a file; loose, the files with an unresolved call  *)
(* of the target's name; tests [test, symbol]; and isTest, a set of files. *)
(* A search is asked for a target, a depth and a cap.                      *)
(***************************************************************************)
EXTENDS Naturals, FiniteSets

CONSTANT NoSymbol

(* What the schema guarantees: whoever calls is a symbol of the graph or   *)
(* unknown, and an edge is what it says and no more.  A depth is a number  *)
(* of rounds; a setting below zero gives none, as zero does.               *)
IsGraph(g) ==
  /\ g.target \in DOMAIN g.owner /\ NoSymbol \notin DOMAIN g.owner
  /\ \A c \in g.calls : c.caller \in DOMAIN g.owner \cup {NoSymbol}
  /\ \A i \in g.imports : i = [file |-> i.file, symbol |-> i.symbol]
  /\ \A m \in g.modules : m = [file |-> m.file, of |-> m.of]
  /\ g.depth \in Nat

(* callers_of, importers_of and importers_of_files, joined: who depends on *)
(* these symbols and on these files in one step.                           *)
CallersOf(g, symbols) == {c \in g.calls : c.callee \in symbols}
Importers(g, symbols, files) ==
  {i.file : i \in {k \in g.imports : k.symbol \in symbols}}
    \cup {m.file : m \in {k \in g.modules : k.of \in files}}

FilesOf(g, symbols) == {g.owner[s] : s \in symbols}
SymbolsIn(g, files) == {s \in DOMAIN g.owner : g.owner[s] \in files}

(* Everything in a file that imports what was reached is reached.          *)
Dependents(g, callers, reached) == ({c.caller : c \in callers} \ {NoSymbol}) \cup SymbolsIn(g, reached)

(* Mutant of Expand: an importing file is reached but not followed.        *)
ExpandSeen(g, b) ==
  LET callers == CallersOf(g, b.frontier)
      reached == Importers(g, b.frontier, FilesOf(g, b.frontier \cup {g.target})) IN
    [seen |-> b.seen \cup Dependents(g, callers, reached),
     frontier |-> Dependents(g, callers, reached) \ (b.seen \cup SymbolsIn(g, reached)),
     files |-> b.files \cup {c.file : c \in callers} \cup reached]

(* One round of the search.                                                *)
Expand(g, b) ==
  LET callers == CallersOf(g, b.frontier)
      reached == Importers(g, b.frontier, FilesOf(g, b.frontier \cup {g.target})) IN
    [seen |-> b.seen \cup Dependents(g, callers, reached),
     frontier |-> Dependents(g, callers, reached) \ b.seen,
     files |-> b.files \cup {c.file : c \in callers} \cup reached]

(* What is known before the first round; a round with nothing new at its   *)
(* edge is the last.                                                       *)
Opening(g) == [seen |-> {g.target}, frontier |-> {g.target}, files |-> {g.owner[g.target]}]
Follow(g, b) == IF b.frontier = {} THEN b ELSE Expand(g, b)

Rounds(g) ==
  LET round[d \in 0..g.depth] == IF d = 0 THEN Opening(g) ELSE Follow(g, round[d - 1])
  IN round

Search(g) == Rounds(g)[g.depth]

(* Files with a call nobody resolved that has the target's name belong to  *)
(* it; too large a radius is refused whole, never cut.                     *)
Radiate(g) ==
  LET found == Search(g)
      files == (found.files \cup g.loose) \ g.isTest IN
    IF Cardinality(files) > g.cap THEN [large |-> TRUE]
    ELSE [large |-> FALSE, files |-> files,
          tests |-> {t.test : t \in {k \in g.tests : k.symbol \in found.seen}}]

-----------------------------------------------------------------------------
(* The reference: whatever depends on the target over at most so many      *)
(* steps, whether or not it was met before.                                *)

DependsOn(g, s, d) ==
  \/ \E c \in g.calls : c.caller = s /\ c.callee = d
  \/ [file |-> g.owner[s], symbol |-> d] \in g.imports
  \/ [file |-> g.owner[s], of |-> g.owner[d]] \in g.modules

FileDependsOn(g, f, d) ==
  \/ \E c \in g.calls : c.file = f /\ c.callee = d
  \/ [file |-> f, symbol |-> d] \in g.imports
  \/ [file |-> f, of |-> g.owner[d]] \in g.modules

AllFiles(g) ==
  {c.file : c \in g.calls} \cup {i.file : i \in g.imports} \cup {m.file : m \in g.modules}

Wider(g, symbols) == symbols \cup {s \in DOMAIN g.owner : \E d \in symbols : DependsOn(g, s, d)}

Within(g) ==
  LET reach[n \in 0..g.depth] == IF n = 0 THEN {g.target} ELSE Wider(g, reach[n - 1])
  IN reach

(* What the last round of a search looks for dependents of.                *)
Nearer(g) == IF g.depth = 0 THEN {} ELSE Within(g)[g.depth - 1]
==============================================================================
