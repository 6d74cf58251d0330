------------------------------- MODULE Impact -------------------------------
(***************************************************************************)
(* The integration step's impact analysis (principal/gates/impact.py,      *)
(* analyse_impact): what a refactor was expected to change against what it *)
(* changed, and every known caller against the interface it left behind.   *)
(*                                                                         *)
(* The input is a record, see ImpactInput below; files are abstract, and a *)
(* call is what Signatures takes it for.                                   *)
(***************************************************************************)
EXTENDS Signatures, FiniteSets

CONSTANT NoFn    \* no definition: it is not there or cannot be read

(* Fields of an input g:                                                   *)
(*   radius, planned, touched, discarded, declined, python    sets of files *)
(*   target         the file that defines the target                       *)
(*   kind           "function", "method" or "other"                        *)
(*   sites          the known call sites of the target in the baseline:    *)
(*                  [file, name, texts], its bare name and how the callees *)
(*                  of all calls on its line are spelled there             *)
(*   calls          calls [file, text, callee, call] in the patched tree:  *)
(*                  how the callee is spelled and whether it is the        *)
(*                  "target" or an "other" function                        *)
(*   parses         the files that parse in the patched tree               *)
(*   before         the target's definition, or NoFn when it is not read   *)
(*   after          its definition after the patch, or NoFn                *)
(*   defines        whether the target's name is still bound in its module *)
(*   others         public functions [file, before, after, users] changed  *)
(*   dynamic        unresolved call paths [file, run]                      *)
(*   measured       whether there is baseline coverage                     *)
(*   removal        whether the plan declared the removal of a name that   *)
(*                  is gone                                                *)
(*   lookups        files that look names up on the target's module: what  *)
(*                  is gone by its name (named), something computed, and   *)
(*                  whether they hold its name as a string (literal)       *)

Finding(kind, severity, file) == [kind |-> kind, severity |-> severity, file |-> file]

Callers(g) == {s.file : s \in g.sites}

(* Step 1: outside the blast radius.                                       *)
OutOfScope(g) == {Finding("out_of_scope", "block", f) : f \in g.touched \ g.radius}

(* Step 2: callers without a task or an explanation, or whose task failed. *)
PlanFindings(g) ==
  {Finding("incomplete_plan", "block", f) : f \in Callers(g) \ (g.planned \cup g.declined)}
  \cup {Finding("call_site_declined", "info", f) : f \in (Callers(g) \cap g.declined) \ g.planned}
  \cup {Finding("unmigrated_call_site", "warn", f) : f \in g.discarded \cap Callers(g)}

(* Step 3: the target's own interface.                                     *)
Uncheckable(g) ==
  \/ g.before = NoFn
  \/ g.target \in g.touched /\ g.target \notin g.parses

IsFunction(g) == g.kind \in {"function", "method"}
Compared(g) == IsFunction(g) /\ g.target \in g.python /\ ~Uncheckable(g)

TargetFindings(g) ==
  IF ~IsFunction(g) THEN {Finding("unchecked_kind", "warn", g.target)}
  ELSE IF g.target \notin g.python THEN {Finding("unchecked_language", "warn", g.target)}
  ELSE IF Uncheckable(g) THEN {Finding("uncheckable", "block", g.target)}
  ELSE {}

Status(g) ==
  CASE ~Compared(g) -> "unread"
    [] Compared(g) /\ g.after = NoFn /\ g.defines -> "aliased"
    [] Compared(g) /\ g.after = NoFn /\ ~g.defines -> "removed"
    [] Compared(g) /\ g.after # NoFn /\ g.after = g.before -> "unchanged"
    [] Compared(g) /\ g.after # NoFn /\ g.after # g.before -> "changed"

Interface(g) == Params(g.after, g.kind = "method")

(* Step 4: every known caller against the interface that is left behind.   *)
(* The calls of a file are recognised by the text of their callee: it is   *)
(* one that was called on the line of a known site of the file or, when    *)
(* these lines hold no call, the name of a site.                           *)
CallExprs(g, file) ==
  LET refs == {s \in g.sites : s.file = file}
      exprs == UNION {s.texts : s \in refs}
  IN IF exprs # {} THEN exprs ELSE {s.name : s \in refs}

Read(g, file) == file \in g.python \cap g.parses
KnownCalls(g) ==
  {c \in g.calls : c.file \in Callers(g) /\ Read(g, c.file) /\ c.text \in CallExprs(g, c.file)}

(* Mutant of CallerFindings: an interface that did not change is not       *)
(* compared with the callers that did.                                     *)
CallersOfChanged(g) ==
  {Finding("uncheckable", "block", f) : f \in {c \in Callers(g) : ~Read(g, c) /\ c \in g.python \cup g.touched}}
  \cup {Finding("dangling_call", "block", c.file) : c \in {k \in KnownCalls(g) : Status(g) = "removed"}}
  \cup {Finding("incompatible_call", "block", c.file) :
          c \in {k \in KnownCalls(g) : Status(g) = "changed" /\ ~CallCompat(k.call, Interface(g))}}

CallerFindings(g) ==
  {Finding("uncheckable", "block", f) : f \in {c \in Callers(g) : ~Read(g, c) /\ c \in g.python \cup g.touched}}
  \cup {Finding("dangling_call", "block", c.file) : c \in {k \in KnownCalls(g) : Status(g) = "removed"}}
  \cup {Finding("incompatible_call", "block", c.file) :
          c \in {k \in KnownCalls(g) : /\ Status(g) \in {"unchanged", "changed"}
                                       /\ ~CallCompat(k.call, Interface(g))}}

(* Step 5: other exported interfaces the patch changed.                    *)
InterfaceFindings(g) ==
  {Finding("interface_break_unchecked", "warn", o.file) :
     o \in {i \in g.others : /\ i.file \in g.touched \cap g.python \cap g.parses
                             /\ i.before # i.after
                             /\ SignatureBreaking(Params(i.before, FALSE), Params(i.after, FALSE))
                             /\ i.users \ g.touched # {}}}

(* Step 6: call paths the graph could not resolve.                         *)
DynamicFindings(g) ==
  IF ~g.measured
  THEN {Finding("coverage_unavailable", "warn", d.file) : d \in g.dynamic}
  ELSE {Finding("dynamic_path_unexercised", "warn", d.file) : d \in {e \in g.dynamic : ~e.run}}

(* Step 7: strings that still name what is gone: a lookup by that name, or *)
(* a file that computes what it looks up and holds the name.               *)
StaleReferences(g) ==
  {l.file : l \in {k \in g.lookups : k.file \in g.python \cap g.parses /\ (k.named \/ (k.computed /\ k.literal))}}

StaleFindings(g) ==
  IF Status(g) = "removed" \/ g.removal
  THEN {Finding("stale_reference", "warn", f) : f \in StaleReferences(g)}
  ELSE {}

(* Step 8: files in a language the gate cannot read.                       *)
LanguageFindings(g) == {Finding("unchecked_language", "warn", f) : f \in g.radius \ g.python}

Findings(g) ==
  UNION {OutOfScope(g), PlanFindings(g), TargetFindings(g), CallerFindings(g),
         InterfaceFindings(g), DynamicFindings(g), StaleFindings(g), LanguageFindings(g)}

=============================================================================
