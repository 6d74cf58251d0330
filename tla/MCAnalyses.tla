----------------------------- MODULE MCAnalyses -----------------------------
(* Small inputs for every analysis.                                        *)
EXTENDS Analyses

Upto(S, n) == UNION {[1..k -> S] : k \in 0..n}

-----------------------------------------------------------------------------
(* Patches: a target file of up to four lines, of two texts and a blank.   *)
MCBlank == {""}
MCFiles == Upto({"a", "b", ""}, 4) \ {<< >>}

L(op, text) == [op |-> op, text |-> text]
Bodies ==
  { <<L("-", "a"), L("+", "c")>>, <<L(" ", "a"), L("-", "b")>>, <<L("+", "c"), L(" ", "b")>>,
    <<L(" ", "a"), L(" ", ""), L("-", "b")>>, <<L(" ", "a"), L("+", "c"), L(" ", "b")>>,
    <<L(" ", ""), L("-", "b"), L("+", "")>>, <<L("-", ""), L(" ", "a")>>, <<L("+", "c")>>,
    <<L("-", "a"), L("-", "b")>>, <<L(" ", "b")>> }
MCHunks ==
  [start : {1, 3}, header : {"good"}, lines : Bodies]
    \cup [start : {1}, header : {"wrong", "none"}, lines : {<<L(" ", "a"), L("-", "b")>>, <<L("-", "a"), L(" ", "b")>>}]

Reply(blocks, shape, named, hunks) ==
  [blocks |-> blocks, shape |-> shape, paths |-> named, hunks |-> hunks]
MCReplies ==
  {Reply(1, "edit", {"target"}, <<h>>) : h \in MCHunks}
    \cup {Reply(1, "edit", {"target"}, <<h, k>>) : h, k \in {i \in MCHunks : i.start = 1 /\ i.header = "good"}}
    \cup {Reply(b, "edit", {"target"}, << >>) : b \in 0..2}
    \cup {Reply(1, shape, named, <<[start |-> 1, header |-> "good", lines |-> <<L("-", "a"), L("+", "c")>>]>>) :
            shape \in {"added", "removed", "many"}, named \in {{"target"}, {"target", "other"}, {"test"}}}

-----------------------------------------------------------------------------
(* Signatures of two names, and calls with three keywords.                 *)
P(n, d) == [name |-> n, default |-> d]
Defaulted(list) == \A i, k \in DOMAIN list : i < k /\ list[i].default => list[k].default
Positionals ==
  {list \in Upto([name : {"a", "b"}, default : BOOLEAN], 2) :
     /\ Defaulted(list)
     /\ \A i, k \in DOMAIN list : list[i].name = list[k].name => i = k}
KeywordOnly == {{}, {P("b", FALSE)}, {P("b", TRUE)}, {P("a", FALSE)}}
MCSignatures ==
  {p \in [positional : Positionals, posonly : {0}, kwonly : KeywordOnly,
          vararg : BOOLEAN, kwarg : BOOLEAN] : WellFormed(p)}
MCPosonly ==
  {p \in [positional : {<<P("a", FALSE)>>, <<P("a", TRUE), P("b", TRUE)>>}, posonly : {1}, kwonly : {{}},
          vararg : {FALSE}, kwarg : BOOLEAN] : WellFormed(p)}
MCCalls == [npos : 0..2, keywords : {{}, {"a"}, {"b"}, {"a", "b"}, {"c"}}, open : {FALSE}]
MCComparisons ==
  [before : MCSignatures, after : MCSignatures, call : MCCalls]
    \cup [before : MCPosonly, after : MCPosonly, call : MCCalls]
    \cup [before : MCPosonly, after : MCPosonly, call : [npos : {0}, keywords : {{}}, open : {TRUE}]]

-----------------------------------------------------------------------------
(* Code graphs: the target s0 in t, s1 and r1 in a, s2 in b, none in x.    *)
MCOwner == [s \in {"s0", "s1", "r1", "s2"} |->
              CASE s = "s0" -> "t" [] s \in {"s1", "r1"} -> "a" [] s = "s2" -> "b"]
Edge(caller, file, callee) == [caller |-> caller, file |-> file, callee |-> callee]
MCGraphs ==
  [owner : {MCOwner}, target : {"s0"},
   calls : SUBSET {Edge("s1", "a", "s0"), Edge("s2", "b", "s1"), Edge("s0", "t", "s2"),
                   Edge(NoSymbol, "b", "s0"), Edge(NoSymbol, "x", "s2")},
   imports : SUBSET {[file |-> "b", symbol |-> "s0"], [file |-> "a", symbol |-> "s2"]},
   modules : SUBSET {[file |-> "a", of |-> "t"], [file |-> "b", of |-> "a"], [file |-> "x", of |-> "b"]},
   loose : {{}, {"x"}}, isTest : {{}, {"b"}},
   tests : {{[test |-> s, symbol |-> s] : s \in DOMAIN MCOwner}},
   depth : 0..3, cap : {2, 4}]

-----------------------------------------------------------------------------
(* Impact: a target in t, a caller in c, and a file x nobody expected.     *)
Def(args) == [posonly |-> << >>, args |-> args, kwonly |-> {}, vararg |-> FALSE, kwarg |-> FALSE]
MCDefs == {NoFn, Def(<<P("a", FALSE)>>), Def(<<P("a", FALSE), P("b", FALSE)>>)}
One == [npos |-> 1, keywords |-> {}, open |-> FALSE]
Two == [npos |-> 2, keywords |-> {}, open |-> FALSE]

(* The target is called as such or through its module, and print beside it. *)
Call(text, callee, call) == [file |-> "c", text |-> text, callee |-> callee, call |-> call]
Calls ==
  { {}, {Call("target", "target", One)}, {Call("target", "target", Two)},
    {Call("m.target", "target", Two)},
    {Call("target", "target", One), Call("m.target", "target", Two)},
    {Call("target", "target", One), Call("print", "other", Two)} }
Site(texts) == [file |-> "c", name |-> "target", texts |-> texts]
MCSites ==
  { {Site({"target"})}, {Site({"target", "print"})}, {Site({"target"}), Site({"m.target"})}, {Site({})} }

Usual ==
  [radius |-> {"t", "c"}, planned |-> {"c"}, touched |-> {"t", "c"}, discarded |-> {}, declined |-> {},
   python |-> {"t", "c", "x"}, parses |-> {"t", "c", "x"}, target |-> "t", kind |-> "function",
   sites |-> {Site({"target"})}, calls |-> {}, before |-> Def(<<P("a", FALSE)>>),
   after |-> Def(<<P("a", FALSE)>>), defines |-> TRUE, others |-> {}, dynamic |-> {},
   measured |-> TRUE, removal |-> FALSE, lookups |-> {}]

Readable(g) == g.target \in g.parses \/ (g.after = NoFn /\ ~g.defines)

MCImpactInputs ==
  {g \in {[Usual EXCEPT !.calls = calls, !.before = b, !.after = a, !.defines = d, !.kind = kind,
                 !.planned = given, !.parses = parses, !.sites = sites] :
     calls \in Calls, sites \in MCSites, b, a \in MCDefs, d \in BOOLEAN, kind \in {"function", "method", "other"},
     given \in {{}, {"c"}}, parses \in {{"t", "c", "x"}, {"c", "x"}, {"t", "x"}}} : Readable(g)}
  \cup {[Usual EXCEPT !.touched = touched, !.python = python, !.declined = declined,
                      !.dynamic = {[file |-> "x", run |-> ran]}, !.measured = measured,
                      !.lookups = {[file |-> "x", named |-> ~ran, computed |-> gone, literal |-> measured]},
                      !.removal = gone,
                      !.others = {[file |-> "t", before |-> Def(<< >>), after |-> Def(<<P("a", FALSE)>>), users |-> {"x"}]}] :
     touched \in {{"t"}, {"t", "c"}, {"t", "x"}}, python \in {{"t", "c", "x"}, {"c", "x"}},
     declined \in {{}, {"c"}}, ran, measured, gone \in BOOLEAN}

-----------------------------------------------------------------------------
(* Cleanup: a module m and a user u of its names.                          *)
MCPrivate == {"_p"}
From(file, names) == {[bound |-> n, name |-> n, from |-> file] : n \in names}
Module(imports, loads, strings, defs, all) ==
  [python |-> TRUE, parses |-> TRUE, star |-> FALSE, imports |-> imports, loads |-> loads,
   strings |-> strings, defs |-> defs, all |-> all]
Users ==
  {Module(imports, loads, strings, {}, all) :
     imports \in {From("m", n) : n \in SUBSET {"_p", "x"}}
                   \cup {{[bound |-> "h", name |-> "_p", from |-> "m"]}},
     loads \in SUBSET {"_p", "x"}, strings \in {{}, {"_p"}}, all \in {{}, {"x"}}}
  \cup {[Module({}, {}, {}, {}, {}) EXCEPT !.parses = FALSE], [Module({}, {}, {}, {}, {}) EXCEPT !.python = FALSE],
        [Module(From("m", {"x"}), {}, {}, {}, {}) EXCEPT !.star = TRUE]}
Definers ==
  {Module(imports, loads, strings, defs, all) :
     imports \in {{}, From("os", {"x"})}, loads \in SUBSET {"_p", "x"}, strings \in {{}, {"_p"}},
     defs \in {{}, {"_p"}}, all \in {{}, {"x"}, {"_p"}}}
MCCleanupInputs ==
  {[tree |-> [f \in {"m", "u"} |-> IF f = "m" THEN m ELSE u], touched |-> touched,
    g |-> [covered |-> [f \in {"m", "u"} |-> {}], unresolved |-> unresolved]] :
     m \in Definers, u \in Users, touched \in {{"m"}, {"m", "u"}}, unresolved \in {{}, {"_p"}}}

-----------------------------------------------------------------------------
(* Integration: up to two diffs of a Python file m and a TypeScript file t. *)
Edit == [drops |-> {}, adds |-> {}, mends |-> {}, flaws |-> {}]
Edits == {Edit, [Edit EXCEPT !.drops = {"x"}], [Edit EXCEPT !.adds = {"x"}],
          [Edit EXCEPT !.flaws = {"s"}], [Edit EXCEPT !.mends = {"s"}]}
Diff(file, readable, exact, edit) ==
  [file |-> file, readable |-> readable, exact |-> exact, drops |-> edit.drops,
   adds |-> edit.adds, mends |-> edit.mends, flaws |-> edit.flaws]
FirstDiffs == {Diff(f, TRUE, TRUE, e) : f \in {"m", "t"}, e \in Edits} \cup {Diff("m", FALSE, TRUE, Edit)}
SecondDiffs(first) ==
  {Diff(f, TRUE, exact, e) : f \in {"m", "t"}, e \in Edits, exact \in BOOLEAN}
    \ {Diff(f, TRUE, FALSE, e) : f \in IF first.readable THEN {"m", "t"} \ {first.file} ELSE {"m", "t"}, e \in Edits}
TaskLists ==
  {<<d>> : d \in FirstDiffs} \cup UNION {{<<d, e>> : e \in SecondDiffs(d)} : d \in FirstDiffs}
Counts == {[before |-> 2, after |-> 2], [before |-> 2, after |-> 1], [before |-> Unmeasured, after |-> 1]}
Text(flaws) == [exports |-> {"x", "y"}, flaws |-> flaws]
MCIntegrationInputs ==
  [tasks : TaskLists, text : [{"m", "t"} -> {Text({}), Text({"s"})}], parsed : {{"m", "t"}}, python : {{"m"}},
   names : {{}, {"x"}}, fqns : {{}, {<<"m", "x">>}}, collected : {[before |-> 2, after |-> 2]},
   covered : {[f \in {"m", "t"} |-> [before |-> 2, after |-> 2]]}]
  \cup [tasks : {<<d>> : d \in FirstDiffs}, text : {[f \in {"m", "t"} |-> Text({})]}, parsed : {{"m"}, {"m", "t"}},
        python : {{"m"}}, names : {{}}, fqns : {{}}, collected : Counts, covered : [{"m", "t"} -> Counts]]

-----------------------------------------------------------------------------
(* Audits: up to two changed files, or three that are alike.               *)
Range1 == {<<"n">>, <<"n", "n">>, <<"n", "o", "q">>}
ChangedFiles == {<< >>} \cup {<<r>> : r \in Range1 \cup {<< >>}} \cup {<<r, <<"n">>>> : r \in Range1}
                  \cup {<< <<"n">>, <<"n">>, <<"n">> >>}
MCChanges == Upto(ChangedFiles, 2) \cup {<<f, f, f>> : f \in ChangedFiles}
MCCaps == 0..3
=============================================================================
