----------------------------- MODULE Signatures -----------------------------
(***************************************************************************)
(* Parameter lists and calls, as the impact gate compares them             *)
(* (principal/gates/impact.py: _params, call_compat, signature_breaking).  *)
(*                                                                         *)
(* A definition is a record [posonly, args, kwonly, vararg, kwarg]: two    *)
(* sequences and a set of parameters [name, default], and whether it takes *)
(* *args and **kwargs.  A call is a record [npos, keywords, open]: so many *)
(* positional arguments, a set of keywords, and whether it has a starred   *)
(* argument or a keyword splat.                                            *)
(***************************************************************************)
EXTENDS Naturals, Sequences

ParamNames(list) == {list[i].name : i \in DOMAIN list}
SetNames(set) == {p.name : p \in set}

(* _params: positional-only parameters first; a method loses its self.     *)
Params(fn, skipFirst) ==
  LET pos == fn.posonly \o fn.args
      skip == skipFirst /\ pos # << >> IN
    [positional |-> IF skip THEN Tail(pos) ELSE pos,
     posonly |-> IF skip /\ fn.posonly # << >> THEN Len(fn.posonly) - 1 ELSE Len(fn.posonly),
     kwonly |-> fn.kwonly, vararg |-> fn.vararg, kwarg |-> fn.kwarg]

KeywordNames(p) ==
  {p.positional[i].name : i \in {k \in DOMAIN p.positional : k > p.posonly}} \cup SetNames(p.kwonly)

Consumed(call, p) == {p.positional[i].name : i \in {k \in DOMAIN p.positional : k <= call.npos}}

(* Mutant of Missing: keyword-only parameters are forgotten.               *)
MissingPositional(call, p) ==
  \E i \in DOMAIN p.positional :
    i > call.npos /\ ~p.positional[i].default /\ p.positional[i].name \notin call.keywords

Missing(call, p) ==
  LET supplied == Consumed(call, p) \cup call.keywords IN
    \/ \E i \in DOMAIN p.positional :
         i > call.npos /\ ~p.positional[i].default /\ p.positional[i].name \notin supplied
    \/ \E k \in p.kwonly : ~k.default /\ k.name \notin supplied

(* call_compat returns None.                                               *)
CallCompat(call, p) ==
  \/ call.open
  \/ /\ call.npos <= Len(p.positional) \/ p.vararg
     /\ \A w \in call.keywords :
          /\ w \notin Consumed(call, p)
          /\ w \in KeywordNames(p) \/ p.kwarg
     /\ ~Missing(call, p)

AllNames(p) == ParamNames(p.positional) \cup SetNames(p.kwonly)

(* Mutant of Moved: the order of the parameters is not looked at.          *)
MovedToKeyword(before, after) ==
  \E i \in DOMAIN before.positional :
    LET name == before.positional[i].name IN
      name \notin ParamNames(after.positional) /\ name \in KeywordNames(after)

(* A positional parameter that has another place, or only a keyword, now.  *)
Moved(before, after) ==
  \E i \in DOMAIN before.positional :
    LET name == before.positional[i].name IN
      \/ \E k \in DOMAIN after.positional : after.positional[k].name = name /\ k # i
      \/ name \notin ParamNames(after.positional) /\ name \in KeywordNames(after)

SignatureBreaking(before, after) ==
  \/ AllNames(before) \ AllNames(after) # {} /\ ~after.kwarg
  \/ \E i \in DOMAIN after.positional :
       after.positional[i].name \notin AllNames(before) /\ ~after.positional[i].default
  \/ \E k \in after.kwonly : k.name \notin AllNames(before) /\ ~k.default
  \/ Moved(before, after)
  \/ Len(after.positional) < Len(before.positional) /\ ~after.vararg

-----------------------------------------------------------------------------
(* The reference: Python's binding of a call without splats.  Every        *)
(* keyword goes to the parameter of its name or into **kwargs, nothing is  *)
(* bound twice, and what has no default is bound.                          *)

Accepts(call, p) ==
  /\ call.npos <= Len(p.positional) \/ p.vararg
  /\ \E bound \in SUBSET call.keywords :
       /\ bound = call.keywords \cap KeywordNames(p)
       /\ bound = call.keywords \/ p.kwarg
       /\ \A i \in DOMAIN p.positional :
            LET name == p.positional[i].name
                byName == i > p.posonly /\ name \in bound IN
              /\ i <= call.npos => ~byName
              /\ i > call.npos => byName \/ p.positional[i].default
       /\ \A k \in p.kwonly : k.name \in bound \/ k.default

(* A signature that Python can define: every name is used once.            *)
WellFormed(p) ==
  /\ \A i, k \in DOMAIN p.positional : p.positional[i].name = p.positional[k].name => i = k
  /\ ParamNames(p.positional) \cap SetNames(p.kwonly) = {}

(* What survives keeps its default and its kind, what took any argument    *)
(* still does, and nothing new stands where **kwargs took its name.        *)
Relaxed(before, after) ==
  /\ \A i \in DOMAIN before.positional, k \in DOMAIN after.positional :
       before.positional[i].name = after.positional[k].name /\ before.positional[i].default
         => after.positional[k].default
  /\ \A b \in before.kwonly, a \in after.kwonly : b.name = a.name /\ b.default => a.default
  /\ SetNames(before.kwonly) \cap ParamNames(after.positional) = {}
  /\ before.vararg => after.vararg
  /\ before.kwarg => after.kwarg /\ ParamNames(after.positional) \subseteq ParamNames(before.positional)
=============================================================================
