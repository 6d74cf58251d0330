--------------------------- MODULE AnalysesProofs ---------------------------
(***************************************************************************)
(* Proofs about the analyses, for inputs of any size: the check of one     *)
(* call is Python's binding, and a change not called breaking breaks no    *)
(* call; a refactor the impact gate lets through leaves no caller behind;  *)
(* a cleanup leaves nothing dangling; what the gates after integration     *)
(* pass they have checked of the tested text; the blast radius is what is  *)
(* within reach; hunks are placed as their numbers say, and by their       *)
(* content lose and invent nothing; and the audit scores a fair plan.      *)
(*                                                                         *)
(* Induction is on sets of numbers (Induction), and a fold of the          *)
(* community modules is read as the chain of its values (FoldChain).       *)
(***************************************************************************)
EXTENDS Analyses, SequenceTheorems, WellFoundedInduction, TLAPS

(* Induction over the numbers, for a set of them.                          *)
LEMMA Least ==
  ASSUME NEW T, T \subseteq Nat, T # {}
  PROVE  \E m \in T : \A k \in T : m <= k
<1>1. PICK m \in T : \A k \in T : <<k, m>> \notin OpToRel(<, Nat)
  BY NatLessThanWellFounded, WFMin
<1>2. \A k \in T : ~(k < m)
  BY <1>1 DEF OpToRel
<1> QED BY <1>2

LEMMA Induction ==
  ASSUME NEW T, 0 \in T, \A n \in Nat : n \in T => n + 1 \in T
  PROVE  \A n \in Nat : n \in T
<1> SUFFICES ASSUME NEW n \in Nat, n \notin T PROVE FALSE OBVIOUS
<1>1. PICK m \in Nat \ T : \A k \in Nat \ T : m <= k
  BY Least
<1>2. m - 1 \in Nat /\ m - 1 \in T
  BY <1>1
<1> QED BY <1>1, <1>2

(* The largest of some numbers, and of the first ones.                     *)
LEMMA Largest ==
  ASSUME NEW n \in Nat, NEW s, s \subseteq 1..n, s # {}
  PROVE  Max(s) \in s /\ \A x \in s : Max(s) >= x
<1> DEFINE below == {n - x : x \in s}
<1>1. below \subseteq Nat /\ below # {}
  <2>1. \A x \in s : n - x \in Nat
    BY SMT
  <2>2. \E x \in s : n - x \in below
    OBVIOUS
  <2> QED BY <2>1, <2>2
<1>2. PICK m \in below : \A k \in below : m <= k
  BY <1>1, Least
<1>3. PICK x \in s : m = n - x
  BY <1>2
<1>4. ASSUME NEW y \in s PROVE x >= y
  <2>1. n - y \in below
    OBVIOUS
  <2>2. m <= n - y
    BY <1>2, <2>1
  <2>3. x \in 1..n /\ y \in 1..n
    OBVIOUS
  <2> QED BY <1>3, <2>2, <2>3
<1> QED BY <1>4 DEF Max

LEMMA FirstOnes ==
  ASSUME NEW n \in Nat, NEW k \in 1..n
  PROVE  /\ 1..k \in SUBSET (1..n) /\ 1..k # {} /\ Max(1..k) = k
         /\ (1..k) \ {k} = 1..(k - 1)
<1>1. 1..k \subseteq 1..n /\ 1..k # {}
  OBVIOUS
<1>2. Max(1..k) \in 1..k /\ \A x \in 1..k : Max(1..k) >= x
  BY <1>1, Largest
<1> QED BY <1>1, <1>2

(* A fold over the places of a sequence, from the last to the first, is    *)
(* what its recursive definition says: the function exists.                *)
IsFold(D, F, base, f, n) ==
  /\ f \in [SUBSET (1..n) -> D]
  /\ \A s \in SUBSET (1..n) :
       f[s] = IF s = {} THEN base ELSE F[Max(s)][f[s \ {Max(s)}]]

LEMMA FoldExists ==
  ASSUME NEW n \in Nat, NEW D, NEW base \in D, NEW F \in [1..n -> [D -> D]]
  PROVE  \E f : IsFold(D, F, base, f, n)
<1> DEFINE T == {m \in Nat : m <= n => \E f : IsFold(D, F, base, f, m)}
<1>1. 0 \in T
  <2> DEFINE f == [s \in SUBSET (1..0) |-> base]
  <2>1. 1..0 = {}
    OBVIOUS
  <2>2. IsFold(D, F, base, f, 0)
    BY <2>1 DEF IsFold
  <2> QED BY <2>2
<1>2. ASSUME NEW m \in Nat, m \in T PROVE m + 1 \in T
  <2> SUFFICES ASSUME m + 1 <= n PROVE \E h : IsFold(D, F, base, h, m + 1) OBVIOUS
  <2>1. PICK f : IsFold(D, F, base, f, m)
    BY <1>2
  <2> DEFINE h == [s \in SUBSET (1..(m + 1)) |->
                     IF m + 1 \in s THEN F[m + 1][f[s \ {m + 1}]] ELSE f[s]]
  <2>2. /\ f \in [SUBSET (1..m) -> D]
        /\ \A s \in SUBSET (1..m) : f[s] = IF s = {} THEN base ELSE F[Max(s)][f[s \ {Max(s)}]]
    BY <2>1 DEF IsFold
  <2>3. m + 1 \in 1..n /\ F[m + 1] \in [D -> D]
    OBVIOUS
  <2>4. \A s \in SUBSET (1..(m + 1)) : s \ {m + 1} \in SUBSET (1..m) /\ (m + 1 \notin s => s \in SUBSET (1..m))
    OBVIOUS
  <2>5. h \in [SUBSET (1..(m + 1)) -> D]
    BY <2>2, <2>3, <2>4
  <2>6. ASSUME NEW s \in SUBSET (1..(m + 1))
        PROVE  h[s] = IF s = {} THEN base ELSE F[Max(s)][h[s \ {Max(s)}]]
    <3>1. CASE m + 1 \in s
      <4>1. Max(s) = m + 1
        <5>1. s \subseteq 1..(m + 1) /\ s # {} /\ m + 1 \in Nat
          BY <3>1
        <5>2. Max(s) \in s /\ \A x \in s : Max(s) >= x
          BY <5>1, Largest
        <5>3. Max(s) \in 1..(m + 1) /\ Max(s) >= m + 1
          BY <3>1, <5>1, <5>2
        <5> QED BY <5>3
      <4>2. h[s] = F[m + 1][f[s \ {m + 1}]]
        BY <3>1
      <4>3. h[s \ {m + 1}] = f[s \ {m + 1}]
        BY <2>4
      <4> QED BY <3>1, <4>1, <4>2, <4>3
    <3>2. CASE m + 1 \notin s
      <4>1. s \in SUBSET (1..m) /\ h[s] = f[s]
        BY <2>4, <3>2
      <4>2. h[s \ {Max(s)}] = f[s \ {Max(s)}]
        BY <3>2
      <4> QED BY <2>2, <4>1, <4>2
    <3> QED BY <3>1, <3>2
  <2> HIDE DEF h
  <2>7. IsFold(D, F, base, h, m + 1)
    BY <2>5, <2>6 DEF IsFold
  <2> QED BY <2>7
<1> HIDE DEF T
<1>3. n \in T
  BY <1>1, <1>2, Induction
<1> QED BY <1>3 DEF T

IsChain(D, F, base, c, n) ==
  /\ c \in [0..n -> D] /\ c[0] = base
  /\ \A k \in 1..n : c[k] = F[k][c[k - 1]]

IsChained(D, F, base, g, n) ==
  /\ g[{}] = base
  /\ \A k \in 1..n : g[1..(k - 1)] \in D => g[1..k] = F[k][g[1..(k - 1)]]

LEMMA FoldChain ==
  ASSUME NEW n \in Nat, NEW D, NEW base \in D, NEW F \in [1..n -> [D -> D]],
         NEW g, IsChained(D, F, base, g, n)
  PROVE  \E c : IsChain(D, F, base, c, n) /\ g[1..n] = c[n]
<1> USE DEF IsChained
<1> DEFINE T == {k \in Nat : k <= n => g[1..k] \in D}
           c == [k \in 0..n |-> g[1..k]]
<1>1. 1..0 = {}
  OBVIOUS
<1>2. 0 \in T
  BY <1>1
<1>3. ASSUME NEW k \in Nat, k \in T PROVE k + 1 \in T
  <2> SUFFICES ASSUME k + 1 <= n PROVE g[1..(k + 1)] \in D OBVIOUS
  <2>1. k + 1 \in 1..n /\ (k + 1) - 1 = k /\ g[1..k] \in D
    BY <1>3
  <2>2. F[k + 1] \in [D -> D]
    BY <2>1
  <2> QED BY <2>1, <2>2
<1> HIDE DEF T
<1>4. \A k \in Nat : k \in T
  BY <1>2, <1>3, Induction
<1>5. \A k \in 0..n : g[1..k] \in D
  BY <1>4 DEF T
<1>6. c \in [0..n -> D] /\ c[0] = base /\ g[1..n] = c[n]
  BY <1>1, <1>5
<1>7. ASSUME NEW k \in 1..n PROVE c[k] = F[k][c[k - 1]]
  <2>1. k - 1 \in 0..n /\ k \in 0..n
    OBVIOUS
  <2> QED BY <1>5, <2>1
<1> QED BY <1>6, <1>7 DEF IsChain

(* A chain of as many values as are asked for.                              *)
LEMMA ChainExists ==
  ASSUME NEW n \in Nat, NEW D, NEW base \in D, NEW F \in [1..n -> [D -> D]]
  PROVE  \E c : IsChain(D, F, base, c, n)
<1>1. PICK f : IsFold(D, F, base, f, n)
  BY FoldExists
<1>2. f[{}] = base
  BY <1>1 DEF IsFold
<1>3. ASSUME NEW k \in 1..n PROVE f[1..k] = F[k][f[1..(k - 1)]]
  <2>1. /\ 1..k \in SUBSET (1..n) /\ 1..k # {} /\ Max(1..k) = k
        /\ (1..k) \ {k} = 1..(k - 1)
    BY FirstOnes
  <2> QED BY <1>1, <2>1 DEF IsFold
<1>4. IsChained(D, F, base, f, n)
  BY <1>2, <1>3 DEF IsChained
<1> QED BY <1>4, FoldChain

-----------------------------------------------------------------------------

Name(p, i) == p.positional[i].name

(* The names a keyword may have are those of the parameters that are not   *)
(* positional-only.                                                        *)
LEMMA KeywordsNamed ==
  ASSUME NEW p, Listed(p)
  PROVE  /\ \A w : w \in KeywordNames(p) <=>
                     \/ \E i \in DOMAIN p.positional : i > p.posonly /\ w = Name(p, i)
                     \/ w \in SetNames(p.kwonly)
         /\ \A k \in p.kwonly : k.name \in KeywordNames(p)
         /\ \A i \in DOMAIN p.positional : i > p.posonly => Name(p, i) \in KeywordNames(p)
         /\ p.posonly = 0 => KeywordNames(p) = AllNames(p)
BY DEF KeywordNames, SetNames, ParamNames, AllNames, Listed, Name

(* What a call binds, parameter by parameter.                              *)
Takes(call, p) ==
  /\ call.npos <= Len(p.positional) \/ p.vararg
  /\ call.keywords \subseteq KeywordNames(p) \/ p.kwarg
  /\ \A i \in DOMAIN p.positional :
       LET byName == i > p.posonly /\ Name(p, i) \in call.keywords IN
         /\ i <= call.npos => ~byName
         /\ i > call.npos => byName \/ p.positional[i].default
  /\ \A k \in p.kwonly : k.name \in call.keywords \/ k.default

LEMMA AcceptsIsBound ==
  ASSUME NEW p, Listed(p), NEW call
  PROVE  Accepts(call, p) <=> Takes(call, p)
<1> DEFINE bound == call.keywords \cap KeywordNames(p)
<1>1. bound = call.keywords <=> call.keywords \subseteq KeywordNames(p)
  OBVIOUS
<1>2. \A i \in DOMAIN p.positional :
        i > p.posonly => (Name(p, i) \in bound <=> Name(p, i) \in call.keywords)
  BY KeywordsNamed
<1>3. \A k \in p.kwonly : k.name \in bound <=> k.name \in call.keywords
  BY KeywordsNamed
<1>4. bound \in SUBSET call.keywords
  OBVIOUS
<1> HIDE DEF bound
<1>5. Accepts(call, p) <=>
        /\ call.npos <= Len(p.positional) \/ p.vararg
        /\ bound = call.keywords \/ p.kwarg
        /\ \A i \in DOMAIN p.positional :
             LET byName == i > p.posonly /\ Name(p, i) \in bound IN
               /\ i <= call.npos => ~byName
               /\ i > call.npos => byName \/ p.positional[i].default
        /\ \A k \in p.kwonly : k.name \in bound \/ k.default
  BY <1>4 DEF Accepts, Name, bound
<1> QED BY <1>1, <1>2, <1>3, <1>5 DEF Takes

(* The check of one call is the binding.                                   *)
LEMMA CompatIsBound ==
  ASSUME NEW p, Listed(p), WellFormed(p), p.posonly = 0 \/ ~p.kwarg,
         NEW call, call.npos \in Nat, ~call.open
  PROVE  CallCompat(call, p) <=> Takes(call, p)
<1> DEFINE K == call.keywords
           Known(w) == w \in KeywordNames(p) \/ p.kwarg
<1>1. \A w : w \in Consumed(call, p) <=>
              \E i \in DOMAIN p.positional : i <= call.npos /\ w = Name(p, i)
  BY DEF Consumed, Name
<1>2. \A i \in DOMAIN p.positional : i > call.npos => Name(p, i) \notin Consumed(call, p)
  BY <1>1 DEF WellFormed, Name, Listed
<1>3. \A k \in p.kwonly : k.name \notin Consumed(call, p)
  BY <1>1 DEF WellFormed, Name, ParamNames, SetNames
<1>4. (\A w \in K : Known(w)) <=> (K \subseteq KeywordNames(p) \/ p.kwarg)
  OBVIOUS
<1>5. ASSUME \A w \in K : Known(w), NEW i \in DOMAIN p.positional
      PROVE  Name(p, i) \in K => i > p.posonly
  <2>1. CASE p.posonly = 0
    BY <2>1 DEF Listed
  <2>2. CASE ~p.kwarg
    <3> SUFFICES ASSUME Name(p, i) \in K PROVE i > p.posonly OBVIOUS
    <3>1. Name(p, i) \in KeywordNames(p)
      BY <1>5, <2>2
    <3>2. Name(p, i) \notin SetNames(p.kwonly)
      BY DEF WellFormed, ParamNames, Name
    <3>3. PICK k \in DOMAIN p.positional : k > p.posonly /\ Name(p, i) = Name(p, k)
      BY <3>1, <3>2, KeywordsNamed
    <3> QED BY <3>3 DEF WellFormed, Name
  <2> QED BY <2>1, <2>2
<1>6. (\A w \in K : w \notin Consumed(call, p)) <=>
        (\A i \in DOMAIN p.positional : i <= call.npos => Name(p, i) \notin K)
  BY <1>1
<1>7. ~Missing(call, p) <=>
        /\ \A i \in DOMAIN p.positional : i > call.npos => p.positional[i].default \/ Name(p, i) \in K
        /\ \A k \in p.kwonly : k.default \/ k.name \in K
  BY <1>2, <1>3 DEF Missing, Name
<1>8. CallCompat(call, p) <=>
        /\ call.npos <= Len(p.positional) \/ p.vararg
        /\ \A w \in K : w \notin Consumed(call, p) /\ Known(w)
        /\ ~Missing(call, p)
  BY DEF CallCompat
<1> HIDE DEF K, Known
<1> QED BY <1>4, <1>5, <1>6, <1>7, <1>8 DEF Takes, K
(* A change that is not breaking, in a list without positional-only        *)
(* parameters whose survivors keep what they were, keeps every binding.    *)
LEMMA BindingKept ==
  ASSUME NEW b, NEW a, Listed(b), Listed(a), WellFormed(b), WellFormed(a),
         b.posonly = 0, a.posonly = 0, ~SignatureBreaking(b, a), Relaxed(b, a),
         NEW call, call.npos \in Nat, Takes(call, b)
  PROVE  Takes(call, a)
<1> DEFINE K == call.keywords
<1>1. /\ KeywordNames(b) = AllNames(b) /\ KeywordNames(a) = AllNames(a)
      /\ \A i \in DOMAIN b.positional : i \in Nat \ {0}
      /\ \A i \in DOMAIN a.positional : i \in Nat \ {0}
  BY KeywordsNamed DEF Listed
<1>2. \A w : w \in AllNames(b) <=>
        (\E i \in DOMAIN b.positional : w = Name(b, i)) \/ (\E k \in b.kwonly : w = k.name)
  BY DEF AllNames, ParamNames, SetNames, Name
<1>3. \A i \in DOMAIN a.positional, k \in DOMAIN b.positional : Name(a, i) = Name(b, k) => i = k
  BY DEF SignatureBreaking, Moved, Name
<1>4. \A i \in DOMAIN a.positional : Name(a, i) \notin SetNames(b.kwonly)
  BY DEF Relaxed, ParamNames, Name
<1>5. call.npos <= Len(a.positional) \/ a.vararg
  <2>1. Len(b.positional) <= Len(a.positional) \/ a.vararg
    BY DEF SignatureBreaking, Listed
  <2>2. b.vararg => a.vararg
    BY DEF Relaxed
  <2> QED BY <2>1, <2>2 DEF Takes, Listed
<1>6. K \subseteq KeywordNames(a) \/ a.kwarg
  <2>1. AllNames(b) \subseteq AllNames(a) \/ a.kwarg
    BY DEF SignatureBreaking
  <2>2. b.kwarg => a.kwarg
    BY DEF Relaxed
  <2> QED BY <1>1, <2>1, <2>2 DEF Takes
<1>7. ASSUME NEW i \in DOMAIN a.positional, i <= call.npos PROVE Name(a, i) \notin K
  <2> SUFFICES ASSUME Name(a, i) \in K PROVE FALSE OBVIOUS
  <2>1. Name(a, i) \in AllNames(b)
    <3>1. CASE b.kwarg
      BY <3>1, <1>2 DEF Relaxed, ParamNames, Name
    <3>2. CASE ~b.kwarg
      BY <3>2, <1>1 DEF Takes
    <3> QED BY <3>1, <3>2
  <2>2. PICK k \in DOMAIN b.positional : Name(a, i) = Name(b, k)
    BY <2>1, <1>2, <1>4 DEF SetNames
  <2>3. k = i
    BY <2>2, <1>3
  <2> QED BY <1>1, <1>7, <2>2, <2>3 DEF Takes
<1>8. ASSUME NEW i \in DOMAIN a.positional, i > call.npos
      PROVE  Name(a, i) \in K \/ a.positional[i].default
  <2>1. CASE Name(a, i) \notin AllNames(b)
    BY <2>1 DEF SignatureBreaking, Name
  <2>2. CASE Name(a, i) \in AllNames(b)
    <3>1. PICK k \in DOMAIN b.positional : Name(a, i) = Name(b, k)
      BY <2>2, <1>2, <1>4 DEF SetNames
    <3>2. k = i
      BY <3>1, <1>3
    <3>3. Name(b, i) \in K \/ b.positional[i].default
      BY <1>8, <3>1, <3>2 DEF Takes
    <3> QED BY <3>1, <3>2, <3>3 DEF Relaxed, Name
  <2> QED BY <2>1, <2>2
<1>9. ASSUME NEW k \in a.kwonly PROVE k.name \in K \/ k.default
  <2>1. CASE k.name \notin AllNames(b)
    BY <2>1 DEF SignatureBreaking
  <2>2. ASSUME NEW i \in DOMAIN b.positional, k.name = Name(b, i) PROVE FALSE
    <3>1. k.name \in KeywordNames(a) /\ k.name \notin ParamNames(a.positional)
      BY KeywordsNamed DEF WellFormed, SetNames
    <3> QED BY <2>2, <3>1 DEF SignatureBreaking, Moved, Name
  <2>3. ASSUME NEW d \in b.kwonly, k.name = d.name PROVE k.name \in K \/ k.default
    BY <2>3 DEF Takes, Relaxed
  <2> QED BY <1>2, <2>1, <2>2, <2>3
<1>10. \A i \in DOMAIN a.positional : i > a.posonly
  BY <1>1
<1> QED BY <1>5, <1>6, <1>7, <1>8, <1>9, <1>10 DEF Takes

-----------------------------------------------------------------------------
(* Every answer is the one that the analysis computes for an input it may  *)
(* be given.                                                               *)
Given(use, inputs) == input.use = use => input.asked \in inputs
Says(use, answer) == Answered(use) => report = answer

Comparison(c) ==
  [breaking |-> SignatureBreaking(c.before, c.after),
   before |-> CallCompat(c.call, c.before),
   after |-> CallCompat(c.call, c.after)]

Inv ==
  /\ Given("radius", Graphs) /\ Says("radius", Radiate(input.asked))
  /\ Given("compare", Comparisons) /\ Says("compare", Comparison(input.asked))
  /\ Given("impact", ImpactInputs) /\ Says("impact", Findings(input.asked))
  /\ Given("cleanup", CleanupInputs)
  /\ Says("cleanup", CleanupTasks(input.asked.tree, input.asked.touched, input.asked.g, Private))
  /\ Given("integration", IntegrationInputs) /\ Says("integration", Judged(input.asked))

LEMMA InitInv == Init => Inv
BY DEF Init, Inv, Asked, Given, Says, Answered

LEMMA NextInv == Inv /\ [Next]_vars => Inv'
<1> SUFFICES ASSUME Inv, [Next]_vars PROVE Inv' OBVIOUS
<1> USE DEF Inv, Given, Says, Answered, Answer
<1>1. CASE CompareSignatures
  BY <1>1 DEF CompareSignatures, Comparison
<1>2. CASE FindRadius
  BY <1>2 DEF FindRadius
<1>3. CASE AnalyseImpact
  BY <1>3 DEF AnalyseImpact
<1>4. CASE PlanCleanup
  BY <1>4 DEF PlanCleanup
<1>5. CASE JudgeIntegration
  BY <1>5 DEF JudgeIntegration
<1>6. CASE UNCHANGED <<input, report>>
  BY <1>6
<1> QED BY <1>1, <1>2, <1>3, <1>4, <1>5, <1>6 DEF Next, vars

LEMMA Invariant == Spec => []Inv
<1> QED BY InitInv, NextInv, PTL DEF Spec

LEMMA ComparedTyped ==
  ASSUME Inv, input.use = "compare"
  PROVE  /\ Listed(input.asked.before) /\ Listed(input.asked.after)
         /\ input.asked.call.npos \in Nat
BY AnalysesAssumption DEF Inv, Given

(* The check of one call is Python's binding of it, for every signature    *)
(* and call that may be compared (CompatIsBinding).                        *)
THEOREM Binding == Spec => []CompatIsBinding
<1>1. Inv => CompatIsBinding
  <2> SUFFICES ASSUME Inv, Answered("compare") PROVE CompatIsBinding
    BY DEF CompatIsBinding
  <2> DEFINE c == input.asked
  <2>0. report = [breaking |-> SignatureBreaking(c.before, c.after),
                  before |-> CallCompat(c.call, c.before),
                  after |-> CallCompat(c.call, c.after)]
    BY DEF Answered, Inv, Says, Comparison
  <2>1. /\ report.before = CallCompat(c.call, c.before)
        /\ report.after = CallCompat(c.call, c.after)
    BY <2>0
  <2>2. /\ Listed(c.before) /\ Listed(c.after) /\ c.call.npos \in Nat
    BY ComparedTyped DEF Answered
  <2>3. Decided(c.before) /\ ~c.call.open =>
          (CallCompat(c.call, c.before) <=> Accepts(c.call, c.before))
    BY <2>2, AcceptsIsBound, CompatIsBound DEF Decided
  <2>4. Decided(c.after) /\ ~c.call.open =>
          (CallCompat(c.call, c.after) <=> Accepts(c.call, c.after))
    BY <2>2, AcceptsIsBound, CompatIsBound DEF Decided
  <2> QED BY <2>1, <2>3, <2>4, Zenon DEF CompatIsBinding
<1> QED BY <1>1, Invariant, PTL

(* A change of signature that is not called breaking breaks no call, for   *)
(* signatures of any length (NotBreakingBreaksNothing).                    *)
THEOREM NotBreaking == Spec => []NotBreakingBreaksNothing
<1>1. Inv => NotBreakingBreaksNothing
  <2> SUFFICES ASSUME Inv, Answered("compare") PROVE NotBreakingBreaksNothing
    BY DEF NotBreakingBreaksNothing
  <2> DEFINE c == input.asked
  <2>0. report = [breaking |-> SignatureBreaking(c.before, c.after),
                  before |-> CallCompat(c.call, c.before),
                  after |-> CallCompat(c.call, c.after)]
    BY DEF Answered, Inv, Says, Comparison
  <2>1. report.breaking = SignatureBreaking(c.before, c.after)
    BY <2>0
  <2>2. /\ Listed(c.before) /\ Listed(c.after) /\ c.call.npos \in Nat
    BY ComparedTyped DEF Answered
  <2>3. ASSUME ~SignatureBreaking(c.before, c.after), Relaxed(c.before, c.after),
               WellFormed(c.before), WellFormed(c.after),
               c.before.posonly = 0, c.after.posonly = 0, Accepts(c.call, c.before)
        PROVE  Accepts(c.call, c.after)
    BY <2>2, <2>3, AcceptsIsBound, BindingKept
  <2> QED BY <2>1, <2>3, Zenon DEF NotBreakingBreaksNothing
<1> QED BY <1>1, Invariant, PTL

-----------------------------------------------------------------------------
(* The parameters of a definition are a list.                              *)
LEMMA ParamsListed ==
  ASSUME NEW fn, IsSequence(fn.posonly), IsSequence(fn.args), NEW skipFirst \in BOOLEAN
  PROVE  Listed(Params(fn, skipFirst))
<1> DEFINE pos == fn.posonly \o fn.args
           skip == skipFirst /\ pos # << >>
           V == {fn.posonly[i] : i \in DOMAIN fn.posonly} \cup {fn.args[i] : i \in DOMAIN fn.args}
<1>1. fn.posonly \in Seq(V) /\ fn.args \in Seq(V)
  BY DEF IsSequence
<1>2. pos \in Seq(V) /\ Len(fn.posonly) \in Nat
  BY <1>1
<1>3. (IF skip THEN Tail(pos) ELSE pos) \in Seq(V)
  BY <1>2
<1>4. (IF skip /\ fn.posonly # << >> THEN Len(fn.posonly) - 1 ELSE Len(fn.posonly)) \in Nat
  BY <1>1
<1>5. /\ Params(fn, skipFirst).positional \in Seq(V)
      /\ Params(fn, skipFirst).posonly \in Nat
  BY <1>3, <1>4 DEF Params
<1> HIDE DEF V
<1> QED BY <1>5 DEF Listed

(* When the gate does not block, the target was read, every caller in      *)
(* Python was, and every known call found what it needs.                   *)
LEMMA Unblocked ==
  ASSUME NEW g, Blocked(Findings(g)) = {}, IsFunction(g), g.target \in g.python
  PROVE  /\ Compared(g)
         /\ Callers(g) \subseteq g.planned \cup g.declined
         /\ \A f \in Callers(g) : f \in g.python => f \in g.parses
         /\ \A c \in KnownCalls(g) :
              /\ Status(g) # "removed"
              /\ Status(g) \in {"unchanged", "changed"} => CallCompat(c.call, Interface(g))
<1>1. \A f \in Findings(g) : f.severity # "block"
  BY DEF Blocked
<1>2. \A kind, file : Finding(kind, "block", file) \notin Findings(g)
  BY <1>1 DEF Finding
<1>3. /\ PlanFindings(g) \subseteq Findings(g)
      /\ TargetFindings(g) \subseteq Findings(g)
      /\ CallerFindings(g) \subseteq Findings(g)
  BY DEF Findings
<1>4. Compared(g)
  BY <1>2, <1>3 DEF TargetFindings, Compared
<1>5. ASSUME NEW f \in Callers(g), f \notin g.planned \cup g.declined PROVE FALSE
  <2>1. Finding("incomplete_plan", "block", f) \in PlanFindings(g)
    BY <1>5 DEF PlanFindings
  <2> QED BY <2>1, <1>2, <1>3
<1>6. ASSUME NEW f \in Callers(g), f \in g.python, f \notin g.parses PROVE FALSE
  <2>1. Finding("uncheckable", "block", f) \in CallerFindings(g)
    BY <1>6 DEF CallerFindings, Read
  <2> QED BY <2>1, <1>2, <1>3
<1>7. ASSUME NEW c \in KnownCalls(g), Status(g) = "removed" PROVE FALSE
  <2>1. Finding("dangling_call", "block", c.file) \in CallerFindings(g)
    BY <1>7 DEF CallerFindings
  <2> QED BY <2>1, <1>2, <1>3
<1>8. ASSUME NEW c \in KnownCalls(g), Status(g) \in {"unchanged", "changed"},
             ~CallCompat(c.call, Interface(g))
      PROVE  FALSE
  <2>1. Finding("incompatible_call", "block", c.file) \in CallerFindings(g)
    BY <1>8 DEF CallerFindings
  <2> QED BY <2>1, <1>2, <1>3
<1> QED BY <1>4, <1>5, <1>6, <1>7, <1>8

(* A refactor the impact gate lets through has looked at every caller, and *)
(* the calls spelled as before fit the definition left behind, for any     *)
(* number of callers and calls, and parameter lists of any length          *)
(* (CallersFit).                                                           *)
THEOREM KnownCallsFit == Spec => []CallersFit
<1>1. Inv => CallersFit
  <2> SUFFICES ASSUME Inv, Answered("impact"), Blocked(report) = {},
                      IsFunction(input.asked), input.asked.target \in input.asked.python
               PROVE  CallersFit
    BY Zenon DEF CallersFit
  <2> DEFINE g == input.asked
  <2>1. g \in ImpactInputs /\ Blocked(Findings(g)) = {}
    BY DEF Inv, Given, Says, Answered
  <2>2. /\ \A c \in g.calls : c.file \in g.python /\ c.call.npos \in Nat
        /\ g.after # NoFn => IsSequence(g.after.posonly) /\ IsSequence(g.after.args)
    BY <2>1, AnalysesAssumption
  <2> HIDE DEF g
  <2>3. IsFunction(g) /\ g.target \in g.python
    BY DEF g
  <2>4. /\ Compared(g)
        /\ Callers(g) \subseteq g.planned \cup g.declined
        /\ \A f \in Callers(g) : f \in g.python => f \in g.parses
        /\ \A c \in KnownCalls(g) :
             /\ Status(g) # "removed"
             /\ Status(g) \in {"unchanged", "changed"} => CallCompat(c.call, Interface(g))
    BY <2>1, <2>3, Unblocked
  <2>5. ASSUME NEW c \in TargetCalls(g), SpelledAsBefore(g, c)
        PROVE  c \in KnownCalls(g)
    <3>1. c \in g.calls /\ c.file \in Callers(g)
      BY DEF TargetCalls
    <3>2. c.text \in CallExprs(g, c.file)
      BY <2>5 DEF SpelledAsBefore, CallExprs
    <3> QED BY <3>1, <3>2, <2>2, <2>4 DEF KnownCalls, Read
  <2>6. ASSUME NEW c \in TargetCalls(g), SpelledAsBefore(g, c), g.after = NoFn
        PROVE  g.defines
    BY <2>4, <2>5, <2>6 DEF Status
  <2>7. ASSUME NEW c \in TargetCalls(g), SpelledAsBefore(g, c),
               g.after # NoFn, ~c.call.open, Decided(Interface(g))
        PROVE  Accepts(c.call, Interface(g))
    <3>1. Status(g) \in {"unchanged", "changed"}
      BY <2>4, <2>7 DEF Status
    <3>2. CallCompat(c.call, Interface(g))
      BY <2>4, <2>5, <2>7, <3>1
    <3>3. Listed(Interface(g))
      BY <2>2, <2>7, ParamsListed DEF Interface
    <3>4. c.call.npos \in Nat
      BY <2>2 DEF TargetCalls
    <3> QED BY <2>7, <3>2, <3>3, <3>4, AcceptsIsBound, CompatIsBound DEF Decided
  <2>8. \A c \in TargetCalls(g) : SpelledAsBefore(g, c) => Suits(g, c)
    BY <2>6, <2>7 DEF Suits
  <2> QED BY <2>4, <2>8 DEF CallersFit, g
<1> QED BY <1>1, Invariant, PTL

-----------------------------------------------------------------------------
(* What a plan takes away from a file was without a use in it.             *)
LEMMA RemovedUnused ==
  ASSUME NEW tr, NEW touched, NEW g, NEW private, NEW f, NEW n
  PROVE  /\ n \in Removed(CleanupTasks(tr, touched, g, private), f, "imports") =>
              n \in UnusedImports(tr[f], private)
         /\ n \in Removed(CleanupTasks(tr, touched, g, private), f, "symbols") =>
              n \in Orphans(tr, touched, g, f)
BY DEF Removed, CleanupTasks

LEMMA UnusedIsUnnamed ==
  ASSUME NEW tr, NEW touched, NEW g, NEW private, NEW f, NEW n
  PROVE  /\ n \in UnusedImports(tr[f], private) =>
              n \notin tr[f].loads \cup tr[f].strings \cup tr[f].all
         /\ n \in Orphans(tr, touched, g, f) =>
              \A u \in PythonFiles(tr) :
                /\ n \notin tr[u].loads
                /\ u # f => n \notin tr[u].strings
<1>1. n \in UnusedImports(tr[f], private) => n \notin tr[f].loads \cup tr[f].strings \cup tr[f].all
  BY DEF UnusedImports, References
<1>2. ASSUME n \in Orphans(tr, touched, g, f), NEW u \in PythonFiles(tr)
      PROVE  n \notin tr[u].loads /\ (u # f => n \notin tr[u].strings)
  <2>1. n \notin ReferencedIn(tr, f, u)
    BY <1>2 DEF Orphans
  <2> QED BY <2>1 DEF ReferencedIn, References
<1> QED BY <1>1, <1>2

(* What a cleaned file offers is what it offered without that.             *)
LEMMA OffersLeft ==
  ASSUME NEW tr, NEW tasks, NEW f \in DOMAIN tr, NEW n,
         n \in Offers(tr, f) \ Offers(CleanedTree(tr, tasks), f)
  PROVE  \/ n \in tr[f].defs /\ n \in Removed(tasks, f, "symbols")
         \/ n \in Bound(tr[f]) /\ n \in Removed(tasks, f, "imports")
BY DEF Offers, CleanedTree, Bound

(* Nothing is left dangling by a cleanup of a tree the pass can judge, of  *)
(* any number of files and names (NothingDangles).                         *)
THEOREM CleanupIsSafe == Spec => []NothingDangles
<1>1. Inv => NothingDangles
  <2> SUFFICES ASSUME Inv, Answered("cleanup"), Plain(input.asked.tree),
                      Dangling(CleanedTree(input.asked.tree, report), input.asked.tree)
               PROVE  FALSE
    BY Zenon DEF NothingDangles
  <2> DEFINE tr == input.asked.tree
             new == CleanedTree(tr, report)
  <2>1. report = CleanupTasks(tr, input.asked.touched, input.asked.g, Private)
    BY DEF Inv, Says
  <2> HIDE DEF tr
  <2>2. ASSUME NEW f, NEW n
        PROVE  /\ n \in Removed(report, f, "imports") =>
                    n \notin tr[f].loads \cup tr[f].strings \cup tr[f].all
               /\ n \in Removed(report, f, "symbols") =>
                    \A u \in PythonFiles(tr) :
                      /\ n \notin tr[u].loads
                      /\ u # f => n \notin tr[u].strings
    <3> DEFINE touched == input.asked.touched
               g == input.asked.g
    <3>1. /\ n \in Removed(report, f, "imports") => n \in UnusedImports(tr[f], Private)
          /\ n \in Removed(report, f, "symbols") => n \in Orphans(tr, touched, g, f)
      BY <2>1, RemovedUnused
    <3> HIDE DEF touched, g
    <3> QED BY <3>1, UnusedIsUnnamed
  <2>3. /\ DOMAIN new = DOMAIN tr /\ PythonFiles(new) = PythonFiles(tr)
        /\ \A f \in DOMAIN tr :
             /\ new[f].loads = tr[f].loads /\ new[f].strings = tr[f].strings
             /\ new[f].imports \subseteq tr[f].imports
             /\ tr[f].defs \ new[f].defs \subseteq Removed(report, f, "symbols")
    BY DEF CleanedTree, PythonFiles
  <2>4. \A f \in PythonFiles(tr) : f \in DOMAIN tr
    BY DEF PythonFiles
  <2>5. ASSUME NEW f \in DOMAIN tr, NEW n, n \in Offers(tr, f) \ Offers(new, f)
        PROVE  \/ n \in tr[f].defs /\ n \in Removed(report, f, "symbols")
               \/ n \in Bound(tr[f]) /\ n \in Removed(report, f, "imports")
    BY <2>5, OffersLeft
  <2> HIDE DEF new
  <2>6. ASSUME NEW f \in PythonFiles(tr), NEW i \in tr[f].imports, i.from \in DOMAIN tr,
               i.name \in Offers(tr, i.from) \ Offers(new, i.from)
        PROVE  FALSE
    <3>1. /\ i.name \in tr[i.from].defs => i.name \in tr[f].loads
          /\ i.name \in Bound(tr[i.from]) => i.name \in tr[i.from].all \cup tr[i.from].loads
      BY <2>6 DEF Plain, tr
    <3> QED BY <2>2, <2>5, <2>6, <3>1
  <2>7. ASSUME NEW f \in PythonFiles(tr), NEW n \in tr[f].loads, n \in Offers(tr, f) \ Offers(new, f)
        PROVE  FALSE
    BY <2>2, <2>4, <2>5, <2>7
  <2>8. ASSUME NEW f \in PythonFiles(tr), NEW d \in PythonFiles(tr), f # d,
               NEW n \in tr[f].strings, n \in tr[d].defs \ new[d].defs
        PROVE  FALSE
    BY <2>2, <2>3, <2>4, <2>8
  <2>9. Dangling(new, tr)
    BY DEF new, tr
  <2> QED BY <2>3, <2>4, <2>6, <2>7, <2>8, <2>9 DEF Dangling
<1> QED BY <1>1, Invariant, PTL

-----------------------------------------------------------------------------
(* Only a run to which no gate objected is passed.                         *)
LEMMA PassedGates ==
  ASSUME NEW g, Judged(g) = "passed"
  PROVE  RemovedUndeclared(g) = {} /\ Introduced(g) = {} /\ Unapplied(g) = {}
<1> DEFINE objecting == {i \in DOMAIN Gates(g) : ~Gates(g)[i].ok}
           first == CHOOSE i \in objecting : \A k \in objecting : i <= k
<1>1. DOMAIN Gates(g) = 1..5
  BY DEF Gates
<1>2. \A i \in 1..5 : Gates(g)[i].gate # "passed"
  BY DEF Gates
<1>3. ASSUME objecting # {} PROVE first \in 1..5
  <2>1. \E i \in objecting : \A k \in objecting : i <= k
    BY <1>1, <1>3
  <2> QED BY <2>1, <1>1
<1>4. objecting = {}
  BY <1>2, <1>3 DEF Judged
<1>5. Gates(g)[1].ok /\ Gates(g)[4].ok /\ Gates(g)[5].ok
  BY <1>1, <1>4
<1>6. /\ Gates(g)[1].ok <=> RemovedUndeclared(g) = {}
      /\ Gates(g)[4].ok <=> Introduced(g) = {}
      /\ Gates(g)[5].ok <=> Unapplied(g) = {}
  BY DEF Gates
<1> QED BY <1>5, <1>6

(* What the gates after integration pass they have checked of the text     *)
(* that was tested, for any number of tasks and files (PassedIsChecked).   *)
THEOREM PassedWasChecked == Spec => []PassedIsChecked
<1>1. Inv => PassedIsChecked
  <2> SUFFICES ASSUME Inv, Answered("integration"), report = "passed",
                      NEW f \in Touched(input.asked), Replayed(input.asked, f)
               PROVE  LET g == input.asked IN
                        /\ \A n \in g.text[f].exports \ Tested(g, f).exports : Declared(g, f, n)
                        /\ Tested(g, f).flaws \subseteq g.text[f].flaws
                        /\ ReadAsTested(g, f)
    BY Zenon DEF PassedIsChecked
  <2> DEFINE g == input.asked
  <2>1. Judged(g) = "passed" /\ g.python \subseteq g.parsed
    BY AnalysesAssumption DEF Inv, Given, Says, Answered
  <2>2. f \in Touched(g) /\ Replayed(g, f)
    OBVIOUS
  <2> HIDE DEF g
  <2>3. RemovedUndeclared(g) = {} /\ Introduced(g) = {} /\ Unapplied(g) = {}
    BY <2>1, PassedGates
  <2>4. f \in g.python /\ AppliedAny(g, f)
    BY <2>2, <2>3 DEF Unapplied
  <2>5. Rebuilt(g, f) = Tested(g, f)
    BY <2>2, <2>4 DEF Replayed, AppliedAny, Rebuilt, Tested
  <2>6. PatchedExports(g, f) = Tested(g, f).exports
    BY <2>1, <2>4, <2>5 DEF PatchedExports
  <2>7. ASSUME NEW n \in g.text[f].exports, n \notin Tested(g, f).exports PROVE Declared(g, f, n)
    <3> SUFFICES ASSUME ~Declared(g, f, n) PROVE FALSE OBVIOUS
    <3>1. <<f, n>> \in RemovedUndeclared(g)
      BY <2>1, <2>2, <2>4, <2>6, <2>7 DEF RemovedUndeclared
    <3> QED BY <3>1, <2>3
  <2>8. ASSUME NEW w \in Tested(g, f).flaws, w \notin g.text[f].flaws PROVE FALSE
    <3>1. <<f, w>> \in Introduced(g)
      BY <2>2, <2>5, <2>8 DEF Introduced, ScanTexts
    <3> QED BY <3>1, <2>3
  <2>9. ReadAsTested(g, f)
    BY <2>2, <2>4, <2>5 DEF ReadAsTested, PatchedTree
  <2> QED BY <2>7, <2>8, <2>9 DEF g
<1> QED BY <1>1, Invariant, PTL
-----------------------------------------------------------------------------
(* The rounds of the search and what depends on the target over so many    *)
(* steps are what their recursive definitions say.                         *)
IsWithin(g, f, n) == f = [k \in 0..n |-> IF k = 0 THEN {g.target} ELSE Wider(g, f[k - 1])]

LEMMA WithinExists ==
  ASSUME NEW g
  PROVE  \A n \in Nat : \E f : IsWithin(g, f, n)
<1> DEFINE T == {n \in Nat : \E f : IsWithin(g, f, n)}
<1>1. 0 \in T
  <2> DEFINE f == [k \in 0..0 |-> {g.target}]
  <2>1. IsWithin(g, f, 0)
    BY DEF IsWithin
  <2> QED BY <2>1
<1>2. ASSUME NEW n \in Nat, n \in T PROVE n + 1 \in T
  <2>1. PICK f : IsWithin(g, f, n)
    BY <1>2
  <2> DEFINE h == [k \in 0..(n + 1) |-> IF k <= n THEN f[k] ELSE Wider(g, f[n])]
  <2>2. ASSUME NEW k \in 0..(n + 1)
        PROVE  h[k] = IF k = 0 THEN {g.target} ELSE Wider(g, h[k - 1])
    <3>1. CASE k = 0
      BY <2>1, <3>1 DEF IsWithin
    <3>2. CASE k \in 1..n
      <4>1. h[k] = f[k] /\ h[k - 1] = f[k - 1]
        BY <3>2
      <4>2. k \in 0..n /\ k # 0
        BY <3>2
      <4>3. f[k] = IF k = 0 THEN {g.target} ELSE Wider(g, f[k - 1])
        BY <2>1, <4>2 DEF IsWithin
      <4> QED BY <4>1, <4>2, <4>3
    <3>3. CASE k = n + 1
      <4>1. h[k] = Wider(g, f[n]) /\ h[k - 1] = f[n]
        BY <3>3
      <4> QED BY <3>3, <4>1
    <3> QED BY <3>1, <3>2, <3>3
  <2>3. IsWithin(g, h, n + 1)
    <3>1. h = [k \in 0..(n + 1) |-> h[k]]
      OBVIOUS
    <3> HIDE DEF h
    <3> QED BY <2>2, <3>1 DEF IsWithin
  <2> QED BY <2>3
<1> HIDE DEF T
<1>3. \A n \in Nat : n \in T
  BY <1>1, <1>2, Induction
<1> QED BY <1>3 DEF T

LEMMA WithinDef ==
  ASSUME NEW g, g.depth \in Nat
  PROVE  IsWithin(g, Within(g), g.depth)
<1>1. \E f : IsWithin(g, f, g.depth)
  BY WithinExists
<1>2. Within(g) = CHOOSE f : IsWithin(g, f, g.depth)
  BY DEF Within, IsWithin
<1> QED BY <1>1, <1>2
IsRounds(g, f, n) == f = [k \in 0..n |-> IF k = 0 THEN Opening(g) ELSE Follow(g, f[k - 1])]

LEMMA RoundsExist ==
  ASSUME NEW g
  PROVE  \A n \in Nat : \E f : IsRounds(g, f, n)
<1> DEFINE T == {n \in Nat : \E f : IsRounds(g, f, n)}
<1>1. 0 \in T
  <2> DEFINE f == [k \in 0..0 |-> Opening(g)]
  <2>1. IsRounds(g, f, 0)
    BY DEF IsRounds
  <2> QED BY <2>1
<1>2. ASSUME NEW n \in Nat, n \in T PROVE n + 1 \in T
  <2>1. PICK f : IsRounds(g, f, n)
    BY <1>2
  <2> DEFINE h == [k \in 0..(n + 1) |-> IF k <= n THEN f[k] ELSE Follow(g, f[n])]
  <2>2. ASSUME NEW k \in 0..(n + 1)
        PROVE  h[k] = IF k = 0 THEN Opening(g) ELSE Follow(g, h[k - 1])
    <3>1. CASE k = 0
      BY <2>1, <3>1 DEF IsRounds
    <3>2. CASE k \in 1..n
      <4>1. h[k] = f[k] /\ h[k - 1] = f[k - 1]
        BY <3>2
      <4>2. k \in 0..n /\ k # 0
        BY <3>2
      <4>3. f[k] = IF k = 0 THEN Opening(g) ELSE Follow(g, f[k - 1])
        BY <2>1, <4>2 DEF IsRounds
      <4> QED BY <4>1, <4>2, <4>3
    <3>3. CASE k = n + 1
      <4>1. h[k] = Follow(g, f[n]) /\ h[k - 1] = f[n]
        BY <3>3
      <4> QED BY <3>3, <4>1
    <3> QED BY <3>1, <3>2, <3>3
  <2>3. IsRounds(g, h, n + 1)
    <3>1. h = [k \in 0..(n + 1) |-> h[k]]
      OBVIOUS
    <3> HIDE DEF h
    <3> QED BY <2>2, <3>1 DEF IsRounds
  <2> QED BY <2>3
<1> HIDE DEF T
<1>3. \A n \in Nat : n \in T
  BY <1>1, <1>2, Induction
<1> QED BY <1>3 DEF T

LEMMA RoundsDef ==
  ASSUME NEW g, g.depth \in Nat
  PROVE  IsRounds(g, Rounds(g), g.depth)
<1>1. \E f : IsRounds(g, f, g.depth)
  BY RoundsExist
<1>2. Rounds(g) = CHOOSE f : IsRounds(g, f, g.depth)
  BY DEF Rounds, IsRounds
<1> QED BY <1>1, <1>2
FilesDepending(g, symbols) == {f \in AllFiles(g) : \E d \in symbols : FileDependsOn(g, f, d)}

(* A round that has seen these symbols and has the files of those before:  *)
(* what is not at its edge has been followed.                              *)
Covers(g, b, symbols, before) ==
  /\ b.seen = symbols /\ b.frontier \subseteq symbols
  /\ g.target \in symbols /\ before \subseteq symbols
  /\ b.files = {g.owner[g.target]} \cup FilesDepending(g, before)
  /\ \A d \in symbols \ b.frontier :
       /\ \A s \in DOMAIN g.owner : DependsOn(g, s, d) => s \in symbols
       /\ \A f \in AllFiles(g) : FileDependsOn(g, f, d) => f \in b.files

(* What one round finds at its edge is what depends on it or on the file   *)
(* of the target.                                                          *)
LEMMA RoundFinds ==
  ASSUME NEW g, IsGraph(g), NEW edge
  PROVE  LET callers == CallersOf(g, edge)
             reached == Importers(g, edge, FilesOf(g, edge \cup {g.target})) IN
           /\ \A s : s \in Dependents(g, callers, reached) =>
                s \in DOMAIN g.owner /\ \E d \in edge \cup {g.target} : DependsOn(g, s, d)
           /\ \A s \in DOMAIN g.owner, d \in edge :
                DependsOn(g, s, d) => s \in Dependents(g, callers, reached)
           /\ \A f : f \in {c.file : c \in callers} \cup reached =>
                f \in AllFiles(g) /\ \E d \in edge \cup {g.target} : FileDependsOn(g, f, d)
           /\ \A f \in AllFiles(g), d \in edge :
                FileDependsOn(g, f, d) => f \in {c.file : c \in callers} \cup reached
<1> DEFINE callers == CallersOf(g, edge)
           reached == Importers(g, edge, FilesOf(g, edge \cup {g.target}))
<1>1. \A f : f \in reached <=>
        \/ \E d \in edge : [file |-> f, symbol |-> d] \in g.imports
        \/ \E d \in edge \cup {g.target} : [file |-> f, of |-> g.owner[d]] \in g.modules
  <2>1. /\ \A f, d : [file |-> f, symbol |-> d] \in g.imports <=>
                      \E i \in g.imports : i.file = f /\ i.symbol = d
        /\ \A f, o : [file |-> f, of |-> o] \in g.modules <=>
                      \E m \in g.modules : m.file = f /\ m.of = o
    BY DEF IsGraph
  <2>2. \A f : f \in reached <=>
          \/ \E i \in g.imports : i.file = f /\ i.symbol \in edge
          \/ \E m \in g.modules : m.file = f /\ \E d \in edge \cup {g.target} : m.of = g.owner[d]
    BY DEF Importers, FilesOf
  <2> HIDE DEF reached
  <2> TAKE f
  <2>3. (\E d \in edge : [file |-> f, symbol |-> d] \in g.imports) <=>
          \E i \in g.imports : i.file = f /\ i.symbol \in edge
    BY <2>1, Zenon
  <2>4. (\E d \in edge \cup {g.target} : [file |-> f, of |-> g.owner[d]] \in g.modules) <=>
          \E m \in g.modules : m.file = f /\ \E d \in edge \cup {g.target} : m.of = g.owner[d]
    BY <2>1, Zenon
  <2> QED BY <2>2, <2>3, <2>4, Zenon
<1>2. \A c : c \in callers <=> c \in g.calls /\ c.callee \in edge
  BY DEF CallersOf
<1> HIDE DEF callers, reached
<1>3. \A s : s \in Dependents(g, callers, reached) <=>
        s \in DOMAIN g.owner /\ ((\E c \in callers : c.caller = s) \/ g.owner[s] \in reached)
  BY <1>2 DEF Dependents, SymbolsIn, IsGraph
<1>4. ASSUME NEW s, s \in Dependents(g, callers, reached)
      PROVE  s \in DOMAIN g.owner /\ \E d \in edge \cup {g.target} : DependsOn(g, s, d)
  BY <1>1, <1>2, <1>3, <1>4 DEF DependsOn
<1>5. ASSUME NEW s \in DOMAIN g.owner, NEW d \in edge, DependsOn(g, s, d)
      PROVE  s \in Dependents(g, callers, reached)
  BY <1>1, <1>2, <1>3, <1>5 DEF DependsOn
<1>6. ASSUME NEW f, f \in {c.file : c \in callers} \cup reached
      PROVE  f \in AllFiles(g) /\ \E d \in edge \cup {g.target} : FileDependsOn(g, f, d)
  <2>1. \E d \in edge \cup {g.target} : FileDependsOn(g, f, d)
    BY <1>1, <1>2, <1>6 DEF FileDependsOn
  <2> QED BY <2>1 DEF FileDependsOn, AllFiles
<1>7. ASSUME NEW f \in AllFiles(g), NEW d \in edge, FileDependsOn(g, f, d)
      PROVE  f \in {c.file : c \in callers} \cup reached
  BY <1>1, <1>2, <1>7 DEF FileDependsOn
<1> QED BY <1>4, <1>5, <1>6, <1>7 DEF callers, reached

LEMMA FollowCovers ==
  ASSUME NEW g, IsGraph(g), NEW b, NEW symbols, NEW before, Covers(g, b, symbols, before)
  PROVE  Covers(g, Follow(g, b), Wider(g, symbols), symbols)
<1>1. CASE b.frontier = {}
  <2>1. Follow(g, b) = b
    BY <1>1 DEF Follow
  <2>2. Wider(g, symbols) = symbols
    BY <1>1 DEF Wider, Covers
  <2>3. b.files = {g.owner[g.target]} \cup FilesDepending(g, symbols)
    BY <1>1 DEF Covers, FilesDepending
  <2> QED BY <2>1, <2>2, <2>3 DEF Covers
<1>2. CASE b.frontier # {}
  <2> DEFINE callers == CallersOf(g, b.frontier)
             reached == Importers(g, b.frontier, FilesOf(g, b.frontier \cup {g.target}))
             found == Dependents(g, callers, reached)
             files == {c.file : c \in callers} \cup reached
             new == Follow(g, b)
  <2>1. /\ new.seen = b.seen \cup found /\ new.frontier = found \ b.seen
        /\ new.files = b.files \cup files
    BY <1>2 DEF Follow, Expand
  <2>2. /\ \A s : s \in found =>
             s \in DOMAIN g.owner /\ \E d \in b.frontier \cup {g.target} : DependsOn(g, s, d)
        /\ \A s \in DOMAIN g.owner, d \in b.frontier : DependsOn(g, s, d) => s \in found
        /\ \A f : f \in files =>
             f \in AllFiles(g) /\ \E d \in b.frontier \cup {g.target} : FileDependsOn(g, f, d)
        /\ \A f \in AllFiles(g), d \in b.frontier : FileDependsOn(g, f, d) => f \in files
    BY RoundFinds
  <2> HIDE DEF callers, reached, found, files, new
  <2>3. new.seen = Wider(g, symbols)
    BY <2>1, <2>2 DEF Covers, Wider
  <2>4. new.frontier \subseteq Wider(g, symbols) /\ symbols \subseteq Wider(g, symbols)
    BY <2>1, <2>3 DEF Wider
  <2>5. new.files = {g.owner[g.target]} \cup FilesDepending(g, symbols)
    BY <2>1, <2>2 DEF Covers, FilesDepending
  <2>6. ASSUME NEW d \in Wider(g, symbols) \ new.frontier
        PROVE  /\ \A s \in DOMAIN g.owner : DependsOn(g, s, d) => s \in Wider(g, symbols)
               /\ \A f \in AllFiles(g) : FileDependsOn(g, f, d) => f \in new.files
    <3>1. d \in symbols
      BY <2>1, <2>3, <2>6 DEF Covers
    <3> QED BY <2>5, <3>1 DEF Wider, FilesDepending
  <2> QED BY <2>3, <2>4, <2>5, <2>6 DEF Covers, new
<1> QED BY <1>1, <1>2

(* A search has seen what is within its depth, and has the files of what   *)
(* depends on anything one step nearer.                                    *)
LEMMA SearchCovers ==
  ASSUME NEW g, IsGraph(g)
  PROVE  Covers(g, Search(g), Within(g)[g.depth], Nearer(g))
<1> DEFINE R == Rounds(g)
           W == Within(g)
           Holds(n) == Covers(g, R[n], W[n], IF n = 0 THEN {} ELSE W[n - 1])
           T == {n \in Nat : n <= g.depth => Holds(n)}
<1>1. g.depth \in Nat
  BY DEF IsGraph
<1>2. /\ \A n \in 0..g.depth : R[n] = IF n = 0 THEN Opening(g) ELSE Follow(g, R[n - 1])
      /\ \A n \in 0..g.depth : W[n] = IF n = 0 THEN {g.target} ELSE Wider(g, W[n - 1])
  <2>1. IsRounds(g, R, g.depth) /\ IsWithin(g, W, g.depth)
    BY <1>1, RoundsDef, WithinDef
  <2> HIDE DEF R, W
  <2>2. /\ R = [n \in 0..g.depth |-> IF n = 0 THEN Opening(g) ELSE Follow(g, R[n - 1])]
        /\ W = [n \in 0..g.depth |-> IF n = 0 THEN {g.target} ELSE Wider(g, W[n - 1])]
    BY <2>1 DEF IsRounds, IsWithin
  <2> QED BY <2>2, Zenon
<1> HIDE DEF R, W
<1>3. 0 \in T
  <2>1. R[0] = Opening(g) /\ W[0] = {g.target}
    BY <1>1, <1>2
  <2>2. Covers(g, Opening(g), {g.target}, {})
    BY DEF Covers, Opening, FilesDepending
  <2> QED BY <2>1, <2>2
<1>4. ASSUME NEW n \in Nat, n \in T PROVE n + 1 \in T
  <2> SUFFICES ASSUME n + 1 <= g.depth PROVE Holds(n + 1) OBVIOUS
  <2>1. Covers(g, R[n], W[n], IF n = 0 THEN {} ELSE W[n - 1])
    BY <1>1, <1>4
  <2>2. R[n + 1] = Follow(g, R[n]) /\ W[n + 1] = Wider(g, W[n])
    <3>1. n + 1 \in 0..g.depth /\ n + 1 # 0 /\ (n + 1) - 1 = n
      BY <1>1
    <3> QED BY <1>2, <3>1
  <2>3. Covers(g, Follow(g, R[n]), Wider(g, W[n]), W[n])
    BY <2>1, FollowCovers
  <2> QED BY <2>2, <2>3
<1> HIDE DEF T
<1>5. g.depth \in T
  BY <1>1, <1>3, <1>4, Induction
<1> QED BY <1>1, <1>5 DEF T, Search, Nearer, R, W

(* The radius is what depends on the target within its depth, for every    *)
(* code graph and every depth (RadiusIsReach).                             *)
THEOREM RadiusMissesNothing == Spec => []RadiusIsReach
<1>1. Inv => RadiusIsReach
  <2> SUFFICES ASSUME Inv, Answered("radius") PROVE RadiusIsReach
    BY Zenon DEF RadiusIsReach
  <2> DEFINE g == input.asked
             files == ({g.owner[g.target]} \cup g.loose
                         \cup FilesDepending(g, Nearer(g))) \ g.isTest
  <2>1. report = Radiate(g) /\ IsGraph(g)
    BY AnalysesAssumption DEF Inv, Given, Says, Answered
  <2>2. Covers(g, Search(g), Within(g)[g.depth], Nearer(g))
    BY <2>1, SearchCovers
  <2>3. (Search(g).files \cup g.loose) \ g.isTest = files
    BY <2>2 DEF Covers
  <2>4. Search(g).seen = Within(g)[g.depth]
    BY <2>2 DEF Covers
  <2>5. report = IF Cardinality(files) > g.cap THEN [large |-> TRUE]
                 ELSE [large |-> FALSE, files |-> files,
                       tests |-> {t.test : t \in {k \in g.tests : k.symbol \in Within(g)[g.depth]}}]
    BY <2>1, <2>3, <2>4 DEF Radiate
  <2> QED BY <2>5 DEF RadiusIsReach, FilesDepending
<1> QED BY <1>1, Invariant, PTL

-----------------------------------------------------------------------------
(* The texts of the lines of some kinds, line by line.                     *)
AreTexts(c, lines, ops) ==
  /\ c \in [0..Len(lines) -> Seq({lines[i].text : i \in DOMAIN lines})]
  /\ c[0] = << >>
  /\ \A k \in 1..Len(lines) :
       c[k] = IF lines[k].op \in ops THEN Append(c[k - 1], lines[k].text) ELSE c[k - 1]

LEMMA TextsFold ==
  ASSUME NEW lines, IsSequence(lines), NEW ops
  PROVE  \E c : AreTexts(c, lines, ops) /\ TextsOf(lines, ops) = c[Len(lines)]
<1> DEFINE n == Len(lines)
           X == {lines[i].text : i \in DOMAIN lines}
           D == Seq(X)
           Keep(a, k) == IF lines[k].op \in ops THEN Append(a, lines[k].text) ELSE a
           F == [k \in 1..n |-> [a \in D |-> Keep(a, k)]]
           J(g) == g = [s \in SUBSET (DOMAIN lines) |->
                          IF s = {} THEN << >>
                          ELSE IF lines[Max(s)].op \in ops
                               THEN Append(g[s \ {Max(s)}], lines[Max(s)].text)
                               ELSE g[s \ {Max(s)}]]
           fold == CHOOSE g : J(g)
<1>1. n \in Nat /\ DOMAIN lines = 1..n
  BY DEF IsSequence
<1>2. << >> \in D
  OBVIOUS
<1>3. \A k \in 1..n, a \in D : Keep(a, k) \in D
  <2>1. \A k \in 1..n : lines[k].text \in X
    BY <1>1
  <2> HIDE DEF X
  <2> QED BY <2>1
<1>4. F \in [1..n -> [D -> D]]
  BY <1>3
<1>5. PICK f : IsFold(D, F, << >>, f, n)
  BY <1>1, <1>2, <1>4, FoldExists
<1>6. J(f)
  <2>1. /\ f = [s \in SUBSET (1..n) |-> f[s]] /\ f \in [SUBSET (1..n) -> D]
        /\ \A s \in SUBSET (1..n) : f[s] = IF s = {} THEN << >> ELSE F[Max(s)][f[s \ {Max(s)}]]
    BY <1>5 DEF IsFold
  <2>2. ASSUME NEW s \in SUBSET (1..n), s # {}
        PROVE  f[s] = Keep(f[s \ {Max(s)}], Max(s))
    <3>1. Max(s) \in 1..n
      BY <1>1, <2>2, Largest
    <3>2. f[s \ {Max(s)}] \in D
      BY <2>1
    <3> QED BY <2>1, <2>2, <3>1, <3>2
  <2> HIDE DEF D
  <2> QED BY <1>1, <2>1, <2>2
<1>7. TextsOf(lines, ops) = fold[DOMAIN lines]
  BY DEF TextsOf, FoldLeft, MapThenFoldSet
<1>8. J(fold)
  <2> HIDE DEF J
  <2> QED BY <1>6
<1> HIDE DEF fold
<1>9. fold[{}] = << >>
  BY <1>8
<1>10. ASSUME NEW k \in 1..n PROVE fold[1..k] = Keep(fold[1..(k - 1)], k)
  <2>1. /\ 1..k \in SUBSET (DOMAIN lines) /\ 1..k # {} /\ Max(1..k) = k
        /\ (1..k) \ {k} = 1..(k - 1)
    BY <1>1, FirstOnes
  <2> QED BY <1>8, <2>1
<1>11. PICK c : IsChain(D, F, << >>, c, n) /\ fold[1..n] = c[n]
  <2>1. \A k \in 1..n : fold[1..(k - 1)] \in D => fold[1..k] = F[k][fold[1..(k - 1)]]
    <3> SUFFICES ASSUME NEW k \in 1..n, fold[1..(k - 1)] \in D
                 PROVE  fold[1..k] = F[k][fold[1..(k - 1)]]
      OBVIOUS
    <3>1. F[k][fold[1..(k - 1)]] = Keep(fold[1..(k - 1)], k)
      OBVIOUS
    <3> QED BY <1>10, <3>1
  <2>2. IsChained(D, F, << >>, fold, n)
    BY <1>9, <2>1 DEF IsChained
  <2> HIDE DEF D, F
  <2> QED BY <1>1, <1>2, <1>4, <2>2, FoldChain
<1>12. \A k \in 1..n : c[k - 1] \in D
  BY <1>1, <1>11 DEF IsChain
<1>13. AreTexts(c, lines, ops)
  BY <1>11, <1>12 DEF AreTexts, IsChain
<1> QED BY <1>1, <1>7, <1>11, <1>13

(* A reply and a file that are what they may be.                           *)
IsReply ==
  /\ IsSequence(source) /\ IsSequence(reply.hunks)
  /\ \A k \in DOMAIN reply.hunks : IsHunk(reply.hunks[k])

HunkTexts(h) == {h.lines[i].text : i \in DOMAIN h.lines}
AllTexts == {source[i] : i \in DOMAIN source}
              \cup UNION {HunkTexts(reply.hunks[k]) : k \in DOMAIN reply.hunks}

LEMMA TextsListed ==
  ASSUME NEW lines, IsSequence(lines), NEW ops
  PROVE  TextsOf(lines, ops) \in Seq({lines[i].text : i \in DOMAIN lines})
<1>1. PICK c : AreTexts(c, lines, ops) /\ TextsOf(lines, ops) = c[Len(lines)]
  BY TextsFold
<1>2. Len(lines) \in 0..Len(lines)
  BY DEF IsSequence
<1> QED BY <1>1, <1>2 DEF AreTexts

LEMMA HunkListed ==
  ASSUME IsReply, NEW k \in 1..Len(reply.hunks)
  PROVE  LET h == reply.hunks[k] IN
           /\ k \in DOMAIN reply.hunks
           /\ Old(h) \in Seq(AllTexts) /\ New(h) \in Seq(AllTexts)
           /\ h.start \in Nat /\ Hint(h) \in Nat
<1> DEFINE h == reply.hunks[k]
<1>1. k \in DOMAIN reply.hunks
  BY DEF IsReply, IsSequence
<1>2. IsSequence(h.lines) /\ h.start \in Nat
  BY <1>1 DEF IsReply, IsHunk
<1>3. HunkTexts(h) \subseteq AllTexts
  BY <1>1 DEF AllTexts
<1> HIDE DEF h
<1>4. Old(h) \in Seq(HunkTexts(h)) /\ New(h) \in Seq(HunkTexts(h))
  BY <1>2, TextsListed DEF Old, New, HunkTexts
<1>5. Old(h) \in Seq(AllTexts) /\ New(h) \in Seq(AllTexts)
  BY <1>3, <1>4
<1>6. Hint(h) \in Nat
  BY <1>2 DEF Hint
<1> QED BY <1>1, <1>2, <1>5, <1>6 DEF h

LEMMA SourceListed ==
  ASSUME IsReply
  PROVE  /\ source \in Seq(AllTexts) /\ Len(source) \in Nat
         /\ Len(reply.hunks) \in Nat /\ DOMAIN reply.hunks = 1..Len(reply.hunks)
<1>1. {source[i] : i \in DOMAIN source} \subseteq AllTexts
  BY DEF AllTexts
<1>2. source \in Seq({source[i] : i \in DOMAIN source}) /\ reply.hunks \in Seq({reply.hunks[i] : i \in DOMAIN reply.hunks})
  BY DEF IsReply, IsSequence
<1> HIDE DEF AllTexts
<1> QED BY <1>1, <1>2

Tallies == [ok : BOOLEAN, at : Nat, text : Seq(AllTexts)]

LEMMA TallyStays ==
  ASSUME IsReply, NEW k \in 1..Len(reply.hunks), NEW acc \in Tallies
  PROVE  ApplyNext(acc, reply.hunks[k]) \in Tallies
<1> DEFINE h == reply.hunks[k]
           upto == SubSeq(source, acc.at + 1, Capped(Hint(h)))
           text == acc.text \o upto \o New(h)
<1>1. /\ Old(h) \in Seq(AllTexts) /\ New(h) \in Seq(AllTexts) /\ Hint(h) \in Nat
      /\ source \in Seq(AllTexts) /\ Len(source) \in Nat
  BY HunkListed, SourceListed
<1>2. acc.at \in Nat /\ acc.text \in Seq(AllTexts)
  BY DEF Tallies
<1>3. Capped(Hint(h)) \in 0..Len(source)
  BY <1>1 DEF Capped
<1> HIDE DEF h
<1>4. upto \in Seq(AllTexts)
  <2>1. \A i \in (acc.at + 1)..Capped(Hint(h)) : source[i] \in AllTexts
    BY <1>1, <1>2, <1>3
  <2> QED BY <1>2, <1>3, <2>1, SubSeqProperties
<1>5. text \in Seq(AllTexts) /\ Hint(h) + Len(Old(h)) \in Nat
  BY <1>1, <1>2, <1>4
<1>6. ApplyHunk(acc, h) \in Tallies
  <2> DEFINE ok == /\ h.start > 0 /\ Hint(h) >= acc.at
                   /\ Old(h) = << >> \/ (Hint(h) + Len(Old(h)) <= Len(source) /\ Fits(h, Hint(h)))
             at == Hint(h) + Len(Old(h))
  <2>1. ok \in BOOLEAN
    OBVIOUS
  <2>2. ApplyHunk(acc, h) = [ok |-> ok, at |-> at, text |-> text]
    BY DEF ApplyHunk
  <2>3. at \in Nat /\ text \in Seq(AllTexts)
    BY <1>5
  <2> HIDE DEF ok, at, text
  <2> QED BY <2>1, <2>2, <2>3 DEF Tallies
<1> QED BY <1>6 DEF ApplyNext, h

(* What the numbers alone make of the reply, hunk by hunk.                 *)
IsTally(c) ==
  /\ c \in [0..Len(reply.hunks) -> Tallies] /\ c[0] = Untouched
  /\ \A k \in 1..Len(reply.hunks) : c[k] = ApplyNext(c[k - 1], reply.hunks[k])

LEMMA TallyFold ==
  ASSUME IsReply
  PROVE  \E c : IsTally(c) /\ ByNumbers = c[Len(reply.hunks)]
<1> DEFINE hunks == reply.hunks
           n == Len(hunks)
           F == [k \in 1..n |-> [a \in Tallies |-> ApplyNext(a, hunks[k])]]
           J(g) == g = [s \in SUBSET (DOMAIN hunks) |->
                          IF s = {} THEN Untouched
                          ELSE ApplyNext(g[s \ {Max(s)}], hunks[Max(s)])]
           fold == CHOOSE g : J(g)
<1>1. n \in Nat /\ DOMAIN hunks = 1..n
  BY SourceListed
<1>2. Untouched \in Tallies
  BY DEF Untouched, Tallies
<1>3. \A k \in 1..n, a \in Tallies : ApplyNext(a, hunks[k]) \in Tallies
  BY TallyStays
<1>4. F \in [1..n -> [Tallies -> Tallies]]
  BY <1>3
<1>5. PICK f : IsFold(Tallies, F, Untouched, f, n)
  BY <1>1, <1>2, <1>4, FoldExists
<1>6. J(f)
  <2>1. /\ f = [s \in SUBSET (1..n) |-> f[s]] /\ f \in [SUBSET (1..n) -> Tallies]
        /\ \A s \in SUBSET (1..n) : f[s] = IF s = {} THEN Untouched ELSE F[Max(s)][f[s \ {Max(s)}]]
    BY <1>5 DEF IsFold
  <2>2. ASSUME NEW s \in SUBSET (1..n), s # {}
        PROVE  f[s] = ApplyNext(f[s \ {Max(s)}], hunks[Max(s)])
    <3>1. Max(s) \in 1..n
      BY <1>1, <2>2, Largest
    <3>2. f[s \ {Max(s)}] \in Tallies
      BY <2>1
    <3> QED BY <2>1, <2>2, <3>1, <3>2
  <2> QED BY <1>1, <2>1, <2>2
<1>7. ByNumbers = fold[DOMAIN hunks]
  BY DEF ByNumbers, FoldLeft, MapThenFoldSet
<1>8. J(fold)
  <2> HIDE DEF J
  <2> QED BY <1>6
<1> HIDE DEF fold
<1>9. fold[{}] = Untouched
  BY <1>8
<1>10. ASSUME NEW k \in 1..n PROVE fold[1..k] = ApplyNext(fold[1..(k - 1)], hunks[k])
  <2>1. /\ 1..k \in SUBSET (DOMAIN hunks) /\ 1..k # {} /\ Max(1..k) = k
        /\ (1..k) \ {k} = 1..(k - 1)
    BY <1>1, FirstOnes
  <2> QED BY <1>8, <2>1
<1>11. PICK c : IsChain(Tallies, F, Untouched, c, n) /\ fold[1..n] = c[n]
  <2>1. \A k \in 1..n : fold[1..(k - 1)] \in Tallies => fold[1..k] = F[k][fold[1..(k - 1)]]
    BY <1>10
  <2>2. IsChained(Tallies, F, Untouched, fold, n)
    BY <1>9, <2>1 DEF IsChained
  <2> HIDE DEF F, n, hunks
  <2> QED BY <1>1, <1>2, <1>4, <2>2, FoldChain
<1>12. \A k \in 1..n : c[k - 1] \in Tallies
  BY <1>1, <1>11 DEF IsChain
<1>13. IsTally(c)
  BY <1>11, <1>12 DEF IsTally, IsChain
<1> QED BY <1>1, <1>7, <1>11, <1>13

(* What fails to apply is not made good by what follows.                   *)
LEMMA AllApply ==
  ASSUME IsReply, NEW c, IsTally(c), c[Len(reply.hunks)].ok
  PROVE  \A k \in 0..Len(reply.hunks) : c[k].ok
<1> DEFINE n == Len(reply.hunks)
<1>1. n \in Nat
  BY SourceListed
<1>2. SUFFICES ASSUME NEW j \in 0..n, ~c[j].ok PROVE FALSE OBVIOUS
<1> DEFINE T == {k \in Nat : j <= k /\ k <= n => ~c[k].ok}
<1>3. 0 \in T
  BY <1>2
<1>4. ASSUME NEW k \in Nat, k \in T PROVE k + 1 \in T
  <2> SUFFICES ASSUME j <= k + 1, k + 1 <= n PROVE ~c[k + 1].ok OBVIOUS
  <2>1. CASE j = k + 1
    BY <1>2, <2>1
  <2>2. CASE j <= k
    <3>1. ~c[k].ok
      BY <1>4, <2>2
    <3>2. k + 1 \in 1..n /\ (k + 1) - 1 = k
      BY <1>1
    <3>3. c[k + 1] = ApplyNext(c[k], reply.hunks[k + 1])
      BY <3>2 DEF IsTally
    <3> QED BY <3>1, <3>3 DEF ApplyNext
  <2> QED BY <2>1, <2>2
<1> HIDE DEF T
<1>5. n \in T
  BY <1>1, <1>3, <1>4, Induction
<1> QED BY <1>1, <1>5 DEF T

(* The next hunk, when every hunk applies by its numbers.                  *)
Agrees(c) == out = c[placed].text /\ cursor = Capped(c[placed].at)

LEMMA NextApplies ==
  ASSUME IsReply, NEW c, IsTally(c), c[Len(reply.hunks)].ok, placed \in Nat, Placing
  PROVE  /\ placed + 1 \in 1..Len(reply.hunks)
         /\ c[placed] \in Tallies /\ c[placed].ok /\ c[placed + 1].ok
         /\ c[placed + 1] = ApplyHunk(c[placed], Hunk)
         /\ Old(Hunk) \in Seq(AllTexts) /\ Hint(Hunk) \in Nat
         /\ Len(source) \in Nat /\ source \in Seq(AllTexts)
<1>1. Len(reply.hunks) \in Nat /\ Len(source) \in Nat /\ source \in Seq(AllTexts)
  BY SourceListed
<1>2. placed + 1 \in 1..Len(reply.hunks) /\ placed \in 0..Len(reply.hunks) /\ (placed + 1) - 1 = placed
  BY <1>1 DEF Placing
<1>3. c[placed].ok /\ c[placed + 1].ok
  BY <1>2, AllApply
<1>4. c[placed] \in Tallies /\ c[placed + 1] = ApplyNext(c[placed], Hunk)
  BY <1>2 DEF IsTally, Hunk
<1>5. Old(Hunk) \in Seq(AllTexts) /\ Hint(Hunk) \in Nat
  BY <1>2, HunkListed DEF Hunk
<1> QED BY <1>1, <1>2, <1>3, <1>4, <1>5 DEF ApplyNext

(* A hunk with old lines is found where it says, and nowhere nearer.       *)
LEMMA FoundByNumber ==
  ASSUME IsReply, NEW c, IsTally(c), c[Len(reply.hunks)].ok, placed \in Nat, Placing,
         Agrees(c), Old(Hunk) # << >>
  PROVE  /\ Hint(Hunk) \in Starts(Hunk)
         /\ Nearest(Starts(Hunk), Hunk) = Hint(Hunk)
         /\ cursor = c[placed].at
         /\ Hint(Hunk) + Len(Old(Hunk)) <= Len(source)
<1> DEFINE h == Hunk
           from == Hint(h)
           S == Starts(h)
           Best(s) == \A t \in S \ {s} :
                        Distance(s, h) < Distance(t, h) \/ (Distance(s, h) = Distance(t, h) /\ s < t)
<1>1. /\ c[placed] \in Tallies /\ c[placed + 1].ok
      /\ c[placed + 1] = ApplyHunk(c[placed], h)
      /\ Old(h) \in Seq(AllTexts) /\ from \in Nat /\ Len(source) \in Nat
  BY NextApplies
<1> HIDE DEF h
<1>2. /\ from >= c[placed].at
      /\ from + Len(Old(h)) <= Len(source) /\ Fits(h, from)
  BY <1>1 DEF ApplyHunk, h
<1>3. c[placed].at \in Nat /\ Len(Old(h)) \in Nat
  BY <1>1 DEF Tallies
<1>4. c[placed].at <= Len(source) /\ from \in c[placed].at..Len(source)
  BY <1>1, <1>2, <1>3
<1>5. cursor = c[placed].at
  BY <1>1, <1>3, <1>4 DEF Agrees, Capped
<1>6. from \in S /\ S \subseteq Nat
  BY <1>1, <1>2, <1>3, <1>4, <1>5 DEF Starts
<1> HIDE DEF S
<1>7. \A t \in Nat : Distance(t, h) \in Nat /\ (Distance(t, h) = 0 <=> t = from)
  BY <1>1 DEF Distance
<1>8. Best(from)
  <2> SUFFICES ASSUME NEW t \in S \ {from} PROVE Distance(from, h) < Distance(t, h) OBVIOUS
  <2>1. Distance(from, h) = 0 /\ Distance(t, h) \in Nat /\ Distance(t, h) # 0
    BY <1>1, <1>6, <1>7
  <2> QED BY <2>1
<1>9. ASSUME NEW s \in S, Best(s) PROVE s = from
  <2> SUFFICES ASSUME s # from PROVE FALSE OBVIOUS
  <2>1. /\ Distance(s, h) < Distance(from, h) \/ (Distance(s, h) = Distance(from, h) /\ s < from)
        /\ Distance(from, h) = 0 /\ Distance(s, h) \in Nat /\ Distance(s, h) # 0
    BY <1>1, <1>6, <1>7, <1>9
  <2> QED BY <2>1
<1>10. Nearest(S, h) = from
  <2>1. Nearest(S, h) = CHOOSE s \in S : Best(s)
    BY DEF Nearest
  <2> HIDE DEF Best
  <2> QED BY <1>6, <1>8, <1>9, <2>1
<1> QED BY <1>2, <1>5, <1>6, <1>10 DEF h, S

LEMMA SubSeqBehind ==
  ASSUME NEW at \in Nat, Len(source) \in Nat, NEW end \in 0..Len(source)
  PROVE  SubSeq(source, Capped(at) + 1, end) = SubSeq(source, at + 1, end)
<1>1. CASE at <= Len(source)
  <2>1. Capped(at) = at
    BY <1>1 DEF Capped
  <2> QED BY <2>1
<1>2. CASE at > Len(source)
  <2>1. Capped(at) = Len(source)
    BY <1>2 DEF Capped
  <2>2. end < Capped(at) + 1 /\ end < at + 1 /\ end \in Int /\ Capped(at) + 1 \in Int /\ at + 1 \in Int
    BY <1>2, <2>1
  <2> QED BY <2>2, SubSeqEmpty
<1>3. at <= Len(source) \/ at > Len(source)
  OBVIOUS
<1> QED BY <1>1, <1>2, <1>3, Zenon

LEMMA StillAgrees ==
  ASSUME IsReply, NEW c, IsTally(c), c[Len(reply.hunks)].ok, placed \in Nat, Placing, Agrees(c),
         PlaceExactly \/ PlaceLoosely \/ PlaceInsertion
  PROVE  /\ placed' = placed + 1
         /\ out' = c[placed + 1].text
         /\ cursor' = IF c[placed + 1].at < Len(source) THEN c[placed + 1].at ELSE Len(source)
<1> DEFINE h == Hunk
           a == c[placed]
           from == Hint(h)
           b == c[placed + 1]
<1>1. /\ a \in Tallies /\ b = ApplyHunk(a, h) /\ b.ok
      /\ Old(h) \in Seq(AllTexts) /\ from \in Nat /\ Len(source) \in Nat
  BY NextApplies
<1>2. /\ b.at = from + Len(Old(h)) /\ from >= a.at
      /\ b.text = a.text \o SubSeq(source, a.at + 1, Capped(from)) \o New(h)
      /\ a.at \in Nat /\ Len(Old(h)) \in Nat
  <2> HIDE DEF a, b, h
  <2>1. a.at \in Nat /\ Len(Old(h)) \in Nat
    BY <1>1 DEF Tallies
  <2>2. /\ b.at = from + Len(Old(h)) /\ (b.ok => from >= a.at)
        /\ b.text = a.text \o SubSeq(source, a.at + 1, Capped(from)) \o New(h)
    <3> DEFINE text == a.text \o SubSeq(source, a.at + 1, Capped(from)) \o New(h)
               fits == Old(h) = << >> \/ (from + Len(Old(h)) <= Len(source) /\ Fits(h, from))
    <3>1. b = [ok |-> h.start > 0 /\ from >= a.at /\ fits, at |-> from + Len(Old(h)), text |-> text]
      BY <1>1 DEF ApplyHunk
    <3> HIDE DEF text, fits
    <3>2. b.at = from + Len(Old(h)) /\ b.text = text /\ (b.ok => from >= a.at)
      BY <3>1
    <3> QED BY <3>2 DEF text
  <2> QED BY <1>1, <2>1, <2>2
<1>3. out = a.text /\ cursor = Capped(a.at)
  BY DEF Agrees
<1>4. CASE Old(h) # << >>
  <2>1. /\ from \in Starts(h) /\ Nearest(Starts(h), h) = from
        /\ cursor = a.at /\ from + Len(Old(h)) <= Len(source)
    BY <1>4, FoundByNumber
  <2>2. PlaceExactly
    BY <1>4, <2>1 DEF PlaceLoosely, PlaceInsertion
  <2>3. /\ placed' = placed + 1 /\ cursor' = from + Len(Old(h))
        /\ out' = out \o SubSeq(source, cursor + 1, from) \o New(h)
    BY <2>1, <2>2 DEF PlaceExactly, Place
  <2>4. Capped(from) = from /\ cursor' = IF b.at < Len(source) THEN b.at ELSE Len(source)
    <3> DEFINE size == Len(Old(h))
               l == Len(source)
    <3>1. from \in Nat /\ size \in Nat /\ l \in Nat /\ from + size <= l
      BY <1>1, <1>2, <2>1
    <3>2. b.at = from + size /\ cursor' = from + size
      BY <1>2, <2>3
    <3> HIDE DEF from, size, b
    <3>3. (IF from < l THEN from ELSE l) = from /\ from + size = IF from + size < l THEN from + size ELSE l
      <4> HIDE DEF l
      <4> QED BY <3>1
    <3> QED BY <3>2, <3>3 DEF Capped, from
  <2> QED BY <1>2, <1>3, <2>1, <2>3, <2>4
<1>5. CASE Old(h) = << >>
  <2>1. PlaceInsertion
    BY <1>5 DEF PlaceExactly, PlaceLoosely
  <2>2. cursor \in Nat /\ cursor <= from
    BY <1>1, <1>2, <1>3 DEF Capped
  <2>3. (IF Hint(h) > cursor THEN Hint(h) ELSE cursor) = from
    BY <1>1, <2>2
  <2>4. /\ placed' = placed + 1 /\ cursor' = Capped(from)
        /\ out' = out \o SubSeq(source, cursor + 1, Capped(from)) \o New(h)
    BY <2>1, <2>3 DEF PlaceInsertion, Place
  <2>5. Capped(from) \in 0..Len(source) /\ b.at = from
    BY <1>1, <1>2, <1>5 DEF Capped
  <2>6. SubSeq(source, Capped(a.at) + 1, Capped(from)) = SubSeq(source, a.at + 1, Capped(from))
    BY <1>1, <1>2, <2>5, SubSeqBehind
  <2>7. out' = b.text
    BY <1>2, <1>3, <2>4, <2>6
  <2> QED BY <2>4, <2>5, <2>7 DEF Capped
<1> QED BY <1>4, <1>5

-----------------------------------------------------------------------------
AsNumbered ==
  /\ placed \in 0..Len(reply.hunks)
  /\ \A c : IsTally(c) /\ c[Len(reply.hunks)].ok => Agrees(c)

PatchInv ==
  /\ stage # "unused" => IsReply
  /\ stage = "reply" => placed = 0 /\ cursor = 0 /\ out = << >>
  /\ stage = "placing" => AsNumbered
  /\ AppliesAlike

LEMMA TallySame ==
  ASSUME source' = source, reply' = reply
  PROVE  /\ IsReply' <=> IsReply
         /\ \A c : IsTally(c)' <=> IsTally(c)
         /\ ByNumbers' = ByNumbers
<1>1. IsReply' <=> IsReply
  BY DEF IsReply, IsSequence
<1>2. \A acc, h : ApplyNext(acc, h)' = ApplyNext(acc, h)
  BY DEF ApplyNext, ApplyHunk, Capped, Fits
<1>3. \A c : IsTally(c)' <=> IsTally(c)
  BY <1>2 DEF IsTally, Tallies, AllTexts, HunkTexts, Untouched
<1>4. ByNumbers' = ByNumbers
  BY DEF ByNumbers, FoldLeft, MapThenFoldSet, ApplyNext, ApplyHunk, Capped, Fits, Untouched
<1> QED BY <1>1, <1>3, <1>4

LEMMA PatchPlaces ==
  ASSUME PatchInv, PlaceExactly \/ PlaceLoosely \/ PlaceInsertion
  PROVE  PatchInv'
<1>1. Placing /\ stage = "placing" /\ IsReply /\ AsNumbered
  BY DEF PlaceExactly, PlaceLoosely, PlaceInsertion, Placing, PatchInv
<1>2. UNCHANGED <<source, reply, stage>> /\ placed' = placed + 1
  BY DEF PlaceExactly, PlaceLoosely, PlaceInsertion, Place
<1>3. /\ Len(reply.hunks) \in Nat /\ placed \in Nat /\ placed < Len(reply.hunks)
      /\ Len(source) \in Nat
  BY <1>1, SourceListed DEF AsNumbered, Placing
<1>4. IsReply'
  BY <1>1, <1>2, TallySame
<1>5. AsNumbered'
  <2>1. (placed \in 0..Len(reply.hunks))'
    BY <1>2, <1>3
  <2>2. ASSUME NEW c, IsTally(c)', c[Len(reply'.hunks)].ok PROVE Agrees(c)'
    <3>1. IsTally(c) /\ c[Len(reply.hunks)].ok
      BY <1>2, <2>2, TallySame
    <3>2. Agrees(c)
      BY <1>1, <3>1 DEF AsNumbered
    <3>3. /\ out' = c[placed + 1].text
          /\ cursor' = IF c[placed + 1].at < Len(source) THEN c[placed + 1].at ELSE Len(source)
      BY <1>1, <1>3, <3>1, <3>2, StillAgrees
    <3> QED BY <1>2, <3>3 DEF Agrees, Capped
  <2> QED BY <2>1, <2>2 DEF AsNumbered
<1> QED BY <1>1, <1>2, <1>4, <1>5 DEF PatchInv, AppliesAlike

LEMMA PatchDerives ==
  ASSUME PatchInv, Derive
  PROVE  PatchInv'
<1> DEFINE n == Len(reply.hunks)
<1>1. /\ stage = "placing" /\ placed = n /\ stage' = "canonical"
      /\ source' = source /\ reply' = reply
      /\ out' = out \o SubSeq(source, cursor + 1, Len(source))
  BY DEF Derive, Rest
<1>2. IsReply /\ AsNumbered
  BY <1>1 DEF PatchInv
<1>3. n \in Nat /\ Len(source) \in Nat
  BY <1>2, SourceListed
<1>4. ASSUME ByNumbers.ok
      PROVE  out' = ByNumbers.text \o SubSeq(source, ByNumbers.at + 1, Len(source))
  <2>1. PICK c : IsTally(c) /\ ByNumbers = c[n]
    BY <1>2, TallyFold
  <2>2. out = c[n].text /\ cursor = Capped(c[n].at)
    BY <1>1, <1>2, <1>4, <2>1 DEF AsNumbered, Agrees
  <2>3. c[n].at \in Nat
    <3>1. c[n] \in Tallies
      BY <1>3, <2>1 DEF IsTally
    <3> QED BY <3>1 DEF Tallies
  <2>4. SubSeq(source, Capped(c[n].at) + 1, Len(source)) = SubSeq(source, c[n].at + 1, Len(source))
    <3> DEFINE at == c[n].at
    <3>1. at \in Nat /\ Len(source) \in 0..Len(source)
      BY <1>3, <2>3
    <3> HIDE DEF at
    <3>2. SubSeq(source, Capped(at) + 1, Len(source)) = SubSeq(source, at + 1, Len(source))
      BY <1>3, <3>1, SubSeqBehind
    <3> QED BY <3>2 DEF at
  <2> QED BY <1>1, <2>1, <2>2, <2>4
<1>5. IsReply' /\ ByNumbers' = ByNumbers
  BY <1>1, <1>2, TallySame
<1>6. AppliesAlike'
  BY <1>1, <1>4, <1>5 DEF AppliesAlike
<1> QED BY <1>1, <1>5, <1>6 DEF PatchInv

LEMMA PatchStays ==
  ASSUME PatchInv, UNCHANGED patchVars
  PROVE  PatchInv'
<1>1. /\ source' = source /\ reply' = reply /\ stage' = stage
      /\ placed' = placed /\ cursor' = cursor /\ out' = out
  BY DEF patchVars
<1>2. (IsReply' <=> IsReply) /\ (\A c : IsTally(c)' <=> IsTally(c)) /\ ByNumbers' = ByNumbers
  BY <1>1, TallySame
<1> QED BY <1>1, <1>2 DEF PatchInv, AsNumbered, Agrees, Capped, AppliesAlike

(* A step ends the parsing, or leaves the reply alone.                     *)
LEMMA PatchSteps ==
  ASSUME PatchInv, PatchNext
  PROVE  PatchInv'
<1>1. source' = source /\ reply' = reply
  BY DEF PatchNext, Unparseable, Parse, PlaceExactly, PlaceLoosely, PlaceInsertion, Misplaced,
         ChangesNothing, Derive, ScopeFails, ApplyFails, SyntaxFails, LocalGatesPass, Reject, Place
<1>2. stage # "unused" /\ IsReply /\ IsReply'
  <2>1. stage # "unused"
    BY DEF PatchNext, Unparseable, Parse, PlaceExactly, PlaceLoosely, PlaceInsertion, Misplaced,
           ChangesNothing, Derive, ScopeFails, ApplyFails, SyntaxFails, LocalGatesPass, Placing
  <2> QED BY <1>1, <2>1, TallySame DEF PatchInv
<1>3. CASE Parse
  <2>1. /\ stage = "reply" /\ stage' \in {"placing", "diff"}
        /\ placed' = 0 /\ cursor' = 0 /\ out' = << >>
    BY <1>3 DEF Parse, PatchInv
  <2>2. Len(reply.hunks) \in Nat /\ Len(source) \in Nat
    BY <1>2, SourceListed
  <2>3. \A c : IsTally(c) => c[0].text = << >> /\ c[0].at = 0
    BY DEF IsTally, Untouched
  <2>4. Capped(0) = 0
    BY <2>2 DEF Capped
  <2>5. \A c : IsTally(c)' => c[0].text = << >> /\ c[0].at = 0
    BY <1>1, <2>3, TallySame
  <2>6. \A c : IsTally(c)' => Agrees(c)'
    <3> SUFFICES ASSUME NEW c, IsTally(c)' PROVE Agrees(c)' OBVIOUS
    <3> QED BY <1>1, <2>1, <2>4, <2>5 DEF Agrees, Capped
  <2>7. AsNumbered'
    BY <1>1, <2>1, <2>2, <2>6 DEF AsNumbered
  <2> QED BY <1>2, <2>1, <2>7 DEF PatchInv, AppliesAlike
<1>4. CASE PlaceExactly \/ PlaceLoosely \/ PlaceInsertion
  BY <1>4, PatchPlaces
<1>5. CASE Derive
  BY <1>5, PatchDerives
<1>6. CASE \/ Unparseable \/ Misplaced \/ ChangesNothing \/ ScopeFails
           \/ ApplyFails \/ SyntaxFails \/ LocalGatesPass
  <2>1. stage' \in {"rejected", "passed"}
    BY <1>6 DEF Unparseable, Misplaced, ChangesNothing, ScopeFails, ApplyFails, SyntaxFails,
                LocalGatesPass, Reject
  <2> QED BY <1>2, <2>1 DEF PatchInv, AppliesAlike
<1> QED BY <1>3, <1>4, <1>5, <1>6 DEF PatchNext

(* A diff that applies by its numbers is placed where they say and gives   *)
(* the text they give, for any file and any number of hunks                *)
(* (AppliesAlike).                                                         *)
THEOREM NumbersAgree == Spec => []AppliesAlike
<1>1. Init => PatchInv
  BY PatchAssumption DEF Init, Asked, NoPatch, PatchInit, PatchInv, IsReply, AppliesAlike
<1>2. PatchInv /\ [Next]_vars => PatchInv'
  <2> SUFFICES ASSUME PatchInv, [Next]_vars PROVE PatchInv' OBVIOUS
  <2>1. PatchNext \/ UNCHANGED patchVars
    BY DEF Next, vars, FindRadius, CompareSignatures, AnalyseImpact, PlanCleanup,
           JudgeIntegration, Answer
  <2> QED BY <2>1, PatchSteps, PatchStays
<1>3. PatchInv => AppliesAlike
  BY DEF PatchInv
<1> QED BY <1>1, <1>2, <1>3, PTL DEF Spec

-----------------------------------------------------------------------------
(* The lines with code of a text, line by line.                            *)
AreCodes(X, c, text) ==
  /\ c \in [0..Len(text) -> Seq(X)] /\ c[0] = << >>
  /\ \A k \in 1..Len(text) :
       c[k] = IF text[k] \in Blank THEN c[k - 1] ELSE Append(c[k - 1], text[k])

LEMMA CodeFold ==
  ASSUME NEW X, NEW text \in Seq(X)
  PROVE  \E c : AreCodes(X, c, text) /\ Code(text) = c[Len(text)]
<1> DEFINE n == Len(text)
           D == Seq(X)
           Keep(a, k) == IF text[k] \in Blank THEN a ELSE Append(a, text[k])
           F == [k \in 1..n |-> [a \in D |-> Keep(a, k)]]
           J(g) == g = [s \in SUBSET (DOMAIN text) |->
                          IF s = {} THEN << >>
                          ELSE IF text[Max(s)] \in Blank
                               THEN g[s \ {Max(s)}]
                               ELSE Append(g[s \ {Max(s)}], text[Max(s)])]
           fold == CHOOSE g : J(g)
<1>1. n \in Nat /\ DOMAIN text = 1..n
  OBVIOUS
<1>2. << >> \in D
  OBVIOUS
<1>3. \A k \in 1..n, a \in D : Keep(a, k) \in D
  OBVIOUS
<1>4. F \in [1..n -> [D -> D]]
  BY <1>3
<1>5. PICK f : IsFold(D, F, << >>, f, n)
  BY <1>1, <1>2, <1>4, FoldExists
<1>6. J(f)
  <2>1. /\ f = [s \in SUBSET (1..n) |-> f[s]] /\ f \in [SUBSET (1..n) -> D]
        /\ \A s \in SUBSET (1..n) : f[s] = IF s = {} THEN << >> ELSE F[Max(s)][f[s \ {Max(s)}]]
    BY <1>5 DEF IsFold
  <2>2. ASSUME NEW s \in SUBSET (1..n), s # {}
        PROVE  f[s] = Keep(f[s \ {Max(s)}], Max(s))
    <3>1. Max(s) \in 1..n
      BY <1>1, <2>2, Largest
    <3>2. f[s \ {Max(s)}] \in D
      BY <2>1
    <3> QED BY <2>1, <2>2, <3>1, <3>2
  <2> HIDE DEF D
  <2> QED BY <1>1, <2>1, <2>2
<1>7. Code(text) = fold[DOMAIN text]
  BY DEF Code, FoldLeft, MapThenFoldSet
<1>8. J(fold)
  <2> HIDE DEF J
  <2> QED BY <1>6
<1> HIDE DEF fold
<1>9. fold[{}] = << >>
  BY <1>8
<1>10. ASSUME NEW k \in 1..n PROVE fold[1..k] = Keep(fold[1..(k - 1)], k)
  <2>1. /\ 1..k \in SUBSET (DOMAIN text) /\ 1..k # {} /\ Max(1..k) = k
        /\ (1..k) \ {k} = 1..(k - 1)
    BY <1>1, FirstOnes
  <2> QED BY <1>8, <2>1
<1>11. PICK c : IsChain(D, F, << >>, c, n) /\ fold[1..n] = c[n]
  <2>1. \A k \in 1..n : fold[1..(k - 1)] \in D => fold[1..k] = F[k][fold[1..(k - 1)]]
    <3> SUFFICES ASSUME NEW k \in 1..n, fold[1..(k - 1)] \in D
                 PROVE  fold[1..k] = F[k][fold[1..(k - 1)]]
      OBVIOUS
    <3>1. F[k][fold[1..(k - 1)]] = Keep(fold[1..(k - 1)], k)
      OBVIOUS
    <3> QED BY <1>10, <3>1
  <2>2. IsChained(D, F, << >>, fold, n)
    BY <1>9, <2>1 DEF IsChained
  <2> HIDE DEF D, F
  <2> QED BY <1>1, <1>2, <1>4, <2>2, FoldChain
<1>12. \A k \in 1..n : c[k - 1] \in D
  <2>1. c \in [0..n -> D] /\ \A k \in 1..n : k - 1 \in 0..n
    BY <1>1, <1>11 DEF IsChain
  <2> HIDE DEF D
  <2> QED BY <2>1
<1>13. AreCodes(X, c, text)
  BY <1>11, <1>12 DEF AreCodes, IsChain
<1> QED BY <1>1, <1>7, <1>11, <1>13

LEMMA CodeListed ==
  ASSUME NEW X, NEW text \in Seq(X)
  PROVE  Code(text) \in Seq(X)
<1>1. PICK c : AreCodes(X, c, text) /\ Code(text) = c[Len(text)]
  BY CodeFold
<1>2. Len(text) \in 0..Len(text)
  OBVIOUS
<1> QED BY <1>1, <1>2 DEF AreCodes

LEMMA CodeEmpty == Code(<< >>) = << >>
<1>1. PICK c : AreCodes({}, c, << >>) /\ Code(<< >>) = c[Len(<< >>)]
  <2>1. << >> \in Seq({})
    OBVIOUS
  <2> QED BY <2>1, CodeFold
<1> QED BY <1>1 DEF AreCodes

Behind(a, b, y) == Append(a \o b, y) = a \o Append(b, y)

LEMMA AppendsBehind ==
  ASSUME NEW Y, NEW a \in Seq(Y), NEW b \in Seq(Y), NEW y \in Y
  PROVE  Behind(a, b, y)
<1>1. a \o b \in Seq(Y) /\ <<y>> \in Seq(Y)
  BY ConcatProperties
<1>2. Append(a \o b, y) = (a \o b) \o <<y>> /\ Append(b, y) = b \o <<y>>
  BY <1>1, AppendIsConcat
<1>3. (a \o b) \o <<y>> = a \o (b \o <<y>>)
  BY <1>1, ConcatAssociative
<1> QED BY <1>2, <1>3 DEF Behind

(* The code of one text after another is the code of the one after that of *)
(* the other.                                                              *)
LEMMA CodeJoins ==
  ASSUME NEW X, NEW s \in Seq(X), NEW t \in Seq(X)
  PROVE  Code(s \o t) = Code(s) \o Code(t)
<1> DEFINE m == Len(s)
           n == Len(t)
<1>0. /\ m \in Nat /\ n \in Nat /\ s \o t \in Seq(X) /\ Len(s \o t) = m + n
      /\ \A i \in 1..(m + n) : (s \o t)[i] = IF i <= m THEN s[i] ELSE t[i - m]
  BY ConcatProperties
<1>1. PICK c : AreCodes(X, c, s) /\ Code(s) = c[m]
  BY CodeFold
<1>2. PICK d : AreCodes(X, d, t) /\ Code(t) = d[n]
  BY CodeFold
<1>3. PICK e : AreCodes(X, e, s \o t) /\ Code(s \o t) = e[m + n]
  BY <1>0, CodeFold
<1>4. c[0] = << >> /\ \A k \in 1..m : c[k] = IF s[k] \in Blank THEN c[k - 1] ELSE Append(c[k - 1], s[k])
  BY <1>1 DEF AreCodes
<1>5. d[0] = << >> /\ \A k \in 1..n : d[k] = IF t[k] \in Blank THEN d[k - 1] ELSE Append(d[k - 1], t[k])
  BY <1>2 DEF AreCodes
<1>6. /\ e[0] = << >>
      /\ \A k \in 1..(m + n) : e[k] = IF (s \o t)[k] \in Blank THEN e[k - 1] ELSE Append(e[k - 1], (s \o t)[k])
  <2>1. /\ e[0] = << >>
        /\ \A k \in 1..Len(s \o t) : e[k] = IF (s \o t)[k] \in Blank THEN e[k - 1] ELSE Append(e[k - 1], (s \o t)[k])
    BY <1>3 DEF AreCodes
  <2> QED BY <1>0, <2>1
<1>7. c[m] \in Seq(X) /\ \A k \in 0..n : d[k] \in Seq(X)
  <2>1. c \in [0..m -> Seq(X)] /\ d \in [0..n -> Seq(X)] /\ m \in 0..m
    BY <1>0, <1>1, <1>2 DEF AreCodes
  <2> HIDE DEF m, n
  <2> QED BY <2>1
<1>8. e[m] = c[m]
  <2> DEFINE T == {k \in Nat : k <= m => e[k] = c[k]}
  <2>1. 0 \in T
    BY <1>4, <1>6
  <2>2. ASSUME NEW k \in Nat, k \in T PROVE k + 1 \in T
    <3> SUFFICES ASSUME k + 1 <= m PROVE e[k + 1] = c[k + 1] OBVIOUS
    <3>1. k + 1 \in 1..m /\ k + 1 \in 1..(m + n) /\ (k + 1) - 1 = k /\ e[k] = c[k]
      BY <1>0, <2>2
    <3>2. (s \o t)[k + 1] = s[k + 1]
      BY <1>0, <3>1
    <3> QED BY <1>4, <1>6, <3>1, <3>2
  <2> HIDE DEF T
  <2>3. m \in T
    BY <1>0, <2>1, <2>2, Induction
  <2> QED BY <1>0, <2>3 DEF T
<1>9. e[m + n] = c[m] \o d[n]
  <2> DEFINE joined(k) == c[m] \o d[k]
             T == {k \in Nat : k <= n => e[m + k] = joined(k)}
  <2>1. 0 \in T
    <3>1. joined(0) = c[m]
      BY <1>5, <1>7, ConcatEmptySeq
    <3>2. e[m + 0] = c[m]
      BY <1>0, <1>8
    <3> HIDE DEF joined
    <3> QED BY <3>1, <3>2
  <2> HIDE DEF joined
  <2>2. ASSUME NEW k \in Nat, k \in T PROVE k + 1 \in T
    <3> SUFFICES ASSUME k + 1 <= n PROVE e[m + (k + 1)] = joined(k + 1) OBVIOUS
    <3>1. /\ k + 1 \in 1..n /\ m + (k + 1) \in 1..(m + n)
          /\ (k + 1) - 1 = k /\ (m + (k + 1)) - 1 = m + k /\ k \in 0..n
      BY <1>0
    <3>2. (s \o t)[m + (k + 1)] = t[k + 1]
      <4>1. ~(m + (k + 1) <= m) /\ (m + (k + 1)) - m = k + 1
        BY <1>0
      <4> HIDE DEF m, n
      <4> QED BY <1>0, <3>1, <4>1
    <3>3. t[k + 1] \in X /\ d[k] \in Seq(X)
      BY <1>7, <3>1
    <3>4. Append(joined(k), t[k + 1]) = c[m] \o Append(d[k], t[k + 1])
      <4> DEFINE x == t[k + 1]
                 u == c[m]
                 v == d[k]
      <4>1. u \in Seq(X) /\ v \in Seq(X) /\ x \in X
        BY <1>7, <3>3
      <4> HIDE DEF u, v, x
      <4>2. Behind(u, v, x)
        BY <4>1, AppendsBehind
      <4> QED BY <4>2 DEF joined, u, v, x, Behind
    <3>5. e[m + (k + 1)] = IF t[k + 1] \in Blank THEN e[m + k] ELSE Append(e[m + k], t[k + 1])
      <4> HIDE DEF m, n
      <4> QED BY <1>6, <3>1, <3>2
    <3>6. d[k + 1] = IF t[k + 1] \in Blank THEN d[k] ELSE Append(d[k], t[k + 1])
      BY <1>5, <3>1
    <3>7. e[m + k] = joined(k)
      BY <1>0, <2>2
    <3> HIDE DEF m, n
    <3> QED BY <3>4, <3>5, <3>6, <3>7 DEF joined
  <2> HIDE DEF T
  <2>3. n \in T
    BY <1>0, <2>1, <2>2, Induction
  <2>4. e[m + n] = joined(n)
    BY <1>0, <2>3 DEF T
  <2> QED BY <2>4 DEF joined
<1> QED BY <1>1, <1>2, <1>3, <1>8, <1>9

(* One more line.                                                          *)
LEMMA CodeOfLine ==
  ASSUME NEW X, NEW t \in X
  PROVE  Code(<<t>>) = IF t \in Blank THEN << >> ELSE <<t>>
<1>0. <<t>> \in Seq(X) /\ Len(<<t>>) = 1
  OBVIOUS
<1>1. PICK c : AreCodes(X, c, <<t>>) /\ Code(<<t>>) = c[1]
  <2>1. PICK c : AreCodes(X, c, <<t>>) /\ Code(<<t>>) = c[Len(<<t>>)]
    BY <1>0, CodeFold
  <2> QED BY <1>0, <2>1
<1>2. c[0] = << >> /\ c[1] = IF t \in Blank THEN c[0] ELSE Append(c[0], t)
  BY <1>1 DEF AreCodes
<1> QED BY <1>1, <1>2

LEMMA CodeAppends ==
  ASSUME NEW X, NEW s \in Seq(X), NEW t \in X
  PROVE  Code(Append(s, t)) = IF t \in Blank THEN Code(s) ELSE Append(Code(s), t)
<1>1. Append(s, t) = s \o <<t>> /\ <<t>> \in Seq(X)
  BY AppendIsConcat
<1>2. Code(s \o <<t>>) = Code(s) \o Code(<<t>>) /\ Code(s) \in Seq(X)
  BY <1>1, CodeJoins, CodeListed
<1>3. CASE t \in Blank
  BY <1>1, <1>2, <1>3, CodeOfLine, ConcatEmptySeq
<1>4. CASE t \notin Blank
  BY <1>1, <1>2, <1>4, CodeOfLine, AppendIsConcat
<1> QED BY <1>3, <1>4

(* Blank lines have no code.                                               *)
LEMMA NoCode ==
  ASSUME NEW X, NEW s \in Seq(X), \A i \in 1..Len(s) : s[i] \in Blank
  PROVE  Code(s) = << >>
<1>1. PICK c : AreCodes(X, c, s) /\ Code(s) = c[Len(s)]
  BY CodeFold
<1> DEFINE T == {k \in Nat : k <= Len(s) => c[k] = << >>}
<1>2. 0 \in T
  BY <1>1 DEF AreCodes
<1>3. ASSUME NEW k \in Nat, k \in T PROVE k + 1 \in T
  <2> SUFFICES ASSUME k + 1 <= Len(s) PROVE c[k + 1] = << >> OBVIOUS
  <2>1. k + 1 \in 1..Len(s) /\ (k + 1) - 1 = k /\ c[k] = << >>
    BY <1>3
  <2> QED BY <1>1, <2>1 DEF AreCodes
<1> HIDE DEF T
<1>4. Len(s) \in T
  BY <1>2, <1>3, Induction
<1> QED BY <1>1, <1>4 DEF T

(* What is taken apart again is what was put together.                     *)
LEMMA Halves ==
  ASSUME NEW X, NEW s \in Seq(X), NEW t \in Seq(X)
  PROVE  /\ SubSeq(s \o t, 1, Len(s)) = s
         /\ SubSeq(s \o t, Len(s) + 1, Len(s \o t)) = t
<1> DEFINE m == Len(s)
           n == Len(t)
           u == s \o t
<1>1. /\ m \in Nat /\ n \in Nat /\ u \in Seq(X) /\ Len(u) = m + n
      /\ \A i \in 1..(m + n) : u[i] = IF i <= m THEN s[i] ELSE t[i - m]
  BY ConcatProperties
<1>2. \A i \in 1..(m + n) : u[i] \in X
  BY <1>1, ElementOfSeq
<1> HIDE DEF u
<1>3. SubSeq(u, 1, m) = s
  <2>1. \A i \in 1..m : u[i] \in X /\ u[i] = s[i]
    BY <1>1, <1>2
  <2>2. /\ SubSeq(u, 1, m) \in Seq(X) /\ Len(SubSeq(u, 1, m)) = (IF 1 <= m THEN m - 1 + 1 ELSE 0)
        /\ \A i \in 1..(m - 1 + 1) : SubSeq(u, 1, m)[i] = u[1 + i - 1]
    BY <1>1, <2>1, SubSeqProperties
  <2>3. Len(SubSeq(u, 1, m)) = m /\ \A i \in 1..m : SubSeq(u, 1, m)[i] = s[i]
    BY <1>1, <2>1, <2>2
  <2> QED BY <2>2, <2>3, SeqEqual
<1>4. SubSeq(u, m + 1, m + n) = t
  <2>1. \A i \in (m + 1)..(m + n) : u[i] \in X
    BY <1>1, <1>2
  <2> DEFINE v == SubSeq(u, m + 1, m + n)
  <2>2. /\ v \in Seq(X) /\ Len(v) = (IF m + 1 <= m + n THEN (m + n) - (m + 1) + 1 ELSE 0)
        /\ \A i \in 1..((m + n) - (m + 1) + 1) : v[i] = u[(m + 1) + i - 1]
    BY <1>1, <2>1, SubSeqProperties
  <2> HIDE DEF v
  <2>3. Len(v) = n
    BY <1>1, <2>2
  <2>4. ASSUME NEW i \in 1..n PROVE v[i] = t[i]
    <3>1. (m + 1) + i - 1 = m + i /\ m + i \in 1..(m + n) /\ ~(m + i <= m) /\ (m + i) - m = i
          /\ i \in 1..((m + n) - (m + 1) + 1)
      BY <1>1
    <3> HIDE DEF m, n
    <3> QED BY <1>1, <2>2, <3>1
  <2>5. v = t
    BY <2>2, <2>3, <2>4, SeqEqual
  <2> QED BY <2>5 DEF v
<1> QED BY <1>1, <1>3, <1>4 DEF u

(* A stretch of a sequence.                                                *)
LEMMA Stretch ==
  ASSUME NEW X, NEW s \in Seq(X), NEW i \in 0..Len(s), NEW j \in i..Len(s)
  PROVE  /\ SubSeq(s, i + 1, j) \in Seq(X) /\ Len(SubSeq(s, i + 1, j)) = j - i
         /\ \A k \in 1..(j - i) : SubSeq(s, i + 1, j)[k] = s[i + k]
<1>1. i \in Nat /\ j \in Nat /\ i <= j /\ i + 1 \in Int /\ Len(s) \in Nat
  OBVIOUS
<1>2. \A k \in (i + 1)..j : s[k] \in X
  <2>1. \A k \in (i + 1)..j : k \in 1..Len(s)
    BY <1>1
  <2> QED BY <2>1, ElementOfSeq
<1>3. /\ SubSeq(s, i + 1, j) \in Seq(X)
      /\ Len(SubSeq(s, i + 1, j)) = IF i + 1 <= j THEN j - (i + 1) + 1 ELSE 0
      /\ \A k \in 1..(j - (i + 1) + 1) : SubSeq(s, i + 1, j)[k] = s[(i + 1) + k - 1]
  BY <1>1, <1>2, SubSeqProperties
<1>4. /\ (IF i + 1 <= j THEN j - (i + 1) + 1 ELSE 0) = j - i /\ j - (i + 1) + 1 = j - i
      /\ \A k \in 1..(j - i) : (i + 1) + k - 1 = i + k
  BY <1>1
<1> QED BY <1>3, <1>4

LEMMA Adjacent ==
  ASSUME NEW X, NEW s \in Seq(X), NEW i \in 0..Len(s), NEW j \in i..Len(s), NEW k \in j..Len(s)
  PROVE  SubSeq(s, i + 1, k) = SubSeq(s, i + 1, j) \o SubSeq(s, j + 1, k)
<1>1. i + 1 \in 1..(Len(s) + 1) /\ j \in ((i + 1) - 1)..Len(s) /\ k \in j..Len(s)
  OBVIOUS
<1> QED BY <1>1, ConcatAdjacentSubSeq

LEMMA OneMore ==
  ASSUME NEW X, NEW s \in Seq(X), NEW i \in 0..Len(s), NEW j \in i..Len(s), j < Len(s)
  PROVE  SubSeq(s, i + 1, j + 1) = Append(SubSeq(s, i + 1, j), s[j + 1])
<1>1. i + 1 \in 1..Len(s) /\ j + 1 \in (i + 1)..Len(s) /\ (j + 1) - 1 = j /\ j + 1 \in 1..Len(s)
  OBVIOUS
<1>2. SubSeq(s, i + 1, j + 1) = SubSeq(s, i + 1, j) \o <<s[j + 1]>>
  BY <1>1, SubSeqRecursiveSecond
<1>3. SubSeq(s, i + 1, j) \in Seq(X) /\ s[j + 1] \in X
  BY <1>1, Stretch, ElementOfSeq
<1> QED BY <1>2, <1>3, AppendIsConcat

-----------------------------------------------------------------------------
Weight(t) == IF t \in Blank THEN 0 ELSE 1

LEMMA Weighs ==
  ASSUME NEW X, NEW s \in Seq(X), NEW t \in X
  PROVE  /\ Len(s) \in Nat /\ Len(Code(s)) \in Nat
         /\ Len(Append(s, t)) = Len(s) + 1
         /\ Len(Code(Append(s, t))) = Len(Code(s)) + Weight(t)
<1>1. Code(s) \in Seq(X)
  BY CodeListed
<1>2. Code(Append(s, t)) = IF t \in Blank THEN Code(s) ELSE Append(Code(s), t)
  BY CodeAppends
<1> QED BY <1>1, <1>2 DEF Weight

Balanced(old, new, minus, plus) ==
  /\ Len(new) + Len(minus) = Len(old) + Len(plus)
  /\ Len(Code(new)) + Len(Code(minus)) = Len(Code(old)) + Len(Code(plus))

LEMMA BalanceKept ==
  ASSUME NEW X, NEW t \in X, NEW a \in Seq(X), NEW b \in Seq(X), NEW c \in Seq(X), NEW d \in Seq(X),
         Balanced(a, b, c, d)
  PROVE  /\ Balanced(Append(a, t), Append(b, t), c, d)
         /\ Balanced(Append(a, t), b, Append(c, t), d)
         /\ Balanced(a, Append(b, t), c, Append(d, t))
<1>1. Weight(t) \in Nat
  BY DEF Weight
<1>2. /\ Len(a) \in Nat /\ Len(Code(a)) \in Nat
      /\ Len(Append(a, t)) = Len(a) + 1 /\ Len(Code(Append(a, t))) = Len(Code(a)) + Weight(t)
  BY Weighs
<1>3. /\ Len(b) \in Nat /\ Len(Code(b)) \in Nat
      /\ Len(Append(b, t)) = Len(b) + 1 /\ Len(Code(Append(b, t))) = Len(Code(b)) + Weight(t)
  BY Weighs
<1>4. /\ Len(c) \in Nat /\ Len(Code(c)) \in Nat
      /\ Len(Append(c, t)) = Len(c) + 1 /\ Len(Code(Append(c, t))) = Len(Code(c)) + Weight(t)
  BY Weighs
<1>5. /\ Len(d) \in Nat /\ Len(Code(d)) \in Nat
      /\ Len(Append(d, t)) = Len(d) + 1 /\ Len(Code(Append(d, t))) = Len(Code(d)) + Weight(t)
  BY Weighs
<1> DEFINE
      a1 == Len(a)
      a2 == Len(Append(a, t))
      a3 == Len(Code(a))
      a4 == Len(Code(Append(a, t)))
      b1 == Len(b)
      b2 == Len(Append(b, t))
      b3 == Len(Code(b))
      b4 == Len(Code(Append(b, t)))
      c1 == Len(c)
      c2 == Len(Append(c, t))
      c3 == Len(Code(c))
      c4 == Len(Code(Append(c, t)))
      d1 == Len(d)
      d2 == Len(Append(d, t))
      d3 == Len(Code(d))
      d4 == Len(Code(Append(d, t)))
      w == Weight(t)
<1>6. a1 \in Nat /\ b1 \in Nat /\ c1 \in Nat /\ d1 \in Nat /\ a3 \in Nat /\ b3 \in Nat /\ c3 \in Nat /\ d3 \in Nat
  BY <1>2, <1>3, <1>4, <1>5
<1>7. /\ a2 = a1 + 1 /\ a4 = a3 + w /\ b2 = b1 + 1 /\ b4 = b3 + w
      /\ c2 = c1 + 1 /\ c4 = c3 + w /\ d2 = d1 + 1 /\ d4 = d3 + w
  BY <1>2, <1>3, <1>4, <1>5
<1>8. b1 + c1 = a1 + d1 /\ b3 + c3 = a3 + d3 /\ w \in Nat
  BY <1>1 DEF Balanced
<1>9. /\ b2 + c1 = a2 + d1 /\ b4 + c3 = a4 + d3
      /\ b1 + c2 = a2 + d1 /\ b3 + c4 = a4 + d3
      /\ b2 + c1 = a1 + d2 /\ b4 + c3 = a3 + d4
  <2> HIDE DEF a1, a2, a3, a4, b1, b2, b3, b4, c1, c2, c3, c4, d1, d2, d3, d4, w
  <2> QED BY <1>6, <1>7, <1>8
<1> QED BY <1>9 DEF Balanced

(* A hunk says what it does to the number of lines, and of lines with code.*)
LEMMA LinesBalance ==
  ASSUME NEW lines, IsSequence(lines)
  PROVE  Balanced(TextsOf(lines, {" ", "-"}), TextsOf(lines, {" ", "+"}),
                  TextsOf(lines, {"-"}), TextsOf(lines, {"+"}))
<1> DEFINE X == {lines[i].text : i \in DOMAIN lines}
           n == Len(lines)
<1>1. n \in Nat /\ DOMAIN lines = 1..n /\ \A k \in 1..n : lines[k].text \in X
  BY DEF IsSequence
<1>2. PICK a : AreTexts(a, lines, {" ", "-"}) /\ TextsOf(lines, {" ", "-"}) = a[n]
  BY TextsFold
<1>3. PICK b : AreTexts(b, lines, {" ", "+"}) /\ TextsOf(lines, {" ", "+"}) = b[n]
  BY TextsFold
<1>4. PICK c : AreTexts(c, lines, {"-"}) /\ TextsOf(lines, {"-"}) = c[n]
  BY TextsFold
<1>5. PICK d : AreTexts(d, lines, {"+"}) /\ TextsOf(lines, {"+"}) = d[n]
  BY TextsFold
<1>6. /\ \A k \in 0..n : a[k] \in Seq(X) /\ b[k] \in Seq(X) /\ c[k] \in Seq(X) /\ d[k] \in Seq(X)
      /\ a[0] = << >> /\ b[0] = << >> /\ c[0] = << >> /\ d[0] = << >>
  BY <1>2, <1>3, <1>4, <1>5 DEF AreTexts
<1> DEFINE T == {k \in Nat : k <= n => Balanced(a[k], b[k], c[k], d[k])}
<1>7. 0 \in T
  BY <1>6 DEF Balanced
<1>8. ASSUME NEW k \in Nat, k \in T PROVE k + 1 \in T
  <2> DEFINE t == lines[k + 1].text
             op == lines[k + 1].op
             a1 == a[k + 1]
             b1 == b[k + 1]
             c1 == c[k + 1]
             d1 == d[k + 1]
  <2> SUFFICES ASSUME k + 1 <= n PROVE Balanced(a1, b1, c1, d1)
    OBVIOUS
  <2>1. k + 1 \in 1..n /\ (k + 1) - 1 = k /\ k \in 0..n
    BY <1>1
  <2>2. Balanced(a[k], b[k], c[k], d[k])
    BY <1>1, <1>8
  <2>3. /\ a1 = IF op \in {" ", "-"} THEN Append(a[k], t) ELSE a[k]
        /\ b1 = IF op \in {" ", "+"} THEN Append(b[k], t) ELSE b[k]
        /\ c1 = IF op \in {"-"} THEN Append(c[k], t) ELSE c[k]
        /\ d1 = IF op \in {"+"} THEN Append(d[k], t) ELSE d[k]
    BY <1>2, <1>3, <1>4, <1>5, <2>1 DEF AreTexts
  <2>4. t \in X /\ a[k] \in Seq(X) /\ b[k] \in Seq(X) /\ c[k] \in Seq(X) /\ d[k] \in Seq(X)
    BY <1>1, <1>6, <2>1
  <2> HIDE DEF t, op, X, a1, b1, c1, d1
  <2>5. /\ Balanced(Append(a[k], t), Append(b[k], t), c[k], d[k])
        /\ Balanced(Append(a[k], t), b[k], Append(c[k], t), d[k])
        /\ Balanced(a[k], Append(b[k], t), c[k], Append(d[k], t))
    BY <2>2, <2>4, BalanceKept
  <2>7. CASE op = " "
    <3>1. a1 = Append(a[k], t) /\ b1 = Append(b[k], t) /\ c1 = c[k] /\ d1 = d[k]
      BY <2>3, <2>7
    <3> QED BY <2>5, <3>1
  <2>8. CASE op = "-"
    <3>1. a1 = Append(a[k], t) /\ b1 = b[k] /\ c1 = Append(c[k], t) /\ d1 = d[k]
      BY <2>3, <2>8
    <3> QED BY <2>5, <3>1
  <2>9. CASE op = "+"
    <3>1. a1 = a[k] /\ b1 = Append(b[k], t) /\ c1 = c[k] /\ d1 = Append(d[k], t)
      BY <2>3, <2>9
    <3> QED BY <2>5, <3>1
  <2>10. CASE op \notin {" ", "-", "+"}
    BY <2>2, <2>3, <2>10
  <2> QED BY <2>7, <2>8, <2>9, <2>10
<1> HIDE DEF T
<1>9. n \in T
  BY <1>1, <1>7, <1>8, Induction
<1>10. Balanced(a[n], b[n], c[n], d[n])
  BY <1>1, <1>9 DEF T
<1> QED BY <1>2, <1>3, <1>4, <1>5, <1>10

(* The lines a hunk takes up and those it puts there.                      *)
Replaces(h, at, end, new) ==
  /\ Code(SubSeq(source, at + 1, end)) = Code(Old(h))
  /\ Code(new) = Code(New(h))
  /\ Len(new) + Len(Old(h)) = (end - at) + Len(New(h))

TextsOver(X, h) ==
  source \in Seq(X) /\ out \in Seq(X) /\ Old(h) \in Seq(X) /\ New(h) \in Seq(X)

LEMMA PlacedWell ==
  ASSUME NEW X, NEW h, TextsOver(X, h), cursor \in 0..Len(source),
         IsSequence(h.lines),
         NEW at \in cursor..Len(source), NEW end \in at..Len(source), NEW new \in Seq(X),
         Place(at, end, new), Replaces(h, at, end, new)
  PROVE  InPlace(h)
<1> DEFINE used == SubSeq(source, cursor + 1, cursor')
           gained == SubSeq(out', Len(out) + 1, Len(out'))
           kept == SubSeq(source, cursor + 1, at)
           taken == SubSeq(source, at + 1, end)
           n == at - cursor
<1>1. /\ kept \in Seq(X) /\ Len(kept) = n /\ n \in Nat
      /\ taken \in Seq(X) /\ Len(taken) = end - at
  <2>1. Len(source) \in Nat /\ cursor \in 0..Len(source) /\ at \in cursor..Len(source) /\ n \in Nat
    BY DEF TextsOver
  <2>2. at \in 0..Len(source) /\ end \in at..Len(source)
    BY <2>1
  <2>3. kept \in Seq(X) /\ Len(kept) = n
    BY <2>1, Stretch DEF TextsOver
  <2>4. taken \in Seq(X) /\ Len(taken) = end - at
    BY <2>2, Stretch DEF TextsOver
  <2> QED BY <2>1, <2>3, <2>4
<1>2. used = kept \o taken
  <2>1. cursor' = end
    BY DEF Place
  <2> QED BY <2>1, Adjacent DEF TextsOver
<1>3. out' = out \o (kept \o new)
  <2>1. out' = (out \o kept) \o new
    BY DEF Place
  <2> HIDE DEF kept
  <2>2. kept \in Seq(X) /\ out \in Seq(X) /\ new \in Seq(X)
    BY <1>1 DEF TextsOver
  <2>3. (out \o kept) \o new = out \o (kept \o new)
    <3>1. \A a, b, c \in Seq(X) : (a \o b) \o c = a \o (b \o c)
      BY ConcatAssociative
    <3> QED BY <2>2, <3>1
  <2> QED BY <2>1, <2>3
<1> HIDE DEF used, gained, kept, taken
<1>4. kept \o new \in Seq(X) /\ Len(kept \o new) = n + Len(new)
  BY <1>1, ConcatProperties
<1>5. used \in Seq(X) /\ Len(used) = n + (end - at)
  BY <1>1, <1>2, ConcatProperties
<1>6. SubSeq(out', 1, Len(out)) = out /\ gained = kept \o new
  BY <1>3, <1>4, Halves DEF gained, TextsOver
<1>7. SubSeq(used, 1, n) = kept /\ SubSeq(used, n + 1, Len(used)) = taken
  <2>1. \A s, t \in Seq(X) : /\ SubSeq(s \o t, 1, Len(s)) = s
                             /\ SubSeq(s \o t, Len(s) + 1, Len(s \o t)) = t
    BY Halves
  <2> HIDE DEF n
  <2> QED BY <1>1, <1>2, <2>1
<1>8. Code(gained) = Code(kept) \o Code(New(h)) /\ Code(used) = Code(kept) \o Code(Old(h))
  BY <1>1, <1>2, <1>6, CodeJoins DEF Replaces, taken, TextsOver
<1>9. n \in 0..Len(used)
  BY <1>1, <1>5
<1>10. \E k \in 0..Len(used) :
         /\ Code(SubSeq(used, k + 1, Len(used))) = Code(Old(h))
         /\ Code(gained) = Code(SubSeq(used, 1, k)) \o Code(New(h))
  <2>1. Code(taken) = Code(Old(h))
    BY DEF Replaces, taken
  <2> HIDE DEF n
  <2> QED BY <1>7, <1>8, <1>9, <2>1
<1> DEFINE minus == TextsOf(h.lines, {"-"})
           plus == TextsOf(h.lines, {"+"})
<1>11. Blanks(gained) + Blanks(minus) = Blanks(used) + Blanks(plus)
  <2>1. Balanced(Old(h), New(h), minus, plus)
    BY LinesBalance DEF Old, New
  <2>2. minus \in Seq({h.lines[i].text : i \in DOMAIN h.lines}) /\ plus \in Seq({h.lines[i].text : i \in DOMAIN h.lines})
    BY TextsListed
  <2>3. /\ Len(minus) \in Nat /\ Len(Code(minus)) \in Nat /\ Len(plus) \in Nat /\ Len(Code(plus)) \in Nat
    <3> HIDE DEF minus, plus
    <3> QED BY <2>2, CodeListed
  <2> HIDE DEF minus, plus, n
  <2>4. Code(kept) \in Seq(X) /\ Code(Old(h)) \in Seq(X) /\ Code(New(h)) \in Seq(X)
    BY <1>1, CodeListed DEF TextsOver
  <2> DEFINE ck == Len(Code(kept))
             co == Len(Code(Old(h)))
             cn == Len(Code(New(h)))
             lo == Len(Old(h))
             ln == Len(New(h))
  <2>5. Len(Code(gained)) = ck + cn /\ Len(Code(used)) = ck + co
    BY <1>8, <2>4, ConcatProperties
  <2>6. ck \in Nat /\ co \in Nat /\ cn \in Nat /\ lo \in Nat /\ ln \in Nat /\ Len(new) \in Nat /\ end - at \in Int
    BY <2>4 DEF TextsOver
  <2>7. Len(gained) = n + Len(new) /\ Len(new) + lo = (end - at) + ln
    BY <1>4, <1>6 DEF Replaces
  <2>8. ln + Len(minus) = lo + Len(plus) /\ cn + Len(Code(minus)) = co + Len(Code(plus))
    BY <2>1 DEF Balanced
  <2> DEFINE e == end - at
             lm == Len(minus)
             cm == Len(Code(minus))
             lp == Len(plus)
             cp == Len(Code(plus))
             l == Len(new)
  <2>9. n \in Nat /\ e \in Int /\ l \in Nat /\ lm \in Nat /\ cm \in Nat /\ lp \in Nat /\ cp \in Nat
        /\ l + lo = e + ln /\ ln + lm = lo + lp /\ cn + cm = co + cp
    BY <1>1, <2>3, <2>6, <2>7, <2>8
  <2>10. Blanks(gained) = (n + l) - (ck + cn) /\ Blanks(used) = (n + e) - (ck + co)
         /\ Blanks(minus) = lm - cm /\ Blanks(plus) = lp - cp
    BY <1>5, <2>5, <2>7 DEF Blanks
  <2> HIDE DEF ck, co, cn, lo, ln, e, l, lm, cm, lp, cp
  <2>11. ((n + l) - (ck + cn)) + (lm - cm) = ((n + e) - (ck + co)) + (lp - cp)
    BY <2>6, <2>9
  <2> QED BY <2>10, <2>11
<1> QED BY <1>6, <1>10, <1>11 DEF InPlace, used, gained, minus, plus

(* The nearest of some places is one of them.                              *)
LEMMA NearestFound ==
  ASSUME NEW S, S \subseteq Nat, S # {}, NEW h, Hint(h) \in Nat
  PROVE  Nearest(S, h) \in S
<1> DEFINE far == {Distance(s, h) : s \in S}
           Best(s) == \A t \in S \ {s} :
                        Distance(s, h) < Distance(t, h) \/ (Distance(s, h) = Distance(t, h) /\ s < t)
<1>1. \A s \in S : Distance(s, h) \in Nat
  BY DEF Distance
<1>2. far \subseteq Nat /\ far # {}
  BY <1>1
<1>3. PICK d \in far : \A k \in far : d <= k
  BY <1>2, Least
<1> DEFINE near == {s \in S : Distance(s, h) = d}
<1>4. near \subseteq Nat /\ near # {}
  BY <1>3
<1>5. PICK s \in near : \A t \in near : s <= t
  BY <1>4, Least
<1>6. s \in S /\ Distance(s, h) = d /\ s \in Nat
  BY <1>5
<1>7. ASSUME NEW t \in S \ {s}
      PROVE  Distance(s, h) < Distance(t, h) \/ (Distance(s, h) = Distance(t, h) /\ s < t)
  <2>1. d <= Distance(t, h) /\ Distance(t, h) \in Nat /\ d \in Nat
    BY <1>1, <1>2, <1>3
  <2>2. Distance(t, h) = d => s < t
    BY <1>5, <1>6
  <2> QED BY <1>6, <2>1, <2>2
<1>8. \E b \in S : Best(b)
  BY <1>6, <1>7
<1>9. Nearest(S, h) = CHOOSE b \in S : Best(b)
  BY DEF Nearest
<1> HIDE DEF Best
<1> QED BY <1>8, <1>9

(* Blank lines end.                                                        *)
LEMMA BlanksRun ==
  ASSUME Len(source) \in Nat, NEW i \in Nat, i > 0
  PROVE  /\ BlanksFrom(i) \in 0..Len(source)
         /\ \A k \in 0..(BlanksFrom(i) - 1) : IsBlank(i + k)
<1> DEFINE Stop == {n \in Nat : ~IsBlank(i + n)}
           Run(n) == ~IsBlank(i + n) /\ \A k \in 0..(n - 1) : IsBlank(i + k)
<1>1. Len(source) \in Stop
  BY DEF IsBlank
<1>2. PICK n \in Stop : \A k \in Stop : n <= k
  BY <1>1, Least
<1>3. n \in 0..Len(source) /\ Run(n)
  <2>1. n <= Len(source) /\ n \in Nat /\ ~IsBlank(i + n)
    BY <1>1, <1>2
  <2>2. ASSUME NEW k \in 0..(n - 1) PROVE IsBlank(i + k)
    <3>1. k \in Nat /\ ~(n <= k)
      BY <2>1
    <3> QED BY <1>2, <3>1
  <2> QED BY <2>1, <2>2
<1>4. BlanksFrom(i) = CHOOSE k \in 0..Len(source) : Run(k)
  BY DEF BlanksFrom
<1> HIDE DEF Run
<1>5. BlanksFrom(i) \in 0..Len(source) /\ Run(BlanksFrom(i))
  BY <1>3, <1>4
<1> QED BY <1>5 DEF Run

(* What a scan knows, and what one line of a hunk may be.                  *)
Scans == [at : Nat, text : Seq(AllTexts), ok : BOOLEAN]
Line(l) == l.op \in {" ", "-", "+"} /\ l.text \in AllTexts
Passes(l) == l.op = " " /\ l.text \in Blank
Stands(l) == l.op = "-" \/ (l.op = " " /\ l.text \notin Blank)
ScanNext(first, z, l) == IF z.ok THEN ScanLine(first, z, l) ELSE z

(* A new line, a blank line of context, and a line that must be there.     *)
LEMMA ScanAdds ==
  ASSUME NEW first, NEW z \in Scans, NEW l, Line(l), l.op = "+"
  PROVE  LET y == ScanLine(first, z, l) IN
           y.at = z.at /\ y.text = Append(z.text, l.text) /\ y.ok = z.ok /\ y \in Scans
<1>1. ScanLine(first, z, l) = [z EXCEPT !.text = Append(@, l.text)]
  BY DEF ScanLine
<1>2. z.text \in Seq(AllTexts) /\ l.text \in AllTexts
  BY DEF Scans, Line
<1>3. Append(z.text, l.text) \in Seq(AllTexts)
  BY <1>2
<1> QED BY <1>1, <1>3 DEF Scans

LEMMA ScanPasses ==
  ASSUME IsReply, NEW first, NEW z \in Scans, NEW l, Line(l), Passes(l)
  PROVE  LET y == ScanLine(first, z, l) IN
           /\ y \in Scans
           /\ \/ y = z
              \/ /\ IsBlank(z.at + 1) /\ y.at = z.at + 1 /\ y.ok = z.ok
                 /\ y.text = Append(z.text, source[z.at + 1])
<1>1. ScanLine(first, z, l) =
        IF IsBlank(z.at + 1) THEN [z EXCEPT !.at = z.at + 1, !.text = Append(@, source[z.at + 1])] ELSE z
  BY DEF ScanLine, Passes
<1>2. CASE IsBlank(z.at + 1)
  <2>1. z.at \in Nat /\ Len(source) \in Nat
    BY SourceListed DEF Scans
  <2>2. source[z.at + 1] \in AllTexts
    <3>1. z.at + 1 \in 1..Len(source)
      BY <1>2, <2>1 DEF IsBlank
    <3>2. source \in Seq(AllTexts)
      BY SourceListed
    <3> QED BY <3>1, <3>2
  <2>3. Append(z.text, source[z.at + 1]) \in Seq(AllTexts)
    <3>1. z.text \in Seq(AllTexts)
      BY DEF Scans
    <3> QED BY <2>2, <3>1
  <2>4. z = [at |-> z.at, text |-> z.text, ok |-> z.ok] /\ z.ok \in BOOLEAN
    BY DEF Scans
  <2> DEFINE more == Append(z.text, source[z.at + 1])
             ok == z.ok
  <2>5. ScanLine(first, z, l) = [at |-> z.at + 1, text |-> more, ok |-> ok]
    BY <1>1, <1>2, <2>4
  <2> HIDE DEF more, ok
  <2>6. [at |-> z.at + 1, text |-> more, ok |-> ok] \in Scans
    BY <2>1, <2>3, <2>4 DEF Scans, more, ok
  <2> QED BY <1>2, <2>5, <2>6 DEF more, ok
<1>3. CASE ~IsBlank(z.at + 1)
  BY <1>1, <1>3
<1> QED BY <1>2, <1>3

Finds(first, z, l, y, over) ==
  /\ over \in Nat /\ \A k \in 1..over : IsBlank(z.at + k)
  /\ y.at = z.at + over + 1
  /\ y.text = z.text \o SubSeq(source, z.at + 1, z.at + over) \o (IF l.op = " " THEN <<l.text>> ELSE << >>)
  /\ y.ok => z.ok /\ y.at <= Len(source) /\ source[y.at] = l.text

LEMMA ScanFinds ==
  ASSUME IsReply, NEW first, NEW z \in Scans, NEW l, Line(l), Stands(l)
  PROVE  ScanLine(first, z, l) \in Scans /\ \E over : Finds(first, z, l, ScanLine(first, z, l), over)
<1> DEFINE i == z.at
           over == IF l.text \notin Blank /\ i > first THEN BlanksFrom(i + 1) ELSE 0
           found == i + over + 1
           last == IF l.op = " " THEN <<l.text>> ELSE << >>
           text == z.text \o SubSeq(source, i + 1, found - 1) \o last
           ok == z.ok /\ found <= Len(source) /\ source[found] = l.text
<1>1. ScanLine(first, z, l) = [at |-> found, text |-> text, ok |-> ok]
  BY DEF ScanLine, Line, Stands
<1>2. i \in Nat /\ Len(source) \in Nat
  BY SourceListed DEF Scans
<1>0. z.text \in Seq(AllTexts) /\ l.text \in AllTexts
  BY DEF Scans, Line
<1>3. over \in Nat /\ \A k \in 1..over : IsBlank(i + k)
  <2> DEFINE run == BlanksFrom(i + 1)
  <2>1. run \in 0..Len(source) /\ \A k \in 0..(run - 1) : IsBlank((i + 1) + k)
    BY <1>2, BlanksRun
  <2> HIDE DEF run
  <2>2. ASSUME NEW k \in 1..run PROVE IsBlank(i + k)
    <3>1. k - 1 \in 0..(run - 1) /\ (i + 1) + (k - 1) = i + k
      BY <1>2, <2>1
    <3>2. IsBlank((i + 1) + (k - 1))
      BY <2>1, <3>1
    <3> QED BY <3>1, <3>2
  <2>3. over = run \/ over = 0
    BY DEF run
  <2> HIDE DEF over
  <2> QED BY <2>1, <2>2, <2>3
<1> HIDE DEF over
<1>4. found - 1 = i + over /\ found \in Nat
  BY <1>2, <1>3
<1>5. SubSeq(source, i + 1, i + over) \in Seq(AllTexts)
  <2>1. ASSUME NEW k \in (i + 1)..(i + over) PROVE source[k] \in AllTexts
    <3>1. k - i \in 1..over /\ i + (k - i) = k
      BY <1>2, <1>3
    <3>2. IsBlank(k) /\ k \in Nat /\ k > 0
      BY <1>2, <1>3, <3>1
    <3>3. k \in 1..Len(source)
      BY <1>2, <3>2 DEF IsBlank
    <3>4. source \in Seq(AllTexts)
      BY SourceListed
    <3> QED BY <3>3, <3>4
  <2>2. i + 1 \in Int /\ i + over \in Int
    BY <1>2, <1>3
  <2> QED BY <2>1, <2>2, SubSeqProperties
<1>6. last \in Seq(AllTexts)
  <2>1. <<l.text>> \in Seq(AllTexts) /\ << >> \in Seq(AllTexts)
    BY <1>0
  <2>2. last = <<l.text>> \/ last = << >>
    OBVIOUS
  <2> QED BY <2>1, <2>2
<1> HIDE DEF last
<1>7. text \in Seq(AllTexts)
  <2> DEFINE gap == SubSeq(source, i + 1, i + over)
  <2>1. \A a, b, c \in Seq(AllTexts) : a \o b \o c \in Seq(AllTexts)
    OBVIOUS
  <2>2. text = z.text \o gap \o last
    BY <1>4
  <2> HIDE DEF gap, text
  <2> QED BY <1>0, <1>5, <1>6, <2>1, <2>2 DEF gap
<1>8. ok \in BOOLEAN
  BY DEF Scans
<1>9. text = z.text \o SubSeq(source, i + 1, i + over) \o last
  BY <1>4
<1>10. ok => z.ok /\ found <= Len(source) /\ source[found] = l.text
  OBVIOUS
<1> HIDE DEF text, ok, found
<1>11. ScanLine(first, z, l) \in Scans
  BY <1>1, <1>4, <1>7, <1>8 DEF Scans
<1>12. Finds(first, z, l, ScanLine(first, z, l), over)
  <2> DEFINE y == ScanLine(first, z, l)
  <2>1. y.at = found /\ y.text = text /\ (y.ok => ok)
    BY <1>1
  <2> HIDE DEF y
  <2>2. y.at = z.at + over + 1
    BY <2>1 DEF found
  <2>3. y.ok => z.ok /\ y.at <= Len(source) /\ source[y.at] = l.text
    BY <1>10, <2>1
  <2> QED BY <1>3, <1>9, <2>1, <2>2, <2>3 DEF Finds, y, last
<1> QED BY <1>11, <1>12

LEMMA ScanStays ==
  ASSUME IsReply, NEW first, NEW z \in Scans, NEW l, Line(l)
  PROVE  ScanNext(first, z, l) \in Scans
<1>1. CASE l.op = "+"
  BY <1>1, ScanAdds DEF ScanNext
<1>2. CASE Passes(l)
  BY <1>2, ScanPasses DEF ScanNext
<1>3. CASE Stands(l)
  BY <1>3, ScanFinds DEF ScanNext
<1> QED BY <1>1, <1>2, <1>3 DEF Line, Passes, Stands

(* A scan that is not over has matched the lines so far.                   *)
Matched(z, first, o, n) ==
  z.ok =>
    /\ z.at \in first..Len(source)
    /\ Code(SubSeq(source, first + 1, z.at)) = Code(o)
    /\ Code(z.text) = Code(n)
    /\ Len(z.text) + Len(o) = (z.at - first) + Len(n)

IsText(s) == s \in Seq(AllTexts)

LEMMA LineMore ==
  ASSUME NEW s, IsText(s), NEW t \in AllTexts
  PROVE  /\ IsText(Append(s, t)) /\ Len(s) \in Nat /\ Len(Append(s, t)) = Len(s) + 1
         /\ Code(Append(s, t)) = IF t \in Blank THEN Code(s) ELSE Append(Code(s), t)
BY CodeAppends DEF IsText

(* The blank lines passed over add no code.                                *)
Gap(i, over) == SubSeq(source, i + 1, i + over)
Skips(i, over) == i + over <= Len(source) /\ \A k \in 1..over : IsBlank(i + k)

LEMMA GapOfBlanks ==
  ASSUME IsReply, NEW i \in Nat, NEW over \in Nat, Skips(i, over), NEW s, IsText(s)
  PROVE  /\ IsText(s \o Gap(i, over)) /\ Len(s \o Gap(i, over)) = Len(s) + over
         /\ Code(s \o Gap(i, over)) = Code(s)
<1> DEFINE gap == Gap(i, over)
           j == i + over
<1>1. Len(source) \in Nat /\ i \in 0..Len(source) /\ j \in i..Len(source) /\ j - i = over
  BY SourceListed DEF Skips
<1>2. gap \in Seq(AllTexts) /\ Len(gap) = over /\ \A k \in 1..over : gap[k] = source[i + k]
  <2>1. source \in Seq(AllTexts)
    BY SourceListed
  <2> HIDE DEF j
  <2>2. gap = SubSeq(source, i + 1, j)
    BY DEF Gap, j
  <2>3. SubSeq(source, i + 1, j) \in Seq(AllTexts) /\ Len(SubSeq(source, i + 1, j)) = j - i
        /\ \A k \in 1..(j - i) : SubSeq(source, i + 1, j)[k] = source[i + k]
    BY <1>1, <2>1, Stretch
  <2> QED BY <1>1, <2>2, <2>3
<1> HIDE DEF gap, j
<1>3. Code(gap) = << >>
  <2>1. \A k \in 1..Len(gap) : gap[k] \in Blank
    BY <1>2 DEF IsBlank, Skips
  <2> QED BY <1>2, <2>1, NoCode
<1>4. /\ \A a, b \in Seq(AllTexts) : Code(a \o b) = Code(a) \o Code(b)
      /\ \A a, b \in Seq(AllTexts) : a \o b \in Seq(AllTexts) /\ Len(a \o b) = Len(a) + Len(b)
      /\ \A a \in Seq(AllTexts) : Code(a) \o << >> = Code(a)
  <2>1. \A a, b \in Seq(AllTexts) : Code(a \o b) = Code(a) \o Code(b)
    BY CodeJoins
  <2>2. \A a, b \in Seq(AllTexts) : a \o b \in Seq(AllTexts) /\ Len(a \o b) = Len(a) + Len(b)
    OBVIOUS
  <2>3. \A a \in Seq(AllTexts) : Code(a) \o << >> = Code(a)
    BY CodeListed, ConcatEmptySeq
  <2> QED BY <2>1, <2>2, <2>3
<1>5. s \in Seq(AllTexts)
  BY DEF IsText
<1> QED BY <1>2, <1>3, <1>4, <1>5 DEF IsText, gap

(* One more line of a hunk.                                                *)
LEMMA MatchAdds ==
  ASSUME IsReply, NEW first \in 0..Len(source), NEW z \in Scans, NEW l, Line(l), l.op = "+",
         NEW o, IsText(o), NEW n, IsText(n), Matched(z, first, o, n)
  PROVE  Matched(ScanLine(first, z, l), first, o, Append(n, l.text))
<1> DEFINE y == ScanLine(first, z, l)
           t == l.text
<1>1. y.at = z.at /\ y.text = Append(z.text, t) /\ y.ok = z.ok
  BY ScanAdds
<1>2. IsText(z.text) /\ z.at \in Nat /\ t \in AllTexts
  BY DEF IsText, Scans, Line
<1> HIDE DEF y, t
<1>3. SUFFICES ASSUME y.ok PROVE Matched(y, first, o, Append(n, t))
  BY DEF Matched, y, t
<1>4. /\ z.at \in first..Len(source)
      /\ Code(SubSeq(source, first + 1, z.at)) = Code(o)
      /\ Code(z.text) = Code(n)
      /\ Len(z.text) + Len(o) = (z.at - first) + Len(n)
  BY <1>1, <1>3 DEF Matched
<1>5. /\ Len(z.text) \in Nat /\ Len(n) \in Nat /\ Len(y.text) = Len(z.text) + 1 /\ Len(Append(n, t)) = Len(n) + 1
      /\ Code(y.text) = Code(Append(n, t))
  BY <1>1, <1>2, <1>4, LineMore
<1>6. Len(o) \in Nat
  BY DEF IsText
<1>7. Len(y.text) + Len(o) = (y.at - first) + Len(Append(n, t))
  <2> DEFINE a == Len(z.text)
             b == Len(n)
             c == Len(o)
  <2>1. a \in Nat /\ b \in Nat /\ c \in Nat /\ a + c = (z.at - first) + b /\ y.at = z.at
        /\ Len(y.text) = a + 1 /\ Len(Append(n, t)) = b + 1
    BY <1>1, <1>4, <1>5, <1>6
  <2> HIDE DEF a, b, c
  <2>2. (a + 1) + c = (z.at - first) + (b + 1)
    BY <1>2, <2>1
  <2> QED BY <2>1, <2>2 DEF c
<1> QED BY <1>1, <1>4, <1>5, <1>7 DEF Matched

LEMMA MatchPasses ==
  ASSUME IsReply, NEW first \in 0..Len(source), NEW z \in Scans, NEW l, Line(l), Passes(l),
         NEW o, IsText(o), NEW n, IsText(n), Matched(z, first, o, n)
  PROVE  Matched(ScanLine(first, z, l), first, Append(o, l.text), Append(n, l.text))
<1> DEFINE y == ScanLine(first, z, l)
           t == l.text
           x == source[z.at + 1]
<1>1. \/ y = z
      \/ IsBlank(z.at + 1) /\ y.at = z.at + 1 /\ y.ok = z.ok /\ y.text = Append(z.text, x)
  BY ScanPasses
<1>2. IsText(z.text) /\ z.at \in Nat /\ t \in AllTexts /\ t \in Blank
  BY DEF IsText, Scans, Line, Passes
<1> HIDE DEF y, t
<1>3. SUFFICES ASSUME y.ok PROVE Matched(y, first, Append(o, t), Append(n, t))
  BY DEF Matched, y, t
<1>4. /\ z.at \in first..Len(source)
      /\ Code(SubSeq(source, first + 1, z.at)) = Code(o)
      /\ Code(z.text) = Code(n)
      /\ Len(z.text) + Len(o) = (z.at - first) + Len(n)
  BY <1>1, <1>3 DEF Matched
<1>5. Code(Append(o, t)) = Code(o) /\ Len(Append(o, t)) = Len(o) + 1 /\ Len(o) \in Nat
  BY <1>2, LineMore
<1>6. Code(Append(n, t)) = Code(n) /\ Len(Append(n, t)) = Len(n) + 1 /\ Len(n) \in Nat /\ Len(z.text) \in Nat
  BY <1>2, LineMore
<1> DEFINE a == Len(z.text)
           b == Len(n)
           c == Len(o)
           d == Len(Append(n, t))
           e == Len(Append(o, t))
<1>7. a \in Nat /\ b \in Nat /\ c \in Nat /\ a + c = (z.at - first) + b /\ d = b + 1 /\ e = c + 1
  BY <1>4, <1>5, <1>6
<1>8. CASE y = z
  <2>1. a + e = (z.at - first) + d
    <3> HIDE DEF a, b, c, d, e
    <3> QED BY <1>2, <1>7
  <2> QED BY <1>4, <1>5, <1>6, <1>8, <2>1 DEF Matched
<1>9. CASE y # z
  <2>1. IsBlank(z.at + 1) /\ y.at = z.at + 1 /\ y.text = Append(z.text, x)
    BY <1>1, <1>9
  <2>2. Len(source) \in Nat /\ z.at + 1 <= Len(source) /\ x \in Blank /\ z.at < Len(source)
    BY <1>2, <2>1, SourceListed DEF IsBlank
  <2>3. x \in AllTexts
    <3>1. z.at + 1 \in 1..Len(source)
      BY <1>2, <2>2
    <3>2. source \in Seq(AllTexts)
      BY SourceListed
    <3> QED BY <3>1, <3>2
  <2>4. Code(y.text) = Code(z.text) /\ Len(y.text) = a + 1
    BY <1>2, <2>1, <2>2, <2>3, LineMore
  <2>5. Code(SubSeq(source, first + 1, y.at)) = Code(o)
    <3>1. source \in Seq(AllTexts)
      BY SourceListed
    <3>2. SubSeq(source, first + 1, z.at + 1) = Append(SubSeq(source, first + 1, z.at), x)
      BY <1>4, <2>2, <3>1, OneMore
    <3>3. IsText(SubSeq(source, first + 1, z.at))
      BY <1>4, <3>1, Stretch DEF IsText
    <3> HIDE DEF x
    <3> QED BY <1>4, <2>1, <2>2, <2>3, <3>2, <3>3, LineMore
  <2>6. (a + 1) + e = ((z.at + 1) - first) + d
    <3> HIDE DEF a, b, c, d, e
    <3> QED BY <1>2, <1>7
  <2>7. y.at \in first..Len(source)
    BY <1>4, <2>1, <2>2
  <2>8. Len(y.text) + e = (y.at - first) + d
    BY <2>1, <2>4, <2>6
  <2> QED BY <1>4, <1>5, <1>6, <2>4, <2>5, <2>7, <2>8 DEF Matched
<1> QED BY <1>8, <1>9

LEMMA MatchFinds ==
  ASSUME IsReply, NEW first \in 0..Len(source), NEW z \in Scans, NEW l, Line(l), Stands(l),
         NEW o, IsText(o), NEW n, IsText(n), Matched(z, first, o, n)
  PROVE  Matched(ScanLine(first, z, l), first, Append(o, l.text),
                 IF l.op = " " THEN Append(n, l.text) ELSE n)
<1> DEFINE y == ScanLine(first, z, l)
           t == l.text
           n2 == IF l.op = " " THEN Append(n, l.text) ELSE n
           i == z.at
<1>1. PICK over : Finds(first, z, l, y, over)
  BY ScanFinds
<1>2. IsText(z.text) /\ i \in Nat /\ t \in AllTexts /\ Len(source) \in Nat
  BY SourceListed DEF IsText, Scans, Line
<1>3. /\ over \in Nat /\ \A k \in 1..over : IsBlank(i + k)
      /\ y.at = i + over + 1
      /\ y.ok => z.ok /\ y.at <= Len(source) /\ source[y.at] = t
  BY <1>1 DEF Finds
<1>13. y.text = z.text \o Gap(i, over) \o (IF l.op = " " THEN <<t>> ELSE << >>)
  BY <1>1 DEF Finds, Gap
<1> HIDE DEF y
<1>4. SUFFICES ASSUME y.ok PROVE Matched(y, first, Append(o, t), n2)
  BY DEF Matched, y
<1>5. y.at <= Len(source) /\ source[y.at] = t
  BY <1>3, <1>4
<1>6. /\ i \in first..Len(source)
      /\ Code(SubSeq(source, first + 1, i)) = Code(o)
      /\ Code(z.text) = Code(n)
      /\ Len(z.text) + Len(o) = (i - first) + Len(n)
  BY <1>3, <1>4 DEF Matched
<1> DEFINE j == i + over
           before == SubSeq(source, first + 1, i)
<1>7. j \in first..Len(source) /\ j < Len(source) /\ j \in i..Len(source) /\ y.at = j + 1 /\ j \in Nat
  BY <1>2, <1>3, <1>5, <1>6
<1>8. Code(SubSeq(source, first + 1, y.at)) = Code(Append(o, t))
  <2>0. source \in Seq(AllTexts)
    BY SourceListed
  <2>1. SubSeq(source, first + 1, j + 1) = Append(SubSeq(source, first + 1, j), source[j + 1])
    <3> HIDE DEF j
    <3> QED BY <1>7, <2>0, OneMore
  <2>2. SubSeq(source, first + 1, j) = before \o Gap(i, over)
    <3>1. SubSeq(source, first + 1, j) = SubSeq(source, first + 1, i) \o SubSeq(source, i + 1, j)
      <4> HIDE DEF j, i
      <4> QED BY <1>6, <1>7, <2>0, Adjacent
    <3> QED BY <3>1 DEF Gap
  <2>3. IsText(before)
    <3> HIDE DEF i
    <3> QED BY <1>6, <2>0, Stretch DEF IsText
  <2>4. IsText(before \o Gap(i, over)) /\ Code(before \o Gap(i, over)) = Code(before)
    <3>1. Skips(i, over)
      BY <1>3, <1>7 DEF Skips
    <3> HIDE DEF before, i, j
    <3> QED BY <1>2, <1>3, <2>3, <3>1, GapOfBlanks
  <2>5. source[j + 1] = t
    BY <1>5, <1>7
  <2> DEFINE long == before \o Gap(i, over)
  <2>6. SubSeq(source, first + 1, y.at) = Append(long, t)
    BY <1>7, <2>1, <2>2, <2>5
  <2> HIDE DEF long, t
  <2>7. Code(Append(long, t)) = IF t \in Blank THEN Code(long) ELSE Append(Code(long), t)
    BY <1>2, <2>4, LineMore DEF long
  <2>8. Code(Append(o, t)) = IF t \in Blank THEN Code(o) ELSE Append(Code(o), t)
    BY <1>2, LineMore
  <2> QED BY <1>6, <2>4, <2>6, <2>7, <2>8 DEF long
<1> DEFINE kept == z.text \o Gap(i, over)
           a == Len(z.text)
           b == Len(n)
           c == Len(o)
           d == Len(n2)
           e == Len(Append(o, t))
<1>9. IsText(kept) /\ Len(kept) = a + over /\ Code(kept) = Code(n)
  <2>1. Skips(i, over)
    BY <1>3, <1>7 DEF Skips
  <2>2. IsText(kept) /\ Len(kept) = Len(z.text) + over /\ Code(kept) = Code(z.text)
    <3> HIDE DEF i
    <3> QED BY <1>2, <1>3, <2>1, GapOfBlanks
  <2> QED BY <1>6, <2>2
<1>10. e = c + 1 /\ c \in Nat /\ a \in Nat /\ b \in Nat /\ a + c = (i - first) + b
  BY <1>2, <1>6, LineMore DEF IsText
<1>14. /\ ((a + over) + 1) + e = ((j + 1) - first) + (b + 1)
       /\ (a + over) + e = ((j + 1) - first) + b
  <2>1. j = i + over /\ i \in Nat /\ over \in Nat
    BY <1>2, <1>3
  <2> HIDE DEF a, b, c, d, e, i, j
  <2> QED BY <1>10, <2>1
<1>11. CASE l.op = " "
  <2> HIDE DEF kept, t
  <2>1. y.text = kept \o <<t>> /\ n2 = Append(n, t)
    BY <1>13, <1>11 DEF kept, t
  <2>2. y.text = Append(kept, t)
    BY <1>2, <1>9, <2>1, AppendIsConcat DEF IsText
  <2>3. Code(y.text) = Code(n2) /\ Len(y.text) = (a + over) + 1 /\ d = b + 1
    <3>1. Code(Append(kept, t)) = Code(Append(n, t)) /\ Len(Append(kept, t)) = Len(kept) + 1
          /\ Len(Append(n, t)) = Len(n) + 1
      BY <1>2, <1>9, LineMore DEF t
    <3> HIDE DEF n2
    <3> QED BY <1>9, <2>1, <2>2, <3>1
  <2>4. ((a + over) + 1) + e = ((j + 1) - first) + d
    BY <1>14, <2>3
  <2>5. Len(y.text) + e = (y.at - first) + d
    BY <1>7, <2>3, <2>4
  <2>6. y.at \in first..Len(source)
    BY <1>7
  <2> HIDE DEF n2
  <2> QED BY <1>8, <2>3, <2>5, <2>6 DEF Matched, t
<1>12. CASE l.op # " "
  <2> HIDE DEF kept, t
  <2>1. y.text = kept \o << >> /\ n2 = n
    BY <1>13, <1>12 DEF kept, t
  <2>2. y.text = kept
    BY <1>9, <2>1, ConcatEmptySeq DEF IsText
  <2>3. Code(y.text) = Code(n2) /\ Len(y.text) = a + over /\ d = b
    BY <1>9, <2>1, <2>2
  <2>4. (a + over) + e = ((j + 1) - first) + d
    BY <1>14, <2>3
  <2>5. Len(y.text) + e = (y.at - first) + d
    BY <1>7, <2>3, <2>4
  <2>6. y.at \in first..Len(source)
    BY <1>7
  <2> HIDE DEF n2
  <2> QED BY <1>8, <2>3, <2>5, <2>6 DEF Matched, t
<1> QED BY <1>11, <1>12

LEMMA MatchKept ==
  ASSUME IsReply, NEW first \in 0..Len(source), NEW z \in Scans, NEW l, Line(l),
         NEW o, IsText(o), NEW n, IsText(n), Matched(z, first, o, n)
  PROVE  Matched(ScanNext(first, z, l), first,
                 IF l.op \in {" ", "-"} THEN Append(o, l.text) ELSE o,
                 IF l.op \in {" ", "+"} THEN Append(n, l.text) ELSE n)
<1>1. CASE ~z.ok
  BY <1>1 DEF Matched, ScanNext
<1>2. CASE z.ok /\ l.op = "+"
  BY <1>2, MatchAdds DEF ScanNext
<1>3. CASE z.ok /\ Passes(l)
  BY <1>3, MatchPasses DEF ScanNext, Passes
<1>4. CASE z.ok /\ Stands(l)
  BY <1>4, MatchFinds DEF ScanNext, Stands
<1> QED BY <1>1, <1>2, <1>3, <1>4 DEF Line, Passes, Stands

(* The scan of a hunk, line by line.                                       *)
IsScan(z, lines, first) ==
  /\ z \in [0..Len(lines) -> Scans] /\ z[0] = Opened(first)
  /\ \A k \in 1..Len(lines) : z[k] = ScanNext(first, z[k - 1], lines[k])

LEMMA ScanFold ==
  ASSUME IsReply, NEW h, IsSequence(h.lines), \A k \in 1..Len(h.lines) : Line(h.lines[k]),
         NEW first \in Nat
  PROVE  \E z : IsScan(z, h.lines, first) /\ Scan(h, first) = z[Len(h.lines)]
<1> DEFINE lines == h.lines
           n == Len(lines)
           F == [k \in 1..n |-> [a \in Scans |-> ScanNext(first, a, lines[k])]]
           J(g) == g = [s \in SUBSET (DOMAIN lines) |->
                          IF s = {} THEN Opened(first)
                          ELSE ScanNext(first, g[s \ {Max(s)}], lines[Max(s)])]
           fold == CHOOSE g : J(g)
<1>1. n \in Nat /\ DOMAIN lines = 1..n
  BY DEF IsSequence
<1>2. Opened(first) \in Scans
  <2>1. << >> \in Seq(AllTexts)
    OBVIOUS
  <2> QED BY <2>1 DEF Opened, Scans
<1>3. \A k \in 1..n, a \in Scans : ScanNext(first, a, lines[k]) \in Scans
  BY ScanStays
<1>4. F \in [1..n -> [Scans -> Scans]]
  BY <1>3
<1>5. PICK f : IsFold(Scans, F, Opened(first), f, n)
  BY <1>1, <1>2, <1>4, FoldExists
<1>6. J(f)
  <2>1. /\ f = [s \in SUBSET (1..n) |-> f[s]] /\ f \in [SUBSET (1..n) -> Scans]
        /\ \A s \in SUBSET (1..n) : f[s] = IF s = {} THEN Opened(first) ELSE F[Max(s)][f[s \ {Max(s)}]]
    BY <1>5 DEF IsFold
  <2>2. ASSUME NEW s \in SUBSET (1..n), s # {}
        PROVE  f[s] = ScanNext(first, f[s \ {Max(s)}], lines[Max(s)])
    <3>1. Max(s) \in 1..n
      BY <1>1, <2>2, Largest
    <3>2. f[s \ {Max(s)}] \in Scans
      BY <2>1
    <3> QED BY <2>1, <2>2, <3>1, <3>2
  <2> QED BY <1>1, <2>1, <2>2
<1>7. Scan(h, first) = fold[DOMAIN lines]
  BY DEF Scan, ScanNext, FoldLeft, MapThenFoldSet
<1>8. J(fold)
  <2> HIDE DEF J
  <2> QED BY <1>6
<1> HIDE DEF fold
<1>9. fold[{}] = Opened(first)
  BY <1>8
<1>10. ASSUME NEW k \in 1..n PROVE fold[1..k] = ScanNext(first, fold[1..(k - 1)], lines[k])
  <2>1. /\ 1..k \in SUBSET (DOMAIN lines) /\ 1..k # {} /\ Max(1..k) = k
        /\ (1..k) \ {k} = 1..(k - 1)
    BY <1>1, FirstOnes
  <2> QED BY <1>8, <2>1
<1>11. PICK z : IsChain(Scans, F, Opened(first), z, n) /\ fold[1..n] = z[n]
  <2>1. \A k \in 1..n : fold[1..(k - 1)] \in Scans => fold[1..k] = F[k][fold[1..(k - 1)]]
    BY <1>10
  <2>2. IsChained(Scans, F, Opened(first), fold, n)
    BY <1>9, <2>1 DEF IsChained
  <2> HIDE DEF F, n, lines
  <2> QED BY <1>1, <1>2, <1>4, <2>2, FoldChain
<1>12. \A k \in 1..n : z[k - 1] \in Scans
  <2>1. z \in [0..n -> Scans] /\ \A k \in 1..n : k - 1 \in 0..n
    BY <1>1, <1>11 DEF IsChain
  <2> QED BY <2>1
<1>13. IsScan(z, lines, first)
  BY <1>11, <1>12 DEF IsScan, IsChain
<1> QED BY <1>1, <1>7, <1>11, <1>13

IsLines(h) == IsSequence(h.lines) /\ \A k \in 1..Len(h.lines) : Line(h.lines[k])

LEMMA HunkLines ==
  ASSUME IsReply, NEW k \in 1..Len(reply.hunks)
  PROVE  IsLines(reply.hunks[k])
<1> DEFINE h == reply.hunks[k]
<1>1. k \in DOMAIN reply.hunks
  BY DEF IsReply, IsSequence
<1>2. IsHunk(h)
  BY <1>1 DEF IsReply
<1>3. HunkTexts(h) \subseteq AllTexts
  BY <1>1 DEF AllTexts
<1> HIDE DEF h
<1>4. IsSequence(h.lines)
  BY <1>2 DEF IsHunk
<1>5. DOMAIN h.lines = 1..Len(h.lines)
  BY <1>4 DEF IsSequence
<1>6. \A i \in 1..Len(h.lines) : h.lines[i].text \in AllTexts
  BY <1>3, <1>5 DEF HunkTexts
<1>7. \A i \in 1..Len(h.lines) : Line(h.lines[i])
  BY <1>2, <1>5, <1>6 DEF IsHunk, Line
<1> QED BY <1>4, <1>7 DEF IsLines, h

(* The old and the new lines of a hunk, line by line.                      *)
Grows(c, lines, ops) ==
  /\ c[0] = << >> /\ \A k \in 0..Len(lines) : IsText(c[k])
  /\ \A k \in 1..Len(lines) :
       c[k] = IF lines[k].op \in ops THEN Append(c[k - 1], lines[k].text) ELSE c[k - 1]

LEMMA TextsGrow ==
  ASSUME IsReply, NEW h, IsLines(h), NEW ops
  PROVE  \E c : Grows(c, h.lines, ops) /\ TextsOf(h.lines, ops) = c[Len(h.lines)]
<1> DEFINE X == {h.lines[i].text : i \in DOMAIN h.lines}
<1>1. PICK c : AreTexts(c, h.lines, ops) /\ TextsOf(h.lines, ops) = c[Len(h.lines)]
  BY TextsFold DEF IsLines
<1>2. X \subseteq AllTexts
  <2>1. DOMAIN h.lines = 1..Len(h.lines)
    BY DEF IsLines, IsSequence
  <2> QED BY <2>1 DEF IsLines, Line
<1>3. c \in [0..Len(h.lines) -> Seq(X)]
  BY <1>1 DEF AreTexts
<1>4. \A k \in 0..Len(h.lines) : IsText(c[k])
  <2>1. \A k \in 0..Len(h.lines) : c[k] \in Seq(X)
    BY <1>3
  <2>2. Seq(X) \subseteq Seq(AllTexts)
    BY <1>2
  <2> QED BY <2>1, <2>2 DEF IsText
<1>5. Grows(c, h.lines, ops)
  BY <1>1, <1>4 DEF AreTexts, Grows
<1> QED BY <1>1, <1>5

(* A scan that succeeds has matched the whole hunk.                        *)
LEMMA Scanned ==
  ASSUME IsReply, NEW h, IsLines(h), NEW first \in 0..Len(source)
  PROVE  Scan(h, first) \in Scans /\ Matched(Scan(h, first), first, Old(h), New(h))
<1> DEFINE n == Len(h.lines)
<1>1. PICK z : IsScan(z, h.lines, first) /\ Scan(h, first) = z[n]
  BY ScanFold, SourceListed DEF IsLines
<1>2. PICK a : Grows(a, h.lines, {" ", "-"}) /\ Old(h) = a[n]
  <2> DEFINE ops == {" ", "-"}
  <2>1. Old(h) = TextsOf(h.lines, ops)
    BY DEF Old
  <2> HIDE DEF ops
  <2>2. \E c : Grows(c, h.lines, ops) /\ Old(h) = c[n]
    BY <2>1, TextsGrow
  <2> QED BY <2>2 DEF ops
<1>3. PICK b : Grows(b, h.lines, {" ", "+"}) /\ New(h) = b[n]
  <2> DEFINE ops == {" ", "+"}
  <2>1. New(h) = TextsOf(h.lines, ops)
    BY DEF New
  <2> HIDE DEF ops
  <2>2. \E c : Grows(c, h.lines, ops) /\ New(h) = c[n]
    BY <2>1, TextsGrow
  <2> QED BY <2>2 DEF ops
<1>4. n \in Nat
  BY DEF IsLines, IsSequence
<1>5. z[0] = Opened(first) /\ \A k \in 0..n : z[k] \in Scans
  BY <1>1, <1>4 DEF IsScan
<1> DEFINE T == {k \in Nat : k <= n => Matched(z[k], first, a[k], b[k])}
<1>6. 0 \in T
  <2>1. z[0].at = first /\ z[0].text = << >>
    BY <1>5 DEF Opened
  <2>2. SubSeq(source, first + 1, first) = << >>
    <3>1. first + 1 \in Int /\ first \in Int /\ first < first + 1
      BY SourceListed
    <3> QED BY <3>1, SubSeqEmpty
  <2>3. first \in first..Len(source) /\ first - first = 0
    BY SourceListed
  <2>4. Code(<< >>) = << >> /\ Len(<< >>) = 0
    BY CodeEmpty
  <2>5. Matched(z[0], first, a[0], b[0])
    BY <1>2, <1>3, <2>1, <2>2, <2>3, <2>4 DEF Matched, Grows
  <2> QED BY <2>5
<1>7. ASSUME NEW k \in Nat, k \in T PROVE k + 1 \in T
  <2> DEFINE l == h.lines[k + 1]
             oldz == z[k]
             olda == a[k]
             oldb == b[k]
  <2> SUFFICES ASSUME k + 1 <= n PROVE Matched(z[k + 1], first, a[k + 1], b[k + 1])
    OBVIOUS
  <2>1. k + 1 \in 1..n /\ (k + 1) - 1 = k /\ k \in 0..n
    BY <1>4
  <2>2. Matched(oldz, first, olda, oldb) /\ oldz \in Scans /\ IsText(olda) /\ IsText(oldb)
    <3>1. Matched(oldz, first, olda, oldb)
      BY <1>4, <1>7
    <3>2. oldz \in Scans
      BY <1>5, <2>1
    <3>3. IsText(olda) /\ IsText(oldb)
      BY <1>2, <1>3, <2>1 DEF Grows
    <3> QED BY <3>1, <3>2, <3>3
  <2>3. Line(l)
    BY <2>1 DEF IsLines
  <2>4. z[k + 1] = ScanNext(first, oldz, l)
    BY <1>1, <2>1 DEF IsScan
  <2>5. /\ a[k + 1] = IF l.op \in {" ", "-"} THEN Append(olda, l.text) ELSE olda
        /\ b[k + 1] = IF l.op \in {" ", "+"} THEN Append(oldb, l.text) ELSE oldb
    BY <1>2, <1>3, <2>1 DEF Grows
  <2> HIDE DEF l, oldz, olda, oldb
  <2>6. Matched(ScanNext(first, oldz, l), first,
                IF l.op \in {" ", "-"} THEN Append(olda, l.text) ELSE olda,
                IF l.op \in {" ", "+"} THEN Append(oldb, l.text) ELSE oldb)
    BY <2>2, <2>3, MatchKept
  <2> QED BY <2>4, <2>5, <2>6
<1> HIDE DEF T
<1>8. n \in T
  BY <1>4, <1>6, <1>7, Induction
<1>9. Matched(z[n], first, a[n], b[n]) /\ z[n] \in Scans
  BY <1>4, <1>5, <1>8 DEF T
<1> QED BY <1>1, <1>2, <1>3, <1>9

(* The source is used up from its start, and what is written comes of it.  *)
Booked == cursor \in 0..Len(source) /\ IsText(out)

(* What a step does that places a hunk.                                    *)
Puts(h, at, end, new) ==
  /\ at \in cursor..Len(source) /\ end \in at..Len(source) /\ IsText(new)
  /\ Place(at, end, new) /\ Replaces(h, at, end, new)

IsNext(h) == IsLines(h) /\ IsText(Old(h)) /\ IsText(New(h)) /\ Hint(h) \in Nat

LEMMA NextHunk ==
  ASSUME PatchInv, Placing
  PROVE  IsReply /\ IsNext(Hunk) /\ placed \in Nat /\ placed < Len(reply.hunks)
<1>1. IsReply /\ placed \in 0..Len(reply.hunks) /\ placed < Len(reply.hunks)
  BY DEF PatchInv, Placing, AsNumbered
<1>2. Len(reply.hunks) \in Nat
  BY <1>1, SourceListed
<1>3. placed + 1 \in 1..Len(reply.hunks)
  BY <1>1, <1>2
<1>4. IsLines(Hunk)
  BY <1>1, <1>3, HunkLines DEF Hunk
<1>5. Old(Hunk) \in Seq(AllTexts) /\ New(Hunk) \in Seq(AllTexts) /\ Hint(Hunk) \in Nat
  BY <1>1, <1>3, HunkListed DEF Hunk
<1> QED BY <1>1, <1>2, <1>4, <1>5 DEF IsNext, IsText

LEMMA PutsExactly ==
  ASSUME IsReply, Booked, IsNext(Hunk), PlaceExactly
  PROVE  \E at, end, new : Puts(Hunk, at, end, new)
<1> DEFINE h == Hunk
           at == Nearest(Starts(h), h)
           size == Len(Old(h))
<1>1. Starts(h) # {} /\ Place(at, at + size, New(h))
  BY DEF PlaceExactly
<1>2. Len(source) \in Nat /\ cursor \in 0..Len(source) /\ IsText(Old(h)) /\ Hint(h) \in Nat
  BY SourceListed DEF Booked, IsNext
<1>3. size \in Nat
  BY <1>2 DEF IsText
<1>4. at \in Starts(h)
  <2>1. Starts(h) \subseteq Nat
    BY <1>2 DEF Starts
  <2> HIDE DEF h
  <2> QED BY <1>1, <1>2, <2>1, NearestFound
<1> HIDE DEF at
<1>5. at \in cursor..Len(source) /\ at + size <= Len(source) /\ Fits(h, at)
  BY <1>4 DEF Starts
<1>6. at \in 0..Len(source) /\ at + size \in at..Len(source) /\ (at + size) - at = size
  BY <1>2, <1>3, <1>5
<1>7. SubSeq(source, at + 1, at + size) = Old(h)
  <2> DEFINE end == at + size
             taken == SubSeq(source, at + 1, end)
  <2>1. source \in Seq(AllTexts) /\ end \in at..Len(source)
    BY <1>6, SourceListed
  <2> HIDE DEF end
  <2>2. taken \in Seq(AllTexts) /\ Len(taken) = end - at /\ \A k \in 1..(end - at) : taken[k] = source[at + k]
    BY <1>6, <2>1, Stretch
  <2>3. end - at = size
    BY <1>6 DEF end
  <2>4. Old(h) \in Seq(AllTexts)
    BY <1>2 DEF IsText
  <2>5. \A k \in 1..size : source[at + k] = Old(h)[k]
    <3>1. DOMAIN Old(h) = 1..size
      BY <2>4
    <3> HIDE DEF h
    <3> QED BY <1>5, <3>1 DEF Fits
  <2> HIDE DEF taken, size
  <2>6. Len(taken) = size /\ \A k \in 1..size : taken[k] = Old(h)[k]
    BY <2>2, <2>3, <2>5
  <2>7. taken = Old(h)
    BY <2>2, <2>4, <2>6, SeqEqual DEF size
  <2> QED BY <2>7 DEF taken, end
<1>8. Replaces(h, at, at + size, New(h))
  <2>1. Len(New(h)) + size = ((at + size) - at) + Len(New(h))
    <3>1. Len(New(h)) \in Nat
      BY DEF IsNext, IsText
    <3> HIDE DEF size, h
    <3> QED BY <1>3, <1>6, <3>1
  <2> QED BY <1>7, <2>1 DEF Replaces
<1>9. Puts(h, at, at + size, New(h))
  BY <1>1, <1>5, <1>6, <1>8 DEF Puts, at, IsNext
<1> QED BY <1>9

LEMMA PutsLoosely ==
  ASSUME IsReply, Booked, IsNext(Hunk), PlaceLoosely
  PROVE  \E at, end, new : Puts(Hunk, at, end, new)
<1> DEFINE h == Hunk
           at == Nearest(LooseStarts(h), h)
           z == Scan(h, at)
<1>1. LooseStarts(h) # {} /\ Place(at, z.at, z.text)
  BY DEF PlaceLoosely
<1>2. Len(source) \in Nat /\ cursor \in 0..Len(source) /\ Hint(h) \in Nat
  BY SourceListed DEF Booked, IsNext
<1>3. at \in LooseStarts(h)
  <2>1. LooseStarts(h) \subseteq Nat
    BY <1>2 DEF LooseStarts
  <2> HIDE DEF h
  <2> QED BY <1>1, <1>2, <2>1, NearestFound
<1> HIDE DEF at
<1>4. at \in cursor..(Len(source) - 1) /\ z.ok
  BY <1>3 DEF LooseStarts
<1>5. at \in cursor..Len(source) /\ at \in 0..Len(source)
  BY <1>2, <1>4
<1> HIDE DEF h
<1>6. z \in Scans /\ Matched(z, at, Old(h), New(h))
  BY <1>5, Scanned DEF h, IsNext
<1> HIDE DEF z
<1>7. z.at \in at..Len(source) /\ Replaces(h, at, z.at, z.text)
  BY <1>4, <1>6 DEF Matched, Replaces
<1>8. IsText(z.text)
  BY <1>6 DEF Scans, IsText
<1>9. Puts(h, at, z.at, z.text)
  BY <1>1, <1>5, <1>7, <1>8 DEF Puts, at, z
<1> QED BY <1>9 DEF h

LEMMA PutsInsertion ==
  ASSUME IsReply, Booked, IsNext(Hunk), PlaceInsertion
  PROVE  \E at, end, new : Puts(Hunk, at, end, new)
<1> DEFINE h == Hunk
           low == IF Hint(h) > cursor THEN Hint(h) ELSE cursor
           at == Capped(low)
<1>1. Old(h) = << >> /\ Place(at, at, New(h))
  BY DEF PlaceInsertion
<1>2. Len(source) \in Nat /\ cursor \in 0..Len(source) /\ Hint(h) \in Nat
  BY SourceListed DEF Booked, IsNext
<1> HIDE DEF h
<1>3. at \in cursor..Len(source) /\ at \in at..Len(source) /\ at \in Int /\ at - at = 0
  <2>1. low \in Nat /\ cursor <= low
    BY <1>2
  <2> HIDE DEF low
  <2> QED BY <1>2, <2>1 DEF Capped
<1> HIDE DEF at
<1>4. SubSeq(source, at + 1, at) = << >>
  <2>1. at + 1 \in Int /\ at < at + 1
    BY <1>3
  <2> QED BY <1>3, <2>1, SubSeqEmpty
<1>5. Replaces(h, at, at, New(h))
  <2>1. Len(New(h)) \in Nat /\ Len(Old(h)) = 0
    BY <1>1 DEF IsNext, IsText, h
  <2>2. Len(New(h)) + Len(Old(h)) = (at - at) + Len(New(h))
    BY <1>3, <2>1
  <2> QED BY <1>1, <1>4, <2>2 DEF Replaces
<1>6. Puts(h, at, at, New(h))
  BY <1>1, <1>3, <1>5 DEF Puts, IsNext, h
<1> QED BY <1>6 DEF h

(* Every step that places a hunk places it well and keeps the books.       *)
LEMMA PlacesWell ==
  ASSUME PatchInv, Booked, PlaceExactly \/ PlaceLoosely \/ PlaceInsertion
  PROVE  InPlace(Hunk) /\ Booked' /\ placed' = placed + 1
<1>1. Placing
  BY DEF PlaceExactly, PlaceLoosely, PlaceInsertion
<1>2. IsReply /\ IsNext(Hunk)
  BY <1>1, NextHunk
<1>3. PICK at, end, new : Puts(Hunk, at, end, new)
  BY <1>2, PutsExactly, PutsLoosely, PutsInsertion
<1>4. /\ at \in cursor..Len(source) /\ end \in at..Len(source) /\ IsText(new)
      /\ Place(at, end, new) /\ Replaces(Hunk, at, end, new)
  BY <1>3 DEF Puts
<1>5. Len(source) \in Nat /\ cursor \in 0..Len(source) /\ IsText(out) /\ IsText(source)
  BY <1>2, SourceListed DEF Booked, IsText
<1>6. InPlace(Hunk)
  <2>1. TextsOver(AllTexts, Hunk) /\ IsSequence(Hunk.lines)
    BY <1>2, <1>5 DEF TextsOver, IsNext, IsLines, IsText
  <2> QED BY <1>4, <1>5, <2>1, PlacedWell DEF IsText
<1>7. /\ out' = out \o SubSeq(source, cursor + 1, at) \o new /\ cursor' = end
      /\ placed' = placed + 1 /\ source' = source /\ reply' = reply
  BY <1>4 DEF Place
<1>8. cursor' \in 0..Len(source')
  BY <1>4, <1>5, <1>7
<1>9. IsText(out')
  <2> DEFINE kept == SubSeq(source, cursor + 1, at)
  <2>1. kept \in Seq(AllTexts)
    BY <1>4, <1>5, Stretch DEF IsText
  <2>2. \A a, b, c \in Seq(AllTexts) : a \o b \o c \in Seq(AllTexts)
    OBVIOUS
  <2> HIDE DEF kept
  <2>3. out \o kept \o new \in Seq(AllTexts)
    BY <1>4, <1>5, <2>1, <2>2 DEF IsText
  <2> QED BY <1>7, <2>3 DEF IsText, kept
<1>10. AllTexts' = AllTexts
  BY <1>7 DEF AllTexts, HunkTexts
<1> QED BY <1>6, <1>7, <1>8, <1>9, <1>10 DEF Booked, IsText

(* What is written of a text changes with the text and the reply alone.    *)
PlacingInv == PatchInv /\ placed \in Nat /\ (stage = "placing" => Booked)

LEMMA PlacingSteps ==
  ASSUME PlacingInv, PatchNext
  PROVE  PlacingInv' /\ WellPlaced
<1>1. PatchInv'
  BY PatchSteps DEF PlacingInv
<1>2. CASE PlaceExactly \/ PlaceLoosely \/ PlaceInsertion
  <2>1. stage = "placing"
    BY <1>2 DEF PlaceExactly, PlaceLoosely, PlaceInsertion, Placing
  <2>2. InPlace(Hunk) /\ Booked' /\ placed' = placed + 1
    BY <1>2, <2>1, PlacesWell DEF PlacingInv
  <2>3. placed' \in Nat
    BY <2>2 DEF PlacingInv
  <2> QED BY <1>1, <2>2, <2>3 DEF PlacingInv, WellPlaced
<1>3. CASE Parse
  <2>1. /\ IsReply /\ source' = source /\ placed' = placed
        /\ placed = 0 /\ cursor' = 0 /\ out' = << >>
    BY <1>3 DEF Parse, PlacingInv, PatchInv
  <2>2. Len(source) \in Nat
    BY <2>1, SourceListed
  <2>3. << >> \in Seq(AllTexts')
    OBVIOUS
  <2>4. Booked'
    BY <2>1, <2>2, <2>3 DEF Booked, IsText
  <2>5. placed' # placed + 1 /\ placed' \in Nat
    BY <2>1
  <2> QED BY <1>1, <2>4, <2>5 DEF PlacingInv, WellPlaced
<1>4. CASE \/ Unparseable \/ Misplaced \/ ChangesNothing \/ Derive \/ ScopeFails
           \/ ApplyFails \/ SyntaxFails \/ LocalGatesPass
  <2>1. stage' \in {"rejected", "canonical", "passed"} /\ placed' = placed
    BY <1>4 DEF Unparseable, Misplaced, ChangesNothing, Derive, ScopeFails, ApplyFails, SyntaxFails,
                LocalGatesPass, Reject
  <2>2. stage' # "placing"
    BY <2>1
  <2>3. placed' # placed + 1 /\ placed' \in Nat
    BY <2>1 DEF PlacingInv
  <2> QED BY <1>1, <2>2, <2>3 DEF PlacingInv, WellPlaced
<1> QED BY <1>2, <1>3, <1>4 DEF PatchNext

(* Placing a hunk never skips, loses or invents a line of code, for any    *)
(* file, any reply and any number of hunks (PlacedExactly).                *)
THEOREM PlacementLosesNothing == Spec => PlacedExactly
<1>1. Init => PlacingInv
  BY PatchAssumption DEF Init, Asked, NoPatch, PatchInit, PlacingInv, PatchInv, IsReply, AppliesAlike
<1>2. PlacingInv /\ [Next]_vars => PlacingInv' /\ [WellPlaced]_patchVars
  <2> SUFFICES ASSUME PlacingInv, [Next]_vars PROVE PlacingInv' /\ [WellPlaced]_patchVars OBVIOUS
  <2>1. PatchNext \/ UNCHANGED patchVars
    BY DEF Next, vars, FindRadius, CompareSignatures, AnalyseImpact, PlanCleanup,
           JudgeIntegration, Answer
  <2>2. CASE UNCHANGED patchVars
    <3>1. PatchInv'
      BY <2>2, PatchStays DEF PlacingInv
    <3>2. /\ source' = source /\ reply' = reply /\ stage' = stage
          /\ placed' = placed /\ cursor' = cursor /\ out' = out
      BY <2>2 DEF patchVars
    <3>3. AllTexts' = AllTexts
      BY <3>2 DEF AllTexts, HunkTexts
    <3>4. Booked => Booked'
      BY <3>2, <3>3 DEF Booked, IsText
    <3> QED BY <2>2, <3>1, <3>2, <3>4 DEF PlacingInv
  <2> QED BY <2>1, <2>2, PlacingSteps
<1> QED BY <1>1, <1>2, PTL DEF Spec, PlacedExactly

-----------------------------------------------------------------------------
(* The places an audit takes.                                              *)
LEMMA Divides ==
  ASSUME NEW a \in Nat, NEW b \in Nat \ {0}
  PROVE  \E q \in Nat, r \in 0..(b - 1) : q = a \div b /\ r = a % b /\ a = b * q + r
<1>1. a \div b \in Int /\ a % b \in Int /\ a % b \in 0..(b - 1)
  OBVIOUS
<1>2. a \div b >= 0
  OBVIOUS
<1>3. PICK q \in Nat, r \in 0..(b - 1) : q = a \div b /\ r = a % b
  BY <1>1, <1>2
<1>4. a = b * q + r
  BY <1>3, SMT
<1> QED BY <1>3, <1>4

LEMMA RoundNear ==
  ASSUME NEW a \in Nat, NEW b \in Nat \ {0}
  PROVE  /\ Round(a, b) \in Nat
         /\ 2 * (b * Round(a, b)) <= 2 * a + b
         /\ 2 * (b * Round(a, b)) + b >= 2 * a
<1>1. PICK q \in Nat, m \in 0..(b - 1) : q = a \div b /\ m = a % b /\ a = b * q + m
  BY Divides
<1>2. Round(a, b) = IF 2 * m < b \/ (2 * m = b /\ q % 2 = 0) THEN q ELSE q + 1
  BY <1>1 DEF Round
<1>3. b * q \in Nat /\ b * (q + 1) = b * q + b
  BY <1>1
<1>4. CASE Round(a, b) = q /\ 2 * m <= b
  BY <1>1, <1>3, <1>4
<1>5. CASE Round(a, b) = q + 1 /\ 2 * m >= b
  BY <1>1, <1>3, <1>5
<1> QED BY <1>1, <1>2, <1>4, <1>5

(* Places spread evenly are places, and no two are the same.               *)
IsSpread(p, n, k) ==
  /\ p \in [1..Len(p) -> 1..n] /\ Len(p) \in Nat /\ p \in Seq(1..n)
  /\ Len(p) <= k /\ Len(p) <= n
  /\ \A i, j \in 1..Len(p) : p[i] = p[j] => i = j
  /\ k >= n => p = [i \in 1..n |-> i] /\ Len(p) = n
  /\ k < n /\ k >= 1 => Len(p) = k

LEMMA EvenPlaces ==
  ASSUME NEW n \in Nat, NEW k \in Nat, k >= 2, k < n
  PROVE  LET at(x) == Round((x - 1) * (n - 1), k - 1) IN
           /\ \A i \in 1..k : at(i) \in 0..(n - 1)
           /\ \A i, j \in 1..k : i < j => at(i) < at(j)
<1> DEFINE b == k - 1
           w == n - 1
           at(x) == Round((x - 1) * w, b)
<1>1. b \in Nat \ {0} /\ w \in Nat /\ w > b
  OBVIOUS
<1> HIDE DEF b, w
<1>2. ASSUME NEW x \in 1..k
      PROVE  /\ (x - 1) * w \in Nat /\ at(x) \in Nat
             /\ 2 * (b * at(x)) <= 2 * ((x - 1) * w) + b
             /\ 2 * (b * at(x)) + b >= 2 * ((x - 1) * w)
             /\ (x - 1) * w <= b * w
  <2>1. (x - 1) * w \in Nat
    BY <1>1
  <2>2. x - 1 \in Nat /\ x - 1 <= b
    BY DEF b
  <2>3. (x - 1) * w <= b * w
    BY <1>1, <2>2
  <2> QED BY <1>1, <2>1, <2>3, RoundNear
<1>3. ASSUME NEW i \in 1..k PROVE at(i) \in 0..w
  <2>1. /\ at(i) \in Nat /\ b * w \in Nat /\ b * at(i) \in Nat
        /\ 2 * (b * at(i)) <= 2 * (b * w) + b
    BY <1>1, <1>2
  <2> HIDE DEF at
  <2>2. SUFFICES ASSUME at(i) >= w + 1 PROVE FALSE
    BY <1>1, <2>1
  <2>3. b * at(i) >= b * (w + 1)
    BY <1>1, <2>1, <2>2
  <2>4. b * (w + 1) = b * w + b
    BY <1>1
  <2> QED BY <1>1, <2>1, <2>3, <2>4
<1>4. ASSUME NEW i \in 1..k, NEW j \in 1..k, i < j PROVE at(i) < at(j)
  <2>1. (j - 1) * w >= (i - 1) * w + w
    <3>1. j - 1 >= i /\ i \in Nat /\ j - 1 \in Nat
      BY <1>4
    <3>2. (j - 1) * w >= i * w
      BY <1>1, <3>1
    <3>3. i * w = (i - 1) * w + w
      BY <1>1
    <3>4. (j - 1) * w \in Nat /\ i * w \in Nat
      BY <1>1, <3>1
    <3> QED BY <3>2, <3>3, <3>4
  <2>2. /\ at(i) \in Nat /\ at(j) \in Nat
        /\ (i - 1) * w \in Nat /\ (j - 1) * w \in Nat
        /\ 2 * (b * at(i)) <= 2 * ((i - 1) * w) + b
        /\ 2 * (b * at(j)) + b >= 2 * ((j - 1) * w)
    BY <1>2
  <2> HIDE DEF at
  <2>3. b * at(i) \in Nat /\ b * at(j) \in Nat
    BY <1>1, <2>2
  <2>4. b * at(j) > b * at(i)
    BY <1>1, <2>1, <2>2, <2>3
  <2>5. SUFFICES ASSUME at(j) <= at(i) PROVE FALSE
    BY <2>2
  <2>6. b * at(j) <= b * at(i)
    BY <1>1, <2>2, <2>5
  <2> QED BY <2>3, <2>4, <2>6
<1> QED BY <1>3, <1>4 DEF b, w

LEMMA EvenSpreads ==
  ASSUME NEW n \in Nat, NEW k \in Nat, n = 0 \/ k >= 1
  PROVE  IsSpread(Even(n, k), n, k)
<1>1. CASE k >= n
  <2>1. Even(n, k) = [i \in 1..n |-> i]
    BY <1>1 DEF Even
  <2>2. Even(n, k) \in Seq(1..n) /\ Len(Even(n, k)) = n
    BY <2>1
  <2> QED BY <1>1, <2>1, <2>2 DEF IsSpread
<1>2. CASE k < n /\ k = 1
  <2> DEFINE p == <<1>>
  <2>1. Even(n, k) = p
    BY <1>2 DEF Even
  <2>2. p \in Seq(1..n) /\ Len(p) = 1
    BY <1>2
  <2>3. p \in [1..1 -> 1..n]
    BY <1>2
  <2> HIDE DEF p
  <2>4. \A i, j \in 1..1 : i = j
    OBVIOUS
  <2>5. p \in [1..Len(p) -> 1..n] /\ Len(p) \in Nat
    BY <2>2, <2>3
  <2>6. /\ Len(p) <= k /\ Len(p) <= n
        /\ ~(k >= n)
        /\ Len(p) = k
    BY <1>2, <2>2
  <2>7. \A i, j \in 1..Len(p) : p[i] = p[j] => i = j
    BY <2>2, <2>4
  <2>8. IsSpread(p, n, k)
    BY <2>2, <2>5, <2>6, <2>7 DEF IsSpread
  <2> QED BY <2>1, <2>8
<1>3. CASE k < n /\ k >= 2
  <2> DEFINE at(x) == Round((x - 1) * (n - 1), k - 1)
             p == [i \in 1..k |-> 1 + at(i)]
  <2>1. Even(n, k) = p
    BY <1>3 DEF Even
  <2>2. /\ \A i \in 1..k : at(i) \in 0..(n - 1)
        /\ \A i, j \in 1..k : i < j => at(i) < at(j)
    BY <1>3, EvenPlaces
  <2> HIDE DEF at
  <2>3. /\ \A i \in 1..k : p[i] \in 1..n
        /\ \A i, j \in 1..k : i < j => p[i] < p[j]
    <3>1. \A i \in 1..k : p[i] = 1 + at(i)
      OBVIOUS
    <3> QED BY <2>2, <3>1
  <2>4. p \in [1..k -> 1..n]
    BY <2>3
  <2> HIDE DEF p
  <2>5. p \in Seq(1..n) /\ Len(p) = k
    BY <2>4
  <2>6. \A i, j \in 1..k : p[i] = p[j] => i = j
    <3>1. ASSUME NEW i \in 1..k, NEW j \in 1..k, i < j PROVE p[i] # p[j]
      BY <2>3, <2>4, <3>1
    <3> QED BY <3>1
  <2> QED BY <1>3, <2>1, <2>4, <2>5, <2>6 DEF IsSpread
<1>4. k >= n \/ (k < n /\ k = 1) \/ (k < n /\ k >= 2)
  OBVIOUS
<1> QED BY <1>1, <1>2, <1>3, <1>4

(* The elements of a sequence that is spread over another.                 *)
IsPart(part, items, k, p) ==
  /\ p \in [1..Len(part) -> 1..Len(items)]
  /\ \A i, j \in 1..Len(part) : p[i] = p[j] => i = j
  /\ \A i \in 1..Len(part) : part[i] = items[p[i]]
  /\ Len(part) <= k
  /\ k >= 1 /\ items # << >> => part # << >>
  /\ k >= Len(items) => part = items
  /\ k < Len(items) => Len(part) = k

LEMMA SpreadPart ==
  ASSUME NEW D, NEW items \in Seq(D), NEW k \in Nat
  PROVE  Spread(items, k) \in Seq(D) /\ \E p : IsPart(Spread(items, k), items, k, p)
<1> DEFINE n == Len(items)
           part == Spread(items, k)
<1>1. n \in Nat /\ (items = << >> <=> n = 0)
  OBVIOUS
<1>2. CASE k = 0 /\ items # << >>
  <2>1. part = << >>
    BY <1>2 DEF Spread
  <2>2. IsPart(<< >>, items, k, << >>)
    BY <1>1, <1>2 DEF IsPart
  <2> QED BY <2>1, <2>2
<1>3. CASE k >= 1 \/ items = << >>
  <2> DEFINE p == Even(n, k)
  <2>1. IsSpread(p, n, k)
    BY <1>1, <1>3, EvenSpreads
  <2> HIDE DEF p
  <2>2. part = [i \in DOMAIN p |-> items[p[i]]]
    BY <1>3 DEF Spread, p
  <2>3. p \in [1..Len(p) -> 1..n] /\ Len(p) \in Nat
    BY <2>1 DEF IsSpread
  <2>4. part = [i \in 1..Len(p) |-> items[p[i]]]
    BY <2>2, <2>3
  <2> HIDE DEF part
  <2>5. \A i \in 1..Len(p) : items[p[i]] \in D
    BY <2>3
  <2>6. part \in Seq(D) /\ Len(part) = Len(p)
    BY <2>3, <2>4, <2>5
  <2>7. p \in [1..Len(part) -> 1..n] /\ \A i \in 1..Len(part) : part[i] = items[p[i]]
    BY <2>3, <2>4, <2>6
  <2>8. \A i, j \in 1..Len(part) : p[i] = p[j] => i = j
    BY <2>1, <2>6 DEF IsSpread
  <2>9. Len(part) <= k /\ (k < n => Len(part) = k)
    <3>1. k < n => k >= 1
      BY <1>1, <1>3
    <3> HIDE DEF n
    <3> QED BY <2>1, <2>6, <3>1 DEF IsSpread
  <2>10. ASSUME k >= n PROVE part = items
    <3>1. p = [i \in 1..n |-> i] /\ Len(p) = n
      BY <2>1, <2>10 DEF IsSpread
    <3>2. part = [i \in 1..n |-> items[i]]
      BY <2>4, <3>1
    <3> QED BY <3>2
  <2>11. k >= 1 /\ items # << >> => part # << >>
    BY <1>1, <2>6, <2>9, <2>10
  <2>12. IsPart(part, items, k, p)
    BY <2>7, <2>8, <2>9, <2>10, <2>11 DEF IsPart
  <2> QED BY <2>6, <2>12 DEF part
<1> QED BY <1>2, <1>3

-----------------------------------------------------------------------------
(* Sequences joined one after the other.                                   *)
IsJoin(D, seqs, c, n) ==
  /\ c \in [0..n -> Seq(D)] /\ c[0] = << >>
  /\ \A k \in 1..n : c[k] = c[k - 1] \o seqs[k]

LEMMA FlattenJoins ==
  ASSUME NEW D, NEW n \in Nat, NEW seqs \in [1..n -> Seq(D)]
  PROVE  \E c : IsJoin(D, seqs, c, n) /\ FlattenSeq(seqs) = c[n]
<1>1. seqs \in Seq(Seq(D)) /\ Len(seqs) = n
  OBVIOUS
<1>2. CASE n = 0
  <2> DEFINE c == [k \in 0..0 |-> << >>]
  <2>1. FlattenSeq(seqs) = seqs
    BY <1>1, <1>2 DEF FlattenSeq
  <2>2. seqs = << >>
    BY <1>1, <1>2
  <2>3. IsJoin(D, seqs, c, n)
    BY <1>2 DEF IsJoin
  <2> QED BY <1>2, <2>1, <2>2, <2>3
<1>3. CASE n # 0
  <2> DEFINE F == [k \in 1..n |-> [a \in Seq(D) |-> a \o seqs[k]]]
             J(g) == g = [i \in 1..Len(seqs) |-> IF i = 1 THEN seqs[i] ELSE g[i - 1] \o seqs[i]]
             flat == CHOOSE g : J(g)
  <2>1. F \in [1..n -> [Seq(D) -> Seq(D)]]
    OBVIOUS
  <2>2. PICK c : IsChain(Seq(D), F, << >>, c, n)
    <3>1. << >> \in Seq(D)
      OBVIOUS
    <3> HIDE DEF F
    <3> QED BY <2>1, <3>1, ChainExists
  <2>3. IsJoin(D, seqs, c, n)
    <3>1. c \in [0..n -> Seq(D)] /\ c[0] = << >> /\ \A k \in 1..n : c[k] = F[k][c[k - 1]]
      BY <2>2 DEF IsChain
    <3>2. ASSUME NEW k \in 1..n PROVE c[k] = c[k - 1] \o seqs[k]
      <4>1. k - 1 \in 0..n
        OBVIOUS
      <4>2. c[k - 1] \in Seq(D)
        BY <3>1, <4>1
      <4> QED BY <3>1, <4>2
    <3> QED BY <3>1, <3>2 DEF IsJoin
  <2> DEFINE f == [i \in 1..n |-> c[i]]
  <2>4. J(f)
    <3>1. ASSUME NEW i \in 1..n PROVE c[i] = IF i = 1 THEN seqs[i] ELSE f[i - 1] \o seqs[i]
      <4>1. c[i] = c[i - 1] \o seqs[i] /\ c[0] = << >>
        BY <2>3 DEF IsJoin
      <4>2. CASE i = 1
        BY <4>1, <4>2
      <4>3. CASE i # 1
        <5>1. i - 1 \in 1..n
          BY <4>3
        <5> QED BY <4>1, <4>3, <5>1
      <4> QED BY <4>2, <4>3
    <3> QED BY <1>1, <3>1
  <2>5. J(flat)
    <3> HIDE DEF J
    <3> QED BY <2>4
  <2>6. FlattenSeq(seqs) = flat[n]
    BY <1>1, <1>3 DEF FlattenSeq
  <2> HIDE DEF flat
  <2> DEFINE T == {k \in Nat : 1 <= k /\ k <= n => flat[k] = c[k]}
  <2>7. 0 \in T
    OBVIOUS
  <2>8. ASSUME NEW k \in Nat, k \in T PROVE k + 1 \in T
    <3> SUFFICES ASSUME k + 1 <= n PROVE flat[k + 1] = c[k + 1] OBVIOUS
    <3>1. /\ k + 1 \in 1..n /\ (k + 1) - 1 = k
      OBVIOUS
    <3>2. flat[k + 1] = IF k + 1 = 1 THEN seqs[k + 1] ELSE flat[k] \o seqs[k + 1]
      BY <1>1, <2>5, <3>1
    <3>3. c[k + 1] = c[k] \o seqs[k + 1] /\ c[0] = << >> /\ seqs[k + 1] \in Seq(D)
      BY <2>3, <3>1 DEF IsJoin
    <3>4. CASE k = 0
      BY <3>2, <3>3, <3>4
    <3>5. CASE k # 0
      <4>1. flat[k] = c[k]
        BY <2>8, <3>1, <3>5
      <4>2. k + 1 # 1
        BY <3>5
      <4> QED BY <3>2, <3>3, <4>1, <4>2
    <3> QED BY <3>4, <3>5
  <2> HIDE DEF T
  <2>9. n \in T
    BY <2>7, <2>8, Induction
  <2> QED BY <1>3, <2>3, <2>6, <2>9 DEF T
<1> QED BY <1>2, <1>3

ArePieces(seqs, c, n) ==
  /\ \A j \in 1..Len(c[n]) : \E r \in 1..n : \E i \in 1..Len(seqs[r]) :
       j = Len(c[r - 1]) + i /\ c[n][j] = seqs[r][i]
  /\ \A r \in 1..n : \A i \in 1..Len(seqs[r]) :
       /\ Len(c[r - 1]) + i \in 1..Len(c[n])
       /\ c[n][Len(c[r - 1]) + i] = seqs[r][i]

LEMMA JoinParts ==
  ASSUME NEW D, NEW n \in Nat, NEW seqs \in [1..n -> Seq(D)], NEW c, IsJoin(D, seqs, c, n)
  PROVE  ArePieces(seqs, c, n)
<1> DEFINE From(k) == \A j \in 1..Len(c[k]) : \E r \in 1..k : \E i \in 1..Len(seqs[r]) :
                        j = Len(c[r - 1]) + i /\ c[k][j] = seqs[r][i]
           To(k) == \A r \in 1..k : \A i \in 1..Len(seqs[r]) :
                      /\ Len(c[r - 1]) + i \in 1..Len(c[k])
                      /\ c[k][Len(c[r - 1]) + i] = seqs[r][i]
           T == {k \in Nat : k <= n => From(k) /\ To(k)}
<1>1. /\ c \in [0..n -> Seq(D)] /\ c[0] = << >>
      /\ \A k \in 1..n : c[k] = c[k - 1] \o seqs[k]
  BY DEF IsJoin
<1>2. 0 \in T
  BY <1>1
<1>3. ASSUME NEW k \in Nat, k \in T PROVE k + 1 \in T
  <2> SUFFICES ASSUME k + 1 <= n PROVE From(k + 1) /\ To(k + 1) OBVIOUS
  <2> HIDE DEF From, To
  <2> DEFINE old == c[k]
             s == seqs[k + 1]
             new == c[k + 1]
  <2>1. k \in 0..n /\ k + 1 \in 1..n /\ (k + 1) - 1 = k
    OBVIOUS
  <2>2. old \in Seq(D) /\ s \in Seq(D) /\ new = old \o s
    BY <1>1, <2>1
  <2>3. From(k) /\ To(k)
    BY <1>3, <2>1
  <2>4. From(k + 1)
    <3> SUFFICES ASSUME NEW j \in 1..Len(new)
                 PROVE  \E r \in 1..(k + 1) : \E i \in 1..Len(seqs[r]) :
                          j = Len(c[r - 1]) + i /\ new[j] = seqs[r][i]
      BY DEF From
    <3>1. CASE j <= Len(old)
      <4>1. j \in 1..Len(old) /\ new[j] = old[j]
        BY <2>2, <3>1
      <4>2. PICK r \in 1..k : \E i \in 1..Len(seqs[r]) :
              j = Len(c[r - 1]) + i /\ old[j] = seqs[r][i]
        BY <2>3, <4>1 DEF From
      <4>3. r \in 1..(k + 1)
        OBVIOUS
      <4> QED BY <4>1, <4>2, <4>3
    <3>2. CASE j > Len(old)
      <4> HIDE DEF new, old, s
      <4>1. j - Len(old) \in 1..Len(s) /\ new[j] = s[j - Len(old)]
        BY <2>2, <3>2
      <4>2. Len(old) \in Nat /\ j \in Nat
        BY <2>2
      <4> DEFINE i == j - Len(old)
      <4>3. i \in 1..Len(seqs[k + 1]) /\ new[j] = seqs[k + 1][i]
        BY <4>1 DEF s
      <4>4. j = Len(c[(k + 1) - 1]) + i
        BY <2>1, <4>2 DEF old
      <4>5. k + 1 \in 1..(k + 1)
        OBVIOUS
      <4> HIDE DEF i
      <4> QED BY <4>3, <4>4, <4>5
    <3> QED BY <2>2, <3>1, <3>2
  <2>5. To(k + 1)
    <3> SUFFICES ASSUME NEW r \in 1..(k + 1), NEW i \in 1..Len(seqs[r])
                 PROVE  /\ Len(c[r - 1]) + i \in 1..Len(new)
                        /\ new[Len(c[r - 1]) + i] = seqs[r][i]
      BY DEF To
    <3>1. CASE r <= k
      <4>1. /\ Len(c[r - 1]) + i \in 1..Len(old)
            /\ old[Len(c[r - 1]) + i] = seqs[r][i]
        <5>1. r \in 1..k
          BY <3>1
        <5> QED BY <2>3, <5>1 DEF To
      <4> HIDE DEF new, old, s
      <4>2. \A j \in 1..Len(old) : j \in 1..Len(new) /\ new[j] = old[j]
        BY <2>2
      <4> QED BY <4>1, <4>2
    <3>2. CASE r = k + 1
      <4>1. r - 1 = k /\ i \in 1..Len(s)
        BY <3>2
      <4> HIDE DEF new, old, s
      <4>2. Len(old) + i \in 1..Len(new) /\ new[Len(old) + i] = s[i]
        BY <2>2, <4>1
      <4> QED BY <3>2, <4>1, <4>2 DEF old, s
    <3> QED BY <3>1, <3>2
  <2> QED BY <2>4, <2>5
<1> HIDE DEF T
<1>4. n \in T
  BY <1>2, <1>3, Induction
<1> QED BY <1>4 DEF T, ArePieces

-----------------------------------------------------------------------------
(* A change that is a list of files, each a list of ranges.                *)
IsChange ==
  /\ IsSequence(changed) /\ cap \in Nat
  /\ \A f \in DOMAIN changed :
       IsSequence(changed[f]) /\ \A r \in DOMAIN changed[f] : IsSequence(changed[f][r])

Faults(f) ==
  UNION {{[file |-> f, range |-> r, index |-> i, name |-> changed[f][r][i]]
            : i \in DOMAIN changed[f][r]} : r \in DOMAIN changed[f]}

LEMMA GeneratedFaults ==
  ASSUME IsChange, NEW f \in DOMAIN changed, NEW r \in DOMAIN changed[f], NEW k \in Nat \ {0}
  PROVE  /\ Generated(f, r, k) \in Seq(Faults(f))
         /\ changed[f][r] # << >> => Len(Generated(f, r, k)) # 0
<1> DEFINE sites == changed[f][r]
           n == Len(sites)
           p == Even(n, k)
           Fault1(i) == [file |-> f, range |-> r, index |-> i, name |-> sites[i]]
<1>1. IsSequence(sites)
  BY DEF IsChange
<1>2. n \in Nat /\ DOMAIN sites = 1..n /\ (sites # << >> => n # 0)
  BY <1>1 DEF IsSequence
<1>3. \A i \in 1..n : Fault1(i) \in Faults(f)
  BY <1>2 DEF Faults
<1> HIDE DEF n, Fault1
<1>4. IsSpread(p, n, k)
  BY <1>2, EvenSpreads
<1>5. p \in [1..Len(p) -> 1..n] /\ Len(p) \in Nat /\ (n # 0 => Len(p) # 0)
  <2> HIDE DEF p
  <2>1. /\ p \in [1..Len(p) -> 1..n] /\ Len(p) \in Nat
        /\ k >= n => Len(p) = n
        /\ k < n /\ k >= 1 => Len(p) = k
    BY <1>4, Zenon DEF IsSpread
  <2> DEFINE l == Len(p)
  <2>2. l \in Nat /\ (k >= n => l = n) /\ (k < n /\ k >= 1 => l = k)
    BY <2>1
  <2> HIDE DEF l
  <2>3. n # 0 => l # 0
    BY <1>2, <2>2
  <2> QED BY <2>1, <2>3 DEF l
<1>6. Generated(f, r, k) = [i \in DOMAIN p |-> Fault1(p[i])]
  BY DEF Generated, Sites, n, Fault1
<1> HIDE DEF p
<1>7. Generated(f, r, k) = [i \in 1..Len(p) |-> Fault1(p[i])]
  BY <1>5, <1>6
<1>8. \A i \in 1..Len(p) : Fault1(p[i]) \in Faults(f)
  BY <1>3, <1>5
<1>9. Generated(f, r, k) \in Seq(Faults(f)) /\ Len(Generated(f, r, k)) = Len(p)
  BY <1>5, <1>7, <1>8
<1> QED BY <1>2, <1>5, <1>9

(* No two of them look alike.                                              *)
Distinct(s) ==
  \A i, j \in 1..Len(s) : s[i].name = s[j].name /\ s[i].range = s[j].range => i = j

LEMMA AddStays ==
  ASSUME NEW M, NEW acc \in Seq(M), Distinct(acc), NEW m \in M
  PROVE  AddFound(acc, m) \in Seq(M) /\ Distinct(AddFound(acc, m)) /\ Len(AddFound(acc, m)) # 0
<1>1. CASE \E i \in DOMAIN acc : acc[i].name = m.name /\ acc[i].range = m.range
  <2>1. AddFound(acc, m) = acc
    BY <1>1 DEF AddFound
  <2>2. Len(acc) # 0
    BY <1>1
  <2> QED BY <2>1, <2>2
<1>2. CASE ~\E i \in DOMAIN acc : acc[i].name = m.name /\ acc[i].range = m.range
  <2> DEFINE new == Append(acc, m)
             n == Len(acc)
  <2>1. AddFound(acc, m) = new
    BY <1>2 DEF AddFound
  <2>2. /\ new \in Seq(M) /\ Len(new) = n + 1 /\ n \in Nat /\ DOMAIN acc = 1..n
        /\ \A i \in 1..n : new[i] = acc[i]
        /\ new[n + 1] = m
    OBVIOUS
  <2> HIDE DEF new, n
  <2>3. \A i, j \in 1..n : acc[i].name = acc[j].name /\ acc[i].range = acc[j].range => i = j
    BY DEF Distinct, n
  <2>4. \A i \in 1..n : ~(acc[i].name = m.name /\ acc[i].range = m.range)
    BY <1>2, <2>2
  <2>5. \A i \in 1..(n + 1) : i \in 1..n \/ i = n + 1
    BY <2>2
  <2>6. ASSUME NEW i \in 1..(n + 1), NEW j \in 1..(n + 1),
               new[i].name = new[j].name, new[i].range = new[j].range
        PROVE  i = j
    BY <2>2, <2>3, <2>4, <2>5, <2>6
  <2>7. Distinct(new)
    BY <2>2, <2>6 DEF Distinct
  <2> QED BY <2>1, <2>2, <2>7
<1> QED BY <1>1, <1>2

(* What is found in a sequence of faults.                                  *)
LEMMA FoundFold ==
  ASSUME NEW M, NEW s \in Seq(M)
  PROVE  LET found == FoldLeft(AddFound, << >>, s) IN
           /\ found \in Seq(M) /\ Distinct(found)
           /\ Len(s) # 0 => Len(found) # 0
<1> DEFINE n == Len(s)
           D == {x \in Seq(M) : Distinct(x)}
           F == [k \in 1..n |-> [a \in D |-> AddFound(a, s[k])]]
           J(g) == g = [t \in SUBSET (DOMAIN s) |->
                          IF t = {} THEN << >> ELSE AddFound(g[t \ {Max(t)}], s[Max(t)])]
           fold == CHOOSE g : J(g)
<1>1. n \in Nat /\ DOMAIN s = 1..n
  OBVIOUS
<1>2. << >> \in D
  BY DEF Distinct
<1>3. \A k \in 1..n, a \in D : AddFound(a, s[k]) \in D /\ Len(AddFound(a, s[k])) # 0
  <2>1. \A k \in 1..n : s[k] \in M
    OBVIOUS
  <2> QED BY <2>1, AddStays
<1>4. F \in [1..n -> [D -> D]]
  BY <1>3
<1> HIDE DEF D
<1>5. PICK f : IsFold(D, F, << >>, f, n)
  <2> HIDE DEF F, n
  <2> QED BY <1>1, <1>2, <1>4, FoldExists
<1>6. J(f)
  <2>1. /\ f = [t \in SUBSET (1..n) |-> f[t]] /\ f \in [SUBSET (1..n) -> D]
        /\ \A t \in SUBSET (1..n) : f[t] = IF t = {} THEN << >> ELSE F[Max(t)][f[t \ {Max(t)}]]
    BY <1>5 DEF IsFold
  <2>2. ASSUME NEW t \in SUBSET (1..n), t # {}
        PROVE  f[t] = AddFound(f[t \ {Max(t)}], s[Max(t)])
    <3>1. Max(t) \in 1..n
      BY <1>1, <2>2, Largest
    <3>2. f[t \ {Max(t)}] \in D
      BY <2>1
    <3> QED BY <2>1, <2>2, <3>1, <3>2
  <2> QED BY <1>1, <2>1, <2>2
<1>7. FoldLeft(AddFound, << >>, s) = fold[DOMAIN s]
  BY DEF FoldLeft, MapThenFoldSet
<1>8. J(fold)
  <2> HIDE DEF J
  <2> QED BY <1>6
<1> HIDE DEF fold
<1>9. fold[{}] = << >>
  BY <1>8
<1>10. ASSUME NEW k \in 1..n PROVE fold[1..k] = AddFound(fold[1..(k - 1)], s[k])
  <2>1. /\ 1..k \in SUBSET (DOMAIN s) /\ 1..k # {} /\ Max(1..k) = k
        /\ (1..k) \ {k} = 1..(k - 1)
    BY <1>1, FirstOnes
  <2> QED BY <1>8, <2>1
<1>11. PICK c : IsChain(D, F, << >>, c, n) /\ fold[1..n] = c[n]
  <2>1. \A k \in 1..n : fold[1..(k - 1)] \in D => fold[1..k] = F[k][fold[1..(k - 1)]]
    BY <1>10
  <2>2. IsChained(D, F, << >>, fold, n)
    BY <1>9, <2>1 DEF IsChained
  <2> HIDE DEF F, n
  <2> QED BY <1>1, <1>2, <1>4, <2>2, FoldChain
<1>12. c[n] \in D
  <2>1. n \in 0..n
    BY <1>1
  <2> HIDE DEF n
  <2> QED BY <1>11, <2>1 DEF IsChain
<1>13. n # 0 => Len(c[n]) # 0
  <2> SUFFICES ASSUME n # 0 PROVE Len(c[n]) # 0 OBVIOUS
  <2>1. n \in 1..n /\ n - 1 \in 0..n
    BY <1>1
  <2>2. c[n] = F[n][c[n - 1]] /\ c[n - 1] \in D
    BY <1>11, <2>1 DEF IsChain
  <2>3. c[n] = AddFound(c[n - 1], s[n])
    BY <2>1, <2>2
  <2> QED BY <1>3, <2>1, <2>2, <2>3
<1> QED BY <1>1, <1>7, <1>11, <1>12, <1>13 DEF D

LEMMA FoundFaults ==
  ASSUME IsChange, NEW f \in DOMAIN changed, NEW k \in Nat \ {0}
  PROVE  /\ Found(f, k) \in Seq(Faults(f)) /\ Distinct(Found(f, k))
         /\ (\E r \in DOMAIN changed[f] : changed[f][r] # << >>) => Len(Found(f, k)) # 0
<1> DEFINE n == Len(changed[f])
           D == Faults(f)
           seqs == [r \in DOMAIN changed[f] |-> Generated(f, r, k)]
           flat == FlattenSeq(seqs)
<1>1. n \in Nat /\ DOMAIN changed[f] = 1..n
  BY DEF IsChange, IsSequence
<1>2. \A r \in 1..n : /\ Generated(f, r, k) \in Seq(D)
                      /\ changed[f][r] # << >> => Len(Generated(f, r, k)) # 0
  BY <1>1, GeneratedFaults
<1> HIDE DEF D
<1>3. seqs \in [1..n -> Seq(D)]
  BY <1>1, <1>2
<1>4. \A r \in 1..n : seqs[r] = Generated(f, r, k)
  BY <1>1
<1> HIDE DEF n, seqs
<1>5. PICK c : IsJoin(D, seqs, c, n) /\ flat = c[n]
  BY <1>1, <1>3, FlattenJoins
<1>6. flat \in Seq(D)
  <2>1. n \in 0..n
    BY <1>1
  <2> QED BY <1>5, <2>1 DEF IsJoin
<1>7. ASSUME NEW r \in 1..n, changed[f][r] # << >> PROVE Len(flat) # 0
  <2>1. seqs[r] \in Seq(D) /\ Len(seqs[r]) # 0
    BY <1>2, <1>3, <1>4, <1>7
  <2>2. 1 \in 1..Len(seqs[r])
    BY <2>1
  <2>3. \A i \in 1..Len(seqs[r]) : Len(c[r - 1]) + i \in 1..Len(c[n])
    BY <1>1, <1>3, <1>5, JoinParts DEF ArePieces
  <2>4. 1..0 = {}
    OBVIOUS
  <2> QED BY <1>5, <2>2, <2>3, <2>4
<1>8. Found(f, k) = FoldLeft(AddFound, << >>, flat)
  BY DEF Found, seqs
<1> HIDE DEF flat
<1>9. /\ Found(f, k) \in Seq(D) /\ Distinct(Found(f, k))
      /\ Len(flat) # 0 => Len(Found(f, k)) # 0
  BY <1>6, <1>8, FoundFold
<1> QED BY <1>1, <1>7, <1>9 DEF D

(* The files that are asked: all of them, or as many as the cap.           *)
LEMMA SampledFiles ==
  ASSUME IsChange, changed # << >>, cap # 0
  PROVE  /\ Len(Sampled) \in 1..cap
         /\ Sampled \in [1..Len(Sampled) -> DOMAIN changed]
         /\ \A i, j \in 1..Len(Sampled) : Sampled[i] = Sampled[j] => i = j
         /\ Len(changed) <= cap => \A f \in DOMAIN changed : f \in 1..Len(Sampled) /\ Sampled[f] = f
<1> DEFINE m == Len(changed)
           files == [f \in DOMAIN changed |-> f]
<1>1. m \in Nat \ {0} /\ DOMAIN changed = 1..m /\ cap \in Nat \ {0}
  BY DEF IsChange, IsSequence
<1>2. Sampled = IF Len(files) > cap THEN Spread(files, cap) ELSE files
  BY DEF Sampled
<1> HIDE DEF m
<1>3. files = [f \in 1..m |-> f]
  BY <1>1
<1>4. files \in Seq(1..m) /\ Len(files) = m /\ \A f \in 1..m : files[f] = f
  BY <1>1, <1>3
<1> HIDE DEF files
<1>5. CASE m <= cap
  <2>1. Sampled = files
    BY <1>1, <1>2, <1>4, <1>5
  <2>2. files \in [1..m -> 1..m] /\ m \in 1..cap
    BY <1>1, <1>3, <1>5
  <2> QED BY <1>1, <1>4, <2>1, <2>2 DEF m
<1>6. CASE m > cap
  <2>1. Sampled = Spread(files, cap)
    BY <1>2, <1>4, <1>6
  <2>2. PICK p : IsPart(Sampled, files, cap, p)
    BY <1>1, <1>4, <2>1, SpreadPart
  <2>3. Sampled \in Seq(1..m)
    BY <1>1, <1>4, <2>1, SpreadPart
  <2>4. Len(Sampled) = cap
    BY <1>4, <1>6, <2>2 DEF IsPart
  <2>5. /\ p \in [1..cap -> 1..m] /\ \A i \in 1..cap : Sampled[i] = files[p[i]]
        /\ \A i, j \in 1..cap : p[i] = p[j] => i = j
    BY <1>4, <2>2, <2>4 DEF IsPart
  <2>6. \A i \in 1..cap : Sampled[i] = p[i]
    BY <1>4, <2>5
  <2>7. \A i, j \in 1..cap : Sampled[i] = Sampled[j] => i = j
    BY <2>5, <2>6
  <2>8. Sampled \in [1..cap -> 1..m]
    BY <1>1, <2>3, <2>4
  <2> QED BY <1>1, <1>6, <2>4, <2>7, <2>8 DEF m
<1> QED BY <1>1, <1>5, <1>6

(* The shares of the cap.                                                  *)
LEMMA Quotas ==
  ASSUME cap \in Nat, NEW n \in 1..cap
  PROVE  \A i \in 1..n : Quota(n, i) \in Nat \ {0}
<1>0. n \in Nat \ {0}
  OBVIOUS
<1>1. PICK q \in Nat, r \in 0..(n - 1) : q = cap \div n /\ r = cap % n /\ cap = n * q + r
  BY <1>0, Divides
<1>2. q # 0
  BY <1>1
<1>3. \A i \in 1..n : Quota(n, i) = q + (IF i <= r THEN 1 ELSE 0)
  BY <1>1 DEF Quota
<1> QED BY <1>1, <1>2, <1>3

LEMMA Times ==
  ASSUME NEW k \in Nat, NEW q \in Nat
  PROVE  k * q \in Nat /\ (k + 1) * q = k * q + q
OBVIOUS

Share(i) ==
  LET f == Sampled[i]
      quota == Quota(Len(Sampled), i) IN
    IF changed[f] = << >> THEN << >> ELSE Spread(Found(f, PerRange(f, quota)), quota)

LEMMA Shares ==
  ASSUME IsChange, changed # << >>, cap # 0, NEW i \in 1..Len(Sampled)
  PROVE  /\ Share(i) \in Seq(Faults(Sampled[i])) /\ Distinct(Share(i))
         /\ Len(Share(i)) <= Quota(Len(Sampled), i)
         /\ (\E r \in DOMAIN changed[Sampled[i]] : changed[Sampled[i]][r] # << >>)
              => Len(Share(i)) # 0
<1> DEFINE f == Sampled[i]
           quota == Quota(Len(Sampled), i)
           k == PerRange(f, quota)
           found == Found(f, k)
<1>1. f \in DOMAIN changed /\ quota \in Nat \ {0}
  <2>1. /\ Len(Sampled) \in 1..cap /\ cap \in Nat
        /\ Sampled \in [1..Len(Sampled) -> DOMAIN changed]
    BY SampledFiles DEF IsChange
  <2> QED BY <2>1, Quotas
<1> HIDE DEF f, quota
<1>2. IsSequence(changed[f])
  BY <1>1 DEF IsChange
<1>3. CASE changed[f] = << >>
  <2>1. Share(i) = << >>
    BY <1>3 DEF Share, f
  <2>2. DOMAIN changed[f] = {}
    BY <1>3
  <2> QED BY <1>1, <2>1, <2>2 DEF Distinct, f, quota
<1>4. CASE changed[f] # << >>
  <2>1. k \in Nat \ {0}
    <3>1. Len(changed[f]) \in Nat \ {0}
      BY <1>2, <1>4 DEF IsSequence
    <3>2. quota \div Len(changed[f]) \in Nat
      BY <1>1, <3>1, Divides
    <3> QED BY <3>2 DEF PerRange
  <2>2. /\ found \in Seq(Faults(f)) /\ Distinct(found)
        /\ (\E r \in DOMAIN changed[f] : changed[f][r] # << >>) => Len(found) # 0
    BY <1>1, <2>1, FoundFaults
  <2>3. Share(i) = Spread(found, quota)
    BY <1>4 DEF Share, f, quota
  <2> HIDE DEF found
  <2>4. Share(i) \in Seq(Faults(f)) /\ \E p : IsPart(Share(i), found, quota, p)
    BY <1>1, <2>2, <2>3, SpreadPart
  <2>5. PICK p : IsPart(Share(i), found, quota, p)
    BY <2>4
  <2>6. Len(Share(i)) <= quota /\ (found # << >> => Share(i) # << >>)
    BY <1>1, <2>5 DEF IsPart
  <2>7. ASSUME NEW a \in 1..Len(Share(i)), NEW b \in 1..Len(Share(i)),
               Share(i)[a].name = Share(i)[b].name, Share(i)[a].range = Share(i)[b].range
        PROVE  a = b
    <3>1. /\ Share(i)[a] = found[p[a]] /\ Share(i)[b] = found[p[b]]
          /\ p[a] \in 1..Len(found) /\ p[b] \in 1..Len(found)
          /\ p[a] = p[b] => a = b
      BY <2>5 DEF IsPart
    <3>2. p[a] = p[b]
      BY <2>2, <2>7, <3>1 DEF Distinct
    <3> QED BY <3>1, <3>2
  <2>8. Distinct(Share(i))
    BY <2>7 DEF Distinct
  <2>9. (\E r \in DOMAIN changed[f] : changed[f][r] # << >>) => Len(Share(i)) # 0
    <3>1. (Len(found) # 0 => found # << >>) /\ (Share(i) # << >> => Len(Share(i)) # 0)
      BY <2>2, <2>4
    <3> QED BY <2>2, <2>6, <3>1
  <2> QED BY <2>4, <2>6, <2>8, <2>9 DEF f, quota
<1> QED BY <1>3, <1>4

(* What is joined of shares of the cap is within it.                       *)
LEMMA JoinFits ==
  ASSUME NEW D, cap \in Nat, NEW n \in 1..cap, NEW seqs \in [1..n -> Seq(D)],
         NEW c, IsJoin(D, seqs, c, n), \A i \in 1..n : Len(seqs[i]) <= Quota(n, i)
  PROVE  Len(c[n]) <= cap
<1>0. n \in Nat \ {0}
  OBVIOUS
<1>1. PICK q \in Nat, m \in 0..(n - 1) : q = cap \div n /\ m = cap % n /\ cap = n * q + m
  BY <1>0, Divides
<1> DEFINE Taken(k) == k * q + (IF k <= m THEN k ELSE m)
           T == {k \in Nat : k <= n => Len(c[k]) <= Taken(k)}
<1>2. 0 \in T
  BY <1>1 DEF IsJoin
<1>3. ASSUME NEW k \in Nat, k \in T PROVE k + 1 \in T
  <2> SUFFICES ASSUME k + 1 <= n PROVE Len(c[k + 1]) <= Taken(k + 1) OBVIOUS
  <2>1. k \in 0..n /\ k + 1 \in 1..n /\ (k + 1) - 1 = k
    OBVIOUS
  <2>2. c[k + 1] = c[k] \o seqs[k + 1] /\ c[k] \in Seq(D) /\ seqs[k + 1] \in Seq(D)
    BY <2>1 DEF IsJoin
  <2>3. Len(c[k + 1]) = Len(c[k]) + Len(seqs[k + 1]) /\ Len(c[k]) \in Nat /\ Len(seqs[k + 1]) \in Nat
    BY <2>2
  <2>4. Len(seqs[k + 1]) <= q + (IF k + 1 <= m THEN 1 ELSE 0)
    BY <1>1, <2>1 DEF Quota
  <2>5. Len(c[k]) <= Taken(k)
    BY <1>3, <2>1
  <2>6. (k + 1) * q = k * q + q /\ k * q \in Nat
    BY Times
  <2> DEFINE kq == k * q
             more == (k + 1) * q
             old == Len(c[k])
             new == Len(c[k + 1])
             next == Len(seqs[k + 1])
  <2>7. /\ new = old + next /\ old \in Nat /\ next \in Nat /\ more = kq + q /\ kq \in Nat
        /\ next <= q + (IF k + 1 <= m THEN 1 ELSE 0)
        /\ old <= kq + (IF k <= m THEN k ELSE m)
    BY <2>3, <2>4, <2>5, <2>6
  <2> HIDE DEF kq, more, old, new, next
  <2>8. new <= more + (IF k + 1 <= m THEN k + 1 ELSE m)
    BY <1>1, <2>7
  <2> QED BY <2>8 DEF new, more
<1> HIDE DEF T
<1>4. n \in T
  BY <1>0, <1>2, <1>3, Induction
<1>5. Len(c[n]) <= Taken(n)
  BY <1>4 DEF T
<1>6. n * q \in Nat
  BY <1>1
<1> QED BY <1>1, <1>5, <1>6

AllFaults == UNION {Faults(f) : f \in DOMAIN changed}

Fair(plan) ==
  /\ Len(plan) <= cap
  /\ \A i, j \in 1..Len(plan) :
       plan[i].file = plan[j].file /\ plan[i].range = plan[j].range /\ plan[i].name = plan[j].name
         => i = j
  /\ Len(changed) <= cap =>
       \A f \in DOMAIN changed :
         (\E r \in DOMAIN changed[f] : changed[f][r] # << >>)
           => \E i \in 1..Len(plan) : plan[i].file = f

LEMMA FairPlan ==
  ASSUME IsChange
  PROVE  PlanOf \in Seq(AllFaults) /\ Fair(PlanOf)
<1>1. CASE changed = << >> \/ cap = 0
  <2>1. PlanOf = << >>
    BY <1>1 DEF PlanOf
  <2>2. Len(changed) <= cap => changed = << >>
    BY <1>1 DEF IsChange, IsSequence
  <2> QED BY <2>1, <2>2 DEF Fair, IsChange
<1>2. CASE changed # << >> /\ cap # 0
  <2> DEFINE n == Len(Sampled)
             D == AllFaults
             seqs == [i \in DOMAIN Sampled |-> Share(i)]
             S(i) == Share(i)
  <2>1. PlanOf = FlattenSeq(seqs)
    BY <1>2 DEF PlanOf, Share
  <2>2. /\ n \in 1..cap /\ cap \in Nat /\ n \in Nat
        /\ Sampled \in [1..n -> DOMAIN changed]
        /\ \A i, j \in 1..n : Sampled[i] = Sampled[j] => i = j
        /\ Len(changed) <= cap => \A f \in DOMAIN changed : f \in 1..n /\ Sampled[f] = f
    BY <1>2, SampledFiles DEF IsChange
  <2>3. \A i \in 1..n :
          /\ S(i) \in Seq(Faults(Sampled[i])) /\ Distinct(S(i))
          /\ Len(S(i)) <= Quota(n, i)
          /\ (\E r \in DOMAIN changed[Sampled[i]] : changed[Sampled[i]][r] # << >>) => Len(S(i)) # 0
    BY <1>2, Shares
  <2>4. \A i \in 1..n : seqs[i] = S(i)
    BY <2>2
  <2>5. \A f \in DOMAIN changed : \A m \in Faults(f) : m \in D /\ m.file = f
    BY DEF Faults, AllFaults
  <2>6. DOMAIN Sampled = 1..n
    BY <2>2
  <2> HIDE DEF n, D, S
  <2>7. \A i \in 1..n : S(i) \in Seq(D)
    <3> TAKE i \in 1..n
    <3>1. S(i) \in Seq(Faults(Sampled[i])) /\ Faults(Sampled[i]) \subseteq D
      BY <2>2, <2>3, <2>5
    <3> QED BY <3>1
  <2>8. seqs \in [1..n -> Seq(D)]
    BY <2>4, <2>6, <2>7
  <2> HIDE DEF seqs
  <2>9. PICK c : IsJoin(D, seqs, c, n) /\ PlanOf = c[n]
    BY <2>1, <2>2, <2>8, FlattenJoins
  <2>10. PlanOf \in Seq(D)
    <3>1. n \in 0..n
      BY <2>2
    <3> QED BY <2>9, <3>1 DEF IsJoin
  <2>11. Len(PlanOf) <= cap
    <3>1. \A i \in 1..n : Len(seqs[i]) <= Quota(n, i)
      BY <2>3, <2>4
    <3> QED BY <2>2, <2>8, <2>9, <3>1, JoinFits
  <2>17. IsJoin(D, seqs, c, n) /\ n \in Nat
    BY <2>2, <2>9
  <2>18. ArePieces(seqs, c, n)
    BY <2>8, <2>17, JoinParts
  <2>12. \A j \in 1..Len(PlanOf) : \E r \in 1..n : \E i \in 1..Len(S(r)) :
           j = Len(c[r - 1]) + i /\ PlanOf[j] = S(r)[i]
    <3>1. \A j \in 1..Len(c[n]) : \E r \in 1..n : \E i \in 1..Len(seqs[r]) :
            j = Len(c[r - 1]) + i /\ c[n][j] = seqs[r][i]
      BY <2>18 DEF ArePieces
    <3> TAKE j \in 1..Len(PlanOf)
    <3>2. PICK r \in 1..n : \E i \in 1..Len(seqs[r]) : j = Len(c[r - 1]) + i /\ c[n][j] = seqs[r][i]
      BY <2>9, <3>1
    <3>3. PICK i \in 1..Len(seqs[r]) : j = Len(c[r - 1]) + i /\ c[n][j] = seqs[r][i]
      BY <3>2
    <3>4. seqs[r] = S(r)
      BY <2>4
    <3> QED BY <2>9, <3>3, <3>4
  <2>13. \A r \in 1..n : \A i \in 1..Len(S(r)) :
           Len(c[r - 1]) + i \in 1..Len(PlanOf) /\ PlanOf[Len(c[r - 1]) + i] = S(r)[i]
    <3>1. \A r \in 1..n : \A i \in 1..Len(seqs[r]) :
            Len(c[r - 1]) + i \in 1..Len(c[n]) /\ c[n][Len(c[r - 1]) + i] = seqs[r][i]
      BY <2>18 DEF ArePieces
    <3>2. \A r \in 1..n : Len(seqs[r]) = Len(S(r)) /\ seqs[r] = S(r)
      BY <2>4
    <3> QED BY <2>9, <3>1, <3>2
  <2>14. \A r \in 1..n : \A i \in 1..Len(S(r)) : S(r)[i].file = Sampled[r]
    <3> SUFFICES ASSUME NEW r \in 1..n, NEW i \in 1..Len(S(r)) PROVE S(r)[i].file = Sampled[r]
      OBVIOUS
    <3>1. S(r)[i] \in Faults(Sampled[r]) /\ Sampled[r] \in DOMAIN changed
      BY <2>2, <2>3
    <3> QED BY <2>5, <3>1
  <2>15. ASSUME NEW a \in 1..Len(PlanOf), NEW b \in 1..Len(PlanOf),
                PlanOf[a].file = PlanOf[b].file, PlanOf[a].range = PlanOf[b].range,
                PlanOf[a].name = PlanOf[b].name
         PROVE  a = b
    <3>1. PICK r \in 1..n : \E i \in 1..Len(S(r)) : a = Len(c[r - 1]) + i /\ PlanOf[a] = S(r)[i]
      BY <2>12
    <3>2. PICK i \in 1..Len(S(r)) : a = Len(c[r - 1]) + i /\ PlanOf[a] = S(r)[i]
      BY <3>1
    <3>3. PICK s \in 1..n : \E j \in 1..Len(S(s)) : b = Len(c[s - 1]) + j /\ PlanOf[b] = S(s)[j]
      BY <2>12
    <3>4. PICK j \in 1..Len(S(s)) : b = Len(c[s - 1]) + j /\ PlanOf[b] = S(s)[j]
      BY <3>3
    <3>5. Sampled[r] = Sampled[s]
      BY <2>14, <2>15, <3>2, <3>4
    <3>6. r = s
      BY <2>2, <3>5
    <3>7. i = j
      BY <2>3, <2>15, <3>2, <3>4, <3>6 DEF Distinct
    <3> QED BY <3>2, <3>4, <3>6, <3>7
  <2>16. ASSUME Len(changed) <= cap, NEW f \in DOMAIN changed,
                NEW r \in DOMAIN changed[f], changed[f][r] # << >>
         PROVE  \E j \in 1..Len(PlanOf) : PlanOf[j].file = f
    <3>1. f \in 1..n /\ Sampled[f] = f
      BY <2>2, <2>16
    <3>2. Len(S(f)) # 0 /\ Len(S(f)) \in Nat
      BY <2>3, <2>7, <2>16, <3>1
    <3>3. 1 \in 1..Len(S(f))
      BY <3>2
    <3>4. /\ Len(c[f - 1]) + 1 \in 1..Len(PlanOf)
          /\ PlanOf[Len(c[f - 1]) + 1] = S(f)[1]
      BY <2>13, <3>1, <3>3
    <3>5. S(f)[1].file = f
      BY <2>14, <3>1, <3>3
    <3> QED BY <3>4, <3>5
  <2> QED BY <2>10, <2>11, <2>15, <2>16 DEF Fair, D
<1> QED BY <1>1, <1>2

LEMMA Appended ==
  ASSUME NEW s, IsSequence(s), NEW x
  PROVE  /\ IsSequence(Append(s, x)) /\ Len(s) \in Nat /\ Len(Append(s, x)) = Len(s) + 1
         /\ \A i \in 1..Len(s) : Append(s, x)[i] = s[i]
         /\ Append(s, x)[Len(s) + 1] = x
<1> DEFINE X == {s[i] : i \in DOMAIN s} \cup {x}
           new == Append(s, x)
<1>1. s \in Seq(X) /\ x \in X
  BY DEF IsSequence
<1> HIDE DEF X
<1>2. new \in Seq(X) /\ Len(new) = Len(s) + 1 /\ Len(s) \in Nat
  BY <1>1
<1>3. (\A i \in 1..Len(s) : new[i] = s[i]) /\ new[Len(s) + 1] = x
  BY <1>1
<1> HIDE DEF new
<1>4. IsSequence(new)
  BY <1>2 DEF IsSequence
<1> QED BY <1>2, <1>3, <1>4 DEF new

-----------------------------------------------------------------------------
(* The patched tree with one fault, and what was tried of the plan.        *)
OneFault(i) == [f \in DOMAIN changed |-> IF f = planned[i].file THEN i ELSE Patched]

Tried(n) ==
  /\ IsSequence(tried) /\ IsSequence(exits)
  /\ Len(tried) = n /\ Len(exits) = n
  /\ \A i \in 1..n : tried[i] = OneFault(i)

Clean ==
  /\ DOMAIN bytecode = DOMAIN changed
  /\ \A f \in DOMAIN changed : bytecode[f] \subseteq {Patched}

Untried == tree = [f \in DOMAIN changed |-> Patched] /\ Clean

AuditInv ==
  /\ step # "unused" => IsChange /\ planned \in Seq(AllFaults)
  /\ step = "unused" => verdict = "none"
  /\ step \in {"idle", "planned"} => Untried /\ Tried(0) /\ turn = 1
  /\ step = "planned" => Fair(planned)
  /\ step = "write" => Untried /\ turn \in 1..Len(planned) /\ Tried(turn - 1)
  /\ step = "test" =>
       /\ turn \in 1..Len(planned) /\ Tried(turn - 1)
       /\ tree = OneFault(turn) /\ Clean
       /\ planned[turn].file \in DOMAIN changed => bytecode[planned[turn].file] = {}
  /\ step = "restore" =>
       /\ turn \in 1..Len(planned) /\ Tried(turn)
       /\ tree = OneFault(turn) /\ Clean
  /\ step = "emit" => Tried(Len(planned))
  /\ verdict = "measured" => step = "over" /\ Tried(Len(planned))

LEMMA ChangeSame ==
  ASSUME changed' = changed, cap' = cap
  PROVE  (IsChange' <=> IsChange) /\ AllFaults' = AllFaults
<1>1. IsChange' <=> IsChange
  BY DEF IsChange, IsSequence
<1>2. AllFaults' = AllFaults
  BY DEF AllFaults, Faults
<1> QED BY <1>1, <1>2

LEMMA AuditSame ==
  ASSUME changed' = changed, cap' = cap, planned' = planned
  PROVE  /\ IsChange' <=> IsChange
         /\ AllFaults' = AllFaults
         /\ \A i : OneFault(i)' = OneFault(i)
         /\ Fair(planned)' <=> Fair(planned)
BY DEF IsChange, IsSequence, AllFaults, Faults, OneFault, Fair

LEMMA TriedSame ==
  ASSUME changed' = changed, planned' = planned, tried' = tried, exits' = exits
  PROVE  \A n : Tried(n)' <=> Tried(n)
BY DEF Tried, IsSequence, OneFault

LEMMA AuditPlans == ASSUME AuditInv, PlanMutants PROVE AuditInv'
<1>1. /\ step = "idle" /\ step' = "planned" /\ planned' = PlanOf
      /\ UNCHANGED <<changed, cap, turn, tree, bytecode, tried, exits, verdict>>
  BY DEF PlanMutants
<1>2. IsChange /\ Untried /\ Tried(0) /\ turn = 1 /\ verdict # "measured"
  BY <1>1 DEF AuditInv
<1>3. PlanOf \in Seq(AllFaults) /\ Fair(PlanOf)
  BY <1>2, FairPlan
<1>4. IsChange' /\ AllFaults' = AllFaults
  BY <1>1, <1>2, ChangeSame
<1>5. Fair(planned)'
  BY <1>1, <1>3 DEF Fair
<1>6. Tried(0)'
  BY <1>1, <1>2 DEF Tried, IsSequence
<1>7. Untried'
  BY <1>1, <1>2 DEF Untried, Clean
<1> QED BY <1>1, <1>2, <1>3, <1>4, <1>5, <1>6, <1>7 DEF AuditInv

LEMMA AuditWrites == ASSUME AuditInv, Write PROVE AuditInv'
<1> DEFINE f == planned[turn].file
<1>1. /\ step = "write" /\ step' = "test"
      /\ tree' = [tree EXCEPT ![f] = turn]
      /\ bytecode' = [bytecode EXCEPT ![f] = {}]
      /\ UNCHANGED <<changed, cap, planned, turn, tried, exits, verdict>>
  BY DEF Write, Fault
<1>2. /\ IsChange /\ planned \in Seq(AllFaults)
      /\ Untried /\ turn \in 1..Len(planned) /\ Tried(turn - 1) /\ verdict # "measured"
  BY <1>1 DEF AuditInv
<1>3. tree' = OneFault(turn)
  BY <1>1, <1>2 DEF Untried, OneFault
<1>4. Clean' /\ (f \in DOMAIN changed => bytecode'[f] = {})
  BY <1>1, <1>2 DEF Untried, Clean, Patched
<1>5. (IsChange /\ planned \in Seq(AllFaults))' /\ OneFault(turn)' = OneFault(turn)
  BY <1>1, <1>2, AuditSame
<1>6. Tried(turn - 1)'
  BY <1>1, <1>2, TriedSame
<1> QED BY <1>1, <1>2, <1>3, <1>4, <1>5, <1>6 DEF AuditInv

LEMMA AuditTries == ASSUME AuditInv, Try PROVE AuditInv'
<1>1. /\ step = "test" /\ step' = "restore"
      /\ UNCHANGED <<changed, cap, planned, turn, tree, bytecode, verdict>>
  BY DEF Try
<1>2. PICK ran \in [DOMAIN tree -> UNION {MayRun(f) : f \in DOMAIN tree}] :
        /\ \A f \in DOMAIN tree : ran[f] \in MayRun(f)
        /\ tried' = Append(tried, ran)
  BY DEF Try
<1>3. PICK exit : exits' = Append(exits, exit)
  BY DEF Try
<1>4. /\ IsChange /\ planned \in Seq(AllFaults)
      /\ turn \in 1..Len(planned) /\ Tried(turn - 1) /\ tree = OneFault(turn) /\ Clean
      /\ planned[turn].file \in DOMAIN changed => bytecode[planned[turn].file] = {}
      /\ verdict # "measured"
  BY <1>1 DEF AuditInv
<1>5. ran = OneFault(turn)
  <2>1. DOMAIN tree = DOMAIN changed
    BY <1>4 DEF OneFault
  <2>2. ASSUME NEW f \in DOMAIN changed PROVE ran[f] = OneFault(turn)[f]
    <3>1. ran[f] = tree[f] \/ ran[f] \in bytecode[f]
      BY <1>2, <2>1 DEF MayRun
    <3>2. CASE f = planned[turn].file
      BY <1>4, <3>1, <3>2
    <3>3. CASE f # planned[turn].file
      <4>1. bytecode[f] \subseteq {Patched} /\ OneFault(turn)[f] = Patched
        BY <1>4, <3>3 DEF Clean, OneFault
      <4> QED BY <1>4, <3>1, <4>1
    <3> QED BY <3>2, <3>3
  <2>3. ran = [f \in DOMAIN changed |-> ran[f]]
    BY <2>1
  <2> QED BY <2>2, <2>3 DEF OneFault
<1>6. Tried(turn)'
  <2>1. /\ IsSequence(tried) /\ IsSequence(exits) /\ turn \in Nat
        /\ Len(tried) = turn - 1 /\ Len(exits) = turn - 1
        /\ \A i \in 1..(turn - 1) : tried[i] = OneFault(i)
    BY <1>4 DEF Tried
  <2>2. /\ IsSequence(tried') /\ IsSequence(exits')
        /\ Len(tried') = turn /\ Len(exits') = turn
        /\ \A i \in 1..(turn - 1) : tried'[i] = tried[i]
        /\ tried'[turn] = ran
    BY <1>2, <1>3, <2>1, Appended
  <2>3. \A i \in 1..turn : tried'[i] = OneFault(i)
    <3>1. \A i \in 1..turn : i \in 1..(turn - 1) \/ i = turn
      BY <2>1
    <3> QED BY <1>5, <2>1, <2>2, <3>1
  <2>4. IsSequence(tried)' /\ IsSequence(exits)' /\ \A i : OneFault(i)' = OneFault(i)
    BY <1>1, <2>2, AuditSame DEF IsSequence
  <2> QED BY <1>1, <2>2, <2>3, <2>4 DEF Tried
<1>7. (IsChange /\ planned \in Seq(AllFaults))' /\ (tree = OneFault(turn))' /\ Clean'
  BY <1>1, <1>4, AuditSame DEF Clean
<1> QED BY <1>1, <1>4, <1>6, <1>7 DEF AuditInv

LEMMA AuditRestores == ASSUME AuditInv, Restore PROVE AuditInv'
<1> DEFINE f == planned[turn].file
<1>1. /\ step = "restore"
      /\ step' = IF turn < Len(planned) THEN "write" ELSE "emit"
      /\ tree' = [tree EXCEPT ![f] = Patched]
      /\ bytecode' = [bytecode EXCEPT ![f] = {}]
      /\ turn' = turn + 1
      /\ UNCHANGED <<changed, cap, planned, tried, exits, verdict>>
  BY DEF Restore, Fault
<1>2. /\ IsChange /\ planned \in Seq(AllFaults) /\ turn \in 1..Len(planned)
      /\ Tried(turn) /\ tree = OneFault(turn) /\ Clean /\ verdict # "measured"
  BY <1>1 DEF AuditInv
<1>3. Len(planned) \in Nat
  BY <1>2
<1>4. Untried'
  BY <1>1, <1>2 DEF Untried, OneFault, Clean, Patched
<1>5. (IsChange /\ planned \in Seq(AllFaults))'
  BY <1>1, <1>2, AuditSame
<1>6. \A n : Tried(n)' <=> Tried(n)
  BY <1>1, TriedSame
<1>7. PICK n \in 1..Len(planned) : n = turn
  BY <1>2
<1>8. Tried(n)' /\ turn' = n + 1
  BY <1>1, <1>2, <1>6, <1>7
<1>9. CASE n < Len(planned)
  <2>1. turn' \in 1..Len(planned') /\ turn' - 1 = n /\ step' = "write"
    BY <1>1, <1>3, <1>7, <1>9
  <2>2. Tried(turn - 1)'
    BY <1>8, <2>1
  <2> QED BY <1>1, <1>2, <1>4, <1>5, <2>1, <2>2 DEF AuditInv
<1>10. CASE n = Len(planned)
  <2>1. step' = "emit"
    BY <1>1, <1>3, <1>7, <1>10
  <2>2. Tried(Len(planned))'
    BY <1>1, <1>8, <1>10
  <2> QED BY <1>1, <1>2, <1>5, <2>1, <2>2 DEF AuditInv
<1>11. n < Len(planned) \/ n = Len(planned)
  BY <1>3
<1> QED BY <1>9, <1>10, <1>11

(* The steps that leave the trees and what was tried alone.                *)
LEMMA AuditIdles ==
  ASSUME AuditInv, UNCHANGED <<changed, cap, planned, turn, tree, bytecode, tried, exits>>,
         \/ NoImage \/ LookupRaises \/ NothingToAlter \/ Launch \/ Lost \/ Summarise
         \/ UNCHANGED <<step, verdict>>
  PROVE  AuditInv'
<1>1. /\ (IsChange' <=> IsChange) /\ AllFaults' = AllFaults
      /\ \A i : OneFault(i)' = OneFault(i)
      /\ Fair(planned)' <=> Fair(planned)
  BY AuditSame
<1>2. /\ \A n : Tried(n)' <=> Tried(n)
      /\ Tried(Len(planned))' <=> Tried(Len(planned))
      /\ Tried(turn - 1)' <=> Tried(turn - 1)
      /\ Tried(turn)' <=> Tried(turn)
      /\ OneFault(turn)' = OneFault(turn)
  <2>1. \A n : Tried(n)' <=> Tried(n)
    BY TriedSame
  <2> QED BY <1>1, <2>1
<1>3. (Untried' <=> Untried) /\ (Clean' <=> Clean)
  BY DEF Untried, Clean
<1>4. CASE Launch
  <2>1. /\ step = "planned" /\ step' = "write" /\ planned # << >> /\ verdict' = verdict
    BY <1>4 DEF Launch
  <2>2. /\ IsChange /\ planned \in Seq(AllFaults) /\ Untried /\ Tried(0) /\ turn = 1
        /\ verdict # "measured"
    BY <2>1 DEF AuditInv
  <2>3. turn \in 1..Len(planned) /\ turn - 1 = 0
    BY <2>1, <2>2
  <2>4. (turn \in 1..Len(planned))' /\ Tried(turn - 1)
    BY <2>2, <2>3
  <2> QED BY <1>1, <1>2, <1>3, <2>1, <2>2, <2>4 DEF AuditInv
<1>5. CASE Summarise
  <2>1. step = "emit" /\ step' = "over"
    BY <1>5 DEF Summarise, Report
  <2>2. IsChange /\ planned \in Seq(AllFaults) /\ Tried(Len(planned))
    BY <2>1 DEF AuditInv
  <2> QED BY <1>1, <1>2, <2>1, <2>2 DEF AuditInv
<1>6. CASE NoImage \/ LookupRaises \/ NothingToAlter \/ Lost
  <2>1. step # "unused" /\ step' = "over" /\ verdict' # "measured"
    BY <1>6 DEF NoImage, LookupRaises, NothingToAlter, Lost, Report
  <2>2. IsChange /\ planned \in Seq(AllFaults)
    BY <2>1 DEF AuditInv
  <2> QED BY <1>1, <2>1, <2>2 DEF AuditInv
<1>7. CASE UNCHANGED <<step, verdict>>
  BY <1>1, <1>2, <1>3, <1>7 DEF AuditInv
<1> QED BY <1>4, <1>5, <1>6, <1>7

LEMMA AuditSteps ==
  ASSUME AuditInv, AuditNext \/ UNCHANGED auditVars
  PROVE  AuditInv'
<1>1. CASE NoImage \/ LookupRaises \/ NothingToAlter \/ Launch \/ Lost \/ Summarise
           \/ UNCHANGED auditVars
  <2>1. UNCHANGED <<changed, cap, planned, turn, tree, bytecode, tried, exits>>
    BY <1>1 DEF NoImage, LookupRaises, NothingToAlter, Launch, Lost, Summarise, auditVars
  <2>2. \/ NoImage \/ LookupRaises \/ NothingToAlter \/ Launch \/ Lost \/ Summarise
        \/ UNCHANGED <<step, verdict>>
    BY <1>1 DEF auditVars
  <2> QED BY <2>1, <2>2, AuditIdles
<1> QED BY <1>1, AuditPlans, AuditWrites, AuditTries, AuditRestores DEF AuditNext

LEMMA AuditHolds == ASSUME AuditInv PROVE AuditIsSound
<1>1. CASE step = "planned"
  <2>1. planned \in Seq(AllFaults) /\ Fair(planned) /\ verdict # "measured"
    BY <1>1 DEF AuditInv
  <2>2. DOMAIN planned = 1..Len(planned)
    BY <2>1
  <2>3. \A i, k \in DOMAIN planned : Named(i) = Named(k) => i = k
    BY <2>1, <2>2 DEF Fair, Named
  <2> QED BY <2>1, <2>2, <2>3 DEF Fair, AuditIsSound
<1>2. CASE verdict = "measured"
  <2>1. step = "over" /\ Tried(Len(planned)) /\ planned \in Seq(AllFaults)
    BY <1>2 DEF AuditInv
  <2>2. DOMAIN planned = 1..Len(planned)
    BY <2>1
  <2> QED BY <2>1, <2>2 DEF AuditIsSound, Tried, OneFault
<1>3. CASE step # "planned" /\ verdict # "measured"
  BY <1>3 DEF AuditIsSound
<1> QED BY <1>1, <1>2, <1>3

(* The plan of an audit is fair and its score is that of the plan, for any *)
(* number of files, ranges and faults and any cap (AuditIsSound).          *)
THEOREM AuditScoresPlan == Spec => []AuditIsSound
<1>1. Init => AuditInv
  <2>1. CASE NoAudit
    BY <2>1 DEF NoAudit, AuditInv
  <2>2. CASE AuditInit
    <3>1. IsChange
      BY <2>2, AnalysesAssumption DEF AuditInit, IsChange
    <3>2. Untried
      BY <2>2 DEF AuditInit, Untried, Clean
    <3>3. Tried(0)
      BY <2>2 DEF AuditInit, Tried, IsSequence
    <3> QED BY <2>2, <3>1, <3>2, <3>3 DEF AuditInit, AuditInv
  <2> QED BY <2>1, <2>2 DEF Init, Asked
<1>2. AuditInv /\ [Next]_vars => AuditInv'
  <2> SUFFICES ASSUME AuditInv, [Next]_vars PROVE AuditInv' OBVIOUS
  <2>1. AuditNext \/ UNCHANGED auditVars
    BY DEF Next, vars, FindRadius, CompareSignatures, AnalyseImpact, PlanCleanup,
           JudgeIntegration, Answer
  <2> QED BY <2>1, AuditSteps
<1>3. AuditInv => AuditIsSound
  BY AuditHolds
<1> QED BY <1>1, <1>2, <1>3, PTL DEF Spec
=============================================================================
