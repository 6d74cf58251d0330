-------------------------------- MODULE Patch --------------------------------
(***************************************************************************)
(* From a model's reply to a patched file (principal/diffs.py and gates 1  *)
(* and 2: gates/scope.py, gates/syntax.py, gates/apply.py).  One reply is  *)
(* parsed, its hunks are placed in the file one after the other by their   *)
(* content, and the local gates judge the result.                          *)
(*                                                                         *)
(* A file is a sequence of lines without their ends.  A hunk is a record   *)
(* [start, header, lines]: the line number it names, whether its header is *)
(* "good", has "wrong" counts or is "none", and its lines [op, text].      *)
(***************************************************************************)
EXTENDS Integers, Sequences, SequencesExt

CONSTANTS
  Blank,         \* the texts that are white space only
  Files,         \* the contents the target file may have
  Replies,       \* what a model may reply: [blocks, shape, paths, hunks]
  Target,        \* the path of the task's file
  Radius,        \* the paths of the blast radius
  Guarded        \* test files and dependency manifests

IsSequence(s) == s \in Seq({s[i] : i \in DOMAIN s})

(* Lines are numbered, and a line of a hunk stays, goes or comes.          *)
IsHunk(h) ==
  /\ IsSequence(h.lines) /\ h.start \in Nat
  /\ \A k \in DOMAIN h.lines : h.lines[k].op \in {" ", "-", "+"}

(* Files and replies are lists.                                            *)
ASSUME PatchAssumption ==
  /\ \A f \in Files : IsSequence(f)
  /\ \A r \in Replies :
       IsSequence(r.hunks) /\ \A i \in DOMAIN r.hunks : IsHunk(r.hunks[i])

VARIABLES
  source,      \* the text of the target file
  reply,       \* the reply
  stage,       \* how far it got, see PatchTypeOK
  placed,      \* how many hunks are placed
  cursor,      \* how many lines of the source are used up
  out,         \* the patched text so far
  paths        \* the paths the diff names

patchVars == <<source, reply, stage, placed, cursor, out, paths>>

PatchInit ==
  /\ source \in Files /\ reply \in Replies
  /\ stage = "reply"
  /\ placed = 0 /\ cursor = 0 /\ out = << >>
  /\ paths = {}

Reject == stage' = "rejected" /\ UNCHANGED <<source, reply, placed, cursor, out, paths>>

TextsOf(lines, ops) ==
  FoldLeft(LAMBDA texts, l : IF l.op \in ops THEN Append(texts, l.text) ELSE texts, << >>, lines)
Old(h) == TextsOf(h.lines, {" ", "-"})
New(h) == TextsOf(h.lines, {" ", "+"})

(* A body that ends on a context line was not cut short.                   *)
Closed(h) == h.lines # << >> /\ h.lines[Len(h.lines)].op = " "
Sound(h) == h.header = "wrong" => Closed(h)

(* Lines are numbered from one, a header that is none says the first.      *)
Hint(h) == IF h.header = "none" \/ h.start = 0 THEN 0 ELSE h.start - 1

Unparseable ==
  /\ stage = "reply"
  /\ \/ reply.blocks # 1
     \/ reply.hunks = << >>
     \/ \E i \in DOMAIN reply.hunks : ~Sound(reply.hunks[i])
  /\ Reject

(* A diff that adds, removes or touches several files keeps its numbers.   *)
Parse ==
  /\ stage = "reply"
  /\ reply.blocks = 1 /\ reply.hunks # << >>
  /\ \A i \in DOMAIN reply.hunks : Sound(reply.hunks[i])
  /\ stage' = IF reply.shape = "edit" THEN "placing" ELSE "diff"
  /\ paths' = reply.paths
  /\ UNCHANGED <<source, reply, placed, cursor, out>>

-----------------------------------------------------------------------------
(* canonicalise: the hunks are located by their content.                   *)

Hunk == reply.hunks[placed + 1]
Placing == stage = "placing" /\ placed < Len(reply.hunks)

Fits(h, at) == \A k \in DOMAIN Old(h) : source[at + k] = Old(h)[k]
Starts(h) == {at \in cursor..Len(source) : at + Len(Old(h)) <= Len(source) /\ Fits(h, at)}

Capped(i) == IF i < Len(source) THEN i ELSE Len(source)

Distance(at, h) == IF at < Hint(h) THEN Hint(h) - at ELSE at - Hint(h)

(* Mutant of Nearest: the first place will do.                             *)
FirstOf(S, h) == CHOOSE s \in S : \A t \in S : s <= t

Nearest(S, h) ==
  CHOOSE s \in S : \A t \in S \ {s} :
    Distance(s, h) < Distance(t, h) \/ (Distance(s, h) = Distance(t, h) /\ s < t)

Place(at, end, replacement) ==
  /\ out' = out \o SubSeq(source, cursor + 1, at) \o replacement
  /\ cursor' = end
  /\ placed' = placed + 1
  /\ UNCHANGED <<source, reply, stage, paths>>

PlaceExactly ==
  /\ Placing
  /\ Old(Hunk) # << >> /\ Starts(Hunk) # {}
  /\ LET at == Nearest(Starts(Hunk), Hunk) IN Place(at, at + Len(Old(Hunk)), New(Hunk))

(* The number of blank lines of the source from line i on.                 *)
IsBlank(i) == i <= Len(source) /\ source[i] \in Blank
BlanksFrom(i) == CHOOSE n \in 0..Len(source) :
                   ~IsBlank(i + n) /\ \A k \in 0..(n - 1) : IsBlank(i + k)

(* One line of a hunk against the source after "at" lines: a blank context *)
(* line takes one blank line or none, and blank lines the hunk left out    *)
(* stand; a line with text must be there.                                  *)
ScanLine(first, scan, l) ==
  LET i == scan.at
      over == IF l.text \notin Blank /\ i > first THEN BlanksFrom(i + 1) ELSE 0
      found == i + over + 1 IN
    CASE l.op = "+" -> [scan EXCEPT !.text = Append(@, l.text)]
      [] l.op = " " /\ l.text \in Blank ->
           IF IsBlank(i + 1) THEN [scan EXCEPT !.at = i + 1, !.text = Append(@, source[i + 1])] ELSE scan
      [] l.op = "-" \/ (l.op = " " /\ l.text \notin Blank) ->
           [at |-> found,
            text |-> scan.text \o SubSeq(source, i + 1, found - 1)
                       \o (IF l.op = " " THEN <<l.text>> ELSE << >>),
            ok |-> scan.ok /\ found <= Len(source) /\ source[found] = l.text]

Opened(at) == [at |-> at, text |-> << >>, ok |-> TRUE]

(* Mutant of ScanLine: a removed line that is not there is passed over.    *)
ScanScan(h, at) ==
  FoldLeft(LAMBDA scan, l : IF l.op = "-" /\ ~ScanLine(at, scan, l).ok /\ scan.ok
                            THEN scan ELSE ScanLine(at, scan, l),
           Opened(at), h.lines)

Scan(h, at) ==
  FoldLeft(LAMBDA scan, l : IF scan.ok THEN ScanLine(at, scan, l) ELSE scan,
           Opened(at), h.lines)

LooseStarts(h) == {at \in cursor..(Len(source) - 1) : Scan(h, at).ok}

PlaceLoosely ==
  /\ Placing
  /\ Old(Hunk) # << >> /\ Starts(Hunk) = {} /\ LooseStarts(Hunk) # {}
  /\ LET at == Nearest(LooseStarts(Hunk), Hunk) IN
       Place(at, Scan(Hunk, at).at, Scan(Hunk, at).text)

(* A hunk of nothing but new lines goes where its header says.             *)
PlaceInsertion ==
  /\ Placing
  /\ Old(Hunk) = << >>
  /\ LET low == IF Hint(Hunk) > cursor THEN Hint(Hunk) ELSE cursor
     IN Place(Capped(low), Capped(low), New(Hunk))

Misplaced ==
  /\ Placing
  /\ Old(Hunk) # << >> /\ Starts(Hunk) = {} /\ LooseStarts(Hunk) = {}
  /\ Reject

Rest == SubSeq(source, cursor + 1, Len(source))

ChangesNothing ==
  /\ stage = "placing" /\ placed = Len(reply.hunks)
  /\ out \o Rest = source
  /\ Reject

(* The patched text is diffed against the source, under the name of the    *)
(* task's file.                                                            *)
Derive ==
  /\ stage = "placing" /\ placed = Len(reply.hunks)
  /\ out \o Rest # source
  /\ out' = out \o Rest
  /\ cursor' = Len(source)
  /\ paths' = {Target}
  /\ stage' = "canonical"
  /\ UNCHANGED <<source, reply, placed>>

-----------------------------------------------------------------------------
(* apply_to_text: a diff applied by its numbers alone.                     *)

ApplyHunk(acc, h) ==
  LET from == Hint(h) IN
    [ok |-> /\ h.start > 0 /\ from >= acc.at
            /\ Old(h) = << >> \/ (from + Len(Old(h)) <= Len(source) /\ Fits(h, from)),
     at |-> from + Len(Old(h)),
     text |-> acc.text \o SubSeq(source, acc.at + 1, Capped(from)) \o New(h)]

ApplyNext(acc, h) == IF acc.ok THEN ApplyHunk(acc, h) ELSE acc
Untouched == [ok |-> TRUE, at |-> 0, text |-> << >>]
ByNumbers == FoldLeft(ApplyNext, Untouched, reply.hunks)

(* A file the diff adds is what its hunks add.                             *)
Added == FlattenSeq([i \in DOMAIN reply.hunks |-> New(reply.hunks[i])])

(* check_scope, and then the part of check_syntax before the parser.       *)
InScope ==
  /\ paths # {} /\ paths \subseteq {Target}
  /\ paths \cap Guarded = {} /\ paths \subseteq Radius

ScopeFails == stage \in {"diff", "canonical"} /\ ~InScope /\ Reject

ApplyFails ==
  /\ stage = "diff" /\ InScope
  /\ reply.shape # "added" /\ ~ByNumbers.ok
  /\ Reject

SyntaxFails == stage \in {"diff", "canonical"} /\ InScope /\ Reject

LocalGatesPass ==
  /\ stage \in {"diff", "canonical"} /\ InScope
  /\ \/ stage = "canonical" /\ UNCHANGED out
     \/ stage = "diff" /\ reply.shape = "added" /\ out' = Added
     \/ /\ stage = "diff" /\ reply.shape # "added" /\ ByNumbers.ok
        /\ out' = ByNumbers.text \o SubSeq(source, ByNumbers.at + 1, Len(source))
  /\ stage' = "passed"
  /\ UNCHANGED <<source, reply, placed, cursor, paths>>

PatchNext ==
  \/ Unparseable \/ Parse
  \/ PlaceExactly \/ PlaceLoosely \/ PlaceInsertion \/ Misplaced
  \/ ChangesNothing \/ Derive
  \/ ScopeFails \/ ApplyFails \/ SyntaxFails \/ LocalGatesPass

-----------------------------------------------------------------------------
Code(text) ==
  FoldLeft(LAMBDA code, t : IF t \in Blank THEN code ELSE Append(code, t), << >>, text)
Blanks(text) == Len(text) - Len(Code(text))

(* A hunk in its place: it stands behind an untouched stretch of the       *)
(* source, uses up lines whose code is exactly the hunk's old code, puts   *)
(* the hunk's new code there, and blank lines are gained and lost as the   *)
(* hunk says (diffs.py:203-209).                                           *)
InPlace(h) ==
  LET used == SubSeq(source, cursor + 1, cursor')
      gained == SubSeq(out', Len(out) + 1, Len(out')) IN
    /\ SubSeq(out', 1, Len(out)) = out
    /\ \E n \in 0..Len(used) :
         /\ Code(SubSeq(used, n + 1, Len(used))) = Code(Old(h))
         /\ Code(gained) = Code(SubSeq(used, 1, n)) \o Code(New(h))
    /\ Blanks(gained) + Blanks(TextsOf(h.lines, {"-"}))
         = Blanks(used) + Blanks(TextsOf(h.lines, {"+"}))

WellPlaced == placed' = placed + 1 => InPlace(Hunk)

(* Placing a hunk never skips, loses or invents a line: every hunk that is *)
(* placed is in its place.                                                 *)
PlacedExactly == [][WellPlaced]_patchVars

(* Locating by content agrees with the numbers when they are right: a diff *)
(* that applies as it is written is given the text it would have given.    *)
AppliesAlike ==
  stage = "canonical" /\ ByNumbers.ok
    => out = ByNumbers.text \o SubSeq(source, ByNumbers.at + 1, Len(source))
=============================================================================
