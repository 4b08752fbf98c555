------------------------------- MODULE Regex --------------------------------
(***************************************************************************)
(* The reader of regular expressions (Regex.cc): ParseRegexInternal as a   *)
(* machine with one frame per open parenthesis, ParseCharClass and its     *)
(* ranges as functions.  Characters are their codes; 0 ends a text.        *)
(***************************************************************************)
EXTENDS RegularLanguages, SequencesExt

CONSTANT Inputs   \* set of records [text, tree]: tree is what text was printed from, or NoTree

Bar == 124
Open == 40
Close == 41
StarMark == 42
PlusMark == 43
QuestionMark == 63
OpenClass == 91
CloseClass == 93
Caret == 94
Dash == 45
Backslash == 92
MaxChar == 127

NoTree == [op |-> "none"]

VARIABLES input, p, frames, outcome, result

vars == <<input, p, frames, outcome, result>>

text == input.text

(***************************************************************************)
(* Characters and character classes.  k is an index into a text t.         *)
(***************************************************************************)
CharAt(t, k) == IF k \in DOMAIN t THEN t[k] ELSE 0

EscapeRawCharacter(c) ==
    CASE c = 97 -> 7 [] c = 98 -> 8 [] c = 116 -> 9 [] c = 110 -> 10
      [] c = 118 -> 11 [] c = 102 -> 12 [] c = 114 -> 13 [] OTHER -> c

\* [ch, next]; ch is 0 where it throws.
ParseCharacter(t, k) ==
    IF CharAt(t, k) # Backslash THEN [ch |-> CharAt(t, k), next |-> k + 1]
    ELSE [ch |-> EscapeRawCharacter(CharAt(t, k + 1)), next |-> k + 2]

CharRange(a, b) == IF a <= b THEN Entity(a, b) ELSE Entity(b, a)

\* The loop over the ranges of a class: last is the character not yet in a
\* range, 0 for none.  Gives [ranges, next], or no ranges where it throws.
RECURSIVE ParseRanges(_, _, _, _)
ParseRanges(t, k, last, ranges) ==
    LET upper == ParseCharacter(t, k + 1)
        c == ParseCharacter(t, k)
        closed == IF last = 0 THEN ranges ELSE Append(ranges, Entity(last, last))
    IN  CASE CharAt(t, k) \in {0, CloseClass} -> [ranges |-> closed, next |-> k]
          [] last # 0 /\ CharAt(t, k) = Dash ->
                IF CharAt(t, k + 1) = CloseClass
                THEN [ranges |-> Append(ranges, Entity(Dash, Dash)), next |-> k + 1]
                ELSE IF upper.ch = 0 THEN [ranges |-> <<>>, next |-> k]
                ELSE ParseRanges(t, upper.next, 0, Append(ranges, CharRange(last, upper.ch)))
          [] OTHER -> IF c.ch = 0 THEN [ranges |-> <<>>, next |-> k]
                      ELSE ParseRanges(t, c.next, c.ch, closed)

Sorted(ranges) == SortSeq(ranges, LAMBDA a, b : a.min < b.min)

MergeRanges(ranges) ==
    FoldLeft(LAMBDA merged, rg :
                LET last == merged[Len(merged)]
                IN  IF rg.min > last.min THEN Append(merged, rg)
                    ELSE [merged EXCEPT ![Len(merged)].max = IF rg.max > last.max THEN rg.max ELSE last.max],
             <<ranges[1]>>, ranges)

\* Mutant: the gap above a range begins with its last character.
ReverseRanges_Overlap(r) ==
    LET n == Len(r)
        gaps == <<Entity(0, r[1].min - 1)>> \o [k \in 1..(n - 1) |-> Entity(r[k].max, r[k + 1].min - 1)]
                \o <<Entity(r[n].max + 1, MaxChar)>>
    IN  SelectSeq(gaps, LAMBDA rg : rg.min <= rg.max)

ReverseRanges(r) ==
    LET n == Len(r)
        gaps == <<Entity(0, r[1].min - 1)>> \o [k \in 1..(n - 1) |-> Entity(r[k].max + 1, r[k + 1].min - 1)]
                \o <<Entity(r[n].max + 1, MaxChar)>>
    IN  SelectSeq(gaps, LAMBDA rg : rg.min <= rg.max)

\* k is the index after the bracket.  Gives [tree, next]; NoTree where it throws.
ParseCharClass(t, k) ==
    LET reverse == CharAt(t, k) = Caret
        scan == ParseRanges(t, IF reverse THEN k + 1 ELSE k, 0, <<>>)
        merged == MergeRanges(Sorted(scan.ranges))
        ranges == IF reverse THEN ReverseRanges(merged) ELSE merged
    IN  IF CharAt(t, scan.next) # CloseClass \/ scan.ranges = <<>>
        THEN [tree |-> NoTree, next |-> k]
        ELSE [tree |-> IF Len(ranges) = 1 THEN ranges[1] ELSE Choice(ranges), next |-> scan.next + 1]

(***************************************************************************)
(* The parser.  p characters are consumed; frames[1] is the call with no   *)
(* terminator, the others end at a parenthesis.                            *)
(***************************************************************************)
Frame == [any |-> <<>>, seq |-> <<>>, allow_closure |-> FALSE]
Depth == Len(frames)
Current == frames[Depth]
Peek == CharAt(text, p + 1)
Term == IF Depth = 1 THEN 0 ELSE Close
Reading == outcome = "parsing" /\ Peek \notin {0, Term}

MergeSequence(any, seq) == Append(any, IF Len(seq) = 1 THEN seq[1] ELSE Sequence(seq))

Init ==
    /\ input \in Inputs
    /\ p = 0
    /\ frames = <<Frame>>
    /\ outcome = "parsing"
    /\ result = NoTree

\* RegexParsingAssert
Throw == outcome' = "error" /\ UNCHANGED <<input, p, frames, result>>

Goto(k, frame) ==
    /\ p' = k
    /\ frames' = [frames EXCEPT ![Depth] = frame]
    /\ UNCHANGED <<input, outcome, result>>

PushItem(k, e) ==
    Goto(k, [Current EXCEPT !.seq = Append(@, e), !.allow_closure = TRUE])

\* Mutant: the sequence stays.
ReadBar_Keeps ==
    /\ Reading /\ Peek = Bar
    /\ IF Current.seq = <<>> THEN Throw
       ELSE Goto(p + 1, [Current EXCEPT !.any = MergeSequence(@, Current.seq), !.allow_closure = FALSE])

ReadBar ==
    /\ Reading /\ Peek = Bar
    /\ IF Current.seq = <<>> THEN Throw
       ELSE Goto(p + 1, [any |-> MergeSequence(Current.any, Current.seq), seq |-> <<>>, allow_closure |-> FALSE])

ReadParenthesis ==
    /\ Reading /\ Peek = Open
    /\ p' = p + 1
    /\ frames' = Append([frames EXCEPT ![Depth].allow_closure = TRUE], Frame)
    /\ UNCHANGED <<input, outcome, result>>

Mode(c) ==
    CASE c = QuestionMark -> "optional" [] c = StarMark -> "star" [] c = PlusMark -> "plus"

\* Mutant: a closure may be repeated.
ReadClosure_Twice ==
    LET n == Len(Current.seq)
    IN  /\ Reading /\ Peek \in {StarMark, PlusMark, QuestionMark}
        /\ IF n = 0 THEN Throw
           ELSE Goto(p + 1, [Current EXCEPT !.seq[n] = Closure(@, Mode(Peek)), !.allow_closure = TRUE])

ReadClosure ==
    LET n == Len(Current.seq)
    IN  /\ Reading /\ Peek \in {StarMark, PlusMark, QuestionMark}
        /\ IF n = 0 \/ ~Current.allow_closure THEN Throw
           ELSE Goto(p + 1, [Current EXCEPT !.seq[n] = Closure(@, Mode(Peek)), !.allow_closure = FALSE])

ReadClass ==
    LET class == ParseCharClass(text, p + 2)
    IN  /\ Reading /\ Peek = OpenClass
        /\ IF class.tree = NoTree THEN Throw ELSE PushItem(class.next - 1, class.tree)

ReadEscape ==
    LET c == EscapeRawCharacter(CharAt(text, p + 2))
    IN  /\ Reading /\ Peek = Backslash
        /\ CharAt(text, p + 2) # 0
        /\ PushItem(p + 2, Entity(c, c))

\* Consume asserts that there is a character after the backslash.
AbortOnEscape ==
    /\ Reading /\ Peek = Backslash
    /\ CharAt(text, p + 2) = 0
    /\ outcome' = "aborted"
    /\ UNCHANGED <<input, p, frames, result>>

ReadCharacter ==
    /\ Reading
    /\ Peek \notin {Bar, Open, StarMark, PlusMark, QuestionMark, OpenClass, Backslash}
    /\ PushItem(p + 1, Entity(Peek, Peek))

\* The end of a call: of the parser, or of a parenthesis.
Return ==
    LET any == MergeSequence(Current.any, Current.seq)
        e == IF Len(any) = 1 THEN any[1] ELSE Choice(any)
    IN  /\ outcome = "parsing" /\ ~Reading
        /\ IF Current.seq = <<>> \/ Peek # Term THEN Throw
           ELSE IF Depth = 1
           THEN /\ outcome' = "done"
                /\ result' = e
                /\ UNCHANGED <<input, p, frames>>
           ELSE /\ p' = p + 1
                /\ frames' = [Front(frames) EXCEPT ![Depth - 1].seq = Append(@, e)]
                /\ UNCHANGED <<input, outcome, result>>

Step ==
    \/ ReadBar \/ ReadParenthesis \/ ReadClosure \/ ReadClass
    \/ ReadEscape \/ AbortOnEscape \/ ReadCharacter \/ Return

Next == Step \/ (outcome # "parsing" /\ UNCHANGED vars)

Spec == Init /\ [][Next]_vars

-----------------------------------------------------------------------------
(***************************************************************************)
(* What the notation means, without a parser: which texts are well formed. *)
(***************************************************************************)
Splits(t, IsFirst(_), IsSecond(_)) ==
    \E k \in 1..(Len(t) - 1) : IsFirst(Prefix(t, k)) /\ IsSecond(Rest(t, k))

RECURSIVE IsClassBody(_), IsExpression(_, _), IsSequence(_, _)
IsClassBody(t) ==
    \/ t = <<>>
    \/ t[1] \notin {CloseClass, Backslash} /\ IsClassBody(Rest(t, 1))
    \/ t[1] = Backslash /\ Len(t) > 1 /\ IsClassBody(Rest(t, 2))

IsClass(t) ==
    /\ Len(t) > 2 /\ t[1] = OpenClass /\ t[Len(t)] = CloseClass
    /\ LET body == SubSeq(t, 2, Len(t) - 1)
       IN  body # <<Caret>> /\ IsClassBody(IF body[1] = Caret THEN Tail(body) ELSE body)

IsAtom(t, nested) ==
    \/ Len(t) = 1 /\ t[1] \notin {Bar, Open, StarMark, PlusMark, QuestionMark, OpenClass, Backslash}
                  /\ (nested => t[1] # Close)
    \/ Len(t) = 2 /\ t[1] = Backslash
    \/ IsClass(t)
    \/ Len(t) > 2 /\ t[1] = Open /\ t[Len(t)] = Close /\ IsExpression(SubSeq(t, 2, Len(t) - 1), TRUE)

IsItem(t, nested) ==
    \/ IsAtom(t, nested)
    \/ t[Len(t)] \in {StarMark, PlusMark, QuestionMark} /\ Len(t) > 1 /\ IsAtom(Front(t), nested)

IsSequence(t, nested) ==
    \/ IsItem(t, nested)
    \/ Splits(t, LAMBDA f : IsItem(f, nested), LAMBDA r : IsSequence(r, nested))

IsExpression(t, nested) ==
    t # <<>> /\ \/ IsSequence(t, nested)
                \/ Splits(t, LAMBDA f : f[Len(f)] = Bar /\ Len(f) > 1 /\ IsSequence(Front(f), nested),
                             LAMBDA r : IsExpression(r, nested))

\* The characters a class denotes; a dash at the end stands for itself.
RECURSIVE Members(_)
Members(body) ==
    LET c == ParseCharacter(body, 1)
        r == Rest(body, c.next - 1)
    IN  IF body = <<>> THEN {}
        ELSE IF Len(r) > 1 /\ r[1] = Dash
        THEN LET upper == ParseCharacter(r, 2)
             IN  (IF c.ch <= upper.ch THEN c.ch..upper.ch ELSE upper.ch..c.ch) \cup Members(Rest(r, upper.next - 1))
        ELSE {c.ch} \cup Members(r)

ClassBody == LET b == SubSeq(text, 2, Len(text) - 1) IN IF b[1] = Caret THEN Tail(b) ELSE b
IsReversed == text[2] = Caret
ClassMembers == IF IsReversed THEN (0..MaxChar) \ Members(ClassBody) ELSE Members(ClassBody)
TreeMembers == {c \in 0..MaxChar : Matches(result, <<c>>)}
ReadClassOnly == outcome = "done" /\ IsClass(text)

\* A dash at the end, where the code reads one after another character.
EndsWithDash ==
    LET r == ParseRanges(text, IF IsReversed THEN 3 ELSE 2, 0, <<>>).ranges
    IN  CharAt(text, Len(text) - 1) = Dash /\ r[Len(r)] = Entity(Dash, Dash)
RangesOverlap ==
    LET r == ParseRanges(text, IF IsReversed THEN 3 ELSE 2, 0, <<>>).ranges
    IN  \E a, b \in DOMAIN r : r[a].min < r[b].min /\ r[b].min <= r[a].max

\* The tree is the expression the text was printed from: precedence,
\* grouping and the order of alternatives are read as they were meant.
ReadsBackWhatIsPrinted == outcome = "done" /\ input.tree # NoTree => result = input.tree

\* A text is accepted exactly when it is well formed; every other ends in an
\* exception, or in the failing assertion after a lone backslash.
AcceptsTheWellFormed == outcome # "parsing" => (outcome = "done" <=> IsExpression(text, FALSE))

\* The tree of a class passes exactly its characters, unless a character is
\* lost before a dash at the end or overlapping ranges are reversed.
ClassesHoldTheirMembers ==
    ReadClassOnly /\ ~EndsWithDash /\ ~(IsReversed /\ RangesOverlap) => TreeMembers = ClassMembers

\* What one would expect of classes and texts; README.md lists the
\* configurations that refute it.
LastDashIsRaw == ReadClassOnly /\ ~IsReversed => TreeMembers = ClassMembers
ReversedIsTheComplement == ReadClassOnly /\ IsReversed /\ ~EndsWithDash => TreeMembers = ClassMembers
NeverAborts == outcome # "aborted"
=============================================================================
