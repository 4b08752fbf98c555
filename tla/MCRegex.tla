------------------------------ MODULE MCRegex -------------------------------
(* Regex on printed expressions, on all short texts, and on short classes. *)
EXTENDS Regex

CONSTANTS MaxText, MaxClass

Texts(chars, n) == UNION {[1..k -> chars] : k \in 0..n}
Raw == {[text |-> t, tree |-> NoTree] :
            t \in Texts({97, Bar, Open, Close, StarMark, OpenClass, CloseClass, Dash, Caret, Backslash}, MaxText)}
Classes == {[text |-> <<OpenClass>> \o t \o <<CloseClass>>, tree |-> NoTree] :
                t \in Texts({97, 98, 99, 100, Dash, Caret}, MaxClass)}

Letters == {Entity(97, 97), Entity(10, 10), Entity(98, 99)}
Level1 == Letters \cup {Closure(e, mode) : e \in Letters, mode \in Modes}
                  \cup {Sequence(<<a, b>>) : a, b \in Letters} \cup {Choice(<<a, b>>) : a, b \in Letters}
Level2 == Level1 \cup {Closure(e, mode) : e \in Level1 \ Letters, mode \in Modes}
                 \cup {Sequence(<<a, b>>) : a, b \in Level1} \cup {Choice(<<a, b>>) : a, b \in Level1}
                 \cup {Sequence(<<a, b, c>>) : a, b, c \in Letters}

\* An expression with the fewest parentheses that keep its shape.
Parens(t) == <<Open>> \o t \o <<Close>>
RECURSIVE TextOf(_)
ItemText(e) == IF e.op \in {"sequence", "choice"} THEN Parens(TextOf(e)) ELSE TextOf(e)
AtomText(e) == IF e.op = "entity" THEN TextOf(e) ELSE Parens(TextOf(e))
AlternativeText(e) == IF e.op = "choice" THEN Parens(TextOf(e)) ELSE TextOf(e)
TextOf(e) ==
    CASE e.op = "entity" -> CASE e.min = 10 -> <<Backslash, 110>>
                              [] e.min = 97 -> <<97>>
                              [] OTHER -> <<OpenClass, e.min, Dash, e.max, CloseClass>>
      [] e.op = "closure" -> Append(AtomText(e.child), CASE e.mode = "optional" -> QuestionMark
                                                          [] e.mode = "star" -> StarMark
                                                          [] OTHER -> PlusMark)
      [] e.op = "sequence" -> FoldLeft(LAMBDA t, c : t \o ItemText(c), <<>>, e.child)
      [] e.op = "choice" -> FoldLeft(LAMBDA t, c : t \o <<Bar>> \o AlternativeText(c),
                                     AlternativeText(e.child[1]), Tail(e.child))

Printed == {[text |-> TextOf(e), tree |-> e] : e \in Level2}

MCInputs == Raw \cup Classes \cup Printed
=============================================================================
