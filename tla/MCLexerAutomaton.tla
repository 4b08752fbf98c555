-------------------------- MODULE MCLexerAutomaton --------------------------
(* LexerAutomaton on small expressions over the characters 0, 1 and 2.     *)
EXTENDS LexerAutomaton

CONSTANTS Family,    \* "small", "gap" or "nested plus"
          MaxText

Chars == {Entity(0, 0), Entity(1, 1), Entity(0, 1)}
Repeated(es) == {Closure(e, mode) : e \in es, mode \in Modes}
Units == Chars \cup Repeated({Entity(0, 0), Entity(0, 1)})
Pairs == {Sequence(<<a, b>>) : a, b \in Units}
Deep ==
    Repeated({Sequence(<<Entity(0, 0), Entity(1, 1)>>), Choice(<<Entity(0, 0), Sequence(<<Entity(1, 1), Entity(0, 0)>>)>>),
              Sequence(<<Closure(Entity(0, 0), "optional"), Entity(1, 1)>>),
              Closure(Entity(1, 1), "star")})
    \cup {Choice(<<a, Sequence(<<b, Entity(2, 2)>>)>>) : a \in Units, b \in Units}
    \cup {Sequence(<<Entity(0, 0), b, Entity(0, 1)>>) : b \in Units}
Keywords == {Entity(0, 0), Sequence(<<Entity(0, 0), Entity(1, 1)>>), Closure(Entity(0, 2), "plus")}

Token(id, e) == [id |-> id, tree |-> e]
Two(es, fs) == {<<Token(0, e), Token(1, f)>> : e \in es, f \in fs}

MCBatches ==
    CASE Family = "small" -> Two(Pairs \cup Deep, Keywords) \cup Two(Keywords, Pairs)
      [] Family = "gap" -> {<<Token(0, Sequence(<<Entity(0, 0), Closure(Entity(1, 1), "optional"), Entity(2, 2)>>))>>}
      [] Family = "nested plus" -> {<<Token(0, Closure(Closure(Entity(0, 0), "star"), "plus"))>>}

\* A byte above 127 is read as a negative number.
MCTexts == UNION {[1..n -> 0..2] : n \in 0..MaxText} \cup {<<0, -1>>}
=============================================================================
