-------------------------- MODULE RegularLanguages --------------------------
(***************************************************************************)
(* Which words an expression of the regular expression language matches,   *)
(* from the meaning of its operators.  An expression is a record with the  *)
(* field op: "entity" with the range min..max of its character, "sequence" *)
(* and "choice" with their children, "closure" with its child and mode.    *)
(***************************************************************************)
EXTENDS Integers, Sequences

Modes == {"optional", "star", "plus"}

Entity(min, max) == [op |-> "entity", min |-> min, max |-> max]
Sequence(es) == [op |-> "sequence", child |-> es]
Choice(es) == [op |-> "choice", child |-> es]
Closure(e, mode) == [op |-> "closure", child |-> e, mode |-> mode]

Prefix(w, k) == SubSeq(w, 1, k)
Rest(w, k) == SubSeq(w, k + 1, Len(w))

RECURSIVE Matches(_, _), MatchesAll(_, _), MatchesMany(_, _)

Matches(e, w) ==
    CASE e.op = "entity" -> Len(w) = 1 /\ w[1] \in e.min..e.max
      [] e.op = "sequence" -> MatchesAll(e.child, w)
      [] e.op = "choice" -> \E i \in DOMAIN e.child : Matches(e.child[i], w)
      [] e.op = "closure" ->
            CASE e.mode = "optional" -> w = <<>> \/ Matches(e.child, w)
              [] e.mode = "star" -> MatchesMany(e.child, w)
              [] e.mode = "plus" ->
                    \E k \in 0..Len(w) : Matches(e.child, Prefix(w, k)) /\ MatchesMany(e.child, Rest(w, k))

MatchesAll(es, w) ==
    IF es = <<>> THEN w = <<>>
    ELSE \E k \in 0..Len(w) : Matches(Head(es), Prefix(w, k)) /\ MatchesAll(Tail(es), Rest(w, k))

MatchesMany(e, w) ==
    w = <<>> \/ \E k \in 1..Len(w) : Matches(e, Prefix(w, k)) /\ MatchesMany(e, Rest(w, k))

Nullable(e) == Matches(e, <<>>)

\* Expressions every operator of which can be told from its neighbours: no
\* part of a sequence that may be empty lies between two others, and nothing
\* that may be empty is repeated with +.
RECURSIVE IsPlain(_)
IsPlain(e) ==
    CASE e.op = "entity" -> TRUE
      [] e.op = "sequence" ->
            /\ \A i \in DOMAIN e.child : IsPlain(e.child[i])
            /\ \A i \in 2..(Len(e.child) - 1) : ~Nullable(e.child[i])
      [] e.op = "choice" -> \A i \in DOMAIN e.child : IsPlain(e.child[i])
      [] e.op = "closure" -> IsPlain(e.child) /\ (e.mode = "plus" => ~Nullable(e.child))
=============================================================================
