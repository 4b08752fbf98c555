--------------------------- MODULE GrammarBuilder ---------------------------
(***************************************************************************)
(* GrammarBuilder::Build (Grammar.cc): FIRST sets, nullability, FOLLOW     *)
(* sets and the mark "may precede the end of the input", each computed by  *)
(* passes over the productions until a pass changes nothing.               *)
(*                                                                         *)
(* A site is the Grammar under construction: its terminals, nonterminals,  *)
(* root and the vector of productions [lhs, rhs].  The passes never look   *)
(* inside a symbol, so symbols are any values.                             *)
(***************************************************************************)
EXTENDS Integers, Sequences, FiniteSets

CONSTANT Sites

IsSite(st) ==
    /\ st.terms \cap st.nonterms = {}
    /\ st.root \in st.nonterms
    /\ DOMAIN st.productions = 1 .. Len(st.productions) /\ Len(st.productions) \in Nat
    /\ \A i \in DOMAIN st.productions :
        /\ st.productions[i].lhs \in st.nonterms
        /\ st.productions[i].rhs \in Seq(st.terms \cup st.nonterms)

ASSUME SitesAssumption == \A st \in Sites : IsSite(st)

VARIABLES site,
          first, follow,    \* nonterminal -> set of terminals
          nullable,         \* the nonterminals with may_produce_epsilon_
          precedes_eof,     \* the nonterminals with may_preceed_eof_
          growing,          \* the running pass has changed something
          prod,             \* place of the production in hand
          back,             \* symbols of its rhs done, from the right
          epsilon_path,     \* the symbols done can all vanish
          stage             \* "first", "follow", "built"

sets == <<first, follow, nullable, precedes_eof>>
vars == <<site, first, follow, nullable, precedes_eof, growing, prod, back,
          epsilon_path, stage>>

Production == site.productions[prod]

\* What TryInsertFIRST inserts for a symbol.
FirstOf(s) == IF s \in site.terms THEN {s} ELSE first[s]

\* The state Build starts in, for a site already filled.
StartBuild(st) ==
    /\ site = st
    /\ first = [s \in st.nonterms |-> {}]
    /\ follow = [s \in st.nonterms |-> {}]
    /\ nullable = {}
    /\ precedes_eof = {}
    /\ growing = FALSE
    /\ prod = 1
    /\ back = 0
    /\ epsilon_path = TRUE
    /\ stage = "first"

Init == \E st \in Sites : StartBuild(st)

-----------------------------------------------------------------------------
(* ComputeFirstSet                                                         *)

\* Mutant: the loop stops at the first symbol.
Reached_Front(rhs) == DOMAIN rhs \cap {1}

\* The symbols of a right-hand side the inner loop reaches: up to the first
\* one that cannot vanish.
Reached(rhs) ==
    {i \in DOMAIN rhs : \A j \in 1 .. (i - 1) : rhs[j] \in nullable}

FirstOfProduction ==
    /\ stage = "first" /\ prod <= Len(site.productions)
    /\ LET lhs == Production.lhs
           rhs == Production.rhs
           gained == UNION {FirstOf(rhs[i]) : i \in Reached(rhs)}
           vanishes == \A i \in DOMAIN rhs : rhs[i] \in nullable
       IN  /\ first' = [first EXCEPT ![lhs] = @ \cup gained]
           /\ nullable' = IF vanishes THEN nullable \cup {lhs} ELSE nullable
           /\ growing' = (growing \/ ~(gained \subseteq first[lhs])
                                  \/ (vanishes /\ lhs \notin nullable))
    /\ prod' = prod + 1
    /\ UNCHANGED <<site, follow, precedes_eof, back, epsilon_path, stage>>

\* The end of a pass: another one, or on to ComputeFollowSet, whose first
\* step marks the root.
EndFirstPass ==
    /\ stage = "first" /\ prod > Len(site.productions)
    /\ IF growing THEN UNCHANGED <<precedes_eof, stage>>
                  ELSE precedes_eof' = {site.root} /\ stage' = "follow"
    /\ growing' = FALSE
    /\ prod' = 1
    /\ UNCHANGED <<site, first, follow, nullable, back, epsilon_path>>

-----------------------------------------------------------------------------
(* ComputeFollowSet                                                        *)

Gain(f, s, terms) == [f EXCEPT ![s] = @ \cup terms]

\* One turn of the loop from the right over a right-hand side.
FollowOfSymbol ==
    /\ stage = "follow" /\ prod <= Len(site.productions)
    /\ back < Len(Production.rhs)
    /\ LET lhs == Production.lhs
           rhs == Production.rhs
           here == Len(rhs) - back
           current == rhs[here]
           \* the symbol to the left of it gets its FIRST
           looked == IF here > 1 /\ rhs[here - 1] \in site.nonterms
                     THEN Gain(follow, rhs[here - 1], FirstOf(current))
                     ELSE follow
           \* at the end of the right-hand side it gets what lhs has
           ends == epsilon_path /\ current \in site.nonterms
           eofs == IF ends /\ lhs \in precedes_eof THEN {current} ELSE {}
       IN  /\ follow' = IF ends THEN Gain(looked, current, looked[lhs]) ELSE looked
           /\ precedes_eof' = precedes_eof \cup eofs
           /\ epsilon_path' = (ends /\ current \in nullable)
           /\ growing' = (growing \/ follow' # follow \/ precedes_eof' # precedes_eof)
    /\ back' = back + 1
    /\ UNCHANGED <<site, first, nullable, prod, stage>>

\* Mutant: epsilon_path is not reset for the next production.
EndFollowProduction_NoReset ==
    /\ stage = "follow" /\ prod <= Len(site.productions)
    /\ back = Len(Production.rhs)
    /\ prod' = prod + 1 /\ back' = 0
    /\ UNCHANGED <<site, sets, growing, epsilon_path, stage>>

EndFollowProduction ==
    /\ stage = "follow" /\ prod <= Len(site.productions)
    /\ back = Len(Production.rhs)
    /\ prod' = prod + 1 /\ back' = 0 /\ epsilon_path' = TRUE
    /\ UNCHANGED <<site, sets, growing, stage>>

\* Mutant: the flag is not reset between passes.
EndFollowPass_NoReset ==
    /\ stage = "follow" /\ prod > Len(site.productions)
    /\ stage' = IF growing THEN "follow" ELSE "built"
    /\ prod' = 1
    /\ UNCHANGED <<site, sets, growing, back, epsilon_path>>

EndFollowPass ==
    /\ stage = "follow" /\ prod > Len(site.productions)
    /\ stage' = IF growing THEN "follow" ELSE "built"
    /\ growing' = FALSE
    /\ prod' = 1
    /\ UNCHANGED <<site, sets, back, epsilon_path>>

Step == \/ FirstOfProduction \/ EndFirstPass
        \/ FollowOfSymbol \/ EndFollowProduction \/ EndFollowPass

Next == Step \/ (stage = "built" /\ UNCHANGED vars)

Spec == Init /\ [][Next]_vars /\ WF_vars(Step)

-----------------------------------------------------------------------------
(* Against the textbook's definitions.                                     *)

T == INSTANCE TextbookSets

\* FIRST and nullability are complete before FOLLOW is begun, empty
\* productions or not.
FirstIsExact ==
    stage # "first" =>
        /\ nullable = T!Nullable(site)
        /\ \A s \in site.nonterms : first[s] = T!First(site, s)

\* At no step does a FOLLOW set or an end-of-input mark go beyond its
\* definition.  The marks are exact when the passes end, and so are the FOLLOW
\* sets where no symbol that vanishes stands between two others.
EofAndFollowAreExact ==
    /\ precedes_eof \subseteq T!PrecedesEof(site)
    /\ \A s \in site.nonterms : follow[s] \subseteq T!Follow(site, s)
    /\ stage = "built" =>
        /\ precedes_eof = T!PrecedesEof(site)
        /\ \/ T!HasNullableGap(site)
           \/ \A s \in site.nonterms : follow[s] = T!Follow(site, s)

\* Both loops reach a pass that changes nothing.
Terminates == <>(stage = "built")
=============================================================================
