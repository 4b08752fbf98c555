--------------------------- MODULE LexerAutomaton ---------------------------
(***************************************************************************)
(* LexerAutomaton.cc: the position sets of the tokens' expression trees,   *)
(* the subset construction over them, the lexing table Initialize fills    *)
(* from it, and LoadToken's scan with that table (Parser.cc).              *)
(*                                                                         *)
(* A position (a LabelExpr of the code) is the record of its path in the   *)
(* batch and of the range it passes; a root's range is empty.  Characters  *)
(* are 0 .. CharCount - 1, the code's 0 .. 127.  One step is the collection*)
(* of the node information, one character of the inner loop, one turn of   *)
(* the outer one, the filling of the table, or one character of a scan.    *)
(***************************************************************************)
EXTENDS RegularLanguages, FiniteSets

CONSTANTS Batches,     \* set of sequences of [id, tree], tokens before ignored tokens
          CharCount,
          Texts        \* set of sequences of bytes as the code reads them, with their sign

VARIABLES phase,          \* "collect", "build", "ready", "scan", "loaded", "aborted"
          batch,
          follow_pos,     \* set of pairs of positions
          states,         \* sequence of [set, acc_token]; the state with id k is the k+1st
          unprocessed,    \* queue of position sets
          ch,
          transitions,    \* <<state id, character>> -> state id
          lexing_table,   \* index -> state id or -1
          text, offset, i, state, last_acc   \* of LoadToken; last_acc is [len, id]

built == <<phase, follow_pos, states, unprocessed, ch, transitions, lexing_table>>
scanned == <<text, offset, i, state, last_acc>>
vars == <<batch, built, scanned>>

NoToken == -1

(***************************************************************************)
(* The visits.  Each gives [nullable, first, last, follow].                *)
(***************************************************************************)
Joined(from, to) == {<<p, q>> : p \in from, q \in to}
FollowOf(c) == UNION {c[k].follow : k \in DOMAIN c}

VisitEntity(e, at) ==
    LET p == [at |-> at, min |-> e.min, max |-> e.max]
    IN  [nullable |-> FALSE, first |-> {p}, last |-> {p}, follow |-> {}]

\* Mutant: also the children behind the first that cannot be empty are first.
VisitSequence_AllFirst(c) ==
    [nullable |-> \A k \in DOMAIN c : c[k].nullable,
     first |-> UNION {c[k].first : k \in DOMAIN c},
     last |-> UNION {c[k].last : k \in {j \in DOMAIN c : \A l \in (j + 1)..Len(c) : c[l].nullable}},
     follow |-> FollowOf(c) \cup UNION {Joined(c[k].last, c[k + 1].first) : k \in 1..(Len(c) - 1)}]

VisitSequence(c) ==
    [nullable |-> \A k \in DOMAIN c : c[k].nullable,
     first |-> UNION {c[k].first : k \in {j \in DOMAIN c : \A l \in 1..(j - 1) : c[l].nullable}},
     last |-> UNION {c[k].last : k \in {j \in DOMAIN c : \A l \in (j + 1)..Len(c) : c[l].nullable}},
     follow |-> FollowOf(c) \cup UNION {Joined(c[k].last, c[k + 1].first) : k \in 1..(Len(c) - 1)}]

VisitChoice(c) ==
    [nullable |-> \E k \in DOMAIN c : c[k].nullable,
     first |-> UNION {c[k].first : k \in DOMAIN c},
     last |-> UNION {c[k].last : k \in DOMAIN c},
     follow |-> FollowOf(c)]

VisitClosure(c, mode) ==
    [nullable |-> mode # "plus",
     first |-> c.first,
     last |-> c.last,
     follow |-> c.follow \cup (IF mode = "optional" THEN {} ELSE Joined(c.last, c.first))]

RECURSIVE Visit(_, _)
Visit(e, at) ==
    CASE e.op = "entity" -> VisitEntity(e, at)
      [] e.op = "closure" -> VisitClosure(Visit(e.child, Append(at, 1)), e.mode)
      [] OTHER -> LET c == [k \in DOMAIN e.child |-> Visit(e.child[k], Append(at, k))]
                  IN  IF e.op = "sequence" THEN VisitSequence(c) ELSE VisitChoice(c)

Root(k) == [at |-> <<k>>, min |-> 1, max |-> 0]

\* Mutant: a root follows only what is first.
VisitRoot_First(k) ==
    LET c == Visit(batch[k].tree, <<k>>)
    IN  [nullable |-> FALSE, first |-> c.first, last |-> {Root(k)},
         follow |-> c.follow \cup Joined(c.first, {Root(k)})]

VisitRoot(k) ==
    LET c == Visit(batch[k].tree, <<k>>)
    IN  [nullable |-> FALSE, first |-> c.first, last |-> {Root(k)},
         follow |-> c.follow \cup Joined(c.last, {Root(k)})]

ComputeInitialPositionSet == UNION {VisitRoot(k).first : k \in DOMAIN batch}

(***************************************************************************)
(* The subset construction.                                                *)
(***************************************************************************)
TestPassage(p, c) == p.min <= c /\ c <= p.max
Passing(set, c) == {p \in set : TestPassage(p, c)}
ComputeTargetPositionSet(set, c) == {f[2] : f \in {g \in follow_pos : g[1] \in Passing(set, c)}}

\* Mutant: the last of the accepted tokens wins.
ComputeAcceptCategory_Last(set) ==
    LET ids == {batch[k].id : k \in {j \in DOMAIN batch : Root(j) \in set}}
    IN  IF ids = {} THEN NoToken ELSE CHOOSE m \in ids : \A n \in ids : n <= m

ComputeAcceptCategory(set) ==
    LET ids == {batch[k].id : k \in {j \in DOMAIN batch : Root(j) \in set}}
    IN  IF ids = {} THEN NoToken ELSE CHOOSE m \in ids : \A n \in ids : m <= n

IdOf(set) == (CHOOSE k \in DOMAIN states : states[k].set = set) - 1
IsKnown(set) == \E k \in DOMAIN states : states[k].set = set

NewState(set) ==
    /\ states' = Append(states, [set |-> set, acc_token |-> ComputeAcceptCategory(set)])
    /\ unprocessed' = Append(unprocessed, set)

Init ==
    /\ phase = "collect"
    /\ batch \in Batches
    /\ follow_pos = {} /\ states = <<>> /\ unprocessed = <<>> /\ ch = 0
    /\ transitions = <<>> /\ lexing_table = <<>>
    /\ text = <<>> /\ offset = 0 /\ i = 0 /\ state = 0 /\ last_acc = [len |-> 0, id |-> NoToken]

CollectRegexNodeInfo ==
    /\ phase = "collect"
    /\ phase' = "build"
    /\ follow_pos' = UNION {VisitRoot(k).follow : k \in DOMAIN batch}
    /\ states' = <<[set |-> ComputeInitialPositionSet, acc_token |-> NoToken]>>
    /\ unprocessed' = <<ComputeInitialPositionSet>>
    /\ UNCHANGED <<batch, ch, transitions, lexing_table, scanned>>

Source == Head(unprocessed)
Building == phase = "build" /\ unprocessed # <<>> /\ ch < CharCount

\* One character; an empty target is no transition.
AddTransition ==
    LET dest == ComputeTargetPositionSet(Source, ch)
        id == IF IsKnown(dest) THEN IdOf(dest) ELSE Len(states)
    IN  /\ Building
        /\ IF dest = {} \/ IsKnown(dest) THEN UNCHANGED <<states, unprocessed>> ELSE NewState(dest)
        /\ transitions' = IF dest = {} THEN transitions
                          ELSE [t \in DOMAIN transitions \cup {<<IdOf(Source), ch>>} |->
                                    IF t = <<IdOf(Source), ch>> THEN id ELSE transitions[t]]
        /\ ch' = ch + 1
        /\ UNCHANGED <<batch, phase, follow_pos, lexing_table, scanned>>

\* Mutant: the set just expanded is put back.
EndSet_PutsBack ==
    /\ phase = "build" /\ unprocessed # <<>> /\ ch = CharCount
    /\ unprocessed' = Append(Tail(unprocessed), Source)
    /\ ch' = 0
    /\ UNCHANGED <<batch, phase, follow_pos, states, transitions, lexing_table, scanned>>

EndSet ==
    /\ phase = "build" /\ unprocessed # <<>> /\ ch = CharCount
    /\ unprocessed' = Tail(unprocessed)
    /\ ch' = 0
    /\ UNCHANGED <<batch, phase, follow_pos, states, transitions, lexing_table, scanned>>

(***************************************************************************)
(* The table and the scan.                                                 *)
(***************************************************************************)
FillTable ==
    LET edge(n) == <<n \div CharCount, n % CharCount>>
    IN  /\ phase = "build" /\ unprocessed = <<>>
        /\ phase' = "ready"
        /\ lexing_table' = [n \in 0..(CharCount * Len(states) - 1) |->
                                IF edge(n) \in DOMAIN transitions THEN transitions[edge(n)] ELSE -1]
        /\ UNCHANGED <<batch, follow_pos, states, unprocessed, ch, transitions, scanned>>

CallLoadToken ==
    /\ phase = "ready"
    /\ phase' = "scan"
    /\ text' \in Texts
    /\ \E o \in 0..Len(text') : offset' = o /\ i' = o
    /\ UNCHANGED <<batch, follow_pos, states, unprocessed, ch, transitions, lexing_table, state, last_acc>>

VerifyLexingState(s) == s \in 0..(Len(states) - 1)
VerifyCharacter(c) == c \in 0..(CharCount - 1)

Scanning == phase = "scan" /\ i < Len(text)
Target == lexing_table[CharCount * state + text[i + 1]]

ScanCharacter ==
    /\ Scanning
    /\ VerifyCharacter(text[i + 1])
    /\ VerifyLexingState(Target)
    /\ state' = Target
    /\ last_acc' = IF states[Target + 1].acc_token # NoToken
                   THEN [len |-> i - offset + 1, id |-> states[Target + 1].acc_token]
                   ELSE last_acc
    /\ i' = i + 1
    /\ UNCHANGED <<batch, built, text, offset>>

\* The end of the text, or no transition; the token is last_acc.
EndScan ==
    /\ phase = "scan"
    /\ i < Len(text) => VerifyCharacter(text[i + 1]) /\ ~VerifyLexingState(Target)
    /\ phase' = "loaded"
    /\ UNCHANGED <<batch, follow_pos, states, unprocessed, ch, transitions, lexing_table, scanned>>

\* The assertion of LookupLexingTransition fails.
AbortOnCharacter ==
    /\ Scanning
    /\ ~VerifyCharacter(text[i + 1])
    /\ phase' = "aborted"
    /\ UNCHANGED <<batch, follow_pos, states, unprocessed, ch, transitions, lexing_table, scanned>>

Step ==
    \/ CollectRegexNodeInfo \/ AddTransition \/ EndSet \/ FillTable
    \/ CallLoadToken \/ ScanCharacter \/ EndScan \/ AbortOnCharacter

Stopped == phase \in {"loaded", "aborted"}

Next == Step \/ (Stopped /\ UNCHANGED vars)

Spec == Init /\ [][Next]_vars /\ WF_vars(Step)

-----------------------------------------------------------------------------
Lexemes == {n \in 1..(Len(text) - offset) :
                \E k \in DOMAIN batch : Matches(batch[k].tree, SubSeq(text, offset + 1, offset + n))}
TokensOf(n) == {batch[k].id : k \in {j \in DOMAIN batch :
                                      Matches(batch[j].tree, SubSeq(text, offset + 1, offset + n))}}
BatchIsPlain == \A k \in DOMAIN batch : IsPlain(batch[k].tree)

IsLongestMatch ==
    \/ Lexemes = {} /\ last_acc = [len |-> 0, id |-> NoToken]
    \/ /\ last_acc.len \in Lexemes
       /\ \A n \in Lexemes : n <= last_acc.len
       /\ last_acc.id \in TokensOf(last_acc.len)
       /\ \A id \in TokensOf(last_acc.len) : last_acc.id <= id

\* LoadToken finds the longest match, and of the tokens that match it the one
\* declared first, for tokens with plain expressions.
FindsTheLongestMatch == phase = "loaded" /\ BatchIsPlain => IsLongestMatch

\* Whatever the expressions, a lexeme belongs to the language of its token.
LexemesMatchTheirToken ==
    phase = "loaded" /\ last_acc.len > 0 => last_acc.id \in TokensOf(last_acc.len)

\* Every position a state passes a character at has followers, so that
\* follow_pos.at finds its key.
FollowersAreFound ==
    Building => \A p \in Passing(Source, ch) : \E f \in follow_pos : f[1] = p

\* The construction ends for every set of tokens, and so does every scan.
Terminates == <>Stopped

\* What the repository says of itself, for every expression and character;
\* README.md lists the configurations that refute it.
FindsEveryToken == phase = "loaded" => IsLongestMatch
NullableIsExact ==
    \A k \in DOMAIN batch : Visit(batch[k].tree, <<k>>).nullable = Nullable(batch[k].tree)
CharactersAreVerified == phase # "aborted"
=============================================================================
