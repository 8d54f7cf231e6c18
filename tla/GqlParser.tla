------------------------------ MODULE GqlParser ------------------------------
(***************************************************************************)
(* The GQL parser at work: the combinators that run a rule of GqlGrammar   *)
(* over a sequence of tokens, and the operator-precedence parser.          *)
(*                                                                         *)
(* A combinator parser is not the grammar it looks like: the first arm or  *)
(* alternative that fits wins, a repetition takes all it can, and nothing  *)
(* is reconsidered later.  Sentences gives the rules their reading as a    *)
(* context-free grammar, without order and without look-ahead; the         *)
(* properties compare the two.                                             *)
(***************************************************************************)
EXTENDS GqlGrammar

CONSTANTS
    Rules,      \* the rules that are referred to by name: the Grammar of GqlGrammar
    Cases       \* name -> [rule, words, max]: the sentences of a rule over words, up to max tokens

VARIABLES case, input, result

vars == <<case, input, result>>

-----------------------------------------------------------------------------
(* The parse tree: the leaves are the tokens; the node of an operator has  *)
(* its operands as children, that of an operand what it was parsed from.   *)

Leaf(k) == [node |-> "leaf", op |-> k, kids |-> <<>>]

Accepted(at, out) == [ok |-> TRUE, at |-> at, out |-> out]

Rejected == [ok |-> FALSE, at |-> 0, out |-> <<>>]

RECURSIVE Yield(_)
Yield(out) == FlattenSeq([k \in 1..Len(out) |->
                 LET n == out[k]
                 IN  CASE n.node = "leaf" -> <<n.op>>
                       [] n.node \in {"operand", "suffix"} -> Yield(n.kids)
                       [] n.node = "prefix" -> <<n.op>> \o Yield(n.kids)
                       [] n.node = "infix" -> Yield(<<n.kids[1]>>) \o <<n.op>> \o Yield(<<n.kids[2]>>)])

-----------------------------------------------------------------------------
(* The combinators *)

\* The kinds of the next tokens, as far as the guards look.
Matches(guards, ts, i) ==
    \A k \in 1..Len(guards) : i + k - 1 <= Len(ts) /\ (guards[k] = {} \/ ts[i + k - 1] \in guards[k])

\* Slip: an operator of the minimal power ends the operand.
BindsTighter(power, min) == power > min

\* An operator continues the operand unless it binds less tightly than min_power.
Binds(power, min) == power >= min

RECURSIVE Run(_, _, _), precedence_impl(_, _, _, _, _)

\* An operand, or a prefix operator and what it applies to, and then the operators that
\* follow, as long as they bind: left is empty at first, and then holds the tree so far.
precedence_impl(p, min, ts, i, left) ==
    LET operand == Run(p[2], ts, i)
        suffix  == Run(p[4], ts, i)
        inner(kind, above) == precedence_impl(p, Power(kind, ts[i]) + above, ts, i + 1, <<>>)
        kind    == CASE left = <<>> /\ operand.ok            -> "operand"
                     [] left = <<>> /\ ~operand.ok           -> "prefix"
                     [] left # <<>> /\ suffix.ok             -> "suffix"
                     [] left # <<>> /\ ~suffix.ok            -> "infix"
        next    == CASE kind = "operand" -> operand
                     [] kind = "suffix"  -> suffix
                     [] kind = "prefix"  -> IF Run(p[3], ts, i).ok THEN inner(kind, 0) ELSE Rejected
                     [] kind = "infix"   -> inner(kind, 1)
        tree    == <<[node |-> kind, op |-> IF kind = "operand" THEN "" ELSE ts[i], kids |-> left \o next.out]>>
    IN  IF left # <<>> /\ (i > Len(ts) \/ ~(suffix.ok \/ Run(p[5], ts, i).ok)) THEN Accepted(i, left)
        ELSE IF left # <<>> /\ ~Binds(Power(kind, ts[i]), min) THEN Accepted(i, left)
        ELSE IF ~next.ok THEN Rejected
        ELSE precedence_impl(p, min, ts, next.at, tree)

\* A sequence runs its parsers one after the other, an alternative takes the first that
\* succeeds, a repetition goes on until its parser fails.
Run(p, ts, i) ==
    CASE p[1] = "tok"  -> IF i <= Len(ts) /\ ts[i] \in p[2] THEN Accepted(i + 1, <<Leaf(ts[i])>>) ELSE Rejected
      [] p[1] = "seq"  -> IF p[2] = <<>> THEN Accepted(i, <<>>)
                          ELSE LET first == Run(Head(p[2]), ts, i)
                                   rest  == Run(Chain(Tail(p[2])), ts, first.at)
                               IN  IF first.ok /\ rest.ok THEN Accepted(rest.at, first.out \o rest.out) ELSE Rejected
      [] p[1] = "alt"  -> IF p[2] = <<>> THEN Rejected
                          ELSE LET first == Run(Head(p[2]), ts, i)
                               IN  IF first.ok THEN first ELSE Run(Alt(Tail(p[2])), ts, i)
      [] p[1] = "opt"  -> LET r == Run(p[2], ts, i) IN IF r.ok THEN r ELSE Accepted(i, <<>>)
      [] p[1] = "many" -> LET r == Run(p[2], ts, i)
                              rest == Run(p, ts, r.at)
                          IN  IF r.ok THEN Accepted(rest.at, r.out \o rest.out) ELSE Accepted(i, <<>>)
      [] p[1] = "peek" -> IF Run(p[2], ts, i).ok THEN Accepted(i, <<>>) ELSE Rejected
      [] p[1] = "arms" -> LET taken == SelectInSeq(p[2], LAMBDA arm : Matches(arm[1], ts, i))
                          IN  IF taken = 0 THEN Rejected ELSE Run(p[2][taken][2], ts, i)
      [] p[1] = "ref"  -> Run(Rules[p[2]], ts, i)
      [] p[1] = "pratt" -> precedence_impl(p, 0, ts, i, <<>>)

\* Every token must be consumed.
parse_tokens(p, ts) == LET r == Run(p, ts, 1) IN IF r.ok /\ r.at = Len(ts) + 1 THEN r ELSE Rejected

-----------------------------------------------------------------------------
(* The rules read as a context-free grammar *)

\* A lower bound of the length of a sentence; a named rule takes at least one token.
RECURSIVE Least(_)
Least(p) ==
    CASE p[1] \in {"tok", "ref", "pratt"} -> 1
      [] p[1] = "seq"  -> FoldSeq(LAMBDA q, sum : sum + Least(q), 0, p[2])
      [] p[1] = "alt"  -> IF p[2] = <<>> THEN 1 ELSE Min({Least(p[2][k]) : k \in DOMAIN p[2]})
      [] p[1] = "arms" -> Min({Least(p[2][k][2]) : k \in DOMAIN p[2]})
      [] p[1] \in {"opt", "many", "peek"} -> 0

\* No input gets past any_path_search: it is called at the keyword ANY, which it leaves there.
Unreachable == {any_path_search}

\* The tokens of S as the grammar means them: an identifier is a name, not a keyword.
Terminals(S) == IF "name" \in S THEN S \ is_non_reserved_word ELSE S

RECURSIVE Sentences(_, _, _), Joined(_, _, _)

\* The sentences of the parsers ps one after the other.
Joined(ps, words, max) ==
    IF ps = <<>> THEN {<<>>}
    ELSE LET rest  == FoldSeq(LAMBDA q, sum : sum + Least(q), 0, Tail(ps))
             first == Sentences(Head(ps), words, max - rest)
         IN  IF first = {} THEN {}
             ELSE LET longest == Max({max - Len(s) : s \in first})
                      tails == Joined(Tail(ps), words, longest)
                  IN  {s \o t : <<s, t>> \in {st \in first \X tails : Len(st[1]) + Len(st[2]) <= max}}

\* The sentences of the parser p with the tokens of words, of at most max tokens.
Sentences(p, words, max) ==
    IF max < Least(p) \/ p \in Unreachable THEN {}
    ELSE CASE p[1] = "tok"  -> {<<k>> : k \in Terminals(p[2]) \cap words}
           [] p[1] = "seq"  -> Joined(p[2], words, max)
           [] p[1] = "alt"  -> UNION {Sentences(p[2][k], words, max) : k \in DOMAIN p[2]}
           [] p[1] = "arms" -> UNION {Sentences(p[2][k][2], words, max) : k \in DOMAIN p[2]}
           [] p[1] = "opt"  -> {<<>>} \cup Sentences(p[2], words, max)
           [] p[1] = "many" -> LET one == Sentences(p[2], words, max) \ {<<>>}
                               IN  {<<>>} \cup UNION {{s \o t : t \in Sentences(p, words, max - Len(s))} : s \in one}
           [] p[1] = "peek" -> {<<>>}
           [] p[1] = "ref"  -> Sentences(Rules[p[2]], words, max)
           [] p[1] = "pratt" -> Sentences(Sep(Chain(<<Many(p[3]), p[2], Many(p[4])>>), p[5]), words, max)

-----------------------------------------------------------------------------

Pending == [ok |-> FALSE, at |-> -1, out |-> <<>>]

Init == \E c \in DOMAIN Cases : /\ case = c
                                /\ input \in Sentences(Cases[c].rule, Cases[c].words, Cases[c].max)
                                /\ result = Pending

Parse == /\ result = Pending
         /\ result' = parse_tokens(Cases[case].rule, input)
         /\ UNCHANGED <<case, input>>

Next == Parse

Spec == Init /\ [][Next]_vars

-----------------------------------------------------------------------------
(* Properties *)

Adjacent(before, after) == \E k \in 1..(Len(input) - 1) : input[k] \in before /\ input[k + 1] \in after

\* Words that are keywords of a rule and identifiers of another, where the other comes first:
\* GRAPH {..} in CREATE GRAPH is taken for the name of a graph type, and a label set that
\* begins with LABEL or LABELS for the alias or the name of the node type.  A delimited
\* identifier at the beginning of the path to a graph is taken for the whole name.
TakenForName ==
    \/ Adjacent({"GRAPH"}, {"{"})
    \/ case = "graph" /\ Head(input) = "dquoted" /\ Len(input) > 1
    \/ Adjacent({"(", "NODE", "VERTEX", "EDGE", "RELATIONSHIP", "TYPE"}, {"LABEL", "LABELS"})

\* Ordered choice, look-ahead and greedy repetition hide no sentence of the grammar: what
\* the rules derive, the parser accepts, but for the cases above.
NothingShadowed == result # Pending /\ ~TakenForName => result.ok

\* The nodes of prefix operators on the right edge of a tree: what follows the tree was
\* refused by each of them.
RECURSIVE RightPrefixes(_)
RightPrefixes(n) == CASE n.node = "prefix" -> {n} \cup RightPrefixes(n.kids[1])
                      [] n.node = "infix" -> RightPrefixes(n.kids[2])
                      [] OTHER -> {}

TopPower(n) == Power(n.node, n.op)

\* The operators on the left edge of a tree, down to the first prefix operator or operand.
RECURSIVE LeftOperators(_)
LeftOperators(n) == IF n.node \in {"infix", "suffix"} THEN {n} \cup LeftOperators(n.kids[1]) ELSE {}

RECURSIVE WellNested(_)
WellNested(n) ==
    /\ \A k \in DOMAIN n.kids : WellNested(n.kids[k])
    /\ n.node \in {"infix", "suffix"} =>
          /\ n.kids[1].node = "infix" => TopPower(n.kids[1]) >= TopPower(n)
          /\ \A q \in RightPrefixes(n.kids[1]) : TopPower(q) > TopPower(n)
    /\ n.node = "infix" => \A m \in LeftOperators(n.kids[2]) : TopPower(m) > TopPower(n)
    /\ n.node = "prefix" => \A m \in LeftOperators(n.kids[1]) : TopPower(m) >= TopPower(n)

\* The tree of an accepted input has the tokens of the input in their order, and every
\* operator in it has operands that bind more tightly (as tightly, on the left): a tree
\* that the binding powers determine.
PrecedenceRespected == result.ok => /\ Yield(result.out) = input
                                    /\ \A k \in DOMAIN result.out : WellNested(result.out[k])
=============================================================================
