----------------------------- MODULE MCPlanner -----------------------------
(* Two people, two companies; a second graph numbers its labels otherwise. *)
(* The queries combine paths of up to two edges, unnamed, repeated and     *)
(* unlabelled elements, projections and orders.                            *)
EXTENDS Planner

Person  == <<[name |-> <<"x">>, ty |-> <<"Int8">>], [name |-> <<"emb">>, ty |-> <<"Vector">>],
             [name |-> <<"b", "x">>, ty |-> <<"Int8">>]>>
Company == <<[name |-> <<"x">>, ty |-> <<"Int8">>]>>

GraphG == [ids   |-> [P |-> 1, C |-> 2, W |-> 3, F |-> 4],
           types |-> <<Person, Company>>,
           label |-> <<1, 1, 2, 2>>,
           store |-> << <<7, 2, 8>>, <<7, 1, 9>>, <<5>>, <<Null>> >>,
           out   |-> << << <<11, 3, 3>>, <<12, 2, 4>> >>, << <<13, 3, 3>>, <<14, 4, 3>> >>, <<>>, <<>> >>,
           indexes |-> {<<1, 2>>}]
GraphH == [GraphG EXCEPT !.ids = [C |-> 1, P |-> 2, W |-> 3, F |-> 4], !.types = <<Company, Person>>]

GraphsC == [g |-> GraphG, h |-> GraphH]

ProceduresC == [list |-> [parameters |-> << <<"Int8">> >>, schema |-> <<Field(<<"n">>, <<"Int8">>)>>,
                          rows |-> << <<4>>, <<6>> >>],
                run  |-> [parameters |-> <<>>, schema |-> None, rows |-> <<>>]]
MinIntC == -99
VariablesC == << <<"a">>, <<"a", "b">>, <<"a", "emb">>, <<"a", "x">>, <<"b">>, <<"c">>, <<"e">> >>

L(n) == <<"label", n>>
Labels == {None, L("P"), L("C"), <<"or", L("P"), L("C")>>, <<"and", L("P"), L("C")>>, <<"any">>,
           <<"and", <<"or", L("P"), L("C")>>, L("P")>>, <<"not", L("P")>>, L("Q")}
El(kind, var, label) ==
    [kind |-> kind, dir |-> "right", var |-> var, label |-> label, supported |-> TRUE]

E(var, label) == El("edge", var, label)
N(var, label) == El("node", var, label)
EdgeEls == {E(<<"e">>, L("W")), E(None, <<"or", L("W"), L("F")>>), E(<<"e">>, None),
            [E(<<"e">>, L("F")) EXCEPT !.dir = "left"],
            [E(<<"e">>, None) EXCEPT !.supported = FALSE]}
\* The last two sets have variables that are also the names of property columns.
Paths == {<<>>} \cup {<<N(v, l)>> : v \in {<<"a">>, None}, l \in Labels}
         \cup {<<N(<<"a">>, l), e, N(<<"b">>, k)>> :
               l \in {None, L("P")}, e \in EdgeEls, k \in {None, L("C"), <<"or", L("C"), L("P")>>}}
         \cup {<<N(<<"a">>, L("P")), E(None, L("F")), N(v, L("P")), E(None, L("W")), N(<<"b">>, L("C"))>> :
               v \in {<<"a">>, <<"c">>}}
         \cup {<<N(<<"a">>, L("P")), E(v, L("W")), N(<<"b">>, L("C"))>> : v \in {<<"a", "x">>, <<"a", "emb">>}}
         \cup {<<N(<<"a">>, L("P")), E(<<"e">>, L("W")), N(<<"a", "b">>, L("C"))>>}

Item(e, alias) == [expr |-> e, alias |-> alias]
Var(v)         == <<"var", v>>
Prop(v, p)     == <<"prop", v, p>>
Distance(v, p) == <<"distance", v, p>>
Projections == {None,
    <<Item(Var(<<"a">>), None)>>,
    <<Item(Var(<<"a">>), <<"y">>), Item(Var(<<"b">>), None), Item(Prop(<<"b">>, <<"x">>), None)>>,
    <<Item(Var(<<"e">>), None), Item(Prop(<<"a">>, <<"x">>), <<"z">>)>>,
    <<Item(Prop(<<"a">>, <<"x">>), None), Item(Distance(<<"a">>, <<"emb">>), <<"z">>)>>,
    <<Item(Prop(<<"b">>, <<"x">>), None), Item(Distance(<<"a">>, <<"emb">>), <<"z">>)>>,
    <<Item(Prop(<<"a">>, <<"b", "x">>), None), Item(Prop(<<"a", "b">>, <<"x">>), <<"z">>)>>,
    <<Item(Var(<<"a">>), None), Item(Prop(<<"a">>, <<"x">>), <<"z">>)>>,
    <<Item(<<"value">>, <<"z">>)>>}

By(e, d) == <<[expr |-> e, descending |-> d, nulls_first |-> ~d]>>
Pages == {[order |-> <<>>, offset |-> None, limit |-> None, approximate |-> FALSE],
          [order |-> <<>>, offset |-> 1, limit |-> 1, approximate |-> FALSE],
          [order |-> By(Prop(<<"a">>, <<"x">>), FALSE), offset |-> None, limit |-> None, approximate |-> FALSE]}
         \cup {[order |-> By(Var(<<"z">>), d), offset |-> o, limit |-> n, approximate |-> ap] :
               d \in BOOLEAN, o \in {None, 1}, n \in {None, 0, 1, 2}, ap \in BOOLEAN}

Query(u, p, y, w, c, i, g) ==
    [use |-> u, match |-> p, yield |-> y, where |-> w, call |-> c, items |-> i,
     order |-> g.order, offset |-> g.offset, limit |-> g.limit, approximate |-> g.approximate]

Page == CHOOSE g \in Pages : g.order = <<>> /\ g.offset = None
CallOf(n, y) == [name |-> n, args |-> << <<"Int8">> >>, yield |-> y]
Yield(n) == <<[name |-> <<n>>, alias |-> <<"z">>]>>

QueriesC ==
    {Query(None, p, <<>>, FALSE, None, i, g) : p \in Paths, i \in Projections, g \in Pages}
    \cup {Query(u, p, y, w, None, i, Page) : u \in {"g", "h"}, p \in {q \in Paths : Len(q) = 1},
          y \in {<<>>, << <<"a">> >>, << <<"b">> >>}, w \in BOOLEAN, i \in Projections}
    \cup {Query(None, <<>>, <<>>, FALSE, CallOf(n, y), i, g) : n \in {"list", "run", "none"},
          y \in {None, Yield("n"), Yield("m")}, i \in {None, <<Item(Var(<<"z">>), None)>>}, g \in Pages}
=============================================================================
