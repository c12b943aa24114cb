----------------------------- MODULE MCAlgebra ------------------------------
(***************************************************************************)
(* Graphs, parameters, expressions and plans are apart: a behaviour is     *)
(* about one of them, the focus.                                           *)
(***************************************************************************)
EXTENDS AlgebraProperties, AuthoringProperties

CONSTANT MaxIds

VARIABLE focus

vars == <<focus, walk_vars, parameters, expression_vars, authoring_vars>>

AGraph == CHOOSE g \in GraphsToWalk : TRUE
APlan  == Blank(CHOOSE d \in Declarations : TRUE)

Init == /\ focus \in {"graph", "parameter", "expression", "plan"}
        /\ InitGraph
        /\ focus # "graph" => graph = AGraph /\ form = "steps"
        /\ InitParameters
        /\ InitExpression
        /\ InitAuthoring
        /\ focus # "plan" => draft = APlan

OnGraph      == /\ focus = "graph"
                /\ NextGraph
                /\ UNCHANGED <<focus, parameters, expression_vars, authoring_vars>>
OnParameter  == /\ focus = "parameter"
                /\ NextParameters
                /\ UNCHANGED <<focus, walk_vars, expression_vars, authoring_vars>>
OnExpression == /\ focus = "expression"
                /\ NextExpression
                /\ UNCHANGED <<focus, walk_vars, parameters, authoring_vars>>
OnPlan       == /\ focus = "plan"
                /\ NextAuthoring
                /\ UNCHANGED <<focus, walk_vars, parameters, expression_vars>>

Next == OnGraph \/ OnParameter \/ OnExpression \/ OnPlan
Spec == Init /\ [][Next]_vars

-----------------------------------------------------------------------------

\* Every graph over the ids, in their order, without loops at a step; and the
\* lists of two and three steps with ids and dependencies that may be wrong.
Listed(ids, Lists) == {[i \in DOMAIN ids |-> [id |-> ids[i], deps |-> d[i]]] :
                         d \in [DOMAIN ids -> Lists]}
Sorted == {SetToSortSeq(S, <) : S \in SUBSET (1..MaxIds)}
MCGraphsToWalk ==
  {<<>>}
  \cup {g \in Listed([i \in 1..MaxIds |-> i], Sorted) : \A i \in DOMAIN g : i \notin ToSet(g[i].deps)}
  \cup UNION {Listed(ids, {<<>>} \cup {<<d>> : d \in 1..3} \cup ((1..3) \X (1..3))) :
                ids \in {<<1, 2>>, <<2, 1>>, <<1, 1>>}}
  \cup UNION {Listed(ids, {<<>>} \cup {<<d>> : d \in 1..3} \cup {<<3, 3>>, <<1, 3>>}) :
                ids \in {<<2, 3, 1>>, <<1, 3, 1>>}}

-----------------------------------------------------------------------------

MCShapes ==
  {[shape |-> "range", min |-> r[1], max |-> r[2]] :
     r \in {<<-2, 1>>, <<1, -2>>, <<Min(Ints), Max(Ints)>>}}
  \cup {[shape |-> "discrete", values |-> S] : S \in {{}, {-1, 2}}}
  \cup {[shape |-> "double_range", low |-> r[1], high |-> r[2]] :
          r \in {<<0, 1>>, <<1, 0>>, <<1, 1>>, <<-1, 2>>, <<NaN, 1>>, <<0, Infinite>>}}
  \cup {[shape |-> "boolean"], [shape |-> "any"], [shape |-> "regex", matches |-> {"a"}]}
  \cup {[shape |-> "fixed", values |-> s, max_selections |-> n] :
          s \in {<<>>, <<"x", "y">>}, n \in {0, 2}}
  \cup {[shape |-> "external", max_selections |-> n] : n \in 0..1}

Simple == {Always, Never}
MCLeaves ==
  [integer   |-> Simple \cup {[op |-> "min", n |-> 1], [op |-> "max", n |-> 0],
                 [op |-> "range", min |-> -1, max |-> 1], [op |-> "in_set", values |-> {-2, 1}],
                 [op |-> "not_in_set", values |-> {0}], [op |-> "multiple", n |-> 2],
                 [op |-> "multiple", n |-> 0]},
   double    |-> Simple \cup {[op |-> "min", n |-> 1], [op |-> "max", n |-> 0], [op |-> "range", min |-> 0, max |-> 1]},
   boolean   |-> Simple \cup {[op |-> "eq_to", b |-> TRUE]},
   string    |-> Simple \cup {[op |-> "regex", matches |-> {"a"}], [op |-> "non_empty"],
                 [op |-> "in_set", values |-> {"", "b"}], [op |-> "not_in_set", values |-> {"b"}],
                 [op |-> "length_range", min |-> 1, max |-> 1]},
   selection |-> Simple \cup {[op |-> o, items |-> {"x"}] :
                                o \in {"require_all", "require_any", "forbid_all"}}
                 \cup {[op |-> o, n |-> 1] : o \in {"min_size", "max_size"}}]

MCOthers ==
  [integer |-> Simple \cup {[op |-> "min", n |-> 1]}, double |-> Simple \cup {[op |-> "min", n |-> 1]},
   boolean |-> {}, string |-> Simple \cup {[op |-> "non_empty"]},
   selection |-> Simple \cup {[op |-> "min_size", n |-> 1]}]

MCDefaults ==
  [integer |-> Integers({-2, 1}), double |-> {[double |-> x] : x \in {0, 2, NaN}},
   boolean |-> {[boolean |-> b] : b \in BOOLEAN}, string |-> {[string |-> s] : s \in {"", "a"}},
   selection |-> {[selection |-> S] : S \in {{}, {"x"}, {"x", "z"}}}]

-----------------------------------------------------------------------------

MCBindings == [n |-> Whole(3), s |-> [selection |-> {"x"}]]
Literals   == {Literal(v) : v \in {Whole(Min(Ints)), Whole(-1), Whole(0), Whole(2), SomeDouble,
                                   Truth(TRUE), Truth(FALSE), [string |-> "ab"]}}
MCOperands == Literals \cup {Reference(name) : name \in {"n", "s", "absent"}}
MCPartners == {Literal(Whole(2)), Literal(Truth(FALSE)), Reference("absent")}

-----------------------------------------------------------------------------

Hand(of, v, content) == Value(of, v, content, "hand")
Number(of, n) == Hand(of, "integer", n)
Numbers(s) == [i \in DOMAIN s |-> Number("a", s[i])]
Picks(s) == [i \in DOMAIN s |-> Hand("s", "selection", s[i])]

Declared(name, v, default, derived) ==
  [name |-> name, kind |-> v, default |-> default, derived |-> derived]

\* The first element with and without a default, and with a derived parameter.
MCDeclarations ==
  {<<<<Declared("a", "integer", default, FALSE)>> \o more,
     <<Declared("s", "selection", Picks(<<<<"u">>>>)[1], FALSE),
       Declared("b", "double", Hand("b", "double", "nan"), FALSE)>>>> :
     default \in {NoValue, Number("a", 0)},
     more \in {<<>>, <<Declared("d", "integer", NoValue, TRUE)>>}}

AxisOver(name, e, q, values) ==
  [name |-> name, element |-> e, parameter |-> q, values |-> values, boundary_values |-> NoValue]

\* Six that may go together, then seven that are wrong in a way of their own.
MCAxes ==
  {AxisOver("x", 1, "a", Numbers(<<1, 2>>)), AxisOver("y", 1, "a", Numbers(<<2, 3>>)),
   AxisOver("y", 2, "s", Picks(<<<<"u">>, <<>>, <<"u", "w">>>>)),
   AxisOver("x", 2, "b", <<Hand("b", "double", "zero")>>),
   AxisOver("z", 2, "b", <<Hand("b", "double", "nan"), Hand("b", "double", "zero")>>),
   [AxisOver("z", 2, "s", Picks(<<<<"u", "w">>, <<>>>>))
      EXCEPT !.boundary_values = Picks(<<<<"w", "u">>>>)],
   AxisOver("y", 2, "s", Picks(<<<<"u", "w">>, <<"w", "u">>>>)),
   AxisOver("x", 2, "b", <<Hand("b", "double", "nan"), Hand("b", "double", "other nan")>>),
   AxisOver("z", 2, "s", <<>>), AxisOver("z", 2, "s", Numbers(<<1>>)),
   AxisOver("z", 1, "d", <<Number("d", 1)>>), AxisOver("z", 3, "a", Numbers(<<1>>)),
   [AxisOver("z", 1, "a", Numbers(<<1, 2>>)) EXCEPT !.boundary_values = Numbers(<<3>>)]}

MCOrders == {<<"x", "y">>, <<"y", "x">>, <<"y", "z">>, <<"z", "y">>, <<"x", "x">>, <<"x">>}
MCEntries == {Literally(Number("a", 4)), Literally(Value("a", "integer", 4, "file")),
              Token("known"), Token("two keys")}
MCCoordinates == {<<1, "a">>, <<1, "d">>, <<2, "s">>}
MCHosts == {NoHost, [known |-> Value("a", "integer", 5, "host")]}
=============================================================================
