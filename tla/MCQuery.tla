------------------------------ MODULE MCQuery ------------------------------
(***************************************************************************)
(* Three small tables: t of an INT and a STRING column, u and w of one INT  *)
(* column each, where t and u share the name of a column; integers and     *)
(* strings of two values, up to two rows a table, and statements of every  *)
(* kind, SELECTs with one, two and three tables, with and without WHERE.   *)
(* MaxInt stands for 2^31 - 1 and the word 9 for a number beyond it.       *)
(***************************************************************************)
EXTENDS Query, SqlText

Col(n, ty) == [name |-> n, type |-> ty, length |-> 0]
MCSchema == [t |-> <<Col("a", "INT"), Col("s", "STRING")>>,
             u |-> <<Col("a", "INT")>>,
             w |-> <<Col("b", "INT")>>]
IntOf(n) == [type |-> "INT", val |-> n]
StrOf(n) == [type |-> "STRING", val |-> n]
MCValues == {IntOf(0), IntOf(1), StrOf(0), StrOf(1)}
MCNumber == [w0 |-> 0, w1 |-> 1, w2 |-> 2, w9 |-> 9]
MCQuoted == [q0 |-> 0, q1 |-> 1]
MCNames == {"t", "u", "w", "x", "a", "b", "s", "INT", "STRING"}

Ref(c) == Column(c)
Zero == Integer("w0")
IntOne == Integer("w1")
StrZero == String("q0")
\* With parentheses around an operand that is itself an operation.
Operand(p) == IF IsAtom(p.node) THEN p ELSE Parenthesized(p)
Op(o, l, r) == Applied(o, Operand(l), Operand(r))
List(words) == Listed([i \in DOMAIN words |-> Name(words[i])])
Asked(from, where, list) == Select(Listed(list), List(from), where)
Inserted(into, columns, values) ==
    Insert(into, IF columns = <<>> THEN Phrase(<<>>, <<>>) ELSE Parenthesized(List(columns)),
           Parenthesized(Listed(values)))

Queries ==
    { Asked(<<"t">>, Nowhere, <<Ref("s"), Ref("a")>>),
      Asked(<<"t">>, Where(Op("<=", Ref("a"), Zero)), <<Ref("s")>>),
      Asked(<<"t">>, Where(Op("AND", Ref("a"), Ref("s"))), <<Ref("a")>>),
      Asked(<<"t">>, Where(Op("OR", Ref("a"), IntOne)), <<Op("AND", Ref("a"), Ref("s"))>>),
      Asked(<<"t">>, Where(Op("=", Ref("a"), Ref("s"))), <<Ref("a")>>),
      Asked(<<"t">>, Where(Ref("s")), <<Ref("*"), Zero>>),
      Asked(<<"t">>, Where(Op("=", Ref("a"), Op("AND", Zero, Ref("a")))), <<Ref("a")>>),
      Asked(<<"t">>, Where(Op("AND", Op("=", Ref("a"), Zero), Op("=", Ref("s"), StrZero))),
            <<Ref("*")>>),
      Asked(<<"t">>, Where(Parenthesized(Op("<", Parenthesized(Ref("a")), IntOne))), <<Ref("s")>>),
      Asked(<<"t">>, Nowhere, <<Ref("b")>>),
      Asked(<<"x">>, Nowhere, <<Ref("a")>>),
      Asked(<<"t", "u">>, Where(Ref("s")), <<Ref("a")>>),
      Asked(<<"t", "u">>, Where(Op("<", Ref("a"), IntOne)), <<Ref("s")>>),
      Asked(<<"u", "t">>, Where(Op("=", Ref("a"), IntOne)), <<Ref("a"), Ref("s")>>),
      Asked(<<"u", "u">>, Nowhere, <<Ref("a")>>),
      Asked(<<"u", "w">>, Nowhere, <<Ref("b"), Ref("*")>>),
      Asked(<<"u", "w">>, Where(Op("<>", Ref("a"), Ref("b"))), <<Ref("a")>>),
      Asked(<<"w", "u", "u">>, Nowhere, <<Ref("b"), Ref("a")>>) }

Changes ==
    { Inserted("t", <<>>, <<Zero, StrZero>>), Inserted("t", <<"s", "a">>, <<StrZero, Zero>>),
      Inserted("t", <<"s">>, <<Zero>>), Inserted("u", <<>>, <<Ref("a")>>),
      Inserted("t", <<>>, <<Zero>>),
      Update("t", Listed(<<Assigned("a", Zero), Assigned("s", Ref("s"))>>),
             Where(Op("=", Ref("a"), IntOne))),
      Update("t", Listed(<<Assigned("s", Zero)>>), Nowhere),
      Update("u", Listed(<<Assigned("s", Zero)>>), Nowhere),
      Delete("u", Nowhere), Delete("t", Where(Op("<", Ref("a"), StrZero))), Delete("x", Nowhere),
      Create("x", Parenthesized(Listed(<<Defined("a", "INT"), Sized("s", "STRING", "w2")>>))),
      Command("BEGIN"), Command("COMMIT") }

MCStatements == Queries \cup Changes
MCTails == {<<>>, <<";">>, <<"+", "w1">>, <<";", "DELETE">>}
MCMalformed ==
    { <<"SELECT", "a">>, <<"SELECT", "FROM", "t">>, <<"SELECT", "(", "a", "FROM", "t">>,
      <<"SELECT", "a", ",", "FROM", "t">>, <<"SELECT", "a", "FROM", "t", ",">>,
      <<"SELECT", "s", "(", "a", ")", "FROM", "t">>,
      <<"SELECT", "a", "FROM", "t", "WHERE", "a", "=">>,
      <<"SELECT", "a", "FROM", "t", "WHERE", "a", "=", "-", "w1">>,
      <<"SELECT", "w9", "FROM", "t">>, <<"SELECT", "?", "FROM", "t">>,
      <<"INSERT", "t", "VALUES", "(", "w0", ")">>,
      <<"INSERT", "INTO", "t", "(", ")", "VALUES", "(", "w0", ")">>,
      <<"INSERT", "INTO", "t", "VALUES", "(", "w0">>,
      <<"UPDATE", "t", "SET", "a", "<", "w0">>, <<"DELETE", "t">>,
      <<"CREATE", "TABLE", "x", "(", "a", ")">>,
      <<"CREATE", "TABLE", "x", "(", "s", "STRING", "(", "a", ")", ")">>,
      <<"CREATE", "TABLE", "x", "(", "s", "STRING", "(", "w9", ")", ")">>,
      <<"ROLLBACK">>, <<>> }

MCSent ==
    {[text |-> s.words \o tail, meant |-> s.node] : s \in MCStatements, tail \in MCTails}
        \cup {[text |-> x, meant |-> Nothing] : x \in MCMalformed}

\* queryOptimizerAndPlanner/tests/main.cpp:38-40 over these tables; Binder::qualifyColumn
\* has what it means by a column with a table before it.
Of(t, c) == Phrase(<<t, ".", c>>, Qualified(t, c))
JoinTest ==
    Asked(<<"t", "u">>, Where(Op("=", Of("t", "a"), Of("u", "a"))), <<Of("t", "s"), Of("u", "a")>>)
MCJoinTest == {[text |-> Append(JoinTest.words, ";"), meant |-> JoinTest.node]}
=============================================================================
