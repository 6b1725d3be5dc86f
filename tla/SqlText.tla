------------------------------ MODULE SqlText ------------------------------
(***************************************************************************)
(* References for Parser.  A phrase is a sequence of words with the node   *)
(* it stands for.  Sql is what the parser implements: operators group to   *)
(* the right, whatever getPrecedence says of them, and a column has no     *)
(* table before its name.  PlainSql is the part of it whose meaning no     *)
(* rule of precedence decides: there every operand that is itself an       *)
(* operation stands in parentheses.                                        *)
(***************************************************************************)
EXTENDS Parser, SequencesExt

Phrase(words, node) == [words |-> words, node |-> node]
Nowhere == Phrase(<<>>, NoWhere)

Enclose(words) == <<"(">> \o words \o <<")">>
Parenthesized(p) == Phrase(Enclose(p.words), p.node)

\* Phrases with commas between them: the list of what they stand for.
Listed(ps) ==
    Phrase(FlattenSeq([i \in DOMAIN ps |-> IF i = 1 THEN ps[i].words ELSE <<",">> \o ps[i].words]),
           [i \in DOMAIN ps |-> ps[i].node])
Lists(P) == {Listed(ps) : ps \in Seq(P) \ {<<>>}}

---------------------------------------------------------------------------
(* Expressions *)

Name(w) == Phrase(<<w>>, w)
Column(w) == Phrase(<<w>>, ColumnRef(w))
Integer(w) == Phrase(<<w>>, Literal("INT", Number[w]))
String(w) == Phrase(<<w>>, Literal("STRING", Quoted[w]))
Applied(op, l, r) == Phrase(l.words \o <<op>> \o r.words, BinaryOp(op, l.node, r.node))

Fitting == {w \in DOMAIN Number : Number[w] <= MaxInt}
Atoms ==
    {Column(w) : w \in Names} \cup {Integer(w) : w \in Fitting} \cup {String(w) : w \in DOMAIN Quoted}
Primaries(P) == Atoms \cup {Parenthesized(p) : p \in P}

\* Expressions by the depth to which operators and parentheses are nested.
Nested[d \in Nat] ==
    IF d = 0 THEN Atoms
    ELSE LET P == Nested[d - 1]
         IN  Primaries(P) \cup
             {Applied(op, l, r) : op \in Operators, l \in Primaries(P), r \in P}
Expressions == UNION {Nested[d] : d \in Nat}

\* The least set with the atoms, the parenthesized and the operations on two of these.
HasOperations(P) ==
    Primaries(P) \cup {Applied(op, l, r) : op \in Operators, l \in Primaries(P), r \in Primaries(P)}
        \subseteq P
PlainExpressions ==
    {p \in Expressions : \A P \in SUBSET Expressions : HasOperations(P) => p \in P}

---------------------------------------------------------------------------
(* Statements, over a set E of expressions *)

NameList == Lists({Name(w) : w \in Names})
Projection(E) == {Column("*")} \cup E
Where(p) == Phrase(<<"WHERE">> \o p.words, p.node)

Select(list, from, where) ==
    Phrase(<<"SELECT">> \o list.words \o <<"FROM">> \o from.words \o where.words,
           [type |-> "SELECT", select |-> list.node, tables |-> from.node, where |-> where.node])

\* columns is in parentheses, or there are none; values is.
Insert(table, columns, values) ==
    Phrase(<<"INSERT", "INTO", table>> \o columns.words \o <<"VALUES">> \o values.words,
           [type |-> "INSERT", table |-> table, columns |-> columns.node, values |-> values.node])

Assigned(c, p) == Phrase(<<c, "=">> \o p.words, [column |-> c, expr |-> p.node])
Assignments(E) == {Assigned(c, p) : c \in Names, p \in E}
Update(table, set, where) ==
    Phrase(<<"UPDATE", table, "SET">> \o set.words \o where.words,
           [type |-> "UPDATE", table |-> table, assignments |-> set.node, where |-> where.node])

Delete(table, where) ==
    Phrase(<<"DELETE", "FROM", table>> \o where.words,
           [type |-> "DELETE", table |-> table, where |-> where.node])

Defined(c, t) == Phrase(<<c, t>>, [name |-> c, type |-> t, length |-> 0])
Sized(c, t, w) ==
    Phrase(<<c, t>> \o Enclose(<<w>>), [name |-> c, type |-> t, length |-> Number[w]])
Definitions ==
    {Defined(c, t) : c \in Names, t \in Names} \cup
    {Sized(c, t, w) : c \in Names, t \in Names \cap {"STRING"}, w \in Fitting}
Create(table, columns) ==
    Phrase(<<"CREATE", "TABLE", table>> \o columns.words,
           [type |-> "CREATE_TABLE", table |-> table, columns |-> columns.node])

Command(w) == Phrase(<<w>>, [type |-> w])

InParentheses(P) == {Parenthesized(p) : p \in P}
Conditions(E) == {Where(p) : p \in E}
Selects(E, W) == {Select(l, f, w) : l \in Lists(Projection(E)), f \in NameList, w \in W}
Inserts(E) ==
    {Insert(t, c, v) : t \in Names, c \in {Phrase(<<>>, <<>>)} \cup InParentheses(NameList),
                       v \in InParentheses(Lists(E))}
Updates(E, W) == {Update(t, s, w) : t \in Names, s \in Lists(Assignments(E)), w \in W}
Deletes(W) == {Delete(t, w) : t \in Names, w \in W}
Creates == {Create(t, c) : t \in Names, c \in InParentheses(Lists(Definitions))}
Commands == {Command("BEGIN"), Command("COMMIT")}

\* What may stand behind a sentence is anything that cannot be taken for more of it.
Words == Keywords \cup Symbols \cup Names \cup DOMAIN Number \cup DOMAIN Quoted
Tails(more) == {t \in Seq(Words) : t = <<>> \/ t[1] \notin more}
Followed(P, more) == {Phrase(p.words \o t, p.node) : p \in P, t \in Tails(more)}

Sentences(E) ==
    Followed(Inserts(E) \cup Creates \cup Commands, {}) \cup
    Followed(Selects(E, Conditions(E)) \cup Updates(E, Conditions(E)) \cup Deletes(Conditions(E)),
             Operators) \cup
    Followed(Selects(E, {Nowhere}), {",", "WHERE"}) \cup
    Followed(Updates(E, {Nowhere}), Operators \cup {",", "WHERE"}) \cup
    Followed(Deletes({Nowhere}), {"WHERE"})

\* The texts that are read, with what is made of them, and those that are beyond dispute.
Sql == Sentences(Expressions)
PlainSql == Sentences(PlainExpressions)
=============================================================================
