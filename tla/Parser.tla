------------------------------- MODULE Parser -------------------------------
(***************************************************************************)
(* src/parser/Parser.cpp: SQL text to tokens to a syntax tree, by          *)
(* recursive descent.  A text is the sequence of its words, where a word   *)
(* is a name, a keyword, a number, a quoted string or a symbol; a position *)
(* in it is pos_.  A parsing function gives the set of what it makes: the  *)
(* node it has built with the position behind it, or nothing if it throws. *)
(*                                                                         *)
(* The branch of parsePrimary for function calls is never reached: a name  *)
(* has been taken for a column before.                                     *)
(***************************************************************************)
EXTENDS Integers, Sequences, AST

CONSTANTS
    Number,    \* number word |-> its value
    Quoted,    \* quoted word |-> the string it stands for
    Names,     \* words that are identifiers
    MaxInt     \* the largest value of std::stoi

Keywords == {"SELECT", "FROM", "WHERE", "INSERT", "INTO", "VALUES", "UPDATE", "SET",
             "DELETE", "CREATE", "TABLE", "BEGIN", "COMMIT", "AND", "OR"}
Symbols == Compare \cup {",", ";", "(", ")", "+", "-", "*", "/", "."}

\* The lexer tells the classes of words apart by their first characters, and a
\* keyword from a name.
ASSUME ParserAssumption ==
    /\ Names \subseteq STRING /\ MaxInt \in Nat /\ \A w \in DOMAIN Number : Number[w] \in Nat
    /\ (Keywords \cup Symbols) \cap (Names \cup DOMAIN Number \cup DOMAIN Quoted) = {}
    /\ Names \cap DOMAIN Number = {}
    /\ DOMAIN Quoted \cap (Names \cup DOMAIN Number) = {}

---------------------------------------------------------------------------
(* Tokens *)

Token(w) ==
    CASE w \in Keywords \cup Symbols -> [type |-> w]
      [] w \in Names -> [type |-> "IDENT", name |-> w]
      [] w \in DOMAIN Number -> [type |-> "INT_LITERAL", int |-> Number[w]]
      [] w \in DOMAIN Quoted -> [type |-> "STR_LITERAL", str |-> Quoted[w]]

\* An unknown character or an unterminated string throws.
Lexes(text) ==
    \A i \in DOMAIN text :
        text[i] \in Keywords \cup Symbols \cup Names \cup DOMAIN Number \cup DOMAIN Quoted

Tokenize(text) == Append([i \in DOMAIN text |-> Token(text[i])], [type |-> "END"])

---------------------------------------------------------------------------
(* Expressions *)

Got(node, pos) == [node |-> node, pos |-> pos]
Is(ts, i, type) == ts[i].type = type

\* expect(type), behind what a parsing function has made.
Expect(ts, made, type) == {Got(r.node, r.pos + 1) : r \in {q \in made : Is(ts, q.pos, type)}}

\* Here and below E[i] is what parseExpression makes of the tokens from i on.
ParsePrimary(ts, E, i) ==
    CASE Is(ts, i, "IDENT") -> {Got(ColumnRef(ts[i].name), i + 1)}
      [] Is(ts, i, "INT_LITERAL") ->
             IF ts[i].int <= MaxInt THEN {Got(Literal("INT", ts[i].int), i + 1)} ELSE {}
      [] Is(ts, i, "STR_LITERAL") -> {Got(Literal("STRING", ts[i].str), i + 1)}
      [] Is(ts, i, "(") -> Expect(ts, E[i + 1], ")")
      [] OTHER -> {}

Operation(op, lhs, rhs) == Got(BinaryOp(op, lhs.node, rhs.node), rhs.pos)

\* Faulty: an operand on the right may not stand in parentheses.
ClimbFlat(ts, E, lhs) ==
    LET op == ts[lhs.pos].type
    IN  IF op \notin Operators THEN {lhs}
        ELSE {Operation(op, lhs, rhs) :
                 rhs \in IF Is(ts, lhs.pos + 1, "(") THEN {} ELSE E[lhs.pos + 1]}

\* The loop of parseExpression.  The right operand is a whole expression whatever the
\* operators: getPrecedence is called and its result not used.  So no operator stands
\* behind it and the loop ends after one turn.
Climb(ts, E, lhs) ==
    LET op == ts[lhs.pos].type
    IN  IF op \notin Operators THEN {lhs}
        ELSE {Operation(op, lhs, rhs) : rhs \in E[lhs.pos + 1]}

ParseExpression(ts) ==
    LET E[i \in 1..Len(ts)] == UNION {Climb(ts, E, lhs) : lhs \in ParsePrimary(ts, E, i)}
    IN  E

---------------------------------------------------------------------------
(* Lists: do item while match(COMMA) *)

\* The length of a STRING column; 0 for any other and for a STRING without one.
ColumnDefinition(ts, i) ==
    LET Def(n) == [name |-> ts[i].name, type |-> ts[i + 1].name, length |-> n]
    IN  IF ~(Is(ts, i, "IDENT") /\ Is(ts, i + 1, "IDENT")) THEN {}
        ELSE IF ts[i + 1].name # "STRING" \/ ~Is(ts, i + 2, "(") THEN {Got(Def(0), i + 2)}
        ELSE IF Is(ts, i + 3, "INT_LITERAL") /\ ts[i + 3].int <= MaxInt /\ Is(ts, i + 4, ")")
             THEN {Got(Def(ts[i + 3].int), i + 5)}
             ELSE {}

Assignment(ts, i) ==
    IF ~(Is(ts, i, "IDENT") /\ Is(ts, i + 1, "=")) THEN {}
    ELSE {Got([column |-> ts[i].name, expr |-> e.node], e.pos) : e \in ParseExpression(ts)[i + 2]}

Item(what, ts, i) ==
    CASE what = "expression" -> ParseExpression(ts)[i]
      [] what = "projection" ->
             IF Is(ts, i, "*") THEN {Got(ColumnRef("*"), i + 1)} ELSE ParseExpression(ts)[i]
      [] what = "name" -> IF Is(ts, i, "IDENT") THEN {Got(ts[i].name, i + 1)} ELSE {}
      [] what = "assignment" -> Assignment(ts, i)
      [] what = "definition" -> ColumnDefinition(ts, i)

\* The loop, after one turn; L[i] is what it makes of the tokens from i on.
Onward(ts, L, first) ==
    IF ~Is(ts, first.pos, ",") THEN {Got(<<first.node>>, first.pos)}
    ELSE {Got(<<first.node>> \o more.node, more.pos) : more \in L[first.pos + 1]}

Items(what, ts) ==
    LET L[i \in 1..Len(ts)] == UNION {Onward(ts, L, first) : first \in Item(what, ts, i)}
    IN  L

Enclosed(what, ts, i) ==
    IF Is(ts, i, "(") THEN Expect(ts, Items(what, ts)[i + 1], ")") ELSE {}

OptionalWhere(ts, i) ==
    IF Is(ts, i, "WHERE") THEN ParseExpression(ts)[i + 1] ELSE {Got(NoWhere, i)}

---------------------------------------------------------------------------
(* Statements *)

\* F behind whatever has been made.
Then(made, F(_)) == UNION {F(r) : r \in made}

ParseSelect(ts) ==
    Then(Expect(ts, Items("projection", ts)[2], "FROM"), LAMBDA list :
    Then(Items("name", ts)[list.pos], LAMBDA from :
         {Got([type |-> "SELECT", select |-> list.node, tables |-> from.node,
               where |-> where.node], where.pos) : where \in OptionalWhere(ts, from.pos)}))

OptionalColumns(ts, i) == IF Is(ts, i, "(") THEN Enclosed("name", ts, i) ELSE {Got(<<>>, i)}

ParseInsert(ts) ==
    IF ~Is(ts, 2, "INTO") THEN {}
    ELSE Then(Item("name", ts, 3), LAMBDA table :
         Then(Expect(ts, OptionalColumns(ts, table.pos), "VALUES"), LAMBDA columns :
              {Got([type |-> "INSERT", table |-> table.node, columns |-> columns.node,
                    values |-> values.node], values.pos) :
                  values \in Enclosed("expression", ts, columns.pos)}))

ParseUpdate(ts) ==
    Then(Expect(ts, Item("name", ts, 2), "SET"), LAMBDA table :
    Then(Items("assignment", ts)[table.pos], LAMBDA set :
         {Got([type |-> "UPDATE", table |-> table.node, assignments |-> set.node,
               where |-> where.node], where.pos) : where \in OptionalWhere(ts, set.pos)}))

ParseDelete(ts) ==
    IF ~Is(ts, 2, "FROM") THEN {}
    ELSE Then(Item("name", ts, 3), LAMBDA from :
              {Got([type |-> "DELETE", table |-> from.node, where |-> where.node], where.pos) :
                  where \in OptionalWhere(ts, from.pos)})

ParseCreate(ts) ==
    IF ~Is(ts, 2, "TABLE") THEN {}
    ELSE Then(Item("name", ts, 3), LAMBDA table :
              {Got([type |-> "CREATE_TABLE", table |-> table.node, columns |-> columns.node],
                   columns.pos) : columns \in Enclosed("definition", ts, table.pos)})

\* What follows a statement is not looked at, with or without a semicolon between.
ParseStatement(ts) ==
    CASE Is(ts, 1, "SELECT") -> ParseSelect(ts)
      [] Is(ts, 1, "INSERT") -> ParseInsert(ts)
      [] Is(ts, 1, "UPDATE") -> ParseUpdate(ts)
      [] Is(ts, 1, "DELETE") -> ParseDelete(ts)
      [] Is(ts, 1, "CREATE") -> ParseCreate(ts)
      [] Is(ts, 1, "BEGIN") -> {Got([type |-> "BEGIN"], 2)}
      [] Is(ts, 1, "COMMIT") -> {Got([type |-> "COMMIT"], 2)}
      [] OTHER -> {}

Parse(text) == IF Lexes(text) THEN ParseStatement(Tokenize(text)) ELSE {}
=============================================================================
