------------------------------- MODULE Binder -------------------------------
(***************************************************************************)
(* src/binder/Binder.cpp: resolves the names of a parsed statement against *)
(* the catalog and checks its types.  Accepts(s) says that bind() does not *)
(* throw, Bound(s) is what it makes of s, where a resolved column has its  *)
(* table.                                                                  *)
(***************************************************************************)
EXTENDS Integers, Sequences, AST, SequencesExt

CONSTANT Schema    \* table |-> the sequence of its columns: name, type, length
ASSUME SchemaAssumption ==
    \A t \in DOMAIN Schema :
        Schema[t] \in Seq([name : STRING, type : STRING, length : Nat])

HasTable(t) == t \in DOMAIN Schema

\* Catalog::getColumnInfo throws unless this holds.
HasColumn(t, c) == HasTable(t) /\ \E i \in DOMAIN Schema[t] : Schema[t][i].name = c
ColumnInfo(t, c) == CHOOSE col \in Range(Schema[t]) : col.name = c
ColumnIndex(t, c) == CHOOSE i \in DOMAIN Schema[t] : Schema[t][i].name = c

---------------------------------------------------------------------------
(* Expressions *)

\* An unqualified name goes to the first table that has it: the "ambiguous
\* column" exception is caught by the loop that throws it.
Qualify(c, from) == from[SelectInSeq(from, LAMBDA t : HasColumn(t, c))]
Qualified(t, c) == [type |-> "COLUMN_REF", table |-> t, column |-> c]

Resolve(e, from) ==
    LET R(a) == IF a.type = "COLUMN_REF" THEN Qualified(Qualify(a.column, from), a.column) ELSE a
    IN  IF IsAtom(e) THEN R(e) ELSE BinaryOp(e.op, R(e.left), R(e.right))

TypeOf(e, from) ==
    IF e.type = "LITERAL" THEN e.value.type
    ELSE ColumnInfo(Qualify(e.column, from), e.column).type

\* An operator whose operand is itself an operator is refused.
TypeChecks(e, from) ==
    ~IsAtom(e) => /\ IsAtom(e.left) /\ IsAtom(e.right)
                  /\ e.op \in Compare => TypeOf(e.left, from) = TypeOf(e.right, from)

ColumnsExist(e, from) ==
    LET Known(a) == a.type = "COLUMN_REF" => \E t \in Range(from) : HasColumn(t, a.column)
    IN  IF IsAtom(e) THEN Known(e) ELSE Known(e.left) /\ Known(e.right)

Resolvable(e, from) == ColumnsExist(e, from) /\ TypeChecks(e, from)

WhereResolvable(s, from) == s.where # NoWhere => Resolvable(s.where, from)
BoundWhere(s, from) == IF s.where = NoWhere THEN NoWhere ELSE Resolve(s.where, from)

---------------------------------------------------------------------------
(* SELECT *)

IsStar(e) == e.type = "COLUMN_REF" /\ e.column = "*"

AllColumns(from) ==
    FlattenSeq([k \in DOMAIN from |->
        [i \in DOMAIN Schema[from[k]] |-> Qualified(from[k], Schema[from[k]][i].name)]])

\* expandStar, and the resolution of the rest of the list.
BoundList(list, from) ==
    FlattenSeq([i \in DOMAIN list |->
        IF IsStar(list[i]) THEN AllColumns(from) ELSE <<Resolve(list[i], from)>>])

SelectAccepted(s) ==
    /\ \A t \in Range(s.tables) : HasTable(t)
    /\ \A e \in Range(s.select) : IsStar(e) \/ Resolvable(e, s.tables)
    /\ WhereResolvable(s, s.tables)

BoundSelect(s) ==
    [s EXCEPT !.select = BoundList(@, s.tables), !.where = BoundWhere(s, s.tables)]

---------------------------------------------------------------------------
(* INSERT, UPDATE, DELETE *)

\* Without a column list, all columns in the order of the schema.
InsertColumns(s) ==
    IF s.columns # <<>> THEN s.columns
    ELSE [i \in DOMAIN Schema[s.table] |-> Schema[s.table][i].name]

\* A value is a literal of the type of the column named at its place.
InsertAccepted(s) ==
    /\ HasTable(s.table)
    /\ Len(s.values) = Len(InsertColumns(s))
    /\ \A i \in DOMAIN s.values :
          /\ HasColumn(s.table, InsertColumns(s)[i])
          /\ s.values[i].type = "LITERAL"
          /\ s.values[i].value.type = ColumnInfo(s.table, InsertColumns(s)[i]).type

\* Only the type of a literal is compared with that of the column.
UpdateAccepted(s) ==
    /\ HasTable(s.table)
    /\ \A a \in Range(s.assignments) :
          /\ HasColumn(s.table, a.column)
          /\ Resolvable(a.expr, <<s.table>>)
          /\ a.expr.type = "LITERAL" =>
                a.expr.value.type = ColumnInfo(s.table, a.column).type
    /\ WhereResolvable(s, <<s.table>>)

DeleteAccepted(s) == HasTable(s.table) /\ WhereResolvable(s, <<s.table>>)

Accepts(s) ==
    CASE s.type = "SELECT" -> SelectAccepted(s)
      [] s.type = "INSERT" -> InsertAccepted(s)
      [] s.type = "UPDATE" -> UpdateAccepted(s)
      [] s.type = "DELETE" -> DeleteAccepted(s)
      [] OTHER -> TRUE

Bound(s) ==
    CASE s.type = "SELECT" -> BoundSelect(s)
      [] s.type = "INSERT" -> [s EXCEPT !.columns = InsertColumns(s)]
      [] s.type = "UPDATE" ->
             [s EXCEPT !.assignments =
                          [i \in DOMAIN @ |-> [@[i] EXCEPT !.expr = Resolve(@, <<s.table>>)]],
                       !.where = BoundWhere(s, <<s.table>>)]
      [] s.type = "DELETE" -> [s EXCEPT !.where = BoundWhere(s, <<s.table>>)]
      [] OTHER -> s
=============================================================================
