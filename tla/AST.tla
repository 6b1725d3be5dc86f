-------------------------------- MODULE AST --------------------------------
(***************************************************************************)
(* src/catalog/AST.h: what Parser builds and Binder and the operators      *)
(* read.  An expression is a column, a literal or a binary operation.      *)
(***************************************************************************)

EXTENDS Sequences, Functions

CONSTANT NoWhere    \* the WHERE of a statement without one

Compare == {"=", "<>", "<", ">", "<=", ">="}
Operators == Compare \cup {"AND", "OR"}

ColumnRef(c) == [type |-> "COLUMN_REF", column |-> c]
Literal(ty, v) == [type |-> "LITERAL", value |-> [type |-> ty, val |-> v]]
BinaryOp(op, l, r) == [type |-> "BINARY_OP", op |-> op, left |-> l, right |-> r]

IsAtom(e) == e.type # "BINARY_OP"

\* What Parser makes of a SELECT: a list, tables, and expressions of the kinds it
\* has nodes for.  (Binder refuses an operand that is itself an operation.)
IsOperand(e) ==
    \/ e.type = "COLUMN_REF" /\ e = ColumnRef(e.column)
    \/ e.type = "LITERAL" /\ e.value.type \in {"INT", "STRING"}
IsExpression(e) ==
    \/ IsOperand(e)
    \/ /\ e.type = "BINARY_OP" /\ e.op \in Operators
       /\ \A a \in {e.left, e.right} : IsAtom(a) => IsOperand(a)
IsSelect(s) ==
    /\ s = [type |-> "SELECT", select |-> s.select, tables |-> s.tables, where |-> s.where]
    /\ s.tables \in Seq(STRING) /\ s.tables # <<>>
    /\ s.select \in Seq(Range(s.select)) /\ \A e \in Range(s.select) : IsExpression(e)
    /\ s.where # NoWhere => IsExpression(s.where)
=============================================================================
