------------------------------- MODULE Query -------------------------------
(***************************************************************************)
(* How a statement is answered: Parser reads its text, Binder resolves and *)
(* checks it, Planner and PhysicalPlanGenerator turn a SELECT into a       *)
(* left-deep tree of operators, and Executor pulls rows from the root of   *)
(* that tree,                                                              *)
(*                                                                         *)
(*   Project -- Filter -- Join(n) -- ... -- Join(2) -- TableScan(1)        *)
(*                          \                  \                           *)
(*                          TableScan(n)       TableScan(2)                *)
(*                                                                         *)
(* where node k delivers rows joined from the first k tables.  One step of *)
(* the execution is one call of next() on one TableScan.  The statements   *)
(* that are no SELECT end here at the Binder: TxStorage and Recovery have  *)
(* what they do to the tables.                                             *)
(***************************************************************************)
EXTENDS Binder, FiniteSets

CONSTANTS
    Values,     \* the field values, as records type, val
    Sent,       \* the texts clients send, and what they mean by them
    Parsed(_),  \* the set of what Parser::parse makes of a text, empty if it throws
    Nothing,    \* what a text means that is no statement
    MaxRows     \* bound: rows of a table

ASSUME QueryAssumption ==
    /\ \A v \in Values : v.type \in {"INT", "STRING"}
    /\ MaxRows \in Nat
    /\ \A x \in Sent : \A r \in Parsed(x.text) : r.node.type = "SELECT" => IsSelect(r.node)

VARIABLES
    text,     \* the SQL text, a sequence of words
    meant,    \* history: the statement the client meant by it
    heap,     \* table |-> its rows in scan order
    stmt,     \* AST: as parsed, then as bound
    colIdx,   \* the column map the plan was generated with
    cursor,   \* TableScan::idx_ of the scan of each position of the FROM list
    leftRow,  \* NestedLoopJoin::leftRow_ of join k
    at,       \* the node whose next() runs
    results,  \* the rows Executor has collected
    phase     \* "received", "parsed", "bound", "planned", "running", "done";
              \* where it threw: "unparsed", "rejected" (Binder), "failed" (Executor)
vars == <<text, meant, heap, stmt, colIdx, cursor, leftRow, at, results, phase>>
tree == <<cursor, leftRow, at, results>>

Raised == [type |-> "RAISED"]

---------------------------------------------------------------------------
(* Plan generation *)

FieldNames(t) == {<<t, Schema[t][i].name>> : i \in DOMAIN Schema[t]}
\* Of columns with the same name the last.
ScanMap(t) ==
    [q \in FieldNames(t) |-> CHOOSE i \in DOMAIN Schema[t] :
        /\ Schema[t][i].name = q[2]
        /\ \A j \in DOMAIN Schema[t] : i < j => Schema[t][j].name # q[2]]

\* Faulty: counts up before it assigns.
NumberingsFromNext(N, first) ==
    {f \in [N -> (first + 1) .. (first + Cardinality(N))] : \A p, q \in N : f[p] = f[q] => p = q}

\* A numbering of N from "first", in the iteration order of an unordered_map.
Numberings(N, first) ==
    {f \in [N -> first .. (first + Cardinality(N) - 1)] :
        \A p, q \in N : f[p] = f[q] => p = q}

\* l with the entries of r written over it.
Over(r, l) == [q \in DOMAIN r \cup DOMAIN l |-> IF q \in DOMAIN r THEN r[q] ELSE l[q]]

\* Faulty: numbers the right side from the start.
ColumnMapsUnshifted(from) ==
    LET n == Len(from)
        left == UNION {FieldNames(from[k]) : k \in 1..(n - 1)}
    IN  IF n = 1 THEN {ScanMap(from[1])}
        ELSE {Over(r, l) : l \in Numberings(left, 1), r \in Numberings(FieldNames(from[n]), 1)}

\* The column maps gen() can leave for a FROM list: a scan's own map, or, for a
\* join, the names of the left subtree in some order and then those of the right
\* table, whose numbers win when the two share a name.
ColumnMaps(from) ==
    LET n == Len(from)
        left == UNION {FieldNames(from[k]) : k \in 1..(n - 1)}
    IN  IF n = 1 THEN {ScanMap(from[1])}
        ELSE {Over(r, l) : l \in Numberings(left, 1),
                           r \in Numberings(FieldNames(from[n]), Cardinality(left) + 1)}

---------------------------------------------------------------------------
(* Expressions over a row *)

Bool(b) == [type |-> "INT", val |-> IF b THEN 1 ELSE 0]

EvalAtom(e, row, idx) == IF e.type = "LITERAL" THEN e.value ELSE row[idx[<<e.table, e.column>>]]

Holds(op, l, r) ==
    CASE op = "="  -> l = r  [] op = "<>" -> l # r
      [] op = "<"  -> l < r  [] op = ">"  -> l > r
      [] op = "<=" -> l <= r [] op = ">=" -> l >= r

\* Faulty: wants both operands of AND and OR to be integers.
EvalEager(e, row, idx) ==
    LET V(a) == EvalAtom(a, row, idx)
        True(a) == V(a).val # 0
        L == e.left
        R == e.right
    IN  IF IsAtom(e) THEN V(e)
        ELSE IF (IF e.op \in Compare THEN V(L).type # V(R).type
                 ELSE "STRING" \in {V(L).type, V(R).type}) THEN Raised
        ELSE IF e.op \in Compare THEN Bool(Holds(e.op, V(L).val, V(R).val))
        ELSE Bool(IF e.op = "OR" THEN True(L) \/ True(R) ELSE True(L) /\ True(R))

\* Operands of different types, which a wrong column map can bring together, compare
\* to nothing; AND and OR short-circuit over truth values, and a string has none.
Eval(e, row, idx) ==
    LET V(a) == EvalAtom(a, row, idx)
        True(a) == V(a).val # 0
        decided == V(e.left).type = "INT" /\ (True(e.left) <=> e.op = "OR")
    IN  IF IsAtom(e) THEN V(e)
        ELSE IF e.op \in Compare
             THEN IF V(e.left).type # V(e.right).type THEN Raised
                  ELSE Bool(Holds(e.op, V(e.left).val, V(e.right).val))
        ELSE IF decided THEN Bool(e.op = "OR")
        ELSE IF "STRING" \in {V(e.left).type, V(e.right).type} THEN Raised
        ELSE Bool(True(e.right))

\* Filter::next on one row: "keep", "drop" or "raise" (a predicate that is no INT).
Verdict(row) ==
    IF stmt.where = NoWhere THEN "keep"
    ELSE LET v == Eval(stmt.where, row, colIdx)
         IN  IF v.type # "INT" THEN "raise" ELSE IF v.val # 0 THEN "keep" ELSE "drop"

\* Project::next: the values of the select list, where an expression may raise too.
Projected(row) ==
    [i \in DOMAIN stmt.select |-> Eval(stmt.select[i], row, colIdx)]

Outcome(row) ==
    IF Verdict(row) = "keep" /\ Raised \in Range(Projected(row)) THEN "raise" ELSE Verdict(row)

---------------------------------------------------------------------------
(* Execution *)

Tables == DOMAIN Schema
Rows(t) == {r \in [DOMAIN Schema[t] -> Values] :
               \A i \in DOMAIN Schema[t] : r[i].type = Schema[t][i].type}
Nodes == DOMAIN stmt.tables
Top == Len(stmt.tables)
ScanOf(k) == heap[stmt.tables[k]]
HasNext(k) == cursor[k] < Len(ScanOf(k))

Contents(t) == UNION {[1..n -> Rows(t)] : n \in 0..MaxRows}

\* A table the statement does not read is empty: nobody looks.
Read == IF meant # Nothing /\ meant.type = "SELECT" THEN Range(meant.tables) \cap Tables ELSE {}

Init ==
    /\ \E x \in Sent : text = x.text /\ meant = x.meant
    /\ \E h \in [Read -> UNION {Contents(t) : t \in Tables}] :
          /\ \A t \in Read : h[t] \in Contents(t)
          /\ heap = [t \in Tables |-> IF t \in Read THEN h[t] ELSE <<>>]
    /\ stmt = <<>>
    /\ colIdx = <<>>
    /\ cursor = <<>>
    /\ leftRow = <<>>
    /\ at = 1
    /\ results = <<>>
    /\ phase = "received"

\* Parser::parse.
ParseText ==
    /\ phase = "received"
    /\ \/ \E r \in Parsed(text) : stmt' = r.node /\ phase' = "parsed"
       \/ Parsed(text) = {} /\ stmt' = stmt /\ phase' = "unparsed"
    /\ UNCHANGED <<text, meant, heap, colIdx, tree>>

\* Binder::bind, and for a SELECT the plan of Planner and PhysicalPlanGenerator.
\* Planner has two cases for SELECT, which no compiler takes; this is the one with the
\* joins (Planner.cpp:49-68).  The other (7-22) throws for more than one table.
BindStatement ==
    /\ phase = "parsed"
    /\ \/ /\ ~Accepts(stmt)
          /\ phase' = "rejected"
          /\ UNCHANGED <<stmt, colIdx, cursor, leftRow>>
       \/ /\ Accepts(stmt) /\ stmt.type # "SELECT"
          /\ phase' = "bound"
          /\ stmt' = Bound(stmt)
          /\ UNCHANGED <<colIdx, cursor, leftRow>>
       \/ /\ Accepts(stmt) /\ stmt.type = "SELECT"
          /\ phase' = "planned"
          /\ stmt' = Bound(stmt)
          /\ colIdx' \in ColumnMaps(stmt.tables)
          /\ cursor' = [k \in Nodes |-> 0]
          /\ leftRow' = [k \in Nodes |-> <<>>]
    /\ UNCHANGED <<text, meant, heap, at, results>>

\* root->open(): every scan is opened, and each join then primes its left row,
\* which is the pull that starts at the leftmost scan.
Open ==
    /\ phase = "planned"
    /\ phase' = "running"
    /\ UNCHANGED <<text, meant, heap, stmt, colIdx, tree>>

\* Node k delivers row: to the join above it, or from the root through Filter and
\* Project to the Executor, which then asks the root again.
Deliver(k, row) ==
    IF k < Top
    THEN /\ leftRow' = [leftRow EXCEPT ![k + 1] = row]
         /\ at' = k + 1
         /\ UNCHANGED <<results, phase>>
    ELSE /\ results' = IF Outcome(row) = "keep" THEN Append(results, Projected(row)) ELSE results
         /\ phase' = IF Outcome(row) = "raise" THEN "failed" ELSE phase
         /\ UNCHANGED <<leftRow, at>>

\* TableScan::next on the scan of node k finds a row.
Pull(k) ==
    /\ phase = "running" /\ at = k /\ HasNext(k)
    /\ cursor' = [cursor EXCEPT ![k] = @ + 1]
    /\ Deliver(k, leftRow[k] \o ScanOf(k)[cursor[k] + 1])
    /\ UNCHANGED <<text, meant, heap, stmt, colIdx>>

\* Faulty: the first join does not go on to its next left row.
RewindInner(k) ==
    /\ phase = "running" /\ at = k /\ k > 2 /\ ~HasNext(k)
    /\ cursor' = [cursor EXCEPT ![k] = 0]
    /\ at' = k - 1
    /\ UNCHANGED <<text, meant, heap, stmt, colIdx, leftRow, results, phase>>

\* The right scan of join k is exhausted: reopen it and advance the left side.
Rewind(k) ==
    /\ phase = "running" /\ at = k /\ k > 1 /\ ~HasNext(k)
    /\ cursor' = [cursor EXCEPT ![k] = 0]
    /\ at' = k - 1
    /\ UNCHANGED <<text, meant, heap, stmt, colIdx, leftRow, results, phase>>

\* The leftmost scan is exhausted: every next() up the tree answers false, and the
\* Executor closes the root.
Finish ==
    /\ phase = "running" /\ at = 1 /\ ~HasNext(1)
    /\ phase' = "done"
    /\ cursor' = [k \in Nodes |-> 0]
    /\ UNCHANGED <<text, meant, heap, stmt, colIdx, leftRow, at, results>>

Next ==
    \/ ParseText \/ BindStatement \/ Open \/ Finish
    \/ phase = "running" /\ \E k \in Nodes : Pull(k) \/ Rewind(k)

\* The engine's thread runs the loop of Executor::execute without waiting.
Spec == Init /\ [][Next]_vars /\ WF_vars(Next)

---------------------------------------------------------------------------
(* Properties *)

\* Types: cursors stay within their scans, the left row a join keeps is as wide as
\* the tables to its left, and the column map numbers the fields of the joined row.
Width[k \in 0..Top] == IF k = 0 THEN 0 ELSE Width[k - 1] + Len(Schema[stmt.tables[k]])
TypeOK ==
    /\ phase \in {"received", "parsed", "unparsed", "bound", "rejected",
                 "planned", "running", "done", "failed"}
    /\ phase \in {"planned", "running", "done", "failed"} =>
          /\ at \in Nodes
          /\ \A k \in Nodes : /\ cursor[k] \in 0..Len(ScanOf(k))
                              /\ leftRow[k] = <<>> \/ Len(leftRow[k]) = Width[k - 1]
          /\ Range(colIdx) \subseteq 1..Width[Top]

\* The parser makes of a text what its client means by it, a statement of whatever kind
\* and however its operations nest, or nothing.  It holds for clients that leave nothing
\* to the precedence of operators and name columns without their tables (PlainSql), and
\* not for the query of queryOptimizerAndPlanner/tests/main.cpp:38-40, which does.  What
\* follows a statement is left unread, so that "... = 1 + 1" is the statement with 1.
ParsesBack ==
    /\ phase = "parsed" => stmt = meant
    /\ phase = "unparsed" => meant = Nothing

\* The reference: the rows of the first k tables joined, the last table running fastest.
Cross(left, scan) ==
    FlattenSeq([i \in DOMAIN left |-> [j \in DOMAIN scan |-> left[i] \o scan[j]]])
Product[k \in 0..Top] == IF k = 0 THEN << <<>> >> ELSE Cross(Product[k - 1], ScanOf(k))
Joined == Product[Top]

\* What the first m of them answer.
AnswerTo[m \in 0..Len(Joined)] ==
    IF m = 0 THEN <<>>
    ELSE IF Verdict(Joined[m]) = "keep" THEN Append(AnswerTo[m - 1], Projected(Joined[m]))
    ELSE AnswerTo[m - 1]
Answer == AnswerTo[Len(Joined)]

IsString(a, row) == EvalAtom(a, row, colIdx).type = "STRING"
Undefined(e, row) ==
    /\ ~IsAtom(e)
    /\ IF e.op \in Compare
       THEN IsString(e.left, row) # IsString(e.right, row)
       ELSE \/ IsString(e.left, row)
            \/ /\ IsString(e.right, row)
               /\ EvalAtom(e.left, row, colIdx).val # 0 <=> e.op = "AND"
RaisesOn(row) ==
    \/ /\ stmt.where # NoWhere
       /\ Undefined(stmt.where, row) \/ (IsAtom(stmt.where) /\ IsString(stmt.where, row))
    \/ Verdict(row) = "keep" /\ \E e \in Range(stmt.select) : Undefined(e, row)

\* A query that ends has answered exactly the rows of the product of its tables that
\* the WHERE clause keeps, each once and in left-major order, whatever table is
\* empty: reopening the right side of a join neither loses nor repeats a pair.  It
\* fails exactly when some row of the product makes its predicate or, if it is kept,
\* its select list raise: an answer never silently leaves such a row out, and a row
\* that short-circuits is no error (NestedLoopJoin::next, TableScan::open,
\* Executor::execute, ExpressionEvaluator::eval, evalBoolean).
ResultIsQuery ==
    /\ phase = "done" => results = Answer /\ \A m \in DOMAIN Joined : ~RaisesOn(Joined[m])
    /\ phase = "failed" => \E m \in DOMAIN Joined : RaisesOn(Joined[m])

\* With no join, or one column on each side of one join of two tables, a column of the
\* select list the client wrote is answered with the column of that name of the first
\* table of the FROM list that has it, and '*' with the row.  (With more columns on a
\* side the map follows the iteration order of an unordered_map, and nothing of the
\* kind holds: PhysicalPlanGenerator.h:77-81.)
Unambiguous ==
    \/ Top = 1
    \/ /\ Top = 2 /\ stmt.tables[1] # stmt.tables[2]
       /\ \A k \in Nodes : Len(Schema[stmt.tables[k]]) = 1
FieldByName(a, row) ==
    IF a.type = "LITERAL" THEN a.value
    ELSE LET k == CHOOSE j \in Nodes :
                     /\ HasColumn(stmt.tables[j], a.column)
                     /\ \A i \in 1..(j - 1) : ~HasColumn(stmt.tables[i], a.column)
             i == CHOOSE c \in DOMAIN Schema[stmt.tables[k]] :
                     Schema[stmt.tables[k]][c].name = a.column
         IN  row[Width[k - 1] + i]
Wanted(list, row) ==
    FlattenSeq([i \in DOMAIN list |-> IF list[i] = ColumnRef("*") THEN row
                                     ELSE <<FieldByName(list[i], row)>>])
ColumnsByName ==
    (/\ phase = "done" /\ Unambiguous /\ meant.where = NoWhere
     /\ \A e \in Range(meant.select) : IsAtom(e))
    => results = [m \in DOMAIN Joined |-> Wanted(meant.select, Joined[m])]

\* Every query ends, in an answer or in an error: the joins' loops that reopen one
\* scan and advance another do not go round forever.
EveryQueryEnds == <>(phase \in {"unparsed", "rejected", "bound", "done", "failed"})
=============================================================================
