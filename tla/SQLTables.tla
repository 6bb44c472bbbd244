------------------------------ MODULE SQLTables ------------------------------
(***************************************************************************)
(* The statements of db/table.go: planning, scanning, changing rows and    *)
(* their index entries, and the transactions they run in.                  *)
(*                                                                         *)
(* A session holds one transaction.  What it sees is fixed when it begins  *)
(* and changes only by its own statements, so a statement is one step; its *)
(* nested transactions are the values that are dropped when it fails.      *)
(***************************************************************************)
EXTENDS SQLPlan

CONSTANTS
  Sessions,
  MutateBatchSize,
  Stores,          \* the stores to start from
  Statements(_),   \* Statements(s): the statements that session s may run
  MaxStatements,   \* bound
  Expressions,     \* the expressions to parse
  Conditions       \* the conditions to plan

VARIABLES
  store,      \* the committed keys and values
  session,    \* session[s]: the transaction, and the keys committed by others since
  statements, \* number of statements so far
  skew        \* history variable: a change of rows overlapped a change of the schema

vars == <<store, session, statements, skew>>

Put(f, k, v) == [x \in DOMAIN f \cup {k} |-> IF x = k THEN v ELSE f[x]]
Drop(f, k) == [x \in DOMAIN f \ {k} |-> f[x]]

-----------------------------------------------------------------------------
(* Planning. *)

\* flattenAnd: out and stack as in the code.
RECURSIVE Flatten(_, _)
Flatten(out, stack) ==
  IF stack = <<>> THEN out
  ELSE LET node == stack[1]
           rest == Tail(stack)
       IN  IF node.k = "bin" /\ node.op = "AND" /\ Len(out) + Len(rest) + 2 <= MaxPlanConjuncts
           THEN Flatten(out, <<node.left, node.right>> \o rest)
           ELSE Flatten(Append(out, node), rest)

\* andExcept.
RECURSIVE AndExcept(_, _, _)
AndExcept(conj, used, i) ==
  IF i = 0 THEN NoCond
  ELSE LET left == AndExcept(conj, used, i - 1)
       IN  IF i \in used THEN left
           ELSE IF left = NoCond THEN conj[i] ELSE Bin("AND", left, conj[i])
Residual(conj, used) == AndExcept(conj, used, Len(conj))

\* matchEq.
IsEq(e, col) ==
  /\ e.k = "bin" /\ e.op = "="
  /\ \/ e.left.k = "col" /\ e.right.k = "cell" /\ e.left.name = col.name /\ e.right.cell.type = col.type
     \/ e.right.k = "col" /\ e.left.k = "cell" /\ e.right.name = col.name /\ e.left.cell.type = col.type
EqCell(e) == IF e.left.k = "cell" THEN e.left.cell ELSE e.right.cell

\* pickEqPrefix: the conjuncts that give the leading columns of an index their values.
RECURSIVE EqPrefix(_, _, _, _)
EqPrefix(schema, i, conj, used) ==
  LET n == Len(used) + 1
      fits == IF n > Len(schema.indices[i]) THEN {}
              ELSE {c \in DOMAIN conj : /\ \A j \in DOMAIN used : used[j] # c
                                        /\ IsEq(conj[c], schema.cols[schema.indices[i][n]])}
  IN  IF fits = {} THEN used ELSE EqPrefix(schema, i, conj, Append(used, Min(fits)))

\* asNameList and asCellList.
Kids(e) == IF e.k = "tuple" THEN e.kids ELSE <<e>>
AllAre(e, kind) == \A j \in DOMAIN Kids(e) : Kids(e)[j].k = kind

\* matchCmp of a conjunct with a prefix of an index: the names may be on either side.
Flip(op) == CASE op = "<" -> ">" [] op = ">" -> "<" [] op = "<=" -> ">=" [] op = ">=" -> "<="
Bound(schema, i, e) ==
  IF ~(e.k = "bin" /\ e.op \in {"<", "<=", ">", ">="}) THEN Failed
  ELSE LET named == AllAre(e.left, "col")
           names == Kids(IF named THEN e.left ELSE e.right)
           cells == Kids(IF named THEN e.right ELSE e.left)
           index == schema.indices[i]
       IN  IF /\ \A j \in DOMAIN names : names[j].k = "col"
              /\ \A j \in DOMAIN cells : cells[j].k = "cell"
              /\ Len(names) = Len(cells) /\ Len(names) <= Len(index)
              /\ \A j \in DOMAIN names : /\ schema.cols[index[j]].name = names[j].name
                                         /\ schema.cols[index[j]].type = cells[j].cell.type
           THEN [ok |-> TRUE, op |-> IF named THEN e.op ELSE Flip(e.op),
                 cells |-> [j \in DOMAIN cells |-> cells[j].cell]]
           ELSE Failed

Descending(op) == op \in {"<", "<="}

FullScan == [index |-> 1, from |-> ">=", start |-> <<>>, to |-> "<=", stop |-> <<>>]

\* matchRangeByIndex of two bounds that face each other, and of one.
Facing(b, c) == b.ok /\ c.ok /\ Descending(b.op) # Descending(c.op)
Between(i, lo, hi) == [index |-> i, from |-> lo.op, start |-> lo.cells, to |-> hi.op, stop |-> hi.cells]
PairRange(i, b, c) == IF Descending(b.op) THEN Between(i, c, b) ELSE Between(i, b, c)
OneRange(i, b) ==
  [index |-> i, from |-> b.op, start |-> b.cells, to |-> IF Descending(b.op) THEN ">=" ELSE "<=", stop |-> <<>>]

FirstPair(P) == CHOOSE p \in P : \A q \in P : p[1] < q[1] \/ (p[1] = q[1] /\ p[2] <= q[2])

\* The plan for the conjuncts used of an equality prefix of index i, and for the bounds
\* of an index: from two of them if possible.
EqPlan(i, conj, used) ==
  LET cells == [j \in DOMAIN used |-> EqCell(conj[used[j]])]
  IN  [req |-> [index |-> i, from |-> ">=", start |-> cells, to |-> "<=", stop |-> cells],
       residual |-> Residual(conj, {used[j] : j \in DOMAIN used})]
RangePlan(i, conj, bounds) ==
  LET pairs == {p \in (DOMAIN conj) \X (DOMAIN conj) : p[1] # p[2] /\ Facing(bounds[p[1]], bounds[p[2]])}
      p == FirstPair(pairs)
      c == Min({d \in DOMAIN conj : bounds[d].ok})
  IN  IF pairs # {}
      THEN [req |-> PairRange(i, bounds[p[1]], bounds[p[2]]), residual |-> Residual(conj, {p[1], p[2]})]
      ELSE [req |-> OneRange(i, bounds[c]), residual |-> Residual(conj, {c})]

\* planScan: the longest equality prefix, else a range of the first index that has one,
\* else everything.  eq and bounds are what each index offers.
BestPlan(cond, conj, eq, bounds) ==
  LET longest == Max({Len(eq[i]) : i \in DOMAIN eq})
      best == Min({i \in DOMAIN eq : Len(eq[i]) = longest})
      ranged == {i \in DOMAIN bounds : \E c \in DOMAIN conj : bounds[i][c].ok}
  IN  IF longest > 0 THEN EqPlan(best, conj, eq[best])
      ELSE IF ranged = {} THEN [req |-> FullScan, residual |-> cond]
      ELSE RangePlan(Min(ranged), conj, bounds[Min(ranged)])
PlanConjuncts(schema, cond, conj) ==
  BestPlan(cond, conj, [i \in DOMAIN schema.indices |-> EqPrefix(schema, i, conj, <<>>)],
           [i \in DOMAIN schema.indices |-> [c \in DOMAIN conj |-> Bound(schema, i, conj[c])]])
PlanScan(schema, cond) ==
  IF cond = NoCond THEN [req |-> FullScan, residual |-> NoCond]
  ELSE PlanConjuncts(schema, cond, Flatten(<<>>, <<cond>>))

-----------------------------------------------------------------------------
(* Scanning. *)

\* Variant: a lower bound is always inclusive.
PositiveUpper(op) == op = "<="

\* suffixPositive.
Positive(op) == op \in {"<=", ">"}

\* Range: the keys between the encoded bounds, in the order of the scan.
KeysBetween(kv, low, high) == SortKeys({k \in DOMAIN kv : ~LessBytes(k, low) /\ ~LessBytes(high, k)})
Backwards(keys) == [j \in DOMAIN keys |-> keys[Len(keys) + 1 - j]]
RangeKeys(kv, req) ==
  LET start == KeyPrefix(req.index, req.start, Positive(req.from))
      stop == KeyPrefix(req.index, req.stop, Positive(req.to))
  IN  IF Descending(req.from) THEN Backwards(KeysBetween(kv, stop, start)) ELSE KeysBetween(kv, start, stop)

\* collectBatch: up to max rows behind the keys that match; done says that none is left.
Matches(schema, plan, r) == IF r.ok THEN MatchRow(schema, r.row, plan.residual) ELSE "error"
RECURSIVE Collect(_, _, _, _, _, _), CollectRow(_, _, _, _, _, _, _, _)
CollectRow(kv, schema, plan, keys, max, rows, r, match) ==
  CASE match = "error" -> Failed
    [] match = "no" -> Collect(kv, schema, plan, keys, max, rows)
    [] match = "yes" /\ Len(rows) + 1 >= max -> [ok |-> TRUE, rows |-> Append(rows, r.row), done |-> FALSE]
    [] OTHER -> Collect(kv, schema, plan, keys, max, Append(rows, r.row))
Collect(kv, schema, plan, keys, max, rows) ==
  IF keys = <<>> THEN [ok |-> TRUE, rows |-> rows, done |-> TRUE]
  ELSE LET r == RowAt(kv, schema, plan.req.index, keys[1])
       IN  CollectRow(kv, schema, plan, Tail(keys), max, rows, r, Matches(schema, plan, r))

Batch(kv, schema, plan, req) == Collect(kv, schema, plan, RangeKeys(kv, req), MutateBatchSize, <<>>)
FirstBatch(kv, schema, plan) == Batch(kv, schema, plan, plan.req)

-----------------------------------------------------------------------------
(* Changing rows.  w is the work of a transaction: what it sees, and the   *)
(* keys it has written.                                                    *)

Write(w, k, v) == [kv |-> Put(w.kv, k, v), touched |-> w.touched \cup {k}]

Erase(w, k) == [kv |-> Drop(w.kv, k), touched |-> w.touched \cup {k}]

Work(ok, n, w) == [ok |-> ok, n |-> n, w |-> w]

\* The keys of a row, one for each index.
RowKeys(schema, row) == [i \in DOMAIN schema.indices |-> EncodeKey(schema, i, row)]

\* delete: the row and all its index entries; a missing one is an error.
RECURSIVE EraseAll(_, _, _)
EraseAll(w, keys, i) ==
  IF i > Len(keys) THEN Work(TRUE, 1, w)
  ELSE IF keys[i] \in DOMAIN w.kv THEN EraseAll(Erase(w, keys[i]), keys, i + 1)
  ELSE Work(FALSE, 0, w)
DeleteRow(w, schema, row) ==
  LET keys == RowKeys(schema, row)
  IN  IF keys[1] \notin DOMAIN w.kv THEN Work(TRUE, 0, w) ELSE EraseAll(w, keys, 1)

\* The loop of SetEx(ModeInsert) over the indexes.
RECURSIVE InsertAll(_, _, _, _)
InsertAll(w, keys, val, i) ==
  IF i > Len(keys) THEN Work(TRUE, 1, w)
  ELSE IF keys[i] \in DOMAIN w.kv THEN Work(FALSE, 0, w)
  ELSE InsertAll(Write(w, keys[i], IF i = 1 THEN val ELSE <<>>), keys, val, i + 1)

\* update, for the modes insert and update: the old row goes first.
UpdateRow(w, schema, row, mode) ==
  LET keys == RowKeys(schema, row)
      val == EncodeVal(schema, row)
      exist == keys[1] \in DOMAIN w.kv
      updated == IF mode = "insert" THEN ~exist ELSE IF exist THEN w.kv[keys[1]] # val ELSE FALSE
      old == DecodeVal(schema, row, w.kv[keys[1]])
      del == IF exist THEN DeleteRow(w, schema, old) ELSE Work(TRUE, 0, w)
  IN  IF ~updated THEN Work(TRUE, 0, w) ELSE IF ~del.ok THEN Work(FALSE, 0, w)
      ELSE InsertAll(del.w, keys, val, 1)

-----------------------------------------------------------------------------
(* Statements. *)

\* execUpdate on one row: every expression is evaluated before any column changes.
\* fillNonPKey refuses unknown columns, other types and columns of the primary key.
RECURSIVE Fill(_, _, _, _)
Fill(schema, set, vals, row) ==
  IF set = <<>> THEN [ok |-> TRUE, row |-> row]
  ELSE LET c == Column(schema, set[1].column)
       IN  IF c = 0 THEN Failed
           ELSE IF vals[1].type # schema.cols[c].type \/ InKey(schema, c) THEN Failed
           ELSE Fill(schema, Tail(set), Tail(vals), [row EXCEPT ![c] = vals[1]])
NewRow(schema, stmt, row) ==
  Fill(schema, stmt.set, [j \in DOMAIN stmt.set |-> Eval(schema, row, stmt.set[j].expr)], row)

ApplyTo(w, schema, stmt, row) ==
  IF stmt.op # "update" THEN DeleteRow(w, schema, row)
  ELSE LET r == NewRow(schema, stmt, row)
       IN  IF r.ok THEN UpdateRow(w, schema, r.row, "update") ELSE Work(FALSE, 0, w)

RECURSIVE ApplyAll(_, _, _, _, _), ApplyRest(_, _, _, _, _)
ApplyRest(r, schema, stmt, rows, n) ==
  IF r.ok THEN ApplyAll(r.w, schema, stmt, rows, n + r.n) ELSE Work(FALSE, 0, r.w)
ApplyAll(w, schema, stmt, rows, n) ==
  IF rows = <<>> THEN Work(TRUE, n, w)
  ELSE ApplyRest(ApplyTo(w, schema, stmt, rows[1]), schema, stmt, Tail(rows), n)

\* Variant: a full batch is applied, and the planned scan continued.
RECURSIVE MutateInPlace(_, _, _, _)
MutateInPlace(w, schema, stmt, n) ==
  LET b == FirstBatch(w.kv, schema, PlanScan(schema, stmt.cond))
      r == ApplyAll(w, schema, stmt, b.rows, n)
  IN  IF ~b.ok THEN Work(FALSE, 0, w) ELSE IF ~r.ok \/ b.done \/ n > 6 THEN r
      ELSE MutateInPlace(r.w, schema, stmt, r.n)
ForEachMatchInPlace(w, schema, stmt) == MutateInPlace(w, schema, stmt, 0)

\* forEachMatch: when the planned scan fills a batch, nothing has been changed yet, and
\* the statement starts over in the order of the primary key, a batch b at a time, until
\* one ends (r) with an error or without another.
RECURSIVE MutateFrom(_, _, _, _, _), MutateBatch(_, _, _, _, _), MutateOn(_, _, _, _)
KeyCells(schema, row) == [j \in DOMAIN schema.indices[1] |-> row[schema.indices[1][j]]]
MutateOn(schema, stmt, b, r) ==
  IF ~r.ok \/ b.done THEN r
  ELSE MutateFrom(r.w, schema, stmt,
                  [FullScan EXCEPT !.from = ">", !.start = KeyCells(schema, b.rows[Len(b.rows)])], r.n)
MutateBatch(w, schema, stmt, b, n) ==
  IF ~b.ok THEN Work(FALSE, 0, w) ELSE IF b.rows = <<>> THEN Work(TRUE, n, w)
  ELSE MutateOn(schema, stmt, b, ApplyAll(w, schema, stmt, b.rows, n))
MutateFrom(w, schema, stmt, req, n) ==
  MutateBatch(w, schema, stmt, Batch(w.kv, schema, [req |-> FullScan, residual |-> stmt.cond], req), n)
ForEachMatch(w, schema, stmt) ==
  LET b == FirstBatch(w.kv, schema, PlanScan(schema, stmt.cond))
  IN  IF ~b.ok THEN Work(FALSE, 0, w) ELSE IF b.done THEN ApplyAll(w, schema, stmt, b.rows, 0)
      ELSE MutateFrom(w, schema, stmt, FullScan, 0)

\* execCreateTable: the primary key is added to every other index.
Positions(cols, names) == [j \in DOMAIN names |-> Column([cols |-> cols], names[j])]
WithKey(index, pkey) ==
  index \o SelectSeq(pkey, LAMBDA c : \A j \in DOMAIN index : index[j] # c)
SchemaOf(def) ==
  LET pkey == Positions(def.cols, def.pkey)
  IN  [cols |-> def.cols,
       indices |-> <<pkey>> \o [j \in DOMAIN def.indices |-> WithKey(Positions(def.cols, def.indices[j]), pkey)]]
ValidSchema(schema) ==
  /\ schema.cols # <<>>
  /\ \A i \in DOMAIN schema.indices :
       schema.indices[i] # <<>> /\ \A j \in DOMAIN schema.indices[i] : schema.indices[i][j] # 0

\* GetSchema.
Schema(kv) == kv[SchemaKey][1]

\* Variant: the rows are left behind.
DropTableOnly(w, schema) == Work(TRUE, 0, Erase(w, SchemaKey))

\* execDropTable.
DropSchema(r) == IF r.ok THEN Work(TRUE, 0, Erase(r.w, SchemaKey)) ELSE r
DropTable(w, schema) == DropSchema(ForEachMatch(w, schema, [op |-> "delete", cond |-> NoCond]))

\* execInsert.
ExecInsert(w, schema, row) ==
  IF Len(row) = Len(schema.cols) /\ \A c \in DOMAIN row : row[c].type = schema.cols[c].type
  THEN UpdateRow(w, schema, row, "insert") ELSE Work(FALSE, 0, w)

\* execStmt; a SELECT changes nothing.
ExecStmt(w, stmt) ==
  LET there == SchemaKey \in DOMAIN w.kv
      schema == Schema(w.kv)
  IN  IF stmt.op = "create"
      THEN IF there \/ ~ValidSchema(SchemaOf(stmt.def)) THEN Work(FALSE, 0, w)
           ELSE Work(TRUE, 0, Write(w, SchemaKey, <<SchemaOf(stmt.def)>>))
      ELSE IF ~there THEN Work(FALSE, 0, w)
      ELSE CASE stmt.op = "insert" -> ExecInsert(w, schema, stmt.row)
             [] stmt.op \in {"update", "delete"} -> ForEachMatch(w, schema, stmt)
             [] stmt.op = "drop" -> DropTable(w, schema)
             [] stmt.op = "select" -> Work(TRUE, 0, w)

\* expandProjection, and the cells of a row that a SELECT returns.
Expand(schema, proj) ==
  Concat([j \in DOMAIN proj |->
            IF proj[j] = Star THEN [c \in DOMAIN schema.cols |-> Col(schema.cols[c].name)] ELSE <<proj[j]>>])
Project(schema, proj, row) ==
  LET exprs == Expand(schema, proj) IN [j \in DOMAIN exprs |-> Eval(schema, row, exprs[j])]

\* selectCursor: scan, filter, skip OFFSET rows and stop after LIMIT of them.
Matching(kv, schema, plan, max) == Collect(kv, schema, plan, RangeKeys(kv, plan.req), max, <<>>)
Returned(rows) ==
  IF \E j \in DOMAIN rows : \E c \in DOMAIN rows[j] : rows[j][c].type = "err" THEN Failed
  ELSE [ok |-> TRUE, rows |-> rows]
Window(schema, stmt, b) ==
  IF ~b.ok THEN Failed
  ELSE Returned([j \in 1..(Len(b.rows) - stmt.offset) |-> Project(schema, stmt.proj, b.rows[stmt.offset + j])])
SelectRows(kv, schema, stmt) ==
  IF stmt.limit = 0 THEN [ok |-> TRUE, rows |-> <<>>]
  ELSE Window(schema, stmt,
              Matching(kv, schema, PlanScan(schema, stmt.cond),
                       IF stmt.limit < 0 THEN Cardinality(DOMAIN kv) + 1 ELSE stmt.offset + stmt.limit))

-----------------------------------------------------------------------------
(* The text of a statement, with no more parentheses than precedence needs. *)

RECURSIVE Text(_, _), List(_, _)

List(es, i) ==
  IF i > Len(es) THEN <<>>
  ELSE (IF i > 1 THEN <<Sym(",")>> ELSE <<>>) \o es[i] \o List(es, i + 1)

Paren(toks) == <<Sym("(")>> \o toks \o <<Sym(")")>>

Text(e, level) ==
  CASE e.k = "col" -> <<Name(e.name)>>
    [] e.k = "cell" -> <<Lit(e.cell)>>
    [] e.k = "tuple" -> Paren(List([j \in DOMAIN e.kids |-> Text(e.kids[j], OrLevel)], 1))
    [] e.k = "un" ->
         LET n == IF e.op = "NOT" THEN NotLevel ELSE NegLevel
             toks == <<Sym(e.op)>> \o Text(e.kid, n)
         IN  IF n < level THEN Paren(toks) ELSE toks
    [] e.k = "bin" ->
         LET n == CHOOSE n \in DOMAIN Ops : e.op \in Ops[n]
             toks == Text(e.left, n) \o <<Sym(e.op)>> \o Text(e.right, n + 1)
         IN  IF n < level THEN Paren(toks) ELSE toks

Where(cond) == IF cond = NoCond THEN <<>> ELSE <<Sym("WHERE")>> \o Text(cond, OrLevel)
Literal(c) == IF c.type = "i64" /\ c.i < 0 THEN <<Sym("-"), Lit(I64(-c.i))>> ELSE <<Lit(c)>>
Names(ns) == Paren(List([j \in DOMAIN ns |-> <<Name(ns[j])>>], 1))

StmtText(stmt) ==
  (CASE stmt.op = "insert" ->
          <<Sym("INSERT"), Sym("INTO"), Name("t"), Sym("VALUES")>>
            \o Paren(List([j \in DOMAIN stmt.row |-> Literal(stmt.row[j])], 1))
     [] stmt.op = "update" ->
          <<Sym("UPDATE"), Name("t"), Sym("SET")>>
            \o List([j \in DOMAIN stmt.set |-> <<Name(stmt.set[j].column), Sym("=")>> \o Text(stmt.set[j].expr, OrLevel)], 1)
            \o Where(stmt.cond)
     [] stmt.op = "delete" -> <<Sym("DELETE"), Sym("FROM"), Name("t")>> \o Where(stmt.cond)
     [] stmt.op = "drop" -> <<Sym("DROP"), Sym("TABLE"), Name("t")>>
     [] stmt.op = "create" ->
          <<Sym("CREATE"), Sym("TABLE"), Name("t")>>
            \o Paren(List([j \in DOMAIN stmt.def.cols |-> <<Name(stmt.def.cols[j].name), Name(stmt.def.cols[j].type)>>]
                            \o <<(<<Sym("PRIMARY"), Sym("KEY")>> \o Names(stmt.def.pkey))>>
                            \o [j \in DOMAIN stmt.def.indices |-> <<Sym("INDEX")>> \o Names(stmt.def.indices[j])], 1))
     [] stmt.op = "select" ->
          <<Sym("SELECT")>>
            \o List([j \in DOMAIN stmt.proj |->
                       IF stmt.proj[j] = Star THEN <<Sym("*")>> ELSE Text(stmt.proj[j], OrLevel)], 1)
            \o <<Sym("FROM"), Name("t")>> \o Where(stmt.cond)
            \o (IF stmt.limit < 0 THEN <<>> ELSE <<Sym("LIMIT"), Lit(I64(stmt.limit)), Sym("OFFSET"), Lit(I64(stmt.offset))>>))
  \o <<Sym(";")>>

-----------------------------------------------------------------------------
(* Sessions. *)

EmptyKV == [k \in {} |-> <<>>]
Idle == [pc |-> "idle", stmt |-> NoCond, stale |-> {}, w |-> [kv |-> EmptyKV, touched |-> {}]]

Init ==
  /\ store \in Stores
  /\ session = [s \in Sessions |-> Idle]
  /\ statements = 0 /\ skew = FALSE

Begin(s) ==
  /\ session[s].pc = "idle" /\ statements < MaxStatements
  /\ session' = [session EXCEPT ![s] = [Idle EXCEPT !.pc = "open", !.w.kv = store]]
  /\ UNCHANGED <<store, statements, skew>>

\* What the keys hold under the writes of w.
Merge(kv, w) ==
  [k \in (DOMAIN kv \ w.touched) \cup (DOMAIN w.kv \cap w.touched) |->
     IF k \in w.touched THEN w.kv[k] ELSE kv[k]]

\* KVTX.NewTX of a transaction, and KVTX.applyTX: its writes are folded into its parent.
\* A statement deletes only keys that its parent shows, so SortedArray.Del never meets a
\* tombstone of the parent here; it would keep both.
Nested(w) == [kv |-> w.kv, touched |-> {}]
Fold(w, nested) == [kv |-> Merge(w.kv, nested), touched |-> w.touched \cup nested.touched]

\* Query: the statement is parsed, and run in a nested transaction that is dropped when
\* it fails (execStmtOwned).
Query(s, stmt) ==
  /\ session[s].pc = "open" /\ statements < MaxStatements
  /\ session' = [session EXCEPT ![s].pc = "exec", ![s].stmt = stmt]
  /\ statements' = statements + 1
  /\ UNCHANGED <<store, skew>>

FoldIfOk(w, r) == IF r.ok THEN Fold(w, r.w) ELSE w
ExecParsed(w, parsed) == IF parsed.ok THEN FoldIfOk(w, ExecStmt(Nested(w), parsed.stmt)) ELSE w
Exec(s) ==
  /\ session[s].pc = "exec"
  /\ session' = [session EXCEPT ![s].pc = "open", ![s].stmt = NoCond,
                                ![s].w = ExecParsed(@, ParseStmt(StmtText(session[s].stmt)))]
  /\ UNCHANGED <<store, statements, skew>>

\* A transaction that changes the schema and one that changes rows have overlapped.
Skewed(t) ==
  \/ SchemaKey \in t.stale /\ t.w.touched # {}
  \/ SchemaKey \in t.w.touched /\ t.stale # {}

\* Variant: without checkTXConflict.
CommitBlind(s) ==
  /\ session[s].pc = "open"
  /\ store' = Merge(store, session[s].w)
  /\ skew' = (skew \/ Skewed(session[s]))
  /\ session' = [t \in Sessions |->
                   IF t = s THEN Idle
                   ELSE IF session[t].pc = "idle" THEN session[t]
                   ELSE [session[t] EXCEPT !.stale = @ \cup session[s].w.touched]]
  /\ UNCHANGED statements

\* Commit: refused when another transaction has written one of the same keys since this
\* one began; a transaction does not notice that the schema it read has gone.
Commit(s) ==
  LET w == session[s].w
      conflict == w.touched \cap session[s].stale # {}
  IN  /\ session[s].pc = "open"
      /\ store' = IF conflict THEN store ELSE Merge(store, w)
      /\ skew' = (skew \/ (~conflict /\ Skewed(session[s])))
      /\ session' = [t \in Sessions |->
                       IF t = s THEN Idle
                       ELSE IF session[t].pc = "idle" \/ conflict THEN session[t]
                       ELSE [session[t] EXCEPT !.stale = @ \cup w.touched]]
      /\ UNCHANGED statements

Abort(s) ==
  /\ session[s].pc = "open"
  /\ session' = [session EXCEPT ![s] = Idle]
  /\ UNCHANGED <<store, statements, skew>>

Next ==
  \E s \in Sessions :
    Begin(s) \/ Exec(s) \/ Commit(s) \/ Abort(s) \/ \E stmt \in Statements(s) : Query(s, stmt)

Spec == Init /\ [][Next]_vars

-----------------------------------------------------------------------------

TableKeys(kv) == DOMAIN kv \ {SchemaKey}

\* The rows that the primary index shows.
Rows(kv) ==
  IF SchemaKey \notin DOMAIN kv THEN {}
  ELSE {RowAt(kv, Schema(kv), 1, k).row : k \in {l \in TableKeys(kv) : l[3] = 1}}

\* Every row has one entry in every index, and every entry has its row.
Consistent(kv) ==
  SchemaKey \in DOMAIN kv =>
    TableKeys(kv) =
      UNION {{EncodeKey(Schema(kv), i, row) : i \in DOMAIN Schema(kv).indices} : row \in Rows(kv)}

\* Indexes and rows agree, whatever transactions run side by side and whichever of their
\* statements fail halfway: no statement can meet "inconsistent index".  A transaction that
\* changes rows and one that drops the table and creates it with other indexes write no key
\* in common, and both commit: this holds only while no such two have overlapped.
IndexConsistent == ~skew => Consistent(store)

\* DROP TABLE "removes every row of the table, all of its index entries and finally its
\* schema": no row is left without a schema.  Transactions conflict on the keys that both
\* have written, so this holds only while none that changes rows overlaps the drop.
NoOrphans == SchemaKey \notin DOMAIN store /\ ~skew => TableKeys(store) = {}

\* What a statement does to a set of rows, row by row and all at once.
Reference(rows, stmt, schema) ==
  LET hit == IF stmt.op \in {"update", "delete"} THEN {r \in rows : MatchRow(schema, r, stmt.cond) = "yes"} ELSE {}
  IN  CASE stmt.op = "update" ->
             IF \E r \in hit : ~NewRow(schema, stmt, r).ok THEN rows
             ELSE (rows \ hit) \cup {NewRow(schema, stmt, r).row : r \in hit}
        [] stmt.op = "delete" -> rows \ hit
        [] stmt.op = "insert" ->
             IF \/ \E r \in rows : EncodeKey(schema, 1, r) = EncodeKey(schema, 1, stmt.row)
                \/ \E c \in DOMAIN stmt.row : stmt.row[c].type # schema.cols[c].type
             THEN rows ELSE rows \cup {stmt.row}
        [] stmt.op = "drop" -> {}
        [] OTHER -> rows

\* Every matching row is changed exactly once, although the change moves it within the
\* index that is scanned and the rows come in batches; a statement that fails on one row
\* changes none.  The transaction must have found rows and indexes in agreement.
StatementsMean ==
  [][\A s \in Sessions :
       LET kv == session[s].w.kv
       IN  session[s].pc = "exec" /\ session'[s].pc = "open" /\ SchemaKey \in DOMAIN kv /\ Consistent(kv) =>
             Rows(session'[s].w.kv) = Reference(Rows(kv), session[s].stmt, Schema(kv))]_vars

\* The tokens with != written as ne.
Spelled(toks, ne) == [j \in DOMAIN toks |-> IF toks[j] = Sym("!=") THEN Sym(ne) ELSE toks[j]]

\* A statement and an expression are read as they were written: precedence, grouping,
\* tuples and signs (parseExpr and what is below it), and both spellings of "not equal".
ParsedAsWritten ==
  /\ \A s \in Sessions :
       session[s].pc = "exec" => ParseStmt(StmtText(session[s].stmt)) = [ok |-> TRUE, stmt |-> session[s].stmt]
  /\ store = EmptyKV /\ statements = 0 =>
       \A e \in Expressions, ne \in {"!=", "<>"} : ParseExpr(Spelled(Text(e, OrLevel), ne)) = Parsed(e, <<>>)

\* The SELECT of every column, planned, and what it must return: the rows that match, each
\* once, and the second of them under LIMIT 1 OFFSET 1.
Select(schema, cond, limit, offset) ==
  SelectRows(store, schema, ParseStmt(StmtText(
    [op |-> "select", proj |-> <<Star>>, cond |-> cond, limit |-> limit, offset |-> offset])).stmt)
Answers(all, second, match) ==
  (\A r \in DOMAIN match : match[r] # "error") =>
    /\ all.ok /\ Len(all.rows) = Cardinality({all.rows[i] : i \in DOMAIN all.rows})
    /\ {all.rows[i] : i \in DOMAIN all.rows} = {r \in DOMAIN match : match[r] = "yes"}
    /\ second = [ok |-> TRUE, rows |-> SubSeq(all.rows, 2, IF Len(all.rows) < 2 THEN Len(all.rows) ELSE 2)]

\* A scan planned from the condition (an index, an equality prefix, a range, and what is
\* left of the condition) returns each row that a scan of the whole table with the whole
\* condition returns, once; LIMIT and OFFSET cut a window from it (selectCursor).
PlanSound ==
  SchemaKey \in DOMAIN store /\ statements = 0 /\ (\A s \in Sessions : session[s] = Idle) =>
    \A cond \in Conditions :
      Answers(Select(Schema(store), cond, -1, 0), Select(Schema(store), cond, 1, 1),
              [r \in Rows(store) |-> MatchRow(Schema(store), r, cond)])
=============================================================================
