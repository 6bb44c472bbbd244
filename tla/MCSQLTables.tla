---------------------------- MODULE MCSQLTables ----------------------------
(***************************************************************************)
(* One table: t (a i64, b i64, c str, PRIMARY KEY (a), INDEX (b),          *)
(* INDEX (c, b)), which may be dropped and created again with or without   *)
(* the last index.                                                         *)
(***************************************************************************)
EXTENDS SQLTables

MCDef ==
  [cols |-> <<[name |-> "a", type |-> "i64"], [name |-> "b", type |-> "i64"], [name |-> "c", type |-> "str"]>>,
   pkey |-> <<"a">>, indices |-> <<(<<"b">>), (<<"c", "b">>)>>]

Narrow == [MCDef EXCEPT !.indices = <<(<<"b">>)>>]

A == Col("a")
B == Col("b")
C == Col("c")
N(n) == Const(I64(n))
S(s) == Const(Str(s))

Row(a, b, c) == <<I64(a), I64(b), Str(c)>>
MCRows == {Row(-8, 0, <<>>), Row(-1, 7, <<0>>), Row(0, 0, <<0, 255>>), Row(2, 1, <<1>>)}

\* The store after CREATE TABLE and an INSERT of every row of R.
Filled(R) ==
  LET schema == SchemaOf(MCDef)
      main == {RowKeys(schema, r)[1] : r \in R}
      keys == UNION {{RowKeys(schema, r)[i] : i \in 1..3} : r \in R}
  IN  [k \in keys \cup {SchemaKey} |->
         IF k = SchemaKey THEN <<schema>>
         ELSE IF k \in main THEN EncodeVal(schema, CHOOSE r \in R : RowKeys(schema, r)[1] = k)
         ELSE <<>>]

\* No table, an empty one, and some that take more than one batch.
MCStores == {EmptyKV} \cup {Filled(R) : R \in {Q \in SUBSET MCRows : Cardinality(Q) \in {0, 3, 4}}}

Set(col, e) == [column |-> col, expr |-> e]
Update(set, cond) == [op |-> "update", set |-> set, cond |-> cond]
Delete(cond) == [op |-> "delete", cond |-> cond]
Insert(row) == [op |-> "insert", row |-> row]

\* A chain deeper than the evaluator allows, though the parser does.
Chain == Bin("+", Bin("+", Bin("+", Bin("+", Bin("+", B, N(1)), N(1)), N(1)), N(1)), N(1))

\* An update that moves rows forward in the index it scans, one that overflows, one that
\* divides by the column, one of two columns, one of the key; and so on.
MCStatements(s) ==
  {Update(<<Set("b", Bin("+", B, N(1)))>>, Bin(">=", B, N(0))),
   Insert(Row(0, 7, <<0, 255>>)), [op |-> "drop"]} \cup
  (IF s = 1
   THEN {Update(<<Set("b", Bin("/", N(4), B))>>, NoCond),
         Delete(Bin("AND", Bin("=", B, N(0)), Un("NOT", Bin("<", A, N(0))))),
         Update(<<Set("a", N(1))>>, Bin(">", A, N(0))),
         Update(<<Set("b", Chain)>>, Bin("!=", A, N(0)))}
   ELSE {Update(<<Set("b", Un("-", A)), Set("c", Bin("+", C, S(<<1>>)))>>,
                Bin(">", Tuple(<<C, B>>), Tuple(<<S(<<0>>), N(0)>>))),
         Delete(Bin("OR", Bin("=", N(7), B), Bin("<", C, S(<<0, 255>>)))),
         [op |-> "create", def |-> MCDef], [op |-> "create", def |-> Narrow], Insert(<<I64(3), Str(<<>>), Str(<<>>)>>)})

Leaves == {A, N(1)}
Simple == {Bin(op, A, N(1)) : op \in UNION {Ops[n] : n \in 1..6}}
            \cup {Un("-", N(1)), Un("NOT", A), Tuple(<<A, N(1)>>)}
MCExpressions ==
  {Bin(op, l, r) : op \in {"OR", "AND", "<", "-", "/"}, l \in Leaves \cup Simple, r \in Leaves \cup Simple}
    \cup {Un(op, e) : op \in {"-", "NOT"}, e \in Simple}

Cmps == {"=", "<", "<=", ">", ">="}
OnB == {Bin(op, B, N(n)) : op \in Cmps, n \in {0, 1}} \cup {Bin("<", N(0), B)}
OnC == {Bin(op, C, S(s)) : op \in Cmps, s \in {<<0>>, <<0, 255>>}}
OnA == {Bin(op, A, N(0)) : op \in Cmps}
Tuples == {Bin(op, Tuple(<<C, B>>), Tuple(<<S(s), N(n)>>)) : op \in Cmps, s \in {<<>>, <<0>>}, n \in {0, 7}}
MCConditions ==
  OnA \cup OnB \cup OnC \cup Tuples
    \cup {Bin("AND", d, e) : d \in OnA \cup OnB, e \in OnB \cup OnC}
    \cup {Bin("AND", d, Bin("AND", e, Bin("!=", A, N(2)))) : d \in Tuples, e \in OnB}
    \cup {Bin("OR", d, e) : d \in OnA, e \in OnC}
=============================================================================
