------------------------------- MODULE SQLPlan -------------------------------
(***************************************************************************)
(* Rows and indexes over ordered keys: the key encoding (db/cell.go,       *)
(* db/row.go), expressions (db/eval.go), and the planner and the scans of  *)
(* db/table.go.                                                            *)
(*                                                                         *)
(* A key is a sequence of bytes.  An integer is from -Half to MaxInt,      *)
(* written as two bytes, which are digits of base Digit.                   *)
(***************************************************************************)
EXTENDS SQLParser, FiniteSetsExt

CONSTANTS
  Digit, MaxPlanConjuncts,
  MaxString    \* the longest string that + makes (MaxEntrySize)

Half == MaxInt + 1

ASSUME WidthAssumption == Digit * Digit = 2 * Half

Wrap(n) == ((n + Half) % (Digit * Digit)) - Half

Err == [type |-> "err"]
Bool(b) == I64(IF b THEN 1 ELSE 0)

-----------------------------------------------------------------------------
(* Keys. *)

LessBytes(s, t) ==
  \E n \in 0..Len(s) :
    /\ n < Len(t) /\ \A i \in 1..n : s[i] = t[i]
    /\ n = Len(s) \/ s[n + 1] < t[n + 1]

RECURSIVE EncodeStr(_), DecodeStr(_), Concat(_), SortKeys(_), DecodeCells(_, _)

Concat(ss) == IF ss = <<>> THEN <<>> ELSE ss[1] \o Concat(Tail(ss))

\* encodeStrKey: 0 and 1 are escaped, 0 ends the string.
EncodeStr(s) ==
  IF s = <<>> THEN <<0>>
  ELSE (IF s[1] \in {0, 1} THEN <<1, s[1] + 1>> ELSE <<s[1]>>) \o EncodeStr(Tail(s))

\* The tag of the type, then Cell.EncodeKey: the sign bit is flipped, big end first.
EncodeCell(c) ==
  IF c.type = "i64" THEN <<1, (c.i + Half) \div Digit, (c.i + Half) % Digit>>
  ELSE <<2>> \o EncodeStr(c.s)

TablePrefix == <<100, 0>>
SchemaKey == <<0, 100>>

\* EncodeKeyPrefix, and EncodeKey of a row.
KeyPrefix(i, cells, positive) ==
  TablePrefix \o <<i>> \o Concat([j \in DOMAIN cells |-> EncodeCell(cells[j])])
    \o (IF positive THEN <<255>> ELSE <<>>)
EncodeKey(schema, i, row) ==
  KeyPrefix(i, [j \in DOMAIN schema.indices[i] |-> row[schema.indices[i][j]]], FALSE) \o <<0>>

\* decodeStrKey: the string and the bytes after it.
DecodeStr(b) ==
  IF b[1] = 0 THEN [str |-> <<>>, rest |-> Tail(b)]
  ELSE LET n == IF b[1] = 1 THEN 2 ELSE 1
           d == DecodeStr(After(b, n))
       IN  [str |-> <<IF n = 2 THEN b[2] - 1 ELSE b[1]>> \o d.str, rest |-> d.rest]

\* DecodeKey: n cells; the tags say their types.
DecodeCells(b, n) ==
  IF n = 0 THEN <<>>
  ELSE IF b[1] = 1 THEN <<I64(b[2] * Digit + b[3] - Half)>> \o DecodeCells(After(b, 3), n - 1)
  ELSE LET d == DecodeStr(Tail(b)) IN <<Str(d.str)>> \o DecodeCells(d.rest, n - 1)

SortKeys(S) ==
  IF S = {} THEN <<>>
  ELSE LET least == CHOOSE k \in S : \A l \in S \ {k} : LessBytes(k, l)
       IN  <<least>> \o SortKeys(S \ {least})

-----------------------------------------------------------------------------
(* Rows.  kv is what a transaction sees: a function on the keys there are. *)

InKey(schema, c) == \E j \in DOMAIN schema.indices[1] : schema.indices[1][j] = c

\* EncodeVal: the cells outside the primary key, in order.
EncodeVal(schema, row) ==
  LET Outside(c) == ~InKey(schema, c)
  IN  [j \in 1..Cardinality({c \in DOMAIN row : Outside(c)}) |->
         row[CHOOSE c \in DOMAIN row :
               Outside(c) /\ Cardinality({d \in 1..c : Outside(d)}) = j]]

\* DecodeVal over the cells that the key has given.
DecodeVal(schema, key, val) ==
  [c \in DOMAIN schema.cols |->
     IF InKey(schema, c) THEN key[c]
     ELSE val[Cardinality({d \in 1..c : ~InKey(schema, d)})]]

\* RowIterator.decodeKVIter: a row behind a key of index i.
RowAt(kv, schema, i, k) ==
  LET index == schema.indices[i]
      cells == DecodeCells(After(k, 3), Len(index))
      key == [c \in DOMAIN schema.cols |->
                IF \E j \in DOMAIN index : index[j] = c
                THEN cells[CHOOSE j \in DOMAIN index : index[j] = c] ELSE Err]
      main == EncodeKey(schema, 1, key)
  IN  IF main \in DOMAIN kv THEN [ok |-> TRUE, row |-> DecodeVal(schema, key, kv[main])]
      ELSE [ok |-> FALSE]      \* inconsistent index

-----------------------------------------------------------------------------
(* Expressions. *)

Column(schema, name) ==
  IF \E c \in DOMAIN schema.cols : schema.cols[c].name = name
  THEN Min({c \in DOMAIN schema.cols : schema.cols[c].name = name}) ELSE 0

Less(a, b) == IF a.type = "i64" THEN a.i < b.i ELSE LessBytes(a.s, b.s)

CmpOps == Ops[4]

\* cmpResult.
Holds(op, less, equal) ==
  CASE op = "=" -> equal [] op = "!=" -> ~equal
    [] op = "<" -> less [] op = "<=" -> less \/ equal
    [] op = ">" -> ~less /\ ~equal [] op = ">=" -> ~less

\* Division truncates towards zero.
Quotient(a, b) ==
  LET Abs(n) == IF n < 0 THEN -n ELSE n
  IN  IF (a < 0) = (b < 0) THEN Abs(a) \div Abs(b) ELSE -(Abs(a) \div Abs(b))

BinaryOp(op, l, r) ==
  IF l.type # r.type THEN Err
  ELSE IF op \in CmpOps THEN Bool(Holds(op, Less(l, r), l = r))
  ELSE IF l.type = "str" THEN IF op = "+" /\ Len(l.s) + Len(r.s) <= MaxString THEN Str(l.s \o r.s) ELSE Err
  ELSE CASE op = "+" -> I64(Wrap(l.i + r.i))
         [] op = "-" -> I64(Wrap(l.i - r.i))
         [] op = "*" -> I64(Wrap(l.i * r.i))
         [] op = "/" -> IF r.i = 0 THEN Err ELSE I64(Wrap(Quotient(l.i, r.i)))
         [] op = "AND" -> Bool(l.i # 0 /\ r.i # 0)
         [] op = "OR" -> Bool(l.i # 0 \/ r.i # 0)

\* evalTupleCmp: the first pair of cells that differ decides, or that cannot be compared.
TupleCmp(op, l, r) ==
  IF Len(l) # Len(r) THEN Err
  ELSE LET bad(i) == l[i].type = "err" \/ l[i].type # r[i].type
           decides == {i \in DOMAIN l : bad(i) \/ (~bad(i) /\ l[i] # r[i])}
       IN  IF decides = {} THEN Bool(Holds(op, FALSE, TRUE))
           ELSE LET i == Min(decides)
                IN  IF bad(i) THEN Err ELSE Bool(Holds(op, Less(l[i], r[i]), FALSE))

\* evalExprAt: a chain of operators may be deeper than the parser's own cap.
RECURSIVE EvalAt(_, _, _, _)
EvalAt(schema, row, e, depth) ==
  IF depth > MaxExprDepth THEN Err ELSE
  CASE e.k = "col" -> LET c == Column(schema, e.name) IN IF c = 0 THEN Err ELSE row[c]
    [] e.k = "cell" -> e.cell
    [] e.k = "tuple" -> Err
    [] e.k = "un" ->
         LET kid == EvalAt(schema, row, e.kid, depth + 1)
         IN  IF kid.type # "i64" THEN Err
             ELSE IF e.op = "-" THEN I64(Wrap(-kid.i)) ELSE Bool(kid.i = 0)
    [] e.k = "bin" ->
         IF e.op \in CmpOps /\ (e.left.k = "tuple" \/ e.right.k = "tuple")
         THEN IF ~(e.left.k = "tuple" /\ e.right.k = "tuple") THEN Err
              ELSE TupleCmp(e.op, [i \in DOMAIN e.left.kids |-> EvalAt(schema, row, e.left.kids[i], depth + 1)],
                                  [i \in DOMAIN e.right.kids |-> EvalAt(schema, row, e.right.kids[i], depth + 1)])
         ELSE LET l == EvalAt(schema, row, e.left, depth + 1)
                  r == EvalAt(schema, row, e.right, depth + 1)
              IN  IF l.type = "err" \/ r.type = "err" THEN Err ELSE BinaryOp(e.op, l, r)

\* evalExpr.
Eval(schema, row, e) == EvalAt(schema, row, e, 0)

\* matchRow: "yes", "no" or "error".
MatchRow(schema, row, cond) ==
  IF cond = NoCond THEN "yes"
  ELSE LET c == Eval(schema, row, cond)
       IN  IF c.type # "i64" THEN "error" ELSE IF c.i # 0 THEN "yes" ELSE "no"
=============================================================================
