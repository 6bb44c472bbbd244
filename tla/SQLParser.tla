------------------------------ MODULE SQLParser ------------------------------
(***************************************************************************)
(* db/sql_parser.go on sequences of tokens.  A token is a symbol (keyword  *)
(* or punctuation), a name or a literal; how characters make a token is    *)
(* left out, except that a sign is not part of a number.                   *)
(***************************************************************************)
EXTENDS Integers, Sequences

CONSTANTS MaxExprDepth, MaxInt

Sym(v) == [sym |-> v]
Name(v) == [name |-> v]
Lit(c) == [lit |-> c]

I64(n) == [type |-> "i64", i |-> n]
Str(s) == [type |-> "str", s |-> s]

\* Expressions.
Col(n) == [k |-> "col", name |-> n]
Const(c) == [k |-> "cell", cell |-> c]
Un(op, e) == [k |-> "un", op |-> op, kid |-> e]
Bin(op, l, r) == [k |-> "bin", op |-> op, left |-> l, right |-> r]
Tuple(es) == [k |-> "tuple", kids |-> es]

\* The operators of parseOr, parseAnd, parseCmp, parseAdd and parseMul; levels 3 and 7
\* are those of parseNot and parseNeg.
OrLevel == 1
AndLevel == 2
NotLevel == 3
NegLevel == 7
AtomLevel == 8
Ops == <<{"OR"}, {"AND"}, {}, {"=", "!=", "<=", ">=", "<", ">"}, {"+", "-"}, {"*", "/"}, {}>>

\* Each is a token of its own; != has a second one.
OpTokens == [Ops EXCEPT ![4] = @ \cup {"<>"}]
OpOf(token) == IF token = "<>" THEN "!=" ELSE token

-----------------------------------------------------------------------------
(* Every parser takes the tokens that remain and returns what it has       *)
(* parsed and the tokens after that, or fails.                             *)

Failed == [ok |-> FALSE]
Parsed(out, rest) == [ok |-> TRUE, out |-> out, rest |-> rest]
Then(r, F(_)) == IF r.ok THEN F(r) ELSE Failed

Starts(toks, syms) ==
  Len(toks) >= Len(syms) /\ \A i \in 1..Len(syms) : toks[i] = Sym(syms[i])
After(toks, n) == SubSeq(toks, n + 1, Len(toks))
Is(kind, toks) == toks # <<>> /\ kind \in DOMAIN toks[1]
IsName(toks) == Is("name", toks)

RECURSIVE ParseLevel(_, _, _), ParseBinop(_, _, _, _), ParseKids(_, _, _, _), ParseNames(_, _, _)
RECURSIVE ParseLoose(_, _, _)

\* Variant: a chain of operators of one level groups to the right.
ParseBinopRight(n, left, toks, depth) ==
  IF toks # <<>> /\ \E op \in OpTokens[n] : toks[1] = Sym(op)
  THEN Then(ParseLevel(n, Tail(toks), depth),
            LAMBDA r : Parsed(Bin(OpOf(toks[1].sym), left, r.out), r.rest))
  ELSE Parsed(left, toks)

\* parseBinop: a chain of operators of one level groups to the left.
ParseBinop(n, left, toks, depth) ==
  IF toks # <<>> /\ \E op \in OpTokens[n] : toks[1] = Sym(op)
  THEN Then(ParseLevel(n + 1, Tail(toks), depth),
            LAMBDA r : ParseBinop(n, Bin(OpOf(toks[1].sym), left, r.out), r.rest, depth))
  ELSE Parsed(left, toks)

\* parseCommaList over expressions, after the opening parenthesis.
ParseKids(kids, comma, toks, depth) ==
  IF Starts(toks, <<")">>) THEN Parsed(kids, Tail(toks))
  ELSE IF comma /\ ~Starts(toks, <<",">>) THEN Failed
  ELSE Then(ParseLevel(OrLevel, IF comma THEN Tail(toks) ELSE toks, depth),
            LAMBDA r : ParseKids(Append(kids, r.out), TRUE, r.rest, depth))

\* parseValue: an optional sign is part of an integer, which must fit its width.
ParseValue(toks) ==
  LET sign == IF toks = <<>> THEN {} ELSE {x \in {"-", "+"} : toks[1] = Sym(x)}
      t == IF sign = {} THEN toks ELSE Tail(toks)
      n == IF sign = {"-"} THEN -t[1].lit.i ELSE t[1].lit.i
  IN  IF ~Is("lit", t) THEN Failed
      ELSE IF t[1].lit.type = "str" THEN IF sign = {} THEN Parsed(t[1].lit, Tail(t)) ELSE Failed
      ELSE IF n \in -(MaxInt + 1)..MaxInt THEN Parsed(I64(n), Tail(t)) ELSE Failed

\* parseAtom, and parseTuple behind a parenthesis.
ParseAtom(toks, depth) ==
  IF Starts(toks, <<"(">>)
  THEN IF depth >= MaxExprDepth THEN Failed
       ELSE Then(ParseKids(<<>>, FALSE, Tail(toks), depth + 1),
                 LAMBDA r : IF r.out = <<>> THEN Failed
                            ELSE Parsed(IF Len(r.out) = 1 THEN r.out[1] ELSE Tuple(r.out), r.rest))
  ELSE IF IsName(toks) THEN Parsed(Col(toks[1].name), Tail(toks))
  ELSE Then(ParseValue(toks), LAMBDA r : Parsed(Const(r.out), r.rest))

\* parseNot and parseNeg.
ParsePrefix(n, sym, toks, depth) ==
  IF Starts(toks, <<sym>>)
  THEN IF depth >= MaxExprDepth THEN Failed
       ELSE Then(ParseLevel(n, Tail(toks), depth + 1), LAMBDA r : Parsed(Un(sym, r.out), r.rest))
  ELSE ParseLevel(n + 1, toks, depth)

ParseLevel(n, toks, depth) ==
  IF n = AtomLevel THEN ParseAtom(toks, depth)
  ELSE IF n = NotLevel THEN ParsePrefix(n, "NOT", toks, depth)
  ELSE IF n = NegLevel THEN ParsePrefix(n, "-", toks, depth)
  ELSE Then(ParseLevel(n + 1, toks, depth), LAMBDA l : ParseBinop(n, l.out, l.rest, depth))

ParseExpr(toks) == ParseLevel(OrLevel, toks, 0)

-----------------------------------------------------------------------------

NoCond == [k |-> "none"]

ParseWhere(toks) ==
  IF Starts(toks, <<"WHERE">>) THEN ParseExpr(Tail(toks)) ELSE Parsed(NoCond, toks)

\* A statement ends with a semicolon and nothing after it (parseEnd, ParseStmt).
ParseEnd(stmt, toks) == IF toks = <<Sym(";")>> THEN [ok |-> TRUE, stmt |-> stmt] ELSE Failed

\* parseCommaList over names.
ParseNames(names, comma, toks) ==
  IF Starts(toks, <<")">>) THEN Parsed(names, Tail(toks))
  ELSE LET t == IF comma THEN Tail(toks) ELSE toks
       IN  IF toks = <<>> \/ (comma /\ ~Starts(toks, <<",">>)) \/ ~IsName(t) THEN Failed
           ELSE ParseNames(Append(names, t[1].name), TRUE, Tail(t))

\* The items of VALUES (...).
ParseLoose(cells, comma, toks) ==
  IF Starts(toks, <<")">>) THEN Parsed(cells, Tail(toks))
  ELSE IF comma /\ ~Starts(toks, <<",">>) THEN Failed
  ELSE Then(ParseValue(IF comma THEN Tail(toks) ELSE toks),
            LAMBDA r : ParseLoose(Append(cells, r.out), TRUE, r.rest))

\* One item of CREATE TABLE (parseCreateTableItem), and the list of them.
RECURSIVE ParseItems(_, _, _)
ParseItems(out, comma, toks) ==
  IF Starts(toks, <<")">>) THEN Parsed(out, Tail(toks))
  ELSE IF comma /\ ~Starts(toks, <<",">>) THEN Failed
  ELSE LET t == IF comma THEN Tail(toks) ELSE toks
       IN  IF Starts(t, <<"PRIMARY", "KEY", "(">>)
           THEN Then(ParseNames(<<>>, FALSE, After(t, 3)),
                     LAMBDA r : ParseItems([out EXCEPT !.pkey = @ \o r.out], TRUE, r.rest))
           ELSE IF Starts(t, <<"INDEX", "(">>)
           THEN Then(ParseNames(<<>>, FALSE, After(t, 2)),
                     LAMBDA r : ParseItems([out EXCEPT !.indices = Append(@, r.out)], TRUE, r.rest))
           ELSE IF IsName(t) /\ IsName(Tail(t)) /\ t[2].name \in {"i64", "str"}
           THEN ParseItems([out EXCEPT !.cols = Append(@, [name |-> t[1].name, type |-> t[2].name])], TRUE, After(t, 2))
           ELSE Failed

\* The assignments of UPDATE ... SET (parseAssign).
RECURSIVE ParseAssigns(_, _)
ParseAssigns(out, toks) ==
  IF ~(IsName(toks) /\ Starts(Tail(toks), <<"=">>)) THEN Failed
  ELSE Then(ParseExpr(After(toks, 2)),
            LAMBDA r : LET assigns == Append(out, [column |-> toks[1].name, expr |-> r.out])
                       IN  IF Starts(r.rest, <<",">>) THEN ParseAssigns(assigns, Tail(r.rest))
                           ELSE Parsed(assigns, r.rest))

\* LIMIT n [OFFSET m] (parseLimit, parseCount).
ParseCount(word, default, toks) ==
  IF ~Starts(toks, <<word>>) THEN Parsed(default, toks)
  ELSE Then(ParseValue(Tail(toks)),
            LAMBDA r : IF r.out.type = "i64" /\ r.out.i >= 0 THEN Parsed(r.out.i, r.rest) ELSE Failed)

\* The select list: `*` where a whole item is expected (tryStar), or expressions.
Star == [k |-> "star"]
RECURSIVE ParseColumns(_, _)
ParseColumns(out, toks) ==
  IF Starts(toks, <<"FROM">>) THEN IF out = <<>> THEN Failed ELSE Parsed(out, toks)
  ELSE IF out # <<>> /\ ~Starts(toks, <<",">>) THEN Failed
  ELSE LET t == IF out = <<>> THEN toks ELSE Tail(toks)
       IN  IF Starts(t, <<"*", "FROM">>) \/ Starts(t, <<"*", ",">>) THEN ParseColumns(Append(out, Star), Tail(t))
           ELSE Then(ParseExpr(t), LAMBDA r : ParseColumns(Append(out, r.out), r.rest))

ParseLimit(toks) ==
  Then(ParseCount("LIMIT", -1, toks),
       LAMBDA l : Then(IF l.out = -1 THEN Parsed(0, l.rest) ELSE ParseCount("OFFSET", 0, l.rest),
                       LAMBDA o : Parsed([limit |-> l.out, offset |-> o.out], o.rest)))

ParseSelect(toks) ==
  Then(ParseColumns(<<>>, toks),
       LAMBDA list :
         IF ~(Starts(list.rest, <<"FROM">>) /\ IsName(Tail(list.rest))) THEN Failed
         ELSE Then(ParseWhere(After(list.rest, 2)),
                   LAMBDA w : Then(ParseLimit(w.rest),
                                   LAMBDA l : ParseEnd([op |-> "select", proj |-> list.out, cond |-> w.out,
                                                        limit |-> l.out.limit, offset |-> l.out.offset], l.rest))))

\* parseStmt, with the table's name checked to be one.
ParseStmt(toks) ==
  IF Starts(toks, <<"SELECT">>) THEN ParseSelect(Tail(toks))
  ELSE IF Starts(toks, <<"UPDATE">>) /\ IsName(Tail(toks)) /\ Starts(After(toks, 2), <<"SET">>)
  THEN Then(ParseAssigns(<<>>, After(toks, 3)),
            LAMBDA a : Then(ParseWhere(a.rest),
                            LAMBDA w : ParseEnd([op |-> "update", set |-> a.out, cond |-> w.out], w.rest)))
  ELSE IF ~IsName(After(toks, 2)) THEN Failed
  ELSE IF Starts(toks, <<"CREATE", "TABLE">>) /\ Starts(After(toks, 3), <<"(">>)
  THEN Then(ParseItems([cols |-> <<>>, pkey |-> <<>>, indices |-> <<>>], FALSE, After(toks, 4)),
            LAMBDA r : ParseEnd([op |-> "create", def |-> r.out], r.rest))
  ELSE IF Starts(toks, <<"INSERT", "INTO">>) /\ Starts(After(toks, 3), <<"VALUES", "(">>)
  THEN Then(ParseLoose(<<>>, FALSE, After(toks, 5)),
            LAMBDA r : ParseEnd([op |-> "insert", row |-> r.out], r.rest))
  ELSE IF Starts(toks, <<"DELETE", "FROM">>)
  THEN Then(ParseWhere(After(toks, 3)), LAMBDA w : ParseEnd([op |-> "delete", cond |-> w.out], w.rest))
  ELSE IF Starts(toks, <<"DROP", "TABLE">>) THEN ParseEnd([op |-> "drop"], After(toks, 3))
  ELSE Failed
=============================================================================
