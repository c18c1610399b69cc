------------------------------ MODULE SqlText ------------------------------
(* The SQL shown for a query: substitute puts the literals that sql_literal   *)
(* makes of the bound values in the place of the placeholders                 *)
(* (src/src/observers/queries.rs).                                            *)
(*                                                                            *)
(* A text is a sequence of characters: "quote" the single quote, "qm" `?`,    *)
(* "colon", letters, and "other" for the rest. A bound value is a number or a *)
(* string, <<"number", n>> or <<"string", text>>.                             *)
EXTENDS Naturals, SequencesExt

CONSTANTS
  Statements,   \* the texts substitute is called with
  Letters,      \* the characters of names
  Positional,   \* the sequences of values bound by position
  Named,        \* the functions from names to the values bound to them
  StrCap        \* BINDING_STR_CAP

Char  == Letters \cup {"quote", "qm", "colon", "other", "digit", "marker"}
Text  == Seq(Char)
Bound == ({"number"} \X Nat) \cup ({"string"} \X Text)

ASSUME ScanAssumption ==
  /\ Statements \subseteq Text /\ Positional \subseteq Seq(Bound)
  /\ \A names \in Named : names \in [DOMAIN names -> Bound]
  /\ Letters \cap {"quote", "qm", "colon"} = {} /\ StrCap \in Nat

VARIABLES
  sql, positional, named,   \* the arguments
  at,       \* the character read next
  pos,      \* the positional values used
  inStr,    \* within a single-quoted string
  out       \* what is written, each character with its place in sql, or 0

scan == <<sql, positional, named, at, pos, inStr, out>>

-----------------------------------------------------------------------------
(* sql_literal.                                                              *)

\* frame::truncate, of characters that take one byte each.
Truncate(text, cap) ==
  IF Len(text) <= cap THEN text ELSE SubSeq(text, 1, cap) \o <<"marker">>

\* Mutant of Escape: strings are quoted as they are.
AsIs(text) == text

\* replace('\'', "''").
Escape(text) ==
  FlattenSeq([i \in DOMAIN text |-> IF text[i] = "quote" THEN <<"quote", "quote">>
                                                         ELSE <<text[i]>>])

SqlLiteral(value) ==
  IF value[1] = "string" THEN <<"quote">> \o Truncate(Escape(value[2]), StrCap) \o <<"quote">>
                         ELSE <<"digit">>

-----------------------------------------------------------------------------
(* substitute.                                                               *)

Scanned == at > Len(sql)

\* The name after a colon at i: letters, as many as there are.
Reach(i) == CHOOSE n \in i..Len(sql) :
              /\ \A k \in (i + 1)..n : sql[k] \in Letters
              /\ n = Len(sql) \/ sql[n + 1] \notin Letters
NameAt(i) == SubSeq(sql, i + 1, Reach(i))

Copies(last) == out' = out \o [k \in 1..(last - at + 1) |-> <<sql[at + k - 1], at + k - 1>>]
Puts(value) == LET text == SqlLiteral(value)
               IN  out' = out \o [k \in DOMAIN text |-> <<text[k], 0>>]

ScanInit == /\ sql \in Statements /\ positional \in Positional /\ named \in Named
            /\ at = 1 /\ pos = 0 /\ inStr = FALSE /\ out = <<>>

\* A doubled quote is an escaped one, not the end.
InString == /\ ~Scanned /\ inStr
            /\ LET doubled == sql[at] = "quote" /\ at < Len(sql) /\ sql[at + 1] = "quote"
                   last == IF doubled THEN at + 1 ELSE at
               IN  Copies(last) /\ at' = last + 1 /\ inStr' = (sql[at] # "quote" \/ doubled)
            /\ UNCHANGED <<sql, positional, named, pos>>

\* Mutant of OpenString: strings are not told from the rest.
OpensNothing == /\ ~Scanned /\ ~inStr /\ sql[at] = "quote"
                /\ Copies(at) /\ at' = at + 1
                /\ UNCHANGED <<sql, positional, named, pos, inStr>>

OpenString == /\ ~Scanned /\ ~inStr /\ sql[at] = "quote"
              /\ Copies(at) /\ at' = at + 1 /\ inStr' = TRUE
              /\ UNCHANGED <<sql, positional, named, pos>>

QuestionMark ==
  /\ ~Scanned /\ ~inStr /\ sql[at] = "qm"
  /\ IF pos < Len(positional) THEN Puts(positional[pos + 1]) /\ pos' = pos + 1
                              ELSE Copies(at) /\ UNCHANGED pos
  /\ at' = at + 1
  /\ UNCHANGED <<sql, positional, named, inStr>>

Colon == /\ ~Scanned /\ ~inStr /\ sql[at] = "colon"
         /\ IF NameAt(at) \in DOMAIN named /\ NameAt(at) # <<>>
            THEN Puts(named[NameAt(at)]) ELSE Copies(Reach(at))
         /\ at' = Reach(at) + 1
         /\ UNCHANGED <<sql, positional, named, pos, inStr>>

Plain == /\ ~Scanned /\ ~inStr /\ sql[at] \notin {"quote", "qm", "colon"}
         /\ Copies(at) /\ at' = at + 1
         /\ UNCHANGED <<sql, positional, named, pos, inStr>>

ScanNext == InString \/ OpenString \/ QuestionMark \/ Colon \/ Plain

ScanSpec == ScanInit /\ [][ScanNext]_scan

-----------------------------------------------------------------------------
(* Properties.                                                               *)

Quotes(text) == Cardinality({i \in DOMAIN text : text[i] = "quote"})
Odd(n) == n % 2 = 1

\* The place i of sql is within a string literal, as SQL reads it.
Quoted(i) == Odd(Quotes(SubSeq(sql, 1, i - 1)))

\* The values written, by the definition of a placeholder: the k-th `?` outside
\* of strings takes the k-th value, and `:name` the value of exactly that name.
Value(i) ==
  CASE ~Quoted(i) /\ sql[i] = "qm" ->
         LET k == Cardinality({j \in 1..i : sql[j] = "qm" /\ ~Quoted(j)})
         IN  IF k <= Len(positional) THEN SqlLiteral(positional[k]) ELSE <<>>
    [] ~Quoted(i) /\ sql[i] = "colon" /\ NameAt(i) \in DOMAIN named \ {<<>>} ->
         SqlLiteral(named[NameAt(i)])
    [] OTHER -> <<>>

\* i belongs to a name that is replaced.
Replaced(i) == \E j \in 1..(i - 1) : sql[j] = "colon" /\ i <= Reach(j) /\ Value(j) # <<>>

\* What the place i of sql becomes.
Written(i) == IF Value(i) # <<>> THEN [k \in DOMAIN Value(i) |-> <<Value(i)[k], 0>>]
              ELSE IF Replaced(i) THEN <<>> ELSE <<<<sql[i], i>>>>

\* "leaving `?`/`:` inside single-quoted string literals untouched"
\* (queries.rs:356-357): every placeholder outside of strings is replaced by its
\* own value, in order, a name is never mistaken for its prefix, and every other
\* character is kept in its place.
ReplacesPlaceholders == out = FlattenSeq([i \in 1..(at - 1) |-> Written(i)])

\* Literals are "quoted/escaped, bounded" (queries.rs:413): no value that is bound
\* ends a string of the statement shown, or starts one. What was inside of a
\* string still is, and what was outside, too.
StringsStayStrings ==
  \A k \in DOMAIN out :
    LET i == out[k][2]
    IN  i # 0 => (Quoted(i) <=> Odd(Quotes([j \in 1..(k - 1) |-> out[j][1]])))
=============================================================================
