--------------------------- MODULE PayloadProofs ---------------------------
(* Proofs about the loops that make a payload: for call stacks of any depth,  *)
(* texts and heaps of any size, and any bounds.                               *)
EXTENDS CallSite, SqlText, FrameText, Render, SequenceLemmas

-----------------------------------------------------------------------------
(* caller_location, where directories are separated as is_internal_path       *)
(* expects.                                                                   *)

\* What the stacks are made of, on a platform whose separator is "/".
Posix == Separator = "slash" /\ Stacks \subseteq Seq(FrameRecord)

WalkType == frames \in Seq(FrameRecord)

\* The loop invariant of caller_location.
LEMMA WalkKept == Posix /\ WalkType /\ WalkInv /\ [WalkNext]_walk => WalkType' /\ WalkInv'
<1> SUFFICES ASSUME Posix, WalkType, WalkInv, [WalkNext]_walk PROVE WalkType' /\ WalkInv'
    OBVIOUS
<1>1. /\ Len(frames) \in Nat /\ frames' = frames
      /\ \A i : App(i)' <=> App(i)
  BY DEF WalkType, WalkNext, WalkPast, Found, FallBack, walk, App, HasFile, Vendor
<1>2. ASSUME ~WalkOver PROVE cur \in 1..Len(frames) /\ site = 0
  BY <1>1, <1>2 DEF WalkOver, WalkInv
<1>3. CASE WalkPast
  BY <1>1, <1>2, <1>3 DEF WalkPast, WalkInv, App, WalkType
<1>4. CASE Found
  BY <1>1, <1>2, <1>4 DEF Found, WalkInv, App, IsInternalPath, Posix, WalkType
<1>5. CASE FallBack
  BY <1>1, <1>2, <1>5 DEF FallBack, WalkInv, App, IsInternalPath, WalkType
<1>6. CASE UNCHANGED walk
  BY <1>1, <1>6 DEF walk, WalkInv, WalkType
<1> QED
  BY <1>3, <1>4, <1>5, <1>6 DEF WalkNext

\* The loop invariant always holds.
LEMMA WalkAlways == ASSUME Posix PROVE WalkSpec => [](WalkType /\ WalkInv)
<1>1. WalkInit => WalkType /\ WalkInv
  BY DEF Posix, WalkInit, WalkType, WalkInv
<1>2. WalkType /\ WalkInv /\ [WalkNext]_walk => WalkType' /\ WalkInv'
  BY WalkKept
<1> QED
  BY <1>1, <1>2, PTL DEF WalkSpec

\* On such a platform the nearest application frame is reported, whatever lies
\* between it and the observed call.
THEOREM VendorSkipped == ASSUME Posix PROVE WalkSpec => []SkipsVendor
<1>1. WalkType /\ WalkInv => SkipsVendor
  BY DEF WalkType, WalkInv, SkipsVendor, WalkOver, Location
<1> QED
  BY <1>1, WalkAlways, PTL

\* Without one, the nearest userland frame is.
THEOREM NearestFound == ASSUME Posix PROVE WalkSpec => []NearestOtherwise
<1>1. WalkType /\ WalkInv => NearestOtherwise
  BY DEF WalkType, WalkInv, NearestOtherwise, WalkOver, Location, App
<1> QED
  BY <1>1, WalkAlways, PTL

-----------------------------------------------------------------------------
(* substitute.                                                               *)

Cell == Char \X Nat

Taken(n) == Cardinality({j \in 1..n : sql[j] = "qm" /\ ~Quoted(j)})

ScanType ==
  /\ sql \in Text /\ positional \in Seq(Bound) /\ named \in [DOMAIN named -> Bound]
  /\ at \in 1..(Len(sql) + 1) /\ pos \in 0..Len(positional) /\ inStr \in BOOLEAN

\* The loop invariant of substitute: the scanner knows whether it is within a
\* string and how many values are taken, and is past every name it replaced.
ScanInv ==
  /\ inStr <=> Quoted(at)
  /\ pos = IF Taken(at - 1) <= Len(positional) THEN Taken(at - 1) ELSE Len(positional)
  /\ \A j \in 1..(at - 1) : sql[j] = "colon" /\ Value(j) # <<>> => Reach(j) < at

\* The characters a literal is made of, beside those of the value.
LEMMA Characters ==
  "quote" \in Char /\ "marker" \in Char /\ "digit" \in Char
BY DEF Char

\* The escaped characters of a text, and the first n of them.
Escapes(text) == [i \in 1..Len(text) |-> IF text[i] = "quote" THEN <<"quote", "quote">>
                                                            ELSE <<text[i]>>]

\* Escape puts them together one by one, and makes a text.
LEMMA EscapeUpto ==
  ASSUME NEW text \in Text
  PROVE  /\ Escapes(text) \in [1..Len(text) -> Seq(Char)]
         /\ Escape(text) = FlattenSeq(Upto(Escapes(text), Len(text)))
         /\ Escape(text) \in Text
<1>1. Len(text) \in Nat /\ DOMAIN text = 1..Len(text) /\ text \in [1..Len(text) -> Char]
  BY LenProperties DEF Text
<1>2. Escapes(text) \in [1..Len(text) -> Seq(Char)]
  <2> SUFFICES ASSUME NEW i \in 1..Len(text)
               PROVE  (IF text[i] = "quote" THEN <<"quote", "quote">> ELSE <<text[i]>>) \in Seq(Char)
    BY DEF Escapes
  <2> QED BY <1>1, Characters
<1>3. Upto(Escapes(text), Len(text)) = [i \in DOMAIN text |-> IF text[i] = "quote" THEN <<"quote", "quote">>
                                                            ELSE <<text[i]>>]
  BY <1>1 DEF Escapes, Upto
<1>4. Escape(text) = FlattenSeq(Upto(Escapes(text), Len(text)))
  BY <1>3 DEF Escape
<1>5. FlattenSeq(Upto(Escapes(text), Len(text))) \in Seq(Char)
  <2>1. \A i \in 1..Len(text) : Escapes(text)[i] \in Seq(Char)
    BY <1>2
  <2> QED BY <1>1, <2>1, FlattenType
<1> QED BY <1>2, <1>4, <1>5 DEF Text

\* A literal is a text, and never empty.
LEMMA LiteralType ==
  ASSUME NEW value \in Bound
  PROVE  SqlLiteral(value) \in Text /\ SqlLiteral(value) # <<>>
<1>1. CASE value \in {"number"} \X Nat
  <2>1. SqlLiteral(value) = <<"digit">>
    BY <1>1 DEF SqlLiteral
  <2> QED BY <2>1, Characters DEF Text
<1>2. CASE value \in {"string"} \X Text
  <2> DEFINE e == Escape(value[2])
             t == Truncate(e, StrCap)
  <2>1. e \in Seq(Char) /\ Len(e) \in Nat
    BY <1>2, EscapeUpto, LenProperties DEF Text
  <2>2. t \in Seq(Char)
    <3>1. CASE Len(e) <= StrCap
      BY <2>1, <3>1 DEF Truncate
    <3>2. CASE ~ (Len(e) <= StrCap)
      <4>1. SubSeq(e, 1, StrCap) \in Seq(Char)
        BY <2>1, <3>2, SubSeqProperties, ScanAssumption
      <4>2. <<"marker">> \in Seq(Char)
        BY Characters
      <4> QED BY <3>2, <4>1, <4>2, ConcatProperties DEF Truncate
    <3> QED BY <3>1, <3>2
  <2>3. SqlLiteral(value) = (<<"quote">> \o t) \o <<"quote">>
    BY <1>2 DEF SqlLiteral
  <2>4. <<"quote">> \in Seq(Char) /\ Len(<<"quote">>) = 1
    BY Characters
  <2> HIDE DEF t
  <2>5. <<"quote">> \o t \in Seq(Char)
    BY <2>2, <2>4, ConcatProperties
  <2>6. (<<"quote">> \o t) \o <<"quote">> \in Seq(Char)
    BY <2>4, <2>5, ConcatProperties
  <2>7. (<<"quote">> \o t) \o <<"quote">> # <<>>
    BY <2>4, <2>5, ConcatEqualIffEmpty
  <2> QED BY <2>3, <2>6, <2>7 DEF Text
<1> QED BY <1>1, <1>2 DEF Bound

\* A name ends where it ends.
LEMMA ReachIs ==
  ASSUME sql \in Text, NEW i \in 1..Len(sql)
  PROVE  Reach(i) \in i..Len(sql) /\ \A k \in (i + 1)..Reach(i) : sql[k] \in Letters
<1> DEFINE T == {n \in i..Len(sql) : n = Len(sql) \/ sql[n + 1] \notin Letters}
<1>1. Len(sql) \in Nat
  BY LenProperties DEF Text
<1>2. T \subseteq Nat /\ Len(sql) \in T
  BY <1>1
<1>3. PICK n \in T : \A m \in T : n <= m
  BY <1>2, LeastOf
<1>4. ASSUME NEW k \in (i + 1)..n PROVE sql[k] \in Letters
  <2>1. k - 1 \in i..Len(sql) /\ (k - 1) + 1 = k /\ ~ (n <= k - 1) /\ k - 1 # Len(sql)
    BY <1>1
  <2>2. k - 1 \notin T
    BY <1>3, <2>1
  <2> QED BY <2>1, <2>2
<1>5. \E m \in i..Len(sql) : /\ \A k \in (i + 1)..m : sql[k] \in Letters
                             /\ m = Len(sql) \/ sql[m + 1] \notin Letters
  BY <1>4
<1> QED BY <1>5 DEF Reach

\* A character more is a quote more if it is one.
LEMMA QuotesNext ==
  ASSUME NEW text, NEW n \in Nat
  PROVE  /\ Quotes(Upto(text, 0)) = 0
         /\ Quotes(Upto(text, n)) \in Nat
         /\ Quotes(Upto(text, n + 1)) = Quotes(Upto(text, n)) + (IF text[n + 1] = "quote" THEN 1 ELSE 0)
<1> DEFINE A == {k \in Nat : text[k] = "quote"}
<1>1. ASSUME NEW m \in Nat PROVE Quotes(Upto(text, m)) = Cardinality((1..m) \cap A)
  <2>1. {k \in DOMAIN Upto(text, m) : Upto(text, m)[k] = "quote"} = (1..m) \cap A
    BY DEF Upto
  <2> QED BY <2>1 DEF Quotes
<1>2. n + 1 \in A <=> text[n + 1] = "quote"
  OBVIOUS
<1>3. 0 \in Nat /\ n + 1 \in Nat
  OBVIOUS
<1> HIDE DEF A
<1>4. Quotes(Upto(text, 0)) = 0
  BY <1>1, <1>3, CountNone
<1>5. /\ Quotes(Upto(text, n)) = Cardinality((1..n) \cap A)
      /\ Quotes(Upto(text, n + 1)) = Cardinality((1..(n + 1)) \cap A)
  BY <1>1, <1>3
<1> QED BY <1>2, <1>4, <1>5, CountNext

\* Parity changes with each number.
LEMMA OddNext ==
  ASSUME NEW n \in Nat
  PROVE  Odd(n + 1) <=> ~Odd(n)
BY DEF Odd

\* A place is quoted or not as the one before, unless a quote is between.
LEMMA QuotedNext ==
  ASSUME sql \in Text, NEW i \in 1..Len(sql)
  PROVE  Quoted(i + 1) <=> IF sql[i] = "quote" THEN ~Quoted(i) ELSE Quoted(i)
<1>1. Len(sql) \in Nat /\ \A k \in 1..Len(sql) : sql[k] \in Char
  BY LenProperties, ElementOfSeq DEF Text
<1>2. ASSUME NEW n \in 0..Len(sql) PROVE SubSeq(sql, 1, n) = Upto(sql, n)
  BY <1>1 DEF Upto
<1>3. PICK n \in Nat : i = n + 1 /\ n \in 0..Len(sql) /\ i \in 0..Len(sql) /\ i - 1 = n /\ (i + 1) - 1 = i
  <2>1. i - 1 \in Nat /\ i = (i - 1) + 1 /\ i - 1 \in 0..Len(sql) /\ i \in 0..Len(sql) /\ (i + 1) - 1 = i
    BY <1>1
  <2> QED BY <2>1
<1>4. /\ Quoted(i) <=> Odd(Quotes(Upto(sql, n)))
      /\ Quoted(i + 1) <=> Odd(Quotes(Upto(sql, n + 1)))
  BY <1>2, <1>3 DEF Quoted
<1> DEFINE q == Quotes(Upto(sql, n))
           r == Quotes(Upto(sql, n + 1))
<1>5. q \in Nat /\ r = q + (IF sql[n + 1] = "quote" THEN 1 ELSE 0)
  BY QuotesNext
<1>6. (Quoted(i) <=> Odd(q)) /\ (Quoted(i + 1) <=> Odd(r))
  BY <1>4
<1> HIDE DEF q, r
<1>7. CASE sql[i] = "quote"
  <2>1. Odd(r) <=> ~Odd(q)
    BY <1>3, <1>5, <1>7, OddNext
  <2> QED BY <1>6, <1>7, <2>1
<1>8. CASE sql[i] # "quote"
  <2>1. r = q
    BY <1>3, <1>5, <1>8
  <2> QED BY <1>6, <1>8, <2>1
<1> QED BY <1>7, <1>8

\* The arguments stay as they are, and what is defined by them.
LEMMA ScanFrame ==
  ASSUME sql' = sql, positional' = positional, named' = named
  PROVE  /\ \A i : Quoted(i)' <=> Quoted(i)
         /\ \A i : Reach(i)' = Reach(i)
         /\ \A i : Value(i)' = Value(i)
         /\ \A i : Written(i)' = Written(i)
         /\ \A n : Taken(n)' = Taken(n)
<1>1. \A i : Quoted(i)' <=> Quoted(i)
  BY DEF Quoted
<1>2. \A i : Reach(i)' = Reach(i)
  BY DEF Reach
<1>3. \A i : NameAt(i)' = NameAt(i)
  BY <1>2 DEF NameAt
<1>4. \A n : Taken(n)' = Taken(n)
  BY <1>1 DEF Taken
<1>5. \A i : Value(i)' = Value(i)
  BY <1>1, <1>3 DEF Value
<1>6. \A i : Written(i)' = Written(i)
  BY <1>2, <1>5 DEF Written, Replaced
<1> QED BY <1>1, <1>2, <1>4, <1>5, <1>6

\* The values taken grow by one at each placeholder.
LEMMA TakenNext ==
  ASSUME NEW n \in Nat
  PROVE  /\ Taken(0) = 0
         /\ Taken(n) \in Nat
         /\ Taken(n + 1) = Taken(n) + (IF sql[n + 1] = "qm" /\ ~Quoted(n + 1) THEN 1 ELSE 0)
<1> DEFINE A == {j \in Nat : sql[j] = "qm" /\ ~Quoted(j)}
<1>1. ASSUME NEW m \in Nat PROVE Taken(m) = Cardinality((1..m) \cap A)
  <2>1. {j \in 1..m : sql[j] = "qm" /\ ~Quoted(j)} = (1..m) \cap A
    OBVIOUS
  <2> QED BY <2>1 DEF Taken
<1>2. n + 1 \in A <=> sql[n + 1] = "qm" /\ ~Quoted(n + 1)
  OBVIOUS
<1>3. 0 \in Nat /\ n \in Nat /\ n + 1 \in Nat
  OBVIOUS
<1> HIDE DEF A
<1>4. Taken(0) = 0
  BY <1>1, <1>3, CountNone
<1>5. Taken(n) = Cardinality((1..n) \cap A) /\ Taken(n + 1) = Cardinality((1..(n + 1)) \cap A)
  BY <1>1, <1>3
<1> QED BY <1>2, <1>4, <1>5, CountNext

\* A placeholder has a value of at least one character.
LEMMA ValueType ==
  ASSUME ScanType, NEW i \in 1..Len(sql)
  PROVE  Value(i) \in Text
<1>1. <<>> \in Text
  BY EmptySeq DEF Text
<1>2. CASE Quoted(i)
  <2>1. Value(i) = <<>>
    BY <1>2 DEF Value
  <2> QED BY <1>1, <2>1
<1>3. CASE ~Quoted(i) /\ sql[i] = "qm"
  <2> DEFINE k == Taken(i)
  <2>1. Value(i) = IF k <= Len(positional) THEN SqlLiteral(positional[k]) ELSE <<>>
    BY <1>3 DEF Value, Taken
  <2>2. PICK n \in Nat : i = n + 1
    <3>1. i - 1 \in Nat /\ i = (i - 1) + 1
      BY LenProperties DEF ScanType, Text
    <3> QED BY <3>1
  <2>3. Taken(n) \in Nat /\ k = Taken(n) + 1
    BY <1>3, <2>2, TakenNext
  <2>4. Len(positional) \in Nat
    BY LenProperties DEF ScanType
  <2>5. CASE k <= Len(positional)
    <3>1. k \in 1..Len(positional)
      BY <2>3, <2>4, <2>5
    <3>2. positional[k] \in Bound
      BY <3>1, ElementOfSeq DEF ScanType
    <3> QED BY <2>1, <2>5, <3>2, LiteralType
  <2>6. CASE ~ (k <= Len(positional))
    BY <1>1, <2>1, <2>6
  <2> QED BY <2>5, <2>6
<1>4. CASE ~Quoted(i) /\ sql[i] # "qm" /\ sql[i] = "colon" /\ NameAt(i) \in DOMAIN named \ {<<>>}
  <2>1. Value(i) = SqlLiteral(named[NameAt(i)])
    BY <1>4 DEF Value
  <2>2. named[NameAt(i)] \in Bound
    BY <1>4 DEF ScanType
  <2> QED BY <2>1, <2>2, LiteralType
<1>5. CASE /\ ~Quoted(i) /\ sql[i] # "qm"
           /\ ~ (sql[i] = "colon" /\ NameAt(i) \in DOMAIN named \ {<<>>})
  <2>1. Value(i) = <<>>
    BY <1>5 DEF Value
  <2> QED BY <1>1, <2>1
<1> QED BY <1>2, <1>3, <1>4, <1>5

Literal(text) == [k \in DOMAIN text |-> <<text[k], 0>>]

\* A literal is written as cells that come from no place of the statement.
LEMMA LiteralCells ==
  ASSUME NEW text \in Text
  PROVE  Literal(text) \in Seq(Cell) /\ Len(Literal(text)) = Len(text)
<1>1. Len(text) \in Nat /\ DOMAIN text = 1..Len(text) /\ \A k \in 1..Len(text) : text[k] \in Char
  BY LenProperties, ElementOfSeq DEF Text
<1>2. Literal(text) = [k \in 1..Len(text) |-> <<text[k], 0>>]
  BY <1>1 DEF Literal
<1>3. \A k \in 1..Len(text) : <<text[k], 0>> \in Cell
  BY <1>1 DEF Cell
<1> QED BY <1>1, <1>2, <1>3

\* What each place of sql becomes.
Pieces == [i \in 1..Len(sql) |-> Written(i)]
Cells  == [i \in 1..Len(sql) |-> <<sql[i], i>>]

\* Each place becomes a sequence of cells.
LEMMA WrittenType ==
  ASSUME ScanType
  PROVE  Pieces \in [1..Len(sql) -> Seq(Cell)] /\ Cells \in [1..Len(sql) -> Cell]
<1>1. Len(sql) \in Nat /\ \A i \in 1..Len(sql) : sql[i] \in Char
  BY LenProperties, ElementOfSeq DEF ScanType, Text
<1>2. \A i \in 1..Len(sql) : <<sql[i], i>> \in Cell
  BY <1>1 DEF Cell
<1>3. ASSUME NEW i \in 1..Len(sql) PROVE Written(i) \in Seq(Cell)
  <2>1. Literal(Value(i)) \in Seq(Cell)
    BY ValueType, LiteralCells
  <2>2. <<>> \in Seq(Cell)
    BY EmptySeq
  <2>3. <<<<sql[i], i>>>> \in Seq(Cell)
    BY <1>2
  <2>4. \/ Written(i) = Literal(Value(i)) \/ Written(i) = <<>> \/ Written(i) = <<<<sql[i], i>>>>
    BY DEF Written, Literal
  <2> QED BY <2>1, <2>2, <2>3, <2>4
<1> QED BY <1>2, <1>3 DEF Pieces, Cells

\* The text written up to a place, by the definition of a placeholder.
LEMMA WrittenUpto ==
  ASSUME ScanType, NEW n \in 0..Len(sql)
  PROVE  [i \in 1..n |-> Written(i)] = Upto(Pieces, n)
<1>1. Len(sql) \in Nat
  BY LenProperties DEF ScanType, Text
<1> QED BY <1>1 DEF Pieces, Upto

\* The numbers of a scan are numbers, and its statement is of characters.
LEMMA ScanSizes ==
  ASSUME ScanType
  PROVE  /\ Len(sql) \in Nat /\ Len(positional) \in Nat /\ at \in Nat /\ pos \in Nat
         /\ \A i \in 1..Len(sql) : sql[i] \in Char
BY LenProperties, ElementOfSeq DEF ScanType, Text

\* Between quotes, what is quoted stays so.
LEMMA QuotedSame ==
  ASSUME ScanType, NEW a \in 1..(Len(sql) + 1), NEW b \in a..(Len(sql) + 1),
         \A i \in a..(b - 1) : sql[i] # "quote"
  PROVE  Quoted(b) <=> Quoted(a)
<1>1. ASSUME NEW n \in 0..Len(sql)
      PROVE  Quotes(SubSeq(sql, 1, n)) = Cardinality({k \in 1..n : sql[k] = "quote"})
  <2>1. SubSeq(sql, 1, n) = [k \in 1..n |-> sql[k]]
    BY ScanSizes DEF ScanType, Text
  <2>2. {k \in DOMAIN SubSeq(sql, 1, n) : SubSeq(sql, 1, n)[k] = "quote"} = {k \in 1..n : sql[k] = "quote"}
    BY <2>1
  <2> QED BY <2>2 DEF Quotes
<1>2. {k \in 1..(b - 1) : sql[k] = "quote"} = {k \in 1..(a - 1) : sql[k] = "quote"}
  BY ScanSizes
<1>3. a - 1 \in 0..Len(sql) /\ b - 1 \in 0..Len(sql)
  BY ScanSizes
<1>4. Quotes(SubSeq(sql, 1, a - 1)) = Quotes(SubSeq(sql, 1, b - 1))
  BY <1>1, <1>2, <1>3
<1> QED BY <1>4 DEF Quoted

\* Between placeholders, as many are taken.
LEMMA TakenSame ==
  ASSUME NEW a \in Nat, NEW b \in Nat, a <= b,
         \A i \in (a + 1)..b : ~ (sql[i] = "qm" /\ ~Quoted(i))
  PROVE  Taken(b) = Taken(a)
<1>1. {j \in 1..b : sql[j] = "qm" /\ ~Quoted(j)} = {j \in 1..a : sql[j] = "qm" /\ ~Quoted(j)}
  OBVIOUS
<1> QED BY <1>1 DEF Taken

\* A character is copied where nothing is bound.
LEMMA Copying ==
  ASSUME ScanType, ScanInv, ReplacesPlaceholders, sql' = sql, positional' = positional, named' = named,
         NEW last \in at..Len(sql), \A i \in at..last : Value(i) = <<>>,
         Copies(last), at' = last + 1
  PROVE  /\ ReplacesPlaceholders'
         /\ \A j \in 1..last : sql[j] = "colon" /\ Value(j) # <<>> => Reach(j) < at'
<1>0. /\ Len(sql) \in Nat /\ at \in 1..(Len(sql) + 1) /\ at - 1 \in Nat /\ last \in (at - 1)..Len(sql)
      /\ (at - 1) + 1 = at /\ at - 1 \in 0..Len(sql) /\ last \in 0..Len(sql) /\ (last + 1) - 1 = last
      /\ last \in Nat
  BY ScanSizes DEF ScanType
<1>1. ASSUME NEW j \in 1..last, sql[j] = "colon", Value(j) # <<>> PROVE Reach(j) < at /\ j < at
  <2>1. j \in 1..(at - 1)
    BY <1>0, <1>1
  <2> QED BY <1>0, <1>1, <2>1 DEF ScanInv
<1>2. ASSUME NEW j \in 1..last, sql[j] = "colon", Value(j) # <<>> PROVE Reach(j) < at'
  <2>1. Reach(j) \in j..Len(sql)
    BY <1>0, ReachIs DEF ScanType
  <2> QED BY <1>0, <1>1, <1>2, <2>1
<1>3. ASSUME NEW i \in at..last PROVE Written(i) = <<<<sql[i], i>>>>
  <2>1. ASSUME NEW j \in 1..(i - 1), sql[j] = "colon", i <= Reach(j), Value(j) # <<>> PROVE FALSE
    <3>1. j \in 1..last
      BY <1>0
    <3>2. Reach(j) < at /\ Reach(j) \in j..Len(sql)
      BY <1>0, <1>1, <2>1, <3>1, ReachIs DEF ScanType
    <3> QED BY <1>0, <2>1, <3>2
  <2>2. ~Replaced(i) /\ Value(i) = <<>>
    BY <2>1 DEF Replaced
  <2> QED BY <2>2 DEF Written
<1>4. \A i \in ((at - 1) + 1)..last : Pieces[i] = <<Cells[i]>>
  BY <1>0, <1>3 DEF Pieces, Cells
<1>5. FlattenSeq(Upto(Pieces, last)) =
        FlattenSeq(Upto(Pieces, at - 1)) \o Between(Cells, at - 1, last)
  <2>1. Pieces \in [1..Len(sql) -> Seq(Cell)] /\ Cells \in [1..Len(sql) -> Cell]
    BY WrittenType
  <2>2. /\ \A i \in 1..last : Pieces[i] \in Seq(Cell)
        /\ \A i \in ((at - 1) + 1)..last : Pieces[i] = <<Cells[i]>> /\ Cells[i] \in Cell
    BY <1>0, <1>4, <2>1
  <2>3. PICK a \in Nat : a = at - 1
    BY <1>0
  <2>4. a <= last
    BY <1>0, <2>3
  <2>5. Spells(Cell, Pieces, Cells, a, last)
    BY <1>0, <2>2, <2>3, <2>4 DEF Spells
  <2>6. FlattenSeq(Upto(Pieces, last)) = FlattenSeq(Upto(Pieces, a)) \o Between(Cells, a, last)
    BY <2>5, FlattenCells
  <2> QED BY <2>3, <2>6
<1>6. Between(Cells, at - 1, last) =
        [k \in 1..(last - at + 1) |-> <<sql[at + k - 1], at + k - 1>>]
  <2>1. last - (at - 1) = last - at + 1
    BY <1>0
  <2>2. \A k \in 1..(last - at + 1) : (at - 1) + k = at + k - 1 /\ at + k - 1 \in 1..Len(sql)
    BY <1>0
  <2> QED BY <2>1, <2>2 DEF Cells, Between
<1>7. out = FlattenSeq(Upto(Pieces, at - 1))
  BY <1>0, WrittenUpto DEF ReplacesPlaceholders
<1>8. out' = FlattenSeq(Upto(Pieces, last))
  BY <1>5, <1>6, <1>7 DEF Copies
<1>9. out' = FlattenSeq([i \in 1..last |-> Written(i)])
  BY <1>0, <1>8, WrittenUpto
<1>10. [i \in 1..(at' - 1) |-> Written(i)'] = [i \in 1..last |-> Written(i)]
  BY <1>0, ScanFrame
<1> QED BY <1>2, <1>9, <1>10 DEF ReplacesPlaceholders

\* A placeholder is replaced.
LEMMA Putting ==
  ASSUME ScanType, ScanInv, ReplacesPlaceholders, sql' = sql, positional' = positional, named' = named,
         NEW last \in at..Len(sql), NEW value \in Bound, Value(at) = SqlLiteral(value),
         \A i \in (at + 1)..last : Value(i) = <<>> /\ Replaced(i),
         Puts(value), at' = last + 1
  PROVE  ReplacesPlaceholders'
<1>0. /\ Len(sql) \in Nat /\ at \in 1..Len(sql) /\ at - 1 \in Nat /\ at \in Nat /\ last \in at..Len(sql)
      /\ (at - 1) + 1 = at /\ at - 1 \in 0..Len(sql) /\ at - 1 < Len(sql)
      /\ last \in 0..Len(sql) /\ (last + 1) - 1 = last
  BY ScanSizes DEF ScanType
<1>1. Pieces[at] = Literal(SqlLiteral(value))
  BY <1>0, LiteralType DEF Pieces, Written, Literal
<1>2. \A i \in (at + 1)..last : Pieces[i] = <<>>
  BY <1>0 DEF Pieces, Written
<1>3. FlattenSeq(Upto(Pieces, at)) = FlattenSeq(Upto(Pieces, at - 1)) \o Pieces[at]
  <2>1. FlattenSeq(Upto(Pieces, (at - 1) + 1)) = FlattenSeq(Upto(Pieces, at - 1)) \o Pieces[(at - 1) + 1]
    <3>1. \A i \in 1..((at - 1) + 1) : Pieces[i] \in Seq(Cell)
      BY <1>0, WrittenType
    <3> QED BY <1>0, <3>1, FlattenNext
  <2> QED BY <1>0, <2>1
<1>4. FlattenSeq(Upto(Pieces, last)) = FlattenSeq(Upto(Pieces, at))
  <2>1. Pieces \in [1..Len(sql) -> Seq(Cell)]
    BY WrittenType
  <2>2. /\ at <= last /\ last \in Nat
        /\ \A i \in 1..last : Pieces[i] \in Seq(Cell)
    BY <1>0, <2>1
  <2> QED BY <1>0, <1>2, <2>2, FlattenNothing
<1>5. out = FlattenSeq(Upto(Pieces, at - 1))
  BY <1>0, WrittenUpto DEF ReplacesPlaceholders
<1>6. out' = FlattenSeq(Upto(Pieces, last))
  BY <1>1, <1>3, <1>4, <1>5 DEF Puts, Literal
<1>7. out' = FlattenSeq([i \in 1..last |-> Written(i)])
  BY <1>0, <1>6, WrittenUpto
<1>8. [i \in 1..(at' - 1) |-> Written(i)'] = [i \in 1..last |-> Written(i)]
  BY <1>0, ScanFrame
<1> QED BY <1>7, <1>8 DEF ReplacesPlaceholders

\* The invariant of the scan holds at first ..
LEMMA ScanStarts == ScanInit => ScanType /\ ScanInv /\ ReplacesPlaceholders
<1> SUFFICES ASSUME ScanInit PROVE ScanType /\ ScanInv /\ ReplacesPlaceholders
  OBVIOUS
<1>1. sql \in Text /\ positional \in Seq(Bound) /\ named \in [DOMAIN named -> Bound]
  BY ScanAssumption DEF ScanInit
<1>2. Len(sql) \in Nat /\ Len(positional) \in Nat
  BY <1>1, LenProperties DEF Text
<1>3. ScanType
  <2>1. 1 \in 1..(Len(sql) + 1) /\ 0 \in 0..Len(positional)
    BY <1>2
  <2> QED BY <1>1, <2>1 DEF ScanType, ScanInit
<1>4. ~Quoted(1)
  <2>1. SubSeq(sql, 1, 1 - 1) = <<>> /\ DOMAIN <<>> = {}
    OBVIOUS
  <2>2. {i \in DOMAIN <<>> : (<<>>)[i] = "quote"} = {}
    BY <2>1
  <2>3. Quotes(<<>>) = 0
    BY <2>2, FS_EmptySet DEF Quotes
  <2>4. Quotes(SubSeq(sql, 1, 1 - 1)) = 0
    BY <2>1, <2>3
  <2> QED BY <2>4 DEF Quoted, Odd
<1>5. Taken(at - 1) = 0
  BY TakenNext DEF ScanInit
<1>6. ScanInv
  BY <1>2, <1>4, <1>5 DEF ScanInv, ScanInit
<1>7. ReplacesPlaceholders
  <2>1. [i \in 1..(at - 1) |-> Written(i)] = <<>>
    BY DEF ScanInit
  <2>2. FlattenSeq(<<>>) = <<>>
    BY EmptySeq DEF FlattenSeq
  <2> QED BY <2>1, <2>2 DEF ReplacesPlaceholders, ScanInit
<1> QED BY <1>3, <1>6, <1>7

\* .. and after each step, with what was written so far.
LEMMA ScanKept ==
  ScanType /\ ScanInv /\ ReplacesPlaceholders /\ [ScanNext]_scan =>
    ScanType' /\ ScanInv' /\ ReplacesPlaceholders'
<1> SUFFICES ASSUME ScanType, ScanInv, ReplacesPlaceholders, [ScanNext]_scan
             PROVE  ScanType' /\ ScanInv' /\ ReplacesPlaceholders'
  OBVIOUS
<1>0. sql' = sql /\ positional' = positional /\ named' = named
  BY DEF ScanNext, scan, InString, OpenString, QuestionMark, Colon, Plain
<1>1. /\ \A i : Quoted(i)' <=> Quoted(i)
      /\ \A i : Reach(i)' = Reach(i)
      /\ \A i : Value(i)' = Value(i)
      /\ \A n : Taken(n)' = Taken(n)
  BY <1>0, ScanFrame
<1>2. /\ Len(sql) \in Nat /\ Len(positional) \in Nat /\ at \in Nat /\ pos \in Nat
      /\ \A i \in 1..Len(sql) : sql[i] \in Char
  BY ScanSizes
\* What is to be shown of a step that reads the characters up to last.
<1>3. ASSUME NEW last \in at..Len(sql), at' = last + 1, inStr' \in BOOLEAN, pos' \in 0..Len(positional),
             inStr' <=> Quoted(last + 1),
             pos' = (IF Taken(last) <= Len(positional) THEN Taken(last) ELSE Len(positional)),
             \A j \in 1..last : sql[j] = "colon" /\ Value(j) # <<>> => Reach(j) < at'
      PROVE  ScanType' /\ ScanInv'
  <2>1. last + 1 \in 1..(Len(sql) + 1) /\ (last + 1) - 1 = last
    BY <1>2
  <2>2. ScanType'
    BY <1>0, <1>2, <1>3, <2>1 DEF ScanType
  <2>3. (inStr <=> Quoted(at))'
    BY <1>0, <1>3 DEF Quoted
  <2>4. Taken(at - 1)' = Taken(last)
    BY <1>0, <1>1, <1>3, <2>1 DEF Taken
  <2>5. (\A j \in 1..(at - 1) : sql[j] = "colon" /\ Value(j) # <<>> => Reach(j) < at)'
    BY <1>0, <1>1, <1>3, <2>1
  <2> QED BY <1>0, <1>3, <2>2, <2>3, <2>4, <2>5 DEF ScanInv
<1>4. PICK n \in Nat : n + 1 = at /\ n = at - 1
  <2>1. at - 1 \in Nat /\ (at - 1) + 1 = at
    BY <1>2 DEF ScanType
  <2> QED BY <2>1
<1>5. Taken(n) \in Nat /\ pos = IF Taken(n) <= Len(positional) THEN Taken(n) ELSE Len(positional)
  BY <1>4, TakenNext DEF ScanInv
<1>6. Taken(at) = Taken(n) + (IF sql[at] = "qm" /\ ~Quoted(at) THEN 1 ELSE 0)
  BY <1>4, TakenNext
<1>7. ~Scanned => at \in 1..Len(sql) /\ at \in at..Len(sql)
  BY <1>2 DEF Scanned, ScanType
<1>8. at \in 1..Len(sql) => (Quoted(at + 1) <=> IF sql[at] = "quote" THEN ~Quoted(at) ELSE Quoted(at))
  BY QuotedNext DEF ScanType
\* A character that is not a placeholder becomes itself.
<1>9. ASSUME NEW i, Quoted(i) \/ sql[i] \notin {"qm", "colon"} PROVE Value(i) = <<>>
  BY <1>9 DEF Value
<1>10. CASE InString
  <2> DEFINE doubled == sql[at] = "quote" /\ at < Len(sql) /\ sql[at + 1] = "quote"
  <2>1. /\ Quoted(at) /\ at \in 1..Len(sql) /\ at \in at..Len(sql) /\ inStr
        /\ UNCHANGED pos
    BY <1>7, <1>10 DEF InString, ScanInv
  <2>2. Taken(at) = Taken(n)
    BY <1>5, <1>6, <2>1
  <2>3. CASE doubled
    <3>1. Copies(at + 1) /\ at' = (at + 1) + 1 /\ inStr' = TRUE
      BY <1>10, <2>3 DEF InString
    <3>2. at + 1 \in at..Len(sql) /\ at + 1 \in 1..Len(sql)
      BY <1>2, <2>1, <2>3
    <3>3. ~Quoted(at + 1) /\ Quoted((at + 1) + 1)
      <4>1. ~Quoted(at + 1)
        BY <1>8, <2>1, <2>3
      <4>2. Quoted((at + 1) + 1) <=> ~Quoted(at + 1)
        BY <2>3, <3>2, QuotedNext DEF ScanType
      <4> QED BY <4>1, <4>2
    <3>4. Taken(at + 1) = Taken(n)
      <4>1. Taken(at + 1) = Taken(at)
        <5>1. /\ Taken(at) \in Nat
              /\ Taken(at + 1) = Taken(at) + (IF sql[at + 1] = "qm" /\ ~Quoted(at + 1) THEN 1 ELSE 0)
          BY <1>2, TakenNext
        <5>2. sql[at + 1] # "qm"
          BY <2>3
        <5> QED BY <5>1, <5>2
      <4> QED BY <2>2, <4>1
    <3>5. ASSUME NEW i \in at..(at + 1) PROVE Value(i) = <<>>
      <4>1. i = at \/ i = at + 1
        BY <1>2
      <4> QED BY <1>9, <2>1, <2>3, <4>1
    <3>6. /\ ReplacesPlaceholders'
          /\ \A j \in 1..(at + 1) : sql[j] = "colon" /\ Value(j) # <<>> => Reach(j) < at'
      BY <1>0, <3>1, <3>2, <3>5, Copying
    <3>7. inStr' \in BOOLEAN /\ (inStr' <=> Quoted((at + 1) + 1))
      BY <3>1, <3>3
    <3>8. /\ pos' \in 0..Len(positional)
          /\ pos' = (IF Taken(at + 1) <= Len(positional) THEN Taken(at + 1) ELSE Len(positional))
      BY <1>5, <2>1, <3>4 DEF ScanType
    <3> QED BY <1>3, <3>1, <3>2, <3>6, <3>7, <3>8
  <2>4. CASE ~doubled
    <3>1. Copies(at) /\ at' = at + 1 /\ inStr' = (sql[at] # "quote")
      BY <1>10, <2>4 DEF InString
    <3>2. inStr' \in BOOLEAN /\ (inStr' <=> Quoted(at + 1))
      BY <1>8, <2>1, <3>1
    <3>3. \A i \in at..at : Value(i) = <<>>
      BY <1>2, <1>9, <2>1
    <3>4. /\ ReplacesPlaceholders'
          /\ \A j \in 1..at : sql[j] = "colon" /\ Value(j) # <<>> => Reach(j) < at'
      BY <1>0, <2>1, <3>1, <3>3, Copying
    <3>5. /\ pos' \in 0..Len(positional)
          /\ pos' = (IF Taken(at) <= Len(positional) THEN Taken(at) ELSE Len(positional))
      BY <1>5, <2>1, <2>2 DEF ScanType
    <3> QED BY <1>3, <2>1, <3>1, <3>2, <3>4, <3>5
  <2> QED BY <2>3, <2>4
<1>11. CASE OpenString \/ Plain
  <2>1. /\ ~Quoted(at) /\ at \in 1..Len(sql) /\ at \in at..Len(sql) /\ ~inStr
        /\ UNCHANGED pos /\ Copies(at) /\ at' = at + 1 /\ sql[at] \notin {"qm", "colon"}
        /\ inStr' = (sql[at] = "quote")
    BY <1>7, <1>11 DEF OpenString, Plain, ScanInv, ScanType
  <2>2. Taken(at) = Taken(n)
    BY <1>5, <1>6, <2>1
  <2>3. inStr' \in BOOLEAN /\ (inStr' <=> Quoted(at + 1))
    BY <1>8, <2>1
  <2>4. \A i \in at..at : Value(i) = <<>>
    BY <1>2, <1>9, <2>1
  <2>5. /\ ReplacesPlaceholders'
        /\ \A j \in 1..at : sql[j] = "colon" /\ Value(j) # <<>> => Reach(j) < at'
    BY <1>0, <2>1, <2>4, Copying
  <2>6. /\ pos' \in 0..Len(positional)
        /\ pos' = (IF Taken(at) <= Len(positional) THEN Taken(at) ELSE Len(positional))
    BY <1>5, <2>1, <2>2 DEF ScanType
  <2> QED BY <1>3, <2>1, <2>3, <2>5, <2>6

<1>12. CASE QuestionMark
  <2>1. /\ ~Quoted(at) /\ at \in 1..Len(sql) /\ at \in at..Len(sql) /\ ~inStr
        /\ inStr' = inStr /\ at' = at + 1 /\ sql[at] = "qm"
    BY <1>7, <1>12 DEF QuestionMark, ScanInv
  <2>2. Taken(at) = Taken(n) + 1
    BY <1>6, <2>1
  <2>3. inStr' \in BOOLEAN /\ (inStr' <=> Quoted(at + 1))
    BY <1>8, <2>1 DEF ScanType
  <2>4. Value(at) = IF Taken(at) <= Len(positional) THEN SqlLiteral(positional[Taken(at)]) ELSE <<>>
    BY <2>1 DEF Value, Taken
  <2>5. CASE pos < Len(positional)
    <3>1. pos = Taken(n) /\ Taken(at) = pos + 1 /\ pos + 1 \in 1..Len(positional)
      BY <1>2, <1>5, <2>2, <2>5
    <3>2. Puts(positional[pos + 1]) /\ pos' = pos + 1
      BY <1>12, <2>5 DEF QuestionMark
    <3>3. positional[pos + 1] \in Bound /\ Value(at) = SqlLiteral(positional[pos + 1])
      BY <2>4, <3>1, ElementOfSeq DEF ScanType
    <3>4. ReplacesPlaceholders'
      <4>1. \A i \in (at + 1)..at : Value(i) = <<>> /\ Replaced(i)
        BY <1>2
      <4> QED BY <1>0, <2>1, <3>2, <3>3, <4>1, Putting
    <3>5. ASSUME NEW j \in 1..at, sql[j] = "colon", Value(j) # <<>> PROVE Reach(j) < at'
      <4>1. j \in 1..(at - 1)
        BY <1>2, <2>1, <3>5
      <4>2. Reach(j) < at /\ Reach(j) \in j..Len(sql)
        BY <2>1, <3>5, <4>1, ReachIs DEF ScanInv, ScanType
      <4> QED BY <1>2, <2>1, <4>2
    <3>6. /\ pos' \in 0..Len(positional)
          /\ pos' = (IF Taken(at) <= Len(positional) THEN Taken(at) ELSE Len(positional))
      BY <1>2, <3>1, <3>2
    <3> QED BY <1>3, <2>1, <2>3, <3>4, <3>5, <3>6
  <2>6. CASE ~ (pos < Len(positional))
    <3>1. pos = Len(positional) /\ ~ (Taken(at) <= Len(positional))
      BY <1>2, <1>5, <2>2, <2>6 DEF ScanType
    <3>2. Copies(at) /\ pos' = pos
      BY <1>12, <2>6 DEF QuestionMark
    <3>3. \A i \in at..at : Value(i) = <<>>
      BY <1>2, <2>4, <3>1
    <3>4. /\ ReplacesPlaceholders'
          /\ \A j \in 1..at : sql[j] = "colon" /\ Value(j) # <<>> => Reach(j) < at'
      BY <1>0, <2>1, <3>2, <3>3, Copying
    <3>5. /\ pos' \in 0..Len(positional)
          /\ pos' = (IF Taken(at) <= Len(positional) THEN Taken(at) ELSE Len(positional))
      BY <3>1, <3>2 DEF ScanType
    <3> QED BY <1>3, <2>1, <2>3, <3>4, <3>5
  <2> QED BY <2>5, <2>6
<1>13. CASE Colon
  <2> DEFINE last == Reach(at)
             bound == NameAt(at) \in DOMAIN named /\ NameAt(at) # <<>>
  <2>1. /\ ~Quoted(at) /\ at \in 1..Len(sql) /\ ~inStr
        /\ inStr' = inStr /\ pos' = pos /\ at' = last + 1 /\ sql[at] = "colon"
    BY <1>7, <1>13 DEF Colon, ScanInv
  <2>2. last \in at..Len(sql) /\ \A k \in (at + 1)..last : sql[k] \in Letters
    BY <2>1, ReachIs DEF ScanType
  <2>3. \A k \in (at + 1)..last : sql[k] \notin {"qm", "quote", "colon"}
    BY <2>2, ScanAssumption
  <2>4. \A k \in (at + 1)..last : Value(k) = <<>>
    BY <1>9, <2>3
  <2> HIDE DEF last
  <2>5. Quoted(last + 1) <=> Quoted(at)
    <3>1. \A i \in at..((last + 1) - 1) : sql[i] # "quote"
      <4> SUFFICES ASSUME NEW i \in at..((last + 1) - 1) PROVE sql[i] # "quote"
        OBVIOUS
      <4>1. i = at \/ i \in (at + 1)..last
        BY <1>2, <2>1, <2>2
      <4> QED BY <2>1, <2>3, <4>1
    <3>2. at \in 1..(Len(sql) + 1) /\ last + 1 \in at..(Len(sql) + 1)
      BY <1>2, <2>1, <2>2
    <3> QED BY <3>1, <3>2, QuotedSame
  <2>6. Taken(last) = Taken(n)
    <3>1. \A i \in (n + 1)..last : ~ (sql[i] = "qm" /\ ~Quoted(i))
      <4> SUFFICES ASSUME NEW i \in (n + 1)..last PROVE sql[i] # "qm"
        OBVIOUS
      <4>1. i = at \/ i \in (at + 1)..last
        BY <1>2, <1>4, <2>1, <2>2
      <4> QED BY <2>1, <2>3, <4>1
    <3>2. last \in Nat /\ n <= last
      BY <1>2, <1>4, <2>1, <2>2
    <3> QED BY <3>1, <3>2, TakenSame
  <2>7. inStr' \in BOOLEAN /\ (inStr' <=> Quoted(last + 1))
    BY <2>1, <2>5 DEF ScanType
  <2>8. /\ pos' \in 0..Len(positional)
        /\ pos' = (IF Taken(last) <= Len(positional) THEN Taken(last) ELSE Len(positional))
    BY <1>5, <2>1, <2>6 DEF ScanType
  <2>9. CASE bound
    <3>1. /\ Puts(named[NameAt(at)]) /\ Value(at) = SqlLiteral(named[NameAt(at)])
          /\ named[NameAt(at)] \in Bound
      BY <1>13, <2>1, <2>9 DEF Colon, Value, ScanType
    <3>2. Value(at) # <<>>
      BY <3>1, LiteralType
    <3>3. ASSUME NEW i \in (at + 1)..last PROVE Value(i) = <<>> /\ Replaced(i)
      <4>1. at \in 1..(i - 1) /\ i <= last
        BY <1>2, <2>1, <2>2
      <4> QED BY <2>1, <2>4, <3>2, <4>1 DEF Replaced, last
    <3>4. ReplacesPlaceholders'
      BY <1>0, <2>1, <2>2, <3>1, <3>3, Putting
    <3>5. ASSUME NEW j \in 1..last, sql[j] = "colon", Value(j) # <<>> PROVE Reach(j) < at'
      <4>1. CASE j = at
        <5>1. Reach(j) = last
          BY <4>1 DEF last
        <5> QED BY <1>2, <2>1, <2>2, <5>1
      <4>2. CASE j # at
        <5>1. j \in 1..(at - 1)
          BY <1>2, <2>1, <2>2, <2>4, <3>5, <4>2
        <5>2. Reach(j) < at /\ Reach(j) \in j..Len(sql)
          BY <1>2, <2>1, <3>5, <5>1, ReachIs DEF ScanInv, ScanType
        <5> QED BY <1>2, <2>1, <2>2, <5>2
      <4> QED BY <4>1, <4>2
    <3> QED BY <1>3, <2>1, <2>2, <2>7, <2>8, <3>4, <3>5
  <2>10. CASE ~bound
    <3>1. Copies(last)
      BY <1>13, <2>10 DEF Colon, last
    <3>2. Value(at) = <<>>
      BY <2>1, <2>10 DEF Value
    <3>3. ASSUME NEW i \in at..last PROVE Value(i) = <<>>
      <4>1. i = at \/ i \in (at + 1)..last
        BY <1>2, <2>1, <2>2
      <4> QED BY <2>4, <3>2, <4>1
    <3>4. /\ ReplacesPlaceholders'
          /\ \A j \in 1..last : sql[j] = "colon" /\ Value(j) # <<>> => Reach(j) < at'
      BY <1>0, <2>1, <2>2, <3>1, <3>3, Copying
    <3> QED BY <1>3, <2>1, <2>2, <2>7, <2>8, <3>4
  <2> QED BY <2>9, <2>10
<1>14. CASE UNCHANGED scan
  <2>1. /\ at' = at /\ pos' = pos /\ inStr' = inStr /\ out' = out
    BY <1>14 DEF scan
  <2>2. ScanType'
    BY <1>0, <2>1 DEF ScanType
  <2>3. ScanInv'
    <3>1. (inStr <=> Quoted(at))'
      BY <1>0, <2>1 DEF ScanInv, Quoted
    <3>2. Taken(at - 1)' = Taken(at - 1)
      BY <1>0, <1>1, <2>1 DEF Taken
    <3>3. (\A j \in 1..(at - 1) : sql[j] = "colon" /\ Value(j) # <<>> => Reach(j) < at)'
      BY <1>0, <1>1, <2>1 DEF ScanInv
    <3> QED BY <1>0, <2>1, <3>1, <3>2, <3>3 DEF ScanInv
  <2>4. ReplacesPlaceholders'
    <3>1. [i \in 1..(at' - 1) |-> Written(i)'] = [i \in 1..(at - 1) |-> Written(i)]
      BY <1>0, <2>1, ScanFrame
    <3> QED BY <2>1, <3>1 DEF ReplacesPlaceholders
  <2> QED BY <2>2, <2>3, <2>4
<1> QED BY <1>10, <1>11, <1>12, <1>13, <1>14 DEF ScanNext

\* "leaving `?`/`:` inside single-quoted string literals untouched"
\* (queries.rs:356-357), in statements of any length with any number of values.
THEOREM PlaceholdersReplaced == ScanSpec => []ReplacesPlaceholders
<1>1. ScanInit => ScanType /\ ScanInv /\ ReplacesPlaceholders
  BY ScanStarts
<1>2. ScanType /\ ScanInv /\ ReplacesPlaceholders /\ [ScanNext]_scan =>
        ScanType' /\ ScanInv' /\ ReplacesPlaceholders'
  BY ScanKept
<1> QED BY <1>1, <1>2, PTL DEF ScanSpec

\* The quotes of two texts.
LEMMA QuotesConcat ==
  ASSUME NEW s \in Text, NEW t \in Text
  PROVE  /\ Quotes(s) \in Nat /\ Quotes(t) \in Nat
         /\ Quotes(s \o t) = Quotes(s) + Quotes(t)
<1> DEFINE n == Len(s)
           u == s \o t
           R(d) == Quotes(Upto(u, n + d)) = Quotes(Upto(s, n)) + Quotes(Upto(t, d))
           T == {d \in Nat : d <= Len(t) => R(d)}
<1>1. /\ n \in Nat /\ Len(t) \in Nat /\ u \in Text /\ Len(u) = n + Len(t)
      /\ \A i \in 1..n : u[i] = s[i]
      /\ \A i \in 1..Len(t) : u[n + i] = t[i]
  <2>1. n \in Nat /\ Len(t) \in Nat
    BY LenProperties DEF Text
  <2>2. /\ u \in Text /\ Len(u) = n + Len(t)
        /\ \A i \in 1..(n + Len(t)) : u[i] = IF i <= n THEN s[i] ELSE t[i - n]
    BY ConcatProperties DEF Text
  <2> HIDE DEF u
  <2>3. ASSUME NEW i \in 1..Len(t) PROVE u[n + i] = t[i]
    <3>1. n + i \in 1..(n + Len(t)) /\ ~ (n + i <= n) /\ (n + i) - n = i
      BY <2>1
    <3> QED BY <2>2, <3>1
  <2>4. \A i \in 1..n : u[i] = s[i]
    BY <2>1, <2>2
  <2> QED BY <2>1, <2>2, <2>3, <2>4
<1> HIDE DEF u
<1>2. ASSUME NEW x \in Text PROVE Upto(x, Len(x)) = x
  BY LenProperties DEF Upto, Text
<1>3. 0 \in T
  <2>1. Upto(u, n + 0) = Upto(s, n)
    BY <1>1 DEF Upto
  <2>2. Quotes(Upto(t, 0)) = 0 /\ Quotes(Upto(s, n)) \in Nat
    BY <1>1, QuotesNext
  <2>3. R(0)
    BY <2>1, <2>2
  <2> QED BY <2>3
<1>4. ASSUME NEW d \in Nat, d \in T PROVE d + 1 \in T
  <2> SUFFICES ASSUME d + 1 <= Len(t) PROVE R(d + 1)
    <3> HIDE DEF R
    <3> QED OBVIOUS
  <2>1. d <= Len(t) /\ n + d \in Nat /\ (n + d) + 1 = n + (d + 1) /\ d + 1 \in 1..Len(t)
    BY <1>1
  <2>2. R(d)
    <3> HIDE DEF R
    <3> QED BY <1>4, <2>1
  <2>3. u[(n + d) + 1] = t[d + 1]
    BY <1>1, <2>1
  <2>4. Quotes(Upto(u, (n + d) + 1)) = Quotes(Upto(u, n + d)) + (IF u[(n + d) + 1] = "quote" THEN 1 ELSE 0)
    BY <2>1, QuotesNext
  <2>5. /\ Quotes(Upto(t, d)) \in Nat /\ Quotes(Upto(s, n)) \in Nat
        /\ Quotes(Upto(t, d + 1)) = Quotes(Upto(t, d)) + (IF t[d + 1] = "quote" THEN 1 ELSE 0)
    BY <1>1, QuotesNext
  <2> QED BY <2>1, <2>2, <2>3, <2>4, <2>5
<1> HIDE DEF T
<1>5. \A d \in Nat : d \in T
  BY <1>3, <1>4, SetInduction
<1>6. R(Len(t))
  <2>1. Len(t) <= Len(t)
    BY <1>1
  <2> HIDE DEF R
  <2> QED BY <1>1, <1>5, <2>1 DEF T
<1>7. Quotes(Upto(s, n)) \in Nat /\ Quotes(Upto(t, Len(t))) \in Nat
  BY <1>1, QuotesNext
<1>8. Upto(s, n) = s /\ Upto(t, Len(t)) = t /\ Upto(u, n + Len(t)) = u
  BY <1>1, <1>2
<1> QED BY <1>6, <1>7, <1>8 DEF u

\* The parity of a sum.
LEMMA OddSum ==
  ASSUME NEW x \in Nat, NEW y \in Nat
  PROVE  Odd(x + y) <=> (Odd(x) <=> ~Odd(y))
BY DEF Odd

\* Escaped, quotes come in pairs.
LEMMA EscapeEven ==
  ASSUME NEW text \in Text
  PROVE  ~Odd(Quotes(Escape(text)))
<1> DEFINE e == Escapes(text)
           R(n) == ~Odd(Quotes(FlattenSeq(Upto(e, n))))
           T == {n \in Nat : n <= Len(text) => R(n)}
<1>0. Len(text) \in Nat /\ \A i \in 1..Len(text) : e[i] \in Text
  BY EscapeUpto, LenProperties DEF Text
<1>1. ASSUME NEW i \in 1..Len(text) PROVE ~Odd(Quotes(e[i]))
  <2>1. CASE text[i] = "quote"
    <3>1. e[i] = <<"quote", "quote">>
      BY <2>1 DEF Escapes
    <3>2. Upto(e[i], 2) = e[i] /\ e[i][0 + 1] = "quote" /\ e[i][(0 + 1) + 1] = "quote"
      BY <3>1 DEF Upto
    <3>3. Quotes(Upto(e[i], 0)) = 0
      BY QuotesNext
    <3>4. Quotes(Upto(e[i], 0 + 1)) = 1
      BY <3>2, <3>3, QuotesNext
    <3>5. Quotes(Upto(e[i], (0 + 1) + 1)) = Quotes(Upto(e[i], 0 + 1)) + 1
      BY <3>2, QuotesNext
    <3>6. Quotes(e[i]) = 2
      BY <3>2, <3>4, <3>5
    <3> QED BY <3>6 DEF Odd
  <2>2. CASE text[i] # "quote"
    <3>1. e[i] = <<text[i]>>
      BY <2>2 DEF Escapes
    <3>2. {k \in DOMAIN e[i] : e[i][k] = "quote"} = {}
      BY <2>2, <3>1
    <3>3. Quotes(e[i]) = 0
      BY <3>2, FS_EmptySet DEF Quotes
    <3> QED BY <3>3 DEF Odd
  <2> QED BY <2>1, <2>2
<1> HIDE DEF e
<1>2. 0 \in T
  <2>1. FlattenSeq(Upto(e, 0)) = <<>>
    BY FlattenFirst
  <2>2. {k \in DOMAIN <<>> : (<<>>)[k] = "quote"} = {}
    OBVIOUS
  <2>3. Quotes(<<>>) = 0
    BY <2>2, FS_EmptySet DEF Quotes
  <2>4. R(0)
    BY <2>1, <2>3 DEF Odd
  <2> QED BY <2>4
<1>3. ASSUME NEW n \in Nat, n \in T PROVE n + 1 \in T
  <2> SUFFICES ASSUME n + 1 <= Len(text) PROVE R(n + 1)
    <3> HIDE DEF R
    <3> QED OBVIOUS
  <2>1. n <= Len(text) /\ n + 1 \in 1..Len(text) /\ \A i \in 1..(n + 1) : e[i] \in Text
    BY <1>0
  <2>2. R(n)
    <3> HIDE DEF R
    <3> QED BY <1>3, <2>1
  <2> DEFINE F == FlattenSeq(Upto(e, n))
  <2>3. F \in Text /\ FlattenSeq(Upto(e, n + 1)) = F \o e[n + 1]
    BY <2>1, FlattenNext DEF Text
  <2>4. /\ Quotes(F) \in Nat /\ Quotes(e[n + 1]) \in Nat
        /\ Quotes(F \o e[n + 1]) = Quotes(F) + Quotes(e[n + 1])
    BY <2>1, <2>3, QuotesConcat
  <2>5. ~Odd(Quotes(e[n + 1]))
    BY <1>1, <2>1
  <2>6. Odd(Quotes(F) + Quotes(e[n + 1])) <=> (Odd(Quotes(F)) <=> ~Odd(Quotes(e[n + 1])))
    BY <2>4, OddSum
  <2> QED BY <2>2, <2>3, <2>4, <2>5, <2>6
<1> HIDE DEF T
<1>4. \A n \in Nat : n \in T
  BY <1>2, <1>3, SetInduction
<1>5. R(Len(text))
  <2>1. Len(text) <= Len(text)
    BY <1>0
  <2> HIDE DEF R
  <2> QED BY <1>0, <1>4, <2>1 DEF T
<1> QED BY <1>5, EscapeUpto DEF e

\* The literal of a value ends where it should.
Closes(value) == ~Odd(Quotes(SqlLiteral(value)))

\* The literal of a string that fits is closed: replace doubles every quote of it
\* (queries.rs:424-425). Of a longer one half of a pair may be cut off.
THEOREM FittingLiteralsClose ==
  \A text \in Text : Len(Escape(text)) <= StrCap => Closes(<<"string", text>>)
<1> SUFFICES ASSUME NEW text \in Text, Len(Escape(text)) <= StrCap
             PROVE  Closes(<<"string", text>>)
  OBVIOUS
<1> DEFINE e == Escape(text)
           q == <<"quote">>
<1>1. SqlLiteral(<<"string", text>>) = (q \o e) \o q
  BY DEF SqlLiteral, Truncate
<1>2. e \in Text /\ q \in Text
  BY EscapeUpto, Characters DEF Text
<1>3. Quotes(q) = 1
  <2>1. Quotes(Upto(q, 0)) = 0
    BY QuotesNext
  <2>2. Quotes(Upto(q, 0 + 1)) = Quotes(Upto(q, 0)) + (IF q[0 + 1] = "quote" THEN 1 ELSE 0)
    BY QuotesNext
  <2>3. Upto(q, 0 + 1) = q /\ q[0 + 1] = "quote"
    BY DEF Upto
  <2> QED BY <2>1, <2>2, <2>3
<1>4. ~Odd(Quotes(e))
  BY EscapeEven
<1> HIDE DEF e, q
<1>5. q \o e \in Text /\ Quotes(q \o e) = 1 + Quotes(e) /\ Quotes(e) \in Nat
  BY <1>2, <1>3, QuotesConcat, ConcatProperties DEF Text
<1>6. Quotes((q \o e) \o q) = (1 + Quotes(e)) + 1
  BY <1>2, <1>3, <1>5, QuotesConcat
<1>7. ~Odd((1 + Quotes(e)) + 1)
  BY <1>4, <1>5, OddNext DEF Odd
<1> QED BY <1>1, <1>6, <1>7 DEF Closes

\* The characters written.
Chars(cells) == [k \in 1..Len(cells) |-> cells[k][1]]

\* What is written ends within a string when what is read does, and so it did
\* before every character that was copied.
StringInv ==
  /\ positional \in Positional /\ named \in Named /\ out \in Seq(Cell)
  /\ inStr <=> Odd(Quotes(Chars(out)))
  /\ StringsStayStrings

\* Every literal that may be written closes.
AllClose ==
  /\ \A values \in Positional : \A k \in DOMAIN values : Closes(values[k])
  /\ \A names \in Named : \A n \in DOMAIN names : Closes(names[n])

\* Two texts put together are a text.
LEMMA TextConcat ==
  ASSUME NEW s \in Text, NEW t \in Text
  PROVE  /\ s \o t \in Text /\ Len(s \o t) = Len(s) + Len(t)
         /\ \A k \in 1..(Len(s) + Len(t)) : (s \o t)[k] = IF k <= Len(s) THEN s[k] ELSE t[k - Len(s)]
BY ConcatProperties DEF Text

\* Writing more leaves the quotes before every character already there.
LEMMA Extends ==
  ASSUME NEW o \in Seq(Cell), NEW cs \in Seq(Cell)
  PROVE  /\ o \o cs \in Seq(Cell) /\ Len(o \o cs) = Len(o) + Len(cs)
         /\ Len(o) \in Nat /\ Len(cs) \in Nat
         /\ \A k \in 1..Len(o) : (o \o cs)[k] = o[k]
         /\ \A k \in 1..Len(cs) : (o \o cs)[Len(o) + k] = cs[k]
         /\ Chars(o) \in Text /\ Chars(cs) \in Text /\ Chars(o \o cs) = Chars(o) \o Chars(cs)
<1>1. Len(o) \in Nat /\ Len(cs) \in Nat
  BY LenProperties
<1>2. /\ o \o cs \in Seq(Cell) /\ Len(o \o cs) = Len(o) + Len(cs)
      /\ \A k \in 1..(Len(o) + Len(cs)) : (o \o cs)[k] = IF k <= Len(o) THEN o[k] ELSE cs[k - Len(o)]
  BY ConcatProperties
<1>3. \A k \in 1..Len(o) : (o \o cs)[k] = o[k]
  BY <1>1, <1>2
<1>4. ASSUME NEW k \in 1..Len(cs) PROVE (o \o cs)[Len(o) + k] = cs[k]
  <2>1. Len(o) + k \in 1..(Len(o) + Len(cs)) /\ ~ (Len(o) + k <= Len(o)) /\ (Len(o) + k) - Len(o) = k
    BY <1>1
  <2> QED BY <1>2, <2>1
<1>5. ASSUME NEW x \in Seq(Cell) PROVE Chars(x) \in Text /\ Len(Chars(x)) = Len(x)
  <2>1. Len(x) \in Nat /\ \A k \in 1..Len(x) : x[k] \in Cell
    BY LenProperties, ElementOfSeq
  <2>2. \A k \in 1..Len(x) : x[k][1] \in Char
    BY <2>1 DEF Cell
  <2> QED BY <2>1, <2>2 DEF Chars, Text
<1> DEFINE u == Chars(o \o cs)
           v == Chars(o) \o Chars(cs)
<1>6. /\ u \in Text /\ Len(u) = Len(o) + Len(cs) /\ v \in Text /\ Len(v) = Len(o) + Len(cs)
      /\ \A k \in 1..(Len(o) + Len(cs)) :
           v[k] = IF k <= Len(o) THEN Chars(o)[k] ELSE Chars(cs)[k - Len(o)]
  <2>1. /\ Chars(o) \in Text /\ Len(Chars(o)) = Len(o)
        /\ Chars(cs) \in Text /\ Len(Chars(cs)) = Len(cs)
        /\ u \in Text /\ Len(u) = Len(o) + Len(cs)
    BY <1>2, <1>5
  <2>2. /\ v \in Text /\ Len(v) = Len(Chars(o)) + Len(Chars(cs))
        /\ \A k \in 1..(Len(Chars(o)) + Len(Chars(cs))) :
             v[k] = IF k <= Len(Chars(o)) THEN Chars(o)[k] ELSE Chars(cs)[k - Len(Chars(o))]
    <3>1. Chars(o) \in Text /\ Chars(cs) \in Text
      BY <2>1
    <3> QED BY <3>1, TextConcat
  <2> HIDE DEF u, v
  <2> QED BY <2>1, <2>2
<1>7. ASSUME NEW k \in 1..(Len(o) + Len(cs)) PROVE u[k] = v[k]
  <2>1. u[k] = (o \o cs)[k][1]
    BY <1>2 DEF Chars
  <2>2. CASE k <= Len(o)
    <3>1. k \in 1..Len(o)
      BY <1>1, <2>2
    <3> QED BY <1>3, <1>6, <2>1, <2>2, <3>1 DEF Chars
  <2>3. CASE ~ (k <= Len(o))
    <3>1. k - Len(o) \in 1..Len(cs)
      BY <1>1, <2>3
    <3>2. v[k] = cs[k - Len(o)][1]
      BY <1>6, <2>3, <3>1 DEF Chars
    <3> QED BY <1>2, <2>1, <2>3, <3>2
  <2> QED BY <2>2, <2>3
<1> HIDE DEF u, v
<1>8. u = v
  BY <1>6, <1>7, SeqEqual DEF Text
<1> QED BY <1>1, <1>2, <1>3, <1>4, <1>5, <1>8 DEF u, v

\* The characters before one that is there already.
LEMMA Prefix ==
  ASSUME NEW o \in Seq(Cell), NEW cs \in Seq(Cell), NEW n \in 0..Len(o)
  PROVE  /\ Upto(Chars(o \o cs), n) = Upto(Chars(o), n)
         /\ Upto(Chars(o), n) = [j \in 1..n |-> o[j][1]]
         /\ Upto(Chars(o \o cs), n) = [j \in 1..n |-> (o \o cs)[j][1]]
<1>1. /\ Len(o \o cs) = Len(o) + Len(cs) /\ Len(o) \in Nat /\ Len(cs) \in Nat
      /\ \A k \in 1..Len(o) : (o \o cs)[k] = o[k]
  BY Extends
<1>2. \A j \in 1..n : j \in 1..Len(o) /\ j \in 1..Len(o \o cs)
  BY <1>1
<1> QED BY <1>1, <1>2 DEF Upto, Chars

\* All that was written is its own first part.
LEMMA WholeText ==
  ASSUME NEW o \in Seq(Cell)
  PROVE  Upto(Chars(o), Len(o)) = Chars(o)
BY LenProperties DEF Upto, Chars

\* StringsStayStrings, of any text written.
Stays(o) ==
  \A k \in 1..Len(o) :
    o[k][2] # 0 => (Quoted(o[k][2]) <=> Odd(Quotes(Upto(Chars(o), k - 1))))

\* It is what StringsStayStrings says of `out`.
LEMMA StaysIs ==
  ASSUME out \in Seq(Cell)
  PROVE  StringsStayStrings <=> Stays(out)
<1>1. Len(out) \in Nat /\ DOMAIN out = 1..Len(out)
  BY LenProperties
<1>2. ASSUME NEW k \in 1..Len(out)
      PROVE  Upto(Chars(out), k - 1) = [j \in 1..(k - 1) |-> out[j][1]]
  <2>1. \A j \in 1..(k - 1) : j \in 1..Len(out)
    BY <1>1
  <2> QED BY <1>1, <2>1 DEF Upto, Chars
<1> QED BY <1>1, <1>2 DEF StringsStayStrings, Stays

\* A literal that closes leaves everything as it was.
LEMMA PutsKeeps ==
  ASSUME NEW o \in Seq(Cell), NEW text \in Text, ~Odd(Quotes(text)), Stays(o)
  PROVE  /\ o \o Literal(text) \in Seq(Cell)
         /\ Odd(Quotes(Chars(o \o Literal(text)))) <=> Odd(Quotes(Chars(o)))
         /\ Stays(o \o Literal(text))
<1> DEFINE cs == Literal(text)
           u == o \o cs
<1>1. cs \in Seq(Cell) /\ Len(cs) = Len(text) /\ Len(text) \in Nat /\ DOMAIN text = 1..Len(text)
  BY LiteralCells, LenProperties DEF Text
<1>2. Chars(cs) = text
  <2>1. cs = [k \in 1..Len(text) |-> <<text[k], 0>>]
    BY <1>1 DEF Literal
  <2>2. text \in [1..Len(text) -> Char]
    BY LenProperties DEF Text
  <2> QED BY <1>1, <2>1, <2>2 DEF Chars
<1>3. \A k \in 1..Len(cs) : cs[k][2] = 0
  BY <1>1 DEF Literal
<1> HIDE DEF cs
<1>4. /\ u \in Seq(Cell) /\ Len(u) = Len(o) + Len(cs)
      /\ Len(o) \in Nat /\ Len(cs) \in Nat
      /\ \A k \in 1..Len(o) : u[k] = o[k]
      /\ \A k \in 1..Len(cs) : u[Len(o) + k] = cs[k]
      /\ Chars(o) \in Text /\ Chars(u) = Chars(o) \o text
  BY <1>1, <1>2, Extends
<1>5. Odd(Quotes(Chars(u))) <=> Odd(Quotes(Chars(o)))
  <2>1. /\ Quotes(Chars(o)) \in Nat /\ Quotes(text) \in Nat
        /\ Quotes(Chars(u)) = Quotes(Chars(o)) + Quotes(text)
    BY <1>4, QuotesConcat
  <2>2. Odd(Quotes(Chars(o)) + Quotes(text)) <=> (Odd(Quotes(Chars(o))) <=> ~Odd(Quotes(text)))
    BY <2>1, OddSum
  <2> QED BY <2>1, <2>2
<1>6. ASSUME NEW k \in 1..Len(u), u[k][2] # 0
      PROVE  Quoted(u[k][2]) <=> Odd(Quotes(Upto(Chars(u), k - 1)))
  <2>1. CASE k <= Len(o)
    <3>1. k \in 1..Len(o) /\ k - 1 \in 0..Len(o)
      BY <1>4, <2>1
    <3>2. Upto(Chars(u), k - 1) = Upto(Chars(o), k - 1)
      BY <1>1, <3>1, Prefix
    <3>3. u[k] = o[k]
      BY <1>4, <3>1
    <3> QED BY <1>6, <3>1, <3>2, <3>3 DEF Stays
  <2>2. CASE ~ (k <= Len(o))
    <3>1. k - Len(o) \in 1..Len(cs) /\ k = Len(o) + (k - Len(o))
      BY <1>4, <2>2
    <3>2. u[k] = cs[k - Len(o)]
      BY <1>4, <3>1
    <3> QED BY <1>3, <1>6, <3>1, <3>2
  <2> QED BY <2>1, <2>2
<1>7. Stays(u)
  BY <1>6 DEF Stays
<1> QED BY <1>4, <1>5, <1>7 DEF cs

\* Characters copied leave what is quoted as it was.
LEMMA CopiesKeep ==
  ASSUME ScanType, NEW o \in Seq(Cell), NEW last \in at..Len(sql), Stays(o),
         Odd(Quotes(Chars(o))) <=> Quoted(at)
  PROVE  LET cs == [k \in 1..(last - at + 1) |-> <<sql[at + k - 1], at + k - 1>>]
         IN  /\ o \o cs \in Seq(Cell)
             /\ Odd(Quotes(Chars(o \o cs))) <=> Quoted(last + 1)
             /\ Stays(o \o cs)
<1> DEFINE m == last - at + 1
           cell(k) == <<sql[at + k - 1], at + k - 1>>
           cs == [k \in 1..m |-> cell(k)]
           N == Len(o)
           u == o \o cs
           R(d) == Odd(Quotes(Upto(Chars(u), N + d))) <=> Quoted(at + d)
           T == {d \in Nat : d <= m => R(d)}
<1>0. Len(sql) \in Nat /\ at \in Nat /\ at \in 1..Len(sql) /\ last \in Nat /\ m \in Nat
  BY ScanSizes DEF ScanType
<1>1. cs \in Seq(Cell) /\ Len(cs) = m /\ \A k \in 1..m : cs[k] = <<sql[at + k - 1], at + k - 1>>
  <2>1. ASSUME NEW k \in 1..m PROVE <<sql[at + k - 1], at + k - 1>> \in Cell
    <3>1. at + k - 1 \in 1..Len(sql) /\ at + k - 1 \in Nat
      BY <1>0
    <3>2. sql[at + k - 1] \in Char
      BY <3>1, ScanSizes
    <3> QED BY <3>1, <3>2 DEF Cell
  <2>2. \A k \in 1..m : cell(k) \in Cell
    BY <2>1
  <2> HIDE DEF m, cell
  <2>3. cs \in Seq(Cell) /\ Len(cs) = m /\ \A k \in 1..m : cs[k] = cell(k)
    BY <1>0, <2>2
  <2> QED BY <2>3 DEF cell
<1> HIDE DEF m, cell, cs
<1>2. /\ u \in Seq(Cell) /\ Len(u) = N + m /\ N \in Nat
      /\ \A k \in 1..N : u[k] = o[k]
      /\ \A k \in 1..m : u[N + k] = cs[k]
  BY <1>1, Extends
<1> HIDE DEF u
<1>3. 0 \in T
  <2>1. Upto(Chars(u), N) = Upto(Chars(o), N)
    <3>1. N \in 0..N
      BY <1>2
    <3> QED BY <1>1, <3>1, Prefix DEF u
  <2>2. Upto(Chars(o), N) = Chars(o)
    BY WholeText
  <2>3. N + 0 = N /\ at + 0 = at
    BY <1>0, <1>2
  <2>4. R(0)
    BY <2>1, <2>2, <2>3
  <2> QED BY <2>4
<1>4. ASSUME NEW d \in Nat, d \in T PROVE d + 1 \in T
  <2> SUFFICES ASSUME d + 1 <= m PROVE R(d + 1)
    <3> HIDE DEF R
    <3> QED OBVIOUS
  <2>1. /\ d <= m /\ N + d \in Nat /\ (N + d) + 1 = N + (d + 1) /\ d + 1 \in 1..m
        /\ at + d \in 1..Len(sql) /\ (at + d) + 1 = at + (d + 1) /\ at + (d + 1) - 1 = at + d
        /\ N + (d + 1) \in 1..(N + m)
    BY <1>0, <1>2 DEF m
  <2>2. R(d)
    <3> HIDE DEF R
    <3> QED BY <1>4, <2>1
  <2>3. Chars(u)[N + (d + 1)] = sql[at + d]
    <3>1. u[N + (d + 1)] = <<sql[at + d], at + d>>
      BY <1>1, <1>2, <2>1
    <3> QED BY <1>2, <2>1, <3>1 DEF Chars
  <2>4. /\ Quotes(Upto(Chars(u), N + d)) \in Nat
        /\ Quotes(Upto(Chars(u), (N + d) + 1)) =
             Quotes(Upto(Chars(u), N + d)) + (IF Chars(u)[(N + d) + 1] = "quote" THEN 1 ELSE 0)
    BY <2>1, QuotesNext
  <2>5. Quoted((at + d) + 1) <=> IF sql[at + d] = "quote" THEN ~Quoted(at + d) ELSE Quoted(at + d)
    BY <2>1, QuotedNext DEF ScanType
  <2>6. Odd(Quotes(Upto(Chars(u), N + d)) + 1) <=> ~Odd(Quotes(Upto(Chars(u), N + d)))
    BY <2>4, OddNext
  <2>7. CASE sql[at + d] = "quote"
    <3>1. Quotes(Upto(Chars(u), N + (d + 1))) = Quotes(Upto(Chars(u), N + d)) + 1
      BY <2>1, <2>3, <2>4, <2>7
    <3> QED BY <2>1, <2>2, <2>5, <2>6, <2>7, <3>1
  <2>8. CASE sql[at + d] # "quote"
    <3>1. Quotes(Upto(Chars(u), N + (d + 1))) = Quotes(Upto(Chars(u), N + d))
      BY <2>1, <2>3, <2>4, <2>8
    <3> QED BY <2>1, <2>2, <2>5, <2>8, <3>1
  <2> QED BY <2>7, <2>8
<1>5. ASSUME NEW d \in 0..m PROVE R(d)
  <2> HIDE DEF R
  <2> HIDE DEF T
  <2>1. d \in T
    BY <1>3, <1>4, SetInduction
  <2> QED BY <1>0, <2>1 DEF T
<1>6. Odd(Quotes(Chars(u))) <=> Quoted(last + 1)
  <2>0. m \in 0..m /\ at + m = last + 1
    BY <1>0 DEF m
  <2>1. R(m)
    <3> HIDE DEF R
    <3> QED BY <1>5, <2>0
  <2>2. Upto(Chars(u), N + m) = Chars(u)
    BY <1>2, WholeText
  <2> QED BY <2>0, <2>1, <2>2
<1>7. ASSUME NEW k \in 1..(N + m), u[k][2] # 0
      PROVE  Quoted(u[k][2]) <=> Odd(Quotes(Upto(Chars(u), k - 1)))
  <2>1. CASE k <= N
    <3>1. k \in 1..N /\ k - 1 \in 0..N
      BY <1>2, <2>1
    <3>2. Upto(Chars(u), k - 1) = Upto(Chars(o), k - 1)
      BY <1>1, <3>1, Prefix DEF u
    <3>3. u[k] = o[k]
      BY <1>2, <3>1
    <3> QED BY <1>7, <3>1, <3>2, <3>3 DEF Stays
  <2>2. CASE ~ (k <= N)
    <3>1. PICK d \in 0..m : k = N + (d + 1) /\ d + 1 \in 1..m /\ k - 1 = N + d
      <4>1. /\ k - N - 1 \in 0..m /\ k = N + ((k - N - 1) + 1) /\ (k - N - 1) + 1 \in 1..m
            /\ k - 1 = N + (k - N - 1)
        BY <1>0, <1>2, <2>2
      <4> QED BY <4>1
    <3>2. u[k] = <<sql[at + (d + 1) - 1], at + (d + 1) - 1>> /\ at + (d + 1) - 1 = at + d
      <4>1. u[N + (d + 1)] = cs[d + 1]
        BY <1>2, <3>1
      <4>2. cs[d + 1] = <<sql[at + (d + 1) - 1], at + (d + 1) - 1>>
        BY <1>1, <3>1
      <4>3. at + (d + 1) - 1 = at + d
        BY <1>0
      <4> QED BY <3>1, <4>1, <4>2, <4>3
    <3>3. R(d)
      BY <1>5
    <3> QED BY <3>1, <3>2, <3>3
  <2> QED BY <2>1, <2>2
<1>8. Stays(u)
  BY <1>2, <1>7 DEF Stays
<1> QED BY <1>2, <1>6, <1>8 DEF u, cs, cell, m

\* Each step keeps strings strings.
LEMMA StringsKept ==
  AllClose /\ ScanType /\ ScanInv /\ StringInv /\ [ScanNext]_scan /\ ScanInv' => StringInv'
<1> SUFFICES ASSUME AllClose, ScanType, ScanInv, StringInv, [ScanNext]_scan, ScanInv'
             PROVE  StringInv'
  OBVIOUS
<1>0. sql' = sql /\ positional' = positional /\ named' = named
  BY DEF ScanNext, scan, InString, OpenString, QuestionMark, Colon, Plain
<1>1. /\ \A i : Quoted(i)' <=> Quoted(i)
  BY <1>0, ScanFrame
<1>2. /\ Len(sql) \in Nat /\ Len(positional) \in Nat /\ at \in Nat /\ pos \in Nat
      /\ \A i \in 1..Len(sql) : sql[i] \in Char
  BY ScanSizes
<1>3. out \in Seq(Cell) /\ Stays(out) /\ (Odd(Quotes(Chars(out))) <=> Quoted(at))
  BY StaysIs DEF StringInv, ScanInv
\* What is to be shown of a step.
<1>4. ASSUME NEW o \in Seq(Cell), out' = o, Stays(o), inStr' <=> Odd(Quotes(Chars(o)))
      PROVE  StringInv'
  <2>1. StringsStayStrings'
    <3>1. Len(o) \in Nat /\ DOMAIN o = 1..Len(o)
      BY LenProperties
    <3>2. ASSUME NEW k \in 1..Len(o), o[k][2] # 0
          PROVE  Quoted(o[k][2])' <=> Odd(Quotes([j \in 1..(k - 1) |-> o[j][1]]))
      <4>1. Upto(Chars(o), k - 1) = [j \in 1..(k - 1) |-> o[j][1]]
        <5>1. \A j \in 1..(k - 1) : j \in 1..Len(o)
          BY <3>1
        <5> QED BY <3>1, <5>1 DEF Upto, Chars
      <4> QED BY <1>1, <1>4, <3>2, <4>1 DEF Stays
    <3> QED BY <1>4, <3>1, <3>2 DEF StringsStayStrings
  <2>2. (inStr <=> Odd(Quotes(Chars(out))))'
    BY <1>4 DEF Chars
  <2> QED BY <1>0, <1>4, <2>1, <2>2 DEF StringInv
<1>5. ASSUME NEW last \in at..Len(sql), Copies(last), inStr' <=> Quoted(last + 1)
      PROVE  StringInv'
  <2> DEFINE cs == [k \in 1..(last - at + 1) |-> <<sql[at + k - 1], at + k - 1>>]
  <2>1. out' = out \o cs
    BY <1>5 DEF Copies
  <2>2. /\ out \o cs \in Seq(Cell)
        /\ Odd(Quotes(Chars(out \o cs))) <=> Quoted(last + 1)
        /\ Stays(out \o cs)
    BY <1>3, CopiesKeep
  <2> HIDE DEF cs
  <2> QED BY <1>4, <1>5, <2>1, <2>2
<1>6. ASSUME NEW value \in Bound, Closes(value), Puts(value), inStr' <=> inStr
      PROVE  StringInv'
  <2>1. SqlLiteral(value) \in Text /\ ~Odd(Quotes(SqlLiteral(value)))
    BY <1>6, LiteralType DEF Closes
  <2>2. out' = out \o Literal(SqlLiteral(value))
    BY <1>6 DEF Puts, Literal
  <2>3. /\ out \o Literal(SqlLiteral(value)) \in Seq(Cell)
        /\ Odd(Quotes(Chars(out \o Literal(SqlLiteral(value))))) <=> Odd(Quotes(Chars(out)))
        /\ Stays(out \o Literal(SqlLiteral(value)))
    BY <1>3, <2>1, PutsKeeps
  <2>4. inStr' <=> Odd(Quotes(Chars(out \o Literal(SqlLiteral(value)))))
    BY <1>6, <2>3 DEF StringInv
  <2> QED BY <1>4, <2>2, <2>3, <2>4
<1>7. CASE InString \/ OpenString \/ Plain
  <2>1. PICK last \in at..Len(sql) : Copies(last) /\ at' = last + 1
    <3>1. CASE InString
      <4> DEFINE doubled == sql[at] = "quote" /\ at < Len(sql) /\ sql[at + 1] = "quote"
      <4>1. CASE doubled
        <5>1. Copies(at + 1) /\ at' = (at + 1) + 1
          BY <3>1, <4>1 DEF InString
        <5>2. at + 1 \in at..Len(sql)
          BY <1>2, <4>1
        <5> QED BY <5>1, <5>2
      <4>2. CASE ~doubled
        <5>1. Copies(at) /\ at' = at + 1 /\ at \in at..Len(sql)
          BY <1>2, <3>1, <4>2 DEF InString, Scanned
        <5> QED BY <5>1
      <4> QED BY <4>1, <4>2
    <3>2. CASE OpenString \/ Plain
      <4>1. Copies(at) /\ at' = at + 1 /\ at \in at..Len(sql)
        BY <1>2, <3>2 DEF OpenString, Plain, Scanned
      <4> QED BY <4>1
    <3> QED BY <1>7, <3>1, <3>2
  <2>2. inStr' <=> Quoted(last + 1)
    <3>1. inStr' <=> Quoted(at)'
      BY DEF ScanInv
    <3> QED BY <1>0, <2>1, <3>1 DEF Quoted
  <2> QED BY <1>5, <2>1, <2>2
<1>8. CASE QuestionMark
  <2>1. CASE pos < Len(positional)
    <3>1. pos + 1 \in 1..Len(positional) /\ pos + 1 \in DOMAIN positional
      BY <1>2, <2>1, LenProperties DEF ScanType
    <3>2. positional[pos + 1] \in Bound /\ Closes(positional[pos + 1])
      BY <3>1, ElementOfSeq DEF ScanType, StringInv, AllClose
    <3>3. Puts(positional[pos + 1]) /\ inStr' = inStr
      BY <1>8, <2>1 DEF QuestionMark
    <3> QED BY <1>6, <3>2, <3>3
  <2>2. CASE ~ (pos < Len(positional))
    <3>1. Copies(at) /\ at' = at + 1 /\ at \in at..Len(sql)
      BY <1>2, <1>8, <2>2 DEF QuestionMark, Scanned
    <3>2. inStr' <=> Quoted(at + 1)
      <4>1. inStr' <=> Quoted(at)'
        BY DEF ScanInv
      <4> QED BY <1>0, <3>1, <4>1 DEF Quoted
    <3> QED BY <1>5, <3>1, <3>2
  <2> QED BY <2>1, <2>2
<1>9. CASE Colon
  <2>1. CASE NameAt(at) \in DOMAIN named /\ NameAt(at) # <<>>
    <3>1. named[NameAt(at)] \in Bound /\ Closes(named[NameAt(at)])
      BY <2>1 DEF ScanType, StringInv, AllClose
    <3>2. Puts(named[NameAt(at)]) /\ inStr' = inStr
      BY <1>9, <2>1 DEF Colon
    <3> QED BY <1>6, <3>1, <3>2
  <2>2. CASE ~ (NameAt(at) \in DOMAIN named /\ NameAt(at) # <<>>)
    <3>1. at \in 1..Len(sql)
      BY <1>2, <1>9 DEF Colon, Scanned, ScanType
    <3>2. Copies(Reach(at)) /\ at' = Reach(at) + 1 /\ Reach(at) \in at..Len(sql)
      BY <1>9, <2>2, <3>1, ReachIs DEF Colon, ScanType
    <3>3. inStr' <=> Quoted(Reach(at) + 1)
      <4>1. inStr' <=> Quoted(at)'
        BY DEF ScanInv
      <4> QED BY <1>0, <3>2, <4>1 DEF Quoted
    <3> QED BY <1>5, <3>2, <3>3
  <2> QED BY <2>1, <2>2
<1>10. CASE UNCHANGED scan
  <2>1. out' = out /\ (inStr' <=> inStr)
    BY <1>10 DEF scan
  <2> QED BY <1>3, <1>4, <2>1 DEF StringInv
<1> QED BY <1>7, <1>8, <1>9, <1>10 DEF ScanNext

\* Literals are "quoted/escaped, bounded" (queries.rs:413): where those of the
\* values bound close, no value ends a string of the statement shown, or starts
\* one, in statements of any length.
THEOREM StringsStay == ASSUME AllClose PROVE ScanSpec => []StringsStayStrings
<1>1. ScanInit => ScanType /\ ScanInv /\ ReplacesPlaceholders
  BY ScanStarts
<1>2. ScanType /\ ScanInv /\ ReplacesPlaceholders /\ [ScanNext]_scan =>
        ScanType' /\ ScanInv' /\ ReplacesPlaceholders'
  BY ScanKept
<1>3. ScanInit => StringInv
  <2> SUFFICES ASSUME ScanInit PROVE StringInv
    OBVIOUS
  <2>1. out = <<>> /\ ~inStr /\ out \in Seq(Cell) /\ Len(out) = 0 /\ DOMAIN out = {}
    BY DEF ScanInit
  <2>2. Chars(out) = Upto(Chars(out), 0)
    BY <2>1, WholeText
  <2>3. ~Odd(Quotes(Chars(out)))
    BY <2>2, QuotesNext DEF Odd
  <2>4. StringsStayStrings
    BY <2>1 DEF StringsStayStrings
  <2> QED BY <2>1, <2>3, <2>4 DEF StringInv, ScanInit
<1>4. StringInv /\ ScanType /\ ScanInv /\ [ScanNext]_scan /\ ScanInv' => StringInv'
  BY StringsKept
<1>5. StringInv => StringsStayStrings
  BY DEF StringInv
<1> QED BY <1>1, <1>2, <1>3, <1>4, <1>5, PTL DEF ScanSpec

-----------------------------------------------------------------------------
(* truncate.                                                                 *)

\* A text's lengths and boundaries.
LEMMA TextShape ==
  \A t \in Texts : /\ t.len \in Nat /\ t.bounds \in SUBSET Nat
                   /\ 0 \in t.bounds /\ t.len \in t.bounds
                   /\ \A b \in t.bounds : b \in Nat /\ b <= t.len
BY TextAssumption

\* The loop backs off past no boundary.
LEMMA TextKept == TextInv /\ [TextNext]_truncating => TextInv'
<1> SUFFICES ASSUME TextInv, [TextNext]_truncating PROVE TextInv'
    OBVIOUS
<1>a. Cap \in Nat
  BY TextAssumption
<1>b. fields' = fields
  BY DEF TextNext, Whole, BackOff, Cut, truncating
<1>c. /\ fields \in Seq(Texts) /\ kept \in Seq(Nat) /\ Len(kept) <= Len(fields) /\ end \in 0..Cap
      /\ Len(kept) \in Nat /\ Len(fields) \in Nat /\ DOMAIN kept = 1..Len(kept)
      /\ \A i \in 1..Len(fields) : fields[i] \in Texts
      /\ CutAtCharacter
  BY DEF TextInv
<1>1. ASSUME NEW n \in Nat, Cutting, kept' = Append(kept, n), end' \in 0..Cap,
             /\ n \in Field.bounds
             /\ Field.len <= Cap => n = Field.len
             /\ Field.len > Cap => n <= Cap /\ \A b \in Field.bounds : b > Cap \/ b <= n,
             end' = Cap
      PROVE  TextInv'
  <2> DEFINE k == Len(kept) + 1
  <2>1. /\ kept' \in Seq(Nat) /\ Len(kept') = k /\ DOMAIN kept' = 1..k
        /\ \A i \in 1..Len(kept) : kept'[i] = kept[i]
        /\ kept'[k] = n
    BY <1>1, <1>c
  <2>2. k \in 1..Len(fields) /\ Field = fields[k] /\ Field \in Texts
    BY <1>1, <1>c DEF Cutting, Field
  <2>3. CutAtCharacter'
    <3> SUFFICES ASSUME NEW i \in 1..k
                 PROVE  /\ kept'[i] \in fields[i].bounds
                        /\ fields[i].len <= Cap => kept'[i] = fields[i].len
                        /\ fields[i].len > Cap =>
                             /\ kept'[i] <= Cap
                             /\ \A b \in fields[i].bounds : b > Cap \/ b <= kept'[i]
        BY <1>b, <2>1 DEF CutAtCharacter
    <3>1. CASE i = k
      BY <1>1, <2>1, <2>2, <3>1
    <3>2. CASE i # k
      <4>1. i \in 1..Len(kept)
        BY <3>2, <1>c
      <4> QED
        BY <1>c, <2>1, <4>1 DEF CutAtCharacter
    <3> QED
      BY <3>1, <3>2
  <2>4. (Cutting => \A b \in Field.bounds : b > Cap \/ b <= end)'
    <3> SUFFICES ASSUME Cutting' PROVE \A b \in Field'.bounds : b > Cap \/ b <= Cap
        BY <1>1
    <3>1. Field' \in Texts
      BY <1>b, <1>c, <2>1 DEF Cutting, Field
    <3> QED
      BY <3>1, <1>a, TextShape
  <2> QED
    BY <1>b, <1>c, <1>1, <2>1, <2>2, <2>3, <2>4 DEF TextInv
<1>2. ASSUME Cutting PROVE Field \in Texts
  BY <1>2, <1>c DEF Cutting, Field
<1>3. CASE Whole
  <2>1. Field \in Texts /\ Field.len \in Nat /\ Field.len \in Field.bounds
    BY <1>2, <1>3, TextShape DEF Whole
  <2>2. end = Cap
    BY <1>3, <1>a, <2>1 DEF Whole, TextInv
  <2> QED
    BY <1>1, <1>3, <1>a, <1>c, <2>1, <2>2 DEF Whole
<1>4. CASE BackOff
  BY <1>2, <1>4, <1>a, <1>b, <1>c, TextShape DEF BackOff, Cutting, Field, TextInv, CutAtCharacter
<1>5. CASE Cut
  <2>1. Field \in Texts /\ 0 \in Field.bounds
    BY <1>2, <1>5, TextShape DEF Cut
  <2>2. \A b \in Field.bounds : b > Cap \/ b <= end
    BY <1>5 DEF Cut, TextInv
  <2>3. end \in Nat /\ end <= Cap /\ Field.len > Cap /\ end \in Field.bounds
    BY <1>5, <1>a, <1>c, <2>1 DEF Cut
  <2> QED
    BY <1>1, <1>5, <1>a, <2>1, <2>2, <2>3, TextShape DEF Cut
<1>6. CASE UNCHANGED truncating
  BY <1>b, <1>6 DEF truncating, Cutting, Field, TextInv, CutAtCharacter
<1> QED
  BY <1>3, <1>4, <1>5, <1>6 DEF TextNext

\* A field is cut after the last character that fits, of any text.
THEOREM CutsAtCharacters == TextSpec => []CutAtCharacter
<1>1. TextInit => TextInv
  <2> SUFFICES ASSUME TextInit PROVE TextInv
      OBVIOUS
  <2>1. PICK n \in 0..MaxFields : fields \in [1..n -> Texts]
    BY DEF TextInit
  <2>2. fields \in Seq(Texts) /\ Len(fields) \in Nat
    BY <2>1, TextAssumption
  <2>3. kept = <<>> /\ end = Cap /\ Cap \in Nat
    BY TextAssumption DEF TextInit
  <2>4. Cutting => Field \in Texts
    BY <2>2, <2>3 DEF Cutting, Field
  <2> QED
    BY <2>2, <2>3, <2>4, TextShape DEF TextInv, CutAtCharacter
<1>2. TextInv => CutAtCharacter
  BY DEF TextInv
<1> QED
  BY <1>1, <1>2, TextKept, PTL DEF TextSpec

-----------------------------------------------------------------------------
(* render_into.                                                              *)

Stack == Seq([arr : Arrays, next : Nat])



(* What is at a path.                                                        *)

\* A path is a sequence of indices within the bounds.
LEMMA InPaths ==
  \A p : p \in Paths <=> p \in Seq(1..(MaxItems + 1)) /\ Len(p) <= MaxDepth
<1> SUFFICES ASSUME NEW p
             PROVE  p \in Paths <=> p \in Seq(1..(MaxItems + 1)) /\ Len(p) <= MaxDepth
  OBVIOUS
<1>1. p \in Paths <=> \E m \in 0..MaxDepth : p \in [1..m -> 1..(MaxItems + 1)]
  BY DEF Paths, BoundedSeq, SeqOf
<1>2. ASSUME NEW m \in 0..MaxDepth, p \in [1..m -> 1..(MaxItems + 1)]
      PROVE  p \in Seq(1..(MaxItems + 1)) /\ Len(p) <= MaxDepth
  BY <1>2, RenderAssumption
<1>3. ASSUME p \in Seq(1..(MaxItems + 1)), Len(p) <= MaxDepth
      PROVE  \E m \in 0..MaxDepth : p \in [1..m -> 1..(MaxItems + 1)]
  <2>1. Len(p) \in 0..MaxDepth /\ p \in [1..Len(p) -> 1..(MaxItems + 1)]
    BY <1>3, LenProperties, RenderAssumption
  <2> QED BY <2>1
<1> QED BY <1>1, <1>2, <1>3

\* A path and those above it.
LEMMA PathAbove ==
  ASSUME NEW p \in Paths
  PROVE  /\ Len(p) \in Nat /\ DOMAIN p = 1..Len(p) /\ \A i \in 1..Len(p) : p[i] \in 1..(MaxItems + 1)
         /\ \A n \in 0..Len(p) : /\ SubSeq(p, 1, n) \in Paths /\ Len(SubSeq(p, 1, n)) = n
                                 /\ \A i \in 1..n : SubSeq(p, 1, n)[i] = p[i]
         /\ p # <<>> => Len(p) \in 1..Len(p) /\ Len(p) - 1 \in 0..Len(p)
<1>1. p \in Seq(1..(MaxItems + 1)) /\ Len(p) <= MaxDepth
  BY InPaths
<1>2. Len(p) \in Nat /\ DOMAIN p = 1..Len(p) /\ \A i \in 1..Len(p) : p[i] \in 1..(MaxItems + 1)
  BY <1>1, LenProperties, ElementOfSeq
<1>3. ASSUME NEW n \in 0..Len(p)
      PROVE  /\ SubSeq(p, 1, n) \in Paths /\ Len(SubSeq(p, 1, n)) = n
             /\ \A i \in 1..n : SubSeq(p, 1, n)[i] = p[i]
  <2>1. /\ SubSeq(p, 1, n) \in Seq(1..(MaxItems + 1)) /\ Len(SubSeq(p, 1, n)) = n
        /\ \A i \in 1..n : SubSeq(p, 1, n)[i] = p[i]
    BY <1>1, <1>2
  <2>2. n <= MaxDepth
    BY <1>1, <1>2, RenderAssumption
  <2> QED BY <2>1, <2>2, InPaths
<1>4. p # <<>> => Len(p) \in 1..Len(p) /\ Len(p) - 1 \in 0..Len(p)
  BY <1>1, <1>2, EmptySeq
<1> QED BY <1>2, <1>3, <1>4

\* What is at p when f tells what is above it.
AtStep(f, p) ==
  IF p = <<>> THEN root
  ELSE LET above == f[Front(p)]
       IN  IF above \notin Arrays \/ Last(p) > Len(heap[above]) THEN "nothing"
           ELSE IF Last(p) > MaxItems THEN "more" ELSE heap[above][Last(p)]

\* The recursion is on shorter paths.
LEMMA AtIs ==
  \A p \in Paths : At[p] = AtStep(At, p)
<1> DEFINE Short(n) == {p \in Paths : Len(p) <= n}
           R(n) == \E f : f = [p \in Short(n) |-> f[p]] /\ \A p \in Short(n) : f[p] = AtStep(f, p)
           T == {n \in Nat : R(n)}
<1>1. ASSUME NEW f, NEW g, NEW n \in Nat, NEW p \in Paths, Len(p) <= n + 1,
             \A q \in Short(n) : f[q] = g[q]
      PROVE  AtStep(f, p) = AtStep(g, p)
  <2>1. CASE p = <<>>
    BY <2>1 DEF AtStep
  <2>2. CASE p # <<>>
    <3>1. Front(p) \in Paths /\ Len(Front(p)) = Len(p) - 1 /\ Len(p) \in Nat
      BY <2>2, PathAbove DEF Front
    <3>2. Front(p) \in Short(n)
      BY <1>1, <3>1
    <3>3. f[Front(p)] = g[Front(p)]
      BY <1>1, <3>2
    <3> QED BY <2>2, <3>3 DEF AtStep
  <2> QED BY <2>1, <2>2
<1>2. R(0)
  <2> DEFINE f == [p \in Short(0) |-> root]
  <2>1. ASSUME NEW p \in Short(0) PROVE f[p] = AtStep(f, p)
    <3>1. p = <<>>
      BY PathAbove
    <3> QED BY <3>1 DEF AtStep
  <2>2. f = [p \in Short(0) |-> f[p]]
    OBVIOUS
  <2> HIDE DEF f, Short
  <2> QED BY <2>1, <2>2
<1>3. ASSUME NEW n \in Nat, n \in T PROVE n + 1 \in T
  <2>1. PICK f : f = [p \in Short(n) |-> f[p]] /\ \A p \in Short(n) : f[p] = AtStep(f, p)
    BY <1>3
  <2> DEFINE g == [p \in Short(n + 1) |-> IF Len(p) <= n THEN f[p] ELSE AtStep(f, p)]
  <2>2. \A p \in Short(n) : p \in Short(n + 1) /\ Len(p) <= n /\ p \in Paths
    BY PathAbove
  <2>3. \A p \in Short(n) : g[p] = f[p]
    BY <2>2
  <2>4. ASSUME NEW p \in Short(n + 1) PROVE g[p] = AtStep(g, p)
    <3>1. p \in Paths /\ Len(p) <= n + 1
      OBVIOUS
    <3>2. AtStep(f, p) = AtStep(g, p)
      BY <1>1, <2>3, <3>1
    <3>3. CASE Len(p) <= n
      <4>1. p \in Short(n)
        BY <3>1, <3>3
      <4> QED BY <2>1, <2>3, <3>2, <4>1
    <3>4. CASE ~ (Len(p) <= n)
      BY <3>2, <3>4
    <3> QED BY <3>3, <3>4
  <2>5. g = [p \in Short(n + 1) |-> g[p]]
    OBVIOUS
  <2> HIDE DEF g, Short
  <2>6. R(n + 1)
    BY <2>4, <2>5
  <2> HIDE DEF R
  <2> QED BY <2>6
<1> HIDE DEF R
<1>4. 0 \in T
  BY <1>2
<1> HIDE DEF T
<1>5. MaxDepth \in T
  BY <1>3, <1>4, SetInduction, RenderAssumption
<1>6. Short(MaxDepth) = Paths
  BY InPaths
<1>7. PICK f : f = [p \in Paths |-> f[p]] /\ \A p \in Paths : f[p] = AtStep(f, p)
  <2> HIDE DEF Short
  <2> QED BY <1>5, <1>6 DEF T, R
<1>8. f = [p \in Paths |-> AtStep(f, p)]
  BY <1>7
<1>9. At = [p \in Paths |-> AtStep(At, p)]
  BY <1>8 DEF At, AtStep
<1> QED BY <1>9

\* The heap and the value rendered are of the model's.
Heaped == heap \in Heaps /\ root \in Arrays \cup Kinds

\* What can be at a path.
LEMMA AtType ==
  ASSUME Heaped, NEW p \in Paths
  PROVE  At[p] \in Arrays \cup Kinds \cup {"nothing", "more"}
<1>1. CASE p = <<>>
  BY <1>1, AtIs DEF AtStep, Heaped
<1>2. CASE p # <<>>
  <2> DEFINE above == At[Front(p)]
             n == Last(p)
  <2>1. n \in Nat \ {0}
    BY <1>2, PathAbove, RenderAssumption DEF Last
  <2>2. above \in Arrays /\ n <= Len(heap[above]) => heap[above][n] \in Arrays \cup Kinds
    BY <2>1, RenderAssumption, ElementOfSeq DEF Heaped
  <2>3. At[p] = IF above \notin Arrays \/ n > Len(heap[above]) THEN "nothing"
                ELSE IF n > MaxItems THEN "more" ELSE heap[above][n]
    BY <1>2, AtIs DEF AtStep
  <2>4. above \in Arrays => Len(heap[above]) \in Nat
    BY RenderAssumption, LenProperties DEF Heaped
  <2> HIDE DEF above, n
  <2> QED BY <2>1, <2>2, <2>3, <2>4, RenderAssumption
<1> QED BY <1>1, <1>2

\* Only in an array there is something.
LEMMA AtParent ==
  ASSUME Heaped, NEW p \in Paths, p # <<>>, At[p] # "nothing"
  PROVE  At[Front(p)] \in Arrays /\ Last(p) <= Len(heap[At[Front(p)]])
<1> DEFINE above == At[Front(p)]
           n == Last(p)
<1>1. At[p] = IF above \notin Arrays \/ n > Len(heap[above]) THEN "nothing"
              ELSE IF n > MaxItems THEN "more" ELSE heap[above][n]
  BY AtIs DEF AtStep
<1>2. n \in Nat
  BY PathAbove, RenderAssumption DEF Last
<1>3. above \in Arrays => Len(heap[above]) \in Nat
  BY RenderAssumption, LenProperties DEF Heaped
<1> HIDE DEF above, n
<1>4. above \in Arrays /\ n <= Len(heap[above])
  BY <1>1, <1>2, <1>3
<1> QED BY <1>4 DEF above, n

\* All that leads to something are arrays.
LEMMA AtAncestors ==
  ASSUME Heaped, NEW q \in Paths, At[q] # "nothing",
         NEW n \in Nat, n < Len(q)
  PROVE  /\ At[SubSeq(q, 1, n)] \in Arrays
         /\ q[n + 1] <= Len(heap[At[SubSeq(q, 1, n)]])
<1> DEFINE a(k) == SubSeq(q, 1, k)
           R(d) == \A k \in 1..Len(q) : k + d = Len(q) => At[a(k)] # "nothing"
           T == {d \in Nat : R(d)}
<1>1. /\ Len(q) \in Nat /\ q \in Seq(1..(MaxItems + 1))
      /\ \A k \in 0..Len(q) : /\ a(k) \in Paths /\ Len(a(k)) = k
                              /\ \A i \in 1..k : a(k)[i] = q[i]
  BY PathAbove, InPaths
<1>2. ASSUME NEW k \in 1..Len(q), At[a(k)] # "nothing"
      PROVE  At[a(k - 1)] \in Arrays /\ q[k] <= Len(heap[At[a(k - 1)]])
  <2>1. a(k) \in Paths /\ Len(a(k)) = k /\ a(k)[k] = q[k] /\ k - 1 \in 0..Len(q) /\ a(k - 1) \in Paths
    BY <1>1
  <2>2. a(k) # <<>>
    BY <2>1
  <2>3. Last(a(k)) = q[k]
    BY <2>1 DEF Last
  <2>4. Front(a(k)) = a(k - 1)
    <3>1. \A i \in 1..(k - 1) : SubSeq(a(k), 1, k - 1)[i] = a(k - 1)[i]
      BY <1>1, <2>1
    <3>2. SubSeq(a(k), 1, k - 1) \in Seq(1..(MaxItems + 1)) /\ Len(SubSeq(a(k), 1, k - 1)) = k - 1
      <4> HIDE DEF a
      <4>1. k - 1 \in 0..Len(a(k))
        BY <2>1
      <4>2. SubSeq(a(k), 1, k - 1) \in Paths /\ Len(SubSeq(a(k), 1, k - 1)) = k - 1
        BY <2>1, <4>1, PathAbove
      <4> QED BY <4>2, InPaths
    <3>3. a(k - 1) \in Seq(1..(MaxItems + 1)) /\ Len(a(k - 1)) = k - 1
      BY <1>1, <2>1, InPaths
    <3>4. SubSeq(a(k), 1, k - 1) = a(k - 1)
      BY <3>1, <3>2, <3>3, SeqEqual
    <3> QED BY <2>1, <3>4 DEF Front
  <2> HIDE DEF a
  <2>5. At[Front(a(k))] \in Arrays /\ Last(a(k)) <= Len(heap[At[Front(a(k))]])
    BY <1>2, <2>1, <2>2, AtParent
  <2> QED BY <2>3, <2>4, <2>5
<1>3. a(Len(q)) = q
  BY <1>1, SeqEqual
<1>4. 0 \in T
  <2> HIDE DEF a
  <2>1. ASSUME NEW k \in 1..Len(q), k + 0 = Len(q) PROVE At[a(k)] # "nothing"
    BY <1>1, <1>3, <2>1
  <2> QED BY <2>1
<1>5. ASSUME NEW d \in Nat, d \in T PROVE d + 1 \in T
  <2> SUFFICES ASSUME NEW k \in 1..Len(q), k + (d + 1) = Len(q) PROVE At[a(k)] # "nothing"
    OBVIOUS
  <2>1. PICK m \in 1..Len(q) : m = k + 1
    BY <1>1
  <2> HIDE DEF a
  <2>2. m + d = Len(q) /\ m - 1 = k
    BY <1>1, <2>1
  <2>3. At[a(m)] # "nothing"
    BY <1>5, <2>2
  <2>4. At[a(k)] \in Arrays
    BY <1>2, <2>2, <2>3
  <2> QED BY <2>4, RenderAssumption
<1> HIDE DEF a
<1> HIDE DEF T
<1>6. \A d \in Nat : d \in T
  BY <1>4, <1>5, SetInduction
<1>7. PICK k \in 1..Len(q), d \in Nat : k = n + 1 /\ k + d = Len(q)
  <2>1. n + 1 \in 1..Len(q) /\ Len(q) - (n + 1) \in Nat /\ (n + 1) + (Len(q) - (n + 1)) = Len(q)
    BY <1>1
  <2> QED BY <2>1
<1>8. At[a(k)] # "nothing"
  BY <1>6, <1>7 DEF T
<1>9. At[a(k - 1)] \in Arrays /\ q[k] <= Len(heap[At[a(k - 1)]])
  BY <1>2, <1>8
<1>10. k - 1 = n
  BY <1>7
<1> QED BY <1>7, <1>9, <1>10 DEF a

-----------------------------------------------------------------------------
(* What is yet to be shown.                                                  *)

\* Below p.
Under(p, q) == Len(p) < Len(q) /\ \A j \in 1..Len(p) : q[j] = p[j]

\* The loop of the ith array has not come to what leads to q.
AheadAt(stack, q, i) == /\ i <= Len(q) /\ q[i] >= stack[i].next
                        /\ \A j \in 1..(i - 1) : q[j] = stack[j].next - 1

Ahead(stack, q) == \E i \in 1..Len(stack) : AheadAt(stack, q, i)

\* The path of the ith array.
Above(stack, i) == [j \in 1..(i - 1) |-> stack[j].next - 1]

\* Each call renders what the calls below it have come to.
Placed(stack) ==
  /\ stack \in Stack /\ Len(stack) <= MaxDepth
  /\ \A i \in 1..Len(stack) :
       /\ stack[i].next \in 1..(MaxItems + 1) /\ (i < Len(stack) => stack[i].next > 1)
       /\ stack[i].arr = At[Above(stack, i)]

\* The ends of a stack.
LEMMA TopOf ==
  ASSUME NEW c \in Stack, c # <<>>
  PROVE  /\ Len(c) \in Nat \ {0} /\ Last(c) = c[Len(c)] /\ Last(c) \in [arr : Arrays, next : Nat]
         /\ Front(c) \in Stack /\ Len(Front(c)) = Len(c) - 1
         /\ \A i \in 1..(Len(c) - 1) : Front(c)[i] = c[i]
<1> QED BY FrontProperties DEF Stack, Last

\* An array begun.
LEMMA PushOf ==
  ASSUME NEW c \in Stack, NEW e \in [arr : Arrays, next : Nat]
  PROVE  /\ Append(c, e) \in Stack /\ Append(c, e) # <<>>
         /\ Len(Append(c, e)) = Len(c) + 1
         /\ Front(Append(c, e)) = c /\ Last(Append(c, e)) = e
         /\ \A i \in 1..Len(c) : Append(c, e)[i] = c[i]
         /\ Append(c, e)[Len(c) + 1] = e
<1> DEFINE S == [arr : Arrays, next : Nat]
<1>1. c \in Seq(S) /\ e \in S
  BY DEF Stack
<1> HIDE DEF S
<1>2. /\ Append(c, e) \in Seq(S) /\ Append(c, e) # <<>>
      /\ Len(Append(c, e)) = Len(c) + 1
      /\ Front(Append(c, e)) = c /\ Last(Append(c, e)) = e
      /\ \A i \in 1..Len(c) : Append(c, e)[i] = c[i]
      /\ Append(c, e)[Len(c) + 1] = e
  BY <1>1, PushProperties
<1> QED BY <1>2 DEF Stack, S

\* What the top loop adds to what is ahead.
LEMMA AheadTop ==
  ASSUME NEW c \in Stack, c # <<>>, NEW q
  PROVE  Ahead(c, q) <=> Ahead(Front(c), q) \/ AheadAt(c, q, Len(c))
<1>1. Len(c) \in Nat \ {0} /\ Len(Front(c)) = Len(c) - 1
  BY TopOf
<1>2. ASSUME NEW i \in 1..(Len(c) - 1) PROVE AheadAt(c, q, i) <=> AheadAt(Front(c), q, i)
  <2>1. \A j \in 1..i : j \in 1..(Len(c) - 1)
    BY <1>1
  <2>2. \A j \in 1..(Len(c) - 1) : Front(c)[j] = c[j]
    BY TopOf
  <2>3. \A j \in 1..i : Front(c)[j] = c[j]
    BY <2>1, <2>2
  <2>4. i \in 1..i /\ \A j \in 1..(i - 1) : j \in 1..i
    BY <1>1
  <2> QED BY <2>3, <2>4 DEF AheadAt
<1> QED BY <1>1, <1>2 DEF Ahead

\* A loop begun has its own items ahead.
LEMMA AheadPush ==
  ASSUME NEW c \in Stack, NEW e \in [arr : Arrays, next : Nat], NEW q
  PROVE  Ahead(Append(c, e), q) <=> Ahead(c, q) \/ AheadAt(Append(c, e), q, Len(c) + 1)
<1>1. /\ Append(c, e) \in Stack /\ Append(c, e) # <<>> /\ Len(Append(c, e)) = Len(c) + 1
      /\ Front(Append(c, e)) = c
  BY PushOf
<1>2. Len(Append(c, e)) = Len(c) + 1
  BY <1>1
<1> DEFINE d == Append(c, e)
<1> HIDE DEF d
<1>3. d \in Stack /\ d # <<>> /\ Front(d) = c /\ Len(d) = Len(c) + 1
  BY <1>1 DEF d
<1>4. Ahead(d, q) <=> Ahead(Front(d), q) \/ AheadAt(d, q, Len(d))
  BY <1>3, AheadTop
<1> QED BY <1>3, <1>4 DEF d

\* The top counted on.
LEMMA AdvancedIs ==
  ASSUME Placed(calls), calls # <<>>
  PROVE  /\ Advanced \in Stack /\ Advanced # <<>> /\ Len(Advanced) = Len(calls)
         /\ Front(Advanced) = Front(calls)
         /\ Last(Advanced) = [arr |-> Top.arr, next |-> Top.next + 1]
         /\ Advanced[Len(calls)] = [arr |-> Top.arr, next |-> Top.next + 1]
         /\ \A i \in 1..(Len(calls) - 1) : Advanced[i] = calls[i]
<1>1. calls \in Stack
  BY DEF Placed
<1>2. [Top EXCEPT !.next = @ + 1] = [arr |-> Top.arr, next |-> Top.next + 1]
  BY <1>1, TopOf DEF Top
<1>3. [Top EXCEPT !.next = @ + 1] \in [arr : Arrays, next : Nat]
  BY <1>1, <1>2, TopOf DEF Top
<1>4. Front(calls) \in Stack /\ Len(Front(calls)) = Len(calls) - 1 /\ Len(calls) \in Nat \ {0}
      /\ \A i \in 1..(Len(calls) - 1) : Front(calls)[i] = calls[i]
  BY <1>1, TopOf
<1> DEFINE e == [Top EXCEPT !.next = @ + 1]
<1> HIDE DEF e
<1>5. Advanced = Append(Front(calls), e)
  BY DEF Advanced, e
<1>6. /\ Append(Front(calls), e) \in Stack /\ Append(Front(calls), e) # <<>>
      /\ Len(Append(Front(calls), e)) = Len(Front(calls)) + 1
      /\ Front(Append(Front(calls), e)) = Front(calls) /\ Last(Append(Front(calls), e)) = e
      /\ \A i \in 1..Len(Front(calls)) : Append(Front(calls), e)[i] = Front(calls)[i]
      /\ Append(Front(calls), e)[Len(Front(calls)) + 1] = e
  BY <1>3, <1>4, PushOf DEF e
<1>7. e = [arr |-> Top.arr, next |-> Top.next + 1]
  BY <1>2 DEF e
<1> QED BY <1>4, <1>5, <1>6, <1>7

\* The path of the next item.
LEMMA NextPath ==
  ASSUME Heaped, Placed(calls), calls # <<>>, Top.next <= Len(Items), NEW p, p = Path(Advanced)
  PROVE  /\ p \in Paths /\ Len(p) = Len(calls) /\ p # <<>>
         /\ p[Len(calls)] = Top.next
         /\ \A i \in 1..(Len(calls) - 1) : p[i] = calls[i].next - 1
         /\ At[p] = IF TooMany(Top.next) THEN "more" ELSE Items[Top.next]
<1> DEFINE n == Len(calls)
<1>1. /\ calls \in Stack /\ n <= MaxDepth
      /\ \A i \in 1..n : /\ calls[i].next \in 1..(MaxItems + 1) /\ (i < n => calls[i].next > 1)
                         /\ calls[i].arr = At[Above(calls, i)]
  BY DEF Placed
<1>2. n \in Nat \ {0} /\ Top = calls[n] /\ Top.arr \in Arrays /\ Top.next \in Nat
  BY <1>1, TopOf DEF Top
<1>3. Advanced \in Stack /\ Len(Advanced) = n /\ DOMAIN Advanced = 1..n
  BY AdvancedIs, LenProperties DEF Stack
<1> HIDE DEF n
<1>4. /\ Advanced[n].next = Top.next + 1
      /\ \A i \in 1..(n - 1) : Advanced[i] = calls[i]
  BY AdvancedIs DEF n
<1>5. p = [i \in 1..n |-> Advanced[i].next - 1]
  BY <1>3 DEF Path
<1>6. p[n] = Top.next /\ \A i \in 1..(n - 1) : p[i] = calls[i].next - 1
  <2>1. n \in 1..n /\ \A i \in 1..(n - 1) : i \in 1..n
    BY <1>2
  <2>2. p[n] = (Top.next + 1) - 1
    BY <1>4, <1>5, <2>1
  <2>3. \A i \in 1..(n - 1) : p[i] = calls[i].next - 1
    BY <1>4, <1>5, <2>1
  <2> QED BY <1>2, <2>2, <2>3
<1>7. \A i \in 1..n : p[i] \in 1..(MaxItems + 1)
  <2>1. Top.next \in 1..(MaxItems + 1)
    BY <1>1, <1>2
  <2>2. ASSUME NEW i \in 1..(n - 1) PROVE p[i] \in 1..(MaxItems + 1)
    <3>1. i \in 1..n /\ i < n
      BY <1>2
    <3>2. calls[i].next \in 1..(MaxItems + 1) /\ calls[i].next > 1
      BY <1>1, <3>1
    <3> QED BY <1>6, <3>2, RenderAssumption
  <2>3. \A i \in 1..n : i = n \/ i \in 1..(n - 1)
    BY <1>2
  <2> QED BY <1>6, <2>1, <2>2, <2>3
<1>8. p \in Seq(1..(MaxItems + 1)) /\ Len(p) = n
  <2>1. p \in [1..n -> 1..(MaxItems + 1)]
    BY <1>5, <1>7
  <2>2. \A S, f : \A m \in Nat : f \in [1..m -> S] => f \in Seq(S) /\ Len(f) = m
    OBVIOUS
  <2>3. n \in Nat
    BY <1>2
  <2> QED BY <2>1, <2>2, <2>3
<1>9. p \in Paths /\ p # <<>>
  BY <1>1, <1>2, <1>8, InPaths
<1>10. Front(p) = Above(calls, n)
  <2>1. Front(p) = [i \in 1..(n - 1) |-> p[i]]
    BY <1>2, <1>8 DEF Front
  <2> QED BY <1>6, <2>1 DEF Above
<1>11. At[Front(p)] = Top.arr
  BY <1>1, <1>2, <1>10
<1>12. Last(p) = Top.next
  BY <1>6, <1>8 DEF Last
<1>13. At[p] = IF Top.arr \notin Arrays \/ Top.next > Len(heap[Top.arr]) THEN "nothing"
              ELSE IF Top.next > MaxItems THEN "more" ELSE heap[Top.arr][Top.next]
  BY <1>9, <1>11, <1>12, AtIs DEF AtStep
<1>14. Len(heap[Top.arr]) \in Nat
  BY <1>2, RenderAssumption, LenProperties DEF Heaped
<1>15. ~(Top.next > Len(heap[Top.arr]))
  BY <1>2, <1>14 DEF Items
<1>16. At[p] = IF TooMany(Top.next) THEN "more" ELSE Items[Top.next]
  BY <1>2, <1>13, <1>15 DEF Items, TooMany
<1> QED BY <1>6, <1>8, <1>9, <1>16 DEF n

\* The next item is what is no longer ahead, with what is below it.
LEMMA AheadNext ==
  ASSUME Heaped, Placed(calls), calls # <<>>, Top.next <= Len(Items), NEW q \in Paths
  PROVE  Ahead(calls, q) <=> \/ Ahead(Advanced, q) \/ q = Path(Advanced)
                              \/ Under(Path(Advanced), q)
<1> DEFINE n == Len(calls)
           p == Path(Advanced)
<1>1. /\ p \in Paths /\ Len(p) = n /\ p[n] = Top.next
      /\ \A i \in 1..(n - 1) : p[i] = calls[i].next - 1
  BY NextPath
<1>2. calls \in Stack /\ n \in Nat \ {0} /\ Top = calls[n] /\ Top.next \in Nat
  BY TopOf DEF Top, Placed
<1>3. /\ Ahead(calls, q) <=> Ahead(Front(calls), q) \/ AheadAt(calls, q, n)
      /\ Ahead(Advanced, q) <=> Ahead(Front(calls), q) \/ AheadAt(Advanced, q, n)
  BY <1>2, AdvancedIs, AheadTop
<1>4. /\ Advanced[n].next = Top.next + 1
      /\ \A i \in 1..(n - 1) : Advanced[i] = calls[i]
  BY AdvancedIs
<1>5. /\ Len(q) \in Nat /\ \A i \in 1..Len(q) : q[i] \in Nat
      /\ q \in Seq(1..(MaxItems + 1)) /\ p \in Seq(1..(MaxItems + 1))
  <2>1. \A i \in 1..Len(q) : q[i] \in 1..(MaxItems + 1)
    BY PathAbove
  <2>2. \A i \in 1..(MaxItems + 1) : i \in Nat
    BY RenderAssumption
  <2>3. Len(q) \in Nat
    BY PathAbove
  <2>4. q \in Seq(1..(MaxItems + 1)) /\ p \in Seq(1..(MaxItems + 1))
    BY <1>1, InPaths
  <2> QED BY <2>1, <2>2, <2>3, <2>4
<1> HIDE DEF n, p
<1>6. AheadAt(calls, q, n) <=> /\ n <= Len(q) /\ q[n] >= Top.next
                               /\ \A i \in 1..(n - 1) : q[i] = p[i]
  BY <1>1, <1>2 DEF AheadAt
<1>7. AheadAt(Advanced, q, n) <=> /\ n <= Len(q) /\ q[n] >= Top.next + 1
                                  /\ \A i \in 1..(n - 1) : q[i] = p[i]
  BY <1>1, <1>4 DEF AheadAt
<1>8. q = p \/ Under(p, q) <=> n <= Len(q) /\ \A i \in 1..n : q[i] = p[i]
  <2>1. ASSUME n <= Len(q), \A i \in 1..n : q[i] = p[i] PROVE q = p \/ Under(p, q)
    <3>1. CASE Len(q) = n
      <4>1. Len(q) = Len(p) /\ \A i \in 1..Len(q) : q[i] = p[i]
        BY <1>1, <2>1, <3>1
      <4> QED BY <1>5, <4>1, SeqEqual
    <3>2. CASE Len(q) # n
      BY <1>1, <1>2, <1>5, <2>1, <3>2 DEF Under
    <3> QED BY <3>1, <3>2
  <2>2. ASSUME q = p PROVE n <= Len(q) /\ \A i \in 1..n : q[i] = p[i]
    BY <1>1, <1>2, <2>2
  <2>3. ASSUME Under(p, q) PROVE n <= Len(q) /\ \A i \in 1..n : q[i] = p[i]
    BY <1>1, <1>2, <1>5, <2>3 DEF Under
  <2> QED BY <2>1, <2>2, <2>3
<1>9. (\A i \in 1..n : q[i] = p[i]) <=> q[n] = Top.next /\ \A i \in 1..(n - 1) : q[i] = p[i]
  BY <1>1, <1>2
<1>10. n <= Len(q) => (q[n] >= Top.next <=> q[n] >= Top.next + 1 \/ q[n] = Top.next)
  BY <1>2, <1>5
<1>11. AheadAt(calls, q, n) <=> AheadAt(Advanced, q, n) \/ q = p \/ Under(p, q)
  BY <1>6, <1>7, <1>8, <1>9, <1>10
<1> QED BY <1>3, <1>11 DEF n, p

\* What is no longer ahead comes before the next item.
LEMMA BeforeNext ==
  ASSUME Heaped, Placed(calls), calls # <<>>, Top.next <= Len(Items),
         NEW q \in Paths, ~Ahead(calls, q)
  PROVE  Before(q, Path(Advanced))
<1> DEFINE n == Len(calls)
           p == Path(Advanced)
           D == {i \in 1..n : i > Len(q) \/ q[i] # p[i]}
<1>1. /\ p \in Paths /\ Len(p) = n /\ p[n] = Top.next /\ DOMAIN p = 1..n
      /\ \A i \in 1..(n - 1) : p[i] = calls[i].next - 1
  BY NextPath, PathAbove
<1>2. /\ calls \in Stack /\ n \in Nat \ {0} /\ Top = calls[n] /\ Top.next \in Nat
      /\ \A i \in 1..n : calls[i].next \in Nat
  BY TopOf, RenderAssumption DEF Top, Placed
<1>3. /\ Len(q) \in Nat /\ DOMAIN q = 1..Len(q) /\ \A i \in 1..Len(q) : q[i] \in Nat
      /\ q \in Seq(1..(MaxItems + 1)) /\ p \in Seq(1..(MaxItems + 1))
  <2>1. \A i \in 1..Len(q) : q[i] \in 1..(MaxItems + 1)
    BY PathAbove
  <2>2. \A i \in 1..(MaxItems + 1) : i \in Nat
    BY RenderAssumption
  <2>3. Len(q) \in Nat /\ DOMAIN q = 1..Len(q)
    BY PathAbove
  <2>4. q \in Seq(1..(MaxItems + 1)) /\ p \in Seq(1..(MaxItems + 1))
    BY <1>1, InPaths
  <2> QED BY <2>1, <2>2, <2>3, <2>4
<1>4. \A i \in 1..n : ~AheadAt(calls, q, i)
  BY DEF Ahead
<1> HIDE DEF n, p
<1>5. D # {}
  <2> SUFFICES ASSUME D = {} PROVE FALSE
    OBVIOUS
  <2>1. \A i \in 1..n : ~(i > Len(q)) /\ q[i] = p[i]
    OBVIOUS
  <2>2. n <= Len(q) /\ q[n] = Top.next
    BY <1>1, <1>2, <1>3, <2>1
  <2>3. AheadAt(calls, q, n)
    BY <1>1, <1>2, <1>3, <2>1, <2>2 DEF AheadAt
  <2> QED BY <1>2, <1>4, <2>3
<1>6. PICK i \in D : \A j \in D : i <= j
  <2>1. D \subseteq Nat
    OBVIOUS
  <2> QED BY <1>5, <2>1, LeastOf
<1>7. i \in 1..n /\ (i > Len(q) \/ q[i] # p[i])
  BY <1>6
<1>8. \A j \in 1..(i - 1) : j <= Len(q) /\ q[j] = p[j]
  <2> SUFFICES ASSUME NEW j \in 1..(i - 1) PROVE j <= Len(q) /\ q[j] = p[j]
    OBVIOUS
  <2>1. j \in 1..n /\ j \in Nat /\ ~(i <= j)
    BY <1>2, <1>7
  <2>2. j \notin D
    BY <1>6, <2>1
  <2>3. ~(j > Len(q)) /\ q[j] = p[j]
    BY <2>1, <2>2
  <2> QED BY <1>3, <2>1, <2>3
<1>9. CASE i > Len(q)
  <2>1. i - 1 <= Len(q) /\ Len(q) < Len(p) /\ Len(q) <= Len(p) /\ i - 1 = Len(q)
    <3>1. i = 1 \/ i - 1 \in 1..(i - 1)
      BY <1>7, <1>2
    <3>2. i - 1 <= Len(q)
      BY <1>2, <1>3, <1>7, <1>8, <3>1
    <3> QED BY <1>1, <1>2, <1>3, <1>7, <1>9, <3>2
  <2>2. SubSeq(q, 1, Len(q)) = SubSeq(p, 1, Len(q))
    <3>1. /\ SubSeq(q, 1, Len(q)) = [j \in 1..Len(q) |-> q[j]]
          /\ SubSeq(p, 1, Len(q)) = [j \in 1..Len(q) |-> p[j]]
      BY <1>3, <2>1
    <3>2. \A j \in 1..Len(q) : q[j] = p[j]
      BY <1>8, <2>1
    <3> QED BY <3>1, <3>2
  <2>3. q # p
    BY <1>3, <2>1
  <2>4. IsStrictPrefix(q, p)
    BY <2>1, <2>2, <2>3 DEF IsStrictPrefix, IsPrefix
  <2> QED BY <2>4 DEF Before, p
<1>10. CASE ~(i > Len(q))
  <2>1. i \in 1..Len(q) /\ i <= Len(q) /\ q[i] # p[i] /\ i \in DOMAIN q \cap DOMAIN p
    BY <1>1, <1>2, <1>3, <1>7, <1>10
  <2>2. \A j \in 1..(i - 1) : q[j] = calls[j].next - 1
    BY <1>1, <1>2, <1>7, <1>8
  <2>3. ~(q[i] >= calls[i].next)
    BY <1>4, <1>7, <2>1, <2>2 DEF AheadAt
  <2>4. q[i] < p[i]
    <3>1. CASE i = n
      BY <1>1, <1>2, <1>3, <2>1, <2>3, <3>1
    <3>2. CASE i # n
      <4>1. i \in 1..(n - 1) /\ i \in 1..n
        BY <1>2, <1>7, <3>2
      <4>2. p[i] = calls[i].next - 1 /\ calls[i].next \in Nat /\ q[i] \in Nat
        BY <1>1, <1>2, <1>3, <2>1, <4>1
      <4> QED BY <2>1, <2>3, <4>2
    <3> QED BY <3>1, <3>2
  <2>5. \A j \in 1..(i - 1) : q[j] = p[j]
    BY <1>8
  <2>6. \E k \in DOMAIN q \cap DOMAIN p : q[k] < p[k] /\ \A j \in 1..(k - 1) : q[j] = p[j]
    BY <2>1, <2>4, <2>5
  <2> QED BY <2>6 DEF Before, p
<1> QED BY <1>9, <1>10

\* The paths that lead to something.
Spots == {p \in Paths : At[p] # "nothing"}

\* A path is a prefix of those under it.
LEMMA UnderIs ==
  ASSUME NEW p \in Paths, NEW q \in Paths, Under(p, q)
  PROVE  Len(p) \in Nat /\ Len(p) < Len(q) /\ SubSeq(q, 1, Len(p)) = p
<1>1. Len(p) \in Nat /\ Len(p) < Len(q) /\ Len(q) \in Nat
  BY PathAbove DEF Under
<1>2. /\ SubSeq(q, 1, Len(p)) \in Paths /\ Len(SubSeq(q, 1, Len(p))) = Len(p)
      /\ \A i \in 1..Len(p) : SubSeq(q, 1, Len(p))[i] = q[i]
  <2>1. Len(p) \in 0..Len(q)
    BY <1>1
  <2> QED BY <2>1, PathAbove
<1>3. SubSeq(q, 1, Len(p)) \in Seq(1..(MaxItems + 1)) /\ p \in Seq(1..(MaxItems + 1))
  BY <1>2, InPaths
<1>4. \A i \in 1..Len(SubSeq(q, 1, Len(p))) : SubSeq(q, 1, Len(p))[i] = p[i]
  BY <1>2 DEF Under
<1>5. SubSeq(q, 1, Len(p)) = p
  BY <1>2, <1>3, <1>4, SeqEqual
<1> QED BY <1>1, <1>5

\* Nothing is below what is no array, nor below the bound.
LEMMA NothingUnder ==
  ASSUME Heaped, NEW p \in Paths, NEW q \in Spots, Under(p, q)
  PROVE  At[p] \in Arrays /\ Len(p) < MaxDepth
<1>1. q \in Paths /\ At[q] # "nothing"
  BY DEF Spots
<1>2. Len(p) \in Nat /\ Len(p) < Len(q) /\ SubSeq(q, 1, Len(p)) = p
  BY <1>1, UnderIs
<1>3. At[SubSeq(q, 1, Len(p))] \in Arrays
  BY <1>1, <1>2, AtAncestors
<1>4. Len(q) <= MaxDepth /\ Len(q) \in Nat
  BY <1>1, InPaths, PathAbove
<1>5. At[p] \in Arrays
  BY <1>2, <1>3
<1>6. Len(p) < MaxDepth
  <2>1. Len(p) \in Nat /\ Len(p) < Len(q)
    BY <1>2
  <2> QED BY <1>4, <2>1, RenderAssumption
<1> QED BY <1>5, <1>6

\* The path of a stack.
LEMMA PathOf ==
  ASSUME NEW s \in Stack
  PROVE  /\ DOMAIN s = 1..Len(s) /\ Len(s) \in Nat
         /\ \A i \in 1..Len(s) : s[i] \in [arr : Arrays, next : Nat]
         /\ Path(s) = Above(s, Len(s) + 1)
         /\ \A i \in 1..Len(s) : Path(s)[i] = s[i].next - 1
<1>1. /\ DOMAIN s = 1..Len(s) /\ Len(s) \in Nat
      /\ \A i \in 1..Len(s) : s[i] \in [arr : Arrays, next : Nat]
  BY LenProperties, ElementOfSeq DEF Stack
<1>2. Path(s) = [i \in 1..Len(s) |-> s[i].next - 1]
  BY <1>1 DEF Path
<1>3. (Len(s) + 1) - 1 = Len(s)
  BY <1>1
<1> QED BY <1>1, <1>2, <1>3 DEF Above

\* A path is not ahead of the stack it is of.
LEMMA NotAhead ==
  ASSUME NEW s \in Stack PROVE ~Ahead(s, Path(s))
<1> SUFFICES ASSUME NEW i \in 1..Len(s), AheadAt(s, Path(s), i) PROVE FALSE
  BY DEF Ahead
<1>1. Path(s)[i] >= s[i].next /\ s[i].next \in Nat /\ Path(s)[i] = s[i].next - 1
  BY PathOf DEF AheadAt
<1> QED BY <1>1

\* q was shown, and q was not yet come to.
Told(q) == \E k \in 1..Len(shown) : shown[k].path = q
Left(q) == shown = <<>> \/ Ahead(calls, q)

Words == Arrays \cup Kinds \cup {"array", "elided", "more"}

\* What was shown is what is no longer ahead of the loops: the two tell the same
\* paths apart, and the paths shown are in order.
OrderInv ==
  /\ Heaped /\ Placed(calls) /\ (shown = <<>> => calls = <<>>)
  /\ shown \in Seq([path : Paths, what : Words])
  /\ \A k \in 1..Len(shown) : /\ shown[k].path \in Spots
                              /\ shown[k].what = Shown(shown[k].path)
                              /\ \A l \in 1..(k - 1) : Before(shown[l].path, shown[k].path)
  /\ \A q \in Spots : Told(q) <=> ~Left(q)

\* What is at a path does not change while a value is rendered ..
LEMMA AtKept == UNCHANGED <<heap, root>> => At' = At
BY DEF At

\* .. nor do the paths, nor what is shown for them.
LEMMA Kept ==
  ASSUME UNCHANGED <<heap, root>>
  PROVE  /\ Heaped' = Heaped /\ Spots' = Spots /\ Placed(calls)' = Placed(calls')
         /\ \A p : Shown(p)' = Shown(p)
<1>1. Heaped' = Heaped
  BY DEF Heaped
<1>2. Spots' = Spots
  BY AtKept DEF Spots
<1>3. Placed(calls)' = Placed(calls')
  BY AtKept DEF Placed
<1>4. \A p : Shown(p)' = Shown(p)
  BY AtKept DEF Shown
<1> QED BY <1>1, <1>2, <1>3, <1>4

\* One more is shown.
LEMMA ShowStep ==
  ASSUME OrderInv, UNCHANGED <<heap, root>>, NEW p \in Spots, NEW what \in Words, what = Shown(p),
         Show(p, what), Placed(calls'), ~Ahead(calls', p),
         \A q \in Spots : Left(q) <=> Ahead(calls', q) \/ q = p,
         \A q \in Spots : ~Left(q) => Before(q, p)
  PROVE  OrderInv'
<1> DEFINE E == [path : Paths, what : Words]
           e == [path |-> p, what |-> what]
<1>1. e \in E /\ shown \in Seq(E)
  BY DEF Spots, OrderInv
<1> HIDE DEF E
<1>2. /\ shown' \in Seq(E) /\ shown' # <<>> /\ Len(shown') = Len(shown) + 1
      /\ \A i \in 1..Len(shown) : shown'[i] = shown[i]
      /\ shown'[Len(shown) + 1] = e /\ Len(shown) \in Nat
  <2>1. shown' = Append(shown, e)
    BY DEF Show
  <2> HIDE DEF e
  <2> QED BY <1>1, <2>1, PushProperties, LenProperties
<1>3. e.path = p /\ e.what = Shown(p)
  OBVIOUS
<1> HIDE DEF e
<1>4. Heaped' /\ Placed(calls)' /\ (shown = <<>> => calls = <<>>)'
  BY <1>2, Kept DEF OrderInv
<1>5. (shown \in Seq([path : Paths, what : Words]))'
  <2>1. Paths' = Paths /\ Words' = Words
    BY DEF Paths, Words
  <2> QED BY <1>2, <2>1 DEF E
<1>6. ASSUME NEW k \in 1..Len(shown')
      PROVE  /\ shown'[k].path \in Spots
             /\ shown'[k].what = Shown(shown'[k].path)
             /\ \A l \in 1..(k - 1) : Before(shown'[l].path, shown'[k].path)
  <2>1. CASE k \in 1..Len(shown)
    <3>1. shown'[k] = shown[k] /\ \A l \in 1..(k - 1) : shown'[l] = shown[l]
      BY <1>2, <2>1
    <3> QED BY <2>1, <3>1 DEF OrderInv
  <2>2. CASE k = Len(shown) + 1
    <3>1. \A l \in 1..(k - 1) : l \in 1..Len(shown)
      BY <1>2, <2>2
    <3>2. ASSUME NEW l \in 1..(k - 1) PROVE Before(shown'[l].path, p)
      <4>1. shown'[l] = shown[l] /\ shown[l].path \in Spots /\ Told(shown[l].path)
        BY <1>2, <3>1 DEF OrderInv, Told
      <4> QED BY <4>1 DEF OrderInv
    <3> QED BY <1>2, <1>3, <2>2, <3>2
  <2> QED BY <1>2, <2>1, <2>2
<1>7. ASSUME NEW q \in Spots PROVE Told(q)' <=> ~Left(q)'
  <2>1. Told(q)' <=> Told(q) \/ q = p
    <3>1. \A k : k \in 1..Len(shown') <=> k \in 1..Len(shown) \/ k = Len(shown) + 1
      BY <1>2
    <3> QED BY <1>2, <1>3, <3>1 DEF Told
  <2>2. Left(q)' <=> Ahead(calls', q)
    BY <1>2 DEF Left, Ahead, AheadAt
  <2>3. Told(q) <=> ~Left(q)
    BY DEF OrderInv
  <2> QED BY <2>1, <2>2, <2>3
<1> HIDE DEF E
<1>8. (\A k \in 1..Len(shown) : /\ shown[k].path \in Spots
                              /\ shown[k].what = Shown(shown[k].path)
                              /\ \A l \in 1..(k - 1) : Before(shown[l].path, shown[k].path))'
  BY <1>6, Kept DEF Before
<1>9. (\A q \in Spots : Told(q) <=> ~Left(q))'
  BY <1>7, Kept
<1> QED BY <1>4, <1>5, <1>8, <1>9 DEF OrderInv

\* A value written, or the array it is begun.
LEMMA IntoStep ==
  ASSUME OrderInv, UNCHANGED <<heap, root>>, NEW stack \in Stack, Placed(stack),
         \A i \in 1..Len(stack) : stack[i].next > 1,
         NEW p \in Spots, p = Path(stack), Len(p) = Len(stack), At[p] \in Arrays \cup Kinds,
         RenderInto(At[p], stack),
         \A q \in Spots : Left(q) <=> Ahead(stack, q) \/ q = p \/ Under(p, q),
         \A q \in Spots : ~Left(q) => Before(q, p)
  PROVE  OrderInv'
<1> DEFINE value == At[p]
<1>1. Heaped /\ p \in Paths /\ Len(p) \in Nat /\ Len(p) <= MaxDepth
  BY InPaths, PathAbove DEF OrderInv, Spots
<1>2. ~Ahead(stack, p)
  BY NotAhead
<1>3. CASE value \notin Arrays
  <2>1. Show(p, value) /\ calls' = stack
    BY <1>3 DEF RenderInto
  <2>2. value = Shown(p) /\ value \in Words
    BY <1>3 DEF Shown, Words
  <2>3. \A q \in Spots : ~Under(p, q)
    BY <1>1, <1>3, NothingUnder
  <2> HIDE DEF value
  <2> QED BY <1>2, <2>1, <2>2, <2>3, ShowStep
<1>4. CASE value \in Arrays /\ TooDeep(Len(stack))
  <2>1. Show(p, "elided") /\ calls' = stack
    BY <1>4 DEF RenderInto
  <2>2. Len(p) = MaxDepth
    BY <1>1, <1>4, RenderAssumption DEF TooDeep
  <2>3. "elided" = Shown(p) /\ "elided" \in Words
    BY <1>4, <2>2 DEF Shown, Words
  <2>4. \A q \in Spots : ~Under(p, q)
    <3> SUFFICES ASSUME NEW q \in Spots, Under(p, q) PROVE FALSE
      OBVIOUS
    <3>1. Len(p) < MaxDepth
      BY <1>1, NothingUnder
    <3> QED BY <2>2, <3>1, RenderAssumption
  <2> QED BY <1>2, <2>1, <2>3, <2>4, ShowStep
<1>5. CASE value \in Arrays /\ ~TooDeep(Len(stack))
  <2> DEFINE n == Len(stack)
             e == [arr |-> value, next |-> 1]
             s == Append(stack, e)
  <2>1. Show(p, "array") /\ calls' = s
    BY <1>5 DEF RenderInto
  <2>2. n \in Nat /\ n < MaxDepth /\ n = Len(p)
    BY <1>1, <1>5, RenderAssumption DEF TooDeep
  <2>3. "array" = Shown(p) /\ "array" \in Words
    <3>1. Len(p) # MaxDepth
      BY <2>2, RenderAssumption
    <3> QED BY <1>5, <3>1 DEF Shown, Words
  <2>4. e \in [arr : Arrays, next : Nat] /\ e.arr = value /\ e.next = 1
    BY <1>5
  <2> HIDE DEF e
  <2>5. s \in Stack /\ Len(s) = n + 1 /\ (\A i \in 1..n : s[i] = stack[i]) /\ s[n + 1] = e
    BY <2>4, PushOf
  <2>6. \A q : Ahead(s, q) <=> Ahead(stack, q) \/ AheadAt(s, q, n + 1)
    BY <2>4, AheadPush
  <2> HIDE DEF s, n, value
  <2>7. \A i \in 1..n : p[i] = stack[i].next - 1
    BY PathOf DEF n
  <2>8. ASSUME NEW q \in Spots PROVE AheadAt(s, q, n + 1) <=> Under(p, q)
    <3>1. Len(q) \in Nat /\ \A i \in 1..Len(q) : q[i] \in 1..(MaxItems + 1)
      BY PathAbove DEF Spots
    <3>2. AheadAt(s, q, n + 1) <=> /\ n + 1 <= Len(q) /\ q[n + 1] >= 1
                                   /\ \A j \in 1..n : q[j] = p[j]
      <4>1. (n + 1) - 1 = n
        BY <2>2
      <4> QED BY <2>4, <2>5, <2>7, <4>1 DEF AheadAt
    <3>3. n + 1 <= Len(q) => q[n + 1] >= 1
      BY <2>2, <3>1, RenderAssumption
    <3>4. n + 1 <= Len(q) <=> Len(p) < Len(q)
      BY <2>2, <3>1
    <3> QED BY <2>2, <3>2, <3>3, <3>4 DEF Under
  <2>9. Placed(s)
    <3>1. Len(s) <= MaxDepth
      BY <2>2, <2>5, RenderAssumption
    <3>2. ASSUME NEW i \in 1..n
          PROVE  /\ s[i].next \in 1..(MaxItems + 1) /\ s[i].next > 1
                 /\ s[i].arr = At[Above(s, i)]
      <4>1. Above(s, i) = Above(stack, i)
        <5>1. \A j \in 1..(i - 1) : j \in 1..n
          BY <2>2
        <5> QED BY <2>5, <5>1 DEF Above
      <4> QED BY <2>5, <4>1 DEF Placed, n
    <3>3. s[n + 1].next = 1 /\ 1 \in 1..(MaxItems + 1) /\ s[n + 1].arr = At[Above(s, n + 1)]
      <4>1. Above(s, n + 1) = Above(stack, n + 1)
        <5>1. \A j \in 1..((n + 1) - 1) : j \in 1..n
          BY <2>2
        <5> QED BY <2>5, <5>1 DEF Above
      <4>2. Above(stack, n + 1) = p
        BY PathOf DEF n
      <4> QED BY <2>4, <2>5, <4>1, <4>2, RenderAssumption DEF value
    <3>4. \A i \in 1..Len(s) : i \in 1..n \/ (i = n + 1 /\ ~(i < Len(s)))
      BY <2>2, <2>5
    <3> QED BY <2>5, <3>1, <3>2, <3>3, <3>4 DEF Placed
  <2>10. ~Ahead(s, p)
    <3>1. ~AheadAt(s, p, n + 1)
      BY <2>2 DEF AheadAt
    <3> QED BY <1>2, <2>6, <3>1
  <2>11. \A q \in Spots : Left(q) <=> Ahead(s, q) \/ q = p
    BY <2>6, <2>8
  <2>12. Placed(calls') /\ ~Ahead(calls', p) /\ \A q \in Spots : Left(q) <=> Ahead(calls', q) \/ q = p
    BY <2>1, <2>9, <2>10, <2>11
  <2> QED BY <2>1, <2>3, <2>12, ShowStep
<1> QED BY <1>3, <1>4, <1>5

-----------------------------------------------------------------------------
(* The steps of render_into.                                                 *)

\* The first value is shown before all others.
LEMMA RenderStep == OrderInv /\ Render => OrderInv'
<1> SUFFICES ASSUME OrderInv, Render PROVE OrderInv'
  OBVIOUS
<1> DEFINE p == <<>>
<1>1. shown = <<>> /\ calls = <<>> /\ UNCHANGED <<heap, root>> /\ RenderInto(root, <<>>) /\ Heaped
  BY DEF Render, OrderInv
<1>2. p \in Paths /\ p \in Stack /\ Len(p) = 0
  <2>1. p \in Seq(1..(MaxItems + 1)) /\ Len(p) = 0
    OBVIOUS
  <2>2. p \in Paths
    <3>1. Len(p) <= MaxDepth
      BY RenderAssumption
    <3> HIDE DEF p
    <3> QED BY <2>1, <3>1, InPaths
  <2> QED BY <2>1, <2>2 DEF Stack
<1>3. At[p] = root /\ root \in Arrays \cup Kinds
  BY <1>1, <1>2, AtIs DEF AtStep, Heaped
<1>4. p \in Spots
  BY <1>2, <1>3, RenderAssumption DEF Spots
<1>5. p = Path(p)
  BY DEF Path
<1>6. Placed(p)
  BY <1>2, RenderAssumption DEF Placed
<1>7. ASSUME NEW q \in Spots PROVE Left(q) /\ (q = p \/ Under(p, q))
  <2>1. Left(q)
    BY <1>1 DEF Left
  <2>2. q \in Seq(1..(MaxItems + 1))
    BY InPaths DEF Spots
  <2>3. q = p \/ Len(q) > 0
    BY <2>2, EmptySeq, LenProperties
  <2> QED BY <1>2, <2>1, <2>3 DEF Under
<1>8. \A i \in 1..Len(p) : p[i].next > 1
  BY <1>2
<1>9. RenderInto(At[p], p) /\ At[p] \in Arrays \cup Kinds
  BY <1>1, <1>3
<1> HIDE DEF p
<1> QED BY <1>1, <1>2, <1>4, <1>5, <1>6, <1>7, <1>8, <1>9, IntoStep

\* What is shown so far, when an item is next.
LEMMA ShownSoFar ==
  ASSUME OrderInv, calls # <<>>
  PROVE  /\ Heaped /\ Placed(calls) /\ calls \in Stack /\ shown # <<>>
         /\ \A q : Left(q) <=> Ahead(calls, q)
         /\ Top.next <= Len(Items) => \A q \in Spots : ~Left(q) => Before(q, Path(Advanced))
<1>1. Heaped /\ Placed(calls) /\ shown # <<>> /\ calls \in Stack
  BY DEF OrderInv, Placed
<1>2. \A q : Left(q) <=> Ahead(calls, q)
  BY <1>1 DEF Left
<1>3. ASSUME Top.next <= Len(Items), NEW q \in Spots, ~Left(q) PROVE Before(q, Path(Advanced))
  BY <1>1, <1>2, <1>3, BeforeNext DEF Spots
<1> QED BY <1>1, <1>2, <1>3

\* An item is shown after those before it, and before those still ahead.
LEMMA ItemStep == OrderInv /\ Item => OrderInv'
<1> SUFFICES ASSUME OrderInv, Item PROVE OrderInv'
  OBVIOUS
<1> DEFINE p == Path(Advanced)
           n == Len(calls)
           s == Advanced
<1>1. /\ calls # <<>> /\ Top.next <= Len(Items) /\ ~TooMany(Top.next)
      /\ UNCHANGED <<heap, root>> /\ RenderInto(Items[Top.next], s)
  BY DEF Item
<1>2. /\ Heaped /\ Placed(calls) /\ calls \in Stack
      /\ \A q : Left(q) <=> Ahead(calls, q)
      /\ \A q \in Spots : ~Left(q) => Before(q, p)
  BY <1>1, ShownSoFar
<1>3. /\ p \in Paths /\ Len(p) = n /\ At[p] = Items[Top.next]
  BY <1>1, <1>2, NextPath
<1>4. n \in Nat \ {0} /\ Top = calls[n] /\ Top.arr \in Arrays /\ Top.next \in Nat
  BY <1>1, <1>2, TopOf DEF Top
<1>5. At[p] \in Arrays \cup Kinds
  <2>1. heap[Top.arr] \in Seq(Arrays \cup Kinds)
    BY <1>2, <1>4, RenderAssumption DEF Heaped
  <2>2. Top.next \in 1..Len(heap[Top.arr])
    <3>1. Top.next \in 1..(MaxItems + 1)
      BY <1>2, <1>4 DEF Placed
    <3> QED BY <1>1, <1>4, <2>1, <3>1, LenProperties, RenderAssumption DEF Items
  <2> QED BY <1>3, <2>1, <2>2, ElementOfSeq DEF Items
<1>6. p \in Spots
  BY <1>3, <1>5, RenderAssumption DEF Spots
<1>7. /\ s \in Stack /\ Len(s) = n /\ s[n].arr = Top.arr /\ s[n].next = Top.next + 1
      /\ \A i \in 1..(n - 1) : s[i] = calls[i]
  BY <1>1, <1>2, AdvancedIs
<1> HIDE DEF s
<1>8. \A i \in 1..n : i \in 1..(n - 1) \/ i = n
  BY <1>4
<1>9. \A i \in 1..(n - 1) : i \in 1..n /\ i < n
  BY <1>4
<1>10. \A i \in 1..n : /\ calls[i].next \in 1..(MaxItems + 1) /\ (i < n => calls[i].next > 1)
                        /\ calls[i].arr = At[Above(calls, i)]
  BY <1>2 DEF Placed
<1>11. ASSUME NEW i \in 1..n
       PROVE  s[i].next > 1 /\ s[i].next \in 1..(MaxItems + 1) /\ s[i].arr = At[Above(s, i)]
  <2>1. Above(s, i) = Above(calls, i)
    <3>1. \A j \in 1..(i - 1) : j \in 1..(n - 1)
      BY <1>4
    <3> QED BY <1>7, <3>1 DEF Above
  <2>2. CASE i \in 1..(n - 1)
    BY <1>7, <1>9, <1>10, <2>1, <2>2
  <2>3. CASE i = n
    <3>1. s[n].next = Top.next + 1 /\ Top.next \in 1..(MaxItems + 1)
      BY <1>4, <1>7, <1>10, <2>3
    <3>2. Top.next <= MaxItems
      BY <1>1, <1>4, RenderAssumption DEF TooMany
    <3>3. Top.next + 1 > 1 /\ Top.next + 1 \in 1..(MaxItems + 1)
      BY <3>1, <3>2, RenderAssumption
    <3> QED BY <1>4, <1>7, <1>10, <2>1, <2>3, <3>1, <3>3
  <2> QED BY <1>8, <2>2, <2>3
<1>12. Placed(s)
  BY <1>2, <1>7, <1>11 DEF Placed
<1>13. \A q \in Spots : Left(q) <=> Ahead(s, q) \/ q = p \/ Under(p, q)
  BY <1>1, <1>2, AheadNext DEF s, Spots
<1>14. RenderInto(At[p], s)
  BY <1>1, <1>3
<1>15. p = Path(s) /\ Len(p) = Len(s)
  BY <1>3, <1>7 DEF s
<1> HIDE DEF p
<1> QED BY <1>1, <1>2, <1>5, <1>6, <1>7, <1>11, <1>12, <1>13, <1>14, <1>15, IntoStep

\* The top left.
LEMMA PopPlaced ==
  ASSUME Placed(calls), calls # <<>>
  PROVE  Placed(Front(calls))
<1> DEFINE n == Len(calls)
           s == Front(calls)
<1>1. calls \in Stack /\ n <= MaxDepth
  BY DEF Placed
<1>2. n \in Nat \ {0} /\ s \in Stack /\ Len(s) = n - 1 /\ \A i \in 1..(n - 1) : s[i] = calls[i]
  BY <1>1, TopOf
<1>3. \A i \in 1..n : /\ calls[i].next \in 1..(MaxItems + 1) /\ (i < n => calls[i].next > 1)
                        /\ calls[i].arr = At[Above(calls, i)]
  BY DEF Placed
<1> HIDE DEF n, s
<1>4. ASSUME NEW i \in 1..(n - 1)
      PROVE  /\ s[i].next \in 1..(MaxItems + 1) /\ s[i].next > 1
             /\ s[i].arr = At[Above(s, i)]
  <2>1. i \in 1..n /\ i < n
    BY <1>2
  <2>2. Above(s, i) = Above(calls, i)
    <3>1. \A j \in 1..(i - 1) : j \in 1..(n - 1)
      BY <1>2
    <3> QED BY <1>2, <3>1 DEF Above
  <2> QED BY <1>2, <1>3, <2>1, <2>2
<1>5. Len(s) <= MaxDepth
  BY <1>1, <1>2, RenderAssumption
<1> QED BY <1>2, <1>4, <1>5 DEF Placed, s

\* So is the mark that items were left out.
LEMMA MoreStep == OrderInv /\ More => OrderInv'
<1> SUFFICES ASSUME OrderInv, More PROVE OrderInv'
  OBVIOUS
<1> DEFINE p == Path(Advanced)
           n == Len(calls)
<1>1. /\ calls # <<>> /\ Top.next <= Len(Items) /\ TooMany(Top.next)
      /\ UNCHANGED <<heap, root>> /\ Show(p, "more") /\ calls' = Front(calls)
  BY DEF More
<1>2. /\ Heaped /\ Placed(calls) /\ calls \in Stack
      /\ \A q : Left(q) <=> Ahead(calls, q)
      /\ \A q \in Spots : ~Left(q) => Before(q, p)
  BY <1>1, ShownSoFar
<1>3. /\ p \in Paths /\ Len(p) = n /\ At[p] = "more"
  BY <1>1, <1>2, NextPath
<1>4. At[p] \notin Arrays /\ "more" # "nothing" /\ p \in Spots
  BY <1>3, RenderAssumption DEF Spots
<1>5. "more" = Shown(p) /\ "more" \in Words
  BY <1>3, <1>4 DEF Shown, Words
<1>6. n \in Nat \ {0} /\ Top = calls[n] /\ Top.next \in Nat
  BY <1>1, <1>2, TopOf DEF Top
<1>7. /\ Advanced \in Stack /\ Advanced # <<>> /\ Len(Advanced) = n
      /\ Front(Advanced) = Front(calls) /\ Advanced[n].next = Top.next + 1
  BY <1>1, <1>2, AdvancedIs
<1>8. \A q : Ahead(Advanced, q) <=> Ahead(Front(calls), q) \/ AheadAt(Advanced, q, n)
  <2>1. \A q : Ahead(Advanced, q) <=> Ahead(Front(Advanced), q) \/ AheadAt(Advanced, q, Len(Advanced))
    BY <1>7, AheadTop
  <2> QED BY <1>7, <2>1
<1>9. \A q \in Spots : Left(q) <=> Ahead(Advanced, q) \/ q = p \/ Under(p, q)
  BY <1>1, <1>2, AheadNext DEF Spots
<1>10. \A q \in Spots : ~Under(p, q)
  BY <1>2, <1>3, <1>4, NothingUnder
<1>11. ASSUME NEW q \in Spots PROVE ~AheadAt(Advanced, q, n)
  <2> SUFFICES ASSUME AheadAt(Advanced, q, n) PROVE FALSE
    OBVIOUS
  <2>1. n \in 1..Len(q) /\ q[n] >= Top.next + 1
    BY <1>6, <1>7, PathAbove DEF AheadAt, Spots
  <2>2. q[n] \in 1..(MaxItems + 1)
    BY <2>1, PathAbove DEF Spots
  <2> QED BY <1>1, <1>6, <2>1, <2>2, RenderAssumption DEF TooMany
<1>12. Placed(calls')
  BY <1>1, <1>2, PopPlaced
<1>13. ~Ahead(calls', p)
  <2>1. ~Ahead(Advanced, p)
    BY <1>7, NotAhead
  <2> QED BY <1>1, <1>8, <2>1
<1>14. \A q \in Spots : Left(q) <=> Ahead(calls', q) \/ q = p
  BY <1>1, <1>8, <1>9, <1>10, <1>11
<1> HIDE DEF p
<1> QED BY <1>1, <1>2, <1>4, <1>5, <1>12, <1>13, <1>14, ShowStep

\* A loop that ends leaves nothing ahead of it.
LEMMA CloseStep == OrderInv /\ Close => OrderInv'
<1> SUFFICES ASSUME OrderInv, Close PROVE OrderInv'
  OBVIOUS
<1> DEFINE n == Len(calls)
<1>1. /\ calls # <<>> /\ Top.next > Len(Items)
      /\ UNCHANGED <<heap, root>> /\ shown' = shown /\ calls' = Front(calls)
  BY DEF Close
<1>2. /\ Heaped /\ Placed(calls) /\ calls \in Stack /\ shown # <<>>
      /\ \A q : Left(q) <=> Ahead(calls, q)
  BY <1>1, ShownSoFar
<1>3. n \in Nat \ {0} /\ Top = calls[n] /\ Top.arr \in Arrays /\ Top.next \in Nat
  BY <1>1, <1>2, TopOf DEF Top
<1>4. ASSUME NEW q \in Spots PROVE ~AheadAt(calls, q, n)
  <2> SUFFICES ASSUME AheadAt(calls, q, n) PROVE FALSE
    OBVIOUS
  <2>1. q \in Paths /\ At[q] # "nothing" /\ Len(q) \in Nat
    BY PathAbove DEF Spots
  <2>2. /\ n <= Len(q) /\ q[n] >= Top.next
        /\ \A j \in 1..(n - 1) : q[j] = calls[j].next - 1
    BY <1>3 DEF AheadAt
  <2>3. PICK m \in Nat : m = n - 1
    BY <1>3
  <2>4. m < Len(q) /\ m + 1 = n /\ m \in 0..Len(q) /\ n \in 1..Len(q)
    BY <1>3, <2>1, <2>2, <2>3
  <2>5. At[SubSeq(q, 1, m)] \in Arrays /\ q[m + 1] <= Len(heap[At[SubSeq(q, 1, m)]])
    BY <1>2, <2>1, <2>4, AtAncestors
  <2>6. SubSeq(q, 1, m) = Above(calls, n)
    <3>1. /\ SubSeq(q, 1, m) \in Paths /\ Len(SubSeq(q, 1, m)) = m
          /\ \A i \in 1..m : SubSeq(q, 1, m)[i] = q[i]
      BY <2>1, <2>4, PathAbove
    <3>2. SubSeq(q, 1, m) = [i \in 1..m |-> SubSeq(q, 1, m)[i]]
      <4>1. SubSeq(q, 1, m) \in Seq(1..(MaxItems + 1))
        BY <3>1, InPaths
      <4> QED BY <3>1, <4>1, LenProperties
    <3> QED BY <2>2, <2>3, <3>1, <3>2 DEF Above
  <2>7. At[Above(calls, n)] = Top.arr
    BY <1>2, <1>3 DEF Placed
  <2>8. q[n] <= Len(Items)
    BY <2>4, <2>5, <2>6, <2>7 DEF Items
  <2>9. Len(Items) \in Nat /\ q[n] \in Nat
    <3>1. Len(Items) \in Nat
      BY <1>2, <1>3, RenderAssumption, LenProperties DEF Heaped, Items
    <3>2. q[n] \in 1..(MaxItems + 1)
      BY <2>1, <2>4, PathAbove
    <3> QED BY <3>1, <3>2, RenderAssumption
  <2> QED BY <1>1, <1>3, <2>2, <2>8, <2>9
<1>5. \A q : Ahead(calls, q) <=> Ahead(Front(calls), q) \/ AheadAt(calls, q, n)
  BY <1>1, <1>2, AheadTop
<1>6. \A q \in Spots : Ahead(calls, q) <=> Ahead(calls', q)
  BY <1>1, <1>4, <1>5
<1>7. ASSUME NEW q \in Spots PROVE Told(q)' <=> ~Left(q)'
  <2>1. Told(q)' <=> Told(q)
    BY <1>1 DEF Told
  <2>2. Left(q)' <=> Ahead(calls', q)
    BY <1>1, <1>2 DEF Left, Ahead, AheadAt
  <2> QED BY <1>2, <1>6, <2>1, <2>2 DEF OrderInv
<1>8. Placed(calls')
  BY <1>1, <1>2, PopPlaced
<1>9. (\A q \in Spots : Told(q) <=> ~Left(q))'
  BY <1>1, <1>7, Kept
<1>10. Heaped' /\ Placed(calls)' /\ (shown = <<>> => calls = <<>>)'
  BY <1>1, <1>2, <1>8, Kept
<1>11. (shown \in Seq([path : Paths, what : Words]))'
  <2>1. Paths' = Paths /\ Words' = Words
    BY DEF Paths, Words
  <2> QED BY <1>1, <2>1 DEF OrderInv
<1>12. (\A k \in 1..Len(shown) : /\ shown[k].path \in Spots
                              /\ shown[k].what = Shown(shown[k].path)
                              /\ \A l \in 1..(k - 1) : Before(shown[l].path, shown[k].path))'
  BY <1>1, Kept DEF OrderInv, Before
<1> QED BY <1>9, <1>10, <1>11, <1>12 DEF OrderInv

\* So every step keeps the order ..
LEMMA OrderKept == OrderInv /\ [RenderNext]_rendering => OrderInv'
<1> SUFFICES ASSUME OrderInv, [RenderNext]_rendering PROVE OrderInv'
  OBVIOUS
<1>1. CASE UNCHANGED rendering
  <2>1. UNCHANGED <<heap, root, calls, shown>>
    BY <1>1 DEF rendering
  <2>2. Heaped' /\ Placed(calls)' /\ (shown = <<>> => calls = <<>>)'
    BY <2>1, Kept DEF OrderInv
  <2>3. (shown \in Seq([path : Paths, what : Words]))'
    BY <2>1 DEF OrderInv, Paths, Words
  <2>4. (\A k \in 1..Len(shown) : /\ shown[k].path \in Spots
                              /\ shown[k].what = Shown(shown[k].path)
                              /\ \A l \in 1..(k - 1) : Before(shown[l].path, shown[k].path))'
    BY <2>1, Kept DEF OrderInv, Before
  <2>5. \A q : Told(q)' = Told(q) /\ Left(q)' = Left(q)
    BY <2>1 DEF Told, Left, Ahead, AheadAt
  <2>6. (\A q \in Spots : Told(q) <=> ~Left(q))'
    BY <2>1, <2>5, Kept DEF OrderInv
  <2> QED BY <2>2, <2>3, <2>4, <2>6 DEF OrderInv
<1> QED BY <1>1, RenderStep, ItemStep, MoreStep, CloseStep DEF RenderNext

\* .. which holds at first ..
LEMMA OrderStart == RenderInit => OrderInv
<1> SUFFICES ASSUME RenderInit PROVE OrderInv
  OBVIOUS
<1>1. heap \in Heaps /\ root \in Arrays \cup Kinds /\ calls = <<>> /\ shown = <<>>
  BY DEF RenderInit
<1>2. Placed(calls)
  BY <1>1, RenderAssumption DEF Placed, Stack
<1> QED BY <1>1, <1>2 DEF OrderInv, Heaped, Told, Left

\* No path comes before itself.
LEMMA BeforeIsStrict ==
  ASSUME NEW q \in Paths PROVE ~Before(q, q)
<1>1. \A i \in DOMAIN q : ~(q[i] < q[i])
  <2>1. \A i \in DOMAIN q : q[i] \in Nat
    BY PathAbove, RenderAssumption
  <2> QED BY <2>1
<1> QED BY <1>1 DEF Before, IsStrictPrefix

\* When nothing is left every path was shown, and each once.
LEMMA AllShown ==
  ASSUME OrderInv, shown # <<>>, calls = <<>>
  PROVE  Len(shown) = Cardinality(Spots)
<1> DEFINE n == Len(shown)
           f == [k \in 1..n |-> shown[k].path]
<1>1. n \in Nat
  BY LenProperties DEF OrderInv
<1>2. \A k \in 1..n : /\ shown[k].path \in Spots
                      /\ \A l \in 1..(k - 1) : Before(shown[l].path, shown[k].path)
  BY DEF OrderInv
<1>3. \A q \in Spots : \E k \in 1..n : shown[k].path = q
  <2>1. \A q : ~Left(q)
    BY DEF Left, Ahead
  <2> QED BY <2>1 DEF OrderInv, Told
<1> HIDE DEF n
<1>4. \A q \in Spots : ~Before(q, q)
  BY BeforeIsStrict DEF Spots
<1>5. ASSUME NEW k \in 1..n, NEW l \in 1..n, f[k] = f[l] PROVE k = l
  <2>1. \A i \in 1..n : \A j \in 1..(i - 1) : j \in 1..n /\ f[i] # f[j]
    <3> SUFFICES ASSUME NEW i \in 1..n, NEW j \in 1..(i - 1) PROVE j \in 1..n /\ f[i] # f[j]
      OBVIOUS
    <3>1. j \in 1..n
      BY <1>1
    <3>2. shown[i].path # shown[j].path
      BY <1>2, <1>4
    <3> QED BY <3>1, <3>2
  <2>2. k = l \/ l \in 1..(k - 1) \/ k \in 1..(l - 1)
    BY <1>1
  <2> HIDE DEF f
  <2> QED BY <1>5, <2>1, <2>2
<1>6. f \in Bijection(1..n, Spots)
  <2>1. f \in [1..n -> Spots]
    BY <1>2
  <2>2. \A q \in Spots : \E k \in 1..n : f[k] = q
    BY <1>3
  <2> HIDE DEF f
  <2>3. f \in Surjection(1..n, Spots)
    BY <2>1, <2>2 DEF Surjection
  <2>4. f \in Injection(1..n, Spots)
    BY <1>5, <2>1 DEF Injection, IsInjective
  <2> QED BY <2>3, <2>4 DEF Bijection
<1>7. IsFiniteSet(1..n) /\ Cardinality(1..n) = n
  BY <1>1, FS_Interval
<1>8. Cardinality(1..n) = Cardinality(Spots)
  BY <1>6, <1>7, FS_Bijection DEF ExistsBijection
<1> QED BY <1>7, <1>8 DEF n

\* .. and says what ShowsInOrder says.
LEMMA OrderShows == OrderInv => ShowsInOrder
<1> SUFFICES ASSUME OrderInv PROVE ShowsInOrder
  OBVIOUS
<1>1. DOMAIN shown = 1..Len(shown) /\ Len(shown) \in Nat
  BY LenProperties DEF OrderInv
<1>2. ASSUME NEW k \in DOMAIN shown
      PROVE  shown[k].path \in Spots /\ shown[k].what = Shown(shown[k].path)
  BY <1>1 DEF OrderInv
<1>3. ASSUME NEW k \in 2..Len(shown) PROVE Before(shown[k - 1].path, shown[k].path)
  <2>1. k \in 1..Len(shown) /\ k - 1 \in 1..(k - 1)
    BY <1>1
  <2> QED BY <2>1 DEF OrderInv
<1>4. shown # <<>> /\ calls = <<>> => Len(shown) = Cardinality(Spots)
  BY AllShown
<1> QED BY <1>2, <1>3, <1>4 DEF ShowsInOrder, Spots

\* A value is rendered completely and in order: each path within the bounds of
\* depth and breadth once, with what is there or was left out, for every heap,
\* cyclic ones included (ShowsInOrder).
THEOREM ShownInOrder == RenderSpec => []ShowsInOrder
<1> QED BY OrderStart, OrderKept, OrderShows, PTL DEF RenderSpec

=============================================================================
