-------------------------- MODULE RespParserProofs --------------------------
(***************************************************************************)
(* For any values, streams and chunks: what serialize wrote, feed reads   *)
(* back, and where the stream is cut makes no difference.                 *)
(***************************************************************************)
EXTENDS RespParser, Induction, SequenceTheorems

(***************************************************************************)
(* The model's recursive functions over 0..n are functions: each goes     *)
(* from a first value, by one of these steps, from place to place.        *)
(***************************************************************************)
Step(kind, p, x, k) ==
    CASE kind = "concat"  -> x \o p[k]
      [] kind = "natural" -> 10 * x + Digit(p[k])
      [] kind = "nested"  -> Deeper(x)
      [] kind = "element" -> Element(p, x)
      [] kind = "again"   -> Again(p, x)

Iterates(f, n, kind, p, a) ==
    f = [k \in 0..n |-> IF k = 0 THEN a ELSE Step(kind, p, f[k - 1], k)]

\* From any first value, any of the steps can be repeated.
LEMMA Iteration ==
  ASSUME NEW n \in Nat, NEW kind, NEW p, NEW a
  PROVE  \E f : Iterates(f, n, kind, p, a)
<1> DEFINE T == {m \in Nat : \E f : Iterates(f, m, kind, p, a)}
<1>1. 0 \in T
  <2> DEFINE f == [k \in 0..0 |-> a]
  <2>1. f = [k \in 0..0 |-> IF k = 0 THEN a ELSE Step(kind, p, f[k - 1], k)]
    OBVIOUS
  <2> QED
    BY <2>1, Zenon DEF Iterates
<1>2. ASSUME NEW m \in T PROVE m + 1 \in T
  <2>1. PICK f : Iterates(f, m, kind, p, a)
    BY Zenon
  <2> DEFINE last == Step(kind, p, f[m], m + 1)
             g == [k \in 0..m + 1 |-> IF k = m + 1 THEN last ELSE f[k]]
  <2>2. m \in Nat /\ \A k \in 0..m : f[k] = IF k = 0 THEN a ELSE Step(kind, p, f[k - 1], k)
    BY <2>1, Zenon DEF Iterates
  <2>3. ASSUME NEW k \in 0..m + 1
        PROVE  g[k] = IF k = 0 THEN a ELSE Step(kind, p, g[k - 1], k)
    <3>1. CASE k = m + 1
      <4>1. g[k] = last /\ g[k - 1] = f[m] /\ k # 0
        <5> HIDE DEF last
        <5> QED
          BY <2>2, <3>1
      <4> QED
        BY <3>1, <4>1, Zenon
    <3>2. CASE k # m + 1
      <4> HIDE DEF last
      <4>1. k \in 0..m /\ g[k] = f[k] /\ (k # 0 => g[k - 1] = f[k - 1])
        BY <2>2, <3>2
      <4> QED
        BY <2>2, <4>1, Zenon
    <3> QED
      BY <3>1, <3>2, Zenon
  <2>4. g = [k \in 0..m + 1 |-> g[k]]
    BY Zenon
  <2> HIDE DEF g
  <2>5. Iterates(g, m + 1, kind, p, a)
    BY <2>3, <2>4, Zenon DEF Iterates
  <2> QED
    BY <2>2, <2>5
<1>3. T = Nat
  <2>1. T \subseteq Nat
    BY Zenon
  <2> HIDE DEF T
  <2> QED
    BY <1>1, <1>2, <2>1, Induct, Zenon
<1> QED
  BY <1>3, Zenon

\* What an iteration's values are.
Walks(f, n, kind, p, a) ==
    f[0] = a /\ \A k \in 1..n : f[k] = Step(kind, p, f[k - 1], k)

\* The first value, and each of the others from the one before.
LEMMA Iterated ==
  ASSUME NEW n \in Nat, NEW kind, NEW p, NEW a, NEW f, Iterates(f, n, kind, p, a)
  PROVE  Walks(f, n, kind, p, a)
<1> DEFINE g == [k \in 0..n |-> IF k = 0 THEN a ELSE Step(kind, p, f[k - 1], k)]
<1>1. f = g
  BY Zenon DEF Iterates
<1>2. g[0] = a /\ \A k \in 1..n : g[k] = Step(kind, p, f[k - 1], k)
  OBVIOUS
<1> HIDE DEF g
<1> QED
  BY <1>1, <1>2, Zenon DEF Walks

\* The bytes of the first k parts are those of one part less, and the part.
LEMMA ConcatsStep ==
  ASSUME NEW parts, Len(parts) \in Nat
  PROVE  LET f == Concats(parts)
         IN  f[0] = <<>> /\ \A k \in 1..Len(parts) : f[k] = f[k - 1] \o parts[k]
<1> DEFINE Is(f) == f = [k \in 0..Len(parts) |-> IF k = 0 THEN <<>> ELSE f[k - 1] \o parts[k]]
<1>1. \A x, k : Step("concat", parts, x, k) = x \o parts[k]
  BY Zenon DEF Step
<1>2. \A f : Is(f) <=> Iterates(f, Len(parts), "concat", parts, <<>>)
  BY <1>1, ZenonT(40) DEF Iterates
<1>3. Concats(parts) = CHOOSE f : Is(f)
  BY Zenon DEF Concats
<1> HIDE DEF Is
<1>4. Iterates(Concats(parts), Len(parts), "concat", parts, <<>>)
  BY <1>2, <1>3, Iteration, Zenon
<1>5. Walks(Concats(parts), Len(parts), "concat", parts, <<>>)
  BY <1>4, Iterated, Zenon
<1> QED
  BY <1>1, <1>5, Zenon DEF Walks

\* The result of an array's loop, element by element.
LEMMA ElementsStep ==
  ASSUME NEW parse, NEW i, NEW n \in Nat
  PROVE  LET f == Elements(parse, i, n)
         IN  f[0] = Value(<<>>, i) /\ \A k \in 1..n : f[k] = Element(parse, f[k - 1])
<1> DEFINE Is(f) == f = [k \in 0..n |-> IF k = 0 THEN Value(<<>>, i) ELSE Element(parse, f[k - 1])]
<1>1. \A x, k : Step("element", parse, x, k) = Element(parse, x)
  BY Zenon DEF Step
<1>2. \A f : Is(f) <=> Iterates(f, n, "element", parse, Value(<<>>, i))
  BY <1>1, Zenon DEF Iterates
<1>3. Elements(parse, i, n) = CHOOSE f : Is(f)
  BY Zenon DEF Elements
<1> HIDE DEF Is
<1>4. Iterates(Elements(parse, i, n), n, "element", parse, Value(<<>>, i))
  BY <1>2, <1>3, Iteration, Zenon
<1>5. Walks(Elements(parse, i, n), n, "element", parse, Value(<<>>, i))
  BY <1>4, Iterated, Zenon
<1> QED
  BY <1>1, <1>5, Zenon DEF Walks

\* What parsing a whole stream has come to, value by value.
LEMMA BatchesStep ==
  ASSUME NEW b, Len(b) \in Nat
  PROVE  LET f == Batches(b)
         IN  f[0] = [out |-> <<>>, at |-> 1, is |-> "value"] /\ \A k \in 1..Len(b) + 1 : f[k] = Again(b, f[k - 1])
<1> DEFINE Is(f) == f = [k \in 0..Len(b) + 1 |-> IF k = 0 THEN [out |-> <<>>, at |-> 1, is |-> "value"]
                                                ELSE Again(b, f[k - 1])]
<1>0. Len(b) + 1 \in Nat
  OBVIOUS
<1>1. \A x, k : Step("again", b, x, k) = Again(b, x)
  BY Zenon DEF Step
<1>2. \A f : Is(f) <=> Iterates(f, Len(b) + 1, "again", b, [out |-> <<>>, at |-> 1, is |-> "value"])
  BY <1>1, Zenon DEF Iterates
<1>3. Batches(b) = CHOOSE f : Is(f)
  BY Zenon DEF Batches
<1> HIDE DEF Is
<1>4. Iterates(Batches(b), Len(b) + 1, "again", b, [out |-> <<>>, at |-> 1, is |-> "value"])
  BY <1>0, <1>2, <1>3, Iteration, Zenon
<1>5. Walks(Batches(b), Len(b) + 1, "again", b, [out |-> <<>>, at |-> 1, is |-> "value"])
  BY <1>0, <1>4, Iterated, Zenon
<1> QED
  BY <1>1, <1>5, Zenon DEF Walks

\* The values nested one level deeper.
LEMMA NestedStep ==
         LET f == Nested
         IN  f[0] = Plain /\ \A k \in 1..Depth : f[k] = Deeper(f[k - 1])
<1> DEFINE Is(f) == f = [k \in 0..Depth |-> IF k = 0 THEN Plain ELSE Deeper(f[k - 1])]
<1>1. \A x, k : Step("nested", 0, x, k) = Deeper(x)
  BY Zenon DEF Step
<1>2. \A f : Is(f) <=> Iterates(f, Depth, "nested", 0, Plain)
  BY <1>1, Zenon DEF Iterates
<1>3. Nested = CHOOSE f : Is(f)
  BY Zenon DEF Nested, Deeper
<1> HIDE DEF Is
<1>4. Iterates(Nested, Depth, "nested", 0, Plain)
  BY RangeAssumption, <1>2, <1>3, Iteration, Zenon
<1>5. Walks(Nested, Depth, "nested", 0, Plain)
  BY RangeAssumption, <1>4, Iterated, Zenon
<1> QED
  BY <1>1, <1>5, Zenon DEF Walks

\* A number's value, digit by digit.
LEMMA NaturalStep ==
  ASSUME NEW s, Len(s) \in Nat
  PROVE  \E f : /\ f[0] = 0 /\ \A k \in 1..Len(s) : f[k] = 10 * f[k - 1] + Digit(s[k])
                /\ Natural(s) = f[Len(s)]
<1> DEFINE Is(f) == f = [k \in 0..Len(s) |-> IF k = 0 THEN 0 ELSE 10 * f[k - 1] + Digit(s[k])]
           c == CHOOSE f : Is(f)
<1>1. \A x, k : Step("natural", s, x, k) = 10 * x + Digit(s[k])
  BY Zenon DEF Step
<1>2. \A f : Is(f) <=> Iterates(f, Len(s), "natural", s, 0)
  BY <1>1 DEF Iterates
<1>3. Natural(s) = c[Len(s)]
  BY Zenon DEF Natural
<1> HIDE DEF Is
<1>4. Iterates(c, Len(s), "natural", s, 0)
  BY <1>2, Iteration, Zenon
<1> HIDE DEF c
<1>5. Walks(c, Len(s), "natural", s, 0)
  BY <1>4, Iterated, Zenon
<1> QED
  BY <1>1, <1>3, <1>5, Zenon DEF Walks

(***************************************************************************)
(* Line ends.                                                             *)
(***************************************************************************)
\* find_crlf finds the first line end, if there is one.
LEMMA LineEndFound ==
  ASSUME NEW b \in Seq(Bytes), NEW i \in Nat \ {0}
  PROVE  /\ LineEnd(b, i) = 0 => \A j \in i..Len(b) : ~EndsAt(b, j)
         /\ LineEnd(b, i) # 0 =>
                /\ LineEnd(b, i) \in i..Len(b) - 1
                /\ EndsAt(b, LineEnd(b, i))
                /\ \A j \in i..Len(b) : EndsAt(b, j) => LineEnd(b, i) <= j
<1> DEFINE at == {j \in i..Len(b) : EndsAt(b, j)}
<1>1. CASE at = {}
  BY <1>1, Zenon DEF LineEnd
<1>2. CASE at # {}
  <2>1. at \subseteq Nat
    OBVIOUS
  <2>2. \E j \in at : \A k \in at : j <= k
    <3> HIDE DEF at
    <3> QED
      BY <1>2, <2>1, Least, Zenon
  <2> DEFINE e == CHOOSE j \in at : \A k \in at : j <= k
  <2>3. LineEnd(b, i) = e
    BY <1>2, Zenon DEF LineEnd
  <2>4. e \in at /\ \A k \in at : e <= k
    <3> HIDE DEF at
    <3> QED
      BY <2>2, Zenon
  <2> HIDE DEF e
  <2>5. e \in i..Len(b) - 1 /\ EndsAt(b, e) /\ e # 0
    BY <2>4 DEF EndsAt
  <2> QED
    BY <2>3, <2>4, <2>5, Zenon
<1> QED
  BY <1>1, <1>2, Zenon

\* A line end with none before it is the one found.
LEMMA LineEndIs ==
  ASSUME NEW b \in Seq(Bytes), NEW i \in Nat \ {0}, NEW j \in i..Len(b), EndsAt(b, j),
         \A k \in i..j - 1 : ~EndsAt(b, k)
  PROVE  LineEnd(b, i) = j
<1> DEFINE e == LineEnd(b, i)
<1>1. /\ e = 0 => \A k \in i..Len(b) : ~EndsAt(b, k)
      /\ e # 0 => e \in i..Len(b) - 1 /\ EndsAt(b, e) /\ \A k \in i..Len(b) : EndsAt(b, k) => e <= k
  BY LineEndFound, Zenon
<1> HIDE DEF e
<1>2. Len(b) \in Nat
  OBVIOUS
<1>3. e # 0
  BY <1>1, Zenon
<1>4. e \in i..Len(b) - 1 /\ EndsAt(b, e) /\ e <= j
  BY <1>1, <1>3, Zenon
<1>5. e \notin i..j - 1
  BY <1>4, Zenon
<1>6. e = j
  BY <1>2, <1>4, <1>5
<1> QED
  BY <1>6, Zenon DEF e

(***************************************************************************)
(* A value at one offset depends on the values at later offsets only, so  *)
(* parse is a function.                                                   *)
(***************************************************************************)
\* A result that is no value, or a value that ends between i and the end of b.
Within(b, i, r) ==
    \/ r \in {More, Throw}
    \/ r = Value(r.value, r.next) /\ r.next \in i..Len(b) + 1

\* The loop over an array's elements.
LEMMA ElementsLocal ==
  ASSUME NEW b \in Seq(Bytes), NEW i \in 1..Len(b) + 1, NEW n \in Nat, NEW f, NEW g,
         \A j \in i..Len(b) + 1 : f[j] = g[j] /\ Within(b, j + 1, f[j])
  PROVE  /\ Elements(f, i, n)[n] = Elements(g, i, n)[n]
         /\ Within(b, i, Elements(f, i, n)[n])
<1> DEFINE F == Elements(f, i, n)
           G == Elements(g, i, n)
           T == {k \in Nat : k <= n => F[k] = G[k] /\ Within(b, i, F[k])}
<1>1. /\ F[0] = Value(<<>>, i) /\ \A k \in 1..n : F[k] = Element(f, F[k - 1])
      /\ G[0] = Value(<<>>, i) /\ \A k \in 1..n : G[k] = Element(g, G[k - 1])
  BY ElementsStep, Zenon
<1> HIDE DEF F, G
<1>0. Len(b) \in Nat
  OBVIOUS
<1>2. 0 \in T
  BY <1>0, <1>1 DEF Within, Value
<1>3. ASSUME NEW k \in T PROVE k + 1 \in T
  <2> SUFFICES ASSUME k + 1 <= n PROVE F[k + 1] = G[k + 1] /\ Within(b, i, F[k + 1])
    OBVIOUS
  <2>1. k \in Nat /\ F[k] = G[k] /\ Within(b, i, F[k]) /\ k + 1 \in 1..n /\ (k + 1) - 1 = k
    OBVIOUS
  <2>2. F[k + 1] = Element(f, F[k]) /\ G[k + 1] = Element(g, F[k])
    BY <1>1, <2>1, Zenon
  <2>3. CASE F[k].is # "value"
    BY <2>1, <2>2, <2>3, Zenon DEF Element
  <2>4. CASE F[k].is = "value"
    <3> DEFINE j == F[k].next
    <3>1. j \in i..Len(b) + 1
      BY <2>1, <2>4 DEF Within, More, Throw
    <3> HIDE DEF j
    <3>2. f[j] = g[j] /\ Within(b, j + 1, f[j])
      BY <3>1, Zenon
    <3>3. CASE f[j].is # "value"
      <4>1. F[k + 1] = f[j] /\ G[k + 1] = f[j]
        BY <2>2, <2>4, <3>2, <3>3, Zenon DEF Element, j
      <4>2. f[j] \in {More, Throw}
        BY <3>2, <3>3 DEF Within, Value
      <4> QED
        BY <4>1, <4>2, Zenon DEF Within
    <3>4. CASE f[j].is = "value"
      <4>1. F[k + 1] = Value(Append(F[k].value, f[j].value), f[j].next) /\ G[k + 1] = F[k + 1]
        BY <2>2, <2>4, <3>2, <3>4, Zenon DEF Element, j
      <4>2. f[j].next \in j + 1..Len(b) + 1
        BY <3>2, <3>4 DEF Within, More, Throw
      <4>3. f[j].next \in i..Len(b) + 1
        BY <1>0, <3>1, <4>2
      <4> QED
        BY <4>1, <4>3 DEF Within, Value
    <3> QED
      BY <3>3, <3>4, Zenon
  <2> QED
    BY <2>3, <2>4, Zenon
<1>4. T = Nat
  <2>1. T \subseteq Nat
    BY Zenon
  <2> HIDE DEF T
  <2> QED
    BY <1>2, <1>3, <2>1, Induct, Zenon
<1>5. n \in T
  BY <1>4, Zenon
<1> QED
  BY <1>5 DEF F, G

\* The array of its elements.
LEMMA ArrayLocal ==
  ASSUME NEW b \in Seq(Bytes), NEW i \in 1..Len(b) + 1, NEW n \in Nat, NEW f, NEW g,
         \A j \in i..Len(b) + 1 : f[j] = g[j] /\ Within(b, j + 1, f[j])
  PROVE  ArrayData(f, i, n) = ArrayData(g, i, n) /\ Within(b, i, ArrayData(f, i, n))
<1> DEFINE all == Elements(f, i, n)[n]
<1>1. all = Elements(g, i, n)[n] /\ Within(b, i, all)
  BY ElementsLocal
<1>2. /\ ArrayData(f, i, n) = IF all.is = "value" THEN Value(ArrayOf(all.value), all.next) ELSE all
      /\ ArrayData(g, i, n) = IF all.is = "value" THEN Value(ArrayOf(all.value), all.next) ELSE all
  BY <1>1, Zenon DEF ArrayData
<1> HIDE DEF all
<1>3. Within(b, i, IF all.is = "value" THEN Value(ArrayOf(all.value), all.next) ELSE all)
  BY <1>1 DEF Within, Value, More, Throw
<1> QED
  BY <1>2, <1>3

\* What a line that is a number reads as.
LEMMA NumberType ==
  ASSUME NEW s, IsNumber(s)
  PROVE  Number(s) \in Int64 /\ Number(s) \in Int
BY RangeAssumption DEF IsNumber, Int64

\* A bulk string or an array behind its length.
LEMMA SizedLocal ==
  ASSUME NEW b \in Seq(Bytes), NEW i \in 1..Len(b) + 1, NEW n \in Int, NEW f, NEW g,
         NEW type \in {"$", "*"},
         \A j \in i..Len(b) + 1 : f[j] = g[j] /\ Within(b, j + 1, f[j])
  PROVE  Sized(b, f, type, i, n) = Sized(b, g, type, i, n) /\ Within(b, i, Sized(b, f, type, i, n))
<1>0. MaxCount \in Nat /\ Len(b) \in Nat
  BY RangeAssumption
<1>1. CASE n < 0
  <2>1. n = -1 \/ n < -1
    BY <1>1
  <2>2. Within(b, i, Value(NullValue, i)) /\ Within(b, i, Throw)
    BY <1>0 DEF Within, Value
  <2>3. \A h : Sized(b, h, type, i, n) = IF n = -1 THEN Value(NullValue, i) ELSE Throw
    BY <1>0, <1>1, <2>1 DEF Sized
  <2> QED
    BY <2>2, <2>3, Zenon
<1>2. CASE n >= 0 /\ type = "$"
  <2>1. \A h : Sized(b, h, type, i, n) = BulkData(b, i, n)
    BY <1>2 DEF Sized
  <2>2. Within(b, i, BulkData(b, i, n))
    BY <1>0, <1>2 DEF Within, Value, BulkData
  <2> QED
    BY <2>1, <2>2, Zenon
<1>3. CASE n > MaxCount /\ type = "*"
  <2>1. \A h : Sized(b, h, type, i, n) = Throw
    BY <1>0, <1>3 DEF Sized
  <2> QED
    BY <2>1, Zenon DEF Within
<1>4. CASE n \in 0..MaxCount /\ type = "*"
  <2>1. \A h : Sized(b, h, type, i, n) = ArrayData(h, i, n)
    BY <1>0, <1>4 DEF Sized
  <2>2. n \in Nat
    BY <1>4
  <2>3. ArrayData(f, i, n) = ArrayData(g, i, n) /\ Within(b, i, ArrayData(f, i, n))
    BY <2>2, ArrayLocal
  <2> QED
    BY <2>1, <2>3, Zenon
<1> QED
  BY <1>0, <1>1, <1>2, <1>3, <1>4

\* What is behind a type and its line.
LEMMA TypedLocal ==
  ASSUME NEW b \in Seq(Bytes), NEW i \in 1..Len(b) + 1, NEW line, NEW f, NEW g,
         NEW type \in Types,
         \A j \in i..Len(b) + 1 : f[j] = g[j] /\ Within(b, j + 1, f[j])
  PROVE  /\ Typed(b, f, type, line, i) = Typed(b, g, type, line, i)
         /\ Within(b, i, Typed(b, f, type, line, i))
<1>1. CASE type \in {"+", "-"}
  <2>1. \A h : Typed(b, h, type, line, i) =
                   IF type = "+" THEN Value(Simple(line), i) ELSE Value(Failure(line), i)
    BY <1>1, Zenon DEF Typed
  <2> QED
    BY <2>1 DEF Within, Value
<1>2. CASE type \in {":", "$", "*"} /\ ~IsNumber(line)
  <2>1. \A h : Typed(b, h, type, line, i) = Throw
    BY <1>2, Zenon DEF Typed
  <2> QED
    BY <2>1, Zenon DEF Within
<1>3. CASE type = ":" /\ IsNumber(line)
  <2>1. \A h : Typed(b, h, type, line, i) = Value(Integer(Number(line)), i)
    BY <1>3, Zenon DEF Typed
  <2> QED
    BY <2>1 DEF Within, Value
<1>4. CASE type \in {"$", "*"} /\ IsNumber(line)
  <2>1. \A h : Typed(b, h, type, line, i) = Sized(b, h, type, i, Number(line))
    BY <1>4, Zenon DEF Typed
  <2>2. Number(line) \in Int
    BY <1>4, NumberType, Zenon
  <2>3. /\ Sized(b, f, type, i, Number(line)) = Sized(b, g, type, i, Number(line))
        /\ Within(b, i, Sized(b, f, type, i, Number(line)))
    BY <1>4, <2>2, SizedLocal, ZenonT(40)
  <2> QED
    BY <2>1, <2>3, Zenon
<1> QED
  BY <1>1, <1>2, <1>3, <1>4, Zenon DEF Types

\* One call of parse: what it makes of offset i rests on what the calls inside
\* it make of the offsets behind i.
LEMMA ParseLocal ==
  ASSUME NEW b \in Seq(Bytes), NEW i \in 1..Len(b) + 1, NEW f, NEW g,
         \A j \in i + 1..Len(b) + 1 : f[j] = g[j] /\ Within(b, j + 1, f[j])
  PROVE  ParseAt(b, f, i) = ParseAt(b, g, i) /\ Within(b, i + 1, ParseAt(b, f, i))
<1>0. Len(b) \in Nat /\ i \in Nat
  OBVIOUS
<1>1. CASE i > Len(b)
  BY <1>1, Zenon DEF ParseAt, Within
<1>2. CASE ~(i > Len(b)) /\ b[i] \notin Types
  BY <1>2, Zenon DEF ParseAt, Within
<1> DEFINE end == LineEnd(b, i + 1)
<1>3. CASE ~(i > Len(b)) /\ b[i] \in Types /\ end = 0
  BY <1>3, Zenon DEF ParseAt, Within
<1>4. CASE ~(i > Len(b)) /\ b[i] \in Types /\ end # 0
  <2>1. \A h : ParseAt(b, h, i) = Typed(b, h, b[i], SubSeq(b, i + 1, end - 1), end + 2)
    BY <1>4, Zenon DEF ParseAt
  <2>2. i + 1 \in Nat \ {0}
    BY <1>0
  <2>3. end \in i + 1..Len(b) - 1
    BY <1>4, <2>2, LineEndFound, Zenon
  <2> HIDE DEF end
  <2>4. end + 2 \in 1..Len(b) + 1 /\ end + 2 \in i + 1..Len(b) + 1
    BY <1>0, <2>3
  <2>5. \A j \in end + 2..Len(b) + 1 : f[j] = g[j] /\ Within(b, j + 1, f[j])
    BY <1>0, <2>4
  <2> DEFINE r(h) == Typed(b, h, b[i], SubSeq(b, i + 1, end - 1), end + 2)
  <2>6. r(f) = r(g) /\ Within(b, end + 2, r(f))
    BY <1>4, <2>4, <2>5, TypedLocal
  <2>7. ParseAt(b, f, i) = r(f) /\ ParseAt(b, g, i) = r(g)
    BY <2>1, Zenon
  <2> HIDE DEF r
  <2>8. Within(b, i + 1, r(f))
    BY <1>0, <2>4, <2>6 DEF Within
  <2> QED
    BY <2>6, <2>7, <2>8, Zenon
<1> QED
  BY <1>1, <1>2, <1>3, <1>4, Zenon

\* parse is a function: every offset has the result of a call there, and a
\* value takes at least a byte and at most all of them.
ParsesAll(f, b) ==
    /\ \A i \in 1..Len(b) + 1 : f[i] = ParseAt(b, f, i) /\ Within(b, i + 1, f[i])
    /\ f = [i \in 1..Len(b) + 1 |-> f[i]]

\* From the last offset to the first, each result follows from those behind it.
LEMMA ParsesExist ==
  ASSUME NEW b \in Seq(Bytes)
  PROVE  \E f : ParsesAll(f, b)
<1> DEFINE n == Len(b) + 1
           Done(f, m) == /\ \A i \in n - m + 1..n : f[i] = ParseAt(b, f, i) /\ Within(b, i + 1, f[i])
                         /\ f = [i \in 1..n |-> f[i]]
           T == {m \in Nat : m <= n => \E f : Done(f, m)}
<1>0. n \in Nat /\ n = Len(b) + 1
  OBVIOUS
<1> HIDE DEF n
<1>1. 0 \in T
  <2>1. Done([i \in 1..n |-> More], 0)
    BY <1>0
  <2> QED
    BY <2>1, Zenon
<1>2. ASSUME NEW m \in T PROVE m + 1 \in T
  <2> HIDE DEF Done
  <2> SUFFICES ASSUME m + 1 <= n PROVE \E f : Done(f, m + 1)
    OBVIOUS
  <2>1. m \in Nat /\ m <= n
    BY <1>0
  <2>2. PICK f : Done(f, m)
    BY <2>1, Zenon
  <2>3. /\ \A i \in n - m + 1..n : f[i] = ParseAt(b, f, i) /\ Within(b, i + 1, f[i])
        /\ f = [i \in 1..n |-> f[i]]
    BY <2>2, Zenon DEF Done
  <2> DEFINE k == n - m
             new == ParseAt(b, f, k)
             g == [i \in 1..n |-> IF i = k THEN new ELSE f[i]]
  <2>4. k \in 1..n /\ k \in 1..Len(b) + 1 /\ n - (m + 1) + 1 = k /\ n - m + 1 = k + 1
    BY <1>0, <2>1
  <2> HIDE DEF new, k
  <2>5. g = [i \in 1..n |-> g[i]] /\ g[k] = new /\ \A i \in k + 1..n : g[i] = f[i]
    BY <1>0, <2>4
  <2> HIDE DEF g
  <2>6. \A i \in k + 1..n : g[i] = f[i] /\ Within(b, i + 1, g[i])
    BY <2>3, <2>4, <2>5, Zenon
  <2>7. ASSUME NEW i \in k..n
        PROVE  g[i] = ParseAt(b, g, i) /\ Within(b, i + 1, g[i])
    <3>1. i \in 1..Len(b) + 1 /\ \A j \in i + 1..Len(b) + 1 : g[j] = f[j] /\ Within(b, j + 1, g[j])
      BY <1>0, <2>4, <2>6
    <3>2. ParseAt(b, g, i) = ParseAt(b, f, i) /\ Within(b, i + 1, ParseAt(b, g, i))
      BY <3>1, ParseLocal, Zenon
    <3>3. g[i] = ParseAt(b, f, i)
      <4>1. CASE i = k
        BY <2>5, <4>1, Zenon DEF new
      <4>2. CASE i # k
        <5>1. i \in k + 1..n
          BY <1>0, <2>4, <4>2
        <5> QED
          BY <2>3, <2>4, <2>5, <5>1, Zenon
      <4> QED
        BY <4>1, <4>2, Zenon
    <3> QED
      BY <3>2, <3>3, Zenon
  <2>8. Done(g, m + 1)
    BY <2>4, <2>5, <2>7, Zenon DEF Done
  <2> QED
    BY <2>8, Zenon
<1>3. T = Nat
  <2>1. T \subseteq Nat
    BY Zenon
  <2> HIDE DEF T
  <2> QED
    BY <1>1, <1>2, <2>1, Induct, Zenon
<1>4. PICK f : Done(f, n)
  <2> HIDE DEF Done
  <2> QED
    BY <1>0, <1>3
<1>5. n - n + 1 = 1
  BY <1>0
<1>6. ParsesAll(f, b)
  BY <1>0, <1>4, <1>5, Zenon DEF ParsesAll
<1> QED
  BY <1>6, Zenon

\* The model's parse is that function.
LEMMA ParsedIs ==
  ASSUME NEW b \in Seq(Bytes)
  PROVE  \A i \in 1..Len(b) + 1 :
             /\ Parsed(b)[i] = ParseAt(b, Parsed(b), i)
             /\ Within(b, i + 1, Parsed(b)[i])
<1> DEFINE Is(f) == f = [i \in 1..Len(b) + 1 |-> ParseAt(b, f, i)]
<1>1. PICK f : ParsesAll(f, b)
  BY ParsesExist, Zenon
<1>2. Is(f)
  BY <1>1, Zenon DEF ParsesAll
<1>3. Parsed(b) = CHOOSE g : Is(g)
  BY Zenon DEF Parsed
<1>4. Is(Parsed(b))
  <2> HIDE DEF Is
  <2> QED
    BY <1>2, <1>3, Zenon
<1> DEFINE P == Parsed(b)
           n == Len(b) + 1
<1>5. \A i \in 1..n : P[i] = ParseAt(b, P, i)
  BY <1>4, Zenon
<1>0. n \in Nat /\ n = Len(b) + 1
  OBVIOUS
<1> HIDE DEF P, n
<1> DEFINE T == {m \in Nat : m <= n => \A i \in n - m + 1..n : Within(b, i + 1, P[i])}
<1>6. 0 \in T
  BY <1>0
<1>7. ASSUME NEW m \in T PROVE m + 1 \in T
  <2> SUFFICES ASSUME m + 1 <= n, NEW i \in n - (m + 1) + 1..n PROVE Within(b, i + 1, P[i])
    OBVIOUS
  <2>1. m \in Nat /\ m <= n /\ \A j \in n - m + 1..n : Within(b, j + 1, P[j])
    BY <1>0
  <2>2. i \in 1..Len(b) + 1 /\ \A j \in i + 1..Len(b) + 1 : P[j] = P[j] /\ Within(b, j + 1, P[j])
    BY <1>0, <2>1
  <2>3. Within(b, i + 1, ParseAt(b, P, i))
    BY <2>2, ParseLocal, Zenon
  <2> QED
    BY <1>0, <1>5, <2>2, <2>3, Zenon
<1>8. T = Nat
  <2>1. T \subseteq Nat
    BY Zenon
  <2> HIDE DEF T
  <2> QED
    BY <1>6, <1>7, <2>1, Induct, Zenon
<1>9. n \in T
  BY <1>0, <1>8, Zenon
<1>10. \A i \in 1..n : Within(b, i + 1, P[i])
  BY <1>0, <1>9
<1> QED
  BY <1>0, <1>5, <1>10, Zenon DEF P

(***************************************************************************)
(* What follows the bytes of a value, or precedes them, changes nothing.  *)
(***************************************************************************)
\* The bytes of b are in c, d places further on.
Holds(c, b, d) == Len(b) + d <= Len(c) /\ \A k \in 1..Len(b) : c[k + d] = b[k]

\* A copy of some bytes of a string.
LEMMA Copied ==
  ASSUME NEW s \in Seq(Bytes), NEW m \in Nat \ {0}, NEW n \in Nat, m <= n + 1, n <= Len(s)
  PROVE  /\ SubSeq(s, m, n) \in Seq(Bytes) /\ Len(SubSeq(s, m, n)) = n - m + 1
         /\ \A i \in 1..n - m + 1 : SubSeq(s, m, n)[i] = s[m + i - 1]
<1>1. Len(s) \in Nat /\ m \in Int /\ n \in Int
  OBVIOUS
<1>2. \A i \in m..n : i \in 1..Len(s)
  BY <1>1
<1>3. \A i \in m..n : s[i] \in Bytes
  BY <1>2, ElementOfSeq, Zenon
<1>4. /\ SubSeq(s, m, n) \in Seq(Bytes)
      /\ Len(SubSeq(s, m, n)) = IF m <= n THEN n - m + 1 ELSE 0
      /\ \A i \in 1..n - m + 1 : SubSeq(s, m, n)[i] = s[m + i - 1]
  BY <1>1, <1>3, SubSeqProperties, SMTT(30)
<1>5. (IF m <= n THEN n - m + 1 ELSE 0) = n - m + 1
  BY <1>1
<1> QED
  BY <1>4, <1>5, Zenon

\* A value and an exception stay what they are; the wait for more bytes does
\* when no more are there.
Moved(r, s, d, whole) ==
    /\ r.is = "value" => s = Value(r.value, r.next + d)
    /\ r.is = "throw" => s = Throw
    /\ r.is = "more" /\ whole => s = More

\* A line ends where it did.
LEMMA LineEndMoved ==
  ASSUME NEW b \in Seq(Bytes), NEW c \in Seq(Bytes), NEW d \in Nat, Holds(c, b, d),
         NEW i \in 1..Len(b) + 1
  PROVE  /\ LineEnd(b, i) # 0 =>
                /\ LineEnd(c, i + d) = LineEnd(b, i) + d
                /\ SubSeq(c, i + d, LineEnd(b, i) + d - 1) = SubSeq(b, i, LineEnd(b, i) - 1)
         /\ LineEnd(b, i) = 0 /\ Len(b) + d = Len(c) => LineEnd(c, i + d) = 0
<1> DEFINE e == LineEnd(b, i)
<1>0. Len(b) \in Nat /\ Len(c) \in Nat /\ i \in Nat \ {0} /\ i + d \in Nat \ {0}
  OBVIOUS
<1>1. \A k \in 1..Len(b) : c[k + d] = b[k] /\ k + d \in 1..Len(c)
  BY <1>0 DEF Holds
<1>2. /\ e = 0 => \A j \in i..Len(b) : ~EndsAt(b, j)
      /\ e # 0 => e \in i..Len(b) - 1 /\ EndsAt(b, e) /\ \A j \in i..Len(b) : EndsAt(b, j) => e <= j
  BY <1>0, LineEndFound, Zenon
<1> HIDE DEF e
<1>3. \A k \in 1..Len(b) - 1 : EndsAt(b, k) <=> EndsAt(c, k + d)
  <2> SUFFICES ASSUME NEW k \in 1..Len(b) - 1 PROVE EndsAt(b, k) <=> EndsAt(c, k + d)
    BY Zenon
  <2>1. k \in 1..Len(b) /\ k + 1 \in 1..Len(b) /\ (k + 1) + d = (k + d) + 1
    BY <1>0
  <2>2. c[k + d] = b[k] /\ c[(k + d) + 1] = b[k + 1] /\ k + d < Len(c) /\ k < Len(b)
    BY <1>0, <1>1, <2>1 DEF Holds
  <2> QED
    BY <2>2, Zenon DEF EndsAt
<1>4. CASE e # 0
  <2>1. e \in i..Len(b) - 1 /\ EndsAt(b, e) /\ \A j \in i..Len(b) : EndsAt(b, j) => e <= j
    BY <1>2, <1>4, Zenon
  <2>2. e + d \in i + d..Len(c) /\ EndsAt(c, e + d)
    BY <1>0, <1>3, <2>1 DEF Holds
  <2>3. ASSUME NEW k \in i + d..(e + d) - 1 PROVE ~EndsAt(c, k)
    <3>1. k - d \in 1..Len(b) - 1 /\ k - d \in i..Len(b) /\ ~(e <= k - d) /\ (k - d) + d = k
      BY <1>0, <2>1
    <3> QED
      BY <1>3, <2>1, <3>1, Zenon
  <2>4. LineEnd(c, i + d) = e + d
    BY <1>0, <2>2, <2>3, LineEndIs, Zenon
  <2>5. SubSeq(c, i + d, e + d - 1) = SubSeq(b, i, e - 1)
    BY <1>0, <1>1, <2>1
  <2> QED
    BY <1>4, <2>4, <2>5, Zenon DEF e
<1>5. CASE e = 0
  <2> SUFFICES ASSUME Len(b) + d = Len(c) PROVE LineEnd(c, i + d) = 0
    BY <1>5, Zenon DEF e
  <2>1. \A j \in i..Len(b) : ~EndsAt(b, j)
    BY <1>2, <1>5, Zenon
  <2> DEFINE z == LineEnd(c, i + d)
  <2>2. z # 0 => z \in i + d..Len(c) - 1 /\ EndsAt(c, z)
    BY <1>0, LineEndFound, Zenon
  <2> HIDE DEF z
  <2>3. SUFFICES ASSUME z # 0 PROVE FALSE
    BY Zenon DEF z
  <2>4. z - d \in 1..Len(b) - 1 /\ z - d \in i..Len(b) /\ (z - d) + d = z
    BY <1>0, <2>2, <2>3
  <2> QED
    BY <1>3, <2>1, <2>2, <2>3, <2>4, Zenon
<1> QED
  BY <1>4, <1>5, Zenon

\* The elements of an array are those they were.
LEMMA ElementsMoved ==
  ASSUME NEW b \in Seq(Bytes), NEW d \in Nat, NEW whole \in BOOLEAN,
         NEW i \in 1..Len(b) + 1, NEW n \in Nat, NEW f, NEW g,
         \A j \in i..Len(b) + 1 : Moved(f[j], g[j + d], d, whole) /\ Within(b, j + 1, f[j])
  PROVE  Moved(Elements(f, i, n)[n], Elements(g, i + d, n)[n], d, whole)
<1> DEFINE F == Elements(f, i, n)
           G == Elements(g, i + d, n)
           T == {k \in Nat : k <= n => Moved(F[k], G[k], d, whole) /\ Within(b, i, F[k])}
<1>1. /\ F[0] = Value(<<>>, i) /\ \A k \in 1..n : F[k] = Element(f, F[k - 1])
      /\ G[0] = Value(<<>>, i + d) /\ \A k \in 1..n : G[k] = Element(g, G[k - 1])
  BY ElementsStep
<1> HIDE DEF F, G
<1>0. Len(b) \in Nat
  OBVIOUS
<1>2. 0 \in T
  <2>1. Within(b, i, F[0])
    BY <1>0, <1>1 DEF Within, Value
  <2>2. Moved(F[0], G[0], d, whole)
    BY <1>1 DEF Moved, Value
  <2> QED
    BY <2>1, <2>2, Zenon
<1>3. ASSUME NEW k \in T PROVE k + 1 \in T
  <2> SUFFICES ASSUME k + 1 <= n
               PROVE  Moved(F[k + 1], G[k + 1], d, whole) /\ Within(b, i, F[k + 1])
    OBVIOUS
  <2>0. k \in Nat /\ (k <= n => Moved(F[k], G[k], d, whole) /\ Within(b, i, F[k]))
    BY Zenon
  <2> HIDE DEF T
  <2>1. /\ k \in Nat /\ Moved(F[k], G[k], d, whole) /\ Within(b, i, F[k])
        /\ k + 1 \in 1..n /\ (k + 1) - 1 = k
    <3>1. k <= n /\ k + 1 \in 1..n /\ (k + 1) - 1 = k
      BY <2>0
    <3> QED
      BY <2>0, <3>1, Zenon
  <2>2. F[k + 1] = Element(f, F[k]) /\ G[k + 1] = Element(g, G[k])
    BY <1>1, <2>1, Zenon
  <2>3. CASE F[k].is # "value"
    <3>1. F[k + 1] = F[k] /\ F[k] \in {More, Throw}
      BY <2>1, <2>2, <2>3 DEF Element, Within, Value
    <3>2. G[k] \in {More, Throw} => G[k + 1] = G[k]
      BY <2>2 DEF Element, More, Throw
    <3> QED
      BY <2>1, <3>1, <3>2 DEF Moved, More, Throw
  <2>4. CASE F[k].is = "value"
    <3> DEFINE j == F[k].next
    <3>1. j \in i..Len(b) + 1
      BY <2>1, <2>4 DEF Within, More, Throw
    <3>2. G[k] = Value(F[k].value, j + d)
      BY <2>1, <2>4, Zenon DEF Moved
    <3> HIDE DEF j
    <3>3. Moved(f[j], g[j + d], d, whole) /\ Within(b, j + 1, f[j])
      BY <3>1, Zenon
    <3>4. F[k + 1] = IF f[j].is # "value" THEN f[j]
                     ELSE Value(Append(F[k].value, f[j].value), f[j].next)
      BY <2>2, <2>4, Zenon DEF Element, j
    <3>5. G[k + 1] = IF g[j + d].is # "value" THEN g[j + d]
                     ELSE Value(Append(F[k].value, g[j + d].value), g[j + d].next)
      <4>1. G[k].is = "value" /\ G[k].value = F[k].value /\ G[k].next = j + d
        BY <3>2 DEF Value
      <4> QED
        BY <2>2, <4>1, Zenon DEF Element
    <3>6. CASE f[j].is # "value"
      <4>1. f[j] \in {More, Throw}
        BY <3>3, <3>6, SMTT(30) DEF Within, Value
      <4>2. g[j + d] \in {More, Throw} => G[k + 1] = g[j + d]
        BY <3>5, SMTT(30) DEF More, Throw
      <4>3. F[k + 1] = f[j]
        BY <3>4, <3>6, Zenon
      <4>4. More.is = "more" /\ Throw.is = "throw"
        BY DEF More, Throw
      <4>5. Within(b, i, F[k + 1])
        BY <4>1, <4>3, Zenon DEF Within
      <4>6. CASE f[j] = Throw
        BY <3>3, <4>2, <4>3, <4>4, <4>5, <4>6, Zenon DEF Moved
      <4>7. CASE f[j] = More
        BY <3>3, <4>2, <4>3, <4>4, <4>5, <4>7, Zenon DEF Moved
      <4> QED
        BY <4>1, <4>6, <4>7, Zenon
    <3>7. CASE f[j].is = "value"
      <4>1. g[j + d] = Value(f[j].value, f[j].next + d)
        BY <3>3, <3>7, Zenon DEF Moved
      <4>2. G[k + 1] = Value(Append(F[k].value, f[j].value), f[j].next + d)
        BY <3>5, <4>1 DEF Value
      <4>3. F[k + 1] = Value(Append(F[k].value, f[j].value), f[j].next)
        BY <3>4, <3>7, Zenon
      <4>4. f[j].next \in j + 1..Len(b) + 1
        BY <3>3, <3>7 DEF Within, More, Throw
      <4>5. f[j].next \in i..Len(b) + 1
        BY <1>0, <3>1, <4>4
      <4> QED
        BY <4>2, <4>3, <4>5 DEF Moved, Within, Value
    <3> QED
      BY <3>6, <3>7, Zenon
  <2> QED
    BY <2>3, <2>4, Zenon
<1>4. T = Nat
  <2>1. T \subseteq Nat
    BY Zenon
  <2> HIDE DEF T
  <2> QED
    BY <1>2, <1>3, <2>1, Induct, Zenon
<1>5. n \in T
  BY <1>4, Zenon
<1> QED
  BY <1>5 DEF F, G

\* What is behind a length is what it was.
LEMMA SizedMoved ==
  ASSUME NEW b \in Seq(Bytes), NEW c \in Seq(Bytes), NEW d \in Nat, Holds(c, b, d),
         NEW whole \in BOOLEAN, whole => Len(b) + d = Len(c),
         NEW i \in 1..Len(b) + 1, NEW n \in Int, NEW f, NEW g, NEW type \in {"$", "*"},
         \A j \in i..Len(b) + 1 : Moved(f[j], g[j + d], d, whole) /\ Within(b, j + 1, f[j])
  PROVE  Moved(Sized(b, f, type, i, n), Sized(c, g, type, i + d, n), d, whole)
<1>0. MaxCount \in Nat /\ Len(b) \in Nat /\ Len(c) \in Nat
  BY RangeAssumption
<1>1. CASE n < 0
  <2>1. n = -1 \/ n < -1
    BY <1>1
  <2>2. \A a, h, k : Sized(a, h, type, k, n) = IF n = -1 THEN Value(NullValue, k) ELSE Throw
    BY <1>0, <1>1, <2>1 DEF Sized
  <2> QED
    BY <2>2 DEF Moved, Value, Throw
<1>2. CASE n >= 0 /\ type = "$"
  <2>1. \A a, h, k : Sized(a, h, type, k, n) = BulkData(a, k, n)
    BY <1>2 DEF Sized
  <2>2. CASE i + n + 1 > Len(b)
    <3>1. BulkData(b, i, n) = More
      BY <2>2, Zenon DEF BulkData
    <3>2. whole => (i + d) + n + 1 > Len(c)
      BY <1>0, <2>2
    <3>3. whole => BulkData(c, i + d, n) = More
      BY <3>2, Zenon DEF BulkData
    <3> QED
      BY <2>1, <3>1, <3>3, SMTT(30) DEF Moved, More
  <2>3. CASE ~(i + n + 1 > Len(b))
    <3>1. ~((i + d) + n + 1 > Len(c))
      BY <1>0, <2>3 DEF Holds
    <3>2. BulkData(b, i, n) = Value(BulkOf(SubSeq(b, i, i + n - 1)), i + n + 2)
      BY <2>3, Zenon DEF BulkData
    <3>3. BulkData(c, i + d, n) = Value(BulkOf(SubSeq(c, i + d, (i + d) + n - 1)), (i + d) + n + 2)
      BY <3>1, Zenon DEF BulkData
    <3>4. SubSeq(c, i + d, (i + d) + n - 1) = SubSeq(b, i, i + n - 1)
      BY <1>0, <1>2, <2>3 DEF Holds
    <3>5. (i + d) + n + 2 = (i + n + 2) + d
      OBVIOUS
    <3>6. \A v, k : Moved(Value(v, k), Value(v, k + d), d, whole)
      BY Zenon DEF Moved, Value
    <3>7. Moved(BulkData(b, i, n), BulkData(c, i + d, n), d, whole)
      BY <3>2, <3>3, <3>4, <3>5, <3>6, Zenon
    <3> QED
      BY <2>1, <3>7, Zenon
  <2> QED
    BY <2>2, <2>3, Zenon
<1>3. CASE n > MaxCount /\ type = "*"
  <2>1. \A a, h, k : Sized(a, h, type, k, n) = Throw
    BY <1>0, <1>3 DEF Sized
  <2> QED
    BY <2>1 DEF Moved, Throw
<1>4. CASE n \in 0..MaxCount /\ type = "*"
  <2>1. \A a, h, k : Sized(a, h, type, k, n) = ArrayData(h, k, n)
    BY <1>0, <1>4 DEF Sized
  <2>2. n \in Nat
    BY <1>4
  <2> DEFINE all == Elements(f, i, n)[n]
             again == Elements(g, i + d, n)[n]
  <2>3. Moved(all, again, d, whole)
    BY <2>2, ElementsMoved, Zenon
  <2>4. /\ ArrayData(f, i, n) = IF all.is = "value" THEN Value(ArrayOf(all.value), all.next) ELSE all
        /\ ArrayData(g, i + d, n) =
               IF again.is = "value" THEN Value(ArrayOf(again.value), again.next) ELSE again
    BY Zenon DEF ArrayData
  <2> HIDE DEF all, again
  <2>5. Moved(ArrayData(f, i, n), ArrayData(g, i + d, n), d, whole)
    BY <2>3, <2>4 DEF Moved, Value, More, Throw
  <2> QED
    BY <2>1, <2>5, Zenon
<1> QED
  BY <1>0, <1>1, <1>2, <1>3, <1>4

\* What is behind a type and its line is what it was.
LEMMA TypedMoved ==
  ASSUME NEW b \in Seq(Bytes), NEW c \in Seq(Bytes), NEW d \in Nat, Holds(c, b, d),
         NEW whole \in BOOLEAN, whole => Len(b) + d = Len(c),
         NEW i \in 1..Len(b) + 1, NEW line, NEW f, NEW g, NEW type \in Types,
         \A j \in i..Len(b) + 1 : Moved(f[j], g[j + d], d, whole) /\ Within(b, j + 1, f[j])
  PROVE  Moved(Typed(b, f, type, line, i), Typed(c, g, type, line, i + d), d, whole)
<1>1. CASE type \in {"+", "-"}
  <2>1. \A a, h, k : Typed(a, h, type, line, k) =
                   IF type = "+" THEN Value(Simple(line), k) ELSE Value(Failure(line), k)
    BY <1>1, Zenon DEF Typed
  <2>2. PICK v : /\ Typed(b, f, type, line, i) = Value(v, i)
                 /\ Typed(c, g, type, line, i + d) = Value(v, i + d)
    BY <1>1, <2>1, Zenon
  <2>3. /\ Value(v, i).is = "value" /\ "value" \notin {"throw", "more"}
        /\ Value(v, i).value = v /\ Value(v, i).next = i
    BY Zenon DEF Value
  <2> QED
    BY <2>2, <2>3, Zenon DEF Moved
<1>2. CASE type \in {":", "$", "*"} /\ ~IsNumber(line)
  <2>1. \A a, h, k : Typed(a, h, type, line, k) = Throw
    BY <1>2, Zenon DEF Typed
  <2> QED
    BY <2>1, SMTT(30) DEF Moved, Throw
<1>3. CASE type = ":" /\ IsNumber(line)
  <2>1. \A a, h, k : Typed(a, h, type, line, k) = Value(Integer(Number(line)), k)
    BY <1>3, Zenon DEF Typed
  <2> QED
    BY <2>1 DEF Moved, Value
<1>4. CASE type \in {"$", "*"} /\ IsNumber(line)
  <2>1. \A a, h, k : Typed(a, h, type, line, k) = Sized(a, h, type, k, Number(line))
    BY <1>4, Zenon DEF Typed
  <2>2. Number(line) \in Int
    BY <1>4, NumberType, Zenon
  <2>3. Moved(Sized(b, f, type, i, Number(line)), Sized(c, g, type, i + d, Number(line)), d, whole)
    BY <1>4, <2>2, SizedMoved, Zenon
  <2> QED
    BY <2>1, <2>3, Zenon
<1> QED
  BY <1>1, <1>2, <1>3, <1>4, Zenon DEF Types

\* One call of parse.
LEMMA ParseAtMoved ==
  ASSUME NEW b \in Seq(Bytes), NEW c \in Seq(Bytes), NEW d \in Nat, Holds(c, b, d),
         NEW whole \in BOOLEAN, whole => Len(b) + d = Len(c),
         NEW i \in 1..Len(b) + 1, NEW f, NEW g,
         \A j \in i + 1..Len(b) + 1 : Moved(f[j], g[j + d], d, whole) /\ Within(b, j + 1, f[j])
  PROVE  Moved(ParseAt(b, f, i), ParseAt(c, g, i + d), d, whole)
<1>0. Len(b) \in Nat /\ Len(c) \in Nat /\ i \in Nat
  OBVIOUS
<1>1. CASE i > Len(b)
  <2>1. whole => i + d > Len(c)
    BY <1>0, <1>1
  <2> QED
    BY <1>1, <2>1, Zenon DEF ParseAt, Moved, More
<1>2. CASE ~(i > Len(b))
  <2>1. i \in 1..Len(b) /\ i + 1 \in 1..Len(b) + 1 /\ c[i + d] = b[i] /\ ~(i + d > Len(c))
    <3>1. Len(b) + d <= Len(c) /\ \A k \in 1..Len(b) : c[k + d] = b[k]
      BY Zenon DEF Holds
    <3>2. i \in 1..Len(b) /\ i + 1 \in 1..Len(b) + 1 /\ ~(i + d > Len(c))
      BY <1>0, <1>2, <3>1
    <3> QED
      BY <3>1, <3>2, Zenon
  <2>2. CASE b[i] \notin Types
    BY <1>2, <2>1, <2>2, Zenon DEF ParseAt, Moved, Throw
  <2>3. CASE b[i] \in Types
    <3> DEFINE end == LineEnd(b, i + 1)
               line == SubSeq(b, i + 1, end - 1)
    <3>0. (i + 1) + d = (i + d) + 1
      OBVIOUS
    <3>1. /\ end # 0 => /\ LineEnd(c, (i + 1) + d) = end + d
                        /\ SubSeq(c, (i + 1) + d, end + d - 1) = line
          /\ end = 0 /\ Len(b) + d = Len(c) => LineEnd(c, (i + 1) + d) = 0
      BY <2>1, LineEndMoved, Zenon
    <3>2. ParseAt(b, f, i) = IF end = 0 THEN More ELSE Typed(b, f, b[i], line, end + 2)
      BY <1>2, <2>3, Zenon DEF ParseAt
    <3>3. ParseAt(c, g, i + d) =
              IF LineEnd(c, (i + d) + 1) = 0 THEN More
              ELSE Typed(c, g, b[i], SubSeq(c, (i + d) + 1, LineEnd(c, (i + d) + 1) - 1),
                         LineEnd(c, (i + d) + 1) + 2)
      BY <2>1, <2>3, Zenon DEF ParseAt
    <3>4. i + 1 \in Nat \ {0} /\ (end # 0 => end \in i + 1..Len(b) - 1)
      <4>1. i + 1 \in Nat \ {0}
        BY <1>0
      <4> QED
        BY <4>1, LineEndFound, Zenon
    <3> HIDE DEF end, line
    <3>5. CASE end = 0
      BY <3>0, <3>1, <3>2, <3>3, <3>5, SMTT(30) DEF Moved, More
    <3>6. CASE end # 0
      <4>1. end + 2 \in 1..Len(b) + 1 /\ end + 2 \in i + 1..Len(b) + 1 /\ end + d # 0
            /\ (end + d) + 2 = (end + 2) + d
        BY <1>0, <3>4, <3>6, SMTT(30)
      <4>2. \A j \in end + 2..Len(b) + 1 : Moved(f[j], g[j + d], d, whole) /\ Within(b, j + 1, f[j])
        BY <1>0, <4>1
      <4>3. Moved(Typed(b, f, b[i], line, end + 2), Typed(c, g, b[i], line, (end + 2) + d), d, whole)
        BY <2>3, <4>1, <4>2, TypedMoved, Zenon
      <4>4. ParseAt(b, f, i) = Typed(b, f, b[i], line, end + 2)
        BY <3>2, <3>6, Zenon
      <4>5. ParseAt(c, g, i + d) = Typed(c, g, b[i], line, (end + 2) + d)
        <5> DEFINE z == LineEnd(c, (i + d) + 1)
        <5>0. LineEnd(c, (i + 1) + d) = end + d /\ SubSeq(c, (i + 1) + d, end + d - 1) = line
          BY <3>1, <3>6, Zenon
        <5>1. z = end + d
          BY <3>0, <5>0, Zenon
        <5>2. ParseAt(c, g, i + d) = Typed(c, g, b[i], SubSeq(c, (i + d) + 1, z - 1), z + 2)
          BY <3>3, <4>1, <5>1, Zenon
        <5> HIDE DEF z
        <5>4. SubSeq(c, (i + d) + 1, z - 1) = line
          <6> DEFINE at == (i + d) + 1
          <6>1. (i + 1) + d = at
            BY <3>0, Zenon
          <6> HIDE DEF at
          <6>2. SubSeq(c, at, end + d - 1) = line
            BY <5>0, <6>1, Zenon
          <6>3. z - 1 = end + d - 1
            BY <3>4, <3>6, <5>1
          <6>4. SubSeq(c, at, z - 1) = line
            BY <6>2, <6>3, Zenon
          <6> QED
            BY <6>4, Zenon DEF at
        <5>3. z + 2 = (end + 2) + d
          BY <4>1, <5>1, Zenon
        <5> QED
          BY <5>2, <5>3, <5>4, Zenon
      <4> QED
        BY <4>3, <4>4, <4>5, Zenon
    <3> QED
      BY <3>5, <3>6, Zenon
  <2> QED
    BY <2>2, <2>3, Zenon
<1> QED
  BY <1>1, <1>2, Zenon

\* All calls of parse.
LEMMA ParseMoved ==
  ASSUME NEW b \in Seq(Bytes), NEW c \in Seq(Bytes), NEW d \in Nat, Holds(c, b, d),
         NEW whole \in BOOLEAN, whole => Len(b) + d = Len(c)
  PROVE  \A i \in 1..Len(b) + 1 : Moved(Parse(b, i), Parse(c, i + d), d, whole)
<1> DEFINE n == Len(b) + 1
           f == Parsed(b)
           g == Parsed(c)
<1>0. n \in Nat /\ n = Len(b) + 1 /\ Len(c) \in Nat
  OBVIOUS
<1>1. \A i \in 1..n : f[i] = ParseAt(b, f, i) /\ Within(b, i + 1, f[i])
  BY ParsedIs, Zenon
<1>2. \A i \in 1..Len(c) + 1 : g[i] = ParseAt(c, g, i)
  BY ParsedIs, Zenon
<1>3. \A i \in 1..n : Parse(b, i) = f[i] /\ Parse(c, i + d) = g[i + d]
  BY Zenon DEF Parse
<1> HIDE DEF n, f, g
<1> DEFINE T == {m \in Nat : m <= n => \A i \in n - m + 1..n : Moved(f[i], g[i + d], d, whole)}
<1>6. 0 \in T
  BY <1>0
<1>7. ASSUME NEW m \in T PROVE m + 1 \in T
  <2> SUFFICES ASSUME m + 1 <= n, NEW i \in n - (m + 1) + 1..n PROVE Moved(f[i], g[i + d], d, whole)
    OBVIOUS
  <2>1. m \in Nat /\ m <= n /\ \A j \in n - m + 1..n : Moved(f[j], g[j + d], d, whole)
    BY <1>0
  <2>2. /\ i \in 1..Len(b) + 1 /\ i \in 1..n
        /\ \A j \in i + 1..Len(b) + 1 : Moved(f[j], g[j + d], d, whole) /\ Within(b, j + 1, f[j])
    BY <1>0, <1>1, <2>1
  <2>3. i + d \in 1..Len(c) + 1
    BY <1>0, <2>2 DEF Holds
  <2>4. Moved(ParseAt(b, f, i), ParseAt(c, g, i + d), d, whole)
    BY <2>2, ParseAtMoved, Zenon
  <2> QED
    BY <1>1, <1>2, <2>2, <2>3, <2>4, Zenon
<1>8. T = Nat
  <2>1. T \subseteq Nat
    BY Zenon
  <2> HIDE DEF T
  <2> QED
    BY <1>6, <1>7, <2>1, Induct, Zenon
<1>9. n \in T
  BY <1>0, <1>8, Zenon
<1>10. \A i \in 1..n : Moved(f[i], g[i + d], d, whole)
  BY <1>0, <1>9
<1> QED
  BY <1>0, <1>3, <1>10, Zenon

(***************************************************************************)
(* std::to_string and from_chars.                                         *)
(***************************************************************************)
\* The ten digits.
LEMMA DigitFacts ==
  ASSUME NEW m \in 0..9
  PROVE  LET c == Digits[m + 1]
         IN  c \in Bytes /\ IsDigit(c) /\ Digit(c) = m /\ c # "-"
<1> DEFINE c == Digits[m + 1]
<1>1. m + 1 \in 1..10
  OBVIOUS
<1>2. c \in Bytes /\ IsDigit(c)
  BY <1>1, Zenon DEF Bytes, IsDigit
<1>3. c # "-"
  BY DEF Digits
<1>4. \A d \in 1..10 : Digits[d] = c => d = m + 1
  BY DEF Digits
<1>5. Digit(c) = m
  <2> DEFINE d == CHOOSE x \in 1..10 : Digits[x] = c
  <2>1. d \in 1..10 /\ Digits[d] = c
    BY <1>1, Zenon
  <2> HIDE DEF d
  <2>2. d = m + 1
    BY <1>4, <2>1, Zenon
  <2>3. Digit(c) = d - 1
    BY Zenon DEF Digit, d
  <2> QED
    BY <2>2, <2>3
<1> QED
  BY <1>2, <1>3, <1>5, Zenon

\* A digit more.
LEMMA NaturalSnoc ==
  ASSUME NEW s \in Seq(Bytes), NEW m \in 0..9
  PROVE  /\ Natural(s) \in Nat => Natural(s \o <<Digits[m + 1]>>) = 10 * Natural(s) + m
         /\ s = <<>> => Natural(s \o <<Digits[m + 1]>>) = m
<1> DEFINE c == Digits[m + 1]
           t == s \o <<c>>
<1>1. c \in Bytes /\ Digit(c) = m
  BY DigitFacts, Zenon
<1> HIDE DEF c
<1>2. Len(s) \in Nat /\ Len(t) = Len(s) + 1 /\ t[Len(s) + 1] = c /\ \A k \in 1..Len(s) : t[k] = s[k]
  BY <1>1
<1> HIDE DEF t
<1>3. PICK f : /\ f[0] = 0 /\ \A k \in 1..Len(s) : f[k] = 10 * f[k - 1] + Digit(s[k])
               /\ Natural(s) = f[Len(s)]
  BY <1>2, NaturalStep, Zenon
<1>4. PICK g : /\ g[0] = 0 /\ \A k \in 1..Len(t) : g[k] = 10 * g[k - 1] + Digit(t[k])
               /\ Natural(t) = g[Len(t)]
  <2>1. Len(t) \in Nat
    BY <1>2
  <2> QED
    BY <2>1, NaturalStep, Zenon
<1> DEFINE T == {k \in Nat : k <= Len(s) => f[k] = g[k]}
<1>5. 0 \in T
  BY <1>3, <1>4, Zenon
<1>6. ASSUME NEW k \in T PROVE k + 1 \in T
  <2> SUFFICES ASSUME k + 1 <= Len(s) PROVE f[k + 1] = g[k + 1]
    OBVIOUS
  <2>1. f[k] = g[k] /\ k + 1 \in 1..Len(s) /\ k + 1 \in 1..Len(t) /\ (k + 1) - 1 = k
    BY <1>2
  <2> QED
    BY <1>2, <1>3, <1>4, <2>1, Zenon
<1>7. T = Nat
  <2>1. T \subseteq Nat
    BY Zenon
  <2> HIDE DEF T
  <2> QED
    BY <1>5, <1>6, <2>1, Induct, Zenon
<1>8. f[Len(s)] = g[Len(s)]
  BY <1>2, <1>7
<1>9. Len(s) + 1 \in 1..Len(t) /\ (Len(s) + 1) - 1 = Len(s)
  BY <1>2
<1>10. g[Len(s) + 1] = 10 * g[Len(s)] + Digit(t[Len(s) + 1])
  BY <1>4, <1>9, Zenon
<1>11. Natural(t) = 10 * f[Len(s)] + m
  BY <1>1, <1>2, <1>4, <1>8, <1>10, Zenon
<1>12. s = <<>> => Len(s) = 0
  OBVIOUS
<1>13. s = <<>> => Natural(t) = m
  BY <1>3, <1>11, <1>12
<1> QED
  BY <1>3, <1>11, <1>13, Zenon DEF t, c

\* The text of a number: m's own, from that of the number without its last
\* digit.
Texts(f, n) ==
    f = [m \in 0..n |-> IF m < 10 THEN <<Digits[m + 1]>>
                        ELSE f[m \div 10] \o <<Digits[(m % 10) + 1]>>]

\* The number without its last digit, and that digit.
LEMMA Division ==
  ASSUME NEW m \in Nat, ~(m < 10)
  PROVE  m \div 10 \in 0..m - 1 /\ m % 10 \in 0..9 /\ m = 10 * (m \div 10) + (m % 10)
OBVIOUS

\* Every number has a text.
LEMMA TextsExist ==
  ASSUME NEW n \in Nat
  PROVE  \E f : Texts(f, n)
<1> DEFINE One(f, m) == IF m < 10 THEN <<Digits[m + 1]>>
                        ELSE f[m \div 10] \o <<Digits[(m % 10) + 1]>>
           T == {k \in Nat : \E f : Texts(f, k)}
<1>1. 0 \in T
  <2> DEFINE f == [m \in 0..0 |-> <<Digits[m + 1]>>]
  <2>1. \A m \in 0..0 : f[m] = One(f, m)
    OBVIOUS
  <2>2. Texts(f, 0)
    BY <2>1, Zenon DEF Texts
  <2> QED
    BY <2>2, Zenon
<1>2. ASSUME NEW k \in T PROVE k + 1 \in T
  <2>1. PICK f : Texts(f, k)
    BY Zenon
  <2> DEFINE last == One(f, k + 1)
             g == [m \in 0..k + 1 |-> IF m = k + 1 THEN last ELSE f[m]]
  <2>2. k \in Nat /\ \A m \in 0..k : f[m] = One(f, m)
    BY <2>1, Zenon DEF Texts
  <2>3. ASSUME NEW m \in 0..k + 1 PROVE One(g, m) = One(f, m)
    <3> HIDE DEF last
    <3>1. CASE m < 10
      BY <3>1, Zenon
    <3>2. CASE ~(m < 10)
      <4>1. m \div 10 \in 0..m - 1 /\ m \in Nat
        BY <3>2, Division
      <4> DEFINE q == m \div 10
      <4> HIDE DEF q
      <4>2. q \in 0..k
        BY <2>2, <4>1 DEF q
      <4>3. g[q] = f[q]
        BY <2>2, <4>2
      <4> QED
        BY <4>3 DEF q
    <3> QED
      BY <3>1, <3>2, Zenon
  <2>4. ASSUME NEW m \in 0..k + 1 PROVE g[m] = One(f, m)
    <3> HIDE DEF One
    <3> QED
      BY <2>2
  <2>5. g = [m \in 0..k + 1 |-> g[m]]
    BY Zenon
  <2> HIDE DEF g
  <2>6. g = [m \in 0..k + 1 |-> One(g, m)]
    <3> HIDE DEF One
    <3> QED
      BY <2>3, <2>4, <2>5, Zenon
  <2>7. Texts(g, k + 1)
    BY <2>6, Zenon DEF Texts
  <2> QED
    BY <2>2, <2>7
<1>3. T = Nat
  <2>1. T \subseteq Nat
    BY Zenon
  <2> HIDE DEF T
  <2> QED
    BY <1>1, <1>2, <2>1, Induct, Zenon
<1> QED
  BY <1>3, Zenon

\* std::to_string of a natural number writes digits, and from_chars reads the
\* number back.
LEMMA DecimalFacts ==
  ASSUME NEW n \in Nat
  PROVE  Decimal(n) \in Seq(Bytes) /\ AllDigits(Decimal(n)) /\ Natural(Decimal(n)) = n
<1> DEFINE Is(f) == f = [m \in 0..n |-> IF m < 10 THEN <<Digits[m + 1]>>
                                        ELSE f[m \div 10] \o <<Digits[(m % 10) + 1]>>]
           f == CHOOSE g : Is(g)
           Good(s, m) == s \in Seq(Bytes) /\ AllDigits(s) /\ Natural(s) = m
<1>1. PICK g : Is(g)
  BY TextsExist, Zenon DEF Texts
<1>2. Is(f)
  <2> HIDE DEF Is
  <2> QED
    BY <1>1, Zenon
<1>3. Decimal(n) = f[n]
  BY Zenon DEF Decimal
<1> HIDE DEF f
<1>4. \A m \in 0..n : f[m] = IF m < 10 THEN <<Digits[m + 1]>>
                             ELSE f[m \div 10] \o <<Digits[(m % 10) + 1]>>
  BY <1>2, Zenon
<1> DEFINE T == {k \in Nat : k <= n => \A m \in 0..k : Good(f[m], m)}
<1>5. ASSUME NEW m \in 0..9 PROVE Good(<<Digits[m + 1]>>, m)
  <2>1. Digits[m + 1] \in Bytes /\ IsDigit(Digits[m + 1])
    BY DigitFacts, Zenon
  <2>2. <<>> \in Seq(Bytes) /\ <<>> \o <<Digits[m + 1]>> = <<Digits[m + 1]>>
    BY <2>1
  <2>3. Natural(<<>> \o <<Digits[m + 1]>>) = m
    BY <2>2, NaturalSnoc, Zenon
  <2>4. AllDigits(<<Digits[m + 1]>>)
    BY <2>1 DEF AllDigits
  <2> QED
    BY <2>1, <2>2, <2>3, <2>4
<1>6. ASSUME NEW s, NEW q \in Nat, Good(s, q), NEW m \in 0..9
      PROVE  Good(s \o <<Digits[m + 1]>>, 10 * q + m)
  <2>1. Digits[m + 1] \in Bytes /\ IsDigit(Digits[m + 1])
    BY DigitFacts, Zenon
  <2>2. s \in Seq(Bytes) /\ AllDigits(s) /\ Natural(s) = q
    BY <1>6, Zenon
  <2>3. Natural(s \o <<Digits[m + 1]>>) = 10 * q + m
    BY <2>2, NaturalSnoc, Zenon
  <2> DEFINE c == Digits[m + 1]
  <2> HIDE DEF c
  <2>4. s \o <<c>> \in Seq(Bytes) /\ AllDigits(s \o <<c>>)
    BY <2>1, <2>2 DEF AllDigits, c
  <2> QED
    BY <2>3, <2>4, Zenon DEF c
<1> HIDE DEF Good
<1>7. 0 \in T
  <2>1. 0 \in 0..n /\ 0 \in 0..9
    OBVIOUS
  <2>2. Good(f[0], 0)
    BY <1>4, <1>5, <2>1
  <2> QED
    BY <2>2
<1>8. ASSUME NEW k \in T PROVE k + 1 \in T
  <2> SUFFICES ASSUME k + 1 <= n, NEW m \in 0..k + 1 PROVE Good(f[m], m)
    OBVIOUS
  <2>1. k \in Nat /\ \A j \in 0..k : Good(f[j], j)
    OBVIOUS
  <2>2. m \in 0..n /\ m \in Nat
    OBVIOUS
  <2>3. CASE m < 10
    <3>1. m \in 0..9
      BY <2>2, <2>3
    <3>2. f[m] = <<Digits[m + 1]>>
      BY <1>4, <2>2, <2>3, Zenon
    <3> QED
      BY <1>5, <3>1, <3>2, Zenon
  <2>4. CASE ~(m < 10)
    <3> DEFINE q == m \div 10
               r == m % 10
    <3>1. q \in 0..m - 1 /\ r \in 0..9 /\ m = 10 * q + r
      BY <2>2, <2>4, Division, Zenon
    <3>2. f[m] = f[q] \o <<Digits[r + 1]>>
      BY <1>4, <2>2, <2>4, Zenon
    <3> HIDE DEF q, r
    <3>3. q \in Nat /\ q \in 0..k
      BY <2>1, <3>1
    <3>4. Good(f[q], q)
      BY <2>1, <3>3, Zenon
    <3>5. Good(f[q] \o <<Digits[r + 1]>>, 10 * q + r)
      BY <1>6, <3>1, <3>3, <3>4, Zenon
    <3> QED
      BY <3>1, <3>2, <3>5, Zenon
  <2> QED
    BY <2>3, <2>4, Zenon
<1>9. T = Nat
  <2>1. T \subseteq Nat
    BY Zenon
  <2> HIDE DEF T
  <2> QED
    BY <1>7, <1>8, <2>1, Induct, Zenon
<1>10. n \in T
  BY <1>9, Zenon
<1>11. Good(f[n], n)
  BY <1>10
<1> QED
  BY <1>3, <1>11, Zenon DEF Good

\* std::to_string writes a line, and from_chars reads the number back.
LEMMA ToStringFacts ==
  ASSUME NEW n \in Int64
  PROVE  ToString(n) \in Lines /\ IsNumber(ToString(n)) /\ Number(ToString(n)) = n
<1>0. n \in Int
  BY RangeAssumption DEF Int64
<1>1. ASSUME NEW s \in Seq(Bytes), \A j \in 1..Len(s) : IsDigit(s[j]) \/ s[j] = "-"
      PROVE  s \in Lines
  BY <1>1, LineEndAssumption, Zenon DEF Lines, EndsAt
<1>2. ASSUME NEW s \in Seq(Bytes), AllDigits(s) PROVE s # <<>> /\ s[1] # "-"
  <2>1. IsDigit(s[1])
    BY <1>2 DEF AllDigits
  <2>2. ~IsDigit("-")
    BY DEF IsDigit, Digits
  <2> QED
    BY <1>2, <2>1, <2>2, Zenon DEF AllDigits
<1>3. CASE ~(n < 0)
  <2> DEFINE s == Decimal(n)
  <2>1. s \in Seq(Bytes) /\ AllDigits(s) /\ Natural(s) = n
    BY <1>0, <1>3, DecimalFacts
  <2>2. ToString(n) = s
    BY <1>3, Zenon DEF ToString
  <2> HIDE DEF s
  <2>3. s \in Lines
    BY <1>1, <2>1, Zenon DEF AllDigits
  <2>4. Number(s) = n
    BY <1>2, <2>1, Zenon DEF Number
  <2> QED
    BY <2>1, <2>2, <2>3, <2>4, Zenon DEF IsNumber
<1>4. CASE n < 0
  <2> DEFINE s == Decimal(-n)
             t == <<"-">> \o s
  <2>1. s \in Seq(Bytes) /\ AllDigits(s) /\ Natural(s) = -n
    BY <1>0, <1>4, DecimalFacts
  <2>2. ToString(n) = t
    BY <1>4, Zenon DEF ToString
  <2> HIDE DEF s
  <2>3. "-" \in Bytes
    BY Zenon DEF Bytes, Types
  <2>4. t \in Seq(Bytes) /\ t # <<>> /\ t[1] = "-" /\ Tail(t) = s
    BY <2>1, <2>3
  <2>5. \A j \in 1..Len(t) : IsDigit(t[j]) \/ t[j] = "-"
    BY <2>1, <2>3 DEF AllDigits
  <2> HIDE DEF t
  <2>6. t \in Lines
    BY <1>1, <2>4, <2>5, Zenon
  <2>7. Number(t) = n
    <3>1. Number(t) = -Natural(s)
      BY <2>4, Zenon DEF Number
    <3> QED
      BY <1>0, <2>1, <3>1
  <2> QED
    BY <2>1, <2>2, <2>4, <2>6, <2>7, Zenon DEF IsNumber
<1> QED
  BY <1>3, <1>4, Zenon

(***************************************************************************)
(* serialize.                                                             *)
(***************************************************************************)
\* What holds two strings one behind the other holds each of them.
LEMMA HoldsSplit ==
  ASSUME NEW b \in Seq(Bytes), NEW s \in Seq(Bytes), NEW t \in Seq(Bytes), NEW d \in Nat,
         Holds(b, s \o t, d)
  PROVE  Holds(b, s, d) /\ Holds(b, t, d + Len(s))
<1> DEFINE u == s \o t
<1>1. /\ Len(u) = Len(s) + Len(t) /\ Len(s) \in Nat /\ Len(t) \in Nat /\ Len(b) \in Nat
      /\ \A k \in 1..Len(s) : u[k] = s[k]
      /\ \A k \in 1..Len(t) : u[k + Len(s)] = t[k]
  OBVIOUS
<1>2. Len(u) + d <= Len(b) /\ \A k \in 1..Len(u) : b[k + d] = u[k]
  BY Zenon DEF Holds
<1> HIDE DEF u
<1>3. Holds(b, s, d)
  <2>1. Len(s) + d <= Len(b) /\ \A k \in 1..Len(s) : k \in 1..Len(u)
    BY <1>1, <1>2
  <2> QED
    BY <1>1, <1>2, <2>1, Zenon DEF Holds
<1>4. ASSUME NEW k \in 1..Len(t) PROVE b[k + (d + Len(s))] = t[k]
  <2>1. k + Len(s) \in 1..Len(u) /\ (k + Len(s)) + d = k + (d + Len(s))
    BY <1>1
  <2> QED
    BY <1>1, <1>2, <2>1, Zenon
<1>5. Len(t) + (d + Len(s)) <= Len(b)
  BY <1>1, <1>2
<1> QED
  BY <1>3, <1>4, <1>5, Zenon DEF Holds

\* The bytes of several parts, part by part.
LEMMA ConcatTypes ==
  ASSUME NEW parts \in Seq(Seq(Bytes))
  PROVE  LET f == Concats(parts)
         IN  /\ f[0] = <<>>
             /\ \A k \in 0..Len(parts) : f[k] \in Seq(Bytes)
             /\ \A k \in 1..Len(parts) : /\ f[k] = f[k - 1] \o parts[k]
                                         /\ Len(f[k]) = Len(f[k - 1]) + Len(parts[k])
<1> DEFINE f == Concats(parts)
           n == Len(parts)
<1>1. n \in Nat /\ \A k \in 1..n : parts[k] \in Seq(Bytes)
  OBVIOUS
<1>2. f[0] = <<>> /\ \A k \in 1..n : f[k] = f[k - 1] \o parts[k]
  BY <1>1, ConcatsStep, Zenon
<1> HIDE DEF f, n
<1> DEFINE T == {k \in Nat : k <= n => f[k] \in Seq(Bytes)}
<1>3. 0 \in T
  <2>1. <<>> \in Seq(Bytes)
    OBVIOUS
  <2> QED
    BY <1>2, <2>1, Zenon
<1>4. ASSUME NEW k \in T PROVE k + 1 \in T
  <2> SUFFICES ASSUME k + 1 <= n PROVE f[k + 1] \in Seq(Bytes)
    OBVIOUS
  <2>1. f[k] \in Seq(Bytes) /\ k + 1 \in 1..n /\ (k + 1) - 1 = k
    BY <1>1
  <2>2. f[k + 1] = f[k] \o parts[k + 1] /\ parts[k + 1] \in Seq(Bytes)
    BY <1>1, <1>2, <2>1, Zenon
  <2> QED
    BY <2>1, <2>2
<1>5. T = Nat
  <2>1. T \subseteq Nat
    BY Zenon
  <2> HIDE DEF T
  <2> QED
    BY <1>3, <1>4, <2>1, Induct, Zenon
<1>6. \A k \in 0..n : f[k] \in Seq(Bytes)
  BY <1>1, <1>5
<1>7. ASSUME NEW k \in 1..n PROVE Len(f[k]) = Len(f[k - 1]) + Len(parts[k])
  <2>1. k - 1 \in 0..n
    BY <1>1
  <2>2. f[k - 1] \in Seq(Bytes) /\ parts[k] \in Seq(Bytes) /\ f[k] = f[k - 1] \o parts[k]
    BY <1>1, <1>2, <1>6, <2>1, Zenon
  <2> QED
    BY <2>2
<1> QED
  BY <1>2, <1>6, <1>7, Zenon DEF f, n

\* What holds all the parts holds the first k of them, and each where the ones
\* before it end.
LEMMA ConcatHolds ==
  ASSUME NEW parts \in Seq(Seq(Bytes)), NEW b \in Seq(Bytes), NEW d \in Nat,
         Holds(b, Concat(parts), d)
  PROVE  /\ \A k \in 0..Len(parts) : Holds(b, Concats(parts)[k], d)
         /\ \A k \in 1..Len(parts) : Holds(b, parts[k], d + Len(Concats(parts)[k - 1]))
<1> DEFINE f == Concats(parts)
           n == Len(parts)
<1>0. /\ \A k \in 0..n : f[k] \in Seq(Bytes)
      /\ \A k \in 1..n : f[k] = f[k - 1] \o parts[k] /\ Len(f[k]) = Len(f[k - 1]) + Len(parts[k])
  BY ConcatTypes, Zenon
<1>1. /\ n \in Nat /\ \A k \in 1..n : parts[k] \in Seq(Bytes)
      /\ \A k \in 0..n : f[k] \in Seq(Bytes)
      /\ \A k \in 1..n : f[k] = f[k - 1] \o parts[k]
  <2>1. n \in Nat /\ \A k \in 1..n : parts[k] \in Seq(Bytes)
    OBVIOUS
  <2> HIDE DEF f
  <2> QED
    BY <1>0, <2>1, Zenon
<1>2. Holds(b, f[n], d)
  BY Zenon DEF Concat
<1> HIDE DEF f, n
<1>3. ASSUME NEW k \in 1..n, Holds(b, f[k], d)
      PROVE  Holds(b, f[k - 1], d) /\ Holds(b, parts[k], d + Len(f[k - 1]))
  <2>1. k - 1 \in 0..n
    BY <1>1
  <2>2. f[k - 1] \in Seq(Bytes) /\ parts[k] \in Seq(Bytes) /\ Holds(b, f[k - 1] \o parts[k], d)
    BY <1>1, <1>3, <2>1, Zenon
  <2> QED
    BY <2>2, HoldsSplit, Zenon
<1> DEFINE T == {m \in Nat : m <= n => Holds(b, f[n - m], d)}
<1>4. 0 \in T
  BY <1>1, <1>2
<1>5. ASSUME NEW m \in T PROVE m + 1 \in T
  <2> SUFFICES ASSUME m + 1 <= n PROVE Holds(b, f[n - (m + 1)], d)
    OBVIOUS
  <2>1. Holds(b, f[n - m], d) /\ n - m \in 1..n /\ (n - m) - 1 = n - (m + 1)
    BY <1>1
  <2>2. Holds(b, f[(n - m) - 1], d)
    BY <1>3, <2>1, Zenon
  <2> QED
    BY <2>1, <2>2, Zenon
<1>6. T = Nat
  <2>1. T \subseteq Nat
    BY Zenon
  <2> HIDE DEF T
  <2> QED
    BY <1>4, <1>5, <2>1, Induct, Zenon
<1>7. ASSUME NEW k \in 0..n PROVE Holds(b, f[k], d)
  <2>1. n - k \in Nat /\ n - (n - k) = k /\ n - k <= n
    BY <1>1
  <2>2. n - k \in T
    <3> HIDE DEF T
    <3> QED
      BY <1>6, <2>1, Zenon
  <2>3. Holds(b, f[n - (n - k)], d)
    BY <2>1, <2>2, Zenon
  <2> QED
    BY <2>1, <2>3, Zenon
<1>8. \A k \in 1..n : k \in 0..n
  BY <1>1
<1> QED
  BY <1>3, <1>7, <1>8, Zenon DEF f, n

\* A value has one of the alternatives.
Shape(v, V) ==
    \/ v = NullValue
    \/ v[2] \in Lines /\ v \in {Simple(v[2]), Failure(v[2])}
    \/ v[2] \in Int64 /\ v = Integer(v[2])
    \/ v[2] \in Seq(Bytes) /\ Len(v[2]) <= IntMax /\ v = BulkOf(v[2])
    \/ v[2] \in Seq(V) /\ Len(v[2]) <= MaxCount /\ v = ArrayOf(v[2])

\* The alternatives of RespValue are all there is.
LEMMA Shapes ==
  ASSUME NEW V, NEW v \in Deeper(V)
  PROVE  Shape(v, V)
<1>1. CASE v = NullValue
  BY <1>1, Zenon DEF Shape
<1>2. CASE v \in {"simple", "error"} \X Lines
  BY <1>2 DEF Shape, Simple, Failure
<1>3. CASE v \in {"integer"} \X Int64
  BY <1>3 DEF Shape, Integer
<1>4. CASE v \in {"bulk"} \X {s \in Seq(Bytes) : Len(s) <= IntMax}
  BY <1>4 DEF Shape, BulkOf
<1>5. CASE v \in {"array"} \X {s \in Seq(V) : Len(s) <= MaxCount}
  BY <1>5 DEF Shape, ArrayOf
<1> QED
  BY <1>1, <1>2, <1>3, <1>4, <1>5, Zenon DEF Deeper, Plain

\* The bytes of an array's elements.
Parts(f, s) == [k \in 1..Len(s) |-> f[s[k]]]

\* serialize, alternative by alternative.
LEMMA WireCases ==
  ASSUME NEW f
  PROVE  /\ Wire(f, NullValue) = <<"$", "-", "1">> \o CRLF
         /\ \A s : Wire(f, Simple(s)) = <<"+">> \o s \o CRLF
         /\ \A s : Wire(f, Failure(s)) = <<"-">> \o s \o CRLF
         /\ \A n : Wire(f, Integer(n)) = <<":">> \o ToString(n) \o CRLF
         /\ \A s : Wire(f, BulkOf(s)) = <<"$">> \o ToString(Len(s)) \o CRLF \o s \o CRLF
         /\ \A s : Wire(f, ArrayOf(s)) = <<"*">> \o ToString(Len(s)) \o CRLF \o Concat(Parts(f, s))
<1>1. Wire(f, NullValue) = <<"$", "-", "1">> \o CRLF
  BY Zenon DEF Wire, NullValue
<1>2. ASSUME NEW s
      PROVE  /\ Wire(f, Simple(s)) = <<"+">> \o s \o CRLF
             /\ Wire(f, Failure(s)) = <<"-">> \o s \o CRLF
             /\ Wire(f, Integer(s)) = <<":">> \o ToString(s) \o CRLF
             /\ Wire(f, BulkOf(s)) = <<"$">> \o ToString(Len(s)) \o CRLF \o s \o CRLF
             /\ Wire(f, ArrayOf(s)) = <<"*">> \o ToString(Len(s)) \o CRLF \o Concat(Parts(f, s))
  <2>1. Wire(f, Simple(s)) = <<"+">> \o s \o CRLF
    BY Zenon DEF Wire, Simple
  <2>2. Wire(f, Failure(s)) = <<"-">> \o s \o CRLF
    BY Zenon DEF Wire, Failure
  <2>3. Wire(f, Integer(s)) = <<":">> \o ToString(s) \o CRLF
    BY Zenon DEF Wire, Integer
  <2>4. Wire(f, BulkOf(s)) = <<"$">> \o ToString(Len(s)) \o CRLF \o s \o CRLF
    BY Zenon DEF Wire, BulkOf
  <2>5. Wire(f, ArrayOf(s)) = <<"*">> \o ToString(Len(s)) \o CRLF \o Concat(Parts(f, s))
    BY Zenon DEF Wire, ArrayOf, Parts
  <2> QED
    BY <2>1, <2>2, <2>3, <2>4, <2>5, Zenon
<1> QED
  BY <1>1, <1>2, Zenon

\* The bytes of a value rest on those of its elements.
LEMMA WireLocal ==
  ASSUME NEW V, NEW v \in Deeper(V), NEW f, NEW g, \A e \in V : f[e] = g[e]
  PROVE  Wire(f, v) = Wire(g, v)
<1>1. Shape(v, V)
  BY Shapes, Zenon
<1>2. CASE v[2] \in Seq(V) /\ v = ArrayOf(v[2])
  <2>1. PICK s \in Seq(V) : v = ArrayOf(s)
    BY <1>2, Zenon
  <2>2. Parts(f, s) = Parts(g, s)
    BY DEF Parts
  <2>3. \A h : Wire(h, ArrayOf(s)) = <<"*">> \o ToString(Len(s)) \o CRLF \o Concat(Parts(h, s))
    BY WireCases, Zenon
  <2>4. Wire(f, ArrayOf(s)) = Wire(g, ArrayOf(s))
    BY <2>2, <2>3, Zenon
  <2> QED
    BY <2>1, <2>4, Zenon
<1>3. CASE v = NullValue
  BY <1>3, WireCases, Zenon
<1>0. ASSUME NEW s
      PROVE  /\ Wire(f, Simple(s)) = Wire(g, Simple(s)) /\ Wire(f, Failure(s)) = Wire(g, Failure(s))
             /\ Wire(f, Integer(s)) = Wire(g, Integer(s)) /\ Wire(f, BulkOf(s)) = Wire(g, BulkOf(s))
  <2>1. Wire(f, Simple(s)) = <<"+">> \o s \o CRLF /\ Wire(g, Simple(s)) = <<"+">> \o s \o CRLF
    BY WireCases, Zenon
  <2>2. Wire(f, Failure(s)) = <<"-">> \o s \o CRLF /\ Wire(g, Failure(s)) = <<"-">> \o s \o CRLF
    BY WireCases, Zenon
  <2>3. \A h : Wire(h, Integer(s)) = <<":">> \o ToString(s) \o CRLF
    BY WireCases, Zenon
  <2>4. \A h : Wire(h, BulkOf(s)) = <<"$">> \o ToString(Len(s)) \o CRLF \o s \o CRLF
    BY WireCases, Zenon
  <2> QED
    BY <2>1, <2>2, <2>3, <2>4, Zenon
<1>4. CASE v \in {Simple(v[2]), Failure(v[2])}
  BY <1>0, <1>4, Zenon
<1>5. CASE v = Integer(v[2])
  BY <1>0, <1>5, Zenon
<1>6. CASE v = BulkOf(v[2])
  BY <1>0, <1>6, Zenon
<1> QED
  BY <1>1, <1>2, <1>3, <1>4, <1>5, <1>6, Zenon DEF Shape

\* The bytes of a value are bytes, and not none.
LEMMA WireTypes ==
  ASSUME NEW V, NEW v \in Deeper(V), NEW f, \A e \in V : f[e] \in Seq(Bytes)
  PROVE  Wire(f, v) \in Seq(Bytes) /\ Len(Wire(f, v)) > 0
<1>0. CRLF \in Seq(Bytes) /\ Types \subseteq Bytes /\ "1" \in Bytes /\ MaxCount \in Nat /\ IntMax \in Nat
  <2>1. "1" = Digits[1 + 1] /\ 1 \in 0..9
    BY DEF Digits
  <2>2. "1" \in Bytes
    BY <2>1, DigitFacts, Zenon
  <2>3. CR \in Bytes /\ LF \in Bytes /\ Types \subseteq Bytes
    BY Zenon DEF Bytes
  <2> QED
    BY <2>2, <2>3, RangeAssumption DEF CRLF
<1>1. Shape(v, V)
  BY Shapes, Zenon
<1>2. ASSUME NEW c \in Types, NEW s \in Seq(Bytes)
      PROVE  <<c>> \o s \o CRLF \in Seq(Bytes) /\ Len(<<c>> \o s \o CRLF) > 0
  BY <1>0
<1>3. ASSUME NEW n \in Int64 PROVE ToString(n) \in Seq(Bytes)
  BY ToStringFacts, Zenon DEF Lines
<1>4. CASE v = NullValue
  <2>1. Wire(f, v) = <<"$", "-", "1">> \o CRLF
    BY <1>4, WireCases, Zenon
  <2>2. "$" \in Bytes /\ "-" \in Bytes
    BY <1>0, Zenon DEF Types
  <2>3. <<"$", "-", "1">> \in Seq(Bytes)
    BY <1>0, <2>2
  <2> QED
    BY <1>0, <2>1, <2>3
<1>5. CASE v[2] \in Lines /\ v \in {Simple(v[2]), Failure(v[2])}
  <2>1. \E c \in Types : Wire(f, v) = <<c>> \o v[2] \o CRLF
    <3>1. "+" \in Types /\ "-" \in Types
      BY Zenon DEF Types
    <3>2. v = Simple(v[2]) \/ v = Failure(v[2])
      BY <1>5, Zenon
    <3>3. ASSUME NEW s
          PROVE  /\ Wire(f, Simple(s)) = <<"+">> \o s \o CRLF
                 /\ Wire(f, Failure(s)) = <<"-">> \o s \o CRLF
      BY WireCases, Zenon
    <3> QED
      BY <3>1, <3>2, <3>3, Zenon
  <2>2. v[2] \in Seq(Bytes)
    BY <1>5, Zenon DEF Lines
  <2> QED
    BY <1>2, <2>1, <2>2, Zenon
<1>6. CASE v[2] \in Int64 /\ v = Integer(v[2])
  <2>1. Wire(f, v) = <<":">> \o ToString(v[2]) \o CRLF
    <3>1. \A s : Wire(f, Integer(s)) = <<":">> \o ToString(s) \o CRLF
      BY WireCases, Zenon
    <3>2. Wire(f, Integer(v[2])) = Wire(f, v)
      BY <1>6, Zenon
    <3> QED
      BY <3>1, <3>2, Zenon
  <2>2. ":" \in Types
    BY Zenon DEF Types
  <2> QED
    BY <1>2, <1>3, <1>6, <2>1, <2>2, Zenon
<1>7. ASSUME NEW n \in Nat, n <= IntMax PROVE n \in Int64
  BY <1>0, <1>7 DEF Int64
<1>8. ASSUME NEW c \in Types, NEW s \in Seq(Bytes), NEW t \in Seq(Bytes)
      PROVE  <<c>> \o s \o CRLF \o t \in Seq(Bytes) /\ Len(<<c>> \o s \o CRLF \o t) > 0
  BY <1>0
<1>9. CASE v[2] \in Seq(Bytes) /\ Len(v[2]) <= IntMax /\ v = BulkOf(v[2])
  <2>1. Wire(f, v) = <<"$">> \o ToString(Len(v[2])) \o CRLF \o v[2] \o CRLF
    <3>1. \A s : Wire(f, BulkOf(s)) = <<"$">> \o ToString(Len(s)) \o CRLF \o s \o CRLF
      BY WireCases, Zenon
    <3>2. Wire(f, BulkOf(v[2])) = Wire(f, v)
      BY <1>9, Zenon
    <3> QED
      BY <3>1, <3>2, Zenon
  <2>2. "$" \in Types
    BY Zenon DEF Types
  <2>3. ToString(Len(v[2])) \in Seq(Bytes)
    BY <1>3, <1>7, <1>9
  <2> DEFINE u == <<"$">> \o ToString(Len(v[2])) \o CRLF \o v[2]
  <2>4. u \in Seq(Bytes) /\ Len(u) > 0
    BY <1>8, <1>9, <2>2, <2>3, Zenon
  <2>5. Wire(f, v) = u \o CRLF
    BY <2>1, Zenon
  <2> HIDE DEF u
  <2> QED
    BY <1>0, <2>4, <2>5
<1>10. CASE v[2] \in Seq(V) /\ Len(v[2]) <= MaxCount /\ v = ArrayOf(v[2])
  <2> DEFINE p == Parts(f, v[2])
  <2>1. Wire(f, v) = <<"*">> \o ToString(Len(v[2])) \o CRLF \o Concat(p)
    <3>1. \A s : Wire(f, ArrayOf(s)) = <<"*">> \o ToString(Len(s)) \o CRLF \o Concat(Parts(f, s))
      BY WireCases, Zenon
    <3>2. Wire(f, ArrayOf(v[2])) = Wire(f, v)
      BY <1>10, Zenon
    <3> QED
      BY <3>1, <3>2, Zenon
  <2>2. "*" \in Types
    BY Zenon DEF Types
  <2>3. Len(v[2]) \in Nat /\ Len(v[2]) <= IntMax
    BY <1>10, RangeAssumption
  <2>4. ToString(Len(v[2])) \in Seq(Bytes)
    BY <1>3, <1>7, <2>3, Zenon
  <2>5. p \in Seq(Seq(Bytes))
    BY <1>10 DEF Parts
  <2> HIDE DEF p
  <2>6. \A k \in 0..Len(p) : Concats(p)[k] \in Seq(Bytes)
    BY <2>5, ConcatTypes, Zenon
  <2>7. Concat(p) \in Seq(Bytes)
    BY <2>5, <2>6 DEF Concat
  <2> QED
    BY <1>8, <2>1, <2>2, <2>4, <2>7, Zenon
<1> QED
  BY <1>1, <1>4, <1>5, <1>6, <1>9, <1>10, Zenon DEF Shape

\* A value that is not nested deeper than d is not nested deeper than d + 1.
LEMMA NestedGrows ==
  /\ \A d \in 0..Depth : Nested[d] \subseteq RespValue
  /\ \A d \in 0..Depth - 1 : Nested[d] \subseteq Nested[d + 1] /\ Nested[d + 1] = Deeper(Nested[d])
  /\ Nested[0] = Plain
<1> DEFINE N == Nested
<1>0. Depth \in Nat
  BY RangeAssumption, Zenon
<1>1. N[0] = Plain /\ \A k \in 1..Depth : N[k] = Deeper(N[k - 1])
  BY NestedStep, Zenon
<1>2. RespValue = N[Depth]
  BY Zenon DEF RespValue
<1> HIDE DEF N
<1>3. \A d \in 0..Depth - 1 : N[d + 1] = Deeper(N[d])
  <2> SUFFICES ASSUME NEW d \in 0..Depth - 1 PROVE N[d + 1] = Deeper(N[d])
    BY Zenon
  <2>1. d + 1 \in 1..Depth /\ (d + 1) - 1 = d
    BY <1>0
  <2> QED
    BY <1>1, <2>1, Zenon
<1>4. ASSUME NEW V, NEW W, V \subseteq W PROVE Deeper(V) \subseteq Deeper(W)
  <2>1. \A s \in Seq(V) : s \in Seq(W)
    BY <1>4
  <2> QED
    BY <2>1, Zenon DEF Deeper
<1> DEFINE T == {d \in Nat : d <= Depth - 1 => N[d] \subseteq N[d + 1]}
<1>5. 0 \in T
  <2> SUFFICES ASSUME 0 <= Depth - 1 PROVE N[0] \subseteq N[0 + 1]
    BY Zenon
  <2>1. N[0 + 1] = Deeper(N[0])
    BY <1>0, <1>3
  <2> QED
    BY <1>1, <2>1, Zenon DEF Deeper
<1>6. ASSUME NEW d \in T PROVE d + 1 \in T
  <2> SUFFICES ASSUME d + 1 <= Depth - 1 PROVE N[d + 1] \subseteq N[(d + 1) + 1]
    OBVIOUS
  <2>1. N[d] \subseteq N[d + 1] /\ d \in 0..Depth - 1 /\ d + 1 \in 0..Depth - 1
    BY <1>0
  <2>2. N[d + 1] = Deeper(N[d]) /\ N[(d + 1) + 1] = Deeper(N[d + 1])
    BY <1>3, <2>1, Zenon
  <2>3. Deeper(N[d]) \subseteq Deeper(N[d + 1])
    BY <1>4, <2>1, Zenon
  <2> QED
    BY <2>2, <2>3, Zenon
<1>7. T = Nat
  <2>1. T \subseteq Nat
    BY Zenon
  <2> HIDE DEF T
  <2> QED
    BY <1>5, <1>6, <2>1, Induct, Zenon
<1>8. \A d \in 0..Depth - 1 : N[d] \subseteq N[d + 1]
  <2> SUFFICES ASSUME NEW d \in 0..Depth - 1 PROVE N[d] \subseteq N[d + 1]
    BY Zenon
  <2>1. d \in Nat /\ d <= Depth - 1
    BY <1>0
  <2> QED
    BY <1>7, <2>1, Zenon
<1> DEFINE U == {m \in Nat : m <= Depth => N[Depth - m] \subseteq RespValue}
<1>9. 0 \in U
  BY <1>0, <1>2
<1>10. ASSUME NEW m \in U PROVE m + 1 \in U
  <2> SUFFICES ASSUME m + 1 <= Depth PROVE N[Depth - (m + 1)] \subseteq RespValue
    OBVIOUS
  <2>1. N[Depth - m] \subseteq RespValue
    BY <1>0
  <2>2. Depth - (m + 1) \in 0..Depth - 1 /\ (Depth - (m + 1)) + 1 = Depth - m
    BY <1>0
  <2>3. N[Depth - (m + 1)] \subseteq N[Depth - m]
    BY <1>8, <2>2, Zenon
  <2> QED
    BY <2>1, <2>3, Zenon
<1>11. U = Nat
  <2>1. U \subseteq Nat
    BY Zenon
  <2> HIDE DEF U
  <2> QED
    BY <1>9, <1>10, <2>1, Induct, Zenon
<1>12. ASSUME NEW d \in 0..Depth PROVE N[d] \subseteq RespValue
  <2>1. Depth - d \in Nat /\ Depth - d <= Depth /\ Depth - (Depth - d) = d
    BY <1>0
  <2>2. Depth - d \in U
    <3> HIDE DEF U
    <3> QED
      BY <1>11, <2>1, Zenon
  <2>3. N[Depth - (Depth - d)] \subseteq RespValue
    BY <2>1, <2>2, Zenon
  <2> QED
    BY <2>1, <2>3, Zenon
<1> QED
  BY <1>1, <1>3, <1>8, <1>12, Zenon DEF N

\* serialize, over the values V.
Writes(f, V) == f = [v \in V |-> Wire(f, v)]

\* serialize is a function: from depth to depth, the bytes of an array follow
\* from those of its elements.
LEMMA WritesExist ==
  ASSUME NEW d \in 0..Depth
  PROVE  \E f : Writes(f, Nested[d])
<1> DEFINE T == {k \in Nat : k <= Depth => \E f : Writes(f, Nested[k])}
<1>0. Depth \in Nat
  BY RangeAssumption, Zenon
<1>1. 0 \in T
  <2> DEFINE f == [v \in Plain |-> Wire(0, v)]
  <2>1. ASSUME NEW v \in Plain PROVE Wire(f, v) = Wire(0, v)
    <3>1. v \in Deeper({})
      BY Zenon DEF Deeper
    <3> QED
      BY <3>1, WireLocal
  <2>2. f = [v \in Plain |-> Wire(f, v)]
    <3> DEFINE g == f
    <3>1. \A v \in Plain : Wire(g, v) = Wire(0, v)
      BY <2>1, Zenon
    <3>2. g = [v \in Plain |-> Wire(0, v)]
      BY Zenon
    <3> HIDE DEF g
    <3>3. g = [v \in Plain |-> Wire(g, v)]
      BY <3>1, <3>2, Zenon
    <3> QED
      BY <3>3, Zenon DEF g
  <2> HIDE DEF f
  <2>3. Writes(f, Nested[0])
    BY <2>2, NestedGrows, Zenon DEF Writes
  <2> QED
    BY <2>3, Zenon
<1>2. ASSUME NEW k \in T PROVE k + 1 \in T
  <2> SUFFICES ASSUME k + 1 <= Depth PROVE \E f : Writes(f, Nested[k + 1])
    OBVIOUS
  <2>1. k \in 0..Depth - 1 /\ k <= Depth
    BY <1>0
  <2>2. PICK f : Writes(f, Nested[k])
    BY <2>1, Zenon
  <2> DEFINE V == Nested[k]
             W == Nested[k + 1]
  <2>3. V \subseteq W /\ W = Deeper(V)
    BY <2>1, NestedGrows, Zenon
  <2>4. \A v \in V : f[v] = Wire(f, v)
    BY <2>2, Zenon DEF Writes
  <2> HIDE DEF V, W
  <2> DEFINE g == [v \in W |-> Wire(f, v)]
  <2>5. \A e \in V : g[e] = f[e]
    BY <2>3, <2>4, Zenon
  <2>6. g = [v \in W |-> Wire(f, v)]
    BY Zenon
  <2> HIDE DEF g
  <2>7. \A v \in W : Wire(g, v) = Wire(f, v)
    BY <2>3, <2>5, WireLocal
  <2>8. g = [v \in W |-> Wire(g, v)]
    BY <2>6, <2>7, Zenon
  <2>9. Writes(g, Nested[k + 1])
    BY <2>8, Zenon DEF Writes, W
  <2> QED
    BY <2>9, Zenon
<1>3. T = Nat
  <2>1. T \subseteq Nat
    BY Zenon
  <2> HIDE DEF T
  <2> QED
    BY <1>1, <1>2, <2>1, Induct, Zenon
<1> QED
  BY <1>0, <1>3

\* The model's serialize is that function, and gives bytes.
LEMMA SerializeIs ==
  /\ \A v \in RespValue : Serialize[v] = Wire(Serialize, v)
  /\ \A v \in RespValue : Serialize[v] \in Seq(Bytes) /\ Len(Serialize[v]) > 0
<1> DEFINE Is(f) == f = [v \in RespValue |-> Wire(f, v)]
           S == Serialize
<1>0. Depth \in Nat /\ Depth \in 0..Depth
  BY RangeAssumption
<1>1. \E f : Is(f)
  BY <1>0, WritesExist, Zenon DEF Writes, RespValue
<1>2. S = CHOOSE f : Is(f)
  BY Zenon DEF Serialize
<1>3. Is(S)
  <2> HIDE DEF Is, S
  <2> QED
    BY <1>1, <1>2, Zenon
<1>4. \A v \in RespValue : S[v] = Wire(S, v)
  <2> HIDE DEF S
  <2> QED
    BY <1>3, Zenon
<1> HIDE DEF S
<1> DEFINE T == {d \in Nat : d <= Depth => \A v \in Nested[d] : S[v] \in Seq(Bytes) /\ Len(S[v]) > 0}
<1>5. ASSUME NEW V, NEW W, V \subseteq RespValue, V \subseteq Deeper(W),
             \A e \in W : S[e] \in Seq(Bytes)
      PROVE  \A v \in V : S[v] \in Seq(Bytes) /\ Len(S[v]) > 0
  <2> SUFFICES ASSUME NEW v \in V PROVE S[v] \in Seq(Bytes) /\ Len(S[v]) > 0
    BY Zenon
  <2>1. v \in Deeper(W) /\ S[v] = Wire(S, v)
    BY <1>4, <1>5, Zenon
  <2>2. Wire(S, v) \in Seq(Bytes) /\ Len(Wire(S, v)) > 0
    BY <1>5, <2>1, WireTypes, Zenon
  <2> QED
    BY <2>1, <2>2, Zenon
<1>6. 0 \in T
  <2>1. Nested[0] \subseteq RespValue /\ Nested[0] \subseteq Deeper({})
    BY <1>0, NestedGrows DEF Deeper
  <2>2. \A v \in Nested[0] : S[v] \in Seq(Bytes) /\ Len(S[v]) > 0
    BY <1>5, <2>1
  <2> QED
    BY <2>2, Zenon
<1>7. ASSUME NEW d \in T PROVE d + 1 \in T
  <2> SUFFICES ASSUME d + 1 <= Depth
               PROVE  \A v \in Nested[d + 1] : S[v] \in Seq(Bytes) /\ Len(S[v]) > 0
    OBVIOUS
  <2>1. d \in 0..Depth - 1 /\ d + 1 \in 0..Depth /\ d <= Depth
    BY <1>0
  <2>2. Nested[d + 1] \subseteq RespValue /\ Nested[d + 1] = Deeper(Nested[d])
    BY <2>1, NestedGrows, Zenon
  <2>3. \A e \in Nested[d] : S[e] \in Seq(Bytes)
    BY <2>1, Zenon
  <2> QED
    BY <1>5, <2>2, <2>3
<1>8. T = Nat
  <2>1. T \subseteq Nat
    BY Zenon
  <2> HIDE DEF T
  <2> QED
    BY <1>6, <1>7, <2>1, Induct, Zenon
<1>9. \A v \in RespValue : S[v] \in Seq(Bytes) /\ Len(S[v]) > 0
  BY <1>0, <1>8 DEF RespValue
<1> QED
  BY <1>4, <1>9, Zenon DEF S

(***************************************************************************)
(* parse reads what serialize wrote.                                      *)
(***************************************************************************)
\* A type and a line.
LEMMA LineRead ==
  ASSUME NEW b \in Seq(Bytes), NEW d \in Nat, NEW c \in Types, NEW s \in Lines,
         Holds(b, <<c>> \o s \o CRLF, d), NEW f
  PROVE  ParseAt(b, f, d + 1) = Typed(b, f, c, s, d + Len(s) + 4)
<1> DEFINE u == <<c>> \o s \o CRLF
           e == d + Len(s) + 2
<1>0. s \in Seq(Bytes) /\ \A j \in 1..Len(s) : ~EndsAt(s, j)
  BY Zenon DEF Lines
<1>1. /\ Len(u) = Len(s) + 3 /\ u[1] = c /\ u[Len(s) + 2] = CR /\ u[Len(s) + 3] = LF
      /\ \A k \in 1..Len(s) : u[k + 1] = s[k]
  BY <1>0 DEF CRLF
<1>2. Len(s) \in Nat /\ Len(b) \in Nat
  BY <1>0
<1>3. Len(u) + d <= Len(b) /\ \A k \in 1..Len(u) : b[k + d] = u[k]
  BY Zenon DEF Holds
<1> HIDE DEF u
<1>4. b[d + 1] = c /\ b[e] = CR /\ b[e + 1] = LF /\ e + 1 <= Len(b) /\ e \in Nat
  <2>1. b[1 + d] = c
    BY <1>1, <1>2, <1>3
  <2>2. b[(Len(s) + 2) + d] = CR /\ b[(Len(s) + 3) + d] = LF
    BY <1>1, <1>2, <1>3
  <2>3. 1 + d = d + 1 /\ (Len(s) + 2) + d = e /\ (Len(s) + 3) + d = e + 1
    BY <1>2
  <2> QED
    BY <1>1, <1>2, <1>3, <2>1, <2>2, <2>3
<1>5. \A k \in 1..Len(s) : b[(d + 1) + k] = s[k]
  <2> SUFFICES ASSUME NEW k \in 1..Len(s) PROVE b[(d + 1) + k] = s[k]
    BY Zenon
  <2>1. k + 1 \in 1..Len(u) /\ (k + 1) + d = (d + 1) + k
    BY <1>1, <1>2
  <2> QED
    BY <1>1, <1>3, <2>1, Zenon
<1>6. EndsAt(b, e)
  BY <1>2, <1>4 DEF EndsAt
<1>7. ASSUME NEW k \in d + 2..e - 1 PROVE ~EndsAt(b, k)
  <2> DEFINE j == k - (d + 1)
  <2>1. j \in 1..Len(s) /\ (d + 1) + j = k
    BY <1>2
  <2>2. b[k] = s[j]
    BY <1>5, <2>1, Zenon
  <2>3. CASE j = Len(s)
    <3>1. k + 1 = e
      BY <1>2, <2>3
    <3>2. b[k + 1] = CR
      BY <1>4, <3>1, Zenon
    <3> QED
      BY <3>2, LineEndAssumption, Zenon DEF EndsAt
  <2>4. CASE j # Len(s)
    <3>1. j + 1 \in 1..Len(s) /\ (d + 1) + (j + 1) = k + 1 /\ j < Len(s)
      BY <1>2, <2>1, <2>4
    <3>2. ~EndsAt(s, j)
      BY <1>0, <2>1, Zenon
    <3> HIDE DEF j
    <3>3. b[(d + 1) + (j + 1)] = s[j + 1]
      BY <1>5, <3>1, Zenon
    <3>4. b[k + 1] = s[j + 1]
      BY <3>1, <3>3, Zenon
    <3> QED
      BY <2>2, <3>1, <3>2, <3>4, Zenon DEF EndsAt
  <2> QED
    BY <2>3, <2>4, Zenon
<1>8. LineEnd(b, d + 2) = e
  <2>1. d + 2 \in Nat \ {0} /\ e \in d + 2..Len(b)
    BY <1>2, <1>4
  <2> HIDE DEF e
  <2> QED
    BY <1>6, <1>7, <2>1, LineEndIs, Zenon
<1>9. SubSeq(b, d + 2, e - 1) = s
  BY <1>0, <1>2, <1>4, <1>5
<1>10. (d + 1) + 1 = d + 2 /\ ~(d + 1 > Len(b)) /\ e # 0 /\ e + 2 = d + Len(s) + 4
  BY <1>2, <1>4
<1> HIDE DEF e
<1>11. ParseAt(b, f, d + 1) = Typed(b, f, c, SubSeq(b, d + 2, e - 1), e + 2)
  BY <1>4, <1>8, <1>10, Zenon DEF ParseAt
<1> QED
  BY <1>9, <1>10, <1>11, Zenon

\* One element.
LEMMA ElementRead ==
  ASSUME NEW h, NEW a, NEW i, NEW v, NEW j, h[i] = Value(v, j)
  PROVE  Element(h, Value(a, i)) = Value(Append(a, v), j)
<1> DEFINE r == Value(a, i)
           x == Value(v, j)
<1>1. r.is = "value" /\ r.value = a /\ r.next = i /\ x.is = "value" /\ x.value = v /\ x.next = j
  BY Zenon DEF Value
<1> HIDE DEF r, x
<1>2. h[r.next] = x
  BY <1>1, Zenon DEF x
<1>3. Element(h, r) = Value(Append(r.value, x.value), x.next)
  BY <1>1, <1>2, Zenon DEF Element
<1> QED
  BY <1>1, <1>3, Zenon DEF r

\* f reads, at every place of b, the values V that g writes.
Reads(f, g, b, V) ==
    /\ \A e \in V : g[e] \in Seq(Bytes)
    /\ \A e \in V, k \in Nat : Holds(b, g[e], k) => f[k + 1] = Value(e, k + 1 + Len(g[e]))

\* f reads, behind the first d bytes, the elements s that g writes.
ReadsArray(f, g, s, d) ==
    Elements(f, d + 1, Len(s))[Len(s)] = Value(s, d + 1 + Len(Concat(Parts(g, s))))

\* The elements of an array.
LEMMA ElementsRead ==
  ASSUME NEW b \in Seq(Bytes), NEW V, NEW s \in Seq(V), NEW g, NEW f, NEW d \in Nat,
         Reads(f, g, b, V), Holds(b, Concat(Parts(g, s)), d)
  PROVE  ReadsArray(f, g, s, d)
<1> DEFINE p == Parts(g, s)
           C == Concats(p)
           n == Len(s)
           F == Elements(f, d + 1, n)
<1>0. /\ \A e \in V : g[e] \in Seq(Bytes)
      /\ \A e \in V, k \in Nat : Holds(b, g[e], k) => f[k + 1] = Value(e, k + 1 + Len(g[e]))
  BY Zenon DEF Reads
<1>1. p \in Seq(Seq(Bytes)) /\ Len(p) = n /\ n \in Nat /\ \A k \in 1..n : p[k] = g[s[k]] /\ s[k] \in V
  <2>1. n \in Nat /\ \A k \in 1..n : s[k] \in V
    OBVIOUS
  <2>2. p = [k \in 1..n |-> g[s[k]]]
    BY Zenon DEF Parts
  <2> HIDE DEF p, n
  <2>3. \A k \in 1..n : p[k] = g[s[k]] /\ g[s[k]] \in Seq(Bytes)
    BY <1>0, <2>1, <2>2, Zenon
  <2>4. p \in [1..n -> Seq(Bytes)]
    BY <2>2, <2>3, Zenon
  <2>5. p \in Seq(Seq(Bytes)) /\ Len(p) = n
    BY <2>1, <2>4
  <2> QED
    BY <2>1, <2>3, <2>5, Zenon
<1>2. F[0] = Value(<<>>, d + 1) /\ \A k \in 1..n : F[k] = Element(f, F[k - 1])
  <2>1. n \in Nat
    BY <1>1, Zenon
  <2> HIDE DEF n
  <2> QED
    BY <2>1, ElementsStep, Zenon
<1>3. /\ C[0] = <<>>
      /\ \A k \in 0..Len(p) : C[k] \in Seq(Bytes)
      /\ \A k \in 1..Len(p) : C[k] = C[k - 1] \o p[k] /\ Len(C[k]) = Len(C[k - 1]) + Len(p[k])
  BY <1>1, ConcatTypes, Zenon
<1>4. \A k \in 1..Len(p) : Holds(b, p[k], d + Len(C[k - 1]))
  BY <1>1, ConcatHolds, Zenon
<1>5. Concat(p) = C[Len(p)]
  BY Zenon DEF Concat
<1> HIDE DEF p, C, F, n
<1> DEFINE Read(k) == F[k] = Value(SubSeq(s, 1, k), d + 1 + Len(C[k]))
           T == {k \in Nat : k <= n => Read(k)}
<1>6. Read(0)
  <2>1. SubSeq(s, 1, 0) = <<>> /\ Len(C[0]) = 0
    BY <1>3
  <2>2. d + 1 + Len(C[0]) = d + 1
    BY <2>1
  <2> QED
    BY <1>2, <2>1, <2>2, Zenon
<1>7. ASSUME NEW k \in Nat, k + 1 <= n, Read(k) PROVE Read(k + 1)
  <2>1. k + 1 \in 1..n /\ (k + 1) - 1 = k /\ k \in 0..n
    BY <1>1, <1>7
  <2>2. F[k] = Value(SubSeq(s, 1, k), d + 1 + Len(C[k]))
    BY <1>7, Zenon
  <2> DEFINE e == s[k + 1]
             m == d + Len(C[k])
  <2>3. e \in V /\ p[k + 1] = g[e] /\ Holds(b, g[e], m)
    BY <1>1, <1>4, <2>1, Zenon
  <2> HIDE DEF e
  <2>4. Len(C[k]) \in Nat /\ Len(g[e]) \in Nat /\ Len(C[k + 1]) = Len(C[k]) + Len(g[e])
    <3>1. C[k] \in Seq(Bytes) /\ g[e] \in Seq(Bytes)
      BY <1>0, <1>1, <1>3, <2>1, <2>3, Zenon
    <3>2. Len(C[k + 1]) = Len(C[(k + 1) - 1]) + Len(p[k + 1])
      BY <1>1, <1>3, <2>1, Zenon
    <3>3. Len(C[k]) \in Nat /\ Len(g[e]) \in Nat
      BY <3>1
    <3>4. Len(C[k + 1]) = Len(C[k]) + Len(g[e])
      BY <2>1, <2>3, <3>2, Zenon
    <3> QED
      BY <3>3, <3>4, Zenon
  <2>5. m \in Nat /\ d + 1 + Len(C[k]) = m + 1 /\ d + 1 + Len(C[k + 1]) = m + 1 + Len(g[e])
    <3> DEFINE x == Len(C[k])
               y == Len(g[e])
               z == Len(C[k + 1])
    <3>1. x \in Nat /\ y \in Nat /\ z = x + y
      BY <2>4, Zenon
    <3> HIDE DEF x, y, z
    <3>2. d + x \in Nat /\ d + 1 + x = d + x + 1 /\ d + 1 + z = d + x + 1 + y
      BY <3>1
    <3> QED
      BY <3>2, Zenon DEF x, y, z
  <2> HIDE DEF m
  <2>6. f[m + 1] = Value(e, m + 1 + Len(g[e]))
    BY <1>0, <2>3, <2>5, Zenon
  <2>7. Append(SubSeq(s, 1, k), e) = SubSeq(s, 1, k + 1)
    BY <1>1, <2>1 DEF n, e
  <2>8. F[k + 1] = Element(f, Value(SubSeq(s, 1, k), m + 1))
    BY <1>2, <2>1, <2>2, <2>5, Zenon
  <2>9. F[k + 1] = Value(Append(SubSeq(s, 1, k), e), m + 1 + Len(g[e]))
    <3>1. Element(f, Value(SubSeq(s, 1, k), m + 1))
              = Value(Append(SubSeq(s, 1, k), e), m + 1 + Len(g[e]))
      BY <2>6, ElementRead
    <3> QED
      BY <2>8, <3>1, Zenon
  <2> QED
    BY <2>5, <2>7, <2>9, Zenon
<1> HIDE DEF Read
<1>8. T = Nat
  <2>1. T \subseteq Nat /\ 0 \in T
    BY <1>6, Zenon
  <2>2. \A k \in T : k + 1 \in T
    BY <1>1, <1>7
  <2> HIDE DEF T
  <2> QED
    BY <2>1, <2>2, Induct, Zenon
<1>9. F[n] = Value(SubSeq(s, 1, n), d + 1 + Len(C[n]))
  <2>1. Read(n)
    BY <1>1, <1>8
  <2> QED
    BY <2>1, Zenon DEF Read
<1>10. SubSeq(s, 1, n) = s
  BY DEF n
<1> QED
  BY <1>1, <1>5, <1>9, <1>10, Zenon DEF F, p, n, ReadsArray

\* The length of a null.
LEMMA MinusOne ==
  LET s == <<"-", "1">>
  IN  s \in Lines /\ IsNumber(s) /\ Number(s) = -1
<1> DEFINE s == <<"-", "1">>
           t == <<"1">>
<1>1. "1" = Digits[1 + 1] /\ 1 \in 0..9
  BY DEF Digits
<1>2. "1" \in Bytes /\ IsDigit("1")
  BY <1>1, DigitFacts, Zenon
<1>3. "-" \in Bytes
  BY Zenon DEF Bytes, Types
<1>4. s \in Seq(Bytes) /\ s # <<>> /\ s[1] = "-" /\ Tail(s) = t /\ Len(s) = 2 /\ s[2] = "1"
  BY <1>2, <1>3
<1>5. AllDigits(t)
  BY <1>2 DEF AllDigits
<1>6. <<>> \in Seq(Bytes) /\ <<>> \o <<"1">> = t
  BY <1>2
<1>7. Natural(t) = 1
  BY <1>1, <1>6, NaturalSnoc, ZenonT(40)
<1> HIDE DEF s, t
<1>8. Number(s) = -Natural(t)
  BY <1>4, Zenon DEF Number
<1>9. Number(s) = -1
  BY <1>7, <1>8, Zenon
<1>10. s \in Lines
  BY <1>2, <1>4, LineEndAssumption DEF Lines, EndsAt
<1>11. -1 \in Int64
  BY RangeAssumption DEF Int64
<1> QED
  BY <1>4, <1>5, <1>9, <1>10, <1>11, Zenon DEF IsNumber, s

\* Two strings, one behind the other.
LEMMA Joined ==
  ASSUME NEW s \in Seq(Bytes), NEW t \in Seq(Bytes)
  PROVE  /\ s \o t \in Seq(Bytes) /\ Len(s) \in Nat /\ Len(t) \in Nat
         /\ Len(s \o t) = Len(s) + Len(t)
OBVIOUS

\* Three strings.
LEMMA JoinedAgain ==
  ASSUME NEW s \in Seq(Bytes), NEW t \in Seq(Bytes), NEW u \in Seq(Bytes)
  PROVE  (s \o t) \o u = s \o (t \o u)
OBVIOUS

\* What is held is there to be copied.
LEMMA HoldsCopy ==
  ASSUME NEW b \in Seq(Bytes), NEW s \in Seq(Bytes), NEW d \in Nat, Holds(b, s, d)
  PROVE  SubSeq(b, d + 1, d + Len(s)) = s
<1> DEFINE m == d + 1
           n == d + Len(s)
           t == SubSeq(b, m, n)
<1>1. Len(s) + d <= Len(b) /\ \A k \in 1..Len(s) : b[k + d] = s[k]
  BY Zenon DEF Holds
<1>2. Len(s) \in Nat /\ Len(b) \in Nat
  OBVIOUS
<1>3. /\ m \in Nat \ {0} /\ n \in Nat /\ m <= n + 1 /\ n <= Len(b) /\ n - m + 1 = Len(s)
      /\ \A k \in 1..Len(s) : m + k - 1 = k + d
  BY <1>1, <1>2
<1> HIDE DEF m, n
<1>4. t \in Seq(Bytes) /\ Len(t) = Len(s) /\ \A k \in 1..Len(s) : t[k] = b[m + k - 1]
  <2>1. /\ SubSeq(b, m, n) \in Seq(Bytes) /\ Len(SubSeq(b, m, n)) = n - m + 1
        /\ \A k \in 1..n - m + 1 : SubSeq(b, m, n)[k] = b[m + k - 1]
    BY <1>3, Copied, Zenon
  <2> QED
    BY <1>3, <2>1, Zenon
<1> HIDE DEF t
<1>5. \A k \in 1..Len(t) : t[k] = s[k]
  BY <1>1, <1>3, <1>4, Zenon
<1>6. t = s
  BY <1>4, <1>5, SeqEqual, Zenon
<1> QED
  BY <1>6, Zenon DEF t, m, n

\* The bytes of a type and a line.
LEMMA LineBytes ==
  ASSUME NEW c \in Types, NEW s \in Seq(Bytes)
  PROVE  /\ <<c>> \o s \o CRLF \in Seq(Bytes)
         /\ Len(s) \in Nat
         /\ Len(<<c>> \o s \o CRLF) = Len(s) + 3
<1>1. CR \in Bytes /\ LF \in Bytes /\ c \in Bytes
  BY Zenon DEF Bytes
<1>2. CRLF \in Seq(Bytes) /\ Len(CRLF) = 2
  BY <1>1 DEF CRLF
<1> DEFINE t == <<c>> \o s
<1>3. t \in Seq(Bytes) /\ Len(t) = Len(s) + 1
  BY <1>1
<1> HIDE DEF t
<1>4. t \o CRLF \in Seq(Bytes) /\ Len(t \o CRLF) = Len(s) + 3 /\ Len(s) \in Nat
  <2>1. t \o CRLF \in Seq(Bytes) /\ Len(t \o CRLF) = Len(t) + Len(CRLF) /\ Len(s) \in Nat
    BY <1>2, <1>3, Joined, Zenon
  <2> QED
    BY <1>2, <1>3, <2>1
<1> QED
  BY <1>4, Zenon DEF t

\* The bytes of a bulk string.
LEMMA BulkRead ==
  ASSUME NEW b \in Seq(Bytes), NEW s \in Seq(Bytes), NEW d \in Nat, Holds(b, s \o CRLF, d)
  PROVE  BulkData(b, d + 1, Len(s)) = Value(BulkOf(s), d + 1 + Len(s \o CRLF))
<1>1. CRLF \in Seq(Bytes) /\ Len(CRLF) = 2
  <2>1. CR \in Bytes /\ LF \in Bytes
    BY Zenon DEF Bytes
  <2> QED
    BY <2>1 DEF CRLF
<1>2. Len(s \o CRLF) = Len(s) + 2
  BY <1>1, Joined, ZenonT(40)
<1>3. Holds(b, s, d)
  BY <1>1, HoldsSplit, Zenon
<1>4. SubSeq(b, d + 1, d + Len(s)) = s
  BY <1>3, HoldsCopy, Zenon
<1>5. (Len(s) + 2) + d <= Len(b) /\ Len(s) \in Nat /\ Len(b) \in Nat
  BY <1>2 DEF Holds
<1>6. ~((d + 1) + Len(s) + 1 > Len(b)) /\ (d + 1) + Len(s) - 1 = d + Len(s)
      /\ (d + 1) + Len(s) + 2 = d + 1 + (Len(s) + 2)
  BY <1>5
<1> QED
  BY <1>2, <1>4, <1>6, Zenon DEF BulkData

\* One value, when its elements are read.
LEMMA WireRead ==
  ASSUME NEW b \in Seq(Bytes), NEW V, NEW v \in Deeper(V), NEW g, NEW d \in Nat,
         Reads(Parsed(b), g, b, V), Holds(b, Wire(g, v), d)
  PROVE  Parsed(b)[d + 1] = Value(v, d + 1 + Len(Wire(g, v)))
<1> DEFINE f == Parsed(b)
           w == Wire(g, v)
<1>0. /\ CRLF \in Seq(Bytes) /\ Len(CRLF) = 2 /\ MaxCount \in Nat /\ IntMax \in Nat /\ MaxCount <= IntMax
      /\ Types \subseteq Bytes
  <2>1. CR \in Bytes /\ LF \in Bytes /\ Types \subseteq Bytes
    BY Zenon DEF Bytes
  <2> QED
    BY <2>1, RangeAssumption DEF CRLF
<1>1. Shape(v, V) /\ w \in Seq(Bytes) /\ Len(w) > 0
  BY Shapes, WireTypes, Zenon DEF Reads
<1>2. d + 1 \in 1..Len(b) + 1
  BY <1>1 DEF Holds
<1>3. f[d + 1] = ParseAt(b, f, d + 1)
  BY <1>2, ParsedIs, Zenon
<1>2a. Holds(b, w, d) /\ Reads(f, g, b, V)
  BY Zenon
<1>2b. /\ v = NullValue => w = <<"$", "-", "1">> \o CRLF
       /\ \A s : v = Simple(s) => w = <<"+">> \o s \o CRLF
       /\ \A s : v = Failure(s) => w = <<"-">> \o s \o CRLF
       /\ \A n : v = Integer(n) => w = <<":">> \o ToString(n) \o CRLF
       /\ \A s : v = BulkOf(s) => w = <<"$">> \o ToString(Len(s)) \o CRLF \o s \o CRLF
       /\ \A s : v = ArrayOf(s) => w = <<"*">> \o ToString(Len(s)) \o CRLF \o Concat(Parts(g, s))
  <2>1. /\ Wire(g, NullValue) = <<"$", "-", "1">> \o CRLF
        /\ \A s : Wire(g, Simple(s)) = <<"+">> \o s \o CRLF
        /\ \A s : Wire(g, Failure(s)) = <<"-">> \o s \o CRLF
    BY WireCases, Zenon
  <2>2. /\ \A n : Wire(g, Integer(n)) = <<":">> \o ToString(n) \o CRLF
        /\ \A s : Wire(g, BulkOf(s)) = <<"$">> \o ToString(Len(s)) \o CRLF \o s \o CRLF
        /\ \A s : Wire(g, ArrayOf(s)) = <<"*">> \o ToString(Len(s)) \o CRLF \o Concat(Parts(g, s))
    BY WireCases, Zenon
  <2> QED
    BY <2>1, <2>2, Zenon
<1> SUFFICES f[d + 1] = Value(v, d + 1 + Len(w))
  BY Zenon
<1> HIDE DEF f, w
<1>4. ASSUME NEW c \in Types, NEW s \in Lines, Holds(b, <<c>> \o s \o CRLF, d)
      PROVE  f[d + 1] = Typed(b, f, c, s, d + Len(s) + 4)
  BY <1>3, <1>4, LineRead, Zenon
<1>5. ASSUME NEW c \in Types, NEW s \in Lines
      PROVE  /\ <<c>> \o s \o CRLF \in Seq(Bytes)
             /\ Len(s) \in Nat
             /\ Len(<<c>> \o s \o CRLF) = Len(s) + 3
             /\ d + Len(s) + 4 = d + 1 + Len(<<c>> \o s \o CRLF)
  <2> DEFINE u == <<c>> \o s \o CRLF
  <2>1. s \in Seq(Bytes)
    BY Zenon DEF Lines
  <2>2. u \in Seq(Bytes) /\ Len(s) \in Nat /\ Len(u) = Len(s) + 3
    BY <2>1, LineBytes, Zenon
  <2> HIDE DEF u
  <2>3. d + Len(s) + 4 = d + 1 + Len(u)
    BY <2>2
  <2> QED
    BY <2>2, <2>3, Zenon DEF u
<1>6. CASE v = NullValue
  <2> DEFINE s == <<"-", "1">>
  <2>1. w = <<"$", "-", "1">> \o CRLF
    BY <1>6, <1>2b, Zenon
  <2>2. <<"$", "-", "1">> = <<"$">> \o s
    OBVIOUS
  <2>3. s \in Lines /\ IsNumber(s) /\ Number(s) = -1
    BY MinusOne, Zenon
  <2>4. "$" \in Types
    BY Zenon DEF Types
  <2> HIDE DEF s
  <2>5. w = <<"$">> \o s \o CRLF
    BY <2>1, <2>2, Zenon
  <2>6. f[d + 1] = Typed(b, f, "$", s, d + Len(s) + 4)
    BY <1>2a, <1>4, <2>3, <2>4, <2>5, Zenon
  <2>7. Typed(b, f, "$", s, d + Len(s) + 4) = Sized(b, f, "$", d + Len(s) + 4, -1)
    BY <2>3, Zenon DEF Typed
  <2>8. Sized(b, f, "$", d + Len(s) + 4, -1) = Value(NullValue, d + Len(s) + 4)
    BY <1>0 DEF Sized
  <2>9. d + Len(s) + 4 = d + 1 + Len(w)
    BY <1>5, <2>3, <2>4, <2>5, Zenon
  <2> QED
    BY <1>6, <2>6, <2>7, <2>8, <2>9, Zenon
<1>7. CASE v[2] \in Lines /\ v \in {Simple(v[2]), Failure(v[2])}
  <2> DEFINE s == v[2]
  <2>1. PICK c \in {"+", "-"} : v = IF c = "+" THEN Simple(s) ELSE Failure(s)
    BY <1>7, Zenon
  <2>2. w = <<c>> \o s \o CRLF
    <3>1. c = "+" => v = Simple(s)
      BY <2>1, Zenon
    <3>2. c = "-" => v = Failure(s)
      BY <2>1, Zenon
    <3> QED
      BY <1>2b, <3>1, <3>2, Zenon
  <2>3. c \in Types /\ s \in Lines
    BY <1>7, Zenon DEF Types
  <2> HIDE DEF s
  <2>4. f[d + 1] = Typed(b, f, c, s, d + Len(s) + 4)
    BY <1>2a, <1>4, <2>2, <2>3, Zenon
  <2>5. Typed(b, f, c, s, d + Len(s) + 4) = Value(v, d + Len(s) + 4)
    BY <2>1, Zenon DEF Typed
  <2>6. d + Len(s) + 4 = d + 1 + Len(w)
    BY <1>5, <2>2, <2>3, Zenon
  <2> QED
    BY <2>4, <2>5, <2>6, Zenon
<1>8. CASE v[2] \in Int64 /\ v = Integer(v[2])
  <2> DEFINE n == v[2]
             s == ToString(n)
  <2>1. w = <<":">> \o s \o CRLF
    BY <1>8, <1>2b, Zenon
  <2>2. s \in Lines /\ IsNumber(s) /\ Number(s) = n
    BY <1>8, ToStringFacts, Zenon
  <2>3. ":" \in Types
    BY Zenon DEF Types
  <2> HIDE DEF s, n
  <2>4. f[d + 1] = Typed(b, f, ":", s, d + Len(s) + 4)
    BY <1>2a, <1>4, <2>1, <2>2, <2>3, Zenon
  <2>5. Typed(b, f, ":", s, d + Len(s) + 4) = Value(Integer(n), d + Len(s) + 4)
    BY <2>2, Zenon DEF Typed
  <2>6. d + Len(s) + 4 = d + 1 + Len(w)
    BY <1>5, <2>1, <2>2, <2>3, Zenon
  <2> QED
    BY <1>8, <2>4, <2>5, <2>6, Zenon DEF n
<1>9. ASSUME NEW c \in {"$", "*"}, NEW n \in Nat, n <= IntMax, NEW t \in Seq(Bytes),
             w = <<c>> \o ToString(n) \o CRLF \o t
      PROVE  \E k \in Nat : /\ f[d + 1] = Sized(b, f, c, k + 1, n)
                            /\ Holds(b, t, k)
                            /\ k + 1 + Len(t) = d + 1 + Len(w)
  <2> DEFINE s == ToString(n)
             u == <<c>> \o s \o CRLF
  <2>1. n \in Int64
    BY <1>0, <1>9 DEF Int64
  <2>2. s \in Lines /\ IsNumber(s) /\ Number(s) = n
    BY <2>1, ToStringFacts, Zenon
  <2>3. c \in Types
    BY Zenon DEF Types
  <2> HIDE DEF s
  <2>4. u \in Seq(Bytes) /\ Len(u) = Len(s) + 3 /\ Len(s) \in Nat
    BY <1>5, <2>2, <2>3, Zenon
  <2>5. w = u \o t
    BY <1>9, Zenon DEF s
  <2> DEFINE uu == u
  <2>6. uu \in Seq(Bytes) /\ w = uu \o t /\ Len(uu) = Len(s) + 3
    BY <2>4, <2>5, Zenon
  <2> HIDE DEF uu
  <2>7. Holds(b, uu \o t, d)
    BY <1>2a, <2>6, Zenon
  <2>8. Holds(b, uu, d) /\ Holds(b, t, d + Len(uu))
    BY <2>6, <2>7, HoldsSplit, Zenon
  <2>9. d + Len(uu) = d + Len(s) + 3 /\ Len(w) = Len(s) + 3 + Len(t)
    <3>1. Len(w) = Len(uu) + Len(t) /\ Len(t) \in Nat
      BY <2>6, Joined, Zenon
    <3> QED
      BY <2>4, <2>6, <3>1
  <2>10. f[d + 1] = Typed(b, f, c, s, d + Len(s) + 4)
    BY <1>4, <2>2, <2>3, <2>8, Zenon DEF uu
  <2>11. Typed(b, f, c, s, d + Len(s) + 4) = Sized(b, f, c, d + Len(s) + 4, n)
    BY <2>2, Zenon DEF Typed
  <2> DEFINE k == d + Len(uu)
  <2>12. k \in Nat /\ k + 1 = d + Len(s) + 4 /\ k + 1 + Len(t) = d + 1 + Len(w)
    <3> DEFINE x == Len(uu)
               y == Len(s)
               z == Len(t)
               l == Len(w)
    <3>1. x = y + 3 /\ y \in Nat /\ z \in Nat /\ l = y + 3 + z
      BY <2>4, <2>6, <2>9
    <3> HIDE DEF x, y, z, l
    <3>2. d + x \in Nat /\ (d + x) + 1 = d + y + 4 /\ (d + x) + 1 + z = d + 1 + l
      BY <3>1
    <3> QED
      BY <3>2, Zenon DEF x, y, z, l
  <2> HIDE DEF k
  <2>13. f[d + 1] = Sized(b, f, c, k + 1, n) /\ Holds(b, t, k)
    BY <2>8, <2>10, <2>11, <2>12, Zenon DEF k
  <2> QED
    BY <2>12, <2>13, Zenon
<1>10. CASE v[2] \in Seq(Bytes) /\ Len(v[2]) <= IntMax /\ v = BulkOf(v[2])
  <2> DEFINE s == v[2]
             n == Len(s)
             t == s \o CRLF
  <2>1. w = <<"$">> \o ToString(n) \o CRLF \o s \o CRLF
    BY <1>10, <1>2b, Zenon
  <2>2. s \in Seq(Bytes) /\ n \in Nat /\ n <= IntMax /\ t \in Seq(Bytes) /\ Len(t) = n + 2
    <3>1. t \in Seq(Bytes) /\ Len(t) = n + Len(CRLF)
      BY <1>0, <1>10, Joined, Zenon
    <3> QED
      BY <1>0, <1>10, <3>1
  <2>3. ToString(n) \in Seq(Bytes)
    <3>1. n \in Int64
      BY <1>0, <2>2 DEF Int64
    <3> QED
      BY <3>1, ToStringFacts, Zenon DEF Lines
  <2>4. w = <<"$">> \o ToString(n) \o CRLF \o t
    <3> DEFINE x == <<"$">> \o ToString(n) \o CRLF
    <3>1. x \in Seq(Bytes)
      <4>1. "$" \in Bytes
        BY <1>0, Zenon DEF Types
      <4> QED
        BY <1>0, <2>3, <4>1
    <3>2. w = (x \o s) \o CRLF
      BY <2>1, Zenon
    <3> HIDE DEF x
    <3>3. (x \o s) \o CRLF = x \o (s \o CRLF)
      BY <1>0, <2>2, <3>1, JoinedAgain, Zenon
    <3> QED
      BY <3>2, <3>3, Zenon DEF x
  <2>5. PICK k \in Nat : /\ f[d + 1] = Sized(b, f, "$", k + 1, n)
                         /\ Holds(b, t, k) /\ k + 1 + Len(t) = d + 1 + Len(w)
    BY <1>9, <2>2, <2>4, Zenon
  <2>6. Sized(b, f, "$", k + 1, n) = BulkData(b, k + 1, n)
    BY <2>2 DEF Sized
  <2>7. BulkData(b, k + 1, n) = Value(BulkOf(s), k + 1 + Len(t))
    BY <2>2, <2>5, BulkRead, Zenon
  <2> HIDE DEF s, n, t
  <2> QED
    BY <1>10, <2>5, <2>6, <2>7, Zenon DEF s
<1>11. CASE v[2] \in Seq(V) /\ Len(v[2]) <= MaxCount /\ v = ArrayOf(v[2])
  <2> DEFINE s == v[2]
             n == Len(s)
             p == Parts(g, s)
             t == Concat(p)
  <2>1. w = <<"*">> \o ToString(n) \o CRLF \o t
    BY <1>11, <1>2b, Zenon
  <2>2. s \in Seq(V) /\ n \in Nat /\ n <= IntMax /\ n \in 0..MaxCount
    BY <1>0, <1>11
  <2>3. p \in Seq(Seq(Bytes))
    BY <1>2a, <1>11, SMTT(30) DEF Parts, Reads
  <2>4. t \in Seq(Bytes)
    <3> HIDE DEF p
    <3>1. \A k \in 0..Len(p) : Concats(p)[k] \in Seq(Bytes)
      BY <2>3, ConcatTypes, Zenon
    <3> QED
      BY <2>3, <3>1 DEF Concat
  <2>5. PICK k \in Nat : /\ f[d + 1] = Sized(b, f, "*", k + 1, n)
                         /\ Holds(b, t, k) /\ k + 1 + Len(t) = d + 1 + Len(w)
    BY <1>9, <2>1, <2>2, <2>4, Zenon
  <2>6. Sized(b, f, "*", k + 1, n) = ArrayData(f, k + 1, n)
    BY <1>0, <2>2 DEF Sized
  <2>7. Elements(f, k + 1, n)[n] = Value(s, k + 1 + Len(t))
    <3>1. ReadsArray(f, g, s, k)
      BY <1>2a, <2>2, <2>5, ElementsRead, Zenon
    <3> QED
      BY <3>1, Zenon DEF ReadsArray
  <2> HIDE DEF n, t, s
  <2>8. ArrayData(f, k + 1, n) = Value(ArrayOf(s), k + 1 + Len(t))
    BY <2>7, SMTT(30) DEF ArrayData, Value
  <2> QED
    BY <1>11, <2>5, <2>6, <2>8, Zenon DEF s
<1> QED
  BY <1>1, <1>6, <1>7, <1>8, <1>10, <1>11, Zenon DEF Shape

\* serialize and parse: wherever the bytes of a value are, parse reads the
\* value there, and goes on behind them.
LEMMA RoundTrip ==
  ASSUME NEW b \in Seq(Bytes)
  PROVE  Reads(Parsed(b), Serialize, b, RespValue)
<1> DEFINE S == Serialize
           f == Parsed(b)
           T == {d \in Nat : d <= Depth => Reads(f, S, b, Nested[d])}
<1>0. Depth \in Nat /\ Depth \in 0..Depth
  BY RangeAssumption
<1>1. /\ \A v \in RespValue : S[v] = Wire(S, v)
      /\ \A v \in RespValue : S[v] \in Seq(Bytes)
  BY SerializeIs, Zenon
<1>2. ASSUME NEW V, NEW W, W \subseteq RespValue, W \subseteq Deeper(V), Reads(Parsed(b), Serialize, b, V)
      PROVE  Reads(Parsed(b), Serialize, b, W)
  <2>1. ASSUME NEW v \in W, NEW d \in Nat, Holds(b, S[v], d)
        PROVE  f[d + 1] = Value(v, d + 1 + Len(S[v]))
    <3>1. v \in Deeper(V) /\ S[v] = Wire(S, v)
      BY <1>1, <1>2, Zenon
    <3>2. Holds(b, Wire(S, v), d)
      BY <2>1, <3>1, Zenon
    <3>3. f[d + 1] = Value(v, d + 1 + Len(Wire(S, v)))
      BY <1>2, <3>1, <3>2, WireRead, Zenon
    <3> QED
      BY <3>1, <3>3, Zenon
  <2> HIDE DEF S, f
  <2>2. \A v \in W : S[v] \in Seq(Bytes)
    BY <1>1, <1>2, Zenon
  <2>3. Reads(f, S, b, W)
    BY <2>1, <2>2, Zenon DEF Reads
  <2> QED
    BY <2>3, Zenon DEF f, S
<1>3. 0 \in T
  <2>1. Nested[0] \subseteq RespValue /\ Nested[0] \subseteq Deeper({})
    BY <1>0, NestedGrows DEF Deeper
  <2>2. Reads(f, S, b, {})
    BY Zenon DEF Reads
  <2>3. Reads(f, S, b, Nested[0])
    BY <1>2, <2>1, <2>2, Zenon
  <2> QED
    BY <2>3, Zenon
<1>4. ASSUME NEW d \in T PROVE d + 1 \in T
  <2> SUFFICES ASSUME d + 1 <= Depth PROVE Reads(f, S, b, Nested[d + 1])
    OBVIOUS
  <2>1. d \in 0..Depth - 1 /\ d + 1 \in 0..Depth /\ d <= Depth
    BY <1>0
  <2>2. Nested[d + 1] \subseteq RespValue /\ Nested[d + 1] \subseteq Deeper(Nested[d])
    BY <2>1, NestedGrows, Zenon
  <2>3. Reads(f, S, b, Nested[d])
    BY <2>1, Zenon
  <2> QED
    BY <1>2, <2>2, <2>3, Zenon
<1>5. T = Nat
  <2>1. T \subseteq Nat
    BY Zenon
  <2> HIDE DEF T
  <2> QED
    BY <1>3, <1>4, <2>1, Induct, Zenon
<1>6. Reads(f, S, b, Nested[Depth])
  BY <1>0, <1>5
<1> QED
  BY <1>6, Zenon DEF RespValue

(***************************************************************************)
(* The bytes of several values.                                           *)
(***************************************************************************)
\* Where each of the values begins and ends.
LEMMA StreamFacts ==
  ASSUME NEW s \in Seq(RespValue)
  PROVE  LET f == Stream(s)
         IN  /\ f[0] = <<>> /\ SerializeAll(s) = f[Len(s)]
             /\ \A k \in 0..Len(s) : f[k] \in Seq(Bytes)
             /\ \A k \in 1..Len(s) : Len(f[k]) = Len(f[k - 1]) + Len(Serialize[s[k]])
             /\ \A b \in Seq(Bytes) : Holds(b, SerializeAll(s), 0) =>
                    \A k \in 1..Len(s) : Holds(b, Serialize[s[k]], Len(f[k - 1]))
<1> DEFINE p == [k \in 1..Len(s) |-> Serialize[s[k]]]
           f == Stream(s)
<1>1. \A v \in RespValue : Serialize[v] \in Seq(Bytes)
  BY SerializeIs, Zenon
<1>2. p \in Seq(Seq(Bytes)) /\ Len(p) = Len(s) /\ \A k \in 1..Len(s) : p[k] = Serialize[s[k]]
  BY <1>1
<1>3. f = Concats(p) /\ SerializeAll(s) = f[Len(s)]
  BY Zenon DEF Stream, SerializeAll
<1> HIDE DEF p, f
<1>4. /\ Concats(p)[0] = <<>>
      /\ \A k \in 0..Len(p) : Concats(p)[k] \in Seq(Bytes)
      /\ \A k \in 1..Len(p) : /\ Concats(p)[k] = Concats(p)[k - 1] \o p[k]
                              /\ Len(Concats(p)[k]) = Len(Concats(p)[k - 1]) + Len(p[k])
  BY <1>2, ConcatTypes, Zenon
<1>5. Concat(p) = SerializeAll(s)
  BY <1>2, <1>3, Zenon DEF Concat
<1>6. ASSUME NEW b \in Seq(Bytes), Holds(b, SerializeAll(s), 0), NEW k \in 1..Len(s)
      PROVE  Holds(b, Serialize[s[k]], Len(f[k - 1]))
  <2>1. Holds(b, Concat(p), 0) /\ 0 \in Nat
    BY <1>5, <1>6, Zenon
  <2>2. \A j \in 1..Len(p) : Holds(b, p[j], 0 + Len(Concats(p)[j - 1]))
    BY <1>2, <2>1, ConcatHolds, Zenon
  <2>3. k - 1 \in 0..Len(p) /\ k \in 1..Len(p)
    BY <1>2
  <2>4. Len(f[k - 1]) \in Nat
    BY <1>3, <1>4, <2>3
  <2>5. Holds(b, p[k], 0 + Len(f[k - 1]))
    BY <1>3, <2>2, <2>3, Zenon
  <2>6. 0 + Len(f[k - 1]) = Len(f[k - 1])
    BY <2>4
  <2> QED
    BY <1>2, <2>5, <2>6, Zenon
<1>7. /\ f[0] = <<>>
      /\ \A k \in 0..Len(s) : f[k] \in Seq(Bytes)
      /\ \A k \in 1..Len(s) : Len(f[k]) = Len(f[k - 1]) + Len(Serialize[s[k]])
  BY <1>2, <1>3, <1>4, Zenon
<1> QED
  BY <1>3, <1>6, <1>7, Zenon DEF f

\* A stream of more values is not shorter.
LEMMA StreamGrows ==
  ASSUME NEW s \in Seq(RespValue), NEW i \in 0..Len(s), NEW j \in i..Len(s)
  PROVE  Len(Stream(s)[i]) <= Len(Stream(s)[j])
<1> DEFINE f == Stream(s)
           T == {m \in Nat : i + m <= Len(s) => Len(f[i]) <= Len(f[i + m])}
<1>0. Len(s) \in Nat
  OBVIOUS
<1>1. /\ \A k \in 0..Len(s) : f[k] \in Seq(Bytes)
      /\ \A k \in 1..Len(s) : Len(f[k]) = Len(f[k - 1]) + Len(Serialize[s[k]])
  BY StreamFacts, Zenon
<1>2. \A k \in 1..Len(s) : Len(Serialize[s[k]]) \in Nat
  BY SerializeIs
<1> HIDE DEF f
<1>3. \A k \in 0..Len(s) : Len(f[k]) \in Nat
  BY <1>1
<1>4. 0 \in T
  BY <1>3
<1>5. ASSUME NEW m \in T PROVE m + 1 \in T
  <2> SUFFICES ASSUME i + (m + 1) <= Len(s) PROVE Len(f[i]) <= Len(f[i + (m + 1)])
    OBVIOUS
  <2> DEFINE k == i + (m + 1)
  <2>1. m \in Nat /\ k \in 1..Len(s) /\ k - 1 = i + m /\ i + m \in 0..Len(s) /\ i + m <= Len(s)
    BY <1>0
  <2>2. Len(f[i]) <= Len(f[i + m])
    BY <2>1, Zenon
  <2> HIDE DEF k
  <2>3. Len(f[k]) = Len(f[i + m]) + Len(Serialize[s[k]])
    BY <1>1, <2>1, Zenon
  <2>4. Len(f[i]) <= Len(f[k])
    <3> DEFINE x == Len(f[i])
               y == Len(f[i + m])
               z == Len(Serialize[s[k]])
    <3>1. x \in Nat /\ y \in Nat /\ z \in Nat /\ x <= y /\ Len(f[k]) = y + z
      BY <1>2, <1>3, <2>1, <2>2, <2>3, Zenon
    <3> HIDE DEF x, y, z
    <3>2. x <= y + z
      BY <3>1
    <3> QED
      BY <3>1, <3>2, Zenon DEF x
  <2> QED
    BY <2>4, Zenon DEF k
<1>6. T = Nat
  <2>1. T \subseteq Nat
    BY Zenon
  <2> HIDE DEF T
  <2> QED
    BY <1>4, <1>5, <2>1, Induct, Zenon
<1>7. j - i \in Nat /\ i + (j - i) = j
  BY <1>0
<1>8. Len(f[i]) <= Len(f[i + (j - i)])
  <2>1. j - i \in T
    <3> HIDE DEF T
    <3> QED
      BY <1>6, <1>7, Zenon
  <2> QED
    BY <1>7, <2>1
<1> QED
  BY <1>7, <1>8, Zenon DEF f

(***************************************************************************)
(* The parser between two calls of feed.                                  *)
(***************************************************************************)
\* b is a part of the stream c, behind its first o bytes, and those are the k
\* values os that parsing all of c at once begins with.
Sees(c, b, o, k, os) ==
    /\ c \in Seq(Bytes) /\ b \in Seq(Bytes) /\ o \in Nat /\ k \in 0..o
    /\ Holds(c, b, o)
    /\ Batches(c)[k] = [out |-> os, at |-> o + 1, is |-> "value"]

\* What a call of parse on b then comes to.
Feeds(c, b, o, k, os) ==
    LET r == Parse(b, 1)
    IN  /\ r.is \in {"value", "more", "throw"}
        /\ r.is = "value" =>
               /\ r.next \in 2..Len(b) + 1
               /\ Parse(c, o + 1) = Value(r.value, r.next + o)
               /\ Sees(c, SubSeq(b, r.next, Len(b)), o + (r.next - 1), k + 1, Append(os, r.value))
        /\ k + 1 \in 1..Len(c) + 1
        /\ r.is = "throw" => /\ Parse(c, o + 1) = Throw
                             /\ Batches(c)[k + 1] = [out |-> os, at |-> o + 1, is |-> "throw"]
        /\ r.is = "more" /\ Len(b) + o = Len(c) =>
               Batches(c)[k + 1] = [out |-> os, at |-> o + 1, is |-> "more"]

\* One call of parse on what has arrived is one on the whole stream, unless it
\* waits for bytes that are still to come.
LEMMA FeedSees ==
  ASSUME NEW c, NEW b, NEW o, NEW k, NEW os, Sees(c, b, o, k, os)
  PROVE  Feeds(c, b, o, k, os)
<1> DEFINE r == Parse(b, 1)
           q == Parse(c, o + 1)
           whole == (Len(b) + o = Len(c))
           prev == [out |-> os, at |-> o + 1, is |-> "value"]
<1>1. /\ c \in Seq(Bytes) /\ b \in Seq(Bytes) /\ o \in Nat /\ k \in 0..o
      /\ Holds(c, b, o) /\ Batches(c)[k] = prev
  BY Zenon DEF Sees
<1>2. /\ Len(b) \in Nat /\ Len(c) \in Nat /\ Len(b) + o <= Len(c)
      /\ k + 1 \in 1..Len(c) + 1 /\ (k + 1) - 1 = k /\ 1 \in 1..Len(b) + 1
  BY <1>1, SMTT(30) DEF Holds
<1>3. Within(b, 2, r)
  <2>1. \A i \in 1..Len(b) + 1 : Within(b, i + 1, Parsed(b)[i])
    BY <1>1, ParsedIs, Zenon
  <2>2. Within(b, 1 + 1, r) /\ 1 + 1 = 2
    BY <1>2, <2>1 DEF Parse
  <2> QED
    BY <2>2, Zenon
<1>4. Moved(r, q, o, whole)
  <2>1. whole \in BOOLEAN /\ (whole => Len(b) + o = Len(c))
    BY Zenon
  <2> HIDE DEF whole
  <2>2. Moved(Parse(b, 1), Parse(c, 1 + o), o, whole)
    BY <1>1, <1>2, <2>1, ParseMoved, Zenon
  <2>3. 1 + o = o + 1
    BY <1>1, SMTT(30)
  <2> QED
    BY <2>2, <2>3, Zenon
<1>5. Batches(c)[k + 1] = Again(c, prev)
  <2>1. \A j \in 1..Len(c) + 1 : Batches(c)[j] = Again(c, Batches(c)[j - 1])
    BY <1>2, BatchesStep, Zenon
  <2> QED
    BY <1>1, <1>2, <2>1, Zenon
<1>6. Again(c, prev) = IF q.is # "value" THEN [out |-> os, at |-> o + 1, is |-> q.is]
                       ELSE [out |-> Append(os, q.value), at |-> q.next, is |-> "value"]
  BY DEF Again
<1> HIDE DEF r, q, prev
<1>7. r.is \in {"value", "more", "throw"}
  BY <1>3 DEF Within, Value, More, Throw
<1>8. ASSUME r.is = "throw"
      PROVE  q = Throw /\ Batches(c)[k + 1] = [out |-> os, at |-> o + 1, is |-> "throw"]
  <2>1. q = Throw /\ q.is = "throw"
    BY <1>4, <1>8 DEF Moved, Throw
  <2> QED
    BY <1>5, <1>6, <2>1, Zenon
<1>9. ASSUME r.is = "more", Len(b) + o = Len(c)
      PROVE  Batches(c)[k + 1] = [out |-> os, at |-> o + 1, is |-> "more"]
  <2>1. q.is = "more"
    BY <1>4, <1>9 DEF Moved, More
  <2> QED
    BY <1>5, <1>6, <2>1, Zenon
<1>10. ASSUME r.is = "value"
       PROVE  /\ r.next \in 2..Len(b) + 1
              /\ q = Value(r.value, r.next + o)
              /\ Sees(c, SubSeq(b, r.next, Len(b)), o + (r.next - 1), k + 1, Append(os, r.value))
  <2>1. r.next \in 2..Len(b) + 1
    BY <1>3, <1>10 DEF Within, More, Throw
  <2>2. q = Value(r.value, r.next + o)
    BY <1>4, <1>10, Zenon DEF Moved
  <2>3. q.is = "value" /\ q.value = r.value /\ q.next = r.next + o
    BY <2>2, Zenon DEF Value
  <2> DEFINE n == r.next
             t == SubSeq(b, n, Len(b))
  <2>4. n \in 2..Len(b) + 1
    BY <2>1, Zenon
  <2>5. Batches(c)[k + 1] = [out |-> Append(os, r.value), at |-> n + o, is |-> "value"]
    BY <1>5, <1>6, <2>3, Zenon
  <2> HIDE DEF n
  <2>6. t \in Seq(Bytes) /\ Len(t) = Len(b) - n + 1 /\ \A j \in 1..Len(t) : t[j] = b[j + n - 1]
    <3>1. n \in Nat \ {0} /\ n <= Len(b) + 1 /\ \A j : j \in Int => n + j - 1 = j + n - 1
      BY <1>2, <2>4
    <3>2. /\ t \in Seq(Bytes) /\ Len(t) = Len(b) - n + 1
          /\ \A j \in 1..Len(b) - n + 1 : t[j] = b[n + j - 1]
      <4> DEFINE z == Len(b)
      <4>1. b \in Seq(Bytes) /\ z \in Nat /\ n \in Nat \ {0} /\ n <= z + 1 /\ z <= Len(b)
        BY <1>1, <1>2, <3>1
      <4> HIDE DEF z
      <4>2. /\ SubSeq(b, n, z) \in Seq(Bytes) /\ Len(SubSeq(b, n, z)) = z - n + 1
            /\ \A j \in 1..z - n + 1 : SubSeq(b, n, z)[j] = b[n + j - 1]
        BY <4>1, Copied, Zenon
      <4> QED
        BY <4>2, Zenon DEF z
    <3>3. \A j \in 1..Len(t) : j \in Int
      OBVIOUS
    <3> QED
      BY <3>1, <3>2, <3>3, Zenon
  <2> HIDE DEF t
  <2>7. Holds(c, t, o + (n - 1))
    <3>0. /\ Len(t) = Len(b) - n + 1 /\ Len(b) \in Nat /\ Len(c) \in Nat /\ o \in Nat
          /\ Len(b) + o <= Len(c)
      BY <1>1, <1>2, <2>6, Zenon
    <3>1. \A j \in 1..Len(b) : c[j + o] = b[j]
      BY <1>1, Zenon DEF Holds
    <3>2. ASSUME NEW j \in 1..Len(t) PROVE c[j + (o + (n - 1))] = t[j]
      <4>1. j + n - 1 \in 1..Len(b) /\ (j + n - 1) + o = j + (o + (n - 1))
        BY <2>4, <3>0
      <4> QED
        BY <2>6, <3>1, <4>1, Zenon
    <3>3. Len(t) + (o + (n - 1)) <= Len(c)
      BY <2>4, <3>0
    <3> QED
      BY <3>2, <3>3, Zenon DEF Holds
  <2>8. o + (n - 1) \in Nat /\ k + 1 \in 0..o + (n - 1) /\ n + o = (o + (n - 1)) + 1
    BY <1>1, <1>2, <2>4
  <2>9. Sees(c, t, o + (n - 1), k + 1, Append(os, r.value))
    BY <1>1, <2>5, <2>6, <2>7, <2>8, Zenon DEF Sees
  <2> QED
    BY <2>1, <2>2, <2>9, Zenon DEF t, n
<1> QED
  BY <1>2, <1>7, <1>8, <1>9, <1>10, Zenon DEF Feeds, r, q

\* Once parsing all of the stream has come to an end, more calls change nothing.
LEMMA BatchStays ==
  ASSUME NEW c \in Seq(Bytes), NEW k \in 0..Len(c) + 1, Batches(c)[k].is # "value"
  PROVE  Batch(c) = Batches(c)[k]
<1> DEFINE f == Batches(c)
           n == Len(c) + 1
           T == {m \in Nat : k + m <= n => f[k + m] = f[k]}
<1>0. n \in Nat /\ k \in 0..n
  OBVIOUS
<1>1. \A j \in 1..n : f[j] = Again(c, f[j - 1])
  BY BatchesStep
<1>2. Batch(c) = f[n] /\ f[k].is # "value"
  BY Zenon DEF Batch
<1> HIDE DEF f, n
<1>3. 0 \in T
  BY <1>0
<1>4. ASSUME NEW m \in T PROVE m + 1 \in T
  <2> SUFFICES ASSUME k + (m + 1) <= n PROVE f[k + (m + 1)] = f[k]
    OBVIOUS
  <2>1. m \in Nat /\ k + (m + 1) \in 1..n /\ (k + (m + 1)) - 1 = k + m /\ k + m <= n
    BY <1>0
  <2>2. f[k + (m + 1)] = Again(c, f[k + m]) /\ f[k + m] = f[k]
    BY <1>1, <2>1, Zenon
  <2> QED
    BY <1>2, <2>2, Zenon DEF Again
<1>5. T = Nat
  <2>1. T \subseteq Nat
    BY Zenon
  <2> HIDE DEF T
  <2> QED
    BY <1>3, <1>4, <2>1, Induct, Zenon
<1>6. n - k \in Nat /\ k + (n - k) = n
  BY <1>0
<1>7. n - k \in T
  <2> HIDE DEF T
  <2> QED
    BY <1>5, <1>6, Zenon
<1>8. f[k + (n - k)] = f[k]
  BY <1>6, <1>7
<1> QED
  BY <1>2, <1>6, <1>8, Zenon DEF f

\* The stream c is that of the values s; its first o bytes are those of the
\* first k of them, and these are os.
Sends(s, c, o, k, os) ==
    /\ s \in Seq(RespValue) /\ c = SerializeAll(s) /\ k \in 0..Len(s)
    /\ os = SubSeq(s, 1, k) /\ o = Len(Stream(s)[k])

\* What a call of parse on b then comes to.
Delivers(s, c, b, o, k, os) ==
    LET r == Parse(b, 1)
    IN  /\ r.is # "throw"
        /\ r.is = "value" => Sends(s, c, o + (r.next - 1), k + 1, Append(os, r.value))
        /\ r.is = "more" => \A j \in 0..Len(s) : Len(Stream(s)[j]) <= o + Len(b) => j <= k

\* One call of parse on the bytes of values: it gives the next of them, or
\* waits because that has not arrived.
LEMMA FeedSent ==
  ASSUME NEW s, NEW c, NEW b, NEW o, NEW k, NEW os, Sees(c, b, o, k, os), Sends(s, c, o, k, os)
  PROVE  Delivers(s, c, b, o, k, os)
<1> DEFINE r == Parse(b, 1)
           q == Parse(c, o + 1)
           f == Stream(s)
<1>1. /\ c \in Seq(Bytes) /\ b \in Seq(Bytes) /\ o \in Nat /\ Holds(c, b, o)
      /\ Len(b) \in Nat /\ Len(c) \in Nat /\ Len(b) + o <= Len(c)
  BY SMTT(30) DEF Sees, Holds
<1>2. /\ s \in Seq(RespValue) /\ c = SerializeAll(s) /\ k \in 0..Len(s)
      /\ os = SubSeq(s, 1, k) /\ o = Len(f[k]) /\ Len(s) \in Nat
  BY DEF Sends
<1>3. /\ r.is \in {"value", "more", "throw"}
      /\ r.is = "value" => r.next \in 2..Len(b) + 1 /\ q = Value(r.value, r.next + o)
      /\ r.is = "throw" => q = Throw
  <2>1. Feeds(c, b, o, k, os)
    BY FeedSees, Zenon
  <2> QED
    BY <2>1, Zenon DEF Feeds
<1>4. /\ SerializeAll(s) = f[Len(s)]
      /\ \A j \in 0..Len(s) : f[j] \in Seq(Bytes)
      /\ \A j \in 1..Len(s) : Len(f[j]) = Len(f[j - 1]) + Len(Serialize[s[j]])
      /\ \A a \in Seq(Bytes) : Holds(a, SerializeAll(s), 0) =>
             \A j \in 1..Len(s) : Holds(a, Serialize[s[j]], Len(f[j - 1]))
  BY <1>2, StreamFacts, Zenon
<1>5. CASE k = Len(s)
  <2>1. o = Len(c) /\ Len(b) = 0
    BY <1>1, <1>2, <1>4, <1>5, SMTT(30)
  <2>2. 1 \in 1..Len(b) + 1 /\ 1 > Len(b)
    BY <2>1
  <2>3. Parsed(b)[1] = ParseAt(b, Parsed(b), 1)
    BY <1>1, <2>2, ParsedIs, Zenon
  <2>4. r = More
    BY <2>2, <2>3, Zenon DEF Parse, ParseAt
  <2>5. r.is = "more"
    BY <2>4 DEF More
  <2> QED
    BY <1>2, <1>5, <2>5, SMTT(30) DEF Delivers
<1>6. CASE k # Len(s)
  <2> DEFINE v == s[k + 1]
             w == Serialize[v]
  <2>1. k + 1 \in 1..Len(s) /\ (k + 1) - 1 = k /\ k \in Nat
    BY <1>2, <1>6
  <2>2. v \in RespValue
    BY <1>2, <2>1
  <2>3. w \in Seq(Bytes)
    BY <2>2, SerializeIs, Zenon
  <2>4. Len(f[k + 1]) = o + Len(w)
    BY <1>2, <1>4, <2>1, Zenon
  <2>5. Holds(c, w, o)
    <3>1. Holds(c, c, 0)
      BY <1>1, SMTT(30) DEF Holds
    <3>2. Holds(c, Serialize[s[k + 1]], Len(f[(k + 1) - 1]))
      BY <1>1, <1>2, <1>4, <2>1, <3>1, Zenon
    <3> QED
      BY <1>2, <2>1, <3>2, Zenon
  <2>6. ASSUME NEW a \in Seq(Bytes), NEW i \in Nat, Holds(a, w, i)
        PROVE  Parse(a, i + 1) = Value(v, i + 1 + Len(w))
    BY <2>2, <2>6, RoundTrip, Zenon DEF Reads, Parse
  <2> HIDE DEF v, w, r
  <2>7. q = Value(v, o + 1 + Len(w)) /\ Len(w) \in Nat
    BY <1>1, <2>3, <2>5, <2>6
  <2> HIDE DEF q
  <2>8. r.is # "throw"
    BY <1>3, <2>7, Zenon DEF Value, Throw
  <2>9. ASSUME r.is = "value" PROVE Sends(s, c, o + (r.next - 1), k + 1, Append(os, r.value))
    <3>1. q = Value(r.value, r.next + o) /\ r.next \in 2..Len(b) + 1
      BY <1>3, <2>9, Zenon
    <3>2. r.value = v /\ r.next + o = o + 1 + Len(w)
      BY <2>7, <3>1 DEF Value
    <3> DEFINE n == r.next
    <3>3. n + o = o + 1 + Len(w) /\ n \in 2..Len(b) + 1
      BY <3>1, <3>2, Zenon
    <3> HIDE DEF n
    <3>4. o + (n - 1) = o + Len(w)
      BY <1>1, <2>7, <3>3
    <3>5. Append(SubSeq(s, 1, k), s[k + 1]) = SubSeq(s, 1, k + 1)
      BY <1>2, <2>1
    <3>6. k + 1 \in 0..Len(s) /\ Append(os, r.value) = SubSeq(s, 1, k + 1)
      BY <1>2, <2>1, <3>2, <3>5 DEF v
    <3>7. o + (r.next - 1) = Len(f[k + 1])
      BY <2>4, <3>4, Zenon DEF n
    <3> QED
      BY <1>2, <3>6, <3>7, Zenon DEF Sends
  <2>10. ASSUME r.is = "more", NEW j \in 0..Len(s), Len(f[j]) <= o + Len(b) PROVE j <= k
    <3> SUFFICES ASSUME ~(j <= k) PROVE FALSE
      BY Zenon
    <3>1. k + 1 \in 0..Len(s) /\ j \in k + 1..Len(s)
      BY <1>2, <2>1
    <3>2. Len(f[k + 1]) <= Len(f[j])
      BY <1>2, <3>1, StreamGrows, Zenon
    <3> DEFINE x == Len(f[k + 1])
               y == Len(f[j])
    <3>3. x = o + Len(w) /\ x <= y /\ y <= o + Len(b) /\ y \in Nat
      BY <1>4, <2>4, <2>10, <3>2, SMTT(30)
    <3> HIDE DEF x, y
    <3>4. Len(w) <= Len(b)
      BY <1>1, <2>7, <3>3
    <3>5. Holds(b, w, 0)
      <4>1. ASSUME NEW i \in 1..Len(w) PROVE b[i + 0] = w[i]
        <5>1. i \in 1..Len(b) /\ i + 0 = i
          BY <1>1, <2>7, <3>4
        <5>2. c[i + o] = b[i] /\ c[i + o] = w[i]
          BY <1>1, <2>5, <5>1, Zenon DEF Holds
        <5> QED
          BY <5>1, <5>2, Zenon
      <4>2. Len(w) + 0 <= Len(b)
        BY <2>7, <3>4
      <4> QED
        BY <4>1, <4>2, Zenon DEF Holds
    <3>6. r = Value(v, 0 + 1 + Len(w))
      <4>1. Parse(b, 0 + 1) = Value(v, 0 + 1 + Len(w)) /\ 0 + 1 = 1
        BY <1>1, <2>6, <3>5
      <4> QED
        BY <4>1, Zenon DEF r
    <3> QED
      BY <2>10, <3>6, Zenon DEF Value
  <2> QED
    BY <2>8, <2>9, <2>10, Zenon DEF Delivers, r
<1> QED
  BY <1>5, <1>6, Zenon

\* b holds the bytes of the stream behind its first o, t the ones behind b; the
\* first o are those of the k values os, and if the stream was made of values s,
\* of the first k of these.
Decoded(s, c, b, t, os, o, k) ==
    /\ Sees(c, b, o, k, os)
    /\ t \in Seq(Bytes) /\ o + Len(b) + Len(t) = Len(c) /\ Holds(c, t, o + Len(b))
    /\ s # <<>> => Sends(s, c, o, k, os)

(***************************************************************************)
(* The inductive invariant: the buffer begins where the values given back *)
(* end, these are the ones that parsing the stream at once begins with,   *)
(* and between two chunks the buffer holds no whole value.                *)
(***************************************************************************)
Inv ==
    /\ sent \in Seq(RespValue) /\ input \in Seq(Bytes)
    /\ loop \in {"idle", "drain", "threw"}
    /\ loop = "threw" =>
           /\ sent = <<>>
           /\ \E k \in 0..Len(input) + 1 : Batches(input)[k].is = "throw" /\ Batches(input)[k].out = out
    /\ loop # "threw" => \E o, k \in 0..Len(input) : Decoded(sent, input, buf, rest, out, o, k)
    /\ loop = "idle" => Parse(buf, 1).is = "more"

\* A chunk moves from the rest of the stream to the buffer.
LEMMA ChunkArrives ==
  ASSUME NEW s, NEW c, NEW b, NEW t, NEW os, NEW o, NEW k, Decoded(s, c, b, t, os, o, k),
         NEW n \in 1..Len(t)
  PROVE  Decoded(s, c, b \o SubSeq(t, 1, n), SubSeq(t, n + 1, Len(t)), os, o, k)
<1> DEFINE x == SubSeq(t, 1, n)
           y == SubSeq(t, n + 1, Len(t))
           d == b \o x
<1>1. /\ c \in Seq(Bytes) /\ b \in Seq(Bytes) /\ t \in Seq(Bytes) /\ o \in Nat
      /\ o + Len(b) + Len(t) = Len(c)
      /\ Len(b) \in Nat /\ Len(c) \in Nat /\ Len(t) \in Nat
  BY LenProperties, Zenon DEF Decoded, Sees
<1>2. \A i \in 1..Len(b) : c[i + o] = b[i]
  BY Zenon DEF Decoded, Sees, Holds
<1>3. \A i \in 1..Len(t) : c[i + (o + Len(b))] = t[i]
  BY Zenon DEF Decoded, Holds
<1>4. x \in Seq(Bytes) /\ Len(x) = n /\ \A i \in 1..n : x[i] = t[i]
  <2>1. n \in Nat /\ 1 <= n + 1 /\ n <= Len(t) /\ n - 1 + 1 = n /\ \A i \in 1..n : 1 + i - 1 = i
    BY <1>1
  <2>2. x \in Seq(Bytes) /\ Len(x) = n - 1 + 1 /\ \A i \in 1..n - 1 + 1 : x[i] = t[1 + i - 1]
    BY <1>1, <2>1, Copied
  <2> QED
    BY <2>1, <2>2, Zenon
<1>5. y \in Seq(Bytes) /\ Len(y) = Len(t) - n /\ \A i \in 1..Len(t) - n : y[i] = t[i + n]
  <2>1. /\ n + 1 \in Nat \ {0} /\ n + 1 <= Len(t) + 1 /\ Len(t) - (n + 1) + 1 = Len(t) - n
        /\ \A i \in 1..Len(t) - n : (n + 1) + i - 1 = i + n
    BY <1>1
  <2>2. /\ y \in Seq(Bytes) /\ Len(y) = Len(t) - (n + 1) + 1
        /\ \A i \in 1..Len(t) - (n + 1) + 1 : y[i] = t[(n + 1) + i - 1]
    <3> DEFINE m == n + 1
               z == Len(t)
    <3>1. t \in Seq(Bytes) /\ z \in Nat /\ m \in Nat \ {0} /\ m <= z + 1 /\ z <= Len(t)
      BY <1>1, <2>1
    <3> HIDE DEF m, z
    <3>2. /\ SubSeq(t, m, z) \in Seq(Bytes) /\ Len(SubSeq(t, m, z)) = z - m + 1
          /\ \A i \in 1..z - m + 1 : SubSeq(t, m, z)[i] = t[m + i - 1]
      BY <3>1, Copied, Zenon
    <3> QED
      BY <3>2, Zenon DEF m, z
  <2> QED
    BY <2>1, <2>2, Zenon
<1> HIDE DEF x, y
<1>6. /\ d \in Seq(Bytes) /\ Len(d) = Len(b) + n
      /\ \A i \in 1..Len(d) : d[i] = IF i <= Len(b) THEN b[i] ELSE x[i - Len(b)]
  <2>1. /\ d \in Seq(Bytes) /\ Len(d) = Len(b) + Len(x)
        /\ \A i \in 1..Len(b) + Len(x) : d[i] = IF i <= Len(b) THEN b[i] ELSE x[i - Len(b)]
    BY <1>1, <1>4, ConcatProperties, Zenon
  <2> QED
    BY <1>4, <2>1, Zenon
<1> HIDE DEF d
<1>7. Holds(c, d, o)
  <2>1. ASSUME NEW i \in 1..Len(d) PROVE c[i + o] = d[i]
    <3>1. CASE i <= Len(b)
      <4>1. i \in 1..Len(b)
        BY <1>1, <1>6, <3>1
      <4> QED
        BY <1>2, <1>6, <3>1, <4>1, Zenon
    <3>2. CASE ~(i <= Len(b))
      <4>1. i - Len(b) \in 1..n /\ i - Len(b) \in 1..Len(t) /\ (i - Len(b)) + (o + Len(b)) = i + o
        BY <1>1, <1>6, <3>2
      <4> QED
        BY <1>3, <1>4, <1>6, <3>2, <4>1, Zenon
    <3> QED
      BY <3>1, <3>2, Zenon
  <2>2. Len(d) + o <= Len(c)
    BY <1>1, <1>6
  <2> QED
    BY <2>1, <2>2, Zenon DEF Holds
<1>8. o + Len(d) + Len(y) = Len(c)
  <2>1. /\ Len(d) = Len(b) + n /\ Len(y) = Len(t) - n /\ o + Len(b) + Len(t) = Len(c)
        /\ o \in Nat /\ Len(b) \in Nat /\ Len(t) \in Nat /\ n \in Nat
    BY <1>1, <1>5, <1>6
  <2> HIDE <1>1, <1>5, <1>6
  <2> QED
    BY <2>1
<1>9. Holds(c, y, o + Len(d))
  <2>1. ASSUME NEW i \in 1..Len(y) PROVE c[i + (o + Len(d))] = y[i]
    <3>1. i + n \in 1..Len(t) /\ i \in 1..Len(t) - n /\ (i + n) + (o + Len(b)) = i + (o + Len(d))
      BY <1>1, <1>5, <1>6, SMTT(30)
    <3> QED
      BY <1>3, <1>5, <3>1, Zenon
  <2>2. Len(y) + (o + Len(d)) <= Len(c)
    BY <1>1, <1>5, <1>6, <1>8
  <2> QED
    BY <2>1, <2>2, Zenon DEF Holds
<1>10. Sees(c, d, o, k, os)
  BY <1>6, <1>7, Zenon DEF Decoded, Sees
<1>11. s # <<>> => Sends(s, c, o, k, os)
  BY Zenon DEF Decoded
<1> QED
  BY <1>5, <1>8, <1>9, <1>10, <1>11, Zenon DEF Decoded, d, x, y

\* A value leaves the buffer.
LEMMA ValueTaken ==
  ASSUME NEW s, NEW c, NEW b, NEW t, NEW os, NEW o, NEW k, Decoded(s, c, b, t, os, o, k),
         Parse(b, 1).is = "value"
  PROVE  LET r == Parse(b, 1)
         IN  Decoded(s, c, SubSeq(b, r.next, Len(b)), t, Append(os, r.value), o + (r.next - 1), k + 1)
<1> DEFINE r == Parse(b, 1)
           n == r.next
           u == SubSeq(b, n, Len(b))
<1>1. /\ Sees(c, b, o, k, os) /\ t \in Seq(Bytes) /\ o + Len(b) + Len(t) = Len(c)
      /\ Holds(c, t, o + Len(b)) /\ (s # <<>> => Sends(s, c, o, k, os))
  BY Zenon DEF Decoded
<1>2. n \in 2..Len(b) + 1 /\ Sees(c, u, o + (n - 1), k + 1, Append(os, r.value))
  <2>1. Feeds(c, b, o, k, os)
    BY <1>1, FeedSees, Zenon
  <2> QED
    BY <2>1, Zenon DEF Feeds
<1>3. s # <<>> => Sends(s, c, o + (n - 1), k + 1, Append(os, r.value))
  <2>1. s # <<>> => Delivers(s, c, b, o, k, os)
    BY <1>1, FeedSent, Zenon
  <2> QED
    BY <2>1, Zenon DEF Delivers
<1> HIDE DEF r, n
<1>4. b \in Seq(Bytes) /\ Len(b) \in Nat /\ o \in Nat /\ Len(t) \in Nat
  BY <1>1, SMTT(30) DEF Sees
<1>5. Len(u) = Len(b) - n + 1
  BY <1>2, <1>4
<1> HIDE DEF u
<1>6. (o + (n - 1)) + Len(u) = o + Len(b)
  BY <1>2, <1>4, <1>5
<1>7. Decoded(s, c, u, t, Append(os, r.value), o + (n - 1), k + 1)
  BY <1>1, <1>2, <1>3, <1>6, Zenon DEF Decoded
<1> QED
  BY <1>7, Zenon DEF u, n, r

\* The stream begins in the invariant.
LEMMA InitInv ==
  ASSUME Init
  PROVE  Inv
<1>1. sent \in Seq(RespValue) /\ input \in Seq(Bytes) /\ (sent # <<>> => input = SerializeAll(sent))
  <2>1. CASE sent \in Messages /\ input = SerializeAll(sent)
    <3>1. sent \in Seq(RespValue)
      BY <2>1, SentAssumption, Zenon
    <3>2. Len(sent) \in 0..Len(sent)
      BY <3>1
    <3>3. SerializeAll(sent) \in Seq(Bytes)
      BY <3>1, <3>2, StreamFacts, Zenon
    <3> QED
      BY <2>1, <3>1, <3>3, Zenon
  <2>2. CASE sent = <<>> /\ input \in Streams
    BY <2>2, SentAssumption
  <2> QED
    BY <2>1, <2>2, Zenon DEF Init
<1>2. rest = input /\ buf = <<>> /\ out = <<>> /\ loop = "idle"
  BY Zenon DEF Init
<1>3. Len(input) \in Nat /\ 0 \in 0..Len(input)
  BY <1>1
<1>4. Holds(input, <<>>, 0) /\ Holds(input, input, 0 + Len(<<>>)) /\ 0 + Len(<<>>) + Len(input) = Len(input)
  BY <1>1, <1>3 DEF Holds
<1>5. Sees(input, <<>>, 0, 0, <<>>)
  <2>1. Batches(input)[0] = [out |-> <<>>, at |-> 0 + 1, is |-> "value"]
    BY <1>3, BatchesStep
  <2>2. <<>> \in Seq(Bytes) /\ 0 \in Nat /\ 0 \in 0..0
    OBVIOUS
  <2> QED
    BY <1>1, <1>4, <2>1, <2>2, Zenon DEF Sees
<1>6. sent # <<>> => Sends(sent, input, 0, 0, <<>>)
  <2>1. Stream(sent)[0] = <<>>
    BY <1>1, StreamFacts, Zenon
  <2>2. 0 \in 0..Len(sent) /\ SubSeq(sent, 1, 0) = <<>> /\ Len(<<>>) = 0
    BY <1>1
  <2> QED
    BY <1>1, <2>1, <2>2, Zenon DEF Sends
<1>7. Decoded(sent, input, buf, rest, out, 0, 0)
  BY <1>1, <1>2, <1>4, <1>5, <1>6, Zenon DEF Decoded
<1>8. Parse(buf, 1).is = "more"
  <2>1. <<>> \in Seq(Bytes) /\ 1 \in 1..Len(<<>>) + 1 /\ 1 > Len(<<>>)
    OBVIOUS
  <2>2. Parsed(<<>>)[1] = ParseAt(<<>>, Parsed(<<>>), 1)
    BY <2>1, ParsedIs, Zenon
  <2>3. ParseAt(<<>>, Parsed(<<>>), 1) = More
    BY <2>1, Zenon DEF ParseAt
  <2> QED
    BY <1>2, <2>2, <2>3 DEF Parse, More
<1> QED
  BY <1>1, <1>2, <1>3, <1>7, <1>8, Zenon DEF Inv

\* One call of feed keeps the invariant, whichever bytes it adds.
LEMMA FeedInv ==
  ASSUME NEW chunk, NEW o, NEW k, Decoded(sent, input, buf \o chunk, rest', out, o, k),
         sent \in Seq(RespValue), Feed(chunk), sent' = sent, input' = input
  PROVE  Inv'
<1> DEFINE b == buf \o chunk
           r == Parse(b, 1)
<1>1. Decoded(sent, input, b, rest', out, o, k)
  BY Zenon
<1>2. \/ r.is = "value" /\ buf' = SubSeq(b, r.next, Len(b)) /\ out' = Append(out, r.value) /\ loop' = "drain"
      \/ r.is = "more" /\ buf' = b /\ out' = out /\ loop' = "idle"
      \/ r.is = "throw" /\ buf' = <<>> /\ out' = out /\ loop' = "threw"
  BY Zenon DEF Feed
<1>3. Sees(input, b, o, k, out) /\ (sent # <<>> => Sends(sent, input, o, k, out))
  BY <1>1, Zenon DEF Decoded
<1>4. input \in Seq(Bytes)
  BY <1>3, Zenon DEF Sees
<1> HIDE DEF b
<1>5. ASSUME NEW d, NEW t, NEW os, NEW p, NEW m, Decoded(sent, input, d, t, os, p, m)
      PROVE  p \in 0..Len(input) /\ m \in 0..Len(input)
  <2>1. /\ p + Len(d) + Len(t) = Len(input) /\ p \in Nat /\ m \in 0..p
        /\ Len(d) \in Nat /\ Len(t) \in Nat /\ Len(input) \in Nat
    BY <1>5, LenProperties, Zenon DEF Decoded, Sees
  <2> QED
    BY <2>1
<1>6. CASE r.is = "value"
  <2>1. buf' = SubSeq(b, r.next, Len(b)) /\ out' = Append(out, r.value) /\ loop' = "drain"
    BY <1>2, <1>6, Zenon
  <2>2. Decoded(sent, input, SubSeq(b, r.next, Len(b)), rest', Append(out, r.value), o + (r.next - 1), k + 1)
    BY <1>1, <1>6, ValueTaken, Zenon
  <2>3. Decoded(sent', input', buf', rest', out', o + (r.next - 1), k + 1)
    BY <2>1, <2>2, Zenon
  <2>4. \E p, m \in 0..Len(input') : Decoded(sent', input', buf', rest', out', p, m)
    BY <1>5, <2>2, <2>3, Zenon
  <2> QED
    BY <1>4, <2>1, <2>4, Zenon DEF Inv
<1>7. CASE r.is = "more"
  <2>1. buf' = b /\ out' = out /\ loop' = "idle"
    BY <1>2, <1>7, Zenon
  <2>2. \E p, m \in 0..Len(input') : Decoded(sent', input', buf', rest', out', p, m)
    BY <1>1, <1>5, <2>1, Zenon
  <2>3. Parse(buf', 1).is = "more"
    BY <1>7, <2>1, Zenon
  <2> QED
    BY <1>4, <2>1, <2>2, <2>3, Zenon DEF Inv
<1>8. CASE r.is = "throw"
  <2>1. out' = out /\ loop' = "threw"
    BY <1>2, <1>8, Zenon
  <2>2. sent = <<>>
    <3>1. sent # <<>> => Delivers(sent, input, b, o, k, out)
      BY <1>3, FeedSent, Zenon
    <3> QED
      BY <1>8, <3>1, Zenon DEF Delivers
  <2>3. k + 1 \in 0..Len(input) + 1 /\ Batches(input)[k + 1].is = "throw" /\ Batches(input)[k + 1].out = out
    <3>1. Feeds(input, b, o, k, out)
      BY <1>3, FeedSees, Zenon
    <3>2. k + 1 \in 1..Len(input) + 1 /\ Batches(input)[k + 1] = [out |-> out, at |-> o + 1, is |-> "throw"]
      BY <1>8, <3>1, Zenon DEF Feeds
    <3>3. Len(input) \in Nat
      BY <1>4
    <3> QED
      BY <3>2, <3>3, SMTT(30)
  <2> QED
    BY <1>4, <2>1, <2>2, <2>3, Zenon DEF Inv
<1> QED
  BY <1>2, <1>6, <1>7, <1>8, Zenon

\* Every step keeps the invariant.
LEMMA NextInv ==
  ASSUME Inv, [Next]_vars
  PROVE  Inv'
<1>1. CASE Receive
  <2>1. loop = "idle" /\ sent' = sent /\ input' = input
    BY <1>1, Zenon DEF Receive
  <2>2. PICK n \in 1..Len(rest) : Feed(SubSeq(rest, 1, n)) /\ rest' = SubSeq(rest, n + 1, Len(rest))
    BY <1>1, Zenon DEF Receive
  <2>3. PICK o, k \in 0..Len(input) : Decoded(sent, input, buf, rest, out, o, k)
    BY <2>1, Zenon DEF Inv
  <2>4. Decoded(sent, input, buf \o SubSeq(rest, 1, n), rest', out, o, k)
    BY <2>2, <2>3, ChunkArrives, Zenon
  <2>5. sent \in Seq(RespValue)
    BY Zenon DEF Inv
  <2> QED
    BY <2>1, <2>2, <2>4, <2>5, FeedInv, Zenon
<1>2. CASE Drain
  <2>1. loop = "drain" /\ Feed(<<>>) /\ sent' = sent /\ input' = input /\ rest' = rest
    BY <1>2, Zenon DEF Drain
  <2>2. PICK o, k \in 0..Len(input) : Decoded(sent, input, buf, rest, out, o, k)
    BY <2>1, Zenon DEF Inv
  <2>3. buf \o <<>> = buf
    BY <2>2 DEF Decoded, Sees
  <2>4. Decoded(sent, input, buf \o <<>>, rest', out, o, k)
    BY <2>1, <2>2, <2>3, Zenon
  <2>5. sent \in Seq(RespValue)
    BY Zenon DEF Inv
  <2> QED
    BY <2>1, <2>4, <2>5, FeedInv, Zenon
<1>3. CASE UNCHANGED vars
  BY <1>3, Zenon DEF vars, Inv
<1> QED
  BY <1>1, <1>2, <1>3, Zenon DEF Next

\* The invariant holds always: the buffer begins where the values given back end.
THEOREM Invariance == Spec => []Inv
<1>1. Init => Inv
  BY InitInv, Zenon
<1>2. Inv /\ [Next]_vars => Inv'
  BY NextInv, Zenon
<1> QED
  BY <1>1, <1>2, PTL DEF Spec

\* Between two chunks, the values given back are those that have arrived.
LEMMA AllArrived ==
  ASSUME Inv, sent # <<>>, loop = "idle"
  PROVE  /\ Arrived \in Nat /\ out = SubSeq(sent, 1, Arrived)
         /\ Len(buf) = Len(input) - Len(rest) - Len(Stream(sent)[Arrived])
<1> DEFINE got == Len(input) - Len(rest)
           whole == {j \in 0..Len(sent) : Len(Stream(sent)[j]) <= got}
<1>1. PICK o, k \in 0..Len(input) : Decoded(sent, input, buf, rest, out, o, k)
  BY Zenon DEF Inv
<1>2. Sees(input, buf, o, k, out) /\ Sends(sent, input, o, k, out)
  BY <1>1, Zenon DEF Decoded
<1>3. /\ o \in Nat /\ Len(buf) \in Nat /\ Len(rest) \in Nat /\ Len(input) \in Nat
      /\ o + Len(buf) + Len(rest) = Len(input)
  BY <1>1, <1>2, SMTT(30) DEF Decoded, Sees
<1>4. got = o + Len(buf) /\ o <= got
  BY <1>3
<1>5. k \in 0..Len(sent) /\ out = SubSeq(sent, 1, k) /\ Len(Stream(sent)[k]) = o /\ k \in Nat
  BY <1>2 DEF Sends
<1>6. \A j \in 0..Len(sent) : Len(Stream(sent)[j]) <= o + Len(buf) => j <= k
  <2>1. Delivers(sent, input, buf, o, k, out)
    BY <1>2, FeedSent, Zenon
  <2> QED
    BY <2>1, Zenon DEF Delivers, Inv
<1> HIDE DEF got
<1>7. k \in whole /\ \A j \in whole : j <= k /\ j \in Nat
  BY <1>4, <1>5, <1>6
<1>8. Arrived = CHOOSE m \in whole : \A j \in whole : j <= m
  BY Zenon DEF Arrived, got
<1> HIDE DEF whole
<1>9. Arrived = k
  <2>1. Arrived \in whole /\ \A j \in whole : j <= Arrived
    BY <1>7, <1>8, Zenon
  <2>2. k <= Arrived /\ Arrived <= k /\ Arrived \in Nat
    BY <1>7, <2>1, Zenon
  <2> QED
    BY <1>5, <2>2
<1>10. Len(buf) = got - o
  BY <1>3, <1>4
<1> QED
  BY <1>5, <1>9, <1>10, Zenon DEF got

\* However the bytes of serialized values are cut into chunks, feed never
\* throws on them, gives back the values themselves in order, and whenever it
\* waits for bytes it has given back every value that has arrived whole.
THEOREM PromptDecoding == Spec => []DecodesPromptly
<1>1. Inv => DecodesPromptly
  <2> SUFFICES ASSUME Inv, sent # <<>>
               PROVE  /\ loop # "threw"
                      /\ loop = "idle" => out = SubSeq(sent, 1, Arrived)
                      /\ loop = "drain" => out = SubSeq(sent, 1, Len(out))
    BY Zenon DEF DecodesPromptly
  <2>1. loop # "threw"
    BY Zenon DEF Inv
  <2>2. loop = "idle" => out = SubSeq(sent, 1, Arrived)
    BY AllArrived, Zenon
  <2>3. out = SubSeq(sent, 1, Len(out))
    <3>1. PICK o, k \in 0..Len(input) : Decoded(sent, input, buf, rest, out, o, k)
      BY <2>1, Zenon DEF Inv
    <3>2. k \in 0..Len(sent) /\ out = SubSeq(sent, 1, k) /\ sent \in Seq(RespValue)
      BY <3>1, Zenon DEF Decoded, Sends
    <3>3. Len(SubSeq(sent, 1, k)) = k
      BY <3>2
    <3> QED
      BY <3>2, <3>3, Zenon
  <2> QED
    BY <2>1, <2>2, <2>3, Zenon
<1> QED
  BY <1>1, Invariance, PTL

\* Between two chunks, buf_ is exactly the bytes behind the last whole value
\* that has arrived: what buffered_size says to replay and to handle_data.
THEOREM ExactBuffer == Spec => []BufferExact
<1>1. Inv => BufferExact
  BY AllArrived, Zenon DEF BufferExact
<1> QED
  BY <1>1, Invariance, PTL

\* For any bytes at all, well formed or not, the values and the exception that
\* come of feeding them in chunks are those of feeding them at once.
THEOREM AnyChunking == Spec => []ChunkingIrrelevant
<1>1. ASSUME Inv, loop = "threw" PROVE Batch(input).is = "throw" /\ Batch(input).out = out
  <2>1. PICK k \in 0..Len(input) + 1 : Batches(input)[k].is = "throw" /\ Batches(input)[k].out = out
    BY <1>1, Zenon DEF Inv
  <2>2. input \in Seq(Bytes)
    BY <1>1, Zenon DEF Inv
  <2>3. Batch(input) = Batches(input)[k]
    BY <2>1, <2>2, BatchStays, Zenon
  <2> QED
    BY <2>1, <2>3, Zenon
<1>2. ASSUME Inv, loop = "idle", rest = <<>> PROVE Batch(input).is = "more" /\ Batch(input).out = out
  <2>1. PICK o, k \in 0..Len(input) : Decoded(sent, input, buf, rest, out, o, k)
    BY <1>2, Zenon DEF Inv
  <2>2. Sees(input, buf, o, k, out) /\ input \in Seq(Bytes)
    BY <2>1, Zenon DEF Decoded, Sees
  <2>3. Len(buf) + o = Len(input)
    <3>1. o + Len(buf) + Len(rest) = Len(input) /\ Len(rest) = 0 /\ o \in Nat /\ Len(buf) \in Nat
      BY <1>2, <2>1, SMTT(30) DEF Decoded, Sees
    <3> QED
      BY <3>1
  <2>4. Feeds(input, buf, o, k, out)
    BY <2>2, FeedSees, Zenon
  <2>5. k + 1 \in 1..Len(input) + 1 /\ Batches(input)[k + 1] = [out |-> out, at |-> o + 1, is |-> "more"]
    BY <1>2, <2>3, <2>4, Zenon DEF Feeds, Inv
  <2>6. Batches(input)[k + 1].is = "more" /\ Batches(input)[k + 1].out = out
    <3>1. \A r, p, q : r = [out |-> p, at |-> q, is |-> "more"] => r.is = "more" /\ r.out = p
      OBVIOUS
    <3> QED
      BY <2>5, <3>1, Zenon
  <2>7. k + 1 \in 0..Len(input) + 1
    <3>1. \A m \in Nat : \A n \in 1..m + 1 : n \in 0..m + 1
      OBVIOUS
    <3>2. Len(input) \in Nat
      BY <2>2
    <3> QED
      BY <2>5, <3>1, <3>2, Zenon
  <2>8. Batches(input)[k + 1].is # "value"
    BY <2>6, Zenon
  <2>9. Batch(input) = Batches(input)[k + 1]
    BY <2>2, <2>7, <2>8, BatchStays, Zenon
  <2> QED
    BY <2>6, <2>9, Zenon
<1>3. Inv => ChunkingIrrelevant
  BY <1>1, <1>2, Zenon DEF ChunkingIrrelevant
<1> QED
  BY <1>3, Invariance, PTL

\* parse is the inverse of serialize, and prompt: it reads a value from all of
\* its bytes and from no fewer, for which it waits without an exception.
THEOREM Inverted ==
  \A v \in RespValue :
      LET b == Serialize[v]
      IN  /\ Parse(b, 1) = Value(v, Len(b) + 1)
          /\ \A n \in 0..Len(b) - 1 : Parse(SubSeq(b, 1, n), 1) = More
<1> SUFFICES ASSUME NEW v \in RespValue
             PROVE  LET b == Serialize[v]
                    IN  /\ Parse(b, 1) = Value(v, Len(b) + 1)
                        /\ \A n \in 0..Len(b) - 1 : Parse(SubSeq(b, 1, n), 1) = More
  BY Zenon
<1> DEFINE b == Serialize[v]
<1>1. b \in Seq(Bytes)
  BY SerializeIs, Zenon
<1>2. Parse(b, 1) = Value(v, Len(b) + 1)
  <2>1. Reads(Parsed(b), Serialize, b, RespValue)
    BY <1>1, RoundTrip, Zenon
  <2>2. Holds(b, b, 0) /\ 0 \in Nat
    BY <1>1 DEF Holds
  <2>3. Parsed(b)[0 + 1] = Value(v, 0 + 1 + Len(b))
    BY <2>1, <2>2, Zenon DEF Reads
  <2>4. 0 + 1 = 1 /\ 0 + 1 + Len(b) = Len(b) + 1
    BY <1>1
  <2> QED
    BY <2>3, <2>4, Zenon DEF Parse
<1> HIDE DEF b
<1>3. ASSUME NEW n \in 0..Len(b) - 1 PROVE Parse(SubSeq(b, 1, n), 1) = More
  <2> DEFINE p == SubSeq(b, 1, n)
             r == Parse(p, 1)
  <2>1. p \in Seq(Bytes) /\ Len(p) = n /\ n \in Nat /\ Len(b) \in Nat /\ n < Len(b) /\ \A k \in 1..n : p[k] = b[k]
    BY <1>1
  <2> HIDE DEF p
  <2>2. Holds(b, p, 0) /\ 1 \in 1..Len(p) + 1 /\ 1 + 0 = 1
    BY <2>1 DEF Holds
  <2>3. Moved(r, Parse(b, 1), 0, FALSE)
    <3>1. Moved(r, Parse(b, 1 + 0), 0, FALSE)
      BY <1>1, <2>1, <2>2, ParseMoved, Zenon
    <3> QED
      BY <2>2, <3>1, Zenon
  <2>4. Within(p, 2, r)
    BY <2>1, <2>2, ParsedIs DEF Parse
  <2> HIDE DEF r
  <2>5. r.is # "throw"
    BY <1>2, <2>3 DEF Moved, Value, Throw
  <2>6. r.is # "value"
    BY <1>1, <1>2, <2>1, <2>3, <2>4 DEF Moved, Within, Value, More, Throw
  <2>7. r = More
    BY <2>4, <2>5, <2>6 DEF Within, Value, More, Throw
  <2> QED
    BY <2>7, Zenon DEF r, p
<1> QED
  BY <1>2, <1>3, Zenon DEF b
=============================================================================
