---------------------------- MODULE QueryProofs ----------------------------
(***************************************************************************)
(* Proofs about Query and about the parser it calls: what a text is taken  *)
(* for, the types of a plan, and the answer it gives.                      *)
(*                                                                         *)
(* First the parser.  What its recursive functions make of a text is what  *)
(* the grammar of SqlText puts there: by induction on the place they start *)
(* at, from the end of the text down, everything they make is a phrase     *)
(* that stands there (Sound), and by induction on the phrase every phrase  *)
(* that stands there is made (Complete): ExpressionSound, ExpressionRead,  *)
(* ListSound and ListComplete, then statement by statement; ReadsSql.      *)
(*                                                                         *)
(* Then the query.  Its properties say what it answers with recursive      *)
(* functions and FlattenSeq, over the product of its tables.  Lemmas say   *)
(* which equations these satisfy (CrossRows, ProductIs, WidthIs,           *)
(* AnswersAre) and what Binder and the plan generator leave (SelectBound,  *)
(* MapsNumber).  The invariant, IInv, then says where in that product the  *)
(* operators are.                                                          *)
(***************************************************************************)
EXTENDS Query, SqlText, TLAPS, WellFoundedInduction, SequenceTheorems, FiniteSetTheorems,
        FunctionTheorems

-----------------------------------------------------------------------------
(* Recursive functions of numbers.                                          *)

\* What holds at k and goes from every number to the next holds at l.
LEMMA Upwards ==
  ASSUME NEW k \in Nat, NEW l \in Nat, k <= l, NEW S,
         k \in S, \A i \in k + 1 .. l : i - 1 \in S => i \in S
  PROVE  l \in S
<1> SUFFICES ASSUME l \notin S PROVE FALSE
  OBVIOUS
<1> DEFINE T == {i \in k .. l : i \notin S}
<1>1. T \subseteq Nat /\ T # {}
  OBVIOUS
<1>2. PICK x \in T : \A y \in T : ~ (<<y, x>> \in OpToRel(<, Nat))
  BY <1>1, NatLessThanWellFounded, WFMin
<1>3. \A y \in T : ~ (y < x)
  BY <1>1, <1>2 DEF OpToRel
<1>4. x \in k .. l /\ x \notin S /\ x # k
  OBVIOUS
<1>5. x - 1 \in k .. l /\ x - 1 < x /\ x \in k + 1 .. l
  BY <1>4
<1>6. x - 1 \in S
  BY <1>3, <1>5
<1> QED
  BY <1>4, <1>5, <1>6

Steps(k, l, T) == [k + 1 .. l -> [T -> T]]

Recurs(f, k, l, b, step) == f[k] = b /\ \A j \in k + 1 .. l : f[j] = step[j][f[j - 1]]

\* There is a function that begins with b and goes on by step.
LEMMA Recursion ==
  ASSUME NEW k \in Nat, NEW l \in Nat, k <= l, NEW T, NEW b \in T,
         NEW step \in Steps(k, l, T)
  PROVE  \E f \in [k .. l -> T] : Recurs(f, k, l, b, step)
<1> USE DEF Recurs, Steps
<1> DEFINE Upto(g, m) ==
             /\ g \in [k .. m -> T] /\ g[k] = b
             /\ \A j \in k + 1 .. m : g[j] = step[j][g[j - 1]]
           S == {m \in k .. l : \E g : Upto(g, m)}
<1>1. k \in S
  <2> DEFINE g == [j \in k .. k |-> b]
  <2>1. Upto(g, k)
    OBVIOUS
  <2> HIDE DEF g
  <2> QED
    BY <2>1
<1>2. ASSUME NEW i \in k + 1 .. l, i - 1 \in S
      PROVE  i \in S
  <2>1. PICK g : Upto(g, i - 1)
    BY <1>2
  <2>2. g[i - 1] \in T /\ i \in k .. l /\ i - 1 \in k .. i - 1
    BY <2>1
  <2> DEFINE c == step[i][g[i - 1]]
             h == [j \in k .. i |-> IF j = i THEN c ELSE g[j]]
  <2>3. c \in T
    BY <2>2
  <2> HIDE DEF c
  <2>4. h \in [k .. i -> T] /\ h[k] = b
    <3>1. \A j \in k .. i : j # i => j \in k .. i - 1
      OBVIOUS
    <3> QED
      BY <2>1, <2>3, <3>1
  <2>5. \A j \in k + 1 .. i : h[j] = step[j][h[j - 1]]
    <3> SUFFICES ASSUME NEW j \in k + 1 .. i PROVE h[j] = step[j][h[j - 1]]
      OBVIOUS
    <3>1. h[j - 1] = g[j - 1]
      OBVIOUS
    <3>2. CASE j = i
      <4>1. h[j] = c
        BY <3>2
      <4> QED
        BY <3>1, <3>2, <4>1 DEF c
    <3>3. CASE j # i
      <4>1. j \in k + 1 .. i - 1 /\ h[j] = g[j]
        BY <3>3
      <4> QED
        BY <2>1, <3>1, <4>1
    <3> QED
      BY <3>2, <3>3
  <2> HIDE DEF h
  <2>6. Upto(h, i)
    BY <2>4, <2>5
  <2> QED
    BY <2>2, <2>6
<1>3. l \in S
  <2> HIDE DEF S
  <2> QED
    BY <1>1, <1>2, Upwards
<1> QED
  BY <1>3

-----------------------------------------------------------------------------
(* FlattenSeq.                                                              *)

Flattens(seqs, f) ==
  f = [i \in 1 .. Len(seqs) |-> IF i = 1 THEN seqs[i] ELSE f[i - 1] \o seqs[i]]

LEMMA FlattenDef ==
  ASSUME NEW S, NEW seqs \in Seq(Seq(S)), seqs # <<>>
  PROVE  \E f \in [1 .. Len(seqs) -> Seq(S)] :
           /\ f[1] = seqs[1]
           /\ \A i \in 2 .. Len(seqs) : f[i] = f[i - 1] \o seqs[i]
           /\ FlattenSeq(seqs) = f[Len(seqs)]
<1> DEFINE n == Len(seqs)
           step == [i \in 1 + 1 .. n |-> [s \in Seq(S) |-> s \o seqs[i]]]
           m == CHOOSE f : Flattens(seqs, f)
<1>1. n \in Nat /\ 1 <= n /\ \A i \in 1 .. n : seqs[i] \in Seq(S)
  BY EmptySeq
<1> HIDE DEF n
<1>2. step \in [1 + 1 .. n -> [Seq(S) -> Seq(S)]]
  BY <1>1
<1>3. \A i \in 1 + 1 .. n : \A s \in Seq(S) : step[i][s] = s \o seqs[i]
  BY <1>1
<1> HIDE DEF step
<1>4. PICK f \in [1 .. n -> Seq(S)] :
        f[1] = seqs[1] /\ \A j \in 1 + 1 .. n : f[j] = step[j][f[j - 1]]
  <2> DEFINE T == Seq(S)
             b == seqs[1]
             k == 1
  <2>1. b \in T /\ step \in Steps(k, n, T) /\ k \in Nat /\ k <= n
    BY <1>1, <1>2 DEF Steps
  <2> HIDE DEF T, b, k
  <2>2. \E f \in [k .. n -> T] : Recurs(f, k, n, b, step)
    BY <1>1, <2>1, Recursion
  <2> QED
    BY <2>2 DEF T, b, k, Recurs
<1>5. ASSUME NEW i \in 1 .. n
      PROVE  f[i] = IF i = 1 THEN seqs[i] ELSE f[i - 1] \o seqs[i]
  <2>1. CASE i = 1
    BY <1>4, <2>1
  <2>2. CASE i # 1
    <3>1. i \in 1 + 1 .. n /\ i - 1 \in 1 .. n
      BY <1>1, <2>2
    <3>2. f[i - 1] \in Seq(S) /\ f[i] = step[i][f[i - 1]]
      BY <1>4, <3>1
    <3> QED
      BY <1>3, <2>2, <3>1, <3>2
  <2> QED
    BY <2>1, <2>2
<1>6. Flattens(seqs, f)
  BY <1>5 DEF Flattens, n
<1>7. Flattens(seqs, m)
  BY <1>6
<1>8. FlattenSeq(seqs) = m[n]
  BY <1>1 DEF FlattenSeq, Flattens, n
<1> HIDE DEF m
<1>9. \A i \in 1 .. n : m[i] = IF i = 1 THEN seqs[i] ELSE m[i - 1] \o seqs[i]
  BY <1>7 DEF Flattens, n
<1> DEFINE X == {i \in 1 .. n : m[i] \in Seq(S)}
<1>10. \A i \in 1 .. n : m[i] \in Seq(S)
  <2> SUFFICES ASSUME NEW i \in 1 .. n PROVE i \in X
    OBVIOUS
  <2>1. 1 \in X
    <3>1. 1 \in 1 .. n
      BY <1>1
    <3>2. m[1] = seqs[1]
      BY <1>9, <3>1
    <3> QED
      BY <1>1, <3>1, <3>2
  <2>2. ASSUME NEW j \in 1 + 1 .. i, j - 1 \in X PROVE j \in X
    <3>1. j \in 1 .. n /\ j # 1 /\ m[j - 1] \in Seq(S) /\ seqs[j] \in Seq(S)
      BY <1>1, <2>2
    <3>2. m[j] = m[j - 1] \o seqs[j]
      BY <1>9, <3>1
    <3>3. m[j] \in Seq(S)
      BY <3>1, <3>2
    <3> QED
      BY <3>1, <3>3
  <2> HIDE DEF X
  <2> QED
    BY <1>1, <2>1, <2>2, Upwards
<1>11. m = [i \in 1 .. n |-> m[i]]
  BY <1>7 DEF Flattens, n
<1>12. m \in [1 .. n -> Seq(S)]
  BY <1>10, <1>11
<1>13. m[1] = seqs[1] /\ \A i \in 2 .. n : m[i] = m[i - 1] \o seqs[i]
  <2>1. 1 \in 1 .. n /\ \A i \in 2 .. n : i \in 1 .. n /\ i # 1
    BY <1>1
  <2> QED
    BY <1>9, <2>1
<1> QED
  BY <1>8, <1>12, <1>13 DEF n

LEMMA FlattenType ==
  ASSUME NEW S, NEW seqs \in Seq(Seq(S))
  PROVE  FlattenSeq(seqs) \in Seq(S)
<1>1. CASE seqs = <<>>
  BY <1>1 DEF FlattenSeq
<1>2. CASE seqs # <<>>
  <2>1. Len(seqs) \in 1 .. Len(seqs)
    BY <1>2, EmptySeq
  <2>2. PICK f \in [1 .. Len(seqs) -> Seq(S)] : FlattenSeq(seqs) = f[Len(seqs)]
    BY <1>2, FlattenDef
  <2> QED
    BY <2>1, <2>2
<1> QED
  BY <1>1, <1>2

-----------------------------------------------------------------------------
(* Words and tokens.                                                        *)

LEMMA TokenOf ==
  ASSUME NEW w \in Words
  PROVE  /\ w \in Keywords \cup Symbols => Token(w) = [type |-> w]
         /\ w \in Names => Token(w) = [type |-> "IDENT", name |-> w]
         /\ w \in DOMAIN Number => Token(w) = [type |-> "INT_LITERAL", int |-> Number[w]]
         /\ w \in DOMAIN Quoted => Token(w) = [type |-> "STR_LITERAL", str |-> Quoted[w]]
<1>1. CASE w \in Keywords \cup Symbols
  <2>1. w \notin Names /\ w \notin DOMAIN Number /\ w \notin DOMAIN Quoted
    BY <1>1, ParserAssumption
  <2> QED
    BY <1>1, <2>1 DEF Token
<1>2. CASE w \in Names
  <2>1. w \notin Keywords \cup Symbols /\ w \notin DOMAIN Number /\ w \notin DOMAIN Quoted
    BY <1>2, ParserAssumption
  <2> QED
    BY <1>2, <2>1 DEF Token
<1>3. CASE w \in DOMAIN Number
  <2>1. w \notin Keywords \cup Symbols /\ w \notin Names /\ w \notin DOMAIN Quoted
    BY <1>3, ParserAssumption
  <2> QED
    BY <1>3, <2>1 DEF Token
<1>4. CASE w \in DOMAIN Quoted
  <2>1. w \notin Keywords \cup Symbols /\ w \notin Names /\ w \notin DOMAIN Number
    BY <1>4, ParserAssumption
  <2> QED
    BY <1>4, <2>1 DEF Token
<1> QED
  BY <1>1, <1>2, <1>3, <1>4 DEF Words

\* The type of its token tells the class of a word.
LEMMA TypeOfToken ==
  ASSUME NEW w \in Words
  PROVE  /\ Token(w).type # "END"
         /\ Token(w).type = "IDENT" <=> w \in Names
         /\ Token(w).type = "INT_LITERAL" <=> w \in DOMAIN Number
         /\ Token(w).type = "STR_LITERAL" <=> w \in DOMAIN Quoted
         /\ \A k \in Keywords \cup Symbols : Token(w).type = k <=> w = k
<1>0. \A k \in Keywords \cup Symbols : k \notin {"END", "IDENT", "INT_LITERAL", "STR_LITERAL"}
  BY DEF Keywords, Symbols, Compare
<1>1. CASE w \in Keywords \cup Symbols
  BY <1>0, <1>1, TokenOf, ParserAssumption
<1>2. CASE w \in Names
  BY <1>0, <1>2, TokenOf, ParserAssumption
<1>3. CASE w \in DOMAIN Number
  BY <1>0, <1>3, TokenOf, ParserAssumption
<1>4. CASE w \in DOMAIN Quoted
  BY <1>0, <1>4, TokenOf, ParserAssumption
<1> QED
  BY <1>1, <1>2, <1>3, <1>4 DEF Words

LEMMA TokensOf ==
  ASSUME NEW txt \in Seq(Words)
  PROVE  /\ Len(Tokenize(txt)) = Len(txt) + 1
         /\ \A i \in 1 .. Len(txt) : txt[i] \in Words /\ Tokenize(txt)[i] = Token(txt[i])
         /\ Tokenize(txt)[Len(txt) + 1] = [type |-> "END"]
<1> DEFINE s == [i \in DOMAIN txt |-> Token(txt[i])]
           T == {Token(w) : w \in Words} \cup {[type |-> "END"]}
<1>1. s \in Seq(T) /\ Len(s) = Len(txt) /\ \A i \in 1 .. Len(txt) : s[i] = Token(txt[i])
  OBVIOUS
<1>2. Tokenize(txt) = Append(s, [type |-> "END"])
  BY DEF Tokenize
<1> HIDE DEF s
<1> QED
  BY <1>1, <1>2

\* A sequence of words from place i of a text on.
Stands(txt, i, words) ==
  /\ i + Len(words) <= Len(txt) + 1
  /\ \A j \in 1 .. Len(words) : txt[i + j - 1] = words[j]

LEMMA StandsOne ==
  ASSUME NEW txt \in Seq(Words), NEW i \in Nat \ {0}, NEW w
  PROVE  /\ Len(<<w>>) = 1
         /\ Stands(txt, i, <<w>>) <=> i <= Len(txt) /\ txt[i] = w
BY DEF Stands

LEMMA StandsTwo ==
  ASSUME NEW txt \in Seq(Words), NEW i \in Nat \ {0},
         NEW u \in Seq(Words), NEW v \in Seq(Words)
  PROVE  /\ u \o v \in Seq(Words) /\ Len(u \o v) = Len(u) + Len(v)
         /\ Stands(txt, i, u \o v) <=> Stands(txt, i, u) /\ Stands(txt, i + Len(u), v)
<1>1. /\ u \o v \in Seq(Words) /\ Len(u \o v) = Len(u) + Len(v)
      /\ \A j \in 1 .. Len(u) : (u \o v)[j] = u[j]
      /\ \A j \in 1 .. Len(v) : (u \o v)[Len(u) + j] = v[j]
  OBVIOUS
<1>2. Len(u) \in Nat /\ Len(v) \in Nat /\ Len(txt) \in Nat
  OBVIOUS
<1> DEFINE w == u \o v
           m == Len(u)
           n == Len(v)
<1>3. ASSUME Stands(txt, i, w) PROVE Stands(txt, i, u) /\ Stands(txt, i + m, v)
  <2>1. i + (m + n) <= Len(txt) + 1 /\ \A j \in 1 .. m + n : txt[i + j - 1] = w[j]
    BY <1>1, <1>3 DEF Stands
  <2> HIDE DEF w, m, n
  <2>2. \A j \in 1 .. m : txt[i + j - 1] = u[j]
    BY <1>1, <1>2, <2>1 DEF w, m, n
  <2>3. ASSUME NEW j \in 1 .. n PROVE txt[i + m + j - 1] = v[j]
    <3>1. m + j \in 1 .. m + n /\ i + (m + j) - 1 = i + m + j - 1
      BY <1>2 DEF m, n
    <3>2. txt[i + (m + j) - 1] = w[m + j]
      BY <2>1, <3>1
    <3> QED
      BY <1>1, <3>1, <3>2 DEF w, m, n
  <2> QED
    BY <1>2, <2>1, <2>2, <2>3 DEF Stands, m, n
<1>4. ASSUME Stands(txt, i, u), Stands(txt, i + m, v) PROVE Stands(txt, i, w)
  <2>1. /\ \A j \in 1 .. m : txt[i + j - 1] = u[j]
        /\ i + m + n <= Len(txt) + 1 /\ \A j \in 1 .. n : txt[i + m + j - 1] = v[j]
    BY <1>4 DEF Stands
  <2> HIDE DEF w, m, n
  <2>2. ASSUME NEW j \in 1 .. m + n PROVE txt[i + j - 1] = w[j]
    <3>1. CASE j <= m
      BY <1>1, <1>2, <2>1, <3>1 DEF w, m, n
    <3>2. CASE j > m
      <4> DEFINE k == j - m
      <4>1. k \in 1 .. n /\ j = m + k /\ i + j - 1 = i + m + k - 1
        BY <1>2, <3>2 DEF m, n
      <4> HIDE DEF k
      <4> QED
        BY <1>1, <2>1, <4>1 DEF w, m, n
    <3> QED
      BY <1>2, <3>1, <3>2 DEF m, n
  <2> QED
    BY <1>1, <1>2, <2>1, <2>2 DEF Stands, m, n, w
<1> QED
  BY <1>1, <1>3, <1>4
\* Strong induction downwards.
LEMMA Downwards ==
  ASSUME NEW l \in Nat, NEW S,
         \A i \in 1 .. l : (\A j \in i + 1 .. l : j \in S) => i \in S
  PROVE  \A i \in 1 .. l : i \in S
<1> SUFFICES ASSUME NEW i \in 1 .. l, i \notin S PROVE FALSE
  OBVIOUS
<1> DEFINE T == {m \in 0 .. l : l - m \in 1 .. l /\ l - m \notin S}
<1>1. T \subseteq Nat /\ T # {}
  <2>1. l - i \in T
    OBVIOUS
  <2> QED
    BY <2>1
<1>2. PICK x \in T : \A y \in T : ~ (<<y, x>> \in OpToRel(<, Nat))
  <2> HIDE DEF T
  <2> QED
    BY <1>1, NatLessThanWellFounded, WFMin
<1>3. \A y \in T : ~ (y < x)
  BY <1>1, <1>2 DEF OpToRel
<1>4. \A j \in (l - x) + 1 .. l : j \in S
  <2> SUFFICES ASSUME NEW j \in (l - x) + 1 .. l, j \notin S PROVE FALSE
    OBVIOUS
  <2>1. l - j \in T /\ l - j < x
    OBVIOUS
  <2> QED
    BY <1>3, <2>1
<1> QED
  BY <1>4

-----------------------------------------------------------------------------
(* What the parsing functions make of a sequence of tokens.                 *)

Ending(ts) == Len(ts) \in Nat \ {0} /\ ts[Len(ts)].type = "END"

\* At most one node, and a position behind i.
Made(ts, made, i) ==
  \A r \in made : /\ r = Got(r.node, r.pos) /\ r.pos \in i + 1 .. Len(ts)
                  /\ \A q \in made : q = r

LEMMA GotParts ==
  ASSUME NEW e, NEW i
  PROVE  Got(e, i).node = e /\ Got(e, i).pos = i
BY DEF Got

LEMMA MadeOne ==
  ASSUME NEW ts, NEW i, NEW pos, pos \in i + 1 .. Len(ts), NEW e
  PROVE  Made(ts, {Got(e, pos)}, i)
BY GotParts DEF Made

LEMMA MadeNone ==
  ASSUME NEW ts, NEW i
  PROVE  Made(ts, {}, i)
BY DEF Made

LEMMA ExpectMade ==
  ASSUME NEW ts, Ending(ts), NEW made, NEW i \in Nat, Made(ts, made, i), NEW type, type # "END"
  PROVE  Made(ts, Expect(ts, made, type), i)
<1> SUFFICES ASSUME NEW r \in Expect(ts, made, type)
             PROVE  /\ r = Got(r.node, r.pos) /\ r.pos \in i + 1 .. Len(ts)
                    /\ \A q \in Expect(ts, made, type) : q = r
  BY DEF Made
<1>1. PICK x \in made : Is(ts, x.pos, type) /\ r = Got(x.node, x.pos + 1)
  BY DEF Expect
<1>2. \A q \in Expect(ts, made, type) : \E y \in made : q = Got(y.node, y.pos + 1)
  BY DEF Expect
<1>3. x.pos \in i + 1 .. Len(ts) /\ \A y \in made : y = x
  BY DEF Made
<1>4. x.pos # Len(ts)
  BY <1>1 DEF Is, Ending
<1> QED
  BY <1>1, <1>2, <1>3, <1>4, GotParts DEF Ending

MakeExpression(ts, f, i) == UNION {Climb(ts, f, lhs) : lhs \in ParsePrimary(ts, f, i)}

NoOperatorBehind(ts, made) == \A r \in made : ts[r.pos].type \notin Operators

PrimaryTypes == {"IDENT", "INT_LITERAL", "STR_LITERAL", "("}

LEMMA PrimaryMade ==
  ASSUME NEW ts, Ending(ts), NEW f, NEW g, NEW i \in 1 .. Len(ts),
         \A j \in i + 1 .. Len(ts) : f[j] = g[j] /\ Made(ts, f[j], j)
  PROVE  /\ ParsePrimary(ts, f, i) = ParsePrimary(ts, g, i)
         /\ Made(ts, ParsePrimary(ts, f, i), i)
<1>1. CASE ts[i].type = "IDENT"
  <2>1. i # Len(ts) /\ i + 1 \in i + 1 .. Len(ts)
    BY <1>1 DEF Ending
  <2>2. \A h : ParsePrimary(ts, h, i) = {Got(ColumnRef(ts[i].name), i + 1)}
    BY <1>1 DEF ParsePrimary, Is
  <2>3. Made(ts, {Got(ColumnRef(ts[i].name), i + 1)}, i)
    BY <2>1, MadeOne
  <2> QED
    BY <2>2, <2>3
<1>2. CASE ts[i].type = "INT_LITERAL"
  <2>1. i # Len(ts) /\ i + 1 \in i + 1 .. Len(ts)
    BY <1>2 DEF Ending
  <2>2. \A h : ParsePrimary(ts, h, i) =
               IF ts[i].int <= MaxInt THEN {Got(Literal("INT", ts[i].int), i + 1)} ELSE {}
    BY <1>2 DEF ParsePrimary, Is
  <2>3. Made(ts, {Got(Literal("INT", ts[i].int), i + 1)}, i)
    BY <2>1, MadeOne
  <2> QED
    BY <2>2, <2>3, MadeNone
<1>3. CASE ts[i].type = "STR_LITERAL"
  <2>1. i # Len(ts) /\ i + 1 \in i + 1 .. Len(ts)
    BY <1>3 DEF Ending
  <2>2. \A h : ParsePrimary(ts, h, i) = {Got(Literal("STRING", ts[i].str), i + 1)}
    BY <1>3 DEF ParsePrimary, Is
  <2>3. Made(ts, {Got(Literal("STRING", ts[i].str), i + 1)}, i)
    BY <2>1, MadeOne
  <2> QED
    BY <2>2, <2>3
<1>4. CASE ts[i].type = "("
  <2>1. i # Len(ts) /\ i + 1 \in i + 1 .. Len(ts)
    BY <1>4 DEF Ending
  <2>2. \A h : ParsePrimary(ts, h, i) = Expect(ts, h[i + 1], ")")
    BY <1>4 DEF ParsePrimary, Is
  <2>3. Made(ts, f[i + 1], i + 1) /\ f[i + 1] = g[i + 1]
    BY <2>1
  <2>4. Made(ts, f[i + 1], i)
    BY <2>3 DEF Made, Ending
  <2> QED
    BY <2>2, <2>3, <2>4, ExpectMade
<1>5. CASE ts[i].type \notin PrimaryTypes
  <2>1. \A h : ParsePrimary(ts, h, i) = {}
    BY <1>5 DEF ParsePrimary, Is, PrimaryTypes
  <2> QED
    BY <2>1 DEF Made
<1> QED
  BY <1>1, <1>2, <1>3, <1>4, <1>5 DEF PrimaryTypes

LEMMA ClimbMade ==
  ASSUME NEW ts, Ending(ts), NEW f, NEW g, NEW i \in 1 .. Len(ts),
         \A j \in i + 1 .. Len(ts) : f[j] = g[j] /\ Made(ts, f[j], j),
         NEW lhs, lhs = Got(lhs.node, lhs.pos), lhs.pos \in i + 1 .. Len(ts)
  PROVE  /\ Climb(ts, f, lhs) = Climb(ts, g, lhs)
         /\ Made(ts, Climb(ts, f, lhs), i)
         /\ (\A j \in i + 1 .. Len(ts) : NoOperatorBehind(ts, f[j]))
               => NoOperatorBehind(ts, Climb(ts, f, lhs))
<1> DEFINE op == ts[lhs.pos].type
           k == lhs.pos + 1
<1>1. CASE op \notin Operators
  <2>1. \A h : Climb(ts, h, lhs) = {lhs}
    BY <1>1 DEF Climb
  <2>2. Made(ts, {lhs}, i)
    BY MadeOne
  <2>3. NoOperatorBehind(ts, {lhs})
    BY <1>1 DEF NoOperatorBehind
  <2> QED
    BY <2>1, <2>2, <2>3
<1>2. CASE op \in Operators
  <2>1. \A h : Climb(ts, h, lhs) = {Operation(op, lhs, rhs) : rhs \in h[k]}
    BY <1>2 DEF Climb
  <2>2. "END" \notin Operators
    BY DEF Operators, Compare
  <2>3. lhs.pos # Len(ts) /\ k \in i + 1 .. Len(ts) /\ k > i + 1
    BY <1>2, <2>2 DEF Ending
  <2>4. f[k] = g[k] /\ Made(ts, f[k], k)
    BY <2>3
  <2>5. ASSUME NEW r \in Climb(ts, f, lhs)
        PROVE  /\ \E rhs \in f[k] : r = Operation(op, lhs, rhs) /\ r.pos = rhs.pos
               /\ r = Got(r.node, r.pos) /\ r.pos \in i + 1 .. Len(ts)
               /\ \A q \in Climb(ts, f, lhs) : q = r
    <3>1. PICK rhs \in f[k] : r = Operation(op, lhs, rhs)
      BY <2>1
    <3>2. \A q \in Climb(ts, f, lhs) : \E y \in f[k] : q = Operation(op, lhs, y)
      BY <2>1
    <3>3. rhs.pos \in k + 1 .. Len(ts) /\ \A y \in f[k] : y = rhs
      BY <2>4 DEF Made
    <3>4. r.pos = rhs.pos /\ r = Got(r.node, r.pos)
      BY <3>1, GotParts DEF Operation
    <3>5. \A q \in Climb(ts, f, lhs) : q = r
      BY <3>1, <3>2, <3>3
    <3> QED
      BY <2>3, <3>1, <3>3, <3>4, <3>5
  <2>6. (\A j \in i + 1 .. Len(ts) : NoOperatorBehind(ts, f[j]))
           => NoOperatorBehind(ts, Climb(ts, f, lhs))
    BY <2>3, <2>5 DEF NoOperatorBehind
  <2> QED
    BY <2>1, <2>4, <2>5, <2>6 DEF Made
<1> QED
  BY <1>1, <1>2

LEMMA ExpressionStep ==
  ASSUME NEW ts, Ending(ts), NEW f, NEW g, NEW i \in 1 .. Len(ts),
         \A j \in i + 1 .. Len(ts) : f[j] = g[j] /\ Made(ts, f[j], j)
  PROVE  /\ MakeExpression(ts, f, i) = MakeExpression(ts, g, i)
         /\ Made(ts, MakeExpression(ts, f, i), i)
         /\ (\A j \in i + 1 .. Len(ts) : NoOperatorBehind(ts, f[j]))
               => NoOperatorBehind(ts, MakeExpression(ts, f, i))
<1> DEFINE P == ParsePrimary(ts, f, i)
<1>1. P = ParsePrimary(ts, g, i) /\ Made(ts, P, i)
  BY PrimaryMade
<1> HIDE DEF P
<1>2. ASSUME NEW lhs \in P
      PROVE  /\ Climb(ts, f, lhs) = Climb(ts, g, lhs)
             /\ Made(ts, Climb(ts, f, lhs), i)
             /\ (\A j \in i + 1 .. Len(ts) : NoOperatorBehind(ts, f[j]))
                   => NoOperatorBehind(ts, Climb(ts, f, lhs))
  <2>1. lhs = Got(lhs.node, lhs.pos) /\ lhs.pos \in i + 1 .. Len(ts)
    BY <1>1 DEF Made
  <2> QED
    BY <2>1, ClimbMade
<1>3. MakeExpression(ts, f, i) = UNION {Climb(ts, f, lhs) : lhs \in P}
  BY DEF MakeExpression, P
<1>4. MakeExpression(ts, g, i) = UNION {Climb(ts, g, lhs) : lhs \in P}
  BY <1>1 DEF MakeExpression
<1>5. MakeExpression(ts, f, i) = MakeExpression(ts, g, i)
  BY <1>2, <1>3, <1>4
<1>6. ASSUME NEW r \in MakeExpression(ts, f, i)
      PROVE  \E lhs \in P : r \in Climb(ts, f, lhs) /\ MakeExpression(ts, f, i) = Climb(ts, f, lhs)
  <2>1. PICK lhs \in P : r \in Climb(ts, f, lhs)
    BY <1>3
  <2>2. P = {lhs}
    BY <1>1 DEF Made
  <2> QED
    BY <1>3, <2>1, <2>2
<1>7. Made(ts, MakeExpression(ts, f, i), i)
  BY <1>2, <1>6 DEF Made
<1>8. (\A j \in i + 1 .. Len(ts) : NoOperatorBehind(ts, f[j]))
         => NoOperatorBehind(ts, MakeExpression(ts, f, i))
  BY <1>2, <1>6 DEF NoOperatorBehind
<1> QED
  BY <1>5, <1>7, <1>8

LEMMA ExpressionExists ==
  ASSUME NEW ts, Ending(ts)
  PROVE  \E f : f = [i \in 1 .. Len(ts) |-> MakeExpression(ts, f, i)]
<1> DEFINE l == Len(ts)
           Upon(f, k) == \A j \in k .. l : f[j] = MakeExpression(ts, f, j) /\ Made(ts, f[j], j)
           S == {k \in 1 .. l : \E f : Upon(f, k)}
<1>1. l \in Nat \ {0}
  BY DEF Ending
<1> HIDE DEF l
<1>2. ASSUME NEW k \in 1 .. l, \A j \in k + 1 .. l : j \in S PROVE k \in S
  <2>1. PICK f : Upon(f, k + 1)
    <3>1. CASE k = l
      BY <1>1, <3>1
    <3>2. CASE k # l
      <4>1. k + 1 \in S
        BY <1>1, <1>2, <3>2
      <4> QED
        BY <4>1
    <3> QED
      BY <3>1, <3>2
  <2> DEFINE g == [j \in k .. l |-> IF j = k THEN MakeExpression(ts, f, k) ELSE f[j]]
  <2>2. \A j \in k + 1 .. l : g[j] = f[j]
    OBVIOUS
  <2>3. g[k] = MakeExpression(ts, f, k)
    BY <1>1
  <2> HIDE DEF g
  <2>4. ASSUME NEW j \in k .. l PROVE g[j] = MakeExpression(ts, g, j) /\ Made(ts, g[j], j)
    <3>1. j \in 1 .. l /\ \A m \in j + 1 .. l : m \in k + 1 .. l
      BY <1>1
    <3>2. \A m \in j + 1 .. l : f[m] = g[m] /\ Made(ts, f[m], m)
      BY <2>1, <2>2, <3>1
    <3>3. /\ MakeExpression(ts, f, j) = MakeExpression(ts, g, j)
          /\ Made(ts, MakeExpression(ts, f, j), j)
      BY <3>1, <3>2, ExpressionStep DEF l
    <3>4. g[j] = MakeExpression(ts, f, j)
      <4>1. CASE j = k
        BY <2>3, <4>1
      <4>2. CASE j # k
        BY <2>1, <2>2, <4>2
      <4> QED
        BY <4>1, <4>2
    <3> QED
      BY <3>3, <3>4
  <2>5. Upon(g, k)
    BY <2>4
  <2> HIDE DEF Upon
  <2> QED
    BY <2>5
<1>3. 1 \in S
  <2>1. 1 \in 1 .. l /\ l \in Nat
    BY <1>1
  <2> HIDE DEF S
  <2> QED
    BY <1>2, <2>1, Downwards
<1>4. PICK f : Upon(f, 1)
  BY <1>3
<1> DEFINE g == [j \in 1 .. l |-> f[j]]
<1>5. \A j \in 1 .. l : g[j] = f[j]
  OBVIOUS
<1> HIDE DEF g
<1>6. \A j \in 1 .. l : g[j] = MakeExpression(ts, g, j)
  <2> SUFFICES ASSUME NEW j \in 1 .. l PROVE g[j] = MakeExpression(ts, g, j)
    OBVIOUS
  <2>1. \A m \in j + 1 .. l : f[m] = g[m] /\ Made(ts, f[m], m)
    BY <1>1, <1>4, <1>5
  <2>2. MakeExpression(ts, f, j) = MakeExpression(ts, g, j)
    BY <2>1, ExpressionStep DEF l
  <2> QED
    BY <1>4, <1>5, <2>2
<1>7. g = [j \in 1 .. l |-> MakeExpression(ts, g, j)]
  BY <1>6 DEF g
<1> QED
  BY <1>7 DEF l

\* parseExpression is what its body makes of what it makes further on; it makes one node at
\* most and never stops before an operator.
LEMMA ExpressionIs ==
  ASSUME NEW ts, Ending(ts)
  PROVE  \A i \in 1 .. Len(ts) :
           /\ ParseExpression(ts)[i] = MakeExpression(ts, ParseExpression(ts), i)
           /\ Made(ts, ParseExpression(ts)[i], i)
           /\ NoOperatorBehind(ts, ParseExpression(ts)[i])
<1> DEFINE l == Len(ts)
           E == CHOOSE f : f = [i \in 1 .. l |-> MakeExpression(ts, f, i)]
<1>1. ParseExpression(ts) = E
  BY DEF ParseExpression, MakeExpression
<1>2. E = [i \in 1 .. l |-> MakeExpression(ts, E, i)]
  BY ExpressionExists
<1> HIDE DEF E
<1>3. \A i \in 1 .. l : E[i] = MakeExpression(ts, E, i)
  BY <1>2
<1> DEFINE S == {i \in 1 .. l : Made(ts, E[i], i) /\ NoOperatorBehind(ts, E[i])}
<1>4. \A i \in 1 .. l : i \in S
  <2>1. l \in Nat
    BY DEF Ending
  <2>2. ASSUME NEW i \in 1 .. l, \A j \in i + 1 .. l : j \in S PROVE i \in S
    <3>1. \A j \in i + 1 .. l : E[j] = E[j] /\ Made(ts, E[j], j) /\ NoOperatorBehind(ts, E[j])
      BY <2>2
    <3>2. Made(ts, MakeExpression(ts, E, i), i) /\ NoOperatorBehind(ts, MakeExpression(ts, E, i))
      BY <3>1, ExpressionStep
    <3> QED
      BY <1>3, <3>2
  <2> HIDE DEF S
  <2> QED
    BY <2>1, <2>2, Downwards
<1> QED
  BY <1>1, <1>3, <1>4
Whats == {"expression", "projection", "name", "assignment", "definition"}

LEMMA NotLast ==
  ASSUME NEW ts, Ending(ts), NEW i \in 1 .. Len(ts), ts[i].type # "END"
  PROVE  i + 1 \in i + 1 .. Len(ts) /\ i + 1 \in 1 .. Len(ts)
BY DEF Ending

LEMMA DefinitionMade ==
  ASSUME NEW ts, Ending(ts), NEW i \in 1 .. Len(ts)
  PROVE  Made(ts, ColumnDefinition(ts, i), i)
<1> DEFINE Def(n) == [name |-> ts[i].name, type |-> ts[i + 1].name, length |-> n]
           made == ColumnDefinition(ts, i)
<1>1. CASE ~(Is(ts, i, "IDENT") /\ Is(ts, i + 1, "IDENT"))
  <2>1. made = {}
    BY <1>1 DEF ColumnDefinition
  <2> QED
    BY <2>1, MadeNone
<1>2. CASE Is(ts, i, "IDENT") /\ Is(ts, i + 1, "IDENT")
  <2>1. i + 1 \in 1 .. Len(ts) /\ i + 2 \in i + 1 .. Len(ts) /\ i + 2 \in 1 .. Len(ts)
    <3>1. i + 1 \in 1 .. Len(ts)
      BY <1>2, NotLast DEF Is
    <3>2. (i + 1) + 1 \in (i + 1) + 1 .. Len(ts)
      BY <1>2, <3>1, NotLast DEF Is
    <3> QED
      BY <3>1, <3>2
  <2>2. CASE ts[i + 1].name # "STRING" \/ ~Is(ts, i + 2, "(")
    <3>1. made = {Got(Def(0), i + 2)}
      BY <1>2, <2>2 DEF ColumnDefinition
    <3> QED
      BY <2>1, <3>1, MadeOne
  <2>3. CASE ~(ts[i + 1].name # "STRING" \/ ~Is(ts, i + 2, "("))
    <3>1. CASE Is(ts, i + 3, "INT_LITERAL") /\ ts[i + 3].int <= MaxInt /\ Is(ts, i + 4, ")")
      <4>1. made = {Got(Def(ts[i + 3].int), i + 5)}
        BY <1>2, <2>3, <3>1 DEF ColumnDefinition
      <4>2. i + 3 \in 1 .. Len(ts)
        <5>1. (i + 2) + 1 \in 1 .. Len(ts)
          BY <2>1, <2>3, NotLast DEF Is
        <5> QED
          BY <5>1
      <4>3. i + 4 \in 1 .. Len(ts)
        <5>1. (i + 3) + 1 \in 1 .. Len(ts)
          BY <3>1, <4>2, NotLast DEF Is
        <5> QED
          BY <5>1
      <4>4. i + 5 \in i + 1 .. Len(ts)
        <5>1. (i + 4) + 1 \in 1 .. Len(ts)
          BY <3>1, <4>3, NotLast DEF Is
        <5> QED
          BY <5>1
      <4> QED
        BY <4>1, <4>4, MadeOne
    <3>2. CASE ~(Is(ts, i + 3, "INT_LITERAL") /\ ts[i + 3].int <= MaxInt /\ Is(ts, i + 4, ")"))
      <4>1. made = {}
        BY <1>2, <2>3, <3>2 DEF ColumnDefinition
      <4> QED
        BY <4>1, MadeNone
    <3> QED
      BY <3>1, <3>2
  <2> QED
    BY <2>2, <2>3
<1> QED
  BY <1>1, <1>2

LEMMA AssignmentMade ==
  ASSUME NEW ts, Ending(ts), NEW i \in 1 .. Len(ts)
  PROVE  Made(ts, Assignment(ts, i), i)
<1>1. CASE ~(Is(ts, i, "IDENT") /\ Is(ts, i + 1, "="))
  <2>1. Assignment(ts, i) = {}
    BY <1>1 DEF Assignment
  <2> QED
    BY <2>1, MadeNone
<1>2. CASE Is(ts, i, "IDENT") /\ Is(ts, i + 1, "=")
  <2> DEFINE E == ParseExpression(ts)[i + 2]
             Node(e) == [column |-> ts[i].name, expr |-> e.node]
  <2>1. Assignment(ts, i) = {Got(Node(e), e.pos) : e \in E}
    BY <1>2 DEF Assignment
  <2>2. i + 1 \in 1 .. Len(ts)
    BY <1>2, NotLast DEF Is
  <2>3. (i + 1) + 1 \in 1 .. Len(ts)
    BY <1>2, <2>2, NotLast DEF Is
  <2>4. Made(ts, E, i + 2)
    BY <2>3, ExpressionIs
  <2> HIDE DEF E, Node
  <2>5. SUFFICES ASSUME NEW r \in Assignment(ts, i)
                 PROVE  /\ r = Got(r.node, r.pos) /\ r.pos \in i + 1 .. Len(ts)
                        /\ \A q \in Assignment(ts, i) : q = r
    BY DEF Made
  <2>6. PICK e \in E : r = Got(Node(e), e.pos)
    BY <2>1
  <2>7. e.pos \in i + 3 .. Len(ts) /\ \A y \in E : y = e
    BY <2>4 DEF Made
  <2> QED
    BY <2>1, <2>6, <2>7, GotParts
<1> QED
  BY <1>1, <1>2

LEMMA ItemMade ==
  ASSUME NEW ts, Ending(ts), NEW i \in 1 .. Len(ts), NEW what \in Whats
  PROVE  Made(ts, Item(what, ts, i), i)
<1>1. Made(ts, ParseExpression(ts)[i], i)
  BY ExpressionIs
<1>2. CASE what = "expression"
  BY <1>1, <1>2 DEF Item
<1>3. CASE what = "projection"
  <2>1. Item(what, ts, i) =
          IF Is(ts, i, "*") THEN {Got(ColumnRef("*"), i + 1)} ELSE ParseExpression(ts)[i]
    BY <1>3 DEF Item
  <2>2. Is(ts, i, "*") => Made(ts, {Got(ColumnRef("*"), i + 1)}, i)
    BY NotLast, MadeOne DEF Is
  <2> QED
    BY <1>1, <2>1, <2>2
<1>4. CASE what = "name"
  <2>1. Item(what, ts, i) = IF Is(ts, i, "IDENT") THEN {Got(ts[i].name, i + 1)} ELSE {}
    BY <1>4 DEF Item
  <2>2. Is(ts, i, "IDENT") => Made(ts, {Got(ts[i].name, i + 1)}, i)
    BY NotLast, MadeOne DEF Is
  <2> QED
    BY <2>1, <2>2, MadeNone
<1>5. CASE what = "assignment"
  BY <1>5, AssignmentMade DEF Item
<1>6. CASE what = "definition"
  BY <1>6, DefinitionMade DEF Item
<1> QED
  BY <1>2, <1>3, <1>4, <1>5, <1>6 DEF Whats

MakeItems(what, ts, f, i) == UNION {Onward(ts, f, first) : first \in Item(what, ts, i)}

LEMMA ItemsStep ==
  ASSUME NEW ts, Ending(ts), NEW what \in Whats, NEW f, NEW g, NEW i \in 1 .. Len(ts),
         \A j \in i + 1 .. Len(ts) : f[j] = g[j] /\ Made(ts, f[j], j)
  PROVE  /\ MakeItems(what, ts, f, i) = MakeItems(what, ts, g, i)
         /\ Made(ts, MakeItems(what, ts, f, i), i)
<1> DEFINE P == Item(what, ts, i)
<1>1. Made(ts, P, i)
  BY ItemMade
<1> HIDE DEF P
<1>2. ASSUME NEW first \in P
      PROVE  Onward(ts, f, first) = Onward(ts, g, first) /\ Made(ts, Onward(ts, f, first), i)
  <2>1. first.pos \in i + 1 .. Len(ts)
    BY <1>1 DEF Made
  <2>2. CASE ~Is(ts, first.pos, ",")
    <3>1. \A h : Onward(ts, h, first) = {Got(<<first.node>>, first.pos)}
      BY <2>2 DEF Onward
    <3>2. Made(ts, {Got(<<first.node>>, first.pos)}, i)
      BY <2>1, MadeOne
    <3> QED
      BY <3>1, <3>2
  <2>3. CASE Is(ts, first.pos, ",")
    <3> DEFINE k == first.pos + 1
               Node(more) == <<first.node>> \o more.node
    <3>1. \A h : Onward(ts, h, first) = {Got(Node(more), more.pos) : more \in h[k]}
      BY <2>3 DEF Onward
    <3>2. k \in i + 1 .. Len(ts) /\ k > i
      <4>3. ts[first.pos].type # "END"
        BY <2>3 DEF Is
      <4>4. Len(ts) \in Nat
        BY DEF Ending
      <4>1. first.pos \in 1 .. Len(ts) /\ ts[first.pos].type # "END"
        BY <2>1, <4>3, <4>4
      <4>2. first.pos + 1 \in first.pos + 1 .. Len(ts)
        BY <4>1, NotLast
      <4> QED
        BY <2>1, <4>1, <4>2
    <3>3. f[k] = g[k] /\ Made(ts, f[k], k)
      BY <3>2
    <3> HIDE DEF k, Node
    <3>4. Made(ts, Onward(ts, f, first), i)
      <4> SUFFICES ASSUME NEW r \in Onward(ts, f, first)
                   PROVE  /\ r = Got(r.node, r.pos) /\ r.pos \in i + 1 .. Len(ts)
                          /\ \A q \in Onward(ts, f, first) : q = r
        BY DEF Made
      <4>1. PICK e \in f[k] : r = Got(Node(e), e.pos)
        BY <3>1
      <4>2. e.pos \in k + 1 .. Len(ts) /\ \A y \in f[k] : y = e
        BY <3>3 DEF Made
      <4> QED
        BY <3>1, <3>2, <4>1, <4>2, GotParts
    <3> QED
      BY <3>1, <3>3, <3>4
  <2> QED
    BY <2>2, <2>3
<1>3. \A h : MakeItems(what, ts, h, i) = UNION {Onward(ts, h, first) : first \in P}
  BY DEF MakeItems, P
<1>4. MakeItems(what, ts, f, i) = MakeItems(what, ts, g, i)
  BY <1>2, <1>3
<1>5. ASSUME NEW r \in MakeItems(what, ts, f, i)
      PROVE  \E x \in P : r \in Onward(ts, f, x) /\ MakeItems(what, ts, f, i) = Onward(ts, f, x)
  <2>1. PICK x \in P : r \in Onward(ts, f, x)
    BY <1>3
  <2>2. P = {x}
    BY <1>1 DEF Made
  <2>3. UNION {Onward(ts, f, y) : y \in {x}} = Onward(ts, f, x)
    OBVIOUS
  <2> QED
    BY <1>3, <2>1, <2>2, <2>3
<1>6. Made(ts, MakeItems(what, ts, f, i), i)
  BY <1>2, <1>5 DEF Made
<1> QED
  BY <1>4, <1>6

LEMMA ItemsExist ==
  ASSUME NEW ts, Ending(ts), NEW what \in Whats
  PROVE  \E f : f = [i \in 1 .. Len(ts) |-> MakeItems(what, ts, f, i)]
<1> DEFINE l == Len(ts)
           Upon(f, k) == \A j \in k .. l : f[j] = MakeItems(what, ts, f, j) /\ Made(ts, f[j], j)
           S == {k \in 1 .. l : \E f : Upon(f, k)}
<1>1. l \in Nat \ {0}
  BY DEF Ending
<1> HIDE DEF l
<1>2. ASSUME NEW k \in 1 .. l, \A j \in k + 1 .. l : j \in S PROVE k \in S
  <2>1. PICK f : Upon(f, k + 1)
    <3>1. CASE k = l
      BY <1>1, <3>1
    <3>2. CASE k # l
      <4>1. k + 1 \in S
        BY <1>1, <1>2, <3>2
      <4> QED
        BY <4>1
    <3> QED
      BY <3>1, <3>2
  <2> DEFINE g == [j \in k .. l |-> IF j = k THEN MakeItems(what, ts, f, k) ELSE f[j]]
  <2>2. \A j \in k + 1 .. l : g[j] = f[j]
    OBVIOUS
  <2>3. g[k] = MakeItems(what, ts, f, k)
    BY <1>1
  <2> HIDE DEF g
  <2>4. ASSUME NEW j \in k .. l PROVE g[j] = MakeItems(what, ts, g, j) /\ Made(ts, g[j], j)
    <3>1. j \in 1 .. l /\ \A m \in j + 1 .. l : m \in k + 1 .. l
      BY <1>1
    <3>2. \A m \in j + 1 .. l : f[m] = g[m] /\ Made(ts, f[m], m)
      BY <2>1, <2>2, <3>1
    <3>3. /\ MakeItems(what, ts, f, j) = MakeItems(what, ts, g, j)
          /\ Made(ts, MakeItems(what, ts, f, j), j)
      BY <3>1, <3>2, ItemsStep DEF l
    <3>4. g[j] = MakeItems(what, ts, f, j)
      <4>1. CASE j = k
        BY <2>3, <4>1
      <4>2. CASE j # k
        BY <2>1, <2>2, <4>2
      <4> QED
        BY <4>1, <4>2
    <3> QED
      BY <3>3, <3>4
  <2>5. Upon(g, k)
    BY <2>4
  <2> HIDE DEF Upon
  <2> QED
    BY <2>5
<1>3. 1 \in S
  <2>1. 1 \in 1 .. l /\ l \in Nat
    BY <1>1
  <2> HIDE DEF S
  <2> QED
    BY <1>2, <2>1, Downwards
<1>4. PICK f : Upon(f, 1)
  BY <1>3
<1> DEFINE g == [j \in 1 .. l |-> f[j]]
<1>5. \A j \in 1 .. l : g[j] = f[j]
  OBVIOUS
<1> HIDE DEF g
<1>6. \A j \in 1 .. l : g[j] = MakeItems(what, ts, g, j)
  <2> SUFFICES ASSUME NEW j \in 1 .. l PROVE g[j] = MakeItems(what, ts, g, j)
    OBVIOUS
  <2>1. \A m \in j + 1 .. l : f[m] = g[m] /\ Made(ts, f[m], m)
    BY <1>1, <1>4, <1>5
  <2>2. MakeItems(what, ts, f, j) = MakeItems(what, ts, g, j)
    BY <2>1, ItemsStep DEF l
  <2> QED
    BY <1>4, <1>5, <2>2
<1>7. g = [j \in 1 .. l |-> MakeItems(what, ts, g, j)]
  BY <1>6 DEF g
<1> QED
  BY <1>7 DEF l

LEMMA ItemsIs ==
  ASSUME NEW ts, Ending(ts), NEW what \in Whats
  PROVE  \A i \in 1 .. Len(ts) :
           /\ Items(what, ts)[i] = MakeItems(what, ts, Items(what, ts), i)
           /\ Made(ts, Items(what, ts)[i], i)
<1> DEFINE l == Len(ts)
           E == CHOOSE f : f = [i \in 1 .. l |-> MakeItems(what, ts, f, i)]
<1>1. Items(what, ts) = E
  BY DEF Items, MakeItems
<1>2. E = [i \in 1 .. l |-> MakeItems(what, ts, E, i)]
  BY ItemsExist
<1> HIDE DEF E
<1>3. \A i \in 1 .. l : E[i] = MakeItems(what, ts, E, i)
  BY <1>2
<1> DEFINE S == {i \in 1 .. l : Made(ts, E[i], i)}
<1>4. \A i \in 1 .. l : i \in S
  <2>1. l \in Nat
    BY DEF Ending
  <2>2. ASSUME NEW i \in 1 .. l, \A j \in i + 1 .. l : j \in S PROVE i \in S
    <3>1. \A j \in i + 1 .. l : E[j] = E[j] /\ Made(ts, E[j], j)
      BY <2>2
    <3>2. Made(ts, MakeItems(what, ts, E, i), i)
      BY <3>1, ItemsStep
    <3> QED
      BY <1>3, <3>2
  <2> HIDE DEF S
  <2> QED
    BY <2>1, <2>2, Downwards
<1> QED
  BY <1>1, <1>3, <1>4
-----------------------------------------------------------------------------
(* The grammar.                                                             *)

Deeper(P) ==
  Primaries(P) \cup {Applied(op, l, r) : op \in Operators, l \in Primaries(P), r \in P}
NestingOf(f, d) == IF d = 0 THEN Atoms ELSE Deeper(f[d - 1])

LEMMA NestedIs == \A d \in Nat : Nested[d] = NestingOf(Nested, d)
<1> DEFINE Upto(f, m) == \A j \in 0 .. m : f[j] = NestingOf(f, j)
           N == [m \in Nat |-> (CHOOSE f : Upto(f, m))[m]]
           E == CHOOSE f : f = [d \in Nat |-> NestingOf(f, d)]
<1>1. ASSUME NEW m \in Nat PROVE \E f : Upto(f, m)
  <2> DEFINE S == {k \in 0 .. m : \E f : Upto(f, k)}
  <2>1. 0 \in S
    <3> DEFINE f == [j \in 0 .. 0 |-> Atoms]
    <3>1. f[0] = Atoms
      OBVIOUS
    <3> HIDE DEF f
    <3>2. Upto(f, 0)
      BY <3>1 DEF NestingOf
    <3> HIDE DEF Upto
    <3> QED
      BY <3>2
  <2>2. ASSUME NEW k \in 0 + 1 .. m, k - 1 \in S PROVE k \in S
    <3>1. PICK f : Upto(f, k - 1)
      BY <2>2
    <3> DEFINE g == [j \in 0 .. k |-> IF j = k THEN Deeper(f[k - 1]) ELSE f[j]]
    <3>2. g[k] = Deeper(f[k - 1]) /\ \A j \in 0 .. k - 1 : g[j] = f[j]
      OBVIOUS
    <3> HIDE DEF g
    <3>3. ASSUME NEW j \in 0 .. k PROVE g[j] = NestingOf(g, j)
      <4>1. j # 0 => j - 1 \in 0 .. k - 1
        OBVIOUS
      <4>2. CASE j = k
        BY <3>2, <4>1, <4>2 DEF NestingOf
      <4>3. CASE j # k
        <5>1. f[j] = NestingOf(f, j)
          BY <3>1, <4>3
        <5> QED
          BY <3>2, <4>1, <4>3, <5>1 DEF NestingOf
      <4> QED
        BY <4>2, <4>3
    <3>4. Upto(g, k)
      BY <3>3
    <3> HIDE DEF Upto
    <3> QED
      BY <3>4
  <2>3. m \in S
    <3> HIDE DEF S
    <3> QED
      BY <2>1, <2>2, Upwards
  <2> QED
    BY <2>3
<1>2. ASSUME NEW m \in Nat, NEW f, NEW g, Upto(f, m), Upto(g, m + 1)
      PROVE  f[m] = g[m]
  <2> DEFINE S == {k \in 0 .. m : f[k] = g[k]}
  <2>1. 0 \in S
    BY <1>2 DEF NestingOf
  <2>2. ASSUME NEW k \in 0 + 1 .. m, k - 1 \in S PROVE k \in S
    <3>1. f[k - 1] = g[k - 1]
      BY <2>2
    <3>2. f[k] = NestingOf(f, k) /\ g[k] = NestingOf(g, k)
      BY <1>2
    <3> QED
      BY <3>1, <3>2 DEF NestingOf
  <2>3. m \in S
    <3> HIDE DEF S
    <3> QED
      BY <2>1, <2>2, Upwards
  <2> QED
    BY <2>3
<1>3. ASSUME NEW d \in Nat PROVE N[d] = NestingOf(N, d)
  <2> DEFINE f == CHOOSE f : Upto(f, d)
  <2>1. Upto(f, d) /\ N[d] = f[d]
    <3>1. Upto(f, d)
      <4> HIDE DEF Upto
      <4> QED
        BY <1>1
    <3> QED
      BY <3>1
  <2>2. CASE d = 0
    <3>1. f[d] = NestingOf(f, d)
      BY <2>1
    <3> QED
      BY <2>1, <2>2, <3>1 DEF NestingOf
  <2>3. CASE d # 0
    <3> DEFINE e == d - 1
               g == CHOOSE h : Upto(h, e)
    <3>1. e \in Nat /\ e + 1 = d
      BY <2>3
    <3> HIDE DEF e
    <3>2. Upto(g, e)
      <4> HIDE DEF Upto
      <4> QED
        BY <1>1, <3>1
    <3>3. N[e] = g[e]
      BY <3>1
    <3> HIDE DEF f, g, N
    <3>4. g[e] = f[e]
      <4> HIDE DEF Upto
      <4> QED
        BY <1>2, <2>1, <3>1, <3>2
    <3>5. f[d] = Deeper(f[e])
      BY <2>1, <2>3 DEF NestingOf, e
    <3> QED
      BY <2>1, <2>3, <3>3, <3>4, <3>5 DEF NestingOf, e
  <2> QED
    BY <2>2, <2>3
<1>4. N = [d \in Nat |-> NestingOf(N, d)]
  <2>1. N = [d \in Nat |-> N[d]]
    OBVIOUS
  <2> HIDE DEF N
  <2> QED
    BY <1>3, <2>1
<1>5. E = [d \in Nat |-> NestingOf(E, d)]
  <2> HIDE DEF N
  <2> QED
    BY <1>4
<1>6. Nested = E
  BY DEF Nested, NestingOf, Deeper
<1> HIDE DEF E
<1> QED
  BY <1>5, <1>6

LEMMA NestedDeepens ==
  ASSUME NEW d \in Nat
  PROVE  Nested[0] = Atoms /\ Nested[d + 1] = Deeper(Nested[d])
<1>1. d + 1 \in Nat /\ d + 1 # 0 /\ (d + 1) - 1 = d
  OBVIOUS
<1> QED
  BY <1>1, NestedIs DEF NestingOf

LEMMA NestedGrows ==
  ASSUME NEW d \in Nat, NEW e \in Nat, d <= e
  PROVE  Nested[d] \subseteq Nested[e]
<1> DEFINE S == {k \in d .. e : Nested[d] \subseteq Nested[k]}
           T == {k \in 0 .. e : Nested[k] \subseteq Nested[k + 1]}
<1>1. \A P, Q : P \subseteq Q => Deeper(P) \subseteq Deeper(Q)
  <2> SUFFICES ASSUME NEW P, NEW Q, P \subseteq Q, NEW x \in Deeper(P) PROVE x \in Deeper(Q)
    OBVIOUS
  <2>1. Primaries(P) \subseteq Primaries(Q)
    BY DEF Primaries
  <2> QED
    BY <2>1 DEF Deeper
<1>2. \A k \in Nat : k \in 0 .. e => k \in T
  <2> SUFFICES ASSUME NEW k \in Nat, k \in 0 .. e PROVE k \in T
    OBVIOUS
  <2>1. 0 \in T
    <3>1. Nested[0 + 1] = Deeper(Nested[0]) /\ Nested[0] = Atoms
      BY NestedDeepens
    <3> QED
      BY <3>1 DEF Deeper, Primaries
  <2>2. ASSUME NEW j \in 0 + 1 .. k, j - 1 \in T PROVE j \in T
    <3>1. j - 1 \in Nat /\ j \in Nat /\ (j - 1) + 1 = j /\ j \in 0 .. e
      OBVIOUS
    <3>2. Nested[j] = Deeper(Nested[j - 1]) /\ Nested[j + 1] = Deeper(Nested[j])
      BY <3>1, NestedDeepens
    <3>3. Nested[j - 1] \subseteq Nested[j]
      BY <2>2, <3>1
    <3> QED
      BY <1>1, <3>1, <3>2, <3>3
  <2> HIDE DEF T
  <2> QED
    BY <2>1, <2>2, Upwards
<1>3. e \in S
  <2>1. d \in S
    OBVIOUS
  <2>2. ASSUME NEW j \in d + 1 .. e, j - 1 \in S PROVE j \in S
    <3>1. j - 1 \in Nat /\ j - 1 \in 0 .. e /\ (j - 1) + 1 = j
      OBVIOUS
    <3>2. Nested[j - 1] \subseteq Nested[j]
      BY <1>2, <3>1
    <3> QED
      BY <2>2, <3>2
  <2> HIDE DEF S
  <2> QED
    BY <2>1, <2>2, Upwards
<1> QED
  BY <1>3

\* Expressions are closed under what makes expressions of expressions.
LEMMA ExpressionsClosed ==
  /\ Atoms \subseteq Expressions
  /\ Primaries(Expressions) \subseteq Expressions
  /\ \A op \in Operators, l \in Primaries(Expressions), r \in Expressions :
        Applied(op, l, r) \in Expressions
<1>1. Atoms \subseteq Expressions
  BY NestedDeepens DEF Expressions
<1>2. ASSUME NEW p \in Expressions PROVE Parenthesized(p) \in Expressions
  <2>1. PICK d \in Nat : p \in Nested[d]
    BY DEF Expressions
  <2>2. Parenthesized(p) \in Nested[d + 1]
    BY <2>1, NestedDeepens DEF Deeper, Primaries
  <2> QED
    BY <2>2 DEF Expressions
<1>3. ASSUME NEW op \in Operators, NEW l \in Primaries(Expressions), NEW r \in Expressions
      PROVE  Applied(op, l, r) \in Expressions
  <2>1. PICK d \in Nat : l \in Primaries(Nested[d])
    <3>1. CASE l \in Atoms
      BY <3>1 DEF Primaries
    <3>2. CASE l \notin Atoms
      <4>1. PICK p \in Expressions : l = Parenthesized(p)
        BY <3>2 DEF Primaries
      <4>2. PICK d \in Nat : p \in Nested[d]
        BY DEF Expressions
      <4> QED
        BY <4>1, <4>2 DEF Primaries
    <3> QED
      BY <3>1, <3>2
  <2>2. PICK e \in Nat : r \in Nested[e]
    BY DEF Expressions
  <2> DEFINE m == IF d <= e THEN e ELSE d
  <2>3. m \in Nat /\ Nested[d] \subseteq Nested[m] /\ Nested[e] \subseteq Nested[m]
    BY NestedGrows
  <2> HIDE DEF m
  <2>4. l \in Primaries(Nested[m]) /\ r \in Nested[m]
    BY <2>1, <2>2, <2>3 DEF Primaries
  <2>5. Applied(op, l, r) \in Nested[m + 1]
    BY <2>3, <2>4, NestedDeepens DEF Deeper
  <2> QED
    BY <2>3, <2>5 DEF Expressions
<1> QED
  BY <1>1, <1>2, <1>3 DEF Primaries

\* What the atoms have and the two ways to make expressions keep, all expressions have.
LEMMA ExpressionInduction ==
  ASSUME NEW Q, Atoms \subseteq Q,
         \A P : P \subseteq Q /\ P \subseteq Expressions => Deeper(P) \subseteq Q
  PROVE  Expressions \subseteq Q
<1> SUFFICES ASSUME NEW d \in Nat PROVE Nested[d] \subseteq Q
  BY DEF Expressions
<1> DEFINE S == {k \in 0 .. d : Nested[k] \subseteq Q}
<1>1. 0 \in S
  BY NestedDeepens
<1>2. ASSUME NEW j \in 0 + 1 .. d, j - 1 \in S PROVE j \in S
  <2>1. j - 1 \in Nat /\ (j - 1) + 1 = j /\ j \in 0 .. d
    OBVIOUS
  <2>2. Nested[j] = Deeper(Nested[j - 1])
    BY <2>1, NestedDeepens
  <2>3. Nested[j - 1] \subseteq Expressions
    BY <2>1 DEF Expressions
  <2> QED
    BY <1>2, <2>1, <2>2, <2>3
<1>3. d \in S
  <2> HIDE DEF S
  <2> QED
    BY <1>1, <1>2, Upwards
<1> QED
  BY <1>3

LEMMA PhraseParts ==
  ASSUME NEW w, NEW n
  PROVE  Phrase(w, n).words = w /\ Phrase(w, n).node = n
BY DEF Phrase

IsText(w) == w \in Seq(Words) /\ Len(w) > 0

LEMMA EncloseText ==
  ASSUME NEW w \in Seq(Words)
  PROVE  IsText(Enclose(w)) /\ Len(Enclose(w)) = Len(w) + 2
<1>1. {"(", ")"} \subseteq Words
  BY DEF Words, Symbols
<1> QED
  BY <1>1 DEF Enclose, IsText

LEMMA AtomText == \A p \in Atoms : IsText(p.words) /\ Len(p.words) = 1
<1>1. \A w \in Words : IsText(<<w>>) /\ Len(<<w>>) = 1
  BY DEF IsText
<1>2. SUFFICES ASSUME NEW p \in Atoms PROVE \E w \in Words : p.words = <<w>>
  BY <1>1
<1>3. Names \subseteq Words /\ Fitting \subseteq Words /\ DOMAIN Quoted \subseteq Words
  BY DEF Words, Fitting
<1>4. CASE p \in {Column(w) : w \in Names}
  <2>1. PICK w \in Names : p = Column(w)
    BY <1>4
  <2>2. p.words = <<w>>
    BY <2>1, PhraseParts DEF Column
  <2> QED
    BY <1>3, <2>2
<1>5. CASE p \in {Integer(w) : w \in Fitting}
  <2>1. PICK w \in Fitting : p = Integer(w)
    BY <1>5
  <2>2. p.words = <<w>>
    BY <2>1, PhraseParts DEF Integer
  <2> QED
    BY <1>3, <2>2
<1>6. CASE p \in {String(w) : w \in DOMAIN Quoted}
  <2>1. PICK w \in DOMAIN Quoted : p = String(w)
    BY <1>6
  <2>2. p.words = <<w>>
    BY <2>1, PhraseParts DEF String
  <2> QED
    BY <1>3, <2>2
<1> QED
  BY <1>4, <1>5, <1>6 DEF Atoms

LEMMA ExpressionText == \A p \in Expressions : IsText(p.words)
<1> DEFINE Q == {p \in Expressions : IsText(p.words)}
<1>1. Atoms \subseteq Q
  BY AtomText, ExpressionsClosed
<1>2. ASSUME NEW P, P \subseteq Q PROVE Deeper(P) \subseteq Q
  <2>1. \A p \in Primaries(P) : p \in Primaries(Expressions) /\ IsText(p.words)
    <3>1. \A p \in P : IsText(Parenthesized(p).words)
      BY EncloseText, <1>2, PhraseParts DEF Parenthesized, IsText
    <3> QED
      BY <1>2, <3>1, AtomText DEF Primaries
  <2>2. ASSUME NEW op \in Operators, NEW l \in Primaries(P), NEW r \in P
        PROVE  Applied(op, l, r) \in Q
    <3>1. op \in Words
      BY DEF Words, Operators, Keywords, Symbols
    <3>2. IsText(l.words) /\ IsText(r.words)
      BY <1>2, <2>1
    <3>3. IsText(l.words \o <<op>> \o r.words)
      <4>1. IsText(l.words \o <<op>>)
        BY <3>1, <3>2 DEF IsText
      <4> DEFINE u == l.words \o <<op>>
                 v == r.words
      <4>2. u \in Seq(Words) /\ v \in Seq(Words) /\ Len(u) > 0
        BY <3>2, <4>1 DEF IsText
      <4> HIDE DEF u, v
      <4>3. u \o v \in Seq(Words) /\ Len(u \o v) > 0
        BY <4>2
      <4> QED
        BY <4>3 DEF IsText, u, v
    <3>4. Applied(op, l, r) \in Expressions
      BY <1>2, <2>1, ExpressionsClosed
    <3> QED
      BY <3>3, <3>4, PhraseParts DEF Applied
  <2> QED
    BY <2>1, <2>2, ExpressionsClosed DEF Deeper
<1> HIDE DEF Q
<1>3. Expressions \subseteq Q
  BY <1>1, <1>2, ExpressionInduction
<1> QED
  BY <1>3 DEF Q
-----------------------------------------------------------------------------
(* Tokens of a text.                                                        *)

WordAt(txt, k, w) == k <= Len(txt) /\ txt[k] = w

LEMMA OperatorsAreWords == Operators \subseteq Keywords \cup Symbols
BY DEF Operators, Keywords, Symbols

LEMMA TextEnds ==
  ASSUME NEW txt \in Seq(Words)
  PROVE  /\ Ending(Tokenize(txt)) /\ Len(Tokenize(txt)) = Len(txt) + 1 /\ Len(txt) \in Nat
BY TokensOf DEF Ending

LEMMA TokenAt ==
  ASSUME NEW txt \in Seq(Words), NEW k \in 1 .. Len(txt) + 1
  PROVE  LET ts == Tokenize(txt) IN
         /\ \A w \in Keywords \cup Symbols : Is(ts, k, w) <=> WordAt(txt, k, w)
         /\ ts[k].type \in Operators <=> \E op \in Operators : WordAt(txt, k, op)
         /\ Is(ts, k, "IDENT") <=> k <= Len(txt) /\ txt[k] \in Names
         /\ Is(ts, k, "IDENT") => ts[k].name = txt[k]
         /\ Is(ts, k, "INT_LITERAL") <=> k <= Len(txt) /\ txt[k] \in DOMAIN Number
         /\ Is(ts, k, "INT_LITERAL") => ts[k].int = Number[txt[k]]
         /\ Is(ts, k, "STR_LITERAL") <=> k <= Len(txt) /\ txt[k] \in DOMAIN Quoted
         /\ Is(ts, k, "STR_LITERAL") => ts[k].str = Quoted[txt[k]]
<1> DEFINE ts == Tokenize(txt)
<1>1. CASE k = Len(txt) + 1
  <2>1. ts[k].type = "END" /\ ~(k <= Len(txt))
    BY <1>1, TokensOf
  <2>2. "END" \notin Keywords \cup Symbols
    BY DEF Keywords, Symbols, Compare
  <2> QED
    BY <2>1, <2>2, OperatorsAreWords DEF Is, WordAt
<1>2. CASE k # Len(txt) + 1
  <2>1. k \in 1 .. Len(txt)
    BY <1>2
  <2> DEFINE w == txt[k]
  <2>2. w \in Words /\ ts[k] = Token(w) /\ k <= Len(txt)
    BY <2>1, TokensOf
  <2> HIDE DEF w, ts
  <2>3. \A x \in Keywords \cup Symbols : Is(ts, k, x) <=> w = x
    BY <2>2, TypeOfToken DEF Is
  <2>4. ts[k].type \in Operators <=> \E op \in Operators : w = op
    BY <2>3, OperatorsAreWords DEF Is
  <2>5. Is(ts, k, "IDENT") <=> w \in Names
    BY <2>2, TypeOfToken DEF Is
  <2>6. w \in Names => ts[k].name = w
    BY <2>2, TokenOf
  <2>7. Is(ts, k, "INT_LITERAL") <=> w \in DOMAIN Number
    BY <2>2, TypeOfToken DEF Is
  <2>8. w \in DOMAIN Number => ts[k].int = Number[w]
    BY <2>2, TokenOf
  <2>9. Is(ts, k, "STR_LITERAL") <=> w \in DOMAIN Quoted
    BY <2>2, TypeOfToken DEF Is
  <2>10. w \in DOMAIN Quoted => ts[k].str = Quoted[w]
    BY <2>2, TokenOf
  <2> QED
    BY <2>2, <2>3, <2>4, <2>5, <2>6, <2>7, <2>8, <2>9, <2>10 DEF w, ts, WordAt
<1> QED
  BY <1>1, <1>2

LEMMA StandsEnd ==
  ASSUME NEW txt \in Seq(Words), NEW i \in Nat \ {0}, NEW w, IsText(w), Stands(txt, i, w)
  PROVE  i \in 1 .. Len(txt) /\ i + Len(w) \in i + 1 .. Len(txt) + 1 /\ Len(w) \in Nat
BY DEF Stands, IsText

\* Words in parentheses.
LEMMA StandsEnclosed ==
  ASSUME NEW txt \in Seq(Words), NEW i \in Nat \ {0}, NEW w \in Seq(Words)
  PROVE  Stands(txt, i, Enclose(w)) <=>
           WordAt(txt, i, "(") /\ Stands(txt, i + 1, w) /\ WordAt(txt, i + 1 + Len(w), ")")
<1>1. "(" \in Words /\ ")" \in Words
  BY DEF Words, Symbols
<1>2. <<"(">> \in Seq(Words) /\ <<")">> \in Seq(Words) /\ Len(<<"(">>) = 1 /\ Len(w) \in Nat
  BY <1>1
<1> DEFINE u == <<"(">> \o w
<1>3. u \in Seq(Words) /\ Len(u) = 1 + Len(w)
  BY <1>2, StandsTwo
<1>4. Stands(txt, i, u) <=> Stands(txt, i, <<"(">>) /\ Stands(txt, i + 1, w)
  BY <1>2, StandsTwo
<1> DEFINE v == <<")">>
<1>5. Enclose(w) = u \o v /\ v \in Seq(Words)
  BY <1>1 DEF Enclose
<1> HIDE DEF u, v
<1>9. Stands(txt, i, u \o v) <=> Stands(txt, i, u) /\ Stands(txt, i + Len(u), v)
  BY <1>3, <1>5, StandsTwo
<1>6. Stands(txt, i, Enclose(w)) <=> Stands(txt, i, u) /\ Stands(txt, i + Len(u), <<")">>)
  BY <1>5, <1>9 DEF v
<1>7. i + Len(u) \in Nat \ {0} /\ i + Len(u) = i + 1 + Len(w)
  BY <1>2, <1>3
<1> QED
  BY <1>4, <1>6, <1>7, StandsOne DEF WordAt

\* An operation.
LEMMA StandsApplied ==
  ASSUME NEW txt \in Seq(Words), NEW i \in Nat \ {0}, NEW u \in Seq(Words), NEW v \in Seq(Words),
         NEW op \in Words
  PROVE  /\ Stands(txt, i, u \o <<op>> \o v) <=>
              /\ Stands(txt, i, u) /\ WordAt(txt, i + Len(u), op)
              /\ Stands(txt, i + Len(u) + 1, v)
         /\ Len(u \o <<op>> \o v) = Len(u) + 1 + Len(v)
         /\ u \o <<op>> \o v \in Seq(Words)
<1> DEFINE x == u \o <<op>>
<1>1. <<op>> \in Seq(Words) /\ Len(<<op>>) = 1 /\ Len(u) \in Nat /\ Len(v) \in Nat
  OBVIOUS
<1>2. x \in Seq(Words) /\ Len(x) = Len(u) + 1
  BY <1>1, StandsTwo
<1>3. Stands(txt, i, x) <=> Stands(txt, i, u) /\ Stands(txt, i + Len(u), <<op>>)
  BY <1>1, StandsTwo
<1> HIDE DEF x
<1>4. /\ Stands(txt, i, x \o v) <=> Stands(txt, i, x) /\ Stands(txt, i + Len(x), v)
      /\ Len(x \o v) = Len(x) + Len(v) /\ x \o v \in Seq(Words)
  BY <1>2, StandsTwo
<1>5. i + Len(u) \in Nat \ {0} /\ i + Len(x) = i + Len(u) + 1
  BY <1>1, <1>2
<1>6. Stands(txt, i + Len(u), <<op>>) <=> WordAt(txt, i + Len(u), op)
  BY <1>5, StandsOne DEF WordAt
<1> QED
  BY <1>1, <1>2, <1>3, <1>4, <1>5, <1>6 DEF x

-----------------------------------------------------------------------------
(* What is written is read: expressions.                                    *)

Expression(txt, i) == ParseExpression(Tokenize(txt))[i]
Primary(txt, i) == ParsePrimary(Tokenize(txt), ParseExpression(Tokenize(txt)), i)

OperatorAt(txt, k) == \E op \in Operators : WordAt(txt, k, op)

Readable(txt, p) ==
  \A i \in 1 .. Len(txt) :
     LET k == i + Len(p.words)
     IN  Stands(txt, i, p.words) /\ ~OperatorAt(txt, k) => Got(p.node, k) \in Expression(txt, i)

\* Whatever stands behind it.
ReadAnywhere(txt, p) ==
  \A i \in 1 .. Len(txt) :
     Stands(txt, i, p.words) => Got(p.node, i + Len(p.words)) \in Primary(txt, i)

LEMMA AtomRead ==
  ASSUME NEW txt \in Seq(Words), NEW p \in Atoms
  PROVE  ReadAnywhere(txt, p)
<1> SUFFICES ASSUME NEW i \in 1 .. Len(txt), Stands(txt, i, p.words)
             PROVE  Got(p.node, i + Len(p.words)) \in Primary(txt, i)
  BY DEF ReadAnywhere
<1> DEFINE ts == Tokenize(txt)
<1>1. Len(p.words) = 1 /\ IsText(p.words)
  BY AtomText
<1>0. /\ Is(ts, i, "IDENT") <=> txt[i] \in Names
      /\ Is(ts, i, "IDENT") => ts[i].name = txt[i]
      /\ Is(ts, i, "INT_LITERAL") <=> txt[i] \in DOMAIN Number
      /\ Is(ts, i, "INT_LITERAL") => ts[i].int = Number[txt[i]]
      /\ Is(ts, i, "STR_LITERAL") <=> txt[i] \in DOMAIN Quoted
      /\ Is(ts, i, "STR_LITERAL") => ts[i].str = Quoted[txt[i]]
  BY TokenAt
<1> HIDE DEF ts
<1>2. CASE p \in {Column(w) : w \in Names}
  <2>1. PICK w \in Names : p = Column(w)
    BY <1>2
  <2>2. p.words = <<w>> /\ p.node = ColumnRef(w)
    BY <2>1, PhraseParts DEF Column
  <2>3. txt[i] = w
    BY <2>2, StandsOne
  <2>4. Is(ts, i, "IDENT") /\ ts[i].name = w
    BY <1>0, <2>3
  <2>5. ParsePrimary(ts, ParseExpression(ts), i) = {Got(ColumnRef(w), i + 1)}
    BY <2>4 DEF ParsePrimary, Is
  <2> QED
    BY <1>1, <2>2, <2>5 DEF Primary, ts
<1>3. CASE p \in {Integer(w) : w \in Fitting}
  <2>1. PICK w \in Fitting : p = Integer(w)
    BY <1>3
  <2>2. p.words = <<w>> /\ p.node = Literal("INT", Number[w])
    BY <2>1, PhraseParts DEF Integer
  <2>3. txt[i] = w /\ w \in DOMAIN Number /\ Number[w] <= MaxInt
    BY <2>2, StandsOne DEF Fitting
  <2>4. Is(ts, i, "INT_LITERAL") /\ ts[i].int = Number[w]
    BY <1>0, <2>3
  <2>5. ParsePrimary(ts, ParseExpression(ts), i) = {Got(Literal("INT", Number[w]), i + 1)}
    BY <2>3, <2>4 DEF ParsePrimary, Is
  <2> QED
    BY <1>1, <2>2, <2>5 DEF Primary, ts
<1>4. CASE p \in {String(w) : w \in DOMAIN Quoted}
  <2>1. PICK w \in DOMAIN Quoted : p = String(w)
    BY <1>4
  <2>2. p.words = <<w>> /\ p.node = Literal("STRING", Quoted[w])
    BY <2>1, PhraseParts DEF String
  <2>3. txt[i] = w
    BY <2>2, StandsOne
  <2>4. Is(ts, i, "STR_LITERAL") /\ ts[i].str = Quoted[w]
    BY <1>0, <2>3
  <2>5. ParsePrimary(ts, ParseExpression(ts), i) = {Got(Literal("STRING", Quoted[w]), i + 1)}
    BY <2>4 DEF ParsePrimary, Is
  <2> QED
    BY <1>1, <2>2, <2>5 DEF Primary, ts
<1> QED
  BY <1>2, <1>3, <1>4 DEF Atoms

LEMMA ParenthesizedRead ==
  ASSUME NEW txt \in Seq(Words), NEW p \in Expressions, Readable(txt, p)
  PROVE  ReadAnywhere(txt, Parenthesized(p))
<1> DEFINE w == p.words
           ts == Tokenize(txt)
<1>0. Parenthesized(p).words = Enclose(w) /\ Parenthesized(p).node = p.node
  BY PhraseParts DEF Parenthesized
<1>1. IsText(w) /\ w \in Seq(Words) /\ Len(w) \in Nat /\ Len(Enclose(w)) = Len(w) + 2
  BY ExpressionText, EncloseText DEF IsText
<1> HIDE DEF w
<1> SUFFICES ASSUME NEW i \in 1 .. Len(txt), Stands(txt, i, Enclose(w))
             PROVE  Got(p.node, i + (Len(w) + 2)) \in Primary(txt, i)
  BY <1>0, <1>1 DEF ReadAnywhere
<1> DEFINE k == i + 1 + Len(w)
<1>2. WordAt(txt, i, "(") /\ Stands(txt, i + 1, w) /\ WordAt(txt, k, ")")
  BY <1>1, StandsEnclosed
<1>3. i + 1 \in 1 .. Len(txt) /\ k \in 1 .. Len(txt) + 1 /\ k + 1 = i + (Len(w) + 2)
  BY <1>1, <1>2 DEF WordAt
<1>4. ~OperatorAt(txt, k)
  BY <1>2 DEF OperatorAt, WordAt, Operators, Compare
<1>5. Got(p.node, k) \in ParseExpression(ts)[i + 1]
  <2>1. k = (i + 1) + Len(w)
    OBVIOUS
  <2> HIDE DEF k
  <2> QED
    BY <1>2, <1>3, <1>4, <2>1 DEF Readable, Expression, w
<1>6. Is(ts, i, "(") /\ Is(ts, k, ")")
  <2>1. {"(", ")"} \subseteq Keywords \cup Symbols
    BY DEF Symbols
  <2>2. i \in 1 .. Len(txt) + 1
    BY <1>1
  <2> HIDE DEF k
  <2> QED
    BY <1>2, <1>3, <2>1, <2>2, TokenAt
<1> HIDE DEF k, ts
<1>7. Primary(txt, i) = Expect(ts, ParseExpression(ts)[i + 1], ")")
  BY <1>6 DEF Primary, ParsePrimary, Is, ts
<1>8. Got(p.node, k + 1) \in Expect(ts, ParseExpression(ts)[i + 1], ")")
  BY <1>5, <1>6, GotParts DEF Expect
<1> QED
  BY <1>3, <1>7, <1>8

LEMMA PrimaryRead ==
  ASSUME NEW txt \in Seq(Words), NEW P, P \subseteq Expressions, \A p \in P : Readable(txt, p),
         NEW q \in Primaries(P)
  PROVE  ReadAnywhere(txt, q)
BY AtomRead, ParenthesizedRead DEF Primaries

LEMMA BehindPrimary ==
  ASSUME NEW txt \in Seq(Words), NEW i \in 1 .. Len(txt), NEW lhs \in Primary(txt, i)
  PROVE  LET E == ParseExpression(Tokenize(txt))
             op == Tokenize(txt)[lhs.pos].type
         IN  /\ op \notin Operators => lhs \in E[i]
             /\ op \in Operators => \A rhs \in E[lhs.pos + 1] : Operation(op, lhs, rhs) \in E[i]
<1> DEFINE ts == Tokenize(txt)
           E == ParseExpression(ts)
<1>1. E[i] = MakeExpression(ts, E, i)
  BY TextEnds, ExpressionIs
<1>2. Climb(ts, E, lhs) \subseteq E[i]
  BY <1>1 DEF MakeExpression, Primary
<1> QED
  BY <1>2 DEF Climb

LEMMA ExpressionRead ==
  ASSUME NEW txt \in Seq(Words)
  PROVE  \A p \in Expressions : Readable(txt, p)
<1> DEFINE Q == {p \in Expressions : Readable(txt, p)}
           ts == Tokenize(txt)
           E == ParseExpression(ts)
<1>1. ASSUME NEW p \in Expressions, ReadAnywhere(txt, p) PROVE Readable(txt, p)
  <2> DEFINE w == p.words
  <2> SUFFICES ASSUME NEW i \in 1 .. Len(txt), Stands(txt, i, w), ~OperatorAt(txt, i + Len(w))
               PROVE  Got(p.node, i + Len(w)) \in E[i]
    BY DEF Readable, Expression
  <2> DEFINE k == i + Len(w)
  <2>1. Got(p.node, k) \in Primary(txt, i)
    BY <1>1 DEF ReadAnywhere
  <2>2. k \in 1 .. Len(txt) + 1
    BY ExpressionText, StandsEnd
  <2> HIDE DEF k
  <2>3. ts[k].type \notin Operators
    BY <2>2, TokenAt DEF OperatorAt, k
  <2> QED
    BY <2>1, <2>3, BehindPrimary, GotParts DEF k
<1>2. ASSUME NEW P, P \subseteq Q PROVE Deeper(P) \subseteq Q
  <2>1. \A q \in Primaries(P) : q \in Primaries(Expressions) /\ q \in Expressions /\ ReadAnywhere(txt, q)
    <3>1. \A p \in P : p \in Expressions /\ Readable(txt, p)
      BY <1>2
    <3>2. \A q \in Primaries(P) : q \in Primaries(Expressions)
      BY <3>1 DEF Primaries
    <3> QED
      BY <3>1, <3>2, PrimaryRead, ExpressionsClosed
  <2>2. ASSUME NEW op \in Operators, NEW l \in Primaries(P), NEW r \in P
        PROVE  Applied(op, l, r) \in Q
    <3> DEFINE a == Applied(op, l, r)
               u == l.words
               v == r.words
    <3>1. /\ l \in Primaries(Expressions) /\ l \in Expressions /\ ReadAnywhere(txt, l)
          /\ r \in Expressions /\ Readable(txt, r)
      BY <1>2, <2>1
    <3>2. a \in Expressions
      BY <3>1, ExpressionsClosed
    <3>3. a.words = u \o <<op>> \o v /\ a.node = BinaryOp(op, l.node, r.node)
      BY PhraseParts DEF Applied
    <3>4. IsText(u) /\ IsText(v) /\ u \in Seq(Words) /\ v \in Seq(Words) /\ op \in Words
      BY <3>1, ExpressionText, OperatorsAreWords DEF IsText, Words
    <3> HIDE DEF a, u, v
    <3>5. ASSUME NEW i \in 1 .. Len(txt), Stands(txt, i, a.words),
                 ~OperatorAt(txt, i + Len(a.words))
          PROVE  Got(a.node, i + Len(a.words)) \in E[i]
      <4> DEFINE k == i + Len(u)
                 m == k + 1 + Len(v)
      <4>1. /\ Stands(txt, i, u) /\ WordAt(txt, k, op) /\ Stands(txt, k + 1, v)
            /\ i + Len(a.words) = m
        <5>1. /\ Stands(txt, i, u) /\ WordAt(txt, k, op) /\ Stands(txt, k + 1, v)
              /\ Len(a.words) = Len(u) + 1 + Len(v)
          BY <3>3, <3>4, <3>5, StandsApplied
        <5>2. Len(u) \in Nat /\ Len(v) \in Nat
          BY <3>4
        <5> QED
          BY <5>1, <5>2
      <4>2. k \in 1 .. Len(txt) + 1 /\ k \in Nat
        BY <3>4, <4>1, StandsEnd
      <4>3. k + 1 \in 1 .. Len(txt)
        <5>1. k + 1 \in Nat \ {0}
          BY <4>2
        <5> QED
          BY <3>4, <4>1, <5>1, StandsEnd
      <4> HIDE DEF k, m
      <4>4. Got(l.node, k) \in Primary(txt, i)
        BY <3>1, <4>1 DEF ReadAnywhere, u, k
      <4>5. Got(r.node, m) \in E[k + 1]
        BY <3>1, <3>5, <4>1, <4>3 DEF Readable, Expression, v, m
      <4>6. ts[k].type = op
        BY <4>1, <4>2, TokenAt, OperatorsAreWords DEF Is
      <4>7. Operation(op, Got(l.node, k), Got(r.node, m)) \in E[i]
        <5> DEFINE lhs == Got(l.node, k)
                   rhs == Got(r.node, m)
        <5>1. lhs \in Primary(txt, i) /\ lhs.pos = k /\ rhs \in E[lhs.pos + 1]
          BY <4>4, <4>5, GotParts
        <5> HIDE DEF lhs, rhs
        <5>2. ts[lhs.pos].type = op
          BY <4>6, <5>1
        <5>3. Operation(op, lhs, rhs) \in E[i]
          BY <5>1, <5>2, BehindPrimary
        <5> QED
          BY <5>3 DEF lhs, rhs
      <4> QED
        BY <3>3, <4>1, <4>7, GotParts DEF Operation
    <3>6. Readable(txt, a)
      BY <3>5 DEF Readable, Expression
    <3> QED
      BY <3>2, <3>6 DEF a
  <2>3. \A q \in Primaries(P) : q \in Q
    BY <1>1, <2>1
  <2> HIDE DEF Q
  <2> QED
    BY <2>2, <2>3 DEF Deeper
<1>3. Atoms \subseteq Q
  BY <1>1, AtomRead, ExpressionsClosed
<1> HIDE DEF Q
<1>4. Expressions \subseteq Q
  BY <1>2, <1>3, ExpressionInduction
<1> QED
  BY <1>4 DEF Q

-----------------------------------------------------------------------------
(* Lists.                                                                   *)

IsPhrases(P) == \A p \in P : IsText(p.words)

LEMMA ConcatWords ==
  ASSUME NEW a \in Seq(Words), NEW b \in Seq(Words)
  PROVE  /\ a \o b \in Seq(Words) /\ Len(a \o b) = Len(a) + Len(b)
         /\ \A i \in 1 .. Len(a) + Len(b) : (a \o b)[i] = IF i <= Len(a) THEN a[i] ELSE b[i - Len(a)]
BY ConcatProperties

LEMMA Associative ==
  ASSUME NEW a \in Seq(Words), NEW b \in Seq(Words), NEW c \in Seq(Words)
  PROVE  a \o (b \o c) = (a \o b) \o c
<1> DEFINE u == b \o c
           v == a \o b
           x == a \o u
           y == v \o c
           k == Len(a)
           l == Len(b)
           m == Len(c)
<1>1. /\ u \in Seq(Words) /\ Len(u) = l + m
      /\ \A i \in 1 .. l + m : u[i] = IF i <= l THEN b[i] ELSE c[i - l]
  BY ConcatWords
<1>2. /\ v \in Seq(Words) /\ Len(v) = k + l
      /\ \A i \in 1 .. k + l : v[i] = IF i <= k THEN a[i] ELSE b[i - k]
  BY ConcatWords
<1>3. k \in Nat /\ l \in Nat /\ m \in Nat
  OBVIOUS
<1> HIDE DEF u, v
<1>4. /\ x \in Seq(Words) /\ Len(x) = k + (l + m)
      /\ \A i \in 1 .. k + (l + m) : x[i] = IF i <= k THEN a[i] ELSE u[i - k]
  BY <1>1, ConcatWords
<1>5. /\ y \in Seq(Words) /\ Len(y) = (k + l) + m
      /\ \A i \in 1 .. (k + l) + m : y[i] = IF i <= k + l THEN v[i] ELSE c[i - (k + l)]
  <2>1. v \in Seq(Words)
    BY <1>2
  <2>2. /\ y \in Seq(Words) /\ Len(y) = Len(v) + m
        /\ \A i \in 1 .. Len(v) + m : y[i] = IF i <= Len(v) THEN v[i] ELSE c[i - Len(v)]
    BY <2>1, ConcatWords
  <2> HIDE DEF y, m
  <2> QED
    BY <1>2, <2>2
<1> HIDE DEF x, y, k, l, m
<1>6. Len(x) = Len(y)
  BY <1>3, <1>4, <1>5
<1>7. ASSUME NEW i \in 1 .. Len(x) PROVE x[i] = y[i]
  <2>1. CASE i <= k
    BY <1>2, <1>3, <1>4, <1>5, <2>1
  <2>2. CASE k < i /\ i <= k + l
    <3>1. i - k \in 1 .. l + m /\ i - k <= l /\ i \in 1 .. k + l
      BY <1>3, <1>4, <2>2
    <3> QED
      BY <1>1, <1>2, <1>3, <1>4, <1>5, <2>2, <3>1
  <2>3. CASE k + l < i
    <3>1. i - k \in 1 .. l + m /\ ~(i - k <= l) /\ (i - k) - l = i - (k + l)
      BY <1>3, <1>4, <2>3
    <3>2. x[i] = u[i - k]
      BY <1>3, <1>4, <2>3
    <3>3. u[i - k] = c[i - (k + l)]
      BY <1>1, <3>1
    <3>4. i \in 1 .. (k + l) + m /\ ~(i <= k + l)
      BY <1>3, <1>4, <2>3
    <3> QED
      BY <1>5, <3>2, <3>3, <3>4
  <2> QED
    BY <1>3, <1>4, <2>1, <2>2, <2>3
<1>8. x = y
  BY <1>4, <1>5, <1>6, <1>7, SeqEqual
<1> QED
  BY <1>8 DEF u, v, x, y

\* FlattenSeq of a longer sequence.
LEMMA FlattenCons ==
  ASSUME NEW s \in Seq(Seq(Words)), s # <<>>, NEW t \in Seq(Seq(Words)), Len(t) = Len(s) + 1,
         NEW u \in Seq(Words), t[2] = u \o s[1], \A j \in 2 .. Len(s) : t[j + 1] = s[j]
  PROVE  FlattenSeq(t) = (t[1] \o u) \o FlattenSeq(s)
<1> DEFINE n == Len(s)
           a == t[1] \o u
<1>1. n \in Nat /\ n >= 1 /\ t # <<>>
  BY EmptySeq
<1>2. PICK f \in [1 .. n -> Seq(Words)] :
        /\ f[1] = s[1] /\ FlattenSeq(s) = f[n]
        /\ \A i \in 2 .. n : f[i] = f[i - 1] \o s[i]
  BY FlattenDef
<1>3. PICK g \in [1 .. n + 1 -> Seq(Words)] :
        /\ g[1] = t[1] /\ FlattenSeq(t) = g[n + 1]
        /\ \A i \in 2 .. n + 1 : g[i] = g[i - 1] \o t[i]
  <2>1. \E g \in [1 .. Len(t) -> Seq(Words)] :
           /\ g[1] = t[1]
           /\ \A i \in 2 .. Len(t) : g[i] = g[i - 1] \o t[i]
           /\ FlattenSeq(t) = g[Len(t)]
    BY <1>1, FlattenDef
  <2> QED
    BY <2>1
<1>4. /\ t[1] \in Seq(Words) /\ a \in Seq(Words)
      /\ \A i \in 1 .. n : s[i] \in Seq(Words)
  <2>1. 1 \in 1 .. Len(t)
    BY <1>1
  <2>2. t[1] \in Seq(Words)
    BY <2>1
  <2> QED
    BY <2>2
<1> HIDE DEF n
<1> DEFINE X == {j \in 1 .. n : g[j + 1] = a \o f[j]}
<1>5. 1 \in X
  <2>0. 2 \in 2 .. n + 1 /\ 2 - 1 = 1 /\ 1 \in 1 .. n /\ 1 + 1 = 2
    BY <1>1
  <2>1. g[2] = g[2 - 1] \o t[2]
    BY <1>3, <2>0
  <2> DEFINE b == t[1]
             c == s[1]
  <2>2. g[2] = b \o (u \o c)
    BY <1>3, <2>0, <2>1
  <2>3. b \in Seq(Words) /\ c \in Seq(Words)
    BY <1>4, <2>0
  <2> HIDE DEF b, c
  <2>4. b \o (u \o c) = (b \o u) \o c
    BY <2>3, Associative
  <2>5. g[1 + 1] = a \o f[1]
    BY <1>2, <2>0, <2>2, <2>4 DEF b, c
  <2> QED
    BY <2>0, <2>5
<1>6. ASSUME NEW j \in 1 + 1 .. n, j - 1 \in X PROVE j \in X
  <2>1. j \in 2 .. n /\ j + 1 \in 2 .. n + 1 /\ (j + 1) - 1 = j /\ j - 1 \in 1 .. n /\ (j - 1) + 1 = j /\ j \in 1 .. n
    BY <1>1
  <2>2. g[j + 1] = g[j] \o s[j]
    BY <1>3, <2>1 DEF n
  <2>3. g[j] = a \o f[j - 1]
    BY <1>6, <2>1
  <2>4. f[j - 1] \in Seq(Words) /\ s[j] \in Seq(Words) /\ f[j] = f[j - 1] \o s[j]
    BY <1>2, <1>4, <2>1
  <2> DEFINE b == f[j - 1]
             c == s[j]
  <2>5. a \in Seq(Words) /\ b \in Seq(Words) /\ c \in Seq(Words)
    BY <1>4, <2>4
  <2> HIDE DEF a, b, c
  <2>6. (a \o b) \o c = a \o (b \o c)
    BY <2>5, Associative
  <2>7. g[j + 1] = a \o f[j]
    BY <2>2, <2>3, <2>4, <2>6 DEF b, c
  <2> QED
    BY <2>1, <2>7 DEF a
<1>7. n \in X
  <2> HIDE DEF X
  <2> QED
    BY <1>1, <1>5, <1>6, Upwards
<1> QED
  BY <1>2, <1>3, <1>7

CommaBefore(ps) == [i \in DOMAIN ps |-> IF i = 1 THEN ps[i].words ELSE <<",">> \o ps[i].words]
NodesOf(ps) == [i \in DOMAIN ps |-> ps[i].node]

LEMMA OneWord ==
  ASSUME NEW w \in Words
  PROVE  <<w>> \in Seq(Words) /\ Len(<<w>>) = 1
OBVIOUS

LEMMA CommaWord == "," \in Words
BY DEF Words, Symbols

LEMMA CommaText ==
  ASSUME NEW P, IsPhrases(P), NEW ps \in Seq(P)
  PROVE  CommaBefore(ps) \in Seq(Seq(Words)) /\ Len(CommaBefore(ps)) = Len(ps)
<1>1. ASSUME NEW i \in 1 .. Len(ps)
      PROVE  (IF i = 1 THEN ps[i].words ELSE <<",">> \o ps[i].words) \in Seq(Words)
  <2> DEFINE w == ps[i].words
  <2>1. w \in Seq(Words)
    BY DEF IsPhrases, IsText
  <2> HIDE DEF w
  <2>2. <<",">> \o w \in Seq(Words)
    <3> DEFINE c == <<",">>
    <3>1. c \in Seq(Words)
      BY CommaWord, OneWord
    <3> HIDE DEF c
    <3>2. c \o w \in Seq(Words)
      BY <2>1, <3>1
    <3> QED
      BY <3>2 DEF c
  <2> QED
    BY <2>1, <2>2 DEF w
<1> DEFINE F(i) == IF i = 1 THEN ps[i].words ELSE <<",">> \o ps[i].words
<1>2. CommaBefore(ps) = [i \in 1 .. Len(ps) |-> F(i)]
  BY DEF CommaBefore
<1>3. \A i \in 1 .. Len(ps) : F(i) \in Seq(Words)
  BY <1>1
<1> HIDE DEF F
<1> QED
  BY <1>2, <1>3

\* A list is its first phrase, or that, a comma and the list of the others.
LEMMA ListedOne ==
  ASSUME NEW P, IsPhrases(P), NEW p \in P
  PROVE  Listed(<<p>>).words = p.words /\ Listed(<<p>>).node = <<p.node>>
<1> DEFINE s == CommaBefore(<<p>>)
<1> DEFINE ps == <<p>>
<1>0. ps \in Seq(P) /\ Len(ps) = 1
  OBVIOUS
<1>1. s \in Seq(Seq(Words)) /\ Len(s) = 1
  <2> HIDE DEF ps
  <2>1. CommaBefore(ps) \in Seq(Seq(Words)) /\ Len(CommaBefore(ps)) = Len(ps)
    BY <1>0, CommaText
  <2> QED
    BY <1>0, <2>1 DEF ps
<1>2. s[1] = p.words
  BY DEF CommaBefore
<1> HIDE DEF s
<1>3. FlattenSeq(s) = s[1]
  <2>1. s # <<>>
    BY <1>1
  <2>2. \E f \in [1 .. Len(s) -> Seq(Words)] : f[1] = s[1] /\ FlattenSeq(s) = f[Len(s)]
    BY <1>1, <2>1, FlattenDef
  <2> QED
    BY <1>1, <2>2
<1>4. NodesOf(<<p>>) = <<p.node>>
  BY DEF NodesOf
<1> QED
  BY <1>2, <1>3, <1>4, PhraseParts DEF Listed, CommaBefore, NodesOf, s

LEMMA ListedMore ==
  ASSUME NEW P, IsPhrases(P), NEW p \in P, NEW ps \in Seq(P), ps # <<>>
  PROVE  /\ Listed(<<p>> \o ps).words = p.words \o <<",">> \o Listed(ps).words
         /\ Listed(<<p>> \o ps).node = <<p.node>> \o Listed(ps).node
<1> DEFINE qs == <<p>> \o ps
           s == CommaBefore(ps)
           t == CommaBefore(qs)
           n == Len(ps)
<1>1. /\ qs \in Seq(P) /\ Len(qs) = n + 1 /\ n \in Nat /\ n >= 1
      /\ qs[1] = p /\ \A j \in 1 .. n : qs[j + 1] = ps[j]
  BY EmptySeq
<1> HIDE DEF qs
<1>2. s \in Seq(Seq(Words)) /\ Len(s) = n /\ t \in Seq(Seq(Words)) /\ Len(t) = n + 1
  BY <1>1, CommaText
<1>3. t[1] = p.words /\ s[1] = ps[1].words
  <2>1. 1 \in DOMAIN qs /\ 1 \in DOMAIN ps
    BY <1>1
  <2>2. t[1] = qs[1].words /\ s[1] = ps[1].words
    BY <2>1 DEF CommaBefore
  <2> QED
    BY <1>1, <2>2
<1>4. t[2] = <<",">> \o s[1]
  <2>1. 2 \in DOMAIN qs /\ 1 \in 1 .. n /\ 1 + 1 = 2
    BY <1>1
  <2>2. qs[2] = ps[1]
    BY <1>1, <2>1
  <2>3. t[2] = IF 2 = 1 THEN qs[2].words ELSE <<",">> \o qs[2].words
    BY <2>1 DEF CommaBefore
  <2>4. 2 # 1
    OBVIOUS
  <2> QED
    BY <1>3, <2>2, <2>3, <2>4
<1>5. \A j \in 2 .. n : t[j + 1] = s[j]
  <2> SUFFICES ASSUME NEW j \in 2 .. n PROVE t[j + 1] = s[j]
    OBVIOUS
  <2>1. j + 1 \in DOMAIN qs /\ j \in DOMAIN ps /\ qs[j + 1] = ps[j] /\ j + 1 # 1 /\ j # 1
    BY <1>1
  <2> QED
    BY <2>1 DEF CommaBefore
<1> HIDE DEF s, t
<1>6. FlattenSeq(t) = (t[1] \o <<",">>) \o FlattenSeq(s)
  <2> DEFINE c == <<",">>
  <2>1. s # <<>> /\ s \in Seq(Seq(Words)) /\ t \in Seq(Seq(Words)) /\ Len(t) = Len(s) + 1
    BY <1>1, <1>2
  <2>2. c \in Seq(Words)
    BY CommaWord, OneWord
  <2> HIDE DEF c
  <2>3. t[2] = c \o s[1] /\ \A j \in 2 .. Len(s) : t[j + 1] = s[j]
    BY <1>2, <1>4, <1>5 DEF c
  <2>4. FlattenSeq(t) = (t[1] \o c) \o FlattenSeq(s)
    BY <2>1, <2>2, <2>3, FlattenCons
  <2> QED
    BY <2>4 DEF c
<1>7. NodesOf(qs) = <<p.node>> \o NodesOf(ps)
  <2> DEFINE N == {x.node : x \in P}
  <2>1. NodesOf(ps) \in Seq(N) /\ Len(NodesOf(ps)) = n /\ \A j \in 1 .. n : NodesOf(ps)[j] = ps[j].node
    BY DEF NodesOf
  <2>2. NodesOf(qs) \in Seq(N) /\ Len(NodesOf(qs)) = n + 1 /\ \A j \in 1 .. n + 1 : NodesOf(qs)[j] = qs[j].node
    BY <1>1 DEF NodesOf
  <2> DEFINE u == NodesOf(ps)
             v == NodesOf(qs)
             w == <<p.node>>
  <2>3. w \in Seq(N) /\ Len(w) = 1 /\ w[1] = p.node
    OBVIOUS
  <2> HIDE DEF u, v, w, N
  <2>4. w \o u \in Seq(N) /\ Len(w \o u) = n + 1
        /\ \A j \in 1 .. n + 1 : (w \o u)[j] = IF j <= 1 THEN w[j] ELSE u[j - 1]
    <3>1. u \in Seq(N) /\ Len(u) = n
      BY <2>1 DEF u
    <3>2. /\ w \o u \in Seq(N) /\ Len(w \o u) = Len(w) + Len(u)
          /\ \A j \in 1 .. Len(w) + Len(u) : (w \o u)[j] = IF j <= Len(w) THEN w[j] ELSE u[j - Len(w)]
      BY <2>3, <3>1, ConcatProperties
    <3>3. Len(w) + Len(u) = n + 1
      BY <1>1, <2>3, <3>1
    <3> QED
      BY <2>3, <3>2, <3>3
  <2>5. \A j \in 1 .. n + 1 : v[j] = (w \o u)[j]
    <3> SUFFICES ASSUME NEW j \in 1 .. n + 1 PROVE v[j] = (w \o u)[j]
      OBVIOUS
    <3>1. CASE j = 1
      BY <1>1, <2>2, <2>3, <2>4, <3>1 DEF v
    <3>2. CASE j # 1
      <4> DEFINE k == j - 1
      <4>1. k \in 1 .. n /\ j = k + 1 /\ ~(j <= 1)
        BY <1>1, <3>2
      <4> HIDE DEF k
      <4> QED
        BY <1>1, <2>1, <2>2, <2>4, <4>1 DEF u, v, k
    <3> QED
      BY <3>1, <3>2
  <2>6. v = w \o u
    BY <2>2, <2>4, <2>5, SeqEqual DEF v
  <2> QED
    BY <2>6 DEF u, v, w
<1> QED
  <2>1. \A z : Listed(z) = Phrase(FlattenSeq(CommaBefore(z)), NodesOf(z))
    BY DEF Listed, CommaBefore, NodesOf
  <2>2. \A z : Listed(z).words = FlattenSeq(CommaBefore(z)) /\ Listed(z).node = NodesOf(z)
    BY <2>1, PhraseParts
  <2>3. FlattenSeq(CommaBefore(qs)) = p.words \o <<",">> \o FlattenSeq(CommaBefore(ps))
    BY <1>3, <1>6 DEF s, t
  <2>4. /\ Listed(qs).words = p.words \o <<",">> \o Listed(ps).words
        /\ Listed(qs).node = <<p.node>> \o Listed(ps).node
    BY <1>7, <2>2, <2>3
  <2> QED
    BY <2>4 DEF qs
-----------------------------------------------------------------------------
(* What is read has been written: expressions.                              *)

Behind(txt, k, more) == \E w \in more : WordAt(txt, k, w)

\* What is made at place i of a text stands there, as a phrase of G behind which no word of
\* more stands; and every such phrase is made.
Sound(txt, i, made, G, more) ==
  \A r \in made : \E p \in G :
     /\ r = Got(p.node, i + Len(p.words)) /\ Stands(txt, i, p.words)
     /\ ~Behind(txt, i + Len(p.words), more)
Complete(txt, i, made, G, more) ==
  \A p \in G :
     Stands(txt, i, p.words) /\ ~Behind(txt, i + Len(p.words), more)
       => Got(p.node, i + Len(p.words)) \in made

LEMMA SoundOne ==
  ASSUME NEW txt \in Seq(Words), NEW i \in 1 .. Len(txt), NEW G, NEW p \in G,
         p.words = <<txt[i]>>, NEW node, p.node = node
  PROVE  Sound(txt, i, {Got(node, i + 1)}, G, {})
<1>1. Len(p.words) = 1 /\ Stands(txt, i, p.words)
  BY StandsOne
<1> QED
  BY <1>1 DEF Sound, Behind

LEMMA SoundNone ==
  ASSUME NEW txt, NEW i, NEW G, NEW more
  PROVE  Sound(txt, i, {}, G, more)
BY DEF Sound

LEMMA PrimarySound ==
  ASSUME NEW txt \in Seq(Words), NEW i \in 1 .. Len(txt) + 1,
         \A j \in i + 1 .. Len(txt) + 1 : Sound(txt, j, Expression(txt, j), Expressions, Operators)
  PROVE  Sound(txt, i, Primary(txt, i), Primaries(Expressions), {})
<1> DEFINE ts == Tokenize(txt)
           G == Primaries(Expressions)
           made == Primary(txt, i)
<1> SUFFICES Sound(txt, i, made, G, {})
  OBVIOUS
<1>0. /\ Is(ts, i, "(") <=> WordAt(txt, i, "(")
      /\ Is(ts, i, "IDENT") <=> i <= Len(txt) /\ txt[i] \in Names
      /\ Is(ts, i, "IDENT") => ts[i].name = txt[i]
      /\ Is(ts, i, "INT_LITERAL") <=> i <= Len(txt) /\ txt[i] \in DOMAIN Number
      /\ Is(ts, i, "INT_LITERAL") => ts[i].int = Number[txt[i]]
      /\ Is(ts, i, "STR_LITERAL") <=> i <= Len(txt) /\ txt[i] \in DOMAIN Quoted
      /\ Is(ts, i, "STR_LITERAL") => ts[i].str = Quoted[txt[i]]
  <2>1. "(" \in Keywords \cup Symbols
    BY DEF Symbols
  <2> QED
    BY <2>1, TokenAt
<1>1. made = ParsePrimary(ts, ParseExpression(ts), i)
  BY DEF Primary
<1> HIDE DEF ts, made
<1>2. CASE Is(ts, i, "IDENT")
  <2> DEFINE w == txt[i]
  <2>1. i \in 1 .. Len(txt) /\ w \in Names /\ ts[i].name = w
    BY <1>0, <1>2
  <2>2. Column(w) \in G
    BY <2>1 DEF Primaries, Atoms
  <2>3. made = {Got(ColumnRef(w), i + 1)}
    BY <1>1, <1>2, <2>1 DEF ParsePrimary, Is
  <2>4. Column(w).words = <<w>> /\ Column(w).node = ColumnRef(w)
    BY PhraseParts DEF Column
  <2> HIDE DEF G
  <2> QED
    BY <2>1, <2>2, <2>3, <2>4, SoundOne
<1>3. CASE Is(ts, i, "INT_LITERAL")
  <2> DEFINE w == txt[i]
  <2>1. i \in 1 .. Len(txt) /\ w \in DOMAIN Number /\ ts[i].int = Number[w]
    BY <1>0, <1>3
  <2>2. made = IF Number[w] <= MaxInt THEN {Got(Literal("INT", Number[w]), i + 1)} ELSE {}
    BY <1>1, <1>3, <2>1 DEF ParsePrimary, Is
  <2>3. CASE Number[w] <= MaxInt
    <3>1. Integer(w) \in G
      BY <2>1, <2>3 DEF Primaries, Atoms, Fitting
    <3>2. Integer(w).words = <<w>> /\ Integer(w).node = Literal("INT", Number[w])
      BY PhraseParts DEF Integer
    <3> HIDE DEF G
    <3> QED
      BY <2>1, <2>2, <2>3, <3>1, <3>2, SoundOne
  <2>4. CASE ~(Number[w] <= MaxInt)
    BY <2>2, <2>4, SoundNone
  <2> QED
    BY <2>3, <2>4
<1>4. CASE Is(ts, i, "STR_LITERAL")
  <2> DEFINE w == txt[i]
  <2>1. i \in 1 .. Len(txt) /\ w \in DOMAIN Quoted /\ ts[i].str = Quoted[w]
    BY <1>0, <1>4
  <2>2. String(w) \in G
    BY <2>1 DEF Primaries, Atoms
  <2>3. made = {Got(Literal("STRING", Quoted[w]), i + 1)}
    BY <1>1, <1>4, <2>1 DEF ParsePrimary, Is
  <2>4. String(w).words = <<w>> /\ String(w).node = Literal("STRING", Quoted[w])
    BY PhraseParts DEF String
  <2> HIDE DEF G
  <2> QED
    BY <2>1, <2>2, <2>3, <2>4, SoundOne
<1>5. CASE Is(ts, i, "(")
  <2>1. made = Expect(ts, ParseExpression(ts)[i + 1], ")")
    BY <1>1, <1>5 DEF ParsePrimary, Is
  <2>2. WordAt(txt, i, "(") /\ i + 1 \in i + 1 .. Len(txt) + 1
    BY <1>0, <1>5 DEF WordAt
  <2>3. ASSUME NEW r \in made
        PROVE  \E p \in G : /\ r = Got(p.node, i + Len(p.words)) /\ Stands(txt, i, p.words)
                            /\ ~Behind(txt, i + Len(p.words), {})
    <3>1. PICK q \in Expression(txt, i + 1) : Is(ts, q.pos, ")") /\ r = Got(q.node, q.pos + 1)
      BY <2>1 DEF Expect, Expression, ts
    <3>2. PICK p \in Expressions : /\ q = Got(p.node, i + 1 + Len(p.words))
                                   /\ Stands(txt, i + 1, p.words)
      BY <2>2 DEF Sound
    <3> DEFINE w == p.words
               k == i + 1 + Len(w)
    <3>3. w \in Seq(Words) /\ IsText(w) /\ Len(w) \in Nat
      BY ExpressionText DEF IsText
    <3>4. k \in 1 .. Len(txt) + 1
      <4>1. i + 1 \in Nat \ {0}
        OBVIOUS
      <4> HIDE DEF w
      <4>2. (i + 1) + Len(w) \in (i + 1) + 1 .. Len(txt) + 1
        BY <3>2, <3>3, <4>1, StandsEnd DEF w
      <4> QED
        BY <4>1, <4>2
    <3>5. q.pos = k /\ q.node = p.node
      BY <3>2, GotParts
    <3> HIDE DEF k, w
    <3>6. WordAt(txt, k, ")")
      <4>1. ")" \in Keywords \cup Symbols
        BY DEF Symbols
      <4> QED
        BY <3>1, <3>4, <3>5, <4>1, TokenAt DEF ts
    <3>7. Stands(txt, i, Enclose(w)) /\ Len(Enclose(w)) = Len(w) + 2
      <4>1. WordAt(txt, i, "(") /\ Stands(txt, i + 1, w) /\ WordAt(txt, i + 1 + Len(w), ")")
        BY <2>2, <3>2, <3>6 DEF k, w
      <4>2. i \in Nat \ {0} /\ w \in Seq(Words)
        BY <3>3
      <4> QED
        BY <4>1, <4>2, StandsEnclosed, EncloseText
    <3>8. Parenthesized(p) \in G
      BY DEF Primaries
    <3>9. Parenthesized(p).words = Enclose(w) /\ Parenthesized(p).node = p.node
      BY PhraseParts DEF Parenthesized, w
    <3>10. r = Got(p.node, i + Len(Enclose(w)))
      BY <3>1, <3>3, <3>5, <3>7 DEF k
    <3> QED
      BY <3>7, <3>8, <3>9, <3>10 DEF Behind
  <2> QED
    BY <2>3 DEF Sound
<1>6. CASE ~Is(ts, i, "IDENT") /\ ~Is(ts, i, "INT_LITERAL") /\ ~Is(ts, i, "STR_LITERAL") /\ ~Is(ts, i, "(")
  <2>1. made = {}
    BY <1>1, <1>6 DEF ParsePrimary
  <2> QED
    BY <2>1, SoundNone
<1> QED
  BY <1>2, <1>3, <1>4, <1>5, <1>6

\* What parseExpression reads is an expression, taken as far as it goes.
LEMMA ExpressionSound ==
  ASSUME NEW txt \in Seq(Words)
  PROVE  \A i \in 1 .. Len(txt) + 1 :
            Sound(txt, i, Expression(txt, i), Expressions, Operators)
<1> DEFINE l == Len(txt) + 1
           ts == Tokenize(txt)
           E == ParseExpression(ts)
           S == {i \in 1 .. l : Sound(txt, i, Expression(txt, i), Expressions, Operators)}
<1>1. l \in Nat /\ Ending(ts) /\ Len(ts) = l
  BY TextEnds
<1>2. ASSUME NEW i \in 1 .. l, \A j \in i + 1 .. l : j \in S PROVE i \in S
  <2>1. Sound(txt, i, Primary(txt, i), Primaries(Expressions), {})
    BY <1>2, PrimarySound
  <2>2. Expression(txt, i) = MakeExpression(ts, E, i) /\ NoOperatorBehind(ts, Expression(txt, i))
    BY <1>1, ExpressionIs DEF Expression
  <2>3. ASSUME NEW r \in Expression(txt, i)
        PROVE  \E p \in Expressions :
                 /\ r = Got(p.node, i + Len(p.words)) /\ Stands(txt, i, p.words)
                 /\ ~Behind(txt, i + Len(p.words), Operators)
    <3>1. PICK lhs \in Primary(txt, i) : r \in Climb(ts, E, lhs)
      BY <2>2 DEF MakeExpression, Primary
    <3>2. PICK a \in Primaries(Expressions) :
            lhs = Got(a.node, i + Len(a.words)) /\ Stands(txt, i, a.words)
      BY <2>1 DEF Sound
    <3> DEFINE u == a.words
               k == i + Len(u)
               op == ts[k].type
    <3>3. a \in Expressions /\ u \in Seq(Words) /\ IsText(u)
      BY ExpressionsClosed, ExpressionText DEF IsText
    <3>4. k \in 1 .. l /\ k \in i + 1 .. l
      BY <3>2, <3>3, StandsEnd
    <3>5. lhs.pos = k /\ lhs.node = a.node
      BY <3>2, GotParts
    <3>6. op \in Operators <=> Behind(txt, k, Operators)
      <4> HIDE DEF k
      <4> QED
        BY <3>4, TokenAt DEF Behind
    <3>7. CASE op \notin Operators
      <4>1. r = lhs
        BY <3>1, <3>5, <3>7 DEF Climb
      <4> QED
        BY <3>2, <3>3, <3>6, <3>7, <4>1
    <3>8. CASE op \in Operators
      <4>1. PICK rhs \in E[k + 1] : r = Operation(op, lhs, rhs)
        BY <3>1, <3>5, <3>8 DEF Climb
      <4>2. WordAt(txt, k, op) /\ k <= Len(txt)
        <5> HIDE DEF k
        <5>1. op \in Keywords \cup Symbols
          BY <3>8, OperatorsAreWords
        <5> QED
          BY <3>4, <5>1, TokenAt DEF Is, WordAt
      <4>3. k + 1 \in i + 1 .. l
        BY <3>4, <4>2
      <4> HIDE DEF k, op, u
      <4>4. PICK b \in Expressions : rhs = Got(b.node, k + 1 + Len(b.words)) /\ Stands(txt, k + 1, b.words)
        BY <1>2, <4>1, <4>3 DEF Sound, Expression
      <4> DEFINE v == b.words
                 p == Applied(op, a, b)
      <4>5. v \in Seq(Words) /\ op \in Words /\ Len(v) \in Nat /\ Len(u) \in Nat
        BY <3>3, <3>8, ExpressionText, OperatorsAreWords DEF IsText, Words
      <4>6. p \in Expressions
        BY <3>8, ExpressionsClosed
      <4>7. p.words = u \o <<op>> \o v /\ p.node = BinaryOp(op, a.node, b.node)
        BY PhraseParts DEF Applied, u
      <4> HIDE DEF p
      <4>8. Stands(txt, i, p.words) /\ Len(p.words) = Len(u) + 1 + Len(v)
        <5>1. /\ Stands(txt, i, u) /\ WordAt(txt, i + Len(u), op)
              /\ Stands(txt, i + Len(u) + 1, v)
          BY <3>2, <4>2, <4>4 DEF k, u
        <5>2. u \in Seq(Words) /\ v \in Seq(Words) /\ op \in Words /\ i \in Nat \ {0}
          BY <3>3, <4>5
        <5> HIDE DEF v
        <5> QED
          BY <4>7, <5>1, <5>2, StandsApplied
      <4>9. r = Got(p.node, i + Len(p.words))
        <5> DEFINE n == Len(p.words)
                   m == i + n
        <5>1. Len(u) \in Nat /\ Len(v) \in Nat /\ n = Len(u) + 1 + Len(v) /\ k = i + Len(u)
          BY <4>5, <4>8 DEF k
        <5> HIDE DEF n, v
        <5>2. m = k + 1 + Len(v)
          BY <5>1
        <5>3. rhs = Got(b.node, m)
          BY <4>4, <5>2 DEF v
        <5> HIDE DEF m
        <5>4. r = Got(p.node, m)
          BY <3>5, <4>1, <4>7, <5>3, GotParts DEF Operation
        <5> QED
          BY <5>4 DEF m, n
      <4>10. ~Behind(txt, i + Len(p.words), Operators)
        <5> DEFINE m == i + Len(p.words)
        <5>1. m \in 1 .. Len(txt) + 1
          <6>1. IsText(p.words) /\ Stands(txt, i, p.words) /\ i \in Nat \ {0}
            BY <4>6, <4>8, ExpressionText
          <6>2. m \in i + 1 .. Len(txt) + 1
            BY <6>1, StandsEnd
          <6> HIDE DEF m
          <6> QED
            BY <6>1, <6>2
        <5>2. ts[m].type \notin Operators
          BY <2>2, <4>9, GotParts DEF NoOperatorBehind
        <5> HIDE DEF m
        <5>3. ~Behind(txt, m, Operators)
          BY <5>1, <5>2, TokenAt DEF Behind
        <5> QED
          BY <5>3 DEF m
      <4> QED
        BY <4>6, <4>8, <4>9, <4>10
    <3> QED
      BY <3>7, <3>8
  <2> QED
    BY <2>3 DEF Sound
<1> HIDE DEF S
<1>3. \A i \in 1 .. l : i \in S
  BY <1>1, <1>2, Downwards
<1> QED
  BY <1>3 DEF S

\* Every expression is read.
LEMMA ExpressionComplete ==
  ASSUME NEW txt \in Seq(Words)
  PROVE  \A i \in 1 .. Len(txt) + 1 :
            Complete(txt, i, Expression(txt, i), Expressions, Operators)
<1> SUFFICES ASSUME NEW i \in 1 .. Len(txt) + 1, NEW p \in Expressions,
                    Stands(txt, i, p.words), ~Behind(txt, i + Len(p.words), Operators)
             PROVE  Got(p.node, i + Len(p.words)) \in Expression(txt, i)
  BY DEF Complete
<1>1. i \in 1 .. Len(txt)
  BY ExpressionText, StandsEnd
<1> QED
  BY <1>1, ExpressionRead DEF Readable, OperatorAt, Behind
-----------------------------------------------------------------------------
(* The items of lists.                                                      *)

LEMMA StandsWords ==
  ASSUME NEW txt \in Seq(Words), NEW i \in Nat \ {0}, NEW a \in Words, NEW b \in Words, NEW c \in Words
  PROVE  /\ <<a>> \in Seq(Words) /\ <<a, b>> \in Seq(Words) /\ <<a, b, c>> \in Seq(Words)
         /\ Len(<<a>>) = 1 /\ Len(<<a, b>>) = 2 /\ Len(<<a, b, c>>) = 3
         /\ Stands(txt, i, <<a>>) <=> WordAt(txt, i, a)
         /\ Stands(txt, i, <<a, b>>) <=> WordAt(txt, i, a) /\ WordAt(txt, i + 1, b)
         /\ Stands(txt, i, <<a, b, c>>) <=>
              WordAt(txt, i, a) /\ WordAt(txt, i + 1, b) /\ WordAt(txt, i + 2, c)
<1>1. Stands(txt, i, <<a>>) <=> WordAt(txt, i, a)
  BY StandsOne DEF WordAt
<1>2. Stands(txt, i, <<a, b>>) <=> WordAt(txt, i, a) /\ WordAt(txt, i + 1, b)
  <2> DEFINE w == <<a, b>>
  <2>1. Len(w) = 2 /\ w[1] = a /\ w[2] = b
    OBVIOUS
  <2>2. 1 .. 2 = {1, 2} /\ i + 1 - 1 = i /\ i + 2 - 1 = i + 1 /\ Len(txt) \in Nat
    OBVIOUS
  <2> HIDE DEF w
  <2>3. Stands(txt, i, w) <=> i + 2 <= Len(txt) + 1 /\ txt[i] = a /\ txt[i + 1] = b
    BY <2>1, <2>2 DEF Stands
  <2> QED
    BY <2>2, <2>3 DEF WordAt, w
<1>3. Stands(txt, i, <<a, b, c>>) <=>
              WordAt(txt, i, a) /\ WordAt(txt, i + 1, b) /\ WordAt(txt, i + 2, c)
  <2> DEFINE w == <<a, b, c>>
  <2>1. Len(w) = 3 /\ w[1] = a /\ w[2] = b /\ w[3] = c
    OBVIOUS
  <2>2. 1 .. 3 = {1, 2, 3} /\ i + 1 - 1 = i /\ i + 2 - 1 = i + 1 /\ i + 3 - 1 = i + 2 /\ Len(txt) \in Nat
    OBVIOUS
  <2> HIDE DEF w
  <2>3. Stands(txt, i, w) <=> i + 3 <= Len(txt) + 1 /\ txt[i] = a /\ txt[i + 1] = b /\ txt[i + 2] = c
    BY <2>1, <2>2 DEF Stands
  <2> QED
    BY <2>2, <2>3 DEF WordAt, w
<1> QED
  BY <1>1, <1>2, <1>3

NamePhrases == {Name(w) : w \in Names}

Phrases(what) ==
  CASE what = "expression" -> Expressions
    [] what = "projection" -> Projection(Expressions)
    [] what = "name"       -> NamePhrases
    [] what = "assignment" -> Assignments(Expressions)
    [] what = "definition" -> Definitions

\* Words that an item does not stop before, and those before which one need not.
Ends(what) == IF what \in {"expression", "assignment"} THEN Operators ELSE {}
Stops(what) ==
  IF what = "name" THEN {} ELSE IF what = "definition" THEN {"("} ELSE Operators

LEMMA NamesAreWords == Names \subseteq Words /\ Fitting \subseteq Words
BY DEF Words, Fitting

LEMMA SymbolsAreWords ==
  /\ Keywords \cup Symbols \subseteq Words
  /\ {"=", "(", ")", ",", "*"} \subseteq Symbols
BY DEF Words, Symbols, Compare

LEMMA AssignedText ==
  ASSUME NEW c \in Names, NEW p \in Expressions, NEW txt \in Seq(Words), NEW i \in Nat \ {0}
  PROVE  LET q == Assigned(c, p)
             w == p.words
         IN  /\ IsText(q.words) /\ Len(q.words) = 2 + Len(w) /\ Len(w) \in Nat
             /\ q.node = [column |-> c, expr |-> p.node]
             /\ Stands(txt, i, q.words) <=>
                  WordAt(txt, i, c) /\ WordAt(txt, i + 1, "=") /\ Stands(txt, i + 2, w)
<1> DEFINE q == Assigned(c, p)
           w == p.words
           u == <<c, "=">>
<1>1. c \in Words /\ "=" \in Words
  BY NamesAreWords, SymbolsAreWords
<1>2. /\ u \in Seq(Words) /\ Len(u) = 2
      /\ Stands(txt, i, u) <=> WordAt(txt, i, c) /\ WordAt(txt, i + 1, "=")
  BY <1>1, StandsWords
<1>3. w \in Seq(Words) /\ Len(w) \in Nat
  BY ExpressionText DEF IsText
<1>4. q.words = u \o w /\ q.node = [column |-> c, expr |-> p.node]
  BY DEF Assigned, Phrase
<1> HIDE DEF u, w, q
<1>5. /\ u \o w \in Seq(Words) /\ Len(u \o w) = Len(u) + Len(w)
      /\ Stands(txt, i, u \o w) <=> Stands(txt, i, u) /\ Stands(txt, i + Len(u), w)
  BY <1>2, <1>3, StandsTwo
<1>6. IsText(u \o w)
  BY <1>2, <1>3, <1>5 DEF IsText
<1> QED
  BY <1>2, <1>3, <1>4, <1>5, <1>6 DEF w, q

LEMMA DefinedText ==
  ASSUME NEW c \in Names, NEW t \in Names, NEW txt \in Seq(Words), NEW i \in Nat \ {0}
  PROVE  LET q == Defined(c, t)
         IN  /\ IsText(q.words) /\ Len(q.words) = 2
             /\ q.node = [name |-> c, type |-> t, length |-> 0]
             /\ Stands(txt, i, q.words) <=> WordAt(txt, i, c) /\ WordAt(txt, i + 1, t)
<1>1. c \in Words /\ t \in Words
  BY NamesAreWords
<1> DEFINE u == <<c, t>>
<1>2. /\ u \in Seq(Words) /\ Len(u) = 2
      /\ Stands(txt, i, u) <=> WordAt(txt, i, c) /\ WordAt(txt, i + 1, t)
  BY <1>1, StandsWords
<1>3. Defined(c, t).words = u /\ Defined(c, t).node = [name |-> c, type |-> t, length |-> 0]
  BY DEF Defined, Phrase
<1> HIDE DEF u
<1>4. IsText(u)
  BY <1>2 DEF IsText
<1> QED
  BY <1>2, <1>3, <1>4

LEMMA SizedText ==
  ASSUME NEW c \in Names, NEW t \in Names, NEW w \in Fitting, NEW txt \in Seq(Words), NEW i \in Nat \ {0}
  PROVE  LET q == Sized(c, t, w)
         IN  /\ IsText(q.words) /\ Len(q.words) = 5
             /\ q.node = [name |-> c, type |-> t, length |-> Number[w]]
             /\ Stands(txt, i, q.words) <=>
                  /\ WordAt(txt, i, c) /\ WordAt(txt, i + 1, t) /\ WordAt(txt, i + 2, "(")
                  /\ WordAt(txt, i + 3, w) /\ WordAt(txt, i + 4, ")")
<1>1. c \in Words /\ t \in Words /\ w \in Words
  BY NamesAreWords
<1> DEFINE u == <<c, t>>
           v == <<w>>
           x == Enclose(v)
<1>2. /\ u \in Seq(Words) /\ Len(u) = 2 /\ v \in Seq(Words) /\ Len(v) = 1
      /\ Stands(txt, i, u) <=> WordAt(txt, i, c) /\ WordAt(txt, i + 1, t)
      /\ Stands(txt, i + 3, v) <=> WordAt(txt, i + 3, w)
  <2>1. i + 3 \in Nat \ {0}
    OBVIOUS
  <2> QED
    BY <1>1, <2>1, StandsWords
<1>3. Sized(c, t, w).words = u \o x /\ Sized(c, t, w).node = [name |-> c, type |-> t, length |-> Number[w]]
  BY DEF Sized, Phrase
<1> HIDE DEF u, v
<1>4. x \in Seq(Words) /\ Len(x) = 3
  <2>1. IsText(Enclose(v)) /\ Len(Enclose(v)) = Len(v) + 2
    BY <1>2, EncloseText
  <2> QED
    BY <1>2, <2>1 DEF IsText
<1>5. Stands(txt, i + 2, x) <=>
        WordAt(txt, i + 2, "(") /\ Stands(txt, i + 3, v) /\ WordAt(txt, i + 4, ")")
  <2>1. i + 2 \in Nat \ {0} /\ (i + 2) + 1 = i + 3 /\ (i + 2) + 1 + Len(v) = i + 4
    BY <1>2
  <2> QED
    BY <1>2, <2>1, StandsEnclosed
<1> HIDE DEF x
<1>6. /\ u \o x \in Seq(Words) /\ Len(u \o x) = Len(u) + Len(x)
      /\ Stands(txt, i, u \o x) <=> Stands(txt, i, u) /\ Stands(txt, i + Len(u), x)
  BY <1>2, <1>4, StandsTwo
<1> QED
  BY <1>2, <1>3, <1>4, <1>5, <1>6 DEF IsText
LEMMA PhrasesAreTexts == \A what \in Whats : IsPhrases(Phrases(what))
<1>1. IsPhrases(Expressions)
  BY ExpressionText DEF IsPhrases
<1>2. IsPhrases(NamePhrases)
  <2> SUFFICES ASSUME NEW w \in Names PROVE IsText(Name(w).words)
    BY DEF NamePhrases, IsPhrases
  <2>1. <<w>> \in Seq(Words) /\ Len(<<w>>) = 1
    BY NamesAreWords, OneWord
  <2> QED
    BY <2>1 DEF Name, Phrase, IsText
<1>3. IsPhrases(Projection(Expressions))
  <2>1. <<"*">> \in Seq(Words) /\ Len(<<"*">>) = 1
    BY SymbolsAreWords, OneWord
  <2>2. IsText(Column("*").words)
    BY <2>1 DEF Column, Phrase, IsText
  <2> QED
    BY <1>1, <2>2 DEF Projection, IsPhrases
<1> DEFINE txt == <<>>
<1>4. txt \in Seq(Words) /\ 1 \in Nat \ {0}
  OBVIOUS
<1> HIDE DEF txt
<1>5. IsPhrases(Assignments(Expressions))
  <2> SUFFICES ASSUME NEW c \in Names, NEW p \in Expressions PROVE IsText(Assigned(c, p).words)
    BY DEF Assignments, IsPhrases
  <2> QED
    BY <1>4, AssignedText
<1>6. IsPhrases(Definitions)
  <2>1. ASSUME NEW c \in Names, NEW t \in Names PROVE IsText(Defined(c, t).words)
    BY <1>4, DefinedText
  <2>2. ASSUME NEW c \in Names, NEW t \in Names, NEW w \in Fitting PROVE IsText(Sized(c, t, w).words)
    BY <1>4, SizedText
  <2> QED
    BY <2>1, <2>2 DEF Definitions, IsPhrases
<1> QED
  BY <1>1, <1>2, <1>3, <1>5, <1>6 DEF Phrases, Whats

\* Tokens of a text by its words.
LEMMA TokenIs ==
  ASSUME NEW txt \in Seq(Words), NEW k \in 1 .. Len(txt) + 1
  PROVE  LET ts == Tokenize(txt) IN
         /\ \A w \in Keywords \cup Symbols : Is(ts, k, w) <=> WordAt(txt, k, w)
         /\ Is(ts, k, "IDENT") <=> \E w \in Names : WordAt(txt, k, w)
         /\ \A w \in Names : WordAt(txt, k, w) => ts[k].name = w
         /\ Is(ts, k, "INT_LITERAL") <=> \E w \in DOMAIN Number : WordAt(txt, k, w)
         /\ \A w \in DOMAIN Number : WordAt(txt, k, w) => ts[k].int = Number[w]
BY TokenAt DEF WordAt

LEMMA WordPlace ==
  ASSUME NEW txt \in Seq(Words), NEW k \in Nat \ {0}, NEW w, WordAt(txt, k, w)
  PROVE  k \in 1 .. Len(txt) /\ k \in 1 .. Len(txt) + 1 /\ k + 1 \in 1 .. Len(txt) + 1
BY DEF WordAt

LEMMA NameRead ==
  ASSUME NEW txt \in Seq(Words), NEW i \in 1 .. Len(txt) + 1
  PROVE  LET made == Item("name", Tokenize(txt), i)
         IN  Sound(txt, i, made, NamePhrases, {}) /\ Complete(txt, i, made, NamePhrases, {})
<1> DEFINE ts == Tokenize(txt)
           made == Item("name", ts, i)
<1>1. made = IF Is(ts, i, "IDENT") THEN {Got(ts[i].name, i + 1)} ELSE {}
  BY DEF Item
<1>2. /\ Is(ts, i, "IDENT") <=> \E w \in Names : WordAt(txt, i, w)
      /\ \A w \in Names : WordAt(txt, i, w) => ts[i].name = w
  BY TokenIs
<1> HIDE DEF ts, made
<1>3. \A w \in Names : /\ Name(w).words = <<w>> /\ Name(w).node = w /\ Len(<<w>>) = 1
                       /\ Stands(txt, i, <<w>>) <=> WordAt(txt, i, w)
  <2> SUFFICES ASSUME NEW w \in Names
               PROVE  /\ Name(w).words = <<w>> /\ Name(w).node = w /\ Len(<<w>>) = 1
                      /\ Stands(txt, i, <<w>>) <=> WordAt(txt, i, w)
    OBVIOUS
  <2>1. Name(w).words = <<w>> /\ Name(w).node = w
    BY DEF Name, Phrase
  <2>2. i \in Nat \ {0} /\ w \in Words
    BY NamesAreWords
  <2> QED
    BY <2>1, <2>2, StandsWords
<1>4. Sound(txt, i, made, NamePhrases, {})
  <2> SUFFICES ASSUME NEW r \in made
               PROVE  \E p \in NamePhrases :
                        /\ r = Got(p.node, i + Len(p.words)) /\ Stands(txt, i, p.words)
                        /\ ~Behind(txt, i + Len(p.words), {})
    BY DEF Sound
  <2>1. PICK w \in Names : WordAt(txt, i, w) /\ r = Got(w, i + 1)
    BY <1>1, <1>2
  <2>2. Name(w) \in NamePhrases
    BY DEF NamePhrases
  <2> QED
    BY <1>3, <2>1, <2>2 DEF Behind
<1>5. Complete(txt, i, made, NamePhrases, {})
  <2> SUFFICES ASSUME NEW w \in Names, Stands(txt, i, Name(w).words)
               PROVE  Got(Name(w).node, i + Len(Name(w).words)) \in made
    BY DEF Complete, NamePhrases
  <2>1. WordAt(txt, i, w) /\ Name(w).node = w /\ Len(Name(w).words) = 1
    BY <1>3
  <2> QED
    BY <1>1, <1>2, <2>1
<1> QED
  BY <1>4, <1>5 DEF made, ts

LEMMA ProjectionRead ==
  ASSUME NEW txt \in Seq(Words), NEW i \in 1 .. Len(txt) + 1
  PROVE  LET made == Item("projection", Tokenize(txt), i)
         IN  /\ Sound(txt, i, made, Projection(Expressions), {})
             /\ Complete(txt, i, made, Projection(Expressions), Operators)
<1> DEFINE ts == Tokenize(txt)
           E == ParseExpression(ts)
           made == Item("projection", ts, i)
           star == Column("*")
<1>1. made = IF Is(ts, i, "*") THEN {Got(ColumnRef("*"), i + 1)} ELSE Expression(txt, i)
  BY DEF Item, Expression
<1>2. Is(ts, i, "*") <=> WordAt(txt, i, "*")
  BY SymbolsAreWords, TokenIs
<1>3. star.words = <<"*">> /\ star.node = ColumnRef("*") /\ Len(star.words) = 1
  BY PhraseParts DEF Column
<1>4. Stands(txt, i, star.words) <=> WordAt(txt, i, "*")
  BY <1>3, StandsOne DEF WordAt
<1>5. Projection(Expressions) = {star} \cup Expressions
  BY DEF Projection
<1>6. /\ Sound(txt, i, Expression(txt, i), Expressions, Operators)
      /\ Complete(txt, i, Expression(txt, i), Expressions, Operators)
  BY ExpressionSound, ExpressionComplete
<1>7. Is(ts, i, "*") => Expression(txt, i) = {}
  <2>1. Expression(txt, i) = MakeExpression(ts, E, i)
    BY TextEnds, ExpressionIs DEF Expression
  <2>2. Is(ts, i, "*") => ParsePrimary(ts, E, i) = {}
    BY DEF ParsePrimary, Is
  <2> QED
    BY <2>1, <2>2 DEF MakeExpression
<1> HIDE DEF ts, made, star
<1>8. Sound(txt, i, made, Projection(Expressions), {})
  BY <1>1, <1>2, <1>3, <1>4, <1>5, <1>6 DEF Sound, Behind
<1>9. Complete(txt, i, made, Projection(Expressions), Operators)
  BY <1>1, <1>2, <1>3, <1>4, <1>5, <1>6, <1>7 DEF Complete
<1> QED
  BY <1>8, <1>9 DEF made, ts

LEMMA AssignmentRead ==
  ASSUME NEW txt \in Seq(Words), NEW i \in 1 .. Len(txt) + 1
  PROVE  LET made == Assignment(Tokenize(txt), i)
         IN  /\ Sound(txt, i, made, Assignments(Expressions), Operators)
             /\ Complete(txt, i, made, Assignments(Expressions), Operators)
<1> DEFINE ts == Tokenize(txt)
           made == Assignment(ts, i)
           node(c, e) == [column |-> c, expr |-> e]
<1>1. /\ ~(Is(ts, i, "IDENT") /\ Is(ts, i + 1, "=")) => made = {}
      /\ Is(ts, i, "IDENT") /\ Is(ts, i + 1, "=") =>
           made = {Got(node(ts[i].name, e.node), e.pos) : e \in Expression(txt, i + 2)}
  BY DEF Assignment, Expression
<1>2. /\ Is(ts, i, "IDENT") <=> \E w \in Names : WordAt(txt, i, w)
      /\ \A w \in Names : WordAt(txt, i, w) => ts[i].name = w
  BY TokenIs
<1>3. ASSUME NEW c \in Names, WordAt(txt, i, c)
      PROVE  i + 1 \in 1 .. Len(txt) + 1 /\ (Is(ts, i + 1, "=") <=> WordAt(txt, i + 1, "="))
  <2>1. i + 1 \in 1 .. Len(txt) + 1
    BY <1>3, WordPlace
  <2>2. "=" \in Keywords \cup Symbols
    BY SymbolsAreWords
  <2> QED
    BY <2>1, <2>2, TokenIs DEF ts
<1>4. ASSUME NEW c \in Names, WordAt(txt, i, c), WordAt(txt, i + 1, "=")
      PROVE  /\ i + 2 \in 1 .. Len(txt) + 1
             /\ Sound(txt, i + 2, Expression(txt, i + 2), Expressions, Operators)
             /\ Complete(txt, i + 2, Expression(txt, i + 2), Expressions, Operators)
             /\ made = {Got(node(c, e.node), e.pos) : e \in Expression(txt, i + 2)}
  <2>1. i + 2 \in 1 .. Len(txt) + 1
    BY <1>4 DEF WordAt
  <2>2. Is(ts, i, "IDENT") /\ Is(ts, i + 1, "=") /\ ts[i].name = c
    BY <1>2, <1>3, <1>4
  <2> QED
    BY <1>1, <2>1, <2>2, ExpressionSound, ExpressionComplete
<1> HIDE DEF ts, made, node
<1>5. ASSUME NEW r \in made
      PROVE  \E p \in Assignments(Expressions) :
               /\ r = Got(p.node, i + Len(p.words)) /\ Stands(txt, i, p.words)
               /\ ~Behind(txt, i + Len(p.words), Operators)
  <2>1. PICK c \in Names : WordAt(txt, i, c) /\ WordAt(txt, i + 1, "=")
    BY <1>1, <1>2, <1>3
  <2>2. PICK e \in Expression(txt, i + 2) : r = Got(node(c, e.node), e.pos)
    BY <1>4, <2>1
  <2>3. PICK p \in Expressions :
          /\ e = Got(p.node, i + 2 + Len(p.words)) /\ Stands(txt, i + 2, p.words)
          /\ ~Behind(txt, i + 2 + Len(p.words), Operators)
    BY <1>4, <2>1 DEF Sound
  <2> DEFINE q == Assigned(c, p)
             n == Len(p.words)
             m == Len(q.words)
  <2>4. /\ q \in Assignments(Expressions) /\ m = 2 + n /\ n \in Nat
        /\ q.node = node(c, p.node) /\ Stands(txt, i, q.words)
    BY <2>1, <2>3, AssignedText DEF Assignments, node
  <2> HIDE DEF q, n, m
  <2>5. i + m = i + 2 + n
    BY <2>4
  <2>6. e.node = p.node /\ e.pos = i + 2 + n
    BY <2>3, GotParts DEF n
  <2>7. r = Got(q.node, i + m) /\ ~Behind(txt, i + m, Operators)
    BY <2>2, <2>3, <2>4, <2>5, <2>6 DEF n
  <2> QED
    BY <2>4, <2>7 DEF m
<1>6. ASSUME NEW q \in Assignments(Expressions), Stands(txt, i, q.words),
             ~Behind(txt, i + Len(q.words), Operators)
      PROVE  Got(q.node, i + Len(q.words)) \in made
  <2>1. PICK c \in Names, p \in Expressions : q = Assigned(c, p)
    BY DEF Assignments
  <2> DEFINE n == Len(p.words)
             m == Len(q.words)
  <2>2. /\ m = 2 + n /\ n \in Nat /\ q.node = node(c, p.node)
        /\ WordAt(txt, i, c) /\ WordAt(txt, i + 1, "=") /\ Stands(txt, i + 2, p.words)
    <3>1. i \in Nat \ {0}
      OBVIOUS
    <3> QED
      BY <1>6, <2>1, <3>1, AssignedText DEF node
  <2> HIDE DEF n, m
  <2>3. i + m = i + 2 + n
    BY <2>2
  <2>4. Got(p.node, i + 2 + n) \in Expression(txt, i + 2)
    BY <1>4, <1>6, <2>2, <2>3 DEF Complete, n, m
  <2>5. Got(node(c, p.node), i + 2 + n) \in made
    BY <1>4, <2>2, <2>4, GotParts
  <2> QED
    BY <2>2, <2>3, <2>5 DEF m
<1>7. Sound(txt, i, made, Assignments(Expressions), Operators)
  BY <1>5 DEF Sound
<1>8. Complete(txt, i, made, Assignments(Expressions), Operators)
  BY <1>6 DEF Complete
<1> QED
  BY <1>7, <1>8 DEF made, ts
LEMMA DefinitionRead ==
  ASSUME NEW txt \in Seq(Words), NEW i \in 1 .. Len(txt) + 1
  PROVE  LET made == ColumnDefinition(Tokenize(txt), i)
         IN  Sound(txt, i, made, Definitions, {}) /\ Complete(txt, i, made, Definitions, {"("})
<1> DEFINE ts == Tokenize(txt)
           made == ColumnDefinition(ts, i)
           node(c, t, n) == [name |-> c, type |-> t, length |-> n]
           Plain == ts[i + 1].name # "STRING" \/ ~Is(ts, i + 2, "(")
           InRange == Is(ts, i + 3, "INT_LITERAL") /\ ts[i + 3].int <= MaxInt /\ Is(ts, i + 4, ")")
<1>1. /\ ~(Is(ts, i, "IDENT") /\ Is(ts, i + 1, "IDENT")) => made = {}
      /\ Is(ts, i, "IDENT") /\ Is(ts, i + 1, "IDENT") =>
           /\ Plain => made = {Got(node(ts[i].name, ts[i + 1].name, 0), i + 2)}
           /\ ~Plain /\ InRange => made = {Got(node(ts[i].name, ts[i + 1].name, ts[i + 3].int), i + 5)}
           /\ ~Plain /\ ~InRange => made = {}
  BY DEF ColumnDefinition
<1>2. i \in Nat \ {0} /\ "(" \in Keywords \cup Symbols /\ ")" \in Keywords \cup Symbols
  BY DEF Symbols
<1>3. /\ Is(ts, i, "IDENT") <=> \E c \in Names : WordAt(txt, i, c)
      /\ \A c \in Names : WordAt(txt, i, c) => ts[i].name = c
  BY TokenIs
<1>4. ASSUME NEW c \in Names, WordAt(txt, i, c)
      PROVE  /\ Is(ts, i + 1, "IDENT") <=> \E t \in Names : WordAt(txt, i + 1, t)
             /\ \A t \in Names : WordAt(txt, i + 1, t) => ts[i + 1].name = t
  <2>1. i + 1 \in 1 .. Len(txt) + 1
    BY <1>4, WordPlace
  <2> QED
    BY <2>1, TokenIs
<1>5. ASSUME NEW t \in Names, WordAt(txt, i + 1, t)
      PROVE  Is(ts, i + 2, "(") <=> WordAt(txt, i + 2, "(")
  <2>1. i + 2 \in 1 .. Len(txt) + 1
    BY <1>5 DEF WordAt
  <2> QED
    BY <1>2, <2>1, TokenIs
<1>6. ASSUME WordAt(txt, i + 2, "(")
      PROVE  /\ Is(ts, i + 3, "INT_LITERAL") <=> \E w \in DOMAIN Number : WordAt(txt, i + 3, w)
             /\ \A w \in DOMAIN Number : WordAt(txt, i + 3, w) => ts[i + 3].int = Number[w]
  <2>1. i + 3 \in 1 .. Len(txt) + 1
    BY <1>6 DEF WordAt
  <2> QED
    BY <2>1, TokenIs
<1>7. ASSUME NEW w, WordAt(txt, i + 3, w)
      PROVE  Is(ts, i + 4, ")") <=> WordAt(txt, i + 4, ")")
  <2>1. i + 4 \in 1 .. Len(txt) + 1
    BY <1>7 DEF WordAt
  <2> QED
    BY <1>2, <2>1, TokenIs
<1>8. ASSUME NEW c \in Names, NEW t \in Names
      PROVE  LET q == Defined(c, t)
             IN  /\ q \in Definitions /\ Len(q.words) = 2 /\ q.node = node(c, t, 0)
                 /\ Stands(txt, i, q.words) <=> WordAt(txt, i, c) /\ WordAt(txt, i + 1, t)
  BY <1>2, DefinedText DEF Definitions
<1>9. ASSUME NEW c \in Names, NEW w \in Fitting, "STRING" \in Names
      PROVE  LET q == Sized(c, "STRING", w)
             IN  /\ q \in Definitions /\ Len(q.words) = 5 /\ q.node = node(c, "STRING", Number[w])
                 /\ Stands(txt, i, q.words) <=>
                      /\ WordAt(txt, i, c) /\ WordAt(txt, i + 1, "STRING") /\ WordAt(txt, i + 2, "(")
                      /\ WordAt(txt, i + 3, w) /\ WordAt(txt, i + 4, ")")
  BY <1>2, <1>9, SizedText DEF Definitions
<1> HIDE DEF ts, made, node
<1>10. ASSUME NEW r \in made
       PROVE  \E p \in Definitions :
                /\ r = Got(p.node, i + Len(p.words)) /\ Stands(txt, i, p.words)
                /\ ~Behind(txt, i + Len(p.words), {})
  <2>1. PICK c \in Names : WordAt(txt, i, c)
    BY <1>1, <1>3
  <2>2. PICK t \in Names : WordAt(txt, i + 1, t)
    BY <1>1, <1>4, <2>1
  <2>3. /\ ts[i].name = c /\ ts[i + 1].name = t /\ Is(ts, i, "IDENT") /\ Is(ts, i + 1, "IDENT")
        /\ Is(ts, i + 2, "(") <=> WordAt(txt, i + 2, "(")
    BY <1>3, <1>4, <1>5, <2>1, <2>2
  <2>4. CASE Plain
    <3> DEFINE q == Defined(c, t)
    <3>1. r = Got(node(c, t, 0), i + 2)
      BY <1>1, <2>3, <2>4
    <3>2. /\ q \in Definitions /\ Len(q.words) = 2 /\ q.node = node(c, t, 0)
          /\ Stands(txt, i, q.words)
      BY <1>8, <2>1, <2>2
    <3> HIDE DEF q
    <3> QED
      BY <3>1, <3>2 DEF Behind
  <2>5. CASE ~Plain
    <3>1. InRange /\ r = Got(node(c, t, ts[i + 3].int), i + 5)
      BY <1>1, <2>3, <2>5
    <3>2. WordAt(txt, i + 2, "(") /\ t = "STRING"
      BY <2>3, <2>5
    <3>3. PICK w \in DOMAIN Number : WordAt(txt, i + 3, w) /\ ts[i + 3].int = Number[w]
      BY <1>6, <3>1, <3>2
    <3>4. w \in Fitting /\ WordAt(txt, i + 4, ")")
      BY <1>7, <3>1, <3>3 DEF Fitting
    <3> DEFINE q == Sized(c, "STRING", w)
    <3>5. /\ q \in Definitions /\ Len(q.words) = 5 /\ q.node = node(c, "STRING", Number[w])
          /\ Stands(txt, i, q.words)
      BY <1>9, <2>1, <2>2, <3>2, <3>3, <3>4
    <3> HIDE DEF q
    <3> QED
      BY <3>1, <3>2, <3>3, <3>5 DEF Behind
  <2> QED
    BY <2>4, <2>5
<1>11. ASSUME NEW q \in Definitions, Stands(txt, i, q.words), ~Behind(txt, i + Len(q.words), {"("})
       PROVE  Got(q.node, i + Len(q.words)) \in made
  <2>1. CASE q \in {Defined(c, t) : c \in Names, t \in Names}
    <3>1. PICK c \in Names, t \in Names : q = Defined(c, t)
      BY <2>1
    <3>2. WordAt(txt, i, c) /\ WordAt(txt, i + 1, t) /\ Len(q.words) = 2 /\ q.node = node(c, t, 0)
      BY <1>8, <1>11, <3>1
    <3>3. ~WordAt(txt, i + 2, "(")
      BY <1>11, <3>2 DEF Behind
    <3>4. Is(ts, i, "IDENT") /\ Is(ts, i + 1, "IDENT") /\ Plain /\ ts[i].name = c /\ ts[i + 1].name = t
      BY <1>3, <1>4, <1>5, <3>2, <3>3
    <3>5. made = {Got(node(c, t, 0), i + 2)}
      BY <1>1, <3>4
    <3> QED
      BY <3>2, <3>5
  <2>2. CASE q \in {Sized(c, t, w) : c \in Names, t \in Names \cap {"STRING"}, w \in Fitting}
    <3>1. PICK c \in Names, w \in Fitting : q = Sized(c, "STRING", w) /\ "STRING" \in Names
      BY <2>2
    <3>2. /\ WordAt(txt, i, c) /\ WordAt(txt, i + 1, "STRING") /\ WordAt(txt, i + 2, "(")
          /\ WordAt(txt, i + 3, w) /\ WordAt(txt, i + 4, ")")
          /\ Len(q.words) = 5 /\ q.node = node(c, "STRING", Number[w])
      BY <1>9, <1>11, <3>1
    <3>3. w \in DOMAIN Number /\ Number[w] <= MaxInt
      BY DEF Fitting
    <3>4. Is(ts, i, "IDENT") /\ Is(ts, i + 1, "IDENT") /\ ~Plain /\ ts[i].name = c /\ ts[i + 1].name = "STRING"
      BY <1>3, <1>4, <1>5, <3>1, <3>2
    <3>5. InRange /\ ts[i + 3].int = Number[w]
      BY <1>6, <1>7, <3>2, <3>3
    <3>6. made = {Got(node(c, "STRING", Number[w]), i + 5)}
      BY <1>1, <3>4, <3>5
    <3> QED
      BY <3>2, <3>6
  <2> QED
    BY <2>1, <2>2 DEF Definitions
<1>12. Sound(txt, i, made, Definitions, {})
  BY <1>10 DEF Sound
<1>13. Complete(txt, i, made, Definitions, {"("})
  BY <1>11 DEF Complete
<1> QED
  BY <1>12, <1>13 DEF made, ts

LEMMA ItemRead ==
  ASSUME NEW txt \in Seq(Words), NEW i \in 1 .. Len(txt) + 1, NEW what \in Whats
  PROVE  LET made == Item(what, Tokenize(txt), i)
         IN  /\ Sound(txt, i, made, Phrases(what), Ends(what))
             /\ Complete(txt, i, made, Phrases(what), Stops(what))
<1> DEFINE ts == Tokenize(txt)
<1>1. CASE what = "expression"
  <2>1. Item(what, ts, i) = Expression(txt, i)
    BY <1>1 DEF Item, Expression
  <2>2. Phrases(what) = Expressions /\ Ends(what) = Operators /\ Stops(what) = Operators
    BY <1>1 DEF Phrases, Ends, Stops
  <2> QED
    BY <2>1, <2>2, ExpressionSound, ExpressionComplete
<1>2. CASE what = "projection"
  <2>1. Phrases(what) = Projection(Expressions) /\ Ends(what) = {} /\ Stops(what) = Operators
    BY <1>2 DEF Phrases, Ends, Stops
  <2> QED
    BY <1>2, <2>1, ProjectionRead
<1>3. CASE what = "name"
  <2>1. Phrases(what) = NamePhrases /\ Ends(what) = {} /\ Stops(what) = {}
    BY <1>3 DEF Phrases, Ends, Stops
  <2> QED
    BY <1>3, <2>1, NameRead
<1>4. CASE what = "assignment"
  <2>1. Phrases(what) = Assignments(Expressions) /\ Ends(what) = Operators
        /\ Stops(what) = Operators
    BY <1>4 DEF Phrases, Ends, Stops
  <2>2. Item(what, ts, i) = Assignment(ts, i)
    BY <1>4 DEF Item
  <2> QED
    BY <2>1, <2>2, AssignmentRead
<1>5. CASE what = "definition"
  <2>1. Phrases(what) = Definitions /\ Ends(what) = {} /\ Stops(what) = {"("}
    BY <1>5 DEF Phrases, Ends, Stops
  <2>2. Item(what, ts, i) = ColumnDefinition(ts, i)
    BY <1>5 DEF Item
  <2> QED
    BY <2>1, <2>2, DefinitionRead
<1> QED
  BY <1>1, <1>2, <1>3, <1>4, <1>5 DEF Whats
-----------------------------------------------------------------------------
(* Lists of items.                                                          *)

LEMMA ListInduction ==
  ASSUME NEW P, IsPhrases(P), NEW Q,
         \A p \in P : Listed(<<p>>) \in Q,
         \A p \in P, ps \in Seq(P) \ {<<>>} : Listed(ps) \in Q => Listed(<<p>> \o ps) \in Q
  PROVE  Lists(P) \subseteq Q
<1> SUFFICES ASSUME NEW ps \in Seq(P), ps # <<>> PROVE Listed(ps) \in Q
  BY DEF Lists
<1> DEFINE l == Len(ps)
           S == {n \in 1 .. l : \A qs \in Seq(P) : Len(qs) = n => Listed(qs) \in Q}
<1>1. l \in Nat /\ 1 <= l
  BY EmptySeq
<1> HIDE DEF l
<1>2. 1 \in S
  <2> SUFFICES ASSUME NEW qs \in Seq(P), Len(qs) = 1 PROVE Listed(qs) \in Q
    BY <1>1
  <2> DEFINE p == qs[1]
             one == <<p>>
  <2>0. 1 \in 1 .. Len(qs)
    OBVIOUS
  <2>1. p \in P
    BY <2>0
  <2>3. one \in Seq(P) /\ Len(one) = 1 /\ \A i \in 1 .. 1 : one[i] = qs[i]
    BY <2>1
  <2>4. qs = one
    <3> HIDE DEF one
    <3> QED
      BY <2>3, SeqEqual
  <2> QED
    BY <2>1
<1>3. ASSUME NEW n \in 1 + 1 .. l, n - 1 \in S PROVE n \in S
  <2> SUFFICES ASSUME NEW qs \in Seq(P), Len(qs) = n PROVE Listed(qs) \in Q
    BY <1>1
  <2> DEFINE p == qs[1]
             rest == [j \in 1 .. n - 1 |-> qs[j + 1]]
  <2>1. p \in P /\ rest \in Seq(P) /\ Len(rest) = n - 1 /\ rest # <<>>
    OBVIOUS
  <2>2. \A j \in 1 .. n - 1 : rest[j] = qs[j + 1]
    OBVIOUS
  <2> HIDE DEF rest
  <2>3. qs = <<p>> \o rest
    <3> DEFINE one == <<p>>
    <3>1. one \in Seq(P) /\ Len(one) = 1 /\ one[1] = p
      BY <2>1
    <3> HIDE DEF one
    <3>2. /\ one \o rest \in Seq(P) /\ Len(one \o rest) = Len(one) + Len(rest)
          /\ \A j \in 1 .. Len(one) + Len(rest) : (one \o rest)[j] = IF j <= Len(one) THEN one[j] ELSE rest[j - Len(one)]
      BY <2>1, <3>1, ConcatProperties
    <3>3. Len(one \o rest) = n /\ \A j \in 1 .. n : (one \o rest)[j] = IF j <= 1 THEN one[j] ELSE rest[j - 1]
      BY <2>1, <3>1, <3>2
    <3>4. ASSUME NEW j \in 1 .. n PROVE qs[j] = (one \o rest)[j]
      <4>1. CASE j = 1
        BY <3>1, <3>3, <4>1
      <4>2. CASE j # 1
        <5>1. j - 1 \in 1 .. n - 1 /\ (j - 1) + 1 = j /\ ~(j <= 1)
          BY <4>2
        <5> QED
          BY <2>2, <3>3, <5>1
      <4> QED
        BY <4>1, <4>2
    <3>5. qs = one \o rest
      BY <3>2, <3>3, <3>4, SeqEqual
    <3> QED
      BY <3>5 DEF one
  <2>4. Listed(rest) \in Q
    BY <1>3, <2>1
  <2> QED
    BY <2>1, <2>3, <2>4
<1>4. l \in S
  <2> HIDE DEF S
  <2> QED
    BY <1>1, <1>2, <1>3, Upwards
<1> QED
  BY <1>4 DEF l

LEMMA StandsCommas ==
  ASSUME NEW txt \in Seq(Words), NEW i \in Nat \ {0}, NEW u \in Seq(Words), NEW v \in Seq(Words)
  PROVE  /\ Stands(txt, i, u \o <<",">> \o v) <=>
              /\ Stands(txt, i, u) /\ WordAt(txt, i + Len(u), ",")
              /\ Stands(txt, i + Len(u) + 1, v)
         /\ Len(u \o <<",">> \o v) = Len(u) + 1 + Len(v)
         /\ u \o <<",">> \o v \in Seq(Words)
<1> DEFINE op == ","
<1>1. op \in Words
  BY CommaWord
<1> HIDE DEF op
<1>2. /\ Stands(txt, i, u \o <<op>> \o v) <=>
              /\ Stands(txt, i, u) /\ WordAt(txt, i + Len(u), op)
              /\ Stands(txt, i + Len(u) + 1, v)
      /\ Len(u \o <<op>> \o v) = Len(u) + 1 + Len(v)
      /\ u \o <<op>> \o v \in Seq(Words)
  BY <1>1, StandsApplied
<1> QED
  BY <1>2 DEF op

\* The texts of lists.
LEMMA ListTexts ==
  ASSUME NEW P, IsPhrases(P)
  PROVE  IsPhrases(Lists(P))
<1> DEFINE Q == {q \in Lists(P) : IsText(q.words)}
<1>1. ASSUME NEW p \in P PROVE Listed(<<p>>) \in Q
  <2>1. <<p>> \in Seq(P) \ {<<>>}
    OBVIOUS
  <2> QED
    BY <2>1, ListedOne DEF Lists, IsPhrases
<1>2. ASSUME NEW p \in P, NEW ps \in Seq(P) \ {<<>>}, Listed(ps) \in Q PROVE Listed(<<p>> \o ps) \in Q
  <2> DEFINE u == p.words
             v == Listed(ps).words
  <2>1. <<p>> \o ps \in Seq(P) \ {<<>>}
    OBVIOUS
  <2>2. Listed(<<p>> \o ps).words = u \o <<",">> \o v
    BY ListedMore
  <2>3. u \in Seq(Words) /\ v \in Seq(Words)
    BY <1>2 DEF IsPhrases, IsText
  <2> HIDE DEF u, v
  <2> DEFINE w == u \o <<",">> \o v
             txt == <<>>
  <2>8. txt \in Seq(Words) /\ 1 \in Nat \ {0}
    OBVIOUS
  <2> HIDE DEF txt
  <2>4. w \in Seq(Words) /\ Len(w) = Len(u) + 1 + Len(v)
    BY <2>3, <2>8, StandsCommas
  <2> HIDE DEF w
  <2>5. Len(u) \in Nat /\ Len(v) \in Nat
    BY <2>3
  <2>7. w \in Seq(Words) /\ Len(w) > 0
    BY <2>4, <2>5
  <2>6. IsText(Listed(<<p>> \o ps).words)
    BY <2>2, <2>7 DEF IsText, w
  <2> QED
    BY <2>1, <2>6 DEF Lists
<1> HIDE DEF Q
<1>3. Lists(P) \subseteq Q
  BY <1>1, <1>2, ListInduction
<1> QED
  BY <1>3 DEF Q, IsPhrases

List(txt, what, i) == Items(what, Tokenize(txt))[i]

LEMMA ListIs ==
  ASSUME NEW txt \in Seq(Words), NEW what \in Whats, NEW i \in 1 .. Len(txt) + 1
  PROVE  LET ts == Tokenize(txt)
         IN  List(txt, what, i) = UNION {Onward(ts, Items(what, ts), first) : first \in Item(what, ts, i)}
BY TextEnds, ItemsIs DEF List, MakeItems

\* The comma behind the first item.
LEMMA CommaRead ==
  ASSUME NEW txt \in Seq(Words), NEW first, first.pos \in 1 .. Len(txt) + 1, NEW what
  PROVE  LET ts == Tokenize(txt)
             made == Onward(ts, Items(what, ts), first)
             next == first.pos + 1
         IN  /\ ~WordAt(txt, first.pos, ",") => made = {Got(<<first.node>>, first.pos)}
             /\ WordAt(txt, first.pos, ",") =>
                  /\ made = {Got(<<first.node>> \o more.node, more.pos) : more \in List(txt, what, next)}
                  /\ next \in 1 .. Len(txt) + 1
<1>1. "," \in Keywords \cup Symbols
  BY DEF Symbols
<1>2. Is(Tokenize(txt), first.pos, ",") <=> WordAt(txt, first.pos, ",")
  BY <1>1, TokenIs
<1>3. WordAt(txt, first.pos, ",") => first.pos + 1 \in 1 .. Len(txt) + 1
  <2> DEFINE k == first.pos
  <2>1. k \in Nat \ {0}
    OBVIOUS
  <2> HIDE DEF k
  <2>2. WordAt(txt, k, ",") => k + 1 \in 1 .. Len(txt) + 1
    BY <2>1, WordPlace
  <2> QED
    BY <2>2 DEF k
<1> QED
  BY <1>2, <1>3 DEF Onward, List

LEMMA ListSound ==
  ASSUME NEW txt \in Seq(Words), NEW what \in Whats
  PROVE  \A i \in 1 .. Len(txt) + 1 :
           Sound(txt, i, List(txt, what, i), Lists(Phrases(what)), Ends(what) \cup {","})
<1> DEFINE l == Len(txt) + 1
           ts == Tokenize(txt)
           P == Phrases(what)
           more == Ends(what) \cup {","}
           S == {i \in 1 .. l : Sound(txt, i, List(txt, what, i), Lists(P), more)}
<1>1. l \in Nat /\ IsPhrases(P) /\ IsPhrases(Lists(P))
  BY PhrasesAreTexts, ListTexts
<1>2. ASSUME NEW i \in 1 .. l, \A j \in i + 1 .. l : j \in S PROVE i \in S
  <2>1. Sound(txt, i, Item(what, ts, i), P, Ends(what))
    BY ItemRead
  <2>2. ASSUME NEW r \in List(txt, what, i)
        PROVE  \E q \in Lists(P) :
                 /\ r = Got(q.node, i + Len(q.words)) /\ Stands(txt, i, q.words)
                 /\ ~Behind(txt, i + Len(q.words), more)
    <3>1. PICK first \in Item(what, ts, i) : r \in Onward(ts, Items(what, ts), first)
      BY ListIs
    <3>2. PICK p \in P :
            /\ first = Got(p.node, i + Len(p.words)) /\ Stands(txt, i, p.words)
            /\ ~Behind(txt, i + Len(p.words), Ends(what))
      BY <2>1 DEF Sound
    <3> DEFINE u == p.words
               k == i + Len(u)
    <3>3. IsText(u) /\ u \in Seq(Words) /\ i \in Nat \ {0} /\ Len(u) \in Nat
      BY <1>1 DEF IsPhrases, IsText
    <3>4. k \in i + 1 .. l /\ k \in 1 .. l /\ first.pos = k /\ first.node = p.node
      BY <3>2, <3>3, StandsEnd, GotParts
    <3> HIDE DEF k
    <3>5. CASE ~WordAt(txt, k, ",")
      <4> DEFINE q == Listed(<<p>>)
      <4>1. r = Got(<<p.node>>, k)
        BY <3>1, <3>4, <3>5, CommaRead
      <4>2. q \in Lists(P)
        <5>1. <<p>> \in Seq(P) \ {<<>>}
          OBVIOUS
        <5> QED
          BY <5>1 DEF Lists
      <4>3. q.words = u /\ q.node = <<p.node>>
        BY <1>1, ListedOne
      <4> HIDE DEF q
      <4> QED
        BY <3>2, <3>5, <4>1, <4>2, <4>3 DEF Behind, k
    <3>6. CASE WordAt(txt, k, ",")
      <4>1. PICK rest \in List(txt, what, k + 1) : r = Got(<<p.node>> \o rest.node, rest.pos)
        <5>1. WordAt(txt, first.pos, ",") /\ first.pos \in 1 .. Len(txt) + 1
          BY <3>4, <3>6
        <5>2. Onward(ts, Items(what, ts), first) =
                {Got(<<first.node>> \o x.node, x.pos) : x \in List(txt, what, first.pos + 1)}
          BY <5>1, CommaRead
        <5> QED
          BY <3>1, <3>4, <5>2
      <4>2. k + 1 \in i + 1 .. l
        <5>2. k + 1 \in 1 .. l
          BY <3>4, <3>6, CommaRead
        <5>1. k + 1 \in 1 .. l /\ k >= i + 1 /\ k \in Int
          BY <3>4, <5>2
        <5> QED
          BY <5>1
      <4>3. PICK b \in Lists(P) :
              /\ rest = Got(b.node, k + 1 + Len(b.words)) /\ Stands(txt, k + 1, b.words)
              /\ ~Behind(txt, k + 1 + Len(b.words), more)
        BY <1>2, <4>1, <4>2 DEF Sound
      <4>4. PICK ps \in Seq(P) \ {<<>>} : b = Listed(ps)
        BY DEF Lists
      <4> DEFINE q == Listed(<<p>> \o ps)
                 v == b.words
      <4>5. q \in Lists(P)
        <5>1. <<p>> \o ps \in Seq(P) \ {<<>>}
          OBVIOUS
        <5> QED
          BY <5>1 DEF Lists
      <4>6. q.words = u \o <<",">> \o v /\ q.node = <<p.node>> \o b.node
        BY <1>1, <4>4, ListedMore
      <4>7. v \in Seq(Words) /\ Len(v) \in Nat
        BY <1>1 DEF IsPhrases, IsText
      <4> HIDE DEF q, u, v
      <4>8. Stands(txt, i, q.words) /\ Len(q.words) = Len(u) + 1 + Len(v)
        <5>1. Stands(txt, i, u) /\ WordAt(txt, i + Len(u), ",") /\ Stands(txt, i + Len(u) + 1, v)
          BY <3>2, <3>6, <4>3 DEF u, v, k
        <5>2. u \in Seq(Words) /\ v \in Seq(Words) /\ i \in Nat \ {0}
          BY <3>3, <4>7 DEF u
        <5> DEFINE w == u \o <<",">> \o v
        <5>3. Stands(txt, i, w) /\ Len(w) = Len(u) + 1 + Len(v)
          BY <5>1, <5>2, StandsCommas
        <5> HIDE DEF w
        <5> QED
          BY <4>6, <5>3 DEF w
      <4>9. i + Len(q.words) = k + 1 + Len(v)
        BY <3>3, <4>7, <4>8 DEF k
      <4>10. rest.pos = k + 1 + Len(v) /\ rest.node = b.node
        BY <4>3, GotParts DEF v
      <4> QED
        BY <4>1, <4>3, <4>5, <4>6, <4>8, <4>9, <4>10 DEF v
    <3> QED
      BY <3>5, <3>6
  <2> QED
    BY <2>2 DEF Sound
<1> HIDE DEF S
<1>3. \A i \in 1 .. l : i \in S
  BY <1>1, <1>2, Downwards
<1> QED
  BY <1>3 DEF S

LEMMA ListComplete ==
  ASSUME NEW txt \in Seq(Words), NEW what \in Whats
  PROVE  \A i \in 1 .. Len(txt) + 1 :
           Complete(txt, i, List(txt, what, i), Lists(Phrases(what)), Stops(what) \cup {","})
<1> DEFINE l == Len(txt) + 1
           ts == Tokenize(txt)
           P == Phrases(what)
           more == Stops(what) \cup {","}
           Reads(i, q) ==
             Stands(txt, i, q.words) /\ ~Behind(txt, i + Len(q.words), more)
               => Got(q.node, i + Len(q.words)) \in List(txt, what, i)
           Q == {q \in Lists(P) : \A i \in 1 .. l : Reads(i, q)}
<1>1. l \in Nat /\ IsPhrases(P) /\ IsPhrases(Lists(P))
  BY PhrasesAreTexts, ListTexts
<1>2. \A i \in 1 .. l : Complete(txt, i, Item(what, ts, i), P, Stops(what))
  BY ItemRead
<1>3. "," \notin Stops(what)
  BY DEF Stops, Operators, Compare
<1>4. ASSUME NEW i \in 1 .. l, NEW p \in P, Stands(txt, i, p.words),
             ~Behind(txt, i + Len(p.words), Stops(what))
      PROVE  LET first == Got(p.node, i + Len(p.words))
             IN  /\ Onward(ts, Items(what, ts), first) \subseteq List(txt, what, i)
                 /\ first.pos = i + Len(p.words) /\ first.node = p.node
                 /\ first.pos \in 1 .. l
  <2> DEFINE first == Got(p.node, i + Len(p.words))
  <2>1. first \in Item(what, ts, i)
    BY <1>2, <1>4 DEF Complete
  <2>2. first.pos = i + Len(p.words) /\ first.node = p.node
    BY GotParts
  <2>3. i + Len(p.words) \in i + 1 .. l
    BY <1>1, <1>4, StandsEnd DEF IsPhrases
  <2>4. i + Len(p.words) \in 1 .. l
    <3> DEFINE n == i + Len(p.words)
    <3> HIDE DEF n
    <3>1. n \in i + 1 .. l
      BY <2>3 DEF n
    <3>2. n \in 1 .. l
      BY <3>1
    <3> QED
      BY <3>2 DEF n
  <2> HIDE DEF first
  <2>5. Onward(ts, Items(what, ts), first) \subseteq List(txt, what, i)
    BY <2>1, ListIs
  <2> QED
    BY <2>2, <2>4, <2>5 DEF first
<1>5. ASSUME NEW p \in P PROVE Listed(<<p>>) \in Q
  <2> DEFINE q == Listed(<<p>>)
  <2>1. q \in Lists(P)
    <3>1. <<p>> \in Seq(P) \ {<<>>}
      OBVIOUS
    <3> QED
      BY <3>1 DEF Lists
  <2>2. q.words = p.words /\ q.node = <<p.node>>
    BY <1>1, ListedOne
  <2> HIDE DEF q
  <2>3. ASSUME NEW i \in 1 .. l, Stands(txt, i, q.words), ~Behind(txt, i + Len(q.words), more)
        PROVE  Got(q.node, i + Len(q.words)) \in List(txt, what, i)
    <3> DEFINE k == i + Len(p.words)
               first == Got(p.node, k)
    <3>1. ~Behind(txt, k, Stops(what)) /\ ~WordAt(txt, k, ",")
      BY <2>2, <2>3 DEF Behind
    <3>2. /\ Onward(ts, Items(what, ts), first) \subseteq List(txt, what, i)
          /\ first.pos = k /\ first.node = p.node /\ first.pos \in 1 .. l
      BY <1>4, <2>2, <2>3, <3>1
    <3> HIDE DEF first, k
    <3>3. Onward(ts, Items(what, ts), first) = {Got(<<first.node>>, first.pos)}
      BY <3>1, <3>2, CommaRead
    <3>4. Got(<<p.node>>, k) \in List(txt, what, i)
      BY <3>2, <3>3
    <3> QED
      BY <2>2, <3>4 DEF k
  <2> QED
    BY <2>1, <2>3 DEF q
<1>6. ASSUME NEW p \in P, NEW ps \in Seq(P) \ {<<>>}, Listed(ps) \in Q PROVE Listed(<<p>> \o ps) \in Q
  <2> DEFINE q == Listed(<<p>> \o ps)
             b == Listed(ps)
             u == p.words
             v == b.words
  <2>1. q \in Lists(P) /\ b \in Lists(P)
    <3>1. <<p>> \o ps \in Seq(P) \ {<<>>}
      OBVIOUS
    <3> QED
      BY <3>1 DEF Lists
  <2>2. q.words = u \o <<",">> \o v /\ q.node = <<p.node>> \o b.node
    BY <1>1, ListedMore
  <2>3. /\ u \in Seq(Words) /\ v \in Seq(Words) /\ Len(u) \in Nat /\ Len(v) \in Nat
        /\ IsText(u) /\ IsText(v)
    BY <1>1, <2>1 DEF IsPhrases, IsText
  <2> HIDE DEF q, u, v
  <2>4. ASSUME NEW i \in 1 .. l, Stands(txt, i, q.words), ~Behind(txt, i + Len(q.words), more)
        PROVE  Got(q.node, i + Len(q.words)) \in List(txt, what, i)
    <3> DEFINE k == i + Len(u)
               m == k + 1 + Len(v)
               first == Got(p.node, k)
               rest == Got(b.node, m)
    <3>1. /\ Stands(txt, i, u) /\ WordAt(txt, k, ",") /\ Stands(txt, k + 1, v)
          /\ Len(q.words) = Len(u) + 1 + Len(v)
      <4>1. u \in Seq(Words) /\ v \in Seq(Words) /\ i \in Nat \ {0}
        BY <2>3
      <4> DEFINE w == u \o <<",">> \o v
      <4>2. q.words = w
        BY <2>2
      <4>3. /\ Stands(txt, i, w) <=>
                 /\ Stands(txt, i, u) /\ WordAt(txt, i + Len(u), ",")
                 /\ Stands(txt, i + Len(u) + 1, v)
            /\ Len(w) = Len(u) + 1 + Len(v)
        BY <4>1, StandsCommas
      <4> HIDE DEF w
      <4> QED
        BY <2>4, <4>2, <4>3
    <3>2. i + Len(q.words) = m
      <4> DEFINE n == Len(q.words)
                 a == Len(u)
                 c == Len(v)
      <4>3. i \in Nat
        BY <1>1
      <4>4. m = i + a + 1 + c
        OBVIOUS
      <4>5. n = a + 1 + c /\ a \in Nat /\ c \in Nat
        BY <2>3, <3>1
      <4>1. n = a + 1 + c /\ a \in Nat /\ c \in Nat /\ i \in Nat /\ m = i + a + 1 + c
        BY <4>3, <4>4, <4>5
      <4> HIDE DEF n, a, c, m
      <4>2. i + n = m
        BY <4>1
      <4> QED
        BY <4>2 DEF n
    <3>3. ~Behind(txt, k, Stops(what))
      BY <1>3, <3>1 DEF Behind, WordAt
    <3> HIDE DEF m
    <3>4. /\ Onward(ts, Items(what, ts), first) \subseteq List(txt, what, i)
          /\ first.pos = k /\ first.node = p.node /\ first.pos \in 1 .. l
      BY <1>4, <3>1, <3>3 DEF u
    <3> HIDE DEF first, k
    <3>5. /\ k + 1 \in 1 .. l
          /\ Onward(ts, Items(what, ts), first) =
               {Got(<<first.node>> \o more_.node, more_.pos) : more_ \in List(txt, what, k + 1)}
      BY <3>1, <3>4, CommaRead
    <3>6. rest \in List(txt, what, k + 1)
      <4>1. k + 1 + Len(v) = m
        BY DEF m, k
      <4> QED
        BY <1>6, <2>4, <3>1, <3>2, <3>5, <4>1 DEF v
    <3>7. rest.node = b.node /\ rest.pos = m
      BY GotParts
    <3> HIDE DEF rest
    <3>8. Got(<<p.node>> \o b.node, m) \in List(txt, what, i)
      BY <3>4, <3>5, <3>6, <3>7
    <3> QED
      BY <2>2, <3>2, <3>8
  <2> QED
    BY <2>1, <2>4 DEF q
<1>7. Lists(P) \subseteq Q
  <2> HIDE DEF Q
  <2> QED
    BY <1>1, <1>5, <1>6, ListInduction
<1> QED
  BY <1>7 DEF Complete
-----------------------------------------------------------------------------
(* Parts of statements.                                                     *)

\* r is what the phrase of G that stands at place i means.
Meant(txt, i, r, G, more) ==
  \E p \in G : /\ r = Got(p.node, i + Len(p.words)) /\ Stands(txt, i, p.words)
               /\ ~Behind(txt, i + Len(p.words), more)

LEMMA ListRead ==
  ASSUME NEW txt \in Seq(Words), NEW i \in 1 .. Len(txt) + 1
  PROVE  /\ \A what \in Whats :
              /\ Sound(txt, i, Items(what, Tokenize(txt))[i], Lists(Phrases(what)), Ends(what) \cup {","})
              /\ Complete(txt, i, Items(what, Tokenize(txt))[i], Lists(Phrases(what)), Stops(what) \cup {","})
BY ListSound, ListComplete DEF List

LEMMA EnclosedTexts ==
  ASSUME NEW P, IsPhrases(P)
  PROVE  IsPhrases(InParentheses(P))
<1> SUFFICES ASSUME NEW p \in P PROVE IsText(Parenthesized(p).words)
  BY DEF InParentheses, IsPhrases
<1>1. p.words \in Seq(Words)
  BY DEF IsPhrases, IsText
<1> QED
  BY <1>1, EncloseText, PhraseParts DEF Parenthesized

LEMMA ParenthesizedStands ==
  ASSUME NEW txt \in Seq(Words), NEW i \in Nat \ {0}, NEW p, IsText(p.words)
  PROVE  LET q == Parenthesized(p)
             n == Len(p.words)
         IN  /\ q.node = p.node /\ Len(q.words) = n + 2 /\ n \in Nat
             /\ Stands(txt, i, q.words) <=>
                  WordAt(txt, i, "(") /\ Stands(txt, i + 1, p.words) /\ WordAt(txt, i + 1 + n, ")")
<1> DEFINE w == p.words
<1>1. w \in Seq(Words) /\ Len(w) \in Nat
  BY DEF IsText
<1>2. Parenthesized(p).words = Enclose(w) /\ Parenthesized(p).node = p.node
  BY PhraseParts DEF Parenthesized
<1> HIDE DEF w
<1> QED
  BY <1>1, <1>2, EncloseText, StandsEnclosed DEF w

\* A list in parentheses.
LEMMA EnclosedRead ==
  ASSUME NEW txt \in Seq(Words), NEW i \in 1 .. Len(txt) + 1, NEW what \in Whats
  PROVE  LET made == Enclosed(what, Tokenize(txt), i)
             G == InParentheses(Lists(Phrases(what)))
         IN  Sound(txt, i, made, G, {}) /\ Complete(txt, i, made, G, {})
<1> DEFINE ts == Tokenize(txt)
           P == Lists(Phrases(what))
           G == InParentheses(P)
           made == Enclosed(what, ts, i)
           inner == Items(what, ts)[i + 1]
           more == Stops(what) \cup {","}
<1>1. /\ ~Is(ts, i, "(") => made = {}
      /\ Is(ts, i, "(") => made = {Got(r.node, r.pos + 1) : r \in {q \in inner : Is(ts, q.pos, ")")}}
  BY DEF Enclosed, Expect
<1>2. "(" \in Keywords \cup Symbols /\ ")" \in Keywords \cup Symbols /\ i \in Nat \ {0}
  BY DEF Symbols
<1>3. Is(ts, i, "(") <=> WordAt(txt, i, "(")
  BY <1>2, TokenIs
<1>4. ")" \notin more
  BY DEF Stops, Operators, Compare
<1>5. IsPhrases(P)
  BY PhrasesAreTexts, ListTexts
<1>6. WordAt(txt, i, "(") => /\ i + 1 \in 1 .. Len(txt) + 1
                              /\ Sound(txt, i + 1, inner, P, Ends(what) \cup {","})
                              /\ Complete(txt, i + 1, inner, P, more)
  <2>1. WordAt(txt, i, "(") => i + 1 \in 1 .. Len(txt) + 1
    BY <1>2, WordPlace
  <2> QED
    BY <2>1, ListRead
<1> HIDE DEF ts, P, made, inner, more
<1>7. ASSUME NEW p \in P
      PROVE  LET q == Parenthesized(p)
                 n == Len(p.words)
             IN  /\ q \in G /\ q.node = p.node /\ Len(q.words) = n + 2 /\ n \in Nat
                 /\ Stands(txt, i, q.words) <=>
                      WordAt(txt, i, "(") /\ Stands(txt, i + 1, p.words) /\ WordAt(txt, i + 1 + n, ")")
  <2>1. IsText(p.words) /\ Parenthesized(p) \in G
    BY <1>5 DEF IsPhrases, InParentheses
  <2> QED
    BY <1>2, <2>1, ParenthesizedStands
<1>8. ASSUME NEW r \in made
      PROVE  \E q \in G : /\ r = Got(q.node, i + Len(q.words)) /\ Stands(txt, i, q.words)
                          /\ ~Behind(txt, i + Len(q.words), {})
  <2>1. WordAt(txt, i, "(")
    BY <1>1, <1>3
  <2>2. PICK x \in inner : Is(ts, x.pos, ")") /\ r = Got(x.node, x.pos + 1)
    BY <1>1, <1>3, <2>1
  <2>3. PICK p \in P : x = Got(p.node, i + 1 + Len(p.words)) /\ Stands(txt, i + 1, p.words)
    BY <1>6, <2>1 DEF Sound
  <2> DEFINE q == Parenthesized(p)
             n == Len(p.words)
             k == i + 1 + n
  <2>4. /\ q \in G /\ q.node = p.node /\ Len(q.words) = n + 2 /\ n \in Nat
        /\ Stands(txt, i, q.words) <=>
             WordAt(txt, i, "(") /\ Stands(txt, i + 1, p.words) /\ WordAt(txt, i + 1 + n, ")")
    BY <1>7
  <2> HIDE DEF q
  <2>5. x.pos = k /\ x.node = p.node
    BY <2>3, GotParts
  <2>6. k \in 1 .. Len(txt) + 1
    <3>1. IsText(p.words) /\ i + 1 \in Nat \ {0}
      BY <1>5 DEF IsPhrases
    <3>2. (i + 1) + n \in (i + 1) + 1 .. Len(txt) + 1
      BY <2>3, <3>1, StandsEnd
    <3> HIDE DEF n
    <3> QED
      BY <3>1, <3>2
  <2> HIDE DEF n
  <2>7. WordAt(txt, k, ")") /\ r = Got(p.node, k + 1)
    <3> HIDE DEF k
    <3> QED
      BY <1>2, <2>2, <2>5, <2>6, TokenIs DEF ts
  <2>8. k + 1 = i + (n + 2)
    BY <2>4
  <2> QED
    BY <2>1, <2>3, <2>4, <2>7, <2>8 DEF Behind, n
<1>9. ASSUME NEW q \in G, Stands(txt, i, q.words)
      PROVE  Got(q.node, i + Len(q.words)) \in made
  <2>1. PICK p \in P : q = Parenthesized(p)
    BY DEF InParentheses
  <2> DEFINE n == Len(p.words)
             k == i + 1 + n
             x == Got(p.node, k)
  <2>2. /\ q.node = p.node /\ Len(q.words) = n + 2 /\ n \in Nat
        /\ WordAt(txt, i, "(") /\ Stands(txt, i + 1, p.words) /\ WordAt(txt, k, ")")
    BY <1>7, <1>9, <2>1
  <2>3. ~Behind(txt, k, more)
    BY <1>4, <2>2 DEF Behind, WordAt
  <2>4. x \in inner
    BY <1>6, <2>2, <2>3 DEF Complete
  <2>5. k \in 1 .. Len(txt) + 1
    <3> HIDE DEF n
    <3>1. k \in Nat \ {0}
      BY <2>2
    <3> HIDE DEF k
    <3> QED
      BY <2>2, <3>1, WordPlace
  <2>6. i + Len(q.words) = k + 1
    <3> HIDE DEF n
    <3> QED
      BY <2>2
  <2> HIDE DEF n, k
  <2>7. Is(ts, k, ")")
    BY <1>2, <2>2, <2>5, TokenIs DEF ts
  <2>8. x.node = p.node /\ x.pos = k
    BY GotParts
  <2> HIDE DEF x
  <2>9. Got(p.node, k + 1) \in made
    BY <1>1, <1>3, <2>2, <2>4, <2>7, <2>8
  <2> QED
    BY <2>2, <2>6, <2>9
<1>10. Sound(txt, i, made, G, {})
  BY <1>8 DEF Sound
<1>11. Complete(txt, i, made, G, {})
  BY <1>9 DEF Complete
<1> QED
  BY <1>10, <1>11 DEF made, ts, P
LEMMA ConditionText ==
  ASSUME NEW txt \in Seq(Words), NEW i \in Nat \ {0}, NEW p \in Expressions
  PROVE  LET q == Where(p)
             n == Len(p.words)
         IN  /\ q.node = p.node /\ q.words \in Seq(Words) /\ Len(q.words) = 1 + n /\ n \in Nat
             /\ Stands(txt, i, q.words) <=> WordAt(txt, i, "WHERE") /\ Stands(txt, i + 1, p.words)
<1> DEFINE u == <<"WHERE">>
           v == p.words
<1>1. "WHERE" \in Words
  BY DEF Words, Keywords
<1>2. /\ u \in Seq(Words) /\ Len(u) = 1
      /\ Stands(txt, i, u) <=> WordAt(txt, i, "WHERE")
  BY <1>1, StandsWords
<1>3. v \in Seq(Words) /\ Len(v) \in Nat
  BY ExpressionText DEF IsText
<1>4. Where(p).words = u \o v /\ Where(p).node = p.node
  BY DEF Where, Phrase
<1> HIDE DEF u, v
<1>5. /\ u \o v \in Seq(Words) /\ Len(u \o v) = Len(u) + Len(v)
      /\ Stands(txt, i, u \o v) <=> Stands(txt, i, u) /\ Stands(txt, i + Len(u), v)
  BY <1>2, <1>3, StandsTwo
<1> QED
  BY <1>2, <1>3, <1>4, <1>5 DEF v

LEMMA NowhereText ==
  ASSUME NEW txt \in Seq(Words), NEW i \in 1 .. Len(txt) + 1
  PROVE  /\ Nowhere.words = <<>> /\ Nowhere.node = NoWhere /\ Len(<<>>) = 0 /\ <<>> \in Seq(Words)
         /\ Stands(txt, i, <<>>)
BY DEF Nowhere, Phrase, Stands

\* The WHERE of a statement, or none.
LEMMA WhereRead ==
  ASSUME NEW txt \in Seq(Words), NEW i \in 1 .. Len(txt) + 1
  PROVE  LET made == OptionalWhere(Tokenize(txt), i)
         IN  /\ \A r \in made : \/ Meant(txt, i, r, Conditions(Expressions), Operators)
                                \/ Meant(txt, i, r, {Nowhere}, {"WHERE"})
             /\ Complete(txt, i, made, Conditions(Expressions), Operators)
             /\ Complete(txt, i, made, {Nowhere}, {"WHERE"})
<1> DEFINE ts == Tokenize(txt)
           made == OptionalWhere(ts, i)
<1>1. /\ Is(ts, i, "WHERE") => made = Expression(txt, i + 1)
      /\ ~Is(ts, i, "WHERE") => made = {Got(NoWhere, i)}
  BY DEF OptionalWhere, Expression
<1>2. Is(ts, i, "WHERE") <=> WordAt(txt, i, "WHERE")
  <2>1. "WHERE" \in Keywords \cup Symbols
    BY DEF Keywords
  <2> QED
    BY <2>1, TokenIs
<1>3. WordAt(txt, i, "WHERE") =>
        /\ i + 1 \in 1 .. Len(txt) + 1
        /\ Sound(txt, i + 1, Expression(txt, i + 1), Expressions, Operators)
        /\ Complete(txt, i + 1, Expression(txt, i + 1), Expressions, Operators)
  <2>1. WordAt(txt, i, "WHERE") => i + 1 \in 1 .. Len(txt) + 1
    BY WordPlace
  <2> QED
    BY <2>1, ExpressionSound, ExpressionComplete
<1> HIDE DEF ts, made
<1>4. ASSUME NEW p \in Expressions
      PROVE  LET q == Where(p)
                 n == Len(p.words)
             IN  /\ q \in Conditions(Expressions) /\ q.node = p.node /\ Len(q.words) = 1 + n
                        /\ n \in Nat
                 /\ i + Len(q.words) = i + 1 + n
                 /\ Stands(txt, i, q.words) <=> WordAt(txt, i, "WHERE") /\ Stands(txt, i + 1, p.words)
  <2> DEFINE q == Where(p)
             n == Len(p.words)
  <2>1. /\ q \in Conditions(Expressions) /\ q.node = p.node /\ Len(q.words) = 1 + n /\ n \in Nat
        /\ Stands(txt, i, q.words) <=> WordAt(txt, i, "WHERE") /\ Stands(txt, i + 1, p.words)
    <3>1. i \in Nat \ {0}
      OBVIOUS
    <3> QED
      BY <3>1, ConditionText DEF Conditions
  <2>2. i + Len(q.words) = i + 1 + n
    <3> HIDE DEF n, q
    <3> QED
      BY <2>1
  <2> QED
    BY <2>1, <2>2
<1>5. /\ Nowhere.words = <<>> /\ Nowhere.node = NoWhere /\ Len(<<>>) = 0 /\ Stands(txt, i, <<>>)
      /\ i + 0 = i
  BY NowhereText
<1>6. ASSUME NEW r \in made
      PROVE  \/ Meant(txt, i, r, Conditions(Expressions), Operators)
             \/ Meant(txt, i, r, {Nowhere}, {"WHERE"})
  <2>1. CASE WordAt(txt, i, "WHERE")
    <3>1. PICK p \in Expressions :
            /\ r = Got(p.node, i + 1 + Len(p.words)) /\ Stands(txt, i + 1, p.words)
            /\ ~Behind(txt, i + 1 + Len(p.words), Operators)
      BY <1>1, <1>2, <1>3, <2>1 DEF Sound
    <3>2. Meant(txt, i, r, Conditions(Expressions), Operators)
      <4> DEFINE q == Where(p)
      <4>1. /\ q \in Conditions(Expressions) /\ q.node = p.node
                /\ i + Len(q.words) = i + 1 + Len(p.words)
            /\ Stands(txt, i, q.words)
        BY <1>4, <2>1, <3>1
      <4> HIDE DEF q
      <4> QED
        BY <3>1, <4>1 DEF Meant
    <3> QED
      BY <3>2
  <2>2. CASE ~WordAt(txt, i, "WHERE")
    <3>1. r = Got(NoWhere, i)
      BY <1>1, <1>2, <2>2
    <3> QED
      BY <1>5, <2>2, <3>1 DEF Meant, Behind
  <2> QED
    BY <2>1, <2>2
<1>7. Complete(txt, i, made, Conditions(Expressions), Operators)
  <2> SUFFICES ASSUME NEW p \in Expressions, Stands(txt, i, Where(p).words),
                      ~Behind(txt, i + Len(Where(p).words), Operators)
               PROVE  Got(Where(p).node, i + Len(Where(p).words)) \in made
    BY DEF Complete, Conditions
  <2>1. /\ Where(p).node = p.node /\ i + Len(Where(p).words) = i + 1 + Len(p.words)
        /\ WordAt(txt, i, "WHERE") /\ Stands(txt, i + 1, p.words)
    BY <1>4
  <2>2. Got(p.node, i + 1 + Len(p.words)) \in Expression(txt, i + 1)
    BY <1>3, <2>1 DEF Complete
  <2> QED
    BY <1>1, <1>2, <2>1, <2>2
<1>8. Complete(txt, i, made, {Nowhere}, {"WHERE"})
  BY <1>1, <1>2, <1>5 DEF Complete, Behind
<1> QED
  BY <1>6, <1>7, <1>8 DEF made, ts

\* The name of a table.
LEMMA TableRead ==
  ASSUME NEW txt \in Seq(Words), NEW i \in 1 .. Len(txt) + 1, NEW r
  PROVE  r \in Item("name", Tokenize(txt), i) <=> \E w \in Names : WordAt(txt, i, w) /\ r = Got(w, i + 1)
<1>1. /\ Is(Tokenize(txt), i, "IDENT") <=> \E w \in Names : WordAt(txt, i, w)
      /\ \A w \in Names : WordAt(txt, i, w) => Tokenize(txt)[i].name = w
  BY TokenIs
<1> DEFINE ts == Tokenize(txt)
<1> HIDE DEF ts
<1>2. Item("name", ts, i) = IF Is(ts, i, "IDENT") THEN {Got(ts[i].name, i + 1)} ELSE {}
  BY DEF Item
<1> QED
  BY <1>1, <1>2 DEF ts

LEMMA ExpectRead ==
  ASSUME NEW txt \in Seq(Words), NEW made, NEW w \in Keywords \cup Symbols, NEW r,
         \A q \in made : q.pos \in 1 .. Len(txt) + 1
  PROVE  r \in Expect(Tokenize(txt), made, w) <=>
            \E q \in made : WordAt(txt, q.pos, w) /\ r = Got(q.node, q.pos + 1)
<1>1. \A q \in made : Is(Tokenize(txt), q.pos, w) <=> WordAt(txt, q.pos, w)
  BY TokenIs
<1> QED
  BY <1>1 DEF Expect

-----------------------------------------------------------------------------
(* Statements.                                                              *)

LEMMA SelectIs ==
  ASSUME NEW ts, NEW r
  PROVE  r \in ParseSelect(ts) <=>
           \E list \in Expect(ts, Items("projection", ts)[2], "FROM") :
           \E from \in Items("name", ts)[list.pos] :
           \E where \in OptionalWhere(ts, from.pos) :
              r = Got([type |-> "SELECT", select |-> list.node, tables |-> from.node,
                       where |-> where.node], where.pos)
BY DEF ParseSelect, Then

LEMMA InsertIs ==
  ASSUME NEW ts, NEW r
  PROVE  r \in ParseInsert(ts) <=>
           /\ Is(ts, 2, "INTO")
           /\ \E table \in Item("name", ts, 3) :
              \E columns \in Expect(ts, OptionalColumns(ts, table.pos), "VALUES") :
              \E values \in Enclosed("expression", ts, columns.pos) :
                 r = Got([type |-> "INSERT", table |-> table.node, columns |-> columns.node,
                          values |-> values.node], values.pos)
<1> DEFINE inserted(table, columns) ==
             {Got([type |-> "INSERT", table |-> table.node, columns |-> columns.node,
                   values |-> values.node], values.pos) :
                 values \in Enclosed("expression", ts, columns.pos)}
           behind(table) == Expect(ts, OptionalColumns(ts, table.pos), "VALUES")
<1>1. CASE ~Is(ts, 2, "INTO")
  BY <1>1 DEF ParseInsert
<1>2. CASE Is(ts, 2, "INTO")
  <2>1. ParseInsert(ts) =
          UNION {UNION {inserted(table, columns) : columns \in behind(table)} : table \in Item("name", ts, 3)}
    BY <1>2 DEF ParseInsert, Then
  <2> HIDE DEF behind
  <2>2. r \in ParseInsert(ts) <=>
          \E table \in Item("name", ts, 3) : \E columns \in behind(table) : r \in inserted(table, columns)
    <3> HIDE DEF inserted
    <3> QED
      BY <2>1
  <2> QED
    BY <1>2, <2>2 DEF behind
<1> QED
  BY <1>1, <1>2

LEMMA UpdateIs ==
  ASSUME NEW ts, NEW r
  PROVE  r \in ParseUpdate(ts) <=>
           \E table \in Expect(ts, Item("name", ts, 2), "SET") :
           \E set \in Items("assignment", ts)[table.pos] :
           \E where \in OptionalWhere(ts, set.pos) :
              r = Got([type |-> "UPDATE", table |-> table.node, assignments |-> set.node,
                       where |-> where.node], where.pos)
BY DEF ParseUpdate, Then

LEMMA DeleteIs ==
  ASSUME NEW ts, NEW r
  PROVE  r \in ParseDelete(ts) <=>
           /\ Is(ts, 2, "FROM")
           /\ \E from \in Item("name", ts, 3) :
              \E where \in OptionalWhere(ts, from.pos) :
                 r = Got([type |-> "DELETE", table |-> from.node, where |-> where.node], where.pos)
BY DEF ParseDelete, Then

LEMMA CreateIs ==
  ASSUME NEW ts, NEW r
  PROVE  r \in ParseCreate(ts) <=>
           /\ Is(ts, 2, "TABLE")
           /\ \E table \in Item("name", ts, 3) :
              \E columns \in Enclosed("definition", ts, table.pos) :
                 r = Got([type |-> "CREATE_TABLE", table |-> table.node, columns |-> columns.node],
                         columns.pos)
BY DEF ParseCreate, Then

LEMMA StatementIs ==
  ASSUME NEW txt \in Seq(Words)
  PROVE  LET ts == Tokenize(txt)
             made == ParseStatement(ts)
         IN  /\ WordAt(txt, 1, "SELECT") => made = ParseSelect(ts)
             /\ WordAt(txt, 1, "INSERT") => made = ParseInsert(ts)
             /\ WordAt(txt, 1, "UPDATE") => made = ParseUpdate(ts)
             /\ WordAt(txt, 1, "DELETE") => made = ParseDelete(ts)
             /\ WordAt(txt, 1, "CREATE") => made = ParseCreate(ts)
             /\ \A w \in {"BEGIN", "COMMIT"} : WordAt(txt, 1, w) => made = {Got([type |-> w], 2)}
             /\ made # {} => \E w \in {"SELECT", "INSERT", "UPDATE", "DELETE", "CREATE", "BEGIN", "COMMIT"} :
                                WordAt(txt, 1, w)
<1> DEFINE ts == Tokenize(txt)
           made == ParseStatement(ts)
           K == {"SELECT", "INSERT", "UPDATE", "DELETE", "CREATE", "BEGIN", "COMMIT"}
<1>1. 1 \in 1 .. Len(txt) + 1
  OBVIOUS
<1>2. K \subseteq Keywords \cup Symbols
  BY DEF Keywords
<1>3. \A w \in K : ts[1].type = w <=> WordAt(txt, 1, w)
  BY <1>1, <1>2, TokenIs DEF Is
<1> HIDE DEF ts
<1>4. /\ ts[1].type = "SELECT" => made = ParseSelect(ts)
      /\ ts[1].type = "INSERT" => made = ParseInsert(ts)
      /\ ts[1].type = "UPDATE" => made = ParseUpdate(ts)
      /\ ts[1].type = "DELETE" => made = ParseDelete(ts)
      /\ ts[1].type = "CREATE" => made = ParseCreate(ts)
      /\ ts[1].type = "BEGIN" => made = {Got([type |-> "BEGIN"], 2)}
      /\ ts[1].type = "COMMIT" => made = {Got([type |-> "COMMIT"], 2)}
      /\ ts[1].type \notin K => made = {}
  BY DEF ParseStatement, Is
<1> QED
  BY <1>3, <1>4 DEF ts
LEMMA ThreeWords ==
  ASSUME NEW txt \in Seq(Words), NEW a \in Words, NEW b \in Words, NEW c \in Words, NEW u \in Seq(Words)
  PROVE  LET w == <<a, b, c>> \o u
         IN  /\ w \in Seq(Words) /\ Len(w) = 3 + Len(u)
             /\ Stands(txt, 1, w) <=>
                  /\ WordAt(txt, 1, a) /\ WordAt(txt, 2, b) /\ WordAt(txt, 3, c)
                  /\ Stands(txt, 4, u)
<1> DEFINE v == <<a, b, c>>
           w == v \o u
<1>1. 1 \in Nat \ {0} /\ 1 + 1 = 2 /\ 1 + 2 = 3 /\ 1 + 3 = 4
  OBVIOUS
<1>2. v \in Seq(Words) /\ Len(v) = 3
  OBVIOUS
<1>3. Stands(txt, 1, v) <=> WordAt(txt, 1, a) /\ WordAt(txt, 2, b) /\ WordAt(txt, 3, c)
  <2>1. Stands(txt, 1, v) <=> WordAt(txt, 1, a) /\ WordAt(txt, 1 + 1, b) /\ WordAt(txt, 1 + 2, c)
    BY <1>1, StandsWords
  <2> QED
    BY <1>1, <2>1
<1> HIDE DEF v
<1>4. /\ w \in Seq(Words) /\ Len(w) = Len(v) + Len(u)
      /\ Stands(txt, 1, w) <=> Stands(txt, 1, v) /\ Stands(txt, 1 + Len(v), u)
  BY <1>1, <1>2, StandsTwo
<1> QED
  BY <1>1, <1>2, <1>3, <1>4 DEF v

LEMMA KeywordsAreWords ==
  /\ Keywords \subseteq Words /\ Names \subseteq Words
  /\ {"SELECT", "FROM", "WHERE", "INSERT", "INTO", "VALUES", "UPDATE", "SET", "DELETE", "CREATE",
      "TABLE", "BEGIN", "COMMIT"} \subseteq Keywords
BY DEF Words, Keywords

LEMMA FromStart ==
  ASSUME NEW txt \in Seq(Words), NEW u, NEW v, u \in Seq(Words), v \in Seq(Words)
  PROVE  /\ u \o v \in Seq(Words)
         /\ Len(u \o v) = Len(u) + Len(v)
         /\ Stands(txt, 1, u \o v) <=> Stands(txt, 1, u) /\ Stands(txt, 1 + Len(u), v)
<1>1. 1 \in Nat \ {0}
  OBVIOUS
<1> QED
  BY <1>1, StandsTwo

LEMMA FromStartApplied ==
  ASSUME NEW txt \in Seq(Words), NEW u, NEW v, NEW e, u \in Seq(Words), v \in Seq(Words), e \in Words
  PROVE  /\ u \o <<e>> \o v \in Seq(Words)
         /\ Len(u \o <<e>> \o v) = Len(u) + 1 + Len(v)
         /\ Stands(txt, 1, u \o <<e>> \o v) <=>
              /\ Stands(txt, 1, u) /\ WordAt(txt, 1 + Len(u), e)
              /\ Stands(txt, 1 + Len(u) + 1, v)
<1>1. 1 \in Nat \ {0}
  OBVIOUS
<1> QED
  BY <1>1, StandsApplied

LEMMA SelectText ==
  ASSUME NEW txt \in Seq(Words), NEW list, NEW from, NEW where,
         list.words \in Seq(Words), from.words \in Seq(Words), where.words \in Seq(Words)
  PROVE  LET p == Select(list, from, where)
             k == 2 + Len(list.words)
             m == k + 1 + Len(from.words)
         IN  /\ p.node = [type |-> "SELECT", select |-> list.node, tables |-> from.node, where |-> where.node]
             /\ p.words \in Seq(Words) /\ 1 + Len(p.words) = m + Len(where.words)
             /\ Stands(txt, 1, p.words) <=>
                  /\ WordAt(txt, 1, "SELECT") /\ Stands(txt, 2, list.words) /\ WordAt(txt, k, "FROM")
                  /\ Stands(txt, k + 1, from.words) /\ Stands(txt, m, where.words)
<1> DEFINE s == <<"SELECT">>
           l == list.words
           f == from.words
           w == where.words
           sl == s \o l
           e == "FROM"
           slf == sl \o <<e>> \o f
           k == 2 + Len(l)
           m == k + 1 + Len(f)
<1>1. "SELECT" \in Words /\ e \in Words /\ 1 \in Nat \ {0}
  BY KeywordsAreWords
<1>2. /\ s \in Seq(Words)
      /\ Len(s) = 1
      /\ Stands(txt, 1, s) <=> WordAt(txt, 1, "SELECT")
  BY <1>1, StandsWords
<1>3. l \in Seq(Words) /\ f \in Seq(Words) /\ w \in Seq(Words) /\ Len(l) \in Nat /\ Len(f) \in Nat /\ Len(w) \in Nat
  OBVIOUS
<1>4. /\ Select(list, from, where).words = slf \o w
      /\ Select(list, from, where).node =
           [type |-> "SELECT", select |-> list.node, tables |-> from.node, where |-> where.node]
  BY DEF Select, Phrase
<1> HIDE DEF s, l, f, w, e
<1>5. /\ sl \in Seq(Words) /\ Len(sl) = 1 + Len(l)
      /\ Stands(txt, 1, sl) <=> Stands(txt, 1, s) /\ Stands(txt, 2, l)
  <2> DEFINE j == 2
  <2>1. j = 1 + Len(s) /\ sl = s \o l
    BY <1>2
  <2> HIDE DEF sl, j
  <2>2. /\ sl \in Seq(Words) /\ Len(sl) = Len(s) + Len(l)
        /\ Stands(txt, 1, sl) <=> Stands(txt, 1, s) /\ Stands(txt, j, l)
    BY <1>2, <1>3, <2>1, FromStart
  <2> QED
    BY <1>2, <2>2 DEF j
<1> HIDE DEF sl
<1>6. /\ slf \in Seq(Words) /\ Len(slf) = 1 + Len(l) + 1 + Len(f)
      /\ Stands(txt, 1, slf) <=> Stands(txt, 1, sl) /\ WordAt(txt, k, e) /\ Stands(txt, k + 1, f)
  <2>1. k = 1 + Len(sl) /\ slf = sl \o <<e>> \o f
    BY <1>3, <1>5
  <2> HIDE DEF k, slf
  <2>3. /\ sl \o <<e>> \o f \in Seq(Words)
        /\ Len(sl \o <<e>> \o f) = Len(sl) + 1 + Len(f)
        /\ Stands(txt, 1, sl \o <<e>> \o f) <=>
             Stands(txt, 1, sl) /\ WordAt(txt, 1 + Len(sl), e) /\ Stands(txt, 1 + Len(sl) + 1, f)
    BY <1>1, <1>3, <1>5, FromStartApplied
  <2>2. /\ slf \in Seq(Words) /\ Len(slf) = Len(sl) + 1 + Len(f)
        /\ Stands(txt, 1, slf) <=> Stands(txt, 1, sl) /\ WordAt(txt, k, e) /\ Stands(txt, k + 1, f)
    BY <2>1, <2>3
  <2> QED
    BY <1>5, <2>2
<1> HIDE DEF slf
<1>7. /\ slf \o w \in Seq(Words) /\ Len(slf \o w) = Len(slf) + Len(w)
      /\ Stands(txt, 1, slf \o w) <=> Stands(txt, 1, slf) /\ Stands(txt, m, w)
  <2>1. /\ slf \o w \in Seq(Words) /\ Len(slf \o w) = Len(slf) + Len(w)
        /\ Stands(txt, 1, slf \o w) <=> Stands(txt, 1, slf) /\ Stands(txt, 1 + Len(slf), w)
    BY <1>1, <1>3, <1>6, StandsTwo
  <2>2. 1 + Len(slf) = m
    BY <1>3, <1>6
  <2> QED
    BY <2>1, <2>2
<1> DEFINE x == slf \o w
<1> HIDE DEF x
<1>8. 1 + Len(x) = m + Len(w)
  <2>1. Len(x) = 1 + Len(l) + 1 + Len(f) + Len(w)
    BY <1>6, <1>7 DEF x
  <2> QED
    BY <1>3, <2>1
<1>9. Stands(txt, 1, x) <=> /\ WordAt(txt, 1, "SELECT") /\ Stands(txt, 2, l) /\ WordAt(txt, k, e)
                             /\ Stands(txt, k + 1, f) /\ Stands(txt, m, w)
  BY <1>2, <1>5, <1>6, <1>7 DEF x
<1> HIDE DEF k, m
<1>10. x \in Seq(Words)
  BY <1>7 DEF x
<1> QED
  BY <1>4, <1>8, <1>9, <1>10 DEF x, l, f, w, e, k, m

LEMMA InsertText ==
  ASSUME NEW txt \in Seq(Words), NEW t \in Names, NEW columns, NEW values,
         columns.words \in Seq(Words), values.words \in Seq(Words)
  PROVE  LET p == Insert(t, columns, values)
             k == 4 + Len(columns.words)
         IN  /\ p.node = [type |-> "INSERT", table |-> t, columns |-> columns.node, values |-> values.node]
             /\ p.words \in Seq(Words) /\ 1 + Len(p.words) = k + 1 + Len(values.words)
             /\ Stands(txt, 1, p.words) <=>
                  /\ WordAt(txt, 1, "INSERT") /\ WordAt(txt, 2, "INTO") /\ WordAt(txt, 3, t)
                  /\ Stands(txt, 4, columns.words) /\ WordAt(txt, k, "VALUES")
                  /\ Stands(txt, k + 1, values.words)
<1> DEFINE c == columns.words
           v == values.words
           e == "VALUES"
           u == <<"INSERT", "INTO", t>> \o c
           x == u \o <<e>> \o v
           k == 4 + Len(c)
<1>1. "INSERT" \in Words /\ "INTO" \in Words /\ e \in Words /\ t \in Words /\ 1 \in Nat \ {0}
  BY KeywordsAreWords
<1>2. c \in Seq(Words) /\ v \in Seq(Words) /\ Len(c) \in Nat /\ Len(v) \in Nat
  OBVIOUS
<1>3. /\ Insert(t, columns, values).words = x
      /\ Insert(t, columns, values).node =
           [type |-> "INSERT", table |-> t, columns |-> columns.node, values |-> values.node]
  BY DEF Insert, Phrase
<1> HIDE DEF c, v, e
<1>4. /\ u \in Seq(Words) /\ Len(u) = 3 + Len(c)
      /\ Stands(txt, 1, u) <=> /\ WordAt(txt, 1, "INSERT") /\ WordAt(txt, 2, "INTO") /\ WordAt(txt, 3, t)
                                /\ Stands(txt, 4, c)
  BY <1>1, <1>2, ThreeWords
<1> HIDE DEF u
<1>7. k = 1 + Len(u) /\ x = u \o <<e>> \o v
  BY <1>2, <1>4
<1> HIDE DEF k, x
<1>8. /\ u \o <<e>> \o v \in Seq(Words)
      /\ Len(u \o <<e>> \o v) = Len(u) + 1 + Len(v)
      /\ Stands(txt, 1, u \o <<e>> \o v) <=>
           Stands(txt, 1, u) /\ WordAt(txt, 1 + Len(u), e) /\ Stands(txt, 1 + Len(u) + 1, v)
  BY <1>1, <1>2, <1>4, FromStartApplied
<1>5. /\ x \in Seq(Words) /\ Len(x) = Len(u) + 1 + Len(v)
      /\ Stands(txt, 1, x) <=> Stands(txt, 1, u) /\ WordAt(txt, k, e) /\ Stands(txt, k + 1, v)
  BY <1>7, <1>8
<1>6. 1 + Len(x) = k + 1 + Len(v)
  BY <1>2, <1>4, <1>5, <1>7
<1> QED
  BY <1>3, <1>4, <1>5, <1>6 DEF c, v, e, k

LEMMA UpdateText ==
  ASSUME NEW txt \in Seq(Words), NEW t \in Names, NEW set, NEW where,
         set.words \in Seq(Words), where.words \in Seq(Words)
  PROVE  LET p == Update(t, set, where)
             k == 4 + Len(set.words)
         IN  /\ p.node = [type |-> "UPDATE", table |-> t, assignments |-> set.node, where |-> where.node]
             /\ p.words \in Seq(Words) /\ 1 + Len(p.words) = k + Len(where.words)
             /\ Stands(txt, 1, p.words) <=>
                  /\ WordAt(txt, 1, "UPDATE") /\ WordAt(txt, 2, t) /\ WordAt(txt, 3, "SET")
                  /\ Stands(txt, 4, set.words) /\ Stands(txt, k, where.words)
<1> DEFINE c == set.words
           v == where.words
           u == <<"UPDATE", t, "SET">> \o c
           x == u \o v
           k == 4 + Len(c)
<1>1. "UPDATE" \in Words /\ "SET" \in Words /\ t \in Words /\ 1 \in Nat \ {0}
  BY KeywordsAreWords
<1>2. c \in Seq(Words) /\ v \in Seq(Words) /\ Len(c) \in Nat /\ Len(v) \in Nat
  OBVIOUS
<1>3. /\ Update(t, set, where).words = x
      /\ Update(t, set, where).node =
           [type |-> "UPDATE", table |-> t, assignments |-> set.node, where |-> where.node]
  BY DEF Update, Phrase
<1> HIDE DEF c, v
<1>4. /\ u \in Seq(Words) /\ Len(u) = 3 + Len(c)
      /\ Stands(txt, 1, u) <=> /\ WordAt(txt, 1, "UPDATE") /\ WordAt(txt, 2, t) /\ WordAt(txt, 3, "SET")
                                /\ Stands(txt, 4, c)
  BY <1>1, <1>2, ThreeWords
<1> HIDE DEF u
<1>5. /\ x \in Seq(Words) /\ Len(x) = Len(u) + Len(v)
      /\ Stands(txt, 1, x) <=> Stands(txt, 1, u) /\ Stands(txt, 1 + Len(u), v)
  BY <1>1, <1>2, <1>4, StandsTwo
<1> HIDE DEF x
<1>6. 1 + Len(u) = k /\ 1 + Len(x) = k + Len(v)
  BY <1>2, <1>4, <1>5
<1> QED
  BY <1>3, <1>4, <1>5, <1>6 DEF c, v

LEMMA DeleteText ==
  ASSUME NEW txt \in Seq(Words), NEW t \in Names, NEW where, where.words \in Seq(Words)
  PROVE  LET p == Delete(t, where)
         IN  /\ p.node = [type |-> "DELETE", table |-> t, where |-> where.node]
             /\ p.words \in Seq(Words) /\ 1 + Len(p.words) = 4 + Len(where.words)
             /\ Stands(txt, 1, p.words) <=>
                  /\ WordAt(txt, 1, "DELETE") /\ WordAt(txt, 2, "FROM") /\ WordAt(txt, 3, t)
                  /\ Stands(txt, 4, where.words)
<1> DEFINE v == where.words
           x == <<"DELETE", "FROM", t>> \o v
<1>1. "DELETE" \in Words /\ "FROM" \in Words /\ t \in Words
  BY KeywordsAreWords
<1>2. v \in Seq(Words) /\ Len(v) \in Nat
  OBVIOUS
<1>3. /\ Delete(t, where).words = x
      /\ Delete(t, where).node = [type |-> "DELETE", table |-> t, where |-> where.node]
  BY DEF Delete, Phrase
<1> HIDE DEF v
<1>4. /\ x \in Seq(Words) /\ Len(x) = 3 + Len(v)
      /\ Stands(txt, 1, x) <=> /\ WordAt(txt, 1, "DELETE") /\ WordAt(txt, 2, "FROM") /\ WordAt(txt, 3, t)
                                /\ Stands(txt, 4, v)
  BY <1>1, <1>2, ThreeWords
<1> HIDE DEF x
<1>5. 1 + Len(x) = 4 + Len(v)
  BY <1>2, <1>4
<1> QED
  BY <1>3, <1>4, <1>5 DEF v

LEMMA CreateText ==
  ASSUME NEW txt \in Seq(Words), NEW t \in Names, NEW columns, columns.words \in Seq(Words)
  PROVE  LET p == Create(t, columns)
         IN  /\ p.node = [type |-> "CREATE_TABLE", table |-> t, columns |-> columns.node]
             /\ p.words \in Seq(Words) /\ 1 + Len(p.words) = 4 + Len(columns.words)
             /\ Stands(txt, 1, p.words) <=>
                  /\ WordAt(txt, 1, "CREATE") /\ WordAt(txt, 2, "TABLE") /\ WordAt(txt, 3, t)
                  /\ Stands(txt, 4, columns.words)
<1> DEFINE v == columns.words
           x == <<"CREATE", "TABLE", t>> \o v
<1>1. "CREATE" \in Words /\ "TABLE" \in Words /\ t \in Words
  BY KeywordsAreWords
<1>2. v \in Seq(Words) /\ Len(v) \in Nat
  OBVIOUS
<1>3. /\ Create(t, columns).words = x
      /\ Create(t, columns).node = [type |-> "CREATE_TABLE", table |-> t, columns |-> columns.node]
  BY DEF Create, Phrase
<1> HIDE DEF v
<1>4. /\ x \in Seq(Words) /\ Len(x) = 3 + Len(v)
      /\ Stands(txt, 1, x) <=> /\ WordAt(txt, 1, "CREATE") /\ WordAt(txt, 2, "TABLE") /\ WordAt(txt, 3, t)
                                /\ Stands(txt, 4, v)
  BY <1>1, <1>2, ThreeWords
<1> HIDE DEF x
<1>5. 1 + Len(x) = 4 + Len(v)
  BY <1>2, <1>4
<1> QED
  BY <1>3, <1>4, <1>5 DEF v
\* What a sound parsing function makes, and what a complete one does.
LEMMA SoundMade ==
  ASSUME NEW txt \in Seq(Words), NEW i \in 1 .. Len(txt) + 1, NEW made, NEW G, IsPhrases(G), NEW more,
         Sound(txt, i, made, G, more), NEW r \in made
  PROVE  /\ r.pos \in 1 .. Len(txt) + 1
         /\ \E p \in G : /\ r.node = p.node /\ r.pos = i + Len(p.words)
                         /\ p.words \in Seq(Words) /\ Len(p.words) \in Nat /\ Stands(txt, i, p.words)
                         /\ ~Behind(txt, r.pos, more)
<1>1. PICK p \in G : /\ r = Got(p.node, i + Len(p.words)) /\ Stands(txt, i, p.words)
                     /\ ~Behind(txt, i + Len(p.words), more)
  BY DEF Sound
<1>2. r.node = p.node /\ r.pos = i + Len(p.words)
  BY <1>1, GotParts
<1>3. IsText(p.words) /\ p.words \in Seq(Words) /\ i \in Nat \ {0}
  BY DEF IsPhrases, IsText
<1>4. i + Len(p.words) \in i + 1 .. Len(txt) + 1 /\ Len(p.words) \in Nat
  BY <1>1, <1>3, StandsEnd
<1>5. r.pos \in 1 .. Len(txt) + 1
  BY <1>2, <1>3, <1>4
<1> QED
  BY <1>1, <1>2, <1>3, <1>4, <1>5

LEMMA CompleteMakes ==
  ASSUME NEW txt \in Seq(Words), NEW i \in 1 .. Len(txt) + 1, NEW made, NEW G, IsPhrases(G), NEW more,
         Complete(txt, i, made, G, more), NEW p \in G, Stands(txt, i, p.words),
         ~Behind(txt, i + Len(p.words), more)
  PROVE  /\ i + Len(p.words) \in 1 .. Len(txt) + 1
         /\ \E r \in made : r.node = p.node /\ r.pos = i + Len(p.words)
<1> DEFINE k == i + Len(p.words)
<1>1. Got(p.node, k) \in made
  BY DEF Complete
<1>2. IsText(p.words) /\ i \in Nat \ {0}
  BY DEF IsPhrases
<1>3. i + Len(p.words) \in i + 1 .. Len(txt) + 1
  BY <1>2, StandsEnd
<1>4. k \in 1 .. Len(txt) + 1
  BY <1>3
<1> QED
  BY <1>1, <1>4, GotParts

LEMMA WhereMade ==
  ASSUME NEW txt \in Seq(Words), NEW i \in 1 .. Len(txt) + 1,
         NEW r \in OptionalWhere(Tokenize(txt), i)
  PROVE  \E w \in Conditions(Expressions) \cup {Nowhere} :
            /\ r.node = w.node /\ r.pos = i + Len(w.words)
            /\ w.words \in Seq(Words) /\ Len(w.words) \in Nat /\ Stands(txt, i, w.words)
            /\ \/ w \in Conditions(Expressions) /\ ~Behind(txt, r.pos, Operators)
               \/ w = Nowhere /\ r.pos = i /\ ~Behind(txt, i, {"WHERE"})
<1>1. i \in Nat \ {0} /\ i + 0 = i
  OBVIOUS
<1>2. CASE Meant(txt, i, r, Conditions(Expressions), Operators)
  <2>1. PICK w \in Conditions(Expressions) :
          /\ r = Got(w.node, i + Len(w.words)) /\ Stands(txt, i, w.words)
          /\ ~Behind(txt, i + Len(w.words), Operators)
    BY <1>2 DEF Meant
  <2>2. PICK p \in Expressions : w = Where(p)
    BY DEF Conditions
  <2>3. w.words \in Seq(Words)
    BY <1>1, <2>2, ConditionText
  <2>4. Len(w.words) \in Nat
    BY <2>3
  <2>5. r.node = w.node /\ r.pos = i + Len(w.words)
    BY <2>1, GotParts
  <2> QED
    BY <2>1, <2>3, <2>4, <2>5
<1>3. CASE Meant(txt, i, r, {Nowhere}, {"WHERE"})
  <2>1. /\ r = Got(Nowhere.node, i + Len(Nowhere.words)) /\ Stands(txt, i, Nowhere.words)
        /\ ~Behind(txt, i + Len(Nowhere.words), {"WHERE"})
    BY <1>3 DEF Meant
  <2>2. Nowhere.words = <<>> /\ Len(<<>>) = 0 /\ <<>> \in Seq(Words)
    BY NowhereText
  <2>3. r.node = Nowhere.node /\ r.pos = i + Len(Nowhere.words)
    BY <2>1, GotParts
  <2> QED
    BY <1>1, <2>1, <2>2, <2>3
<1> QED
  BY <1>2, <1>3, WhereRead

LEMMA MakesWhere ==
  ASSUME NEW txt \in Seq(Words), NEW i \in 1 .. Len(txt) + 1, NEW w, Stands(txt, i, w.words),
         \/ w \in Conditions(Expressions) /\ ~Behind(txt, i + Len(w.words), Operators)
         \/ w = Nowhere /\ ~Behind(txt, i + Len(w.words), {"WHERE"})
  PROVE  \E r \in OptionalWhere(Tokenize(txt), i) : r.node = w.node /\ r.pos = i + Len(w.words)
<1>1. Got(w.node, i + Len(w.words)) \in OptionalWhere(Tokenize(txt), i)
  BY WhereRead DEF Complete
<1> QED
  BY <1>1, GotParts

LEMMA ConditionWords ==
  ASSUME NEW txt \in Seq(Words), NEW i \in Nat \ {0},
         NEW w \in Conditions(Expressions) \cup {Nowhere}
  PROVE  /\ w.words \in Seq(Words) /\ Len(w.words) \in Nat
         /\ w \in Conditions(Expressions) /\ Stands(txt, i, w.words) => WordAt(txt, i, "WHERE")
<1>1. CASE w \in Conditions(Expressions)
  <2>1. PICK p \in Expressions : w = Where(p)
    BY <1>1 DEF Conditions
  <2>2. w.words \in Seq(Words) /\ (Stands(txt, i, w.words) => WordAt(txt, i, "WHERE"))
    BY <2>1, ConditionText
  <2> QED
    BY <2>2
<1>2. CASE w = Nowhere /\ w \notin Conditions(Expressions)
  <2>1. w.words = <<>>
    BY <1>2, PhraseParts DEF Nowhere
  <2> QED
    BY <1>2, <2>1
<1> QED
  BY <1>1, <1>2

\* A word of the text is only one word.
LEMMA WordNot ==
  ASSUME NEW txt, NEW k, NEW w, WordAt(txt, k, w), NEW more, w \notin more
  PROVE  ~Behind(txt, k, more)
BY DEF WordAt, Behind

LEMMA ListsArePhrases ==
  /\ \A what \in Whats : IsPhrases(Lists(Phrases(what))) /\ IsPhrases(InParentheses(Lists(Phrases(what))))
  /\ Phrases("expression") = Expressions /\ Phrases("projection") = Projection(Expressions)
  /\ Lists(Phrases("name")) = NameList /\ Phrases("assignment") = Assignments(Expressions)
  /\ Phrases("definition") = Definitions
  /\ {"expression", "projection", "name", "assignment", "definition"} \subseteq Whats
<1>1. \A what \in Whats : IsPhrases(Lists(Phrases(what)))
  BY PhrasesAreTexts, ListTexts
<1>2. \A what \in Whats : IsPhrases(InParentheses(Lists(Phrases(what))))
  BY <1>1, EnclosedTexts
<1> QED
  BY <1>1, <1>2 DEF Phrases, NameList, NamePhrases, Whats
LEMMA TextWords ==
  ASSUME NEW G, IsPhrases(G)
  PROVE  \A p \in G : p.words \in Seq(Words) /\ Len(p.words) \in Nat
<1> SUFFICES ASSUME NEW p \in G PROVE p.words \in Seq(Words) /\ Len(p.words) \in Nat
  OBVIOUS
<1>1. p.words \in Seq(Words)
  BY DEF IsPhrases, IsText
<1> QED
  BY <1>1

LEMMA SelectRead ==
  ASSUME NEW txt \in Seq(Words), WordAt(txt, 1, "SELECT")
  PROVE  LET made == ParseSelect(Tokenize(txt))
         IN  /\ \A r \in made :
                    \/ Meant(txt, 1, r, Selects(Expressions, Conditions(Expressions)), Operators)
                    \/ Meant(txt, 1, r, Selects(Expressions, {Nowhere}), {",", "WHERE"})
             /\ Complete(txt, 1, made, Selects(Expressions, Conditions(Expressions)), Operators)
             /\ Complete(txt, 1, made, Selects(Expressions, {Nowhere}), {",", "WHERE"})
<1> DEFINE ts == Tokenize(txt)
           made == ParseSelect(ts)
           L == Items("projection", ts)[2]
<1>1. 2 \in 1 .. Len(txt) + 1 /\ "FROM" \in Keywords \cup Symbols
  BY DEF WordAt, Keywords
<1>2. /\ IsPhrases(Lists(Projection(Expressions))) /\ IsPhrases(NameList)
      /\ Sound(txt, 2, L, Lists(Projection(Expressions)), {","})
      /\ Complete(txt, 2, L, Lists(Projection(Expressions)), Operators \cup {","})
  <2>1. Ends("projection") = {} /\ Stops("projection") = Operators
    BY DEF Ends, Stops
  <2>2. {} \cup {","} = {","}
    OBVIOUS
  <2> QED
    BY <1>1, <2>1, <2>2, ListsArePhrases, ListRead
<1>3. \A i \in 1 .. Len(txt) + 1 :
         /\ Sound(txt, i, Items("name", ts)[i], NameList, {","})
         /\ Complete(txt, i, Items("name", ts)[i], NameList, {","})
  <2>1. Ends("name") = {} /\ Stops("name") = {} /\ {} \cup {","} = {","}
    BY DEF Ends, Stops
  <2> QED
    BY <2>1, ListsArePhrases, ListRead
<1>4. \A l \in L : l.pos \in 1 .. Len(txt) + 1
  BY <1>1, <1>2, SoundMade
<1>5. \A list : list \in Expect(ts, L, "FROM") <=>
                  \E l \in L : WordAt(txt, l.pos, "FROM") /\ list = Got(l.node, l.pos + 1)
  BY <1>1, <1>4, ExpectRead
<1>6. \A l \in Lists(Projection(Expressions)) : l.words \in Seq(Words) /\ Len(l.words) \in Nat
  BY <1>2, TextWords
<1>7. \A f \in NameList : f.words \in Seq(Words) /\ Len(f.words) \in Nat
  BY <1>2, TextWords
<1> HIDE DEF L
<1>8. ASSUME NEW r \in made
      PROVE  \/ Meant(txt, 1, r, Selects(Expressions, Conditions(Expressions)), Operators)
             \/ Meant(txt, 1, r, Selects(Expressions, {Nowhere}), {",", "WHERE"})
  <2>13. PICK list \in Expect(ts, L, "FROM") :
           \E from \in Items("name", ts)[list.pos] : \E where \in OptionalWhere(ts, from.pos) :
             r = Got([type |-> "SELECT", select |-> list.node, tables |-> from.node,
                      where |-> where.node], where.pos)
    BY SelectIs DEF L
  <2>14. PICK from \in Items("name", ts)[list.pos] : \E where \in OptionalWhere(ts, from.pos) :
           r = Got([type |-> "SELECT", select |-> list.node, tables |-> from.node,
                    where |-> where.node], where.pos)
    BY <2>13
  <2>1. PICK where \in OptionalWhere(ts, from.pos) :
          r = Got([type |-> "SELECT", select |-> list.node, tables |-> from.node,
                   where |-> where.node], where.pos)
    BY <2>14
  <2>2. PICK l \in L : WordAt(txt, l.pos, "FROM") /\ list = Got(l.node, l.pos + 1)
    BY <1>5
  <2>3. PICK p \in Lists(Projection(Expressions)) :
          /\ l.node = p.node /\ l.pos = 2 + Len(p.words)
          /\ p.words \in Seq(Words) /\ Len(p.words) \in Nat /\ Stands(txt, 2, p.words)
          /\ ~Behind(txt, l.pos, {","})
    BY <1>1, <1>2, SoundMade
  <2>4. l.pos \in Nat \ {0} /\ list.node = p.node /\ list.pos = l.pos + 1 /\ list.pos \in 1 .. Len(txt) + 1
    <3> DEFINE k == l.pos
    <3>1. k \in 1 .. Len(txt) + 1
      BY <1>4
    <3>2. k \in Nat \ {0} /\ WordAt(txt, k, "FROM")
      BY <2>2, <3>1
    <3>3. list.node = p.node /\ list.pos = k + 1
      BY <2>2, <2>3, GotParts
    <3> HIDE DEF k
    <3>4. k + 1 \in 1 .. Len(txt) + 1
      BY <3>2, WordPlace
    <3> QED
      BY <3>2, <3>3, <3>4 DEF k
  <2>5. /\ from.pos \in 1 .. Len(txt) + 1
        /\ \E g \in NameList : /\ from.node = g.node /\ from.pos = list.pos + Len(g.words)
                               /\ g.words \in Seq(Words) /\ Len(g.words) \in Nat
                               /\ Stands(txt, list.pos, g.words) /\ ~Behind(txt, from.pos, {","})
    <3> DEFINE j == list.pos
               F == Items("name", ts)[j]
    <3>1. j \in 1 .. Len(txt) + 1 /\ Sound(txt, j, F, NameList, {","}) /\ from \in F
      BY <1>3, <2>4
    <3> HIDE DEF j, F
    <3>2. /\ from.pos \in 1 .. Len(txt) + 1
          /\ \E g \in NameList : /\ from.node = g.node /\ from.pos = j + Len(g.words)
                                 /\ g.words \in Seq(Words) /\ Len(g.words) \in Nat /\ Stands(txt, j, g.words)
                                 /\ ~Behind(txt, from.pos, {","})
      BY <1>2, <3>1, SoundMade
    <3> QED
      BY <3>2 DEF j
  <2>6. PICK f \in NameList : /\ from.node = f.node /\ from.pos = list.pos + Len(f.words)
                              /\ f.words \in Seq(Words) /\ Len(f.words) \in Nat
                              /\ Stands(txt, list.pos, f.words) /\ ~Behind(txt, from.pos, {","})
    BY <2>5
  <2>7. PICK w \in Conditions(Expressions) \cup {Nowhere} :
            /\ where.node = w.node /\ where.pos = from.pos + Len(w.words)
            /\ w.words \in Seq(Words) /\ Len(w.words) \in Nat /\ Stands(txt, from.pos, w.words)
            /\ \/ w \in Conditions(Expressions) /\ ~Behind(txt, where.pos, Operators)
               \/ w = Nowhere /\ where.pos = from.pos /\ ~Behind(txt, from.pos, {"WHERE"})
    BY <2>5, WhereMade
  <2> DEFINE s == Select(p, f, w)
  <2>8. /\ s.node = [type |-> "SELECT", select |-> p.node, tables |-> f.node, where |-> w.node]
        /\ 1 + Len(s.words) = where.pos /\ Stands(txt, 1, s.words)
    <3> DEFINE k == 2 + Len(p.words)
               m == k + 1 + Len(f.words)
    <3>1. l.pos = k /\ list.pos = k + 1 /\ from.pos = m /\ where.pos = m + Len(w.words)
      BY <2>3, <2>4, <2>6, <2>7
    <3>2. /\ s.node = [type |-> "SELECT", select |-> p.node, tables |-> f.node, where |-> w.node]
          /\ s.words \in Seq(Words) /\ 1 + Len(s.words) = m + Len(w.words)
          /\ Stands(txt, 1, s.words) <=>
                  /\ WordAt(txt, 1, "SELECT") /\ Stands(txt, 2, p.words) /\ WordAt(txt, k, "FROM")
                  /\ Stands(txt, k + 1, f.words) /\ Stands(txt, m, w.words)
      BY <2>3, <2>6, <2>7, SelectText
    <3> QED
      BY <2>2, <2>3, <2>6, <2>7, <3>1, <3>2
  <2>9. r = Got(s.node, 1 + Len(s.words))
    BY <2>1, <2>3, <2>4, <2>6, <2>7, <2>8
  <2>10. w \in Conditions(Expressions) => s \in Selects(Expressions, Conditions(Expressions))
    BY DEF Selects
  <2>11. w = Nowhere => s \in Selects(Expressions, {Nowhere})
    BY DEF Selects
  <2> HIDE DEF s
  <2>12. ~Behind(txt, from.pos, {","}) /\ ~Behind(txt, from.pos, {"WHERE"})
           => ~Behind(txt, from.pos, {",", "WHERE"})
    BY DEF Behind
  <2> QED
    BY <2>6, <2>7, <2>8, <2>9, <2>10, <2>11, <2>12 DEF Meant
<1>9. ASSUME NEW p \in Lists(Projection(Expressions)), NEW f \in NameList,
             NEW w \in Conditions(Expressions) \cup {Nowhere},
             Stands(txt, 1, Select(p, f, w).words), NEW n, n = 1 + Len(Select(p, f, w).words),
             \/ w \in Conditions(Expressions) /\ ~Behind(txt, n, Operators)
             \/ w = Nowhere /\ ~Behind(txt, n, {",", "WHERE"})
      PROVE  Got(Select(p, f, w).node, n) \in made
  <2> DEFINE s == Select(p, f, w)
             k == 2 + Len(p.words)
             m == k + 1 + Len(f.words)
  <2>1. w.words \in Seq(Words) /\ Len(w.words) \in Nat
    <3>1. 1 \in Nat \ {0}
      OBVIOUS
    <3> QED
      BY <3>1, ConditionWords
  <2>14. /\ p.words \in Seq(Words) /\ Len(p.words) \in Nat
         /\ f.words \in Seq(Words) /\ Len(f.words) \in Nat
    BY <1>6, <1>7
  <2>15. /\ s.node = [type |-> "SELECT", select |-> p.node, tables |-> f.node, where |-> w.node]
         /\ s.words \in Seq(Words) /\ 1 + Len(s.words) = m + Len(w.words)
         /\ Stands(txt, 1, s.words) <=>
                  /\ WordAt(txt, 1, "SELECT") /\ Stands(txt, 2, p.words) /\ WordAt(txt, k, "FROM")
                  /\ Stands(txt, k + 1, f.words) /\ Stands(txt, m, w.words)
    BY <2>1, <2>14, SelectText
  <2>2. /\ s.node = [type |-> "SELECT", select |-> p.node, tables |-> f.node, where |-> w.node]
        /\ 1 + Len(s.words) = m + Len(w.words)
        /\ Stands(txt, 2, p.words) /\ WordAt(txt, k, "FROM")
        /\ Stands(txt, k + 1, f.words) /\ Stands(txt, m, w.words)
    BY <1>9, <2>15
  <2>3. k \in Nat \ {0} /\ m \in Nat \ {0} /\ k + 1 \in Nat \ {0} /\ m = (k + 1) + Len(f.words)
    <3>1. \A a, b \in Nat : /\ 2 + a \in Nat \ {0} /\ 2 + a + 1 \in Nat \ {0}
                           /\ 2 + a + 1 + b \in Nat \ {0}
      OBVIOUS
    <3> QED
      BY <2>14, <3>1
  <2>4. k \in 1 .. Len(txt) /\ k + 1 \in 1 .. Len(txt) + 1
    BY <2>2, <2>3, WordPlace
  <2> HIDE DEF s, k
  <2>5. \E l \in L : l.node = p.node /\ l.pos = k
    <3>1. ~Behind(txt, k, Operators \cup {","})
      <4>1. "FROM" \notin Operators \cup {","}
        BY DEF Operators, Compare
      <4> QED
        BY <2>2, <4>1, WordNot
    <3>2. k = 2 + Len(p.words)
      BY DEF k
    <3> DEFINE two == 2
    <3>3. /\ two \in 1 .. Len(txt) + 1 /\ k = two + Len(p.words) /\ Stands(txt, two, p.words)
          /\ Complete(txt, two, L, Lists(Projection(Expressions)), Operators \cup {","})
          /\ ~Behind(txt, two + Len(p.words), Operators \cup {","})
      BY <1>1, <1>2, <2>2, <3>1, <3>2
    <3> HIDE DEF two
    <3> DEFINE G == Lists(Projection(Expressions))
               M == Operators \cup {","}
    <3>5. /\ IsPhrases(G) /\ p \in G /\ Complete(txt, two, L, G, M)
          /\ ~Behind(txt, two + Len(p.words), M)
          /\ two \in 1 .. Len(txt) + 1 /\ Stands(txt, two, p.words)
      BY <1>2, <3>3
    <3> HIDE DEF G, M
    <3>4. /\ two + Len(p.words) \in 1 .. Len(txt) + 1
          /\ \E r \in L : r.node = p.node /\ r.pos = two + Len(p.words)
      BY <3>5, CompleteMakes, SMTT(60)
    <3> QED
      BY <3>3, <3>4
  <2>6. PICK l \in L : l.node = p.node /\ l.pos = k
    BY <2>5
  <2> DEFINE list == Got(l.node, l.pos + 1)
  <2>7. list \in Expect(ts, L, "FROM") /\ list.node = p.node /\ list.pos = k + 1
    BY <1>5, <2>2, <2>6, GotParts
  <2> HIDE DEF m
  <2>8. ~Behind(txt, m, {","})
    <3>1. CASE w \in Conditions(Expressions)
      <4>1. WordAt(txt, m, "WHERE")
        BY <2>2, <2>3, <3>1, ConditionWords
      <4>2. "WHERE" \notin {","}
        OBVIOUS
      <4> QED
        BY <4>1, <4>2, WordNot
    <3>2. CASE w = Nowhere /\ ~Behind(txt, n, {",", "WHERE"})
      <4>1. Len(w.words) = 0
        <5>1. w.words = <<>>
          BY <3>2, PhraseParts DEF Nowhere
        <5> QED
          BY <5>1
      <4>2. n = m
        <5>1. n = m + Len(w.words)
          BY <1>9, <2>2 DEF s
        <5> QED
          BY <2>3, <4>1, <5>1
      <4> QED
        BY <3>2, <4>2 DEF Behind
    <3> QED
      BY <1>9, <3>1, <3>2
  <2>9. /\ m \in 1 .. Len(txt) + 1
        /\ \E from \in Items("name", ts)[k + 1] : from.node = f.node /\ from.pos = m
    <3> DEFINE j == k + 1
               F == Items("name", ts)[j]
    <3>1. /\ j \in 1 .. Len(txt) + 1 /\ Complete(txt, j, F, NameList, {","})
          /\ m = j + Len(f.words) /\ Stands(txt, j, f.words) /\ ~Behind(txt, j + Len(f.words), {","})
      BY <1>3, <2>2, <2>3, <2>4, <2>8
    <3> HIDE DEF j, F
    <3> DEFINE G == NameList
               M == {","}
    <3>3. /\ IsPhrases(G) /\ f \in G /\ Complete(txt, j, F, G, M) /\ ~Behind(txt, j + Len(f.words), M)
          /\ j \in 1 .. Len(txt) + 1 /\ Stands(txt, j, f.words)
      BY <1>2, <3>1
    <3> HIDE DEF G, M
    <3>2. /\ j + Len(f.words) \in 1 .. Len(txt) + 1
          /\ \E r \in F : r.node = f.node /\ r.pos = j + Len(f.words)
      BY <3>3, CompleteMakes
    <3> QED
      BY <3>1, <3>2 DEF F, j
  <2>10. PICK from \in Items("name", ts)[list.pos] : from.node = f.node /\ from.pos = m
    BY <2>7, <2>9
  <2>11. \E where \in OptionalWhere(ts, m) : where.node = w.node /\ where.pos = n
    <3>1. n = m + Len(w.words)
      BY <1>9, <2>2 DEF s
    <3>2. ~Behind(txt, n, {",", "WHERE"}) => ~Behind(txt, n, {"WHERE"})
      BY DEF Behind
    <3> QED
      <4>1. \/ w \in Conditions(Expressions) /\ ~Behind(txt, m + Len(w.words), Operators)
            \/ w = Nowhere /\ ~Behind(txt, m + Len(w.words), {"WHERE"})
        BY <1>9, <3>1, <3>2
      <4>2. \E r \in OptionalWhere(Tokenize(txt), m) : r.node = w.node /\ r.pos = m + Len(w.words)
        BY <2>2, <2>9, <4>1, MakesWhere
      <4> QED
        BY <3>1, <4>2
  <2>12. PICK where \in OptionalWhere(ts, from.pos) : where.node = w.node /\ where.pos = n
    BY <2>10, <2>11
  <2>13. Got(s.node, n) = Got([type |-> "SELECT", select |-> list.node, tables |-> from.node,
                               where |-> where.node], where.pos)
    BY <2>2, <2>7, <2>10, <2>12
  <2> HIDE DEF list
  <2> QED
    BY <2>7, <2>10, <2>12, <2>13, SelectIs DEF s, L
<1>10. Complete(txt, 1, made, Selects(Expressions, Conditions(Expressions)), Operators)
  <2> HIDE DEF made
  <2>1. \A s \in Selects(Expressions, Conditions(Expressions)) :
            \E p \in Lists(Projection(Expressions)), f \in NameList, w \in Conditions(Expressions) :
          s = Select(p, f, w)
    BY DEF Selects
  <2> SUFFICES ASSUME NEW s \in Selects(Expressions, Conditions(Expressions)),
                         Stands(txt, 1, s.words),
                      ~Behind(txt, 1 + Len(s.words), Operators)
               PROVE  Got(s.node, 1 + Len(s.words)) \in made
    BY DEF Complete
  <2> QED
    BY <1>9, <2>1
<1>11. Complete(txt, 1, made, Selects(Expressions, {Nowhere}), {",", "WHERE"})
  <2> HIDE DEF made
  <2>1. \A s \in Selects(Expressions, {Nowhere}) :
            \E p \in Lists(Projection(Expressions)), f \in NameList : s = Select(p, f, Nowhere)
    BY DEF Selects
  <2> SUFFICES ASSUME NEW s \in Selects(Expressions, {Nowhere}), Stands(txt, 1, s.words),
                      ~Behind(txt, 1 + Len(s.words), {",", "WHERE"})
               PROVE  Got(s.node, 1 + Len(s.words)) \in made
    BY DEF Complete
  <2> QED
    BY <1>9, <2>1
<1> QED
  BY <1>8, <1>10, <1>11
LEMMA ListMade ==
  ASSUME NEW txt \in Seq(Words), NEW i \in 1 .. Len(txt) + 1, NEW what \in Whats,
         NEW r \in Items(what, Tokenize(txt))[i]
  PROVE  /\ r.pos \in 1 .. Len(txt) + 1
         /\ \E p \in Lists(Phrases(what)) :
               /\ r.node = p.node /\ r.pos = i + Len(p.words)
               /\ p.words \in Seq(Words) /\ Len(p.words) \in Nat /\ Stands(txt, i, p.words)
               /\ ~Behind(txt, r.pos, Ends(what) \cup {","})
<1> DEFINE M == Ends(what) \cup {","}
           G == Lists(Phrases(what))
<1>1. IsPhrases(G) /\ Sound(txt, i, Items(what, Tokenize(txt))[i], G, M)
  BY ListsArePhrases, ListRead
<1> HIDE DEF M, G
<1>2. /\ r.pos \in 1 .. Len(txt) + 1
      /\ \E p \in G : /\ r.node = p.node /\ r.pos = i + Len(p.words)
                      /\ p.words \in Seq(Words) /\ Len(p.words) \in Nat /\ Stands(txt, i, p.words)
                      /\ ~Behind(txt, r.pos, M)
  BY <1>1, SoundMade
<1> QED
  BY <1>2 DEF M, G

LEMMA MakesList ==
  ASSUME NEW txt \in Seq(Words), NEW i \in 1 .. Len(txt) + 1, NEW what \in Whats,
         NEW p \in Lists(Phrases(what)), Stands(txt, i, p.words),
         ~Behind(txt, i + Len(p.words), Stops(what) \cup {","})
  PROVE  /\ i + Len(p.words) \in 1 .. Len(txt) + 1
         /\ \E r \in Items(what, Tokenize(txt))[i] : r.node = p.node /\ r.pos = i + Len(p.words)
<1> DEFINE M == Stops(what) \cup {","}
           G == Lists(Phrases(what))
<1>1. IsPhrases(G) /\ Complete(txt, i, Items(what, Tokenize(txt))[i], G, M)
  BY ListsArePhrases, ListRead
<1>2. p \in G /\ ~Behind(txt, i + Len(p.words), M)
  OBVIOUS
<1> HIDE DEF M, G
<1>3. /\ i + Len(p.words) \in 1 .. Len(txt) + 1
      /\ \E r \in Items(what, Tokenize(txt))[i] : r.node = p.node /\ r.pos = i + Len(p.words)
  <2> DEFINE j == i + Len(p.words)
             made == Items(what, Tokenize(txt))[i]
  <2>1. ~Behind(txt, i + Len(p.words), M) /\ Complete(txt, i, made, G, M)
    BY <1>1, <1>2
  <2>2. Stands(txt, i, p.words)
    OBVIOUS
  <2> HIDE DEF made
  <2>3. /\ i + Len(p.words) \in 1 .. Len(txt) + 1
        /\ \E r \in made : r.node = p.node /\ r.pos = i + Len(p.words)
    BY ONLY txt \in Seq(Words), i \in 1 .. Len(txt) + 1, <1>1, <1>2, <2>1, <2>2, CompleteMakes
  <2> QED
    BY <2>3 DEF made
<1> QED
  BY <1>3

LEMMA EnclosedMade ==
  ASSUME NEW txt \in Seq(Words), NEW i \in 1 .. Len(txt) + 1, NEW what \in Whats,
         NEW r \in Enclosed(what, Tokenize(txt), i)
  PROVE  /\ r.pos \in 1 .. Len(txt) + 1
         /\ \E p \in InParentheses(Lists(Phrases(what))) :
               /\ r.node = p.node /\ r.pos = i + Len(p.words)
               /\ p.words \in Seq(Words) /\ Len(p.words) \in Nat /\ Stands(txt, i, p.words)
<1> DEFINE G == InParentheses(Lists(Phrases(what)))
<1>1. IsPhrases(G) /\ Sound(txt, i, Enclosed(what, Tokenize(txt), i), G, {})
  BY ListsArePhrases, EnclosedRead
<1> HIDE DEF G
<1>2. /\ r.pos \in 1 .. Len(txt) + 1
      /\ \E p \in G : /\ r.node = p.node /\ r.pos = i + Len(p.words)
                      /\ p.words \in Seq(Words) /\ Len(p.words) \in Nat /\ Stands(txt, i, p.words)
                      /\ ~Behind(txt, r.pos, {})
  BY <1>1, SoundMade
<1> QED
  BY <1>2 DEF G

LEMMA MakesEnclosed ==
  ASSUME NEW txt \in Seq(Words), NEW i \in 1 .. Len(txt) + 1, NEW what \in Whats,
         NEW p \in InParentheses(Lists(Phrases(what))), Stands(txt, i, p.words)
  PROVE  /\ p.words \in Seq(Words) /\ Len(p.words) \in Nat
         /\ i + Len(p.words) \in 1 .. Len(txt) + 1
         /\ \E r \in Enclosed(what, Tokenize(txt), i) : r.node = p.node /\ r.pos = i + Len(p.words)
<1> DEFINE G == InParentheses(Lists(Phrases(what)))
           made == Enclosed(what, Tokenize(txt), i)
           M == {}
<1>1. /\ IsPhrases(G) /\ Complete(txt, i, made, G, M) /\ p \in G /\ ~Behind(txt, i + Len(p.words), M)
      /\ Stands(txt, i, p.words)
  BY ListsArePhrases, EnclosedRead DEF Behind
<1> HIDE DEF G, made, M
<1>2. /\ i + Len(p.words) \in 1 .. Len(txt) + 1
      /\ \E r \in made : r.node = p.node /\ r.pos = i + Len(p.words)
  <2> DEFINE k == i + Len(p.words)
  <2>1. Got(p.node, k) \in made
    BY <1>1 DEF Complete
  <2>2. i + Len(p.words) \in i + 1 .. Len(txt) + 1 /\ i \in Nat \ {0}
    BY <1>1, StandsEnd DEF IsPhrases
  <2>3. Got(p.node, k).node = p.node /\ Got(p.node, k).pos = k
    BY GotParts
  <2>4. k \in 1 .. Len(txt) + 1
    BY <2>2
  <2> QED
    BY <2>1, <2>3, <2>4
<1>3. p.words \in Seq(Words) /\ Len(p.words) \in Nat
  BY <1>1, TextWords
<1> QED
  BY <1>2, <1>3 DEF made

LEMMA TableThen ==
  ASSUME NEW txt \in Seq(Words), NEW i \in 1 .. Len(txt) + 1, NEW w \in Keywords \cup Symbols, NEW r
  PROVE  r \in Expect(Tokenize(txt), Item("name", Tokenize(txt), i), w) <=>
           \E t \in Names : WordAt(txt, i, t) /\ WordAt(txt, i + 1, w) /\ r = Got(t, i + 2)
<1> DEFINE made == Item("name", Tokenize(txt), i)
<1>1. \A q : q \in made <=> \E t \in Names : WordAt(txt, i, t) /\ q = Got(t, i + 1)
  BY TableRead
<1> HIDE DEF made
<1>2. ASSUME NEW t \in Names, WordAt(txt, i, t) PROVE i + 1 \in 1 .. Len(txt) + 1
  <2>1. i \in Nat \ {0}
    OBVIOUS
  <2> QED
    BY <1>2, <2>1, WordPlace
<1>3. \A q \in made : q.pos \in 1 .. Len(txt) + 1
  BY <1>1, <1>2, GotParts
<1>4. r \in Expect(Tokenize(txt), made, w) <=>
        \E q \in made : WordAt(txt, q.pos, w) /\ r = Got(q.node, q.pos + 1)
  BY <1>3, ExpectRead
<1>5. i + 1 + 1 = i + 2
  OBVIOUS
<1>6. ASSUME NEW q \in made, WordAt(txt, q.pos, w), r = Got(q.node, q.pos + 1)
      PROVE  \E t \in Names : WordAt(txt, i, t) /\ WordAt(txt, i + 1, w) /\ r = Got(t, i + 2)
  <2>1. PICK t \in Names : WordAt(txt, i, t) /\ q = Got(t, i + 1)
    BY <1>1
  <2>2. q.node = t /\ q.pos = i + 1
    BY <2>1, GotParts
  <2> QED
    BY <1>5, <1>6, <2>1, <2>2
<1>7. ASSUME NEW t \in Names, WordAt(txt, i, t), WordAt(txt, i + 1, w), r = Got(t, i + 2)
      PROVE  \E q \in made : WordAt(txt, q.pos, w) /\ r = Got(q.node, q.pos + 1)
  <2> DEFINE q == Got(t, i + 1)
  <2>1. q \in made /\ q.node = t /\ q.pos = i + 1
    BY <1>1, <1>7, GotParts
  <2> HIDE DEF q
  <2>2. r = Got(q.node, q.pos + 1)
    BY <1>5, <1>7, <2>1
  <2> QED
    BY <1>7, <2>1, <2>2
<1> QED
  BY <1>4, <1>6, <1>7 DEF made

LEMMA UpdateRead ==
  ASSUME NEW txt \in Seq(Words), WordAt(txt, 1, "UPDATE")
  PROVE  LET made == ParseUpdate(Tokenize(txt))
         IN  /\ \A r \in made :
                    \/ Meant(txt, 1, r, Updates(Expressions, Conditions(Expressions)), Operators)
                    \/ Meant(txt, 1, r, Updates(Expressions, {Nowhere}), Operators \cup {",", "WHERE"})
             /\ Complete(txt, 1, made, Updates(Expressions, Conditions(Expressions)), Operators)
             /\ Complete(txt, 1, made, Updates(Expressions, {Nowhere}),
                      Operators \cup {",", "WHERE"})
<1> DEFINE ts == Tokenize(txt)
           made == ParseUpdate(ts)
           M == Operators \cup {","}
           N == Operators \cup {",", "WHERE"}
<1>1. 2 \in 1 .. Len(txt) + 1 /\ "SET" \in Keywords \cup Symbols /\ 2 + 1 = 3 /\ 2 + 2 = 4
  BY DEF WordAt, Keywords
<1>2. \A table : table \in Expect(ts, Item("name", ts, 2), "SET") <=>
                   \E t \in Names : WordAt(txt, 2, t) /\ WordAt(txt, 3, "SET") /\ table = Got(t, 4)
  <2>1. \A table : table \in Expect(ts, Item("name", ts, 2), "SET") <=>
                     \E t \in Names : WordAt(txt, 2, t) /\ WordAt(txt, 2 + 1, "SET") /\ table = Got(t, 2 + 2)
    BY <1>1, TableThen
  <2> QED
    BY <1>1, <2>1
<1>3. WordAt(txt, 3, "SET") => 4 \in 1 .. Len(txt) + 1
  BY DEF WordAt
<1>4. /\ Lists(Phrases("assignment")) = Lists(Assignments(Expressions)) /\ "assignment" \in Whats
      /\ Ends("assignment") \cup {","} = M /\ Stops("assignment") \cup {","} = M
  BY ListsArePhrases DEF Ends, Stops
<1>5. \A k : ~Behind(txt, k, M) /\ ~Behind(txt, k, {"WHERE"}) <=> ~Behind(txt, k, N)
  BY DEF Behind
<1> HIDE DEF M, N
<1>6. ASSUME 4 \in 1 .. Len(txt) + 1, NEW r \in Items("assignment", ts)[4]
      PROVE  /\ r.pos \in 1 .. Len(txt) + 1
             /\ \E p \in Lists(Assignments(Expressions)) :
                   /\ r.node = p.node /\ r.pos = 4 + Len(p.words)
                   /\ p.words \in Seq(Words) /\ Len(p.words) \in Nat /\ Stands(txt, 4, p.words)
                   /\ ~Behind(txt, r.pos, M)
  <2> DEFINE j == 4
             what == "assignment"
  <2>1. j \in 1 .. Len(txt) + 1 /\ what \in Whats /\ r \in Items(what, ts)[j]
    BY <1>4, <1>6
  <2> HIDE DEF j, what
  <2>2. /\ r.pos \in 1 .. Len(txt) + 1
        /\ \E p \in Lists(Phrases(what)) :
              /\ r.node = p.node /\ r.pos = j + Len(p.words)
              /\ p.words \in Seq(Words) /\ Len(p.words) \in Nat /\ Stands(txt, j, p.words)
              /\ ~Behind(txt, r.pos, Ends(what) \cup {","})
    BY <2>1, ListMade
  <2> QED
    BY <1>4, <2>2 DEF j, what
<1>7. \A p \in Lists(Assignments(Expressions)) : p.words \in Seq(Words) /\ Len(p.words) \in Nat
  <2>1. IsPhrases(Lists(Assignments(Expressions)))
    BY <1>4, ListsArePhrases
  <2> QED
    BY <2>1, TextWords
<1>8. ASSUME NEW r \in made
      PROVE  \/ Meant(txt, 1, r, Updates(Expressions, Conditions(Expressions)), Operators)
             \/ Meant(txt, 1, r, Updates(Expressions, {Nowhere}), N)
  <2>1. PICK table \in Expect(ts, Item("name", ts, 2), "SET") :
           \E set \in Items("assignment", ts)[table.pos] : \E where \in OptionalWhere(ts, set.pos) :
             r = Got([type |-> "UPDATE", table |-> table.node, assignments |-> set.node,
                      where |-> where.node], where.pos)
    BY UpdateIs
  <2>2. PICK t \in Names : WordAt(txt, 2, t) /\ WordAt(txt, 3, "SET") /\ table = Got(t, 4)
    BY <1>2
  <2>3. table.node = t /\ table.pos = 4
    BY <2>2, GotParts
  <2>4. PICK set \in Items("assignment", ts)[4] : \E where \in OptionalWhere(ts, set.pos) :
             r = Got([type |-> "UPDATE", table |-> t, assignments |-> set.node,
                      where |-> where.node], where.pos)
    BY <2>1, <2>3
  <2>5. PICK where \in OptionalWhere(ts, set.pos) :
             r = Got([type |-> "UPDATE", table |-> t, assignments |-> set.node,
                      where |-> where.node], where.pos)
    BY <2>4
  <2>6. /\ set.pos \in 1 .. Len(txt) + 1
        /\ \E p \in Lists(Assignments(Expressions)) :
              /\ set.node = p.node /\ set.pos = 4 + Len(p.words)
              /\ p.words \in Seq(Words) /\ Len(p.words) \in Nat /\ Stands(txt, 4, p.words)
              /\ ~Behind(txt, set.pos, M)
    BY <1>3, <1>6, <2>2
  <2>7. PICK p \in Lists(Assignments(Expressions)) :
              /\ set.node = p.node /\ set.pos = 4 + Len(p.words)
              /\ p.words \in Seq(Words) /\ Len(p.words) \in Nat /\ Stands(txt, 4, p.words)
              /\ ~Behind(txt, set.pos, M)
    BY <2>6
  <2>8. PICK w \in Conditions(Expressions) \cup {Nowhere} :
            /\ where.node = w.node /\ where.pos = set.pos + Len(w.words)
            /\ w.words \in Seq(Words) /\ Len(w.words) \in Nat /\ Stands(txt, set.pos, w.words)
            /\ \/ w \in Conditions(Expressions) /\ ~Behind(txt, where.pos, Operators)
               \/ w = Nowhere /\ where.pos = set.pos /\ ~Behind(txt, set.pos, {"WHERE"})
    BY <2>6, WhereMade
  <2> DEFINE s == Update(t, p, w)
             k == 4 + Len(p.words)
  <2>9. /\ s.node = [type |-> "UPDATE", table |-> t, assignments |-> p.node, where |-> w.node]
        /\ s.words \in Seq(Words) /\ 1 + Len(s.words) = k + Len(w.words)
        /\ Stands(txt, 1, s.words) <=>
             /\ WordAt(txt, 1, "UPDATE") /\ WordAt(txt, 2, t) /\ WordAt(txt, 3, "SET")
             /\ Stands(txt, 4, p.words) /\ Stands(txt, k, w.words)
    BY <2>7, <2>8, UpdateText
  <2>10. 1 + Len(s.words) = where.pos /\ Stands(txt, 1, s.words)
    BY <2>2, <2>7, <2>8, <2>9
  <2>11. r = Got(s.node, 1 + Len(s.words))
    BY <2>5, <2>7, <2>8, <2>9, <2>10
  <2>12. w \in Conditions(Expressions) => s \in Updates(Expressions, Conditions(Expressions))
    BY DEF Updates
  <2>13. w = Nowhere => s \in Updates(Expressions, {Nowhere})
    BY DEF Updates
  <2> HIDE DEF s
  <2> QED
    BY <1>5, <2>7, <2>8, <2>10, <2>11, <2>12, <2>13 DEF Meant
<1>9. ASSUME NEW t \in Names, NEW p \in Lists(Assignments(Expressions)),
             NEW w \in Conditions(Expressions) \cup {Nowhere},
             Stands(txt, 1, Update(t, p, w).words), NEW n, n = 1 + Len(Update(t, p, w).words),
             \/ w \in Conditions(Expressions) /\ ~Behind(txt, n, Operators)
             \/ w = Nowhere /\ ~Behind(txt, n, N)
      PROVE  Got(Update(t, p, w).node, n) \in made
  <2> DEFINE s == Update(t, p, w)
             k == 4 + Len(p.words)
  <2>1. w.words \in Seq(Words) /\ Len(w.words) \in Nat
    <3>1. 1 \in Nat \ {0}
      OBVIOUS
    <3> QED
      BY <3>1, ConditionWords
  <2>2. p.words \in Seq(Words) /\ Len(p.words) \in Nat
    BY <1>7
  <2>3. /\ s.node = [type |-> "UPDATE", table |-> t, assignments |-> p.node, where |-> w.node]
        /\ s.words \in Seq(Words) /\ 1 + Len(s.words) = k + Len(w.words)
        /\ Stands(txt, 1, s.words) <=>
             /\ WordAt(txt, 1, "UPDATE") /\ WordAt(txt, 2, t) /\ WordAt(txt, 3, "SET")
             /\ Stands(txt, 4, p.words) /\ Stands(txt, k, w.words)
    BY <2>1, <2>2, UpdateText
  <2>4. /\ n = k + Len(w.words) /\ WordAt(txt, 2, t) /\ WordAt(txt, 3, "SET")
        /\ Stands(txt, 4, p.words) /\ Stands(txt, k, w.words)
    BY <1>9, <2>3
  <2>5. k \in Nat \ {0}
    BY <2>2
  <2> HIDE DEF s
  <2>6. ~Behind(txt, k, M)
    <3>1. CASE w \in Conditions(Expressions)
      <4>1. WordAt(txt, k, "WHERE")
        BY <2>4, <2>5, <3>1, ConditionWords
      <4>2. "WHERE" \notin M
        BY DEF M, Operators, Compare
      <4> QED
        BY <4>1, <4>2, WordNot
    <3>2. CASE w = Nowhere /\ ~Behind(txt, n, N)
      <4>1. Len(w.words) = 0
        <5>1. w.words = <<>>
          BY <3>2, PhraseParts DEF Nowhere
        <5> QED
          BY <5>1
      <4>2. n = k
        BY <2>4, <2>5, <4>1
      <4> QED
        BY <1>5, <3>2, <4>2
    <3> QED
      BY <1>9, <3>1, <3>2
  <2>7. /\ k \in 1 .. Len(txt) + 1
        /\ \E set \in Items("assignment", ts)[4] : set.node = p.node /\ set.pos = k
    <3> DEFINE j == 4
               what == "assignment"
    <3>1. /\ j \in 1 .. Len(txt) + 1 /\ what \in Whats /\ p \in Lists(Phrases(what)) /\ Stands(txt, j, p.words)
          /\ ~Behind(txt, j + Len(p.words), Stops(what) \cup {","})
      BY <1>3, <1>4, <2>4, <2>6
    <3> HIDE DEF j, what
    <3>2. /\ j + Len(p.words) \in 1 .. Len(txt) + 1
          /\ \E r \in Items(what, Tokenize(txt))[j] : r.node = p.node /\ r.pos = j + Len(p.words)
      BY <3>1, MakesList
    <3> QED
      BY <3>2 DEF j, what
  <2>8. PICK set \in Items("assignment", ts)[4] : set.node = p.node /\ set.pos = k
    BY <2>7
  <2> HIDE DEF k
  <2>9. \E where \in OptionalWhere(ts, k) : where.node = w.node /\ where.pos = n
    <3>1. \/ w \in Conditions(Expressions) /\ ~Behind(txt, k + Len(w.words), Operators)
          \/ w = Nowhere /\ ~Behind(txt, k + Len(w.words), {"WHERE"})
      BY <1>5, <1>9, <2>4
    <3>2. \E r \in OptionalWhere(Tokenize(txt), k) : r.node = w.node /\ r.pos = k + Len(w.words)
      BY <2>4, <2>7, <3>1, MakesWhere
    <3> QED
      BY <2>4, <3>2
  <2>10. PICK where \in OptionalWhere(ts, set.pos) : where.node = w.node /\ where.pos = n
    BY <2>8, <2>9
  <2> DEFINE table == Got(t, 4)
  <2>11. table \in Expect(ts, Item("name", ts, 2), "SET") /\ table.node = t /\ table.pos = 4
    BY <1>2, <2>4, GotParts
  <2> HIDE DEF table
  <2>12. Got(s.node, n) = Got([type |-> "UPDATE", table |-> table.node, assignments |-> set.node,
                               where |-> where.node], where.pos)
    BY <2>3, <2>8, <2>10, <2>11
  <2>13. set \in Items("assignment", ts)[table.pos]
    BY <2>11
  <2> QED
    BY <2>10, <2>11, <2>12, <2>13, UpdateIs DEF s
<1>10. Complete(txt, 1, made, Updates(Expressions, Conditions(Expressions)), Operators)
  <2> HIDE DEF made
  <2>1. \A s \in Updates(Expressions, Conditions(Expressions)) :
            \E t \in Names, p \in Lists(Assignments(Expressions)), w \in Conditions(Expressions) :
          s = Update(t, p, w)
    BY DEF Updates
  <2> SUFFICES ASSUME NEW s \in Updates(Expressions, Conditions(Expressions)),
                         Stands(txt, 1, s.words),
                      ~Behind(txt, 1 + Len(s.words), Operators)
               PROVE  Got(s.node, 1 + Len(s.words)) \in made
    BY DEF Complete
  <2> QED
    BY <1>9, <2>1
<1>11. Complete(txt, 1, made, Updates(Expressions, {Nowhere}), N)
  <2> HIDE DEF made
  <2>1. \A s \in Updates(Expressions, {Nowhere}) :
            \E t \in Names, p \in Lists(Assignments(Expressions)) : s = Update(t, p, Nowhere)
    BY DEF Updates
  <2> SUFFICES ASSUME NEW s \in Updates(Expressions, {Nowhere}), Stands(txt, 1, s.words),
                      ~Behind(txt, 1 + Len(s.words), N)
               PROVE  Got(s.node, 1 + Len(s.words)) \in made
    BY DEF Complete
  <2> QED
    BY <1>9, <2>1
<1> QED
  BY <1>8, <1>10, <1>11 DEF N
LEMMA TablePlace ==
  ASSUME NEW txt \in Seq(Words), NEW first, NEW w \in Keywords \cup Symbols, WordAt(txt, 1, first)
  PROVE  /\ Is(Tokenize(txt), 2, w) <=> WordAt(txt, 2, w)
         /\ WordAt(txt, 2, w) =>
              \A r : r \in Item("name", Tokenize(txt), 3) <=> \E t \in Names : WordAt(txt, 3, t) /\ r = Got(t, 4)
         /\ \A t : WordAt(txt, 2, w) /\ WordAt(txt, 3, t) => 4 \in 1 .. Len(txt) + 1
<1>1. 2 \in 1 .. Len(txt) + 1 /\ 3 + 1 = 4
  BY DEF WordAt
<1>2. WordAt(txt, 2, w) => 3 \in 1 .. Len(txt) + 1
  BY DEF WordAt
<1>3. \A t : WordAt(txt, 2, w) /\ WordAt(txt, 3, t) => 4 \in 1 .. Len(txt) + 1
  BY DEF WordAt
<1>4. WordAt(txt, 2, w) =>
        \A r : r \in Item("name", Tokenize(txt), 3) <=> \E t \in Names : WordAt(txt, 3, t) /\ r = Got(t, 3 + 1)
  BY <1>2, TableRead
<1>5. Is(Tokenize(txt), 2, w) <=> WordAt(txt, 2, w)
  BY <1>1, TokenIs
<1>6. 3 + 1 = 4
  OBVIOUS
<1> QED
  BY ONLY <1>3, <1>4, <1>5, <1>6

LEMMA DeleteRead ==
  ASSUME NEW txt \in Seq(Words), WordAt(txt, 1, "DELETE")
  PROVE  LET made == ParseDelete(Tokenize(txt))
         IN  /\ \A r \in made : \/ Meant(txt, 1, r, Deletes(Conditions(Expressions)), Operators)
                                \/ Meant(txt, 1, r, Deletes({Nowhere}), {"WHERE"})
             /\ Complete(txt, 1, made, Deletes(Conditions(Expressions)), Operators)
             /\ Complete(txt, 1, made, Deletes({Nowhere}), {"WHERE"})
<1> DEFINE ts == Tokenize(txt)
           made == ParseDelete(ts)
<1>1. "FROM" \in Keywords \cup Symbols
  BY DEF Keywords
<1>2. /\ Is(ts, 2, "FROM") <=> WordAt(txt, 2, "FROM")
      /\ WordAt(txt, 2, "FROM") =>
           \A q : q \in Item("name", ts, 3) <=> \E t \in Names : WordAt(txt, 3, t) /\ q = Got(t, 4)
      /\ \A t : WordAt(txt, 2, "FROM") /\ WordAt(txt, 3, t) => 4 \in 1 .. Len(txt) + 1
  BY <1>1, TablePlace
<1>3. ASSUME NEW r \in made
      PROVE  \/ Meant(txt, 1, r, Deletes(Conditions(Expressions)), Operators)
             \/ Meant(txt, 1, r, Deletes({Nowhere}), {"WHERE"})
  <2>1. WordAt(txt, 2, "FROM")
    BY <1>2, DeleteIs
  <2>2. PICK from \in Item("name", ts, 3) : \E where \in OptionalWhere(ts, from.pos) :
          r = Got([type |-> "DELETE", table |-> from.node, where |-> where.node], where.pos)
    BY DeleteIs
  <2>3. PICK t \in Names : WordAt(txt, 3, t) /\ from = Got(t, 4)
    BY <1>2, <2>1
  <2>4. from.node = t /\ from.pos = 4 /\ 4 \in 1 .. Len(txt) + 1
    BY <1>2, <2>1, <2>3, GotParts
  <2>5. PICK where \in OptionalWhere(ts, 4) :
          r = Got([type |-> "DELETE", table |-> t, where |-> where.node], where.pos)
    BY <2>2, <2>4
  <2> DEFINE j == 4
  <2>6. PICK w \in Conditions(Expressions) \cup {Nowhere} :
            /\ where.node = w.node /\ where.pos = j + Len(w.words)
            /\ w.words \in Seq(Words) /\ Len(w.words) \in Nat /\ Stands(txt, j, w.words)
            /\ \/ w \in Conditions(Expressions) /\ ~Behind(txt, where.pos, Operators)
               \/ w = Nowhere /\ where.pos = j /\ ~Behind(txt, j, {"WHERE"})
    <3>1. j \in 1 .. Len(txt) + 1 /\ where \in OptionalWhere(Tokenize(txt), j)
      BY <2>4
    <3> HIDE DEF j
    <3> QED
      BY <3>1, WhereMade
  <2> DEFINE s == Delete(t, w)
  <2>7. /\ s.node = [type |-> "DELETE", table |-> t, where |-> w.node]
        /\ s.words \in Seq(Words) /\ 1 + Len(s.words) = 4 + Len(w.words)
        /\ Stands(txt, 1, s.words) <=>
             /\ WordAt(txt, 1, "DELETE") /\ WordAt(txt, 2, "FROM") /\ WordAt(txt, 3, t)
             /\ Stands(txt, 4, w.words)
    BY <2>6, DeleteText
  <2>8. 1 + Len(s.words) = where.pos /\ Stands(txt, 1, s.words)
    BY <2>1, <2>3, <2>6, <2>7
  <2>9. r = Got(s.node, 1 + Len(s.words))
    BY <2>5, <2>6, <2>7, <2>8
  <2>10. w \in Conditions(Expressions) => s \in Deletes(Conditions(Expressions))
    BY DEF Deletes
  <2>11. w = Nowhere => s \in Deletes({Nowhere})
    BY DEF Deletes
  <2> HIDE DEF s, j
  <2> QED
    BY <2>6, <2>8, <2>9, <2>10, <2>11 DEF Meant
<1>4. ASSUME NEW t \in Names, NEW w \in Conditions(Expressions) \cup {Nowhere},
             Stands(txt, 1, Delete(t, w).words), NEW n, n = 1 + Len(Delete(t, w).words),
             \/ w \in Conditions(Expressions) /\ ~Behind(txt, n, Operators)
             \/ w = Nowhere /\ ~Behind(txt, n, {"WHERE"})
      PROVE  Got(Delete(t, w).node, n) \in made
  <2> DEFINE s == Delete(t, w)
  <2>1. w.words \in Seq(Words) /\ Len(w.words) \in Nat
    <3>1. 1 \in Nat \ {0}
      OBVIOUS
    <3> QED
      BY <3>1, ConditionWords
  <2>2. /\ s.node = [type |-> "DELETE", table |-> t, where |-> w.node]
        /\ s.words \in Seq(Words) /\ 1 + Len(s.words) = 4 + Len(w.words)
        /\ Stands(txt, 1, s.words) <=>
             /\ WordAt(txt, 1, "DELETE") /\ WordAt(txt, 2, "FROM") /\ WordAt(txt, 3, t)
             /\ Stands(txt, 4, w.words)
    BY <2>1, DeleteText
  <2>3. n = 4 + Len(w.words) /\ WordAt(txt, 2, "FROM") /\ WordAt(txt, 3, t) /\ Stands(txt, 4, w.words)
    BY <1>4, <2>2
  <2> HIDE DEF s
  <2>4. 4 \in 1 .. Len(txt) + 1
    BY <1>2, <2>3
  <2>5. PICK where \in OptionalWhere(ts, 4) : where.node = w.node /\ where.pos = n
    <3> DEFINE j == 4
    <3>1. /\ \/ w \in Conditions(Expressions) /\ ~Behind(txt, j + Len(w.words), Operators)
             \/ w = Nowhere /\ ~Behind(txt, j + Len(w.words), {"WHERE"})
          /\ j \in 1 .. Len(txt) + 1 /\ Stands(txt, j, w.words) /\ n = j + Len(w.words)
      BY <1>4, <2>3, <2>4
    <3> HIDE DEF j
    <3>2. \E r \in OptionalWhere(Tokenize(txt), j) : r.node = w.node /\ r.pos = j + Len(w.words)
      BY <3>1, MakesWhere
    <3> QED
      BY <3>1, <3>2 DEF j
  <2> DEFINE from == Got(t, 4)
  <2>6. from \in Item("name", ts, 3) /\ from.node = t /\ from.pos = 4
    BY <1>2, <2>3, GotParts
  <2> HIDE DEF from
  <2>7. /\ Got(s.node, n) = Got([type |-> "DELETE", table |-> from.node, where |-> where.node], where.pos)
        /\ where \in OptionalWhere(ts, from.pos)
    BY <2>2, <2>5, <2>6
  <2> QED
    BY <1>2, <2>3, <2>6, <2>7, DeleteIs DEF s
<1>5. Complete(txt, 1, made, Deletes(Conditions(Expressions)), Operators)
  <2> HIDE DEF made
  <2>1. \A s \in Deletes(Conditions(Expressions)) :
            \E t \in Names, w \in Conditions(Expressions) : s = Delete(t, w)
    BY DEF Deletes
  <2> SUFFICES ASSUME NEW s \in Deletes(Conditions(Expressions)), Stands(txt, 1, s.words),
                      ~Behind(txt, 1 + Len(s.words), Operators)
               PROVE  Got(s.node, 1 + Len(s.words)) \in made
    BY DEF Complete
  <2> QED
    BY <1>4, <2>1
<1>6. Complete(txt, 1, made, Deletes({Nowhere}), {"WHERE"})
  <2> HIDE DEF made
  <2>1. \A s \in Deletes({Nowhere}) : \E t \in Names : s = Delete(t, Nowhere)
    BY DEF Deletes
  <2> SUFFICES ASSUME NEW s \in Deletes({Nowhere}), Stands(txt, 1, s.words),
                      ~Behind(txt, 1 + Len(s.words), {"WHERE"})
               PROVE  Got(s.node, 1 + Len(s.words)) \in made
    BY DEF Complete
  <2> QED
    BY <1>4, <2>1
<1> QED
  BY <1>3, <1>5, <1>6

LEMMA CreateRead ==
  ASSUME NEW txt \in Seq(Words), WordAt(txt, 1, "CREATE")
  PROVE  LET made == ParseCreate(Tokenize(txt))
         IN  /\ \A r \in made : Meant(txt, 1, r, Creates, {})
             /\ Complete(txt, 1, made, Creates, {})
<1> DEFINE ts == Tokenize(txt)
           made == ParseCreate(ts)
           C == InParentheses(Lists(Definitions))
<1>1. "TABLE" \in Keywords \cup Symbols
  BY DEF Keywords
<1>2. /\ Is(ts, 2, "TABLE") <=> WordAt(txt, 2, "TABLE")
      /\ WordAt(txt, 2, "TABLE") =>
           \A q : q \in Item("name", ts, 3) <=> \E t \in Names : WordAt(txt, 3, t) /\ q = Got(t, 4)
      /\ \A t : WordAt(txt, 2, "TABLE") /\ WordAt(txt, 3, t) => 4 \in 1 .. Len(txt) + 1
  BY <1>1, TablePlace
<1>3. InParentheses(Lists(Phrases("definition"))) = C /\ "definition" \in Whats
  BY ListsArePhrases
<1>4. ASSUME NEW r \in made
      PROVE  Meant(txt, 1, r, Creates, {})
  <2>1. WordAt(txt, 2, "TABLE")
    BY <1>2, CreateIs
  <2>2. PICK table \in Item("name", ts, 3) : \E columns \in Enclosed("definition", ts, table.pos) :
          r = Got([type |-> "CREATE_TABLE", table |-> table.node, columns |-> columns.node], columns.pos)
    BY CreateIs
  <2>3. PICK t \in Names : WordAt(txt, 3, t) /\ table = Got(t, 4)
    BY <1>2, <2>1
  <2>4. table.node = t /\ table.pos = 4 /\ 4 \in 1 .. Len(txt) + 1
    BY <1>2, <2>1, <2>3, GotParts
  <2>5. PICK columns \in Enclosed("definition", ts, 4) :
          r = Got([type |-> "CREATE_TABLE", table |-> t, columns |-> columns.node], columns.pos)
    BY <2>2, <2>4
  <2>6. PICK c \in C : /\ columns.node = c.node /\ columns.pos = 4 + Len(c.words)
                       /\ c.words \in Seq(Words) /\ Len(c.words) \in Nat /\ Stands(txt, 4, c.words)
    <3> DEFINE j == 4
               what == "definition"
    <3>1. j \in 1 .. Len(txt) + 1 /\ what \in Whats /\ columns \in Enclosed(what, Tokenize(txt), j)
      BY <1>3, <2>4
    <3> HIDE DEF j, what
    <3>2. \E p \in InParentheses(Lists(Phrases(what))) :
               /\ columns.node = p.node /\ columns.pos = j + Len(p.words)
               /\ p.words \in Seq(Words) /\ Len(p.words) \in Nat /\ Stands(txt, j, p.words)
      BY <3>1, EnclosedMade
    <3> QED
      BY <1>3, <3>2 DEF j, what
  <2> DEFINE s == Create(t, c)
  <2>7. /\ s.node = [type |-> "CREATE_TABLE", table |-> t, columns |-> c.node]
        /\ s.words \in Seq(Words) /\ 1 + Len(s.words) = 4 + Len(c.words)
        /\ Stands(txt, 1, s.words) <=>
             /\ WordAt(txt, 1, "CREATE") /\ WordAt(txt, 2, "TABLE") /\ WordAt(txt, 3, t)
             /\ Stands(txt, 4, c.words)
    BY <2>6, CreateText
  <2>8. r = Got(s.node, 1 + Len(s.words)) /\ Stands(txt, 1, s.words)
    BY <2>1, <2>3, <2>5, <2>6, <2>7
  <2>9. s \in Creates
    BY DEF Creates
  <2> HIDE DEF s
  <2> QED
    BY <2>8, <2>9 DEF Meant, Behind
<1>5. ASSUME NEW t \in Names, NEW c \in C,
             Stands(txt, 1, Create(t, c).words), NEW n, n = 1 + Len(Create(t, c).words)
      PROVE  Got(Create(t, c).node, n) \in made
  <2> DEFINE s == Create(t, c)
  <2>1. c.words \in Seq(Words)
    <3>1. IsPhrases(C)
      BY <1>3, ListsArePhrases
    <3> QED
      BY <3>1, TextWords
  <2>2. /\ s.node = [type |-> "CREATE_TABLE", table |-> t, columns |-> c.node]
        /\ s.words \in Seq(Words) /\ 1 + Len(s.words) = 4 + Len(c.words)
        /\ Stands(txt, 1, s.words) <=>
             /\ WordAt(txt, 1, "CREATE") /\ WordAt(txt, 2, "TABLE") /\ WordAt(txt, 3, t)
             /\ Stands(txt, 4, c.words)
    BY <2>1, CreateText
  <2>3. n = 4 + Len(c.words) /\ WordAt(txt, 2, "TABLE") /\ WordAt(txt, 3, t) /\ Stands(txt, 4, c.words)
    BY <1>5, <2>2
  <2> HIDE DEF s
  <2>4. 4 \in 1 .. Len(txt) + 1
    BY <1>2, <2>3
  <2>5. PICK columns \in Enclosed("definition", ts, 4) : columns.node = c.node /\ columns.pos = n
    <3> DEFINE j == 4
               what == "definition"
    <3>1. /\ j \in 1 .. Len(txt) + 1 /\ what \in Whats /\ c \in InParentheses(Lists(Phrases(what)))
          /\ Stands(txt, j, c.words) /\ n = j + Len(c.words)
      BY <1>3, <2>3, <2>4
    <3> HIDE DEF j, what
    <3>2. \E r \in Enclosed(what, Tokenize(txt), j) : r.node = c.node /\ r.pos = j + Len(c.words)
      BY <3>1, MakesEnclosed
    <3> QED
      BY <3>1, <3>2 DEF j, what
  <2> DEFINE table == Got(t, 4)
  <2>6. table \in Item("name", ts, 3) /\ table.node = t /\ table.pos = 4
    BY <1>2, <2>3, GotParts
  <2> HIDE DEF table
  <2>7. /\ Got(s.node, n) = Got([type |-> "CREATE_TABLE", table |-> table.node, columns |-> columns.node],
                                columns.pos)
        /\ columns \in Enclosed("definition", ts, table.pos)
    BY <2>2, <2>5, <2>6
  <2> QED
    BY <1>2, <2>3, <2>6, <2>7, CreateIs DEF s
<1>6. Complete(txt, 1, made, Creates, {})
  <2> HIDE DEF made
  <2>1. \A s \in Creates : \E t \in Names, c \in C : s = Create(t, c)
    BY DEF Creates
  <2> SUFFICES ASSUME NEW s \in Creates, Stands(txt, 1, s.words)
               PROVE  Got(s.node, 1 + Len(s.words)) \in made
    BY DEF Complete
  <2> QED
    BY <1>5, <2>1
<1> QED
  BY <1>4, <1>6
\* The optional columns of an INSERT.
ColumnPhrases == {Phrase(<<>>, <<>>)} \cup InParentheses(NameList)

LEMMA NoColumns ==
  /\ Phrase(<<>>, <<>>).words = <<>> /\ Phrase(<<>>, <<>>).node = <<>>
  /\ <<>> \in Seq(Words) /\ Len(<<>>) = 0
BY DEF Phrase

LEMMA ColumnWords ==
  \A c \in ColumnPhrases : c.words \in Seq(Words) /\ Len(c.words) \in Nat
<1>1. IsPhrases(InParentheses(NameList))
  BY ListsArePhrases
<1>2. \A c \in InParentheses(NameList) : c.words \in Seq(Words) /\ Len(c.words) \in Nat
  BY <1>1, TextWords
<1> DEFINE none == Phrase(<<>>, <<>>)
<1>3. none.words \in Seq(Words) /\ Len(none.words) \in Nat
  BY NoColumns
<1>4. \A c \in ColumnPhrases : c = none \/ c \in InParentheses(NameList)
  BY DEF ColumnPhrases
<1> HIDE DEF none
<1> QED
  BY <1>2, <1>3, <1>4

LEMMA ColumnsMade ==
  ASSUME NEW txt \in Seq(Words), NEW i \in 1 .. Len(txt) + 1,
         NEW r \in OptionalColumns(Tokenize(txt), i)
  PROVE  /\ r.pos \in 1 .. Len(txt) + 1
         /\ \E c \in ColumnPhrases : /\ r.node = c.node /\ r.pos = i + Len(c.words)
                                     /\ Stands(txt, i, c.words)
<1> DEFINE ts == Tokenize(txt)
<1>1. CASE ~Is(ts, i, "(")
  <2> DEFINE c == Phrase(<<>>, <<>>)
  <2>1. r = Got(<<>>, i)
    BY <1>1 DEF OptionalColumns
  <2>2. r.node = <<>> /\ r.pos = i
    BY <2>1, GotParts
  <2>3. c.words = <<>> /\ c.node = <<>> /\ i = i + Len(<<>>) /\ c \in ColumnPhrases
    BY NoColumns DEF ColumnPhrases
  <2>4. Stands(txt, i, <<>>)
    BY NowhereText
  <2> HIDE DEF c
  <2> QED
    BY <2>2, <2>3, <2>4
<1>2. CASE Is(ts, i, "(")
  <2> DEFINE what == "name"
  <2>1. r \in Enclosed(what, Tokenize(txt), i) /\ what \in Whats
    BY <1>2, ListsArePhrases DEF OptionalColumns
  <2>2. InParentheses(Lists(Phrases(what))) \subseteq ColumnPhrases
    BY ListsArePhrases DEF ColumnPhrases
  <2> HIDE DEF what, ts
  <2>3. /\ r.pos \in 1 .. Len(txt) + 1
        /\ \E p \in InParentheses(Lists(Phrases(what))) :
               /\ r.node = p.node /\ r.pos = i + Len(p.words)
               /\ p.words \in Seq(Words) /\ Len(p.words) \in Nat /\ Stands(txt, i, p.words)
    BY <2>1, EnclosedMade
  <2> QED
    BY <2>2, <2>3
<1> QED
  BY <1>1, <1>2

LEMMA MakesColumns ==
  ASSUME NEW txt \in Seq(Words), NEW i \in 1 .. Len(txt) + 1, NEW c \in ColumnPhrases,
         Stands(txt, i, c.words), WordAt(txt, i + Len(c.words), "VALUES")
  PROVE  \E r \in OptionalColumns(Tokenize(txt), i) : r.node = c.node /\ r.pos = i + Len(c.words)
<1> DEFINE ts == Tokenize(txt)
<1>1. Is(ts, i, "(") <=> WordAt(txt, i, "(")
  <2>1. "(" \in Keywords \cup Symbols
    BY DEF Symbols
  <2> QED
    BY <2>1, TokenIs
<1>2. CASE c = Phrase(<<>>, <<>>)
  <2>1. c.words = <<>> /\ c.node = <<>> /\ i + Len(<<>>) = i /\ Len(<<>>) = 0
    BY <1>2, NoColumns
  <2>2. WordAt(txt, i, "VALUES")
    BY <2>1
  <2>3. ~WordAt(txt, i, "(")
    BY <2>2 DEF WordAt
  <2>4. Got(<<>>, i) \in OptionalColumns(ts, i)
    BY <1>1, <2>3 DEF OptionalColumns
  <2>5. Got(<<>>, i).node = <<>> /\ Got(<<>>, i).pos = i
    BY GotParts
  <2> QED
    BY <2>1, <2>4, <2>5
<1>3. CASE c \in InParentheses(NameList)
  <2>1. PICK p \in NameList : c = Parenthesized(p)
    BY <1>3 DEF InParentheses
  <2>2. WordAt(txt, i, "(")
    <3>1. IsPhrases(NameList)
      BY ListsArePhrases
    <3>2. IsText(p.words) /\ i \in Nat \ {0}
      BY <3>1 DEF IsPhrases
    <3> QED
      BY <2>1, <3>2, ParenthesizedStands
  <2> DEFINE what == "name"
  <2>3. what \in Whats /\ c \in InParentheses(Lists(Phrases(what)))
    BY <1>3, ListsArePhrases
  <2>4. OptionalColumns(ts, i) = Enclosed(what, Tokenize(txt), i)
    BY <1>1, <2>2 DEF OptionalColumns
  <2> HIDE DEF what, ts
  <2>5. Stands(txt, i, c.words)
    OBVIOUS
  <2>6. \E r \in Enclosed(what, Tokenize(txt), i) : r.node = c.node /\ r.pos = i + Len(c.words)
    BY ONLY txt \in Seq(Words), i \in 1 .. Len(txt) + 1, <2>3, <2>5, MakesEnclosed
  <2> QED
    BY <2>4, <2>6 DEF ts
<1> QED
  BY <1>2, <1>3 DEF ColumnPhrases

LEMMA InsertRead ==
  ASSUME NEW txt \in Seq(Words), WordAt(txt, 1, "INSERT")
  PROVE  LET made == ParseInsert(Tokenize(txt))
         IN  /\ \A r \in made : Meant(txt, 1, r, Inserts(Expressions), {})
             /\ Complete(txt, 1, made, Inserts(Expressions), {})
<1> DEFINE ts == Tokenize(txt)
           made == ParseInsert(ts)
           V == InParentheses(Lists(Expressions))
           O == OptionalColumns(ts, 4)
<1>1. {"INTO", "VALUES"} \subseteq Keywords \cup Symbols
  BY DEF Keywords
<1>2. /\ Is(ts, 2, "INTO") <=> WordAt(txt, 2, "INTO")
      /\ WordAt(txt, 2, "INTO") =>
           \A q : q \in Item("name", ts, 3) <=> \E t \in Names : WordAt(txt, 3, t) /\ q = Got(t, 4)
      /\ \A t : WordAt(txt, 2, "INTO") /\ WordAt(txt, 3, t) => 4 \in 1 .. Len(txt) + 1
  BY <1>1, TablePlace
<1>3. InParentheses(Lists(Phrases("expression"))) = V /\ "expression" \in Whats
  BY ListsArePhrases
<1>4. ASSUME 4 \in 1 .. Len(txt) + 1
      PROVE  /\ \A q \in O : q.pos \in 1 .. Len(txt) + 1
             /\ \A q \in O : \E c \in ColumnPhrases : /\ q.node = c.node /\ q.pos = 4 + Len(c.words)
                                                      /\ Stands(txt, 4, c.words)
             /\ \A c \in ColumnPhrases : Stands(txt, 4, c.words) /\ WordAt(txt, 4 + Len(c.words), "VALUES")
                  => \E q \in O : q.node = c.node /\ q.pos = 4 + Len(c.words)
             /\ \A columns : columns \in Expect(ts, O, "VALUES") <=>
                               \E q \in O : WordAt(txt, q.pos, "VALUES") /\ columns = Got(q.node, q.pos + 1)
  <2> DEFINE j == 4
  <2>1. j \in 1 .. Len(txt) + 1 /\ O = OptionalColumns(Tokenize(txt), j)
    BY <1>4
  <2> HIDE DEF j, O
  <2>2. /\ \A q \in O : q.pos \in 1 .. Len(txt) + 1
        /\ \A q \in O : \E c \in ColumnPhrases : /\ q.node = c.node /\ q.pos = j + Len(c.words)
                                                 /\ Stands(txt, j, c.words)
    BY <2>1, ColumnsMade
  <2>3. \A c \in ColumnPhrases : Stands(txt, j, c.words) /\ WordAt(txt, j + Len(c.words), "VALUES")
                  => \E q \in O : q.node = c.node /\ q.pos = j + Len(c.words)
    BY <2>1, MakesColumns
  <2>4. \A columns : columns \in Expect(ts, O, "VALUES") <=>
                       \E q \in O : WordAt(txt, q.pos, "VALUES") /\ columns = Got(q.node, q.pos + 1)
    BY <1>1, <2>2, ExpectRead
  <2> QED
    BY <2>2, <2>3, <2>4 DEF j
<1>5. ASSUME NEW r \in made
      PROVE  Meant(txt, 1, r, Inserts(Expressions), {})
  <2>1. WordAt(txt, 2, "INTO")
    BY <1>2, InsertIs
  <2>2. PICK table \in Item("name", ts, 3) :
          \E columns \in Expect(ts, OptionalColumns(ts, table.pos), "VALUES") :
          \E values \in Enclosed("expression", ts, columns.pos) :
             r = Got([type |-> "INSERT", table |-> table.node, columns |-> columns.node,
                      values |-> values.node], values.pos)
    BY InsertIs
  <2>3. PICK t \in Names : WordAt(txt, 3, t) /\ table = Got(t, 4)
    BY <1>2, <2>1
  <2>4. table.node = t /\ table.pos = 4 /\ 4 \in 1 .. Len(txt) + 1
    BY <1>2, <2>1, <2>3, GotParts
  <2>5. PICK columns \in Expect(ts, O, "VALUES") :
          \E values \in Enclosed("expression", ts, columns.pos) :
             r = Got([type |-> "INSERT", table |-> t, columns |-> columns.node,
                      values |-> values.node], values.pos)
    BY <2>2, <2>4
  <2>6. PICK q \in O : WordAt(txt, q.pos, "VALUES") /\ columns = Got(q.node, q.pos + 1)
    BY <1>4, <2>4
  <2>7. PICK c \in ColumnPhrases : q.node = c.node /\ q.pos = 4 + Len(c.words) /\ Stands(txt, 4, c.words)
    BY <1>4, <2>4
  <2>8. c.words \in Seq(Words) /\ Len(c.words) \in Nat
    BY ColumnWords
  <2> DEFINE k == 4 + Len(c.words)
             j == k + 1
  <2>9. /\ columns.node = c.node /\ columns.pos = j /\ WordAt(txt, k, "VALUES") /\ k \in Nat \ {0}
    BY <2>6, <2>7, <2>8, GotParts
  <2>10. PICK values \in Enclosed("expression", ts, j) :
             r = Got([type |-> "INSERT", table |-> t, columns |-> c.node,
                      values |-> values.node], values.pos)
    BY <2>5, <2>9
  <2>11. j \in 1 .. Len(txt) + 1
    <3> HIDE DEF k
    <3> QED
      BY <2>9, WordPlace
  <2>12. PICK v \in V : /\ values.node = v.node /\ values.pos = j + Len(v.words)
                        /\ v.words \in Seq(Words) /\ Len(v.words) \in Nat /\ Stands(txt, j, v.words)
    <3> DEFINE what == "expression"
    <3>1. what \in Whats /\ values \in Enclosed(what, Tokenize(txt), j)
      BY <1>3
    <3> HIDE DEF j, k, what
    <3>2. \E p \in InParentheses(Lists(Phrases(what))) :
               /\ values.node = p.node /\ values.pos = j + Len(p.words)
               /\ p.words \in Seq(Words) /\ Len(p.words) \in Nat /\ Stands(txt, j, p.words)
      BY <2>11, <3>1, EnclosedMade
    <3> QED
      BY <1>3, <3>2 DEF what
  <2> DEFINE s == Insert(t, c, v)
  <2>13. /\ s.node = [type |-> "INSERT", table |-> t, columns |-> c.node, values |-> v.node]
         /\ s.words \in Seq(Words) /\ 1 + Len(s.words) = k + 1 + Len(v.words)
         /\ Stands(txt, 1, s.words) <=>
              /\ WordAt(txt, 1, "INSERT") /\ WordAt(txt, 2, "INTO") /\ WordAt(txt, 3, t)
              /\ Stands(txt, 4, c.words) /\ WordAt(txt, k, "VALUES")
              /\ Stands(txt, k + 1, v.words)
    BY <2>8, <2>12, InsertText
  <2>14. r = Got(s.node, 1 + Len(s.words)) /\ Stands(txt, 1, s.words)
    BY <2>1, <2>3, <2>7, <2>9, <2>10, <2>12, <2>13
  <2>15. s \in Inserts(Expressions)
    <3> HIDE DEF V
    <3>1. Inserts(Expressions) = {Insert(a, b, d) : a \in Names, b \in ColumnPhrases, d \in V}
      BY DEF Inserts, ColumnPhrases, V
    <3> QED
      BY <3>1
  <2> HIDE DEF s
  <2> QED
    BY <2>14, <2>15 DEF Meant, Behind
<1>6. ASSUME NEW t \in Names, NEW c \in ColumnPhrases, NEW v \in V,
             Stands(txt, 1, Insert(t, c, v).words), NEW n, n = 1 + Len(Insert(t, c, v).words)
      PROVE  Got(Insert(t, c, v).node, n) \in made
  <2> DEFINE s == Insert(t, c, v)
             k == 4 + Len(c.words)
             j == k + 1
  <2>1. c.words \in Seq(Words) /\ Len(c.words) \in Nat
    BY ColumnWords
  <2>2. v.words \in Seq(Words) /\ Len(v.words) \in Nat
    <3>1. IsPhrases(V)
      BY <1>3, ListsArePhrases
    <3> QED
      BY <3>1, TextWords
  <2>3. /\ s.node = [type |-> "INSERT", table |-> t, columns |-> c.node, values |-> v.node]
        /\ s.words \in Seq(Words) /\ 1 + Len(s.words) = k + 1 + Len(v.words)
        /\ Stands(txt, 1, s.words) <=>
             /\ WordAt(txt, 1, "INSERT") /\ WordAt(txt, 2, "INTO") /\ WordAt(txt, 3, t)
             /\ Stands(txt, 4, c.words) /\ WordAt(txt, k, "VALUES")
             /\ Stands(txt, k + 1, v.words)
    BY <2>1, <2>2, InsertText
  <2>4. /\ n = j + Len(v.words) /\ WordAt(txt, 2, "INTO") /\ WordAt(txt, 3, t)
        /\ Stands(txt, 4, c.words) /\ WordAt(txt, k, "VALUES") /\ Stands(txt, j, v.words)
    BY <1>6, <2>3
  <2> HIDE DEF s
  <2>5. 4 \in 1 .. Len(txt) + 1 /\ k \in Nat \ {0}
    BY <1>2, <2>1, <2>4
  <2>6. PICK q \in O : q.node = c.node /\ q.pos = k
    BY <1>4, <2>4, <2>5
  <2> DEFINE columns == Got(q.node, q.pos + 1)
             table == Got(t, 4)
  <2>7. columns \in Expect(ts, O, "VALUES") /\ columns.node = c.node /\ columns.pos = j
    BY <1>4, <2>4, <2>5, <2>6, GotParts
  <2>8. table \in Item("name", ts, 3) /\ table.node = t /\ table.pos = 4
    BY <1>2, <2>4, GotParts
  <2> HIDE DEF columns, table
  <2>9. PICK values \in Enclosed("expression", ts, j) : values.node = v.node /\ values.pos = n
    <3> DEFINE what == "expression"
    <3>1. /\ what \in Whats /\ v \in InParentheses(Lists(Phrases(what))) /\ Stands(txt, j, v.words)
          /\ n = j + Len(v.words)
      BY <1>3, <2>4
    <3>2. j \in 1 .. Len(txt) + 1
      <4> HIDE DEF k
      <4> QED
        BY <2>4, <2>5, WordPlace
    <3> HIDE DEF j, k, what
    <3>3. \E r \in Enclosed(what, Tokenize(txt), j) : r.node = v.node /\ r.pos = j + Len(v.words)
      BY <3>1, <3>2, MakesEnclosed
    <3> QED
      BY <3>1, <3>3 DEF what
  <2>10. /\ Got(s.node, n) = Got([type |-> "INSERT", table |-> table.node, columns |-> columns.node,
                                  values |-> values.node], values.pos)
         /\ values \in Enclosed("expression", ts, columns.pos)
         /\ columns \in Expect(ts, OptionalColumns(ts, table.pos), "VALUES")
    BY <2>3, <2>7, <2>8, <2>9
  <2> QED
    BY <1>2, <2>4, <2>8, <2>10, InsertIs DEF s
<1>7. Complete(txt, 1, made, Inserts(Expressions), {})
  <2> HIDE DEF made
  <2>1. \A s \in Inserts(Expressions) :
            \E t \in Names, c \in ColumnPhrases, v \in V : s = Insert(t, c, v)
    BY DEF Inserts, ColumnPhrases
  <2> SUFFICES ASSUME NEW s \in Inserts(Expressions), Stands(txt, 1, s.words)
               PROVE  Got(s.node, 1 + Len(s.words)) \in made
    BY DEF Complete
  <2> QED
    BY <1>6, <2>1
<1> QED
  BY <1>5, <1>7
-----------------------------------------------------------------------------
(* Whole texts.                                                             *)

LEMMA Openings ==
  ASSUME NEW txt \in Seq(Words)
  PROVE  /\ \A p \in Selects(Expressions, Conditions(Expressions))
                    \cup Selects(Expressions, {Nowhere}) :
              p.words \in Seq(Words) /\ (Stands(txt, 1, p.words) => WordAt(txt, 1, "SELECT"))
         /\ \A p \in Inserts(Expressions) :
              p.words \in Seq(Words) /\ (Stands(txt, 1, p.words) => WordAt(txt, 1, "INSERT"))
         /\ \A p \in Updates(Expressions, Conditions(Expressions))
                    \cup Updates(Expressions, {Nowhere}) :
              p.words \in Seq(Words) /\ (Stands(txt, 1, p.words) => WordAt(txt, 1, "UPDATE"))
         /\ \A p \in Deletes(Conditions(Expressions)) \cup Deletes({Nowhere}) :
              p.words \in Seq(Words) /\ (Stands(txt, 1, p.words) => WordAt(txt, 1, "DELETE"))
         /\ \A p \in Creates :
              p.words \in Seq(Words) /\ (Stands(txt, 1, p.words) => WordAt(txt, 1, "CREATE"))
<1> DEFINE W == Conditions(Expressions) \cup {Nowhere}
<1>1. \A w \in W : w.words \in Seq(Words)
  <2>1. 1 \in Nat \ {0}
    OBVIOUS
  <2> QED
    BY <2>1, ConditionWords
<1>2. \A what \in Whats : /\ \A p \in Lists(Phrases(what)) : p.words \in Seq(Words)
                          /\ \A p \in InParentheses(Lists(Phrases(what))) : p.words \in Seq(Words)
  BY ListsArePhrases, TextWords
<1>3. /\ \A p \in Lists(Projection(Expressions)) : p.words \in Seq(Words)
      /\ \A p \in NameList : p.words \in Seq(Words)
      /\ \A p \in Lists(Assignments(Expressions)) : p.words \in Seq(Words)
      /\ \A p \in InParentheses(Lists(Expressions)) : p.words \in Seq(Words)
      /\ \A p \in InParentheses(Lists(Definitions)) : p.words \in Seq(Words)
  BY <1>2, ListsArePhrases
<1>4. \A p \in Selects(Expressions, Conditions(Expressions)) \cup Selects(Expressions, {Nowhere}) :
        \E l \in Lists(Projection(Expressions)), f \in NameList, w \in W : p = Select(l, f, w)
  BY DEF Selects
<1>5. \A p \in Updates(Expressions, Conditions(Expressions)) \cup Updates(Expressions, {Nowhere}) :
        \E t \in Names, a \in Lists(Assignments(Expressions)), w \in W : p = Update(t, a, w)
  BY DEF Updates
<1>6. \A p \in Deletes(Conditions(Expressions)) \cup Deletes({Nowhere}) :
        \E t \in Names, w \in W : p = Delete(t, w)
  BY DEF Deletes
<1>7. \A p \in Inserts(Expressions) :
        \E t \in Names, c \in ColumnPhrases, v \in InParentheses(Lists(Expressions)) : p = Insert(t, c, v)
  BY DEF Inserts, ColumnPhrases
<1>8. \A p \in Creates : \E t \in Names, c \in InParentheses(Lists(Definitions)) : p = Create(t, c)
  BY DEF Creates
<1> HIDE DEF W
<1>9. ASSUME NEW l \in Lists(Projection(Expressions)), NEW f \in NameList, NEW w \in W,
             NEW p, p = Select(l, f, w)
      PROVE  p.words \in Seq(Words) /\ (Stands(txt, 1, p.words) => WordAt(txt, 1, "SELECT"))
  BY <1>1, <1>3, <1>9, SelectText
<1>10. ASSUME NEW t \in Names, NEW a \in Lists(Assignments(Expressions)),
              NEW w \in W, NEW p, p = Update(t, a, w)
       PROVE  p.words \in Seq(Words) /\ (Stands(txt, 1, p.words) => WordAt(txt, 1, "UPDATE"))
  BY <1>1, <1>3, <1>10, UpdateText
<1>11. ASSUME NEW t \in Names, NEW w \in W, NEW p, p = Delete(t, w)
       PROVE  p.words \in Seq(Words) /\ (Stands(txt, 1, p.words) => WordAt(txt, 1, "DELETE"))
  BY <1>1, <1>11, DeleteText
<1>12. ASSUME NEW t \in Names, NEW c \in ColumnPhrases, NEW v \in InParentheses(Lists(Expressions)),
              NEW p, p = Insert(t, c, v)
       PROVE  p.words \in Seq(Words) /\ (Stands(txt, 1, p.words) => WordAt(txt, 1, "INSERT"))
  BY <1>3, <1>12, ColumnWords, InsertText
<1>13. ASSUME NEW t \in Names, NEW c \in InParentheses(Lists(Definitions)), NEW p, p = Create(t, c)
       PROVE  p.words \in Seq(Words) /\ (Stands(txt, 1, p.words) => WordAt(txt, 1, "CREATE"))
  BY <1>3, <1>13, CreateText
<1> QED
  BY <1>4, <1>5, <1>6, <1>7, <1>8, <1>9, <1>10, <1>11, <1>12, <1>13

LEMMA CommandText ==
  ASSUME NEW txt \in Seq(Words), NEW w \in {"BEGIN", "COMMIT"}
  PROVE  LET p == Command(w)
         IN  /\ p.words = <<w>> /\ p.node = [type |-> w]
             /\ p.words \in Seq(Words) /\ 1 + Len(p.words) = 2
             /\ Stands(txt, 1, p.words) <=> WordAt(txt, 1, w)
<1>1. Command(w).words = <<w>> /\ Command(w).node = [type |-> w]
  BY DEF Command, Phrase
<1>2. w \in Words /\ 1 \in Nat \ {0}
  BY DEF Words, Keywords
<1>3. <<w>> \in Seq(Words) /\ Len(<<w>>) = 1
  BY <1>2, OneWord
<1>4. Stands(txt, 1, <<w>>) <=> WordAt(txt, 1, w)
  BY <1>2, StandsOne DEF WordAt
<1> QED
  BY <1>1, <1>3, <1>4

\* Sound and complete for a union.
LEMMA MeantUnion ==
  ASSUME NEW txt, NEW i, NEW G, NEW H, NEW more
  PROVE  /\ \A r : Meant(txt, i, r, G \cup H, more) <=> Meant(txt, i, r, G, more) \/ Meant(txt, i, r, H, more)
         /\ \A r, made : Meant(txt, i, r, G, more) /\ Complete(txt, i, made, G, more) => r \in made
<1>1. \A r : Meant(txt, i, r, G \cup H, more) <=> Meant(txt, i, r, G, more) \/ Meant(txt, i, r, H, more)
  BY DEF Meant
<1>2. \A r, made : Meant(txt, i, r, G, more) /\ Complete(txt, i, made, G, more) => r \in made
  BY DEF Meant, Complete
<1> QED
  BY <1>1, <1>2
\* r is what a text means up to where Sql lets a tail begin.
ReadAs(txt, r) ==
  \/ Meant(txt, 1, r, Inserts(Expressions) \cup Creates \cup Commands, {})
  \/ Meant(txt, 1, r, Selects(Expressions, Conditions(Expressions))
                          \cup Updates(Expressions, Conditions(Expressions))
                          \cup Deletes(Conditions(Expressions)), Operators)
  \/ Meant(txt, 1, r, Selects(Expressions, {Nowhere}), {",", "WHERE"})
  \/ Meant(txt, 1, r, Updates(Expressions, {Nowhere}), Operators \cup {",", "WHERE"})
  \/ Meant(txt, 1, r, Deletes({Nowhere}), {"WHERE"})

LEMMA StatementRead ==
  ASSUME NEW txt \in Seq(Words), NEW r
  PROVE  r \in ParseStatement(Tokenize(txt)) <=> ReadAs(txt, r)
<1> DEFINE ts == Tokenize(txt)
           made == ParseStatement(ts)
           M1 == {",", "WHERE"}
           M2 == Operators \cup {",", "WHERE"}
           M3 == {"WHERE"}
           SC == Selects(Expressions, Conditions(Expressions))
           UC == Updates(Expressions, Conditions(Expressions))
           DC == Deletes(Conditions(Expressions))
           SN == Selects(Expressions, {Nowhere})
           UN == Updates(Expressions, {Nowhere})
           DN == Deletes({Nowhere})
<1>1. /\ WordAt(txt, 1, "SELECT") => made = ParseSelect(ts)
      /\ WordAt(txt, 1, "INSERT") => made = ParseInsert(ts)
      /\ WordAt(txt, 1, "UPDATE") => made = ParseUpdate(ts)
      /\ WordAt(txt, 1, "DELETE") => made = ParseDelete(ts)
      /\ WordAt(txt, 1, "CREATE") => made = ParseCreate(ts)
      /\ \A w \in {"BEGIN", "COMMIT"} : WordAt(txt, 1, w) => made = {Got([type |-> w], 2)}
      /\ made # {} => \E w \in {"SELECT", "INSERT", "UPDATE", "DELETE", "CREATE", "BEGIN", "COMMIT"} :
                         WordAt(txt, 1, w)
  BY StatementIs
<1>2. ReadAs(txt, r) <=>
        \/ Meant(txt, 1, r, Inserts(Expressions), {}) \/ Meant(txt, 1, r, Creates, {})
        \/ Meant(txt, 1, r, Commands, {})
        \/ Meant(txt, 1, r, SC, Operators) \/ Meant(txt, 1, r, UC, Operators)
        \/ Meant(txt, 1, r, DC, Operators)
        \/ Meant(txt, 1, r, SN, M1) \/ Meant(txt, 1, r, UN, M2) \/ Meant(txt, 1, r, DN, M3)
  <2>1. /\ Meant(txt, 1, r, Inserts(Expressions) \cup Creates \cup Commands, {}) <=>
             \/ Meant(txt, 1, r, Inserts(Expressions) \cup Creates, {})
             \/ Meant(txt, 1, r, Commands, {})
        /\ Meant(txt, 1, r, Inserts(Expressions) \cup Creates, {}) <=>
             \/ Meant(txt, 1, r, Inserts(Expressions), {}) \/ Meant(txt, 1, r, Creates, {})
    BY MeantUnion
  <2> HIDE DEF SC, UC, DC
  <2>2. /\ Meant(txt, 1, r, SC \cup UC \cup DC, Operators) <=>
             \/ Meant(txt, 1, r, SC \cup UC, Operators) \/ Meant(txt, 1, r, DC, Operators)
        /\ Meant(txt, 1, r, SC \cup UC, Operators) <=>
             \/ Meant(txt, 1, r, SC, Operators) \/ Meant(txt, 1, r, UC, Operators)
    BY MeantUnion
  <2>3. ReadAs(txt, r) <=>
          \/ Meant(txt, 1, r, Inserts(Expressions) \cup Creates \cup Commands, {})
          \/ Meant(txt, 1, r, SC \cup UC \cup DC, Operators)
          \/ Meant(txt, 1, r, SN, M1) \/ Meant(txt, 1, r, UN, M2) \/ Meant(txt, 1, r, DN, M3)
    BY DEF ReadAs, SC, UC, DC
  <2> QED
    BY <2>1, <2>2, <2>3
<1>3. WordAt(txt, 1, "SELECT") =>
        /\ r \in ParseSelect(ts) => Meant(txt, 1, r, SC, Operators) \/ Meant(txt, 1, r, SN, M1)
        /\ Complete(txt, 1, ParseSelect(ts), SC, Operators) /\ Complete(txt, 1, ParseSelect(ts), SN, M1)
  BY SelectRead
<1>4. WordAt(txt, 1, "UPDATE") =>
        /\ r \in ParseUpdate(ts) => Meant(txt, 1, r, UC, Operators) \/ Meant(txt, 1, r, UN, M2)
        /\ Complete(txt, 1, ParseUpdate(ts), UC, Operators) /\ Complete(txt, 1, ParseUpdate(ts), UN, M2)
  BY UpdateRead
<1>5. WordAt(txt, 1, "DELETE") =>
        /\ r \in ParseDelete(ts) => Meant(txt, 1, r, DC, Operators) \/ Meant(txt, 1, r, DN, M3)
        /\ Complete(txt, 1, ParseDelete(ts), DC, Operators) /\ Complete(txt, 1, ParseDelete(ts), DN, M3)
  BY DeleteRead
<1>6. WordAt(txt, 1, "INSERT") =>
        /\ r \in ParseInsert(ts) => Meant(txt, 1, r, Inserts(Expressions), {})
        /\ Complete(txt, 1, ParseInsert(ts), Inserts(Expressions), {})
  BY InsertRead
<1>7. WordAt(txt, 1, "CREATE") =>
        /\ r \in ParseCreate(ts) => Meant(txt, 1, r, Creates, {})
        /\ Complete(txt, 1, ParseCreate(ts), Creates, {})
  BY CreateRead
<1>8. \A w \in {"BEGIN", "COMMIT"} : WordAt(txt, 1, w) =>
        /\ r = Got([type |-> w], 2) => Meant(txt, 1, r, Commands, {})
        /\ Command(w).node = [type |-> w] /\ 1 + Len(Command(w).words) = 2
  <2> SUFFICES ASSUME NEW w \in {"BEGIN", "COMMIT"}, WordAt(txt, 1, w)
               PROVE  /\ r = Got([type |-> w], 2) => Meant(txt, 1, r, Commands, {})
                      /\ Command(w).node = [type |-> w] /\ 1 + Len(Command(w).words) = 2
    OBVIOUS
  <2> DEFINE p == Command(w)
  <2>1. p \in Commands
    BY DEF Commands
  <2>2. p.node = [type |-> w] /\ 1 + Len(p.words) = 2 /\ Stands(txt, 1, p.words)
    BY CommandText
  <2> HIDE DEF p
  <2>3. r = Got([type |-> w], 2) => Meant(txt, 1, r, Commands, {})
    BY <2>1, <2>2 DEF Meant, Behind
  <2> QED
    BY <2>2, <2>3 DEF p
<1>9. ASSUME Meant(txt, 1, r, Commands, {})
      PROVE  \E w \in {"BEGIN", "COMMIT"} : WordAt(txt, 1, w) /\ r = Got([type |-> w], 2)
  <2>1. PICK p \in Commands : r = Got(p.node, 1 + Len(p.words)) /\ Stands(txt, 1, p.words)
    BY <1>9 DEF Meant
  <2>2. PICK w \in {"BEGIN", "COMMIT"} : p = Command(w)
    BY DEF Commands
  <2>3. p.node = [type |-> w] /\ 1 + Len(p.words) = 2 /\ WordAt(txt, 1, w)
    BY <2>1, <2>2, CommandText
  <2> QED
    BY <2>1, <2>3
<1>10. /\ \A p \in SC \cup SN : Stands(txt, 1, p.words) => WordAt(txt, 1, "SELECT")
       /\ \A p \in Inserts(Expressions) : Stands(txt, 1, p.words) => WordAt(txt, 1, "INSERT")
       /\ \A p \in UC \cup UN : Stands(txt, 1, p.words) => WordAt(txt, 1, "UPDATE")
       /\ \A p \in DC \cup DN : Stands(txt, 1, p.words) => WordAt(txt, 1, "DELETE")
       /\ \A p \in Creates : Stands(txt, 1, p.words) => WordAt(txt, 1, "CREATE")
  BY Openings
<1> HIDE DEF ts, made, M1, M2, M3, SC, UC, DC, SN, UN, DN
<1>11. ASSUME r \in made PROVE ReadAs(txt, r)
  <2>1. PICK w \in {"SELECT", "INSERT", "UPDATE", "DELETE", "CREATE", "BEGIN", "COMMIT"} : WordAt(txt, 1, w)
    BY <1>1, <1>11
  <2>2. CASE WordAt(txt, 1, "SELECT")
    BY <1>1, <1>2, <1>3, <1>11, <2>2
  <2>3. CASE WordAt(txt, 1, "INSERT")
    BY <1>1, <1>2, <1>6, <1>11, <2>3
  <2>4. CASE WordAt(txt, 1, "UPDATE")
    BY <1>1, <1>2, <1>4, <1>11, <2>4
  <2>5. CASE WordAt(txt, 1, "DELETE")
    BY <1>1, <1>2, <1>5, <1>11, <2>5
  <2>6. CASE WordAt(txt, 1, "CREATE")
    BY <1>1, <1>2, <1>7, <1>11, <2>6
  <2>7. CASE w \in {"BEGIN", "COMMIT"}
    <3>1. r = Got([type |-> w], 2)
      BY <1>1, <1>11, <2>1, <2>7
    <3> QED
      BY <1>2, <1>8, <2>1, <2>7, <3>1
  <2> QED
    BY <2>1, <2>2, <2>3, <2>4, <2>5, <2>6, <2>7
<1>12. ASSUME ReadAs(txt, r) PROVE r \in made
  <2>1. CASE Meant(txt, 1, r, Inserts(Expressions), {})
    <3>1. WordAt(txt, 1, "INSERT")
      BY <1>10, <2>1 DEF Meant
    <3> QED
      BY <1>1, <1>6, <2>1, <3>1, MeantUnion
  <2>2. CASE Meant(txt, 1, r, Creates, {})
    <3>1. WordAt(txt, 1, "CREATE")
      BY <1>10, <2>2 DEF Meant
    <3> QED
      BY <1>1, <1>7, <2>2, <3>1, MeantUnion
  <2>3. CASE Meant(txt, 1, r, Commands, {})
    BY <1>1, <1>9, <2>3
  <2>4. CASE Meant(txt, 1, r, SC, Operators)
    <3>1. WordAt(txt, 1, "SELECT")
      BY <1>10, <2>4 DEF Meant
    <3> QED
      BY <1>1, <1>3, <2>4, <3>1, MeantUnion
  <2>5. CASE Meant(txt, 1, r, UC, Operators)
    <3>1. WordAt(txt, 1, "UPDATE")
      BY <1>10, <2>5 DEF Meant
    <3> QED
      BY <1>1, <1>4, <2>5, <3>1, MeantUnion
  <2>6. CASE Meant(txt, 1, r, DC, Operators)
    <3>1. WordAt(txt, 1, "DELETE")
      BY <1>10, <2>6 DEF Meant
    <3> QED
      BY <1>1, <1>5, <2>6, <3>1, MeantUnion
  <2>7. CASE Meant(txt, 1, r, SN, M1)
    <3>1. WordAt(txt, 1, "SELECT")
      BY <1>10, <2>7 DEF Meant
    <3> QED
      BY <1>1, <1>3, <2>7, <3>1, MeantUnion
  <2>8. CASE Meant(txt, 1, r, UN, M2)
    <3>1. WordAt(txt, 1, "UPDATE")
      BY <1>10, <2>8 DEF Meant
    <3> QED
      BY <1>1, <1>4, <2>8, <3>1, MeantUnion
  <2>9. CASE Meant(txt, 1, r, DN, M3)
    <3>1. WordAt(txt, 1, "DELETE")
      BY <1>10, <2>9 DEF Meant
    <3> QED
      BY <1>1, <1>5, <2>9, <3>1, MeantUnion
  <2> QED
    BY <1>2, <1>12, <2>1, <2>2, <2>3, <2>4, <2>5, <2>6, <2>7, <2>8, <2>9
<1> QED
  BY <1>11, <1>12 DEF made, ts

LEMMA FollowedMeant ==
  ASSUME NEW txt \in Seq(Words), NEW G, \A p \in G : p.words \in Seq(Words), NEW more, NEW n
  PROVE  Phrase(txt, n) \in Followed(G, more) <=> \E r : Meant(txt, 1, r, G, more) /\ r.node = n
<1>1. ASSUME NEW p \in G, NEW t \in Tails(more), Phrase(txt, n) = Phrase(p.words \o t, p.node)
      PROVE  \E r : Meant(txt, 1, r, G, more) /\ r.node = n
  <2> DEFINE u == p.words
  <2>1. txt = u \o t /\ n = p.node
    <3>1. /\ Phrase(txt, n).words = txt /\ Phrase(txt, n).node = n
          /\ Phrase(u \o t, p.node).words = u \o t /\ Phrase(u \o t, p.node).node = p.node
      BY PhraseParts
    <3> QED
      BY <1>1, <3>1
  <2>2. u \in Seq(Words) /\ t \in Seq(Words) /\ (t = <<>> \/ t[1] \notin more)
    BY DEF Tails
  <2> HIDE DEF u
  <2>3. /\ Len(txt) = Len(u) + Len(t) /\ Len(u) \in Nat /\ Len(t) \in Nat
        /\ \A i \in 1 .. Len(u) + Len(t) : txt[i] = IF i <= Len(u) THEN u[i] ELSE t[i - Len(u)]
    BY <2>1, <2>2, ConcatWords
  <2>4. Stands(txt, 1, u)
    BY <2>3 DEF Stands
  <2>5. ~Behind(txt, 1 + Len(u), more)
    <3>1. ASSUME 1 + Len(u) <= Len(txt) PROVE txt[1 + Len(u)] \notin more
      <4>1. Len(t) > 0 /\ 1 + Len(u) \in 1 .. Len(u) + Len(t) /\ ~(1 + Len(u) <= Len(u))
            /\ (1 + Len(u)) - Len(u) = 1
        BY <2>3, <3>1
      <4>2. txt[1 + Len(u)] = t[1]
        BY <2>3, <4>1
      <4>3. t # <<>>
        BY <4>1
      <4> QED
        BY <2>2, <4>2, <4>3
    <3> QED
      BY <3>1 DEF Behind, WordAt
  <2> DEFINE r == Got(p.node, 1 + Len(u))
  <2>6. r.node = n
    BY <2>1, GotParts
  <2>7. Meant(txt, 1, r, G, more)
    BY <2>4, <2>5 DEF Meant, u
  <2> QED
    BY <2>6, <2>7
<1>2. ASSUME NEW r, Meant(txt, 1, r, G, more), r.node = n
      PROVE  Phrase(txt, n) \in Followed(G, more)
  <2>1. PICK p \in G : /\ r = Got(p.node, 1 + Len(p.words)) /\ Stands(txt, 1, p.words)
                       /\ ~Behind(txt, 1 + Len(p.words), more)
    BY <1>2 DEF Meant
  <2> DEFINE u == p.words
             a == Len(u)
             l == Len(txt)
             t == SubSeq(txt, a + 1, l)
  <2>2. u \in Seq(Words) /\ a \in Nat /\ l \in Nat /\ n = p.node
    BY <1>2, <2>1, GotParts
  <2>3. a <= l /\ \A j \in 1 .. a : txt[j] = u[j]
    <3>1. 1 + a <= l + 1 /\ \A j \in 1 .. a : txt[1 + j - 1] = u[j]
      BY <2>1 DEF Stands
    <3>2. \A j \in 1 .. a : 1 + j - 1 = j
      BY <2>2
    <3> QED
      BY <2>2, <3>1, <3>2
  <2> HIDE DEF a, l
  <2>4. t \in Seq(Words) /\ Len(t) = l - a /\ \A j \in 1 .. l - a : t[j] = txt[a + j]
    <3>1. \A j \in a + 1 .. l : txt[j] \in Words
      BY <2>2, <2>3 DEF l
    <3>2. a + 1 \in Nat /\ l \in Nat /\ a + 1 <= l + 1
      BY <2>2, <2>3
    <3> QED
      BY <2>2, <2>3, <3>1, <3>2
  <2> HIDE DEF u, t
  <2>5. txt = u \o t
    <3> DEFINE w == u \o t
    <3>1. /\ w \in Seq(Words) /\ Len(w) = a + (l - a)
          /\ \A i \in 1 .. a + (l - a) : w[i] = IF i <= a THEN u[i] ELSE t[i - a]
      BY <2>2, <2>4, ConcatWords DEF a
    <3>2. a + (l - a) = l
      BY <2>2
    <3> HIDE DEF w
    <3>3. \A i \in 1 .. l : w[i] = txt[i]
      <4> SUFFICES ASSUME NEW i \in 1 .. l PROVE w[i] = txt[i]
        OBVIOUS
      <4>1. CASE i <= a
        <5>1. i \in 1 .. a
          BY <2>2, <4>1
        <5> QED
          BY <2>3, <3>1, <3>2, <4>1, <5>1
      <4>2. CASE ~(i <= a)
        <5>1. i - a \in 1 .. l - a /\ a + (i - a) = i
          BY <2>2, <4>2
        <5>2. w[i] = t[i - a] /\ t[i - a] = txt[i]
          BY <2>4, <3>1, <3>2, <4>2, <5>1
        <5> QED
          BY <5>2
      <4> QED
        BY <4>1, <4>2
    <3>4. Len(w) = Len(txt)
      BY <3>1, <3>2 DEF l
    <3>5. w = txt
      BY <3>1, <3>3, <3>4 DEF l
    <3> QED
      BY <3>5 DEF w
  <2>6. t \in Tails(more)
    <3>1. ASSUME t # <<>> PROVE t[1] \notin more
      <4>1. Len(t) > 0
        BY <2>4, <3>1
      <4>2. 1 \in 1 .. l - a /\ t[1] = txt[a + 1] /\ 1 + a <= l /\ a + 1 = 1 + a
        BY <2>2, <2>4, <4>1
      <4>3. \A x \in more : ~WordAt(txt, 1 + a, x)
        BY <2>1 DEF Behind, a, u
      <4>4. WordAt(txt, 1 + a, txt[1 + a])
        BY <4>2 DEF WordAt, l
      <4> QED
        BY <4>2, <4>3, <4>4
    <3> QED
      BY <2>4, <3>1 DEF Tails
  <2>7. Phrase(txt, n) = Phrase(p.words \o t, p.node)
    BY <2>2, <2>5 DEF u
  <2> QED
    BY <2>6, <2>7 DEF Followed
<1>3. Phrase(txt, n) \in Followed(G, more) =>
        \E p \in G, t \in Tails(more) : Phrase(txt, n) = Phrase(p.words \o t, p.node)
  BY DEF Followed
<1> QED
  BY <1>1, <1>2, <1>3
\* At most one.
One(made) == \A q \in made : \A r \in made : q = r

LEMMA OneItem ==
  ASSUME NEW txt \in Seq(Words), NEW what \in Whats, NEW i \in 1 .. Len(txt) + 1
  PROVE  LET ts == Tokenize(txt)
         IN  /\ One(Item(what, ts, i)) /\ One(Items(what, ts)[i]) /\ One(ParseExpression(ts)[i])
             /\ \A r \in Items(what, ts)[i] : r.pos \in 1 .. Len(txt) + 1
             /\ \A r \in Item(what, ts, i) : r.pos \in 1 .. Len(txt) + 1
<1> DEFINE ts == Tokenize(txt)
<1>1. Ending(ts) /\ Len(ts) = Len(txt) + 1 /\ Len(txt) \in Nat
  BY TextEnds
<1>2. i \in 1 .. Len(ts) /\ i \in Nat
  BY <1>1
<1> HIDE DEF ts
<1>3. Made(ts, Item(what, ts, i), i) /\ Made(ts, Items(what, ts)[i], i) /\ Made(ts, ParseExpression(ts)[i], i)
  BY <1>1, <1>2, ItemMade, ItemsIs, ExpressionIs
<1>4. \A made : Made(ts, made, i) => One(made) /\ \A r \in made : r.pos \in 1 .. Len(txt) + 1
  <2> SUFFICES ASSUME NEW made, Made(ts, made, i)
               PROVE  One(made) /\ \A r \in made : r.pos \in 1 .. Len(txt) + 1
    OBVIOUS
  <2>1. One(made)
    BY DEF Made, One
  <2>2. \A r \in made : r.pos \in i + 1 .. Len(ts)
    BY DEF Made
  <2> QED
    BY <1>1, <1>2, <2>1, <2>2
<1> QED
  BY <1>3, <1>4 DEF ts

LEMMA OneExpect ==
  ASSUME NEW txt \in Seq(Words), NEW made, One(made), \A q \in made : q.pos \in 1 .. Len(txt) + 1,
         NEW w \in Keywords \cup Symbols
  PROVE  LET after == Expect(Tokenize(txt), made, w)
         IN  One(after) /\ \A r \in after : r.pos \in 1 .. Len(txt) + 1
<1> DEFINE after == Expect(Tokenize(txt), made, w)
<1>1. \A r : r \in after <=> \E q \in made : WordAt(txt, q.pos, w) /\ r = Got(q.node, q.pos + 1)
  BY ExpectRead
<1> HIDE DEF after
<1>2. One(after)
  BY <1>1 DEF One
<1>3. ASSUME NEW r \in after PROVE r.pos \in 1 .. Len(txt) + 1
  <2>1. PICK q \in made : WordAt(txt, q.pos, w) /\ r = Got(q.node, q.pos + 1)
    BY <1>1
  <2> DEFINE k == q.pos
  <2>2. k \in Nat \ {0} /\ WordAt(txt, k, w) /\ r.pos = k + 1
    BY <2>1, GotParts
  <2> HIDE DEF k
  <2>3. k + 1 \in 1 .. Len(txt) + 1
    BY <2>2, WordPlace
  <2> QED
    BY <2>2, <2>3
<1> QED
  BY <1>2, <1>3 DEF after

LEMMA OneEnclosed ==
  ASSUME NEW txt \in Seq(Words), NEW what \in Whats, NEW i \in 1 .. Len(txt) + 1
  PROVE  One(Enclosed(what, Tokenize(txt), i))
<1> DEFINE ts == Tokenize(txt)
           made == Items(what, ts)[i + 1]
<1>1. CASE Is(ts, i, "(")
  <2>1. "(" \in Keywords \cup Symbols /\ ")" \in Keywords \cup Symbols
    BY DEF Symbols
  <2>2. WordAt(txt, i, "(")
    BY <1>1, <2>1, TokenIs
  <2>3. i + 1 \in 1 .. Len(txt) + 1
    BY <2>2, WordPlace
  <2>4. One(made) /\ \A r \in made : r.pos \in 1 .. Len(txt) + 1
    BY <2>3, OneItem
  <2> HIDE DEF made
  <2>5. One(Expect(ts, made, ")"))
    BY <2>1, <2>4, OneExpect
  <2> QED
    BY <1>1, <2>5 DEF Enclosed, made
<1>2. CASE ~Is(ts, i, "(")
  BY <1>2 DEF Enclosed, One
<1> QED
  BY <1>1, <1>2

LEMMA OneOptional ==
  ASSUME NEW txt \in Seq(Words), NEW i \in 1 .. Len(txt) + 1
  PROVE  /\ One(OptionalWhere(Tokenize(txt), i)) /\ One(OptionalColumns(Tokenize(txt), i))
         /\ \A r \in OptionalColumns(Tokenize(txt), i) : r.pos \in 1 .. Len(txt) + 1
<1> DEFINE ts == Tokenize(txt)
<1>1. One(OptionalWhere(ts, i))
  <2>1. CASE Is(ts, i, "WHERE")
    <3>1. "WHERE" \in Keywords \cup Symbols
      BY DEF Keywords
    <3>2. WordAt(txt, i, "WHERE")
      BY <2>1, <3>1, TokenIs
    <3>3. i + 1 \in 1 .. Len(txt) + 1 /\ "expression" \in Whats
      BY <3>2, WordPlace DEF Whats
    <3>4. One(ParseExpression(ts)[i + 1])
      BY <3>3, OneItem
    <3> QED
      BY <2>1, <3>4 DEF OptionalWhere
  <2>2. CASE ~Is(ts, i, "WHERE")
    BY <2>2 DEF OptionalWhere, One
  <2> QED
    BY <2>1, <2>2
<1>2. One(OptionalColumns(ts, i))
  <2>1. "name" \in Whats
    BY DEF Whats
  <2>2. One(Enclosed("name", ts, i))
    BY <2>1, OneEnclosed
  <2> QED
    BY <2>2 DEF OptionalColumns, One
<1>3. \A r \in OptionalColumns(ts, i) : r.pos \in 1 .. Len(txt) + 1
  BY ColumnsMade
<1> QED
  BY <1>1, <1>2, <1>3

LEMMA OneSelect ==
  ASSUME NEW txt \in Seq(Words), WordAt(txt, 1, "SELECT")
  PROVE  One(ParseSelect(Tokenize(txt)))
<1> DEFINE ts == Tokenize(txt)
           L == Expect(ts, Items("projection", ts)[2], "FROM")
           F(i) == Items("name", ts)[i]
           W(i) == OptionalWhere(ts, i)
<1>1. One(L) /\ \A list \in L : list.pos \in 1 .. Len(txt) + 1
  <2>1. 2 \in 1 .. Len(txt) + 1 /\ "FROM" \in Keywords \cup Symbols /\ "projection" \in Whats
    BY DEF WordAt, Keywords, Whats
  <2> DEFINE made == Items("projection", ts)[2]
  <2>2. One(made) /\ \A r \in made : r.pos \in 1 .. Len(txt) + 1
    BY <2>1, OneItem
  <2> HIDE DEF made
  <2>3. One(Expect(ts, made, "FROM")) /\ \A list \in Expect(ts, made, "FROM") : list.pos \in 1 .. Len(txt) + 1
    BY <2>1, <2>2, OneExpect
  <2> QED
    BY <2>3 DEF made
<1>2. \A i \in 1 .. Len(txt) + 1 : One(F(i)) /\ One(W(i)) /\ \A from \in F(i) : from.pos \in 1 .. Len(txt) + 1
  <2>1. "name" \in Whats
    BY DEF Whats
  <2> QED
    BY <2>1, OneItem, OneOptional
<1>3. \A r \in ParseSelect(ts) : \E list \in L : \E from \in F(list.pos) : \E where \in W(from.pos) :
              r = Got([type |-> "SELECT", select |-> list.node, tables |-> from.node,
                       where |-> where.node], where.pos)
  BY SelectIs
<1> HIDE DEF L, F, W
<1> SUFFICES ASSUME NEW x \in ParseSelect(ts), NEW y \in ParseSelect(ts) PROVE x = y
  BY DEF One
<1>4. PICK list : \A q \in L : q = list
  BY <1>1 DEF One
<1>5. list \in L
  BY <1>3, <1>4
<1>6. list.pos \in 1 .. Len(txt) + 1
  BY <1>1, <1>5
<1>7. One(F(list.pos)) /\ \A from \in F(list.pos) : from.pos \in 1 .. Len(txt) + 1
  BY <1>2, <1>6
<1>8. PICK from : \A q \in F(list.pos) : q = from
  BY <1>7 DEF One
<1>9. from \in F(list.pos)
  BY <1>3, <1>4, <1>8
<1>10. One(W(from.pos))
  BY <1>2, <1>7, <1>9
<1>11. PICK where : \A q \in W(from.pos) : q = where
  BY <1>10 DEF One
<1>12. \A r \in ParseSelect(ts) : r = Got([type |-> "SELECT", select |-> list.node, tables |-> from.node,
                                     where |-> where.node], where.pos)
  BY <1>3, <1>4, <1>8, <1>11
<1> QED
  BY <1>12

LEMMA OneUpdate ==
  ASSUME NEW txt \in Seq(Words), WordAt(txt, 1, "UPDATE")
  PROVE  One(ParseUpdate(Tokenize(txt)))
<1> DEFINE ts == Tokenize(txt)
           L == Expect(ts, Item("name", ts, 2), "SET")
           F(i) == Items("assignment", ts)[i]
           W(i) == OptionalWhere(ts, i)
<1>1. One(L) /\ \A list \in L : list.pos \in 1 .. Len(txt) + 1
  <2>1. 2 \in 1 .. Len(txt) + 1 /\ "SET" \in Keywords \cup Symbols /\ "name" \in Whats
    BY DEF WordAt, Keywords, Whats
  <2> DEFINE made == Item("name", ts, 2)
  <2>2. One(made) /\ \A r \in made : r.pos \in 1 .. Len(txt) + 1
    BY <2>1, OneItem
  <2> HIDE DEF made
  <2>3. One(Expect(ts, made, "SET")) /\ \A list \in Expect(ts, made, "SET") : list.pos \in 1 .. Len(txt) + 1
    BY <2>1, <2>2, OneExpect
  <2> QED
    BY <2>3 DEF made
<1>2. \A i \in 1 .. Len(txt) + 1 : One(F(i)) /\ One(W(i)) /\ \A set \in F(i) : set.pos \in 1 .. Len(txt) + 1
  <2>1. "assignment" \in Whats
    BY DEF Whats
  <2> QED
    BY <2>1, OneItem, OneOptional
<1>3. \A r \in ParseUpdate(ts) : \E table \in L : \E set \in F(table.pos) : \E where \in W(set.pos) :
              r = Got([type |-> "UPDATE", table |-> table.node, assignments |-> set.node,
                       where |-> where.node], where.pos)
  BY UpdateIs
<1> HIDE DEF L, F, W
<1> SUFFICES ASSUME NEW x \in ParseUpdate(ts), NEW y \in ParseUpdate(ts) PROVE x = y
  BY DEF One
<1>4. PICK table : \A q \in L : q = table
  BY <1>1 DEF One
<1>5. table \in L
  BY <1>3, <1>4
<1>6. table.pos \in 1 .. Len(txt) + 1
  BY <1>1, <1>5
<1>7. One(F(table.pos)) /\ \A set \in F(table.pos) : set.pos \in 1 .. Len(txt) + 1
  BY <1>2, <1>6
<1>8. PICK set : \A q \in F(table.pos) : q = set
  BY <1>7 DEF One
<1>9. set \in F(table.pos)
  BY <1>3, <1>4, <1>8
<1>10. One(W(set.pos))
  BY <1>2, <1>7, <1>9
<1>11. PICK where : \A q \in W(set.pos) : q = where
  BY <1>10 DEF One
<1>12. \A r \in ParseUpdate(ts) : r = Got([type |-> "UPDATE", table |-> table.node, assignments |-> set.node,
                                     where |-> where.node], where.pos)
  BY <1>3, <1>4, <1>8, <1>11
<1> QED
  BY <1>12

\* The name of a table behind two words.
LEMMA OneTable ==
  ASSUME NEW txt \in Seq(Words), NEW w \in Keywords \cup Symbols, NEW first, WordAt(txt, 1, first),
         Is(Tokenize(txt), 2, w)
  PROVE  LET made == Item("name", Tokenize(txt), 3)
         IN  One(made) /\ \A r \in made : r.pos \in 1 .. Len(txt) + 1
<1>1. 2 \in 1 .. Len(txt) + 1 /\ "name" \in Whats
  BY DEF WordAt, Whats
<1>2. WordAt(txt, 2, w)
  BY <1>1, TokenIs
<1>3. 3 \in 1 .. Len(txt) + 1
  BY <1>2 DEF WordAt
<1> QED
  BY <1>1, <1>3, OneItem

LEMMA OneOther ==
  ASSUME NEW txt \in Seq(Words)
  PROVE  LET ts == Tokenize(txt)
         IN  /\ WordAt(txt, 1, "DELETE") => One(ParseDelete(ts))
             /\ WordAt(txt, 1, "CREATE") => One(ParseCreate(ts))
             /\ WordAt(txt, 1, "INSERT") => One(ParseInsert(ts))
<1> DEFINE ts == Tokenize(txt)
           T == Item("name", ts, 3)
           W(i) == OptionalWhere(ts, i)
           C(i) == Enclosed("definition", ts, i)
           V(i) == Enclosed("expression", ts, i)
           O(i) == Expect(ts, OptionalColumns(ts, i), "VALUES")
<1>1. {"FROM", "TABLE", "INTO", "VALUES"} \subseteq Keywords \cup Symbols /\ {"definition", "expression"} \subseteq Whats
  BY DEF Keywords, Whats
<1>2. ASSUME NEW w \in {"FROM", "TABLE", "INTO"}, NEW first, WordAt(txt, 1, first), Is(ts, 2, w)
      PROVE  One(T) /\ \A r \in T : r.pos \in 1 .. Len(txt) + 1
  BY <1>1, <1>2, OneTable
<1>3. \A i \in 1 .. Len(txt) + 1 : /\ One(W(i)) /\ One(C(i)) /\ One(V(i))
                                    /\ One(O(i)) /\ \A r \in O(i) : r.pos \in 1 .. Len(txt) + 1
  <2> SUFFICES ASSUME NEW i \in 1 .. Len(txt) + 1
               PROVE  /\ One(W(i)) /\ One(C(i)) /\ One(V(i))
                      /\ One(O(i)) /\ \A r \in O(i) : r.pos \in 1 .. Len(txt) + 1
    OBVIOUS
  <2> DEFINE made == OptionalColumns(ts, i)
  <2>1. One(W(i)) /\ One(made) /\ \A r \in made : r.pos \in 1 .. Len(txt) + 1
    BY OneOptional
  <2>2. One(C(i)) /\ One(V(i))
    BY <1>1, OneEnclosed
  <2> HIDE DEF made
  <2>3. One(Expect(ts, made, "VALUES")) /\ \A r \in Expect(ts, made, "VALUES") : r.pos \in 1 .. Len(txt) + 1
    BY <1>1, <2>1, OneExpect
  <2> QED
    BY <2>1, <2>2, <2>3 DEF made
<1>4. \A r \in ParseDelete(ts) :
        /\ Is(ts, 2, "FROM")
        /\ \E from \in T : \E where \in W(from.pos) :
              r = Got([type |-> "DELETE", table |-> from.node, where |-> where.node], where.pos)
  BY DeleteIs
<1>5. \A r \in ParseCreate(ts) :
        /\ Is(ts, 2, "TABLE")
        /\ \E table \in T : \E columns \in C(table.pos) :
              r = Got([type |-> "CREATE_TABLE", table |-> table.node, columns |-> columns.node], columns.pos)
  BY CreateIs
<1>6. \A r \in ParseInsert(ts) :
        /\ Is(ts, 2, "INTO")
        /\ \E table \in T : \E columns \in O(table.pos) : \E values \in V(columns.pos) :
              r = Got([type |-> "INSERT", table |-> table.node, columns |-> columns.node,
                       values |-> values.node], values.pos)
  BY InsertIs
<1> HIDE DEF T, W, C, V, O
<1> DEFINE D == 1 .. Len(txt) + 1
           WW == [i \in D |-> W(i)]
           CC == [i \in D |-> C(i)]
           VV == [i \in D |-> V(i)]
           OO == [i \in D |-> O(i)]
<1>7. \A i \in D : WW[i] = W(i) /\ CC[i] = C(i) /\ VV[i] = V(i) /\ OO[i] = O(i)
  OBVIOUS
<1>8. \A i \in D : /\ One(WW[i]) /\ One(CC[i]) /\ One(VV[i])
                   /\ One(OO[i]) /\ \A r \in OO[i] : r.pos \in D
  BY <1>3, <1>7 DEF One
<1> HIDE DEF D, WW, CC, VV, OO
<1>10. ASSUME WordAt(txt, 1, "DELETE") PROVE One(ParseDelete(ts))
  <2> SUFFICES ASSUME NEW x \in ParseDelete(ts), NEW y \in ParseDelete(ts) PROVE x = y
    BY DEF One
  <2>1. One(T) /\ \A r \in T : r.pos \in D
    BY <1>2, <1>4, <1>10 DEF D
  <2>2. PICK from \in T : \A l \in T : l = from
    <3>1. \E from \in T : TRUE
      BY <1>4
    <3>2. \A l, q \in T : l = q
      BY <2>1 DEF One
    <3> QED
      BY ONLY <3>1, <3>2
  <2>3. from \in T
    BY <2>2
  <2>4. from.pos \in D
    BY <2>1, <2>3
  <2>5. One(W(from.pos))
    BY <1>7, <1>8, <2>4
  <2>6. PICK where : \A w \in W(from.pos) : w = where
    BY <2>5 DEF One
  <2>7. \A r \in ParseDelete(ts) :
            r = Got([type |-> "DELETE", table |-> from.node, where |-> where.node], where.pos)
    BY <1>4, <2>2, <2>6
  <2> QED
    BY <2>7
<1>11. ASSUME WordAt(txt, 1, "CREATE") PROVE One(ParseCreate(ts))
  <2> SUFFICES ASSUME NEW x \in ParseCreate(ts), NEW y \in ParseCreate(ts) PROVE x = y
    BY DEF One
  <2>1. One(T) /\ \A r \in T : r.pos \in D
    BY <1>2, <1>5, <1>11 DEF D
  <2>2. PICK table \in T : \A l \in T : l = table
    <3>1. \E table \in T : TRUE
      BY <1>5
    <3>2. \A l, q \in T : l = q
      BY <2>1 DEF One
    <3> QED
      BY ONLY <3>1, <3>2
  <2>3. table \in T
    BY <2>2
  <2>4. table.pos \in D
    BY <2>1, <2>3
  <2>5. One(C(table.pos))
    BY <1>7, <1>8, <2>4
  <2>6. PICK columns : \A w \in C(table.pos) : w = columns
    BY <2>5 DEF One
  <2>7. \A r \in ParseCreate(ts) :
            r = Got([type |-> "CREATE_TABLE", table |-> table.node, columns |-> columns.node], columns.pos)
    BY <1>5, <2>2, <2>6
  <2> QED
    BY <2>7
<1>12. ASSUME WordAt(txt, 1, "INSERT") PROVE One(ParseInsert(ts))
  <2> SUFFICES ASSUME NEW x \in ParseInsert(ts), NEW y \in ParseInsert(ts) PROVE x = y
    BY DEF One
  <2>1. One(T) /\ \A r \in T : r.pos \in D
    BY <1>2, <1>6, <1>12 DEF D
  <2>2. PICK table \in T : \A l \in T : l = table
    <3>1. \E table \in T : TRUE
      BY <1>6
    <3>2. \A l, q \in T : l = q
      BY <2>1 DEF One
    <3> QED
      BY ONLY <3>1, <3>2
  <2>3. table \in T
    BY <2>2
  <2>4. table.pos \in D
    BY <2>1, <2>3
  <2>5. One(O(table.pos)) /\ \A f \in O(table.pos) : f.pos \in D
    BY <1>7, <1>8, <2>4
  <2>6. PICK columns : \A f \in O(table.pos) : f = columns
    BY <2>5 DEF One
  <2>7. columns \in O(table.pos)
    BY <1>6, <2>2, <2>6
  <2>8. One(V(columns.pos))
    BY <1>7, <1>8, <2>5, <2>7
  <2>9. PICK values : \A w \in V(columns.pos) : w = values
    BY <2>8 DEF One
  <2>10. \A r \in ParseInsert(ts) :
            r = Got([type |-> "INSERT", table |-> table.node, columns |-> columns.node,
                     values |-> values.node], values.pos)
    BY <1>6, <2>2, <2>6, <2>9
  <2> QED
    BY <2>10
<1> QED
  BY <1>10, <1>11, <1>12

LEMMA OneStatement ==
  ASSUME NEW txt \in Seq(Words)
  PROVE  One(ParseStatement(Tokenize(txt)))
<1> DEFINE ts == Tokenize(txt)
           made == ParseStatement(ts)
<1>1. /\ WordAt(txt, 1, "SELECT") => made = ParseSelect(ts)
      /\ WordAt(txt, 1, "INSERT") => made = ParseInsert(ts)
      /\ WordAt(txt, 1, "UPDATE") => made = ParseUpdate(ts)
      /\ WordAt(txt, 1, "DELETE") => made = ParseDelete(ts)
      /\ WordAt(txt, 1, "CREATE") => made = ParseCreate(ts)
      /\ \A w \in {"BEGIN", "COMMIT"} : WordAt(txt, 1, w) => made = {Got([type |-> w], 2)}
      /\ made # {} => \E w \in {"SELECT", "INSERT", "UPDATE", "DELETE", "CREATE", "BEGIN", "COMMIT"} :
                         WordAt(txt, 1, w)
  BY StatementIs
<1>2. \A x : One({x})
  BY DEF One
<1>3. One({})
  BY DEF One
<1> HIDE DEF made
<1> QED
  BY <1>1, <1>2, <1>3, OneSelect, OneUpdate, OneOther DEF made

\* The five sorts of statement by what may not stand behind them: words in text.
LEMMA SentencesAreText ==
  ASSUME NEW txt \in Seq(Words)
  PROVE  /\ \A p \in Inserts(Expressions) \cup Creates \cup Commands : p.words \in Seq(Words)
         /\ \A p \in Selects(Expressions, Conditions(Expressions))
                    \cup Updates(Expressions, Conditions(Expressions))
                    \cup Deletes(Conditions(Expressions)) :
              p.words \in Seq(Words)
         /\ \A p \in Selects(Expressions, {Nowhere}) : p.words \in Seq(Words)
         /\ \A p \in Updates(Expressions, {Nowhere}) : p.words \in Seq(Words)
         /\ \A p \in Deletes({Nowhere}) : p.words \in Seq(Words)
<1>1. \A p \in Commands : p.words \in Seq(Words)
  BY CommandText DEF Commands
<1> QED
  BY <1>1, Openings

LEMMA FollowedIsText ==
  ASSUME NEW txt, NEW n, NEW G, \A p \in G : p.words \in Seq(Words), NEW more,
         Phrase(txt, n) \in Followed(G, more)
  PROVE  txt \in Seq(Words)
<1>1. PICK p \in G, t \in Tails(more) : Phrase(txt, n) = Phrase(p.words \o t, p.node)
  BY DEF Followed
<1> DEFINE u == p.words
<1>2. txt = u \o t
  <2>1. Phrase(txt, n).words = txt /\ Phrase(u \o t, p.node).words = u \o t
    BY PhraseParts
  <2> QED
    BY <1>1, <2>1
<1>3. u \in Seq(Words) /\ t \in Seq(Words)
  BY DEF Tails
<1> HIDE DEF u
<1>4. u \o t \in Seq(Words)
  BY <1>3
<1> QED
  BY <1>2, <1>4

\* Lexer and parser together read exactly the texts of Sql, and each as what it means.
THEOREM ReadsSql ==
  ASSUME NEW S, NEW txt \in Seq(S)
  PROVE  /\ \A n : Phrase(txt, n) \in Sql <=> \E r \in Parse(txt) : r.node = n
         /\ One(Parse(txt))
<1> DEFINE G1 == Inserts(Expressions) \cup Creates \cup Commands
           G2 == Selects(Expressions, Conditions(Expressions))
                 \cup Updates(Expressions, Conditions(Expressions))
                 \cup Deletes(Conditions(Expressions))
           G3 == Selects(Expressions, {Nowhere})
           G4 == Updates(Expressions, {Nowhere})
           G5 == Deletes({Nowhere})
           M1 == {}
           M3 == {",", "WHERE"}
           M4 == Operators \cup {",", "WHERE"}
           M5 == {"WHERE"}
<1>1. \A n : Phrase(txt, n) \in Sql <=>
        \/ Phrase(txt, n) \in Followed(G1, M1) \/ Phrase(txt, n) \in Followed(G2, Operators)
        \/ Phrase(txt, n) \in Followed(G3, M3) \/ Phrase(txt, n) \in Followed(G4, M4)
        \/ Phrase(txt, n) \in Followed(G5, M5)
  BY DEF Sql, Sentences
<1>2. \A p \in G1 \cup G2 \cup G3 \cup G4 \cup G5 : p.words \in Seq(Words)
  <2>1. <<>> \in Seq(Words)
    OBVIOUS
  <2> QED
    BY <2>1, SentencesAreText
<1>3. \A r : ReadAs(txt, r) <=>
        \/ Meant(txt, 1, r, G1, M1) \/ Meant(txt, 1, r, G2, Operators) \/ Meant(txt, 1, r, G3, M3)
        \/ Meant(txt, 1, r, G4, M4) \/ Meant(txt, 1, r, G5, M5)
  BY DEF ReadAs
<1> HIDE DEF G1, G2, G3, G4, G5, M1, M3, M4, M5
<1>4. Lexes(txt) <=> txt \in Seq(Words)
  BY DEF Lexes, Words
<1>5. CASE txt \notin Seq(Words)
  <2>1. Parse(txt) = {}
    BY <1>4, <1>5 DEF Parse
  <2>2. \A n : Phrase(txt, n) \notin Sql
    BY <1>1, <1>2, <1>5, FollowedIsText
  <2> QED
    BY <2>1, <2>2 DEF One
<1>6. CASE txt \in Seq(Words)
  <2>1. Parse(txt) = ParseStatement(Tokenize(txt))
    BY <1>4, <1>6 DEF Parse
  <2>2. \A r : r \in Parse(txt) <=> ReadAs(txt, r)
    BY <1>6, <2>1, StatementRead
  <2>3. \A n : /\ Phrase(txt, n) \in Followed(G1, M1) <=> \E r : Meant(txt, 1, r, G1, M1) /\ r.node = n
               /\ Phrase(txt, n) \in Followed(G2, Operators) <=>
                      \E r : Meant(txt, 1, r, G2, Operators) /\ r.node = n
               /\ Phrase(txt, n) \in Followed(G3, M3) <=> \E r : Meant(txt, 1, r, G3, M3) /\ r.node = n
               /\ Phrase(txt, n) \in Followed(G4, M4) <=> \E r : Meant(txt, 1, r, G4, M4) /\ r.node = n
               /\ Phrase(txt, n) \in Followed(G5, M5) <=> \E r : Meant(txt, 1, r, G5, M5) /\ r.node = n
    BY <1>2, <1>6, FollowedMeant
  <2>4. One(Parse(txt))
    BY <1>6, <2>1, OneStatement
  <2> QED
    BY <1>1, <1>3, <2>2, <2>3, <2>4
<1> QED
  BY <1>5, <1>6
\* What a phrase of an expression stands for is an expression.
LEMMA ExpressionNodes == \A p \in Expressions : IsExpression(p.node)
<1> DEFINE Q == {p \in Expressions : IsExpression(p.node)}
<1>1. \A w : IsExpression(Column(w).node) /\ Column(w).node = ColumnRef(w)
  BY DEF Column, Phrase, ColumnRef, IsExpression, IsOperand
<1>2. \A w : IsExpression(Integer(w).node) /\ IsExpression(String(w).node)
  BY DEF Integer, String, Phrase, Literal, IsExpression, IsOperand
<1>3. Atoms \subseteq Expressions /\ \A P : P \subseteq Expressions => Deeper(P) \subseteq Expressions
  <2>1. ASSUME NEW P, P \subseteq Expressions PROVE Primaries(P) \subseteq Primaries(Expressions)
    BY <2>1 DEF Primaries
  <2>2. ASSUME NEW P, P \subseteq Expressions PROVE Deeper(P) \subseteq Expressions
    <3>1. \A l \in Primaries(P) : l \in Primaries(Expressions) /\ l \in Expressions
      BY <2>1, <2>2, ExpressionsClosed
    <3> QED
      BY <2>2, <3>1, ExpressionsClosed DEF Deeper
  <2> QED
    BY <2>2, ExpressionsClosed
<1>4. \A p \in Atoms : IsExpression(p.node)
  BY <1>1, <1>2 DEF Atoms
<1>5. \A p : Parenthesized(p).node = p.node
  BY DEF Parenthesized, Phrase
<1>6. ASSUME NEW op \in Operators, NEW l, NEW r, IsExpression(l.node), IsExpression(r.node)
      PROVE  IsExpression(Applied(op, l, r).node)
  <2> DEFINE e == Applied(op, l, r).node
             x == l.node
             y == r.node
  <2>1. e.type = "BINARY_OP" /\ e.op = op /\ e.left = x /\ e.right = y
    BY DEF Applied, Phrase, BinaryOp
  <2>2. \A a \in {x, y} : IsAtom(a) => IsOperand(a)
    BY <1>6 DEF IsExpression, IsAtom
  <2> HIDE DEF e, x, y
  <2>3. IsExpression(e)
    BY <2>1, <2>2 DEF IsExpression
  <2> QED
    BY <2>3 DEF e
<1>7. ASSUME NEW P, P \subseteq Q, P \subseteq Expressions PROVE Deeper(P) \subseteq Q
  <2>1. \A p \in Primaries(P) : IsExpression(p.node)
    BY <1>4, <1>5, <1>7 DEF Primaries
  <2>2. \A p \in Deeper(P) : IsExpression(p.node)
    BY <1>6, <1>7, <2>1 DEF Deeper
  <2>3. Deeper(P) \subseteq Expressions
    BY <1>3, <1>7
  <2> QED
    BY <2>2, <2>3
<1>8. Atoms \subseteq Q
  BY <1>3, <1>4
<1> HIDE DEF Q
<1>9. Expressions \subseteq Q
  BY <1>7, <1>8, ExpressionInduction
<1> QED
  BY <1>9 DEF Q

\* The nodes of a list are those of its phrases, and there is one at least.
LEMMA ListNodes ==
  ASSUME NEW P, NEW N, \A p \in P : p.node \in N, NEW list \in Lists(P)
  PROVE  list.node \in Seq(N) /\ list.node # <<>>
<1>1. PICK ps \in Seq(P) \ {<<>>} : list = Listed(ps)
  BY DEF Lists
<1>2. list.node = [i \in DOMAIN ps |-> ps[i].node]
  BY <1>1 DEF Listed, Phrase
<1>3. ps \in Seq(P) /\ ps # <<>> /\ Len(ps) \in Nat /\ DOMAIN ps = 1 .. Len(ps)
  BY <1>1
<1>4. Len(ps) # 0
  BY <1>3
<1>5. \A i \in 1 .. Len(ps) : ps[i].node \in N
  BY <1>3
<1>6. list.node \in [1 .. Len(ps) -> N]
  BY <1>2, <1>3, <1>5
<1>7. list.node \in Seq(N) /\ Len(list.node) = Len(ps)
  BY <1>3, <1>6
<1> QED
  BY <1>4, <1>7

\* What Query asks of the parser: a SELECT is made of a list of expressions, at
\* least one table name, and an expression for its WHERE, if it has one.
THEOREM ParsedSelects ==
  ASSUME NEW S, NEW txt \in Seq(S), NEW r \in Parse(txt), r.node.type = "SELECT"
  PROVE  IsSelect(r.node)
<1> DEFINE E == {p.node : p \in Projection(Expressions)}
           W == Conditions(Expressions) \cup {Nowhere}
<1>1. ReadAs(txt, r)
  <2>1. Lexes(txt) /\ r \in ParseStatement(Tokenize(txt))
    BY DEF Parse
  <2>2. txt \in Seq(Words)
    BY <2>1 DEF Lexes, Words
  <2> QED
    BY <2>1, <2>2, StatementRead
<1>2. \A p \in Inserts(Expressions) \cup Creates \cup Commands
                  \cup Updates(Expressions, W) \cup Deletes(W) : p.node.type # "SELECT"
  <2>1. \A t, c, v : Insert(t, c, v).node.type = "INSERT"
    BY DEF Insert, Phrase
  <2>2. \A t, c : Create(t, c).node.type = "CREATE_TABLE"
    BY DEF Create, Phrase
  <2>3. \A t, a, w : Update(t, a, w).node.type = "UPDATE"
    BY DEF Update, Phrase
  <2>4. \A t, w : Delete(t, w).node.type = "DELETE"
    BY DEF Delete, Phrase
  <2>5. \A w : Command(w).node.type = w
    BY DEF Command, Phrase
  <2>6. \A p \in Inserts(Expressions) : p.node.type # "SELECT"
    BY <2>1 DEF Inserts
  <2>7. \A p \in Creates : p.node.type # "SELECT"
    BY <2>2 DEF Creates
  <2>8. \A p \in Updates(Expressions, W) : p.node.type # "SELECT"
    BY <2>3 DEF Updates
  <2>9. \A p \in Deletes(W) : p.node.type # "SELECT"
    BY <2>4 DEF Deletes
  <2>10. \A p \in Commands : p.node.type # "SELECT"
    BY <2>5 DEF Commands
  <2> QED
    BY <2>6, <2>7, <2>8, <2>9, <2>10
<1>3. /\ \A p : p \in Selects(Expressions, W) <=>
            \/ p \in Selects(Expressions, Conditions(Expressions))
            \/ p \in Selects(Expressions, {Nowhere})
      /\ \A p : p \in Updates(Expressions, W) <=>
            \/ p \in Updates(Expressions, Conditions(Expressions))
            \/ p \in Updates(Expressions, {Nowhere})
      /\ \A p : p \in Deletes(W) <=> p \in Deletes(Conditions(Expressions))
                                                    \/ p \in Deletes({Nowhere})
  BY DEF Selects, Updates, Deletes
<1> HIDE DEF W
<1>4. \E p : /\ \/ p \in Inserts(Expressions) \cup Creates \cup Commands
                \/ p \in Selects(Expressions, W) \/ p \in Updates(Expressions, W)
                \/ p \in Deletes(W)
             /\ r = Got(p.node, 1 + Len(p.words))
  BY <1>1, <1>3 DEF ReadAs, Meant
<1>5. \E p \in Selects(Expressions, W) : r.node = p.node
  BY <1>2, <1>4, GotParts
<1>6. PICK list \in Lists(Projection(Expressions)), from \in NameList, where \in W :
        r.node = Select(list, from, where).node
  BY <1>5 DEF Selects
<1>7. r.node = [type |-> "SELECT", select |-> list.node, tables |-> from.node, where |-> where.node]
  BY <1>6 DEF Select, Phrase
<1>8. \A e \in E : IsExpression(e)
  <2>1. IsExpression(Column("*").node)
    BY DEF Column, Phrase, ColumnRef, IsExpression, IsOperand
  <2> QED
    BY <2>1, ExpressionNodes DEF Projection
<1>9. list.node \in Seq(E)
  <2>1. \A p \in Projection(Expressions) : p.node \in E
    OBVIOUS
  <2> HIDE DEF E
  <2> QED
    BY <2>1, ListNodes
<1>10. from.node \in Seq(STRING) /\ from.node # <<>>
  <2> DEFINE P == {Name(w) : w \in Names}
  <2>1. \A p \in P : p.node \in STRING
    BY ParserAssumption DEF Name, Phrase
  <2>2. from \in Lists(P)
    BY DEF NameList
  <2> HIDE DEF P
  <2> QED
    BY <2>1, <2>2, ListNodes
<1>11. where.node # NoWhere => IsExpression(where.node)
  <2>1. where \in Conditions(Expressions) => \E p \in Expressions : where.node = p.node
    BY DEF Conditions, Where, Phrase
  <2>2. where = Nowhere => where.node = NoWhere
    BY DEF Nowhere, Phrase
  <2> QED
    BY <2>1, <2>2, ExpressionNodes DEF W
<1> HIDE DEF E
<1> DEFINE s == list.node
<1>12. s \in Seq(Range(s)) /\ \A e \in Range(s) : IsExpression(e)
  <2>1. s \in Seq(E)
    BY <1>9
  <2> HIDE DEF s
  <2>2. Range(s) \subseteq E /\ s \in Seq(Range(s))
    BY <2>1 DEF Range
  <2> QED
    BY <1>8, <2>2
<1> HIDE DEF s
<1>13. r.node = [type |-> "SELECT", select |-> s, tables |-> from.node, where |-> where.node]
  BY <1>7 DEF s
<1> QED
  BY <1>10, <1>11, <1>12, <1>13 DEF IsSelect

-----------------------------------------------------------------------------
(* Rows in blocks.                                                          *)

LEMMA Times ==
  ASSUME NEW a \in Nat, NEW b \in Nat, NEW L \in Nat, a < b
  PROVE  /\ a * L \in Nat /\ b * L \in Nat /\ a * L + L <= b * L
         /\ a * L + L = (a + 1) * L /\ b * L = (b - 1) * L + L
<1> DEFINE c == b - a - 1
<1>1. c \in Nat /\ b = a + 1 + c
  OBVIOUS
<1> HIDE DEF c
<1>2. a * L \in Nat /\ c * L \in Nat /\ b * L \in Nat
  BY <1>1
<1>3. b * L = a * L + L + c * L
  BY <1>1
<1> QED
  BY <1>2, <1>3

\* Row j of the i-th of several blocks of L rows.
Place(i, j, L) == (i - 1) * L + j

LEMMA FlattenBlocks ==
  ASSUME NEW S, NEW seqs \in Seq(Seq(S)), NEW L \in Nat,
         \A i \in 1 .. Len(seqs) : Len(seqs[i]) = L
  PROVE  /\ Len(FlattenSeq(seqs)) = Len(seqs) * L
         /\ \A i \in 1 .. Len(seqs), j \in 1 .. L : FlattenSeq(seqs)[Place(i, j, L)] = seqs[i][j]
<1>1. CASE seqs = <<>>
  BY <1>1 DEF FlattenSeq
<1>2. CASE seqs # <<>>
  <2> DEFINE n == Len(seqs)
  <2>1. PICK f \in [1 .. n -> Seq(S)] :
          /\ f[1] = seqs[1]
          /\ \A i \in 2 .. n : f[i] = f[i - 1] \o seqs[i]
          /\ FlattenSeq(seqs) = f[n]
    BY <1>2, FlattenDef
  <2> DEFINE Good(i) == /\ Len(f[i]) = i * L
                        /\ \A a \in 1 .. i, j \in 1 .. L : f[i][Place(a, j, L)] = seqs[a][j]
             X == {i \in 1 .. n : Good(i)}
  <2>2. n \in Nat /\ 1 <= n /\ \A i \in 1 .. n : seqs[i] \in Seq(S) /\ Len(seqs[i]) = L
    BY <1>2, EmptySeq
  <2> HIDE DEF n
  <2>3. 1 \in X
    <3>1. 1 \in 1 .. n /\ Len(f[1]) = 1 * L
      BY <2>1, <2>2
    <3>2. \A a \in 1 .. 1, j \in 1 .. L : a = 1 /\ Place(a, j, L) = j
      BY DEF Place
    <3> QED
      BY <2>1, <3>1, <3>2
  <2>4. ASSUME NEW i \in 1 + 1 .. n, i - 1 \in X PROVE i \in X
    <3> DEFINE g == f[i - 1]
               s == seqs[i]
               M == (i - 1) * L
    <3>9. i \in 1 .. n /\ i \in 2 .. n /\ i - 1 \in 1 .. n /\ i - 1 \in Nat /\ i \in Nat
      BY <2>2
    <3>10. f[i - 1] \in Seq(S) /\ Good(i - 1)
      BY <2>1, <2>4, <3>9
    <3>11. M \in Nat /\ i * L = M + L
      BY <3>9
    <3>1. /\ g \in Seq(S) /\ s \in Seq(S) /\ f[i] = g \o s
          /\ Len(g) = M /\ Len(s) = L
      BY <2>1, <2>2, <3>9, <3>10
    <3>2. \A a \in 1 .. i - 1, j \in 1 .. L : g[Place(a, j, L)] = seqs[a][j]
      BY <2>4
    <3> HIDE DEF g, M
    <3>3. Len(f[i]) = i * L
      <4>2. Len(g \o s) = Len(g) + Len(s)
        BY <3>1, ConcatProperties
      <4>1. Len(f[i]) = M + L
        BY <3>1, <4>2
      <4> QED
        BY <3>11, <4>1
    <3>4. ASSUME NEW a \in 1 .. i, NEW j \in 1 .. L
          PROVE  f[i][Place(a, j, L)] = seqs[a][j]
      <4>1. CASE a = i
        <5>1. Place(a, j, L) = Len(g) + j
          BY <3>1, <4>1 DEF Place, M
        <5>2. (g \o s)[Len(g) + j] = s[j]
          <6> DEFINE k == Len(g) + j
          <6>1. Len(g) \in Nat /\ Len(s) \in Nat /\ j \in 1 .. Len(s)
            BY <3>1
          <6>2. k \in 1 .. Len(g) + Len(s) /\ ~(k <= Len(g)) /\ k - Len(g) = j
            BY <6>1
          <6> HIDE DEF k
          <6>3. (g \o s)[k] = s[k - Len(g)]
            BY <3>1, <6>2, ConcatProperties
          <6> QED
            BY <6>2, <6>3 DEF k
        <5>3. f[i][Len(g) + j] = s[j]
          BY <3>1, <5>2
        <5> QED
          BY <4>1, <5>1, <5>3
      <4>2. CASE a # i
        <5>1. a \in 1 .. i - 1 /\ a - 1 \in Nat /\ a - 1 < i - 1
          BY <4>2
        <5> DEFINE A == (a - 1) * L
        <5>2. A + L <= M /\ A \in Nat
          BY <3>9, <5>1, Times DEF M
        <5>6. Place(a, j, L) = A + j
          BY DEF Place
        <5> HIDE DEF A
        <5>3. Place(a, j, L) \in 1 .. Len(g)
          BY <3>1, <3>11, <5>2, <5>6
        <5>4. f[i][Place(a, j, L)] = g[Place(a, j, L)]
          BY <3>1, <5>3
        <5> QED
          BY <3>2, <5>1, <5>4
      <4> QED
        BY <4>1, <4>2
    <3> QED
      BY <3>9, <3>3, <3>4
  <2>5. n \in X
    <3> HIDE DEF X
    <3> QED
      BY <2>2, <2>3, <2>4, Upwards
  <2> QED
    BY <2>1, <2>5 DEF n
<1> QED
  BY <1>1, <1>2

-----------------------------------------------------------------------------
(* Binder.                                                                  *)

\* An expression whose columns are among fields.
IsField(a, fields) ==
  \/ a.type = "COLUMN_REF" /\ <<a.table, a.column>> \in fields
  \/ a.type = "LITERAL" /\ a.value.type \in {"INT", "STRING"}

Evaluable(e, fields) ==
  \/ IsField(e, fields)
  \/ /\ e.type = "BINARY_OP" /\ e.op \in Operators
     /\ IsField(e.left, fields) /\ IsField(e.right, fields)

Fields(from) == UNION {FieldNames(from[k]) : k \in DOMAIN from}

IsFrom(from) == from \in Seq(STRING) /\ \A k \in DOMAIN from : from[k] \in Tables

LEMMA QualifyFinds ==
  ASSUME NEW from, IsFrom(from), NEW c, \E t \in Range(from) : HasColumn(t, c)
  PROVE  \E k \in DOMAIN from :
           /\ Qualify(c, from) = from[k] /\ HasColumn(from[k], c)
           /\ \A i \in 1 .. (k - 1) : ~HasColumn(from[i], c)
<1> DEFINE I == {i \in 1 .. Len(from) : HasColumn(from[i], c)}
<1>1. DOMAIN from = 1 .. Len(from) /\ I \subseteq Nat /\ I # {}
  BY DEF Range, IsFrom
<1>2. PICK x \in I : \A y \in I : ~ (<<y, x>> \in OpToRel(<, Nat))
  BY <1>1, NatLessThanWellFounded, WFMin
<1>3. \A y \in I : ~ (y < x)
  BY <1>1, <1>2 DEF OpToRel
<1>6. x \in I /\ \A y \in I : x <= y
  BY <1>3
<1>4. Min(I) \in I /\ \A y \in I : Min(I) <= y
  BY <1>6 DEF Min
<1>5. SelectInSeq(from, LAMBDA t : HasColumn(t, c)) = Min(I)
  BY <1>1 DEF SelectInSeq
<1>7. \A i \in 1 .. (Min(I) - 1) : i \notin I
  <2> DEFINE k == Min(I)
  <2>1. k \in Nat /\ \A y \in I : k <= y
    BY <1>1, <1>4
  <2> HIDE DEF k, I
  <2> QED
    BY <2>1 DEF k
<1>8. Min(I) \in 1 .. Len(from) /\ Len(from) \in Nat
  BY <1>4 DEF IsFrom
<1>9. \A i \in 1 .. (Min(I) - 1) : i \in 1 .. Len(from)
  <2> HIDE DEF I
  <2> QED
    BY <1>8
<1> QED
  BY <1>1, <1>4, <1>5, <1>7, <1>8, <1>9 DEF Qualify

LEMMA ColumnFound ==
  ASSUME NEW from, IsFrom(from), NEW c, \E t \in Range(from) : HasColumn(t, c)
  PROVE  <<Qualify(c, from), c>> \in Fields(from)
<1>1. PICK k \in DOMAIN from : Qualify(c, from) = from[k] /\ HasColumn(from[k], c)
  BY QualifyFinds
<1>2. <<from[k], c>> \in FieldNames(from[k])
  BY <1>1 DEF HasColumn, FieldNames
<1> QED
  BY <1>1, <1>2 DEF Fields

LEMMA OperandBound ==
  ASSUME NEW from, IsFrom(from), NEW a, IsOperand(a),
         a.type = "COLUMN_REF" => \E t \in Range(from) : HasColumn(t, a.column)
  PROVE  IsField(IF a.type = "COLUMN_REF" THEN Qualified(Qualify(a.column, from), a.column) ELSE a,
                 Fields(from))
  BY ColumnFound DEF IsOperand, IsField, Qualified

LEMMA Resolved ==
  ASSUME NEW from, IsFrom(from), NEW e, IsExpression(e), Resolvable(e, from)
  PROVE  Evaluable(Resolve(e, from), Fields(from))
<1>1. CASE IsAtom(e)
  <2>1. IsOperand(e)
    BY <1>1 DEF IsExpression, IsAtom
  <2>2. e.type = "COLUMN_REF" => \E t \in Range(from) : HasColumn(t, e.column)
    BY <1>1 DEF Resolvable, ColumnsExist
  <2> QED
    BY <1>1, <2>1, <2>2, OperandBound DEF Resolve, Evaluable
<1>2. CASE ~IsAtom(e)
  <2> DEFINE R(a) == IF a.type = "COLUMN_REF" THEN Qualified(Qualify(a.column, from), a.column) ELSE a
  <2>1. IsAtom(e.left) /\ IsAtom(e.right)
    BY <1>2 DEF Resolvable, TypeChecks
  <2>2. e.type = "BINARY_OP" /\ e.op \in Operators /\ IsOperand(e.left) /\ IsOperand(e.right)
    BY <1>2, <2>1 DEF IsExpression, IsAtom, IsOperand
  <2>3. /\ e.left.type = "COLUMN_REF" => \E t \in Range(from) : HasColumn(t, e.left.column)
        /\ e.right.type = "COLUMN_REF" => \E t \in Range(from) : HasColumn(t, e.right.column)
    BY <1>2 DEF Resolvable, ColumnsExist
  <2>4. IsField(R(e.left), Fields(from)) /\ IsField(R(e.right), Fields(from))
    BY <2>2, <2>3, OperandBound
  <2>5. Resolve(e, from) = BinaryOp(e.op, R(e.left), R(e.right))
    BY <1>2 DEF Resolve
  <2> HIDE DEF R
  <2> QED
    BY <2>2, <2>4, <2>5 DEF Evaluable, BinaryOp
<1> QED
  BY <1>1, <1>2

LEMMA ColumnsOfTable ==
  ASSUME NEW t \in Tables
  PROVE  /\ Len(Schema[t]) \in Nat /\ DOMAIN Schema[t] = 1 .. Len(Schema[t])
         /\ \A i \in DOMAIN Schema[t] : <<t, Schema[t][i].name>> \in FieldNames(t)
  BY SchemaAssumption DEF Tables, FieldNames

LEMMA ListBound ==
  ASSUME NEW from, IsFrom(from), NEW list, list \in Seq(Range(list)),
         \A e \in Range(list) : IsExpression(e),
         \A e \in Range(list) : IsStar(e) \/ Resolvable(e, from)
  PROVE  \A e \in Range(BoundList(list, from)) : Evaluable(e, Fields(from))
<1> DEFINE F == Fields(from)
           S == {Qualified(f[1], f[2]) : f \in F}
                  \cup {Resolve(e, from) : e \in {x \in Range(list) : ~IsStar(x)}}
           cols == [k \in DOMAIN from |->
                      [i \in DOMAIN Schema[from[k]] |-> Qualified(from[k], Schema[from[k]][i].name)]]
           items == [i \in DOMAIN list |->
                      IF IsStar(list[i]) THEN AllColumns(from) ELSE <<Resolve(list[i], from)>>]
<1>1. \A e \in S : Evaluable(e, F)
  <2>1. \A f \in F : Evaluable(Qualified(f[1], f[2]), F)
    BY DEF Evaluable, IsField, Qualified, Fields, FieldNames
  <2>2. \A e \in Range(list) : ~IsStar(e) => Evaluable(Resolve(e, from), F)
    BY Resolved
  <2> QED
    BY <2>1, <2>2
<1>2. AllColumns(from) \in Seq(S)
  <2>1. ASSUME NEW k \in DOMAIN from
        PROVE  [i \in DOMAIN Schema[from[k]] |-> Qualified(from[k], Schema[from[k]][i].name)] \in Seq(S)
    <3>1. from[k] \in Tables
      BY DEF IsFrom
    <3>2. /\ Len(Schema[from[k]]) \in Nat /\ DOMAIN Schema[from[k]] = 1 .. Len(Schema[from[k]])
          /\ \A i \in DOMAIN Schema[from[k]] : <<from[k], Schema[from[k]][i].name>> \in FieldNames(from[k])
      BY <3>1, ColumnsOfTable
    <3>3. ASSUME NEW i \in DOMAIN Schema[from[k]]
          PROVE  Qualified(from[k], Schema[from[k]][i].name) \in S
      <4> DEFINE f == <<from[k], Schema[from[k]][i].name>>
      <4>1. f \in F
        BY <3>2 DEF Fields
      <4>2. f[1] = from[k] /\ f[2] = Schema[from[k]][i].name
        OBVIOUS
      <4> HIDE DEF f, F
      <4> QED
        BY <4>1, <4>2
    <3> HIDE DEF S
    <3> QED
      BY <3>2, <3>3
  <2>2. cols \in Seq(Seq(S))
    <3> HIDE DEF S
    <3>1. Len(from) \in Nat /\ DOMAIN from = 1 .. Len(from)
      BY DEF IsFrom
    <3> QED
      BY <2>1, <3>1
  <2> QED
    BY <2>2, FlattenType DEF AllColumns
<1>3. items \in Seq(Seq(S))
  <2>1. Len(list) \in Nat /\ DOMAIN list = 1 .. Len(list) /\ \A i \in DOMAIN list : list[i] \in Range(list)
    BY DEF Range
  <2>2. \A i \in DOMAIN list : ~IsStar(list[i]) => Resolve(list[i], from) \in S
    BY <2>1
  <2> HIDE DEF S
  <2>3. \A i \in DOMAIN list : items[i] \in Seq(S)
    BY <1>2, <2>2
  <2> QED
    BY <2>1, <2>3
<1>4. BoundList(list, from) \in Seq(S)
  BY <1>3, FlattenType DEF BoundList
<1>5. Range(BoundList(list, from)) \subseteq S
  <2> HIDE DEF S
  <2> QED
    BY <1>4 DEF Range
<1> HIDE DEF S
<1> QED
  BY <1>1, <1>5

LEMMA SelectBound ==
  ASSUME NEW s, IsSelect(s), s.type = "SELECT", Accepts(s)
  PROVE  LET b == Bound(s) IN
         /\ b.type = "SELECT" /\ b.tables = s.tables /\ IsFrom(s.tables) /\ Len(s.tables) \in Nat \ {0}
         /\ \A e \in Range(b.select) : Evaluable(e, Fields(s.tables))
         /\ b.where # NoWhere => Evaluable(b.where, Fields(s.tables))
<1> DEFINE from == s.tables
           b == Bound(s)
<1>1. SelectAccepted(s) /\ b = BoundSelect(s)
  BY DEF Accepts, Bound
<1>2. /\ s = [type |-> "SELECT", select |-> s.select, tables |-> s.tables, where |-> s.where]
      /\ from \in Seq(STRING) /\ from # <<>>
  BY DEF IsSelect
<1>3. IsFrom(from) /\ Len(from) \in Nat \ {0}
  <2>1. \A k \in DOMAIN from : from[k] \in Range(from)
    BY DEF Range
  <2> QED
    BY <1>1, <1>2, <2>1, EmptySeq DEF SelectAccepted, HasTable, Tables, IsFrom
<1>4. b = [type |-> "SELECT", select |-> BoundList(s.select, from), tables |-> from,
           where |-> BoundWhere(s, from)]
  BY <1>1, <1>2 DEF BoundSelect
<1> HIDE DEF b
<1>5. \A e \in Range(b.select) : Evaluable(e, Fields(from))
  BY <1>1, <1>3, <1>4, ListBound DEF IsSelect, SelectAccepted
<1>6. ASSUME b.where # NoWhere PROVE Evaluable(b.where, Fields(from))
  <2>1. s.where # NoWhere /\ b.where = Resolve(s.where, from)
    BY <1>4, <1>6 DEF BoundWhere
  <2> QED
    BY <1>1, <1>3, <2>1, Resolved DEF IsSelect, SelectAccepted, WhereResolvable
<1> QED
  BY <1>3, <1>4, <1>5, <1>6 DEF b

-----------------------------------------------------------------------------
(* Column maps.                                                             *)

\* W[k]: the columns of the first k tables.
Widths(from, W) ==
  /\ W \in [0 .. Len(from) -> Nat] /\ W[0] = 0
  /\ \A k \in 1 .. Len(from) : W[k] = W[k - 1] + Len(Schema[from[k]])

LEMMA NamesFinite ==
  ASSUME NEW t \in Tables
  PROVE  IsFiniteSet(FieldNames(t)) /\ Cardinality(FieldNames(t)) \in 0 .. Len(Schema[t])
<1> DEFINE n == Len(Schema[t])
           f == [i \in 1 .. n |-> <<t, Schema[t][i].name>>]
<1>1. n \in Nat /\ DOMAIN Schema[t] = 1 .. n
  BY ColumnsOfTable
<1> HIDE DEF n
<1>2. f \in Surjection(1 .. n, FieldNames(t))
  BY <1>1, Fun_IsSurj DEF FieldNames
<1>3. IsFiniteSet(1 .. n) /\ Cardinality(1 .. n) = n
  BY <1>1, FS_Interval
<1> QED
  BY <1>1, <1>2, <1>3, FS_Surjection, FS_CardinalityType DEF n

NamesUpTo(from, k) == UNION {FieldNames(from[j]) : j \in 1 .. k}

LEMMA NamesCounted ==
  ASSUME NEW from, IsFrom(from), NEW W, Widths(from, W), NEW k \in 0 .. Len(from)
  PROVE  IsFiniteSet(NamesUpTo(from, k)) /\ Cardinality(NamesUpTo(from, k)) \in 0 .. W[k]
<1> DEFINE Good(i) == IsFiniteSet(NamesUpTo(from, i)) /\ Cardinality(NamesUpTo(from, i)) \in 0 .. W[i]
           X == {i \in 0 .. k : Good(i)}
<1>1. Len(from) \in Nat /\ DOMAIN from = 1 .. Len(from)
  BY DEF IsFrom
<1>2. 0 \in X
  <2>1. NamesUpTo(from, 0) = {}
    BY DEF NamesUpTo
  <2>2. 0 \in 0 .. k
    OBVIOUS
  <2>3. IsFiniteSet({}) /\ Cardinality({}) = 0 /\ W[0] = 0
    BY FS_EmptySet DEF Widths
  <2>4. Good(0)
    <3>1. Cardinality(NamesUpTo(from, 0)) = 0
      BY <2>1, <2>3
    <3>2. 0 \in 0 .. W[0]
      BY <2>3
    <3> QED
      BY <2>1, <2>3, <3>1, <3>2
  <2> QED
    BY <2>2, <2>4
<1>3. ASSUME NEW i \in 0 + 1 .. k, i - 1 \in X PROVE i \in X
  <2> DEFINE A == NamesUpTo(from, i - 1)
             B == FieldNames(from[i])
             w == W[i - 1]
             n == Len(Schema[from[i]])
  <2>1. i \in 1 .. Len(from) /\ i - 1 \in 0 .. Len(from) /\ from[i] \in Tables
    BY <1>1 DEF IsFrom
  <2>2. NamesUpTo(from, i) = A \cup B
    <3>1. \A j \in 1 .. i : j = i \/ j \in 1 .. i - 1
      OBVIOUS
    <3> QED
      BY <2>1, <3>1 DEF NamesUpTo
  <2>3. IsFiniteSet(A) /\ Cardinality(A) \in 0 .. w /\ w \in Nat
    BY <1>3, <2>1 DEF Widths
  <2>4. IsFiniteSet(B) /\ Cardinality(B) \in 0 .. n /\ n \in Nat
    BY <2>1, NamesFinite, ColumnsOfTable
  <2>5. W[i] = w + n
    BY <2>1 DEF Widths
  <2> HIDE DEF A, B, w, n
  <2>6. IsFiniteSet(A \cup B) /\ Cardinality(A \cup B) = Cardinality(A) + Cardinality(B) - Cardinality(A \cap B)
    BY <2>3, <2>4, FS_Union
  <2>7. Cardinality(A \cap B) \in Nat /\ Cardinality(A \cup B) \in Nat
    <3>1. A \cap B \in SUBSET A
      OBVIOUS
    <3>2. IsFiniteSet(A \cap B)
      BY <2>3, <3>1, FS_Subset
    <3> QED
      BY <2>6, <3>2, FS_CardinalityType
  <2>8. Cardinality(A \cup B) \in 0 .. W[i]
    BY <2>3, <2>4, <2>5, <2>6, <2>7
  <2>9. Good(i)
    BY <2>2, <2>6, <2>8
  <2>10. i \in 0 .. k
    OBVIOUS
  <2> QED
    BY <2>9, <2>10
<1>4. k \in X
  <2> HIDE DEF X
  <2>1. k \in Nat /\ 0 <= k
    OBVIOUS
  <2> QED
    BY <1>2, <1>3, <2>1, Upwards
<1> QED
  BY <1>4

LEMMA MapsOfScan ==
  ASSUME NEW t \in Tables
  PROVE  /\ DOMAIN ScanMap(t) = FieldNames(t)
         /\ \A q \in FieldNames(t) : /\ ScanMap(t)[q] \in 1 .. Len(Schema[t])
                                     /\ Schema[t][ScanMap(t)[q]].name = q[2]
<1> SUFFICES ASSUME NEW q \in FieldNames(t)
             PROVE  ScanMap(t)[q] \in 1 .. Len(Schema[t]) /\ Schema[t][ScanMap(t)[q]].name = q[2]
  BY DEF ScanMap
<1> DEFINE n == Len(Schema[t])
           has(i) == Schema[t][i].name = q[2]
           D == {d \in 0 .. n : n - d \in 1 .. n /\ has(n - d)}
<1>1. n \in Nat /\ DOMAIN Schema[t] = 1 .. n
  BY ColumnsOfTable
<1>2. PICK i \in 1 .. n : has(i)
  BY <1>1 DEF FieldNames
<1>3. ScanMap(t)[q] = CHOOSE k \in 1 .. n : has(k) /\ \A j \in 1 .. n : k < j => ~has(j)
  BY <1>1 DEF ScanMap
<1> HIDE DEF n, has
<1>4. n - i \in D /\ D \subseteq Nat
  <2>1. n - (n - i) = i /\ n - i \in 0 .. n
    BY <1>1
  <2> QED
    BY <1>1, <1>2, <2>1
<1>5. PICK d \in D : \A e \in D : ~ (<<e, d>> \in OpToRel(<, Nat))
  BY <1>4, NatLessThanWellFounded, WFMin
<1>6. \A e \in D : ~ (e < d)
  BY <1>4, <1>5 DEF OpToRel
<1>7. ASSUME NEW j \in 1 .. n, n - d < j PROVE ~has(j)
  <2>1. n - j \in 0 .. n /\ n - j < d /\ n - (n - j) = j
    BY <1>1, <1>4, <1>7
  <2>2. n - j \notin D
    BY <1>6, <2>1
  <2> QED
    BY <2>1, <2>2
<1>8. n - d \in 1 .. n /\ has(n - d)
  BY <1>5
<1>9. ScanMap(t)[q] \in 1 .. n /\ has(ScanMap(t)[q])
  BY <1>3, <1>7, <1>8
<1> QED
  BY <1>9 DEF n, has

LEMMA MapsNumber ==
  ASSUME NEW from, IsFrom(from), NEW W, Widths(from, W), Len(from) # 0, NEW idx \in ColumnMaps(from)
  PROVE  /\ DOMAIN idx = Fields(from)
         /\ \A q \in DOMAIN idx : idx[q] \in 1 .. W[Len(from)]
<1> DEFINE n == Len(from)
           left == NamesUpTo(from, n - 1)
           right == FieldNames(from[n])
           c == Cardinality(left)
           d == Cardinality(right)
<1>1. n \in Nat /\ n # 0 /\ n - 1 \in 0 .. n /\ DOMAIN from = 1 .. n /\ from[n] \in Tables
  BY DEF IsFrom
<1>2. /\ W[n] = W[n - 1] + Len(Schema[from[n]])
      /\ W[n - 1] \in Nat /\ Len(Schema[from[n]]) \in Nat /\ W[n] \in Nat
  BY <1>1, ColumnsOfTable DEF Widths
<1>3. c \in 0 .. W[n - 1]
  BY <1>1, NamesCounted
<1>4. d \in 0 .. Len(Schema[from[n]])
  BY <1>1, NamesFinite
<1>5. CASE n = 1
  <2>1. idx = ScanMap(from[1])
    BY <1>5 DEF ColumnMaps
  <2>2. Fields(from) = FieldNames(from[1])
    BY <1>1, <1>5 DEF Fields
  <2>3. W[1] = Len(Schema[from[1]])
    BY <1>2, <1>5 DEF Widths
  <2> QED
    BY <1>1, <1>5, <2>1, <2>2, <2>3, MapsOfScan
<1>6. CASE n # 1
  <2>1. PICK l \in Numberings(left, 1), r \in Numberings(right, c + 1) : idx = Over(r, l)
    <3>1. ColumnMaps(from) = {Over(r, l) : l \in Numberings(left, 1), r \in Numberings(right, c + 1)}
      BY <1>6 DEF ColumnMaps, NamesUpTo
    <3> QED
      BY <3>1
  <2>2. Fields(from) = right \cup left
    <3>1. 1 .. n = (1 .. n - 1) \cup {n}
      <4> HIDE DEF n
      <4> QED
        BY <1>1
    <3> QED
      BY <1>1, <3>1 DEF Fields, NamesUpTo
  <2> HIDE DEF n, left, right, c, d
  <2>3. l \in [left -> 1 .. (1 + c - 1)] /\ r \in [right -> (c + 1) .. (c + 1 + d - 1)]
    BY <2>1 DEF Numberings, c, d
  <2>4. \A x \in 1 .. (1 + c - 1) : x \in 1 .. W[n]
    BY <1>2, <1>3
  <2>5. \A x \in (c + 1) .. (c + 1 + d - 1) : x \in 1 .. W[n]
    BY <1>2, <1>3, <1>4
  <2>6. DOMAIN idx = right \cup left
    BY <2>1, <2>3 DEF Over
  <2>7. \A q \in right \cup left : idx[q] \in 1 .. W[n]
    BY <2>1, <2>3, <2>4, <2>5 DEF Over
  <2> QED
    BY <2>2, <2>6, <2>7 DEF n
<1> QED
  BY <1>5, <1>6

-----------------------------------------------------------------------------
(* The product of the tables.                                               *)

LEMMA ScanRows ==
  ASSUME NEW t \in Tables, NEW c \in Contents(t)
  PROVE  /\ c \in Seq(Seq(Values)) /\ Len(c) \in Nat
         /\ \A i \in 1 .. Len(c) : Len(c[i]) = Len(Schema[t])
<1>1. PICK n \in 0 .. MaxRows : c \in [1 .. n -> Rows(t)]
  BY DEF Contents
<1>2. /\ Len(Schema[t]) \in Nat /\ DOMAIN Schema[t] = 1 .. Len(Schema[t])
      /\ n \in Nat
  BY ColumnsOfTable, QueryAssumption
<1>3. \A r \in Rows(t) : r \in Seq(Values) /\ Len(r) = Len(Schema[t])
  BY <1>2 DEF Rows
<1>4. Rows(t) \subseteq Seq(Values)
  BY <1>3
<1>5. c \in [1 .. n -> Seq(Values)] /\ \A i \in 1 .. n : Len(c[i]) = Len(Schema[t])
  BY <1>1, <1>3, <1>4
<1> QED
  BY <1>2, <1>5

LEMMA CrossRows ==
  ASSUME NEW V, NEW left \in Seq(Seq(V)), NEW scan \in Seq(Seq(V))
  PROVE  /\ Cross(left, scan) \in Seq(Seq(V))
         /\ Len(Cross(left, scan)) = Len(left) * Len(scan)
         /\ \A i \in 1 .. Len(left), j \in 1 .. Len(scan) :
               Cross(left, scan)[Place(i, j, Len(scan))] = left[i] \o scan[j]
<1> DEFINE T == Seq(V)
           n == Len(left)
           L == Len(scan)
           block(i) == [j \in DOMAIN scan |-> left[i] \o scan[j]]
           seqs == [i \in DOMAIN left |-> block(i)]
<1>1. n \in Nat /\ L \in Nat /\ DOMAIN left = 1 .. n /\ DOMAIN scan = 1 .. L
  OBVIOUS
<1>2. \A i \in 1 .. n : left[i] \in T
  OBVIOUS
<1>3. \A j \in 1 .. L : scan[j] \in T
  OBVIOUS
<1>4. \A i \in 1 .. n, j \in 1 .. L : left[i] \o scan[j] \in T
  BY <1>2, <1>3, ConcatProperties
<1> HIDE DEF T, n, L
<1>5. \A i \in 1 .. n : block(i) \in Seq(T) /\ Len(block(i)) = L
                        /\ \A j \in 1 .. L : block(i)[j] = left[i] \o scan[j]
  BY <1>1, <1>4
<1> HIDE DEF block
<1>6. seqs \in Seq(Seq(T)) /\ Len(seqs) = n /\ \A i \in 1 .. n : seqs[i] = block(i)
  BY <1>1, <1>5
<1>7. Cross(left, scan) = FlattenSeq(seqs)
  BY DEF Cross, block
<1> HIDE DEF seqs
<1>8. FlattenSeq(seqs) \in Seq(T)
  BY <1>6, FlattenType
<1>9. /\ Len(FlattenSeq(seqs)) = Len(seqs) * L
      /\ \A i \in 1 .. Len(seqs), j \in 1 .. L : FlattenSeq(seqs)[Place(i, j, L)] = seqs[i][j]
  <2>1. \A i \in 1 .. Len(seqs) : Len(seqs[i]) = L
    BY <1>5, <1>6
  <2> QED
    BY <1>1, <1>6, <2>1, FlattenBlocks
<1> QED
  BY <1>5, <1>6, <1>7, <1>8, <1>9 DEF T, n, L

\* J[k]: the first k tables joined.
Products(from, h, J) ==
  /\ J \in [0 .. Len(from) -> Seq(Seq(Values))]
  /\ J[0] = << <<>> >>
  /\ \A k \in 1 .. Len(from) : J[k] = Cross(J[k - 1], h[from[k]])

IsHeap(h) == \A t \in Tables : h[t] \in Contents(t)

LEMMA ScanType ==
  ASSUME NEW from, IsFrom(from), NEW h, IsHeap(h), NEW k \in 1 .. Len(from)
  PROVE  /\ h[from[k]] \in Seq(Seq(Values)) /\ Len(h[from[k]]) \in Nat
         /\ \A i \in 1 .. Len(h[from[k]]) :
               h[from[k]][i] \in Seq(Values) /\ Len(h[from[k]][i]) = Len(Schema[from[k]])
<1>1. from[k] \in Tables
  BY DEF IsFrom
<1>2. h[from[k]] \in Contents(from[k])
  BY <1>1 DEF IsHeap
<1> QED
  BY <1>1, <1>2, ScanRows

LEMMA ProductsExist ==
  ASSUME NEW from, IsFrom(from), NEW h, IsHeap(h)
  PROVE  \E J : Products(from, h, J)
<1> DEFINE n == Len(from)
           T == Seq(Seq(Values))
           b == << <<>> >>
           z == 0
           step == [k \in z + 1 .. n |-> [rows \in T |-> Cross(rows, h[from[k]])]]
<1>1. n \in Nat /\ z \in Nat /\ z <= n
  BY DEF IsFrom
<1>2. b \in T
  OBVIOUS
<1>3. \A k \in 1 .. n : h[from[k]] \in T
  BY ScanType
<1> HIDE DEF T, b, n
<1>4. \A k \in 1 .. n : \A rows \in T : Cross(rows, h[from[k]]) \in T
  BY <1>3, CrossRows DEF T
<1>5. step \in Steps(z, n, T)
  BY <1>4 DEF Steps
<1>6. \A k \in 1 .. n : \A rows \in T : step[k][rows] = Cross(rows, h[from[k]])
  OBVIOUS
<1> HIDE DEF step, z
<1>7. PICK J \in [z .. n -> T] : Recurs(J, z, n, b, step)
  BY <1>1, <1>2, <1>5, Recursion
<1>8. J \in [0 .. n -> T] /\ J[0] = b /\ \A k \in 1 .. n : J[k] = step[k][J[k - 1]]
  BY <1>7 DEF Recurs, z
<1>9. \A k \in 1 .. n : J[k] = Cross(J[k - 1], h[from[k]])
  <2> SUFFICES ASSUME NEW k \in 1 .. n PROVE J[k] = Cross(J[k - 1], h[from[k]])
    OBVIOUS
  <2>1. J[k - 1] \in T
    BY <1>1, <1>8
  <2> QED
    BY <1>6, <1>8, <2>1
<1> QED
  BY <1>8, <1>9 DEF Products, T, b, n

LEMMA ProductIs ==
  ASSUME IsFrom(stmt.tables), IsHeap(heap), NEW J, Products(stmt.tables, heap, J)
  PROVE  Product = J
<1> DEFINE n == Top
           Eq(f) == f = [k \in 0 .. Top |-> IF k = 0 THEN << <<>> >> ELSE Cross(f[k - 1], ScanOf(k))]
           m == CHOOSE f : Eq(f)
<1>1. n \in Nat /\ n = Len(stmt.tables)
  BY DEF IsFrom, Top
<1>2. /\ J = [k \in 0 .. n |-> J[k]] /\ J[0] = << <<>> >>
      /\ \A k \in 1 .. n : J[k] = Cross(J[k - 1], ScanOf(k))
  BY <1>1 DEF Products, ScanOf
<1>3. \A k \in 0 .. n : J[k] = IF k = 0 THEN << <<>> >> ELSE Cross(J[k - 1], ScanOf(k))
  BY <1>1, <1>2
<1>4. Eq(J)
  BY <1>2, <1>3
<1>5. Eq(m)
  BY <1>4
<1>6. Product = m
  BY DEF Product
<1> HIDE DEF m
<1>7. \A k \in 0 .. n : m[k] = IF k = 0 THEN << <<>> >> ELSE Cross(m[k - 1], ScanOf(k))
  BY <1>5
<1>11. m = [k \in 0 .. n |-> m[k]]
  BY <1>5 DEF n
<1> HIDE DEF n
<1> SUFFICES ASSUME NEW l \in 0 .. n PROVE m[l] = J[l]
  BY <1>2, <1>6, <1>11
<1> DEFINE X == {k \in 0 .. l : m[k] = J[k]}
<1>8. 0 \in X
  BY <1>1, <1>2, <1>7
<1>9. ASSUME NEW k \in 0 + 1 .. l, k - 1 \in X PROVE k \in X
  <2>1. k \in 1 .. n /\ k \in 0 .. n /\ k # 0 /\ m[k - 1] = J[k - 1] /\ k \in 0 .. l
    BY <1>1, <1>9
  <2> QED
    BY <1>2, <1>7, <2>1
<1>10. l \in X
  <2> HIDE DEF X
  <2> QED
    BY <1>1, <1>8, <1>9, Upwards
<1> QED
  BY <1>10

LEMMA WidthsExist ==
  ASSUME NEW from, IsFrom(from)
  PROVE  \E W : Widths(from, W)
<1> DEFINE n == Len(from)
           z == 0
           step == [k \in z + 1 .. n |-> [w \in Nat |-> w + Len(Schema[from[k]])]]
<1>1. n \in Nat /\ z \in Nat /\ z <= n
  BY DEF IsFrom
<1>2. \A k \in 1 .. n : Len(Schema[from[k]]) \in Nat
  BY ColumnsOfTable DEF IsFrom
<1> HIDE DEF n
<1>3. step \in Steps(z, n, Nat)
  BY <1>2 DEF Steps
<1>4. \A k \in 1 .. n : \A w \in Nat : step[k][w] = w + Len(Schema[from[k]])
  OBVIOUS
<1> HIDE DEF step, z
<1>5. PICK W \in [z .. n -> Nat] : Recurs(W, z, n, z, step)
  BY <1>1, <1>3, Recursion
<1>6. W \in [0 .. n -> Nat] /\ W[0] = 0 /\ \A k \in 1 .. n : W[k] = step[k][W[k - 1]]
  BY <1>5 DEF Recurs, z
<1>7. \A k \in 1 .. n : W[k] = W[k - 1] + Len(Schema[from[k]])
  <2> SUFFICES ASSUME NEW k \in 1 .. n PROVE W[k] = W[k - 1] + Len(Schema[from[k]])
    OBVIOUS
  <2>1. W[k - 1] \in Nat
    BY <1>1, <1>6
  <2> QED
    BY <1>4, <1>6, <2>1
<1> QED
  BY <1>6, <1>7 DEF Widths, n

LEMMA WidthIs ==
  ASSUME IsFrom(stmt.tables), NEW W, Widths(stmt.tables, W)
  PROVE  Width = W
<1> DEFINE n == Top
           Eq(f) == f = [k \in 0 .. Top |->
                           IF k = 0 THEN 0 ELSE f[k - 1] + Len(Schema[stmt.tables[k]])]
           m == CHOOSE f : Eq(f)
<1>1. n \in Nat /\ n = Len(stmt.tables)
  BY DEF IsFrom, Top
<1>2. /\ W = [k \in 0 .. n |-> W[k]] /\ W[0] = 0
      /\ \A k \in 1 .. n : W[k] = W[k - 1] + Len(Schema[stmt.tables[k]])
  BY <1>1 DEF Widths
<1>3. \A k \in 0 .. n : W[k] = IF k = 0 THEN 0 ELSE W[k - 1] + Len(Schema[stmt.tables[k]])
  <2> HIDE DEF n
  <2>1. \A k \in 0 .. n : k = 0 \/ k \in 1 .. n
    BY <1>1
  <2> QED
    BY <1>2, <2>1
<1>4. Eq(W)
  BY <1>2, <1>3
<1>5. Eq(m)
  BY <1>4
<1>6. Width = m
  BY DEF Width
<1> HIDE DEF m
<1>7. \A k \in 0 .. n : m[k] = IF k = 0 THEN 0 ELSE m[k - 1] + Len(Schema[stmt.tables[k]])
  BY <1>5
<1>11. m = [k \in 0 .. n |-> m[k]]
  BY <1>5 DEF n
<1> HIDE DEF n
<1> SUFFICES ASSUME NEW l \in 0 .. n PROVE m[l] = W[l]
  BY <1>2, <1>6, <1>11
<1> DEFINE X == {k \in 0 .. l : m[k] = W[k]}
<1>8. 0 \in X
  BY <1>1, <1>2, <1>7
<1>9. ASSUME NEW k \in 0 + 1 .. l, k - 1 \in X PROVE k \in X
  <2>1. k \in 1 .. n /\ k \in 0 .. n /\ k # 0 /\ m[k - 1] = W[k - 1] /\ k \in 0 .. l
    BY <1>1, <1>9
  <2> QED
    BY <1>2, <1>7, <2>1
<1>10. l \in X
  <2> HIDE DEF X
  <2> QED
    BY <1>1, <1>8, <1>9, Upwards
<1> QED
  BY <1>10

-----------------------------------------------------------------------------
(* Expressions over a row.                                                  *)

Typed(v) == v.type \in {"INT", "STRING"}

\* A plan for the statement: its columns are in the map, and the map numbers the
\* columns of the joined row.
Planned ==
  /\ stmt.type = "SELECT" /\ IsFrom(stmt.tables) /\ Top \in Nat \ {0}
  /\ \A q \in DOMAIN colIdx : colIdx[q] \in 1 .. Width[Top]
  /\ \A e \in Range(stmt.select) : Evaluable(e, DOMAIN colIdx)
  /\ stmt.where # NoWhere => Evaluable(stmt.where, DOMAIN colIdx)

IsRow(row) == row \in Seq(Values) /\ Len(row) = Width[Top]

LEMMA FieldTyped ==
  ASSUME Planned, NEW row, IsRow(row), NEW a, IsField(a, DOMAIN colIdx)
  PROVE  Typed(EvalAtom(a, row, colIdx)) /\ IsAtom(a)
<1>1. CASE a.type = "LITERAL"
  BY <1>1 DEF IsField, EvalAtom, Typed, IsAtom
<1>2. CASE a.type # "LITERAL"
  <2>1. a.type = "COLUMN_REF" /\ <<a.table, a.column>> \in DOMAIN colIdx
    BY <1>2 DEF IsField
  <2>2. colIdx[<<a.table, a.column>>] \in 1 .. Len(row)
    BY <2>1 DEF Planned, IsRow
  <2>3. row[colIdx[<<a.table, a.column>>]] \in Values
    BY <2>2 DEF IsRow
  <2> QED
    BY <1>2, <2>1, <2>3, QueryAssumption DEF EvalAtom, Typed, IsAtom
<1> QED
  BY <1>1, <1>2

LEMMA EvalTyped ==
  ASSUME Planned, NEW row, IsRow(row), NEW e, Evaluable(e, DOMAIN colIdx)
  PROVE  LET v == Eval(e, row, colIdx) IN
         /\ Undefined(e, row) => v = Raised
         /\ ~Undefined(e, row) => v.type \in {"INT", "STRING"}
         /\ ~Undefined(e, row) /\ v.type = "STRING" => IsAtom(e) /\ IsString(e, row)
         /\ IsAtom(e) /\ IsString(e, row) => v.type = "STRING"
<1>1. CASE IsAtom(e)
  <2>1. IsField(e, DOMAIN colIdx)
    BY <1>1 DEF Evaluable, IsAtom
  <2>2. Typed(EvalAtom(e, row, colIdx))
    BY <2>1, FieldTyped
  <2>3. Eval(e, row, colIdx) = EvalAtom(e, row, colIdx)
    BY <1>1 DEF Eval
  <2> QED
    BY <1>1, <2>2, <2>3 DEF Typed, Undefined, IsString
<1>2. CASE ~IsAtom(e)
  <2> DEFINE l == EvalAtom(e.left, row, colIdx)
             r == EvalAtom(e.right, row, colIdx)
  <2>1. /\ e.op \in Operators
        /\ IsField(e.left, DOMAIN colIdx) /\ IsField(e.right, DOMAIN colIdx)
    <3>1. ~IsField(e, DOMAIN colIdx)
      BY <1>2, FieldTyped
    <3> QED
      BY <3>1 DEF Evaluable
  <2>2. Typed(l) /\ Typed(r)
    BY <2>1, FieldTyped
  <2>3. \A b : Bool(b).type = "INT"
    BY DEF Bool
  <2>4. CASE e.op \in Compare
    <3>1. Eval(e, row, colIdx) = IF l.type # r.type THEN Raised ELSE Bool(Holds(e.op, l.val, r.val))
      BY <1>2, <2>4 DEF Eval
    <3>2. Undefined(e, row) <=> ((l.type = "STRING") # (r.type = "STRING"))
      BY <1>2, <2>4 DEF Undefined, IsString
    <3> HIDE DEF l, r
    <3>3. Undefined(e, row) <=> l.type # r.type
      BY <2>2, <3>2 DEF Typed
    <3> QED
      BY <1>2, <2>3, <3>1, <3>3
  <2>5. CASE e.op \notin Compare
    <3>1. e.op \in {"AND", "OR"}
      BY <2>1, <2>5 DEF Operators
    <3>2. Eval(e, row, colIdx) =
            IF l.type = "INT" /\ (l.val # 0 <=> e.op = "OR") THEN Bool(e.op = "OR")
            ELSE IF "STRING" \in {l.type, r.type} THEN Raised ELSE Bool(r.val # 0)
      BY <1>2, <2>5 DEF Eval
    <3>3. Undefined(e, row) <=> \/ l.type = "STRING"
                                \/ r.type = "STRING" /\ (l.val # 0 <=> e.op = "AND")
      BY <1>2, <2>5 DEF Undefined, IsString
    <3> HIDE DEF l, r
    <3>4. CASE Undefined(e, row)
      BY <1>2, <2>2, <3>1, <3>2, <3>3, <3>4 DEF Typed
    <3>5. CASE ~Undefined(e, row)
      BY <1>2, <2>2, <2>3, <3>1, <3>2, <3>3, <3>5 DEF Typed
    <3> QED
      BY <3>4, <3>5
  <2> QED
    BY <2>4, <2>5
<1> QED
  BY <1>1, <1>2

LEMMA OutcomeRaises ==
  ASSUME Planned, NEW row, IsRow(row)
  PROVE  /\ Outcome(row) = "raise" => RaisesOn(row)
         /\ RaisesOn(row) => Outcome(row) = "raise"
         /\ Outcome(row) = "keep" => Verdict(row) = "keep"
         /\ Outcome(row) # "raise" /\ Verdict(row) = "keep" => Outcome(row) = "keep"
<1>1. /\ Verdict(row) = "raise" =>
           /\ stmt.where # NoWhere
           /\ Undefined(stmt.where, row) \/ (IsAtom(stmt.where) /\ IsString(stmt.where, row))
      /\ stmt.where # NoWhere
           /\ (Undefined(stmt.where, row) \/ (IsAtom(stmt.where) /\ IsString(stmt.where, row)))
           => Verdict(row) = "raise"
  <2>1. CASE stmt.where = NoWhere
    BY <2>1 DEF Verdict
  <2>2. CASE stmt.where # NoWhere
    <3> DEFINE v == Eval(stmt.where, row, colIdx)
    <3>1. Evaluable(stmt.where, DOMAIN colIdx)
      BY <2>2 DEF Planned
    <3>2. /\ Undefined(stmt.where, row) => v = Raised
          /\ ~Undefined(stmt.where, row) => v.type \in {"INT", "STRING"}
          /\ ~Undefined(stmt.where, row) /\ v.type = "STRING" => IsAtom(stmt.where) /\ IsString(stmt.where, row)
          /\ IsAtom(stmt.where) /\ IsString(stmt.where, row) => v.type = "STRING"
      BY <3>1, EvalTyped
    <3>3. Verdict(row) = IF v.type # "INT" THEN "raise" ELSE IF v.val # 0 THEN "keep" ELSE "drop"
      BY <2>2 DEF Verdict
    <3> HIDE DEF v
    <3> QED
      BY <2>2, <3>2, <3>3 DEF Raised
  <2> QED
    BY <2>1, <2>2
<1>2. /\ Raised \in Range(Projected(row)) => \E e \in Range(stmt.select) : Undefined(e, row)
      /\ (\E e \in Range(stmt.select) : Undefined(e, row)) => Raised \in Range(Projected(row))
  <2>1. \A e \in Range(stmt.select) : /\ Undefined(e, row) => Eval(e, row, colIdx) = Raised
                                     /\ Eval(e, row, colIdx) = Raised => Undefined(e, row)
    <3> SUFFICES ASSUME NEW e \in Range(stmt.select)
                 PROVE  /\ Undefined(e, row) => Eval(e, row, colIdx) = Raised
                        /\ Eval(e, row, colIdx) = Raised => Undefined(e, row)
      OBVIOUS
    <3>1. Evaluable(e, DOMAIN colIdx)
      BY DEF Planned
    <3>2. /\ Undefined(e, row) => Eval(e, row, colIdx) = Raised
          /\ ~Undefined(e, row) => Eval(e, row, colIdx).type \in {"INT", "STRING"}
      BY <3>1, EvalTyped
    <3>3. Raised.type \notin {"INT", "STRING"}
      BY DEF Raised
    <3> QED
      BY <3>2, <3>3
  <2>2. Range(Projected(row)) = {Eval(e, row, colIdx) : e \in Range(stmt.select)}
    BY DEF Range, Projected
  <2>3. (\E e \in Range(stmt.select) : Undefined(e, row)) => Raised \in Range(Projected(row))
    <3> SUFFICES ASSUME NEW e \in Range(stmt.select), Undefined(e, row)
                 PROVE  Raised \in Range(Projected(row))
      OBVIOUS
    <3>1. Evaluable(e, DOMAIN colIdx)
      BY DEF Planned
    <3>2. Eval(e, row, colIdx) = Raised
      BY <3>1, EvalTyped
    <3> QED
      BY <2>2, <3>2
  <2>4. Raised \in Range(Projected(row)) => \E e \in Range(stmt.select) : Undefined(e, row)
    <3> SUFFICES ASSUME Raised \in Range(Projected(row))
                 PROVE  \E e \in Range(stmt.select) : Undefined(e, row)
      OBVIOUS
    <3>1. PICK e \in Range(stmt.select) : Eval(e, row, colIdx) = Raised
      BY <2>2
    <3> QED
      BY <2>1, <3>1
  <2> QED
    BY <2>3, <2>4
<1>3. Outcome(row) = IF Verdict(row) = "keep" /\ Raised \in Range(Projected(row))
                     THEN "raise" ELSE Verdict(row)
  BY DEF Outcome
<1> QED
  BY <1>1, <1>2, <1>3 DEF RaisesOn

-----------------------------------------------------------------------------
(* What the properties are written with.                                    *)

Answers(A) ==
  /\ A[0] = <<>>
  /\ \A m \in 1 .. Len(Joined) :
        A[m] = IF Verdict(Joined[m]) = "keep" THEN Append(A[m - 1], Projected(Joined[m]))
               ELSE A[m - 1]

LEMMA AnswersAre ==
  ASSUME Len(Joined) \in Nat
  PROVE  Answers(AnswerTo)
<1> DEFINE n == Len(Joined)
           R == {Projected(Joined[m]) : m \in 1 .. n}
           T == Seq(R)
           z == 0
           b == <<>>
           step == [m \in z + 1 .. n |->
                      [s \in T |-> IF Verdict(Joined[m]) = "keep" THEN Append(s, Projected(Joined[m]))
                                   ELSE s]]
           Eq(f) == f = [m \in 0 .. Len(Joined) |->
                           IF m = 0 THEN <<>>
                           ELSE IF Verdict(Joined[m]) = "keep" THEN Append(f[m - 1], Projected(Joined[m]))
                           ELSE f[m - 1]]
           c == CHOOSE f : Eq(f)
<1>1. n \in Nat /\ z \in Nat /\ z <= n /\ b \in T
  OBVIOUS
<1>2. \A m \in 1 .. n : Projected(Joined[m]) \in R
  OBVIOUS
<1> HIDE DEF R
<1>3. \A m \in 1 .. n : \A s \in T : Append(s, Projected(Joined[m])) \in T
  BY <1>2
<1> HIDE DEF T, n, b
<1>4. step \in Steps(z, n, T)
  BY <1>3 DEF Steps
<1>5. \A m \in 1 .. n : \A s \in T :
        step[m][s] = IF Verdict(Joined[m]) = "keep" THEN Append(s, Projected(Joined[m])) ELSE s
  OBVIOUS
<1> HIDE DEF step, z
<1>6. PICK A \in [z .. n -> T] : Recurs(A, z, n, b, step)
  BY <1>1, <1>4, Recursion
<1>7. A \in [0 .. n -> T] /\ A[0] = b /\ \A m \in 1 .. n : A[m] = step[m][A[m - 1]]
  BY <1>6 DEF Recurs, z
<1>8. ASSUME NEW m \in 0 .. n
      PROVE  A[m] = IF m = 0 THEN <<>>
                    ELSE IF Verdict(Joined[m]) = "keep" THEN Append(A[m - 1], Projected(Joined[m]))
                    ELSE A[m - 1]
  <2>1. CASE m = 0
    BY <1>7, <2>1 DEF b
  <2>2. CASE m # 0
    <3>1. m \in 1 .. n /\ m - 1 \in 0 .. n
      BY <1>1, <2>2
    <3>2. A[m - 1] \in T
      BY <1>7, <3>1
    <3> QED
      BY <1>5, <1>7, <2>2, <3>1, <3>2
  <2> QED
    BY <2>1, <2>2
<1>9. Eq(A)
  BY <1>7, <1>8 DEF n
<1>10. Eq(c)
  BY <1>9
<1>11. AnswerTo = c
  BY DEF AnswerTo
<1> HIDE DEF c
<1>12. \A m \in 0 .. Len(Joined) :
        c[m] = IF m = 0 THEN <<>>
               ELSE IF Verdict(Joined[m]) = "keep" THEN Append(c[m - 1], Projected(Joined[m]))
               ELSE c[m - 1]
  BY <1>10
<1> HIDE DEF Eq
<1>13. 0 \in 0 .. Len(Joined) /\ \A m \in 1 .. Len(Joined) : m \in 0 .. Len(Joined) /\ m # 0
  BY <1>1 DEF n
<1> QED
  BY <1>11, <1>12, <1>13 DEF Answers

LEMMA Basics ==
  IsFrom(stmt.tables) /\ Top \in Nat /\ IsHeap(heap) =>
    /\ Widths(stmt.tables, Width) /\ Products(stmt.tables, heap, Product)
    /\ Joined \in Seq(Seq(Values)) /\ Answers(AnswerTo)
<1> SUFFICES ASSUME IsFrom(stmt.tables), Top \in Nat, IsHeap(heap)
             PROVE  /\ Widths(stmt.tables, Width) /\ Products(stmt.tables, heap, Product)
                    /\ Joined \in Seq(Seq(Values)) /\ Answers(AnswerTo)
  OBVIOUS
<1>1. Widths(stmt.tables, Width)
  BY WidthsExist, WidthIs
<1>2. Products(stmt.tables, heap, Product)
  BY ProductsExist, ProductIs
<1>3. Joined \in Seq(Seq(Values))
  BY <1>2 DEF Products, Joined, Top
<1>4. Len(Joined) \in Nat
  BY <1>3
<1> QED
  BY <1>1, <1>2, <1>3, <1>4, AnswersAre

\* Nothing of this changes while a statement runs.
LEMMA Frame ==
  ASSUME UNCHANGED <<heap, stmt, colIdx>>
  PROVE  /\ Width' = Width /\ Product' = Product /\ Joined' = Joined /\ AnswerTo' = AnswerTo
         /\ Top' = Top /\ Nodes' = Nodes /\ Planned' = Planned
<1>1. Width' = Width
  BY DEF Width, Top
<1>2. Product' = Product
  BY DEF Product, Top, ScanOf
<1>3. Joined' = Joined
  BY DEF Joined, Product, Top, ScanOf
<1>4. \A row : Verdict(row)' = Verdict(row) /\ Projected(row)' = Projected(row)
  BY DEF Verdict, Projected
<1>5. AnswerTo' = AnswerTo
  BY <1>3, <1>4 DEF AnswerTo
<1>6. Top' = Top /\ Nodes' = Nodes
  BY DEF Top, Nodes
<1>7. Planned' = Planned
  BY <1>1, <1>6 DEF Planned
<1> QED
  BY <1>1, <1>2, <1>3, <1>5, <1>6, <1>7

LEMMA RaisingFramed ==
  ASSUME UNCHANGED <<heap, stmt, colIdx>>, NEW row
  PROVE  RaisesOn(row)' = RaisesOn(row)
  BY DEF RaisesOn, Verdict, Undefined, IsString

-----------------------------------------------------------------------------
(* The walk over the product.                                               *)

Phases == {"received", "parsed", "unparsed", "bound", "rejected",
           "planned", "running", "done", "failed"}

\* Cursors and left rows.
Shape ==
  /\ at \in 1 .. Top
  /\ cursor \in [1 .. Top -> Nat]
  /\ leftRow = [k \in 1 .. Top |-> leftRow[k]]
  /\ \A k \in 1 .. Top : cursor[k] <= Len(ScanOf(k))
  /\ \A k \in 1 .. Top : leftRow[k] = <<>> \/ Len(leftRow[k]) = Width[k - 1]

\* pos[k]: the row of the product of the first k tables that node k delivered last.
\* Up to the node that runs, a left row is the row its left side delivered last, and
\* the cursor says how many partners it has had; beyond it every row that the left
\* side has delivered has had all of its partners.
Reached(pos, k) ==
  IF k <= at
  THEN /\ pos[k - 1] \in 1 .. Len(Product[k - 1])
       /\ leftRow[k] = Product[k - 1][pos[k - 1]]
       /\ leftRow[k] \in Seq(Values) /\ Len(leftRow[k]) = Width[k - 1]
       /\ pos[k] = Place(pos[k - 1], cursor[k], Len(ScanOf(k)))
  ELSE cursor[k] = 0 /\ pos[k] = pos[k - 1] * Len(ScanOf(k))

Walk(pos) ==
  /\ pos \in [0 .. Top -> Nat] /\ pos[0] = 1
  /\ \A k \in 1 .. Top : Reached(pos, k)

\* The rows of the product up to the one delivered last have been answered.
Answered(pos) ==
  /\ results = AnswerTo[pos[Top]]
  /\ \A m \in 1 .. pos[Top] : ~RaisesOn(Joined[m])

IInv ==
  /\ phase \in Phases
  /\ IsHeap(heap)
  /\ \E x \in Sent : text = x.text
  /\ phase = "parsed" /\ stmt.type = "SELECT" => IsSelect(stmt)
  /\ phase \in {"received", "parsed"} => at = 1 /\ results = <<>>
  /\ phase \in {"planned", "running", "done", "failed"} => Planned /\ Shape
  /\ phase \in {"planned", "running"} => \E pos : Walk(pos) /\ Answered(pos)
  /\ ResultIsQuery

LEMMA InitInv ==
  ASSUME Init PROVE IInv
<1>1. IsHeap(heap)
  <2>1. PICK h \in [Read -> UNION {Contents(t) : t \in Tables}] :
          /\ \A t \in Read : h[t] \in Contents(t)
          /\ heap = [t \in Tables |-> IF t \in Read THEN h[t] ELSE <<>>]
    BY DEF Init
  <2>2. \A t \in Tables : <<>> \in Contents(t)
    <3> SUFFICES ASSUME NEW t \in Tables PROVE <<>> \in Contents(t)
      OBVIOUS
    <3>1. 0 \in 0 .. MaxRows
      BY QueryAssumption
    <3>2. <<>> \in [1 .. 0 -> Rows(t)]
      OBVIOUS
    <3> QED
      BY <3>1, <3>2 DEF Contents
  <2> QED
    BY <2>1, <2>2 DEF IsHeap
<1> QED
  BY <1>1 DEF Init, IInv, Phases, ResultIsQuery

LEMMA ParseInv ==
  ASSUME IInv, ParseText PROVE IInv'
<1> USE DEF ParseText, tree
<1>1. IsHeap(heap)' /\ (\E x \in Sent : text = x.text)'
  BY DEF IInv, IsHeap
<1>2. phase' = "parsed" /\ stmt'.type = "SELECT" => IsSelect(stmt')
  <2>1. PICK x \in Sent : text = x.text
    BY DEF IInv
  <2>2. \A r \in Parsed(text) : r.node.type = "SELECT" => IsSelect(r.node)
    BY <2>1, QueryAssumption
  <2>3. phase' = "parsed" => \E r \in Parsed(text) : stmt' = r.node
    OBVIOUS
  <2> QED
    BY <2>2, <2>3
<1>3. phase' \in {"parsed", "unparsed"} /\ at' = 1 /\ results' = <<>>
  BY DEF IInv
<1> QED
  BY <1>1, <1>2, <1>3 DEF IInv, Phases, ResultIsQuery

LEMMA BindInv ==
  ASSUME IInv, BindStatement PROVE IInv'
<1> USE DEF BindStatement
<1>1. IsHeap(heap)' /\ (\E x \in Sent : text = x.text)'
  BY DEF IInv, IsHeap
<1>2. at' = 1 /\ results' = <<>>
  BY DEF IInv
<1>3. CASE phase' # "planned"
  BY <1>1, <1>2, <1>3 DEF IInv, Phases, ResultIsQuery
<1>4. CASE phase' = "planned"
  <2> DEFINE from == stmt.tables
             n == Len(from)
  <2>1. /\ Accepts(stmt) /\ stmt.type = "SELECT" /\ IsSelect(stmt) /\ stmt' = Bound(stmt)
        /\ colIdx' \in ColumnMaps(from)
        /\ cursor' = [k \in Nodes |-> 0] /\ leftRow' = [k \in Nodes |-> <<>>]
    BY <1>4 DEF IInv
  <2>2. /\ stmt'.type = "SELECT" /\ stmt'.tables = from /\ IsFrom(from) /\ n \in Nat \ {0}
        /\ \A e \in Range(stmt'.select) : Evaluable(e, Fields(from))
        /\ stmt'.where # NoWhere => Evaluable(stmt'.where, Fields(from))
    BY <2>1, SelectBound
  <2>3. Top' = n /\ Nodes = 1 .. n /\ Nodes' = 1 .. n
    BY <2>2 DEF Top, Nodes, IsFrom
  <2>4. /\ Widths(from, Width') /\ Products(from, heap, Product')
        /\ Joined' \in Seq(Seq(Values)) /\ Answers(AnswerTo)'
    <3>1. (IsFrom(stmt.tables) /\ Top \in Nat /\ IsHeap(heap) =>
             /\ Widths(stmt.tables, Width) /\ Products(stmt.tables, heap, Product)
             /\ Joined \in Seq(Seq(Values)) /\ Answers(AnswerTo))'
      BY Basics, PTL
    <3>2. (IsFrom(stmt.tables) /\ Top \in Nat /\ IsHeap(heap))'
      BY <1>1, <2>2, <2>3 DEF IsFrom
    <3>3. heap' = heap
      OBVIOUS
    <3> QED
      BY <2>2, <3>1, <3>2, <3>3
  <2>5. DOMAIN colIdx' = Fields(from) /\ \A q \in DOMAIN colIdx' : colIdx'[q] \in 1 .. Width'[n]
    BY <2>1, <2>2, <2>4, MapsNumber
  <2>6. Planned'
    BY <2>2, <2>3, <2>5 DEF Planned, IsFrom
  <2>7. Shape'
    <3>1. \A k \in 1 .. n : Len(ScanOf(k)') \in Nat
      BY <1>1, <2>2, ScanType DEF ScanOf, IsHeap
    <3> QED
      BY <1>2, <2>1, <2>2, <2>3, <3>1 DEF Shape
  <2>11. PICK pos : pos = [k \in 0 .. n |-> IF k = 0 THEN 1 ELSE 0]
    OBVIOUS
  <2>8. Walk(pos)'
    <3>1. pos \in [0 .. n -> Nat] /\ pos[0] = 1 /\ \A k \in 1 .. n : pos[k] = 0
      BY <2>11
    <3>2. \A k \in 1 .. n : Len(ScanOf(k)') \in Nat
      BY <1>1, <2>2, ScanType DEF ScanOf, IsHeap
    <3>3. Product'[0] = << <<>> >> /\ Width'[0] = 0
      BY <2>4 DEF Products, Widths
    <3>4. ASSUME NEW k \in 1 .. n PROVE Reached(pos, k)'
      <4>1. cursor'[k] = 0 /\ leftRow'[k] = <<>>
        BY <2>1, <2>3
      <4>2. CASE k = 1
        <5>1. pos[k - 1] = 1 /\ pos[k] = 0
          BY <3>1, <4>2
        <5>2. 1 \in 1 .. Len(Product'[0]) /\ Product'[0][1] = <<>>
          BY <3>3
        <5>3. Place(1, 0, Len(ScanOf(k)')) = 0
          BY <3>2 DEF Place
        <5>4. leftRow'[k] \in Seq(Values) /\ Len(leftRow'[k]) = Width'[k - 1]
          BY <3>3, <4>1, <4>2
        <5> QED
          BY <1>2, <4>1, <4>2, <5>1, <5>2, <5>3, <5>4 DEF Reached
      <4>3. CASE k # 1
        <5>1. pos[k - 1] = 0 /\ pos[k] = 0
          BY <3>1, <4>3
        <5>2. 0 * Len(ScanOf(k)') = 0
          BY <3>2
        <5> QED
          BY <1>2, <4>1, <4>3, <5>1, <5>2 DEF Reached
      <4> QED
        BY <4>2, <4>3
    <3> QED
      BY <2>3, <3>1, <3>4 DEF Walk
  <2>9. Answered(pos)'
    <3>1. pos[n] = 0
      BY <2>2, <2>11
    <3>2. AnswerTo'[0] = <<>>
      BY <2>4 DEF Answers
    <3> QED
      BY <1>2, <2>3, <3>1, <3>2 DEF Answered
  <2>10. \E p : (Walk(p) /\ Answered(p))'
    BY <2>8, <2>9
  <2> QED
    BY <1>1, <1>4, <2>6, <2>7, <2>10 DEF IInv, Phases, ResultIsQuery
<1> QED
  BY <1>3, <1>4

LEMMA RunFacts ==
  ASSUME IInv, phase \in {"planned", "running"}
  PROVE  /\ Planned /\ Shape /\ Top \in Nat \ {0} /\ Nodes = 1 .. Top
         /\ Widths(stmt.tables, Width) /\ Products(stmt.tables, heap, Product)
         /\ Joined = Product[Top] /\ Joined \in Seq(Seq(Values)) /\ Answers(AnswerTo)
         /\ \A k \in 1 .. Top :
               /\ Len(ScanOf(k)) \in Nat
               /\ \A i \in 1 .. Len(ScanOf(k)) :
                     ScanOf(k)[i] \in Seq(Values) /\ Len(ScanOf(k)[i]) = Len(Schema[stmt.tables[k]])
<1>1. Planned /\ Shape /\ IsHeap(heap) /\ IsFrom(stmt.tables) /\ Top \in Nat \ {0} /\ Nodes = 1 .. Top
  BY DEF IInv, Planned, Nodes, Top, IsFrom
<1>2. /\ Widths(stmt.tables, Width) /\ Products(stmt.tables, heap, Product)
      /\ Joined = Product[Top] /\ Joined \in Seq(Seq(Values)) /\ Answers(AnswerTo)
  BY <1>1, Basics DEF Joined
<1>3. \A k \in 1 .. Top :
         /\ Len(ScanOf(k)) \in Nat
         /\ \A i \in 1 .. Len(ScanOf(k)) :
               ScanOf(k)[i] \in Seq(Values) /\ Len(ScanOf(k)[i]) = Len(Schema[stmt.tables[k]])
  BY <1>1, ScanType DEF ScanOf, Top
<1> QED
  BY <1>1, <1>2, <1>3

\* The rows of the product of the first k tables, counted and found.
LEMMA ProductRows ==
  ASSUME IInv, phase \in {"planned", "running"}, NEW k \in 1 .. Top
  PROVE  LET L == Len(ScanOf(k)) IN
         /\ Len(Product[k - 1]) \in Nat /\ Len(Product[k]) = Len(Product[k - 1]) * L
         /\ \A i \in 1 .. Len(Product[k - 1]), j \in 1 .. L :
               Product[k][Place(i, j, L)] = Product[k - 1][i] \o ScanOf(k)[j]
<1> DEFINE T == Seq(Seq(Values))
           left == Product[k - 1]
           scan == ScanOf(k)
<1>1. Products(stmt.tables, heap, Product) /\ IsFrom(stmt.tables) /\ IsHeap(heap)
      /\ Top \in Nat /\ Top = Len(stmt.tables)
  BY RunFacts DEF Planned, IInv, Top
<1>2. k - 1 \in 0 .. Top /\ k \in 1 .. Len(stmt.tables)
  BY <1>1
<1>3. left \in T
  BY <1>1, <1>2 DEF Products
<1>4. scan \in T
  BY <1>1, <1>2, ScanType DEF ScanOf
<1>5. Product[k] = Cross(left, scan)
  BY <1>1, <1>2 DEF Products, ScanOf
<1> HIDE DEF left, scan
<1>6. /\ Len(Cross(left, scan)) = Len(left) * Len(scan)
      /\ \A i \in 1 .. Len(left), j \in 1 .. Len(scan) :
            Cross(left, scan)[Place(i, j, Len(scan))] = left[i] \o scan[j]
  BY <1>3, <1>4, CrossRows
<1>7. Len(left) \in Nat
  BY <1>3
<1> QED
  BY <1>5, <1>6, <1>7 DEF left, scan

\* The row a scan delivers is the next of the product.
LEMMA NextRow ==
  ASSUME IInv, phase = "running", NEW pos, Walk(pos), NEW k \in 1 .. Top, at = k, HasNext(k)
  PROVE  LET row == leftRow[k] \o ScanOf(k)[cursor[k] + 1] IN
         /\ pos[k] \in Nat /\ pos[k] + 1 \in 1 .. Len(Product[k])
         /\ pos[k] + 1 = Place(pos[k - 1], cursor[k] + 1, Len(ScanOf(k)))
         /\ row = Product[k][pos[k] + 1]
         /\ row \in Seq(Values) /\ Len(row) = Width[k]
<1> DEFINE L == Len(ScanOf(k))
           i == pos[k - 1]
           c == cursor[k]
           n == Len(Product[k - 1])
           left == leftRow[k]
           part == ScanOf(k)[c + 1]
<1>1. /\ i \in 1 .. n /\ left = Product[k - 1][i] /\ left \in Seq(Values) /\ Len(left) = Width[k - 1]
      /\ pos[k] = Place(i, c, L)
  BY DEF Walk, Reached
<1>2. L \in Nat /\ c \in Nat /\ c + 1 \in 1 .. L
  BY RunFacts DEF Shape, HasNext
<1>3. part \in Seq(Values) /\ Len(part) = Len(Schema[stmt.tables[k]])
  BY <1>2, RunFacts
<1>4. n \in Nat /\ Len(Product[k]) = n * L /\ Product[k][Place(i, c + 1, L)] = left \o part
  BY <1>1, <1>2, ProductRows
<1>5. Width[k] = Width[k - 1] + Len(Schema[stmt.tables[k]])
  BY RunFacts DEF Widths, Top
<1> HIDE DEF L, i, c, n, left, part
<1>6. left \o part \in Seq(Values) /\ Len(left \o part) = Width[k]
  BY <1>1, <1>3, <1>5, ConcatProperties
<1>7. (i - 1) * L \in Nat /\ (i - 1) * L + L <= n * L
  <2>1. i \in Nat /\ i - 1 \in Nat /\ i - 1 < n
    BY <1>1, <1>4
  <2> QED
    BY <1>2, <1>4, <2>1, Times
<1>8. /\ Place(i, c, L) \in Nat /\ Place(i, c, L) + 1 = Place(i, c + 1, L)
      /\ Place(i, c, L) + 1 \in 1 .. n * L
  <2> DEFINE A == (i - 1) * L
             N == n * L
  <2>1. A \in Nat /\ A + L <= N /\ N \in Nat
    BY <1>2, <1>4, <1>7
  <2>2. Place(i, c, L) = A + c /\ Place(i, c + 1, L) = A + (c + 1)
    BY DEF Place
  <2> HIDE DEF A, N
  <2>3. /\ Place(i, c, L) \in Nat /\ Place(i, c, L) + 1 = Place(i, c + 1, L)
        /\ Place(i, c, L) + 1 \in 1 .. N
    BY <1>2, <2>1, <2>2
  <2> QED
    BY <2>3 DEF N
<1>9. /\ pos[k] \in Nat /\ pos[k] + 1 \in 1 .. Len(Product[k])
      /\ pos[k] + 1 = Place(i, c + 1, L)
      /\ left \o part = Product[k][pos[k] + 1]
  BY <1>1, <1>4, <1>8
<1> QED
  BY <1>6, <1>9 DEF L, i, c, n, left, part

\* What the steps of the execution leave as it is.
LEMMA RunFrame ==
  ASSUME IInv, phase \in {"planned", "running"}, UNCHANGED <<text, heap, stmt, colIdx>>
  PROVE  /\ IsHeap(heap)' /\ (\E x \in Sent : text = x.text)' /\ Planned'
         /\ Width' = Width /\ Product' = Product /\ Joined' = Joined /\ AnswerTo' = AnswerTo
         /\ Top' = Top /\ \A k : ScanOf(k)' = ScanOf(k)
         /\ \A row : RaisesOn(row)' = RaisesOn(row)
<1>1. IsHeap(heap)' /\ (\E x \in Sent : text = x.text)'
  BY DEF IInv, IsHeap
<1>2. Planned'
  BY RunFacts, Frame
<1>3. \A k : ScanOf(k)' = ScanOf(k)
  BY DEF ScanOf
<1> QED
  BY <1>1, <1>2, <1>3, Frame, RaisingFramed

\* A pull from a scan that is not the last: the row goes to the join above.
LEMMA JoinStep ==
  ASSUME IInv, NEW pos, Walk(pos), NEW k \in 1 .. Top, Pull(k), k < Top
  PROVE  /\ Shape'
         /\ Walk([pos EXCEPT ![k] = @ + 1])'
<1> DEFINE row == leftRow[k] \o ScanOf(k)[cursor[k] + 1]
           p == pos[k] + 1
           next == [pos EXCEPT ![k] = @ + 1]
           L == Len(ScanOf(k))
<1>1. /\ phase = "running" /\ at = k /\ HasNext(k)
      /\ cursor' = [cursor EXCEPT ![k] = @ + 1]
      /\ leftRow' = [leftRow EXCEPT ![k + 1] = row] /\ at' = k + 1
      /\ UNCHANGED <<text, heap, stmt, colIdx>>
  BY DEF Pull, Deliver
<1>2. Shape /\ Top \in Nat /\ k + 1 \in 1 .. Top
      /\ cursor \in [1 .. Top -> Nat] /\ cursor[k] + 1 \in 0 .. L
  BY <1>1, RunFacts DEF Shape, HasNext
<1>3. /\ Width' = Width /\ Product' = Product /\ Top' = Top /\ \A j : ScanOf(j)' = ScanOf(j)
  BY <1>1, RunFrame
<1>4. /\ pos[k] \in Nat /\ p \in 1 .. Len(Product[k])
      /\ p = Place(pos[k - 1], cursor[k] + 1, L)
      /\ row = Product[k][p] /\ row \in Seq(Values) /\ Len(row) = Width[k]
  BY <1>1, NextRow
<1>5. /\ pos \in [0 .. Top -> Nat] /\ pos[0] = 1 /\ k \in 0 .. Top /\ k # 0
      /\ \A j \in 1 .. Top : Reached(pos, j)
  BY <1>2 DEF Walk
<1> HIDE DEF row, p, next, L
<1>6. /\ next \in [0 .. Top -> Nat] /\ next[k] = p
      /\ \A j \in 0 .. Top : j # k => next[j] = pos[j]
  BY <1>4, <1>5 DEF next, p
<1>7. /\ cursor' \in [1 .. Top -> Nat] /\ cursor'[k] = cursor[k] + 1
      /\ \A j \in 1 .. Top : j # k => cursor'[j] = cursor[j]
      /\ leftRow'[k + 1] = row
      /\ \A j \in 1 .. Top : j # k + 1 => leftRow'[j] = leftRow[j]
      /\ leftRow' = [j \in 1 .. Top |-> leftRow'[j]]
  <2>1. leftRow = [j \in 1 .. Top |-> leftRow[j]]
    BY <1>2 DEF Shape
  <2>2. /\ leftRow'[k + 1] = row
        /\ \A j \in 1 .. Top : j # k + 1 => leftRow'[j] = leftRow[j]
        /\ leftRow' = [j \in 1 .. Top |-> leftRow'[j]]
    BY <1>1, <1>2, <2>1
  <2>3. /\ cursor' \in [1 .. Top -> Nat] /\ cursor'[k] = cursor[k] + 1
        /\ \A j \in 1 .. Top : j # k => cursor'[j] = cursor[j]
    BY <1>1, <1>2
  <2> QED
    BY <2>2, <2>3
<1>8. Shape'
  <2>1. ASSUME NEW j \in 1 .. Top
        PROVE  /\ cursor'[j] <= Len(ScanOf(j))
               /\ leftRow'[j] = <<>> \/ Len(leftRow'[j]) = Width[j - 1]
    <3>1. cursor[j] <= Len(ScanOf(j)) /\ (leftRow[j] = <<>> \/ Len(leftRow[j]) = Width[j - 1])
      BY <1>2 DEF Shape
    <3>2. cursor'[j] <= Len(ScanOf(j))
      BY <1>2, <1>7, <3>1 DEF L
    <3>3. leftRow'[j] = <<>> \/ Len(leftRow'[j]) = Width[j - 1]
      <4>1. CASE j = k + 1
        <5>1. j - 1 = k
          BY <4>1
        <5> QED
          BY <1>4, <1>7, <4>1, <5>1
      <4>2. CASE j # k + 1
        BY <1>7, <3>1, <4>2
      <4> QED
        BY <4>1, <4>2
    <3> QED
      BY <3>2, <3>3
  <2> QED
    BY <1>1, <1>2, <1>3, <1>7, <2>1 DEF Shape
<1>9. ASSUME NEW j \in 1 .. Top PROVE Reached(next, j)'
  <2>1. j \in 0 .. Top /\ j - 1 \in 0 .. Top /\ Reached(pos, j)
    BY <1>2, <1>5
  <2>2. CASE j < k
    <3>1. j <= at /\ j <= at' /\ j # k /\ j - 1 # k /\ j # k + 1
      BY <1>1, <2>2
    <3> QED
      BY <1>3, <1>6, <1>7, <2>1, <3>1 DEF Reached
  <2>3. CASE j = k
    <3>1. k <= at /\ k <= at' /\ k - 1 # k /\ k # k + 1
      BY <1>1
    <3> QED
      BY <1>3, <1>4, <1>6, <1>7, <2>1, <2>3, <3>1 DEF Reached, L
  <2>4. CASE j = k + 1
    <3>1. ~(j <= at) /\ j <= at' /\ j - 1 = k /\ j # k
      BY <1>1, <2>4
    <3>2. cursor[j] = 0 /\ pos[j] = pos[k] * Len(ScanOf(j))
      BY <2>1, <3>1 DEF Reached
    <3>3. Place(p, 0, Len(ScanOf(j))) = pos[k] * Len(ScanOf(j))
      <4>1. p - 1 = pos[k]
        BY <1>4 DEF p
      <4>2. Place(p, 0, Len(ScanOf(j))) = (p - 1) * Len(ScanOf(j)) + 0
        BY DEF Place
      <4>3. pos[k] \in Nat /\ Len(ScanOf(j)) \in Nat
        BY <1>1, <1>4, RunFacts
      <4>4. pos[k] * Len(ScanOf(j)) \in Nat
        BY <4>3, Times
      <4> QED
        BY <4>1, <4>2, <4>4
    <3>4. cursor'[j] = 0 /\ leftRow'[j] = row /\ next[j] = pos[j] /\ next[j - 1] = p
      BY <1>6, <1>7, <2>1, <2>4, <3>1, <3>2
    <3>5. next[j - 1] \in 1 .. Len(Product[j - 1]) /\ row = Product[j - 1][next[j - 1]]
      BY <1>4, <3>1, <3>4
    <3>6. row \in Seq(Values) /\ Len(row) = Width[j - 1]
      BY <1>4, <3>1
    <3> QED
      BY <1>3, <3>1, <3>2, <3>3, <3>4, <3>5, <3>6 DEF Reached
  <2>5. CASE j > k + 1
    <3>1. ~(j <= at) /\ ~(j <= at') /\ j - 1 # k /\ j # k
      BY <1>1, <2>5
    <3> QED
      BY <1>3, <1>6, <1>7, <2>1, <3>1 DEF Reached
  <2> QED
    BY <2>2, <2>3, <2>4, <2>5
<1>10. (\A j \in 1 .. Top : Reached(next, j))'
  BY <1>3, <1>9
<1>11. Walk(next)'
  <2>1. next[0] = 1
    BY <1>2, <1>5, <1>6
  <2> QED
    BY <1>3, <1>6, <1>10, <2>1 DEF Walk
<1> QED
  BY <1>8, <1>11 DEF next

\* A pull from the last scan: the row leaves the joins.
LEMMA RootStep ==
  ASSUME IInv, NEW pos, Walk(pos) /\ Answered(pos), Top \in Nat \ {0},
         NEW k, k = Top, Pull(k), NEW next, next = [pos EXCEPT ![k] = @ + 1]
  PROVE  LET m == pos[Top] + 1 IN
         /\ Shape' /\ m \in 1 .. Len(Joined)
         /\ Walk(next)'
         /\ phase' = "running" => Answered(next)'
         /\ phase' \in {"running", "failed"}
         /\ phase' = "failed" => RaisesOn(Joined[m])
<1> DEFINE row == leftRow[Top] \o ScanOf(Top)[cursor[Top] + 1]
           p == pos[Top] + 1
           L == Len(ScanOf(Top))
<1>1. /\ phase = "running" /\ at = Top /\ HasNext(Top)
      /\ cursor' = [cursor EXCEPT ![Top] = @ + 1]
      /\ leftRow' = leftRow /\ at' = at
      /\ results' = IF Outcome(row) = "keep" THEN Append(results, Projected(row)) ELSE results
      /\ phase' = IF Outcome(row) = "raise" THEN "failed" ELSE phase
      /\ UNCHANGED <<text, heap, stmt, colIdx>>
  <2>1. ~(Top < Top)
    OBVIOUS
  <2> QED
    BY <2>1 DEF Pull, Deliver
<1>2. Shape /\ Planned /\ Top \in 1 .. Top
      /\ cursor \in [1 .. Top -> Nat] /\ cursor[Top] + 1 \in 0 .. L
  BY <1>1, RunFacts DEF Shape, HasNext
<1>3. /\ Width' = Width /\ Product' = Product /\ Joined' = Joined /\ AnswerTo' = AnswerTo
      /\ Top' = Top /\ \A j : ScanOf(j)' = ScanOf(j)
      /\ \A r : RaisesOn(r)' = RaisesOn(r)
  BY <1>1, RunFrame
<1>4. /\ pos[Top] \in Nat /\ p \in 1 .. Len(Joined)
      /\ p = Place(pos[Top - 1], cursor[Top] + 1, L)
      /\ row = Joined[p] /\ IsRow(row)
  BY <1>1, <1>2, NextRow, RunFacts DEF IsRow
<1>5. /\ pos \in [0 .. Top -> Nat] /\ pos[0] = 1 /\ Top \in 0 .. Top
      /\ \A j \in 1 .. Top : Reached(pos, j)
  BY <1>2 DEF Walk
<1> HIDE DEF row, p, L
<1>6. /\ next \in [0 .. Top -> Nat] /\ next[Top] = p
      /\ \A j \in 0 .. Top : j # Top => next[j] = pos[j]
  BY <1>4, <1>5 DEF p
<1>7. /\ cursor' \in [1 .. Top -> Nat] /\ cursor'[Top] = cursor[Top] + 1
      /\ \A j \in 1 .. Top : j # Top => cursor'[j] = cursor[j]
  BY <1>1, <1>2
<1>8. Shape'
  <2>1. ASSUME NEW j \in 1 .. Top PROVE cursor'[j] <= Len(ScanOf(j))
    BY <1>2, <1>7 DEF Shape, L
  <2> QED
    BY <1>1, <1>2, <1>3, <1>7, <2>1 DEF Shape
<1>9. ASSUME NEW j \in 1 .. Top PROVE Reached(next, j)'
  <2>1. j \in 0 .. Top /\ j - 1 \in 0 .. Top /\ Reached(pos, j) /\ j <= at /\ j <= at' /\ j - 1 # Top
    BY <1>1, <1>5
  <2>2. CASE j # Top
    BY <1>1, <1>3, <1>6, <1>7, <2>1, <2>2 DEF Reached
  <2>3. CASE j = Top
    BY <1>1, <1>3, <1>4, <1>6, <1>7, <2>1, <2>3 DEF Reached, L
  <2> QED
    BY <2>2, <2>3
<1>10. (\A j \in 1 .. Top : Reached(next, j))'
  BY <1>3, <1>9
<1>11. Walk(next)'
  <2>1. next[0] = 1
    BY <1>5, <1>6
  <2> QED
    BY <1>3, <1>6, <1>10, <2>1 DEF Walk
<1>13. /\ Outcome(row) = "raise" => RaisesOn(row)
       /\ RaisesOn(row) => Outcome(row) = "raise"
       /\ Outcome(row) = "keep" => Verdict(row) = "keep"
       /\ Outcome(row) # "raise" /\ Verdict(row) = "keep" => Outcome(row) = "keep"
  BY <1>2, <1>4, OutcomeRaises
<1>14. ASSUME phase' = "running" PROVE Answered(next)'
  <2>1. Outcome(row) # "raise"
    BY <1>1, <1>14
  <2>2. ~RaisesOn(row)
    BY <1>13, <2>1
  <2>3. results' = AnswerTo[p]
    <3>1. AnswerTo[p] = IF Verdict(row) = "keep" THEN Append(AnswerTo[p - 1], Projected(row))
                        ELSE AnswerTo[p - 1]
      BY <1>1, <1>4, RunFacts DEF Answers
    <3>2. p - 1 = pos[Top]
      BY <1>4 DEF p
    <3>3. results = AnswerTo[p - 1]
      BY <3>2 DEF Answered
    <3> QED
      BY <1>1, <1>13, <2>1, <3>1, <3>3
  <2>4. \A m \in 1 .. p : ~RaisesOn(Joined[m])
    <3> SUFFICES ASSUME NEW m \in 1 .. p PROVE ~RaisesOn(Joined[m])
      OBVIOUS
    <3>1. m \in 1 .. pos[Top] \/ m = p
      BY <1>4 DEF p
    <3> QED
      BY <1>4, <2>2, <3>1 DEF Answered
  <2> QED
    BY <1>3, <1>6, <2>3, <2>4 DEF Answered
<1>15. phase' \in {"running", "failed"} /\ (phase' = "failed" => RaisesOn(Joined[p]))
  BY <1>1, <1>4, <1>13
<1> QED
  BY <1>4, <1>8, <1>11, <1>14, <1>15 DEF p

LEMMA PullInv ==
  ASSUME IInv, NEW k \in Nodes, Pull(k) PROVE IInv'
<1>1. /\ phase = "running" /\ UNCHANGED <<text, heap, stmt, colIdx>>
  BY DEF Pull
<1>2. /\ Top \in Nat \ {0} /\ k \in 1 .. Top
  BY <1>1, RunFacts
<1>3. /\ IsHeap(heap)' /\ (\E x \in Sent : text = x.text)' /\ Planned' /\ Joined' = Joined
      /\ \A row : RaisesOn(row)' = RaisesOn(row)
  BY <1>1, RunFrame
<1>4. PICK pos : Walk(pos) /\ Answered(pos)
  BY <1>1 DEF IInv
<1>5. CASE k < Top
  <2>1. phase' = "running" /\ results' = results
    BY <1>1, <1>5 DEF Pull, Deliver
  <2>2. PICK next : next = [pos EXCEPT ![k] = @ + 1]
    OBVIOUS
  <2>3. Shape' /\ Walk(next)'
    BY <1>2, <1>4, <1>5, <2>2, JoinStep
  <2>4. next[Top] = pos[Top]
    BY <1>2, <1>4, <1>5, <2>2 DEF Walk
  <2>5. Answered(next)'
    <3>1. AnswerTo' = AnswerTo /\ Top' = Top
      BY <1>1, RunFrame
    <3> QED
      BY <1>3, <1>4, <2>1, <2>4, <3>1 DEF Answered
  <2>6. \E p : (Walk(p) /\ Answered(p))'
    BY <2>3, <2>5
  <2> QED
    BY <1>3, <2>1, <2>3, <2>6 DEF IInv, Phases, ResultIsQuery
<1>6. CASE k = Top
  <2>1. PICK next : next = [pos EXCEPT ![k] = @ + 1]
    OBVIOUS
  <2>2. /\ Shape' /\ pos[Top] + 1 \in 1 .. Len(Joined) /\ Walk(next)'
        /\ phase' = "running" => Answered(next)'
        /\ phase' \in {"running", "failed"}
        /\ phase' = "failed" => RaisesOn(Joined[pos[Top] + 1])
    BY <1>2, <1>4, <1>6, <2>1, RootStep
  <2>3. phase' = "running" => \E p : (Walk(p) /\ Answered(p))'
    BY <2>2
  <2>4. phase' = "failed" => (\E m \in DOMAIN Joined : RaisesOn(Joined[m]))'
    <3>1. DOMAIN Joined = 1 .. Len(Joined)
      BY <1>1, RunFacts
    <3> QED
      BY <1>3, <2>2, <3>1
  <2> QED
    BY <1>3, <2>2, <2>3, <2>4 DEF IInv, Phases, ResultIsQuery
<1> QED
  BY <1>2, <1>5, <1>6

LEMMA OpenInv ==
  ASSUME IInv, Open PROVE IInv'
<1>1. /\ phase = "planned" /\ phase' = "running"
      /\ UNCHANGED <<text, heap, stmt, colIdx, cursor, leftRow, at, results>>
  BY DEF Open, tree
<1>2. /\ IsHeap(heap)' /\ (\E x \in Sent : text = x.text)' /\ Planned'
      /\ Width' = Width /\ Product' = Product /\ Joined' = Joined /\ AnswerTo' = AnswerTo
      /\ Top' = Top /\ \A k : ScanOf(k)' = ScanOf(k)
      /\ \A row : RaisesOn(row)' = RaisesOn(row)
  BY <1>1, RunFrame
<1>3. PICK pos : Walk(pos) /\ Answered(pos)
  BY <1>1 DEF IInv
<1>4. Shape'
  BY <1>1, <1>2, RunFacts DEF Shape
<1>5. ASSUME NEW k \in 1 .. Top PROVE Reached(pos, k)'
  BY <1>1, <1>2, <1>3 DEF Walk, Reached
<1>6. Walk(pos)'
  BY <1>2, <1>3, <1>5 DEF Walk
<1>7. Answered(pos)'
  BY <1>1, <1>2, <1>3 DEF Answered
<1>8. \E p : (Walk(p) /\ Answered(p))'
  BY <1>6, <1>7
<1> QED
  BY <1>1, <1>2, <1>4, <1>8 DEF IInv, Phases, ResultIsQuery

LEMMA RewindInv ==
  ASSUME IInv, NEW k \in Nodes, Rewind(k) PROVE IInv'
<1>1. /\ phase = "running" /\ at = k /\ k > 1 /\ ~HasNext(k)
      /\ cursor' = [cursor EXCEPT ![k] = 0] /\ at' = k - 1
      /\ UNCHANGED <<text, heap, stmt, colIdx, leftRow, results, phase>>
  BY DEF Rewind
<1>2. /\ IsHeap(heap)' /\ (\E x \in Sent : text = x.text)' /\ Planned'
      /\ Width' = Width /\ Product' = Product /\ Joined' = Joined /\ AnswerTo' = AnswerTo
      /\ Top' = Top /\ \A j : ScanOf(j)' = ScanOf(j)
      /\ \A row : RaisesOn(row)' = RaisesOn(row)
  BY <1>1, RunFrame
<1>3. PICK pos : Walk(pos) /\ Answered(pos)
  BY <1>1 DEF IInv
<1>4. /\ Shape /\ Top \in Nat \ {0} /\ k \in 1 .. Top /\ k - 1 \in 1 .. Top
      /\ cursor \in [1 .. Top -> Nat] /\ Len(ScanOf(k)) \in Nat
  BY <1>1, RunFacts DEF Shape
<1>5. /\ cursor' \in [1 .. Top -> Nat] /\ cursor'[k] = 0
      /\ \A j \in 1 .. Top : j # k => cursor'[j] = cursor[j]
  BY <1>1, <1>4
<1>6. Shape'
  <2>1. ASSUME NEW j \in 1 .. Top PROVE cursor'[j] <= Len(ScanOf(j))
    <3>1. cursor[j] <= Len(ScanOf(j))
      BY <1>4 DEF Shape
    <3>2. CASE j = k
      BY <1>4, <1>5, <3>2
    <3>3. CASE j # k
      <4>1. cursor'[j] = cursor[j]
        BY <1>5, <3>3
      <4> QED
        BY <3>1, <4>1
    <3> QED
      BY <3>2, <3>3
  <2> QED
    BY <1>1, <1>2, <1>4, <1>5, <2>1 DEF Shape
<1>7. ASSUME NEW j \in 1 .. Top PROVE Reached(pos, j)'
  <2>1. Reached(pos, j)
    BY <1>3 DEF Walk
  <2>2. CASE j < k
    <3>1. j <= at /\ j <= at' /\ j # k
      BY <1>1, <1>4, <2>2
    <3> QED
      BY <1>1, <1>2, <1>5, <2>1, <3>1 DEF Reached
  <2>3. CASE j = k
    <3> DEFINE L == Len(ScanOf(k))
               i == pos[k - 1]
    <3>1. j <= at /\ ~(j <= at')
      BY <1>1, <1>4, <2>3
    <3>2. /\ i \in 1 .. Len(Product[k - 1]) /\ pos[k] = Place(i, cursor[k], L)
      BY <2>1, <2>3, <3>1 DEF Reached
    <3>3. cursor[k] = L
      BY <1>1, <1>4 DEF Shape, HasNext
    <3> HIDE DEF L, i
    <3>4. i \in Nat /\ 0 < i /\ L \in Nat
      <4>1. L \in Nat
        BY <1>4 DEF L
      <4>2. Len(Product[k - 1]) \in Nat
        BY <1>1, <1>4, ProductRows
      <4> QED
        BY <3>2, <4>1, <4>2
    <3>5. i * L = (i - 1) * L + L
      <4> DEFINE z == 0
      <4>1. z \in Nat /\ z < i
        BY <3>4
      <4> HIDE DEF z
      <4> QED
        BY <3>4, <4>1, Times
    <3>6. pos[k] = i * L
      BY <3>2, <3>3, <3>5 DEF Place
    <3> QED
      BY <1>2, <1>5, <2>3, <3>1, <3>6 DEF Reached, L, i
  <2>4. CASE j > k
    <3>1. ~(j <= at) /\ ~(j <= at') /\ j # k
      BY <1>1, <1>4, <2>4
    <3> QED
      BY <1>2, <1>5, <2>1, <3>1 DEF Reached
  <2> QED
    BY <1>4, <2>2, <2>3, <2>4
<1>8. Walk(pos)'
  BY <1>2, <1>3, <1>7 DEF Walk
<1>9. Answered(pos)'
  BY <1>1, <1>2, <1>3 DEF Answered
<1>10. \E p : (Walk(p) /\ Answered(p))'
  BY <1>8, <1>9
<1> QED
  BY <1>1, <1>2, <1>6, <1>10 DEF IInv, Phases, ResultIsQuery

\* When the leftmost scan is exhausted, every row of the product has been delivered.
LEMMA WalkEnds ==
  ASSUME IInv, phase = "running", NEW pos, Walk(pos), at = 1, ~HasNext(1)
  PROVE  pos[Top] = Len(Joined)
<1> DEFINE X == {k \in 0 .. Top : pos[k] = Len(Product[k])}
<1>1. /\ Shape /\ Top \in Nat \ {0} /\ Joined = Product[Top]
      /\ Product[0] = << <<>> >> /\ pos[0] = 1
      /\ \A k \in 1 .. Top : Reached(pos, k)
  BY RunFacts DEF Walk, Products
<1>2. 0 \in X
  <2>1. Len(Product[0]) = 1 /\ 0 \in 0 .. Top
    BY <1>1
  <2> QED
    BY <1>1, <2>1
<1>3. ASSUME NEW k \in 0 + 1 .. Top, k - 1 \in X PROVE k \in X
  <2> DEFINE L == Len(ScanOf(k))
             n == Len(Product[k - 1])
  <2>1. k \in 1 .. Top /\ k \in 0 .. Top /\ pos[k - 1] = n /\ Reached(pos, k)
    BY <1>1, <1>3
  <2>2. n \in Nat /\ Len(Product[k]) = n * L /\ L \in Nat
    BY <2>1, ProductRows, RunFacts
  <2>3. CASE k = 1
    <3>1. n = 1 /\ pos[k] = Place(n, cursor[k], L)
      <4>1. k - 1 = 0 /\ k <= at
        BY <2>3
      <4>2. Len(Product[0]) = 1
        BY <1>1
      <4>3. n = 1
        BY <4>1, <4>2
      <4> HIDE DEF n
      <4>4. pos[k] = Place(pos[k - 1], cursor[k], L)
        BY <2>1, <4>1 DEF Reached
      <4> QED
        BY <2>1, <4>3, <4>4
    <3>2. cursor[k] = L
      BY <1>1, <2>1, <2>2, <2>3 DEF Shape, HasNext
    <3>3. Place(1, L, L) = 1 * L
      BY <2>2 DEF Place
    <3> QED
      BY <2>1, <2>2, <3>1, <3>2, <3>3
  <2>4. CASE k # 1
    <3>1. ~(k <= at)
      BY <1>1, <2>1, <2>4
    <3> QED
      BY <2>1, <2>2, <3>1 DEF Reached
  <2> QED
    BY <2>3, <2>4
<1>4. Top \in X
  <2> DEFINE n == Top
             z == 0
  <2>1. n \in Nat /\ z \in Nat /\ z <= n /\ z \in X
    BY <1>1, <1>2
  <2>2. \A k \in z + 1 .. n : k - 1 \in X => k \in X
    BY <1>3
  <2> HIDE DEF X, n, z
  <2>3. n \in X
    BY <2>1, <2>2, Upwards
  <2> QED
    BY <2>3 DEF n
<1> QED
  BY <1>1, <1>4

LEMMA FinishInv ==
  ASSUME IInv, Finish PROVE IInv'
<1>1. /\ phase = "running" /\ at = 1 /\ ~HasNext(1) /\ phase' = "done"
      /\ cursor' = [k \in Nodes |-> 0]
      /\ UNCHANGED <<text, heap, stmt, colIdx, leftRow, at, results>>
  BY DEF Finish
<1>2. /\ IsHeap(heap)' /\ (\E x \in Sent : text = x.text)' /\ Planned'
      /\ Width' = Width /\ Product' = Product /\ Joined' = Joined /\ AnswerTo' = AnswerTo
      /\ Top' = Top /\ \A k : ScanOf(k)' = ScanOf(k)
      /\ \A row : RaisesOn(row)' = RaisesOn(row)
  BY <1>1, RunFrame
<1>3. PICK pos : Walk(pos) /\ Answered(pos)
  BY <1>1 DEF IInv
<1>4. pos[Top] = Len(Joined)
  BY <1>1, <1>3, WalkEnds
<1>5. Shape'
  BY <1>1, <1>2, RunFacts DEF Shape
<1>6. ResultIsQuery'
  <2>1. DOMAIN Joined = 1 .. Len(Joined)
    BY <1>1, RunFacts
  <2>2. results = Answer /\ \A m \in DOMAIN Joined : ~RaisesOn(Joined[m])
    BY <1>3, <1>4, <2>1 DEF Answered, Answer
  <2>3. Answer' = Answer
    BY <1>2 DEF Answer
  <2> QED
    BY <1>1, <1>2, <2>2, <2>3 DEF ResultIsQuery
<1> QED
  BY <1>1, <1>2, <1>5, <1>6 DEF IInv, Phases

LEMMA StutterInv ==
  ASSUME IInv, UNCHANGED vars PROVE IInv'
<1>1. UNCHANGED <<text, heap, stmt, colIdx, cursor, leftRow, at, results, phase>>
  BY DEF vars
<1>2. /\ Width' = Width /\ Product' = Product /\ Joined' = Joined /\ AnswerTo' = AnswerTo
      /\ Top' = Top /\ Planned' = Planned /\ \A k : ScanOf(k)' = ScanOf(k)
      /\ \A row : RaisesOn(row)' = RaisesOn(row)
  BY <1>1, Frame, RaisingFramed DEF ScanOf
<1>3. IsHeap(heap)' /\ (\E x \in Sent : text = x.text)'
  BY <1>1 DEF IInv, IsHeap
<1>4. Shape => Shape'
  BY <1>1, <1>2 DEF Shape
<1>5. ResultIsQuery'
  <2>1. Answer' = Answer
    BY <1>2 DEF Answer
  <2> QED
    BY <1>1, <1>2, <2>1 DEF IInv, ResultIsQuery
<1>6. ASSUME NEW pos, Walk(pos), Answered(pos) PROVE (Walk(pos) /\ Answered(pos))'
  <2>1. ASSUME NEW k \in 1 .. Top PROVE Reached(pos, k)'
    BY <1>1, <1>2, <1>6 DEF Walk, Reached
  <2> QED
    BY <1>1, <1>2, <1>6, <2>1 DEF Walk, Answered
<1>7. (\E pos : Walk(pos) /\ Answered(pos)) => (\E pos : Walk(pos) /\ Answered(pos))'
  BY <1>6
<1> QED
  BY <1>1, <1>2, <1>3, <1>4, <1>5, <1>7 DEF IInv, Phases

LEMMA IInvIsInvariant == Spec => []IInv
<1>1. Init => IInv
  BY InitInv
<1>2. IInv /\ [Next]_vars => IInv'
  BY ParseInv, BindInv, OpenInv, FinishInv, PullInv, RewindInv, StutterInv DEF Next
<1> QED
  BY <1>1, <1>2, PTL DEF Spec

-----------------------------------------------------------------------------
(* Columns by name.                                                         *)

\* What relates the items of two sequences of sequences relates their concatenations.
LEMMA FlattenRelates ==
  ASSUME NEW S, NEW T, NEW R, NEW s \in Seq(Seq(S)), NEW t \in Seq(Seq(T)), Len(s) = Len(t),
         \A i \in 1 .. Len(s) : /\ Len(s[i]) = Len(t[i])
                                /\ \A j \in 1 .. Len(s[i]) : <<s[i][j], t[i][j]>> \in R
  PROVE  /\ FlattenSeq(s) \in Seq(S) /\ FlattenSeq(t) \in Seq(T)
         /\ Len(FlattenSeq(s)) = Len(FlattenSeq(t))
         /\ \A j \in 1 .. Len(FlattenSeq(s)) : <<FlattenSeq(s)[j], FlattenSeq(t)[j]>> \in R
<1>1. FlattenSeq(s) \in Seq(S) /\ FlattenSeq(t) \in Seq(T)
  BY FlattenType
<1>2. CASE s = <<>>
  <2>1. t = <<>>
    BY <1>2
  <2> QED
    BY <1>2, <2>1 DEF FlattenSeq
<1>3. CASE s # <<>>
  <2> DEFINE n == Len(s)
  <2>1. t # <<>> /\ n \in Nat /\ 1 <= n /\ Len(t) = n
        /\ \A i \in 1 .. n : s[i] \in Seq(S) /\ t[i] \in Seq(T)
    BY <1>3, EmptySeq
  <2>2. PICK f \in [1 .. Len(s) -> Seq(S)] :
          /\ f[1] = s[1]
          /\ \A i \in 2 .. Len(s) : f[i] = f[i - 1] \o s[i]
          /\ FlattenSeq(s) = f[Len(s)]
    BY <1>3, FlattenDef
  <2>3. PICK g \in [1 .. Len(t) -> Seq(T)] :
          /\ g[1] = t[1]
          /\ \A i \in 2 .. Len(t) : g[i] = g[i - 1] \o t[i]
          /\ FlattenSeq(t) = g[Len(t)]
    BY <2>1, FlattenDef
  <2> DEFINE Alike(i) == /\ Len(f[i]) = Len(g[i])
                         /\ \A j \in 1 .. Len(f[i]) : <<f[i][j], g[i][j]>> \in R
             X == {i \in 1 .. n : Alike(i)}
  <2>4. \A i \in 1 .. n : /\ f[i] \in Seq(S) /\ g[i] \in Seq(T)
                          /\ Len(s[i]) = Len(t[i])
                          /\ \A j \in 1 .. Len(s[i]) : <<s[i][j], t[i][j]>> \in R
    BY <2>1, <2>2, <2>3
  <2>5. f[1] = s[1] /\ g[1] = t[1] /\ FlattenSeq(s) = f[n] /\ FlattenSeq(t) = g[n]
        /\ \A i \in 2 .. n : f[i] = f[i - 1] \o s[i] /\ g[i] = g[i - 1] \o t[i]
    BY <2>1, <2>2, <2>3
  <2> HIDE DEF n
  <2>6. 1 \in X
    BY <2>1, <2>4, <2>5
  <2>7. ASSUME NEW i \in 1 + 1 .. n, i - 1 \in X PROVE i \in X
    <3> DEFINE a == f[i - 1]
               b == g[i - 1]
               c == s[i]
               d == t[i]
    <3>1. i \in 1 .. n /\ i - 1 \in 1 .. n /\ i \in 2 .. n
      BY <2>1, <2>7
    <3>2. /\ a \in Seq(S) /\ b \in Seq(T) /\ c \in Seq(S) /\ d \in Seq(T)
          /\ f[i] = a \o c /\ g[i] = b \o d
      BY <2>1, <2>4, <2>5, <3>1
    <3>3. Len(a) = Len(b) /\ \A j \in 1 .. Len(a) : <<a[j], b[j]>> \in R
      BY <2>7
    <3>4. Len(c) = Len(d) /\ \A j \in 1 .. Len(c) : <<c[j], d[j]>> \in R
      BY <2>4, <3>1
    <3> HIDE DEF a, b, c, d
    <3>5. /\ Len(a \o c) = Len(a) + Len(c) /\ Len(b \o d) = Len(b) + Len(d)
          /\ Len(a) \in Nat /\ Len(c) \in Nat
          /\ \A j \in 1 .. Len(a) : (a \o c)[j] = a[j]
          /\ \A j \in 1 .. Len(b) : (b \o d)[j] = b[j]
          /\ \A j \in Len(a) + 1 .. Len(a) + Len(c) : (a \o c)[j] = c[j - Len(a)]
          /\ \A j \in Len(b) + 1 .. Len(b) + Len(d) : (b \o d)[j] = d[j - Len(b)]
      BY <3>2
    <3>6. \A j \in 1 .. Len(a) + Len(c) : <<(a \o c)[j], (b \o d)[j]>> \in R
      <4> SUFFICES ASSUME NEW j \in 1 .. Len(a) + Len(c) PROVE <<(a \o c)[j], (b \o d)[j]>> \in R
        OBVIOUS
      <4>1. CASE j <= Len(a)
        <5>1. j \in 1 .. Len(a)
          BY <3>5, <4>1
        <5>2. (a \o c)[j] = a[j] /\ (b \o d)[j] = b[j]
          BY <3>3, <3>5, <5>1
        <5> QED
          BY <3>3, <5>1, <5>2
      <4>2. CASE ~(j <= Len(a))
        <5> DEFINE e == j - Len(a)
        <5>1. j \in Len(a) + 1 .. Len(a) + Len(c) /\ e \in 1 .. Len(c)
          BY <3>5, <4>2
        <5>2. (a \o c)[j] = c[e] /\ (b \o d)[j] = d[e]
          BY <3>3, <3>4, <3>5, <5>1
        <5> HIDE DEF e
        <5> QED
          BY <3>4, <5>1, <5>2
      <4> QED
        BY <4>1, <4>2
    <3> QED
      BY <3>1, <3>2, <3>3, <3>4, <3>5, <3>6
  <2>8. n \in X
    <3> DEFINE k == 1
    <3>1. k \in Nat /\ k \in X
      BY <2>6
    <3>2. \A i \in k + 1 .. n : i - 1 \in X => i \in X
      BY <2>7
    <3>3. k <= n /\ n \in Nat
      BY <2>1
    <3> HIDE DEF X, k
    <3> QED
      BY <3>1, <3>2, <3>3, Upwards
  <2> QED
    BY <1>1, <2>5, <2>8
<1> QED
  BY <1>2, <1>3

\* The rows of width w.
RowsOf(w) == {r \in Seq(Values) : Len(r) = w}

LEMMA CrossWide ==
  ASSUME NEW a \in Nat, NEW b \in Nat, NEW left \in Seq(RowsOf(a)), NEW scan \in Seq(RowsOf(b))
  PROVE  Cross(left, scan) \in Seq(RowsOf(a + b))
<1> DEFINE S == RowsOf(a + b)
           block(i) == [j \in DOMAIN scan |-> left[i] \o scan[j]]
           seqs == [i \in DOMAIN left |-> block(i)]
<1>1. DOMAIN left = 1 .. Len(left) /\ DOMAIN scan = 1 .. Len(scan)
      /\ Len(left) \in Nat /\ Len(scan) \in Nat
  OBVIOUS
<1>2. ASSUME NEW i \in 1 .. Len(left), NEW j \in 1 .. Len(scan) PROVE left[i] \o scan[j] \in S
  <2>1. left[i] \in RowsOf(a) /\ scan[j] \in RowsOf(b)
    OBVIOUS
  <2>2. left[i] \in Seq(Values) /\ Len(left[i]) = a /\ scan[j] \in Seq(Values) /\ Len(scan[j]) = b
    BY <2>1 DEF RowsOf
  <2> QED
    BY <2>2, ConcatProperties DEF RowsOf
<1> HIDE DEF S
<1>3. \A i \in 1 .. Len(left) : block(i) \in Seq(S)
  BY <1>1, <1>2
<1> HIDE DEF block
<1>4. seqs \in Seq(Seq(S))
  BY <1>1, <1>3
<1>5. Cross(left, scan) = FlattenSeq(seqs)
  BY DEF Cross, block
<1> HIDE DEF seqs
<1> QED
  BY <1>4, <1>5, FlattenType DEF S

LEMMA ProductsWide ==
  ASSUME NEW from, IsFrom(from), NEW h, IsHeap(h), NEW W, Widths(from, W),
         NEW J, Products(from, h, J), NEW l \in 0 .. Len(from)
  PROVE  J[l] \in Seq(RowsOf(W[l]))
<1> DEFINE X == {k \in 0 .. l : J[k] \in Seq(RowsOf(W[k]))}
           z == 0
<1>1. Len(from) \in Nat /\ l \in Nat /\ z \in Nat /\ z <= l
  BY DEF IsFrom
<1>2. z \in X
  <2>1. <<>> \in RowsOf(0)
    BY DEF RowsOf
  <2>2. << <<>> >> \in Seq(RowsOf(0))
    BY <2>1
  <2>3. J[0] = << <<>> >> /\ W[0] = 0 /\ 0 \in 0 .. l
    BY <1>1 DEF Products, Widths
  <2>4. J[0] \in Seq(RowsOf(W[0]))
    BY <2>2, <2>3
  <2> QED
    BY <2>3, <2>4
<1>3. ASSUME NEW k \in z + 1 .. l, k - 1 \in X PROVE k \in X
  <2>1. k \in 1 .. Len(from) /\ k \in 0 .. l /\ from[k] \in Tables
    BY <1>1 DEF IsFrom
  <2>2. /\ J[k] = Cross(J[k - 1], h[from[k]]) /\ W[k] = W[k - 1] + Len(Schema[from[k]])
        /\ J[k - 1] \in Seq(RowsOf(W[k - 1]))
    BY <1>3, <2>1 DEF Products, Widths
  <2>3. W[k - 1] \in Nat /\ Len(Schema[from[k]]) \in Nat
    BY <1>1, <2>1, ColumnsOfTable DEF Widths
  <2>4. h[from[k]] \in Seq(RowsOf(Len(Schema[from[k]])))
    <3> DEFINE c == h[from[k]]
               w == Len(Schema[from[k]])
    <3>1. /\ c \in Seq(Seq(Values)) /\ Len(c) \in Nat
          /\ \A i \in 1 .. Len(c) : c[i] \in Seq(Values) /\ Len(c[i]) = w
      BY <2>1, ScanType
    <3> HIDE DEF c, w
    <3>2. \A i \in 1 .. Len(c) : c[i] \in RowsOf(w)
      BY <3>1 DEF RowsOf
    <3> DEFINE S == RowsOf(w)
               m == Len(c)
    <3>3. c = [i \in 1 .. m |-> c[i]] /\ m \in Nat /\ \A i \in 1 .. m : c[i] \in S
      BY <3>1, <3>2
    <3> HIDE DEF S, m
    <3>4. c \in [1 .. m -> S]
      BY <3>3
    <3>5. c \in Seq(S)
      BY <3>3, <3>4
    <3> QED
      BY <3>5 DEF c, w, S
  <2> QED
    BY <2>1, <2>2, <2>3, <2>4, CrossWide
<1>4. l \in X
  <2> HIDE DEF X, z
  <2> QED
    BY <1>1, <1>2, <1>3, Upwards
<1> QED
  BY <1>4

\* '*' stands for the columns of the joined row, in their order.
LEMMA StarColumns ==
  ASSUME NEW from, IsFrom(from), Len(from) # 0, NEW W, Widths(from, W)
  PROVE  LET all == AllColumns(from) IN
         /\ all \in Seq({Qualified(f[1], f[2]) : f \in Fields(from)})
         /\ Len(all) = W[Len(from)]
         /\ \A j \in 1 .. Len(all) : \E k \in 1 .. Len(from) : \E i \in DOMAIN Schema[from[k]] :
               j = W[k - 1] + i /\ all[j] = Qualified(from[k], Schema[from[k]][i].name)
<1> DEFINE n == Len(from)
           Q == {Qualified(f[1], f[2]) : f \in Fields(from)}
           cols == [k \in DOMAIN from |->
                      [i \in DOMAIN Schema[from[k]] |-> Qualified(from[k], Schema[from[k]][i].name)]]
           IsAt(j, k, c) == \E i \in DOMAIN Schema[from[k]] :
                             j = W[k - 1] + i /\ c = Qualified(from[k], Schema[from[k]][i].name)
<1>1. n \in Nat /\ 1 <= n /\ DOMAIN from = 1 .. n
  BY DEF IsFrom
<1>2. \A k \in 1 .. n : from[k] \in Tables
  BY <1>1 DEF IsFrom
<1>3. ASSUME NEW k \in 1 .. n
      PROVE  /\ cols[k] \in Seq(Q) /\ Len(cols[k]) = Len(Schema[from[k]])
             /\ Len(Schema[from[k]]) \in Nat
             /\ \A i \in 1 .. Len(cols[k]) : IsAt(W[k - 1] + i, k, cols[k][i])
  <2> DEFINE m == Len(Schema[from[k]])
             c == [i \in DOMAIN Schema[from[k]] |-> Qualified(from[k], Schema[from[k]][i].name)]
  <2>1. /\ m \in Nat /\ DOMAIN Schema[from[k]] = 1 .. m
        /\ \A i \in 1 .. m : <<from[k], Schema[from[k]][i].name>> \in FieldNames(from[k])
    BY <1>2, ColumnsOfTable
  <2>2. ASSUME NEW i \in 1 .. m PROVE Qualified(from[k], Schema[from[k]][i].name) \in Q
    <3> DEFINE f == <<from[k], Schema[from[k]][i].name>>
    <3>1. f \in Fields(from)
      BY <1>1, <2>1 DEF Fields
    <3> QED
      BY <3>1
  <2> HIDE DEF Q
  <2>3. c \in [1 .. m -> Q]
    BY <2>1, <2>2
  <2>4. c \in Seq(Q) /\ Len(c) = m
    BY <2>1, <2>3
  <2>5. cols[k] = c
    BY <1>1
  <2>6. \A i \in 1 .. m : IsAt(W[k - 1] + i, k, c[i])
    BY <2>1
  <2> HIDE DEF m, c, cols, IsAt
  <2>7. Len(cols[k]) = m
    BY <2>4, <2>5
  <2>8. \A i \in 1 .. Len(cols[k]) : IsAt(W[k - 1] + i, k, cols[k][i])
    BY <2>5, <2>6, <2>7
  <2> QED
    BY <2>1, <2>4, <2>5, <2>7, <2>8 DEF m
<1>4. cols = [k \in 1 .. n |-> cols[k]]
  BY <1>1
<1>5. AllColumns(from) = FlattenSeq(cols)
  BY DEF AllColumns
<1> HIDE DEF Q, cols, n, IsAt
<1>6. cols \in Seq(Seq(Q)) /\ Len(cols) = n /\ cols # <<>>
  <2> DEFINE T == Seq(Q)
  <2>1. \A k \in 1 .. n : cols[k] \in T
    BY <1>3
  <2> HIDE DEF T
  <2>2. cols \in [1 .. n -> T]
    BY <1>4, <2>1
  <2>3. cols \in Seq(T) /\ Len(cols) = n
    BY <1>1, <2>2
  <2> QED
    BY <1>1, <2>3 DEF T
<1>7. PICK f \in [1 .. Len(cols) -> Seq(Q)] :
        /\ f[1] = cols[1]
        /\ \A i \in 2 .. Len(cols) : f[i] = f[i - 1] \o cols[i]
        /\ FlattenSeq(cols) = f[Len(cols)]
  BY <1>6, FlattenDef
<1>8. /\ W[0] = 0 /\ \A k \in 1 .. n : W[k - 1] \in Nat /\ W[k] = W[k - 1] + Len(Schema[from[k]])
  BY <1>1 DEF Widths, n
<1> DEFINE Are(k) == /\ Len(f[k]) = W[k]
                     /\ \A j \in 1 .. Len(f[k]) : \E a \in 1 .. n : IsAt(j, a, f[k][j])
           X == {k \in 1 .. n : Are(k)}
<1>9. 1 \in X
  <2>1. f[1] = cols[1] /\ 1 \in 1 .. n /\ W[1 - 1] = 0
    BY <1>1, <1>7, <1>8
  <2>2. Len(f[1]) = W[1]
    BY <1>3, <1>8, <2>1
  <2>3. ASSUME NEW j \in 1 .. Len(f[1]) PROVE IsAt(j, 1, f[1][j])
    <3>1. IsAt(W[1 - 1] + j, 1, cols[1][j])
      BY <1>3, <2>1
    <3>2. W[1 - 1] + j = j
      BY <2>1
    <3> QED
      BY <2>1, <3>1, <3>2
  <2> QED
    BY <2>1, <2>2, <2>3
<1>10. ASSUME NEW k \in 1 + 1 .. n, k - 1 \in X PROVE k \in X
  <2> DEFINE a == f[k - 1]
             c == cols[k]
             w == W[k - 1]
  <2>1. k \in 1 .. n /\ k \in 2 .. n /\ k - 1 \in 1 .. n
    BY <1>1, <1>10
  <2>2. a \in Seq(Q) /\ c \in Seq(Q) /\ f[k] = a \o c /\ w \in Nat
    BY <1>3, <1>6, <1>7, <1>8, <2>1
  <2>3. Len(a) = w /\ \A j \in 1 .. w : \E b \in 1 .. n : IsAt(j, b, a[j])
    BY <1>10
  <2>4. W[k] = w + Len(c) /\ \A i \in 1 .. Len(c) : IsAt(w + i, k, c[i])
    BY <1>3, <1>8, <2>1
  <2> HIDE DEF a, c, w
  <2>5. /\ Len(a \o c) = w + Len(c) /\ Len(c) \in Nat
        /\ \A j \in 1 .. w : (a \o c)[j] = a[j]
        /\ \A j \in w + 1 .. w + Len(c) : (a \o c)[j] = c[j - w]
    BY <2>2, <2>3
  <2>6. \A j \in 1 .. w + Len(c) : \E b \in 1 .. n : IsAt(j, b, (a \o c)[j])
    <3> SUFFICES ASSUME NEW j \in 1 .. w + Len(c) PROVE \E b \in 1 .. n : IsAt(j, b, (a \o c)[j])
      OBVIOUS
    <3>1. CASE j <= w
      <4>1. j \in 1 .. w
        BY <2>2, <3>1
      <4> QED
        BY <2>3, <2>5, <4>1
    <3>2. CASE ~(j <= w)
      <4> DEFINE i == j - w
      <4>1. j \in w + 1 .. w + Len(c) /\ i \in 1 .. Len(c) /\ w + i = j
        BY <2>2, <2>5, <3>2
      <4>2. (a \o c)[j] = c[i]
        BY <2>5, <4>1
      <4> HIDE DEF i
      <4>3. IsAt(j, k, c[i])
        BY <2>4, <4>1
      <4> QED
        BY <2>1, <4>2, <4>3
    <3> QED
      BY <3>1, <3>2
  <2> QED
    BY <2>1, <2>2, <2>4, <2>5, <2>6
<1>11. n \in X
  <2> DEFINE k == 1
  <2>1. k \in Nat /\ k \in X /\ k <= n
    BY <1>1, <1>9
  <2>2. \A i \in k + 1 .. n : i - 1 \in X => i \in X
    BY <1>10
  <2> HIDE DEF X, k
  <2> QED
    BY <1>1, <2>1, <2>2, Upwards
<1>12. AllColumns(from) = f[n] /\ f[n] \in Seq(Q)
  BY <1>1, <1>5, <1>6, <1>7
<1>13. Len(f[n]) = W[n] /\ \A j \in 1 .. Len(f[n]) : \E a \in 1 .. n : IsAt(j, a, f[n][j])
  BY <1>11
<1> QED
  BY <1>12, <1>13 DEF Q, n, IsAt

-----------------------------------------------------------------------------
(* The answer by the names of the columns.                                  *)

\* No table has two columns of one name.
ColumnsDiffer ==
  \A t \in Tables : \A i, j \in DOMAIN Schema[t] : Schema[t][i].name = Schema[t][j].name => i = j

\* Every column goes to its place in the joined row.
ByName(from, idx, W) ==
  \A k \in 1 .. Len(from) : \A i \in DOMAIN Schema[from[k]] :
     idx[<<from[k], Schema[from[k]][i].name>>] = W[k - 1] + i

LEMMA ScanByName ==
  ASSUME ColumnsDiffer, NEW t \in Tables, NEW i \in DOMAIN Schema[t]
  PROVE  ScanMap(t)[<<t, Schema[t][i].name>>] = i
<1> DEFINE q == <<t, Schema[t][i].name>>
<1>1. q \in FieldNames(t) /\ q[2] = Schema[t][i].name
  BY DEF FieldNames
<1> HIDE DEF q
<1>2. ScanMap(t)[q] \in DOMAIN Schema[t] /\ Schema[t][ScanMap(t)[q]].name = Schema[t][i].name
  BY <1>1, MapsOfScan, ColumnsOfTable
<1> QED
  BY <1>2 DEF ColumnsDiffer, q

\* One name on each side leaves one numbering.
LEMMA OneNumbering ==
  ASSUME NEW q, NEW first \in Nat, NEW f \in Numberings({q}, first)
  PROVE  DOMAIN f = {q} /\ f[q] = first
<1>1. Cardinality({q}) = 1
  BY FS_Singleton
<1>2. f \in [{q} -> first .. (first + 1 - 1)]
  BY <1>1 DEF Numberings
<1> QED
  BY <1>2

LEMMA MapByName ==
  ASSUME ColumnsDiffer, NEW from, IsFrom(from), NEW W, Widths(from, W), NEW idx \in ColumnMaps(from),
         \/ Len(from) = 1
         \/ /\ Len(from) = 2 /\ from[1] # from[2]
            /\ Len(Schema[from[1]]) = 1 /\ Len(Schema[from[2]]) = 1
  PROVE  ByName(from, idx, W)
<1>1. DOMAIN from = 1 .. Len(from) /\ \A k \in 1 .. Len(from) : from[k] \in Tables
  BY DEF IsFrom
<1>2. CASE Len(from) = 1
  <2>1. idx = ScanMap(from[1]) /\ W[0] = 0 /\ from[1] \in Tables
    BY <1>1, <1>2 DEF ColumnMaps, Widths
  <2>2. \A i \in DOMAIN Schema[from[1]] : i \in Nat
    BY <2>1, ColumnsOfTable
  <2>3. \A i \in DOMAIN Schema[from[1]] : idx[<<from[1], Schema[from[1]][i].name>>] = W[0] + i
    BY <2>1, <2>2, ScanByName
  <2>4. \A k \in 1 .. Len(from) : k = 1 /\ k - 1 = 0
    BY <1>2
  <2> QED
    BY <2>3, <2>4 DEF ByName
<1>3. CASE /\ Len(from) = 2 /\ from[1] # from[2]
           /\ Len(Schema[from[1]]) = 1 /\ Len(Schema[from[2]]) = 1
  <2> DEFINE t == from[1]
             u == from[2]
             p == <<t, Schema[t][1].name>>
             q == <<u, Schema[u][1].name>>
  <2>1. t \in Tables /\ u \in Tables /\ DOMAIN Schema[t] = {1} /\ DOMAIN Schema[u] = {1}
    <3>1. 1 \in 1 .. Len(from) /\ 2 \in 1 .. Len(from) /\ 1 .. 1 = {1}
      BY <1>3
    <3> QED
      BY <1>1, <1>3, <3>1, ColumnsOfTable
  <2>2. FieldNames(t) = {p} /\ FieldNames(u) = {q}
    BY <2>1 DEF FieldNames
  <2>3. W[0] = 0 /\ W[1] = 1
    <3>1. 1 \in 1 .. Len(from) /\ 1 - 1 = 0
      BY <1>3
    <3>2. W[0] = 0 /\ W[1] = W[1 - 1] + Len(Schema[from[1]])
      BY <3>1 DEF Widths
    <3> QED
      BY <1>3, <3>1, <3>2
  <2>4. PICK l \in Numberings({p}, 1), r \in Numberings({q}, 2) : idx = Over(r, l)
    <3> DEFINE left == UNION {FieldNames(from[k]) : k \in 1 .. (Len(from) - 1)}
               maps(L, R, first) == {Over(r, l) : l \in Numberings(L, 1), r \in Numberings(R, first)}
    <3>1. Len(from) - 1 = 1 /\ 1 .. 1 = {1}
      BY <1>3
    <3>2. left = {p}
      BY <2>2, <3>1
    <3> HIDE DEF p, q
    <3>6. Cardinality({p}) = 1
      BY FS_Singleton
    <3>3. Cardinality({p}) + 1 = 2
      BY <3>6
    <3>4. ColumnMaps(from) = maps(left, FieldNames(from[Len(from)]), Cardinality(left) + 1)
      BY <1>3 DEF ColumnMaps
    <3> HIDE DEF left
    <3>7. FieldNames(from[Len(from)]) = {q} /\ Cardinality(left) + 1 = 2
      BY <1>3, <2>2, <3>2, <3>3
    <3> HIDE DEF maps
    <3>5. ColumnMaps(from) = maps({p}, {q}, 2)
      BY <3>2, <3>4, <3>7
    <3> QED
      BY <3>5 DEF maps
  <2>5. DOMAIN l = {p} /\ l[p] = 1 /\ DOMAIN r = {q} /\ r[q] = 2
    <3> HIDE DEF p, q
    <3> QED
      BY <2>4, OneNumbering
  <2>6. p # q
    BY <1>3
  <2>7. idx[p] = 1 /\ idx[q] = 2
    <3> HIDE DEF p, q
    <3> QED
      BY <2>4, <2>5, <2>6 DEF Over
  <2>8. ASSUME NEW k \in 1 .. Len(from), NEW i \in DOMAIN Schema[from[k]]
        PROVE  idx[<<from[k], Schema[from[k]][i].name>>] = W[k - 1] + i
    <3>1. CASE k = 1
      <4>1. i = 1 /\ k - 1 = 0
        BY <2>1, <3>1
      <4> QED
        BY <2>3, <2>7, <3>1, <4>1
    <3>2. CASE k = 2
      <4>1. i = 1 /\ k - 1 = 1
        BY <2>1, <3>2
      <4> QED
        BY <2>3, <2>7, <3>2, <4>1
    <3> QED
      BY <1>3, <3>1, <3>2
  <2> QED
    BY <2>8 DEF ByName
<1> QED
  BY <1>2, <1>3

\* A column is read where the first table that has it keeps it.
LEMMA AtomByName ==
  ASSUME IsFrom(stmt.tables), ByName(stmt.tables, colIdx, Width), NEW row,
         NEW a, IsOperand(a), Resolvable(a, stmt.tables)
  PROVE  Eval(Resolve(a, stmt.tables), row, colIdx) = FieldByName(a, row)
<1> DEFINE from == stmt.tables
<1>1. IsAtom(a)
  BY DEF IsOperand, IsAtom
<1>2. CASE a.type = "LITERAL"
  BY <1>1, <1>2 DEF Resolve, Eval, EvalAtom, FieldByName, IsAtom
<1>3. CASE a.type # "LITERAL"
  <2> DEFINE c == a.column
             First(k) == HasColumn(from[k], c) /\ \A i \in 1 .. (k - 1) : ~HasColumn(from[i], c)
             k0 == CHOOSE k \in Nodes : First(k)
  <2>1. a.type = "COLUMN_REF" /\ \E t \in Range(from) : HasColumn(t, c)
    BY <1>1, <1>3 DEF IsOperand, Resolvable, ColumnsExist
  <2>2. PICK k \in DOMAIN from : Qualify(c, from) = from[k] /\ First(k)
    BY <2>1, QualifyFinds
  <2>3. DOMAIN from = 1 .. Len(from) /\ Nodes = 1 .. Len(from) /\ Len(from) \in Nat
    BY DEF IsFrom, Nodes
  <2>4. k0 \in Nodes /\ First(k0)
    BY <2>2, <2>3
  <2>5. k0 = k
    BY <2>2, <2>3, <2>4
  <2> DEFINE t == from[k]
             i0 == CHOOSE i \in DOMAIN Schema[t] : Schema[t][i].name = c
  <2>6. i0 \in DOMAIN Schema[t] /\ Schema[t][i0].name = c
    BY <2>2 DEF HasColumn
  <2>7. FieldByName(a, row) = row[Width[k0 - 1] + CHOOSE i \in DOMAIN Schema[from[k0]] :
                                                     Schema[from[k0]][i].name = c]
    BY <1>3 DEF FieldByName
  <2>8. FieldByName(a, row) = row[Width[k - 1] + i0]
    BY <2>5, <2>7
  <2>9. Resolve(a, from) = Qualified(t, c)
    BY <1>1, <2>1, <2>2 DEF Resolve
  <2>10. Eval(Qualified(t, c), row, colIdx) = row[colIdx[<<t, c>>]]
    BY DEF Qualified, Eval, EvalAtom, IsAtom
  <2> HIDE DEF i0, c, k0
  <2>11. colIdx[<<t, Schema[t][i0].name>>] = Width[k - 1] + i0
    BY <2>3, <2>6 DEF ByName
  <2> QED
    BY <2>6, <2>8, <2>9, <2>10, <2>11
<1> QED
  BY <1>2, <1>3

\* The values of the select list are what the client's list names.
LEMMA ListByName ==
  ASSUME IsFrom(stmt.tables), Top # 0, Widths(stmt.tables, Width), ByName(stmt.tables, colIdx, Width),
         NEW row \in RowsOf(Width[Top]), NEW list, list \in Seq(Range(list)),
         \A e \in Range(list) : IsOperand(e) /\ (IsStar(e) \/ Resolvable(e, stmt.tables)),
         stmt.select = BoundList(list, stmt.tables)
  PROVE  Projected(row) = Wanted(list, row)
<1> DEFINE from == stmt.tables
           all == AllColumns(from)
           Q == {Qualified(f[1], f[2]) : f \in Fields(from)}
           S == Q \cup {Resolve(e, from) : e \in Range(list)}
           T == Values \cup {FieldByName(e, row) : e \in Range(list)}
           R == {x \in S \X T : x[2] = Eval(x[1], row, colIdx)}
           s == [i \in DOMAIN list |-> IF IsStar(list[i]) THEN all ELSE <<Resolve(list[i], from)>>]
           t == [i \in DOMAIN list |-> IF list[i] = ColumnRef("*") THEN row
                                       ELSE <<FieldByName(list[i], row)>>]
           w == Width[Top]
           m == Len(list)
<1>1. /\ row \in Seq(Values) /\ Len(row) = w
      /\ m \in Nat /\ DOMAIN list = 1 .. m /\ \A i \in 1 .. m : list[i] \in Range(list)
  BY DEF RowsOf, Range
<1>2. all \in Seq(Q) /\ Len(all) = w
      /\ \A j \in 1 .. Len(all) : \E k \in 1 .. Len(from) : \E i \in DOMAIN Schema[from[k]] :
            j = Width[k - 1] + i /\ all[j] = Qualified(from[k], Schema[from[k]][i].name)
  <2>1. Len(from) # 0 /\ Width[Len(from)] = Width[Top]
    BY DEF Top
  <2> QED
    BY <2>1, StarColumns
<1>3. ASSUME NEW j \in 1 .. w PROVE row[j] = Eval(all[j], row, colIdx)
  <2>1. PICK k \in 1 .. Len(from) : \E i \in DOMAIN Schema[from[k]] :
          j = Width[k - 1] + i /\ all[j] = Qualified(from[k], Schema[from[k]][i].name)
    BY <1>2
  <2>2. PICK i \in DOMAIN Schema[from[k]] :
          j = Width[k - 1] + i /\ all[j] = Qualified(from[k], Schema[from[k]][i].name)
    BY <2>1
  <2>3. Eval(all[j], row, colIdx) = row[colIdx[<<from[k], Schema[from[k]][i].name>>]]
    <3> DEFINE c == Schema[from[k]][i].name
               u == from[k]
    <3>1. all[j] = Qualified(u, c)
      BY <2>2
    <3> HIDE DEF all, c, u
    <3>2. Eval(Qualified(u, c), row, colIdx) = row[colIdx[<<u, c>>]]
      BY DEF Qualified, Eval, EvalAtom, IsAtom
    <3> QED
      BY <3>1, <3>2 DEF c, u
  <2>4. colIdx[<<from[k], Schema[from[k]][i].name>>] = j
    BY <2>2 DEF ByName
  <2> QED
    BY <2>3, <2>4
<1>4. ASSUME NEW e \in Range(list)
      PROVE  /\ IsStar(e) => e = ColumnRef("*")
             /\ e = ColumnRef("*") => IsStar(e)
             /\ ~IsStar(e) => FieldByName(e, row) = Eval(Resolve(e, from), row, colIdx)
  <2>1. IsStar(e) => e = ColumnRef("*")
    <3>1. IsOperand(e)
      OBVIOUS
    <3> QED
      BY <3>1 DEF IsStar, IsOperand
  <2>2. e = ColumnRef("*") => IsStar(e)
    BY DEF IsStar, ColumnRef
  <2>3. ~IsStar(e) => FieldByName(e, row) = Eval(Resolve(e, from), row, colIdx)
    BY AtomByName
  <2> QED
    BY <2>1, <2>2, <2>3
<1> HIDE DEF all
<1>5. \A v \in S, x \in T : x = Eval(v, row, colIdx) => <<v, x>> \in R
  <2> HIDE DEF S, T
  <2> QED
    OBVIOUS
<1>6. /\ \A c \in Q : c \in S
      /\ \A e \in Range(list) : Resolve(e, from) \in S /\ FieldByName(e, row) \in T
      /\ \A v \in Values : v \in T
  <2> HIDE DEF Q
  <2> QED
    OBVIOUS
<1> HIDE DEF S, T, R, Q, w, m, from
<1>7. ASSUME NEW i \in 1 .. m
      PROVE  /\ s[i] \in Seq(S) /\ t[i] \in Seq(T) /\ Len(s[i]) = Len(t[i])
             /\ \A j \in 1 .. Len(s[i]) : <<s[i][j], t[i][j]>> \in R
  <2> DEFINE e == list[i]
  <2>1. e \in Range(list)
    BY <1>1
  <2>2. s[i] = IF IsStar(e) THEN all ELSE <<Resolve(e, from)>>
    BY <1>1
  <2>3. t[i] = IF e = ColumnRef("*") THEN row ELSE <<FieldByName(e, row)>>
    BY <1>1
  <2> HIDE DEF e, s, t
  <2>4. CASE IsStar(e)
    <3>1. s[i] = all /\ t[i] = row
      BY <1>4, <2>1, <2>2, <2>3, <2>4
    <3>2. all \in Seq(S) /\ row \in Seq(T)
      BY <1>1, <1>2, <1>6
    <3>3. \A j \in 1 .. w : all[j] \in S /\ row[j] \in T
      BY <1>1, <1>2, <3>2
    <3>4. \A j \in 1 .. w : <<all[j], row[j]>> \in R
      BY <1>3, <1>5, <3>3
    <3> QED
      BY <1>1, <1>2, <3>1, <3>2, <3>4
  <2>5. CASE ~IsStar(e)
    <3>1. s[i] = <<Resolve(e, from)>> /\ t[i] = <<FieldByName(e, row)>>
      BY <1>4, <2>1, <2>2, <2>3, <2>5
    <3>2. Resolve(e, from) \in S /\ FieldByName(e, row) \in T
      BY <1>6, <2>1
    <3>3. <<Resolve(e, from), FieldByName(e, row)>> \in R
      BY <1>4, <1>5, <2>1, <2>5, <3>2
    <3> QED
      BY <3>1, <3>2, <3>3
  <2> QED
    BY <2>4, <2>5
<1>8. /\ s \in Seq(Seq(S)) /\ Len(s) = m /\ t \in Seq(Seq(T)) /\ Len(t) = m
  <2> DEFINE SS == Seq(S)
             TT == Seq(T)
  <2>1. \A i \in 1 .. m : s[i] \in SS /\ t[i] \in TT
    BY <1>7
  <2>2. s = [i \in 1 .. m |-> s[i]] /\ t = [i \in 1 .. m |-> t[i]]
    BY <1>1
  <2> HIDE DEF SS, TT, s, t
  <2>3. s \in [1 .. m -> SS] /\ t \in [1 .. m -> TT]
    BY <2>1, <2>2
  <2>4. s \in Seq(SS) /\ Len(s) = m /\ t \in Seq(TT) /\ Len(t) = m
    BY <1>1, <2>3
  <2> QED
    BY <2>4 DEF SS, TT
<1>9. stmt.select = FlattenSeq(s) /\ Wanted(list, row) = FlattenSeq(t)
  BY DEF BoundList, Wanted, all, from
<1> HIDE DEF s, t
<1>10. /\ FlattenSeq(s) \in Seq(S) /\ FlattenSeq(t) \in Seq(T)
       /\ Len(FlattenSeq(s)) = Len(FlattenSeq(t))
       /\ \A j \in 1 .. Len(FlattenSeq(s)) : <<FlattenSeq(s)[j], FlattenSeq(t)[j]>> \in R
  <2>1. \A i \in 1 .. Len(s) : /\ Len(s[i]) = Len(t[i])
                               /\ \A j \in 1 .. Len(s[i]) : <<s[i][j], t[i][j]>> \in R
    BY <1>7, <1>8
  <2> QED
    BY <1>8, <2>1, FlattenRelates
<1> DEFINE x == FlattenSeq(s)
           y == FlattenSeq(t)
<1>11. x \in Seq(S) /\ y \in Seq(T) /\ Len(x) = Len(y)
       /\ \A j \in 1 .. Len(x) : <<x[j], y[j]>> \in R
  BY <1>10
<1>12. Projected(row) = [j \in DOMAIN x |-> Eval(x[j], row, colIdx)] /\ Wanted(list, row) = y
  BY <1>9 DEF Projected
<1> HIDE DEF x, y
<1>13. \A j \in 1 .. Len(x) : y[j] = Eval(x[j], row, colIdx)
  BY <1>11 DEF R
<1>14. DOMAIN x = 1 .. Len(x) /\ y = [j \in 1 .. Len(x) |-> y[j]]
  BY <1>11
<1> QED
  BY <1>12, <1>13, <1>14

-----------------------------------------------------------------------------
(* From the text a client sends to the plan.                                *)

LEMMA ListsGrow ==
  ASSUME NEW P, NEW Q, P \subseteq Q
  PROVE  Lists(P) \subseteq Lists(Q)
<1>1. Seq(P) \subseteq Seq(Q)
  OBVIOUS
<1> QED
  BY <1>1 DEF Lists

LEMMA FollowedGrow ==
  ASSUME NEW P, NEW Q, NEW more, P \subseteq Q
  PROVE  Followed(P, more) \subseteq Followed(Q, more)
BY DEF Followed

\* More expressions make more sentences.
LEMMA SentencesGrow ==
  ASSUME NEW E, NEW F, E \subseteq F
  PROVE  Sentences(E) \subseteq Sentences(F)
<1>1. /\ Lists(Projection(E)) \subseteq Lists(Projection(F)) /\ Lists(E) \subseteq Lists(F)
      /\ Lists(Assignments(E)) \subseteq Lists(Assignments(F))
  <2>1. Projection(E) \subseteq Projection(F) /\ Assignments(E) \subseteq Assignments(F)
    BY DEF Projection, Assignments
  <2> QED
    BY <2>1, ListsGrow
<1>2. Conditions(E) \subseteq Conditions(F)
  BY DEF Conditions
<1>3. InParentheses(Lists(E)) \subseteq InParentheses(Lists(F))
  BY <1>1 DEF InParentheses
<1>4. Inserts(E) \subseteq Inserts(F)
  BY <1>3 DEF Inserts
<1>5. ASSUME NEW V, NEW W, V \subseteq W
      PROVE  /\ Selects(E, V) \subseteq Selects(F, W) /\ Updates(E, V) \subseteq Updates(F, W)
             /\ Deletes(V) \subseteq Deletes(W)
  BY <1>1, <1>5 DEF Selects, Updates, Deletes
<1>6. /\ Selects(E, Conditions(E)) \subseteq Selects(F, Conditions(F))
      /\ Updates(E, Conditions(E)) \subseteq Updates(F, Conditions(F))
      /\ Deletes(Conditions(E)) \subseteq Deletes(Conditions(F))
      /\ Selects(E, {Nowhere}) \subseteq Selects(F, {Nowhere})
      /\ Updates(E, {Nowhere}) \subseteq Updates(F, {Nowhere})
  BY <1>2, <1>5
<1> DEFINE S(X) == Selects(X, Conditions(X)) \cup Updates(X, Conditions(X)) \cup Deletes(Conditions(X))
           M == Operators \cup {",", "WHERE"}
           N == {",", "WHERE"}
<1>7. /\ Followed(Inserts(E) \cup Creates \cup Commands, {})
             \subseteq Followed(Inserts(F) \cup Creates \cup Commands, {})
      /\ Followed(S(E), Operators) \subseteq Followed(S(F), Operators)
      /\ Followed(Selects(E, {Nowhere}), N) \subseteq Followed(Selects(F, {Nowhere}), N)
      /\ Followed(Updates(E, {Nowhere}), M) \subseteq Followed(Updates(F, {Nowhere}), M)
  <2>1. Inserts(E) \cup Creates \cup Commands \subseteq Inserts(F) \cup Creates \cup Commands
    BY <1>4
  <2>2. S(E) \subseteq S(F)
    BY <1>6
  <2> HIDE DEF S, M, N
  <2> QED
    BY <1>6, <2>1, <2>2, FollowedGrow
<1> QED
  BY <1>7 DEF Sentences

\* The engine's parser is Parser's.  A client puts every operand that is itself an
\* operation into parentheses and names columns without their tables, or it sends what
\* is no statement by any rule of precedence: those decide what the words of Sql mean,
\* not which words they are.
SentIsPlain ==
  \A x \in Sent :
     /\ x.text \in Seq(STRING) /\ Parsed(x.text) = Parse(x.text)
     /\ IF x.meant = Nothing THEN \A p \in Sql : p.words # x.text
        ELSE Phrase(x.text, x.meant) \in PlainSql

LEMMA PlainIsSql == PlainSql \subseteq Sql
<1>1. PlainExpressions \subseteq Expressions
  BY DEF PlainExpressions
<1> QED
  BY <1>1, SentencesGrow DEF PlainSql, Sql

ReadAsMeant == (\E x \in Sent : text = x.text /\ meant = x.meant) /\ ParsesBack

LEMMA ReadStep ==
  ASSUME SentIsPlain, ReadAsMeant, [Next]_vars
  PROVE  ReadAsMeant'
<1>1. PICK x \in Sent : text = x.text /\ meant = x.meant
  BY DEF ReadAsMeant
<1>2. CASE ParseText
  <2>1. x.text \in Seq(STRING) /\ Parsed(text) = Parse(x.text)
    BY <1>1 DEF SentIsPlain
  <2>2. /\ \A n : Phrase(x.text, n) \in Sql <=> \E r \in Parse(x.text) : r.node = n
        /\ \A q \in Parse(x.text) : \A r \in Parse(x.text) : q = r
    BY <2>1, ReadsSql DEF One
  <2>3. text' = text /\ meant' = meant
    BY <1>2 DEF ParseText
  <2>4. CASE phase' = "unparsed"
    <3>1. Parse(x.text) = {}
      BY <1>2, <2>1, <2>4 DEF ParseText
    <3>2. meant = Nothing
      BY <1>1, <2>2, <3>1, PlainIsSql DEF SentIsPlain
    <3> QED
      BY <1>1, <2>3, <2>4, <3>2 DEF ReadAsMeant, ParsesBack
  <2>5. ASSUME NEW r \in Parse(x.text), phase' = "parsed", stmt' = r.node PROVE ReadAsMeant'
    <3>1. Phrase(x.text, r.node) \in Sql
      BY <2>2
    <3>2. Phrase(x.text, r.node).words = x.text
      BY PhraseParts
    <3>3. meant # Nothing
      BY <1>1, <3>1, <3>2 DEF SentIsPlain
    <3>4. Phrase(x.text, meant) \in Sql
      BY <1>1, <3>3, PlainIsSql DEF SentIsPlain
    <3>5. r.node = meant
      BY <2>2, <3>4
    <3> QED
      BY <1>1, <2>3, <2>5, <3>5 DEF ReadAsMeant, ParsesBack
  <2> QED
    BY <1>2, <2>1, <2>4, <2>5 DEF ParseText
<1>3. ASSUME UNCHANGED <<text, meant>>, phase' \notin {"parsed", "unparsed"} PROVE ReadAsMeant'
  BY <1>1, <1>3 DEF ReadAsMeant, ParsesBack
<1>4. CASE BindStatement
  BY <1>3, <1>4 DEF BindStatement
<1>5. CASE Open \/ Finish
  BY <1>3, <1>5 DEF Open, Finish, tree
<1>6. ASSUME NEW k \in Nodes, phase = "running", Pull(k) \/ Rewind(k) PROVE ReadAsMeant'
  <2>1. Pull(k) => phase' \in {"running", "failed"}
    <3> DEFINE row == leftRow[k] \o ScanOf(k)[cursor[k] + 1]
    <3> HIDE DEF row
    <3>1. Deliver(k, row) => phase' \in {"running", "failed"}
      BY <1>6 DEF Deliver
    <3> QED
      BY <3>1 DEF Pull, row
  <2>2. Rewind(k) => phase' \in {"running", "failed"}
    BY <1>6 DEF Rewind
  <2>3. UNCHANGED <<text, meant>>
    BY <1>6 DEF Pull, Rewind
  <2> QED
    BY <1>3, <1>6, <2>1, <2>2, <2>3
<1>7. CASE UNCHANGED vars
  BY <1>1, <1>7 DEF vars, ReadAsMeant, ParsesBack
<1> QED
  BY <1>2, <1>4, <1>5, <1>6, <1>7 DEF Next

\* The plan is that of the statement the client meant.
FromMeant ==
  /\ IsSelect(meant) /\ meant.type = "SELECT" /\ Accepts(meant)
  /\ stmt = Bound(meant) /\ colIdx \in ColumnMaps(meant.tables)

PlannedAsMeant == phase \in {"planned", "running", "done"} => FromMeant

LEMMA MeantStep ==
  ASSUME IInv, ParsesBack, PlannedAsMeant, [Next]_vars
  PROVE  PlannedAsMeant'
<1>1. CASE ParseText
  BY <1>1 DEF ParseText, PlannedAsMeant
<1>2. CASE BindStatement
  <2>1. CASE phase' = "planned"
    <3>1. /\ IsSelect(stmt) /\ stmt.type = "SELECT" /\ Accepts(stmt) /\ stmt = meant
          /\ stmt' = Bound(stmt) /\ colIdx' \in ColumnMaps(stmt.tables) /\ meant' = meant
      BY <1>2, <2>1 DEF BindStatement, IInv, ParsesBack
    <3> QED
      BY <3>1 DEF PlannedAsMeant, FromMeant
  <2>2. CASE phase' # "planned"
    BY <1>2, <2>2 DEF BindStatement, PlannedAsMeant
  <2> QED
    BY <2>1, <2>2
<1>3. ASSUME UNCHANGED <<meant, stmt, colIdx>>, phase \in {"planned", "running", "done"} \/ phase' = phase
      PROVE  PlannedAsMeant'
  BY <1>3 DEF PlannedAsMeant, FromMeant
<1>4. CASE Open \/ Finish
  BY <1>3, <1>4 DEF Open, Finish, tree
<1>5. ASSUME NEW k \in Nodes, Pull(k) \/ Rewind(k) PROVE PlannedAsMeant'
  BY <1>3, <1>5 DEF Pull, Rewind
<1>6. CASE UNCHANGED vars
  BY <1>3, <1>6 DEF vars
<1> QED
  BY <1>1, <1>2, <1>4, <1>5, <1>6 DEF Next

\* If no row is dropped, the answer is every row, projected.
LEMMA AllKept ==
  ASSUME stmt.where = NoWhere, Len(Joined) \in Nat
  PROVE  Answer = [m \in 1 .. Len(Joined) |-> Projected(Joined[m])]
<1> DEFINE n == Len(Joined)
           A == AnswerTo
           P(l) == [m \in 1 .. l |-> Projected(Joined[m])]
           X == {l \in 0 .. n : A[l] = P(l)}
           z == 0
<1>1. \A row : Verdict(row) = "keep"
  BY DEF Verdict
<1>2. Answers(AnswerTo)
  BY AnswersAre
<1>3. A[0] = <<>> /\ \A m \in 1 .. n : A[m] = Append(A[m - 1], Projected(Joined[m]))
  BY <1>1, <1>2 DEF Answers
<1> HIDE DEF A, n
<1>4. n \in Nat /\ z \in Nat /\ z <= n
  BY DEF n
<1>5. z \in X
  BY <1>3, <1>4
<1>6. ASSUME NEW l \in z + 1 .. n, l - 1 \in X PROVE l \in X
  <2> DEFINE v == Projected(Joined[l])
  <2>1. l \in 1 .. n /\ l - 1 \in Nat /\ l \in 0 .. n
    BY <1>4
  <2>2. A[l] = Append(P(l - 1), v)
    BY <1>3, <1>6, <2>1
  <2>3. Append(P(l - 1), v) = P(l)
    <3> DEFINE a == P(l - 1)
               S == {Projected(Joined[m]) : m \in 1 .. l}
    <3>1. a \in Seq(S) /\ Len(a) = l - 1 /\ v \in S /\ \A m \in 1 .. l - 1 : a[m] = Projected(Joined[m])
      BY <2>1
    <3>2. P(l) \in [1 .. l -> S] /\ \A m \in 1 .. l : P(l)[m] = Projected(Joined[m])
      BY <2>1
    <3> HIDE DEF a, S, P
    <3>3. Append(a, v) \in Seq(S) /\ Len(Append(a, v)) = l
          /\ \A m \in 1 .. l : Append(a, v)[m] = IF m = l THEN v ELSE a[m]
      BY <2>1, <3>1
    <3>4. Append(a, v) = [m \in 1 .. l |-> Append(a, v)[m]]
      BY <3>3
    <3>5. \A m \in 1 .. l : Append(a, v)[m] = P(l)[m]
      BY <2>1, <3>1, <3>2, <3>3
    <3>6. P(l) = [m \in 1 .. l |-> P(l)[m]]
      BY <3>2
    <3>7. Append(a, v) = P(l)
      BY <3>4, <3>5, <3>6
    <3> QED
      BY <3>7 DEF a
  <2> QED
    BY <2>1, <2>2, <2>3
<1>7. n \in X
  <2> HIDE DEF X, z
  <2> QED
    BY <1>4, <1>5, <1>6, Upwards
<1> QED
  BY <1>7 DEF Answer, A, n

LEMMA NamesOfAnswer ==
  ASSUME IInv, PlannedAsMeant, ColumnsDiffer, phase = "done", Unambiguous, meant.where = NoWhere,
         \A e \in Range(meant.select) : IsAtom(e)
  PROVE  results = [m \in DOMAIN Joined |-> Wanted(meant.select, Joined[m])]
<1> DEFINE from == meant.tables
           list == meant.select
<1>1. /\ IsSelect(meant) /\ meant.type = "SELECT" /\ Accepts(meant)
      /\ stmt = Bound(meant) /\ colIdx \in ColumnMaps(from)
  BY DEF PlannedAsMeant, FromMeant
<1>2. /\ stmt.tables = from /\ IsFrom(from) /\ Top \in Nat \ {0} /\ Top = Len(from) /\ Nodes = 1 .. Top
  BY <1>1, SelectBound DEF Top, Nodes, IsFrom
<1>3. stmt.select = BoundList(list, from) /\ stmt.where = NoWhere
  BY <1>1 DEF Bound, BoundSelect, BoundWhere, IsSelect
<1>4. /\ list \in Seq(Range(list))
      /\ \A e \in Range(list) : IsOperand(e) /\ (IsStar(e) \/ Resolvable(e, from))
  BY <1>1 DEF IsSelect, Accepts, SelectAccepted, IsExpression, IsAtom
<1>5. IsHeap(heap)
  BY DEF IInv
<1>6. /\ Widths(stmt.tables, Width) /\ Products(stmt.tables, heap, Product)
      /\ Joined = Product[Top]
  BY <1>2, <1>5, Basics DEF Joined
<1>7. ByName(from, colIdx, Width)
  <2>1. \/ Len(from) = 1
        \/ /\ Len(from) = 2 /\ from[1] # from[2]
           /\ Len(Schema[from[1]]) = 1 /\ Len(Schema[from[2]]) = 1
    BY <1>2 DEF Unambiguous
  <2> QED
    BY <1>1, <1>2, <1>6, <2>1, MapByName
<1>8. Joined \in Seq(RowsOf(Width[Top]))
  BY <1>2, <1>5, <1>6, ProductsWide
<1>9. \A row \in RowsOf(Width[Top]) : Projected(row) = Wanted(list, row)
  BY <1>2, <1>3, <1>4, <1>6, <1>7, ListByName
<1>10. Len(Joined) \in Nat /\ DOMAIN Joined = 1 .. Len(Joined)
       /\ \A m \in 1 .. Len(Joined) : Joined[m] \in RowsOf(Width[Top])
  BY <1>8
<1>11. results = [m \in 1 .. Len(Joined) |-> Projected(Joined[m])]
  BY <1>3, <1>10, AllKept DEF IInv, ResultIsQuery
<1>12. \A m \in 1 .. Len(Joined) : Projected(Joined[m]) = Wanted(list, Joined[m])
  BY <1>9, <1>10
<1> QED
  BY <1>10, <1>11, <1>12

-----------------------------------------------------------------------------
(* What is proved of Query.                                                 *)

\* Cursors stay within their scans, a join's left row is as wide as the tables to its
\* left, and the map the plan was generated with numbers columns of the joined row.
THEOREM TypeCorrect == Spec => []TypeOK
<1>1. IInv => TypeOK
  <2> SUFFICES ASSUME IInv PROVE TypeOK
    OBVIOUS
  <2>1. CASE phase \in {"planned", "running", "done", "failed"}
    <3>1. Planned /\ Shape
      BY <2>1 DEF IInv
    <3>2. Top \in Nat /\ Nodes = 1 .. Top /\ \A k \in 1 .. Top : Len(ScanOf(k)) \in Nat
      BY <3>1, ScanType DEF IInv, Planned, Nodes, Top, IsFrom, ScanOf
    <3>3. Range(colIdx) \subseteq 1 .. Width[Top]
      BY <3>1 DEF Planned, Range
    <3>4. \A k \in Nodes : /\ cursor[k] \in 0 .. Len(ScanOf(k))
                           /\ leftRow[k] = <<>> \/ Len(leftRow[k]) = Width[k - 1]
      BY <3>1, <3>2 DEF Shape
    <3> QED
      BY <3>1, <3>2, <3>3, <3>4 DEF TypeOK, IInv, Phases, Shape
  <2>2. CASE phase \notin {"planned", "running", "done", "failed"}
    BY <2>2 DEF IInv, Phases, TypeOK
  <2> QED
    BY <2>1, <2>2
<1> QED
  BY <1>1, IInvIsInvariant, PTL

\* Whatever the schema, the tables, their rows and the order a hash table gives its
\* columns, and however many tables the FROM list names: an answer is the projection
\* of exactly the rows of the product that the WHERE clause keeps, in left-major
\* order, and a query fails only where some row of the product makes it raise.
THEOREM AnswersAreExact == Spec => []ResultIsQuery
<1>1. IInv => ResultIsQuery
  BY DEF IInv
<1> QED
  BY <1>1, IInvIsInvariant, PTL

\* A statement of a client that leaves nothing to precedence and qualifies no column is
\* read as the statement it means, however deep its operations nest and whatever stands
\* behind it, and a text that is no statement is refused: see SentIsPlain.
THEOREM ReadsWhatIsMeant == SentIsPlain /\ Spec => []ParsesBack
<1>1. Init => ReadAsMeant
  BY DEF Init, ReadAsMeant, ParsesBack
<1>2. SentIsPlain /\ ReadAsMeant /\ [Next]_vars => ReadAsMeant'
  BY ReadStep
<1>3. ReadAsMeant => ParsesBack
  BY DEF ReadAsMeant
<1> SUFFICES ASSUME SentIsPlain PROVE Spec => []ParsesBack
  OBVIOUS
<1>4. ReadAsMeant /\ [Next]_vars => ReadAsMeant'
  BY <1>2
<1> QED
  BY <1>1, <1>3, <1>4, PTL DEF Spec

\* From the text to the columns of its answer, over tables whose columns have different
\* names: where the column map is no matter of hashing, a column of the select list the
\* client wrote is answered with the column of that name, and '*' with the row.
THEOREM ColumnsAreNamed == ColumnsDiffer /\ SentIsPlain /\ Spec => []ColumnsByName
<1>1. Init => PlannedAsMeant
  BY DEF Init, PlannedAsMeant
<1>2. IInv /\ ParsesBack /\ PlannedAsMeant /\ [Next]_vars => PlannedAsMeant'
  BY MeantStep
<1>3. ColumnsDiffer /\ IInv /\ PlannedAsMeant => ColumnsByName
  BY NamesOfAnswer DEF ColumnsByName
<1> SUFFICES ASSUME ColumnsDiffer, SentIsPlain PROVE Spec => []ColumnsByName
  OBVIOUS
<1>4. IInv /\ PlannedAsMeant => ColumnsByName
  BY <1>3
<1>5. Spec => []ParsesBack
  BY ReadsWhatIsMeant
<1> QED
  BY <1>1, <1>2, <1>4, <1>5, IInvIsInvariant, PTL DEF Spec
=============================================================================
