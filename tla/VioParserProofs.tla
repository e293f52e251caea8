-------------------------- MODULE VioParserProofs --------------------------
(***************************************************************************)
(* For every text: the stacks of parse() agree, the tokens lie in the text *)
(* with nothing but blanks and comments between them, parse() takes the    *)
(* sequences of tokens that are one expression and gives up at the first   *)
(* token that cannot follow, and its messages name the place of the error. *)
(***************************************************************************)
EXTENDS VioParsing, VioVectorProofs, FiniteSetTheorems

-----------------------------------------------------------------------------
(***************************************************************************)
(* Counting: how many of the first n elements of f are in S.               *)
(***************************************************************************)
Count(f, n, S) == Cardinality({i \in 1 .. n : f[i] \in S})

LEMMA Interval ==
  ASSUME NEW n \in Nat
  PROVE  IsFiniteSet(1 .. n) /\ Cardinality(1 .. n) = n
BY FS_Interval

One(x, S) == IF x \in S THEN 1 ELSE 0

LEMMA CountNext ==
  ASSUME NEW f, NEW n \in Nat, NEW S
  PROVE  /\ Count(f, 0, S) = 0
         /\ Count(f, n, S) \in 0 .. n
         /\ Count(f, n + 1, S) = Count(f, n, S) + (IF f[n + 1] \in S THEN 1 ELSE 0)
<1> DEFINE C == {i \in 1 .. n : f[i] \in S}
           D == {i \in 1 .. n + 1 : f[i] \in S}
<1>1. IsFiniteSet(C) /\ Cardinality(C) \in 0 .. n
  <2>1. IsFiniteSet(1 .. n) /\ Cardinality(1 .. n) = n
    BY Interval
  <2>2. C \in SUBSET (1 .. n)
    OBVIOUS
  <2>3. IsFiniteSet(C) /\ Cardinality(C) <= n
    BY <2>1, <2>2, FS_Subset
  <2> QED BY <2>3, FS_CardinalityType
<1>2. Count(f, 0, S) = 0
  <2>1. {i \in 1 .. 0 : f[i] \in S} = {}
    OBVIOUS
  <2> QED BY <2>1, FS_EmptySet DEF Count
<1>3. n + 1 \notin C
  OBVIOUS
<1>4. CASE f[n + 1] \in S
  <2>1. D = C \cup {n + 1}
    BY <1>4
  <2> HIDE DEF C, D
  <2>2. Cardinality(D) = Cardinality(C) + 1
    BY <1>1, <1>3, <2>1, FS_AddElement
  <2> QED BY <1>1, <1>2, <1>4, <2>2 DEF Count, C, D
<1>5. CASE f[n + 1] \notin S
  <2>1. D = C
    BY <1>5
  <2> QED BY <1>1, <1>2, <1>5, <2>1 DEF Count
<1> QED BY <1>4, <1>5

LEMMA CountSame ==
  ASSUME NEW f, NEW g, NEW n \in Nat, NEW S,
         \A i \in 1 .. n : f[i] \in S <=> g[i] \in S
  PROVE  Count(f, n, S) = Count(g, n, S)
<1>1. {i \in 1 .. n : f[i] \in S} = {i \in 1 .. n : g[i] \in S}
  OBVIOUS
<1> QED BY <1>1 DEF Count

-----------------------------------------------------------------------------
(***************************************************************************)
(* Lexical rules.                                                          *)
(***************************************************************************)

\* Min and Max are what their names say.
LEMMA MinOf ==
  ASSUME NEW S, S \subseteq Nat, S # {}
  PROVE  Min(S) \in S /\ \A j \in S : Min(S) <= j
BY Least DEF Min

LEMMA MaxOf ==
  ASSUME NEW n \in Nat, NEW S, S \subseteq 1 .. n, S # {}
  PROVE  Max(S) \in S /\ \A j \in S : j <= Max(S)
BY Greatest DEF Max

\* A run of characters is made of such characters.
LEMMA RunIsOf ==
  ASSUME NEW S, NEW s \in Seq(S), NEW C
  PROVE  /\ Run(s, C) \in 0 .. Len(s)
         /\ \A i \in 1 .. Run(s, C) : s[i] \in C
         /\ \A n \in 1 .. Len(s) : (\A i \in 1 .. n : s[i] \in C) => n <= Run(s, C)
<1> DEFINE D == {n \in 1 .. Len(s) : \A i \in 1 .. n : s[i] \in C}
<1>1. Len(s) \in Nat
  OBVIOUS
<1>2. CASE D = {}
  <2>1. Run(s, C) = 0
    BY <1>2, FS_EmptySet DEF Run
  <2> QED BY <1>1, <1>2, <2>1
<1>3. CASE D # {}
  <2>1. PICK k \in D : \A j \in D : j <= k
    BY <1>1, <1>3, Greatest
  <2>2. D = 1 .. k
    BY <1>1, <2>1
  <2>3. k \in 1 .. Len(s)
    OBVIOUS
  <2>4. Cardinality(1 .. k) = k
    BY <2>3, FS_Interval
  <2>5. Run(s, C) = k
    BY <2>2, <2>4 DEF Run
  <2> QED BY <1>1, <2>1, <2>2, <2>3, <2>5
<1> QED BY <1>2, <1>3

LEMMA Prefix ==
  ASSUME NEW S, NEW u \in Seq(S), NEW s \in Seq(S)
  PROVE  IsPrefix(u, s) <=> /\ Len(u) <= Len(s)
                            /\ \A i \in 1 .. Len(u) : u[i] = s[i]
<1>1. Len(u) \in Nat /\ Len(s) \in Nat
  OBVIOUS
<1>2. CASE Len(u) <= Len(s)
  <2> DEFINE v == SubSeq(u, 1, Len(u))
             t == SubSeq(s, 1, Len(u))
  <2>1. v = u
    BY SubSeqFull
  <2>2. t \in Seq(S) /\ Len(t) = Len(u) /\ \A i \in 1 .. Len(u) : t[i] = s[i]
    BY <1>1, <1>2
  <2> HIDE DEF v, t
  <2>3. u = t <=> \A i \in 1 .. Len(u) : u[i] = s[i]
    BY <2>2, SeqEqual
  <2> QED BY <1>2, <2>1, <2>3 DEF IsPrefix, v, t
<1>3. CASE ~ (Len(u) <= Len(s))
  BY <1>3 DEF IsPrefix
<1> QED BY <1>2, <1>3

LEMMA PrefixOfTwo ==
  ASSUME NEW S, NEW s \in Seq(S), NEW a, NEW b
  PROVE  IsPrefix(<<a, b>>, s) <=> Len(s) >= 2 /\ s[1] = a /\ s[2] = b
<1> DEFINE u == <<a, b>>
<1>1. Len(u) = 2 /\ u[1] = a /\ u[2] = b
  OBVIOUS
<1>2. u \in Seq(S \cup {a, b}) /\ s \in Seq(S \cup {a, b})
  <2>1. u \in Seq({a, b})
    OBVIOUS
  <2> HIDE DEF u
  <2> QED BY <2>1, SeqMonotonic
<1> HIDE DEF u
<1>3. IsPrefix(u, s) <=> 2 <= Len(s) /\ \A i \in 1 .. 2 : u[i] = s[i]
  BY <1>1, <1>2, Prefix
<1>4. (\A i \in 1 .. 2 : u[i] = s[i]) <=> u[1] = s[1] /\ u[2] = s[2]
  <2>1. \A i \in 1 .. 2 : i = 1 \/ i = 2
    OBVIOUS
  <2>2. 1 \in 1 .. 2 /\ 2 \in 1 .. 2
    OBVIOUS
  <2> QED BY <2>1, <2>2, Zenon
<1>5. Len(s) \in Nat
  OBVIOUS
<1> QED BY <1>1, <1>3, <1>4, <1>5 DEF u

\* The beginning of a text.
LEMMA FirstOf ==
  ASSUME NEW S, NEW s \in Seq(S), NEW n \in 0 .. Len(s)
  PROVE  /\ SubSeq(s, 1, n) \in Seq(S)
         /\ Len(SubSeq(s, 1, n)) = n
         /\ \A i \in 1 .. n : SubSeq(s, 1, n)[i] = s[i]
OBVIOUS

LEMMA ShortestOf ==
  ASSUME NEW n \in Nat, NEW S, S \subseteq 1 .. n
  PROVE  /\ Shortest(S) \in 0 .. n
         /\ Shortest(S) > 0 => Shortest(S) \in S /\ \A j \in S : Shortest(S) <= j
<1>1. CASE S = {}
  BY <1>1 DEF Shortest
<1>2. CASE S # {}
  <2>1. S \subseteq Nat
    OBVIOUS
  <2>2. Min(S) \in S /\ \A j \in S : Min(S) <= j
    BY <1>2, <2>1, MinOf
  <2>3. PICK m : m = Min(S)
    OBVIOUS
  <2>4. m \in S /\ \A j \in S : m <= j
    BY <2>2, <2>3, Zenon
  <2>5. Shortest(S) = m
    BY <1>2, <2>3, Zenon DEF Shortest
  <2> QED BY <2>4, <2>5
<1> QED BY <1>1, <1>2

\* What the rules for comments and blanks match may be left out.
LEMMA LineCommentIgnored ==
  ASSUME NEW S, NEW s \in Seq(S)
  PROVE  /\ LineComment(s) \in 0 .. Len(s)
         /\ LineComment(s) > 0 => IsIgnored(SubSeq(s, 1, LineComment(s)))
<1> DEFINE n == Run(s, Range(s) \ LineTerminators)
           piece == SubSeq(s, 1, n)
<1>1. CASE ~ IsPrefix(<<"/", "/">>, s)
  BY <1>1 DEF LineComment
<1>2. CASE IsPrefix(<<"/", "/">>, s)
  <2>1. LineComment(s) = n
    BY <1>2 DEF LineComment
  <2>2. Len(s) >= 2 /\ s[1] = "/" /\ s[2] = "/"
    BY <1>2, PrefixOfTwo, Zenon
  <2>3. /\ n \in 0 .. Len(s)
        /\ \A i \in 1 .. n : s[i] \in Range(s) \ LineTerminators
        /\ \A k \in 1 .. Len(s) :
             (\A i \in 1 .. k : s[i] \in Range(s) \ LineTerminators) => k <= n
    BY RunIsOf
  <2> HIDE DEF n
  <2>4. n >= 2
    <3>1. \A i \in 1 .. 2 : s[i] \in Range(s) \ LineTerminators
      BY <2>2 DEF Range, LineTerminators
    <3> QED BY <2>2, <2>3, <3>1
  <2>5. /\ piece \in Seq(S) /\ Len(piece) = n
        /\ \A i \in 1 .. n : piece[i] = s[i]
    BY <2>3, FirstOf
  <2> HIDE DEF piece
  <2>6. IsPrefix(<<"/", "/">>, piece)
    BY <2>2, <2>3, <2>4, <2>5, PrefixOfTwo
  <2>7. Range(piece) \cap {"\n", "\r"} = {}
    BY <2>3, <2>5 DEF Range, LineTerminators
  <2> QED BY <2>1, <2>3, <2>6, <2>7 DEF IsIgnored, piece
<1> QED BY <1>1, <1>2

LEMMA CommentIgnored ==
  ASSUME NEW S, NEW s \in Seq(S)
  PROVE  /\ Comment(s) \in 0 .. Len(s)
         /\ Comment(s) > 0 => IsIgnored(SubSeq(s, 1, Comment(s)))
<1> DEFINE E == {n \in 4 .. Len(s) : s[n - 1] = "*" /\ s[n] = "/"}
           n == Comment(s)
           piece == SubSeq(s, 1, n)
<1>1. CASE ~ IsPrefix(<<"/", "*">>, s)
  BY <1>1 DEF Comment
<1>2. CASE IsPrefix(<<"/", "*">>, s)
  <2>1. n = Shortest(E)
    BY <1>2 DEF Comment
  <2>2. E \subseteq 1 .. Len(s) /\ Len(s) \in Nat
    OBVIOUS
  <2>3. /\ n \in 0 .. Len(s)
        /\ n > 0 => n \in E /\ \A j \in E : n <= j
    BY <2>1, <2>2, ShortestOf
  <2>4. Len(s) >= 2 /\ s[1] = "/" /\ s[2] = "*"
    BY <1>2, PrefixOfTwo, Zenon
  <2> HIDE DEF n
  <2>5. /\ piece \in Seq(S) /\ Len(piece) = n
        /\ \A i \in 1 .. n : piece[i] = s[i]
    BY <2>3, FirstOf
  <2> HIDE DEF piece
  <2>6. ASSUME n > 0
        PROVE  IsIgnored(piece)
    <3>1. n \in 4 .. Len(s) /\ s[n - 1] = "*" /\ s[n] = "/"
      BY <2>3, <2>6
    <3>2. IsPrefix(<<"/", "*">>, piece)
      BY <2>4, <2>5, <3>1, PrefixOfTwo
    <3>3. ASSUME NEW k \in 4 .. n
          PROVE  k = n <=> piece[k - 1] = "*" /\ piece[k] = "/"
      <4>1. piece[k - 1] = s[k - 1] /\ piece[k] = s[k]
        BY <2>5, <3>1
      <4>2. k \in E => n <= k
        BY <2>3, <2>6
      <4> QED BY <3>1, <4>1, <4>2
    <3> QED BY <2>5, <3>1, <3>2, <3>3 DEF IsIgnored
  <2> QED BY <2>3, <2>6 DEF n, piece
<1> QED BY <1>1, <1>2

LEMMA BlanksIgnored ==
  ASSUME NEW S, NEW s \in Seq(S)
  PROVE  IsIgnored(SubSeq(s, 1, Run(s, Blanks)))
<1> DEFINE n == Run(s, Blanks)
           piece == SubSeq(s, 1, n)
<1>1. n \in 0 .. Len(s) /\ \A i \in 1 .. n : s[i] \in Blanks
  BY RunIsOf
<1> HIDE DEF n
<1>2. /\ piece \in Seq(S) /\ Len(piece) = n
      /\ \A i \in 1 .. n : piece[i] = s[i]
  BY <1>1, FirstOf
<1> HIDE DEF piece
<1>3. Range(piece) \subseteq Blanks
  BY <1>1, <1>2 DEF Range
<1> QED BY <1>3 DEF IsIgnored, n, piece

\* Each rule matches a beginning of what is left of the text, and gives a token
\* or is for something to be left out.
LEMMA RulesFit ==
  ASSUME NEW S, NEW s \in Seq(S), NEW r \in DOMAIN lexRules(s)
  PROVE  LET rule == lexRules(s)[r]
         IN /\ rule.length \in 0 .. Len(s)
            /\ rule.type \in InnerTokens \cup {"EMPTY"}
            /\ rule.type = "EMPTY" /\ rule.length > 0 =>
                 IsIgnored(SubSeq(s, 1, rule.length))
<1>1. r \in 1 .. 8
  BY DEF lexRules
<1>2. /\ LineComment(s) \in 0 .. Len(s) /\ Comment(s) \in 0 .. Len(s)
      /\ LineComment(s) > 0 => IsIgnored(SubSeq(s, 1, LineComment(s)))
      /\ Comment(s) > 0 => IsIgnored(SubSeq(s, 1, Comment(s)))
      /\ IsIgnored(SubSeq(s, 1, Run(s, Blanks)))
  BY LineCommentIgnored, CommentIgnored, BlanksIgnored
<1>3. \A C : Run(s, C) \in 0 .. Len(s)
  BY RunIsOf
<1>4. Quoted(s) \in 0 .. Len(s)
  <2> DEFINE E == {n \in 2 .. Len(s) : s[n] = Quote}
  <2>1. E \subseteq 1 .. Len(s) /\ Len(s) \in Nat
    OBVIOUS
  <2>2. Shortest(E) \in 0 .. Len(s)
    BY <2>1, ShortestOf
  <2> QED BY <2>1, <2>2 DEF Quoted
<1>5. ASSUME NEW c
      PROVE  (IF IsPrefix(<<c>>, s) THEN 1 ELSE 0) \in 0 .. Len(s)
  <2>1. Len(s) \in Nat /\ Len(<<c>>) = 1
    OBVIOUS
  <2>2. IsPrefix(<<c>>, s) => Len(<<c>>) <= Len(s)
    BY Zenon DEF IsPrefix
  <2> QED BY <2>1, <2>2
<1>6. CASE r \in {1, 2}
  BY <1>5, <1>6 DEF lexRules, Rule, InnerTokens
<1>7. CASE r \in {6, 7, 8}
  BY <1>3, <1>4, <1>7 DEF lexRules, Rule, InnerTokens
<1>8. CASE r \in {3, 4, 5}
  BY <1>2, <1>3, <1>8 DEF lexRules, Rule
<1> QED BY <1>1, <1>6, <1>7, <1>8

-----------------------------------------------------------------------------
(***************************************************************************)
(* Texts to be left out.                                                   *)
(***************************************************************************)
LEMMA PartOf ==
  ASSUME NEW S, NEW s \in Seq(S), NEW a \in Nat \ {0}, NEW b \in 0 .. Len(s)
  PROVE  /\ SubSeq(s, a, b) \in Seq(S)
         /\ Len(SubSeq(s, a, b)) = IF a <= b THEN b - a + 1 ELSE 0
         /\ \A i \in 1 .. b - a + 1 : SubSeq(s, a, b)[i] = s[a + i - 1]
<1>1. \A i \in a .. b : s[i] \in S
  OBVIOUS
<1>2. a \in Int /\ b \in Int
  OBVIOUS
<1>3. /\ SubSeq(s, a, b) \in Seq(S)
      /\ Len(SubSeq(s, a, b)) = IF a <= b THEN b - a + 1 ELSE 0
      /\ \A i \in 1 .. b - a + 1 : SubSeq(s, a, b)[i] = s[a + i - 1]
  BY <1>1, <1>2, SubSeqProperties
<1> QED BY <1>3

\* The same, as one fact.
IsPart(u, S, s, a, b) ==
  /\ u \in Seq(S)
  /\ Len(u) = IF a <= b THEN b - a + 1 ELSE 0
  /\ \A i \in 1 .. b - a + 1 : u[i] = s[a + i - 1]

LEMMA PartIs ==
  ASSUME NEW S, NEW s \in Seq(S), NEW a \in Nat \ {0}, NEW b \in 0 .. Len(s)
  PROVE  IsPart(SubSeq(s, a, b), S, s, a, b)
BY PartOf DEF IsPart

LEMMA PartOfPart ==
  ASSUME NEW S, NEW s \in Seq(S), NEW a \in Nat \ {0}, NEW b \in 0 .. Len(s),
         NEW c \in Nat \ {0}, NEW d \in 0 .. b - a + 1
  PROVE  SubSeq(SubSeq(s, a, b), c, d) = SubSeq(s, a + c - 1, a + d - 1)
<1> PICK t : t = SubSeq(s, a, b)
  OBVIOUS
<1>1. /\ t \in Seq(S)
      /\ Len(t) = IF a <= b THEN b - a + 1 ELSE 0
      /\ \A i \in 1 .. b - a + 1 : t[i] = s[a + i - 1]
  BY PartOf
<1>2. d \in 0 .. Len(t) /\ Len(t) \in Nat /\ Len(s) \in Nat
  BY <1>1
<1> PICK e, f : e = a + c - 1 /\ f = a + d - 1
  OBVIOUS
<1> DEFINE u == SubSeq(t, c, d)
           v == SubSeq(s, e, f)
<1>3. IsPart(u, S, t, c, d)
  <2>1. t \in Seq(S) /\ d \in 0 .. Len(t)
    BY <1>1, <1>2
  <2> QED BY <2>1, PartIs
<1>4. IsPart(v, S, s, e, f)
  <2>1. e \in Nat \ {0} /\ f \in 0 .. Len(s)
    OBVIOUS
  <2> QED BY <2>1, PartIs
<1> HIDE DEF u, v
<1>5. /\ u \in Seq(S) /\ Len(u) = IF c <= d THEN d - c + 1 ELSE 0
      /\ \A i \in 1 .. d - c + 1 : u[i] = t[c + i - 1]
  BY <1>3 DEF IsPart
<1>6. /\ v \in Seq(S) /\ Len(v) = IF e <= f THEN f - e + 1 ELSE 0
      /\ \A i \in 1 .. f - e + 1 : v[i] = s[e + i - 1]
  BY <1>4 DEF IsPart
<1>7. Len(u) = Len(v) /\ f - e + 1 = d - c + 1
  BY <1>5, <1>6
<1>8. ASSUME NEW i \in 1 .. Len(u)
      PROVE  u[i] = v[i]
  <2>1. i \in 1 .. d - c + 1 /\ c + i - 1 \in 1 .. b - a + 1
    BY <1>5
  <2>2. u[i] = t[c + i - 1] /\ t[c + i - 1] = s[a + (c + i - 1) - 1]
    BY <1>1, <1>5, <2>1
  <2>3. v[i] = s[e + i - 1]
    <3>1. i \in 1 .. f - e + 1
      BY <1>7, <2>1
    <3> QED BY <1>6, <3>1
  <2>4. e + i - 1 = a + (c + i - 1) - 1
    BY <2>1
  <2> QED BY <2>2, <2>3, <2>4
<1>9. u = v
  BY <1>5, <1>6, <1>7, <1>8, SeqEqual
<1> QED BY <1>9 DEF u, v

\* The first n characters of s are made of pieces to be left out: with the
\* offsets where they are cut, and no recursion.
Cuttable(s, n) ==
  \E cuts \in SUBSET (0 .. n) :
    /\ 0 \in cuts /\ n \in cuts
    /\ \A m, k \in cuts :
         m < k /\ (\A j \in cuts : j <= m \/ k <= j) => IsIgnored(SubSeq(s, m + 1, k))

LEMMA OneMoreCut ==
  ASSUME NEW s, NEW n \in Nat, NEW m \in 0 .. n - 1,
         Cuttable(s, m), IsIgnored(SubSeq(s, m + 1, n))
  PROVE  Cuttable(s, n)
<1>1. PICK cuts \in SUBSET (0 .. m) :
        /\ 0 \in cuts /\ m \in cuts
        /\ \A i, k \in cuts :
             i < k /\ (\A j \in cuts : j <= i \/ k <= j) => IsIgnored(SubSeq(s, i + 1, k))
  BY DEF Cuttable
<1> DEFINE new == cuts \cup {n}
<1>2. new \in SUBSET (0 .. n) /\ 0 \in new /\ n \in new
  BY <1>1
<1>3. ASSUME NEW i \in new, NEW k \in new, i < k, \A j \in new : j <= i \/ k <= j
      PROVE  IsIgnored(SubSeq(s, i + 1, k))
  <2>1. i \in 0 .. n /\ k \in 0 .. n
    BY <1>2
  <2>2. CASE k = n
    <3>1. i \in cuts
      BY <1>3, <2>1, <2>2
    <3>2. m <= i
      BY <1>1, <1>3, <2>2
    <3>3. i = m
      BY <3>1, <3>2
    <3> QED BY <2>2, <3>3
  <2>3. CASE k # n
    <3>1. k \in cuts /\ i \in cuts
      BY <1>3, <2>1, <2>3
    <3> QED BY <1>1, <1>3, <3>1
  <2> QED BY <2>2, <2>3
<1> QED BY <1>2, <1>3 DEF Cuttable

LEMMA LastCut ==
  ASSUME NEW s, NEW n \in Nat \ {0}, Cuttable(s, n)
  PROVE  \E m \in 0 .. n - 1 : Cuttable(s, m) /\ IsIgnored(SubSeq(s, m + 1, n))
<1>1. PICK cuts \in SUBSET (0 .. n) :
        /\ 0 \in cuts /\ n \in cuts
        /\ \A i, k \in cuts :
             i < k /\ (\A j \in cuts : j <= i \/ k <= j) => IsIgnored(SubSeq(s, i + 1, k))
  BY DEF Cuttable
<1> DEFINE D == {d \in 1 .. n : n - d \in cuts}
<1>2. n \in D /\ D \subseteq Nat
  BY <1>1
<1>3. PICK d \in D : \A j \in D : d <= j
  BY <1>2, Least
<1>4. PICK m : m = n - d
  OBVIOUS
<1>5. m \in 0 .. n - 1 /\ m \in cuts
  BY <1>3, <1>4
<1>6. \A j \in cuts : j <= m \/ n <= j
  <2> TAKE j \in cuts
  <2>1. j \in 0 .. n
    OBVIOUS
  <2>2. CASE j < n
    <3>1. n - j \in 1 .. n /\ n - (n - j) = j
      BY <2>1, <2>2
    <3>2. d <= n - j
      BY <1>3, <3>1
    <3> QED BY <1>4, <2>1, <3>2
  <2> QED BY <2>1, <2>2
<1>7. IsIgnored(SubSeq(s, m + 1, n))
  BY <1>1, <1>5, <1>6
<1>8. Cuttable(s, m)
  <2> DEFINE old == {j \in cuts : j <= m}
  <2>1. old \in SUBSET (0 .. m) /\ 0 \in old /\ m \in old
    <3>1. \A j \in cuts : j \in 0 .. n
      OBVIOUS
    <3>2. m \in 0 .. n - 1 /\ m \in cuts /\ 0 \in cuts
      BY <1>1, <1>5
    <3>3. \A j \in cuts : j <= m => j \in 0 .. m
      BY <3>1, <3>2
    <3>4. 0 <= m /\ m <= m
      BY <3>2
    <3> QED BY <3>2, <3>3, <3>4, Zenon
  <2>2. ASSUME NEW i \in old, NEW k \in old, i < k, \A j \in old : j <= i \/ k <= j
        PROVE  IsIgnored(SubSeq(s, i + 1, k))
    <3>1. \A j \in cuts : j <= i \/ k <= j
      BY <1>5, <2>1, <2>2
    <3> QED BY <1>1, <2>2, <3>1
  <2> QED BY <2>1, <2>2 DEF Cuttable
<1> QED BY <1>5, <1>7, <1>8

LEMMA NoCut ==
  ASSUME NEW s
  PROVE  Cuttable(s, 0)
<1>1. {0} \in SUBSET (0 .. 0)
  OBVIOUS
<1>2. \A m, k \in {0} : ~ (m < k)
  OBVIOUS
<1> QED BY <1>1, <1>2 DEF Cuttable

\* What the recursion in Ignorable finds are the beginnings that can be cut.
LEMMA IgnorableIsCuttable ==
  ASSUME NEW S, NEW s \in Seq(S), NEW n \in 0 .. Len(s)
  PROVE  Ignorable(s)[n] <=> Cuttable(s, n)
<1> DEFINE Fits(f) == f = [k \in 0 .. Len(s) |->
                             k = 0 \/ \E m \in 0 .. k - 1 :
                                        f[m] /\ IsIgnored(SubSeq(s, m + 1, k))]
<1>1. Len(s) \in Nat
  OBVIOUS
<1>2. Fits([k \in 0 .. Len(s) |-> Cuttable(s, k)])
  <2> DEFINE g == [k \in 0 .. Len(s) |-> Cuttable(s, k)]
  <2>1. ASSUME NEW k \in 0 .. Len(s)
        PROVE  Cuttable(s, k) = (k = 0 \/ \E m \in 0 .. k - 1 :
                                  g[m] /\ IsIgnored(SubSeq(s, m + 1, k)))
    <3>1. \A m \in 0 .. k - 1 : g[m] = Cuttable(s, m)
      BY <1>1
    <3> HIDE DEF g
    <3>2. Cuttable(s, k) \in BOOLEAN
      BY DEF Cuttable
    <3>3. CASE k = 0
      BY <3>2, <3>3, NoCut
    <3>4. CASE k # 0
      <4>1. k \in Nat \ {0}
        BY <1>1, <3>4
      <4>2. Cuttable(s, k) => \E m \in 0 .. k - 1 : g[m] /\ IsIgnored(SubSeq(s, m + 1, k))
        BY <3>1, <4>1, LastCut
      <4>3. (\E m \in 0 .. k - 1 : g[m] /\ IsIgnored(SubSeq(s, m + 1, k))) => Cuttable(s, k)
        BY <3>1, <4>1, OneMoreCut
      <4> QED BY <3>2, <3>4, <4>2, <4>3, Zenon
    <3> QED BY <3>3, <3>4
  <2> QED BY <2>1, Zenon
<1>3. Fits(Ignorable(s))
  <2>1. Ignorable(s) = CHOOSE f : Fits(f)
    BY DEF Ignorable
  <2> HIDE DEF Fits
  <2> QED BY <1>2, <2>1, Zenon
<1> DEFINE D == {k \in 0 .. Len(s) : ~ (Ignorable(s)[k] <=> Cuttable(s, k))}
<1>4. CASE D = {}
  BY <1>4
<1>5. CASE D # {}
  <2>1. D \subseteq Nat
    BY <1>1
  <2>2. PICK k \in D : \A j \in D : k <= j
    BY <1>5, <2>1, Least
  <2>3. k \in 0 .. Len(s) /\ ~ (Ignorable(s)[k] <=> Cuttable(s, k))
    OBVIOUS
  <2>4. \A m \in 0 .. k - 1 : Ignorable(s)[m] <=> Cuttable(s, m)
    <3> TAKE m \in 0 .. k - 1
    <3>1. m \in 0 .. Len(s) /\ ~ (k <= m)
      BY <1>1, <2>3
    <3> QED BY <2>2, <3>1
  <2>5. Ignorable(s)[k] = (k = 0 \/ \E m \in 0 .. k - 1 :
                             Ignorable(s)[m] /\ IsIgnored(SubSeq(s, m + 1, k)))
    BY <1>3, <2>3, Zenon
  <2>6. k = 0 => FALSE
    BY <2>3, <2>5, NoCut, Zenon
  <2>7. k \in Nat \ {0}
    BY <1>1, <2>3, <2>6
  <2>8. Cuttable(s, k) <=> \E m \in 0 .. k - 1 :
                             Cuttable(s, m) /\ IsIgnored(SubSeq(s, m + 1, k))
    BY <2>7, LastCut, OneMoreCut
  <2> QED BY <2>3, <2>4, <2>5, <2>6, <2>8, Zenon
<1> QED BY <1>4, <1>5

LEMMA AllIgnoredIsCuttable ==
  ASSUME NEW S, NEW s \in Seq(S)
  PROVE  AllIgnored(s) <=> Cuttable(s, Len(s))
<1>1. Len(s) \in 0 .. Len(s)
  OBVIOUS
<1>2. Ignorable(s)[Len(s)] <=> Cuttable(s, Len(s))
  BY <1>1, IgnorableIsCuttable
<1> QED BY <1>2 DEF AllIgnored

LEMMA NothingIgnored ==
  ASSUME NEW S, NEW s \in Seq(S), Len(s) = 0
  PROVE  AllIgnored(s)
BY AllIgnoredIsCuttable, NoCut

\* One more piece to be left out.
LEMMA IgnoredMore ==
  ASSUME NEW S, NEW s \in Seq(S), NEW n \in 0 .. Len(s),
         AllIgnored(SubSeq(s, 1, n)), IsIgnored(SubSeq(s, n + 1, Len(s)))
  PROVE  AllIgnored(s)
<1> PICK t : t = SubSeq(s, 1, n)
  OBVIOUS
<1>1. t \in Seq(S) /\ Len(t) = n /\ n \in Nat /\ Len(s) \in Nat
  OBVIOUS
<1>2. Cuttable(t, n)
  <2>1. AllIgnored(t)
    OBVIOUS
  <2> QED BY <1>1, <2>1, AllIgnoredIsCuttable
<1>3. \A m, k \in 0 .. n : SubSeq(t, m + 1, k) = SubSeq(s, m + 1, k)
  <2> TAKE m, k \in 0 .. n
  <2>1. m + 1 \in Nat \ {0} /\ 1 \in Nat \ {0} /\ k \in 0 .. n - 1 + 1
    OBVIOUS
  <2>2. SubSeq(t, m + 1, k) = SubSeq(s, 1 + (m + 1) - 1, 1 + k - 1)
    BY <2>1, PartOfPart
  <2>3. 1 + (m + 1) - 1 = m + 1 /\ 1 + k - 1 = k
    OBVIOUS
  <2> QED BY <2>2, <2>3
<1>4. Cuttable(s, n)
  BY <1>2, <1>3 DEF Cuttable
<1>5. CASE n = Len(s)
  BY <1>4, <1>5, AllIgnoredIsCuttable
<1>6. CASE n # Len(s)
  <2>1. n \in 0 .. Len(s) - 1
    BY <1>1, <1>6
  <2>2. Cuttable(s, Len(s))
    BY <1>1, <1>4, <2>1, OneMoreCut
  <2> QED BY <2>2, AllIgnoredIsCuttable
<1> QED BY <1>5, <1>6

-----------------------------------------------------------------------------
(***************************************************************************)
(* Lines.                                                                  *)
(***************************************************************************)
LEMMA CountMore ==
  ASSUME NEW f, NEW g, NEW c \in Nat, NEW n \in Nat, NEW S,
         \A i \in 1 .. n : f[c + i] = g[i]
  PROVE  Count(f, c + n, S) = Count(f, c, S) + Count(g, n, S)
<1> DEFINE D == {k \in 0 .. n : Count(f, c + k, S) # Count(f, c, S) + Count(g, k, S)}
<1>1. CASE D = {}
  BY <1>1
<1>2. CASE D # {}
  <2>1. D \subseteq Nat
    OBVIOUS
  <2>2. PICK k \in D : \A j \in D : k <= j
    BY <1>2, <2>1, Least
  <2>3. k \in 0 .. n /\ Count(f, c + k, S) # Count(f, c, S) + Count(g, k, S)
    OBVIOUS
  <2>4. Count(f, c, S) \in Nat /\ Count(g, 0, S) = 0
    BY CountNext
  <2>5. k # 0
    <3>1. c + 0 = c
      OBVIOUS
    <3> QED BY <2>3, <2>4, <3>1
  <2>6. PICK m : m = k - 1
    OBVIOUS
  <2>7. m \in Nat /\ m \in 0 .. n /\ k = m + 1 /\ c + k = (c + m) + 1 /\ c + m \in Nat
    BY <2>3, <2>5, <2>6
  <2>8. m \notin D
    BY <2>2, <2>7
  <2>9. Count(f, c + m, S) = Count(f, c, S) + Count(g, m, S)
    BY <2>7, <2>8
  <2>10. /\ Count(f, (c + m) + 1, S) = Count(f, c + m, S) + (IF f[(c + m) + 1] \in S THEN 1 ELSE 0)
         /\ Count(g, m + 1, S) = Count(g, m, S) + (IF g[m + 1] \in S THEN 1 ELSE 0)
         /\ Count(g, m, S) \in Nat
    BY <2>7, CountNext
  <2>11. f[(c + m) + 1] = g[m + 1]
    <3>1. (c + m) + 1 = c + (m + 1) /\ m + 1 \in 1 .. n
      BY <2>3, <2>7
    <3> QED BY <3>1
  <2> HIDE DEF D
  <2> QED BY <2>3, <2>4, <2>7, <2>9, <2>10, <2>11
<1> QED BY <1>1, <1>2

LEMMA LinesBounded ==
  ASSUME str \in Seq(Range(str)), NEW k \in 0 .. Len(str) + 1
  PROVE  /\ LineEnds(k) \subseteq 1 .. Len(str)
         /\ Cardinality(LineEnds(k)) \in 0 .. Len(str)
         /\ LineStart(k) \in 0 .. k /\ LineStart(k) \in 0 .. Len(str)
<1>1. Len(str) \in Nat /\ DOMAIN str = 1 .. Len(str)
  OBVIOUS
<1>2. LineEnds(k) \subseteq 1 .. Len(str) /\ \A i \in LineEnds(k) : i <= k
  BY <1>1 DEF LineEnds
<1>3. Cardinality(LineEnds(k)) \in 0 .. Len(str)
  <2>1. IsFiniteSet(1 .. Len(str)) /\ Cardinality(1 .. Len(str)) = Len(str)
    BY <1>1, Interval, Zenon
  <2>2. IsFiniteSet(LineEnds(k)) /\ Cardinality(LineEnds(k)) <= Len(str)
    <3>1. LineEnds(k) \in SUBSET (1 .. Len(str))
      BY <1>2
    <3>2. IsFiniteSet(LineEnds(k)) /\ Cardinality(LineEnds(k)) <= Cardinality(1 .. Len(str))
      BY <2>1, <3>1, FS_Subset
    <3> QED BY <2>1, <3>2
  <2>3. Cardinality(LineEnds(k)) \in Nat
    BY <2>2, FS_CardinalityType
  <2> QED BY <1>1, <2>2, <2>3
<1>4. LineStart(k) \in 0 .. k /\ LineStart(k) \in 0 .. Len(str)
  <2>1. CASE LineEnds(k) = {}
    BY <1>1, <2>1 DEF LineStart
  <2>2. CASE LineEnds(k) # {}
    <3>1. Max(LineEnds(k)) \in LineEnds(k)
      BY <1>1, <1>2, <2>2, MaxOf
    <3>2. LineStart(k) \in LineEnds(k)
      BY <2>2, <3>1 DEF LineStart
    <3> QED BY <1>1, <1>2, <3>2
  <2> QED BY <2>1, <2>2
<1> QED BY <1>2, <1>3, <1>4

\* What captureLocations_() counts is the lines of the text.
LEMMA LinesMore ==
  ASSUME str \in Seq(Range(str)), NEW c \in 0 .. Len(str), NEW n \in 0 .. Len(str) - c,
         NEW rest, \A i \in 1 .. n : rest[i] = str[c + i]
  PROVE  LET ends == {i \in 1 .. n : rest[i] = "\n"}
         IN /\ Cardinality(LineEnds(c + n)) = Cardinality(LineEnds(c)) + Cardinality(ends)
            /\ LineStart(c + n) = IF ends = {} THEN LineStart(c) ELSE c + Max(ends)
<1> DEFINE ends == {i \in 1 .. n : rest[i] = "\n"}
           N == {"\n"}
<1>1. Len(str) \in Nat /\ DOMAIN str = 1 .. Len(str) /\ c \in Nat /\ n \in Nat
      /\ c + n \in 0 .. Len(str)
  OBVIOUS
<1>2. \A k \in 0 .. Len(str) : LineEnds(k) = {i \in 1 .. k : str[i] = "\n"}
  BY <1>1 DEF LineEnds
<1>3. \A k \in 0 .. Len(str) : Cardinality(LineEnds(k)) = Count(str, k, N)
  <2> TAKE k \in 0 .. Len(str)
  <2>1. {i \in 1 .. k : str[i] = "\n"} = {i \in 1 .. k : str[i] \in N}
    OBVIOUS
  <2> QED BY <1>2, <2>1 DEF Count
<1>4. Cardinality(ends) = Count(rest, n, N)
  <2>1. \A i \in 1 .. n : rest[i] = "\n" <=> rest[i] \in N
    OBVIOUS
  <2> HIDE DEF N
  <2>2. ends = {i \in 1 .. n : rest[i] \in N}
    BY <2>1
  <2> QED BY <2>2, Zenon DEF Count
<1>5. \A i \in 1 .. n : str[c + i] = rest[i]
  OBVIOUS
<1>6. Count(str, c + n, N) = Count(str, c, N) + Count(rest, n, N)
  <2> HIDE DEF N
  <2>1. \A f, g : \A i, j \in Nat :
          (\A k \in 1 .. j : f[i + k] = g[k]) =>
            Count(f, i + j, N) = Count(f, i, N) + Count(g, j, N)
    BY CountMore
  <2>2. c \in Nat /\ n \in Nat
    BY <1>1, Zenon
  <2> QED BY <1>5, <2>1, <2>2, Zenon
<1>7. Cardinality(LineEnds(c + n)) = Cardinality(LineEnds(c)) + Cardinality(ends)
  BY <1>1, <1>3, <1>4, <1>6
<1>8. \A i \in 1 .. Len(str) : i \in LineEnds(c + n) <=> i \in LineEnds(c) \/ i - c \in ends
  <2> TAKE i \in 1 .. Len(str)
  <2>1. CASE i <= c
    BY <1>1, <1>2, <2>1
  <2>2. CASE ~ (i <= c) /\ i <= c + n
    <3>1. i - c \in 1 .. n /\ c + (i - c) = i
      BY <1>1, <2>2
    <3>2. str[i] = rest[i - c]
      BY <1>5, <3>1
    <3>3. i \in 1 .. c + n /\ i \notin 1 .. c
      BY <1>1, <2>2
    <3>4. i \in LineEnds(c + n) <=> str[i] = "\n"
      BY <1>1, <1>2, <3>3
    <3>5. i \notin LineEnds(c)
      BY <1>1, <1>2, <3>3
    <3> QED BY <3>1, <3>2, <3>4, <3>5
  <2>3. CASE ~ (i <= c + n)
    <3>1. i \notin 1 .. c + n /\ i \notin 1 .. c /\ i - c \notin 1 .. n
      BY <1>1, <2>3
    <3> QED BY <1>1, <1>2, <3>1
  <2> QED BY <2>1, <2>2, <2>3
<1>9. /\ LineEnds(c + n) \subseteq 1 .. Len(str) /\ LineEnds(c) \subseteq 1 .. Len(str)
  <2>1. c + n \in 0 .. Len(str) + 1 /\ c \in 0 .. Len(str) + 1
    BY <1>1
  <2> QED BY <2>1, LinesBounded
<1>10. ends \subseteq 1 .. n
  OBVIOUS
<1> HIDE DEF ends
<1>11. CASE ends = {}
  <2>1. LineEnds(c + n) = LineEnds(c)
    BY <1>8, <1>9, <1>11
  <2> QED BY <1>7, <1>11, <2>1 DEF LineStart, ends
<1>12. CASE ends # {}
  <2>1. PICK m : m = Max(ends)
    OBVIOUS
  <2>2. m \in ends /\ \A j \in ends : j <= m
    BY <1>1, <1>10, <1>12, <2>1, MaxOf
  <2>3. m \in 1 .. n /\ c + m \in 1 .. Len(str) /\ (c + m) - c = m
    BY <1>1, <1>10, <2>2
  <2>4. c + m \in LineEnds(c + n)
    BY <1>8, <2>2, <2>3
  <2>5. PICK p : p = Max(LineEnds(c + n))
    OBVIOUS
  <2>6. p \in LineEnds(c + n) /\ \A j \in LineEnds(c + n) : j <= p
    <3>1. LineEnds(c + n) # {}
      BY <2>4
    <3> QED BY <1>1, <1>9, <2>5, <3>1, MaxOf
  <2>7. p \in 1 .. Len(str) /\ c + m <= p
    BY <1>9, <2>4, <2>6
  <2>8. p \notin LineEnds(c)
    <3>1. \A i \in LineEnds(c) : i <= c
      BY DEF LineEnds
    <3>2. ~ (p <= c)
      BY <1>1, <2>3, <2>7
    <3> QED BY <3>1, <3>2
  <2>9. p - c <= m
    BY <1>8, <2>2, <2>6, <2>7, <2>8
  <2>10. p = c + m
    BY <1>1, <2>3, <2>7, <2>9
  <2>11. LineStart(c + n) = p
    BY <2>4, <2>5 DEF LineStart
  <2> QED BY <1>7, <1>12, <2>1, <2>10, <2>11 DEF ends
<1> QED BY <1>11, <1>12

LEMMA TextStays ==
  ASSUME str' = str
  PROVE  \A k : /\ LineEnds(k)' = LineEnds(k)
                /\ LineStart(k)' = LineStart(k)
                /\ TruePlace(k)' = TruePlace(k)
<1>1. \A k : LineEnds(k)' = LineEnds(k)
  BY DEF LineEnds
<1>2. \A k : LineStart(k)' = LineStart(k)
  BY <1>1 DEF LineStart
<1> QED BY <1>1, <1>2 DEF TruePlace

-----------------------------------------------------------------------------
(***************************************************************************)
(* getNextToken().                                                         *)
(***************************************************************************)
LEMMA RestIs ==
  ASSUME str \in Seq(Range(str)), cursor \in 0 .. Len(str)
  PROVE  /\ Rest \in Seq(Range(str))
         /\ Len(Rest) = Len(str) - cursor
         /\ \A i \in 1 .. Len(str) - cursor : Rest[i] = str[cursor + i]
<1> PICK a, L, S : a = cursor + 1 /\ L = Len(str) /\ S = Range(str)
  OBVIOUS
<1>1. L \in Nat /\ L \in 0 .. L /\ a \in Nat \ {0} /\ L - a + 1 = L - cursor
  OBVIOUS
<1>2. str \in Seq(S)
  OBVIOUS
<1>3. /\ SubSeq(str, a, L) \in Seq(S)
      /\ Len(SubSeq(str, a, L)) = IF a <= L THEN L - a + 1 ELSE 0
      /\ \A i \in 1 .. L - a + 1 : SubSeq(str, a, L)[i] = str[a + i - 1]
  BY <1>1, <1>2, PartOf
<1>4. Rest = SubSeq(str, a, L)
  BY DEF Rest
<1>5. \A i \in 1 .. L - cursor : a + i - 1 = cursor + i
  BY <1>1
<1> QED BY <1>1, <1>3, <1>4, <1>5

\* While the tokenizer is at work the cursor is in the text.
LEMMA Scanning ==
  ASSUME CursorOK, status = "scanning"
  PROVE  /\ str \in Seq(Range(str)) /\ Len(str) \in Nat
         /\ cursor \in 0 .. Len(str)
         /\ line = 1 + Cardinality(LineEnds(cursor)) /\ line \in Nat
         /\ lineBegin = LineStart(cursor) /\ lineBegin \in 0 .. cursor
<1>1. str \in Seq(Range(str)) /\ cursor \in 0 .. Len(str) + 1 /\ cursor # Len(str) + 1
  BY DEF CursorOK
<1>2. Len(str) \in Nat
  BY <1>1
<1>3. line = 1 + Cardinality(LineEnds(cursor)) /\ lineBegin = LineStart(cursor)
  BY DEF CursorOK
<1>4. Cardinality(LineEnds(cursor)) \in 0 .. Len(str) /\ LineStart(cursor) \in 0 .. cursor
  BY <1>1, LinesBounded
<1> QED BY <1>1, <1>2, <1>3, <1>4

\* What a match does.
Matched(type, n) ==
  /\ n \in 1 .. Len(str) - cursor
  /\ captureLocations(n)
  /\ cursor' = cursor + n
  /\ str' = str /\ report' = report
  /\ type \in InnerTokens \cup {"EMPTY"}
  /\ type = "EMPTY" => /\ IsIgnored(SubSeq(Rest, 1, n))
                       /\ UNCHANGED <<token, read, status>>
  /\ type # "EMPTY" => Return(Token(type, SubSeq(Rest, 1, n), cursor,
                                    Place(line, cursor - lineBegin)))

LEMMA MatchMatches ==
  ASSUME CursorOK, Match
  PROVE  status = "scanning" /\ \E type, n : Matched(type, n)
<1>1. status = "scanning" /\ Matching(Rest) # {}
  BY DEF Match
<1>2. cursor \in 0 .. Len(str) /\ str \in Seq(Range(str))
  BY <1>1, Scanning
<1>3. Rest \in Seq(Range(str)) /\ Len(Rest) = Len(str) - cursor
  BY <1>2, RestIs
<1> DEFINE r == Min(Matching(Rest))
           rule == lexRules(Rest)[r]
<1>4. DOMAIN lexRules(Rest) \subseteq Nat
  <2>1. DOMAIN lexRules(Rest) = 1 .. 8
    BY DEF lexRules
  <2> QED BY <2>1
<1>5. r \in Matching(Rest)
  <2>1. Matching(Rest) \subseteq Nat
    BY <1>4 DEF Matching
  <2> QED BY <1>1, <2>1, MinOf
<1>6. r \in DOMAIN lexRules(Rest) /\ rule.length > 0
  BY <1>5 DEF Matching
<1>7. /\ rule.length \in 0 .. Len(Rest)
      /\ rule.type \in InnerTokens \cup {"EMPTY"}
      /\ rule.type = "EMPTY" /\ rule.length > 0 => IsIgnored(SubSeq(Rest, 1, rule.length))
  <2> HIDE DEF r
  <2> QED BY <1>3, <1>6, RulesFit
<1>8. /\ captureLocations(rule.length)
      /\ cursor' = cursor + rule.length
      /\ IF rule.type = "EMPTY" THEN UNCHANGED <<token, read, status>>
         ELSE Return(Token(rule.type, SubSeq(Rest, 1, rule.length),
                           cursor, Place(line, cursor - lineBegin)))
      /\ str' = str /\ report' = report
  BY DEF Match
<1> HIDE DEF rule
<1>9. rule.length \in 1 .. Len(str) - cursor
  BY <1>3, <1>6, <1>7
<1>10. Matched(rule.type, rule.length)
  BY <1>6, <1>7, <1>8, <1>9, Zenon DEF Matched
<1> QED BY <1>1, <1>10

\* The counters agree with the text behind the match.
LEMMA MatchCounts ==
  ASSUME CursorOK, status = "scanning", NEW type, NEW n, Matched(type, n)
  PROVE  /\ cursor' \in 0 .. Len(str) /\ cursor' = cursor + n
         /\ line' = 1 + Cardinality(LineEnds(cursor'))
         /\ lineBegin' = LineStart(cursor')
<1>1. /\ str \in Seq(Range(str)) /\ Len(str) \in Nat
      /\ cursor \in 0 .. Len(str)
      /\ line = 1 + Cardinality(LineEnds(cursor))
      /\ lineBegin = LineStart(cursor)
  BY Scanning
<1>2. n \in 1 .. Len(str) - cursor /\ cursor' = cursor + n /\ captureLocations(n)
  BY DEF Matched
<1> DEFINE ends == {i \in 1 .. n : Rest[i] = "\n"}
<1>3. \A i \in 1 .. n : Rest[i] = str[cursor + i]
  BY <1>1, <1>2, RestIs
<1>4. /\ line' = line + Cardinality(ends)
      /\ lineBegin' = IF ends = {} THEN lineBegin ELSE cursor + Max(ends)
  BY <1>2 DEF captureLocations
<1>5. /\ Cardinality(LineEnds(cursor + n)) = Cardinality(LineEnds(cursor)) + Cardinality(ends)
      /\ LineStart(cursor + n) = IF ends = {} THEN LineStart(cursor) ELSE cursor + Max(ends)
  <2>1. n \in 0 .. Len(str) - cursor
    BY <1>1, <1>2
  <2>2. str \in Seq(Range(str)) /\ cursor \in 0 .. Len(str)
    BY <1>1
  <2> QED BY <1>3, <2>1, <2>2, LinesMore, ZenonT(30)
<1>6. Cardinality(LineEnds(cursor)) \in Nat /\ Cardinality(ends) \in Nat
  <2>1. Cardinality(LineEnds(cursor)) \in Nat
    BY <1>1, LinesBounded
  <2>2. IsFiniteSet(1 .. n)
    BY <1>1, <1>2, Interval
  <2>3. ends \in SUBSET (1 .. n)
    OBVIOUS
  <2> HIDE DEF ends
  <2> QED BY <2>1, <2>2, <2>3, FS_Subset, FS_CardinalityType
<1> HIDE DEF ends
<1> QED BY <1>1, <1>2, <1>4, <1>5, <1>6

\* The tokenizer and its counters after a step of getNextToken() that does not
\* come to the end of the text.
LEMMA MatchCursor ==
  ASSUME CursorOK, Match
  PROVE  CursorOK'
<1>1. status = "scanning"
  BY MatchMatches
<1>2. PICK type, n : Matched(type, n)
  BY MatchMatches
<1>3. /\ str \in Seq(Range(str)) /\ Len(str) \in Nat
      /\ line = 1 + Cardinality(LineEnds(cursor))
      /\ lineBegin = LineStart(cursor)
  BY <1>1, Scanning
<1>4. /\ cursor' \in 0 .. Len(str)
      /\ line' = 1 + Cardinality(LineEnds(cursor'))
      /\ lineBegin' = LineStart(cursor')
  BY <1>1, <1>2, MatchCounts
<1>5. str' = str /\ report' = Nowhere
  BY <1>1, <1>2 DEF Matched, CursorOK
<1>6. /\ token'.type # "EOF"
      /\ token'.type \in InnerTokens => token'.place = TruePlace(token'.start)
  <2>1. CASE type = "EMPTY"
    BY <1>1, <1>2, <2>1 DEF Matched, CursorOK
  <2>2. CASE type # "EMPTY"
    <3>1. token' = Token(type, SubSeq(Rest, 1, n), cursor, Place(line, cursor - lineBegin))
      BY <1>2, <2>2 DEF Matched, Return
    <3>2. type \in InnerTokens
      BY <1>2, <2>2 DEF Matched
    <3>3. token'.type = type /\ token'.start = cursor
          /\ token'.place = Place(line, cursor - lineBegin)
      BY <3>1 DEF Token
    <3>4. token'.place = TruePlace(cursor)
      BY <1>3, <3>3 DEF TruePlace
    <3> QED BY <3>2, <3>3, <3>4 DEF InnerTokens
  <2> QED BY <2>1, <2>2
<1>7. cursor' \in 0 .. Len(str) + 1 /\ cursor' # Len(str) + 1
  BY <1>3, <1>4
<1>8. /\ LineEnds(cursor)' = LineEnds(cursor')
      /\ LineStart(cursor)' = LineStart(cursor')
      /\ TruePlace(token.start)' = TruePlace(token'.start)
  BY <1>5, TextStays
<1> QED BY <1>3, <1>4, <1>5, <1>6, <1>7, <1>8 DEF CursorOK

LEMMA EndCursor ==
  ASSUME CursorOK, EndOfText
  PROVE  CursorOK' /\ cursor = Len(str)
<1>1. status = "scanning" /\ Rest = <<>> /\ cursor' = Len(str) + 1
      /\ token' = Token("EOF", <<"$">>, Len(str), Nowhere)
      /\ str' = str /\ line' = line /\ lineBegin' = lineBegin /\ report' = report
  BY DEF EndOfText, Return
<1>2. /\ str \in Seq(Range(str)) /\ Len(str) \in Nat /\ cursor \in 0 .. Len(str)
      /\ line = 1 + Cardinality(LineEnds(cursor)) /\ lineBegin = LineStart(cursor)
  BY <1>1, Scanning
<1>3. cursor = Len(str)
  <2>1. Len(Rest) = Len(str) - cursor
    BY <1>2, RestIs
  <2>2. Len(Rest) = 0
    BY <1>1
  <2> QED BY <1>2, <2>1, <2>2
<1>4. LineEnds(Len(str) + 1) = LineEnds(Len(str))
  BY <1>2 DEF LineEnds
<1>5. LineStart(Len(str) + 1) = LineStart(Len(str))
  BY <1>4 DEF LineStart
<1>6. /\ LineEnds(cursor)' = LineEnds(Len(str) + 1)
      /\ LineStart(cursor)' = LineStart(Len(str) + 1)
  BY <1>1, TextStays
<1>7. report' = Nowhere
  BY <1>1 DEF CursorOK
<1>8. token'.type = "EOF" /\ status' = "parsing"
  BY <1>1 DEF Token, EndOfText, Return
<1>9. cursor' \in 0 .. Len(str) + 1
  BY <1>1, <1>2
<1> QED BY <1>1, <1>2, <1>3, <1>4, <1>5, <1>6, <1>7, <1>8, <1>9 DEF CursorOK, InnerTokens

\* A token is returned, and lies behind what was skipped.
LEMMA Returned ==
  ASSUME TokensOK, status = "scanning", str' = str,
         NEW t \in Tokens, Return(t), t.type # "EOF" => cursor' = t.start + Len(t.text),
         AllIgnored(SubSeq(str, EndOf(Len(read)) + 1, t.start))
  PROVE  TokensOK'
<1> PICK n : n = Len(read)
  OBVIOUS
<1>1. /\ read \in Seq(Tokens)
      /\ \A i \in DOMAIN read : read[i].type # "EOF"
      /\ \A i \in DOMAIN read : AllIgnored(Skipped(i))
  BY DEF TokensOK, SkipsOnlyComments
<1>2. token' = t /\ read' = Append(read, t) /\ status' = "parsing"
  BY DEF Return
<1>3. /\ read' \in Seq(Tokens) /\ n \in Nat /\ Len(read') = n + 1
      /\ DOMAIN read = 1 .. n /\ DOMAIN read' = 1 .. n + 1
      /\ \A i \in DOMAIN read : read'[i] = read[i]
      /\ read'[n + 1] = t
  BY <1>1, <1>2, OnePushed
<1>4. \A i \in 0 .. n : EndOf(i)' = EndOf(i)
  BY <1>3 DEF EndOf
<1>5. EndOf(n + 1)' = t.start + Len(t.text)
  <2>1. n + 1 # 0
    BY <1>3
  <2> QED BY <1>3, <2>1 DEF EndOf
<1>6. Tokens' = Tokens
  BY DEF Tokens
<1>7. SkipsOnlyComments'
  <2>1. ASSUME NEW i \in 1 .. n + 1
        PROVE  AllIgnored(Skipped(i)')
    <3>1. CASE i \in 1 .. n
      <4>1. i - 1 \in 0 .. n /\ i \in DOMAIN read
        BY <1>3, <3>1
      <4>2. EndOf(i - 1)' = EndOf(i - 1) /\ read'[i] = read[i]
        BY <1>3, <1>4, <4>1
      <4>3. Skipped(i)' = Skipped(i)
        BY <4>2 DEF Skipped
      <4> QED BY <1>1, <4>1, <4>3
    <3>2. CASE i = n + 1
      <4>1. i - 1 = n /\ n \in 0 .. n
        BY <1>3, <3>2
      <4>2. EndOf(i - 1)' = EndOf(n) /\ read'[i] = t
        BY <1>3, <1>4, <3>2, <4>1
      <4>3. Skipped(i)' = SubSeq(str, EndOf(n) + 1, t.start)
        BY <4>2 DEF Skipped
      <4> QED BY <4>3
    <3> QED BY <1>3, <2>1, <3>1, <3>2
  <2> QED BY <1>3, <2>1 DEF SkipsOnlyComments, AllIgnored, Ignorable, IsIgnored, Blanks
<1>8. read' # <<>> /\ token' = Last(read')
  <2>1. read' # <<>>
    BY <1>3
  <2> QED BY <1>2, <1>3, <2>1 DEF Last
<1>9. \A i \in DOMAIN read' : read'[i].type = "EOF" => i = Len(read') /\ status' # "scanning"
  <2> TAKE i \in DOMAIN read'
  <2>1. i \in 1 .. n \/ i = n + 1
    BY <1>3
  <2> QED BY <1>1, <1>2, <1>3, <2>1
<1>10. token'.type # "EOF" => cursor' = EndOf(Len(read))'
  <2>1. EndOf(Len(read))' = EndOf(n + 1)'
    BY <1>3
  <2> QED BY <1>2, <1>5, <2>1
<1> QED BY <1>2, <1>3, <1>6, <1>7, <1>8, <1>9, <1>10 DEF TokensOK

LEMMA SkippedMore ==
  ASSUME NEW S, NEW s \in Seq(S), NEW e \in Nat, NEW c \in 0 .. Len(s), e <= c,
         NEW n \in 1 .. Len(s) - c, AllIgnored(SubSeq(s, e + 1, c)),
         IsIgnored(SubSeq(SubSeq(s, c + 1, Len(s)), 1, n))
  PROVE  AllIgnored(SubSeq(s, e + 1, c + n))
<1>1. PICK a, b, m, L : a = e + 1 /\ b = c + n /\ m = c - e /\ L = Len(s)
  OBVIOUS
<1>2. /\ L \in Nat /\ L \in 0 .. L /\ a \in Nat \ {0} /\ b \in 0 .. L /\ a <= b
      /\ m \in 0 .. b - a + 1 /\ b - a + 1 \in 0 .. b - a + 1
      /\ c + 1 \in Nat \ {0} /\ m + 1 \in Nat \ {0} /\ 1 \in Nat \ {0}
      /\ n \in 0 .. L - (c + 1) + 1
  BY <1>1
<1> PICK t : t = SubSeq(s, a, b)
  OBVIOUS
<1>3. t \in Seq(S) /\ Len(t) = b - a + 1
  BY <1>1, <1>2, PartOf
<1>4. SubSeq(t, 1, m) = SubSeq(s, a, c)
  <2>1. SubSeq(t, 1, m) = SubSeq(s, a + 1 - 1, a + m - 1)
    BY <1>1, <1>2, PartOfPart
  <2>2. a + 1 - 1 = a /\ a + m - 1 = c
    BY <1>1
  <2> QED BY <2>1, <2>2
<1>5. SubSeq(t, m + 1, Len(t)) = SubSeq(s, c + 1, b)
  <2>1. SubSeq(t, m + 1, b - a + 1) = SubSeq(s, a + (m + 1) - 1, a + (b - a + 1) - 1)
    BY <1>1, <1>2, PartOfPart
  <2>2. a + (m + 1) - 1 = c + 1 /\ a + (b - a + 1) - 1 = b
    BY <1>1, <1>2
  <2> QED BY <1>3, <2>1, <2>2
<1>6. SubSeq(SubSeq(s, c + 1, L), 1, n) = SubSeq(s, c + 1, b)
  <2>1. SubSeq(SubSeq(s, c + 1, L), 1, n) = SubSeq(s, c + 1 + 1 - 1, c + 1 + n - 1)
    BY <1>1, <1>2, PartOfPart
  <2>2. c + 1 + 1 - 1 = c + 1 /\ c + 1 + n - 1 = b
    BY <1>1
  <2> QED BY <2>1, <2>2
<1>7. AllIgnored(SubSeq(t, 1, m)) /\ IsIgnored(SubSeq(t, m + 1, Len(t)))
  BY <1>1, <1>4, <1>5, <1>6
<1>8. AllIgnored(t)
  <2>1. m \in 0 .. Len(t)
    BY <1>2, <1>3
  <2> QED BY <1>3, <1>7, <2>1, IgnoredMore
<1> QED BY <1>1, <1>8

LEMMA EndsAreOffsets ==
  ASSUME TokensOK
  PROVE  /\ Len(read) \in Nat
         /\ \A i \in 0 .. Len(read) : EndOf(i) \in Nat
<1>1. read \in Seq(Tokens)
  BY DEF TokensOK
<1>2. \A t \in Tokens : t.start \in Nat /\ Len(t.text) \in Nat
  <2> TAKE t \in Tokens
  <2>1. t.start \in Nat /\ t.text \in Seq(Range(str) \cup {"$"})
    BY DEF Tokens
  <2> QED BY <2>1, LenProperties
<1>3. ASSUME NEW i \in 0 .. Len(read)
      PROVE  EndOf(i) \in Nat
  <2>1. CASE i = 0
    BY <2>1 DEF EndOf
  <2>2. CASE i # 0
    <3>1. read[i] \in Tokens
      BY <1>1, <2>2
    <3> QED BY <1>2, <2>2, <3>1 DEF EndOf
  <2> QED BY <2>1, <2>2
<1> QED BY <1>1, <1>3

LEMMA SkipsStay ==
  ASSUME SkipsOnlyComments, str' = str, read' = read
  PROVE  SkipsOnlyComments'
<1>1. \A i : EndOf(i)' = EndOf(i)
  BY DEF EndOf
<1>2. \A i : Skipped(i)' = Skipped(i)
  BY <1>1 DEF Skipped
<1>3. ASSUME NEW i \in DOMAIN read
      PROVE  AllIgnored(Skipped(i)')
  BY <1>2 DEF SkipsOnlyComments
<1> QED BY <1>3 DEF SkipsOnlyComments, AllIgnored, Ignorable, IsIgnored, Blanks

LEMMA MatchTokens ==
  ASSUME CursorOK, TokensOK, Match
  PROVE  TokensOK'
<1>1. status = "scanning"
  BY MatchMatches
<1>2. PICK type, n : Matched(type, n)
  BY MatchMatches
<1>3. /\ str \in Seq(Range(str)) /\ Len(str) \in Nat /\ cursor \in 0 .. Len(str)
      /\ line \in Nat /\ lineBegin \in 0 .. cursor
  BY <1>1, Scanning
<1>4. n \in 1 .. Len(str) - cursor /\ cursor' = cursor + n /\ str' = str
  BY <1>2 DEF Matched
<1> PICK e : e = EndOf(Len(read))
  OBVIOUS
<1>5. e \in Nat /\ e <= cursor /\ AllIgnored(SubSeq(str, e + 1, cursor))
  <2>1. e \in Nat
    BY EndsAreOffsets
  <2> QED BY <1>1, <2>1 DEF TokensOK
<1>6. CASE type = "EMPTY"
  <2>1. IsIgnored(SubSeq(Rest, 1, n)) /\ token' = token /\ read' = read /\ status' = status
    BY <1>2, <1>6 DEF Matched
  <2>2. AllIgnored(SubSeq(str, e + 1, cursor + n))
    <3> PICK S : S = Range(str)
      OBVIOUS
    <3>1. IsIgnored(SubSeq(SubSeq(str, cursor + 1, Len(str)), 1, n))
      BY <2>1 DEF Rest
    <3>2. str \in Seq(S)
      BY <1>3
    <3> QED BY <1>3, <1>4, <1>5, <3>1, <3>2, SkippedMore
  <2>3. EndOf(Len(read))' = e /\ Tokens' = Tokens
    BY <1>4, <2>1 DEF EndOf, Tokens
  <2>4. SkipsOnlyComments'
    BY <1>4, <2>1, SkipsStay DEF TokensOK
  <2>5. e <= cursor' /\ AllIgnored(SubSeq(str, e + 1, cursor'))
    BY <1>3, <1>4, <1>5, <2>2
  <2>6. AllIgnored(SubSeq(str, EndOf(Len(read)) + 1, cursor))'
    <3>1. SubSeq(str, EndOf(Len(read)) + 1, cursor)' = SubSeq(str, e + 1, cursor')
      BY <1>4, <2>3
    <3> QED BY <2>5, <3>1
  <2> QED BY <1>1, <2>1, <2>3, <2>4, <2>5, <2>6 DEF TokensOK
<1>7. CASE type # "EMPTY"
  <2> DEFINE t == Token(type, SubSeq(Rest, 1, n), cursor, Place(line, cursor - lineBegin))
  <2>1. Return(t) /\ type \in InnerTokens
    BY <1>2, <1>7 DEF Matched
  <2>2. SubSeq(Rest, 1, n) \in Seq(Range(str)) /\ Len(SubSeq(Rest, 1, n)) = n
    <3>1. Rest \in Seq(Range(str)) /\ Len(Rest) = Len(str) - cursor
      BY <1>3, RestIs
    <3>2. n \in 0 .. Len(Rest)
      BY <1>3, <1>4, <3>1
    <3> QED BY <3>1, <3>2, FirstOf
  <2>3. SubSeq(Rest, 1, n) \in Seq(Range(str) \cup {"$"})
    BY <2>2, SeqMonotonic
  <2>4. /\ t.type = type /\ t.text = SubSeq(Rest, 1, n) /\ t.start = cursor
    BY DEF Token
  <2>5. t \in Tokens
    <3>1. Place(line, cursor - lineBegin) \in [line : Nat, column : Int]
      BY <1>3 DEF Place
    <3>2. type \in AnyToken /\ cursor \in Nat
      BY <1>3, <2>1 DEF AnyToken
    <3> QED BY <2>3, <3>1, <3>2 DEF Tokens, Token
  <2> HIDE DEF t
  <2>6. cursor' = t.start + Len(t.text)
    BY <1>4, <2>2, <2>4
  <2>7. AllIgnored(SubSeq(str, EndOf(Len(read)) + 1, t.start))
    BY <1>5, <2>4
  <2> QED BY <1>1, <1>4, <2>1, <2>5, <2>6, <2>7, Returned
<1> QED BY <1>6, <1>7

LEMMA EndTokens ==
  ASSUME CursorOK, TokensOK, EndOfText
  PROVE  TokensOK'
<1> DEFINE t == Token("EOF", <<"$">>, Len(str), Nowhere)
<1>1. status = "scanning" /\ str' = str /\ Return(t)
  BY DEF EndOfText
<1>2. cursor = Len(str) /\ Len(str) \in Nat
  BY <1>1, EndCursor, Scanning
<1>3. t \in Tokens
  <2>1. <<"$">> \in Seq({"$"})
    OBVIOUS
  <2>2. <<"$">> \in Seq(Range(str) \cup {"$"})
    BY <2>1, SeqMonotonic
  <2>3. Nowhere \in [line : Nat, column : Int]
    BY DEF Nowhere, Place
  <2> QED BY <1>2, <2>2, <2>3 DEF Tokens, Token, AnyToken
<1>4. t.type = "EOF" /\ t.start = Len(str)
  BY DEF Token
<1> HIDE DEF t
<1>5. AllIgnored(SubSeq(str, EndOf(Len(read)) + 1, t.start))
  BY <1>1, <1>2, <1>4 DEF TokensOK
<1> QED BY <1>1, <1>3, <1>4, <1>5, Returned

LEMMA TokensStay ==
  ASSUME TokensOK, str' = str, read' = read, token' = token, status' # "scanning",
         status' \in {"parsing", "accepted"} => status \in {"parsing", "accepted"},
         status' = "parsing" => status = "parsing" /\ cursor' = cursor
  PROVE  TokensOK'
<1>1. Tokens' = Tokens /\ EndOf(Len(read))' = EndOf(Len(read))
  BY DEF Tokens, EndOf
<1>2. SkipsOnlyComments'
  BY SkipsStay DEF TokensOK
<1> QED BY <1>1, <1>2 DEF TokensOK

-----------------------------------------------------------------------------
(***************************************************************************)
(* The table.                                                              *)
(***************************************************************************)
LEMMA ShiftsIs ==
  /\ DOMAIN Shifts = {"NUMBER", "STRING", "SYMBOL", "TOKEN_TYPE_7"}
  /\ Shifts["NUMBER"] = Entry("Shift", 4) /\ Shifts["STRING"] = Entry("Shift", 5)
  /\ Shifts["SYMBOL"] = Entry("Shift", 6) /\ Shifts["TOKEN_TYPE_7"] = Entry("Shift", 7)
BY DEF Shifts

LEMMA Row8Is ==
  /\ DOMAIN rowOf8 = InnerTokens
  /\ \A t \in DOMAIN Shifts : rowOf8[t] = Shifts[t]
  /\ rowOf8["TOKEN_TYPE_8"] = Entry("Shift", 9)
BY ShiftsIs DEF rowOf8, InnerTokens

\* What a shift pushes, and where.
Pushed(t) == CASE t = "NUMBER" -> 4 [] t = "STRING" -> 5 [] t = "SYMBOL" -> 6
               [] t = "TOKEN_TYPE_7" -> 7 [] t = "TOKEN_TYPE_8" -> 9

LEMMA Rows ==
  ASSUME NEW s \in 0 .. 10, NEW t
  PROVE  /\ s = 0 => /\ t \in DOMAIN table[s] <=> t \in InnerTokens \ {"TOKEN_TYPE_8"}
                     /\ t \in DOMAIN table[s] => table[s][t] = Entry("Shift", Pushed(t))
         /\ s = 8 => /\ t \in DOMAIN table[s] <=> t \in InnerTokens
                     /\ t \in DOMAIN table[s] => table[s][t] = Entry("Shift", Pushed(t))
         /\ s = 1 => /\ t \in DOMAIN table[s] <=> t = "EOF"
                     /\ t \in DOMAIN table[s] => table[s][t] = Entry("Accept", 0)
         /\ s \in 2 .. 6 \cup {9} =>
              /\ t \in DOMAIN table[s] <=> t \in AnyToken
              /\ t \in DOMAIN table[s] =>
                   table[s][t] = Entry("Reduce", IF s = 9 THEN 6 ELSE s - 1)
         /\ s \in {7, 10} =>
              /\ t \in DOMAIN table[s] <=> t \in InnerTokens
              /\ t \in DOMAIN table[s] =>
                   table[s][t] = Entry("Reduce", IF s = 7 THEN 7 ELSE 8)
<1>1. CASE s = 0
  <2>1. table[s] = Shifts
    BY <1>1 DEF table
  <2> QED BY <1>1, <2>1, ShiftsIs DEF InnerTokens, Pushed
<1>2. CASE s = 8
  <2>1. table[s] = rowOf8
    BY <1>2 DEF table
  <2> QED BY <1>2, <2>1, Row8Is, ShiftsIs DEF InnerTokens, Pushed
<1>3. CASE s = 1
  <2>1. table[s] = [EOF |-> Entry("Accept", 0)]
    BY <1>3 DEF table
  <2> QED BY <1>3, <2>1
<1>4. CASE s \in 2 .. 6
  <2>1. table[s] = ReduceRow(s - 1, AnyToken)
    BY <1>4 DEF table
  <2> QED BY <1>4, <2>1 DEF ReduceRow
<1>5. CASE s = 9
  <2>1. table[s] = ReduceRow(6, AnyToken)
    BY <1>5 DEF table
  <2> QED BY <1>5, <2>1 DEF ReduceRow
<1>6. CASE s = 7
  <2>1. table[s] = ReduceRow(7, InnerTokens)
    BY <1>6 DEF table, rowOf7
  <2> QED BY <1>6, <2>1 DEF ReduceRow
<1>7. CASE s = 10
  <2>1. table[s] = ReduceRow(8, InnerTokens)
    BY <1>7 DEF table
  <2> QED BY <1>7, <2>1 DEF ReduceRow
<1> QED BY <1>1, <1>2, <1>3, <1>4, <1>5, <1>6, <1>7

\* Where shifts, reductions and the end happen.
LEMMA ShiftsWhere ==
  ASSUME statesStack \in Seq(0 .. 10), statesStack # <<>>, Doing("Shift")
  PROVE  /\ Last(statesStack) \in {0, 8}
         /\ token.type \in InnerTokens
         /\ Row[token.type].value = Pushed(token.type)
         /\ Last(statesStack) = 0 => token.type # "TOKEN_TYPE_8"
<1> PICK s : s = Last(statesStack)
  OBVIOUS
<1>1. s \in 0 .. 10
  BY DEF Last
<1>2. token.type \in DOMAIN table[s] /\ table[s][token.type].type = "Shift"
  BY DEF Doing, Row
<1>3. \A a, v : Entry(a, v).type = a /\ Entry(a, v).value = v
  BY DEF Entry
<1>4. s \in {0, 8}
  <2>1. s = 1 => table[s][token.type] = Entry("Accept", 0)
    BY <1>1, <1>2, Rows
  <2>2. s \in 2 .. 6 \cup {9} =>
          table[s][token.type] = Entry("Reduce", IF s = 9 THEN 6 ELSE s - 1)
    BY <1>1, <1>2, Rows
  <2>3. s \in {7, 10} => table[s][token.type] = Entry("Reduce", IF s = 7 THEN 7 ELSE 8)
    BY <1>1, <1>2, Rows
  <2> QED BY <1>1, <1>2, <1>3, <2>1, <2>2, <2>3
<1>5. CASE s = 0
  <2>1. /\ token.type \in InnerTokens \ {"TOKEN_TYPE_8"}
        /\ table[s][token.type] = Entry("Shift", Pushed(token.type))
    BY <1>1, <1>2, <1>5, Rows
  <2> QED BY <1>3, <1>4, <2>1 DEF Row
<1>6. CASE s = 8
  <2>1. /\ token.type \in InnerTokens
        /\ table[s][token.type] = Entry("Shift", Pushed(token.type))
    BY <1>1, <1>2, <1>6, Rows
  <2> QED BY <1>3, <1>4, <1>6, <2>1 DEF Row
<1> QED BY <1>4, <1>5, <1>6

LEMMA ReducesWhere ==
  ASSUME statesStack \in Seq(0 .. 10), statesStack # <<>>, NEW p, Reducing(p)
  PROVE  /\ p \in 1 .. 5 => Last(statesStack) = p + 1
         /\ p = 6 => Last(statesStack) = 9
         /\ p = 7 => Last(statesStack) = 7
         /\ p = 8 => Last(statesStack) = 10
<1> PICK s : s = Last(statesStack)
  OBVIOUS
<1>1. s \in 0 .. 10
  BY DEF Last
<1>2. token.type \in DOMAIN table[s] /\ table[s][token.type].type = "Reduce"
      /\ table[s][token.type].value = p
  BY DEF Reducing, Doing, Row
<1>3. \A a, v : Entry(a, v).type = a /\ Entry(a, v).value = v
  BY DEF Entry
<1>4. s \in 2 .. 7 \cup {9, 10}
  <2>1. s = 0 \/ s = 8 => table[s][token.type] = Entry("Shift", Pushed(token.type))
    BY <1>1, <1>2, Rows
  <2>2. s = 1 => table[s][token.type] = Entry("Accept", 0)
    BY <1>1, <1>2, Rows
  <2> QED BY <1>1, <1>2, <1>3, <2>1, <2>2
<1>5. p = IF s = 9 THEN 6 ELSE IF s = 7 THEN 7 ELSE IF s = 10 THEN 8 ELSE s - 1
  <2>1. s \in 2 .. 6 \cup {9} =>
          table[s][token.type] = Entry("Reduce", IF s = 9 THEN 6 ELSE s - 1)
    BY <1>1, <1>2, Rows
  <2>2. s \in {7, 10} => table[s][token.type] = Entry("Reduce", IF s = 7 THEN 7 ELSE 8)
    BY <1>1, <1>2, Rows
  <2> QED BY <1>2, <1>3, <1>4, <2>1, <2>2
<1> QED BY <1>4, <1>5

-----------------------------------------------------------------------------
(***************************************************************************)
(* The stack of states.                                                    *)
(***************************************************************************)
Stacked(st) ==
  /\ st \in Seq(0 .. 10)
  /\ st # <<>>
  /\ st[1] = 0
  /\ \A i \in 2 .. Len(st) : st[i] \in Above(st[i - 1])

\* The lists that are open on it, and the states that stand for tokens.
Opened(st)  == Count(st, Len(st), {7}) - (IF Last(st) = 9 THEN 1 ELSE 0)
OfTokens(st) == Count(st, Len(st), TokenStates)

LEMMA StackTop ==
  ASSUME NEW st, Stacked(st), NEW n, n = Len(st)
  PROVE  /\ n \in Nat \ {0} /\ st[n] \in 0 .. 10 /\ Last(st) = st[n]
         /\ st[n] = 0 => n = 1
         /\ st[n] = 1 => n = 2 /\ st[1] = 0
         /\ st[n] \in 2 .. 7 => n > 1 /\ st[n - 1] \in {0, 8}
         /\ st[n] = 8 => n > 2 /\ st[n - 1] = 7 /\ st[n - 2] \in {0, 8}
         /\ st[n] \in {9, 10} =>
              n > 3 /\ st[n - 1] = 8 /\ st[n - 2] = 7 /\ st[n - 3] \in {0, 8}
<1>1. n \in Nat \ {0} /\ Last(st) = st[n] /\ \A i \in 1 .. n : st[i] \in 0 .. 10
  BY DEF Stacked, Last
<1>2. st[1] = 0 /\ \A i \in 2 .. n : st[i] \in Above(st[i - 1])
  BY DEF Stacked
<1>3. \A s, t \in 0 .. 10 : t \in Above(s) =>
        /\ t # 0
        /\ t = 1 => s = 0
        /\ t \in 2 .. 7 => s \in {0, 8}
        /\ t = 8 => s = 7
        /\ t \in {9, 10} => s = 8
  BY DEF Above
<1>4. \A i \in 2 .. n : i - 1 \in 1 .. n
  BY <1>1
<1>5. \A i \in 2 .. n :
        /\ st[i] # 0
        /\ st[i] = 1 => st[i - 1] = 0
        /\ st[i] \in 2 .. 7 => st[i - 1] \in {0, 8}
        /\ st[i] = 8 => st[i - 1] = 7
        /\ st[i] \in {9, 10} => st[i - 1] = 8
  <2> TAKE i \in 2 .. n
  <2>1. st[i] \in 0 .. 10 /\ st[i - 1] \in 0 .. 10
    BY <1>1, <1>4
  <2>2. st[i] \in Above(st[i - 1])
    BY <1>2
  <2> QED BY <1>3, <2>1, <2>2
<1>6. \A i \in 1 .. n : st[i] # 0 => i > 1
  BY <1>2
<1>7. \A i \in 1 .. n : st[i] = 0 => i = 1
  BY <1>5
<1>8. \A i \in 1 .. n : st[i] = 8 => i > 2 /\ st[i - 1] = 7 /\ st[i - 2] \in {0, 8}
  <2> TAKE i \in 1 .. n
  <2> HAVE st[i] = 8
  <2>1. i \in 2 .. n /\ st[i - 1] = 7
    BY <1>5, <1>6
  <2>2. i - 1 \in 1 .. n /\ i - 1 > 1
    BY <1>6, <2>1
  <2>3. i - 1 \in 2 .. n /\ i - 1 - 1 = i - 2
    BY <2>1, <2>2
  <2> QED BY <1>5, <2>1, <2>2, <2>3
<1>9. ASSUME st[n] = 1
      PROVE  n = 2
  <2>1. n \in 2 .. n /\ st[n - 1] = 0 /\ n - 1 \in 1 .. n
    BY <1>1, <1>5, <1>6, <1>9
  <2> QED BY <1>7, <2>1
<1>10. ASSUME st[n] \in 2 .. 7
       PROVE  n > 1 /\ st[n - 1] \in {0, 8}
  <2>1. n \in 2 .. n
    BY <1>1, <1>6, <1>10
  <2> QED BY <1>5, <1>10, <2>1
<1>11. ASSUME st[n] \in {9, 10}
       PROVE  n > 3 /\ st[n - 1] = 8 /\ st[n - 2] = 7 /\ st[n - 3] \in {0, 8}
  <2>1. n \in 2 .. n /\ st[n - 1] = 8 /\ n - 1 \in 1 .. n
    BY <1>1, <1>5, <1>6, <1>11
  <2>2. n - 1 > 2 /\ st[n - 1 - 1] = 7 /\ st[n - 1 - 2] \in {0, 8}
    BY <1>8, <2>1
  <2>3. n - 1 - 1 = n - 2 /\ n - 1 - 2 = n - 3
    BY <1>1
  <2> QED BY <1>1, <2>1, <2>2, <2>3
<1>12. n \in 1 .. n
  BY <1>1
<1> QED BY <1>1, <1>2, <1>7, <1>8, <1>9, <1>10, <1>11, <1>12

\* The same, as one fact.
IsTop(st, n) ==
  /\ n \in Nat \ {0} /\ st[n] \in 0 .. 10 /\ Last(st) = st[n]
  /\ st[n] = 0 => n = 1
  /\ st[n] = 1 => n = 2 /\ st[1] = 0
  /\ st[n] \in 2 .. 7 => n > 1 /\ st[n - 1] \in {0, 8}
  /\ st[n] = 8 => n > 2 /\ st[n - 1] = 7 /\ st[n - 2] \in {0, 8}
  /\ st[n] \in {9, 10} =>
       n > 3 /\ st[n - 1] = 8 /\ st[n - 2] = 7 /\ st[n - 3] \in {0, 8}

LEMMA TopIsTop ==
  ASSUME NEW st, Stacked(st)
  PROVE  IsTop(st, Len(st))
BY StackTop DEF IsTop

LEMMA Exchanged ==
  ASSUME NEW S, NEW s \in Seq(S), NEW m \in 0 .. Len(s), NEW x \in S,
         NEW t, t = Append(SubSeq(s, 1, m), x)
  PROVE  /\ t \in Seq(S) /\ Len(t) = m + 1 /\ t[m + 1] = x
         /\ \A i \in 1 .. m : t[i] = s[i]
OBVIOUS

LEMMA CountExchanged ==
  ASSUME NEW s, NEW m \in Nat, NEW t, \A i \in 1 .. m : t[i] = s[i], NEW S
  PROVE  Count(t, m + 1, S) = Count(s, m, S) + One(t[m + 1], S)
<1>1. Count(t, m + 1, S) = Count(t, m, S) + One(t[m + 1], S)
  BY CountNext DEF One
<1>2. Count(t, m, S) = Count(s, m, S)
  BY CountSame
<1> QED BY <1>1, <1>2

LEMMA LinksExchanged ==
  ASSUME NEW s, NEW n \in Nat, NEW m \in 1 .. n, NEW t,
         \A i \in 1 .. m : t[i] = s[i], t[m + 1] \in Above(s[m]),
         \A i \in 2 .. n : s[i] \in Above(s[i - 1])
  PROVE  \A i \in 2 .. m + 1 : t[i] \in Above(t[i - 1])
<1> TAKE i \in 2 .. m + 1
<1>1. CASE i \in 2 .. m
  <2>1. i \in 1 .. m /\ i - 1 \in 1 .. m /\ i \in 2 .. n
    BY <1>1
  <2> QED BY <2>1
<1>2. CASE i = m + 1
  <2>1. t[i] \in Above(s[m])
    BY <1>2
  <2>2. i - 1 = m /\ m \in 1 .. m
    BY <1>2
  <2> QED BY <2>1, <2>2
<1> QED BY <1>1, <1>2

\* What lies above the m-th state makes way for a state that may lie on it.
Onto(st, m, x, new) ==
  m \in 1 .. Len(st) /\ x \in Above(st[m]) /\ new = Append(SubSeq(st, 1, m), x)

LEMMA StackChanges ==
  ASSUME NEW st, Stacked(st), NEW m \in Nat, NEW x, NEW new, Onto(st, m, x, new)
  PROVE  /\ Stacked(new) /\ Len(new) = m + 1 /\ Last(new) = x
         /\ \A S : Count(new, m + 1, S) = Count(st, m, S) + One(x, S)
<1> PICK n, D : n = Len(st) /\ D = 0 .. 10
  OBVIOUS
<1>1. n \in Nat \ {0} /\ m \in 1 .. n /\ m \in Nat
  BY StackTop DEF Onto
<1> x \in Above(st[m]) /\ new = Append(SubSeq(st, 1, m), x)
  BY DEF Onto
<1>2. /\ st \in Seq(D) /\ st[1] = 0 /\ n = Len(st)
      /\ \A i \in 2 .. n : st[i] \in Above(st[i - 1])
  BY DEF Stacked
<1>3. x \in D
  <2>1. st[m] \in D
    BY <1>1, <1>2
  <2>2. \A s \in D : \A y : y \in Above(s) => y \in D
    BY DEF Above
  <2> QED BY <2>1, <2>2
<1>4. new \in Seq(D) /\ Len(new) = m + 1 /\ new[m + 1] = x
      /\ \A i \in 1 .. m : new[i] = st[i]
  <2>1. m \in 0 .. Len(st)
    BY <1>1, <1>2
  <2> QED BY <1>2, <1>3, <2>1, Exchanged
<1>5. new # <<>> /\ Last(new) = x
  BY <1>1, <1>4 DEF Last
<1>6. Stacked(new)
  <2>1. new[1] = 0
    BY <1>1, <1>2, <1>4
  <2>2. \A i \in 2 .. m + 1 : new[i] \in Above(new[i - 1])
    BY <1>1, <1>2, <1>4, LinksExchanged
  <2> QED BY <1>4, <1>5, <2>1, <2>2 DEF Stacked
<1>7. \A S : Count(new, m + 1, S) = Count(st, m, S) + One(x, S)
  <2>1. (\A i \in 1 .. m : new[i] = st[i]) /\ m \in Nat
    BY <1>1, <1>4
  <2> TAKE S
  <2>2. Count(new, m + 1, S) = Count(st, m, S) + One(new[m + 1], S)
    BY ONLY <2>1, CountExchanged
  <2> QED BY <1>4, <2>2
<1> QED BY <1>4, <1>5, <1>6, <1>7, Zenon

LEMMA CountLast ==
  ASSUME NEW st, NEW n \in Nat \ {0}, NEW S
  PROVE  /\ Count(st, n, S) = Count(st, n - 1, S) + One(st[n], S)
         /\ Count(st, n, S) \in 0 .. n /\ One(st[n], S) \in 0 .. 1
<1>1. \A k \in Nat : /\ Count(st, k + 1, S) = Count(st, k, S) + One(st[k + 1], S)
                     /\ Count(st, k, S) \in 0 .. k
                     /\ One(st[k + 1], S) \in 0 .. 1
  <2> TAKE k \in Nat
  <2> QED BY CountNext DEF One
<1>2. n - 1 \in Nat /\ n - 1 + 1 = n
  OBVIOUS
<1> QED BY <1>1, <1>2

\* A shift.
LEMMA StatePushed ==
  ASSUME NEW st, Stacked(st), NEW x \in {4, 5, 6, 7, 9}, Last(st) \in {0, 8},
         Last(st) = 0 => x # 9, NEW new, new = Append(st, x)
  PROVE  /\ Stacked(new) /\ Len(new) = Len(st) + 1 /\ Last(new) = x
         /\ OfTokens(new) = OfTokens(st) + 1
         /\ Opened(new) = Opened(st) + (IF x = 7 THEN 1 ELSE 0) - (IF x = 9 THEN 1 ELSE 0)
<1> PICK n \in Nat : n = Len(st)
  BY StackTop
<1>1. n \in Nat \ {0} /\ Last(st) = st[n]
  BY StackTop
<1>2. x \in Above(st[n])
  BY <1>1 DEF Above
<1>3. new = Append(SubSeq(st, 1, n), x)
  <2>1. st \in Seq(0 .. 10)
    BY DEF Stacked
  <2>2. SubSeq(st, 1, n) = st
    BY <2>1, SubSeqFull, Zenon
  <2> QED BY <2>2
<1>4. /\ Stacked(new) /\ Len(new) = n + 1 /\ Last(new) = x
      /\ \A S : Count(new, n + 1, S) = Count(st, n, S) + One(x, S)
  <2>1. Onto(st, n, x, new)
    BY <1>1, <1>2, <1>3 DEF Onto
  <2> QED BY <2>1, StackChanges
<1>5. Count(st, n, TokenStates) \in Nat /\ Count(st, n, {7}) \in Nat
  BY <1>1, CountLast
<1>6. OfTokens(new) = OfTokens(st) + 1
  <2>1. x \in TokenStates
    BY DEF TokenStates
  <2>2. Count(new, n + 1, TokenStates) = Count(st, n, TokenStates) + 1
    BY <1>4, <2>1 DEF One
  <2> QED BY <1>4, <2>2 DEF OfTokens
<1>7. Count(new, n + 1, {7}) = Count(st, n, {7}) + (IF x = 7 THEN 1 ELSE 0)
  BY <1>4 DEF One
<1>8. /\ Opened(st) = Count(st, n, {7})
      /\ Opened(new) = Count(new, n + 1, {7}) - (IF x = 9 THEN 1 ELSE 0)
  <2>1. Last(st) # 9
    OBVIOUS
  <2> QED BY <1>4, <1>5, <2>1 DEF Opened
<1> QED BY <1>1, <1>4, <1>5, <1>6, <1>7, <1>8

\* The same, as one fact.
IsPushed(new, st, x) ==
  /\ Stacked(new) /\ Len(new) = Len(st) + 1 /\ Last(new) = x
  /\ OfTokens(new) = OfTokens(st) + 1
  /\ Opened(new) = Opened(st) + (IF x = 7 THEN 1 ELSE 0) - (IF x = 9 THEN 1 ELSE 0)

LEMMA StateIsPushed ==
  ASSUME NEW st, Stacked(st), NEW x \in {4, 5, 6, 7, 9}, Last(st) \in {0, 8},
         Last(st) = 0 => x # 9
  PROVE  IsPushed(Append(st, x), st, x)
BY StatePushed, Zenon DEF IsPushed

LEMMA ProductionsAre ==
  /\ productions[1] = Production(0, 1) /\ productions[2] = Production(0, 1)
  /\ productions[3] = Production(1, 1) /\ productions[4] = Production(1, 1)
  /\ productions[5] = Production(1, 1) /\ productions[6] = Production(2, 3)
  /\ productions[7] = Production(3, 0) /\ productions[8] = Production(3, 2)
BY DEF productions

\* A reduction by a production with k symbols on its right-hand side.
LEMMA StateReduced ==
  ASSUME NEW p, NEW q, NEW k, productions[p] = Production(q, k),
         Stacked(statesStack), Reduced(p),
         NEW m \in 1 .. Len(statesStack), m = Len(statesStack) - k,
         NEW x, x = Transit(statesStack[m], q), x \in Above(statesStack[m])
  PROVE  /\ Stacked(statesStack') /\ Len(statesStack') = m + 1
         /\ Last(statesStack') = x
         /\ \A S : Count(statesStack', m + 1, S) =
                     Count(statesStack, m, S) + One(x, S)
<1> PICK popped : popped = SubSeq(statesStack, 1, m)
  OBVIOUS
<1>1. Last(popped) = statesStack[m]
  <2> PICK D : D = 0 .. 10
    OBVIOUS
  <2>1. statesStack \in Seq(D) /\ m \in 0 .. Len(statesStack)
    BY StackTop DEF Stacked
  <2>2. Len(popped) = m /\ \A i \in 1 .. m : popped[i] = statesStack[i]
    BY <2>1, FirstOf
  <2> QED BY <2>1, <2>2 DEF Last
<1>2. productions[p].opcode = q /\ productions[p].rhsLength = k
  BY DEF Production
<1>3. Below(statesStack, k) = popped
  BY DEF Below
<1>4. statesStack' = Append(popped, Transit(Last(popped), q))
  BY <1>2, <1>3, Zenon DEF Reduced
<1>5. statesStack' = Append(SubSeq(statesStack, 1, m), x)
  BY <1>1, <1>4
<1>6. Onto(statesStack, m, x, statesStack') /\ m \in Nat
  BY <1>5, StackTop DEF Onto
<1> QED BY <1>6, StackChanges

\* What a reduction makes of the stack: so many states more, so many less that
\* stand for tokens.
Became(more, less) ==
  /\ Stacked(statesStack') /\ Last(statesStack') \in {1, 2, 3, 8, 10}
  /\ Len(statesStack') = Len(statesStack) + more
  /\ OfTokens(statesStack') = OfTokens(statesStack) - less
  /\ Opened(statesStack') = Opened(statesStack)

LEMMA TransitIs ==
  /\ Transit(0, 0) = 1 /\ Transit(8, 0) = 10
  /\ \A s : Transit(s, 1) = 2 /\ Transit(s, 2) = 3 /\ Transit(s, 3) = 8
BY DEF Transit

LEMMA ReducedTop ==
  ASSUME NEW p \in 1 .. 5, Stacked(statesStack), Reducing(p), Reduced(p)
  PROVE  Became(0, IF p < 3 THEN 0 ELSE 1)
<1> PICK n \in Nat : n = Len(statesStack)
  BY StackTop
<1> PICK st : st = statesStack
  OBVIOUS
<1>1. st[n] = p + 1 /\ Last(st) = st[n]
  <2>1. Last(statesStack) = p + 1
    BY ReducesWhere DEF Stacked
  <2> QED BY <2>1, StackTop
<1>2. n > 1 /\ st[n - 1] \in {0, 8}
  <2>1. st[n] \in 2 .. 7
    BY <1>1
  <2> QED BY <2>1, StackTop
<1> PICK m \in Nat : m = n - 1
  BY <1>2
<1> PICK q : q = IF p < 3 THEN 0 ELSE 1
  OBVIOUS
<1>3. productions[p] = Production(q, 1)
  BY ProductionsAre
<1> PICK x : x = Transit(st[m], q)
  OBVIOUS
<1>4. x \in {1, 2, 10} /\ x \in Above(st[m])
  BY <1>2, TransitIs DEF Above
<1>5. m \in 1 .. Len(statesStack) /\ m = Len(statesStack) - 1
  BY <1>2
<1>6. /\ Stacked(statesStack') /\ Len(statesStack') = m + 1 /\ Last(statesStack') = x
      /\ \A S : Count(statesStack', m + 1, S) = Count(statesStack, m, S) + One(x, S)
  BY <1>3, <1>4, <1>5, StateReduced
<1>7. \A S : /\ Count(st, n, S) = Count(st, m, S) + One(st[n], S)
             /\ Count(st, n, S) \in Nat /\ Count(st, m, S) \in Nat
  <2> TAKE S
  <2>1. /\ Count(st, n, S) = Count(st, n - 1, S) + One(st[n], S)
        /\ Count(st, n, S) \in Nat
    BY <1>2, CountLast
  <2>2. Count(st, m, S) \in Nat
    BY <1>2, CountLast
  <2> QED BY <2>1, <2>2
<1>8. /\ One(x, {7}) = 0 /\ One(st[n], {7}) = 0
      /\ One(x, TokenStates) = 0
      /\ One(st[n], TokenStates) = IF p < 3 THEN 0 ELSE 1
  BY <1>1, <1>4 DEF One, TokenStates
<1>9. /\ OfTokens(statesStack') = Count(st, m, TokenStates)
      /\ OfTokens(statesStack) = Count(st, m, TokenStates) + (IF p < 3 THEN 0 ELSE 1)
  BY <1>6, <1>7, <1>8 DEF OfTokens
<1>10. Opened(statesStack') = Count(st, m, {7}) /\ Opened(statesStack) = Count(st, m, {7})
  BY <1>1, <1>4, <1>6, <1>7, <1>8 DEF Opened
<1>11. OfTokens(statesStack') = OfTokens(statesStack) - (IF p < 3 THEN 0 ELSE 1)
  BY <1>7, <1>9
<1> QED BY <1>4, <1>5, <1>6, <1>10, <1>11 DEF Became

LEMMA ReducedList ==
  ASSUME Stacked(statesStack), Reducing(6), Reduced(6)
  PROVE  Became(-2, 2) /\ OfTokens(statesStack) >= 2
<1> PICK n \in Nat : n = Len(statesStack)
  BY StackTop
<1> PICK st : st = statesStack
  OBVIOUS
<1>1. st[n] = 9 /\ Last(st) = 9
  <2>1. Last(statesStack) = 9
    BY ReducesWhere DEF Stacked
  <2> QED BY <2>1, StackTop
<1>2. n > 3 /\ st[n - 1] = 8 /\ st[n - 2] = 7 /\ st[n - 3] \in {0, 8}
  <2>1. IsTop(st, n)
    BY TopIsTop
  <2> QED BY <1>1, <2>1 DEF IsTop
<1> PICK m \in Nat : m = n - 3
  BY <1>2
<1>3. productions[6] = Production(2, 3)
  BY ProductionsAre
<1>4. Transit(st[m], 2) = 3 /\ 3 \in Above(st[m])
  BY <1>2, TransitIs DEF Above
<1>5. m \in 1 .. Len(statesStack) /\ m = Len(statesStack) - 3
  BY <1>2
<1>6. /\ Stacked(statesStack') /\ Len(statesStack') = m + 1 /\ Last(statesStack') = 3
      /\ \A S : Count(statesStack', m + 1, S) = Count(statesStack, m, S) + One(3, S)
  BY <1>3, <1>4, <1>5, StateReduced
<1>7. \A S : /\ Count(st, n, S) = Count(st, m, S) + One(7, S) + One(8, S) + One(9, S)
             /\ Count(st, m, S) \in Nat
  <2> TAKE S
  <2>1. Count(st, n, S) = Count(st, n - 1, S) + One(st[n], S)
    <3>1. n \in Nat \ {0}
      BY <1>2
    <3> QED BY <3>1, CountLast, Zenon
  <2>2. n - 1 \in Nat \ {0} /\ n - 2 \in Nat \ {0} /\ n - 1 - 1 = n - 2 /\ n - 2 - 1 = m
    <3>1. n \in Nat /\ n > 3 /\ m = n - 3
      BY <1>2
    <3> QED BY ONLY <3>1
  <2>3. Count(st, n - 1, S) = Count(st, n - 2, S) + One(st[n - 1], S)
    BY <2>2, CountLast
  <2>4. Count(st, n - 2, S) = Count(st, m, S) + One(st[n - 2], S)
    BY <2>2, CountLast
  <2>5. Count(st, m, S) \in Nat
    BY <1>2, CountLast
  <2>6. One(7, S) \in Int /\ One(8, S) \in Int /\ One(9, S) \in Int
    BY DEF One
  <2> QED BY <1>1, <1>2, <2>1, <2>3, <2>4, <2>5, <2>6
<1>8. /\ One(3, {7}) = 0 /\ One(7, {7}) = 1 /\ One(8, {7}) = 0 /\ One(9, {7}) = 0
      /\ One(3, TokenStates) = 0 /\ One(7, TokenStates) = 1
      /\ One(8, TokenStates) = 0 /\ One(9, TokenStates) = 1
  BY DEF One, TokenStates
<1>9. /\ OfTokens(statesStack') = Count(st, m, TokenStates)
      /\ OfTokens(statesStack) = Count(st, m, TokenStates) + 2
  BY <1>6, <1>7, <1>8 DEF OfTokens
<1>10. Opened(statesStack') = Count(st, m, {7}) /\ Opened(statesStack) = Count(st, m, {7})
  <2>1. /\ Count(st, n, {7}) = Count(st, m, {7}) + One(7, {7}) + One(8, {7}) + One(9, {7})
        /\ Count(st, m, {7}) \in Nat
        /\ Count(statesStack', m + 1, {7}) = Count(st, m, {7}) + One(3, {7})
    BY <1>6, <1>7
  <2>2. Count(st, n, {7}) = Count(st, m, {7}) + 1 /\ Count(statesStack', m + 1, {7}) = Count(st, m, {7})
    BY <1>8, <2>1
  <2> QED BY <1>1, <1>6, <2>1, <2>2 DEF Opened
<1>11. OfTokens(statesStack') = OfTokens(statesStack) - 2 /\ OfTokens(statesStack) >= 2
  BY <1>7, <1>9
<1> QED BY <1>5, <1>6, <1>10, <1>11 DEF Became

LEMMA ReducedEmpty ==
  ASSUME Stacked(statesStack), Reducing(7), Reduced(7)
  PROVE  Became(1, 0)
<1> PICK n \in Nat : n = Len(statesStack)
  BY StackTop
<1> PICK st : st = statesStack
  OBVIOUS
<1>1. st[n] = 7 /\ Last(st) = 7 /\ n > 0
  <2>1. Last(statesStack) = 7
    BY ReducesWhere DEF Stacked
  <2> QED BY <2>1, StackTop
<1>2. productions[7] = Production(3, 0)
  BY ProductionsAre
<1>3. Transit(st[n], 3) = 8 /\ 8 \in Above(st[n])
  BY <1>1, TransitIs DEF Above
<1>4. n \in 1 .. Len(statesStack) /\ n = Len(statesStack) - 0
  BY <1>1
<1>5. /\ Stacked(statesStack') /\ Len(statesStack') = n + 1 /\ Last(statesStack') = 8
      /\ \A S : Count(statesStack', n + 1, S) = Count(statesStack, n, S) + One(8, S)
  BY <1>2, <1>3, <1>4, StateReduced
<1>6. \A S : Count(st, n, S) \in Nat
  BY <1>1, CountLast
<1>7. One(8, {7}) = 0 /\ One(8, TokenStates) = 0
  BY DEF One, TokenStates
<1>8. OfTokens(statesStack') = OfTokens(statesStack) - 0
  BY <1>5, <1>6, <1>7 DEF OfTokens
<1>9. Opened(statesStack') = Opened(statesStack)
  BY <1>1, <1>5, <1>6, <1>7 DEF Opened
<1> QED BY <1>4, <1>5, <1>8, <1>9 DEF Became

LEMMA FewTokens ==
  ASSUME NEW st, Stacked(st), NEW m \in 1 .. Len(st)
  PROVE  Count(st, m, TokenStates) <= m - 1
<1>1. st[1] = 0 /\ 0 \notin TokenStates /\ m \in Nat /\ m > 0
  BY StackTop DEF Stacked, TokenStates
<1> DEFINE C == {i \in 1 .. m : st[i] \in TokenStates}
<1>2. C \in SUBSET (2 .. m)
  BY <1>1
<1>3. IsFiniteSet(2 .. m) /\ Cardinality(2 .. m) = m - 1
  <2>1. Cardinality(2 .. m) = IF 2 > m THEN 0 ELSE m - 2 + 1
    BY <1>1, FS_Interval
  <2> QED BY <1>1, <2>1, FS_Interval
<1>4. Cardinality(C) <= Cardinality(2 .. m)
  BY <1>2, <1>3, FS_Subset
<1> QED BY <1>3, <1>4 DEF Count

LEMMA ReducedEntry ==
  ASSUME Stacked(statesStack), Reducing(8), Reduced(8)
  PROVE  Became(-1, 0) /\ Len(statesStack) - 1 - OfTokens(statesStack) >= 2
<1> PICK n \in Nat : n = Len(statesStack)
  BY StackTop
<1> PICK st : st = statesStack
  OBVIOUS
<1>1. st[n] = 10 /\ Last(st) = 10
  <2>1. Last(statesStack) = 10
    BY ReducesWhere DEF Stacked
  <2> QED BY <2>1, StackTop
<1>2. n > 3 /\ st[n - 1] = 8 /\ st[n - 2] = 7
  <2>1. IsTop(st, n)
    BY TopIsTop
  <2> QED BY <1>1, <2>1 DEF IsTop
<1> PICK m \in Nat : m = n - 2
  BY <1>2
<1>3. productions[8] = Production(3, 2)
  BY ProductionsAre
<1>4. Transit(st[m], 3) = 8 /\ 8 \in Above(st[m])
  BY <1>2, TransitIs DEF Above
<1>5. m \in 1 .. Len(statesStack) /\ m = Len(statesStack) - 2
  BY <1>2
<1>6. /\ Stacked(statesStack') /\ Len(statesStack') = m + 1 /\ Last(statesStack') = 8
      /\ \A S : Count(statesStack', m + 1, S) = Count(statesStack, m, S) + One(8, S)
  BY <1>3, <1>4, <1>5, StateReduced
<1>7. \A S : /\ Count(st, n, S) = Count(st, m, S) + One(8, S) + One(10, S)
             /\ Count(st, m, S) \in Nat
  <2> TAKE S
  <2>1. Count(st, n, S) = Count(st, n - 1, S) + One(st[n], S)
    <3>1. n \in Nat \ {0}
      BY <1>2
    <3> QED BY <3>1, CountLast, Zenon
  <2>2. n - 1 \in Nat \ {0} /\ n - 1 - 1 = m
    BY <1>2
  <2>3. Count(st, n - 1, S) = Count(st, m, S) + One(st[n - 1], S)
    BY <2>2, CountLast
  <2>4. Count(st, m, S) \in Nat
    BY <1>2, CountLast
  <2>5. One(8, S) \in Int /\ One(10, S) \in Int
    BY DEF One
  <2> QED BY <1>1, <1>2, <2>1, <2>3, <2>4, <2>5
<1>8. /\ One(10, {7}) = 0 /\ One(8, {7}) = 0
      /\ One(10, TokenStates) = 0 /\ One(8, TokenStates) = 0
  BY DEF One, TokenStates
<1>9. OfTokens(statesStack') = OfTokens(statesStack) - 0
  BY <1>6, <1>7, <1>8 DEF OfTokens
<1>10. Opened(statesStack') = Opened(statesStack)
  BY <1>1, <1>6, <1>7, <1>8 DEF Opened
<1>11. Became(-1, 0)
  BY <1>5, <1>6, <1>9, <1>10 DEF Became
<1>12. OfTokens(statesStack) = Count(st, m, TokenStates)
  BY <1>7, <1>8 DEF OfTokens
<1>13. Count(st, m, TokenStates) <= m - 1
  BY <1>5, FewTokens
<1> QED BY <1>2, <1>7, <1>11, <1>12, <1>13

-----------------------------------------------------------------------------
(***************************************************************************)
(* Parentheses.                                                            *)
(***************************************************************************)
LEMMA ItemIs ==
  ASSUME NEW t, t.type \in AnyToken
  PROVE  /\ Item(t) = Open <=> t.type = "TOKEN_TYPE_7"
         /\ Item(t) = Close <=> t.type = "TOKEN_TYPE_8"
         /\ Item(t) = End <=> t.type = "EOF"
         /\ t.type = "NUMBER" => Item(t) = Num(stoi(t.text))
<1>1. t.type \in {"NUMBER", "STRING", "SYMBOL", "TOKEN_TYPE_7", "TOKEN_TYPE_8", "EOF"}
  BY DEF AnyToken, InnerTokens
<1>2. \A x : Num(x)[1] = "NUMBER" /\ Str(x)[1] = "STRING" /\ Sym(x)[1] = "SYMBOL"
  BY DEF Num, Str, Sym
<1>3. Open[1] = "OPEN" /\ Close[1] = "CLOSE" /\ End[1] = "END"
  BY DEF Open, Close, End
<1>4. /\ t.type = "TOKEN_TYPE_7" => Item(t) = Open
      /\ t.type = "TOKEN_TYPE_8" => Item(t) = Close
      /\ t.type = "EOF" => Item(t) = End
      /\ t.type = "NUMBER" => Item(t)[1] = "NUMBER" /\ Item(t) = Num(stoi(t.text))
      /\ t.type = "STRING" => Item(t)[1] = "STRING"
      /\ t.type = "SYMBOL" => Item(t)[1] = "SYMBOL"
  BY <1>2 DEF Item
<1> QED BY <1>1, <1>3, <1>4

LEMMA DepthIs ==
  ASSUME NEW items, NEW n \in Nat
  PROVE  Depth(items, n) = Count(items, n, {Open}) - Count(items, n, {Close})
<1>1. \A v : {i \in 1 .. n : items[i] \in {v}} = {i \in 1 .. n : items[i] = v}
  OBVIOUS
<1> QED BY <1>1, Zenon DEF Depth, Count

LEMMA DepthNext ==
  ASSUME NEW items, NEW n \in Nat
  PROVE  /\ Depth(items, 0) = 0 /\ Depth(items, n) \in Int
         /\ Depth(items, n + 1) = Depth(items, n) + One(items[n + 1], {Open})
                                                  - One(items[n + 1], {Close})
<1>1. \A S : /\ Count(items, 0, S) = 0 /\ Count(items, n, S) \in Int
             /\ Count(items, n + 1, S) = Count(items, n, S) + One(items[n + 1], S)
             /\ One(items[n + 1], S) \in Int
  BY CountNext DEF One
<1>2. /\ Depth(items, 0) = Count(items, 0, {Open}) - Count(items, 0, {Close})
      /\ Depth(items, n) = Count(items, n, {Open}) - Count(items, n, {Close})
      /\ Depth(items, n + 1) = Count(items, n + 1, {Open}) - Count(items, n + 1, {Close})
  BY DepthIs
<1> QED BY <1>1, <1>2

LEMMA DepthSame ==
  ASSUME NEW items, NEW more, NEW n \in Nat, \A i \in 1 .. n : more[i] = items[i]
  PROVE  Depth(more, n) = Depth(items, n)
<1>1. \A S : Count(more, n, S) = Count(items, n, S)
  BY CountSame
<1> QED BY <1>1, DepthIs

LEMMA ItemsAre ==
  ASSUME NEW tokens \in Seq(Tokens)
  PROVE  /\ Items(tokens) \in Seq(Range(Items(tokens)))
         /\ Len(Items(tokens)) = Len(tokens) /\ Len(tokens) \in Nat
         /\ \A i \in 1 .. Len(tokens) : Items(tokens)[i] = Item(tokens[i])
<1> PICK n \in Nat : n = Len(tokens) /\ DOMAIN tokens = 1 .. n
  BY LenProperties
<1> PICK f : f = Items(tokens)
  OBVIOUS
<1>1. f = [i \in 1 .. n |-> Item(tokens[i])]
  BY DEF Items
<1>2. f \in [1 .. n -> Range(f)]
  BY <1>1 DEF Range
<1>3. f \in Seq(Range(f))
  BY <1>2, SeqDef
<1>4. DOMAIN f = 1 .. Len(f) /\ Len(f) \in Nat
  BY <1>3, LenProperties
<1>5. Len(f) = n
  BY <1>1, <1>4
<1> QED BY <1>1, <1>3, <1>5

\* A beginning of an expression that cannot be gone on with.
LEMMA NotBeginning ==
  ASSUME NEW T, NEW items \in Seq(T), NEW n \in Nat, Len(items) = n + 1,
         \/ n = 0 /\ items[n + 1] \in {Close, End}
         \/ n > 0 /\ Depth(items, n) = 0 /\ items[n + 1] # End
         \/ n > 0 /\ Depth(items, n) > 0 /\ items[n + 1] = End
  PROVE  ~ IsBeginning(items)
<1>1. Open # Close /\ Open # End /\ Close # End
  <2>1. Open[1] = "OPEN" /\ Close[1] = "CLOSE" /\ End[1] = "END"
    BY DEF Open, Close, End
  <2> QED BY <2>1
<1>2. Last(items) = items[n + 1]
  BY DEF Last
<1> PICK front : front = Front(items)
  OBVIOUS
<1>3. Len(front) = n /\ (n > 0 => Depth(front, n) = Depth(items, n)) /\ (n = 0 => front = <<>>)
  <2>1. front = SubSeq(items, 1, n)
    BY DEF Front
  <2>2. front \in Seq(T) /\ Len(front) = n /\ \A i \in 1 .. n : front[i] = items[i]
    BY <2>1, FirstOf
  <2>3. Depth(front, n) = Depth(items, n)
    BY <2>2, DepthSame
  <2> QED BY <2>2, <2>3
<1>4. ~ (\A k \in 1 .. Len(items) : Depth(items, k) > 0 /\ items[k] # End)
  <2>1. CASE n = 0 /\ items[n + 1] = Close
    <3>1. /\ Depth(items, 0) = 0
          /\ Depth(items, 0 + 1) = Depth(items, 0) + One(items[0 + 1], {Open})
                                                   - One(items[0 + 1], {Close})
      BY DepthNext
    <3>2. One(items[0 + 1], {Open}) = 0 /\ One(items[0 + 1], {Close}) = 1
      BY <1>1, <2>1 DEF One
    <3>3. Depth(items, 1) = -1
      BY <3>1, <3>2
    <3> QED BY <2>1, <3>3
  <2>2. CASE items[n + 1] = End
    BY <2>2
  <2>3. CASE n > 0 /\ Depth(items, n) = 0
    BY <2>3
  <2> QED BY <2>1, <2>2, <2>3
<1>5. ~ IsExpression(items)
  <2>1. CASE n = 0 /\ items[n + 1] = Close
    <3>1. /\ Depth(items, 0) = 0
          /\ Depth(items, 0 + 1) = Depth(items, 0) + One(items[0 + 1], {Open})
                                                   - One(items[0 + 1], {Close})
      BY DepthNext
    <3>2. One(items[0 + 1], {Open}) = 0 /\ One(items[0 + 1], {Close}) = 1
      BY <1>1, <2>1 DEF One
    <3>3. Depth(items, 1) = -1
      BY <3>1, <3>2
    <3> QED BY <2>1, <3>3 DEF IsExpression
  <2>2. CASE items[n + 1] = End
    BY <2>2 DEF IsExpression
  <2>3. CASE n > 0 /\ Depth(items, n) = 0
    BY <2>3 DEF IsExpression
  <2> QED BY <2>1, <2>2, <2>3
<1>6. ~ (Last(items) = End /\ IsExpression(front))
  BY <1>1, <1>2, <1>3 DEF IsExpression
<1> QED BY <1>4, <1>5, <1>6 DEF IsBeginning

\* c counts the states 7 below each place.
LEMMA OpensOnTop ==
  ASSUME NEW n \in Nat, n > 0, NEW st \in [1 .. n -> 0 .. 10], NEW c \in [0 .. n -> Nat],
         c[0] = 0, \A k \in 1 .. n : c[k] = c[k - 1] + (IF st[k] = 7 THEN 1 ELSE 0)
  PROVE  /\ st[n] = 7 => c[n] > 0
         /\ n > 2 /\ st[n] = 8 /\ st[n - 1] = 7 => c[n] > 0
         /\ n > 3 /\ st[n] \in {9, 10} /\ st[n - 1] = 8 /\ st[n - 2] = 7 => c[n] > 0
         /\ n = 1 /\ st[1] = 0 => c[n] = 0
         /\ n = 2 /\ st[1] = 0 /\ st[2] = 1 => c[n] = 0
<1>1. /\ \A k \in 0 .. n : c[k] \in Nat
      /\ \A k \in 1 .. n : st[k] = 7 => c[k] > 0
      /\ \A k \in 1 .. n : st[k] # 7 => c[k] = c[k - 1]
  OBVIOUS
<1>2. CASE st[n] = 7
  BY <1>1, <1>2
<1>3. CASE n > 2 /\ st[n] = 8 /\ st[n - 1] = 7
  <2> PICK k \in 1 .. n : k = n - 1
    BY <1>3
  <2>1. c[k] > 0
    BY <1>1, <1>3
  <2>2. c[n] = c[n - 1]
    BY <1>1, <1>3
  <2> QED BY <2>1, <2>2
<1>4. CASE n > 3 /\ st[n] \in {9, 10} /\ st[n - 1] = 8 /\ st[n - 2] = 7
  <2> PICK k \in 1 .. n : k = n - 1
    BY <1>4
  <2> PICK i \in 1 .. n : i = n - 2
    BY <1>4
  <2>1. st[i] = 7 /\ st[k] # 7 /\ st[n] # 7 /\ k - 1 = i /\ n \in 1 .. n
    <3>1. k - 1 = i /\ n \in 1 .. n
      OBVIOUS
    <3>2. st[i] = 7 /\ st[k] = 8 /\ st[n] \in {9, 10}
      BY <1>4, Zenon
    <3> QED BY <3>1, <3>2
  <2>2. c[i] > 0
    BY <1>1, <2>1
  <2>3. c[k] = c[k - 1] /\ c[n] = c[n - 1]
    BY <1>1, <2>1
  <2> QED BY <2>1, <2>2, <2>3
<1>5. CASE n = 1 /\ st[1] = 0
  <2>1. c[1] = c[0] + 0
    BY <1>5
  <2> QED BY <1>5, <2>1
<1>6. CASE n = 2 /\ st[1] = 0 /\ st[2] = 1
  <2>1. c[1] = c[0] + 0 /\ c[2] = c[1] + 0
    BY <1>6
  <2> QED BY <1>6, <2>1
<1> QED BY <1>2, <1>3, <1>4, <1>5, <1>6

LEMMA OpenedIs ==
  ASSUME NEW st, Stacked(st)
  PROVE  /\ Opened(st) \in Nat
         /\ Last(st) \in {7, 8, 10} => Opened(st) > 0
         /\ Last(st) \in {0, 1} => Opened(st) = 0
         /\ Last(st) = 0 <=> st = <<0>>
         /\ Last(st) = 1 => st = <<0, 1>>
<1> PICK n \in Nat : n = Len(st)
  BY StackTop
<1>1. /\ n > 0 /\ Last(st) = st[n] /\ st[1] = 0 /\ st[n] \in 0 .. 10
      /\ st[n] = 0 => n = 1
      /\ st[n] = 1 => n = 2
      /\ st[n] = 8 => n > 2 /\ st[n - 1] = 7
      /\ st[n] \in {9, 10} => n > 3 /\ st[n - 1] = 8 /\ st[n - 2] = 7
  <2>1. st[1] = 0
    BY DEF Stacked
  <2>2. /\ n \in Nat \ {0} /\ Last(st) = st[n] /\ st[n] \in 0 .. 10
        /\ st[n] = 0 => n = 1
        /\ st[n] = 1 => n = 2
        /\ st[n] = 8 => n > 2 /\ st[n - 1] = 7
        /\ st[n] \in {9, 10} => n > 3 /\ st[n - 1] = 8 /\ st[n - 2] = 7
    <3>1. IsTop(st, n)
      BY TopIsTop
    <3> QED BY <3>1 DEF IsTop
  <2> QED BY <2>1, <2>2
<1>2. st \in [1 .. n -> 0 .. 10]
  BY DEF Stacked
<1>3. PICK c \in [0 .. n -> Nat] :
        /\ c[0] = 0 /\ c[n] = Count(st, n, {7})
        /\ \A k \in 1 .. n : c[k] = c[k - 1] + (IF st[k] = 7 THEN 1 ELSE 0)
  <2> DEFINE f == [k \in 0 .. n |-> Count(st, k, {7})]
  <2>1. ASSUME NEW k \in 1 .. n
        PROVE  f[k] \in Nat /\ f[k] = f[k - 1] + (IF st[k] = 7 THEN 1 ELSE 0)
    <3>1. k \in Nat \ {0} /\ k \in 0 .. n /\ k - 1 \in 0 .. n
      OBVIOUS
    <3>2. /\ Count(st, k, {7}) = Count(st, k - 1, {7}) + One(st[k], {7})
          /\ Count(st, k, {7}) \in 0 .. k
      BY <3>1, CountLast
    <3>3. f[k] = Count(st, k, {7}) /\ f[k - 1] = Count(st, k - 1, {7})
      BY <3>1
    <3>4. One(st[k], {7}) = IF st[k] = 7 THEN 1 ELSE 0
      BY DEF One
    <3> HIDE DEF f
    <3> QED BY <3>1, <3>2, <3>3, <3>4
  <2>2. f[0] = 0
    <3>1. 0 \in Nat
      OBVIOUS
    <3>2. Count(st, 0, {7}) = 0
      BY <3>1, CountNext
    <3> QED BY <3>2
  <2>3. f = [k \in 0 .. n |-> f[k]] /\ f[n] = Count(st, n, {7})
    OBVIOUS
  <2> HIDE DEF f
  <2>4. f \in [0 .. n -> Nat]
    BY <2>1, <2>2, <2>3
  <2> QED BY <2>1, <2>2, <2>3, <2>4
<1>4. /\ st[n] = 7 => c[n] > 0
      /\ n > 2 /\ st[n] = 8 /\ st[n - 1] = 7 => c[n] > 0
      /\ n > 3 /\ st[n] \in {9, 10} /\ st[n - 1] = 8 /\ st[n - 2] = 7 => c[n] > 0
      /\ n = 1 /\ st[1] = 0 => c[n] = 0
      /\ n = 2 /\ st[1] = 0 /\ st[2] = 1 => c[n] = 0
  BY <1>1, <1>2, <1>3, OpensOnTop
<1>5. Opened(st) = c[n] - (IF Last(st) = 9 THEN 1 ELSE 0)
  BY <1>3 DEF Opened
<1> PICK a, top : a = c[n] /\ top = Last(st)
  OBVIOUS
<1>6. /\ a \in Nat /\ top \in 0 .. 10
      /\ top \in {7, 8, 9, 10} => a > 0
      /\ top \in {0, 1} => a = 0
  BY <1>1, <1>3, <1>4
<1> PICK D : st \in Seq(D)
  BY DEF Stacked
<1>7. n = 1 => st = <<0>>
  <2>1. Len(st) = n /\ st[1] = 0 /\ st \in Seq(D)
    BY <1>1
  <2> QED BY ONLY <2>1
<1>8. n = 2 /\ st[2] = 1 => st = <<0, 1>>
  <2>1. Len(st) = n /\ st[1] = 0 /\ st \in Seq(D)
    BY <1>1
  <2> QED BY ONLY <2>1
<1>9. st = <<0>> => Last(st) = 0
  BY DEF Last
<1>10. Opened(st) = a - (IF top = 9 THEN 1 ELSE 0)
  BY <1>5
<1>11. /\ Opened(st) \in Nat
       /\ top \in {7, 8, 10} => Opened(st) > 0
       /\ top \in {0, 1} => Opened(st) = 0
  BY ONLY <1>6, <1>10
<1>12. (top = 0 <=> st = <<0>>) /\ (top = 1 => st = <<0, 1>>)
  BY <1>1, <1>7, <1>8, <1>9
<1> QED BY <1>11, <1>12

\* What NestingOK says of a stack and the tokens that were shifted.
Nested(st, tokens) ==
  /\ tokens = <<>> <=> st = <<0>>
  /\ Depth(Items(tokens), Len(tokens)) = Opened(st)
  /\ \A n \in 1 .. Len(tokens) - 1 : Depth(Items(tokens), n) > 0

LEMMA NestedBegins ==
  ASSUME NEW st, Stacked(st), NEW tokens \in Seq(Tokens), Nested(st, tokens),
         \A i \in 1 .. Len(tokens) : tokens[i].type # "EOF"
  PROVE  /\ IsBeginning(Items(tokens))
         /\ Last(st) = 1 => IsExpression(Items(tokens))
<1> PICK items : items = Items(tokens)
  OBVIOUS
<1> PICK n \in Nat : n = Len(tokens)
  BY ItemsAre
<1>1. Len(items) = n /\ \A i \in 1 .. n : items[i] = Item(tokens[i])
  BY ItemsAre
<1>2. \A i \in 1 .. n : items[i] # End
  <2> TAKE i \in 1 .. n
  <2>1. tokens[i] \in Tokens
    OBVIOUS
  <2>2. tokens[i].type \in AnyToken /\ tokens[i].type # "EOF"
    BY <2>1 DEF Tokens
  <2> QED BY <1>1, <2>2, ItemIs
<1>3. Depth(items, n) = Opened(st) /\ Opened(st) \in Nat
      /\ \A k \in 1 .. n - 1 : Depth(items, k) > 0
  BY OpenedIs DEF Nested
<1>4. CASE n = 0
  <2>1. tokens = <<>>
    BY <1>4, EmptySeq
  <2>2. st = <<0>>
    BY <2>1 DEF Nested
  <2>3. Last(st) = 0
    BY <2>2, OpenedIs
  <2> QED BY <1>1, <1>4, <2>3 DEF IsBeginning
<1>5. CASE n > 0 /\ Depth(items, n) > 0
  <2>1. \A k \in 1 .. n : Depth(items, k) > 0
    BY <1>3, <1>5
  <2>2. Last(st) # 1
    BY <1>3, <1>5, OpenedIs
  <2> QED BY <1>1, <1>2, <2>1, <2>2 DEF IsBeginning
<1>6. CASE n > 0 /\ Depth(items, n) = 0
  <2>1. items # <<>> /\ items[Len(items)] # End
    BY <1>1, <1>2, <1>6
  <2>2. IsExpression(items)
    BY <1>1, <1>3, <1>6, <2>1 DEF IsExpression
  <2> QED BY <2>2 DEF IsBeginning
<1> QED BY <1>3, <1>4, <1>5, <1>6

\* A shift adds to both what it opens or closes.
LEMMA NestedMore ==
  ASSUME NEW st, Stacked(st), NEW tokens \in Seq(Tokens), Nested(st, tokens),
         Last(st) \in {0, 8}, NEW t \in Tokens, NEW more, more = Append(tokens, t),
         NEW new, Last(new) # 0, Stacked(new),
         Opened(new) = Opened(st) + One(Item(t), {Open}) - One(Item(t), {Close})
  PROVE  Nested(new, more)
<1> PICK n \in Nat : n = Len(tokens)
  BY ItemsAre
<1> PICK items, longer : items = Items(tokens) /\ longer = Items(more)
  OBVIOUS
<1>1. /\ more \in Seq(Tokens) /\ Len(more) = n + 1 /\ more[n + 1] = t
      /\ \A i \in 1 .. n : more[i] = tokens[i]
  BY OnePushed
<1>2. /\ Len(longer) = n + 1 /\ Len(items) = n /\ longer[n + 1] = Item(t)
      /\ \A i \in 1 .. n : longer[i] = items[i]
  <2>1. /\ Len(longer) = n + 1
        /\ \A i \in 1 .. n + 1 : longer[i] = Item(more[i])
    BY <1>1, ItemsAre
  <2>2. Len(items) = n /\ \A i \in 1 .. n : items[i] = Item(tokens[i])
    BY ItemsAre
  <2> QED BY <1>1, <2>1, <2>2
<1>3. \A k \in 0 .. n : Depth(longer, k) = Depth(items, k)
  <2> TAKE k \in 0 .. n
  <2>1. k \in Nat /\ \A i \in 1 .. k : longer[i] = items[i]
    BY <1>2
  <2> QED BY <2>1, DepthSame
<1>4. Depth(items, n) = Opened(st) /\ \A k \in 1 .. n - 1 : Depth(items, k) > 0
  BY DEF Nested
<1>5. Depth(longer, n + 1) = Depth(longer, n) + One(longer[n + 1], {Open})
                                              - One(longer[n + 1], {Close})
  BY DepthNext
<1>6. Depth(longer, Len(more)) = Opened(new)
  <2>1. Depth(longer, n) = Depth(items, n)
    BY <1>3
  <2> QED BY <1>1, <1>2, <1>4, <1>5, <2>1
<1>7. ASSUME NEW k \in 1 .. n
      PROVE  Depth(longer, k) > 0
  <2>1. Depth(longer, k) = Depth(items, k)
    BY <1>3
  <2>2. CASE k = n
    <3>1. tokens # <<>>
      BY <2>2, EmptySeq
    <3>2. st # <<0>>
      BY <3>1 DEF Nested
    <3>3. Last(st) = 8
      BY <3>2, OpenedIs
    <3>4. Opened(st) > 0
      BY <3>3, OpenedIs
    <3> QED BY <1>4, <2>1, <2>2, <3>4
  <2>3. CASE k # n
    BY <1>4, <2>1, <2>3
  <2> QED BY <2>2, <2>3
<1>8. more # <<>> /\ new # <<0>>
  BY <1>1, OpenedIs
<1>9. n + 1 - 1 = n
  OBVIOUS
<1> QED BY <1>1, <1>6, <1>7, <1>8, <1>9 DEF Nested

\* StacksOK, taken apart.
LEMMA TokenStatesAbove ==
  ASSUME NEW st, Stacked(st)
  PROVE  /\ Cardinality({i \in 2 .. Len(st) : st[i] \in TokenStates}) = OfTokens(st)
         /\ Cardinality({i \in DOMAIN st : st[i] = 7})
              - (IF Last(st) = 9 THEN 1 ELSE 0) = Opened(st)
<1> PICK n \in Nat : n = Len(st)
  BY StackTop
<1>1. n > 0 /\ st[1] = 0 /\ DOMAIN st = 1 .. n
  BY StackTop DEF Stacked
<1>2. 0 \notin TokenStates
  BY DEF TokenStates
<1>3. {i \in 2 .. n : st[i] \in TokenStates} = {i \in 1 .. n : st[i] \in TokenStates}
  <2>1. \A i \in 1 .. n : i = 1 \/ i \in 2 .. n
    OBVIOUS
  <2> QED BY <1>1, <1>2, <2>1
<1>4. {i \in DOMAIN st : st[i] = 7} = {i \in 1 .. n : st[i] \in {7}}
  BY <1>1
<1> QED BY <1>3, <1>4 DEF OfTokens, Opened, Count

Agreed(st, tokens, values) ==
  Len(tokens) = OfTokens(st) /\ Len(values) = Len(st) - 1 - OfTokens(st)

LEMMA StacksAre ==
  ASSUME status \in {"scanning", "parsing"}, StacksOK
  PROVE  /\ Stacked(statesStack)
         /\ Nested(statesStack, Shifted)
         /\ Agreed(statesStack, tokensStack, valuesStack)
         /\ NumberOK
         /\ tokensStack \in Seq(Range(tokensStack))
         /\ valuesStack \in Seq(Range(valuesStack))
<1>1. Stacked(statesStack)
  BY DEF StacksOK, StatesOK, Stacked
<1>2. Nested(statesStack, Shifted)
  <2>1. OpenLists = Opened(statesStack)
    BY <1>1, TokenStatesAbove DEF OpenLists
  <2> QED BY <2>1 DEF StacksOK, NestingOK, Nested
<1>3. Agreed(statesStack, tokensStack, valuesStack)
  BY <1>1, TokenStatesAbove DEF StacksOK, StacksAgree, Agreed
<1> QED BY <1>1, <1>2, <1>3 DEF StacksOK

LEMMA StacksBecome ==
  ASSUME Stacked(statesStack'), Nested(statesStack', Shifted'),
         Agreed(statesStack', tokensStack', valuesStack'), NumberOK',
         tokensStack' \in Seq(Range(tokensStack')),
         valuesStack' \in Seq(Range(valuesStack'))
  PROVE  StacksOK'
<1>1. StatesOK'
  BY DEF StatesOK, Stacked
<1>2. NestingOK'
  <2>1. OpenLists' = Opened(statesStack')
    BY TokenStatesAbove DEF OpenLists
  <2> QED BY <2>1 DEF NestingOK, Nested
<1>3. StacksAgree'
  BY TokenStatesAbove DEF StacksAgree, Agreed
<1> QED BY <1>1, <1>2, <1>3 DEF StacksOK

-----------------------------------------------------------------------------
(***************************************************************************)
(* The stacks in step.                                                     *)
(***************************************************************************)
LEMMA OfItsRange ==
  ASSUME NEW S, NEW s \in Seq(S)
  PROVE  s \in Seq(Range(s))
<1> PICK T : T = Range(s)
  OBVIOUS
<1>1. s \in [1 .. Len(s) -> T] /\ Len(s) \in Nat
  BY LenProperties DEF Range
<1> QED BY <1>1, SeqDef

LEMMA Popped ==
  ASSUME NEW S, NEW s \in Seq(S), NEW k \in 0 .. Len(s), NEW t, t = Below(s, k)
  PROVE  t \in Seq(S) /\ t \in Seq(Range(t)) /\ Len(t) = Len(s) - k
<1>1. Len(s) - k \in 0 .. Len(s)
  OBVIOUS
<1>2. t \in Seq(S) /\ Len(t) = Len(s) - k
  BY <1>1, FirstOf DEF Below
<1> QED BY <1>2, OfItsRange

LEMMA Put ==
  ASSUME NEW S, NEW s \in Seq(S), NEW x, NEW t, t = Append(s, x)
  PROVE  t \in Seq(Range(t)) /\ Len(t) = Len(s) + 1 /\ t # <<>> /\ Last(t) = x
<1> PICK T : T = S \cup {x}
  OBVIOUS
<1>1. s \in Seq(T)
  BY SeqMonotonic
<1>2. x \in T
  OBVIOUS
<1>3. t \in Seq(T) /\ Len(t) = Len(s) + 1 /\ t[Len(s) + 1] = x /\ Len(s) \in Nat
  BY <1>1, <1>2, OnePushed
<1>4. t # <<>> /\ Last(t) = x
  BY <1>3 DEF Last
<1> QED BY <1>3, <1>4, OfItsRange

LEMMA FrontOfAppend ==
  ASSUME NEW S, NEW s \in Seq(S), NEW x \in S
  PROVE  Front(Append(s, x)) = s
<1> PICK t : t = Append(s, x)
  OBVIOUS
<1>1. t \in Seq(S) /\ Len(t) = Len(s) + 1 /\ Len(s) \in Nat
      /\ \A i \in 1 .. Len(s) : t[i] = s[i]
  BY OnePushed
<1> PICK f : f = SubSeq(t, 1, Len(s))
  OBVIOUS
<1>2. f \in Seq(S) /\ Len(f) = Len(s) /\ \A i \in 1 .. Len(s) : f[i] = t[i]
  BY <1>1, FirstOf
<1>3. f = s
  BY <1>1, <1>2, SeqEqual
<1>4. Len(t) - 1 = Len(s)
  BY <1>1
<1> QED BY <1>3, <1>4 DEF Front

\* The tokens that were shifted, while parse() runs and when it has returned.
LEMMA Scanned ==
  ASSUME TokensOK, status = "scanning"
  PROVE  /\ Shifted = read /\ Shifted \in Seq(Tokens)
         /\ \A i \in 1 .. Len(Shifted) : Shifted[i].type # "EOF"
<1>1. Shifted = read
  BY DEF Shifted
<1>2. read \in Seq(Tokens) /\ \A i \in DOMAIN read : read[i].type # "EOF"
  BY DEF TokensOK
<1> QED BY <1>1, <1>2

LEMMA Parsed ==
  ASSUME TokensOK, status \in {"parsing", "accepted"}
  PROVE  /\ Shifted = Front(read) /\ Shifted \in Seq(Tokens)
         /\ \A i \in 1 .. Len(Shifted) : Shifted[i].type # "EOF"
         /\ Len(read) = Len(Shifted) + 1 /\ Len(Shifted) \in Nat
         /\ \A i \in 1 .. Len(Shifted) : read[i] = Shifted[i]
         /\ read[Len(read)] = token /\ token \in Tokens /\ token.type \in AnyToken
         /\ read = Append(Shifted, token)
<1> PICK f : f = Front(read)
  OBVIOUS
<1>1. Shifted = f
  BY DEF Shifted
<1>2. /\ read \in Seq(Tokens) /\ read # <<>> /\ token = Last(read)
      /\ \A i \in DOMAIN read : read[i].type = "EOF" => i = Len(read)
  BY DEF TokensOK
<1> PICK n \in Nat : n + 1 = Len(read)
  <2>1. Len(read) \in Nat \ {0}
    BY <1>2, EmptySeq
  <2>2. Len(read) - 1 \in Nat /\ Len(read) - 1 + 1 = Len(read)
    BY <2>1
  <2> QED BY <2>2
<1>3. f \in Seq(Tokens) /\ Len(f) = n /\ \A i \in 1 .. n : f[i] = read[i]
  <2>1. f = SubSeq(read, 1, n)
    <3>1. Len(read) - 1 = n
      OBVIOUS
    <3> QED BY <3>1 DEF Front
  <2>2. n \in 0 .. Len(read)
    OBVIOUS
  <2> QED BY <1>2, <2>1, <2>2, FirstOf
<1>4. token = read[n + 1] /\ DOMAIN read = 1 .. n + 1
  BY <1>2 DEF Last
<1>5. token \in Tokens
  BY <1>2, <1>4
<1>6. token.type \in AnyToken
  BY <1>5 DEF Tokens
<1>7. \A i \in 1 .. n : f[i].type # "EOF"
  BY <1>2, <1>3, <1>4
<1>8. read = Append(f, token)
  <2> PICK t : t = Append(f, token)
    OBVIOUS
  <2>1. t \in Seq(Tokens) /\ Len(t) = n + 1 /\ t[n + 1] = token
        /\ \A i \in 1 .. n : t[i] = f[i]
    BY <1>3, <1>5, OnePushed
  <2>2. \A i \in 1 .. n + 1 : t[i] = read[i]
    <3> TAKE i \in 1 .. n + 1
    <3>1. i \in 1 .. n \/ i = n + 1
      OBVIOUS
    <3> QED BY <1>3, <1>4, <2>1, <3>1
  <2> QED BY <1>2, <2>1, <2>2, SeqEqual
<1> QED BY <1>1, <1>3, <1>4, <1>5, <1>6, <1>7, <1>8

\* getNextToken() changes the tokens read, not those that were shifted.
LEMMA ScanStacks ==
  ASSUME TokensOK, TokensOK', StacksOK, getNextToken, UNCHANGED stacks,
         status' # "thrown"
  PROVE  StacksOK'
<1>1. /\ status = "scanning" /\ read \in Seq(Tokens)
      /\ \/ status' = status /\ read' = read
         \/ \E t : status' = "parsing" /\ read' = Append(read, t)
  BY DEF getNextToken, Match, EndOfText, UnexpectedCharacter, Return, Throw, TokensOK
<1>2. Shifted = read
  BY <1>1 DEF Shifted
<1>3. Shifted' = read
  <2>1. CASE status' = status /\ read' = read
    BY <1>1, <2>1 DEF Shifted
  <2>2. CASE \E t : status' = "parsing" /\ read' = Append(read, t)
    <3>1. PICK t : status' = "parsing" /\ read' = Append(read, t)
      BY <2>2
    <3>2. Shifted' = Front(read')
      BY <3>1 DEF Shifted
    <3> PICK S : S = Tokens \cup {t}
      OBVIOUS
    <3>3. read \in Seq(S) /\ t \in S
      BY <1>1, SeqMonotonic
    <3>4. Front(Append(read, t)) = read
      BY <3>3, FrontOfAppend
    <3> QED BY <3>1, <3>2, <3>4
  <2> QED BY <1>1, <2>1, <2>2
<1>4. /\ Stacked(statesStack) /\ Nested(statesStack, read)
      /\ Agreed(statesStack, tokensStack, valuesStack) /\ NumberOK
      /\ tokensStack \in Seq(Range(tokensStack))
      /\ valuesStack \in Seq(Range(valuesStack))
  BY <1>1, <1>2, StacksAre
<1>5. statesStack' = statesStack /\ tokensStack' = tokensStack /\ valuesStack' = valuesStack
  BY DEF stacks
<1>6. NumberOK'
  BY <1>2, <1>3, <1>4, <1>5 DEF NumberOK
<1>7. Nested(statesStack', Shifted') /\ Agreed(statesStack', tokensStack', valuesStack')
  BY <1>3, <1>4, <1>5
<1> QED BY <1>4, <1>5, <1>6, <1>7, StacksBecome

LEMMA ShiftStacks ==
  ASSUME TokensOK, StacksOK, Shift
  PROVE  StacksOK'
<1>1. /\ status = "parsing" /\ Doing("Shift") /\ status' = "scanning" /\ read' = read
      /\ tokensStack' = Append(tokensStack, token.text)
      /\ statesStack' = Append(statesStack, Row[token.type].value)
      /\ valuesStack' = valuesStack
  BY DEF Shift, Doing, scanner
<1>2. /\ Stacked(statesStack) /\ Nested(statesStack, Shifted)
      /\ Agreed(statesStack, tokensStack, valuesStack)
      /\ tokensStack \in Seq(Range(tokensStack))
      /\ valuesStack \in Seq(Range(valuesStack))
  BY <1>1, StacksAre
<1>3. /\ Shifted \in Seq(Tokens) /\ read = Append(Shifted, token)
      /\ token \in Tokens /\ token.type \in AnyToken
  BY <1>1, Parsed
<1>4. /\ Last(statesStack) \in {0, 8} /\ token.type \in InnerTokens
      /\ Row[token.type].value = Pushed(token.type)
      /\ Last(statesStack) = 0 => token.type # "TOKEN_TYPE_8"
  BY <1>1, <1>2, ShiftsWhere DEF Stacked
<1> PICK x : x = Pushed(token.type)
  OBVIOUS
<1>5. /\ x \in {4, 5, 6, 7, 9} /\ (Last(statesStack) = 0 => x # 9)
      /\ x = 4 => token.type = "NUMBER"
      /\ x = 7 <=> token.type = "TOKEN_TYPE_7"
      /\ x = 9 <=> token.type = "TOKEN_TYPE_8"
  BY <1>4 DEF Pushed, InnerTokens
<1>6. /\ Stacked(statesStack') /\ Len(statesStack') = Len(statesStack) + 1
      /\ Last(statesStack') = x /\ OfTokens(statesStack') = OfTokens(statesStack) + 1
      /\ Opened(statesStack') = Opened(statesStack) + (IF x = 7 THEN 1 ELSE 0)
                                                    - (IF x = 9 THEN 1 ELSE 0)
  <2>1. statesStack' = Append(statesStack, x)
    BY <1>1, <1>4
  <2>2. Stacked(statesStack) /\ x \in {4, 5, 6, 7, 9} /\ Last(statesStack) \in {0, 8}
        /\ (Last(statesStack) = 0 => x # 9)
    BY <1>2, <1>4, <1>5
  <2>3. IsPushed(statesStack', statesStack, x)
    BY <2>1, <2>2, StateIsPushed
  <2> QED BY <2>3 DEF IsPushed
<1>7. Nested(statesStack', Shifted')
  <2>1. Shifted' = read
    BY <1>1 DEF Shifted
  <2>2. (Item(token) = Open <=> x = 7) /\ (Item(token) = Close <=> x = 9)
    BY <1>3, <1>5, ItemIs
  <2>3. /\ One(Item(token), {Open}) = IF x = 7 THEN 1 ELSE 0
        /\ One(Item(token), {Close}) = IF x = 9 THEN 1 ELSE 0
    BY <2>2 DEF One
  <2>4. Opened(statesStack') = Opened(statesStack) + One(Item(token), {Open})
                                                   - One(Item(token), {Close})
    BY <1>6, <2>3
  <2>5. Last(statesStack') # 0
    BY <1>5, <1>6
  <2> QED BY <1>2, <1>3, <1>4, <1>6, <2>1, <2>4, <2>5, NestedMore
<1>8. /\ tokensStack' \in Seq(Range(tokensStack')) /\ tokensStack' # <<>>
      /\ Len(tokensStack') = Len(tokensStack) + 1 /\ Last(tokensStack') = token.text
  BY <1>1, <1>2, Put
<1>9. Agreed(statesStack', tokensStack', valuesStack')
  <2> PICK a, b, c, d : a = Len(tokensStack) /\ b = Len(valuesStack)
                        /\ c = OfTokens(statesStack) /\ d = Len(statesStack)
    OBVIOUS
  <2>1. a \in Nat /\ d \in Nat /\ a = c /\ b = d - 1 - c
    BY <1>2, StackTop DEF Agreed
  <2>2. /\ Len(tokensStack') = a + 1 /\ Len(valuesStack') = b
        /\ OfTokens(statesStack') = c + 1 /\ Len(statesStack') = d + 1
    BY <1>1, <1>6, <1>8
  <2>3. c \in Nat /\ b = (d + 1) - 1 - (c + 1)
    BY <2>1
  <2>4. /\ Len(tokensStack') = OfTokens(statesStack')
        /\ Len(valuesStack') = Len(statesStack') - 1 - OfTokens(statesStack')
    BY <2>1, <2>2, <2>3
  <2> QED BY <2>4 DEF Agreed
<1>10. NumberOK'
  <2>1. Shifted' = read /\ Last(read) = token
    BY <1>1 DEF Shifted, TokensOK
  <2> QED BY <1>5, <1>6, <1>8, <2>1 DEF NumberOK
<1>11. valuesStack' \in Seq(Range(valuesStack'))
  BY <1>1, <1>2
<1> QED BY <1>6, <1>7, <1>8, <1>9, <1>10, <1>11, StacksBecome

\* A reduction puts one expression for the symbols it replaces.
InStep(more, less) ==
  /\ more \in Int /\ less \in Int /\ Became(more, less)
  /\ tokensStack' \in Seq(Range(tokensStack'))
  /\ valuesStack' \in Seq(Range(valuesStack'))
  /\ Len(tokensStack') = Len(tokensStack) - less
  /\ Len(valuesStack') = Len(valuesStack) + more + less

LEMMA ReduceStacks ==
  ASSUME TokensOK, StacksOK, status = "parsing", status' = "parsing", read' = read,
         Last(statesStack) # 0, NEW m, NEW l, InStep(m, l)
  PROVE  StacksOK'
<1> PICK more \in Int, less \in Int :
      /\ Became(more, less)
      /\ tokensStack' \in Seq(Range(tokensStack'))
      /\ valuesStack' \in Seq(Range(valuesStack'))
      /\ Len(tokensStack') = Len(tokensStack) - less
      /\ Len(valuesStack') = Len(valuesStack) + more + less
  BY DEF InStep
<1>1. /\ Stacked(statesStack) /\ Nested(statesStack, Shifted)
      /\ Agreed(statesStack, tokensStack, valuesStack)
      /\ tokensStack \in Seq(Range(tokensStack))
  BY StacksAre
<1>2. /\ Stacked(statesStack') /\ Last(statesStack') \in {1, 2, 3, 8, 10}
      /\ Len(statesStack') = Len(statesStack) + more
      /\ OfTokens(statesStack') = OfTokens(statesStack) - less
      /\ Opened(statesStack') = Opened(statesStack)
  BY DEF Became
<1>3. Shifted' = Shifted
  BY DEF Shifted
<1>4. statesStack # <<0>> /\ statesStack' # <<0>>
  <2>1. /\ Last(statesStack) = 0 <=> statesStack = <<0>>
        /\ Last(statesStack') = 0 <=> statesStack' = <<0>>
    BY <1>1, <1>2, OpenedIs, Zenon
  <2>2. Last(statesStack') # 0
    BY <1>2
  <2> QED BY <2>1, <2>2, Zenon
<1>5. Nested(statesStack', Shifted')
  BY <1>1, <1>2, <1>3, <1>4 DEF Nested
<1>6. Agreed(statesStack', tokensStack', valuesStack')
  <2>1. /\ Len(tokensStack) \in Int /\ Len(statesStack) \in Int
        /\ OfTokens(statesStack) = Len(tokensStack)
        /\ Len(valuesStack) = Len(statesStack) - 1 - Len(tokensStack)
    BY <1>1, StackTop DEF Agreed
  <2> PICK a \in Int, d \in Int : a = Len(tokensStack) /\ d = Len(statesStack)
    BY <2>1
  <2>2. d - 1 - a + more + less = (d + more) - 1 - (a - less)
    OBVIOUS
  <2>3. /\ Len(tokensStack') = a - less
        /\ OfTokens(statesStack') = a - less /\ Len(statesStack') = d + more
    BY <1>2, <2>1
  <2>4. Len(valuesStack') = d - 1 - a + more + less
    BY <2>1
  <2>5. Len(valuesStack') = (d + more) - 1 - (a - less)
    BY <2>2, <2>4, Zenon
  <2> QED BY <2>3, <2>5, Zenon DEF Agreed
<1>7. NumberOK'
  BY <1>2 DEF NumberOK
<1> QED BY <1>2, <1>5, <1>6, <1>7, StacksBecome

LEMMA OfTokensIs ==
  ASSUME NEW st, Stacked(st)
  PROVE  OfTokens(st) \in Nat /\ Len(st) \in Nat
<1> PICK n \in Nat : n = Len(st)
  BY StackTop
<1>1. Count(st, n, TokenStates) \in 0 .. n
  BY CountNext
<1> QED BY <1>1 DEF OfTokens

\* What is common to the reductions.
LEMMA ReducingStacks ==
  ASSUME StacksOK, NEW p \in 1 .. 8, Reducing(p)
  PROVE  /\ status = "parsing" /\ Stacked(statesStack) /\ Last(statesStack) # 0
         /\ tokensStack \in Seq(Range(tokensStack))
         /\ valuesStack \in Seq(Range(valuesStack))
         /\ Agreed(statesStack, tokensStack, valuesStack)
<1>1. status = "parsing"
  BY DEF Reducing, Doing
<1>2. /\ Stacked(statesStack) /\ tokensStack \in Seq(Range(tokensStack))
      /\ valuesStack \in Seq(Range(valuesStack))
      /\ Agreed(statesStack, tokensStack, valuesStack)
  BY <1>1, StacksAre
<1>3. Last(statesStack) # 0
  BY <1>2, ReducesWhere DEF Stacked
<1> QED BY <1>1, <1>2, <1>3

LEMMA ReduceExpStacks ==
  ASSUME TokensOK, StacksOK, ReduceExp
  PROVE  StacksOK' /\ status = "parsing" /\ status' = "parsing"
<1>1. PICK p \in {1, 2} : Reducing(p) /\ Reduced(p)
  BY DEF ReduceExp
<1>2. /\ tokensStack' = tokensStack /\ valuesStack' = valuesStack
      /\ status' = status /\ read' = read
  BY DEF ReduceExp, KeepAll, scanner
<1>3. /\ status = "parsing" /\ Stacked(statesStack) /\ Last(statesStack) # 0
      /\ tokensStack \in Seq(Range(tokensStack))
      /\ valuesStack \in Seq(Range(valuesStack))
      /\ Agreed(statesStack, tokensStack, valuesStack)
  BY <1>1, ReducingStacks
<1>4. Became(0, 0)
  <2>1. p \in 1 .. 5 /\ p < 3
    OBVIOUS
  <2>2. Became(0, IF p < 3 THEN 0 ELSE 1)
    BY <1>1, <1>3, <2>1, ReducedTop
  <2> QED BY <2>1, <2>2
<1>5. Len(tokensStack') = Len(tokensStack) - 0 /\ Len(valuesStack') = Len(valuesStack) + 0 + 0
  <2>1. Len(tokensStack) \in Nat /\ Len(valuesStack) \in Nat
    BY <1>3, LenProperties
  <2> QED BY <1>2, <2>1
<1>6. tokensStack' \in Seq(Range(tokensStack')) /\ valuesStack' \in Seq(Range(valuesStack'))
  BY <1>2, <1>3
<1>7. status' = "parsing"
  BY <1>2, <1>3
<1>8. InStep(0, 0)
  BY <1>4, <1>5, <1>6 DEF InStep
<1> QED BY <1>2, <1>3, <1>7, <1>8, ReduceStacks

\* A value is made of the token on top.
LEMMA AtomStacks ==
  ASSUME TokensOK, StacksOK, NEW p \in 3 .. 5, Reducing(p), Reduced(p), NEW v,
         tokensStack' = Front(tokensStack), valuesStack' = Append(valuesStack, v),
         status' = status, read' = read
  PROVE  StacksOK' /\ status = "parsing" /\ status' = "parsing"
<1>1. p \in 1 .. 8 /\ p \in 1 .. 5
  OBVIOUS
<1>2. /\ status = "parsing" /\ Stacked(statesStack) /\ Last(statesStack) # 0
      /\ tokensStack \in Seq(Range(tokensStack))
      /\ valuesStack \in Seq(Range(valuesStack))
      /\ Agreed(statesStack, tokensStack, valuesStack)
  BY <1>1, ReducingStacks
<1>3. Became(0, 1)
  <2>1. ~ (p < 3)
    OBVIOUS
  <2>2. Became(0, IF p < 3 THEN 0 ELSE 1)
    BY <1>1, <1>2, ReducedTop
  <2> QED BY <2>1, <2>2
<1>4. 1 \in 0 .. Len(tokensStack)
  <2>1. OfTokens(statesStack') \in Nat /\ OfTokens(statesStack) \in Nat
    BY <1>2, <1>3, OfTokensIs DEF Became
  <2>2. OfTokens(statesStack') = OfTokens(statesStack) - 1
    BY <1>3 DEF Became
  <2>3. Len(tokensStack) = OfTokens(statesStack)
    BY <1>2 DEF Agreed
  <2> QED BY <2>1, <2>2, <2>3
<1>5. tokensStack' \in Seq(Range(tokensStack')) /\ Len(tokensStack') = Len(tokensStack) - 1
  <2>1. tokensStack' = Below(tokensStack, 1)
    BY DEF Front, Below
  <2> QED BY <1>2, <1>4, <2>1, Popped
<1>6. valuesStack' \in Seq(Range(valuesStack'))
      /\ Len(valuesStack') = Len(valuesStack) + 0 + 1
  <2>1. valuesStack' \in Seq(Range(valuesStack')) /\ Len(valuesStack') = Len(valuesStack) + 1
    BY <1>2, Put
  <2>2. Len(valuesStack) \in Nat
    BY <1>2, LenProperties
  <2> QED BY <2>1, <2>2
<1>7. status' = "parsing"
  BY <1>2
<1>8. InStep(0, 1)
  BY <1>3, <1>5, <1>6 DEF InStep
<1> QED BY <1>2, <1>7, <1>8, ReduceStacks

LEMMA ReduceNumberStacks ==
  ASSUME TokensOK, StacksOK, ReduceNumber, status' # "thrown"
  PROVE  StacksOK' /\ status = "parsing" /\ status' = "parsing"
<1> PICK number : number = stoi(Last(tokensStack))
  OBVIOUS
<1>1. /\ Reducing(3) /\ tokensStack' = Front(tokensStack)
      /\ IF number = OutOfRange THEN Throw(Nowhere)
         ELSE /\ Reduced(3) /\ valuesStack' = Append(valuesStack, Num(number))
              /\ KeepAll
  BY DEF ReduceNumber
<1>2. /\ Reduced(3) /\ valuesStack' = Append(valuesStack, Num(number))
      /\ status' = status /\ read' = read
  BY <1>1 DEF Throw, KeepAll, scanner
<1>3. 3 \in 3 .. 5
  OBVIOUS
<1> QED BY <1>1, <1>2, <1>3, AtomStacks

LEMMA ReduceAtomStacks ==
  ASSUME TokensOK, StacksOK, ReduceAtom
  PROVE  StacksOK' /\ status = "parsing" /\ status' = "parsing"
<1>1. PICK p \in {4, 5} : Reducing(p) /\ Reduced(p)
  BY DEF ReduceAtom
<1>2. /\ tokensStack' = Front(tokensStack)
      /\ valuesStack' = Append(valuesStack, StringOrSymbol(Last(tokensStack)))
      /\ status' = status /\ read' = read
  BY DEF ReduceAtom, KeepAll, scanner
<1>3. p \in 3 .. 5
  OBVIOUS
<1> QED BY <1>1, <1>2, <1>3, AtomStacks

LEMMA ReduceListStacks ==
  ASSUME TokensOK, StacksOK, ReduceList
  PROVE  StacksOK' /\ status = "parsing" /\ status' = "parsing"
<1>1. /\ Reducing(6) /\ Reduced(6) /\ tokensStack' = Below(tokensStack, 2)
      /\ valuesStack' = valuesStack /\ status' = status /\ read' = read
  BY DEF ReduceList, KeepAll, scanner
<1>2. /\ status = "parsing" /\ Stacked(statesStack) /\ Last(statesStack) # 0
      /\ tokensStack \in Seq(Range(tokensStack))
      /\ valuesStack \in Seq(Range(valuesStack))
      /\ Agreed(statesStack, tokensStack, valuesStack)
  <2>1. 6 \in 1 .. 8
    OBVIOUS
  <2> QED BY <1>1, <2>1, ReducingStacks
<1>3. Became(-2, 2) /\ OfTokens(statesStack) >= 2
  BY <1>1, <1>2, ReducedList
<1>4. 2 \in 0 .. Len(tokensStack)
  <2>1. Len(tokensStack) = OfTokens(statesStack) /\ OfTokens(statesStack) \in Nat
    BY <1>2, OfTokensIs DEF Agreed
  <2> QED BY <1>3, <2>1
<1>5. tokensStack' \in Seq(Range(tokensStack')) /\ Len(tokensStack') = Len(tokensStack) - 2
  BY <1>1, <1>2, <1>4, Popped
<1>6. valuesStack' \in Seq(Range(valuesStack'))
      /\ Len(valuesStack') = Len(valuesStack) + (-2) + 2
  <2>1. Len(valuesStack) \in Nat
    BY <1>2, LenProperties
  <2> QED BY <1>1, <1>2, <2>1
<1>7. status' = "parsing"
  BY <1>1, <1>2
<1>8. InStep(-2, 2)
  BY <1>3, <1>5, <1>6 DEF InStep
<1> QED BY <1>1, <1>2, <1>7, <1>8, ReduceStacks

LEMMA ReduceEmptyStacks ==
  ASSUME TokensOK, StacksOK, ReduceEmpty
  PROVE  StacksOK' /\ status = "parsing" /\ status' = "parsing"
<1>1. /\ Reducing(7) /\ Reduced(7) /\ tokensStack' = tokensStack
      /\ valuesStack' = Append(valuesStack, List(<<>>))
      /\ status' = status /\ read' = read
  BY DEF ReduceEmpty, KeepAll, scanner
<1>2. /\ status = "parsing" /\ Stacked(statesStack) /\ Last(statesStack) # 0
      /\ tokensStack \in Seq(Range(tokensStack))
      /\ valuesStack \in Seq(Range(valuesStack))
      /\ Agreed(statesStack, tokensStack, valuesStack)
  <2>1. 7 \in 1 .. 8
    OBVIOUS
  <2> QED BY <1>1, <2>1, ReducingStacks
<1>3. Became(1, 0)
  BY <1>1, <1>2, ReducedEmpty
<1>4. valuesStack' \in Seq(Range(valuesStack'))
      /\ Len(valuesStack') = Len(valuesStack) + 1 + 0
  <2>1. valuesStack' \in Seq(Range(valuesStack')) /\ Len(valuesStack') = Len(valuesStack) + 1
    BY <1>1, <1>2, Put
  <2>2. Len(valuesStack) \in Nat
    BY <1>2, LenProperties
  <2> QED BY <2>1, <2>2
<1>5. tokensStack' \in Seq(Range(tokensStack')) /\ Len(tokensStack') = Len(tokensStack) - 0
  <2>1. Len(tokensStack) \in Nat
    BY <1>2, LenProperties
  <2> QED BY <1>1, <1>2, <2>1
<1>6. status' = "parsing"
  BY <1>1, <1>2
<1>7. InStep(1, 0)
  BY <1>3, <1>4, <1>5 DEF InStep
<1> QED BY <1>1, <1>2, <1>6, <1>7, ReduceStacks

LEMMA ReduceEntryStacks ==
  ASSUME TokensOK, StacksOK, ReduceEntry
  PROVE  StacksOK' /\ status = "parsing" /\ status' = "parsing"
<1>1. /\ Reducing(8) /\ Reduced(8) /\ tokensStack' = tokensStack
      /\ status' = status /\ read' = read
  BY DEF ReduceEntry, KeepAll, scanner
<1>2. PICK v : valuesStack' = Append(Below(valuesStack, 2), v)
  BY DEF ReduceEntry
<1>3. /\ status = "parsing" /\ Stacked(statesStack) /\ Last(statesStack) # 0
      /\ tokensStack \in Seq(Range(tokensStack))
      /\ valuesStack \in Seq(Range(valuesStack))
      /\ Agreed(statesStack, tokensStack, valuesStack)
  <2>1. 8 \in 1 .. 8
    OBVIOUS
  <2> QED BY <1>1, <2>1, ReducingStacks
<1>4. Became(-1, 0) /\ Len(statesStack) - 1 - OfTokens(statesStack) >= 2
  BY <1>1, <1>3, ReducedEntry
<1>5. Len(valuesStack) \in Nat /\ 2 \in 0 .. Len(valuesStack)
  <2>1. Len(valuesStack) = Len(statesStack) - 1 - OfTokens(statesStack)
    BY <1>3 DEF Agreed
  <2>2. Len(valuesStack) \in Nat
    BY <1>3, LenProperties
  <2> QED BY <1>4, <2>1, <2>2
<1>6. valuesStack' \in Seq(Range(valuesStack'))
      /\ Len(valuesStack') = Len(valuesStack) + (-1) + 0
  <2> PICK popped : popped = Below(valuesStack, 2)
    OBVIOUS
  <2>1. popped \in Seq(Range(valuesStack)) /\ Len(popped) = Len(valuesStack) - 2
    BY <1>3, <1>5, Popped
  <2>2. valuesStack' \in Seq(Range(valuesStack')) /\ Len(valuesStack') = Len(popped) + 1
    <3> PICK S : popped \in Seq(S)
      BY <2>1
    <3>1. valuesStack' = Append(popped, v)
      BY <1>2
    <3> QED BY <3>1, Put
  <2> QED BY <1>5, <2>1, <2>2
<1>7. tokensStack' \in Seq(Range(tokensStack')) /\ Len(tokensStack') = Len(tokensStack) - 0
  <2>1. Len(tokensStack) \in Nat
    BY <1>3, LenProperties
  <2> QED BY <1>1, <1>3, <2>1
<1>8. status' = "parsing"
  BY <1>1, <1>3
<1>9. InStep(-1, 0)
  BY <1>4, <1>6, <1>7 DEF InStep
<1> QED BY <1>1, <1>3, <1>8, <1>9, ReduceStacks

-----------------------------------------------------------------------------
(***************************************************************************)
(* The ends of parse().                                                    *)
(***************************************************************************)
LEMMA TopIs ==
  ASSUME NEW st, Stacked(st)
  PROVE  Last(st) \in 0 .. 10
<1> PICK n : n = Len(st)
  OBVIOUS
<1>1. st[n] \in 0 .. 10 /\ Last(st) = st[n]
  BY StackTop
<1> QED BY <1>1

LEMMA AcceptsWhere ==
  ASSUME Stacked(statesStack), Doing("Accept")
  PROVE  Last(statesStack) = 1 /\ token.type = "EOF"
<1> PICK s : s = Last(statesStack)
  OBVIOUS
<1>1. s \in 0 .. 10
  BY TopIs
<1>2. token.type \in DOMAIN table[s] /\ table[s][token.type].type = "Accept"
  BY DEF Doing, Row
<1>3. \A a, v : Entry(a, v).type = a
  BY DEF Entry
<1> QED BY <1>1, <1>2, <1>3, Rows

LEMMA FailsWhere ==
  ASSUME Stacked(statesStack), token.type \in AnyToken, token.type \notin DOMAIN Row
  PROVE  \/ Last(statesStack) = 0 /\ token.type \in {"TOKEN_TYPE_8", "EOF"}
         \/ Last(statesStack) = 1 /\ token.type # "EOF"
         \/ Last(statesStack) \in {7, 8, 10} /\ token.type = "EOF"
<1> PICK s, t : s = Last(statesStack) /\ t = token.type
  OBVIOUS
<1>1. s \in 0 .. 10
  BY TopIs
<1>2. t \notin DOMAIN table[s]
  BY DEF Row
<1>3. /\ s = 0 => t \notin InnerTokens \ {"TOKEN_TYPE_8"}
      /\ s = 1 => t # "EOF"
      /\ s \in 2 .. 6 \cup {9} => t \notin AnyToken
      /\ s \in {7, 8, 10} => t \notin InnerTokens
  BY <1>1, <1>2, Rows
<1>4. t \in AnyToken /\ (t \in InnerTokens \/ t = "EOF")
  BY DEF AnyToken
<1> QED BY <1>1, <1>3, <1>4

\* Accept finds the stack as it should be, and everything read.
LEMMA AcceptAccepts ==
  ASSUME PInv, Accept
  PROVE  /\ status = "parsing" /\ status' = "accepted" /\ report' = report
         /\ statesStack' = <<>> /\ scanner' = scanner
         /\ AcceptsExpressions'
<1>1. status = "parsing" /\ Doing("Accept") /\ scanner' = scanner /\ statesStack' = <<>>
  BY DEF Accept, Doing
<1>2. TokensOK /\ CursorOK /\ StacksOK
  BY <1>1 DEF PInv
<1>3. Stacked(statesStack) /\ Nested(statesStack, Shifted)
  BY <1>1, <1>2, StacksAre
<1>4. Last(statesStack) = 1 /\ token.type = "EOF"
  BY <1>1, <1>3, AcceptsWhere
<1>5. statesStack = <<0, 1>>
  BY <1>3, <1>4, OpenedIs
<1>6. ~ hasMoreTokens
  <2>1. cursor = Len(str) + 1 /\ str \in Seq(Range(str))
    BY <1>2, <1>4 DEF CursorOK
  <2>2. Len(str) \in Nat
    BY <2>1, LenProperties
  <2> QED BY <2>1, <2>2 DEF hasMoreTokens
<1>7. status' = "accepted" /\ report' = report
  BY <1>5, <1>6 DEF Accept
<1>8. /\ Shifted = Front(read) /\ Shifted \in Seq(Tokens)
      /\ \A i \in 1 .. Len(Shifted) : Shifted[i].type # "EOF"
  BY <1>1, <1>2, Parsed
<1>9. IsExpression(Items(Shifted))
  BY <1>3, <1>4, <1>8, NestedBegins
<1>10. IsExpression(Items(Front(read')))
  BY <1>1, <1>8, <1>9 DEF scanner
<1> QED BY <1>1, <1>7, <1>10 DEF AcceptsExpressions

\* What was shifted, with the token that has no entry, begins no expression.
LEMMA UnexpectedIsWrong ==
  ASSUME TokensOK, StacksOK, UnexpectedToken
  PROVE  ~ IsBeginning(Items(read))
<1>1. status = "parsing" /\ token.type \notin DOMAIN Row
  BY DEF UnexpectedToken
<1>2. Stacked(statesStack) /\ Nested(statesStack, Shifted)
  BY <1>1, StacksAre
<1>3. /\ Shifted \in Seq(Tokens) /\ token.type \in AnyToken /\ token \in Tokens
      /\ Len(read) = Len(Shifted) + 1 /\ Len(Shifted) \in Nat /\ read[Len(read)] = token
      /\ \A i \in 1 .. Len(Shifted) : read[i] = Shifted[i]
  BY <1>1, Parsed
<1>4. read \in Seq(Tokens)
  BY DEF TokensOK
<1> PICK n \in Nat : n = Len(Shifted)
  BY <1>3
<1> PICK items, shifted : items = Items(read) /\ shifted = Items(Shifted)
  OBVIOUS
<1>5. /\ items \in Seq(Range(items)) /\ Len(items) = n + 1
      /\ items[n + 1] = Item(token)
      /\ \A i \in 1 .. n : items[i] = shifted[i]
  <2>1. /\ items \in Seq(Range(items)) /\ Len(items) = n + 1
        /\ \A i \in 1 .. n + 1 : items[i] = Item(read[i])
    BY <1>3, <1>4, ItemsAre
  <2>2. \A i \in 1 .. n : shifted[i] = Item(Shifted[i])
    BY <1>3, ItemsAre
  <2> QED BY <1>3, <2>1, <2>2
<1>6. Depth(items, n) = Opened(statesStack)
  <2>1. Depth(items, n) = Depth(shifted, n)
    BY <1>5, DepthSame
  <2> QED BY <1>2, <2>1 DEF Nested
<1>7. n = 0 <=> Last(statesStack) = 0
  <2>1. n = 0 <=> Shifted = <<>>
    BY <1>3, EmptySeq
  <2>2. Shifted = <<>> <=> statesStack = <<0>>
    BY <1>2 DEF Nested
  <2>3. Last(statesStack) = 0 <=> statesStack = <<0>>
    BY <1>2, OpenedIs
  <2> QED BY <2>1, <2>2, <2>3
<1>8. /\ Item(token) = Close <=> token.type = "TOKEN_TYPE_8"
      /\ Item(token) = End <=> token.type = "EOF"
  BY <1>3, ItemIs
<1>9. \/ Last(statesStack) = 0 /\ token.type \in {"TOKEN_TYPE_8", "EOF"}
      \/ Last(statesStack) = 1 /\ token.type # "EOF"
      \/ Last(statesStack) \in {7, 8, 10} /\ token.type = "EOF"
  BY <1>1, <1>2, <1>3, FailsWhere
<1>10. /\ Last(statesStack) = 1 => Opened(statesStack) = 0
       /\ Last(statesStack) \in {7, 8, 10} => Opened(statesStack) > 0
  BY <1>2, OpenedIs
<1>11. \/ n = 0 /\ items[n + 1] \in {Close, End}
       \/ n > 0 /\ Depth(items, n) = 0 /\ items[n + 1] # End
       \/ n > 0 /\ Depth(items, n) > 0 /\ items[n + 1] = End
  <2>1. CASE Last(statesStack) = 0 /\ token.type \in {"TOKEN_TYPE_8", "EOF"}
    BY <1>5, <1>7, <1>8, <2>1
  <2>2. CASE Last(statesStack) = 1 /\ token.type # "EOF"
    BY <1>5, <1>6, <1>7, <1>8, <1>10, <2>2
  <2>3. CASE Last(statesStack) \in {7, 8, 10} /\ token.type = "EOF"
    BY <1>5, <1>6, <1>7, <1>8, <1>10, <2>3
  <2> QED BY <1>9, <2>1, <2>2, <2>3
<1> QED BY <1>5, <1>11, NotBeginning

\* The text on top of the stack is that of a number that was read.
LEMMA NumberIsRead ==
  ASSUME TokensOK, StacksOK, ReduceNumber, status' = "thrown"
  PROVE  /\ status = "parsing" /\ report' = Nowhere /\ scanner' = scanner
         /\ statesStack' = Below(statesStack, 1)
         /\ \E i \in DOMAIN read : Item(read[i]) = Num(OutOfRange)
<1>1. Reducing(3) /\ status = "parsing" /\ status' # status
  BY DEF ReduceNumber, Reducing, Doing
<1>2. /\ stoi(Last(tokensStack)) = OutOfRange
      /\ statesStack' = Below(statesStack, 1) /\ report' = Nowhere /\ scanner' = scanner
  <2> PICK number : number = stoi(Last(tokensStack))
    OBVIOUS
  <2>1. IF number = OutOfRange
        THEN /\ statesStack' = Below(statesStack, 1)
             /\ Throw(Nowhere)
             /\ scanner' = scanner
        ELSE status' = status
    BY DEF ReduceNumber, KeepAll
  <2> QED BY <1>1, <2>1 DEF Throw
<1>3. Stacked(statesStack) /\ Nested(statesStack, Shifted) /\ NumberOK
  BY <1>1, StacksAre
<1>4. Last(statesStack) = 4
  <2>1. 3 \in 1 .. 5
    OBVIOUS
  <2> QED BY <1>1, <1>3, <2>1, ReducesWhere DEF Stacked
<1>5. Last(Shifted).type = "NUMBER" /\ Last(tokensStack) = Last(Shifted).text
  BY <1>3, <1>4 DEF NumberOK
<1>6. /\ Shifted \in Seq(Tokens) /\ Len(read) = Len(Shifted) + 1 /\ Len(Shifted) \in Nat
      /\ \A i \in 1 .. Len(Shifted) : read[i] = Shifted[i]
  BY <1>1, Parsed
<1>7. Len(Shifted) > 0
  <2>1. statesStack # <<0>>
    BY <1>3, <1>4, OpenedIs
  <2>2. Shifted # <<>>
    BY <1>3, <2>1 DEF Nested
  <2> QED BY <1>6, <2>2, EmptySeq
<1> PICK i : i = Len(Shifted)
  OBVIOUS
<1>8. read[i] = Last(Shifted) /\ i \in DOMAIN read
  <2>1. read \in Seq(Tokens)
    BY DEF TokensOK
  <2>2. DOMAIN read = 1 .. Len(read)
    BY <2>1
  <2> QED BY <1>6, <1>7, <2>2 DEF Last
<1>9. Item(read[i]) = Num(OutOfRange)
  <2>1. read[i].type = "NUMBER" /\ read[i].text = Last(tokensStack)
    BY <1>5, <1>8
  <2>2. Item(read[i]) = Num(stoi(read[i].text))
    BY <2>1, ItemIs DEF AnyToken, InnerTokens
  <2> QED BY <1>2, <2>1, <2>2
<1> QED BY <1>1, <1>2, <1>8, <1>9

-----------------------------------------------------------------------------
(***************************************************************************)
(* The inductive invariant.                                                *)
(***************************************************************************)
LEMMA InitInv ==
  ASSUME Init
  PROVE  PInv
<1>1. /\ str \in Texts /\ cursor = 0 /\ line = 1 /\ lineBegin = 0
      /\ token = Token("NONE", <<>>, 0, Nowhere) /\ read = <<>>
      /\ status = "scanning" /\ report = Nowhere
      /\ statesStack = <<0>> /\ valuesStack = <<>> /\ tokensStack = <<>>
  BY DEF Init, TokenizerInit
<1>2. str \in Seq(Range(str))
  BY <1>1, TextsAreSequences
<1>3. Len(str) \in Nat
  BY <1>2, LenProperties
<1>4. token.type = "NONE"
  BY <1>1 DEF Token
<1>5. TypeOK
  <2>1. statesStack \in Seq(0 .. 10)
    BY <1>1
  <2> QED BY <1>1, <1>3, <1>4, <2>1 DEF TypeOK
<1>6. TokensOK
  <2>1. read \in Seq(Tokens) /\ DOMAIN read = {} /\ Len(read) = 0
    BY <1>1
  <2>2. SkipsOnlyComments
    BY <2>1 DEF SkipsOnlyComments
  <2>3. EndOf(Len(read)) = 0
    BY <2>1 DEF EndOf
  <2>4. AllIgnored(SubSeq(str, EndOf(Len(read)) + 1, cursor))
    <3> PICK piece : piece = SubSeq(str, 0 + 1, 0)
      OBVIOUS
    <3>1. 0 + 1 \in Nat \ {0} /\ 0 \in 0 .. Len(str)
      BY <1>3
    <3>2. piece \in Seq(Range(str)) /\ Len(piece) = 0
      BY <1>2, <3>1, PartOf
    <3>3. AllIgnored(piece)
      BY <3>2, NothingIgnored
    <3> QED BY <1>1, <2>3, <3>3
  <2>5. EndOf(Len(read)) <= cursor
    BY <1>1, <2>3
  <2> QED BY <1>1, <2>1, <2>2, <2>4, <2>5 DEF TokensOK
<1>7. CursorOK
  <2>1. LineEnds(0) = {}
    BY <1>2 DEF LineEnds
  <2>2. Cardinality(LineEnds(0)) = 0 /\ LineStart(0) = 0
    BY <2>1, FS_EmptySet DEF LineStart
  <2> QED BY <1>1, <1>2, <1>3, <1>4, <2>2 DEF CursorOK, InnerTokens
<1>8. Stacked(statesStack)
  <2>1. statesStack \in Seq(0 .. 10) /\ Len(statesStack) = 1 /\ statesStack[1] = 0
    BY <1>1
  <2> QED BY <1>1, <2>1 DEF Stacked
<1>9. Shifted = <<>>
  BY <1>1 DEF Shifted
<1>10. StacksOK
  <2>1. Opened(statesStack) = 0
    <3>1. Last(statesStack) = 0
      BY <1>1, <1>8, OpenedIs
    <3> QED BY <1>8, <3>1, OpenedIs
  <2>2. OfTokens(statesStack) = 0
    <3>1. Len(statesStack) = 1 /\ 1 \in 1 .. 1
      BY <1>1
    <3>2. Count(statesStack, 1, TokenStates) <= 1 - 1
      BY <1>8, <3>1, FewTokens
    <3>3. OfTokens(statesStack) \in Nat
      BY <1>8, OfTokensIs
    <3> QED BY <3>1, <3>2, <3>3 DEF OfTokens
  <2>3. StatesOK
    BY <1>8 DEF Stacked, StatesOK
  <2>4. NestingOK
    <3>1. OpenLists = 0
      BY <1>8, <2>1, TokenStatesAbove DEF OpenLists
    <3>2. Len(Shifted) = 0 /\ Depth(Items(Shifted), 0) = 0
      <4>1. 0 \in Nat
        OBVIOUS
      <4> QED BY <1>9, <4>1, DepthNext
    <3> QED BY <1>1, <1>9, <3>1, <3>2 DEF NestingOK
  <2>5. StacksAgree
    <3>1. Cardinality({i \in 2 .. Len(statesStack) : statesStack[i] \in TokenStates}) = 0
      BY <1>8, <2>2, TokenStatesAbove
    <3>2. Len(statesStack) = 1 /\ Len(tokensStack) = 0 /\ Len(valuesStack) = 0
      BY <1>1
    <3> QED BY <3>1, <3>2 DEF StacksAgree
  <2>6. NumberOK
    <3>1. Last(statesStack) = 0
      BY <1>1, <1>8, OpenedIs
    <3> QED BY <3>1 DEF NumberOK
  <2>7. tokensStack \in Seq(Range(tokensStack)) /\ valuesStack \in Seq(Range(valuesStack))
    BY <1>1
  <2> QED BY <2>3, <2>4, <2>5, <2>6, <2>7 DEF StacksOK
<1>11. AcceptsExpressions
  BY <1>1 DEF AcceptsExpressions
<1> QED BY <1>5, <1>6, <1>7, <1>10, <1>11 DEF PInv

\* What the scanner keeps, type correctness reads off.
LEMMA TypeKept ==
  ASSUME str' = str, CursorOK', TokensOK', status' \in {"scanning", "parsing", "accepted", "thrown"},
         statesStack' \in Seq(0 .. 10), token'.type \in AnyToken \cup {"NONE"}
  PROVE  TypeOK'
<1>1. /\ str \in Seq(Range(str)) /\ cursor' \in 0 .. Len(str) + 1
      /\ line' = 1 + Cardinality(LineEnds(cursor)') /\ lineBegin' = LineStart(cursor)'
  BY DEF CursorOK
<1>2. LineEnds(cursor)' = LineEnds(cursor') /\ LineStart(cursor)' = LineStart(cursor')
  BY TextStays DEF LineEnds, LineStart
<1>3. Len(str) \in Nat
  BY <1>1, LenProperties
<1>4. Cardinality(LineEnds(cursor')) \in 0 .. Len(str) /\ LineStart(cursor') \in 0 .. cursor'
  BY <1>1, LinesBounded
<1>5. line' \in 1 .. Len(str) + 1 /\ lineBegin' \in 0 .. cursor'
  BY <1>1, <1>2, <1>3, <1>4
<1> QED BY <1>1, <1>5 DEF TypeOK

\* While parse() has the token, the text stays as it is.
LEMMA CursorStays ==
  ASSUME CursorOK, UNCHANGED scanner,
         status' = "scanning" => token.type # "EOF",
         status' # "thrown" => report' = Nowhere
  PROVE  CursorOK'
<1>1. /\ str' = str /\ cursor' = cursor /\ line' = line /\ lineBegin' = lineBegin
      /\ token' = token
  BY DEF scanner
<1>2. /\ LineEnds(cursor)' = LineEnds(cursor) /\ LineStart(cursor)' = LineStart(cursor)
      /\ TruePlace(token.start)' = TruePlace(token.start)
  BY <1>1, TextStays
<1> QED BY <1>1, <1>2 DEF CursorOK

LEMMA ShiftTokens ==
  ASSUME TokensOK, CursorOK, StacksOK, Shift
  PROVE  TokensOK' /\ token.type \in InnerTokens
<1>1. /\ status = "parsing" /\ Doing("Shift") /\ status' = "scanning"
      /\ str' = str /\ cursor' = cursor /\ token' = token /\ read' = read
  BY DEF Shift, Doing, scanner
<1>2. token.type \in InnerTokens /\ token.type # "EOF"
  <2>1. Stacked(statesStack)
    BY <1>1, StacksAre
  <2> QED BY <1>1, <2>1, ShiftsWhere DEF Stacked, InnerTokens
<1>3. /\ read \in Seq(Tokens) /\ SkipsOnlyComments /\ cursor = EndOf(Len(read))
      /\ \A i \in DOMAIN read : read[i].type = "EOF" => i = Len(read)
      /\ read[Len(read)] = token
  BY <1>1, <1>2 DEF TokensOK, Last
<1>4. \A i \in DOMAIN read : read[i].type # "EOF"
  BY <1>2, <1>3
<1>5. Tokens' = Tokens /\ EndOf(Len(read))' = cursor /\ SkipsOnlyComments'
  <2>1. EndOf(Len(read))' = EndOf(Len(read))
    BY <1>1 DEF EndOf
  <2>2. SkipsOnlyComments'
    BY <1>1, <1>3, SkipsStay
  <2> QED BY <1>1, <1>3, <2>1, <2>2 DEF Tokens
<1>6. AllIgnored(SubSeq(str, cursor + 1, cursor))
  <2>1. str \in Seq(Range(str)) /\ cursor \in 0 .. Len(str)
    <3>1. str \in Seq(Range(str)) /\ cursor \in 0 .. Len(str) + 1 /\ cursor # Len(str) + 1
      BY <1>2 DEF CursorOK
    <3>2. Len(str) \in Nat
      BY <3>1, LenProperties
    <3> QED BY <3>1, <3>2
  <2> PICK piece : piece = SubSeq(str, cursor + 1, cursor)
    OBVIOUS
  <2>2. cursor + 1 \in Nat \ {0} /\ ~ (cursor + 1 <= cursor)
    BY <2>1
  <2>3. piece \in Seq(Range(str)) /\ Len(piece) = 0
    BY <2>1, <2>2, PartOf
  <2>4. AllIgnored(piece)
    BY <2>3, NothingIgnored
  <2> QED BY <2>4
<1>7. EndOf(Len(read))' <= cursor'
  <2>1. cursor \in Int
    BY DEF CursorOK
  <2> QED BY <1>1, <1>5, <2>1
<1>8. AllIgnored(SubSeq(str, EndOf(Len(read)) + 1, cursor))'
  <2>1. SubSeq(str, EndOf(Len(read)) + 1, cursor)' = SubSeq(str, cursor + 1, cursor)
    BY <1>1, <1>5
  <2> QED BY <1>6, <2>1
<1> QED BY <1>1, <1>2, <1>3, <1>4, <1>5, <1>7, <1>8 DEF TokensOK

\* One call of getNextToken().
LEMMA ScanKeeps ==
  ASSUME PInv, getNextToken, UNCHANGED stacks
  PROVE  PInv'
<1>1. status = "scanning" /\ TokensOK /\ CursorOK /\ StacksOK
  <2>1. status = "scanning"
    BY DEF getNextToken, Match, EndOfText, UnexpectedCharacter
  <2> QED BY <2>1 DEF PInv
<1>2. /\ TokensOK' /\ CursorOK' /\ str' = str
      /\ status' \in {"scanning", "parsing", "thrown"}
      /\ token'.type \in AnyToken \cup {"NONE"}
  <2>1. CASE Match
    <3>1. TokensOK' /\ CursorOK'
      BY <1>1, <2>1, MatchTokens, MatchCursor
    <3>2. PICK type, n : Matched(type, n)
      BY <1>1, <2>1, MatchMatches
    <3>3. str' = str /\ status' \in {"scanning", "parsing"}
      BY <1>1, <3>2 DEF Matched, Return
    <3>4. token'.type \in AnyToken \cup {"NONE"}
      <4>1. CASE type = "EMPTY"
        BY <3>2, <4>1 DEF Matched, PInv, TypeOK
      <4>2. CASE type # "EMPTY"
        BY <3>2, <4>2 DEF Matched, Return, Token, AnyToken
      <4> QED BY <4>1, <4>2
    <3> QED BY <3>1, <3>3, <3>4
  <2>2. CASE EndOfText
    <3>1. TokensOK' /\ CursorOK'
      BY <1>1, <2>2, EndTokens, EndCursor
    <3> QED BY <2>2, <3>1 DEF EndOfText, Return, Token, AnyToken
  <2>3. CASE UnexpectedCharacter
    <3>1. UNCHANGED scanner /\ status' = "thrown"
      BY <2>3 DEF UnexpectedCharacter, Throw
    <3>2. TokensOK'
      BY <1>1, <3>1, TokensStay DEF scanner
    <3>3. CursorOK'
      BY <1>1, <3>1, CursorStays
    <3> QED BY <3>1, <3>2, <3>3 DEF scanner, PInv, TypeOK
  <2> QED BY <2>1, <2>2, <2>3 DEF getNextToken
<1>3. TypeOK'
  <2>1. statesStack' \in Seq(0 .. 10)
    BY DEF stacks, PInv, TypeOK
  <2> QED BY <1>2, <2>1, TypeKept
<1>4. status' # "thrown" => StacksOK'
  BY <1>1, <1>2, ScanStacks
<1>5. AcceptsExpressions'
  BY <1>2 DEF AcceptsExpressions
<1> QED BY <1>2, <1>3, <1>4, <1>5 DEF PInv

\* A step of parse() that keeps the text and leaves the stacks in order.
LEMMA ParseKeeps ==
  ASSUME PInv, status = "parsing", UNCHANGED scanner,
         status' \in {"parsing", "accepted", "thrown"},
         status' # "thrown" => report' = report,
         status' = "parsing" => StacksOK',
         statesStack' \in Seq(0 .. 10), AcceptsExpressions'
  PROVE  PInv'
<1>1. TokensOK /\ CursorOK /\ token.type \in AnyToken \cup {"NONE"} /\ report = Nowhere
  BY DEF PInv, TypeOK, CursorOK
<1>2. str' = str /\ cursor' = cursor /\ token' = token /\ read' = read
  BY DEF scanner
<1>3. TokensOK'
  BY <1>1, <1>2, TokensStay
<1>4. CursorOK'
  BY <1>1, CursorStays
<1>5. TypeOK'
  BY <1>1, <1>2, <1>3, <1>4, TypeKept
<1> QED BY <1>3, <1>4, <1>5 DEF PInv

LEMMA ReducesInv ==
  ASSUME PInv, Reduce
  PROVE  PInv'
<1>1. status = "parsing"
  BY DEF Reduce, ReduceExp, ReduceNumber, ReduceAtom, ReduceList, ReduceEmpty, ReduceEntry,
         Reducing, Doing
<1>2. TokensOK /\ StacksOK
  BY <1>1 DEF PInv
<1>3. CASE ReduceNumber /\ status' = "thrown"
  <2>1. scanner' = scanner /\ statesStack' = Below(statesStack, 1)
    BY <1>2, <1>3, NumberIsRead
  <2>2. statesStack' \in Seq(0 .. 10)
    <3> PICK D : D = 0 .. 10
      OBVIOUS
    <3>1. Stacked(statesStack) /\ statesStack \in Seq(D)
      BY <1>1, <1>2, StacksAre DEF Stacked
    <3>2. 1 \in 0 .. Len(statesStack)
      BY <3>1, StackTop
    <3> QED BY <2>1, <3>1, <3>2, Popped
  <2>3. AcceptsExpressions'
    BY <1>3 DEF AcceptsExpressions
  <2> QED BY <1>1, <1>3, <2>1, <2>2, <2>3, ParseKeeps
<1>4. CASE ~ (ReduceNumber /\ status' = "thrown")
  <2>1. StacksOK' /\ status' = "parsing"
    <3>1. CASE ReduceExp
      BY <1>2, <3>1, ReduceExpStacks
    <3>2. CASE ReduceNumber
      BY <1>2, <1>4, <3>2, ReduceNumberStacks
    <3>3. CASE ReduceAtom
      BY <1>2, <3>3, ReduceAtomStacks
    <3>4. CASE ReduceList
      BY <1>2, <3>4, ReduceListStacks
    <3>5. CASE ReduceEmpty
      BY <1>2, <3>5, ReduceEmptyStacks
    <3>6. CASE ReduceEntry
      BY <1>2, <3>6, ReduceEntryStacks
    <3> QED BY <3>1, <3>2, <3>3, <3>4, <3>5, <3>6 DEF Reduce
  <2>2. scanner' = scanner /\ report' = report
    <3>1. CASE ReduceNumber
      <4> PICK number : number = stoi(Last(tokensStack))
        OBVIOUS
      <4>1. IF number = OutOfRange THEN Throw(Nowhere) ELSE KeepAll
        BY <3>1 DEF ReduceNumber
      <4> QED BY <2>1, <4>1 DEF Throw, KeepAll
    <3>2. CASE ~ ReduceNumber
      BY <3>2 DEF Reduce, ReduceExp, ReduceAtom, ReduceList, ReduceEmpty, ReduceEntry, KeepAll
    <3> QED BY <3>1, <3>2
  <2>3. AcceptsExpressions'
    BY <2>1 DEF AcceptsExpressions
  <2>4. statesStack' \in Seq(0 .. 10)
    BY <2>1 DEF StacksOK, StatesOK
  <2> QED BY <1>1, <2>1, <2>2, <2>3, <2>4, ParseKeeps
<1> QED BY <1>3, <1>4

LEMMA ShiftInv ==
  ASSUME PInv, Shift
  PROVE  PInv'
<1>1. status = "parsing" /\ status' = "scanning" /\ UNCHANGED scanner /\ report' = report
  BY DEF Shift, Doing
<1>2. TokensOK /\ CursorOK /\ StacksOK /\ report = Nowhere
  BY <1>1 DEF PInv, CursorOK
<1>3. TokensOK' /\ token.type \in InnerTokens
  BY <1>2, ShiftTokens
<1>4. CursorOK'
  BY <1>1, <1>2, <1>3, CursorStays DEF InnerTokens
<1>5. StacksOK'
  BY <1>2, ShiftStacks
<1>6. TypeOK'
  <2>1. str' = str /\ token'.type \in AnyToken \cup {"NONE"}
    BY <1>1, <1>3 DEF scanner, AnyToken
  <2>2. statesStack' \in Seq(0 .. 10)
    BY <1>5 DEF StacksOK, StatesOK
  <2> QED BY <1>1, <1>3, <1>4, <2>1, <2>2, TypeKept
<1>7. AcceptsExpressions'
  BY <1>1 DEF AcceptsExpressions
<1> QED BY <1>3, <1>4, <1>5, <1>6, <1>7 DEF PInv

LEMMA AcceptInv ==
  ASSUME PInv, Accept
  PROVE  PInv'
<1>1. /\ status = "parsing" /\ status' = "accepted" /\ report' = report
      /\ statesStack' = <<>> /\ scanner' = scanner
      /\ AcceptsExpressions'
  BY AcceptAccepts
<1>2. statesStack' \in Seq(0 .. 10)
  BY <1>1
<1> QED BY <1>1, <1>2, ParseKeeps

LEMMA UnexpectedInv ==
  ASSUME PInv, UnexpectedToken
  PROVE  PInv'
<1>1. status = "parsing" /\ status' = "thrown" /\ scanner' = scanner /\ stacks' = stacks
  BY DEF UnexpectedToken, Throw
<1>2. statesStack' \in Seq(0 .. 10)
  BY <1>1 DEF PInv, TypeOK, stacks
<1>3. AcceptsExpressions'
  BY <1>1 DEF AcceptsExpressions
<1> QED BY <1>1, <1>2, <1>3, ParseKeeps

LEMMA NothingHappens ==
  ASSUME PInv, UNCHANGED vars
  PROVE  PInv'
<1>1. /\ str' = str /\ cursor' = cursor /\ line' = line /\ lineBegin' = lineBegin
      /\ token' = token /\ read' = read /\ status' = status /\ report' = report
      /\ statesStack' = statesStack /\ valuesStack' = valuesStack
      /\ tokensStack' = tokensStack
  BY DEF vars, scanner, stacks
<1>2. TypeOK'
  BY <1>1 DEF PInv, TypeOK
<1>3. TokensOK'
  <2>1. CASE status = "scanning"
    <3>1. EndOf(Len(read))' = EndOf(Len(read)) /\ Tokens' = Tokens
      BY <1>1 DEF EndOf, Tokens
    <3>2. SkipsOnlyComments'
      BY <1>1, SkipsStay DEF PInv, TokensOK
    <3> QED BY <1>1, <2>1, <3>1, <3>2 DEF PInv, TokensOK
  <2>2. CASE status # "scanning"
    BY <1>1, <2>2, TokensStay DEF PInv
  <2> QED BY <2>1, <2>2
<1>4. CursorOK'
  <2>1. /\ LineEnds(cursor)' = LineEnds(cursor) /\ LineStart(cursor)' = LineStart(cursor)
        /\ TruePlace(token.start)' = TruePlace(token.start)
    BY <1>1, TextStays
  <2> QED BY <1>1, <2>1 DEF PInv, CursorOK
<1>5. status' \in {"scanning", "parsing"} => StacksOK'
  <2> SUFFICES ASSUME status \in {"scanning", "parsing"}
               PROVE  StacksOK'
    BY <1>1
  <2>1. StacksOK
    BY DEF PInv
  <2>2. Shifted' = Shifted
    BY <1>1 DEF Shifted
  <2>3. NumberOK'
    BY <1>1, <2>1, <2>2, StacksAre DEF NumberOK
  <2> QED BY <1>1, <2>1, <2>2, <2>3, StacksAre, StacksBecome
<1>6. AcceptsExpressions'
  BY <1>1 DEF PInv, AcceptsExpressions
<1> QED BY <1>2, <1>3, <1>4, <1>5, <1>6 DEF PInv

-----------------------------------------------------------------------------
(***************************************************************************)
(* The theorems.                                                           *)
(***************************************************************************)

\* The tokens in the text, the counters of lines, the states on the stack and
\* the parentheses still open hold together at every step of parse().
THEOREM Invariance == Spec => []PInv
<1>1. Init => PInv
  BY InitInv
<1>2. PInv /\ [Next]_vars => PInv'
  <2> SUFFICES ASSUME PInv, [Next]_vars
               PROVE  PInv'
    OBVIOUS
  <2>1. CASE getNextToken /\ UNCHANGED stacks
    BY <2>1, ScanKeeps
  <2>2. CASE Shift
    BY <2>2, ShiftInv
  <2>3. CASE Reduce
    BY <2>3, ReducesInv
  <2>4. CASE Accept
    BY <2>4, AcceptInv
  <2>5. CASE UnexpectedToken
    BY <2>5, UnexpectedInv
  <2>6. CASE UNCHANGED vars
    BY <2>6, NothingHappens
  <2> QED BY <2>1, <2>2, <2>3, <2>4, <2>5, <2>6 DEF Next, Parse, Finished
<1> QED BY <1>1, <1>2, PTL DEF Spec

\* Offsets stay in the text, and line and column counters behind the cursor.
THEOREM TypeCorrect == Spec => []TypeOK
<1>1. PInv => TypeOK
  BY DEF PInv
<1> QED BY <1>1, Invariance, PTL

\* No handler of a production pops a stack that is empty, for any text: each
\* state above the first stands for one token or for one value.
THEOREM StacksStayInStep == Spec => []StacksAgree
<1>1. PInv => StacksAgree
  BY DEF PInv, StacksOK, StacksAgree
<1> QED BY <1>1, Invariance, PTL

\* Whatever comments follow it, a comment never goes on over code.
THEOREM OnlyCommentsSkipped == Spec => []SkipsOnlyComments
<1>1. PInv => SkipsOnlyComments
  BY DEF PInv, TokensOK
<1> QED BY <1>1, Invariance, PTL

\* parse() returns only when what it read is one whole expression.
THEOREM AcceptsOnlyExpressions == Spec => []AcceptsExpressions
<1>1. PInv => AcceptsExpressions
  BY DEF PInv
<1> QED BY <1>1, Invariance, PTL

\* The tokens that parse() has shifted are the beginning of an expression.
LEMMA BeginningShifted ==
  ASSUME PInv, status # "thrown"
  PROVE  IsBeginning(Items(Shifted))
<1>1. CASE status = "accepted"
  BY <1>1 DEF PInv, AcceptsExpressions, Shifted, IsBeginning
<1>2. CASE status # "accepted"
  <2>1. TokensOK /\ StacksOK /\ status \in {"scanning", "parsing"}
    BY <1>2 DEF PInv, TypeOK
  <2>2. Shifted \in Seq(Tokens) /\ \A i \in 1 .. Len(Shifted) : Shifted[i].type # "EOF"
    BY <2>1, Scanned, Parsed
  <2> QED BY <2>1, <2>2, StacksAre, NestedBegins
<1> QED BY <1>1, <1>2

\* What getNextToken() throws at.
LEMMA ScanThrows ==
  ASSUME PInv, getNextToken, status' = "thrown"
  PROVE  UnexpectedCharacter
<1>1. ~ EndOfText
  BY DEF EndOfText, Return
<1>2. ~ Match
  <2> SUFFICES ASSUME Match
               PROVE  FALSE
    OBVIOUS
  <2>1. PICK type, n : Matched(type, n)
    BY MatchMatches DEF PInv
  <2>2. status = "scanning"
    BY DEF Match
  <2> QED BY <2>1, <2>2 DEF Matched, Return
<1> QED BY <1>1, <1>2 DEF getNextToken

\* What a reduction throws at.
LEMMA ReduceThrows ==
  ASSUME Reduce, status' = "thrown"
  PROVE  ReduceNumber /\ status = "parsing"
<1>1. status = "parsing"
  BY DEF Reduce, ReduceExp, ReduceNumber, ReduceAtom, ReduceList, ReduceEmpty, ReduceEntry,
         Reducing, Doing
<1> QED BY <1>1 DEF Reduce, ReduceExp, ReduceAtom, ReduceList, ReduceEmpty, ReduceEntry, KeepAll

\* parse() takes a token as long as an expression can go on with it, and throws
\* at the first character, token or number that makes the text no program.
THEOREM NeverTooLateOrTooEarly == Spec => GivesUpOnTime
<1> DEFINE Wrong == IF status = "scanning" THEN Rest # <<>> /\ Matching(Rest) = {}
                    ELSE \/ ~ IsBeginning(Items(read))
                         \/ \E i \in DOMAIN read : Item(read[i]) = Num(OutOfRange)
<1>1. PInv => (status # "thrown" => IsBeginning(Items(Shifted)))
  BY BeginningShifted
<1>2. PInv /\ [Next]_vars => [status' = "thrown" => Wrong]_vars
  <2> SUFFICES ASSUME PInv, Next, status' = "thrown", vars' # vars
               PROVE  Wrong
    OBVIOUS
  <2>1. CASE getNextToken
    BY <2>1, ScanThrows DEF UnexpectedCharacter
  <2>2. CASE Shift
    BY <2>2 DEF Shift
  <2>3. CASE Reduce
    <3>1. ReduceNumber /\ status = "parsing" /\ TokensOK /\ StacksOK
      BY <2>3, ReduceThrows DEF PInv
    <3>2. \E i \in DOMAIN read : Item(read[i]) = Num(OutOfRange)
      BY <3>1, NumberIsRead
    <3> QED BY <3>1, <3>2
  <2>4. CASE Accept
    BY <2>4, AcceptAccepts
  <2>5. CASE UnexpectedToken
    <3>1. status = "parsing" /\ TokensOK /\ StacksOK
      BY <2>5 DEF UnexpectedToken, PInv
    <3> QED BY <2>5, <3>1, UnexpectedIsWrong
  <2> QED BY <2>1, <2>2, <2>3, <2>4, <2>5 DEF Next, Parse, Finished
<1>3. PInv /\ [Next]_vars =>
        [/\ status # "thrown" => IsBeginning(Items(Shifted))
         /\ status' = "thrown" => Wrong]_vars
  BY <1>1, <1>2
<1> QED BY <1>3, Invariance, PTL DEF Spec, GivesUpOnTime

\* The line and column in a message are those of the character, or of the first
\* character of the token, at which parse() gave up.
THEOREM MessagesNameThePlace == Spec => ReportsTruePlace
<1> DEFINE Cause == IF status = "scanning" THEN cursor ELSE token.start
<1>1. PInv /\ [Next]_vars => [report' # report => report' = TruePlace(Cause)]_vars
  <2> SUFFICES ASSUME PInv, Next, report' # report
               PROVE  report' = TruePlace(Cause)
    BY DEF vars
  <2>1. CASE UnexpectedCharacter
    <3>1. status = "scanning" /\ report' = Place(line, cursor - lineBegin)
      BY <2>1 DEF UnexpectedCharacter, Throw
    <3>2. line = 1 + Cardinality(LineEnds(cursor)) /\ lineBegin = LineStart(cursor)
      BY DEF PInv, CursorOK
    <3> QED BY <3>1, <3>2 DEF TruePlace
  <2>2. CASE UnexpectedToken
    <3>1. /\ status = "parsing" /\ TokensOK /\ CursorOK
          /\ report' = IF token.type = "EOF" /\ ~ hasMoreTokens THEN Nowhere ELSE token.place
      BY <2>2 DEF UnexpectedToken, Throw, PInv
    <3>2. report = Nowhere /\ token.type \in AnyToken
      BY <3>1, Parsed DEF CursorOK
    <3>3. token.type # "EOF"
      <4> SUFFICES ASSUME token.type = "EOF"
                   PROVE  FALSE
        OBVIOUS
      <4>1. cursor = Len(str) + 1 /\ Len(str) \in Nat
        BY <3>1, LenProperties DEF CursorOK
      <4>2. ~ hasMoreTokens
        BY <4>1 DEF hasMoreTokens
      <4> QED BY <3>1, <3>2, <4>2
    <3> QED BY <3>1, <3>2, <3>3 DEF CursorOK, AnyToken
  <2>3. CASE Match \/ EndOfText
    BY <2>3 DEF Match, EndOfText
  <2>4. CASE Shift
    BY <2>4 DEF Shift
  <2>5. CASE Reduce
    <3>1. ReduceNumber
      BY <2>5 DEF Reduce, ReduceExp, ReduceAtom, ReduceList, ReduceEmpty, ReduceEntry, KeepAll
    <3>2. status = "parsing" /\ report' = Nowhere
      <4> PICK number : number = stoi(Last(tokensStack))
        OBVIOUS
      <4>1. IF number = OutOfRange THEN Throw(Nowhere) ELSE KeepAll
        BY <3>1 DEF ReduceNumber
      <4> QED BY <3>1, <4>1 DEF ReduceNumber, Reducing, Doing, Throw, KeepAll
    <3> QED BY <3>2 DEF PInv, CursorOK
  <2>6. CASE Accept
    BY <2>6, AcceptAccepts
  <2>7. CASE Finished
    BY <2>7 DEF Finished, vars
  <2> QED BY <2>1, <2>2, <2>3, <2>4, <2>5, <2>6, <2>7 DEF Next, Parse, getNextToken
<1> QED BY <1>1, Invariance, PTL DEF Spec, ReportsTruePlace

-----------------------------------------------------------------------------
(***************************************************************************)
(* Sequences, one after the other: FlattenSeq, said without recursion.     *)
(***************************************************************************)
\* The sequences of p up to each of the first n, one after the other.
IsFlat(f, p, n) == f = [i \in 1 .. n |-> IF i = 1 THEN p[i] ELSE f[i - 1] \o p[i]]

\* The flattening of n sequences is a recursive function that exists.
LEMMA FlatExists ==
  ASSUME NEW p, NEW n \in Nat
  PROVE  \E f : IsFlat(f, p, n)
<1> DEFINE T == {m \in Nat : \E f : IsFlat(f, p, m)}
<1>1. 0 \in T
  <2>1. IsFlat([i \in 1 .. 0 |-> p[i]], p, 0)
    BY DEF IsFlat
  <2> QED BY <2>1
<1>2. ASSUME NEW m \in T
      PROVE  m + 1 \in T
  <2>1. m \in Nat /\ m + 1 \in Nat
    OBVIOUS
  <2>2. PICK f : IsFlat(f, p, m)
    OBVIOUS
  <2> PICK e : e = [i \in 1 .. m + 1 |->
                     IF i = 1 THEN p[i] ELSE IF i = m + 1 THEN f[m] \o p[i] ELSE f[i]]
    OBVIOUS
  <2>3. \A i \in 1 .. m : e[i] = f[i]
    <3> TAKE i \in 1 .. m
    <3>1. i \in 1 .. m + 1 /\ i # m + 1
      BY <2>1
    <3>2. i = 1 => f[i] = p[i]
      BY <2>2 DEF IsFlat
    <3> QED BY <3>1, <3>2
  <2>4. \A i \in 1 .. m + 1 : e[i] = IF i = 1 THEN p[i] ELSE e[i - 1] \o p[i]
    <3> TAKE i \in 1 .. m + 1
    <3>1. CASE i = 1
      BY <3>1
    <3>2. CASE i # 1 /\ i = m + 1
      <4>1. m \in 1 .. m /\ i - 1 = m
        BY <2>1, <3>2
      <4>2. e[i] = f[m] \o p[i]
        BY <3>2
      <4> QED BY <2>3, <3>2, <4>1, <4>2
    <3>3. CASE i # 1 /\ i # m + 1
      <4>1. i \in 1 .. m /\ i - 1 \in 1 .. m
        BY <2>1, <3>3
      <4>2. f[i] = f[i - 1] \o p[i]
        BY <2>2, <3>3, <4>1 DEF IsFlat
      <4> QED BY <2>3, <3>3, <4>1, <4>2
    <3> QED BY <3>1, <3>2, <3>3
  <2>5. e = [i \in 1 .. m + 1 |-> e[i]]
    OBVIOUS
  <2>6. IsFlat(e, p, m + 1)
    BY <2>4, <2>5, Zenon DEF IsFlat
  <2> QED BY <2>1, <2>6
<1>3. T = Nat
  <2> HIDE DEF T
  <2>1. T \in SUBSET Nat
    BY DEF T
  <2> QED BY <1>1, <1>2, <2>1, Induction
<1> QED BY <1>3

\* Its i-th value.
FlatAt(f, p, i) == /\ i = 1 => f[i] = p[i]
                   /\ i # 1 => f[i] = f[i - 1] \o p[i]

LEMMA FlatSteps ==
  ASSUME NEW f, NEW p, NEW n, IsFlat(f, p, n), NEW i \in 1 .. n
  PROVE  FlatAt(f, p, i)
<1> DEFINE F(j) == IF j = 1 THEN p[j] ELSE f[j - 1] \o p[j]
<1>1. f = [j \in 1 .. n |-> F(j)]
  BY DEF IsFlat
<1> HIDE DEF F
<1>2. f[i] = F(i)
  BY <1>1
<1> QED BY <1>2 DEF F, FlatAt

\* They depend on these sequences only.
Agree(p, q, n) == \A i \in 1 .. n : p[i] = q[i]

\* It depends on no more sequences than it flattens.
LEMMA FlatSame ==
  ASSUME NEW p, NEW q, NEW n \in Nat, NEW k \in Nat, n <= k, Agree(p, q, n),
         NEW f, IsFlat(f, p, n), NEW g, IsFlat(g, q, k), NEW l \in 1 .. n
  PROVE  f[l] = g[l]
<1> DEFINE T == {m \in Nat : m \in 1 .. n => f[m] = g[m]}
<1>1. 0 \in T
  OBVIOUS
<1>2. ASSUME NEW m \in T
      PROVE  m + 1 \in T
  <2>1. SUFFICES ASSUME m + 1 \in 1 .. n
                 PROVE  f[m + 1] = g[m + 1]
    OBVIOUS
  <2> PICK i : i = m + 1
    OBVIOUS
  <2>2. i \in 1 .. n /\ i \in 1 .. k /\ p[i] = q[i] /\ i - 1 = m
    BY <2>1 DEF Agree
  <2>3. FlatAt(f, p, i) /\ FlatAt(g, q, i)
    BY <2>2, FlatSteps, Zenon
  <2>4. i # 1 => f[i - 1] = g[i - 1]
    BY <2>1, <2>2
  <2>5. f[i] = g[i]
    BY <2>2, <2>3, <2>4, Zenon DEF FlatAt
  <2> QED BY <2>5
<1>3. T = Nat
  <2> HIDE DEF T
  <2>1. T \in SUBSET Nat
    BY DEF T
  <2> QED BY <1>1, <1>2, <2>1, Induction
<1> QED BY <1>3

\* FlattenSeq takes the last value of it.
LEMMA FlattenIs ==
  ASSUME NEW s, Len(s) \in Nat, Len(s) # 0
  PROVE  \E f : IsFlat(f, s, Len(s)) /\ FlattenSeq(s) = f[Len(s)]
<1> DEFINE f == CHOOSE f : IsFlat(f, s, Len(s))
<1>1. IsFlat(f, s, Len(s))
  BY FlatExists
<1>2. FlattenSeq(s) = f[Len(s)]
  BY Zenon DEF FlattenSeq, IsFlat
<1> HIDE DEF f
<1> QED BY <1>1, <1>2

\* No sequences, flattened, are empty.
LEMMA NothingFlat ==
  ASSUME NEW S, NEW s \in Seq(S), Len(s) = 0
  PROVE  s = <<>> /\ FlattenSeq(s) = <<>>
<1>1. s = <<>>
  BY EmptySeq
<1> QED BY <1>1, Zenon DEF FlattenSeq

\* One sequence more.
LEMMA FlattenNext ==
  ASSUME NEW S, NEW s \in Seq(Seq(S)), NEW x \in Seq(S), FlattenSeq(s) \in Seq(S)
  PROVE  /\ FlattenSeq(Append(s, x)) = FlattenSeq(s) \o x
         /\ FlattenSeq(Append(s, x)) \in Seq(S)
<1> PICK t : t = Append(s, x)
  OBVIOUS
<1> PICK n \in Nat : n = Len(s)
  OBVIOUS
<1> PICK k \in Nat : k = n + 1
  OBVIOUS
<1>1. /\ Len(t) = k /\ t[k] = x /\ \A i \in 1 .. n : s[i] = t[i]
      /\ k # 0 /\ k \in 1 .. k /\ k - 1 = n
  OBVIOUS
<1>2. PICK g : IsFlat(g, t, k) /\ FlattenSeq(t) = g[k]
  BY <1>1, FlattenIs
<1>3. FlatAt(g, t, k)
  BY <1>1, <1>2, FlatSteps, Zenon
<1>4. FlattenSeq(t) = FlattenSeq(s) \o x
  <2>1. CASE n = 0
    <3>1. k = 1 /\ Len(s) = 0
      BY <2>1
    <3>2. FlattenSeq(s) = <<>>
      BY <3>1, NothingFlat, Zenon
    <3>3. <<>> \o x = x
      BY ConcatEmptySeq
    <3>4. g[k] = t[k]
      BY <1>3, <3>1, Zenon DEF FlatAt
    <3> QED BY <1>1, <1>2, <3>2, <3>3, <3>4, Zenon
  <2>2. CASE n # 0
    <3>1. PICK f : IsFlat(f, s, n) /\ FlattenSeq(s) = f[n]
      BY <2>2, FlattenIs
    <3>2. n \in 1 .. n /\ n <= k /\ k # 1
      BY <2>2
    <3>3. f[n] = g[n]
      <4>1. Agree(s, t, n)
        BY <1>1 DEF Agree
      <4> QED BY ONLY <1>2, <3>1, <3>2, <4>1, n \in Nat, k \in Nat, FlatSame
    <3>4. g[k] = g[n] \o t[k]
      BY <1>1, <1>3, <3>2, Zenon DEF FlatAt
    <3> QED BY <1>1, <1>2, <3>1, <3>3, <3>4, Zenon
  <2> QED BY <2>1, <2>2
<1> QED BY <1>4

-----------------------------------------------------------------------------
(***************************************************************************)
(* Texts of expressions and parentheses.  A forest is a set of expressions *)
(* that has all the entries of its lists; in such a set a text can be      *)
(* unfolded again and again.                                               *)
(***************************************************************************)
\* Induction over sequences.
LEMMA SequencesGrow ==
  ASSUME NEW S, NEW T \in SUBSET Seq(S), <<>> \in T,
         \A s \in T : \A x \in S : Append(s, x) \in T
  PROVE  T = Seq(S)
<1> DEFINE N == {n \in Nat : \A s \in Seq(S) : Len(s) = n => s \in T}
<1>1. 0 \in N
  BY EmptySeq
<1>2. ASSUME NEW n \in N
      PROVE  n + 1 \in N
  <2>1. n \in Nat /\ \A s \in Seq(S) : Len(s) = n => s \in T
    OBVIOUS
  <2>2. ASSUME NEW s \in Seq(S), Len(s) = n + 1
        PROVE  s \in T
    <3>0. n \in Nat /\ Len(s) = n + 1
      BY <2>1, <2>2
    <3> PICK k \in Nat : k = n + 1
      BY <3>0
    <3> PICK b : b = SubSeq(s, 1, n)
      OBVIOUS
    <3> PICK x : x = s[k]
      OBVIOUS
    <3>1. b \in Seq(S) /\ Len(b) = n /\ x \in S /\ \A i \in 1 .. n : b[i] = s[i]
      BY <3>0
    <3>2. s = Append(b, x)
      <4> PICK t : t = Append(b, x)
        OBVIOUS
      <4>1. t \in Seq(S) /\ Len(t) = k /\ t[k] = x /\ \A i \in 1 .. n : t[i] = b[i]
        BY ONLY <3>0, <3>1, t = Append(b, x), k = n + 1
      <4>2. \A i \in 1 .. k : t[i] = s[i]
        BY ONLY <3>0, <3>1, <4>1, k = n + 1, x = s[k]
      <4>3. t = s
        BY <3>0, <4>1, <4>2, SeqEqual
      <4> QED BY <4>3
    <3> QED BY <2>1, <3>1, <3>2
  <2> QED BY <2>1, <2>2
<1>3. N = Nat
  <2> HIDE DEF N
  <2>1. N \in SUBSET Nat
    BY DEF N
  <2> QED BY <1>1, <1>2, <2>1, Induction
<1>4. \A s \in Seq(S) : Len(s) \in Nat
  OBVIOUS
<1> QED BY <1>3, <1>4

\* Expressions among which are the entries of each list, and the parentheses.
Forest(E) ==
  /\ Open \in E /\ Close \in E
  /\ \A e \in E : Entries(e) \in Seq(E)

\* A list is spelled by its entries and two parentheses.
LEMMA SpreadIn ==
  ASSUME NEW E, Forest(E), NEW e \in E
  PROVE  Spread(e) \in Seq(E)
<1> PICK es : es = Entries(e)
  OBVIOUS
<1>1. es \in Seq(E) /\ Open \in E /\ Close \in E
  BY DEF Forest
<1>2. <<Open>> \in Seq(E) /\ <<Close>> \in Seq(E) /\ <<e>> \in Seq(E)
  BY <1>1
<1>3. <<Open>> \o es \o <<Close>> \in Seq(E)
  BY <1>1, <1>2, ConcatProperties
<1> QED BY <1>2, <1>3, Zenon DEF Spread

\* The expressions of a text, each spread for itself.
Spreads(text) == [i \in DOMAIN text |-> Spread(text[i])]

LEMMA SpreadsNext ==
  ASSUME NEW E, NEW text \in Seq(E), NEW e \in E
  PROVE  Spreads(Append(text, e)) = Append(Spreads(text), Spread(e))
<1> PICK n \in Nat : n = Len(text)
  OBVIOUS
<1> PICK k \in Nat : k = n + 1
  OBVIOUS
<1> PICK t : t = Append(text, e)
  OBVIOUS
<1> PICK y : y = Spread(e)
  OBVIOUS
<1>1. DOMAIN t = 1 .. k /\ DOMAIN text = 1 .. n /\ \A i \in 1 .. k : t[i] = IF i = k THEN e ELSE text[i]
  OBVIOUS
<1>2. Spreads(t) = [i \in 1 .. k |-> Spread(t[i])]
  BY <1>1, Zenon DEF Spreads
<1>3. Spreads(text) = [i \in 1 .. n |-> Spread(text[i])]
  BY <1>1, Zenon DEF Spreads
<1>4. [i \in 1 .. k |-> Spread(t[i])] = Append([i \in 1 .. n |-> Spread(text[i])], y)
  <2> PICK p : p = [i \in 1 .. n |-> Spread(text[i])]
    OBVIOUS
  <2> PICK q : q = [i \in 1 .. k |-> Spread(t[i])]
    OBVIOUS
  <2> PICK R : R = {Spread(t[i]) : i \in 1 .. k}
    OBVIOUS
  <2>1. \A i \in 1 .. n : i \in 1 .. k /\ t[i] = text[i]
    BY <1>1
  <2>2. k \in 1 .. k /\ t[k] = e
    BY <1>1
  <2>3. \A i \in 1 .. n : p[i] = q[i] /\ p[i] \in R
    BY <2>1
  <2>4. q[k] = y /\ y \in R
    BY <2>2
  <2>5. p \in [1 .. n -> R] /\ q \in [1 .. k -> R]
    BY <2>3
  <2>6. p \in Seq(R) /\ q \in Seq(R) /\ Len(p) = n /\ Len(q) = k
    BY <2>5, SMTT(30)
  <2>7. q = Append(p, y)
    BY <2>3, <2>4, <2>6
  <2> QED BY <2>7
<1> QED BY <1>2, <1>3, <1>4, Zenon

\* Texts are unfolded from left to right.
LEMMA UnfoldedIn ==
  ASSUME NEW E, Forest(E), NEW text \in Seq(E)
  PROVE  Unfolded(text) \in Seq(E) /\ Spreads(text) \in Seq(Seq(E))
<1> DEFINE T == {t \in Seq(E) : Unfolded(t) \in Seq(E) /\ Spreads(t) \in Seq(Seq(E))}
<1>1. <<>> \in T
  <2>1. Spreads(<<>>) = <<>>
    BY DEF Spreads
  <2>2. Unfolded(<<>>) = <<>>
    <3>1. Len(<<>>) = 0 /\ <<>> \in Seq(E)
      OBVIOUS
    <3>2. FlattenSeq(<<>>) = <<>>
      BY <3>1, NothingFlat, Zenon
    <3> QED BY <2>1, <3>2, Zenon DEF Unfolded, Spreads
  <2>3. <<>> \in Seq(E) /\ <<>> \in Seq(Seq(E))
    OBVIOUS
  <2> QED BY <2>1, <2>2, <2>3, Zenon
<1>2. ASSUME NEW t \in T, NEW e \in E
      PROVE  Append(t, e) \in T
  <2>1. t \in Seq(E) /\ Unfolded(t) \in Seq(E) /\ Spreads(t) \in Seq(Seq(E)) /\ Append(t, e) \in Seq(E)
    OBVIOUS
  <2>2. Unfolded(t) = FlattenSeq(Spreads(t)) /\ Unfolded(Append(t, e)) = FlattenSeq(Spreads(Append(t, e)))
    BY DEF Unfolded, Spreads
  <2>3. Spread(e) \in Seq(E)
    BY SpreadIn
  <2>4. Spreads(Append(t, e)) = Append(Spreads(t), Spread(e))
    BY <2>1, SpreadsNext
  <2>5. FlattenSeq(Append(Spreads(t), Spread(e))) \in Seq(E)
    BY <2>1, <2>2, <2>3, FlattenNext
  <2>6. Append(Spreads(t), Spread(e)) \in Seq(Seq(E))
    BY <2>1, <2>3
  <2> QED BY <2>1, <2>2, <2>4, <2>5, <2>6
<1>3. T = Seq(E)
  <2> HIDE DEF T
  <2>1. T \in SUBSET Seq(E)
    BY DEF T
  <2> QED BY <1>1, <1>2, <2>1, SequencesGrow
<1> QED BY <1>3

\* One expression more.
LEMMA UnfoldedNext ==
  ASSUME NEW E, Forest(E), NEW text \in Seq(E), NEW e \in E
  PROVE  Unfolded(Append(text, e)) = Unfolded(text) \o Spread(e)
<1>1. Unfolded(text) \in Seq(E) /\ Spreads(text) \in Seq(Seq(E)) /\ Spread(e) \in Seq(E)
  BY UnfoldedIn, SpreadIn
<1>2. Unfolded(text) = FlattenSeq(Spreads(text)) /\ Unfolded(Append(text, e)) = FlattenSeq(Spreads(Append(text, e)))
  BY DEF Unfolded, Spreads
<1>3. Spreads(Append(text, e)) = Append(Spreads(text), Spread(e))
  BY SpreadsNext
<1>4. FlattenSeq(Append(Spreads(text), Spread(e))) = FlattenSeq(Spreads(text)) \o Spread(e)
  BY <1>1, <1>2, FlattenNext
<1> QED BY <1>2, <1>3, <1>4

\* What is appended to the second part is appended to the whole.
LEMMA ConcatAppend ==
  ASSUME NEW S, NEW s \in Seq(S), NEW t \in Seq(S), NEW e \in S
  PROVE  s \o Append(t, e) = Append(s \o t, e)
<1>1. Append(t, e) = t \o <<e>> /\ Append(s \o t, e) = (s \o t) \o <<e>>
  <2>1. s \o t \in Seq(S)
    BY ConcatProperties
  <2> QED BY <2>1, AppendIsConcat
<1>2. <<e>> \in Seq(S)
  OBVIOUS
<1>3. (s \o t) \o <<e>> = s \o (t \o <<e>>)
  BY <1>2, ConcatAssociative
<1> QED BY <1>1, <1>3

LEMMA NothingUnfolded ==
  Unfolded(<<>>) = <<>>
<1>1. Spreads(<<>>) = <<>>
  BY DEF Spreads
<1>2. Len(<<>>) = 0 /\ <<>> \in Seq({})
  OBVIOUS
<1>3. FlattenSeq(<<>>) = <<>>
  BY <1>2, NothingFlat, Zenon
<1> QED BY <1>1, <1>3, Zenon DEF Unfolded, Spreads

\* The parts of a text are unfolded by themselves.
LEMMA UnfoldedConcat ==
  ASSUME NEW E, Forest(E), NEW s \in Seq(E), NEW t \in Seq(E)
  PROVE  Unfolded(s \o t) = Unfolded(s) \o Unfolded(t)
<1> DEFINE T == {u \in Seq(E) : Unfolded(s \o u) = Unfolded(s) \o Unfolded(u)}
<1>0. \A u \in Seq(E) : Unfolded(u) \in Seq(E)
  BY UnfoldedIn
<1>1. <<>> \in T
  <2>1. s \o <<>> = s /\ Unfolded(s) \o <<>> = Unfolded(s)
    BY <1>0, ConcatEmptySeq
  <2>2. <<>> \in Seq(E)
    OBVIOUS
  <2> QED BY <2>1, <2>2, NothingUnfolded
<1>2. ASSUME NEW u \in T, NEW e \in E
      PROVE  Append(u, e) \in T
  <2>1. u \in Seq(E) /\ Unfolded(s \o u) = Unfolded(s) \o Unfolded(u)
    OBVIOUS
  <2>2. s \o u \in Seq(E) /\ Append(u, e) \in Seq(E)
    <3>1. s \o u \in Seq(E)
      BY <2>1, ConcatProperties, Zenon
    <3>2. Append(u, e) \in Seq(E)
      BY <2>1
    <3> QED BY <3>1, <3>2
  <2>3. Unfolded(s \o Append(u, e)) = Unfolded(Append(s \o u, e))
    <3>1. s \o Append(u, e) = Append(s \o u, e)
      BY ONLY <2>1, s \in Seq(E), e \in E, ConcatAppend
    <3> QED BY <3>1, Zenon
  <2>4. /\ Unfolded(Append(s \o u, e)) = Unfolded(s \o u) \o Spread(e)
        /\ Unfolded(Append(u, e)) = Unfolded(u) \o Spread(e)
    BY <2>1, <2>2, UnfoldedNext, Zenon
  <2>5. (Unfolded(s) \o Unfolded(u)) \o Spread(e) = Unfolded(s) \o (Unfolded(u) \o Spread(e))
    <3>1. Unfolded(s) \in Seq(E) /\ Unfolded(u) \in Seq(E)
      BY <1>0, <2>1
    <3>2. Spread(e) \in Seq(E)
      BY SpreadIn
    <3> QED BY ONLY <3>1, <3>2, ConcatAssociative, SMTT(30)
  <2> QED BY <2>1, <2>2, <2>3, <2>4, <2>5, Zenon
<1>3. T = Seq(E)
  <2> HIDE DEF T
  <2>1. T \in SUBSET Seq(E)
    BY DEF T
  <2> QED BY <1>1, <1>2, <2>1, SequencesGrow
<1> QED BY <1>3

\* A text without lists is left as it is.
Plain(E) == {e \in E : ~ IsList(e)}

\* A text without lists is unfolded.
LEMMA PlainStays ==
  ASSUME NEW E, Forest(E), NEW text \in Seq(Plain(E))
  PROVE  Unfolded(text) = text
<1> DEFINE T == {u \in Seq(Plain(E)) : Unfolded(u) = u}
<1>1. <<>> \in T
  BY NothingUnfolded
<1>2. ASSUME NEW u \in T, NEW e \in Plain(E)
      PROVE  Append(u, e) \in T
  <2>1. u \in Seq(Plain(E)) /\ Unfolded(u) = u /\ e \in E /\ Append(u, e) \in Seq(Plain(E))
    BY DEF Plain
  <2>2. u \in Seq(E)
    <3>1. Plain(E) \subseteq E
      BY DEF Plain
    <3> QED BY <2>1, <3>1
  <2>3. Spread(e) = <<e>>
    BY DEF Spread, Plain
  <2>4. Unfolded(Append(u, e)) = u \o <<e>>
    BY <2>1, <2>2, <2>3, UnfoldedNext
  <2>5. Append(u, e) = u \o <<e>>
    BY <2>1, <2>2, AppendIsConcat
  <2> QED BY <2>1, <2>4, <2>5
<1>3. T = Seq(Plain(E))
  <2> HIDE DEF T
  <2>1. T \in SUBSET Seq(Plain(E))
    BY DEF T
  <2> QED BY <1>1, <1>2, <2>1, SequencesGrow
<1> QED BY <1>3

\* Spelling is what it is defined to be.
LEMMA SpellingSteps ==
  ASSUME NEW E, Forest(E), NEW text \in Seq(E)
  PROVE  /\ Spelling(text, 0) = text
         /\ \A n \in Nat : /\ Spelling(text, n) \in Seq(E)
                           /\ Spelling(text, n + 1) = Unfolded(Spelling(text, n))
<1> DEFINE Step(f, n) == IF n = 0 THEN text ELSE Unfolded(f[n - 1])
           IsSpelling(f) == f = [n \in Nat |-> Step(f, n)]
<1> PICK F : F = [t \in Seq(E) |-> Unfolded(t)]
  OBVIOUS
<1>1. F \in [Seq(E) -> Seq(E)]
  BY UnfoldedIn
<1> PICK D : D = Seq(E)
  OBVIOUS
<1>2. PICK g : IsIteration(g, D, text, F)
  BY <1>1, Iteration, Zenon
<1>3. g \in [Nat -> D] /\ g[0] = text /\ \A n \in Nat : g[n + 1] = F[g[n]]
  BY <1>2 DEF IsIteration
<1>4. \A n \in Nat : g[n + 1] = Unfolded(g[n])
  BY <1>3
<1>5. \A n \in Nat : g[n] = Step(g, n)
  <2> TAKE n \in Nat
  <2>1. CASE n = 0
    BY <1>3, <2>1
  <2>2. CASE n # 0
    <3>1. n - 1 \in Nat /\ n - 1 + 1 = n
      BY <2>2
    <3>2. g[n] = Unfolded(g[n - 1])
      BY <1>4, <3>1
    <3> QED BY <2>2, <3>2
  <2> QED BY <2>1, <2>2
<1>6. IsSpelling(g)
  <2>1. g = [n \in Nat |-> g[n]]
    BY <1>3
  <2> HIDE DEF Step
  <2> QED BY <1>5, <2>1
<1> DEFINE f == CHOOSE h : IsSpelling(h)
<1>7. \A n : Spelling(text, n) = f[n]
  BY Zenon DEF Spelling
<1>8. IsSpelling(f)
  <2> HIDE DEF IsSpelling
  <2> QED BY <1>6, Zenon
<1> HIDE DEF f
<1>9. \A n \in Nat : f[n] = Step(f, n)
  <2> HIDE DEF Step
  <2> QED BY <1>8
<1>10. f[0] = text
  BY <1>9
<1>11. \A n \in Nat : f[n + 1] = Unfolded(f[n])
  <2> TAKE n \in Nat
  <2> PICK k \in Nat : k = n + 1
    OBVIOUS
  <2>1. k # 0 /\ k - 1 = n
    OBVIOUS
  <2>2. f[k] = Unfolded(f[k - 1])
    BY <1>9, <2>1
  <2> QED BY <2>1, <2>2
<1> DEFINE T == {n \in Nat : f[n] \in Seq(E)}
<1>12. T = Nat
  <2>1. 0 \in T
    BY <1>10
  <2>2. \A n \in T : n + 1 \in T
    <3> SUFFICES ASSUME NEW n \in T
                 PROVE  n + 1 \in T
      OBVIOUS
    <3>1. n \in Nat /\ n + 1 \in Nat /\ f[n] \in Seq(E)
      OBVIOUS
    <3>2. Unfolded(f[n]) \in Seq(E)
      BY <3>1, UnfoldedIn, Zenon
    <3> QED BY <1>11, <3>1, <3>2
  <2>3. T \in SUBSET Nat
    OBVIOUS
  <2> HIDE DEF T
  <2> QED BY <2>1, <2>2, <2>3, Induction
<1> QED BY <1>7, <1>10, <1>11, <1>12

-----------------------------------------------------------------------------
(***************************************************************************)
(* Spelling a text down to a depth.                                        *)
(***************************************************************************)
\* Depth by depth, the parts of a text are spelled by themselves.
LEMMA SpellingConcat ==
  ASSUME NEW E, Forest(E), NEW s \in Seq(E), NEW t \in Seq(E), NEW n \in Nat
  PROVE  Spelling(s \o t, n) = Spelling(s, n) \o Spelling(t, n)
<1> PICK u : u = s \o t
  OBVIOUS
<1>1. u \in Seq(E)
  BY ConcatProperties
<1> DEFINE Same(k) == Spelling(u, k) = Spelling(s, k) \o Spelling(t, k)
           T == {k \in Nat : Same(k)}
<1>2. 0 \in T
  BY <1>1, SpellingSteps
<1>3. ASSUME NEW k \in T
      PROVE  k + 1 \in T
  <2>1. k \in Nat /\ k + 1 \in Nat /\ Same(k)
    OBVIOUS
  <2>2. \A v \in Seq(E) : /\ Spelling(v, k) \in Seq(E)
                          /\ Spelling(v, k + 1) = Unfolded(Spelling(v, k))
    BY <2>1, SpellingSteps
  <2> PICK a, b : a = Spelling(s, k) /\ b = Spelling(t, k)
    OBVIOUS
  <2>3. a \in Seq(E) /\ b \in Seq(E)
    BY <2>2
  <2>4. Unfolded(a \o b) = Unfolded(a) \o Unfolded(b)
    BY <2>3, UnfoldedConcat, Zenon
  <2>5. Spelling(u, k) = a \o b
    BY <2>1
  <2>6. Same(k + 1)
    BY <1>1, <2>2, <2>4, <2>5, Zenon
  <2> QED BY <2>1, <2>6
<1>4. T = Nat
  <2> HIDE DEF T
  <2>1. T \in SUBSET Nat
    BY DEF T
  <2> QED BY <1>2, <1>3, <2>1, Induction
<1>5. n \in T
  BY <1>4
<1> QED BY <1>5

\* It does not matter where the unfolding begins.
LEMMA SpellingUnfolded ==
  ASSUME NEW E, Forest(E), NEW t \in Seq(E), NEW n \in Nat
  PROVE  Spelling(t, n + 1) = Spelling(Unfolded(t), n)
<1> PICK u : u = Unfolded(t)
  OBVIOUS
<1>1. u \in Seq(E)
  BY UnfoldedIn
<1> DEFINE Same(k) == Spelling(t, k + 1) = Spelling(u, k)
           T == {k \in Nat : Same(k)}
<1>2. \A v \in Seq(E) : \A k \in Nat :
        /\ Spelling(v, 0) = v
        /\ Spelling(v, k) \in Seq(E)
        /\ Spelling(v, k + 1) = Unfolded(Spelling(v, k))
  BY SpellingSteps
<1>3. 0 \in T
  <2>1. Spelling(t, 0 + 1) = Unfolded(Spelling(t, 0)) /\ Spelling(t, 0) = t /\ Spelling(u, 0) = u
    BY <1>1, <1>2
  <2> QED BY <2>1
<1>4. ASSUME NEW k \in T
      PROVE  k + 1 \in T
  <2>1. k \in Nat /\ k + 1 \in Nat /\ Same(k)
    OBVIOUS
  <2>2. /\ Spelling(t, k + 1 + 1) = Unfolded(Spelling(t, k + 1))
        /\ Spelling(u, k + 1) = Unfolded(Spelling(u, k))
    BY <1>1, <1>2, <2>1
  <2> QED BY <2>1, <2>2
<1>5. T = Nat
  <2> HIDE DEF T
  <2>1. T \in SUBSET Nat
    BY DEF T
  <2> QED BY <1>3, <1>4, <2>1, Induction
<1>6. n \in T
  BY <1>5
<1> QED BY <1>6

\* A text without lists is spelled out, at any depth.
LEMMA SpellingPlain ==
  ASSUME NEW E, Forest(E), NEW t \in Seq(Plain(E)), NEW n \in Nat
  PROVE  Spelling(t, n) = t
<1> DEFINE T == {k \in Nat : Spelling(t, k) = t}
<1>1. t \in Seq(E)
  <2>1. Plain(E) \subseteq E
    BY DEF Plain
  <2> QED BY <2>1
<1>2. 0 \in T
  BY <1>1, SpellingSteps
<1>3. ASSUME NEW k \in T
      PROVE  k + 1 \in T
  <2>1. k \in Nat /\ k + 1 \in Nat /\ Spelling(t, k) = t
    OBVIOUS
  <2>2. Spelling(t, k + 1) = Unfolded(Spelling(t, k))
    BY <1>1, <2>1, SpellingSteps
  <2>3. Unfolded(t) = t
    BY PlainStays, Zenon
  <2> QED BY <2>1, <2>2, <2>3
<1>4. T = Nat
  <2> HIDE DEF T
  <2>1. T \in SUBSET Nat
    BY DEF T
  <2> QED BY <1>2, <1>3, <2>1, Induction
<1>5. n \in T
  BY <1>4
<1> QED BY <1>5

\* What a text is spelled by, at a depth that its length leaves room for.
Spelled(items, text) ==
  \E n \in Nat : n + Len(text) <= Len(items) /\ Spelling(text, n) = items

\* What counts the depth and the length together spells the items.
LEMMA SpelledSpells ==
  ASSUME NEW S, NEW T, NEW items \in Seq(S), NEW text \in Seq(T), Spelled(items, text)
  PROVE  Spells(items, text)
<1>1. PICK n \in Nat : n + Len(text) <= Len(items) /\ Spelling(text, n) = items
  BY DEF Spelled
<1>2. Len(text) \in Nat /\ Len(items) \in Nat
  OBVIOUS
<1>3. n \in 0 .. Len(items)
  BY <1>1, <1>2
<1> QED BY <1>1, <1>3, Zenon DEF Spells

\* One item more.
LEMMA SpelledMore ==
  ASSUME NEW E, Forest(E), NEW items \in Seq(Plain(E)), NEW text \in Seq(E),
         Spelled(items, text), NEW item \in Plain(E)
  PROVE  Spelled(Append(items, item), text \o <<item>>)
<1>1. PICK n \in Nat : n + Len(text) <= Len(items) /\ Spelling(text, n) = items
  BY DEF Spelled
<1> PICK one : one = <<item>>
  OBVIOUS
<1>2. one \in Seq(Plain(E)) /\ one \in Seq(E) /\ Len(one) = 1
  BY DEF Plain
<1>3. Spelling(text \o one, n) = Spelling(text, n) \o Spelling(one, n)
  BY <1>2, SpellingConcat, Zenon
<1>4. Spelling(one, n) = one
  BY <1>2, SpellingPlain, Zenon
<1>5. Append(items, item) = items \o one
  BY AppendIsConcat
<1>6. Spelling(text \o one, n) = Append(items, item)
  BY <1>1, <1>3, <1>4, <1>5
<1>7. Len(text \o one) = Len(text) + 1 /\ Len(Append(items, item)) = Len(items) + 1
      /\ Len(text) \in Nat /\ Len(items) \in Nat
  <2>1. Len(text \o one) = Len(text) + 1
    BY <1>2, ConcatProperties
  <2> QED BY <2>1
<1>8. n + Len(text \o one) <= Len(Append(items, item))
  BY <1>1, <1>7
<1> QED BY <1>6, <1>8, Zenon DEF Spelled

\* The first of two parts is over the set of the whole.
LEMMA FrontPart ==
  ASSUME NEW S, NEW a \in Seq(S), NEW b \in Seq(S), NEW R, a \o b \in Seq(R)
  PROVE  a \in Seq(R)
<1> PICK c : c = a \o b
  OBVIOUS
<1> PICK n, m : n = Len(a) /\ m = Len(b)
  OBVIOUS
<1>1. n \in Nat /\ m \in Nat /\ a = [i \in 1 .. n |-> a[i]]
  OBVIOUS
<1>2. Len(c) = n + m /\ \A i \in 1 .. n + m : c[i] = IF i <= n THEN a[i] ELSE b[i - n]
  BY ConcatProperties
<1>3. \A i \in 1 .. n : c[i] = a[i] /\ i \in 1 .. n + m
  BY <1>1, <1>2
<1>4. \A i \in 1 .. n + m : c[i] \in R
  BY <1>2
<1>5. \A i \in 1 .. n : a[i] \in R
  BY <1>3, <1>4
<1> QED BY <1>1, <1>5

\* A list in the place of its parentheses and what is between them.
LEMMA SpelledFolded ==
  ASSUME NEW E, Forest(E), NEW items \in Seq(Plain(E)), NEW before \in Seq(E), NEW e \in E,
         IsList(e), Spelled(items, before \o Spread(e))
  PROVE  Spelled(items, before \o <<e>>)
<1> PICK spread, one : spread = Spread(e) /\ one = <<e>>
  OBVIOUS
<1>1. spread \in Seq(E) /\ one \in Seq(E) /\ Len(one) = 1
  BY SpreadIn
<1>2. PICK n \in Nat : n + Len(before \o spread) <= Len(items) /\ Spelling(before \o spread, n) = items
  BY DEF Spelled
<1>3. Unfolded(one) = spread
  <2>1. <<>> \in Seq(E)
    OBVIOUS
  <2>2. Unfolded(Append(<<>>, e)) = Unfolded(<<>>) \o Spread(e)
    BY <2>1, UnfoldedNext, Zenon
  <2>3. Append(<<>>, e) = one /\ <<>> \o spread = spread
    BY <1>1, ConcatEmptySeq
  <2> QED BY <2>2, <2>3, NothingUnfolded, Zenon
<1> PICK a, b : a = Spelling(before, n) /\ b = Spelling(spread, n)
  OBVIOUS
<1>4. a \in Seq(E) /\ b \in Seq(E) /\ Spelling(before, n + 1) = Unfolded(a)
  BY <1>1, SpellingSteps
<1>5. items = a \o b
  BY <1>1, <1>2, SpellingConcat, Zenon
<1>6. Spelling(before, n + 1) = a
  <2>1. a \in Seq(Plain(E))
    BY ONLY <1>4, <1>5, items \in Seq(Plain(E)), FrontPart
  <2>2. Unfolded(a) = a
    BY <2>1, PlainStays, Zenon
  <2> QED BY <1>4, <2>2
<1>7. Spelling(one, n + 1) = b
  BY <1>1, <1>3, SpellingUnfolded, Zenon
<1>8. Spelling(before \o one, n + 1) = Spelling(before, n + 1) \o Spelling(one, n + 1)
  <2>1. n + 1 \in Nat
    OBVIOUS
  <2> QED BY <1>1, <2>1, SpellingConcat, ZenonT(30)
<1>9. Spelling(before \o one, n + 1) = items
  BY <1>5, <1>6, <1>7, <1>8, Zenon
<1>10. Len(spread) >= 2
  <2> PICK es : es = Entries(e)
    OBVIOUS
  <2>1. es \in Seq(E) /\ Open \in E /\ Close \in E
    BY DEF Forest
  <2> PICK o, c : o = <<Open>> /\ c = <<Close>>
    OBVIOUS
  <2>2. o \in Seq(E) /\ c \in Seq(E) /\ Len(o) = 1 /\ Len(c) = 1
    BY <2>1
  <2>3. o \o es \in Seq(E) /\ Len(o \o es) = 1 + Len(es)
    BY <2>1, <2>2, ConcatProperties
  <2>4. Len(o \o es \o c) = Len(o \o es) + 1
    BY <2>2, <2>3, ConcatProperties
  <2>5. Len(es) \in Nat
    BY <2>1
  <2>6. spread = o \o es \o c
    BY Zenon DEF Spread
  <2>7. Len(spread) = 1 + Len(es) + 1
    BY <2>3, <2>4, <2>6
  <2> QED BY <2>5, <2>7
<1>11. n + 1 \in Nat /\ n + 1 + Len(before \o one) <= Len(items)
  <2>1. Len(before \o one) = Len(before) + 1
    BY <1>1, ConcatProperties
  <2>2. Len(before \o spread) = Len(before) + Len(spread)
    BY <1>1, ConcatProperties
  <2>3. Len(before) \in Nat /\ Len(spread) \in Nat /\ Len(items) \in Nat
    BY <1>1
  <2> QED BY <1>2, <1>10, <2>1, <2>2, <2>3
<1> QED BY <1>9, <1>11, Zenon DEF Spelled

-----------------------------------------------------------------------------
(***************************************************************************)
(* What the stacks hold, when they change above the m-th state only.       *)
(***************************************************************************)
\* Further elements add at most their number to a count.
LEMMA CountBetween ==
  ASSUME NEW f, NEW m \in Nat, NEW S, NEW i \in 0 .. m
  PROVE  /\ Count(f, m, S) - Count(f, i, S) \in 0 .. m - i
         /\ Count(f, m, S) \in Nat /\ Count(f, i, S) \in Nat
<1> DEFINE T == {k \in Nat : Count(f, i + k, S) - Count(f, i, S) \in 0 .. k}
<1>1. \A n \in Nat : /\ Count(f, n, S) \in Nat
                     /\ Count(f, n + 1, S) = Count(f, n, S) + One(f[n + 1], S)
                     /\ One(f[n + 1], S) \in 0 .. 1
  <2> TAKE n \in Nat
  <2> QED BY CountNext DEF One
<1>2. 0 \in T
  <2>1. i + 0 = i /\ i \in Nat
    OBVIOUS
  <2>2. Count(f, i, S) - Count(f, i, S) = 0
    BY <1>1, <2>1
  <2> QED BY <2>1, <2>2
<1>3. ASSUME NEW k \in T
      PROVE  k + 1 \in T
  <2> PICK n \in Nat : n = i + k
    OBVIOUS
  <2>1. k \in Nat /\ i \in Nat /\ i + (k + 1) = n + 1
    OBVIOUS
  <2>2. Count(f, n + 1, S) = Count(f, n, S) + One(f[n + 1], S)
        /\ Count(f, n, S) \in Nat /\ One(f[n + 1], S) \in 0 .. 1 /\ Count(f, i, S) \in Nat
    BY <1>1, <2>1
  <2>3. Count(f, n, S) - Count(f, i, S) \in 0 .. k
    OBVIOUS
  <2>4. Count(f, n + 1, S) - Count(f, i, S) \in 0 .. k + 1
    BY ONLY <2>1, <2>2, <2>3
  <2> QED BY <2>1, <2>4
<1>4. T = Nat
  <2> HIDE DEF T
  <2>1. T \in SUBSET Nat
    BY DEF T
  <2> QED BY <1>2, <1>3, <2>1, Induction
<1>5. m - i \in T /\ i + (m - i) = m /\ i \in Nat
  <2>1. m - i \in Nat
    OBVIOUS
  <2> QED BY <1>4, <2>1
<1> QED BY <1>1, <1>5

\* The tokens among the first states are those that Count counts.
LEMMA TokensBelowIs ==
  ASSUME NEW st, st[1] = 0, NEW i \in Nat
  PROVE  TokensBelow(st, i) = Count(st, i, TokenStates)
<1>1. {j \in 2 .. i : st[j] \in TokenStates} = {j \in 1 .. i : st[j] \in TokenStates}
  BY DEF TokenStates
<1> QED BY <1>1 DEF TokensBelow, Count

\* The state stands for a token or a value that is there.
StandsFor(state, c, d, i, m) ==
  IF state \in TokenStates THEN c \in 1 .. d ELSE i - 1 - c \in 1 .. m - 1 - d

\* What a state stands for depends on two places of the stacks.
LEMMA StandsForSome ==
  ASSUME NEW st, Stacked(st), NEW m \in 1 .. Len(st), NEW i \in 2 .. m
  PROVE  /\ TokensBelow(st, i) \in Nat /\ TokensBelow(st, m) \in Nat
         /\ StandsFor(st[i], TokensBelow(st, i), TokensBelow(st, m), i, m)
<1>1. st[1] = 0 /\ Len(st) \in Nat /\ m \in Nat /\ i \in Nat
  BY StackTop DEF Stacked
<1> PICK c, d, b : /\ c = Count(st, i, TokenStates) /\ d = Count(st, m, TokenStates)
                   /\ b = Count(st, i - 1, TokenStates)
  OBVIOUS
<1>2. TokensBelow(st, i) = c /\ TokensBelow(st, m) = d
  BY <1>1, TokensBelowIs
<1>3. d - c \in 0 .. m - i /\ c \in Nat /\ d \in Nat
  <2>1. i \in 0 .. m
    BY <1>1
  <2> QED BY <1>1, <2>1, CountBetween
<1>4. c = b + One(st[i], TokenStates)
  <2>1. i \in Nat \ {0}
    BY <1>1
  <2> QED BY <2>1, CountLast, Zenon
<1>5. b <= i - 1 - 1 /\ b \in Nat
  <2>1. i - 1 \in 1 .. Len(st) /\ i - 1 \in Nat
    BY <1>1
  <2>2. b <= i - 1 - 1
    BY <2>1, FewTokens, Zenon
  <2>3. b \in Nat
    BY <2>1, CountNext
  <2> QED BY <2>2, <2>3
<1>6. CASE st[i] \in TokenStates
  <2>1. c = b + 1
    BY <1>4, <1>6 DEF One
  <2>2. c \in 1 .. d
    BY ONLY <1>1, <1>3, <1>5, <2>1, m \in 1 .. Len(st), i \in 2 .. m
  <2> QED BY <1>2, <1>3, <1>6, <2>2 DEF StandsFor
<1>7. CASE st[i] \notin TokenStates
  <2>1. c = b + 0
    BY <1>4, <1>7 DEF One
  <2>2. i - 1 - c \in 1 .. m - 1 - d
    BY ONLY <1>1, <1>3, <1>5, <2>1, m \in 1 .. Len(st), i \in 2 .. m
  <2> QED BY <1>2, <1>3, <1>7, <2>2 DEF StandsFor
<1> QED BY <1>6, <1>7

\* The stacks are alike up to the m-th state.
Alike(st, tk, va, new, tk2, va2, m) ==
  /\ \A i \in 1 .. m : new[i] = st[i]
  /\ \A j \in 1 .. TokensBelow(st, m) : tk2[j] = tk[j]
  /\ \A j \in 1 .. m - 1 - TokensBelow(st, m) : va2[j] = va[j]

\* Where the states agree, so do the tokens among them.
LEMMA SameBelow ==
  ASSUME NEW st, Stacked(st), NEW m \in 1 .. Len(st), NEW new,
         \A j \in 1 .. m : new[j] = st[j], NEW i \in 1 .. m
  PROVE  TokensBelow(new, i) = TokensBelow(st, i)
<1>1. st[1] = 0 /\ new[1] = 0 /\ i \in Nat /\ m \in Nat
  BY StackTop DEF Stacked
<1>2. Count(new, i, TokenStates) = Count(st, i, TokenStates)
  <2>1. \A j \in 1 .. i : new[j] = st[j]
    BY <1>1
  <2> QED BY <1>1, <2>1, CountSame
<1> QED BY <1>1, <1>2, TokensBelowIs

\* What the states below stand for is the same in both.
LEMMA PiecesSame ==
  ASSUME NEW st, NEW tk, NEW va, NEW new, NEW tk2, NEW va2, Stacked(st),
         NEW m \in 1 .. Len(st), Alike(st, tk, va, new, tk2, va2, m), NEW i \in 2 .. m
  PROVE  Stands(new, tk2, va2, i) = Stands(st, tk, va, i)
<1>1. m \in Nat /\ i \in 1 .. m
  BY StackTop
<1> PICK c, d, s : c = TokensBelow(st, i) /\ d = TokensBelow(st, m) /\ s = st[i]
  OBVIOUS
<1>2. StandsFor(s, c, d, i, m)
  BY StandsForSome
<1>3. /\ \A j \in 1 .. m : new[j] = st[j]
      /\ \A j \in 1 .. d : tk2[j] = tk[j]
      /\ \A j \in 1 .. m - 1 - d : va2[j] = va[j]
  BY DEF Alike
<1>4. TokensBelow(new, i) = c /\ new[i] = s
  BY <1>1, <1>3, SameBelow
<1>5. CASE s \in TokenStates
  <2>1. tk2[c] = tk[c]
    BY <1>2, <1>3, <1>5 DEF StandsFor
  <2>2. s \in {4, 5, 6, 7, 9}
    BY <1>5 DEF TokenStates
  <2> QED BY <1>4, <2>1, <2>2 DEF Stands
<1>6. CASE s \notin TokenStates
  <2>1. va2[i - 1 - c] = va[i - 1 - c]
    BY <1>2, <1>3, <1>6 DEF StandsFor
  <2>2. s \notin {4, 5, 6, 7, 9}
    BY <1>6 DEF TokenStates
  <2> QED BY <1>4, <2>1, <2>2 DEF Stands
<1> QED BY <1>5, <1>6

\* Flattened sequences over S are a sequence over S.
LEMMA FlattenIn ==
  ASSUME NEW S, NEW s \in Seq(Seq(S))
  PROVE  FlattenSeq(s) \in Seq(S)
<1> DEFINE T == {u \in Seq(Seq(S)) : FlattenSeq(u) \in Seq(S)}
<1>1. <<>> \in T
  <2>1. Len(<<>>) = 0 /\ <<>> \in Seq(Seq(S)) /\ <<>> \in Seq(S)
    OBVIOUS
  <2>2. FlattenSeq(<<>>) = <<>>
    BY <2>1, NothingFlat, Zenon
  <2> QED BY <2>1, <2>2, Zenon
<1>2. ASSUME NEW u \in T, NEW x \in Seq(S)
      PROVE  Append(u, x) \in T
  <2>1. u \in Seq(Seq(S)) /\ FlattenSeq(u) \in Seq(S)
    OBVIOUS
  <2>2. FlattenSeq(Append(u, x)) \in Seq(S)
    BY ONLY <2>1, x \in Seq(S), FlattenNext
  <2>3. Append(u, x) \in Seq(Seq(S))
    BY ONLY <2>1, x \in Seq(S)
  <2> QED BY <2>2, <2>3
<1>3. T = Seq(Seq(S))
  <2> HIDE DEF T
  <2>1. T \in SUBSET Seq(Seq(S))
    BY DEF T
  <2> PICK R : R = Seq(S)
    OBVIOUS
  <2> QED BY <1>1, <1>2, <2>1, SequencesGrow
<1> QED BY <1>3

\* What the first states above the bottom stand for.
PieceTo(st, tk, va, k) == [i \in 1 .. k |-> Stands(st, tk, va, i + 1)]
LowTo(st, tk, va, k)   == FlattenSeq(PieceTo(st, tk, va, k))

\* Each state stands for a text over E.
Over(E, st, tk, va, n) == \A i \in 2 .. n : Stands(st, tk, va, i) \in Seq(E)

\* What the states up to one stand for, together, is a text over E.
LEMMA PieceSeq ==
  ASSUME NEW E, NEW st, NEW tk, NEW va, NEW k \in Nat, Over(E, st, tk, va, k + 1)
  PROVE  PieceTo(st, tk, va, k) \in Seq(Seq(E)) /\ LowTo(st, tk, va, k) \in Seq(E)
<1>1. \A i \in 1 .. k : Stands(st, tk, va, i + 1) \in Seq(E)
  <2> TAKE i \in 1 .. k
  <2>1. i + 1 \in 2 .. k + 1
    OBVIOUS
  <2> QED BY <2>1 DEF Over
<1>2. PieceTo(st, tk, va, k) \in [1 .. k -> Seq(E)]
  BY <1>1 DEF PieceTo
<1>3. PieceTo(st, tk, va, k) \in Seq(Seq(E))
  BY <1>2
<1> QED BY <1>3, FlattenIn DEF LowTo

\* The text of one state more.
Grows(E, st, tk, va, k, l, i) ==
  /\ LowTo(st, tk, va, k) \in Seq(E) /\ Stands(st, tk, va, i) \in Seq(E)
  /\ LowTo(st, tk, va, l) = LowTo(st, tk, va, k) \o Stands(st, tk, va, i)

\* Successors, named.
Comes(k, l) == k \in Nat /\ l = k + 1

Follow(k, l, i) == k \in Nat /\ l = k + 1 /\ i = k + 2

\* One state more.
LEMMA LowNext ==
  ASSUME NEW E, NEW st, NEW tk, NEW va, NEW k, NEW l, NEW i, Follow(k, l, i),
         Over(E, st, tk, va, i)
  PROVE  Grows(E, st, tk, va, k, l, i)
<1> PICK y : y = Stands(st, tk, va, i)
  OBVIOUS
<1> PICK p, q : p = PieceTo(st, tk, va, k) /\ q = PieceTo(st, tk, va, l)
  OBVIOUS
<1>0. k \in Nat /\ l \in Nat /\ i \in Nat /\ l = k + 1 /\ i = l + 1 /\ i = k + 2
  BY DEF Follow
<1>1. y \in Seq(E) /\ Over(E, st, tk, va, k + 1) /\ Over(E, st, tk, va, l + 1)
  BY <1>0 DEF Over
<1>2. p \in Seq(Seq(E)) /\ LowTo(st, tk, va, k) \in Seq(E)
  BY <1>0, <1>1, PieceSeq
<1>3. q \in Seq(Seq(E))
  BY <1>0, <1>1, PieceSeq
<1>4. q = Append(p, y)
  <2> PICK t : t = Append(p, y)
    OBVIOUS
  <2> PICK D : D = Seq(E)
    OBVIOUS
  <2>1. p = [j \in 1 .. k |-> Stands(st, tk, va, j + 1)] /\ q = [j \in 1 .. l |-> Stands(st, tk, va, j + 1)]
    BY DEF PieceTo
  <2>2. Len(p) = k /\ Len(q) = l /\ \A j \in 1 .. k : q[j] = p[j]
    BY <1>0, <1>2, <1>3, <2>1
  <2>3. l \in 1 .. l /\ l + 1 = i
    BY <1>0
  <2>4. q[l] = y
    BY <2>1, <2>3
  <2>5. t \in Seq(D) /\ Len(t) = l /\ t[l] = y /\ \A j \in 1 .. k : t[j] = p[j]
    BY ONLY <1>0, <1>1, <1>2, <2>2, D = Seq(E), t = Append(p, y)
  <2>6. \A j \in 1 .. l : t[j] = q[j]
    <3> TAKE j \in 1 .. l
    <3>1. j \in 1 .. k \/ j = l
      BY <1>0
    <3> QED BY <2>2, <2>4, <2>5, <3>1
  <2> QED BY ONLY <1>3, <2>2, <2>5, <2>6, D = Seq(E), t = Append(p, y), SeqEqual
<1>5. FlattenSeq(q) = FlattenSeq(p) \o y
  <2>1. FlattenSeq(p) \in Seq(E)
    BY <1>2 DEF LowTo
  <2>2. FlattenSeq(Append(p, y)) = FlattenSeq(p) \o y
    BY ONLY <1>1, <1>2, <2>1, FlattenNext
  <2> QED BY ONLY <1>4, <2>2
<1> QED BY <1>1, <1>2, <1>5 DEF LowTo, Grows

\* The same states stand for the same text.
LEMMA LowSame ==
  ASSUME NEW st, NEW tk, NEW va, NEW new, NEW tk2, NEW va2, NEW k \in Nat,
         \A i \in 2 .. k + 1 : Stands(new, tk2, va2, i) = Stands(st, tk, va, i)
  PROVE  LowTo(new, tk2, va2, k) = LowTo(st, tk, va, k)
<1>1. \A i \in 1 .. k : Stands(new, tk2, va2, i + 1) = Stands(st, tk, va, i + 1)
  <2> TAKE i \in 1 .. k
  <2>1. i + 1 \in 2 .. k + 1
    OBVIOUS
  <2> QED BY <2>1
<1>2. PieceTo(new, tk2, va2, k) = PieceTo(st, tk, va, k)
  BY <1>1 DEF PieceTo
<1> QED BY <1>2 DEF LowTo

\* All the states together.
LEMMA HeldIs ==
  ASSUME NEW st, NEW tk, NEW va
  PROVE  Held(st, tk, va) = LowTo(st, tk, va, Len(st) - 1)
BY DEF Held, LowTo, PieceTo

\* The stacks hold what was read, and the entries of the open lists are lists.
Trees(E, items, st, tk, va) ==
  /\ Forest(E)
  /\ items \in Seq(Plain(E))
  /\ Over(E, st, tk, va, Len(st))
  /\ \A i \in 2 .. Len(st) : st[i] = 8 => IsList(va[i - 1 - TokensBelow(st, i)])
  /\ Spelled(items, Held(st, tk, va))

\* The same, when what lies above the m-th state makes way for another state.
LEMMA Turned ==
  ASSUME NEW E, NEW items, NEW st, NEW tk, NEW va, Stacked(st), Trees(E, items, st, tk, va),
         NEW F, E \subseteq F, Forest(F), NEW more \in Seq(Plain(F)),
         NEW k, NEW m, NEW n, Follow(k, m, n), m \in 1 .. Len(st),
         NEW new, NEW tk2, NEW va2, Len(new) = n,
         Alike(st, tk, va, new, tk2, va2, m),
         Stands(new, tk2, va2, n) \in Seq(F),
         new[n] = 8 => IsList(va2[m - TokensBelow(new, n)]),
         Spelled(more, LowTo(st, tk, va, k) \o Stands(new, tk2, va2, n))
  PROVE  Trees(F, more, new, tk2, va2)
<1>1. /\ m \in Nat /\ Len(st) \in Nat /\ k \in Nat /\ n \in Nat
      /\ n - 1 = m /\ k + 1 = m /\ k = m - 1
  BY StackTop DEF Follow
<1>2. \A i \in 2 .. m : Stands(new, tk2, va2, i) = Stands(st, tk, va, i)
  BY PiecesSame
<1>3. \A i \in 2 .. m : Stands(st, tk, va, i) \in Seq(E)
  BY <1>1 DEF Trees, Over
<1>4. \A i \in 2 .. n : i \in 2 .. m \/ i = n
  BY <1>1
<1>5. Over(F, new, tk2, va2, n)
  <2>1. \A s \in Seq(E) : s \in Seq(F)
    BY SeqMonotonic
  <2> QED BY <1>2, <1>3, <1>4, <2>1 DEF Over
<1>6. \A i \in 2 .. n : new[i] = 8 => IsList(va2[i - 1 - TokensBelow(new, i)])
  <2> SUFFICES ASSUME NEW i \in 2 .. n, new[i] = 8
               PROVE  IsList(va2[i - 1 - TokensBelow(new, i)])
    OBVIOUS
  <2>1. CASE i = n
    BY <1>1, <2>1
  <2>2. CASE i \in 2 .. m
    <3>1. i \in 1 .. m /\ i \in 2 .. Len(st)
      BY <1>1, <2>2
    <3>2. \A j \in 1 .. m : new[j] = st[j]
      BY DEF Alike
    <3>3. TokensBelow(new, i) = TokensBelow(st, i) /\ st[i] = 8
      BY <3>1, <3>2, SameBelow
    <3> PICK c, d : c = TokensBelow(st, i) /\ d = TokensBelow(st, m)
      OBVIOUS
    <3>4. StandsFor(st[i], c, d, i, m)
      BY <2>2, StandsForSome
    <3>5. i - 1 - c \in 1 .. m - 1 - d
      BY <3>3, <3>4 DEF StandsFor, TokenStates
    <3>6. va2[i - 1 - c] = va[i - 1 - c]
      BY <3>5 DEF Alike
    <3> QED BY <3>1, <3>3, <3>6 DEF Trees
  <2> QED BY <1>4, <2>1, <2>2
<1>7. Held(new, tk2, va2) = LowTo(st, tk, va, k) \o Stands(new, tk2, va2, n)
  <2>2. Held(new, tk2, va2) = LowTo(new, tk2, va2, m)
    BY <1>1, HeldIs
  <2>4. Grows(F, new, tk2, va2, k, m, n)
    BY <1>5, LowNext, Zenon
  <2>5. LowTo(new, tk2, va2, k) = LowTo(st, tk, va, k)
    BY <1>1, <1>2, LowSame
  <2> QED BY <2>2, <2>4, <2>5 DEF Grows
<1> QED BY <1>5, <1>6, <1>7 DEF Trees

-----------------------------------------------------------------------------
(***************************************************************************)
(* The reductions and the shift on any stacks.  m is the last state that   *)
(* stays, k comes before it and n, p and q after it.                       *)
(***************************************************************************)
\* A state counts if it is that of a token.
LEMMA BelowNext ==
  ASSUME NEW st, st[1] = 0, NEW i \in Nat \ {0}
  PROVE  /\ TokensBelow(st, i) \in Nat
         /\ st[i + 1] \in TokenStates => TokensBelow(st, i + 1) = TokensBelow(st, i) + 1
         /\ st[i + 1] \notin TokenStates => TokensBelow(st, i + 1) = TokensBelow(st, i)
<1>1. TokensBelow(st, i) = Count(st, i, TokenStates) /\ TokensBelow(st, i + 1) = Count(st, i + 1, TokenStates)
  BY TokensBelowIs
<1>2. /\ Count(st, i, TokenStates) \in Nat
      /\ Count(st, i + 1, TokenStates) = Count(st, i, TokenStates) + (IF st[i + 1] \in TokenStates THEN 1 ELSE 0)
  BY CountNext
<1> QED BY <1>1, <1>2

\* How many tokens and values the stacks have.
LEMMA StackSizes ==
  ASSUME NEW st, Stacked(st), NEW tk, NEW va, Agreed(st, tk, va)
  PROVE  /\ Len(tk) = TokensBelow(st, Len(st)) /\ Len(tk) \in Nat
         /\ Len(va) = Len(st) - 1 - Len(tk)
         /\ st[1] = 0 /\ Len(st) \in Nat \ {0}
<1>1. st[1] = 0 /\ Len(st) \in Nat \ {0}
  BY StackTop DEF Stacked
<1>2. TokensBelow(st, Len(st)) = OfTokens(st)
  BY <1>1, TokensBelowIs DEF OfTokens
<1>3. OfTokens(st) \in Nat
  BY OfTokensIs
<1> QED BY <1>1, <1>2, <1>3 DEF Agreed

\* The stack of states after a reduction.
LEMMA ReducedTo ==
  ASSUME NEW p, NEW q, NEW k, productions[p] = Production(q, k),
         Stacked(statesStack), Reduced(p),
         NEW m \in 1 .. Len(statesStack), m = Len(statesStack) - k,
         NEW x \in 0 .. 10, x = Transit(statesStack[m], q)
  PROVE  /\ Len(statesStack') = m + 1 /\ statesStack'[m + 1] = x
         /\ \A i \in 1 .. m : statesStack'[i] = statesStack[i]
<1> PICK popped : popped = SubSeq(statesStack, 1, m)
  OBVIOUS
<1> PICK D : D = 0 .. 10
  OBVIOUS
<1>0. statesStack \in Seq(D) /\ m \in 0 .. Len(statesStack)
  BY StackTop DEF Stacked
<1>1. Last(popped) = statesStack[m]
  <2>2. Len(popped) = m /\ \A i \in 1 .. m : popped[i] = statesStack[i]
    BY <1>0, FirstOf
  <2> QED BY <2>2 DEF Last
<1>2. productions[p].opcode = q /\ productions[p].rhsLength = k
  BY DEF Production
<1>3. Below(statesStack, k) = popped
  BY DEF Below
<1>4. statesStack' = Append(popped, Transit(Last(popped), q))
  BY <1>2, <1>3, Zenon DEF Reduced
<1>5. statesStack' = Append(SubSeq(statesStack, 1, m), x)
  BY <1>1, <1>4
<1> QED BY <1>0, <1>5, Exchanged

\* The text on the stacks, and that of the last one, two or three states.
LEMMA HeldNone ==
  ASSUME NEW E, NEW items, NEW st, NEW tk, NEW va, Trees(E, items, st, tk, va),
         NEW k, Comes(k, Len(st))
  PROVE  /\ Held(st, tk, va) = LowTo(st, tk, va, k) /\ LowTo(st, tk, va, k) \in Seq(E)
         /\ Over(E, st, tk, va, Len(st))
<1>1. /\ Over(E, st, tk, va, Len(st)) /\ Over(E, st, tk, va, k + 1)
      /\ Len(st) - 1 = k /\ k \in Nat
  BY DEF Trees, Comes
<1>2. LowTo(st, tk, va, k) \in Seq(E)
  BY <1>1, PieceSeq, Zenon
<1>3. Held(st, tk, va) = LowTo(st, tk, va, k)
  BY <1>1, HeldIs
<1> QED BY <1>1, <1>2, <1>3

\* What lies under the states on top, and what these stand for.
LEMMA HeldOne ==
  ASSUME NEW E, NEW items, NEW st, NEW tk, NEW va, Trees(E, items, st, tk, va),
         NEW k, NEW l, Follow(k, l, Len(st))
  PROVE  /\ Held(st, tk, va) = LowTo(st, tk, va, l)
         /\ Grows(E, st, tk, va, k, l, Len(st))
<1>1. Comes(l, Len(st))
  BY DEF Comes, Follow
<1>2. Held(st, tk, va) = LowTo(st, tk, va, l) /\ Over(E, st, tk, va, Len(st))
  BY ONLY Trees(E, items, st, tk, va), <1>1, HeldNone
<1> QED BY <1>2, LowNext, Zenon

LEMMA HeldTwo ==
  ASSUME NEW E, NEW items, NEW st, NEW tk, NEW va, Trees(E, items, st, tk, va),
         NEW k, NEW l, NEW i, Follow(k, l, i), Follow(l, i, Len(st))
  PROVE  /\ Held(st, tk, va) = LowTo(st, tk, va, i)
         /\ Grows(E, st, tk, va, k, l, i) /\ Grows(E, st, tk, va, l, i, Len(st))
<1>1. Comes(i, Len(st)) /\ i \in Nat /\ Len(st) = i + 1
  BY DEF Comes, Follow
<1>2. Held(st, tk, va) = LowTo(st, tk, va, i) /\ Over(E, st, tk, va, Len(st))
  BY ONLY Trees(E, items, st, tk, va), <1>1, HeldNone
<1>3. Over(E, st, tk, va, i)
  BY <1>1, <1>2 DEF Over
<1> QED BY <1>2, <1>3, LowNext, Zenon

LEMMA HeldThree ==
  ASSUME NEW E, NEW items, NEW st, NEW tk, NEW va, Trees(E, items, st, tk, va),
         NEW k, NEW l, NEW i, NEW j,
         Follow(k, l, i), Follow(l, i, j), Follow(i, j, Len(st))
  PROVE  /\ Held(st, tk, va) = LowTo(st, tk, va, j)
         /\ Grows(E, st, tk, va, k, l, i) /\ Grows(E, st, tk, va, l, i, j)
         /\ Grows(E, st, tk, va, i, j, Len(st))
<1>1. Comes(j, Len(st)) /\ i \in Nat /\ j = i + 1 /\ Len(st) = i + 2
  BY DEF Comes, Follow
<1>2. Held(st, tk, va) = LowTo(st, tk, va, j) /\ Over(E, st, tk, va, Len(st))
  BY ONLY Trees(E, items, st, tk, va), <1>1, HeldNone
<1>3. Over(E, st, tk, va, i) /\ Over(E, st, tk, va, j)
  BY <1>1, <1>2 DEF Over
<1> QED BY <1>2, <1>3, LowNext, Zenon

\* What each state stands for.
LEMMA StandsIs ==
  ASSUME NEW st, NEW tk, NEW va, NEW i, NEW c, NEW j, TokensBelow(st, i) = c, j = i - 1 - c
  PROVE  /\ st[i] = 4 => Stands(st, tk, va, i) = <<Num(stoi(tk[c]))>>
         /\ st[i] \in {5, 6} => Stands(st, tk, va, i) = <<StringOrSymbol(tk[c])>>
         /\ st[i] = 7 => Stands(st, tk, va, i) = <<Open>>
         /\ st[i] = 9 => Stands(st, tk, va, i) = <<Close>>
         /\ st[i] = 8 => Stands(st, tk, va, i) = Entries(va[j])
         /\ st[i] \in {1, 2, 3, 10} => Stands(st, tk, va, i) = <<va[j]>>
BY DEF Stands

\* The tokens below a state that is put on the m-th.
LEMMA BelowTop ==
  ASSUME NEW st, Stacked(st), NEW m, NEW n, Comes(m, n), m \in 1 .. Len(st),
         NEW new, \A i \in 1 .. m : new[i] = st[i]
  PROVE  /\ TokensBelow(st, m) \in Nat
         /\ new[n] \in TokenStates => TokensBelow(new, n) = TokensBelow(st, m) + 1
         /\ new[n] \notin TokenStates => TokensBelow(new, n) = TokensBelow(st, m)
<1>1. m \in Nat \ {0} /\ m \in 1 .. m /\ 1 \in 1 .. m /\ n = m + 1
  BY StackTop DEF Comes
<1>2. new[1] = 0 /\ st[1] = 0
  BY <1>1 DEF Stacked
<1>3. TokensBelow(new, m) = TokensBelow(st, m)
  BY <1>1, SameBelow, Zenon
<1> QED BY <1>1, <1>2, <1>3, BelowNext


\* The same on one stack.
LEMMA SameStack ==
  ASSUME NEW st, Stacked(st), NEW m, NEW n, Comes(m, n), m \in 1 .. Len(st)
  PROVE  /\ TokensBelow(st, m) \in Nat
         /\ st[n] \in TokenStates => TokensBelow(st, n) = TokensBelow(st, m) + 1
         /\ st[n] \notin TokenStates => TokensBelow(st, n) = TokensBelow(st, m)
BY BelowTop

\* Exp : Atom, Exp : List.
LEMMA ExpTurns ==
  ASSUME NEW E, NEW items, NEW st, NEW tk, NEW va, Stacked(st), Agreed(st, tk, va),
         Trees(E, items, st, tk, va),
         NEW k, NEW m, NEW n, Follow(k, m, n), Len(st) = n, st[n] \in {2, 3},
         NEW new, Len(new) = n, new[n] \in {1, 10}, \A i \in 1 .. m : new[i] = st[i]
  PROVE  Trees(E, items, new, tk, va)
<1> PICK d : d = TokensBelow(st, m)
  OBVIOUS
<1>1. m \in 1 .. Len(st) /\ Comes(m, n) /\ Follow(k, m, Len(st))
  BY DEF Follow, Comes
<1>2. d \in Nat /\ TokensBelow(st, n) = d /\ TokensBelow(new, n) = d
  <2>1. st[n] \notin TokenStates /\ new[n] \notin TokenStates
    BY DEF TokenStates
  <2> QED BY <1>1, <2>1, BelowTop, SameStack
<1> PICK j : j = n - 1 - d
  OBVIOUS
<1>3. Stands(st, tk, va, n) = <<va[j]>> /\ Stands(new, tk, va, n) = <<va[j]>>
  <2>1. st[n] \in {1, 2, 3, 10} /\ new[n] \in {1, 2, 3, 10}
    OBVIOUS
  <2> QED BY <1>2, <2>1, StandsIs
<1>4. Held(st, tk, va) = LowTo(st, tk, va, m) /\ Grows(E, st, tk, va, k, m, n)
  <2>1. Follow(k, m, Len(st))
    BY <1>1
  <2>2. Held(st, tk, va) = LowTo(st, tk, va, m) /\ Grows(E, st, tk, va, k, m, Len(st))
    BY ONLY Trees(E, items, st, tk, va), <2>1, HeldOne
  <2> QED BY <2>2
<1>5. /\ Forest(E) /\ items \in Seq(Plain(E)) /\ Spelled(items, Held(st, tk, va)) /\ E \subseteq E
  BY DEF Trees
<1>6. Alike(st, tk, va, new, tk, va, m)
  BY Zenon DEF Alike
<1>7. Stands(new, tk, va, n) \in Seq(E) /\ new[n] # 8
  BY <1>3, <1>4 DEF Grows
<1>8. Spelled(items, LowTo(st, tk, va, k) \o Stands(new, tk, va, n))
  BY ONLY <1>3, <1>4, <1>5 DEF Grows
<1> QED BY <1>1, <1>5, <1>6, <1>7, <1>8, Turned, Zenon

\* Atom : NUMBER, Atom : STRING, Atom : SYMBOL.
LEMMA AtomTurns ==
  ASSUME NEW E, NEW items, NEW st, NEW tk, NEW va, Stacked(st), Agreed(st, tk, va),
         Trees(E, items, st, tk, va),
         NEW k, NEW m, NEW n, Follow(k, m, n), Len(st) = n, st[n] \in {4, 5, 6},
         NEW v, Stands(st, tk, va, n) = <<v>>,
         NEW new, Len(new) = n, new[n] = 2, \A i \in 1 .. m : new[i] = st[i],
         NEW tk2, \A j \in 1 .. Len(tk) - 1 : tk2[j] = tk[j],
         NEW va2, \A j \in 1 .. Len(va) : va2[j] = va[j], va2[Len(va) + 1] = v
  PROVE  Trees(E, items, new, tk2, va2)
<1> PICK d : d = TokensBelow(st, m)
  OBVIOUS
<1>1. m \in 1 .. Len(st) /\ Comes(m, n) /\ m \in Nat /\ n = m + 1
  BY DEF Follow, Comes
<1>2. Len(tk) = TokensBelow(st, n) /\ Len(va) = n - 1 - Len(tk)
  BY StackSizes
<1>3. d \in Nat /\ TokensBelow(st, n) = d + 1 /\ TokensBelow(new, n) = d
  <2>1. st[n] \in TokenStates /\ new[n] \notin TokenStates
    BY DEF TokenStates
  <2> QED BY <1>1, <2>1, BelowTop, SameStack
<1> PICK j : j = n - 1 - d
  OBVIOUS
<1>4. Len(tk) - 1 = d /\ Len(va) = m - 1 - d /\ Len(va) + 1 = j
  BY ONLY <1>1, <1>2, <1>3, j = n - 1 - d
<1>5. Stands(new, tk2, va2, n) = <<v>>
  <2>1. new[n] \in {1, 2, 3, 10} /\ va2[j] = v
    BY <1>4
  <2>2. Stands(new, tk2, va2, n) = <<va2[j]>>
    BY <1>3, <2>1, StandsIs
  <2> QED BY <2>1, <2>2
<1>6. Held(st, tk, va) = LowTo(st, tk, va, m) /\ Grows(E, st, tk, va, k, m, n)
  <2>1. Follow(k, m, Len(st))
    OBVIOUS
  <2>2. Held(st, tk, va) = LowTo(st, tk, va, m) /\ Grows(E, st, tk, va, k, m, Len(st))
    BY ONLY Trees(E, items, st, tk, va), <2>1, HeldOne
  <2> QED BY <2>2
<1>7. Alike(st, tk, va, new, tk2, va2, m)
  BY <1>4 DEF Alike
<1>8. /\ Forest(E) /\ items \in Seq(Plain(E)) /\ Spelled(items, Held(st, tk, va)) /\ E \subseteq E
  BY DEF Trees
<1>9. Stands(new, tk2, va2, n) = Stands(st, tk, va, n)
  BY <1>5
<1>10. Stands(new, tk2, va2, n) \in Seq(E) /\ new[n] # 8
  BY <1>6, <1>9 DEF Grows
<1>11. Spelled(items, LowTo(st, tk, va, k) \o Stands(new, tk2, va2, n))
  BY ONLY <1>6, <1>8, <1>9 DEF Grows
<1> QED BY <1>1, <1>7, <1>8, <1>10, <1>11, Turned, Zenon

\* ListEntries : %empty.
LEMMA EmptyTurns ==
  ASSUME NEW E, NEW items, NEW st, NEW tk, NEW va, Stacked(st), Agreed(st, tk, va),
         Trees(E, items, st, tk, va),
         NEW k, NEW m, NEW n, Follow(k, m, n), Len(st) = m,
         NEW new, Len(new) = n, new[n] = 8, \A i \in 1 .. m : new[i] = st[i],
         NEW va2, \A j \in 1 .. Len(va) : va2[j] = va[j], va2[Len(va) + 1] = List(<<>>)
  PROVE  Trees(E, items, new, tk, va2)
<1> PICK d : d = TokensBelow(st, m)
  OBVIOUS
<1>1. m \in 1 .. Len(st) /\ Comes(m, n) /\ m \in Nat /\ n = m + 1
  BY DEF Follow, Comes
<1>2. Len(tk) = d /\ Len(va) = m - 1 - Len(tk)
  BY StackSizes
<1>3. d \in Nat /\ TokensBelow(new, n) = d
  <2>1. new[n] \notin TokenStates
    BY DEF TokenStates
  <2> QED BY <1>1, <2>1, BelowTop
<1> PICK j : j = n - 1 - d
  OBVIOUS
<1>4. Len(va) = m - 1 - d /\ Len(va) + 1 = j /\ m - d = j
  BY ONLY <1>1, <1>2, <1>3, j = n - 1 - d
<1>5. va2[j] = List(<<>>)
  BY <1>4
<1>6. IsList(va2[j]) /\ Entries(va2[j]) = <<>>
  BY <1>5 DEF List, IsList, ExpType, Entries
<1>7. Stands(new, tk, va2, n) = <<>>
  <2>1. Stands(new, tk, va2, n) = Entries(va2[j])
    BY <1>3, StandsIs
  <2> QED BY <1>6, <2>1
<1>8. Held(st, tk, va) = LowTo(st, tk, va, k) /\ LowTo(st, tk, va, k) \in Seq(E)
  <2>1. Comes(k, Len(st))
    BY DEF Comes, Follow
  <2> QED BY ONLY Trees(E, items, st, tk, va), <2>1, HeldNone
<1>9. LowTo(st, tk, va, k) \o <<>> = LowTo(st, tk, va, k)
  BY ONLY <1>8
<1>10. Alike(st, tk, va, new, tk, va2, m)
  BY <1>4 DEF Alike
<1>11. /\ Forest(E) /\ items \in Seq(Plain(E)) /\ Spelled(items, Held(st, tk, va)) /\ E \subseteq E
  BY DEF Trees
<1>12. Stands(new, tk, va2, n) \in Seq(E) /\ IsList(va2[m - TokensBelow(new, n)])
  <2>1. <<>> \in Seq(E)
    OBVIOUS
  <2> QED BY <1>3, <1>4, <1>6, <1>7, <2>1
<1>13. Spelled(items, LowTo(st, tk, va, k) \o Stands(new, tk, va2, n))
  BY ONLY <1>7, <1>8, <1>9, <1>11
<1> QED BY <1>1, <1>10, <1>11, <1>12, <1>13, Turned, Zenon

\* A list is an entry more, a token less.
LEMMA OneMore ==
  ASSUME NEW S, NEW a \in Seq(S), NEW b \in Seq(S), NEW x, <<x>> \in Seq(S)
  PROVE  /\ x \in S /\ Append(b, x) \in Seq(S)
         /\ (a \o b) \o <<x>> = a \o Append(b, x)
<1>1. x \in S
  <2>1. Len(<<x>>) = 1 /\ <<x>>[1] = x
    OBVIOUS
  <2> QED BY <2>1
<1> PICK y : y = <<x>>
  OBVIOUS
<1>2. (a \o b) \o y = a \o (b \o y)
  <2>1. y \in Seq(S)
    OBVIOUS
  <2> QED BY ONLY a \in Seq(S), b \in Seq(S), <2>1, ConcatAssociative
<1>3. b \o y = Append(b, x)
  BY ONLY b \in Seq(S), y = <<x>>, <1>1
<1>4. (a \o b) \o <<x>> = a \o Append(b, x)
  BY ONLY <1>2, <1>3, y = <<x>>
<1>5. Append(b, x) \in Seq(S)
  BY <1>1
<1> QED BY <1>1, <1>4, <1>5

\* The states of a list and one more entry on top, and what they make way for.
Lengthens(st, new, k, m, n, p) ==
  /\ Follow(k, m, n) /\ Follow(m, n, p) /\ Len(st) = p
  /\ st[n] = 8 /\ st[p] = 10
  /\ Len(new) = n /\ new[n] = 8 /\ \A i \in 1 .. m : new[i] = st[i]

Lengthened(va, va2) ==
  /\ \A j \in 1 .. Len(va) - 2 : va2[j] = va[j]
  /\ va2[Len(va) - 1] = List(Append(va[Len(va) - 1][2], va[Len(va)]))

\* ListEntries : ListEntries Exp.
LEMMA EntryTurns ==
  ASSUME NEW E, NEW items, NEW st, NEW tk, NEW va, Stacked(st), Agreed(st, tk, va),
         Trees(E, items, st, tk, va),
         NEW k, NEW m, NEW n, NEW p, NEW new, Lengthens(st, new, k, m, n, p),
         NEW va2, Lengthened(va, va2)
  PROVE  Trees(E, items, new, tk, va2)
<1> PICK list, exp : list = va[Len(va) - 1] /\ exp = va[Len(va)]
  OBVIOUS
<1>0. /\ Follow(k, m, n) /\ Follow(m, n, p) /\ Len(st) = p
      /\ st[n] = 8 /\ st[p] = 10
      /\ Len(new) = n /\ new[n] = 8 /\ \A i \in 1 .. m : new[i] = st[i]
      /\ \A j \in 1 .. Len(va) - 2 : va2[j] = va[j]
      /\ va2[Len(va) - 1] = List(Append(list[2], exp))
  BY DEF Lengthens, Lengthened
<1> USE <1>0
<1> PICK d : d = TokensBelow(st, m)
  OBVIOUS
<1>1. /\ m \in 1 .. Len(st) /\ n \in 1 .. Len(st) /\ n \in 2 .. Len(st)
      /\ Comes(m, n) /\ Comes(n, p) /\ m \in Nat /\ n = m + 1 /\ p = m + 2
  BY DEF Follow, Comes
<1>2. Len(tk) = TokensBelow(st, p) /\ Len(va) = p - 1 - Len(tk)
  BY StackSizes
<1>3. /\ d \in Nat /\ TokensBelow(st, n) = d /\ TokensBelow(st, p) = d
      /\ TokensBelow(new, n) = d
  <2>1. st[n] \notin TokenStates /\ st[p] \notin TokenStates /\ new[n] \notin TokenStates
    BY DEF TokenStates
  <2>2. d \in Nat /\ TokensBelow(st, n) = d
    BY <1>1, <2>1, SameStack
  <2>4. TokensBelow(new, n) = d
    BY ONLY <1>1, <2>1, Stacked(st), \A a \in 1 .. m : new[a] = st[a],
            d = TokensBelow(st, m), BelowTop
  <2>3. TokensBelow(st, p) = TokensBelow(st, n)
    BY <1>1, <2>1, SameStack
  <2> QED BY <2>2, <2>3, <2>4
<1> PICK j, i : j = n - 1 - d /\ i = p - 1 - d
  OBVIOUS
<1>4. Len(va) - 2 = m - 1 - d /\ Len(va) - 1 = j /\ Len(va) = i /\ m - d = j
  BY ONLY <1>1, <1>2, <1>3, j = n - 1 - d /\ i = p - 1 - d
<1>5. Stands(st, tk, va, n) = Entries(list) /\ Stands(st, tk, va, p) = <<exp>>
  <2>1. va[j] = list /\ va[i] = exp
    BY <1>4
  <2>2. Stands(st, tk, va, n) = Entries(va[j])
    BY ONLY <1>3, st[n] = 8, j = n - 1 - d /\ i = p - 1 - d, StandsIs
  <2>3. Stands(st, tk, va, p) = <<va[i]>>
    <3>1. st[p] \in {1, 2, 3, 10}
      OBVIOUS
    <3> QED BY ONLY <1>3, <3>1, j = n - 1 - d /\ i = p - 1 - d, StandsIs
  <2> QED BY <2>1, <2>2, <2>3
<1>6. IsList(list)
  <2>1. IsList(va[n - 1 - TokensBelow(st, n)])
    BY <1>1 DEF Trees
  <2> QED BY <1>3, <1>4, <2>1
<1>7. list[2] = Entries(list)
  BY <1>6 DEF Entries
<1> PICK low, ents : low = LowTo(st, tk, va, k) /\ ents = Entries(list)
  OBVIOUS
<1>8. Stands(new, tk, va2, n) = Append(ents, exp) /\ IsList(va2[j])
  <2>1. va2[j] = List(Append(ents, exp))
    BY ONLY <1>4, <1>7, va2[Len(va) - 1] = List(Append(list[2], exp)),
            low = LowTo(st, tk, va, k) /\ ents = Entries(list)
  <2>2. Stands(new, tk, va2, n) = Entries(va2[j])
    BY ONLY <1>3, new[n] = 8, j = n - 1 - d /\ i = p - 1 - d, StandsIs
  <2>3. IsList(va2[j]) /\ Entries(va2[j]) = Append(ents, exp)
    BY ONLY <2>1 DEF List, IsList, ExpType, Entries
  <2> QED BY <2>2, <2>3
<1>9. /\ Held(st, tk, va) = LowTo(st, tk, va, n)
      /\ Grows(E, st, tk, va, k, m, n) /\ Grows(E, st, tk, va, m, n, p)
  <2>1. Follow(k, m, n) /\ Follow(m, n, Len(st))
    OBVIOUS
  <2>2. /\ Held(st, tk, va) = LowTo(st, tk, va, n)
        /\ Grows(E, st, tk, va, k, m, n) /\ Grows(E, st, tk, va, m, n, Len(st))
    BY ONLY Trees(E, items, st, tk, va), <2>1, HeldTwo
  <2> QED BY <2>2
<1>10. /\ low \in Seq(E) /\ ents \in Seq(E) /\ <<exp>> \in Seq(E)
       /\ Held(st, tk, va) = (low \o ents) \o <<exp>>
  BY ONLY <1>5, <1>9, low = LowTo(st, tk, va, k) /\ ents = Entries(list) DEF Grows
<1>11. Append(ents, exp) \in Seq(E) /\ (low \o ents) \o <<exp>> = low \o Append(ents, exp)
  BY ONLY <1>10, OneMore
<1>12. Alike(st, tk, va, new, tk, va2, m)
  BY <1>4 DEF Alike
<1>13. /\ Forest(E) /\ items \in Seq(Plain(E)) /\ Spelled(items, Held(st, tk, va)) /\ E \subseteq E
  BY DEF Trees
<1>14. Stands(new, tk, va2, n) \in Seq(E) /\ IsList(va2[m - TokensBelow(new, n)])
  BY <1>3, <1>4, <1>8, <1>11
<1>15. Spelled(items, LowTo(st, tk, va, k) \o Stands(new, tk, va2, n))
  BY ONLY <1>8, <1>10, <1>11, <1>13, low = LowTo(st, tk, va, k) /\ ents = Entries(list)
<1> QED BY <1>1, <1>12, <1>13, <1>14, <1>15, Turned, Zenon

\* A list takes the place of its parentheses and what is between them.
LEMMA ListIn ==
  ASSUME NEW E, Forest(E), NEW items \in Seq(Plain(E)), NEW low \in Seq(E),
         NEW list, IsList(list), NEW ents, ents = Entries(list), ents \in Seq(E),
         Spelled(items, ((low \o <<Open>>) \o ents) \o <<Close>>),
         NEW F, F = E \cup {list}
  PROVE  /\ E \subseteq F /\ Forest(F) /\ items \in Seq(Plain(F))
         /\ Spelled(items, low \o <<list>>) /\ <<list>> \in Seq(F)
<1>1. E \subseteq F /\ list \in F
  OBVIOUS
<1>2. \A s \in Seq(E) : s \in Seq(F)
  BY <1>1, SeqMonotonic
<1>3. Forest(F)
  <2>1. Open \in F /\ Close \in F /\ \A e \in E : Entries(e) \in Seq(E)
    BY <1>1 DEF Forest
  <2>2. \A e \in F : e \in E \/ e = list
    OBVIOUS
  <2> QED BY <1>2, <2>1, <2>2 DEF Forest
<1>4. items \in Seq(Plain(F))
  <2>1. Plain(E) \subseteq Plain(F)
    BY <1>1 DEF Plain
  <2> QED BY <2>1, SeqMonotonic
<1>5. ((low \o <<Open>>) \o ents) \o <<Close>> = low \o Spread(list)
  <2> PICK a, b : a = <<Open>> /\ b = <<Close>>
    OBVIOUS
  <2>1. a \in Seq(E) /\ b \in Seq(E)
    BY DEF Forest
  <2> PICK ae : ae = a \o ents
    OBVIOUS
  <2>2. ae \in Seq(E)
    BY ONLY <2>1, ae = a \o ents, ents \in Seq(E)
  <2>3. (low \o a) \o ents = low \o ae
    BY ONLY <2>1, ae = a \o ents, ents \in Seq(E), low \in Seq(E), ConcatAssociative, SMTT(30)
  <2>4. (low \o ae) \o b = low \o (ae \o b)
    BY ONLY <2>1, <2>2, low \in Seq(E), ConcatAssociative, SMTT(30)
  <2>5. Spread(list) = <<Open>> \o ents \o <<Close>>
    BY DEF Spread
  <2> QED BY ONLY <2>3, <2>4, <2>5, ae = a \o ents, a = <<Open>> /\ b = <<Close>>
<1>6. Spelled(items, low \o Spread(list)) /\ low \in Seq(F)
  BY <1>2, <1>5
<1>7. Spelled(items, low \o <<list>>)
  BY ONLY <1>1, <1>3, <1>4, <1>6, IsList(list), SpelledFolded
<1>8. <<list>> \in Seq(F)
  BY <1>1
<1> QED BY <1>1, <1>3, <1>4, <1>7, <1>8

\* The states of a list on top, and what they make way for.
Closes(st, k, m, n, p, q) ==
  /\ Follow(k, m, n) /\ Follow(m, n, p) /\ Follow(n, p, q) /\ Len(st) = q
  /\ st[n] = 7 /\ st[p] = 8 /\ st[q] = 9

ClosedOn(st, new, m, n) ==
  Len(new) = n /\ new[n] = 3 /\ \A a \in 1 .. m : new[a] = st[a]

TwoLess(tk, tk2) == \A b \in 1 .. Len(tk) - 2 : tk2[b] = tk[b]

\* List : '(' ListEntries ')'.
LEMMA ListTurns ==
  ASSUME NEW E, NEW items, NEW st, NEW tk, NEW va, Stacked(st), Agreed(st, tk, va),
         Trees(E, items, st, tk, va),
         NEW k, NEW m, NEW n, NEW p, NEW q, Closes(st, k, m, n, p, q),
         NEW new, ClosedOn(st, new, m, n), NEW tk2, TwoLess(tk, tk2)
  PROVE  \E F : Trees(F, items, new, tk2, va)
<1>0. /\ Follow(k, m, n) /\ Follow(m, n, p) /\ Follow(n, p, q) /\ Len(st) = q
      /\ st[n] = 7 /\ st[p] = 8 /\ st[q] = 9
      /\ Len(new) = n /\ new[n] = 3 /\ \A a \in 1 .. m : new[a] = st[a]
      /\ \A b \in 1 .. Len(tk) - 2 : tk2[b] = tk[b]
  BY DEF Closes, ClosedOn, TwoLess
<1> USE <1>0
<1> PICK d : d = TokensBelow(st, m)
  OBVIOUS
<1>1. /\ m \in 1 .. Len(st) /\ n \in 1 .. Len(st) /\ p \in 1 .. Len(st) /\ p \in 2 .. Len(st)
      /\ Comes(m, n) /\ Comes(n, p) /\ Comes(p, q)
      /\ m \in Nat /\ n = m + 1 /\ p = m + 2 /\ q = m + 3
  BY DEF Follow, Comes
<1>2. Len(tk) = TokensBelow(st, q) /\ Len(va) = q - 1 - Len(tk)
  BY StackSizes
<1>3. /\ d \in Nat /\ TokensBelow(st, n) = d + 1 /\ TokensBelow(st, p) = d + 1
      /\ TokensBelow(st, q) = d + 2 /\ TokensBelow(new, n) = d
  <2>1. /\ st[n] \in TokenStates /\ st[p] \notin TokenStates /\ st[q] \in TokenStates
        /\ new[n] \notin TokenStates
    BY DEF TokenStates
  <2>2. d \in Nat /\ TokensBelow(st, n) = d + 1
    BY <1>1, <2>1, SameStack
  <2>3. TokensBelow(new, n) = d
    BY ONLY <1>1, <2>1, Stacked(st), \A a \in 1 .. m : new[a] = st[a],
            d = TokensBelow(st, m), BelowTop
  <2>4. TokensBelow(st, p) = TokensBelow(st, n)
    BY <1>1, <2>1, SameStack
  <2>5. TokensBelow(st, q) = TokensBelow(st, p) + 1
    BY <1>1, <2>1, SameStack
  <2> QED BY ONLY <2>2, <2>3, <2>4, <2>5
<1> PICK c, e, j : c = d + 1 /\ e = d + 2 /\ j = m - d
  OBVIOUS
<1>4. Len(tk) - 2 = d /\ j = p - 1 - c /\ j = n - 1 - d /\ m - 1 - d = j - 1
  BY ONLY <1>1, <1>2, <1>3, c = d + 1 /\ e = d + 2 /\ j = m - d
<1> PICK list, ents, low : list = va[j] /\ ents = Entries(list) /\ low = LowTo(st, tk, va, k)
  OBVIOUS
<1>5. /\ Stands(st, tk, va, n) = <<Open>> /\ Stands(st, tk, va, p) = ents
      /\ Stands(st, tk, va, q) = <<Close>> /\ Stands(new, tk2, va, n) = <<list>>
  <2>1. Stands(st, tk, va, n) = <<Open>>
    BY ONLY st[n] = 7, StandsIs
  <2>2. Stands(st, tk, va, q) = <<Close>>
    BY ONLY st[q] = 9, StandsIs
  <2>3. Stands(st, tk, va, p) = Entries(va[j])
    <3>1. TokensBelow(st, p) = c /\ j = p - 1 - c
      BY <1>3, <1>4
    <3> QED BY ONLY <3>1, st[p] = 8, StandsIs
  <2>4. Stands(new, tk2, va, n) = <<va[j]>>
    <3>1. TokensBelow(new, n) = d /\ j = n - 1 - d /\ new[n] \in {1, 2, 3, 10}
      BY <1>3, <1>4
    <3> QED BY ONLY <3>1, StandsIs
  <2> QED BY <2>1, <2>2, <2>3, <2>4
<1>6. IsList(list)
  <2>1. IsList(va[p - 1 - TokensBelow(st, p)])
    BY <1>1 DEF Trees
  <2> QED BY <1>3, <1>4, <2>1
<1>7. /\ Held(st, tk, va) = LowTo(st, tk, va, p)
      /\ Grows(E, st, tk, va, k, m, n) /\ Grows(E, st, tk, va, m, n, p)
      /\ Grows(E, st, tk, va, n, p, q)
  <2>1. Follow(k, m, n) /\ Follow(m, n, p) /\ Follow(n, p, Len(st))
    OBVIOUS
  <2>2. /\ Held(st, tk, va) = LowTo(st, tk, va, p)
        /\ Grows(E, st, tk, va, k, m, n) /\ Grows(E, st, tk, va, m, n, p)
        /\ Grows(E, st, tk, va, n, p, Len(st))
    BY ONLY Trees(E, items, st, tk, va), <2>1, HeldThree
  <2> QED BY <2>2
<1>8. /\ low \in Seq(E) /\ ents \in Seq(E)
      /\ Held(st, tk, va) = ((low \o <<Open>>) \o ents) \o <<Close>>
  BY ONLY <1>5, <1>7, list = va[j] /\ ents = Entries(list) /\ low = LowTo(st, tk, va, k)
          DEF Grows
<1>9. Forest(E) /\ items \in Seq(Plain(E)) /\ Spelled(items, Held(st, tk, va))
  BY DEF Trees
<1> PICK F : F = E \cup {list}
  OBVIOUS
<1>10. /\ E \subseteq F /\ Forest(F) /\ items \in Seq(Plain(F))
       /\ Spelled(items, low \o <<list>>) /\ <<list>> \in Seq(F)
  <2>1. Spelled(items, ((low \o <<Open>>) \o ents) \o <<Close>>)
    BY <1>8, <1>9
  <2>2. ents = Entries(list) /\ F = E \cup {list}
    OBVIOUS
  <2>3. Forest(E) /\ items \in Seq(Plain(E)) /\ low \in Seq(E) /\ ents \in Seq(E)
    BY <1>8, <1>9
  <2> QED BY ONLY <1>6, <2>1, <2>2, <2>3, ListIn, SMTT(30)
<1>11. Alike(st, tk, va, new, tk2, va, m)
  <2>1. Len(tk) - 2 = TokensBelow(st, m)
    BY <1>4
  <2> QED BY <2>1 DEF Alike
<1>12. Stands(new, tk2, va, n) \in Seq(F) /\ new[n] # 8
  BY <1>5, <1>10
<1>13. Spelled(items, LowTo(st, tk, va, k) \o Stands(new, tk2, va, n))
  BY ONLY <1>5, <1>10, list = va[j] /\ ents = Entries(list) /\ low = LowTo(st, tk, va, k)
<1>14. Trees(F, items, new, tk2, va)
  BY <1>1, <1>10, <1>11, <1>12, <1>13, Turned, Zenon
<1> QED BY <1>14

\* A token is shifted.
LEMMA ShiftTurns ==
  ASSUME NEW E, NEW items, NEW st, NEW tk, NEW va, Stacked(st), Agreed(st, tk, va),
         Trees(E, items, st, tk, va),
         NEW k, NEW m, NEW n, Follow(k, m, n), Len(st) = m,
         NEW new, Len(new) = n, new[n] \in TokenStates, \A a \in 1 .. m : new[a] = st[a],
         NEW text, NEW tk2, \A b \in 1 .. Len(tk) : tk2[b] = tk[b], tk2[Len(tk) + 1] = text,
         NEW item, Entries(item) = <<>>, ~ IsList(item),
         new[n] = 4 => item = Num(stoi(text)),
         new[n] \in {5, 6} => item = StringOrSymbol(text),
         new[n] = 7 => item = Open,
         new[n] = 9 => item = Close
  PROVE  \E F : Trees(F, Append(items, item), new, tk2, va)
<1> PICK d, c : d = TokensBelow(st, m) /\ c = d + 1
  OBVIOUS
<1>1. m \in 1 .. Len(st) /\ Comes(m, n) /\ m \in Nat /\ n = m + 1
  BY DEF Follow, Comes
<1>2. Len(tk) = d /\ Len(va) = m - 1 - Len(tk)
  BY StackSizes
<1>3. d \in Nat /\ TokensBelow(new, n) = c
  BY ONLY <1>1, new[n] \in TokenStates, Stacked(st), \A a \in 1 .. m : new[a] = st[a],
          d = TokensBelow(st, m) /\ c = d + 1, BelowTop
<1>4. tk2[c] = text
  BY <1>2
<1>5. Stands(new, tk2, va, n) = <<item>>
  <2>1. new[n] \in {4, 5, 6, 7, 9}
    BY DEF TokenStates
  <2> PICK j : j = n - 1 - c
    OBVIOUS
  <2>2. /\ new[n] = 4 => Stands(new, tk2, va, n) = <<Num(stoi(text))>>
        /\ new[n] \in {5, 6} => Stands(new, tk2, va, n) = <<StringOrSymbol(text)>>
        /\ new[n] = 7 => Stands(new, tk2, va, n) = <<Open>>
        /\ new[n] = 9 => Stands(new, tk2, va, n) = <<Close>>
    BY ONLY <1>3, <1>4, j = n - 1 - c, StandsIs
  <2> QED BY <2>1, <2>2
<1>6. Forest(E) /\ items \in Seq(Plain(E)) /\ Spelled(items, Held(st, tk, va))
  BY DEF Trees
<1>7. Held(st, tk, va) = LowTo(st, tk, va, k) /\ LowTo(st, tk, va, k) \in Seq(E)
  <2>1. Comes(k, Len(st))
    BY DEF Comes, Follow
  <2> QED BY ONLY Trees(E, items, st, tk, va), <2>1, HeldNone
<1> PICK F : F = E \cup {item}
  OBVIOUS
<1>8. E \subseteq F /\ item \in Plain(F) /\ item \in F
  BY DEF Plain
<1>9. \A s \in Seq(E) : s \in Seq(F)
  BY <1>8, SeqMonotonic
<1>10. Forest(F)
  <2>1. Open \in F /\ Close \in F /\ \A e \in E : Entries(e) \in Seq(E)
    BY <1>6, <1>8 DEF Forest
  <2>2. \A e \in F : e \in E \/ e = item
    OBVIOUS
  <2>3. <<>> \in Seq(F)
    OBVIOUS
  <2> QED BY <1>9, <2>1, <2>2, <2>3 DEF Forest
<1>11. items \in Seq(Plain(F)) /\ Append(items, item) \in Seq(Plain(F))
  <2>1. Plain(E) \subseteq Plain(F)
    BY <1>8 DEF Plain
  <2>2. items \in Seq(Plain(F))
    BY <1>6, <2>1, SeqMonotonic
  <2> QED BY <1>8, <2>2
<1>12. Spelled(Append(items, item), LowTo(st, tk, va, k) \o <<item>>)
  <2>1. LowTo(st, tk, va, k) \in Seq(F) /\ Spelled(items, LowTo(st, tk, va, k))
    BY <1>6, <1>7, <1>9
  <2> QED BY ONLY <1>8, <1>10, <1>11, <2>1, SpelledMore
<1>13. Alike(st, tk, va, new, tk2, va, m)
  <2>1. Len(tk) = TokensBelow(st, m)
    BY <1>2
  <2> QED BY <2>1 DEF Alike
<1>14. Stands(new, tk2, va, n) \in Seq(F) /\ new[n] # 8
  BY <1>5, <1>8 DEF TokenStates
<1>15. Spelled(Append(items, item), LowTo(st, tk, va, k) \o Stands(new, tk2, va, n))
  BY <1>5, <1>12
<1>16. Trees(F, Append(items, item), new, tk2, va)
  BY <1>1, <1>8, <1>10, <1>11, <1>13, <1>14, <1>15, Turned, Zenon
<1> QED BY <1>16

-----------------------------------------------------------------------------
(***************************************************************************)
(* What the reductions do to the states of parse().                        *)
(***************************************************************************)
\* What a reduction by one of the productions does to the stack of states.
LEMMA OneReduced ==
  ASSUME StacksOK, NEW p \in 1 .. 5, Reducing(p), Reduced(p)
  PROVE  \E k, m, n : /\ Follow(k, m, n) /\ Len(statesStack) = n /\ statesStack[n] = p + 1
                      /\ Len(statesStack') = n
                      /\ statesStack'[n] \in IF p < 3 THEN {1, 10} ELSE {2}
                      /\ \A i \in 1 .. m : statesStack'[i] = statesStack[i]
<1> PICK n : n = Len(statesStack)
  OBVIOUS
<1>1. Stacked(statesStack) /\ Last(statesStack) = p + 1
  <2>1. p \in 1 .. 8
    OBVIOUS
  <2>2. Stacked(statesStack)
    BY <2>1, ReducingStacks
  <2> QED BY <2>2, ReducesWhere DEF Stacked
<1>2. IsTop(statesStack, n)
  BY <1>1, TopIsTop
<1>3. n \in Nat /\ n > 1 /\ statesStack[n] = p + 1 /\ statesStack[n - 1] \in {0, 8}
  BY <1>1, <1>2 DEF IsTop
<1> PICK k, m : m = n - 1 /\ k = n - 2
  OBVIOUS
<1>4. Follow(k, m, n) /\ m \in 1 .. Len(statesStack) /\ m = Len(statesStack) - 1 /\ m + 1 = n
  BY <1>3 DEF Follow
<1>5. CASE p < 3
  <2> PICK x : x = Transit(statesStack[m], 0)
    OBVIOUS
  <2>1. x \in {1, 10}
    BY <1>3, TransitIs
  <2>2. productions[p] = Production(0, 1)
    BY <1>5, ProductionsAre
  <2>3. /\ Len(statesStack') = m + 1 /\ statesStack'[m + 1] = x
        /\ \A i \in 1 .. m : statesStack'[i] = statesStack[i]
    <3>1. x \in 0 .. 10 /\ x = Transit(statesStack[m], 0)
      BY <2>1
    <3>2. m \in 1 .. Len(statesStack) /\ m = Len(statesStack) - 1
      BY <1>4
    <3> QED BY ONLY <1>1, <2>2, <3>1, <3>2, Reduced(p), ReducedTo, SMTT(30)
  <2> QED BY <1>3, <1>4, <1>5, <2>1, <2>3
<1>6. CASE ~ (p < 3)
  <2>1. Transit(statesStack[m], 1) = 2
    BY TransitIs
  <2>2. productions[p] = Production(1, 1)
    BY <1>6, ProductionsAre
  <2>3. /\ Len(statesStack') = m + 1 /\ statesStack'[m + 1] = 2
        /\ \A i \in 1 .. m : statesStack'[i] = statesStack[i]
    <3>1. 2 \in 0 .. 10
      OBVIOUS
    <3> QED BY <1>1, <1>4, <2>1, <2>2, <3>1, ReducedTo
  <2> QED BY <1>3, <1>4, <1>6, <2>3
<1> QED BY <1>5, <1>6

LEMMA ListReduced ==
  ASSUME StacksOK, Reducing(6), Reduced(6)
  PROVE  \E k, m, n, p, q :
           /\ Follow(k, m, n) /\ Follow(m, n, p) /\ Follow(n, p, q)
           /\ Len(statesStack) = q
           /\ statesStack[n] = 7 /\ statesStack[p] = 8 /\ statesStack[q] = 9
           /\ Len(statesStack') = n /\ statesStack'[n] = 3
           /\ \A i \in 1 .. m : statesStack'[i] = statesStack[i]
<1> PICK q : q = Len(statesStack)
  OBVIOUS
<1>1. Stacked(statesStack) /\ Last(statesStack) = 9
  <2>1. 6 \in 1 .. 8
    OBVIOUS
  <2>2. Stacked(statesStack)
    BY <2>1, ReducingStacks
  <2> QED BY <2>2, ReducesWhere DEF Stacked
<1>2. IsTop(statesStack, q)
  BY <1>1, TopIsTop
<1>3. q \in Nat /\ q > 3 /\ statesStack[q] = 9 /\ statesStack[q - 1] = 8 /\ statesStack[q - 2] = 7
  BY <1>1, <1>2 DEF IsTop
<1> PICK k, m, n, p : p = q - 1 /\ n = q - 2 /\ m = q - 3 /\ k = q - 4
  OBVIOUS
<1>4. /\ Follow(k, m, n) /\ Follow(m, n, p) /\ Follow(n, p, q)
      /\ m \in 1 .. Len(statesStack) /\ m = Len(statesStack) - 3 /\ m + 1 = n
  BY <1>3 DEF Follow
<1>5. Transit(statesStack[m], 2) = 3 /\ productions[6] = Production(2, 3)
  BY TransitIs, ProductionsAre
<1>6. /\ Len(statesStack') = m + 1 /\ statesStack'[m + 1] = 3
      /\ \A i \in 1 .. m : statesStack'[i] = statesStack[i]
  <2>1. 3 \in 0 .. 10
    OBVIOUS
  <2> QED BY <1>1, <1>4, <1>5, <2>1, ReducedTo, SMTT(30)
<1> QED BY <1>3, <1>4, <1>6

LEMMA EmptyReduced ==
  ASSUME StacksOK, Reducing(7), Reduced(7)
  PROVE  \E k, m, n : /\ Follow(k, m, n) /\ Len(statesStack) = m
                      /\ Len(statesStack') = n /\ statesStack'[n] = 8
                      /\ \A i \in 1 .. m : statesStack'[i] = statesStack[i]
<1> PICK m : m = Len(statesStack)
  OBVIOUS
<1>1. Stacked(statesStack)
  <2>1. 7 \in 1 .. 8
    OBVIOUS
  <2> QED BY <2>1, ReducingStacks
<1>2. m \in Nat \ {0}
  BY <1>1, StackTop
<1> PICK k, n : n = m + 1 /\ k = m - 1
  OBVIOUS
<1>3. Follow(k, m, n) /\ m \in 1 .. Len(statesStack) /\ m = Len(statesStack) - 0
  BY <1>2 DEF Follow
<1>4. Transit(statesStack[m], 3) = 8 /\ productions[7] = Production(3, 0)
  BY TransitIs, ProductionsAre
<1>5. /\ Len(statesStack') = m + 1 /\ statesStack'[m + 1] = 8
      /\ \A i \in 1 .. m : statesStack'[i] = statesStack[i]
  <2>1. 8 \in 0 .. 10
    OBVIOUS
  <2> QED BY <1>1, <1>3, <1>4, <2>1, ReducedTo
<1> QED BY <1>3, <1>5

LEMMA EntryReduced ==
  ASSUME StacksOK, Reducing(8), Reduced(8)
  PROVE  \E k, m, n, p :
           /\ Follow(k, m, n) /\ Follow(m, n, p) /\ Len(statesStack) = p
           /\ statesStack[n] = 8 /\ statesStack[p] = 10
           /\ Len(statesStack') = n /\ statesStack'[n] = 8
           /\ \A i \in 1 .. m : statesStack'[i] = statesStack[i]
<1> PICK p : p = Len(statesStack)
  OBVIOUS
<1>1. Stacked(statesStack) /\ Last(statesStack) = 10
  <2>1. 8 \in 1 .. 8
    OBVIOUS
  <2>2. Stacked(statesStack)
    BY <2>1, ReducingStacks
  <2> QED BY <2>2, ReducesWhere DEF Stacked
<1>2. IsTop(statesStack, p)
  BY <1>1, TopIsTop
<1>3. p \in Nat /\ p > 3 /\ statesStack[p] = 10 /\ statesStack[p - 1] = 8
  BY <1>1, <1>2 DEF IsTop
<1> PICK k, m, n : n = p - 1 /\ m = p - 2 /\ k = p - 3
  OBVIOUS
<1>4. /\ Follow(k, m, n) /\ Follow(m, n, p)
      /\ m \in 1 .. Len(statesStack) /\ m = Len(statesStack) - 2 /\ m + 1 = n
  BY <1>3 DEF Follow
<1>5. Transit(statesStack[m], 3) = 8 /\ productions[8] = Production(3, 2)
  BY TransitIs, ProductionsAre
<1>6. /\ Len(statesStack') = m + 1 /\ statesStack'[m + 1] = 8
      /\ \A i \in 1 .. m : statesStack'[i] = statesStack[i]
  <2>1. 8 \in 0 .. 10
    OBVIOUS
  <2> QED BY <1>1, <1>4, <1>5, <2>1, ReducedTo
<1> QED BY <1>3, <1>4, <1>6

-----------------------------------------------------------------------------
(***************************************************************************)
(* The steps of parse().                                                   *)
(***************************************************************************)
\* What is below the top stays.
LEMMA BelowKeeps ==
  ASSUME NEW S, NEW s \in Seq(S), NEW k \in Nat, NEW t, t = Below(s, k)
  PROVE  \A j \in 1 .. Len(s) - k : t[j] = s[j]
<1> SUFFICES ASSUME NEW j \in 1 .. Len(s) - k
             PROVE  t[j] = s[j]
  OBVIOUS
<1>1. Len(s) \in Nat /\ Len(s) - k \in 0 .. Len(s)
  OBVIOUS
<1>2. \A i \in 1 .. Len(s) - k : SubSeq(s, 1, Len(s) - k)[i] = s[i]
  BY <1>1, FirstOf
<1> QED BY <1>2 DEF Below

\* And what is put on it is on top.
LEMMA Appended ==
  ASSUME NEW S, NEW s \in Seq(S), NEW x, NEW t, t = Append(s, x)
  PROVE  /\ \A j \in 1 .. Len(s) : t[j] = s[j]
         /\ t[Len(s) + 1] = x
<1> PICK T : T = S \cup {x}
  OBVIOUS
<1>1. s \in Seq(T) /\ x \in T
  BY SeqMonotonic
<1> QED BY <1>1, OnePushed

\* The reductions and the shift, as they change the stacks of parse().
LEMMA ExpTrees ==
  ASSUME StacksOK, NEW E, NEW items, Trees(E, items, statesStack, tokensStack, valuesStack),
         ReduceExp
  PROVE  Trees(E, items, statesStack', tokensStack', valuesStack')
<1>1. PICK p \in {1, 2} : Reducing(p) /\ Reduced(p)
  BY DEF ReduceExp
<1>2. tokensStack' = tokensStack /\ valuesStack' = valuesStack
  BY DEF ReduceExp
<1>3. p \in 1 .. 5 /\ p \in 1 .. 8 /\ p < 3
  OBVIOUS
<1>4. Stacked(statesStack) /\ Agreed(statesStack, tokensStack, valuesStack)
  BY <1>1, <1>3, ReducingStacks
<1>5. PICK k, m, n :
        /\ Follow(k, m, n) /\ Len(statesStack) = n /\ statesStack[n] = p + 1
        /\ Len(statesStack') = n
        /\ statesStack'[n] \in IF p < 3 THEN {1, 10} ELSE {2}
        /\ \A i \in 1 .. m : statesStack'[i] = statesStack[i]
  BY <1>1, <1>3, OneReduced
<1> PICK new : new = statesStack'
  OBVIOUS
<1>6. /\ statesStack[n] \in {2, 3} /\ Len(new) = n /\ new[n] \in {1, 10}
      /\ \A i \in 1 .. m : new[i] = statesStack[i]
  BY <1>5
<1>7. Trees(E, items, new, tokensStack, valuesStack)
  BY <1>4, <1>5, <1>6, ExpTurns
<1> QED BY <1>2, <1>7

LEMMA AtomTrees ==
  ASSUME StacksOK, NEW E, NEW items, Trees(E, items, statesStack, tokensStack, valuesStack),
         NEW p \in 3 .. 5, Reducing(p), Reduced(p), NEW v,
         v = (IF p = 3 THEN Num(stoi(Last(tokensStack))) ELSE StringOrSymbol(Last(tokensStack))),
         tokensStack' = Front(tokensStack), valuesStack' = Append(valuesStack, v)
  PROVE  Trees(E, items, statesStack', tokensStack', valuesStack')
<1>1. p \in 1 .. 5 /\ p \in 1 .. 8 /\ ~ (p < 3)
  OBVIOUS
<1>2. /\ Stacked(statesStack) /\ Agreed(statesStack, tokensStack, valuesStack)
      /\ tokensStack \in Seq(Range(tokensStack)) /\ valuesStack \in Seq(Range(valuesStack))
  BY <1>1, ReducingStacks
<1>3. PICK k, m, n :
        /\ Follow(k, m, n) /\ Len(statesStack) = n /\ statesStack[n] = p + 1
        /\ Len(statesStack') = n
        /\ statesStack'[n] \in IF p < 3 THEN {1, 10} ELSE {2}
        /\ \A i \in 1 .. m : statesStack'[i] = statesStack[i]
  BY <1>1, OneReduced
<1> PICK new, tk, tk2, va, va2, st : /\ new = statesStack' /\ tk = tokensStack /\ tk2 = tokensStack'
                                     /\ va = valuesStack /\ va2 = valuesStack' /\ st = statesStack
  OBVIOUS
<1> PICK c, j : c = TokensBelow(st, n) /\ j = n - 1 - c
  OBVIOUS
<1>4. st[n] \in {4, 5, 6} /\ (st[n] = 4 <=> p = 3) /\ new[n] = 2
  BY <1>1, <1>3
<1>5. Stands(st, tk, va, n) = <<v>>
  <2>1. c = Len(tk) /\ tk[c] = Last(tk)
    BY <1>2, <1>3, StackSizes DEF Last
  <2>2. v = IF p = 3 THEN Num(stoi(tk[c])) ELSE StringOrSymbol(tk[c])
    BY <2>1
  <2>3. /\ st[n] = 4 => Stands(st, tk, va, n) = <<Num(stoi(tk[c]))>>
        /\ st[n] \in {5, 6} => Stands(st, tk, va, n) = <<StringOrSymbol(tk[c])>>
    BY ONLY c = TokensBelow(st, n) /\ j = n - 1 - c, StandsIs
  <2> QED BY <1>4, <2>2, <2>3
<1>6. \A b \in 1 .. Len(tk) - 1 : tk2[b] = tk[b]
  <2>1. tk2 = Below(tk, 1)
    BY DEF Front, Below
  <2> QED BY <1>2, <2>1, BelowKeeps, SMTT(30)
<1>7. (\A b \in 1 .. Len(va) : va2[b] = va[b]) /\ va2[Len(va) + 1] = v
  BY <1>2, Appended
<1>8. /\ Stacked(st) /\ Agreed(st, tk, va) /\ Trees(E, items, st, tk, va)
      /\ Follow(k, m, n) /\ Len(st) = n /\ Len(new) = n /\ \A i \in 1 .. m : new[i] = st[i]
  BY <1>2, <1>3
<1>9. Trees(E, items, new, tk2, va2)
  BY ONLY <1>4, <1>5, <1>6, <1>7, <1>8, AtomTurns, SMTT(30)
<1> QED BY <1>9

LEMMA ListTrees ==
  ASSUME StacksOK, NEW E, NEW items, Trees(E, items, statesStack, tokensStack, valuesStack),
         ReduceList
  PROVE  \E F : Trees(F, items, statesStack', tokensStack', valuesStack')
<1>1. /\ Reducing(6) /\ Reduced(6) /\ tokensStack' = Below(tokensStack, 2)
      /\ valuesStack' = valuesStack
  BY DEF ReduceList
<1>2. /\ Stacked(statesStack) /\ Agreed(statesStack, tokensStack, valuesStack)
      /\ tokensStack \in Seq(Range(tokensStack))
  <2>1. 6 \in 1 .. 8
    OBVIOUS
  <2> QED BY <1>1, <2>1, ReducingStacks
<1>3. PICK k, m, n, p, q :
        /\ Follow(k, m, n) /\ Follow(m, n, p) /\ Follow(n, p, q)
        /\ Len(statesStack) = q
        /\ statesStack[n] = 7 /\ statesStack[p] = 8 /\ statesStack[q] = 9
        /\ Len(statesStack') = n /\ statesStack'[n] = 3
        /\ \A i \in 1 .. m : statesStack'[i] = statesStack[i]
  BY <1>1, ListReduced
<1> PICK new, tk2 : new = statesStack' /\ tk2 = tokensStack'
  OBVIOUS
<1>4. \A b \in 1 .. Len(tokensStack) - 2 : tk2[b] = tokensStack[b]
  BY <1>1, <1>2, BelowKeeps
<1>5. \E F : Trees(F, items, new, tk2, valuesStack)
  <2>1. /\ Closes(statesStack, k, m, n, p, q) /\ ClosedOn(statesStack, new, m, n)
        /\ TwoLess(tokensStack, tk2)
    BY <1>3, <1>4 DEF Closes, ClosedOn, TwoLess
  <2> QED BY ONLY <1>2, <2>1, Trees(E, items, statesStack, tokensStack, valuesStack), ListTurns
<1> QED BY <1>1, <1>5

LEMMA EmptyTrees ==
  ASSUME StacksOK, NEW E, NEW items, Trees(E, items, statesStack, tokensStack, valuesStack),
         ReduceEmpty
  PROVE  Trees(E, items, statesStack', tokensStack', valuesStack')
<1>1. /\ Reducing(7) /\ Reduced(7) /\ tokensStack' = tokensStack
      /\ valuesStack' = Append(valuesStack, List(<<>>))
  BY DEF ReduceEmpty
<1>2. /\ Stacked(statesStack) /\ Agreed(statesStack, tokensStack, valuesStack)
      /\ valuesStack \in Seq(Range(valuesStack))
  <2>1. 7 \in 1 .. 8
    OBVIOUS
  <2> QED BY <1>1, <2>1, ReducingStacks
<1>3. PICK k, m, n : /\ Follow(k, m, n) /\ Len(statesStack) = m
                     /\ Len(statesStack') = n /\ statesStack'[n] = 8
                     /\ \A i \in 1 .. m : statesStack'[i] = statesStack[i]
  BY <1>1, EmptyReduced
<1> PICK new, va2 : new = statesStack' /\ va2 = valuesStack'
  OBVIOUS
<1>4. /\ \A b \in 1 .. Len(valuesStack) : va2[b] = valuesStack[b]
      /\ va2[Len(valuesStack) + 1] = List(<<>>)
  BY <1>1, <1>2, Appended
<1>5. Trees(E, items, new, tokensStack, va2)
  BY <1>2, <1>3, <1>4, EmptyTurns
<1> QED BY <1>1, <1>5

\* Two values make way for one.
TwoForOne(s, t, x) == (\A j \in 1 .. Len(s) - 2 : t[j] = s[j]) /\ t[Len(s) - 1] = x

LEMMA ListPut ==
  ASSUME NEW S, NEW s \in Seq(S), 2 \in 0 .. Len(s), NEW x, NEW t, t = Append(Below(s, 2), x)
  PROVE  TwoForOne(s, t, x)
<1> PICK u : u = Below(s, 2)
  OBVIOUS
<1>1. u \in Seq(S) /\ Len(u) = Len(s) - 2 /\ \A j \in 1 .. Len(s) - 2 : u[j] = s[j]
  <2>1. 2 \in Nat
    OBVIOUS
  <2> QED BY <2>1, Popped, BelowKeeps
<1>2. (\A j \in 1 .. Len(u) : t[j] = u[j]) /\ t[Len(u) + 1] = x
  BY <1>1, Appended
<1>3. Len(u) + 1 = Len(s) - 1
  <2>1. Len(s) \in Nat
    OBVIOUS
  <2> QED BY <1>1, <2>1
<1> QED BY <1>1, <1>2, <1>3 DEF TwoForOne

LEMMA EntryTrees ==
  ASSUME StacksOK, NEW E, NEW items, Trees(E, items, statesStack, tokensStack, valuesStack),
         ReduceEntry
  PROVE  Trees(E, items, statesStack', tokensStack', valuesStack')
<1> PICK exp, list : exp = Last(valuesStack) /\ list = Last(Front(valuesStack))
  OBVIOUS
<1>1. /\ Reducing(8) /\ Reduced(8) /\ tokensStack' = tokensStack
      /\ valuesStack' = Append(Below(valuesStack, 2), List(Append(list[2], exp)))
  BY DEF ReduceEntry
<1>2. /\ Stacked(statesStack) /\ Agreed(statesStack, tokensStack, valuesStack)
      /\ valuesStack \in Seq(Range(valuesStack))
  <2>1. 8 \in 1 .. 8
    OBVIOUS
  <2> QED BY <1>1, <2>1, ReducingStacks
<1>3. PICK k, m, n, p :
        /\ Follow(k, m, n) /\ Follow(m, n, p) /\ Len(statesStack) = p
        /\ statesStack[n] = 8 /\ statesStack[p] = 10
        /\ Len(statesStack') = n /\ statesStack'[n] = 8
        /\ \A i \in 1 .. m : statesStack'[i] = statesStack[i]
  BY <1>1, EntryReduced
<1>4. Len(valuesStack) \in Nat /\ 2 \in 0 .. Len(valuesStack)
  <2>1. Last(statesStack) = 10
    BY <1>2, <1>3 DEF Last
  <2>2. Len(statesStack) - 1 - OfTokens(statesStack) >= 2
    BY <1>1, <1>2, <2>1, ReducedEntry
  <2>3. Len(valuesStack) = Len(statesStack) - 1 - OfTokens(statesStack)
    BY <1>2 DEF Agreed
  <2>4. Len(valuesStack) \in Nat
    BY <1>2, LenProperties
  <2> QED BY <2>2, <2>3, <2>4
<1> PICK new, va2 : new = statesStack' /\ va2 = valuesStack'
  OBVIOUS
<1>5. /\ \A j \in 1 .. Len(valuesStack) - 2 : va2[j] = valuesStack[j]
      /\ va2[Len(valuesStack) - 1] = List(Append(list[2], exp))
  <2> PICK x, S, s : x = List(Append(list[2], exp)) /\ S = Range(valuesStack) /\ s = valuesStack
    OBVIOUS
  <2>1. s \in Seq(S) /\ 2 \in 0 .. Len(s) /\ va2 = Append(Below(s, 2), x)
    <3>1. valuesStack' = Append(Below(valuesStack, 2), List(Append(list[2], exp)))
      BY <1>1
    <3>2. va2 = Append(Below(s, 2), x)
      BY ONLY <3>1, x = List(Append(list[2], exp)) /\ S = Range(valuesStack) /\ s = valuesStack,
              new = statesStack' /\ va2 = valuesStack', Zenon
    <3> QED BY ONLY <1>2, <1>4, <3>2,
                    x = List(Append(list[2], exp)) /\ S = Range(valuesStack) /\ s = valuesStack
  <2>2. TwoForOne(s, va2, x)
    BY ONLY <2>1, ListPut
  <2> QED BY ONLY <2>2, x = List(Append(list[2], exp)) /\ S = Range(valuesStack) /\ s = valuesStack
             DEF TwoForOne
<1>6. exp = valuesStack[Len(valuesStack)] /\ list = valuesStack[Len(valuesStack) - 1]
  <2> PICK f : f = Front(valuesStack)
    OBVIOUS
  <2>1. f = Below(valuesStack, 1)
    BY DEF Front, Below
  <2>2. 1 \in 0 .. Len(valuesStack) /\ 1 \in Nat
    BY <1>4
  <2>3. Len(f) = Len(valuesStack) - 1 /\ \A j \in 1 .. Len(valuesStack) - 1 : f[j] = valuesStack[j]
    BY <1>2, <2>1, <2>2, Popped, BelowKeeps, SMTT(30)
  <2>4. list = f[Len(f)]
    BY DEF Last
  <2>5. Len(valuesStack) - 1 \in 1 .. Len(valuesStack) - 1
    BY <1>4
  <2> QED BY <2>3, <2>4, <2>5 DEF Last
<1>7. Lengthens(statesStack, new, k, m, n, p)
  BY <1>3 DEF Lengthens
<1>8. Lengthened(valuesStack, va2)
  BY <1>5, <1>6 DEF Lengthened
<1>9. Trees(E, items, new, tokensStack, va2)
  BY ONLY <1>2, <1>7, <1>8, Trees(E, items, statesStack, tokensStack, valuesStack), EntryTurns
<1> QED BY <1>1, <1>9

\* What a token stands for is no list.
LEMMA ItemPlain ==
  ASSUME NEW t, t.type \in AnyToken
  PROVE  Entries(Item(t)) = <<>> /\ ~ IsList(Item(t))
<1>1. t.type \in {"NUMBER", "STRING", "SYMBOL", "TOKEN_TYPE_7", "TOKEN_TYPE_8", "EOF"}
  BY DEF AnyToken, InnerTokens
<1>2. \A x : Num(x)[1] = "NUMBER" /\ Str(x)[1] = "STRING" /\ Sym(x)[1] = "SYMBOL"
  BY DEF Num, Str, Sym
<1>3. Open[1] = "OPEN" /\ Close[1] = "CLOSE" /\ End[1] = "END"
  BY DEF Open, Close, End
<1>4. Item(t)[1] \in {"OPEN", "CLOSE", "END", "NUMBER", "STRING", "SYMBOL"}
  BY <1>1, <1>2, <1>3 DEF Item
<1>5. ~ IsList(Item(t))
  BY <1>4 DEF IsList, ExpType
<1> QED BY <1>5 DEF Entries

\* A quote is what tells a string from a symbol, for the lexical rules and for
\* the constructor of Exp.
TextOK ==
  /\ token.type = "STRING" => token.text[1] = Quote
  /\ token.type = "SYMBOL" => token.text[1] # Quote

\* A token shifted is one item more that the stacks hold.
LEMMA ShiftTrees ==
  ASSUME TokensOK, StacksOK, TextOK, Shift,
         NEW E, Trees(E, Items(Shifted), statesStack, tokensStack, valuesStack)
  PROVE  \E F : Trees(F, Items(Shifted'), statesStack', tokensStack', valuesStack')
<1>1. /\ status = "parsing" /\ Doing("Shift") /\ status' = "scanning" /\ read' = read
      /\ tokensStack' = Append(tokensStack, token.text)
      /\ statesStack' = Append(statesStack, Row[token.type].value)
      /\ valuesStack' = valuesStack
  BY DEF Shift, Doing, scanner
<1>2. /\ Stacked(statesStack) /\ Agreed(statesStack, tokensStack, valuesStack)
      /\ tokensStack \in Seq(Range(tokensStack))
  BY <1>1, StacksAre
<1>3. /\ Shifted \in Seq(Tokens) /\ read = Append(Shifted, token)
      /\ token \in Tokens /\ token.type \in AnyToken
  BY <1>1, Parsed
<1>4. token.type \in InnerTokens /\ Row[token.type].value = Pushed(token.type)
  BY <1>1, <1>2, ShiftsWhere DEF Stacked
<1> PICK x, item, text : x = Pushed(token.type) /\ item = Item(token) /\ text = token.text
  OBVIOUS
<1>5. /\ x \in TokenStates
      /\ x = 4 => token.type = "NUMBER"
      /\ x = 5 => token.type = "STRING"
      /\ x = 6 => token.type = "SYMBOL"
      /\ x = 7 => token.type = "TOKEN_TYPE_7"
      /\ x = 9 => token.type = "TOKEN_TYPE_8"
  BY <1>4 DEF Pushed, InnerTokens, TokenStates
<1>6. Entries(item) = <<>> /\ ~ IsList(item)
  BY <1>3, ItemPlain
<1>7. /\ x = 4 => item = Num(stoi(text))
      /\ x = 5 => item = StringOrSymbol(text)
      /\ x = 6 => item = StringOrSymbol(text)
      /\ x = 7 => item = Open
      /\ x = 9 => item = Close
  <2>1. /\ token.type = "NUMBER" => item = Num(stoi(text))
        /\ token.type = "STRING" => item = Str(SubSeq(text, 2, Len(text) - 1)) /\ text[1] = Quote
        /\ token.type = "SYMBOL" => item = Sym(text) /\ text[1] # Quote
        /\ token.type = "TOKEN_TYPE_7" => item = Open
        /\ token.type = "TOKEN_TYPE_8" => item = Close
    BY DEF Item, TextOK
  <2> QED BY <1>5, <2>1 DEF StringOrSymbol
<1> PICK new, tk2, st, tk, va : /\ new = statesStack' /\ tk2 = tokensStack'
                                /\ st = statesStack /\ tk = tokensStack /\ va = valuesStack
  OBVIOUS
<1> PICK m, n, k : m = Len(st) /\ n = m + 1 /\ k = m - 1
  OBVIOUS
<1>8. m \in Nat \ {0}
  BY <1>2, StackTop
<1>9. /\ Len(new) = n /\ new[n] = x /\ \A i \in 1 .. m : new[i] = st[i]
  <2> PICK D : D = 0 .. 10
    OBVIOUS
  <2>1. st \in Seq(D) /\ x \in D
    BY <1>2, <1>5 DEF Stacked, TokenStates
  <2>2. new = Append(st, x)
    BY <1>1, <1>4
  <2> QED BY <2>1, <2>2, OnePushed
<1>10. (\A b \in 1 .. Len(tk) : tk2[b] = tk[b]) /\ tk2[Len(tk) + 1] = text
  BY <1>1, <1>2, Appended
<1>11. Follow(k, m, n) /\ Len(st) = m
  BY <1>8 DEF Follow
<1>12. /\ new[n] \in TokenStates
       /\ new[n] = 4 => item = Num(stoi(text))
       /\ new[n] \in {5, 6} => item = StringOrSymbol(text)
       /\ new[n] = 7 => item = Open
       /\ new[n] = 9 => item = Close
  BY <1>5, <1>7, <1>9
<1>13. Stacked(st) /\ Agreed(st, tk, va) /\ Trees(E, Items(Shifted), st, tk, va)
  BY <1>2
<1>14. \E F : Trees(F, Append(Items(Shifted), item), new, tk2, va)
  BY ONLY <1>6, <1>9, <1>10, <1>11, <1>12, <1>13, ShiftTurns
<1>15. Items(Shifted') = Append(Items(Shifted), item)
  <2> PICK old, all : old = Items(Shifted) /\ all = Items(read)
    OBVIOUS
  <2> PICK T : T = Range(old) \cup Range(all) \cup {item}
    OBVIOUS
  <2>1. Shifted' = read
    BY <1>1 DEF Shifted
  <2>2. /\ read \in Seq(Tokens) /\ Len(read) = Len(Shifted) + 1 /\ Len(Shifted) \in Nat
        /\ read[Len(read)] = token /\ \A i \in 1 .. Len(Shifted) : read[i] = Shifted[i]
    BY <1>1, Parsed DEF TokensOK
  <2>3. /\ old \in Seq(Range(old)) /\ Len(old) = Len(Shifted)
        /\ \A i \in 1 .. Len(Shifted) : old[i] = Item(Shifted[i])
    BY <1>3, ItemsAre
  <2>4. /\ all \in Seq(Range(all)) /\ Len(all) = Len(read)
        /\ \A i \in 1 .. Len(read) : all[i] = Item(read[i])
    BY <2>2, ItemsAre
  <2>5. old \in Seq(T) /\ all \in Seq(T) /\ item \in T
    BY <2>3, <2>4, SeqMonotonic
  <2> PICK t : t = Append(old, item)
    OBVIOUS
  <2>6. /\ t \in Seq(T) /\ Len(t) = Len(old) + 1 /\ t[Len(old) + 1] = item
        /\ \A i \in 1 .. Len(old) : t[i] = old[i]
    BY <2>5, OnePushed
  <2>7. \A i \in 1 .. Len(all) : t[i] = all[i]
    <3> TAKE i \in 1 .. Len(all)
    <3>1. i \in 1 .. Len(Shifted) \/ i = Len(read)
      BY <2>2, <2>4
    <3>2. CASE i \in 1 .. Len(Shifted)
      BY <2>2, <2>3, <2>4, <2>6, <3>2
    <3>3. CASE i = Len(read)
      BY <2>2, <2>3, <2>4, <2>6, <3>3
    <3> QED BY <3>1, <3>2, <3>3
  <2>8. t = all
    BY <2>2, <2>3, <2>4, <2>5, <2>6, <2>7, SeqEqual
  <2> QED BY <2>1, <2>8
<1> QED BY <1>1, <1>14, <1>15

\* The stacks hold what was shifted.
TreesOK == \E E : Trees(E, Items(Shifted), statesStack, tokensStack, valuesStack)

LEMMA NumberTrees ==
  ASSUME StacksOK, NEW E, NEW items, Trees(E, items, statesStack, tokensStack, valuesStack),
         ReduceNumber, status' # "thrown"
  PROVE  Trees(E, items, statesStack', tokensStack', valuesStack')
<1> PICK number, v : number = stoi(Last(tokensStack)) /\ v = Num(number)
  OBVIOUS
<1>1. /\ Reducing(3) /\ tokensStack' = Front(tokensStack)
      /\ IF number = OutOfRange THEN Throw(Nowhere)
         ELSE /\ Reduced(3) /\ valuesStack' = Append(valuesStack, Num(number))
              /\ KeepAll
  BY DEF ReduceNumber
<1>2. Reduced(3) /\ valuesStack' = Append(valuesStack, v)
  BY <1>1 DEF Throw
<1>3. 3 \in 3 .. 5
  OBVIOUS
<1>4. v = IF 3 = 3 THEN Num(stoi(Last(tokensStack))) ELSE StringOrSymbol(Last(tokensStack))
  OBVIOUS
<1> QED BY <1>1, <1>2, <1>3, <1>4, AtomTrees

LEMMA StringTrees ==
  ASSUME StacksOK, NEW E, NEW items, Trees(E, items, statesStack, tokensStack, valuesStack),
         ReduceAtom
  PROVE  Trees(E, items, statesStack', tokensStack', valuesStack')
<1>1. PICK p \in {4, 5} : Reducing(p) /\ Reduced(p)
  BY DEF ReduceAtom
<1> PICK v : v = StringOrSymbol(Last(tokensStack))
  OBVIOUS
<1>2. tokensStack' = Front(tokensStack) /\ valuesStack' = Append(valuesStack, v)
  BY DEF ReduceAtom
<1>3. p \in 3 .. 5
  OBVIOUS
<1>4. v = IF p = 3 THEN Num(stoi(Last(tokensStack))) ELSE StringOrSymbol(Last(tokensStack))
  OBVIOUS
<1> QED BY <1>1, <1>2, <1>3, <1>4, AtomTrees

\* So whatever is reduced, the stacks hold what was shifted.
LEMMA ReduceTrees ==
  ASSUME StacksOK, TreesOK, Reduce, status' # "thrown"
  PROVE  /\ TreesOK' /\ status = "parsing" /\ status' = "parsing"
         /\ token' = token /\ read' = read /\ result' = result
<1>1. status = "parsing"
  BY DEF Reduce, ReduceExp, ReduceNumber, ReduceAtom, ReduceList, ReduceEmpty, ReduceEntry,
         Reducing, Doing
<1>2. status' = "parsing" /\ token' = token /\ read' = read /\ result' = result
  <2>1. CASE ReduceNumber
    <3> PICK number : number = stoi(Last(tokensStack))
      OBVIOUS
    <3>1. IF number = OutOfRange THEN Throw(Nowhere) ELSE KeepAll
      BY <2>1 DEF ReduceNumber
    <3> QED BY <1>1, <3>1 DEF Throw, KeepAll, scanner
  <2>2. CASE ~ ReduceNumber
    BY <1>1, <2>2 DEF Reduce, ReduceExp, ReduceAtom, ReduceList, ReduceEmpty, ReduceEntry,
                      KeepAll, scanner
  <2> QED BY <2>1, <2>2
<1> PICK items : items = Items(Shifted)
  OBVIOUS
<1>3. Items(Shifted') = items
  BY <1>1, <1>2 DEF Shifted
<1>4. PICK E : Trees(E, items, statesStack, tokensStack, valuesStack)
  BY DEF TreesOK
<1>5. \E F : Trees(F, items, statesStack', tokensStack', valuesStack')
  <2>1. CASE ReduceExp
    BY <1>4, <2>1, ExpTrees
  <2>2. CASE ReduceNumber
    BY <1>4, <2>2, NumberTrees
  <2>3. CASE ReduceAtom
    BY <1>4, <2>3, StringTrees
  <2>4. CASE ReduceList
    BY <1>4, <2>4, ListTrees
  <2>5. CASE ReduceEmpty
    BY <1>4, <2>5, EmptyTrees
  <2>6. CASE ReduceEntry
    BY <1>4, <2>6, EntryTrees
  <2> QED BY <2>1, <2>2, <2>3, <2>4, <2>5, <2>6 DEF Reduce
<1> QED BY <1>1, <1>2, <1>3, <1>5 DEF TreesOK

\* The beginning of what a lexical rule matches.
LEMMA RuleBegins ==
  ASSUME NEW S, NEW s \in Seq(S), NEW r \in DOMAIN lexRules(s),
         NEW rule, rule = lexRules(s)[r], rule.length > 0
  PROVE  /\ rule.type = "STRING" => s[1] = Quote
         /\ rule.type = "SYMBOL" => s[1] # Quote
<1>1. r \in 1 .. 8
  BY DEF lexRules
<1>2. \A type, length : Rule(type, length).type = type /\ Rule(type, length).length = length
  BY DEF Rule
<1>3. CASE r = 7 - 1
  <2>1. rule = Rule("STRING", Quoted(s))
    BY <1>3 DEF lexRules
  <2>2. Quoted(s) > 0 /\ rule.type = "STRING"
    BY <1>2, <2>1
  <2>3. IsPrefix(<<Quote>>, s)
    BY <2>2 DEF Quoted
  <2> PICK T : T = S \cup {Quote}
    OBVIOUS
  <2>4. s \in Seq(T) /\ <<Quote>> \in Seq(T) /\ Len(<<Quote>>) = 1 /\ <<Quote>>[1] = Quote
    BY SeqMonotonic
  <2>5. s[1] = Quote
    <3> PICK u : u = <<Quote>>
      OBVIOUS
    <3>1. u \in Seq(T) /\ Len(u) = 1 /\ u[1] = Quote /\ IsPrefix(u, s)
      BY <2>3, <2>4
    <3>2. Len(u) <= Len(s) /\ \A i \in 1 .. Len(u) : u[i] = s[i]
      BY ONLY <2>4, <3>1, Prefix
    <3>3. 1 \in 1 .. Len(u)
      BY <3>1
    <3> QED BY <3>1, <3>2, <3>3
  <2> QED BY <2>2, <2>5
<1>4. CASE r = 8
  <2>1. rule = Rule("SYMBOL", Run(s, SymbolChars))
    BY <1>4 DEF lexRules
  <2>2. Run(s, SymbolChars) > 0 /\ rule.type = "SYMBOL"
    BY <1>2, <2>1
  <2>3. s[1] \in SymbolChars
    <3>1. /\ Run(s, SymbolChars) \in 0 .. Len(s)
          /\ \A i \in 1 .. Run(s, SymbolChars) : s[i] \in SymbolChars
      BY RunIsOf
    <3>2. 1 \in 1 .. Run(s, SymbolChars)
      BY <2>2, <3>1
    <3> QED BY <3>1, <3>2
  <2>4. Quote \notin SymbolChars
    <3>1. Quote \notin Range(Digits)
      <4>1. /\ Digits[1] # Quote /\ Digits[2] # Quote /\ Digits[3] # Quote
            /\ Digits[4] # Quote /\ Digits[5] # Quote /\ Digits[6] # Quote
            /\ Digits[7] # Quote /\ Digits[8] # Quote /\ Digits[9] # Quote
            /\ Digits[10] # Quote /\ DOMAIN Digits = 1 .. 10
        BY DEF Digits, Quote
      <4>2. \A i \in 1 .. 10 : i \in {1, 2, 3, 4, 5, 6, 7, 8, 9, 10}
        OBVIOUS
      <4>3. \A i \in 1 .. 10 : Digits[i] # Quote
        BY <4>1, <4>2
      <4> QED BY <4>1, <4>3 DEF Range
    <3>2. Quote \notin Letters
      BY LettersAreNoQuotes DEF Quote
    <3>3. Quote \notin {"-", "+", "*", "=", "!", "<", ">", "/"}
      BY DEF Quote
    <3> QED BY <3>1, <3>2, <3>3 DEF SymbolChars
  <2> QED BY <2>2, <2>3, <2>4
<1>5. CASE r \in 1 .. 5 \cup {7}
  <2>1. lexRules(s)[r].type \notin {"STRING", "SYMBOL"}
    BY <1>2, <1>5 DEF lexRules
  <2> QED BY <2>1
<1> QED BY <1>1, <1>3, <1>4, <1>5

\* getNextToken() puts nothing on the stacks.
LEMMA ScanTrees ==
  ASSUME CursorOK, TokensOK, TreesOK, getNextToken, UNCHANGED stacks, status' # "thrown"
  PROVE  TreesOK' /\ (status' = "parsing" => TextOK') /\ status' # "accepted"
<1>1. /\ status = "scanning" /\ read \in Seq(Tokens)
      /\ \/ status' = status /\ read' = read
         \/ \E t : status' = "parsing" /\ read' = Append(read, t)
  BY DEF getNextToken, Match, EndOfText, UnexpectedCharacter, Return, Throw, TokensOK
<1>2. Shifted = read
  BY <1>1 DEF Shifted
<1>3. Shifted' = read
  <2>1. CASE status' = status /\ read' = read
    BY <1>1, <2>1 DEF Shifted
  <2>2. CASE \E t : status' = "parsing" /\ read' = Append(read, t)
    <3>1. PICK t : status' = "parsing" /\ read' = Append(read, t)
      BY <2>2
    <3>2. Shifted' = Front(read')
      BY <3>1 DEF Shifted
    <3> PICK S : S = Tokens \cup {t}
      OBVIOUS
    <3>3. read \in Seq(S) /\ t \in S
      BY <1>1, SeqMonotonic
    <3>4. Front(Append(read, t)) = read
      BY <3>3, FrontOfAppend
    <3> QED BY <3>1, <3>2, <3>4
  <2> QED BY <1>1, <2>1, <2>2
<1>4. TreesOK'
  <2>1. PICK E : Trees(E, Items(read), statesStack, tokensStack, valuesStack)
    BY <1>2 DEF TreesOK
  <2>2. statesStack' = statesStack /\ tokensStack' = tokensStack /\ valuesStack' = valuesStack
    BY DEF stacks
  <2>3. Trees(E, Items(Shifted'), statesStack', tokensStack', valuesStack')
    BY <1>3, <2>1, <2>2
  <2> QED BY <2>3 DEF TreesOK
<1>5. status' = "parsing" => TextOK'
  <2> SUFFICES ASSUME status' = "parsing"
               PROVE  TextOK'
    OBVIOUS
  <2>1. CASE EndOfText
    <3>1. token'.type = "EOF"
      BY <2>1 DEF EndOfText, Return, Token
    <3> QED BY <3>1 DEF TextOK
  <2>2. CASE Match
    <3> PICK s, r : s = Rest /\ r = Min(Matching(Rest))
      OBVIOUS
    <3> PICK rule : rule = lexRules(s)[r]
      OBVIOUS
    <3>1. IF rule.type = "EMPTY" THEN status' = status
          ELSE token' = Token(rule.type, SubSeq(s, 1, rule.length),
                              cursor, Place(line, cursor - lineBegin))
      BY <2>2 DEF Match, Return
    <3>2. s \in Seq(Range(str))
      BY <1>1, Scanning, RestIs
    <3>3. r \in DOMAIN lexRules(s) /\ rule.length > 0
      <4>1. Matching(s) \subseteq Nat /\ Matching(s) # {}
        BY <2>2 DEF Match, Matching, lexRules
      <4>2. r \in Matching(s)
        BY <4>1, MinOf
      <4> QED BY <4>2 DEF Matching
    <3>4. rule.length \in 0 .. Len(s)
      BY <3>2, <3>3, RulesFit
    <3>5. /\ rule.type = "STRING" => s[1] = Quote
          /\ rule.type = "SYMBOL" => s[1] # Quote
      BY <3>2, <3>3, RuleBegins
    <3>6. SubSeq(s, 1, rule.length)[1] = s[1]
      <4>1. rule.length \in Nat /\ 1 \in 1 .. rule.length
        BY <3>3, <3>4
      <4> QED BY <3>2, <3>4, <4>1, FirstOf
    <3>7. token'.type = rule.type /\ token'.text = SubSeq(s, 1, rule.length)
      BY <1>1, <3>1 DEF Token
    <3> QED BY <3>5, <3>6, <3>7 DEF TextOK
  <2> QED BY <2>1, <2>2 DEF getNextToken, UnexpectedCharacter, Throw
<1> QED BY <1>1, <1>4, <1>5

-----------------------------------------------------------------------------
(***************************************************************************)
(* The trees, from the beginning to the end.                               *)
(***************************************************************************)
\* Nothing stands below the first state.
LEMMA LowNothing ==
  ASSUME NEW st, NEW tk, NEW va
  PROVE  LowTo(st, tk, va, 0) = <<>>
<1> PICK p, S : p = PieceTo(st, tk, va, 0) /\ S = {}
  OBVIOUS
<1>1. p = <<>>
  <2>1. 1 .. 0 = {}
    OBVIOUS
  <2>2. p = [i \in 1 .. 0 |-> Stands(st, tk, va, i + 1)]
    BY DEF PieceTo
  <2> QED BY <2>1, <2>2
<1>2. p \in Seq(S) /\ Len(p) = 0
  BY <1>1, EmptySeq
<1> QED BY <1>2, NothingFlat DEF LowTo

\* A parenthesis is no list.
LEMMA ParensAre ==
  Entries(Open) = <<>> /\ Entries(Close) = <<>>
<1>1. Open[1] = "OPEN" /\ Close[1] = "CLOSE"
  BY DEF Open, Close
<1> QED BY <1>1 DEF Entries, IsList, ExpType

\* In the beginning nothing was shifted, and the stacks hold nothing.
LEMMA InitTrees ==
  ASSUME Init
  PROVE  TreesOK
<1> PICK E, st, tk, va, items : /\ E = {Open, Close} /\ st = statesStack /\ tk = tokensStack
                                /\ va = valuesStack /\ items = Items(Shifted)
  OBVIOUS
<1>1. st = <<0>> /\ Len(st) = 1 /\ Shifted = <<>>
  BY DEF Init, TokenizerInit, Shifted
<1>2. Forest(E)
  <2>1. \A e \in E : Entries(e) = <<>>
    BY ParensAre
  <2> QED BY <2>1 DEF Forest
<1>3. items = <<>>
  BY <1>1 DEF Items
<1>4. items \in Seq(Plain(E)) /\ <<>> \in Seq(E)
  BY <1>3
<1>5. Over(E, st, tk, va, Len(st)) /\ 2 .. Len(st) = {}
  BY <1>1 DEF Over
<1>6. Held(st, tk, va) = <<>>
  <2>1. Len(st) - 1 = 0
    BY <1>1
  <2> QED BY <2>1, HeldIs, LowNothing
<1>7. Spelled(items, Held(st, tk, va))
  <2>1. Spelling(<<>>, 0) = <<>>
    BY <1>2, <1>4, SpellingSteps
  <2>2. 0 + Len(<<>>) <= Len(<<>>)
    OBVIOUS
  <2> QED BY <1>3, <1>6, <2>1, <2>2 DEF Spelled
<1>8. Trees(E, items, st, tk, va)
  BY <1>2, <1>4, <1>5, <1>7 DEF Trees
<1> QED BY <1>8 DEF TreesOK

\* So the stacks spell what was shifted.
LEMMA HeldSpells ==
  ASSUME Stacked(statesStack), TreesOK
  PROVE  Spells(Items(Shifted), Held(statesStack, tokensStack, valuesStack))
<1> PICK st, tk, va, items : /\ st = statesStack /\ tk = tokensStack
                             /\ va = valuesStack /\ items = Items(Shifted)
  OBVIOUS
<1>1. PICK E : Trees(E, items, st, tk, va)
  BY DEF TreesOK
<1>2. Len(st) \in Nat \ {0}
  BY StackTop
<1> PICK k : k = Len(st) - 1
  OBVIOUS
<1>3. Comes(k, Len(st))
  BY <1>2 DEF Comes
<1>4. Held(st, tk, va) = LowTo(st, tk, va, k) /\ LowTo(st, tk, va, k) \in Seq(E)
  BY ONLY <1>1, <1>3, HeldNone
<1>5. items \in Seq(Plain(E)) /\ Spelled(items, Held(st, tk, va))
  BY <1>1 DEF Trees
<1>6. Spells(items, Held(st, tk, va))
  BY <1>4, <1>5, SpelledSpells
<1> QED BY <1>6

\* At the end they hold one expression, which parse() returns.
LEMMA HeldAtTheEnd ==
  ASSUME statesStack = <<0, 1>>, StacksOK, status = "parsing"
  PROVE  Held(statesStack, tokensStack, valuesStack) = <<Last(valuesStack)>>
<1> PICK st, tk, va : st = statesStack /\ tk = tokensStack /\ va = valuesStack
  OBVIOUS
<1>1. /\ Stacked(st) /\ Agreed(st, tk, va)
      /\ Len(st) = 2 /\ st[1] = 0 /\ st[2] = 1
  BY StacksAre
<1>2. TokensBelow(st, 2) = 0
  <2>1. 1 \notin TokenStates
    BY DEF TokenStates
  <2>2. {j \in 2 .. 2 : st[j] \in TokenStates} = {}
    BY <1>1, <2>1
  <2> QED BY <2>2, FS_EmptySet DEF TokensBelow
<1>3. Len(tk) = 0 /\ Len(va) = 1
  <2>1. Len(tk) = TokensBelow(st, Len(st)) /\ Len(va) = Len(st) - 1 - Len(tk)
    BY ONLY <1>1, StackSizes
  <2> QED BY <1>1, <1>2, <2>1
<1>4. Last(va) = va[1]
  BY <1>3 DEF Last
<1>5. Stands(st, tk, va, 2) = <<va[1]>>
  <2>1. TokensBelow(st, 2) = 0 /\ 1 = 2 - 1 - 0 /\ st[2] \in {1, 2, 3, 10}
    BY <1>1, <1>2
  <2> QED BY ONLY <2>1, StandsIs
<1> PICK E : E = {va[1]}
  OBVIOUS
<1>6. Over(E, st, tk, va, 2)
  <2>1. \A i \in 2 .. 2 : i = 2
    OBVIOUS
  <2>2. <<va[1]>> \in Seq(E)
    OBVIOUS
  <2> QED BY <1>5, <2>1, <2>2 DEF Over
<1>7. Follow(0, 1, 2)
  BY DEF Follow
<1>8. LowTo(st, tk, va, 1) = LowTo(st, tk, va, 0) \o Stands(st, tk, va, 2)
  <2>1. Grows(E, st, tk, va, 0, 1, 2)
    BY ONLY <1>6, <1>7, LowNext
  <2> QED BY <2>1 DEF Grows
<1>9. LowTo(st, tk, va, 1) = <<va[1]>>
  <2>1. <<>> \o <<va[1]>> = <<va[1]>>
    OBVIOUS
  <2> QED BY <1>5, <1>8, <2>1, LowNothing
<1>10. Held(st, tk, va) = LowTo(st, tk, va, 1)
  <2>1. Len(st) - 1 = 1
    BY <1>1
  <2> QED BY <2>1, HeldIs
<1> QED BY <1>4, <1>9, <1>10

\* Then what parse() returns is spelled by what was read.
LEMMA AcceptTrees ==
  ASSUME PInv, TreesOK, Accept
  PROVE  status' = "accepted" /\ Spells(Items(Front(read')), <<result'>>)
<1>1. status = "parsing" /\ Doing("Accept") /\ read' = read
  BY DEF Accept, Doing, scanner
<1>2. TokensOK /\ StacksOK
  BY <1>1 DEF PInv
<1>3. Stacked(statesStack) /\ Nested(statesStack, Shifted)
  BY <1>1, <1>2, StacksAre
<1>4. Last(statesStack) = 1
  BY <1>1, <1>3, AcceptsWhere
<1>5. statesStack = <<0, 1>>
  BY <1>3, <1>4, OpenedIs
<1>6. status' = "accepted"
  BY AcceptAccepts
<1>7. result' = Last(valuesStack)
  BY <1>6 DEF Accept, Throw
<1>8. Held(statesStack, tokensStack, valuesStack) = <<result'>>
  BY <1>1, <1>2, <1>5, <1>7, HeldAtTheEnd
<1>9. Shifted = Front(read')
  BY <1>1, <1>2, Parsed
<1>10. Spells(Items(Shifted), <<result'>>)
  BY <1>3, <1>8, HeldSpells
<1> QED BY <1>6, <1>9, <1>10

\* The inductive invariant of the trees.
TInv ==
  /\ status = "parsing" => TextOK
  /\ status \in {"scanning", "parsing"} => TreesOK
  /\ ReturnsTheTree

\* No step of parse() breaks it.
LEMMA TreesKept ==
  ASSUME PInv, TInv, [Next]_vars
  PROVE  TInv'
<1>1. CASE getNextToken /\ UNCHANGED stacks
  <2>1. status = "scanning" /\ TokensOK /\ CursorOK /\ TreesOK
    BY <1>1 DEF getNextToken, Match, EndOfText, UnexpectedCharacter, PInv, TInv
  <2>2. CASE status' = "thrown"
    BY <2>2 DEF TInv, ReturnsTheTree
  <2>3. CASE status' # "thrown"
    <3>1. TreesOK' /\ (status' = "parsing" => TextOK') /\ status' # "accepted"
      BY <1>1, <2>1, <2>3, ScanTrees
    <3> QED BY <3>1 DEF TInv, ReturnsTheTree
  <2> QED BY <2>2, <2>3
<1>2. CASE Shift
  <2>1. status = "parsing" /\ status' = "scanning" /\ TokensOK /\ StacksOK /\ TreesOK /\ TextOK
    BY <1>2 DEF Shift, Doing, PInv, TInv
  <2>2. PICK E : Trees(E, Items(Shifted), statesStack, tokensStack, valuesStack)
    BY <2>1 DEF TreesOK
  <2>3. TreesOK'
    BY <1>2, <2>1, <2>2, ShiftTrees DEF TreesOK
  <2> QED BY <2>1, <2>3 DEF TInv, ReturnsTheTree
<1>3. CASE Reduce
  <2>1. status = "parsing"
    BY <1>3 DEF Reduce, ReduceExp, ReduceNumber, ReduceAtom, ReduceList, ReduceEmpty,
                ReduceEntry, Reducing, Doing
  <2>2. StacksOK /\ TreesOK /\ TextOK
    BY <2>1 DEF PInv, TInv
  <2>3. CASE status' = "thrown"
    BY <2>3 DEF TInv, ReturnsTheTree
  <2>4. CASE status' # "thrown"
    <3>1. TreesOK' /\ status' = "parsing" /\ token' = token
      BY <1>3, <2>2, <2>4, ReduceTrees
    <3>2. TextOK'
      BY <2>2, <3>1 DEF TextOK
    <3> QED BY <3>1, <3>2 DEF TInv, ReturnsTheTree
  <2> QED BY <2>3, <2>4
<1>4. CASE Accept
  <2>1. status = "parsing" /\ TreesOK
    BY <1>4 DEF Accept, Doing, TInv
  <2>2. status' = "accepted" /\ Spells(Items(Front(read')), <<result'>>)
    BY <1>4, <2>1, AcceptTrees
  <2> QED BY <2>2 DEF TInv, ReturnsTheTree
<1>5. CASE UnexpectedToken
  BY <1>5 DEF UnexpectedToken, Throw, TInv, ReturnsTheTree
<1>6. CASE UNCHANGED vars
  <2>1. /\ token' = token /\ read' = read /\ status' = status
        /\ statesStack' = statesStack /\ valuesStack' = valuesStack
        /\ tokensStack' = tokensStack /\ result' = result
    BY <1>6 DEF vars, scanner, stacks
  <2>2. Shifted' = Shifted /\ (TextOK' <=> TextOK)
    BY <2>1 DEF Shifted, TextOK
  <2>3. TreesOK' <=> TreesOK
    BY <2>1, <2>2 DEF TreesOK
  <2> QED BY <2>1, <2>2, <2>3 DEF TInv, ReturnsTheTree
<1> QED BY <1>1, <1>2, <1>3, <1>4, <1>5, <1>6 DEF Next, Parse, Finished

LEMMA TreesStay == Spec => [](PInv /\ TInv)
<1>1. Init => TInv
  <2> SUFFICES ASSUME Init
               PROVE  TInv
    OBVIOUS
  <2>1. status = "scanning"
    BY DEF Init, TokenizerInit
  <2> QED BY <2>1, InitTrees DEF TInv, ReturnsTheTree
<1>2. PInv /\ TInv /\ [Next]_vars => TInv'
  BY TreesKept
<1> QED BY <1>1, <1>2, Invariance, PTL DEF Spec

\* For every text, the stacks of parse() spell what was shifted at any time: no
\* reduction of list, entry or atom loses, repeats or swaps an expression.
THEOREM NothingIsLost == Spec => []NothingLost
<1>1. PInv /\ TInv => NothingLost
  <2> SUFFICES ASSUME PInv, TInv, status \in {"scanning", "parsing"}
               PROVE  Spells(Items(Shifted), Held(statesStack, tokensStack, valuesStack))
    BY DEF NothingLost
  <2>1. StacksOK /\ TreesOK
    BY DEF PInv, TInv
  <2>2. Stacked(statesStack)
    BY <2>1, StacksAre
  <2> QED BY <2>1, <2>2, HeldSpells
<1> QED BY <1>1, TreesStay, PTL

\* For every text that parse() takes, the tree that it returns is spelled by the
\* tokens of the text.
THEOREM TheTreeIsRight == Spec => []ReturnsTheTree
<1>1. TInv => ReturnsTheTree
  BY DEF TInv
<1> QED BY <1>1, TreesStay, PTL
=============================================================================
