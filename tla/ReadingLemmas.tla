---------------------------- MODULE ReadingLemmas ----------------------------
(***************************************************************************)
(* What a reading model makes of one node of a valid analysis, for all     *)
(* texts, analyses and models: where its signals lie and how strong they   *)
(* are (src/runtime/core/reading.cpp, generate_model_signals in            *)
(* src/runtime/abi/api.cpp).                                               *)
(***************************************************************************)
EXTENDS Pipeline, MergeLemmas

-----------------------------------------------------------------------------
(* Graphemes and their boundaries *)

(* The boundaries after b up to e, the last bytes of graphemes             *)
EndsIn(T, b, e) == {x \in T.breaks : b < x /\ x <= e}

(* A span and a set of boundaries of a text are finite.                    *)
LEMMA BreaksAreFinite ==
  ASSUME NEW T, IsText(T)
  PROVE  /\ T.size \in Nat /\ T.breaks \subseteq Nat /\ IsFiniteSet(T.breaks)
         /\ \A S \in SUBSET T.breaks : IsFiniteSet(S) /\ Cardinality(S) \in Nat
<1>1. IsFiniteSet(0..T.size) /\ T.size \in Nat /\ T.breaks \subseteq 0..T.size
  BY FS_Interval DEF IsText
<1>2. IsFiniteSet(T.breaks)
  BY <1>1, FS_Subset
<1>3. \A S \in SUBSET T.breaks : IsFiniteSet(S) /\ Cardinality(S) \in Nat
  BY <1>2, FS_Subset, FS_CardinalityType
<1> QED
  BY <1>1, <1>2, <1>3

(* A span at boundaries has as many graphemes as boundaries after its      *)
(* begin.                                                                  *)
LEMMA EndsPerGrapheme ==
  ASSUME NEW T, IsText(T), NEW b \in T.breaks, NEW e \in T.breaks, b <= e
  PROVE  Cardinality(GraphemesIn(T, Span(b, e))) = Cardinality(EndsIn(T, b, e))
<1>1. PICK B, S, U : /\ B = {x \in T.breaks : b < x /\ x < e}
                     /\ S = GraphemesIn(T, Span(b, e)) /\ U = EndsIn(T, b, e)
  OBVIOUS
<1>2. /\ T.breaks \subseteq Nat
      /\ IsFiniteSet(B) /\ b \notin B /\ e \notin B
  BY <1>1, BreaksAreFinite
<1>3. S = {x \in T.breaks : b <= x /\ x < e} /\ U = {x \in T.breaks : b < x /\ x <= e}
  BY <1>1 DEF GraphemesIn, EndsIn, Span
<1>4. CASE b = e
  BY <1>1, <1>2, <1>3, <1>4
<1>5. CASE b # e
  <2>1. S = B \cup {b} /\ U = B \cup {e}
    <3>1. b \in Nat /\ e \in Nat /\ b < e
      BY <1>2, <1>5
    <3>2. ASSUME NEW x \in T.breaks
          PROVE  /\ (b <= x /\ x < e) <=> (b < x /\ x < e) \/ x = b
                 /\ (b < x /\ x <= e) <=> (b < x /\ x < e) \/ x = e
      <4>1. x \in Nat
        BY <1>2
      <4> QED
        BY <3>1, <4>1
    <3> QED
      BY <1>1, <1>3, <3>2
  <2>2. Cardinality(S) = Cardinality(B) + 1 /\ Cardinality(U) = Cardinality(B) + 1
    BY <1>2, <2>1, FS_AddElement
  <2> QED
    BY <1>1, <2>2
<1> QED
  BY <1>4, <1>5

(* What GraphemeEnd is of a valid span                                     *)
IsGraphemeEnd(T, s, n, e) ==
  /\ e \in T.breaks /\ e \in Nat /\ s.begin < e /\ e <= s.end
  /\ Cardinality(EndsIn(T, s.begin, e)) = n

(* A valid span has an n-th grapheme for every n up to their number.       *)
LEMMA GraphemeEnds ==
  ASSUME NEW T, IsText(T), NEW s, IsSpan(s), ValidSpan(T, s),
         NEW n \in 1..GraphemeCount(T, s)
  PROVE  IsGraphemeEnd(T, s, n, GraphemeEnd(T, s, n))
<1>1. PICK b, e, S : b = s.begin /\ e = s.end /\ S = EndsIn(T, b, e)
  OBVIOUS
<1>2. /\ b \in T.breaks /\ e \in T.breaks /\ b <= e /\ s = Span(b, e)
      /\ T.breaks \subseteq Nat
  BY <1>1, BreaksAreFinite DEF IsSpan, ValidSpan, Span
<1>3. S \in SUBSET Nat /\ IsFiniteSet(S)
  BY <1>1, <1>2, BreaksAreFinite DEF EndsIn
<1>4. n \in 1..Cardinality(S)
  BY <1>1, <1>2, EndsPerGrapheme DEF GraphemeCount
<1>5. PICK x \in S : Cardinality(UpTo(S, x)) = n
  BY <1>3, <1>4, NthElement
<1>6. x \in T.breaks /\ b < x /\ x <= e /\ x \in Nat
  BY <1>1, <1>2, <1>5 DEF EndsIn
<1>7. UpTo(S, x) = EndsIn(T, b, x)
  <2>1. ASSUME NEW y \in T.breaks PROVE y <= x => y <= e
    <3>1. y \in Nat /\ e \in Nat
      BY <1>2
    <3> QED
      BY <1>6, <3>1
  <2> QED
    BY <1>1, <2>1 DEF EndsIn, UpTo
<1>8. IsGraphemeEnd(T, s, n, x)
  BY <1>1, <1>5, <1>6, <1>7 DEF IsGraphemeEnd
<1>9. GraphemeEnd(T, s, n) = CHOOSE y \in T.breaks :
        s.begin < y /\ y <= s.end /\ Cardinality(EndsIn(T, s.begin, y)) = n
  BY DEF GraphemeEnd, EndsIn
<1> QED
  <2>1. PICK g : g = GraphemeEnd(T, s, n)
    OBVIOUS
  <2>2. g \in T.breaks /\ s.begin < g /\ g <= s.end /\ Cardinality(EndsIn(T, s.begin, g)) = n
    BY <1>8, <1>9, <2>1 DEF IsGraphemeEnd
  <2> QED
    BY <1>2, <2>1, <2>2 DEF IsGraphemeEnd

(* Graphemes end in their order.                                           *)
LEMMA GraphemeEndsGrow ==
  ASSUME NEW T, IsText(T), NEW s, NEW m \in Nat, NEW n \in Nat, NEW d, NEW e,
         IsGraphemeEnd(T, s, m, d), IsGraphemeEnd(T, s, n, e)
  PROVE  /\ m < n => d < e
         /\ m = n => d = e
<1> DEFINE S(x) == EndsIn(T, s.begin, x)
<1>1. /\ d \in Nat /\ e \in Nat /\ d \in T.breaks /\ e \in T.breaks
      /\ s.begin < d /\ s.begin < e
      /\ Cardinality(S(d)) = m /\ Cardinality(S(e)) = n
  BY DEF IsGraphemeEnd
<1>2. ASSUME NEW x \in Nat, NEW y \in Nat, x <= y
      PROVE  S(x) \subseteq S(y)
  <2>1. ASSUME NEW z \in T.breaks PROVE z <= x => z <= y
    <3>1. z \in Nat
      BY BreaksAreFinite
    <3> QED
      BY <1>2, <3>1
  <2> QED
    BY <2>1 DEF EndsIn
<1>3. \A x : IsFiniteSet(S(x))
  BY BreaksAreFinite DEF EndsIn
<1>4. ASSUME NEW x \in Nat, NEW y \in T.breaks, y \in Nat, s.begin < y, x < y
      PROVE  Cardinality(S(x)) < Cardinality(S(y))
  <2>1. S(x) \subseteq S(y)
    BY <1>2, <1>4
  <2>2. y \in S(y) /\ y \notin S(x)
    BY <1>4 DEF EndsIn
  <2> HIDE DEF S
  <2> QED
    BY <1>3, <2>1, <2>2, FewerInPart
<1>5. d < e => m < n
  BY <1>1, <1>4
<1>6. e < d => n < m
  BY <1>1, <1>4
<1> QED
  BY <1>1, <1>5, <1>6

(* A grapheme of a valid span is a valid span, has text, and lies in it;   *)
(* the graphemes follow each other.                                        *)
LEMMA Graphemes ==
  ASSUME NEW T, IsText(T), NEW s, IsSpan(s), ValidSpan(T, s),
         NEW k \in 1..GraphemeCount(T, s)
  PROVE  LET g == NthGrapheme(T, s, k) IN
         /\ IsSpan(g) /\ ValidSpan(T, g) /\ g.begin < g.end /\ Contains(s, g)
         /\ \A m \in 1..GraphemeCount(T, s) :
              k < m => g.end <= NthGrapheme(T, s, m).begin
<1>1. PICK N, G : /\ N = GraphemeCount(T, s)
                  /\ G = [n \in 1..N |-> GraphemeEnd(T, s, n)]
  OBVIOUS
<1>2. /\ T.size \in Nat /\ T.breaks \subseteq Nat /\ N \in Nat
      /\ \A x \in T.breaks : x <= T.size
  BY <1>1, BreaksAreFinite DEF GraphemeCount, GraphemesIn, IsText
<1>3. PICK b, e : /\ b = s.begin /\ e = s.end /\ b \in T.breaks /\ e \in T.breaks
                  /\ b \in Nat /\ e \in Nat /\ b <= e
  BY <1>2 DEF IsSpan, ValidSpan
<1>4. \A n \in 1..N : IsGraphemeEnd(T, s, n, G[n])
  BY <1>1, GraphemeEnds
<1>5. \A n \in 1..N : G[n] \in T.breaks /\ G[n] \in Nat /\ b < G[n] /\ G[n] <= e
  BY <1>3, <1>4 DEF IsGraphemeEnd
<1>6. ASSUME NEW m \in 1..N, NEW n \in 1..N
      PROVE  (m < n => G[m] < G[n]) /\ (m <= n => G[m] <= G[n])
  <2>1. IsGraphemeEnd(T, s, m, G[m]) /\ IsGraphemeEnd(T, s, n, G[n])
    BY <1>4
  <2>2. /\ m < n => G[m] < G[n]
        /\ m = n => G[m] = G[n]
    BY <1>2, <2>1, GraphemeEndsGrow
  <2> QED
    BY <1>2, <1>5, <2>2
<1>7. PICK From : From = [n \in 1..N |-> IF n = 1 THEN b ELSE G[n - 1]]
  OBVIOUS
<1>8. \A n \in 1..N : NthGrapheme(T, s, n) = Span(From[n], G[n])
  <2>1. ASSUME NEW n \in 1..N, n # 1 PROVE n - 1 \in 1..N
    BY <1>2, <2>1
  <2> QED
    BY <1>1, <1>3, <1>7, <2>1 DEF NthGrapheme
<1>9. ASSUME NEW n \in 1..N
      PROVE  /\ From[n] \in T.breaks /\ From[n] \in Nat
             /\ b <= From[n] /\ From[n] < G[n] /\ From[n] <= e
             /\ \A m \in 1..N : m < n => G[m] <= From[n]
  <2>1. CASE n = 1
    BY <1>2, <1>3, <1>5, <1>7, <2>1
  <2>2. CASE n # 1
    <3>1. PICK j : j = n - 1 /\ j \in 1..N /\ j < n /\ From[n] = G[j]
      BY <1>2, <1>7, <2>2
    <3>2. \A m \in 1..N : m < n => m <= j
      BY <1>2, <3>1
    <3>3. From[n] < G[n] /\ \A m \in 1..N : m < n => G[m] <= From[n]
      BY <1>6, <3>1, <3>2
    <3>4. From[n] \in T.breaks /\ From[n] \in Nat /\ b < From[n] /\ From[n] <= e
      BY <1>5, <3>1
    <3>5. b <= From[n]
      BY <1>3, <3>4
    <3> QED
      BY <3>3, <3>4, <3>5
  <2> QED
    BY <2>1, <2>2
<1>10. PICK g : g = NthGrapheme(T, s, k)
  OBVIOUS
<1>11. k \in 1..N /\ g = Span(From[k], G[k])
  BY <1>1, <1>8, <1>10
<1>12. IsSpan(g) /\ ValidSpan(T, g) /\ g.begin < g.end /\ Contains(s, g)
  <2>1. PICK x, y : /\ x = From[k] /\ y = G[k] /\ x \in T.breaks /\ y \in T.breaks
                    /\ x \in Nat /\ y \in Nat /\ b <= x /\ x < y /\ y <= e
    BY <1>5, <1>9, <1>11
  <2>2. x <= y /\ y <= T.size
    BY <1>2, <2>1
  <2>3. g = [begin |-> x, end |-> y]
    BY <1>11, <2>1 DEF Span
  <2> QED
    BY <1>3, <2>1, <2>2, <2>3 DEF IsSpan, ValidSpan, Contains
<1>13. ASSUME NEW m \in 1..N, k < m
       PROVE  g.end <= NthGrapheme(T, s, m).begin
  <2>1. NthGrapheme(T, s, m) = Span(From[m], G[m])
    BY <1>8
  <2>2. G[k] <= From[m]
    BY <1>9, <1>11, <1>13
  <2> QED
    BY <1>11, <2>1, <2>2 DEF Span
<1> QED
  BY <1>1, <1>10, <1>12, <1>13

(* A prefix of a valid span that ends at its n-th grapheme is a valid span *)
(* of n graphemes in it.                                                   *)
LEMMA Prefixes ==
  ASSUME NEW T, IsText(T), NEW s, IsSpan(s), ValidSpan(T, s),
         NEW n \in 1..GraphemeCount(T, s)
  PROVE  LET p == Span(s.begin, GraphemeEnd(T, s, n)) IN
         /\ IsSpan(p) /\ ValidSpan(T, p) /\ Contains(s, p)
         /\ GraphemeCount(T, p) = n
<1>1. PICK x, b, e : x = GraphemeEnd(T, s, n) /\ b = s.begin /\ e = s.end
  OBVIOUS
<1>2. /\ x \in T.breaks /\ x \in Nat /\ b < x /\ x <= e
      /\ Cardinality(EndsIn(T, b, x)) = n
  BY <1>1, GraphemeEnds DEF IsGraphemeEnd
<1>3. b \in T.breaks /\ b \in Nat /\ \A y \in T.breaks : y <= T.size
  BY <1>1, BreaksAreFinite DEF ValidSpan, IsText
<1>4. b <= x /\ b <= b
  BY <1>2, <1>3
<1>5. GraphemeCount(T, Span(b, x)) = n
  BY <1>2, <1>3, <1>4, EndsPerGrapheme DEF GraphemeCount
<1>6. IsSpan(Span(b, x)) /\ ValidSpan(T, Span(b, x)) /\ Contains(s, Span(b, x))
  BY <1>1, <1>2, <1>3, <1>4 DEF IsSpan, ValidSpan, Contains, Span
<1> QED
  BY <1>1, <1>5, <1>6

(* A valid span in another one that is not that one has fewer graphemes.   *)
LEMMA StrictPartsAreSmaller ==
  ASSUME NEW T, IsText(T), NEW s, IsSpan(s), ValidSpan(T, s),
         NEW p, IsSpan(p), ValidSpan(T, p), Contains(s, p), p # s
  PROVE  GraphemeCount(T, p) < GraphemeCount(T, s)
<1>1. PICK b, e, x, y : b = s.begin /\ e = s.end /\ x = p.begin /\ y = p.end
  OBVIOUS
<1>2. /\ b \in Nat /\ e \in Nat /\ x \in Nat /\ y \in Nat
      /\ b \in T.breaks /\ y \in T.breaks
      /\ b <= x /\ x <= y /\ y <= e
  BY <1>1 DEF IsSpan, ValidSpan, Contains
<1>3. b # x \/ y # e
  BY <1>1 DEF IsSpan
<1>4. PICK S, P : S = GraphemesIn(T, s) /\ P = GraphemesIn(T, p)
  OBVIOUS
<1>5. ASSUME NEW z \in Nat
      PROVE  x <= z /\ z < y => b <= z /\ z < e
  BY <1>2
<1>6. P \subseteq S /\ IsFiniteSet(S)
  BY <1>1, <1>4, <1>5, BreaksAreFinite DEF GraphemesIn
<1>7. CASE b # x
  <2>1. b <= b /\ b < e /\ ~(x <= b)
    BY <1>2, <1>7
  <2>2. b \in S /\ b \notin P
    BY <1>1, <1>2, <1>4, <2>1 DEF GraphemesIn
  <2> QED
    BY <1>4, <1>6, <2>2, FewerInPart DEF GraphemeCount
<1>8. CASE y # e
  <2>1. b <= y /\ y < e /\ ~(y < y)
    BY <1>2, <1>8
  <2>2. y \in S /\ y \notin P
    BY <1>1, <1>2, <1>4, <2>1 DEF GraphemesIn
  <2> QED
    BY <1>4, <1>6, <2>2, FewerInPart DEF GraphemeCount
<1> QED
  BY <1>3, <1>7, <1>8

-----------------------------------------------------------------------------
(* Numbers *)

(* The integer quotient of natural numbers                                 *)
LEMMA Quotients ==
  ASSUME NEW x \in Nat, NEW y \in Nat \ {0}
  PROVE  x \div y \in Nat /\ (x \div y) * y <= x
OBVIOUS

(* A number between bounds stays there.                                    *)
LEMMA Clamped ==
  ASSUME NEW x \in Int, NEW low \in Int, NEW high \in Int, low <= high
  PROVE  Clamp(x, low, high) \in low..high
BY DEF Clamp, Least, Greatest

(* The saliences of a prefix go down from Scale and never below its half.  *)
LEMMA PrefixSaliences ==
  ASSUME NEW n \in Nat, NEW k \in 1..n, n # 1
  PROVE  Scale - ((k - 1) * Scale) \div (2 * (n - 1)) \in 1..Scale
<1>1. PICK x, y, q : /\ x = (k - 1) * Scale /\ y = 2 * (n - 1)
                     /\ q = x \div y
  OBVIOUS
<1>2. /\ Scale \in Nat \ {0} /\ x \in Nat /\ y \in Nat \ {0}
  BY <1>1, ScaleAssumption
<1>3. q \in Nat /\ q * y <= x
  BY <1>1, <1>2, Quotients
<1>4. 2 * x <= Scale * y
  <2>1. PICK i, j : i = k - 1 /\ j = n - 1 /\ i \in Nat /\ j \in Nat /\ i <= j
    OBVIOUS
  <2>2. i * Scale <= j * Scale
    BY <1>2, <2>1
  <2>3. 2 * (j * Scale) = Scale * (2 * j)
    BY <1>2, <2>1
  <2> QED
    BY <1>1, <1>2, <2>1, <2>2, <2>3
<1>5. q < Scale
  <2>1. SUFFICES ASSUME Scale <= q PROVE FALSE
    BY <1>2, <1>3
  <2>2. Scale * y <= q * y
    BY <1>2, <1>3, <2>1
  <2>3. Scale * y \in Nat \ {0}
    BY <1>2
  <2> QED
    BY <1>2, <1>3, <1>4, <2>2, <2>3
<1> QED
  BY <1>1, <1>2, <1>3, <1>5

(* A prefix is of at most all graphemes, and a share of them is a number.  *)
LEMMA PrefixCounts ==
  ASSUME NEW config, IsPrefix(config), NEW n \in Nat \ {0}
  PROVE  PrefixCount(config, n) \in 0..n
<1>1. CASE config.strategy = "fixed" /\ config.graphemes \in Nat
  <2>1. PICK g : g = config.graphemes /\ g \in Nat
    BY <1>1
  <2>2. Least(g, n) \in 0..n
    BY <2>1 DEF Least
  <2> QED
    BY <1>1, <2>1, <2>2 DEF PrefixCount
<1>2. CASE /\ config.strategy = "proportional"
           /\ config.proportion.num \in Nat /\ config.proportion.den \in Nat \ {0}
  <2>1. PICK i, j : /\ i = config.proportion.num /\ j = config.proportion.den
                    /\ i \in Nat /\ j \in Nat \ {0}
    BY <1>2
  <2>2. CeilTimes(n, config.proportion) \in Int
    <3>1. (n * i + j - 1) \div j \in Int
      BY <2>1
    <3> QED
      BY <2>1, <3>1 DEF CeilTimes
  <2>3. Clamp(CeilTimes(n, config.proportion), 1, n) \in 1..n
    <3>1. 1 \in Int /\ n \in Int /\ 1 <= n
      OBVIOUS
    <3> QED
      BY <2>2, <3>1, Clamped
  <2>4. config.strategy # "fixed"
    BY <1>2
  <2>5. 0 \in 0..n /\ 1..n \subseteq 0..n
    OBVIOUS
  <2>6. CASE config.proportion.num = 0
    BY <2>4, <2>5, <2>6 DEF PrefixCount
  <2>7. CASE config.proportion.num # 0
    BY <2>3, <2>4, <2>5, <2>7 DEF PrefixCount
  <2> QED
    BY <2>6, <2>7
<1> QED
  BY <1>1, <1>2 DEF IsPrefix

(* Features are numbers, and so is what a predictor makes of them.         *)
LEMMA FeaturesAreNumbers ==
  ASSUME NEW n, IsNode(n), NEW id
  PROVE  FeatureValue(n, id) \in Int
<1>1. CASE \E k \in DOMAIN n.features : n.features[k].id = id
  <2>1. \E f \in Range(n.features) : f.id = id
    BY <1>1 DEF Range
  <2>2. PICK f : f = CHOOSE g \in Range(n.features) : g.id = id
    OBVIOUS
  <2>3. f \in Range(n.features)
    BY <2>1, <2>2
  <2> QED
    BY <1>1, <2>2, <2>3 DEF FeatureValue, IsNode
<1>2. CASE ~\E k \in DOMAIN n.features : n.features[k].id = id
  BY <1>2 DEF FeatureValue
<1> QED
  BY <1>1, <1>2

(* What a predictor makes of a node is a number.                           *)
LEMMA PredictionsAreNumbers ==
  ASSUME NEW n, IsNode(n), NEW p, IsPredictor(p)
  PROVE  Predict(n, p) \in Int
<1>1. PICK f : f = [x \in DOMAIN p.weights |-> p.weights[x] * FeatureValue(n, x)]
  OBVIOUS
<1>2. DOMAIN f = DOMAIN p.weights /\ IsFiniteSet(DOMAIN f)
  BY <1>1 DEF IsPredictor
<1>3. ASSUME NEW x \in DOMAIN f PROVE f[x] \in Int
  <2>1. p.weights[x] \in Int
    BY <1>2 DEF IsPredictor
  <2>2. FeatureValue(n, x) \in Int
    BY FeaturesAreNumbers
  <2> QED
    BY <1>1, <1>2, <2>1, <2>2
<1>4. SumFunction(f) \in Int
  BY <1>2, <1>3, SumOfNumbers
<1>5. p.bias \in Int
  BY DEF IsPredictor
<1> QED
  BY <1>1, <1>4, <1>5 DEF Predict

-----------------------------------------------------------------------------
(* Signals *)

IsSignal(T, g) ==
  /\ g = [span |-> g.span, salience |-> g.salience]
  /\ IsSpan(g.span) /\ ValidSpan(T, g.span)
  /\ g.salience \in 1..Scale

(* What every reading model makes of a node: signals inside of the node,   *)
(* in the order of the text and apart from each other                      *)
IsReading(T, s, q) ==
  /\ q \in Seq(Range(q))
  /\ \A k \in DOMAIN q : IsSignal(T, q[k]) /\ Contains(s, q[k].span)
  /\ \A j, k \in DOMAIN q : j < k => q[j].span.end <= q[k].span.begin

(* No signal, and one signal of a part of a node, are a reading.           *)
LEMMA ShortReadings ==
  ASSUME NEW T, NEW s
  PROVE  /\ IsReading(T, s, <<>>)
         /\ \A p, x : /\ IsSpan(p) /\ ValidSpan(T, p) /\ Contains(s, p)
                      /\ x \in 1..Scale
                      => IsReading(T, s, <<Signal(p, x)>>)
<1>1. IsReading(T, s, <<>>)
  <2>1. DOMAIN <<>> = {} /\ <<>> \in Seq(Range(<<>>))
    OBVIOUS
  <2> QED
    BY <2>1 DEF IsReading
<1>2. ASSUME NEW p, NEW x, IsSpan(p), ValidSpan(T, p), Contains(s, p), x \in 1..Scale
      PROVE  IsReading(T, s, <<Signal(p, x)>>)
  <2>1. PICK g : g = Signal(p, x)
    OBVIOUS
  <2>2. IsSignal(T, g) /\ g.span = p
    BY <1>2, <2>1 DEF Signal, IsSignal
  <2>3. DOMAIN <<g>> = {1} /\ <<g>>[1] = g /\ <<g>> \in Seq({g})
    OBVIOUS
  <2>4. Range(<<g>>) = {g}
    BY <2>3 DEF Range
  <2> QED
    BY <1>2, <2>1, <2>2, <2>3, <2>4 DEF IsReading
<1> QED
  BY <1>1, <1>2

(* A valid span contains itself.                                           *)
LEMMA SpanInItself ==
  ASSUME NEW s, IsSpan(s)
  PROVE  Contains(s, s)
<1>1. PICK b, e : b = s.begin /\ e = s.end /\ b \in Nat /\ e \in Nat
  BY DEF IsSpan
<1>2. b <= b /\ e <= e
  BY <1>1
<1> QED
  BY <1>1, <1>2 DEF Contains

(* The prefix reading model                                                *)
LEMMA PrefixReads ==
  ASSUME NEW T, IsText(T), NEW config, IsPrefix(config),
         NEW node, IsNode(node), ValidSpan(T, node.span)
  PROVE  IsReading(T, node.span, PrefixSignals(T, config, node))
<1>1. PICK s, n, c, q : /\ s = node.span /\ n = GraphemeCount(T, s)
                        /\ c = IF node.kind # "unit" \/ n = 0 THEN 0
                               ELSE PrefixCount(config, n)
                        /\ q = PrefixSignals(T, config, node)
  OBVIOUS
<1>2. IsSpan(s) /\ ValidSpan(T, s)
  BY <1>1 DEF IsNode
<1>3. n \in Nat
  BY <1>1, BreaksAreFinite DEF GraphemeCount, GraphemesIn
<1>4. c \in 0..n
  <2>1. CASE node.kind # "unit" \/ n = 0
    BY <1>1, <1>3, <2>1
  <2>2. CASE ~(node.kind # "unit" \/ n = 0)
    <3>1. n \in Nat \ {0}
      BY <1>3, <2>2
    <3>2. PrefixCount(config, n) \in 0..n
      BY <3>1, PrefixCounts
    <3> QED
      BY <1>1, <2>2, <3>2
  <2> QED
    BY <2>1, <2>2
<1>5. PICK w : w = [k \in 1..c |-> IF c = 1 THEN Scale
                                   ELSE Scale - ((k - 1) * Scale) \div (2 * (c - 1))]
  OBVIOUS
<1>6. ASSUME NEW k \in 1..c PROVE w[k] \in 1..Scale
  <2>1. CASE c = 1
    BY <1>5, <2>1, ScaleAssumption
  <2>2. CASE c # 1
    <3>1. c \in Nat
      BY <1>3, <1>4
    <3> QED
      BY <1>5, <2>2, <3>1, PrefixSaliences
  <2> QED
    BY <2>1, <2>2
<1>7. q = [k \in 1..c |-> Signal(NthGrapheme(T, s, k), w[k])]
  BY <1>1, <1>5 DEF PrefixSignals
<1>8. c \in Nat /\ DOMAIN q = 1..c /\ q \in Seq(Range(q))
  <2>1. c \in Nat
    BY <1>3, <1>4
  <2>2. q = [k \in 1..c |-> q[k]]
    BY <1>7
  <2> QED
    BY <2>1, <2>2, IsASequence
<1>9. ASSUME NEW k \in 1..c
      PROVE  LET g == NthGrapheme(T, s, k) IN
             /\ IsSpan(g) /\ ValidSpan(T, g) /\ Contains(s, g)
             /\ \A m \in 1..c : k < m => g.end <= NthGrapheme(T, s, m).begin
  <2>1. k \in 1..n /\ \A m \in 1..c : m \in 1..n
    BY <1>3, <1>4
  <2> QED
    BY <1>1, <1>2, <2>1, Graphemes
<1>10. ASSUME NEW k \in 1..c
       PROVE  IsSignal(T, q[k]) /\ q[k].span = NthGrapheme(T, s, k)
  BY <1>6, <1>7, <1>9 DEF Signal, IsSignal
<1> QED
  BY <1>1, <1>8, <1>9, <1>10 DEF IsReading

(* The lexical core model                                                  *)
LEMMA LexicalCoreReads ==
  ASSUME NEW T, NEW node, IsNode(node), ValidSpan(T, node.span)
  PROVE  IsReading(T, node.span, LexicalCoreSignals(node))
<1>1. IsSpan(node.span) /\ Contains(node.span, node.span)
  BY SpanInItself DEF IsNode
<1>2. Scale \in 1..Scale
  BY ScaleAssumption
<1>3. IsReading(T, node.span, <<Signal(node.span, Scale)>>)
  BY <1>1, <1>2, ShortReadings
<1> QED
  BY <1>3, ShortReadings DEF LexicalCoreSignals

(* An analysis whose nodes have valid spans and hold theirs in them        *)
IsReadable(T, a) ==
  IsText(T) /\ IsAnalysis(a) /\ AlignedSpans(T, a) /\ OrderedChildren(a)

(* A node of a readable analysis, and what it holds                        *)
LEMMA ReadableNodes ==
  ASSUME NEW T, NEW a, IsReadable(T, a), NEW i \in Ids(a)
  PROVE  /\ IsNode(NodeAt(a, i)) /\ ValidSpan(T, NodeAt(a, i).span)
         /\ \A k \in DOMAIN NodeAt(a, i).children :
              LET c == NodeAt(a, NodeAt(a, i).children[k]) IN
              IsNode(c) /\ ValidSpan(T, c.span) /\ Contains(NodeAt(a, i).span, c.span)
<1>1. \A j \in Ids(a) : IsNode(NodeAt(a, j)) /\ ValidSpan(T, NodeAt(a, j).span)
  BY NodesAreTyped DEF IsReadable, AlignedSpans
<1> QED
  BY <1>1 DEF IsReadable, OrderedChildren

(* What the segmental model marks of a unit: a part of it, which leaves    *)
(* out something and keeps the minimum if the unit is bigger than that     *)
PartOf(T, s, minimum, p) ==
  /\ IsSpan(p) /\ ValidSpan(T, p) /\ Contains(s, p)
  /\ GraphemeCount(T, s) > minimum =>
       GraphemeCount(T, p) < GraphemeCount(T, s) /\ GraphemeCount(T, p) >= minimum

(* The first strict core is such a part.                                   *)
LEMMA CoresAreParts ==
  ASSUME NEW T, NEW a, IsReadable(T, a), NEW i \in Ids(a), NEW minimum \in Nat \ {0},
         NEW k \in StrictCores(T, a, NodeAt(a, i), minimum)
  PROVE  PartOf(T, NodeAt(a, i).span, minimum, NodeAt(a, NodeAt(a, i).children[k]).span)
<1>1. PICK u, c : u = NodeAt(a, i) /\ c = NodeAt(a, u.children[k])
  OBVIOUS
<1>2. /\ k \in DOMAIN u.children
      /\ c.span # u.span /\ GraphemeCount(T, c.span) >= minimum
  BY <1>1 DEF StrictCores
<1>3. /\ IsNode(u) /\ ValidSpan(T, u.span)
      /\ IsNode(c) /\ ValidSpan(T, c.span) /\ Contains(u.span, c.span)
  BY <1>1, <1>2, ReadableNodes
<1>4. GraphemeCount(T, c.span) < GraphemeCount(T, u.span)
  BY <1>2, <1>3, StrictPartsAreSmaller DEF IsNode, IsReadable
<1> QED
  BY <1>1, <1>2, <1>3, <1>4 DEF PartOf, IsNode

(* So is whatever the segmental model marks.                               *)
LEMMA SegmentsAreParts ==
  ASSUME NEW T, NEW a, IsReadable(T, a), NEW i \in Ids(a), NEW minimum \in Nat \ {0},
         NEW anchor \in Int
  PROVE  PartOf(T, NodeAt(a, i).span, minimum,
                SegmentalSpan(T, a, NodeAt(a, i), anchor, minimum))
<1>1. PICK u, cores, n, count :
        /\ u = NodeAt(a, i) /\ cores = StrictCores(T, a, u, minimum)
        /\ n = GraphemeCount(T, u.span)
        /\ count = CeilTimes(n, [num |-> Clamp(anchor, 0, Scale), den |-> Scale])
  OBVIOUS
<1>2. IsNode(u) /\ ValidSpan(T, u.span) /\ IsSpan(u.span) /\ IsText(T)
  BY <1>1, ReadableNodes DEF IsNode, IsReadable
<1>3. n \in Nat
  BY <1>1, <1>2, BreaksAreFinite DEF GraphemeCount, GraphemesIn
<1>4. count \in Int
  <2>1. Scale \in Nat \ {0}
    BY ScaleAssumption
  <2>2. PICK x : x = Clamp(anchor, 0, Scale) /\ x \in Int
    BY <2>1, Clamped
  <2>3. (n * x + Scale - 1) \div Scale \in Int
    BY <1>3, <2>1, <2>2
  <2> QED
    BY <1>1, <2>2, <2>3 DEF CeilTimes
<1>5. CASE cores # {}
  <2>1. cores \in SUBSET Nat
    <3>1. u.children \in Seq(Nat)
      BY <1>2 DEF IsNode
    <3> QED
      BY <1>1, <3>1 DEF StrictCores
  <2>2. PICK k : k = CHOOSE c \in cores : \A j \in cores : c <= j
    OBVIOUS
  <2>3. k \in cores
    BY <1>5, <2>1, <2>2, LeastElement
  <2>4. SegmentalSpan(T, a, u, anchor, minimum) = NodeAt(a, u.children[k]).span
    BY <1>1, <1>5, <2>2 DEF SegmentalSpan
  <2> QED
    BY <1>1, <2>3, <2>4, CoresAreParts
<1>6. CASE cores = {} /\ n = 0
  <2>1. SegmentalSpan(T, a, u, anchor, minimum) = u.span
    BY <1>1, <1>6 DEF SegmentalSpan
  <2>2. ~(n > minimum)
    BY <1>6
  <2> QED
    BY <1>1, <1>2, <2>1, <2>2, SpanInItself DEF PartOf
<1>7. CASE cores = {} /\ n # 0
  <2>1. PICK c : c = Clamp(Greatest(count, minimum), 1, IF n > minimum THEN n - 1 ELSE n)
    OBVIOUS
  <2>2. c \in 1..n /\ (n > minimum => c < n /\ c >= minimum)
    BY <1>3, <1>4, <1>7, <2>1 DEF Clamp, Greatest, Least
  <2>3. PICK p : p = Span(u.span.begin, GraphemeEnd(T, u.span, c))
    OBVIOUS
  <2>4. SegmentalSpan(T, a, u, anchor, minimum) = p
    BY <1>1, <1>7, <2>1, <2>3 DEF SegmentalSpan
  <2>5. IsSpan(p) /\ ValidSpan(T, p) /\ Contains(u.span, p) /\ GraphemeCount(T, p) = c
    BY <1>1, <1>2, <2>2, <2>3, Prefixes
  <2> QED
    BY <1>1, <2>2, <2>4, <2>5 DEF PartOf
<1> QED
  BY <1>5, <1>6, <1>7

(* The learned models                                                      *)
LEMMA SalienceReads ==
  ASSUME NEW T, NEW a, IsReadable(T, a), NEW i \in Ids(a), NEW m, IsModel(m),
         m.kind \in {"linear_salience", "segmental_salience"}
  PROVE  IsReading(T, NodeAt(a, i).span, SalienceSignals(T, a, m, NodeAt(a, i)))
<1>1. PICK u, x : u = NodeAt(a, i) /\ x = Clamp(Predict(u, m.salience), 0, Scale)
  OBVIOUS
<1>2. IsNode(u) /\ ValidSpan(T, u.span) /\ IsSpan(u.span)
  BY <1>1, ReadableNodes DEF IsNode
<1>3. IsPredictor(m.salience)
  BY DEF IsModel
<1>4. x \in 0..Scale
  <2>1. Predict(u, m.salience) \in Int
    BY <1>2, <1>3, PredictionsAreNumbers
  <2> QED
    BY <1>1, <2>1, ScaleAssumption, Clamped
<1>5. x # 0 => x \in 1..Scale
  BY <1>4, ScaleAssumption
<1>6. PICK p : p = IF m.kind = "linear_salience" THEN u.span
                   ELSE SegmentalSpan(T, a, u, Predict(u, m.anchor), m.minimum)
  OBVIOUS
<1>7. IsSpan(p) /\ ValidSpan(T, p) /\ Contains(u.span, p)
  <2>1. CASE m.kind = "linear_salience"
    BY <1>2, <1>6, <2>1, SpanInItself
  <2>2. CASE m.kind = "segmental_salience"
    <3>1. IsPredictor(m.anchor) /\ m.minimum \in Nat \ {0}
      BY <2>2 DEF IsModel
    <3>2. Predict(u, m.anchor) \in Int
      BY <1>2, <3>1, PredictionsAreNumbers
    <3>3. PartOf(T, u.span, m.minimum, SegmentalSpan(T, a, u, Predict(u, m.anchor), m.minimum))
      BY <1>1, <3>1, <3>2, SegmentsAreParts
    <3> QED
      BY <1>6, <2>2, <3>3 DEF PartOf
  <2> QED
    BY <2>1, <2>2
<1>8. CASE u.kind # "unit" \/ x = 0
  BY <1>1, <1>8, ShortReadings DEF SalienceSignals
<1>9. CASE ~(u.kind # "unit" \/ x = 0)
  <2>1. SalienceSignals(T, a, m, u) = <<Signal(p, x)>>
    BY <1>1, <1>6, <1>9 DEF SalienceSignals
  <2>2. IsReading(T, u.span, <<Signal(p, x)>>)
    BY <1>5, <1>7, <1>9, ShortReadings
  <2> QED
    BY <1>1, <2>1, <2>2
<1> QED
  BY <1>8, <1>9

(* Whatever the model, and whatever it has learned, its signals of a node  *)
(* of a readable analysis lie in the node, aligned with graphemes, in the  *)
(* order of the text and apart, and their saliences are normalized.        *)
THEOREM ModelsReadInPlace ==
  ASSUME NEW T, NEW a, IsReadable(T, a), NEW i \in Ids(a), NEW m, IsModel(m)
  PROVE  IsReading(T, NodeAt(a, i).span, SignalsOf(T, a, m, NodeAt(a, i)))
<1>1. IsNode(NodeAt(a, i)) /\ ValidSpan(T, NodeAt(a, i).span) /\ IsText(T)
  BY ReadableNodes DEF IsReadable
<1>2. CASE m.kind = "prefix"
  <2>1. IsPrefix(m.prefix)
    BY <1>2 DEF IsModel
  <2> QED
    BY <1>1, <1>2, <2>1, PrefixReads DEF SignalsOf
<1>3. CASE m.kind = "lexical_core"
  BY <1>1, <1>3, LexicalCoreReads DEF SignalsOf
<1>4. CASE m.kind \in {"linear_salience", "segmental_salience"}
  BY <1>4, SalienceReads DEF SignalsOf
<1> QED
  BY <1>2, <1>3, <1>4 DEF IsModel

-----------------------------------------------------------------------------
(* Emphasis *)

(* An emphasis between two strengths: aligned with graphemes, of some text *)
IsEmphasis(T, low, high, e) ==
  /\ e = [span |-> e.span, strength |-> e.strength]
  /\ IsSpan(e.span) /\ ValidSpan(T, e.span) /\ e.span.begin < e.span.end
  /\ e.strength \in low..high

(* The emphasis made so far, no emphasis just going on with the one before *)
IsPlan(T, low, high, q) ==
  /\ q \in Seq(Range(q))
  /\ \A k \in DOMAIN q : IsEmphasis(T, low, high, q[k])
  /\ \A k \in DOMAIN q : k + 1 \in DOMAIN q =>
       q[k].span.end # q[k + 1].span.begin \/ q[k].strength # q[k + 1].strength

(* n is q with the emphasis e at its end, or with its last emphasis going  *)
(* on for e.                                                               *)
Appended(q, e, n) ==
  /\ n \in Seq(Range(n)) /\ Len(n) = Len(q) + 1 /\ n[Len(q) + 1] = e
  /\ \A k \in DOMAIN q : n[k] = q[k]
  /\ q # <<>> => \/ q[Len(q)].span.end # e.span.begin
                 \/ q[Len(q)].strength # e.strength

Extended(q, e, n) ==
  /\ n \in Seq(Range(n)) /\ q # <<>> /\ Len(n) = Len(q)
  /\ q[Len(q)].span.end = e.span.begin /\ q[Len(q)].strength = e.strength
  /\ n[Len(q)] = [span |-> Span(q[Len(q)].span.begin, e.span.end), strength |-> e.strength]
  /\ \A k \in DOMAIN q : k # Len(q) => n[k] = q[k]

(* append_normalized does one or the other.                                *)
LEMMA AppendsOrExtends ==
  ASSUME NEW T, NEW low, NEW high, NEW q, IsPlan(T, low, high, q), NEW e
  PROVE  Appended(q, e, AppendNormalized(q, e)) \/ Extended(q, e, AppendNormalized(q, e))
<1>1. PICK n, L : n = AppendNormalized(q, e) /\ L = Len(q)
  OBVIOUS
<1>2. q \in Seq(Range(q)) /\ L \in Nat /\ DOMAIN q = 1..L
  <2>1. q \in Seq(Range(q))
    BY DEF IsPlan
  <2>2. Len(q) \in Nat /\ DOMAIN q = 1..Len(q)
    BY <2>1
  <2> QED
    BY <1>1, <2>1, <2>2
<1>3. CASE /\ q # <<>> /\ q[L].span.end = e.span.begin /\ q[L].strength = e.strength
  <2>1. L \in 1..L
    BY <1>1, <1>2, <1>3
  <2>2. PICK x : x = q[L]
    OBVIOUS
  <2>3. IsEmphasis(T, low, high, x)
    BY <1>2, <2>1, <2>2 DEF IsPlan
  <2>4. PICK y : y = [x EXCEPT !.span.end = e.span.end]
    OBVIOUS
  <2>5. y = [span |-> Span(x.span.begin, e.span.end), strength |-> e.strength]
    <3>1. x.span = [begin |-> x.span.begin, end |-> x.span.end]
      BY <2>3 DEF IsEmphasis, IsSpan
    <3>2. x = [span |-> x.span, strength |-> x.strength]
      BY <2>3 DEF IsEmphasis
    <3>3. y = [x EXCEPT !.span = [x.span EXCEPT !.end = e.span.end]]
      BY <2>4, <3>2
    <3>4. [x.span EXCEPT !.end = e.span.end] = Span(x.span.begin, e.span.end)
      BY <3>1 DEF Span
    <3> QED
      BY <1>3, <2>2, <3>2, <3>3, <3>4
  <2>6. n = [q EXCEPT ![L].span.end = e.span.end]
    BY <1>1, <1>3 DEF AppendNormalized
  <2>7. n = [k \in 1..L |-> IF k = L THEN y ELSE q[k]]
    BY <1>2, <2>1, <2>2, <2>4, <2>6
  <2>8. n \in Seq(Range(n)) /\ Len(n) = L
    <3>1. n = [k \in 1..L |-> n[k]]
      BY <2>7
    <3> QED
      BY <1>2, <3>1, IsASequence
  <2>9. n[L] = y /\ \A k \in 1..L : k # L => n[k] = q[k]
    BY <2>1, <2>7
  <2>10. Extended(q, e, n)
    BY <1>1, <1>2, <1>3, <2>2, <2>5, <2>8, <2>9 DEF Extended
  <2> QED
    BY <1>1, <2>10
<1>4. CASE ~(/\ q # <<>> /\ q[L].span.end = e.span.begin /\ q[L].strength = e.strength)
  <2>1. n = Append(q, e)
    BY <1>1, <1>4 DEF AppendNormalized
  <2>2. PICK S : S = Range(q) \cup {e}
    OBVIOUS
  <2>3. q \in Seq(S) /\ e \in S
    BY <1>2, <2>2
  <2>4. /\ n \in Seq(S) /\ Len(n) = L + 1 /\ n[L + 1] = e
        /\ \A k \in 1..L : n[k] = q[k]
    BY <1>1, <1>2, <2>1, <2>3
  <2>5. n \in Seq(Range(n))
    BY <2>4, SequenceFacts
  <2>6. Appended(q, e, n)
    BY <1>1, <1>2, <1>4, <2>4, <2>5 DEF Appended
  <2> QED
    BY <1>1, <2>6
<1> QED
  BY <1>3, <1>4

(* The last emphasis of an extended plan, which grows from x to y, over    *)
(* the bytes from b to h instead of those to m, and the others             *)
Grown(T, low, high, q, e, n, L, x, y, b, m, h) ==
  /\ L \in Nat \ {0} /\ L = Len(q) /\ DOMAIN q = 1..L /\ DOMAIN n = 1..L
  /\ x = q[L] /\ y = n[L] /\ IsEmphasis(T, low, high, x) /\ IsEmphasis(T, low, high, y)
  /\ x.span.begin = b /\ x.span.end = m /\ y.span.begin = b /\ y.span.end = h
  /\ e.span.begin = m /\ e.span.end = h
  /\ b \in Nat /\ m \in Nat /\ h \in Nat /\ b < m /\ m < h
  /\ x.strength = e.strength /\ y.strength = e.strength
  /\ \A k \in 1..(L - 1) : n[k] = q[k]

(* An extended plan has grown that way.                                    *)
LEMMA ExtendedPlan ==
  ASSUME NEW T, NEW low, NEW high, NEW q, IsPlan(T, low, high, q),
         NEW e, IsEmphasis(T, low, high, e), NEW n, Extended(q, e, n)
  PROVE  \E L, x, y, b, m, h : Grown(T, low, high, q, e, n, L, x, y, b, m, h)
<1>1. PICK L : L = Len(q)
  OBVIOUS
<1>2. /\ L \in Nat \ {0} /\ DOMAIN q = 1..L /\ L \in 1..L
  <2>1. q \in Seq(Range(q)) /\ q # <<>>
    BY DEF IsPlan, Extended
  <2>2. Len(q) \in Nat \ {0} /\ DOMAIN q = 1..Len(q)
    BY <2>1
  <2> QED
    BY <1>1, <2>2
<1>3. DOMAIN n = 1..L
  <2>1. n \in Seq(Range(n)) /\ Len(n) = L
    BY <1>1 DEF Extended
  <2> QED
    BY <2>1
<1>4. PICK x, y : x = q[L] /\ y = n[L]
  OBVIOUS
<1>5. PICK b, m, h : b = x.span.begin /\ m = x.span.end /\ h = e.span.end
  OBVIOUS
<1>6. IsEmphasis(T, low, high, x)
  BY <1>2, <1>4 DEF IsPlan
<1>7. /\ e.span.begin = m /\ x.strength = e.strength
      /\ y = [span |-> Span(b, h), strength |-> e.strength]
      /\ \A k \in 1..L : k # L => n[k] = q[k]
  BY <1>1, <1>2, <1>4, <1>5 DEF Extended
<1>8. /\ b \in Nat /\ m \in Nat /\ h \in Nat /\ b < m /\ m < h
      /\ b \in T.breaks /\ h \in T.breaks /\ h <= T.size
  BY <1>5, <1>6, <1>7 DEF IsEmphasis, IsSpan, ValidSpan
<1>9. y.span = [begin |-> b, end |-> h] /\ y.strength = e.strength
  BY <1>7 DEF Span
<1>10. b < h /\ b <= h
  BY <1>8
<1>11. IsEmphasis(T, low, high, y)
  <2>1. IsSpan(y.span) /\ ValidSpan(T, y.span) /\ y.span.begin < y.span.end
    BY <1>8, <1>9, <1>10 DEF IsSpan, ValidSpan
  <2>2. y.strength \in low..high
    BY <1>9 DEF IsEmphasis
  <2>3. y = [span |-> y.span, strength |-> y.strength]
    BY <1>7
  <2> QED
    BY <2>1, <2>2, <2>3 DEF IsEmphasis
<1>12. \A k \in 1..(L - 1) : n[k] = q[k]
  BY <1>2, <1>7
<1>13. Grown(T, low, high, q, e, n, L, x, y, b, m, h)
  <2>1. y.span.begin = b /\ y.span.end = h
    BY <1>9
  <2> QED
    BY <1>1, <1>2, <1>3, <1>4, <1>5, <1>6, <1>7, <1>8, <1>9, <1>11, <1>12, <2>1, Zenon DEF Grown
<1> QED
  BY <1>13

(* append_normalized keeps a plan a plan.                                  *)
LEMMA PlansStayPlans ==
  ASSUME NEW T, NEW low, NEW high, NEW q, IsPlan(T, low, high, q),
         NEW e, IsEmphasis(T, low, high, e)
  PROVE  IsPlan(T, low, high, AppendNormalized(q, e))
<1>1. PICK n : n = AppendNormalized(q, e)
  OBVIOUS
<1>2. CASE Appended(q, e, n)
  <2>1. PICK L : L = Len(q)
    OBVIOUS
  <2>2. q \in Seq(Range(q)) /\ L \in Nat /\ DOMAIN q = 1..L
    <3>1. q \in Seq(Range(q))
      BY DEF IsPlan
    <3>2. Len(q) \in Nat /\ DOMAIN q = 1..Len(q)
      BY <3>1
    <3> QED
      BY <2>1, <3>1, <3>2
  <2>3. /\ n \in Seq(Range(n)) /\ DOMAIN n = 1..(L + 1) /\ n[L + 1] = e
        /\ \A k \in 1..L : n[k] = q[k]
    <3>1. n \in Seq(Range(n)) /\ Len(n) = L + 1
      BY <1>2, <2>1 DEF Appended
    <3> QED
      BY <1>2, <2>1, <2>2, <3>1 DEF Appended
  <2>4. ASSUME NEW k \in DOMAIN n PROVE IsEmphasis(T, low, high, n[k])
    <3>1. k \in 1..L \/ k = L + 1
      BY <2>2, <2>3
    <3>2. CASE k \in 1..L
      BY <2>2, <2>3, <3>2 DEF IsPlan
    <3>3. CASE k = L + 1
      BY <2>3, <3>3
    <3> QED
      BY <3>1, <3>2, <3>3
  <2>5. ASSUME NEW k \in DOMAIN n, k + 1 \in DOMAIN n
        PROVE  n[k].span.end # n[k + 1].span.begin \/ n[k].strength # n[k + 1].strength
    <3>1. k \in 1..L
      BY <2>2, <2>3, <2>5
    <3>2. CASE k + 1 \in 1..L
      BY <2>2, <2>3, <3>1, <3>2 DEF IsPlan
    <3>3. CASE k + 1 \notin 1..L
      <4>1. k = L /\ k + 1 = L + 1
        BY <2>2, <3>1, <3>3
      <4>2. q # <<>>
        BY <2>2, <3>1
      <4>3. q[L].span.end # e.span.begin \/ q[L].strength # e.strength
        BY <1>2, <2>1, <4>2 DEF Appended
      <4>4. n[k] = q[L] /\ n[k + 1] = e
        BY <2>3, <3>1, <4>1
      <4> QED
        BY <4>3, <4>4
    <3> QED
      BY <3>2, <3>3
  <2> QED
    BY <1>1, <2>3, <2>4, <2>5 DEF IsPlan
<1>3. CASE Extended(q, e, n)
  <2>0. PICK L, x, y, b, m, h : Grown(T, low, high, q, e, n, L, x, y, b, m, h)
    BY <1>3, ExtendedPlan, Zenon
  <2>1. /\ L \in Nat \ {0} /\ L = Len(q) /\ DOMAIN q = 1..L /\ DOMAIN n = 1..L
        /\ x = q[L] /\ y = n[L]
        /\ IsEmphasis(T, low, high, x) /\ IsEmphasis(T, low, high, y)
        /\ x.span.begin = b /\ x.span.end = m /\ y.span.begin = b /\ y.span.end = h
        /\ e.span.begin = m /\ e.span.end = h
        /\ b \in Nat /\ m \in Nat /\ h \in Nat /\ b < m /\ m < h
        /\ x.strength = e.strength /\ y.strength = e.strength
        /\ \A k \in 1..(L - 1) : n[k] = q[k]
    BY <2>0 DEF Grown
  <2>2. ASSUME NEW k \in DOMAIN n PROVE IsEmphasis(T, low, high, n[k])
    <3>1. k \in 1..(L - 1) \/ k = L
      BY <2>1
    <3>2. CASE k \in 1..(L - 1)
      BY <2>1, <3>2 DEF IsPlan
    <3>3. CASE k = L
      BY <2>1, <3>3
    <3> QED
      BY <3>1, <3>2, <3>3
  <2>3. ASSUME NEW k \in DOMAIN n, k + 1 \in DOMAIN n
        PROVE  n[k].span.end # n[k + 1].span.begin \/ n[k].strength # n[k + 1].strength
    <3>1. k \in 1..(L - 1) /\ k \in 1..L /\ k + 1 \in 1..L
      BY <2>1, <2>3
    <3>2. \/ q[k].span.end # q[k + 1].span.begin
          \/ q[k].strength # q[k + 1].strength
      BY <2>1, <3>1 DEF IsPlan
    <3>3. n[k] = q[k]
      BY <2>1, <3>1
    <3>4. n[k + 1].span.begin = q[k + 1].span.begin /\ n[k + 1].strength = q[k + 1].strength
      <4>1. CASE k + 1 \in 1..(L - 1)
        BY <2>1, <4>1
      <4>2. CASE k + 1 = L
        BY <2>1, <4>2
      <4> QED
        BY <2>1, <3>1, <4>1, <4>2
    <3> QED
      BY <3>2, <3>3, <3>4
  <2>4. n \in Seq(Range(n))
    BY <1>3 DEF Extended
  <2> QED
    BY <1>1, <2>2, <2>3, <2>4 DEF IsPlan
<1> QED
  BY <1>1, <1>2, <1>3, AppendsOrExtends

-----------------------------------------------------------------------------
(* What a plan emphasizes *)

OverAt(e, g) == e.span.begin <= g /\ g < e.span.end

(* The strengths at which a plan emphasizes the grapheme at g              *)
StrengthsAt(q, g) == {e.strength : e \in {x \in Range(q) : OverAt(x, g)}}

(* append_normalized adds the strength of the emphasis where that lies,    *)
(* and changes nothing elsewhere.                                          *)
LEMMA AppendingAdds ==
  ASSUME NEW T, NEW low, NEW high, NEW q, IsPlan(T, low, high, q),
         NEW e, IsEmphasis(T, low, high, e), NEW g \in Nat
  PROVE  StrengthsAt(AppendNormalized(q, e), g)
           = StrengthsAt(q, g) \cup (IF OverAt(e, g) THEN {e.strength} ELSE {})
<1>1. PICK n : n = AppendNormalized(q, e)
  OBVIOUS
<1>2. ASSUME NEW p, NEW v
      PROVE  v \in StrengthsAt(p, g) <=> \E k \in DOMAIN p : OverAt(p[k], g) /\ p[k].strength = v
  BY DEF StrengthsAt, Range
<1>3. CASE Appended(q, e, n)
  <2>1. PICK L : L = Len(q)
    OBVIOUS
  <2>2. L \in Nat /\ DOMAIN q = 1..L
    <3>1. q \in Seq(Range(q))
      BY DEF IsPlan
    <3>2. Len(q) \in Nat /\ DOMAIN q = 1..Len(q)
      BY <3>1
    <3> QED
      BY <2>1, <3>2
  <2>3. /\ DOMAIN n = 1..(L + 1) /\ n[L + 1] = e
        /\ \A k \in 1..L : n[k] = q[k]
    <3>1. n \in Seq(Range(n)) /\ Len(n) = L + 1
      BY <1>3, <2>1 DEF Appended
    <3> QED
      BY <1>3, <2>1, <2>2, <3>1 DEF Appended
  <2>4. DOMAIN n = DOMAIN q \cup {L + 1}
    BY <2>2, <2>3
  <2>5. ASSUME NEW v
        PROVE  v \in StrengthsAt(n, g)
                 <=> v \in StrengthsAt(q, g) \/ (OverAt(e, g) /\ v = e.strength)
    BY <1>2, <2>2, <2>3, <2>4
  <2> QED
    BY <1>1, <2>5
<1>4. CASE Extended(q, e, n)
  <2>0. PICK L, x, y, b, m, h : Grown(T, low, high, q, e, n, L, x, y, b, m, h)
    BY <1>4, ExtendedPlan, Zenon
  <2>1. /\ L \in Nat \ {0} /\ L = Len(q) /\ DOMAIN q = 1..L /\ DOMAIN n = 1..L
        /\ x = q[L] /\ y = n[L]
        /\ IsEmphasis(T, low, high, x) /\ IsEmphasis(T, low, high, y)
        /\ x.span.begin = b /\ x.span.end = m /\ y.span.begin = b /\ y.span.end = h
        /\ e.span.begin = m /\ e.span.end = h
        /\ b \in Nat /\ m \in Nat /\ h \in Nat /\ b < m /\ m < h
        /\ x.strength = e.strength /\ y.strength = e.strength
        /\ \A k \in 1..(L - 1) : n[k] = q[k]
    BY <2>0 DEF Grown
  <2>2. OverAt(y, g) <=> OverAt(x, g) \/ OverAt(e, g)
    <3>1. b <= g /\ g < h <=> (b <= g /\ g < m) \/ (m <= g /\ g < h)
      BY <2>1
    <3> QED
      BY <2>1, <3>1 DEF OverAt
  <2>3. DOMAIN q = 1..(L - 1) \cup {L} /\ DOMAIN n = 1..(L - 1) \cup {L}
    BY <2>1
  <2>4. ASSUME NEW v
        PROVE  v \in StrengthsAt(n, g)
                 <=> v \in StrengthsAt(q, g) \/ (OverAt(e, g) /\ v = e.strength)
    <3>1. v \in StrengthsAt(n, g) <=>
            \/ \E k \in 1..(L - 1) : OverAt(n[k], g) /\ n[k].strength = v
            \/ OverAt(y, g) /\ y.strength = v
      BY <1>2, <2>1, <2>3
    <3>2. v \in StrengthsAt(q, g) <=>
            \/ \E k \in 1..(L - 1) : OverAt(q[k], g) /\ q[k].strength = v
            \/ OverAt(x, g) /\ x.strength = v
      BY <1>2, <2>1, <2>3
    <3>3. \A k \in 1..(L - 1) : n[k] = q[k]
      BY <2>1
    <3>4. x.strength = e.strength /\ y.strength = e.strength
      BY <2>1
    <3> QED
      BY <2>2, <3>1, <3>2, <3>3, <3>4, Zenon
  <2> QED
    BY <1>1, <2>4
<1> QED
  BY <1>1, <1>3, <1>4, AppendsOrExtends

-----------------------------------------------------------------------------
(* The order of a plan *)

PlanInOrder(q) == \A k \in 1..(Len(q) - 1) : q[k].span.end <= q[k + 1].span.begin
EndsUntil(q, x) == \A k \in DOMAIN q : q[k].span.end <= x

(* append_normalized keeps a plan in order if the emphasis comes after it. *)
LEMMA AppendingKeepsOrder ==
  ASSUME NEW T, NEW low, NEW high, NEW q, IsPlan(T, low, high, q),
         NEW e, IsEmphasis(T, low, high, e),
         PlanInOrder(q), EndsUntil(q, e.span.begin)
  PROVE  /\ PlanInOrder(AppendNormalized(q, e))
         /\ EndsUntil(AppendNormalized(q, e), e.span.end)
<1>1. PICK n, u, v : n = AppendNormalized(q, e) /\ u = e.span.begin /\ v = e.span.end
  OBVIOUS
<1>2. u \in Nat /\ v \in Nat /\ u < v
  BY <1>1 DEF IsEmphasis, IsSpan
<1>3. ASSUME NEW k \in DOMAIN q
      PROVE  q[k].span.end \in Nat /\ q[k].span.end <= u /\ q[k].span.end <= v
  <2>1. PICK x : x = q[k].span.end
    OBVIOUS
  <2>2. x \in Nat /\ x <= u
    BY <1>1, <2>1 DEF IsPlan, IsEmphasis, IsSpan, EndsUntil
  <2> QED
    BY <1>2, <2>1, <2>2
<1>4. CASE Appended(q, e, n)
  <2>1. PICK L : L = Len(q)
    OBVIOUS
  <2>2. L \in Nat /\ DOMAIN q = 1..L
    <3>1. q \in Seq(Range(q))
      BY DEF IsPlan
    <3>2. Len(q) \in Nat /\ DOMAIN q = 1..Len(q)
      BY <3>1
    <3> QED
      BY <2>1, <3>2
  <2>3. /\ Len(n) = L + 1 /\ DOMAIN n = 1..(L + 1) /\ n[L + 1] = e
        /\ \A k \in 1..L : n[k] = q[k]
    <3>1. n \in Seq(Range(n)) /\ Len(n) = L + 1
      BY <1>4, <2>1 DEF Appended
    <3> QED
      BY <1>4, <2>1, <2>2, <3>1 DEF Appended
  <2>4. ASSUME NEW k \in 1..(Len(n) - 1) PROVE n[k].span.end <= n[k + 1].span.begin
    <3>1. k \in 1..L /\ ((k \in 1..(L - 1) /\ k + 1 \in 1..L) \/ k = L)
      BY <2>2, <2>3
    <3>2. CASE k = L
      BY <1>1, <1>3, <2>2, <2>3, <3>1, <3>2
    <3>3. CASE k \in 1..(L - 1) /\ k + 1 \in 1..L
      BY <2>1, <2>3, <3>1, <3>3 DEF PlanInOrder
    <3> QED
      BY <3>1, <3>2, <3>3
  <2>5. ASSUME NEW k \in DOMAIN n PROVE n[k].span.end <= v
    <3>1. k \in 1..L \/ k = L + 1
      BY <2>2, <2>3
    <3>2. v <= v
      BY <1>2
    <3> QED
      BY <1>1, <1>3, <2>2, <2>3, <3>1, <3>2
  <2> QED
    BY <1>1, <2>4, <2>5 DEF PlanInOrder, EndsUntil
<1>5. CASE Extended(q, e, n)
  <2>1. PICK L, x, y, b, m, h : Grown(T, low, high, q, e, n, L, x, y, b, m, h)
    BY <1>5, ExtendedPlan, Zenon
  <2>2. /\ L \in Nat \ {0} /\ L = Len(q) /\ DOMAIN q = 1..L /\ DOMAIN n = 1..L
        /\ x = q[L] /\ y = n[L]
        /\ x.span.begin = b /\ y.span.begin = b /\ y.span.end = h /\ h = v
        /\ h \in Nat
        /\ \A k \in 1..(L - 1) : n[k] = q[k]
    BY <1>1, <2>1 DEF Grown
  <2>3. Len(n) = L
    BY <1>5, <2>2 DEF Extended
  <2>4. ASSUME NEW k \in 1..(Len(n) - 1) PROVE n[k].span.end <= n[k + 1].span.begin
    <3>1. k \in 1..(L - 1) /\ k + 1 \in 1..L /\ (k + 1 \in 1..(L - 1) \/ k + 1 = L)
      BY <2>2, <2>3
    <3>2. q[k].span.end <= q[k + 1].span.begin
      BY <2>2, <3>1 DEF PlanInOrder
    <3>3. n[k] = q[k] /\ n[k + 1].span.begin = q[k + 1].span.begin
      BY <2>2, <3>1
    <3> QED
      BY <3>2, <3>3
  <2>5. ASSUME NEW k \in DOMAIN n PROVE n[k].span.end <= v
    <3>1. (k \in 1..(L - 1) /\ k \in 1..L) \/ k = L
      BY <2>2
    <3>2. v <= v
      BY <1>2
    <3> QED
      BY <1>3, <2>2, <3>1, <3>2
  <2> QED
    BY <1>1, <2>4, <2>5 DEF PlanInOrder, EndsUntil
<1> QED
  BY <1>1, <1>4, <1>5, AppendsOrExtends

-----------------------------------------------------------------------------
(* The policies *)

IsPolicy(p) ==
  /\ p.minimum \in Nat /\ p.maximum \in Nat
  /\ p.minimum <= p.maximum /\ p.maximum <= Scale

(* A strength stays between the policy's bounds.                           *)
LEMMA StrengthsBounded ==
  ASSUME NEW p, IsPolicy(p), NEW x \in Int
  PROVE  Strength(p, x) \in (p.minimum * Scale)..(p.maximum * Scale)
<1>1. PICK low, high, c : /\ low = p.minimum /\ high = p.maximum
                          /\ c = Clamp(x, 0, Scale)
  OBVIOUS
<1>2. low \in Nat /\ high \in Nat /\ low <= high /\ Scale \in Nat
  BY <1>1, ScaleAssumption DEF IsPolicy
<1>3. c \in 0..Scale
  BY <1>1, <1>2, Clamped
<1>4. PICK d : d = high - low /\ d \in Nat /\ high = low + d
  BY <1>2
<1>5. d * c \in Nat /\ d * c <= d * Scale
  BY <1>2, <1>3, <1>4
<1>6. /\ high * Scale = low * Scale + d * Scale
      /\ low * Scale \in Nat /\ d * Scale \in Nat
  BY <1>2, <1>4
<1>7. /\ low * Scale + d * c \in (low * Scale)..(high * Scale)
      /\ high * Scale \in (low * Scale)..(high * Scale)
  <2>1. PICK i, j, k : /\ i = low * Scale /\ j = d * c /\ k = d * Scale
                       /\ i \in Nat /\ j \in Nat /\ k \in Nat /\ j <= k
                       /\ high * Scale = i + k
    BY <1>5, <1>6
  <2>2. i + j \in i..(i + k) /\ i + k \in i..(i + k)
    BY <2>1
  <2> QED
    BY <2>1, <2>2
<1> QED
  BY <1>1, <1>4, <1>7 DEF Strength

(* What the policy makes of a signal that passes it is an emphasis.        *)
LEMMA SignalsToEmphasis ==
  ASSUME NEW T, NEW p, IsPolicy(p), NEW g, IsSignal(T, g), Passes(p, g)
  PROVE  IsEmphasis(T, p.minimum * Scale, p.maximum * Scale,
                    [span |-> g.span, strength |-> Strength(p, g.salience)])
<1>1. g.salience \in Int /\ IsSpan(g.span) /\ ValidSpan(T, g.span)
  BY ScaleAssumption DEF IsSignal
<1>2. Strength(p, g.salience) \in (p.minimum * Scale)..(p.maximum * Scale)
  BY <1>1, StrengthsBounded
<1>3. g.span.begin < g.span.end
  <2>1. PICK b, e : b = g.span.begin /\ e = g.span.end
    OBVIOUS
  <2>2. b \in Nat /\ e \in Nat /\ b <= e /\ b # e
    BY <1>1, <2>1 DEF IsSpan, Passes, EmptySpan
  <2> QED
    BY <2>1, <2>2
<1> QED
  BY <1>1, <1>2, <1>3 DEF IsEmphasis

-----------------------------------------------------------------------------
(* The signals of several nodes *)

AreSignals(T, q) == q \in Seq(Range(q)) /\ \A k \in DOMAIN q : IsSignal(T, q[k])

SpansInOrder(q) == \A j, k \in DOMAIN q : j < k => q[j].span.end <= q[k].span.begin

(* c is p with the signals q of a span s at its end: they are signals, in  *)
(* order if those of p are and end before the span, and each is one of p's *)
(* or lies in the span.                                                    *)
Joined(T, p, s, q, c) ==
  /\ AreSignals(T, c)
  /\ SpansInOrder(p) /\ (q # <<>> => EndsUntil(p, s.begin)) => SpansInOrder(c)
  /\ \A k \in DOMAIN c : \/ \E j \in DOMAIN p : c[k] = p[j]
                         \/ q # <<>> /\ Contains(s, c[k].span)

(* The signals of one more node go on with those so far that way.          *)
LEMMA ReadingsJoin ==
  ASSUME NEW T, NEW p, AreSignals(T, p), NEW s, IsSpan(s), NEW q, IsReading(T, s, q)
  PROVE  Joined(T, p, s, q, p \o q)
<1>1. PICK c, S, m, n : /\ c = p \o q /\ S = Range(p) \cup Range(q)
                        /\ m = Len(p) /\ n = Len(q)
  OBVIOUS
<1>2. /\ p \in Seq(S) /\ q \in Seq(S)
      /\ m \in Nat /\ n \in Nat /\ DOMAIN p = 1..m /\ DOMAIN q = 1..n
  <2>1. p \in Seq(Range(p)) /\ q \in Seq(Range(q))
    BY DEF AreSignals, IsReading
  <2>2. /\ Len(p) \in Nat /\ DOMAIN p = 1..Len(p)
        /\ Len(q) \in Nat /\ DOMAIN q = 1..Len(q)
    BY <2>1
  <2> QED
    BY <1>1, <2>1, <2>2
<1>3. /\ c \in Seq(S) /\ Len(c) = m + n
      /\ \A k \in 1..m : c[k] = p[k]
      /\ \A k \in 1..n : c[m + k] = q[k]
  BY <1>1, <1>2
<1>4. DOMAIN c = 1..(m + n) /\ c \in Seq(Range(c))
  BY <1>2, <1>3, SequenceFacts
<1>5. ASSUME NEW k \in DOMAIN c
      PROVE  k \in 1..m \/ \E j \in 1..n : k = m + j
  <2>1. k \in Int /\ 1 <= k /\ k <= m + n
    BY <1>2, <1>4
  <2>2. k > m => k - m \in 1..n /\ k = m + (k - m)
    BY <1>2, <2>1
  <2> QED
    BY <1>2, <2>1, <2>2
<1>6. /\ \A k \in 1..m : IsSignal(T, p[k])
      /\ \A k \in 1..n : IsSignal(T, q[k]) /\ Contains(s, q[k].span)
      /\ \A j, k \in 1..n : j < k => q[j].span.end <= q[k].span.begin
  BY <1>2 DEF AreSignals, IsReading
<1>7. AreSignals(T, c)
  BY <1>3, <1>4, <1>5, <1>6 DEF AreSignals
<1>8. ASSUME NEW k \in DOMAIN c
      PROVE  \/ \E j \in DOMAIN p : c[k] = p[j]
             \/ q # <<>> /\ Contains(s, c[k].span)
  <2>1. CASE k \in 1..m
    BY <1>2, <1>3, <2>1
  <2>2. ASSUME NEW j \in 1..n, k = m + j PROVE q # <<>> /\ Contains(s, c[k].span)
    <3>1. q # <<>>
      BY <1>1, <1>2, <2>2
    <3> QED
      BY <1>3, <1>6, <2>2, <3>1
  <2> QED
    BY <1>5, <2>1, <2>2
<1>9. ASSUME SpansInOrder(p), q # <<>> => EndsUntil(p, s.begin),
             NEW j \in DOMAIN c, NEW k \in DOMAIN c, j < k
      PROVE  c[j].span.end <= c[k].span.begin
  <2>1. CASE k \in 1..m
    <3>1. j \in 1..m
      BY <1>2, <1>4, <1>9, <2>1
    <3> QED
      BY <1>2, <1>3, <1>9, <2>1, <3>1 DEF SpansInOrder
  <2>2. ASSUME NEW h \in 1..n, k = m + h PROVE c[j].span.end <= c[k].span.begin
    <3>1. c[k] = q[h]
      BY <1>3, <2>2
    <3>2. CASE j \in 1..m
      <4>1. q # <<>>
        BY <1>1, <1>2, <2>2
      <4>2. PICK x, y, z : x = p[j].span.end /\ y = s.begin /\ z = q[h].span.begin
        OBVIOUS
      <4>3. x <= y
        BY <1>2, <1>9, <3>2, <4>1, <4>2 DEF EndsUntil
      <4>4. y <= z
        BY <1>6, <4>2 DEF Contains
      <4>5. x \in Nat /\ y \in Nat /\ z \in Nat
        BY <1>6, <3>2, <4>2 DEF IsSignal, IsSpan
      <4>6. x <= z
        BY <4>3, <4>4, <4>5
      <4> QED
        BY <1>3, <3>1, <3>2, <4>2, <4>6
    <3>3. ASSUME NEW i \in 1..n, j = m + i PROVE c[j].span.end <= c[k].span.begin
      <4>1. i < h
        BY <1>2, <1>9, <2>2, <3>3
      <4> QED
        BY <1>3, <1>6, <2>2, <3>3, <4>1
    <3> QED
      BY <1>5, <3>2, <3>3
  <2> QED
    BY <1>5, <2>1, <2>2
<1>10. SpansInOrder(p) /\ (q # <<>> => EndsUntil(p, s.begin)) => SpansInOrder(c)
  BY <1>9 DEF SpansInOrder
<1>11. Joined(T, p, s, q, c)
  BY <1>7, <1>8, <1>10 DEF Joined
<1> QED
  BY <1>1, <1>11
=============================================================================
