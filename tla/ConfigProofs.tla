---------------------------- MODULE ConfigProofs ----------------------------
(***************************************************************************)
(* The start of the runner, for any series file, pairs and settings: what  *)
(* --check says of them is what the runner does, and every task it creates *)
(* can do its work. IInv of Config is the inductive invariant of both.     *)
(***************************************************************************)
EXTENDS Config, FiniteSetTheorems, WellFoundedInduction, TLAPS

(* The least element of a set of naturals.                                 *)
LEMMA Least ==
    ASSUME NEW S \in SUBSET Nat, S # {}
    PROVE  \E n \in S : \A m \in S : n <= m
<1> DEFINE Smaller == OpToRel(<, Nat)
<1>1. IsWellFoundedOn(Smaller, Nat)
  BY NatLessThanWellFounded
<1>2. \A m, n \in Nat : m < n => <<m, n>> \in Smaller
  <2>1. Smaller = {pair \in Nat \X Nat : pair[1] < pair[2]}
    BY Zenon DEF OpToRel
  <2> HIDE DEF Smaller
  <2> QED BY <2>1
<1> HIDE DEF Smaller
<1>3. PICK n \in S : \A m \in S : ~(<<m, n>> \in Smaller)
  BY <1>1, WFMin
<1>4. ASSUME NEW m \in S PROVE n <= m
  <2>1. m \in Nat /\ n \in Nat
    OBVIOUS
  <2>2. ~(m < n)
    BY <1>2, <1>3, <2>1
  <2> QED BY <2>1, <2>2
<1> QED BY <1>4

LEMMA AppendTo ==
    ASSUME NEW S, NEW s \in Seq(S), NEW x \in S
    PROVE  /\ Append(s, x) \in Seq(S)
           /\ Len(Append(s, x)) = Len(s) + 1
           /\ Append(s, x)[Len(s) + 1] = x
           /\ \A i \in 1 .. Len(s) : Append(s, x)[i] = s[i]
OBVIOUS

(* A list stays a list of what is in it.                                   *)
LEMMA AppendRange ==
    ASSUME NEW s, s \in Seq(Range(s)), NEW x
    PROVE  /\ Append(s, x) \in Seq(Range(Append(s, x)))
           /\ Len(Append(s, x)) = Len(s) + 1
           /\ Append(s, x)[Len(s) + 1] = x
           /\ \A i \in 1 .. Len(s) : Append(s, x)[i] = s[i]
<1>1. s \in Seq(Range(s) \union {x})
  OBVIOUS
<1> DEFINE t == Append(s, x)
<1>2. /\ t \in Seq(Range(s) \union {x}) /\ Len(t) = Len(s) + 1 /\ t[Len(s) + 1] = x
      /\ \A i \in 1 .. Len(s) : t[i] = s[i]
  BY <1>1
<1>3. DOMAIN t = 1 .. Len(t)
  BY <1>2
<1> HIDE DEF t
<1>4. t \in Seq(Range(t))
  BY <1>2, <1>3 DEF Range
<1> QED BY <1>2, <1>4 DEF t

----------------------------------------------------------------------------
(* What _build refuses.                                                    *)

LEMMA TenProblems ==
    ASSUME NEW e
    PROVE  /\ Len(Problems(e)) = 10
           /\ \A i \in 1 .. 10 :
                 Problems(e)[i].exception \in {"ConfigError", "OverflowError", "csv.Error"}
<1>1. Len(Problems(e)) = 10
  BY DEF Problems
<1>2. ASSUME NEW bad, NEW exception
      PROVE  Problem(bad, exception).exception = exception
  BY DEF Problem
<1>3. /\ Problems(e)[1].exception = "ConfigError"
      /\ Problems(e)[2].exception = "ConfigError"
      /\ Problems(e)[3].exception = "OverflowError"
      /\ Problems(e)[4].exception = "ConfigError"
      /\ Problems(e)[5].exception = "ConfigError"
      /\ Problems(e)[6].exception = "ConfigError"
      /\ Problems(e)[7].exception = "OverflowError"
      /\ Problems(e)[8].exception = "ConfigError"
      /\ Problems(e)[9].exception = "csv.Error"
      /\ Problems(e)[10].exception = "ConfigError"
  BY <1>2 DEF Problems
<1>4. \A i \in 1 .. 10 : i \in {1, 2, 3, 4, 5, 6, 7, 8, 9, 10}
  OBVIOUS
<1> QED BY <1>1, <1>3, <1>4

(* Build finds the first of the problems, if there is one.                 *)
LEMMA FirstProblem ==
    ASSUME NEW e
    PROVE  LET first == SelectInSeq(Problems(e), LAMBDA p : p.bad)
           IN  /\ first = 0 <=> NoProblem(e)
               /\ first # 0 =>
                   Problems(e)[first].exception \in {"ConfigError", "OverflowError", "csv.Error"}
<1> DEFINE list == Problems(e)
           Bad == {i \in 1 .. Len(list) : list[i].bad}
           first == SelectInSeq(list, LAMBDA p : p.bad)
<1>1. first = IF Bad # {} THEN Min(Bad) ELSE 0
  BY DEF SelectInSeq
<1>2. Bad = {} <=> NoProblem(e)
  BY DEF NoProblem
<1>3. Bad # {} => Min(Bad) \in Bad
  <2>1. Bad \in SUBSET Nat
    BY TenProblems
  <2> HIDE DEF Bad
  <2>2. Bad # {} => \E n \in Bad : \A m \in Bad : n <= m
    BY <2>1, Least
  <2> QED BY <2>2 DEF Min
<1>4. Bad \subseteq 1 .. 10
  BY TenProblems
<1> HIDE DEF Bad, first
<1>5. first = 0 <=> NoProblem(e)
  <2>1. CASE Bad = {}
    BY <1>1, <1>2, <2>1
  <2>2. CASE Bad # {}
    <3>1. first \in 1 .. 10
      BY <1>1, <1>3, <1>4, <2>2
    <3>2. first # 0
      BY <3>1
    <3> QED BY <1>2, <2>2, <3>2
  <2> QED BY <2>1, <2>2
<1>6. first # 0 => first \in 1 .. 10
  BY <1>1, <1>3, <1>4
<1>7. first # 0 => Problems(e)[first].exception \in {"ConfigError", "OverflowError", "csv.Error"}
  BY <1>6, TenProblems
<1> QED BY <1>5, <1>7 DEF first

----------------------------------------------------------------------------
(* The median of the shares is between the worst and the best of them.     *)

Share == (Nat \ {0}) \X (Nat \ {0})

(* Shares are compared by cross-multiplication: products, and what cancels in them.           *)
LEMMA Products ==
    ASSUME NEW x \in Nat \ {0}, NEW y \in Nat \ {0}
    PROVE  x * y \in Nat \ {0}
OBVIOUS

LEMMA Cancel ==
    ASSUME NEW x \in Int, NEW y \in Int, NEW k \in Nat \ {0}
    PROVE  /\ x <= y <=> x * k <= y * k
           /\ x < y <=> x * k < y * k
<1>1. ASSUME NEW m \in Int, NEW n \in Int, m <= n PROVE m * k <= n * k
  <2>1. n - m \in Nat
    BY <1>1
  <2>2. (n - m) * k \in Nat
    BY <2>1
  <2>3. (n - m) * k = n * k - m * k
    OBVIOUS
  <2>4. m * k \in Int /\ n * k \in Int
    OBVIOUS
  <2> QED BY <2>2, <2>3, <2>4
<1>2. ASSUME NEW m \in Int, NEW n \in Int, m < n PROVE m * k < n * k
  <2>1. m + 1 <= n
    BY <1>2
  <2>2. (m + 1) * k <= n * k
    BY <2>1, <1>1
  <2>3. (m + 1) * k = m * k + k
    OBVIOUS
  <2>4. m * k \in Int /\ n * k \in Int
    OBVIOUS
  <2> QED BY <2>2, <2>3, <2>4
<1>3. x * k \in Int /\ y * k \in Int
  OBVIOUS
<1>4. CASE x < y
  BY <1>2, <1>3, <1>4
<1>5. CASE x = y
  BY <1>3, <1>5
<1>6. CASE y < x
  BY <1>2, <1>3, <1>6
<1> QED BY <1>4, <1>5, <1>6

(* The order of the shares is transitive.                                  *)
LEMMA NotLessChain ==
    ASSUME NEW a \in Share, NEW b \in Share, NEW c \in Share,
           ~Less(b, a), ~Less(c, b)
    PROVE  ~Less(c, a)
<1> SUFFICES ASSUME NEW a1 \in Nat \ {0}, NEW a2 \in Nat \ {0}, NEW b1 \in Nat \ {0},
                    NEW b2 \in Nat \ {0}, NEW c1 \in Nat \ {0}, NEW c2 \in Nat \ {0},
                    a1 * b2 <= b1 * a2, b1 * c2 <= c1 * b2
             PROVE  a1 * c2 <= c1 * a2
  BY DEF Less, Share
<1>1. (a1 * b2) * c2 <= (b1 * a2) * c2 /\ (b1 * c2) * a2 <= (c1 * b2) * a2
  BY Cancel, Products
<1>2. /\ (a1 * c2) * b2 = (a1 * b2) * c2
      /\ (b1 * a2) * c2 = (b1 * c2) * a2
      /\ (c1 * a2) * b2 = (c1 * b2) * a2
  OBVIOUS
<1>3. (a1 * c2) * b2 <= (c1 * a2) * b2
  BY <1>1, <1>2
<1> QED BY <1>3, Cancel

LEMMA TimesInt == \A m, n \in Nat \ {0} : m * n \in Int
OBVIOUS

(* The mean of two fractions lies between them: in whole numbers.          *)
LEMMA MeanOf ==
    ASSUME NEW a1 \in Nat \ {0}, NEW a2 \in Nat \ {0},
           NEW b1 \in Nat \ {0}, NEW b2 \in Nat \ {0},
           a1 * b2 <= b1 * a2
    PROVE  /\ a1 * (2 * a2 * b2) <= (a1 * b2 + b1 * a2) * a2
           /\ (a1 * b2 + b1 * a2) * b2 <= b1 * (2 * a2 * b2)
           /\ a1 * b2 + b1 * a2 \in Nat \ {0} /\ 2 * a2 * b2 \in Nat \ {0}
           /\ a1 <= a2 /\ b1 <= b2 => a1 * b2 + b1 * a2 <= 2 * a2 * b2
<1>1. (a1 * b2) * a2 <= (b1 * a2) * a2 /\ (a1 * b2) * b2 <= (b1 * a2) * b2
  BY Cancel, Products
<1>2. /\ a1 * (2 * a2 * b2) = (a1 * b2) * a2 + (a1 * b2) * a2
      /\ (a1 * b2 + b1 * a2) * a2 = (a1 * b2) * a2 + (b1 * a2) * a2
      /\ (a1 * b2 + b1 * a2) * b2 = (a1 * b2) * b2 + (b1 * a2) * b2
      /\ b1 * (2 * a2 * b2) = (b1 * a2) * b2 + (b1 * a2) * b2
  OBVIOUS
<1>3. ASSUME a1 <= a2, b1 <= b2 PROVE a1 * b2 + b1 * a2 <= 2 * a2 * b2
  <2>1. a1 * b2 <= a2 * b2 /\ b1 * a2 <= b2 * a2
    BY <1>3, Cancel
  <2>2. b2 * a2 = a2 * b2 /\ 2 * a2 * b2 = a2 * b2 + a2 * b2
    OBVIOUS
  <2>3. a1 * b2 \in Int /\ b1 * a2 \in Int /\ a2 * b2 \in Int
    OBVIOUS
  <2> QED BY <2>1, <2>2, <2>3
<1>4. a1 * b2 + b1 * a2 \in Nat \ {0} /\ 2 * a2 * b2 \in Nat \ {0}
  BY Products
<1>5. /\ (a1 * b2) * a2 \in Int /\ (b1 * a2) * a2 \in Int
      /\ (a1 * b2) * b2 \in Int /\ (b1 * a2) * b2 \in Int
  OBVIOUS
<1> QED BY <1>1, <1>2, <1>3, <1>4, <1>5

(* The mean of two shares lies between them.                               *)
LEMMA MeanBetween ==
    ASSUME NEW a \in Share, NEW b \in Share, ~Less(b, a)
    PROVE  LET mean == <<a[1] * b[2] + b[1] * a[2], 2 * a[2] * b[2]>>
           IN  /\ ~Less(mean, a) /\ ~Less(b, mean)
               /\ mean \in Share
               /\ a[1] <= a[2] /\ b[1] <= b[2] => mean[1] <= mean[2]
<1> DEFINE one == a[1] * b[2] + b[1] * a[2]
           two == 2 * a[2] * b[2]
           mean == <<one, two>>
<1>1. /\ a[1] \in Nat \ {0} /\ a[2] \in Nat \ {0}
      /\ b[1] \in Nat \ {0} /\ b[2] \in Nat \ {0}
  BY DEF Share
<1>2. a[1] * b[2] \in Int /\ b[1] * a[2] \in Int
  BY <1>1, TimesInt, Zenon
<1>3. a[1] * b[2] <= b[1] * a[2]
  BY <1>2 DEF Less
<1>4. /\ a[1] * two <= one * a[2] /\ one * b[2] <= b[1] * two
      /\ one \in Nat \ {0} /\ two \in Nat \ {0}
      /\ a[1] <= a[2] /\ b[1] <= b[2] => one <= two
  BY <1>1, <1>3, MeanOf
<1> HIDE DEF one, two
<1>5. mean[1] = one /\ mean[2] = two /\ mean \in Share
  BY <1>4 DEF Share
<1>6. a[1] * two \in Int /\ one * a[2] \in Int /\ one * b[2] \in Int /\ b[1] * two \in Int
  BY <1>1, <1>4, TimesInt, Zenon
<1> HIDE DEF mean
<1>7. ~Less(mean, a) /\ ~Less(b, mean)
  BY <1>4, <1>5, <1>6 DEF Less
<1> QED BY <1>4, <1>5, <1>7 DEF mean, one, two

LEMMA LessOrder ==
    ASSUME NEW a \in Share, NEW b \in Share
    PROVE  ~(Less(a, b) /\ Less(b, a)) /\ ~Less(a, a)
<1> SUFFICES ASSUME NEW a1 \in Nat \ {0}, NEW a2 \in Nat \ {0},
                    NEW b1 \in Nat \ {0}, NEW b2 \in Nat \ {0}
             PROVE  /\ ~(a1 * b2 < b1 * a2 /\ b1 * a2 < a1 * b2)
                    /\ ~(a1 * a2 < a1 * a2)
  BY DEF Less, Share
<1>1. a1 * b2 \in Int /\ b1 * a2 \in Int /\ a1 * a2 \in Int
  OBVIOUS
<1> QED BY <1>1

(* Some of a list's indices.                                               *)
LEMMA Indices ==
    ASSUME NEW n \in Nat
    PROVE  /\ IsFiniteSet(1 .. n) /\ Cardinality(1 .. n) = n
           /\ \A S \in SUBSET (1 .. n) :
                 IsFiniteSet(S) /\ Cardinality(S) \in Nat /\ Cardinality(S) <= n
<1>1. IsFiniteSet(1 .. n) /\ Cardinality(1 .. n) = n
  BY FS_Interval
<1>2. ASSUME NEW S \in SUBSET (1 .. n)
      PROVE  IsFiniteSet(S) /\ Cardinality(S) \in Nat /\ Cardinality(S) <= n
  <2>1. IsFiniteSet(S) /\ Cardinality(S) <= n
    BY <1>1, FS_Subset
  <2> QED BY <2>1, FS_CardinalityType
<1> QED BY <1>1, <1>2

(* Where a number is the least.                                            *)
LEMMA LeastAt ==
    ASSUME NEW S, S # {}, NEW f \in [S -> Nat]
    PROVE  \E i \in S : \A j \in S : f[i] <= f[j]
<1> DEFINE image == {f[i] : i \in S}
<1>1. image \in SUBSET Nat /\ image # {}
  OBVIOUS
<1>2. \A j \in S : f[j] \in image
  OBVIOUS
<1>3. \A n \in image : \E i \in S : n = f[i]
  OBVIOUS
<1> HIDE DEF image
<1>4. PICK n \in image : \A m \in image : n <= m
  BY <1>1, Least
<1> QED BY <1>2, <1>3, <1>4

(* Who is above another has more shares up to it.                          *)
LEMMA MoreUpTo ==
    ASSUME NEW shares \in Seq(Share), NEW i \in 1 .. Len(shares), NEW j \in 1 .. Len(shares),
           Less(shares[j], shares[i])
    PROVE  Cardinality(UpTo(shares, j)) < Cardinality(UpTo(shares, i))
<1>1. \A n \in 1 .. Len(shares) : shares[n] \in Share
  OBVIOUS
<1>3. ~Less(shares[i], shares[j])
  BY <1>1, LessOrder
<1>4. UpTo(shares, j) \subseteq UpTo(shares, i)
  <2>1. ASSUME NEW n \in 1 .. Len(shares), ~Less(shares[j], shares[n])
        PROVE  ~Less(shares[i], shares[n])
    BY <1>1, <1>3, <2>1, NotLessChain
  <2> QED BY <2>1 DEF UpTo
<1>5. i \in UpTo(shares, i) /\ i \notin UpTo(shares, j)
  BY <1>1, LessOrder DEF UpTo
<1>6. IsFiniteSet(UpTo(shares, i)) /\ IsFiniteSet(UpTo(shares, j))
  <2>1. UpTo(shares, i) \in SUBSET (1 .. Len(shares)) /\ UpTo(shares, j) \in SUBSET (1 .. Len(shares))
    BY DEF UpTo
  <2>2. Len(shares) \in Nat
    OBVIOUS
  <2> QED BY <2>1, <2>2, Indices
<1>7. /\ Cardinality(UpTo(shares, j)) <= Cardinality(UpTo(shares, i))
      /\ Cardinality(UpTo(shares, j)) # Cardinality(UpTo(shares, i))
  BY <1>4, <1>5, <1>6, FS_Subset
<1> QED BY <1>6, <1>7, FS_CardinalityType

(* Of some of the shares, one is not below another.                        *)
LEMMA Greatest ==
    ASSUME NEW shares \in Seq(Share), NEW S \in SUBSET (1 .. Len(shares)), S # {}
    PROVE  \E i \in S : \A j \in S : ~Less(shares[i], shares[j])
<1> DEFINE Missing(i) == Len(shares) - Cardinality(UpTo(shares, i))
<1>1. \A i \in 1 .. Len(shares) :
          /\ Cardinality(UpTo(shares, i)) \in Nat
          /\ Cardinality(UpTo(shares, i)) <= Len(shares)
  <2>1. \A i \in 1 .. Len(shares) : UpTo(shares, i) \in SUBSET (1 .. Len(shares))
    BY DEF UpTo
  <2>2. Len(shares) \in Nat
    OBVIOUS
  <2> QED BY <2>1, <2>2, Indices
<1>2. [i \in S |-> Missing(i)] \in [S -> Nat]
  BY <1>1
<1>3. PICK i \in S : \A j \in S : Missing(i) <= Missing(j)
  <2> HIDE DEF Missing
  <2>1. \E i \in S : \A j \in S : [n \in S |-> Missing(n)][i] <= [n \in S |-> Missing(n)][j]
    BY <1>2, LeastAt
  <2> QED BY <2>1
<1>4. ASSUME NEW j \in S, Less(shares[i], shares[j]) PROVE FALSE
  <2>1. Cardinality(UpTo(shares, i)) < Cardinality(UpTo(shares, j))
    BY <1>4, MoreUpTo
  <2>2. Missing(i) <= Missing(j)
    BY <1>3
  <2> QED BY <1>1, <2>1, <2>2
<1> QED BY <1>4

(* There is a k-th share.                                                  *)
LEMMA NthExists ==
    ASSUME NEW shares \in Seq(Share), NEW k \in 1 .. Len(shares)
    PROVE  \E i \in 1 .. Len(shares) : Nth(shares, k) = shares[i]
<1> DEFINE Count(i) == Cardinality(UpTo(shares, i))
           Far == {i \in 1 .. Len(shares) : k <= Count(i)}
<1>1. /\ IsFiniteSet(1 .. Len(shares)) /\ Cardinality(1 .. Len(shares)) = Len(shares)
      /\ \A S \in SUBSET (1 .. Len(shares)) : IsFiniteSet(S) /\ Cardinality(S) \in Nat
  <2>1. Len(shares) \in Nat
    OBVIOUS
  <2> QED BY <2>1, Indices
<1>2. \A i \in 1 .. Len(shares) : UpTo(shares, i) \in SUBSET (1 .. Len(shares))
  BY DEF UpTo
<1>3. Far # {}
  <2>1. 1 .. Len(shares) \in SUBSET (1 .. Len(shares)) /\ 1 .. Len(shares) # {}
    OBVIOUS
  <2>2. PICK i \in 1 .. Len(shares) : \A j \in 1 .. Len(shares) : ~Less(shares[i], shares[j])
    BY <2>1, Greatest
  <2>3. UpTo(shares, i) = 1 .. Len(shares)
    BY <2>2 DEF UpTo
  <2> QED BY <1>1, <2>3
<1>4. PICK i \in Far : \A j \in Far : Count(i) <= Count(j)
  <2>1. [j \in Far |-> Count(j)] \in [Far -> Nat]
    BY <1>1, <1>2
  <2> HIDE DEF Far, Count
  <2>2. \E i \in Far : \A j \in Far : [n \in Far |-> Count(n)][i] <= [n \in Far |-> Count(n)][j]
    BY <1>3, <2>1, LeastAt
  <2> QED BY <2>2
<1>5. Cardinality(Below(shares, i)) < k
  <2>1. Below(shares, i) \in SUBSET (1 .. Len(shares))
    BY DEF Below
  <2> SUFFICES ASSUME k <= Cardinality(Below(shares, i)) PROVE FALSE
    BY <1>1, <2>1
  <2>2. Below(shares, i) # {}
    <3>1. Cardinality(Below(shares, i)) # 0
      BY <1>1, <2>1
    <3> QED BY <3>1, FS_EmptySet
  <2>3. PICK j \in Below(shares, i) : \A n \in Below(shares, i) : ~Less(shares[j], shares[n])
    BY <2>1, <2>2, Greatest
  <2>4. Below(shares, i) \subseteq UpTo(shares, j)
    BY <2>1, <2>3 DEF UpTo
  <2>5. j \in 1 .. Len(shares) /\ Less(shares[j], shares[i])
    BY <2>3 DEF Below
  <2>6. Cardinality(Below(shares, i)) <= Count(j)
    BY <1>1, <1>2, <2>4, <2>5, FS_Subset
  <2>7. j \in Far
    BY <1>1, <1>2, <2>1, <2>5, <2>6
  <2>8. Count(j) < Count(i)
    BY <2>5, MoreUpTo
  <2> QED BY <1>1, <1>2, <1>4, <2>5, <2>7, <2>8
<1>6. IsNth(shares, k, i) /\ i \in 1 .. Len(shares)
  BY <1>5 DEF IsNth
<1> QED BY <1>6 DEF Nth

LEMMA MedianWithin ==
    ASSUME NEW rows, NEW shares \in Seq(Share), shares # <<>>,
           Len(shares) = Len(rows),
           \A n \in 1 .. Len(rows) : shares[n] = Kept(rows[n]) /\ Kept(rows[n])[1] <= Kept(rows[n])[2]
    PROVE  WithinShares(Median(shares), rows)
<1> DEFINE all == {Kept(rows[n]) : n \in 1 .. Len(rows)}
           low == Nth(shares, (Len(shares) + 1) \div 2)
           high == Nth(shares, Len(shares) \div 2 + 1)
           mean == <<low[1] * high[2] + high[1] * low[2], 2 * low[2] * high[2]>>
<1>1. /\ (Len(shares) + 1) \div 2 \in 1 .. Len(shares)
      /\ Len(shares) \div 2 + 1 \in 1 .. Len(shares)
  OBVIOUS
<1>2. \A n \in 1 .. Len(shares) : shares[n] \in Share /\ shares[n] \in all /\ shares[n][1] <= shares[n][2]
  OBVIOUS
<1>3. /\ low \in Share /\ low \in all /\ low[1] <= low[2]
      /\ high \in Share /\ high \in all /\ high[1] <= high[2]
  BY <1>1, <1>2, NthExists
<1>4. Median(shares) = mean
  BY DEF Median
<1> HIDE DEF low, high, all
<1>5. mean = <<high[1] * low[2] + low[1] * high[2], 2 * high[2] * low[2]>>
  BY <1>3 DEF Share
<1>6. \A a \in Share : 0 < a[1]
  BY DEF Share
<1>7. CASE ~Less(high, low)
  <2>1. /\ ~Less(mean, low) /\ ~Less(high, mean)
        /\ mean \in Share /\ mean[1] <= mean[2]
    BY <1>3, <1>7, MeanBetween
  <2> QED BY <1>3, <1>4, <1>6, <2>1, Zenon DEF WithinShares, all
<1>8. CASE Less(high, low)
  <2>1. ~Less(low, high)
    BY <1>3, <1>8 DEF Less, Share
  <2>2. /\ ~Less(mean, high) /\ ~Less(low, mean)
        /\ mean \in Share /\ mean[1] <= mean[2]
    BY <1>3, <1>5, <2>1, MeanBetween
  <2> QED BY <1>3, <1>4, <1>6, <2>2, Zenon DEF WithinShares, all
<1> QED BY <1>7, <1>8

----------------------------------------------------------------------------
(* Whatever the start does, what it knows of the input stays true.         *)

LEMMA KeptShare ==
    ASSUME NEW row, IsRow(row), Paired(row)
    PROVE  Kept(row) \in Share /\ Kept(row)[1] <= Kept(row)[2]
<1>1. /\ row.final \in Nat \ {0} /\ row.amount \in Nat \ {0}
      /\ row.amount - row.fee \in Nat \ {0} /\ row.listed \in Nat \ {0}
  BY DEF IsRow, Paired
<1>2. /\ row.final * row.amount \in Nat \ {0}
      /\ (row.amount - row.fee) * row.listed \in Nat \ {0}
  BY <1>1, Products
<1>3. Kept(row) \in Share
  BY <1>2 DEF Kept, Share
<1> QED BY <1>3 DEF Paired

LEMMA ListLength ==
    ASSUME NEW S, NEW s \in Seq(S)
    PROVE  Len(s) \in Nat
OBVIOUS

LEMMA EmptyList ==
    /\ Len(<<>>) = 0
    /\ \A S : <<>> \in Seq(S)
OBVIOUS

LEMMA FileLength == \A f \in Files : Len(f.series) \in Nat
<1>1. \A f \in Files : f.series \in Seq(Range(f.series))
  BY FilesAssumption
<1> QED BY <1>1, ListLength

(* The entry that is built is one of the file.                             *)
LEMMA EntryOfFile ==
    ASSUME IInv, Len(series) < Len(file.series)
    PROVE  /\ Len(series) \in Nat /\ Len(series) + 1 \in 1 .. Len(file.series)
           /\ Entry = file.series[Len(series) + 1]
           /\ IsEntry(Entry)
<1>1. Len(series) \in Nat /\ Len(file.series) \in Nat
  <2>1. file \in Files /\ series \in Seq(Range(series))
    BY DEF IInv
  <2> QED BY <2>1, FileLength, ListLength
<1>2. Len(series) + 1 \in 1 .. Len(file.series)
  BY <1>1
<1> QED BY <1>1, <1>2, FilesAssumption DEF IInv, Entry

LEMMA SameInput ==
    ASSUME UNCHANGED <<file, settings>>
    PROVE  Acceptable' <=> Acceptable
BY DEF Acceptable

(* A start that passed has tested all that is to be tested.                *)
LEMMA Passed ==
    ASSUME IInv, pc \in {"configured", "checked", "running"}
    PROVE  Acceptable
<1>1. AllBuilt /\ PastReading /\ pc # "choosing" /\ settings.url # "other"
  BY DEF AllBuilt, PastReading, IInv, Progress
<1>2. Len(series) = Len(file.series) /\ Distinct /\ AllTaken
  BY <1>1 DEF IInv, Progress
<1>3. \A i \in 1 .. Len(file.series) : /\ Buildable(file.series[i])
                                      /\ series[i].id = file.series[i].id
  BY <1>2 DEF IInv, Progress, IsBuiltFrom
<1>4. {file.series[i].id : i \in 1 .. Len(file.series)} = {series[i].id : i \in 1 .. Len(series)}
  BY <1>2, <1>3
<1>5. Cardinality({file.series[i].id : i \in 1 .. Len(file.series)}) = Len(file.series)
  BY <1>2, <1>4 DEF Distinct
<1>6. \A i \in 1 .. Len(file.series) : file.series[i].id \in Rates
  BY <1>2, <1>3 DEF AllTaken
<1>7. file.text = "yaml" /\ \A i \in 1 .. Len(file.series) : WellTyped(file.series[i])
  BY <1>1 DEF IInv, Progress
<1> QED BY <1>1, <1>3, <1>5, <1>6, <1>7 DEF Acceptable

LEMMA InitIInv == Init => IInv
<1> SUFFICES ASSUME Init PROVE IInv
  OBVIOUS
<1>1. /\ file \in Files /\ mode = "check" /\ checked = "not yet" /\ pc = "settings"
      /\ series = <<>> /\ samples = <<>> /\ error = "none" /\ client = "none"
      /\ destination = None /\ tasks = {}
  BY DEF Init
<1>2. Len(file.series) \in Nat /\ Len(series) = 0 /\ Len(samples) = 0
  BY <1>1, FileLength
<1>3. /\ 1 .. Len(series) = {} /\ 1 .. Len(samples) = {} /\ Len(series) <= Len(file.series)
  BY <1>2
<1>4. TypeOK
  BY <1>1, <1>3, Zenon DEF TypeOK, Ended
<1>5. series \in Seq(Range(series)) /\ samples \in Seq((Nat \ {0}) \X (Nat \ {0}))
  BY <1>1, EmptyList, Zenon
<1>6. Progress
  <2>1. ~PastReading /\ ~AllBuilt
    BY <1>1 DEF PastReading, AllBuilt
  <2> QED BY <1>1, <1>3, <2>1, Zenon DEF Progress
<1> QED BY <1>1, <1>4, <1>5, <1>6 DEF IInv

(* A start fails for what is unacceptable.                                 *)
LEMMA FailKeeps ==
    ASSUME IInv, NEW exception, Fail(exception), ~Acceptable, pc \notin {"checked", "running"},
           exception \in {"ConfigError", "OverflowError", "csv.Error", "ValidationError", "ValueError"}
    PROVE  IInv'
<1>1. /\ pc' = "failed" /\ error' = exception /\ client' \in {"none", "closed"}
      /\ UNCHANGED <<input, series, samples, destination, tasks>>
  BY DEF Fail, LeaveClient, IInv, TypeOK
<1>2. ~Acceptable'
  BY <1>1, SameInput DEF input
<1>3. TypeOK'
  BY <1>1 DEF IInv, TypeOK, Ended, input
<1>4. Progress'
  BY <1>1, <1>2 DEF IInv, Progress, PastReading, AllBuilt, input
<1>5. checked = "checked" => ~Acceptable
  OBVIOUS
<1> QED BY <1>1, <1>2, <1>3, <1>4 DEF IInv, input

LEMMA OpenClientKeeps == IInv /\ OpenClient => IInv'
<1> SUFFICES ASSUME IInv, OpenClient PROVE IInv'
  OBVIOUS
<1>1. CASE settings.url = "other"
  <2>1. Fail("ValidationError") /\ pc = "settings"
    BY <1>1 DEF OpenClient
  <2>2. ~Acceptable
    BY <1>1 DEF Acceptable
  <2> QED BY <2>1, <2>2, FailKeeps
<1>2. CASE settings.url # "other"
  <2>1. /\ pc = "settings" /\ pc' = "reading" /\ client' = "open"
        /\ UNCHANGED <<input, series, samples, error, destination, tasks>>
    BY <1>2 DEF OpenClient, Fail
  <2>2. Acceptable' <=> Acceptable
    BY <2>1, SameInput DEF input
  <2>3. TypeOK'
    BY <2>1 DEF IInv, TypeOK, Ended, input
  <2>4. Progress'
    BY <1>2, <2>1 DEF IInv, Progress, PastReading, AllBuilt, input
  <2> QED BY <2>1, <2>2, <2>3, <2>4 DEF IInv, input
<1> QED BY <1>1, <1>2

LEMMA ReadFileKeeps == IInv /\ ReadFile => IInv'
<1> SUFFICES ASSUME IInv, ReadFile PROVE IInv'
  OBVIOUS
<1>1. CASE file.text = "yaml" /\ \A i \in 1 .. Len(file.series) : WellTyped(file.series[i])
  <2>1. /\ pc = "reading" /\ pc' = "building"
        /\ UNCHANGED <<input, series, samples, error, client, destination, tasks>>
    BY <1>1 DEF ReadFile
  <2>2. Acceptable' <=> Acceptable
    BY <2>1, SameInput DEF input
  <2>3. TypeOK'
    BY <2>1 DEF IInv, TypeOK, Ended, input
  <2>4. Progress'
    BY <1>1, <2>1 DEF IInv, Progress, PastReading, AllBuilt, input
  <2> QED BY <2>1, <2>2, <2>3, <2>4 DEF IInv, input
<1>2. CASE ~(file.text = "yaml" /\ \A i \in 1 .. Len(file.series) : WellTyped(file.series[i]))
  <2>1. Fail("ConfigError") /\ pc = "reading"
    BY <1>2 DEF ReadFile
  <2>2. ~Acceptable
    BY <1>2 DEF Acceptable
  <2> QED BY <2>1, <2>2, FailKeeps
<1> QED BY <1>1, <1>2

(* The next series is built from the entry it is for, or refused for what the entry holds.    *)
LEMMA ConstructKeeps ==
    ASSUME IInv, NEW gap, Construct(gap), pc \in {"building", "observing"},
           Len(series) < Len(file.series), NoProblem(Entry),
           Entry.samples # None =>
               \A n \in 1 .. Len(Entry.samples.rows) : Readable(Entry.samples.rows[n]),
           gap # None => WithinShares(gap, Entry.samples.rows)
    PROVE  IInv'
<1>1. /\ Len(series) \in Nat /\ Len(series) + 1 \in 1 .. Len(file.series)
      /\ Entry = file.series[Len(series) + 1]
  BY EntryOfFile
<1>2. CASE Unfit(Entry)
  <2>1. Fail("ConfigError")
    BY <1>2 DEF Construct
  <2>2. ~Acceptable
    BY <1>1, <1>2 DEF Acceptable, Buildable
  <2> QED BY <2>1, <2>2, FailKeeps
<1>3. CASE ~Unfit(Entry)
  <2> DEFINE built == [id |-> Entry.id, sources |-> Entry.sources,
                       every |-> Entry.every, maxAge |-> Entry.maxAge,
                       hours |-> Entry.hours, plausible |-> Entry.plausible,
                       gap |-> gap]
  <2>1. /\ series' = Append(series, built) /\ pc' = "building"
        /\ UNCHANGED <<input, samples, error, client, destination, tasks>>
    BY <1>3 DEF Construct
  <2>2. Buildable(Entry) /\ IsBuiltFrom(built, Entry)
    BY <1>3 DEF Buildable, IsBuiltFrom
  <2> HIDE DEF built
  <2>3. /\ series' \in Seq(Range(series')) /\ Len(series') = Len(series) + 1
        /\ series'[Len(series) + 1] = built
        /\ \A i \in 1 .. Len(series) : series'[i] = series[i]
    <3>1. series \in Seq(Range(series))
      BY DEF IInv
    <3> DEFINE longer == Append(series, built)
    <3>2. /\ longer \in Seq(Range(longer)) /\ Len(longer) = Len(series) + 1
          /\ longer[Len(series) + 1] = built
          /\ \A i \in 1 .. Len(series) : longer[i] = series[i]
      BY <3>1, AppendRange
    <3>3. series' = longer
      BY <2>1
    <3> HIDE DEF longer
    <3> QED BY <3>2, <3>3
  <2>4. \A i \in 1 .. Len(series') : /\ Buildable(file.series[i])
                                    /\ IsBuiltFrom(series'[i], file.series[i])
    <3>1. \A i \in 1 .. Len(series') : i \in 1 .. Len(series) \/ i = Len(series) + 1
      BY <1>1, <2>3
    <3>2. \A i \in 1 .. Len(series) : /\ Buildable(file.series[i])
                                     /\ IsBuiltFrom(series[i], file.series[i])
      BY DEF IInv, Progress
    <3> QED BY <1>1, <2>2, <2>3, <3>1, <3>2
  <2>5. TypeOK'
    <3>1. Len(series') <= Len(file'.series)
      <4>1. file' = file /\ Len(file.series) \in Nat
        BY <2>1, FileLength DEF input, IInv
      <4> QED BY <1>1, <2>3, <4>1
    <3> QED BY <2>1, <3>1 DEF IInv, TypeOK, Ended, input
  <2>6. Acceptable' <=> Acceptable
    BY <2>1, SameInput DEF input
  <2>7. Progress'
    BY <2>1, <2>4 DEF IInv, Progress, PastReading, AllBuilt, input
  <2> QED BY <2>1, <2>3, <2>5, <2>6, <2>7 DEF IInv, input
<1> QED BY <1>2, <1>3

LEMMA BuildKeeps == IInv /\ Build => IInv'
<1> SUFFICES ASSUME IInv, Build PROVE IInv'
  OBVIOUS
<1> DEFINE problems == Problems(Entry)
           first == SelectInSeq(problems, LAMBDA p : p.bad)
<1>1. /\ pc = "building" /\ Len(series) < Len(file.series)
      /\ \/ first # 0 /\ Fail(problems[first].exception)
         \/ first = 0 /\ Entry.samples = None /\ Construct(None)
         \/ /\ first = 0 /\ Entry.samples # None
            /\ pc' = "observing" /\ samples' = <<>>
            /\ UNCHANGED <<input, series, error, client, destination, tasks>>
  BY DEF Build
<1>2. /\ first = 0 <=> NoProblem(Entry)
      /\ first # 0 => problems[first].exception \in {"ConfigError", "OverflowError", "csv.Error"}
  BY FirstProblem
<1>3. /\ Len(series) \in Nat /\ Len(series) + 1 \in 1 .. Len(file.series)
      /\ Entry = file.series[Len(series) + 1] /\ IsEntry(Entry)
  BY <1>1, EntryOfFile
<1> HIDE DEF first, problems
<1>4. CASE first # 0 /\ Fail(problems[first].exception)
  <2>1. ~Acceptable
    BY <1>2, <1>3, <1>4 DEF Acceptable, Buildable
  <2> QED BY <1>1, <1>2, <1>4, <2>1, FailKeeps
<1>5. CASE first = 0 /\ Entry.samples = None /\ Construct(None)
  BY <1>1, <1>2, <1>5, ConstructKeeps
<1>6. CASE /\ first = 0 /\ Entry.samples # None
           /\ pc' = "observing" /\ samples' = <<>>
           /\ UNCHANGED <<input, series, error, client, destination, tasks>>
  <2>1. file' = file /\ series' = series /\ Entry' = Entry
    BY <1>6 DEF input, Entry
  <2>2. Len(Entry.samples.rows) \in Nat
    BY <1>3, <1>6, ListLength DEF IsEntry
  <2>3. Len(samples') = 0 /\ 1 .. Len(samples') = {} /\ Len(samples') <= Len(Entry.samples.rows)
    BY <1>6, <2>2, EmptyList
  <2>4. TypeOK'
    BY <1>6, <2>3 DEF IInv, TypeOK, Ended, input
  <2>5. Acceptable' <=> Acceptable
    BY <1>6, SameInput DEF input
  <2>6. samples' \in Seq((Nat \ {0}) \X (Nat \ {0}))
    BY <1>6, EmptyList
  <2>7. Progress'
    BY <1>1, <1>2, <1>6, <2>1, <2>3 DEF IInv, Progress, PastReading, AllBuilt, input
  <2> QED BY <1>1, <1>6, <2>4, <2>5, <2>6, <2>7 DEF IInv, input
<1> QED BY <1>1, <1>4, <1>5, <1>6

LEMMA ReadRowKeeps == IInv /\ ReadRow => IInv'
<1> SUFFICES ASSUME IInv, ReadRow PROVE IInv'
  OBVIOUS
<1> DEFINE row == Entry.samples.rows[Len(samples) + 1]
<1>1. /\ pc = "observing" /\ Len(samples) < Len(Entry.samples.rows)
      /\ Len(series) < Len(file.series) /\ NoProblem(Entry) /\ Entry.samples # None
  BY DEF ReadRow, IInv, Progress
<1>2. /\ Len(series) \in Nat /\ Len(series) + 1 \in 1 .. Len(file.series)
      /\ Entry = file.series[Len(series) + 1] /\ IsEntry(Entry)
  BY <1>1, EntryOfFile
<1>3. /\ Len(samples) \in Nat /\ Len(Entry.samples.rows) \in Nat
      /\ Len(samples) + 1 \in 1 .. Len(Entry.samples.rows)
  <2>1. Len(samples) \in Nat /\ Len(Entry.samples.rows) \in Nat
    BY <1>1, <1>2, ListLength DEF IInv, IsEntry
  <2> QED BY <1>1, <2>1
<1>4. IsRow(row)
  BY <1>1, <1>2, <1>3 DEF IsEntry
<1>5. CASE ~Readable(row)
  <2>1. Fail("csv.Error") \/ Fail("ConfigError")
    BY <1>5 DEF ReadRow, Readable
  <2>2. ~Acceptable
    BY <1>1, <1>2, <1>3, <1>5 DEF Acceptable, Buildable
  <2> QED BY <1>1, <2>1, <2>2, FailKeeps
<1>6. CASE Readable(row)
  <2>1. /\ samples' = Append(samples, Kept(row))
        /\ UNCHANGED <<input, pc, series, error, client, destination, tasks>>
    BY <1>6 DEF ReadRow, Readable
  <2>2. Kept(row) \in (Nat \ {0}) \X (Nat \ {0})
    BY <1>4, <1>6, KeptShare DEF Readable, Share
  <2>3. file' = file /\ series' = series /\ Entry' = Entry
    BY <2>1 DEF input, Entry
  <2>4. /\ samples' \in Seq((Nat \ {0}) \X (Nat \ {0})) /\ Len(samples') = Len(samples) + 1
        /\ samples'[Len(samples) + 1] = Kept(row)
        /\ \A n \in 1 .. Len(samples) : samples'[n] = samples[n]
    <3>1. samples \in Seq((Nat \ {0}) \X (Nat \ {0}))
      BY DEF IInv
    <3> DEFINE longer == Append(samples, Kept(row))
    <3>2. /\ longer \in Seq((Nat \ {0}) \X (Nat \ {0})) /\ Len(longer) = Len(samples) + 1
          /\ longer[Len(samples) + 1] = Kept(row)
          /\ \A n \in 1 .. Len(samples) : longer[n] = samples[n]
      <4> HIDE DEF row
      <4> QED BY <2>2, <3>1, AppendTo
    <3>3. samples' = longer
      BY <2>1
    <3> HIDE DEF longer, row
    <3> QED BY <3>2, <3>3
  <2>5. \A n \in 1 .. Len(samples') : /\ Readable(Entry.samples.rows[n])
                                     /\ samples'[n] = Kept(Entry.samples.rows[n])
    <3>1. \A n \in 1 .. Len(samples') : n \in 1 .. Len(samples) \/ n = Len(samples) + 1
      BY <1>3, <2>4
    <3>2. \A n \in 1 .. Len(samples) : /\ Readable(Entry.samples.rows[n])
                                      /\ samples[n] = Kept(Entry.samples.rows[n])
      BY <1>1 DEF IInv, Progress
    <3> QED BY <1>6, <2>4, <3>1, <3>2
  <2>6. TypeOK'
    <3>1. \A n \in 1 .. Len(samples') : samples'[n] \in (Nat \ {0}) \X (Nat \ {0})
      BY <2>4
    <3> QED BY <2>1, <3>1 DEF IInv, TypeOK, Ended, input
  <2>7. Acceptable' <=> Acceptable
    BY <2>1, SameInput DEF input
  <2>8. Len(samples') <= Len(Entry.samples.rows)
    BY <1>3, <2>4
  <2>9. Progress'
    BY <1>1, <2>1, <2>3, <2>5, <2>8 DEF IInv, Progress, PastReading, AllBuilt, input
  <2> QED BY <1>1, <2>1, <2>4, <2>6, <2>7, <2>9 DEF IInv, input
<1> QED BY <1>5, <1>6

LEMMA SummarizeKeeps == IInv /\ Summarize => IInv'
<1> SUFFICES ASSUME IInv, Summarize PROVE IInv'
  OBVIOUS
<1> DEFINE rows == Entry.samples.rows
           gap == IF samples = <<>> THEN None ELSE Median(samples)
<1>1. /\ pc = "observing" /\ Len(samples) = Len(rows) /\ Construct(gap)
      /\ Len(series) < Len(file.series) /\ NoProblem(Entry) /\ Entry.samples # None
      /\ \A n \in 1 .. Len(rows) : Readable(rows[n]) /\ samples[n] = Kept(rows[n])
  BY DEF Summarize, IInv, Progress
<1>2. IsEntry(Entry)
  BY <1>1, EntryOfFile
<1>3. \A n \in 1 .. Len(rows) : IsRow(rows[n])
  BY <1>1, <1>2 DEF IsEntry
<1>4. samples \in Seq(Share)
  BY DEF IInv, Share
<1>5. \A n \in 1 .. Len(rows) : samples[n] = Kept(rows[n]) /\ Kept(rows[n])[1] <= Kept(rows[n])[2]
  BY <1>1, <1>3, KeptShare DEF Readable
<1>6. gap # None => WithinShares(gap, rows)
  <2> HIDE DEF rows
  <2>1. samples # <<>> => WithinShares(Median(samples), rows)
    BY <1>1, <1>4, <1>5, MedianWithin
  <2> QED BY <2>1
<1> HIDE DEF gap
<1> QED BY <1>1, <1>6, ConstructKeeps

LEMMA CheckIdsKeeps == IInv /\ CheckIds => IInv'
<1> SUFFICES ASSUME IInv, CheckIds PROVE IInv'
  OBVIOUS
<1>1. pc = "building" /\ Len(series) = Len(file.series)
  BY DEF CheckIds
<1>2. CASE Distinct
  <2>1. /\ pc' = "choosing"
        /\ UNCHANGED <<input, series, samples, error, client, destination, tasks>>
    BY <1>2 DEF CheckIds
  <2>2. Acceptable' <=> Acceptable
    BY <2>1, SameInput DEF input
  <2>3. TypeOK'
    BY <2>1 DEF IInv, TypeOK, Ended, input
  <2>4. Progress'
    BY <1>1, <1>2, <2>1 DEF IInv, Progress, PastReading, AllBuilt, input, Distinct
  <2> QED BY <1>1, <2>1, <2>2, <2>3, <2>4 DEF IInv, input
<1>3. CASE ~Distinct
  <2>1. Fail("ConfigError")
    BY <1>3 DEF CheckIds
  <2>2. \A i \in 1 .. Len(file.series) : series[i].id = file.series[i].id
    BY <1>1 DEF IInv, Progress, IsBuiltFrom
  <2>3. {file.series[i].id : i \in 1 .. Len(file.series)} = {series[i].id : i \in 1 .. Len(series)}
    BY <1>1, <2>2
  <2>4. ~Acceptable
    BY <1>1, <1>3, <2>3 DEF Acceptable, Distinct
  <2> QED BY <1>1, <2>1, <2>4, FailKeeps
<1> QED BY <1>2, <1>3

LEMMA PickDestinationKeeps == IInv /\ PickDestination => IInv'
<1> SUFFICES ASSUME IInv, PickDestination PROVE IInv'
  OBVIOUS
<1>1. pc = "choosing" /\ Len(series) = Len(file.series)
  BY DEF PickDestination, IInv, Progress, AllBuilt
<1>2. CASE AllTaken
  <2>1. /\ pc' = "configured" /\ destination' \in {"post", "log"}
        /\ UNCHANGED <<input, series, samples, error, client, tasks>>
    BY <1>2 DEF PickDestination
  <2>2. Acceptable' <=> Acceptable
    BY <2>1, SameInput DEF input
  <2>3. TypeOK'
    BY <2>1 DEF IInv, TypeOK, Ended, input
  <2>4. Progress'
    BY <1>1, <1>2, <2>1 DEF IInv, Progress, PastReading, AllBuilt, input, Distinct, AllTaken
  <2> QED BY <1>1, <2>1, <2>2, <2>3, <2>4 DEF IInv, input
<1>3. CASE ~AllTaken
  <2>1. Fail("ValueError")
    BY <1>3 DEF PickDestination
  <2>2. \A i \in 1 .. Len(file.series) : series[i].id = file.series[i].id
    BY <1>1 DEF IInv, Progress, IsBuiltFrom
  <2>3. ~Acceptable
    BY <1>1, <1>3, <2>2 DEF Acceptable, AllTaken
  <2> QED BY <1>1, <2>1, <2>3, FailKeeps
<1> QED BY <1>2, <1>3

LEMMA EndCheckKeeps == IInv /\ EndCheck => IInv'
<1> SUFFICES ASSUME IInv, EndCheck PROVE IInv'
  OBVIOUS
<1>1. /\ pc = "configured" /\ mode = "check" /\ pc' = "checked" /\ client' = "closed"
      /\ UNCHANGED <<input, series, samples, error, destination, tasks>>
  BY DEF EndCheck
<1>2. Acceptable' <=> Acceptable
  BY <1>1, SameInput DEF input
<1>3. TypeOK'
  BY <1>1 DEF IInv, TypeOK, Ended, input
<1>4. Progress'
  BY <1>1 DEF IInv, Progress, PastReading, AllBuilt, input, Distinct, AllTaken
<1> QED BY <1>1, <1>2, <1>3, <1>4 DEF IInv, input

LEMMA CreateTasksKeeps == IInv /\ CreateTasks => IInv'
<1> SUFFICES ASSUME IInv, CreateTasks PROVE IInv'
  OBVIOUS
<1>1. /\ pc = "configured" /\ mode = "run" /\ pc' = "running"
      /\ tasks' = {"heartbeat"} \union {series[i].id : i \in 1 .. Len(series)}
      /\ UNCHANGED <<input, series, samples, error, client, destination>>
  BY DEF CreateTasks
<1>2. Acceptable' <=> Acceptable
  BY <1>1, SameInput DEF input
<1>3. TypeOK'
  BY <1>1 DEF IInv, TypeOK, Ended, input
<1>4. Progress'
  BY <1>1 DEF IInv, Progress, PastReading, AllBuilt, input, Distinct, AllTaken
<1> QED BY <1>1, <1>2, <1>3, <1>4 DEF IInv, input

LEMMA StartRunnerKeeps == IInv /\ StartRunner => IInv'
<1> SUFFICES ASSUME IInv, StartRunner PROVE IInv'
  OBVIOUS
<1>1. /\ mode = "check" /\ pc \in {"checked", "failed"}
      /\ checked' = pc /\ mode' = "run" /\ pc' = "settings" /\ series' = <<>> /\ samples' = <<>>
      /\ error' = "none" /\ client' = "none" /\ destination' = None
      /\ UNCHANGED <<file, settings, tasks>>
  BY DEF StartRunner
<1>2. Acceptable' <=> Acceptable
  BY <1>1, SameInput
<1>3. /\ pc = "checked" => Acceptable
      /\ pc = "failed" => ~Acceptable
  BY Passed DEF IInv, Progress
<1>4. /\ 1 .. Len(series') = {} /\ 1 .. Len(samples') = {} /\ Len(series') <= Len(file'.series)
      /\ series' \in Seq(Range(series')) /\ samples' \in Seq((Nat \ {0}) \X (Nat \ {0}))
  <2>1. Len(file.series) \in Nat /\ Len(series') = 0 /\ Len(samples') = 0
    BY <1>1, EmptyList, FileLength DEF IInv
  <2>2. series' \in Seq(Range(series')) /\ samples' \in Seq((Nat \ {0}) \X (Nat \ {0}))
    BY <1>1, EmptyList, Zenon
  <2> QED BY <1>1, <2>1, <2>2
<1>5. TypeOK'
  BY <1>1, <1>4 DEF TypeOK, Ended
<1>6. Progress'
  <2>1. ~PastReading' /\ ~AllBuilt'
    BY <1>1 DEF PastReading, AllBuilt
  <2> QED BY <1>1, <1>4, <2>1 DEF Progress
<1> QED BY <1>1, <1>2, <1>3, <1>4, <1>5, <1>6 DEF IInv

LEMMA StutterKeeps == IInv /\ UNCHANGED vars => IInv'
<1> SUFFICES ASSUME IInv, UNCHANGED vars PROVE IInv'
  OBVIOUS
<1>1. Acceptable' <=> Acceptable
  BY SameInput DEF vars
<1>2. TypeOK'
  BY DEF IInv, TypeOK, vars
<1>3. Progress'
  BY <1>1 DEF IInv, Progress, PastReading, AllBuilt, vars, Distinct, AllTaken, Entry
<1> QED BY <1>1, <1>2, <1>3 DEF IInv, vars

LEMMA NextKeeps == IInv /\ [Next]_vars => IInv'
BY OpenClientKeeps, ReadFileKeeps, BuildKeeps, ReadRowKeeps, SummarizeKeeps, CheckIdsKeeps,
   PickDestinationKeeps, EndCheckKeeps, CreateTasksKeeps, StartRunnerKeeps, StutterKeeps
   DEF Next

(* What is known of the input and of the start (load_series, configure, check and run) stays   *)
(* true for every series file, every list of observed pairs and all settings.                  *)
THEOREM Invariance == Spec => []IInv
<1>1. Init => IInv
  BY InitIInv
<1>2. IInv /\ [Next]_vars => IInv'
  BY NextKeeps
<1> QED BY <1>1, <1>2, PTL DEF Spec

(* The start's state is of its type; the share a pair keeps (gap.py) is a positive fraction    *)
(* whatever the amounts and the fee.                                                           *)
THEOREM Typing == Spec => []TypeOK
<1>1. IInv => TypeOK
  BY DEF IInv
<1> QED BY <1>1, Invariance, PTL

(* The runner starts if and only if `--check` passed the same files and settings, and a start  *)
(* that fails leaves no task and no open client (runner/__main__.py).                          *)
THEOREM CheckForetells == Spec => []CheckForetellsStart
<1>1. IInv => CheckForetellsStart
  <2> SUFFICES ASSUME IInv, mode = "run", pc \in Ended
               PROVE  IF checked = "checked" THEN pc = "running"
                      ELSE pc = "failed" /\ tasks = {} /\ client # "open"
    BY DEF CheckForetellsStart
  <2>1. checked \in {"checked", "failed"} /\ pc \in {"running", "failed"}
    BY DEF IInv, TypeOK, Ended
  <2>2. CASE checked = "checked"
    <3>1. Acceptable
      BY <2>2 DEF IInv
    <3>2. pc # "failed"
      BY <3>1 DEF IInv, Progress
    <3> QED BY <2>1, <2>2, <3>2
  <2>3. CASE checked = "failed"
    <3>1. ~Acceptable
      BY <2>3 DEF IInv
    <3>2. pc # "running"
      BY <3>1, Passed
    <3> QED BY <2>1, <2>3, <3>2 DEF IInv
  <2> QED BY <2>1, <2>2, <2>3
<1> QED BY <1>1, Invariance, PTL

----------------------------------------------------------------------------
(* What a start that did not fail has made sure of.                        *)

LEMMA NoProblemMeans ==
    ASSUME NEW e, NoProblem(e)
    PROVE  /\ \A i \in 1 .. Len(e.sources) : e.sources[i] \in Known
           /\ e.hours # None => CanOpen(e.hours)
           /\ CanHold(e.plausible)
<1>1. \A i \in 1 .. 10 : ~Problems(e)[i].bad
  BY TenProblems DEF NoProblem
<1>2. ASSUME NEW i \in 1 .. 10, NEW bad \in BOOLEAN, NEW exception,
             Problems(e)[i] = Problem(bad, exception)
      PROVE  ~bad
  <2>1. Problem(bad, exception).bad = bad
    BY DEF Problem
  <2> QED BY <1>1, <1>2, <2>1
<1>3. ~(\E i \in 1 .. Len(e.sources) : e.sources[i] \notin Known)
  <2> DEFINE bad == \E i \in 1 .. Len(e.sources) : e.sources[i] \notin Known
  <2>1. Problems(e)[1] = Problem(bad, "ConfigError") /\ bad \in BOOLEAN
    BY DEF Problems
  <2> HIDE DEF bad
  <2>2. ~bad
    BY <1>2, <2>1
  <2> QED BY <2>2 DEF bad
<1>4. ~(e.hours # None /\ ~CanOpen(e.hours))
  <2> DEFINE bad == e.hours # None /\ ~CanOpen(e.hours)
  <2>1. Problems(e)[5] = Problem(bad, "ConfigError") /\ bad \in BOOLEAN
    BY DEF Problems
  <2> HIDE DEF bad
  <2>2. ~bad
    BY <1>2, <2>1
  <2> QED BY <2>2 DEF bad
<1>5. CanHold(e.plausible)
  <2> DEFINE bad == ~CanHold(e.plausible)
  <2>1. Problems(e)[6] = Problem(bad, "ConfigError") /\ bad \in BOOLEAN
    BY DEF Problems
  <2> HIDE DEF bad
  <2>2. ~bad
    BY <1>2, <2>1
  <2> QED BY <2>2 DEF bad
<1> QED BY <1>3, <1>4, <1>5

(* The tasks are as many as the series and the heartbeat.                  *)
LEMMA TaskCount ==
    ASSUME IInv, pc = "running"
    PROVE  Cardinality(tasks) = Len(series) + 1
<1> DEFINE ids == {series[i].id : i \in 1 .. Len(series)}
           idOf == [i \in 1 .. Len(series) |-> series[i].id]
<1>1. /\ Len(series) \in Nat /\ Cardinality(ids) = Len(series) /\ tasks = {"heartbeat"} \union ids
      /\ \A i \in 1 .. Len(series) : series[i].id \in Rates
  <2>1. AllBuilt /\ pc # "choosing"
    BY DEF AllBuilt
  <2>2. Distinct /\ AllTaken /\ series \in Seq(Range(series))
    BY <2>1 DEF IInv, Progress
  <2>3. tasks = {"heartbeat"} \union ids
    BY DEF IInv
  <2> QED BY <2>2, <2>3, ListLength DEF Distinct, AllTaken
<1>2. "heartbeat" \notin ids
  BY <1>1, RatesAssumption
<1>3. IsFiniteSet(ids)
  <2>1. idOf \in Surjection(1 .. Len(series), ids)
    BY DEF Surjection
  <2>2. IsFiniteSet(1 .. Len(series))
    BY <1>1, Indices
  <2> HIDE DEF ids, idOf
  <2> QED BY <2>1, <2>2, FS_Surjection
<1> HIDE DEF ids
<1>4. Cardinality(ids \cup {"heartbeat"}) = Cardinality(ids) + 1
  BY <1>2, <1>3, FS_AddElement
<1>5. ids \cup {"heartbeat"} = tasks
  BY <1>1
<1> QED BY <1>1, <1>4, <1>5

(* Every task that the runner creates (runner/__main__.py) can do its work: the sources are    *)
(* there, the hours have an open moment, the range a price, the price that a source updates    *)
(* once per interval is not stale, the gap is between the best and the worst observed pair,    *)
(* the destination takes the series, and no other task sends it.                               *)
THEOREM Started == Spec => []StartedCanRun
<1>1. IInv => StartedCanRun
  <2> SUFFICES ASSUME IInv, pc = "running" PROVE StartedCanRun
    BY DEF StartedCanRun
  <2>1. AllBuilt /\ PastReading /\ pc # "choosing"
    BY DEF AllBuilt, PastReading
  <2>2. Len(series) = Len(file.series) /\ AllTaken
    BY <2>1 DEF IInv, Progress
  <2>3. client = "open" /\ Cardinality(tasks) = Len(series) + 1
    BY TaskCount DEF IInv
  <2>4. ASSUME NEW i \in 1 .. Len(series)
        PROVE  LET s == series[i]
               IN  /\ s.every \in 1 .. s.maxAge
                   /\ s.sources # <<>> /\ ToSet(s.sources) \subseteq Known
                   /\ \A m, n \in 1 .. Len(s.sources) : s.sources[m] = s.sources[n] => m = n
                   /\ \E price \in 1 .. s.plausible.max : price >= s.plausible.min
                   /\ s.hours # None =>
                          /\ s.hours.weekdays \intersect 0 .. 6 # {}
                          /\ \E t \in s.hours.opens .. s.hours.closes : t # s.hours.opens
                   /\ s.id \in Rates
                   /\ s.gap # None => WithinShares(s.gap, file.series[i].samples.rows)
    <3> DEFINE s == series[i]
               e == file.series[i]
    <3>1. IsEntry(e) /\ WellTyped(e)
      BY <2>1, <2>2, FilesAssumption DEF IInv, Progress
    <3>2. Buildable(e) /\ IsBuiltFrom(s, e)
      BY DEF IInv, Progress
    <3>3. s.id \in Rates
      BY <2>2 DEF AllTaken
    <3> HIDE DEF s, e
    <3>4. /\ \A n \in 1 .. Len(e.sources) : e.sources[n] \in Known
          /\ e.hours # None => CanOpen(e.hours)
          /\ CanHold(e.plausible)
      BY <3>2, NoProblemMeans DEF Buildable
    <3>5. /\ s.every = e.every /\ s.maxAge = e.maxAge /\ s.sources = e.sources
          /\ s.hours = e.hours /\ s.plausible = e.plausible
      BY <3>2 DEF IsBuiltFrom
    <3>6. s.every \in 1 .. s.maxAge
      BY <3>1, <3>2, <3>5 DEF IsEntry, WellTyped, Buildable, Unfit
    <3>7. e.sources \in Seq(Range(e.sources)) /\ DOMAIN e.sources = 1 .. Len(e.sources)
      <4>1. e.sources \in Seq(Range(e.sources))
        BY <3>1 DEF IsEntry
      <4> QED BY <4>1
    <3>8. s.sources # <<>> /\ ToSet(s.sources) \subseteq Known
      BY <3>2, <3>4, <3>5, <3>7 DEF Buildable, Unfit, ToSet
    <3>9. \A m, n \in 1 .. Len(s.sources) : s.sources[m] = s.sources[n] => m = n
      <4>1. IsInjective(e.sources)
        BY <3>2 DEF Buildable, Unfit
      <4>2. \A m, n \in DOMAIN e.sources : e.sources[m] = e.sources[n] => m = n
        BY <4>1 DEF IsInjective
      <4> QED BY <3>5, <3>7, <4>2, Zenon
    <3>10. \E price \in 1 .. s.plausible.max : price >= s.plausible.min
      <4>1. s.plausible.min \in Int /\ s.plausible.max \in Int
        BY <3>1, <3>5 DEF IsEntry
      <4>2. 0 < s.plausible.min /\ s.plausible.min < s.plausible.max
        BY <3>4, <3>5 DEF CanHold
      <4>3. s.plausible.min \in 1 .. s.plausible.max /\ s.plausible.min >= s.plausible.min
        BY <4>1, <4>2
      <4> QED BY <4>3
    <3>11. s.hours # None =>
               /\ s.hours.weekdays \intersect 0 .. 6 # {}
               /\ \E t \in s.hours.opens .. s.hours.closes : t # s.hours.opens
      <4> SUFFICES ASSUME s.hours # None
                   PROVE  /\ s.hours.weekdays \intersect 0 .. 6 # {}
                          /\ \E t \in s.hours.opens .. s.hours.closes : t # s.hours.opens
        OBVIOUS
      <4>1. s.hours.weekdays # {} /\ s.hours.weekdays \subseteq 0 .. 6
            /\ s.hours.opens < s.hours.closes
        BY <3>4, <3>5 DEF CanOpen
      <4>2. s.hours.opens \in Int /\ s.hours.closes \in Int
        BY <3>1, <3>5 DEF IsEntry
      <4>3. s.hours.closes \in s.hours.opens .. s.hours.closes /\ s.hours.closes # s.hours.opens
        BY <4>1, <4>2
      <4> QED BY <4>1, <4>3
    <3>12. s.gap # None => WithinShares(s.gap, e.samples.rows)
      BY <3>2 DEF IsBuiltFrom
    <3> QED BY <3>3, <3>6, <3>8, <3>9, <3>10, <3>11, <3>12 DEF s, e
  <2> QED BY <2>3, <2>4 DEF StartedCanRun
<1> QED BY <1>1, Invariance, PTL

=============================================================================
