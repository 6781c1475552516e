---------------------------- MODULE AmountProofs ----------------------------
(***************************************************************************)
(* Lemmas on the arithmetic of src/amount that every module uses: the      *)
(* quotients that round down, the growth of indices, and the two sums that *)
(* books are compared with, SumOver and SumFunctionOnSet.                  *)
(***************************************************************************)
EXTENDS Amounts, Functions, TLAPS, FiniteSetTheorems, WellFoundedInduction

---------------------------------------------------------------------------
\* Quotients

\* The division that rounds every quotient of src/amount yields a natural.
LEMMA DivNat ==
    ASSUME NEW x \in Nat, NEW y \in Nat \ {0}
    PROVE  x \div y \in Nat
  OBVIOUS

\* The products of amounts, basis points and indices are naturals.
LEMMA TimesNat ==
    ASSUME NEW x \in Nat, NEW y \in Nat
    PROVE  x * y \in Nat
  OBVIOUS

\* A quotient that rounds down stays within a bound exactly while the exact
\* product is below the next multiple.
LEMMA DivBound ==
    ASSUME NEW x \in Nat, NEW y \in Nat \ {0}, NEW m \in Nat
    PROVE  x \div y <= m <=> x < (m + 1) * y
  OBVIOUS

\* A quotient that rounds down brackets the exact one.
LEMMA DivBracket ==
    ASSUME NEW x \in Nat, NEW y \in Nat \ {0}
    PROVE  y * (x \div y) <= x /\ x < y * (x \div y) + y
  OBVIOUS

\* The quotient is the only number that brackets the dividend.
LEMMA DivIs ==
    ASSUME NEW x \in Nat, NEW y \in Nat \ {0}, NEW q \in Nat,
           y * q <= x, x < y * q + y
    PROVE  x \div y = q
<1> DEFINE p == x \div y
<1>1. p \in Nat /\ y * p <= x /\ x < y * p + y  BY DivNat, DivBracket
<1> HIDE DEF p
<1>2. ~(p + 1 <= q)
  <2> SUFFICES ASSUME p + 1 <= q PROVE FALSE  OBVIOUS
  <2>1. y * (p + 1) <= y * q /\ y * (p + 1) = y * p + y  BY <1>1
  <2>2. y * p \in Nat /\ y * q \in Nat  BY <1>1, TimesNat
  <2> QED  BY <1>1, <2>1, <2>2
<1>3. ~(q + 1 <= p)
  <2> SUFFICES ASSUME q + 1 <= p PROVE FALSE  OBVIOUS
  <2>1. y * (q + 1) <= y * p /\ y * (q + 1) = y * q + y  BY <1>1
  <2>2. y * p \in Nat /\ y * q \in Nat  BY <1>1, TimesNat
  <2> QED  BY <1>1, <2>1, <2>2
<1> QED  BY <1>1, <1>2, <1>3 DEF p

\* Rounding two parts of an amount loses at most one unit more than rounding
\* the whole.
LEMMA DivSplit ==
    ASSUME NEW u \in Nat, NEW v \in Nat, NEW s \in Nat \ {0}
    PROVE  /\ (u \div s) + (v \div s) <= (u + v) \div s
           /\ (u + v) \div s <= (u \div s) + (v \div s) + 1
<1> DEFINE a == u \div s
           b == v \div s
           c == (u + v) \div s
<1>1. a \in Nat /\ b \in Nat /\ c \in Nat  BY DivNat
<1>2. /\ s * a <= u /\ u < s * a + s
      /\ s * b <= v /\ v < s * b + s
      /\ s * c <= u + v /\ u + v < s * c + s
  BY DivBracket
<1> HIDE DEF a, b, c
<1>3. s * a \in Nat /\ s * b \in Nat /\ s * c \in Nat  BY <1>1, TimesNat
<1>4. a + b <= c
  <2> SUFFICES ASSUME c + 1 <= a + b PROVE FALSE  BY <1>1
  <2>1. s * (c + 1) <= s * (a + b)  BY <1>1
  <2>2. s * (c + 1) = s * c + s /\ s * (a + b) = s * a + s * b  BY <1>1
  <2> QED  BY <1>2, <1>3, <2>1, <2>2
<1>5. c <= a + b + 1
  <2> SUFFICES ASSUME a + b + 2 <= c PROVE FALSE  BY <1>1
  <2>1. s * (a + b + 2) <= s * c  BY <1>1
  <2>2. s * (a + b + 2) = s * a + s * b + s + s  BY <1>1
  <2> QED  BY <1>2, <1>3, <2>1, <2>2
<1> QED  BY <1>4, <1>5 DEF a, b, c

\* A quotient grows with its dividend.
LEMMA DivMonotone ==
    ASSUME NEW u \in Nat, NEW v \in Nat, u <= v, NEW s \in Nat \ {0}
    PROVE  u \div s <= v \div s
<1>1. v - u \in Nat /\ v = u + (v - u)  OBVIOUS
<1>2. (u \div s) + ((v - u) \div s) <= v \div s  BY <1>1, DivSplit
<1>3. u \div s \in Nat /\ (v - u) \div s \in Nat /\ v \div s \in Nat  BY <1>1, DivNat
<1> QED  BY <1>2, <1>3

---------------------------------------------------------------------------
\* Amounts

\* An amount is a natural that the checked operations accept.
LEMMA AmountIffFits ==
    ASSUME NEW x
    PROVE  x \in Amount <=> x \in Nat /\ Fits(x)
  BY AmountsAssumption DEF Amount, Fits

\* Amount::saturating_sub never underflows and never exceeds what it is
\* subtracted from.
LEMMA SaturatingSubNat ==
    ASSUME NEW x \in Nat, NEW y \in Nat
    PROVE  /\ SaturatingSub(x, y) \in Nat
           /\ SaturatingSub(x, y) <= x
  BY DEF SaturatingSub

\* Amount::mul_bps
LEMMA MulBpsNat ==
    ASSUME NEW x \in Nat, NEW bps \in Nat
    PROVE  MulBps(x, bps) \in Nat
  BY TimesNat, DivNat, AmountsAssumption DEF MulBps

\* AccrualIndex::amount_delta
LEMMA AmountDeltaNat ==
    ASSUME NEW index \in Nat, NEW principal \in Nat, NEW previous \in Nat
    PROVE  AmountDelta(index, principal, previous) \in Nat
<1>1. SaturatingSub(index, previous) \in Nat  BY SaturatingSubNat
<1>2. principal * SaturatingSub(index, previous) \in Nat  BY <1>1, TimesNat
<1> QED  BY <1>2, DivNat, AmountsAssumption DEF AmountDelta

\* AccrualIndex::compound_bps never lowers an index.
LEMMA CompoundGrows ==
    ASSUME NEW index \in Nat, NEW bps \in Nat
    PROVE  CompoundBps(index, bps) \in Nat /\ index <= CompoundBps(index, bps)
<1>1. index * bps \in Nat  BY TimesNat
<1>2. (index * bps) \div BPS_DENOMINATOR \in Nat  BY <1>1, DivNat, AmountsAssumption
<1> QED  BY <1>2 DEF CompoundBps

\* AccrualIndex::amount_delta over an epoch that is split in two, over none,
\* and over a longer one.
LEMMA DeltaSplit ==
    ASSUME NEW p \in Nat, NEW a \in Nat, NEW b \in Nat, NEW c \in Nat, a <= b, b <= c
    PROVE  /\ AmountDelta(b, p, a) + AmountDelta(c, p, b) <= AmountDelta(c, p, a)
           /\ AmountDelta(c, p, a) <= AmountDelta(b, p, a) + AmountDelta(c, p, b) + 1
<1>1. /\ SaturatingSub(b, a) = b - a /\ SaturatingSub(c, b) = c - b
      /\ SaturatingSub(c, a) = c - a
  BY DEF SaturatingSub
<1>2. p * (c - a) = p * (b - a) + p * (c - b)  OBVIOUS
<1>3. p * (b - a) \in Nat /\ p * (c - b) \in Nat
  <2>1. b - a \in Nat /\ c - b \in Nat  OBVIOUS
  <2> QED  BY <2>1, TimesNat
<1> QED  BY <1>1, <1>2, <1>3, DivSplit, AmountsAssumption DEF AmountDelta

LEMMA DeltaNone ==
    ASSUME NEW p \in Nat, NEW a \in Nat
    PROVE  AmountDelta(a, p, a) = 0
<1>1. p * SaturatingSub(a, a) = 0  BY DEF SaturatingSub
<1>2. 0 \div INDEX_SCALE = 0  BY AmountsAssumption
<1> QED  BY <1>1, <1>2 DEF AmountDelta

LEMMA DeltaMonotone ==
    ASSUME NEW p \in Nat, NEW a \in Nat, NEW b \in Nat, NEW c \in Nat, b <= c
    PROVE  AmountDelta(b, p, a) <= AmountDelta(c, p, a)
<1>1. /\ SaturatingSub(b, a) \in Nat /\ SaturatingSub(c, a) \in Nat
      /\ SaturatingSub(b, a) <= SaturatingSub(c, a)
  BY DEF SaturatingSub
<1>2. \A x, y \in Nat : x <= y => p * x <= p * y  OBVIOUS
<1>3. p * SaturatingSub(b, a) \in Nat /\ p * SaturatingSub(c, a) \in Nat
  BY <1>1, TimesNat
<1>4. p * SaturatingSub(b, a) <= p * SaturatingSub(c, a)  BY <1>1, <1>2
<1> QED  BY <1>3, <1>4, DivMonotone, AmountsAssumption DEF AmountDelta

---------------------------------------------------------------------------
\* Sums

\* Induction over the subsets of a finite set, for the subsets in W.
LEMMA SubsetInduction ==
    ASSUME NEW S, IsFiniteSet(S), NEW W, {} \in W,
           \A s \in SUBSET S : s # {} /\ (\A x \in s : s \ {x} \in W) => s \in W
    PROVE  S \in W
<1> DEFINE Wrong == (SUBSET S) \ W
<1> SUFFICES ASSUME NEW r, r \in Wrong PROVE FALSE
  OBVIOUS
<1>1. Wrong \subseteq FiniteSubsetsOf(S)  BY FS_Subset DEF FiniteSubsetsOf
<1>2. PICK s \in Wrong : \A t \in Wrong : <<t, s>> \notin StrictSubsetOrdering(S)
  <2> HIDE DEF Wrong
  <2> QED  BY <1>1, FS_StrictSubsetOrderingWellFounded, WFMin
<1>3. PICK x \in s : s \ {x} \notin W
  <2>1. s \in SUBSET S /\ s \notin W /\ s # {}  BY <1>2
  <2> QED  BY <2>1
<1>4. s \ {x} \in Wrong  BY <1>2, <1>3
<1>5. <<s \ {x}, s>> \in StrictSubsetOrdering(S)  BY <1>3 DEF StrictSubsetOrdering
<1> QED  BY <1>2, <1>4, <1>5

\* The units counted for one term.
LEMMA TermUnits ==
    ASSUME NEW i, NEW n \in Nat
    PROVE  IsFiniteSet({i} \X (1 .. n)) /\ Cardinality({i} \X (1 .. n)) = n
<1>1. IsFiniteSet({i}) /\ Cardinality({i}) = 1  BY FS_Singleton
<1>2. IsFiniteSet(1 .. n) /\ Cardinality(1 .. n) = n  BY FS_Interval
<1>3. /\ IsFiniteSet({i} \X (1 .. n))
      /\ Cardinality({i} \X (1 .. n)) = Cardinality({i}) * Cardinality(1 .. n)
  BY <1>1, <1>2, FS_Product
<1> QED  BY <1>1, <1>2, <1>3

\* A sum of amounts over finitely many accounts, pools or positions.
LEMMA SumOverNat ==
    ASSUME NEW S, IsFiniteSet(S), NEW f, \A i \in S : f[i] \in Nat
    PROVE  SumOver(f, S) \in Nat /\ IsFiniteSet(Units(f, S))
<1> DEFINE Gs == { {i} \X (1 .. f[i]) : i \in S }
           g  == [i \in S |-> {i} \X (1 .. f[i])]
<1>1. ASSUME NEW i \in S PROVE IsFiniteSet({i} \X (1 .. f[i]))
  BY TermUnits
<1>2. IsFiniteSet(Gs)
  <2>1. g \in Surjection(S, Gs)  BY DEF Surjection
  <2> QED  BY <2>1, FS_Surjection
<1>3. \A T \in Gs : IsFiniteSet(T)  BY <1>1
<1>4. IsFiniteSet(UNION Gs)  BY <1>2, <1>3, FS_UNION
<1>5. Units(f, S) = UNION Gs  BY DEF Units
<1> QED  BY <1>4, <1>5, FS_CardinalityType DEF SumOver

\* Sums of the same terms are the same.
LEMMA SumSame ==
    ASSUME NEW S, NEW f, NEW g, \A i \in S : f[i] = g[i]
    PROVE  SumOver(f, S) = SumOver(g, S)
<1>1. Units(f, S) = Units(g, S)  BY DEF Units
<1> QED  BY <1>1 DEF SumOver

\* One term can be taken out of a sum.
LEMMA SumSplit ==
    ASSUME NEW S, IsFiniteSet(S), NEW f, \A i \in S : f[i] \in Nat, NEW x \in S
    PROVE  SumOver(f, S) = f[x] + SumOver(f, S \ {x})
<1> DEFINE A == {x} \X (1 .. f[x])
           B == Units(f, S \ {x})
<1>1. IsFiniteSet(A) /\ Cardinality(A) = f[x]  BY TermUnits
<1>2. IsFiniteSet(S \ {x})  BY FS_RemoveElement
<1>3. IsFiniteSet(B) /\ SumOver(f, S \ {x}) \in Nat  BY <1>2, SumOverNat
<1>4. Units(f, S) = A \cup B
  <2>1. S = {x} \cup (S \ {x})  OBVIOUS
  <2> QED  BY <2>1 DEF Units
<1>5. A \cap B = {}
  <2> SUFFICES ASSUME NEW u \in A, u \in B PROVE FALSE  OBVIOUS
  <2>1. u[1] = x  OBVIOUS
  <2>2. PICK i \in S \ {x} : u \in {i} \X (1 .. f[i])  BY DEF Units
  <2>3. u[1] = i  BY <2>2
  <2> QED  BY <2>1, <2>2, <2>3
<1> HIDE DEF A, B
<1>6. Cardinality(A \cup B) = Cardinality(A) + Cardinality(B) - 0
  BY <1>1, <1>3, <1>5, FS_Union, FS_EmptySet
<1> QED  BY <1>1, <1>3, <1>4, <1>6 DEF SumOver, B

\* An update of one term moves the sum by the difference.
LEMMA SumUpdate ==
    ASSUME NEW S, IsFiniteSet(S), NEW x \in S, NEW f, NEW g,
           \A i \in S : f[i] \in Nat /\ g[i] \in Nat,
           \A i \in S : i # x => g[i] = f[i]
    PROVE  SumOver(g, S) + f[x] = SumOver(f, S) + g[x]
<1>1. IsFiniteSet(S \ {x})  BY FS_RemoveElement
<1>2. SumOver(f, S) = f[x] + SumOver(f, S \ {x})  BY SumSplit
<1>3. SumOver(g, S) = g[x] + SumOver(g, S \ {x})  BY SumSplit
<1>4. SumOver(f, S \ {x}) = SumOver(g, S \ {x})  BY SumSame
<1>5. SumOver(f, S \ {x}) \in Nat  BY <1>1, SumOverNat
<1> QED  BY <1>2, <1>3, <1>4, <1>5

\* A sum of zeros is zero, and only that.
LEMMA SumZero ==
    ASSUME NEW S, IsFiniteSet(S), NEW f, \A i \in S : f[i] \in Nat
    PROVE  SumOver(f, S) = 0 <=> \A i \in S : f[i] = 0
<1>1. ASSUME NEW i \in S PROVE SumOver(f, S) >= f[i]
  <2>1. IsFiniteSet(S \ {i})  BY FS_RemoveElement
  <2>2. SumOver(f, S \ {i}) \in Nat  BY <2>1, SumOverNat
  <2> QED  BY <2>2, SumSplit
<1>2. ASSUME \A i \in S : f[i] = 0 PROVE SumOver(f, S) = 0
  <2>1. \A i \in S : {i} \X (1 .. f[i]) = {}  BY <1>2
  <2>2. Units(f, S) = {}  BY <2>1 DEF Units
  <2> QED  BY <2>2, FS_EmptySet DEF SumOver
<1> QED  BY <1>1, <1>2, SumOverNat

\* Terms that are zero outside a part may be left out.
LEMMA SumRestrict ==
    ASSUME NEW S, NEW T \in SUBSET S, NEW f, NEW g,
           \A i \in T : g[i] = f[i], \A i \in S \ T : g[i] = 0
    PROVE  SumOver(g, S) = SumOver(f, T)
<1>1. \A i \in S \ T : {i} \X (1 .. g[i]) = {}  OBVIOUS
<1>2. \A i \in T : {i} \X (1 .. g[i]) = {i} \X (1 .. f[i])  OBVIOUS
<1>3. Units(g, S) = Units(f, T)  BY <1>1, <1>2 DEF Units
<1> QED  BY <1>3 DEF SumOver

\* The sum over two disjoint parts.
LEMMA SumUnion ==
    ASSUME NEW S, IsFiniteSet(S), NEW T, IsFiniteSet(T), S \cap T = {},
           NEW f, \A i \in S \cup T : f[i] \in Nat
    PROVE  SumOver(f, S \cup T) = SumOver(f, S) + SumOver(f, T)
<1> DEFINE A == Units(f, S)
           B == Units(f, T)
<1>1. /\ IsFiniteSet(A) /\ SumOver(f, S) \in Nat
      /\ IsFiniteSet(B) /\ SumOver(f, T) \in Nat
  BY SumOverNat
<1>2. Units(f, S \cup T) = A \cup B  BY DEF Units
<1>3. A \cap B = {}
  <2> SUFFICES ASSUME NEW u \in A, u \in B PROVE FALSE  OBVIOUS
  <2>1. PICK i \in S : u \in {i} \X (1 .. f[i])  BY DEF Units
  <2>2. PICK j \in T : u \in {j} \X (1 .. f[j])  BY DEF Units
  <2>3. u[1] = i /\ u[1] = j  BY <2>1, <2>2
  <2> QED  BY <2>3
<1>4. SumOver(f, S) = Cardinality(A) /\ SumOver(f, T) = Cardinality(B)  BY DEF SumOver
<1> HIDE DEF A, B
<1>5. Cardinality(A \cup B) = Cardinality(A) + Cardinality(B) - 0
  BY <1>1, <1>3, FS_Union, FS_EmptySet
<1>6. SumOver(f, S \cup T) = Cardinality(A \cup B)  BY <1>2 DEF SumOver
<1> QED  BY <1>1, <1>4, <1>5, <1>6

\* The sum over a part is no larger, and neither is a term.
LEMMA SumPart ==
    ASSUME NEW S, IsFiniteSet(S), NEW f, \A i \in S : f[i] \in Nat, NEW T \in SUBSET S
    PROVE  SumOver(f, T) <= SumOver(f, S)
<1>1. IsFiniteSet(T) /\ IsFiniteSet(S \ T)  BY FS_Subset
<1>2. S = T \cup (S \ T) /\ T \cap (S \ T) = {}  OBVIOUS
<1>3. SumOver(f, S) = SumOver(f, T) + SumOver(f, S \ T)  BY <1>1, <1>2, SumUnion
<1>4. SumOver(f, T) \in Nat /\ SumOver(f, S \ T) \in Nat  BY <1>1, SumOverNat
<1> QED  BY <1>3, <1>4

LEMMA SumTerm ==
    ASSUME NEW S, IsFiniteSet(S), NEW f, \A i \in S : f[i] \in Nat, NEW x \in S
    PROVE  f[x] <= SumOver(f, S)
<1>1. IsFiniteSet(S \ {x})  BY FS_RemoveElement
<1>2. SumOver(f, S \ {x}) \in Nat  BY <1>1, SumOverNat
<1>3. SumOver(f, S) = f[x] + SumOver(f, S \ {x})  BY SumSplit
<1> QED  BY <1>2, <1>3

\* The empty sum.
LEMMA SumEmpty ==
    ASSUME NEW f
    PROVE  SumOver(f, {}) = 0
<1>1. Units(f, {}) = {}  BY DEF Units
<1> QED  BY <1>1, FS_EmptySet DEF SumOver

\* A bound on the terms, each taken a and k times, bounds the sums.
LEMMA SumBound ==
    ASSUME NEW S, IsFiniteSet(S), NEW f, NEW g, NEW a \in Nat, NEW k \in Nat,
           \A i \in S : f[i] \in Nat /\ g[i] \in Nat /\ a * f[i] <= k * g[i]
    PROVE  a * SumOver(f, S) <= k * SumOver(g, S)
<1> DEFINE W == {s \in SUBSET S : a * SumOver(f, s) <= k * SumOver(g, s)}
<1>1. {} \in W
  <2>1. a * 0 <= k * 0  OBVIOUS
  <2> QED  BY <2>1, SumEmpty
<1>2. ASSUME NEW s \in SUBSET S, s # {}, \A x \in s : s \ {x} \in W PROVE s \in W
  <2> PICK x \in s : TRUE  BY <1>2
  <2> DEFINE F == SumOver(f, s \ {x})
             G == SumOver(g, s \ {x})
  <2>1. IsFiniteSet(s) /\ IsFiniteSet(s \ {x})  BY FS_Subset
  <2>2. F \in Nat /\ G \in Nat  BY <2>1, SumOverNat
  <2>3. SumOver(f, s) = f[x] + F /\ SumOver(g, s) = g[x] + G
    BY <2>1, SumSplit
  <2>4. a * F <= k * G /\ a * f[x] <= k * g[x] /\ f[x] \in Nat /\ g[x] \in Nat
    BY <1>2
  <2> HIDE DEF F, G
  <2>5. a * (f[x] + F) = a * f[x] + a * F /\ k * (g[x] + G) = k * g[x] + k * G
    BY <2>2, <2>4
  <2>6. /\ a * f[x] \in Nat /\ a * F \in Nat
        /\ k * g[x] \in Nat /\ k * G \in Nat
    BY <2>2, <2>4, TimesNat
  <2> QED  BY <2>3, <2>4, <2>5, <2>6
<1> HIDE DEF W
<1>3. S \in W  BY <1>1, <1>2, SubsetInduction
<1> QED  BY <1>3 DEF W

\* A sum whose terms are the sums of disjoint groups is the sum over the
\* members of all groups.
LEMMA SumGroups ==
    ASSUME NEW B, IsFiniteSet(B), NEW S, IsFiniteSet(S), NEW f, NEW g, NEW group,
           \A i \in S : f[i] \in Nat,
           \A b \in B : group[b] \subseteq S /\ g[b] = SumOver(f, group[b]),
           \A b, c \in B : b # c => group[b] \cap group[c] = {},
           \A i \in S : \E b \in B : i \in group[b]
    PROVE  SumOver(g, B) = SumOver(f, S)
<1> DEFINE Members(T) == {i \in S : \E b \in T : i \in group[b]}
           W == {T \in SUBSET B : SumOver(g, T) = SumOver(f, Members(T))}
<1>1. {} \in W
  <2>1. Members({}) = {}  OBVIOUS
  <2> QED  BY <2>1, SumEmpty
<1>2. ASSUME NEW T \in SUBSET B, T # {}, \A b \in T : T \ {b} \in W PROVE T \in W
  <2> PICK b \in T : TRUE  BY <1>2
  <2> DEFINE one == group[b]
             rest == Members(T \ {b})
  <2>1. Members(T) = one \cup rest /\ one \cap rest = {}  OBVIOUS
  <2>2. one \subseteq S /\ rest \subseteq S  OBVIOUS
  <2>3. IsFiniteSet(one) /\ IsFiniteSet(rest) /\ IsFiniteSet(T)  BY <2>2, FS_Subset
  <2>4. SumOver(f, Members(T)) = SumOver(f, one) + SumOver(f, rest)
    <3> HIDE DEF one, rest, Members
    <3> QED  BY <2>1, <2>2, <2>3, SumUnion
  <2>5. \A c \in T : g[c] \in Nat
    <3> SUFFICES ASSUME NEW c \in T PROVE g[c] \in Nat  OBVIOUS
    <3>1. IsFiniteSet(group[c])  BY FS_Subset
    <3>2. \A i \in group[c] : f[i] \in Nat  OBVIOUS
    <3> QED  BY <3>1, <3>2, SumOverNat
  <2>6. SumOver(g, T) = g[b] + SumOver(g, T \ {b})  BY <2>3, <2>5, SumSplit
  <2>7. g[b] = SumOver(f, one) /\ SumOver(g, T \ {b}) = SumOver(f, rest)  BY <1>2
  <2> QED  BY <2>4, <2>6, <2>7
<1> HIDE DEF W
<1>3. B \in W  BY <1>1, <1>2, SubsetInduction
<1>4. Members(B) = S  OBVIOUS
<1> QED  BY <1>3, <1>4 DEF W

\* The sum of equal terms.
LEMMA SumConstant ==
    ASSUME NEW S, IsFiniteSet(S), NEW c \in Nat, NEW f, \A i \in S : f[i] = c
    PROVE  SumOver(f, S) = Cardinality(S) * c
<1>1. Units(f, S) = S \X (1 .. c)  BY DEF Units
<1>2. IsFiniteSet(1 .. c) /\ Cardinality(1 .. c) = c  BY FS_Interval
<1> QED  BY <1>1, <1>2, FS_Product DEF SumOver

\* The terms of a sum may be renamed.
LEMMA SumRename ==
    ASSUME NEW S, IsFiniteSet(S), NEW T, IsFiniteSet(T), NEW h \in Bijection(S, T),
           NEW f, NEW g, \A i \in S : f[i] \in Nat /\ g[h[i]] = f[i]
    PROVE  SumOver(g, T) = SumOver(f, S)
<1> DEFINE group == [t \in T |-> {i \in S : h[i] = t}]
<1>1. /\ h \in [S -> T] /\ \A i, j \in S : h[i] = h[j] => i = j
      /\ \A t \in T : \E i \in S : h[i] = t
  BY DEF Bijection, Injection, Surjection, IsInjective
<1>2. ASSUME NEW t \in T
      PROVE  group[t] \subseteq S /\ g[t] = SumOver(f, group[t])
  <2>1. PICK i \in S : h[i] = t  BY <1>1
  <2>2. group[t] = {i}  BY <1>1, <2>1
  <2>3. IsFiniteSet({i}) /\ {i} \ {i} = {}  BY FS_Singleton
  <2>4. SumOver(f, {i}) = f[i] + SumOver(f, {})  BY <2>3, SumSplit
  <2> QED  BY <2>1, <2>2, <2>4, SumEmpty
<1>3. \A t, u \in T : t # u => group[t] \cap group[u] = {}  OBVIOUS
<1>4. \A i \in S : \E t \in T : i \in group[t]  BY <1>1
<1> HIDE DEF group
<1> QED  BY <1>2, <1>3, <1>4, SumGroups

\* A set has as many elements as its disjoint groups together.
LEMMA GroupSizes ==
    ASSUME NEW B, IsFiniteSet(B), NEW S, IsFiniteSet(S), NEW g, NEW group,
           \A b \in B : group[b] \subseteq S /\ g[b] = Cardinality(group[b]),
           \A b, c \in B : b # c => group[b] \cap group[c] = {},
           \A i \in S : \E b \in B : i \in group[b]
    PROVE  SumOver(g, B) = Cardinality(S)
<1> DEFINE ones == [i \in S |-> 1]
<1>1. ASSUME NEW T \in SUBSET S PROVE SumOver(ones, T) = Cardinality(T)
  <2>1. IsFiniteSet(T) /\ Cardinality(T) \in Nat  BY FS_Subset, FS_CardinalityType
  <2>2. \A i \in T : ones[i] = 1  OBVIOUS
  <2> HIDE DEF ones
  <2>3. SumOver(ones, T) = Cardinality(T) * 1  BY <2>1, <2>2, SumConstant
  <2> QED  BY <2>1, <2>3
<1>2. \A i \in S : ones[i] \in Nat  OBVIOUS
<1>3. \A b \in B : group[b] \subseteq S /\ g[b] = SumOver(ones, group[b])  BY <1>1
<1> HIDE DEF ones
<1>4. SumOver(g, B) = SumOver(ones, S)  BY <1>2, <1>3, SumGroups
<1> QED  BY <1>1, <1>4

\* The sum of the community modules, which folds over the indices in an order
\* of its own, is the size of the disjoint union.
LEMMA FoldIsSum ==
    ASSUME NEW S, IsFiniteSet(S), NEW f, \A i \in S : f[i] \in Nat
    PROVE  SumFunctionOnSet(f, S) = SumOver(f, S)
<1> DEFINE c(s) == CHOOSE x \in s : TRUE
           step(g) == [s \in SUBSET S |-> IF s = {} THEN 0 ELSE f[c(s)] + g[s \ {c(s)}]]
           iter == CHOOSE g : g = step(g)
           sum == [s \in SUBSET S |-> SumOver(f, s)]
<1>1. SumFunctionOnSet(f, S) = iter[S]
  BY DEF SumFunctionOnSet, FoldFunctionOnSet, MapThenFoldSet
<1>2. ASSUME NEW s \in SUBSET S, s # {}
      PROVE  c(s) \in s /\ SumOver(f, s) = f[c(s)] + SumOver(f, s \ {c(s)})
  <2>1. c(s) \in s  BY <1>2
  <2>2. IsFiniteSet(s)  BY FS_Subset
  <2> HIDE DEF c
  <2> QED  BY <2>1, <2>2, SumSplit
<1>3. SumOver(f, {}) = 0
  <2>1. IsFiniteSet({})  BY FS_EmptySet
  <2> QED  BY <2>1, SumZero
<1> HIDE DEF c
<1>4. sum = step(sum)
  <2>1. \A s \in SUBSET S : sum[s] = IF s = {} THEN 0 ELSE f[c(s)] + sum[s \ {c(s)}]
    BY <1>2, <1>3
  <2> QED  BY <2>1
<1>5. iter = step(iter)
  <2> HIDE DEF sum, step
  <2> QED  BY <1>4
<1>6. iter[S] = SumOver(f, S)
  <2> HIDE DEF iter
  <2> DEFINE W == {s \in SUBSET S : iter[s] = SumOver(f, s)}
  <2>1. {} \in W  BY <1>3, <1>5
  <2>2. ASSUME NEW s \in SUBSET S, s # {}, \A x \in s : s \ {x} \in W PROVE s \in W
    <3>1. c(s) \in s /\ SumOver(f, s) = f[c(s)] + SumOver(f, s \ {c(s)})  BY <1>2, <2>2
    <3>2. iter[s] = f[c(s)] + iter[s \ {c(s)}]  BY <1>5, <2>2
    <3> QED  BY <2>2, <3>1, <3>2
  <2> HIDE DEF W
  <2>3. S \in W  BY <2>1, <2>2, SubsetInduction
  <2> QED  BY <2>3 DEF W
<1> QED  BY <1>1, <1>6
=============================================================================
