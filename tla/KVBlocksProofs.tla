--------------------------- MODULE KVBlocksProofs ---------------------------
(***************************************************************************)
(* Lemmas about counting KV blocks, for the proofs of the components that   *)
(* share them: block arithmetic, and the sums over requests that the        *)
(* scheduler's stock, the workers' pools and the KV loader keep.            *)
(*                                                                          *)
(* SumFunctionOnSet(f, S) adds f[x] over a finite set in an order that      *)
(* CHOOSE picks.  For naturals it counts the pairs <<x, i>> with i in       *)
(* 1 .. f[x], whatever that order, and so has the laws of a sum.  The       *)
(* library's induction over finite sets takes a predicate as a parameter,   *)
(* which no prover here instantiates; SubsetMin, the same principle for a   *)
(* set of sets, takes its place.                                            *)
(***************************************************************************)
EXTENDS KVBlocks, Functions, FiniteSetTheorems, TLAPS

-----------------------------------------------------------------------------
(* Division by the block size, as allocate and slot_mapping use it.         *)
LEMMA DivMod ==
    ASSUME NEW a \in Nat
    PROVE  /\ a \div BlockSize \in Nat
           /\ a % BlockSize \in 0 .. BlockSize - 1
           /\ a = BlockSize * (a \div BlockSize) + (a % BlockSize)
BY BlockSizeAssumption

(* Quotient and remainder are the only ones.                                 *)
LEMMA DivModUnique ==
    ASSUME NEW x \in Nat, NEW y \in Nat,
           NEW r \in 0 .. BlockSize - 1, NEW t \in 0 .. BlockSize - 1,
           x * BlockSize + r = y * BlockSize + t
    PROVE  x = y /\ r = t
BY BlockSizeAssumption

(* More tokens never need fewer blocks.                                      *)
LEMMA DivMonotone ==
    ASSUME NEW a \in Nat, NEW b \in Nat, a <= b
    PROVE  a \div BlockSize <= b \div BlockSize
BY BlockSizeAssumption

(* One more token needs one more block exactly when append_tokens says so.  *)
LEMMA BlocksForSuccessor ==
    ASSUME NEW len \in Nat
    PROVE  /\ BlocksFor(len) \in Nat
           /\ BlocksFor(len) + (IF NeedsBlock(len) THEN 1 ELSE 0) = BlocksFor(len + 1)
<1>1. CASE len = 0
  BY <1>1, BlockSizeAssumption DEF BlocksFor, NeedsBlock
<1>2. CASE len > 0
  <2> DEFINE a == len - 1
  <2>1. a \in Nat /\ len = a + 1 /\ a \div BlockSize \in Nat
    BY <1>2, DivMod
  <2>2. (a + 1) % BlockSize = 0 => (a + 1) \div BlockSize = (a \div BlockSize) + 1
    BY <2>1, BlockSizeAssumption
  <2>3. (a + 1) % BlockSize # 0 => (a + 1) \div BlockSize = a \div BlockSize
    BY <2>1, BlockSizeAssumption
  <2>4. BlocksFor(len) = (a \div BlockSize) + 1
    BY <1>2, Zenon DEF BlocksFor
  <2>5. BlocksFor(len + 1) = ((a + 1) \div BlockSize) + 1
    BY <1>2, <2>1 DEF BlocksFor
  <2> QED BY <2>1, <2>2, <2>3, <2>4, <2>5 DEF NeedsBlock
<1> QED BY <1>1, <1>2

(* A preloaded prefix of whole blocks needs exactly those blocks.           *)
LEMMA BlocksForMultiple ==
    ASSUME NEW k \in Nat
    PROVE  BlocksFor(BlockSize * k) = k /\ NeedsBlock(BlockSize * k)
<1>1. NeedsBlock(BlockSize * k)
  BY BlockSizeAssumption DEF NeedsBlock
<1>2. CASE k = 0
  <2>1. BlockSize * k = 0 BY <1>2, BlockSizeAssumption
  <2> QED BY <1>1, <1>2, <2>1 DEF BlocksFor
<1>3. CASE k > 0
  <2>1. BlockSize * k - 1 = BlockSize * (k - 1) + (BlockSize - 1)
    BY BlockSizeAssumption
  <2>2. BlockSize * k > 0 /\ BlockSize * k - 1 \in Nat
    BY <1>3, BlockSizeAssumption
  <2>3. (BlockSize * k - 1) \div BlockSize = k - 1
    BY <1>3, <2>1, <2>2, BlockSizeAssumption
  <2>4. BlocksFor(BlockSize * k) = ((BlockSize * k - 1) \div BlockSize) + 1
    BY <2>2, Zenon DEF BlocksFor
  <2>5. (k - 1) + 1 = k BY <1>3
  <2> QED BY <1>1, <2>3, <2>4, <2>5, Zenon
<1> QED BY <1>1, <1>2, <1>3

-----------------------------------------------------------------------------
\* A nonempty set of naturals has a least element.
LEMMA NatMin ==
    ASSUME NEW T \in SUBSET Nat, T # {}
    PROVE  \E n \in T : \A m \in T : n <= m
<1> DEFINE less == {ss \in Nat \X Nat : ss[1] < ss[2]}
<1>1. IsWellFoundedOn(less, Nat)
  BY NatLessThanWellFounded, Zenon DEF OpToRel
<1>2. PICK n \in T : \A m \in T : ~ (<<m, n>> \in less)
  <2> HIDE DEF less
  <2>1. QED  BY <1>1, WFMin, Zenon
<1>3. ASSUME NEW m \in T
      PROVE  n <= m
  <2>1. m \in Nat /\ n \in Nat
    BY Zenon
  <2>2. m < n => <<m, n>> \in less
    BY <2>1, Zenon
  <2>3. QED  BY <1>2, <2>1, <2>2
<1>4. QED  BY <1>3, Zenon

\* f[x] units for each x of S.
Units(f, S) == {u \in S \X Nat : u[2] \in 1 .. f[u[1]]}

\* The equation of the fold that SumFunctionOnSet is.
FoldStep(f, s, g) ==
    IF s = {} THEN 0
    ELSE f[CHOOSE x \in s : TRUE] + g[s \ {CHOOSE x \in s : TRUE}]

\* A set of subsets of a finite set has a minimal element.
LEMMA SubsetMin ==
    ASSUME NEW S, IsFiniteSet(S), NEW T \in SUBSET SUBSET S, T # {}
    PROVE  \E s \in T : \A t \in T : ~ (t \subseteq s /\ t # s)
<1>1. IsWellFoundedOn(StrictSubsetOrdering(S), SUBSET S)
  BY FS_StrictSubsetOrderingWellFounded, FS_FiniteSubsetsOfFinite, Zenon
<1>2. PICK s \in T : \A t \in T : ~ (<<t, s>> \in StrictSubsetOrdering(S))
  BY <1>1, WFMin, Zenon
<1>3. QED  BY <1>2, Zenon DEF StrictSubsetOrdering

\* If the equation of the fold has a solution, the sum is a solution's value.
LEMMA SumUnfolds ==
    ASSUME NEW f, NEW S, NEW g, g = [s \in SUBSET S |-> FoldStep(f, s, g)]
    PROVE  \E h : /\ h = [s \in SUBSET S |-> FoldStep(f, s, h)]
                  /\ SumFunctionOnSet(f, S) = h[S]
<1> DEFINE h == CHOOSE h : h = [s \in SUBSET S |-> FoldStep(f, s, h)]
<1>1. h = [s \in SUBSET S |-> FoldStep(f, s, h)]
  BY Zenon
<1>2. SumFunctionOnSet(f, S) = h[S]
  BY Zenon DEF SumFunctionOnSet, FoldFunctionOnSet, MapThenFoldSet, FoldStep
<1>3. QED  BY <1>1, <1>2, Zenon

\* The units of one element.
LEMMA UnitsOfOne ==
    ASSUME NEW f, NEW x, f[x] \in Nat
    PROVE  /\ IsFiniteSet(Units(f, {x}))
           /\ Cardinality(Units(f, {x})) = f[x]
<1> DEFINE b == [i \in 1 .. f[x] |-> <<x, i>>]
<1>1. b \in Bijection(1 .. f[x], Units(f, {x}))
  <2>1. b \in [1 .. f[x] -> Units(f, {x})]
    BY DEF Units
  <2>2. \A i, j \in 1 .. f[x] : b[i] = b[j] => i = j
    BY Zenon
  <2>3. \A u \in Units(f, {x}) : \E i \in 1 .. f[x] : b[i] = u
    BY DEF Units
  <2>4. QED  BY <2>1, <2>2, <2>3, Zenon DEF Bijection, Injection, Surjection, IsInjective
<1>2. ExistsBijection(1 .. f[x], Units(f, {x}))
  BY <1>1, Zenon DEF ExistsBijection
<1>3. QED  BY <1>2, FS_NatBijection, FS_CountingElements, Zenon

\* The units of two disjoint sets.
LEMMA UnitsOfBoth ==
    ASSUME NEW f, NEW S, NEW T, S \cap T = {},
           IsFiniteSet(Units(f, S)), IsFiniteSet(Units(f, T))
    PROVE  /\ IsFiniteSet(Units(f, S \cup T))
           /\ Cardinality(Units(f, S \cup T))
                = Cardinality(Units(f, S)) + Cardinality(Units(f, T))
<1>1. Units(f, S \cup T) = Units(f, S) \cup Units(f, T)
  BY Zenon DEF Units
<1>2. Units(f, S) \cap Units(f, T) = {}
  BY Zenon DEF Units
<1>3. /\ Cardinality(Units(f, S)) \in Nat
      /\ Cardinality(Units(f, T)) \in Nat
  BY FS_CardinalityType, Zenon
<1>4. Cardinality(Units(f, S) \cup Units(f, T))
        = Cardinality(Units(f, S)) + Cardinality(Units(f, T))
  <2>1. Cardinality(Units(f, S) \cup Units(f, T))
          = Cardinality(Units(f, S)) + Cardinality(Units(f, T))
              - Cardinality(Units(f, S) \cap Units(f, T))
    BY FS_Union, Zenon
  <2>2. Cardinality(Units(f, S) \cap Units(f, T)) = 0
    BY <1>2, FS_EmptySet, Zenon
  <2>3. QED  BY <1>3, <2>1, <2>2
<1>5. QED  BY <1>1, <1>4, FS_Union, Zenon

\* A finite set of elements has finitely many units.
LEMMA UnitsFinite ==
    ASSUME NEW S, IsFiniteSet(S), NEW f, \A x \in S : f[x] \in Nat
    PROVE  \A s \in SUBSET S : IsFiniteSet(Units(f, s))
<1> DEFINE Bad == {s \in SUBSET S : ~ IsFiniteSet(Units(f, s))}
<1>1. SUFFICES ASSUME Bad # {}
               PROVE  FALSE
  BY Zenon
<1>2. PICK s \in Bad : \A t \in Bad : ~ (t \subseteq s /\ t # s)
  <2> HIDE DEF Bad
  <2>1. Bad \in SUBSET SUBSET S
    BY Zenon DEF Bad
  <2>2. QED  BY <1>1, <2>1, SubsetMin
<1>3. s # {}
  <2>1. Units(f, {}) = {}
    BY Zenon DEF Units
  <2>2. QED  BY <2>1, FS_EmptySet, Zenon
<1>4. PICK x \in s : TRUE
  BY <1>3, Zenon
<1>5. IsFiniteSet(Units(f, s \ {x}))
  BY <1>2
<1>6. IsFiniteSet(Units(f, {x}))
  <2>1. f[x] \in Nat
    BY Zenon
  <2>2. QED  BY <2>1, UnitsOfOne, Zenon
<1>7. IsFiniteSet(Units(f, (s \ {x}) \cup {x}))
  BY <1>5, <1>6, UnitsOfBoth, Zenon
<1>8. (s \ {x}) \cup {x} = s
  BY Zenon
<1>9. QED  BY <1>2, <1>7, <1>8, Zenon

\* Taking one element away takes its units away.
LEMMA UnitsOfRest ==
    ASSUME NEW S, IsFiniteSet(S), NEW f, \A x \in S : f[x] \in Nat, NEW s \in SUBSET S, NEW x \in s
    PROVE  Cardinality(Units(f, s)) = f[x] + Cardinality(Units(f, s \ {x}))
<1>1. /\ IsFiniteSet(Units(f, s \ {x}))
      /\ IsFiniteSet(Units(f, {x}))
      /\ Cardinality(Units(f, {x})) = f[x]
  BY UnitsFinite, UnitsOfOne, Zenon
<1>2. Cardinality(Units(f, (s \ {x}) \cup {x}))
        = Cardinality(Units(f, s \ {x})) + Cardinality(Units(f, {x}))
  BY <1>1, UnitsOfBoth
<1>3. (s \ {x}) \cup {x} = s
  BY Zenon
<1>4. Cardinality(Units(f, s \ {x})) \in Nat /\ f[x] \in Nat
  BY <1>1, FS_CardinalityType, Zenon
<1>5. Cardinality(Units(f, s)) = Cardinality(Units(f, s \ {x})) + Cardinality(Units(f, {x}))
  BY <1>2, <1>3, Zenon
<1>6. QED  BY <1>1, <1>4, <1>5

\* A sum of naturals over a finite set counts units.
LEMMA SumCounts ==
    ASSUME NEW S, IsFiniteSet(S), NEW f, \A x \in S : f[x] \in Nat
    PROVE  SumFunctionOnSet(f, S) = Cardinality(Units(f, S))
<1> DEFINE g == [s \in SUBSET S |-> Cardinality(Units(f, s))]
<1>1. g = [s \in SUBSET S |-> FoldStep(f, s, g)]
  <2>1. SUFFICES ASSUME NEW s \in SUBSET S
                 PROVE  Cardinality(Units(f, s)) = FoldStep(f, s, g)
    BY Zenon
  <2>2. CASE s = {}
    <3>1. Units(f, {}) = {}
      BY Zenon DEF Units
    <3>2. QED  BY <2>2, <3>1, FS_EmptySet, Zenon DEF FoldStep
  <2>3. CASE s # {}
    <3> DEFINE x == CHOOSE x \in s : TRUE
    <3>1. x \in s
      BY <2>3, Zenon
    <3>2. Cardinality(Units(f, s)) = f[x] + Cardinality(Units(f, s \ {x}))
      <4> HIDE DEF x
      <4>1. QED  BY <3>1, UnitsOfRest
    <3>3. g[s \ {x}] = Cardinality(Units(f, s \ {x}))
      BY Zenon
    <3>4. FoldStep(f, s, g) = f[x] + g[s \ {x}]
      BY <2>3, Zenon DEF FoldStep
    <3>5. QED  BY <3>2, <3>3, <3>4, Zenon
  <2>4. QED  BY <2>2, <2>3, Zenon
<1>2. PICK h : /\ h = [s \in SUBSET S |-> FoldStep(f, s, h)]
               /\ SumFunctionOnSet(f, S) = h[S]
  BY <1>1, SumUnfolds, Zenon
<1> DEFINE Bad == {s \in SUBSET S : h[s] # Cardinality(Units(f, s))}
<1>3. ASSUME Bad # {}
      PROVE  FALSE
  <2>1. PICK s \in Bad : \A t \in Bad : ~ (t \subseteq s /\ t # s)
    <3> HIDE DEF Bad
    <3>1. Bad \in SUBSET SUBSET S
      BY Zenon DEF Bad
    <3>2. QED  BY <1>3, <3>1, SubsetMin
  <2>2. h[s] = FoldStep(f, s, h)
    <3>1. s \in SUBSET S
      BY Zenon
    <3> HIDE DEF Bad
    <3>2. QED  BY <1>2, <3>1, Zenon
  <2>3. s # {}
    <3>1. Units(f, {}) = {}
      BY Zenon DEF Units
    <3>2. QED  BY <2>2, <3>1, FS_EmptySet, Zenon DEF FoldStep
  <2> DEFINE x == CHOOSE x \in s : TRUE
  <2>4. x \in s
    BY <2>3, Zenon
  <2>5. h[s \ {x}] = Cardinality(Units(f, s \ {x}))
    BY <2>1, <2>4
  <2>6. FoldStep(f, s, h) = f[x] + h[s \ {x}]
    BY <2>3, Zenon DEF FoldStep
  <2>7. Cardinality(Units(f, s)) = f[x] + Cardinality(Units(f, s \ {x}))
    <3>1. s \in SUBSET S
      BY Zenon
    <3> HIDE DEF x, Bad
    <3>2. QED  BY <2>4, <3>1, UnitsOfRest
  <2>8. QED  BY <2>2, <2>5, <2>6, <2>7, Zenon
<1>4. QED  BY <1>2, <1>3, Zenon

-----------------------------------------------------------------------------
\* The laws of a sum.

(* A sum of naturals is a natural.                                           *)
LEMMA SumType ==
    ASSUME NEW S, IsFiniteSet(S), NEW f, \A x \in S : f[x] \in Nat
    PROVE  SumFunctionOnSet(f, S) \in Nat
  BY SumCounts, UnitsFinite, FS_CardinalityType, Zenon

(* The empty sum is zero.                                                    *)
LEMMA SumEmpty ==
    ASSUME NEW f
    PROVE  SumFunctionOnSet(f, {}) = 0
<1>1. Units(f, {}) = {}
  BY Zenon DEF Units
<1>2. SumFunctionOnSet(f, {}) = Cardinality(Units(f, {}))
  BY SumCounts, FS_EmptySet, Zenon
<1>3. QED  BY <1>1, <1>2, FS_EmptySet, Zenon

\* The sum over a set, without one of its elements.
LEMMA SumRest ==
    ASSUME NEW S, IsFiniteSet(S), NEW f, \A x \in S : f[x] \in Nat, NEW y \in S
    PROVE  SumFunctionOnSet(f, S) = f[y] + SumFunctionOnSet(f, S \ {y})
<1>1. IsFiniteSet(S \ {y})
  BY FS_RemoveElement, Zenon
<1>2. /\ SumFunctionOnSet(f, S) = Cardinality(Units(f, S))
      /\ SumFunctionOnSet(f, S \ {y}) = Cardinality(Units(f, S \ {y}))
  BY <1>1, SumCounts, Zenon
<1>3. QED  BY <1>2, UnitsOfRest

\* Only the values on the set count.
LEMMA SumSame ==
    ASSUME NEW S, IsFiniteSet(S), NEW f, NEW g,
           \A x \in S : f[x] \in Nat /\ g[x] = f[x]
    PROVE  SumFunctionOnSet(g, S) = SumFunctionOnSet(f, S)
<1>1. Units(f, S) = Units(g, S)
  BY Zenon DEF Units
<1>2. QED  BY <1>1, SumCounts, Zenon

\* The sum over two disjoint sets.
LEMMA SumBoth ==
    ASSUME NEW S, NEW T, IsFiniteSet(S), IsFiniteSet(T), S \cap T = {},
           NEW f, \A x \in S \cup T : f[x] \in Nat
    PROVE  SumFunctionOnSet(f, S \cup T) = SumFunctionOnSet(f, S) + SumFunctionOnSet(f, T)
<1>1. IsFiniteSet(S \cup T)
  BY FS_Union, Zenon
<1>2. /\ SumFunctionOnSet(f, S \cup T) = Cardinality(Units(f, S \cup T))
      /\ SumFunctionOnSet(f, S) = Cardinality(Units(f, S))
      /\ SumFunctionOnSet(f, T) = Cardinality(Units(f, T))
  BY <1>1, SumCounts, Zenon
<1>3. IsFiniteSet(Units(f, S)) /\ IsFiniteSet(Units(f, T))
  BY UnitsFinite, Zenon
<1>4. QED  BY <1>2, <1>3, UnitsOfBoth

\* Smaller terms over a smaller set have a smaller sum.
LEMMA SumBelow ==
    ASSUME NEW T, IsFiniteSet(T), NEW S \in SUBSET T, NEW f, NEW g,
           \A x \in S : f[x] \in Nat,
           \A x \in T : g[x] \in Nat,
           \A x \in S : f[x] <= g[x]
    PROVE  SumFunctionOnSet(f, S) <= SumFunctionOnSet(g, T)
<1>1. IsFiniteSet(S)
  BY FS_Subset, Zenon
<1>2. /\ SumFunctionOnSet(f, S) = Cardinality(Units(f, S))
      /\ SumFunctionOnSet(g, T) = Cardinality(Units(g, T))
  BY <1>1, SumCounts, Zenon
<1>3. Units(f, S) \in SUBSET Units(g, T)
  BY DEF Units
<1>4. IsFiniteSet(Units(g, T))
  BY UnitsFinite, Zenon
<1>5. Cardinality(Units(f, S)) <= Cardinality(Units(g, T))
  BY <1>3, <1>4, FS_Subset, Zenon
<1>6. QED  BY <1>2, <1>5, Zenon

\* What n tokens occupy, when k blocks have room for them.
LEMMA BlocksForBound ==
    ASSUME NEW n \in Nat, NEW k \in Nat, n <= BlockSize * k
    PROVE  BlocksFor(n) \in Nat /\ BlocksFor(n) <= k
<1>1. CASE n = 0
  BY <1>1 DEF BlocksFor
<1>2. CASE n > 0
  <2>1. n - 1 \in Nat
    BY <1>2
  <2>2. PICK d \in Nat, m \in 0 .. BlockSize - 1 :
           d = (n - 1) \div BlockSize /\ n - 1 = BlockSize * d + m
    BY <2>1, DivMod, Zenon
  <2>3. BlockSize * d < BlockSize * k
    BY <2>2, BlockSizeAssumption
  <2>4. d < k
    BY <2>3, BlockSizeAssumption
  <2>5. QED  BY <1>2, <2>2, <2>4 DEF BlocksFor
<1>3. QED  BY <1>1, <1>2

\* What required_blocks rounds up to has room for its tokens.
LEMMA RoundedUp ==
    ASSUME NEW a \in Nat
    PROVE  /\ (a + BlockSize - 1) \div BlockSize \in Nat
           /\ a <= BlockSize * ((a + BlockSize - 1) \div BlockSize)
<1>1. a + BlockSize - 1 \in Nat
  BY BlockSizeAssumption
<1>2. PICK d \in Nat, m \in 0 .. BlockSize - 1 :
         /\ d = (a + BlockSize - 1) \div BlockSize
         /\ a + BlockSize - 1 = BlockSize * d + m
  BY <1>1, DivMod, Zenon
<1>3. QED  BY <1>2, BlockSizeAssumption

(* Zeros add up to zero.                                                     *)
LEMMA SumZero ==
    ASSUME NEW S, IsFiniteSet(S), NEW f, \A x \in S : f[x] = 0
    PROVE  SumFunctionOnSet(f, S) = 0
<1>1. Units(f, S) = {}
  BY DEF Units
<1>2. SumFunctionOnSet(f, S) = Cardinality(Units(f, S))
  BY SumCounts
<1>3. QED  BY <1>1, <1>2, FS_EmptySet, Zenon

\* Elements whose term is 0 do not matter.
LEMMA SumSupport ==
    ASSUME NEW S, IsFiniteSet(S), NEW T \in SUBSET S, NEW f, \A x \in S : f[x] \in Nat,
           \A x \in S \ T : f[x] = 0
    PROVE  SumFunctionOnSet(f, S) = SumFunctionOnSet(f, T)
<1>1. Units(f, S) = Units(f, T)
  BY DEF Units
<1>2. IsFiniteSet(T)
  BY FS_Subset, Zenon
<1>3. SumFunctionOnSet(f, S) = Cardinality(Units(f, S))
  BY SumCounts, Zenon
<1>4. SumFunctionOnSet(f, T) = Cardinality(Units(f, T))
  BY <1>2, SumCounts, Zenon
<1>5. QED  BY <1>1, <1>3, <1>4, Zenon

\* Terms that are 0 or 1 are counted.
LEMMA SumOnes ==
    ASSUME NEW S, IsFiniteSet(S), NEW T \in SUBSET S, NEW f,
           \A x \in S : f[x] = IF x \in T THEN 1 ELSE 0
    PROVE  SumFunctionOnSet(f, S) = Cardinality(T)
<1> DEFINE b == [x \in T |-> <<x, 1>>]
<1>1. IsFiniteSet(T)
  BY FS_Subset, Zenon
<1>2. b \in Bijection(T, Units(f, S))
  <2>1. b \in [T -> Units(f, S)]
    BY DEF Units
  <2>2. \A x, y \in T : b[x] = b[y] => x = y
    BY Zenon
  <2>3. \A u \in Units(f, S) : \E x \in T : b[x] = u
    BY DEF Units
  <2>4. QED  BY <2>1, <2>2, <2>3, Zenon DEF Bijection, Injection, Surjection, IsInjective
<1>3. ExistsBijection(T, Units(f, S))
  BY <1>2, Zenon DEF ExistsBijection
<1>4. Cardinality(Units(f, S)) = Cardinality(T)
  BY <1>1, <1>3, FS_Bijection, Zenon
<1>5. QED  BY <1>4, SumCounts

\* The sum of termwise sums.
LEMMA SumPlus ==
    ASSUME NEW S, IsFiniteSet(S), NEW f, NEW g, NEW h,
           \A x \in S : f[x] \in Nat /\ g[x] \in Nat /\ h[x] = f[x] + g[x]
    PROVE  SumFunctionOnSet(h, S) = SumFunctionOnSet(f, S) + SumFunctionOnSet(g, S)
<1> DEFINE Bad == {s \in SUBSET S : SumFunctionOnSet(h, s)
                      # SumFunctionOnSet(f, s) + SumFunctionOnSet(g, s)}
<1>1. ASSUME Bad # {}
      PROVE  FALSE
  <2>1. PICK s \in Bad : \A t \in Bad : ~ (t \subseteq s /\ t # s)
    <3>1. Bad \in SUBSET SUBSET S
      BY Zenon
    <3> HIDE DEF Bad
    <3>2. QED  BY <1>1, <3>1, SubsetMin
  <2>2. s # {}
    <3>1. /\ SumFunctionOnSet(f, {}) = 0
          /\ SumFunctionOnSet(g, {}) = 0
          /\ SumFunctionOnSet(h, {}) = 0
      BY SumEmpty, Zenon
    <3>2. {} \notin Bad
      BY <3>1
    <3>3. QED  BY <3>2, Zenon
  <2>3. PICK x \in s : TRUE
    BY <2>2, Zenon
  <2>4. s \ {x} \notin Bad
    BY <2>1, <2>3, Zenon
  <2>5. SumFunctionOnSet(h, s \ {x})
          = SumFunctionOnSet(f, s \ {x}) + SumFunctionOnSet(g, s \ {x})
    BY <2>4, Zenon
  <2>6. /\ IsFiniteSet(s) /\ IsFiniteSet(s \ {x})
        /\ \A y \in s : f[y] \in Nat /\ g[y] \in Nat /\ h[y] \in Nat /\ h[y] = f[y] + g[y]
    BY FS_Subset, FS_RemoveElement
  <2>7. s \in Bad
    BY Zenon
  <2> HIDE DEF Bad
  <2>8. /\ SumFunctionOnSet(f, s) = f[x] + SumFunctionOnSet(f, s \ {x})
        /\ SumFunctionOnSet(g, s) = g[x] + SumFunctionOnSet(g, s \ {x})
        /\ SumFunctionOnSet(h, s) = h[x] + SumFunctionOnSet(h, s \ {x})
    BY <2>3, <2>6, SumRest, Zenon
  <2>9. /\ SumFunctionOnSet(f, s \ {x}) \in Nat
        /\ SumFunctionOnSet(g, s \ {x}) \in Nat
        /\ f[x] \in Nat /\ g[x] \in Nat /\ h[x] = f[x] + g[x]
    BY <2>6, SumType, Zenon
  <2>10. SumFunctionOnSet(h, s) = SumFunctionOnSet(f, s) + SumFunctionOnSet(g, s)
    BY <2>5, <2>8, <2>9
  <2>11. QED  BY <2>7, <2>10, Zenon DEF Bad
<1>2. S \notin Bad
  BY <1>1, Zenon
<1>3. QED  BY <1>2, Zenon

=============================================================================
