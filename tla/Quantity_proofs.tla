--------------------------- MODULE Quantity_proofs ---------------------------
(***************************************************************************)
(* Sums and maxima over finite sets, for every function with integer       *)
(* values: what the ledgers, the treasury and the holdings are reckoned    *)
(* with.  The library states these facts for operators, which no prover    *)
(* here can instantiate; for functions they are theorems of their own.     *)
(***************************************************************************)
EXTENDS Quantity, FiniteSetTheorems, TLAPS

\* The equation of the fold behind SumOf, and what the fold chooses to solve it.
AnyOf(s) == CHOOSE x \in s : TRUE
SumsUp(f, g, S) ==
  g = [s \in SUBSET S |-> IF s = {} THEN 0 ELSE f[AnyOf(s)] + g[s \ {AnyOf(s)}]]
PartialSums(f, S) == CHOOSE g : SumsUp(f, g, S)

\* SumOf is the fold of the community modules.
LEMMA SumIsPartialSum == ASSUME NEW f, NEW S PROVE SumOf(f, S) = PartialSums(f, S)[S]
BY DEF SumOf, MapThenSumSet, MapThenFoldSet, PartialSums, SumsUp, AnyOf

\* The element the fold takes next.
LEMMA Picked == ASSUME NEW s, s # {} PROVE AnyOf(s) \in s
BY DEF AnyOf

\* Induction over the subsets of a finite set: what fails for one of them fails for
\* one that it does not fail below.
LEMMA SmallestSubset ==
  ASSUME NEW S, IsFiniteSet(S), NEW B, B \subseteq SUBSET S, B # {}
  PROVE  \E s \in B : \A t \in SUBSET s : t # s => t \notin B
<1> DEFINE R == StrictSubsetOrdering(S)
<1>1. IsWellFoundedOn(R, SUBSET S)
  BY FS_StrictSubsetOrderingWellFounded, FS_FiniteSubsetsOfFinite
<1>2. PICK s \in B : \A t \in B : ~(<<t, s>> \in R)
  <2> HIDE DEF R
  <2> QED BY <1>1, WFMin
<1>3. ASSUME NEW t \in SUBSET s, t # s, t \in B PROVE FALSE
  BY <1>2, <1>3 DEF StrictSubsetOrdering
<1> QED BY <1>3

\* One step of the fold.
LEMMA SumsUpAt ==
  ASSUME NEW f, NEW S, NEW g, SumsUp(f, g, S), NEW s \in SUBSET S
  PROVE  g[s] = IF s = {} THEN 0 ELSE f[AnyOf(s)] + g[s \ {AnyOf(s)}]
BY DEF SumsUp

\* The equation has one solution on the subsets of a set, however large its domain.
LEMMA SumsUpOnce ==
  ASSUME NEW f, NEW S, IsFiniteSet(S), NEW g, SumsUp(f, g, S), NEW T, NEW h, SumsUp(f, h, T),
         S \subseteq T
  PROVE  \A s \in SUBSET S : g[s] = h[s]
<1> DEFINE B == {s \in SUBSET S : g[s] # h[s]}
<1>1. SUFFICES ASSUME B # {} PROVE FALSE
  OBVIOUS
<1>2. PICK s \in B : \A t \in SUBSET s : t # s => t \notin B
  <2>1. B \subseteq SUBSET S
    OBVIOUS
  <2> HIDE DEF B
  <2> QED BY <1>1, <2>1, SmallestSubset
<1>0. s \in SUBSET S /\ s \in SUBSET T /\ g[s] # h[s]
  OBVIOUS
<1>3. s # {}
  <2> SUFFICES ASSUME s = {} PROVE g[s] = h[s]
    BY <1>0
  <2> QED BY <1>0, SumsUpAt
<1>4. g[s \ {AnyOf(s)}] = h[s \ {AnyOf(s)}]
  BY <1>2, <1>3, Picked
<1>5. s \in SUBSET S /\ s \in SUBSET T
  OBVIOUS
<1>6. g[s] = h[s]
  BY <1>3, <1>4, <1>5, SumsUpAt
<1> QED BY <1>6

\* The equation has a solution: it is put together from those on the smaller subsets.
LEMMA PartialSumsExist ==
  ASSUME NEW f, NEW S, IsFiniteSet(S)
  PROVE  SumsUp(f, PartialSums(f, S), S)
<1> DEFINE B == {s \in SUBSET S : ~SumsUp(f, PartialSums(f, s), s)}
<1>1. SUFFICES ASSUME B # {} PROVE FALSE
  OBVIOUS
<1>2. PICK s \in B : \A t \in SUBSET s : t # s => t \notin B
  <2>1. B \subseteq SUBSET S
    OBVIOUS
  <2> HIDE DEF B
  <2> QED BY <1>1, <2>1, SmallestSubset
<1>3. \A t \in SUBSET s : t # s => SumsUp(f, PartialSums(f, t), t)
  BY <1>2
<1> DEFINE less(t) == t \ {AnyOf(t)}
           g == [t \in SUBSET s |->
                   IF t = {} THEN 0 ELSE f[AnyOf(t)] + PartialSums(f, less(t))[less(t)]]
<1>4. ASSUME NEW t \in SUBSET s, t # {} PROVE g[less(t)] = PartialSums(f, less(t))[less(t)]
  <2>1. less(t) \in SUBSET s /\ less(t) # s
    BY <1>4, Picked
  <2>2. SumsUp(f, PartialSums(f, less(t)), less(t))
    BY <1>3, <2>1
  <2> DEFINE u == less(t)
  <2>3. CASE u = {}
    <3>1. g[u] = 0 /\ u \in SUBSET u
      BY <2>1, <2>3
    <3> HIDE DEF g, less
    <3>2. PartialSums(f, u)[u] = 0
      BY <2>2, <2>3, <3>1, SumsUpAt
    <3> QED BY <3>1, <3>2
  <2>4. CASE u # {}
    <3>1. less(u) \in SUBSET u /\ less(u) \in SUBSET s /\ less(u) # s /\ IsFiniteSet(less(u))
      BY <2>1, <2>4, Picked, FS_Subset
    <3>2. SumsUp(f, PartialSums(f, less(u)), less(u))
      BY <1>3, <3>1
    <3>3. PartialSums(f, less(u))[less(u)] = PartialSums(f, u)[less(u)]
      <4> HIDE DEF less, u
      <4> QED BY <2>2, <3>1, <3>2, SumsUpOnce DEF u
    <3>4. PartialSums(f, u)[u] = f[AnyOf(u)] + PartialSums(f, u)[less(u)]
      <4>1. u \in SUBSET u
        OBVIOUS
      <4>2. SumsUp(f, PartialSums(f, u), u) /\ u # {}
        BY <2>2, <2>4
      <4> HIDE DEF u
      <4>3. PartialSums(f, u)[u] = f[AnyOf(u)] + PartialSums(f, u)[u \ {AnyOf(u)}]
        BY <4>1, <4>2, SumsUpAt
      <4> QED BY <4>3
    <3>5. g[u] = f[AnyOf(u)] + PartialSums(f, less(u))[less(u)]
      BY <2>1, <2>4
    <3> QED BY <3>3, <3>4, <3>5
  <2> QED BY <2>3, <2>4
<1>5. g = [t \in SUBSET s |-> IF t = {} THEN 0 ELSE f[AnyOf(t)] + g[less(t)]]
  <2>1. \A t \in SUBSET s : (IF t = {} THEN 0 ELSE f[AnyOf(t)] + PartialSums(f, less(t))[less(t)])
                          = (IF t = {} THEN 0 ELSE f[AnyOf(t)] + g[less(t)])
    BY <1>4
  <2> DEFINE first(t)  == IF t = {} THEN 0 ELSE f[AnyOf(t)] + PartialSums(f, less(t))[less(t)]
             second(t) == IF t = {} THEN 0 ELSE f[AnyOf(t)] + g[less(t)]
  <2>2. \A t \in SUBSET s : first(t) = second(t)
    BY <2>1
  <2>3. g = [t \in SUBSET s |-> first(t)]
    OBVIOUS
  <2> HIDE DEF first, second, g
  <2>4. g = [t \in SUBSET s |-> second(t)]
    BY <2>2, <2>3
  <2> QED BY <2>4 DEF second
<1>6. SumsUp(f, g, s)
  BY <1>5 DEF SumsUp
<1>7. SumsUp(f, PartialSums(f, s), s)
  <2> HIDE DEF g
  <2> QED BY <1>6 DEF PartialSums
<1> QED BY <1>7

\* The sum over nothing.
LEMMA SumEmpty == ASSUME NEW f PROVE SumOf(f, {}) = 0
<1>1. IsFiniteSet({})
  BY FS_EmptySet
<1>2. PartialSums(f, {})[{}] = 0
  BY <1>1, PartialSumsExist, SumsUpAt
<1> QED BY <1>2, SumIsPartialSum

\* The sum over a set, less the element the fold takes first.
LEMMA SumPicked ==
  ASSUME NEW f, NEW S, IsFiniteSet(S), S # {}
  PROVE  /\ AnyOf(S) \in S
         /\ SumOf(f, S) = f[AnyOf(S)] + SumOf(f, S \ {AnyOf(S)})
<1> DEFINE x == AnyOf(S)
           T == S \ {x}
<1>1. x \in S /\ T \subseteq S /\ IsFiniteSet(T)
  BY Picked, FS_Subset
<1>2. SumsUp(f, PartialSums(f, S), S) /\ SumsUp(f, PartialSums(f, T), T)
  BY <1>1, PartialSumsExist
<1>3. PartialSums(f, S)[S] = f[x] + PartialSums(f, S)[T]
  BY <1>2, SumsUpAt
<1>4. PartialSums(f, T)[T] = PartialSums(f, S)[T]
  <2> HIDE DEF T
  <2> QED BY <1>1, <1>2, SumsUpOnce
<1> QED BY <1>1, <1>3, <1>4, SumIsPartialSum

\* A sum of integers is one.
LEMMA SumInt ==
  ASSUME NEW f, NEW S, IsFiniteSet(S), \A x \in S : f[x] \in Int
  PROVE  SumOf(f, S) \in Int
<1> DEFINE B == {s \in SUBSET S : SumOf(f, s) \notin Int}
<1>1. SUFFICES ASSUME B # {} PROVE FALSE
  OBVIOUS
<1>2. PICK s \in B : \A t \in SUBSET s : t # s => t \notin B
  <2>1. B \subseteq SUBSET S
    OBVIOUS
  <2> HIDE DEF B
  <2> QED BY <1>1, <2>1, SmallestSubset
<1>3. s \in SUBSET S /\ IsFiniteSet(s) /\ SumOf(f, s) \notin Int
  BY FS_Subset
<1>4. s # {}
  BY <1>3, SumEmpty
<1>5. AnyOf(s) \in s /\ SumOf(f, s) = f[AnyOf(s)] + SumOf(f, s \ {AnyOf(s)})
  BY <1>3, <1>4, SumPicked
<1>6. SumOf(f, s \ {AnyOf(s)}) \in Int
  BY <1>2, <1>3, <1>5
<1>7. f[AnyOf(s)] \in Int
  BY <1>3, <1>5
<1> QED BY <1>3, <1>5, <1>6, <1>7

\* Any element can be taken out first.
LEMMA SumTakeOut ==
  ASSUME NEW f, NEW S, IsFiniteSet(S), \A x \in S : f[x] \in Int, NEW a \in S
  PROVE  SumOf(f, S) = f[a] + SumOf(f, S \ {a})
<1> DEFINE B == {s \in SUBSET S : \E x \in s : SumOf(f, s) # f[x] + SumOf(f, s \ {x})}
<1>1. SUFFICES ASSUME B # {} PROVE FALSE
  OBVIOUS
<1>2. PICK s \in B : \A t \in SUBSET s : t # s => t \notin B
  <2>1. B \subseteq SUBSET S
    OBVIOUS
  <2> HIDE DEF B
  <2> QED BY <1>1, <2>1, SmallestSubset
<1>3. PICK x \in s : SumOf(f, s) # f[x] + SumOf(f, s \ {x})
  OBVIOUS
<1>4. s \in SUBSET S /\ IsFiniteSet(s) /\ s # {}
  BY FS_Subset
<1> DEFINE c == AnyOf(s)
<1>5. c \in s /\ SumOf(f, s) = f[c] + SumOf(f, s \ {c})
  BY <1>4, SumPicked
<1>6. c # x
  BY <1>3, <1>5
<1>7. SumOf(f, s \ {c}) = f[x] + SumOf(f, (s \ {c}) \ {x})
  <2>1. s \ {c} \in SUBSET s /\ s \ {c} # s /\ x \in s \ {c} /\ s \ {c} \in SUBSET S
    BY <1>4, <1>5, <1>6
  <2> QED BY <1>2, <2>1
<1>8. SumOf(f, s \ {x}) = f[c] + SumOf(f, (s \ {x}) \ {c})
  <2>1. s \ {x} \in SUBSET s /\ s \ {x} # s /\ c \in s \ {x} /\ s \ {x} \in SUBSET S
    BY <1>4, <1>5, <1>6
  <2> QED BY <1>2, <2>1
<1>9. (s \ {c}) \ {x} = (s \ {x}) \ {c}
  OBVIOUS
<1>10. f[x] \in Int /\ f[c] \in Int
  BY <1>4, <1>5
<1>11. SumOf(f, (s \ {x}) \ {c}) \in Int
  <2>1. IsFiniteSet((s \ {x}) \ {c})
    BY <1>4, FS_Subset
  <2>2. \A y \in (s \ {x}) \ {c} : f[y] \in Int
    BY <1>4
  <2> QED BY <2>1, <2>2, SumInt
<1> DEFINE u == (s \ {c}) \ {x}
           v == (s \ {x}) \ {c}
<1>12. SumOf(f, u) = SumOf(f, v)
  <2>1. u = v
    OBVIOUS
  <2> HIDE DEF u, v
  <2> QED BY <2>1
<1> HIDE DEF c, B, u, v
<1> QED BY <1>3, <1>5, <1>7, <1>8, <1>10, <1>11, <1>12 DEF u, v

\* What a new element adds.
LEMMA SumAdd ==
  ASSUME NEW f, NEW S, IsFiniteSet(S), NEW a, a \notin S, \A x \in S \cup {a} : f[x] \in Int
  PROVE  SumOf(f, S \cup {a}) = SumOf(f, S) + f[a]
<1> DEFINE T == S \cup {a}
<1>1. IsFiniteSet(T) /\ a \in T /\ T \ {a} = S
  BY FS_AddElement
<1>2. SumOf(f, T) = f[a] + SumOf(f, T \ {a})
  <2> HIDE DEF T
  <2>1. \A x \in T : f[x] \in Int
    BY DEF T
  <2> QED BY <1>1, <2>1, SumTakeOut
<1>3. SumOf(f, S) \in Int /\ f[a] \in Int
  BY SumInt
<1> DEFINE R == T \ {a}
<1>4. R = S
  BY <1>1
<1> HIDE DEF R
<1>5. SumOf(f, R) = SumOf(f, S)
  BY <1>4
<1> QED BY <1>2, <1>3, <1>5 DEF R

\* Only the values on the set count.
LEMMA SumSame ==
  ASSUME NEW f, NEW g, NEW S, IsFiniteSet(S), \A x \in S : f[x] = g[x]
  PROVE  SumOf(f, S) = SumOf(g, S)
<1> DEFINE B == {s \in SUBSET S : SumOf(f, s) # SumOf(g, s)}
<1>1. SUFFICES ASSUME B # {} PROVE FALSE
  OBVIOUS
<1>2. PICK s \in B : \A t \in SUBSET s : t # s => t \notin B
  <2>1. B \subseteq SUBSET S
    OBVIOUS
  <2> HIDE DEF B
  <2> QED BY <1>1, <2>1, SmallestSubset
<1>3. s \in SUBSET S /\ IsFiniteSet(s) /\ SumOf(f, s) # SumOf(g, s)
  BY FS_Subset
<1>4. s # {}
  BY <1>3, SumEmpty
<1>5. /\ AnyOf(s) \in s /\ SumOf(f, s) = f[AnyOf(s)] + SumOf(f, s \ {AnyOf(s)})
      /\ SumOf(g, s) = g[AnyOf(s)] + SumOf(g, s \ {AnyOf(s)})
  BY <1>3, <1>4, SumPicked
<1>6. SumOf(f, s \ {AnyOf(s)}) = SumOf(g, s \ {AnyOf(s)})
  BY <1>2, <1>3, <1>5
<1>7. f[AnyOf(s)] = g[AnyOf(s)]
  BY <1>3, <1>5
<1> QED BY <1>3, <1>5, <1>6, <1>7

\* One element more, counted by a function of its own.
LEMMA SumGrows ==
  ASSUME NEW g, NEW S, IsFiniteSet(S), NEW a, a \notin S, NEW f,
         \A x \in S : f[x] = g[x] /\ g[x] \in Int, f[a] \in Int
  PROVE  SumOf(f, S \cup {a}) = SumOf(g, S) + f[a]
<1>1. \A x \in S \cup {a} : f[x] \in Int
  OBVIOUS
<1>2. SumOf(f, S \cup {a}) = SumOf(f, S) + f[a]
  BY <1>1, SumAdd
<1>3. SumOf(f, S) = SumOf(g, S)
  BY SumSame
<1> QED BY <1>2, <1>3

\* The sum over one element.
LEMMA SumOne ==
  ASSUME NEW f, NEW a, f[a] \in Int
  PROVE  SumOf(f, {a}) = f[a]
<1>1. IsFiniteSet({}) /\ SumOf(f, {}) = 0
  BY FS_EmptySet, SumEmpty
<1>2. a \in {a} /\ {a} \ {a} = {} /\ \A x \in {a} : f[x] \in Int
  OBVIOUS
<1>3. IsFiniteSet({a})
  BY FS_Singleton
<1>4. SumOf(f, {a}) = f[a] + SumOf(f, {a} \ {a})
  BY <1>2, <1>3, SumTakeOut
<1>5. SumOf(f, {a} \ {a}) = SumOf(f, {})
  BY <1>2, Zenon
<1> QED BY <1>1, <1>4, <1>5

\* Sums over a set and a part of it that is set apart.
LEMMA SumSplit ==
  ASSUME NEW f, NEW S, IsFiniteSet(S), NEW T, IsFiniteSet(T), S \cap T = {},
         \A x \in S \cup T : f[x] \in Int
  PROVE  SumOf(f, S \cup T) = SumOf(f, S) + SumOf(f, T)
<1> DEFINE B == {t \in SUBSET T : SumOf(f, S \cup t) # SumOf(f, S) + SumOf(f, t)}
<1>1. SUFFICES ASSUME B # {} PROVE FALSE
  OBVIOUS
<1>2. PICK t \in B : \A u \in SUBSET t : u # t => u \notin B
  <2>1. B \subseteq SUBSET T
    OBVIOUS
  <2> HIDE DEF B
  <2> QED BY <1>1, <2>1, SmallestSubset
<1>3. t \in SUBSET T /\ IsFiniteSet(t) /\ SumOf(f, S \cup t) # SumOf(f, S) + SumOf(f, t)
  BY FS_Subset
<1>4. SumOf(f, S) \in Int
  BY SumInt
<1>5. t # {}
  <2> SUFFICES ASSUME t = {} PROVE SumOf(f, S \cup t) = SumOf(f, S) + SumOf(f, t)
    BY <1>3
  <2>1. SumOf(f, t) = 0
    BY SumEmpty
  <2> DEFINE all == S \cup t
  <2>2. all = S
    OBVIOUS
  <2> HIDE DEF all
  <2>3. SumOf(f, all) = SumOf(f, S)
    BY <2>2
  <2> QED BY <1>4, <2>1, <2>3 DEF all
<1>6. PICK a \in t : TRUE
  BY <1>5
<1> DEFINE u == t \ {a}
           all == S \cup t
           part == S \cup u
<1>7. /\ u \in SUBSET t /\ u # t /\ u \in SUBSET T /\ IsFiniteSet(u)
      /\ all \ {a} = part /\ a \in all /\ IsFiniteSet(all)
  BY <1>3, FS_Subset, FS_Union
<1>8. /\ \A x \in all : f[x] \in Int
      /\ \A x \in t : f[x] \in Int
      /\ \A x \in u : f[x] \in Int
      /\ f[a] \in Int
  BY <1>3
<1>9. SumOf(f, part) = SumOf(f, S) + SumOf(f, u)
  BY <1>2, <1>7
<1>10. SumOf(f, t) = f[a] + SumOf(f, u)
  <2> HIDE DEF B
  <2> QED BY <1>3, <1>8, SumTakeOut
<1> HIDE DEF all, part, u, B
<1>11. SumOf(f, all) = f[a] + SumOf(f, all \ {a})
  BY <1>7, <1>8, SumTakeOut
<1>12. SumOf(f, u) \in Int
  BY <1>7, <1>8, SumInt
<1> DEFINE rest == all \ {a}
<1>13. rest = part
  BY <1>7
<1> HIDE DEF rest
<1>14. SumOf(f, rest) = SumOf(f, part)
  BY <1>13
<1> QED BY <1>3, <1>4, <1>8, <1>9, <1>10, <1>11, <1>12, <1>14 DEF all, rest

\* Lowering some terms lowers the sum.
LEMMA SumBelow ==
  ASSUME NEW f, NEW g, NEW S, IsFiniteSet(S),
         \A x \in S : f[x] \in Int /\ g[x] \in Int /\ f[x] <= g[x]
  PROVE  SumOf(f, S) <= SumOf(g, S)
<1> DEFINE B == {s \in SUBSET S : ~(SumOf(f, s) <= SumOf(g, s))}
<1>1. SUFFICES ASSUME B # {} PROVE FALSE
  OBVIOUS
<1>2. PICK s \in B : \A t \in SUBSET s : t # s => t \notin B
  <2>1. B \subseteq SUBSET S
    OBVIOUS
  <2> HIDE DEF B
  <2> QED BY <1>1, <2>1, SmallestSubset
<1>3. s \in SUBSET S /\ IsFiniteSet(s) /\ ~(SumOf(f, s) <= SumOf(g, s))
  BY FS_Subset
<1>4. s # {}
  BY <1>3, SumEmpty
<1> DEFINE a == AnyOf(s)
           r == s \ {a}
<1>5. a \in s /\ SumOf(f, s) = f[a] + SumOf(f, r) /\ SumOf(g, s) = g[a] + SumOf(g, r)
  BY <1>3, <1>4, SumPicked
<1>6. r \in SUBSET s /\ r # s /\ r \in SUBSET S /\ IsFiniteSet(r)
  BY <1>3, <1>5, FS_Subset
<1>7. SumOf(f, r) <= SumOf(g, r)
  BY <1>2, <1>6
<1>8. f[a] \in Int /\ g[a] \in Int /\ f[a] <= g[a]
  BY <1>3, <1>5
<1>9. SumOf(f, r) \in Int /\ SumOf(g, r) \in Int
  BY <1>6, SumInt
<1> HIDE DEF a, r, B
<1> QED BY <1>3, <1>5, <1>7, <1>8, <1>9
\* The values of a function on a finite set are finitely many.
LEMMA FiniteImage ==
  ASSUME NEW f, NEW S, IsFiniteSet(S)
  PROVE  IsFiniteSet({f[x] : x \in S})
<1> DEFINE T == {f[x] : x \in S}
           g == [x \in S |-> f[x]]
<1>1. g \in Surjection(S, T)
  BY DEF Surjection
<1> HIDE DEF g, T
<1>2. IsFiniteSet(T)
  BY <1>1, FS_Surjection
<1> QED BY <1>2 DEF T
-----------------------------------------------------------------------------
(* Maxima *)

\* Where a function is largest on a finite set.
LEMMA LargestAt ==
  ASSUME NEW f, NEW S, IsFiniteSet(S), S # {}, \A x \in S : f[x] \in Int
  PROVE  \E x \in S : \A y \in S : f[y] <= f[x]
<1> DEFINE B == {s \in SUBSET S : s # {} /\ ~\E x \in s : \A y \in s : f[y] <= f[x]}
<1>1. SUFFICES ASSUME B # {} PROVE FALSE
  OBVIOUS
<1>2. PICK s \in B : \A t \in SUBSET s : t # s => t \notin B
  <2>1. B \subseteq SUBSET S
    OBVIOUS
  <2> HIDE DEF B
  <2> QED BY <1>1, <2>1, SmallestSubset
<1>3. PICK a \in s : TRUE
  OBVIOUS
<1>4. CASE s \ {a} = {}
  <2>1. s = {a} /\ f[a] \in Int
    BY <1>4
  <2> QED BY <2>1
<1>5. CASE s \ {a} # {}
  <2>1. PICK x \in s \ {a} : \A y \in s \ {a} : f[y] <= f[x]
    BY <1>2, <1>5
  <2>2. f[a] \in Int /\ f[x] \in Int /\ \A y \in s : f[y] \in Int
    OBVIOUS
  <2>3. CASE f[a] <= f[x]
    BY <2>1, <2>2, <2>3
  <2>4. CASE f[x] < f[a]
    BY <2>1, <2>2, <2>4
  <2> QED BY <2>2, <2>3, <2>4
<1> QED BY <1>4, <1>5

\* Max of a finite set of integers.
LEMMA MaxOf ==
  ASSUME NEW S, IsFiniteSet(S), S # {}, S \subseteq Int
  PROVE  Max(S) \in S /\ \A x \in S : x <= Max(S)
<1> DEFINE f == [x \in S |-> x]
<1>1. PICK x \in S : \A y \in S : f[y] <= f[x]
  <2>1. \A y \in S : f[y] \in Int
    OBVIOUS
  <2> HIDE DEF f
  <2> QED BY <2>1, LargestAt
<1>2. \A y \in S : x >= y
  BY <1>1
<1>3. Max(S) \in S /\ \A y \in S : Max(S) >= y
  BY <1>2 DEF Max
<1> QED BY <1>3

\* The sum of equal terms.
LEMMA SumEqual ==
  ASSUME NEW f, NEW S, IsFiniteSet(S), NEW k \in Int, \A x \in S : f[x] = k
  PROVE  SumOf(f, S) = k * Cardinality(S)
<1> DEFINE B == {s \in SUBSET S : SumOf(f, s) # k * Cardinality(s)}
<1>1. SUFFICES ASSUME B # {} PROVE FALSE
  OBVIOUS
<1>2. PICK s \in B : \A t \in SUBSET s : t # s => t \notin B
  <2>1. B \subseteq SUBSET S
    OBVIOUS
  <2> HIDE DEF B
  <2> QED BY <1>1, <2>1, SmallestSubset
<1>3. s \in SUBSET S /\ IsFiniteSet(s) /\ SumOf(f, s) # k * Cardinality(s)
  BY FS_Subset
<1>4. s # {}
  <2> SUFFICES ASSUME s = {} PROVE FALSE
    OBVIOUS
  <2>1. Cardinality(s) = 0 /\ SumOf(f, s) = 0
    BY FS_EmptySet, SumEmpty
  <2> QED BY <1>3, <2>1
<1>5. PICK a \in s : TRUE
  BY <1>4
<1> DEFINE rest == s \ {a}
<1>6. rest \in SUBSET s /\ rest # s /\ rest \in SUBSET S /\ f[a] = k /\ \A x \in s : f[x] \in Int
  BY <1>3
<1>7. SumOf(f, rest) = k * Cardinality(rest)
  BY <1>2, <1>6
<1>8. Cardinality(rest) = Cardinality(s) - 1 /\ Cardinality(s) \in Nat
  BY <1>3, FS_RemoveElement, FS_CardinalityType
<1>9. SumOf(f, s) = f[a] + SumOf(f, rest)
  <2> HIDE DEF B
  <2> QED BY <1>3, <1>6, SumTakeOut
<1> DEFINE n == Cardinality(s)
<1>10. SumOf(f, s) = k + k * (n - 1) /\ n \in Int
  BY <1>6, <1>7, <1>8, <1>9
<1> HIDE DEF n, rest, B
<1>11. k + k * (n - 1) = k * n
  BY <1>10
<1> QED BY <1>3, <1>10, <1>11 DEF n

\* The sum of terms that are equal on a part and nothing elsewhere.
LEMMA SumOfPart ==
  ASSUME NEW f, NEW S, IsFiniteSet(S), NEW T \in SUBSET S, NEW k \in Int,
         \A x \in S : f[x] = IF x \in T THEN k ELSE 0
  PROVE  SumOf(f, S) = k * Cardinality(T)
<1> DEFINE rest == S \ T
           all == rest \cup T
<1>1. /\ IsFiniteSet(rest) /\ IsFiniteSet(T) /\ rest \cap T = {} /\ all = S
      /\ \A x \in T : f[x] = k
      /\ \A x \in rest : f[x] = 0
      /\ \A x \in all : f[x] \in Int
  BY FS_Subset
<1> HIDE DEF rest
<1>2. SumOf(f, rest \cup T) = SumOf(f, rest) + SumOf(f, T)
  BY <1>1, SumSplit
<1>3. SumOf(f, rest) = 0 * Cardinality(rest) /\ Cardinality(rest) \in Nat
  BY <1>1, SumEqual, FS_CardinalityType
<1>4. SumOf(f, T) = k * Cardinality(T) /\ Cardinality(T) \in Nat
  BY <1>1, SumEqual, FS_CardinalityType
<1>5. 0 * Cardinality(rest) = 0
  BY <1>3
<1>6. k * Cardinality(T) \in Int
  BY <1>4
<1>7. SumOf(f, all) = SumOf(f, S)
  <2> HIDE DEF all
  <2> QED BY <1>1
<1> QED BY <1>2, <1>3, <1>4, <1>5, <1>6, <1>7

\* Induction up to a bound, with the numbers that have the property as a set.
LEMMA UpTo ==
  ASSUME NEW n \in Nat, NEW G, 0 \in G, \A k \in 1..n : k - 1 \in G => k \in G
  PROVE  \A k \in 0..n : k \in G
<1> DEFINE B == (0..n) \ G
           f == [k \in B |-> -k]
<1>1. SUFFICES ASSUME B # {} PROVE FALSE
  OBVIOUS
<1>2. IsFiniteSet(B)
  <2>1. IsFiniteSet(0..n) /\ B \subseteq 0..n
    BY FS_Interval
  <2> HIDE DEF B
  <2> QED BY <2>1, FS_Subset
<1>3. PICK k \in B : \A j \in B : f[j] <= f[k]
  <2>1. \A j \in B : f[j] \in Int
    OBVIOUS
  <2> HIDE DEF B, f
  <2> QED BY <1>1, <1>2, <2>1, LargestAt
<1>4. k \in 1..n /\ k - 1 \in 0..n
  OBVIOUS
<1>5. k - 1 \in B
  BY <1>4
<1>6. f[k - 1] <= f[k]
  BY <1>3, <1>5
<1> QED BY <1>4, <1>5, <1>6
=============================================================================
