---------------------------- MODULE TelemetryProofs ----------------------------
(***************************************************************************)
(* Proofs about what is counted, told and traced while it runs: the        *)
(* garbage collector's pauses (RuntimeMetrics), the calls of the AI        *)
(* package (AiTelemetry) and the spans of method calls (MethodSpans).  The *)
(* first two fold sequences and sets, so the facts about folds they rest   *)
(* on come first.                                                          *)
(***************************************************************************)
EXTENDS RuntimeMetrics, AiTelemetry, MethodSpans, SequencesExt, FiniteSetsExt, Integers, TLAPS,
        FiniteSetTheorems, SequenceTheorems, WellFoundedInduction

-----------------------------------------------------------------------------
(* A set of subsets of a finite set has a smallest one: what the proofs    *)
(* below use for induction.                                                *)
LEMMA Smallest ==
    ASSUME NEW S, IsFiniteSet(S), NEW T \in SUBSET (SUBSET S), T # {}
    PROVE  \E x \in T : \A y \in T : y \subseteq x => y = x
<1>1. FiniteSubsetsOf(S) = SUBSET S
  BY FS_FiniteSubsetsOfFinite
<1>2. IsWellFoundedOn(StrictSubsetOrdering(S), SUBSET S)
  BY <1>1, FS_StrictSubsetOrderingWellFounded
<1>3. \E x \in T : \A y \in T : ~(<<y, x>> \in StrictSubsetOrdering(S))
  BY <1>2, WFMin
<1> QED  BY <1>3 DEF StrictSubsetOrdering

(* g folds the subsets of D: from b, over the elements c picks, with op.   *)
Picks(c, D) == \A s \in SUBSET D : s # {} => c[s] \in s
FoldStep(s, g, b, c, op) == IF s = {} THEN b ELSE op[<<c[s], g[s \ {c[s]}]>>]
FoldsOver(g, D, b, c, op) == g = [s \in SUBSET D |-> FoldStep(s, g, b, c, op)]

LEMMA FoldUnique ==
    ASSUME NEW D, IsFiniteSet(D), NEW b, NEW c, Picks(c, D), NEW op,
           NEW A \in SUBSET D, NEW B \in SUBSET D,
           NEW g, FoldsOver(g, A, b, c, op), NEW h, FoldsOver(h, B, b, c, op),
           NEW s \in SUBSET (A \cap B)
    PROVE  g[s] = h[s]
<1> DEFINE T == {t \in SUBSET (A \cap B) : g[t] # h[t]}
<1> SUFFICES ASSUME T # {} PROVE FALSE
  OBVIOUS
<1>1. T \in SUBSET (SUBSET D)
  OBVIOUS
<1>2. PICK x \in T : \A y \in T : y \subseteq x => y = x
  <2> HIDE DEF T
  <2> QED  BY <1>1, Smallest
<1>3. x \in SUBSET (A \cap B) /\ g[x] # h[x]
  OBVIOUS
<1>4. g[x] = FoldStep(x, g, b, c, op) /\ h[x] = FoldStep(x, h, b, c, op)
  BY <1>3 DEF FoldsOver
<1>5. x # {}
  BY <1>3, <1>4 DEF FoldStep
<1>6. c[x] \in x
  BY <1>3, <1>5 DEF Picks
<1>7. g[x \ {c[x]}] = h[x \ {c[x]}]
  BY <1>2, <1>3, <1>6
<1> QED  BY <1>3, <1>4, <1>7 DEF FoldStep

LEMMA FoldExists ==
    ASSUME NEW D, IsFiniteSet(D), NEW V, NEW b \in V, NEW c, Picks(c, D), NEW op \in [D \X V -> V]
    PROVE  \E g \in [SUBSET D -> V] : FoldsOver(g, D, b, c, op)
<1> DEFINE Has(A) == \E g \in [SUBSET A -> V] : FoldsOver(g, A, b, c, op)
           T == {A \in SUBSET D : ~Has(A)}
<1> SUFFICES ASSUME T # {} PROVE FALSE
  OBVIOUS
<1>1. PICK A \in T : \A y \in T : y \subseteq A => y = A
  <2>1. T \in SUBSET (SUBSET D)
    OBVIOUS
  <2> HIDE DEF T
  <2> QED  BY <2>1, Smallest
<1>2. A \in SUBSET D /\ ~Has(A)
  OBVIOUS
<1>3. \A t \in SUBSET A : t # A => Has(t)
  BY <1>1, <1>2
<1> DEFINE sol(t) == CHOOSE g \in [SUBSET t -> V] : FoldsOver(g, t, b, c, op)
           rest(s) == s \ {c[s]}
           G == [s \in SUBSET A |-> IF s = {} THEN b ELSE op[<<c[s], sol(rest(s))[rest(s)]>>]]
<1>4. ASSUME NEW t \in SUBSET A, t # A
      PROVE  sol(t) \in [SUBSET t -> V] /\ FoldsOver(sol(t), t, b, c, op)
  BY <1>3, <1>4
<1>5. ASSUME NEW s \in SUBSET A, s # {}
      PROVE  c[s] \in s /\ c[s] \in D /\ rest(s) \in SUBSET A /\ rest(s) # A
  BY <1>2, <1>5 DEF Picks
<1> HIDE DEF sol
<1>6. G \in [SUBSET A -> V]
  <2> SUFFICES ASSUME NEW s \in SUBSET A, s # {} PROVE op[<<c[s], sol(rest(s))[rest(s)]>>] \in V
    OBVIOUS
  <2> PICK r : r = rest(s)
    OBVIOUS
  <2>1. r \in SUBSET A /\ r # A /\ c[s] \in D
    BY <1>5
  <2>2. sol(r) \in [SUBSET r -> V]
    BY <1>4, <2>1
  <2>3. sol(r)[r] \in V
    BY <2>2
  <2>4. <<c[s], sol(r)[r]>> \in D \X V
    BY <2>1, <2>3
  <2> QED  BY <2>4
<1>7. ASSUME NEW t \in SUBSET A, t # A PROVE G[t] = sol(t)[t]
  <2>1. sol(t)[t] = FoldStep(t, sol(t), b, c, op)
    <3>1. FoldsOver(sol(t), t, b, c, op)
      BY <1>4, <1>7
    <3> PICK g : g = sol(t)
      OBVIOUS
    <3>2. g = [s \in SUBSET t |-> FoldStep(s, g, b, c, op)]
      BY <3>1 DEF FoldsOver
    <3>3. g[t] = FoldStep(t, g, b, c, op)
      BY <3>2
    <3> QED  BY <3>3
  <2>2. CASE t = {}
    BY <2>1, <2>2 DEF FoldStep
  <2>3. CASE t # {}
    <3>1. rest(t) \in SUBSET A /\ rest(t) # A /\ rest(t) \in SUBSET (t \cap rest(t))
      BY <1>5, <2>3
    <3>2. /\ FoldsOver(sol(t), t, b, c, op) /\ FoldsOver(sol(rest(t)), rest(t), b, c, op)
      BY <1>4, <1>7, <3>1
    <3>3. t \in SUBSET D /\ rest(t) \in SUBSET D
      BY <1>2, <3>1
    <3>4. sol(t)[rest(t)] = sol(rest(t))[rest(t)]
      <4> HIDE DEF rest
      <4> QED  BY <3>1, <3>2, <3>3, FoldUnique
    <3>5. sol(t)[t] = op[<<c[t], sol(t)[rest(t)]>>]
      BY <2>1, <2>3 DEF FoldStep
    <3>6. G[t] = op[<<c[t], sol(rest(t))[rest(t)]>>]
      BY <2>3
    <3> QED  BY <3>4, <3>5, <3>6
  <2> QED  BY <2>2, <2>3
<1>8. FoldsOver(G, A, b, c, op)
  <2>1. ASSUME NEW s \in SUBSET A PROVE G[s] = FoldStep(s, G, b, c, op)
    <3>1. CASE s = {}
      BY <3>1 DEF FoldStep
    <3>2. CASE s # {}
      <4>1. G[rest(s)] = sol(rest(s))[rest(s)]
        BY <1>5, <1>7, <3>2
      <4>2. G[s] = op[<<c[s], sol(rest(s))[rest(s)]>>]
        BY <3>2
      <4> HIDE DEF G
      <4> QED  BY <3>2, <4>1, <4>2 DEF FoldStep
    <3> QED  BY <3>1, <3>2
  <2>2. G = [s \in SUBSET A |-> G[s]]
    OBVIOUS
  <2> HIDE DEF G
  <2>3. [s \in SUBSET A |-> G[s]] = [s \in SUBSET A |-> FoldStep(s, G, b, c, op)]
    BY <2>1
  <2> QED  BY <2>2, <2>3 DEF FoldsOver
<1> QED  BY <1>2, <1>6, <1>8

-----------------------------------------------------------------------------
(* Sums.                                                                   *)

(* g sums f over the subsets of S.                                         *)
Pick(s) == CHOOSE x \in s : TRUE
SumsOver(g, f, S) ==
    g = [s \in SUBSET S |-> IF s = {} THEN 0 ELSE f[Pick(s)] + g[s \ {Pick(s)}]]
Total(f, S) == (CHOOSE g : SumsOver(g, f, S))[S]

LEMMA SumStep ==
    ASSUME NEW S, NEW f, NEW g, SumsOver(g, f, S), NEW s \in SUBSET S
    PROVE  /\ s = {} => g[s] = 0
           /\ s # {} => Pick(s) \in s /\ g[s] = f[Pick(s)] + g[s \ {Pick(s)}]
<1>1. g[s] = IF s = {} THEN 0 ELSE f[Pick(s)] + g[s \ {Pick(s)}]
  BY DEF SumsOver
<1>2. s # {} => Pick(s) \in s
  BY DEF Pick
<1> QED  BY <1>1, <1>2

LEMMA SumsAgree ==
    ASSUME NEW D, IsFiniteSet(D), NEW A \in SUBSET D, NEW B \in SUBSET D, NEW f, NEW h,
           NEW g, SumsOver(g, f, A), NEW k, SumsOver(k, h, B),
           NEW s \in SUBSET (A \cap B), \A x \in s : f[x] = h[x]
    PROVE  g[s] = k[s]
<1> DEFINE T == {t \in SUBSET s : g[t] # k[t]}
<1> SUFFICES ASSUME T # {} PROVE FALSE
  OBVIOUS
<1>1. PICK t \in T : \A y \in T : y \subseteq t => y = t
  <2>1. T \in SUBSET (SUBSET D)
    OBVIOUS
  <2> HIDE DEF T
  <2> QED  BY <2>1, Smallest
<1>2. t \in SUBSET s /\ g[t] # k[t] /\ t \in SUBSET A /\ t \in SUBSET B
  OBVIOUS
<1>3. t # {}
  BY <1>2, SumStep
<1>4. /\ Pick(t) \in t /\ g[t] = f[Pick(t)] + g[t \ {Pick(t)}] /\ k[t] = h[Pick(t)] + k[t \ {Pick(t)}]
  BY <1>2, <1>3, SumStep
<1>5. g[t \ {Pick(t)}] = k[t \ {Pick(t)}]
  BY <1>1, <1>2, <1>4
<1> QED  BY <1>2, <1>4, <1>5

LEMMA SumExists ==
    ASSUME NEW S, IsFiniteSet(S), NEW f, \A x \in S : f[x] \in Nat
    PROVE  \E g \in [SUBSET S -> Nat] : SumsOver(g, f, S)
<1> DEFINE c == [s \in SUBSET S |-> Pick(s)]
           op == [p \in S \X Nat |-> f[p[1]] + p[2]]
<1>1. op \in [S \X Nat -> Nat]
  OBVIOUS
<1>2. Picks(c, S)
  BY DEF Picks, Pick
<1>3. PICK g \in [SUBSET S -> Nat] : FoldsOver(g, S, 0, c, op)
  <2> HIDE DEF c, op
  <2> QED  BY <1>1, <1>2, FoldExists
<1>4. ASSUME NEW s \in SUBSET S
      PROVE  FoldStep(s, g, 0, c, op) = IF s = {} THEN 0 ELSE f[Pick(s)] + g[s \ {Pick(s)}]
  <2>1. CASE s = {}
    BY <2>1 DEF FoldStep
  <2>2. CASE s # {}
    <3>1. c[s] = Pick(s) /\ Pick(s) \in S /\ s \ {Pick(s)} \in SUBSET S
      BY <2>2 DEF Pick
    <3> PICK x, r : x = Pick(s) /\ r = g[s \ {Pick(s)}]
      OBVIOUS
    <3>2. r \in Nat /\ x \in S
      BY <3>1
    <3>3. op[<<x, r>>] = f[x] + r
      BY <3>2
    <3> QED  BY <2>2, <3>1, <3>3 DEF FoldStep
  <2> QED  BY <2>1, <2>2
<1>5. SumsOver(g, f, S)
  <2> HIDE DEF c, op
  <2> QED  BY <1>3, <1>4 DEF FoldsOver, SumsOver
<1> QED  BY <1>5

LEMMA TotalSums ==
    ASSUME NEW S, IsFiniteSet(S), NEW f, \A x \in S : f[x] \in Nat
    PROVE  \E g \in [SUBSET S -> Nat] : SumsOver(g, f, S) /\ \A s \in SUBSET S : g[s] = Total(f, s)
<1>1. PICK g \in [SUBSET S -> Nat] : SumsOver(g, f, S)
  BY SumExists
<1>2. ASSUME NEW s \in SUBSET S PROVE g[s] = Total(f, s)
  <2>1. IsFiniteSet(s)
    BY FS_Subset
  <2>2. \E h : SumsOver(h, f, s)
    BY <2>1, SumExists
  <2> PICK h : h = CHOOSE k : SumsOver(k, f, s)
    OBVIOUS
  <2>3. SumsOver(h, f, s) /\ Total(f, s) = h[s]
    BY <2>2 DEF Total
  <2>4. s \in SUBSET (S \cap s)
    OBVIOUS
  <2> QED  BY <1>1, <2>3, <2>4, SumsAgree
<1> QED  BY <1>1, <1>2

LEMMA TotalFacts ==
    ASSUME NEW S, IsFiniteSet(S), NEW f, \A x \in S : f[x] \in Nat
    PROVE  /\ Total(f, S) \in Nat /\ Total(f, {}) = 0
           /\ \A x \in S : Total(f, S) = f[x] + Total(f, S \ {x})
<1>1. PICK g \in [SUBSET S -> Nat] : SumsOver(g, f, S) /\ \A s \in SUBSET S : g[s] = Total(f, s)
  BY TotalSums
<1>2. Total(f, S) \in Nat /\ Total(f, {}) = 0
  <2>1. g[S] \in Nat /\ g[S] = Total(f, S) /\ g[{}] = Total(f, {})
    BY <1>1
  <2>2. g[{}] = 0
    <3> PICK s : s = {}
      OBVIOUS
    <3>1. s \in SUBSET S
      OBVIOUS
    <3>2. s = {} => g[s] = 0
      BY <1>1, <3>1, SumStep
    <3> QED  BY <3>2
  <2> QED  BY <2>1, <2>2
<1> DEFINE T == {t \in SUBSET S : \E x \in t : g[t] # f[x] + g[t \ {x}]}
<1>3. T = {}
  <2> SUFFICES ASSUME T # {} PROVE FALSE
    OBVIOUS
  <2>1. PICK t \in T : \A y \in T : y \subseteq t => y = t
    <3>1. T \in SUBSET (SUBSET S)
      OBVIOUS
    <3> HIDE DEF T
    <3> QED  BY <3>1, Smallest
  <2>2. PICK x \in t : g[t] # f[x] + g[t \ {x}]
    OBVIOUS
  <2> PICK y : y = Pick(t)
    OBVIOUS
  <2>3. y \in t /\ g[t] = f[y] + g[t \ {y}]
    BY <1>1, <2>2, SumStep
  <2>4. x # y
    BY <2>2, <2>3
  <2>5. t \ {x} \in SUBSET S /\ t \ {x} # t /\ t \ {y} \in SUBSET S /\ t \ {y} # t
    BY <2>3
  <2>6. t \ {x} \notin T /\ t \ {y} \notin T
    <3> HIDE DEF T
    <3> QED  BY <2>1, <2>5
  <2>7. g[t \ {x}] = f[y] + g[(t \ {x}) \ {y}]
    BY <2>3, <2>4, <2>5, <2>6
  <2>8. g[t \ {y}] = f[x] + g[(t \ {y}) \ {x}]
    BY <2>3, <2>4, <2>5, <2>6
  <2> PICK u : u = (t \ {x}) \ {y}
    OBVIOUS
  <2>9. u = (t \ {y}) \ {x} /\ u \in SUBSET S
    OBVIOUS
  <2>10. g[u] \in Nat /\ f[x] \in Nat /\ f[y] \in Nat
    BY <2>3, <2>9
  <2>11. g[t \ {x}] = f[y] + g[u] /\ g[t \ {y}] = f[x] + g[u]
    BY <2>7, <2>8, <2>9
  <2>12. f[y] + (f[x] + g[u]) = f[x] + (f[y] + g[u])
    BY <2>10
  <2> QED  BY <2>2, <2>3, <2>11, <2>12
<1>4. ASSUME NEW x \in S PROVE Total(f, S) = f[x] + Total(f, S \ {x})
  <2>1. g[S] = f[x] + g[S \ {x}]
    BY <1>3
  <2> QED  BY <1>1, <2>1
<1> QED  BY <1>2, <1>4

(* Sums of one set of numbers, whatever holds them.                        *)
LEMMA TotalsAgree ==
    ASSUME NEW S, IsFiniteSet(S), NEW f, NEW h, \A x \in S : f[x] \in Nat /\ f[x] = h[x]
    PROVE  Total(f, S) = Total(h, S)
<1>1. \E g : SumsOver(g, f, S)
  BY SumExists
<1>2. \E g : SumsOver(g, h, S)
  <2>1. \A x \in S : h[x] \in Nat
    OBVIOUS
  <2> QED  BY <2>1, SumExists
<1> PICK g, k : g = (CHOOSE j : SumsOver(j, f, S)) /\ k = (CHOOSE j : SumsOver(j, h, S))
  OBVIOUS
<1>3. SumsOver(g, f, S) /\ SumsOver(k, h, S) /\ Total(f, S) = g[S] /\ Total(h, S) = k[S]
  BY <1>1, <1>2 DEF Total
<1>4. S \in SUBSET (S \cap S)
  OBVIOUS
<1> QED  BY <1>3, <1>4, SumsAgree

LEMMA TotalOfMore ==
    ASSUME NEW S, IsFiniteSet(S), NEW f, \A x \in S : f[x] \in Nat, NEW x, x \notin S,
           NEW h, h[x] \in Nat, \A y \in S : h[y] = f[y]
    PROVE  Total(h, S \cup {x}) = h[x] + Total(f, S)
<1>1. IsFiniteSet(S \cup {x}) /\ (S \cup {x}) \ {x} = S /\ \A y \in S \cup {x} : h[y] \in Nat
  BY FS_AddElement
<1>2. Total(h, S \cup {x}) = h[x] + Total(h, (S \cup {x}) \ {x})
  BY <1>1, TotalFacts
<1>3. Total(h, S) = Total(f, S)
  BY TotalsAgree
<1> QED  BY <1>1, <1>2, <1>3

LEMMA TotalOfSame ==
    ASSUME NEW S, IsFiniteSet(S), NEW f, NEW n \in {0, 1}, \A x \in S : f[x] = n
    PROVE  Total(f, S) = n * Cardinality(S)
<1>0. \A x \in S : f[x] \in Nat
  OBVIOUS
<1> DEFINE T == {t \in SUBSET S : Total(f, t) # n * Cardinality(t)}
<1> SUFFICES ASSUME T # {} PROVE FALSE
  OBVIOUS
<1>1. PICK t \in T : \A y \in T : y \subseteq t => y = t
  <2>1. T \in SUBSET (SUBSET S)
    OBVIOUS
  <2> HIDE DEF T
  <2> QED  BY <2>1, Smallest
<1>2. IsFiniteSet(t) /\ t \in SUBSET S
  BY FS_Subset
<1>3. CASE t = {}
  <2>1. Total(f, {}) = 0 /\ Cardinality({}) = 0
    BY <1>0, TotalFacts, FS_EmptySet
  <2>2. n * 0 = 0
    OBVIOUS
  <2> QED  BY <1>2, <1>3, <2>1, <2>2
<1>4. CASE t # {}
  <2> PICK x \in t : TRUE
    BY <1>4
  <2>1. Total(f, t) = f[x] + Total(f, t \ {x})
    BY <1>0, <1>2, TotalFacts
  <2>2. Total(f, t \ {x}) = n * Cardinality(t \ {x})
    BY <1>1, <1>2
  <2>3. Cardinality(t \ {x}) = Cardinality(t) - 1 /\ Cardinality(t) \in Nat
    BY <1>2, FS_RemoveElement, FS_CardinalityType
  <2>4. n + n * (Cardinality(t) - 1) = n * Cardinality(t)
    <3>1. CASE n = 0
      BY <2>3, <3>1
    <3>2. CASE n = 1
      BY <2>3, <3>2
    <3> QED  BY <3>1, <3>2
  <2> QED  BY <1>2, <2>1, <2>2, <2>3, <2>4
<1> QED  BY <1>3, <1>4

(* A sum holds what every part of it sums to.                              *)
LEMMA TotalOfPart ==
    ASSUME NEW S, IsFiniteSet(S), NEW f, \A x \in S : f[x] \in Nat, NEW A \in SUBSET S
    PROVE  Total(f, A) \in Nat /\ Total(f, A) <= Total(f, S)
<1> DEFINE T == {t \in SUBSET S : A \subseteq t /\ ~(Total(f, A) <= Total(f, t))}
<1>0. Total(f, A) \in Nat
  BY TotalFacts, FS_Subset
<1> SUFFICES ASSUME T # {} PROVE FALSE
  BY <1>0
<1>1. PICK t \in T : \A y \in T : y \subseteq t => y = t
  <2>1. T \in SUBSET (SUBSET S)
    OBVIOUS
  <2> HIDE DEF T
  <2> QED  BY <2>1, Smallest
<1>2. IsFiniteSet(t) /\ t \in SUBSET S /\ A \subseteq t
  BY FS_Subset
<1>3. t # A
  BY <1>0
<1>4. PICK x \in t : x \notin A
  BY <1>2, <1>3
<1>5. Total(f, t) = f[x] + Total(f, t \ {x})
  BY <1>2, TotalFacts
<1>6. Total(f, A) <= Total(f, t \ {x})
  BY <1>1, <1>2, <1>4
<1>7. Total(f, t \ {x}) \in Nat /\ f[x] \in Nat
  BY <1>2, TotalFacts, FS_Subset
<1> QED  BY <1>0, <1>5, <1>6, <1>7

(* What a function that sums the subsets of S returns.                     *)
LEMMA TotalIs ==
    ASSUME NEW S, IsFiniteSet(S), NEW f, \A x \in S : f[x] \in Nat, NEW g, SumsOver(g, f, S)
    PROVE  g[S] = Total(f, S)
<1>1. PICK h \in [SUBSET S -> Nat] : SumsOver(h, f, S) /\ \A s \in SUBSET S : h[s] = Total(f, s)
  BY TotalSums
<1>2. S \in SUBSET (S \cap S)
  OBVIOUS
<1>3. g[S] = h[S]
  BY <1>1, <1>2, SumsAgree
<1> QED  BY <1>1, <1>3

(* A sum over a set is the sum over any other one in step with it.         *)
LEMMA TotalReindexed ==
    ASSUME NEW A, IsFiniteSet(A), NEW B, IsFiniteSet(B), NEW b \in [A -> B],
           \A x, y \in A : b[x] = b[y] => x = y, \A y \in B : \E x \in A : y = b[x],
           NEW f, \A y \in B : f[y] \in Nat, NEW h, \A x \in A : h[x] = f[b[x]]
    PROVE  Total(h, A) = Total(f, B)
<1> DEFINE image(t) == {b[x] : x \in t}
           T == {t \in SUBSET A : Total(h, t) # Total(f, image(t))}
<1> SUFFICES ASSUME T # {} PROVE FALSE
  <2>1. image(A) = B
    OBVIOUS
  <2> QED  BY <2>1
<1>1. PICK t \in T : \A y \in T : y \subseteq t => y = t
  <2>1. T \in SUBSET (SUBSET A)
    OBVIOUS
  <2> HIDE DEF T
  <2> QED  BY <2>1, Smallest
<1>2. IsFiniteSet(t) /\ t \in SUBSET A /\ Total(h, t) # Total(f, image(t))
  BY FS_Subset
<1>3. IsFiniteSet(image(t)) /\ image(t) \in SUBSET B
  <2>1. image(t) \in SUBSET B
    BY <1>2
  <2> QED  BY <2>1, FS_Subset
<1>4. (\A x \in t : h[x] \in Nat) /\ \A y \in image(t) : f[y] \in Nat
  BY <1>2, <1>3
<1>5. CASE t = {}
  <2>1. image(t) = {}
    BY <1>5
  <2>2. Total(h, {}) = 0
    BY <1>2, <1>4, TotalFacts
  <2>3. Total(f, {}) = 0
    <3> PICK B1 : B1 = image(t)
      OBVIOUS
    <3>1. IsFiniteSet(B1) /\ \A y \in B1 : f[y] \in Nat
      BY <1>3, <1>4
    <3> HIDE DEF image
    <3> QED  BY <3>1, TotalFacts
  <2> QED  BY <1>2, <1>5, <2>1, <2>2, <2>3
<1>6. CASE t # {}
  <2> PICK x \in t : TRUE
    BY <1>6
  <2>1. b[x] \in image(t) /\ image(t) \ {b[x]} = image(t \ {x})
    BY <1>2
  <2>2. Total(h, t) = h[x] + Total(h, t \ {x})
    <3>1. IsFiniteSet(t) /\ \A y \in t : h[y] \in Nat
      BY <1>2, <1>4
    <3> HIDE DEF T, image
    <3> QED  BY <3>1, TotalFacts
  <2>3. Total(f, image(t)) = f[b[x]] + Total(f, image(t) \ {b[x]})
    <3> HIDE DEF image
    <3> QED  BY <1>3, <1>4, <2>1, TotalFacts
  <2>4. Total(h, t \ {x}) = Total(f, image(t \ {x}))
    BY <1>1, <1>2
  <2>5. h[x] = f[b[x]]
    BY <1>2
  <2> HIDE DEF image
  <2> QED  BY <1>2, <2>1, <2>2, <2>3, <2>4, <2>5
<1> QED  BY <1>5, <1>6

(* Induction over the numbers, as a fact about sets of them.               *)
LEMMA AllNumbers ==
    ASSUME NEW T, 0 \in T, \A n \in Nat : n \in T => n + 1 \in T, NEW m \in Nat
    PROVE  m \in T
<1> PICK D : D = 1..m
  OBVIOUS
<1> PICK U : U = {A \in SUBSET D : \E k \in 0..m : A = 1..k /\ k \notin T}
  OBVIOUS
<1> SUFFICES ASSUME m \notin T PROVE FALSE
  OBVIOUS
<1>1. D \in U
  OBVIOUS
<1>2. IsFiniteSet(D) /\ U \in SUBSET (SUBSET D) /\ U # {}
  <2>1. IsFiniteSet(D)
    <3>1. 1 \in Int /\ m \in Int /\ D = 1..m
      OBVIOUS
    <3> QED  BY ONLY <3>1, FS_Interval
  <2>2. U \in SUBSET (SUBSET D) /\ U # {}
    BY <1>1
  <2> QED  BY <2>1, <2>2
<1>3. \E A \in U : \A y \in U : y \subseteq A => y = A
  BY ONLY <1>2, Smallest
<1> PICK A \in U : \A y \in U : y \subseteq A => y = A
  BY <1>3
<1>4. PICK k \in 0..m : A = 1..k /\ k \notin T
  OBVIOUS
<1>5. PICK j \in 0..m : k = j + 1 /\ j \notin T
  <2>1. k # 0 /\ k \in Nat
    BY <1>4
  <2> PICK j \in Nat : k = j + 1
    BY <2>1
  <2>2. j \notin T /\ j \in 0..m
    BY <1>4
  <2> QED  BY <2>2
<1>6. 1..j \in U /\ 1..j \subseteq A
  BY <1>4, <1>5
<1>7. 1..j = A
  BY <1>6
<1>8. k \in A /\ k \notin 1..j
  BY <1>4, <1>5
<1> QED  BY <1>7, <1>8

-----------------------------------------------------------------------------
(* RuntimeMetrics: the total less what was shifted out is what the samples *)
(* and the window hold, so what a profile is charged with was paused once. *)
Windows ==
    {w \in [count : Nat, byKind : [Kinds -> Nat]] : w.byKind["minor"] + w.byKind["major"] <= w.count}
Held(samples) == FoldSeq(LAMBDA s, sum : s.count + sum, 0, samples)

RtShaped ==
    /\ rtOn \in {"disabled", "off", "on", "stopped"}
    /\ rtPending \in Nat /\ rtTotal \in Nat /\ rtShifted \in Nat
    /\ rtWindow \in Windows
    /\ rtSamples \in Seq(Windows) /\ Len(rtSamples) <= RtHistory
    /\ rtProfile \in [RtProfiles -> [stage : {"new", "open", "done"}, gc : Nat \cup {RtNone},
                                     charged : Nat \cup {RtNone}]]
    /\ rtSeen \in [RtProfiles -> Nat]

(* The running total, against what the samples and the window hold.        *)
RtBalanced == rtTotal = rtShifted + rtWindow.count + Held(rtSamples)

(* What a profile was, or would be, charged with.                          *)
RtCharged ==
    \A p \in RtProfiles :
        /\ rtProfile[p].charged \in {RtNone, rtSeen[p]}
        /\ rtProfile[p].stage # "done" => rtProfile[p].charged = RtNone
        /\ rtProfile[p].stage = "new" => rtSeen[p] = 0
        /\ rtOn \in {"disabled", "off"} => rtProfile[p].gc = RtNone
        /\ rtOn = "on" /\ rtProfile[p].stage = "open" /\ rtProfile[p].gc # RtNone
             => rtTotal = rtProfile[p].gc + rtSeen[p]

RtInv == RtShaped /\ RtBalanced /\ RtCharged

LEMMA HeldIsTotal ==
    ASSUME NEW s \in Seq(Windows), NEW f, \A i \in 1..Len(s) : f[i] = s[i].count
    PROVE  Held(s) = Total(f, 1..Len(s))
<1> PICK S : S = 1..Len(s)
  OBVIOUS
<1>1. /\ S = DOMAIN s /\ IsFiniteSet(S) /\ \A i \in S : f[i] = s[i].count /\ f[i] \in Nat
  <2>1. Len(s) \in Nat /\ DOMAIN s = S
    BY LenProperties
  <2>2. 1 \in Int /\ Len(s) \in Int /\ S = 1..Len(s)
    BY <2>1
  <2>3. IsFiniteSet(S)
    BY ONLY <2>2, FS_Interval
  <2>4. \A i \in S : s[i] \in Windows
    BY ElementOfSeq
  <2> QED  BY <2>1, <2>3, <2>4 DEF Windows
<1> DEFINE Body(g) == [t \in SUBSET S |-> IF t = {} THEN 0 ELSE s[Pick(t)].count + g[t \ {Pick(t)}]]
<1>2. Held(s) = (CHOOSE g : g = Body(g))[S]
  BY <1>1 DEF Held, FoldSeq, FoldFunction, FoldFunctionOnSet, MapThenFoldSet, Pick
<1>3. ASSUME NEW g
      PROVE  Body(g) = [t \in SUBSET S |-> IF t = {} THEN 0 ELSE f[Pick(t)] + g[t \ {Pick(t)}]]
  <2>1. \A t \in SUBSET S : t # {} => s[Pick(t)].count = f[Pick(t)]
    BY <1>1 DEF Pick
  <2> QED  BY <2>1
<1>4. \E g : g = Body(g)
  <2>1. PICK g : SumsOver(g, f, S)
    BY <1>1, SumExists
  <2> HIDE DEF Body
  <2> QED  BY <1>3, <2>1 DEF SumsOver
<1> PICK G : G = CHOOSE g : g = Body(g)
  OBVIOUS
<1>5. SumsOver(G, f, S)
  <2>1. G = Body(G)
    <3> HIDE DEF Body
    <3> QED  BY <1>4
  <2> HIDE DEF Body
  <2> QED  BY <1>3, <2>1 DEF SumsOver
<1>6. G[S] = Total(f, S)
  BY <1>1, <1>5, TotalIs
<1> HIDE DEF Body
<1> QED  BY <1>2, <1>6

(* What a history holds once a window is appended, and without its first.  *)
LEMMA HeldFacts ==
    ASSUME NEW s \in Seq(Windows)
    PROVE  /\ Held(s) \in Nat /\ Held(<<>>) = 0
           /\ \A w \in Windows : Held(Append(s, w)) = Held(s) + w.count
           /\ s # <<>> => Held(s) = Head(s).count + Held(Tail(s))
<1> PICK n : n = Len(s)
  OBVIOUS
<1> PICK f : f = [i \in 1..n |-> s[i].count]
  OBVIOUS
<1>1. n \in Nat /\ \A i \in 1..n : s[i] \in Windows /\ f[i] = s[i].count /\ f[i] \in Nat
  BY LenProperties, ElementOfSeq DEF Windows
<1>2. \A k \in Nat : IsFiniteSet(1..k)
  <2> TAKE k \in Nat
  <2>1. 1 \in Int /\ k \in Int
    OBVIOUS
  <2> QED  BY ONLY <2>1, FS_Interval
<1>3. Held(s) = Total(f, 1..n)
  BY <1>1, HeldIsTotal
<1>4. Held(s) \in Nat
  <2> PICK S : S = 1..n
    OBVIOUS
  <2>1. IsFiniteSet(S) /\ \A i \in S : f[i] \in Nat
    BY <1>1, <1>2
  <2> QED  BY <1>3, <2>1, TotalFacts
<1>5. Held(<<>>) = 0
  <2>1. <<>> \in Seq(Windows) /\ Len(<<>>) = 0 /\ 1..0 = {}
    BY EmptySeq
  <2>2. Held(<<>>) = Total(f, {})
    BY <2>1, HeldIsTotal
  <2>3. IsFiniteSet({}) /\ \A i \in {} : f[i] \in Nat
    BY FS_EmptySet
  <2> QED  BY <2>2, <2>3, TotalFacts
<1>6. ASSUME NEW w \in Windows PROVE Held(Append(s, w)) = Held(s) + w.count
  <2> PICK t : t = Append(s, w)
    OBVIOUS
  <2>1. /\ t \in Seq(Windows) /\ Len(t) = n + 1 /\ t[n + 1] = w
        /\ \A i \in 1..n : t[i] = s[i]
    BY AppendProperties
  <2> PICK h : h = [i \in 1..(n + 1) |-> t[i].count]
    OBVIOUS
  <2>2. Held(t) = Total(h, 1..(n + 1))
    BY <2>1, HeldIsTotal
  <2> PICK S : S = 1..n
    OBVIOUS
  <2> PICK k : k = n + 1
    OBVIOUS
  <2>3. /\ 1..(n + 1) = S \cup {k} /\ k \notin S /\ h[k] = w.count
        /\ \A i \in S : h[i] = f[i]
    BY <1>1, <2>1
  <2>4. h[k] \in Nat
    BY <2>3 DEF Windows
  <2>5. IsFiniteSet(S) /\ \A i \in S : f[i] \in Nat
    BY <1>1, <1>2
  <2>6. Total(h, S \cup {k}) = h[k] + Total(f, S)
    BY ONLY <2>3, <2>4, <2>5, TotalOfMore
  <2>7. Held(t) = Held(s) + h[k]
    <3>1. Total(f, S) = Held(s)
      BY <1>3
    <3>2. Held(t) = h[k] + Held(s)
      BY <2>2, <2>3, <2>6, <3>1
    <3> QED  BY <1>4, <2>4, <3>2
  <2> QED  BY <2>3, <2>7
<1>7. ASSUME s # <<>> PROVE Held(s) = Head(s).count + Held(Tail(s))
  <2> PICK t : t = Tail(s)
    OBVIOUS
  <2>1. n # 0
    BY <1>7, EmptySeq
  <2>2. t \in Seq(Windows) /\ Len(t) = n - 1 /\ \A i \in 1..Len(t) : t[i] = s[i + 1]
    BY <1>7, HeadTailProperties
  <2>3. Head(s) = s[1]
    BY <1>7
  <2> PICK m \in Nat : n = m + 1
    <3>1. n \in Nat
      BY <1>1
    <3> QED  BY <2>1, <3>1
  <2> PICK h : h = [i \in 1..m |-> t[i].count]
    OBVIOUS
  <2>4. Held(t) = Total(h, 1..m)
    <3>1. Len(t) = m
      BY <2>2
    <3>2. \A i \in 1..Len(t) : h[i] = t[i].count
      BY <3>1
    <3>3. Held(t) = Total(h, 1..Len(t))
      BY <2>2, <3>2, HeldIsTotal
    <3> QED  BY <3>1, <3>3
  <2> PICK A, B, b : A = 1..m /\ B = 2..n /\ b = [i \in 1..m |-> i + 1]
    OBVIOUS
  <2>5. IsFiniteSet(A) /\ b \in [A -> B] /\ (\A x, y \in A : b[x] = b[y] => x = y)
    <3>1. IsFiniteSet(A)
      BY <1>2
    <3> QED  BY <3>1
  <2>11. \A y \in B : \E x \in A : y = b[x]
    <3> TAKE y \in B
    <3> PICK x \in A : y = x + 1
      OBVIOUS
    <3>1. b[x] = y
      OBVIOUS
    <3> QED  BY <3>1
  <2>12. 1..n = B \cup {1} /\ 1 \notin B
    OBVIOUS
  <2>6. IsFiniteSet(B) /\ \A y \in B : f[y] \in Nat
    <3>1. 2 \in Int /\ n \in Int /\ B = 2..n
      BY <1>1
    <3>2. IsFiniteSet(B)
      BY ONLY <3>1, FS_Interval
    <3> QED  BY <1>1, <3>2
  <2>7. \A x \in A : h[x] = f[b[x]]
    BY <1>1, <2>2
  <2>8. Total(h, A) = Total(f, B)
    BY ONLY <2>5, <2>6, <2>7, <2>11, TotalReindexed
  <2>9. Total(f, B \cup {1}) = f[1] + Total(f, B)
    <3>1. f[1] \in Nat
      BY <1>1
    <3> QED  BY <2>12, <2>6, <3>1, TotalOfMore
  <2>10. f[1] = Head(s).count
    BY <1>1, <2>3
  <2> QED  BY <1>3, <2>4, <2>12, <2>8, <2>9, <2>10
<1> QED  BY <1>4, <1>5, <1>6, <1>7

LEMMA RtEnough == ASSUME RtInv PROVE PausesCountedOnce /\ RtTypeOK
<1>1. \A s \in Range(rtSamples) \cup {rtWindow} : s \in Windows
  <2>1. Range(rtSamples) \subseteq Windows
    BY LenProperties, ElementOfSeq DEF RtInv, RtShaped, Range
  <2> QED  BY <2>1 DEF RtInv, RtShaped
<1>2. PausesCountedOnce
  <2>1. \A s \in Range(rtSamples) \cup {rtWindow} : s.byKind["minor"] + s.byKind["major"] <= s.count
    BY <1>1 DEF Windows
  <2>2. rtTotal = rtShifted + rtWindow.count + FoldSeq(LAMBDA s, sum : s.count + sum, 0, rtSamples)
    BY DEF RtInv, RtBalanced, Held
  <2>3. \A p \in RtProfiles : rtProfile[p].charged \in {RtNone, rtSeen[p]}
    BY DEF RtInv, RtCharged
  <2> QED  BY <2>1, <2>2, <2>3 DEF PausesCountedOnce
<1>3. RtTypeOK
  BY DEF RtInv, RtShaped, RtTypeOK
<1> QED  BY <1>2, <1>3

LEMMA RtNoPauses == NoPauses \in Windows /\ NoPauses.count = 0
BY DEF NoPauses, Windows, Kinds

LEMMA RtInitially == RtInit => RtInv
<1> SUFFICES ASSUME NEW on \in {"off", "disabled"}, RtStart(on) PROVE RtInv
  BY DEF RtInit
<1>1. rtSamples \in Seq(Windows) /\ Len(rtSamples) = 0 /\ Held(rtSamples) = 0
  BY EmptySeq, HeldFacts DEF RtStart
<1>2. RtShaped
  BY <1>1, RtNoPauses, RtAssumption DEF RtStart, RtShaped
<1>3. RtBalanced
  BY <1>1, RtNoPauses DEF RtStart, RtBalanced
<1>4. RtCharged
  BY DEF RtStart, RtCharged
<1> QED  BY <1>2, <1>3, <1>4 DEF RtInv

(* The window moves to the history, or stays where it is.                  *)
LEMMA RtCloses ==
    ASSUME RtInv, CloseWindow \/ UNCHANGED <<rtSamples, rtWindow, rtShifted>>, rtTotal' = rtTotal
    PROVE  /\ rtShifted' \in Nat /\ rtWindow' \in Windows /\ rtSamples' \in Seq(Windows)
           /\ Len(rtSamples') <= RtHistory
           /\ RtBalanced'
<1>1. CASE UNCHANGED <<rtSamples, rtWindow, rtShifted>>
  BY <1>1 DEF RtInv, RtShaped, RtBalanced
<1>2. CASE CloseWindow
  <2> PICK s : s = Append(rtSamples, rtWindow)
    OBVIOUS
  <2>1. /\ s \in Seq(Windows) /\ s # <<>> /\ Len(s) = Len(rtSamples) + 1 /\ Len(rtSamples) \in Nat
        /\ rtShifted \in Nat /\ RtHistory \in Nat \ {0} /\ Len(rtSamples) <= RtHistory
    BY AppendProperties, LenProperties, RtAssumption DEF RtInv, RtShaped
  <2>2. Held(s) = Held(rtSamples) + rtWindow.count /\ Held(rtSamples) \in Nat /\ rtWindow.count \in Nat
    BY HeldFacts DEF RtInv, RtShaped, Windows
  <2>3. Head(s) \in Windows /\ Tail(s) \in Seq(Windows) /\ Len(Tail(s)) = Len(s) - 1
    BY <2>1, HeadTailProperties
  <2>4. Held(s) = Head(s).count + Held(Tail(s)) /\ Held(Tail(s)) \in Nat
    BY <2>1, <2>3, HeldFacts
  <2>5. Head(s).count \in Nat
    BY <2>3 DEF Windows
  <2>6. rtWindow' \in Windows /\ rtWindow'.count = 0
    BY <1>2, RtNoPauses DEF CloseWindow
  <2>7. rtTotal = rtShifted + rtWindow.count + Held(rtSamples)
    BY DEF RtInv, RtBalanced
  <2>8. CASE Len(s) > RtHistory
    <3>1. rtSamples' = Tail(s) /\ rtShifted' = rtShifted + Head(s).count
      BY <1>2, <2>8 DEF CloseWindow, KeptSamples
    <3> PICK h, k, l, m, n : /\ h = Head(s).count /\ k = Held(Tail(s)) /\ l = Held(rtSamples)
                             /\ m = rtWindow.count /\ n = rtShifted
      OBVIOUS
    <3>4. rtTotal = n + m + l /\ l + m = h + k
      BY <2>2, <2>4, <2>7
    <3>5. {h, k, l, m, n} \subseteq Nat
      BY <2>1, <2>2, <2>4, <2>5
    <3>2. rtTotal = rtShifted' + 0 + Held(rtSamples')
      <4>1. rtShifted' = n + h /\ Held(rtSamples') = k
        BY <3>1
      <4>2. rtTotal = (n + h) + 0 + k
        BY ONLY <3>4, <3>5
      <4> QED  BY <4>1, <4>2
    <3>3. rtShifted' \in Nat /\ rtSamples' \in Seq(Windows) /\ Len(rtSamples') <= RtHistory
      BY <2>1, <2>3, <2>5, <3>1
    <3> QED  BY <2>6, <3>2, <3>3 DEF RtBalanced
  <2>9. CASE ~(Len(s) > RtHistory)
    <3>1. rtSamples' = s /\ rtShifted' = rtShifted
      BY <1>2, <2>1, <2>9 DEF CloseWindow, KeptSamples
    <3>2. rtTotal = rtShifted' + 0 + Held(rtSamples')
      BY <2>1, <2>2, <2>7, <3>1
    <3>3. rtShifted' \in Nat /\ rtSamples' \in Seq(Windows) /\ Len(rtSamples') <= RtHistory
      BY <2>1, <2>9, <3>1
    <3> QED  BY <2>6, <3>2, <3>3 DEF RtBalanced
  <2> QED  BY <2>8, <2>9
<1> QED  BY <1>1, <1>2

LEMMA RtSamples ==
    ASSUME RtInv, StartSampling \/ Sample
    PROVE  RtInv'
<1>1. /\ CloseWindow \/ UNCHANGED <<rtSamples, rtWindow, rtShifted>>
      /\ UNCHANGED <<rtPending, rtTotal, rtProfile, rtPauses, rtSeen>>
      /\ rtOn' = "on" /\ rtOn \in {"off", "on"}
  BY DEF StartSampling, Sample
<1>2. /\ rtShifted' \in Nat /\ rtWindow' \in Windows /\ rtSamples' \in Seq(Windows)
      /\ Len(rtSamples') <= RtHistory /\ RtBalanced'
  BY <1>1, RtCloses
<1>3. RtShaped'
  BY <1>1, <1>2 DEF RtInv, RtShaped
<1>4. RtCharged'
  BY <1>1 DEF RtInv, RtCharged
<1> QED  BY <1>2, <1>3, <1>4 DEF RtInv

LEMMA RtCollects ==
    ASSUME RtInv, CollectGarbage \/ StopSampling \/ UNCHANGED rtVars
    PROVE  RtInv'
<1>1. /\ UNCHANGED <<rtTotal, rtWindow, rtSamples, rtProfile, rtShifted, rtSeen>>
      /\ rtOn' = rtOn \/ rtOn' = "stopped"
      /\ rtPending' \in Nat
  BY DEF CollectGarbage, StopSampling, rtVars, RtInv, RtShaped
<1>2. RtShaped'
  BY <1>1 DEF RtInv, RtShaped
<1>3. RtBalanced'
  BY <1>1 DEF RtInv, RtBalanced
<1>4. RtCharged'
  BY <1>1 DEF RtInv, RtCharged
<1> QED  BY <1>2, <1>3, <1>4 DEF RtInv

LEMMA RtObserves ==
    ASSUME RtInv, ObservePauses
    PROVE  RtInv'
<1> PICK n \in Nat : n = rtPending
  BY DEF RtInv, RtShaped
<1> PICK kinds \in [1..n -> Pauses] :
           rtWindow' = [count |-> rtWindow.count + n,
                        byKind |-> [k \in Kinds |->
                          rtWindow.byKind[k] + Cardinality({i \in DOMAIN kinds : kinds[i] = k})]]
  BY DEF ObservePauses
<1>0. /\ rtOn = "on" /\ rtTotal' = rtTotal + n /\ rtPending' = 0
      /\ rtSeen' = [p \in RtProfiles |-> rtSeen[p] + (IF rtProfile[p].stage = "open" THEN n ELSE 0)]
      /\ UNCHANGED <<rtOn, rtSamples, rtProfile, rtTicks, rtPauses, rtShifted>>
  BY DEF ObservePauses
<1> PICK w, minor, major :
           /\ w = rtWindow /\ minor = Cardinality({i \in DOMAIN kinds : kinds[i] = "minor"})
           /\ major = Cardinality({i \in DOMAIN kinds : kinds[i] = "major"})
  OBVIOUS
<1>1. minor \in Nat /\ major \in Nat /\ minor + major <= n
  <2> PICK D, A, B : /\ D = 1..n /\ A = {i \in DOMAIN kinds : kinds[i] = "minor"}
                     /\ B = {i \in DOMAIN kinds : kinds[i] = "major"}
    OBVIOUS
  <2>1. IsFiniteSet(D) /\ Cardinality(D) = n
    <3>1. 1 \in Int /\ n \in Int /\ D = 1..n
      OBVIOUS
    <3>2. IsFiniteSet(D) /\ Cardinality(D) = IF 1 > n THEN 0 ELSE n - 1 + 1
      BY ONLY <3>1, FS_Interval
    <3> QED  BY <3>2
  <2>2. A \in SUBSET D /\ B \in SUBSET D /\ A \cap B = {} /\ A \cup B \in SUBSET D
    OBVIOUS
  <2>3. /\ IsFiniteSet(A) /\ IsFiniteSet(B) /\ Cardinality(A \cup B) <= Cardinality(D)
        /\ Cardinality(A) \in Nat /\ Cardinality(B) \in Nat
    BY <2>1, <2>2, FS_Subset, FS_CardinalityType
  <2>4. Cardinality(A \cup B) = Cardinality(A) + Cardinality(B) - Cardinality({})
    BY <2>2, <2>3, FS_Union
  <2>5. Cardinality({}) = 0
    BY FS_EmptySet
  <2>6. minor = Cardinality(A) /\ major = Cardinality(B)
    OBVIOUS
  <2> QED  BY <2>1, <2>3, <2>4, <2>5, <2>6
<1>2. /\ w \in Windows /\ w.count \in Nat /\ w.byKind["minor"] \in Nat /\ w.byKind["major"] \in Nat
      /\ w.byKind["minor"] + w.byKind["major"] <= w.count
  BY DEF RtInv, RtShaped, Windows, Kinds
<1>3. /\ rtWindow'.count = w.count + n
      /\ rtWindow'.byKind["minor"] = w.byKind["minor"] + minor
      /\ rtWindow'.byKind["major"] = w.byKind["major"] + major
      /\ rtWindow'.byKind \in [Kinds -> Nat] /\ rtWindow' \in [count : Nat, byKind : [Kinds -> Nat]]
  <2> PICK b : b = [k \in Kinds |->
                      rtWindow.byKind[k] + Cardinality({i \in DOMAIN kinds : kinds[i] = k})]
    OBVIOUS
  <2>1. b["minor"] = w.byKind["minor"] + minor /\ b["major"] = w.byKind["major"] + major
    BY DEF Kinds
  <2>2. b \in [Kinds -> Nat]
    <3>2. b["minor"] \in Nat /\ b["major"] \in Nat
      BY ONLY <1>1, <1>2, <2>1
    <3>1. \A k \in Kinds : b[k] \in Nat
      BY ONLY <3>2 DEF Kinds
    <3> QED  BY <3>1
  <2>3. rtWindow' = [count |-> w.count + n, byKind |-> b]
    OBVIOUS
  <2> QED  BY <1>2, <2>1, <2>2, <2>3
<1>4. rtWindow' \in Windows
  <2> PICK v : v = rtWindow'
    OBVIOUS
  <2> PICK a, b, c : a = w.byKind["minor"] /\ b = w.byKind["major"] /\ c = w.count
    OBVIOUS
  <2>2. {a, b, c, n, minor, major} \subseteq Nat /\ a + b <= c /\ minor + major <= n
    BY <1>1, <1>2
  <2>3. (a + minor) + (b + major) <= c + n
    BY ONLY <2>2
  <2>1. v.byKind["minor"] + v.byKind["major"] <= v.count
    BY <1>3, <2>3
  <2> QED  BY <1>3, <2>1 DEF Windows
<1>5. RtShaped'
  BY <1>0, <1>4 DEF RtInv, RtShaped
<1>6. RtBalanced'
  <2>1. Held(rtSamples)' = Held(rtSamples) /\ Held(rtSamples) \in Nat
    BY <1>0, HeldFacts DEF RtInv, RtShaped
  <2>2. rtTotal = rtShifted + w.count + Held(rtSamples) /\ rtShifted \in Nat
    BY DEF RtInv, RtBalanced, RtShaped
  <2> QED  BY <1>0, <1>2, <1>3, <2>1, <2>2 DEF RtBalanced
<1>7. RtCharged'
  <2> SUFFICES ASSUME NEW p \in RtProfiles
               PROVE  /\ rtProfile'[p].charged \in {RtNone, rtSeen'[p]}
                      /\ rtProfile'[p].stage # "done" => rtProfile'[p].charged = RtNone
                      /\ rtProfile'[p].stage = "new" => rtSeen'[p] = 0
                      /\ rtProfile'[p].stage = "open" /\ rtProfile'[p].gc # RtNone
                           => rtTotal' = rtProfile'[p].gc + rtSeen'[p]
    BY <1>0 DEF RtCharged
  <2> PICK q, seen : q = rtProfile[p] /\ seen = rtSeen[p]
    OBVIOUS
  <2>1. /\ rtProfile'[p] = q /\ rtSeen'[p] = seen + (IF q.stage = "open" THEN n ELSE 0)
        /\ q \in [stage : {"new", "open", "done"}, gc : Nat \cup {RtNone}, charged : Nat \cup {RtNone}]
        /\ seen \in Nat /\ rtTotal \in Nat
    BY <1>0 DEF RtInv, RtShaped
  <2>2. /\ q.charged \in {RtNone, seen} /\ (q.stage # "done" => q.charged = RtNone)
        /\ (q.stage = "new" => seen = 0)
        /\ (q.stage = "open" /\ q.gc # RtNone => rtTotal = q.gc + seen)
    BY <1>0 DEF RtInv, RtCharged
  <2> QED  BY <1>0, <2>1, <2>2
<1> QED  BY <1>5, <1>6, <1>7 DEF RtInv

LEMMA RtMarks ==
    ASSUME RtInv, NEW p \in RtProfiles, MarkStart(p) \/ CompletePerformance(p)
    PROVE  RtInv'
<1>0. UNCHANGED <<rtOn, rtPending, rtTotal, rtWindow, rtSamples, rtTicks, rtPauses, rtShifted, rtSeen>>
  BY DEF MarkStart, CompletePerformance
<1> PICK q, total, seen : q = rtProfile[p] /\ total = rtTotal /\ seen = rtSeen[p]
  OBVIOUS
<1>1. /\ q \in [stage : {"new", "open", "done"}, gc : Nat \cup {RtNone}, charged : Nat \cup {RtNone}]
      /\ seen \in Nat /\ total \in Nat /\ RtNone \notin Nat
      /\ rtProfile \in [RtProfiles -> [stage : {"new", "open", "done"}, gc : Nat \cup {RtNone},
                                       charged : Nat \cup {RtNone}]]
  BY RtAssumption DEF RtInv, RtShaped
<1>2. /\ q.charged \in {RtNone, seen} /\ (q.stage # "done" => q.charged = RtNone)
      /\ (q.stage = "new" => seen = 0)
      /\ (rtOn \in {"disabled", "off"} => q.gc = RtNone)
      /\ (rtOn = "on" /\ q.stage = "open" /\ q.gc # RtNone => total = q.gc + seen)
  BY DEF RtInv, RtCharged
<1> PICK gc \in Nat \cup {RtNone} : gc = GcCounter
  BY <1>1 DEF GcCounter
<1>3. \E r \in [stage : {"new", "open", "done"}, gc : Nat \cup {RtNone}, charged : Nat \cup {RtNone}] :
        /\ rtProfile' = [rtProfile EXCEPT ![p] = r]
        /\ r.charged \in {RtNone, seen} /\ (r.stage # "done" => r.charged = RtNone)
        /\ r.stage # "new"
        /\ (rtOn \in {"disabled", "off"} => r.gc = RtNone)
        /\ (rtOn = "on" /\ r.stage = "open" /\ r.gc # RtNone => total = r.gc + seen)
  <2>1. CASE MarkStart(p)
    <3> PICK r : r = [q EXCEPT !.stage = "open", !.gc = gc]
      OBVIOUS
    <3>1. q.stage = "new" /\ rtProfile' = [rtProfile EXCEPT ![p] = r]
      BY <2>1 DEF MarkStart
    <3>2. /\ r.stage = "open" /\ r.gc = gc /\ r.charged = q.charged
          /\ r \in [stage : {"new", "open", "done"}, gc : Nat \cup {RtNone}, charged : Nat \cup {RtNone}]
      BY <1>1
    <3>3. (rtOn = "on" => gc = total) /\ (rtOn # "on" => gc = RtNone)
      BY DEF GcCounter
    <3>4. rtOn = "on" => total = r.gc + seen
      BY <1>1, <1>2, <3>1, <3>2, <3>3
    <3>5. (rtOn \in {"disabled", "off"} => r.gc = RtNone) /\ r.stage # "new" /\ r.charged = RtNone
      BY <1>2, <3>1, <3>2, <3>3
    <3> QED  BY <3>1, <3>2, <3>4, <3>5
  <2>2. CASE CompletePerformance(p)
    <3> PICK charge : charge = IF gc = RtNone \/ q.gc = RtNone THEN RtNone ELSE gc - q.gc
      OBVIOUS
    <3>1. q.stage = "open"
          /\ rtProfile' = [rtProfile EXCEPT ![p] = [q EXCEPT !.stage = "done", !.charged = charge]]
      BY <2>2 DEF CompletePerformance
    <3>2. (rtOn = "on" => gc = total) /\ (rtOn # "on" => gc = RtNone)
      BY DEF GcCounter
    <3>3. charge \in {RtNone, seen}
      BY <1>1, <1>2, <3>1, <3>2
    <3>4. charge \in Nat \cup {RtNone}
      BY <1>1, <3>3
    <3> PICK r : r = [q EXCEPT !.stage = "done", !.charged = charge]
      OBVIOUS
    <3>5. /\ r.stage = "done" /\ r.gc = q.gc /\ r.charged = charge
          /\ r \in [stage : {"new", "open", "done"}, gc : Nat \cup {RtNone}, charged : Nat \cup {RtNone}]
      BY <1>1, <3>4
    <3> QED  BY <1>2, <3>1, <3>3, <3>5
  <2> QED  BY <2>1, <2>2
<1> PICK r \in [stage : {"new", "open", "done"}, gc : Nat \cup {RtNone}, charged : Nat \cup {RtNone}] :
        /\ rtProfile' = [rtProfile EXCEPT ![p] = r]
        /\ r.charged \in {RtNone, seen} /\ (r.stage # "done" => r.charged = RtNone)
        /\ r.stage # "new"
        /\ (rtOn \in {"disabled", "off"} => r.gc = RtNone)
        /\ (rtOn = "on" /\ r.stage = "open" /\ r.gc # RtNone => total = r.gc + seen)
  BY <1>3
<1>4. rtProfile'[p] = r /\ \A o \in RtProfiles \ {p} : rtProfile'[o] = rtProfile[o]
  BY <1>1
<1>5. RtShaped'
  BY <1>0, <1>1 DEF RtInv, RtShaped
<1>6. RtBalanced'
  BY <1>0 DEF RtInv, RtBalanced
<1>7. RtCharged'
  BY <1>0, <1>4 DEF RtInv, RtCharged
<1> QED  BY <1>5, <1>6, <1>7 DEF RtInv

LEMMA RtStep == ASSUME RtInv, [RtNext]_rtVars PROVE RtInv'
BY RtSamples, RtCollects, RtObserves, RtMarks DEF RtNext

(* The Runtime panel's two accounts of the garbage collections agree: what *)
(* the kept samples, those that left the history and the open window hold  *)
(* adds up to the running total, and a profile is charged what was observed*)
(* while it was open, or nothing: for every number of profiles, of samples *)
(* kept and of collections, through failed readings and late deliveries.   *)
THEOREM RuntimeCountsPausesOnce == RtSpec => []PausesCountedOnce
<1>1. RtInit => RtInv
  BY RtInitially
<1>2. RtInv /\ [RtNext]_rtVars => RtInv'
  BY RtStep
<1>3. RtInv => PausesCountedOnce
  BY RtEnough
<1> QED  BY <1>1, <1>2, <1>3, PTL DEF RtSpec

-----------------------------------------------------------------------------
(* AiTelemetry: what an operation has left in its log is known from the    *)
(* stage of its SDK call.                                                  *)
AiStages == {"new", "open", "calling", "requesting", "answered", "ended", "failed"}
Asking == {"calling", "requesting", "answered"}
AiSpans == Nat \cup {AiNone}
AiPayloads == [of : AiSpans, outcome : {"answered", "refused"}]
AiPendings == [span : AiSpans, payload : AiPayloads \cup {AiNone}]
AiSdks == [stage : AiStages, spent : Nat, tools : Nat, attempt : AiSpans]
AiOperations == [inMap : BOOLEAN, steps : Nat, lastCall : Nat, usageReported : BOOLEAN,
                 payload : AiPayloads \cup {AiNone}, schema : BOOLEAN]
AiEntries(agent) ==
    [kind : {"call", "tool", "error"}, step : Nat, usage : Nat, agent : {agent}, span : AiSpans,
     payload : AiPayloads \cup {AiNone}, schema : BOOLEAN, result : BOOLEAN]

CallsIn(lg) == {i \in DOMAIN lg : lg[i].kind # "tool"}
OpTyped(a, sh, pr, sd, op, pt, os, lg) ==
    /\ sh \in AiShape /\ pr \in BOOLEAN
    /\ sh.harness => sh.events
    /\ sh.usage = "turn" => sh.harness
    /\ ~sh.events => sh.output = "direct"
    /\ sd \in AiSdks /\ op \in AiOperations /\ pt \in Nat
    /\ os \in {"none", "pending", "settled"}
    /\ lg \in Seq(AiEntries(a))
OpStaged(sh, sd, op, pc, pt, os, lg) ==
    /\ op.steps <= AiMaxSteps /\ pt <= sd.tools
    /\ sd.stage = "new" =>
         /\ sd.spent = 0 /\ op.steps = 0 /\ op.lastCall = 0 /\ os = "none" /\ lg = <<>>
    /\ ~sh.events => sd.stage \notin Asking /\ op.steps = 0
    /\ pt > 0 => sd.stage = "open" /\ op.steps > 0
    /\ IF sd.stage \in Asking THEN pc \in AiPendings ELSE pc = AiNone
    /\ sd.stage \in Asking => op.steps < AiMaxSteps
    /\ sd.stage \notin {"new", "ended"} => op.inMap
    /\ sd.stage = "ended" => ~op.inMap
    /\ sd.stage = "ended" => sd.spent > 0
    /\ sd.spent = op.steps \/ (sd.stage = "ended" /\ ~sh.events)
    /\ op.usageReported <=> sh.usage = "call" /\ op.steps > 0
OpLogged(sh, pr, sd, op, lg) ==
    /\ ~pr => lg = <<>> /\ op.lastCall = 0
    /\ pr => /\ Cardinality(CallsIn(lg)) = sd.spent + (IF sd.stage = "failed" THEN 1 ELSE 0)
             /\ {lg[i].step : i \in CallsIn(lg)} = 0..Cardinality(CallsIn(lg)) - 1
    /\ sd.stage # "failed" => \A i \in CallsIn(lg) : lg[i].kind = "call"
OpLast(sh, sd, op, lg) ==
    /\ op.lastCall \in 0..Len(lg)
    /\ IF sd.stage = "ended" /\ ~sh.events THEN op.lastCall = 0
       ELSE /\ op.lastCall = 0 => CallsIn(lg) = {}
            /\ op.lastCall # 0 =>
                 op.lastCall \in CallsIn(lg) /\ \A i \in CallsIn(lg) : i <= op.lastCall
    /\ IF sd.stage = "ended" /\ CallsIn(lg) # {}
       THEN \E m \in CallsIn(lg) : \A i \in CallsIn(lg) : i <= m /\ (lg[i].result <=> i = m)
       ELSE \A i \in CallsIn(lg) : ~lg[i].result
OpSchemas(sh, sd, op, os, lg) ==
    /\ os = "pending" => sh.output = "promise"
    /\ sd.stage # "new" /\ os # "pending" /\ sh.output # "none" => op.schema
    /\ sd.stage # "failed" /\ op.schema /\ op.lastCall # 0 => lg[op.lastCall].schema
    /\ sd.stage = "ended" /\ ~sh.events => \A i \in CallsIn(lg) : lg[i].schema
OpSpans(sd, pc, lg) ==
    /\ sd.stage = "requesting" => sd.attempt = pc.span
    /\ sd.stage \in {"calling", "answered"} /\ pc.span # AiNone =>
         pc.payload \in AiPayloads /\ pc.payload.of = pc.span
    /\ \A i \in CallsIn(lg) :
         lg[i].span # AiNone => lg[i].payload \in AiPayloads /\ lg[i].payload.of = lg[i].span
UsageIn(lg) == Total([i \in DOMAIN lg |-> lg[i].usage], CallsIn(lg))
OpUsage(sh, pr, sd, lg) ==
    /\ sd.stage # "ended" =>
         \A i \in CallsIn(lg) :
            lg[i].usage = IF lg[i].kind = "call" /\ sh.usage = "call" THEN 1 ELSE 0
    /\ sd.stage = "ended" /\ pr => UsageIn(lg) = sd.spent

OpOK(a, sh, pr, sd, op, pc, pt, os, lg) ==
    /\ OpTyped(a, sh, pr, sd, op, pt, os, lg)
    /\ OpStaged(sh, sd, op, pc, pt, os, lg)
    /\ OpLogged(sh, pr, sd, op, lg)
    /\ OpLast(sh, sd, op, lg)
    /\ OpSchemas(sh, sd, op, os, lg)
    /\ OpSpans(sd, pc, lg)
    /\ OpUsage(sh, pr, sd, lg)

-----------------------------------------------------------------------------
LEMMA AiNotNone ==
    /\ AiNone \notin Nat /\ AiNone \notin AiPayloads
    /\ AiMaxSteps \in Nat /\ AiMaxTools \in Nat /\ AiMaxAttempts \in Nat /\ IsFiniteSet(AiOps)
BY AiAssumption DEF AiPayloads, AiSpans

LEMMA CallsFacts ==
    ASSUME NEW S, NEW lg \in Seq(S)
    PROVE  /\ Len(lg) \in Nat /\ DOMAIN lg = 1..Len(lg) /\ IsFiniteSet(CallsIn(lg))
           /\ \A i \in DOMAIN lg : lg[i] \in S
           /\ \A i \in CallsIn(lg) : i \in DOMAIN lg /\ i \in Nat /\ i <= Len(lg) /\ lg[i] \in S
<1>1. Len(lg) \in Nat /\ DOMAIN lg = 1..Len(lg) /\ \A i \in 1..Len(lg) : lg[i] \in S
  BY LenProperties, ElementOfSeq
<1>2. IsFiniteSet(CallsIn(lg))
  <2> PICK D, n : n = Len(lg) /\ D = 1..n
    OBVIOUS
  <2>1. 1 \in Int /\ n \in Int
    BY <1>1
  <2>2. IsFiniteSet(D)
    BY <2>1, FS_Interval
  <2>3. CallsIn(lg) \in SUBSET D
    BY <1>1 DEF CallsIn
  <2> QED  BY <2>2, <2>3, FS_Subset
<1> QED  BY <1>1, <1>2 DEF CallsIn

Grown(lg, e) == Append(lg, e)
GrownBy(S, lg, e, lg2, n) ==
    /\ n \in Nat /\ n = Len(lg) + 1 /\ n # 0 /\ lg2 \in Seq(S) /\ Len(lg2) = n
    /\ lg2[n] = e /\ n \notin CallsIn(lg)
    /\ \A i \in CallsIn(lg) : lg2[i] = lg[i] /\ i <= n
    /\ e.kind = "tool" => CallsIn(lg2) = CallsIn(lg)
    /\ e.kind # "tool" => CallsIn(lg2) = CallsIn(lg) \cup {n}

LEMMA CallsGrown ==
    ASSUME NEW S, NEW lg \in Seq(S), NEW e \in S
    PROVE  GrownBy(S, lg, e, Grown(lg, e), Len(lg) + 1)
<1> PICK lg2, n : lg2 = Grown(lg, e) /\ n = Len(lg) + 1
  OBVIOUS
<1>1. /\ lg2 \in Seq(S) /\ Len(lg2) = n /\ \A i \in 1..Len(lg) : lg2[i] = lg[i]
      /\ lg2[n] = e
  BY AppendProperties DEF Grown
<1>2. DOMAIN lg2 = 1..n /\ DOMAIN lg = 1..Len(lg) /\ Len(lg) \in Nat
  BY <1>1, LenProperties
<1>3. DOMAIN lg2 = DOMAIN lg \cup {n} /\ n \notin DOMAIN lg /\ \A i \in DOMAIN lg : lg2[i] = lg[i] /\ i <= n
  BY <1>1, <1>2
<1>4. GrownBy(S, lg, e, lg2, n)
  BY <1>1, <1>2, <1>3 DEF CallsIn, GrownBy
<1> QED  BY <1>4

PutAt(lg, k, e) == [lg EXCEPT ![k] = e]
LEMMA CallsPut ==
    ASSUME NEW S, NEW lg \in Seq(S), NEW k \in DOMAIN lg, NEW e \in S, e.kind = lg[k].kind
    PROVE  /\ PutAt(lg, k, e) \in Seq(S) /\ Len(PutAt(lg, k, e)) = Len(lg)
           /\ DOMAIN PutAt(lg, k, e) = DOMAIN lg /\ PutAt(lg, k, e)[k] = e
           /\ \A i \in DOMAIN lg : i # k => PutAt(lg, k, e)[i] = lg[i]
           /\ CallsIn(PutAt(lg, k, e)) = CallsIn(lg)
<1> PICK lg2 : lg2 = PutAt(lg, k, e)
  OBVIOUS
<1>1. Len(lg) \in Nat /\ DOMAIN lg = 1..Len(lg) /\ lg \in [1..Len(lg) -> S]
  BY LenProperties
<1>2. lg2 \in [1..Len(lg) -> S] /\ lg2[k] = e /\ \A i \in DOMAIN lg : i # k => lg2[i] = lg[i]
  BY <1>1 DEF PutAt
<1>3. lg2 \in Seq(S) /\ Len(lg2) = Len(lg)
  BY <1>1, <1>2, SeqDef
<1> QED  BY <1>1, <1>2, <1>3 DEF CallsIn

(* The account of a log depends on how many calls it holds only.           *)
LEMMA OkQuiet ==
    ASSUME NEW a, NEW sh, NEW pr, NEW sd, NEW op, NEW pc, NEW pt, NEW os, NEW lg,
           OpOK(a, sh, pr, sd, op, pc, pt, os, lg),
           NEW sd2, NEW op2, sd2.spent = sd.spent, op2.lastCall = op.lastCall,
           sd.stage \notin {"ended", "failed"}, sd2.stage \notin {"ended", "failed"}
    PROVE  OpLogged(sh, pr, sd2, op2, lg) /\ OpLast(sh, sd2, op2, lg) /\ OpUsage(sh, pr, sd2, lg)
<1>1. OpLogged(sh, pr, sd2, op2, lg)
  BY DEF OpOK, OpLogged
<1>2. OpLast(sh, sd2, op2, lg)
  BY DEF OpOK, OpLast
<1>3. OpUsage(sh, pr, sd2, lg)
  BY DEF OpOK, OpUsage
<1> QED  BY <1>1, <1>2, <1>3

LEMMA OkStarts ==
    ASSUME NEW a, NEW sh, NEW pr, NEW sd, NEW op, NEW pc, NEW pt, NEW os, NEW lg,
           OpOK(a, sh, pr, sd, op, pc, pt, os, lg), sd.stage = "new",
           NEW sd2, sd2 = [sd EXCEPT !.stage = "open"],
           NEW op2, op2 = [NoOperation EXCEPT !.inMap = TRUE, !.schema = sh.output = "direct"],
           NEW os2, os2 = IF sh.output = "promise" THEN "pending" ELSE "none"
    PROVE  OpOK(a, sh, pr, sd2, op2, pc, pt, os2, lg)
<1> PICK schema \in BOOLEAN : schema <=> sh.output = "direct"
  OBVIOUS
<1>1. /\ op2 \in AiOperations /\ op2.steps = 0 /\ op2.lastCall = 0 /\ op2.inMap /\ ~op2.usageReported
      /\ (op2.schema <=> sh.output = "direct")
  BY DEF NoOperation, AiOperations
<1>2. sd2 \in AiSdks /\ sd2.stage = "open" /\ sd2.spent = sd.spent /\ sd2.tools = sd.tools
  BY DEF OpOK, OpTyped, AiSdks, AiStages
<1>3. sh.output \in {"none", "direct", "promise"} /\ op.lastCall = 0 /\ lg = <<>> /\ sd.spent = 0
  BY DEF OpOK, OpTyped, OpStaged, AiShape
<1>4. OpTyped(a, sh, pr, sd2, op2, pt, os2, lg)
  BY <1>1, <1>2 DEF OpOK, OpTyped
<1>5. OpStaged(sh, sd2, op2, pc, pt, os2, lg)
  BY <1>1, <1>2, <1>3, AiNotNone DEF OpOK, OpTyped, OpStaged, Asking, AiSdks
<1>6. OpSchemas(sh, sd2, op2, os2, lg)
  BY <1>1, <1>2, <1>3 DEF OpSchemas
<1>7. OpSpans(sd2, pc, lg)
  BY <1>2 DEF OpOK, OpSpans
<1>9. /\ sd2.spent = sd.spent /\ op2.lastCall = op.lastCall
      /\ sd.stage \notin {"ended", "failed"} /\ sd2.stage \notin {"ended", "failed"}
  BY <1>1, <1>2, <1>3
<1>8. OpLogged(sh, pr, sd2, op2, lg) /\ OpLast(sh, sd2, op2, lg) /\ OpUsage(sh, pr, sd2, lg)
  BY ONLY <1>9, OkQuiet, OpOK(a, sh, pr, sd, op, pc, pt, os, lg)
<1> QED  BY <1>4, <1>5, <1>6, <1>7, <1>8 DEF OpOK

LEMMA OkModelCallStarts ==
    ASSUME NEW a, NEW sh, NEW pr, NEW sd, NEW op, NEW pc, NEW pt, NEW os, NEW lg,
           OpOK(a, sh, pr, sd, op, pc, pt, os, lg), sd.stage = "open", sh.events, pt = 0,
           op.steps < AiMaxSteps,
           NEW sd2, sd2 = [sd EXCEPT !.stage = "calling", !.attempt = AiNone],
           NEW pc2, pc2 = [span |-> AiNone, payload |-> AiNone]
    PROVE  OpOK(a, sh, pr, sd2, op, pc2, pt, os, lg)
<1>1. sd2 \in AiSdks /\ sd2.stage = "calling" /\ sd2.spent = sd.spent /\ sd2.tools = sd.tools
  BY DEF OpOK, OpTyped, AiSdks, AiStages, AiSpans
<1>2. pc2 \in AiPendings /\ pc2.span = AiNone
  BY DEF AiPendings, AiSpans
<1>3. OpTyped(a, sh, pr, sd2, op, pt, os, lg)
  BY <1>1 DEF OpOK, OpTyped
<1>4. OpStaged(sh, sd2, op, pc2, pt, os, lg)
  BY <1>1, <1>2 DEF OpOK, OpStaged, Asking
<1>5. OpSchemas(sh, sd2, op, os, lg)
  BY <1>1 DEF OpOK, OpSchemas
<1>6. OpSpans(sd2, pc2, lg)
  BY <1>1, <1>2 DEF OpOK, OpSpans
<1>7. OpLogged(sh, pr, sd2, op, lg) /\ OpLast(sh, sd2, op, lg) /\ OpUsage(sh, pr, sd2, lg)
  <2>1. /\ sd2.spent = sd.spent /\ op.lastCall = op.lastCall
        /\ sd.stage \notin {"ended", "failed"} /\ sd2.stage \notin {"ended", "failed"}
    BY <1>1
  <2> QED  BY ONLY <2>1, OkQuiet, OpOK(a, sh, pr, sd, op, pc, pt, os, lg)
<1> QED  BY <1>3, <1>4, <1>5, <1>6, <1>7 DEF OpOK

LEMMA OkAttempts ==
    ASSUME NEW a, NEW sh, NEW pr, NEW sd, NEW op, NEW pc, NEW pt, NEW os, NEW lg,
           OpOK(a, sh, pr, sd, op, pc, pt, os, lg), sd.stage = "calling",
           NEW span \in Nat, NEW attempt \in AiSpans, pr => attempt = span, ~pr => attempt = AiNone,
           pr \/ pc.span = AiNone,
           NEW sd2, sd2 = [sd EXCEPT !.stage = "requesting", !.attempt = attempt],
           NEW pc2, pr => pc2 = [pc EXCEPT !.span = span], ~pr => pc2 = pc
    PROVE  OpOK(a, sh, pr, sd2, op, pc2, pt, os, lg)
<1>1. /\ sd2 \in AiSdks /\ sd2.stage = "requesting" /\ sd2.spent = sd.spent /\ sd2.tools = sd.tools
      /\ sd2.attempt = attempt
  BY DEF OpOK, OpTyped, AiSdks, AiStages
<1>2. pc \in AiPendings
  BY DEF OpOK, OpStaged, Asking
<1>3. pc2 \in AiPendings /\ pc2.span = attempt
  BY <1>2 DEF AiPendings, AiSpans, OpOK, OpTyped
<1>4. OpTyped(a, sh, pr, sd2, op, pt, os, lg)
  BY <1>1 DEF OpOK, OpTyped
<1>5. OpStaged(sh, sd2, op, pc2, pt, os, lg)
  BY <1>1, <1>3 DEF OpOK, OpStaged, Asking
<1>6. OpSchemas(sh, sd2, op, os, lg)
  BY <1>1 DEF OpOK, OpSchemas
<1>7. OpSpans(sd2, pc2, lg)
  BY <1>1, <1>3 DEF OpOK, OpSpans
<1> QED  BY <1>1, <1>4, <1>5, <1>6, <1>7, OkQuiet DEF OpOK

LEMMA OkSettles ==
    ASSUME NEW a, NEW sh, NEW pr, NEW sd, NEW op, NEW pc, NEW pt, NEW os, NEW lg,
           OpOK(a, sh, pr, sd, op, pc, pt, os, lg), sd.stage = "requesting",
           NEW outcome \in {"answered", "refused"},
           NEW stage, stage = (IF outcome = "answered" THEN "answered" ELSE "calling"),
           NEW sd2, sd2 = [sd EXCEPT !.stage = stage],
           NEW pc2, pc2 = [pc EXCEPT !.payload = [of |-> sd.attempt, outcome |-> outcome]]
    PROVE  OpOK(a, sh, pr, sd2, op, pc2, pt, os, lg)
<1>0. stage \in {"answered", "calling"}
  OBVIOUS
<1>1. /\ sd2 \in AiSdks /\ sd2.stage = stage /\ sd2.spent = sd.spent /\ sd2.tools = sd.tools
  BY <1>0 DEF OpOK, OpTyped, AiSdks, AiStages
<1>2. pc \in AiPendings /\ sd.attempt = pc.span
  BY DEF OpOK, OpStaged, OpSpans, Asking
<1> PICK attempt \in AiSpans : attempt = sd.attempt
  BY DEF OpOK, OpTyped, AiSdks
<1> PICK payload \in AiPayloads : payload = [of |-> attempt, outcome |-> outcome]
  BY DEF AiPayloads
<1>3. pc2 \in AiPendings /\ pc2.span = attempt /\ pc2.payload = payload /\ payload.of = attempt
  BY <1>2 DEF AiPendings, AiSpans
<1>4. OpTyped(a, sh, pr, sd2, op, pt, os, lg)
  BY <1>1 DEF OpOK, OpTyped
<1>5. OpStaged(sh, sd2, op, pc2, pt, os, lg)
  BY <1>0, <1>1, <1>3 DEF OpOK, OpStaged, Asking
<1>6. OpSchemas(sh, sd2, op, os, lg)
  BY <1>0, <1>1 DEF OpOK, OpSchemas
<1>7. OpSpans(sd2, pc2, lg)
  BY <1>0, <1>1, <1>3 DEF OpOK, OpSpans
<1> QED  BY <1>0, <1>1, <1>4, <1>5, <1>6, <1>7, OkQuiet DEF OpOK

LEMMA OkToolStarts ==
    ASSUME NEW a, NEW sh, NEW pr, NEW sd, NEW op, NEW pc, NEW pt, NEW os, NEW lg,
           OpOK(a, sh, pr, sd, op, pc, pt, os, lg), sd.stage = "open", op.steps > 0,
           NEW tools \in Nat, tools = sd.tools + 1,
           NEW sd2, sd2 = [sd EXCEPT !.tools = tools], NEW pt2, pt2 = pt + 1
    PROVE  OpOK(a, sh, pr, sd2, op, pc, pt2, os, lg)
<1>1. sd2 \in AiSdks /\ sd2.stage = "open" /\ sd2.spent = sd.spent /\ sd2.tools = tools
  BY DEF OpOK, OpTyped, AiSdks, AiStages
<1>2. pt \in Nat /\ sd.tools \in Nat /\ op.steps \in Nat
  BY DEF OpOK, OpTyped, AiSdks, AiOperations
<1>3. OpTyped(a, sh, pr, sd2, op, pt2, os, lg)
  BY <1>1, <1>2 DEF OpOK, OpTyped
<1>4. OpStaged(sh, sd2, op, pc, pt2, os, lg)
  BY <1>1, <1>2 DEF OpOK, OpStaged, Asking
<1>5. OpSchemas(sh, sd2, op, os, lg)
  BY <1>1 DEF OpOK, OpSchemas
<1>6. OpSpans(sd2, pc, lg)
  BY <1>1 DEF OpOK, OpSpans
<1> QED  BY <1>1, <1>3, <1>4, <1>5, <1>6, OkQuiet DEF OpOK

LEMMA OkObjectSteps ==
    ASSUME NEW a, NEW sh, NEW pr, NEW sd, NEW op, NEW pc, NEW pt, NEW os, NEW lg,
           OpOK(a, sh, pr, sd, op, pc, pt, os, lg), sd.stage = "open",
           NEW payload \in AiPayloads, NEW op2, op2 = [op EXCEPT !.payload = payload]
    PROVE  OpOK(a, sh, pr, sd, op2, pc, pt, os, lg)
<1>1. /\ op2 \in AiOperations /\ op2.steps = op.steps /\ op2.lastCall = op.lastCall
      /\ op2.inMap = op.inMap /\ op2.usageReported = op.usageReported /\ op2.schema = op.schema
  BY DEF OpOK, OpTyped, AiOperations
<1>2. OpTyped(a, sh, pr, sd, op2, pt, os, lg)
  BY <1>1 DEF OpOK, OpTyped
<1>3. OpStaged(sh, sd, op2, pc, pt, os, lg)
  BY <1>1 DEF OpOK, OpStaged
<1>4. OpSchemas(sh, sd, op2, os, lg)
  BY <1>1 DEF OpOK, OpSchemas
<1> QED  BY <1>1, <1>2, <1>3, <1>4, OkQuiet DEF OpOK

(* The format promise resolves.                                            *)
LEMMA OkOutputSettles ==
    ASSUME NEW a, NEW sh, NEW pr, NEW sd, NEW op, NEW pc, NEW pt, NEW os, NEW lg,
           OpOK(a, sh, pr, sd, op, pc, pt, os, lg), os = "pending",
           NEW op2, op2 = [op EXCEPT !.schema = TRUE], NEW os2, os2 = "settled",
           NEW lg2, lg2 = IF op.lastCall = 0 THEN lg ELSE [lg EXCEPT ![op.lastCall].schema = TRUE]
    PROVE  OpOK(a, sh, pr, sd, op2, pc, pt, os2, lg2)
<1>1. /\ op2 \in AiOperations /\ op2.steps = op.steps /\ op2.lastCall = op.lastCall
      /\ op2.inMap = op.inMap /\ op2.usageReported = op.usageReported /\ op2.schema
  BY DEF OpOK, OpTyped, AiOperations
<1>2. sd.stage # "new" /\ lg \in Seq(AiEntries(a))
  BY DEF OpOK, OpTyped, OpStaged
<1>3. CASE op.lastCall = 0
  <2>1. OpTyped(a, sh, pr, sd, op2, pt, os2, lg2)
    BY <1>1, <1>3 DEF OpOK, OpTyped
  <2>2. OpStaged(sh, sd, op2, pc, pt, os2, lg2)
    BY <1>1, <1>2, <1>3 DEF OpOK, OpStaged
  <2>3. OpSchemas(sh, sd, op2, os2, lg2)
    BY <1>1, <1>3 DEF OpOK, OpSchemas
  <2>4. OpLogged(sh, pr, sd, op2, lg2) /\ OpLast(sh, sd, op2, lg2)
    BY <1>1, <1>3 DEF OpOK, OpLogged, OpLast
  <2>5. OpSpans(sd, pc, lg2) /\ OpUsage(sh, pr, sd, lg2)
    BY <1>3 DEF OpOK
  <2> QED  BY <2>1, <2>2, <2>3, <2>4, <2>5 DEF OpOK
<1>4. CASE op.lastCall # 0
  <2> PICK k, e : k = op.lastCall /\ e = [lg[k] EXCEPT !.schema = TRUE]
    OBVIOUS
  <2>1. k \in CallsIn(lg) /\ lg2 = PutAt(lg, k, e) /\ k # 0
    BY <1>4 DEF OpOK, OpLast, PutAt
  <2>2. /\ k \in DOMAIN lg /\ lg[k] \in AiEntries(a)
        /\ \A i \in CallsIn(lg) : i \in DOMAIN lg /\ i \in Nat /\ lg[i] \in AiEntries(a)
    BY <1>2, <2>1, CallsFacts
  <2>3. /\ e \in AiEntries(a) /\ e.kind = lg[k].kind /\ e.step = lg[k].step /\ e.usage = lg[k].usage
        /\ e.span = lg[k].span /\ e.payload = lg[k].payload /\ e.result = lg[k].result /\ e.schema
    BY <2>2 DEF AiEntries
  <2>4. /\ lg2 \in Seq(AiEntries(a)) /\ Len(lg2) = Len(lg) /\ DOMAIN lg2 = DOMAIN lg /\ lg2[k] = e
        /\ \A i \in DOMAIN lg : i # k => lg2[i] = lg[i]
        /\ CallsIn(lg2) = CallsIn(lg)
    BY ONLY <1>2, <2>1, <2>2, <2>3, CallsPut
  <2>5. \A i \in CallsIn(lg) :
          /\ lg2[i].kind = lg[i].kind /\ lg2[i].step = lg[i].step /\ lg2[i].usage = lg[i].usage
          /\ lg2[i].span = lg[i].span /\ lg2[i].payload = lg[i].payload
          /\ lg2[i].result = lg[i].result /\ (lg[i].schema => lg2[i].schema)
    BY <2>2, <2>3, <2>4
  <2> PICK C : C = CallsIn(lg)
    OBVIOUS
  <2>6. OpTyped(a, sh, pr, sd, op2, pt, os2, lg2)
    BY <1>1, <2>4 DEF OpOK, OpTyped
  <2>7. OpStaged(sh, sd, op2, pc, pt, os2, lg2)
    BY <1>1, <1>2 DEF OpOK, OpStaged
  <2>8. OpLogged(sh, pr, sd, op2, lg2)
    <3>1. {lg2[i].step : i \in CallsIn(lg2)} = {lg[i].step : i \in CallsIn(lg)}
      BY <2>4, <2>5
    <3>2. pr
      BY <1>4 DEF OpOK, OpLogged
    <3> QED  BY <2>4, <2>5, <3>1, <3>2 DEF OpOK, OpLogged
  <2>9. OpLast(sh, sd, op2, lg2)
    <3>1. op2.lastCall = op.lastCall /\ OpLast(sh, sd, op, lg)
      BY <1>1 DEF OpOK
    <3>2. \A i \in CallsIn(lg) : lg2[i].result = lg[i].result
      BY <2>5
    <3>3. CallsIn(lg2) = CallsIn(lg) /\ Len(lg2) = Len(lg)
      BY <2>4
    <3>4. /\ op2.lastCall \in 0..Len(lg2)
          /\ IF sd.stage = "ended" /\ ~sh.events THEN op2.lastCall = 0
             ELSE /\ op2.lastCall = 0 => CallsIn(lg2) = {}
                  /\ op2.lastCall # 0 =>
                       op2.lastCall \in CallsIn(lg2) /\ \A i \in CallsIn(lg2) : i <= op2.lastCall
      BY ONLY <3>1, <3>3 DEF OpLast
    <3>5. CASE sd.stage = "ended" /\ CallsIn(lg) # {}
      <4>1. PICK m \in CallsIn(lg) : \A i \in CallsIn(lg) : i <= m /\ (lg[i].result <=> i = m)
        BY ONLY <3>1, <3>5 DEF OpLast
      <4>2. \A i \in CallsIn(lg) : i <= m /\ (lg2[i].result <=> i = m)
        BY ONLY <3>2, <4>1
      <4> QED  BY ONLY <3>3, <3>4, <3>5, <4>1, <4>2 DEF OpLast
    <3>6. CASE ~(sd.stage = "ended" /\ CallsIn(lg) # {})
      <4>1. \A i \in CallsIn(lg) : ~lg[i].result
        BY ONLY <3>1, <3>6 DEF OpLast
      <4>2. \A i \in CallsIn(lg) : ~lg2[i].result
        BY ONLY <3>2, <4>1
      <4> QED  BY ONLY <3>3, <3>4, <3>6, <4>2 DEF OpLast
    <3> QED  BY <3>5, <3>6
  <2>10. OpSchemas(sh, sd, op2, os2, lg2)
    <3>1. op2.schema /\ op2.lastCall = k /\ lg2[k].schema
      BY <1>1, <2>3, <2>4
    <3>2. sd.stage = "ended" /\ ~sh.events => \A i \in CallsIn(lg2) : lg2[i].schema
      <4>1. sd.stage = "ended" /\ ~sh.events => \A i \in CallsIn(lg) : lg[i].schema
        BY DEF OpOK, OpSchemas
      <4> QED  BY <2>4, <2>5, <4>1
    <3> QED  BY ONLY <3>1, <3>2, os2 = "settled" DEF OpSchemas
  <2>11. OpSpans(sd, pc, lg2)
    BY <2>4, <2>5 DEF OpOK, OpSpans
  <2>12. UsageIn(lg2) = UsageIn(lg)
    <3>1. [i \in DOMAIN lg2 |-> lg2[i].usage] = [i \in DOMAIN lg |-> lg[i].usage]
      BY <2>3, <2>4
    <3> QED  BY <2>4, <3>1 DEF UsageIn
  <2>13. OpUsage(sh, pr, sd, lg2)
    BY <2>4, <2>5, <2>12 DEF OpOK, OpUsage
  <2> QED  BY <2>6, <2>7, <2>8, <2>9, <2>10, <2>11, <2>13 DEF OpOK
<1> QED  BY <1>3, <1>4

(* The steps of a log that grew by a call.                                 *)
LEMMA CallAdded ==
    ASSUME NEW S, NEW lg \in Seq(S), NEW e \in S, e.kind # "tool",
           NEW lg2, lg2 = Grown(lg, e), NEW spent \in Nat,
           Cardinality(CallsIn(lg)) = spent,
           {lg[i].step : i \in CallsIn(lg)} = 0..Cardinality(CallsIn(lg)) - 1, e.step = spent
    PROVE  /\ Cardinality(CallsIn(lg2)) = spent + 1
           /\ {lg2[i].step : i \in CallsIn(lg2)} = 0..Cardinality(CallsIn(lg2)) - 1
<1> PICK n : GrownBy(S, lg, e, lg2, n)
  BY CallsGrown
<1>0. /\ n \in Nat /\ lg2[n] = e /\ n \notin CallsIn(lg) /\ \A i \in CallsIn(lg) : lg2[i] = lg[i]
      /\ CallsIn(lg2) = CallsIn(lg) \cup {n}
  BY DEF GrownBy
<1>1. IsFiniteSet(CallsIn(lg))
  BY CallsFacts
<1>2. Cardinality(CallsIn(lg2)) = spent + 1
  <2> PICK C, D : C = CallsIn(lg) /\ D = CallsIn(lg2)
    OBVIOUS
  <2>1. IsFiniteSet(C) /\ n \notin C /\ D = C \cup {n} /\ Cardinality(C) = spent
    BY <1>0, <1>1
  <2>2. Cardinality(D) = Cardinality(C) + 1
    BY ONLY <2>1, FS_AddElement
  <2> QED  BY <2>1, <2>2
<1>3. {lg2[i].step : i \in CallsIn(lg2)} = {lg[i].step : i \in CallsIn(lg)} \cup {spent}
  BY <1>0
<1>4. 0..(spent + 1) - 1 = (0..spent - 1) \cup {spent}
  OBVIOUS
<1> QED  BY <1>2, <1>3, <1>4

LEMMA OkToolEnds ==
    ASSUME NEW a, NEW sh, NEW pr, NEW sd, NEW op, NEW pc, NEW pt, NEW os, NEW lg,
           OpOK(a, sh, pr, sd, op, pc, pt, os, lg), pt > 0,
           NEW pt2, pt2 = pt - 1, NEW e \in AiEntries(a), e.kind = "tool",
           NEW lg2, pr => lg2 = Grown(lg, e), ~pr => lg2 = lg
    PROVE  OpOK(a, sh, pr, sd, op, pc, pt2, os, lg2)
<1>1. lg \in Seq(AiEntries(a)) /\ pt \in Nat /\ pr \in BOOLEAN /\ sd.stage = "open"
  BY DEF OpOK, OpTyped, OpStaged
<1>2. pt2 \in Nat /\ pt2 <= pt
  BY <1>1
<1>3. CASE ~pr
  <2>1. lg2 = lg
    BY <1>3
  <2>2. OpTyped(a, sh, pr, sd, op, pt2, os, lg2)
    BY <1>2, <2>1 DEF OpOK, OpTyped
  <2>3. OpStaged(sh, sd, op, pc, pt2, os, lg2)
    BY <1>1, <1>2, <2>1 DEF OpOK, OpTyped, OpStaged, AiSdks
  <2> QED  BY <2>1, <2>2, <2>3 DEF OpOK
<1>4. CASE pr
  <2>0. lg2 = Grown(lg, e)
    BY <1>4
  <2> PICK n : GrownBy(AiEntries(a), lg, e, lg2, n)
    BY <1>1, <2>0, CallsGrown
  <2>1. /\ lg2 \in Seq(AiEntries(a)) /\ Len(lg2) = n /\ n \in Nat
        /\ \A i \in CallsIn(lg) : lg2[i] = lg[i] /\ i <= n
        /\ CallsIn(lg2) = CallsIn(lg) /\ n = Len(lg) + 1
    BY DEF GrownBy
  <2>2. Len(lg) \in Nat /\ Len(lg) <= n /\ op.lastCall \in Nat
    BY <1>1, <2>1, CallsFacts DEF OpOK, OpTyped, AiOperations
  <2>3. OpTyped(a, sh, pr, sd, op, pt2, os, lg2)
    BY <1>2, <2>1 DEF OpOK, OpTyped
  <2>4. OpStaged(sh, sd, op, pc, pt2, os, lg2)
    BY <1>1, <1>2 DEF OpOK, OpTyped, OpStaged, AiSdks
  <2>5. OpLogged(sh, pr, sd, op, lg2)
    <3>1. {lg2[i].step : i \in CallsIn(lg2)} = {lg[i].step : i \in CallsIn(lg)}
      BY <2>1
    <3> QED  BY <1>4, <2>1, <3>1 DEF OpOK, OpLogged
  <2>6. OpLast(sh, sd, op, lg2)
    BY <1>1, <2>1, <2>2 DEF OpOK, OpLast
  <2>7. OpSchemas(sh, sd, op, os, lg2)
    BY <1>1, <2>1, <2>2 DEF OpOK, OpSchemas, OpLast
  <2>8. OpSpans(sd, pc, lg2)
    BY <2>1 DEF OpOK, OpSpans
  <2>9. OpUsage(sh, pr, sd, lg2)
    BY <1>1, <2>1 DEF OpOK, OpUsage
  <2> QED  BY <2>3, <2>4, <2>5, <2>6, <2>7, <2>8, <2>9 DEF OpOK
<1> QED  BY <1>1, <1>3, <1>4

(* A call that ended, or the error of an operation that failed.            *)
LEMMA OkRecords ==
    ASSUME NEW a, NEW sh, NEW pr, NEW sd, NEW op, NEW pc, NEW pt, NEW os, NEW lg,
           OpOK(a, sh, pr, sd, op, pc, pt, os, lg),
           sd.stage \in {"open", "calling", "answered"}, pt = 0,
           NEW e \in AiEntries(a), NEW kind, kind = e.kind, kind \in {"call", "error"},
           kind = "call" => sh.events /\ op.steps < AiMaxSteps,
           kind = "call" <=> sd.stage = "answered",
           e.step = op.steps, ~e.result,
           e.usage = (IF kind = "call" /\ sh.usage = "call" THEN 1 ELSE 0),
           kind = "call" => (op.schema => e.schema),
           e.span # AiNone => e.payload \in AiPayloads /\ e.payload.of = e.span,
           NEW sd2 \in AiSdks, sd2.tools = sd.tools,
           sd2.stage = (IF kind = "call" THEN "open" ELSE "failed"),
           sd2.spent = (IF kind = "call" THEN sd.spent + 1 ELSE sd.spent),
           NEW op2 \in AiOperations, op2.inMap = op.inMap, op2.schema = op.schema,
           op2.steps = (IF kind = "call" THEN op.steps + 1 ELSE op.steps),
           op2.usageReported <=> sh.usage = "call" /\ op2.steps > 0,
           pr => op2.lastCall = Len(lg) + 1, ~pr => op2.lastCall = op.lastCall,
           NEW lg2, pr => lg2 = Grown(lg, e), ~pr => lg2 = lg
    PROVE  OpOK(a, sh, pr, sd2, op2, AiNone, pt, os, lg2)
<1>1. /\ lg \in Seq(AiEntries(a)) /\ pr \in BOOLEAN /\ op.steps \in Nat /\ sd.spent = op.steps
      /\ sd.spent \in Nat /\ op.inMap /\ sd.stage # "new"
  BY DEF OpOK, OpTyped, OpStaged, AiOperations, AiSdks
<1>2. sd2.stage \in {"open", "failed"} /\ sd2.stage \notin Asking /\ op2.steps \in Nat
  BY <1>1 DEF Asking
<1>3. lg2 \in Seq(AiEntries(a))
  <2>1. CASE pr
    <3>1. lg2 = Grown(lg, e)
      BY <2>1
    <3>2. GrownBy(AiEntries(a), lg, e, lg2, Len(lg) + 1)
      BY <1>1, <3>1, CallsGrown
    <3> QED  BY <3>2 DEF GrownBy
  <2> QED  BY <1>1, <2>1
<1>4. OpTyped(a, sh, pr, sd2, op2, pt, os, lg2)
  BY <1>3 DEF OpOK, OpTyped
<1>5. OpStaged(sh, sd2, op2, AiNone, pt, os, lg2)
  <2>1. op.steps <= AiMaxSteps /\ AiMaxSteps \in Nat
    BY AiNotNone DEF OpOK, OpStaged
  <2>2. op2.steps <= AiMaxSteps /\ sd2.spent = op2.steps
    BY <1>1, <2>1
  <2>3. ~sh.events => op2.steps = 0
    BY DEF OpOK, OpStaged
  <2>4. pt <= sd2.tools
    BY DEF OpOK, OpStaged
  <2> QED  BY <1>1, <1>2, <2>2, <2>3, <2>4 DEF OpStaged
<1>6. CASE ~pr
  <2>1. lg2 = lg /\ lg = <<>> /\ CallsIn(lg) = {} /\ op2.lastCall = 0 /\ op.lastCall = 0
    <3>1. lg2 = lg /\ lg = <<>> /\ op2.lastCall = 0 /\ op.lastCall = 0
      BY <1>6 DEF OpOK, OpLogged
    <3>2. DOMAIN lg = {}
      BY <3>1
    <3> QED  BY <3>1, <3>2 DEF CallsIn
  <2>2. OpLogged(sh, pr, sd2, op2, lg2)
    BY <1>6, <2>1 DEF OpLogged
  <2>3. OpLast(sh, sd2, op2, lg2)
    BY <1>2, <2>1 DEF OpLast, OpOK
  <2>4. OpSchemas(sh, sd2, op2, os, lg2)
    BY <1>1, <1>2, <2>1 DEF OpSchemas, OpOK
  <2>5. OpSpans(sd2, AiNone, lg2) /\ OpUsage(sh, pr, sd2, lg2)
    BY <1>2, <1>6, <2>1 DEF OpSpans, OpUsage
  <2> QED  BY <1>4, <1>5, <2>2, <2>3, <2>4, <2>5 DEF OpOK
<1>7. CASE pr
  <2>0. lg2 = Grown(lg, e) /\ op2.lastCall = Len(lg) + 1 /\ e.kind # "tool"
    BY <1>7
  <2> PICK n : GrownBy(AiEntries(a), lg, e, lg2, n)
    BY <1>1, <2>0, CallsGrown
  <2>1. /\ lg2 = Grown(lg, e) /\ op2.lastCall = n
        /\ Len(lg2) = n /\ n \in Nat /\ n # 0 /\ lg2[n] = e /\ n \notin CallsIn(lg)
        /\ \A i \in CallsIn(lg) : lg2[i] = lg[i] /\ i <= n
        /\ CallsIn(lg2) = CallsIn(lg) \cup {n}
    BY <2>0 DEF GrownBy
  <2>2. OpLogged(sh, pr, sd2, op2, lg2)
    <3>1. /\ Cardinality(CallsIn(lg)) = sd.spent
          /\ {lg[i].step : i \in CallsIn(lg)} = 0..Cardinality(CallsIn(lg)) - 1
          /\ \A i \in CallsIn(lg) : lg[i].kind = "call"
      BY <1>1, <1>7 DEF OpOK, OpLogged
    <3>2. /\ Cardinality(CallsIn(lg2)) = sd.spent + 1
          /\ {lg2[i].step : i \in CallsIn(lg2)} = 0..Cardinality(CallsIn(lg2)) - 1
      <4>1. /\ lg \in Seq(AiEntries(a)) /\ e \in AiEntries(a) /\ e.kind # "tool" /\ e.step = sd.spent
            /\ lg2 = Grown(lg, e) /\ sd.spent \in Nat
        BY <1>1, <2>1
      <4> QED  BY ONLY <3>1, <4>1, CallAdded
    <3>3. sd2.spent + (IF sd2.stage = "failed" THEN 1 ELSE 0) = sd.spent + 1
      BY <1>1
    <3> QED  BY <1>7, <2>1, <3>1, <3>2, <3>3 DEF OpLogged
  <2>3. OpLast(sh, sd2, op2, lg2)
    <3>1. \A i \in CallsIn(lg) : ~lg[i].result
      BY <1>1 DEF OpOK, OpLast
    <3> QED  BY <1>2, <2>1, <3>1 DEF OpLast
  <2>4. OpSchemas(sh, sd2, op2, os, lg2)
    BY <1>1, <1>2, <2>1 DEF OpSchemas, OpOK
  <2>5. OpSpans(sd2, AiNone, lg2)
    BY <1>2, <2>1 DEF OpSpans, OpOK
  <2>6. OpUsage(sh, pr, sd2, lg2)
    BY <1>1, <1>2, <2>1 DEF OpUsage, OpOK
  <2> QED  BY <1>4, <1>5, <2>2, <2>3, <2>4, <2>5, <2>6 DEF OpOK
<1> QED  BY <1>1, <1>6, <1>7

(* The usage of a turn that ended, folded into its last call.              *)
LEMMA UsageFolded ==
    ASSUME NEW a, NEW lg \in Seq(AiEntries(a)), NEW k \in CallsIn(lg), NEW n \in {0, 1},
           \A i \in CallsIn(lg) : lg[i].usage = n, NEW spent \in Nat,
           Cardinality(CallsIn(lg)) = spent,
           NEW e \in AiEntries(a), e.kind = lg[k].kind, e.usage = (IF n = 1 THEN 1 ELSE spent),
           NEW lg2, lg2 = PutAt(lg, k, e)
    PROVE  UsageIn(lg2) = spent
<1>1. k \in DOMAIN lg /\ IsFiniteSet(CallsIn(lg))
  BY CallsFacts
<1>2. /\ DOMAIN lg2 = DOMAIN lg /\ lg2[k] = e /\ \A i \in DOMAIN lg : i # k => lg2[i] = lg[i]
      /\ CallsIn(lg2) = CallsIn(lg)
  BY <1>1, CallsPut
<1> PICK C, f : C = CallsIn(lg) /\ f = [i \in DOMAIN lg2 |-> lg2[i].usage]
  OBVIOUS
<1>3. /\ IsFiniteSet(C) /\ k \in C /\ f[k] = (IF n = 1 THEN 1 ELSE spent)
      /\ \A i \in C : i # k => f[i] = n
      /\ \A i \in C : f[i] \in Nat
      /\ Cardinality(C) = spent /\ UsageIn(lg2) = Total(f, C)
  <2>1. C \subseteq DOMAIN lg /\ \A i \in C : f[i] = lg2[i].usage
    BY <1>2 DEF CallsIn
  <2>2. e.usage \in Nat /\ n \in Nat
    BY DEF AiEntries
  <2>3. UsageIn(lg2) = Total(f, C)
    BY <1>2 DEF UsageIn
  <2>4. \A i \in C : i # k => f[i] = n
    BY <1>2, <2>1
  <2>5. f[k] = e.usage /\ k \in C
    BY <1>2, <2>1
  <2> QED  BY <1>1, <2>2, <2>3, <2>4, <2>5
<1>4. CASE n = 1
  <2>1. \A i \in C : f[i] = 1
    BY <1>3, <1>4
  <2>2. Total(f, C) = 1 * Cardinality(C)
    BY ONLY <1>3, <2>1, TotalOfSame
  <2> QED  BY <1>3, <2>2
<1>5. CASE n = 0
  <2> PICK D : D = C \ {k}
    OBVIOUS
  <2>1. IsFiniteSet(D) /\ n \in {0, 1} /\ \A i \in D : f[i] = n
    BY <1>3, <1>5, FS_RemoveElement
  <2>4. Total(f, D) = n * Cardinality(D) /\ Cardinality(D) \in Nat
    BY ONLY <2>1, TotalOfSame, FS_CardinalityType
  <2>2. Total(f, D) = 0
    BY <1>5, <2>4
  <2>3. Total(f, C) = f[k] + Total(f, D)
    <3>1. IsFiniteSet(C) /\ \A i \in C : f[i] \in Nat
      BY <1>3
    <3>2. \A x \in C : Total(f, C) = f[x] + Total(f, C \ {x})
      BY ONLY <3>1, TotalFacts
    <3> QED  BY <1>3, <3>2
  <2>5. f[k] = spent
    BY <1>3, <1>5
  <2> QED  BY <1>3, <2>2, <2>3, <2>5
<1> QED  BY <1>4, <1>5

LEMMA OkEnds ==
    ASSUME NEW a, NEW sh, NEW pr, NEW sd, NEW op, NEW pc, NEW pt, NEW os, NEW lg,
           OpOK(a, sh, pr, sd, op, pc, pt, os, lg), sd.stage = "open", pt = 0,
           sh.events, op.steps > 0,
           NEW sd2, sd2 = [sd EXCEPT !.stage = "ended"],
           NEW op2, op2 = [op EXCEPT !.inMap = FALSE],
           NEW e, op.lastCall # 0 =>
              e = [(IF sh.harness /\ ~op.usageReported /\ sd.spent > 0
                    THEN [lg[op.lastCall] EXCEPT !.usage = sd.spent] ELSE lg[op.lastCall])
                   EXCEPT !.result = TRUE],
           NEW lg2, lg2 = IF op.lastCall = 0 THEN lg ELSE PutAt(lg, op.lastCall, e)
    PROVE  OpOK(a, sh, pr, sd2, op2, pc, pt, os, lg2)
<1>1. /\ op2 \in AiOperations /\ op2.steps = op.steps /\ op2.lastCall = op.lastCall
      /\ ~op2.inMap /\ op2.usageReported = op.usageReported /\ op2.schema = op.schema
  BY DEF OpOK, OpTyped, AiOperations
<1>2. sd2 \in AiSdks /\ sd2.stage = "ended" /\ sd2.spent = sd.spent /\ sd2.tools = sd.tools
  BY DEF OpOK, OpTyped, AiSdks, AiStages
<1>3. /\ lg \in Seq(AiEntries(a)) /\ pr \in BOOLEAN /\ sd.spent = op.steps /\ sd.spent \in Nat
      /\ op.steps \in Nat /\ pc = AiNone
  BY DEF OpOK, OpTyped, OpStaged, AiOperations, Asking
<1>4. OpStaged(sh, sd2, op2, pc, pt, os, lg2)
  BY <1>1, <1>2, <1>3 DEF OpOK, OpStaged, Asking
<1>5. CASE op.lastCall = 0
  <2>1. lg2 = lg /\ CallsIn(lg) = {}
    BY <1>5 DEF OpOK, OpLast
  <2>2. ~pr
    <3>1. CallsIn(lg) = {} => Cardinality(CallsIn(lg)) = 0
      BY FS_EmptySet
    <3> QED  BY <1>3, <2>1, <3>1 DEF OpOK, OpLogged
  <2>3. OpTyped(a, sh, pr, sd2, op2, pt, os, lg2)
    BY <1>1, <1>2, <2>1 DEF OpOK, OpTyped
  <2>4. OpLogged(sh, pr, sd2, op2, lg2)
    BY <1>1, <2>1, <2>2 DEF OpOK, OpLogged
  <2>5. OpLast(sh, sd2, op2, lg2)
    BY <1>1, <1>2, <1>5, <2>1 DEF OpOK, OpLast
  <2>6. OpSchemas(sh, sd2, op2, os, lg2) /\ OpSpans(sd2, pc, lg2) /\ OpUsage(sh, pr, sd2, lg2)
    BY <1>1, <1>2, <1>5, <2>1, <2>2 DEF OpOK, OpSchemas, OpSpans, OpUsage
  <2> QED  BY <1>4, <2>3, <2>4, <2>5, <2>6 DEF OpOK
<1>6. CASE op.lastCall # 0
  <2> PICK k : k = op.lastCall
    OBVIOUS
  <2>1. k \in CallsIn(lg) /\ lg2 = PutAt(lg, k, e) /\ k # 0 /\ pr /\ \A i \in CallsIn(lg) : i <= k
    BY <1>3, <1>6 DEF OpOK, OpLast, OpLogged
  <2>2. /\ k \in DOMAIN lg /\ lg[k] \in AiEntries(a)
        /\ \A i \in CallsIn(lg) : i \in DOMAIN lg /\ i \in Nat /\ lg[i] \in AiEntries(a)
    BY <1>3, <2>1, CallsFacts
  <2> PICK n \in {0, 1} : n = IF sh.usage = "call" THEN 1 ELSE 0
    OBVIOUS
  <2>3. sh.usage \in {"call", "turn"} /\ (sh.usage = "turn" => sh.harness)
    BY DEF OpOK, OpTyped, AiShape
  <2>4. op.usageReported <=> sh.usage = "call"
    BY DEF OpOK, OpStaged
  <2>5. \A i \in CallsIn(lg) : lg[i].kind = "call" /\ lg[i].usage = n
    BY DEF OpOK, OpLogged, OpUsage
  <2>6. e = IF n = 1 THEN [lg[k] EXCEPT !.result = TRUE]
            ELSE [lg[k] EXCEPT !.usage = sd.spent, !.result = TRUE]
    <3>1. n = 1 => ~(sh.harness /\ ~op.usageReported /\ sd.spent > 0)
      BY <2>4
    <3>2. n # 1 => sh.harness /\ ~op.usageReported /\ sd.spent > 0
      BY <1>3, <2>3, <2>4
    <3>3. e = [(IF sh.harness /\ ~op.usageReported /\ sd.spent > 0
                    THEN [lg[k] EXCEPT !.usage = sd.spent] ELSE lg[k])
                   EXCEPT !.result = TRUE]
      BY <1>6
    <3> QED  BY <3>1, <3>2, <3>3
  <2>7. /\ e \in AiEntries(a) /\ e.kind = lg[k].kind /\ e.step = lg[k].step
        /\ e.usage = (IF n = 1 THEN 1 ELSE sd.spent) /\ e.result
        /\ e.span = lg[k].span /\ e.payload = lg[k].payload /\ e.schema = lg[k].schema
    <3>1. lg[k].usage = n /\ sd.spent \in Nat
      BY <1>3, <2>1, <2>5
    <3> QED  BY <2>2, <2>6, <3>1 DEF AiEntries
  <2>8. /\ lg2 \in Seq(AiEntries(a)) /\ Len(lg2) = Len(lg) /\ DOMAIN lg2 = DOMAIN lg /\ lg2[k] = e
        /\ \A i \in DOMAIN lg : i # k => lg2[i] = lg[i]
        /\ CallsIn(lg2) = CallsIn(lg)
    BY ONLY <1>3, <2>1, <2>2, <2>7, CallsPut
  <2>9. \A i \in CallsIn(lg) :
          /\ lg2[i].kind = lg[i].kind /\ lg2[i].step = lg[i].step
          /\ lg2[i].span = lg[i].span /\ lg2[i].payload = lg[i].payload
          /\ lg2[i].schema = lg[i].schema /\ (i # k => lg2[i].result = lg[i].result)
    BY <2>2, <2>7, <2>8
  <2>10. OpTyped(a, sh, pr, sd2, op2, pt, os, lg2)
    BY <1>1, <1>2, <2>8 DEF OpOK, OpTyped
  <2>11. OpLogged(sh, pr, sd2, op2, lg2)
    <3>1. {lg2[i].step : i \in CallsIn(lg2)} = {lg[i].step : i \in CallsIn(lg)}
      BY <2>8, <2>9
    <3>2. Cardinality(CallsIn(lg2)) = sd2.spent + (IF sd2.stage = "failed" THEN 1 ELSE 0)
      BY <1>2, <2>1, <2>8 DEF OpOK, OpLogged
    <3>3. {lg2[i].step : i \in CallsIn(lg2)} = 0..Cardinality(CallsIn(lg2)) - 1
      BY <2>1, <2>8, <3>1 DEF OpOK, OpLogged
    <3>4. \A i \in CallsIn(lg2) : lg2[i].kind = "call"
      BY <2>5, <2>8, <2>9
    <3> QED  BY ONLY <2>1, <3>2, <3>3, <3>4 DEF OpLogged
  <2>12. OpLast(sh, sd2, op2, lg2)
    <3>1. \A i \in CallsIn(lg) : ~lg[i].result
      BY DEF OpOK, OpLast
    <3>2. \A i \in CallsIn(lg2) : i <= k /\ (lg2[i].result <=> i = k)
      BY <2>1, <2>7, <2>8, <2>9, <3>1
    <3>3. op2.lastCall = k /\ k \in CallsIn(lg2) /\ op.lastCall \in 0..Len(lg)
      BY <1>1, <2>1, <2>8 DEF OpOK, OpLast
    <3> QED  BY <1>2, <2>1, <2>8, <3>2, <3>3 DEF OpLast
  <2>13. OpSchemas(sh, sd2, op2, os, lg2)
    <3>1. lg2[k].schema = lg[k].schema
      BY <2>1, <2>9
    <3> QED  BY <1>1, <1>2, <2>1, <3>1 DEF OpOK, OpSchemas
  <2>14. OpSpans(sd2, pc, lg2)
    BY <1>2, <2>8, <2>9 DEF OpOK, OpSpans
  <2>15. UsageIn(lg2) = sd.spent
    <3>1. Cardinality(CallsIn(lg)) = sd.spent
      BY <1>3, <2>1 DEF OpOK, OpLogged
    <3> QED  BY <1>3, <2>1, <2>5, <2>7, <3>1, UsageFolded
  <2>16. OpUsage(sh, pr, sd2, lg2)
    BY <1>2, <2>15 DEF OpUsage
  <2> QED  BY <1>4, <2>10, <2>11, <2>12, <2>13, <2>14, <2>16 DEF OpOK
<1> QED  BY <1>5, <1>6

LEMMA OkObjectEnds ==
    ASSUME NEW a, NEW sh, NEW pr, NEW sd, NEW op, NEW pc, NEW pt, NEW os, NEW lg,
           OpOK(a, sh, pr, sd, op, pc, pt, os, lg), sd.stage = "open", ~sh.events,
           NEW sd2 \in AiSdks, sd2.stage = "ended", sd2.spent = sd.spent + 1, sd2.tools = sd.tools,
           NEW op2, op2 = [op EXCEPT !.inMap = FALSE],
           NEW e \in AiEntries(a), e.kind = "call", e.step = 0, e.usage = 1, e.result,
           e.schema = op.schema, e.span = AiNone,
           NEW lg2, pr => lg2 = Grown(lg, e), ~pr => lg2 = lg
    PROVE  OpOK(a, sh, pr, sd2, op2, pc, pt, os, lg2)
<1>1. /\ op2 \in AiOperations /\ op2.steps = op.steps /\ op2.lastCall = op.lastCall
      /\ ~op2.inMap /\ op2.usageReported = op.usageReported /\ op2.schema = op.schema
  BY DEF OpOK, OpTyped, AiOperations
<1> PICK spent \in Nat : spent = sd2.spent
  BY DEF AiSdks
<1>2. sd2 \in AiSdks /\ sd2.stage = "ended" /\ sd2.spent = spent /\ sd2.tools = sd.tools
  OBVIOUS
<1>3. /\ lg \in Seq(AiEntries(a)) /\ pr \in BOOLEAN /\ op.steps = 0 /\ sd.spent = 0 /\ spent = 1
      /\ pc = AiNone /\ sh.output = "direct" /\ ~op.usageReported /\ pt = 0 /\ sd.stage # "failed"
  BY DEF OpOK, OpTyped, OpStaged, Asking
<1>4. OpStaged(sh, sd2, op2, pc, pt, os, lg2)
  BY <1>1, <1>2, <1>3 DEF OpOK, OpStaged, Asking
<1>5. CallsIn(lg) = {} /\ op.lastCall = 0
  <2>1. pr => Cardinality(CallsIn(lg)) = 0
    BY <1>3 DEF OpOK, OpLogged
  <2>2. IsFiniteSet(CallsIn(lg))
    BY <1>3, CallsFacts
  <2>3. pr => CallsIn(lg) = {}
    BY <2>1, <2>2, FS_EmptySet
  <2>4. ~pr => CallsIn(lg) = {}
    <3>1. ~pr => lg = <<>>
      BY DEF OpOK, OpLogged
    <3> QED  BY <3>1 DEF CallsIn
  <2>5. op.lastCall # 0 => op.lastCall \in CallsIn(lg)
    BY DEF OpOK, OpLast
  <2>6. CallsIn(lg) = {}
    BY <1>3, <2>3, <2>4
  <2> QED  BY ONLY <2>5, <2>6
<1>6. op.schema
  BY <1>3 DEF OpOK, OpStaged, OpSchemas, OpTyped
<1>7. CASE ~pr
  <2>1. lg2 = lg
    BY <1>7
  <2>2. OpTyped(a, sh, pr, sd2, op2, pt, os, lg2)
    BY <1>1, <1>2, <2>1 DEF OpOK, OpTyped
  <2>3. OpLogged(sh, pr, sd2, op2, lg2)
    BY <1>1, <1>7, <2>1 DEF OpOK, OpLogged
  <2>4. OpLast(sh, sd2, op2, lg2)
    BY <1>1, <1>2, <1>5, <2>1 DEF OpOK, OpLast
  <2>5. OpSchemas(sh, sd2, op2, os, lg2) /\ OpSpans(sd2, pc, lg2) /\ OpUsage(sh, pr, sd2, lg2)
    BY <1>1, <1>2, <1>5, <1>6, <1>7, <2>1 DEF OpOK, OpSchemas, OpSpans, OpUsage
  <2> QED  BY <1>4, <2>2, <2>3, <2>4, <2>5 DEF OpOK
<1>8. CASE pr
  <2>0. lg2 = Grown(lg, e)
    BY <1>8
  <2> PICK n : GrownBy(AiEntries(a), lg, e, lg2, n)
    BY <1>3, <2>0, CallsGrown
  <2>1. /\ lg2 \in Seq(AiEntries(a)) /\ Len(lg2) = n /\ n \in Nat /\ lg2[n] = e
        /\ CallsIn(lg2) = {n}
    BY <1>5 DEF GrownBy
  <2>2. Cardinality(CallsIn(lg2)) = 1
    BY <2>1, FS_Singleton
  <2>3. OpTyped(a, sh, pr, sd2, op2, pt, os, lg2)
    BY <1>1, <1>2, <2>1 DEF OpOK, OpTyped
  <2>4. OpLogged(sh, pr, sd2, op2, lg2)
    <3>1. {lg2[i].step : i \in CallsIn(lg2)} = {0} /\ 0..1 - 1 = {0}
      BY <2>1
    <3>2. \A i \in CallsIn(lg2) : lg2[i].kind = "call"
      BY <2>1
    <3>3. sd2.spent + (IF sd2.stage = "failed" THEN 1 ELSE 0) = 1
      BY <1>2, <1>3
    <3> QED  BY ONLY <1>8, <2>2, <3>1, <3>2, <3>3 DEF OpLogged
  <2>5. OpLast(sh, sd2, op2, lg2)
    <3>1. op2.lastCall = 0
      BY <1>1, <1>5
    <3> QED  BY <1>2, <2>1, <3>1 DEF OpLast
  <2>6. OpSchemas(sh, sd2, op2, os, lg2)
    BY <1>1, <1>2, <1>5, <1>6, <2>1 DEF OpSchemas, OpOK
  <2>7. OpSpans(sd2, pc, lg2)
    BY <1>2, <2>1 DEF OpSpans
  <2>8. OpUsage(sh, pr, sd2, lg2)
    <3> PICK f, C : f = [i \in DOMAIN lg2 |-> lg2[i].usage] /\ C = CallsIn(lg2)
      OBVIOUS
    <3>1. IsFiniteSet(C) /\ \A i \in C : f[i] = 1
      <4>1. C = {n} /\ n \in DOMAIN lg2 /\ lg2[n].usage = 1
        BY <2>1 DEF CallsIn
      <4> QED  BY <4>1, FS_Singleton
    <3>2. Total(f, C) = 1 * Cardinality(C)
      BY ONLY <3>1, TotalOfSame
    <3>3. UsageIn(lg2) = 1
      BY <2>2, <3>2 DEF UsageIn
    <3> QED  BY <1>2, <1>3, <3>3 DEF OpUsage
  <2> QED  BY <1>4, <2>3, <2>4, <2>5, <2>6, <2>7, <2>8 DEF OpOK
<1> QED  BY <1>3, <1>7, <1>8

-----------------------------------------------------------------------------
(* A slot of an operation: a call it recorded, or the pending one (0), and *)
(* the span it holds.                                                      *)
HoldsSpan(sd, pc, lg, i, span) ==
    /\ span # AiNone
    /\ \/ i # 0 /\ i \in CallsIn(lg) /\ span = lg[i].span
       \/ i = 0 /\ sd.stage \in Asking /\ span = pc.span
Apart(n, pr, sdk, pcs, logs) ==
    /\ n \in Nat
    /\ \A o \in AiOps : \A i, s : HoldsSpan(sdk[o], pcs[o], logs[o], i, s) => s \in Nat /\ s <= n /\ pr[o]
    /\ \A o, p \in AiOps : \A i, j, s :
          HoldsSpan(sdk[o], pcs[o], logs[o], i, s) /\ HoldsSpan(sdk[p], pcs[p], logs[p], j, s) => o = p /\ i = j

SameElsewhere(o, f, g) == \A p \in AiOps : p # o => g[p] = f[p]

LEMMA ApartKept ==
    ASSUME NEW n, NEW pr, NEW sdk, NEW pcs, NEW logs, Apart(n, pr, sdk, pcs, logs),
           NEW sdk2, NEW pcs2, NEW logs2, NEW o \in AiOps,
           SameElsewhere(o, sdk, sdk2), SameElsewhere(o, pcs, pcs2), SameElsewhere(o, logs, logs2),
           \A i, s : HoldsSpan(sdk2[o], pcs2[o], logs2[o], i, s) => HoldsSpan(sdk[o], pcs[o], logs[o], i, s)
    PROVE  Apart(n, pr, sdk2, pcs2, logs2)
<1>1. \A p \in AiOps : \A i, s : HoldsSpan(sdk2[p], pcs2[p], logs2[p], i, s) => HoldsSpan(sdk[p], pcs[p], logs[p], i, s)
  BY DEF SameElsewhere
<1>2. ASSUME NEW p \in AiOps, NEW i, NEW s, HoldsSpan(sdk2[p], pcs2[p], logs2[p], i, s)
      PROVE  s \in Nat /\ s <= n /\ pr[p]
  <2>1. HoldsSpan(sdk[p], pcs[p], logs[p], i, s)
    BY <1>1, <1>2
  <2> QED  BY ONLY <2>1, Apart(n, pr, sdk, pcs, logs), p \in AiOps DEF Apart
<1>3. ASSUME NEW p \in AiOps, NEW q \in AiOps, NEW i, NEW j, NEW s,
             HoldsSpan(sdk2[p], pcs2[p], logs2[p], i, s), HoldsSpan(sdk2[q], pcs2[q], logs2[q], j, s)
      PROVE  p = q /\ i = j
  <2>1. HoldsSpan(sdk[p], pcs[p], logs[p], i, s) /\ HoldsSpan(sdk[q], pcs[q], logs[q], j, s)
    BY <1>1, <1>3
  <2> QED  BY ONLY <2>1, Apart(n, pr, sdk, pcs, logs), p \in AiOps, q \in AiOps DEF Apart
<1>4. n \in Nat
  BY DEF Apart
<1> QED  BY ONLY <1>2, <1>3, <1>4 DEF Apart

SpansMoved(sd, pc, lg, sd2, pc2, lg2) ==
    \E k : k # 0 /\ \A i, s : HoldsSpan(sd2, pc2, lg2, i, s) =>
       \/ i # 0 /\ i # k /\ HoldsSpan(sd, pc, lg, i, s)
       \/ i = k /\ HoldsSpan(sd, pc, lg, 0, s)

LEMMA ApartRecorded ==
    ASSUME NEW n, NEW pr, NEW sdk, NEW pcs, NEW logs, Apart(n, pr, sdk, pcs, logs),
           NEW sdk2, NEW pcs2, NEW logs2, NEW o \in AiOps,
           SameElsewhere(o, sdk, sdk2), SameElsewhere(o, pcs, pcs2), SameElsewhere(o, logs, logs2),
           SpansMoved(sdk[o], pcs[o], logs[o], sdk2[o], pcs2[o], logs2[o])
    PROVE  Apart(n, pr, sdk2, pcs2, logs2)
<1> PICK k : k # 0 /\ \A i, s : HoldsSpan(sdk2[o], pcs2[o], logs2[o], i, s) =>
               \/ i # 0 /\ i # k /\ HoldsSpan(sdk[o], pcs[o], logs[o], i, s)
               \/ i = k /\ HoldsSpan(sdk[o], pcs[o], logs[o], 0, s)
  BY DEF SpansMoved
<1>1. \A p \in AiOps : p # o =>
        \A i, s : HoldsSpan(sdk2[p], pcs2[p], logs2[p], i, s) => HoldsSpan(sdk[p], pcs[p], logs[p], i, s)
  BY DEF SameElsewhere
<1> DEFINE Was(p, i) == IF p = o /\ i = k THEN 0 ELSE i
<1>2. \A p \in AiOps : \A i, s :
        HoldsSpan(sdk2[p], pcs2[p], logs2[p], i, s) =>
           HoldsSpan(sdk[p], pcs[p], logs[p], Was(p, i), s) /\ (p = o => i # 0)
  BY <1>1
<1>3. \A p \in AiOps : \A i, j : (p = o => i # 0 /\ j # 0) /\ Was(p, i) = Was(p, j) => i = j
  OBVIOUS
<1> HIDE DEF Was
<1>4. ASSUME NEW p \in AiOps, NEW i, NEW s, HoldsSpan(sdk2[p], pcs2[p], logs2[p], i, s)
      PROVE  s \in Nat /\ s <= n /\ pr[p]
  <2>1. HoldsSpan(sdk[p], pcs[p], logs[p], Was(p, i), s)
    BY <1>2, <1>4
  <2> QED  BY ONLY <2>1, Apart(n, pr, sdk, pcs, logs), p \in AiOps DEF Apart
<1>5. ASSUME NEW p \in AiOps, NEW q \in AiOps, NEW i, NEW j, NEW s,
             HoldsSpan(sdk2[p], pcs2[p], logs2[p], i, s), HoldsSpan(sdk2[q], pcs2[q], logs2[q], j, s)
      PROVE  p = q /\ i = j
  <2>1. /\ HoldsSpan(sdk[p], pcs[p], logs[p], Was(p, i), s) /\ HoldsSpan(sdk[q], pcs[q], logs[q], Was(q, j), s)
        /\ (p = o => i # 0) /\ (q = o => j # 0)
    BY <1>2, <1>5
  <2>2. p = q /\ Was(p, i) = Was(q, j)
    BY ONLY <2>1, Apart(n, pr, sdk, pcs, logs), p \in AiOps, q \in AiOps DEF Apart
  <2> QED  BY <1>3, <2>1, <2>2
<1>6. n \in Nat
  BY DEF Apart
<1> QED  BY ONLY <1>4, <1>5, <1>6 DEF Apart

LEMMA ApartReserved ==
    ASSUME NEW n, NEW pr, NEW sdk, NEW pcs, NEW logs, Apart(n, pr, sdk, pcs, logs),
           NEW sdk2, NEW pcs2, NEW logs2, NEW o \in AiOps,
           SameElsewhere(o, sdk, sdk2), SameElsewhere(o, pcs, pcs2), SameElsewhere(o, logs, logs2),
           pr[o],
           \A i, s : HoldsSpan(sdk2[o], pcs2[o], logs2[o], i, s) =>
              \/ i # 0 /\ HoldsSpan(sdk[o], pcs[o], logs[o], i, s)
              \/ i = 0 /\ s = n + 1
    PROVE  Apart(n + 1, pr, sdk2, pcs2, logs2)
<1>1. \A p \in AiOps : p # o =>
        \A i, s : HoldsSpan(sdk2[p], pcs2[p], logs2[p], i, s) => HoldsSpan(sdk[p], pcs[p], logs[p], i, s)
  BY DEF SameElsewhere
<1>2. n \in Nat /\ \A p \in AiOps : \A i : ~HoldsSpan(sdk[p], pcs[p], logs[p], i, n + 1)
  BY DEF Apart
<1> PICK m : m = n + 1
  OBVIOUS
<1>3. m \in Nat /\ \A s \in Nat : s <= n => s <= m
  BY <1>2
<1>4. \A p \in AiOps : \A i, s : HoldsSpan(sdk2[p], pcs2[p], logs2[p], i, s) =>
        \/ (p # o \/ i # 0) /\ HoldsSpan(sdk[p], pcs[p], logs[p], i, s)
        \/ p = o /\ i = 0 /\ s = m
  BY <1>1
<1>5. \A p \in AiOps : \A i : ~HoldsSpan(sdk[p], pcs[p], logs[p], i, m)
  BY <1>2
<1>6. ASSUME NEW p \in AiOps, NEW i, NEW s, HoldsSpan(sdk2[p], pcs2[p], logs2[p], i, s)
      PROVE  s \in Nat /\ s <= m /\ pr[p]
  <2>1. CASE HoldsSpan(sdk[p], pcs[p], logs[p], i, s)
    <3>1. s \in Nat /\ s <= n /\ pr[p]
      BY ONLY <2>1, Apart(n, pr, sdk, pcs, logs), p \in AiOps DEF Apart
    <3> QED  BY <1>3, <3>1
  <2>2. CASE p = o /\ s = m
    BY <1>3, <2>2
  <2> QED  BY <1>4, <1>6, <2>1, <2>2
<1>7. ASSUME NEW p \in AiOps, NEW q \in AiOps, NEW i, NEW j, NEW s,
             HoldsSpan(sdk2[p], pcs2[p], logs2[p], i, s), HoldsSpan(sdk2[q], pcs2[q], logs2[q], j, s)
      PROVE  p = q /\ i = j
  <2>1. CASE s = m
    <3>1. HoldsSpan(sdk2[p], pcs2[p], logs2[p], i, m) /\ HoldsSpan(sdk2[q], pcs2[q], logs2[q], j, m)
      BY ONLY <1>7, <2>1
    <3>2. p = o /\ i = 0
      BY ONLY <1>4, <1>5, <3>1, p \in AiOps
    <3>3. q = o /\ j = 0
      BY ONLY <1>4, <1>5, <3>1, q \in AiOps
    <3> QED  BY ONLY <3>2, <3>3
  <2>2. CASE s # m
    <3>1. HoldsSpan(sdk[p], pcs[p], logs[p], i, s) /\ HoldsSpan(sdk[q], pcs[q], logs[q], j, s)
      BY <1>4, <1>7, <2>2
    <3> QED  BY ONLY <3>1, Apart(n, pr, sdk, pcs, logs), p \in AiOps, q \in AiOps DEF Apart
  <2> QED  BY <2>1, <2>2
<1>8. Apart(m, pr, sdk2, pcs2, logs2)
  BY ONLY <1>3, <1>6, <1>7 DEF Apart
<1> QED  BY <1>8

(* The panel covers operations that are over, and what they spent.         *)
Covers(panel, pr, sdk) ==
    panel # AiNone =>
       /\ panel.over \subseteq AiOps
       /\ \A o \in panel.over : pr[o] /\ sdk[o].stage = "ended"
       /\ panel.totalTokens \in Nat
       /\ panel.totalTokens >= Total([o \in AiOps |-> sdk[o].spent], panel.over)

LEMMA CoversStill ==
    ASSUME NEW panel, NEW pr, NEW sdk, Covers(panel, pr, sdk), NEW sdk2,
           \A o \in AiOps : sdk[o].spent \in Nat,
           NEW o \in AiOps, SameElsewhere(o, sdk, sdk2), sdk2 = sdk \/ sdk[o].stage # "ended"
    PROVE  Covers(panel, pr, sdk2)
<1> SUFFICES ASSUME panel # AiNone PROVE Covers(panel, pr, sdk2)
  BY DEF Covers
<1>1. /\ panel.over \subseteq AiOps /\ \A p \in panel.over : pr[p] /\ sdk[p].stage = "ended"
      /\ panel.totalTokens \in Nat
      /\ panel.totalTokens >= Total([p \in AiOps |-> sdk[p].spent], panel.over)
  BY DEF Covers
<1>2. \A p \in panel.over : sdk2[p] = sdk[p]
  BY <1>1 DEF SameElsewhere
<1> PICK f, g : f = [p \in AiOps |-> sdk[p].spent] /\ g = [p \in AiOps |-> sdk2[p].spent]
  OBVIOUS
<1> PICK S : S = panel.over
  OBVIOUS
<1>3. IsFiniteSet(S) /\ \A p \in S : f[p] \in Nat /\ f[p] = g[p]
  <2>1. IsFiniteSet(AiOps)
    BY AiNotNone
  <2> QED  BY <1>1, <1>2, <2>1, FS_Subset
<1>4. Total(f, S) = Total(g, S)
  BY ONLY <1>3, TotalsAgree
<1> QED  BY <1>1, <1>2, <1>4 DEF Covers

-----------------------------------------------------------------------------
AiOpsOK ==
    \A o \in AiOps : OpOK(AgentOf(o), aiShape[o], aiProfiled[o], aiSdk[o], operations[o],
                          pendingCalls[o], pendingTools[o], outputSpec[o], aiLog[o])
AiKept ==
    /\ DOMAIN aiSdk = AiOps /\ DOMAIN operations = AiOps /\ DOMAIN pendingCalls = AiOps
    /\ DOMAIN pendingTools = AiOps /\ DOMAIN outputSpec = AiOps /\ DOMAIN aiLog = AiOps
    /\ aiEntrypoint \in {"http", "command", "ai"}
AiInv ==
    /\ AiKept
    /\ AiOpsOK
    /\ Apart(aiSpan, aiProfiled, aiSdk, pendingCalls, aiLog)
    /\ Covers(aiPanel, aiProfiled, aiSdk)

(* A step of one operation leaves the others as they are.                  *)
LEMMA OpsLifted ==
    ASSUME AiOpsOK, NEW o \in AiOps, UNCHANGED <<aiShape, aiPath, aiProfiled>>,
           SameElsewhere(o, aiSdk, aiSdk'), SameElsewhere(o, operations, operations'),
           SameElsewhere(o, pendingCalls, pendingCalls'), SameElsewhere(o, pendingTools, pendingTools'),
           SameElsewhere(o, outputSpec, outputSpec'), SameElsewhere(o, aiLog, aiLog'),
           OpOK(AgentOf(o), aiShape[o], aiProfiled[o], aiSdk'[o], operations'[o],
                pendingCalls'[o], pendingTools'[o], outputSpec'[o], aiLog'[o])
    PROVE  AiOpsOK'
<1>0. \A p \in AiOps : AgentOf(p)' = AgentOf(p) /\ aiShape'[p] = aiShape[p] /\ aiProfiled'[p] = aiProfiled[p]
  BY DEF AgentOf
<1> SUFFICES ASSUME NEW p \in AiOps
             PROVE  OpOK(AgentOf(p)', aiShape'[p], aiProfiled'[p], aiSdk'[p], operations'[p],
                         pendingCalls'[p], pendingTools'[p], outputSpec'[p], aiLog'[p])
  BY DEF AiOpsOK
<1>1. CASE p = o
  BY <1>0, <1>1
<1>2. CASE p # o
  <2>1. /\ aiSdk'[p] = aiSdk[p] /\ operations'[p] = operations[p]
        /\ pendingCalls'[p] = pendingCalls[p] /\ pendingTools'[p] = pendingTools[p]
        /\ outputSpec'[p] = outputSpec[p] /\ aiLog'[p] = aiLog[p]
    BY <1>2 DEF SameElsewhere
  <2> QED  BY <1>0, <2>1 DEF AiOpsOK
<1> QED  BY <1>1, <1>2

TouchesOnly(o) ==
    /\ UNCHANGED <<aiShape, aiPath, aiProfiled, aiPanel>>
    /\ DOMAIN aiSdk' = AiOps /\ SameElsewhere(o, aiSdk, aiSdk')
    /\ DOMAIN operations' = AiOps /\ SameElsewhere(o, operations, operations')
    /\ DOMAIN pendingCalls' = AiOps /\ SameElsewhere(o, pendingCalls, pendingCalls')
    /\ DOMAIN pendingTools' = AiOps /\ SameElsewhere(o, pendingTools, pendingTools')
    /\ DOMAIN outputSpec' = AiOps /\ SameElsewhere(o, outputSpec, outputSpec')
    /\ DOMAIN aiLog' = AiOps /\ SameElsewhere(o, aiLog, aiLog')
    /\ aiEntrypoint' \in {"http", "command", "ai"}
    /\ aiSdk' = aiSdk \/ aiSdk[o].stage # "ended"

LEMMA AiLifted ==
    ASSUME AiInv, NEW o \in AiOps, TouchesOnly(o),
           OpOK(AgentOf(o), aiShape[o], aiProfiled[o], aiSdk'[o], operations'[o],
                pendingCalls'[o], pendingTools'[o], outputSpec'[o], aiLog'[o]),
           Apart(aiSpan', aiProfiled, aiSdk', pendingCalls', aiLog')
    PROVE  AiInv'
<1>1. AiKept'
  BY DEF AiKept, TouchesOnly
<1>2. AiOpsOK'
  BY OpsLifted DEF AiInv, TouchesOnly
<1>3. Apart(aiSpan', aiProfiled', aiSdk', pendingCalls', aiLog')
  BY DEF TouchesOnly
<1>4. Covers(aiPanel', aiProfiled', aiSdk')
  <2>1. \A p \in AiOps : aiSdk[p].spent \in Nat
    BY DEF AiInv, AiOpsOK, OpOK, OpTyped, AiSdks
  <2>2. /\ Covers(aiPanel, aiProfiled, aiSdk) /\ SameElsewhere(o, aiSdk, aiSdk')
        /\ aiSdk' = aiSdk \/ aiSdk[o].stage # "ended"
    BY DEF AiInv, TouchesOnly
  <2>3. Covers(aiPanel, aiProfiled, aiSdk')
    BY ONLY <2>1, <2>2, o \in AiOps, CoversStill
  <2> QED  BY <2>3 DEF TouchesOnly
<1> QED  BY <1>1, <1>2, <1>3, <1>4 DEF AiInv

(* What the account of one operation says of the state.                    *)
LEMMA AiAt ==
    ASSUME AiInv, NEW o \in AiOps
    PROVE  /\ OpOK(AgentOf(o), aiShape[o], aiProfiled[o], aiSdk[o], operations[o],
                   pendingCalls[o], pendingTools[o], outputSpec[o], aiLog[o])
           /\ aiSdk[o] \in AiSdks /\ operations[o] \in AiOperations /\ pendingTools[o] \in Nat
           /\ aiLog[o] \in Seq(AiEntries(AgentOf(o))) /\ aiProfiled[o] \in BOOLEAN
           /\ o \in DOMAIN aiSdk /\ o \in DOMAIN operations /\ o \in DOMAIN pendingCalls
           /\ o \in DOMAIN pendingTools /\ o \in DOMAIN outputSpec /\ o \in DOMAIN aiLog
           /\ Apart(aiSpan, aiProfiled, aiSdk, pendingCalls, aiLog)
           /\ aiEntrypoint \in {"http", "command", "ai"}
BY DEF AiInv, AiOpsOK, OpOK, OpTyped, AiKept

LEMMA AiStarts ==
    ASSUME AiInv, NEW o \in AiOps, OperationStart(o)
    PROVE  AiInv'
<1>1. TouchesOnly(o)
  BY DEF OperationStart, AiStage, TouchesOnly, SameElsewhere, AiInv, AiKept
<1>2. /\ aiSdk[o].stage = "new" /\ aiSdk'[o] = [aiSdk[o] EXCEPT !.stage = "open"]
      /\ operations'[o] = [NoOperation EXCEPT !.inMap = TRUE, !.schema = aiShape[o].output = "direct"]
      /\ outputSpec'[o] = (IF aiShape[o].output = "promise" THEN "pending" ELSE "none")
      /\ pendingCalls' = pendingCalls /\ pendingTools' = pendingTools /\ aiLog' = aiLog
      /\ aiSpan' = aiSpan
  BY AiAt DEF OperationStart, AiStage
<1>3. OpOK(AgentOf(o), aiShape[o], aiProfiled[o], aiSdk'[o], operations'[o],
           pendingCalls'[o], pendingTools'[o], outputSpec'[o], aiLog'[o])
  BY ONLY AiInv, o \in AiOps, <1>2, AiAt, OkStarts
<1>4. Apart(aiSpan', aiProfiled, aiSdk', pendingCalls', aiLog')
  <2>1. aiSdk'[o].stage = "open"
    BY <1>2, AiAt DEF AiSdks
  <2>2. \A i, s : HoldsSpan(aiSdk'[o], pendingCalls'[o], aiLog'[o], i, s)
                    => HoldsSpan(aiSdk[o], pendingCalls[o], aiLog[o], i, s)
    BY <1>2, <2>1 DEF HoldsSpan, Asking
  <2> QED  BY <1>1, <1>2, <2>2, AiAt, ApartKept DEF TouchesOnly
<1> QED  BY <1>1, <1>3, <1>4, AiLifted

LEMMA AiOutputSettles ==
    ASSUME AiInv, NEW o \in AiOps, OutputSpecSettles(o)
    PROVE  AiInv'
<1>1. TouchesOnly(o)
  BY DEF OutputSpecSettles, TouchesOnly, SameElsewhere, AiInv, AiKept
<1> PICK k : k = operations[o].lastCall
  OBVIOUS
<1>2. /\ outputSpec[o] = "pending" /\ operations'[o] = [operations[o] EXCEPT !.schema = TRUE]
      /\ outputSpec'[o] = "settled"
      /\ aiSdk' = aiSdk /\ pendingCalls' = pendingCalls /\ pendingTools' = pendingTools
      /\ aiLog'[o] = (IF operations[o].lastCall = 0 THEN aiLog[o]
                      ELSE [aiLog[o] EXCEPT ![operations[o].lastCall].schema = TRUE])
      /\ aiSpan' = aiSpan
  BY AiAt DEF OutputSpecSettles
<1>3. OpOK(AgentOf(o), aiShape[o], aiProfiled[o], aiSdk'[o], operations'[o],
           pendingCalls'[o], pendingTools'[o], outputSpec'[o], aiLog'[o])
  BY ONLY AiInv, o \in AiOps, <1>2, AiAt, OkOutputSettles
<1>4. Apart(aiSpan', aiProfiled, aiSdk', pendingCalls', aiLog')
  <2> PICK lg, lg2 : lg = aiLog[o] /\ lg2 = aiLog'[o]
    OBVIOUS
  <2>1. CallsIn(lg2) = CallsIn(lg) /\ \A i \in CallsIn(lg) : lg2[i].span = lg[i].span
    <3>1. CASE k = 0
      BY <1>2, <3>1
    <3>2. CASE k # 0
      <4>1. k \in CallsIn(lg)
        BY <3>2, AiAt DEF OpOK, OpLast
      <4>2. k \in DOMAIN lg /\ lg[k] \in AiEntries(AgentOf(o))
        BY <4>1, AiAt, CallsFacts
      <4>3. lg2 = [lg EXCEPT ![k] = [lg[k] EXCEPT !.schema = TRUE]]
        BY <1>2, <3>2
      <4>4. lg2[k].kind = lg[k].kind /\ lg2[k].span = lg[k].span
        BY <4>2, <4>3 DEF AiEntries
      <4> QED  BY <4>3, <4>4 DEF CallsIn
    <3> QED  BY <3>1, <3>2
  <2>2. \A i, s : HoldsSpan(aiSdk'[o], pendingCalls'[o], aiLog'[o], i, s)
                    => HoldsSpan(aiSdk[o], pendingCalls[o], aiLog[o], i, s)
    BY <1>2, <2>1 DEF HoldsSpan
  <2> QED  BY <1>1, <1>2, <2>2, AiAt, ApartKept DEF TouchesOnly
<1> QED  BY <1>1, <1>3, <1>4, AiLifted

LEMMA AiModelCallStarts ==
    ASSUME AiInv, NEW o \in AiOps, ModelCallStart(o)
    PROVE  AiInv'
<1>1. TouchesOnly(o)
  BY DEF ModelCallStart, TouchesOnly, SameElsewhere, AiInv, AiKept
<1>2. /\ aiSdk[o].stage = "open" /\ aiShape[o].events /\ pendingTools[o] = 0
      /\ operations[o].steps < AiMaxSteps
      /\ aiSdk'[o] = [aiSdk[o] EXCEPT !.stage = "calling", !.attempt = AiNone]
      /\ pendingCalls'[o] = [span |-> AiNone, payload |-> AiNone]
      /\ operations' = operations /\ outputSpec' = outputSpec /\ pendingTools' = pendingTools
      /\ aiLog' = aiLog /\ aiSpan' = aiSpan
  BY AiAt DEF ModelCallStart
<1>3. OpOK(AgentOf(o), aiShape[o], aiProfiled[o], aiSdk'[o], operations'[o],
           pendingCalls'[o], pendingTools'[o], outputSpec'[o], aiLog'[o])
  BY ONLY AiInv, o \in AiOps, <1>2, AiAt, OkModelCallStarts
<1>4. Apart(aiSpan', aiProfiled, aiSdk', pendingCalls', aiLog')
  <2>1. pendingCalls'[o].span = AiNone
    BY <1>2
  <2>2. \A i, s : HoldsSpan(aiSdk'[o], pendingCalls'[o], aiLog'[o], i, s)
                    => HoldsSpan(aiSdk[o], pendingCalls[o], aiLog[o], i, s)
    BY <1>2, <2>1 DEF HoldsSpan
  <2> QED  BY <1>1, <1>2, <2>2, AiAt, ApartKept DEF TouchesOnly
<1> QED  BY <1>1, <1>3, <1>4, AiLifted

LEMMA AiAttempts ==
    ASSUME AiInv, NEW o \in AiOps, AttemptStart(o)
    PROVE  AiInv'
<1>1. TouchesOnly(o)
  BY DEF AttemptStart, TouchesOnly, SameElsewhere, AiInv, AiKept
<1> PICK n : n = aiSpan + 1
  OBVIOUS
<1> PICK attempt : attempt = IF aiProfiled[o] THEN n ELSE AiNone
  OBVIOUS
<1>2. aiSpan \in Nat /\ n \in Nat /\ attempt \in AiSpans /\ aiSdk[o].stage = "calling"
  BY AiAt DEF Apart, AiSpans, AttemptStart
<1>3. /\ aiSdk'[o] = [aiSdk[o] EXCEPT !.stage = "requesting", !.attempt = attempt]
      /\ pendingCalls'[o] = (IF aiProfiled[o] THEN [pendingCalls[o] EXCEPT !.span = n] ELSE pendingCalls[o])
      /\ operations' = operations /\ outputSpec' = outputSpec /\ pendingTools' = pendingTools
      /\ aiLog' = aiLog /\ aiSpan' = (IF aiProfiled[o] THEN n ELSE aiSpan)
  BY AiAt DEF AttemptStart, ReserveSpan
<1>4. aiProfiled[o] \/ pendingCalls[o].span = AiNone
  <2>1. pendingCalls[o].span # AiNone => HoldsSpan(aiSdk[o], pendingCalls[o], aiLog[o], 0, pendingCalls[o].span)
    BY <1>2 DEF HoldsSpan, Asking
  <2>2. \A s : HoldsSpan(aiSdk[o], pendingCalls[o], aiLog[o], 0, s) => aiProfiled[o]
    BY AiAt DEF Apart
  <2> QED  BY <2>1, <2>2
<1>5. OpOK(AgentOf(o), aiShape[o], aiProfiled[o], aiSdk'[o], operations'[o],
           pendingCalls'[o], pendingTools'[o], outputSpec'[o], aiLog'[o])
  <2> PICK sd2, pc2, pr : sd2 = aiSdk'[o] /\ pc2 = pendingCalls'[o] /\ pr = aiProfiled[o]
    OBVIOUS
  <2>1. /\ pr => attempt = n
        /\ ~pr => attempt = AiNone
        /\ pr => pc2 = [pendingCalls[o] EXCEPT !.span = n]
        /\ ~pr => pc2 = pendingCalls[o]
        /\ pr \/ pendingCalls[o].span = AiNone
    BY <1>3, <1>4
  <2>2. sd2 = [aiSdk[o] EXCEPT !.stage = "requesting", !.attempt = attempt] /\ aiSdk[o].stage = "calling"
    BY <1>2, <1>3
  <2>3. OpOK(AgentOf(o), aiShape[o], pr, aiSdk[o], operations[o],
             pendingCalls[o], pendingTools[o], outputSpec[o], aiLog[o])
    BY AiAt
  <2>4. OpOK(AgentOf(o), aiShape[o], pr, sd2, operations[o], pc2, pendingTools[o], outputSpec[o], aiLog[o])
    BY ONLY <1>2, <2>1, <2>2, <2>3, OkAttempts
  <2> QED  BY <1>3, <2>4
<1>6. aiSdk'[o].stage = "requesting"
  BY <1>3, AiAt DEF AiSdks
<1>7. Apart(aiSpan', aiProfiled, aiSdk', pendingCalls', aiLog')
  <2>1. CASE aiProfiled[o]
    <3>1. pendingCalls[o] \in AiPendings
      BY <1>2, AiAt DEF OpOK, OpStaged, Asking
    <3>2. pendingCalls'[o].span = aiSpan + 1
      BY <1>3, <2>1, <3>1 DEF AiPendings
    <3>3. \A i, s : HoldsSpan(aiSdk'[o], pendingCalls'[o], aiLog'[o], i, s) =>
              \/ i # 0 /\ HoldsSpan(aiSdk[o], pendingCalls[o], aiLog[o], i, s)
              \/ i = 0 /\ s = aiSpan + 1
      BY <1>3, <3>2 DEF HoldsSpan
    <3>4. aiSpan' = aiSpan + 1 /\ SameElsewhere(o, aiSdk, aiSdk')
          /\ SameElsewhere(o, pendingCalls, pendingCalls') /\ SameElsewhere(o, aiLog, aiLog')
      BY <1>1, <1>3, <2>1 DEF TouchesOnly
    <3> QED  BY ONLY o \in AiOps, <2>1, <3>3, <3>4, AiAt, AiInv, ApartReserved
  <2>2. CASE ~aiProfiled[o]
    <3>1. pendingCalls'[o] = pendingCalls[o] /\ aiLog' = aiLog /\ aiSpan' = aiSpan
      BY <1>3, <2>2
    <3>2. \A i, s : HoldsSpan(aiSdk'[o], pendingCalls'[o], aiLog'[o], i, s)
                    => HoldsSpan(aiSdk[o], pendingCalls[o], aiLog[o], i, s)
      BY <1>2, <3>1 DEF HoldsSpan, Asking
    <3> QED  BY <1>1, <3>1, <3>2, AiAt, ApartKept DEF TouchesOnly
  <2> QED  BY <2>1, <2>2
<1> QED  BY <1>1, <1>5, <1>7, AiLifted

LEMMA AiSettles ==
    ASSUME AiInv, NEW o \in AiOps, NEW outcome \in {"answered", "refused"}, AttemptSettles(o, outcome)
    PROVE  AiInv'
<1>1. TouchesOnly(o)
  BY DEF AttemptSettles, AiStage, TouchesOnly, SameElsewhere, AiInv, AiKept
<1> PICK stage : stage = IF outcome = "answered" THEN "answered" ELSE "calling"
  OBVIOUS
<1>2. /\ aiSdk[o].stage = "requesting" /\ aiSdk'[o] = [aiSdk[o] EXCEPT !.stage = stage]
      /\ pendingCalls'[o] = [pendingCalls[o] EXCEPT !.payload = [of |-> aiSdk[o].attempt, outcome |-> outcome]]
      /\ operations' = operations /\ outputSpec' = outputSpec /\ pendingTools' = pendingTools
      /\ aiLog' = aiLog /\ aiSpan' = aiSpan
  BY AiAt DEF AttemptSettles, AiStage
<1>3. OpOK(AgentOf(o), aiShape[o], aiProfiled[o], aiSdk'[o], operations'[o],
           pendingCalls'[o], pendingTools'[o], outputSpec'[o], aiLog'[o])
  <2>1. stage = (IF outcome = "answered" THEN "answered" ELSE "calling") /\ outcome \in {"answered", "refused"}
    OBVIOUS
  <2> QED  BY ONLY AiInv, o \in AiOps, <1>2, <2>1, AiAt, OkSettles
<1>4. Apart(aiSpan', aiProfiled, aiSdk', pendingCalls', aiLog')
  <2>1. pendingCalls[o] \in AiPendings
    BY <1>2, AiAt DEF OpOK, OpStaged, Asking
  <2>2. pendingCalls'[o].span = pendingCalls[o].span
    BY <1>2, <2>1 DEF AiPendings
  <2>3. \A i, s : HoldsSpan(aiSdk'[o], pendingCalls'[o], aiLog'[o], i, s)
                    => HoldsSpan(aiSdk[o], pendingCalls[o], aiLog[o], i, s)
    BY <1>2, <2>2 DEF HoldsSpan, Asking
  <2> QED  BY <1>1, <1>2, <2>3, AiAt, ApartKept DEF TouchesOnly
<1> QED  BY <1>1, <1>3, <1>4, AiLifted

LEMMA AiToolStarts ==
    ASSUME AiInv, NEW o \in AiOps, ToolStart(o)
    PROVE  AiInv'
<1>1. TouchesOnly(o)
  BY DEF ToolStart, TouchesOnly, SameElsewhere, AiInv, AiKept
<1> PICK tools : tools = aiSdk[o].tools + 1
  OBVIOUS
<1>2. /\ aiSdk[o].stage = "open" /\ operations[o].steps > 0
      /\ aiSdk'[o] = [aiSdk[o] EXCEPT !.tools = tools] /\ pendingTools'[o] = pendingTools[o] + 1
      /\ operations' = operations /\ outputSpec' = outputSpec /\ pendingCalls' = pendingCalls
      /\ aiLog' = aiLog /\ aiSpan' = aiSpan
  BY AiAt DEF ToolStart
<1>3. tools \in Nat /\ tools = aiSdk[o].tools + 1
  BY AiAt DEF AiSdks
<1>4. OpOK(AgentOf(o), aiShape[o], aiProfiled[o], aiSdk'[o], operations'[o],
           pendingCalls'[o], pendingTools'[o], outputSpec'[o], aiLog'[o])
  BY ONLY AiInv, o \in AiOps, <1>2, <1>3, AiAt, OkToolStarts
<1>5. Apart(aiSpan', aiProfiled, aiSdk', pendingCalls', aiLog')
  <2>1. aiSdk'[o].stage = "open"
    BY <1>2, AiAt DEF AiSdks
  <2>2. \A i, s : HoldsSpan(aiSdk'[o], pendingCalls'[o], aiLog'[o], i, s)
                    => HoldsSpan(aiSdk[o], pendingCalls[o], aiLog[o], i, s)
    BY <1>2, <2>1 DEF HoldsSpan, Asking
  <2> QED  BY <1>1, <1>2, <2>2, AiAt, ApartKept DEF TouchesOnly
<1> QED  BY <1>1, <1>4, <1>5, AiLifted

LEMMA AiObjectSteps ==
    ASSUME AiInv, NEW o \in AiOps, ObjectStepEnd(o)
    PROVE  AiInv'
<1>1. TouchesOnly(o)
  BY DEF ObjectStepEnd, TouchesOnly, SameElsewhere, AiInv, AiKept
<1> PICK payload \in AiPayloads : payload = [of |-> AiNone, outcome |-> "answered"]
  BY DEF AiPayloads, AiSpans
<1>2. /\ aiSdk[o].stage = "open" /\ operations'[o] = [operations[o] EXCEPT !.payload = payload]
      /\ aiSdk' = aiSdk /\ outputSpec' = outputSpec /\ pendingCalls' = pendingCalls
      /\ pendingTools' = pendingTools /\ aiLog' = aiLog /\ aiSpan' = aiSpan /\ payload \in AiPayloads
  BY AiAt DEF ObjectStepEnd
<1>3. OpOK(AgentOf(o), aiShape[o], aiProfiled[o], aiSdk'[o], operations'[o],
           pendingCalls'[o], pendingTools'[o], outputSpec'[o], aiLog'[o])
  BY ONLY AiInv, o \in AiOps, <1>2, AiAt, OkObjectSteps
<1>4. Apart(aiSpan', aiProfiled, aiSdk', pendingCalls', aiLog')
  BY <1>2, AiAt
<1> QED  BY <1>1, <1>3, <1>4, AiLifted

(* What record does to the operation and to its log.                       *)
KeptBut(o, ops) ==
    /\ DOMAIN operations' = AiOps /\ SameElsewhere(o, operations, operations')
    /\ DOMAIN aiLog' = AiOps /\ SameElsewhere(o, aiLog, aiLog')
    /\ aiEntrypoint' \in {"http", "command", "ai"}
Logs(pr, lg, e, lg2, op, op2) ==
    /\ pr => lg2 = Grown(lg, e)
    /\ ~pr => lg2 = lg
    /\ ~pr \/ e.kind = "tool" \/ ~op.inMap => op2 = op
    /\ pr /\ e.kind # "tool" /\ op.inMap =>
         /\ op2 \in AiOperations /\ op2.lastCall = Len(lg) + 1
         /\ op2.inMap = op.inMap /\ op2.schema = op.schema
         /\ op2.steps = op.steps /\ op2.usageReported = op.usageReported

LEMMA AiRecords ==
    ASSUME AiInv, NEW o \in AiOps, NEW e, NEW ops, Recorded(o, e, ops), DOMAIN ops = AiOps,
           SameElsewhere(o, operations, ops), ops[o] \in AiOperations
    PROVE  /\ KeptBut(o, ops)
           /\ Logs(aiProfiled[o], aiLog[o], e, aiLog'[o], ops[o], operations'[o])
<1>1. DOMAIN operations' = AiOps /\ SameElsewhere(o, operations, operations')
  BY AiAt DEF Recorded, SameElsewhere
<1>2. DOMAIN aiLog' = AiOps /\ SameElsewhere(o, aiLog, aiLog')
  BY DEF Recorded, SameElsewhere, AiInv, AiKept
<1>3. aiEntrypoint' \in {"http", "command", "ai"}
  BY AiAt DEF Recorded
<1>4. /\ aiProfiled[o] => aiLog'[o] = Grown(aiLog[o], e)
      /\ ~aiProfiled[o] => aiLog'[o] = aiLog[o]
  BY AiAt DEF Recorded, Grown
<1>5. ~aiProfiled[o] \/ e.kind = "tool" \/ ~ops[o].inMap => operations'[o] = ops[o]
  BY DEF Recorded
<1>6. ASSUME aiProfiled[o], e.kind # "tool", ops[o].inMap
      PROVE  /\ operations'[o] \in AiOperations /\ operations'[o].lastCall = Len(aiLog[o]) + 1
             /\ operations'[o].inMap = ops[o].inMap /\ operations'[o].schema = ops[o].schema
             /\ operations'[o].steps = ops[o].steps
             /\ operations'[o].usageReported = ops[o].usageReported
  <2> PICK n \in Nat : n = Len(aiLog[o]) + 1
    <3>1. Len(aiLog[o]) \in Nat
      BY AiAt, CallsFacts
    <3> QED  BY <3>1
  <2>1. operations' = [ops EXCEPT ![o].lastCall = n]
    BY <1>6 DEF Recorded
  <2>2. operations'[o] = [ops[o] EXCEPT !.lastCall = n]
    BY <2>1
  <2> QED  BY <2>2 DEF AiOperations
<1> QED  BY <1>1, <1>2, <1>3, <1>4, <1>5, <1>6 DEF KeptBut, Logs

LEMMA SpansRecorded ==
    ASSUME NEW S, NEW lg \in Seq(S), NEW e \in S, NEW lg2, NEW pr,
           pr => lg2 = Grown(lg, e), ~pr => lg2 = lg,
           NEW sd, NEW sd2, NEW pc, NEW pc2, sd2.stage \notin Asking,
           \/ e.kind = "tool" \/ e.span = AiNone
           \/ sd.stage \in Asking /\ e.span = pc.span
    PROVE  SpansMoved(sd, pc, lg, sd2, pc2, lg2)
<1>1. CASE ~pr
  <2>1. lg2 = lg
    BY <1>1
  <2>2. Len(lg) + 1 # 0 /\ Len(lg) + 1 \notin CallsIn(lg)
    <3>1. GrownBy(S, lg, e, Grown(lg, e), Len(lg) + 1)
      BY CallsGrown
    <3> QED  BY <3>1 DEF GrownBy
  <2> QED  BY <2>1, <2>2 DEF HoldsSpan, SpansMoved
<1>2. CASE pr
  <2>1. lg2 = Grown(lg, e)
    BY <1>2
  <2> PICK n : GrownBy(S, lg, e, lg2, n)
    BY <2>1, CallsGrown
  <2>2. /\ n # 0 /\ lg2[n] = e /\ n \notin CallsIn(lg) /\ \A i \in CallsIn(lg) : lg2[i] = lg[i]
        /\ e.kind = "tool" => CallsIn(lg2) = CallsIn(lg)
        /\ CallsIn(lg2) \subseteq CallsIn(lg) \cup {n}
    BY DEF GrownBy
  <2>3. ASSUME NEW i, NEW s, HoldsSpan(sd2, pc2, lg2, i, s)
        PROVE  \/ i # 0 /\ i # n /\ HoldsSpan(sd, pc, lg, i, s)
               \/ i = n /\ HoldsSpan(sd, pc, lg, 0, s)
    <3>1. i # 0 /\ i \in CallsIn(lg2) /\ s = lg2[i].span /\ s # AiNone
      BY <2>3 DEF HoldsSpan
    <3>2. CASE i \in CallsIn(lg)
      BY <2>2, <3>1, <3>2 DEF HoldsSpan
    <3>3. CASE i \notin CallsIn(lg)
      BY <2>2, <3>1, <3>3 DEF HoldsSpan
    <3> QED  BY <3>2, <3>3
  <2> QED  BY <2>2, <2>3 DEF SpansMoved
<1> QED  BY <1>1, <1>2

LEMMA AiSpansMove ==
    ASSUME AiInv, NEW o \in AiOps, TouchesOnly(o), aiSpan' = aiSpan,
           SpansMoved(aiSdk[o], pendingCalls[o], aiLog[o], aiSdk'[o], pendingCalls'[o], aiLog'[o])
    PROVE  Apart(aiSpan', aiProfiled, aiSdk', pendingCalls', aiLog')
<1>1. /\ SameElsewhere(o, aiSdk, aiSdk') /\ SameElsewhere(o, aiLog, aiLog')
      /\ SameElsewhere(o, pendingCalls, pendingCalls')
      /\ SpansMoved(aiSdk[o], pendingCalls[o], aiLog[o], aiSdk'[o], pendingCalls'[o], aiLog'[o])
  BY DEF TouchesOnly
<1>2. Apart(aiSpan, aiProfiled, aiSdk, pendingCalls, aiLog)
  BY AiAt
<1>3. Apart(aiSpan, aiProfiled, aiSdk', pendingCalls', aiLog')
  BY ONLY o \in AiOps, <1>1, <1>2, ApartRecorded
<1> QED  BY <1>3

LEMMA AiModelCallEnds ==
    ASSUME AiInv, NEW o \in AiOps, ModelCallEnd(o)
    PROVE  AiInv'
<1> PICK a, sd, op, pc, lg, pr, pt, os, sh :
         /\ a = AgentOf(o) /\ sd = aiSdk[o] /\ op = operations[o] /\ pc = pendingCalls[o] /\ lg = aiLog[o]
         /\ pr = aiProfiled[o] /\ pt = pendingTools[o] /\ os = outputSpec[o] /\ sh = aiShape[o]
  OBVIOUS
<1>1. OpOK(a, sh, pr, sd, op, pc, pt, os, lg) /\ sd.stage = "answered"
  BY AiAt DEF ModelCallEnd
<1>2. /\ sd \in AiSdks /\ op \in AiOperations /\ pc \in AiPendings /\ lg \in Seq(AiEntries(a))
      /\ pt = 0 /\ op.inMap /\ sh.events /\ sd.spent = op.steps /\ op.steps \in Nat
      /\ (op.usageReported <=> sh.usage = "call" /\ op.steps > 0) /\ pt \in Nat
      /\ pc.span # AiNone => pc.payload \in AiPayloads /\ pc.payload.of = pc.span
  BY <1>1 DEF OpOK, OpTyped, OpStaged, OpSpans, Asking, AiSdks, AiOperations
<1>3. op.steps < AiMaxSteps
  BY <1>1 DEF OpOK, OpStaged, Asking
<1> PICK u \in {0, 1} : u = UsageOf(o)
  BY DEF UsageOf
<1>4. u = (IF sh.usage = "call" THEN 1 ELSE 0)
  BY DEF UsageOf
<1> PICK steps \in Nat : steps = op.steps + 1
  BY <1>2
<1> PICK reported \in BOOLEAN : reported <=> op.usageReported \/ u > 0
  OBVIOUS
<1> PICK span, payload, schema : span = pc.span /\ payload = pc.payload /\ schema = op.schema
  OBVIOUS
<1>8. span \in AiSpans /\ payload \in AiPayloads \cup {AiNone} /\ schema \in BOOLEAN
  BY <1>2 DEF AiPendings, AiOperations
<1> PICK e0 : e0 = AiEntryOf(o, "call", operations[o].steps, UsageOf(o))
  OBVIOUS
<1>15. /\ e0 \in AiEntries(a) /\ e0.kind = "call" /\ e0.step = op.steps /\ ~e0.result /\ e0.usage = u
  <2>1. e0 = [kind |-> "call", step |-> op.steps, usage |-> u, agent |-> a, span |-> AiNone,
              payload |-> AiNone, schema |-> FALSE, result |-> FALSE]
    BY DEF AiEntryOf
  <2>2. AiNone \in AiSpans /\ AiNone \in AiPayloads \cup {AiNone} /\ op.steps \in Nat /\ u \in Nat
    BY <1>2 DEF AiSpans
  <2> QED  BY ONLY <2>1, <2>2 DEF AiEntries
<1> PICK e : e = [e0 EXCEPT !.schema = schema, !.span = span, !.payload = payload]
  OBVIOUS
<1>5. /\ e \in AiEntries(a) /\ e.kind = "call" /\ e.step = op.steps /\ ~e.result /\ e.usage = u
      /\ e.schema = op.schema /\ e.span = pc.span /\ e.payload = pc.payload
  BY <1>8, <1>15 DEF AiEntries
<1> PICK ops : ops = [operations EXCEPT ![o] = [op EXCEPT !.steps = steps, !.usageReported = reported]]
  OBVIOUS
<1>6. /\ DOMAIN ops = AiOps /\ SameElsewhere(o, operations, ops)
      /\ ops[o] \in AiOperations /\ ops[o].steps = steps /\ (ops[o].usageReported <=> reported)
      /\ ops[o].inMap /\ ops[o].schema = op.schema /\ ops[o].lastCall = op.lastCall
  BY <1>2 DEF SameElsewhere, AiInv, AiKept, AiOperations
<1>7. Recorded(o, e, ops)
  <2>1. ops = [operations EXCEPT ![o].steps = @ + 1, ![o].usageReported = @ \/ UsageOf(o) > 0]
    BY AiAt, <1>2 DEF AiOperations
  <2>4. e = [AiEntryOf(o, "call", operations[o].steps, UsageOf(o)) EXCEPT
               !.schema = operations[o].schema, !.span = pendingCalls[o].span,
               !.payload = pendingCalls[o].payload]
    OBVIOUS
  <2>5. Recorded(o, [AiEntryOf(o, "call", operations[o].steps, UsageOf(o)) EXCEPT
                       !.schema = operations[o].schema, !.span = pendingCalls[o].span,
                       !.payload = pendingCalls[o].payload],
                 [operations EXCEPT ![o].steps = @ + 1, ![o].usageReported = @ \/ UsageOf(o) > 0])
    BY Zenon DEF ModelCallEnd
  <2> QED  BY ONLY <2>1, <2>4, <2>5
<1> PICK sd2, op2, lg2 : sd2 = aiSdk'[o] /\ op2 = operations'[o] /\ lg2 = aiLog'[o]
  OBVIOUS
<1> PICK spent \in Nat : spent = sd.spent + 1
  BY <1>2
<1>9. /\ sd2 \in AiSdks /\ sd2.stage = "open" /\ sd2.spent = spent /\ sd2.tools = sd.tools
  <2>1. sd2 = [sd EXCEPT !.stage = "open", !.spent = spent]
    BY AiAt DEF ModelCallEnd
  <2> QED  BY ONLY <1>2, <2>1, spent \in Nat DEF AiSdks, AiStages
<1>10. /\ pr => lg2 = Grown(lg, e)
       /\ ~pr => lg2 = lg
       /\ pr => op2.lastCall = Len(lg) + 1
       /\ ~pr => op2.lastCall = op.lastCall
       /\ op2 \in AiOperations /\ op2.inMap = op.inMap /\ op2.schema = op.schema
       /\ op2.steps = steps /\ (op2.usageReported <=> reported)
  <2>1. Logs(aiProfiled[o], aiLog[o], e, aiLog'[o], ops[o], operations'[o])
    BY ONLY AiInv, o \in AiOps, <1>6, <1>7, AiRecords
  <2>2. Logs(pr, lg, e, lg2, ops[o], op2)
    BY <2>1
  <2> QED  BY <1>2, <1>5, <1>6, <2>2 DEF Logs
<1>11. TouchesOnly(o)
  <2>1. /\ DOMAIN operations' = AiOps /\ SameElsewhere(o, operations, operations')
        /\ DOMAIN aiLog' = AiOps /\ SameElsewhere(o, aiLog, aiLog')
        /\ aiEntrypoint' \in {"http", "command", "ai"}
    BY <1>6, <1>7, AiRecords DEF KeptBut
  <2> QED  BY <1>1, <2>1 DEF ModelCallEnd, TouchesOnly, SameElsewhere, AiInv, AiKept
<1>12. pendingCalls'[o] = AiNone /\ pendingTools' = pendingTools /\ outputSpec' = outputSpec /\ aiSpan' = aiSpan
  BY AiAt DEF ModelCallEnd
<1>13. OpOK(a, sh, pr, sd2, op2, AiNone, pt, os, lg2)
  <2>1. "call" \in {"call", "error"} /\ sd.stage \in {"open", "calling", "answered"}
    BY <1>1
  <2>2. op2.usageReported <=> sh.usage = "call" /\ op2.steps > 0
    BY <1>2, <1>4, <1>10
  <2>3. e.span # AiNone => e.payload \in AiPayloads /\ e.payload.of = e.span
    BY <1>2, <1>5
  <2>4. OpOK(a, sh, pr, sd, op, pc, pt, os, lg) /\ pt = 0 /\ sd.stage = "answered"
    BY <1>1, <1>2
  <2>5. /\ e \in AiEntries(a) /\ e.kind \in {"call", "error"} /\ e.kind = "call"
        /\ sh.events /\ op.steps < AiMaxSteps
        /\ e.step = op.steps /\ ~e.result /\ (op.schema => e.schema)
        /\ e.usage = (IF e.kind = "call" /\ sh.usage = "call" THEN 1 ELSE 0)
    BY <1>1, <1>2, <1>3, <1>4, <1>5
  <2>6. /\ sd2 \in AiSdks /\ sd2.tools = sd.tools
        /\ sd2.stage = (IF e.kind = "call" THEN "open" ELSE "failed")
        /\ sd2.spent = (IF e.kind = "call" THEN sd.spent + 1 ELSE sd.spent)
    BY <1>9, <2>5
  <2>7. /\ op2 \in AiOperations /\ op2.inMap = op.inMap /\ op2.schema = op.schema
        /\ op2.steps = (IF e.kind = "call" THEN op.steps + 1 ELSE op.steps)
        /\ pr => op2.lastCall = Len(lg) + 1
        /\ ~pr => op2.lastCall = op.lastCall
    BY <1>10, <2>5
  <2>8. /\ pr => lg2 = Grown(lg, e)
        /\ ~pr => lg2 = lg
    BY <1>10
  <2> QED  BY ONLY <2>1, <2>2, <2>3, <2>4, <2>5, <2>6, <2>7, <2>8, OkRecords
<1>14. Apart(aiSpan', aiProfiled, aiSdk', pendingCalls', aiLog')
  <2>0. SpansMoved(sd, pc, lg, sd2, AiNone, lg2)
    <3>1. sd2.stage \notin Asking /\ sd.stage \in Asking
      BY <1>1, <1>9 DEF Asking
    <3>2. /\ pr => lg2 = Grown(lg, e)
          /\ ~pr => lg2 = lg
          /\ lg \in Seq(AiEntries(a)) /\ e \in AiEntries(a) /\ e.span = pc.span
      BY <1>2, <1>5, <1>10
    <3> QED  BY ONLY <3>1, <3>2, SpansRecorded
  <2>1. SpansMoved(aiSdk[o], pendingCalls[o], aiLog[o], aiSdk'[o], pendingCalls'[o], aiLog'[o])
    BY <1>12, <2>0
  <2> QED  BY <1>11, <1>12, <2>1, AiSpansMove
<1>16. OpOK(AgentOf(o), aiShape[o], aiProfiled[o], aiSdk'[o], operations'[o],
            pendingCalls'[o], pendingTools'[o], outputSpec'[o], aiLog'[o])
  BY <1>12, <1>13
<1> QED  BY ONLY AiInv, o \in AiOps, <1>11, <1>14, <1>16, AiLifted

LEMMA AiToolEnds ==
    ASSUME AiInv, NEW o \in AiOps, ToolEnd(o)
    PROVE  AiInv'
<1> PICK a, sd, op, pc, lg, pr, pt, os, sh :
         /\ a = AgentOf(o) /\ sd = aiSdk[o] /\ op = operations[o] /\ pc = pendingCalls[o] /\ lg = aiLog[o]
         /\ pr = aiProfiled[o] /\ pt = pendingTools[o] /\ os = outputSpec[o] /\ sh = aiShape[o]
  OBVIOUS
<1>1. OpOK(a, sh, pr, sd, op, pc, pt, os, lg) /\ pt > 0
  BY AiAt DEF ToolEnd
<1>2. /\ sd.stage = "open" /\ op \in AiOperations /\ lg \in Seq(AiEntries(a)) /\ pt \in Nat
  BY <1>1 DEF OpOK, OpTyped, OpStaged
<1> PICK e : e = AiEntryOf(o, "tool", 0, 0)
  OBVIOUS
<1>3. e \in AiEntries(a) /\ e.kind = "tool"
  <2>1. e = [kind |-> "tool", step |-> 0, usage |-> 0, agent |-> a, span |-> AiNone,
             payload |-> AiNone, schema |-> FALSE, result |-> FALSE]
    BY DEF AiEntryOf
  <2>2. AiNone \in AiSpans /\ AiNone \in AiPayloads \cup {AiNone}
    BY DEF AiSpans
  <2> QED  BY ONLY <2>1, <2>2 DEF AiEntries
<1> PICK ops : ops = operations
  OBVIOUS
<1>4. Recorded(o, e, ops) /\ DOMAIN ops = AiOps /\ SameElsewhere(o, operations, ops) /\ ops[o] \in AiOperations
  <2>1. Recorded(o, AiEntryOf(o, "tool", 0, 0), operations)
    BY Zenon DEF ToolEnd
  <2> QED  BY <1>2, <2>1 DEF SameElsewhere, AiInv, AiKept
<1> PICK op2, lg2 : op2 = operations'[o] /\ lg2 = aiLog'[o]
  OBVIOUS
<1>5. op2 = op /\ (pr => lg2 = Grown(lg, e)) /\ (~pr => lg2 = lg)
  <2>1. Logs(aiProfiled[o], aiLog[o], e, aiLog'[o], ops[o], operations'[o])
    BY ONLY AiInv, o \in AiOps, <1>4, AiRecords
  <2>2. Logs(pr, lg, e, lg2, op, op2)
    BY <2>1
  <2> QED  BY <1>3, <2>2 DEF Logs
<1>6. TouchesOnly(o)
  <2>1. /\ DOMAIN operations' = AiOps /\ SameElsewhere(o, operations, operations')
        /\ DOMAIN aiLog' = AiOps /\ SameElsewhere(o, aiLog, aiLog')
        /\ aiEntrypoint' \in {"http", "command", "ai"}
    BY <1>4, AiRecords DEF KeptBut
  <2> QED  BY <2>1 DEF ToolEnd, TouchesOnly, SameElsewhere, AiInv, AiKept
<1>7. /\ aiSdk' = aiSdk /\ pendingCalls' = pendingCalls /\ outputSpec' = outputSpec /\ aiSpan' = aiSpan
      /\ pendingTools'[o] = pt - 1
  BY AiAt DEF ToolEnd
<1>8. OpOK(a, sh, pr, sd, op, pc, pendingTools'[o], os, lg2)
  BY ONLY <1>1, <1>3, <1>5, <1>7, OkToolEnds
<1>9. OpOK(AgentOf(o), aiShape[o], aiProfiled[o], aiSdk'[o], operations'[o],
           pendingCalls'[o], pendingTools'[o], outputSpec'[o], aiLog'[o])
  BY <1>5, <1>7, <1>8
<1>10. Apart(aiSpan', aiProfiled, aiSdk', pendingCalls', aiLog')
  <2>1. SpansMoved(sd, pc, lg, sd, pc, lg2)
    <3>1. sd.stage \notin Asking
      BY <1>2 DEF Asking
    <3> QED  BY ONLY <1>2, <1>3, <1>5, <3>1, SpansRecorded
  <2>2. SpansMoved(aiSdk[o], pendingCalls[o], aiLog[o], aiSdk'[o], pendingCalls'[o], aiLog'[o])
    BY <1>7, <2>1
  <2> QED  BY <1>6, <1>7, <2>2, AiSpansMove
<1> QED  BY ONLY AiInv, o \in AiOps, <1>6, <1>9, <1>10, AiLifted

LEMMA AiEnds ==
    ASSUME AiInv, NEW o \in AiOps, OperationEnd(o)
    PROVE  AiInv'
<1> PICK a, sd, op, pc, lg, pr, pt, os, sh :
         /\ a = AgentOf(o) /\ sd = aiSdk[o] /\ op = operations[o] /\ pc = pendingCalls[o] /\ lg = aiLog[o]
         /\ pr = aiProfiled[o] /\ pt = pendingTools[o] /\ os = outputSpec[o] /\ sh = aiShape[o]
  OBVIOUS
<1>1. /\ OpOK(a, sh, pr, sd, op, pc, pt, os, lg) /\ sd.stage = "open" /\ pt = 0 /\ sh.events /\ op.steps > 0
      /\ lg \in Seq(AiEntries(a)) /\ sd \in AiSdks
  BY AiAt DEF OperationEnd
<1>2. TouchesOnly(o)
  BY DEF OperationEnd, AiStage, TouchesOnly, SameElsewhere, AiInv, AiKept
<1> PICK k : k = op.lastCall
  OBVIOUS
<1> PICK e : e = [(IF sh.harness /\ ~op.usageReported /\ sd.spent > 0
                   THEN [lg[k] EXCEPT !.usage = sd.spent] ELSE lg[k]) EXCEPT !.result = TRUE]
  OBVIOUS
<1> PICK sd2, op2, lg2 : sd2 = aiSdk'[o] /\ op2 = operations'[o] /\ lg2 = aiLog'[o]
  OBVIOUS
<1>3. /\ sd2 = [sd EXCEPT !.stage = "ended"] /\ op2 = [op EXCEPT !.inMap = FALSE]
      /\ pendingCalls' = pendingCalls /\ pendingTools' = pendingTools /\ outputSpec' = outputSpec
      /\ aiSpan' = aiSpan
  BY AiAt DEF OperationEnd, AiStage
<1>4. lg2 = IF k = 0 THEN lg ELSE PutAt(lg, k, e)
  BY AiAt DEF OperationEnd, FoldTurnUsage, PutAt
<1>5. OpOK(a, sh, pr, sd2, op2, pc, pt, os, lg2)
  BY ONLY <1>1, <1>3, <1>4, k = op.lastCall,
          e = [(IF sh.harness /\ ~op.usageReported /\ sd.spent > 0
                   THEN [lg[k] EXCEPT !.usage = sd.spent] ELSE lg[k]) EXCEPT !.result = TRUE], OkEnds
<1>6. OpOK(AgentOf(o), aiShape[o], aiProfiled[o], aiSdk'[o], operations'[o],
           pendingCalls'[o], pendingTools'[o], outputSpec'[o], aiLog'[o])
  BY <1>3, <1>5
<1>7. Apart(aiSpan', aiProfiled, aiSdk', pendingCalls', aiLog')
  <2>1. CallsIn(lg2) = CallsIn(lg) /\ \A i \in CallsIn(lg) : lg2[i].span = lg[i].span
    <3>1. CASE k = 0
      BY <1>4, <3>1
    <3>2. CASE k # 0
      <4>1. k \in CallsIn(lg)
        BY <1>1, <3>2 DEF OpOK, OpLast
      <4>2. k \in DOMAIN lg /\ lg[k] \in AiEntries(a)
        BY <1>1, <4>1, CallsFacts
      <4>3. e.kind = lg[k].kind /\ e.span = lg[k].span
        BY <4>2 DEF AiEntries
      <4>4. lg2 = [lg EXCEPT ![k] = e]
        BY <1>4, <3>2 DEF PutAt
      <4> QED  BY <4>2, <4>3, <4>4 DEF CallsIn
    <3> QED  BY <3>1, <3>2
  <2>2. sd2.stage = "ended"
    BY <1>1, <1>3 DEF AiSdks
  <2>3. \A i, s : HoldsSpan(aiSdk'[o], pendingCalls'[o], aiLog'[o], i, s)
                    => HoldsSpan(aiSdk[o], pendingCalls[o], aiLog[o], i, s)
    BY <1>3, <2>1, <2>2 DEF HoldsSpan, Asking
  <2> QED  BY <1>2, <1>3, <2>3, AiAt, ApartKept DEF TouchesOnly
<1> QED  BY ONLY AiInv, o \in AiOps, <1>2, <1>6, <1>7, AiLifted

LEMMA AiObjectEnds ==
    ASSUME AiInv, NEW o \in AiOps, ObjectEnd(o)
    PROVE  AiInv'
<1> PICK a, sd, op, pc, lg, pr, pt, os, sh :
         /\ a = AgentOf(o) /\ sd = aiSdk[o] /\ op = operations[o] /\ pc = pendingCalls[o] /\ lg = aiLog[o]
         /\ pr = aiProfiled[o] /\ pt = pendingTools[o] /\ os = outputSpec[o] /\ sh = aiShape[o]
  OBVIOUS
<1>1. /\ OpOK(a, sh, pr, sd, op, pc, pt, os, lg) /\ sd.stage = "open" /\ ~sh.events
      /\ lg \in Seq(AiEntries(a)) /\ sd \in AiSdks /\ op \in AiOperations /\ sd.spent \in Nat
  BY AiAt DEF ObjectEnd, AiSdks
<1> PICK payload, schema : payload = op.payload /\ schema = op.schema
  OBVIOUS
<1>2. payload \in AiPayloads \cup {AiNone} /\ schema \in BOOLEAN
  BY <1>1 DEF AiOperations
<1> PICK e0 : e0 = AiEntryOf(o, "call", 0, 1)
  OBVIOUS
<1>3. /\ e0 \in AiEntries(a) /\ e0.kind = "call" /\ e0.step = 0 /\ e0.usage = 1 /\ e0.span = AiNone
  <2>1. e0 = [kind |-> "call", step |-> 0, usage |-> 1, agent |-> a, span |-> AiNone,
              payload |-> AiNone, schema |-> FALSE, result |-> FALSE]
    BY DEF AiEntryOf
  <2>2. AiNone \in AiSpans /\ AiNone \in AiPayloads \cup {AiNone}
    BY DEF AiSpans
  <2> QED  BY ONLY <2>1, <2>2 DEF AiEntries
<1> PICK e : e = [e0 EXCEPT !.schema = schema, !.payload = payload, !.result = TRUE]
  OBVIOUS
<1>4. /\ e \in AiEntries(a) /\ e.kind = "call" /\ e.step = 0 /\ e.usage = 1 /\ e.span = AiNone
      /\ e.result /\ e.schema = op.schema
  BY <1>2, <1>3 DEF AiEntries
<1> PICK op2 : op2 = [op EXCEPT !.inMap = FALSE]
  OBVIOUS
<1> PICK ops : ops = [operations EXCEPT ![o] = op2]
  OBVIOUS
<1>5. /\ DOMAIN ops = AiOps /\ SameElsewhere(o, operations, ops) /\ ops[o] = op2
      /\ op2 \in AiOperations /\ ~op2.inMap
  BY <1>1 DEF SameElsewhere, AiInv, AiKept, AiOperations
<1>6. Recorded(o, e, ops)
  <2>1. Recorded(o, [AiEntryOf(o, "call", 0, 1) EXCEPT
                       !.schema = operations[o].schema, !.payload = operations[o].payload,
                       !.result = TRUE], [operations EXCEPT ![o].inMap = FALSE])
    BY Zenon DEF ObjectEnd
  <2>2. ops = [operations EXCEPT ![o].inMap = FALSE]
    OBVIOUS
  <2>3. e = [AiEntryOf(o, "call", 0, 1) EXCEPT
                       !.schema = operations[o].schema, !.payload = operations[o].payload,
                       !.result = TRUE]
    OBVIOUS
  <2> QED  BY ONLY <2>1, <2>2, <2>3
<1> PICK sd2, lg2 : sd2 = aiSdk'[o] /\ lg2 = aiLog'[o]
  OBVIOUS
<1> PICK spent \in Nat : spent = sd.spent + 1
  BY <1>1
<1>7. sd2 = [sd EXCEPT !.stage = "ended", !.spent = spent]
  BY AiAt DEF ObjectEnd
<1>8. operations'[o] = op2 /\ (pr => lg2 = Grown(lg, e)) /\ (~pr => lg2 = lg)
  <2>1. ops[o] \in AiOperations
    BY <1>5
  <2>2. Logs(aiProfiled[o], aiLog[o], e, aiLog'[o], ops[o], operations'[o])
    BY ONLY AiInv, o \in AiOps, <1>5, <1>6, <2>1, AiRecords
  <2>3. Logs(pr, lg, e, lg2, op2, operations'[o])
    BY <1>5, <2>2
  <2> QED  BY <1>5, <2>3 DEF Logs
<1>9. TouchesOnly(o)
  <2>1. ops[o] \in AiOperations
    BY <1>5
  <2>2. /\ DOMAIN operations' = AiOps /\ SameElsewhere(o, operations, operations')
        /\ DOMAIN aiLog' = AiOps /\ SameElsewhere(o, aiLog, aiLog')
        /\ aiEntrypoint' \in {"http", "command", "ai"}
    BY <1>5, <1>6, <2>1, AiRecords DEF KeptBut
  <2> QED  BY <1>1, <2>2 DEF ObjectEnd, TouchesOnly, SameElsewhere, AiInv, AiKept
<1>10. /\ pendingCalls' = pendingCalls /\ pendingTools' = pendingTools /\ outputSpec' = outputSpec
       /\ aiSpan' = aiSpan
  BY DEF ObjectEnd
<1>11. OpOK(a, sh, pr, sd2, op2, pc, pt, os, lg2)
  <2>1. sd2 \in AiSdks /\ sd2.stage = "ended" /\ sd2.spent = sd.spent + 1 /\ sd2.tools = sd.tools
    BY ONLY <1>1, <1>7, spent \in Nat, spent = sd.spent + 1 DEF AiSdks, AiStages
  <2> QED  BY ONLY <1>1, <1>4, <1>8, <2>1, op2 = [op EXCEPT !.inMap = FALSE], OkObjectEnds
<1>12. OpOK(AgentOf(o), aiShape[o], aiProfiled[o], aiSdk'[o], operations'[o],
            pendingCalls'[o], pendingTools'[o], outputSpec'[o], aiLog'[o])
  BY <1>8, <1>10, <1>11
<1>13. Apart(aiSpan', aiProfiled, aiSdk', pendingCalls', aiLog')
  <2>1. SpansMoved(sd, pc, lg, sd2, pc, lg2)
    <3>1. sd2.stage \notin Asking
      BY <1>1, <1>7 DEF Asking, AiSdks
    <3> QED  BY ONLY <1>1, <1>4, <1>8, <3>1, SpansRecorded
  <2>2. SpansMoved(aiSdk[o], pendingCalls[o], aiLog[o], aiSdk'[o], pendingCalls'[o], aiLog'[o])
    BY <1>10, <2>1
  <2> QED  BY <1>9, <1>10, <2>2, AiSpansMove
<1> QED  BY ONLY AiInv, o \in AiOps, <1>9, <1>12, <1>13, AiLifted

LEMMA AiFails ==
    ASSUME AiInv, NEW o \in AiOps, OperationError(o)
    PROVE  AiInv'
<1> PICK a, sd, op, pc, lg, pr, pt, os, sh :
         /\ a = AgentOf(o) /\ sd = aiSdk[o] /\ op = operations[o] /\ pc = pendingCalls[o] /\ lg = aiLog[o]
         /\ pr = aiProfiled[o] /\ pt = pendingTools[o] /\ os = outputSpec[o] /\ sh = aiShape[o]
  OBVIOUS
<1>1. OpOK(a, sh, pr, sd, op, pc, pt, os, lg) /\ sd.stage \in {"open", "calling"} /\ pt = 0
  BY AiAt DEF OperationError
<1>2. /\ sd \in AiSdks /\ op \in AiOperations /\ lg \in Seq(AiEntries(a)) /\ op.inMap /\ op.steps \in Nat
      /\ sd.spent \in Nat /\ sd.spent = op.steps /\ pt \in Nat
      /\ (op.usageReported <=> sh.usage = "call" /\ op.steps > 0)
  BY <1>1 DEF OpOK, OpTyped, OpStaged, AiSdks, AiOperations
<1>3. /\ sd.stage = "open" => pc = AiNone
      /\ sd.stage = "calling" => pc \in AiPendings
      /\ pc # AiNone /\ pc.span # AiNone => pc.payload \in AiPayloads /\ pc.payload.of = pc.span
  BY <1>1 DEF OpOK, OpStaged, OpSpans, Asking
<1> PICK e0 : e0 = AiEntryOf(o, "error", operations[o].steps, 0)
  OBVIOUS
<1>4. /\ e0 \in AiEntries(a) /\ e0.kind = "error" /\ e0.step = op.steps /\ ~e0.result /\ e0.usage = 0
      /\ e0.span = AiNone
  <2>1. e0 = [kind |-> "error", step |-> op.steps, usage |-> 0, agent |-> a, span |-> AiNone,
              payload |-> AiNone, schema |-> FALSE, result |-> FALSE]
    BY DEF AiEntryOf
  <2>2. AiNone \in AiSpans /\ AiNone \in AiPayloads \cup {AiNone} /\ op.steps \in Nat
    BY <1>2 DEF AiSpans
  <2> QED  BY ONLY <2>1, <2>2 DEF AiEntries
<1> PICK e : e = IF pc = AiNone THEN e0 ELSE [e0 EXCEPT !.span = pc.span, !.payload = pc.payload]
  OBVIOUS
<1>5. /\ e \in AiEntries(a) /\ e.kind = "error" /\ e.step = op.steps /\ ~e.result /\ e.usage = 0
      /\ e.span # AiNone => e.payload \in AiPayloads /\ e.payload.of = e.span
      /\ e.span = AiNone \/ (sd.stage = "calling" /\ e.span = pc.span)
  <2>1. CASE pc = AiNone
    BY <1>4, <2>1
  <2>2. CASE pc # AiNone
    <3> PICK span, payload : span = pc.span /\ payload = pc.payload
      OBVIOUS
    <3>1. span \in AiSpans /\ payload \in AiPayloads \cup {AiNone} /\ sd.stage = "calling"
      BY <1>1, <1>3, <2>2 DEF AiPendings
    <3>2. e = [e0 EXCEPT !.span = span, !.payload = payload]
      BY <2>2
    <3>3. /\ e \in AiEntries(a) /\ e.kind = "error" /\ e.step = op.steps /\ ~e.result /\ e.usage = 0
          /\ e.span = span /\ e.payload = payload
      BY ONLY <1>4, <3>1, <3>2 DEF AiEntries
    <3> QED  BY <1>3, <2>2, <3>1, <3>3
  <2> QED  BY <2>1, <2>2
<1> PICK ops : ops = operations
  OBVIOUS
<1>6. Recorded(o, e, ops) /\ DOMAIN ops = AiOps /\ SameElsewhere(o, operations, ops) /\ ops[o] \in AiOperations
  <2>1. Recorded(o, IF pendingCalls[o] = AiNone THEN AiEntryOf(o, "error", operations[o].steps, 0)
                    ELSE [AiEntryOf(o, "error", operations[o].steps, 0) EXCEPT
                            !.span = pendingCalls[o].span, !.payload = pendingCalls[o].payload],
                 operations)
    BY Zenon DEF OperationError
  <2>2. e = IF pendingCalls[o] = AiNone THEN AiEntryOf(o, "error", operations[o].steps, 0)
            ELSE [AiEntryOf(o, "error", operations[o].steps, 0) EXCEPT
                    !.span = pendingCalls[o].span, !.payload = pendingCalls[o].payload]
    OBVIOUS
  <2>3. Recorded(o, e, ops)
    BY ONLY <2>1, <2>2, ops = operations
  <2> QED  BY <1>2, <2>3 DEF SameElsewhere, AiInv, AiKept
<1> PICK sd2, op2, lg2 : sd2 = aiSdk'[o] /\ op2 = operations'[o] /\ lg2 = aiLog'[o]
  OBVIOUS
<1>7. sd2 \in AiSdks /\ sd2.stage = "failed" /\ sd2.spent = sd.spent /\ sd2.tools = sd.tools
  <2>1. sd2 = [sd EXCEPT !.stage = "failed"]
    BY AiAt DEF OperationError, AiStage
  <2> QED  BY ONLY <1>2, <2>1 DEF AiSdks, AiStages
<1>8. /\ pr => lg2 = Grown(lg, e)
      /\ ~pr => lg2 = lg
      /\ pr => op2.lastCall = Len(lg) + 1
      /\ ~pr => op2.lastCall = op.lastCall
      /\ op2 \in AiOperations /\ op2.inMap = op.inMap /\ op2.schema = op.schema
      /\ op2.steps = op.steps /\ (op2.usageReported <=> op.usageReported)
  <2>1. Logs(aiProfiled[o], aiLog[o], e, aiLog'[o], ops[o], operations'[o])
    BY ONLY AiInv, o \in AiOps, <1>6, AiRecords
  <2>2. Logs(pr, lg, e, lg2, op, op2)
    BY <2>1
  <2> QED  BY <1>2, <1>5, <2>2 DEF Logs
<1>9. TouchesOnly(o)
  <2>1. /\ DOMAIN operations' = AiOps /\ SameElsewhere(o, operations, operations')
        /\ DOMAIN aiLog' = AiOps /\ SameElsewhere(o, aiLog, aiLog')
        /\ aiEntrypoint' \in {"http", "command", "ai"}
    BY <1>6, AiRecords DEF KeptBut
  <2> QED  BY <1>1, <2>1 DEF OperationError, AiStage, TouchesOnly, SameElsewhere, AiInv, AiKept
<1>10. pendingCalls'[o] = AiNone /\ pendingTools' = pendingTools /\ outputSpec' = outputSpec /\ aiSpan' = aiSpan
  BY AiAt DEF OperationError
<1>11. OpOK(a, sh, pr, sd2, op2, AiNone, pt, os, lg2)
  <2>1. OpOK(a, sh, pr, sd, op, pc, pt, os, lg) /\ sd.stage \in {"open", "calling", "answered"} /\ pt = 0
    BY <1>1
  <2>2. /\ e \in AiEntries(a) /\ e.kind \in {"call", "error"} /\ e.kind # "call" /\ e.step = op.steps /\ ~e.result
        /\ e.usage = (IF e.kind = "call" /\ sh.usage = "call" THEN 1 ELSE 0)
        /\ e.span # AiNone => e.payload \in AiPayloads /\ e.payload.of = e.span
    BY <1>5
  <2>3. sd.stage # "answered"
    BY <1>1
  <2>4. /\ sd2 \in AiSdks /\ sd2.tools = sd.tools
        /\ sd2.stage = (IF e.kind = "call" THEN "open" ELSE "failed")
        /\ sd2.spent = (IF e.kind = "call" THEN sd.spent + 1 ELSE sd.spent)
    BY <1>7, <2>2
  <2>5. /\ op2 \in AiOperations /\ op2.inMap = op.inMap /\ op2.schema = op.schema
        /\ op2.steps = (IF e.kind = "call" THEN op.steps + 1 ELSE op.steps)
        /\ (op2.usageReported <=> sh.usage = "call" /\ op2.steps > 0)
        /\ pr => op2.lastCall = Len(lg) + 1
        /\ ~pr => op2.lastCall = op.lastCall
    BY <1>2, <1>8, <2>2
  <2>6. /\ pr => lg2 = Grown(lg, e)
        /\ ~pr => lg2 = lg
    BY <1>8
  <2> QED  BY ONLY <2>1, <2>2, <2>3, <2>4, <2>5, <2>6, OkRecords
<1>12. OpOK(AgentOf(o), aiShape[o], aiProfiled[o], aiSdk'[o], operations'[o],
            pendingCalls'[o], pendingTools'[o], outputSpec'[o], aiLog'[o])
  BY <1>10, <1>11
<1>13. Apart(aiSpan', aiProfiled, aiSdk', pendingCalls', aiLog')
  <2>1. SpansMoved(sd, pc, lg, sd2, AiNone, lg2)
    <3>1. sd2.stage \notin Asking /\ (sd.stage = "calling" => sd.stage \in Asking)
      BY <1>7 DEF Asking
    <3> QED  BY ONLY <1>2, <1>5, <1>8, <3>1, SpansRecorded
  <2>2. SpansMoved(aiSdk[o], pendingCalls[o], aiLog[o], aiSdk'[o], pendingCalls'[o], aiLog'[o])
    BY <1>10, <2>1
  <2> QED  BY <1>9, <1>10, <2>2, AiSpansMove
<1> QED  BY ONLY AiInv, o \in AiOps, <1>9, <1>12, <1>13, AiLifted

(* The sums of the model are totals.                                       *)
LEMMA AiUsageIs ==
    ASSUME AiInv, NEW o \in AiOps
    PROVE  AiUsage(o, Len(aiLog[o])) = UsageIn(aiLog[o]) /\ UsageIn(aiLog[o]) \in Nat
<1> PICK lg, f, S : lg = aiLog[o] /\ f = [i \in DOMAIN lg |-> lg[i].usage] /\ S = CallsIn(lg)
  OBVIOUS
<1>1. /\ IsFiniteSet(S) /\ \A i \in S : f[i] = aiLog[o][i].usage /\ f[i] \in Nat
      /\ S = {i \in AiCallsOf(o) : i <= Len(aiLog[o])}
  <2>1. lg \in Seq(AiEntries(AgentOf(o)))
    BY AiAt
  <2>2. IsFiniteSet(S) /\ \A i \in S : i \in DOMAIN lg /\ i <= Len(lg) /\ lg[i] \in AiEntries(AgentOf(o))
    BY <2>1, CallsFacts
  <2>3. S = AiCallsOf(o)
    BY DEF AiCallsOf, CallsIn
  <2> QED  BY <2>2, <2>3 DEF AiEntries
<1> DEFINE Body(g) == [t \in SUBSET S |-> IF t = {} THEN 0 ELSE aiLog[o][Pick(t)].usage + g[t \ {Pick(t)}]]
<1>2. AiUsage(o, Len(aiLog[o])) = (CHOOSE g : g = Body(g))[S]
  BY <1>1 DEF AiUsage, MapThenSumSet, MapThenFoldSet, Pick
<1>3. ASSUME NEW g
      PROVE  Body(g) = [t \in SUBSET S |-> IF t = {} THEN 0 ELSE f[Pick(t)] + g[t \ {Pick(t)}]]
  <2>1. \A t \in SUBSET S : t # {} => aiLog[o][Pick(t)].usage = f[Pick(t)]
    BY <1>1 DEF Pick
  <2> QED  BY <2>1
<1>4. \E g : g = Body(g)
  <2>1. PICK g : SumsOver(g, f, S)
    BY <1>1, SumExists
  <2> HIDE DEF Body
  <2> QED  BY <1>3, <2>1 DEF SumsOver
<1> PICK G : G = CHOOSE g : g = Body(g)
  OBVIOUS
<1>5. SumsOver(G, f, S)
  <2>1. G = Body(G)
    <3> HIDE DEF Body
    <3> QED  BY <1>4
  <2> HIDE DEF Body
  <2> QED  BY <1>3, <2>1 DEF SumsOver
<1>6. G[S] = Total(f, S)
  BY <1>1, <1>5, TotalIs
<1>7. Total(f, S) \in Nat
  BY <1>1, TotalFacts
<1> HIDE DEF Body
<1> QED  BY <1>2, <1>6, <1>7 DEF UsageIn

LEMMA AiSpentIs ==
    ASSUME AiInv, NEW S, S \subseteq AiOps
    PROVE  MapThenSumSet(LAMBDA o : aiSdk[o].spent, S) = Total([o \in AiOps |-> aiSdk[o].spent], S)
<1> PICK f : f = [o \in AiOps |-> aiSdk[o].spent]
  OBVIOUS
<1>1. IsFiniteSet(S) /\ \A o \in S : f[o] = aiSdk[o].spent /\ f[o] \in Nat
  <2>1. IsFiniteSet(AiOps)
    BY AiNotNone
  <2> QED  BY <2>1, AiAt, FS_Subset DEF AiSdks
<1> DEFINE Body(g) == [t \in SUBSET S |-> IF t = {} THEN 0 ELSE aiSdk[Pick(t)].spent + g[t \ {Pick(t)}]]
<1>2. MapThenSumSet(LAMBDA o : aiSdk[o].spent, S) = (CHOOSE g : g = Body(g))[S]
  BY DEF MapThenSumSet, MapThenFoldSet, Pick
<1>3. ASSUME NEW g
      PROVE  Body(g) = [t \in SUBSET S |-> IF t = {} THEN 0 ELSE f[Pick(t)] + g[t \ {Pick(t)}]]
  <2>1. \A t \in SUBSET S : t # {} => aiSdk[Pick(t)].spent = f[Pick(t)]
    BY <1>1 DEF Pick
  <2> QED  BY <2>1
<1>4. \E g : g = Body(g)
  <2>1. PICK g : SumsOver(g, f, S)
    BY <1>1, SumExists
  <2> HIDE DEF Body
  <2> QED  BY <1>3, <2>1 DEF SumsOver
<1> PICK G : G = CHOOSE g : g = Body(g)
  OBVIOUS
<1>5. SumsOver(G, f, S)
  <2>1. G = Body(G)
    <3> HIDE DEF Body
    <3> QED  BY <1>4
  <2> HIDE DEF Body
  <2> QED  BY <1>3, <2>1 DEF SumsOver
<1>6. G[S] = Total(f, S)
  BY <1>1, <1>5, TotalIs
<1> HIDE DEF Body
<1> QED  BY <1>2, <1>6

LEMMA AiPanelIs ==
    ASSUME AiInv
    PROVE  MapThenSumSet(LAMBDA o : AiUsage(o, Len(aiLog[o])), AiOps)
             = Total([o \in AiOps |-> UsageIn(aiLog[o])], AiOps)
<1> PICK f, S : f = [o \in AiOps |-> UsageIn(aiLog[o])] /\ S = AiOps
  OBVIOUS
<1>1. IsFiniteSet(S) /\ \A o \in S : f[o] = AiUsage(o, Len(aiLog[o])) /\ f[o] \in Nat
  BY AiNotNone, AiUsageIs
<1> DEFINE Body(g) == [t \in SUBSET S |-> IF t = {} THEN 0 ELSE AiUsage(Pick(t), Len(aiLog[Pick(t)])) + g[t \ {Pick(t)}]]
<1>2. MapThenSumSet(LAMBDA o : AiUsage(o, Len(aiLog[o])), AiOps) = (CHOOSE g : g = Body(g))[S]
  BY DEF MapThenSumSet, MapThenFoldSet, Pick
<1>3. ASSUME NEW g
      PROVE  Body(g) = [t \in SUBSET S |-> IF t = {} THEN 0 ELSE f[Pick(t)] + g[t \ {Pick(t)}]]
  <2>1. \A t \in SUBSET S : t # {} => AiUsage(Pick(t), Len(aiLog[Pick(t)])) = f[Pick(t)]
    BY <1>1 DEF Pick
  <2> QED  BY <2>1
<1>4. \E g : g = Body(g)
  <2>1. PICK g : SumsOver(g, f, S)
    BY <1>1, SumExists
  <2> HIDE DEF Body
  <2> QED  BY <1>3, <2>1 DEF SumsOver
<1> PICK G : G = CHOOSE g : g = Body(g)
  OBVIOUS
<1>5. SumsOver(G, f, S)
  <2>1. G = Body(G)
    <3> HIDE DEF Body
    <3> QED  BY <1>4
  <2> HIDE DEF Body
  <2> QED  BY <1>3, <2>1 DEF SumsOver
<1>6. G[S] = Total(f, S)
  BY <1>1, <1>5, TotalIs
<1> HIDE DEF Body
<1> QED  BY <1>2, <1>6

LEMMA AiCollects ==
    ASSUME AiInv, AiCollect
    PROVE  AiInv'
<1>0. UNCHANGED <<aiSdk, aiShape, aiPath, aiProfiled, operations, pendingCalls, pendingTools,
                  outputSpec, aiLog, aiSpan, aiEntrypoint, promoteEntrypoint>>
  BY DEF AiCollect
<1> PICK over, f, g :
      /\ over = {o \in AiOps : aiProfiled[o] /\ aiSdk[o].stage = "ended"}
      /\ f = [o \in AiOps |-> UsageIn(aiLog[o])] /\ g = [o \in AiOps |-> aiSdk[o].spent]
  OBVIOUS
<1>1. IsFiniteSet(AiOps) /\ \A o \in AiOps : f[o] \in Nat
  BY AiNotNone, AiUsageIs
<1>2. over \subseteq AiOps /\ \A o \in over : f[o] = g[o]
  BY AiAt DEF OpOK, OpUsage
<1>3. Total(f, over) \in Nat /\ Total(f, over) <= Total(f, AiOps) /\ Total(f, AiOps) \in Nat
  BY <1>1, <1>2, TotalOfPart, TotalFacts
<1>4. Total(f, over) = Total(g, over)
  <2>1. IsFiniteSet(over) /\ \A o \in over : f[o] \in Nat /\ f[o] = g[o]
    BY <1>1, <1>2, FS_Subset
  <2> QED  BY ONLY <2>1, TotalsAgree
<1>5. aiPanel' = [totalTokens |-> Total(f, AiOps), over |-> over]
  BY AiPanelIs DEF AiCollect
<1>6. Covers(aiPanel', aiProfiled, aiSdk)
  BY <1>2, <1>3, <1>4, <1>5 DEF Covers
<1>7. AiKept' /\ AiOpsOK'
  BY <1>0 DEF AiInv, AiKept, AiOpsOK, AgentOf
<1>8. Apart(aiSpan', aiProfiled', aiSdk', pendingCalls', aiLog')
  BY <1>0 DEF AiInv
<1> QED  BY <1>0, <1>6, <1>7, <1>8 DEF AiInv

(* A set of numbers up to n that is not empty has a largest one.           *)
LEMMA MaxOf ==
    ASSUME NEW n \in Nat, NEW s \in SUBSET (1..n), s # {}
    PROVE  Max(s) \in s /\ \A y \in s : Max(s) >= y
<1> PICK D : D = 1..n
  OBVIOUS
<1>1. IsFiniteSet(D) /\ \A x \in D : x \in Nat
  <2>1. 1 \in Int /\ n \in Int /\ D = 1..n
    OBVIOUS
  <2>2. IsFiniteSet(D)
    BY ONLY <2>1, FS_Interval
  <2> QED  BY <2>2
<1> DEFINE T == {t \in SUBSET D : t # {} /\ ~ \E x \in t : \A y \in t : x >= y}
<1>2. T = {}
  <2> SUFFICES ASSUME T # {} PROVE FALSE
    OBVIOUS
  <2>1. PICK t \in T : \A y \in T : y \subseteq t => y = t
    <3>1. T \in SUBSET (SUBSET D) /\ T # {} /\ IsFiniteSet(D)
      BY <1>1
    <3> HIDE DEF T
    <3> QED  BY ONLY <3>1, Smallest
  <2>2. PICK x \in t : TRUE
    OBVIOUS
  <2> PICK u : u = t \ {x}
    OBVIOUS
  <2>3. u \notin T /\ u \in SUBSET D
    BY <2>1
  <2>4. CASE u = {}
    <3>1. t = {x} /\ x \in Nat
      BY <1>1, <2>4
    <3> QED  BY <3>1
  <2>5. CASE u # {}
    <3>1. PICK m \in u : \A y \in u : m >= y
      BY <2>3, <2>5
    <3>2. m \in Nat /\ x \in Nat /\ \A y \in t : y = x \/ y \in u
      BY <1>1
    <3>3. \A y \in u : y \in Nat
      BY <1>1
    <3> QED  BY <3>1, <3>2, <3>3
  <2> QED  BY <2>4, <2>5
<1>3. \E x \in s : \A y \in s : x >= y
  BY <1>2
<1> QED  BY <1>3 DEF Max

PathOK(path) == path \in Seq(Range(path)) /\ \A i \in DOMAIN path : path[i].target # "none"

(* The frames of a path, as the fold builds them.                          *)
FramesOf(g, path) ==
    g = [s \in SUBSET DOMAIN path |->
           IF s = {} THEN AiNoFrame ELSE FrameIn(g[s \ {Max(s)}], path[Max(s)])]

LEMMA FramesExist ==
    ASSUME NEW path, PathOK(path)
    PROVE  \E g : FramesOf(g, path)
<1> PICK n, D : n = Len(path) /\ D = DOMAIN path
  OBVIOUS
<1>1. n \in Nat /\ D = 1..n
  BY LenProperties DEF PathOK
<1>2. IsFiniteSet(D)
  <2>1. 1 \in Int /\ n \in Int
    BY <1>1
  <2> QED  BY ONLY <1>1, <2>1, FS_Interval
<1> PICK Infos, Targets : /\ Infos = {AiNone} \cup {path[i].name : i \in D} \cup {path[i].id : i \in D}
                          /\ Targets = {"none"} \cup {path[i].target : i \in D}
  OBVIOUS
<1> PICK V : V = [info : Infos, target : Targets]
  OBVIOUS
<1>3. AiNoFrame \in V
  BY DEF AiNoFrame
<1>4. \A i \in D : \A v \in V : FrameIn(v, path[i]) \in V
  BY DEF FrameIn, WithFrame
<1> PICK c : c = [s \in SUBSET D |-> Max(s)]
  OBVIOUS
<1> PICK op : op = [p \in D \X V |-> FrameIn(p[2], path[p[1]])]
  OBVIOUS
<1>5. Picks(c, D)
  BY <1>1, MaxOf DEF Picks
<1>6. op \in [D \X V -> V]
  <2>1. \A p \in D \X V : p[1] \in D /\ p[2] \in V
    OBVIOUS
  <2>2. ASSUME NEW p \in D \X V PROVE FrameIn(p[2], path[p[1]]) \in V
    <3> PICK i, v : i = p[1] /\ v = p[2]
      OBVIOUS
    <3>1. i \in D /\ v \in V
      BY <2>1
    <3> QED  BY <1>4, <3>1
  <2> QED  BY <2>2
<1>7. PICK g \in [SUBSET D -> V] : FoldsOver(g, D, AiNoFrame, c, op)
  <2> PICK b : b = AiNoFrame
    OBVIOUS
  <2>1. \E g \in [SUBSET D -> V] : FoldsOver(g, D, b, c, op)
    BY ONLY <1>2, <1>3, <1>5, <1>6, b = AiNoFrame, FoldExists
  <2> QED  BY <2>1
<1>8. \A s \in SUBSET D : s # {} =>
         op[<<c[s], g[s \ {c[s]}]>>] = FrameIn(g[s \ {Max(s)}], path[Max(s)])
  <2> TAKE s \in SUBSET D
  <2> HAVE s # {}
  <2> PICK m, u : m = Max(s) /\ u = s \ {m}
    OBVIOUS
  <2>1. m \in D /\ c[s] = m /\ u \in SUBSET D /\ g[u] \in V
    BY <1>5 DEF Picks
  <2>2. <<m, g[u]>> \in D \X V /\ op[<<m, g[u]>>] = FrameIn(g[u], path[m])
    BY <2>1
  <2> QED  BY <2>1, <2>2
<1>9. g = [s \in SUBSET D |-> FoldStep(s, g, AiNoFrame, c, op)]
  BY <1>7 DEF FoldsOver
<1>10. FramesOf(g, path)
  BY <1>8, <1>9 DEF FramesOf, FoldStep
<1> QED  BY <1>10

LEMMA FrameFacts ==
    ASSUME NEW path, PathOK(path)
    PROVE  /\ path = <<>> => FrameAfter(path).info = AiNone
           /\ path # <<>> =>
                LET last == path[Len(path)]
                IN  /\ last.wrapped /\ last.name # AiNone => FrameAfter(path).info = last.name
                    /\ ~last.wrapped /\ last.id # AiNone
                         /\ (\A k \in 1..Len(path) - 1 : path[k].target # last.target)
                           => FrameAfter(path).info = last.id
<1> PICK n, D : n = Len(path) /\ D = DOMAIN path
  OBVIOUS
<1>1. n \in Nat /\ D = 1..n
  BY LenProperties DEF PathOK
<1>2. IsFiniteSet(D)
  <2>1. 1 \in Int /\ n \in Int
    BY <1>1
  <2> QED  BY ONLY <1>1, <2>1, FS_Interval
<1> PICK G : G = CHOOSE g : FramesOf(g, path)
  OBVIOUS
<1>3. FramesOf(G, path)
  BY FramesExist
<1>4. FrameAfter(path) = G[D]
  BY DEF FrameAfter, FoldLeft, MapThenFoldSet, FramesOf
<1>5. \A s \in SUBSET D : G[s] = IF s = {} THEN AiNoFrame ELSE FrameIn(G[s \ {Max(s)}], path[Max(s)])
  BY <1>3 DEF FramesOf
<1>6. \A s \in SUBSET D : s # {} => Max(s) \in s
  BY <1>1, MaxOf
<1>7. \A s \in SUBSET D : G[s].target = "none" \/ \E k \in s : G[s].target = path[k].target
  <2> DEFINE Named(s) == G[s].target = "none" \/ \E k \in s : G[s].target = path[k].target
             T == {s \in SUBSET D : ~Named(s)}
  <2> SUFFICES ASSUME T # {} PROVE FALSE
    OBVIOUS
  <2>1. PICK t \in T : \A y \in T : y \subseteq t => y = t
    <3>1. T \in SUBSET (SUBSET D)
      OBVIOUS
    <3> HIDE DEF T
    <3> QED  BY <1>2, <3>1, Smallest
  <2>2. t \in SUBSET D /\ ~Named(t)
    OBVIOUS
  <2>3. t # {}
    <3>1. G[{}] = AiNoFrame /\ AiNoFrame.target = "none"
      BY <1>5 DEF AiNoFrame
    <3> QED  BY <2>2, <3>1
  <2> PICK m, u : m = Max(t) /\ u = t \ {m}
    OBVIOUS
  <2>4. m \in t /\ u \in SUBSET D /\ u \subseteq t /\ u # t
    BY <1>6, <2>2, <2>3
  <2>5. Named(u)
    BY <2>1, <2>4
  <2>6. G[t] = FrameIn(G[u], path[m])
    BY <1>5, <2>2, <2>3
  <2>7. G[t].target = G[u].target \/ G[t].target = path[m].target
    BY <2>6 DEF FrameIn, WithFrame
  <2> QED  BY <2>2, <2>4, <2>5, <2>7
<1>8. ASSUME path # <<>>
      PROVE  n \in D /\ FrameAfter(path) = FrameIn(G[1..n - 1], path[n]) /\ 1..n - 1 \in SUBSET D
  <2>1. n # 0
    BY <1>8, EmptySeq, LenProperties DEF PathOK
  <2>2. D # {} /\ n \in D /\ \A y \in D : y <= n
    BY <1>1, <2>1
  <2>3. Max(D) \in D /\ Max(D) >= n
    BY <1>1, <2>2, MaxOf
  <2>4. Max(D) = n
    BY <1>1, <2>3
  <2>5. D \ {n} = 1..n - 1
    BY <1>1
  <2> QED  BY <1>4, <1>5, <2>2, <2>4, <2>5
<1>9. ASSUME path = <<>> PROVE FrameAfter(path).info = AiNone
  <2>1. D = {}
    BY <1>1, <1>9
  <2>2. G[{}] = AiNoFrame /\ AiNoFrame.info = AiNone
    BY <1>5 DEF AiNoFrame
  <2> QED  BY <1>4, <2>1, <2>2
<1>10. ASSUME path # <<>>, path[n].wrapped, path[n].name # AiNone PROVE FrameAfter(path).info = path[n].name
  BY <1>8, <1>10 DEF FrameIn, WithFrame
<1>11. ASSUME path # <<>>, ~path[n].wrapped, path[n].id # AiNone,
              \A k \in 1..n - 1 : path[k].target # path[n].target
       PROVE  FrameAfter(path).info = path[n].id
  <2>1. G[1..n - 1].target # path[n].target
    <3>1. path[n].target # "none"
      BY <1>8, <1>11 DEF PathOK
    <3> QED  BY <1>7, <1>8, <1>11, <3>1
  <2> QED  BY <1>8, <1>11, <2>1 DEF FrameIn, WithFrame
<1> QED  BY <1>9, <1>10, <1>11

AiPathsOK == \A o \in AiOps : PathOK(aiPath[o])
AiAll == AiInv /\ AiPathsOK

LEMMA OkNew ==
    ASSUME NEW a, NEW sh \in AiShape, sh.harness => sh.events, sh.usage = "turn" => sh.harness,
           ~sh.events => sh.output = "direct", NEW pr \in BOOLEAN,
           NEW sd, sd = [stage |-> "new", spent |-> 0, tools |-> 0, attempt |-> AiNone],
           NEW op, op = NoOperation, NEW lg, lg = <<>>
    PROVE  OpOK(a, sh, pr, sd, op, AiNone, 0, "none", lg)
<1>1. lg \in Seq(AiEntries(a)) /\ Len(lg) = 0 /\ DOMAIN lg = {} /\ CallsIn(lg) = {}
  BY DEF CallsIn
<1>2. Cardinality(CallsIn(lg)) = 0
  BY <1>1, FS_EmptySet
<1>3. sd \in AiSdks /\ op \in AiOperations
  BY DEF AiSdks, AiOperations, NoOperation, AiStages, AiSpans
<1>4. /\ sd.stage = "new" /\ sd.spent = 0 /\ sd.tools = 0 /\ op.steps = 0 /\ op.lastCall = 0
      /\ op.usageReported = FALSE /\ op.inMap = FALSE /\ op.schema = FALSE
  BY DEF NoOperation
<1>5. OpTyped(a, sh, pr, sd, op, 0, "none", lg)
  BY <1>1, <1>3 DEF OpTyped
<1>6. OpStaged(sh, sd, op, AiNone, 0, "none", lg)
  BY <1>4, AiNotNone DEF OpStaged, Asking
<1>7. OpLogged(sh, pr, sd, op, lg)
  <2>1. {lg[i].step : i \in CallsIn(lg)} = 0..Cardinality(CallsIn(lg)) - 1
    BY <1>1, <1>2
  <2> QED  BY <1>1, <1>2, <1>4, <2>1 DEF OpLogged
<1>8. OpLast(sh, sd, op, lg)
  BY <1>1, <1>4 DEF OpLast
<1>9. OpSchemas(sh, sd, op, "none", lg) /\ OpSpans(sd, AiNone, lg) /\ OpUsage(sh, pr, sd, lg)
  BY <1>1, <1>4 DEF OpSchemas, OpSpans, OpUsage
<1> QED  BY <1>5, <1>6, <1>7, <1>8, <1>9 DEF OpOK

LEMMA AiInitially ==
    ASSUME NEW sc \in AiScenarios, AiStart(sc)
    PROVE  AiAll
<1>1. /\ sc.entrypoint \in {"http", "command"}
      /\ \A o \in AiOps :
           /\ sc.ops[o].shape \in AiShape /\ sc.ops[o].profiled \in BOOLEAN
           /\ sc.ops[o].shape.harness => sc.ops[o].shape.events
           /\ sc.ops[o].shape.usage = "turn" => sc.ops[o].shape.harness
           /\ ~sc.ops[o].shape.events => sc.ops[o].shape.output = "direct"
           /\ sc.ops[o].path \in Seq(Range(sc.ops[o].path))
           /\ \A i \in DOMAIN sc.ops[o].path : sc.ops[o].path[i].target # "none"
  BY AiAssumption
<1>2. AiKept
  BY <1>1 DEF AiStart, AiKept
<1>3. AiOpsOK
  <2> SUFFICES ASSUME NEW o \in AiOps
               PROVE  OpOK(AgentOf(o), aiShape[o], aiProfiled[o], aiSdk[o], operations[o],
                           pendingCalls[o], pendingTools[o], outputSpec[o], aiLog[o])
    BY DEF AiOpsOK
  <2>1. /\ aiShape[o] = sc.ops[o].shape /\ aiProfiled[o] = sc.ops[o].profiled
        /\ aiSdk[o] = [stage |-> "new", spent |-> 0, tools |-> 0, attempt |-> AiNone]
        /\ operations[o] = NoOperation /\ pendingCalls[o] = AiNone /\ pendingTools[o] = 0
        /\ outputSpec[o] = "none" /\ aiLog[o] = <<>>
    BY DEF AiStart
  <2>2. /\ aiShape[o] \in AiShape /\ aiProfiled[o] \in BOOLEAN
        /\ aiShape[o].harness => aiShape[o].events
        /\ aiShape[o].usage = "turn" => aiShape[o].harness
        /\ ~aiShape[o].events => aiShape[o].output = "direct"
    BY <1>1, <2>1
  <2>3. OpOK(AgentOf(o), aiShape[o], aiProfiled[o], aiSdk[o], operations[o], AiNone, 0, "none", aiLog[o])
    BY ONLY <2>1, <2>2, OkNew
  <2> QED  BY <2>1, <2>3
<1>4. Apart(aiSpan, aiProfiled, aiSdk, pendingCalls, aiLog)
  <2>1. aiSpan = 0
    BY DEF AiStart
  <2>2. \A o \in AiOps : \A i, s : ~HoldsSpan(aiSdk[o], pendingCalls[o], aiLog[o], i, s)
    <3> TAKE o \in AiOps
    <3>1. aiSdk[o].stage = "new" /\ aiLog[o] = <<>>
      BY DEF AiStart
    <3>2. CallsIn(aiLog[o]) = {}
      BY <3>1 DEF CallsIn
    <3> QED  BY <3>1, <3>2 DEF HoldsSpan, Asking
  <2> QED  BY <2>1, <2>2 DEF Apart
<1>5. Covers(aiPanel, aiProfiled, aiSdk)
  BY DEF AiStart, Covers
<1>6. AiPathsOK
  <2>1. \A o \in AiOps : aiPath[o] = sc.ops[o].path
    BY DEF AiStart
  <2> QED  BY <1>1, <2>1 DEF AiPathsOK, PathOK
<1> QED  BY <1>2, <1>3, <1>4, <1>5, <1>6 DEF AiAll, AiInv

LEMMA AiUnmoved ==
    ASSUME AiAll, UNCHANGED aiVars
    PROVE  AiAll'
<1>1. UNCHANGED <<aiSdk, aiShape, aiPath, aiProfiled, operations, pendingCalls, pendingTools,
                  outputSpec, aiLog, aiSpan, aiEntrypoint, promoteEntrypoint, aiPanel>>
  BY DEF aiVars
<1>2. AiKept' /\ AiOpsOK' /\ AiPathsOK'
  BY <1>1 DEF AiAll, AiInv, AiKept, AiOpsOK, AgentOf, AiPathsOK
<1>3. Apart(aiSpan', aiProfiled', aiSdk', pendingCalls', aiLog') /\ Covers(aiPanel', aiProfiled', aiSdk')
  BY <1>1 DEF AiAll, AiInv
<1> QED  BY <1>2, <1>3 DEF AiAll, AiInv

LEMMA AiStep ==
    ASSUME AiAll, AiNext
    PROVE  AiAll'
<1>1. AiInv
  BY DEF AiAll
<1>2. AiInv'
  <2>1. ASSUME NEW o \in AiOps, OperationStart(o) PROVE AiInv'
    BY <1>1, <2>1, AiStarts
  <2>2. ASSUME NEW o \in AiOps, OutputSpecSettles(o) PROVE AiInv'
    BY <1>1, <2>2, AiOutputSettles
  <2>3. ASSUME NEW o \in AiOps, ModelCallStart(o) PROVE AiInv'
    BY <1>1, <2>3, AiModelCallStarts
  <2>4. ASSUME NEW o \in AiOps, AttemptStart(o) PROVE AiInv'
    BY <1>1, <2>4, AiAttempts
  <2>5. ASSUME NEW o \in AiOps, NEW outcome \in {"answered", "refused"}, AttemptSettles(o, outcome)
        PROVE  AiInv'
    BY <1>1, <2>5, AiSettles
  <2>6. ASSUME NEW o \in AiOps, ModelCallEnd(o) PROVE AiInv'
    BY <1>1, <2>6, AiModelCallEnds
  <2>7. ASSUME NEW o \in AiOps, ToolStart(o) PROVE AiInv'
    BY <1>1, <2>7, AiToolStarts
  <2>8. ASSUME NEW o \in AiOps, ToolEnd(o) PROVE AiInv'
    BY <1>1, <2>8, AiToolEnds
  <2>9. ASSUME NEW o \in AiOps, ObjectStepEnd(o) PROVE AiInv'
    BY <1>1, <2>9, AiObjectSteps
  <2>10. ASSUME NEW o \in AiOps, OperationEnd(o) PROVE AiInv'
    BY <1>1, <2>10, AiEnds
  <2>11. ASSUME NEW o \in AiOps, ObjectEnd(o) PROVE AiInv'
    BY <1>1, <2>11, AiObjectEnds
  <2>12. ASSUME NEW o \in AiOps, OperationError(o) PROVE AiInv'
    BY <1>1, <2>12, AiFails
  <2>13. CASE AiCollect
    BY <1>1, <2>13, AiCollects
  <2> QED  BY <2>1, <2>2, <2>3, <2>4, <2>5, <2>6, <2>7, <2>8, <2>9, <2>10, <2>11, <2>12, <2>13
           DEF AiNext
<1>3. aiPath' = aiPath
  BY DEF AiNext, OperationStart, OutputSpecSettles, ModelCallStart, AttemptStart, AttemptSettles,
         ModelCallEnd, ToolStart, ToolEnd, ObjectStepEnd, OperationEnd, ObjectEnd, OperationError,
         AiCollect
<1>4. AiPathsOK'
  BY <1>3 DEF AiAll, AiPathsOK
<1> QED  BY <1>2, <1>4 DEF AiAll

-----------------------------------------------------------------------------
LEMMA AiCallsAre ==
    ASSUME AiInv, NEW o \in AiOps
    PROVE  /\ AiCallsOf(o) = CallsIn(aiLog[o]) /\ IsFiniteSet(AiCallsOf(o))
           /\ \A i \in AiCallsOf(o) : i \in DOMAIN aiLog[o] /\ i \in Nat /\ i <= Len(aiLog[o])
                                      /\ aiLog[o][i] \in AiEntries(AgentOf(o))
           /\ Len(aiLog[o]) \in Nat /\ DOMAIN aiLog[o] = 1..Len(aiLog[o])
           /\ \A i \in DOMAIN aiLog[o] : aiLog[o][i] \in AiEntries(AgentOf(o))
BY AiAt, CallsFacts DEF AiCallsOf, CallsIn

LEMMA AiTyped ==
    ASSUME AiInv
    PROVE  AiTypeOK
<1> SUFFICES ASSUME NEW o \in AiOps
             PROVE  /\ aiSdk[o].stage \in AiStages
                    /\ operations[o].lastCall \in 0..Len(aiLog[o])
                    /\ operations[o].steps <= AiMaxSteps
                    /\ pendingTools[o] <= aiSdk[o].tools
                    /\ pendingCalls[o] # AiNone => aiSdk[o].stage \in Asking
                    /\ \A i \in DOMAIN aiLog[o] : aiLog[o][i].kind \in {"call", "tool", "error"}
  BY AiAt DEF AiTypeOK, AiInv, AiKept, AiStages, Asking
<1>1. aiSdk[o].stage \in AiStages
  BY AiAt DEF AiSdks
<1>2. operations[o].lastCall \in 0..Len(aiLog[o])
  BY AiAt DEF OpOK, OpLast
<1>3. /\ operations[o].steps <= AiMaxSteps /\ pendingTools[o] <= aiSdk[o].tools
      /\ pendingCalls[o] # AiNone => aiSdk[o].stage \in Asking
  BY AiAt DEF OpOK, OpStaged
<1>4. \A i \in DOMAIN aiLog[o] : aiLog[o][i].kind \in {"call", "tool", "error"}
  BY AiCallsAre DEF AiEntries
<1> QED  BY <1>1, <1>2, <1>3, <1>4

LEMMA AiOnce ==
    ASSUME AiInv
    PROVE  AiOneEntryPerCall
<1> SUFFICES ASSUME NEW o \in AiOps, AiSettled(o)
             PROVE  /\ pendingCalls[o] = AiNone /\ pendingTools[o] = 0
                    /\ aiSdk[o].stage = "ended" => ~operations[o].inMap
                    /\ aiProfiled[o] =>
                         /\ Cardinality(AiCallsOf(o))
                              = aiSdk[o].spent + (IF aiSdk[o].stage = "failed" THEN 1 ELSE 0)
                         /\ {aiLog[o][i].step : i \in AiCallsOf(o)} = 0..Cardinality(AiCallsOf(o)) - 1
  BY DEF AiOneEntryPerCall
<1>1. aiSdk[o].stage \in {"ended", "failed"}
  BY DEF AiSettled
<1>2. /\ pendingCalls[o] = AiNone
      /\ aiSdk[o].stage = "ended" => ~operations[o].inMap
      /\ pendingTools[o] \in Nat /\ ~(pendingTools[o] > 0)
  BY <1>1, AiAt DEF OpOK, OpStaged, Asking
<1>3. aiProfiled[o] =>
         /\ Cardinality(CallsIn(aiLog[o]))
              = aiSdk[o].spent + (IF aiSdk[o].stage = "failed" THEN 1 ELSE 0)
         /\ {aiLog[o][i].step : i \in CallsIn(aiLog[o])} = 0..Cardinality(CallsIn(aiLog[o])) - 1
  BY AiAt DEF OpOK, OpLogged
<1>4. AiCallsOf(o) = CallsIn(aiLog[o])
  BY AiCallsAre
<1> QED  BY <1>2, <1>3, <1>4

LEMMA AiCounted ==
    ASSUME AiInv
    PROVE  AiUsageCountedOnce
<1>1. ASSUME NEW o \in AiOps, aiProfiled[o], aiSdk[o].stage = "ended"
      PROVE  AiUsage(o, Len(aiLog[o])) = aiSdk[o].spent
  <2>1. UsageIn(aiLog[o]) = aiSdk[o].spent
    BY <1>1, AiAt DEF OpOK, OpUsage
  <2> QED  BY <2>1, AiUsageIs
<1>2. ASSUME aiPanel # AiNone
      PROVE  aiPanel.totalTokens >= MapThenSumSet(LAMBDA o : aiSdk[o].spent, aiPanel.over)
  <2>1. /\ aiPanel.over \subseteq AiOps
        /\ aiPanel.totalTokens >= Total([o \in AiOps |-> aiSdk[o].spent], aiPanel.over)
    BY <1>2 DEF AiInv, Covers
  <2>2. MapThenSumSet(LAMBDA o : aiSdk[o].spent, aiPanel.over)
          = Total([o \in AiOps |-> aiSdk[o].spent], aiPanel.over)
    BY <2>1, AiSpentIs
  <2> QED  BY <2>1, <2>2
<1> QED  BY <1>1, <1>2 DEF AiUsageCountedOnce

LEMMA AiAnswering ==
    ASSUME AiInv
    PROVE  AiSpanOfAnsweringAttempt
<1> SUFFICES ASSUME NEW o \in AiOps, NEW i \in AiCallsOf(o), aiLog[o][i].span # AiNone
             PROVE  /\ aiLog[o][i].payload # AiNone /\ aiLog[o][i].payload.of = aiLog[o][i].span
                    /\ \A p \in AiOps : \A j \in AiCallsOf(p) :
                         aiLog[o][i].span = aiLog[p][j].span => <<p, j>> = <<o, i>>
  BY DEF AiSpanOfAnsweringAttempt
<1>1. aiLog[o][i].payload # AiNone /\ aiLog[o][i].payload.of = aiLog[o][i].span
  BY AiAt, AiCallsAre, AiNotNone DEF OpOK, OpSpans
<1>2. ASSUME NEW p \in AiOps, NEW j \in AiCallsOf(p), aiLog[o][i].span = aiLog[p][j].span
      PROVE  p = o /\ j = i
  <2> PICK s : s = aiLog[o][i].span
    OBVIOUS
  <2>1. i # 0 /\ j # 0 /\ i \in CallsIn(aiLog[o]) /\ j \in CallsIn(aiLog[p])
    BY AiCallsAre
  <2>2. HoldsSpan(aiSdk[o], pendingCalls[o], aiLog[o], i, s) /\ HoldsSpan(aiSdk[p], pendingCalls[p], aiLog[p], j, s)
    BY <1>2, <2>1 DEF HoldsSpan
  <2>3. Apart(aiSpan, aiProfiled, aiSdk, pendingCalls, aiLog)
    BY DEF AiInv
  <2> QED  BY ONLY <2>2, <2>3, o \in AiOps, p \in AiOps DEF Apart
<1> QED  BY <1>1, <1>2

LEMMA AiFolded ==
    ASSUME AiInv
    PROVE  AiFoldedIntoLastCall
<1> SUFFICES ASSUME NEW o \in AiOps, aiProfiled[o], aiSdk[o].stage = "ended"
             PROVE  /\ AiCallsOf(o) # {}
                    /\ {i \in AiCallsOf(o) : aiLog[o][i].result} = {Max(AiCallsOf(o))}
                    /\ outputSpec[o] # "pending" /\ aiShape[o].output # "none" =>
                         aiLog[o][Max(AiCallsOf(o))].schema
  BY DEF AiFoldedIntoLastCall
<1> PICK C, lg, n : C = AiCallsOf(o) /\ lg = aiLog[o] /\ n = Len(lg)
  OBVIOUS
<1>1. /\ C = CallsIn(lg) /\ IsFiniteSet(C) /\ n \in Nat /\ C \subseteq 1..n
      /\ \A i \in C : i \in Nat
  BY AiCallsAre
<1>2. C # {}
  <2>1. Cardinality(C) = aiSdk[o].spent + 0
    BY <1>1, AiAt DEF OpOK, OpLogged
  <2>2. aiSdk[o].spent > 0 /\ aiSdk[o].spent \in Nat
    BY AiAt DEF OpOK, OpStaged, AiSdks
  <2>3. Cardinality(C) # 0
    BY <2>1, <2>2
  <2> QED  BY <2>3, FS_EmptySet
<1>3. PICK m \in C : \A i \in C : i <= m /\ (lg[i].result <=> i = m)
  <2>1. OpLast(aiShape[o], aiSdk[o], operations[o], lg)
    BY AiAt DEF OpOK
  <2>2. \E m \in CallsIn(lg) : \A i \in CallsIn(lg) : i <= m /\ (lg[i].result <=> i = m)
    BY <1>1, <1>2, <2>1 DEF OpLast
  <2> QED  BY <1>1, <2>2
<1>4. Max(C) = m
  <2>1. Max(C) \in C /\ \A y \in C : Max(C) >= y
    BY <1>1, <1>2, MaxOf
  <2> QED  BY <1>1, <1>3, <2>1
<1>5. {i \in C : lg[i].result} = {m}
  BY <1>3
<1>6. ASSUME outputSpec[o] # "pending", aiShape[o].output # "none"
      PROVE  lg[m].schema
  <2>1. operations[o].schema
    BY <1>6, AiAt DEF OpOK, OpSchemas
  <2>2. CASE aiShape[o].events
    <3>1. operations[o].lastCall # 0 /\ operations[o].lastCall \in C /\ m <= operations[o].lastCall
      BY <1>1, <1>2, <1>3, <2>2, AiAt DEF OpOK, OpLast
    <3>2. operations[o].lastCall <= m
      BY <1>3, <3>1
    <3>3. operations[o].lastCall = m
      BY <1>1, <1>3, <3>1, <3>2
    <3>4. lg[operations[o].lastCall].schema
      BY <2>1, <3>1, AiAt DEF OpOK, OpSchemas
    <3> QED  BY <3>3, <3>4
  <2>3. CASE ~aiShape[o].events
    BY <1>1, <1>3, <2>3, AiAt DEF OpOK, OpSchemas
  <2> QED  BY <2>2, <2>3
<1> QED  BY <1>2, <1>4, <1>5, <1>6

LEMMA AiNamed ==
    ASSUME AiAll
    PROVE  AiNamedByInnermostAgent
<1> SUFFICES ASSUME NEW o \in AiOps, NEW i \in DOMAIN aiLog[o],
                    NEW path, path = aiPath[o], NEW agent, agent = aiLog[o][i].agent
             PROVE  IF path = <<>> THEN agent = AiNone
                    ELSE /\ path[Len(path)].wrapped /\ path[Len(path)].name # AiNone
                              => agent = path[Len(path)].name
                         /\ ~path[Len(path)].wrapped /\ path[Len(path)].id # AiNone
                              /\ (\A k \in 1..Len(path) - 1 : path[k].target # path[Len(path)].target)
                                => agent = path[Len(path)].id
  BY DEF AiNamedByInnermostAgent
<1>1. agent = FrameAfter(path).info
  <2>1. aiLog[o][i] \in AiEntries(AgentOf(o))
    BY AiCallsAre DEF AiAll
  <2> QED  BY <2>1 DEF AiEntries, AgentOf
<1>2. PathOK(path)
  BY DEF AiAll, AiPathsOK
<1> QED  BY <1>1, <1>2, FrameFacts

LEMMA AiEnough ==
    ASSUME AiAll
    PROVE  AiOneEntryPerCall /\ AiEntriesTellTheCall /\ AiTypeOK
BY AiOnce, AiTyped, AiCounted, AiAnswering, AiFolded, AiNamed DEF AiAll, AiEntriesTellTheCall

(* Each model call of an operation leaves one entry, numbered by its step, *)
(* and a failure one more; the entry has the tokens of its own call, the   *)
(* span of the attempt that answered, the result that was folded into it   *)
(* and the innermost agent's name: for every number of operations, steps,  *)
(* tools, attempts and nested agents.                                      *)
THEOREM AiEntriesToldOnce == AiSpec => [](AiOneEntryPerCall /\ AiEntriesTellTheCall /\ AiTypeOK)
<1>1. AiInit => AiAll
  BY AiInitially DEF AiInit
<1>2. AiAll /\ [AiNext]_aiVars => AiAll'
  BY AiStep, AiUnmoved
<1>3. AiAll => AiOneEntryPerCall /\ AiEntriesTellTheCall /\ AiTypeOK
  BY AiEnough
<1> QED  BY <1>1, <1>2, <1>3, PTL DEF AiSpec

-----------------------------------------------------------------------------
(* MethodSpans: what is active in the store a call runs in, and how deep   *)
(* it is, is what its callers opened.                                      *)
SpCallRecords ==
    [task : SpTasks, method : SpMethods \cup {SpEntry}, caller : Nat, self : BOOLEAN, span : Nat,
     inner : Nat, wrapped : BOOLEAN, store : Nat, under : SUBSET (SpMethods \cup {SpEntry}),
     state : {"first", "awaiting", "resumed", "settled", "unwinding", "over"}, failed : BOOLEAN]
SpStoreRecords == [span : Nat, depth : Nat]
SpSpanRecords ==
    [parent : Nat, kind : {"method", "custom", "manual"}, failed : BOOLEAN, records : Seq(BOOLEAN)]

SpShaped ==
    /\ spConfig \in SpScenarios
    /\ spStack \in Seq(Nat) /\ spCalls \in Seq(SpCallRecords)
    /\ spStores \in Seq(SpStoreRecords) /\ spSpans \in Seq(SpSpanRecords)
    /\ spTracing \subseteq SpMethods

(* Who is on the stack runs, and a method that is being traced is there.   *)
SpStacked ==
    /\ \A i \in DOMAIN spStack : /\ spStack[i] \in DOMAIN spCalls
                                 /\ spCalls[spStack[i]].state \in {"first", "resumed"}
    /\ \A i, j \in DOMAIN spStack : spStack[i] = spStack[j] => i = j
    /\ \A m \in spTracing : \E i \in DOMAIN spStack :
         LET call == spCalls[spStack[i]]
         IN  call.method = m /\ call.wrapped /\ call.state = "first"

SpActive(c) == spStores[spCalls[c].store].span
SpDepth(c) == spStores[spCalls[c].store].depth

(* The spans of a call: its method's, or its decorator's, or one in the    *)
(* other.                                                                  *)
SpOwns(c, id) == id # NoSpan /\ id \in {spCalls[c].span, spCalls[c].inner}

SpNested(c) ==
    LET call == spCalls[c]
        up == call.caller
    IN  /\ call.store \in DOMAIN spStores
        /\ up \in 0..c - 1
        /\ up = 0 => /\ call.method = SpEntry /\ call.span = NoSpan /\ ~call.wrapped
                     /\ SpActive(c) = NoSpan
        /\ up # 0 => /\ call.task = spCalls[up].task
                     /\ SpActive(c) = IF call.span = NoSpan THEN SpActive(up) ELSE Innermost(call)
        /\ \A id \in Nat : SpOwns(c, id) => /\ call.task \in spConfig.profiled
                                           /\ id \in DOMAIN spSpans
                                           /\ spSpans[id].kind # "manual"
        /\ call.span # NoSpan => spSpans[call.span].parent = SpActive(up)
        /\ call.inner # NoSpan => /\ call.span # NoSpan /\ call.inner # call.span
                                  /\ spSpans[call.inner].parent = call.span

(* A profiled call is as deep as the method spans above it and its own.    *)
SpDeep(c) ==
    LET call == spCalls[c]
        up == call.caller
    IN  call.task \in spConfig.profiled =>
          /\ call.wrapped => call.span # NoSpan
          /\ SpDepth(c) = (IF up = 0 THEN 0 ELSE SpDepth(up)) + (IF call.wrapped THEN 1 ELSE 0)
          /\ up # 0 => IF call.wrapped THEN SpDepth(up) < SpMaxDepth
                       ELSE \/ ~ThroughProxy(call.method, call.self)
                            \/ call.method \in spConfig.excluded \cup call.under
                            \/ SpDepth(up) >= SpMaxDepth

(* No store is shared by two executions, and no span by two calls.         *)
SpApart ==
    \A c, d \in DOMAIN spCalls :
        /\ spCalls[c].store = spCalls[d].store => spCalls[c].task = spCalls[d].task
        /\ \A id \in Nat : SpOwns(c, id) /\ SpOwns(d, id) => c = d

SpSpansAre ==
    /\ \A s \in DOMAIN spStores : spStores[s].span \in 0..Len(spSpans)
    /\ \A id \in DOMAIN spSpans : /\ spSpans[id].parent \in 0..id - 1
                                  /\ Len(spSpans[id].records) <= 1
SpTree == SpSpansAre /\ SpApart /\ \A c \in DOMAIN spCalls : SpNested(c) /\ SpDeep(c)

(* What has been recorded of a call's spans: the inner one ends first.     *)
SpClosed(c, id) ==
    \/ spCalls[c].state = "over"
    \/ spCalls[c].state = "unwinding" /\ id = spCalls[c].inner
SpRecorded ==
    \A c \in DOMAIN spCalls, id \in Nat :
        SpOwns(c, id) =>
          spSpans[id].records =
             IF SpClosed(c, id) THEN <<spCalls[c].failed \/ spSpans[id].failed>> ELSE <<>>

SpInv == SpShaped /\ SpStacked /\ SpTree /\ SpRecorded

(* Two functions that agree wherever they agree on the caller agree.       *)
SpClimbs(n, up, f, g) ==
    \A x \in 1..n : /\ up[x] \in 0..x - 1
                    /\ up[x] = 0 \/ f[up[x]] = g[up[x]] => f[x] = g[x]
LEMMA Climbed ==
    ASSUME NEW n \in Nat, NEW up, NEW f, NEW g, SpClimbs(n, up, f, g)
    PROVE  \A x \in 1..n : f[x] = g[x]
<1> USE DEF SpClimbs
<1> DEFINE T == {k \in Nat : \A x \in 1..n : x <= k => f[x] = g[x]}
<1>1. 0 \in T
  OBVIOUS
<1>2. ASSUME NEW k \in Nat, k \in T PROVE k + 1 \in T
  <2> SUFFICES ASSUME NEW x \in 1..n, x = k + 1 PROVE f[x] = g[x]
    BY <1>2
  <2>1. up[x] = 0 \/ (up[x] \in 1..n /\ up[x] <= k)
    OBVIOUS
  <2>2. up[x] = 0 \/ f[up[x]] = g[up[x]]
    BY <1>2, <2>1
  <2> QED  BY <2>2
<1>3. n \in T
  <2> HIDE DEF T
  <2> QED  BY <1>1, <1>2, AllNumbers
<1> QED  BY <1>3

LEMMA SpLengths ==
    ASSUME SpShaped
    PROVE  /\ Len(spCalls) \in Nat /\ DOMAIN spCalls = 1..Len(spCalls)
           /\ Len(spStores) \in Nat /\ DOMAIN spStores = 1..Len(spStores)
           /\ Len(spSpans) \in Nat /\ DOMAIN spSpans = 1..Len(spSpans)
           /\ Len(spStack) \in Nat /\ DOMAIN spStack = 1..Len(spStack)
           /\ \A c \in DOMAIN spCalls : spCalls[c] \in SpCallRecords
           /\ \A s \in DOMAIN spStores : spStores[s] \in SpStoreRecords
           /\ \A id \in DOMAIN spSpans : spSpans[id] \in SpSpanRecords
BY ElementOfSeq, LenProperties DEF SpShaped

LEMMA SpOwned ==
    ASSUME SpInv, NEW c \in DOMAIN spCalls
    PROVE  /\ spCalls[c].span # NoSpan => SpOwns(c, spCalls[c].span)
           /\ spCalls[c].inner # NoSpan => SpOwns(c, spCalls[c].inner)
           /\ \A id : SpOwns(c, id) => /\ id \in Nat /\ id \in DOMAIN spSpans
                                      /\ spCalls[c].task \in spConfig.profiled
                                      /\ spSpans[id].kind # "manual"
           /\ spCalls[c].span \in 0..Len(spSpans) /\ spCalls[c].inner \in 0..Len(spSpans)
           /\ spCalls[c].span = NoSpan => spCalls[c].inner = NoSpan
<1>1. spCalls[c] \in SpCallRecords /\ Len(spSpans) \in Nat /\ DOMAIN spSpans = 1..Len(spSpans)
  BY SpLengths DEF SpInv
<1>2. spCalls[c].span \in Nat /\ spCalls[c].inner \in Nat
  BY <1>1 DEF SpCallRecords
<1>3. SpNested(c)
  BY DEF SpInv, SpTree
<1>4. /\ spCalls[c].span # NoSpan => SpOwns(c, spCalls[c].span)
      /\ spCalls[c].inner # NoSpan => SpOwns(c, spCalls[c].inner)
      /\ \A id : SpOwns(c, id) => id \in Nat
  BY <1>2 DEF SpOwns
<1>5. \A id : SpOwns(c, id) => /\ id \in DOMAIN spSpans /\ spCalls[c].task \in spConfig.profiled
                              /\ spSpans[id].kind # "manual"
  BY <1>3, <1>4 DEF SpNested
<1> QED  BY <1>1, <1>3, <1>4, <1>5 DEF SpNested, NoSpan

LEMMA SpSpanAbove ==
    ASSUME SpInv, NEW c \in DOMAIN spCalls
    PROVE  SpanAbove(c) = IF spCalls[c].caller = 0 THEN NoSpan ELSE SpActive(spCalls[c].caller)
<1> DEFINE Body(h) == [x \in DOMAIN spCalls |->
              IF spCalls[x].caller = 0 THEN NoSpan
              ELSE IF spCalls[spCalls[x].caller].span # NoSpan THEN Innermost(spCalls[spCalls[x].caller])
                   ELSE h[spCalls[x].caller]]
           h0 == CHOOSE h : h = Body(h)
<1> PICK g : g = [x \in DOMAIN spCalls |-> IF spCalls[x].caller = 0 THEN NoSpan ELSE SpActive(spCalls[x].caller)]
  OBVIOUS
<1> PICK up : up = [x \in DOMAIN spCalls |-> spCalls[x].caller]
  OBVIOUS
<1>1. Len(spCalls) \in Nat /\ DOMAIN spCalls = 1..Len(spCalls)
  BY SpLengths DEF SpInv
<1>2. \A x \in DOMAIN spCalls : up[x] \in 0..x - 1 /\ spCalls[x].caller = up[x]
  BY DEF SpInv, SpTree, SpNested
<1>3. \A x \in DOMAIN spCalls : up[x] # 0 => up[x] \in DOMAIN spCalls
  BY <1>1, <1>2
<1>4. \A x \in DOMAIN spCalls : up[x] # 0 =>
        SpActive(up[x]) = IF spCalls[up[x]].span # NoSpan THEN Innermost(spCalls[up[x]])
                          ELSE IF up[up[x]] = 0 THEN NoSpan ELSE SpActive(up[up[x]])
  BY <1>2, <1>3 DEF SpInv, SpTree, SpNested
<1>5. g = Body(g)
  BY <1>2, <1>3, <1>4
<1>6. h0 = Body(h0)
  BY <1>5
<1>7. SpanAbove(c) = h0[c]
  BY DEF SpanAbove
<1>8. \A x \in 1..Len(spCalls) : up[x] = 0 \/ h0[up[x]] = g[up[x]] => h0[x] = g[x]
  <2> HIDE DEF h0
  <2> SUFFICES ASSUME NEW x \in DOMAIN spCalls, up[x] = 0 \/ h0[up[x]] = g[up[x]] PROVE h0[x] = g[x]
    BY <1>1
  <2>1. h0[x] = Body(h0)[x] /\ g[x] = Body(g)[x]
    BY <1>5, <1>6
  <2> QED  BY <1>2, <2>1
<1>9. h0[c] = g[c]
  <2> HIDE DEF h0
  <2> PICK n, h : n = Len(spCalls) /\ h = h0
    OBVIOUS
  <2>1. n \in Nat /\ (\A x \in 1..n : up[x] \in 0..x - 1)
    BY <1>1, <1>2
  <2>2. \A x \in 1..n : up[x] = 0 \/ h[up[x]] = g[up[x]] => h[x] = g[x]
    BY <1>8
  <2>3. n \in Nat /\ SpClimbs(n, up, h, g)
    BY ONLY <2>1, <2>2 DEF SpClimbs
  <2>4. \A x \in 1..n : h[x] = g[x]
    BY ONLY <2>3, Climbed
  <2> QED  BY <1>1, <2>4
<1> QED  BY <1>7, <1>9

LEMMA SpMethodsAbove ==
    ASSUME SpInv, NEW c \in DOMAIN spCalls, spCalls[c].task \in spConfig.profiled
    PROVE  MethodSpansAbove(c) = IF spCalls[c].caller = 0 THEN 0 ELSE SpDepth(spCalls[c].caller)
<1> DEFINE Own(x) == IF spCalls[x].span # NoSpan /\ spCalls[x].wrapped THEN 1 ELSE 0
           Body(h) == [x \in DOMAIN spCalls |->
              IF spCalls[x].caller = 0 THEN 0 ELSE h[spCalls[x].caller] + Own(spCalls[x].caller)]
           h0 == CHOOSE h : h = Body(h)
<1> PICK g : g = [x \in DOMAIN spCalls |->
                    IF spCalls[x].caller = 0 \/ spCalls[x].task \notin spConfig.profiled THEN 0
                    ELSE SpDepth(spCalls[x].caller)]
  OBVIOUS
<1> PICK up : up = [x \in DOMAIN spCalls |-> spCalls[x].caller]
  OBVIOUS
<1>1. Len(spCalls) \in Nat /\ DOMAIN spCalls = 1..Len(spCalls)
  BY SpLengths DEF SpInv
<1>2. \A x \in DOMAIN spCalls : up[x] \in 0..x - 1 /\ spCalls[x].caller = up[x]
  BY DEF SpInv, SpTree, SpNested
<1>3. \A x \in DOMAIN spCalls : up[x] # 0 =>
        up[x] \in DOMAIN spCalls /\ spCalls[up[x]].task = spCalls[x].task
  <2>1. \A x \in DOMAIN spCalls : up[x] # 0 => spCalls[x].task = spCalls[up[x]].task
    BY <1>2 DEF SpInv, SpTree, SpNested
  <2>2. \A x \in DOMAIN spCalls : up[x] # 0 => up[x] \in DOMAIN spCalls
    BY ONLY <1>1, <1>2
  <2> QED  BY <2>1, <2>2
<1>4. ASSUME NEW x \in DOMAIN spCalls, up[x] # 0 PROVE g[x] = g[up[x]] + Own(up[x])
  <2>1. up[x] \in DOMAIN spCalls /\ spCalls[up[x]].task = spCalls[x].task
    BY <1>3, <1>4
  <2>2. CASE spCalls[x].task \in spConfig.profiled
    <3>1. SpDepth(up[x]) = (IF up[up[x]] = 0 THEN 0 ELSE SpDepth(up[up[x]]))
                              + (IF spCalls[up[x]].wrapped THEN 1 ELSE 0)
      BY <1>2, <2>1, <2>2 DEF SpInv, SpTree, SpDeep
    <3>2. spCalls[up[x]].wrapped => spCalls[up[x]].span # NoSpan
      BY <1>2, <2>1, <2>2 DEF SpInv, SpTree, SpDeep
    <3>3. g[x] = SpDepth(up[x]) /\ g[up[x]] = IF up[up[x]] = 0 THEN 0 ELSE SpDepth(up[up[x]])
      BY <1>2, <1>4, <2>1, <2>2
    <3> QED  BY <3>1, <3>2, <3>3
  <2>3. CASE spCalls[x].task \notin spConfig.profiled
    <3>1. spCalls[up[x]].span = NoSpan
      BY <2>1, <2>3, SpOwned
    <3> QED  BY <2>1, <2>3, <3>1
  <2> QED  BY <2>2, <2>3
<1>5. g = Body(g)
  <2>1. ASSUME NEW x \in DOMAIN spCalls PROVE g[x] = Body(g)[x]
    <3>1. CASE up[x] = 0
      BY <1>2, <3>1
    <3>2. CASE up[x] # 0
      BY <1>2, <1>4, <3>2
    <3> QED  BY <3>1, <3>2
  <2>2. g = [x \in DOMAIN spCalls |-> g[x]]
    OBVIOUS
  <2> QED  BY <2>1, <2>2
<1>6. h0 = Body(h0)
  BY <1>5
<1>7. MethodSpansAbove(c) = h0[c]
  BY DEF MethodSpansAbove
<1>8. \A x \in 1..Len(spCalls) : up[x] = 0 \/ h0[up[x]] = g[up[x]] => h0[x] = g[x]
  <2> HIDE DEF h0
  <2> SUFFICES ASSUME NEW x \in DOMAIN spCalls, up[x] = 0 \/ h0[up[x]] = g[up[x]] PROVE h0[x] = g[x]
    BY <1>1
  <2>1. h0[x] = Body(h0)[x] /\ g[x] = Body(g)[x]
    BY <1>5, <1>6
  <2> QED  BY <1>2, <2>1
<1>9. h0[c] = g[c]
  <2> HIDE DEF h0
  <2> PICK n, h : n = Len(spCalls) /\ h = h0
    OBVIOUS
  <2>1. n \in Nat /\ (\A x \in 1..n : up[x] \in 0..x - 1)
    BY <1>1, <1>2
  <2>2. \A x \in 1..n : up[x] = 0 \/ h[up[x]] = g[up[x]] => h[x] = g[x]
    BY <1>8
  <2>3. n \in Nat /\ SpClimbs(n, up, h, g)
    BY ONLY <2>1, <2>2 DEF SpClimbs
  <2>4. \A x \in 1..n : h[x] = g[x]
    BY ONLY <2>3, Climbed
  <2> QED  BY <1>1, <2>4
<1> QED  BY <1>7, <1>9

LEMMA SpEnough == ASSUME SpInv PROVE SpansAreTheCalls /\ SpTypeOK
<1>1. ASSUME NEW c \in DOMAIN spCalls, spCalls[c].method # SpEntry
      PROVE  /\ spCalls[c].span # NoSpan => spSpans[spCalls[c].span].parent = SpanAbove(c)
             /\ spCalls[c].inner # NoSpan => spSpans[spCalls[c].inner].parent = spCalls[c].span
             /\ spCalls[c].task \in spConfig.profiled =>
                  IF spCalls[c].wrapped
                  THEN spCalls[c].span # NoSpan /\ MethodSpansAbove(c) < SpMaxDepth
                  ELSE \/ ~ThroughProxy(spCalls[c].method, spCalls[c].self)
                       \/ spCalls[c].method \in spConfig.excluded \cup spCalls[c].under
                       \/ MethodSpansAbove(c) >= SpMaxDepth
  <2>1. SpNested(c) /\ SpDeep(c) /\ spCalls[c].caller # 0
    BY <1>1 DEF SpInv, SpTree, SpNested
  <2>2. SpanAbove(c) = SpActive(spCalls[c].caller)
    BY <2>1, SpSpanAbove
  <2>3. /\ spCalls[c].span # NoSpan => spSpans[spCalls[c].span].parent = SpanAbove(c)
        /\ spCalls[c].inner # NoSpan => spSpans[spCalls[c].inner].parent = spCalls[c].span
    BY <2>1, <2>2 DEF SpNested
  <2>4. ASSUME spCalls[c].task \in spConfig.profiled
        PROVE  IF spCalls[c].wrapped
               THEN spCalls[c].span # NoSpan /\ MethodSpansAbove(c) < SpMaxDepth
               ELSE \/ ~ThroughProxy(spCalls[c].method, spCalls[c].self)
                    \/ spCalls[c].method \in spConfig.excluded \cup spCalls[c].under
                    \/ MethodSpansAbove(c) >= SpMaxDepth
    <3>1. MethodSpansAbove(c) = SpDepth(spCalls[c].caller)
      BY <2>1, <2>4, SpMethodsAbove
    <3> QED  BY <2>1, <2>4, <3>1 DEF SpDeep
  <2> QED  BY <2>3, <2>4
<1>2. SpansMirrorCalls
  BY <1>1 DEF SpansMirrorCalls
<1>3. SpanClosedOnce
  <2>1. ASSUME NEW c \in DOMAIN spCalls, spCalls[c].span # NoSpan
        PROVE  RecordedOnce(spCalls[c].span, spCalls[c].state = "over", spCalls[c].failed)
    <3>1. SpOwns(c, spCalls[c].span) /\ spCalls[c].span \in Nat
      BY <2>1, SpOwned
    <3>2. spCalls[c].inner # spCalls[c].span
      BY <2>1 DEF SpInv, SpTree, SpNested
    <3>3. SpClosed(c, spCalls[c].span) <=> spCalls[c].state = "over"
      BY <3>2 DEF SpClosed
    <3> QED  BY <3>1, <3>3 DEF SpInv, SpRecorded, RecordedOnce
  <2>2. ASSUME NEW c \in DOMAIN spCalls, spCalls[c].inner # NoSpan
        PROVE  RecordedOnce(spCalls[c].inner, spCalls[c].state \in {"unwinding", "over"},
                            spCalls[c].failed)
    <3>1. SpOwns(c, spCalls[c].inner) /\ spCalls[c].inner \in Nat
      BY <2>2, SpOwned
    <3>2. SpClosed(c, spCalls[c].inner) <=> spCalls[c].state \in {"unwinding", "over"}
      BY DEF SpClosed
    <3> QED  BY <3>1, <3>2 DEF SpInv, SpRecorded, RecordedOnce
  <2>3. \A id \in DOMAIN spSpans : Len(spSpans[id].records) <= 1
    BY DEF SpInv, SpTree, SpSpansAre
  <2> QED  BY <2>1, <2>2, <2>3 DEF SpanClosedOnce
<1>4. SpTypeOK
  <2>1. \A c \in DOMAIN spCalls : /\ spCalls[c].span \in 0..Len(spSpans)
                                  /\ spCalls[c].inner \in 0..Len(spSpans)
    BY SpOwned
  <2>2. \A c \in DOMAIN spCalls :
          spCalls[c].state \in {"first", "awaiting", "resumed", "settled", "unwinding", "over"}
    BY SpLengths DEF SpInv, SpCallRecords
  <2> QED  BY <2>1, <2>2 DEF SpInv, SpShaped, SpStacked, SpTree, SpSpansAre, SpNested, SpTypeOK
<1> QED  BY <1>2, <1>3, <1>4 DEF SpansAreTheCalls

-----------------------------------------------------------------------------
(* Steps that only move a call on, or touch the spans that are open.       *)

LEMMA SpAppended ==
    ASSUME NEW S, NEW s \in Seq(S), NEW e \in S, NEW t, t = Append(s, e)
    PROVE  /\ t \in Seq(S) /\ Len(t) = Len(s) + 1 /\ Len(s) \in Nat
           /\ DOMAIN t = 1..Len(s) + 1 /\ DOMAIN s = 1..Len(s)
           /\ \A i \in DOMAIN s : t[i] = s[i]
           /\ t[Len(s) + 1] = e
BY AppendProperties, LenProperties

LEMMA SpUpdated ==
    ASSUME NEW S, NEW s \in Seq(S), NEW i \in DOMAIN s, NEW e \in S, NEW t, t = [s EXCEPT ![i] = e]
    PROVE  /\ t \in Seq(S) /\ Len(t) = Len(s) /\ DOMAIN t = DOMAIN s
           /\ t[i] = e /\ \A j \in DOMAIN s : j # i => t[j] = s[j]
BY ExceptSeq, LenProperties

LEMMA SpPopped ==
    ASSUME NEW S, NEW s \in Seq(S), s # <<>>
    PROVE  /\ Front(s) \in Seq(S) /\ Len(s) \in DOMAIN s /\ Last(s) = s[Len(s)]
           /\ DOMAIN Front(s) = DOMAIN s \ {Len(s)}
           /\ \A i \in DOMAIN s \ {Len(s)} : Front(s)[i] = s[i]
<1> PICK n : n = Len(s)
  OBVIOUS
<1>1. n \in Nat \ {0} /\ DOMAIN s = 1..n /\ \A i \in 1..n : s[i] \in S
  BY EmptySeq, LenProperties, ElementOfSeq
<1> PICK k : k = n - 1
  OBVIOUS
<1>2. k \in Nat /\ n = k + 1
  BY <1>1
<1>3. Front(s) = SubSeq(s, 1, k) /\ 1 \in Int /\ k \in Int /\ \A i \in 1..k : s[i] \in S
  BY <1>1, <1>2 DEF Front
<1>4. /\ SubSeq(s, 1, k) \in Seq(S) /\ Len(SubSeq(s, 1, k)) = (IF 1 <= k THEN k - 1 + 1 ELSE 0)
      /\ \A i \in 1..k - 1 + 1 : SubSeq(s, 1, k)[i] = s[1 + i - 1]
  BY ONLY <1>3, SubSeqProperties
<1>5. Front(s) \in Seq(S) /\ Len(Front(s)) = k /\ \A i \in 1..k : Front(s)[i] = s[i]
  BY ONLY <1>2, <1>3, <1>4
<1>6. DOMAIN Front(s) = 1..k
  BY ONLY <1>5, LenProperties
<1>7. DOMAIN s \ {n} = 1..k /\ n \in DOMAIN s
  BY ONLY <1>1, <1>2
<1>8. Last(s) = s[Len(s)]
  BY DEF Last
<1> QED  BY <1>5, <1>6, <1>7, <1>8

(* Call c, moved on to a stage and to an outcome.                          *)
SpMoved(c, cs, st, fl) ==
    /\ cs \in Seq(SpCallRecords) /\ DOMAIN cs = DOMAIN spCalls
    /\ \A d \in DOMAIN spCalls : d # c => cs[d] = spCalls[d]
    /\ cs[c] = [spCalls[c] EXCEPT !.state = st, !.failed = fl]

(* Spans that are what they were, but for their outcomes, and some more.   *)
SpGrown(sps) ==
    /\ sps \in Seq(SpSpanRecords) /\ Len(sps) >= Len(spSpans)
    /\ \A id \in DOMAIN spSpans : sps[id].parent = spSpans[id].parent /\ sps[id].kind = spSpans[id].kind
    /\ \A id \in DOMAIN sps : sps[id].parent \in 0..id - 1 /\ Len(sps[id].records) <= 1

LEMMA SpTreeKept ==
    ASSUME SpInv, NEW c \in DOMAIN spCalls, NEW st, NEW fl, SpMoved(c, spCalls', st, fl),
           spConfig' = spConfig, spStores' = spStores, SpGrown(spSpans')
    PROVE  SpTree'
<1>0. /\ Len(spSpans) \in Nat /\ DOMAIN spSpans = 1..Len(spSpans)
      /\ \A d \in DOMAIN spCalls : spCalls[d] \in SpCallRecords
  BY SpLengths DEF SpInv
<1>1. Len(spSpans') \in Nat /\ DOMAIN spSpans' = 1..Len(spSpans')
  BY LenProperties DEF SpGrown
<1>2. \A id \in DOMAIN spSpans : id \in DOMAIN spSpans'
  BY <1>0, <1>1 DEF SpGrown
<1>3. \A d \in DOMAIN spCalls :
        /\ spCalls'[d].task = spCalls[d].task /\ spCalls'[d].method = spCalls[d].method
        /\ spCalls'[d].caller = spCalls[d].caller /\ spCalls'[d].self = spCalls[d].self
        /\ spCalls'[d].span = spCalls[d].span /\ spCalls'[d].wrapped = spCalls[d].wrapped
        /\ spCalls'[d].inner = spCalls[d].inner
        /\ spCalls'[d].store = spCalls[d].store /\ spCalls'[d].under = spCalls[d].under
  <2>1. spCalls[c] \in SpCallRecords /\ spCalls'[c] = [spCalls[c] EXCEPT !.state = st, !.failed = fl]
    BY <1>0 DEF SpMoved
  <2>2. \A d \in DOMAIN spCalls : d # c => spCalls'[d] = spCalls[d]
    BY DEF SpMoved
  <2>3. /\ spCalls'[c].task = spCalls[c].task /\ spCalls'[c].method = spCalls[c].method
        /\ spCalls'[c].caller = spCalls[c].caller /\ spCalls'[c].self = spCalls[c].self
        /\ spCalls'[c].span = spCalls[c].span /\ spCalls'[c].wrapped = spCalls[c].wrapped
        /\ spCalls'[c].inner = spCalls[c].inner
        /\ spCalls'[c].store = spCalls[c].store /\ spCalls'[c].under = spCalls[c].under
    BY ONLY <2>1 DEF SpCallRecords
  <2> QED  BY ONLY <2>2, <2>3
<1>4. DOMAIN spCalls' = DOMAIN spCalls
  BY DEF SpMoved
<1>5. SpSpansAre'
  BY <1>0, <1>1 DEF SpInv, SpTree, SpSpansAre, SpGrown
<1>6. SpApart'
  BY <1>3, <1>4 DEF SpInv, SpTree, SpApart, SpOwns
<1>7. ASSUME NEW d \in DOMAIN spCalls PROVE SpNested(d)' /\ SpDeep(d)'
  <2> PICK up : up = spCalls[d].caller
    OBVIOUS
  <2>1. up # 0 => up \in DOMAIN spCalls
    BY SpLengths DEF SpInv, SpTree, SpNested
  <2>2. /\ SpActive(d)' = SpActive(d) /\ (up # 0 => SpActive(up)' = SpActive(up))
        /\ SpDepth(d)' = SpDepth(d) /\ (up # 0 => SpDepth(up)' = SpDepth(up))
        /\ up # 0 => spCalls'[up].task = spCalls[up].task
    BY <1>3, <2>1 DEF SpActive, SpDepth
  <2>3. SpNested(d) /\ (spCalls[d].span # NoSpan => up # 0)
    BY DEF SpInv, SpTree, SpNested
  <2>4. \A id \in Nat : SpOwns(d, id)' => /\ SpOwns(d, id) /\ id \in DOMAIN spSpans
                                          /\ spSpans'[id].parent = spSpans[id].parent
                                          /\ spSpans'[id].kind = spSpans[id].kind
    <3>1. \A id \in Nat : SpOwns(d, id)' <=> SpOwns(d, id)
      BY <1>3 DEF SpOwns
    <3> QED  BY <3>1, SpOwned DEF SpGrown
  <2>5. SpNested(d)'
    <3>1. \A id \in Nat : SpOwns(d, id)' => /\ spCalls'[d].task \in spConfig'.profiled
                                            /\ id \in DOMAIN spSpans'
                                            /\ spSpans'[id].kind # "manual"
      BY <1>2, <1>3, <2>4, SpOwned
    <3>2. /\ spCalls[d].span # NoSpan => spSpans'[spCalls[d].span].parent = spSpans[spCalls[d].span].parent
          /\ spCalls[d].inner # NoSpan => spSpans'[spCalls[d].inner].parent = spSpans[spCalls[d].inner].parent
      BY SpOwned DEF SpGrown
    <3>3. Innermost(spCalls'[d]) = Innermost(spCalls[d])
      BY <1>3 DEF Innermost
    <3>4. spCalls'[d].store \in DOMAIN spStores' /\ up \in 0..d - 1 /\ spCalls'[d].caller = up
      BY <1>3, <2>3 DEF SpNested
    <3>5. up = 0 => /\ spCalls'[d].method = SpEntry /\ spCalls'[d].span = NoSpan
                    /\ ~spCalls'[d].wrapped /\ SpActive(d)' = NoSpan
      BY <1>3, <2>2, <2>3 DEF SpNested
    <3>6. up # 0 => /\ spCalls'[d].task = spCalls'[up].task
                    /\ SpActive(d)' = IF spCalls'[d].span = NoSpan THEN SpActive(up)'
                                      ELSE Innermost(spCalls'[d])
      BY <1>3, <2>2, <2>3, <3>3 DEF SpNested
    <3>7. /\ spCalls'[d].span # NoSpan => spSpans'[spCalls'[d].span].parent = SpActive(up)'
          /\ spCalls'[d].inner # NoSpan => /\ spCalls'[d].span # NoSpan
                                           /\ spCalls'[d].inner # spCalls'[d].span
                                           /\ spSpans'[spCalls'[d].inner].parent = spCalls'[d].span
      BY <1>3, <2>2, <2>3, <3>2 DEF SpNested
    <3> QED  BY <3>1, <3>4, <3>5, <3>6, <3>7 DEF SpNested
  <2>6. SpDeep(d)'
    <3>1. SpDeep(d)
      BY DEF SpInv, SpTree
    <3> QED  BY <1>3, <2>2, <3>1 DEF SpDeep, ThroughProxy
  <2> QED  BY <2>5, <2>6
<1> QED  BY <1>4, <1>5, <1>6, <1>7 DEF SpTree

LEMMA SpUnmarked ==
    ASSUME SpInv, NEW c \in DOMAIN spCalls, spCalls[c].wrapped, spCalls[c].state = "first"
    PROVE  spTracing \ {spCalls[c].method} \subseteq spTracing
OBVIOUS

(* The innermost frame leaves the stack, and its mark with it.             *)
LEMMA SpLeavesStack ==
    ASSUME SpInv, spStack # <<>>, NEW st, NEW fl, SpMoved(Last(spStack), spCalls', st, fl),
           spStack' = Front(spStack), spTracing' = ReleaseGuard(Running)
    PROVE  SpStacked' /\ spStack' \in Seq(Nat) /\ spTracing' \subseteq SpMethods
<1> PICK n, c : n = Len(spStack) /\ c = Last(spStack)
  OBVIOUS
<1>1. /\ spStack' \in Seq(Nat) /\ n \in DOMAIN spStack /\ c = spStack[n]
      /\ DOMAIN spStack' = DOMAIN spStack \ {n}
      /\ \A i \in DOMAIN spStack' : spStack'[i] = spStack[i]
  <2>1. spStack \in Seq(Nat)
    BY DEF SpInv, SpShaped
  <2>2. /\ Front(spStack) \in Seq(Nat) /\ Len(spStack) \in DOMAIN spStack
        /\ Last(spStack) = spStack[Len(spStack)]
        /\ DOMAIN Front(spStack) = DOMAIN spStack \ {Len(spStack)}
        /\ \A i \in DOMAIN spStack \ {Len(spStack)} : Front(spStack)[i] = spStack[i]
    BY <2>1, SpPopped
  <2> QED  BY <2>2
<1>2. \A i \in DOMAIN spStack' : spStack[i] # c /\ spStack[i] \in DOMAIN spCalls
                                 /\ spCalls'[spStack[i]] = spCalls[spStack[i]]
  BY <1>1 DEF SpInv, SpStacked, SpMoved
<1>3. \A i \in DOMAIN spStack' : /\ spStack'[i] \in DOMAIN spCalls'
                                 /\ spCalls'[spStack'[i]].state \in {"first", "resumed"}
  BY <1>1, <1>2 DEF SpInv, SpStacked, SpMoved
<1>4. \A i, j \in DOMAIN spStack' : spStack'[i] = spStack'[j] => i = j
  BY <1>1 DEF SpInv, SpStacked
<1>5. ASSUME NEW m \in spTracing'
      PROVE  \E i \in DOMAIN spStack' : LET call == spCalls'[spStack'[i]]
                                        IN  call.method = m /\ call.wrapped /\ call.state = "first"
  <2>1. m \in spTracing
    BY <1>5 DEF ReleaseGuard
  <2>2. PICK i \in DOMAIN spStack : LET call == spCalls[spStack[i]]
                                    IN  call.method = m /\ call.wrapped /\ call.state = "first"
    BY <2>1 DEF SpInv, SpStacked
  <2>3. i # n
    BY <1>1, <1>5, <2>2 DEF ReleaseGuard, Running
  <2> QED  BY <1>1, <1>2, <2>2, <2>3
<1>6. spTracing' \subseteq SpMethods
  BY DEF ReleaseGuard, SpInv, SpShaped
<1> QED  BY <1>1, <1>3, <1>4, <1>5, <1>6 DEF SpStacked

LEMMA SpSame == ASSUME SpInv PROVE SpGrown(spSpans)
BY DEF SpInv, SpShaped, SpTree, SpSpansAre, SpGrown

LEMMA SpEnds ==
    ASSUME SpInv, NEW ids, NEW fl \in BOOLEAN, NEW sps, sps = RecordSpans(ids, fl)
    PROVE  /\ SpGrown(sps) /\ Len(sps) = Len(spSpans)
           /\ \A j \in DOMAIN spSpans : j \notin ids => sps[j] = spSpans[j]
           /\ \A j \in DOMAIN spSpans : j \in ids /\ spSpans[j].records = <<>> =>
                 sps[j].records = <<fl \/ sps[j].failed>>
           /\ \A j \in DOMAIN spSpans : spSpans[j].records # <<>> => sps[j] = spSpans[j]
<1>1. Len(spSpans) \in Nat /\ DOMAIN spSpans = 1..Len(spSpans)
      /\ \A j \in DOMAIN spSpans : spSpans[j] \in SpSpanRecords
  BY SpLengths DEF SpInv
<1>2. /\ DOMAIN sps = DOMAIN spSpans /\ sps = [j \in 1..Len(spSpans) |-> sps[j]]
      /\ \A j \in DOMAIN spSpans : j \notin ids => sps[j] = spSpans[j]
      /\ \A j \in DOMAIN spSpans : spSpans[j].records # <<>> => sps[j] = spSpans[j]
  BY <1>1 DEF RecordSpans, IsClosed
<1>3. ASSUME NEW j \in DOMAIN spSpans, j \in ids, spSpans[j].records = <<>>
      PROVE  /\ sps[j] \in SpSpanRecords /\ sps[j].parent = spSpans[j].parent
             /\ sps[j].kind = spSpans[j].kind /\ sps[j].failed = spSpans[j].failed
             /\ sps[j].records = <<fl \/ spSpans[j].failed>> /\ Len(sps[j].records) = 1
  <2> PICK old, b, e : old = spSpans[j] /\ b = (fl \/ spSpans[j].failed) /\ e = sps[j]
    OBVIOUS
  <2>1. old \in SpSpanRecords /\ b \in BOOLEAN /\ old.records = <<>>
    BY <1>1, <1>3
  <2>2. Append(<<>>, b) = <<b>> /\ <<b>> \in Seq(BOOLEAN) /\ Len(<<b>>) = 1
    BY ONLY <2>1
  <2>3. e = [old EXCEPT !.records = Append(@, b)]
    BY <1>3 DEF RecordSpans, IsClosed
  <2>4. /\ e \in SpSpanRecords /\ e.parent = old.parent /\ e.kind = old.kind
        /\ e.failed = old.failed /\ e.records = <<b>>
    BY ONLY <2>1, <2>2, <2>3 DEF SpSpanRecords
  <2> QED  BY <2>2, <2>4
<1>4. ASSUME NEW j \in DOMAIN spSpans
      PROVE  /\ sps[j] \in SpSpanRecords /\ sps[j].parent = spSpans[j].parent
             /\ sps[j].kind = spSpans[j].kind /\ Len(sps[j].records) <= 1
             /\ sps[j].parent \in 0..j - 1
  <2>1. spSpans[j].parent \in 0..j - 1 /\ Len(spSpans[j].records) <= 1
    BY DEF SpInv, SpTree, SpSpansAre
  <2>2. CASE j \in ids /\ spSpans[j].records = <<>>
    <3>1. /\ sps[j] \in SpSpanRecords /\ sps[j].parent = spSpans[j].parent
          /\ sps[j].kind = spSpans[j].kind /\ Len(sps[j].records) = 1
      BY <1>3, <2>2
    <3> QED  BY ONLY <2>1, <3>1
  <2>3. CASE ~(j \in ids /\ spSpans[j].records = <<>>)
    BY <1>1, <1>2, <2>1, <2>3
  <2> QED  BY <2>2, <2>3
<1>5. sps \in Seq(SpSpanRecords) /\ Len(sps) = Len(spSpans)
  <2>1. sps \in [1..Len(spSpans) -> SpSpanRecords]
    BY <1>1, <1>2, <1>4
  <2> QED  BY <1>1, <2>1, SeqDef, LenProperties
<1>6. SpGrown(sps)
  BY <1>1, <1>2, <1>4, <1>5 DEF SpGrown
<1> QED  BY <1>2, <1>3, <1>5, <1>6

(* The outcome that is told of every call, after one of them moved on.     *)
LEMMA SpRecordedKept ==
    ASSUME SpInv, NEW c \in DOMAIN spCalls, NEW st, NEW fl, SpMoved(c, spCalls', st, fl),
           \A id \in DOMAIN spSpans : ~SpOwns(c, id) => spSpans'[id] = spSpans[id],
           \A id \in DOMAIN spSpans : SpOwns(c, id) =>
             spSpans'[id].records =
                IF st = "over" \/ (st = "unwinding" /\ id = spCalls[c].inner)
                THEN <<fl \/ spSpans'[id].failed>> ELSE <<>>
    PROVE  SpRecorded'
<1> SUFFICES ASSUME NEW d \in DOMAIN spCalls', NEW id \in Nat, SpOwns(d, id)'
             PROVE  spSpans'[id].records =
                      IF SpClosed(d, id)' THEN <<spCalls'[d].failed \/ spSpans'[id].failed>>
                      ELSE <<>>
  BY DEF SpRecorded
<1>1. d \in DOMAIN spCalls /\ spCalls[c] \in SpCallRecords
  BY SpLengths DEF SpInv, SpMoved
<1>2. CASE d = c
  <2>1. /\ spCalls'[c].span = spCalls[c].span /\ spCalls'[c].inner = spCalls[c].inner
        /\ spCalls'[c].state = st /\ spCalls'[c].failed = fl
    BY <1>1 DEF SpMoved, SpCallRecords
  <2>2. SpOwns(c, id) /\ id \in DOMAIN spSpans
    <3>1. SpOwns(c, id)
      BY <1>2, <2>1 DEF SpOwns
    <3> QED  BY <3>1, SpOwned
  <2>3. SpClosed(d, id)' <=> st = "over" \/ (st = "unwinding" /\ id = spCalls[c].inner)
    BY <1>2, <2>1 DEF SpClosed
  <2> QED  BY <1>2, <2>1, <2>2, <2>3
<1>3. CASE d # c
  <2>1. spCalls'[d] = spCalls[d]
    BY <1>1, <1>3 DEF SpMoved
  <2>2. SpOwns(d, id) /\ (SpClosed(d, id)' <=> SpClosed(d, id))
    BY <2>1 DEF SpOwns, SpClosed
  <2>3. ~SpOwns(c, id) /\ id \in DOMAIN spSpans
    BY <1>1, <1>3, <2>2, SpOwned DEF SpInv, SpTree, SpApart
  <2>4. spSpans'[id] = spSpans[id]
    BY <2>3
  <2>5. spSpans[id].records =
          IF SpClosed(d, id) THEN <<spCalls[d].failed \/ spSpans[id].failed>> ELSE <<>>
    BY <1>1, <2>2 DEF SpInv, SpRecorded
  <2> QED  BY <2>1, <2>2, <2>4, <2>5
<1> QED  BY <1>2, <1>3

(* What a call that runs, or waits, owns is open.                          *)
LEMMA SpOpen ==
    ASSUME SpInv, NEW c \in DOMAIN spCalls, spCalls[c].state \notin {"unwinding", "over"},
           NEW id, SpOwns(c, id)
    PROVE  spSpans[id].records = <<>>
<1>1. id \in Nat /\ ~SpClosed(c, id)
  BY SpOwned DEF SpClosed
<1> QED  BY <1>1 DEF SpInv, SpRecorded

LEMMA SpOpenKept ==
    ASSUME SpInv, NEW c \in DOMAIN spCalls, NEW st, NEW fl, SpMoved(c, spCalls', st, fl),
           spCalls[c].state \notin {"unwinding", "over"}, spSpans' = spSpans,
           \A id \in DOMAIN spSpans : SpOwns(c, id) => st \notin {"unwinding", "over"}
    PROVE  SpRecorded'
<1>1. ASSUME NEW id \in DOMAIN spSpans, SpOwns(c, id)
      PROVE  spSpans'[id].records =
               IF st = "over" \/ (st = "unwinding" /\ id = spCalls[c].inner)
               THEN <<fl \/ spSpans'[id].failed>> ELSE <<>>
  <2>1. spSpans[id].records = <<>>
    BY <1>1, SpOpen
  <2>2. st # "over" /\ st # "unwinding"
    BY <1>1
  <2> QED  BY <2>1, <2>2
<1>2. \A id \in DOMAIN spSpans : ~SpOwns(c, id) => spSpans'[id] = spSpans[id]
  OBVIOUS
<1> QED  BY <1>1, <1>2, SpRecordedKept

LEMMA SpPutState ==
    ASSUME SpInv, NEW c \in DOMAIN spCalls,
           NEW st \in {"first", "awaiting", "resumed", "settled", "unwinding", "over"}, NEW fl \in BOOLEAN,
           spCalls' = [spCalls EXCEPT ![c] = [spCalls[c] EXCEPT !.state = st, !.failed = fl]]
    PROVE  SpMoved(c, spCalls', st, fl)
<1> PICK e : e = [spCalls[c] EXCEPT !.state = st, !.failed = fl]
  OBVIOUS
<1>1. e \in SpCallRecords
  BY SpLengths DEF SpInv, SpCallRecords
<1>2. spCalls \in Seq(SpCallRecords)
  BY DEF SpInv, SpShaped
<1> QED  BY <1>1, <1>2, SpUpdated DEF SpMoved

LEMMA SpStays == ASSUME SpInv, NEW c \in DOMAIN spCalls, spCalls' = spCalls
                 PROVE  SpMoved(c, spCalls', spCalls[c].state, spCalls[c].failed)
<1>1. spCalls[c] \in SpCallRecords
  BY SpLengths DEF SpInv
<1>2. spCalls[c] = [spCalls[c] EXCEPT !.state = spCalls[c].state, !.failed = spCalls[c].failed]
  BY <1>1 DEF SpCallRecords
<1> QED  BY <1>2 DEF SpMoved, SpInv, SpShaped

LEMMA SpTop ==
    ASSUME SpInv, spStack # <<>>
    PROVE  /\ Last(spStack) \in DOMAIN spCalls /\ Running = spCalls[Last(spStack)]
           /\ Running.state \in {"first", "resumed"} /\ Running \in SpCallRecords
           /\ Running.store \in DOMAIN spStores
           /\ spStores[Running.store] \in SpStoreRecords
           /\ spStores[Running.store].span \in 0..Len(spSpans)
<1>1. spStack \in Seq(Nat)
  BY DEF SpInv, SpShaped
<1>2. Last(spStack) \in DOMAIN spCalls /\ spCalls[Last(spStack)].state \in {"first", "resumed"}
  <2>1. Len(spStack) \in DOMAIN spStack /\ Last(spStack) = spStack[Len(spStack)]
    BY <1>1, SpPopped
  <2> QED  BY <2>1 DEF SpInv, SpStacked
<1> PICK c : c = Last(spStack) /\ Running = spCalls[c]
  BY DEF Running
<1>3. spCalls[c] \in SpCallRecords /\ spCalls[c].store \in DOMAIN spStores /\ SpNested(c)
  BY <1>2, SpLengths DEF SpInv, SpTree, SpNested
<1>5. /\ spStores[spCalls[c].store] \in SpStoreRecords
      /\ spStores[spCalls[c].store].span \in 0..Len(spSpans)
  BY <1>3, SpLengths DEF SpInv, SpTree, SpSpansAre
<1> QED  BY <1>2, <1>3, <1>5

LEMMA SpIdle == ASSUME SpInv, spStack = <<>> PROVE spTracing = {} /\ DOMAIN spStack = {}
BY DEF SpInv, SpStacked

LEMMA SpMoves ==
    ASSUME SpInv, NEW c \in DOMAIN spCalls, NEW st, NEW fl, SpMoved(c, spCalls', st, fl),
           spConfig' = spConfig, spStores' = spStores, SpGrown(spSpans'), SpRecorded',
           SpStacked', spStack' \in Seq(Nat), spTracing' \subseteq SpMethods
    PROVE  SpInv'
<1>1. SpTree'
  BY SpTreeKept
<1>2. SpShaped'
  BY DEF SpInv, SpShaped, SpMoved, SpGrown
<1> QED  BY <1>1, <1>2 DEF SpInv

LEMMA SpAwaits == ASSUME SpInv, AwaitInside PROVE SpInv'
<1> PICK c : c = Last(spStack)
  OBVIOUS
<1>1. /\ spCalls' = [spCalls EXCEPT ![c].state = "awaiting"]
      /\ spConfig' = spConfig /\ spStores' = spStores /\ spSpans' = spSpans
  BY DEF AwaitInside
<1>2. c \in DOMAIN spCalls /\ spCalls[c] \in SpCallRecords /\ spCalls[c].state \in {"first", "resumed"}
  BY SpTop DEF AwaitInside
<1>3. spCalls' = [spCalls EXCEPT ![c] = [spCalls[c] EXCEPT !.state = "awaiting",
                                                          !.failed = spCalls[c].failed]]
  BY <1>1, <1>2 DEF SpCallRecords
<1>4. SpMoved(c, spCalls', "awaiting", spCalls[c].failed)
  BY <1>2, <1>3, SpPutState DEF SpCallRecords
<1>5. SpStacked' /\ spStack' \in Seq(Nat) /\ spTracing' \subseteq SpMethods
  BY <1>4, SpLeavesStack DEF AwaitInside
<1>6. SpRecorded'
  <2> PICK st : st = "awaiting"
    OBVIOUS
  <2>1. st \notin {"unwinding", "over"} /\ SpMoved(c, spCalls', st, spCalls[c].failed)
    BY <1>4
  <2> QED  BY <1>1, <1>2, <2>1, SpOpenKept
<1> QED  BY <1>1, <1>2, <1>4, <1>5, <1>6, SpSame, SpMoves

LEMMA SpContinues == ASSUME SpInv, NEW c \in DOMAIN spCalls, Continue(c) PROVE SpInv'
<1>1. /\ spCalls' = [spCalls EXCEPT ![c].state = "resumed"] /\ spStack' = <<c>>
      /\ spCalls[c].state = "awaiting"
      /\ spConfig' = spConfig /\ spStores' = spStores /\ spSpans' = spSpans
  BY DEF Continue
<1>2. spCalls[c] \in SpCallRecords /\ c \in Nat
  BY SpLengths DEF SpInv
<1>3. spCalls' = [spCalls EXCEPT ![c] = [spCalls[c] EXCEPT !.state = "resumed",
                                                          !.failed = spCalls[c].failed]]
  BY <1>1, <1>2 DEF SpCallRecords
<1>4. SpMoved(c, spCalls', "resumed", spCalls[c].failed)
  BY <1>2, <1>3, SpPutState DEF SpCallRecords
<1>5. spTracing' = {}
  BY SpIdle DEF Continue
<1>6. /\ spStack' \in Seq(Nat) /\ DOMAIN spStack' = {1} /\ spStack'[1] = c
      /\ c \in DOMAIN spCalls' /\ spCalls'[c].state = "resumed"
  BY <1>1, <1>2, <1>4 DEF SpMoved, SpCallRecords
<1>7. SpStacked'
  BY <1>5, <1>6 DEF SpStacked
<1>8. SpRecorded'
  <2> PICK st : st = "resumed"
    OBVIOUS
  <2>1. st \notin {"unwinding", "over"} /\ SpMoved(c, spCalls', st, spCalls[c].failed)
    BY <1>4
  <2> QED  BY <1>1, <2>1, SpOpenKept
<1> QED  BY <1>1, <1>4, <1>5, <1>6, <1>7, <1>8, SpSame, SpMoves

LEMMA SpSettles == ASSUME SpInv, NEW c \in DOMAIN spCalls, SettleSpan(c) PROVE SpInv'
<1> PICK call, fl : call = spCalls[c] /\ fl = spCalls[c].failed
  OBVIOUS
<1> PICK two \in BOOLEAN : two = (call.state = "settled" /\ call.inner # NoSpan)
  OBVIOUS
<1> PICK st, id : /\ st = IF two THEN "unwinding" ELSE "over"
                  /\ id = IF two THEN call.inner ELSE call.span
  OBVIOUS
<1>1. /\ spCalls' = [spCalls EXCEPT ![c].state = st] /\ call.state \in {"settled", "unwinding"}
      /\ spSpans' = RecordSpans({id}, fl)
      /\ spConfig' = spConfig /\ spStores' = spStores /\ spStack' = spStack /\ spTracing' = spTracing
      /\ spStack = <<>>
  BY DEF SettleSpan
<1>2. spCalls[c] \in SpCallRecords /\ fl \in BOOLEAN
  BY SpLengths DEF SpInv, SpCallRecords
<1>3. spCalls' = [spCalls EXCEPT ![c] = [spCalls[c] EXCEPT !.state = st, !.failed = fl]]
  BY <1>1, <1>2 DEF SpCallRecords
<1>4. SpMoved(c, spCalls', st, fl)
  BY <1>2, <1>3, SpPutState
<1>5. /\ SpGrown(spSpans')
      /\ \A j \in DOMAIN spSpans : j # id => spSpans'[j] = spSpans[j]
      /\ \A j \in DOMAIN spSpans : j = id /\ spSpans[j].records = <<>> =>
           spSpans'[j].records = <<fl \/ spSpans'[j].failed>>
  BY <1>1, <1>2, SpEnds
<1>6. SpStacked' /\ spStack' \in Seq(Nat) /\ spTracing' \subseteq SpMethods
  <2>1. spTracing' = {} /\ DOMAIN spStack' = {}
    BY <1>1, SpIdle
  <2> QED  BY <1>1, <2>1 DEF SpStacked, SpInv, SpShaped
<1>7. SpRecorded'
  <2>1. \A j \in DOMAIN spSpans : ~SpOwns(c, j) => spSpans'[j] = spSpans[j]
    <3>1. \A j \in DOMAIN spSpans : ~SpOwns(c, j) => j # id
      BY SpLengths DEF SpInv, SpOwns, NoSpan
    <3> QED  BY <1>5, <3>1
  <2>2. ASSUME NEW j \in DOMAIN spSpans, SpOwns(c, j)
        PROVE  spSpans'[j].records =
                 IF st = "over" \/ (st = "unwinding" /\ j = spCalls[c].inner)
                 THEN <<fl \/ spSpans'[j].failed>> ELSE <<>>
    <3>0. /\ j \in Nat /\ (j = call.span \/ j = call.inner)
          /\ call.inner # NoSpan => call.inner # call.span
      BY <2>2, SpOwned DEF SpOwns, SpInv, SpTree, SpNested
    <3>1. spSpans[j].records = IF SpClosed(c, j) THEN <<fl \/ spSpans[j].failed>> ELSE <<>>
      BY <2>2, <3>0 DEF SpInv, SpRecorded
    <3>2. j # NoSpan
      BY <2>2 DEF SpOwns
    <3>3. SpClosed(c, j) <=> call.state = "unwinding" /\ j = call.inner
      BY <1>1 DEF SpClosed
    <3>4. CASE j = id
      <4>1. ~SpClosed(c, j)
        BY <3>0, <3>2, <3>3, <3>4
      <4>2. st = "over" \/ (st = "unwinding" /\ j = spCalls[c].inner)
        BY <3>4
      <4> QED  BY <1>5, <3>1, <3>4, <4>1, <4>2
    <3>5. CASE j # id
      <4>1. spSpans'[j] = spSpans[j]
        BY <1>5, <3>5
      <4>2. CASE two
        <5>1. st = "unwinding" /\ j = call.span /\ ~SpClosed(c, j) /\ j # call.inner
          BY <3>0, <3>3, <3>5, <4>2
        <5> QED  BY <3>1, <4>1, <5>1
      <4>3. CASE ~two
        <5>1. st = "over" /\ j = call.inner /\ call.state = "unwinding"
          BY <1>1, <3>0, <3>2, <3>5, <4>3
        <5> QED  BY <3>1, <3>3, <4>1, <5>1
      <4> QED  BY <4>2, <4>3
    <3> QED  BY <3>4, <3>5
  <2> QED  BY <1>4, <2>1, <2>2, SpRecordedKept
<1> QED  BY <1>1, <1>4, <1>5, <1>6, <1>7, SpMoves

LEMMA SpLeaves == ASSUME SpInv, NEW failed \in BOOLEAN, Leave(failed) PROVE SpInv'
<1> PICK c, st : /\ c = Last(spStack)
                 /\ st = IF Running.state = "first" \/ Running.span = NoSpan THEN "over" ELSE "settled"
  OBVIOUS
<1> PICK ids : ids = {Running.span, Running.inner}
  OBVIOUS
<1>1. /\ spConfig' = spConfig /\ spStores' = spStores /\ spStack # <<>>
      /\ spSpans' = IF Running.state = "first" THEN RecordSpans(ids, failed) ELSE spSpans
  BY DEF Leave
<1>2. /\ c \in DOMAIN spCalls /\ spCalls[c] \in SpCallRecords /\ Running = spCalls[c]
      /\ spCalls[c].state \in {"first", "resumed"}
  BY <1>1, SpTop
<1>3. spCalls' = [spCalls EXCEPT ![c] = [spCalls[c] EXCEPT !.state = st, !.failed = failed]]
  BY <1>2 DEF Leave, SpCallRecords
<1>4. SpMoved(c, spCalls', st, failed)
  BY <1>2, <1>3, SpPutState
<1>5. SpStacked' /\ spStack' \in Seq(Nat) /\ spTracing' \subseteq SpMethods
  BY <1>4, SpLeavesStack DEF Leave
<1>6. /\ \A j \in DOMAIN spSpans : (SpOwns(c, j) <=> j \in ids)
      /\ \A j \in DOMAIN spSpans : (SpOwns(c, j) => spSpans[j].records = <<>>)
  <2>1. \A j \in DOMAIN spSpans : SpOwns(c, j) <=> j \in ids
    BY <1>2, SpLengths DEF SpInv, SpOwns, NoSpan
  <2> QED  BY <1>2, <2>1, SpOpen
<1>7. SpGrown(spSpans') /\ SpRecorded'
  <2>1. CASE Running.state = "first"
    <3>1. spSpans' = RecordSpans(ids, failed) /\ st = "over"
      BY <1>1, <2>1
    <3>2. /\ SpGrown(spSpans')
          /\ \A j \in DOMAIN spSpans : j \notin ids => spSpans'[j] = spSpans[j]
          /\ \A j \in DOMAIN spSpans : j \in ids /\ spSpans[j].records = <<>> =>
               spSpans'[j].records = <<failed \/ spSpans'[j].failed>>
      BY <3>1, SpEnds
    <3>3. /\ \A j \in DOMAIN spSpans : ~SpOwns(c, j) => spSpans'[j] = spSpans[j]
          /\ \A j \in DOMAIN spSpans : SpOwns(c, j) =>
               spSpans'[j].records = <<failed \/ spSpans'[j].failed>>
      <4> SUFFICES ASSUME NEW j \in DOMAIN spSpans
                   PROVE  /\ ~SpOwns(c, j) => spSpans'[j] = spSpans[j]
                          /\ SpOwns(c, j) => spSpans'[j].records = <<failed \/ spSpans'[j].failed>>
        OBVIOUS
      <4>1. CASE SpOwns(c, j)
        <5>1. j \in ids /\ spSpans[j].records = <<>>
          BY <1>6, <4>1
        <5> QED  BY <3>2, <4>1, <5>1
      <4>2. CASE ~SpOwns(c, j)
        BY <1>6, <3>2, <4>2
      <4> QED  BY <4>1, <4>2
    <3> QED  BY <1>2, <1>4, <3>1, <3>2, <3>3, SpRecordedKept
  <2>2. CASE Running.state # "first"
    <3>1. spSpans' = spSpans
      BY <1>1, <2>2
    <3>2. \A j \in DOMAIN spSpans : SpOwns(c, j) => st = "settled"
      <4>1. \A j \in DOMAIN spSpans : SpOwns(c, j) => spCalls[c].span # NoSpan
        BY <1>2, SpOwned DEF SpOwns
      <4> QED  BY <1>2, <2>2, <4>1
    <3>3. SpRecorded'
      BY <1>2, <1>4, <3>1, <3>2, SpOpenKept
    <3> QED  BY <3>1, <3>3, SpSame
  <2> QED  BY <2>1, <2>2
<1> QED  BY <1>1, <1>2, <1>4, <1>5, <1>7, SpMoves

(* The tracer: the calls stay where they are.                              *)
LEMMA SpTraces ==
    ASSUME SpInv, spStack # <<>>, UNCHANGED <<spConfig, spStack, spCalls, spStores, spTracing>>,
           SpGrown(spSpans'),
           \A c \in DOMAIN spCalls : \A id \in DOMAIN spSpans : SpOwns(c, id) =>
             /\ spSpans'[id].records = spSpans[id].records
             /\ spSpans[id].records = <<>> \/ spSpans'[id].failed = spSpans[id].failed
    PROVE  SpInv'
<1> PICK c : c = Last(spStack)
  OBVIOUS
<1>1. c \in DOMAIN spCalls
  BY SpTop
<1>2. /\ spConfig' = spConfig /\ spStack' = spStack /\ spCalls' = spCalls /\ spStores' = spStores
      /\ spTracing' = spTracing
  OBVIOUS
<1>3. SpMoved(c, spCalls', spCalls[c].state, spCalls[c].failed)
  BY <1>1, <1>2, SpStays
<1>4. SpRecorded'
  <2> SUFFICES ASSUME NEW d \in DOMAIN spCalls, NEW id \in Nat, SpOwns(d, id)
               PROVE  spSpans'[id].records =
                        IF SpClosed(d, id) THEN <<spCalls[d].failed \/ spSpans'[id].failed>>
                        ELSE <<>>
    BY <1>2 DEF SpRecorded, SpOwns, SpClosed
  <2>1. spSpans[id].records =
          IF SpClosed(d, id) THEN <<spCalls[d].failed \/ spSpans[id].failed>> ELSE <<>>
    BY DEF SpInv, SpRecorded
  <2>2. id \in DOMAIN spSpans
    BY SpOwned
  <2> QED  BY <2>1, <2>2
<1>5. SpStacked' /\ spStack' \in Seq(Nat) /\ spTracing' \subseteq SpMethods
  BY <1>2 DEF SpInv, SpStacked, SpShaped
<1> QED  BY <1>1, <1>2, <1>3, <1>4, <1>5, SpMoves

LEMMA SpCaptures == ASSUME SpInv, CaptureError PROVE SpInv'
<1> PICK id : id = spStores[Running.store].span
  OBVIOUS
<1>1. /\ spStack # <<>> /\ id # NoSpan /\ spSpans[id].records = <<>>
      /\ spSpans' = [spSpans EXCEPT ![id].failed = TRUE]
      /\ UNCHANGED <<spConfig, spStack, spCalls, spStores, spTracing>>
  BY DEF CaptureError, IsClosed
<1>2. id \in DOMAIN spSpans /\ spSpans[id] \in SpSpanRecords
  BY <1>1, SpTop, SpLengths DEF SpInv, NoSpan
<1> PICK e : e = [spSpans[id] EXCEPT !.failed = TRUE]
  OBVIOUS
<1>3. /\ e \in SpSpanRecords /\ e.parent = spSpans[id].parent /\ e.kind = spSpans[id].kind
      /\ e.records = spSpans[id].records
  BY <1>2 DEF SpSpanRecords
<1>4. /\ spSpans' \in Seq(SpSpanRecords) /\ Len(spSpans') = Len(spSpans)
      /\ DOMAIN spSpans' = DOMAIN spSpans /\ spSpans'[id] = e
      /\ \A j \in DOMAIN spSpans : j # id => spSpans'[j] = spSpans[j]
  <2>1. spSpans \in Seq(SpSpanRecords) /\ spSpans' = [spSpans EXCEPT ![id] = e]
    BY <1>1 DEF SpInv, SpShaped
  <2> QED  BY <1>2, <1>3, <2>1, SpUpdated
<1>5. \A j \in DOMAIN spSpans : /\ spSpans'[j].parent = spSpans[j].parent
                                /\ spSpans'[j].kind = spSpans[j].kind
                                /\ spSpans'[j].records = spSpans[j].records
  BY <1>3, <1>4
<1>6. SpGrown(spSpans')
  <2>1. Len(spSpans') >= Len(spSpans)
    BY <1>4, SpLengths DEF SpInv
  <2>2. \A j \in DOMAIN spSpans : spSpans[j].parent \in 0..j - 1 /\ Len(spSpans[j].records) <= 1
    BY DEF SpInv, SpTree, SpSpansAre
  <2> QED  BY <1>4, <1>5, <2>1, <2>2 DEF SpGrown
<1> QED  BY <1>1, <1>4, <1>5, <1>6, SpTraces

(* A span is opened in a store: its parent is the one active there.        *)
LEMMA SpOpens ==
    ASSUME SpInv, NEW spans, SpGrown(spans), NEW active \in 0..Len(spans),
           NEW kind \in {"method", "custom", "manual"},
           NEW sps, sps = Append(spans, OpenedSpan(active, kind))
    PROVE  /\ SpGrown(sps) /\ Len(sps) = Len(spans) + 1
           /\ \A id \in DOMAIN spans : sps[id] = spans[id]
           /\ sps[Len(spans) + 1] = OpenedSpan(active, kind)
<1> PICK e : e = OpenedSpan(active, kind)
  OBVIOUS
<1>1. spans \in Seq(SpSpanRecords) /\ Len(spans) \in Nat /\ DOMAIN spans = 1..Len(spans)
  BY LenProperties DEF SpGrown
<1>2. /\ e \in SpSpanRecords /\ e.parent = active /\ Len(e.records) = 0
  BY <1>1 DEF OpenedSpan, SpSpanRecords
<1>4. /\ sps \in Seq(SpSpanRecords) /\ Len(sps) = Len(spans) + 1
      /\ DOMAIN sps = 1..Len(spans) + 1 /\ DOMAIN spans = 1..Len(spans)
      /\ \A i \in DOMAIN spans : sps[i] = spans[i]
      /\ sps[Len(spans) + 1] = e
  BY <1>1, <1>2, SpAppended
<1>5. \A id \in DOMAIN spans : spans[id].parent \in 0..id - 1 /\ Len(spans[id].records) <= 1
  BY DEF SpGrown
<1>6. ASSUME NEW id \in DOMAIN sps PROVE sps[id].parent \in 0..id - 1 /\ Len(sps[id].records) <= 1
  <2>1. CASE id = Len(spans) + 1
    BY <1>1, <1>2, <1>4, <2>1
  <2>2. CASE id \in DOMAIN spans
    BY <1>4, <1>5, <2>2
  <2> QED  BY <1>4, <2>1, <2>2
<1>7. SpGrown(sps)
  <2>1. DOMAIN spSpans \subseteq DOMAIN spans /\ Len(sps) >= Len(spSpans)
    BY <1>1, <1>4, SpLengths DEF SpInv, SpGrown
  <2> QED  BY <1>4, <1>6, <2>1 DEF SpGrown
<1> QED  BY <1>4, <1>7

LEMMA SpStarts == ASSUME SpInv, StartSpan PROVE SpInv'
<1>1. /\ spStack # <<>> /\ spSpans' = Append(spSpans, OpenedSpan(spStores[Running.store].span, "manual"))
      /\ UNCHANGED <<spConfig, spStack, spCalls, spStores, spTracing>>
  BY DEF StartSpan
<1>2. SpGrown(spSpans') /\ \A id \in DOMAIN spSpans : spSpans'[id] = spSpans[id]
  BY <1>1, SpTop, SpSame, SpOpens
<1> QED  BY <1>1, <1>2, SpTraces

LEMMA SpEndsManual == ASSUME SpInv, NEW id \in DOMAIN spSpans, EndSpan(id) PROVE SpInv'
<1>1. /\ spStack # <<>> /\ spSpans[id].kind = "manual" /\ spSpans' = RecordSpans({id}, FALSE)
      /\ UNCHANGED <<spConfig, spStack, spCalls, spStores, spTracing>>
  BY DEF EndSpan
<1> PICK ids, no : ids = {id} /\ no = FALSE
  OBVIOUS
<1>3. SpGrown(spSpans') /\ \A j \in DOMAIN spSpans : j # id => spSpans'[j] = spSpans[j]
  <2>1. no \in BOOLEAN /\ spSpans' = RecordSpans(ids, no)
    BY <1>1
  <2>2. SpGrown(spSpans') /\ \A j \in DOMAIN spSpans : j \notin ids => spSpans'[j] = spSpans[j]
    BY <2>1, SpEnds
  <2> QED  BY <2>2
<1>4. \A c \in DOMAIN spCalls : ~SpOwns(c, id)
  BY <1>1, SpOwned
<1> QED  BY <1>1, <1>3, <1>4, SpTraces

-----------------------------------------------------------------------------
(* A call is made.                                                         *)
LEMMA SpCalls ==
    ASSUME SpInv, NEW e \in SpCallRecords, spCalls' = Append(spCalls, e), spConfig' = spConfig,
           spStores' \in Seq(SpStoreRecords), SpGrown(spSpans'),
           \A s \in DOMAIN spStores : s \in DOMAIN spStores' /\ spStores'[s].span = spStores[s].span,
           \A s \in DOMAIN spStores' : spStores'[s].span \in 0..Len(spSpans'),
           \A d \in DOMAIN spCalls : spCalls[d].task \in spConfig.profiled =>
             spStores'[spCalls[d].store].depth = spStores[spCalls[d].store].depth,
           \A id \in DOMAIN spSpans : spSpans'[id] = spSpans[id],
           \A d \in DOMAIN spCalls : spCalls[d].store = e.store => spCalls[d].task = e.task,
           e.state = "first",
           \A id \in {e.span, e.inner} : id # NoSpan =>
             id \notin DOMAIN spSpans /\ spSpans'[id].records = <<>>,
           NEW n, n = Len(spCalls) + 1, SpNested(n)', SpDeep(n)'
    PROVE  SpTree' /\ SpRecorded' /\ spCalls' \in Seq(SpCallRecords)
           /\ DOMAIN spCalls' = DOMAIN spCalls \cup {n} /\ n \notin DOMAIN spCalls
           /\ spCalls'[n] = e /\ \A d \in DOMAIN spCalls : spCalls'[d] = spCalls[d]
<1>0. /\ Len(spSpans) \in Nat /\ DOMAIN spSpans = 1..Len(spSpans)
      /\ Len(spCalls) \in Nat /\ DOMAIN spCalls = 1..Len(spCalls)
      /\ \A d \in DOMAIN spCalls : spCalls[d] \in SpCallRecords
  BY SpLengths DEF SpInv
<1>1. /\ spCalls' \in Seq(SpCallRecords) /\ DOMAIN spCalls' = 1..Len(spCalls) + 1
      /\ spCalls'[n] = e /\ \A d \in DOMAIN spCalls : spCalls'[d] = spCalls[d]
  <2>1. spCalls \in Seq(SpCallRecords)
    BY DEF SpInv, SpShaped
  <2> QED  BY <2>1, SpAppended
<1>2. DOMAIN spCalls' = DOMAIN spCalls \cup {n} /\ n \notin DOMAIN spCalls
  BY <1>0, <1>1
<1>3. Len(spSpans') \in Nat /\ DOMAIN spSpans' = 1..Len(spSpans')
  BY LenProperties DEF SpGrown
<1>4. \A id \in DOMAIN spSpans : id \in DOMAIN spSpans'
  BY <1>0, <1>3 DEF SpGrown
<1>5. SpSpansAre'
  BY DEF SpSpansAre, SpGrown
<1>6. SpApart'
  <2>0. \A c \in DOMAIN spCalls, id \in Nat :
          SpOwns(c, id)' => SpOwns(c, id) /\ id \in DOMAIN spSpans
    <3>1. \A c \in DOMAIN spCalls, id \in Nat : SpOwns(c, id)' => SpOwns(c, id)
      BY <1>1 DEF SpOwns
    <3> QED  BY <3>1, SpOwned
  <2>5. \A id \in Nat : SpOwns(n, id)' => id \notin DOMAIN spSpans
    BY <1>1 DEF SpOwns
  <2> SUFFICES ASSUME NEW c \in DOMAIN spCalls', NEW d \in DOMAIN spCalls'
               PROVE  /\ spCalls'[c].store = spCalls'[d].store => spCalls'[c].task = spCalls'[d].task
                      /\ \A id \in Nat : SpOwns(c, id)' /\ SpOwns(d, id)' => c = d
    BY DEF SpApart
  <2>1. CASE c # n /\ d # n
    BY <1>1, <1>2, <2>0, <2>1 DEF SpInv, SpTree, SpApart
  <2>2. CASE c = n /\ d = n
    BY <2>2
  <2>3. CASE c = n /\ d # n
    BY <1>1, <1>2, <2>0, <2>3, <2>5
  <2>4. CASE c # n /\ d = n
    BY <1>1, <1>2, <2>0, <2>4, <2>5
  <2> QED  BY <2>1, <2>2, <2>3, <2>4
<1>7. ASSUME NEW d \in DOMAIN spCalls PROVE SpNested(d)' /\ SpDeep(d)'
  <2> PICK up : up = spCalls[d].caller
    OBVIOUS
  <2>0. SpNested(d) /\ SpDeep(d)
    BY DEF SpInv, SpTree
  <2>1. up # 0 => up \in DOMAIN spCalls /\ spCalls[d].task = spCalls[up].task
    BY <1>0, <2>0 DEF SpNested
  <2>2. spCalls[d].store \in DOMAIN spStores /\ (up # 0 => spCalls[up].store \in DOMAIN spStores)
    BY <2>1 DEF SpInv, SpTree, SpNested
  <2>3. SpActive(d)' = SpActive(d) /\ (up # 0 => SpActive(up)' = SpActive(up))
    BY <1>1, <2>1, <2>2 DEF SpActive
  <2>4. spCalls[d].task \in spConfig.profiled =>
          SpDepth(d)' = SpDepth(d) /\ (up # 0 => SpDepth(up)' = SpDepth(up))
    BY <1>1, <2>1 DEF SpDepth
  <2>5. spCalls'[d] = spCalls[d] /\ (up # 0 => spCalls'[up] = spCalls[up])
    BY <1>1, <2>1
  <2>6. \A id : SpOwns(d, id) => /\ id \in Nat /\ id \in DOMAIN spSpans' /\ spSpans'[id] = spSpans[id]
    BY <1>4, SpOwned
  <2>9. /\ \A id \in Nat : SpOwns(d, id)' <=> SpOwns(d, id)
        /\ spCalls[d].span # NoSpan => up # 0 /\ spSpans'[spCalls[d].span] = spSpans[spCalls[d].span]
        /\ spCalls[d].inner # NoSpan => spSpans'[spCalls[d].inner] = spSpans[spCalls[d].inner]
    BY <2>0, <2>5, <2>6, SpOwned DEF SpOwns, SpNested
  <2>7. SpNested(d)'
    <3>1. \A id \in Nat : SpOwns(d, id)' => /\ spCalls'[d].task \in spConfig'.profiled
                                            /\ id \in DOMAIN spSpans'
                                            /\ spSpans'[id].kind # "manual"
      BY <2>5, <2>6, <2>9, SpOwned
    <3>2. /\ spCalls'[d].store \in DOMAIN spStores' /\ up \in 0..d - 1 /\ spCalls'[d].caller = up
          /\ up = 0 => /\ spCalls'[d].method = SpEntry /\ spCalls'[d].span = NoSpan
                       /\ ~spCalls'[d].wrapped /\ SpActive(d)' = NoSpan
      BY <2>0, <2>2, <2>3, <2>5 DEF SpNested
    <3>3. up # 0 => /\ spCalls'[d].task = spCalls'[up].task
                    /\ SpActive(d)' = IF spCalls'[d].span = NoSpan THEN SpActive(up)'
                                      ELSE Innermost(spCalls'[d])
      BY <2>0, <2>1, <2>3, <2>5 DEF SpNested
    <3>4. /\ spCalls'[d].span # NoSpan => spSpans'[spCalls'[d].span].parent = SpActive(up)'
          /\ spCalls'[d].inner # NoSpan => /\ spCalls'[d].span # NoSpan
                                           /\ spCalls'[d].inner # spCalls'[d].span
                                           /\ spSpans'[spCalls'[d].inner].parent = spCalls'[d].span
      BY <2>0, <2>3, <2>5, <2>9 DEF SpNested
    <3> QED  BY <2>5, <3>1, <3>2, <3>3, <3>4 DEF SpNested
  <2>8. SpDeep(d)'
    BY <2>0, <2>4, <2>5 DEF SpDeep, ThroughProxy
  <2> QED  BY <2>7, <2>8
<1>8. SpTree'
  BY <1>2, <1>5, <1>6, <1>7 DEF SpTree
<1>9. SpRecorded'
  <2> SUFFICES ASSUME NEW d \in DOMAIN spCalls', NEW id \in Nat, SpOwns(d, id)'
               PROVE  spSpans'[id].records =
                        IF SpClosed(d, id)' THEN <<spCalls'[d].failed \/ spSpans'[id].failed>>
                        ELSE <<>>
    BY DEF SpRecorded
  <2>1. CASE d = n
    <3>1. id # NoSpan /\ id \in {e.span, e.inner} /\ ~SpClosed(d, id)'
      BY <1>1, <2>1 DEF SpOwns, SpClosed
    <3> QED  BY <3>1
  <2>2. CASE d # n
    <3>1. d \in DOMAIN spCalls /\ spCalls'[d] = spCalls[d]
      BY <1>1, <1>2, <2>2
    <3>2. SpOwns(d, id) /\ (SpClosed(d, id)' <=> SpClosed(d, id))
      BY <3>1 DEF SpOwns, SpClosed
    <3>3. spSpans'[id] = spSpans[id]
      BY <3>1, <3>2, SpOwned
    <3>4. spSpans[id].records =
            IF SpClosed(d, id) THEN <<spCalls[d].failed \/ spSpans[id].failed>> ELSE <<>>
      BY <3>1, <3>2 DEF SpInv, SpRecorded
    <3> QED  BY <3>1, <3>2, <3>3, <3>4
  <2> QED  BY <2>1, <2>2
<1> QED  BY <1>1, <1>2, <1>8, <1>9

LEMMA SpEnters == ASSUME SpInv, NEW t \in SpTasks, Enter(t) PROVE SpInv'
<1> PICK n, k : n = Len(spCalls) + 1 /\ k = Len(spStores) + 1
  OBVIOUS
<1> PICK e : e = [task |-> t, method |-> SpEntry, caller |-> 0, self |-> FALSE, span |-> NoSpan,
                  inner |-> NoSpan, wrapped |-> FALSE, store |-> k, under |-> {}, state |-> "first", failed |-> FALSE]
  OBVIOUS
<1>1. /\ spStack = <<>> /\ spCalls' = Append(spCalls, e)
      /\ spStores' = Append(spStores, [span |-> NoSpan, depth |-> 0]) /\ spStack' = <<n>>
      /\ spConfig' = spConfig /\ spTracing' = spTracing /\ spSpans' = spSpans
  BY DEF Enter
<1>2. /\ Len(spCalls) \in Nat /\ DOMAIN spCalls = 1..Len(spCalls)
      /\ Len(spStores) \in Nat /\ DOMAIN spStores = 1..Len(spStores) /\ Len(spSpans) \in Nat
  BY SpLengths DEF SpInv
<1>3. e \in SpCallRecords
  BY <1>2 DEF SpCallRecords, SpEntry, NoSpan
<1>4. /\ spStores' \in Seq(SpStoreRecords) /\ DOMAIN spStores' = 1..Len(spStores) + 1
      /\ \A s \in DOMAIN spStores : spStores'[s] = spStores[s]
      /\ spStores'[k] = [span |-> NoSpan, depth |-> 0]
  <2>1. [span |-> NoSpan, depth |-> 0] \in SpStoreRecords /\ spStores \in Seq(SpStoreRecords)
    BY DEF SpStoreRecords, NoSpan, SpInv, SpShaped
  <2> QED  BY <1>1, <2>1, SpAppended
<1>5. \A s \in DOMAIN spStores' : spStores'[s].span \in 0..Len(spSpans')
  <2>1. \A s \in DOMAIN spStores : spStores[s].span \in 0..Len(spSpans)
    BY DEF SpInv, SpTree, SpSpansAre
  <2> QED  BY <1>1, <1>2, <1>4, <2>1 DEF NoSpan
<1>6. \A d \in DOMAIN spCalls : spCalls[d].store \in DOMAIN spStores
  BY DEF SpInv, SpTree, SpNested
<1>7. spCalls'[n] = e
  <2>1. spCalls \in Seq(SpCallRecords)
    BY DEF SpInv, SpShaped
  <2> QED  BY <1>1, <1>3, <2>1, SpAppended
<1>8. SpNested(n)' /\ SpDeep(n)'
  <2>1. spCalls'[n].store = k /\ k \in DOMAIN spStores'
    BY <1>2, <1>4, <1>7
  <2>2. SpActive(n)' = NoSpan /\ SpDepth(n)' = 0
    BY <1>4, <2>1 DEF SpActive, SpDepth
  <2>3. \A id \in Nat : ~SpOwns(n, id)'
    BY <1>7 DEF SpOwns
  <2> QED  BY <1>2, <1>7, <2>1, <2>2, <2>3 DEF SpNested, SpDeep, NoSpan
<1>9. /\ SpTree' /\ SpRecorded' /\ spCalls' \in Seq(SpCallRecords)
      /\ DOMAIN spCalls' = DOMAIN spCalls \cup {n}
  <2>1. /\ SpGrown(spSpans') /\ e.state = "first" /\ e.store = k
        /\ \A id \in {e.span, e.inner} : id = NoSpan
    BY <1>1, SpSame
  <2>2. \A d \in DOMAIN spCalls : spCalls[d].store = e.store => spCalls[d].task = e.task
    BY <1>2, <1>6, <2>1
  <2>3. \A s \in DOMAIN spStores : s \in DOMAIN spStores' /\ spStores'[s].span = spStores[s].span
    BY <1>2, <1>4
  <2>4. \A d \in DOMAIN spCalls : spCalls[d].task \in spConfig.profiled =>
             spStores'[spCalls[d].store].depth = spStores[spCalls[d].store].depth
    BY <1>4, <1>6
  <2>5. \A id \in DOMAIN spSpans : spSpans'[id] = spSpans[id]
    BY <1>1
  <2> QED  BY <1>1, <1>3, <1>4, <1>5, <1>8, <2>1, <2>2, <2>3, <2>4, <2>5, SpCalls
<1>10. SpStacked' /\ spStack' \in Seq(Nat) /\ spTracing' = {}
  <2>1. spTracing' = {} /\ spStack' \in Seq(Nat) /\ DOMAIN spStack' = {1} /\ spStack'[1] = n
    BY <1>1, <1>2, SpIdle
  <2>2. n \in DOMAIN spCalls' /\ spCalls'[n].state = "first"
    BY <1>7, <1>9
  <2> QED  BY <2>1, <2>2 DEF SpStacked
<1>11. SpShaped'
  BY <1>1, <1>4, <1>9, <1>10 DEF SpInv, SpShaped
<1> QED  BY <1>9, <1>10, <1>11 DEF SpInv

LEMMA SpPushed ==
    ASSUME SpInv, NEW n, n = Len(spCalls) + 1, spStack' = Append(spStack, n),
           DOMAIN spCalls' = DOMAIN spCalls \cup {n},
           \A d \in DOMAIN spCalls : spCalls'[d] = spCalls[d], spCalls'[n].state = "first",
           \A m \in spTracing' : m \in spTracing \/ (spCalls'[n].method = m /\ spCalls'[n].wrapped)
    PROVE  SpStacked' /\ spStack' \in Seq(Nat)
<1> PICK k : k = Len(spStack) + 1
  OBVIOUS
<1>1. /\ Len(spCalls) \in Nat /\ DOMAIN spCalls = 1..Len(spCalls) /\ n \in Nat /\ n \notin DOMAIN spCalls
  BY SpLengths DEF SpInv
<1>2. /\ spStack' \in Seq(Nat) /\ DOMAIN spStack' = DOMAIN spStack \cup {k} /\ k \notin DOMAIN spStack
      /\ spStack'[k] = n /\ \A i \in DOMAIN spStack : spStack'[i] = spStack[i]
  <2>1. spStack \in Seq(Nat)
    BY DEF SpInv, SpShaped
  <2>2. /\ Append(spStack, n) \in Seq(Nat) /\ Len(spStack) \in Nat
        /\ DOMAIN Append(spStack, n) = 1..Len(spStack) + 1 /\ DOMAIN spStack = 1..Len(spStack)
        /\ \A i \in DOMAIN spStack : Append(spStack, n)[i] = spStack[i]
        /\ Append(spStack, n)[Len(spStack) + 1] = n
    BY <1>1, <2>1, SpAppended
  <2> QED  BY <2>2
<1>3. \A i \in DOMAIN spStack : spStack[i] \in DOMAIN spCalls
                                /\ spCalls'[spStack[i]] = spCalls[spStack[i]]
  BY DEF SpInv, SpStacked
<1>4. \A i \in DOMAIN spStack' : /\ spStack'[i] \in DOMAIN spCalls'
                                 /\ spCalls'[spStack'[i]].state \in {"first", "resumed"}
  BY <1>2, <1>3 DEF SpInv, SpStacked
<1>5. \A i, j \in DOMAIN spStack' : spStack'[i] = spStack'[j] => i = j
  BY <1>1, <1>2, <1>3 DEF SpInv, SpStacked
<1>6. ASSUME NEW m \in spTracing'
      PROVE  \E i \in DOMAIN spStack' : LET call == spCalls'[spStack'[i]]
                                        IN  call.method = m /\ call.wrapped /\ call.state = "first"
  <2>1. CASE m \in spTracing
    <3>1. PICK i \in DOMAIN spStack : LET call == spCalls[spStack[i]]
                                      IN  call.method = m /\ call.wrapped /\ call.state = "first"
      BY <2>1 DEF SpInv, SpStacked
    <3> QED  BY <1>2, <1>3, <3>1
  <2>2. CASE m \notin spTracing
    BY <1>2, <2>2
  <2> QED  BY <2>1, <2>2
<1> QED  BY <1>2, <1>4, <1>5, <1>6 DEF SpStacked

LEMMA SpInvokes == ASSUME SpInv, NEW m \in SpMethods, NEW self \in BOOLEAN, Invoke(m, self) PROVE SpInv'
<1> PICK run, store, up, n, id :
      run = Running /\ store = Running.store /\ up = Last(spStack) /\ n = Len(spCalls) + 1
      /\ id = Len(spSpans) + 1
  OBVIOUS
<1> PICK depth : depth = spStores[store].depth
  OBVIOUS
<1> PICK method \in BOOLEAN : method = OpensMethodSpan(m, self, depth)
  BY DEF OpensMethodSpan
<1> PICK profiled \in BOOLEAN : profiled <=> run.task \in spConfig.profiled
  <2>1. (TRUE <=> run.task \in spConfig.profiled) \/ (FALSE <=> run.task \in spConfig.profiled)
    OBVIOUS
  <2> QED  BY <2>1
<1> PICK active : active = spStores[store].span
  OBVIOUS
<1> PICK both \in BOOLEAN : both = (method /\ IsDecorated(m))
  OBVIOUS
<1> PICK recorded \in BOOLEAN : recorded = ((method \/ IsDecorated(m)) /\ profiled)
  OBVIOUS
<1> PICK innermost : innermost = IF both THEN id + 1 ELSE id
  OBVIOUS
<1> PICK deeper : deeper = IF method THEN depth + 1 ELSE depth
  OBVIOUS
<1> PICK kind : kind = IF method THEN "method" ELSE "custom"
  OBVIOUS
<1> PICK opened : opened = Append(spSpans, OpenedSpan(active, kind))
  OBVIOUS
<1> PICK under : under = {spCalls[spStack[i]].method : i \in DOMAIN spStack}
  OBVIOUS
<1> PICK e : e = [task |-> run.task, method |-> m, caller |-> up, self |-> self,
                  span |-> IF recorded THEN id ELSE NoSpan,
                  inner |-> IF recorded /\ both THEN innermost ELSE NoSpan, wrapped |-> method,
                  store |-> IF recorded THEN Len(spStores) + 1 ELSE store,
                  under |-> under, state |-> "first", failed |-> FALSE]
  OBVIOUS
<1>1. /\ spStack # <<>> /\ spConfig' = spConfig
      /\ spCalls' = Append(spCalls, e)
      /\ spSpans' = IF ~recorded THEN spSpans
                    ELSE IF both THEN Append(opened, OpenedSpan(id, "custom")) ELSE opened
      /\ spStores' = IF recorded THEN Append(spStores, [span |-> innermost, depth |-> deeper])
                     ELSE [spStores EXCEPT ![store].depth = deeper]
      /\ spTracing' = IF method THEN spTracing \cup {m} ELSE spTracing
      /\ spStack' = Append(spStack, n)
  BY DEF Invoke
<1>2. /\ Len(spCalls) \in Nat /\ DOMAIN spCalls = 1..Len(spCalls)
      /\ Len(spStores) \in Nat /\ DOMAIN spStores = 1..Len(spStores)
      /\ Len(spSpans) \in Nat /\ DOMAIN spSpans = 1..Len(spSpans)
      /\ \A d \in DOMAIN spCalls : spCalls[d] \in SpCallRecords
  BY SpLengths DEF SpInv
<1>3. /\ up \in DOMAIN spCalls /\ run = spCalls[up] /\ run \in SpCallRecords
      /\ store \in DOMAIN spStores /\ spStores[store] \in SpStoreRecords /\ store = run.store
      /\ active \in 0..Len(spSpans) /\ depth \in Nat /\ deeper \in Nat
  BY <1>1, SpTop DEF SpStoreRecords
<1>4. under \subseteq SpMethods \cup {SpEntry}
  <2>1. \A i \in DOMAIN spStack : spStack[i] \in DOMAIN spCalls
    BY DEF SpInv, SpStacked
  <2> QED  BY <1>2, <2>1 DEF SpCallRecords
<1>5. e \in SpCallRecords
  BY <1>2, <1>3, <1>4 DEF SpCallRecords, NoSpan
<1>6. spCalls'[n] = e
  <2>1. spCalls \in Seq(SpCallRecords)
    BY DEF SpInv, SpShaped
  <2> QED  BY <1>1, <1>5, <2>1, SpAppended
<1>7. /\ SpGrown(spSpans') /\ \A j \in DOMAIN spSpans : spSpans'[j] = spSpans[j]
      /\ recorded => /\ id \in DOMAIN spSpans' /\ spSpans'[id].parent = active
                     /\ spSpans'[id].records = <<>> /\ spSpans'[id].kind # "manual"
                     /\ innermost = Len(spSpans')
      /\ recorded /\ both => /\ innermost \in DOMAIN spSpans' /\ spSpans'[innermost].parent = id
                             /\ spSpans'[innermost].records = <<>>
                             /\ spSpans'[innermost].kind # "manual"
  <2>1. CASE recorded
    <3>1. kind \in {"method", "custom", "manual"} /\ kind # "manual"
      OBVIOUS
    <3>2. /\ SpGrown(opened) /\ Len(opened) = id
          /\ \A j \in DOMAIN spSpans : opened[j] = spSpans[j]
          /\ opened[id] = OpenedSpan(active, kind)
      <4>1. SpGrown(spSpans) /\ active \in 0..Len(spSpans) /\ id = Len(spSpans) + 1
        BY <1>3, SpSame
      <4>2. kind \in {"method", "custom", "manual"} /\ opened = Append(spSpans, OpenedSpan(active, kind))
        BY <3>1
      <4>3. /\ SpGrown(opened) /\ Len(opened) = Len(spSpans) + 1
            /\ \A j \in DOMAIN spSpans : opened[j] = spSpans[j]
            /\ opened[Len(spSpans) + 1] = OpenedSpan(active, kind)
        <5> PICK sps, k, a : sps = opened /\ k = kind /\ a = active
          OBVIOUS
        <5>1. /\ SpGrown(spSpans) /\ a \in 0..Len(spSpans) /\ k \in {"method", "custom", "manual"}
              /\ sps = Append(spSpans, OpenedSpan(a, k))
          BY <4>1, <4>2
        <5>2. SpGrown(sps) /\ Len(sps) = Len(spSpans) + 1
          BY ONLY SpInv, <5>1, SpOpens
        <5>3. \A j \in DOMAIN spSpans : sps[j] = spSpans[j]
          BY ONLY SpInv, <5>1, SpOpens
        <5>4. sps[Len(spSpans) + 1] = OpenedSpan(a, k)
          BY ONLY SpInv, <5>1, SpOpens
        <5> QED  BY <5>2, <5>3, <5>4
      <4> QED  BY <4>1, <4>3
    <3>3. DOMAIN opened = 1..id /\ id \in DOMAIN opened /\ DOMAIN spSpans \subseteq DOMAIN opened
      BY <1>2, <3>2, LenProperties DEF SpGrown
    <3>4. CASE ~both
      BY <1>1, <2>1, <3>1, <3>2, <3>3, <3>4 DEF OpenedSpan
    <3>5. CASE both
      <4>1. spSpans' = Append(opened, OpenedSpan(id, "custom")) /\ id \in 0..Len(opened)
        BY <1>1, <1>2, <2>1, <3>2, <3>5
      <4>2. /\ SpGrown(spSpans') /\ Len(spSpans') = id + 1
            /\ \A j \in DOMAIN opened : spSpans'[j] = opened[j]
            /\ spSpans'[id + 1] = OpenedSpan(id, "custom")
        <5> PICK sps, k : sps = spSpans' /\ k = "custom"
          OBVIOUS
        <5>1. /\ SpGrown(opened) /\ id \in 0..Len(opened) /\ k \in {"method", "custom", "manual"}
              /\ sps = Append(opened, OpenedSpan(id, k))
          BY <3>2, <4>1
        <5>2. SpGrown(sps) /\ Len(sps) = Len(opened) + 1
          BY ONLY SpInv, <5>1, SpOpens
        <5>3. \A j \in DOMAIN opened : sps[j] = opened[j]
          BY ONLY SpInv, <5>1, SpOpens
        <5>4. sps[Len(opened) + 1] = OpenedSpan(id, k)
          BY ONLY SpInv, <5>1, SpOpens
        <5> QED  BY <3>2, <5>2, <5>3, <5>4
      <4>3. DOMAIN spSpans' = 1..id + 1 /\ innermost = id + 1
        BY <3>5, <4>2, LenProperties DEF SpGrown
      <4> QED  BY <1>2, <3>1, <3>2, <3>3, <4>2, <4>3 DEF OpenedSpan
    <3> QED  BY <3>4, <3>5
  <2>2. CASE ~recorded
    BY <1>1, <2>2, SpSame
  <2> QED  BY <2>1, <2>2
<1>8. /\ spStores' \in Seq(SpStoreRecords) /\ DOMAIN spStores \subseteq DOMAIN spStores'
      /\ \A s \in DOMAIN spStores : /\ spStores'[s].span = spStores[s].span
                                    /\ recorded \/ s # store => spStores'[s].depth = spStores[s].depth
      /\ e.store \in DOMAIN spStores'
      /\ spStores'[e.store].span = IF recorded THEN innermost ELSE active
      /\ spStores'[e.store].depth = deeper
      /\ \A s \in DOMAIN spStores' : s \in DOMAIN spStores \/ (recorded /\ s = e.store)
  <2>1. spStores \in Seq(SpStoreRecords)
    BY DEF SpInv, SpShaped
  <2>2. CASE recorded
    <3> PICK new : new = [span |-> innermost, depth |-> deeper]
      OBVIOUS
    <3>1. new \in SpStoreRecords /\ new.span = innermost /\ new.depth = deeper
      BY <1>2, <1>3 DEF SpStoreRecords
    <3>2. /\ spStores' \in Seq(SpStoreRecords) /\ DOMAIN spStores' = 1..Len(spStores) + 1
          /\ \A s \in DOMAIN spStores : spStores'[s] = spStores[s]
          /\ spStores'[Len(spStores) + 1] = new
      BY <1>1, <2>1, <2>2, <3>1, SpAppended
    <3>3. e.store = Len(spStores) + 1
      BY <2>2
    <3> QED  BY <1>2, <2>2, <3>1, <3>2, <3>3
  <2>3. CASE ~recorded
    <3> PICK new : new = [spStores[store] EXCEPT !.depth = deeper]
      OBVIOUS
    <3>1. new \in SpStoreRecords /\ new.span = active /\ new.depth = deeper
      BY <1>3 DEF SpStoreRecords
    <3>2. /\ spStores' \in Seq(SpStoreRecords) /\ DOMAIN spStores' = DOMAIN spStores
          /\ spStores'[store] = new
          /\ \A s \in DOMAIN spStores : s # store => spStores'[s] = spStores[s]
      BY <1>1, <1>3, <2>1, <2>3, <3>1, SpUpdated
    <3>3. e.store = store
      BY <2>3
    <3> QED  BY <1>3, <2>3, <3>1, <3>2, <3>3
  <2> QED  BY <2>2, <2>3
<1>9. \A d \in DOMAIN spCalls : spCalls[d].store \in DOMAIN spStores
  BY DEF SpInv, SpTree, SpNested
<1>10. \A d \in DOMAIN spCalls : spCalls[d].task \in spConfig.profiled =>
             spStores'[spCalls[d].store].depth = spStores[spCalls[d].store].depth
  <2> SUFFICES ASSUME NEW d \in DOMAIN spCalls, spCalls[d].task \in spConfig.profiled
               PROVE  spStores'[spCalls[d].store].depth = spStores[spCalls[d].store].depth
    OBVIOUS
  <2>1. CASE recorded \/ spCalls[d].store # store
    BY <1>8, <1>9, <2>1
  <2>2. CASE ~recorded /\ spCalls[d].store = store
    <3>1. spCalls[d].task = run.task
      BY <1>3, <2>2 DEF SpInv, SpTree, SpApart
    <3>2. ~method
      BY <2>2, <3>1
    <3>3. e.store = store /\ deeper = depth
      BY <2>2, <3>2
    <3> QED  BY <1>8, <2>2, <3>3
  <2> QED  BY <2>1, <2>2
<1>11. SpNested(n)' /\ SpDeep(n)'
  <2>1. up # n /\ up # 0 /\ up \in 0..n - 1 /\ spCalls'[up] = spCalls[up]
    <3>1. spCalls \in Seq(SpCallRecords)
      BY DEF SpInv, SpShaped
    <3>2. \A d \in DOMAIN spCalls : spCalls'[d] = spCalls[d]
      BY <1>1, <1>5, <3>1, SpAppended
    <3> QED  BY <1>2, <1>3, <3>2
  <2>2. SpActive(up)' = active /\ SpActive(n)' = spStores'[e.store].span
        /\ SpDepth(n)' = deeper
    BY <1>3, <1>6, <1>8, <2>1 DEF SpActive, SpDepth
  <2>3. profiled => SpDepth(up)' = depth
    BY <1>3, <1>10, <2>1 DEF SpDepth
  <2>4. SpNested(n)'
    <3>1. id # NoSpan /\ innermost # NoSpan /\ (both => innermost # id)
      BY <1>2 DEF NoSpan
    <3>2. /\ spCalls'[n].caller = up /\ spCalls'[n].store = e.store
          /\ spCalls'[n].task = run.task /\ spCalls'[up].task = run.task
          /\ spCalls'[n].span = IF recorded THEN id ELSE NoSpan
          /\ spCalls'[n].inner = IF recorded /\ both THEN innermost ELSE NoSpan
      <4>1. /\ e.caller = up /\ e.task = run.task /\ e.span = IF recorded THEN id ELSE NoSpan
            /\ e.inner = IF recorded /\ both THEN innermost ELSE NoSpan
        OBVIOUS
      <4>2. spCalls'[up] = run
        BY <1>3, <2>1
      <4> QED  BY <1>6, <4>1, <4>2
    <3>3. SpActive(n)' = IF recorded THEN innermost ELSE SpActive(up)'
      BY <1>8, <2>2
    <3>4. recorded => run.task \in spConfig'.profiled
      BY <1>1
    <3>5. recorded => Innermost(spCalls'[n]) = innermost
      BY <3>1, <3>2 DEF Innermost
    <3>6. \A j \in Nat : SpOwns(n, j)' => recorded /\ (j = id \/ (both /\ j = innermost))
      BY <3>2 DEF SpOwns
    <3>7. \A j \in Nat : SpOwns(n, j)' => /\ spCalls'[n].task \in spConfig'.profiled
                                          /\ j \in DOMAIN spSpans' /\ spSpans'[j].kind # "manual"
      BY <1>7, <3>2, <3>4, <3>6
    <3>8. /\ spCalls'[n].store \in DOMAIN spStores' /\ spCalls'[n].task = spCalls'[up].task
          /\ SpActive(n)' = IF spCalls'[n].span = NoSpan THEN SpActive(up)' ELSE Innermost(spCalls'[n])
      BY <1>8, <3>1, <3>2, <3>3, <3>5
    <3>9. /\ spCalls'[n].span # NoSpan => spSpans'[spCalls'[n].span].parent = SpActive(up)'
          /\ spCalls'[n].inner # NoSpan => /\ spCalls'[n].span # NoSpan
                                           /\ spCalls'[n].inner # spCalls'[n].span
                                           /\ spSpans'[spCalls'[n].inner].parent = spCalls'[n].span
      BY <1>7, <2>2, <3>1, <3>2
    <3> QED  BY <2>1, <3>2, <3>7, <3>8, <3>9 DEF SpNested
  <2>5. SpDeep(n)'
    <3>0. /\ spCalls'[n].task = run.task /\ spConfig' = spConfig
          /\ profiled <=> run.task \in spConfig.profiled
      BY <1>1, <1>6
    <3>8. CASE ~profiled
      <4>1. spCalls'[n].task \notin spConfig'.profiled
        BY <3>0, <3>8
      <4> QED  BY <4>1 DEF SpDeep
    <3> SUFFICES ASSUME profiled PROVE SpDeep(n)'
      BY <3>8
    <3>1. /\ spCalls'[n].wrapped = method /\ spCalls'[n].caller = up /\ spCalls'[n].method = m
          /\ spCalls'[n].self = self /\ spCalls'[n].under = under
          /\ spCalls'[n].span = IF recorded THEN id ELSE NoSpan
      BY <1>6
    <3>2. method => recorded
      OBVIOUS
    <3>3. deeper = depth + (IF method THEN 1 ELSE 0)
      BY <1>3
    <3>4. method => depth < SpMaxDepth
      BY DEF OpensMethodSpan
    <3>5. ~method => \/ ~ThroughProxy(m, self) \/ m \in spConfig.excluded \cup under
                     \/ depth >= SpMaxDepth
      <4> SUFFICES ASSUME ~method, ThroughProxy(m, self), m \notin spConfig.excluded,
                          ~(depth >= SpMaxDepth)
                   PROVE  m \in under
        OBVIOUS
      <4>1. ~method
        OBVIOUS
      <4>2. depth < SpMaxDepth
        BY <1>3, SpAssumption
      <4>3. m \in spTracing
        BY <4>1, <4>2 DEF OpensMethodSpan
      <4> QED  BY <4>3 DEF SpInv, SpStacked
    <3>6. ThroughProxy(m, self)' <=> ThroughProxy(m, self)
      BY <1>1 DEF ThroughProxy
    <3>7. id # NoSpan
      BY <1>2 DEF NoSpan
    <3> QED  BY <1>1, <2>1, <2>2, <2>3, <3>1, <3>2, <3>3, <3>4, <3>5, <3>6, <3>7 DEF SpDeep, ThroughProxy
  <2> QED  BY <2>4, <2>5
<1>12. \A s \in DOMAIN spStores' : spStores'[s].span \in 0..Len(spSpans')
  <2>1. \A s \in DOMAIN spStores : spStores[s].span \in 0..Len(spSpans)
    BY DEF SpInv, SpTree, SpSpansAre
  <2>2. Len(spSpans') \in Nat /\ Len(spSpans') >= Len(spSpans)
    BY <1>7, LenProperties DEF SpGrown
  <2>3. recorded => spStores'[e.store].span = Len(spSpans')
    BY <1>7, <1>8
  <2>4. \A s \in DOMAIN spStores : spStores'[s].span \in 0..Len(spSpans')
    <3>1. \A s \in DOMAIN spStores : spStores'[s].span = spStores[s].span
      BY <1>8
    <3>2. Len(spSpans) \in Nat
      BY <1>2
    <3> QED  BY ONLY <2>1, <2>2, <3>1, <3>2
  <2>5. recorded => spStores'[e.store].span \in 0..Len(spSpans')
    BY <2>2, <2>3
  <2> QED  BY <1>8, <2>4, <2>5
<1>13. \A d \in DOMAIN spCalls : spCalls[d].store = e.store => spCalls[d].task = e.task
  <2> SUFFICES ASSUME NEW d \in DOMAIN spCalls
               PROVE  spCalls[d].store = e.store => spCalls[d].task = e.task
    OBVIOUS
  <2>1. CASE recorded
    BY <1>2, <1>9, <2>1
  <2>2. CASE ~recorded
    BY <1>3, <2>2 DEF SpInv, SpTree, SpApart
  <2> QED  BY <2>1, <2>2
<1>14. /\ SpTree' /\ SpRecorded' /\ spCalls' \in Seq(SpCallRecords)
       /\ DOMAIN spCalls' = DOMAIN spCalls \cup {n}
       /\ \A d \in DOMAIN spCalls : spCalls'[d] = spCalls[d]
  <2>1. /\ e.state = "first"
        /\ \A j \in {e.span, e.inner} : j # NoSpan =>
             j \notin DOMAIN spSpans /\ spSpans'[j].records = <<>>
    BY <1>2, <1>7
  <2>2. \A s \in DOMAIN spStores : s \in DOMAIN spStores' /\ spStores'[s].span = spStores[s].span
    BY <1>8
  <2>3. n = Len(spCalls) + 1 /\ spCalls' = Append(spCalls, e) /\ spConfig' = spConfig
    BY <1>1
  <2>4. /\ spStores' \in Seq(SpStoreRecords) /\ SpGrown(spSpans')
        /\ \A j \in DOMAIN spSpans : spSpans'[j] = spSpans[j]
    BY <1>7, <1>8
  <2> QED  BY ONLY SpInv, <1>5, <1>10, <1>11, <1>12, <1>13, <2>1, <2>2, <2>3, <2>4, SpCalls
<1>15. SpStacked' /\ spStack' \in Seq(Nat)
  <2>1. spCalls'[n].state = "first" /\ spCalls'[n].method = m /\ spCalls'[n].wrapped = method
    BY <1>6
  <2>2. \A x \in spTracing' : x \in spTracing \/ (spCalls'[n].method = x /\ spCalls'[n].wrapped)
    BY <1>1, <2>1
  <2> QED  BY <1>1, <1>14, <2>1, <2>2, SpPushed
<1>16. SpShaped'
  <2>1. spTracing' \subseteq SpMethods
    BY <1>1 DEF SpInv, SpShaped
  <2> QED  BY <1>1, <1>7, <1>8, <1>14, <1>15, <2>1 DEF SpInv, SpShaped, SpGrown
<1> QED  BY <1>14, <1>15, <1>16 DEF SpInv

-----------------------------------------------------------------------------
LEMMA SpInitially == ASSUME NEW s \in SpScenarios, SpStart(s) PROVE SpInv
<1>1. /\ spConfig \in SpScenarios /\ spStack = <<>> /\ spCalls = <<>> /\ spStores = <<>>
      /\ spTracing = {} /\ spSpans = <<>>
  BY DEF SpStart
<1>2. SpShaped
  BY <1>1, EmptySeq DEF SpShaped
<1>3. DOMAIN spCalls = {} /\ DOMAIN spStack = {} /\ DOMAIN spStores = {} /\ DOMAIN spSpans = {}
  BY <1>1
<1> QED  BY <1>1, <1>2, <1>3 DEF SpInv, SpStacked, SpTree, SpSpansAre, SpApart, SpRecorded

LEMMA SpUnmoved == ASSUME SpInv, UNCHANGED spVars PROVE SpInv'
<1>1. /\ spConfig' = spConfig /\ spStack' = spStack /\ spCalls' = spCalls /\ spStores' = spStores
      /\ spTracing' = spTracing /\ spSpans' = spSpans
  BY DEF spVars
<1>2. SpShaped' /\ SpStacked'
  BY <1>1 DEF SpInv, SpShaped, SpStacked
<1>3. SpSpansAre' /\ SpApart' /\ SpRecorded'
  BY <1>1 DEF SpInv, SpTree, SpSpansAre, SpApart, SpRecorded, SpOwns, SpClosed
<1>4. \A c \in DOMAIN spCalls : SpNested(c)' /\ SpDeep(c)'
  BY <1>1 DEF SpInv, SpTree, SpNested, SpDeep, SpActive, SpDepth, SpOwns, ThroughProxy
<1> QED  BY <1>1, <1>2, <1>3, <1>4 DEF SpInv, SpTree

LEMMA SpStep == ASSUME SpInv, [SpNext]_spVars PROVE SpInv'
BY SpEnters, SpInvokes, SpAwaits, SpContinues, SpSettles, SpLeaves, SpCaptures, SpStarts,
   SpEndsManual, SpUnmoved DEF SpNext

(* The waterfall of a profile is its calls: the span of a call hangs under *)
(* that of its nearest caller that has one, a decorator's under the span of*)
(* the method it decorates, and each has one record once it has ended, with*)
(* the call's outcome; a call lacks its method span only when its callers  *)
(* explain it: for every number of tasks, of methods and of calls, whatever*)
(* interleaves at their awaits.                                            *)
THEOREM WaterfallIsTheCalls == SpSpec => []SpansAreTheCalls
<1>1. SpInit => SpInv
  BY SpInitially DEF SpInit
<1>2. SpInv /\ [SpNext]_spVars => SpInv'
  BY SpStep
<1>3. SpInv => SpansAreTheCalls
  BY SpEnough
<1> QED  BY <1>1, <1>2, <1>3, PTL DEF SpSpec
=============================================================================
