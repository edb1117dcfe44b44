--------------------------- MODULE GpuQuotaProofs ---------------------------
(***************************************************************************)
(* What the guest may hold stays within its limits.  GpuMap: neither the   *)
(* quota nor the memory slots leak, for every set of resources, window and *)
(* limits.  NvPools: pools are backed, exact, apart and within the limits, *)
(* and a reset withdraws them all.                                         *)
(*                                                                         *)
(* The bytes charged are a fold over the mapped resources, or over the     *)
(* pools, so the proofs begin with what such a fold yields; the inductions *)
(* are arguments about a least counterexample.                             *)
(***************************************************************************)
EXTENDS GpuMapProofs, NvPools, FiniteSetTheorems, TLAPS

(***************************************************************************)
(* Folds that add up weights over a finite set.                            *)
(***************************************************************************)
\* Of some subsets of a finite set, one that is below no other.
LEMMA FinSub ==
    ASSUME NEW S, IsFiniteSet(S), NEW T \in SUBSET (SUBSET S), T # {}
    PROVE  \E x \in T : \A y \in T : y \subseteq x => y = x
  <1>1. PICK R : /\ IsWellFoundedOn(R, SUBSET S)
                 /\ \A y, x \in SUBSET S : y \subseteq x /\ y # x => <<y, x>> \in R
    <2> DEFINE R == StrictSubsetOrdering(S)
    <2>1. IsWellFoundedOn(R, SUBSET S)
      BY FS_StrictSubsetOrderingWellFounded, FS_FiniteSubsetsOfFinite, Zenon
    <2>2. \A y, x \in SUBSET S : y \subseteq x /\ y # x => <<y, x>> \in R
      BY Zenon DEF StrictSubsetOrdering
    <2> HIDE DEF R
    <2>3. QED BY <2>1, <2>2, Zenon
  <1>2. PICK x \in T : \A y \in T : ~ (<<y, x>> \in R)
    <2>1. IsWellFoundedOn(R, SUBSET S) /\ T \subseteq SUBSET S
      BY <1>1, Zenon
    <2>2. QED BY <2>1, WFMin, Zenon
  <1>3. QED BY <1>1, <1>2, Zenon

\* The element a fold takes next, and what folding the weights amounts to.
Pick(s) == CHOOSE x \in s : TRUE
Sums(f, w, S) == f = [s \in SUBSET S |-> IF s = {} THEN 0 ELSE w[Pick(s)] + f[s \ {Pick(s)}]]

LEMMA PickIn == ASSUME NEW s, s # {} PROVE Pick(s) \in s
  BY Zenon DEF Pick

LEMMA SumsAt ==
    ASSUME NEW S, NEW w, NEW f, Sums(f, w, S), NEW s \in SUBSET S
    PROVE  f[s] = IF s = {} THEN 0 ELSE w[Pick(s)] + f[s \ {Pick(s)}]
  BY Zenon DEF Sums

\* Two such folds agree where both are defined, and one exists.
LEMMA SumsAgree ==
    ASSUME NEW S, IsFiniteSet(S), NEW w, NEW A \in SUBSET S, NEW B \in SUBSET S,
           NEW f, NEW g, Sums(f, w, A), Sums(g, w, B), NEW t, t \subseteq A, t \subseteq B
    PROVE  f[t] = g[t]
  <1> DEFINE T == {s \in SUBSET S : s \subseteq A /\ s \subseteq B /\ f[s] # g[s]}
  <1>1. SUFFICES ASSUME T # {} PROVE FALSE
    BY Zenon
  <1>2. PICK x \in T : \A y \in T : y \subseteq x => y = x
    <2>1. T \in SUBSET (SUBSET S)
      BY Zenon
    <2> HIDE DEF T
    <2>2. QED BY <1>1, <2>1, FinSub
  <1>3. x \subseteq A /\ x \subseteq B /\ f[x] # g[x] /\ x \in SUBSET S
    BY <1>2, Zenon
  <1>4. /\ f[x] = IF x = {} THEN 0 ELSE w[Pick(x)] + f[x \ {Pick(x)}]
        /\ g[x] = IF x = {} THEN 0 ELSE w[Pick(x)] + g[x \ {Pick(x)}]
    BY <1>3, Zenon DEF Sums
  <1>5. x # {}
    BY <1>3, <1>4, Zenon
  <1>6. Pick(x) \in x
    BY <1>5, PickIn, Zenon
  <1>7. x \ {Pick(x)} \notin T
    BY <1>2, <1>6, Zenon
  <1>8. f[x \ {Pick(x)}] = g[x \ {Pick(x)}]
    BY <1>3, <1>7, Zenon
  <1>9. QED BY <1>3, <1>4, <1>5, <1>8, Zenon

LEMMA SumsExist ==
    ASSUME NEW S, IsFiniteSet(S), NEW w
    PROVE  \E f : Sums(f, w, S)
  <1> DEFINE T == {s \in SUBSET S : ~ \E f : Sums(f, w, s)}
  <1>1. SUFFICES ASSUME T # {} PROVE FALSE
    BY Zenon
  <1>2. PICK x \in T : \A y \in T : y \subseteq x => y = x
    <2>1. T \in SUBSET (SUBSET S)
      BY Zenon
    <2> HIDE DEF T
    <2>2. QED BY <1>1, <2>1, FinSub
  <1>3. x \in SUBSET S /\ ~ \E f : Sums(f, w, x)
    BY <1>2, Zenon
  <1>4. \A y \in SUBSET x : y # x => \E f : Sums(f, w, y)
    BY <1>2, <1>3, Zenon
  <1> HIDE DEF T
  <1> DEFINE Of(u) == CHOOSE f : Sums(f, w, u)
             F == [s \in SUBSET x |-> IF s = {} THEN 0
                                      ELSE w[Pick(s)] + Of(s \ {Pick(s)})[s \ {Pick(s)}]]
  <1>5. \A u \in SUBSET x : u # x => Sums(Of(u), w, u)
    BY <1>4, Zenon
  <1> HIDE DEF Of
  <1>6. ASSUME NEW u \in SUBSET x, u # x PROVE F[u] = Of(u)[u]
    <2>1. Of(u)[u] = IF u = {} THEN 0 ELSE w[Pick(u)] + Of(u)[u \ {Pick(u)}]
      BY <1>5, <1>6, SumsAt
    <2>2. CASE u = {}
      BY <2>1, <2>2, Zenon
    <2>3. CASE u # {}
      <3>1. PICK v : v = u \ {Pick(u)}
        BY Zenon
      <3>2. Pick(u) \in u
        BY <2>3, PickIn, Zenon
      <3>3. v \in SUBSET x /\ v # x /\ v \subseteq u
        BY <1>6, <3>1, <3>2, Zenon
      <3>4. Sums(Of(v), w, v) /\ Sums(Of(u), w, u)
        BY <1>5, <1>6, <3>3, Zenon
      <3>5. u \in SUBSET S /\ v \in SUBSET S
        BY <1>3, <3>3, Zenon
      <3>6. Of(u)[v] = Of(v)[v]
        BY <3>3, <3>4, <3>5, SumsAgree
      <3>7. F[u] = w[Pick(u)] + Of(v)[v]
        BY <2>3, <3>1, Zenon
      <3>8. QED BY <2>1, <2>3, <3>1, <3>6, <3>7, Zenon
    <2>4. QED BY <2>2, <2>3, Zenon
  <1>7. ASSUME NEW s \in SUBSET x, s # {}
        PROVE  Of(s \ {Pick(s)})[s \ {Pick(s)}] = F[s \ {Pick(s)}]
    <2>1. Pick(s) \in s
      BY <1>7, PickIn, Zenon
    <2>2. s \ {Pick(s)} \in SUBSET x /\ s \ {Pick(s)} # x
      BY <2>1, Zenon
    <2>3. QED BY <1>6, <2>2, Zenon
  <1>8. F = [s \in SUBSET x |-> IF s = {} THEN 0 ELSE w[Pick(s)] + F[s \ {Pick(s)}]]
    BY <1>7, Zenon
  <1>9. Sums(F, w, x)
    BY <1>8, Zenon DEF Sums
  <1>10. QED BY <1>3, <1>9, Zenon

LEMMA SumsNat ==
    ASSUME NEW S, IsFiniteSet(S), NEW w \in [S -> Nat], NEW f, Sums(f, w, S), NEW t \in SUBSET S
    PROVE  f[t] \in Nat
  <1> DEFINE T == {s \in SUBSET S : f[s] \notin Nat}
  <1>1. SUFFICES ASSUME T # {} PROVE FALSE
    BY Zenon
  <1>2. PICK x \in T : \A y \in T : y \subseteq x => y = x
    <2>1. T \in SUBSET (SUBSET S)
      BY Zenon
    <2> HIDE DEF T
    <2>2. QED BY <1>1, <2>1, FinSub
  <1>3. x \in SUBSET S /\ f[x] \notin Nat
    BY <1>2, Zenon
  <1>4. f[x] = IF x = {} THEN 0 ELSE w[Pick(x)] + f[x \ {Pick(x)}]
    BY <1>3, Zenon DEF Sums
  <1>5. x # {}
    BY <1>3, <1>4
  <1>6. Pick(x) \in x
    BY <1>5, PickIn, Zenon
  <1>7. f[x \ {Pick(x)}] \in Nat
    BY <1>2, <1>3, <1>6, Zenon
  <1>8. w[Pick(x)] \in Nat
    BY <1>3, <1>6, Zenon
  <1>9. QED BY <1>3, <1>4, <1>5, <1>7, <1>8

\* Whichever element is taken away, its weight goes.
LEMMA SumsLess ==
    ASSUME NEW S, IsFiniteSet(S), NEW w \in [S -> Nat], NEW f, Sums(f, w, S),
           NEW t \in SUBSET S, NEW e \in t
    PROVE  f[t] = w[e] + f[t \ {e}]
  <1> DEFINE T == {s \in SUBSET S : \E a \in s : f[s] # w[a] + f[s \ {a}]}
  <1>1. SUFFICES ASSUME T # {} PROVE FALSE
    BY Zenon
  <1>2. PICK x \in T : \A y \in T : y \subseteq x => y = x
    <2>1. T \in SUBSET (SUBSET S)
      BY Zenon
    <2> HIDE DEF T
    <2>2. QED BY <1>1, <2>1, FinSub
  <1>3. x \in SUBSET S
    BY <1>2, Zenon
  <1>4. PICK a \in x : f[x] # w[a] + f[x \ {a}]
    BY <1>2, Zenon
  <1>5. PICK c : c = Pick(x)
    BY Zenon
  <1>6. c \in x
    BY <1>4, <1>5, PickIn, Zenon
  <1>7. f[x] = w[c] + f[x \ {c}] /\ a # c
    <2>1. f[x] = IF x = {} THEN 0 ELSE w[Pick(x)] + f[x \ {Pick(x)}]
      BY <1>3, SumsAt
    <2>2. f[x] = w[c] + f[x \ {c}]
      BY <1>5, <1>6, <2>1, Zenon
    <2>3. QED BY <1>4, <2>2, Zenon
  <1>8. x \ {c} \notin T /\ x \ {a} \notin T
    BY <1>2, <1>4, <1>6, Zenon
  <1>9. f[x \ {c}] = w[a] + f[(x \ {c}) \ {a}] /\ f[x \ {a}] = w[c] + f[(x \ {a}) \ {c}]
    BY <1>3, <1>4, <1>6, <1>7, <1>8, Zenon
  <1>10. PICK v : v = (x \ {c}) \ {a}
    BY Zenon
  <1>11. v = (x \ {a}) \ {c} /\ v \in SUBSET S
    BY <1>3, <1>10, Zenon
  <1>12. w[a] \in Nat /\ w[c] \in Nat /\ f[v] \in Nat
    BY <1>3, <1>4, <1>6, <1>11, SumsNat, Zenon
  <1>13. PICK n, m, k, fx, fc, fa :
           /\ n = w[a] /\ m = w[c] /\ k = f[v]
           /\ fx = f[x] /\ fc = f[x \ {c}] /\ fa = f[x \ {a}]
    BY Zenon
  <1>14. n \in Nat /\ m \in Nat /\ k \in Nat
    BY <1>12, <1>13, Zenon
  <1>15. fc = n + k /\ fa = m + k
    BY <1>9, <1>10, <1>11, <1>13, Zenon
  <1>16. fx = m + fc /\ fx # n + fa
    BY <1>4, <1>7, <1>13, Zenon
  <1>17. QED BY <1>14, <1>15, <1>16

\* The sum of the weights of a finite set.
Total(w, S) == (CHOOSE f : Sums(f, w, S))[S]

LEMMA TotalIs ==
    ASSUME NEW S, IsFiniteSet(S), NEW w, NEW f, Sums(f, w, S), NEW t \in SUBSET S
    PROVE  Total(w, t) = f[t]
  <1>1. IsFiniteSet(t)
    BY FS_Subset, Zenon
  <1>2. PICK g : g = CHOOSE h : Sums(h, w, t)
    BY Zenon
  <1>3. Sums(g, w, t)
    BY <1>1, <1>2, SumsExist, Zenon
  <1>4. g[t] = f[t]
    BY <1>3, SumsAgree
  <1>5. QED BY <1>2, <1>4, Zenon DEF Total

\* Only the weights of its elements matter.
LEMMA TotalWeights ==
    ASSUME NEW S, NEW w, NEW v, \A x \in S : w[x] = v[x]
    PROVE  Total(w, S) = Total(v, S)
  <1>1. ASSUME NEW f PROVE Sums(f, w, S) <=> Sums(f, v, S)
    <2>1. \A s \in SUBSET S : s # {} => w[Pick(s)] = v[Pick(s)]
      BY PickIn, Zenon
    <2>2. [s \in SUBSET S |-> IF s = {} THEN 0 ELSE w[Pick(s)] + f[s \ {Pick(s)}]]
          = [s \in SUBSET S |-> IF s = {} THEN 0 ELSE v[Pick(s)] + f[s \ {Pick(s)}]]
      BY <2>1, Zenon
    <2>3. QED BY <2>2, Zenon DEF Sums
  <1>2. (CHOOSE f : Sums(f, w, S)) = (CHOOSE f : Sums(f, v, S))
    BY <1>1, Zenon
  <1>3. QED BY <1>2, Zenon DEF Total

LEMMA TotalEmpty == ASSUME NEW w PROVE Total(w, {}) = 0
  <1>1. IsFiniteSet({})
    BY FS_EmptySet, Zenon
  <1>2. PICK f : Sums(f, w, {})
    BY <1>1, SumsExist, Zenon
  <1>3. QED BY <1>1, <1>2, TotalIs, SumsAt

LEMMA TotalNat ==
    ASSUME NEW S, IsFiniteSet(S), NEW w, \A x \in S : w[x] \in Nat
    PROVE  Total(w, S) \in Nat
  <1>1. PICK v : v = [x \in S |-> w[x]]
    BY Zenon
  <1>2. v \in [S -> Nat] /\ Total(w, S) = Total(v, S)
    BY <1>1, TotalWeights, Zenon
  <1>3. PICK f : Sums(f, v, S)
    BY SumsExist, Zenon
  <1>4. QED BY <1>2, <1>3, TotalIs, SumsNat

\* Whichever element is taken away, its weight goes.
LEMMA TotalLess ==
    ASSUME NEW S, IsFiniteSet(S), NEW w, \A x \in S : w[x] \in Nat, NEW e \in S
    PROVE  Total(w, S) = w[e] + Total(w, S \ {e}) /\ Total(w, S \ {e}) \in Nat
  <1>1. PICK v : v = [x \in S |-> w[x]]
    BY Zenon
  <1>2. v \in [S -> Nat] /\ Total(w, S) = Total(v, S) /\ v[e] = w[e]
    BY <1>1, TotalWeights, Zenon
  <1>3. PICK R : R = S \ {e}
    BY Zenon
  <1>4. R \in SUBSET S /\ Total(w, R) = Total(v, R)
    BY <1>1, <1>3, TotalWeights, Zenon
  <1>5. PICK f : Sums(f, v, S)
    BY SumsExist, Zenon
  <1>6. f[S] = v[e] + f[S \ {e}]
    BY <1>2, <1>5, SumsLess
  <1>7. Total(v, S) = f[S] /\ Total(v, R) = f[R] /\ f[R] \in Nat
    BY <1>2, <1>4, <1>5, TotalIs, SumsNat
  <1>8. QED BY <1>2, <1>3, <1>4, <1>6, <1>7, Zenon

-----------------------------------------------------------------------------
(***************************************************************************)
(* The number of memory slots.                                             *)
(***************************************************************************)

\* With no number to recycle, the slots that are registered have every number
\* handed out, and each has a page of its own to begin at.
LEMMA Room ==
  ASSUME SlotInv, MapTypes, free = <<>>
  PROVE  next_slot <= FirstSlot + WinSize
  <1>1. SUFFICES ASSUME ~(next_slot <= FirstSlot + WinSize) PROVE FALSE
    BY Zenon
  <1>2. FirstSlot \in Nat /\ WinSize \in Nat \ {0} /\ next_slot \in Nat
    BY GpuMapAssumption, Zenon DEF SlotInv
  <1>3. PICK S : S = FirstSlot .. next_slot - 1
    BY Zenon
  <1>4. S = {k.slot : k \in kvm}
    BY <1>3 DEF SlotInv, SlotsAccounted, Range
  <1>5. IsFiniteSet(S) /\ Cardinality(S) = next_slot - FirstSlot
    <2>1. FirstSlot \in Int /\ next_slot - 1 \in Int /\ FirstSlot <= next_slot - 1
      BY <1>1, <1>2
    <2>2. QED BY <1>2, <1>3, <2>1, FS_Interval
  <1>6. IsFiniteSet(Pages) /\ Cardinality(Pages) = WinSize
    <2>1. 0 \in Int /\ WinSize - 1 \in Int /\ 0 <= WinSize - 1
      BY <1>2
    <2>2. QED BY <1>2, <2>1, FS_Interval DEF Pages
  <1>7. PICK f : f = [i \in S |-> (CHOOSE k \in kvm : k.slot = i).at]
    BY Zenon
  <1>8. \A i \in S : \E k \in kvm : k.slot = i /\ f[i] = k.at
    BY <1>4, <1>7, Zenon
  <1>9. f \in [S -> Pages]
    BY <1>7, <1>8, Zenon DEF SlotInv
  <1>10. PICK i, j \in S : i # j /\ f[i] = f[j]
    <2>1. Cardinality(Pages) < Cardinality(S)
      BY <1>1, <1>2, <1>5, <1>6
    <2>2. QED BY <1>5, <1>6, <1>9, <2>1, FS_PigeonHole, Zenon
  <1>11. PICK k, l \in kvm : k.slot = i /\ l.slot = j /\ k.at = l.at
    BY <1>8, <1>10
  <1>12. k # l
    BY <1>10, <1>11, Zenon
  <1>13. k.at \in Nat /\ k.len \in Nat \ {0} /\ l.len \in Nat \ {0}
    BY Zenon DEF MapTypes
  <1>14. QED BY <1>11, <1>12, <1>13 DEF SlotInv

\* A number is taken when there is none to recycle, and then one only.
LEMMA Growth ==
  ASSUME [MapNext]_mapVars
  PROVE  UNCHANGED next_slot \/ (free = <<>> /\ next_slot' = next_slot + 1)
  <1>1. ASSUME NEW r \in Res, UnmapBlob(r) \/ Unref(r) \/ WithdrawRefused(r) PROVE UNCHANGED next_slot
    BY <1>1, Zenon DEF UnmapBlob, Unref, WithdrawRefused, withdraw_mapping, WithdrawFails, UnmapSlot, UnmapSlotFails, slotvars
  <1>2. CASE Publish
    BY <1>2, Zenon DEF Publish, MapSlot, Pop
  <1>3. CASE PublishFails
    BY <1>3, Zenon DEF PublishFails, MapSlotFails, GiveBack, slotvars
  <1>4. ASSUME \/ \E r \in Res : \/ \E size \in {0} \cup Sizes : Create(r, size)
                                 \/ \E off \in Pages : MapBlob(r, off)
               \/ \E s \in Scanouts, r \in Res \cup {NoRes} : set_scanout(s, r)
               \/ MapRefused \/ Place \/ RendererMap \/ RendererMapFails \/ Record
               \/ Unmapping \/ Unreferencing \/ activate_window \/ reset_window
        PROVE  UNCHANGED slotvars
    BY <1>4, Zenon DEF Create, MapBlob, set_scanout, MapRefused, Place, RendererMap, RendererMapFails, Record,
         Unmapping, Unreferencing, activate_window, reset_window
  <1>5. CASE UNCHANGED mapVars
    BY <1>5, Zenon DEF mapVars, slotvars
  <1>6. QED
    BY <1>1, <1>2, <1>3, <1>4, <1>5, Zenon DEF MapNext, slotvars

BoundInv == next_slot <= FirstSlot + WinSize + 1

LEMMA BoundStart == MapInit => BoundInv
  BY GpuMapAssumption DEF MapInit, open_window, BoundInv

LEMMA BoundStep == MapInv /\ SlotInv /\ BoundInv /\ [MapNext]_mapVars => BoundInv'
  <1> SUFFICES ASSUME MapInv, SlotInv, BoundInv, [MapNext]_mapVars PROVE BoundInv'
    BY Zenon
  <1>1. CASE UNCHANGED next_slot
    BY <1>1, Zenon DEF BoundInv
  <1>2. CASE free = <<>> /\ next_slot' = next_slot + 1
    <2>1. next_slot <= FirstSlot + WinSize
      BY <1>2, Room, Zenon DEF MapInv
    <2>2. next_slot \in Nat /\ FirstSlot \in Nat /\ WinSize \in Nat
      BY GpuMapAssumption, Zenon DEF SlotInv
    <2>3. QED BY <1>2, <2>1, <2>2 DEF BoundInv
  <1>3. QED BY <1>1, <1>2, Growth, Zenon
-----------------------------------------------------------------------------
(***************************************************************************)
(* The quota.                                                              *)
(***************************************************************************)

\* What is mapped, with what is being mapped: a count, and bytes.
SizeOf == [r \in DOMAIN resources |-> resources[r].size]
Count == Cardinality(Mapped) + (IF Begun THEN 1 ELSE 0)
Bytes == Total(SizeOf, Mapped) + (IF Begun THEN Size ELSE 0)

QuotaInv ==
  /\ limits \in Nat \X Nat
  /\ mappings = Count /\ used_bytes = Bytes
  /\ limits[1] # 0 => used_bytes <= limits[1]
  /\ limits[2] # 0 => mappings <= limits[2]

LEMMA BytesIsFold == FoldSet(LAMBDA r, n : resources[r].size + n, 0, Mapped) = Total(SizeOf, Mapped)
  <1>1. PICK U : U = Mapped
    BY Zenon
  <1>2. PICK w : w = SizeOf
    BY Zenon
  <1>3. \A r \in U : w[r] = resources[r].size
    BY <1>1, <1>2, Zenon DEF SizeOf, Mapped
  <1> DEFINE G(g) == g = [s \in SUBSET U |-> IF s = {} THEN 0
                            ELSE resources[CHOOSE x \in s : TRUE].size + g[s \ {CHOOSE x \in s : TRUE}]]
  <1>4. FoldSet(LAMBDA r, n : resources[r].size + n, 0, U) = (CHOOSE g : G(g))[U]
    BY Zenon DEF FoldSet, MapThenFoldSet
  <1>5. ASSUME NEW g PROVE G(g) <=> Sums(g, w, U)
    <2>1. \A s \in SUBSET U : s # {} => resources[CHOOSE x \in s : TRUE].size = w[Pick(s)]
      BY <1>3, PickIn, Zenon DEF Pick
    <2>2. [s \in SUBSET U |-> IF s = {} THEN 0
              ELSE resources[CHOOSE x \in s : TRUE].size + g[s \ {CHOOSE x \in s : TRUE}]]
          = [s \in SUBSET U |-> IF s = {} THEN 0 ELSE w[Pick(s)] + g[s \ {Pick(s)}]]
      BY <2>1 DEF Pick
    <2>3. QED BY <2>2, Zenon DEF Sums
  <1> HIDE DEF G
  <1>6. (CHOOSE g : G(g)) = (CHOOSE g : Sums(g, w, U))
    BY <1>5, Zenon
  <1>7. (CHOOSE g : G(g))[U] = Total(w, U)
    BY <1>6, Zenon DEF Total
  <1>8. QED BY <1>1, <1>2, <1>4, <1>7, Zenon

LEMMA CountFacts ==
  ASSUME MapInv
  PROVE  /\ IsFiniteSet(Mapped) /\ Cardinality(Mapped) \in Nat
         /\ \A r \in Mapped : SizeOf[r] = resources[r].size /\ SizeOf[r] \in Nat
         /\ Total(SizeOf, Mapped) \in Nat
  <1>1. Mapped \subseteq Res
    BY Zenon DEF MapInv, MapTypes, Mapped
  <1>2. IsFiniteSet(Mapped)
    BY <1>1, FS_Subset, GpuMapAssumption, Zenon
  <1>3. \A r \in Mapped : SizeOf[r] = resources[r].size /\ SizeOf[r] \in Nat
    BY Zenon DEF SizeOf, Mapped, MapInv, MapTypes, Entry
  <1>4. QED BY <1>2, <1>3, TotalNat, FS_CardinalityType, Zenon

\* Nothing is mapped that was not, and nothing unmapped.
LEMMA MappedKept ==
  ASSUME Mapped' = Mapped, \A r \in Mapped : r \in DOMAIN resources' /\ resources'[r].size = resources[r].size
  PROVE  Cardinality(Mapped)' = Cardinality(Mapped) /\ Total(SizeOf, Mapped)' = Total(SizeOf, Mapped)
  <1>1. \A r \in Mapped : SizeOf'[r] = SizeOf[r]
    BY Zenon DEF SizeOf, Mapped
  <1>2. Total(SizeOf', Mapped) = Total(SizeOf, Mapped)
    BY <1>1, TotalWeights, Zenon
  <1>3. QED BY <1>2, Zenon

LEMMA QuotaKept ==
  ASSUME QuotaInv, UNCHANGED <<used_bytes, mappings, limits>>, Count' = Count, Bytes' = Bytes
  PROVE  QuotaInv'
  BY Zenon DEF QuotaInv

LEMMA QuotaReleased ==
  ASSUME QuotaInv, UNCHANGED limits, NEW n \in Nat, release(n),
         Count' \in Nat, Bytes' \in Nat, Count = Count' + 1, Bytes = Bytes' + n
  PROVE  QuotaInv'
  <1>1. PICK c \in Nat, b \in Nat : c = Count' /\ b = Bytes'
    BY Zenon
  <1>2. mappings = c + 1 /\ used_bytes = b + n
    BY <1>1, Zenon DEF QuotaInv
  <1>3. mappings' = c /\ used_bytes' = b
    <2>1. used_bytes' = saturating_sub(b + n, n) /\ mappings' = saturating_sub(c + 1, 1)
      BY <1>2, Zenon DEF release
    <2>2. ~(b + n < n) /\ (b + n) - n = b /\ ~(c + 1 < 1) /\ (c + 1) - 1 = c
      OBVIOUS
    <2>3. QED BY <2>1, <2>2, Zenon DEF saturating_sub
  <1>4. limits' = limits /\ limits \in Nat \X Nat
    BY Zenon DEF QuotaInv
  <1>5. limits[1] \in Nat /\ limits[2] \in Nat
    BY <1>4, Zenon
  <1>6. /\ limits[1] # 0 => b <= limits[1]
        /\ limits[2] # 0 => c <= limits[2]
    <2>1. /\ limits[1] # 0 => b + n <= limits[1]
          /\ limits[2] # 0 => c + 1 <= limits[2]
      BY <1>2, Zenon DEF QuotaInv
    <2>2. QED BY <1>5, <2>1
  <1>7. QED BY <1>1, <1>3, <1>4, <1>6, Zenon DEF QuotaInv

LEMMA QuotaStart == MapInit => QuotaInv
  <1> SUFFICES ASSUME MapInit PROVE QuotaInv
    BY Zenon
  <1>1. Mapped = {} /\ ~Begun
    BY MemoryFacts DEF MapInit, Mapped, Begun
  <1>2. Count = 0 /\ Bytes = 0
    BY <1>1, TotalEmpty, FS_EmptySet DEF Count, Bytes
  <1>3. limits \in Nat \X Nat
    BY GpuMapAssumption, Zenon DEF MapInit
  <1>4. limits[1] \in Nat /\ limits[2] \in Nat
    BY <1>3, Zenon
  <1>5. QED BY <1>2, <1>3, <1>4 DEF MapInit, QuotaInv

\* Only what is mapped is being unmapped.
UndoInv == request.pc \in {"unmap", "unmap_unref"} => request.res \in Mapped

LEMMA UndoStart == MapInit => UndoInv
  BY MemoryFacts, Zenon DEF MapInit, UndoInv

LEMMA UndoStep == MapInv /\ UndoInv /\ [MapNext]_mapVars => UndoInv'
  <1> SUFFICES ASSUME MapInv, UndoInv, [MapNext]_mapVars, request'.pc \in {"unmap", "unmap_unref"}
               PROVE  request'.res \in Mapped'
    BY Zenon DEF UndoInv
  <1>s. ASSUME UNCHANGED resources PROVE Mapped' = Mapped
    BY <1>s, Zenon DEF Mapped, IsMapped, Unmapped
  <1>1. CASE UNCHANGED mapVars
    <2>1. UNCHANGED <<resources, request>>
      BY <1>1, Zenon DEF mapVars, gpuvars
    <2>2. QED BY <1>s, <2>1, Zenon DEF UndoInv
  <1>2. CASE \E r \in Res : UnmapBlob(r) \/ Unref(r)
    <2>1. PICK r \in Res : UnmapBlob(r) \/ Unref(r)
      BY <1>2, Zenon
    <2>2. /\ UNCHANGED resources
          /\ \/ request' = [pc |-> "unref", res |-> r]
             \/ r \in Mapped /\ (\/ request' = [pc |-> "unmap", res |-> r]
                                 \/ request' = [pc |-> "unmap_unref", res |-> r])
      BY <2>1, Zenon DEF UnmapBlob, Unref, gpuvars
    <2>3. QED BY <1>s, <2>2
  <1>3. CASE \E r \in Res, off \in Pages : MapBlob(r, off)
    BY <1>3 DEF MapBlob
  <1>4. CASE Place \/ Publish
    BY <1>4 DEF Place, Publish
  <1>5. CASE RendererMap
    <2>1. request.pc = "info" /\ request' = [request EXCEPT !.pc = "publish"]
      BY <1>5, Zenon DEF RendererMap, At
    <2>2. request = [pc |-> "info", res |-> request.res, off |-> request.off]
      BY <2>1, MemoryFacts, Zenon DEF MapInv, Handler, Mapping
    <2>3. QED BY <2>1, <2>2, Zenon
  <1>6. CASE Unmapping
    <2>1. request' = NoRequest \/ request' = [pc |-> "unref", res |-> request.res]
      BY <1>6, Zenon DEF Unmapping
    <2>2. QED BY <2>1, MemoryFacts
  <1>7. ASSUME \/ \E r \in Res : (\E size \in {0} \cup Sizes : Create(r, size)) \/ WithdrawRefused(r)
               \/ \E s \in Scanouts, r \in Res \cup {NoRes} : set_scanout(s, r)
               \/ MapRefused \/ RendererMapFails \/ PublishFails \/ Record
               \/ Unreferencing \/ activate_window \/ reset_window
        PROVE  FALSE
    <2>1. request' = NoRequest
      BY <1>7, Zenon DEF Create, WithdrawRefused, set_scanout, MapRefused, RendererMapFails, PublishFails, Record,
           Unreferencing, activate_window, reset_window, MapInv, Handler
    <2>2. QED BY <2>1, MemoryFacts, Zenon
  <1>8. QED BY <1>1, <1>2, <1>3, <1>4, <1>5, <1>6, <1>7, Zenon DEF MapNext

LEMMA QuotaProps == ASSUME MapInv, QuotaInv PROVE QuotaExact
  <1> SUFFICES ASSUME request = NoRequest
               PROVE  /\ mappings = Cardinality(Mapped) /\ used_bytes = Total(SizeOf, Mapped)
                      /\ limits[1] # 0 => used_bytes <= limits[1]
                      /\ limits[2] # 0 => mappings <= limits[2]
    BY BytesIsFold, Zenon DEF QuotaExact
  <1>1. ~Begun
    BY MemoryFacts, Zenon DEF Begun
  <1>2. QED BY <1>1, CountFacts DEF QuotaInv, Count, Bytes

LEMMA QuotaStep == MapInv /\ UndoInv /\ QuotaInv /\ [MapNext]_mapVars => QuotaInv'
  <1> SUFFICES ASSUME MapInv, UndoInv, QuotaInv, [MapNext]_mapVars PROVE QuotaInv'
    BY Zenon
  <1>c. /\ IsFiniteSet(Mapped) /\ Cardinality(Mapped) \in Nat /\ Total(SizeOf, Mapped) \in Nat
        /\ \A r \in Mapped : SizeOf[r] = resources[r].size /\ SizeOf[r] \in Nat
    BY CountFacts, Zenon
  <1>0. ASSUME UNCHANGED <<used_bytes, mappings, limits>>, Mapped' = Mapped,
               \A r \in Mapped : r \in DOMAIN resources' /\ resources'[r].size = resources[r].size,
               Begun' <=> Begun, Begun => Size' = Size
        PROVE  QuotaInv'
    <2>1. Count' = Count /\ Bytes' = Bytes
      BY <1>0, MappedKept, Zenon DEF Count, Bytes
    <2>2. QED BY <1>0, <2>1, QuotaKept, Zenon
  <1>s. ASSUME UNCHANGED resources
        PROVE  /\ Mapped' = Mapped
               /\ \A r \in Mapped : r \in DOMAIN resources' /\ resources'[r].size = resources[r].size
    BY <1>s, Zenon DEF Mapped, IsMapped, Unmapped
  <1>1. ASSUME NEW r \in Res, NEW size \in {0} \cup Sizes, Create(r, size) PROVE QuotaInv'
    <2>1. /\ request = NoRequest /\ request' = NoRequest /\ r \notin objs
          /\ UNCHANGED <<used_bytes, mappings, limits>>
          /\ resources' = [q \in DOMAIN resources \cup {r} |->
               IF q = r THEN [size |-> size, shmem_offset |-> Unmapped, placed |-> FALSE,
                              external |-> FALSE, scanouts |-> {}]
               ELSE resources[q]]
      BY <1>1, Zenon DEF Create, quota
    <2>2. r \notin DOMAIN resources
      BY <2>1, Zenon DEF MapInv, MapTypes
    <2>3. /\ DOMAIN resources' = DOMAIN resources \cup {r} /\ resources'[r].shmem_offset = Unmapped
          /\ \A q \in DOMAIN resources : resources'[q] = resources[q]
      BY <2>1, <2>2, Zenon
    <2>4. /\ Mapped' = Mapped
          /\ \A q \in Mapped : q \in DOMAIN resources' /\ resources'[q] = resources[q]
      BY <2>2, <2>3, Zenon DEF Mapped, IsMapped, Unmapped
    <2>5. ~Begun /\ ~Begun'
      BY <2>1, MemoryFacts, Zenon DEF Begun
    <2>6. QED BY <1>0, <2>1, <2>4, <2>5, ZenonT(40)
  <1>2. ASSUME NEW r \in Res, NEW off \in Pages, MapBlob(r, off) PROVE QuotaInv'
    <2>1. PICK n : n = resources[r].size
      BY Zenon
    <2>2. /\ request = NoRequest /\ r \in DOMAIN resources /\ UNCHANGED <<resources, limits>>
          /\ request' = [pc |-> "info", res |-> r, off |-> off] /\ Fits(n)
          /\ used_bytes' = used_bytes + n /\ mappings' = mappings + 1
      BY <1>2, <2>1, ZenonT(40) DEF MapBlob, gpuvars, try_map
    <2>3. ~Begun /\ Begun' /\ Size' = n /\ n \in Nat
      BY <2>1, <2>2, MemoryFacts, Zenon DEF Begun, Size, MapInv, MapTypes, Entry
    <2>4. PICK c \in Nat, b \in Nat : c = Cardinality(Mapped) /\ b = Total(SizeOf, Mapped)
      BY <1>c, Zenon
    <2>5. mappings = c /\ used_bytes = b
      BY <2>3, <2>4 DEF QuotaInv, Count, Bytes
    <2>6. Cardinality(Mapped)' = c /\ Total(SizeOf, Mapped)' = b
      BY <1>s, <2>2, <2>4, MappedKept, Zenon
    <2>7. Count' = c + 1 /\ Bytes' = b + n
      BY <2>3, <2>6, Zenon DEF Count, Bytes
    <2>8. limits \in Nat \X Nat /\ limits[1] \in Nat /\ limits[2] \in Nat
      BY Zenon DEF QuotaInv
    <2>9. /\ limits[1] # 0 => b + n <= limits[1]
          /\ limits[2] # 0 => c + 1 <= limits[2]
      <3>1. /\ limits[1] = 0 \/ b + n <= limits[1]
            /\ limits[2] = 0 \/ c < limits[2]
        BY <2>2, <2>5, Zenon DEF Fits
      <3>2. QED BY <2>8, <3>1
    <2>10. QED BY <2>2, <2>5, <2>7, <2>8, <2>9, Zenon DEF QuotaInv
  <1>3. ASSUME \E r \in Res : UnmapBlob(r) \/ Unref(r) \/ WithdrawRefused(r) PROVE QuotaInv'
    <2>1. UNCHANGED <<resources, limits, used_bytes, mappings>> /\ request = NoRequest
      BY <1>3, Zenon DEF UnmapBlob, Unref, WithdrawRefused, gpuvars, quota
    <2>2. request'.pc \in {"unmap", "unmap_unref", "unref", "idle"}
      <3>1. request' = NoRequest \/ \E r \in Res : \/ request' = [pc |-> "unmap", res |-> r]
                                                   \/ request' = [pc |-> "unmap_unref", res |-> r]
                                                   \/ request' = [pc |-> "unref", res |-> r]
        BY <1>3, <2>1, Zenon DEF UnmapBlob, Unref, WithdrawRefused
      <3>2. QED BY <3>1 DEF NoRequest
    <2>3. ~Begun /\ ~Begun'
      BY <2>1, <2>2, MemoryFacts, Zenon DEF Begun
    <2>4. QED BY <1>0, <1>s, <2>1, <2>3, Zenon
  <1>4. ASSUME NEW s \in Scanouts, NEW r \in Res \cup {NoRes}, set_scanout(s, r) PROVE QuotaInv'
    <2> DEFINE New(q) == (resources[q].scanouts \ (IF scanouts[s] = q THEN {s} ELSE {}))
                         \cup (IF r = q THEN {s} ELSE {})
    <2>1. /\ request = NoRequest /\ request' = NoRequest /\ UNCHANGED <<limits, used_bytes, mappings>>
          /\ resources' = [q \in DOMAIN resources |-> [resources[q] EXCEPT !.scanouts = New(q)]]
      BY <1>4, Zenon DEF set_scanout, quota
    <2> HIDE DEF New
    <2>2. DOMAIN resources' = DOMAIN resources
      BY <2>1, Zenon
    <2>3. ASSUME NEW q \in DOMAIN resources
          PROVE  /\ resources'[q].size = resources[q].size
                 /\ resources'[q].shmem_offset = resources[q].shmem_offset
      BY <2>1, Zenon DEF MapInv, MapTypes, Entry
    <2>4. /\ Mapped' = Mapped
          /\ \A q \in Mapped : q \in DOMAIN resources' /\ resources'[q].size = resources[q].size
      BY <2>2, <2>3, Zenon DEF Mapped, IsMapped, Unmapped
    <2>5. ~Begun /\ ~Begun'
      BY <2>1, MemoryFacts, Zenon DEF Begun
    <2>6. QED BY <1>0, <2>1, <2>4, <2>5, Zenon
  <1>5. CASE MapRefused \/ RendererMapFails \/ PublishFails
    <2>1. PICK n : n = Size
      BY Zenon
    <2>2. /\ request.pc \in {"info", "publish"} /\ request' = NoRequest /\ UNCHANGED <<resources, limits>>
          /\ release(n)
      BY <1>5, <2>1, Zenon DEF MapRefused, RendererMapFails, PublishFails, At, gpuvars
    <2>3. Begun /\ ~Begun' /\ n \in Nat
      BY <2>1, <2>2, MemoryFacts, MappingFacts, Zenon DEF Begun
    <2>4. PICK c \in Nat, b \in Nat : c = Cardinality(Mapped) /\ b = Total(SizeOf, Mapped)
      BY <1>c, Zenon
    <2>5. Cardinality(Mapped)' = c /\ Total(SizeOf, Mapped)' = b
      BY <1>s, <2>2, <2>4, MappedKept, Zenon
    <2>6. Count' = c /\ Bytes' = b /\ Count = c + 1 /\ Bytes = b + n
      BY <2>1, <2>3, <2>4, <2>5 DEF Count, Bytes
    <2>7. QED BY <2>2, <2>3, <2>6, QuotaReleased, Zenon
  <1>6. CASE Place \/ RendererMap \/ Publish
    <2>1. /\ request.pc \in {"info", "publish"} /\ UNCHANGED <<resources, limits, used_bytes, mappings>>
      BY <1>6, Zenon DEF Place, RendererMap, Publish, At, gpuvars, quota
    <2>2. request'.res = request.res /\ request'.pc \in {"publish", "record"}
      <3>1. CASE RendererMap
        <4>1. request.pc = "info" /\ request' = [request EXCEPT !.pc = "publish"]
          BY <3>1, Zenon DEF RendererMap, At
        <4>2. request = [pc |-> "info", res |-> request.res, off |-> request.off]
          BY <4>1, MemoryFacts, Zenon DEF MapInv, Handler, Mapping
        <4>3. QED BY <4>1, <4>2, Zenon
      <3>2. CASE Place
        BY <3>2, Zenon DEF Place
      <3>3. CASE Publish
        BY <3>3, Zenon DEF Publish
      <3>4. QED BY <1>6, <3>1, <3>2, <3>3, Zenon
    <2>3. Begun /\ Begun' /\ Size' = Size
      BY <2>1, <2>2, Zenon DEF Begun, Size
    <2>4. QED BY <1>0, <1>s, <2>1, <2>3, Zenon
  <1>7. CASE Record
    <2>1. PICK r, off, n, x : r = request.res /\ off = request.off /\ n = Size /\ x = request.placed
      BY Zenon
    <2>2. /\ request.pc = "record" /\ request' = NoRequest /\ UNCHANGED <<limits, used_bytes, mappings>>
          /\ resources' = [resources EXCEPT ![r] = Update(resources[r], off, x, ~x)]
      BY <1>7, <2>1, Zenon DEF Record, At, Update, quota
    <2>3. /\ r \in DOMAIN resources /\ off \in Pages /\ n \in Nat /\ ~IsMapped(r) /\ n = resources[r].size
      BY <2>1, <2>2, MappingFacts, Zenon DEF Size
    <2>4. x \in BOOLEAN /\ resources[r] \in Entry /\ off \in 0 .. WinSize /\ off # Unmapped
      <3>1. x \in BOOLEAN
        BY <2>1, <2>2, MemoryFacts, Zenon DEF MapInv, Handler, Mapping
      <3>2. QED BY <2>3, <3>1, GpuMapAssumption DEF Pages, Unmapped, MapInv, MapTypes
    <2>5. PICK y \in BOOLEAN : y = (~x)
      BY <2>4, Zenon
    <2>6. PICK e : e = Update(resources[r], off, x, y)
      BY Zenon
    <2>7. e.shmem_offset = off /\ e.size = n
      BY <2>3, <2>4, <2>6, EntryUpdate
    <2>8. resources' = [resources EXCEPT ![r] = e]
      BY <2>2, <2>5, <2>6, Zenon
    <2>9. Mapped' = Mapped \cup {r} /\ r \notin Mapped
      BY <2>3, <2>4, <2>7, <2>8, Zenon DEF Mapped, IsMapped, Unmapped
    <2>10. \A q \in Mapped' : SizeOf'[q] = IF q = r THEN n ELSE SizeOf[q]
      BY <2>3, <2>7, <2>8, <2>9, Zenon DEF SizeOf, Mapped
    <2>11. PICK w, S : w = SizeOf' /\ S = Mapped'
      BY Zenon
    <2>12. /\ S = Mapped \cup {r} /\ r \in S /\ S \ {r} = Mapped /\ IsFiniteSet(S) /\ w[r] = n
           /\ \A q \in S : w[q] \in Nat
           /\ \A q \in Mapped : w[q] = SizeOf[q]
      BY <1>c, <2>3, <2>9, <2>10, <2>11, FS_AddElement
    <2>13. Total(w, S) = n + Total(w, Mapped) /\ Total(w, Mapped) = Total(SizeOf, Mapped)
      BY <2>12, TotalLess, TotalWeights, SMTT(40)
    <2>14. Cardinality(S) = Cardinality(Mapped) + 1
      BY <1>c, <2>9, <2>12, FS_AddElement, Zenon
    <2>15. Begun /\ ~Begun'
      BY <2>2, MemoryFacts, Zenon DEF Begun
    <2>16. PICK c \in Nat, b \in Nat : c = Cardinality(Mapped) /\ b = Total(SizeOf, Mapped)
      BY <1>c, Zenon
    <2>17. Count = c + 1 /\ Bytes = b + n
      BY <2>1, <2>15, <2>16, Zenon DEF Count, Bytes
    <2>18. Count' = Cardinality(S) + 0 /\ Bytes' = Total(w, S) + 0
      BY <2>11, <2>15, Zenon DEF Count, Bytes
    <2>19. Count' = Count /\ Bytes' = Bytes
      BY <2>3, <2>13, <2>14, <2>16, <2>17, <2>18
    <2>20. QED BY <2>2, <2>19, QuotaKept, Zenon
  <1>8. CASE Unmapping
    <2>1. PICK r, n : r = request.res /\ n = Size
      BY Zenon
    <2>2. /\ request.pc \in {"unmap", "unmap_unref"} /\ UNCHANGED limits /\ release(n)
          /\ request' = NoRequest \/ request' = [pc |-> "unref", res |-> r]
          /\ resources' = [resources EXCEPT ![r] = Update(resources[r], Unmapped, FALSE, FALSE)]
      BY <1>8, <2>1, Zenon DEF Unmapping, Update
    <2>3. r \in DOMAIN resources /\ resources[r] \in Entry /\ n = resources[r].size /\ n \in Nat
      <3>1. r \in DOMAIN resources
        BY <2>1, <2>2, MemoryFacts, Zenon DEF MapInv, Handler
      <3>2. QED BY <2>1, <3>1, Zenon DEF MapInv, MapTypes, Entry, Size
    <2>4. PICK e : e = Update(resources[r], Unmapped, FALSE, FALSE)
      BY Zenon
    <2>5. e.shmem_offset = Unmapped
      <3>1. Unmapped \in 0 .. WinSize
        BY GpuMapAssumption DEF Unmapped
      <3>2. QED BY <2>3, <2>4, <3>1, EntryUpdate, Zenon
    <2>6. Mapped' = Mapped \ {r}
      BY <2>2, <2>3, <2>4, <2>5, Zenon DEF Mapped, IsMapped, Unmapped
    <2>7. \A q \in Mapped' : SizeOf'[q] = SizeOf[q]
      BY <2>2, <2>3, <2>6, ZenonT(40) DEF SizeOf, Mapped
    <2>8. r \in Mapped
      BY <2>1, <2>2, Zenon DEF UndoInv
    <2>9. PICK w, v, S : w = SizeOf /\ v = SizeOf' /\ S = Mapped
      BY Zenon
    <2>10. /\ Mapped' = S \ {r} /\ r \in S /\ IsFiniteSet(S) /\ w[r] = n
           /\ \A q \in S : w[q] \in Nat
           /\ \A q \in S \ {r} : v[q] = w[q]
      BY <1>c, <2>3, <2>6, <2>7, <2>8, <2>9, Zenon
    <2>11. /\ Total(w, S) = n + Total(w, S \ {r}) /\ Total(w, S \ {r}) \in Nat
           /\ Total(v, S \ {r}) = Total(w, S \ {r})
      BY <2>10, TotalLess, TotalWeights, ZenonT(40)
    <2>12. Cardinality(S \ {r}) = Cardinality(S) - 1 /\ Cardinality(S \ {r}) \in Nat
      BY <2>10, FS_RemoveElement, FS_CardinalityType, Zenon
    <2>13. ~Begun /\ ~Begun'
      <3>1. request'.pc \in {"idle", "unref"}
        BY <2>2 DEF NoRequest
      <3>2. QED BY <2>2, <3>1, Zenon DEF Begun
    <2>14. PICK c \in Nat, b \in Nat : c = Cardinality(S \ {r}) /\ b = Total(w, S \ {r})
      BY <2>11, <2>12, Zenon
    <2>15. Count' = c /\ Bytes' = b
      <3>1. Count' = Cardinality(S \ {r}) + 0 /\ Bytes' = Total(v, S \ {r}) + 0
        BY <2>9, <2>10, <2>13, Zenon DEF Count, Bytes
      <3>2. QED BY <2>11, <2>14, <3>1
    <2>16. Count = c + 1 /\ Bytes = b + n
      <3>1. Count = Cardinality(S) + 0 /\ Bytes = Total(w, S) + 0 /\ Cardinality(S) \in Nat
        BY <1>c, <2>9, <2>13, Zenon DEF Count, Bytes
      <3>2. QED BY <2>3, <2>11, <2>12, <2>14, <3>1
    <2>17. QED BY <2>2, <2>3, <2>15, <2>16, QuotaReleased, Zenon
  <1>9. CASE Unreferencing
    <2>1. PICK r : r = request.res
      BY Zenon
    <2>2. /\ request.pc = "unref" /\ request' = NoRequest /\ UNCHANGED <<limits, used_bytes, mappings>>
          /\ resources' = [q \in DOMAIN resources \ {r} |-> resources[q]]
      BY <1>9, <2>1, Zenon DEF Unreferencing, At, quota
    <2>3. ~IsMapped(r)
      <3>1. ~IsMapped(request.res)
        BY <2>2, MemoryFacts, Zenon DEF MapInv, Handler, Mapping
      <3>2. QED BY <2>1, <3>1, Zenon
    <2>4. /\ Mapped' = Mapped
          /\ \A q \in Mapped : q \in DOMAIN resources' /\ resources'[q].size = resources[q].size
      BY <2>2, <2>3, Zenon DEF Mapped, IsMapped, Unmapped
    <2>5. ~Begun /\ ~Begun'
      BY <2>2, MemoryFacts, Zenon DEF Begun
    <2>6. QED BY <1>0, <2>2, <2>4, <2>5, Zenon
  <1>10. CASE activate_window
    <2>1. UNCHANGED <<resources, limits, used_bytes, mappings, request>>
      BY <1>10, Zenon DEF activate_window, quota
    <2>2. (Begun' <=> Begun) /\ Size' = Size
      BY <2>1, Zenon DEF Begun, Size
    <2>3. QED BY <1>0, <1>s, <2>1, <2>2, Zenon
  <1>11. CASE reset_window
    <2>1. /\ DOMAIN resources' = {} /\ UNCHANGED limits /\ request' = NoRequest
          /\ used_bytes' = 0 /\ mappings' = 0
      BY <1>11 DEF reset_window
    <2>2. Mapped' = {} /\ ~Begun'
      BY <2>1, MemoryFacts, Zenon DEF Mapped, Begun
    <2>3. Count' = 0 /\ Bytes' = 0
      <3>1. Count' = Cardinality({}) + 0 /\ Bytes' = Total(SizeOf', {}) + 0
        BY <2>2, Zenon DEF Count, Bytes
      <3>2. QED BY <3>1, TotalEmpty, FS_EmptySet
    <2>4. limits \in Nat \X Nat /\ limits[1] \in Nat /\ limits[2] \in Nat
      BY Zenon DEF QuotaInv
    <2>5. QED BY <2>1, <2>3, <2>4 DEF QuotaInv
  <1>12. CASE UNCHANGED mapVars
    <2>1. UNCHANGED <<resources, limits, used_bytes, mappings, request>>
      BY <1>12, Zenon DEF mapVars, gpuvars, quota
    <2>2. (Begun' <=> Begun) /\ Size' = Size
      BY <2>1, Zenon DEF Begun, Size
    <2>3. QED BY <1>0, <1>s, <2>1, <2>2, Zenon
  <1>13. QED
    BY <1>1, <1>2, <1>3, <1>4, <1>5, <1>6, <1>7, <1>8, <1>9, <1>10, <1>11, <1>12, Zenon DEF MapNext

(***************************************************************************)
(* Whatever fails, neither the quota nor a memory slot is lost: try_map    *)
(* and release balance over every path of the handlers, no limit is ever   *)
(* exceeded, and MemorySlots hands out each number to one mapping at a     *)
(* time and no more of them than the window has pages, plus its own.       *)
(***************************************************************************)
THEOREM NothingIsLost == MapSpec => []NothingLeaks
  <1> DEFINE Inv == MapInv /\ SlotInv /\ BoundInv /\ UndoInv /\ QuotaInv
  <1>1. MapInit => Inv
    BY MapStart, SlotStart, BoundStart, UndoStart, QuotaStart, Zenon
  <1>2. Inv /\ [MapNext]_mapVars => Inv'
    BY MapStep, SlotStep, BoundStep, UndoStep, QuotaStep, Zenon
  <1>3. Inv => NothingLeaks
    BY QuotaProps, Zenon DEF NothingLeaks, SlotsConserved, SlotInv, SlotsAccounted, BoundInv
  <1> HIDE DEF Inv
  <1>4. QED
    BY <1>1, <1>2, <1>3, PTL DEF MapSpec

-----------------------------------------------------------------------------
(***************************************************************************)
(* NvPools: pools are backed, exact and apart, and a reset withdraws every *)
(* one of them, for every size of the aperture and every number of pools.  *)
(* The invariant says what each half-done request has changed so far, that *)
(* pools in the table share no address, and that a pool the reset has      *)
(* still to take away is on its list or in its hands.                      *)
(***************************************************************************)

Pool == [off : Nat, len : Nat, hva : Int, id : Nat]

\* Two pools that share no address of the aperture or of the process.
Apart(p, q) == /\ ~RangesOverlap(q.off, q.len, p.off, p.len)
               /\ ~RangesOverlap(q.hva, q.len, p.hva, p.len)

PoolTypes ==
    /\ pools \subseteq Pool /\ doomed \subseteq Pool
    /\ placed \in Nat /\ resetting \in BOOLEAN
    /\ holder \in {"free", "window", "vcpu"}

\* The pools of the table, and the one that is about to enter it.
TableApart ==
    /\ \A p \in pools : ShapeOk(p)
    /\ \A p, q \in pools : p # q => Apart(p, q)

\* What the request that holds the lock has done so far.
JobDone ==
    \/ holder = "free" /\ job = NoJob /\ mmaps = pools /\ aperture = pools
    \/ /\ holder = "window" /\ job.do = "place" /\ job.pool \in Pool
       /\ job = [do |-> "place", at |-> job.at, pool |-> job.pool]
       /\ ShapeOk(job.pool) /\ \A q \in pools : Apart(job.pool, q) /\ Apart(q, job.pool)
       /\ job.pool.id = placed /\ \A q \in pools \cup doomed : q.id < placed
       /\ aperture = pools
       /\ \/ job.at = "mmap" /\ mmaps = pools
          \/ job.at \in {"populate", "slot"} /\ mmaps = pools \cup {job.pool}
    \/ /\ holder \in {"window", "vcpu"} /\ job.do = "withdraw" /\ job.pool \in pools
       /\ job = [do |-> "withdraw", at |-> job.at, pool |-> job.pool]
       /\ mmaps = pools
       /\ \/ job.at = "slot" /\ aperture = pools
          \/ job.at = "mapping" /\ aperture = pools \ {job.pool}

\* Names are not used twice.
Named == \A p \in pools \cup doomed : p.id <= placed

\* The reset will get to every pool it found.
ResetReaches ==
    /\ resetting => \A p \in pools \cap doomed :
                      \/ [off |-> p.off, len |-> p.len] \in todo
                      \/ holder = "vcpu" /\ job.pool = p
    /\ ~resetting => pools \cap doomed = {} /\ holder # "vcpu"

PoolInv == PoolTypes /\ TableApart /\ JobDone /\ Named /\ ResetReaches

(***************************************************************************)
(* Pools apart share no unit.                                              *)
(***************************************************************************)
LEMMA ApartMeans ==
    ASSUME NEW p \in Pool, NEW q \in Pool, Apart(p, q)
    PROVE  GuestRange(p) \cap GuestRange(q) = {} /\ HostRange(p) \cap HostRange(q) = {}
  BY DEF Apart, RangesOverlap, GuestRange, HostRange, Units, Pool

LEMMA ApartSym ==
    ASSUME NEW p \in Pool, NEW q \in Pool, Apart(p, q) PROVE Apart(q, p)
  BY Zenon DEF Apart, RangesOverlap, Pool

LEMMA PoolsStart == PoolsInit => PoolInv
  <1> SUFFICES ASSUME PoolsInit PROVE PoolInv
    BY Zenon
  <1>1. JobDone
    BY Zenon DEF PoolsInit, JobDone
  <1>2. PoolTypes /\ TableApart /\ Named
    BY Zenon DEF PoolsInit, PoolTypes, TableApart, Named
  <1>3. ResetReaches
    BY Zenon DEF PoolsInit, ResetReaches
  <1>4. QED
    BY <1>1, <1>2, <1>3, Zenon DEF PoolInv

(***************************************************************************)
(* What the invariant says of the table is what the properties ask for.    *)
(***************************************************************************)
LEMMA PoolsProps == PoolInv => SlotBacked /\ PoolsExact /\ ResetWithdrawsPools
  <1> SUFFICES ASSUME PoolInv PROVE SlotBacked /\ PoolsExact /\ ResetWithdrawsPools
    BY Zenon
  <1>1. aperture \subseteq pools /\ pools \subseteq mmaps
    BY Zenon DEF PoolInv, JobDone
  <1>2. \A p, q \in aperture : p # q => GuestRange(p) \cap GuestRange(q) = {}
                                       /\ HostRange(p) \cap HostRange(q) = {}
    BY <1>1, ApartMeans, Zenon DEF PoolInv, PoolTypes, TableApart
  <1>3. \A p \in aperture : GuestRange(p) \subseteq 0 .. ApertureSize - 1
    BY <1>1, PoolsAssumption DEF PoolInv, PoolTypes, TableApart, ShapeOk, GuestRange, Units, Pool
  <1>4. holder = "free" => pools = mmaps /\ pools = aperture
    BY Zenon DEF PoolInv, JobDone
  <1>5. QED
    BY <1>1, <1>2, <1>3, <1>4, Zenon DEF SlotBacked, PoolsExact, ResetWithdrawsPools, PoolInv, ResetReaches

(***************************************************************************)
(* Every step of the window thread and of a reset preserves the invariant. *)
(***************************************************************************)
LEMMA PoolsStep == PoolInv /\ [PoolsNext]_poolVars => PoolInv'
  <1> SUFFICES ASSUME PoolInv, [PoolsNext]_poolVars PROVE PoolInv'
    BY Zenon
  <1>t. PoolTypes /\ TableApart /\ JobDone /\ Named /\ ResetReaches
    BY Zenon DEF PoolInv
  <1>1. CASE PlaceStart
    <2>1. PICK p \in Requests : check_pool(p) /\ job' = [do |-> "place", at |-> "mmap", pool |-> p]
      BY <1>1, Zenon DEF PlaceStart
    <2>2. /\ holder = "free" /\ holder' = "window" /\ placed' = placed + 1
          /\ UNCHANGED <<pools, mmaps, aperture, todo, doomed, resetting>>
      BY <1>1, Zenon DEF PlaceStart
    <2>3. p \in Pool /\ p.id = placed + 1
      BY <1>t, <2>1, PoolsAssumption DEF Requests, Pool, PoolTypes
    <2>4. PoolTypes' /\ TableApart'
      BY <1>t, <2>2 DEF PoolTypes, TableApart
    <2>5. Named' /\ \A q \in pools' \cup doomed' : q.id < placed'
      BY <1>t, <2>2 DEF Named, PoolTypes, Pool
    <2>6. \A q \in pools : Apart(p, q) /\ Apart(q, p)
      BY <1>t, <2>1, <2>3, ApartSym, Zenon DEF check_pool, Apart, PoolTypes
    <2>7. JobDone'
      <3>1. /\ job'.do = "place" /\ job'.at = "mmap" /\ job'.pool = p
            /\ job' = [do |-> "place", at |-> job'.at, pool |-> job'.pool]
        BY <2>1, Zenon
      <3>2. mmaps' = pools' /\ aperture' = pools' /\ ShapeOk(p)
        BY <1>t, <2>1, <2>2, Zenon DEF JobDone, check_pool
      <3>3. QED
        BY <2>2, <2>3, <2>5, <2>6, <3>1, <3>2, Zenon DEF JobDone
    <2>8. ResetReaches'
      BY <1>t, <2>2, Zenon DEF ResetReaches
    <2>9. QED
      BY <2>4, <2>5, <2>7, <2>8, Zenon DEF PoolInv
  <1>2. CASE PlaceMmap \/ PlacePopulate
    <2>1. /\ holder = "window" /\ job.do = "place" /\ UNCHANGED <<pools, aperture, todo, doomed, resetting, placed>>
      BY <1>2, <1>t DEF PlaceMmap, PlacePopulate, Placing, JobDone, NoJob
    <2>2. \/ /\ holder' = holder /\ job' = [job EXCEPT !.at = "populate"]
             /\ mmaps' = pools \cup {job.pool}
          \/ /\ holder' = holder /\ job' = [job EXCEPT !.at = "slot"]
             /\ mmaps' = pools \cup {job.pool}
          \/ holder' = "free" /\ job' = NoJob /\ mmaps' = pools
      <3>1. job.pool \notin pools
        BY <1>t, <2>1 DEF JobDone, PoolTypes, Pool
      <3>2. QED
        BY <1>2, <1>t, <2>1, <3>1, Zenon DEF PlaceMmap, PlacePopulate, Placing, GoOn, Unlock, JobDone
    <2>3. PoolTypes' /\ TableApart' /\ Named'
      BY <1>t, <2>1, <2>2, Zenon DEF PoolTypes, TableApart, Named
    <2>4. JobDone'
      BY <1>t, <2>1, <2>2, Zenon DEF JobDone
    <2>5. ResetReaches'
      BY <1>t, <2>1, <2>2, Zenon DEF ResetReaches
    <2>6. QED
      BY <2>3, <2>4, <2>5, Zenon DEF PoolInv
  <1>3. CASE PlaceSlot
    <2>1. /\ holder = "window" /\ job.do = "place" /\ holder' = "free" /\ job' = NoJob
          /\ mmaps = pools \cup {job.pool} /\ aperture = pools
          /\ UNCHANGED <<todo, doomed, resetting, placed>>
      BY <1>3, <1>t DEF PlaceSlot, Placing, Unlock, JobDone, NoJob
    <2>2. /\ job.pool \in Pool /\ ShapeOk(job.pool) /\ job.pool.id = placed
          /\ \A q \in pools : Apart(job.pool, q) /\ Apart(q, job.pool)
          /\ \A q \in pools \cup doomed : q.id < placed
      BY <1>t, <2>1, Zenon DEF JobDone
    <2>3. job.pool \notin pools \cup doomed
      BY <1>t, <2>2 DEF PoolTypes, Pool
    <2>4. /\ pools' \in {pools, pools \cup {job.pool}} /\ mmaps' = pools' /\ aperture' = pools'
      BY <1>3, <2>1, <2>3, Zenon DEF PlaceSlot
    <2>5. PoolTypes' /\ Named'
      BY <1>t, <2>1, <2>2, <2>4 DEF PoolTypes, Named, Pool
    <2>6. TableApart'
      BY <1>t, <2>2, <2>4, Zenon DEF TableApart
    <2>7. JobDone'
      BY <2>1, <2>4, Zenon DEF JobDone
    <2>8. ResetReaches'
      BY <1>t, <2>1, <2>3, <2>4, Zenon DEF ResetReaches
    <2>9. QED
      BY <2>5, <2>6, <2>7, <2>8, Zenon DEF PoolInv
  <1>4. CASE WindowWithdraws
    <2>1. /\ holder = "free" /\ holder' = "window"
          /\ \E p \in pools : job' = [do |-> "withdraw", at |-> "slot", pool |-> p]
          /\ UNCHANGED <<pools, mmaps, aperture, todo, doomed, resetting, placed>>
      BY <1>4, Zenon DEF WindowWithdraws, Withdraw
    <2>2. PoolTypes' /\ TableApart' /\ Named'
      BY <1>t, <2>1, Zenon DEF PoolTypes, TableApart, Named
    <2>3. JobDone'
      BY <1>t, <2>1 DEF JobDone
    <2>4. ResetReaches'
      BY <1>t, <2>1, Zenon DEF ResetReaches
    <2>5. QED
      BY <2>2, <2>3, <2>4, Zenon DEF PoolInv
  <1>5. CASE WithdrawSlot
    <2>1. /\ holder \in {"window", "vcpu"} /\ job.do = "withdraw" /\ job.pool \in pools
          /\ mmaps = pools /\ aperture = pools
          /\ UNCHANGED <<pools, mmaps, todo, resetting, placed>>
      BY <1>5, <1>t DEF WithdrawSlot, Withdrawing, JobDone, NoJob
    <2>2. \/ /\ aperture' = aperture \ {job.pool} /\ job' = [job EXCEPT !.at = "mapping"]
             /\ UNCHANGED <<holder, doomed>>
          \/ /\ holder' = "free" /\ job' = NoJob /\ UNCHANGED aperture
             /\ doomed' = IF holder = "vcpu" THEN doomed \ {job.pool} ELSE doomed
      BY <1>5, Zenon DEF WithdrawSlot, GoOn, Unlock
    <2>3. PoolTypes' /\ TableApart' /\ Named'
      BY <1>t, <2>1, <2>2, Zenon DEF PoolTypes, TableApart, Named
    <2>4. JobDone'
      BY <1>t, <2>1, <2>2, Zenon DEF JobDone
    <2>5. ResetReaches'
      BY <1>t, <2>1, <2>2, Zenon DEF ResetReaches, JobDone
    <2>6. QED
      BY <2>3, <2>4, <2>5, Zenon DEF PoolInv
  <1>6. CASE WithdrawMapping
    <2>1. /\ holder \in {"window", "vcpu"} /\ job.pool \in pools
          /\ mmaps = pools /\ aperture = pools \ {job.pool}
      BY <1>6, <1>t DEF WithdrawMapping, Withdrawing, JobDone, NoJob
    <2>2. /\ mmaps' = mmaps \ {job.pool} /\ pools' = pools \ {job.pool}
          /\ holder' = "free" /\ job' = NoJob
          /\ UNCHANGED <<aperture, todo, doomed, resetting, placed>>
      BY <1>6, Zenon DEF WithdrawMapping, Unlock
    <2>3. PoolTypes' /\ TableApart' /\ Named'
      BY <1>t, <2>2, Zenon DEF PoolTypes, TableApart, Named
    <2>4. JobDone'
      BY <2>1, <2>2, Zenon DEF JobDone
    <2>5. ResetReaches'
      BY <1>t, <2>1, <2>2, Zenon DEF ResetReaches
    <2>6. QED
      BY <2>3, <2>4, <2>5, Zenon DEF PoolInv
  <1>7. CASE WithdrawAll
    <2>1. /\ ~resetting /\ holder = "free" /\ resetting' = TRUE /\ doomed' = pools
          /\ todo' = {[off |-> p.off, len |-> p.len] : p \in pools}
          /\ UNCHANGED <<pools, mmaps, aperture, holder, job, placed>>
      BY <1>7, Zenon DEF WithdrawAll
    <2>2. PoolTypes' /\ TableApart' /\ Named'
      BY <1>t, <2>1, Zenon DEF PoolTypes, TableApart, Named
    <2>3. JobDone'
      BY <1>t, <2>1, Zenon DEF JobDone
    <2>4. ResetReaches'
      BY <2>1, Zenon DEF ResetReaches
    <2>5. QED
      BY <2>2, <2>3, <2>4, Zenon DEF PoolInv
  <1>8. CASE WithdrawNext
    <2>1. PICK e : /\ todo' = todo \ {e}
                   /\ \/ Withdraw("vcpu", e.off, e.len)
                      \/ /\ ~ \E p \in pools : p.off = e.off /\ p.len = e.len
                         /\ UNCHANGED <<holder, job>>
      BY <1>8, Zenon DEF WithdrawNext
    <2>2. /\ resetting /\ holder = "free"
          /\ UNCHANGED <<pools, mmaps, aperture, doomed, resetting, placed>>
      BY <1>8, Zenon DEF WithdrawNext
    <2>3. PoolTypes' /\ TableApart' /\ Named'
      BY <1>t, <2>1, <2>2, Zenon DEF PoolTypes, TableApart, Named, Withdraw
    <2>4. JobDone'
      BY <1>t, <2>1, <2>2 DEF JobDone, Withdraw
    <2>5. ResetReaches'
      <3>1. SUFFICES ASSUME NEW p \in pools \cap doomed,
                            [off |-> p.off, len |-> p.len] \notin todo'
                     PROVE  holder' = "vcpu" /\ job'.pool = p
        BY <2>2, Zenon DEF ResetReaches
      <3>2. [off |-> p.off, len |-> p.len] = e
        BY <1>t, <2>1, <2>2, <3>1, Zenon DEF ResetReaches
      <3>3. e.off = p.off /\ e.len = p.len
        BY <3>2, Zenon
      <3>4. PICK q \in pools : /\ q.off = e.off /\ q.len = e.len /\ holder' = "vcpu"
                               /\ job' = [do |-> "withdraw", at |-> "slot", pool |-> q]
        BY <2>1, <3>3, Zenon DEF Withdraw
      <3>5. q = p
        BY <1>t, <3>3, <3>4, PoolsAssumption DEF PoolTypes, TableApart, Apart, RangesOverlap, ShapeOk, Pool
      <3>6. QED
        BY <3>4, <3>5, Zenon
    <2>6. QED
      BY <2>3, <2>4, <2>5, Zenon DEF PoolInv
  <1>9. CASE WithdrawAllDone
    <2>1. /\ resetting /\ holder # "vcpu" /\ todo = {} /\ resetting' = FALSE
          /\ UNCHANGED <<pools, mmaps, aperture, holder, job, todo, doomed, placed>>
      BY <1>9, Zenon DEF WithdrawAllDone
    <2>2. PoolTypes' /\ TableApart' /\ Named'
      BY <1>t, <2>1, Zenon DEF PoolTypes, TableApart, Named
    <2>3. JobDone'
      BY <1>t, <2>1, Zenon DEF JobDone
    <2>4. ResetReaches'
      BY <1>t, <2>1, Zenon DEF ResetReaches
    <2>5. QED
      BY <2>2, <2>3, <2>4, Zenon DEF PoolInv
  <1>10. CASE UNCHANGED poolVars
    <2>1. PoolTypes' /\ TableApart' /\ Named'
      BY <1>t, <1>10, Zenon DEF poolVars, PoolTypes, TableApart, Named
    <2>2. JobDone'
      BY <1>t, <1>10, Zenon DEF poolVars, JobDone
    <2>3. ResetReaches'
      BY <1>t, <1>10, Zenon DEF poolVars, ResetReaches
    <2>4. QED
      BY <2>1, <2>2, <2>3, Zenon DEF PoolInv
  <1>11. QED
    BY <1>1, <1>2, <1>3, <1>4, <1>5, <1>6, <1>7, <1>8, <1>9, <1>10, Zenon DEF PoolsNext

\* PoolBytes is such a fold.
LEMMA BytesIsSum ==
    ASSUME NEW S, NEW U \in SUBSET S, IsFiniteSet(S), NEW w, w = [p \in S |-> p.len]
    PROVE  \E f : Sums(f, w, S) /\ PoolBytes(U) = f[U]
  <1>1. PICK f : Sums(f, w, S)
    BY SumsExist, Zenon
  <1>2. IsFiniteSet(U)
    BY FS_Subset, Zenon
  <1> DEFINE G(g) == g = [s \in SUBSET U |-> IF s = {} THEN 0
                            ELSE (CHOOSE x \in s : TRUE).len + g[s \ {CHOOSE x \in s : TRUE}]]
  <1>3. PoolBytes(U) = (CHOOSE g : G(g))[U]
    BY Zenon DEF PoolBytes, MapThenSumSet, MapThenFoldSet
  <1>4. ASSUME NEW g PROVE G(g) <=> Sums(g, w, U)
    <2>1. \A s \in SUBSET U : s # {} => (CHOOSE x \in s : TRUE).len = w[Pick(s)]
      <3> TAKE s \in SUBSET U
      <3> HAVE s # {}
      <3>1. Pick(s) \in S
        BY PickIn, Zenon
      <3>2. QED BY <3>1 DEF Pick
    <2>2. [s \in SUBSET U |-> IF s = {} THEN 0
                            ELSE (CHOOSE x \in s : TRUE).len + g[s \ {CHOOSE x \in s : TRUE}]]
          = [s \in SUBSET U |-> IF s = {} THEN 0 ELSE w[Pick(s)] + g[s \ {Pick(s)}]]
      BY <2>1 DEF Pick
    <2>3. QED BY <2>2, Zenon DEF Sums
  <1> HIDE DEF G
  <1>5. \E g : G(g)
    BY <1>2, <1>4, SumsExist, Zenon
  <1>6. PICK h : h = CHOOSE g : G(g)
    BY Zenon
  <1>7. Sums(h, w, U)
    BY <1>4, <1>5, <1>6, Zenon
  <1>8. h[U] = f[U]
    BY <1>1, <1>7, SumsAgree
  <1>9. QED BY <1>1, <1>3, <1>6, <1>8, Zenon

\* Pools that come and go one at a time.
LEMMA BytesFacts ==
    ASSUME NEW U, IsFiniteSet(U), U \subseteq Pool, NEW p \in Pool
    PROVE  /\ PoolBytes(U) \in Nat
           /\ p \notin U => PoolBytes(U \cup {p}) = PoolBytes(U) + p.len
           /\ p \in U => PoolBytes(U \ {p}) <= PoolBytes(U)
  <1>1. PICK S : S = U \cup {p}
    BY Zenon
  <1>2. IsFiniteSet(S)
    BY <1>1, FS_AddElement, Zenon
  <1>3. PICK w : w = [q \in S |-> q.len]
    BY Zenon
  <1>4. S \subseteq Pool
    BY <1>1, Zenon
  <1>5. w \in [S -> Nat] /\ w[p] = p.len
    BY <1>1, <1>3, <1>4, Zenon DEF Pool
  <1>6. PICK f : Sums(f, w, S) /\ PoolBytes(U) = f[U]
    BY <1>1, <1>2, <1>3, BytesIsSum, Zenon
  <1>7. \A V \in SUBSET S : PoolBytes(V) = f[V] /\ f[V] \in Nat
    <2> TAKE V \in SUBSET S
    <2>1. PICK g : Sums(g, w, S) /\ PoolBytes(V) = g[V]
      BY <1>2, <1>3, BytesIsSum, Zenon
    <2>2. g[V] = f[V]
      BY <1>2, <1>6, <2>1, SumsAgree, SMTT(40)
    <2>3. f[V] \in Nat
      BY <1>2, <1>5, <1>6, SumsNat, Zenon
    <2>4. QED BY <2>1, <2>2, <2>3, Zenon
  <1>8. ASSUME p \notin U PROVE PoolBytes(U \cup {p}) = PoolBytes(U) + p.len
    <2>1. f[S] = w[p] + f[S \ {p}]
      <3>1. p \in S
        BY <1>1, Zenon
      <3>2. QED BY <1>2, <1>5, <1>6, <3>1, SumsLess
    <2>2. S \ {p} = U
      BY <1>1, <1>8, Zenon
    <2>3. PICK a, b, c : a = f[S] /\ b = f[U] /\ c = p.len
      BY Zenon
    <2>4. PoolBytes(U \cup {p}) = a /\ PoolBytes(U) = b
      BY <1>1, <1>7, <2>3, Zenon
    <2>5. a = c + b
      BY <1>5, <2>1, <2>2, <2>3, Zenon
    <2>6. b \in Nat /\ c \in Nat
      BY <1>1, <1>7, <2>3, Zenon DEF Pool
    <2>7. QED BY <2>3, <2>4, <2>5, <2>6
  <1>9. ASSUME p \in U PROVE PoolBytes(U \ {p}) <= PoolBytes(U)
    <2>1. U \in SUBSET S /\ U \ {p} \in SUBSET S
      BY <1>1, Zenon
    <2>2. f[U] = w[p] + f[U \ {p}]
      BY <1>2, <1>5, <1>6, <1>9, <2>1, SumsLess
    <2>3. PICK a, b, c : a = f[U] /\ b = f[U \ {p}] /\ c = w[p]
      BY Zenon
    <2>4. PoolBytes(U) = a /\ PoolBytes(U \ {p}) = b /\ b \in Nat
      BY <1>7, <2>1, <2>3, Zenon
    <2>5. a = c + b /\ c \in Nat
      BY <1>1, <1>5, <2>2, <2>3, Zenon
    <2>6. QED BY <2>4, <2>5
  <1>10. QED BY <1>1, <1>7, <1>8, <1>9, Zenon

\* What check_pool counted still holds when the pool enters the table.
PoolLimits ==
    /\ IsFiniteSet(pools) /\ Cardinality(pools) <= MaxPools /\ PoolBytes(pools) <= MaxPoolBytes
    /\ holder = "window" /\ job.do = "place" =>
         Cardinality(pools) < MaxPools /\ PoolBytes(pools) + job.pool.len <= MaxPoolBytes

LEMMA LimitsStart == PoolsInit => PoolLimits
  <1> SUFFICES ASSUME PoolsInit PROVE PoolLimits
    BY Zenon
  <1>1. IsFiniteSet({}) /\ Cardinality({}) = 0
    BY FS_EmptySet, Zenon
  <1>2. PoolBytes({}) = 0
    <2>1. PICK w : w = [p \in {} |-> p.len]
      BY Zenon
    <2>2. PICK f : Sums(f, w, {}) /\ PoolBytes({}) = f[{}]
      BY <1>1, <2>1, BytesIsSum, Zenon
    <2>3. f[{}] = 0
      BY <2>2, SumsAt, Zenon
    <2>4. QED BY <2>2, <2>3, Zenon
  <1>3. MaxPools \in Nat /\ MaxPoolBytes \in Nat
    BY PoolsAssumption, Zenon
  <1>4. QED BY <1>1, <1>2, <1>3 DEF PoolsInit, PoolLimits

LEMMA LimitsStep == PoolInv /\ PoolLimits /\ [PoolsNext]_poolVars => PoolLimits'
  <1> SUFFICES ASSUME PoolInv, PoolLimits, [PoolsNext]_poolVars PROVE PoolLimits'
    BY Zenon
  <1>1. /\ IsFiniteSet(pools) /\ pools \subseteq Pool /\ Cardinality(pools) \in Nat
        /\ Cardinality(pools) <= MaxPools /\ PoolBytes(pools) <= MaxPoolBytes
    BY FS_CardinalityType, Zenon DEF PoolLimits, PoolInv, PoolTypes
  <1>2. MaxPools \in Nat /\ MaxPoolBytes \in Nat
    BY PoolsAssumption, Zenon
  <1>3. CASE PlaceStart
    <2>1. PICK p : check_pool(p) /\ job' = [do |-> "place", at |-> "mmap", pool |-> p]
      BY <1>3, Zenon DEF PlaceStart
    <2>2. job'.pool = p /\ pools' = pools
      BY <1>3, <2>1, Zenon DEF PlaceStart
    <2>3. Cardinality(pools) < MaxPools /\ PoolBytes(pools) + p.len <= MaxPoolBytes
      BY <2>1, Zenon DEF check_pool
    <2>4. QED BY <1>1, <2>2, <2>3, Zenon DEF PoolLimits
  <1>4. CASE /\ pools' = pools
             /\ holder' = "window" /\ job'.do = "place" =>
                  holder = "window" /\ job.do = "place" /\ job'.pool = job.pool
    BY <1>4, Zenon DEF PoolLimits
  <1>5. CASE PlaceSlot
    <2>1. /\ holder = "window" /\ job.do = "place" /\ job.pool \in Pool
          /\ job.pool.id = placed /\ \A q \in pools : q.id < placed
      BY <1>5 DEF PlaceSlot, Placing, PoolInv, JobDone, NoJob
    <2>2. holder' = "free"
      BY <1>5, Zenon DEF PlaceSlot, Unlock
    <2>3. PICK p \in Pool : p = job.pool
      BY <2>1, Zenon
    <2>4. p \notin pools
      BY <1>1, <2>1, <2>3 DEF PoolInv, PoolTypes, Pool
    <2>5. Cardinality(pools) < MaxPools /\ PoolBytes(pools) + p.len <= MaxPoolBytes
      BY <2>1, <2>3, Zenon DEF PoolLimits
    <2>6. pools' = pools \/ pools' = pools \cup {p}
      BY <1>5, <2>3, Zenon DEF PlaceSlot
    <2>7. CASE pools' = pools
      BY <1>1, <2>2, <2>7, Zenon DEF PoolLimits
    <2>8. CASE pools' = pools \cup {p}
      <3>1. IsFiniteSet(pools \cup {p}) /\ Cardinality(pools \cup {p}) = Cardinality(pools) + 1
        BY <1>1, <2>4, FS_AddElement, Zenon
      <3>2. PoolBytes(pools \cup {p}) = PoolBytes(pools) + p.len
        BY <1>1, <2>4, BytesFacts, Zenon
      <3>3. QED BY <1>1, <1>2, <2>2, <2>5, <2>8, <3>1, <3>2 DEF PoolLimits
    <2>9. QED BY <2>6, <2>7, <2>8, Zenon
  <1>6. CASE WithdrawMapping
    <2>1. PICK p : p = job.pool
      BY Zenon
    <2>2. pools' = pools \ {p} /\ holder' = "free" /\ p \in pools
      BY <1>6, <2>1 DEF WithdrawMapping, Withdrawing, Unlock, PoolInv, JobDone, NoJob
    <2>3. IsFiniteSet(pools \ {p}) /\ Cardinality(pools \ {p}) = Cardinality(pools) - 1
      BY <1>1, <2>2, FS_RemoveElement, Zenon
    <2>4. /\ PoolBytes(pools \ {p}) <= PoolBytes(pools) /\ PoolBytes(pools) \in Nat
          /\ PoolBytes(pools \ {p}) \in Nat
      <3>1. p \in Pool
        BY <1>1, <2>2, Zenon
      <3>2. IsFiniteSet(pools \ {p}) /\ pools \ {p} \subseteq Pool
        BY <1>1, <2>3, Zenon
      <3>3. QED BY <1>1, <2>2, <3>1, <3>2, BytesFacts, Zenon
    <2>5. QED BY <1>1, <1>2, <2>2, <2>3, <2>4 DEF PoolLimits
  <1>7. ASSUME PlaceMmap \/ PlacePopulate
        PROVE  /\ pools' = pools
               /\ holder' = "window" /\ job'.do = "place" =>
                    holder = "window" /\ job.do = "place" /\ job'.pool = job.pool
    <2>1. holder = "window" /\ job.do = "place" /\ pools' = pools
      BY <1>7 DEF PlaceMmap, PlacePopulate, Placing, PoolInv, JobDone, NoJob
    <2>2. job = [do |-> "place", at |-> job.at, pool |-> job.pool]
      BY <2>1, Zenon DEF PoolInv, JobDone, NoJob
    <2>3. job'.pool = job.pool \/ holder' = "free"
      BY <1>7, <2>2, Zenon DEF PlaceMmap, PlacePopulate, GoOn, Unlock
    <2>4. QED BY <2>1, <2>3, Zenon
  <1>8. ASSUME WindowWithdraws \/ WithdrawSlot \/ WithdrawAll \/ WithdrawNext \/ WithdrawAllDone
        PROVE  /\ pools' = pools
               /\ holder' = "window" /\ job'.do = "place" =>
                    holder = "window" /\ job.do = "place" /\ job'.pool = job.pool
    <2>1. pools' = pools
      BY <1>8, ZenonT(40) DEF WindowWithdraws, WithdrawSlot, WithdrawAll, WithdrawNext, WithdrawAllDone
    <2>2. CASE WindowWithdraws
      BY <2>1, <2>2 DEF WindowWithdraws, Withdraw
    <2>3. CASE WithdrawSlot
      <3>1. job.do = "withdraw"
        BY <2>3, Zenon DEF WithdrawSlot, Withdrawing
      <3>2. job = [do |-> "withdraw", at |-> job.at, pool |-> job.pool]
        BY <3>1 DEF PoolInv, JobDone, NoJob
      <3>3. job'.do = "withdraw" \/ holder' = "free"
        BY <2>3, <3>2 DEF WithdrawSlot, GoOn, Unlock
      <3>4. QED BY <2>1, <3>3, Zenon
    <2>4. CASE WithdrawAll \/ WithdrawAllDone
      BY <2>1, <2>4, Zenon DEF WithdrawAll, WithdrawAllDone
    <2>5. CASE WithdrawNext
      <3>1. (holder' = "vcpu" \/ UNCHANGED <<holder, job>>) /\ holder = "free"
        BY <2>5, Zenon DEF WithdrawNext, Withdraw
      <3>2. QED BY <2>1, <3>1, Zenon
    <2>6. QED BY <1>8, <2>2, <2>3, <2>4, <2>5, Zenon
  <1>9. CASE UNCHANGED poolVars
    BY <1>9, Zenon DEF poolVars, PoolLimits
  <1>10. QED
    BY <1>3, <1>4, <1>5, <1>6, <1>7, <1>8, <1>9, Zenon DEF PoolsNext

LEMMA LimitsKept == PoolInv /\ PoolLimits => WithinLimits
  <1> SUFFICES ASSUME PoolInv, PoolLimits PROVE WithinLimits
    BY Zenon
  <1>1. /\ IsFiniteSet(pools) /\ pools \subseteq Pool /\ Cardinality(pools) \in Nat
        /\ Cardinality(pools) <= MaxPools /\ PoolBytes(pools) <= MaxPoolBytes
    BY FS_CardinalityType, Zenon DEF PoolLimits, PoolInv, PoolTypes
  <1>2. MaxPools \in Nat /\ MaxPoolBytes \in Nat
    BY PoolsAssumption, Zenon
  <1>3. CASE aperture = pools
    BY <1>1, <1>3, Zenon DEF WithinLimits
  <1>4. CASE aperture # pools
    <2>1. PICK p \in pools : aperture = pools \ {p}
      BY <1>4, Zenon DEF PoolInv, JobDone
    <2>2. IsFiniteSet(pools \ {p}) /\ Cardinality(pools \ {p}) = Cardinality(pools) - 1
      BY <1>1, <2>1, FS_RemoveElement, Zenon
    <2>3. /\ PoolBytes(pools \ {p}) <= PoolBytes(pools) /\ PoolBytes(pools) \in Nat
          /\ PoolBytes(pools \ {p}) \in Nat
      <3>1. p \in Pool
        BY <1>1, <2>1, Zenon
      <3>2. IsFiniteSet(pools \ {p}) /\ pools \ {p} \subseteq Pool
        BY <1>1, <2>2, Zenon
      <3>3. QED BY <1>1, <2>1, <3>1, <3>2, BytesFacts, Zenon
    <2>4. QED BY <1>1, <1>2, <2>1, <2>2, <2>3 DEF WithinLimits
  <1>5. QED BY <1>3, <1>4, Zenon

(***************************************************************************)
(* At every step of every thread a slot of the guest lies over a mapping,  *)
(* no two pools share an address, table, mappings and slots agree whenever *)
(* the lock is free, and the pools stay within what check_pool allows in   *)
(* number and in bytes (check_pool, place_pool, withdraw_pool).            *)
(***************************************************************************)
THEOREM PoolsAreSound == PoolsSpec => []PoolsSound
  <1>1. PoolInv /\ PoolLimits => PoolsSound
    BY PoolsProps, LimitsKept, Zenon DEF PoolsSound
  <1>2. QED BY <1>1, PoolsStart, PoolsStep, LimitsStart, LimitsStep, PTL DEF PoolsSpec

(***************************************************************************)
(* A reset withdraws every pool it found in place, whatever the window     *)
(* thread places and withdraws meanwhile, but for those KVM refuses to let *)
(* go (withdraw_all_pools).                                                *)
(***************************************************************************)
THEOREM ResetWithdrawsAll == PoolsSpec => []ResetWithdrawsPools
  BY PoolsStart, PoolsStep, PoolsProps, PTL DEF PoolsSpec
=============================================================================
