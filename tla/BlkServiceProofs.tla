-------------------------- MODULE BlkServiceProofs --------------------------
(***************************************************************************)
(* The queue of a virtio-blk device implements BlkService, for every       *)
(* number of descriptors and slots, every ring size and index range, both  *)
(* engines and any number of retries and resets.                           *)
(*                                                                         *)
(* HeldInv says where the chains are that the driver has given away: each  *)
(* in one place at most, be it an entry of the available ring the worker   *)
(* has not taken, a slot of the current generation, or an entry of the     *)
(* used ring the driver has not reaped.  As there are no more chains than  *)
(* ring entries, an entry is never overwritten before it is read.          *)
(***************************************************************************)
EXTENDS BlkQueueProofs

(* Remainders, for a modulus that is not a number but a constant *)

LEMMA Product ==
  ASSUME NEW a \in Int, NEW b \in Int, a >= 1, b >= 1
  PROVE  a * b >= a
  OBVIOUS

LEMMA ModFacts ==
  ASSUME NEW q \in Nat, q > 0, NEW x \in Int
  PROVE  x % q \in 0 .. q - 1 /\ \E d \in Int : x = q * d + (x % q)
  <1>1. x % q \in 0 .. q - 1
    OBVIOUS
  <1>2. \E d \in Int : x = q * d + (x % q)
    BY Z3T(30)
  <1>3. QED BY <1>1, <1>2, Zenon

LEMMA Differ ==
  ASSUME NEW q \in Int, NEW s \in Int, NEW r \in Int, NEW d \in Int, NEW e \in Int, NEW x \in Int,
         x = q * e + s, x = q * d + r
  PROVE  q * (d - e) = s - r /\ q * (e - d) = r - s
  OBVIOUS

LEMMA ModUnique ==
  ASSUME NEW q \in Nat, q > 0, NEW x \in Int, NEW d \in Int, NEW r \in 0 .. q - 1, x = q * d + r
  PROVE  x % q = r
  <1>1. PICK e \in Int : x = q * e + (x % q)
    BY ModFacts, Zenon
  <1>2. PICK s \in 0 .. q - 1 : s = x % q
    BY ModFacts, Zenon
  <1>3. q * (d - e) = s - r /\ q * (e - d) = r - s
    BY <1>1, <1>2, Differ
  <1>4. CASE d - e >= 1
    BY <1>2, <1>3, <1>4, Product
  <1>5. CASE e - d >= 1
    BY <1>2, <1>3, <1>5, Product
  <1>6. CASE d = e
    BY <1>1, <1>6
  <1>7. QED BY <1>4, <1>5, <1>6

\* Congruent numbers less than the modulus apart are the same.
LEMMA ModApart ==
  ASSUME NEW q \in Nat, q > 0, NEW x \in Int, NEW y \in Int, x % q = y % q, x - y < q, y - x < q
  PROVE  x = y
  <1>1. PICK d \in Int : x = q * d + (x % q)
    BY ModFacts, Zenon
  <1>2. PICK e \in Int : y = q * e + (y % q)
    BY ModFacts, Zenon
  <1>3. PICK r \in 0 .. q - 1 : r = x % q
    BY ModFacts, Zenon
  <1>4. q * (d - e) = x - y /\ q * (e - d) = y - x
    <2>1. x = q * d + r /\ y = q * e + r
      BY <1>1, <1>2, <1>3, Zenon
    <2>2. QED BY <2>1
  <1>5. CASE d - e >= 1
    BY <1>4, <1>5, Product
  <1>6. CASE e - d >= 1
    BY <1>4, <1>6, Product
  <1>7. CASE d = e
    BY <1>1, <1>2, <1>7, Zenon
  <1>8. QED BY <1>5, <1>6, <1>7

\* Taking away a multiple changes nothing.
LEMMA ModWrap ==
  ASSUME NEW q \in Nat, q > 0, NEW x \in Int, NEW m \in Nat, m % q = 0
  PROVE  (x - m) % q = x % q
  <1>1. PICK d \in Int : x = q * d + (x % q)
    BY ModFacts, Zenon
  <1>2. PICK e \in Int : m = q * e + (m % q)
    BY ModFacts
  <1>3. PICK r \in 0 .. q - 1 : r = x % q
    BY ModFacts, Zenon
  <1>4. x - m = q * (d - e) + r
    BY <1>1, <1>2, <1>3
  <1>5. x - m \in Int /\ d - e \in Int
    OBVIOUS
  <1>6. (x - m) % q = r
    BY <1>4, <1>5, ModUnique, Zenon
  <1>7. QED BY <1>3, <1>6, Zenon

-----------------------------------------------------------------------------
(* The entries of a ring *)

\* Going on along the ring, and what is left in between.
LEMMA Onward ==
    ASSUME NEW a \in Index, NEW k \in Nat, k + 1 < IdxMod
    PROVE  wrapping_add(a, k) \in Index /\ wrapping_add(wrapping_add(a, 1), k) = wrapping_add(a, k + 1)
BY IdxModAssumption DEF Index, wrapping_add

LEMMA OneLess ==
    ASSUME NEW a \in Index, NEW b \in Index, b # a
    PROVE  wrapping_sub(b, a) > 0 /\ wrapping_sub(b, wrapping_add(a, 1)) = wrapping_sub(b, a) - 1
BY IdxModAssumption DEF Index, wrapping_add, wrapping_sub

\* Entries fewer than the ring's size apart do not share a place in it.
LEMMA PlacesApart ==
    ASSUME NEW a \in Index, NEW j \in 0 .. QSize - 1, NEW k \in 0 .. QSize - 1,
           wrapping_add(a, j) % QSize = wrapping_add(a, k) % QSize
    PROVE  j = k
<1>1. QSize \in Nat /\ QSize > 0 /\ IdxMod \in Nat /\ IdxMod % QSize = 0 /\ QSize < IdxMod
  BY BlkQueueAssumption, RingAssumption, IdxModAssumption
<1>2. ASSUME NEW i \in 0 .. QSize - 1
      PROVE  wrapping_add(a, i) % QSize = (a + i) % QSize
  <2>1. PICK x \in Int : x = a + i
    BY <1>1 DEF Index
  <2>2. (x - IdxMod) % QSize = x % QSize
    BY <1>1, ModWrap, Zenon
  <2>3. CASE a + i >= IdxMod
    <3>1. wrapping_add(a, i) = a + (i - IdxMod)
      BY <2>3, Zenon DEF wrapping_add
    <3>2. a + (i - IdxMod) = x - IdxMod
      BY <1>1, <2>1, IdxModAssumption DEF Index
    <3> QED BY <2>1, <2>2, <3>1, <3>2, Zenon
  <2>4. CASE ~(a + i >= IdxMod)
    BY <2>4, Zenon DEF wrapping_add
  <2> QED BY <2>3, <2>4, Zenon
<1>3. (a + j) % QSize = (a + k) % QSize
  BY <1>2, Zenon
<1>4. a + j \in Int /\ a + k \in Int /\ (a + j) - (a + k) < QSize /\ (a + k) - (a + j) < QSize
  BY <1>1, IdxModAssumption DEF Index
<1>5. a + j = a + k
  BY <1>1, <1>3, <1>4, ModApart, Zenon
<1> QED BY <1>1, <1>5, IdxModAssumption DEF Index

\* The entries of a ring from an index on.
Entries(r, a, n) == [k \in 0 .. n - 1 |-> r[wrapping_add(a, k) % QSize]]

Writes(r, i, h, s) == s = [r EXCEPT ![i] = h]

LEMMA EntryAdded ==
    ASSUME NEW a \in Index, NEW n \in 0 .. QSize - 1, NEW h, NEW r \in [0 .. QSize - 1 -> Heads \cup {NoHead}],
           NEW s, Writes(r, wrapping_add(a, n) % QSize, h, s)
    PROVE  /\ DOMAIN Entries(s, a, n + 1) = 0 .. n
           /\ Entries(s, a, n + 1)[n] = h
           /\ \A k \in 0 .. n - 1 : Entries(s, a, n + 1)[k] = Entries(r, a, n)[k]
<1>1. QSize \in Nat /\ QSize > 0 /\ QSize < IdxMod /\ IdxMod \in Nat /\ n \in Nat
  BY BlkQueueAssumption, RingAssumption, IdxModAssumption
<1>2. ASSUME NEW k \in 0 .. n
      PROVE  wrapping_add(a, k) % QSize \in 0 .. QSize - 1
  <2>1. wrapping_add(a, k) \in Index
    BY <1>1 DEF Index, wrapping_add
  <2> QED BY <2>1, RingEntry, Zenon
<1>0. s = [r EXCEPT ![wrapping_add(a, n) % QSize] = h]
  BY Zenon DEF Writes
<1>3. s[wrapping_add(a, n) % QSize] = h
  BY <1>0, <1>1, <1>2
<1>4. ASSUME NEW k \in 0 .. n - 1
      PROVE  s[wrapping_add(a, k) % QSize] = r[wrapping_add(a, k) % QSize]
  <2>1. k \in 0 .. QSize - 1 /\ k # n /\ k \in 0 .. n
    BY <1>1
  <2>2. wrapping_add(a, k) % QSize # wrapping_add(a, n) % QSize
    BY <2>1, PlacesApart, Zenon
  <2> QED BY <1>0, <1>2, <2>1, <2>2, Zenon
<1>5. n + 1 - 1 = n /\ n \in 0 .. n /\ \A k \in 0 .. n - 1 : k \in 0 .. n
  BY <1>1
<1>6. DOMAIN Entries(s, a, n + 1) = 0 .. n /\ \A k \in 0 .. n : Entries(s, a, n + 1)[k] = s[wrapping_add(a, k) % QSize]
  BY <1>5 DEF Entries
<1>7. \A k \in 0 .. n - 1 : Entries(r, a, n)[k] = r[wrapping_add(a, k) % QSize]
  BY Zenon DEF Entries
<1> QED BY <1>3, <1>4, <1>5, <1>6, <1>7, Zenon

LEMMA EntryTaken ==
    ASSUME NEW a \in Index, NEW n \in 1 .. IdxMod - 1, NEW r
    PROVE  /\ Entries(r, a, n)[0] = r[a % QSize]
           /\ DOMAIN Entries(r, a, n) = 0 .. n - 1
           /\ DOMAIN Entries(r, wrapping_add(a, 1), n - 1) = 0 .. n - 2
           /\ \A k \in 0 .. n - 2 : Entries(r, wrapping_add(a, 1), n - 1)[k] = Entries(r, a, n)[k + 1]
<1>1. wrapping_add(a, 0) = a /\ 0 \in 0 .. n - 1 /\ n - 1 - 1 = n - 2
  BY IdxModAssumption DEF Index, wrapping_add
<1>2. \A k \in 0 .. n - 2 : k + 1 \in 0 .. n - 1 /\ wrapping_add(wrapping_add(a, 1), k) = wrapping_add(a, k + 1)
  BY Onward, IdxModAssumption
<1> QED BY <1>1, <1>2, Zenon DEF Entries

-----------------------------------------------------------------------------
(* Where the chains are *)

\* Every chain in the available entries A, parked in S or in the used entries U
\* is one the driver has given away, and is nowhere twice.
Held(A, S, U, own) ==
    /\ \A i \in DOMAIN A : A[i] \in own /\ \A j \in DOMAIN A : A[j] = A[i] => j = i
    /\ \A t \in DOMAIN S : S[t] \in own /\ \A u \in DOMAIN S : S[u] = S[t] => u = t
    /\ \A k \in DOMAIN U : U[k] \in own /\ \A l \in DOMAIN U : U[l] = U[k] => l = k
    /\ \A i \in DOMAIN A : (\A t \in DOMAIN S : A[i] # S[t]) /\ (\A k \in DOMAIN U : A[i] # U[k])
    /\ \A t \in DOMAIN S, k \in DOMAIN U : S[t] # U[k]

\* B is A without its first entry; V is U with h after its last.
Rest(A, B, n) ==
    /\ n \in Nat /\ n > 0 /\ DOMAIN A = 0 .. n - 1 /\ DOMAIN B = 0 .. n - 2
    /\ \A k \in 0 .. n - 2 : B[k] = A[k + 1]

Grown(U, V, n, h) ==
    /\ n \in Nat /\ DOMAIN U = 0 .. n - 1 /\ DOMAIN V = 0 .. n /\ V[n] = h
    /\ \A k \in 0 .. n - 1 : V[k] = U[k]

LEMMA RestFacts ==
    ASSUME NEW A, NEW B, NEW n, Rest(A, B, n)
    PROVE  /\ 0 \in DOMAIN A
           /\ \A k \in DOMAIN B : k + 1 \in DOMAIN A /\ k + 1 # 0 /\ B[k] = A[k + 1]
           /\ \A k, l \in DOMAIN B : k + 1 = l + 1 => k = l
BY DEF Rest

LEMMA GrownFacts ==
    ASSUME NEW U, NEW V, NEW n, NEW h, Grown(U, V, n, h)
    PROVE  \A k \in DOMAIN V : (k = n /\ V[k] = h) \/ (k \in DOMAIN U /\ k # n /\ V[k] = U[k])
<1>1. ASSUME n \in Nat, NEW k \in 0 .. n PROVE k = n \/ (k \in 0 .. n - 1 /\ k # n)
  BY <1>1
<1> QED BY <1>1, Zenon DEF Grown

LEMMA HeldPost ==
    ASSUME NEW A, NEW B, NEW S, NEW U, NEW own, NEW n, NEW h,
           Held(A, S, U, own), Grown(A, B, n, h), h \notin own
    PROVE  Held(B, S, U, own \cup {h})
<1>a. \A i \in DOMAIN A : A[i] \in own /\ \A j \in DOMAIN A : A[j] = A[i] => j = i
  BY Zenon DEF Held
<1>b. \A x \in DOMAIN S : S[x] \in own /\ \A y \in DOMAIN S : S[y] = S[x] => y = x
  BY Zenon DEF Held
<1>c. \A k \in DOMAIN U : U[k] \in own /\ \A l \in DOMAIN U : U[l] = U[k] => l = k
  BY Zenon DEF Held
<1>d. \A i \in DOMAIN A : (\A x \in DOMAIN S : A[i] # S[x]) /\ (\A k \in DOMAIN U : A[i] # U[k])
  BY Zenon DEF Held
<1>e. \A x \in DOMAIN S, k \in DOMAIN U : S[x] # U[k]
  BY Zenon DEF Held
<1>1. \A k \in DOMAIN B : (k = n /\ B[k] = h) \/ (k \in DOMAIN A /\ k # n /\ B[k] = A[k])
  BY GrownFacts
<1>2. \A i \in DOMAIN B : B[i] \in (own \cup {h}) /\ \A j \in DOMAIN B : B[j] = B[i] => j = i
  BY <1>a, <1>1
<1>3. \A x \in DOMAIN S : S[x] \in (own \cup {h}) /\ \A y \in DOMAIN S : S[y] = S[x] => y = x
  BY <1>b, Zenon
<1>4. \A k \in DOMAIN U : U[k] \in (own \cup {h}) /\ \A l \in DOMAIN U : U[l] = U[k] => l = k
  BY <1>c, Zenon
<1>5. \A i \in DOMAIN B : (\A x \in DOMAIN S : B[i] # S[x]) /\ (\A k \in DOMAIN U : B[i] # U[k])
  BY <1>b, <1>c, <1>d, <1>1, ZenonT(40)
<1> QED BY <1>2, <1>3, <1>4, <1>5, <1>e, Zenon DEF Held

LEMMA HeldIssue ==
    ASSUME NEW A, NEW B, NEW S, NEW T, NEW U, NEW own, NEW n, NEW t,
           Held(A, S, U, own), Rest(A, B, n), t \notin DOMAIN S, DOMAIN T = DOMAIN S \cup {t},
           T[t] = A[0], \A x \in DOMAIN S : T[x] = S[x]
    PROVE  Held(B, T, U, own)
<1>a. \A i \in DOMAIN A : A[i] \in own /\ \A j \in DOMAIN A : A[j] = A[i] => j = i
  BY Zenon DEF Held
<1>b. \A x \in DOMAIN S : S[x] \in own /\ \A y \in DOMAIN S : S[y] = S[x] => y = x
  BY Zenon DEF Held
<1>c. \A k \in DOMAIN U : U[k] \in own /\ \A l \in DOMAIN U : U[l] = U[k] => l = k
  BY Zenon DEF Held
<1>d. \A i \in DOMAIN A : (\A x \in DOMAIN S : A[i] # S[x]) /\ (\A k \in DOMAIN U : A[i] # U[k])
  BY Zenon DEF Held
<1>e. \A x \in DOMAIN S, k \in DOMAIN U : S[x] # U[k]
  BY Zenon DEF Held
<1>1. 0 \in DOMAIN A
  BY RestFacts, Zenon
<1>2. \A k \in DOMAIN B : k + 1 \in DOMAIN A /\ k + 1 # 0 /\ B[k] = A[k + 1]
  BY RestFacts, Zenon
<1>3. \A k, l \in DOMAIN B : k + 1 = l + 1 => k = l
  BY RestFacts, Zenon
<1>4. \A x \in DOMAIN T : (x = t /\ T[x] = A[0]) \/ (x \in DOMAIN S /\ x # t /\ T[x] = S[x])
  BY Zenon
<1>5. \A i \in DOMAIN B : B[i] \in own /\ \A j \in DOMAIN B : B[j] = B[i] => j = i
  BY <1>a, <1>2, <1>3
<1>6. \A x \in DOMAIN T : T[x] \in own /\ \A y \in DOMAIN T : T[y] = T[x] => y = x
  BY <1>a, <1>b, <1>d, <1>1, <1>4
<1>7. \A i \in DOMAIN B : (\A x \in DOMAIN T : B[i] # T[x]) /\ (\A k \in DOMAIN U : B[i] # U[k])
  BY <1>a, <1>d, <1>1, <1>2, <1>4
<1>8. \A x \in DOMAIN T, k \in DOMAIN U : T[x] # U[k]
  BY <1>d, <1>e, <1>1, <1>4, Zenon
<1> QED BY <1>5, <1>6, <1>c, <1>7, <1>8, Zenon DEF Held

LEMMA HeldInline ==
    ASSUME NEW A, NEW B, NEW S, NEW U, NEW V, NEW own, NEW n, NEW m,
           Held(A, S, U, own), Rest(A, B, n), Grown(U, V, m, A[0])
    PROVE  Held(B, S, V, own)
<1>a. \A i \in DOMAIN A : A[i] \in own /\ \A j \in DOMAIN A : A[j] = A[i] => j = i
  BY Zenon DEF Held
<1>b. \A x \in DOMAIN S : S[x] \in own /\ \A y \in DOMAIN S : S[y] = S[x] => y = x
  BY Zenon DEF Held
<1>c. \A k \in DOMAIN U : U[k] \in own /\ \A l \in DOMAIN U : U[l] = U[k] => l = k
  BY Zenon DEF Held
<1>d. \A i \in DOMAIN A : (\A x \in DOMAIN S : A[i] # S[x]) /\ (\A k \in DOMAIN U : A[i] # U[k])
  BY Zenon DEF Held
<1>e. \A x \in DOMAIN S, k \in DOMAIN U : S[x] # U[k]
  BY Zenon DEF Held
<1>1. 0 \in DOMAIN A
  BY RestFacts, Zenon
<1>2. \A k \in DOMAIN B : k + 1 \in DOMAIN A /\ k + 1 # 0 /\ B[k] = A[k + 1]
  BY RestFacts, Zenon
<1>3. \A k, l \in DOMAIN B : k + 1 = l + 1 => k = l
  BY RestFacts, Zenon
<1>4. \A k \in DOMAIN V : (k = m /\ V[k] = A[0]) \/ (k \in DOMAIN U /\ k # m /\ V[k] = U[k])
  BY GrownFacts
<1>5. \A i \in DOMAIN B : B[i] \in own /\ \A j \in DOMAIN B : B[j] = B[i] => j = i
  BY <1>a, <1>2, <1>3, Zenon
<1>6. \A k \in DOMAIN V : V[k] \in own /\ \A l \in DOMAIN V : V[l] = V[k] => l = k
  BY <1>a, <1>c, <1>d, <1>1, <1>4, ZenonT(40)
<1>7. \A i \in DOMAIN B : (\A x \in DOMAIN S : B[i] # S[x]) /\ (\A k \in DOMAIN V : B[i] # V[k])
  BY <1>a, <1>d, <1>1, <1>2, <1>4
<1>8. \A x \in DOMAIN S, k \in DOMAIN V : S[x] # V[k]
  BY <1>d, <1>e, <1>1, <1>4, Zenon
<1> QED BY <1>5, <1>b, <1>6, <1>7, <1>8, Zenon DEF Held

LEMMA HeldFinish ==
    ASSUME NEW A, NEW S, NEW T, NEW U, NEW V, NEW own, NEW m, NEW t \in DOMAIN S,
           Held(A, S, U, own), DOMAIN T = DOMAIN S \ {t}, \A x \in DOMAIN T : T[x] = S[x],
           Grown(U, V, m, S[t])
    PROVE  Held(A, T, V, own)
<1>a. \A i \in DOMAIN A : A[i] \in own /\ \A j \in DOMAIN A : A[j] = A[i] => j = i
  BY Zenon DEF Held
<1>b. \A x \in DOMAIN S : S[x] \in own /\ \A y \in DOMAIN S : S[y] = S[x] => y = x
  BY Zenon DEF Held
<1>c. \A k \in DOMAIN U : U[k] \in own /\ \A l \in DOMAIN U : U[l] = U[k] => l = k
  BY Zenon DEF Held
<1>d. \A i \in DOMAIN A : (\A x \in DOMAIN S : A[i] # S[x]) /\ (\A k \in DOMAIN U : A[i] # U[k])
  BY Zenon DEF Held
<1>e. \A x \in DOMAIN S, k \in DOMAIN U : S[x] # U[k]
  BY Zenon DEF Held
<1>1. \A k \in DOMAIN V : (k = m /\ V[k] = S[t]) \/ (k \in DOMAIN U /\ k # m /\ V[k] = U[k])
  BY GrownFacts
<1>2. \A x \in DOMAIN T : x \in DOMAIN S /\ x # t /\ T[x] = S[x]
  BY Zenon
<1>3. \A x \in DOMAIN T : T[x] \in own /\ \A y \in DOMAIN T : T[y] = T[x] => y = x
  BY <1>b, <1>2, Zenon
<1>4. \A k \in DOMAIN V : V[k] \in own /\ \A l \in DOMAIN V : V[l] = V[k] => l = k
  BY <1>b, <1>c, <1>e, <1>1
<1>5. \A i \in DOMAIN A : (\A x \in DOMAIN T : A[i] # T[x]) /\ (\A k \in DOMAIN V : A[i] # V[k])
  BY <1>d, <1>1, <1>2
<1>6. \A x \in DOMAIN T, k \in DOMAIN V : T[x] # V[k]
  BY <1>b, <1>e, <1>1, <1>2
<1> QED BY <1>a, <1>3, <1>4, <1>5, <1>6, Zenon DEF Held

LEMMA HeldReap ==
    ASSUME NEW A, NEW S, NEW U, NEW V, NEW own, NEW n,
           Held(A, S, U, own), Rest(U, V, n)
    PROVE  Held(A, S, V, own \ {U[0]})
<1>a. \A i \in DOMAIN A : A[i] \in own /\ \A j \in DOMAIN A : A[j] = A[i] => j = i
  BY Zenon DEF Held
<1>b. \A x \in DOMAIN S : S[x] \in own /\ \A y \in DOMAIN S : S[y] = S[x] => y = x
  BY Zenon DEF Held
<1>c. \A k \in DOMAIN U : U[k] \in own /\ \A l \in DOMAIN U : U[l] = U[k] => l = k
  BY Zenon DEF Held
<1>d. \A i \in DOMAIN A : (\A x \in DOMAIN S : A[i] # S[x]) /\ (\A k \in DOMAIN U : A[i] # U[k])
  BY Zenon DEF Held
<1>e. \A x \in DOMAIN S, k \in DOMAIN U : S[x] # U[k]
  BY Zenon DEF Held
<1>1. 0 \in DOMAIN U
  BY RestFacts, Zenon
<1>2. \A k \in DOMAIN V : k + 1 \in DOMAIN U /\ k + 1 # 0 /\ V[k] = U[k + 1]
  BY RestFacts, Zenon
<1>3. \A k, l \in DOMAIN V : k + 1 = l + 1 => k = l
  BY RestFacts, Zenon
<1>4. \A i \in DOMAIN A : A[i] \in (own \ {U[0]}) /\ \A j \in DOMAIN A : A[j] = A[i] => j = i
  BY <1>a, <1>d, <1>1, Zenon
<1>5. \A x \in DOMAIN S : S[x] \in (own \ {U[0]}) /\ \A y \in DOMAIN S : S[y] = S[x] => y = x
  BY <1>b, <1>e, <1>1, Zenon
<1>6. \A k \in DOMAIN V : V[k] \in (own \ {U[0]}) /\ \A l \in DOMAIN V : V[l] = V[k] => l = k
  BY <1>c, <1>1, <1>2, <1>3, Zenon
<1>7. \A i \in DOMAIN A : (\A x \in DOMAIN S : A[i] # S[x]) /\ (\A k \in DOMAIN V : A[i] # V[k])
  BY <1>d, <1>2, Zenon
<1>8. \A x \in DOMAIN S, k \in DOMAIN V : S[x] # V[k]
  BY <1>e, <1>2, Zenon
<1> QED BY <1>4, <1>5, <1>6, <1>7, <1>8, Zenon DEF Held

\* What the driver sees of a chain.
Seen(own, U) == [h \in Heads |-> IF h \notin own THEN "driver"
                                 ELSE IF \E k \in DOMAIN U : U[k] = h THEN "ring" ELSE "device"]

Absent(h, U) == \A k \in DOMAIN U : U[k] # h

LEMMA SeenPost ==
    ASSUME NEW own, NEW U, NEW h \in Heads, h \notin own, \A k \in DOMAIN U : U[k] \in own
    PROVE  /\ Seen(own, U)[h] = "driver"
           /\ Seen(own \cup {h}, U) = [Seen(own, U) EXCEPT ![h] = "device"]
<1>1. \A k \in DOMAIN U : U[k] # h
  BY Zenon
<1> QED BY <1>1, Zenon DEF Seen

LEMMA SeenAnswer ==
    ASSUME NEW own, NEW U, NEW V, NEW m, NEW h \in Heads, h \in own, Absent(h, U), Grown(U, V, m, h)
    PROVE  /\ Seen(own, U)[h] = "device"
           /\ Seen(own, V) = [Seen(own, U) EXCEPT ![h] = "ring"]
<1>1. \A g : (\E k \in DOMAIN V : V[k] = g) <=> g = h \/ \E k \in DOMAIN U : U[k] = g
  <2>1. (\A k \in DOMAIN U : k \in DOMAIN V /\ V[k] = U[k]) /\ m \in DOMAIN V /\ V[m] = h
    BY DEF Grown
  <2>2. \A k \in DOMAIN V : (k = m /\ V[k] = h) \/ (k \in DOMAIN U /\ k # m /\ V[k] = U[k])
    BY GrownFacts
  <2> QED BY <2>1, <2>2, Zenon
<1>2. \A k \in DOMAIN U : U[k] # h
  BY Zenon DEF Absent
<1> QED BY <1>1, <1>2, Zenon DEF Seen

LEMMA SeenReap ==
    ASSUME NEW own, NEW U, NEW V, NEW n, Rest(U, V, n), U[0] \in own, U[0] \in Heads,
           \A k \in DOMAIN U : U[k] = U[0] => k = 0
    PROVE  /\ Seen(own, U)[U[0]] = "ring"
           /\ Seen(own \ {U[0]}, V) = [Seen(own, U) EXCEPT ![U[0]] = "driver"]
<1>1. 0 \in DOMAIN U
  BY RestFacts, Zenon
<1>2. \A g : g # U[0] => ((\E k \in DOMAIN V : V[k] = g) <=> \E k \in DOMAIN U : U[k] = g)
  <2>1. \A k \in DOMAIN U : k # 0 => k - 1 \in DOMAIN V /\ V[k - 1] = U[k]
    BY DEF Rest
  <2>2. \A k \in DOMAIN V : k + 1 \in DOMAIN U /\ V[k] = U[k + 1]
    BY RestFacts, Zenon
  <2> QED BY <2>1, <2>2, Zenon
<1> QED BY <1>1, <1>2, Zenon DEF Seen

\* The chains in the available ring that the worker has not taken, under the
\* tokens of the current driver, and in the used ring not yet reaped.
Waiting == Entries(avail_ring, last, wrapping_sub(avail_idx, last))
Answers == Entries(used_ring, last_used, wrapping_sub(used_idx, last_used))
Current == {t \in DOMAIN slots : slots[t].generation = generation}
Parked  == [t \in Current |-> slots[t].head]

\* Every chain the driver has given away is in one place at most.
HeldInv ==
    /\ Held(Waiting, Parked, Answers, owned)
    /\ \A t \in DOMAIN slots : slots[t].generation <= generation
    /\ ~enabled => owned = {}

Chain == Seen(owned, Answers)

\* A ring read from a to b, and the same with one more entry at b or with the
\* entry at a taken.
LEMMA RingGrows ==
    ASSUME NEW a \in Index, NEW b \in Index, NEW h, NEW r \in [0 .. QSize - 1 -> Heads \cup {NoHead}],
           wrapping_sub(b, a) < QSize
    PROVE  Grown(Entries(r, a, wrapping_sub(b, a)),
                 Entries([r EXCEPT ![b % QSize] = h], a, wrapping_sub(wrapping_add(b, 1), a)),
                 wrapping_sub(b, a), h)
<1>1. PICK n \in 0 .. QSize - 1 : n = wrapping_sub(b, a)
  <2>1. wrapping_sub(b, a) \in Nat
    BY WrapType, IdxModAssumption DEF Index
  <2> QED BY <2>1, BlkQueueAssumption
<1>2. wrapping_add(a, n) = b
  BY <1>1, SubThenAdd, Zenon
<1>3. wrapping_sub(wrapping_add(b, 1), a) = n + 1
  BY <1>1, RingAssumption, BlkQueueAssumption, IdxModAssumption DEF Index, wrapping_add, wrapping_sub
<1>4. n \in Nat /\ DOMAIN Entries(r, a, n) = 0 .. n - 1
  BY BlkQueueAssumption DEF Entries
<1>5. PICK s : s = [r EXCEPT ![b % QSize] = h]
  BY Zenon
<1>6. /\ DOMAIN Entries(s, a, n + 1) = 0 .. n
      /\ Entries(s, a, n + 1)[n] = h
      /\ \A k \in 0 .. n - 1 : Entries(s, a, n + 1)[k] = Entries(r, a, n)[k]
  <2>1. Writes(r, wrapping_add(a, n) % QSize, h, s)
    BY <1>2, <1>5, Zenon DEF Writes
  <2> QED BY <2>1, EntryAdded
<1>7. Grown(Entries(r, a, n), Entries(s, a, n + 1), n, h)
  BY <1>4, <1>6, Zenon DEF Grown
<1> QED BY <1>1, <1>3, <1>5, <1>7, Zenon

LEMMA RingShrinks ==
    ASSUME NEW a \in Index, NEW b \in Index, b # a, NEW r
    PROVE  /\ Rest(Entries(r, a, wrapping_sub(b, a)),
                   Entries(r, wrapping_add(a, 1), wrapping_sub(b, wrapping_add(a, 1))),
                   wrapping_sub(b, a))
           /\ Entries(r, a, wrapping_sub(b, a))[0] = r[a % QSize]
<1>1. PICK n \in 1 .. IdxMod - 1 : n = wrapping_sub(b, a)
  <2>1. wrapping_sub(b, a) \in Index /\ wrapping_sub(b, a) > 0
    BY WrapType, OneLess, Zenon
  <2> QED BY <2>1, IdxModAssumption DEF Index
<1>2. wrapping_sub(b, wrapping_add(a, 1)) = n - 1
  BY <1>1, OneLess, Zenon
<1>3. n \in Nat /\ n > 0
  BY IdxModAssumption
<1>4. Rest(Entries(r, a, n), Entries(r, wrapping_add(a, 1), n - 1), n)
  BY <1>3, EntryTaken, ZenonT(40) DEF Rest
<1>5. Entries(r, a, n)[0] = r[a % QSize]
  BY EntryTaken, Zenon
<1> QED BY <1>1, <1>2, <1>4, <1>5, Zenon

\* Heads other than h, each at one place: there are fewer than entries in a ring.
LEMMA Spare ==
    ASSUME NEW n \in Nat, NEW f, DOMAIN f = 0 .. n - 1, NEW h \in Heads,
           \A i \in DOMAIN f : f[i] \in Heads /\ f[i] # h /\ \A j \in DOMAIN f : f[j] = f[i] => j = i
    PROVE  n < QSize
<1> DEFINE D == 0 .. n - 1
           X == Heads \ {h}
           g == [i \in D |-> f[i]]
<1>1. IsFiniteSet(Heads) /\ IsFiniteSet(X) /\ Cardinality(X) = Cardinality(Heads) - 1
  BY BlkQueueAssumption, FS_RemoveElement, Zenon
<1>2. Cardinality(Heads) \in Nat /\ Cardinality(Heads) <= QSize /\ QSize \in Nat
  BY <1>1, FS_CardinalityType, RingAssumption, BlkQueueAssumption, Zenon
<1>3. IsFiniteSet(D) /\ Cardinality(D) = n
  BY FS_Interval
<1>4. g \in Injection(D, X)
  BY Zenon DEF Injection, IsInjective
<1>5. Cardinality(D) <= Cardinality(X)
  BY <1>1, <1>4, FS_Injection
<1> QED BY <1>1, <1>2, <1>3, <1>5

\* What the action lemmas start from.
LEMMA HeldTypes ==
    ASSUME TypeOK
    PROVE  /\ {avail_idx, last, used_idx, last_used} \subseteq Index
           /\ avail_ring \in [0 .. QSize - 1 -> Heads \cup {NoHead}]
           /\ used_ring \in [0 .. QSize - 1 -> Heads \cup {NoHead}]
           /\ owned \subseteq Heads /\ generation \in Nat
           /\ \A t \in DOMAIN slots : slots[t].generation \in Nat /\ slots[t].head \in Heads \cup {NoHead}
<1>1. \A t \in DOMAIN slots : slots[t].generation \in 0 .. MaxResets /\ slots[t].head \in Heads \cup {NoHead}
  BY Zenon DEF TypeOK, Slot
<1>2. generation \in Nat /\ MaxResets \in Nat
  BY BlkQueueAssumption DEF TypeOK
<1> QED BY <1>1, <1>2 DEF TypeOK

\* The rings after a step, in terms of what the step wrote.
LEMMA RingsAfter ==
    /\ Waiting' = Entries(avail_ring', last', wrapping_sub(avail_idx', last'))
    /\ Answers' = Entries(used_ring', last_used', wrapping_sub(used_idx', last_used'))
    /\ Chain' = Seen(owned', Answers')
    /\ HeldInv' <=> /\ Held(Waiting', Parked', Answers', owned')
                    /\ \A t \in DOMAIN slots' : slots'[t].generation <= generation'
                    /\ ~enabled' => owned' = {}
<1>1. Waiting' = Entries(avail_ring', last', wrapping_sub(avail_idx', last'))
  BY Zenon DEF Waiting
<1>2. Answers' = Entries(used_ring', last_used', wrapping_sub(used_idx', last_used'))
  BY Zenon DEF Answers
<1>3. Chain' = Seen(owned', Answers')
  BY Zenon DEF Chain
<1>4. HeldInv' <=> /\ Held(Waiting', Parked', Answers', owned')
                   /\ \A t \in DOMAIN slots' : slots'[t].generation <= generation'
                   /\ ~enabled' => owned' = {}
  BY Zenon DEF HeldInv
<1> QED BY <1>1, <1>2, <1>3, <1>4, Zenon

\* A chain the driver posts goes to the device.
LEMMA AddHeld ==
    ASSUME TypeOK, HeldInv, NEW h \in Heads, DriverAdd(h)
    PROVE  /\ HeldInv'
           /\ enabled /\ enabled' = enabled
           /\ Chain[h] = "driver" /\ Chain' = [Chain EXCEPT ![h] = "device"]
<1>1. PICK r, a, b, n : r = avail_ring /\ a = last /\ b = avail_idx /\ n = wrapping_sub(b, a)
  BY Zenon
<1>2. /\ UNCHANGED <<last, used_ring, used_idx, last_used, slots, generation, enabled>>
      /\ enabled /\ h \notin owned /\ owned' = owned \cup {h}
      /\ avail_ring' = [r EXCEPT ![b % QSize] = h] /\ avail_idx' = wrapping_add(b, 1)
  BY <1>1, Zenon DEF DriverAdd, slab, queue
<1>3. Answers' = Answers /\ Parked' = Parked
  BY <1>2, Zenon DEF Answers, Parked, Current, Entries
<1>4. Waiting = Entries(r, a, n)
  BY <1>1, Zenon DEF Waiting
<1>5. Waiting' = Entries([r EXCEPT ![b % QSize] = h], a, wrapping_sub(wrapping_add(b, 1), a))
  BY <1>1, <1>2, RingsAfter, Zenon
<1>6. a \in Index /\ b \in Index /\ r \in [0 .. QSize - 1 -> Heads \cup {NoHead}] /\ owned \subseteq Heads
  BY <1>1, HeldTypes, Zenon
<1>7. Held(Waiting, Parked, Answers, owned)
  BY Zenon DEF HeldInv
<1>8. n \in Nat /\ DOMAIN Waiting = 0 .. n - 1
  BY <1>1, <1>4, <1>6, WrapType, IdxModAssumption DEF Index, Entries
<1>9. \A i \in DOMAIN Waiting : /\ Waiting[i] \in Heads /\ Waiting[i] # h
                                /\ \A j \in DOMAIN Waiting : Waiting[j] = Waiting[i] => j = i
  BY <1>2, <1>6, <1>7, Zenon DEF Held
<1>10. wrapping_sub(b, a) < QSize
  BY <1>1, <1>8, <1>9, Spare, Zenon
<1>11. Grown(Waiting, Waiting', n, h)
  BY <1>1, <1>4, <1>5, <1>6, <1>10, RingGrows, Zenon
<1>12. Held(Waiting', Parked', Answers', owned')
  BY <1>2, <1>3, <1>7, <1>11, HeldPost, Zenon
<1>13. HeldInv'
  BY <1>2, <1>12, RingsAfter, Zenon DEF HeldInv
<1>14. \A k \in DOMAIN Answers : Answers[k] \in owned
  BY <1>7, Zenon DEF Held
<1>15. Chain[h] = "driver" /\ Chain' = [Chain EXCEPT ![h] = "device"]
  <2>1. Seen(owned, Answers)[h] = "driver" /\ Seen(owned \cup {h}, Answers) = [Seen(owned, Answers) EXCEPT ![h] = "device"]
    BY <1>2, <1>14, SeenPost, Zenon
  <2>2. Chain' = Seen(owned \cup {h}, Answers)
    BY <1>2, <1>3, RingsAfter, Zenon
  <2> QED BY <2>1, <2>2, Zenon DEF Chain
<1> QED BY <1>2, <1>13, <1>15, Zenon

-----------------------------------------------------------------------------
(* One step after the other *)

\* A chain the driver reaps is its own again.
LEMMA ReapHeld ==
    ASSUME TypeOK, HeldInv, FreshInv, DriverReap
    PROVE  /\ HeldInv'
           /\ enabled /\ enabled' = enabled
           /\ \E h \in Heads : Chain[h] = "ring" /\ Chain' = [Chain EXCEPT ![h] = "driver"]
<1>1. PICK r, a, b, n, h : /\ r = used_ring /\ a = last_used /\ b = used_idx /\ n = wrapping_sub(b, a)
                           /\ h = r[a % QSize]
  BY Zenon
<1>2. /\ UNCHANGED <<avail_ring, avail_idx, last, used_ring, used_idx, slots, generation, enabled>>
      /\ b # a /\ owned' = owned \ {h} /\ last_used' = wrapping_add(a, 1) /\ drv_pc = "reaping"
  BY <1>1, Zenon DEF DriverReap, ring, slab, queue
<1>3. enabled
  BY <1>2, Zenon DEF FreshInv
<1>4. Waiting' = Waiting /\ Parked' = Parked
  BY <1>2, Zenon DEF Waiting, Parked, Current, Entries
<1>5. Answers = Entries(r, a, n)
  BY <1>1, Zenon DEF Answers
<1>6. Answers' = Entries(r, wrapping_add(a, 1), wrapping_sub(b, wrapping_add(a, 1)))
  BY <1>1, <1>2, RingsAfter, Zenon
<1>7. a \in Index /\ b \in Index /\ owned \subseteq Heads
  BY <1>1, HeldTypes, Zenon
<1>8. Rest(Answers, Answers', n) /\ Answers[0] = h
  BY <1>1, <1>2, <1>5, <1>6, <1>7, RingShrinks, Zenon
<1>9. Held(Waiting, Parked, Answers, owned)
  BY Zenon DEF HeldInv
<1>10. Held(Waiting', Parked', Answers', owned')
  BY <1>2, <1>4, <1>8, <1>9, HeldReap, Zenon
<1>11. HeldInv'
  BY <1>2, <1>3, <1>10, RingsAfter, Zenon DEF HeldInv
<1>12. 0 \in DOMAIN Answers
  BY <1>8, RestFacts, Zenon
<1>13. h \in owned /\ h \in Heads /\ \A k \in DOMAIN Answers : Answers[k] = Answers[0] => k = 0
  BY <1>7, <1>8, <1>9, <1>12, Zenon DEF Held
<1>14. Seen(owned, Answers)[h] = "ring" /\ Seen(owned \ {h}, Answers') = [Seen(owned, Answers) EXCEPT ![h] = "driver"]
  BY <1>8, <1>13, SeenReap, Zenon
<1>15. Chain[h] = "ring" /\ Chain' = [Chain EXCEPT ![h] = "driver"]
  BY <1>2, <1>14, RingsAfter, Zenon DEF Chain
<1> QED BY <1>2, <1>3, <1>11, <1>13, <1>15, Zenon

\* A used entry for a chain that is not in the used ring: the entry fits.
LEMMA PushGrows ==
    ASSUME TypeOK, HeldInv, NEW h \in Heads, push_used(h), UNCHANGED last_used,
           \A k \in DOMAIN Answers : Answers[k] # h
    PROVE  \E m : Grown(Answers, Answers', m, h)
<1>1. PICK r, a, b, n : r = used_ring /\ a = last_used /\ b = used_idx /\ n = wrapping_sub(b, a)
  BY Zenon
<1>2. used_ring' = [r EXCEPT ![b % QSize] = h] /\ used_idx' = wrapping_add(b, 1) /\ last_used' = a
  BY <1>1, Zenon DEF push_used
<1>3. Answers = Entries(r, a, n)
  BY <1>1, Zenon DEF Answers
<1>4. Answers' = Entries([r EXCEPT ![b % QSize] = h], a, wrapping_sub(wrapping_add(b, 1), a))
  BY <1>2, RingsAfter, Zenon
<1>5. a \in Index /\ b \in Index /\ r \in [0 .. QSize - 1 -> Heads \cup {NoHead}] /\ owned \subseteq Heads
  BY <1>1, HeldTypes, Zenon
<1>6. n \in Nat /\ DOMAIN Answers = 0 .. n - 1
  BY <1>1, <1>3, <1>5, WrapType, IdxModAssumption DEF Index, Entries
<1>7. Held(Waiting, Parked, Answers, owned)
  BY Zenon DEF HeldInv
<1>8. \A i \in DOMAIN Answers : /\ Answers[i] \in Heads /\ Answers[i] # h
                                /\ \A j \in DOMAIN Answers : Answers[j] = Answers[i] => j = i
  BY <1>5, <1>7, Zenon DEF Held
<1>9. wrapping_sub(b, a) < QSize
  BY <1>1, <1>6, <1>8, Spare, Zenon
<1>10. Grown(Answers, Answers', n, h)
  BY <1>1, <1>3, <1>4, <1>5, <1>9, RingGrows, Zenon
<1> QED BY <1>10, Zenon

\* Seen by the driver, a used entry is an answer.
LEMMA PushAnswers ==
    ASSUME NEW h \in Heads, h \in owned, UNCHANGED owned, \A k \in DOMAIN Answers : Answers[k] # h,
           NEW m, Grown(Answers, Answers', m, h)
    PROVE  Chain[h] = "device" /\ Chain' = [Chain EXCEPT ![h] = "ring"]
<1>1. Seen(owned, Answers)[h] = "device" /\ Seen(owned, Answers') = [Seen(owned, Answers) EXCEPT ![h] = "ring"]
  <2>1. PICK own, U, V : own = owned /\ U = Answers /\ V = Answers'
    BY Zenon
  <2>2. h \in own /\ Absent(h, U) /\ Grown(U, V, m, h)
    BY <2>1, Zenon DEF Absent
  <2>3. Seen(own, U)[h] = "device" /\ Seen(own, V) = [Seen(own, U) EXCEPT ![h] = "ring"]
    BY <2>2, SeenAnswer
  <2> QED BY <2>1, <2>3, Zenon
<1> QED BY <1>1, RingsAfter, Zenon DEF Chain

\* The chain the worker takes next.
LEMMA TakeFirst ==
    ASSUME TypeOK, HeldInv, has_avail
    PROVE  /\ 0 \in DOMAIN Waiting /\ Waiting[0] = NextHead
           /\ NextHead \in owned /\ NextHead \in Heads
           /\ \A k \in DOMAIN Answers : Answers[k] # NextHead
           /\ last' = wrapping_add(last, 1) /\ UNCHANGED <<avail_ring, avail_idx>>
                => \E n : Rest(Waiting, Waiting', n)
<1>1. PICK r, a, b, n : r = avail_ring /\ a = last /\ b = avail_idx /\ n = wrapping_sub(b, a)
  BY Zenon
<1>2. b # a /\ a \in Index /\ b \in Index /\ owned \subseteq Heads
  BY <1>1, HeldTypes, Zenon DEF has_avail
<1>3. Waiting = Entries(r, a, n)
  BY <1>1, Zenon DEF Waiting
<1>4. PICK V : V = Entries(r, wrapping_add(a, 1), wrapping_sub(b, wrapping_add(a, 1)))
  BY Zenon
<1>5. Rest(Waiting, V, n) /\ Waiting[0] = NextHead
  BY <1>1, <1>2, <1>3, <1>4, RingShrinks, Zenon DEF NextHead
<1>6. 0 \in DOMAIN Waiting
  BY <1>5, RestFacts, Zenon
<1>7. Held(Waiting, Parked, Answers, owned)
  BY Zenon DEF HeldInv
<1>8. NextHead \in owned /\ NextHead \in Heads /\ \A k \in DOMAIN Answers : Answers[k] # NextHead
  BY <1>2, <1>5, <1>6, <1>7, Zenon DEF Held
<1>9. ASSUME last' = wrapping_add(last, 1), UNCHANGED <<avail_ring, avail_idx>>
      PROVE  Waiting' = V
  BY <1>1, <1>4, <1>9, RingsAfter, Zenon
<1> QED BY <1>5, <1>6, <1>8, <1>9, Zenon

\* A chain answered on the spot.
LEMMA InlineHeld ==
    ASSUME TypeOK, HeldInv, LockInv, TakeInline
    PROVE  /\ HeldInv'
           /\ enabled /\ enabled' = enabled
           /\ \E h \in Heads : Chain[h] = "device" /\ Chain' = [Chain EXCEPT ![h] = "ring"]
<1>1. PICK h : h = NextHead
  BY Zenon
<1>2. /\ UNCHANGED <<avail_ring, avail_idx, last_used, slots, generation, enabled, owned>>
      /\ has_avail /\ last' = wrapping_add(last, 1) /\ push_used(h) /\ pc = "taking"
  BY <1>1, Zenon DEF TakeInline, driver, slab
<1>3. enabled
  BY <1>2, Zenon DEF LockInv, Locked
<1>4. PICK n : Rest(Waiting, Waiting', n)
  BY <1>2, TakeFirst, Zenon
<1>5. h \in owned /\ h \in Heads /\ Waiting[0] = h /\ \A k \in DOMAIN Answers : Answers[k] # h
  BY <1>1, <1>2, TakeFirst, Zenon
<1>6. PICK m : Grown(Answers, Answers', m, h)
  BY <1>2, <1>5, PushGrows, Zenon
<1>7. Parked' = Parked
  BY <1>2, Zenon DEF Parked, Current
<1>8. Held(Waiting, Parked, Answers, owned)
  BY Zenon DEF HeldInv
<1>9. Held(Waiting', Parked', Answers', owned')
  <2>1. PICK A, B, U, V : A = Waiting /\ B = Waiting' /\ U = Answers /\ V = Answers'
    BY Zenon
  <2>2. Held(A, Parked, U, owned) /\ Rest(A, B, n) /\ Grown(U, V, m, A[0])
    BY <1>4, <1>5, <1>6, <1>8, <2>1, Zenon
  <2>3. Held(B, Parked, V, owned)
    BY <2>2, HeldInline, Zenon
  <2> QED BY <1>2, <1>7, <2>1, <2>3, Zenon
<1>10. HeldInv'
  BY <1>2, <1>3, <1>9, RingsAfter, Zenon DEF HeldInv
<1>11. Chain[h] = "device" /\ Chain' = [Chain EXCEPT ![h] = "ring"]
  BY <1>2, <1>5, <1>6, PushAnswers, Zenon
<1> QED BY <1>2, <1>3, <1>5, <1>10, <1>11, Zenon

\* A chain that goes to the engine stays with the device.
LEMMA IssueHeld ==
    ASSUME TypeOK, HeldInv, SlabConserved, TakeIssue
    PROVE  HeldInv' /\ UNCHANGED <<enabled, Chain>>
<1>1. PICK t, g, h : t = free[Len(free)] /\ g = generation /\ h = NextHead
  BY Zenon
<1>2. /\ UNCHANGED <<avail_ring, avail_idx, used_ring, used_idx, last_used, generation, enabled, owned>>
      /\ has_avail /\ last' = wrapping_add(last, 1) /\ free # <<>>
      /\ slots' = WithSlot(t, [head |-> h, generation |-> g, tries |-> 0])
  BY <1>1, Zenon DEF TakeIssue, ring, driver, can_accept
<1>3. t \in Tokens /\ t \notin DOMAIN slots
  BY <1>1, <1>2, PopFree, Zenon DEF TypeOK, SlabConserved
<1>4. /\ DOMAIN slots' = (DOMAIN slots) \cup {t}
      /\ slots'[t].generation = g /\ slots'[t].head = h
      /\ \A x \in DOMAIN slots : slots'[x] = slots[x]
  BY <1>2, <1>3, Zenon DEF WithSlot
<1>5. PICK n : Rest(Waiting, Waiting', n)
  BY <1>2, TakeFirst, Zenon
<1>6. Waiting[0] = h
  BY <1>1, <1>2, TakeFirst, Zenon
<1>7. Answers' = Answers
  BY <1>2, ZenonT(40) DEF Answers, Entries
<1>8. Held(Waiting, Parked, Answers, owned)
  BY Zenon DEF HeldInv
<1>9. /\ DOMAIN Parked' = (DOMAIN Parked) \cup {t} /\ t \notin DOMAIN Parked
      /\ Parked'[t] = h /\ \A x \in DOMAIN Parked : Parked'[x] = Parked[x]
  BY <1>1, <1>2, <1>3, <1>4 DEF Parked, Current
<1>10. Held(Waiting', Parked', Answers', owned')
  <2>1. PICK A, B, S, T : A = Waiting /\ B = Waiting' /\ S = Parked /\ T = Parked'
    BY Zenon
  <2>2. /\ Held(A, S, Answers, owned) /\ Rest(A, B, n) /\ t \notin DOMAIN S /\ DOMAIN T = (DOMAIN S) \cup {t}
        /\ T[t] = A[0] /\ \A x \in DOMAIN S : T[x] = S[x]
    BY <1>5, <1>6, <1>8, <1>9, <2>1, Zenon
  <2>3. Held(B, T, Answers, owned)
    BY <2>2, HeldIssue, ZenonT(40)
  <2> QED BY <1>2, <1>7, <2>1, <2>3, Zenon
<1>11. \A x \in DOMAIN slots' : slots'[x].generation <= generation'
  BY <1>1, <1>2, <1>4, HeldTypes DEF HeldInv
<1>12. HeldInv'
  BY <1>2, <1>10, <1>11, RingsAfter, Zenon DEF HeldInv
<1>13. Chain' = Chain
  BY <1>2, <1>7, RingsAfter, Zenon DEF Chain
<1> QED BY <1>2, <1>12, <1>13, Zenon

\* A slot that comes back without an answer, or that is tried again.
LEMMA DropHeld ==
    ASSUME HeldInv,
           UNCHANGED <<avail_ring, avail_idx, last, used_ring, used_idx, last_used, generation, enabled, owned>>,
           DOMAIN slots' \subseteq DOMAIN slots,
           \A x \in DOMAIN slots' : slots'[x].generation = slots[x].generation /\ slots'[x].head = slots[x].head
    PROVE  HeldInv' /\ UNCHANGED <<enabled, Chain>>
<1>1. Waiting' = Waiting /\ Answers' = Answers
  BY Zenon DEF Waiting, Answers, Entries
<1>2. DOMAIN Parked' \subseteq DOMAIN Parked /\ \A x \in DOMAIN Parked' : Parked'[x] = Parked[x]
  BY Zenon DEF Parked, Current
<1>3. Held(Waiting, Parked, Answers, owned)
  BY Zenon DEF HeldInv
<1>4. Held(Waiting', Parked', Answers', owned')
  <2>1. PICK T : T = Parked'
    BY Zenon
  <2>2. Held(Waiting, T, Answers, owned)
    <3>1. \A x \in DOMAIN T : x \in DOMAIN Parked /\ T[x] = Parked[x]
      BY <1>2, <2>1, Zenon
    <3>2. \A x \in DOMAIN T : T[x] \in owned /\ \A y \in DOMAIN T : T[y] = T[x] => y = x
      BY <1>3, <3>1, Zenon DEF Held
    <3>3. \A x \in DOMAIN T : (\A i \in DOMAIN Waiting : Waiting[i] # T[x]) /\ \A k \in DOMAIN Answers : T[x] # Answers[k]
      <4>1. \A x \in DOMAIN Parked : (\A i \in DOMAIN Waiting : Waiting[i] # Parked[x]) /\ \A k \in DOMAIN Answers : Parked[x] # Answers[k]
        BY <1>3, Zenon DEF Held
      <4> QED BY <3>1, <4>1, Zenon
    <3> QED BY <1>3, <3>2, <3>3, Zenon DEF Held
  <2> QED BY <1>1, <2>1, <2>2, Zenon
<1>5. HeldInv'
  BY <1>4, RingsAfter, Zenon DEF HeldInv
<1>6. Chain' = Chain
  BY <1>1, RingsAfter, Zenon DEF Chain
<1> QED BY <1>5, <1>6, Zenon

\* A completion: of an earlier driver's request, of a request that is over, or
\* of one that is tried again.
LEMMA CompleteHeld ==
    ASSUME TypeOK, HeldInv, LockInv, NEW t \in Tokens, complete(t)
    PROVE  /\ HeldInv' /\ UNCHANGED enabled
           /\ \/ UNCHANGED Chain
              \/ enabled /\ \E h \in Heads : Chain[h] = "device" /\ Chain' = [Chain EXCEPT ![h] = "ring"]
<1>1. /\ UNCHANGED <<avail_ring, avail_idx, last, last_used, generation, enabled, owned>>
      /\ t \in DOMAIN slots /\ pc = "completing"
      /\ StaleCompletion(t) \/ FinishCompletion(t) \/ resubmit(t)
  BY Zenon DEF complete, driver, queue
<1>2. enabled
  BY <1>1, Zenon DEF LockInv, Locked
<1>3. CASE StaleCompletion(t)
  <2>1. UNCHANGED <<used_ring, used_idx>> /\ slots' = Restrict(slots, (DOMAIN slots) \ {t})
    BY <1>3, Zenon DEF StaleCompletion, no_used, WithoutSlots
  <2>2. DOMAIN slots' \subseteq DOMAIN slots /\ \A x \in DOMAIN slots' : slots'[x] = slots[x]
    BY <2>1, Zenon DEF Restrict
  <2> QED BY <1>1, <2>1, <2>2, DropHeld, Zenon
<1>4. CASE resubmit(t)
  <2>1. UNCHANGED <<used_ring, used_idx>> /\ slots' = [slots EXCEPT ![t].tries = @ + 1]
    BY <1>4, Zenon DEF resubmit, no_used
  <2>2. slots[t] \in Slot
    BY <1>1, Zenon DEF TypeOK
  <2>3. /\ DOMAIN slots' = DOMAIN slots
        /\ \A x \in DOMAIN slots' : slots'[x].generation = slots[x].generation /\ slots'[x].head = slots[x].head
    BY <1>1, <2>1, <2>2, Zenon DEF Slot
  <2> QED BY <1>1, <2>1, <2>3, DropHeld, Zenon
<1>5. CASE FinishCompletion(t)
  <2>1. PICK h : h = slots[t].head
    BY Zenon
  <2>2. slots[t].generation = generation /\ push_used(h) /\ slots' = Restrict(slots, (DOMAIN slots) \ {t})
    BY <1>5, <2>1, Zenon DEF FinishCompletion, WithoutSlots
  <2>3. DOMAIN slots' = (DOMAIN slots) \ {t} /\ \A x \in DOMAIN slots' : slots'[x] = slots[x]
    BY <2>2, Zenon DEF Restrict
  <2>4. t \in DOMAIN Parked /\ Parked[t] = h
    BY <1>1, <2>1, <2>2, Zenon DEF Parked, Current
  <2>5. Held(Waiting, Parked, Answers, owned) /\ owned \subseteq Heads
    BY HeldTypes, Zenon DEF HeldInv
  <2>6. h \in owned /\ h \in Heads /\ \A k \in DOMAIN Answers : Answers[k] # h
    BY <2>4, <2>5, Zenon DEF Held
  <2>7. PICK m : Grown(Answers, Answers', m, h)
    BY <1>1, <2>2, <2>6, PushGrows, Zenon
  <2>8. Waiting' = Waiting
    BY <1>1, Zenon DEF Waiting, Entries
  <2>9. DOMAIN Parked' = (DOMAIN Parked) \ {t} /\ \A x \in DOMAIN Parked' : Parked'[x] = Parked[x]
    BY <1>1, <2>3, Zenon DEF Parked, Current
  <2>10. Held(Waiting', Parked', Answers', owned')
    <3>1. PICK S, T, U, V : S = Parked /\ T = Parked' /\ U = Answers /\ V = Answers'
      BY Zenon
    <3>2. /\ t \in DOMAIN S /\ Held(Waiting, S, U, owned) /\ DOMAIN T = (DOMAIN S) \ {t}
          /\ (\A x \in DOMAIN T : T[x] = S[x]) /\ Grown(U, V, m, S[t])
      BY <2>4, <2>5, <2>7, <2>9, <3>1, Zenon
    <3>3. Held(Waiting, T, V, owned)
      BY <3>2, HeldFinish, Zenon
    <3> QED BY <1>1, <2>8, <3>1, <3>3, Zenon
  <2>11. \A x \in DOMAIN slots' : slots'[x].generation <= generation'
    BY <1>1, <2>3, Zenon DEF HeldInv
  <2>12. HeldInv'
    BY <1>1, <1>2, <2>10, <2>11, RingsAfter, Zenon DEF HeldInv
  <2>13. Chain[h] = "device" /\ Chain' = [Chain EXCEPT ![h] = "ring"]
    BY <1>1, <2>6, <2>7, PushAnswers, Zenon
  <2> QED BY <1>1, <1>2, <2>6, <2>12, <2>13, Zenon
<1> QED BY <1>1, <1>3, <1>4, <1>5, Zenon

\* Nothing anywhere.
LEMMA NothingSeen == \A U : Seen({}, U) = [h \in Heads |-> "driver"]
BY Zenon DEF Seen

LEMMA NothingHeld ==
    ASSUME NEW r, NEW s, NEW S, DOMAIN S = {}
    PROVE  Held(Entries(r, 0, wrapping_sub(0, 0)), S, Entries(s, 0, wrapping_sub(0, 0)), {})
<1>1. wrapping_sub(0, 0) = 0 /\ 0 .. 0 - 1 = {}
  BY IdxModAssumption DEF wrapping_sub
<1>2. \A q : DOMAIN Entries(q, 0, wrapping_sub(0, 0)) = {}
  BY <1>1, Zenon DEF Entries
<1> QED BY <1>2, Zenon DEF Held

\* A reset takes everything back; the slots still out are of an earlier driver.
LEMMA ResetHeld ==
    ASSUME TypeOK, HeldInv, ResetWrite
    PROVE  /\ HeldInv' /\ ~enabled' /\ Chain' = [h \in Heads |-> "driver"]
           /\ ~enabled => Chain' = Chain
<1>1. /\ ~enabled' /\ generation' = generation + 1 /\ UNCHANGED slots /\ owned' = {}
      /\ last' = 0 /\ last_used' = 0 /\ avail_idx' = 0 /\ used_idx' = 0
  BY Zenon DEF ResetWrite, slab
<1>2. \A t \in DOMAIN slots : slots[t].generation \in Nat /\ slots[t].generation <= generation /\ generation \in Nat
  BY HeldTypes, Zenon DEF HeldInv
<1>3. \A t \in DOMAIN slots' : slots'[t].generation <= generation' /\ slots'[t].generation # generation'
  BY <1>1, <1>2
<1>4. DOMAIN Parked' = {}
  BY <1>3, Zenon DEF Parked, Current
<1>5. Held(Waiting', Parked', Answers', owned') /\ Chain' = [h \in Heads |-> "driver"]
  BY <1>1, <1>4, NothingHeld, NothingSeen, RingsAfter, Zenon
<1>6. HeldInv'
  BY <1>1, <1>3, <1>5, RingsAfter, Zenon
<1>7. ~enabled => Chain = [h \in Heads |-> "driver"]
  BY NothingSeen, Zenon DEF HeldInv, Chain
<1> QED BY <1>1, <1>5, <1>6, <1>7, Zenon

LEMMA InitHeld == Init => HeldInv /\ Chain = [h \in Heads |-> "driver"] /\ enabled = FALSE
<1> SUFFICES ASSUME Init PROVE HeldInv /\ Chain = [h \in Heads |-> "driver"] /\ enabled = FALSE
  BY Zenon
<1>1. /\ slots = Empty /\ owned = {} /\ last = 0 /\ last_used = 0 /\ avail_idx = 0 /\ used_idx = 0 /\ enabled = FALSE
  BY Zenon DEF Init
<1>2. DOMAIN slots = {} /\ DOMAIN Parked = {}
  BY <1>1, Zenon DEF Empty, Parked, Current
<1>3. Held(Waiting, Parked, Answers, owned) /\ Chain = [h \in Heads |-> "driver"]
  BY <1>1, <1>2, NothingHeld, NothingSeen, Zenon DEF Waiting, Answers, Chain
<1> QED BY <1>1, <1>2, <1>3, Zenon DEF HeldInv

-----------------------------------------------------------------------------
(* The refinement *)

\* What the refinement maps, in terms of Chain.
LEMMA ChainIsSeen ==
    Chain = [h \in Heads |-> IF h \notin owned THEN "driver"
                             ELSE IF Answered(h) # {} THEN "ring" ELSE "device"]
<1>1. \A h : Answered(h) # {} <=> \E k \in DOMAIN Answers : Answers[k] = h
  BY Zenon DEF Answered, Answers, Entries
<1> QED BY <1>1, Zenon DEF Chain, Seen

\* Steps that touch none of it.
HeldView == <<avail_ring, avail_idx, last, used_ring, used_idx, last_used, slots, generation, owned>>

LEMMA ViewHeld ==
    ASSUME HeldInv, UNCHANGED HeldView, enabled' = enabled \/ enabled'
    PROVE  HeldInv' /\ Chain' = Chain
<1>1. Waiting' = Waiting /\ Answers' = Answers /\ Parked' = Parked
  BY Zenon DEF HeldView, Waiting, Answers, Entries, Parked, Current
<1>2. UNCHANGED <<owned, slots, generation>>
  BY Zenon DEF HeldView
<1> QED BY <1>1, <1>2, RingsAfter, Zenon DEF HeldInv, Chain

\* The steps of the service.
Serves ==
    \/ UNCHANGED <<enabled, Chain>>
    \/ ~enabled /\ enabled' = TRUE /\ UNCHANGED Chain
    \/ enabled /\ enabled' = FALSE /\ Chain' = [h \in Heads |-> "driver"]
    \/ /\ enabled /\ UNCHANGED enabled
       /\ \E h \in Heads :
             \/ Chain[h] = "driver" /\ Chain' = [Chain EXCEPT ![h] = "device"]
             \/ Chain[h] = "device" /\ Chain' = [Chain EXCEPT ![h] = "ring"]
             \/ Chain[h] = "ring" /\ Chain' = [Chain EXCEPT ![h] = "driver"]

LEMMA ServeStep ==
    ASSUME IInv, FreshInv, HeldInv, [Next]_vars
    PROVE  HeldInv' /\ Serves
<1>0. TypeOK /\ SlabConserved /\ LockInv
  BY Zenon DEF IInv
<1>1. CASE UNCHANGED HeldView /\ UNCHANGED enabled
  BY <1>1, ViewHeld, Zenon DEF Serves
<1>2. CASE TakeInline
  BY <1>0, <1>2, InlineHeld, Zenon DEF Serves
<1>3. CASE TakeIssue
  BY <1>0, <1>3, IssueHeld, Zenon DEF Serves
<1>4. ASSUME NEW t \in Tokens, complete(t)
      PROVE  HeldInv' /\ Serves
  BY <1>0, <1>4, CompleteHeld, Zenon DEF Serves
<1>5. ASSUME NEW t \in Tokens, release(t)
      PROVE  HeldInv' /\ Serves
  <2>1. /\ UNCHANGED <<avail_ring, avail_idx, last, used_ring, used_idx, last_used, generation, enabled, owned>>
        /\ slots' = Restrict(slots, (DOMAIN slots) \ {t})
    BY <1>5, Zenon DEF release, WithoutSlots, ring, driver, queue
  <2>2. DOMAIN slots' \subseteq DOMAIN slots /\ \A x \in DOMAIN slots' : slots'[x] = slots[x]
    BY <2>1, Zenon DEF Restrict
  <2> QED BY <2>1, <2>2, DropHeld, Zenon DEF Serves
<1>6. ASSUME NEW h \in Heads, DriverAdd(h)
      PROVE  HeldInv' /\ Serves
  BY <1>0, <1>6, AddHeld, Zenon DEF Serves
<1>7. CASE DriverReap
  BY <1>0, <1>7, ReapHeld, Zenon DEF Serves
<1>8. CASE DriverSetup
  <2>1. UNCHANGED HeldView /\ ~enabled /\ enabled' = TRUE
    BY <1>8, Zenon DEF DriverSetup, HeldView, ring, driver, slab
  <2> QED BY <2>1, ViewHeld, Zenon DEF Serves
<1>9. CASE ResetWrite
  <2>1. enabled \in BOOLEAN /\ enabled' = FALSE
    BY <1>0, <1>9, Zenon DEF TypeOK, ResetWrite
  <2>2. CASE enabled
    BY <1>0, <1>9, <2>1, <2>2, ResetHeld, ZenonT(40) DEF Serves
  <2>3. CASE enabled = FALSE
    BY <1>0, <1>9, <2>1, <2>3, ResetHeld, Zenon DEF Serves
  <2> QED BY <2>1, <2>2, <2>3, Zenon
<1>10. CASE \/ EnterEngine \/ Collect \/ SyncReadKick \/ PollEmpty \/ PollRing \/ PollDeadline
            \/ EngineFails \/ StartPass \/ ReleaseDone \/ CompletionsDone
  <2>1. UNCHANGED HeldView /\ UNCHANGED enabled
    BY <1>10, Zenon DEF EnterEngine, Collect, SyncReadKick, PollEmpty, PollRing, PollDeadline, EngineFails,
       StartPass, ReleaseDone, CompletionsDone, HeldView, ring, driver, queue, slab
  <2> QED BY <1>1, <2>1, Zenon
<1>11. CASE Suppress \/ TakingDone \/ Unsuppress \/ Recheck \/ Notify
  <2>1. UNCHANGED HeldView /\ UNCHANGED enabled
    BY <1>11, Zenon DEF Suppress, TakingDone, Unsuppress, Recheck, Notify, suppress_notify,
       HeldView, ring, driver, queue, slab
  <2> QED BY <1>1, <2>1, Zenon
<1>12. CASE KernelReadKick \/ (\E t \in Tokens : KernelComplete(t)) \/ DriverKick \/ DriverInterrupt
            \/ DriverRearm \/ DriverRecheck
  <2>1. UNCHANGED HeldView /\ UNCHANGED enabled
    BY <1>12, Zenon DEF KernelReadKick, KernelComplete, DriverKick, DriverInterrupt, DriverRearm,
       DriverRecheck, HeldView, ring, driver, queue, slab
  <2> QED BY <1>1, <2>1, Zenon
<1>13. CASE ResetReturns \/ Drop \/ UNCHANGED vars
  <2>1. UNCHANGED HeldView /\ UNCHANGED enabled
    BY <1>13, Zenon DEF ResetReturns, Drop, vars, HeldView, ring, driver, queue, slab
  <2> QED BY <1>1, <2>1, Zenon
<1> QED BY NextCases, <1>2, <1>3, <1>4, <1>5, <1>6, <1>7, <1>8, <1>9, <1>10, <1>11, <1>12, <1>13, Zenon

LEMMA ChainIsSeenNext ==
    Chain' = [h \in Heads |-> IF h \notin owned THEN "driver"
                              ELSE IF Answered(h) # {} THEN "ring" ELSE "device"]'
<1>1. \A h : Answered(h)' # {} <=> \E k \in DOMAIN Answers' : Answers'[k] = h
  BY Zenon DEF Answered, Answers, Entries
<1> QED BY <1>1, RingsAfter, Zenon DEF Seen

\* Every step of the queue is a step of the service or none.
LEMMA ServesIsNext ==
    ASSUME Serves
    PROVE  [Service!Next]_(Service!vars)
<1> DEFINE c == [h \in Heads |-> IF h \notin owned THEN "driver"
                                 ELSE IF Answered(h) # {} THEN "ring" ELSE "device"]
<1>1. c = Chain /\ c' = Chain'
  BY ChainIsSeen, ChainIsSeenNext, Zenon
<1> HIDE DEF c
<1>2. \/ UNCHANGED <<enabled, c>>
      \/ ~enabled /\ enabled' = TRUE /\ UNCHANGED c
      \/ enabled /\ enabled' = FALSE /\ c' = [h \in Heads |-> "driver"]
      \/ /\ enabled /\ UNCHANGED enabled
         /\ \E h \in Heads :
               \/ c[h] = "driver" /\ c' = [c EXCEPT ![h] = "device"]
               \/ c[h] = "device" /\ c' = [c EXCEPT ![h] = "ring"]
               \/ c[h] = "ring" /\ c' = [c EXCEPT ![h] = "driver"]
  BY <1>1, Zenon DEF Serves
<1>3. CASE UNCHANGED <<enabled, c>>
  BY <1>3, Zenon DEF Service!vars, c
<1>4. CASE ~enabled /\ enabled' = TRUE /\ UNCHANGED c
  BY <1>4, Zenon DEF Service!Next, Service!Start, c
<1>5. CASE enabled /\ enabled' = FALSE /\ c' = [h \in Heads |-> "driver"]
  BY <1>5, Zenon DEF Service!Next, Service!Reset, c
<1>6. ASSUME NEW h \in Heads, enabled, UNCHANGED enabled, c[h] = "driver", c' = [c EXCEPT ![h] = "device"]
      PROVE  Service!Post(h)
  BY <1>6, Zenon DEF Service!Post, Service!Move, c
<1>7. ASSUME NEW h \in Heads, enabled, UNCHANGED enabled, c[h] = "device", c' = [c EXCEPT ![h] = "ring"]
      PROVE  Service!Answer(h)
  BY <1>7, Zenon DEF Service!Answer, Service!Move, c
<1>8. ASSUME NEW h \in Heads, enabled, UNCHANGED enabled, c[h] = "ring", c' = [c EXCEPT ![h] = "driver"]
      PROVE  Service!Reap(h)
  BY <1>8, Zenon DEF Service!Reap, Service!Move, c
<1> QED BY <1>2, <1>3, <1>4, <1>5, <1>6, <1>7, <1>8, Zenon DEF Service!Next

\* Seen from the driver, the queue is BlkService: a chain is answered once, by
\* the device, and comes back once, whatever the interleaving of worker, kernel,
\* driver and reset, and through every wrap of the ring indices.
THEOREM QueueImplementsService == Spec => ImplementsService
<1>1. Init => IInv /\ WakeInv /\ HeldInv
  BY InitIInv, InitWakeInv, InitHeld, Zenon
<1>2. Init => Service!Init
  BY InitHeld, ChainIsSeen, Zenon DEF Service!Init
<1>3. IInv /\ [Next]_vars => IInv'
  BY TypeStep, SlabStep, LockStep, InFlightStep, QuietStep, Zenon DEF IInv
<1>4. IInv /\ WakeInv /\ [Next]_vars => WakeInv'
  BY WakeStep, Zenon
<1>5. IInv /\ WakeInv /\ HeldInv /\ [Next]_vars => HeldInv' /\ [Service!Next]_(Service!vars)
  BY ServeStep, ServesIsNext, Zenon DEF WakeInv
<1> QED BY <1>1, <1>2, <1>3, <1>4, <1>5, PTL DEF Spec, ImplementsService, Service!Spec
=============================================================================
