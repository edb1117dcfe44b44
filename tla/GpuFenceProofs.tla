--------------------------- MODULE GpuFenceProofs ---------------------------
(***************************************************************************)
(* Where the chains of the virtio-gpu control queue are, for any number of *)
(* chains, contexts and rings: FenceBase types the state and puts every    *)
(* chain the driver has posted at one spot (the rings, the worker's hand,  *)
(* the fences, the orphans, a callback on its way).  Before that, what is  *)
(* true of the line of commands that wait, as lemmas about a line with its *)
(* end grown or its front acted upon.                                      *)
(***************************************************************************)
EXTENDS GpuFence, TLAPS

(***************************************************************************)
(* The line of commands the worker has still to act upon.  I is the set of *)
(* positions, N the command at each, D the fence ids the device knows on a *)
(* timeline, s the driver's last id.                                       *)
(***************************************************************************)
Fences(x, r) == x.kind = "submit" /\ x.ring = r /\ x.fence # 0
About(x, c) == x.kind # "submit" /\ x.ctx = c
Clears(x, r) == x.kind # "submit" /\ r \in RingsOf(x.ctx)

\* On a timeline ids grow along the line, from the device's to the driver's,
\* between two commands that create or destroy its context.
Ordered(I, N, D, s) == \A r \in Rings :
  /\ (\E k \in I : Clears(N[k], r)) \/ \A m \in D[r] : m <= s[r]
  /\ \A j \in I : Fences(N[j], r) =>
       /\ (\E k \in I : k < j /\ Clears(N[k], r)) \/ \A m \in D[r] : m < N[j].fence
       /\ (\E k \in I : j < k /\ Clears(N[k], r)) \/ N[j].fence <= s[r]
       /\ \A i \in I : i < j /\ Fences(N[i], r) =>
            (\E k \in I : i < k /\ k < j /\ Clears(N[k], r)) \/ N[i].fence < N[j].fence

\* A context is created and destroyed in turn.
Alternate(I, N, C, O) == \A c \in Ctxs :
  /\ (\E k \in I : About(N[k], c)) \/ (c \in C => c \in O)
  /\ \A j \in I : About(N[j], c) =>
       /\ N[j].kind = "create" => (\E k \in I : k < j /\ About(N[k], c)) \/ c \notin C
       /\ (\E k \in I : j < k /\ About(N[k], c)) \/ (N[j].kind = "create" <=> c \in O)
       /\ \A i \in I : i < j /\ About(N[i], c) =>
            (\E k \in I : i < k /\ k < j /\ About(N[k], c)) \/ N[i].kind # N[j].kind

Posted(x) ==
  \/ x.kind = "submit" /\ x.ring \in Rings /\ x.fence \in Nat
  \/ x.kind \in {"create", "destroy"} /\ x.ctx \in Ctxs /\ x.ring = Global /\ x.fence = 0 /\ x.form = "ok"

\* What stands behind a command is not the front of the line.
LEMMA Later ==
  ASSUME NEW I \in SUBSET Nat
  PROVE  /\ \A i \in I \ {0} : i \in Nat /\ 0 < i
         /\ \A i \in I, k \in I : i < k => k \in I \ {0}
         /\ \A k \in I : 0 < k => k \in I \ {0}
  <1>1. \A i \in Nat, k \in Nat : (i # 0 => 0 < i) /\ (i < k => k # 0) /\ ~(0 < 0)
    OBVIOUS
  <1>2. QED BY <1>1, Zenon

\* The device knows no more than before, and of the line a command at its
\* front that is about no context is gone.
LEMMA OrderKept ==
  ASSUME NEW I \in SUBSET Nat, NEW J \in SUBSET I, NEW N, NEW M, NEW D, NEW E, NEW s,
         Ordered(I, N, D, s),
         \A i \in J : M[i] = N[i],
         \A i \in I \ J : i = 0 /\ N[i].kind = "submit",
         \A r \in Rings : \A m \in E[r] : m \in Nat /\ \E k \in D[r] : k \in Nat /\ m <= k,
         \A r \in Rings : s[r] \in Nat,
         \A i \in I : Posted(N[i])
  PROVE  Ordered(J, M, E, s)
  <1>1. \A k \in I, r \in Rings : Clears(N[k], r) => k \in J /\ Clears(M[k], r)
    BY Zenon DEF Clears
  <1>2. SUFFICES ASSUME NEW r \in Rings
        PROVE /\ (\E k \in J : Clears(M[k], r)) \/ \A m \in E[r] : m <= s[r]
              /\ \A j \in J : Fences(M[j], r) =>
                  /\ (\E k \in J : k < j /\ Clears(M[k], r)) \/ \A m \in E[r] : m < M[j].fence
                  /\ (\E k \in J : j < k /\ Clears(M[k], r)) \/ M[j].fence <= s[r]
                  /\ \A i \in J : i < j /\ Fences(M[i], r) =>
                       (\E k \in J : i < k /\ k < j /\ Clears(M[k], r)) \/ M[i].fence < M[j].fence
    BY Zenon DEF Ordered
  <1>3. (\E k \in J : Clears(M[k], r)) \/ \A m \in E[r] : m <= s[r]
    <2>1. CASE \E k \in I : Clears(N[k], r)
      BY <1>1, <2>1, Zenon
    <2>2. CASE \A m \in D[r] : m <= s[r]
      BY <2>2
    <2>3. QED BY <2>1, <2>2, Zenon DEF Ordered
  <1>4. ASSUME NEW j \in J, Fences(M[j], r)
        PROVE  /\ (\E k \in J : k < j /\ Clears(M[k], r)) \/ \A m \in E[r] : m < M[j].fence
               /\ (\E k \in J : j < k /\ Clears(M[k], r)) \/ M[j].fence <= s[r]
    <2>1. j \in I /\ Fences(N[j], r) /\ M[j] = N[j] /\ N[j].fence \in Nat
      BY <1>4, Zenon DEF Posted, Fences
    <2>2. (\E k \in J : k < j /\ Clears(M[k], r)) \/ \A m \in D[r] : m < N[j].fence
      BY <1>1, <2>1, Zenon DEF Ordered
    <2>3. (\E k \in J : j < k /\ Clears(M[k], r)) \/ N[j].fence <= s[r]
      BY <1>1, <2>1, Zenon DEF Ordered
    <2>4. CASE \A m \in D[r] : m < N[j].fence
      <3>1. \A m \in E[r] : m < N[j].fence
        BY <2>1, <2>4
      <3>2. QED BY <2>1, <2>3, <3>1, Zenon
    <2>5. QED BY <2>1, <2>2, <2>3, <2>4, Zenon
  <1>5. ASSUME NEW j \in J, Fences(M[j], r), NEW i \in J, i < j, Fences(M[i], r)
        PROVE  (\E k \in J : i < k /\ k < j /\ Clears(M[k], r)) \/ M[i].fence < M[j].fence
    <2>1. i \in I /\ j \in I /\ M[i] = N[i] /\ M[j] = N[j] /\ Fences(N[i], r) /\ Fences(N[j], r)
      BY <1>5, Zenon
    <2>2. (\E k \in I : i < k /\ k < j /\ Clears(N[k], r)) \/ N[i].fence < N[j].fence
      BY <1>5, <2>1, Zenon DEF Ordered
    <2>3. QED BY <1>1, <2>1, <2>2, Zenon
  <1>6. QED BY <1>3, <1>4, <1>5, Zenon

LEMMA AlternateKept ==
  ASSUME NEW I \in SUBSET Nat, NEW J \in SUBSET I, NEW N, NEW M, NEW C, NEW B \in SUBSET C, NEW O,
         Alternate(I, N, C, O),
         \A i \in J : M[i] = N[i],
         \A i \in I \ J : i = 0 /\ N[i].kind = "submit"
  PROVE  Alternate(J, M, B, O)
  <1>1. \A k \in I, c \in Ctxs : About(N[k], c) => k \in J /\ About(M[k], c)
    BY Zenon DEF About
  <1>2. \A k \in J, c \in Ctxs : About(M[k], c) => k \in I /\ About(N[k], c) /\ N[k].kind = M[k].kind
    BY Zenon DEF About
  <1>3. \A c \in Ctxs : c \in B => c \in C
    BY Zenon
  <1>4. SUFFICES ASSUME NEW c \in Ctxs
        PROVE  /\ (\E k \in J : About(M[k], c)) \/ (c \in B => c \in O)
               /\ \A j \in J : About(M[j], c) =>
                   /\ M[j].kind = "create" => (\E k \in J : k < j /\ About(M[k], c)) \/ c \notin B
                   /\ (\E k \in J : j < k /\ About(M[k], c)) \/ (M[j].kind = "create" <=> c \in O)
                   /\ \A i \in J : i < j /\ About(M[i], c) =>
                        (\E k \in J : i < k /\ k < j /\ About(M[k], c)) \/ M[i].kind # M[j].kind
    BY Zenon DEF Alternate
  <1>5. (\E k \in J : About(M[k], c)) \/ (c \in B => c \in O)
    BY <1>1, <1>3, Zenon DEF Alternate
  <1>6. ASSUME NEW j \in J, About(M[j], c)
        PROVE  /\ M[j].kind = "create" => (\E k \in J : k < j /\ About(M[k], c)) \/ c \notin B
               /\ (\E k \in J : j < k /\ About(M[k], c)) \/ (M[j].kind = "create" <=> c \in O)
    <2>1. j \in I /\ About(N[j], c) /\ N[j].kind = M[j].kind
      BY <1>2, <1>6, Zenon
    <2>2. /\ N[j].kind = "create" => (\E k \in I : k < j /\ About(N[k], c)) \/ c \notin C
          /\ (\E k \in I : j < k /\ About(N[k], c)) \/ (N[j].kind = "create" <=> c \in O)
      BY <2>1, Zenon DEF Alternate
    <2>3. QED BY <1>1, <1>3, <2>1, <2>2, Zenon
  <1>7. ASSUME NEW j \in J, About(M[j], c), NEW i \in J, i < j, About(M[i], c)
        PROVE  (\E k \in J : i < k /\ k < j /\ About(M[k], c)) \/ M[i].kind # M[j].kind
    <2>1. /\ j \in I /\ About(N[j], c) /\ N[j].kind = M[j].kind
          /\ i \in I /\ About(N[i], c) /\ N[i].kind = M[i].kind
      BY <1>2, <1>7, Zenon
    <2>2. (\E k \in I : i < k /\ k < j /\ About(N[k], c)) \/ N[i].kind # N[j].kind
      BY <1>7, <2>1, ZenonT(40) DEF Alternate
    <2>3. QED BY <1>1, <2>1, <2>2, Zenon
  <1>8. QED BY <1>5, <1>6, <1>7, Zenon

\* The worker takes the first command: the line moves up.
LEMMA OrderShift ==
  ASSUME NEW I \in SUBSET Nat, 0 \notin I, NEW J, J = {i \in Nat : i + 1 \in I},
         NEW N, NEW M, NEW D, NEW s, Ordered(I, N, D, s), \A i \in J : M[i] = N[i + 1]
  PROVE  Ordered(J, M, D, s)
  <1>1. \A k \in I : k - 1 \in J /\ M[k - 1] = N[k]
    <2> TAKE k \in I
    <2>1. k \in Nat /\ k # 0
      BY Zenon
    <2>2. k - 1 \in Nat /\ (k - 1) + 1 = k
      BY <2>1
    <2>3. QED BY <2>2, Zenon
  <1>2. \A j \in J : j \in Nat /\ j + 1 \in I /\ M[j] = N[j + 1]
    BY Zenon
  <1>3. ASSUME NEW r \in Rings, NEW a \in Int, NEW b \in Int, \E k \in I : a < k /\ k < b /\ Clears(N[k], r)
        PROVE  \E k \in J : a - 1 < k /\ k < b - 1 /\ Clears(M[k], r)
    <2>1. PICK k \in I : a < k /\ k < b /\ Clears(N[k], r)
      BY <1>3, Zenon
    <2>2. k - 1 \in J /\ Clears(M[k - 1], r) /\ k \in Nat
      BY <1>1, <2>1, Zenon
    <2>3. QED BY <2>1, <2>2
  <1>4. ASSUME NEW r \in Rings
        PROVE /\ (\E k \in J : Clears(M[k], r)) \/ \A m \in D[r] : m <= s[r]
              /\ \A j \in J : Fences(M[j], r) =>
                  /\ (\E k \in J : k < j /\ Clears(M[k], r)) \/ \A m \in D[r] : m < M[j].fence
                  /\ (\E k \in J : j < k /\ Clears(M[k], r)) \/ M[j].fence <= s[r]
                  /\ \A i \in J : i < j /\ Fences(M[i], r) =>
                       (\E k \in J : i < k /\ k < j /\ Clears(M[k], r)) \/ M[i].fence < M[j].fence
    <2>1. (\E k \in J : Clears(M[k], r)) \/ \A m \in D[r] : m <= s[r]
      BY <1>1, Zenon DEF Ordered
    <2>2. ASSUME NEW j \in J, Fences(M[j], r)
          PROVE  (\E k \in J : k < j /\ Clears(M[k], r)) \/ \A m \in D[r] : m < M[j].fence
      <3>1. j + 1 \in I /\ Fences(N[j + 1], r) /\ M[j] = N[j + 1]
        BY <1>2, <2>2, Zenon
      <3>2. (\E k \in I : k < j + 1 /\ Clears(N[k], r)) \/ \A m \in D[r] : m < N[j + 1].fence
        BY <3>1, Zenon DEF Ordered
      <3>3. ASSUME NEW k \in I, k < j + 1, Clears(N[k], r) PROVE \E l \in J : l < j /\ Clears(M[l], r)
        BY <1>1, <1>2, <3>3
      <3>4. QED BY <3>1, <3>2, <3>3, Zenon
    <2>3. ASSUME NEW j \in J, Fences(M[j], r)
          PROVE  (\E k \in J : j < k /\ Clears(M[k], r)) \/ M[j].fence <= s[r]
      <3>1. j + 1 \in I /\ Fences(N[j + 1], r) /\ M[j] = N[j + 1]
        BY <1>2, <2>3, Zenon
      <3>2. (\E k \in I : j + 1 < k /\ Clears(N[k], r)) \/ N[j + 1].fence <= s[r]
        BY <3>1, Zenon DEF Ordered
      <3>3. ASSUME NEW k \in I, j + 1 < k, Clears(N[k], r) PROVE \E l \in J : j < l /\ Clears(M[l], r)
        <4>1. k - 1 \in J /\ M[k - 1] = N[k] /\ k \in Nat /\ j \in Nat
          BY <1>1, <1>2, Zenon
        <4>2. j < k - 1 /\ Clears(M[k - 1], r)
          BY <3>3, <4>1
        <4>3. QED BY <4>1, <4>2, Zenon
      <3>4. QED BY <3>1, <3>2, <3>3, Zenon
    <2>4. ASSUME NEW j \in J, Fences(M[j], r), NEW i \in J, i < j, Fences(M[i], r)
          PROVE  (\E k \in J : i < k /\ k < j /\ Clears(M[k], r)) \/ M[i].fence < M[j].fence
      <3>1. /\ j + 1 \in I /\ Fences(N[j + 1], r) /\ M[j] = N[j + 1]
            /\ i + 1 \in I /\ Fences(N[i + 1], r) /\ M[i] = N[i + 1] /\ i + 1 < j + 1
        BY <1>2, <2>4
      <3>2. (\E k \in I : i + 1 < k /\ k < j + 1 /\ Clears(N[k], r)) \/ N[i + 1].fence < N[j + 1].fence
        BY <3>1, Zenon DEF Ordered
      <3>3. ASSUME NEW k \in I, i + 1 < k, k < j + 1, Clears(N[k], r)
            PROVE  \E l \in J : i < l /\ l < j /\ Clears(M[l], r)
        <4>1. k - 1 \in J /\ M[k - 1] = N[k] /\ k \in Nat /\ j \in Nat /\ i \in Nat
          BY <1>1, <1>2, Zenon
        <4>2. i < k - 1 /\ k - 1 < j /\ Clears(M[k - 1], r)
          BY <3>3, <4>1
        <4>3. QED BY <4>1, <4>2, Zenon
      <3>4. QED BY <3>1, <3>2, <3>3, Zenon
    <2>5. QED BY <2>1, <2>2, <2>3, <2>4, Zenon
  <1>5. QED BY <1>4, Zenon DEF Ordered

LEMMA AlternateShift ==
  ASSUME NEW I \in SUBSET Nat, 0 \notin I, NEW J, J = {i \in Nat : i + 1 \in I},
         NEW N, NEW M, NEW C, NEW O, Alternate(I, N, C, O), \A i \in J : M[i] = N[i + 1]
  PROVE  Alternate(J, M, C, O)
  <1>1. \A k \in I : k - 1 \in J /\ M[k - 1] = N[k]
    <2> TAKE k \in I
    <2>1. k \in Nat /\ k # 0
      BY Zenon
    <2>2. k - 1 \in Nat /\ (k - 1) + 1 = k
      BY <2>1
    <2>3. QED BY <2>2, Zenon
  <1>2. \A j \in J : j \in Nat /\ j + 1 \in I /\ M[j] = N[j + 1]
    BY Zenon
  <1>4. ASSUME NEW c \in Ctxs
        PROVE /\ (\E k \in J : About(M[k], c)) \/ (c \in C => c \in O)
              /\ \A j \in J : About(M[j], c) =>
                   /\ M[j].kind = "create" => (\E k \in J : k < j /\ About(M[k], c)) \/ c \notin C
                   /\ (\E k \in J : j < k /\ About(M[k], c)) \/ (M[j].kind = "create" <=> c \in O)
                   /\ \A i \in J : i < j /\ About(M[i], c) =>
                        (\E k \in J : i < k /\ k < j /\ About(M[k], c)) \/ M[i].kind # M[j].kind
    <2>1. (\E k \in J : About(M[k], c)) \/ (c \in C => c \in O)
      BY <1>1, Zenon DEF Alternate
    <2>2. ASSUME NEW j \in J, About(M[j], c), M[j].kind = "create"
          PROVE  (\E k \in J : k < j /\ About(M[k], c)) \/ c \notin C
      <3>1. j + 1 \in I /\ About(N[j + 1], c) /\ M[j] = N[j + 1]
        BY <1>2, <2>2, Zenon
      <3>2. (\E k \in I : k < j + 1 /\ About(N[k], c)) \/ c \notin C
        BY <2>2, <3>1, Zenon DEF Alternate
      <3>3. ASSUME NEW k \in I, k < j + 1, About(N[k], c) PROVE \E l \in J : l < j /\ About(M[l], c)
        <4>1. k - 1 \in J /\ M[k - 1] = N[k] /\ k \in Nat /\ j \in Nat
          BY <1>1, <1>2, Zenon
        <4>2. k - 1 < j /\ About(M[k - 1], c)
          BY <3>3, <4>1
        <4>3. QED BY <4>1, <4>2, Zenon
      <3>4. QED BY <3>2, <3>3, Zenon
    <2>3. ASSUME NEW j \in J, About(M[j], c)
          PROVE  (\E k \in J : j < k /\ About(M[k], c)) \/ (M[j].kind = "create" <=> c \in O)
      <3>1. j + 1 \in I /\ About(N[j + 1], c) /\ M[j] = N[j + 1]
        BY <1>2, <2>3, Zenon
      <3>2. (\E k \in I : j + 1 < k /\ About(N[k], c)) \/ (N[j + 1].kind = "create" <=> c \in O)
        BY <3>1, Zenon DEF Alternate
      <3>3. ASSUME NEW k \in I, j + 1 < k, About(N[k], c) PROVE \E l \in J : j < l /\ About(M[l], c)
        <4>1. k - 1 \in J /\ M[k - 1] = N[k] /\ k \in Nat /\ j \in Nat
          BY <1>1, <1>2, Zenon
        <4>2. j < k - 1 /\ About(M[k - 1], c)
          BY <3>3, <4>1
        <4>3. QED BY <4>1, <4>2, Zenon
      <3>4. QED BY <3>1, <3>2, <3>3, Zenon
    <2>4. ASSUME NEW j \in J, About(M[j], c), NEW i \in J, i < j, About(M[i], c)
          PROVE  (\E k \in J : i < k /\ k < j /\ About(M[k], c)) \/ M[i].kind # M[j].kind
      <3>1. /\ j + 1 \in I /\ About(N[j + 1], c) /\ M[j] = N[j + 1]
            /\ i + 1 \in I /\ About(N[i + 1], c) /\ M[i] = N[i + 1] /\ i + 1 < j + 1
        BY <1>2, <2>4
      <3>2. (\E k \in I : i + 1 < k /\ k < j + 1 /\ About(N[k], c)) \/ N[i + 1].kind # N[j + 1].kind
        BY <3>1, Zenon DEF Alternate
      <3>3. ASSUME NEW k \in I, i + 1 < k, k < j + 1, About(N[k], c)
            PROVE  \E l \in J : i < l /\ l < j /\ About(M[l], c)
        BY <1>1, <1>2, <3>3
      <3>4. QED BY <3>1, <3>2, <3>3, Zenon
    <2>5. QED BY <2>1, <2>2, <2>3, <2>4, Zenon
  <1>5. QED BY <1>4, Zenon DEF Alternate

\* The driver posts a command that is about no context.
LEMMA OrderSubmit ==
  ASSUME NEW I \in SUBSET Nat, NEW n \in Nat, \A i \in I : i < n,
         NEW N, NEW M, NEW D, NEW s, NEW t, Ordered(I, N, D, s),
         \A i \in I : M[i] = N[i] /\ Posted(N[i]),
         M[n].kind = "submit", M[n].ring \in Rings,
         \A r \in Rings : s[r] \in Nat /\ \A m \in D[r] : m \in Nat,
         \A r \in Rings : t[r] = IF Fences(M[n], r) THEN s[r] + 1 ELSE s[r],
         \A r \in Rings : Fences(M[n], r) => M[n].fence = s[r] + 1
  PROVE  Ordered(I \cup {n}, M, D, t)
  <1>0. ~(n \in I) /\ \A r \in Rings : ~Clears(M[n], r)
    BY DEF Clears
  <1>1. ASSUME NEW r \in Rings
        PROVE  (\E k \in I \cup {n} : Clears(M[k], r)) \/ \A m \in D[r] : m <= t[r]
    <2>1. t[r] \in Nat /\ s[r] <= t[r] /\ s[r] \in Nat
      OBVIOUS
    <2>2. (\E k \in I : Clears(N[k], r)) \/ \A m \in D[r] : m <= s[r]
      BY Zenon DEF Ordered
    <2>3. CASE \A m \in D[r] : m <= s[r]
      BY <2>1, <2>3
    <2>4. QED BY <2>2, <2>3, Zenon
  <1>2. ASSUME NEW r \in Rings, NEW j \in I, Fences(M[j], r)
        PROVE  /\ (\E k \in I \cup {n} : k < j /\ Clears(M[k], r)) \/ \A m \in D[r] : m < M[j].fence
               /\ (\E k \in I \cup {n} : j < k /\ Clears(M[k], r)) \/ M[j].fence <= t[r]
    <2>1. t[r] \in Nat /\ s[r] <= t[r] /\ s[r] \in Nat /\ M[j] = N[j] /\ M[j].fence \in Nat
      BY <1>2 DEF Posted, Fences
    <2>2. /\ (\E k \in I : k < j /\ Clears(N[k], r)) \/ \A m \in D[r] : m < N[j].fence
          /\ (\E k \in I : j < k /\ Clears(N[k], r)) \/ N[j].fence <= s[r]
      BY <1>2, <2>1, Zenon DEF Ordered
    <2>3. (\E k \in I \cup {n} : j < k /\ Clears(M[k], r)) \/ M[j].fence <= t[r]
      <3>1. CASE N[j].fence <= s[r]
        BY <2>1, <3>1
      <3>2. QED BY <2>2, <3>1, Zenon
    <2>4. QED BY <2>1, <2>2, <2>3, Zenon
  <1>3. ASSUME NEW r \in Rings, NEW j \in I, Fences(M[j], r), NEW i \in I \cup {n}, i < j, Fences(M[i], r)
        PROVE  (\E k \in I \cup {n} : i < k /\ k < j /\ Clears(M[k], r)) \/ M[i].fence < M[j].fence
    <2>1. i \in I
      <3>1. j < n /\ j \in Nat
        BY Zenon
      <3>2. QED BY <1>3, <3>1
    <2>2. QED BY <1>3, <2>1, Zenon DEF Ordered
  <1>4. ASSUME NEW r \in Rings, Fences(M[n], r)
        PROVE  /\ (\E k \in I \cup {n} : k < n /\ Clears(M[k], r)) \/ \A m \in D[r] : m < M[n].fence
               /\ M[n].fence <= t[r]
    <2>1. M[n].fence = s[r] + 1 /\ t[r] = s[r] + 1 /\ s[r] \in Nat
      BY <1>4, Zenon
    <2>2. (\E k \in I : Clears(N[k], r)) \/ \A m \in D[r] : m <= s[r]
      BY Zenon DEF Ordered
    <2>3. CASE \A m \in D[r] : m <= s[r]
      BY <2>1, <2>3
    <2>4. QED BY <2>1, <2>2, <2>3
  <1>5. ASSUME NEW r \in Rings, Fences(M[n], r), NEW i \in I, Fences(M[i], r)
        PROVE  (\E k \in I \cup {n} : i < k /\ k < n /\ Clears(M[k], r)) \/ M[i].fence < M[n].fence
    <2>1. M[n].fence = s[r] + 1 /\ s[r] \in Nat /\ M[i] = N[i] /\ N[i].fence \in Nat
      BY <1>5, Zenon DEF Posted, Fences
    <2>2. (\E k \in I : i < k /\ Clears(N[k], r)) \/ N[i].fence <= s[r]
      BY <1>5, <2>1, Zenon DEF Ordered
    <2>3. CASE N[i].fence <= s[r]
      BY <2>1, <2>3
    <2>4. QED BY <2>2, <2>3, Zenon
  <1>6. QED BY <1>1, <1>2, <1>3, <1>4, <1>5 DEF Ordered

\* The driver posts one that creates or destroys a context.
LEMMA OrderContext ==
  ASSUME NEW I \in SUBSET Nat, NEW n \in Nat, \A i \in I : i < n,
         NEW N, NEW M, NEW D, NEW s, NEW t, Ordered(I, N, D, s),
         \A i \in I : M[i] = N[i], M[n].kind # "submit",
         \A r \in Rings : ~Clears(M[n], r) => t[r] = s[r]
  PROVE  Ordered(I \cup {n}, M, D, t)
  <1>1. ASSUME NEW r \in Rings, Clears(M[n], r)
        PROVE  /\ \E k \in I \cup {n} : Clears(M[k], r)
               /\ \A j \in I : \E k \in I \cup {n} : j < k /\ Clears(M[k], r)
    BY <1>1, Zenon
  <1>2. ASSUME NEW r \in Rings, NEW j \in I \cup {n}, Fences(M[j], r)
        PROVE  j \in I /\ M[j] = N[j]
    BY <1>2, Zenon DEF Fences
  <1>3. ASSUME NEW r \in Rings
        PROVE  (\E k \in I \cup {n} : Clears(M[k], r)) \/ \A m \in D[r] : m <= t[r]
    BY <1>1, Zenon DEF Ordered
  <1>4. ASSUME NEW r \in Rings, NEW j \in I \cup {n}, Fences(M[j], r)
        PROVE  (\E k \in I \cup {n} : k < j /\ Clears(M[k], r)) \/ \A m \in D[r] : m < M[j].fence
    BY <1>2, <1>4, Zenon DEF Ordered
  <1>5. ASSUME NEW r \in Rings, NEW j \in I \cup {n}, Fences(M[j], r)
        PROVE  (\E k \in I \cup {n} : j < k /\ Clears(M[k], r)) \/ M[j].fence <= t[r]
    BY <1>1, <1>2, <1>5, Zenon DEF Ordered
  <1>6. ASSUME NEW r \in Rings, NEW j \in I \cup {n}, Fences(M[j], r), NEW i \in I \cup {n}, i < j, Fences(M[i], r)
        PROVE  (\E k \in I \cup {n} : i < k /\ k < j /\ Clears(M[k], r)) \/ M[i].fence < M[j].fence
    BY <1>2, <1>6, Zenon DEF Ordered
  <1>7. QED BY <1>3, <1>4, <1>5, <1>6, Zenon DEF Ordered

LEMMA AlternateSubmit ==
  ASSUME NEW I \in SUBSET Nat, NEW n \in Nat, \A i \in I : i < n,
         NEW N, NEW M, NEW C, NEW O, Alternate(I, N, C, O), \A i \in I : M[i] = N[i], M[n].kind = "submit"
  PROVE  Alternate(I \cup {n}, M, C, O)
  <1>1. \A c \in Ctxs, k \in I \cup {n} : About(M[k], c) => k \in I /\ About(N[k], c) /\ M[k] = N[k]
    BY Zenon DEF About
  <1>2. \A c \in Ctxs, k \in I : About(N[k], c) => About(M[k], c)
    BY Zenon DEF About
  <1>3. SUFFICES ASSUME NEW c \in Ctxs
        PROVE  /\ (\E k \in I \cup {n} : About(M[k], c)) \/ (c \in C => c \in O)
               /\ \A j \in I \cup {n} : About(M[j], c) =>
                   /\ M[j].kind = "create" => (\E k \in I \cup {n} : k < j /\ About(M[k], c)) \/ c \notin C
                   /\ (\E k \in I \cup {n} : j < k /\ About(M[k], c)) \/ (M[j].kind = "create" <=> c \in O)
                   /\ \A i \in I \cup {n} : i < j /\ About(M[i], c) =>
                        (\E k \in I \cup {n} : i < k /\ k < j /\ About(M[k], c)) \/ M[i].kind # M[j].kind
    BY Zenon DEF Alternate
  <1>4. (\E k \in I \cup {n} : About(M[k], c)) \/ (c \in C => c \in O)
    BY <1>2, Zenon DEF Alternate
  <1>5. ASSUME NEW j \in I \cup {n}, About(M[j], c)
        PROVE  /\ M[j].kind = "create" => (\E k \in I \cup {n} : k < j /\ About(M[k], c)) \/ c \notin C
               /\ (\E k \in I \cup {n} : j < k /\ About(M[k], c)) \/ (M[j].kind = "create" <=> c \in O)
    <2>1. j \in I /\ About(N[j], c) /\ M[j] = N[j]
      BY <1>1, <1>5, Zenon
    <2>2. QED BY <1>2, <2>1, ZenonT(40) DEF Alternate
  <1>6. ASSUME NEW j \in I \cup {n}, About(M[j], c), NEW i \in I \cup {n}, i < j, About(M[i], c)
        PROVE  (\E k \in I \cup {n} : i < k /\ k < j /\ About(M[k], c)) \/ M[i].kind # M[j].kind
    <2>1. j \in I /\ About(N[j], c) /\ M[j] = N[j] /\ i \in I /\ About(N[i], c) /\ M[i] = N[i]
      BY <1>1, <1>6, Zenon
    <2>2. (\E k \in I : i < k /\ k < j /\ About(N[k], c)) \/ N[i].kind # N[j].kind
      BY <1>6, <2>1, Zenon DEF Alternate
    <2>3. QED BY <1>2, <2>1, <2>2, Zenon
  <1>7. QED BY <1>4, <1>5, <1>6, Zenon

LEMMA AlternateContext ==
  ASSUME NEW I \in SUBSET Nat, NEW n \in Nat, \A i \in I : i < n,
         NEW N, NEW M, NEW C, NEW O, NEW P, Alternate(I, N, C, O), \A i \in I : M[i] = N[i],
         NEW c \in Ctxs, M[n].ctx = c, M[n].kind = IF c \in O THEN "destroy" ELSE "create",
         P = IF c \in O THEN O \ {c} ELSE O \cup {c}
  PROVE  Alternate(I \cup {n}, M, C, P)
  <1>1. \A d \in Ctxs : d # c => ~About(M[n], d) /\ (d \in P <=> d \in O)
    BY Zenon DEF About
  <1>2. About(M[n], c) /\ (M[n].kind = "create" <=> c \in P)
    BY Zenon DEF About
  <1>3. ASSUME NEW d \in Ctxs, d # c
        PROVE  /\ (\E k \in I \cup {n} : About(M[k], d)) \/ (d \in C => d \in P)
               /\ \A j \in I \cup {n} : About(M[j], d) =>
                   /\ M[j].kind = "create" => (\E k \in I \cup {n} : k < j /\ About(M[k], d)) \/ d \notin C
                   /\ (\E k \in I \cup {n} : j < k /\ About(M[k], d)) \/ (M[j].kind = "create" <=> d \in P)
                   /\ \A i \in I \cup {n} : i < j /\ About(M[i], d) =>
                        (\E k \in I \cup {n} : i < k /\ k < j /\ About(M[k], d)) \/ M[i].kind # M[j].kind
    <2>1. \A k \in I \cup {n} : About(M[k], d) => k \in I /\ About(N[k], d) /\ M[k] = N[k]
      BY <1>1, <1>3, Zenon
    <2>2. \A k \in I : About(N[k], d) => k \in I \cup {n} /\ About(M[k], d)
      BY Zenon
    <2>3. d \in P <=> d \in O
      BY <1>1, <1>3, Zenon
    <2>4. /\ (\E k \in I : About(N[k], d)) \/ (d \in C => d \in O)
          /\ \A j \in I : About(N[j], d) =>
              /\ N[j].kind = "create" => (\E k \in I : k < j /\ About(N[k], d)) \/ d \notin C
              /\ (\E k \in I : j < k /\ About(N[k], d)) \/ (N[j].kind = "create" <=> d \in O)
              /\ \A i \in I : i < j /\ About(N[i], d) =>
                   (\E k \in I : i < k /\ k < j /\ About(N[k], d)) \/ N[i].kind # N[j].kind
      BY Zenon DEF Alternate
    <2>5. QED BY <2>1, <2>2, <2>3, <2>4
  <1>4. \A j \in I : About(M[j], c) =>
             /\ M[j].kind = "create" => (\E k \in I \cup {n} : k < j /\ About(M[k], c)) \/ c \notin C
             /\ \E k \in I \cup {n} : j < k /\ About(M[k], c)
             /\ \A i \in I \cup {n} : i < j /\ About(M[i], c) =>
                  (\E k \in I \cup {n} : i < k /\ k < j /\ About(M[k], c)) \/ M[i].kind # M[j].kind
    <2>1. \A j \in I : About(M[j], c) => \E k \in I \cup {n} : j < k /\ About(M[k], c)
      BY <1>2, Zenon
    <2>2. \A j \in I, i \in I \cup {n} : i < j => i \in I
      <3> TAKE j \in I, i \in I \cup {n}
      <3>1. j < n /\ j \in Nat
        BY Zenon
      <3>2. QED BY <3>1
    <2>3. \A k \in I : k \in I \cup {n} /\ M[k] = N[k]
      BY Zenon
    <2>4. \A j \in I : About(M[j], c) /\ M[j].kind = "create" =>
              (\E k \in I \cup {n} : k < j /\ About(M[k], c)) \/ c \notin C
      BY <2>3 DEF Alternate
    <2>5. ASSUME NEW j \in I, About(M[j], c), NEW i \in I \cup {n}, i < j, About(M[i], c)
          PROVE  (\E k \in I \cup {n} : i < k /\ k < j /\ About(M[k], c)) \/ M[i].kind # M[j].kind
      <3>1. i \in I
        BY <2>2, <2>5, ZenonT(40)
      <3>2. (\E k \in I : i < k /\ k < j /\ About(N[k], c)) \/ N[i].kind # N[j].kind
        BY <2>3, <2>5, <3>1, SMTT(40) DEF Alternate
      <3>3. QED BY <2>3, <3>1, <3>2, Zenon
    <2>6. QED BY <2>1, <2>4, <2>5, Zenon
  <1>5. M[n].kind = "create" => (\E k \in I \cup {n} : k < n /\ About(M[k], c)) \/ c \notin C
    BY <1>2, Zenon DEF Alternate
  <1>6. ASSUME NEW i \in I \cup {n}, i < n, About(M[i], c)
        PROVE  (\E k \in I \cup {n} : i < k /\ k < n /\ About(M[k], c)) \/ M[i].kind # M[n].kind
    <2>1. i \in I /\ M[i] = N[i] /\ About(N[i], c)
      BY <1>6
    <2>2. (\E k \in I : i < k /\ About(N[k], c)) \/ (N[i].kind = "create" <=> c \in O)
      BY <2>1, Zenon DEF Alternate
    <2>3. CASE N[i].kind = "create" <=> c \in O
      BY <2>1, <2>3, Zenon
    <2>4. QED BY <2>2, <2>3, Zenon
  <1>7. ASSUME NEW j \in I \cup {n}, About(M[j], c)
        PROVE  /\ M[j].kind = "create" => (\E k \in I \cup {n} : k < j /\ About(M[k], c)) \/ c \notin C
               /\ (\E k \in I \cup {n} : j < k /\ About(M[k], c)) \/ (M[j].kind = "create" <=> c \in P)
               /\ \A i \in I \cup {n} : i < j /\ About(M[i], c) =>
                    (\E k \in I \cup {n} : i < k /\ k < j /\ About(M[k], c)) \/ M[i].kind # M[j].kind
    <2>1. CASE j = n
      BY <1>2, <1>5, <1>6, <2>1, Zenon
    <2>2. CASE j \in I
      BY <1>4, <1>7, <2>2, Zenon
    <2>3. QED BY <2>1, <2>2, Zenon
  <1>8. \E k \in I \cup {n} : About(M[k], c)
    BY <1>2, Zenon
  <1>9. SUFFICES ASSUME NEW d \in Ctxs
        PROVE  /\ (\E k \in I \cup {n} : About(M[k], d)) \/ (d \in C => d \in P)
               /\ \A j \in I \cup {n} : About(M[j], d) =>
                   /\ M[j].kind = "create" => (\E k \in I \cup {n} : k < j /\ About(M[k], d)) \/ d \notin C
                   /\ (\E k \in I \cup {n} : j < k /\ About(M[k], d)) \/ (M[j].kind = "create" <=> d \in P)
                   /\ \A i \in I \cup {n} : i < j /\ About(M[i], d) =>
                        (\E k \in I \cup {n} : i < k /\ k < j /\ About(M[k], d)) \/ M[i].kind # M[j].kind
    BY Zenon DEF Alternate
  <1>10. CASE d = c
    BY <1>7, <1>8, <1>10, Zenon
  <1>11. QED BY <1>3, <1>10, Zenon

\* The worker is done with a command about a context, whose timelines start over.
LEMMA OrderCleared ==
  ASSUME NEW I \in SUBSET Nat, 0 \in I, NEW N, NEW M, NEW D, NEW E, NEW s, Ordered(I, N, D, s),
         \A i \in I \ {0} : M[i] = N[i] /\ Posted(N[i]), N[0].kind # "submit",
         \A r \in Rings : s[r] \in Nat,
         \A r \in Rings : E[r] = IF Clears(N[0], r) THEN {0} ELSE D[r]
  PROVE  Ordered(I \ {0}, M, E, s)
  <1> DEFINE J == I \ {0}
  <1>0. \A i \in J : i \in Nat /\ i \in I /\ 0 < i /\ M[i] = N[i] /\ Posted(N[i])
    <2>1. \A i \in J : i \in I /\ M[i] = N[i] /\ Posted(N[i])
      BY Zenon
    <2>2. QED BY <2>1, Later, Zenon
  <1>1. ASSUME NEW r \in Rings PROVE (\E k \in J : Clears(M[k], r)) \/ \A m \in E[r] : m <= s[r]
    <2>1. CASE Clears(N[0], r)
      <3>1. E[r] = {0} /\ s[r] \in Nat
        BY <2>1, Zenon
      <3>2. QED BY <3>1
    <2>2. CASE ~Clears(N[0], r)
      BY <1>0, <2>2, Zenon DEF Ordered
    <2>3. QED BY <2>1, <2>2, Zenon
  <1>2. ASSUME NEW r \in Rings, NEW j \in J, Fences(M[j], r)
        PROVE  (\E k \in J : k < j /\ Clears(M[k], r)) \/ \A m \in E[r] : m < M[j].fence
    <2>1. CASE Clears(N[0], r)
      <3>1. E[r] = {0} /\ M[j].fence \in Nat /\ M[j].fence # 0
        BY <1>0, <1>2, <2>1, Zenon DEF Posted, Fences
      <3>2. QED BY <3>1
    <2>2. CASE ~Clears(N[0], r)
      <3>1. (\E k \in I : k < j /\ Clears(N[k], r)) \/ \A m \in D[r] : m < N[j].fence
        BY <1>0, <1>2, Zenon DEF Ordered
      <3>2. QED BY <1>0, <2>2, <3>1, Zenon
    <2>3. QED BY <2>1, <2>2, ZenonT(40)
  <1>3. ASSUME NEW r \in Rings, NEW j \in J, Fences(M[j], r)
        PROVE  (\E k \in J : j < k /\ Clears(M[k], r)) \/ M[j].fence <= s[r]
    <2>1. (\E k \in I : j < k /\ Clears(N[k], r)) \/ N[j].fence <= s[r]
      BY <1>0, <1>3, Zenon DEF Ordered
    <2>2. \A k \in I : j < k => k \in J
      BY Later, Zenon
    <2>3. QED BY <1>0, <2>1, <2>2, Zenon
  <1>4. ASSUME NEW r \in Rings, NEW j \in J, Fences(M[j], r), NEW i \in J, i < j, Fences(M[i], r)
        PROVE  (\E k \in J : i < k /\ k < j /\ Clears(M[k], r)) \/ M[i].fence < M[j].fence
    <2>1. (\E k \in I : i < k /\ k < j /\ Clears(N[k], r)) \/ N[i].fence < N[j].fence
      BY <1>0, <1>4, Zenon DEF Ordered
    <2>2. \A k \in I : i < k => k \in J
      BY Later, Zenon
    <2>3. QED BY <1>0, <2>1, <2>2, Zenon
  <1> HIDE DEF J
  <1>5. Ordered(J, M, E, s)
    BY <1>1, <1>2, <1>3, <1>4, Zenon DEF Ordered
  <1>6. QED BY <1>5, Zenon DEF J

\* The worker creates the fence of the command in hand.
LEMMA OrderFenced ==
  ASSUME NEW I \in SUBSET Nat, 0 \in I, NEW N, NEW M, NEW D, NEW E, NEW s, Ordered(I, N, D, s),
         \A i \in I \ {0} : M[i] = N[i], NEW q \in Rings, Fences(N[0], q),
         \A r \in Rings : \A m \in E[r] : m \in D[r] \/ (r = q /\ m = N[0].fence)
  PROVE  Ordered(I \ {0}, M, E, s)
  <1> DEFINE J == I \ {0}
  <1>0. \A i \in J : i \in Nat /\ i \in I /\ 0 < i /\ M[i] = N[i]
    BY Later, Zenon
  <1>n. \A r \in Rings : ~Clears(N[0], r)
    BY Zenon DEF Clears, Fences
  <1>1. ASSUME NEW r \in Rings PROVE (\E k \in J : Clears(M[k], r)) \/ \A m \in E[r] : m <= s[r]
    <2>1. (\E k \in J : Clears(M[k], r)) \/ \A m \in D[r] : m <= s[r]
      BY <1>n, Zenon DEF Ordered
    <2>2. CASE r = q
      <3>1. (\E k \in I : 0 < k /\ Clears(N[k], q)) \/ N[0].fence <= s[q]
        BY Zenon DEF Ordered
      <3>2. \A k \in I : 0 < k => k \in J /\ M[k] = N[k]
        BY <1>0
      <3>3. CASE N[0].fence <= s[q]
        BY <2>1, <2>2, <3>3, Zenon
      <3>4. QED BY <2>2, <3>1, <3>2, <3>3, Zenon
    <2>3. QED BY <2>1, <2>2, Zenon
  <1>2. ASSUME NEW r \in Rings, NEW j \in J, Fences(M[j], r)
        PROVE  (\E k \in J : k < j /\ Clears(M[k], r)) \/ \A m \in E[r] : m < M[j].fence
    <2>1. (\E k \in J : k < j /\ Clears(M[k], r)) \/ \A m \in D[r] : m < M[j].fence
      <3>1. (\E k \in I : k < j /\ Clears(N[k], r)) \/ \A m \in D[r] : m < N[j].fence
        BY <1>0, <1>2, Zenon DEF Ordered
      <3>2. QED BY <1>0, <1>n, <3>1, Zenon
    <2>2. CASE r = q
      <3>1. (\E k \in I : 0 < k /\ k < j /\ Clears(N[k], q)) \/ N[0].fence < N[j].fence
        BY <1>0, <1>2, <2>2, Zenon DEF Ordered
      <3>2. CASE N[0].fence < N[j].fence
        BY <1>0, <2>1, <2>2, <3>2, Zenon
      <3>3. QED BY <1>0, <2>2, <3>1, <3>2, Later, Zenon
    <2>3. QED BY <2>1, <2>2, Zenon
  <1>3. ASSUME NEW r \in Rings, NEW j \in J, Fences(M[j], r)
        PROVE  (\E k \in J : j < k /\ Clears(M[k], r)) \/ M[j].fence <= s[r]
    <2>1. (\E k \in I : j < k /\ Clears(N[k], r)) \/ N[j].fence <= s[r]
      BY <1>0, <1>3, Zenon DEF Ordered
    <2>2. \A k \in I : j < k => k \in J /\ M[k] = N[k]
      BY <1>0
    <2>3. QED BY <1>0, <2>1, <2>2, Zenon
  <1>4. ASSUME NEW r \in Rings, NEW j \in J, Fences(M[j], r), NEW i \in J, i < j, Fences(M[i], r)
        PROVE  (\E k \in J : i < k /\ k < j /\ Clears(M[k], r)) \/ M[i].fence < M[j].fence
    <2>1. (\E k \in I : i < k /\ k < j /\ Clears(N[k], r)) \/ N[i].fence < N[j].fence
      BY <1>0, <1>4, Zenon DEF Ordered
    <2>2. \A k \in I : i < k => k \in J
      BY Later, Zenon
    <2>3. QED BY <1>0, <2>1, <2>2, Zenon
  <1> HIDE DEF J
  <1>5. Ordered(J, M, E, s)
    BY <1>1, <1>2, <1>3, <1>4, Zenon DEF Ordered
  <1>6. QED BY <1>5, Zenon DEF J

LEMMA AlternateDone ==
  ASSUME NEW I \in SUBSET Nat, 0 \in I, NEW N, NEW M, NEW C, NEW B, NEW O, Alternate(I, N, C, O),
         \A i \in I \ {0} : M[i] = N[i], NEW c \in Ctxs, About(N[0], c), N[0].kind \in {"create", "destroy"},
         \A d \in Ctxs : d # c => (d \in B <=> d \in C),
         N[0].kind = "destroy" => c \notin B
  PROVE  Alternate(I \ {0}, M, B, O)
  <1> DEFINE J == I \ {0}
  <1>0. \A i \in J : i \in Nat /\ i \in I /\ 0 < i /\ M[i] = N[i]
    BY Later, Zenon
  <1>n. \A d \in Ctxs : d # c => ~About(N[0], d)
    BY Zenon DEF About
  <1>1. ASSUME NEW d \in Ctxs PROVE (\E k \in J : About(M[k], d)) \/ (d \in B => d \in O)
    <2>1. CASE d = c
      <3>1. (\E k \in I : 0 < k /\ About(N[k], c)) \/ (N[0].kind = "create" <=> c \in O)
        BY Zenon DEF Alternate
      <3>2. QED BY <1>0, <2>1, <3>1
    <2>2. CASE d # c
      BY <1>0, <1>n, <2>2, Zenon DEF Alternate
    <2>3. QED BY <2>1, <2>2, Zenon
  <1>2. ASSUME NEW d \in Ctxs, NEW j \in J, About(M[j], d), M[j].kind = "create"
        PROVE  (\E k \in J : k < j /\ About(M[k], d)) \/ d \notin B
    <2>1. CASE d = c
      <3>1. (\E k \in I : 0 < k /\ k < j /\ About(N[k], c)) \/ N[0].kind # N[j].kind
        BY <1>0, <1>2, <2>1, Zenon DEF Alternate
      <3>2. QED BY <1>0, <1>2, <2>1, <3>1
    <2>2. CASE d # c
      <3>1. (\E k \in I : k < j /\ About(N[k], d)) \/ d \notin C
        BY <1>0, <1>2, Zenon DEF Alternate
      <3>2. QED BY <1>0, <1>n, <2>2, <3>1, Zenon
    <2>3. QED BY <2>1, <2>2, Zenon
  <1>3. ASSUME NEW d \in Ctxs, NEW j \in J, About(M[j], d)
        PROVE  (\E k \in J : j < k /\ About(M[k], d)) \/ (M[j].kind = "create" <=> d \in O)
    <2>1. (\E k \in I : j < k /\ About(N[k], d)) \/ (N[j].kind = "create" <=> d \in O)
      BY <1>0, <1>3, Zenon DEF Alternate
    <2>2. \A k \in I : j < k => k \in J
      BY Later, Zenon
    <2>3. QED BY <1>0, <2>1, <2>2, Zenon
  <1>4. ASSUME NEW d \in Ctxs, NEW j \in J, About(M[j], d), NEW i \in J, i < j, About(M[i], d)
        PROVE  (\E k \in J : i < k /\ k < j /\ About(M[k], d)) \/ M[i].kind # M[j].kind
    <2>1. (\E k \in I : i < k /\ k < j /\ About(N[k], d)) \/ N[i].kind # N[j].kind
      BY <1>0, <1>4, ZenonT(40) DEF Alternate
    <2>2. \A k \in I : i < k => k \in J /\ M[k] = N[k]
      BY <1>0
    <2>3. QED BY <1>0, <2>1, <2>2, ZenonT(40)
  <1> HIDE DEF J
  <1>5. Alternate(J, M, B, O)
    BY <1>1, <1>2, <1>3, <1>4 DEF Alternate
  <1>6. QED BY <1>5, Zenon DEF J

(***************************************************************************)
(* Where the chains are: L gives the chains at each spot.                  *)
(***************************************************************************)
Spots == {"avail", "used", "completed", "hand", "orphaned", "descs", "callback"}
Apart(L, S) ==
  /\ \A s, t \in Spots : s # t => L[s] \cap L[t] = {}
  /\ \A h : h \in S <=> \E s \in Spots : h \in L[s]

LEMMA Moved ==
  ASSUME NEW L, NEW K, NEW S, Apart(L, S), NEW a \in Spots, NEW b \in Spots, a # b, NEW H \in SUBSET L[a],
         K[a] = L[a] \ H, K[b] = L[b] \cup H, \A s \in Spots \ {a, b} : K[s] = L[s]
  PROVE  Apart(K, S)
  <1>1. \A s, t \in Spots : s # t => K[s] \cap K[t] = {}
    BY DEF Apart
  <1>2. ASSUME NEW h PROVE h \in S <=> \E s \in Spots : h \in K[s]
    <2>1. ASSUME NEW s \in Spots, h \in L[s] PROVE \E t \in Spots : h \in K[t]
      <3>1. CASE s = a
        BY <2>1, <3>1, Zenon
      <3>2. CASE s # a
        BY <2>1, <3>2, Zenon
      <3>3. QED BY <3>1, <3>2, Zenon
    <2>2. ASSUME NEW s \in Spots, h \in K[s] PROVE \E t \in Spots : h \in L[t]
      BY <2>2, Zenon
    <2>3. QED BY <2>1, <2>2, Zenon DEF Apart
  <1>3. QED BY <1>1, <1>2, Zenon DEF Apart

LEMMA Entered ==
  ASSUME NEW L, NEW K, NEW S, Apart(L, S), NEW x, x \notin S, NEW b \in Spots,
         K[b] = L[b] \cup {x}, \A s \in Spots \ {b} : K[s] = L[s]
  PROVE  Apart(K, S \cup {x})
  <1>1. \A s \in Spots : x \notin L[s]
    BY Zenon DEF Apart
  <1>2. \A s, t \in Spots : s # t => K[s] \cap K[t] = {}
    BY <1>1 DEF Apart
  <1>3. \A h : h \in S \cup {x} <=> \E s \in Spots : h \in K[s]
    BY Zenon DEF Apart
  <1>4. QED BY <1>2, <1>3, Zenon DEF Apart

LEMMA Left ==
  ASSUME NEW L, NEW K, NEW S, Apart(L, S), NEW a \in Spots,
         K[a] = {}, \A s \in Spots \ {a} : K[s] = L[s]
  PROVE  Apart(K, S \ L[a])
  <1>1. \A s, t \in Spots : s # t => K[s] \cap K[t] = {}
    BY Zenon DEF Apart
  <1>2. \A h : h \in S \ L[a] <=> \E s \in Spots : h \in K[s]
    BY Zenon DEF Apart
  <1>3. QED BY <1>1, <1>2, Zenon DEF Apart

\* Sequences without repetition.
LEMMA InjAppend ==
  ASSUME NEW S, NEW s \in Seq(S), IsInjective(s), NEW x \in S, x \notin Range(s)
  PROVE  Append(s, x) \in Seq(S) /\ IsInjective(Append(s, x)) /\ Range(Append(s, x)) = Range(s) \cup {x}
  <1>1. PICK t : t = Append(s, x)
    BY Zenon
  <1>2. /\ Len(s) \in Nat /\ DOMAIN s = 1 .. Len(s) /\ t \in Seq(S) /\ DOMAIN t = 1 .. Len(s) + 1
        /\ \A i \in 1 .. Len(s) : t[i] = s[i] /\ s[i] \in Range(s)
        /\ t[Len(s) + 1] = x
    BY <1>1 DEF Range
  <1>3. IsInjective(t)
    BY <1>2 DEF IsInjective
  <1>4. Range(t) = Range(s) \cup {x}
    <2>1. Range(t) \subseteq Range(s) \cup {x}
      BY <1>2 DEF Range
    <2>a. Len(s) + 1 \in DOMAIN t /\ DOMAIN s \subseteq DOMAIN t
      BY <1>2
    <2>2. x \in Range(t)
      BY <1>2, <2>a, Zenon DEF Range
    <2>3. Range(s) \subseteq Range(t)
      BY <1>2, <2>a, Zenon DEF Range
    <2>4. QED BY <2>1, <2>2, <2>3, Zenon
  <1>5. QED BY <1>1, <1>2, <1>3, <1>4, Zenon

LEMMA InjTail ==
  ASSUME NEW S, NEW s \in Seq(S), IsInjective(s), s # <<>>
  PROVE  /\ Tail(s) \in Seq(S) /\ IsInjective(Tail(s)) /\ Head(s) \in S /\ Head(s) \in Range(s)
         /\ Range(Tail(s)) = Range(s) \ {Head(s)}
  <1>1. /\ Len(s) \in Nat \ {0} /\ DOMAIN s = 1 .. Len(s) /\ Head(s) = s[1] /\ Tail(s) \in Seq(S)
        /\ DOMAIN Tail(s) = 1 .. Len(s) - 1 /\ \A i \in 1 .. Len(s) - 1 : Tail(s)[i] = s[i + 1]
    OBVIOUS
  <1>2. IsInjective(Tail(s))
    BY <1>1 DEF IsInjective
  <1>3. Range(Tail(s)) \subseteq Range(s) \ {Head(s)}
    BY <1>1 DEF IsInjective, Range
  <1>4. ASSUME NEW x \in Range(s), x # s[1] PROVE x \in Range(Tail(s))
    <2>1. PICK i \in 1 .. Len(s) : s[i] = x
      BY <1>1, Zenon DEF Range
    <2>2. i - 1 \in 1 .. Len(s) - 1 /\ (i - 1) + 1 = i
      BY <1>1, <1>4, <2>1
    <2>3. Tail(s)[i - 1] = x
      BY <1>1, <2>1, <2>2, Zenon
    <2>4. QED BY <1>1, <2>2, <2>3, Zenon DEF Range
  <1>5. Head(s) \in S /\ Head(s) \in Range(s)
    BY <1>1 DEF Range
  <1>6. Range(Tail(s)) = Range(s) \ {Head(s)}
    BY <1>1, <1>3, <1>4, Zenon
  <1>7. QED BY <1>1, <1>2, <1>5, <1>6, Zenon

LEMMA InjConcat ==
  ASSUME NEW S, NEW s \in Seq(S), NEW t \in Seq(S), IsInjective(s), IsInjective(t), Range(s) \cap Range(t) = {}
  PROVE  s \o t \in Seq(S) /\ IsInjective(s \o t) /\ Range(s \o t) = Range(s) \cup Range(t)
  <1>1. /\ Len(s) \in Nat /\ Len(t) \in Nat /\ DOMAIN s = 1 .. Len(s) /\ DOMAIN t = 1 .. Len(t)
        /\ s \o t \in Seq(S) /\ DOMAIN (s \o t) = 1 .. Len(s) + Len(t)
        /\ \A i \in 1 .. Len(s) + Len(t) : (s \o t)[i] = IF i <= Len(s) THEN s[i] ELSE t[i - Len(s)]
    OBVIOUS
  <1>2. \A i \in 1 .. Len(s) : s[i] \in Range(s)
    BY <1>1, Zenon DEF Range
  <1>3. \A i \in 1 .. Len(t) : t[i] \in Range(t)
    BY <1>1, Zenon DEF Range
  <1>4. ASSUME NEW i \in 1 .. Len(s) + Len(t), NEW j \in 1 .. Len(s) + Len(t), (s \o t)[i] = (s \o t)[j]
        PROVE  i = j
    <2>1. CASE i <= Len(s) /\ j <= Len(s)
      BY <1>1, <1>4, <2>1 DEF IsInjective
    <2>2. CASE i > Len(s) /\ j > Len(s)
      <3>1. i - Len(s) \in 1 .. Len(t) /\ j - Len(s) \in 1 .. Len(t) /\ t[i - Len(s)] = t[j - Len(s)]
        BY <1>1, <1>4, <2>2
      <3>2. i - Len(s) = j - Len(s)
        BY <1>1, <3>1, Zenon DEF IsInjective
      <3>3. QED BY <1>1, <3>2
    <2>3. CASE i <= Len(s) /\ j > Len(s)
      <3>1. i \in 1 .. Len(s) /\ j - Len(s) \in 1 .. Len(t) /\ s[i] = t[j - Len(s)]
        BY <1>1, <1>4, <2>3
      <3>2. QED BY <1>2, <1>3, <3>1, Zenon
    <2>4. CASE j <= Len(s) /\ i > Len(s)
      <3>1. j \in 1 .. Len(s) /\ i - Len(s) \in 1 .. Len(t) /\ s[j] = t[i - Len(s)]
        BY <1>1, <1>4, <2>4
      <3>2. QED BY <1>2, <1>3, <3>1, Zenon
    <2>5. QED BY <1>1, <2>1, <2>2, <2>3, <2>4
  <1>5. ASSUME NEW i \in 1 .. Len(t) PROVE t[i] \in Range(s \o t)
    <2>1. i + Len(s) \in 1 .. Len(s) + Len(t) /\ ~(i + Len(s) <= Len(s)) /\ (i + Len(s)) - Len(s) = i
      BY <1>1
    <2>2. (s \o t)[i + Len(s)] = t[i]
      BY <1>1, <2>1, Zenon
    <2>3. QED BY <1>1, <2>1, <2>2, Zenon DEF Range
  <1>6. ASSUME NEW i \in 1 .. Len(s) PROVE s[i] \in Range(s \o t)
    <2>1. i \in 1 .. Len(s) + Len(t) /\ (s \o t)[i] = s[i]
      BY <1>1
    <2>2. QED BY <1>1, <2>1, Zenon DEF Range
  <1>7. ASSUME NEW i \in 1 .. Len(s) + Len(t) PROVE (s \o t)[i] \in Range(s) \cup Range(t)
    BY <1>1, <1>2, <1>3
  <1>8. IsInjective(s \o t)
    BY <1>1, <1>4, Zenon DEF IsInjective
  <1>9. Range(s \o t) = Range(s) \cup Range(t)
    <2>1. Range(s \o t) \subseteq Range(s) \cup Range(t)
      BY <1>1, <1>7, Zenon DEF Range
    <2>2. Range(s) \subseteq Range(s \o t) /\ Range(t) \subseteq Range(s \o t)
      BY <1>1, <1>5, <1>6, Zenon DEF Range
    <2>3. QED BY <2>1, <2>2, Zenon
  <1>10. QED BY <1>1, <1>8, <1>9, Zenon

\* A batch in some order.
LEMMA BatchFacts ==
  ASSUME NEW S, NEW b \in Orders(S)
  PROVE  b \in Seq(S) /\ IsInjective(b) /\ Range(b) = S
  <1>1. PICK n \in 0 .. Cardinality(S) : b \in Bijection(1 .. n, S)
    BY Zenon DEF Orders
  <1>2. n \in Nat /\ b \in [1 .. n -> S] /\ IsInjective(b) /\ \A y \in S : \E i \in 1 .. n : b[i] = y
    BY <1>1 DEF Bijection, Injection, Surjection
  <1>3. b \in Seq(S)
    BY <1>2
  <1>4. Range(b) = S
    BY <1>2, Zenon DEF Range
  <1>5. QED BY <1>2, <1>3, <1>4, Zenon

\* The seven spots, as one function.
Chart(a, u, c, h, o, d, b) ==
  [s \in Spots |-> IF s = "avail" THEN a ELSE IF s = "used" THEN u ELSE IF s = "completed" THEN c
                   ELSE IF s = "hand" THEN h ELSE IF s = "orphaned" THEN o ELSE IF s = "descs" THEN d ELSE b]

LEMMA Charted ==
  ASSUME NEW a, NEW u, NEW c, NEW h, NEW o, NEW d, NEW b, NEW L, L = Chart(a, u, c, h, o, d, b)
  PROVE  /\ L["avail"] = a /\ L["used"] = u /\ L["completed"] = c /\ L["hand"] = h
         /\ L["orphaned"] = o /\ L["descs"] = d /\ L["callback"] = b
  BY Zenon DEF Chart, Spots

(***************************************************************************)
(* The invariant: types, and what the worker's position says.              *)
(***************************************************************************)
Fence == [head : Heads, ring : Rings, id : Nat]
Holding == {"execute", "fence", "forget", "orphans", "orphans_irq", "process"}
Steps == Holding \cup {"dead", "spin", "read", "sleep", "woken", "pop", "retire", "notify"}

ChainTypes ==
  /\ avail \in Seq(Heads) /\ used \in Seq(Heads) /\ completed \in Seq(Heads)
  /\ owned \in SUBSET Heads /\ orphaned \in SUBSET Heads /\ hand \in Heads \cup {NoHead}
  /\ cmd = [h \in Heads |-> cmd[h]] /\ \A h \in owned : Posted(cmd[h])

RingTypes ==
  /\ descs \in SUBSET Fence /\ pending \in SUBSET Fence /\ owed \in SUBSET Fence
  /\ callback \in [Rings -> [at : {"idle", "push", "irq"}, done : SUBSET Heads]]
  /\ \A r \in Rings : callback[r].at # "push" => callback[r].done = {}
  /\ open \in SUBSET Ctxs /\ contexts \in SUBSET Ctxs
  /\ seq \in [Rings -> Nat] /\ completed_fences \in [Rings -> Nat]

Control ==
  /\ pc \in Steps
  /\ hand \in Heads <=> pc \in Holding
  /\ pc # "orphans" => orphaned = {}
  /\ pc \in Holding \cup {"pop", "retire"} \/ completed = <<>>
  /\ pc \in {"forget", "orphans", "orphans_irq"} => cmd[hand].kind = "destroy"
  /\ pc = "process" => cmd[hand].kind = "submit"
  /\ ~worker => pc = "dead" /\ owned = {} /\ avail = <<>> /\ used = <<>>
  /\ pc = "dead" => /\ descs = {} /\ pending = {} /\ owed = {} /\ contexts = {}
                    /\ \A r \in Rings : callback[r] = Idle /\ completed_fences[r] = 0

Held(D) == {d.head : d \in D}
Called(f) == UNION {f[r].done : r \in Rings}
Heap == Chart(Range(avail), Range(used), Range(completed), {hand} \cap Heads, orphaned, Held(descs), Called(callback))

PlaceInv ==
  pc # "dead" =>
    /\ IsInjective(avail) /\ IsInjective(used) /\ IsInjective(completed)
    /\ \A d, e \in descs : d.head = e.head => d = e
    /\ \A r, q \in Rings : r # q => callback[r].done \cap callback[q].done = {}
    /\ Apart(Heap, owned)

FenceBase == ChainTypes /\ RingTypes /\ Control /\ PlaceInv

\* What is at each spot, and what will be.
LEMMA HeapAt ==
  /\ Heap["avail"] = Range(avail) /\ Heap["used"] = Range(used)
  /\ Heap["completed"] = Range(completed) /\ Heap["hand"] = {hand} \cap Heads
  /\ Heap["orphaned"] = orphaned /\ Heap["descs"] = Held(descs)
  /\ Heap["callback"] = Called(callback)
  BY Charted DEF Heap

LEMMA HeapNext ==
  /\ Heap'["avail"] = Range(avail)' /\ Heap'["used"] = Range(used)'
  /\ Heap'["completed"] = Range(completed)' /\ Heap'["hand"] = {hand'} \cap Heads
  /\ Heap'["orphaned"] = orphaned' /\ Heap'["descs"] = Held(descs)'
  /\ Heap'["callback"] = Called(callback)'
  BY Charted DEF Heap

LEMMA InHandFacts ==
  ASSUME FenceBase, pc \in Holding
  PROVE  /\ hand \in Heads /\ hand \in owned /\ hand \notin Range(used) /\ Posted(cmd[hand]) /\ pc # "dead"
         /\ hand \notin Held(descs) /\ hand \notin Range(completed)
  <1>1. hand \in Heads /\ pc # "dead"
    BY Zenon DEF FenceBase, Control, Holding
  <1>2. PICK L : L = Heap
    BY Zenon
  <1>3. /\ L["hand"] = {hand} \cap Heads /\ L["used"] = Range(used) /\ L["descs"] = Held(descs)
        /\ L["completed"] = Range(completed)
    BY <1>2, HeapAt, HeapNext, Zenon
  <1>4. Apart(L, owned)
    BY <1>1, <1>2, Zenon DEF FenceBase, PlaceInv
  <1>5. hand \in L["hand"] /\ {"hand", "used", "descs", "completed"} \subseteq Spots
    BY <1>1, <1>3, Zenon DEF Spots
  <1>6. hand \in owned
    BY <1>4, <1>5, Zenon DEF Apart
  <1>7. hand \notin L["used"] /\ hand \notin L["descs"] /\ hand \notin L["completed"]
    BY <1>4, <1>5, Zenon DEF Apart
  <1>8. QED BY <1>1, <1>3, <1>6, <1>7, Zenon DEF FenceBase, ChainTypes

LEMMA QueueFacts ==
  ASSUME FenceBase, pc # "dead"
  PROVE  Range(avail) \subseteq owned /\ Range(avail) \cap Range(used) = {}
  <1>2. PICK L : L = Heap
    BY Zenon
  <1>3. L["avail"] = Range(avail) /\ L["used"] = Range(used)
    BY <1>2, HeapAt, HeapNext, Zenon
  <1>4. Apart(L, owned)
    BY <1>2, Zenon DEF FenceBase, PlaceInv
  <1>5. {"avail", "used"} \subseteq Spots
    BY Zenon DEF Spots
  <1>6. QED BY <1>3, <1>4, <1>5, ZenonT(40) DEF Apart

LEMMA RingFacts ==
  /\ Global \in Rings
  /\ \A c \in Ctxs : Global \notin RingsOf(c) /\ RingsOf(c) \subseteq Rings
  /\ \A c, d \in Ctxs : c # d => RingsOf(c) \cap RingsOf(d) = {}
  /\ \A C \in SUBSET Ctxs : \A r \in Rings : r \in Timelines(C) <=> r = Global \/ \E c \in C : r \in RingsOf(c)
  /\ \A C \in SUBSET Ctxs : Timelines(C) \subseteq Rings
  /\ \A C \in SUBSET Ctxs, c \in Ctxs : \A r \in RingsOf(c) : r \in Timelines(C) <=> c \in C
  BY DEF Global, Rings, Timelines, RingsOf

LEMMA IdleFacts == Idle.at = "idle" /\ Idle.done = {} /\ Idle \in [at : {"idle", "push", "irq"}, done : SUBSET Heads]
  BY Zenon DEF Idle

chains == <<avail, used, completed, owned, orphaned, hand, cmd>>
rings == <<descs, pending, owed, callback, open, contexts, seq, completed_fences>>

LEMMA PlaceKept ==
  ASSUME PlaceInv, UNCHANGED <<avail, used, completed, owned, orphaned, hand, descs, callback>>,
         pc' # "dead" => pc # "dead"
  PROVE  PlaceInv'
  BY Zenon DEF PlaceInv, Heap

LEMMA BaseKept ==
  ASSUME FenceBase, UNCHANGED <<chains, rings>>, pc' # "dead" => pc # "dead", Control'
  PROVE  FenceBase'
  <1>1. ChainTypes' /\ RingTypes'
    BY Zenon DEF FenceBase, ChainTypes, RingTypes, chains, rings
  <1>2. PlaceInv'
    BY PlaceKept, Zenon DEF FenceBase, chains, rings
  <1>3. QED BY <1>1, <1>2, Zenon DEF FenceBase

\* The worker's steps that move nothing.
LEMMA BaseQuiet ==
  ASSUME FenceBase,
         \/ SpinSees \/ SpinEnds \/ Polled \/ PollInterrupted \/ ReadKick \/ GoOn \/ QueueEmpty
         \/ Execute \/ InterruptOrphans \/ Notify \/ DriverKick \/ reset \/ ResetRings
  PROVE  FenceBase'
  <1>1. UNCHANGED <<chains, rings, worker>>
    BY Zenon DEF SpinSees, SpinEnds, Polled, PollInterrupted, ReadKick, GoOn, QueueEmpty, Execute, InterruptOrphans,
           Notify, DriverKick, reset, ResetRings, chains, rings, driver, device, thread, fences, renderer
  <1>2. \/ UNCHANGED pc
        \/ /\ pc \notin Holding \cup {"pop", "retire", "dead"}
           /\ pc' \in {"spin", "read", "sleep", "woken", "pop"}
        \/ pc = "pop" /\ pc' = "retire"
        \/ pc \in {"execute", "orphans_irq"} /\ pc' = "fence"
    BY Zenon DEF SpinSees, SpinEnds, Polled, PollInterrupted, ReadKick, GoOn, QueueEmpty, Execute, InterruptOrphans,
           Notify, DriverKick, reset, ResetRings, Goes, thread, Holding
  <1>3. Control'
    <2>1. CASE UNCHANGED pc
      BY <1>1, <2>1, Zenon DEF FenceBase, Control, chains, rings
    <2>2. CASE /\ pc \notin Holding \cup {"pop", "retire", "dead"}
               /\ pc' \in {"spin", "read", "sleep", "woken", "pop"}
      BY <1>1, <2>2, Zenon DEF FenceBase, Control, chains, rings, Steps, Holding
    <2>3. CASE pc = "pop" /\ pc' = "retire"
      BY <1>1, <2>3, Zenon DEF FenceBase, Control, chains, rings, Steps, Holding
    <2>4. CASE pc \in {"execute", "orphans_irq"} /\ pc' = "fence"
      BY <1>1, <2>4, Zenon DEF FenceBase, Control, chains, rings, Steps, Holding
    <2>5. QED BY <1>2, <2>1, <2>2, <2>3, <2>4, Zenon
  <1>4. pc' # "dead" => pc # "dead"
    BY <1>2, Zenon DEF Holding
  <1>5. QED BY <1>1, <1>3, <1>4, BaseKept, Zenon

LEMMA BaseActivate == ASSUME FenceBase, activate PROVE FenceBase'
  <1>1. UNCHANGED <<chains, rings>> /\ ~worker /\ worker' = TRUE /\ pc' \in {"spin", "dead"}
    BY Zenon DEF activate, chains, rings, driver, fences, renderer
  <1>2. /\ pc = "dead" /\ owned = {} /\ avail = <<>> /\ used = <<>> /\ completed = <<>> /\ orphaned = {}
        /\ hand \notin Heads /\ descs = {} /\ \A r \in Rings : callback[r] = Idle
    BY <1>1, Zenon DEF FenceBase, Control, Holding
  <1>3. ChainTypes' /\ RingTypes'
    BY <1>1, Zenon DEF FenceBase, ChainTypes, RingTypes, chains, rings
  <1>4. Control'
    BY <1>1, <1>2, Zenon DEF FenceBase, Control, chains, rings, Steps, Holding
  <1>5. PlaceInv'
    <2>1. IsInjective(avail') /\ IsInjective(used') /\ IsInjective(completed')
      BY <1>1, <1>2 DEF IsInjective, chains
    <2>2. \A r, q \in Rings : callback'[r].done \cap callback'[q].done = {}
      BY <1>1, <1>2, IdleFacts, Zenon DEF rings
    <2>3. PICK L : L = Heap'
      BY Zenon
    <2>4. /\ L["avail"] = Range(avail)' /\ L["used"] = Range(used)' /\ L["completed"] = Range(completed)'
          /\ L["hand"] = ({hand} \cap Heads)' /\ L["orphaned"] = orphaned'
          /\ L["descs"] = Held(descs)' /\ L["callback"] = Called(callback)'
      BY <2>3, HeapAt, HeapNext, Zenon
    <2>5. \A s \in Spots : L[s] = {}
      <3>1. Range(avail)' = {} /\ Range(used)' = {} /\ Range(completed)' = {}
        BY <1>1, <1>2 DEF Range, chains
      <3>2. ({hand} \cap Heads)' = {} /\ orphaned' = {} /\ Held(descs)' = {} /\ Called(callback)' = {}
        BY <1>1, <1>2, IdleFacts DEF chains, rings, Held, Called
      <3>3. QED BY <2>4, <3>1, <3>2, Zenon DEF Spots
    <2>6. Apart(L, owned')
      BY <1>1, <1>2, <2>5, Zenon DEF Apart, chains
    <2>7. QED BY <1>1, <1>2, <2>1, <2>2, <2>3, <2>6, Zenon DEF PlaceInv, rings
  <1>6. QED BY <1>3, <1>4, <1>5, Zenon DEF FenceBase

\* The driver posts h.
LEMMA BasePosts ==
  ASSUME FenceBase, NEW h \in Heads, NEW c, Posted(c), Posts(h, c),
         open' \in SUBSET Ctxs, seq' \in [Rings -> Nat]
  PROVE  FenceBase'
  <1>1. /\ worker /\ h \notin owned /\ owned' = owned \cup {h} /\ cmd' = [cmd EXCEPT ![h] = c]
        /\ avail' = Append(avail, h)
        /\ UNCHANGED <<used, worker, pc, hand, completed, orphaned, descs, completed_fences,
                       contexts, pending, owed, callback>>
    BY Zenon DEF Posts, device, thread, fences, renderer
  <1>2. cmd' = [g \in Heads |-> cmd'[g]] /\ cmd'[h] = c /\ \A g \in Heads : g # h => cmd'[g] = cmd[g]
    BY <1>1, Zenon DEF FenceBase, ChainTypes
  <1>3. ChainTypes'
    <2>1. \A g \in owned' : Posted(cmd'[g])
      BY <1>1, <1>2, ZenonT(40) DEF FenceBase, ChainTypes
    <2>2. avail' \in Seq(Heads) /\ owned' \in SUBSET Heads
      BY <1>1 DEF FenceBase, ChainTypes
    <2>3. QED BY <1>1, <1>2, <2>1, <2>2, Zenon DEF FenceBase, ChainTypes
  <1>4. RingTypes'
    BY <1>1, Zenon DEF FenceBase, RingTypes
  <1>5. Control'
    <2>1. pc \in Holding => cmd'[hand] = cmd[hand]
      BY <1>1, <1>2, InHandFacts, Zenon
    <2>2. QED BY <1>1, <2>1, Zenon DEF FenceBase, Control, Holding
  <1>6. ASSUME pc # "dead" PROVE PlaceInv'
    <2>1. h \notin Range(avail)
      BY <1>1, <1>6, QueueFacts, Zenon
    <2>2. IsInjective(avail') /\ Range(avail)' = Range(avail) \cup {h}
      BY <1>1, <1>6, <2>1, InjAppend, ZenonT(40) DEF FenceBase, PlaceInv, ChainTypes
    <2>3. PICK L, K : L = Heap /\ K = Heap'
      BY Zenon
    <2>4. K["avail"] = L["avail"] \cup {h} /\ \A s \in Spots \ {"avail"} : K[s] = L[s]
      BY <1>1, <2>2, <2>3, HeapAt, HeapNext, Zenon DEF Spots, Chart
    <2>5. Apart(K, owned')
      <3>1. Apart(L, owned) /\ "avail" \in Spots
        BY <1>6, <2>3, Zenon DEF FenceBase, PlaceInv, Spots
      <3>2. QED BY <1>1, <2>4, <3>1, Entered, Zenon
    <2>6. QED BY <1>1, <1>6, <2>2, <2>3, <2>5, Zenon DEF FenceBase, PlaceInv
  <1>7. PlaceInv'
    BY <1>1, <1>6, Zenon DEF PlaceInv
  <1>8. QED BY <1>3, <1>4, <1>5, <1>7, Zenon DEF FenceBase

LEMMA BaseReap == ASSUME FenceBase, DriverReap PROVE FenceBase'
  <1>1. /\ owned' = owned \ Range(used) /\ used' = <<>>
        /\ cmd' = [h \in Heads |-> IF h \in Range(used) THEN NoCommand ELSE cmd[h]]
        /\ UNCHANGED <<avail, open, seq, worker, pc, hand, completed, orphaned, descs, completed_fences,
                       contexts, pending, owed, callback>>
    BY Zenon DEF DriverReap, thread, fences, renderer
  <1>2. ChainTypes'
    <2>1. cmd' = [h \in Heads |-> cmd'[h]] /\ \A h \in owned' : cmd'[h] = cmd[h]
      BY <1>1, Zenon DEF FenceBase, ChainTypes
    <2>2. \A h \in owned' : Posted(cmd'[h])
      BY <1>1, <2>1, Zenon DEF FenceBase, ChainTypes
    <2>3. used' \in Seq(Heads) /\ owned' \in SUBSET Heads
      BY <1>1 DEF FenceBase, ChainTypes
    <2>4. QED BY <1>1, <2>1, <2>2, <2>3, Zenon DEF FenceBase, ChainTypes
  <1>3. RingTypes'
    BY <1>1, Zenon DEF FenceBase, RingTypes
  <1>4. Control'
    <2>1. pc \in Holding => cmd'[hand] = cmd[hand]
      BY <1>1, InHandFacts, Zenon
    <2>2. QED BY <1>1, <2>1, Zenon DEF FenceBase, Control, Holding
  <1>5. ASSUME pc # "dead" PROVE PlaceInv'
    <2>1. IsInjective(used') /\ Range(used)' = {}
      BY <1>1 DEF IsInjective, Range
    <2>2. PICK L, K : L = Heap /\ K = Heap'
      BY Zenon
    <2>3. L["used"] = Range(used) /\ K["used"] = {} /\ \A s \in Spots \ {"used"} : K[s] = L[s]
      BY <1>1, <2>1, <2>2, Zenon DEF Heap, Spots, Chart
    <2>4. Apart(K, owned')
      <3>1. Apart(L, owned) /\ "used" \in Spots
        BY <1>5, <2>2, Zenon DEF FenceBase, PlaceInv, Spots
      <3>2. QED BY <1>1, <2>3, <3>1, Left, Zenon
    <2>5. QED BY <1>1, <1>5, <2>1, <2>2, <2>4, Zenon DEF FenceBase, PlaceInv
  <1>6. PlaceInv'
    BY <1>1, <1>5, Zenon DEF PlaceInv
  <1>7. QED BY <1>2, <1>3, <1>4, <1>6, Zenon DEF FenceBase

LEMMA BaseJoins == ASSUME FenceBase, ResetJoins PROVE FenceBase'
  <1>1. /\ pc = "dead" /\ worker' = FALSE /\ avail' = <<>> /\ used' = <<>> /\ owned' = {}
        /\ cmd' = [h \in Heads |-> NoCommand] /\ open' = {} /\ seq' = [r \in Rings |-> 0]
        /\ UNCHANGED <<pc, hand, completed, orphaned, descs, completed_fences, contexts, pending, owed, callback>>
    BY Zenon DEF ResetJoins, Joined, thread, fences, renderer
  <1>2. ChainTypes'
    BY <1>1 DEF FenceBase, ChainTypes
  <1>3. RingTypes'
    BY <1>1, Zenon DEF FenceBase, RingTypes
  <1>4. Control'
    BY <1>1, Zenon DEF FenceBase, Control, Holding
  <1>5. PlaceInv'
    BY <1>1, Zenon DEF PlaceInv
  <1>6. QED BY <1>2, <1>3, <1>4, <1>5, Zenon DEF FenceBase

LEMMA BaseExit == ASSUME FenceBase, Exit PROVE FenceBase'
  <1>1. /\ pc = "woken" /\ pc' = "dead" /\ (\A r \in Rings : callback[r] = Idle)
        /\ descs' = {} /\ completed_fences' = [r \in Rings |-> 0] /\ contexts' = {} /\ pending' = {} /\ owed' = {}
        /\ UNCHANGED <<chains, open, seq, callback, worker>>
    BY Zenon DEF Exit, Goes, driver, device, chains
  <1>2. ChainTypes'
    BY <1>1, Zenon DEF FenceBase, ChainTypes, chains
  <1>3. RingTypes'
    BY <1>1, Zenon DEF FenceBase, RingTypes
  <1>4. Control'
    BY <1>1, Zenon DEF FenceBase, Control, Steps, Holding, chains
  <1>5. PlaceInv'
    BY <1>1, Zenon DEF PlaceInv
  <1>6. QED BY <1>2, <1>3, <1>4, <1>5, Zenon DEF FenceBase

\* What a move of chains from one spot to another leaves of PlaceInv to show.
LEMMA PlaceMoved ==
  ASSUME FenceBase, pc # "dead", UNCHANGED owned,
         NEW a \in Spots, NEW b \in Spots, a # b, NEW H \in SUBSET Heap[a],
         Heap'[a] = Heap[a] \ H, Heap'[b] = Heap[b] \cup H,
         \A s \in Spots \ {a, b} : Heap'[s] = Heap[s]
  PROVE  Apart(Heap', owned')
  <1>1. PICK L, K : L = Heap /\ K = Heap'
    BY Zenon
  <1>2. Apart(L, owned)
    BY <1>1, Zenon DEF FenceBase, PlaceInv
  <1>3. /\ K[a] = L[a] \ H /\ K[b] = L[b] \cup H /\ H \in SUBSET L[a]
        /\ \A s \in Spots \ {a, b} : K[s] = L[s]
    BY <1>1, Zenon
  <1>4. Apart(K, owned)
    BY <1>2, <1>3, Moved
  <1>5. QED BY <1>1, <1>4, Zenon

LEMMA BasePop == ASSUME FenceBase, pop_ctl PROVE FenceBase'
  <1>1. /\ pc = "pop" /\ avail # <<>> /\ avail' = Tail(avail)
        /\ UNCHANGED <<used, owned, cmd, open, seq, worker, orphaned, rings>>
    BY Zenon DEF pop_ctl, device, fences, renderer, rings
  <1>2. PICK h : h = Head(avail)
    BY Zenon
  <1>3. \/ completed' = Append(completed, h) /\ UNCHANGED <<pc, hand>>
        \/ hand' = h /\ pc' = "execute" /\ UNCHANGED completed
    BY <1>2, Zenon DEF pop_ctl
  <1>4. /\ avail \in Seq(Heads) /\ IsInjective(avail) /\ completed \in Seq(Heads) /\ IsInjective(completed)
        /\ Apart(Heap, owned) /\ hand \notin Heads
    BY <1>1, Zenon DEF FenceBase, ChainTypes, PlaceInv, Control, Holding
  <1>5. /\ avail' \in Seq(Heads) /\ IsInjective(avail') /\ h \in Heads /\ h \in Range(avail)
        /\ Range(avail)' = Range(avail) \ {h}
    BY <1>1, <1>2, <1>4, InjTail, Zenon
  <1>6. "avail" \in Spots /\ "completed" \in Spots /\ "hand" \in Spots
    BY Zenon DEF Spots
  <1>7. h \notin Range(completed)
    <2>1. PICK L : L = Heap
      BY Zenon
    <2>2. L["avail"] = Range(avail) /\ L["completed"] = Range(completed) /\ Apart(L, owned)
      BY <1>4, <2>1, HeapAt, HeapNext, Zenon
    <2>3. QED BY <1>5, <1>6, <2>2 DEF Apart
  <1>9. Heap'["avail"] = Heap["avail"] \ {h}
    BY <1>5, HeapAt, HeapNext, Zenon
  <1>10. {h} \in SUBSET Heap["avail"]
    BY <1>5, HeapAt, HeapNext, Zenon
  <1>11. CASE completed' = Append(completed, h) /\ UNCHANGED <<pc, hand>>
    <2>1. completed' \in Seq(Heads) /\ IsInjective(completed') /\ Range(completed)' = Range(completed) \cup {h}
      BY <1>4, <1>5, <1>7, <1>11, InjAppend, SMTT(40)
    <2>2. Heap'["completed"] = Heap["completed"] \cup {h}
      BY <2>1, HeapAt, HeapNext, Zenon
    <2>3. \A s \in Spots \ {"avail", "completed"} : Heap'[s] = Heap[s]
      BY <1>1, <1>11, Zenon DEF Heap, Chart, rings
    <2>4. Apart(Heap', owned')
      BY <1>1, <1>6, <1>9, <1>10, <2>2, <2>3, PlaceMoved, Zenon
    <2>5. PlaceInv'
      BY <1>1, <1>5, <2>1, <2>4, Zenon DEF FenceBase, PlaceInv, rings
    <2>6. ChainTypes'
      BY <1>1, <1>5, <1>11, <2>1, Zenon DEF FenceBase, ChainTypes
    <2>7. RingTypes'
      BY <1>1, Zenon DEF FenceBase, RingTypes, rings
    <2>8. Control'
      BY <1>1, <1>11, Zenon DEF FenceBase, Control, rings, Holding
    <2>9. QED BY <2>5, <2>6, <2>7, <2>8, Zenon DEF FenceBase
  <1>12. CASE hand' = h /\ pc' = "execute" /\ UNCHANGED completed
    <2>1. ({hand} \cap Heads)' = ({hand} \cap Heads) \cup {h}
      BY <1>4, <1>5, <1>12, Zenon
    <2>2. Heap'["hand"] = Heap["hand"] \cup {h}
      BY <2>1, HeapAt, HeapNext, Zenon
    <2>3. \A s \in Spots \ {"avail", "hand"} : Heap'[s] = Heap[s]
      BY <1>1, <1>12, Zenon DEF Heap, Chart, rings, Spots
    <2>4. Apart(Heap', owned')
      BY <1>1, <1>6, <1>9, <1>10, <2>2, <2>3, PlaceMoved, Zenon
    <2>5. PlaceInv'
      BY <1>1, <1>5, <1>12, <2>4, Zenon DEF FenceBase, PlaceInv, rings
    <2>6. ChainTypes'
      BY <1>1, <1>5, <1>12, Zenon DEF FenceBase, ChainTypes
    <2>7. RingTypes'
      BY <1>1, Zenon DEF FenceBase, RingTypes, rings
    <2>8. Control'
      BY <1>1, <1>5, <1>12, Zenon DEF FenceBase, Control, rings, Holding, Steps
    <2>9. QED BY <2>5, <2>6, <2>7, <2>8, Zenon DEF FenceBase
  <1>13. QED BY <1>3, <1>11, <1>12, Zenon

\* The chain in hand is to be answered at the end of the pass.
LEMMA BaseAnswer ==
  ASSUME FenceBase, pc \in {"fence", "process"}, Answer,
         UNCHANGED <<avail, used, owned, cmd, worker, orphaned, rings>>
  PROVE  FenceBase'
  <1>1. completed' = Append(completed, hand) /\ hand' = NoHead /\ pc' = "pop" /\ pc \in Holding
    BY Zenon DEF Answer, Holding
  <1>2. hand \in Heads /\ hand \notin Range(completed) /\ NoHead \notin Heads /\ pc # "dead"
    BY <1>1, InHandFacts, GpuFenceAssumption, Zenon
  <1>3. completed' \in Seq(Heads) /\ IsInjective(completed') /\ Range(completed)' = Range(completed) \cup {hand}
    BY <1>1, <1>2, InjAppend, Zenon DEF FenceBase, ChainTypes, PlaceInv
  <1>4. Apart(Heap', owned')
    <2>1. "hand" \in Spots /\ "completed" \in Spots
      BY Zenon DEF Spots
    <2>2. Heap["hand"] = {hand} /\ Heap'["hand"] = {}
      BY <1>1, <1>2, HeapAt, HeapNext, Zenon
    <2>3. Heap'["completed"] = Heap["completed"] \cup {hand}
      BY <1>3, HeapAt, HeapNext, Zenon
    <2>4. \A s \in Spots \ {"hand", "completed"} : Heap'[s] = Heap[s]
      BY Zenon DEF Heap, Chart, rings
    <2>5. QED BY <1>2, <2>1, <2>2, <2>3, <2>4, PlaceMoved
  <1>5. PlaceInv'
    BY <1>2, <1>3, <1>4, Zenon DEF FenceBase, PlaceInv, rings
  <1>6. ChainTypes'
    BY <1>1, <1>3, Zenon DEF FenceBase, ChainTypes
  <1>7. RingTypes'
    BY Zenon DEF FenceBase, RingTypes, rings
  <1>8. Control'
    BY <1>1, <1>2, Zenon DEF FenceBase, Control, rings, Holding, Steps
  <1>9. QED BY <1>5, <1>6, <1>7, <1>8, Zenon DEF FenceBase

\* It waits for its fence.
LEMMA BaseTrack ==
  ASSUME FenceBase, pc = "process", Track,
         UNCHANGED <<avail, used, owned, cmd, worker, orphaned, open, seq, completed_fences, renderer>>
  PROVE  FenceBase'
  <1>1. /\ descs' = descs \cup {InHand} /\ hand' = NoHead /\ pc' = "pop" /\ pc \in Holding
        /\ UNCHANGED <<completed, contexts, pending, owed, callback>>
    BY Zenon DEF Track, Holding, renderer
  <1>2. /\ hand \in Heads /\ hand \notin Held(descs) /\ NoHead \notin Heads /\ pc # "dead"
        /\ Posted(cmd[hand]) /\ cmd[hand].kind = "submit"
    BY <1>1, InHandFacts, GpuFenceAssumption, Zenon DEF FenceBase, Control
  <1>3. InHand \in Fence /\ InHand.head = hand
    BY <1>2, Zenon DEF InHand, Fence, Posted
  <1>4. \A d, e \in descs' : d.head = e.head => d = e
    BY <1>1, <1>2, <1>3, ZenonT(40) DEF FenceBase, PlaceInv, Held
  <1>5. Apart(Heap', owned')
    <2>1. "hand" \in Spots /\ "descs" \in Spots
      BY Zenon DEF Spots
    <2>2. Heap["hand"] = {hand} /\ Heap'["hand"] = {}
      BY <1>1, <1>2, HeapAt, HeapNext, Zenon
    <2>3. Held(descs)' = Held(descs) \cup {hand}
      BY <1>1, <1>3, Zenon DEF Held
    <2>4. Heap'["descs"] = Heap["descs"] \cup {hand}
      BY <2>3, HeapAt, HeapNext, Zenon
    <2>5. \A s \in Spots \ {"hand", "descs"} : Heap'[s] = Heap[s]
      BY <1>1, Zenon DEF Heap, Chart, Spots
    <2>6. QED BY <1>2, <2>1, <2>2, <2>4, <2>5, PlaceMoved
  <1>6. PlaceInv'
    BY <1>1, <1>2, <1>4, <1>5, Zenon DEF FenceBase, PlaceInv
  <1>7. ChainTypes'
    BY <1>1, Zenon DEF FenceBase, ChainTypes
  <1>8. RingTypes'
    BY <1>1, <1>3, Zenon DEF FenceBase, RingTypes
  <1>9. Control'
    BY <1>1, <1>2, Zenon DEF FenceBase, Control, Holding, Steps
  <1>10. QED BY <1>6, <1>7, <1>8, <1>9, Zenon DEF FenceBase

LEMMA BaseRetire == ASSUME FenceBase, Retire PROVE FenceBase'
  <1>1. /\ pc = "retire" /\ pc' \in {"spin", "notify"} /\ used' = used \o completed /\ completed' = <<>>
        /\ UNCHANGED <<avail, owned, cmd, worker, orphaned, hand, rings>>
    BY Zenon DEF Retire, device, fences, renderer, rings
  <1>2. Range(used) \cap Range(completed) = {}
    <2>1. PICK L : L = Heap
      BY Zenon
    <2>2. L["used"] = Range(used) /\ L["completed"] = Range(completed) /\ Apart(L, owned)
      BY <1>1, <2>1, HeapAt, HeapNext, Zenon DEF FenceBase, PlaceInv
    <2>3. QED BY <2>2, Zenon DEF Apart, Spots
  <1>3. used' \in Seq(Heads) /\ IsInjective(used') /\ Range(used)' = Range(used) \cup Range(completed)
    BY <1>1, <1>2, InjConcat DEF FenceBase, ChainTypes, PlaceInv
  <1>4. completed' \in Seq(Heads) /\ IsInjective(completed') /\ Range(completed)' = {}
    BY <1>1 DEF IsInjective, Range
  <1>5. Apart(Heap', owned')
    <2>1. "completed" \in Spots /\ "used" \in Spots
      BY Zenon DEF Spots
    <2>2. Heap["completed"] = Range(completed) /\ Heap'["completed"] = {}
      BY <1>4, HeapAt, HeapNext, Zenon
    <2>3. Heap'["used"] = Heap["used"] \cup Range(completed)
      BY <1>3, HeapAt, HeapNext, Zenon
    <2>4. \A s \in Spots \ {"completed", "used"} : Heap'[s] = Heap[s]
      BY <1>1, Zenon DEF Heap, Chart, rings
    <2>5. PICK H : H = Range(completed)
      BY Zenon
    <2>6. H \in SUBSET Heap["completed"] /\ Heap'["completed"] = Heap["completed"] \ H /\ Heap'["used"] = Heap["used"] \cup H
      BY <2>2, <2>3, <2>5, Zenon
    <2>7. QED BY <1>1, <2>1, <2>4, <2>6, PlaceMoved, Zenon
  <1>6. PlaceInv'
    BY <1>1, <1>3, <1>4, <1>5, Zenon DEF FenceBase, PlaceInv, rings
  <1>7. ChainTypes'
    BY <1>1, <1>3, <1>4, Zenon DEF FenceBase, ChainTypes
  <1>8. RingTypes'
    BY <1>1, Zenon DEF FenceBase, RingTypes, rings
  <1>9. Control'
    BY <1>1, Zenon DEF FenceBase, Control, rings, Holding, Steps
  <1>10. QED BY <1>6, <1>7, <1>8, <1>9, Zenon DEF FenceBase

\* The renderer makes or drops a context or a fence: no chain moves.
LEMMA BaseContext ==
  ASSUME FenceBase, create_context \/ destroy_context \/ create_fence
  PROVE  FenceBase'
  <1>1. UNCHANGED <<chains, worker, descs, completed_fences, callback, open, seq>> /\ pc \in {"execute", "fence"}
    BY Zenon DEF create_context, destroy_context, create_fence, Goes, driver, device, thread, fences, chains
  <1>2. hand \in Heads /\ Posted(cmd[hand]) /\ pc # "dead"
    BY <1>1, InHandFacts, Zenon DEF Holding
  <1>3. /\ contexts' \in SUBSET Ctxs /\ pending' \in SUBSET Fence /\ owed' \in SUBSET Fence
        /\ \/ pc' = "fence"
           \/ pc' = "forget" /\ cmd[hand].kind = "destroy"
           \/ pc' = "process" /\ cmd[hand].kind = "submit"
    <2>1. CASE create_context
      <3>1. contexts' \in SUBSET Ctxs
        <4>1. cmd[hand].ctx \in Ctxs
          BY <1>2, <2>1, Zenon DEF create_context, Posted
        <4>2. QED BY <2>1, <4>1, Zenon DEF create_context, FenceBase, RingTypes
      <3>2. QED BY <2>1, <3>1, Zenon DEF create_context, Goes, FenceBase, RingTypes
    <2>2. CASE destroy_context
      BY <2>2, ZenonT(40) DEF destroy_context, FenceBase, RingTypes
    <2>3. CASE create_fence
      <3>1. cmd[hand].kind = "submit"
        BY <1>2, <2>3, ZenonT(40) DEF create_fence, Posted
      <3>2. InHand \in Fence
        BY <1>2, <3>1, Zenon DEF InHand, Fence, Posted
      <3>3. QED BY <2>3, <3>1, <3>2, Zenon DEF create_fence, Goes, FenceBase, RingTypes
    <2>4. QED BY <2>1, <2>2, <2>3, Zenon
  <1>4. ChainTypes'
    BY <1>1, Zenon DEF FenceBase, ChainTypes, chains
  <1>5. RingTypes'
    BY <1>1, <1>3, Zenon DEF FenceBase, RingTypes
  <1>6. Control'
    BY <1>1, <1>2, <1>3, Zenon DEF FenceBase, Control, chains, Holding, Steps
  <1>7. PlaceInv'
    BY <1>1, <1>2, PlaceKept, Zenon DEF FenceBase, chains
  <1>8. QED BY <1>4, <1>5, <1>6, <1>7, Zenon DEF FenceBase

LEMMA BaseOrphans == ASSUME FenceBase, retire_context_fences PROVE FenceBase'
  <1>1. PICK rs : rs = RingsOf(cmd[hand].ctx)
    BY Zenon
  <1>2. /\ pc = "forget" /\ orphaned' = {d.head : d \in {e \in descs : e.ring \in rs}}
        /\ descs' = {d \in descs : d.ring \notin rs} /\ pc' = IF orphaned' = {} THEN "fence" ELSE "orphans"
        /\ completed_fences' = [r \in Rings |-> IF r \in rs THEN 0 ELSE completed_fences[r]]
        /\ UNCHANGED <<avail, used, owned, cmd, hand, completed, worker, open, seq, contexts, pending, owed, callback>>
    BY <1>1, ZenonT(40) DEF retire_context_fences, Orphan, driver, device, renderer
  <1>3. orphaned = {} /\ pc \in Holding /\ hand \in Heads /\ pc # "dead" /\ cmd[hand].kind = "destroy"
    BY <1>2, InHandFacts, Zenon DEF FenceBase, Control, Holding
  <1>4. orphaned' \in SUBSET Held(descs)
    BY <1>2, ZenonT(40) DEF Held
  <1>5. Held(descs)' = Held(descs) \ orphaned'
    <2>1. \A d, e \in descs : d.head = e.head => d = e
      BY <1>3, Zenon DEF FenceBase, PlaceInv
    <2>2. QED BY <1>2, <2>1, Zenon DEF Held
  <1>6. Apart(Heap', owned')
    <2>1. "descs" \in Spots /\ "orphaned" \in Spots
      BY Zenon DEF Spots
    <2>2. PICK H : H = orphaned'
      BY Zenon
    <2>h. Heap["descs"] = Held(descs) /\ Heap'["descs"] = Held(descs)'
      BY HeapAt, HeapNext, Zenon
    <2>3. H \in SUBSET Heap["descs"] /\ Heap'["descs"] = Heap["descs"] \ H
      BY <1>4, <1>5, <2>2, <2>h, Zenon
    <2>4. Heap'["orphaned"] = Heap["orphaned"] \cup H
      BY <1>3, <2>2, HeapAt, HeapNext, Zenon
    <2>5. \A s \in Spots \ {"descs", "orphaned"} : Heap'[s] = Heap[s]
      BY <1>2, Zenon DEF Heap, Chart, Spots
    <2>6. QED BY <1>2, <1>3, <2>1, <2>3, <2>4, <2>5, PlaceMoved, Zenon
  <1>7. PlaceInv'
    BY <1>2, <1>3, <1>6, Zenon DEF FenceBase, PlaceInv
  <1>8. ChainTypes'
    <2>1. orphaned' \in SUBSET Heads
      BY <1>4, SMTT(40) DEF FenceBase, RingTypes, Held, Fence
    <2>2. QED BY <1>2, <2>1, Zenon DEF FenceBase, ChainTypes
  <1>9. RingTypes'
    BY <1>2, Zenon DEF FenceBase, RingTypes
  <1>10. Control'
    BY <1>2, <1>3, Zenon DEF FenceBase, Control, Holding, Steps
  <1>11. QED BY <1>7, <1>8, <1>9, <1>10, Zenon DEF FenceBase

LEMMA BaseAnswerOrphans == ASSUME FenceBase, AnswerOrphans PROVE FenceBase'
  <1>2. PICK t \in Orders(orphaned) : used' = used \o t
    BY Zenon DEF AnswerOrphans
  <1>1. /\ pc = "orphans" /\ pc' = "orphans_irq" /\ used' = used \o t /\ orphaned' = {}
        /\ UNCHANGED <<avail, owned, cmd, worker, hand, completed, rings>>
    BY <1>2, Zenon DEF AnswerOrphans, Goes, device, fences, renderer, rings
  <1>3. t \in Seq(orphaned) /\ IsInjective(t) /\ Range(t) = orphaned /\ orphaned \in SUBSET Heads
    <2>1. orphaned \in SUBSET Heads
      BY Zenon DEF FenceBase, ChainTypes
    <2>2. QED BY <1>2, <2>1, BatchFacts, Zenon
  <1>4. Range(used) \cap orphaned = {} /\ t \in Seq(Heads)
    <2>1. PICK L : L = Heap
      BY Zenon
    <2>2. L["used"] = Range(used) /\ L["orphaned"] = orphaned /\ Apart(L, owned)
      BY <1>1, <2>1, HeapAt, HeapNext, Zenon DEF FenceBase, PlaceInv
    <2>3. Range(used) \cap orphaned = {}
      BY <2>2, Zenon DEF Apart, Spots
    <2>4. QED BY <1>3, <2>3
  <1>5. used' \in Seq(Heads) /\ IsInjective(used') /\ Range(used)' = Range(used) \cup orphaned
    <2>1. used \in Seq(Heads) /\ IsInjective(used)
      BY <1>1, Zenon DEF FenceBase, ChainTypes, PlaceInv
    <2>2. QED BY <1>1, <1>2, <1>3, <1>4, <2>1, InjConcat
  <1>6. Apart(Heap', owned')
    <2>1. "orphaned" \in Spots /\ "used" \in Spots
      BY Zenon DEF Spots
    <2>2. Heap["orphaned"] = orphaned /\ Heap'["orphaned"] = {}
      BY <1>1, HeapAt, HeapNext, Zenon
    <2>3. Heap'["used"] = Heap["used"] \cup orphaned
      BY <1>5, HeapAt, HeapNext, Zenon
    <2>4. \A s \in Spots \ {"orphaned", "used"} : Heap'[s] = Heap[s]
      BY <1>1, Zenon DEF Heap, Chart, rings, Spots
    <2>5. PICK H : H = orphaned
      BY Zenon
    <2>6. H \in SUBSET Heap["orphaned"] /\ Heap'["orphaned"] = Heap["orphaned"] \ H /\ Heap'["used"] = Heap["used"] \cup H
      BY <2>2, <2>3, <2>5, Zenon
    <2>7. QED BY <1>1, <2>1, <2>4, <2>6, PlaceMoved, Zenon
  <1>7. PlaceInv'
    BY <1>1, <1>5, <1>6, Zenon DEF FenceBase, PlaceInv, rings
  <1>8. ChainTypes'
    BY <1>1, <1>5, Zenon DEF FenceBase, ChainTypes
  <1>9. RingTypes'
    BY <1>1, Zenon DEF FenceBase, RingTypes, rings
  <1>10. Control'
    BY <1>1, Zenon DEF FenceBase, Control, rings, Holding, Steps
  <1>11. QED BY <1>7, <1>8, <1>9, <1>10, Zenon DEF FenceBase

LEMMA BaseReach == ASSUME FenceBase, NEW r \in Rings, Reach(r) PROVE FenceBase'
  <1>1. /\ UNCHANGED <<chains, pc, worker, descs, callback, open, contexts, seq, completed_fences>>
        /\ pending' \subseteq pending /\ owed' \subseteq owed \cup pending /\ pending # {}
    BY Zenon DEF Reach, driver, device, thread, fences, chains
  <1>2. ChainTypes'
    BY <1>1, Zenon DEF FenceBase, ChainTypes, chains
  <1>3. RingTypes'
    BY <1>1, Zenon DEF FenceBase, RingTypes
  <1>4. Control'
    BY <1>1, Zenon DEF FenceBase, Control, chains
  <1>5. PlaceInv'
    BY <1>1, PlaceKept, Zenon DEF FenceBase, chains
  <1>6. QED BY <1>2, <1>3, <1>4, <1>5, Zenon DEF FenceBase

\* What the fence handler does for q.
LEMMA HandlerFacts ==
  ASSUME FenceBase, NEW r \in Rings, FenceHandler(r)
  PROVE  \E q \in owed, out \in SUBSET descs :
           /\ q.ring = r /\ out = {d \in descs : d.ring = r /\ d.id <= q.id}
           /\ callback[r] = Idle /\ owed' = owed \ {q} /\ descs' = descs \ out
           /\ completed_fences' = [completed_fences EXCEPT ![r] = Larger(completed_fences[r], q.id)]
           /\ callback' = IF out = {} THEN callback
                          ELSE [callback EXCEPT ![r] = [at |-> "push", done |-> Held(out)]]
           /\ UNCHANGED <<chains, pc, worker, open, seq, contexts, pending>>
  <1>1. PICK q \in owed : q.ring = r /\ Handle(q, Larger(completed_fences[r], q.id))
    BY Zenon DEF FenceHandler
  <1>2. PICK out : out = {d \in descs : d.ring = q.ring /\ d.id <= q.id}
    BY Zenon
  <1>3. /\ callback[q.ring] = Idle /\ owed' = owed \ {q} /\ descs' = descs \ out
        /\ completed_fences' = [completed_fences EXCEPT ![q.ring] = Larger(completed_fences[r], q.id)]
        /\ callback' = IF out = {} THEN callback
                       ELSE [callback EXCEPT ![q.ring] = [at |-> "push", done |-> Held(out)]]
        /\ UNCHANGED <<driver, device, thread, contexts, pending>>
    BY <1>1, <1>2, Zenon DEF Handle, Held
  <1>4. UNCHANGED <<chains, pc, worker, open, seq, contexts, pending>>
    BY <1>3, Zenon DEF driver, device, thread, chains
  <1>5. out \in SUBSET descs
    BY <1>2, Zenon
  <1>6. QED BY <1>1, <1>2, <1>3, <1>4, <1>5, Zenon

LEMMA BaseHandler == ASSUME FenceBase, NEW r \in Rings, FenceHandler(r) PROVE FenceBase'
  <1>1. PICK q \in owed, out \in SUBSET descs :
           /\ q.ring = r /\ out = {d \in descs : d.ring = r /\ d.id <= q.id}
           /\ callback[r] = Idle /\ owed' = owed \ {q} /\ descs' = descs \ out
           /\ completed_fences' = [completed_fences EXCEPT ![r] = Larger(completed_fences[r], q.id)]
           /\ callback' = IF out = {} THEN callback
                          ELSE [callback EXCEPT ![r] = [at |-> "push", done |-> Held(out)]]
           /\ UNCHANGED <<chains, pc, worker, open, seq, contexts, pending>>
    BY HandlerFacts, Zenon
  <1>2. pc # "dead" /\ q \in Fence
    BY Zenon DEF FenceBase, Control, RingTypes
  <1>3. Held(out) \in SUBSET Heads /\ Held(out) \in SUBSET Held(descs)
    BY DEF FenceBase, RingTypes, Held, Fence
  <1>4. PICK w : w = [at |-> "push", done |-> Held(out)]
    BY Zenon
  <1>5. w.at = "push" /\ w.done = Held(out) /\ w \in [at : {"idle", "push", "irq"}, done : SUBSET Heads]
    BY <1>3, <1>4, Zenon
  <1>6. ChainTypes'
    BY <1>1, Zenon DEF FenceBase, ChainTypes, chains
  <1>7. RingTypes'
    <2>1. descs' \in SUBSET Fence /\ owed' \in SUBSET Fence
      BY <1>1, Zenon DEF FenceBase, RingTypes
    <2>2. Larger(completed_fences[r], q.id) \in Nat
      BY <1>2, Zenon DEF Larger, Fence, FenceBase, RingTypes
    <2>3. completed_fences' \in [Rings -> Nat]
      BY <1>1, <2>2, Zenon DEF FenceBase, RingTypes
    <2>4. /\ callback' \in [Rings -> [at : {"idle", "push", "irq"}, done : SUBSET Heads]]
          /\ \A p \in Rings : callback'[p].at # "push" => callback'[p].done = {}
      BY <1>1, <1>4, <1>5, Zenon DEF FenceBase, RingTypes
    <2>5. QED BY <1>1, <2>1, <2>3, <2>4, Zenon DEF FenceBase, RingTypes
  <1>8. Control'
    BY <1>1, <1>2, Zenon DEF FenceBase, Control, chains
  <1>9. callback[r].done = {} /\ \A p \in Rings : callback'[p].done = IF p = r THEN Held(out) ELSE callback[p].done
    <2>1. callback[r].done = {}
      BY <1>1, IdleFacts, ZenonT(40)
    <2>2. CASE out = {}
      BY <1>1, <2>1, <2>2, Zenon DEF Held
    <2>3. CASE out # {}
      <3>1. callback' = [callback EXCEPT ![r] = w] /\ DOMAIN callback = Rings
        BY <1>1, <1>4, <2>3, Zenon DEF FenceBase, RingTypes
      <3>2. \A p \in Rings : callback'[p] = IF p = r THEN w ELSE callback[p]
        BY <3>1, Zenon
      <3>3. \A p \in Rings : callback'[p].done = IF p = r THEN Held(out) ELSE callback[p].done
        BY <1>5, <3>2, Zenon
      <3>4. QED BY <2>1, <3>3, Zenon
    <2>4. QED BY <2>1, <2>2, <2>3, Zenon
  <1>10. PICK L : L = Heap
    BY Zenon
  <1>11. L["descs"] = Held(descs) /\ L["callback"] = Called(callback) /\ Apart(L, owned)
    BY <1>2, <1>10, HeapAt, HeapNext, Zenon DEF FenceBase, PlaceInv
  <1>12. Held(descs) \cap Called(callback) = {}
    BY <1>11, Zenon DEF Apart, Spots
  <1>13. \A p, s \in Rings : p # s => callback'[p].done \cap callback'[s].done = {}
    <2>1. \A p \in Rings : callback[p].done \cap Held(out) = {}
      BY <1>3, <1>12, Zenon DEF Called
    <2>2. QED BY <1>2, <1>9, <2>1 DEF FenceBase, PlaceInv
  <1>14. Called(callback)' = Called(callback) \cup Held(out)
    BY <1>9, Zenon DEF Called
  <1>15. Held(descs)' = Held(descs) \ Held(out)
    <2>1. \A d, e \in descs : d.head = e.head => d = e
      BY <1>2, ZenonT(40) DEF FenceBase, PlaceInv
    <2>2. QED BY <1>1, <2>1, Zenon DEF Held
  <1>16. Apart(Heap', owned')
    <2>1. "descs" \in Spots /\ "callback" \in Spots
      BY Zenon DEF Spots
    <2>2. /\ Heap["descs"] = Held(descs) /\ Heap'["descs"] = Held(descs)'
          /\ Heap["callback"] = Called(callback) /\ Heap'["callback"] = Called(callback)'
      BY HeapAt, HeapNext, Zenon
    <2>3. PICK H : H = Held(out)
      BY Zenon
    <2>4. /\ H \in SUBSET Heap["descs"] /\ Heap'["descs"] = Heap["descs"] \ H
          /\ Heap'["callback"] = Heap["callback"] \cup H
      BY <1>3, <1>14, <1>15, <2>2, <2>3, Zenon
    <2>5. \A s \in Spots \ {"descs", "callback"} : Heap'[s] = Heap[s]
      BY <1>1, Zenon DEF Heap, Chart, Spots, chains
    <2>6. UNCHANGED owned
      BY <1>1, Zenon DEF chains
    <2>7. QED BY <1>2, <2>1, <2>4, <2>5, <2>6, PlaceMoved, Zenon
  <1>17. PlaceInv'
    BY <1>1, <1>2, <1>13, <1>16, Zenon DEF FenceBase, PlaceInv, chains
  <1>18. QED BY <1>6, <1>7, <1>8, <1>17, Zenon DEF FenceBase

LEMMA BasePush == ASSUME FenceBase, NEW r \in Rings, CallbackPush(r) PROVE FenceBase'
  <1>1. PICK w : w = [at |-> "irq", done |-> {}]
    BY Zenon
  <1>2. PICK H : H = callback[r].done
    BY Zenon
  <1>6. PICK t \in Orders(H) : used' = used \o t
    BY <1>2, Zenon DEF CallbackPush
  <1>3. /\ callback[r].at = "push" /\ used' = used \o t /\ callback' = [callback EXCEPT ![r] = w]
        /\ UNCHANGED <<avail, owned, cmd, worker, pc, hand, completed, orphaned, descs, completed_fences, open, seq,
                       contexts, pending, owed>>
    BY <1>1, <1>2, <1>6, Zenon DEF CallbackPush, device, thread, fences
  <1>4. w.at = "irq" /\ w.done = {} /\ w \in [at : {"idle", "push", "irq"}, done : SUBSET Heads]
    BY <1>1, Zenon
  <1>5. pc # "dead" /\ H \in SUBSET Heads
    <2>1. callback[r] # Idle
      BY <1>3, IdleFacts, Zenon
    <2>2. QED BY <1>2, <2>1, Zenon DEF FenceBase, Control, RingTypes
  <1>7. t \in Seq(H) /\ IsInjective(t) /\ Range(t) = H
    BY <1>6, BatchFacts, Zenon
  <1>8. H \subseteq Called(callback)
    BY <1>2, Zenon DEF Called
  <1>9. Range(used) \cap H = {} /\ t \in Seq(Heads)
    <2>1. PICK L : L = Heap
      BY Zenon
    <2>2. L["used"] = Range(used) /\ L["callback"] = Called(callback) /\ Apart(L, owned)
      BY <1>5, <2>1, HeapAt, HeapNext, Zenon DEF FenceBase, PlaceInv
    <2>3. Range(used) \cap Called(callback) = {}
      BY <2>2, Zenon DEF Apart, Spots
    <2>4. t \in Seq(Heads)
      BY <1>5, <1>7
    <2>5. QED BY <1>8, <2>3, <2>4, Zenon
  <1>10. used' \in Seq(Heads) /\ IsInjective(used') /\ Range(used)' = Range(used) \cup H
    <2>1. used \in Seq(Heads) /\ IsInjective(used)
      BY <1>5, Zenon DEF FenceBase, ChainTypes, PlaceInv
    <2>2. QED BY <1>3, <1>6, <1>7, <1>9, <2>1, InjConcat
  <1>11. \A p \in Rings : callback'[p].done = IF p = r THEN {} ELSE callback[p].done
    BY <1>3, <1>4, ZenonT(40) DEF FenceBase, RingTypes
  <1>12. Called(callback)' = Called(callback) \ H
    <2>1. \A p \in Rings : p # r => callback[p].done \cap H = {}
      BY <1>2, <1>5, Zenon DEF FenceBase, PlaceInv
    <2>2. QED BY <1>2, <1>11, <2>1, Zenon DEF Called
  <1>13. Apart(Heap', owned')
    <2>1. "callback" \in Spots /\ "used" \in Spots
      BY Zenon DEF Spots
    <2>2. /\ Heap["used"] = Range(used) /\ Heap'["used"] = Range(used)'
          /\ Heap["callback"] = Called(callback) /\ Heap'["callback"] = Called(callback)'
      BY HeapAt, HeapNext, Zenon
    <2>3. /\ H \in SUBSET Heap["callback"] /\ Heap'["callback"] = Heap["callback"] \ H
          /\ Heap'["used"] = Heap["used"] \cup H
      BY <1>8, <1>10, <1>12, <2>2, Zenon
    <2>4. \A s \in Spots \ {"callback", "used"} : Heap'[s] = Heap[s]
      BY <1>3, Zenon DEF Heap, Chart, Spots
    <2>5. QED BY <1>3, <1>5, <2>1, <2>3, <2>4, PlaceMoved, Zenon
  <1>14. PlaceInv'
    BY <1>3, <1>5, <1>10, <1>11, <1>13 DEF FenceBase, PlaceInv
  <1>15. ChainTypes'
    BY <1>3, <1>10, Zenon DEF FenceBase, ChainTypes
  <1>16. RingTypes'
    <2>1. /\ callback' \in [Rings -> [at : {"idle", "push", "irq"}, done : SUBSET Heads]]
          /\ \A p \in Rings : callback'[p].at # "push" => callback'[p].done = {}
      BY <1>3, <1>4, Zenon DEF FenceBase, RingTypes
    <2>2. QED BY <1>3, <2>1, Zenon DEF FenceBase, RingTypes
  <1>17. Control'
    BY <1>3, <1>5, ZenonT(40) DEF FenceBase, Control
  <1>18. QED BY <1>14, <1>15, <1>16, <1>17, Zenon DEF FenceBase

LEMMA BaseInterrupt == ASSUME FenceBase, NEW r \in Rings, CallbackInterrupt(r) PROVE FenceBase'
  <1>1. /\ callback[r].at = "irq" /\ callback' = [callback EXCEPT ![r] = Idle]
        /\ UNCHANGED <<chains, worker, pc, descs, completed_fences, open, seq, contexts, pending, owed>>
    BY Zenon DEF CallbackInterrupt, driver, thread, fences, chains
  <1>2. callback[r].done = {}
    BY <1>1, Zenon DEF FenceBase, RingTypes
  <1>3. /\ callback' \in [Rings -> [at : {"idle", "push", "irq"}, done : SUBSET Heads]]
        /\ \A p \in Rings : callback'[p].at # "push" => callback'[p].done = {}
    BY <1>1, IdleFacts, Zenon DEF FenceBase, RingTypes
  <1>4. \A p \in Rings : callback'[p].done = callback[p].done /\ (callback[p] = Idle => callback'[p] = Idle)
    BY <1>1, <1>2, IdleFacts, Zenon DEF FenceBase, RingTypes
  <1>5. Called(callback)' = Called(callback)
    BY <1>4, Zenon DEF Called
  <1>6. ChainTypes'
    BY <1>1, ZenonT(40) DEF FenceBase, ChainTypes, chains
  <1>7. RingTypes'
    BY <1>1, <1>3, Zenon DEF FenceBase, RingTypes
  <1>8. Control'
    BY <1>1, <1>4, Zenon DEF FenceBase, Control, chains
  <1>9. PlaceInv'
    BY <1>1, <1>4, <1>5, Zenon DEF FenceBase, PlaceInv, chains, Heap
  <1>10. QED BY <1>6, <1>7, <1>8, <1>9, Zenon DEF FenceBase

\* What the driver posts.
LEMMA SubmitFacts ==
  ASSUME FenceBase, NEW h \in Heads, DriverSubmit(h)
  PROVE  \E c : /\ Posts(h, c) /\ Posted(c) /\ c.kind = "submit" /\ c.ring \in Rings /\ UNCHANGED open
                /\ \A r \in Rings : seq'[r] = IF Fences(c, r) THEN seq[r] + 1 ELSE seq[r]
                /\ \A r \in Rings : Fences(c, r) => c.fence = seq[r] + 1
                /\ seq' \in [Rings -> Nat]
  <1>1. PICK r \in Timelines(open), f \in BOOLEAN, form \in Forms :
          /\ seq' = IF f THEN [seq EXCEPT ![r] = @ + 1] ELSE seq
          /\ Posts(h, [kind |-> "submit", ring |-> r, fence |-> IF f THEN seq'[r] ELSE 0, form |-> form])
          /\ UNCHANGED open
    BY Zenon DEF DriverSubmit
  <1>2. PICK c : c = [kind |-> "submit", ring |-> r, fence |-> IF f THEN seq'[r] ELSE 0, form |-> form]
    BY ZenonT(40)
  <1>3. c.kind = "submit" /\ c.ring = r /\ c.fence = IF f THEN seq'[r] ELSE 0
    BY <1>2, Zenon
  <1>4. r \in Rings /\ seq \in [Rings -> Nat]
    BY RingFacts, Zenon DEF FenceBase, RingTypes
  <1>5. CASE f
    <2>1. /\ seq' \in [Rings -> Nat] /\ seq'[r] = seq[r] + 1 /\ seq[r] \in Nat
          /\ \A q \in Rings : q # r => seq'[q] = seq[q]
      BY <1>1, <1>4, <1>5, SMTT(40)
    <2>2. c.fence = seq[r] + 1 /\ c.fence # 0 /\ c.fence \in Nat
      BY <1>3, <1>5, <2>1, SMTT(40)
    <2>3. Posted(c)
      BY <1>3, <1>4, <2>2, Zenon DEF Posted
    <2>4. \A q \in Rings : Fences(c, q) <=> q = r
      BY <1>3, <2>2, Zenon DEF Fences
    <2>5. QED BY <1>1, <1>2, <1>3, <1>4, <2>1, <2>2, <2>3, <2>4, Zenon
  <1>6. CASE ~f
    <2>1. seq' = seq /\ c.fence = 0
      BY <1>1, <1>3, <1>6, Zenon
    <2>2. Posted(c)
      BY <1>3, <1>4, <2>1 DEF Posted
    <2>3. \A q \in Rings : ~Fences(c, q)
      BY <2>1, Zenon DEF Fences
    <2>4. QED BY <1>1, <1>2, <1>3, <1>4, <2>1, <2>2, <2>3, Zenon
  <1>7. QED BY <1>5, <1>6, ZenonT(40)

LEMMA ContextFacts ==
  ASSUME FenceBase, NEW h \in Heads, DriverContext(h)
  PROVE  \E c, x : /\ c \in Ctxs /\ Posts(h, x) /\ Posted(x) /\ x.ctx = c
                   /\ x.kind = (IF c \in open THEN "destroy" ELSE "create")
                   /\ open' = (IF c \in open THEN open \ {c} ELSE open \cup {c})
                   /\ \A r \in Rings : r \notin RingsOf(c) => seq'[r] = seq[r]
                   /\ seq' \in [Rings -> Nat] /\ open' \in SUBSET Ctxs
  <1>1. PICK c \in Ctxs :
          /\ open' = IF c \in open THEN open \ {c} ELSE open \cup {c}
          /\ seq' = [r \in Rings |-> IF r \in RingsOf(c) THEN 0 ELSE seq[r]]
          /\ Posts(h, [kind |-> IF c \in open THEN "destroy" ELSE "create", ctx |-> c,
                       ring |-> Global, fence |-> 0, form |-> "ok"])
    BY Zenon DEF DriverContext
  <1>2. PICK x : x = [kind |-> IF c \in open THEN "destroy" ELSE "create", ctx |-> c,
                      ring |-> Global, fence |-> 0, form |-> "ok"]
    BY ZenonT(40)
  <1>3. /\ x.kind = (IF c \in open THEN "destroy" ELSE "create") /\ x.ctx = c /\ x.ring = Global
        /\ x.fence = 0 /\ x.form = "ok"
    BY <1>2, Zenon
  <1>4. Posted(x)
    BY <1>3, Zenon DEF Posted
  <1>5. seq' \in [Rings -> Nat] /\ open' \in SUBSET Ctxs
    BY <1>1, Zenon DEF FenceBase, RingTypes
  <1>6. \A r \in Rings : r \notin RingsOf(c) => seq'[r] = seq[r]
    BY <1>1, Zenon
  <1>7. Posts(h, x)
    BY <1>1, <1>2, Zenon
  <1>8. QED BY <1>1, <1>3, <1>4, <1>5, <1>6, <1>7, Zenon

LEMMA BaseStart == Init => FenceBase
  <1> SUFFICES ASSUME Init PROVE FenceBase
    BY Zenon
  <1>1. ChainTypes
    BY DEF Init, ChainTypes
  <1>2. RingTypes
    BY IdleFacts, Zenon DEF Init, RingTypes
  <1>3. Control
    BY GpuFenceAssumption, Zenon DEF Init, Control, Steps, Holding
  <1>4. PlaceInv
    BY Zenon DEF Init, PlaceInv
  <1>5. QED BY <1>1, <1>2, <1>3, <1>4, Zenon DEF FenceBase

LEMMA BaseStep == FenceBase /\ [Next]_vars => FenceBase'
  <1> SUFFICES ASSUME FenceBase, [Next]_vars PROVE FenceBase'
    BY Zenon
  <1>1. ASSUME NEW h \in Heads, DriverSubmit(h) PROVE FenceBase'
    <2>1. PICK c : Posts(h, c) /\ Posted(c) /\ UNCHANGED open /\ seq' \in [Rings -> Nat]
      BY <1>1, SubmitFacts, Zenon
    <2>2. open' \in SUBSET Ctxs
      BY <2>1, Zenon DEF FenceBase, RingTypes
    <2>3. QED BY <2>1, <2>2, BasePosts, Zenon
  <1>2. ASSUME NEW h \in Heads, DriverContext(h) PROVE FenceBase'
    BY <1>2, ContextFacts, BasePosts, Zenon
  <1>3. ASSUME Unfenced \/ CreateFenceFails PROVE FenceBase'
    <2>1. /\ pc = "fence" /\ Answer
          /\ UNCHANGED <<avail, used, owned, cmd, worker, orphaned, rings>>
      BY <1>3, Zenon DEF Unfenced, CreateFenceFails, driver, device, fences, renderer, rings
    <2>2. QED BY <2>1, BaseAnswer, Zenon
  <1>4. ASSUME process_fence PROVE FenceBase'
    <2>1. /\ pc = "process" /\ UNCHANGED <<avail, used, owned, cmd, worker, orphaned, open, seq, completed_fences, renderer>>
          /\ (Answer /\ UNCHANGED descs) \/ Track
      BY <1>4, Zenon DEF process_fence, driver, device
    <2>2. CASE Answer /\ UNCHANGED descs
      <3>1. UNCHANGED <<avail, used, owned, cmd, worker, orphaned, rings>>
        BY <2>1, <2>2, Zenon DEF rings, renderer
      <3>2. QED BY <2>1, <2>2, <3>1, BaseAnswer, Zenon
    <2>3. CASE Track
      BY <2>1, <2>3, BaseTrack, Zenon
    <2>4. QED BY <2>1, <2>2, <2>3, Zenon
  <1>5. ASSUME Work PROVE FenceBase'
    BY <1>3, <1>4, <1>5, BaseQuiet, BaseExit, BasePop, BaseContext, BaseOrphans, BaseAnswerOrphans, BaseRetire, Zenon
       DEF Work
  <1>6. ASSUME NEW r \in Rings, Reach(r) \/ Callback(r) PROVE FenceBase'
    BY <1>6, BaseReach, BaseHandler, BasePush, BaseInterrupt, Zenon DEF Callback
  <1>7. CASE UNCHANGED vars
    <2>1. UNCHANGED <<chains, rings, pc, worker>>
      BY <1>7, Zenon DEF vars, driver, device, thread, fences, renderer, chains, rings
    <2>2. Control'
      BY <2>1, Zenon DEF FenceBase, Control, chains, rings
    <2>3. QED BY <2>1, <2>2, BaseKept, Zenon
  <1>8. QED
    BY <1>1, <1>2, <1>5, <1>6, <1>7, BaseActivate, BaseQuiet, BaseJoins, BaseReap, Zenon DEF Next
====
