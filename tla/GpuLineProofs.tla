--------------------------- MODULE GpuLineProofs ----------------------------
(***************************************************************************)
(* Every chain of the virtio-gpu control queue is answered once, and none  *)
(* before its fence, for any number of chains, contexts, rings and resets. *)
(*                                                                         *)
(* FenceBase alone gives the accounting but not that a waiting fence has a *)
(* signal to come, nor that a signalled id covers no fence that is newer.  *)
(* That takes the order of the commands not yet acted upon: LineInv (ids   *)
(* grow along the line on each timeline between two commands that create or *)
(* destroy its context, which come in turn), CleanInv (a timeline without a *)
(* context knows no fence) and PendInv (a fence not reached is newer than  *)
(* all that was signalled, and its chain waits for it).                    *)
(***************************************************************************)
EXTENDS GpuFenceProofs, FiniteSetTheorems

\* A set of at most one element.
LEMMA AtMostOne ==
  ASSUME NEW T, \A x, y \in T : x = y
  PROVE  Cardinality(T) = OneIf(T # {})
  <1>1. CASE T = {}
    BY <1>1, FS_EmptySet, Zenon DEF OneIf
  <1>2. CASE T # {}
    <2>1. PICK x \in T : TRUE
      BY <1>2, Zenon
    <2>2. T = {x}
      BY <2>1, Zenon
    <2>3. Cardinality({x}) = 1
      BY FS_Singleton, Zenon
    <2>4. QED BY <1>2, <2>2, <2>3, Zenon DEF OneIf
  <1>3. QED BY <1>1, <1>2, Zenon

LEMMA TimesOnce ==
  ASSUME NEW h, NEW s, IsInjective(s)
  PROVE  Times(h, s) = OneIf(h \in Range(s))
  <1>1. PICK T : T = {i \in DOMAIN s : s[i] = h}
    BY Zenon
  <1>2. \A x, y \in T : x = y
    BY <1>1, Zenon DEF IsInjective
  <1>3. Cardinality(T) = OneIf(T # {})
    BY <1>2, AtMostOne, Zenon
  <1>4. T # {} <=> h \in Range(s)
    BY <1>1, Zenon DEF Range
  <1>5. QED BY <1>1, <1>3, <1>4, Zenon DEF Times, OneIf

LEMMA Once == FenceBase => ExactlyOnce
  <1> SUFFICES ASSUME FenceBase, pc # "dead", NEW h \in Heads PROVE Places(h) = OneIf(h \in owned)
    BY Zenon DEF ExactlyOnce
  <1>0. PICK L : L = Heap
    BY Zenon
  <1>1. /\ L["avail"] = Range(avail) /\ L["used"] = Range(used) /\ L["completed"] = Range(completed)
        /\ L["hand"] = {hand} \cap Heads /\ L["orphaned"] = orphaned
        /\ L["descs"] = Held(descs) /\ L["callback"] = Called(callback)
    BY <1>0, HeapAt, HeapNext, Zenon
  <1>2. /\ Times(h, avail) = OneIf(h \in L["avail"]) /\ Times(h, used) = OneIf(h \in L["used"])
        /\ Times(h, completed) = OneIf(h \in L["completed"])
    BY <1>1, TimesOnce, Zenon DEF FenceBase, PlaceInv
  <1>3. OneIf(hand = h) = OneIf(h \in L["hand"])
    BY <1>1, Zenon DEF OneIf
  <1>4. Cardinality({d \in descs : d.head = h}) = OneIf(h \in L["descs"])
    <2>1. PICK T : T = {d \in descs : d.head = h}
      BY ZenonT(40)
    <2>2. \A x, y \in T : x = y
      BY <2>1, Zenon DEF FenceBase, PlaceInv
    <2>3. T # {} <=> h \in L["descs"]
      BY <1>1, <2>1, Zenon DEF Held
    <2>4. QED BY <2>1, <2>2, <2>3, AtMostOne, Zenon DEF OneIf
  <1>5. Cardinality({r \in Rings : h \in callback[r].done}) = OneIf(h \in L["callback"])
    <2>1. PICK T : T = {r \in Rings : h \in callback[r].done}
      BY Zenon
    <2>2. \A x, y \in T : x = y
      BY <2>1, Zenon DEF FenceBase, PlaceInv
    <2>3. T # {} <=> h \in L["callback"]
      BY <1>1, <2>1 DEF Called
    <2>4. QED BY <2>1, <2>2, <2>3, AtMostOne, Zenon DEF OneIf
  <1>6. Places(h) = OneIf(h \in L["avail"]) + OneIf(h \in L["used"]) + OneIf(h \in L["completed"])
                    + OneIf(h \in L["hand"]) + OneIf(h \in L["orphaned"])
                    + OneIf(h \in L["descs"]) + OneIf(h \in L["callback"])
    BY <1>1, <1>2, <1>3, <1>4, <1>5, Zenon DEF Places
  <1>7. Apart(L, owned)
    BY <1>0, Zenon DEF FenceBase, PlaceInv
  <1>8. CASE h \notin owned
    <2>1. \A s \in Spots : h \notin L[s]
      BY <1>7, <1>8, Zenon DEF Apart
    <2>2. QED BY <1>6, <1>8, <2>1, SMTT(40) DEF Spots, OneIf
  <1>9. CASE h \in owned
    <2>1. PICK s \in Spots : h \in L[s]
      BY <1>7, <1>9, Zenon DEF Apart
    <2>2. \A t \in Spots : h \in L[t] <=> t = s
      BY <1>7, <2>1, Zenon DEF Apart
    <2>3. QED BY <1>6, <1>9, <2>1, <2>2 DEF Spots, OneIf
  <1>10. QED BY <1>8, <1>9, Zenon

\* An answered chain is in one of the spots that answers pass through.
LEMMA NotAnswered ==
  ASSUME FenceBase, pc # "dead", NEW h \in Heads, h \in Held(descs) \/ (pc \in Holding /\ h = hand)
  PROVE  h \in owned \ Answered
  <1>0. PICK L : L = Heap
    BY Zenon
  <1>1. /\ L["used"] = Range(used) /\ L["completed"] = Range(completed)
        /\ L["hand"] = {hand} \cap Heads /\ L["orphaned"] = orphaned
        /\ L["descs"] = Held(descs) /\ L["callback"] = Called(callback)
    BY <1>0, HeapAt, HeapNext, Zenon
  <1>2. Apart(L, owned)
    BY <1>0, Zenon DEF FenceBase, PlaceInv
  <1>3. PICK s \in {"descs", "hand"} : h \in L[s]
    BY <1>1, Zenon
  <1>4. h \in owned /\ h \notin L["used"] /\ h \notin L["completed"] /\ h \notin L["orphaned"] /\ h \notin L["callback"]
    BY <1>2, <1>3, Zenon DEF Apart, Spots
  <1>5. QED BY <1>1, <1>4, Zenon DEF Answered, Called

(***************************************************************************)
(* The commands still to be acted upon: the one in hand, at position 0,    *)
(* until its context is seen to or its fence created; and the ring.        *)
(***************************************************************************)
Unfinished == pc \in {"execute", "forget"} \/ (pc = "fence" /\ cmd[hand].kind = "submit")
Lane == (1 .. Len(avail)) \cup (IF Unfinished THEN {0} ELSE {})
Line == [i \in Nat |-> cmd[IF i = 0 THEN hand ELSE avail[i]]]
Known == [r \in Rings |-> {completed_fences[r]} \cup {q.id : q \in {p \in pending \cup owed : p.ring = r}}]

LineInv == pc # "dead" => Ordered(Lane, Line, Known, seq) /\ Alternate(Lane, Line, contexts, open)

\* A timeline of a context the renderer does not have knows no fence.
CleanInv ==
  /\ \A r \in Rings : r \notin Timelines(contexts) =>
       /\ \A q \in pending \cup owed : q.ring # r
       /\ completed_fences[r] = 0 \/ (pc = "forget" /\ r \in RingsOf(cmd[hand].ctx))
  /\ pc = "forget" => cmd[hand].ctx \notin contexts

\* A fence that is not reached is newer than what the callbacks have reported
\* or will; its chain waits for it, or is about to.
PendInv ==
  /\ \A p \in pending : /\ p \in descs \/ (pc = "process" /\ p = InHand)
                        /\ completed_fences[p.ring] < p.id
                        /\ \A q \in owed : q.ring = p.ring => q.id < p.id
  /\ pc = "process" => \/ InHand \in pending
                       \/ InHand.id <= completed_fences[InHand.ring]
                       \/ \E q \in owed : q.ring = InHand.ring /\ q.id >= InHand.id

LEMMA LineFacts ==
  ASSUME FenceBase, pc # "dead"
  PROVE  /\ Lane \in SUBSET Nat /\ Len(avail) \in Nat
         /\ \A i \in 1 .. Len(avail) : i \in Lane /\ avail[i] \in owned /\ Line[i] = cmd[avail[i]] /\ i \in Nat /\ i # 0
         /\ \A i \in Lane : i # 0 => i \in 1 .. Len(avail)
         /\ 0 \in Lane <=> Unfinished
         /\ Line[0] = cmd[hand]
         /\ \A i \in Lane : Posted(Line[i])
         /\ \A r \in Rings : seq[r] \in Nat /\ \A m \in Known[r] : m \in Nat
  <1>1. avail \in Seq(Heads)
    BY Zenon DEF FenceBase, ChainTypes
  <1>2. Len(avail) \in Nat /\ \A i \in 1 .. Len(avail) : avail[i] \in Range(avail)
    BY <1>1 DEF Range
  <1>3. \A i \in 1 .. Len(avail) : i \in Nat /\ i # 0 /\ i \in Lane /\ Line[i] = cmd[avail[i]] /\ avail[i] \in owned
    BY <1>2, QueueFacts DEF Lane, Line
  <1>4. Lane \in SUBSET Nat /\ \A i \in Lane : i # 0 => i \in 1 .. Len(avail)
    BY <1>2 DEF Lane
  <1>5. (0 \in Lane <=> Unfinished) /\ Line[0] = cmd[hand]
    BY <1>2, SMTT(40) DEF Lane, Line
  <1>6. Unfinished => Posted(cmd[hand])
    BY InHandFacts, Zenon DEF Unfinished, Holding
  <1>7. \A i \in Lane : Posted(Line[i])
    BY <1>3, <1>4, <1>5, <1>6, Zenon DEF FenceBase, ChainTypes
  <1>8. \A r \in Rings : seq[r] \in Nat /\ \A m \in Known[r] : m \in Nat
    BY SMTT(40) DEF FenceBase, RingTypes, Known, Fence
  <1>9. QED BY <1>2, <1>3, <1>4, <1>5, <1>7, <1>8, Zenon

\* The line loses at most a command in hand that is about no context.
LEMMA LineKept ==
  ASSUME FenceBase, LineInv, pc # "dead", UNCHANGED <<seq, open>>, contexts' \in SUBSET contexts,
         Lane' \in SUBSET Lane, \A i \in Lane' : Line'[i] = Line[i],
         \A i \in Lane \ Lane' : i = 0 /\ Line[i].kind = "submit",
         \A r \in Rings : \A m \in Known'[r] : m \in Nat /\ \E k \in Known[r] : k \in Nat /\ m <= k
  PROVE  LineInv'
  <1>1. PICK I, J, N, M, D, E, C, B : /\ I = Lane /\ J = Lane' /\ N = Line /\ M = Line' /\ D = Known /\ E = Known'
                                      /\ C = contexts /\ B = contexts'
    BY ZenonT(40)
  <1>2. /\ I \in SUBSET Nat /\ (\A i \in I : Posted(N[i])) /\ \A r \in Rings : seq[r] \in Nat
    BY <1>1, LineFacts, Zenon
  <1>3. Ordered(I, N, D, seq) /\ Alternate(I, N, C, open)
    BY <1>1, ZenonT(40) DEF LineInv
  <1>4. /\ J \in SUBSET I /\ (\A i \in J : M[i] = N[i]) /\ (\A i \in I \ J : i = 0 /\ N[i].kind = "submit")
        /\ B \in SUBSET C
        /\ \A r \in Rings : \A m \in E[r] : m \in Nat /\ \E k \in D[r] : k \in Nat /\ m <= k
    BY <1>1, Zenon
  <1>5. Ordered(J, M, E, seq)
    BY <1>2, <1>3, <1>4, OrderKept, Zenon
  <1>6. Alternate(J, M, B, open)
    BY <1>2, <1>3, <1>4, AlternateKept, Zenon
  <1>7. QED BY <1>1, <1>5, <1>6, Zenon DEF LineInv

\* No chain leaves the ring, and none in it changes.
LEMMA SameLine ==
  ASSUME FenceBase, LineInv, pc # "dead", UNCHANGED <<avail, seq, open>>, contexts' \in SUBSET contexts,
         \A h \in owned : h \notin Range(used) => cmd'[h] = cmd[h],
         Unfinished' => Unfinished /\ UNCHANGED hand,
         Unfinished /\ ~Unfinished' => cmd[hand].kind = "submit",
         \A r \in Rings : \A m \in Known'[r] : m \in Nat /\ \E k \in Known[r] : k \in Nat /\ m <= k
  PROVE  LineInv'
  <1>1. \A i \in 1 .. Len(avail) : avail[i] \in owned /\ avail[i] \notin Range(used) /\ i \in Nat
    <2>1. avail \in Seq(Heads)
      BY Zenon DEF FenceBase, ChainTypes
    <2>2. \A i \in 1 .. Len(avail) : avail[i] \in Range(avail)
      BY <2>1 DEF Range
    <2>3. QED BY <2>2, LineFacts, QueueFacts, ZenonT(40)
  <1>2. Unfinished => hand \in owned /\ hand \notin Range(used)
    BY InHandFacts, Zenon DEF Unfinished, Holding
  <1>3. Lane' \in SUBSET Lane
    BY Zenon DEF Lane
  <1>4. \A i \in Lane' : Line'[i] = Line[i]
    BY <1>1, <1>2, SMTT(40) DEF Lane, Line
  <1>5. \A i \in Lane \ Lane' : i = 0 /\ Line[i].kind = "submit"
    BY DEF Lane, Line
  <1>6. QED BY <1>3, <1>4, <1>5, LineKept, Zenon

LEMMA KnownKept ==
  ASSUME FenceBase, UNCHANGED completed_fences, (pending \cup owed)' \subseteq pending \cup owed
  PROVE  \A r \in Rings : \A m \in Known'[r] : m \in Nat /\ \E k \in Known[r] : k \in Nat /\ m <= k
  <1>1. ASSUME NEW r \in Rings, NEW m \in Known'[r] PROVE m \in Known[r] /\ m \in Nat
    <2>1. CASE m = completed_fences[r]
      BY <2>1, Zenon DEF Known, FenceBase, RingTypes
    <2>2. CASE \E q \in pending \cup owed : q.ring = r /\ m = q.id
      BY <2>2, Zenon DEF Known, FenceBase, RingTypes, Fence
    <2>3. QED BY <1>1, <2>1, <2>2, Zenon DEF Known
  <1>2. QED BY <1>1, SMTT(40)

SideInv == CleanInv /\ PendInv /\ NotStranded

LEMMA SideKept ==
  ASSUME SideInv, UNCHANGED <<pending, owed, contexts, completed_fences, descs>>,
         pc \in {"forget", "process"} \/ pc' \in {"forget", "process"}
           => UNCHANGED <<pc, hand>> /\ cmd'[hand] = cmd[hand]
  PROVE  SideInv'
  <1>1. pc' = "process" => pc = "process" /\ InHand' = InHand
    BY Zenon DEF InHand
  <1>2. pc = "process" => pc' = "process" /\ InHand' = InHand
    BY Zenon DEF InHand
  <1>3. pc' = "forget" <=> pc = "forget"
    BY Zenon
  <1>4. pc = "forget" => cmd'[hand'] = cmd[hand]
    BY Zenon
  <1>5. CleanInv'
    BY <1>3, <1>4, Zenon DEF SideInv, CleanInv
  <1>6. PendInv'
    BY <1>1, <1>2, Zenon DEF SideInv, PendInv
  <1>7. NotStranded'
    BY <1>3, <1>4, Zenon DEF SideInv, NotStranded
  <1>8. QED BY <1>5, <1>6, <1>7, Zenon DEF SideInv

\* Steps that neither move the line nor touch a fence.
LEMMA RestQuiet ==
  ASSUME FenceBase, LineInv, SideInv,
         \/ SpinSees \/ SpinEnds \/ Polled \/ PollInterrupted \/ ReadKick \/ GoOn \/ QueueEmpty
         \/ Execute \/ InterruptOrphans \/ Notify \/ DriverKick \/ reset \/ ResetRings
  PROVE  LineInv' /\ SideInv'
  <1>1. UNCHANGED <<chains, rings, worker>>
    BY Zenon DEF SpinSees, SpinEnds, Polled, PollInterrupted, ReadKick, GoOn, QueueEmpty, Execute, InterruptOrphans,
           Notify, DriverKick, reset, ResetRings, chains, rings, driver, device, thread, fences, renderer
  <1>2. \/ UNCHANGED pc
        \/ /\ pc \notin Holding \cup {"pop", "retire", "dead"}
           /\ pc' \in {"spin", "read", "sleep", "woken", "pop"}
        \/ pc = "pop" /\ pc' = "retire"
        \/ pc = "execute" /\ pc' = "fence" /\ cmd[hand].kind = "submit"
        \/ pc = "orphans_irq" /\ pc' = "fence"
    BY Zenon DEF SpinSees, SpinEnds, Polled, PollInterrupted, ReadKick, GoOn, QueueEmpty, Execute, InterruptOrphans,
           Notify, DriverKick, reset, ResetRings, Goes, thread, Holding
  <1>3. Unfinished' <=> Unfinished
    BY <1>1, <1>2, Zenon DEF Unfinished, Holding, chains, FenceBase, Control
  <1>4. LineInv'
    <2>1. CASE pc = "dead"
      BY <1>2, <2>1, Zenon DEF LineInv, Holding
    <2>2. CASE pc # "dead"
      <3>1. UNCHANGED <<avail, seq, open, hand, cmd, contexts, completed_fences, pending, owed>>
        BY <1>1, Zenon DEF chains, rings
      <3>2. \A r \in Rings : \A m \in Known'[r] : m \in Nat /\ \E k \in Known[r] : k \in Nat /\ m <= k
        BY <3>1, KnownKept, Zenon
      <3>3. QED BY <1>3, <2>2, <3>1, <3>2, SameLine, Zenon
    <2>3. QED BY <2>1, <2>2, Zenon
  <1>5. SideInv'
    BY <1>1, <1>2, SideKept, Zenon DEF chains, rings, Holding
  <1>6. QED BY <1>4, <1>5, Zenon

\* Steps that leave the line, the fences and the worker alone.
LEMMA RestKept ==
  ASSUME FenceBase, LineInv, SideInv, UNCHANGED <<avail, hand, pc, seq, open, contexts, completed_fences, pending, owed, descs>>,
         \A h \in owned : h \notin Range(used) => cmd'[h] = cmd[h]
  PROVE  LineInv' /\ SideInv'
  <1>1. pc \in Holding => cmd'[hand] = cmd[hand]
    BY InHandFacts, Zenon
  <1>2. Unfinished' <=> Unfinished
    BY <1>1, Zenon DEF Unfinished, Holding
  <1>3. LineInv'
    <2>1. CASE pc = "dead"
      BY <2>1, Zenon DEF LineInv
    <2>2. CASE pc # "dead"
      <3>1. \A r \in Rings : \A m \in Known'[r] : m \in Nat /\ \E k \in Known[r] : k \in Nat /\ m <= k
        BY KnownKept, Zenon
      <3>2. QED BY <1>2, <2>2, <3>1, SameLine, Zenon
    <2>3. QED BY <2>1, <2>2, Zenon
  <1>4. SideInv'
    BY <1>1, SideKept, Zenon DEF Holding
  <1>5. QED BY <1>3, <1>4, Zenon

\* The pass, the callbacks' and the destroyed context's answers.
LEMMA RestAnswers ==
  ASSUME FenceBase, LineInv, SideInv, Retire \/ AnswerOrphans \/ Unfenced \/ CreateFenceFails
  PROVE  LineInv' /\ SideInv'
  <1>1. /\ UNCHANGED <<rings, avail, cmd>>
        /\ \/ pc = "retire" /\ pc' \in {"spin", "notify"}
           \/ pc = "orphans" /\ pc' = "orphans_irq"
           \/ pc = "fence" /\ pc' = "pop"
    BY Zenon DEF Retire, AnswerOrphans, Unfenced, CreateFenceFails, Answer, Goes, driver, device, fences, renderer, rings
  <1>2. ~Unfinished' /\ (Unfinished => cmd[hand].kind = "submit") /\ pc # "dead"
    BY <1>1, Zenon DEF Unfinished
  <1>3. UNCHANGED <<seq, open, contexts, completed_fences, pending, owed>>
    BY <1>1, Zenon DEF rings
  <1>4. \A r \in Rings : \A m \in Known'[r] : m \in Nat /\ \E k \in Known[r] : k \in Nat /\ m <= k
    BY <1>3, KnownKept, Zenon
  <1>5. LineInv'
    BY <1>1, <1>2, <1>3, <1>4, SameLine, Zenon
  <1>6. SideInv'
    BY <1>1, SideKept, Zenon DEF rings
  <1>7. QED BY <1>5, <1>6, Zenon

LEMMA RestPop == ASSUME FenceBase, LineInv, SideInv, pop_ctl PROVE LineInv' /\ SideInv'
  <1>1. /\ pc = "pop" /\ avail # <<>> /\ avail' = Tail(avail)
        /\ UNCHANGED <<cmd, open, seq, contexts, completed_fences, pending, owed, descs>>
        /\ \/ cmd[Head(avail)].form = "broken" /\ UNCHANGED <<pc, hand>>
           \/ hand' = Head(avail) /\ pc' = "execute"
    BY Zenon DEF pop_ctl, fences, renderer
  <1>2. SideInv'
    BY <1>1, SideKept, Zenon
  <1>3. PICK I, N, D, n : I = Lane /\ N = Line /\ D = Known /\ n = Len(avail)
    BY ZenonT(40)
  <1>4. /\ n \in Nat /\ n # 0 /\ Len(Tail(avail)) = n - 1 /\ Head(avail) = avail[1]
        /\ \A i \in 1 .. n - 1 : Tail(avail)[i] = avail[i + 1]
    BY <1>1, <1>3 DEF FenceBase, ChainTypes
  <1>5. ~Unfinished /\ I = 1 .. n
    BY <1>1, <1>3, Zenon DEF Unfinished, Lane
  <1>6. \A i \in 1 .. n : N[i] = cmd[avail[i]] /\ Posted(N[i])
    BY <1>1, <1>3, <1>5, LineFacts, Zenon
  <1>7. Ordered(I, N, D, seq) /\ Alternate(I, N, contexts, open)
    BY <1>1, <1>3, Zenon DEF LineInv
  <1>8. PICK J, M : J = {i \in Nat : i + 1 \in I} /\ M = [i \in Nat |-> N[i + 1]]
    BY ZenonT(40)
  <1>9. I \in SUBSET Nat /\ 0 \notin I /\ J = 0 .. n - 1 /\ \A i \in J : i \in Nat /\ M[i] = N[i + 1]
    <2>1. I \in SUBSET Nat /\ 0 \notin I
      BY <1>4, <1>5
    <2>2. \A i \in Nat : i + 1 \in I <=> i \in 0 .. n - 1
      BY <1>4, <1>5
    <2>3. J = 0 .. n - 1
      <3>1. 0 .. n - 1 \subseteq Nat
        BY <1>4
      <3>2. QED BY <1>8, <2>2, <3>1, Zenon
    <2>4. \A i \in J : i \in Nat /\ M[i] = N[i + 1]
      BY <1>8, Zenon
    <2>5. QED BY <2>1, <2>3, <2>4, Zenon
  <1>10. Ordered(J, M, D, seq) /\ Alternate(J, M, contexts, open)
    BY <1>7, <1>8, <1>9, OrderShift, AlternateShift, ZenonT(40)
  <1>11. Known' = D
    BY <1>1, <1>3, Zenon DEF Known
  <1>12. \A i \in 1 .. n - 1 : i \in J /\ i + 1 \in 1 .. n /\ Line'[i] = M[i]
    BY <1>1, <1>4, <1>6, <1>9 DEF Line
  <1>13. CASE hand' = Head(avail) /\ pc' = "execute"
    <2>1. Lane' = J
      BY <1>1, <1>4, <1>9, <1>13, SMTT(40) DEF Lane, Unfinished
    <2>2. Line'[0] = M[0] /\ 0 \in J
      BY <1>1, <1>4, <1>6, <1>9, <1>13 DEF Line
    <2>3. \A i \in J : Line'[i] = M[i]
      BY <1>4, <1>9, <1>12, <2>2
    <2>4. PICK K : K = Line'
      BY Zenon
    <2>5. (\A i \in J : K[i] = M[i]) /\ (\A i \in J \ J : FALSE) /\ J \in SUBSET J /\ J \in SUBSET Nat
      BY <1>9, <2>3, <2>4, Zenon
    <2>6. \A i \in J : Posted(M[i])
      BY <1>4, <1>6, <1>9, SMTT(40)
    <2>7. \A r \in Rings : seq[r] \in Nat /\ \A m \in D[r] : m \in Nat /\ m <= m
      BY <1>1, <1>3, LineFacts
    <2>8. Ordered(J, K, D, seq)
      BY <1>10, <2>5, <2>6, <2>7, OrderKept, ZenonT(40)
    <2>9. Alternate(J, K, contexts, open)
      BY <1>10, <2>5, AlternateKept, Zenon
    <2>10. LineInv'
      BY <1>1, <1>11, <2>1, <2>4, <2>8, <2>9, ZenonT(40) DEF LineInv
    <2>11. QED BY <1>2, <2>10, Zenon
  <1>14. CASE cmd[Head(avail)].form = "broken" /\ UNCHANGED <<pc, hand>>
    <2>1. Lane' = 1 .. n - 1
      BY <1>1, <1>4, <1>14, Zenon DEF Lane, Unfinished
    <2>2. PICK K, H : K = Line' /\ H = 1 .. n - 1
      BY Zenon
    <2>3. N[1].kind = "submit" /\ M[0] = N[1]
      BY <1>4, <1>6, <1>9, <1>14, SMTT(40) DEF Posted
    <2>4. /\ \A i \in H : K[i] = M[i]
          /\ \A i \in J \ H : i = 0 /\ M[i].kind = "submit"
          /\ H \in SUBSET J /\ J \in SUBSET Nat
      BY <1>4, <1>9, <1>12, <2>2, <2>3
    <2>6. \A i \in J : Posted(M[i])
      BY <1>4, <1>6, <1>9
    <2>7. \A r \in Rings : seq[r] \in Nat /\ \A m \in D[r] : m \in Nat /\ m <= m
      BY <1>1, <1>3, LineFacts
    <2>8. Ordered(H, K, D, seq)
      BY <1>10, <2>4, <2>6, <2>7, OrderKept, Zenon
    <2>9. Alternate(H, K, contexts, open)
      BY <1>10, <2>4, AlternateKept, Zenon
    <2>10. LineInv'
      BY <1>1, <1>11, <2>1, <2>2, <2>8, <2>9, ZenonT(40) DEF LineInv
    <2>11. QED BY <1>2, <2>10, Zenon
  <1>15. QED BY <1>1, <1>13, <1>14, Zenon

\* What a posted command does to the line.
LEMMA PostedLine ==
  ASSUME FenceBase, pc # "dead", NEW h \in Heads, NEW x, Posts(h, x)
  PROVE  \E n \in Nat : /\ \A i \in Lane : i < n /\ Line'[i] = Line[i]
                        /\ Lane' = Lane \cup {n} /\ Line'[n] = x
                        /\ Known' = Known /\ UNCHANGED <<pc, contexts>>
  <1>1. /\ h \notin owned /\ cmd' = [cmd EXCEPT ![h] = x] /\ avail' = Append(avail, h)
        /\ UNCHANGED <<pc, hand, completed_fences, contexts, pending, owed>>
    BY Zenon DEF Posts, thread, fences, renderer
  <1>2. PICK n : n = Len(avail) + 1
    BY Zenon
  <1>3. /\ n \in Nat /\ n # 0 /\ Len(avail) \in Nat /\ Len(Append(avail, h)) = n /\ Append(avail, h)[n] = h
        /\ \A i \in 1 .. Len(avail) : Append(avail, h)[i] = avail[i]
    BY <1>2 DEF FenceBase, ChainTypes
  <1>4. cmd'[h] = x /\ \A g \in owned : cmd'[g] = cmd[g]
    BY <1>1, Zenon DEF FenceBase, ChainTypes
  <1>5. Unfinished => hand \in owned
    BY InHandFacts, Zenon DEF Unfinished, Holding
  <1>6. (Unfinished' <=> Unfinished)
    <2>1. pc = "fence" => hand \in owned
      BY InHandFacts, Zenon DEF Holding
    <2>2. QED BY <1>1, <1>4, <2>1, Zenon DEF Unfinished
  <1>7. \A i \in 1 .. Len(avail) : avail[i] \in owned /\ i \in Nat /\ i # 0
    BY LineFacts, Zenon
  <1>8. Lane' = Lane \cup {n}
    BY <1>1, <1>2, <1>3, <1>6, SMTT(40) DEF Lane
  <1>9. Line'[n] = x
    BY <1>1, <1>3, <1>4, Zenon DEF Line
  <1>10. ASSUME NEW i \in Lane PROVE i < n /\ Line'[i] = Line[i]
    <2>1. CASE i = 0
      <3>1. hand \in owned
        BY <1>5, <2>1, LineFacts, Zenon
      <3>2. QED BY <1>1, <1>3, <1>4, <2>1, <3>1 DEF Line
    <2>2. CASE i # 0
      <3>1. i \in 1 .. Len(avail)
        BY <2>2, LineFacts, Zenon
      <3>2. QED BY <1>1, <1>2, <1>3, <1>4, <1>7, <3>1 DEF Line
    <2>3. QED BY <2>1, <2>2, ZenonT(40)
  <1>11. Known' = Known
    BY <1>1, Zenon DEF Known
  <1>12. QED BY <1>1, <1>3, <1>8, <1>9, <1>10, <1>11, Zenon

LEMMA SidePosts == ASSUME FenceBase, SideInv, NEW h \in Heads, NEW x, Posts(h, x) PROVE SideInv'
  <1>1. /\ h \notin owned /\ cmd' = [cmd EXCEPT ![h] = x]
        /\ UNCHANGED <<pc, hand, completed_fences, contexts, pending, owed, descs>>
    BY Zenon DEF Posts, thread, fences, renderer
  <1>2. pc \in {"forget", "process"} => cmd'[hand] = cmd[hand]
    BY <1>1, InHandFacts, ZenonT(40) DEF FenceBase, ChainTypes, Holding
  <1>3. QED BY <1>1, <1>2, SideKept, Zenon

LEMMA RestSubmit == ASSUME FenceBase, LineInv, SideInv, NEW h \in Heads, DriverSubmit(h) PROVE LineInv' /\ SideInv'
  <1>1. PICK x : /\ Posts(h, x) /\ Posted(x) /\ x.kind = "submit" /\ x.ring \in Rings /\ UNCHANGED open
                 /\ \A r \in Rings : seq'[r] = IF Fences(x, r) THEN seq[r] + 1 ELSE seq[r]
                 /\ \A r \in Rings : Fences(x, r) => x.fence = seq[r] + 1
    BY SubmitFacts, Zenon
  <1>2. SideInv'
    BY <1>1, SidePosts, Zenon
  <1>3. CASE pc = "dead"
    BY <1>1, <1>2, <1>3, Zenon DEF LineInv, Posts, thread
  <1>4. CASE pc # "dead"
    <2>1. PICK n \in Nat : /\ \A i \in Lane : i < n /\ Line'[i] = Line[i]
                           /\ Lane' = Lane \cup {n} /\ Line'[n] = x
                           /\ Known' = Known /\ UNCHANGED <<pc, contexts>>
      BY <1>1, <1>4, PostedLine, Zenon
    <2>2. PICK I, N, M, D, s, t : I = Lane /\ N = Line /\ M = Line' /\ D = Known /\ s = seq /\ t = seq'
      BY Zenon
    <2>3. Ordered(I, N, D, s) /\ Alternate(I, N, contexts, open)
      BY <1>4, <2>2, Zenon DEF LineInv
    <2>4. /\ I \in SUBSET Nat /\ (\A i \in I : Posted(N[i]))
          /\ \A r \in Rings : s[r] \in Nat /\ \A m \in D[r] : m \in Nat
      BY <1>4, <2>2, LineFacts, Zenon
    <2>5. (\A i \in I : i < n /\ M[i] = N[i]) /\ M[n] = x
      BY <2>1, <2>2, Zenon
    <2>6. \A r \in Rings : /\ t[r] = IF Fences(M[n], r) THEN s[r] + 1 ELSE s[r]
                           /\ Fences(M[n], r) => M[n].fence = s[r] + 1
      BY <1>1, <2>2, <2>5, Zenon
    <2>7. Ordered(I \cup {n}, M, D, t)
      BY <1>1, <2>3, <2>4, <2>5, <2>6, OrderSubmit
    <2>8. Alternate(I \cup {n}, M, contexts, open)
      BY <1>1, <2>3, <2>4, <2>5, AlternateSubmit, Zenon
    <2>9. LineInv'
      BY <1>1, <2>1, <2>2, <2>7, <2>8, ZenonT(40) DEF LineInv
    <2>10. QED BY <1>2, <2>9, Zenon
  <1>5. QED BY <1>3, <1>4, Zenon

LEMMA RestContext == ASSUME FenceBase, LineInv, SideInv, NEW h \in Heads, DriverContext(h) PROVE LineInv' /\ SideInv'
  <1>1. PICK c, x : /\ c \in Ctxs /\ Posts(h, x) /\ Posted(x) /\ x.ctx = c
                    /\ x.kind = (IF c \in open THEN "destroy" ELSE "create")
                    /\ open' = (IF c \in open THEN open \ {c} ELSE open \cup {c})
                    /\ \A r \in Rings : r \notin RingsOf(c) => seq'[r] = seq[r]
    BY ContextFacts, Zenon
  <1>2. SideInv'
    BY <1>1, SidePosts, ZenonT(40)
  <1>3. CASE pc = "dead"
    BY <1>1, <1>2, <1>3, Zenon DEF LineInv, Posts, thread
  <1>4. CASE pc # "dead"
    <2>1. PICK n \in Nat : /\ \A i \in Lane : i < n /\ Line'[i] = Line[i]
                           /\ Lane' = Lane \cup {n} /\ Line'[n] = x
                           /\ Known' = Known /\ UNCHANGED <<pc, contexts>>
      BY <1>1, <1>4, PostedLine, Zenon
    <2>2. PICK I, N, M, D, s, t, O, P : /\ I = Lane /\ N = Line /\ M = Line' /\ D = Known /\ s = seq /\ t = seq'
                                        /\ O = open /\ P = open'
      BY Zenon
    <2>3. Ordered(I, N, D, s) /\ Alternate(I, N, contexts, O)
      BY <1>4, <2>2, Zenon DEF LineInv
    <2>4. I \in SUBSET Nat
      BY <1>4, <2>2, LineFacts, Zenon
    <2>5. (\A i \in I : i < n /\ M[i] = N[i]) /\ M[n] = x
      BY <2>1, <2>2, Zenon
    <2>6. M[n].kind # "submit" /\ \A r \in Rings : ~Clears(M[n], r) => t[r] = s[r]
      BY <1>1, <2>2, <2>5, Zenon DEF Clears
    <2>7. Ordered(I \cup {n}, M, D, t)
      BY <2>3, <2>4, <2>5, <2>6, OrderContext, Zenon
    <2>8. M[n].ctx = c /\ M[n].kind = (IF c \in O THEN "destroy" ELSE "create") /\ P = (IF c \in O THEN O \ {c} ELSE O \cup {c})
      BY <1>1, <2>2, <2>5, Zenon
    <2>9. Alternate(I \cup {n}, M, contexts, P)
      BY <1>1, <2>3, <2>4, <2>5, <2>8, AlternateContext, ZenonT(40)
    <2>10. LineInv'
      BY <2>1, <2>2, <2>7, <2>9, Zenon DEF LineInv
    <2>11. QED BY <1>2, <2>10, Zenon
  <1>5. QED BY <1>3, <1>4, Zenon

LEMMA RestActivate == ASSUME FenceBase, SideInv, activate PROVE LineInv' /\ SideInv'
  <1>1. /\ pc = "dead" /\ pc' \in {"spin", "dead"} /\ avail = <<>>
        /\ UNCHANGED <<avail, cmd, open, seq, hand, descs, completed_fences, contexts, pending, owed>>
    BY Zenon DEF activate, FenceBase, Control, driver, fences, renderer
  <1>2. SideInv'
    BY <1>1, SideKept, Zenon
  <1>3. /\ pending = {} /\ owed = {} /\ contexts = {} /\ seq \in [Rings -> Nat]
        /\ \A r \in Rings : completed_fences[r] = 0
    BY <1>1, ZenonT(40) DEF FenceBase, Control, RingTypes
  <1>4. ASSUME pc' # "dead" PROVE Lane' = {}
    BY <1>1, <1>4, SMTT(40) DEF Lane, Unfinished
  <1>5. \A r \in Rings : Known'[r] = {0}
    BY <1>1, <1>3, Zenon DEF Known
  <1>6. ASSUME pc' # "dead" PROVE Ordered(Lane', Line', Known', seq') /\ Alternate(Lane', Line', contexts', open')
    <2>1. PICK I, N, D : I = Lane' /\ N = Line' /\ D = Known'
      BY Zenon
    <2>2. I = {} /\ (\A r \in Rings : D[r] = {0} /\ seq[r] \in Nat) /\ contexts = {}
      BY <1>3, <1>4, <1>5, <1>6, <2>1, Zenon
    <2>3. Ordered(I, N, D, seq) /\ Alternate(I, N, contexts, open)
      BY <2>2 DEF Ordered, Alternate
    <2>4. QED BY <1>1, <2>1, <2>3, Zenon
  <1>7. QED BY <1>2, <1>6, Zenon DEF LineInv

LEMMA RestEnds == ASSUME FenceBase, SideInv, Exit \/ ResetJoins PROVE LineInv' /\ SideInv'
  <1>1. CASE Exit
    <2>1. /\ pc' = "dead" /\ descs' = {} /\ pending' = {} /\ owed' = {}
          /\ \A r \in Rings : completed_fences'[r] = 0
      BY <1>1, Zenon DEF Exit, Goes
    <2>2. QED BY <2>1, Zenon DEF LineInv, SideInv, CleanInv, PendInv, NotStranded
  <1>2. CASE ResetJoins
    <2>1. /\ pc = "dead" /\ pc' = "dead"
          /\ UNCHANGED <<pending, owed, contexts, completed_fences, descs>>
      BY <1>2, Zenon DEF ResetJoins, Joined, thread, fences, renderer
    <2>2. SideInv'
      BY <2>1, SideKept, Zenon
    <2>3. QED BY <2>1, <2>2, Zenon DEF LineInv
  <1>3. QED BY <1>1, <1>2, Zenon

LEMMA RestReap == ASSUME FenceBase, LineInv, SideInv, DriverReap PROVE LineInv' /\ SideInv'
  <1>1. /\ cmd' = [h \in Heads |-> IF h \in Range(used) THEN NoCommand ELSE cmd[h]]
        /\ UNCHANGED <<avail, hand, pc, seq, open, contexts, completed_fences, pending, owed, descs>>
    BY Zenon DEF DriverReap, thread, fences, renderer
  <1>2. \A h \in owned : h \notin Range(used) => cmd'[h] = cmd[h]
    BY <1>1, Zenon DEF FenceBase, ChainTypes
  <1>3. QED BY <1>1, <1>2, RestKept, Zenon

LEMMA RestCallback ==
  ASSUME FenceBase, LineInv, SideInv, NEW r \in Rings, CallbackPush(r) \/ CallbackInterrupt(r)
  PROVE  LineInv' /\ SideInv'
  <1>1. UNCHANGED <<avail, cmd, hand, pc, seq, open, contexts, completed_fences, pending, owed, descs>>
    BY Zenon DEF CallbackPush, CallbackInterrupt, driver, thread, fences
  <1>2. QED BY <1>1, RestKept, Zenon

\* The fences before a reached one are reached with it.
LEMMA RestReach == ASSUME FenceBase, LineInv, SideInv, NEW r \in Rings, Reach(r) PROVE LineInv' /\ SideInv'
  <1>1. PICK p \in pending, reached \in SUBSET pending :
          /\ reached = {q \in pending : q.ring = r /\ q.id <= p.id} /\ p.ring = r
          /\ pending' = pending \ reached /\ owed' = owed \cup reached
          /\ UNCHANGED <<avail, cmd, hand, pc, seq, open, contexts, completed_fences, descs>>
    BY ZenonT(40) DEF Reach, driver, thread, fences
  <1>2. pc # "dead" /\ \A q \in pending \cup owed \cup descs : q.id \in Nat
    BY Zenon DEF FenceBase, Control, RingTypes, Fence
  <1>3. (pending \cup owed)' = pending \cup owed
    BY <1>1, Zenon
  <1>4. InHand' = InHand /\ (Unfinished' <=> Unfinished)
    BY <1>1, Zenon DEF InHand, Unfinished
  <1>5. \A s \in Rings : \A m \in Known'[s] : m \in Nat /\ \E k \in Known[s] : k \in Nat /\ m <= k
    BY <1>1, <1>3, KnownKept, Zenon
  <1>6. LineInv'
    BY <1>1, <1>2, <1>4, <1>5, SameLine, Zenon
  <1>7. CleanInv'
    BY <1>1, <1>3, Zenon DEF SideInv, CleanInv
  <1>8. PendInv'
    <2>1. ASSUME NEW x \in pending', NEW q \in owed', q.ring = x.ring PROVE q.id < x.id
      <3>1. x \in pending /\ x \notin reached
        BY <1>1, Zenon
      <3>2. CASE q \in owed
        BY <2>1, <3>1, <3>2, ZenonT(40) DEF SideInv, PendInv
      <3>3. CASE q \in reached
        <4>1. q.ring = r /\ q.id <= p.id /\ x.ring = r /\ ~(x.id <= p.id)
          BY <1>1, <2>1, <3>1, <3>3, Zenon
        <4>2. QED BY <1>1, <1>2, <3>1, <3>3, <4>1, SMTT(40)
      <3>4. QED BY <1>1, <3>2, <3>3, Zenon
    <2>2. \A x \in pending' : /\ x \in descs' \/ (pc' = "process" /\ x = InHand')
                              /\ completed_fences'[x.ring] < x.id
      BY <1>1, <1>4, ZenonT(40) DEF SideInv, PendInv
    <2>3. ASSUME pc' = "process"
          PROVE  \/ InHand' \in pending' \/ InHand'.id <= completed_fences'[InHand'.ring]
                 \/ \E q \in owed' : q.ring = InHand'.ring /\ q.id >= InHand'.id
      <3>1. CASE InHand \in reached
        <4>1. InHand \in owed' /\ InHand.id \in Nat
          BY <1>1, <1>2, <3>1, Zenon
        <4>2. InHand.id >= InHand.id
          BY <4>1
        <4>3. QED BY <1>4, <4>1, <4>2, ZenonT(40)
      <3>2. CASE InHand \notin reached
        BY <1>1, <1>4, <2>3, <3>2, ZenonT(40) DEF SideInv, PendInv
      <3>3. QED BY <3>1, <3>2, Zenon
    <2>4. QED BY <2>1, <2>2, <2>3, ZenonT(40) DEF PendInv
  <1>9. NotStranded'
    <2>1. ASSUME NEW d \in descs
          PROVE  \/ d \in pending' \/ (\E q \in owed' : q.ring = d.ring /\ q.id >= d.id)
                 \/ pc' = "forget" /\ d.ring \in RingsOf(cmd[hand].ctx)'
      <3>1. CASE d \in reached
        <4>1. d \in owed' /\ d.id >= d.id
          BY <1>1, <1>2, <3>1, SMTT(40)
        <4>2. QED BY <4>1, Zenon
      <3>2. CASE d \notin reached
        BY <1>1, <3>2, Zenon DEF SideInv, NotStranded
      <3>3. QED BY <3>1, <3>2, Zenon
    <2>2. QED BY <1>1, <2>1, Zenon DEF NotStranded
  <1>10. QED BY <1>6, <1>7, <1>8, <1>9, Zenon DEF SideInv

\* The mark takes the place of a fence that was known already.
LEMMA RestHandler == ASSUME FenceBase, LineInv, SideInv, NEW r \in Rings, FenceHandler(r) PROVE LineInv' /\ SideInv'
  <1>1. PICK q \in owed, out \in SUBSET descs :
           /\ q.ring = r /\ out = {d \in descs : d.ring = r /\ d.id <= q.id}
           /\ owed' = owed \ {q} /\ descs' = descs \ out
           /\ completed_fences' = [completed_fences EXCEPT ![r] = Larger(completed_fences[r], q.id)]
           /\ UNCHANGED <<chains, pc, open, seq, contexts, pending>>
    BY HandlerFacts, Zenon
  <1>2. PICK mark : mark = Larger(completed_fences[r], q.id)
    BY Zenon
  <1>3. /\ q.id \in Nat /\ completed_fences[r] \in Nat /\ mark \in {completed_fences[r], q.id}
        /\ completed_fences[r] <= mark /\ q.id <= mark
    <2>1. q.id \in Nat /\ completed_fences[r] \in Nat
      BY Zenon DEF FenceBase, RingTypes, Fence
    <2>2. QED BY <1>2, <2>1 DEF Larger
  <1>4. \A s \in Rings : completed_fences'[s] = IF s = r THEN mark ELSE completed_fences[s]
    BY <1>1, <1>2, Zenon DEF FenceBase, RingTypes
  <1>5. /\ UNCHANGED <<avail, cmd, hand>> /\ InHand' = InHand /\ (Unfinished' <=> Unfinished) /\ pc # "dead"
    BY <1>1, Zenon DEF chains, InHand, Unfinished, FenceBase, Control
  <1>6. \A s \in Rings : \A m \in Known'[s] : m \in Known[s]
    <2>1. ASSUME NEW s \in Rings, NEW m \in Known'[s] PROVE m \in Known[s]
      <3>1. CASE m = completed_fences'[s]
        BY <1>1, <1>3, <1>4, <3>1 DEF Known
      <3>2. CASE \E x \in pending' \cup owed' : x.ring = s /\ m = x.id
        BY <1>1, <3>2, ZenonT(40) DEF Known
      <3>3. QED BY <2>1, <3>1, <3>2, Zenon DEF Known
    <2>2. QED BY <2>1, Zenon
  <1>7. \A s \in Rings : \A m \in Known'[s] : m \in Nat /\ \E k \in Known[s] : k \in Nat /\ m <= k
    <2>1. \A s \in Rings : \A m \in Known[s] : m \in Nat
      BY <1>5, LineFacts, ZenonT(40)
    <2>2. \A s \in Rings : \A m \in Known'[s] : m \in Nat /\ m \in Known[s] /\ m <= m
      BY <1>6, <2>1
    <2>3. QED BY <2>2, Zenon
  <1>8. LineInv'
    BY <1>1, <1>5, <1>7, SameLine, Zenon
  <1>9. CleanInv'
    <2>1. r \in Timelines(contexts)
      BY <1>1, ZenonT(40) DEF SideInv, CleanInv
    <2>2. \A s \in Rings : s \notin Timelines(contexts) => completed_fences'[s] = completed_fences[s]
      BY <1>4, <2>1, Zenon
    <2>3. QED BY <1>1, <1>5, <2>2, Zenon DEF SideInv, CleanInv
  <1>10. PendInv'
    <2>1. \A x \in pending : x.ring = r => q.id < x.id /\ completed_fences[r] < x.id /\ x.id \in Nat
      BY <1>1, Zenon DEF SideInv, PendInv, FenceBase, RingTypes, Fence
    <2>2. \A x \in pending : x \notin out
      BY <1>1, <1>3, <2>1
    <2>3. \A x \in pending : completed_fences'[x.ring] < x.id
      <3>1. \A x \in pending : x.ring \in Rings
        BY Zenon DEF FenceBase, RingTypes, Fence
      <3>2. QED BY <1>3, <1>4, <2>1, <3>1, Zenon DEF SideInv, PendInv
    <2>4. \A x \in pending : /\ x \in descs' \/ (pc' = "process" /\ x = InHand')
                             /\ \A y \in owed' : y.ring = x.ring => y.id < x.id
      BY <1>1, <1>5, <2>2, Zenon DEF SideInv, PendInv
    <2>5. ASSUME pc = "process"
          PROVE  \/ InHand \in pending \/ InHand.id <= completed_fences'[InHand.ring]
                 \/ \E y \in owed' : y.ring = InHand.ring /\ y.id >= InHand.id
      <3>1. InHand.ring \in Rings /\ InHand.id \in Nat
        <4>1. Posted(cmd[hand]) /\ cmd[hand].kind = "submit"
          BY <2>5, InHandFacts, Zenon DEF FenceBase, Control, Holding
        <4>2. QED BY <4>1, Zenon DEF InHand, Posted
      <3>2. CASE InHand.id <= completed_fences[InHand.ring]
        <4>1. completed_fences[InHand.ring] \in Nat
          BY <3>1, Zenon DEF FenceBase, RingTypes
        <4>2. QED BY <1>3, <1>4, <3>1, <3>2, <4>1
      <3>3. CASE InHand.ring = r /\ q.id >= InHand.id
        BY <1>3, <1>4, <3>1, <3>3
      <3>4. QED BY <1>1, <2>5, <3>2, <3>3, Zenon DEF SideInv, PendInv
    <2>6. QED BY <1>1, <1>5, <2>3, <2>4, <2>5, ZenonT(40) DEF PendInv
  <1>11. NotStranded'
    <2>1. ASSUME NEW d \in descs'
          PROVE  \/ d \in pending \/ (\E y \in owed' : y.ring = d.ring /\ y.id >= d.id)
                 \/ pc = "forget" /\ d.ring \in RingsOf(cmd[hand].ctx)
      <3>1. d \in descs /\ d \notin out /\ d.id \in Nat
        BY <1>1, Zenon DEF FenceBase, RingTypes, Fence
      <3>2. ~(q.ring = d.ring /\ q.id >= d.id)
        BY <1>1, <1>3, <3>1, Zenon
      <3>3. QED BY <1>1, <3>1, <3>2, ZenonT(40) DEF SideInv, NotStranded
    <2>2. QED BY <1>1, <1>5, <2>1, Zenon DEF NotStranded
  <1>12. QED BY <1>8, <1>9, <1>10, <1>11, Zenon DEF SideInv

LEMMA RestProcess == ASSUME FenceBase, LineInv, SideInv, process_fence PROVE LineInv' /\ SideInv'
  <1>1. /\ pc = "process" /\ pc' = "pop"
        /\ UNCHANGED <<avail, cmd, open, seq, completed_fences, contexts, pending, owed>>
        /\ \/ InHand.id <= completed_fences[InHand.ring] /\ UNCHANGED descs
           \/ ~(InHand.id <= completed_fences[InHand.ring]) /\ descs' = descs \cup {InHand}
    BY ZenonT(40) DEF process_fence, Answer, Track, driver, renderer
  <1>2. LineInv'
    <2>1. ~Unfinished /\ ~Unfinished' /\ pc # "dead"
      BY <1>1, Zenon DEF Unfinished
    <2>2. \A r \in Rings : \A m \in Known'[r] : m \in Nat /\ \E k \in Known[r] : k \in Nat /\ m <= k
      BY <1>1, KnownKept, Zenon
    <2>3. QED BY <1>1, <2>1, <2>2, SameLine, Zenon
  <1>3. CleanInv'
    BY <1>1, Zenon DEF SideInv, CleanInv
  <1>4. PendInv'
    <2>1. ASSUME NEW p \in pending PROVE p \in descs'
      <3>1. p \in descs \/ p = InHand
        BY <1>1, Zenon DEF SideInv, PendInv
      <3>2. ~(p.id <= completed_fences[p.ring])
        <4>1. completed_fences[p.ring] < p.id /\ p.id \in Nat /\ completed_fences[p.ring] \in Nat
          BY Zenon DEF SideInv, PendInv, FenceBase, RingTypes, Fence
        <4>2. QED BY <4>1
      <3>3. QED BY <1>1, <3>1, <3>2, Zenon
    <2>2. QED BY <1>1, <2>1, Zenon DEF SideInv, PendInv
  <1>5. NotStranded'
    <2>1. ASSUME NEW d \in descs'
          PROVE  d \in pending \/ \E q \in owed : q.ring = d.ring /\ q.id >= d.id
      <3>1. CASE d \in descs
        BY <1>1, <3>1, Zenon DEF SideInv, NotStranded
      <3>2. CASE d \notin descs
        BY <1>1, <3>2 DEF SideInv, PendInv
      <3>3. QED BY <3>1, <3>2, Zenon
    <2>2. QED BY <1>1, <2>1, Zenon DEF NotStranded
  <1>6. QED BY <1>2, <1>3, <1>4, <1>5, Zenon DEF SideInv

\* The context command in hand is seen to.
LEMMA FrontCleared ==
  ASSUME FenceBase, LineInv, pc # "dead", UNCHANGED <<avail, cmd, hand, seq, open>>,
         Unfinished, ~Unfinished', cmd[hand].kind # "submit",
         \A r \in Rings : Known'[r] = IF r \in RingsOf(cmd[hand].ctx) THEN {0} ELSE Known[r],
         \A d \in Ctxs : d # cmd[hand].ctx => (d \in contexts' <=> d \in contexts),
         cmd[hand].kind = "destroy" => cmd[hand].ctx \notin contexts'
  PROVE  LineInv'
  <1>1. PICK I, N, M, D, E, C, B, c : /\ I = Lane /\ N = Line /\ M = Line' /\ D = Known /\ E = Known'
                                      /\ C = contexts /\ B = contexts' /\ c = cmd[hand].ctx
    BY ZenonT(40)
  <1>2. /\ I \in SUBSET Nat /\ 0 \in I /\ N[0] = cmd[hand] /\ (\A i \in I : Posted(N[i]))
        /\ \A r \in Rings : seq[r] \in Nat
    BY <1>1, LineFacts, Zenon
  <1>3. Ordered(I, N, D, seq) /\ Alternate(I, N, C, open)
    BY <1>1, ZenonT(40) DEF LineInv
  <1>4. Lane' = I \ {0} /\ M = N
    <2>1. Lane' = Lane \ {0}
      BY <1>2 DEF Lane, FenceBase, ChainTypes
    <2>2. QED BY <1>1, <2>1, Zenon DEF Line
  <1>5. /\ N[0].kind \in {"create", "destroy"} /\ c \in Ctxs /\ About(N[0], c)
        /\ \A r : Clears(N[0], r) <=> r \in RingsOf(c)
    BY <1>1, <1>2, Zenon DEF Posted, About, Clears
  <1>6. Ordered(I \ {0}, M, E, seq)
    <2>1. \A r \in Rings : E[r] = IF Clears(N[0], r) THEN {0} ELSE D[r]
      BY <1>1, <1>5, Zenon
    <2>2. QED BY <1>2, <1>3, <1>4, <1>5, <2>1, OrderCleared, Zenon
  <1>7. Alternate(I \ {0}, M, B, open)
    <2>1. (\A d \in Ctxs : d # c => (d \in B <=> d \in C)) /\ (N[0].kind = "destroy" => c \notin B)
      BY <1>1, <1>2, Zenon
    <2>2. QED BY <1>2, <1>3, <1>4, <1>5, <2>1, AlternateDone, ZenonT(40)
  <1>8. QED BY <1>1, <1>4, <1>6, <1>7, Zenon DEF LineInv

\* A context that is not there has no fence and no mark.
LEMMA NothingKnown ==
  ASSUME FenceBase, SideInv, NEW c \in Ctxs, c \notin contexts, pc # "forget"
  PROVE  \A r \in RingsOf(c) : Known[r] = {0}
  <1>1. \A r \in RingsOf(c) : r \in Rings /\ r \notin Timelines(contexts)
    BY RingFacts, Zenon DEF FenceBase, RingTypes
  <1>2. QED BY <1>1, Zenon DEF SideInv, CleanInv, Known

LEMMA RestCreate == ASSUME FenceBase, LineInv, SideInv, create_context PROVE LineInv' /\ SideInv'
  <1>1. /\ pc = "execute" /\ pc' = "fence" /\ cmd[hand].kind = "create"
        /\ contexts' = contexts \cup {cmd[hand].ctx} \/ UNCHANGED contexts
        /\ UNCHANGED <<avail, cmd, open, seq, hand, descs, completed_fences, pending, owed>>
    BY ZenonT(40) DEF create_context, Goes, driver, fences
  <1>2. Unfinished /\ ~Unfinished' /\ pc # "dead"
    BY <1>1, Zenon DEF Unfinished
  <1>3. Posted(cmd[hand]) /\ cmd[hand].ctx \in Ctxs
    BY <1>1, InHandFacts, Zenon DEF Posted, Holding
  <1>4. cmd[hand].ctx \notin contexts
    <2>1. PICK I, N, c : I = Lane /\ N = Line /\ c = cmd[hand].ctx
      BY Zenon
    <2>2. 0 \in I /\ N[0] = cmd[hand] /\ I \in SUBSET Nat /\ Alternate(I, N, contexts, open)
      BY <1>2, <2>1, LineFacts, ZenonT(40) DEF LineInv
    <2>3. c \in Ctxs /\ About(N[0], c) /\ N[0].kind = "create" /\ \A k \in I : ~(k < 0)
      BY <1>1, <1>3, <2>1, <2>2, SMTT(40) DEF About
    <2>4. c \notin contexts
      BY <2>2, <2>3, Zenon DEF Alternate
    <2>5. QED BY <2>1, <2>4, Zenon
  <1>5. \A r \in RingsOf(cmd[hand].ctx) : Known[r] = {0}
    BY <1>1, <1>3, <1>4, NothingKnown, Zenon
  <1>6. Known' = Known
    BY <1>1, Zenon DEF Known
  <1>7. LineInv'
    BY <1>1, <1>2, <1>5, <1>6, FrontCleared, Zenon
  <1>8. SideInv'
    <2>1. \A r \in Rings : r \notin Timelines(contexts)' => r \notin Timelines(contexts)
      BY <1>1, Zenon DEF Timelines
    <2>2. CleanInv'
      BY <1>1, <2>1, Zenon DEF SideInv, CleanInv
    <2>3. PendInv' /\ NotStranded'
      BY <1>1, Zenon DEF SideInv, PendInv, NotStranded
    <2>4. QED BY <2>2, <2>3, Zenon DEF SideInv
  <1>9. QED BY <1>7, <1>8, Zenon

LEMMA RestDestroy == ASSUME FenceBase, LineInv, SideInv, destroy_context PROVE LineInv' /\ SideInv'
  <1>0. PICK c : c = cmd[hand].ctx
    BY Zenon
  <1>1. /\ pc = "execute" /\ cmd[hand].kind = "destroy"
        /\ IF c \in contexts
           THEN /\ pc' = "forget" /\ contexts' = contexts \ {c}
                /\ pending' = {p \in pending : p.ring \notin RingsOf(c)}
                /\ owed' = {p \in owed : p.ring \notin RingsOf(c)}
           ELSE pc' = "fence" /\ UNCHANGED <<contexts, pending, owed>>
        /\ UNCHANGED <<avail, cmd, open, seq, hand, descs, completed_fences>>
    BY <1>0, Zenon DEF destroy_context, driver, fences
  <1>2. Posted(cmd[hand]) /\ c \in Ctxs
    BY <1>0, <1>1, InHandFacts, Zenon DEF Posted, Holding
  <1>3. Unfinished /\ pc # "dead"
    BY <1>1, ZenonT(40) DEF Unfinished
  <1>4. CASE c \in contexts
    <2>1. /\ pc' = "forget" /\ contexts' = contexts \ {c} /\ pending' \subseteq pending /\ owed' \subseteq owed
          /\ \A p \in pending' \cup owed' : p.ring \notin RingsOf(c)
          /\ \A p \in pending : p.ring \notin RingsOf(c) => p \in pending'
          /\ \A p \in owed : p.ring \notin RingsOf(c) => p \in owed'
      BY <1>1, <1>4, Zenon
    <2>2. LineInv'
      <3>1. Unfinished'
        BY <2>1, Zenon DEF Unfinished
      <3>2. \A r \in Rings : \A m \in Known'[r] : m \in Nat /\ \E k \in Known[r] : k \in Nat /\ m <= k
        BY <1>1, <2>1, KnownKept, Zenon
      <3>3. QED BY <1>1, <1>3, <2>1, <3>1, <3>2, SameLine, Zenon
    <2>3. CleanInv'
      <3>1. \A r \in Rings : r \notin Timelines(contexts)' => r \notin Timelines(contexts) \/ r \in RingsOf(c)
        BY <2>1, Zenon DEF Timelines, RingsOf
      <3>2. \A r \in Rings : r \notin Timelines(contexts) =>
              (\A q \in pending \cup owed : q.ring # r) /\ completed_fences[r] = 0
        BY <1>1, ZenonT(40) DEF SideInv, CleanInv
      <3>3. cmd'[hand'].ctx = c /\ c \notin contexts'
        BY <1>0, <1>1, <2>1, Zenon
      <3>4. QED BY <1>1, <2>1, <3>1, <3>2, <3>3, ZenonT(40) DEF CleanInv
    <2>4. PendInv'
      BY <1>1, <2>1, Zenon DEF SideInv, PendInv
    <2>5. NotStranded'
      <3>1. ASSUME NEW d \in descs
            PROVE  \/ d \in pending' \/ (\E q \in owed' : q.ring = d.ring /\ q.id >= d.id)
                   \/ d.ring \in RingsOf(c)
        BY <1>1, <2>1, ZenonT(40) DEF SideInv, NotStranded
      <3>2. cmd'[hand'].ctx = c
        BY <1>0, <1>1, Zenon
      <3>3. QED BY <1>1, <2>1, <3>1, <3>2, Zenon DEF NotStranded
    <2>6. QED BY <2>2, <2>3, <2>4, <2>5, Zenon DEF SideInv
  <1>5. CASE c \notin contexts
    <2>1. pc' = "fence" /\ UNCHANGED <<contexts, pending, owed>>
      BY <1>1, <1>5, Zenon
    <2>2. SideInv'
      BY <1>1, <2>1, SideKept, Zenon
    <2>3. ~Unfinished'
      BY <1>1, <2>1, Zenon DEF Unfinished
    <2>4. \A r \in RingsOf(c) : Known[r] = {0}
      BY <1>1, <1>2, <1>5, NothingKnown, Zenon
    <2>5. Known' = Known
      BY <1>1, <2>1, Zenon DEF Known
    <2>6. LineInv'
      BY <1>0, <1>1, <1>3, <1>5, <2>1, <2>3, <2>4, <2>5, FrontCleared, Zenon
    <2>7. QED BY <2>2, <2>6, Zenon
  <1>6. QED BY <1>4, <1>5, Zenon

\* The marks of the destroyed context start over; nothing is on its way for it.
LEMMA RestForget == ASSUME FenceBase, LineInv, SideInv, retire_context_fences PROVE LineInv' /\ SideInv'
  <1>0. PICK c, rs : c = cmd[hand].ctx /\ rs = RingsOf(c)
    BY Zenon
  <1>1. /\ pc = "forget" /\ pc' \in {"fence", "orphans"}
        /\ descs' = {d \in descs : d.ring \notin rs}
        /\ completed_fences' = [r \in Rings |-> IF r \in rs THEN 0 ELSE completed_fences[r]]
        /\ UNCHANGED <<avail, cmd, hand, open, seq, contexts, pending, owed>>
    BY <1>0, Zenon DEF retire_context_fences, Orphan, driver, renderer
  <1>2. cmd[hand].kind = "destroy" /\ c \in Ctxs /\ c \notin contexts
    <2>1. cmd[hand].kind = "destroy" /\ Posted(cmd[hand])
      BY <1>1, InHandFacts, Zenon DEF FenceBase, Control, Holding
    <2>2. QED BY <1>0, <1>1, <2>1, Zenon DEF Posted, SideInv, CleanInv
  <1>3. Unfinished /\ ~Unfinished' /\ pc # "dead"
    BY <1>1, <1>2, ZenonT(40) DEF Unfinished
  <1>4. \A r \in rs : r \in Rings /\ \A q \in pending \cup owed : q.ring # r
    <2>1. \A r \in rs : r \in Rings /\ r \notin Timelines(contexts)
      BY <1>0, <1>2, RingFacts DEF FenceBase, RingTypes
    <2>2. QED BY <2>1, Zenon DEF SideInv, CleanInv
  <1>5. \A r \in Rings : completed_fences'[r] = IF r \in rs THEN 0 ELSE completed_fences[r]
    BY <1>1, Zenon
  <1>6. \A r \in Rings : Known'[r] = IF r \in rs THEN {0} ELSE Known[r]
    BY <1>1, <1>4, <1>5, Zenon DEF Known
  <1>7. LineInv'
    BY <1>0, <1>1, <1>2, <1>3, <1>6, FrontCleared, Zenon
  <1>8. CleanInv'
    BY <1>0, <1>1, <1>5, ZenonT(40) DEF SideInv, CleanInv
  <1>9. PendInv'
    <2>1. \A p \in pending : /\ p.ring \notin rs /\ p.ring \in Rings /\ p \in descs
                             /\ completed_fences[p.ring] < p.id
                             /\ \A q \in owed : q.ring = p.ring => q.id < p.id
      BY <1>1, <1>4, Zenon DEF SideInv, PendInv, FenceBase, RingTypes, Fence
    <2>2. QED BY <1>1, <1>5, <2>1, Zenon DEF PendInv
  <1>10. NotStranded'
    BY <1>0, <1>1, ZenonT(40) DEF SideInv, NotStranded
  <1>11. QED BY <1>7, <1>8, <1>9, <1>10, Zenon DEF SideInv

\* The new fence is newer than all the timeline has known.
LEMMA RestFence == ASSUME FenceBase, LineInv, SideInv, create_fence PROVE LineInv' /\ SideInv'
  <1>1. /\ pc = "fence" /\ pc' = "process" /\ cmd[hand].fence # 0 /\ cmd[hand].ring \in Timelines(contexts)
        /\ pending' = pending \cup {InHand}
        /\ UNCHANGED <<avail, cmd, open, seq, hand, descs, completed_fences, contexts, owed>>
    BY Zenon DEF create_fence, Goes, CanFence, driver, fences
  <1>2. cmd[hand].kind = "submit" /\ cmd[hand].ring \in Rings /\ cmd[hand].fence \in Nat
    BY <1>1, InHandFacts, Zenon DEF Posted, Holding
  <1>3. Unfinished /\ ~Unfinished' /\ pc # "dead"
    BY <1>1, <1>2, Zenon DEF Unfinished
  <1>4. PICK I, N, M, D, E, q, f :
          I = Lane /\ N = Line /\ M = Line' /\ D = Known /\ E = Known' /\ q = cmd[hand].ring /\ f = cmd[hand].fence
    BY Zenon
  <1>5. InHand.ring = q /\ InHand.id = f /\ InHand' = InHand
    BY <1>1, <1>4, Zenon DEF InHand
  <1>6. /\ I \in SUBSET Nat /\ 0 \in I /\ N[0] = cmd[hand] /\ Fences(N[0], q) /\ N[0].fence = f
        /\ Ordered(I, N, D, seq) /\ Alternate(I, N, contexts, open)
    BY <1>1, <1>2, <1>3, <1>4, LineFacts, Zenon DEF LineInv, Fences
  <1>7. \A m \in Known[q] : m < f
    <2>1. \A k \in I : ~(k < 0)
      BY <1>6
    <2>2. \A m \in D[q] : m < N[0].fence
      BY <1>2, <1>4, <1>6, <2>1, Zenon DEF Ordered
    <2>3. QED BY <1>4, <1>6, <2>2, Zenon
  <1>8. LineInv'
    <2>1. Lane' = I \ {0} /\ M = N
      <3>1. Lane' = Lane \ {0}
        BY <1>1, <1>3 DEF Lane, FenceBase, ChainTypes
      <3>2. QED BY <1>1, <1>4, <3>1, ZenonT(40) DEF Line
    <2>2. \A r \in Rings : \A m \in E[r] : m \in D[r] \/ (r = q /\ m = N[0].fence)
      BY <1>1, <1>4, <1>5, <1>6, Zenon DEF Known
    <2>3. q \in Rings /\ I \ {0} \in SUBSET I /\ N[0].kind = "submit"
      BY <1>2, <1>4, <1>6, Zenon
    <2>4. (\A i \in I \ {0} : M[i] = N[i]) /\ \A i \in I \ (I \ {0}) : i = 0
      BY <2>1, Zenon
    <2>5. Ordered(I \ {0}, M, E, seq)
      <3>1. I \in SUBSET Nat /\ 0 \in I /\ Ordered(I, N, D, seq) /\ Fences(N[0], q) /\ q \in Rings
        BY <1>6, <2>3, Zenon
      <3>2. QED BY <2>2, <2>4, <3>1, OrderFenced, ZenonT(40)
    <2>6. Alternate(I \ {0}, M, contexts, open)
      BY <1>6, <2>3, <2>4, AlternateKept, Zenon
    <2>7. QED BY <1>1, <1>4, <2>1, <2>5, <2>6, Zenon DEF LineInv
  <1>9. CleanInv'
    BY <1>1, <1>4, <1>5, Zenon DEF SideInv, CleanInv
  <1>10. PendInv'
    <2>1. completed_fences[q] < f /\ \A x \in owed : x.ring = q => x.id < f
      BY <1>2, <1>4, <1>7, Zenon DEF Known
    <2>2. QED BY <1>1, <1>5, <2>1, Zenon DEF SideInv, PendInv
  <1>11. NotStranded'
    BY <1>1, Zenon DEF SideInv, NotStranded
  <1>12. QED BY <1>8, <1>9, <1>10, <1>11, Zenon DEF SideInv

LEMMA RestStep == FenceBase /\ LineInv /\ SideInv /\ [Next]_vars => LineInv' /\ SideInv'
  <1> SUFFICES ASSUME FenceBase, LineInv, SideInv, [Next]_vars PROVE LineInv' /\ SideInv'
    BY Zenon
  <1>1. CASE UNCHANGED vars
    <2>1. UNCHANGED <<avail, cmd, hand, pc, seq, open, contexts, completed_fences, pending, owed, descs>>
      BY <1>1, Zenon DEF vars, driver, thread, fences, renderer
    <2>2. QED BY <2>1, RestKept, Zenon
  <1>2. CASE Work
    BY <1>2, RestQuiet, RestEnds, RestPop, RestCreate, RestDestroy, RestForget, RestAnswers, RestFence, RestProcess, Zenon
       DEF Work
  <1>3. ASSUME NEW r \in Rings, Reach(r) \/ Callback(r) PROVE LineInv' /\ SideInv'
    BY <1>3, RestReach, RestHandler, RestCallback, Zenon DEF Callback
  <1>4. ASSUME NEW h \in Heads, DriverSubmit(h) \/ DriverContext(h) PROVE LineInv' /\ SideInv'
    BY <1>4, RestSubmit, RestContext, Zenon
  <1>5. CASE activate \/ reset \/ ResetRings \/ ResetJoins \/ DriverKick \/ DriverReap \/ PollInterrupted
    BY <1>5, RestActivate, RestQuiet, RestEnds, RestReap, Zenon
  <1>6. QED BY <1>1, <1>2, <1>3, <1>4, <1>5, Zenon DEF Next

LEMMA FenceInvariant == Spec => [](FenceBase /\ LineInv /\ SideInv)
  <1>1. Init => FenceBase
    BY BaseStart, Zenon
  <1>2. Init => LineInv /\ SideInv
    BY Zenon DEF Init, LineInv, SideInv, CleanInv, PendInv, NotStranded
  <1>3. FenceBase /\ LineInv /\ SideInv /\ [Next]_vars => (FenceBase /\ LineInv /\ SideInv)'
    BY BaseStep, RestStep, Zenon
  <1>4. QED BY <1>1, <1>2, <1>3, PTL DEF Spec

\* Every chain the driver has posted is in exactly one place, and a chain that
\* waits for a fence has a signal to come or a callback under way: none is lost,
\* answered twice or stranded (process_commands, complete_fences, create_fence,
\* retire_context_fences).
THEOREM ChainsAreAccounted == Spec => []ChainsAccounted
  <1>1. FenceBase /\ LineInv /\ SideInv => ChainsAccounted
    BY Once, Zenon DEF ChainsAccounted, SideInv
  <1>2. QED BY <1>1, FenceInvariant, PTL

\* A chain whose fence the renderer has not reached is still the device's, and
\* unanswered, however ids restart with a context and callbacks are delayed
\* (FenceTracker, retire_context_fences).
THEOREM NeverEarly == Spec => []NotEarly
  <1>1. ASSUME FenceBase, SideInv, NEW p \in pending PROVE p.head \in owned \ Answered
    <2>1. pc # "dead" /\ p.head \in Heads
      BY <1>1, ZenonT(40) DEF FenceBase, Control, RingTypes, Fence
    <2>2. p.head \in Held(descs) \/ (pc \in Holding /\ p.head = hand)
      BY <1>1 DEF SideInv, PendInv, Held, Holding, InHand
    <2>3. QED BY <1>1, <2>1, <2>2, NotAnswered, Zenon
  <1>2. FenceBase /\ LineInv /\ SideInv => NotEarly
    BY <1>1, Zenon DEF NotEarly
  <1>3. QED BY <1>2, FenceInvariant, PTL
====
