--------------------------- MODULE BlkQueueProofs ---------------------------
(***************************************************************************)
(* Proofs about one virtio-blk queue, for every number of descriptors and  *)
(* of slots, every ring size and index range, both engines, both           *)
(* notification schemes, and any number of retries and resets.             *)
(***************************************************************************)
EXTENDS BlkQueue, FiniteSetTheorems, SequenceTheorems, TLAPS

(* Wrapping ring indices, for every range of the index *)

\* The wrapping operations stay inside the range of a ring index.
LEMMA WrapType ==
    ASSUME NEW a \in Index, NEW b \in Index
    PROVE  /\ wrapping_add(a, b) \in Index
           /\ wrapping_sub(a, b) \in Index
BY IdxModAssumption DEF Index, wrapping_add, wrapping_sub

\* Subtraction undoes addition: the distance from a to a + k is k.
LEMMA AddThenSub ==
    ASSUME NEW a \in Index, NEW k \in Index
    PROVE  wrapping_sub(wrapping_add(a, k), a) = k
BY IdxModAssumption DEF Index, wrapping_add, wrapping_sub

LEMMA SubThenAdd ==
    ASSUME NEW a \in Index, NEW b \in Index
    PROVE  wrapping_add(a, wrapping_sub(b, a)) = b
BY IdxModAssumption DEF Index, wrapping_add, wrapping_sub

\* The event lies in the batch exactly when it is nearer to old than new is.
LEMMA NeedEventDistance ==
    ASSUME NEW event \in Index, NEW new \in Index, NEW old \in Index
    PROVE  vring_need_event(event, new, old)
               <=> wrapping_sub(event, old) < wrapping_sub(new, old)
BY IdxModAssumption DEF Index, wrapping_sub, vring_need_event

\* vring_need_event (common.rs) is right wherever the index wraps: it answers
\* whether the event is one of the indices published between old and new.
THEOREM NeedEventCorrect ==
    ASSUME NEW event \in Index, NEW new \in Index, NEW old \in Index
    PROVE  vring_need_event(event, new, old) <=> event \in Published(old, new)
<1> DEFINE n == wrapping_sub(new, old)
           d == wrapping_sub(event, old)
<1>1. n \in Index /\ d \in Index
  BY WrapType, Zenon
<1>2. ASSUME d < n
      PROVE  event \in Published(old, new)
  <2>1. d \in 0 .. n - 1
    BY <1>1, <1>2 DEF Index
  <2>2. event = wrapping_add(old, d)
    BY SubThenAdd, Zenon
  <2> QED BY <2>1, <2>2, Zenon DEF Published
<1>3. ASSUME event \in Published(old, new)
      PROVE  d < n
  <2>1. PICK k \in 0 .. n - 1 : event = wrapping_add(old, k)
    BY <1>3, Zenon DEF Published
  <2>2. k \in Index
    BY <1>1, IdxModAssumption DEF Index
  <2>3. d = k
    BY <2>1, <2>2, AddThenSub, Zenon
  <2> QED BY <1>1, <2>1, <2>3 DEF Index
<1> QED BY <1>2, <1>3, NeedEventDistance, Zenon

-----------------------------------------------------------------------------
(* The invariant *)

\* Where the queue's lock is, against the state it protects.
LockInv ==
    /\ pc \in Locked \ {"releasing"} => enabled
    /\ pc = "releasing" => ~enabled
    /\ reset_pc = "waiting" => ~enabled

\* While a disabled queue's slots are being released the published count is
\* stale on the safe side only.
ReleasingInv == pc = "releasing" => in_flight >= Depth - Len(free)

\* The inductive invariant.
IInv == TypeOK /\ SlabConserved /\ LockInv /\ InFlightExact /\ ReleasingInv /\ QuietAfterReset

-----------------------------------------------------------------------------
(* The free list *)

\* A list of tokens without repetitions is no longer than the slab, and holds
\* every token if it is as long.
LEMMA FreeListBound ==
    ASSUME NEW f \in Seq(Tokens), IsInjective(f)
    PROVE  /\ Len(f) \in 0 .. Depth
           /\ Len(f) = Depth => Range(f) = Tokens
<1> DEFINE n == Len(f)
<1>1. n \in Nat /\ f \in [1 .. n -> Tokens] /\ DOMAIN f = 1 .. n
  BY LenProperties, Zenon
<1>2. f \in Injection(1 .. n, Tokens)
  BY <1>1, Zenon DEF Injection
<1>3. IsFiniteSet(Tokens) /\ Cardinality(Tokens) = Depth
  BY FS_Interval, BlkQueueAssumption DEF Tokens
<1>4. Cardinality(1 .. n) = n
  BY <1>1, FS_Interval
<1>5. /\ Cardinality(1 .. n) <= Cardinality(Tokens)
      /\ Cardinality(1 .. n) = Cardinality(Tokens) => f \in Surjection(1 .. n, Tokens)
  BY <1>2, <1>3, FS_Injection, Zenon
<1>6. n \in 0 .. Depth
  BY <1>1, <1>3, <1>4, <1>5, BlkQueueAssumption
<1>7. ASSUME n = Depth
      PROVE  Range(f) = Tokens
  BY <1>1, <1>3, <1>4, <1>5, <1>7, Zenon DEF Surjection, Range
<1> QED BY <1>6, <1>7, Zenon

\* Freeing a token that is not on the list.
LEMMA AppendFree ==
    ASSUME NEW f \in Seq(Tokens), IsInjective(f), NEW t \in Tokens, t \notin Range(f)
    PROVE  /\ Append(f, t) \in Seq(Tokens)
           /\ IsInjective(Append(f, t))
           /\ Range(Append(f, t)) = Range(f) \cup {t}
           /\ Len(Append(f, t)) = Len(f) + 1
<1> DEFINE g == Append(f, t)
<1>1. /\ g \in Seq(Tokens) /\ Len(g) = Len(f) + 1 /\ Len(f) \in Nat
      /\ DOMAIN f = 1 .. Len(f) /\ DOMAIN g = 1 .. Len(f) + 1
      /\ \A i \in 1 .. Len(f) : g[i] = f[i]
      /\ g[Len(f) + 1] = t
  BY AppendProperties, LenProperties
<1>2. IsInjective(g)
  BY <1>1 DEF IsInjective, Range
<1>3. Range(g) = Range(f) \cup {t}
  BY <1>1 DEF Range
<1> QED BY <1>1, <1>2, <1>3, Zenon

\* Taking the last token of the list.
LEMMA PopFree ==
    ASSUME NEW f \in Seq(Tokens), IsInjective(f), f # <<>>
    PROVE  LET t == f[Len(f)]
               g == SubSeq(f, 1, Len(f) - 1)
           IN  /\ t \in Tokens /\ t \in Range(f)
               /\ g \in Seq(Tokens)
               /\ IsInjective(g)
               /\ Range(g) = Range(f) \ {t}
<1> DEFINE n == Len(f)
           t == f[n]
           g == SubSeq(f, 1, n - 1)
<1>1. n \in Nat \ {0} /\ DOMAIN f = 1 .. n /\ \A i \in 1 .. n : f[i] \in Tokens
  BY EmptySeq, LenProperties, Zenon
<1>2. /\ g \in Seq(Tokens)
      /\ Len(g) = n - 1
      /\ \A i \in 1 .. n - 1 : g[i] = f[i]
  <2>1. \A i \in 1 .. n - 1 : f[i] \in Tokens
    BY <1>1
  <2>2. 1 \in Int /\ n - 1 \in Int
    BY <1>1
  <2>3. /\ g \in Seq(Tokens)
        /\ Len(g) = IF 1 <= n - 1 THEN n - 1 - 1 + 1 ELSE 0
        /\ \A i \in 1 .. n - 1 - 1 + 1 : g[i] = f[1 + i - 1]
    BY <2>1, <2>2, SubSeqProperties
  <2> QED BY <1>1, <2>3
<1>3. DOMAIN g = 1 .. n - 1
  BY <1>2, LenProperties, Zenon
<1>4. IsInjective(g)
  BY <1>1, <1>2, <1>3 DEF IsInjective
<1>5. Range(g) = Range(f) \ {t}
  <2>1. ASSUME NEW x \in Range(g)
        PROVE  x \in Range(f) \ {t}
    <3>1. PICK i \in 1 .. n - 1 : x = f[i]
      BY <1>2, <1>3, Zenon DEF Range
    <3>2. i \in 1 .. n /\ n \in 1 .. n /\ i # n
      <4>1. n \in Nat \ {0}
        BY <1>1, Zenon
      <4> HIDE DEF n
      <4> QED BY <4>1
    <3>3. f[i] # f[n]
      BY <1>1, <3>2, Zenon DEF IsInjective
    <3>4. f[i] \in Range(f)
      BY <1>1, <3>2, Zenon DEF Range
    <3> QED BY <3>1, <3>3, <3>4, Zenon
  <2>2. ASSUME NEW x \in Range(f) \ {t}
        PROVE  x \in Range(g)
    <3>1. PICK i \in 1 .. n : x = f[i]
      BY <1>1, Zenon DEF Range
    <3>2. i \in 1 .. n - 1
      BY <1>1, <3>1
    <3> QED BY <1>2, <1>3, <3>1, <3>2, Zenon DEF Range
  <2> QED BY <2>1, <2>2, Zenon
<1>6. t \in Tokens /\ t \in Range(f)
  BY <1>1 DEF Range
<1> QED BY <1>2, <1>4, <1>5, <1>6, Zenon

-----------------------------------------------------------------------------
(* Type correctness *)

\* A ring index names an entry of the ring.
LEMMA RingEntry ==
    ASSUME NEW i \in Index
    PROVE  i % QSize \in 0 .. QSize - 1
BY IdxModAssumption, BlkQueueAssumption DEF Index

LEMMA IndexFacts ==
    /\ 0 \in Index /\ 1 \in Index
    /\ \A i \in Index : wrapping_add(i, 1) \in Index
BY IdxModAssumption, WrapType DEF Index, wrapping_add

\* The index suppress_notify publishes while the queue is drained.
LEMMA SuppressedIndex ==
    ASSUME NEW i \in Index
    PROVE  wrapping_add(wrapping_add(i, QSize \div 2), 1) \in Index
<1>1. QSize \div 2 \in Index
  BY IdxModAssumption, BlkQueueAssumption, RingAssumption DEF Index
<1> QED BY <1>1, WrapType, IndexFacts, Zenon

LEMMA InitIInv == Init => IInv
<1> SUFFICES ASSUME Init PROVE IInv
  BY Zenon
<1>1. /\ free \in [1 .. Depth -> Tokens] /\ DOMAIN free = 1 .. Depth
      /\ \A i \in 1 .. Depth : free[i] = Depth - i
      /\ Depth \in Nat \ {0, 1}
  BY BlkQueueAssumption DEF Init, Tokens
<1>2. free \in Seq(Tokens) /\ Len(free) = Depth
  BY <1>1
<1>3. IsInjective(free)
  BY <1>1 DEF IsInjective
<1>4. Range(free) = Tokens
  BY <1>2, <1>3, FreeListBound, Zenon
<1>5. DOMAIN slots = {}
  BY Zenon DEF Init, Empty
<1>6. TypeOK
  <2>1. {avail_idx, used_idx, used_event, avail_event, last, last_used, notified_at,
         batch_start} \subseteq Index
    BY IndexFacts, Zenon DEF Init
  <2> QED BY <1>2, <1>5, <2>1, <1>1, BlkQueueAssumption
          DEF Init, TypeOK, FreshRing, WorkerPc, JobState
<1>7. SlabConserved
  BY <1>3, <1>4, <1>5, Zenon DEF Init, SlabConserved
<1>8. LockInv /\ InFlightExact /\ ReleasingInv /\ QuietAfterReset
  BY <1>1, <1>2, <1>5 DEF Init, LockInv, InFlightExact, ReleasingInv, QuietAfterReset, Locked
<1> QED BY <1>6, <1>7, <1>8, Zenon DEF IInv

\* The steps of the specification, one case each.
LEMMA NextCases ==
    ASSUME Next
    PROVE  \/ EnterEngine \/ Collect \/ SyncReadKick \/ PollEmpty \/ PollRing \/ PollDeadline
           \/ EngineFails \/ StartPass \/ ReleaseDone \/ CompletionsDone
           \/ Suppress \/ TakeInline \/ TakeIssue \/ TakingDone \/ Unsuppress
           \/ Recheck \/ Notify
           \/ (\E t \in Tokens : release(t))
           \/ (\E t \in Tokens : complete(t))
           \/ KernelReadKick \/ (\E t \in Tokens : KernelComplete(t))
           \/ DriverKick \/ DriverInterrupt \/ DriverReap \/ DriverRearm \/ DriverRecheck
           \/ DriverSetup \/ (\E h \in Heads : DriverAdd(h))
           \/ ResetWrite \/ ResetReturns \/ Drop \/ UNCHANGED vars
BY Zenon DEF Next, WorkerStep, KernelStep, DriverStep, Ended

LEMMA TypeStep ==
    ASSUME IInv, [Next]_vars
    PROVE  TypeOK'
<1> USE DEF IInv
<1>0. TypeOK /\ SlabConserved
  BY Zenon
<1>a. Len(free) \in 0 .. Depth /\ Depth - Len(free) \in 0 .. Depth
  BY FreeListBound, BlkQueueAssumption DEF TypeOK, SlabConserved
<1>1. CASE EnterEngine
  BY <1>0, <1>1, Zenon DEF TypeOK, EnterEngine, vars, ring, driver, queue, slab, pass, reset, WorkerPc,
     JobState
<1>2. CASE Collect
  BY <1>0, <1>2 DEF TypeOK, Collect, vars, ring, driver, queue, slab, pass, reset, WorkerPc,
     JobState
<1>3. CASE SyncReadKick
  BY <1>0, <1>3, Zenon DEF TypeOK, SyncReadKick, vars, ring, driver, queue, slab, pass, reset,
     WorkerPc
<1>4a. CASE PollEmpty
  BY <1>0, <1>4a, Zenon DEF TypeOK, PollEmpty, vars, ring, driver, queue, slab, pass, reset, WorkerPc
<1>4. CASE PollRing
  BY <1>0, <1>4, Zenon DEF TypeOK, PollRing, vars, ring, driver, queue, slab, pass, reset, WorkerPc
<1>5. CASE PollDeadline
  BY <1>0, <1>5, Zenon DEF TypeOK, PollDeadline, vars, ring, driver, queue, slab, pass, reset, WorkerPc
<1>6. CASE EngineFails
  BY <1>0, <1>6, Zenon DEF TypeOK, EngineFails, vars, ring, driver, queue, slab, pass, reset, WorkerPc
<1>7. CASE StartPass
  BY <1>0, <1>7, ZenonT(40) DEF TypeOK, StartPass, vars, ring, driver, queue, slab, pass, reset, WorkerPc
<1>8. CASE ReleaseDone
  BY <1>0, <1>8, <1>a, IndexFacts, Zenon DEF TypeOK, ReleaseDone, vars, ring, driver, queue,
     slab, pass, reset, EndTurn, publish_in_flight, WorkerPc
<1>9. CASE CompletionsDone
  BY <1>0, <1>9, Zenon DEF TypeOK, CompletionsDone, vars, ring, driver, queue, slab, pass, reset, WorkerPc
<1>10. CASE Suppress
  BY <1>0, <1>10, SuppressedIndex, ZenonT(40) DEF TypeOK, Suppress, vars, ring, driver, queue, slab,
     pass, reset, suppress_notify, WorkerPc
<1>11. CASE TakeInline
  BY <1>0, <1>11, IndexFacts, RingEntry DEF TypeOK, TakeInline, vars, ring, driver, queue, slab,
     pass, reset, push_used, NextHead
<1>12. CASE TakingDone
  BY <1>0, <1>12, Zenon DEF TypeOK, TakingDone, vars, ring, driver, queue, slab, pass, reset, WorkerPc
<1>13. CASE Unsuppress
  BY <1>0, <1>13, SuppressedIndex, ZenonT(40) DEF TypeOK, Unsuppress, vars, ring, driver, queue,
     slab, pass, reset, suppress_notify, WorkerPc
<1>14. CASE Recheck
  BY <1>0, <1>14, Zenon DEF TypeOK, Recheck, vars, ring, driver, queue, slab, pass, reset, WorkerPc
<1>15. CASE Notify
  BY <1>0, <1>15, <1>a, IndexFacts, ZenonT(40) DEF TypeOK, Notify, vars, ring, driver, queue, slab,
     pass, reset, EndTurn, publish_in_flight, WorkerPc
<1>16. CASE KernelReadKick
  BY <1>0, <1>16, ZenonT(40) DEF TypeOK, KernelReadKick, vars, ring, driver, queue, slab, pass,
     reset, WorkerPc
<1>17. CASE DriverKick
  BY <1>0, <1>17 DEF TypeOK, DriverKick, vars, ring, driver, queue, slab, pass, reset, WorkerPc
<1>18. CASE DriverInterrupt
  BY <1>0, <1>18, ZenonT(40) DEF TypeOK, DriverInterrupt, vars, ring, driver, queue, slab, pass,
     reset, WorkerPc
<1>19. CASE DriverReap
  BY <1>0, <1>19, IndexFacts, SMTT(40) DEF TypeOK, DriverReap, vars, ring, driver, queue, slab, pass, reset
<1>20. CASE DriverRearm
  BY <1>0, <1>20, Zenon DEF TypeOK, DriverRearm, vars, ring, driver, queue, slab, pass, reset,
     WorkerPc
<1>21. CASE DriverRecheck
  BY <1>0, <1>21, ZenonT(40) DEF TypeOK, DriverRecheck, vars, ring, driver, queue, slab, pass, reset,
     WorkerPc
<1>22. CASE DriverSetup
  BY <1>0, <1>22, Zenon DEF TypeOK, DriverSetup, vars, ring, driver, queue, slab, pass, reset, WorkerPc
<1>23. CASE ResetWrite
  <2>1. /\ avail_ring' \in [0 .. QSize - 1 -> Heads \cup {NoHead}]
        /\ used_ring' \in [0 .. QSize - 1 -> Heads \cup {NoHead}]
    BY <1>23, Zenon DEF ResetWrite, FreshRing
  <2>2. generation' \in 0 .. MaxResets
    BY <1>0, <1>23, BlkQueueAssumption DEF ResetWrite, TypeOK
  <2>3. {avail_idx, used_idx, used_event, avail_event, last, last_used, notified_at,
         batch_start}' \subseteq Index
    BY <1>0, <1>23, IndexFacts, Zenon DEF ResetWrite, TypeOK, pass
  <2> QED BY <1>0, <1>23, <2>1, <2>2, <2>3, Zenon DEF TypeOK, ResetWrite, vars, ring, driver, queue, slab, pass, reset
<1>24. CASE ResetReturns
  BY <1>0, <1>24, SMTT(40) DEF TypeOK, ResetReturns, vars, ring, driver, queue, slab, pass, reset, WorkerPc
<1>25. CASE Drop
  BY <1>0, <1>25, SMTT(40) DEF TypeOK, Drop, vars, ring, driver, queue, slab, pass, reset, WorkerPc
<1>26. CASE UNCHANGED vars
  BY <1>0, <1>26, ZenonT(40) DEF TypeOK, vars, ring, driver, queue, slab, pass, reset
<1>27. CASE TakeIssue
  <2>1. free # <<>> /\ free \in Seq(Tokens) /\ IsInjective(free)
    BY <1>0, <1>27, Zenon DEF TakeIssue, can_accept, TypeOK, SlabConserved
  <2> DEFINE t == free[Len(free)]
             s == [head |-> NextHead, generation |-> generation, tries |-> 0]
  <2>2. t \in Tokens /\ free' \in Seq(Tokens)
    BY <1>27, <2>1, PopFree, Zenon DEF TakeIssue
  <2>3. s \in Slot
    BY <1>0, RingEntry, BlkQueueAssumption DEF TypeOK, Slot, NextHead
  <2>4. DOMAIN slots' \subseteq Tokens /\ \A x \in DOMAIN slots' : slots'[x] \in Slot
    BY <1>0, <1>27, <2>2, <2>3, Zenon DEF TypeOK, TakeIssue, WithSlot
  <2>5. io' \in [Tokens -> JobState]
    BY <1>0, <1>27, <2>2, Zenon DEF TypeOK, TakeIssue, JobState, submitted_state
  <2>6. last' \in Index
    BY <1>0, <1>27, IndexFacts, Zenon DEF TypeOK, TakeIssue
  <2> QED BY <1>0, <1>27, <2>2, <2>4, <2>5, <2>6, SMTT(40) DEF TypeOK, TakeIssue, vars, ring, driver, queue, slab, pass, reset
<1>28. ASSUME NEW t \in Tokens, release(t)
       PROVE  TypeOK'
  <2>1. free' \in Seq(Tokens)
    BY <1>0, <1>28, AppendProperties, Zenon DEF TypeOK, release
  <2>2. DOMAIN slots' \subseteq Tokens /\ \A x \in DOMAIN slots' : slots'[x] \in Slot
    BY <1>0, <1>28, Zenon DEF TypeOK, release, WithoutSlots, Restrict
  <2>3. io' \in [Tokens -> JobState]
    BY <1>0, <1>28, Zenon DEF TypeOK, release, JobState
  <2> QED BY <1>0, <1>28, <2>1, <2>2, <2>3, Zenon DEF TypeOK, release, vars, ring, driver, queue, slab, pass, reset
<1>29. ASSUME NEW t \in Tokens, complete(t)
       PROVE  TypeOK'
  <2>1. /\ free' \in Seq(Tokens)
        /\ DOMAIN slots' \subseteq Tokens /\ \A x \in DOMAIN slots' : slots'[x] \in Slot
        /\ io' \in [Tokens -> JobState]
        /\ used_ring' \in [0 .. QSize - 1 -> Heads \cup {NoHead}]
        /\ used_idx' \in Index
        /\ used' \in BOOLEAN
    <3>1. t \in DOMAIN slots /\ slots[t] \in Slot
      BY <1>0, <1>29, Zenon DEF complete, TypeOK
    <3>2. CASE StaleCompletion(t)
      BY <1>0, <3>1, <3>2, AppendProperties, Zenon
         DEF TypeOK, StaleCompletion, WithoutSlots, Restrict, no_used, JobState
    <3>3. CASE FinishCompletion(t)
      BY <1>0, <3>1, <3>3, AppendProperties, RingEntry, IndexFacts, Zenon
         DEF TypeOK, FinishCompletion, WithoutSlots, Restrict, push_used, JobState, Slot
    <3>4. CASE resubmit(t)
      <4>1. slots[t].tries \in 0 .. MaxRetries /\ slots[t].tries + 1 \in 0 .. MaxRetries
        BY <3>1, <3>4, BlkQueueAssumption DEF resubmit, Slot
      <4>2. [slots[t] EXCEPT !.tries = @ + 1] \in Slot
        BY <3>1, <4>1, Zenon DEF Slot
      <4>3. /\ DOMAIN slots' = DOMAIN slots
            /\ \A x \in DOMAIN slots :
                 slots'[x] = IF x = t THEN [slots[t] EXCEPT !.tries = @ + 1] ELSE slots[x]
        BY <3>1, <3>4, Zenon DEF resubmit
      <4>4. io' \in [Tokens -> JobState]
        BY <1>0, <3>4, Zenon DEF TypeOK, resubmit, JobState, submitted_state
      <4> QED BY <1>0, <3>4, <4>2, <4>3, <4>4, Zenon DEF TypeOK, resubmit, no_used
    <3> QED BY <1>29, <3>2, <3>3, <3>4, Zenon DEF complete
  <2> QED BY <1>0, <1>29, <2>1 DEF TypeOK, complete, vars, ring, driver, queue, slab, pass, reset
<1>30. ASSUME NEW t \in Tokens, KernelComplete(t)
       PROVE  TypeOK'
  BY <1>0, <1>30, ZenonT(40) DEF TypeOK, KernelComplete, JobState, vars, ring, driver, queue, slab, pass, reset
<1>31. ASSUME NEW h \in Heads, DriverAdd(h)
       PROVE  TypeOK'
  BY <1>0, <1>31, RingEntry, IndexFacts DEF TypeOK, DriverAdd, vars, ring, driver, queue, slab,
     pass, reset
<1> QED
  BY NextCases, <1>1, <1>2, <1>3, <1>4a, <1>4, <1>5, <1>6, <1>7, <1>8, <1>9, <1>10, <1>11,
     <1>12, <1>13, <1>14, <1>15, <1>16, <1>17, <1>18, <1>19, <1>20, <1>21, <1>22, <1>23, <1>24,
     <1>25, <1>26, <1>27, <1>28, <1>29, <1>30, <1>31, Zenon

-----------------------------------------------------------------------------
(* The slab *)

\* What each step does to the slab, as far as its conservation is concerned:
\* nothing; park a request under the last free token; or drop a parked request
\* and free its token.
SlabUntouched ==
    /\ UNCHANGED <<free, DOMAIN slots>>
    /\ \A t \in Tokens : io'[t] = "none" <=> io[t] = "none"

Parks(t) ==
    /\ free # <<>> /\ t = free[Len(free)]
    /\ free' = SubSeq(free, 1, Len(free) - 1)
    /\ DOMAIN slots' = (DOMAIN slots) \cup {t}
    /\ io'[t] # "none" /\ \A x \in Tokens \ {t} : io'[x] = io[x]

Drops(t) ==
    /\ t \in DOMAIN slots
    /\ free' = Append(free, t)
    /\ DOMAIN slots' = (DOMAIN slots) \ {t}
    /\ io'[t] = "none" /\ \A x \in Tokens \ {t} : io'[x] = io[x]

LEMMA SlabEffects ==
    ASSUME IInv, [Next]_vars
    PROVE  SlabUntouched \/ \E t \in Tokens : Parks(t) \/ Drops(t)
<1> USE DEF IInv
<1>0. TypeOK /\ SlabConserved
  BY Zenon
<1>1. CASE UNCHANGED <<slots, free, io>>
  BY <1>1, Zenon DEF SlabUntouched
<1>2. CASE EnterEngine \/ Collect
  BY <1>0, <1>2, Zenon DEF SlabUntouched, EnterEngine, Collect, slab, TypeOK
<1>3. CASE TakeIssue
  <2>1. free # <<>> /\ free \in Seq(Tokens) /\ IsInjective(free)
    BY <1>0, <1>3, Zenon DEF TakeIssue, can_accept, TypeOK, SlabConserved
  <2>2. free[Len(free)] \in Tokens
    BY <2>1, PopFree, Zenon
  <2>3. Parks(free[Len(free)])
    BY <1>0, <1>3, <2>1, <2>2, Zenon DEF TakeIssue, Parks, WithSlot, TypeOK, submitted_state
  <2> QED BY <2>2, <2>3, Zenon
<1>4. ASSUME NEW t \in Tokens, release(t)
      PROVE  Drops(t)
  <2>1. t \in DOMAIN slots
    BY <1>0, <1>4, Zenon DEF release, SlabConserved
  <2> QED BY <1>0, <1>4, <2>1, Zenon DEF release, Drops, WithoutSlots, Restrict, TypeOK
<1>5. ASSUME NEW t \in Tokens, complete(t)
      PROVE  SlabUntouched \/ Drops(t)
  <2>1. t \in DOMAIN slots /\ io[t] = "out"
    BY <1>5, Zenon DEF complete
  <2>2. CASE StaleCompletion(t) \/ FinishCompletion(t)
    BY <1>0, <2>1, <2>2, Zenon
       DEF StaleCompletion, FinishCompletion, Drops, WithoutSlots, Restrict, TypeOK
  <2>3. CASE resubmit(t)
    BY <1>0, <2>1, <2>3, Zenon DEF resubmit, SlabUntouched, TypeOK, submitted_state
  <2> QED BY <1>5, <2>2, <2>3, Zenon DEF complete
<1>6. ASSUME NEW t \in Tokens, KernelComplete(t)
      PROVE  SlabUntouched
  BY <1>0, <1>6, Zenon DEF KernelComplete, SlabUntouched, slab, TypeOK
<1>7. CASE \/ SyncReadKick \/ PollEmpty \/ PollRing \/ PollDeadline \/ EngineFails \/ StartPass
           \/ ReleaseDone \/ CompletionsDone \/ Suppress \/ TakeInline \/ TakingDone
           \/ Unsuppress \/ Recheck \/ Notify
  <2>1. UNCHANGED <<slots, free, io>>
    BY <1>7, Zenon DEF SyncReadKick, PollEmpty, PollRing, PollDeadline, EngineFails, StartPass,
       ReleaseDone,
                CompletionsDone, Suppress, TakeInline, TakingDone, Unsuppress, Recheck,
                Notify, slab
  <2> QED BY <1>1, <2>1, Zenon
<1>8. CASE \/ KernelReadKick \/ DriverKick \/ DriverInterrupt \/ DriverReap \/ DriverRearm
           \/ DriverRecheck \/ DriverSetup \/ (\E h \in Heads : DriverAdd(h))
           \/ ResetWrite \/ ResetReturns \/ Drop \/ UNCHANGED vars
  <2>1. UNCHANGED <<slots, free, io>>
    BY <1>8, Zenon DEF KernelReadKick, DriverKick, DriverInterrupt, DriverReap, DriverRearm,
                DriverRecheck, DriverSetup, DriverAdd, ResetWrite, ResetReturns, Drop,
                vars, slab
  <2> QED BY <1>1, <2>1, Zenon
<1> QED BY NextCases, <1>2, <1>3, <1>4, <1>5, <1>6, <1>7, <1>8, Zenon

LEMMA SlabStep ==
    ASSUME IInv, [Next]_vars
    PROVE  SlabConserved'
<1> USE DEF IInv
<1>0. TypeOK /\ SlabConserved /\ TypeOK'
  BY TypeStep, Zenon
<1>1. CASE SlabUntouched
  BY <1>0, <1>1, Zenon DEF SlabUntouched, SlabConserved
<1>2. ASSUME NEW t \in Tokens, Parks(t)
      PROVE  SlabConserved'
  <2>1. IsInjective(free') /\ Range(free') = Range(free) \ {t} /\ t \in Range(free)
    BY <1>0, <1>2, PopFree, Zenon DEF Parks, SlabConserved, TypeOK
  <2> QED BY <1>0, <1>2, <2>1, Zenon DEF Parks, SlabConserved
<1>3. ASSUME NEW t \in Tokens, Drops(t)
      PROVE  SlabConserved'
  <2>1. t \notin Range(free)
    BY <1>0, <1>3, Zenon DEF Drops, SlabConserved
  <2>2. IsInjective(free') /\ Range(free') = Range(free) \cup {t}
    BY <1>0, <1>3, <2>1, AppendFree, Zenon DEF Drops, SlabConserved, TypeOK
  <2> QED BY <1>0, <1>3, <2>2, Zenon DEF Drops, SlabConserved
<1> QED BY <1>1, <1>2, <1>3, SlabEffects, Zenon

-----------------------------------------------------------------------------
(* The lock, the published count and the reset *)

LEMMA LockStep ==
    ASSUME IInv, [Next]_vars
    PROVE  LockInv'
<1> USE DEF IInv
<1>0. LockInv
  BY Zenon
<1>1. CASE UNCHANGED <<pc, enabled, reset_pc>>
  BY <1>0, <1>1, Zenon DEF LockInv
<1>10. CASE EnterEngine
  BY <1>0, <1>10, Zenon DEF LockInv, Locked, EnterEngine, queue, reset
<1>11. CASE Collect
  BY <1>0, <1>11, Zenon DEF LockInv, Locked, Collect, queue, reset
<1>12. CASE SyncReadKick
  BY <1>0, <1>12, Zenon DEF LockInv, Locked, SyncReadKick, queue, reset
<1>13a. CASE PollEmpty
  BY <1>0, <1>13a, Zenon DEF LockInv, Locked, PollEmpty, queue, reset
<1>13. CASE PollRing
  BY <1>0, <1>13, Zenon DEF LockInv, Locked, PollRing, queue, reset
<1>14. CASE PollDeadline
  BY <1>0, <1>14, Zenon DEF LockInv, Locked, PollDeadline, queue, reset
<1>15. CASE EngineFails
  BY <1>0, <1>15, Zenon DEF LockInv, Locked, EngineFails, queue, reset
<1>16. CASE StartPass
  BY <1>0, <1>16, Zenon DEF LockInv, Locked, StartPass, queue, reset
<1>17. CASE ReleaseDone
  BY <1>0, <1>17, Zenon DEF LockInv, Locked, ReleaseDone, queue, reset, EndTurn
<1>18. CASE CompletionsDone
  BY <1>0, <1>18, Zenon DEF LockInv, Locked, CompletionsDone, queue, reset
<1>19. CASE Suppress
  BY <1>0, <1>19, Zenon DEF LockInv, Locked, Suppress, queue, reset
<1>20. CASE TakingDone
  BY <1>0, <1>20, Zenon DEF LockInv, Locked, TakingDone, queue, reset
<1>21. CASE Unsuppress
  BY <1>0, <1>21, Zenon DEF LockInv, Locked, Unsuppress, queue, reset
<1>22. CASE Recheck
  BY <1>0, <1>22, Zenon DEF LockInv, Locked, Recheck, queue, reset
<1>23. CASE Notify
  BY <1>0, <1>23, Zenon DEF LockInv, Locked, Notify, queue, reset, EndTurn
<1>24. CASE DriverSetup
  BY <1>0, <1>24, Zenon DEF LockInv, Locked, DriverSetup, queue, reset
<1>25. CASE ResetWrite
  BY <1>0, <1>25, Zenon DEF LockInv, Locked, ResetWrite, queue, reset
<1>26. CASE ResetReturns
  BY <1>0, <1>26, Zenon DEF LockInv, Locked, ResetReturns, queue, reset
<1>4. CASE \/ TakeInline \/ TakeIssue
           \/ (\E t \in Tokens : release(t)) \/ (\E t \in Tokens : complete(t))
           \/ KernelReadKick \/ (\E t \in Tokens : KernelComplete(t))
           \/ DriverKick \/ DriverInterrupt \/ DriverReap \/ DriverRearm \/ DriverRecheck
           \/ (\E h \in Heads : DriverAdd(h)) \/ Drop \/ UNCHANGED vars
  <2>1. UNCHANGED <<pc, enabled, reset_pc>>
    BY <1>4, Zenon DEF TakeInline, TakeIssue, release, complete, KernelReadKick, KernelComplete,
       DriverKick, DriverInterrupt, DriverReap, DriverRearm, DriverRecheck, DriverAdd, Drop,
       vars, queue, reset
  <2> QED BY <1>1, <2>1, Zenon
<1> QED
  BY NextCases, <1>4, <1>10, <1>11, <1>12, <1>13a, <1>13, <1>14, <1>15, <1>16, <1>17, <1>18,
     <1>19, <1>20, <1>21, <1>22, <1>23, <1>24, <1>25, <1>26, Zenon

LEMMA InFlightStep ==
    ASSUME IInv, [Next]_vars
    PROVE  InFlightExact' /\ ReleasingInv'
<1> USE DEF IInv
<1>0. InFlightExact /\ ReleasingInv /\ Len(free) \in 0 .. Depth /\ Depth \in Nat
  BY FreeListBound, BlkQueueAssumption DEF TypeOK, SlabConserved
<1>1. CASE UNCHANGED <<pc, in_flight, free>>
  BY <1>0, <1>1, Zenon DEF InFlightExact, ReleasingInv
<1>10. CASE EnterEngine
  BY <1>0, <1>10, Zenon DEF InFlightExact, ReleasingInv, Locked, EnterEngine, slab
<1>11. CASE Collect
  BY <1>0, <1>11, Zenon DEF InFlightExact, ReleasingInv, Locked, Collect, slab
<1>12. CASE SyncReadKick
  BY <1>0, <1>12, Zenon DEF InFlightExact, ReleasingInv, Locked, SyncReadKick, slab
<1>13a. CASE PollEmpty
  BY <1>0, <1>13a, Zenon DEF InFlightExact, ReleasingInv, Locked, PollEmpty, slab
<1>13. CASE PollRing
  BY <1>0, <1>13, Zenon DEF InFlightExact, ReleasingInv, Locked, PollRing, slab
<1>14. CASE PollDeadline
  BY <1>0, <1>14, Zenon DEF InFlightExact, ReleasingInv, Locked, PollDeadline, slab
<1>15. CASE EngineFails
  BY <1>0, <1>15, Zenon DEF InFlightExact, ReleasingInv, Locked, EngineFails, slab
<1>16. CASE StartPass
  BY <1>0, <1>16 DEF InFlightExact, ReleasingInv, Locked, StartPass, slab
<1>17. CASE ReleaseDone
  BY <1>0, <1>17, Zenon DEF InFlightExact, ReleasingInv, Locked, ReleaseDone, slab, EndTurn,
     publish_in_flight
<1>18. CASE CompletionsDone
  BY <1>0, <1>18, Zenon DEF InFlightExact, ReleasingInv, Locked, CompletionsDone, slab
<1>19. CASE Suppress
  BY <1>0, <1>19, Zenon DEF InFlightExact, ReleasingInv, Locked, Suppress, slab
<1>20. CASE TakingDone
  BY <1>0, <1>20, Zenon DEF InFlightExact, ReleasingInv, Locked, TakingDone, slab
<1>21. CASE Unsuppress
  BY <1>0, <1>21, Zenon DEF InFlightExact, ReleasingInv, Locked, Unsuppress, slab
<1>22. CASE Recheck
  BY <1>0, <1>22, Zenon DEF InFlightExact, ReleasingInv, Locked, Recheck, slab
<1>23. CASE Notify
  BY <1>0, <1>23, Zenon DEF InFlightExact, ReleasingInv, Locked, Notify, slab, EndTurn, publish_in_flight
<1>3. CASE \/ TakeInline \/ TakeIssue \/ (\E t \in Tokens : complete(t))
  <2>1. pc' = pc /\ pc \in Locked \ {"releasing"}
    BY <1>3, Zenon DEF TakeInline, TakeIssue, complete, Locked
  <2> QED BY <2>1, Zenon DEF InFlightExact, ReleasingInv
<1>4. ASSUME NEW t \in Tokens, release(t)
      PROVE  InFlightExact' /\ ReleasingInv'
  <2>1. Len(free') \in {Len(free), Len(free) + 1}
    BY <1>4, AppendProperties DEF release, TypeOK
  <2>2. pc = "releasing" /\ pc' = pc /\ in_flight' = in_flight /\ in_flight \in 0 .. Depth
    BY <1>4, Zenon DEF release, TypeOK
  <2> QED BY <1>0, <2>1, <2>2 DEF InFlightExact, ReleasingInv, Locked
<1>5. CASE \/ KernelReadKick \/ (\E t \in Tokens : KernelComplete(t))
           \/ DriverKick \/ DriverInterrupt \/ DriverReap \/ DriverRearm \/ DriverRecheck
           \/ DriverSetup \/ (\E h \in Heads : DriverAdd(h))
           \/ ResetWrite \/ ResetReturns \/ Drop \/ UNCHANGED vars
  <2>1. UNCHANGED <<pc, in_flight, free>>
    BY <1>5, Zenon DEF KernelReadKick, KernelComplete, DriverKick, DriverInterrupt, DriverReap,
       DriverRearm, DriverRecheck, DriverSetup, DriverAdd, ResetWrite, ResetReturns, Drop,
       vars, slab
  <2> QED BY <1>1, <2>1, Zenon
<1> QED
  BY NextCases, <1>3, <1>4, <1>5, <1>10, <1>11, <1>12, <1>13a, <1>13, <1>14, <1>15, <1>16,
     <1>17, <1>18, <1>19, <1>20, <1>21, <1>22, <1>23, Zenon

\* If nothing is published as outstanding and the queue is disabled, nothing is.
LEMMA NothingOutstanding ==
    ASSUME IInv, ~enabled, in_flight = 0
    PROVE  DOMAIN slots = {}
<1> USE DEF IInv
<1>1. pc \notin Locked \/ pc = "releasing"
  BY Zenon DEF LockInv
<1>2. Len(free) \in 0 .. Depth /\ Depth \in Nat
  <2>1. Depth \in Nat
    BY BlkQueueAssumption, IdxModAssumption
  <2>2. free \in Seq(Tokens) /\ IsInjective(free)
    BY Zenon DEF TypeOK, SlabConserved
  <2> QED BY <2>1, <2>2, FreeListBound, Zenon
<1>3. Len(free) = Depth
  BY <1>1, <1>2 DEF InFlightExact, ReleasingInv
<1>4. Range(free) = Tokens
  BY <1>3, FreeListBound, Zenon DEF TypeOK, SlabConserved
<1> QED BY <1>4, Zenon DEF SlabConserved, TypeOK

LEMMA QuietStep ==
    ASSUME IInv, [Next]_vars
    PROVE  QuietAfterReset'
<1> USE DEF IInv
<1>0. QuietAfterReset /\ TypeOK
  BY Zenon
<1>1. CASE UNCHANGED <<slots, generation, reset>>
  BY <1>0, <1>1, Zenon DEF QuietAfterReset, reset
<1>2. CASE TakeIssue
  BY <1>0, <1>2, Zenon DEF QuietAfterReset, TakeIssue, WithSlot, reset
<1>3. ASSUME NEW t \in Tokens, release(t)
      PROVE  QuietAfterReset'
  BY <1>0, <1>3, Zenon DEF QuietAfterReset, release, WithoutSlots, Restrict, queue, reset
<1>4. ASSUME NEW t \in Tokens, complete(t)
      PROVE  QuietAfterReset'
  <2>1. \A x \in DOMAIN slots' : x \in DOMAIN slots /\ slots'[x].generation = slots[x].generation
    <3>1. t \in DOMAIN slots /\ slots[t] \in Slot
      BY <1>0, <1>4, Zenon DEF complete, TypeOK
    <3>2. CASE StaleCompletion(t) \/ FinishCompletion(t)
      BY <3>2, Zenon DEF StaleCompletion, FinishCompletion, WithoutSlots, Restrict
    <3>3. CASE resubmit(t)
      BY <3>1, <3>3, Zenon DEF resubmit, Slot
    <3> QED BY <1>4, <3>2, <3>3, Zenon DEF complete
  <2>2. UNCHANGED <<generation, reset>>
    BY <1>4, Zenon DEF complete, queue
  <2> QED BY <1>0, <2>1, <2>2, Zenon DEF QuietAfterReset, reset
<1>5. CASE ResetWrite
  BY <1>5, Zenon DEF QuietAfterReset, ResetWrite
<1>6. CASE ResetReturns
  <2>1. ~enabled /\ slots' = slots
    BY <1>6, Zenon DEF ResetReturns, LockInv, slab
  <2>2. CASE in_flight = 0
    BY <2>1, <2>2, NothingOutstanding, Zenon DEF QuietAfterReset
  <2>3. CASE in_flight > 0
    <3>1. gave_up'
      BY <1>6, <2>3, Zenon DEF ResetReturns
    <3> QED BY <3>1, Zenon DEF QuietAfterReset
  <2>4. in_flight = 0 \/ in_flight > 0
    BY BlkQueueAssumption DEF TypeOK
  <2> QED BY <2>2, <2>3, <2>4, Zenon
<1>7. CASE \/ EnterEngine \/ Collect \/ SyncReadKick \/ PollEmpty \/ PollRing \/ PollDeadline
           \/ EngineFails \/ StartPass \/ ReleaseDone \/ CompletionsDone \/ Suppress
           \/ TakeInline \/ TakingDone \/ Unsuppress \/ Recheck \/ Notify
           \/ KernelReadKick \/ (\E t \in Tokens : KernelComplete(t))
           \/ DriverKick \/ DriverInterrupt \/ DriverReap \/ DriverRearm \/ DriverRecheck
           \/ DriverSetup \/ (\E h \in Heads : DriverAdd(h)) \/ Drop \/ UNCHANGED vars
  <2>1. UNCHANGED <<slots, generation, reset>>
    BY <1>7, Zenon DEF EnterEngine, Collect, SyncReadKick, PollEmpty, PollRing, PollDeadline,
       EngineFails,
       StartPass, ReleaseDone, CompletionsDone, Suppress, TakeInline, TakingDone, Unsuppress,
       Recheck, Notify, KernelReadKick, KernelComplete, DriverKick, DriverInterrupt,
       DriverReap, DriverRearm, DriverRecheck, DriverSetup, DriverAdd, Drop, vars, queue, slab
  <2> QED BY <1>1, <2>1, Zenon
<1> QED BY NextCases, <1>2, <1>3, <1>4, <1>5, <1>6, <1>7, Zenon

-----------------------------------------------------------------------------
(* The theorems *)

\* The inductive invariant holds in every reachable state.
THEOREM Invariance == Spec => []IInv
<1>1. Init => IInv
  BY InitIInv, Zenon
<1>2. IInv /\ [Next]_vars => IInv'
  BY TypeStep, SlabStep, LockStep, InFlightStep, QuietStep, Zenon DEF IInv
<1> QED BY <1>1, <1>2, PTL DEF Spec

\* Every variable of the queue keeps its type; in particular a ring index never
\* leaves its range and in_flight never exceeds the slab.
THEOREM TypeCorrect == Spec => []TypeOK
<1>1. IInv => TypeOK
  BY Zenon DEF IInv
<1> QED BY <1>1, Invariance, PTL

\* The worker never loses a slot and never frees one twice, through resets,
\* stale completions, resubmissions and failed submissions.
THEOREM SlabIsConserved == Spec => []SlabConserved
<1>1. IInv => SlabConserved
  BY Zenon DEF IInv
<1> QED BY <1>1, Invariance, PTL

\* The count a resetting vCPU reads is exact whenever the queue's lock is free.
THEOREM InFlightIsExact == Spec => []InFlightExact
<1>1. IInv => InFlightExact
  BY Zenon DEF IInv
<1> QED BY <1>1, Invariance, PTL

\* When the write that resets the device returns without giving up, no request
\* of the driver that was reset is left with the worker or the kernel.
THEOREM ResetIsQuiet == Spec => []QuietAfterReset
<1>1. IInv => QuietAfterReset
  BY Zenon DEF IInv
<1> QED BY <1>1, Invariance, PTL

-----------------------------------------------------------------------------
(* Waking up *)

\* The engine always has a free entry, nothing collected is left over once the
\* completions are done, and a waiting worker has a kick read armed.
RoomInv ==
    /\ Engine = "uring" => \E t \in Tokens : io[t] = "none"
    /\ pc \in Locked \ {"releasing", "completing"} => \A t \in Tokens : io[t] # "out"
    /\ pc \in {"poll", "peek", "blocked"} /\ Engine = "uring" => kick_read \in {"kernel", "cq"}

\* A queue that is not enabled is as a new driver finds it.
FreshInv ==
    ~enabled => /\ drv_pc = "idle" /\ ~no_interrupt /\ ~no_notify
                /\ last = 0 /\ avail_idx = 0 /\ notified_at = 0 /\ avail_event = 0
                /\ used_idx = 0 /\ last_used = 0 /\ used_event = 0

Collected == {t \in Tokens : io[t] = "out"}

\* The driver has reaped up to the start of this pass's batch, or beyond.
Caught == wrapping_sub(last_used, batch_start) <= wrapping_sub(used_idx, batch_start)

\* What the decision to interrupt rests on.
IrqInv ==
    /\ no_interrupt => drv_pc = "reaping"
    /\ EventIdx /\ drv_pc # "reaping" => used_event = last_used
    /\ pc = "completing" => wrapping_sub(used_idx, batch_start) + Cardinality(Collected) <= Depth
    /\ pc \in Locked \ {"releasing"} /\ drv_pc = "idle" /\ ~irq => Caught
    /\ NoLostInterrupt

\* Something will make the worker drain the ring.
Wakes ==
    \/ kick \/ kick_read = "cq"
    \/ pc = "woken" /\ kicked
    \/ want_drain /\ (pc \in Locked \ {"releasing", "notify"} \/ DOMAIN slots # {})

\* The driver will kick when it announces what the worker has not seen.
Listening ==
    IF EventIdx
    THEN avail_event = last /\ wrapping_sub(last, notified_at) <= wrapping_sub(avail_idx, notified_at)
    ELSE ~no_notify /\ (has_avail => notified_at # avail_idx)

KickInv ==
    /\ stop => ~enabled
    /\ no_notify => notify_suppressed /\ ~EventIdx
    /\ pc \in {"suppress", "taking", "unsuppress", "recheck"} => want_drain
    /\ pc = "recheck" => IF EventIdx THEN avail_event = last ELSE ~no_notify
    /\ enabled /\ ~Wakes => Listening

WakeInv == RoomInv /\ FreshInv /\ IrqInv /\ KickInv

\* Distances along the ring.
LEMMA Distance ==
    ASSUME NEW a \in Index, NEW b \in Index
    PROVE  /\ wrapping_sub(a, b) \in Index
           /\ wrapping_sub(a, b) = 0 <=> a = b
           /\ wrapping_sub(a, b) < IdxMod - 1 =>
                wrapping_sub(wrapping_add(a, 1), b) = wrapping_sub(a, b) + 1
BY IdxModAssumption DEF Index, wrapping_sub, wrapping_add

\* An index the batch has gone past is one the other side is told about.
LEMMA NeedPassed ==
    ASSUME NEW e \in Index, NEW new \in Index, NEW old \in Index,
           wrapping_sub(e, old) <= wrapping_sub(new, old), e # new
    PROVE  vring_need_event(e, new, old)
BY IdxModAssumption DEF Index, wrapping_sub, vring_need_event

\* The types the proofs below use, one fact each.
LEMMA Types ==
    ASSUME TypeOK
    PROVE  /\ avail_idx \in Index /\ used_idx \in Index /\ used_event \in Index
           /\ avail_event \in Index /\ last \in Index /\ last_used \in Index
           /\ notified_at \in Index /\ batch_start \in Index
           /\ no_interrupt \in BOOLEAN /\ no_notify \in BOOLEAN /\ kick \in BOOLEAN
           /\ irq \in BOOLEAN /\ enabled \in BOOLEAN /\ want_drain \in BOOLEAN
           /\ io \in [Tokens -> JobState] /\ pc \in WorkerPc
           /\ DOMAIN slots \subseteq Tokens
BY Zenon DEF TypeOK

LEMMA TokensFinite == IsFiniteSet(Tokens) /\ Cardinality(Tokens) = Depth /\ Depth \in Nat /\ Depth > 1
BY FS_Interval, BlkQueueAssumption, IdxModAssumption DEF Tokens

\* While an entry is free the submission queue is not full.
LEMMA NotFull ==
    ASSUME RoomInv
    PROVE  ~sq_full
<1> SUFFICES ASSUME sq_full PROVE FALSE
  BY Zenon
<1> DEFINE S == {t \in Tokens : io[t] = "sq"}
<1>1. PICK t \in Tokens : io[t] = "none"
  BY Zenon DEF RoomInv, sq_full
<1>2. Cardinality(S) = Depth
  BY Zenon DEF sq_full, unsubmitted
<1>3. S \subseteq Tokens
  BY Zenon
<1>4. S = Tokens
  BY <1>2, <1>3, TokensFinite, FS_Subset, Zenon
<1> QED BY <1>1, <1>4, Zenon

\* Where room() leaves an entry beside the one held back, two tokens are free.
LEMMA RoomForTwo ==
    ASSUME Engine = "uring", room > 0, \A t \in Tokens : io[t] # "out",
           io \in [Tokens -> JobState], NEW x \in Tokens
    PROVE  \E t \in Tokens \ {x} : io[t] = "none"
<1> SUFFICES ASSUME \A t \in Tokens \ {x} : io[t] # "none" PROVE FALSE
  BY Zenon
<1> DEFINE S == {t \in Tokens : io[t] \in {"sq", "kernel", "cq"}}
<1>1. Tokens \ {x} \subseteq S
  BY Zenon DEF JobState
<1>2. IsFiniteSet(S)
  BY TokensFinite, FS_Subset, Zenon
<1>3. Cardinality(Tokens \ {x}) = Depth - 1
  BY TokensFinite, FS_RemoveElement, Zenon
<1>4. Cardinality(Tokens \ {x}) <= Cardinality(S) /\ Cardinality(S) \in Nat
  BY <1>1, <1>2, FS_Subset, FS_CardinalityType, Zenon
<1>5. Cardinality(S) < Depth /\ Depth - Cardinality(S) - 1 > 0
  BY <1>4, TokensFinite DEF room, engine_in_flight
<1> QED BY <1>3, <1>4, <1>5, TokensFinite

LEMMA RoomStep ==
    ASSUME IInv, RoomInv, [Next]_vars
    PROVE  RoomInv'
<1>0. TypeOK /\ io \in [Tokens -> JobState] /\ ~sq_full
  BY NotFull, Types, Zenon DEF IInv
<1>1. CASE UNCHANGED <<io, pc, kick_read>>
  BY <1>1, Zenon DEF RoomInv
<1>2. CASE EnterEngine
  <2>1. /\ pc' \in {"poll", "blocked"}
        /\ Engine = "uring" => kick_read' \in {"kernel", "cq"}
        /\ \A t \in Tokens : io[t] = "none" => io'[t] = "none"
    BY <1>0, <1>2, Zenon DEF EnterEngine, TypeOK
  <2> QED BY <2>1, Zenon DEF RoomInv, Locked
<1>3. CASE Collect
  BY <1>0, <1>3, Zenon DEF RoomInv, Collect, Locked
<1>4. CASE SyncReadKick \/ PollEmpty \/ PollRing \/ PollDeadline \/ EngineFails
  <2>1. UNCHANGED <<io, kick_read>> /\ pc' \notin Locked /\ (pc' \in {"peek", "blocked"} => pc \in {"poll", "peek"}) /\ pc' # "poll"
    BY <1>4, Zenon DEF SyncReadKick, PollEmpty, PollRing, PollDeadline, EngineFails, Locked
  <2> QED BY <2>1, Zenon DEF RoomInv
<1>5. CASE StartPass \/ ReleaseDone
  <2>1. UNCHANGED <<io, kick_read>> /\ pc' \in {"exited", "releasing", "completing", "run"}
    BY <1>5, Zenon DEF StartPass, ReleaseDone, EndTurn
  <2> QED BY <2>1, Zenon DEF RoomInv, Locked
<1>6. CASE CompletionsDone \/ Suppress \/ TakingDone \/ Unsuppress \/ Recheck \/ Notify
  <2>1. /\ UNCHANGED <<io, kick_read>> /\ pc' \notin {"poll", "peek", "blocked"}
        /\ \A t \in Tokens : io[t] # "out"
    BY <1>6, Zenon DEF CompletionsDone, Suppress, TakingDone, Unsuppress, Recheck, Notify, EndTurn,
       RoomInv, Locked
  <2> QED BY <2>1, Zenon DEF RoomInv
<1>7. CASE TakeInline
  BY <1>1, <1>7, Zenon DEF TakeInline
<1>8. CASE TakeIssue
  <2> DEFINE x == free[Len(free)]
  <2>1. free # <<>> /\ free \in Seq(Tokens) /\ IsInjective(free) /\ room > 0
    BY <1>8, Zenon DEF TakeIssue, can_accept, TypeOK, SlabConserved, IInv
  <2>2. x \in Tokens
    BY <2>1, PopFree, Zenon
  <2> HIDE DEF x
  <2>3. /\ pc = "taking" /\ pc' = pc /\ kick_read' = kick_read
        /\ io' = [io EXCEPT ![x] = submitted_state]
    BY <1>8, Zenon DEF TakeIssue, x
  <2>4. \A t \in Tokens : io[t] # "out"
    BY <2>3, Zenon DEF RoomInv, Locked
  <2>5. submitted_state # "out"
    BY Zenon DEF submitted_state
  <2>6. \A t \in Tokens : io'[t] # "out"
    BY <1>0, <2>2, <2>3, <2>4, <2>5, Zenon
  <2>7. Engine = "uring" => \E t \in Tokens : io'[t] = "none"
    <3>1. SUFFICES ASSUME Engine = "uring" PROVE \E t \in Tokens : io'[t] = "none"
      BY Zenon
    <3>2. PICK t \in Tokens \ {x} : io[t] = "none"
      BY <1>0, <2>1, <2>2, <2>4, <3>1, RoomForTwo, Zenon
    <3> QED BY <1>0, <2>2, <2>3, <3>2, Zenon
  <2> QED BY <2>3, <2>6, <2>7, Zenon DEF RoomInv
<1>9. ASSUME NEW t \in Tokens, release(t) \/ complete(t) \/ KernelComplete(t)
      PROVE  RoomInv'
  <2>1. /\ \A x \in Tokens : io[x] = "none" => io'[x] = "none"
        /\ pc' = pc /\ kick_read' = kick_read
        /\ io[t] # "out" \/ pc \in {"releasing", "completing"}
        /\ \A x \in Tokens : io'[x] = "out" => io[x] = "out"
    <3>1. CASE release(t)
      BY <1>0, <3>1, Zenon DEF release
    <3>2. CASE KernelComplete(t)
      BY <1>0, <3>2, Zenon DEF KernelComplete
    <3>3. CASE complete(t)
      BY <1>0, <3>3, Zenon DEF complete, StaleCompletion, FinishCompletion, resubmit, submitted_state
    <3> QED BY <1>9, <3>1, <3>2, <3>3, Zenon
  <2> QED BY <2>1, Zenon DEF RoomInv
<1>10. CASE KernelReadKick
  BY <1>10, Zenon DEF RoomInv, KernelReadKick
<1>11. CASE \/ DriverKick \/ DriverInterrupt \/ DriverReap \/ DriverRearm
            \/ DriverRecheck \/ DriverSetup \/ (\E h \in Heads : DriverAdd(h))
            \/ ResetWrite \/ ResetReturns \/ Drop \/ UNCHANGED vars
  <2>1. UNCHANGED <<pc, kick_read, io>>
    BY <1>11, Zenon DEF DriverKick, DriverInterrupt, DriverReap, DriverRearm,
                DriverRecheck, DriverSetup, DriverAdd, ResetWrite, ResetReturns, Drop, vars
  <2> QED BY <1>1, <2>1, Zenon
<1> QED BY NextCases, <1>2, <1>3, <1>4, <1>5, <1>6, <1>7, <1>8, <1>9, <1>10, <1>11, Zenon

LEMMA FreshStep ==
    ASSUME IInv, FreshInv, [Next]_vars
    PROVE  FreshInv'
<1> SUFFICES ASSUME ~enabled' PROVE FreshInv'
  BY Zenon DEF FreshInv
<1>1. CASE ResetWrite
  BY <1>1, Zenon DEF ResetWrite, FreshInv
<1>2. ASSUME ~enabled,
             UNCHANGED <<drv_pc, no_interrupt, no_notify, last, avail_idx, notified_at, avail_event,
                         used_idx, last_used, used_event>>
      PROVE  FreshInv'
  BY <1>2, Zenon DEF FreshInv
<1>3. pc \in Locked \ {"releasing"} => enabled
  BY Zenon DEF IInv, LockInv
<1>4. CASE \/ EnterEngine \/ Collect \/ SyncReadKick \/ PollEmpty \/ PollRing \/ PollDeadline
           \/ EngineFails \/ StartPass \/ ReleaseDone
           \/ KernelReadKick \/ ResetReturns \/ Drop \/ UNCHANGED vars
  <2>1. /\ enabled' = enabled
        /\ UNCHANGED <<drv_pc, no_interrupt, no_notify, last, avail_idx, notified_at, avail_event,
                       used_idx, last_used, used_event>>
    BY <1>4, Zenon DEF EnterEngine, Collect, SyncReadKick, PollEmpty, PollRing, PollDeadline,
       EngineFails, StartPass, ReleaseDone, KernelReadKick, ResetReturns, Drop, vars, ring, driver, queue
  <2> QED BY <1>2, <2>1, Zenon
<1>5. ASSUME NEW t \in Tokens, release(t) \/ KernelComplete(t)
      PROVE  FreshInv'
  <2>1. /\ enabled' = enabled
        /\ UNCHANGED <<drv_pc, no_interrupt, no_notify, last, avail_idx, notified_at, avail_event,
                       used_idx, last_used, used_event>>
    BY <1>5, Zenon DEF release, KernelComplete, ring, driver, queue
  <2> QED BY <1>2, <2>1, Zenon
<1>6. CASE \/ CompletionsDone \/ Suppress \/ TakeInline \/ TakeIssue \/ TakingDone \/ Unsuppress
           \/ Recheck \/ Notify \/ (\E t \in Tokens : complete(t))
  <2>1. pc \in Locked \ {"releasing"} /\ enabled' = enabled
    BY <1>6, Zenon DEF CompletionsDone, Suppress, TakeInline, TakeIssue, TakingDone, Unsuppress,
       Recheck, Notify, complete, queue, Locked
  <2> QED BY <1>3, <2>1, Zenon
<1>7. CASE DriverKick \/ DriverSetup \/ (\E h \in Heads : DriverAdd(h))
  <2>1. (enabled' = enabled /\ enabled) \/ enabled' = TRUE
    BY <1>7, Zenon DEF DriverKick, DriverSetup, DriverAdd, queue
  <2> QED BY <2>1, Zenon
<1>8. CASE DriverReap \/ DriverRearm \/ DriverRecheck
  BY <1>8, Zenon DEF DriverReap, DriverRearm, DriverRecheck, queue, FreshInv
<1>9. CASE DriverInterrupt
  BY <1>2, <1>9, Zenon DEF DriverInterrupt, queue
<1> QED BY NextCases, <1>1, <1>4, <1>5, <1>6, <1>7, <1>8, <1>9, Zenon

\* A completion handled is one fewer collected.
LEMMA FewerCollected ==
    ASSUME NEW t \in Tokens, complete(t), io \in [Tokens -> JobState]
    PROVE  /\ Cardinality(Collected)' = Cardinality(Collected) - 1
           /\ Cardinality(Collected) \in Nat /\ Cardinality(Collected) > 0
<1>1. io[t] = "out" /\ \E s \in JobState \ {"out"} : io' = [io EXCEPT ![t] = s]
  BY Zenon DEF complete, StaleCompletion, FinishCompletion, resubmit, submitted_state, JobState
<1>2. Collected' = Collected \ {t} /\ t \in Collected
  BY <1>1, Zenon DEF Collected
<1>3. IsFiniteSet(Collected)
  BY TokensFinite, FS_Subset, Zenon DEF Collected
<1>4. Cardinality(Collected \ {t}) = Cardinality(Collected) - 1
  BY <1>2, <1>3, FS_RemoveElement, Zenon
<1>5. Cardinality(Collected) \in Nat /\ Cardinality(Collected \ {t}) \in Nat
  BY <1>3, FS_CardinalityType, FS_RemoveElement, Zenon
<1> QED BY <1>2, <1>4, <1>5

\* A used entry pushed during a pass.
LEMMA PushKeepsUp ==
    ASSUME NEW u \in Index, NEW l \in Index, NEW b \in Index,
           wrapping_sub(u, b) < IdxMod - 1, wrapping_sub(l, b) <= wrapping_sub(u, b)
    PROVE  wrapping_sub(l, b) <= wrapping_sub(wrapping_add(u, 1), b)
BY Distance DEF Index

IrqView == <<no_interrupt, drv_pc, used_event, last_used, used_idx, irq, enabled>>

LEMMA IrqWorker ==
    ASSUME IInv, IrqInv, RoomInv,
           \/ EnterEngine \/ Collect \/ SyncReadKick \/ PollEmpty \/ PollRing \/ PollDeadline
           \/ EngineFails \/ StartPass \/ ReleaseDone \/ CompletionsDone
           \/ Suppress \/ TakeInline \/ TakeIssue \/ TakingDone \/ Unsuppress
           \/ Recheck \/ Notify
           \/ (\E t \in Tokens : release(t))
           \/ (\E t \in Tokens : complete(t))
    PROVE  IrqInv'
<1>0. TypeOK /\ LockInv
  BY Zenon DEF IInv
<1>t. /\ used_idx \in Index /\ last_used \in Index /\ batch_start \in Index
      /\ io \in [Tokens -> JobState]
  BY <1>0, Types, Zenon
<1>1. ASSUME UNCHANGED IrqView, pc \notin Locked, pc' \notin Locked
      PROVE  IrqInv'
  BY <1>1, Zenon DEF IrqInv, IrqView, Locked, NoLostInterrupt
<1>2. CASE \/ EnterEngine \/ Collect \/ SyncReadKick \/ PollEmpty \/ PollRing \/ PollDeadline
           \/ EngineFails
  <2>1. UNCHANGED IrqView /\ pc \notin Locked /\ pc' \notin Locked
    BY <1>2, ZenonT(40) DEF EnterEngine, Collect, SyncReadKick, PollEmpty, PollRing, PollDeadline,
       EngineFails, ring, driver, queue, IrqView, Locked
  <2> QED BY <1>1, <2>1, Zenon
<1>3. CASE StartPass
  <2>1. UNCHANGED IrqView /\ pc \notin Locked /\ UNCHANGED io
    BY <1>3, Zenon DEF StartPass, ring, driver, queue, IrqView, Locked
  <2>2. CASE pc' \notin Locked
    BY <1>1, <2>1, <2>2, Zenon
  <2>3. CASE pc' = "releasing"
    BY <1>0, <1>3, <2>1, <2>3, Zenon DEF StartPass, IrqInv, NoLostInterrupt, IrqView, Caught
  <2>4. CASE pc' = "completing"
    <3>1. batch_start' = used_idx
      BY <1>3, <2>4, Zenon DEF StartPass
    <3>2. (wrapping_sub(used_idx, batch_start) + Cardinality(Collected) <= Depth)'
      <4>1. wrapping_sub(used_idx, used_idx) = 0
        BY <1>t, Distance, Zenon
      <4>2. Cardinality(Collected) <= Depth /\ Cardinality(Collected) \in Nat
        BY TokensFinite, FS_Subset, FS_CardinalityType, Zenon DEF Collected
      <4>3. Collected' = Collected
        BY <2>1, Zenon DEF Collected
      <4> QED BY <2>1, <3>1, <4>1, <4>2, <4>3 DEF IrqView
    <3>3. drv_pc = "idle" /\ ~irq => used_idx = last_used \/ ~enabled
      BY <2>1, Zenon DEF IrqInv, NoLostInterrupt
    <3>4. enabled
      BY <1>3, <2>4, Zenon DEF StartPass
    <3>5. drv_pc = "idle" /\ ~irq => Caught'
      BY <1>t, <2>1, <3>1, <3>3, <3>4, Distance DEF Caught, IrqView, Index
    <3>6. NoLostInterrupt'
      BY <2>1, Zenon DEF IrqInv, NoLostInterrupt, IrqView
    <3> QED BY <2>1, <2>4, <3>2, <3>5, <3>6, Zenon DEF IrqInv, IrqView
  <2> QED BY <1>3, <2>2, <2>3, <2>4, Zenon DEF StartPass, Locked
<1>4. CASE ReleaseDone \/ \E t \in Tokens : release(t)
  <2>1. UNCHANGED IrqView /\ pc = "releasing" /\ pc' \in {"run", "releasing"}
    BY <1>4, Zenon DEF ReleaseDone, release, EndTurn, ring, driver, queue, IrqView
  <2>2. ~enabled
    BY <1>0, <2>1, Zenon DEF LockInv
  <2> QED BY <2>1, <2>2, Zenon DEF IrqInv, NoLostInterrupt, IrqView, Locked
<1>5. CASE CompletionsDone \/ Suppress \/ TakeIssue \/ TakingDone \/ Unsuppress \/ Recheck
  <2>1. /\ UNCHANGED IrqView /\ UNCHANGED <<used, batch_start>>
        /\ pc \in Locked \ {"releasing"} /\ pc' \in Locked \ {"releasing", "completing"}
    BY <1>5, Zenon DEF CompletionsDone, Suppress, TakeIssue, TakingDone, Unsuppress, Recheck,
       suppress_notify, ring, driver, queue, pass, IrqView, Locked
  <2>2. Caught' <=> Caught
    BY <2>1, Zenon DEF Caught, IrqView
  <2> QED BY <2>1, <2>2, Zenon DEF IrqInv, NoLostInterrupt, IrqView
<1>6. ASSUME used_idx' = wrapping_add(used_idx, 1), used' = TRUE,
             UNCHANGED <<no_interrupt, drv_pc, used_event, last_used, irq, enabled, batch_start>>,
             pc \in Locked \ {"releasing"}, pc' = pc,
             wrapping_sub(used_idx, batch_start) < IdxMod - 1,
             pc = "completing" => (wrapping_sub(used_idx, batch_start) + Cardinality(Collected) <= Depth)'
      PROVE  IrqInv'
  <2>1. Caught => Caught'
    BY <1>t, <1>6, PushKeepsUp, Zenon DEF Caught
  <2>2. NoLostInterrupt'
    BY <1>6, Zenon DEF NoLostInterrupt
  <2> QED BY <1>6, <2>1, <2>2, Zenon DEF IrqInv
<1>7. CASE TakeInline
  <2>1. wrapping_sub(used_idx, batch_start) < IdxMod - 1
    BY <1>t, <1>7, Distance, BlkQueueAssumption, IdxModAssumption DEF TakeInline, Index
  <2>2. /\ used_idx' = wrapping_add(used_idx, 1) /\ used' = TRUE
        /\ UNCHANGED <<no_interrupt, drv_pc, used_event, last_used, irq, enabled, batch_start>>
        /\ pc \in Locked \ {"releasing"} /\ pc' = pc /\ pc # "completing"
    BY <1>7, Zenon DEF TakeInline, push_used, driver, Locked
  <2> QED BY <1>6, <2>1, <2>2, Zenon
<1>8. ASSUME NEW t \in Tokens, complete(t)
      PROVE  IrqInv'
  <2>1. /\ pc = "completing" /\ pc' = pc
        /\ UNCHANGED <<no_interrupt, drv_pc, used_event, last_used, irq, enabled, batch_start>>
    BY <1>8, Zenon DEF complete, driver, queue
  <2>2. /\ Cardinality(Collected)' = Cardinality(Collected) - 1
        /\ Cardinality(Collected) \in Nat /\ Cardinality(Collected) > 0
    BY <1>t, <1>8, FewerCollected, Zenon
  <2>3. PICK n : n = Cardinality(Collected)
    BY Zenon
  <2>4. n \in Nat /\ n > 0 /\ Cardinality(Collected)' = n - 1
    BY <2>2, <2>3, Zenon
  <2>5. wrapping_sub(used_idx, batch_start) + n <= Depth /\ wrapping_sub(used_idx, batch_start) \in Nat
    BY <1>t, <2>1, <2>3, Distance DEF IrqInv, Index
  <2>6. wrapping_sub(used_idx, batch_start) < IdxMod - 1
    BY <2>4, <2>5, BlkQueueAssumption, IdxModAssumption
  <2>7. CASE used_idx' = wrapping_add(used_idx, 1) /\ used' = TRUE
    <3>1. (wrapping_sub(used_idx, batch_start) + Cardinality(Collected) <= Depth)'
      BY <1>t, <2>1, <2>4, <2>5, <2>6, <2>7, Distance, BlkQueueAssumption, IdxModAssumption
    <3> QED BY <1>6, <2>1, <2>6, <2>7, <3>1, Zenon DEF Locked
  <2>8. CASE UNCHANGED <<used_idx, used>>
    <3>1. (wrapping_sub(used_idx, batch_start) + Cardinality(Collected) <= Depth)'
      BY <2>1, <2>4, <2>5, <2>8, BlkQueueAssumption, IdxModAssumption
    <3>2. Caught' <=> Caught
      BY <2>1, <2>8, Zenon DEF Caught
    <3> QED BY <2>1, <2>8, <3>1, <3>2, Zenon DEF IrqInv, NoLostInterrupt
  <2> QED BY <1>8, <2>7, <2>8, ZenonT(40) DEF complete, StaleCompletion, FinishCompletion, resubmit, push_used, no_used
<1>9. CASE Notify
  <2>1. /\ UNCHANGED <<no_interrupt, drv_pc, used_event, last_used, used_idx, enabled>>
        /\ irq' = (irq \/ (used /\ used_needs_interrupt))
        /\ pc = "notify" /\ pc' = "run"
    BY <1>9, Zenon DEF Notify, EndTurn, ring, driver, queue
  <2>2. ASSUME enabled, drv_pc = "idle", used_idx # last_used, ~irq PROVE irq'
    <3>1. used /\ Caught
      BY <2>1, <2>2, Zenon DEF IrqInv, NoLostInterrupt, Locked
    <3>2. CASE EventIdx
      <4>1. used_event = last_used
        BY <2>2, <3>2, Zenon DEF IrqInv
      <4>2. vring_need_event(used_event, used_idx, batch_start)
        BY <1>t, <2>2, <3>1, <4>1, NeedPassed, Zenon DEF Caught
      <4> QED BY <2>1, <3>1, <3>2, <4>2, Zenon DEF used_needs_interrupt
    <3>3. CASE ~EventIdx
      BY <2>1, <2>2, <3>1, <3>3, Zenon DEF used_needs_interrupt, IrqInv
    <3> QED BY <3>2, <3>3, Zenon
  <2>3. irq => irq'
    BY <2>1, Zenon
  <2>4. NoLostInterrupt'
    BY <2>1, <2>2, <2>3, Zenon DEF NoLostInterrupt
  <2> QED BY <2>1, <2>4, Zenon DEF IrqInv, Locked
<1> QED BY <1>2, <1>3, <1>4, <1>5, <1>7, <1>8, <1>9, Zenon

LEMMA IrqOthers ==
    ASSUME IInv, IrqInv, FreshInv,
           \/ KernelReadKick \/ (\E t \in Tokens : KernelComplete(t))
           \/ DriverKick \/ DriverInterrupt \/ DriverReap \/ DriverRearm \/ DriverRecheck
           \/ DriverSetup \/ (\E h \in Heads : DriverAdd(h))
           \/ ResetWrite \/ ResetReturns \/ Drop \/ UNCHANGED vars
    PROVE  IrqInv'
<1>0. TypeOK /\ LockInv
  BY Zenon DEF IInv
<1>t. /\ used_idx \in Index /\ last_used \in Index /\ batch_start \in Index
      /\ io \in [Tokens -> JobState]
  BY <1>0, Types, Zenon
<1>1. ASSUME UNCHANGED IrqView, UNCHANGED <<pc, used, batch_start, Collected>>
      PROVE  IrqInv'
  <2>1. Caught' <=> Caught
    BY <1>1, Zenon DEF IrqView, Caught
  <2> QED BY <1>1, <2>1, Zenon DEF IrqInv, IrqView, NoLostInterrupt
<1>2. CASE KernelReadKick \/ DriverKick \/ (\E h \in Heads : DriverAdd(h)) \/ ResetReturns \/ Drop \/ UNCHANGED vars
  <2>1. UNCHANGED IrqView /\ UNCHANGED <<pc, used, batch_start, io>>
    BY <1>2, Zenon DEF KernelReadKick, DriverKick, DriverAdd, ResetReturns, Drop, vars, ring, driver,
       queue, pass, IrqView
  <2> QED BY <1>1, <2>1, Zenon DEF Collected
<1>3. ASSUME NEW t \in Tokens, KernelComplete(t)
      PROVE  IrqInv'
  <2>1. UNCHANGED IrqView /\ UNCHANGED <<pc, used, batch_start>>
    BY <1>3, Zenon DEF KernelComplete, ring, driver, queue, pass, IrqView
  <2>2. Collected' = Collected
    BY <1>t, <1>3, Zenon DEF KernelComplete, Collected
  <2> QED BY <1>1, <2>1, <2>2, Zenon
<1>4. CASE DriverSetup
  <2>1. /\ UNCHANGED <<no_interrupt, drv_pc, used_event, last_used, used_idx, irq>>
        /\ pc \notin Locked /\ pc' = pc /\ ~enabled
    BY <1>4, Zenon DEF DriverSetup, ring, driver
  <2>2. used_idx = last_used
    BY <2>1, Zenon DEF FreshInv
  <2> QED BY <2>1, <2>2, Zenon DEF IrqInv, NoLostInterrupt, Locked
<1>5. CASE ResetWrite
  BY <1>5, Zenon DEF ResetWrite, IrqInv, NoLostInterrupt, Locked
<1>6. CASE DriverInterrupt
  <2>1. /\ UNCHANGED <<used_event, last_used, used_idx, enabled, pc, used, batch_start, io>>
        /\ irq /\ ~irq'
    BY <1>6, Zenon DEF DriverInterrupt, queue, pass
  <2>2. Collected' = Collected
    BY <2>1, Zenon DEF Collected
  <2>3. CASE enabled /\ drv_pc = "idle"
    <3>1. drv_pc' = "reaping"
      BY <1>6, <2>3, Zenon DEF DriverInterrupt
    <3> QED BY <2>1, <2>2, <3>1, Zenon DEF IrqInv, NoLostInterrupt
  <2>4. CASE ~(enabled /\ drv_pc = "idle")
    <3>1. UNCHANGED <<drv_pc, no_interrupt>>
      BY <1>6, <2>4, Zenon DEF DriverInterrupt
    <3>2. pc \in Locked \ {"releasing"} => drv_pc # "idle"
      BY <1>0, <2>4, Zenon DEF LockInv
    <3> QED BY <2>1, <2>2, <2>4, <3>1, <3>2, Zenon DEF IrqInv, NoLostInterrupt
  <2> QED BY <2>3, <2>4, Zenon
<1>7. CASE DriverReap
  <2>1. UNCHANGED <<no_interrupt, used_idx, pc, batch_start, io>> /\ drv_pc = "reaping" /\ drv_pc' = drv_pc
    BY <1>7, Zenon DEF DriverReap, ring, pass
  <2>2. Collected' = Collected
    BY <2>1, Zenon DEF Collected
  <2> QED BY <2>1, <2>2, Zenon DEF IrqInv, NoLostInterrupt
<1>8. CASE DriverRearm
  <2>1. /\ UNCHANGED <<used_idx, last_used, pc, batch_start, io>>
        /\ drv_pc' = "rechecking" /\ no_interrupt' = FALSE
        /\ EventIdx => used_event' = last_used
    BY <1>8, Zenon DEF DriverRearm, pass
  <2>2. Collected' = Collected
    BY <2>1, Zenon DEF Collected
  <2> QED BY <2>1, <2>2, Zenon DEF IrqInv, NoLostInterrupt
<1>9. CASE DriverRecheck
  <2>1. /\ UNCHANGED <<used_idx, last_used, used_event, pc, batch_start, io>>
        /\ drv_pc = "rechecking"
    BY <1>9, Zenon DEF DriverRecheck, pass
  <2>2. Collected' = Collected
    BY <2>1, Zenon DEF Collected
  <2>3. CASE used_idx # last_used
    <3>1. drv_pc' = "reaping"
      BY <1>9, <2>3, Zenon DEF DriverRecheck
    <3> QED BY <2>1, <2>2, <3>1, Zenon DEF IrqInv, NoLostInterrupt
  <2>4. CASE used_idx = last_used
    <3>1. drv_pc' = "idle" /\ no_interrupt' = no_interrupt
      BY <1>9, <2>4, Zenon DEF DriverRecheck
    <3>2. Caught'
      BY <1>t, <2>1, <2>4, Distance DEF Caught, Index
    <3> QED BY <2>1, <2>2, <2>4, <3>1, <3>2, Zenon DEF IrqInv, NoLostInterrupt
  <2> QED BY <2>3, <2>4, Zenon
<1> QED BY <1>2, <1>3, <1>4, <1>5, <1>6, <1>7, <1>8, <1>9, Zenon

\* What the worker's sleep rests on, and a step that changes none of it.
KickView == <<stop, enabled, no_notify, notify_suppressed, avail_event, last, notified_at, avail_idx,
              kick_read, kick, kicked, want_drain, pc, slots>>

LEMMA KickIdle ==
    ASSUME KickInv, UNCHANGED KickView
    PROVE  KickInv'
<1>1. (Wakes' <=> Wakes) /\ (Listening' <=> Listening)
  BY Zenon DEF KickView, Wakes, Listening, has_avail
<1> QED BY <1>1, Zenon DEF KickInv, KickView

\* A step of the worker that leaves the ring and the kick as they are, and loses
\* no reason to drain.
LEMMA KickKept ==
    ASSUME KickInv,
           UNCHANGED <<stop, enabled, no_notify, notify_suppressed, avail_event, last, notified_at,
                       avail_idx>>,
           pc' \notin {"suppress", "taking", "unsuppress", "recheck"},
           enabled /\ Wakes => Wakes'
    PROVE  KickInv'
<1>1. Listening' <=> Listening
  BY Zenon DEF Listening, has_avail
<1> QED BY <1>1, Zenon DEF KickInv

LEMMA KickWaiting ==
    ASSUME KickInv, TypeOK,
           \/ EnterEngine \/ Collect \/ SyncReadKick \/ PollEmpty \/ PollRing \/ PollDeadline
           \/ EngineFails \/ Notify \/ StartPass \/ KernelReadKick
           \/ \E t \in Tokens : complete(t)
    PROVE  KickInv'
<1>1. UNCHANGED <<stop, enabled, no_notify, notify_suppressed, avail_event, last, notified_at,
                       avail_idx>>
  BY Zenon DEF EnterEngine, Collect, SyncReadKick, PollEmpty, PollRing, PollDeadline,
     EngineFails, Notify, StartPass, complete, KernelReadKick, ring, driver, queue
<1>2. CASE EnterEngine
  BY <1>1, <1>2, KickKept, Zenon DEF EnterEngine, Wakes, slab, pass, Locked
<1>3. CASE Collect
  BY <1>1, <1>3, KickKept, Zenon DEF Collect, Wakes, slab, Locked
<1>4. CASE SyncReadKick \/ PollRing
  <2>1. Wakes' /\ pc' = "woken"
    BY <1>4, ZenonT(40) DEF SyncReadKick, PollRing, Wakes
  <2> QED BY <1>1, <2>1, KickKept, Zenon
<1>5. CASE PollEmpty \/ PollDeadline \/ EngineFails
  <2>1. /\ pc \in {"run", "poll", "peek", "blocked"} /\ pc' \in {"peek", "blocked", "failed"}
        /\ UNCHANGED <<kick, kick_read, want_drain, slots>>
    BY <1>5, Zenon DEF PollEmpty, PollDeadline, EngineFails, slab
  <2> QED BY <1>1, <2>1, KickKept, Zenon DEF Wakes, Locked
<1>6. CASE Notify
  BY <1>1, <1>6, KickKept, Zenon DEF Notify, EndTurn, Wakes, slab, Locked
<1>7. CASE StartPass
  <2>1. enabled => ~stop
    BY Zenon DEF KickInv
  <2>2. enabled /\ Wakes => Wakes'
    BY <1>7, <2>1, ZenonT(40) DEF StartPass, Wakes, slab, Locked
  <2>3. pc' \notin {"suppress", "taking", "unsuppress", "recheck"}
    BY <1>7, Zenon DEF StartPass
  <2> QED BY <1>1, <2>2, <2>3, KickKept, Zenon
<1>8. CASE KernelReadKick
  <2>1. Wakes' /\ UNCHANGED <<pc, want_drain>>
    BY <1>8, Zenon DEF KernelReadKick, Wakes
  <2> QED BY <1>1, <2>1, Zenon DEF KickInv
<1>9. ASSUME NEW t \in Tokens, complete(t)
      PROVE  KickInv'
  <2>1. pc = "completing" /\ UNCHANGED <<pc, kick, kick_read, want_drain, kicked>>
    BY <1>9, Zenon DEF complete
  <2>2. want_drain => Wakes'
    BY <2>1, Zenon DEF Wakes, Locked
  <2>3. ~want_drain => (Wakes => Wakes')
    BY <2>1, Zenon DEF Wakes
  <2>4. Wakes => Wakes'
    BY <2>2, <2>3, Zenon
  <2> QED BY <1>1, <2>1, <2>4, KickKept, Zenon
<1> QED BY <1>2, <1>3, <1>4, <1>5, <1>6, <1>7, <1>8, <1>9, Zenon

\* A worker that cannot take more has something parked.
LEMMA FullMeansParked ==
    ASSUME IInv, ~can_accept
    PROVE  DOMAIN slots # {}
<1>0. TypeOK /\ SlabConserved /\ io \in [Tokens -> JobState]
  BY Types, Zenon DEF IInv
<1>1. CASE free = <<>>
  <2>1. Range(free) = {} /\ 0 \in Tokens
    BY <1>1, TokensFinite DEF Range, Tokens
  <2> QED BY <1>0, <2>1, Zenon DEF SlabConserved
<1>2. CASE ~(room > 0)
  <2> DEFINE S == {t \in Tokens : io[t] \in {"sq", "kernel", "cq"}}
  <2>1. IsFiniteSet(S) /\ Cardinality(S) \in Nat /\ Cardinality(S) <= Depth
    BY TokensFinite, FS_Subset, FS_CardinalityType, Zenon
  <2>2. Cardinality(S) > 0
    BY <1>2, <2>1, TokensFinite DEF room, engine_in_flight
  <2>3. PICK t : t \in S
    BY <2>1, <2>2, FS_EmptySet
  <2> QED BY <1>0, <2>3, Zenon DEF SlabConserved
<1> QED BY <1>1, <1>2, Zenon DEF can_accept

LEMMA KickDraining ==
    ASSUME IInv, KickInv,
           \/ CompletionsDone \/ Suppress \/ TakeInline \/ TakeIssue \/ TakingDone \/ Unsuppress
           \/ Recheck
    PROVE  KickInv'
<1>0. TypeOK /\ last \in Index /\ avail_idx \in Index /\ notified_at \in Index
  BY Types, Zenon DEF IInv
<1>1. UNCHANGED <<stop, enabled, kick, kick_read, kicked, notified_at, avail_idx>>
  BY Zenon DEF CompletionsDone, Suppress, TakeInline, TakeIssue, TakingDone, Unsuppress, Recheck,
     suppress_notify, ring, driver, queue, pass
<1>2. CASE CompletionsDone
  <2>1. /\ UNCHANGED <<no_notify, notify_suppressed, avail_event, last, want_drain, slots>>
        /\ pc = "completing" /\ pc' = IF want_drain THEN "suppress" ELSE "notify"
    BY <1>2, Zenon DEF CompletionsDone, ring, queue, slab
  <2>2. Wakes => Wakes'
    BY <1>1, <2>1, Zenon DEF Wakes, Locked
  <2>3. Listening' <=> Listening
    BY <1>1, <2>1, Zenon DEF Listening, has_avail
  <2> QED BY <1>1, <2>1, <2>2, <2>3, Zenon DEF KickInv
<1>3. CASE TakeInline \/ TakeIssue
  <2>1. pc = "taking" /\ UNCHANGED <<pc, want_drain, no_notify, notify_suppressed>>
    BY <1>3, Zenon DEF TakeInline, TakeIssue, ring
  <2>2. Wakes'
    BY <2>1, Zenon DEF KickInv, Wakes, Locked
  <2> QED BY <1>1, <2>1, <2>2, Zenon DEF KickInv
<1>4. CASE Suppress
  <2>1. /\ pc = "suppress" /\ pc' = "taking" /\ UNCHANGED want_drain /\ notify_suppressed'
        /\ EventIdx => UNCHANGED no_notify
    BY <1>4, ZenonT(40) DEF Suppress, suppress_notify
  <2>2. Wakes'
    BY <2>1, Zenon DEF KickInv, Wakes, Locked
  <2> QED BY <1>1, <2>1, <2>2 DEF KickInv
<1>5. CASE TakingDone
  <2>1. /\ UNCHANGED <<no_notify, notify_suppressed, avail_event, last, want_drain, slots>>
        /\ pc = "taking" /\ pc' = IF can_accept THEN "unsuppress" ELSE "notify"
    BY <1>5, Zenon DEF TakingDone, ring, queue, slab
  <2>2. want_drain
    BY <2>1, Zenon DEF KickInv
  <2>3. Wakes'
    BY <2>1, <2>2, FullMeansParked, Zenon DEF Wakes, Locked
  <2> QED BY <1>1, <2>1, <2>2, <2>3, Zenon DEF KickInv
<1>6. CASE Unsuppress
  <2>1. /\ pc = "unsuppress" /\ pc' = "recheck" /\ UNCHANGED <<want_drain, last>>
        /\ EventIdx => avail_event' = last /\ no_notify' = no_notify
        /\ ~EventIdx => no_notify' = IF notify_suppressed # FALSE THEN FALSE ELSE no_notify
        /\ notify_suppressed' = FALSE
    BY <1>6, Zenon DEF Unsuppress, suppress_notify, queue
  <2>2. want_drain /\ Wakes'
    BY <2>1, Zenon DEF KickInv, Wakes, Locked
  <2>3. ~EventIdx => ~no_notify'
    BY <2>1, Zenon DEF KickInv
  <2>4. EventIdx => ~no_notify'
    BY <2>1, Zenon DEF KickInv
  <2> QED BY <1>1, <2>1, <2>2, <2>3, <2>4, Zenon DEF KickInv
<1>7. CASE Recheck
  <2>1. UNCHANGED <<no_notify, notify_suppressed, avail_event, last, slots>> /\ pc = "recheck"
    BY <1>7, Zenon DEF Recheck, ring, queue, slab
  <2>2. CASE has_avail
    <3>1. pc' = "suppress" /\ want_drain' = want_drain /\ want_drain
      BY <1>7, <2>1, <2>2, Zenon DEF Recheck, KickInv
    <3>2. Wakes'
      BY <3>1, Zenon DEF Wakes, Locked
    <3> QED BY <1>1, <2>1, <3>1, <3>2, Zenon DEF KickInv
  <2>3. CASE ~has_avail
    <3>1. pc' = "notify"
      BY <1>7, <2>3, Zenon DEF Recheck
    <3>2. Listening'
      <4>1. wrapping_sub(last, notified_at) \in Nat
        BY <1>0, Distance DEF Index
      <4>2. IF EventIdx THEN avail_event = last ELSE ~no_notify
        BY <2>1, Zenon DEF KickInv
      <4> QED BY <1>1, <2>1, <2>3, <4>1, <4>2 DEF Listening, has_avail
    <3> QED BY <1>1, <2>1, <3>1, <3>2, Zenon DEF KickInv
  <2> QED BY <2>2, <2>3, Zenon
<1> QED BY <1>2, <1>3, <1>4, <1>5, <1>6, <1>7, Zenon

LEMMA KickOthers ==
    ASSUME IInv, KickInv, FreshInv,
           \/ ReleaseDone \/ (\E t \in Tokens : release(t))
           \/ (\E t \in Tokens : KernelComplete(t))
           \/ DriverKick \/ DriverInterrupt \/ DriverReap \/ DriverRearm \/ DriverRecheck
           \/ DriverSetup \/ (\E h \in Heads : DriverAdd(h))
           \/ ResetWrite \/ ResetReturns \/ Drop \/ UNCHANGED vars
    PROVE  KickInv'
<1>0. /\ TypeOK /\ LockInv /\ last \in Index /\ avail_idx \in Index /\ notified_at \in Index
      /\ avail_event \in Index
  BY Types, Zenon DEF IInv
<1>1. CASE ReleaseDone \/ \E t \in Tokens : release(t)
  <2>1. /\ UNCHANGED <<stop, enabled, no_notify, notify_suppressed>>
        /\ pc = "releasing" /\ pc' \in {"run", "releasing"}
    BY <1>1, Zenon DEF ReleaseDone, release, EndTurn, ring, queue
  <2>2. ~enabled
    BY <1>0, <2>1, Zenon DEF LockInv
  <2> QED BY <2>1, <2>2, Zenon DEF KickInv
<1>2. CASE \/ (\E t \in Tokens : KernelComplete(t)) \/ DriverInterrupt \/ DriverReap \/ DriverRearm
           \/ DriverRecheck \/ ResetReturns \/ UNCHANGED vars
  <2>1. UNCHANGED KickView
    BY <1>2, Zenon DEF KernelComplete, DriverInterrupt, DriverReap, DriverRearm, DriverRecheck,
       ResetReturns, vars, ring, driver, queue, slab, pass, KickView
  <2> QED BY <2>1, KickIdle, Zenon
<1>3. CASE DriverKick
  <2>1. /\ UNCHANGED <<stop, enabled, no_notify, notify_suppressed, avail_event, last, avail_idx,
                       kick_read, kicked, want_drain, pc, slots>>
        /\ notified_at' = avail_idx /\ notified_at # avail_idx
        /\ kick' = (kick \/ IF EventIdx THEN vring_need_event(avail_event, avail_idx, notified_at)
                                         ELSE ~no_notify)
    BY <1>3, ZenonT(40) DEF DriverKick, ring, queue, slab, pass
  <2>2. Wakes => Wakes'
    BY <2>1, Zenon DEF Wakes
  <2>3. ASSUME Listening, ~kick' PROVE Listening'
    <3>1. CASE EventIdx
      <4>1. last = avail_idx
        BY <1>0, <2>1, <2>3, <3>1, NeedPassed, ZenonT(40) DEF Listening
      <4>2. last' = last /\ avail_event' = last /\ avail_idx' = last /\ notified_at' = last
        BY <2>1, <2>3, <3>1, <4>1, Zenon DEF Listening
      <4>3. wrapping_sub(last, last) <= wrapping_sub(last, last)
        <5>1. wrapping_sub(last, last) \in Index
          BY <1>0, Distance, Zenon
        <5> QED BY <5>1 DEF Index
      <4> QED BY <3>1, <4>2, <4>3, Zenon DEF Listening
    <3>2. CASE ~EventIdx
      BY <2>1, <2>3, <3>2, Zenon DEF Listening
    <3> QED BY <3>1, <3>2, Zenon
  <2>4. kick' => Wakes'
    BY Zenon DEF Wakes
  <2> QED BY <2>1, <2>2, <2>3, <2>4, Zenon DEF KickInv
<1>4. ASSUME NEW h \in Heads, DriverAdd(h)
      PROVE  KickInv'
  <2>1. /\ UNCHANGED <<stop, enabled, no_notify, notify_suppressed, avail_event, last, notified_at,
                       kick_read, kick, kicked, want_drain, pc, slots>>
        /\ avail_idx' = wrapping_add(avail_idx, 1)
        /\ wrapping_sub(avail_idx, notified_at) < MaxAdded
    BY <1>4, ZenonT(40) DEF DriverAdd, queue, slab, pass
  <2>2. Wakes' <=> Wakes
    BY <2>1, Zenon DEF Wakes
  <2>3. wrapping_sub(avail_idx', notified_at) = wrapping_sub(avail_idx, notified_at) + 1
    BY <1>0, <2>1, Distance, BlkQueueAssumption, IdxModAssumption, SMTT(40) DEF Index
  <2>4. notified_at # avail_idx'
    BY <1>0, <2>1, <2>3, Distance, WrapType, IndexFacts DEF Index
  <2>5. Listening => Listening'
    <3>1. wrapping_sub(last, notified_at) \in Nat /\ wrapping_sub(avail_idx, notified_at) \in Nat
      BY <1>0, Distance DEF Index
    <3> QED BY <2>1, <2>3, <2>4, <3>1 DEF Listening
  <2> QED BY <2>1, <2>2, <2>5, Zenon DEF KickInv
<1>5. CASE DriverSetup
  <2>1. /\ UNCHANGED <<stop, no_notify, notify_suppressed, avail_event, last, notified_at, avail_idx,
                       want_drain, pc>>
        /\ ~enabled /\ ~stop /\ pc \notin Locked
    BY <1>5, Zenon DEF DriverSetup, ring, driver
  <2>2. Listening'
    BY <2>1, Distance, IndexFacts, SMTT(40) DEF FreshInv, Listening, has_avail, Index
  <2> QED BY <2>1, <2>2, Zenon DEF KickInv, Locked
<1>6. CASE ResetWrite
  BY <1>6, Zenon DEF ResetWrite, KickInv, Locked
<1>7. CASE Drop
  <2>1. UNCHANGED <<enabled, no_notify, notify_suppressed, avail_event, last, want_drain, pc>> /\ ~enabled
    BY <1>7, Zenon DEF Drop, ring
  <2> QED BY <2>1, Zenon DEF KickInv
<1> QED BY <1>1, <1>2, <1>3, <1>4, <1>5, <1>6, <1>7, Zenon

LEMMA InitWakeInv == Init => WakeInv
<1> SUFFICES ASSUME Init PROVE WakeInv
  BY Zenon
<1>1. RoomInv
  BY TokensFinite DEF Init, RoomInv, Tokens, Locked
<1>2. FreshInv
  BY Zenon DEF Init, FreshInv
<1>3. IrqInv
  BY Zenon DEF Init, IrqInv, NoLostInterrupt, Locked
<1>4. KickInv
  BY Zenon DEF Init, KickInv
<1> QED BY <1>1, <1>2, <1>3, <1>4, Zenon DEF WakeInv

LEMMA WakeStep ==
    ASSUME IInv, WakeInv, [Next]_vars
    PROVE  WakeInv'
<1>1. RoomInv'
  BY RoomStep, Zenon DEF WakeInv
<1>2. FreshInv'
  BY FreshStep, Zenon DEF WakeInv
<1>3. IrqInv'
  BY NextCases, IrqWorker, IrqOthers, Zenon DEF WakeInv
<1>4. KickInv'
  BY NextCases, KickWaiting, KickDraining, KickOthers, Zenon DEF WakeInv, IInv
<1> QED BY <1>1, <1>2, <1>3, <1>4, Zenon DEF WakeInv

\* Neither side sleeps through what the other has to say.
THEOREM WakeUpsAlwaysArrive == Spec => []WakeUpsArrive
<1>1. IInv /\ WakeInv => WakeUpsArrive
  <2> SUFFICES ASSUME IInv, WakeInv PROVE WakeUpsArrive
    BY Zenon
  <2>1. NoLostInterrupt
    BY Zenon DEF WakeInv, IrqInv
  <2>2. RoomForKick
    BY NotFull, Zenon DEF WakeInv, RoomInv, RoomForKick
  <2>3. NoLostKick
    <3> SUFFICES ASSUME pc = "blocked", enabled, has_avail, notified_at = avail_idx, ~Wakes PROVE FALSE
      BY Zenon DEF NoLostKick, Wakes, Locked
    <3>1. Listening /\ last # avail_idx
      BY Zenon DEF WakeInv, KickInv, has_avail
    <3>2. CASE EventIdx
      <4>1. wrapping_sub(last, avail_idx) <= wrapping_sub(avail_idx, avail_idx)
        BY <3>1, <3>2, Zenon DEF Listening
      <4> QED BY <3>1, <4>1, Distance, Types DEF IInv, Index
    <3>3. CASE ~EventIdx
      BY <3>1, <3>3, Zenon DEF Listening
    <3> QED BY <3>2, <3>3, Zenon
  <2> QED BY <2>1, <2>2, <2>3, Zenon DEF WakeUpsArrive
<1>2. Init => IInv /\ WakeInv
  BY InitIInv, InitWakeInv, Zenon
<1>3. IInv /\ [Next]_vars => IInv'
  BY TypeStep, SlabStep, LockStep, InFlightStep, QuietStep, Zenon DEF IInv
<1>4. IInv /\ WakeInv /\ [Next]_vars => WakeInv'
  BY WakeStep, Zenon
<1> QED BY <1>1, <1>2, <1>3, <1>4, PTL DEF Spec
=============================================================================
