------------------------------ MODULE BlkQueue ------------------------------
(***************************************************************************)
(* One queue of the virtio-blk device: the worker thread that serves it    *)
(* (blk/worker.rs), the I/O engine under the worker (blk/engine.rs), the   *)
(* ring operations (common.rs) and the device reset (blk/mod.rs), with the *)
(* guest driver and the kernel on either side.                             *)
(*                                                                         *)
(* Every step of the worker makes at most one access to ring memory that   *)
(* the driver can race with, so the driver's steps fall between any two of *)
(* them.  The stores and loads the two sides race on are separated by      *)
(* SeqCst fences in the code, so interleaving is the right memory model.   *)
(* The queue's lock is held by the worker from "completing" to "notify"    *)
(* and is what a register write by a vCPU waits for.                       *)
(***************************************************************************)
EXTENDS VringIndex, Sequences, FiniteSets, Functions

CONSTANTS
    Heads,        \* descriptor chains the driver has to post
    NoHead,       \* what a ring entry nobody has written holds
    QSize,        \* q.size: entries in the avail and in the used ring
    Depth,        \* slots of the worker's slab and entries of the io_uring SQ
    Engine,       \* "uring" or "sync": which engine engine::build returned
    EventIdx,     \* was VIRTIO_F_RING_EVENT_IDX negotiated?
    Polls,        \* is poll_us > 0?
    Faults,       \* may the engine fail (io_uring_enter or the eventfd read)?
    MaxAdded,     \* bound: chains published between two decisions to kick
    MaxBatch,     \* bound: a request is answered inline only while fewer used
                  \* entries than this were pushed in the pass
    MaxRetries,   \* bound: resubmissions of one request
    MaxResets     \* bound: device resets in a behaviour

ASSUME BlkQueueAssumption ==
    /\ IsFiniteSet(Heads) /\ NoHead \notin Heads
    /\ QSize \in Nat \ {0}
    /\ Depth \in 2 .. IdxMod - 1
    /\ Engine \in {"uring", "sync"}
    /\ EventIdx \in BOOLEAN /\ Polls \in BOOLEAN /\ Faults \in BOOLEAN
    /\ MaxAdded \in 1 .. IdxMod - 1
    /\ MaxBatch \in 0 .. IdxMod - 1
    /\ MaxRetries \in Nat
    /\ MaxResets \in Nat

\* A driver has a descriptor for every chain it posts, and the ring size
\* divides the range of the indices (virtio makes it a power of two).
ASSUME RingAssumption ==
    /\ Cardinality(Heads) <= QSize
    /\ QSize < IdxMod
    /\ IdxMod % QSize = 0

Tokens == 0 .. Depth - 1
Slot == [head : Heads \cup {NoHead}, generation : 0 .. MaxResets, tries : 0 .. MaxRetries]

VARIABLES
    \* ring memory, shared with the driver
    avail_ring, avail_idx, no_interrupt, used_event,
    used_ring, used_idx, no_notify, avail_event,
    \* driver
    drv_pc, owned, last_used, notified_at,
    \* kick eventfd (counter not zero) and interrupt pending at the driver
    kick, irq,
    \* Queue: QState, generation, in_flight; and the stop flag
    enabled, last, generation, in_flight, stop,
    \* Worker
    pc, slots, free, want_drain, notify_suppressed,
    kicked, used, batch_start,
    \* Engine: where each job is, and where the kick read is
    io, kick_read,
    \* the vCPU that writes the status register
    reset_pc, gave_up

ring    == <<avail_ring, avail_idx, no_interrupt, used_event,
             used_ring, used_idx, no_notify, avail_event>>
driver  == <<drv_pc, owned, last_used, notified_at>>
queue   == <<enabled, last, generation, stop>>
slab    == <<slots, free>>
pass    == <<kicked, used, batch_start>>
reset   == <<reset_pc, gave_up>>
vars    == <<ring, driver, kick, irq, queue, in_flight, pc, slab, want_drain,
             notify_suppressed, pass, io, kick_read, reset>>

WorkerPc == {"run", "poll", "peek", "blocked", "woken", "releasing", "completing", "suppress",
             "taking", "unsuppress", "recheck", "notify", "exited", "failed"}
Locked   == {"releasing", "completing", "suppress", "taking", "unsuppress", "recheck", "notify"}
JobState == {"none", "sq", "kernel", "cq", "out"}

FreshRing == [i \in 0 .. QSize - 1 |-> NoHead]
Empty   == [t \in {} |-> t]     \* no slot of the slab is in use

-----------------------------------------------------------------------------
(* Ring and slab operations *)

\* The variables of one turn of the worker's loop go out of scope.
EndTurn == pc' = "run" /\ kicked' = FALSE /\ used' = FALSE /\ batch_start' = 0

has_avail == avail_idx # last

\* The chain pop_avail returns, and the ring after push_used.
NextHead == avail_ring[last % QSize]

push_used(h) ==
    /\ used_ring' = [used_ring EXCEPT ![used_idx % QSize] = h]
    /\ used_idx' = wrapping_add(used_idx, 1)
    /\ used' = TRUE

no_used == UNCHANGED <<used_ring, used_idx, used>>

\* Entries of the submission queue that the kernel has not consumed, and jobs
\* the engine counts as in flight.
unsubmitted      == Cardinality({t \in Tokens : io[t] = "sq"})
engine_in_flight == Cardinality({t \in Tokens : io[t] \in {"sq", "kernel", "cq"}})

\* A push fails only when the submission queue is full.  The synchronous
\* engine has no queue: it runs the job inside submit.
sq_full == Engine = "uring" /\ unsubmitted = Depth
submitted_state == IF Engine = "uring" THEN "sq" ELSE "cq"

\* Mutant: no entry is held back for the kick read.
room_whole == IF Engine = "uring" THEN Depth - engine_in_flight ELSE Depth

\* One entry is held back for the kick read.  The synchronous engine is bounded
\* by the slab alone.
room == IF Engine # "uring" THEN Depth
        ELSE IF engine_in_flight < Depth THEN Depth - engine_in_flight - 1 ELSE 0

can_accept == free # <<>> /\ room > 0

WithSlot(t, s) == [x \in (DOMAIN slots) \cup {t} |-> IF x = t THEN s ELSE slots[x]]
WithoutSlots(T) == Restrict(slots, (DOMAIN slots) \ T)

\* Does the driver want an interrupt for the batch that ends at used_idx?  (The
\* worker remembers what push_used returned, which is the ring's used_idx.)
used_needs_interrupt ==
    IF EventIdx THEN vring_need_event(used_event, used_idx, batch_start)
                ELSE ~no_interrupt

-----------------------------------------------------------------------------
(* Worker: waiting for something to do (wait, Engine::run) *)

\* Engine::run begins: arm the kick read unless one is armed, and hand every
\* queued entry to the kernel.  The poll loop makes the same call without
\* waiting; nothing is queued between its turns.
EnterEngine ==
    /\ pc = "run"
    /\ pc' = IF Polls THEN "poll" ELSE "blocked"
    /\ IF Engine = "uring"
       THEN /\ kick_read' = IF kick_read = "none" /\ ~sq_full THEN "kernel" ELSE kick_read
            /\ io' = [t \in Tokens |-> IF io[t] = "sq" THEN "kernel" ELSE io[t]]
       ELSE UNCHANGED <<kick_read, io>>
    /\ UNCHANGED <<ring, driver, kick, irq, queue, in_flight, slab, want_drain,
                   notify_suppressed, pass, reset>>

\* Engine::run returns: everything in the completion queue is collected.
Collect ==
    /\ pc \in {"poll", "blocked"}
    /\ \/ kick_read = "cq"
       \/ \E t \in Tokens : io[t] = "cq"
    /\ pc' = "woken"
    /\ io' = [t \in Tokens |-> IF io[t] = "cq" THEN "out" ELSE io[t]]
    /\ kicked' = (kick_read = "cq")
    /\ kick_read' = IF kick_read = "cq" THEN "none" ELSE kick_read
    /\ UNCHANGED <<ring, driver, kick, irq, queue, in_flight, slab, want_drain,
                   notify_suppressed, used, batch_start, reset>>

\* The synchronous engine has nothing to report and blocks on the eventfd.
SyncReadKick ==
    /\ Engine = "sync" /\ pc = "blocked"
    /\ \A t \in Tokens : io[t] # "cq"
    /\ kick
    /\ kick' = FALSE
    /\ kicked' = TRUE
    /\ pc' = "woken"
    /\ UNCHANGED <<ring, driver, irq, queue, in_flight, slab, want_drain,
                   notify_suppressed, used, batch_start, io, kick_read, reset>>

\* One turn of the poll loop: the engine has nothing to report, so the worker
\* looks at the ring (ring_has_work).  Turns that find nothing change nothing;
\* they are the time the worker spends at "poll" and "peek".
PollEmpty ==
    /\ pc = "poll"
    /\ kick_read # "cq"
    /\ \A t \in Tokens : io[t] # "cq"
    /\ pc' = "peek"
    /\ UNCHANGED <<ring, driver, kick, irq, queue, in_flight, slab, want_drain,
                   notify_suppressed, pass, io, kick_read, reset>>

\* It sees a request before its kick, or the deadline passes without one.
PollRing ==
    /\ pc = "peek"
    /\ enabled /\ has_avail
    /\ kicked' = TRUE
    /\ pc' = "woken"
    /\ UNCHANGED <<ring, driver, kick, irq, queue, in_flight, slab, want_drain,
                   notify_suppressed, used, batch_start, io, kick_read, reset>>

PollDeadline ==
    /\ pc = "peek"
    /\ ~(enabled /\ has_avail)
    /\ pc' = "blocked"
    /\ UNCHANGED <<ring, driver, kick, irq, queue, in_flight, slab, want_drain,
                   notify_suppressed, pass, io, kick_read, reset>>

\* Engine::run returns an error: the worker thread ends and its ring with it.
EngineFails ==
    /\ Faults
    /\ pc \in {"run", "poll", "blocked"}
    /\ pc' = "failed"
    /\ UNCHANGED <<ring, driver, kick, irq, queue, in_flight, slab, want_drain,
                   notify_suppressed, pass, io, kick_read, reset>>

-----------------------------------------------------------------------------
(* Worker: one pass over the queue, under its lock *)

\* Notice a stop; otherwise lock the queue and see whether there is one.
StartPass ==
    /\ pc = "woken"
    /\ IF stop
       THEN pc' = "exited" /\ UNCHANGED <<want_drain, used, batch_start>>
       ELSE IF ~enabled
       THEN /\ pc' = "releasing"
            /\ want_drain' = FALSE
            /\ UNCHANGED <<used, batch_start>>
       ELSE /\ pc' = "completing"
            /\ want_drain' = (want_drain \/ kicked)
            /\ batch_start' = used_idx
            /\ used' = FALSE
    /\ UNCHANGED <<ring, driver, kick, irq, queue, in_flight, slab,
                   notify_suppressed, kicked, io, kick_read, reset>>

\* The driver is gone: give a slot back without completing it to the guest.
release(t) ==
    /\ pc = "releasing"
    /\ io[t] = "out"
    /\ io' = [io EXCEPT ![t] = "none"]
    /\ slots' = WithoutSlots({t})
    /\ free' = IF t \in DOMAIN slots THEN Append(free, t) ELSE free
    /\ UNCHANGED <<ring, driver, kick, irq, queue, in_flight, pc, want_drain,
                   notify_suppressed, pass, kick_read, reset>>

publish_in_flight == in_flight' = Depth - Len(free)

ReleaseDone ==
    /\ pc = "releasing"
    /\ \A t \in Tokens : io[t] # "out"
    /\ publish_in_flight
    /\ EndTurn
    /\ UNCHANGED <<ring, driver, kick, irq, queue, slab, want_drain,
                   notify_suppressed, io, kick_read, reset>>

\* Mutant: a stale completion does not give its slot back.
StaleCompletion_leaks(t) ==
    /\ slots[t].generation # generation
    /\ slots' = WithoutSlots({t})
    /\ io' = [io EXCEPT ![t] = "none"]
    /\ no_used
    /\ UNCHANGED free

\* A request taken under a driver that has since reset the device: only the
\* slot comes back.
StaleCompletion(t) ==
    /\ slots[t].generation # generation
    /\ slots' = WithoutSlots({t})
    /\ free' = Append(free, t)
    /\ io' = [io EXCEPT ![t] = "none"]
    /\ no_used

\* The request is over, well or badly: status, used entry, slot.
FinishCompletion(t) ==
    /\ slots[t].generation = generation
    /\ push_used(slots[t].head)
    /\ slots' = WithoutSlots({t})
    /\ free' = Append(free, t)
    /\ io' = [io EXCEPT ![t] = "none"]

\* Part of the transfer is left, or the kernel asked to be asked again.
resubmit(t) ==
    /\ slots[t].generation = generation
    /\ slots[t].tries < MaxRetries
    /\ ~sq_full
    /\ io' = [io EXCEPT ![t] = submitted_state]
    /\ slots' = [slots EXCEPT ![t].tries = @ + 1]
    /\ no_used
    /\ UNCHANGED free

\* A resubmission that found the submission queue full ends like any other
\* failed request, so it is FinishCompletion.
complete(t) ==
    /\ pc = "completing"
    /\ io[t] = "out"
    /\ t \in DOMAIN slots
    /\ StaleCompletion(t) \/ FinishCompletion(t) \/ resubmit(t)
    /\ UNCHANGED <<avail_ring, avail_idx, no_interrupt, used_event, no_notify,
                   avail_event, driver, kick, irq, queue, in_flight, pc, want_drain,
                   notify_suppressed, kicked, batch_start, kick_read, reset>>

CompletionsDone ==
    /\ pc = "completing"
    /\ \A t \in Tokens : io[t] # "out"
    /\ pc' = IF want_drain THEN "suppress" ELSE "notify"
    /\ UNCHANGED <<ring, driver, kick, irq, queue, in_flight, slab, want_drain,
                   notify_suppressed, pass, io, kick_read, reset>>

-----------------------------------------------------------------------------
(* Worker: drain *)

\* Ask the driver to stop kicking, or to start again.
suppress_notify(on) ==
    /\ notify_suppressed' = on
    /\ IF EventIdx
       THEN /\ avail_event' = IF on THEN wrapping_add(wrapping_add(last, QSize \div 2), 1)
                                    ELSE last
            /\ UNCHANGED no_notify
       ELSE /\ no_notify' = IF notify_suppressed # on THEN on ELSE no_notify
            /\ UNCHANGED avail_event
    /\ UNCHANGED <<avail_ring, avail_idx, no_interrupt, used_event, used_ring, used_idx>>

Suppress ==
    /\ pc = "suppress"
    /\ suppress_notify(TRUE)
    /\ pc' = "taking"
    /\ UNCHANGED <<driver, kick, irq, queue, in_flight, slab, want_drain,
                   pass, io, kick_read, reset>>

\* pop_avail returns a chain that is answered on the spot: malformed, rejected,
\* GET_ID, a request that could not be prepared, or one the engine refused.
TakeInline ==
    /\ pc = "taking" /\ can_accept /\ has_avail
    /\ wrapping_sub(used_idx, batch_start) < MaxBatch
    /\ last' = wrapping_add(last, 1)
    /\ push_used(NextHead)
    /\ UNCHANGED <<avail_ring, avail_idx, no_interrupt, used_event, no_notify,
                   avail_event, driver, kick, irq, enabled, generation, stop,
                   in_flight, pc, slab, want_drain, notify_suppressed, kicked,
                   batch_start, io, kick_read, reset>>

\* pop_avail returns a chain that goes to the engine under a token.
TakeIssue ==
    /\ pc = "taking" /\ can_accept /\ has_avail
    /\ ~sq_full
    /\ last' = wrapping_add(last, 1)
    /\ LET t == free[Len(free)]
       IN /\ free' = SubSeq(free, 1, Len(free) - 1)
          /\ slots' = WithSlot(t, [head |-> NextHead, generation |-> generation, tries |-> 0])
          /\ io' = [io EXCEPT ![t] = submitted_state]
    /\ UNCHANGED <<ring, driver, kick, irq, enabled, generation, stop, in_flight,
                   pc, want_drain, notify_suppressed, pass, kick_read, reset>>

\* The inner loop ends: either there is no room, and notifications stay
\* suppressed until completions make some, or the ring looked empty.
TakingDone ==
    /\ pc = "taking"
    /\ ~can_accept \/ ~has_avail
    /\ pc' = IF can_accept THEN "unsuppress" ELSE "notify"
    /\ UNCHANGED <<ring, driver, kick, irq, queue, in_flight, slab, want_drain,
                   notify_suppressed, pass, io, kick_read, reset>>

Unsuppress ==
    /\ pc = "unsuppress"
    /\ suppress_notify(FALSE)
    /\ pc' = "recheck"
    /\ UNCHANGED <<driver, kick, irq, queue, in_flight, slab, want_drain,
                   pass, io, kick_read, reset>>

\* Mutant: go to sleep without looking again.
Recheck_skipped ==
    /\ pc = "recheck"
    /\ pc' = "notify" /\ want_drain' = FALSE
    /\ UNCHANGED <<ring, driver, kick, irq, queue, in_flight, slab,
                   notify_suppressed, pass, io, kick_read, reset>>

\* Look once more before sleeping: the driver may have honoured the hint for
\* something it added just now.
Recheck ==
    /\ pc = "recheck"
    /\ IF has_avail THEN pc' = "suppress" /\ UNCHANGED want_drain
                    ELSE pc' = "notify" /\ want_drain' = FALSE
    /\ UNCHANGED <<ring, driver, kick, irq, queue, in_flight, slab,
                   notify_suppressed, pass, io, kick_read, reset>>

\* The end of the pass: publish what is outstanding, interrupt the driver if
\* it wants to hear of this batch, and unlock.
Notify ==
    /\ pc = "notify"
    /\ publish_in_flight
    /\ irq' = (irq \/ (used /\ used_needs_interrupt))
    /\ EndTurn
    /\ UNCHANGED <<ring, driver, kick, queue, slab, want_drain, notify_suppressed,
                   io, kick_read, reset>>

WorkerStep ==
    \/ EnterEngine \/ Collect \/ SyncReadKick \/ PollEmpty \/ PollRing \/ PollDeadline
    \/ StartPass \/ ReleaseDone \/ CompletionsDone
    \/ Suppress \/ TakeInline \/ TakeIssue \/ TakingDone \/ Unsuppress \/ Recheck \/ Notify
    \/ \E t \in Tokens : release(t) \/ complete(t)

-----------------------------------------------------------------------------
(* Kernel: io_uring.  Completions may come in any order. *)

KernelComplete(t) ==
    /\ io[t] = "kernel" /\ pc # "failed"
    /\ io' = [io EXCEPT ![t] = "cq"]
    /\ UNCHANGED <<ring, driver, kick, irq, queue, in_flight, pc, slab, want_drain,
                   notify_suppressed, pass, kick_read, reset>>

\* The armed read of the eventfd takes its counter.
KernelReadKick ==
    /\ kick_read = "kernel" /\ kick /\ pc # "failed"
    /\ kick_read' = "cq"
    /\ kick' = FALSE
    /\ UNCHANGED <<ring, driver, irq, queue, in_flight, pc, slab, want_drain,
                   notify_suppressed, pass, io, reset>>

-----------------------------------------------------------------------------
(* Guest driver, as the ring protocol in common.rs expects it to behave.    *)

\* Publish a chain in the avail ring.  A driver announces what it has added
\* before the index comes round to where it last did.
DriverAdd(h) ==
    /\ enabled /\ h \notin owned
    /\ wrapping_sub(avail_idx, notified_at) < MaxAdded
    /\ owned' = owned \cup {h}
    /\ avail_ring' = [avail_ring EXCEPT ![avail_idx % QSize] = h]
    /\ avail_idx' = wrapping_add(avail_idx, 1)
    /\ UNCHANGED <<no_interrupt, used_event, used_ring, used_idx, no_notify, avail_event,
                   drv_pc, last_used, notified_at, kick, irq, queue, in_flight, pc, slab,
                   want_drain, notify_suppressed, pass, io, kick_read, reset>>

\* After publishing a batch, read the suppression word and kick if the device
\* wants to hear of it.  The kick reaches the eventfd through the kernel's
\* doorbell or through bar0_write.
DriverKick ==
    /\ enabled /\ notified_at # avail_idx
    /\ notified_at' = avail_idx
    /\ kick' = \/ kick
               \/ IF EventIdx THEN vring_need_event(avail_event, avail_idx, notified_at)
                              ELSE ~no_notify
    /\ UNCHANGED <<ring, drv_pc, owned, last_used, irq, queue, in_flight, pc, slab,
                   want_drain, notify_suppressed, pass, io, kick_read, reset>>

\* The interrupt handler: silence interrupts, reap, re-arm, look once more.
DriverInterrupt ==
    /\ irq
    /\ irq' = FALSE
    /\ IF enabled /\ drv_pc = "idle"
       THEN drv_pc' = "reaping" /\ no_interrupt' = ~EventIdx
       ELSE UNCHANGED <<drv_pc, no_interrupt>>
    /\ UNCHANGED <<avail_ring, avail_idx, used_event, used_ring, used_idx, no_notify,
                   avail_event, owned, last_used, notified_at, kick, queue, in_flight, pc,
                   slab, want_drain, notify_suppressed, pass, io, kick_read, reset>>

DriverReap ==
    /\ drv_pc = "reaping" /\ used_idx # last_used
    /\ owned' = owned \ {used_ring[last_used % QSize]}
    /\ last_used' = wrapping_add(last_used, 1)
    /\ UNCHANGED <<ring, drv_pc, notified_at, kick, irq, queue, in_flight, pc, slab,
                   want_drain, notify_suppressed, pass, io, kick_read, reset>>

DriverRearm ==
    /\ drv_pc = "reaping" /\ used_idx = last_used
    /\ no_interrupt' = FALSE
    /\ used_event' = IF EventIdx THEN last_used ELSE used_event
    /\ drv_pc' = "rechecking"
    /\ UNCHANGED <<avail_ring, avail_idx, used_ring, used_idx, no_notify, avail_event,
                   owned, last_used, notified_at, kick, irq, queue, in_flight, pc, slab,
                   want_drain, notify_suppressed, pass, io, kick_read, reset>>

DriverRecheck ==
    /\ drv_pc = "rechecking"
    /\ IF used_idx # last_used
       THEN drv_pc' = "reaping" /\ no_interrupt' = ~EventIdx
       ELSE drv_pc' = "idle" /\ UNCHANGED no_interrupt
    /\ UNCHANGED <<avail_ring, avail_idx, used_event, used_ring, used_idx, no_notify,
                   avail_event, owned, last_used, notified_at, kick, irq, queue, in_flight,
                   pc, slab, want_drain, notify_suppressed, pass, io,
                   kick_read, reset>>

\* A driver starts on fresh rings: queue_enable.
DriverSetup ==
    /\ reset_pc = "idle" /\ ~enabled /\ ~stop /\ pc \notin Locked
    /\ enabled' = TRUE
    /\ UNCHANGED <<ring, driver, kick, irq, last, generation, stop, in_flight, pc, slab,
                   want_drain, notify_suppressed, pass, io, kick_read, reset>>

-----------------------------------------------------------------------------
(* Device reset and teardown *)

\* Mutant: the queue stays enabled.
ResetWrite_enabled ==
    /\ ~stop /\ reset_pc = "idle" /\ pc \notin Locked
    /\ generation < MaxResets
    /\ generation' = generation + 1
    /\ last' = 0
    /\ reset_pc' = "waiting"
    /\ drv_pc' = "idle" /\ owned' = {} /\ last_used' = 0 /\ notified_at' = 0
    /\ avail_ring' = FreshRing /\ used_ring' = FreshRing
    /\ avail_idx' = 0 /\ used_idx' = 0 /\ used_event' = 0 /\ avail_event' = 0
    /\ no_interrupt' = FALSE /\ no_notify' = FALSE
    /\ UNCHANGED <<enabled, kick, irq, stop, in_flight, pc, slab, want_drain,
                   notify_suppressed, pass, io, kick_read, gave_up>>

\* A zero written to the status register: under the queue's lock, a new
\* generation and a QState in its initial state.  The vCPU then waits.  The
\* rings go back to the guest, so the memory the next driver will use for its
\* own is cleared here: a late write by the device would show in it.
ResetWrite ==
    /\ ~stop /\ reset_pc = "idle" /\ pc \notin Locked
    /\ generation < MaxResets
    /\ generation' = generation + 1
    /\ enabled' = FALSE
    /\ last' = 0
    /\ reset_pc' = "waiting"
    /\ drv_pc' = "idle" /\ owned' = {} /\ last_used' = 0 /\ notified_at' = 0
    /\ avail_ring' = FreshRing /\ used_ring' = FreshRing
    /\ avail_idx' = 0 /\ used_idx' = 0 /\ used_event' = 0 /\ avail_event' = 0
    /\ no_interrupt' = FALSE /\ no_notify' = FALSE
    /\ UNCHANGED <<kick, irq, stop, in_flight, pc, slab, want_drain,
                   notify_suppressed, pass, io, kick_read, gave_up>>

\* Mutants: the reset does not wait for what is outstanding; the wait has no
\* deadline.
ResetReturns_at_once ==
    /\ reset_pc = "waiting"
    /\ reset_pc' = "idle"
    /\ UNCHANGED <<ring, driver, kick, irq, queue, in_flight, pc, slab, want_drain,
                   notify_suppressed, pass, io, kick_read, gave_up>>

ResetReturns_no_deadline ==
    /\ reset_pc = "waiting" /\ in_flight = 0
    /\ reset_pc' = "idle"
    /\ gave_up' = FALSE
    /\ UNCHANGED <<ring, driver, kick, irq, queue, in_flight, pc, slab, want_drain,
                   notify_suppressed, pass, io, kick_read>>

\* wait_for_in_flight returns: nothing is outstanding, or the two-second
\* deadline has passed.
ResetReturns ==
    /\ reset_pc = "waiting"
    /\ reset_pc' = "idle"
    /\ gave_up' = (in_flight > 0)
    /\ UNCHANGED <<ring, driver, kick, irq, queue, in_flight, pc, slab, want_drain,
                   notify_suppressed, pass, io, kick_read>>

\* The device is dropped because setting up the VM failed after it was built;
\* no guest has run.  (The VMM leaves a running guest with process::exit.)
Drop ==
    /\ ~enabled /\ generation = 0 /\ ~stop
    /\ stop' = TRUE
    /\ kick' = TRUE
    /\ UNCHANGED <<ring, driver, irq, enabled, last, generation, in_flight, pc, slab,
                   want_drain, notify_suppressed, pass, io, kick_read, reset>>

-----------------------------------------------------------------------------
Init ==
    /\ avail_ring = FreshRing /\ used_ring = FreshRing
    /\ avail_idx = 0 /\ used_idx = 0 /\ used_event = 0 /\ avail_event = 0
    /\ no_interrupt = FALSE /\ no_notify = FALSE
    /\ drv_pc = "idle" /\ owned = {} /\ last_used = 0 /\ notified_at = 0
    /\ kick = FALSE /\ irq = FALSE
    /\ enabled = FALSE /\ last = 0 /\ generation = 0 /\ in_flight = 0 /\ stop = FALSE
    /\ pc = "run" /\ slots = Empty
    /\ free = [i \in 1 .. Depth |-> Depth - i]
    /\ want_drain = TRUE /\ notify_suppressed = FALSE
    /\ kicked = FALSE /\ used = FALSE /\ batch_start = 0
    /\ io = [t \in Tokens |-> "none"] /\ kick_read = "none"
    /\ reset_pc = "idle" /\ gave_up = FALSE

\* The worker thread is gone and the rest of the system may rest.
Ended == pc \in {"exited", "failed"} /\ UNCHANGED vars

KernelStep == KernelReadKick \/ \E t \in Tokens : KernelComplete(t)

DriverStep ==
    \/ DriverKick \/ DriverInterrupt \/ DriverReap \/ DriverRearm \/ DriverRecheck

Next ==
    \/ WorkerStep \/ EngineFails
    \/ KernelStep
    \/ DriverStep \/ DriverSetup \/ \E h \in Heads : DriverAdd(h)
    \/ ResetWrite \/ ResetReturns \/ Drop \/ Ended

Spec == Init /\ [][Next]_vars

\* The threads are scheduled, the kernel completes what it was given, and the
\* driver finishes what it starts.  Nobody has to add a request or reset.
Fairness ==
    /\ WF_vars(WorkerStep)
    /\ WF_vars(KernelReadKick)
    /\ \A t \in Tokens : WF_vars(KernelComplete(t))
    /\ WF_vars(DriverKick)
    /\ WF_vars(DriverInterrupt)
    /\ WF_vars(DriverReap \/ DriverRearm \/ DriverRecheck)
    /\ WF_vars(ResetReturns)

FairSpec == Spec /\ Fairness

-----------------------------------------------------------------------------
(* Properties *)

TypeOK ==
    /\ avail_ring \in [0 .. QSize - 1 -> Heads \cup {NoHead}]
    /\ used_ring \in [0 .. QSize - 1 -> Heads \cup {NoHead}]
    /\ {avail_idx, used_idx, used_event, avail_event, last, last_used, notified_at,
        batch_start} \subseteq Index
    /\ {no_interrupt, no_notify, kick, irq, enabled, stop, want_drain, notify_suppressed,
        kicked, used, gave_up} \subseteq BOOLEAN
    /\ drv_pc \in {"idle", "reaping", "rechecking"}
    /\ owned \subseteq Heads
    /\ generation \in 0 .. MaxResets
    /\ in_flight \in 0 .. Depth
    /\ pc \in WorkerPc
    /\ DOMAIN slots \subseteq Tokens
    /\ \A t \in DOMAIN slots : slots[t] \in Slot
    /\ free \in Seq(Tokens)
    /\ io \in [Tokens -> JobState]
    /\ kick_read \in {"none", "kernel", "cq"}
    /\ reset_pc \in {"idle", "waiting"}

\* The slab is conserved: at every moment a token is on the free list exactly
\* once or names exactly one parked request, and the engine works on exactly
\* the parked ones.  A token lost to a reset, an error or a stale completion
\* would shrink the queue for good; one freed twice would put two requests
\* under one completion.
SlabConserved ==
    /\ IsInjective(free)
    /\ \A t \in Tokens : t \in Range(free) <=> t \notin DOMAIN slots
    /\ \A t \in Tokens : io[t] # "none" <=> t \in DOMAIN slots

\* A submission can never find the submission queue full: resubmissions reuse
\* what their completion freed and room() holds an entry back for the kick.
\* While a live worker waits, the kick read is with the kernel, so it hears
\* the next kick however busy the queue is.
RoomForKick ==
    /\ pc \in Locked => ~sq_full
    /\ pc \in {"poll", "peek", "blocked"} /\ Engine = "uring" => kick_read \in {"kernel", "cq"}

\* The entries of the used ring not yet reaped that name a head.
Answered(h) == {k \in 0 .. wrapping_sub(used_idx, last_used) - 1 :
                    used_ring[wrapping_add(last_used, k) % QSize] = h}

\* Once the write that resets the device has returned, and unless it gave up at
\* its deadline, the worker holds no request of an earlier driver: nothing the
\* kernel still has can write into the next driver's memory.
QuietAfterReset ==
    reset_pc = "idle" /\ ~gave_up =>
        \A t \in DOMAIN slots : slots[t].generation = generation

\* What a vCPU that has the queue's lock reads as in_flight is exactly the number
\* of requests parked in the slab: every pass that changes it publishes it
\* before it unlocks, the pass over a disabled queue included.
InFlightExact == pc \notin Locked => in_flight = Depth - Len(free)

\* No kick is lost: a worker asleep, with nothing on its way to wake it, has
\* not left a request in the ring that the driver is done announcing.
NoLostKick ==
    pc = "blocked" /\ enabled /\ has_avail /\ notified_at = avail_idx =>
        \/ kick \/ kick_read = "cq"
        \/ want_drain /\ DOMAIN slots # {}

\* No interrupt is lost: a driver out of its handler with answers in the used
\* ring has an interrupt pending, or the worker has yet to decide on it.
NoLostInterrupt ==
    enabled /\ drv_pc = "idle" /\ used_idx # last_used =>
        irq \/ (pc \in Locked /\ used)

\* Both sides are woken: no kick and no interrupt is lost, and there is always
\* room to listen for the next kick.
WakeUpsArrive == NoLostKick /\ NoLostInterrupt /\ RoomForKick

\* The queue implements BlkService: seen from the driver, each of its steps
\* starts or resets the queue, moves one chain one place on, or nothing.
Service == INSTANCE BlkService WITH
    up <- enabled,
    chain <- [h \in Heads |-> IF h \notin owned THEN "driver"
                              ELSE IF Answered(h) # {} THEN "ring" ELSE "device"]
ImplementsService == Service!Spec

\* Liveness: every chain the driver posts comes back to it (or the driver
\* resets the device), through full engines, resubmissions and suppression,
\* unless the engine fails and takes the worker with it.
Served == \A h \in Heads : h \in owned ~> h \notin owned \/ pc = "failed"

\* Liveness: the write that resets the device returns even if the engine has
\* died with requests outstanding.
ResetEnds == reset_pc = "waiting" ~> reset_pc = "idle"

\* Liveness: the join in Drop ends, whatever the worker was waiting for.
DropEnds == stop ~> pc \in {"exited", "failed"}

\* Liveness: nobody waits on the worker for ever, neither the driver for a
\* chain, nor the vCPU that resets the device, nor the thread that drops it.
WaitsEnd == Served /\ ResetEnds /\ DropEnds
=============================================================================
