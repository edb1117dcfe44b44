------------------------------ MODULE GpuFence ------------------------------
(***************************************************************************)
(* The virtio-gpu control queue and its fences: the worker thread          *)
(* (gpu/worker.rs), the fence state it shares with the renderer's callback *)
(* threads (gpu/virtio_gpu.rs) and the device that starts it and joins it  *)
(* (gpu/device.rs).                                                        *)
(*                                                                         *)
(* What a command does to pixels or memory is left out; what it does to    *)
(* contexts and fences is not.  The three locks (fence_state, ctl, msix)   *)
(* are never nested, so every critical section is one step and any other   *)
(* thread may run between two of them.                                     *)
(***************************************************************************)
EXTENDS Naturals, Sequences, FiniteSets, Functions

CONSTANTS
  Heads,      \* descriptor chains of the control queue
  NoHead,
  Ctxs,       \* rendering contexts
  RingIdx,    \* timelines of a context
  MaxFence,   \* fences on one timeline in the life of its context
  MaxGlobal,  \* fences on the global timeline between two resets
  Odd,        \* the driver also posts chains that cannot be read or answered
  Faults      \* the renderer may refuse to start, or refuse a context or fence

ASSUME GpuFenceAssumption ==
  /\ IsFiniteSet(Heads) /\ NoHead \notin Heads
  /\ IsFiniteSet(Ctxs) /\ IsFiniteSet(RingIdx)
  /\ MaxFence \in Nat /\ MaxGlobal \in 0..MaxFence
  /\ Odd \in BOOLEAN /\ Faults \in BOOLEAN

\* VirtioGpuRing: the global timeline, or one of a context's.
Global == <<>>
Timelines(ctxs) == {Global} \cup (ctxs \X RingIdx)
Rings == Timelines(Ctxs)
RingsOf(c) == {c} \X RingIdx

\* A posted command.  fence = 0: no VIRTIO_GPU_FLAG_FENCE.  "silent": no
\* writable descriptor; "broken": no Reader or Writer can be made.
Command ==
  [kind : {"create", "destroy"}, ctx : Ctxs, ring : {Global}, fence : 0..MaxFence,
   form : {"ok"}]
  \cup
  [kind : {"submit"}, ring : Rings, fence : 0..MaxFence,
   form : {"ok", "silent", "broken"}]

VARIABLES
  \* the driver and the memory it shares with the device
  avail,      \* posted chains not yet taken
  used,       \* chains given back and not yet reaped
  owned,      \* chains the driver has posted and not reaped
  cmd,        \* what a posted chain asks for
  owe_kick,   \* the driver has posted and not yet rung the doorbell
  open,       \* contexts the driver considers created
  seq,        \* last fence id the driver used on a timeline
  \* the device
  kick,       \* the doorbell eventfd is readable
  irq,        \* an interrupt is on its way to the driver
  stop,       \* Inner.stop
  worker,     \* Inner.worker is Some
  vcpu,       \* where the vCPU writing the status register is
  \* the worker thread
  pc, hand, completed, orphaned,
  \* FenceState, shared by the worker and the callbacks
  descs, completed_fences,
  \* the renderer
  contexts,   \* contexts that exist
  pending,    \* fences created and not reached
  owed,       \* fences reached whose callback has not started
  callback    \* per timeline: the callback's position and what it extracted

driver == <<avail, used, owned, cmd, owe_kick, open, seq>>
device == <<kick, irq, stop, worker, vcpu>>
thread == <<pc, hand, completed, orphaned>>
fences == <<descs, completed_fences>>
renderer == <<contexts, pending, owed, callback>>
vars == <<driver, device, thread, fences, renderer>>

Idle == [at |-> "idle", done |-> {}]
NoCommand == [kind |-> "none"]

Init ==
  /\ avail = <<>> /\ used = <<>> /\ owned = {} /\ cmd = [h \in Heads |-> NoCommand]
  /\ owe_kick = FALSE /\ open = {} /\ seq = [r \in Rings |-> 0]
  /\ kick = FALSE /\ irq = FALSE /\ stop = FALSE /\ worker = FALSE /\ vcpu = "run"
  /\ pc = "dead" /\ hand = NoHead /\ completed = <<>> /\ orphaned = {}
  /\ descs = {} /\ completed_fences = [r \in Rings |-> 0]
  /\ contexts = {} /\ pending = {} /\ owed = {} /\ callback = [r \in Rings |-> Idle]

(***************************************************************************)
(* The driver (external) and the vCPU writing the status register.         *)
(***************************************************************************)

\* DRIVER_OK.  The worker thread builds the renderer first; when that fails
\* it returns at once and the device answers nothing.
activate ==
  /\ vcpu = "run" /\ ~worker
  /\ worker' = TRUE
  /\ \/ pc' = "spin"
     \/ Faults /\ pc' = "dead"
  /\ UNCHANGED <<driver, kick, irq, stop, vcpu, hand, completed, orphaned, fences, renderer>>

Posts(h, c) ==
  /\ worker /\ vcpu = "run" /\ h \notin owned
  /\ owned' = owned \cup {h}
  /\ cmd' = [cmd EXCEPT ![h] = c]
  /\ avail' = Append(avail, h)
  /\ owe_kick' = TRUE
  /\ UNCHANGED <<used, device, thread, fences, renderer>>

Forms == IF Odd THEN {"ok", "silent", "broken"} ELSE {"ok"}

\* A command that touches no context, fenced or not, on an open timeline.  What
\* timeline an odd chain names makes no difference.
DriverSubmit(h) == \E r \in Timelines(open), f \in BOOLEAN, form \in Forms :
  /\ f => seq[r] < IF r = Global THEN MaxGlobal ELSE MaxFence
  /\ form # "ok" => r = Global
  /\ seq' = IF f THEN [seq EXCEPT ![r] = @ + 1] ELSE seq
  /\ Posts(h, [kind |-> "submit", ring |-> r, fence |-> IF f THEN seq'[r] ELSE 0,
               form |-> form])
  /\ UNCHANGED open

\* Context ids are reused, and the fence ids of their timelines start over.
DriverContext(h) == \E c \in Ctxs :
  /\ open' = IF c \in open THEN open \ {c} ELSE open \cup {c}
  /\ seq' = [r \in Rings |-> IF r \in RingsOf(c) THEN 0 ELSE seq[r]]
  /\ Posts(h, [kind |-> IF c \in open THEN "destroy" ELSE "create", ctx |-> c,
               ring |-> Global, fence |-> 0, form |-> "ok"])

\* A doorbell write: KVM signals the eventfd, or bar0_write does.
DriverKick ==
  /\ owe_kick /\ vcpu = "run"
  /\ owe_kick' = FALSE /\ kick' = TRUE
  /\ UNCHANGED <<avail, used, owned, cmd, open, seq, irq, stop, worker, vcpu, thread, fences, renderer>>

DriverReap ==
  /\ irq /\ vcpu = "run"
  /\ irq' = FALSE
  /\ owned' = owned \ Range(used)
  /\ cmd' = [h \in Heads |-> IF h \in Range(used) THEN NoCommand ELSE cmd[h]]
  /\ used' = <<>>
  /\ UNCHANGED <<avail, owe_kick, open, seq, kick, stop, worker, vcpu, thread, fences, renderer>>

\* Status 0: the flag, then the doorbell, then the join.  By the time the
\* write returns the driver has forgotten every chain.
reset ==
  /\ vcpu = "run" /\ worker
  /\ stop' = TRUE /\ vcpu' = "ring"
  /\ UNCHANGED <<driver, kick, irq, worker, thread, fences, renderer>>

\* Mutant: the flag is set and the doorbell is not rung.
ResetRings_silently ==
  /\ vcpu = "ring"
  /\ vcpu' = "join"
  /\ UNCHANGED <<driver, kick, irq, stop, worker, thread, fences, renderer>>

ResetRings ==
  /\ vcpu = "ring"
  /\ kick' = TRUE /\ vcpu' = "join"
  /\ UNCHANGED <<driver, irq, stop, worker, thread, fences, renderer>>

Joined ==
  /\ stop' = FALSE /\ worker' = FALSE /\ vcpu' = "run"
  /\ avail' = <<>> /\ used' = <<>> /\ owned' = {} /\ cmd' = [h \in Heads |-> NoCommand]
  /\ owe_kick' = FALSE /\ open' = {} /\ seq' = [r \in Rings |-> 0] /\ irq' = FALSE
  /\ UNCHANGED <<kick, thread, fences, renderer>>

ResetJoins == vcpu = "join" /\ pc = "dead" /\ Joined

(***************************************************************************)
(* The worker: wait.                                                       *)
(***************************************************************************)

Goes(from, to) == pc = from /\ pc' = to

\* The look at the ring.
SpinSees ==
  /\ Goes("spin", "read")
  /\ avail # <<>> \/ stop
  /\ UNCHANGED <<driver, device, hand, completed, orphaned, fences, renderer>>

\* The deadline has passed since the last look, or poll_us is zero.
SpinEnds ==
  /\ Goes("spin", "sleep")
  /\ UNCHANGED <<driver, device, hand, completed, orphaned, fences, renderer>>

Polled ==
  /\ Goes("sleep", "read") /\ kick
  /\ UNCHANGED <<driver, device, hand, completed, orphaned, fences, renderer>>

\* poll was interrupted: wait returns with the doorbell unread.
PollInterrupted ==
  /\ Goes("sleep", "woken")
  /\ UNCHANGED <<driver, device, hand, completed, orphaned, fences, renderer>>

ReadKick ==
  /\ Goes("read", "woken")
  /\ kick' = FALSE
  /\ UNCHANGED <<driver, irq, stop, worker, vcpu, hand, completed, orphaned, fences, renderer>>

GoOn ==
  /\ Goes("woken", "pop") /\ ~stop
  /\ UNCHANGED <<driver, device, hand, completed, orphaned, fences, renderer>>

\* The loop ends; dropping VirtioGpu drops the fence state and the renderer,
\* which waits for its callbacks.
Exit ==
  /\ Goes("woken", "dead") /\ stop
  /\ \A r \in Rings : callback[r] = Idle
  /\ descs' = {} /\ completed_fences' = [r \in Rings |-> 0]
  /\ contexts' = {} /\ pending' = {} /\ owed' = {}
  /\ UNCHANGED <<driver, device, hand, completed, orphaned, callback>>

(***************************************************************************)
(* The worker: process_ctl_queue.                                          *)
(***************************************************************************)

\* pop_ctl, and the Reader and the Writer.
pop_ctl ==
  /\ pc = "pop" /\ avail # <<>>
  /\ avail' = Tail(avail)
  /\ IF cmd[Head(avail)].form = "broken"
     THEN completed' = Append(completed, Head(avail)) /\ UNCHANGED <<pc, hand>>
     ELSE hand' = Head(avail) /\ pc' = "execute" /\ UNCHANGED completed
  /\ UNCHANGED <<used, owned, cmd, owe_kick, open, seq, device, orphaned, fences, renderer>>

QueueEmpty ==
  /\ Goes("pop", "retire") /\ avail = <<>>
  /\ UNCHANGED <<driver, device, hand, completed, orphaned, fences, renderer>>

\* A command that leaves contexts and fences alone, whether it succeeds or not.
Execute ==
  /\ Goes("execute", "fence") /\ cmd[hand].kind = "submit"
  /\ UNCHANGED <<driver, device, hand, completed, orphaned, fences, renderer>>

create_context ==
  /\ Goes("execute", "fence") /\ cmd[hand].kind = "create"
  /\ \/ contexts' = contexts \cup {cmd[hand].ctx}
     \/ Faults /\ UNCHANGED contexts
  /\ UNCHANGED <<driver, device, hand, completed, orphaned, fences, pending, owed, callback>>

\* The renderer forgets the context's fences and calls back for none of them
\* afterwards; a context it does not have is an error.
destroy_context ==
  /\ pc = "execute" /\ cmd[hand].kind = "destroy"
  /\ LET c == cmd[hand].ctx
     IN IF c \in contexts
        THEN /\ \A r \in RingsOf(c) : callback[r] = Idle
             /\ pc' = "forget"
             /\ contexts' = contexts \ {c}
             /\ pending' = {p \in pending : p.ring \notin RingsOf(c)}
             /\ owed' = {p \in owed : p.ring \notin RingsOf(c)}
        ELSE pc' = "fence" /\ UNCHANGED <<contexts, pending, owed>>
  /\ UNCHANGED <<driver, device, hand, completed, orphaned, fences, callback>>

\* Takes the context's descriptors out of the fence state; answers them when
\* there are any.
Orphan(rings, marks) ==
  /\ pc = "forget"
  /\ completed_fences' = marks
  /\ orphaned' = {d.head : d \in {e \in descs : e.ring \in rings}}
  /\ descs' = {d \in descs : d.ring \notin rings}
  /\ pc' = IF orphaned' = {} THEN "fence" ELSE "orphans"
  /\ UNCHANGED <<driver, device, hand, completed, renderer>>

\* Mutant: the timelines of a destroyed context keep their marks.
retire_context_fences_keeps == Orphan(RingsOf(cmd[hand].ctx), completed_fences)

\* Mutant: descriptors waiting on a destroyed context are left waiting.
retire_context_fences_leaves ==
  /\ Goes("forget", "fence")
  /\ completed_fences' = [r \in Rings |-> IF r \in RingsOf(cmd[hand].ctx) THEN 0
                                                                   ELSE completed_fences[r]]
  /\ UNCHANGED <<driver, device, hand, completed, orphaned, descs, renderer>>

retire_context_fences ==
  LET rings == RingsOf(cmd[hand].ctx)
  IN Orphan(rings, [r \in Rings |-> IF r \in rings THEN 0 ELSE completed_fences[r]])

\* A batch of chains goes to the used ring in the order of the descs vector,
\* of which only the members are kept here: in any order.
Orders(S) == UNION {Bijection(1..n, S) : n \in 0..Cardinality(S)}

\* complete_ctl for the orphans: the used ring under ctl, then the interrupt.
AnswerOrphans ==
  /\ Goes("orphans", "orphans_irq")
  /\ \E batch \in Orders(orphaned) : used' = used \o batch
  /\ orphaned' = {}
  /\ UNCHANGED <<avail, owned, cmd, owe_kick, open, seq, device, hand, completed, fences, renderer>>

InterruptOrphans ==
  /\ Goes("orphans_irq", "fence")
  /\ irq' = TRUE
  /\ UNCHANGED <<driver, kick, stop, worker, vcpu, hand, completed, orphaned, fences, renderer>>

\* The command in hand is done with: another one is popped.
Answer ==
  /\ completed' = Append(completed, hand)
  /\ hand' = NoHead /\ pc' = "pop"

\* No writable descriptor, or no fence asked for.
Unfenced ==
  /\ pc = "fence"
  /\ cmd[hand].form = "silent" \/ cmd[hand].fence = 0
  /\ Answer
  /\ UNCHANGED <<driver, device, orphaned, fences, renderer>>

InHand == [head |-> hand, ring |-> cmd[hand].ring, id |-> cmd[hand].fence]

CanFence(r) == r \in Timelines(contexts)

create_fence ==
  /\ Goes("fence", "process")
  /\ cmd[hand].form # "silent" /\ cmd[hand].fence # 0 /\ CanFence(cmd[hand].ring)
  /\ pending' = pending \cup {InHand}
  /\ UNCHANGED <<driver, device, hand, completed, orphaned, fences, contexts, owed, callback>>

\* A fence that was not created will not signal: answered with the error.
CreateFenceFails ==
  /\ pc = "fence"
  /\ cmd[hand].form # "silent" /\ cmd[hand].fence # 0
  /\ Faults \/ ~CanFence(cmd[hand].ring)
  /\ Answer
  /\ UNCHANGED <<driver, device, orphaned, fences, renderer>>

Track ==
  /\ descs' = descs \cup {InHand}
  /\ hand' = NoHead /\ pc' = "pop"
  /\ UNCHANGED completed

process_fence ==
  /\ pc = "process"
  /\ IF InHand.id <= completed_fences[InHand.ring]
     THEN Answer /\ UNCHANGED descs
     ELSE Track
  /\ UNCHANGED <<driver, device, orphaned, completed_fences, renderer>>

\* complete_ctl for the whole pass, when it produced anything.
Retire ==
  /\ pc = "retire"
  /\ used' = used \o completed /\ completed' = <<>>
  /\ pc' = IF completed = <<>> THEN "spin" ELSE "notify"
  /\ UNCHANGED <<avail, owned, cmd, owe_kick, open, seq, device, hand, orphaned, fences, renderer>>

Notify ==
  /\ Goes("notify", "spin")
  /\ irq' = TRUE
  /\ UNCHANGED <<driver, kick, stop, worker, vcpu, hand, completed, orphaned, fences, renderer>>

(***************************************************************************)
(* The renderer (external) and the fence handler it calls.                 *)
(***************************************************************************)

\* The work before a fence is done, and so is what precedes it on its timeline.
Reach(r) == \E p \in pending :
  LET reached == {q \in pending : q.ring = r /\ q.id <= p.id}
  IN /\ p.ring = r
     /\ pending' = pending \ reached
     /\ owed' = owed \cup reached
     /\ UNCHANGED <<driver, device, thread, fences, contexts, callback>>

Larger(m, n) == IF m < n THEN n ELSE m

\* The handler under fence_state: every descriptor at or before the fence
\* leaves the list.
Handle(q, mark) ==
  LET out == {d \in descs : d.ring = q.ring /\ d.id <= q.id}
  IN /\ callback[q.ring] = Idle
     /\ owed' = owed \ {q}
     /\ descs' = descs \ out
     /\ completed_fences' = [completed_fences EXCEPT ![q.ring] = mark]
     /\ callback' = IF out = {} THEN callback
                    ELSE [callback EXCEPT ![q.ring] = [at |-> "push", done |-> {d.head : d \in out}]]
     /\ UNCHANGED <<driver, device, thread, contexts, pending>>

\* Mutant: the mark follows the callbacks, backwards too.
FenceHandler_latest(r) == \E q \in owed : q.ring = r /\ Handle(q, q.id)

\* Callbacks of one timeline come one at a time and in any order.
FenceHandler(r) == \E q \in owed :
  q.ring = r /\ Handle(q, Larger(completed_fences[r], q.id))

\* complete_ctl on the callback's thread.
CallbackPush(r) ==
  /\ callback[r].at = "push"
  /\ \E batch \in Orders(callback[r].done) : used' = used \o batch
  /\ callback' = [callback EXCEPT ![r] = [at |-> "irq", done |-> {}]]
  /\ UNCHANGED <<avail, owned, cmd, owe_kick, open, seq, device, thread, fences, contexts, pending, owed>>

CallbackInterrupt(r) ==
  /\ callback[r].at = "irq"
  /\ irq' = TRUE
  /\ callback' = [callback EXCEPT ![r] = Idle]
  /\ UNCHANGED <<driver, kick, stop, worker, vcpu, thread, fences, contexts, pending, owed>>

(***************************************************************************)
(* The specification.                                                      *)
(***************************************************************************)

Work ==
  \/ SpinSees \/ SpinEnds \/ Polled \/ ReadKick \/ GoOn \/ Exit
  \/ pop_ctl \/ QueueEmpty \/ Execute \/ create_context \/ destroy_context
  \/ retire_context_fences \/ AnswerOrphans \/ InterruptOrphans
  \/ Unfenced \/ create_fence \/ CreateFenceFails \/ process_fence
  \/ Retire \/ Notify

Callback(r) == FenceHandler(r) \/ CallbackPush(r) \/ CallbackInterrupt(r)

Next ==
  \/ activate \/ reset \/ ResetRings \/ ResetJoins
  \/ DriverKick \/ DriverReap
  \/ \E h \in Heads : DriverSubmit(h) \/ DriverContext(h)
  \/ Work \/ PollInterrupted
  \/ \E r \in Rings : Reach(r) \/ Callback(r)

Spec == Init /\ [][Next]_vars

\* The threads are scheduled, the renderer gets its work done and calls back,
\* the driver rings after posting and reaps after an interrupt.
FairSpec ==
  /\ Spec
  /\ WF_vars(Work) /\ WF_vars(ResetRings \/ ResetJoins)
  /\ WF_vars(DriverKick) /\ WF_vars(DriverReap)
  /\ \A r \in Rings : WF_vars(Reach(r)) /\ WF_vars(Callback(r))

(***************************************************************************)
(* Properties.                                                             *)
(***************************************************************************)

Answered ==
  Range(used) \cup Range(completed) \cup orphaned
  \cup UNION {callback[r].done : r \in Rings}

Times(h, s) == Cardinality({i \in DOMAIN s : s[i] = h})
OneIf(b) == IF b THEN 1 ELSE 0

\* Where a chain is: in a ring, in the worker's hand or lists, waiting on a
\* fence, or with a callback.
Places(h) ==
  Times(h, avail) + Times(h, used) + Times(h, completed)
  + OneIf(hand = h) + OneIf(h \in orphaned)
  + Cardinality({d \in descs : d.head = h})
  + Cardinality({r \in Rings : h \in callback[r].done})

\* While a worker lives, a chain the driver has posted is in exactly one place,
\* whichever thread is to answer it, and a chain it has not posted is nowhere:
\* the worker, destroy_context and the fence handler never answer the same
\* chain, and nothing of an earlier activation survives the join in reset.
ExactlyOnce ==
  pc # "dead" => \A h \in Heads : Places(h) = OneIf(h \in owned)

\* A fenced command is not answered before its fence is reached, unless its
\* context is destroyed: process_fence never takes a mark of an earlier life of
\* the context for a mark of this one.
NotEarly == \A p \in pending : p.head \in owned \ Answered

\* Every descriptor in FenceState still has a callback to come that will extract
\* it, although create_fence and process_fence are two steps and callbacks may
\* run between them and out of order; or destroy_context is about to answer it.
NotStranded == \A d \in descs :
  \/ d \in pending
  \/ \E q \in owed : q.ring = d.ring /\ q.id >= d.id
  \/ pc = "forget" /\ d.ring \in RingsOf(cmd[hand].ctx)

\* Every chain is accounted for: in one place, and on its way back from it.
ChainsAccounted == ExactlyOnce /\ NotStranded

\* Every posted command comes back, fenced or not, readable or not, also when
\* its context is destroyed first or the device is reset; the exception is a
\* worker whose renderer did not start.
Served == \A h \in Heads :
  h \in owned ~> h \notin owned \/ (worker /\ pc = "dead")

\* reset returns: the worker it joins sees the flag although it may be asleep on
\* the doorbell, in a pass, or waiting for the renderer.
JoinReturns == vcpu # "run" ~> vcpu = "run"
=============================================================================
