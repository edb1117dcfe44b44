------------------------------- MODULE GpuMap -------------------------------
(***************************************************************************)
(* Blob resources in the GPU's host-visible window: the map, unmap and     *)
(* unref handlers (gpu/virtio_gpu.rs), the quota (gpu/window.rs) and the   *)
(* memory slots behind BAR2 (vmm/src/memslot.rs).                          *)
(*                                                                         *)
(* One worker runs the handlers, so they do not interleave with each       *)
(* other; but the guest can touch the window at any moment, so a handler   *)
(* is one step for each change of what the guest or the renderer has.  A   *)
(* command that is refused before it changed anything is no step.          *)
(* Addresses are offsets into BAR2, in pages.                              *)
(***************************************************************************)
EXTENDS Naturals, Sequences, FiniteSets, FiniteSetsExt, Functions

CONSTANTS
  Res,        \* resource ids
  NoRes,
  Sizes,      \* sizes of blobs
  WinSize,    \* SHM_SIZE
  Limits,     \* pairs of limit_bytes and max_mappings, 0 for none
  Scanouts,
  FirstSlot,  \* first memory slot past guest RAM
  MaxLife,    \* activations
  MapFaults      \* system calls and the renderer may fail where they should not

ASSUME GpuMapAssumption ==
  /\ IsFiniteSet(Res) /\ NoRes \notin Res
  /\ WinSize \in Nat \ {0} /\ Sizes \subseteq Nat \ {0}
  /\ Limits \subseteq Nat \X Nat
  /\ IsFiniteSet(Scanouts)
  /\ FirstSlot \in Nat /\ MaxLife \in Nat /\ MapFaults \in BOOLEAN

Pages == 0..(WinSize - 1)
Unmapped == WinSize  \* shmem_offset: None

VARIABLES
  \* VirtioGpu
  resources,   \* VirtioGpuResource of every id
  used_bytes,        \* WindowQuota
  mappings,
  limits,
  scanouts,    \* what each scanout shows
  request,         \* the handler under way
  running,     \* there is a worker
  life,        \* activations so far
  \* MemorySlots
  window,      \* open_window succeeded
  next_slot,
  mapped,      \* the slot at a guest address
  free,
  \* the host
  kvm,         \* registered memory slots
  contents,    \* what is placed on each page of the reservation
  objs,        \* the renderer's resources
  host_mapped  \* those it has mapped for us (res->mapped)

quota == <<used_bytes, mappings>>
slotvars == <<next_slot, mapped, free, kvm>>
gpuvars == <<resources, scanouts, limits, running, life, window>>
mapVars == <<gpuvars, quota, request, slotvars, contents, objs, host_mapped>>

\* Host memory: the PROT_NONE reservation, or a resource of one activation.
Reservation == [res |-> NoRes, life |-> 0]
Owner(r) == [res |-> r, life |-> life]

NoRequest == [pc |-> "idle"]

IsMapped(r) == resources[r].shmem_offset # Unmapped
Mapped == {r \in DOMAIN resources : IsMapped(r)}
PagesOf(r) == {p \in Pages : resources[r].shmem_offset <= p
                              /\ p < resources[r].shmem_offset + resources[r].size}

-----------------------------------------------------------------------------
(* Memory slots *)

\* KVM refuses a slot that overlaps another.
Overlaps(at, len) == \E k \in kvm : k.at < at + len /\ at < k.at + k.len

\* The number the next slot gets: a recycled one first.
Candidate == IF free = <<>> THEN next_slot ELSE free[Len(free)]
Pop == IF free = <<>> THEN next_slot' = next_slot + 1 /\ UNCHANGED free
                      ELSE free' = SubSeq(free, 1, Len(free) - 1) /\ UNCHANGED next_slot

\* MemorySlots::map
MapSlot(at, len, mem) ==
  /\ at \notin DOMAIN mapped /\ ~Overlaps(at, len)
  /\ Pop
  /\ kvm' = kvm \cup {[slot |-> Candidate, at |-> at, len |-> len, mem |-> mem]}
  /\ mapped' = [a \in DOMAIN mapped \cup {at} |-> IF a = at THEN Candidate ELSE mapped[a]]

\* Mutant: the number is not given back.
GiveBack_lost == Pop

\* The number is given back.
GiveBack ==
  IF free = <<>> THEN next_slot' = next_slot + 1 /\ free' = <<next_slot>>
                 ELSE UNCHANGED <<next_slot, free>>

MapSlotFails(at, len) ==
  /\ \/ at \in DOMAIN mapped /\ UNCHANGED <<next_slot, free>>
     \/ at \notin DOMAIN mapped /\ (MapFaults \/ Overlaps(at, len)) /\ GiveBack
  /\ UNCHANGED <<kvm, mapped>>

\* MemorySlots::unmap: the record goes first, whether or not KVM agrees.
UnmapSlot(at) ==
  /\ at \in DOMAIN mapped
  /\ kvm' = {k \in kvm : k.slot # mapped[at]}
  /\ mapped' = [a \in DOMAIN mapped \ {at} |-> mapped[a]]
  /\ free' = Append(free, mapped[at])
  /\ UNCHANGED next_slot

UnmapSlotFails(at) ==
  /\ \/ at \notin DOMAIN mapped /\ UNCHANGED mapped
     \/ at \in DOMAIN mapped /\ MapFaults
        /\ mapped' = [a \in DOMAIN mapped \ {at} |-> mapped[a]]
  /\ UNCHANGED <<next_slot, free, kvm>>

-----------------------------------------------------------------------------
(* The quota *)

\* WindowQuota::try_map; bytes are looked at first, each limit only if set.
Fits(size) ==
  /\ limits[1] = 0 \/ used_bytes + size <= limits[1]
  /\ limits[2] = 0 \/ mappings < limits[2]
try_map(size) == Fits(size) /\ used_bytes' = used_bytes + size /\ mappings' = mappings + 1

saturating_sub(a, b) == IF a < b THEN 0 ELSE a - b
release(size) ==
  /\ used_bytes' = saturating_sub(used_bytes, size)
  /\ mappings' = saturating_sub(mappings, 1)

-----------------------------------------------------------------------------
(* resource_map_blob *)

\* The driver allocates offsets: a map does not ask for pages it has in use.
Unused(off, size) ==
  \A r \in Mapped : \A p \in PagesOf(r) : p < off \/ off + size <= p

\* Mutant: a resource that is mapped may be mapped again.
MapBlob_again(r, off) ==
  /\ running /\ request = NoRequest /\ r \in DOMAIN resources
  /\ Unused(off, resources[r].size)
  /\ try_map(resources[r].size)
  /\ request' = [pc |-> "info", res |-> r, off |-> off]
  /\ UNCHANGED <<gpuvars, slotvars, contents, objs, host_mapped>>

\* A resource that exists and is not mapped is charged.
MapBlob(r, off) ==
  /\ running /\ request = NoRequest /\ r \in DOMAIN resources
  /\ ~IsMapped(r)
  /\ Unused(off, resources[r].size)
  /\ try_map(resources[r].size)
  /\ request' = [pc |-> "info", res |-> r, off |-> off]
  /\ UNCHANGED <<gpuvars, slotvars, contents, objs, host_mapped>>

At(pc) == request.pc = pc
Size == resources[request.res].size
InRange == request.off + Size <= WinSize

\* map_info fails (it does for a resource that is no blob), or the range does not
\* fit.
MapRefused ==
  /\ At("info")
  /\ Size = 0 \/ MapFaults \/ ~InRange
  /\ release(Size)
  /\ request' = NoRequest
  /\ UNCHANGED <<gpuvars, slotvars, contents, objs, host_mapped>>

\* virgl_renderer_resource_map_fixed; the renderer keeps no record of it.
Place ==
  /\ At("info") /\ Size > 0 /\ InRange
  /\ window
  /\ contents' = [p \in Pages |-> IF request.off <= p /\ p < request.off + Size
                                  THEN Owner(request.res) ELSE contents[p]]
  /\ request' = [pc |-> "record", res |-> request.res, off |-> request.off, placed |-> TRUE]
  /\ UNCHANGED <<gpuvars, quota, slotvars, objs, host_mapped>>

\* No window, or the renderer will not place this resource: Rutabaga::map, which
\* may fail, and does for a resource the renderer still has mapped.
RendererMap ==
  /\ At("info") /\ Size > 0 /\ InRange
  /\ request.res \notin host_mapped
  /\ host_mapped' = host_mapped \cup {request.res}
  /\ request' = [request EXCEPT !.pc = "publish"]
  /\ UNCHANGED <<gpuvars, quota, slotvars, contents, objs>>

RendererMapFails ==
  /\ At("info") /\ Size > 0 /\ InRange
  /\ release(Size)
  /\ request' = NoRequest
  /\ UNCHANGED <<gpuvars, slotvars, contents, objs, host_mapped>>

\* Rutabaga::unmap, whose failure is logged only.
RendererUnmap(r) ==
  \/ host_mapped' = host_mapped \ {r}
  \/ MapFaults /\ UNCHANGED host_mapped

Publish ==
  /\ At("publish")
  /\ MapSlot(request.off, Size, Owner(request.res))
  /\ request' = [pc |-> "record", res |-> request.res, off |-> request.off, placed |-> FALSE]
  /\ UNCHANGED <<gpuvars, quota, contents, objs, host_mapped>>

\* The mapping is shorter than the resource, or gets no slot.
PublishFails ==
  /\ At("publish")
  /\ UNCHANGED slotvars \/ MapSlotFails(request.off, Size)
  /\ RendererUnmap(request.res)
  /\ release(Size)
  /\ request' = NoRequest
  /\ UNCHANGED <<gpuvars, contents, objs>>

Record ==
  /\ At("record")
  /\ resources' = [resources EXCEPT ![request.res] =
       [@ EXCEPT !.shmem_offset = request.off, !.placed = request.placed,
                 !.external = ~request.placed]]
  /\ request' = NoRequest
  /\ UNCHANGED <<quota, scanouts, limits, running, life, window, slotvars, contents,
                 objs, host_mapped>>

-----------------------------------------------------------------------------
(* resource_unmap_blob and unref_resource *)

\* MemorySlots::withdraw: the range is overwritten with the reservation.
Overwrite(r) ==
  contents' = [p \in Pages |-> IF p \in PagesOf(r) THEN Reservation ELSE contents[p]]

withdraw_mapping(r) ==
  \/ resources[r].placed /\ Overwrite(r) /\ UNCHANGED slotvars
  \/ ~resources[r].placed /\ UnmapSlot(resources[r].shmem_offset) /\ UNCHANGED contents

WithdrawFails(r) ==
  \/ resources[r].placed /\ MapFaults /\ UNCHANGED slotvars
  \/ ~resources[r].placed /\ UnmapSlotFails(resources[r].shmem_offset)

\* The guest loses its view first.
UnmapBlob(r) ==
  /\ running /\ request = NoRequest /\ r \in Mapped
  /\ withdraw_mapping(r)
  /\ request' = [pc |-> "unmap", res |-> r]
  /\ UNCHANGED <<gpuvars, quota, objs, host_mapped>>

\* Mutant: the renderer's mapping is released, the guest's is not.
Unref_first(r) ==
  /\ running /\ request = NoRequest /\ r \in DOMAIN resources
  /\ resources[r].scanouts = {}
  /\ request' = [pc |-> IF r \in Mapped THEN "unmap_unref" ELSE "unref", res |-> r]
  /\ UNCHANGED <<gpuvars, quota, contents, slotvars, objs, host_mapped>>

\* A resource on a scanout is not destroyed.
Unref(r) ==
  /\ running /\ request = NoRequest /\ r \in DOMAIN resources
  /\ resources[r].scanouts = {}
  /\ IF r \in Mapped
     THEN withdraw_mapping(r) /\ request' = [pc |-> "unmap_unref", res |-> r]
     ELSE request' = [pc |-> "unref", res |-> r] /\ UNCHANGED <<contents, slotvars>>
  /\ UNCHANGED <<gpuvars, quota, objs, host_mapped>>

\* Both handlers give up; the resource stays mapped.
WithdrawRefused(r) ==
  /\ running /\ request = NoRequest /\ r \in Mapped
  /\ WithdrawFails(r)
  /\ UNCHANGED <<gpuvars, quota, request, contents, objs, host_mapped>>

\* Then the renderer its mapping, and the quota is credited.
Unmapping ==
  /\ request.pc \in {"unmap", "unmap_unref"}
  /\ IF resources[request.res].external THEN RendererUnmap(request.res) ELSE UNCHANGED host_mapped
  /\ resources' = [resources EXCEPT ![request.res] =
       [@ EXCEPT !.shmem_offset = Unmapped, !.placed = FALSE, !.external = FALSE]]
  /\ release(Size)
  /\ request' = IF At("unmap") THEN NoRequest ELSE [pc |-> "unref", res |-> request.res]
  /\ UNCHANGED <<scanouts, limits, running, life, window, slotvars, contents, objs>>

\* Rutabaga::unref_resource; our record is gone either way.
Unreferencing ==
  /\ At("unref")
  /\ resources' = [r \in DOMAIN resources \ {request.res} |-> resources[r]]
  /\ \/ objs' = objs \ {request.res} /\ host_mapped' = host_mapped \ {request.res}
     \/ MapFaults /\ UNCHANGED <<objs, host_mapped>>
  /\ request' = NoRequest
  /\ UNCHANGED <<quota, scanouts, limits, running, life, window, slotvars, contents>>

-----------------------------------------------------------------------------
(* Creating and showing resources; activation and reset *)

\* resource_create_blob, and resource_create_3d with size 0.  The renderer
\* refuses an id it has.
Create(r, size) ==
  /\ running /\ request = NoRequest /\ r \notin objs
  /\ objs' = objs \cup {r}
  /\ resources' = [q \in DOMAIN resources \cup {r} |->
       IF q = r THEN [size |-> size, shmem_offset |-> Unmapped, placed |-> FALSE,
                      external |-> FALSE, scanouts |-> {}]
       ELSE resources[q]]
  /\ UNCHANGED <<quota, scanouts, limits, request, running, life, window, slotvars, contents,
                 host_mapped>>

\* The old resource leaves the scanout before the new one is looked up.
set_scanout(s, r) ==
  /\ running /\ request = NoRequest
  /\ resources' = [q \in DOMAIN resources |->
       [resources[q] EXCEPT !.scanouts =
          (@ \ (IF scanouts[s] = q THEN {s} ELSE {})) \cup (IF r = q THEN {s} ELSE {})]]
  /\ scanouts' = IF r = NoRes \/ r \in DOMAIN resources
                 THEN [scanouts EXCEPT ![s] = r] ELSE scanouts
  /\ UNCHANGED <<quota, limits, request, running, life, window, slotvars, contents, objs,
                 host_mapped>>

\* A worker starts with a VirtioGpu of its own.
activate_window ==
  /\ ~running
  /\ running' = TRUE /\ life' = life + 1
  /\ UNCHANGED <<resources, scanouts, limits, window, quota, request, slotvars, contents, objs,
                 host_mapped>>

\* The worker ends between two commands and drops its VirtioGpu and with it the
\* renderer.  The memory slots and the reservation belong to the VMM and stay.
reset_window ==
  /\ running /\ request = NoRequest /\ life < MaxLife
  /\ running' = FALSE
  /\ resources' = <<>> /\ used_bytes' = 0 /\ mappings' = 0
  /\ scanouts' = [s \in Scanouts |-> NoRes]
  /\ objs' = {} /\ host_mapped' = {}
  /\ UNCHANGED <<limits, life, window, request, slotvars, contents>>

\* open_window, at boot: it succeeds, gets no address space, or gets no slot.
open_window ==
  \/ /\ window = TRUE /\ next_slot = FirstSlot + 1 /\ free = <<>>
     /\ kvm = {[slot |-> FirstSlot, at |-> 0, len |-> WinSize, mem |-> Reservation]}
  \/ window = FALSE /\ next_slot = FirstSlot /\ free = <<>> /\ kvm = {}
  \/ window = FALSE /\ next_slot = FirstSlot + 1 /\ free = <<FirstSlot>> /\ kvm = {}

MapInit ==
  /\ resources = <<>> /\ used_bytes = 0 /\ mappings = 0 /\ limits \in Limits
  /\ scanouts = [s \in Scanouts |-> NoRes]
  /\ request = NoRequest /\ running = FALSE /\ life = 0
  /\ open_window /\ mapped = <<>>
  /\ contents = [p \in Pages |-> Reservation]
  /\ objs = {} /\ host_mapped = {}

MapNext ==
  \/ \E r \in Res : \/ \E size \in {0} \cup Sizes : Create(r, size)
                    \/ \E off \in Pages : MapBlob(r, off)
                    \/ UnmapBlob(r) \/ Unref(r) \/ WithdrawRefused(r)
  \/ \E s \in Scanouts, r \in Res \cup {NoRes} : set_scanout(s, r)
  \/ MapRefused \/ Place \/ RendererMap \/ RendererMapFails
  \/ Publish \/ PublishFails \/ Record
  \/ Unmapping \/ Unreferencing
  \/ activate_window \/ reset_window

MapSpec == MapInit /\ [][MapNext]_mapVars

-----------------------------------------------------------------------------
(* Properties *)

\* What the guest reaches at a page of BAR2; Reservation if nothing.
View(p) ==
  LET hit == {k \in kvm : k.at <= p /\ p < k.at + k.len}
  IN  IF hit = {} THEN Reservation
      ELSE LET k == CHOOSE k \in hit : TRUE
           IN  IF k.mem = Reservation THEN contents[p] ELSE k.mem

\* "The renderer's mapping must not be released while the guest can still reach
\* it": at every moment of every handler, what the guest reaches of this
\* activation belongs to a resource the renderer has, and what it reaches through a
\* slot of its own is mapped by the renderer.
NoDangling ==
  running => /\ \A p \in Pages : View(p).life = life => View(p).res \in objs
             /\ \A k \in kvm : k.mem.life = life => k.mem.res \in host_mapped

\* Between commands the guest reaches, page for page, the resources recorded as
\* mapped and nothing else of this activation, whichever way each was mapped and
\* whatever failed.
GuestView ==
  running /\ request = NoRequest =>
    \A p \in Pages : \A r \in DOMAIN resources :
      p \in PagesOf(r) <=> View(p) = Owner(r)

\* Between commands the quota is what is mapped: no path through map, unmap or
\* unref charges without a mapping or credits twice, and no limit is exceeded.
QuotaExact ==
  request = NoRequest =>
    /\ mappings = Cardinality(Mapped)
    /\ used_bytes = FoldSet(LAMBDA r, n : resources[r].size + n, 0, Mapped)
    /\ limits[1] # 0 => used_bytes <= limits[1]
    /\ limits[2] # 0 => mappings <= limits[2]

\* No slot number is lost or used twice: each one handed out so far is registered
\* with KVM or waits to be recycled, so the window never takes more slots than
\* it has pages, plus its own.
SlotsConserved ==
  /\ IsInjective(free)
  /\ \A k, l \in kvm : k.slot = l.slot => k = l
  /\ {k.slot : k \in kvm} \cap Range(free) = {}
  /\ {k.slot : k \in kvm} \cup Range(free) = FirstSlot..(next_slot - 1)
  /\ \A a \in DOMAIN mapped : \E k \in kvm : k.slot = mapped[a] /\ k.at = a
  /\ next_slot <= FirstSlot + WinSize + 1

\* Neither the quota nor the slots leak, whichever call fails.
NothingLeaks == QuotaExact /\ SlotsConserved

\* "The flag ends the worker's loop, which drops rutabaga and with it every
\* resource mapping it published" (Inner::reset): once it has returned the guest
\* reaches nothing that was mapped before.
ResetWithdraws == ~running => \A p \in Pages : View(p) = Reservation

=============================================================================
