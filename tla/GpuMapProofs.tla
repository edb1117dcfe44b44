---------------------------- MODULE GpuMapProofs ----------------------------
(***************************************************************************)
(* The guest never reaches memory the renderer has let go of, and between  *)
(* commands it reaches exactly what is mapped, for every size of the       *)
(* window and any set of resources, wherever a call fails.                 *)
(*                                                                         *)
(* MapInv ties every page of the window and every memory slot of this      *)
(* activation to the one resource that is recorded as mapped there, or is  *)
(* about to be, and that no teardown under way has already stripped.       *)
(* SlotInv accounts for the slot numbers.  ViewInv is the converse of      *)
(* MapInv: a mapped resource, unless it is being withdrawn, is on all of   *)
(* its pages, which no other resource has.                                 *)
(***************************************************************************)
EXTENDS GpuMap, TLAPS

Entry == [size : Nat, shmem_offset : 0 .. WinSize, placed : BOOLEAN,
          external : BOOLEAN, scanouts : SUBSET Scanouts]

MapTypes ==
  /\ life \in Nat /\ (running => life > 0)
  /\ DOMAIN resources \subseteq Res /\ DOMAIN resources \subseteq objs
  /\ \A r \in DOMAIN resources : resources[r] \in Entry
  /\ \A p \in Pages : contents[p].life \in 0 .. life
  /\ DOMAIN contents = Pages
  /\ \A k \in kvm : k.at \in Nat /\ k.len \in Nat \ {0} /\ k.mem.life \in 0 .. life

\* The handler under way.
Mapping(pc) ==
  /\ request.pc = pc
  /\ request.off \in Pages /\ ~IsMapped(request.res)

Handler ==
  \/ request = NoRequest
  \/ /\ running /\ request.res \in DOMAIN resources
     /\ \/ Mapping("info") /\ request = [pc |-> "info", res |-> request.res, off |-> request.off]
        \/ Mapping("publish") /\ Size > 0 /\ request.res \in host_mapped
        \/ Mapping("record") /\ request.placed \in BOOLEAN
        \/ request.pc \in {"unmap", "unmap_unref"}
        \/ request.pc = "unref" /\ ~IsMapped(request.res)

\* The resource is recorded as mapped, and nobody has begun to undo that.
Stands(r) == /\ r \in DOMAIN resources /\ IsMapped(r)
             /\ ~(request.pc \in {"unmap", "unmap_unref"} /\ request.res = r)

\* A page of this activation belongs to a resource that was placed there.
PagesOwned ==
  running => \A p \in Pages : contents[p].life = life =>
    LET r == contents[p].res IN
    \/ Stands(r) /\ resources[r].placed /\ p \in PagesOf(r)
    \/ /\ request.pc = "record" /\ request.res = r /\ request.placed
       /\ request.off <= p /\ p < request.off + Size

\* A slot of this activation belongs to a resource that has it for its own, and
\* that the renderer has mapped.
SlotsOwned ==
  running => \A k \in kvm : k.mem.life = life =>
    LET r == k.mem.res IN
    /\ r \in host_mapped
    /\ \/ Stands(r) /\ ~resources[r].placed /\ resources[r].shmem_offset = k.at
       \/ /\ request.pc = "record" /\ request.res = r /\ ~request.placed
          /\ request.off = k.at

\* The allocator's record of an address names the slot that is there.
SlotsRecorded ==
  \A k \in kvm : k.mem # Reservation /\ k.at \in DOMAIN mapped => mapped[k.at] = k.slot

MapInv == MapTypes /\ Handler /\ PagesOwned /\ SlotsOwned /\ SlotsRecorded

Update(e, off, b, c) == [e EXCEPT !.shmem_offset = off, !.placed = b, !.external = c]

LEMMA EntryUpdate ==
  ASSUME NEW e \in Entry, NEW off \in 0 .. WinSize, NEW b \in BOOLEAN, NEW c \in BOOLEAN
  PROVE  /\ Update(e, off, b, c) \in Entry /\ Update(e, off, b, c).shmem_offset = off
         /\ Update(e, off, b, c).size = e.size /\ Update(e, off, b, c).placed = b
  <1>1. Update(e, off, b, c).shmem_offset = off /\ Update(e, off, b, c).size = e.size
    BY Zenon DEF Entry, Update
  <1>2. Update(e, off, b, c).placed = b
    BY Zenon DEF Entry, Update
  <1>3. Update(e, off, b, c) \in Entry
    BY Zenon DEF Entry, Update
  <1>4. QED
    BY <1>1, <1>2, <1>3, Zenon

(***************************************************************************)
(* What the guest reaches is what is placed, or what a slot shows.         *)
(***************************************************************************)
LEMMA ViewIs ==
  ASSUME NEW p \in Pages
  PROVE  View(p) \in {Reservation, contents[p]} \cup {k.mem : k \in kvm}
  <1> DEFINE hit == {k \in kvm : k.at <= p /\ p < k.at + k.len}
             k == CHOOSE k \in hit : TRUE
  <1>1. View(p) = IF hit = {} THEN Reservation
                  ELSE IF k.mem = Reservation THEN contents[p] ELSE k.mem
    BY Zenon DEF View
  <1>2. hit # {} => k \in kvm
    <2>1. hit # {} => k \in hit
      BY Zenon
    <2>2. QED
      BY <2>1, Zenon
  <1> HIDE DEF hit, k
  <1>3. QED
    BY <1>1, <1>2, Zenon

LEMMA MapProps == MapInv => NoDangling
  <1> SUFFICES ASSUME MapInv, running PROVE NoDangling
    BY Zenon DEF NoDangling
  <1>0. request.pc = "record" => request.res \in DOMAIN resources
    <2>1. NoRequest.pc # "record"
      BY Zenon DEF NoRequest
    <2>2. QED
      BY <2>1, Zenon DEF MapInv, Handler
  <1>1. ASSUME NEW k \in kvm, k.mem.life = life
        PROVE  k.mem.res \in host_mapped /\ k.mem.res \in objs
    <2>1. k.mem.res \in host_mapped /\ k.mem.res \in DOMAIN resources
      BY <1>0, <1>1, Zenon DEF MapInv, SlotsOwned, Stands
    <2>2. QED
      BY <2>1, Zenon DEF MapInv, MapTypes
  <1>2. ASSUME NEW p \in Pages, contents[p].life = life PROVE contents[p].res \in objs
    <2>1. contents[p].res \in DOMAIN resources
      BY <1>0, <1>2, Zenon DEF MapInv, PagesOwned, Stands
    <2>2. QED
      BY <2>1, Zenon DEF MapInv, MapTypes
  <1>3. Reservation.life # life
    BY DEF Reservation, MapInv, MapTypes
  <1>4. QED
    BY <1>1, <1>2, <1>3, ViewIs, Zenon DEF NoDangling

LEMMA MapStart == MapInit => MapInv
  <1> SUFFICES ASSUME MapInit PROVE MapInv
    BY Zenon
  <1>1. DOMAIN resources = {} /\ ~running /\ life = 0 /\ request = NoRequest
    BY DEF MapInit
  <1>2. \A k \in kvm : k.at = 0 /\ k.len = WinSize /\ k.mem = Reservation
    BY DEF MapInit, open_window
  <1>3. Reservation.life = 0
    BY Zenon DEF Reservation
  <1>4. MapTypes
    BY <1>1, <1>2, <1>3, GpuMapAssumption DEF MapInit, MapTypes
  <1>5. QED
    BY <1>1, <1>2, <1>4, Zenon DEF MapInv, Handler, PagesOwned, SlotsOwned, SlotsRecorded

(***************************************************************************)
(* A step between the changes of the window: the view of the guest and the *)
(* records stay, and the handler neither has a mapping in hand nor begins  *)
(* to undo one.                                                            *)
(***************************************************************************)
LEMMA ViewStays ==
  ASSUME MapInv, UNCHANGED <<kvm, contents, life, running, resources, objs>>,
         host_mapped \subseteq host_mapped',
         request.pc # "record", request'.pc \notin {"record", "unmap", "unmap_unref"}
  PROVE  MapTypes' /\ PagesOwned' /\ SlotsOwned'
  <1>1. MapTypes'
    BY Zenon DEF MapInv, MapTypes, Pages
  <1>2. \A r : Stands(r) => Stands(r)'
    BY Zenon DEF Stands, IsMapped, Unmapped
  <1>3. PagesOwned'
    BY <1>2, Zenon DEF MapInv, PagesOwned, PagesOf, Pages
  <1>4. SlotsOwned'
    BY <1>2, Zenon DEF MapInv, SlotsOwned
  <1>5. QED
    BY <1>1, <1>3, <1>4, Zenon

(***************************************************************************)
(* The handlers' steps that leave the view of the guest alone.             *)
(***************************************************************************)
LEMMA QuietSteps ==
  ASSUME MapInv,
         \/ \E r \in Res, off \in Pages : MapBlob(r, off)
         \/ \E r \in Res : (Unref(r) /\ r \notin Mapped) \/ WithdrawRefused(r)
         \/ MapRefused \/ RendererMap \/ RendererMapFails
  PROVE  MapInv'
  <1>n. NoRequest.pc = "idle"
    BY Zenon DEF NoRequest
  <1>1. CASE \E r \in Res, off \in Pages : MapBlob(r, off)
    <2>1. PICK r \in Res, off \in Pages : MapBlob(r, off)
      BY <1>1, Zenon
    <2>2. /\ request = NoRequest /\ request' = [pc |-> "info", res |-> r, off |-> off]
          /\ running /\ r \in DOMAIN resources /\ ~IsMapped(r)
          /\ UNCHANGED <<kvm, mapped, contents, life, running, resources, objs, host_mapped>>
      BY <2>1, Zenon DEF MapBlob, gpuvars, slotvars
    <2>3. request'.pc = "info" /\ request'.res = r /\ request'.off = off
      BY <2>2, Zenon
    <2>4. Handler'
      BY <2>2, <2>3, Zenon DEF Handler, Mapping, IsMapped, Unmapped, Pages
    <2>5. MapTypes' /\ PagesOwned' /\ SlotsOwned'
      BY <1>n, <2>2, <2>3, ViewStays, Zenon
    <2>6. QED
      BY <2>2, <2>4, <2>5, Zenon DEF MapInv, SlotsRecorded, Reservation
  <1>2. CASE \E r \in Res : Unref(r) /\ r \notin Mapped
    <2>1. PICK r \in Res : Unref(r) /\ r \notin Mapped
      BY <1>2, Zenon
    <2>2. /\ request = NoRequest /\ request' = [pc |-> "unref", res |-> r]
          /\ running /\ r \in DOMAIN resources /\ ~IsMapped(r)
          /\ UNCHANGED <<kvm, mapped, contents, life, running, resources, objs, host_mapped>>
      BY <2>1, Zenon DEF Unref, gpuvars, slotvars, Mapped
    <2>3. request'.pc = "unref" /\ request'.res = r
      BY <2>2, Zenon
    <2>4. Handler'
      BY <2>2, <2>3, Zenon DEF Handler, IsMapped, Unmapped
    <2>5. MapTypes' /\ PagesOwned' /\ SlotsOwned'
      BY <1>n, <2>2, <2>3, ViewStays, Zenon
    <2>6. QED
      BY <2>2, <2>4, <2>5, Zenon DEF MapInv, SlotsRecorded, Reservation
  <1>3. CASE \E r \in Res : WithdrawRefused(r)
    <2>1. PICK r \in Res : WithdrawRefused(r)
      BY <1>3, Zenon
    <2>2. /\ request = NoRequest /\ request' = NoRequest
          /\ UNCHANGED <<kvm, contents, life, running, resources, objs, host_mapped>>
      BY <2>1, Zenon DEF WithdrawRefused, WithdrawFails, UnmapSlotFails, gpuvars, slotvars
    <2>3. MapTypes' /\ PagesOwned' /\ SlotsOwned'
      BY <1>n, <2>2, ViewStays, Zenon
    <2>4. \/ UNCHANGED mapped
          \/ \E at : mapped' = [a \in DOMAIN mapped \ {at} |-> mapped[a]]
      BY <2>1, Zenon DEF WithdrawRefused, WithdrawFails, UnmapSlotFails, slotvars
    <2>5. SlotsRecorded'
      BY <2>2, <2>4, Zenon DEF MapInv, SlotsRecorded, Reservation
    <2>6. QED
      BY <2>2, <2>3, <2>5, Zenon DEF MapInv, Handler, NoRequest
  <1>4. CASE MapRefused \/ RendererMapFails
    <2>1. /\ request.pc = "info" /\ request' = NoRequest
          /\ UNCHANGED <<kvm, mapped, contents, life, running, resources, objs, host_mapped>>
      BY <1>4, Zenon DEF MapRefused, RendererMapFails, At, gpuvars, slotvars
    <2>2. MapTypes' /\ PagesOwned' /\ SlotsOwned'
      BY <1>n, <2>1, ViewStays, Zenon
    <2>3. QED
      BY <2>1, <2>2, Zenon DEF MapInv, Handler, NoRequest, SlotsRecorded, Reservation
  <1>5. CASE RendererMap
    <2>1. /\ request.pc = "info" /\ request' = [request EXCEPT !.pc = "publish"] /\ Size > 0
          /\ host_mapped' = host_mapped \cup {request.res}
          /\ UNCHANGED <<kvm, mapped, contents, life, running, resources, objs>>
      BY <1>5, Zenon DEF RendererMap, At, gpuvars, slotvars
    <2>2. /\ running /\ request.res \in DOMAIN resources /\ Mapping("info")
          /\ request = [pc |-> "info", res |-> request.res, off |-> request.off]
      BY <1>n, <2>1, Zenon DEF MapInv, Handler, Mapping
    <2>3. request'.pc = "publish" /\ request'.res = request.res /\ request'.off = request.off
      BY <2>1, <2>2, Zenon
    <2>4. Handler'
      BY <2>1, <2>2, <2>3, Zenon DEF Handler, Mapping, IsMapped, Unmapped, Pages, Size
    <2>5. MapTypes' /\ PagesOwned' /\ SlotsOwned'
      BY <2>1, <2>3, ViewStays, Zenon
    <2>6. QED
      BY <2>1, <2>4, <2>5, Zenon DEF MapInv, SlotsRecorded, Reservation
  <1>6. QED
    BY <1>1, <1>2, <1>3, <1>4, <1>5, Zenon

(***************************************************************************)
(* The guest loses its view of a resource before the renderer does: after  *)
(* withdraw_mapping no page and no slot shows it.                          *)
(***************************************************************************)
LEMMA WithdrawStep ==
  ASSUME MapInv, NEW r \in Res, r \in Mapped, running, request = NoRequest,
         request'.pc \in {"unmap", "unmap_unref"}, request'.res = r,
         UNCHANGED <<resources, running, life, objs, host_mapped>>
  PROVE  withdraw_mapping(r) => MapInv'
  <1>n. NoRequest.pc = "idle"
    BY Zenon DEF NoRequest
  <1>u. /\ UNCHANGED <<resources, running, life, objs, host_mapped>>
        /\ r \in DOMAIN resources /\ IsMapped(r)
    BY Zenon DEF Mapped
  <1>s. \A q : Stands(q) /\ q # r => Stands(q)'
    BY <1>u, Zenon DEF Stands, IsMapped, Unmapped
  <1>p. \A q : PagesOf(q)' = PagesOf(q)
    BY <1>u, Zenon DEF PagesOf, Pages
  <1>l. Reservation.life = 0 /\ life \in Nat /\ life # 0
    <2>1. life \in Nat /\ life > 0
      BY Zenon DEF MapInv, MapTypes
    <2>2. life # 0
      BY <2>1
    <2>3. QED
      BY <2>1, <2>2, Zenon DEF Reservation
  <1>h. Handler'
    BY <1>u DEF Handler
  <1>1. CASE resources[r].placed /\ Overwrite(r) /\ UNCHANGED slotvars
    <2>1. /\ UNCHANGED <<kvm, mapped>>
          /\ contents' = [p \in Pages |-> IF p \in PagesOf(r) THEN Reservation ELSE contents[p]]
      BY <1>1, Zenon DEF slotvars, Overwrite
    <2>p. \A p \in Pages : \/ contents'[p] = Reservation
                           \/ contents'[p] = contents[p] /\ p \notin PagesOf(r)
      <3>1. \A p \in Pages : contents'[p] = IF p \in PagesOf(r) THEN Reservation ELSE contents[p]
        BY <2>1, Zenon
      <3>2. QED
        BY <3>1, Zenon
    <2>3. MapTypes'
      <3>1. \A p \in Pages : contents'[p].life \in 0 .. life
        BY <1>l, <2>p DEF MapInv, MapTypes
      <3>2. QED
        BY <1>u, <2>1, <3>1, Zenon DEF MapInv, MapTypes, Pages
    <2>4. PagesOwned'
      <3>1. SUFFICES ASSUME NEW p \in Pages, contents'[p].life = life,
                            NEW q, q = contents'[p].res
                     PROVE  Stands(q)' /\ resources[q].placed /\ p \in PagesOf(q)
        BY <1>u, <1>p, Zenon DEF PagesOwned, Pages
      <3>2. contents'[p] = contents[p] /\ p \notin PagesOf(r)
        BY <1>l, <2>p, <3>1, Zenon
      <3>3. QED
        <4>1. Stands(q) /\ resources[q].placed /\ p \in PagesOf(q)
          BY <1>n, <3>1, <3>2, Zenon DEF MapInv, PagesOwned
        <4>2. QED
          BY <1>s, <3>2, <4>1, Zenon
    <2>5. SlotsOwned'
      BY <1>n, <1>u, <1>s, <1>1, <2>1, Zenon DEF MapInv, SlotsOwned
    <2>6. QED
      BY <1>h, <2>1, <2>3, <2>4, <2>5, Zenon DEF MapInv, SlotsRecorded, Reservation
  <1>2. CASE ~resources[r].placed /\ UnmapSlot(resources[r].shmem_offset) /\ UNCHANGED contents
    <2> DEFINE at == resources[r].shmem_offset
    <2>1. /\ at \in DOMAIN mapped /\ UNCHANGED contents
          /\ kvm' = {k \in kvm : k.slot # mapped[at]}
          /\ mapped' = [a \in DOMAIN mapped \ {at} |-> mapped[a]]
      BY <1>2, Zenon DEF UnmapSlot
    <2>3. MapTypes'
      BY <1>u, <2>1, Zenon DEF MapInv, MapTypes, Pages
    <2>4. PagesOwned'
      BY <1>n, <1>u, <1>s, <1>2, <2>1, Zenon DEF MapInv, PagesOwned, PagesOf, Pages
    <2>5. ASSUME NEW k \in kvm', k.mem.life = life PROVE k.mem.res # r
      <3>1. SUFFICES ASSUME k.mem.res = r PROVE FALSE
        BY Zenon
      <3>2. k \in kvm /\ k.at = at
        BY <1>n, <2>1, <2>5, <3>1, Zenon DEF MapInv, SlotsOwned
      <3>3. k.mem # Reservation
        BY <1>l, <2>5, Zenon
      <3>4. mapped[k.at] = k.slot
        BY <2>1, <3>2, <3>3, Zenon DEF MapInv, SlotsRecorded
      <3>5. QED
        BY <2>1, <3>2, <3>4, Zenon
    <2>6. SlotsOwned'
      BY <1>n, <1>u, <1>s, <2>1, <2>5, Zenon DEF MapInv, SlotsOwned
    <2>7. SlotsRecorded'
      BY <2>1, Zenon DEF MapInv, SlotsRecorded, Reservation
    <2>8. QED
      BY <1>h, <2>3, <2>4, <2>6, <2>7, Zenon DEF MapInv
  <1>3. QED
    BY <1>1, <1>2, Zenon DEF withdraw_mapping

(***************************************************************************)
(* A resource that is not recorded as mapped owns no page and no slot of   *)
(* this activation, unless the handler has just mapped it.                 *)
(***************************************************************************)
LEMMA UnmappedIsUnseen ==
  ASSUME MapInv, running, request.pc # "record", NEW r, r \in DOMAIN resources => ~Stands(r)
  PROVE  /\ \A p \in Pages : contents[p].life = life => contents[p].res # r
         /\ \A k \in kvm : k.mem.life = life => k.mem.res # r
  BY Zenon DEF MapInv, PagesOwned, SlotsOwned, Stands

LEMMA PlaceStep == MapInv /\ Place => MapInv'
  <1> SUFFICES ASSUME MapInv, Place PROVE MapInv'
    BY Zenon
  <1> DEFINE r == request.res
  <1>n. NoRequest.pc = "idle"
    BY Zenon DEF NoRequest
  <1>1. /\ request.pc = "info"
        /\ contents' = [p \in Pages |-> IF request.off <= p /\ p < request.off + Size
                                       THEN Owner(r) ELSE contents[p]]
        /\ request' = [pc |-> "record", res |-> r, off |-> request.off, placed |-> TRUE]
        /\ UNCHANGED <<kvm, mapped, resources, running, life, objs, host_mapped>>
    BY Zenon DEF Place, At, gpuvars, slotvars
  <1>2. running /\ r \in DOMAIN resources /\ request.off \in Pages /\ ~IsMapped(r)
    BY <1>n, <1>1, Zenon DEF MapInv, Handler, Mapping
  <1>3. /\ request'.pc = "record" /\ request'.res = r /\ request'.off = request.off
        /\ request'.placed = TRUE
    BY <1>1, Zenon
  <1>4. Owner(r).res = r /\ Owner(r).life = life /\ Size' = Size
    BY <1>1, <1>3, Zenon DEF Owner, Size
  <1>5. \A q : Stands(q) => Stands(q)'
    BY <1>1, <1>3, Zenon DEF Stands, IsMapped, Unmapped
  <1>6. MapTypes'
    BY <1>1, <1>2, <1>4 DEF MapInv, MapTypes, Pages
  <1>7. Handler'
    BY <1>1, <1>2, <1>3, Zenon DEF Handler, Mapping, IsMapped, Unmapped, Pages
  <1>8. PagesOwned'
    BY <1>1, <1>2, <1>3, <1>4, <1>5, Zenon DEF MapInv, PagesOwned, PagesOf, Pages
  <1>9. SlotsOwned'
    BY <1>1, <1>2, <1>3, <1>5, Zenon DEF MapInv, SlotsOwned
  <1>10. QED
    BY <1>1, <1>6, <1>7, <1>8, <1>9, Zenon DEF MapInv, SlotsRecorded, Reservation

LEMMA PublishStep == MapInv /\ Publish => MapInv'
  <1> SUFFICES ASSUME MapInv, Publish PROVE MapInv'
    BY Zenon
  <1> DEFINE r == request.res
             k0 == [slot |-> Candidate, at |-> request.off, len |-> Size, mem |-> Owner(r)]
  <1>n. NoRequest.pc = "idle"
    BY Zenon DEF NoRequest
  <1>1. /\ request.pc = "publish"
        /\ request.off \notin DOMAIN mapped /\ ~Overlaps(request.off, Size)
        /\ kvm' = kvm \cup {k0}
        /\ mapped' =
             [a \in DOMAIN mapped \cup {request.off} |->
                IF a = request.off THEN Candidate ELSE mapped[a]]
        /\ request' = [pc |-> "record", res |-> r, off |-> request.off, placed |-> FALSE]
        /\ UNCHANGED <<contents, resources, running, life, objs, host_mapped>>
    BY Zenon DEF Publish, At, MapSlot, gpuvars
  <1>2. /\ running /\ r \in DOMAIN resources /\ request.off \in Pages /\ ~IsMapped(r)
        /\ Size > 0 /\ r \in host_mapped
    BY <1>n, <1>1, Zenon DEF MapInv, Handler, Mapping
  <1>3. /\ request'.pc = "record" /\ request'.res = r /\ request'.off = request.off
        /\ request'.placed = FALSE
    BY <1>1, Zenon
  <1>4. k0.slot = Candidate /\ k0.at = request.off /\ k0.len = Size /\ k0.mem.res = r
        /\ k0.mem.life = life
    BY Zenon DEF Owner
  <1>5. \A q : Stands(q) => Stands(q)'
    BY <1>1, <1>3, Zenon DEF Stands, IsMapped, Unmapped
  <1>6. Size \in Nat /\ request.off \in Nat
    BY <1>2 DEF MapInv, MapTypes, Entry, Size, Pages
  <1> HIDE DEF k0
  <1>7. MapTypes'
    <2>1. \A k \in kvm' : k.at \in Nat /\ k.len \in Nat \ {0} /\ k.mem.life \in 0 .. life
      BY <1>1, <1>2, <1>4, <1>6 DEF MapInv, MapTypes
    <2>2. QED
      BY <1>1, <2>1, Zenon DEF MapInv, MapTypes, Pages
  <1>8. Handler'
    BY <1>1, <1>2, <1>3, Zenon DEF Handler, Mapping, IsMapped, Unmapped, Pages
  <1>9. PagesOwned'
    BY <1>1, <1>2, <1>3, <1>5, Zenon DEF MapInv, PagesOwned, PagesOf, Pages
  <1>10. SlotsOwned'
    BY <1>1, <1>2, <1>3, <1>4, <1>5, Zenon DEF MapInv, SlotsOwned
  <1>11. SlotsRecorded'
    <2>1. ASSUME NEW k \in kvm PROVE k.at # request.off
      BY <1>1, <1>2, <1>6 DEF Overlaps, MapInv, MapTypes
    <2>2. /\ DOMAIN mapped' = DOMAIN mapped \cup {request.off}
          /\ mapped'[request.off] = Candidate
          /\ \A a \in DOMAIN mapped : mapped'[a] = mapped[a]
      BY <1>1, Zenon
    <2>3. ASSUME NEW k \in kvm', k.mem # Reservation, k.at \in DOMAIN mapped'
          PROVE  mapped'[k.at] = k.slot
      <3>1. CASE k \in kvm
        BY <2>1, <2>2, <2>3, <3>1, Zenon DEF MapInv, SlotsRecorded
      <3>2. CASE k = k0
        BY <1>4, <2>2, <3>2, Zenon
      <3>3. QED
        BY <1>1, <3>1, <3>2, Zenon
    <2>4. QED
      BY <2>3, Zenon DEF SlotsRecorded, Reservation
  <1>12. QED
    BY <1>7, <1>8, <1>9, <1>10, <1>11, Zenon DEF MapInv

LEMMA PublishFailsStep == MapInv /\ PublishFails => MapInv'
  <1> SUFFICES ASSUME MapInv, PublishFails PROVE MapInv'
    BY Zenon
  <1> DEFINE r == request.res
  <1>n. NoRequest.pc = "idle"
    BY Zenon DEF NoRequest
  <1>1. /\ request.pc = "publish" /\ request' = NoRequest
        /\ host_mapped \ {r} \subseteq host_mapped'
        /\ UNCHANGED <<kvm, mapped, contents, resources, running, life, objs>>
    BY Zenon DEF PublishFails, MapSlotFails, RendererUnmap, At, gpuvars, slotvars
  <1>2. running /\ r \in DOMAIN resources /\ ~IsMapped(r)
    BY <1>n, <1>1, Zenon DEF MapInv, Handler, Mapping
  <1>3. \A k \in kvm : k.mem.life = life => k.mem.res # r
    BY <1>1, <1>2, UnmappedIsUnseen, Zenon DEF Stands
  <1>4. \A q : Stands(q) => Stands(q)'
    BY <1>n, <1>1, Zenon DEF Stands, IsMapped, Unmapped
  <1>5. MapTypes'
    BY <1>1, Zenon DEF MapInv, MapTypes, Pages
  <1>6. PagesOwned'
    BY <1>1, <1>4, Zenon DEF MapInv, PagesOwned, PagesOf, Pages
  <1>7. SlotsOwned'
    BY <1>1, <1>3, <1>4, Zenon DEF MapInv, SlotsOwned
  <1>8. QED
    BY <1>1, <1>5, <1>6, <1>7, Zenon DEF MapInv, Handler, NoRequest, SlotsRecorded, Reservation

LEMMA RecordStep == MapInv /\ Record => MapInv'
  <1> SUFFICES ASSUME MapInv, Record PROVE MapInv'
    BY Zenon
  <1> DEFINE r == request.res
  <1>n. NoRequest.pc = "idle"
    BY Zenon DEF NoRequest
  <1>1. /\ request.pc = "record" /\ request' = NoRequest
        /\ UNCHANGED <<kvm, mapped, contents, running, life, objs, host_mapped>>
    BY Zenon DEF Record, At, slotvars
  <1>2. running /\ r \in DOMAIN resources /\ request.off \in Pages /\ ~IsMapped(r)
    BY <1>n, <1>1, Zenon DEF MapInv, Handler, Mapping
  <1>3. /\ DOMAIN resources' = DOMAIN resources
        /\ \A q \in DOMAIN resources \ {r} : resources'[q] = resources[q]
    BY <1>2, Zenon DEF Record
  <1>4. /\ resources'[r] \in Entry /\ resources'[r].shmem_offset = request.off
        /\ resources'[r].size = resources[r].size /\ resources'[r].placed = request.placed
    <2>1. resources[r] \in Entry
      BY <1>2, Zenon DEF MapInv, MapTypes
    <2>2. request.off \in 0 .. WinSize
      BY <1>2, GpuMapAssumption DEF Pages
    <2>3. resources'[r] = Update(resources[r], request.off, request.placed, ~request.placed)
      BY <1>2, Zenon DEF Record, Update
    <2>4. request.placed \in BOOLEAN
      BY <1>n, <1>1, Zenon DEF MapInv, Handler, Mapping
    <2>5. PICK c \in BOOLEAN :
            resources'[r] = Update(resources[r], request.off, request.placed, c)
      BY <2>3, Zenon
    <2>6. QED
      BY <2>1, <2>2, <2>4, <2>5, EntryUpdate
  <1>5. request.off # Unmapped
    BY <1>2, GpuMapAssumption DEF Pages, Unmapped
  <1>6. \A q : Stands(q) => Stands(q)' /\ q # r /\ resources'[q] = resources[q]
    BY <1>n, <1>1, <1>2, <1>3, Zenon DEF Stands, IsMapped, Unmapped
  <1>7. \A q : q = r => Stands(q)'
    BY <1>n, <1>1, <1>2, <1>3, <1>4, <1>5, Zenon DEF Stands, IsMapped, Unmapped
  <1>8. MapTypes'
    BY <1>1, <1>3, <1>4, Zenon DEF MapInv, MapTypes, Pages
  <1>9. PagesOwned'
    BY <1>1, <1>3, <1>4, <1>6, <1>7, Zenon DEF MapInv, PagesOwned, PagesOf, Pages, Size
  <1>10. SlotsOwned'
    BY <1>1, <1>4, <1>6, <1>7 DEF MapInv, SlotsOwned
  <1>11. QED
    BY <1>1, <1>8, <1>9, <1>10, Zenon DEF MapInv, Handler, NoRequest, SlotsRecorded, Reservation

(***************************************************************************)
(* The renderer loses its mapping, or the whole resource, only once        *)
(* nothing shows it.                                                       *)
(***************************************************************************)
LEMMA UnmappingStep == MapInv /\ Unmapping => MapInv'
  <1> SUFFICES ASSUME MapInv, Unmapping PROVE MapInv'
    BY Zenon
  <1> DEFINE r == request.res
  <1>n. NoRequest.pc = "idle"
    BY Zenon DEF NoRequest
  <1>1. /\ request.pc \in {"unmap", "unmap_unref"}
        /\ request' = NoRequest \/ request' = [pc |-> "unref", res |-> r]
        /\ host_mapped \ {r} \subseteq host_mapped'
        /\ UNCHANGED <<kvm, mapped, contents, running, life, objs>>
    BY Zenon DEF Unmapping, RendererUnmap, At, slotvars
  <1>2. running /\ r \in DOMAIN resources /\ ~Stands(r)
    BY <1>n, <1>1, Zenon DEF MapInv, Handler, Mapping, Stands
  <1>3. /\ \A p \in Pages : contents[p].life = life => contents[p].res # r
        /\ \A k \in kvm : k.mem.life = life => k.mem.res # r
    BY <1>1, <1>2, UnmappedIsUnseen, Zenon
  <1>4. request'.pc \in {"idle", "unref"} /\ (request'.pc = "unref" => request'.res = r)
    BY <1>n, <1>1
  <1>5. /\ DOMAIN resources' = DOMAIN resources
        /\ \A q \in DOMAIN resources \ {r} : resources'[q] = resources[q]
    BY <1>2, Zenon DEF Unmapping
  <1>6. resources'[r] \in Entry /\ resources'[r].shmem_offset = Unmapped
    <2>1. resources[r] \in Entry /\ Unmapped \in 0 .. WinSize
      BY <1>2, GpuMapAssumption DEF MapInv, MapTypes, Unmapped
    <2>2. resources'[r] = Update(resources[r], Unmapped, FALSE, FALSE)
      BY <1>2, Zenon DEF Unmapping, Update
    <2>3. PICK b \in BOOLEAN, c \in BOOLEAN :
            resources'[r] = Update(resources[r], Unmapped, b, c)
      BY <2>2, Zenon
    <2>4. QED
      BY <2>1, <2>3, EntryUpdate
  <1>7. \A q : Stands(q) /\ q # r => Stands(q)' /\ resources'[q] = resources[q]
    BY <1>4, <1>5, Zenon DEF Stands, IsMapped, Unmapped
  <1>8. MapTypes'
    BY <1>1, <1>5, <1>6, Zenon DEF MapInv, MapTypes, Pages
  <1>9. Handler'
    BY <1>1, <1>2, <1>4, <1>5, <1>6 DEF Handler, IsMapped, Unmapped, NoRequest
  <1>10. PagesOwned'
    BY <1>1, <1>3, <1>5, <1>7, Zenon DEF MapInv, PagesOwned, PagesOf, Pages
  <1>11. SlotsOwned'
    BY <1>1, <1>3, <1>7, Zenon DEF MapInv, SlotsOwned
  <1>12. QED
    BY <1>1, <1>8, <1>9, <1>10, <1>11, Zenon DEF MapInv, SlotsRecorded, Reservation

LEMMA UnreferencingStep == MapInv /\ Unreferencing => MapInv'
  <1> SUFFICES ASSUME MapInv, Unreferencing PROVE MapInv'
    BY Zenon
  <1> DEFINE r == request.res
  <1>n. NoRequest.pc = "idle"
    BY Zenon DEF NoRequest
  <1>1. /\ request.pc = "unref" /\ request' = NoRequest
        /\ resources' = [q \in DOMAIN resources \ {r} |-> resources[q]]
        /\ objs \ {r} \subseteq objs' /\ host_mapped \ {r} \subseteq host_mapped'
        /\ UNCHANGED <<kvm, mapped, contents, running, life>>
    BY Zenon DEF Unreferencing, At, slotvars
  <1>2. running /\ r \in DOMAIN resources /\ ~Stands(r)
    BY <1>n, <1>1, Zenon DEF MapInv, Handler, Mapping, Stands
  <1>3. /\ \A p \in Pages : contents[p].life = life => contents[p].res # r
        /\ \A k \in kvm : k.mem.life = life => k.mem.res # r
    BY <1>1, <1>2, UnmappedIsUnseen, Zenon
  <1>4. \A q : Stands(q) /\ q # r => Stands(q)' /\ resources'[q] = resources[q]
    BY <1>n, <1>1, Zenon DEF Stands, IsMapped, Unmapped
  <1>5. MapTypes'
    BY <1>1, Zenon DEF MapInv, MapTypes, Pages
  <1>6. PagesOwned'
    BY <1>1, <1>3, <1>4, ZenonT(40) DEF MapInv, PagesOwned, PagesOf, Pages
  <1>7. SlotsOwned'
    BY <1>1, <1>3, <1>4, Zenon DEF MapInv, SlotsOwned
  <1>8. QED
    BY <1>1, <1>5, <1>6, <1>7, Zenon DEF MapInv, Handler, NoRequest, SlotsRecorded, Reservation

(***************************************************************************)
(* Creating and showing a resource touch no mapping.                       *)
(***************************************************************************)
LEMMA RecordsStay ==
  ASSUME MapInv, request = NoRequest, request' = NoRequest, objs \subseteq objs',
         DOMAIN resources' \subseteq Res, DOMAIN resources' \subseteq objs',
         \A q \in DOMAIN resources' : resources'[q] \in Entry,
         \A q \in DOMAIN resources :
           /\ q \in DOMAIN resources' /\ resources'[q].size = resources[q].size
           /\ resources'[q].shmem_offset = resources[q].shmem_offset
           /\ resources'[q].placed = resources[q].placed,
         UNCHANGED <<kvm, mapped, contents, running, life, host_mapped>>
  PROVE  MapInv'
  <1>n. NoRequest.pc = "idle"
    BY Zenon DEF NoRequest
  <1>1. \A q : Stands(q) => Stands(q)' /\ q \in DOMAIN resources
    BY <1>n, Zenon DEF Stands, IsMapped, Unmapped
  <1>2. MapTypes'
    BY Zenon DEF MapInv, MapTypes, Pages
  <1>3. PagesOwned'
    BY <1>n, <1>1, Zenon DEF MapInv, PagesOwned, PagesOf, Pages
  <1>4. SlotsOwned'
    BY <1>n, <1>1, Zenon DEF MapInv, SlotsOwned
  <1>5. QED
    BY <1>2, <1>3, <1>4, ZenonT(40) DEF MapInv, Handler, NoRequest, SlotsRecorded, Reservation

LEMMA CreateStep ==
  ASSUME MapInv, NEW r \in Res, NEW size \in {0} \cup Sizes PROVE Create(r, size) => MapInv'
  <1> SUFFICES ASSUME Create(r, size) PROVE MapInv'
    BY Zenon
  <1> DEFINE new == [size |-> size, shmem_offset |-> Unmapped, placed |-> FALSE,
                     external |-> FALSE, scanouts |-> {}]
  <1>1. /\ request = NoRequest /\ request' = NoRequest /\ r \notin objs /\ objs' = objs \cup {r}
        /\ resources' = [q \in DOMAIN resources \cup {r} |-> IF q = r THEN new ELSE resources[q]]
        /\ UNCHANGED <<kvm, mapped, contents, running, life, host_mapped>>
    BY Zenon DEF Create, slotvars
  <1>2. new \in Entry
    BY GpuMapAssumption DEF Entry, Unmapped
  <1> HIDE DEF new
  <1>3. r \notin DOMAIN resources /\ DOMAIN resources \subseteq Res /\ DOMAIN resources \subseteq objs
    BY <1>1, Zenon DEF MapInv, MapTypes
  <1>4. \A q \in DOMAIN resources : resources[q] \in Entry
    BY Zenon DEF MapInv, MapTypes
  <1>5. QED
    BY <1>1, <1>2, <1>3, <1>4, RecordsStay, Zenon

LEMMA ScanoutStep ==
  ASSUME MapInv, NEW s \in Scanouts, NEW r \in Res \cup {NoRes}
  PROVE  set_scanout(s, r) => MapInv'
  <1> SUFFICES ASSUME set_scanout(s, r) PROVE MapInv'
    BY Zenon
  <1> DEFINE shown(q) == (resources[q].scanouts \ (IF scanouts[s] = q THEN {s} ELSE {}))
                           \cup (IF r = q THEN {s} ELSE {})
  <1>1. /\ request = NoRequest /\ request' = NoRequest
        /\ UNCHANGED <<kvm, mapped, contents, running, life, host_mapped, objs>>
    BY Zenon DEF set_scanout, slotvars
  <1>2. resources' = [q \in DOMAIN resources |-> [resources[q] EXCEPT !.scanouts = shown(q)]]
    BY Zenon DEF set_scanout
  <1>3. DOMAIN resources \subseteq Res /\ DOMAIN resources \subseteq objs
    BY Zenon DEF MapInv, MapTypes
  <1>4. ASSUME NEW q \in DOMAIN resources
        PROVE  /\ resources'[q] \in Entry /\ resources'[q].size = resources[q].size
               /\ resources'[q].shmem_offset = resources[q].shmem_offset
               /\ resources'[q].placed = resources[q].placed
    <2>1. resources[q] \in Entry
      BY <1>4, Zenon DEF MapInv, MapTypes
    <2>2. shown(q) \in SUBSET Scanouts
      BY <2>1, Zenon DEF Entry
    <2> HIDE DEF shown
    <2>3. resources'[q] = [resources[q] EXCEPT !.scanouts = shown(q)]
      BY <1>2, <1>4, Zenon
    <2>4. QED
      BY <2>1, <2>2, <2>3, Zenon DEF Entry
  <1>5. DOMAIN resources' = DOMAIN resources
    BY <1>2, Zenon
  <1>6. QED
    BY <1>1, <1>3, <1>4, <1>5, RecordsStay, Zenon

(***************************************************************************)
(* What an earlier activation left in the window is not of this one.       *)
(***************************************************************************)
LEMMA LifeSteps == MapInv /\ (activate_window \/ reset_window) => MapInv'
  <1> SUFFICES ASSUME MapInv, activate_window \/ reset_window PROVE MapInv'
    BY Zenon
  <1>1. CASE activate_window
    <2>1. /\ ~running /\ life' = life + 1
          /\ UNCHANGED <<kvm, mapped, contents, objs, host_mapped, resources, request>>
      BY <1>1, Zenon DEF activate_window, slotvars
    <2>2. request = NoRequest
      BY <2>1, Zenon DEF MapInv, Handler
    <2>3. /\ life \in Nat
          /\ \A p \in Pages : contents[p].life \in 0 .. life
          /\ \A k \in kvm : k.mem.life \in 0 .. life
      BY Zenon DEF MapInv, MapTypes
    <2>4. /\ \A p \in Pages : contents[p].life \in 0 .. life' /\ contents[p].life # life'
          /\ \A k \in kvm : k.mem.life \in 0 .. life' /\ k.mem.life # life'
      BY <2>1, <2>3
    <2>5. MapTypes'
      BY <2>1, <2>3, <2>4 DEF MapInv, MapTypes, Pages
    <2>6. PagesOwned' /\ SlotsOwned'
      BY <2>1, <2>4, Zenon DEF PagesOwned, SlotsOwned, Pages
    <2>7. QED
      BY <2>1, <2>2, <2>5, <2>6, Zenon DEF MapInv, Handler, NoRequest, SlotsRecorded, Reservation
  <1>2. CASE reset_window
    <2>1. /\ ~running' /\ request = NoRequest
          /\ DOMAIN resources' = {}
          /\ UNCHANGED <<kvm, mapped, contents, life, request>>
      BY <1>2, SMTT(40) DEF reset_window, slotvars
    <2>2. MapTypes'
      BY <2>1, Zenon DEF MapInv, MapTypes, Pages
    <2>3. QED
      BY <2>1, <2>2, Zenon DEF MapInv, Handler, NoRequest, PagesOwned, SlotsOwned, SlotsRecorded,
                        Reservation
  <1>3. QED
    BY <1>1, <1>2, Zenon

LEMMA MapStep == MapInv /\ [MapNext]_mapVars => MapInv'
  <1> SUFFICES ASSUME MapInv, [MapNext]_mapVars PROVE MapInv'
    BY Zenon
  <1>1. ASSUME NEW r \in Res, NEW size \in {0} \cup Sizes, Create(r, size) PROVE MapInv'
    BY <1>1, CreateStep, Zenon
  <1>2. ASSUME NEW r \in Res, NEW off \in Pages, MapBlob(r, off) PROVE MapInv'
    BY <1>2, QuietSteps, Zenon
  <1>3. ASSUME NEW r \in Res, UnmapBlob(r) PROVE MapInv'
    <2>1. /\ running /\ request = NoRequest /\ r \in Mapped /\ withdraw_mapping(r)
          /\ request' = [pc |-> "unmap", res |-> r]
          /\ UNCHANGED <<resources, running, life, objs, host_mapped>>
      BY <1>3, Zenon DEF UnmapBlob, gpuvars
    <2>2. request'.pc = "unmap" /\ request'.res = r
      BY <2>1, Zenon
    <2>3. QED
      BY <2>1, <2>2, WithdrawStep, Zenon
  <1>4. ASSUME NEW r \in Res, Unref(r), r \in Mapped PROVE MapInv'
    <2>1. /\ running /\ request = NoRequest /\ withdraw_mapping(r)
          /\ request' = [pc |-> "unmap_unref", res |-> r]
          /\ UNCHANGED <<resources, running, life, objs, host_mapped>>
      BY <1>4, Zenon DEF Unref, gpuvars
    <2>2. request'.pc = "unmap_unref" /\ request'.res = r
      BY <2>1, Zenon
    <2>3. QED
      BY <1>4, <2>1, <2>2, WithdrawStep, Zenon
  <1>5. ASSUME NEW r \in Res, Unref(r), r \notin Mapped PROVE MapInv'
    BY <1>5, QuietSteps, Zenon
  <1>6. ASSUME NEW r \in Res, WithdrawRefused(r) PROVE MapInv'
    BY <1>6, QuietSteps, Zenon
  <1>7. ASSUME NEW s \in Scanouts, NEW r \in Res \cup {NoRes}, set_scanout(s, r) PROVE MapInv'
    BY <1>7, ScanoutStep, Zenon
  <1>8. CASE MapRefused \/ RendererMap \/ RendererMapFails
    BY <1>8, QuietSteps, Zenon
  <1>9. CASE Place \/ Publish \/ PublishFails \/ Record
    BY <1>9, PlaceStep, PublishStep, PublishFailsStep, RecordStep, Zenon
  <1>10. CASE Unmapping \/ Unreferencing
    BY <1>10, UnmappingStep, UnreferencingStep, Zenon
  <1>11. CASE activate_window \/ reset_window
    BY <1>11, LifeSteps, Zenon
  <1>12. CASE UNCHANGED mapVars
    <2>1. UNCHANGED <<kvm, mapped, contents, life, running, resources, objs, host_mapped, request>>
      BY <1>12, Zenon DEF mapVars, gpuvars, slotvars
    <2>2. MapTypes' /\ Handler'
      BY <2>1, Zenon DEF MapInv, MapTypes, Handler, Mapping, IsMapped, Unmapped, Pages, Size, NoRequest
    <2>3. PagesOwned' /\ SlotsOwned'
      BY <2>1, Zenon DEF MapInv, PagesOwned, PagesOf, SlotsOwned, Stands, IsMapped, Unmapped, Pages, Size
    <2>4. QED
      BY <2>1, <2>2, <2>3, Zenon DEF MapInv, SlotsRecorded, Reservation
  <1>13. QED
    BY <1>1, <1>2, <1>3, <1>4, <1>5, <1>6, <1>7, <1>8, <1>9, <1>10, <1>11, <1>12, Zenon DEF MapNext

(***************************************************************************)
(* No order of commands and failures lets the guest reach memory that the  *)
(* renderer has released: resource_unmap_blob and unref_resource take the  *)
(* guest's view away before Rutabaga::unmap and Rutabaga::unref_resource,  *)
(* and a map that fails half-way leaves nothing behind.                    *)
(***************************************************************************)
THEOREM NothingDangles == MapSpec => []NoDangling
  <1>1. MapInit => MapInv
    BY MapStart, Zenon
  <1>2. MapInv /\ [MapNext]_mapVars => MapInv'
    BY MapStep, Zenon
  <1>3. MapInv => NoDangling
    BY MapProps, Zenon
  <1>4. QED
    BY <1>1, <1>2, <1>3, PTL DEF MapSpec

-----------------------------------------------------------------------------
(***************************************************************************)
(* The memory slots: every number handed out is registered or waits to be  *)
(* recycled, and none is in two places.                                    *)
(***************************************************************************)
SlotsAccounted ==
  /\ IsInjective(free)
  /\ \A k, l \in kvm : k.slot = l.slot => k = l
  /\ {k.slot : k \in kvm} \cap Range(free) = {}
  /\ {k.slot : k \in kvm} \cup Range(free) = FirstSlot .. next_slot - 1
  /\ \A a \in DOMAIN mapped : \E k \in kvm : k.slot = mapped[a] /\ k.at = a

\* Slots lie apart, inside the window.
SlotInv ==
  /\ next_slot \in Nat /\ FirstSlot <= next_slot /\ free \in Seq(Nat)
  /\ SlotsAccounted
  /\ \A k, l \in kvm : k # l => k.at + k.len <= l.at \/ l.at + l.len <= k.at
  /\ \A k \in kvm : k.at \in Pages

LEMMA FreeFacts ==
  ASSUME free \in Seq(Nat), IsInjective(free)
  PROVE  /\ Len(free) \in Nat /\ DOMAIN free = 1 .. Len(free) /\ Range(free) \subseteq Nat
         /\ (free = <<>>) <=> (Len(free) = 0)
         /\ \A i \in 1 .. Len(free) : free[i] \in Range(free)
  BY DEF Range

\* Taking the last number off the list.
LEMMA PopFacts ==
  ASSUME free \in Seq(Nat), IsInjective(free), free # <<>>,
         NEW f, f = SubSeq(free, 1, Len(free) - 1)
  PROVE  /\ f \in Seq(Nat) /\ IsInjective(f) /\ Range(f) = Range(free) \ {free[Len(free)]}
         /\ free[Len(free)] \in Range(free)
  <1>1. PICK n \in Nat : n = Len(free) /\ n # 0
    BY FreeFacts, Zenon
  <1>2. /\ f \in Seq(Nat) /\ Len(f) = n - 1 /\ \A i \in 1 .. n - 1 : f[i] = free[i]
    BY <1>1
  <1>3. DOMAIN f = 1 .. n - 1 /\ DOMAIN free = 1 .. n
    BY <1>1, <1>2
  <1>4. \A i, j \in 1 .. n : free[i] = free[j] => i = j
    BY <1>3, Zenon DEF IsInjective
  <1>5. IsInjective(f)
    <2>1. \A i \in 1 .. n - 1 : i \in 1 .. n
      BY <1>1
    <2>2. \A i, j \in 1 .. n - 1 : f[i] = f[j] => i = j
      BY <1>2, <1>4, <2>1, Zenon
    <2>3. QED BY <1>3, <2>2, Zenon DEF IsInjective
  <1>6. Range(f) = Range(free) \ {free[n]}
    <2>1. ASSUME NEW x \in Range(f) PROVE x \in Range(free) \ {free[n]}
      <3>1. PICK i \in 1 .. n - 1 : x = f[i]
        BY <1>3, Zenon DEF Range
      <3>2. i \in 1 .. n /\ i # n /\ x = free[i] /\ n \in 1 .. n
        BY <1>1, <1>2, <3>1
      <3>3. QED BY <1>3, <1>4, <3>2, Zenon DEF Range
    <2>2. ASSUME NEW x \in Range(free) \ {free[n]} PROVE x \in Range(f)
      <3>1. PICK i \in 1 .. n : x = free[i]
        BY <1>3, Zenon DEF Range
      <3>2. i \in 1 .. n - 1
        BY <1>1, <2>2, <3>1
      <3>3. QED BY <1>2, <1>3, <3>1, <3>2, Zenon DEF Range
    <2>3. QED BY <2>1, <2>2, Zenon
  <1>7. free[n] \in Range(free)
    BY <1>1, <1>3 DEF Range
  <1>8. QED BY <1>1, <1>2, <1>5, <1>6, <1>7, Zenon

\* Giving one back.
LEMMA PushFacts ==
  ASSUME free \in Seq(Nat), IsInjective(free), NEW n \in Nat, n \notin Range(free),
         NEW f, f = Append(free, n)
  PROVE  f \in Seq(Nat) /\ IsInjective(f) /\ Range(f) = Range(free) \cup {n}
  <1>1. PICK m \in Nat : m = Len(free)
    BY FreeFacts, Zenon
  <1>2. /\ f \in Seq(Nat) /\ Len(f) = m + 1 /\ f[m + 1] = n
        /\ \A i \in 1 .. m : f[i] = free[i]
    BY <1>1
  <1>3. DOMAIN f = 1 .. m + 1 /\ DOMAIN free = 1 .. m
    BY <1>1, <1>2
  <1>4. \A i, j \in 1 .. m : free[i] = free[j] => i = j
    BY <1>3, Zenon DEF IsInjective
  <1>5. \A i \in 1 .. m : free[i] # n
    BY <1>3, Zenon DEF Range
  <1>6. IsInjective(f)
    BY <1>1, <1>2, <1>3, <1>4, <1>5 DEF IsInjective
  <1>7. Range(f) = Range(free) \cup {n}
    BY <1>1, <1>2, <1>3 DEF Range
  <1>8. QED BY <1>2, <1>6, <1>7, Zenon

\* MemorySlots::map.
LEMMA SlotMapped ==
  ASSUME SlotInv, MapTypes, NEW at \in Pages, NEW len \in Nat \ {0}, NEW mem,
         MapSlot(at, len, mem)
  PROVE  SlotInv'
  <1>0. FirstSlot \in Nat /\ WinSize \in Nat \ {0} /\ next_slot \in Nat
    BY GpuMapAssumption, Zenon DEF SlotInv
  <1>1. PICK c, k0 : c = Candidate /\ k0 = [slot |-> c, at |-> at, len |-> len, mem |-> mem]
    BY Zenon
  <1>2. /\ at \notin DOMAIN mapped /\ kvm' = kvm \cup {k0}
        /\ mapped' = [a \in DOMAIN mapped \cup {at} |-> IF a = at THEN c ELSE mapped[a]]
        /\ \A k \in kvm : ~(k.at < at + len /\ at < k.at + k.len)
    BY <1>1, Zenon DEF MapSlot, Overlaps
  <1>3. k0.slot = c /\ k0.at = at /\ k0.len = len
    BY <1>1, Zenon
  <1>4. /\ free \in Seq(Nat) /\ IsInjective(free)
        /\ \A k, l \in kvm : k.slot = l.slot => k = l
        /\ {k.slot : k \in kvm} \cap Range(free) = {}
        /\ {k.slot : k \in kvm} \cup Range(free) = FirstSlot .. next_slot - 1
        /\ \A a \in DOMAIN mapped : \E k \in kvm : k.slot = mapped[a] /\ k.at = a
    BY Zenon DEF SlotInv, SlotsAccounted
  <1>5. /\ free' \in Seq(Nat) /\ IsInjective(free') /\ next_slot' \in Nat
        /\ Range(free') = Range(free) \ {c}
        /\ (FirstSlot .. next_slot' - 1) = (FirstSlot .. next_slot - 1) \cup {c}
        /\ c \notin {k.slot : k \in kvm}
        /\ FirstSlot <= next_slot'
    <2>1. CASE free = <<>>
      <3>1. c = next_slot /\ next_slot' = next_slot + 1 /\ free' = free
        BY <1>1, <2>1, Zenon DEF MapSlot, Pop, Candidate
      <3>2. Range(free) = {}
        BY <2>1 DEF Range
      <3>4. c \notin FirstSlot .. next_slot - 1
        BY <1>0, <3>1
      <3>5. FirstSlot <= next_slot
        BY Zenon DEF SlotInv
      <3>6. QED BY <1>0, <1>4, <3>1, <3>2, <3>4, <3>5
    <2>2. CASE free # <<>>
      <3>1. c = free[Len(free)] /\ next_slot' = next_slot /\ free' = SubSeq(free, 1, Len(free) - 1)
        BY <1>1, <2>2, Zenon DEF MapSlot, Pop, Candidate
      <3>2. /\ free' \in Seq(Nat) /\ IsInjective(free') /\ Range(free') = Range(free) \ {c}
            /\ c \in Range(free)
        BY <1>4, <2>2, <3>1, PopFacts, Zenon
      <3>3. QED BY <1>0, <1>4, <3>1, <3>2 DEF SlotInv
    <2>3. QED BY <2>1, <2>2, Zenon
  <1>6. \A k, l \in kvm' : k.slot = l.slot => k = l
    BY <1>2, <1>3, <1>4, <1>5
  <1>7. {k.slot : k \in kvm'} = {k.slot : k \in kvm} \cup {c}
    BY <1>2, <1>3, Zenon
  <1>8. /\ {k.slot : k \in kvm'} \cap Range(free') = {}
        /\ {k.slot : k \in kvm'} \cup Range(free') = FirstSlot .. next_slot' - 1
    BY <1>4, <1>5, <1>7, Zenon
  <1>9. \A a \in DOMAIN mapped' : \E k \in kvm' : k.slot = mapped'[a] /\ k.at = a
    BY <1>2, <1>3, <1>4, Zenon
  <1>10. \A k \in kvm' : k.at \in Pages
    BY <1>2, <1>3, Zenon DEF SlotInv
  <1>11. \A k, l \in kvm' : k # l => k.at + k.len <= l.at \/ l.at + l.len <= k.at
    <2>1. \A k \in kvm : k.at + k.len <= k0.at \/ k0.at + k0.len <= k.at
      <3> TAKE k \in kvm
      <3>1. k.at \in Nat /\ k.len \in Nat /\ at \in Nat
        BY DEF MapTypes, Pages
      <3>2. QED BY <1>2, <1>3, <3>1
    <2>2. QED BY <1>2, <2>1, Zenon DEF SlotInv
  <1>12. QED BY <1>5, <1>6, <1>8, <1>9, <1>10, <1>11, Zenon DEF SlotInv, SlotsAccounted, Pages

\* It fails, and the number is given back.
LEMMA SlotRefused ==
  ASSUME SlotInv, MapTypes, UNCHANGED <<kvm, mapped>>, UNCHANGED <<next_slot, free>> \/ GiveBack
  PROVE  SlotInv'
  <1>1. CASE UNCHANGED <<next_slot, free>>
    BY <1>1, Zenon DEF SlotInv, SlotsAccounted, Pages
  <1>2. CASE GiveBack /\ free # <<>>
    BY <1>2, Zenon DEF GiveBack, SlotInv, SlotsAccounted, Pages
  <1>3. CASE GiveBack /\ free = <<>>
    <2>0. FirstSlot \in Nat /\ WinSize \in Nat \ {0} /\ next_slot \in Nat /\ FirstSlot <= next_slot
      BY GpuMapAssumption, Zenon DEF SlotInv
    <2>1. next_slot' = next_slot + 1 /\ free' = <<next_slot>>
      BY <1>3, Zenon DEF GiveBack
    <2>2. free' \in Seq(Nat) /\ IsInjective(free') /\ Range(free') = {next_slot}
      BY <2>0, <2>1 DEF IsInjective, Range
    <2>3. {k.slot : k \in kvm} = FirstSlot .. next_slot - 1
      BY <1>3 DEF SlotInv, SlotsAccounted, Range
    <2>5. /\ {k.slot : k \in kvm} \cap Range(free') = {}
          /\ {k.slot : k \in kvm} \cup Range(free') = FirstSlot .. next_slot' - 1
          /\ next_slot' \in Nat /\ FirstSlot <= next_slot'
      <3>1. PICK S : S = {k.slot : k \in kvm}
        BY Zenon
      <3>2. S = FirstSlot .. next_slot - 1 /\ Range(free') = {next_slot} /\ next_slot' = next_slot + 1
        BY <2>1, <2>2, <2>3, <3>1, Zenon
      <3>3. S \cap {next_slot} = {} /\ S \cup {next_slot} = FirstSlot .. (next_slot + 1) - 1
        BY <2>0, <3>2
      <3>4. QED BY <2>0, <3>1, <3>2, <3>3
    <2>6. QED BY <2>2, <2>5, Zenon DEF SlotInv, SlotsAccounted, Pages
  <1>4. QED BY <1>1, <1>2, <1>3, Zenon

\* MemorySlots::unmap.
LEMMA SlotUnmapped ==
  ASSUME SlotInv, MapTypes, NEW at, UnmapSlot(at)
  PROVE  SlotInv'
  <1>1. PICK n : n = mapped[at]
    BY Zenon
  <1>2. /\ at \in DOMAIN mapped /\ kvm' = {k \in kvm : k.slot # n} /\ next_slot' = next_slot
        /\ mapped' = [a \in DOMAIN mapped \ {at} |-> mapped[a]] /\ free' = Append(free, n)
    BY <1>1, Zenon DEF UnmapSlot
  <1>3. PICK k \in kvm : k.slot = n /\ k.at = at
    BY <1>1, <1>2, Zenon DEF SlotInv, SlotsAccounted
  <1>4. n \notin Range(free) /\ n \in FirstSlot .. next_slot - 1
    BY <1>3, Zenon DEF SlotInv, SlotsAccounted
  <1>5. n \in Nat
    BY <1>4, GpuMapAssumption DEF SlotInv
  <1>6. free' \in Seq(Nat) /\ IsInjective(free') /\ Range(free') = Range(free) \cup {n}
    BY <1>2, <1>4, <1>5, PushFacts, Zenon DEF SlotInv, SlotsAccounted
  <1>7. {l.slot : l \in kvm'} = {l.slot : l \in kvm} \ {n}
    BY <1>2, Zenon
  <1>8. /\ {l.slot : l \in kvm'} \cap Range(free') = {}
        /\ {l.slot : l \in kvm'} \cup Range(free') = FirstSlot .. next_slot' - 1
    BY <1>2, <1>4, <1>6, <1>7, ZenonT(40) DEF SlotInv, SlotsAccounted
  <1>9. \A a \in DOMAIN mapped' : \E l \in kvm' : l.slot = mapped'[a] /\ l.at = a
    <2> TAKE a \in DOMAIN mapped'
    <2>1. a \in DOMAIN mapped /\ a # at /\ mapped'[a] = mapped[a]
      BY <1>2, Zenon
    <2>2. PICK l \in kvm : l.slot = mapped[a] /\ l.at = a
      BY <2>1, Zenon DEF SlotInv, SlotsAccounted
    <2>3. l.slot # n
      BY <1>3, <2>1, <2>2, Zenon DEF SlotInv, SlotsAccounted
    <2>4. QED BY <1>2, <2>1, <2>2, <2>3, Zenon
  <1>10. \A l, m \in kvm' : l.slot = m.slot => l = m
    BY <1>2, Zenon DEF SlotInv, SlotsAccounted
  <1>11. \A l \in kvm' : l.at \in Pages
    BY <1>2, Zenon DEF SlotInv
  <1>12. \A l, m \in kvm' : l # m => l.at + l.len <= m.at \/ m.at + m.len <= l.at
    BY <1>2, Zenon DEF SlotInv
  <1>13. next_slot' \in Nat /\ FirstSlot <= next_slot'
    BY <1>2, Zenon DEF SlotInv, SlotsAccounted
  <1>14. QED BY <1>6, <1>8, <1>9, <1>10, <1>11, <1>12, <1>13, Zenon DEF SlotInv, SlotsAccounted, Pages

\* KVM does not let go of it: the record goes all the same.
LEMMA SlotKept ==
  ASSUME SlotInv, UNCHANGED <<next_slot, free, kvm>>,
         \/ UNCHANGED mapped
         \/ \E at : mapped' = [a \in DOMAIN mapped \ {at} |-> mapped[a]]
  PROVE  SlotInv'
  <1>1. \A a \in DOMAIN mapped' : a \in DOMAIN mapped /\ mapped'[a] = mapped[a]
    BY Zenon
  <1>2. QED BY <1>1 DEF SlotInv, SlotsAccounted, Pages

LEMMA SlotStart == MapInit => SlotInv
  <1> SUFFICES ASSUME MapInit PROVE SlotInv
    BY Zenon
  <1>0. FirstSlot \in Nat /\ WinSize \in Nat \ {0}
    BY GpuMapAssumption, Zenon
  <1>1. DOMAIN mapped = {}
    BY DEF MapInit
  <1>2. CASE free = <<>> /\ next_slot = FirstSlot /\ kvm = {}
    <2>1. Range(free) = {} /\ IsInjective(free) /\ free \in Seq(Nat)
      BY <1>2 DEF Range, IsInjective
    <2>2. QED BY <1>0, <1>1, <1>2, <2>1 DEF SlotInv, SlotsAccounted
  <1>3. CASE free = <<FirstSlot>> /\ next_slot = FirstSlot + 1 /\ kvm = {}
    <2>1. Range(free) = {FirstSlot} /\ IsInjective(free) /\ free \in Seq(Nat)
      BY <1>0, <1>3 DEF Range, IsInjective
    <2>2. QED BY <1>0, <1>1, <1>3, <2>1 DEF SlotInv, SlotsAccounted
  <1>4. CASE /\ free = <<>> /\ next_slot = FirstSlot + 1
             /\ kvm = {[slot |-> FirstSlot, at |-> 0, len |-> WinSize, mem |-> Reservation]}
    <2>1. Range(free) = {} /\ IsInjective(free) /\ free \in Seq(Nat)
      BY <1>4 DEF Range, IsInjective
    <2> DEFINE w == [slot |-> FirstSlot, at |-> 0, len |-> WinSize, mem |-> Reservation]
    <2>a. kvm = {w} /\ w.slot = FirstSlot /\ w.at = 0
      BY <1>4, Zenon
    <2> HIDE DEF w
    <2>2. PICK k : kvm = {k} /\ k.slot = FirstSlot /\ k.at = 0
      BY <2>a, Zenon
    <2>3. 0 \in Pages
      BY <1>0 DEF Pages
    <2>4. {l.slot : l \in kvm} = {FirstSlot}
      BY <2>2, Zenon
    <2>5. QED BY <1>0, <1>1, <1>4, <2>1, <2>2, <2>3, <2>4 DEF SlotInv, SlotsAccounted
  <1>5. QED BY <1>2, <1>3, <1>4, Zenon DEF MapInit, open_window

LEMMA SlotStep == MapInv /\ SlotInv /\ [MapNext]_mapVars => SlotInv'
  <1> SUFFICES ASSUME MapInv, SlotInv, [MapNext]_mapVars PROVE SlotInv'
    BY Zenon
  <1>0. MapTypes /\ Handler
    BY Zenon DEF MapInv
  <1>1. ASSUME UNCHANGED slotvars PROVE SlotInv'
    BY <1>1, SlotKept, Zenon DEF slotvars
  <1>2. ASSUME NEW r \in Res, withdraw_mapping(r) PROVE SlotInv'
    BY <1>0, <1>1, <1>2, SlotUnmapped, Zenon DEF withdraw_mapping
  <1>3. ASSUME NEW r \in Res, UnmapBlob(r) PROVE SlotInv'
    BY <1>2, <1>3, Zenon DEF UnmapBlob
  <1>4. ASSUME NEW r \in Res, Unref(r) PROVE SlotInv'
    BY <1>1, <1>2, <1>4, Zenon DEF Unref
  <1>5. ASSUME NEW r \in Res, WithdrawRefused(r) PROVE SlotInv'
    <2>1. \/ UNCHANGED slotvars
          \/ /\ UNCHANGED <<next_slot, free, kvm>>
             /\ \/ UNCHANGED mapped
                \/ \E at : mapped' = [a \in DOMAIN mapped \ {at} |-> mapped[a]]
      BY <1>5, Zenon DEF WithdrawRefused, WithdrawFails, UnmapSlotFails
    <2>2. QED BY <1>1, <2>1, SlotKept, Zenon
  <1>6. ASSUME Publish PROVE SlotInv'
    <2>1. request.pc = "publish" /\ MapSlot(request.off, Size, Owner(request.res))
      BY <1>6, Zenon DEF Publish, At
    <2>2. NoRequest.pc # "publish"
      BY Zenon DEF NoRequest
    <2>3. request.off \in Pages /\ Size > 0 /\ request.res \in DOMAIN resources
      BY <1>0, <2>1, <2>2, Zenon DEF Handler, Mapping
    <2>4. Size \in Nat \ {0}
      BY <1>0, <2>3 DEF MapTypes, Entry, Size
    <2>5. QED BY <1>0, <2>1, <2>3, <2>4, SlotMapped, Zenon
  <1>7. ASSUME PublishFails PROVE SlotInv'
    <2>1. \/ UNCHANGED slotvars
          \/ UNCHANGED <<kvm, mapped>> /\ (UNCHANGED <<next_slot, free>> \/ GiveBack)
      BY <1>7, Zenon DEF PublishFails, MapSlotFails
    <2>2. QED BY <1>0, <1>1, <2>1, SlotRefused, Zenon
  <1>8. ASSUME \/ \E r \in Res : \/ \E size \in {0} \cup Sizes : Create(r, size)
                                 \/ \E off \in Pages : MapBlob(r, off)
               \/ \E s \in Scanouts, r \in Res \cup {NoRes} : set_scanout(s, r)
               \/ MapRefused \/ Place \/ RendererMap \/ RendererMapFails \/ Record
               \/ Unmapping \/ Unreferencing \/ activate_window \/ reset_window
        PROVE  UNCHANGED slotvars
    BY <1>8, Zenon DEF Create, MapBlob, set_scanout, MapRefused, Place, RendererMap, RendererMapFails, Record,
         Unmapping, Unreferencing, activate_window, reset_window
  <1>9. CASE UNCHANGED mapVars
    BY <1>1, <1>9, Zenon DEF mapVars
  <1>10. QED
    BY <1>1, <1>3, <1>4, <1>5, <1>6, <1>7, <1>8, <1>9, Zenon DEF MapNext

(***************************************************************************)
(* What the guest is shown.                                                *)
(***************************************************************************)

\* The memory of r is on exactly these pages.
Shown(r, placed, off, size) ==
  IF placed
  THEN window /\ \A p \in Pages : off <= p /\ p < off + size => contents[p] = Owner(r)
  ELSE \E k \in kvm : k.mem = Owner(r) /\ k.at = off /\ k.len = size

Whole == [slot |-> FirstSlot, at |-> 0, len |-> WinSize, mem |-> Reservation]

\* With the reservation, all is placed in it; without, each resource has a slot.
WindowInv ==
  /\ window => kvm = {Whole}
  /\ ~window => /\ \A p \in Pages : contents[p] = Reservation
                /\ \A k \in kvm : k.mem # Reservation

\* Mapped resources lie apart, inside the window, and the guest is shown each
\* that nobody has begun to withdraw.
StandInv ==
  /\ ~running => DOMAIN resources = {}
  /\ \A r, q \in Mapped : r # q => PagesOf(r) \cap PagesOf(q) = {}
  /\ \A r \in Mapped :
       /\ resources[r].size > 0 /\ resources[r].shmem_offset + resources[r].size <= WinSize
       /\ Stands(r) => Shown(r, resources[r].placed, resources[r].shmem_offset, resources[r].size)

\* The resource being mapped is going to pages of its own.
Begun == request.pc \in {"info", "publish", "record"}
BegunInv ==
  /\ Begun => Unused(request.off, Size)
  /\ request.pc \in {"publish", "record"} => InRange /\ Size > 0
  /\ request.pc = "record" => Shown(request.res, request.placed, request.off, Size)

ViewInv == WindowInv /\ StandInv /\ BegunInv

LEMMA MemoryFacts ==
  /\ Whole.at = 0 /\ Whole.len = WinSize /\ Whole.mem = Reservation
  /\ \A r \in Res : Owner(r) # Reservation /\ Owner(r).life = life /\ Owner(r).res = r
  /\ NoRequest.pc = "idle"
  <1>1. \A r \in Res : Owner(r).life = life /\ Owner(r).res = r
    BY Zenon DEF Owner
  <1>2. Reservation.res = NoRes
    BY Zenon DEF Reservation
  <1>3. QED BY <1>1, <1>2, GpuMapAssumption, Zenon DEF Whole, NoRequest

LEMMA MappedFacts ==
  ASSUME MapTypes, NEW r \in Mapped
  PROVE  /\ r \in Res /\ r \in DOMAIN resources
         /\ resources[r].size \in Nat /\ resources[r].shmem_offset \in Pages
         /\ resources[r].placed \in BOOLEAN
  BY GpuMapAssumption DEF MapTypes, Mapped, IsMapped, Entry, Pages, Unmapped

\* Between commands the guest sees what is recorded.
LEMMA ViewProps == MapInv /\ SlotInv /\ ViewInv => GuestView
  <1> SUFFICES ASSUME MapInv, SlotInv, ViewInv, running, request = NoRequest,
                      NEW p \in Pages, NEW r \in DOMAIN resources
               PROVE  p \in PagesOf(r) <=> View(p) = Owner(r)
    BY Zenon DEF GuestView
  <1>t. MapTypes /\ PagesOwned /\ SlotsOwned /\ WindowInv /\ StandInv /\ r \in Res
    BY Zenon DEF MapInv, MapTypes, ViewInv
  <1>n. WinSize \in Nat /\ p \in 0 .. WinSize - 1 /\ request.pc = "idle"
    BY GpuMapAssumption, MemoryFacts, Zenon DEF Pages
  <1> DEFINE hit == {k \in kvm : k.at <= p /\ p < k.at + k.len}
             c == CHOOSE k \in hit : TRUE
  <1>v. View(p) = IF hit = {} THEN Reservation
                  ELSE IF c.mem = Reservation THEN contents[p] ELSE c.mem
    BY Zenon DEF View
  <1>c. hit # {} => c \in hit
    BY Zenon
  <1>h. \A k : k \in hit <=> k \in kvm /\ k.at <= p /\ p < k.at + k.len
    BY Zenon
  <1> HIDE DEF hit, c
  <1>1. CASE window
    <2>1. kvm = {Whole}
      BY <1>1, <1>t, Zenon DEF WindowInv
    <2>2. hit = {Whole}
      BY <1>n, <1>h, <2>1, MemoryFacts
    <2>3. View(p) = contents[p]
      BY <1>v, <1>c, <2>2, MemoryFacts, Zenon
    <2>4. ASSUME p \in PagesOf(r) PROVE contents[p] = Owner(r)
      <3>1. r \in Mapped
        BY <1>n, <2>4 DEF PagesOf, Mapped, IsMapped, Unmapped
      <3>2. Stands(r)
        BY <1>n, <3>1, Zenon DEF Stands, Mapped
      <3>3. Shown(r, resources[r].placed, resources[r].shmem_offset, resources[r].size)
        BY <1>t, <3>1, <3>2, Zenon DEF StandInv
      <3>4. resources[r].placed
        BY <1>t, <2>1, <3>3, MemoryFacts, Zenon DEF Shown
      <3>5. QED BY <2>4, <3>3, <3>4, Zenon DEF Shown, PagesOf
    <2>5. ASSUME contents[p] = Owner(r) PROVE p \in PagesOf(r)
      BY <1>t, <1>n, <2>5, MemoryFacts, Zenon DEF PagesOwned
    <2>6. QED BY <2>3, <2>4, <2>5, Zenon
  <1>2. CASE ~window
    <2>1. \A k \in kvm : k.mem # Reservation
      BY <1>2, <1>t, Zenon DEF WindowInv
    <2>2. View(p) = IF hit = {} THEN Reservation ELSE c.mem
      BY <1>v, <1>c, <1>h, <2>1, Zenon
    <2>k. \A k \in kvm : k.at \in Nat /\ k.len \in Nat \ {0}
      BY <1>t, Zenon DEF MapTypes
    <2>3. ASSUME p \in PagesOf(r) PROVE View(p) = Owner(r)
      <3>1. r \in Mapped
        BY <1>n, <2>3 DEF PagesOf, Mapped, IsMapped, Unmapped
      <3>2. Stands(r)
        BY <1>n, <3>1, Zenon DEF Stands, Mapped
      <3>3. Shown(r, resources[r].placed, resources[r].shmem_offset, resources[r].size)
        BY <1>t, <3>1, <3>2, Zenon DEF StandInv
      <3>4. PICK k \in kvm : k.mem = Owner(r) /\ k.at = resources[r].shmem_offset /\ k.len = resources[r].size
        BY <1>2, <3>3, Zenon DEF Shown
      <3>5. k \in hit
        BY <1>h, <2>3, <3>4, Zenon DEF PagesOf
      <3>6. c = k
        <4>1. c \in kvm /\ c.at <= p /\ p < c.at + c.len /\ k.at <= p /\ p < k.at + k.len
          BY <1>c, <1>h, <3>5, Zenon
        <4>2. ~(c.at + c.len <= k.at) /\ ~(k.at + k.len <= c.at)
          BY <1>n, <2>k, <3>4, <4>1
        <4>3. QED BY <3>4, <4>1, <4>2, Zenon DEF SlotInv
      <3>7. QED BY <2>2, <3>4, <3>5, <3>6, Zenon
    <2>4. ASSUME View(p) = Owner(r) PROVE p \in PagesOf(r)
      <3>1. hit # {} /\ c.mem = Owner(r)
        BY <1>t, <2>2, <2>4, MemoryFacts, Zenon
      <3>2. c \in kvm /\ c.at <= p /\ p < c.at + c.len
        BY <1>c, <1>h, <3>1, Zenon
      <3>3. Stands(r) /\ ~resources[r].placed /\ resources[r].shmem_offset = c.at
        BY <1>t, <1>n, <3>1, <3>2, MemoryFacts, Zenon DEF SlotsOwned
      <3>4. r \in Mapped
        BY <3>3, ZenonT(40) DEF Stands, Mapped
      <3>5. PICK k \in kvm : k.mem = Owner(r) /\ k.at = resources[r].shmem_offset /\ k.len = resources[r].size
        BY <1>t, <3>3, <3>4, Zenon DEF StandInv, Shown
      <3>6. c = k
        <4>1. c.at = k.at
          BY <3>3, <3>5, Zenon
        <4>2. ~(c.at + c.len <= k.at) /\ ~(k.at + k.len <= c.at)
          BY <2>k, <3>2, <3>5, <4>1, SMTT(40)
        <4>3. QED BY <3>2, <3>5, <4>2, Zenon DEF SlotInv
      <3>7. QED BY <3>2, <3>3, <3>5, <3>6, Zenon DEF PagesOf
    <2>5. QED BY <2>3, <2>4, Zenon
  <1>3. QED BY <1>1, <1>2, Zenon

LEMMA ViewStart == MapInit => ViewInv
  <1> SUFFICES ASSUME MapInit PROVE ViewInv
    BY Zenon
  <1>1. DOMAIN resources = {} /\ Mapped = {} /\ request = NoRequest
    BY DEF MapInit, Mapped
  <1>2. WindowInv
    BY Zenon DEF MapInit, open_window, WindowInv, Whole
  <1>3. QED BY <1>1, <1>2, MemoryFacts, Zenon DEF ViewInv, StandInv, BegunInv, Begun

LEMMA Idle == ASSUME request.pc \notin {"info", "publish", "record"} PROVE BegunInv
  BY Zenon DEF BegunInv, Begun

\* The window is not touched, and nothing is mapped that was not.
LEMMA WindowKept ==
  ASSUME WindowInv, StandInv, UNCHANGED <<kvm, contents, window>>,
         Mapped' \subseteq Mapped, UNCHANGED life \/ Mapped' = {},
         ~running' => DOMAIN resources' = {},
         \A r \in Mapped' : /\ resources'[r].size = resources[r].size
                            /\ resources'[r].shmem_offset = resources[r].shmem_offset
                            /\ resources'[r].placed = resources[r].placed
                            /\ Stands(r)' => Stands(r)
  PROVE  WindowInv' /\ StandInv'
  <1>1. WindowInv'
    BY Zenon DEF WindowInv, Whole, Reservation, Pages
  <1>2. \A r \in Mapped' : PagesOf(r)' = PagesOf(r)
    BY Zenon DEF PagesOf, Pages
  <1>3. ASSUME NEW r \in Mapped', Stands(r)'
        PROVE  Shown(r, resources[r].placed, resources[r].shmem_offset, resources[r].size)'
    <2>1. Shown(r, resources[r].placed, resources[r].shmem_offset, resources[r].size) /\ UNCHANGED life
      BY <1>3, Zenon DEF StandInv
    <2>2. QED BY <1>3, <2>1, Zenon DEF Shown, Owner, Pages
  <1>4. StandInv'
    BY <1>2, <1>3, Zenon DEF StandInv
  <1>5. QED BY <1>1, <1>4, Zenon

\* A map begins, or is called off; a resource is destroyed that was not mapped.
LEMMA ViewQuiet ==
  ASSUME MapInv, ViewInv,
         \/ \E r \in Res, off \in Pages : MapBlob(r, off)
         \/ \E r \in Res : (Unref(r) /\ r \notin Mapped) \/ WithdrawRefused(r)
         \/ MapRefused \/ RendererMap \/ RendererMapFails
         \/ (PublishFails /\ UNCHANGED kvm)
  PROVE  ViewInv'
  <1>i. WindowInv /\ StandInv /\ BegunInv
    BY Zenon DEF ViewInv
  <1>u. UNCHANGED <<resources, kvm, contents, window, life, running>>
    BY Zenon DEF MapBlob, Unref, WithdrawRefused, WithdrawFails, UnmapSlotFails, MapRefused, RendererMap,
         RendererMapFails, PublishFails, gpuvars, slotvars
  <1>m. UNCHANGED Mapped /\ \A off, size : Unused(off, size)' = Unused(off, size)
    BY <1>u, Zenon DEF Mapped, IsMapped, Unmapped, Unused, PagesOf, Pages
  <1>p. request.pc \notin {"unmap", "unmap_unref"}
    BY MemoryFacts, Zenon DEF MapBlob, Unref, WithdrawRefused, MapRefused, RendererMap, RendererMapFails,
         PublishFails, At
  <1>s. \A r : Stands(r)' => Stands(r)
    BY <1>u, <1>p, Zenon DEF Stands, IsMapped, Unmapped
  <1>w. WindowInv' /\ StandInv'
    <2>1. ~running' => DOMAIN resources' = {}
      BY <1>u, <1>i, Zenon DEF StandInv
    <2>2. QED BY <1>u, <1>i, <1>m, <1>s, <2>1, WindowKept, Zenon
  <1>1. CASE \E r \in Res, off \in Pages : MapBlob(r, off)
    <2>1. PICK r \in Res, off \in Pages : MapBlob(r, off)
      BY <1>1, Zenon
    <2>2. request' = [pc |-> "info", res |-> r, off |-> off] /\ Unused(off, resources[r].size)
      BY <2>1, Zenon DEF MapBlob
    <2>3. request'.pc = "info" /\ request'.res = r /\ request'.off = off
      BY <2>2, Zenon
    <2>4. Unused(off, resources[r].size)'
      BY <1>u, <1>m, <2>2, Zenon
    <2>5. BegunInv'
      BY <2>3, <2>4, Zenon DEF BegunInv, Begun, Size
    <2>6. QED BY <1>w, <2>5, Zenon DEF ViewInv
  <1>2. CASE RendererMap
    <2>1. /\ request.pc = "info" /\ request' = [request EXCEPT !.pc = "publish"] /\ Size > 0 /\ InRange
      BY <1>2, Zenon DEF RendererMap, At
    <2>2. request = [pc |-> "info", res |-> request.res, off |-> request.off]
      BY <2>1, MemoryFacts, Zenon DEF MapInv, Handler, Mapping
    <2>3. request'.pc = "publish" /\ request'.res = request.res /\ request'.off = request.off
      BY <2>1, <2>2, Zenon
    <2>4. Size' = Size /\ Unused(request.off, Size)
      BY <1>u, <1>i, <2>1, <2>3, Zenon DEF Size, BegunInv, Begun
    <2>5. InRange' /\ Unused(request.off, Size)'
      BY <1>u, <1>m, <2>1, <2>3, <2>4, Zenon DEF InRange
    <2>6. BegunInv'
      BY <2>1, <2>3, <2>4, <2>5, Zenon DEF BegunInv, Begun
    <2>7. QED BY <1>w, <2>6, Zenon DEF ViewInv
  <1>3. CASE ~(\E r \in Res, off \in Pages : MapBlob(r, off)) /\ ~RendererMap
    <2>1. request' = NoRequest \/ \E r \in Res : request' = [pc |-> "unref", res |-> r]
      BY <1>3, Zenon DEF Unref, WithdrawRefused, MapRefused, RendererMapFails, PublishFails
    <2>2. request'.pc \notin {"info", "publish", "record"}
      BY <2>1 DEF NoRequest
    <2>3. QED BY <1>w, <2>2, Idle, Zenon DEF ViewInv, BegunInv, Begun
  <1>4. QED BY <1>1, <1>2, <1>3, Zenon

LEMMA ViewCreate ==
  ASSUME MapInv, ViewInv, NEW r \in Res, NEW size \in {0} \cup Sizes, Create(r, size)
  PROVE  ViewInv'
  <1>1. /\ request = NoRequest /\ request' = NoRequest /\ running /\ running' /\ r \notin objs
        /\ UNCHANGED <<kvm, contents, window, life>>
        /\ resources' = [q \in DOMAIN resources \cup {r} |->
             IF q = r THEN [size |-> size, shmem_offset |-> Unmapped, placed |-> FALSE,
                            external |-> FALSE, scanouts |-> {}]
             ELSE resources[q]]
    BY Zenon DEF Create, slotvars
  <1>2. r \notin DOMAIN resources
    BY <1>1, Zenon DEF MapInv, MapTypes
  <1>3. /\ DOMAIN resources' = DOMAIN resources \cup {r} /\ resources'[r].shmem_offset = Unmapped
        /\ \A q \in DOMAIN resources : resources'[q] = resources[q]
    BY <1>1, <1>2, ZenonT(40)
  <1>4. Mapped' = Mapped
    BY <1>2, <1>3, Zenon DEF Mapped, IsMapped, Unmapped
  <1>5. \A q \in Mapped' : resources'[q] = resources[q] /\ (Stands(q)' => Stands(q))
    BY <1>1, <1>3, <1>4, MemoryFacts, Zenon DEF Stands, Mapped, IsMapped, Unmapped
  <1>6. WindowInv' /\ StandInv'
    BY <1>1, <1>4, <1>5, WindowKept, Zenon DEF ViewInv
  <1>7. request'.pc \notin {"info", "publish", "record"}
    BY <1>1, MemoryFacts, Zenon
  <1>8. QED BY <1>6, <1>7, Zenon DEF ViewInv, BegunInv, Begun

LEMMA ViewScanout ==
  ASSUME MapInv, ViewInv, NEW s \in Scanouts, NEW r \in Res \cup {NoRes}, set_scanout(s, r)
  PROVE  ViewInv'
  <1> DEFINE New(q) == (resources[q].scanouts \ (IF scanouts[s] = q THEN {s} ELSE {}))
                       \cup (IF r = q THEN {s} ELSE {})
  <1>1. /\ request = NoRequest /\ request' = NoRequest /\ running /\ running'
        /\ UNCHANGED <<kvm, contents, window, life>>
        /\ resources' = [q \in DOMAIN resources |-> [resources[q] EXCEPT !.scanouts = New(q)]]
    BY Zenon DEF set_scanout, slotvars
  <1> HIDE DEF New
  <1>2. DOMAIN resources' = DOMAIN resources
    BY <1>1, Zenon
  <1>3. ASSUME NEW q \in DOMAIN resources
        PROVE  /\ resources'[q].size = resources[q].size
               /\ resources'[q].shmem_offset = resources[q].shmem_offset
               /\ resources'[q].placed = resources[q].placed
    BY <1>1, Zenon DEF MapInv, MapTypes, Entry
  <1>4. Mapped' = Mapped
    BY <1>2, <1>3, Zenon DEF Mapped, IsMapped, Unmapped
  <1>5. \A q \in Mapped' : q \in DOMAIN resources /\ (Stands(q)' => Stands(q))
    BY <1>1, <1>3, <1>4, MemoryFacts, Zenon DEF Stands, Mapped, IsMapped, Unmapped
  <1>6. WindowInv' /\ StandInv'
    BY <1>1, <1>3, <1>4, <1>5, WindowKept, Zenon DEF ViewInv
  <1>7. request'.pc \notin {"info", "publish", "record"}
    BY <1>1, MemoryFacts, Zenon
  <1>8. QED BY <1>6, <1>7, Zenon DEF ViewInv, BegunInv, Begun

\* The renderer's side of an unmap, and the end of a resource.
LEMMA ViewUndo ==
  ASSUME MapInv, ViewInv, Unmapping \/ Unreferencing
  PROVE  ViewInv'
  <1>1. PICK x : x = request.res
    BY Zenon
  <1>2. /\ running /\ running' /\ UNCHANGED <<kvm, contents, window, life>> /\ x \in DOMAIN resources
    BY <1>1, MemoryFacts, Zenon DEF Unmapping, Unreferencing, At, slotvars, MapInv, Handler
  <1>3. request'.pc \notin {"info", "publish", "record", "unmap", "unmap_unref"}
    <2>1. request' = NoRequest \/ request' = [pc |-> "unref", res |-> request.res]
      BY Zenon DEF Unmapping, Unreferencing
    <2>2. QED BY <2>1 DEF NoRequest
  <1>4. /\ \A q \in DOMAIN resources' : q \in DOMAIN resources /\ (q # x => resources'[q] = resources[q])
        /\ x \in DOMAIN resources' => resources'[x].shmem_offset = Unmapped
    <2>1. CASE Unmapping
      <3>1. resources' = [resources EXCEPT ![x] = Update(resources[x], Unmapped, FALSE, FALSE)]
        BY <1>1, <2>1, Zenon DEF Unmapping, Update
      <3>2. Update(resources[x], Unmapped, FALSE, FALSE).shmem_offset = Unmapped
        <4>1. Unmapped \in 0 .. WinSize /\ resources[x] \in Entry
          BY <1>2, GpuMapAssumption DEF MapInv, MapTypes, Unmapped
        <4>2. QED BY <4>1, EntryUpdate, Zenon
      <3>3. QED BY <1>2, <3>1, <3>2, Zenon
    <2>2. CASE Unreferencing
      BY <1>1, <2>2, Zenon DEF Unreferencing
    <2>3. QED BY <2>1, <2>2, Zenon
  <1>5. \A q \in Mapped' : q \in Mapped /\ q # x /\ resources'[q] = resources[q]
    BY <1>4, Zenon DEF Mapped, IsMapped, Unmapped
  <1>6. \A q \in Mapped' : Stands(q)
    BY <1>1, <1>5, Zenon DEF Stands, Mapped
  <1>7. WindowInv' /\ StandInv'
    BY <1>2, <1>5, <1>6, WindowKept, Zenon DEF ViewInv
  <1>8. QED BY <1>3, <1>7, Zenon DEF ViewInv, BegunInv, Begun

LEMMA ViewLife ==
  ASSUME MapInv, ViewInv, activate_window \/ reset_window
  PROVE  ViewInv'
  <1>1. /\ UNCHANGED <<kvm, contents, window, request>> /\ DOMAIN resources' = {}
        /\ request = NoRequest
    BY DEF activate_window, reset_window, slotvars, MapInv, Handler, ViewInv, StandInv
  <1>2. Mapped' = {}
    BY <1>1, Zenon DEF Mapped
  <1>3. WindowInv' /\ StandInv'
    BY <1>1, <1>2, WindowKept, Zenon DEF ViewInv
  <1>4. request'.pc \notin {"info", "publish", "record"}
    BY <1>1, MemoryFacts, Zenon
  <1>5. QED BY <1>3, <1>4, Zenon DEF ViewInv, BegunInv, Begun

LEMMA MappingFacts ==
  ASSUME MapInv, request.pc \in {"info", "publish", "record"}
  PROVE  /\ running /\ request.res \in DOMAIN resources /\ request.res \in Res
         /\ request.off \in Pages /\ ~IsMapped(request.res) /\ Size \in Nat
  <1>1. /\ running /\ request.res \in DOMAIN resources
        /\ request.off \in Pages /\ ~IsMapped(request.res)
    BY MemoryFacts, Zenon DEF MapInv, Handler, Mapping
  <1>2. QED BY <1>1, Zenon DEF MapInv, MapTypes, Entry, Size

LEMMA ViewPlace == ASSUME MapInv, ViewInv, Place PROVE ViewInv'
  <1>1. PICK r, off, n : r = request.res /\ off = request.off /\ n = Size
    BY Zenon
  <1>2. /\ request.pc = "info" /\ n > 0 /\ off + n <= WinSize /\ window
        /\ contents' = [p \in Pages |-> IF off <= p /\ p < off + n THEN Owner(r) ELSE contents[p]]
        /\ request' = [pc |-> "record", res |-> r, off |-> off, placed |-> TRUE]
        /\ UNCHANGED <<resources, running, window, life, kvm>>
    BY <1>1, Zenon DEF Place, At, InRange, gpuvars, slotvars
  <1>3. request'.pc = "record" /\ request'.res = r /\ request'.off = off /\ request'.placed = TRUE
    BY <1>2, Zenon
  <1>4. Size' = n /\ UNCHANGED Mapped /\ \A q : PagesOf(q)' = PagesOf(q)
    BY <1>1, <1>2, <1>3, Zenon DEF Size, Mapped, IsMapped, Unmapped, PagesOf, Pages
  <1>5. Unused(off, n)
    BY <1>1, <1>2, Zenon DEF ViewInv, BegunInv, Begun
  <1>6. \A q : Stands(q)' => Stands(q)
    BY <1>2, ZenonT(40) DEF Stands, IsMapped, Unmapped
  <1>7. WindowInv'
    BY <1>2, Zenon DEF ViewInv, WindowInv, Whole, Reservation
  <1>8. ASSUME NEW q \in Mapped, Stands(q)'
        PROVE  Shown(q, resources[q].placed, resources[q].shmem_offset, resources[q].size)'
    <2>1. Shown(q, resources[q].placed, resources[q].shmem_offset, resources[q].size)
      BY <1>6, <1>8, Zenon DEF ViewInv, StandInv
    <2>2. CASE ~resources[q].placed
      BY <1>2, <2>1, <2>2, ZenonT(40) DEF Shown, Owner
    <2>3. CASE resources[q].placed
      <3>1. \A p \in PagesOf(q) : contents[p] = Owner(q)
        BY <2>1, <2>3, Zenon DEF Shown, PagesOf
      <3>2. \A p \in PagesOf(q) : contents'[p] = contents[p]
        <4> TAKE p \in PagesOf(q)
        <4>1. p \in Pages /\ (p < off \/ off + n <= p)
          BY <1>5, <1>8, Zenon DEF Unused, PagesOf
        <4>2. off \in Pages /\ n \in Nat
          BY <1>1, <1>2, MappingFacts, Zenon
        <4>3. ~(off <= p /\ p < off + n)
          BY <4>1, <4>2 DEF Pages
        <4>4. QED BY <1>2, <4>1, <4>3, Zenon
      <3>3. \A p \in PagesOf(q) : contents'[p] = Owner(q)
        BY <3>1, <3>2, Zenon
      <3>4. QED BY <1>2, <2>3, <3>3, Zenon DEF Shown, PagesOf, Owner, Pages
    <2>4. QED BY <2>2, <2>3, Zenon
  <1>9. StandInv'
    BY <1>2, <1>4, <1>8, Zenon DEF ViewInv, StandInv
  <1>10. Shown(r, TRUE, off, n)'
    BY <1>2, Zenon DEF Shown, Owner, Pages
  <1>11. Unused(off, n)'
    BY <1>4, <1>5, Zenon DEF Unused
  <1>12. BegunInv'
    BY <1>2, <1>3, <1>4, <1>10, <1>11, Zenon DEF BegunInv, InRange
  <1>13. QED BY <1>7, <1>9, <1>12, Zenon DEF ViewInv

LEMMA ViewPublish == ASSUME MapInv, SlotInv, ViewInv, Publish PROVE ViewInv'
  <1>1. PICK r, off, n : r = request.res /\ off = request.off /\ n = Size
    BY Zenon
  <1>2. PICK k : k = [slot |-> Candidate, at |-> off, len |-> n, mem |-> Owner(r)]
    BY Zenon
  <1>3. /\ request.pc = "publish" /\ ~Overlaps(off, n) /\ kvm' = kvm \cup {k}
        /\ request' = [pc |-> "record", res |-> r, off |-> off, placed |-> FALSE]
        /\ UNCHANGED <<resources, running, window, life, contents>>
    BY <1>1, <1>2, Zenon DEF Publish, At, MapSlot, gpuvars
  <1>4. request'.pc = "record" /\ request'.res = r /\ request'.off = off /\ request'.placed = FALSE
    BY <1>3, Zenon
  <1>5. r \in Res /\ off \in Pages /\ n \in Nat /\ n > 0 /\ off + n <= WinSize /\ Unused(off, n)
    BY <1>1, <1>3, MappingFacts, Zenon DEF ViewInv, BegunInv, Begun, InRange
  <1>6. ~window
    <2>1. ASSUME window PROVE FALSE
      <3>1. Whole \in kvm
        BY <2>1, Zenon DEF ViewInv, WindowInv
      <3>2. ~(0 < off + n /\ off < 0 + WinSize)
        BY <1>3, <3>1, MemoryFacts, Zenon DEF Overlaps
      <3>3. QED BY <1>5, <3>2, GpuMapAssumption, SMTT(40) DEF Pages
    <2>2. QED BY <2>1, Zenon
  <1>7. k.at = off /\ k.len = n /\ k.mem = Owner(r) /\ k.mem # Reservation
    BY <1>2, <1>5, MemoryFacts, Zenon
  <1>8. Size' = n /\ UNCHANGED Mapped /\ \A q : PagesOf(q)' = PagesOf(q)
    BY <1>1, <1>3, <1>4, ZenonT(40) DEF Size, Mapped, IsMapped, Unmapped, PagesOf, Pages
  <1>9. \A q : Stands(q)' => Stands(q)
    BY <1>3, Zenon DEF Stands, IsMapped, Unmapped
  <1>10. WindowInv'
    BY <1>3, <1>6, <1>7, Zenon DEF ViewInv, WindowInv, Reservation, Pages
  <1>11. \A q : Owner(q)' = Owner(q)
    BY <1>3, Zenon DEF Owner
  <1>12. ASSUME NEW q, NEW b, NEW at, NEW m, Shown(q, b, at, m) PROVE Shown(q, b, at, m)'
    BY <1>3, <1>6, <1>11, <1>12, Zenon DEF Shown, Pages
  <1>13. StandInv'
    <2>1. ASSUME NEW q \in Mapped, Stands(q)'
          PROVE  Shown(q, resources[q].placed, resources[q].shmem_offset, resources[q].size)'
      <3>1. Shown(q, resources[q].placed, resources[q].shmem_offset, resources[q].size)
        BY <1>9, <2>1, Zenon DEF ViewInv, StandInv
      <3>2. PICK b, at, m : b = resources[q].placed /\ at = resources[q].shmem_offset /\ m = resources[q].size
        BY Zenon
      <3>3. Shown(q, b, at, m)'
        BY <1>12, <3>1, <3>2, Zenon
      <3>4. QED BY <1>3, <3>2, <3>3, Zenon
    <2>2. QED BY <1>3, <1>8, <2>1, Zenon DEF ViewInv, StandInv
  <1>14. Shown(r, FALSE, off, n)'
    BY <1>3, <1>7, <1>11, Zenon DEF Shown
  <1>15. Unused(off, n)'
    BY <1>5, <1>8, Zenon DEF Unused
  <1>16. BegunInv'
    BY <1>4, <1>5, <1>8, <1>14, <1>15, ZenonT(40) DEF BegunInv, InRange
  <1>17. QED BY <1>10, <1>13, <1>16, Zenon DEF ViewInv

LEMMA ViewRecord == ASSUME MapInv, ViewInv, Record PROVE ViewInv'
  <1>1. PICK r, off, n, b : r = request.res /\ off = request.off /\ n = Size /\ b = request.placed
    BY Zenon
  <1>2. /\ request.pc = "record" /\ request' = NoRequest
        /\ resources' = [resources EXCEPT ![r] = Update(resources[r], off, b, ~b)]
        /\ UNCHANGED <<running, window, life, contents, kvm>>
    BY <1>1, Zenon DEF Record, At, Update, slotvars
  <1>3. /\ r \in DOMAIN resources /\ r \in Res /\ off \in Pages /\ n \in Nat /\ ~IsMapped(r) /\ running
        /\ n > 0 /\ off + n <= WinSize /\ Unused(off, n) /\ Shown(r, b, off, n)
    BY <1>1, <1>2, MappingFacts, Zenon DEF ViewInv, BegunInv, Begun, InRange
  <1>4. b \in BOOLEAN /\ resources[r] \in Entry /\ off \in 0 .. WinSize /\ off # Unmapped
    <2>1. b \in BOOLEAN
      BY <1>1, <1>2, MemoryFacts, Zenon DEF MapInv, Handler, Mapping
    <2>2. resources[r] \in Entry
      BY <1>3, Zenon DEF MapInv, MapTypes
    <2>3. off \in 0 .. WinSize /\ off # Unmapped
      BY <1>3, GpuMapAssumption DEF Pages, Unmapped
    <2>4. QED BY <2>1, <2>2, <2>3, Zenon
  <1>5. /\ DOMAIN resources' = DOMAIN resources /\ \A q \in DOMAIN resources : q # r => resources'[q] = resources[q]
        /\ resources'[r].shmem_offset = off /\ resources'[r].size = n /\ resources'[r].placed = b
    <2>1. (~b) \in BOOLEAN
      BY <1>4, Zenon
    <2>c. PICK c \in BOOLEAN : c = (~b)
      BY <2>1, Zenon
    <2>2. PICK e : e = Update(resources[r], off, b, c)
      BY Zenon
    <2>3. e.shmem_offset = off /\ e.size = resources[r].size /\ e.placed = b
      BY <1>4, <2>2, EntryUpdate
    <2>4. resources' = [resources EXCEPT ![r] = e] /\ n = resources[r].size
      BY <1>1, <1>2, <2>c, <2>2, Zenon DEF Size
    <2>5. QED BY <1>3, <2>3, <2>4, Zenon
  <1>6. Mapped' = Mapped \cup {r} /\ r \notin Mapped
    BY <1>3, <1>4, <1>5, Zenon DEF Mapped, IsMapped, Unmapped
  <1>7. /\ \A q \in Mapped : q \in DOMAIN resources /\ q # r /\ resources'[q] = resources[q]
        /\ \A q \in Mapped : PagesOf(q)' = PagesOf(q) /\ Stands(q)
        /\ PagesOf(r)' = {p \in Pages : off <= p /\ p < off + n}
    BY <1>2, <1>5, <1>6, Zenon DEF Mapped, PagesOf, Pages, Stands
  <1>8. \A q, c, at, m : Shown(q, c, at, m)' = Shown(q, c, at, m)
    BY <1>2 DEF Shown, Owner, Pages
  <1>9. \A q \in Mapped : PagesOf(q) \cap PagesOf(r)' = {}
    <2> SUFFICES ASSUME NEW q \in Mapped, NEW p \in PagesOf(q), p \in PagesOf(r)' PROVE FALSE
      BY Zenon
    <2>1. p \in Pages /\ (p < off \/ off + n <= p) /\ off <= p /\ p < off + n
      BY <1>3, <1>7, Zenon DEF Unused, PagesOf
    <2>2. QED BY <1>3, <2>1 DEF Pages
  <1>10. \A q \in Mapped : Shown(q, resources[q].placed, resources[q].shmem_offset, resources[q].size)'
    <2> TAKE q \in Mapped
    <2>1. Shown(q, resources[q].placed, resources[q].shmem_offset, resources[q].size)
      BY <1>7, Zenon DEF ViewInv, StandInv
    <2>2. PICK c, at, m : c = resources[q].placed /\ at = resources[q].shmem_offset /\ m = resources[q].size
      BY Zenon
    <2>3. Shown(q, c, at, m)'
      BY <1>8, <2>1, <2>2, Zenon
    <2>4. QED BY <1>7, <2>2, <2>3, Zenon
  <1>11. Shown(r, resources[r].placed, resources[r].shmem_offset, resources[r].size)'
    BY <1>3, <1>5, <1>8, Zenon
  <1>12. \A q, x \in Mapped' : q # x => PagesOf(q)' \cap PagesOf(x)' = {}
    BY <1>6, <1>7, <1>9 DEF ViewInv, StandInv
  <1>13. \A q \in Mapped' : /\ resources'[q].size > 0
                            /\ resources'[q].shmem_offset + resources'[q].size <= WinSize
    BY <1>3, <1>5, <1>6, <1>7, ZenonT(40) DEF ViewInv, StandInv
  <1>14. StandInv'
    BY <1>2, <1>3, <1>6, <1>10, <1>11, <1>12, <1>13, Zenon DEF StandInv
  <1>15. WindowInv'
    BY <1>2, Zenon DEF ViewInv, WindowInv, Whole, Reservation, Pages
  <1>16. BegunInv'
    BY <1>2, MemoryFacts, Zenon DEF BegunInv, Begun, NoRequest
  <1>17. QED BY <1>14, <1>15, <1>16, Zenon DEF ViewInv

\* The guest loses r, and nothing else.
LEMMA ViewWithdraw ==
  ASSUME MapInv, SlotInv, ViewInv, NEW r \in Mapped, running, request = NoRequest, withdraw_mapping(r),
         request'.pc \in {"unmap", "unmap_unref"}, request'.res = r,
         UNCHANGED <<resources, running, life, window>>
  PROVE  ViewInv'
  <1>u. UNCHANGED <<resources, running, life, window>>
    BY Zenon
  <1>m. UNCHANGED Mapped /\ \A q : PagesOf(q)' = PagesOf(q) /\ Owner(q)' = Owner(q)
    BY <1>u, Zenon DEF Mapped, IsMapped, Unmapped, PagesOf, Pages, Owner
  <1>r. /\ r \in Res /\ resources[r].shmem_offset \in Pages /\ resources[r].size \in Nat
        /\ resources[r].size > 0 /\ Stands(r)
        /\ Shown(r, resources[r].placed, resources[r].shmem_offset, resources[r].size)
    <2>1. Stands(r)
      BY MemoryFacts, Zenon DEF Stands, Mapped
    <2>2. QED BY <2>1, MappedFacts, Zenon DEF MapInv, ViewInv, StandInv
  <1>s. \A q : Stands(q)' => q \in Mapped /\ Stands(q) /\ q # r
    BY <1>u, MemoryFacts, Zenon DEF Stands, Mapped, IsMapped, Unmapped
  <1>d. \A q \in Mapped : q # r => PagesOf(q) \cap PagesOf(r) = {}
    BY Zenon DEF ViewInv, StandInv
  <1>b. BegunInv'
    BY Zenon DEF BegunInv, Begun
  <1>0. ASSUME WindowInv',
               \A q \in Mapped : Stands(q)' =>
                 Shown(q, resources[q].placed, resources[q].shmem_offset, resources[q].size)'
        PROVE  ViewInv'
    <2>1. \A q, p \in Mapped' : q # p => (PagesOf(q) \cap PagesOf(p) = {})'
      BY <1>m, Zenon DEF ViewInv, StandInv
    <2>2. (~running => DOMAIN resources = {})'
      <3>1. ~running => DOMAIN resources = {}
        BY Zenon DEF ViewInv, StandInv
      <3>2. QED BY <1>u, <3>1, SMTT(40)
    <2>3. \A q \in Mapped' : /\ resources'[q].size > 0
                             /\ resources'[q].shmem_offset + resources'[q].size <= WinSize
      BY <1>u, <1>m, Zenon DEF ViewInv, StandInv
    <2>4. \A q \in Mapped' : (Stands(q) =>
            Shown(q, resources[q].placed, resources[q].shmem_offset, resources[q].size))'
      BY <1>0, <1>m, Zenon
    <2>5. StandInv'
      BY <2>1, <2>2, <2>3, <2>4, Zenon DEF StandInv
    <2>6. QED BY <1>0, <1>b, <2>5, Zenon DEF ViewInv
  <1>1. CASE resources[r].placed /\ Overwrite(r) /\ UNCHANGED slotvars
    <2>1. /\ UNCHANGED kvm /\ window
          /\ \A p \in Pages : p \notin PagesOf(r) => contents'[p] = contents[p]
      BY <1>1, <1>r, ZenonT(40) DEF slotvars, Overwrite, Shown
    <2>2. WindowInv'
      <3>1. kvm = {Whole} /\ UNCHANGED <<window, kvm>>
        BY <1>u, <2>1, Zenon DEF ViewInv, WindowInv
      <3>2. QED BY <2>1, <3>1 DEF WindowInv, Whole, Reservation
    <2>3. ASSUME NEW q \in Mapped, Stands(q)'
          PROVE  Shown(q, resources[q].placed, resources[q].shmem_offset, resources[q].size)'
      <3>1. Shown(q, resources[q].placed, resources[q].shmem_offset, resources[q].size) /\ q # r
        BY <1>s, <2>3, Zenon DEF ViewInv, StandInv
      <3>2. CASE ~resources[q].placed
        BY <1>u, <1>m, <2>1, <3>1, <3>2, Zenon DEF Shown
      <3>3. CASE resources[q].placed
        <4>1. \A p \in PagesOf(q) : contents[p] = Owner(q)
          BY <3>1, <3>3, Zenon DEF Shown, PagesOf
        <4>2. \A p \in PagesOf(q) : p \in Pages /\ p \notin PagesOf(r)
          BY <1>d, <3>1, Zenon DEF PagesOf
        <4>3. \A p \in PagesOf(q) : contents'[p] = Owner(q)'
          BY <1>m, <2>1, <4>1, <4>2, Zenon
        <4>4. QED BY <1>u, <2>1, <3>3, <4>3, SMTT(40) DEF Shown, PagesOf, Pages
      <3>4. QED BY <3>2, <3>3, Zenon
    <2>4. QED BY <1>0, <2>2, <2>3, Zenon
  <1>2. CASE ~resources[r].placed /\ UnmapSlot(resources[r].shmem_offset) /\ UNCHANGED contents
    <2>1. PICK at, n : at = resources[r].shmem_offset /\ n = mapped[at]
      BY Zenon
    <2>2. at \in DOMAIN mapped /\ kvm' = {k \in kvm : k.slot # n} /\ UNCHANGED contents
      BY <1>2, <2>1, Zenon DEF UnmapSlot
    <2>3. ~window
      BY <1>2, <1>r, MemoryFacts, Zenon DEF Shown, ViewInv, WindowInv
    <2>4. WindowInv'
      BY <1>u, <2>2, <2>3 DEF ViewInv, WindowInv, Reservation, Pages
    <2>5. ASSUME NEW k \in kvm, k.at # at PROVE k \in kvm'
      <3>1. PICK l \in kvm : l.slot = n /\ l.at = at
        BY <2>1, <2>2, Zenon DEF SlotInv, SlotsAccounted
      <3>2. k.slot # n
        BY <2>5, <3>1, Zenon DEF SlotInv, SlotsAccounted
      <3>3. QED BY <2>2, <3>2, Zenon
    <2>6. ASSUME NEW q \in Mapped, Stands(q)'
          PROVE  Shown(q, resources[q].placed, resources[q].shmem_offset, resources[q].size)'
      <3>1. Shown(q, resources[q].placed, resources[q].shmem_offset, resources[q].size) /\ q # r
        BY <1>s, <2>6, Zenon DEF ViewInv, StandInv
      <3>2. ~resources[q].placed
        BY <2>3, <3>1, Zenon DEF Shown
      <3>3. PICK k \in kvm : k.mem = Owner(q) /\ k.at = resources[q].shmem_offset /\ k.len = resources[q].size
        BY <3>1, <3>2, Zenon DEF Shown
      <3>4. k.at # at
        <4>1. /\ resources[q].shmem_offset \in Pages /\ resources[q].size \in Nat /\ resources[q].size > 0
          BY MappedFacts, Zenon DEF MapInv, ViewInv, StandInv
        <4>2. resources[q].shmem_offset \in PagesOf(q) /\ at \in PagesOf(r)
          BY <1>r, <2>1, <4>1, SMTT(41) DEF PagesOf, Pages
        <4>3. QED BY <1>d, <3>1, <3>3, <4>2, Zenon
      <3>5. k \in kvm'
        BY <2>5, <3>4, Zenon
      <3>6. QED BY <1>u, <1>m, <3>2, <3>3, <3>5, Zenon DEF Shown
    <2>7. QED BY <1>0, <2>4, <2>6, Zenon
  <1>3. QED BY <1>1, <1>2, Zenon DEF withdraw_mapping

LEMMA ViewStep == MapInv /\ SlotInv /\ ViewInv /\ [MapNext]_mapVars => ViewInv'
  <1> SUFFICES ASSUME MapInv, SlotInv, ViewInv, [MapNext]_mapVars PROVE ViewInv'
    BY Zenon
  <1>1. ASSUME NEW r \in Res, NEW size \in {0} \cup Sizes, Create(r, size) PROVE ViewInv'
    BY <1>1, ViewCreate, Zenon
  <1>2. ASSUME NEW r \in Res, NEW off \in Pages, MapBlob(r, off) PROVE ViewInv'
    BY <1>2, ViewQuiet, Zenon
  <1>3. ASSUME NEW r \in Res, UnmapBlob(r) PROVE ViewInv'
    <2>1. /\ running /\ request = NoRequest /\ r \in Mapped /\ withdraw_mapping(r)
          /\ request' = [pc |-> "unmap", res |-> r] /\ UNCHANGED <<resources, running, life, window>>
      BY <1>3, Zenon DEF UnmapBlob, gpuvars
    <2>2. request'.pc = "unmap" /\ request'.res = r
      BY <2>1, Zenon
    <2>3. QED BY <2>1, <2>2, ViewWithdraw, Zenon
  <1>4. ASSUME NEW r \in Res, Unref(r), r \in Mapped PROVE ViewInv'
    <2>1. /\ running /\ request = NoRequest /\ withdraw_mapping(r)
          /\ request' = [pc |-> "unmap_unref", res |-> r] /\ UNCHANGED <<resources, running, life, window>>
      BY <1>4, Zenon DEF Unref, gpuvars
    <2>2. request'.pc = "unmap_unref" /\ request'.res = r
      BY <2>1, Zenon
    <2>3. QED BY <1>4, <2>1, <2>2, ViewWithdraw, Zenon
  <1>5. ASSUME NEW r \in Res, (Unref(r) /\ r \notin Mapped) \/ WithdrawRefused(r) PROVE ViewInv'
    BY <1>5, ViewQuiet, Zenon
  <1>6. ASSUME NEW s \in Scanouts, NEW r \in Res \cup {NoRes}, set_scanout(s, r) PROVE ViewInv'
    BY <1>6, ViewScanout, Zenon
  <1>7. CASE MapRefused \/ RendererMap \/ RendererMapFails
    BY <1>7, ViewQuiet, Zenon
  <1>8. CASE PublishFails
    <2>1. UNCHANGED kvm
      BY <1>8, Zenon DEF PublishFails, MapSlotFails, slotvars
    <2>2. QED BY <1>8, <2>1, ViewQuiet, Zenon
  <1>9. CASE Place \/ Publish \/ Record
    BY <1>9, ViewPlace, ViewPublish, ViewRecord, Zenon
  <1>10. CASE Unmapping \/ Unreferencing
    BY <1>10, ViewUndo, Zenon
  <1>11. CASE activate_window \/ reset_window
    BY <1>11, ViewLife, Zenon
  <1>12. CASE UNCHANGED mapVars
    <2>1. UNCHANGED <<kvm, contents, life, running, resources, request, window>>
      BY <1>12, Zenon DEF mapVars, gpuvars, slotvars
    <2>2. WindowInv' /\ StandInv'
      <3>1. Mapped' = Mapped /\ \A r : Stands(r)' => Stands(r)
        BY <2>1, Zenon DEF Mapped, IsMapped, Unmapped, Stands
      <3>2. ~running' => DOMAIN resources' = {}
        BY <2>1, Zenon DEF ViewInv, StandInv
      <3>3. QED BY <2>1, <3>1, <3>2, WindowKept, Zenon DEF ViewInv
    <2>3. BegunInv'
      BY <2>1, Zenon DEF ViewInv, BegunInv, Begun, Unused, Mapped, IsMapped, Unmapped, PagesOf, Pages, Size,
           InRange, Shown, Owner
    <2>4. QED BY <2>2, <2>3, Zenon DEF ViewInv
  <1>13. QED
    BY <1>1, <1>2, <1>3, <1>4, <1>5, <1>6, <1>7, <1>8, <1>9, <1>10, <1>11, <1>12, Zenon DEF MapNext

(***************************************************************************)
(* Between two commands, the guest reaches on every page exactly what is   *)
(* recorded there, whichever way resource_map_blob mapped it and whatever  *)
(* failed, for every size of the window and any resources.                 *)
(***************************************************************************)
THEOREM GuestSeesItsBlobs == MapSpec => []GuestView
  <1>1. MapInit => MapInv /\ SlotInv /\ ViewInv
    BY MapStart, SlotStart, ViewStart, Zenon
  <1>2. MapInv /\ SlotInv /\ ViewInv /\ [MapNext]_mapVars => (MapInv /\ SlotInv /\ ViewInv)'
    BY MapStep, SlotStep, ViewStep, Zenon
  <1>3. MapInv /\ SlotInv /\ ViewInv => GuestView
    BY ViewProps, Zenon
  <1>4. QED
    BY <1>1, <1>2, <1>3, PTL DEF MapSpec
=============================================================================
