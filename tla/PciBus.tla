------------------------------- MODULE PciBus -------------------------------
(***************************************************************************)
(* The PCI bus (pci/src/lib.rs): placing BARs, vCPUs that size and move    *)
(* them through the config registers, and the doorbells KVM answers, which *)
(* have to follow their BAR.                                               *)
(*                                                                         *)
(* A BAR write takes the locks of devices, mmio_regions and registered one *)
(* after the other, so it is three steps and two vCPUs interleave.  An     *)
(* address is hi * LoMod + lo, the two config registers of a 64-bit BAR.   *)
(***************************************************************************)
EXTENDS Naturals, Sequences, FiniteSetsExt, Functions

CONSTANTS
    Devices,            \* the devices in the order they are added: sequences of BARs
    BarInfo,            \* BAR -> [idx, size, wide, doors]: offsets of its doorbells
    Window32, Window64, \* [start, end]
    LoMod,              \* 2^32
    MaxDevices,         \* device numbers on the bus
    Vcpus,
    RegisterFails,      \* whether KVM may refuse an ioeventfd
    MaxMoves            \* bound: reassignments by the guest

Bars == DOMAIN BarInfo
PowerOfTwo(n) == \E k \in 0 .. n : 2^k = n

\* A BAR belongs to one device.  The windows lie on either side of LoMod, and the
\* 64-bit one begins and ends where the low register wraps.  LoMod is a power of two,
\* so of it and a size that is one too, one divides the other.
ASSUME PciAssumption ==
    /\ Devices \in Seq(Seq(Bars))
    /\ Bars = UNION {Range(Devices[i]) : i \in DOMAIN Devices}
    /\ \A i, j \in DOMAIN Devices : i # j => Range(Devices[i]) \cap Range(Devices[j]) = {}
    /\ LoMod \in Nat \ {0}
    /\ \A b \in Bars :
          /\ BarInfo[b].size \in Nat \ {0} /\ BarInfo[b].wide \in BOOLEAN /\ BarInfo[b].doors \subseteq Nat
          /\ PowerOfTwo(BarInfo[b].size) => \E k \in 1 .. LoMod + BarInfo[b].size :
                LoMod = k * BarInfo[b].size \/ BarInfo[b].size = k * LoMod
    /\ Window32.start \in Nat /\ Window32.end \in 0 .. LoMod
    /\ Window64.start \in Nat /\ Window64.end \in Nat /\ LoMod <= Window64.start
    /\ Window64.start % LoMod = 0 /\ Window64.end % LoMod = 0

Doors(b) == {<<b, o>> : o \in BarInfo[b].doors}
Window(b) == IF BarInfo[b].wide THEN Window64 ELSE Window32
InWindow(w, a) == w.start <= a /\ a < w.end

VARIABLES
    added, failed,  \* devices added so far; whether adding one was refused
    bars,           \* PciDeviceEntry.bars: BAR -> address
    probing,        \* <<BAR, half>> written with all ones and not read since
    regions,        \* mmio_regions: BAR -> base
    registered,     \* doorbell -> address, of the doorbells KVM once accepted
    kernel,         \* <<doorbell, address>>: what KVM answers
    vcpu,           \* where each vCPU is in a reassignment
    moves,
    refused,        \* history: doorbells KVM refused when their BAR moved
    astray          \* history: BARs a refused write left where nobody put them

vars == <<added, failed, bars, probing, regions, registered, kernel, vcpu, moves, refused, astray>>

-----------------------------------------------------------------------------
(* Adding devices *)

\* What the i-th BAR of a device has to be behind: the start of its window, what
\* earlier devices have there, and the device's own earlier BARs.
Floors(device, at, i) ==
    LET w    == Window(device[i])
        same == {j \in 1 .. i - 1 : BarInfo[device[j]].wide = BarInfo[device[i]].wide}
    IN {w.start}
       \cup {regions[c] + BarInfo[c].size : c \in {d \in DOMAIN regions : InWindow(w, regions[d])}}
       \cup {at[device[j]] + BarInfo[device[j]].size : j \in same}

\* The highest of them, aligned up.
AlignedUp(a, floors, size) ==
    /\ a % size = 0
    /\ \A f \in floors : f <= a
    /\ \E f \in floors : a < f + size

\* One BAR after the other, if each has a size and a register to encode it and fits.
Place(device, at) ==
    \A i \in DOMAIN device :
        LET b == device[i] IN
        /\ AlignedUp(at[b], Floors(device, at, i), BarInfo[b].size)
        /\ PowerOfTwo(BarInfo[b].size)
        /\ at[b] + BarInfo[b].size <= Window(b).end
        /\ ~(BarInfo[b].wide /\ BarInfo[b].idx = 5)

Placements(device) == {at \in [Range(device) -> 0 .. Max({Window32.end, Window64.end})] : Place(device, at)}

\* KVM has one answer per address.
Free(K, a) == \A k \in K : k[2] # a

\* Later of two functions.
Extend(f, g) == [x \in DOMAIN f \cup DOMAIN g |-> IF x \in DOMAIN g THEN g[x] ELSE f[x]]

add_device ==
    /\ added < Len(Devices) /\ ~failed
    /\ LET device == Devices[added + 1]
           doors  == UNION {Doors(b) : b \in Range(device)}
       IN IF added < MaxDevices /\ Placements(device) # {}
          THEN \E at \in Placements(device) : \E ok \in SUBSET doors :
                  LET At(d) == at[d[1]] + d[2] IN
                  /\ added' = added + 1
                  /\ bars' = Extend(bars, at) /\ regions' = Extend(regions, at)
                  /\ ok = {d \in doors : Free(kernel, At(d))} \/ RegisterFails
                  /\ registered' = Extend(registered, [d \in ok |-> At(d)])
                  /\ kernel' = kernel \cup {<<d, At(d)>> : d \in ok}
                  /\ UNCHANGED failed
          ELSE failed' = TRUE /\ UNCHANGED <<added, bars, regions, registered, kernel>>
    /\ UNCHANGED <<probing, vcpu, moves, refused, astray>>

-----------------------------------------------------------------------------
(* The guest *)

Idle == [at |-> "idle"]
Booted == added = Len(Devices)
Overlap(a, m, b, n) == a < b + n /\ b < a + m

\* The guest gives a BAR a new, aligned and free address, inside the window or not.  One
\* vCPU at a time works on a BAR; until it is done its old and new place are taken.
Choose(v, b, a) ==
    /\ Booted /\ moves < MaxMoves /\ probing = {}
    /\ vcpu[v] = Idle /\ a % BarInfo[b].size = 0 /\ a # bars[b]
    /\ \A u \in Vcpus : vcpu[u] # Idle =>
          /\ vcpu[u].bar # b
          /\ \A t \in {vcpu[u].old, vcpu[u].target} :
                ~Overlap(a, BarInfo[b].size, t, BarInfo[vcpu[u].bar].size)
    /\ \A c \in Bars \ {b} : ~Overlap(a, BarInfo[b].size, bars[c], BarInfo[c].size)
    /\ vcpu' = [vcpu EXCEPT ![v] = [at |-> "lo", bar |-> b, target |-> a, old |-> bars[b],
                                    from |-> 0, to |-> 0,
                                    rest |-> IF BarInfo[b].wide THEN "hi" ELSE "idle"]]
    /\ moves' = moves + 1
    /\ UNCHANGED <<added, failed, bars, probing, regions, registered, kernel, refused, astray>>

\* A register written with all ones, and read back; the guest sizes one at a time,
\* while it moves nothing.
Probe(b, half) ==
    /\ Booted /\ probing = {} /\ \A v \in Vcpus : vcpu[v] = Idle
    /\ half = "hi" => BarInfo[b].wide
    /\ probing' = probing \cup {<<b, half>>}
    /\ UNCHANGED <<added, failed, bars, regions, registered, kernel, vcpu, moves, refused, astray>>

config_read(b, half) ==
    /\ <<b, half>> \in probing
    /\ probing' = probing \ {<<b, half>>}
    /\ UNCHANGED <<added, failed, bars, regions, registered, kernel, vcpu, moves, refused, astray>>

-----------------------------------------------------------------------------
(* config_write of a BAR register *)

\* Mutant: the other half is taken for zero.
Requested_half(b, half, target) ==
    LET a == IF half = "hi" THEN (target \div LoMod) * LoMod ELSE target % LoMod
    IN a - (a % BarInfo[b].size)

\* What the register's value asks for; the other half is kept.
Requested(b, half, target) ==
    LET a == IF half = "hi" THEN (bars[b] % LoMod) + (target \div LoMod) * LoMod
                            ELSE (bars[b] \div LoMod) * LoMod + (target % LoMod)
    IN a - (a % BarInfo[b].size)

\* The vCPU's next register write, or none.  A BAR that is then neither where
\* it was nor where it should go has one half of each.
Then(v) ==
    LET b == vcpu[v].bar IN
    IF vcpu[v].rest = "idle"
    THEN /\ vcpu' = [vcpu EXCEPT ![v] = Idle]
         /\ astray' = CASE bars'[b] = vcpu[v].target -> astray \ {b}
                        [] bars'[b] = vcpu[v].old -> astray
                        [] OTHER -> astray \cup {b}
    ELSE /\ vcpu' = [vcpu EXCEPT ![v].at = "hi", ![v].rest = "idle"]
         /\ UNCHANGED astray

Decodes(b, a) == InWindow(Window(b), a)

\* Under the devices lock.
config_write(v) ==
    /\ vcpu[v].at \in {"lo", "hi"}
    /\ LET b == vcpu[v].bar
           a == Requested(b, vcpu[v].at, vcpu[v].target)
       IN IF Decodes(b, a) /\ a # bars[b]
          THEN /\ bars' = [bars EXCEPT ![b] = a]
               /\ vcpu' = [vcpu EXCEPT ![v] = [@ EXCEPT !.at = "regions", !.from = bars[b], !.to = a]]
               /\ UNCHANGED astray
          ELSE UNCHANGED bars /\ Then(v)
    /\ UNCHANGED <<added, failed, probing, regions, registered, kernel, moves, refused>>

\* Under the mmio_regions lock.
move_region(v) ==
    /\ vcpu[v].at = "regions"
    /\ regions' = [regions EXCEPT ![vcpu[v].bar] = vcpu[v].to]
    /\ vcpu' = [vcpu EXCEPT ![v].at = "doorbells"]
    /\ UNCHANGED <<added, failed, bars, probing, registered, kernel, moves, refused, astray>>

saturating_sub(a, b) == IF a < b THEN 0 ELSE a - b

\* Mutant: the old address stays registered.
Unregister_kept(K, gone) == K

Unregister(K, gone) == K \ gone

\* Under the registered lock: each doorbell is taken from its old address and
\* offered to KVM at the new one; one that is refused keeps its old record.
move_doorbells_from(v) ==
    /\ vcpu[v].at = "doorbells"
    /\ LET mine  == {d \in DOMAIN registered : d[1] = vcpu[v].bar}
           To(d) == vcpu[v].to + saturating_sub(registered[d], vcpu[v].from)
           todo  == {d \in mine : To(d) # registered[d]}
           K     == Unregister(kernel, {<<d, registered[d]>> : d \in todo})
       IN \E ok \in SUBSET todo :
             /\ ok = {d \in todo : Free(K, To(d))} \/ RegisterFails
             /\ registered' = [d \in DOMAIN registered |-> IF d \in ok THEN To(d) ELSE registered[d]]
             /\ kernel' = K \cup {<<d, To(d)>> : d \in ok}
             /\ refused' = refused \cup (todo \ ok)
    /\ UNCHANGED <<added, failed, bars, probing, regions, moves>>
    /\ Then(v)

-----------------------------------------------------------------------------
Init ==
    /\ added = 0 /\ failed = FALSE
    /\ bars = <<>> /\ regions = <<>> /\ registered = <<>>
    /\ probing = {} /\ kernel = {}
    /\ vcpu = [v \in Vcpus |-> Idle] /\ moves = 0 /\ refused = {} /\ astray = {}

Next ==
    \/ add_device
    \/ \E v \in Vcpus, b \in Bars : \E a \in {0} \cup Window(b).start .. Window(b).end : Choose(v, b, a)
    \/ \E b \in Bars, half \in {"lo", "hi"} : Probe(b, half) \/ config_read(b, half)
    \/ \E v \in Vcpus : config_write(v) \/ move_region(v) \/ move_doorbells_from(v)

Spec == Init /\ [][Next]_vars

-----------------------------------------------------------------------------
(* Properties *)

Settled(b) == \A v \in Vcpus : vcpu[v] # Idle => vcpu[v].bar # b

\* The allocator and the moves keep the BARs nobody is moving apart: no guest
\* access can reach two devices, save where a guest asked for an address outside the
\* window and the bus had already taken one half of it.
Disjoint ==
    \A b, c \in DOMAIN bars \ astray :
        b # c /\ Settled(b) /\ Settled(c) => ~Overlap(bars[b], BarInfo[b].size, bars[c], BarInfo[c].size)

\* When no vCPU is at work on a BAR, accesses are dispatched where its registers
\* say, although the two are updated under different locks.
DispatchFollows == \A b \in DOMAIN bars : Settled(b) => regions[b] = bars[b]

\* A doorbell KVM takes at every move stays at its offset within the BAR: KVM
\* answers no other register of the device, and no address it no longer decodes.
DoorbellAtOffset ==
    \A k \in kernel : LET d == k[1] IN
        Settled(d[1]) /\ d \notin refused => k[2] = bars[d[1]] + d[2]

\* "A doorbell is defined by its offset within the BAR, and that is what survives
\* the move" (move_doorbells_from), of every doorbell KVM answers.
OffsetSurvives ==
    \A k \in kernel : LET d == k[1] IN Settled(d[1]) => k[2] = bars[d[1]] + d[2]

\* A vCPU that has written both halves finds the BAR where it asked for it,
\* if the bus decodes that address, although the first half alone names another.
LandsWhereAsked ==
    \A v \in Vcpus :
        /\ vcpu[v] # Idle /\ vcpu'[v] = Idle
        /\ InWindow(Window(vcpu[v].bar), vcpu[v].target)
        => bars'[vcpu[v].bar] = vcpu[v].target

\* BARs are moved soundly: they stay apart, accesses follow them, and a vCPU
\* gets the address it asked for.
MovesSound == []Disjoint /\ []DispatchFollows /\ [][LandsWhereAsked]_vars
=============================================================================
