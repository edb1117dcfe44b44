---------------------------- MODULE GuestMemory ----------------------------
(***************************************************************************)
(* How a machine's memory is laid out, backed and filled before it runs:   *)
(* Vm::new of vm.rs with layout.rs, boot.rs, acpi.rs and regs.rs, and the  *)
(* prefault thread that Vm::new leaves running beside the guest.           *)
(*                                                                         *)
(* Guest and host addresses, file offsets and sizes are in units.          *)
(***************************************************************************)
EXTENDS Naturals, Sequences, FiniteSets, SequencesExt

CONSTANTS
    HoleStart, HoleEnd,         \* MMIO_HOLE_START, MMIO_HOLE_END
    PciEnd,                     \* PCI_MMIO_END, where ECAM starts
    EcamSize, AcpiSize,         \* MMCONFIG_SIZE, ACPI_SIZE
    MaxWindow,                  \* PCI_MMIO64_MAX_SIZE
    Huge,                       \* HUGE_ALIGN
    MemSizes, Addressables,     \* what the configuration and the CPU may say
    HostTop, HostTaken,         \* bound: host addresses, and those in use elsewhere
    TableEntries,               \* entries of a page table
    BootVcpus                   \* vcpu_count

ASSUME MemoryAssumption ==
    /\ {HoleStart, HoleEnd, PciEnd, EcamSize, AcpiSize, MaxWindow, Huge, HostTop,
        TableEntries, BootVcpus} \subseteq Nat \ {0}
    /\ HoleStart < PciEnd /\ PciEnd + EcamSize <= HoleEnd
    /\ MemSizes \subseteq Nat /\ \A m \in MemSizes : AcpiSize <= m
    /\ AcpiSize <= HoleStart
    \* an x86-64 CPU addresses 36 bits or more
    /\ Addressables \subseteq Nat /\ \A a \in Addressables : 4 * HoleEnd <= 3 * a
    /\ HoleStart % Huge = 0 /\ HoleEnd % Huge = 0

VARIABLES
    phase,          \* where Vm::new is, "up" or "failed"
    memSize, addressable, thp, wantPrefault,
    backed,         \* the RAM regions mapped so far, with offset in the file and host address
    hostUsed,       \* host addresses in use
    slots,          \* KVM memory slots
    crs,            \* the windows the DSDT tells the guest of
    e820,           \* the memory map the kernel is given
    tables,         \* the page tables: pml4, pdpt and pde entries present
    vcpuRegs,       \* vCPUs created, in order: "boot" or "reset"
    filler,         \* the prefault thread: "none", "populate", "collapse" or "done"
    cursor,         \* its place: region, and block of all the regions
    pages,          \* what backs a block: "none", "small" or "huge"
    denied,        \* blocks that would not collapse
    unable          \* it stopped: populate failed, or the kernel cannot collapse

memoryVars == <<phase, memSize, addressable, thp, wantPrefault, backed, hostUsed, slots, crs,
                e820, tables, vcpuRegs, filler, cursor, pages, denied, unable>>

choice == <<memSize, addressable, thp, wantPrefault>>
fillVars == <<filler, cursor, pages, denied, unable>>

Span(from, size) == from .. (from + size - 1)
Least(a, b) == IF a < b THEN a ELSE b

------------------------------------------------------------------------------
(* layout.rs *)

mmio64_window(space) ==
    LET size == Least(MaxWindow, space \div 4) IN [start |-> space - size, size |-> size]

fits_above(window, top) == top <= window.start

\* High RAM that starts where low RAM ends.
ram_regions_flat(size) ==
    IF size <= HoleStart THEN <<[start |-> 0, size |-> size]>>
    ELSE <<[start |-> 0, size |-> HoleStart], [start |-> HoleStart, size |-> size - HoleStart]>>

ram_regions(size) ==
    IF size <= HoleStart THEN <<[start |-> 0, size |-> size]>>
    ELSE <<[start |-> 0, size |-> HoleStart], [start |-> HoleEnd, size |-> size - HoleStart]>>

ram_top(size) == LET last == Last(ram_regions(size)) IN last.start + last.size

acpi_start(size) == Least(size, HoleStart) - AcpiSize

Regions == ram_regions(memSize)
window64 == mmio64_window(addressable)

------------------------------------------------------------------------------
(* Vm::new *)

Fail == phase' = "failed"

\* The window is placed at the top of what the CPU addresses.
CheckWindow ==
    /\ phase = "new"
    /\ IF fits_above(window64, ram_top(memSize)) THEN phase' = "map" ELSE Fail
    /\ UNCHANGED <<choice, backed, hostUsed, slots, crs, e820, tables, vcpuRegs, fillVars>>

FileOffset == FoldSeq(LAMBDA r, sum : sum + r.size, 0, backed)

RoundUp(base) == ((base + Huge - 1) \div Huge) * Huge

\* mmap_aligned: `size` plus an alignment is reserved where the kernel likes, the
\* file mapped over the first aligned address inside it, the slack handed back.
mmap_aligned(base, size) == hostUsed' = hostUsed \cup Span(RoundUp(base), size)

Rooms(size) == {base \in 0 .. (HostTop - size) : Span(base, size) \cap hostUsed = {}}

\* map_ram for the next region; memory of the host may run out.
MapRam ==
    /\ phase = "map"
    /\ LET region == Regions[Len(backed) + 1]
       IN \/ \E base \in Rooms(region.size + Huge) :
                /\ mmap_aligned(base, region.size)
                /\ backed' = Append(backed, region @@ [offset |-> FileOffset, host |-> RoundUp(base)])
                /\ phase' = IF Len(backed') = Len(Regions) THEN "slots" ELSE phase
          \/ Fail /\ UNCHANGED <<backed, hostUsed>>
    /\ UNCHANGED <<choice, slots, crs, e820, tables, vcpuRegs, fillVars>>

Blocks(regions) ==
    FoldSeq(LAMBDA r, sum : sum + ((r.size + Huge - 1) \div Huge), 0, regions)

SetSlots ==
    /\ phase = "slots"
    /\ slots' = [i \in DOMAIN backed |->
                   [guest |-> backed[i].start, size |-> backed[i].size, host |-> backed[i].host]]
    /\ pages' = [b \in 1 .. Blocks(backed) |-> "none"]
    /\ filler' = IF wantPrefault THEN "populate" ELSE "none"
    /\ phase' = "kernel"
    /\ UNCHANGED <<choice, backed, hostUsed, crs, e820, tables, vcpuRegs, cursor, denied, unable>>

\* A file that is no kernel, or one that does not fit, ends it.
LoadKernel ==
    /\ phase = "kernel"
    /\ phase' \in {"acpi", "failed"}
    /\ UNCHANGED <<choice, backed, hostUsed, slots, crs, e820, tables, vcpuRegs, fillVars>>

\* The host bridge decodes the two windows the BAR allocator hands out of.
build_dsdt == {[start |-> HoleStart, size |-> PciEnd - HoleStart], window64}

SetupAcpi ==
    /\ phase = "acpi"
    /\ crs' = build_dsdt
    /\ phase' = "boot"
    /\ UNCHANGED <<choice, backed, hostUsed, slots, e820, tables, vcpuRegs, fillVars>>

E820(start, size, type) == [start |-> start, size |-> size, type |-> type]

SetupBootParams ==
    /\ phase = "boot"
    /\ LET first == Regions[1]
           acpi  == acpi_start(first.start + first.size)
       IN e820' = {E820(PciEnd, EcamSize, "reserved"),
                   E820(first.start, acpi - first.start, "ram"),
                   E820(acpi, AcpiSize, "acpi")}
                  \cup {E820(Regions[i].start, Regions[i].size, "ram") : i \in 2 .. Len(Regions)}
    /\ phase' = "vcpus"
    /\ UNCHANGED <<choice, backed, hostUsed, slots, crs, tables, vcpuRegs, fillVars>>

\* setup_page_tables: one entry in the PML4 and one in the PDPT, and two page
\* directories' worth of entries behind it.
setup_page_tables ==
    [pml4 |-> {0}, pdpt |-> {0}, pde |-> 0 .. (2 * TableEntries - 1)]

\* The bootstrap processor is put into long mode at the entry point, the others
\* are left as KVM made them.
CreateVcpu ==
    /\ phase = "vcpus"
    /\ IF vcpuRegs = <<>>
         THEN tables' = setup_page_tables /\ vcpuRegs' = <<"boot">>
         ELSE UNCHANGED tables /\ vcpuRegs' = Append(vcpuRegs, "reset")
    /\ phase' = IF Len(vcpuRegs') = BootVcpus THEN "up" ELSE phase
    /\ UNCHANGED <<choice, backed, hostUsed, slots, crs, e820, fillVars>>

------------------------------------------------------------------------------
(* spawn_prefault, and the guest that runs beside it. *)

building == <<phase, choice, backed, hostUsed, slots, crs, e820, tables, vcpuRegs>>

\* What a fault leaves: a huge page if the policy allows and there is one to hand.
Faulted == IF thp = "hugetlb" THEN {"huge"} ELSE IF thp = "OnFault" THEN {"small", "huge"} ELSE {"small"}

BlocksOf(i) ==
    LET before == Blocks(SubSeq(backed, 1, i - 1)) IN Span(before + 1, Blocks(<<backed[i]>>))

\* MADV_POPULATE_WRITE of one region; what the guest reached first stays.
Populate ==
    /\ filler = "populate"
    /\ LET i == cursor.region + 1
       IN \/ /\ \E page \in Faulted :
                    pages' = [b \in DOMAIN pages |->
                                IF b \in BlocksOf(i) /\ pages[b] = "none" THEN page ELSE pages[b]]
             /\ cursor' = [cursor EXCEPT !.region = i]
             /\ filler' = CASE i < Len(backed) -> "populate"
                            [] i = Len(backed) /\ thp \in {"hugetlb", "Denied"} -> "done"
                            [] OTHER -> "collapse"
             /\ UNCHANGED unable
          \/ filler' = "done" /\ unable' = TRUE /\ UNCHANGED <<pages, cursor>>
    /\ UNCHANGED <<building, denied>>

\* Gives up at the first block that will not collapse.
CollapseGivesUp ==
    /\ filler = "collapse"
    /\ LET b == cursor.block + 1
       IN \/ b \notin DOMAIN pages /\ filler' = "done" /\ UNCHANGED <<pages, cursor, denied, unable>>
          \/ /\ b \in DOMAIN pages /\ cursor' = [cursor EXCEPT !.block = b]
             /\ \/ pages' = [pages EXCEPT ![b] = "huge"] /\ UNCHANGED <<filler, denied, unable>>
                \/ denied' = denied \cup {b} /\ filler' = "done" /\ UNCHANGED <<pages, unable>>
          \/ b \in DOMAIN pages /\ unable' = TRUE /\ filler' = "done"
             /\ UNCHANGED <<pages, cursor, denied>>
    /\ UNCHANGED building

\* MADV_COLLAPSE, one huge page at a time: done, denied, or EINVAL from a kernel
\* that will not collapse at all.
Collapse ==
    /\ filler = "collapse"
    /\ LET b == cursor.block + 1
       IN \/ b \notin DOMAIN pages /\ filler' = "done" /\ UNCHANGED <<pages, cursor, denied, unable>>
          \/ /\ b \in DOMAIN pages /\ cursor' = [cursor EXCEPT !.block = b]
             /\ \/ pages' = [pages EXCEPT ![b] = "huge"] /\ UNCHANGED denied
                \/ denied' = denied \cup {b} /\ UNCHANGED pages
             /\ UNCHANGED <<filler, unable>>
          \/ b \in DOMAIN pages /\ unable' = TRUE /\ filler' = "done"
             /\ UNCHANGED <<pages, cursor, denied>>
    /\ UNCHANGED building

GuestTouches ==
    /\ phase = "up"
    /\ \E b \in DOMAIN pages, page \in Faulted :
          pages[b] = "none" /\ pages' = [pages EXCEPT ![b] = page]
    /\ UNCHANGED <<building, filler, cursor, denied, unable>>

------------------------------------------------------------------------------
MemoryStart ==
    /\ phase = "new" /\ backed = <<>> /\ hostUsed = HostTaken /\ slots = <<>> /\ crs = {}
    /\ e820 = {} /\ tables = [pml4 |-> {}, pdpt |-> {}, pde |-> {}] /\ vcpuRegs = <<>>
    /\ filler = "none" /\ cursor = [region |-> 0, block |-> 0] /\ pages = <<>>
    /\ denied = {} /\ unable = FALSE

MemoryInit ==
    /\ MemoryStart
    /\ memSize \in MemSizes /\ addressable \in Addressables
    /\ thp \in {"OnFault", "CollapseOnly", "Denied", "hugetlb"} /\ wantPrefault \in BOOLEAN

MemoryNext ==
    \/ CheckWindow \/ MapRam \/ SetSlots \/ LoadKernel \/ SetupAcpi \/ SetupBootParams \/ CreateVcpu
    \/ Populate \/ Collapse \/ GuestTouches

MemorySpec == MemoryInit /\ [][MemoryNext]_memoryVars

------------------------------------------------------------------------------
(* Properties. *)

SpanOf(r) == Span(r.start, r.size)
Ram == UNION {SpanOf(Regions[i]) : i \in DOMAIN Regions}

\* What the guest is told when it starts: the memory map names exactly the RAM
\* there is, no more and no less than was asked for, nothing in it twice; the
\* windows its bridge decodes meet neither RAM, ECAM nor each other.
MapIsTrue ==
    phase = "up" =>
        /\ Cardinality(Ram) = memSize
        /\ UNION {SpanOf(e) : e \in {x \in e820 : x.type # "reserved"}} = Ram
        /\ \A e, f \in e820 : e # f => SpanOf(e) \cap SpanOf(f) = {}
        /\ \A w \in crs : \A e \in e820 : SpanOf(w) \cap SpanOf(e) = {}
        /\ Cardinality(crs) = 2 /\ \A v, w \in crs : v # w => SpanOf(v) \cap SpanOf(w) = {}

\* RAM is backed so that huge pages reach the guest: the host address of a slot
\* agrees with its guest address modulo a huge page; the regions take the memory
\* file apart without a gap; and of what was reserved nothing but RAM stays.
BackedExactly ==
    LET hosts == [i \in DOMAIN backed |-> Span(backed[i].host, backed[i].size)]
        parts == [i \in DOMAIN backed |-> Span(backed[i].offset, backed[i].size)]
    IN /\ \A i \in DOMAIN slots : slots[i].host % Huge = slots[i].guest % Huge
       /\ UNION {parts[i] : i \in DOMAIN parts} = Span(0, FileOffset)
       /\ \A i, j \in DOMAIN backed : i # j => hosts[i] \cap hosts[j] = {} /\ parts[i] \cap parts[j] = {}
       /\ hostUsed = HostTaken \cup UNION {hosts[i] : i \in DOMAIN hosts}

\* A block the kernel has no huge page for leaves the others their chance.
EveryBlockTried ==
    filler = "done" /\ ~unable /\ thp \in {"OnFault", "CollapseOnly"} =>
        \A b \in DOMAIN pages : pages[b] = "huge" \/ b \in denied

\* Memory is backed as it was asked for: every region by the file, congruent and
\* without a leak, and every block by a huge page if there was one to be had.
MemoryBacked == BackedExactly /\ EveryBlockTried
==============================================================================
