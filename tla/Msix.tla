-------------------------------- MODULE Msix --------------------------------
(***************************************************************************)
(* A device's MSI-X table (MsixTable in virtio-devices/src/common.rs) and  *)
(* the routing table behind it (IrqManager in vmm/src/interrupt.rs).       *)
(*                                                                         *)
(* Every operation runs under the device's lock, so each is one step; what *)
(* interleaves is the device raising interrupts and a driver that needs    *)
(* several register writes to move or mask a vector.  An entry's address   *)
(* is one field here: a write of half of it is a write of another value.   *)
(***************************************************************************)
EXTENDS Naturals

CONSTANTS
    Vectors,        \* indices below N
    Unbacked,       \* vectors a driver may assign that have no table entry
    NoVector,       \* VIRTQ_MSI_NO_VECTOR
    Addrs, Datas,   \* message addresses (other than 0) and data
    Faults          \* whether KVM_SET_GSI_ROUTING may fail

NoRoute == [addr |-> 0, data |-> 0]
NotFired == [vec |-> NoVector, to |-> NoRoute]

Route == [addr : {0} \cup Addrs, data : {0} \cup Datas]
Entry == [addr : {0} \cup Addrs, data : {0} \cup Datas, masked : BOOLEAN]

ASSUME MsixAssumption ==
    /\ NoVector \notin Vectors \cup Unbacked
    /\ Vectors \cap Unbacked = {}
    /\ 0 \notin Addrs
    /\ Faults \in BOOLEAN

VARIABLES
    entries, pba, enabled,  \* MsixTable
    msi,                    \* IrqManager.state.msi: the routes asked for
    kvm,                    \* the routes the kernel has
    assigned,               \* vectors the driver gave to queues (QState.vec)
    fired,                  \* the MSI sent in the last step
    intx,                   \* whether INTx was raised in the last step
    owed                    \* history: raised for an entry, and not sent since

vars == <<entries, pba, enabled, msi, kvm, assigned, fired, intx, owed>>

-----------------------------------------------------------------------------
(* The routing table *)

\* Record a route and install the whole table, unless it is on record already.
\* A commit that fails is logged; the record stays.
set_msi_route(v, r) ==
    \/ /\ msi[v] = r
       /\ UNCHANGED <<msi, kvm>>
    \/ /\ msi[v] # r
       /\ msi' = [msi EXCEPT ![v] = r]
       /\ kvm' = msi' \/ (Faults /\ UNCHANGED kvm)

Message(e) == [addr |-> e.addr, data |-> e.data]

program_route(v, e) ==
    IF e.addr = 0 THEN UNCHANGED <<msi, kvm>> ELSE set_msi_route(v, Message(e))

-----------------------------------------------------------------------------
(* The table *)

\* A write to an irqfd: the kernel sends what the GSI is routed to.
Fire(v, routes) == fired' = [vec |-> v, to |-> routes[v]] /\ owed' = owed \ {v}
Quiet == fired' = NotFired /\ UNCHANGED owed

masked(v) == entries[v].masked

\* Mutants: a pending bit never fires; the mask is ignored.
write_leaves(v, e) ==
    /\ entries' = [entries EXCEPT ![v] = e]
    /\ program_route(v, e)
    /\ Quiet /\ UNCHANGED pba

trigger_ignores_mask(v) ==
    /\ UNCHANGED pba
    /\ IF enabled /\ v \in Vectors THEN Fire(v, kvm) /\ intx' = FALSE
                                   ELSE Quiet /\ intx' = TRUE

\* A table write and, if it unmasks a pending vector, its delivery.
write(v, e) ==
    /\ entries' = [entries EXCEPT ![v] = e]
    /\ program_route(v, e)
    /\ IF masked(v) /\ ~e.masked /\ v \in pba
       THEN pba' = pba \ {v} /\ Fire(v, kvm')
       ELSE UNCHANGED pba /\ Quiet

trigger(v) ==
    \/ /\ ~enabled \/ v = NoVector
       /\ intx' = TRUE /\ Quiet /\ UNCHANGED pba
    \/ /\ enabled /\ v \in Unbacked
       /\ intx' = FALSE /\ Quiet /\ UNCHANGED pba
    \/ /\ enabled /\ v \in Vectors
       /\ intx' = FALSE
       /\ IF masked(v)
          THEN pba' = pba \cup {v} /\ owed' = owed \cup {v} /\ fired' = NotFired
          ELSE Fire(v, kvm) /\ UNCHANGED pba

-----------------------------------------------------------------------------
(* Who uses it *)

\* The device has something to tell the driver of a queue.
Raise(v) ==
    /\ v \in assigned
    /\ trigger(v)
    /\ UNCHANGED <<entries, enabled, msi, kvm, assigned>>

\* The driver moves a message only while it is masked, does not unmask or use
\* one it has not programmed, and clears one only when no queue uses it.
GuestWrite(v, e) ==
    /\ Message(e) # Message(entries[v]) => masked(v) /\ e.masked
    /\ e.addr = 0 => e.masked /\ v \notin assigned
    /\ write(v, e)
    /\ intx' = FALSE
    /\ UNCHANGED <<enabled, assigned>>

\* Message Control; Function Mask is stored and has no effect.
write_config(on) ==
    /\ enabled' = on
    /\ intx' = FALSE /\ Quiet
    /\ UNCHANGED <<entries, pba, msi, kvm, assigned>>

\* CFG_QUEUE_MSIX: with an entry behind it, the driver has programmed it first.
Assign(v) ==
    /\ v \in Vectors => entries[v].addr # 0
    /\ assigned' = assigned \cup {v}
    /\ intx' = FALSE /\ Quiet
    /\ UNCHANGED <<entries, pba, enabled, msi, kvm>>

\* Status 0: every queue loses its vector; the table and the pending bits stay.
Reset ==
    /\ assigned' = {NoVector}
    /\ intx' = FALSE /\ Quiet
    /\ UNCHANGED <<entries, pba, enabled, msi, kvm>>

Init ==
    /\ entries = [v \in Vectors |-> [addr |-> 0, data |-> 0, masked |-> FALSE]]
    /\ pba = {} /\ enabled = FALSE
    /\ msi = [v \in Vectors |-> NoRoute] /\ kvm = msi
    /\ assigned = {NoVector}
    /\ fired = NotFired /\ intx = FALSE /\ owed = {}

Next ==
    \/ \E v \in Vectors \cup Unbacked \cup {NoVector} : Raise(v)
    \/ \E v \in Vectors, e \in Entry : GuestWrite(v, e)
    \/ \E on \in BOOLEAN : write_config(on)
    \/ \E v \in Vectors \cup Unbacked : Assign(v)
    \/ Reset

Spec == Init /\ [][Next]_vars

-----------------------------------------------------------------------------
(* Properties *)

\* Types of the table, the routes and the histories.
TypeOK ==
    /\ entries \in [Vectors -> Entry]
    /\ pba \subseteq Vectors /\ owed \subseteq Vectors
    /\ enabled \in BOOLEAN /\ intx \in BOOLEAN
    /\ msi \in [Vectors -> Route] /\ kvm \in [Vectors -> Route]
    /\ assigned \subseteq Vectors \cup Unbacked \cup {NoVector}
    /\ fired \in [vec : Vectors \cup {NoVector}, to : Route]

\* An interrupt raised while its vector was masked stays pending until it is
\* sent, across masking, moving, disabling MSI-X and a device reset; and since a
\* pending bit fires on the unmask (MsixTable::write), none is left on an unmasked
\* vector, where no later write would fire it.
NothingStranded == owed \subseteq pba /\ \A v \in pba : masked(v)

\* An MSI is sent for an unmasked, programmed vector only, and goes where the
\* driver's table entry says at that moment, never to a half-written message or
\* an earlier target, whenever the kernel has the routes on record (after a
\* commit that failed: from the next one that succeeds).
DeliveredAsProgrammed ==
    fired # NotFired =>
        /\ entries[fired.vec].addr # 0 /\ ~masked(fired.vec)
        /\ kvm = msi => fired.to = Message(entries[fired.vec])

=============================================================================
