------------------------------ MODULE NvPools ------------------------------
(***************************************************************************)
(* The aperture of virtio-gpu-nv.  A pool is memory of the NVIDIA driver   *)
(* that must be mapped at its own address in this process and given a      *)
(* memory slot inside BAR 4.  The backend asks for pools to be placed and  *)
(* withdrawn over its request channel, which a thread of its own serves;   *)
(* a vCPU that resets the device withdraws every pool meanwhile.  One      *)
(* request, place_pool or withdraw_pool, holds the lock of `pools` from    *)
(* its check to its last effect, but a reset takes it anew for each pool.  *)
(*                                                                         *)
(* Addresses and lengths are counted in units of which the aperture's      *)
(* alignment is Align; the page checks are inside the unit.                *)
(***************************************************************************)
EXTENDS Naturals, Integers, FiniteSets, FiniteSetsExt

CONSTANTS
    ApertureSize, Align,        \* APERTURE_SIZE, APERTURE_ALIGN
    PoolMaxLen, MaxPools, MaxPoolBytes,
    HvaMin, HvaMax,             \* POOL_HVA_MIN, POOL_HVA_MAX
    Foreign,                    \* addresses other mappings of the process have
    MaxPlaced                   \* bound: pools ever placed

ASSUME PoolsAssumption ==
    /\ {ApertureSize, PoolMaxLen, MaxPools, MaxPoolBytes, HvaMin, HvaMax, MaxPlaced} \subseteq Nat
    /\ Align \in Nat \ {0} /\ Foreign \subseteq Nat

VARIABLES
    pools,      \* the table: [off, len, hva, id]
    mmaps,      \* the process's mappings of pools
    aperture,   \* the memory slots inside BAR 4
    holder,     \* who holds the lock of `pools`: "window", "vcpu" or "free"
    job,        \* what the holder does: which pool, and how far it got
    todo,       \* the pools the reset has still to withdraw
    doomed,     \* those it found in place, but for refused slot removals
    resetting,  \* a reset runs
    placed      \* pools placed so far

poolVars == <<pools, mmaps, aperture, holder, job, todo, doomed, resetting, placed>>

Units(start, len) == start .. start + len - 1
HostRange(p)      == Units(p.hva, p.len)
GuestRange(p)     == Units(p.off, p.len)
Taken             == UNION {HostRange(p) : p \in mmaps} \cup Foreign
PoolBytes(set)    == MapThenSumSet(LAMBDA p : p.len, set)

NoJob == [do |-> "none"]

\* Whether a pool may be placed, by its own numbers and by those already there.
ShapeOk(p) ==
    /\ p.len # 0 /\ p.len <= PoolMaxLen
    /\ HvaMin <= p.hva /\ p.hva + p.len <= HvaMax
    /\ p.off % Align = 0 /\ p.off + p.len <= ApertureSize

RangesOverlap(s, l, a, len) == s < a + len /\ a < s + l

check_pool(p) ==
    /\ ShapeOk(p)
    /\ \A q \in pools : /\ ~RangesOverlap(q.off, q.len, p.off, p.len)
                        /\ ~RangesOverlap(q.hva, q.len, p.hva, p.len)
    /\ Cardinality(pools) < MaxPools /\ PoolBytes(pools) + p.len <= MaxPoolBytes

Requests == [off : 0 .. ApertureSize, len : 0 .. PoolMaxLen + 1, hva : HvaMin - 1 .. HvaMax,
             id : {placed + 1}]

------------------------------------------------------------------------------
(* place_pool, on the window thread. *)

PlaceStart ==
    /\ holder = "free" /\ placed < MaxPlaced
    /\ \E p \in Requests :
          /\ check_pool(p)
          /\ job' = [do |-> "place", at |-> "mmap", pool |-> p]
    /\ holder' = "window" /\ placed' = placed + 1
    /\ UNCHANGED <<pools, mmaps, aperture, todo, doomed, resetting>>

Placing(at)  == job.do = "place" /\ job.at = at
GoOn(at)     == job' = [job EXCEPT !.at = at]
Unlock       == holder' = "free" /\ job' = NoJob

\* MAP_FIXED_NOREPLACE: an address in use refuses, and so may the driver.
PlaceMmap ==
    /\ Placing("mmap")
    /\ \/ /\ HostRange(job.pool) \cap Taken = {}
          /\ mmaps' = mmaps \cup {job.pool}
          /\ GoOn("populate") /\ UNCHANGED holder
       \/ Unlock /\ UNCHANGED mmaps
    /\ UNCHANGED <<pools, aperture, todo, doomed, resetting, placed>>

PlacePopulate ==
    /\ Placing("populate")
    /\ \/ GoOn("slot") /\ UNCHANGED <<mmaps, holder>>
       \/ Unlock /\ mmaps' = mmaps \ {job.pool}
    /\ UNCHANGED <<pools, aperture, todo, doomed, resetting, placed>>

\* The slot, and with it the entry in the table; without it the mapping goes.
PlaceSlot ==
    /\ Placing("slot")
    /\ \/ aperture' = aperture \cup {job.pool} /\ pools' = pools \cup {job.pool} /\ UNCHANGED mmaps
       \/ mmaps' = mmaps \ {job.pool} /\ UNCHANGED <<aperture, pools>>
    /\ Unlock
    /\ UNCHANGED <<todo, doomed, resetting, placed>>

------------------------------------------------------------------------------
(* withdraw_pool, on the window thread or from a reset. *)

\* The pool at that offset, if its length is the one named.
Withdraw(who, off, len) ==
    /\ holder = "free"
    /\ \E p \in pools : p.off = off /\ p.len = len
                        /\ job' = [do |-> "withdraw", at |-> "slot", pool |-> p]
    /\ holder' = who

WindowWithdraws ==
    /\ \E p \in pools : Withdraw("window", p.off, p.len)
    /\ UNCHANGED <<pools, mmaps, aperture, todo, doomed, resetting, placed>>

Withdrawing(at) == job.do = "withdraw" /\ job.at = at

\* Taking the mapping away while the slot still points at it.
WithdrawMappingFirst ==
    /\ Withdrawing("slot")
    /\ mmaps' = mmaps \ {job.pool} /\ GoOn("mapping")
    /\ UNCHANGED <<pools, aperture, holder, todo, doomed, resetting, placed>>

\* The slot first; KVM refusing ends the request with the pool in place.
WithdrawSlot ==
    /\ Withdrawing("slot")
    /\ \/ aperture' = aperture \ {job.pool} /\ GoOn("mapping") /\ UNCHANGED <<holder, doomed>>
       \/ /\ Unlock
          /\ doomed' = IF holder = "vcpu" THEN doomed \ {job.pool} ELSE doomed
          /\ UNCHANGED aperture
    /\ UNCHANGED <<pools, mmaps, todo, resetting, placed>>

WithdrawMapping ==
    /\ Withdrawing("mapping")
    /\ mmaps' = mmaps \ {job.pool} /\ pools' = pools \ {job.pool}
    /\ Unlock
    /\ UNCHANGED <<aperture, todo, doomed, resetting, placed>>

------------------------------------------------------------------------------
(* withdraw_all_pools, which the device's reset calls. *)

\* A snapshot of the table, taken and then let go of.
WithdrawAll ==
    /\ ~resetting /\ holder = "free"
    /\ resetting' = TRUE
    /\ todo' = {[off |-> p.off, len |-> p.len] : p \in pools}
    /\ doomed' = pools
    /\ UNCHANGED <<pools, mmaps, aperture, holder, job, placed>>

\* BTreeMap order: the lowest offset first.  A pool that has gone in between,
\* or has another length now, is only warned about.
FirstOf(set) == CHOOSE e \in set : \A f \in set : e.off <= f.off

WithdrawNext ==
    /\ resetting /\ holder = "free" /\ todo # {}
    /\ LET e == FirstOf(todo) IN
          /\ todo' = todo \ {e}
          /\ \/ Withdraw("vcpu", e.off, e.len)
             \/ /\ ~ \E p \in pools : p.off = e.off /\ p.len = e.len
                /\ UNCHANGED <<holder, job>>
    /\ UNCHANGED <<pools, mmaps, aperture, doomed, resetting, placed>>

\* One withdrawal that fails ending the loop.
WithdrawAllDoneEarly ==
    /\ resetting /\ holder # "vcpu" /\ Cardinality(todo) <= 1
    /\ resetting' = FALSE /\ todo' = {}
    /\ UNCHANGED <<pools, mmaps, aperture, holder, job, doomed, placed>>

WithdrawAllDone ==
    /\ resetting /\ holder # "vcpu" /\ todo = {}
    /\ resetting' = FALSE
    /\ UNCHANGED <<pools, mmaps, aperture, holder, job, todo, doomed, placed>>

PoolsInit ==
    /\ pools = {} /\ mmaps = {} /\ aperture = {} /\ todo = {} /\ doomed = {}
    /\ holder = "free" /\ job = NoJob /\ resetting = FALSE /\ placed = 0

PoolsNext ==
    \/ PlaceStart \/ PlaceMmap \/ PlacePopulate \/ PlaceSlot
    \/ WindowWithdraws \/ WithdrawSlot \/ WithdrawMapping
    \/ WithdrawAll \/ WithdrawNext \/ WithdrawAllDone

PoolsSpec == PoolsInit /\ [][PoolsNext]_poolVars

------------------------------------------------------------------------------
(* Properties. *)

\* At every step of placing and withdrawing, by whichever thread, a slot of the
\* guest lies over a mapping of the process ("so the guest never has a slot
\* over nothing").
SlotBacked == aperture \subseteq mmaps

\* Whenever the lock is free the table, the mappings and the slots name the same
\* pools: no failed request leaves a mapping or a slot that no later request can
\* take back.  They lie inside the aperture and share no address, on either side.
PoolsExact ==
    /\ holder = "free" => pools = mmaps /\ pools = aperture
    /\ \A p, q \in aperture : p # q => GuestRange(p) \cap GuestRange(q) = {}
                                       /\ HostRange(p) \cap HostRange(q) = {}
    /\ \A p \in aperture : GuestRange(p) \subseteq 0 .. ApertureSize - 1

\* Together they keep to the limits check_pool holds each request to.
WithinLimits == Cardinality(aperture) <= MaxPools /\ PoolBytes(aperture) <= MaxPoolBytes

\* Pools are sound at every step of every thread: backed, apart and accounted for.
PoolsSound == SlotBacked /\ PoolsExact /\ WithinLimits

\* A pool that was in place when a reset began is gone when it returns, whatever
\* the window thread did meanwhile, unless KVM refused to take its slot away
\* ("A reset guest has no vma left over any pool").
ResetWithdrawsPools == ~resetting => pools \cap doomed = {}
==============================================================================
