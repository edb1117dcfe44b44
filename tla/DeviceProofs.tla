---------------------------- MODULE DeviceProofs ----------------------------
(***************************************************************************)
(* PciBus: doorbells and dispatch follow a BAR; BARs stay apart, and a vCPU *)
(* gets the address it asked for, one 32-bit register at a time: for any   *)
(* devices, windows, number of vCPUs, and whatever doorbells KVM refuses.  *)
(* Lifecycle: the end of a VM is orderly, for any number of vCPUs.         *)
(* VhostDevice: a backend that serves has been told all it needs, for any  *)
(* queues and whatever fails.                                              *)
(***************************************************************************)
EXTENDS PciBus, Lifecycle, VhostDevice, TLAPS

-----------------------------------------------------------------------------
(* PciBus *)

Placed(n) == UNION {Range(Devices[i]) : i \in 1 .. n}

Move == [at : {"lo", "hi", "regions", "doorbells"}, bar : Bars, target : Int, old : Int,
         from : Int, to : Int, rest : {"hi", "idle"}]

BusTypes ==
    /\ added \in Nat /\ added <= Len(Devices)
    /\ DOMAIN bars = Placed(added) /\ DOMAIN regions = Placed(added)
    /\ bars = [b \in Placed(added) |-> bars[b]] /\ regions = [b \in Placed(added) |-> regions[b]]
    /\ \A b \in Placed(added) : bars[b] \in Int
    /\ vcpu \in [Vcpus -> {Idle} \cup Move]
    /\ registered = [d \in DOMAIN registered |-> registered[d]]
    /\ \A d \in DOMAIN registered : d[1] \in Placed(added) /\ d[2] \in Nat /\ registered[d] \in Int

\* A BAR is in the hands of one vCPU, and only after the devices are there.
Exclusive ==
    /\ \A v \in Vcpus : vcpu[v] # Idle => Booted
    /\ \A u, v \in Vcpus : u # v /\ vcpu[u] # Idle /\ vcpu[v] # Idle => vcpu[u].bar # vcpu[v].bar

\* The vCPU has changed the BAR's address and not yet what depends on it.
Behind(v, b, stages) == vcpu[v] # Idle /\ vcpu[v].bar = b /\ vcpu[v].at \in stages

\* The address the dispatch index has, and the one doorbells are counted from.
RegionsLag ==
    \A b \in Placed(added) :
        /\ (\A v \in Vcpus : ~Behind(v, b, {"regions"})) => regions[b] = bars[b]

DoorbellsLag ==
    \A d \in DOMAIN registered \ refused :
        /\ \A v \in Vcpus : Behind(v, d[1], {"regions", "doorbells"}) => registered[d] = vcpu[v].from + d[2]
        /\ (\A v \in Vcpus : ~Behind(v, d[1], {"regions", "doorbells"})) => registered[d] = bars[d[1]] + d[2]

\* Between the steps of a write the vCPU knows where the BAR went.
KnowsTarget ==
    \A v \in Vcpus : vcpu[v] # Idle /\ vcpu[v].at \in {"regions", "doorbells"} =>
        vcpu[v].to = bars[vcpu[v].bar]

\* KVM answers a doorbell at the recorded address or not at all.
Answers ==
    \A k \in kernel : /\ k = <<k[1], k[2]>>
                      /\ k[1] \in DOMAIN registered /\ k[2] = registered[k[1]]

BusInv == BusTypes /\ Exclusive /\ RegionsLag /\ DoorbellsLag /\ KnowsTarget /\ Answers

-----------------------------------------------------------------------------

\* Once every device is there, every BAR is.
LEMMA AllPlaced == Placed(Len(Devices)) = Bars
  <1>1. Len(Devices) \in Nat /\ DOMAIN Devices = 1 .. Len(Devices)
    BY PciAssumption
  <1>2. QED BY <1>1, PciAssumption, Zenon DEF Placed

\* The BARs of the next device are new.
LEMMA NextIsNew ==
    ASSUME NEW n \in Nat, n < Len(Devices)
    PROVE  /\ Placed(n + 1) = Placed(n) \cup Range(Devices[n + 1])
           /\ Placed(n) \cap Range(Devices[n + 1]) = {}
           /\ Range(Devices[n + 1]) \subseteq Bars
  <1>1. Len(Devices) \in Nat /\ DOMAIN Devices = 1 .. Len(Devices)
    BY PciAssumption
  <1>2. 1 .. (n + 1) = (1 .. n) \cup {n + 1} /\ n + 1 \in DOMAIN Devices
        /\ \A i \in 1 .. n : i \in DOMAIN Devices /\ i # n + 1
    BY <1>1
  <1>3. Placed(n + 1) = Placed(n) \cup Range(Devices[n + 1])
    BY <1>2, Zenon DEF Placed
  <1>4. Placed(n) \cap Range(Devices[n + 1]) = {}
    BY <1>2, PciAssumption DEF Placed
  <1>5. Range(Devices[n + 1]) \subseteq Bars
    BY <1>2, PciAssumption, Zenon
  <1>6. QED BY <1>3, <1>4, <1>5, Zenon

\* A vCPU in a move is not idle.
LEMMA MoveIsBusy == \A m \in Move : m # Idle /\ m.at # "idle"
  BY DEF Move, Idle

\* What a register asks for is an address.
LEMMA RequestedIsInt ==
    ASSUME NEW b \in Bars, NEW half, NEW t \in Int, bars[b] \in Int
    PROVE  Requested(b, half, t) \in Int
  <1>1. BarInfo[b].size \in Nat \ {0} /\ LoMod \in Nat \ {0}
    BY PciAssumption, Zenon
  <1> DEFINE a == IF half = "hi" THEN (bars[b] % LoMod) + (t \div LoMod) * LoMod
                                ELSE (bars[b] \div LoMod) * LoMod + (t % LoMod)
  <1>2. a \in Int
    BY <1>1
  <1>3. a - (a % BarInfo[b].size) \in Int
    <2> HIDE DEF a
    <2> QED BY <1>1, <1>2
  <1>4. QED BY <1>3, Zenon DEF Requested

-----------------------------------------------------------------------------

\* Nothing is placed and nobody is at work.
LEMMA InitBus == Init => BusInv
  <1> SUFFICES ASSUME Init PROVE BusInv BY Zenon
  <1> USE DEF Init
  <1>1. Placed(0) = {}
    BY DEF Placed
  <1>2. DOMAIN <<>> = {} /\ <<>> = [b \in {} |-> <<>>[b]]
    OBVIOUS
  <1>3. Len(Devices) \in Nat
    BY PciAssumption
  <1>4. BusTypes
    BY <1>1, <1>2, <1>3 DEF BusTypes
  <1>5. Exclusive /\ RegionsLag /\ DoorbellsLag /\ KnowsTarget /\ Answers
    BY <1>1, <1>2, Zenon DEF Exclusive, RegionsLag, DoorbellsLag, KnowsTarget, Answers
  <1>6. QED BY <1>4, <1>5, Zenon DEF BusInv

\* Steps that touch neither addresses nor vCPUs.
LEMMA BusStutter ==
    ASSUME BusInv, UNCHANGED <<added, bars, regions, registered, kernel, vcpu, refused>>
    PROVE  BusInv'
  BY DEF BusInv, BusTypes, Exclusive, RegionsLag, DoorbellsLag, KnowsTarget, Answers, Behind, Booted

\* New BARs and their doorbells begin where the registers say.
LEMMA AddKeeps == ASSUME BusInv, add_device PROVE BusInv'
  <1> DEFINE device == Devices[added + 1]
             doors  == UNION {Doors(b) : b \in Range(device)}
  <1>1. CASE ~(added < MaxDevices /\ Placements(device) # {})
    <2>1. UNCHANGED <<added, bars, regions, registered, kernel, vcpu, refused>>
      BY <1>1, Zenon DEF add_device
    <2>2. QED BY <2>1, BusStutter, Zenon
  <1>2. CASE added < MaxDevices /\ Placements(device) # {}
    <2>1. PICK at \in Placements(device), ok \in SUBSET doors :
             /\ added' = added + 1
             /\ bars' = Extend(bars, at) /\ regions' = Extend(regions, at)
             /\ registered' = Extend(registered, [d \in ok |-> at[d[1]] + d[2]])
             /\ kernel' = kernel \cup {<<d, at[d[1]] + d[2]>> : d \in ok}
      BY <1>2, Zenon DEF add_device
    <2>2. added \in Nat /\ added < Len(Devices) /\ UNCHANGED <<vcpu, refused>>
      BY Zenon DEF add_device, BusInv, BusTypes
    <2>3. /\ Placed(added') = Placed(added) \cup Range(device)
          /\ Placed(added) \cap Range(device) = {} /\ Range(device) \subseteq Bars
      BY <2>1, <2>2, NextIsNew, Zenon
    <2>4. at = [b \in Range(device) |-> at[b]] /\ \A b \in Range(device) : at[b] \in Int
      <3>1. at \in [Range(device) -> 0 .. Max({Window32.end, Window64.end})]
        BY Zenon DEF Placements
      <3>2. QED BY <3>1
    <2>5. \A d \in ok : d[1] \in Range(device) /\ d[2] \in Nat
      <3> SUFFICES ASSUME NEW d \in ok PROVE d[1] \in Range(device) /\ d[2] \in Nat
        BY Zenon
      <3>1. PICK b \in Range(device) : d \in Doors(b)
        BY Zenon
      <3>2. PICK o \in BarInfo[b].doors : d = <<b, o>>
        BY <3>1, Zenon DEF Doors
      <3>3. BarInfo[b].doors \subseteq Nat
        BY <2>3, PciAssumption, Zenon
      <3>4. QED BY <3>2, <3>3, Zenon
    <2>6. /\ DOMAIN bars = Placed(added) /\ DOMAIN regions = Placed(added)
          /\ \A b \in Placed(added) : bars[b] \in Int
          /\ \A d \in DOMAIN registered : d[1] \in Placed(added) /\ d[2] \in Nat /\ registered[d] \in Int
      BY Zenon DEF BusInv, BusTypes
    <2>7. \A d \in ok : d \notin DOMAIN registered
      BY <2>3, <2>5, <2>6, Zenon
    <2>8. /\ bars' = [b \in Placed(added') |-> IF b \in Range(device) THEN at[b] ELSE bars[b]]
          /\ regions' = [b \in Placed(added') |-> IF b \in Range(device) THEN at[b] ELSE regions[b]]
      BY <2>1, <2>3, <2>4, <2>6, Zenon DEF Extend
    <2>9. registered' = [d \in DOMAIN registered \cup ok |->
                            IF d \in ok THEN at[d[1]] + d[2] ELSE registered[d]]
      BY <2>1, Zenon DEF Extend
    <2>10. \A v \in Vcpus : vcpu[v] = Idle /\ vcpu'[v] = Idle
      BY <2>2 DEF BusInv, Exclusive, Booted
    <2>11. BusTypes'
      <3>0. added \in Nat
        BY Zenon DEF BusInv, BusTypes
      <3>a. Len(Devices) \in Nat
        BY PciAssumption
      <3>1. added' \in Nat /\ added' <= Len(Devices)
        BY <2>1, <2>2, <3>0, <3>a
      <3>2. \A b \in Placed(added') : bars'[b] \in Int
        BY <2>3, <2>4, <2>6, <2>8, Zenon
      <3>3. /\ DOMAIN bars' = Placed(added') /\ DOMAIN regions' = Placed(added')
            /\ bars' = [b \in Placed(added') |-> bars'[b]]
            /\ regions' = [b \in Placed(added') |-> regions'[b]]
        BY <2>8, Zenon
      <3>4. /\ registered' = [d \in DOMAIN registered' |-> registered'[d]]
            /\ \A d \in DOMAIN registered' :
                  d[1] \in Placed(added') /\ d[2] \in Nat /\ registered'[d] \in Int
        BY <2>3, <2>4, <2>5, <2>6, <2>9
      <3>5. vcpu' \in [Vcpus -> {Idle} \cup Move]
        BY <2>2, Zenon DEF BusInv, BusTypes
      <3>6. QED BY <3>1, <3>2, <3>3, <3>4, <3>5, Zenon DEF BusTypes
    <2>12. Exclusive' /\ KnowsTarget'
      BY <2>10, Zenon DEF Exclusive, KnowsTarget
    <2>13. RegionsLag'
      <3>1. \A b \in Placed(added) : regions[b] = bars[b]
        BY <2>10, Zenon DEF BusInv, RegionsLag, Behind
      <3>2. QED BY <2>3, <2>8, <3>1, Zenon DEF RegionsLag
    <2>14. DoorbellsLag'
      <3>1. \A d \in DOMAIN registered \ refused : registered[d] = bars[d[1]] + d[2]
        BY <2>10, Zenon DEF BusInv, DoorbellsLag, Behind
      <3>2. \A d \in DOMAIN registered' \ refused : registered'[d] = bars'[d[1]] + d[2]
        BY <2>3, <2>5, <2>6, <2>7, <2>8, <2>9, <3>1, Zenon
      <3>3. QED BY <2>2, <2>10, <3>2, Zenon DEF DoorbellsLag, Behind
    <2>15. Answers'
      <3>1. SUFFICES ASSUME NEW k \in kernel'
                     PROVE  k = <<k[1], k[2]>> /\ k[1] \in DOMAIN registered' /\ k[2] = registered'[k[1]]
        BY Zenon DEF Answers
      <3>2. CASE k \in kernel
        BY <2>7, <2>9, <3>2, Zenon DEF BusInv, Answers
      <3>3. CASE \E d \in ok : k = <<d, at[d[1]] + d[2]>>
        BY <2>9, <3>3
      <3>4. QED BY <2>1, <3>2, <3>3, Zenon
    <2>16. QED BY <2>11, <2>12, <2>13, <2>14, <2>15, Zenon DEF BusInv
  <1>3. QED BY <1>1, <1>2, Zenon

\* Choosing an address changes none.
LEMMA ChooseKeeps ==
    ASSUME BusInv, NEW v \in Vcpus, NEW b \in Bars, NEW a \in Int, Choose(v, b, a)
    PROVE  BusInv'
  <1> DEFINE m == [at |-> "lo", bar |-> b, target |-> a, old |-> bars[b], from |-> 0, to |-> 0,
                   rest |-> IF BarInfo[b].wide THEN "hi" ELSE "idle"]
  <1>1. /\ vcpu' = [vcpu EXCEPT ![v] = m] /\ vcpu[v] = Idle
        /\ UNCHANGED <<added, bars, regions, registered, kernel, refused>> /\ Booted
        /\ \A u \in Vcpus : vcpu[u] # Idle => vcpu[u].bar # b
    BY Zenon DEF Choose
  <1>2. vcpu \in [Vcpus -> {Idle} \cup Move]
    BY Zenon DEF BusInv, BusTypes
  <1>3. bars[b] \in Int
    BY <1>1, AllPlaced, Zenon DEF BusInv, BusTypes, Booted
  <1>4. m \in Move
    BY <1>3 DEF Move
  <1>5. \A u \in Vcpus : vcpu'[u] = IF u = v THEN m ELSE vcpu[u]
    BY <1>1, <1>2, Zenon
  <1> HIDE DEF m
  <1>6. BusTypes'
    BY <1>1, <1>2, <1>4, Zenon DEF BusInv, BusTypes
  <1>7. m.bar = b /\ m.at = "lo" /\ m # Idle
    BY <1>4, MoveIsBusy, Zenon DEF m
  <1>8. Exclusive'
    BY <1>1, <1>5, <1>7 DEF BusInv, Exclusive, Booted
  <1>9. \A u \in Vcpus : \A c, s : s \in SUBSET {"regions", "doorbells"} =>
            (Behind(u, c, s)' <=> Behind(u, c, s))
    BY <1>1, <1>5, <1>7, Zenon DEF Behind
  <1>10. \A u \in Vcpus : \A c, s : Behind(u, c, s) => vcpu'[u] = vcpu[u]
    BY <1>1, <1>5, Zenon DEF Behind
  <1>11. RegionsLag' /\ DoorbellsLag'
    BY <1>1, <1>9, <1>10 DEF BusInv, RegionsLag, DoorbellsLag
  <1>12. KnowsTarget' /\ Answers'
    BY <1>1, <1>5, <1>7 DEF BusInv, KnowsTarget, Answers
  <1>13. QED BY <1>6, <1>8, <1>11, <1>12, Zenon DEF BusInv

\* The vCPU's registers after a write: it goes on with the other half or is done.
LEMMA ThenMoves ==
    ASSUME NEW v \in Vcpus, vcpu \in [Vcpus -> {Idle} \cup Move], vcpu[v] \in Move, Then(v)
    PROVE  /\ vcpu' \in [Vcpus -> {Idle} \cup Move]
           /\ \A u \in Vcpus : u # v => vcpu'[u] = vcpu[u]
           /\ \/ vcpu'[v] = Idle
              \/ vcpu'[v].bar = vcpu[v].bar /\ vcpu'[v].at = "hi"
  <1>1. CASE vcpu[v].rest = "idle"
    BY <1>1, Zenon DEF Then
  <1>2. CASE vcpu[v].rest # "idle"
    <2> DEFINE m == [vcpu[v] EXCEPT !.at = "hi", !.rest = "idle"]
    <2>1. vcpu' = [vcpu EXCEPT ![v] = m]
      BY <1>2, Zenon DEF Then
    <2>2. m \in Move /\ m.bar = vcpu[v].bar /\ m.at = "hi"
      BY Zenon DEF Move
    <2> HIDE DEF m
    <2>3. QED BY <2>1, <2>2, Zenon
  <1>3. QED BY <1>1, <1>2, Zenon

\* A vCPU at work holds a BAR of the booted machine.
LEMMA BusyVcpu ==
    ASSUME BusInv, NEW v \in Vcpus, vcpu[v].at # "idle"
    PROVE  /\ vcpu[v] \in Move /\ vcpu[v] # Idle /\ added = Len(Devices)
           /\ vcpu[v].bar \in Bars /\ Placed(added) = Bars
  <1>1. vcpu[v] \in Move /\ vcpu[v] # Idle
    BY MoveIsBusy DEF BusInv, BusTypes, Idle
  <1>2. added = Len(Devices)
    BY <1>1, Zenon DEF BusInv, Exclusive, Booted
  <1>3. QED BY <1>1, <1>2, AllPlaced, Zenon DEF Move

\* A register write moves the BAR, and from then on region and doorbells lag.
LEMMA WriteKeeps == ASSUME BusInv, NEW v \in Vcpus, config_write(v) PROVE BusInv'
  <1>1. vcpu[v].at \in {"lo", "hi"} /\ UNCHANGED <<added, regions, registered, kernel, refused>>
    BY Zenon DEF config_write
  <1>2. /\ vcpu[v] \in Move /\ vcpu[v] # Idle /\ added = Len(Devices)
        /\ vcpu[v].bar \in Bars /\ Placed(added) = Bars
    BY <1>1, BusyVcpu, Zenon
  <1>2a. PICK b \in Bars : b = vcpu[v].bar
    BY <1>2, Zenon
  <1>3. vcpu \in [Vcpus -> {Idle} \cup Move] /\ DOMAIN bars = Bars /\ bars[b] \in Int
    BY <1>2, Zenon DEF BusInv, BusTypes
  <1>4. \A u \in Vcpus : u # v /\ vcpu[u] # Idle => vcpu[u].bar # b
    BY <1>2, <1>2a, Zenon DEF BusInv, Exclusive
  <1>5. PICK a \in Int : a = Requested(b, vcpu[v].at, vcpu[v].target)
    BY <1>2, <1>3, RequestedIsInt, Zenon DEF Move
  <1>6. CASE Decodes(b, a) /\ a # bars[b]
    <2> DEFINE m == [vcpu[v] EXCEPT !.at = "regions", !.from = bars[b], !.to = a]
    <2>1. bars' = [bars EXCEPT ![b] = a] /\ vcpu' = [vcpu EXCEPT ![v] = m]
      BY <1>6, <1>5, <1>2a, Zenon DEF config_write
    <2>2. m \in Move /\ m.bar = b /\ m.at = "regions" /\ m.from = bars[b] /\ m.to = a
      BY <1>2, <1>3, <1>2a, Zenon DEF Move
    <2>3. m # Idle
      BY <2>2, MoveIsBusy, Zenon
    <2> HIDE DEF m
    <2>4. /\ \A u \in Vcpus : vcpu'[u] = IF u = v THEN m ELSE vcpu[u]
          /\ \A c \in Bars : bars'[c] = IF c = b THEN a ELSE bars[c]
      BY <2>1, <1>3, Zenon
    <2>5. BusTypes'
      <3>1. /\ DOMAIN bars' = Placed(added') /\ bars' = [c \in Placed(added') |-> bars'[c]]
            /\ \A c \in Placed(added') : bars'[c] \in Int
        BY <1>1, <1>2, <1>3, <2>1, <2>4, Zenon DEF BusInv, BusTypes
      <3>2. vcpu' \in [Vcpus -> {Idle} \cup Move]
        BY <1>3, <2>1, <2>2, Zenon
      <3>3. QED BY <1>1, <3>1, <3>2, Zenon DEF BusInv, BusTypes
    <2>6. Exclusive'
      BY <1>1, <1>2, <1>4, <1>2a, <2>2, <2>4 DEF BusInv, Exclusive, Booted
    <2>7. \A u \in Vcpus, c \in Bars : \A s : c # b => (Behind(u, c, s)' <=> Behind(u, c, s))
      BY <1>2a, <2>2, <2>4, Zenon DEF Behind
    <2>8. \A u \in Vcpus : \A s : ~Behind(u, b, {"regions"}) /\ ~Behind(u, b, {"regions", "doorbells"})
      BY <1>1, <1>4, <1>2a, Zenon DEF Behind
    <2>9. Behind(v, b, {"regions"})' /\ Behind(v, b, {"regions", "doorbells"})'
      BY <2>2, <2>3, <2>4, Zenon DEF Behind
    <2>10. RegionsLag'
      BY <1>1, <1>2, <2>4, <2>7, <2>9, Zenon DEF BusInv, RegionsLag
    <2>11. DoorbellsLag'
      <3> SUFFICES ASSUME NEW d \in DOMAIN registered \ refused
                   PROVE  /\ \A u \in Vcpus : Behind(u, d[1], {"regions", "doorbells"})'
                                 => registered[d] = vcpu'[u].from + d[2]
                          /\ (\A u \in Vcpus : ~Behind(u, d[1], {"regions", "doorbells"})')
                                 => registered[d] = bars'[d[1]] + d[2]
        BY <1>1, Zenon DEF DoorbellsLag
      <3>1. d[1] \in Bars
        BY <1>2, Zenon DEF BusInv, BusTypes
      <3>2. CASE d[1] = b
        <4>1. registered[d] = bars[b] + d[2]
          BY <2>8, <3>2, Zenon DEF BusInv, DoorbellsLag
        <4>2. \A u \in Vcpus : Behind(u, b, {"regions", "doorbells"})' => u = v
          BY <1>4, <2>4, Zenon DEF Behind
        <4>3. QED BY <2>2, <2>4, <2>9, <3>2, <4>1, <4>2, Zenon
      <3>3. CASE d[1] # b
        <4>1. \A u \in Vcpus : Behind(u, d[1], {"regions", "doorbells"}) => u # v
          BY <1>2a, <3>3, Zenon DEF Behind
        <4>2. QED BY <2>4, <2>7, <3>1, <3>3, <4>1, Zenon DEF BusInv, DoorbellsLag
      <3>4. QED BY <3>2, <3>3, Zenon
    <2>12. KnowsTarget'
      <3>1. ASSUME NEW u \in Vcpus, vcpu'[u] # Idle, vcpu'[u].at \in {"regions", "doorbells"}
            PROVE  vcpu'[u].to = bars'[vcpu'[u].bar]
        <4>1. CASE u = v
          BY <2>2, <2>4, <4>1, Zenon
        <4>2. CASE u # v
          <5>1. vcpu'[u] = vcpu[u] /\ vcpu[u] \in Move /\ vcpu[u].bar \in Bars \ {b}
            BY <1>3, <1>4, <2>4, <3>1, <4>2, Zenon DEF Move
          <5>2. bars'[vcpu[u].bar] = bars[vcpu[u].bar]
            BY <2>4, <5>1, Zenon
          <5>3. QED BY <3>1, <5>1, <5>2, Zenon DEF BusInv, KnowsTarget
        <4>3. QED BY <4>1, <4>2, Zenon
      <3>2. QED BY <3>1, Zenon DEF KnowsTarget
    <2>13. Answers'
      BY <1>1, Zenon DEF BusInv, Answers
    <2>14. QED BY <2>5, <2>6, <2>10, <2>11, <2>12, <2>13, Zenon DEF BusInv
  <1>7. CASE ~(Decodes(b, a) /\ a # bars[b])
    <2>1. UNCHANGED bars /\ Then(v)
      BY <1>7, <1>5, <1>2a, Zenon DEF config_write
    <2>2. /\ vcpu' \in [Vcpus -> {Idle} \cup Move]
          /\ \A u \in Vcpus : u # v => vcpu'[u] = vcpu[u]
          /\ \/ vcpu'[v] = Idle
             \/ vcpu'[v].bar = vcpu[v].bar /\ vcpu'[v].at = "hi"
      BY <1>2, <1>3, <2>1, ThenMoves, Zenon
    <2>3. BusTypes'
      BY <1>1, <2>1, <2>2, Zenon DEF BusInv, BusTypes
    <2>4. Exclusive'
      BY <1>1, <1>2, <1>4, <1>2a, <2>2, Zenon DEF BusInv, Exclusive, Booted
    <2>5. \A u \in Vcpus : \A c, s : s \in SUBSET {"regions", "doorbells"} =>
              (Behind(u, c, s)' <=> Behind(u, c, s)) /\ (Behind(u, c, s) => u # v)
      BY <1>1, <2>2, Zenon DEF Behind
    <2>6. RegionsLag' /\ DoorbellsLag'
      BY <1>1, <2>1, <2>2, <2>5 DEF BusInv, RegionsLag, DoorbellsLag
    <2>7. KnowsTarget' /\ Answers'
      BY <1>1, <2>1, <2>2, Zenon DEF BusInv, KnowsTarget, Answers
    <2>8. QED BY <2>3, <2>4, <2>6, <2>7, Zenon DEF BusInv
  <1>8. QED BY <1>6, <1>7, Zenon

\* The region catches up.
LEMMA RegionKeeps == ASSUME BusInv, NEW v \in Vcpus, move_region(v) PROVE BusInv'
  <1>1. /\ vcpu[v].at = "regions" /\ UNCHANGED <<added, bars, registered, kernel, refused>>
        /\ regions' = [regions EXCEPT ![vcpu[v].bar] = vcpu[v].to]
        /\ vcpu' = [vcpu EXCEPT ![v].at = "doorbells"]
    BY Zenon DEF move_region
  <1>2. /\ vcpu[v] \in Move /\ vcpu[v] # Idle /\ added = Len(Devices)
        /\ vcpu[v].bar \in Bars /\ Placed(added) = Bars
    BY <1>1, BusyVcpu, Zenon
  <1>3. PICK b \in Bars : b = vcpu[v].bar
    BY <1>2, Zenon
  <1>4. vcpu \in [Vcpus -> {Idle} \cup Move] /\ DOMAIN regions = Bars
    BY <1>2, Zenon DEF BusInv, BusTypes
  <1> DEFINE m == [vcpu[v] EXCEPT !.at = "doorbells"]
  <1>5. m \in Move /\ m.bar = b /\ m.at = "doorbells" /\ m.from = vcpu[v].from /\ m.to = vcpu[v].to
    BY <1>2, <1>3, Zenon DEF Move
  <1>6. m # Idle
    BY <1>5, MoveIsBusy, Zenon
  <1>7. vcpu' = [vcpu EXCEPT ![v] = m]
    BY <1>1, Zenon
  <1> HIDE DEF m
  <1>8. /\ \A u \in Vcpus : vcpu'[u] = IF u = v THEN m ELSE vcpu[u]
        /\ \A c \in Bars : regions'[c] = IF c = b THEN bars[b] ELSE regions[c]
    <2>1. vcpu[v].to = bars[b]
      BY <1>1, <1>2, <1>3, Zenon DEF BusInv, KnowsTarget
    <2>2. QED BY <1>1, <1>3, <1>4, <1>7, <2>1, Zenon
  <1>9. BusTypes'
    <2>1. DOMAIN regions' = Placed(added') /\ regions' = [c \in Placed(added') |-> regions'[c]]
      BY <1>1, <1>2, <1>4, Zenon DEF BusInv, BusTypes
    <2>2. vcpu' \in [Vcpus -> {Idle} \cup Move]
      BY <1>4, <1>5, <1>7, Zenon
    <2>3. QED BY <1>1, <2>1, <2>2 DEF BusInv, BusTypes
  <1>10. Exclusive'
    BY <1>1, <1>2, <1>3, <1>5, <1>8 DEF BusInv, Exclusive, Booted
  <1>11. RegionsLag'
    <2>1. \A u \in Vcpus, c \in Bars : c # b =>
              (Behind(u, c, {"regions"})' <=> Behind(u, c, {"regions"}))
      BY <1>3, <1>5, <1>8, Zenon DEF Behind
    <2>2. QED BY <1>1, <1>2, <1>8, <2>1, Zenon DEF BusInv, RegionsLag
  <1>12. DoorbellsLag'
    <2>1. \A u \in Vcpus : \A c :
              /\ Behind(u, c, {"regions", "doorbells"})' <=> Behind(u, c, {"regions", "doorbells"})
              /\ vcpu'[u].from = vcpu[u].from
      BY <1>1, <1>2, <1>3, <1>5, <1>6, <1>8 DEF Behind
    <2>2. QED BY <1>1, <2>1 DEF BusInv, DoorbellsLag
  <1>13. KnowsTarget' /\ Answers'
    BY <1>1, <1>2, <1>3, <1>5, <1>8 DEF BusInv, KnowsTarget, Answers
  <1>14. QED BY <1>9, <1>10, <1>11, <1>12, <1>13, Zenon DEF BusInv

\* The doorbells catch up, those KVM takes.
LEMMA DoorbellsKeep == ASSUME BusInv, NEW v \in Vcpus, move_doorbells_from(v) PROVE BusInv'
  <1>1. /\ vcpu[v].at = "doorbells" /\ UNCHANGED <<added, bars, regions>> /\ Then(v)
    BY Zenon DEF move_doorbells_from
  <1>2. /\ vcpu[v] \in Move /\ vcpu[v] # Idle /\ added = Len(Devices)
        /\ vcpu[v].bar \in Bars /\ Placed(added) = Bars
    BY <1>1, BusyVcpu, Zenon
  <1>3. PICK b \in Bars : b = vcpu[v].bar
    BY <1>2, Zenon
  <1>4. vcpu \in [Vcpus -> {Idle} \cup Move] /\ DOMAIN bars = Bars /\ bars[b] \in Int
    BY <1>2, Zenon DEF BusInv, BusTypes
  <1>5. PICK from \in Int : from = vcpu[v].from
    BY <1>2, Zenon DEF Move
  <1>6. vcpu[v].to = bars[b]
    BY <1>1, <1>2, <1>3, Zenon DEF BusInv, KnowsTarget
  <1> DEFINE To(d) == vcpu[v].to + saturating_sub(registered[d], vcpu[v].from)
             mine  == {d \in DOMAIN registered : d[1] = vcpu[v].bar}
             todo  == {d \in mine : To(d) # registered[d]}
             gone  == {<<d, registered[d]>> : d \in todo}
  <1>7. PICK ok \in SUBSET todo :
            /\ registered' = [d \in DOMAIN registered |-> IF d \in ok THEN To(d) ELSE registered[d]]
            /\ kernel' = Unregister(kernel, gone) \cup {<<d, To(d)>> : d \in ok}
            /\ refused' = refused \cup (todo \ ok)
    BY Zenon DEF move_doorbells_from
  <1>8. \A d \in DOMAIN registered : d[1] \in Bars /\ d[2] \in Nat /\ registered[d] \in Int
    BY <1>2, Zenon DEF BusInv, BusTypes
  <1>9. \A d \in DOMAIN registered : To(d) \in Int
    BY <1>4, <1>5, <1>6, <1>8 DEF saturating_sub
  <1>10. /\ vcpu' \in [Vcpus -> {Idle} \cup Move]
         /\ \A u \in Vcpus : u # v => vcpu'[u] = vcpu[u]
         /\ \/ vcpu'[v] = Idle
            \/ vcpu'[v].bar = vcpu[v].bar /\ vcpu'[v].at = "hi"
    BY <1>1, <1>2, <1>4, ThenMoves, Zenon
  <1>11. \A u \in Vcpus : u # v /\ vcpu[u] # Idle => vcpu[u].bar # b
    BY <1>2, <1>3, Zenon DEF BusInv, Exclusive
  \* A doorbell that was never refused is where its offset says, before and after.
  <1>12. \A d \in mine \ refused : registered[d] = from + d[2] /\ To(d) = bars[b] + d[2]
    <2> SUFFICES ASSUME NEW d \in mine \ refused
                 PROVE  registered[d] = from + d[2] /\ To(d) = bars[b] + d[2]
      BY Zenon
    <2>1. Behind(v, d[1], {"regions", "doorbells"})
      BY <1>1, <1>2, <1>3, Zenon DEF Behind
    <2>2. registered[d] = from + d[2]
      BY <1>5, <2>1, Zenon DEF BusInv, DoorbellsLag
    <2>3. QED BY <1>4, <1>5, <1>6, <1>8, <2>2 DEF saturating_sub
  <1> HIDE DEF To
  <1>13. BusTypes'
    <2>1. /\ registered' = [d \in DOMAIN registered' |-> registered'[d]]
          /\ \A d \in DOMAIN registered' : d[1] \in Placed(added') /\ d[2] \in Nat /\ registered'[d] \in Int
      BY <1>1, <1>2, <1>7, <1>8, <1>9, Zenon
    <2>2. QED BY <1>1, <1>10, <2>1, Zenon DEF BusInv, BusTypes
  <1>14. Exclusive'
    BY <1>1, <1>2, <1>3, <1>10, <1>11 DEF BusInv, Exclusive, Booted
  <1>15. \A u \in Vcpus, c \in Bars : \A s : s \in SUBSET {"regions", "doorbells"} /\ (c # b \/ u # v) =>
              /\ Behind(u, c, s)' <=> Behind(u, c, s)
              /\ Behind(u, c, s) => vcpu'[u] = vcpu[u]
    BY <1>3, <1>10, Zenon DEF Behind
  <1>16. \A u \in Vcpus : ~Behind(u, b, {"regions"})' /\ ~Behind(u, b, {"regions", "doorbells"})'
    BY <1>10, <1>11, Zenon DEF Behind
  <1>17. \A u \in Vcpus : ~Behind(u, b, {"regions"})
    BY <1>1, <1>11, Zenon DEF Behind
  <1>18. RegionsLag'
    BY <1>1, <1>2, <1>15, <1>17, Zenon DEF BusInv, RegionsLag
  <1>19. DoorbellsLag'
    <2> SUFFICES ASSUME NEW d \in DOMAIN registered, d \notin refused'
                 PROVE  /\ \A u \in Vcpus : Behind(u, d[1], {"regions", "doorbells"})'
                               => registered'[d] = vcpu'[u].from + d[2]
                        /\ (\A u \in Vcpus : ~Behind(u, d[1], {"regions", "doorbells"})')
                               => registered'[d] = bars[d[1]] + d[2]
      BY <1>1, <1>7, Zenon DEF DoorbellsLag
    <2>1. CASE d[1] = b
      <3>1. registered'[d] = To(d)
        BY <1>3, <1>7, <2>1, Zenon
      <3>2. registered'[d] = bars[d[1]] + d[2]
        BY <1>3, <1>7, <1>12, <2>1, <3>1, Zenon
      <3>3. QED BY <1>16, <2>1, <3>2, Zenon
    <2>2. CASE d[1] # b
      <3>1. registered'[d] = registered[d] /\ d \notin refused /\ d[1] \in Bars
        BY <1>3, <1>7, <1>8, <2>2, Zenon
      <3>2. QED BY <1>15, <2>2, <3>1 DEF BusInv, DoorbellsLag
    <2>3. QED BY <2>1, <2>2, Zenon
  <1>20. KnowsTarget'
    BY <1>1, <1>10, Zenon DEF BusInv, KnowsTarget
  <1>21. Answers'
    <2> SUFFICES ASSUME NEW k \in kernel'
                 PROVE  k = <<k[1], k[2]>> /\ k[1] \in DOMAIN registered' /\ k[2] = registered'[k[1]]
      BY Zenon DEF Answers
    <2>1. CASE \E d \in ok : k = <<d, To(d)>>
      BY <1>7, <2>1
    <2>2. CASE k \in kernel /\ k \notin gone
      <3>1. k = <<k[1], k[2]>> /\ k[1] \in DOMAIN registered /\ k[2] = registered[k[1]]
        BY <2>2, Zenon DEF BusInv, Answers
      <3>2. k[1] \notin todo
        BY <2>2, <3>1, Zenon
      <3>3. QED BY <1>7, <3>1, <3>2, Zenon
    <2>3. QED BY <1>7, <2>1, <2>2, Zenon DEF Unregister
  <1>22. QED BY <1>13, <1>14, <1>18, <1>19, <1>20, <1>21, Zenon DEF BusInv

\* Every step keeps the invariant.
LEMMA BusInductive == BusInv /\ [Next]_vars => BusInv'
  <1> SUFFICES ASSUME BusInv, [Next]_vars PROVE BusInv' BY Zenon
  <1>1. CASE add_device
    BY <1>1, AddKeeps, Zenon
  <1>2. ASSUME NEW v \in Vcpus, NEW b \in Bars,
               NEW a \in {0} \cup Window(b).start .. Window(b).end, Choose(v, b, a)
        PROVE  BusInv'
    <2>1. a \in Int
      BY <1>2, PciAssumption DEF Window
    <2>2. QED BY <1>2, <2>1, ChooseKeeps, Zenon
  <1>3. ASSUME NEW b \in Bars, NEW half \in {"lo", "hi"}, Probe(b, half) \/ config_read(b, half)
        PROVE  BusInv'
    BY <1>3, BusStutter, Zenon DEF Probe, config_read
  <1>4. ASSUME NEW v \in Vcpus, config_write(v) \/ move_region(v) \/ move_doorbells_from(v)
        PROVE  BusInv'
    BY <1>4, WriteKeeps, RegionKeeps, DoorbellsKeep, Zenon
  <1>5. CASE UNCHANGED vars
    BY <1>5, BusStutter, Zenon DEF vars
  <1>6. QED BY <1>1, <1>2, <1>3, <1>4, <1>5, Zenon DEF Next

\* It holds throughout.
LEMMA BusInvariance == Spec => []BusInv
  BY InitBus, BusInductive, PTL DEF Spec

\* For any devices, windows and vCPUs, and whichever doorbells KVM refuses: a
\* doorbell KVM took at every move is answered at its offset within the BAR
\* whenever no vCPU is at work on that BAR (move_doorbells_from).
THEOREM DoorbellsFollow == Spec => []DoorbellAtOffset
  <1>1. BusInv => DoorbellAtOffset
    <2> SUFFICES ASSUME BusInv, NEW k \in kernel, Settled(k[1][1]), k[1] \notin refused
                 PROVE  k[2] = bars[k[1][1]] + k[1][2]
      BY Zenon DEF DoorbellAtOffset
    <2>1. k[1] \in DOMAIN registered /\ k[2] = registered[k[1]]
      BY Zenon DEF BusInv, Answers
    <2>2. \A v \in Vcpus : ~Behind(v, k[1][1], {"regions", "doorbells"})
      BY Zenon DEF Settled, Behind
    <2>3. QED BY <2>1, <2>2, Zenon DEF BusInv, DoorbellsLag
  <1>2. QED BY <1>1, BusInvariance, PTL

\* Accesses are dispatched where the registers of a BAR say whenever no vCPU is
\* at work on it, although address and index are under different locks
\* (config_write).
THEOREM DispatchCorrect == Spec => []DispatchFollows
  <1>1. BusInv => DispatchFollows
    BY Zenon DEF BusInv, BusTypes, RegionsLag, DispatchFollows, Settled, Behind
  <1>2. QED BY <1>1, BusInvariance, PTL

-----------------------------------------------------------------------------

(* Division *)

\* Quotient and remainder.
LEMMA DivMod ==
    ASSUME NEW x \in Nat, NEW n \in Nat \ {0}
    PROVE  /\ x \div n \in Nat /\ x % n \in 0 .. n - 1
           /\ x = n * (x \div n) + (x % n)
  OBVIOUS

\* They are the only ones.
LEMMA Unique ==
    ASSUME NEW n \in Nat \ {0}, NEW q \in Nat, NEW r \in 0 .. n - 1
    PROVE  (n * q + r) \div n = q /\ (n * q + r) % n = r
  OBVIOUS

\* The same, to take the parts of a number by name.
LEMMA Parts ==
    ASSUME NEW x \in Nat, NEW n \in Nat \ {0}
    PROVE  \E q \in Nat, r \in 0 .. n - 1 : x = n * q + r /\ q = x \div n /\ r = x % n
  <1>1. /\ x \div n \in Nat /\ x % n \in 0 .. n - 1
        /\ x = n * (x \div n) + (x % n)
    BY DivMod, Zenon
  <1>2. QED BY ONLY <1>1, Zenon

\* A number without remainder is a multiple.
LEMMA Times ==
    ASSUME NEW x \in Nat, NEW s \in Nat \ {0}, x % s = 0
    PROVE  \E m \in Nat : x = s * m
  <1>1. PICK q \in Nat, r \in 0 .. s - 1 : x = s * q + r /\ q = x \div s /\ r = x % s
    BY Parts, Zenon
  <1>2. x = s * q
    BY <1>1
  <1>3. QED BY <1>2, Zenon

\* Facts about products the provers find only when told to.
LEMMA Assoc ==
    ASSUME NEW k \in Int, NEW s \in Int, NEW p \in Int
    PROVE  (k * s) * p = s * (k * p)
  OBVIOUS
LEMMA Distr ==
    ASSUME NEW s \in Int, NEW i \in Int, NEW j \in Int
    PROVE  s * i - s * j = s * (i - j) /\ s * i + s * j = s * (i + j)
  OBVIOUS
LEMMA Sign ==
    ASSUME NEW s \in Nat \ {0}, NEW i \in Int, s * i >= 0
    PROVE  i >= 0
  OBVIOUS
LEMMA Mono ==
    ASSUME NEW s \in Nat \ {0}, NEW i \in Int, NEW j \in Int, i <= j
    PROVE  s * i <= s * j
  OBVIOUS

\* Low register first, of a size that divides what it can hold.
Divides(s, L) == \E k \in Nat : L = k * s
LEMMA LowSmall ==
    ASSUME NEW x \in Nat, NEW t \in Nat, NEW s \in Nat \ {0},
           NEW L \in Nat \ {0}, Divides(s, L), t % s = 0
    PROVE  ((x \div L) * L + (t % L)) % s = 0
  <1>0. PICK k \in Nat : L = k * s
    BY Zenon DEF Divides
  <1>1. PICK q \in Nat, y \in 0 .. L - 1 : x = L * q + y /\ q = x \div L /\ y = x % L
    BY Parts, Zenon
  <1>2. PICK p \in Nat, r \in 0 .. L - 1 : t = L * p + r /\ p = t \div L /\ r = t % L
    BY Parts, Zenon
  <1>3. PICK j \in Nat : t = s * j
    BY Times, Zenon
  <1>4. PICK kp \in Int, kq \in Int : kp = k * p /\ kq = k * q
    OBVIOUS
  <1>5. L * p = s * kp /\ L * q = s * kq
    BY <1>0, <1>4, Assoc
  <1>6. r = s * (j - kp)
    BY ONLY <1>2, <1>3, <1>4, <1>5, Distr
  <1>7. PICK m \in Int : m = kq + (j - kp)
    BY <1>4
  <1>8. L * q + r = s * m
    BY ONLY <1>2, <1>3, <1>4, <1>5, <1>6, <1>7, Distr
  <1>9. m \in Nat
    BY <1>7, <1>8, Sign
  <1>10. (s * m + 0) % s = 0
    BY <1>9, Unique
  <1>11. s * m + 0 = s * m /\ L * q = q * L
    BY <1>9
  <1>12. (q * L + r) % s = 0
    BY <1>8, <1>10, <1>11, Zenon
  <1>13. QED BY <1>1, <1>2, <1>12, Zenon

\* A multiple of a multiple of L has nothing in the low register.
LEMMA Multiple ==
    ASSUME NEW x \in Nat, NEW k \in Nat, NEW L \in Nat \ {0}, k * L \in Nat \ {0}, x % (k * L) = 0
    PROVE  x % L = 0
  <1>0. PICK s \in Nat \ {0} : s = k * L
    BY Zenon
  <1>1. PICK m \in Nat : x = s * m
    BY <1>0, Times, Zenon
  <1>2. PICK n \in Nat : n = k * m OBVIOUS
  <1>3. x = L * n
    BY <1>0, <1>1, <1>2, Assoc
  <1>4. (L * n + 0) \div L = n /\ (L * n + 0) % L = 0
    BY <1>2, Unique
  <1>5. L * n + 0 = x /\ n * L = x
    BY <1>3
  <1>6. QED BY <1>4, <1>5, Zenon

\* A window that begins and ends at multiples of L holds all of a block or nothing of it.
LEMMA InBlock ==
    ASSUME NEW L \in Nat \ {0}, NEW S \in Nat, NEW E \in Nat, S % L = 0, E % L = 0,
           NEW x \in Nat, NEW r \in 0 .. L - 1, S <= x, x < E
    PROVE  S <= (x \div L) * L + r /\ (x \div L) * L + r < E
  <1>1. PICK i \in Nat : S = L * i
    BY Times, Zenon
  <1>2. PICK j \in Nat : E = L * j
    BY Times, Zenon
  <1>3. PICK q \in Nat, y \in 0 .. L - 1 : x = L * q + y /\ q = x \div L /\ y = x % L
    BY Parts, Zenon
  <1>4. i <= q
    <2> SUFFICES ASSUME q + 1 <= i PROVE FALSE BY <1>1, <1>3
    <2>1. L * (q + 1) <= L * i BY Mono
    <2>2. L * (q + 1) = L * q + L OBVIOUS
    <2> QED BY <1>1, <1>3, <2>1, <2>2
  <1>5. q + 1 <= j
    <2> SUFFICES ASSUME j <= q PROVE FALSE BY <1>2, <1>3
    <2>1. L * j <= L * q BY Mono
    <2> QED BY <1>2, <1>3, <2>1
  <1>6. L * i <= L * q /\ L * (q + 1) <= L * j
    BY <1>4, <1>5, Mono
  <1>7. L * (q + 1) = L * q + L /\ q * L = L * q
    OBVIOUS
  <1>8. QED BY <1>1, <1>2, <1>3, <1>6, <1>7

\* The low half replaced, the block kept.
LEMMA Halves ==
    ASSUME NEW L \in Nat \ {0}, NEW x \in Nat, NEW t \in Nat
    PROVE  LET a == (x \div L) * L + (t % L) IN a \in Nat /\ a \div L = x \div L /\ a % L = t % L
  <1>1. PICK q \in Nat, y \in 0 .. L - 1 : x = L * q + y /\ q = x \div L /\ y = x % L
    BY Parts, Zenon
  <1>2. PICK p \in Nat, r \in 0 .. L - 1 : t = L * p + r /\ p = t \div L /\ r = t % L
    BY Parts, Zenon
  <1>3. (L * q + r) \div L = q /\ (L * q + r) % L = r
    BY Unique, Zenon
  <1>4. L * q + r = q * L + r /\ q * L + r \in Nat
    OBVIOUS
  <1>5. QED BY <1>1, <1>2, <1>3, <1>4, Zenon

\* config_write rounds down to the size.
LEMMA Rounded ==
    ASSUME NEW a \in Nat, NEW s \in Nat \ {0}
    PROVE  a - (a % s) \in Nat /\ (a - (a % s)) % s = 0
  <1>1. PICK q \in Nat, r \in 0 .. s - 1 : a = s * q + r /\ q = a \div s /\ r = a % s
    BY Parts, Zenon
  <1>2. (s * q + 0) % s = 0
    BY Unique
  <1>3. a - r = s * q + 0 /\ s * q + 0 \in Nat
    BY <1>1
  <1>4. QED BY <1>1, <1>2, <1>3, Zenon

-----------------------------------------------------------------------------
(* What one register write does to an address *)

Size(b) == BarInfo[b].size

\* An address a BAR can have.
Fits(b, a) == a \in Nat /\ a % Size(b) = 0 /\ InWindow(Window(b), a)

\* What the bus knows of a BAR.
LEMMA SizeFacts ==
    ASSUME NEW b \in Bars
    PROVE  Size(b) \in Nat \ {0} /\ LoMod \in Nat \ {0} /\ BarInfo[b].wide \in BOOLEAN
  BY PciAssumption, Zenon DEF Size

\* Whatever a register asks for is aligned.
LEMMA RequestedAligned ==
    ASSUME NEW b \in Bars, NEW half, NEW t \in Nat, bars[b] \in Nat
    PROVE  Requested(b, half, t) \in Nat /\ Requested(b, half, t) % Size(b) = 0
  <1> DEFINE a == IF half = "hi" THEN (bars[b] % LoMod) + (t \div LoMod) * LoMod
                                ELSE (bars[b] \div LoMod) * LoMod + (t % LoMod)
  <1>1. a \in Nat
    <2>0. LoMod \in Nat \ {0}
      BY PciAssumption, Zenon
    <2>1. bars[b] \div LoMod \in Nat /\ bars[b] % LoMod \in 0 .. LoMod - 1
      BY <2>0, DivMod, Zenon
    <2>2. t \div LoMod \in Nat /\ t % LoMod \in 0 .. LoMod - 1
      BY <2>0, DivMod, Zenon
    <2>3. QED BY <2>0, <2>1, <2>2
  <1> HIDE DEF a
  <1>2. a - (a % Size(b)) \in Nat /\ (a - (a % Size(b))) % Size(b) = 0
    BY <1>1, SizeFacts, Rounded, Zenon
  <1>3. QED BY <1>2, Zenon DEF Requested, Size, a

\* The low register brings its half; the block of the 64-bit window is kept.
LEMMA LowWrite ==
    ASSUME NEW b \in Bars, PowerOfTwo(Size(b)), Fits(b, bars[b]), NEW t, Fits(b, t)
    PROVE  LET a == Requested(b, "lo", t) IN
           /\ InWindow(Window(b), a)
           /\ BarInfo[b].wide => a % LoMod = t % LoMod
           /\ ~BarInfo[b].wide => a = t
  <1>0. Size(b) \in Nat \ {0} /\ LoMod \in Nat \ {0} /\ BarInfo[b].wide \in BOOLEAN
    BY SizeFacts, Zenon
  <1>1. PICK x \in Nat : x = bars[b]
    BY Zenon DEF Fits
  <1>2. t \in Nat /\ x % Size(b) = 0 /\ t % Size(b) = 0
    BY <1>1, Zenon DEF Fits
  <1>3. PICK a \in Nat : a = (x \div LoMod) * LoMod + (t % LoMod)
    BY <1>2, <1>0, Halves, Zenon
  <1>4. a \div LoMod = x \div LoMod /\ a % LoMod = t % LoMod
    BY <1>2, <1>3, <1>0, Halves, Zenon
  <1>5. a % Size(b) = 0
    <2>0. \E k \in 1 .. LoMod + Size(b) : LoMod = k * Size(b) \/ Size(b) = k * LoMod
      BY PciAssumption, Zenon DEF Size
    <2>1. PICK k \in Nat : LoMod = k * Size(b) \/ Size(b) = k * LoMod
      BY <1>0, <2>0
    <2>2. CASE LoMod = k * Size(b)
      <3>1. Divides(Size(b), LoMod)
        BY <2>2, Zenon DEF Divides
      <3>2. ((x \div LoMod) * LoMod + (t % LoMod)) % Size(b) = 0
        BY <1>0, <1>2, <3>1, LowSmall, ZenonT(40)
      <3>3. QED BY <1>3, <3>2, Zenon
    <2>3. CASE Size(b) = k * LoMod
      <3>0. k * LoMod \in Nat \ {0} /\ x % (k * LoMod) = 0 /\ t % (k * LoMod) = 0
        BY <1>0, <1>2, <2>3, Zenon
      <3>1. (x \div LoMod) * LoMod = x
        <4>1. x % LoMod = 0
          BY <1>0, <3>0, Multiple, Zenon
        <4>2. PICK q \in Nat, r \in 0 .. LoMod - 1 : x = LoMod * q + r /\ q = x \div LoMod /\ r = x % LoMod
          BY <1>0, Parts, Zenon
        <4>3. q * LoMod = x
          BY <1>0, <4>1, <4>2
        <4>4. QED BY <4>2, <4>3, Zenon
      <3>2. t % LoMod = 0
        BY <1>0, <1>2, <3>0, Multiple, Zenon
      <3>3. QED BY <1>2, <1>3, <3>1, <3>2
    <2>4. QED BY <2>1, <2>2, <2>3, Zenon
  <1>6. Requested(b, "lo", t) = a
    <2>1. Requested(b, "lo", t) = a - (a % Size(b))
      BY <1>1, <1>3, Zenon DEF Requested, Size
    <2>2. QED BY <1>5, <2>1
  <1>7. CASE BarInfo[b].wide
    <2>1. /\ Window64.start \in Nat /\ Window64.end \in Nat
          /\ Window64.start % LoMod = 0 /\ Window64.end % LoMod = 0
      BY PciAssumption, Zenon
    <2>2. Window64.start <= x /\ x < Window64.end
      BY <1>1, <1>7, Zenon DEF Fits, InWindow, Window
    <2>3. t % LoMod \in 0 .. LoMod - 1
      BY <1>2, <1>0, DivMod, Zenon
    <2>4. Window64.start <= a /\ a < Window64.end
      BY <1>3, <2>1, <2>2, <2>3, <1>0, InBlock, Zenon
    <2>5. QED BY <1>4, <1>6, <1>7, <2>4, Zenon DEF InWindow, Window
  <1>8. CASE ~BarInfo[b].wide
    <2>0. Window32.end \in 0 .. LoMod
      BY PciAssumption, Zenon
    <2>1. x < LoMod /\ t < LoMod
      BY <1>0, <1>1, <1>2, <1>8, <2>0 DEF Fits, InWindow, Window
    <2>2. x \div LoMod = 0 /\ t % LoMod = t
      <3>0. x \in 0 .. LoMod - 1 /\ t \in 0 .. LoMod - 1
        BY <1>0, <1>2, <2>1
      <3>1. (LoMod * 0 + x) \div LoMod = 0 /\ (LoMod * 0 + t) % LoMod = t
        BY <1>0, <3>0, Unique, Zenon
      <3>2. LoMod * 0 + x = x /\ LoMod * 0 + t = t
        BY <1>2, <1>0
      <3>3. QED BY <3>1, <3>2, Zenon
    <2>3. a = t
      BY <1>2, <1>3, <2>2, <1>0
    <2>4. QED BY <1>6, <1>8, <2>3, Zenon DEF Fits
  <1>9. QED BY <1>7, <1>8, <1>0, Zenon

\* The high register then completes the address.
LEMMA HighWrite ==
    ASSUME NEW b \in Bars, NEW t, Fits(b, t), bars[b] \in Nat, bars[b] % LoMod = t % LoMod
    PROVE  Requested(b, "hi", t) = t
  <1>0. Size(b) \in Nat \ {0} /\ LoMod \in Nat \ {0} /\ BarInfo[b].wide \in BOOLEAN
    BY SizeFacts, Zenon
  <1>1. t \in Nat /\ t % Size(b) = 0
    BY Zenon DEF Fits
  <1>2. PICK q \in Nat, r \in 0 .. LoMod - 1 : t = LoMod * q + r /\ q = t \div LoMod /\ r = t % LoMod
    BY <1>1, <1>0, Parts, Zenon
  <1>3. r + q * LoMod = t
    BY <1>2, <1>0
  <1>4. Requested(b, "hi", t) = t - (t % Size(b))
    BY <1>2, <1>3, Zenon DEF Requested, Size
  <1>5. QED BY <1>1, <1>4

-----------------------------------------------------------------------------
(* The invariant *)

\* Every BAR has an address the bus decodes; until the guest runs it lies in its
\* window to the last byte.
AllFit ==
    \A b \in Placed(added) :
        /\ PowerOfTwo(Size(b)) /\ Fits(b, bars[b])
        /\ ~Booted => bars[b] + Size(b) <= Window(b).end

\* How far a vCPU has come with a BAR that is now at x.
Stage(m, x) ==
    LET wide == BarInfo[m.bar].wide
        low  == x % LoMod = m.target % LoMod
    IN /\ m.rest = "hi" => wide
       /\ m.at = "lo" /\ wide => m.rest = "hi"
       /\ m.at = "hi" => m.rest = "idle" /\ low
       /\ m.at \in {"regions", "doorbells"} => IF m.rest = "hi" THEN low ELSE x = m.target

OnItsWay ==
    \A v \in Vcpus : vcpu[v] # Idle =>
        /\ vcpu[v].target \in Nat /\ vcpu[v].target % Size(vcpu[v].bar) = 0
        /\ InWindow(Window(vcpu[v].bar), vcpu[v].target) => Stage(vcpu[v], bars[vcpu[v].bar])

\* Where a BAR is or may come to be.
Holders(b) == {v \in Vcpus : vcpu[v] # Idle /\ vcpu[v].bar = b}
Claims(b) ==
    {vcpu[v].target : v \in Holders(b)}
    \cup IF b \in astray THEN {}
         ELSE IF Holders(b) = {} THEN {bars[b]} ELSE {vcpu[v].old : v \in Holders(b)}

Clear(a, b, e, c) == ~Overlap(a, Size(b), e, Size(c))

Apart ==
    \A b, c \in Placed(added) : b # c => \A a \in Claims(b), e \in Claims(c) : Clear(a, b, e, c)

MoveInv == BusInv /\ AllFit /\ OnItsWay /\ Apart

-----------------------------------------------------------------------------

\* Nothing is placed and nobody is at work.
LEMMA InitMove == Init => MoveInv
  <1> SUFFICES ASSUME Init PROVE MoveInv BY Zenon
  <1>1. Placed(added) = {} /\ \A v \in Vcpus : vcpu[v] = Idle
    BY DEF Placed, Init
  <1>2. QED BY <1>1, InitBus, Zenon DEF MoveInv, AllFit, OnItsWay, Apart

\* Steps that touch neither addresses nor vCPUs.
LEMMA MoveStutter ==
    ASSUME MoveInv, UNCHANGED <<added, bars, regions, registered, kernel, vcpu, refused, astray>>
    PROVE  MoveInv'
  <1>1. BusInv'
    BY BusStutter, Zenon DEF MoveInv
  <1>2. AllFit' /\ OnItsWay'
    BY Zenon DEF MoveInv, AllFit, OnItsWay, Booted
  <1>3. \A b : Claims(b)' = Claims(b)
    BY Zenon DEF Claims, Holders
  <1>4. Apart'
    BY <1>3, Zenon DEF MoveInv, Apart
  <1>5. QED BY <1>1, <1>2, <1>4, Zenon DEF MoveInv

\* No step but the choice of a new address and a new device claims anything.
LEMMA ApartStays ==
    ASSUME Apart, added' = added, \A b \in Placed(added) : Claims(b)' \subseteq Claims(b)
    PROVE  Apart'
  BY Zenon DEF Apart

\* A vCPU that goes on keeps its claims; one that is done keeps where the BAR is.
LEMMA ClaimsShrink ==
    ASSUME NEW v \in Vcpus, NEW b, vcpu[v] # Idle, vcpu[v].bar = b,
           \A u \in Vcpus : u # v => vcpu'[u] = vcpu[u],
           \A u \in Vcpus : u # v /\ vcpu[u] # Idle => vcpu[u].bar # b,
           NEW c, c # b => bars'[c] = bars[c],
           \/ /\ vcpu'[v] # Idle /\ vcpu'[v].bar = b /\ astray' = astray
              /\ vcpu'[v].target = vcpu[v].target /\ vcpu'[v].old = vcpu[v].old
           \/ /\ vcpu'[v] = Idle
              /\ astray' = CASE bars'[b] = vcpu[v].target -> astray \ {b}
                             [] bars'[b] = vcpu[v].old -> astray
                             [] OTHER -> astray \cup {b}
    PROVE  Claims(c)' \subseteq Claims(c)
  <1>1. CASE c # b
    <2>1. Holders(c)' = Holders(c) /\ v \notin Holders(c)
      BY <1>1, Zenon DEF Holders
    <2>2. c \in astray' <=> c \in astray
      BY <1>1, Zenon
    <2>3. \A u \in Holders(c) : vcpu'[u] = vcpu[u]
      BY <2>1, Zenon DEF Holders
    <2>4. QED BY <1>1, <2>1, <2>2, <2>3 DEF Claims
  <1>2. CASE c = b
    <2>1. Holders(b) = {v}
      BY Zenon DEF Holders
    <2>2. Claims(b) = {vcpu[v].target} \cup IF b \in astray THEN {} ELSE {vcpu[v].old}
      BY <2>1 DEF Claims
    <2>3. CASE vcpu'[v] = Idle
      <3>1. Holders(b)' = {}
        BY <2>3, Zenon DEF Holders
      <3>2. Claims(b)' = IF b \in astray' THEN {} ELSE {bars'[b]}
        BY <3>1, Zenon DEF Claims
      <3>3. QED BY <1>2, <2>2, <2>3, <3>2, Zenon
    <2>4. CASE vcpu'[v] # Idle
      <3>1. Holders(b)' = {v}
        BY <2>4, Zenon DEF Holders
      <3>2. Claims(b)' = {vcpu'[v].target} \cup IF b \in astray' THEN {} ELSE {vcpu'[v].old}
        BY <3>1, Zenon DEF Claims
      <3>3. QED BY <1>2, <2>2, <2>4, <3>2, Zenon
    <2>5. QED BY <2>3, <2>4, Zenon
  <1>3. QED BY <1>1, <1>2, Zenon

\* Everybody but the vCPU at work keeps its state and its BAR.
LEMMA HeldAlone ==
    ASSUME BusInv, NEW v \in Vcpus, vcpu[v].at # "idle"
    PROVE  \A u \in Vcpus : u # v /\ vcpu[u] # Idle => vcpu[u].bar # vcpu[v].bar
  BY BusyVcpu, Zenon DEF BusInv, Exclusive

\* The new address is clear of all that others have or may get.
LEMMA ChooseMoves ==
    ASSUME MoveInv, NEW v \in Vcpus, NEW b \in Bars, NEW a \in Nat, Choose(v, b, a)
    PROVE  MoveInv'
  <1> DEFINE m == [at |-> "lo", bar |-> b, target |-> a, old |-> bars[b], from |-> 0, to |-> 0,
                   rest |-> IF BarInfo[b].wide THEN "hi" ELSE "idle"]
  <1>1. /\ vcpu' = [vcpu EXCEPT ![v] = m] /\ vcpu[v] = Idle /\ Booted
        /\ UNCHANGED <<added, bars, astray>> /\ a % Size(b) = 0
    BY Zenon DEF Choose, Size
  <1>2. /\ \A u \in Vcpus : vcpu[u] # Idle =>
              vcpu[u].bar # b /\ Clear(a, b, vcpu[u].old, vcpu[u].bar) /\ Clear(a, b, vcpu[u].target, vcpu[u].bar)
        /\ \A c \in Bars \ {b} : Clear(a, b, bars[c], c)
    BY Zenon DEF Choose, Clear, Size
  <1>3. BusInv'
    <2>1. a \in Int
      OBVIOUS
    <2>2. QED BY <2>1, ChooseKeeps, Zenon DEF MoveInv
  <1>4. Placed(added) = Bars
    BY <1>1, AllPlaced, Zenon DEF Booted
  <1>5. vcpu \in [Vcpus -> {Idle} \cup Move] /\ \A c \in Bars : bars[c] \in Int
    BY <1>4, Zenon DEF MoveInv, BusInv, BusTypes
  <1>6. m \in Move /\ m.bar = b /\ m.at = "lo" /\ m.target = a /\ m.old = bars[b]
        /\ m.rest = IF BarInfo[b].wide THEN "hi" ELSE "idle"
    BY <1>5 DEF Move
  <1>7. \A u \in Vcpus : vcpu'[u] = IF u = v THEN m ELSE vcpu[u]
    BY <1>1, <1>5, Zenon
  <1> HIDE DEF m
  <1>8. m # Idle
    BY <1>6, MoveIsBusy, Zenon
  <1>9. AllFit'
    BY <1>1, Zenon DEF MoveInv, AllFit, Booted
  <1>10. OnItsWay'
    <2>1. Stage(m, bars[b])
      BY <1>6, Zenon DEF Stage
    <2>2. QED BY <1>1, <1>6, <1>7, <2>1, Zenon DEF MoveInv, OnItsWay
  <1>11. Holders(b) = {} /\ Holders(b)' = {v} /\ \A c : c # b => Holders(c)' = Holders(c) /\ v \notin Holders(c)
    BY <1>1, <1>2, <1>6, <1>7, <1>8 DEF Holders
  <1>12. Claims(b)' \subseteq {a} \cup Claims(b)
    BY <1>1, <1>6, <1>7, <1>11 DEF Claims
  <1>13. \A c : c # b => Claims(c)' = Claims(c)
    <2> SUFFICES ASSUME NEW c, c # b PROVE Claims(c)' = Claims(c)
      BY Zenon
    <2>1. \A u \in Holders(c) : vcpu'[u] = vcpu[u]
      BY <1>7, <1>11, Zenon DEF Holders
    <2>2. QED BY <1>1, <1>11, <2>1 DEF Claims
  <1>14. \A c \in Bars \ {b} : \A e \in Claims(c) : Clear(a, b, e, c) /\ Clear(e, c, a, b)
    <2> SUFFICES ASSUME NEW c \in Bars \ {b}, NEW e \in Claims(c) PROVE Clear(a, b, e, c) /\ Clear(e, c, a, b)
      BY Zenon
    <2>1. e = bars[c] \/ \E u \in Holders(c) : e = vcpu[u].target \/ e = vcpu[u].old
      BY Zenon DEF Claims
    <2>2. Clear(a, b, e, c)
      BY <1>2, <2>1, Zenon DEF Holders
    <2>3. QED BY <2>2, Zenon DEF Clear, Overlap
  <1>15. Apart'
    <2> SUFFICES ASSUME NEW c \in Bars, NEW d \in Bars, c # d, NEW e \in Claims(c)', NEW f \in Claims(d)'
                 PROVE  Clear(e, c, f, d)
      BY <1>1, <1>4, Zenon DEF Apart
    <2>1. CASE e \in Claims(c) /\ f \in Claims(d)
      BY <1>4, <2>1, Zenon DEF MoveInv, Apart
    <2>2. CASE c = b /\ e = a
      BY <1>13, <1>14, <2>2, Zenon
    <2>3. CASE d = b /\ f = a
      BY <1>13, <1>14, <2>3, Zenon
    <2>4. QED BY <1>12, <1>13, <2>1, <2>2, <2>3, Zenon
  <1>16. QED BY <1>3, <1>9, <1>10, <1>15, Zenon DEF MoveInv

\* The dispatch index follows; the BAR stays.
LEMMA RegionMoves == ASSUME MoveInv, NEW v \in Vcpus, move_region(v) PROVE MoveInv'
  <1>1. /\ vcpu[v].at = "regions" /\ UNCHANGED <<added, bars, astray>>
        /\ vcpu' = [vcpu EXCEPT ![v].at = "doorbells"]
    BY Zenon DEF move_region
  <1>2. vcpu[v] \in Move /\ vcpu[v] # Idle /\ vcpu[v].bar \in Bars
    BY <1>1, BusyVcpu, Zenon DEF MoveInv
  <1>3. PICK b \in Bars : b = vcpu[v].bar
    BY <1>2, Zenon
  <1>4. vcpu \in [Vcpus -> {Idle} \cup Move]
    BY Zenon DEF MoveInv, BusInv, BusTypes
  <1> DEFINE m == [vcpu[v] EXCEPT !.at = "doorbells"]
  <1>5. m \in Move /\ m.bar = b /\ m.at = "doorbells" /\ m.target = vcpu[v].target
        /\ m.old = vcpu[v].old /\ m.rest = vcpu[v].rest
    BY <1>2, <1>3, Zenon DEF Move
  <1>6. \A u \in Vcpus : vcpu'[u] = IF u = v THEN m ELSE vcpu[u]
    BY <1>1, <1>4, Zenon
  <1> HIDE DEF m
  <1>7. m # Idle
    BY <1>5, MoveIsBusy, Zenon
  <1>8. BusInv'
    BY RegionKeeps, Zenon DEF MoveInv
  <1>9. AllFit'
    BY <1>1, Zenon DEF MoveInv, AllFit, Booted
  <1>10. OnItsWay'
    <2>1. Stage(vcpu[v], bars[b]) => Stage(m, bars[b])
      BY <1>1, <1>3, <1>5, Zenon DEF Stage
    <2>2. QED BY <1>1, <1>2, <1>3, <1>5, <1>6, <2>1 DEF MoveInv, OnItsWay
  <1>11. \A u \in Vcpus : u # v /\ vcpu[u] # Idle => vcpu[u].bar # b
    BY <1>1, <1>3, HeldAlone, Zenon DEF MoveInv
  <1>12. \A c : Claims(c)' \subseteq Claims(c)
    BY <1>1, <1>2, <1>3, <1>5, <1>6, <1>7, <1>11, ClaimsShrink
  <1>13. Apart'
    BY <1>1, <1>12, ApartStays, Zenon DEF MoveInv
  <1>14. QED BY <1>8, <1>9, <1>10, <1>13, Zenon DEF MoveInv

\* After a write the vCPU is done, or has the high register left.
LEMMA ThenTurns ==
    ASSUME NEW v \in Vcpus, vcpu \in [Vcpus -> {Idle} \cup Move], vcpu[v] \in Move, Then(v)
    PROVE  \/ /\ vcpu[v].rest = "idle" /\ vcpu'[v] = Idle
              /\ astray' = CASE bars'[vcpu[v].bar] = vcpu[v].target -> astray \ {vcpu[v].bar}
                             [] bars'[vcpu[v].bar] = vcpu[v].old -> astray
                             [] OTHER -> astray \cup {vcpu[v].bar}
           \/ /\ vcpu[v].rest = "hi" /\ astray' = astray
              /\ vcpu'[v] # Idle /\ vcpu'[v].at = "hi" /\ vcpu'[v].rest = "idle"
              /\ vcpu'[v].bar = vcpu[v].bar
              /\ vcpu'[v].target = vcpu[v].target /\ vcpu'[v].old = vcpu[v].old
  <1>1. CASE vcpu[v].rest = "idle"
    BY <1>1, Zenon DEF Then
  <1>2. CASE vcpu[v].rest # "idle"
    <2> DEFINE m == [vcpu[v] EXCEPT !.at = "hi", !.rest = "idle"]
    <2>1. vcpu' = [vcpu EXCEPT ![v] = m] /\ astray' = astray /\ vcpu[v].rest = "hi"
      BY <1>2, Zenon DEF Then, Move
    <2>2. m \in Move /\ m.bar = vcpu[v].bar /\ m.at = "hi" /\ m.rest = "idle"
          /\ m.target = vcpu[v].target /\ m.old = vcpu[v].old
      BY Zenon DEF Move
    <2>3. m # Idle
      BY <2>2, MoveIsBusy, Zenon
    <2> HIDE DEF m
    <2>4. vcpu'[v] = m
      BY <2>1, Zenon
    <2>5. QED BY <2>1, <2>2, <2>3, <2>4, Zenon
  <1>3. QED BY <1>1, <1>2, Zenon

\* What a write asks for, on the way to an address the bus decodes.
LEMMA Written ==
    ASSUME MoveInv, NEW v \in Vcpus, vcpu[v].at \in {"lo", "hi"},
           InWindow(Window(vcpu[v].bar), vcpu[v].target)
    PROVE  LET a == Requested(vcpu[v].bar, vcpu[v].at, vcpu[v].target) IN
           /\ InWindow(Window(vcpu[v].bar), a)
           /\ IF vcpu[v].rest = "hi" THEN a % LoMod = vcpu[v].target % LoMod ELSE a = vcpu[v].target
  <1>1. vcpu[v] \in Move /\ vcpu[v] # Idle /\ vcpu[v].bar \in Bars /\ Placed(added) = Bars
    BY BusyVcpu, Zenon DEF MoveInv
  <1>2. PICK b \in Bars : b = vcpu[v].bar
    BY <1>1, Zenon
  <1>3. PICK t \in Nat : t = vcpu[v].target
    BY <1>1, Zenon DEF MoveInv, OnItsWay
  <1>4. Fits(b, t) /\ Stage(vcpu[v], bars[b])
    BY <1>1, <1>2, <1>3, Zenon DEF MoveInv, OnItsWay, Fits
  <1>5. PowerOfTwo(Size(b)) /\ Fits(b, bars[b])
    BY <1>1, Zenon DEF MoveInv, AllFit
  <1>6. vcpu[v].rest \in {"hi", "idle"} /\ BarInfo[b].wide \in BOOLEAN
    BY <1>1, SizeFacts, Zenon DEF Move
  <1>7. CASE vcpu[v].at = "lo"
    <2>1. vcpu[v].rest = "hi" <=> BarInfo[b].wide
      BY <1>2, <1>4, <1>6, <1>7, Zenon DEF Stage
    <2>2. /\ InWindow(Window(b), Requested(b, "lo", t))
          /\ BarInfo[b].wide => Requested(b, "lo", t) % LoMod = t % LoMod
          /\ ~BarInfo[b].wide => Requested(b, "lo", t) = t
      BY <1>4, <1>5, LowWrite, Zenon
    <2>3. QED BY <1>2, <1>3, <1>7, <2>1, <2>2, Zenon
  <1>8. CASE vcpu[v].at = "hi"
    <2>1. vcpu[v].rest = "idle" /\ bars[b] % LoMod = t % LoMod
      BY <1>2, <1>3, <1>4, <1>8, Zenon DEF Stage
    <2>2. Requested(b, "hi", t) = t
      BY <1>4, <1>5, <2>1, HighWrite, Zenon DEF Fits
    <2>3. QED BY <1>2, <1>3, <1>8, <2>1, <2>2, Zenon
  <1>9. QED BY <1>7, <1>8, Zenon

\* Each write brings its half, or nothing if it has it already.
LEMMA WriteMoves == ASSUME MoveInv, NEW v \in Vcpus, config_write(v) PROVE MoveInv'
  <1>1. vcpu[v].at \in {"lo", "hi"} /\ UNCHANGED added
    BY Zenon DEF config_write
  <1>2. /\ vcpu[v] \in Move /\ vcpu[v] # Idle /\ added = Len(Devices)
        /\ vcpu[v].bar \in Bars /\ Placed(added) = Bars
    BY <1>1, BusyVcpu, Zenon DEF MoveInv
  <1>3. PICK b \in Bars : b = vcpu[v].bar
    BY <1>2, Zenon
  <1>4. PICK t \in Nat : t = vcpu[v].target /\ t % Size(b) = 0
    BY <1>2, <1>3, Zenon DEF MoveInv, OnItsWay
  <1>5. /\ vcpu \in [Vcpus -> {Idle} \cup Move] /\ DOMAIN bars = Bars
        /\ \A c \in Bars : PowerOfTwo(Size(c)) /\ Fits(c, bars[c])
    BY <1>2, Zenon DEF MoveInv, BusInv, BusTypes, AllFit
  <1>6. \A u \in Vcpus : u # v /\ vcpu[u] # Idle => vcpu[u].bar # b
    BY <1>1, <1>3, HeldAlone, Zenon DEF MoveInv
  <1>7. PICK a \in Nat : a = Requested(b, vcpu[v].at, vcpu[v].target) /\ a % Size(b) = 0
    BY <1>4, <1>5, RequestedAligned, Zenon DEF Fits
  <1>8. InWindow(Window(b), t) =>
           /\ InWindow(Window(b), a)
           /\ IF vcpu[v].rest = "hi" THEN a % LoMod = t % LoMod ELSE a = t
    BY <1>1, <1>3, <1>4, <1>7, Written, Zenon
  <1>9. BusInv'
    BY WriteKeeps, Zenon DEF MoveInv
  <1>10. CASE Decodes(b, a) /\ a # bars[b]
    <2> DEFINE m == [vcpu[v] EXCEPT !.at = "regions", !.from = bars[b], !.to = a]
    <2>1. bars' = [bars EXCEPT ![b] = a] /\ vcpu' = [vcpu EXCEPT ![v] = m] /\ astray' = astray
      BY <1>3, <1>7, <1>10, Zenon DEF config_write
    <2>2. bars[b] \in Int /\ a \in Int
      BY <1>5 DEF Fits
    <2>3. m \in Move /\ m.bar = b /\ m.at = "regions" /\ m.target = t /\ m.old = vcpu[v].old
          /\ m.rest = vcpu[v].rest
      BY <1>2, <1>3, <1>4, <2>2, Zenon DEF Move
    <2> HIDE DEF m
    <2>4. m # Idle
      BY <2>3, MoveIsBusy, Zenon
    <2>5. /\ \A u \in Vcpus : vcpu'[u] = IF u = v THEN m ELSE vcpu[u]
          /\ \A c \in Bars : bars'[c] = IF c = b THEN a ELSE bars[c]
      BY <1>5, <2>1, Zenon
    <2>6. AllFit'
      BY <1>1, <1>2, <1>5, <1>7, <1>10, <2>5, Zenon DEF AllFit, Fits, Decodes, Booted
    <2>7. InWindow(Window(b), t) => Stage(m, a)
      <3>1. InWindow(Window(b), t) => Stage(vcpu[v], bars[b])
        BY <1>2, <1>3, <1>4, Zenon DEF MoveInv, OnItsWay
      <3>2. QED BY <1>3, <1>8, <2>3, <3>1, Zenon DEF Stage
    <2>8. \A u \in Vcpus : vcpu[u] # Idle => vcpu[u].bar \in Bars
      BY <1>5, Zenon DEF Move
    <2>9. OnItsWay'
      BY <1>4, <1>6, <2>3, <2>5, <2>7, <2>8 DEF MoveInv, OnItsWay
    <2>10. \A c \in Bars : Claims(c)' \subseteq Claims(c)
      BY <1>2, <1>3, <1>4, <1>6, <2>1, <2>3, <2>4, <2>5, ClaimsShrink
    <2>11. Apart'
      BY <1>1, <1>2, <2>10, ApartStays, Zenon DEF MoveInv
    <2>12. QED BY <1>9, <2>6, <2>9, <2>11, Zenon DEF MoveInv
  <1>11. CASE ~(Decodes(b, a) /\ a # bars[b])
    <2>1. UNCHANGED bars /\ Then(v)
      BY <1>3, <1>7, <1>11, Zenon DEF config_write
    <2>2. \A u \in Vcpus : u # v => vcpu'[u] = vcpu[u]
      BY <1>2, <1>5, <2>1, ThenMoves, Zenon
    <2>3. \/ /\ vcpu[v].rest = "idle" /\ vcpu'[v] = Idle
             /\ astray' = CASE bars'[b] = vcpu[v].target -> astray \ {b}
                            [] bars'[b] = vcpu[v].old -> astray
                            [] OTHER -> astray \cup {b}
          \/ /\ vcpu[v].rest = "hi" /\ astray' = astray
             /\ vcpu'[v] # Idle /\ vcpu'[v].at = "hi" /\ vcpu'[v].rest = "idle" /\ vcpu'[v].bar = b
             /\ vcpu'[v].target = vcpu[v].target /\ vcpu'[v].old = vcpu[v].old
      BY <1>2, <1>3, <1>5, <2>1, ThenTurns, Zenon
    <2>4. AllFit'
      BY <1>1, <2>1, Zenon DEF MoveInv, AllFit, Booted
    <2>5. vcpu'[v] # Idle /\ InWindow(Window(b), t) => Stage(vcpu'[v], bars[b])
      BY <1>4, <1>8, <1>11, <2>3, Zenon DEF Stage, Decodes
    <2>6. OnItsWay'
      BY <1>3, <1>4, <2>1, <2>2, <2>3, <2>5, Zenon DEF MoveInv, OnItsWay
    <2>7. \A c : Claims(c)' \subseteq Claims(c)
      BY <1>2, <1>3, <1>6, <2>1, <2>2, <2>3, ClaimsShrink
    <2>8. Apart'
      BY <1>1, <2>7, ApartStays, Zenon DEF MoveInv
    <2>9. QED BY <1>9, <2>4, <2>6, <2>8, Zenon DEF MoveInv
  <1>12. QED BY <1>10, <1>11, Zenon

\* The doorbells follow; the vCPU goes on with the high register or is done.
LEMMA DoorbellsMove == ASSUME MoveInv, NEW v \in Vcpus, move_doorbells_from(v) PROVE MoveInv'
  <1>1. vcpu[v].at = "doorbells" /\ UNCHANGED <<added, bars>> /\ Then(v)
    BY Zenon DEF move_doorbells_from
  <1>2. vcpu[v] \in Move /\ vcpu[v] # Idle /\ vcpu[v].bar \in Bars
    BY <1>1, BusyVcpu, Zenon DEF MoveInv
  <1>3. PICK b \in Bars : b = vcpu[v].bar
    BY <1>2, Zenon
  <1>4. vcpu \in [Vcpus -> {Idle} \cup Move]
    BY Zenon DEF MoveInv, BusInv, BusTypes
  <1>5. \A u \in Vcpus : u # v => vcpu'[u] = vcpu[u]
    BY <1>1, <1>2, <1>4, ThenMoves, Zenon
  <1>6. \/ /\ vcpu[v].rest = "idle" /\ vcpu'[v] = Idle
           /\ astray' = CASE bars'[b] = vcpu[v].target -> astray \ {b}
                          [] bars'[b] = vcpu[v].old -> astray
                          [] OTHER -> astray \cup {b}
        \/ /\ vcpu[v].rest = "hi" /\ astray' = astray
           /\ vcpu'[v] # Idle /\ vcpu'[v].at = "hi" /\ vcpu'[v].rest = "idle" /\ vcpu'[v].bar = b
           /\ vcpu'[v].target = vcpu[v].target /\ vcpu'[v].old = vcpu[v].old
    BY <1>1, <1>2, <1>3, <1>4, ThenTurns, Zenon
  <1>7. \A u \in Vcpus : u # v /\ vcpu[u] # Idle => vcpu[u].bar # b
    BY <1>1, <1>3, HeldAlone, Zenon DEF MoveInv
  <1>8. BusInv'
    BY DoorbellsKeep, Zenon DEF MoveInv
  <1>9. AllFit'
    BY <1>1, Zenon DEF MoveInv, AllFit, Booted
  <1>10. OnItsWay'
    <2>1. vcpu'[v] # Idle /\ Stage(vcpu[v], bars[b]) => Stage(vcpu'[v], bars[b])
      BY <1>1, <1>3, <1>6, Zenon DEF Stage
    <2>2. QED BY <1>1, <1>2, <1>3, <1>5, <1>6, <2>1, Zenon DEF MoveInv, OnItsWay
  <1>11. \A c : Claims(c)' \subseteq Claims(c)
    BY <1>1, <1>2, <1>3, <1>5, <1>6, <1>7, ClaimsShrink
  <1>12. Apart'
    BY <1>1, <1>11, ApartStays, Zenon DEF MoveInv
  <1>13. QED BY <1>8, <1>9, <1>10, <1>12, Zenon DEF MoveInv

-----------------------------------------------------------------------------
(* Placing a device *)

\* One behind the other.
LEMMA InOrder ==
    ASSUME NEW b \in Bars, NEW c \in Bars, NEW a \in Nat, NEW e \in Nat, a + Size(b) <= e
    PROVE  Clear(a, b, e, c) /\ Clear(e, c, a, b)
  BY SizeFacts DEF Clear, Overlap

\* BARs of different windows, both inside them to the last byte.
LEMMA WindowsApart ==
    ASSUME NEW b \in Bars, NEW c \in Bars, BarInfo[b].wide # BarInfo[c].wide, NEW a, NEW e,
           Fits(b, a), a + Size(b) <= Window(b).end, Fits(c, e), e + Size(c) <= Window(c).end
    PROVE  Clear(a, b, e, c) /\ Clear(e, c, a, b)
  <1>1. /\ Window32.start \in Nat /\ Window32.end \in 0 .. LoMod /\ LoMod \in Nat
        /\ Window64.start \in Nat /\ Window64.end \in Nat /\ LoMod <= Window64.start
    BY PciAssumption, Zenon
  <1>2. a \in Nat /\ e \in Nat /\ InWindow(Window(b), a) /\ InWindow(Window(c), e)
    BY Zenon DEF Fits
  <1>3. Size(b) \in Nat /\ Size(c) \in Nat /\ BarInfo[b].wide \in BOOLEAN /\ BarInfo[c].wide \in BOOLEAN
    BY SizeFacts, Zenon
  <1>4. CASE BarInfo[b].wide
    <2>0. Window(b) = Window64 /\ Window(c) = Window32
      BY <1>3, <1>4, Zenon DEF Window
    <2>1. e + Size(c) <= a
      BY <1>1, <1>2, <1>3, <2>0 DEF InWindow
    <2>2. QED BY <1>2, <2>1, InOrder, Zenon
  <1>5. CASE ~BarInfo[b].wide
    <2>0. Window(b) = Window32 /\ Window(c) = Window64
      BY <1>3, <1>5, Zenon DEF Window
    <2>1. a + Size(b) <= e
      BY <1>1, <1>2, <1>3, <2>0, SMTT(40) DEF InWindow
    <2>2. QED BY <1>2, <2>1, InOrder, Zenon
  <1>6. QED BY <1>4, <1>5, Zenon

\* What add_device finds for a device: addresses behind everything in the window,
\* and for the device's own BARs one behind the other.
LEMMA Placing ==
    ASSUME NEW device \in Seq(Bars), NEW at \in Placements(device)
    PROVE  /\ \A b \in Range(device) : PowerOfTwo(Size(b)) /\ Fits(b, at[b]) /\ at[b] + Size(b) <= Window(b).end
           /\ \A b \in Range(device), c \in DOMAIN regions :
                 InWindow(Window(b), regions[c]) => regions[c] + Size(c) <= at[b]
           /\ \A b, c \in Range(device) : b # c /\ BarInfo[b].wide = BarInfo[c].wide =>
                 at[b] + Size(b) <= at[c] \/ at[c] + Size(c) <= at[b]
  <1>1. at \in [Range(device) -> 0 .. Max({Window32.end, Window64.end})] /\ Place(device, at)
    BY Zenon DEF Placements
  <1>2. \A b \in Range(device) : at[b] \in Nat
    BY <1>1
  <1>3. DOMAIN device = 1 .. Len(device) /\ Len(device) \in Nat
    BY DEF Bars
  <1>4. \A b \in Range(device) : b \in Bars /\ \E i \in DOMAIN device : b = device[i]
    BY <1>3 DEF Range
  <1>5. \A i \in DOMAIN device :
           LET b == device[i] IN
           /\ AlignedUp(at[b], Floors(device, at, i), Size(b))
           /\ PowerOfTwo(Size(b)) /\ at[b] + Size(b) <= Window(b).end
    BY <1>1, Zenon DEF Place, Size
  <1>6. \A i \in DOMAIN device :
           /\ Window(device[i]).start \in Floors(device, at, i)
           /\ \A c \in DOMAIN regions : InWindow(Window(device[i]), regions[c]) =>
                 regions[c] + Size(c) \in Floors(device, at, i)
           /\ \A j \in 1 .. i - 1 : BarInfo[device[j]].wide = BarInfo[device[i]].wide =>
                 at[device[j]] + Size(device[j]) \in Floors(device, at, i)
    BY ZenonT(40) DEF Floors, Size
  <1>7. ASSUME NEW b \in Range(device)
        PROVE  PowerOfTwo(Size(b)) /\ Fits(b, at[b]) /\ at[b] + Size(b) <= Window(b).end
    <2>1. PICK i \in DOMAIN device : b = device[i]
      BY <1>4, Zenon
    <2>2. at[b] % Size(b) = 0 /\ Window(b).start <= at[b]
      BY <1>5, <1>6, <2>1, Zenon DEF AlignedUp
    <2>3. Size(b) \in Nat \ {0} /\ Window(b).end \in Nat
      <3>1. Size(b) \in Nat \ {0}
        BY <1>4, SizeFacts, Zenon
      <3>2. Window32.end \in Nat /\ Window64.end \in Nat
        BY PciAssumption, SMTT(40)
      <3>3. QED BY <3>1, <3>2, Zenon DEF Window
    <2>4. at[b] < Window(b).end
      BY <1>2, <1>5, <2>1, <2>3, SMTT(40)
    <2>5. QED BY <1>2, <1>5, <2>1, <2>2, <2>4, Zenon DEF Fits, InWindow
  <1>8. ASSUME NEW b \in Range(device), NEW c \in DOMAIN regions, InWindow(Window(b), regions[c])
        PROVE  regions[c] + Size(c) <= at[b]
    <2>1. PICK i \in DOMAIN device : b = device[i]
      BY <1>4, Zenon
    <2>2. QED BY <1>5, <1>6, <1>8, <2>1, Zenon DEF AlignedUp
  <1>9. ASSUME NEW i \in DOMAIN device, NEW j \in DOMAIN device, j < i,
               BarInfo[device[j]].wide = BarInfo[device[i]].wide
        PROVE  at[device[j]] + Size(device[j]) <= at[device[i]]
    <2>1. j \in 1 .. i - 1
      BY <1>3, <1>9
    <2>2. QED BY <1>5, <1>6, <1>9, <2>1, Zenon DEF AlignedUp
  <1>10. ASSUME NEW b \in Range(device), NEW c \in Range(device), b # c, BarInfo[b].wide = BarInfo[c].wide
         PROVE  at[b] + Size(b) <= at[c] \/ at[c] + Size(c) <= at[b]
    <2>1. PICK i \in DOMAIN device : b = device[i]
      BY <1>4, Zenon
    <2>2. PICK j \in DOMAIN device : c = device[j]
      BY <1>4, Zenon
    <2>3. i < j \/ j < i
      <3>1. i \in Nat /\ j \in Nat
        BY <1>3
      <3>2. i # j
        BY <1>10, <2>1, <2>2, Zenon
      <3>3. QED BY <3>1, <3>2
    <2>4. QED BY <1>9, <1>10, <2>1, <2>2, <2>3, Zenon
  <1>11. QED BY <1>7, <1>8, <1>10, Zenon

\* A new device is behind all earlier ones in its windows.
LEMMA AddMoves == ASSUME MoveInv, add_device PROVE MoveInv'
  <1> DEFINE device == Devices[added + 1]
  <1>1. BusInv'
    BY AddKeeps, Zenon DEF MoveInv
  <1>2. CASE ~(added < MaxDevices /\ Placements(device) # {})
    <2>1. UNCHANGED <<added, bars, regions, registered, kernel, vcpu, refused, astray>>
      BY <1>2, Zenon DEF add_device
    <2>2. QED BY <2>1, MoveStutter, Zenon
  <1>3. CASE added < MaxDevices /\ Placements(device) # {}
    <2>1. PICK at \in Placements(device) :
             /\ added' = added + 1 /\ bars' = Extend(bars, at)
             /\ UNCHANGED <<vcpu, astray>>
      BY <1>3, Zenon DEF add_device
    <2>2. added \in Nat /\ added < Len(Devices)
      BY Zenon DEF add_device, MoveInv, BusInv, BusTypes
    <2>3. device \in Seq(Bars)
      <3>1. Devices \in Seq(Seq(Bars)) /\ added + 1 \in 1 .. Len(Devices)
        BY <2>2, PciAssumption
      <3>2. QED BY <3>1
    <2>4. /\ Placed(added') = Placed(added) \cup Range(device)
          /\ Placed(added) \cap Range(device) = {} /\ Range(device) \subseteq Bars
      BY <2>1, <2>2, NextIsNew, Zenon
    <2>5. Placed(added) \subseteq Bars /\ DOMAIN bars = Placed(added) /\ DOMAIN regions = Placed(added)
      <3>1. \A i \in 1 .. added : i \in DOMAIN Devices
        BY <2>2, PciAssumption
      <3>2. Placed(added) \subseteq Bars
        BY <3>1, PciAssumption, Zenon DEF Placed
      <3>3. QED BY <3>2, Zenon DEF MoveInv, BusInv, BusTypes
    <2>6. \A v \in Vcpus : vcpu[v] = Idle
      BY <2>2 DEF MoveInv, BusInv, Exclusive, Booted
    <2>7. \A c \in Placed(added) : regions[c] = bars[c]
      BY <2>6, Zenon DEF MoveInv, BusInv, RegionsLag, Behind
    <2>8. \A c \in Placed(added) :
             PowerOfTwo(Size(c)) /\ Fits(c, bars[c]) /\ bars[c] + Size(c) <= Window(c).end
      BY <2>2, SMTT(40) DEF MoveInv, AllFit, Booted
    <2>9. /\ \A b \in Range(device) :
                PowerOfTwo(Size(b)) /\ Fits(b, at[b]) /\ at[b] + Size(b) <= Window(b).end
          /\ \A b \in Range(device), c \in DOMAIN regions :
                InWindow(Window(b), regions[c]) => regions[c] + Size(c) <= at[b]
          /\ \A b, c \in Range(device) : b # c /\ BarInfo[b].wide = BarInfo[c].wide =>
                at[b] + Size(b) <= at[c] \/ at[c] + Size(c) <= at[b]
      BY <2>3, Placing, Zenon
    <2>10. \A b \in Placed(added') : bars'[b] = IF b \in Range(device) THEN at[b] ELSE bars[b]
      <3>1. DOMAIN at = Range(device)
        BY Zenon DEF Placements
      <3>2. QED BY <2>1, <2>4, <2>5, <3>1, Zenon DEF Extend
    <2>11. AllFit'
      BY <2>4, <2>8, <2>9, <2>10, Zenon DEF AllFit
    <2>12. OnItsWay'
      BY <2>1, <2>6, Zenon DEF OnItsWay
    <2>13. \A b : Holders(b) = {} /\ Holders(b)' = {}
      BY <2>1, <2>6, Zenon DEF Holders
    <2>14. \A b : Claims(b) = (IF b \in astray THEN {} ELSE {bars[b]})
                  /\ Claims(b)' = (IF b \in astray THEN {} ELSE {bars'[b]})
      BY <2>1, <2>13, Zenon DEF Claims
    <2>15. ASSUME NEW b \in Range(device), NEW c \in Placed(added)
           PROVE  Clear(at[b], b, bars[c], c) /\ Clear(bars[c], c, at[b], b)
      <3>1. b \in Bars /\ c \in Bars /\ at[b] \in Nat /\ bars[c] \in Nat
        BY <2>4, <2>5, <2>8, <2>9, Zenon DEF Fits
      <3>2. CASE InWindow(Window(b), bars[c])
        <4>1. bars[c] + Size(c) <= at[b]
          BY <2>5, <2>7, <2>9, <3>2, Zenon
        <4>2. QED BY <3>1, <4>1, InOrder, Zenon
      <3>3. CASE ~InWindow(Window(b), bars[c])
        <4>1. BarInfo[b].wide # BarInfo[c].wide
          BY <2>8, <3>3, Zenon DEF Fits, Window
        <4>2. QED BY <2>8, <2>9, <3>1, <4>1, WindowsApart, ZenonT(40)
      <3>4. QED BY <3>2, <3>3, Zenon
    <2>16. ASSUME NEW b \in Range(device), NEW c \in Range(device), b # c
           PROVE  Clear(at[b], b, at[c], c)
      <3>1. b \in Bars /\ c \in Bars /\ at[b] \in Nat /\ at[c] \in Nat
        BY <2>4, <2>9, Zenon DEF Fits
      <3>2. CASE BarInfo[b].wide = BarInfo[c].wide
        <4>1. at[b] + Size(b) <= at[c] \/ at[c] + Size(c) <= at[b]
          BY <2>9, <2>16, <3>2, Zenon
        <4>2. QED BY <3>1, <4>1, InOrder, Zenon
      <3>3. CASE BarInfo[b].wide # BarInfo[c].wide
        BY <2>9, <3>1, <3>3, WindowsApart, Zenon
      <3>4. QED BY <3>2, <3>3, Zenon
    <2>17. Apart'
      <3> SUFFICES ASSUME NEW b \in Placed(added'), NEW c \in Placed(added'), b # c,
                          b \notin astray, c \notin astray
                   PROVE  Clear(bars'[b], b, bars'[c], c)
        BY <2>14, Zenon DEF Apart
      <3>1. CASE b \in Placed(added) /\ c \in Placed(added)
        BY <2>4, <2>10, <2>14, <3>1, Zenon DEF MoveInv, Apart
      <3>2. CASE b \in Range(device) /\ c \in Placed(added)
        BY <2>4, <2>10, <2>15, <3>2, Zenon
      <3>3. CASE b \in Placed(added) /\ c \in Range(device)
        BY <2>4, <2>10, <2>15, <3>3, Zenon
      <3>4. CASE b \in Range(device) /\ c \in Range(device)
        BY <2>10, <2>16, <3>4, Zenon
      <3>5. QED BY <2>4, <3>1, <3>2, <3>3, <3>4, Zenon
    <2>18. QED BY <1>1, <2>11, <2>12, <2>17, Zenon DEF MoveInv
  <1>4. QED BY <1>2, <1>3, Zenon

-----------------------------------------------------------------------------

\* Every step keeps the invariant.
LEMMA MoveInductive == MoveInv /\ [Next]_vars => MoveInv'
  <1> SUFFICES ASSUME MoveInv, [Next]_vars PROVE MoveInv' BY Zenon
  <1>1. CASE add_device
    BY <1>1, AddMoves, Zenon
  <1>2. ASSUME NEW v \in Vcpus, NEW b \in Bars,
               NEW a \in {0} \cup Window(b).start .. Window(b).end, Choose(v, b, a)
        PROVE  MoveInv'
    <2>1. a \in Nat
      BY <1>2, PciAssumption DEF Window
    <2>2. QED BY <1>2, <2>1, ChooseMoves, Zenon
  <1>3. ASSUME NEW b \in Bars, NEW half \in {"lo", "hi"}, Probe(b, half) \/ config_read(b, half)
        PROVE  MoveInv'
    BY <1>3, MoveStutter, Zenon DEF Probe, config_read
  <1>4. ASSUME NEW v \in Vcpus, config_write(v) \/ move_region(v) \/ move_doorbells_from(v)
        PROVE  MoveInv'
    BY <1>4, WriteMoves, RegionMoves, DoorbellsMove, Zenon
  <1>5. CASE UNCHANGED vars
    BY <1>5, MoveStutter, Zenon DEF vars
  <1>6. QED BY <1>1, <1>2, <1>3, <1>4, <1>5, Zenon DEF Next

\* A vCPU leaves a BAR after its last register write, and then the BAR is at the target.
LEMMA Lands == MoveInv /\ [Next]_vars => [LandsWhereAsked]_vars
  <1> SUFFICES ASSUME MoveInv, Next, NEW v \in Vcpus, vcpu[v] # Idle, vcpu'[v] = Idle,
                      InWindow(Window(vcpu[v].bar), vcpu[v].target)
               PROVE  bars'[vcpu[v].bar] = vcpu[v].target
    BY Zenon DEF LandsWhereAsked
  <1>1. vcpu \in [Vcpus -> {Idle} \cup Move] /\ vcpu[v] \in Move
    BY Zenon DEF MoveInv, BusInv, BusTypes
  <1>2. Stage(vcpu[v], bars[vcpu[v].bar])
    BY Zenon DEF MoveInv, OnItsWay
  <1>3. ~UNCHANGED vcpu
    BY Zenon
  <1>4. ASSUME NEW u \in Vcpus, NEW b \in Bars, NEW a, Choose(u, b, a) PROVE FALSE
    BY <1>1, <1>4, ZenonT(40) DEF Choose
  <1>5. ASSUME NEW u \in Vcpus, move_region(u) PROVE FALSE
    <2>1. vcpu' = [vcpu EXCEPT ![u].at = "doorbells"]
      BY <1>5, Zenon DEF move_region
    <2>2. [vcpu[v] EXCEPT !.at = "doorbells"] \in Move
      BY <1>1, Zenon DEF Move
    <2>3. vcpu'[v] # Idle
      BY <1>1, <2>1, <2>2, MoveIsBusy, Zenon
    <2>4. QED BY <2>3, Zenon
  <1>6. ASSUME NEW u \in Vcpus, config_write(u)
        PROVE  bars'[vcpu[v].bar] = vcpu[v].target
    <2>1. vcpu[u].at \in {"lo", "hi"} /\ vcpu[u] \in Move
      BY <1>6, BusyVcpu, Zenon DEF config_write, MoveInv
    <2> DEFINE a == Requested(vcpu[u].bar, vcpu[u].at, vcpu[u].target)
    <2>2. CASE Decodes(vcpu[u].bar, a) /\ a # bars[vcpu[u].bar]
      <3>1. vcpu' = [vcpu EXCEPT ![u] = [@ EXCEPT !.at = "regions", !.from = bars[vcpu[u].bar], !.to = a]]
        BY <1>6, <2>2, Zenon DEF config_write
      <3>2. vcpu'[v] # Idle
        <4>1. CASE u # v
          BY <1>1, <3>1, <4>1, Zenon
        <4>2. CASE u = v
          <5>1. vcpu'[v].at = "regions"
            BY <1>1, <3>1, <4>2, Zenon DEF Move
          <5>2. QED BY <5>1 DEF Idle
        <4>3. QED BY <4>1, <4>2, Zenon
      <3>3. QED BY <3>2, Zenon
    <2>3. CASE ~(Decodes(vcpu[u].bar, a) /\ a # bars[vcpu[u].bar])
      <3>1. UNCHANGED bars /\ Then(u)
        BY <1>6, <2>3, Zenon DEF config_write
      <3>2. u = v
        BY <1>1, <2>1, <3>1, ThenMoves, Zenon
      <3>3. vcpu[v].rest = "idle"
        BY <1>1, <3>1, <3>2, ThenTurns, Zenon
      <3>4. InWindow(Window(vcpu[v].bar), a) /\ a = vcpu[v].target
        BY <2>1, <3>2, <3>3, Written, Zenon
      <3>5. QED BY <2>3, <3>1, <3>2, <3>4, Zenon DEF Decodes
    <2>4. QED BY <2>2, <2>3, Zenon
  <1>7. ASSUME NEW u \in Vcpus, move_doorbells_from(u)
        PROVE  bars'[vcpu[v].bar] = vcpu[v].target
    <2>1. vcpu[u].at = "doorbells" /\ UNCHANGED bars /\ Then(u) /\ vcpu[u] \in Move
      BY <1>7, BusyVcpu, ZenonT(40) DEF move_doorbells_from, MoveInv
    <2>2. u = v
      BY <1>1, <2>1, ThenMoves, Zenon
    <2>3. vcpu[v].rest = "idle"
      BY <1>1, <2>1, <2>2, ThenTurns, Zenon
    <2>4. QED BY <1>2, <2>1, <2>2, <2>3, Zenon DEF Stage
  <1>8. QED BY <1>3, <1>4, <1>5, <1>6, <1>7, Zenon DEF Next, add_device, Probe, config_read

\* For any devices, windows, sizes and number of vCPUs: settled BARs never overlap
\* unless a guest asked for an address the bus does not decode, accesses are
\* dispatched where the registers say, and a vCPU that has written both registers
\* of a BAR finds it where it asked (add_device, config_write).
THEOREM BarsMoveSoundly == Spec => MovesSound
  <1>1. MoveInv => Disjoint
    <2> SUFFICES ASSUME MoveInv, NEW b \in DOMAIN bars \ astray, NEW c \in DOMAIN bars \ astray,
                        b # c, Settled(b), Settled(c)
                 PROVE  Clear(bars[b], b, bars[c], c)
      BY Zenon DEF Disjoint, Clear, Size
    <2>1. b \in Placed(added) /\ c \in Placed(added)
      BY Zenon DEF MoveInv, BusInv, BusTypes
    <2>2. Holders(b) = {} /\ Holders(c) = {}
      BY Zenon DEF Settled, Holders
    <2>3. bars[b] \in Claims(b) /\ bars[c] \in Claims(c)
      BY <2>2, Zenon DEF Claims
    <2>4. QED BY <2>1, <2>3, Zenon DEF MoveInv, Apart
  <1>2. Spec => []MoveInv
    BY InitMove, MoveInductive, PTL DEF Spec
  <1>3. QED BY <1>1, <1>2, Lands, DispatchCorrect, PTL DEF Spec, MovesSound

-----------------------------------------------------------------------------
(***************************************************************************)
(* Lifecycle: the end of a VM is orderly for any number of vCPU threads    *)
(* and shared directories.  The invariant follows main: nothing is joined  *)
(* before the watcher has gone; the joins take the threads in order, so    *)
(* the joined ones are the first k, all of them gone for good; having      *)
(* passed them all none of them panicked; and from the last request on a   *)
(* reason is on record, which is the first cause.                          *)
(***************************************************************************)

Places == {"check", "enter", "guest", "gone"}
Stages == {"watcher", "vcpus", "stopped", "daemons", "unwind", "exited"}

\* Types of what the argument below needs.
LifeTypes ==
    /\ vcpuAt \in [VcpuThreads -> Places]
    /\ main \in Stages
    /\ watcher \in {"watch", "wake", "nap", "gone"}
    /\ panicked \subseteq VcpuThreads

\* Who has been joined, and what that tells.
Joins ==
    /\ \E k \in 0 .. NumVcpus : joined = 1 .. k
    /\ \A v \in joined \cup panicked : vcpuAt[v] = "gone"
    /\ main = "watcher" => joined = {}
    /\ watcher # "gone" => main = "watcher"
    /\ main = "vcpus" => joined # VcpuThreads /\ joined \cap panicked = {}

\* What main knows by the stage it has reached.
Verdict ==
    /\ reason = causes
    /\ main \in {"stopped", "daemons"} => joined = VcpuThreads /\ panicked = {}
    /\ main = "daemons" => reason # NoReason
    /\ main = "unwind" => panicked # {}
    /\ FirstCauseReported

LifeInv == LifeTypes /\ Joins /\ Verdict

(***************************************************************************)
(* The next thread to join is the k + 1st, and joining it leaves the first *)
(* k + 1.                                                                  *)
(***************************************************************************)
LEMMA NextJoin ==
    ASSUME Joins, NEW v \in VcpuThreads \ joined, 1 .. (v - 1) \subseteq joined
    PROVE  joined \cup {v} = 1 .. v
  <1>1. PICK k \in 0 .. NumVcpus : joined = 1 .. k
    BY Zenon DEF Joins
  <1>2. v = k + 1
    <2>1. k \in Nat /\ v \in Nat \ {0} /\ v > k
      BY <1>1, LifecycleAssumption DEF VcpuThreads
    <2>2. v - 1 > 0 => v - 1 \in 1 .. k
      BY <1>1, <2>1
    <2>3. QED
      BY <2>1, <2>2
  <1>3. QED
    BY <1>1, <1>2, LifecycleAssumption DEF VcpuThreads

LEMMA LifeStart == LifeInit => LifeInv
  <1> SUFFICES ASSUME LifeInit PROVE LifeInv
    BY Zenon
  <1>1. LifeTypes
    BY Zenon DEF LifeInit, LifeTypes, Places, Stages
  <1>2. joined = 1 .. 0
    BY DEF LifeInit
  <1>3. Joins
    BY <1>2, LifecycleAssumption DEF LifeInit, Joins
  <1>4. Verdict
    BY Zenon DEF LifeInit, Verdict, FirstCauseReported
  <1>5. QED
    BY <1>1, <1>3, <1>4, Zenon DEF LifeInv

(***************************************************************************)
(* A step that moves vCPU threads that are still there, and may request a  *)
(* stop, leaves what main knows alone: the joined threads and those that   *)
(* panicked stay gone, and the first cause stays the first.                *)
(***************************************************************************)
LEMMA RequestKeeps ==
    ASSUME reason = causes, NEW r, r # NoReason, request(r)
    PROVE  reason' = causes' /\ reason' # NoReason /\ (causes # NoReason => causes' = causes)
  BY Zenon DEF request

LEMMA ThreadStep ==
    ASSUME LifeInv, vcpuAt' \in [VcpuThreads -> Places],
           \A v \in VcpuThreads : vcpuAt[v] = "gone" => vcpuAt'[v] = "gone",
           reason' = causes', causes # NoReason => causes' = causes,
           main # "exited" \/ UNCHANGED causes, UNCHANGED mainVars,
           watcher' \in {"watch", "wake", "nap", "gone"}, watcher = "gone" => watcher' = "gone"
    PROVE  LifeInv'
  <1>1. UNCHANGED <<main, panicked, joined, code>>
    BY Zenon DEF mainVars
  <1>2. joined \cup panicked \subseteq VcpuThreads
    BY LifecycleAssumption DEF LifeInv, Joins, LifeTypes, VcpuThreads
  <1>3. LifeTypes'
    BY <1>1, Zenon DEF LifeInv, LifeTypes
  <1>4. Joins'
    <2>1. \A v \in joined' \cup panicked' : vcpuAt'[v] = "gone"
      BY <1>1, <1>2, Zenon DEF LifeInv, Joins
    <2>2. watcher' # "gone" => main' = "watcher"
      BY <1>1, Zenon DEF LifeInv, Joins, LifeTypes
    <2>3. \E k \in 0 .. NumVcpus : joined' = 1 .. k
      BY <1>1, Zenon DEF LifeInv, Joins
    <2>4. QED
      BY <1>1, <2>1, <2>2, <2>3, Zenon DEF LifeInv, Joins, VcpuThreads
  <1>5. Verdict'
    <2>1. main' = "daemons" => reason' # NoReason
      BY <1>1, Zenon DEF LifeInv, Verdict
    <2>2. FirstCauseReported'
      BY <1>1, Zenon DEF LifeInv, Verdict, FirstCauseReported
    <2>3. QED
      BY <1>1, <2>1, <2>2, Zenon DEF LifeInv, Verdict, VcpuThreads
  <1>6. QED
    BY <1>3, <1>4, <1>5, Zenon DEF LifeInv

(***************************************************************************)
(* Every step of every thread preserves the invariant.                     *)
(***************************************************************************)
LEMMA LifeStep == LifeInv /\ [LifeNext]_lifeVars => LifeInv'
  <1> SUFFICES ASSUME LifeInv, [LifeNext]_lifeVars PROVE LifeInv'
    BY Zenon
  <1>t. /\ vcpuAt \in [VcpuThreads -> Places] /\ reason = causes
        /\ watcher \in {"watch", "wake", "nap", "gone"}
    BY Zenon DEF LifeInv, LifeTypes, Verdict
  <1>1. ASSUME NEW v \in VcpuThreads, VcpuStep(v) PROVE LifeInv'
    <2>1. /\ vcpuAt[v] # "gone" /\ UNCHANGED <<reason, causes, watcher, mainVars>>
          /\ \E at \in Places : vcpuAt' = [vcpuAt EXCEPT ![v] = at]
      BY <1>1, Zenon DEF VcpuStep, LoopHead, EnterGuest, Leave, Loop, Places, shutdown
    <2>2. QED
      BY <1>t, <2>1, ThreadStep, Zenon
  <1>2. ASSUME NEW v \in VcpuThreads, main # "exited",
               HandledExit(v) \/ PowerWrite(v) \/ FatalExit(v)
        PROVE  LifeInv'
    <2>1. /\ vcpuAt[v] # "gone" /\ UNCHANGED <<watcher, mainVars>>
          /\ \E at \in Places : vcpuAt' = [vcpuAt EXCEPT ![v] = at]
      BY <1>2, Zenon DEF HandledExit, PowerWrite, FatalExit, Leave, Loop, Places
    <2>2. UNCHANGED shutdown \/ \E r : r # NoReason /\ request(r)
      BY <1>2, Zenon DEF HandledExit, PowerWrite, FatalExit, NoReason
    <2>3. reason' = causes' /\ (causes # NoReason => causes' = causes)
      BY <1>t, <2>2, RequestKeeps, Zenon DEF shutdown
    <2>4. QED
      BY <1>2, <1>t, <2>1, <2>3, ThreadStep, Zenon
  <1>3. ASSUME NEW v \in VcpuThreads, main # "exited", Panic(v) PROVE LifeInv'
    <2>1. /\ vcpuAt[v] # "gone" /\ vcpuAt' = [vcpuAt EXCEPT ![v] = "gone"]
          /\ panicked' = panicked \cup {v}
          /\ UNCHANGED <<reason, causes, watcher, main, joined, code>>
      BY <1>3, Zenon DEF Panic, Leave, shutdown
    <2>2. v \notin joined /\ joined # VcpuThreads
      BY <2>1, Zenon DEF LifeInv, Joins
    <2>3. LifeTypes'
      BY <1>t, <2>1, Zenon DEF LifeInv, LifeTypes, Places
    <2>4. joined \cup panicked \subseteq VcpuThreads
      BY LifecycleAssumption DEF LifeInv, Joins, LifeTypes, VcpuThreads
    <2>5. \A w \in joined' \cup panicked' : vcpuAt'[w] = "gone"
      BY <1>t, <2>1, <2>4, Zenon DEF LifeInv, Joins
    <2>6. Joins'
      BY <2>1, <2>2, <2>5, Zenon DEF LifeInv, Joins, VcpuThreads
    <2>7. Verdict'
      BY <1>3, <2>1, <2>2, Zenon DEF LifeInv, Verdict, FirstCauseReported, VcpuThreads
    <2>8. QED
      BY <2>3, <2>6, <2>7, Zenon DEF LifeInv
  <1>4. CASE StopSignal
    <2>1. /\ UNCHANGED <<reason, causes, watcher, mainVars>>
          /\ \/ UNCHANGED vcpuAt
             \/ \E v \in VcpuThreads : vcpuAt[v] = "guest" /\ vcpuAt' = [vcpuAt EXCEPT ![v] = "check"]
      BY <1>4, Zenon DEF StopSignal, shutdown
    <2>2. /\ vcpuAt' \in [VcpuThreads -> Places]
          /\ \A v \in VcpuThreads : vcpuAt[v] = "gone" => vcpuAt'[v] = "gone"
      BY <1>t, <2>1, Zenon DEF Places
    <2>3. QED
      BY <1>t, <2>1, <2>2, ThreadStep, Zenon
  <1>5. CASE Watch
    <2>1. /\ watcher = "watch" /\ watcher' \in {"wake", "gone"} /\ UNCHANGED <<vcpuAt, mainVars>>
          /\ UNCHANGED shutdown \/ request("HostSignal")
      BY <1>5, Zenon DEF Watch
    <2>2. reason' = causes' /\ (causes # NoReason => causes' = causes)
      BY <1>t, <2>1, RequestKeeps, Zenon DEF shutdown, NoReason
    <2>3. main # "exited"
      BY <2>1, Zenon DEF LifeInv, Joins
    <2>4. QED
      BY <1>t, <2>1, <2>2, <2>3, ThreadStep, Zenon
  <1>6. CASE Wake \/ Nap
    <2>1. /\ watcher # "gone" /\ watcher' \in {"wake", "nap", "gone"}
          /\ UNCHANGED <<reason, causes, mainVars>>
      BY <1>6, Zenon DEF Wake, Nap, shutdown
    <2>2. \/ UNCHANGED vcpuAt
          \/ vcpuAt' = [v \in VcpuThreads |-> IF vcpuAt[v] = "guest" THEN "check" ELSE vcpuAt[v]]
      BY <1>6, Zenon DEF Wake, Nap
    <2>3. /\ vcpuAt' \in [VcpuThreads -> Places]
          /\ \A v \in VcpuThreads : vcpuAt[v] = "gone" => vcpuAt'[v] = "gone"
      BY <1>t, <2>2, Zenon DEF Places
    <2>4. QED
      BY <1>t, <2>1, <2>3, ThreadStep, Zenon
  <1>7. CASE JoinWatcher
    <2>1. joined = {} /\ joined # VcpuThreads
      BY <1>7, LifecycleAssumption DEF JoinWatcher, LifeInv, Joins, VcpuThreads
    <2>2. LifeTypes'
      BY <1>7, Zenon DEF JoinWatcher, LifeInv, LifeTypes, Stages, VcpuThreads
    <2>3. Joins'
      BY <1>7, <2>1, Zenon DEF JoinWatcher, LifeInv, Joins, VcpuThreads
    <2>4. Verdict'
      BY <1>7, Zenon DEF JoinWatcher, LifeInv, Verdict, FirstCauseReported, shutdown
    <2>5. QED
      BY <2>2, <2>3, <2>4, Zenon DEF LifeInv
  <1>8. CASE JoinVcpu
    <2>2. PICK v \in VcpuThreads \ joined :
          /\ 1 .. (v - 1) \subseteq joined
          /\ main = "vcpus" /\ vcpuAt[v] = "gone" /\ joined' = joined \cup {v}
          /\ main' = CASE v \in panicked -> "unwind"
                       [] v \notin panicked /\ v = NumVcpus -> "stopped"
                       [] OTHER -> "vcpus"
          /\ UNCHANGED <<reason, causes, vcpuAt, watcher, panicked, code>>
      BY <1>8, Zenon DEF JoinVcpu, shutdown
    <2>1. /\ v \in VcpuThreads /\ v \notin joined /\ joined \cup {v} = 1 .. v
          /\ joined \cap panicked = {}
      BY <2>2, NextJoin, Zenon DEF LifeInv, Joins
    <2>3. \/ main' = "unwind" /\ v \in panicked
          \/ main' = "stopped" /\ v \notin panicked /\ v = NumVcpus
          \/ main' = "vcpus" /\ v \notin panicked /\ v # NumVcpus
      BY <2>2, Zenon
    <2>4. LifeTypes'
      BY <2>2, <2>3, Zenon DEF LifeInv, LifeTypes, Stages, VcpuThreads
    <2>5. Joins'
      <3>1. joined' = 1 .. v /\ v \in 0 .. NumVcpus
        BY <2>1, <2>2, LifecycleAssumption DEF VcpuThreads
      <3>2. v # NumVcpus => joined' # VcpuThreads
        BY <2>1, <3>1, LifecycleAssumption DEF VcpuThreads
      <3>3. QED
        BY <2>1, <2>2, <2>3, <3>1, <3>2, Zenon DEF LifeInv, Joins, VcpuThreads
    <2>6. Verdict'
      <3>1. v = NumVcpus => joined' = VcpuThreads
        BY <2>1, <2>2, Zenon DEF VcpuThreads
      <3>2. v = NumVcpus /\ v \notin panicked => panicked = {}
        BY <2>1, <2>2, <3>1, Zenon DEF LifeInv, LifeTypes
      <3>3. QED
        BY <2>2, <2>3, <3>1, <3>2, Zenon DEF LifeInv, Verdict, FirstCauseReported, VcpuThreads
    <2>7. QED
      BY <2>4, <2>5, <2>6, Zenon DEF LifeInv
  <1>9. CASE AllStopped
    <2>1. reason' = causes' /\ reason' # NoReason
      BY <1>9, <1>t, RequestKeeps, Zenon DEF AllStopped, NoReason
    <2>2. LifeTypes'
      BY <1>9, Zenon DEF AllStopped, LifeInv, LifeTypes, Stages, VcpuThreads
    <2>3. Joins'
      BY <1>9, Zenon DEF AllStopped, LifeInv, Joins, VcpuThreads
    <2>4. Verdict'
      BY <1>9, <2>1, Zenon DEF AllStopped, LifeInv, Verdict, FirstCauseReported, VcpuThreads
    <2>5. QED
      BY <2>2, <2>3, <2>4, Zenon DEF LifeInv
  <1>10. CASE DropDaemon \/ DaemonDies \/ UNCHANGED lifeVars
    <2>1. UNCHANGED <<reason, causes, vcpuAt, watcher, main, panicked, joined, code>>
      BY <1>10, Zenon DEF DropDaemon, DaemonDies, lifeVars, shutdown
    <2>2. QED
      BY <2>1, Zenon DEF LifeInv, LifeTypes, Joins, Verdict, FirstCauseReported, VcpuThreads
  <1>11. CASE ExitProcess
    <2>1. LifeTypes'
      BY <1>11, Zenon DEF ExitProcess, LifeInv, LifeTypes, Stages, VcpuThreads
    <2>2. Joins'
      BY <1>11, Zenon DEF ExitProcess, LifeInv, Joins, VcpuThreads
    <2>3. Verdict'
      BY <1>11, Zenon DEF ExitProcess, LifeInv, Verdict, FirstCauseReported, shutdown
    <2>4. QED
      BY <2>1, <2>2, <2>3, Zenon DEF LifeInv
  <1>12. QED
    BY <1>1, <1>2, <1>3, <1>4, <1>5, <1>6, <1>7, <1>8, <1>9, <1>10, <1>11, Zenon
    DEF LifeNext, GuestExit, WatcherStep, MainStep

(***************************************************************************)
(* For any number of vCPUs and shares: only threads that are there are     *)
(* signalled, and the exit code tells the first cause, whatever the        *)
(* interleaving of faults, signals, panics and joins (main's watcher and   *)
(* joins, Shutdown::request, ExitReason::exit_code).                       *)
(***************************************************************************)
THEOREM StopIsOrderly == LifeSpec => []OrderlyStop
  <1>1. LifeInv => OrderlyStop
    BY Zenon DEF LifeInv, Joins, Verdict, OrderlyStop, SignalsLiveThreads
  <1>2. QED
    BY <1>1, LifeStart, LifeStep, PTL DEF LifeSpec

-----------------------------------------------------------------------------
(***************************************************************************)
(* A backend that serves a ring was told all of them by this driver, the   *)
(* two sides agree on what was negotiated, and no call is one the backend  *)
(* must refuse: for any number of drivers, activations and resets, and     *)
(* whichever calls fail.                                                   *)
(***************************************************************************)

Kinds == {"net", "vsock", "fs", "nvgpu"}
Bits == {"V1", "MRG_RXBUF", "GUEST_CSUM", "GUEST_TSO", "EVENT_IDX", "PROTOCOL"}

BackendType == [owner : BOOLEAN, told : SUBSET Bits, mem : BOOLEAN,
                rings : [Backed -> [ring : Nat, call : Nat]],
                attached : SUBSET Backed, hdr : Nat, offloads : SUBSET {"CSUM", "TSO"}]

VhostTypes ==
    /\ kind \in Kinds /\ status \in {"reset", "driver", "driver_ok"}
    /\ word \in 0 .. 3 /\ lives \in Nat /\ failures \in Nat
    /\ msixOn \in BOOLEAN /\ running \in BOOLEAN /\ owned \in BOOLEAN
    /\ torn \in BOOLEAN /\ misuse \in BOOLEAN
    /\ queues \in [Queues -> [ring : Nat, vec : Nat]]
    /\ backend \in BackendType
    /\ step \in 0 .. Len(Plan)

\* What the driver has written of the features so far is what it accepted.
WordsWritten ==
    /\ AlwaysAble(kind) \subseteq able /\ accepted \subseteq features
    /\ word >= 1 => df \ HighWord = accepted \ HighWord
    /\ word >= 2 => df \cap HighWord = accepted \cap HighWord

\* A ring's address is this driver's, or there is none.
RingsOfThisLife ==
    /\ \A q \in Queues : queues[q].ring \in {0, lives}
    /\ status = "reset" => \A q \in Queues : queues[q].ring = 0
    /\ status = "reset" \/ lives > 0

\* The backend has what a call of `activate` tells it.
Has(call) ==
    /\ call.do = "hdr"      => backend.hdr = HdrSize
    /\ call.do = "offload"  => backend.offloads = tap_offload_flags
    /\ call.do = "owner"    => backend.owner
    /\ call.do = "features" => backend.told = ToldFeatures
    /\ call.do = "mem"      => backend.mem
    /\ call.do = "ring"     => /\ queues[call.q].ring # 0
                               /\ backend.rings[call.q] = [ring |-> queues[call.q].ring,
                                                           call |-> call_fd(queues[call.q].vec)]
    /\ call.do = "attach"   => call.qs \subseteq backend.attached

\* An activation has made the calls before the next; one that ended well, all.
CallsMade ==
    /\ Locked \/ running => status = "driver_ok" /\ word = 3
    /\ Locked => ~running /\ \A j \in 1 .. step - 1 : Has(Plan[j])
    /\ running => \A j \in 1 .. Len(Plan) : Has(Plan[j])

\* Only calls to attach attach, unless something failed half way.
AttachedByCalls ==
    ~torn => /\ ~Locked => backend.attached = IF running THEN Backed ELSE {}
             /\ Locked => \A q \in backend.attached : \E j \in 1 .. step - 1 :
                            Plan[j].do = "attach" /\ q \in Plan[j].qs

Owners == /\ backend.owner = (owned \/ kind = "nvgpu")
          /\ kind = "nvgpu" => ~owned

VhostInv ==
    /\ VhostTypes /\ WordsWritten /\ RingsOfThisLife /\ CallsMade /\ AttachedByCalls /\ Owners
    /\ misuse => torn

-----------------------------------------------------------------------------
(* What `activate` of each kind calls *)

\* Every plan tells the backend features, memory and both rings, and attaches
\* each ring after all that; a net device also sizes its header and its offloads.
PlanComplete(p, k) ==
    /\ Len(p) \in 7 .. 9
    /\ \A i \in 1 .. Len(p) : p[i].do = "ring" => p[i].q \in Backed
    /\ \A i \in 1 .. Len(p) : p[i].do = "attach" => p[i].qs \subseteq Backed
    /\ \A i, j \in 1 .. Len(p) : p[i].do # "attach" /\ p[j].do = "attach" => i < j
    /\ \A q \in Backed : \E i \in 1 .. Len(p) : p[i].do = "ring" /\ p[i].q = q
    /\ \A q \in Backed : \E i \in 1 .. Len(p) : p[i].do = "attach" /\ q \in p[i].qs
    /\ \E i \in 1 .. Len(p) : p[i].do = "features"
    /\ \E i \in 1 .. Len(p) : p[i].do = "mem"
    /\ k = "net" => \E i \in 1 .. Len(p) : p[i].do = "hdr"
    /\ k = "net" => \E i \in 1 .. Len(p) : p[i].do = "offload"
    /\ k = "nvgpu" <=> \A i \in 1 .. Len(p) : p[i].do # "owner"

LEMMA Complete == ASSUME kind \in Kinds PROVE PlanComplete(Plan, kind)
  <1>1. CASE kind = "net"
    <2>1. Plan = NetActivate
      BY <1>1, Zenon DEF Plan
    <2>2. PlanComplete(NetActivate, "net")
      BY DEF NetActivate, PlanComplete, Call, Ring, Attach, Backed
    <2>3. QED BY <1>1, <2>1, <2>2, Zenon
  <1>2. CASE kind = "vsock"
    <2>1. Plan = VsockActivate
      BY <1>2, Zenon DEF Plan
    <2>2. PlanComplete(VsockActivate, "vsock")
      BY DEF VsockActivate, PlanComplete, Call, Ring, Attach, Backed
    <2>3. QED BY <1>2, <2>1, <2>2, Zenon
  <1>3. CASE kind = "fs"
    <2>1. Plan = FsActivate
      BY <1>3, Zenon DEF Plan
    <2>2. PlanComplete(FsActivate, "fs")
      BY DEF FsActivate, PlanComplete, Call, Ring, Attach, Backed
    <2>3. QED BY <1>3, <2>1, <2>2, Zenon
  <1>4. CASE kind = "nvgpu"
    <2>1. Plan = NvActivate
      BY <1>4, Zenon DEF Plan
    <2>2. PlanComplete(NvActivate, "nvgpu")
      BY DEF NvActivate, PlanComplete, Call, Ring, Attach, Backed
    <2>3. QED BY <1>4, <2>1, <2>2, Zenon
  <1>5. QED BY <1>1, <1>2, <1>3, <1>4, Zenon DEF Kinds

-----------------------------------------------------------------------------
(* The invariant *)

LEMMA InitVhost == VhostInit => VhostInv
  <1> SUFFICES ASSUME VhostInit PROVE VhostInv
    BY Zenon
  <1>1. kind \in Kinds /\ Len(Plan) \in Nat
    BY VhostAssumption, Complete DEF VhostInit, Kinds, PlanComplete
  <1>2. VhostTypes
    <2>1. queues \in [Queues -> [ring : Nat, vec : Nat]]
      BY <1>1 DEF VhostInit, new_queues, Queues, NumQueues, Kinds
    <2>2. backend \in BackendType
      BY DEF VhostInit, NewBackend, NoRing, NoCall, BackendType
    <2>3. /\ status = "reset" /\ word = 3 /\ lives = 0 /\ failures = 0 /\ step = 0
          /\ msixOn = FALSE /\ running = FALSE /\ owned = FALSE /\ torn = FALSE /\ misuse = FALSE
      BY Zenon DEF VhostInit
    <2>4. /\ status \in {"reset", "driver", "driver_ok"} /\ word \in 0 .. 3 /\ lives \in Nat
          /\ failures \in Nat /\ step \in 0 .. Len(Plan)
      BY <1>1, <2>3
    <2>5. QED BY <1>1, <2>1, <2>2, <2>3, <2>4, Zenon DEF VhostTypes
  <1>3. WordsWritten /\ Owners
    BY <1>1, Zenon DEF VhostInit, WordsWritten, Owners, AlwaysAble, NewBackend
  <1>4. RingsOfThisLife
    BY Zenon DEF VhostInit, RingsOfThisLife, new_queues, Queues
  <1>5. CallsMade /\ AttachedByCalls
    BY Zenon DEF VhostInit, CallsMade, AttachedByCalls, Locked, NewBackend
  <1>6. QED BY <1>2, <1>3, <1>4, <1>5, Zenon DEF VhostInit, VhostInv

\* A step that leaves kind, able and the backend alone.
LEMMA SameDevice ==
    ASSUME VhostTypes, UNCHANGED <<kind, able>>
    PROVE  /\ Plan' = Plan /\ features' = features /\ Queues' = Queues
           /\ AlwaysAble(kind)' = AlwaysAble(kind)
  BY Zenon DEF Plan, features, NetFeatures, VsockFeatures, Queues

LEMMA RegisterStep ==
    ASSUME VhostInv, TakeOver \/ WriteFeatures \/ ProgramQueue \/ write_msix_enable
    PROVE  VhostInv'
  <1>0. /\ VhostTypes /\ WordsWritten /\ RingsOfThisLife /\ CallsMade /\ AttachedByCalls /\ Owners
        /\ misuse => torn
    BY Zenon DEF VhostInv
  <1>1. /\ UNCHANGED <<kind, able, step, running, owned, backend, failures, torn, misuse>>
        /\ ~Locked /\ ~running
    BY <1>0, Zenon DEF TakeOver, WriteFeatures, ProgramQueue, write_msix_enable, SettingUp, devices, CallsMade
  <1>2. /\ Plan' = Plan /\ features' = features /\ Queues' = Queues
        /\ AlwaysAble(kind)' = AlwaysAble(kind)
    BY <1>0, <1>1, SameDevice, Zenon
  <1>3. VhostTypes' /\ RingsOfThisLife' /\ WordsWritten'
    <2>1. CASE TakeOver
      <3>1. PICK wish \in Wishes : accepted' = wish \cap features
        BY <2>1, Zenon DEF TakeOver
      <3>2. /\ status = "reset" /\ status' = "driver" /\ lives' = lives + 1 /\ word' = 0
            /\ UNCHANGED <<df, queueSel, queues, msixOn>>
        BY <2>1, Zenon DEF TakeOver
      <3>3. VhostTypes'
        BY <1>0, <1>1, <1>2, <3>2 DEF VhostTypes
      <3>4. RingsOfThisLife'
        BY <1>0, <1>2, <3>2 DEF RingsOfThisLife, VhostTypes
      <3>5. WordsWritten'
        BY <1>0, <1>1, <1>2, <3>1, <3>2 DEF WordsWritten
      <3>6. QED BY <3>3, <3>4, <3>5, Zenon
    <2>2. CASE WriteFeatures
      <3>1. /\ df' = write_driver_feature(accepted) /\ word' = word + 1 /\ word < 3
            /\ UNCHANGED <<status, accepted, queues, msixOn, lives>>
        BY <2>2, Zenon DEF WriteFeatures
      <3>2. VhostTypes' /\ RingsOfThisLife'
        BY <1>0, <1>1, <1>2, <3>1 DEF VhostTypes, RingsOfThisLife
      <3>3. word \in {0, 1, 2}
        BY <1>0, <3>1 DEF VhostTypes
      <3>4. WordsWritten'
        BY <1>0, <1>1, <1>2, <3>1, <3>3 DEF WordsWritten, write_driver_feature
      <3>5. QED BY <3>2, <3>4, Zenon
    <2>3. CASE ProgramQueue
      <3>1. PICK q \in Queues : \E vec \in IF q \in Backed THEN VecChoices ELSE {q} :
                queues' = [queues EXCEPT ![sq(q)] = [ring |-> lives, vec |-> vec]]
        BY <2>3, Zenon DEF ProgramQueue
      <3>2. PICK vec \in IF q \in Backed THEN VecChoices ELSE {q} :
                queues' = [queues EXCEPT ![sq(q)] = [ring |-> lives, vec |-> vec]]
        BY <3>1, Zenon
      <3>3. /\ status = "driver"
            /\ UNCHANGED <<status, word, accepted, df, msixOn, lives>>
        BY <2>3, Zenon DEF ProgramQueue, SettingUp
      <3>4. vec \in Nat
        BY <1>0, <3>2 DEF VecChoices, NoVec, Queues, NumQueues
      <3>5. queues' \in [Queues -> [ring : Nat, vec : Nat]]
        BY <1>0, <3>2, <3>4, Zenon DEF VhostTypes
      <3>6. VhostTypes'
        BY <1>0, <1>1, <1>2, <3>3, <3>5, Zenon DEF VhostTypes
      <3>7. \A r \in Queues : queues'[r].ring \in {0, lives}
        BY <1>0, <3>2, Zenon DEF VhostTypes, RingsOfThisLife
      <3>8. RingsOfThisLife'
        BY <1>0, <1>2, <3>3, <3>7, Zenon DEF RingsOfThisLife
      <3>9. WordsWritten'
        BY <1>0, <1>1, <1>2, <3>3, Zenon DEF WordsWritten
      <3>10. QED BY <3>6, <3>8, <3>9, Zenon
    <2>4. CASE write_msix_enable
      <3>1. /\ msixOn' \in BOOLEAN
            /\ UNCHANGED <<status, word, accepted, df, queues, lives>>
        BY <1>0, <2>4, Zenon DEF write_msix_enable, VhostTypes
      <3>2. QED
        BY <1>0, <1>1, <1>2, <3>1, Zenon DEF VhostTypes, RingsOfThisLife, WordsWritten
    <2>5. QED BY <2>1, <2>2, <2>3, <2>4, Zenon
  <1>4. CallsMade' /\ AttachedByCalls'
    BY <1>0, <1>1, Zenon DEF CallsMade, AttachedByCalls, Locked
  <1>5. Owners'
    BY <1>0, <1>1, Zenon DEF Owners
  <1>6. QED BY <1>0, <1>1, <1>3, <1>4, <1>5, Zenon DEF VhostInv

\* What was told stays told while the registers and the backend do.
LEMMA StillHas ==
    ASSUME VhostTypes, NEW call,
           UNCHANGED <<kind, able, df, queues, msixOn, backend>>, Has(call)
    PROVE  Has(call)'
  BY Zenon DEF Has, HdrSize, acked, features, NetFeatures, VsockFeatures, tap_offload_flags,
         ToldFeatures, call_fd

LEMMA DriverOkStep == ASSUME VhostInv, WriteDriverOk PROVE VhostInv'
  <1>0. /\ VhostTypes /\ WordsWritten /\ RingsOfThisLife /\ CallsMade /\ AttachedByCalls /\ Owners
        /\ misuse => torn
    BY Zenon DEF VhostInv
  <1>1. /\ UNCHANGED <<kind, able, word, accepted, df, queues, msixOn, lives, running, owned,
                       backend, failures, torn, misuse>>
        /\ ~Locked /\ status # "reset" /\ status' = "driver_ok" /\ word = 3
        /\ step' = IF running THEN 0 ELSE 1
    BY Zenon DEF WriteDriverOk, devices
  <1>2. /\ Plan' = Plan /\ features' = features /\ Queues' = Queues
        /\ AlwaysAble(kind)' = AlwaysAble(kind)
    BY <1>0, <1>1, SameDevice, ZenonT(40)
  <1>3. Len(Plan) \in Nat /\ Len(Plan) >= 1
    BY <1>0, Complete DEF VhostTypes, PlanComplete
  <1>4. VhostTypes'
    BY <1>0, <1>1, <1>2, <1>3 DEF VhostTypes
  <1>5. WordsWritten' /\ RingsOfThisLife' /\ Owners'
    BY <1>0, <1>1, <1>2, Zenon DEF WordsWritten, RingsOfThisLife, Owners
  <1>6. \A call : Has(call) => Has(call)'
    BY <1>0, <1>1, StillHas, Zenon
  <1>7. running => \A j \in 1 .. Len(Plan) : Has(Plan[j])'
    <2>1. PICK p : p = Plan
      BY Zenon
    <2>2. running => \A j \in 1 .. Len(p) : Has(p[j])
      BY <1>0, <2>1, Zenon DEF CallsMade
    <2>3. running => \A j \in 1 .. Len(p) : Has(p[j])'
      BY <1>6, <2>2, Zenon
    <2>4. p = Plan'
      BY <1>2, <2>1, Zenon
    <2>5. QED BY <2>1, <2>3, <2>4, Zenon
  <1>8. CallsMade'
    BY <1>0, <1>1, <1>2, <1>7 DEF CallsMade, Locked, VhostTypes
  <1>9. AttachedByCalls'
    BY <1>0, <1>1, Zenon DEF AttachedByCalls, Locked
  <1>10. QED BY <1>0, <1>1, <1>4, <1>5, <1>8, <1>9, Zenon DEF VhostInv

\* A backend without an owner is offered one, and only features it has; a ring is
\* described before it is attached.
LEMMA NotRefused ==
    ASSUME VhostInv, Locked, ~torn
    PROVE  ~Refuses(Plan[step])
  <1>0. /\ VhostTypes /\ WordsWritten /\ AttachedByCalls /\ Owners /\ CallsMade
    BY Zenon DEF VhostInv
  <1>1. PlanComplete(Plan, kind) /\ step \in 1 .. Len(Plan)
    BY <1>0, Complete DEF VhostTypes, Locked
  <1>2. ~(Plan[step].do = "owner" /\ backend.owner /\ ~owned)
    BY <1>0, <1>1, Zenon DEF Owners, PlanComplete
  <1>3. ToldFeatures \subseteq able
    BY <1>0, Zenon DEF VhostTypes, Kinds, WordsWritten, AlwaysAble, ToldFeatures, acked, features,
                NetFeatures, VsockFeatures, UserFeatures
  <1>4. ASSUME Plan[step].do = "ring", Plan[step].q \in backend.attached PROVE FALSE
    <2>1. PICK j \in 1 .. step - 1 : Plan[j].do = "attach"
      BY <1>0, <1>4, Zenon DEF AttachedByCalls
    <2>2. QED BY <1>1, <1>4, <2>1, SMTT(40) DEF PlanComplete
  <1>5. QED BY <1>2, <1>3, <1>4, Zenon DEF Refuses

\* A call changes what it is about and nothing else.
LEMMA Tells ==
    ASSUME VhostTypes, NEW call, backend' = Told(call),
           call.do = "ring" => call.q \in Backed, call.do = "attach" => call.qs \subseteq Backed
    PROVE  /\ backend' \in BackendType
           /\ backend'.owner = (backend.owner \/ call.do = "owner")
           /\ backend'.hdr = IF call.do = "hdr" THEN HdrSize ELSE backend.hdr
           /\ backend'.offloads = IF call.do = "offload" THEN tap_offload_flags ELSE backend.offloads
           /\ backend'.told = IF call.do = "features" THEN ToldFeatures ELSE backend.told
           /\ backend'.mem = (backend.mem \/ call.do = "mem")
           /\ backend'.attached = IF call.do = "attach" THEN backend.attached \cup call.qs
                                  ELSE backend.attached
           /\ \A q \in Backed : backend'.rings[q] =
                 IF call.do = "ring" /\ call.q = q
                 THEN [ring |-> queues[q].ring, call |-> call_fd(queues[q].vec)]
                 ELSE backend.rings[q]
  <1>0. backend \in BackendType
    BY Zenon DEF VhostTypes
  <1>1. CASE call.do = "hdr"
    <2>1. HdrSize \in Nat
      BY Zenon DEF HdrSize
    <2>2. backend' = [backend EXCEPT !.hdr = HdrSize]
      BY <1>1, Zenon DEF Told
    <2>3. QED BY <1>0, <1>1, <2>1, <2>2, Zenon DEF BackendType
  <1>2. CASE call.do = "offload"
    <2>1. tap_offload_flags \in SUBSET {"CSUM", "TSO"}
      BY Zenon DEF tap_offload_flags
    <2>2. backend' = [backend EXCEPT !.offloads = tap_offload_flags]
      BY <1>2, Zenon DEF Told
    <2>3. QED BY <1>0, <1>2, <2>1, <2>2, Zenon DEF BackendType
  <1>3. CASE call.do = "owner"
    <2>2. backend' = [backend EXCEPT !.owner = TRUE]
      BY <1>3, Zenon DEF Told
    <2>3. QED BY <1>0, <1>3, <2>2, Zenon DEF BackendType
  <1>4. CASE call.do = "features"
    <2>1. ToldFeatures \in SUBSET Bits
      BY Zenon DEF ToldFeatures, acked, features, NetFeatures, VsockFeatures, UserFeatures, VhostTypes, Kinds, RingBits, Bits
    <2>2. backend' = [backend EXCEPT !.told = ToldFeatures]
      BY <1>4, Zenon DEF Told
    <2>3. QED BY <1>0, <1>4, <2>1, <2>2, Zenon DEF BackendType
  <1>5. CASE call.do = "mem"
    <2>2. backend' = [backend EXCEPT !.mem = TRUE]
      BY <1>5, Zenon DEF Told
    <2>3. QED BY <1>0, <1>5, <2>2, Zenon DEF BackendType
  <1>6. CASE call.do = "ring"
    <2>0. call.q \in Queues
      BY <1>6 DEF Backed, Queues, NumQueues
    <2>1. queues[call.q].ring \in Nat /\ call_fd(queues[call.q].vec) \in Nat
      BY <2>0 DEF VhostTypes, call_fd, Intx, NoCall, BoundVectors
    <2>2. backend' = [backend EXCEPT !.rings[call.q] =
                                     [ring |-> queues[call.q].ring,
                                      call |-> call_fd(queues[call.q].vec)]]
      BY <1>6, Zenon DEF Told
    <2>3. backend.rings \in [Backed -> [ring : Nat, call : Nat]]
      BY <1>0, Zenon DEF BackendType
    <2>4. PICK R : R = [backend.rings EXCEPT ![call.q] =
                           [ring |-> queues[call.q].ring, call |-> call_fd(queues[call.q].vec)]]
      BY Zenon
    <2>5. R \in [Backed -> [ring : Nat, call : Nat]]
      BY <1>6, <2>1, <2>3, <2>4, Zenon
    <2>6. \A q \in Backed : R[q] = IF call.q = q
                 THEN [ring |-> queues[q].ring, call |-> call_fd(queues[q].vec)]
                 ELSE backend.rings[q]
      BY <1>6, <2>3, <2>4, Zenon
    <2>7. backend' = [backend EXCEPT !.rings = R]
      BY <1>0, <2>2, <2>4, Zenon DEF BackendType
    <2>8. QED BY <1>0, <1>6, <2>5, <2>6, <2>7, Zenon DEF BackendType
  <1>7. CASE call.do = "attach"
    <2>2. backend' = [backend EXCEPT !.attached = @ \cup call.qs]
      BY <1>7, Zenon DEF Told
    <2>3. QED BY <1>0, <1>7, <2>2, Zenon DEF BackendType
  <1>8. CASE call.do \notin {"hdr", "offload", "owner", "features", "mem", "ring", "attach"}
    <2>2. backend' = backend
      BY <1>8, Zenon DEF Told
    <2>3. QED BY <1>0, <1>8, <2>2, Zenon DEF BackendType
  <1>9. QED BY <1>1, <1>2, <1>3, <1>4, <1>5, <1>6, <1>7, <1>8, Zenon

\* What earlier calls told, a later one leaves, and it tells its own.
LEMMA TellsMore ==
    ASSUME VhostTypes, NEW call, backend' = Told(call), UNCHANGED <<kind, able, df, queues, msixOn>>,
           call.do = "ring" => call.q \in Backed, call.do = "attach" => call.qs \subseteq Backed,
           NEW other, other.do = "ring" => other.q \in Backed,
           Has(other) \/ (other = call /\ ~GivesUp(call))
    PROVE  Has(other)'
  <1>1. /\ backend'.hdr = IF call.do = "hdr" THEN HdrSize ELSE backend.hdr
        /\ backend'.offloads = IF call.do = "offload" THEN tap_offload_flags ELSE backend.offloads
        /\ backend'.owner = (backend.owner \/ call.do = "owner")
        /\ backend'.told = IF call.do = "features" THEN ToldFeatures ELSE backend.told
        /\ backend'.mem = (backend.mem \/ call.do = "mem")
        /\ \A q \in Backed : backend'.rings[q] =
              IF call.do = "ring" /\ call.q = q
              THEN [ring |-> queues[q].ring, call |-> call_fd(queues[q].vec)]
              ELSE backend.rings[q]
        /\ backend'.attached = IF call.do = "attach" THEN backend.attached \cup call.qs
                               ELSE backend.attached
    BY Tells, ZenonT(40)
  <1>2. /\ HdrSize' = HdrSize /\ tap_offload_flags' = tap_offload_flags
        /\ ToldFeatures' = ToldFeatures
    BY Zenon DEF HdrSize, acked, features, NetFeatures, VsockFeatures, tap_offload_flags, ToldFeatures
  <1>4. other.do = "hdr" => backend'.hdr = HdrSize'
    BY <1>1, <1>2, Zenon DEF Has
  <1>5. other.do = "offload" => backend'.offloads = tap_offload_flags'
    BY <1>1, <1>2, Zenon DEF Has
  <1>6. other.do = "features" => backend'.told = ToldFeatures'
    BY <1>1, <1>2, Zenon DEF Has
  <1>7. other.do = "mem" => backend'.mem
    BY <1>1, Zenon DEF Has
  <1>8. ASSUME other.do = "ring"
        PROVE  (/\ queues[other.q].ring # 0
                /\ backend.rings[other.q] = [ring |-> queues[other.q].ring,
                                             call |-> call_fd(queues[other.q].vec)])'
    <2>1. queues[other.q].ring # 0
      BY <1>8, Zenon DEF Has, GivesUp
    <2>2. backend'.rings[other.q] = [ring |-> queues[other.q].ring,
                                     call |-> call_fd(queues[other.q].vec)]
      BY <1>1, <1>8, Zenon DEF Has
    <2>3. QED BY <2>1, <2>2, Zenon DEF call_fd
  <1>9. other.do = "attach" => other.qs \subseteq backend'.attached
    BY <1>1, Zenon DEF Has
  <1>10. other.do = "owner" => backend'.owner
    BY <1>1, ZenonT(40) DEF Has
  <1>11. QED BY <1>10, <1>4, <1>5, <1>6, <1>7, <1>8, <1>9, Zenon DEF Has

LEMMA CallDoneStep == ASSUME VhostInv, CallDone PROVE VhostInv'
  <1>0. /\ VhostTypes /\ WordsWritten /\ RingsOfThisLife /\ CallsMade /\ AttachedByCalls /\ Owners
        /\ misuse => torn
    BY Zenon DEF VhostInv
  <1>1. PICK call : call = Plan[step]
    BY Zenon
  <1>2. /\ Locked /\ ~GivesUp(call) /\ ~Refuses(call) /\ backend' = Told(call)
        /\ step' = IF step = Len(Plan) THEN 0 ELSE step + 1
        /\ running' = (step = Len(Plan))
        /\ owned' = (owned \/ call.do = "owner")
        /\ UNCHANGED <<kind, able, status, word, accepted, df, queues, msixOn, lives,
                       failures, torn, misuse>>
    BY <1>1, Zenon DEF CallDone, devices, registers
  <1>3. /\ Plan' = Plan /\ features' = features /\ Queues' = Queues
        /\ AlwaysAble(kind)' = AlwaysAble(kind)
    BY <1>0, <1>2, SameDevice, Zenon
  <1>4. PlanComplete(Plan, kind) /\ step \in 1 .. Len(Plan)
    BY <1>0, <1>2, Complete DEF VhostTypes, Locked
  <1>5. call.do = "ring" => call.q \in Backed
    BY <1>1, <1>4, Zenon DEF PlanComplete
  <1>6. call.do = "attach" => call.qs \subseteq Backed
    BY <1>1, <1>4, Zenon DEF PlanComplete
  <1>7. /\ backend' \in BackendType
        /\ backend'.owner = (backend.owner \/ call.do = "owner")
        /\ backend'.attached = IF call.do = "attach" THEN backend.attached \cup call.qs
                               ELSE backend.attached
    BY <1>0, <1>2, <1>5, <1>6, Tells, Zenon
  <1>8. VhostTypes'
    BY <1>0, <1>2, <1>3, <1>4, <1>7 DEF VhostTypes
  <1>9. WordsWritten' /\ RingsOfThisLife'
    BY <1>0, <1>2, <1>3, Zenon DEF WordsWritten, RingsOfThisLife
  <1>10. Owners'
    BY <1>0, <1>1, <1>2, <1>4, <1>7, Zenon DEF Owners, PlanComplete
  <1>11. CallsMade'
    <2>1. PICK p : p = Plan
      BY Zenon
    <2>0. \A j \in 1 .. step : j \in 1 .. Len(Plan)
      BY <1>4
    <2>2. ASSUME NEW j \in 1 .. step PROVE Has(p[j])'
      <3>1. p[j].do = "ring" => p[j].q \in Backed
        BY <1>4, <2>0, <2>1, Zenon DEF PlanComplete
      <3>2. Has(p[j]) \/ p[j] = call
        BY <1>0, <1>1, <1>2, <1>4, <2>1 DEF CallsMade
      <3>3. QED BY <1>0, <1>2, <1>5, <1>6, <3>1, <3>2, TellsMore, ZenonT(40)
    <2>3. p = Plan' /\ status' = "driver_ok" /\ word' = 3
      BY <1>0, <1>2, <1>3, <2>1, Zenon DEF CallsMade
    <2>4. Locked' => step' = step + 1 /\ ~running'
      BY <1>2, <1>4, Zenon DEF Locked, PlanComplete
    <2>5. running' => step = Len(p)
      BY <1>2, <2>1, Zenon
    <2>6. QED BY <1>4, <2>2, <2>3, <2>4, <2>5 DEF CallsMade
  <1>12. AttachedByCalls'
    <2>0. SUFFICES ASSUME ~torn
                   PROVE  /\ ~Locked' => backend'.attached = IF running' THEN Backed ELSE {}
                          /\ Locked' => \A q \in backend'.attached : \E j \in 1 .. step' - 1 :
                                Plan[j].do = "attach" /\ q \in Plan[j].qs
      <3>1. PICK p : p = Plan
        BY Zenon
      <3>2. p = Plan'
        BY <1>3, <3>1, Zenon
      <3>3. QED BY <1>2, <2>0, <3>1, <3>2, ZenonT(40) DEF AttachedByCalls
    <2>1. \A q \in backend'.attached : \E j \in 1 .. step :
              Plan[j].do = "attach" /\ q \in Plan[j].qs
      BY <1>0, <1>1, <1>2, <1>4, <1>7, <2>0 DEF AttachedByCalls
    <2>2. ASSUME ~Locked' PROVE running' /\ backend'.attached = Backed
      <3>0. PICK n : n = Len(Plan)
        BY Zenon
      <3>a. step = n
        <4>1. step' = 0 /\ step \in 1 .. n
          BY <1>4, <2>2, <3>0, Zenon DEF Locked
        <4>2. step' = IF step = n THEN 0 ELSE step + 1
          BY <1>2, <3>0, ZenonT(40)
        <4>3. n \in Nat
          BY <1>4, <3>0 DEF PlanComplete
        <4>4. QED BY <4>1, <4>2, <4>3
      <3>1. step = Len(Plan) /\ running'
        BY <1>2, <3>0, <3>a, Zenon
      <3>2. ASSUME NEW q \in Backed PROVE q \in backend'.attached
        <4>1. PICK i \in 1 .. Len(Plan) : Plan[i].do = "attach" /\ q \in Plan[i].qs
          BY <1>4, Zenon DEF PlanComplete
        <4>2. CASE i = step
          BY <1>1, <1>7, <4>1, <4>2, Zenon
        <4>3. CASE i < step
          <5>1. Has(Plan[i])
            BY <1>0, <1>2, <1>4, <4>1, <4>3 DEF CallsMade
          <5>2. q \in backend.attached
            BY <4>1, <5>1, Zenon DEF Has
          <5>3. QED BY <1>7, <5>2, Zenon
        <4>4. QED BY <1>4, <3>1, <4>1, <4>2, <4>3
      <3>3. backend'.attached \subseteq Backed
        BY <1>7, Zenon DEF BackendType
      <3>4. QED BY <3>1, <3>2, <3>3, Zenon
    <2>3. Locked' => step' = step + 1
      BY <1>2, Zenon DEF Locked
    <2>4. QED BY <1>4, <2>1, <2>2, <2>3
  <1>13. QED BY <1>0, <1>2, <1>8, <1>9, <1>10, <1>11, <1>12, Zenon DEF VhostInv

\* An activation that ends early leaves what it told, and nothing it attached
\* unless the device is torn from then on.
LEMMA AbandonStep ==
    ASSUME VhostInv, Locked, Abandon, backend' \in BackendType, failures' \in Nat,
           backend'.owner = backend.owner, backend'.attached = backend.attached,
           misuse' \in BOOLEAN, misuse' => torn
    PROVE  VhostInv'
  <1>0. /\ VhostTypes /\ WordsWritten /\ RingsOfThisLife /\ CallsMade /\ AttachedByCalls /\ Owners
    BY Zenon DEF VhostInv
  <1>1. /\ step' = 0 /\ torn' = (torn \/ backend.attached # {})
        /\ UNCHANGED <<kind, able, status, word, accepted, df, queues, msixOn, lives, running,
                       owned>>
    BY Zenon DEF Abandon, devices, registers
  <1>2. /\ Plan' = Plan /\ features' = features /\ Queues' = Queues
        /\ AlwaysAble(kind)' = AlwaysAble(kind)
    BY <1>0, <1>1, SameDevice, Zenon
  <1>3. ~running
    BY <1>0, Zenon DEF CallsMade
  <1>4. torn' \in BOOLEAN /\ (torn => torn')
    BY <1>0, <1>1, ZenonT(40) DEF VhostTypes
  <1>5. step' \in 0 .. Len(Plan')
    BY <1>0, <1>1, <1>2, Complete DEF PlanComplete, VhostTypes
  <1>6. VhostTypes'
    BY <1>0, <1>1, <1>2, <1>4, <1>5, Zenon DEF VhostTypes
  <1>7. WordsWritten' /\ RingsOfThisLife'
    BY <1>0, <1>1, <1>2, Zenon DEF WordsWritten, RingsOfThisLife
  <1>8. Owners'
    BY <1>0, <1>1, Zenon DEF Owners
  <1>9. CallsMade' /\ AttachedByCalls'
    BY <1>1, <1>3, Zenon DEF CallsMade, AttachedByCalls, Locked
  <1>10. QED BY <1>4, <1>6, <1>7, <1>8, <1>9, Zenon DEF VhostInv

\* A ring half told is one of the backend's records still.
LEMMA HalfTold ==
    ASSUME VhostTypes, NEW q \in Backed, backend' = HalfRing(q)
    PROVE  /\ backend' \in BackendType /\ backend'.owner = backend.owner
           /\ backend'.attached = backend.attached
  <1>1. backend \in BackendType /\ q \in Queues
    BY DEF VhostTypes, Backed, Queues, NumQueues
  <1>2. queues[q].ring \in Nat
    BY <1>1, Zenon DEF VhostTypes
  <1>3. PICK r : r = [backend.rings[q] EXCEPT !.ring = queues[q].ring]
    BY Zenon
  <1>4. r \in [ring : Nat, call : Nat]
    BY <1>1, <1>2, <1>3, Zenon DEF BackendType
  <1>5. PICK R : R = [backend.rings EXCEPT ![q] = r]
    BY Zenon
  <1>6. R \in [Backed -> [ring : Nat, call : Nat]]
    BY <1>1, <1>4, <1>5, Zenon DEF BackendType
  <1>7. backend' = [backend EXCEPT !.rings = R]
    BY <1>1, <1>3, <1>5, Zenon DEF HalfRing, BackendType
  <1>8. QED BY <1>1, <1>6, <1>7, Zenon DEF BackendType

LEMMA FailingStep ==
    ASSUME VhostInv, CallRefused \/ CallGivenUp \/ CallFails
    PROVE  VhostInv'
  <1>0. VhostTypes /\ (misuse => torn) /\ misuse \in BOOLEAN /\ failures \in Nat
    BY Zenon DEF VhostInv, VhostTypes
  <1>1. Locked /\ Abandon
    BY Zenon DEF CallRefused, CallGivenUp, CallFails
  <1>2. PICK call : call = Plan[step]
    BY Zenon
  <1>3. call.do = "ring" => call.q \in Backed
    BY <1>0, <1>1, <1>2, Complete DEF PlanComplete, VhostTypes, Locked
  <1>4. backend \in BackendType
    BY <1>0, Zenon DEF VhostTypes
  <1>5. CASE CallRefused
    <2>1. misuse' = TRUE /\ backend' = backend /\ failures' = failures /\ Refuses(Plan[step])
      BY <1>5, Zenon DEF CallRefused
    <2>2. torn
      BY <1>1, <2>1, NotRefused, Zenon
    <2>3. QED BY <1>0, <1>1, <1>4, <2>1, <2>2, AbandonStep, Zenon
  <1>6. CASE CallGivenUp
    <2>1. /\ misuse' = misuse /\ failures' = failures
          /\ call.do = "ring" /\ (backend' = backend \/ backend' = HalfRing(call.q))
      BY <1>2, <1>6, Zenon DEF CallGivenUp, GivesUp
    <2>2. CASE backend' = backend
      BY <1>0, <1>1, <1>4, <2>1, <2>2, AbandonStep, Zenon
    <2>3. CASE backend' = HalfRing(call.q)
      BY <1>0, <1>1, <1>3, <2>1, <2>3, AbandonStep, HalfTold, Zenon
    <2>4. QED BY <2>1, <2>2, <2>3, Zenon
  <1>7. CASE CallFails
    <2>1. /\ misuse' = misuse /\ failures' = failures + 1
          /\ backend' = backend \/ (call.do = "ring" /\ backend' = HalfRing(call.q))
      BY <1>2, <1>7, Zenon DEF CallFails
    <2>2. CASE backend' = backend
      BY <1>0, <1>1, <1>4, <2>1, <2>2, AbandonStep
    <2>3. CASE call.do = "ring" /\ backend' = HalfRing(call.q)
      BY <1>0, <1>1, <1>3, <2>1, <2>3, AbandonStep, HalfTold
    <2>4. QED BY <2>1, <2>2, <2>3, Zenon
  <1>8. QED BY <1>5, <1>6, <1>7, Zenon

LEMMA ResetStep == ASSUME VhostInv, reset_device PROVE VhostInv'
  <1>0. /\ VhostTypes /\ WordsWritten /\ RingsOfThisLife /\ CallsMade /\ AttachedByCalls /\ Owners
        /\ misuse => torn
    BY Zenon DEF VhostInv
  <1>1. PICK kept \in Kept :
          /\ ~Locked /\ status' = "reset" /\ running' = FALSE /\ status # "reset"
          /\ queues' = new_queues(kind) /\ backend' = [backend EXCEPT !.attached = kept]
          /\ failures' = failures + (IF running /\ kept # {} THEN 1 ELSE 0)
          /\ torn' = (torn \/ (running /\ kept # {}))
          /\ UNCHANGED <<kind, able, word, accepted, df, msixOn, step, lives, misuse, owned>>
    BY Zenon DEF reset_device, ResetDevice, devices
  <1>2. /\ Plan' = Plan /\ features' = features /\ Queues' = Queues
        /\ AlwaysAble(kind)' = AlwaysAble(kind)
    BY <1>0, <1>1, SameDevice, Zenon
  <1>3. kept \subseteq Backed /\ (~running => kept = backend.attached)
    BY <1>0, <1>1, Zenon DEF Kept, VhostTypes, BackendType, NetReset, VsockReset, FsReset, NvReset
  <1>4. /\ backend' \in BackendType /\ backend'.attached = kept /\ backend'.owner = backend.owner
    BY <1>0, <1>1, <1>3, Zenon DEF VhostTypes, BackendType
  <1>5. /\ queues' \in [Queues -> [ring : Nat, vec : Nat]]
        /\ \A q \in Queues : queues'[q].ring = 0
    BY <1>0, <1>1 DEF new_queues, Queues, NumQueues
  <1>6. torn' \in BOOLEAN /\ (torn => torn') /\ failures' \in Nat
    BY <1>0, <1>1 DEF VhostTypes
  <1>7. VhostTypes'
    BY <1>0, <1>1, <1>2, <1>4, <1>5, <1>6, Zenon DEF VhostTypes
  <1>8. WordsWritten' /\ Owners'
    BY <1>0, <1>1, <1>2, <1>4, Zenon DEF WordsWritten, Owners
  <1>9. RingsOfThisLife'
    BY <1>0, <1>1, <1>2, <1>5, Zenon DEF RingsOfThisLife
  <1>10. CallsMade'
    BY <1>1, Zenon DEF CallsMade, Locked
  <1>11. AttachedByCalls'
    <2>1. ASSUME ~torn' PROVE kept = {}
      BY <1>0, <1>1, <1>3, <2>1, Zenon DEF AttachedByCalls
    <2>2. QED BY <1>1, <1>4, <2>1, Zenon DEF AttachedByCalls, Locked
  <1>12. QED BY <1>0, <1>1, <1>6, <1>7, <1>8, <1>9, <1>10, <1>11, Zenon DEF VhostInv

\* Doorbells, the backend's serving, and any other step that leaves the device.
LEMMA IdleStep ==
    ASSUME VhostInv,
           UNCHANGED <<kind, able, status, word, accepted, df, queues, msixOn, step, running,
                       owned, backend, lives, failures, torn, misuse>>
    PROVE  VhostInv'
  <1>0. /\ VhostTypes /\ WordsWritten /\ RingsOfThisLife /\ CallsMade /\ AttachedByCalls /\ Owners
        /\ misuse => torn
    BY Zenon DEF VhostInv
  <1>1. /\ Plan' = Plan /\ features' = features /\ Queues' = Queues
        /\ AlwaysAble(kind)' = AlwaysAble(kind)
    BY <1>0, SameDevice, Zenon
  <1>2. VhostTypes'
    BY <1>0, <1>1, Zenon DEF VhostTypes
  <1>3. WordsWritten' /\ RingsOfThisLife' /\ Owners'
    BY <1>0, <1>1, Zenon DEF WordsWritten, RingsOfThisLife, Owners
  <1>4. PICK p : p = Plan /\ p = Plan'
    BY <1>1, Zenon
  <1>5. AttachedByCalls'
    BY <1>0, <1>4, Zenon DEF AttachedByCalls, Locked
  <1>6. \A j : Has(p[j]) => Has(p[j])'
    BY <1>0, StillHas, Zenon
  <1>7. CallsMade'
    BY <1>0, <1>4, <1>6, Zenon DEF CallsMade, Locked
  <1>8. QED BY <1>0, <1>2, <1>3, <1>5, <1>7, Zenon DEF VhostInv

LEMMA VhostInductive == VhostSpec => []VhostInv
  <1>1. VhostInit => VhostInv
    BY InitVhost, Zenon
  <1>2. ASSUME VhostInv, [VhostNext]_vhostVars PROVE VhostInv'
    <2>1. CASE TakeOver \/ WriteFeatures \/ ProgramQueue \/ write_msix_enable
      BY <1>2, <2>1, RegisterStep, Zenon
    <2>2. CASE WriteDriverOk
      BY <1>2, <2>2, DriverOkStep, Zenon
    <2>3. CASE CallDone
      BY <1>2, <2>3, CallDoneStep, Zenon
    <2>4. CASE CallRefused \/ CallGivenUp \/ CallFails
      BY <1>2, <2>4, FailingStep, Zenon
    <2>5. CASE reset_device
      BY <1>2, <2>5, ResetStep, Zenon
    <2>6. CASE Kick \/ Serve \/ UNCHANGED vhostVars
      <3>1. UNCHANGED <<kind, able, status, word, accepted, df, queues, msixOn, step, running,
                        owned, backend, lives, failures, torn, misuse>>
        BY <2>6, Zenon DEF Kick, Serve, vhostVars, devices, registers
      <3>2. QED BY <1>2, <3>1, IdleStep, Zenon
    <2>7. QED BY <1>2, <2>1, <2>2, <2>3, <2>4, <2>5, <2>6, Zenon DEF VhostNext
  <1>3. QED BY <1>1, <1>2, PTL DEF VhostSpec

-----------------------------------------------------------------------------
(* What is attached is all told. *)

\* Once a ring is attached, every call that is not to attach has been made.
LEMMA AllTold ==
    ASSUME VhostInv, ~torn, backend.attached # {}
    PROVE  /\ status = "driver_ok" /\ word = 3
           /\ \A i \in 1 .. Len(Plan) : Plan[i].do # "attach" => Has(Plan[i])
  <1>0. VhostTypes /\ CallsMade /\ AttachedByCalls
    BY Zenon DEF VhostInv
  <1>1. PlanComplete(Plan, kind)
    BY <1>0, Complete, Zenon DEF VhostTypes
  <1>2. CASE ~Locked
    <2>1. running
      BY <1>0, <1>2, Zenon DEF AttachedByCalls
    <2>2. QED BY <1>0, <2>1, Zenon DEF CallsMade
  <1>3. CASE Locked
    <2>1. PICK k \in 1 .. step - 1 : Plan[k].do = "attach"
      BY <1>0, <1>3, Zenon DEF AttachedByCalls
    <2>2. step \in 1 .. Len(Plan) /\ Len(Plan) \in Nat
      BY <1>0, <1>1, <1>3 DEF VhostTypes, Locked, PlanComplete
    <2>3. \A i \in 1 .. Len(Plan) : Plan[i].do # "attach" => i \in 1 .. step - 1
      BY <1>1, <2>1, <2>2 DEF PlanComplete
    <2>4. QED BY <1>0, <1>3, <2>3, Zenon DEF CallsMade
  <1>4. QED BY <1>2, <1>3, Zenon

LEMMA InvServed == VhostInv => ServedIsReady
  <1> SUFFICES ASSUME VhostInv, ~torn, backend.attached # {}
               PROVE  /\ status = "driver_ok" /\ backend.owner /\ backend.mem
                      /\ \A q \in Backed :
                            backend.rings[q] = [ring |-> lives, call |-> call_fd(queues[q].vec)]
    BY Zenon DEF ServedIsReady
  <1>0. VhostTypes /\ RingsOfThisLife /\ Owners
    BY Zenon DEF VhostInv
  <1>1. PlanComplete(Plan, kind)
    BY <1>0, Complete, Zenon DEF VhostTypes
  <1>2. status = "driver_ok" /\ backend.mem
    BY <1>1, AllTold, Zenon DEF PlanComplete, Has
  <1>3. ASSUME NEW q \in Backed
        PROVE  backend.rings[q] = [ring |-> lives, call |-> call_fd(queues[q].vec)]
    <2>1. PICK i \in 1 .. Len(Plan) : Plan[i].do = "ring" /\ Plan[i].q = q
      BY <1>1, Zenon DEF PlanComplete
    <2>2. /\ queues[q].ring # 0
          /\ backend.rings[q] = [ring |-> queues[q].ring, call |-> call_fd(queues[q].vec)]
      BY <2>1, AllTold, Zenon DEF Has
    <2>3. q \in Queues
      BY DEF Backed, Queues, NumQueues
    <2>4. queues[q].ring = lives
      BY <1>0, <2>2, <2>3, Zenon DEF RingsOfThisLife
    <2>5. QED BY <2>2, <2>4, Zenon
  <1>4. backend.owner
    BY <1>0, <1>1, AllTold, Zenon DEF PlanComplete, Has, Owners
  <1>5. QED BY <1>2, <1>3, <1>4, Zenon

\* A driver that has written its features is heard: what is acked is what it
\* accepted.
LEMMA Heard == ASSUME VhostInv, word = 3 PROVE acked = accepted
  BY DEF VhostInv, WordsWritten, acked

LEMMA InvAgrees == VhostInv => NegotiationAgrees
  <1> SUFFICES ASSUME VhostInv, ~torn, backend.attached # {}
               PROVE  /\ backend.told \cap (RingBits \cup HighWord)
                           = accepted \cap (RingBits \cup HighWord)
                      /\ kind = "net" =>
                           /\ backend.hdr = 12 <=> (accepted \cap {"V1", "MRG_RXBUF"} # {})
                           /\ "CSUM" \in backend.offloads <=> "GUEST_CSUM" \in accepted
                           /\ "TSO" \in backend.offloads
                                => {"GUEST_CSUM", "GUEST_TSO"} \subseteq accepted
    BY Zenon DEF NegotiationAgrees
  <1>0. VhostTypes /\ WordsWritten /\ kind \in Kinds
    BY Zenon DEF VhostInv, VhostTypes
  <1>1. PlanComplete(Plan, kind)
    BY <1>0, Complete, Zenon
  <1>2. acked = accepted
    BY AllTold, Heard, Zenon
  <1>3. backend.told = ToldFeatures
    BY <1>1, AllTold, Zenon DEF PlanComplete, Has
  <1>4. ToldFeatures \cap (RingBits \cup HighWord) = accepted \cap (RingBits \cup HighWord)
    BY <1>0, <1>2, Zenon DEF ToldFeatures, WordsWritten, features, NetFeatures, VsockFeatures,
                      UserFeatures, AlwaysAble, RingBits, HighWord, Kinds
  <1>5. ASSUME kind = "net"
        PROVE  backend.hdr = HdrSize /\ backend.offloads = tap_offload_flags
    BY <1>1, <1>5, AllTold, Zenon DEF PlanComplete, Has
  <1>6. QED BY <1>2, <1>3, <1>4, <1>5 DEF HdrSize, tap_offload_flags

-----------------------------------------------------------------------------

\* A backend serves a ring only when this driver's activation told it memory, an
\* owner and every ring's address and eventfd (activate, reset_device).
THEOREM OnlyReadyServed == VhostSpec => []ServedIsReady
  BY VhostInductive, InvServed, PTL

\* Whatever is served, driver, backend and tap agree on layout, header size and
\* offloads (write_driver_feature, activate).
THEOREM BothSidesAgree == VhostSpec => []NegotiationAgrees
  BY VhostInductive, InvAgrees, PTL

\* No activation, after whatever failures and resets, makes a call the backend
\* must refuse (`owned`).
THEOREM NoCallRefused == VhostSpec => []NeverRefused
  <1>1. VhostInv => NeverRefused
    BY Zenon DEF VhostInv, NeverRefused
  <1>2. QED BY <1>1, VhostInductive, PTL
=============================================================================
