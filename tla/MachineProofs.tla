--------------------------- MODULE MachineProofs ----------------------------
(***************************************************************************)
(* The machine around the guest: the order in which main builds it, the    *)
(* jail it runs in, and the interrupts of its devices.                     *)
(*                                                                         *)
(* Startup: for every configuration, number of shares and failing step.    *)
(* Sealing follows what is left of main's order, Slots the slots and GSIs  *)
(* given out, Children the daemons.                                        *)
(* Jailer: for every job, every layout of the host's mounts and whichever  *)
(* call fails; JailInv says which binds are made at which step.            *)
(* Msix: for any vectors and messages, whether or not KVM takes a table.   *)
(***************************************************************************)
EXTENDS Startup, Jailer, Msix, WellFoundedInduction, TLAPS

-----------------------------------------------------------------------------
(* What the operators on sequences yield *)

\* Concatenation.
LEMMA Concatenated ==
  ASSUME NEW S, NEW s \in Seq(S), NEW t \in Seq(S)
  PROVE  /\ s \o t \in Seq(S) /\ Len(s \o t) = Len(s) + Len(t)
         /\ \A i \in 1 .. Len(s) + Len(t) :
              (s \o t)[i] = IF i <= Len(s) THEN s[i] ELSE t[i - Len(s)]
  OBVIOUS

\* One more element.
LEMMA Appended ==
  ASSUME NEW S, NEW s \in Seq(S), NEW e \in S
  PROVE  /\ Append(s, e) \in Seq(S) /\ Len(Append(s, e)) = Len(s) + 1
         /\ \A i \in 1 .. Len(s) : Append(s, e)[i] = s[i]
         /\ Append(s, e)[Len(s) + 1] = e
  OBVIOUS

\* All but the first.
LEMMA TailFacts ==
  ASSUME NEW S, NEW s \in Seq(S), s # <<>>
  PROVE  /\ Tail(s) \in Seq(S) /\ Len(Tail(s)) = Len(s) - 1
         /\ \A i \in 1 .. Len(Tail(s)) : Tail(s)[i] = s[i + 1]
  OBVIOUS

-----------------------------------------------------------------------------
(* Startup *)

FrontOps == {"userns", "renderer", "vm", "add", "stats", "control", "fork", "spawned", "wait"}
SealOps == {"signals", "netns", "filter", "vcpus"}
Kinds == {"blk", "console", "vsock", "net", "gpu", "nvgpu", "fs"}
StepsOf(ops) == [op : ops, arg : Kinds \cup Nat]

\* What is true of main's order whichever steps of it are left: vCPUs start
\* last, only they come after the filter, only both after the network is given
\* up, and a fork is followed by the taking of the child.
Ordered(td) ==
  /\ td \in Seq(StepsOf(FrontOps \cup SealOps)) /\ Len(td) > 0
  /\ \A i \in 1 .. Len(td) : td[i].op = "vcpus" <=> i = Len(td)
  /\ \A i, j \in 1 .. Len(td) : i < j /\ td[i].op = "filter" => td[j].op = "vcpus"
  /\ \A i, j \in 1 .. Len(td) : i < j /\ td[i].op = "netns" => td[j].op \in {"filter", "vcpus"}
  /\ \A i \in 1 .. Len(td) - 1 :
       td[i].op = "fork" => td[i + 1] = [op |-> "spawned", arg |-> td[i].arg]

Left(op) == \E i \in 1 .. Len(todo) : todo[i].op = op

DaemonType == [at : {"none", "forked", "hooked", "serving", "listening", "dead"},
               armed : BOOLEAN, told : BOOLEAN]

CrewType == [net : {"host", "own"}, filtered : BOOLEAN]
Guests == {"vcpu", "watcher", "worker"}

\* Threads: whoever there is descends from main, and has what main had.
Sealing ==
  /\ \A t \in DOMAIN crew : crew[t] \in CrewType
  /\ vmm = "building" =>
       /\ Ordered(todo) /\ "main" \in DOMAIN crew
       /\ Left("netns") => Asked("unshare")
       /\ Asked("unshare") /\ ~Left("netns") =>
            \A i \in 1 .. Len(todo) : todo[i].op \in {"filter", "vcpus"}
       /\ crew["main"].net = IF Asked("unshare") /\ ~Left("netns") THEN "own" ELSE "host"
       /\ ~Left("filter") => \A t \in DOMAIN crew : crew[t].filtered = (setup.filter # "off")
       /\ DOMAIN crew \cap Guests = {}
  /\ vmm = "running" =>
       /\ "vcpu" \in DOMAIN crew
       /\ \A t \in DOMAIN crew : crew[t].filtered = (setup.filter # "off")
       /\ \A t \in DOMAIN crew \cap Guests :
            crew[t].net = IF Asked("unshare") THEN "own" ELSE "host"
  /\ \A w \in DOMAIN made : made[w] = "host"

\* Devices: the counter is one ahead of the bus, and GSIs are handed out once.
Slots ==
  /\ bus_slots \in Seq([kind : Kinds \cup Nat, intx : Nat, msi : SUBSET Nat])
  /\ next_slot = Len(bus_slots) + 1 /\ next_gsi \in Nat /\ next_gsi >= FirstMsiGsi
  /\ \A i \in 1 .. Len(bus_slots) :
       /\ bus_slots[i].intx = slot_gsi(i)
       /\ \A g \in bus_slots[i].msi : g >= FirstMsiGsi /\ g < next_gsi
  /\ \A i, j \in 1 .. Len(bus_slots) : i # j => bus_slots[i].msi \cap bus_slots[j].msi = {}

\* Children: one that lives is owned, or main is about to own it; one past the
\* hook's request has asked for the signal.
Children ==
  /\ daemon \in [1 .. MaxShares -> DaemonType]
  /\ vmm \in {"building", "running", "failed", "killed"}
  /\ vmm = "building" => \A n \in 1 .. MaxShares :
       Alive(n) => n \in held \/ Head(todo) = [op |-> "spawned", arg |-> n]
  /\ vmm \in {"building", "running"} => \A n \in 1 .. MaxShares :
       daemon[n].at \in {"hooked", "serving", "listening"} => daemon[n].armed
  /\ vmm = "failed" => \A n \in 1 .. MaxShares : ~Alive(n)
  /\ vmm = "killed" => \A n \in 1 .. MaxShares :
       daemon[n].at \in {"serving", "listening"} => daemon[n].told

StartupInv == Sealing /\ Slots /\ Children

-----------------------------------------------------------------------------
(* The order of main *)

Setups == [options : SUBSET Options, gpu : GpuSettings, filter : FilterModes,
           drives : 0 .. MaxDrives, shares : 0 .. MaxShares]

\* Steps of the building part, with every fork followed as it should be.
FrontSteps(td) ==
  /\ td \in Seq(StepsOf(FrontOps))
  /\ \A i \in 1 .. Len(td) : td[i].op = "fork" =>
       i < Len(td) /\ td[i + 1] = [op |-> "spawned", arg |-> td[i].arg]

LEMMA SeqMono == ASSUME NEW A, NEW B, A \subseteq B, NEW q \in Seq(A) PROVE q \in Seq(B)
  OBVIOUS

LEMMA FrontCat == ASSUME NEW s, NEW t, FrontSteps(s), FrontSteps(t) PROVE FrontSteps(s \o t)
  <1>1. s \in Seq(StepsOf(FrontOps)) /\ t \in Seq(StepsOf(FrontOps))
    BY Zenon DEF FrontSteps
  <1>2. PICK S : S = StepsOf(FrontOps)
    BY Zenon
  <1>3. /\ s \o t \in Seq(S) /\ Len(s \o t) = Len(s) + Len(t)
        /\ \A i \in 1 .. Len(s) + Len(t) :
             (s \o t)[i] = IF i <= Len(s) THEN s[i] ELSE t[i - Len(s)]
    BY <1>1, <1>2, Concatenated, Zenon
  <1>4. ASSUME NEW i \in 1 .. Len(s \o t), (s \o t)[i].op = "fork"
        PROVE  /\ i < Len(s \o t)
               /\ (s \o t)[i + 1] = [op |-> "spawned", arg |-> (s \o t)[i].arg]
    <2>1. Len(s) \in Nat /\ Len(t) \in Nat
      BY <1>1
    <2>2. CASE i <= Len(s)
      <3>1. (s \o t)[i] = s[i] /\ i \in 1 .. Len(s)
        BY <1>3, <1>4, <2>1, <2>2
      <3>2. i < Len(s) /\ s[i + 1] = [op |-> "spawned", arg |-> s[i].arg]
        BY <1>4, <3>1, Zenon DEF FrontSteps
      <3>3. (s \o t)[i + 1] = s[i + 1] /\ i < Len(s \o t)
        BY <1>3, <2>1, <3>1, <3>2
      <3>4. QED BY <3>1, <3>2, <3>3, Zenon
    <2>3. CASE i > Len(s)
      <3>0. PICK k : k = i - Len(s)
        BY Zenon
      <3>1. (s \o t)[i] = t[k] /\ k \in 1 .. Len(t)
        BY <1>3, <1>4, <2>1, <2>3, <3>0
      <3>2. k < Len(t) /\ t[k + 1] = [op |-> "spawned", arg |-> t[k].arg]
        BY <1>4, <3>1, Zenon DEF FrontSteps
      <3>3. (s \o t)[i + 1] = t[k + 1] /\ i < Len(s \o t)
        BY <1>3, <1>4, <2>1, <2>3, <3>0, <3>1, <3>2
      <3>4. QED BY <3>1, <3>2, <3>3, Zenon
    <2>4. QED BY <1>3, <1>4, <2>1, <2>2, <2>3
  <1>5. QED BY <1>2, <1>3, <1>4, Zenon DEF FrontSteps

LEMMA FrontOne ==
  ASSUME NEW st \in StepsOf(FrontOps), st.op # "fork", NEW cond
  PROVE  FrontSteps(<<st>>) /\ FrontSteps(When(cond, <<st>>))
  BY DEF FrontSteps, When

\* Each directory's four steps come one after the other.
LEMMA SharesFront == ASSUME NEW s \in Setups PROVE FrontSteps(SharesSteps(s))
  <1>0. PICK n \in Nat : n = s.shares
    BY StartupAssumption DEF Setups
  <1>1. PICK f : f = SharesSteps(s)
    BY Zenon
  <1>2. \A m \in Nat : /\ ShareSteps(m)[1] = [op |-> "fork", arg |-> m]
                       /\ ShareSteps(m)[2] = [op |-> "spawned", arg |-> m]
                       /\ ShareSteps(m)[3] = [op |-> "wait", arg |-> m]
                       /\ ShareSteps(m)[4] = [op |-> "add", arg |-> "fs"]
    BY Zenon DEF ShareSteps, Add
  <1>3. \A m \in Nat : \A k \in 1 .. 4 :
          /\ ShareSteps(m)[k] \in StepsOf(FrontOps)
          /\ ShareSteps(m)[k].op = "fork" => k = 1
    <2> TAKE m \in Nat
    <2>1. PICK g : g = ShareSteps(m)
      BY Zenon
    <2>2. /\ g[1] = [op |-> "fork", arg |-> m] /\ g[2] = [op |-> "spawned", arg |-> m]
          /\ g[3] = [op |-> "wait", arg |-> m] /\ g[4] = [op |-> "add", arg |-> "fs"]
      BY <1>2, <2>1, Zenon
    <2>3. \A k \in 1 .. 4 : g[k] \in StepsOf(FrontOps) /\ (g[k].op = "fork" => k = 1)
      BY <2>2 DEF StepsOf, FrontOps, Kinds
    <2>4. QED BY <2>1, <2>3, Zenon
  <1>4. f = [k \in 1 .. 4 * n |-> ShareSteps((k + 3) \div 4)[((k - 1) % 4) + 1]]
    BY <1>0, <1>1, Zenon DEF SharesSteps
  <1>5. \A k \in 1 .. 4 * n : (k + 3) \div 4 \in Nat /\ ((k - 1) % 4) + 1 \in 1 .. 4
    OBVIOUS
  <1>6. \A k \in 1 .. 4 * n : f[k] \in StepsOf(FrontOps)
    BY <1>3, <1>4, <1>5, Zenon
  <1>7. f \in Seq(StepsOf(FrontOps)) /\ Len(f) = 4 * n
    <2>1. PICK S : S = StepsOf(FrontOps)
      BY Zenon
    <2>2. PICK l \in Nat : l = 4 * n
      OBVIOUS
    <2>3. f \in [1 .. l -> S]
      BY <1>4, <1>6, <2>1, <2>2, Zenon
    <2>4. QED BY <2>1, <2>2, <2>3
  <1>8. ASSUME NEW k \in 1 .. Len(f), f[k].op = "fork"
        PROVE  k < Len(f) /\ f[k + 1] = [op |-> "spawned", arg |-> f[k].arg]
    <2>1. PICK m \in Nat : m = (k + 3) \div 4
      BY <1>5, <1>7, Zenon
    <2>2. PICK r \in 1 .. 4 : r = ((k - 1) % 4) + 1
      BY <1>5, <1>7, Zenon
    <2>3. f[k] = ShareSteps(m)[r]
      BY <1>4, <1>7, <2>1, <2>2, Zenon
    <2>4. r = 1
      BY <1>3, <1>8, <2>3, Zenon
    <2>5. k < 4 * n /\ (k + 4) \div 4 = m /\ (k % 4) + 1 = 2
      BY <1>7, <2>1, <2>2, <2>4
    <2>6. f[k + 1] = ShareSteps(m)[2]
      <3>1. k + 1 \in 1 .. 4 * n
        BY <2>5
      <3>2. f[k + 1] = ShareSteps(((k + 1) + 3) \div 4)[(((k + 1) - 1) % 4) + 1]
        BY <1>4, <3>1, Zenon
      <3>3. (k + 1) + 3 = k + 4 /\ (k + 1) - 1 = k
        OBVIOUS
      <3>4. QED BY <2>5, <3>2, <3>3, Zenon
    <2>7. f[k] = [op |-> "fork", arg |-> m] /\ f[k + 1] = [op |-> "spawned", arg |-> m]
      BY <1>2, <2>3, <2>4, <2>6, Zenon
    <2>8. QED BY <1>7, <2>5, <2>7
  <1>9. QED BY <1>1, <1>7, <1>8, Zenon DEF FrontSteps

LEMMA BuildFront == ASSUME NEW s \in Setups PROVE FrontSteps(BuildSteps(s))
  <1>1. \A k \in Kinds : Add(k) \in StepsOf(FrontOps) /\ Add(k).op # "fork"
    BY Zenon DEF Add, StepsOf, FrontOps
  <1>2. /\ Step("stats") \in StepsOf(FrontOps) /\ Step("stats").op # "fork"
        /\ Step("control") \in StepsOf(FrontOps) /\ Step("control").op # "fork"
    BY Zenon DEF Step, StepsOf, FrontOps
  <1>3. \A k \in Kinds : FrontSteps(<<Add(k)>>) /\ \A cond : FrontSteps(When(cond, <<Add(k)>>))
    BY <1>1, FrontOne, Zenon
  <1>4. FrontSteps(BlkSteps(s))
    <2>1. PICK n \in Nat : n = s.drives
      BY StartupAssumption DEF Setups
    <2>2. PICK r : r = Add("blk")
      BY Zenon
    <2>3. r \in StepsOf(FrontOps) /\ r.op # "fork"
      BY <1>1, <2>2, Zenon DEF Kinds
    <2>4. FrontSteps([k \in 1 .. n |-> r])
      <3>1. PICK f : f = [k \in 1 .. n |-> r]
        BY Zenon
      <3>2. PICK S : S = StepsOf(FrontOps)
        BY Zenon
      <3>3. f \in Seq(S) /\ \A k \in 1 .. Len(f) : f[k] = r
        BY <2>3, <3>1, <3>2
      <3>4. QED BY <2>3, <3>1, <3>2, <3>3, Zenon DEF FrontSteps
    <2>5. QED BY <1>3, <2>1, <2>2, <2>4, FrontCat, Zenon DEF BlkSteps, Kinds
  <1>5. FrontSteps(ServeSteps(s))
    BY <1>2, FrontOne, FrontCat, Zenon DEF ServeSteps
  <1>6. FrontSteps(BlkSteps(s) \o <<Add("console")>>)
    BY <1>3, <1>4, FrontCat, Zenon DEF Kinds
  <1>7. FrontSteps((BlkSteps(s) \o <<Add("console")>>) \o VsockSteps(s))
    BY <1>3, <1>6, FrontCat, Zenon DEF VsockSteps, Kinds
  <1>8. FrontSteps(((BlkSteps(s) \o <<Add("console")>>) \o VsockSteps(s)) \o NetSteps(s))
    BY <1>3, <1>7, FrontCat, Zenon DEF NetSteps, Kinds
  <1>9. PICK a : a = ((BlkSteps(s) \o <<Add("console")>>) \o VsockSteps(s)) \o NetSteps(s)
    BY Zenon
  <1>10. FrontSteps(a \o GpuSteps(s))
    BY <1>3, <1>8, <1>9, FrontCat, Zenon DEF GpuSteps, Kinds
  <1>11. FrontSteps((a \o GpuSteps(s)) \o ServeSteps(s))
    BY <1>5, <1>10, FrontCat, Zenon
  <1>12. FrontSteps(((a \o GpuSteps(s)) \o ServeSteps(s)) \o ForwardSteps(s))
    BY <1>3, <1>11, FrontCat, Zenon DEF ForwardSteps, Kinds
  <1>13. FrontSteps((((a \o GpuSteps(s)) \o ServeSteps(s)) \o ForwardSteps(s)) \o SharesSteps(s))
    BY <1>12, FrontCat, SharesFront, Zenon
  <1>14. QED BY <1>9, <1>13, Zenon DEF BuildSteps

\* main's order is one the invariant speaks of; the filter is in it, and giving
\* up the network if that was asked for.
LEMMA PlanOrdered ==
  ASSUME NEW s \in Setups
  PROVE  /\ Ordered(Plan(s)) /\ Plan(s)[1].op # "spawned"
         /\ \E i \in 1 .. Len(Plan(s)) : Plan(s)[i].op = "filter"
         /\ (\E i \in 1 .. Len(Plan(s)) : Plan(s)[i].op = "netns") <=> "unshare" \in s.options
  <1>1. PICK w : w = When("unshare" \in s.options, <<Step("userns")>>)
    BY Zenon
  <1>2. PICK rv : rv = <<Step("renderer"), Step("vm")>>
    BY Zenon
  <1>3. PICK front : front = (w \o rv) \o BuildSteps(s)
    BY Zenon
  <1>4. PICK seal : seal = SealSteps(s)
    BY Zenon
  <1>5. FrontSteps(w) /\ (w = <<>> \/ (Len(w) = 1 /\ w[1].op = "userns"))
    BY <1>1, FrontOne DEF When, Step, StepsOf, FrontOps
  <1>6. FrontSteps(rv) /\ Len(rv) = 2 /\ rv[1].op = "renderer"
    BY <1>2 DEF FrontSteps, Step, StepsOf, FrontOps
  <1>7. FrontSteps(front)
    BY <1>3, <1>5, <1>6, BuildFront, FrontCat, Zenon
  <1>8. Plan(s) = front \o seal
    BY <1>1, <1>2, <1>3, <1>4, Zenon DEF Plan
  <1>9. /\ seal \in Seq(StepsOf(SealOps)) /\ Len(seal) \in 3 .. 4
        /\ \A i \in 1 .. Len(seal) : seal[i].op = "vcpus" <=> i = Len(seal)
        /\ \A i \in 1 .. Len(seal) : seal[i].op = "filter" <=> i = Len(seal) - 1
        /\ \A i \in 1 .. Len(seal) : seal[i].op = "netns" => i = Len(seal) - 2
        /\ \A i \in 1 .. Len(seal) : seal[i].op = "netns" => "unshare" \in s.options
        /\ "unshare" \in s.options => seal[2].op = "netns"
    <2>1. CASE "unshare" \in s.options
      <3>1. seal = <<Step("signals"), Step("netns"), Step("filter"), Step("vcpus")>>
        BY <1>4, <2>1, Zenon DEF SealSteps
      <3>2. QED BY <2>1, <3>1 DEF Step, StepsOf, SealOps
    <2>2. CASE "unshare" \notin s.options
      <3>1. seal = <<Step("signals"), Step("filter"), Step("vcpus")>>
        BY <1>4, <2>2, Zenon DEF SealSteps
      <3>2. QED BY <2>2, <3>1 DEF Step, StepsOf, SealOps
    <2>3. QED BY <2>1, <2>2, Zenon
  <1>10. PICK m, n : m = Len(front) /\ n = Len(seal)
    BY Zenon
  <1>11. m \in Nat /\ n \in 3 .. 4 /\ front \in Seq(StepsOf(FrontOps))
    BY <1>7, <1>9, <1>10 DEF FrontSteps
  <1>12. PICK td : td = front \o seal
    BY Zenon
  <1>13. /\ td \in Seq(StepsOf(FrontOps \cup SealOps)) /\ Len(td) = m + n
         /\ \A i \in 1 .. m + n : td[i] = IF i <= m THEN front[i] ELSE seal[i - m]
    <2>1. StepsOf(FrontOps) \subseteq StepsOf(FrontOps \cup SealOps)
      BY Zenon DEF StepsOf
    <2>2. StepsOf(SealOps) \subseteq StepsOf(FrontOps \cup SealOps)
      BY Zenon DEF StepsOf
    <2>3. PICK S : S = StepsOf(FrontOps \cup SealOps)
      BY Zenon
    <2>4. front \in Seq(S) /\ seal \in Seq(S)
      BY <1>9, <1>11, <2>1, <2>2, <2>3, SeqMono, Zenon
    <2>5. QED BY <1>10, <1>12, <2>3, <2>4, Concatenated, Zenon
  <1>14. \A i \in 1 .. m : td[i] = front[i] /\ td[i].op \in FrontOps
    <2>1. \A i \in 1 .. m : front[i] \in StepsOf(FrontOps)
      BY <1>10, <1>11
    <2>2. QED BY <1>11, <1>13, <2>1 DEF StepsOf
  <1>15. \A i \in m + 1 .. m + n : td[i] = seal[i - m] /\ i - m \in 1 .. n
    BY <1>11, <1>13
  <1>16. \A i \in 1 .. Len(td) : i \in 1 .. m \/ i \in m + 1 .. m + n
    BY <1>11, <1>13
  <1>17. ASSUME NEW i \in 1 .. Len(td)
         PROVE  td[i].op = "vcpus" <=> i = Len(td)
    <2>1. CASE i \in 1 .. m
      <3>1. td[i].op \in FrontOps /\ i < Len(td) - 2
        BY <1>11, <1>13, <1>14, <2>1
      <3>2. QED BY <3>1 DEF FrontOps
    <2>2. CASE i \in m + 1 .. m + n
      <3>1. PICK k \in 1 .. n : k = i - m /\ td[i] = seal[k]
        BY <1>15, <2>2, Zenon
      <3>2. seal[k].op = "vcpus" <=> k = n
        BY <1>9, <1>10, Zenon
      <3>3. k = n <=> i = Len(td)
        BY <1>11, <1>13, <2>2, <3>1
      <3>4. QED BY <3>1, <3>2, <3>3, Zenon
    <2>3. QED BY <1>16, <2>1, <2>2, Zenon
  <1>18. ASSUME NEW i \in 1 .. Len(td)
         PROVE  td[i].op = "filter" <=> i = Len(td) - 1
    <2>1. CASE i \in 1 .. m
      <3>1. td[i].op \in FrontOps /\ i < Len(td) - 2
        BY <1>11, <1>13, <1>14, <2>1
      <3>2. QED BY <3>1 DEF FrontOps
    <2>2. CASE i \in m + 1 .. m + n
      <3>1. PICK k \in 1 .. n : k = i - m /\ td[i] = seal[k]
        BY <1>15, <2>2, Zenon
      <3>2. seal[k].op = "filter" <=> k = n - 1
        BY <1>9, <1>10, Zenon
      <3>3. k = n - 1 <=> i = Len(td) - 1
        BY <1>11, <1>13, <2>2, <3>1
      <3>4. QED BY <3>1, <3>2, <3>3, Zenon
    <2>3. QED BY <1>16, <2>1, <2>2, Zenon
  <1>19. ASSUME NEW i \in 1 .. Len(td)
         PROVE  td[i].op = "netns" => i = Len(td) - 2 /\ "unshare" \in s.options
    <2>1. CASE i \in 1 .. m
      <3>1. td[i].op \in FrontOps /\ i < Len(td) - 2
        BY <1>11, <1>13, <1>14, <2>1
      <3>2. QED BY <3>1, Zenon DEF FrontOps
    <2>2. CASE i \in m + 1 .. m + n
      <3>1. PICK k \in 1 .. n : k = i - m /\ td[i] = seal[k]
        BY <1>15, <2>2, Zenon
      <3>2. QED BY <1>9, <1>10, <1>11, <1>13, <2>2, <3>1
    <2>3. QED BY <1>16, <2>1, <2>2, Zenon
  <1>20. ASSUME NEW i \in 1 .. Len(td) - 1, td[i].op = "fork"
         PROVE  td[i + 1] = [op |-> "spawned", arg |-> td[i].arg]
    <2>1. i \in 1 .. m
      <3>1. ASSUME i \in m + 1 .. m + n PROVE FALSE
        <4>1. seal[i - m] \in StepsOf(SealOps) /\ td[i] = seal[i - m]
          BY <1>9, <1>10, <1>15, <3>1
        <4>2. QED BY <1>20, <4>1, Zenon DEF StepsOf, SealOps
      <3>2. i \in 1 .. Len(td)
        BY <1>11, <1>13
      <3>3. QED BY <1>16, <3>1, <3>2, Zenon
    <2>2. i < m /\ front[i + 1] = [op |-> "spawned", arg |-> front[i].arg]
      BY <1>7, <1>10, <1>14, <1>20, <2>1, Zenon DEF FrontSteps
    <2>3. i + 1 \in 1 .. m
      BY <1>11, <2>1, <2>2
    <2>4. QED BY <1>14, <2>1, <2>2, <2>3, Zenon
  <1>21. Ordered(td)
    <2>1. Len(td) \in Nat /\ Len(td) > 0
      BY <1>11, <1>13
    <2>2. \A i, j \in 1 .. Len(td) : i < j /\ td[i].op = "filter" => td[j].op = "vcpus"
      <3> TAKE i \in 1 .. Len(td), j \in 1 .. Len(td)
      <3>1. i = Len(td) - 1 /\ i < j => j = Len(td)
        BY <2>1
      <3>2. QED BY <1>17, <1>18, <3>1, Zenon
    <2>3. \A i, j \in 1 .. Len(td) :
             i < j /\ td[i].op = "netns" => td[j].op \in {"filter", "vcpus"}
      <3> TAKE i \in 1 .. Len(td), j \in 1 .. Len(td)
      <3>1. i = Len(td) - 2 /\ i < j => j = Len(td) \/ j = Len(td) - 1
        BY <2>1
      <3>2. QED BY <1>17, <1>18, <1>19, <3>1, Zenon
    <2>4. QED BY <1>13, <1>17, <1>20, <2>1, <2>2, <2>3, Zenon DEF Ordered
  <1>22. td[1].op # "spawned"
    <2>1. FrontSteps(w \o rv) /\ Len(w \o rv) \in Nat \ {0} /\ (w \o rv)[1].op \in {"userns", "renderer"}
      <3>1. w \in Seq(StepsOf(FrontOps)) /\ rv \in Seq(StepsOf(FrontOps))
        BY <1>5, <1>6, Zenon DEF FrontSteps
      <3>2. /\ Len(w \o rv) = Len(w) + 2
            /\ (w \o rv)[1] = IF 1 <= Len(w) THEN w[1] ELSE rv[1 - Len(w)]
        BY <1>5, <1>6, <3>1, Concatenated
      <3>3. QED BY <1>5, <1>6, <3>1, <3>2, FrontCat
    <2>2. PICK g : g = w \o rv
      BY Zenon
    <2>3. PICK b : b = BuildSteps(s)
      BY Zenon
    <2>4. g \in Seq(StepsOf(FrontOps)) /\ b \in Seq(StepsOf(FrontOps)) /\ Len(g) \in Nat \ {0}
      BY <2>1, <2>2, <2>3, BuildFront, Zenon DEF FrontSteps
    <2>5. Len(front) = Len(g) + Len(b) /\ front[1] = g[1]
      BY <1>3, <2>2, <2>3, <2>4, Concatenated
    <2>6. Len(b) \in Nat /\ 1 \in 1 .. m
      BY <1>10, <2>4, <2>5
    <2>7. td[1] = g[1]
      BY <1>14, <2>5, <2>6, Zenon
    <2>8. QED BY <2>1, <2>2, <2>7, Zenon
  <1>23. \E i \in 1 .. Len(td) : td[i].op = "filter"
    <2>1. Len(td) - 1 \in 1 .. Len(td)
      BY <1>11, <1>13
    <2>2. QED BY <1>18, <2>1, Zenon
  <1>24. ASSUME "unshare" \in s.options PROVE \E i \in 1 .. Len(td) : td[i].op = "netns"
    <2>1. m + 2 \in m + 1 .. m + n /\ m + 2 \in 1 .. Len(td) /\ (m + 2) - m = 2
      BY <1>11, <1>13
    <2>2. td[m + 2] = seal[2]
      BY <1>15, <2>1, Zenon
    <2>3. QED BY <1>9, <1>24, <2>1, <2>2, Zenon
  <1>25. QED BY <1>8, <1>12, <1>19, <1>21, <1>22, <1>23, <1>24, Zenon

\* Whatever step is done, what is left is in order.
LEMMA TailOrdered ==
  ASSUME NEW td, Ordered(td), Head(td).op # "vcpus"
  PROVE  /\ Ordered(Tail(td)) /\ Len(Tail(td)) = Len(td) - 1
         /\ \A i \in 1 .. Len(Tail(td)) : Tail(td)[i] = td[i + 1]
  <1>1. td \in Seq(StepsOf(FrontOps \cup SealOps)) /\ Len(td) \in Nat \ {0} /\ Head(td) = td[1]
    BY DEF Ordered
  <1>2. Len(td) > 1
    BY <1>1 DEF Ordered
  <1>3. PICK t : t = Tail(td)
    BY Zenon
  <1>4. /\ t \in Seq(StepsOf(FrontOps \cup SealOps)) /\ Len(t) = Len(td) - 1
        /\ \A i \in 1 .. Len(t) : t[i] = td[i + 1]
    BY <1>1, <1>3, TailFacts
  <1>5. \A i \in 1 .. Len(t) : i + 1 \in 1 .. Len(td)
    BY <1>1, <1>4
  <1>6. ASSUME NEW i \in 1 .. Len(t) PROVE t[i].op = "vcpus" <=> i = Len(t)
    <2>1. PICK k \in 1 .. Len(td) : k = i + 1
      BY <1>5, Zenon
    <2>2. t[i] = td[k] /\ (td[k].op = "vcpus" <=> k = Len(td))
      BY <1>4, <2>1, Zenon DEF Ordered
    <2>3. QED BY <1>1, <1>4, <2>1, <2>2
  <1>7. ASSUME NEW i \in 1 .. Len(t), NEW j \in 1 .. Len(t), i < j
        PROVE  /\ t[i].op = "filter" => t[j].op = "vcpus"
               /\ t[i].op = "netns" => t[j].op \in {"filter", "vcpus"}
    <2>1. PICK k \in 1 .. Len(td), l \in 1 .. Len(td) : k = i + 1 /\ l = j + 1 /\ k < l
      BY <1>1, <1>4, <1>5, <1>7
    <2>2. t[i] = td[k] /\ t[j] = td[l]
      BY <1>4, <2>1, Zenon
    <2>3. /\ td[k].op = "filter" => td[l].op = "vcpus"
          /\ td[k].op = "netns" => td[l].op \in {"filter", "vcpus"}
      BY <2>1, Zenon DEF Ordered
    <2>4. QED BY <2>2, <2>3, Zenon
  <1>9. ASSUME NEW i \in 1 .. Len(t) - 1, t[i].op = "fork"
        PROVE  t[i + 1] = [op |-> "spawned", arg |-> t[i].arg]
    <2>1. i + 1 \in 1 .. Len(td) - 1 /\ i \in 1 .. Len(t) /\ i + 1 \in 1 .. Len(t)
      BY <1>1, <1>4
    <2>2. t[i] = td[i + 1] /\ t[i + 1] = td[(i + 1) + 1]
      BY <1>4, <2>1, Zenon
    <2>3. QED BY <1>9, <2>1, <2>2, Zenon DEF Ordered
  <1>10. Ordered(t)
    BY <1>1, <1>2, <1>4, <1>6, <1>7, <1>9 DEF Ordered
  <1>11. QED BY <1>3, <1>4, <1>10, Zenon

-----------------------------------------------------------------------------

LEMMA InitStartup == StartupInit => StartupInv
  <1> SUFFICES ASSUME StartupInit PROVE StartupInv
    BY Zenon
  <1>1. setup \in Setups /\ todo = Plan(setup)
    BY Zenon DEF StartupInit, Setups
  <1>2. /\ Ordered(todo) /\ todo[1].op # "spawned" /\ Left("filter")
        /\ Left("netns") <=> Asked("unshare")
    BY <1>1, PlanOrdered, Zenon DEF Left, Asked
  <1>3. Sealing
    <2>1. /\ vmm = "building" /\ made = <<>>
          /\ crew = [t \in {"main"} |-> [net |-> "host", filtered |-> FALSE]]
      BY Zenon DEF StartupInit
    <2>2. /\ DOMAIN crew = {"main"} /\ crew["main"] \in CrewType /\ crew["main"].net = "host"
          /\ DOMAIN made = {}
      BY <2>1 DEF CrewType
    <2>3. QED BY <1>2, <2>1, <2>2, Zenon DEF Sealing, Guests
  <1>4. Slots
    BY DEF StartupInit, Slots, FirstMsiGsi
  <1>5. Children
    BY Zenon DEF StartupInit, Children, DaemonType, Alive
  <1>6. QED BY <1>3, <1>4, <1>5, Zenon DEF StartupInv

\* What is left after a step of main.
LEMMA StepDone ==
  ASSUME Ordered(todo), Head(todo).op # "vcpus", todo' = Tail(todo)
  PROVE  /\ Ordered(todo)'
         /\ \A op : Head(todo).op # op => (Left(op)' <=> Left(op))
         /\ Head(todo).op = "filter" => ~Left("filter")' /\ ~Left("netns")'
         /\ Head(todo).op = "netns" => ~Left("netns")'
         /\ Head(todo).op \in {"netns", "filter"} =>
              \A i \in 1 .. Len(todo') : todo'[i].op \in {"filter", "vcpus"}
  <1>1. PICK t : t = Tail(todo)
    BY Zenon
  <1>2. /\ Ordered(t) /\ Len(t) = Len(todo) - 1 /\ \A i \in 1 .. Len(t) : t[i] = todo[i + 1]
    BY <1>1, TailOrdered, Zenon
  <1>3. Len(todo) \in Nat \ {0} /\ Head(todo) = todo[1]
    BY DEF Ordered
  <1>4. \A i \in 1 .. Len(t) : i + 1 \in 1 .. Len(todo) /\ 1 < i + 1 /\ 1 \in 1 .. Len(todo)
    BY <1>2, <1>3
  <1>5. Head(todo).op = "filter" => \A i \in 1 .. Len(t) : t[i].op = "vcpus"
    BY <1>2, <1>3, <1>4 DEF Ordered
  <1>6. Head(todo).op = "netns" => \A i \in 1 .. Len(t) : t[i].op \in {"filter", "vcpus"}
    BY <1>2, <1>3, <1>4 DEF Ordered
  <1>7. ASSUME NEW op, Head(todo).op # op PROVE Left(op)' <=> Left(op)
    <2>1. ASSUME Left(op)' PROVE Left(op)
      BY <1>1, <1>2, <1>4, <2>1, Zenon DEF Left
    <2>2. ASSUME Left(op) PROVE Left(op)'
      <3>1. PICK i \in 1 .. Len(todo) : todo[i].op = op
        BY <2>2, Zenon DEF Left
      <3>2. PICK j \in 1 .. Len(t) : i = j + 1
        <4>1. i # 1
          BY <1>3, <1>7, <3>1, Zenon
        <4>2. i - 1 \in 1 .. Len(t) /\ i = (i - 1) + 1
          BY <1>2, <1>3, <3>1, <4>1
        <4>3. QED BY <4>2, Zenon
      <3>3. QED BY <1>1, <1>2, <3>1, <3>2, Zenon DEF Left
    <2>3. QED BY <2>1, <2>2, Zenon
  <1>8. QED BY <1>1, <1>2, <1>5, <1>6, <1>7, Zenon DEF Left

\* A step that builds: threads and things it makes are main's.
LEMMA BuildSealing ==
  ASSUME Sealing, vmm = "building", UNCHANGED <<vmm, setup>>, todo' = Tail(todo),
         Head(todo).op \notin {"vcpus", "netns", "filter"},
         UNCHANGED crew \/ \E names : names \cap Guests = {} /\ Born(names, "main"),
         UNCHANGED made \/ \E what : Made(what)
  PROVE  Sealing'
  <1>1. /\ Ordered(todo)' /\ (Left("filter")' <=> Left("filter"))
        /\ (Left("netns")' <=> Left("netns")) /\ (Asked("unshare")' <=> Asked("unshare"))
    BY StepDone, Zenon DEF Sealing, Asked
  <1>2. 1 \in 1 .. Len(todo) /\ Head(todo) = todo[1]
    BY DEF Sealing, Ordered
  <1>3. ~(Asked("unshare") /\ ~Left("netns"))
    BY <1>2, Zenon DEF Sealing
  <1>4. crew["main"].net = "host" /\ "main" \in DOMAIN crew /\ crew["main"] \in CrewType
    BY <1>3, Zenon DEF Sealing
  <1>5. \A w \in DOMAIN made' : made'[w] = "host"
    <2>1. \A w \in DOMAIN made : made[w] = "host"
      BY Zenon DEF Sealing
    <2>2. CASE UNCHANGED made
      BY <2>1, <2>2, Zenon
    <2>3. CASE \E what : Made(what)
      BY <1>4, <2>1, <2>3, Zenon DEF Made
    <2>4. QED BY <2>2, <2>3, Zenon
  <1>6. /\ "main" \in DOMAIN crew' /\ crew'["main"] = crew["main"] /\ DOMAIN crew' \cap Guests = {}
        /\ \A t \in DOMAIN crew' : (t \in DOMAIN crew /\ crew'[t] = crew[t]) \/ crew'[t] = crew["main"]
    <2>1. CASE UNCHANGED crew
      BY <1>4, <2>1, Zenon DEF Sealing
    <2>2. CASE \E names : names \cap Guests = {} /\ Born(names, "main")
      BY <1>4, <2>2, Zenon DEF Sealing, Born
    <2>3. QED BY <2>1, <2>2, Zenon
  <1>7. \A t \in DOMAIN crew' : crew'[t] \in CrewType
    BY <1>4, <1>6, Zenon DEF Sealing
  <1>8. ~Left("filter")' => \A t \in DOMAIN crew' : crew'[t].filtered = (setup.filter # "off")
    BY <1>1, <1>4, <1>6, Zenon DEF Sealing
  <1>9. QED BY <1>1, <1>3, <1>4, <1>5, <1>6, <1>7, <1>8, Zenon DEF Sealing

LEMMA NetworkSealing == ASSUME Sealing, enter_network_namespace PROVE Sealing'
  <1>1. /\ vmm = "building" /\ UNCHANGED <<vmm, setup, made>> /\ todo' = Tail(todo)
        /\ Head(todo).op = "netns" /\ crew' = [crew EXCEPT !["main"].net = "own"]
    BY Zenon DEF enter_network_namespace, At, Go, isoVars
  <1>2. /\ Ordered(todo)' /\ (Left("filter")' <=> Left("filter")) /\ ~Left("netns")'
        /\ \A i \in 1 .. Len(todo') : todo'[i].op \in {"filter", "vcpus"}
    BY <1>1, StepDone, Zenon DEF Sealing
  <1>3. Left("netns")
    BY <1>1 DEF Sealing, Ordered, Left
  <1>4. Asked("unshare") /\ (Asked("unshare")' <=> Asked("unshare"))
    BY <1>1, <1>3, Zenon DEF Sealing, Asked
  <1>5. /\ DOMAIN crew' = DOMAIN crew /\ crew'["main"].net = "own" /\ "main" \in DOMAIN crew
        /\ \A t \in DOMAIN crew : crew'[t] \in CrewType /\ crew'[t].filtered = crew[t].filtered
    BY <1>1, Zenon DEF Sealing, CrewType
  <1>6. QED BY <1>1, <1>2, <1>4, <1>5 DEF Sealing

LEMMA FilterSealing == ASSUME Sealing, apply_baseline PROVE Sealing'
  <1>1. /\ vmm = "building" /\ UNCHANGED <<vmm, setup, made>> /\ todo' = Tail(todo)
        /\ Head(todo).op = "filter"
        /\ crew' = [t \in DOMAIN crew |-> [crew[t] EXCEPT !.filtered = setup.filter # "off"]]
    BY Zenon DEF apply_baseline, At, Go, isoVars, FilterAll
  <1>2. /\ Ordered(todo)' /\ ~Left("netns")' /\ (Left("netns")' <=> Left("netns"))
        /\ \A i \in 1 .. Len(todo') : todo'[i].op \in {"filter", "vcpus"}
    BY <1>1, StepDone, Zenon DEF Sealing
  <1>3. Asked("unshare")' <=> Asked("unshare")
    BY <1>1, Zenon DEF Asked
  <1>4. /\ DOMAIN crew' = DOMAIN crew /\ crew'["main"].net = crew["main"].net
        /\ \A t \in DOMAIN crew : crew'[t] \in CrewType /\ crew'[t].filtered = (setup.filter # "off")
    BY <1>1, Zenon DEF Sealing, CrewType
  <1>5. QED BY <1>1, <1>2, <1>3, <1>4 DEF Sealing

LEMMA VcpuSealing == ASSUME Sealing, StartVcpus PROVE Sealing'
  <1>1. /\ vmm = "building" /\ vmm' = "running" /\ UNCHANGED <<setup, made>>
        /\ Head(todo).op = "vcpus" /\ Born({"vcpu", "watcher"}, "main")
    BY Zenon DEF StartVcpus, At, isoVars
  <1>2. Len(todo) = 1 /\ todo[1].op = "vcpus"
    <2>1. Ordered(todo)
      BY <1>1, Zenon DEF Sealing
    <2>2. Head(todo) = todo[1] /\ 1 \in 1 .. Len(todo)
      BY <2>1 DEF Ordered
    <2>3. QED BY <1>1, <2>1, <2>2, Zenon DEF Ordered
  <1>3. ~Left("netns") /\ ~Left("filter")
    BY <1>2 DEF Left
  <1>4. Asked("unshare")' <=> Asked("unshare")
    BY <1>1, Zenon DEF Asked
  <1>5. /\ "main" \in DOMAIN crew /\ DOMAIN crew' = DOMAIN crew \cup {"vcpu", "watcher"}
        /\ \A t \in DOMAIN crew : crew'[t] = crew[t]
        /\ DOMAIN crew \cap Guests = {}
        /\ crew'["vcpu"] = crew["main"] /\ crew'["watcher"] = crew["main"]
    BY <1>1, Zenon DEF Sealing, Born, Guests
  <1>6. /\ crew["main"].net = IF Asked("unshare") THEN "own" ELSE "host"
        /\ crew["main"] \in CrewType
        /\ \A t \in DOMAIN crew : crew[t].filtered = (setup.filter # "off")
    BY <1>1, <1>3, Zenon DEF Sealing
  <1>7. QED BY <1>1, <1>4, <1>5, <1>6 DEF Sealing, Guests

LEMMA WorkerSealing == ASSUME Sealing, ActivateFromGuest PROVE Sealing'
  <1>1. /\ vmm = "running" /\ UNCHANGED <<vmm, setup, made>>
        /\ Born({"worker"}, "vcpu") /\ "worker" \notin DOMAIN crew
    BY Zenon DEF ActivateFromGuest, isoVars
  <1>2. Asked("unshare")' <=> Asked("unshare")
    BY <1>1, Zenon DEF Asked
  <1>3. /\ "vcpu" \in DOMAIN crew /\ DOMAIN crew' = DOMAIN crew \cup {"worker"}
        /\ \A t \in DOMAIN crew : crew'[t] = crew[t]
        /\ crew'["worker"] = crew["vcpu"]
    BY <1>1, Zenon DEF Sealing, Born
  <1>4. QED BY <1>1, <1>2, <1>3 DEF Sealing, Guests

\* The process ends, and its threads with it.
LEMMA EndSealing ==
  ASSUME Sealing, vmm' \in {"failed", "killed"}, crew' = <<>>, UNCHANGED made
  PROVE  Sealing'
  <1>1. DOMAIN crew' = {} /\ vmm' # "building" /\ vmm' # "running"
    OBVIOUS
  <1>2. \A w \in DOMAIN made' : made'[w] = "host"
    BY Zenon DEF Sealing
  <1>3. QED BY <1>1, <1>2, Zenon DEF Sealing

\* Nothing of main's happens.
LEMMA IdleSealing ==
  ASSUME Sealing, UNCHANGED <<setup, todo, crew, made, vmm>>
  PROVE  Sealing'
  BY Zenon DEF Sealing, Asked, Left

LEMMA SealingStep == ASSUME Sealing, [StartupNext]_startVars PROVE Sealing'
  <1>1. CASE enter_user_namespace
    BY <1>1, BuildSealing, Zenon DEF enter_user_namespace, At, Go
  <1>2. CASE check_renderer
    BY <1>2, BuildSealing, Zenon DEF check_renderer, At, Go, isoVars
  <1>3. CASE CreateVm
    <2>1. {"prefault"} \cap Guests = {}
      BY Zenon DEF Guests
    <2>2. QED BY <1>3, <2>1, BuildSealing, Zenon DEF CreateVm, At, Go, isoVars
  <1>4. CASE AddDevice
    <2>1. \A kind : Starts(kind) \cap Guests = {}
      BY Zenon DEF Starts, Guests
    <2>2. /\ vmm = "building" /\ UNCHANGED <<vmm, setup>> /\ todo' = Tail(todo)
          /\ Head(todo).op = "add" /\ Born(Starts(Head(todo).arg), "main")
          /\ UNCHANGED made \/ Made("tap")
      BY <1>4, Zenon DEF AddDevice, At, Go
    <2>3. QED BY <2>1, <2>2, BuildSealing, Zenon
  <1>5. ASSUME NEW name \in {"stats", "control"}, Serve(name) PROVE Sealing'
    <2>1. {name} \cap Guests = {}
      BY <1>5, Zenon DEF Guests
    <2>2. QED BY <1>5, <2>1, BuildSealing, Zenon DEF Serve, At, Go
  <1>6. CASE Fork
    BY <1>6, BuildSealing, Zenon DEF Fork, At, Go
  <1>7. CASE Spawned
    BY <1>7, BuildSealing, Zenon DEF Spawned, At, Go, isoVars
  <1>8. CASE wait_for_socket
    <2>1. /\ vmm = "building" /\ Head(todo).op = "wait"
          /\ UNCHANGED <<vmm, setup, crew, made>> /\ todo' \in {todo, Tail(todo)}
      BY <1>8, Zenon DEF wait_for_socket, At, Go, isoVars
    <2>2. QED BY <2>1, BuildSealing, IdleSealing, Zenon
  <1>9. CASE InstallSignalHandlers
    BY <1>9, BuildSealing, Zenon DEF InstallSignalHandlers, At, Go, isoVars
  <1>10. CASE enter_network_namespace \/ apply_baseline \/ StartVcpus \/ ActivateFromGuest
    BY <1>10, NetworkSealing, FilterSealing, VcpuSealing, WorkerSealing, Zenon
  <1>11. CASE BootFails \/ Killed
    BY <1>11, EndSealing, Zenon DEF BootFails, Killed, isoVars
  <1>12. CASE \E n \in 1 .. MaxShares : ChildStep(n)
    BY <1>12, IdleSealing, Zenon DEF ChildStep, isoVars
  <1>13. CASE UNCHANGED startVars
    BY <1>13, IdleSealing, Zenon DEF startVars
  <1>14. QED BY <1>1, <1>2, <1>3, <1>4, <1>5, <1>6, <1>7, <1>8, <1>9, <1>10, <1>11, <1>12,
                <1>13, Zenon DEF StartupNext, MainThread

LEMMA ElementType ==
  ASSUME Slots, NEW i \in 1 .. Len(bus_slots)
  PROVE  bus_slots[i].msi \subseteq Nat
  <1>1. PICK D : D = [kind : Kinds \cup Nat, intx : Nat, msi : SUBSET Nat]
    BY Zenon
  <1>2. bus_slots \in Seq(D)
    BY <1>1, Zenon DEF Slots
  <1>a. bus_slots[i] \in D
    BY <1>2
  <1>3. QED BY <1>1, <1>a, Zenon

LEMMA SlotsStep ==
  ASSUME Slots, Sealing, [StartupNext]_startVars
  PROVE  Slots'
  <1>1. CASE UNCHANGED busVars
    BY <1>1, Zenon DEF Slots, busVars
  <1>2. CASE AddDevice
    <2>1. PICK kind : kind = Head(todo).arg
      BY Zenon
    <2>2. kind \in Kinds \cup Nat
      <3>1. Ordered(todo)
        BY <1>2, Zenon DEF AddDevice, At, Sealing
      <3>2. Head(todo) \in StepsOf(FrontOps \cup SealOps)
        BY <3>1 DEF Ordered
      <3>3. QED BY <2>1, <3>2, Zenon DEF StepsOf
    <2>3. PICK v \in Nat : v = msix_vectors(kind)
      BY Zenon DEF msix_vectors
    <2>4. PICK dev : dev = [kind |-> kind, intx |-> slot_gsi(next_slot),
                            msi |-> next_gsi .. next_gsi + v - 1]
      BY Zenon
    <2>5. /\ bus_slots' = Append(bus_slots, dev) /\ next_gsi' = next_gsi + v
          /\ next_slot' = next_slot + 1
      BY <1>2, <2>1, <2>3, <2>4, Zenon DEF AddDevice, add_device_arc
    <2>6. /\ bus_slots \in Seq([kind : Kinds \cup Nat, intx : Nat, msi : SUBSET Nat])
          /\ next_gsi \in Nat /\ next_slot = Len(bus_slots) + 1 /\ Len(bus_slots) \in Nat
          /\ next_gsi >= FirstMsiGsi
      BY DEF Slots
    <2>7. dev \in [kind : Kinds \cup Nat, intx : Nat, msi : SUBSET Nat]
      <3>1. slot_gsi(next_slot) \in Nat
        BY Zenon DEF slot_gsi
      <3>2. next_gsi .. next_gsi + v - 1 \subseteq Nat
        BY <2>6
      <3>3. QED BY <2>2, <2>4, <3>1, <3>2, Zenon
    <2>8. PICK D : D = [kind : Kinds \cup Nat, intx : Nat, msi : SUBSET Nat]
      BY Zenon
    <2>9. /\ bus_slots' \in Seq(D) /\ Len(bus_slots') = Len(bus_slots) + 1
          /\ \A i \in 1 .. Len(bus_slots) : bus_slots'[i] = bus_slots[i]
          /\ bus_slots'[Len(bus_slots) + 1] = dev
      BY <2>5, <2>6, <2>7, <2>8, Appended
    <2>10. ASSUME NEW i \in 1 .. Len(bus_slots')
           PROVE  /\ bus_slots'[i].intx = slot_gsi(i)
                  /\ \A g \in bus_slots'[i].msi : g >= FirstMsiGsi /\ g < next_gsi'
      <3>1. CASE i \in 1 .. Len(bus_slots)
        <4>1. /\ bus_slots[i].intx = slot_gsi(i) /\ bus_slots[i].msi \subseteq Nat
              /\ \A g \in bus_slots[i].msi : g >= FirstMsiGsi /\ g < next_gsi
          BY <3>1, ElementType, Zenon DEF Slots
        <4>2. QED BY <2>5, <2>6, <2>9, <3>1, <4>1
      <3>2. CASE i = Len(bus_slots) + 1
        <4>1. bus_slots'[i].intx = slot_gsi(i)
          BY <2>4, <2>6, <2>9, <3>2
        <4>2. bus_slots'[i].msi = next_gsi .. next_gsi + v - 1
          BY <2>4, <2>9, <3>2
        <4>3. QED BY <2>5, <2>6, <4>1, <4>2 DEF FirstMsiGsi
      <3>3. QED BY <2>6, <2>9, <3>1, <3>2
    <2>11. ASSUME NEW i \in 1 .. Len(bus_slots'), NEW j \in 1 .. Len(bus_slots'), i < j
           PROVE  bus_slots'[i].msi \cap bus_slots'[j].msi = {}
      <3>1. i \in 1 .. Len(bus_slots) /\ bus_slots'[i] = bus_slots[i]
        BY <2>6, <2>9, <2>11
      <3>2. CASE j \in 1 .. Len(bus_slots)
        <4>1. bus_slots'[j] = bus_slots[j] /\ i # j
          BY <2>9, <2>11, <3>2
        <4>2. QED BY <3>1, <3>2, <4>1, Zenon DEF Slots
      <3>3. CASE j = Len(bus_slots) + 1
        <4>1. bus_slots'[j].msi = next_gsi .. next_gsi + v - 1
          BY <2>4, <2>9, <3>3
        <4>2. bus_slots[i].msi \subseteq Nat /\ \A g \in bus_slots[i].msi : g < next_gsi
          BY <3>1, ElementType, Zenon DEF Slots
        <4>3. QED BY <2>6, <3>1, <4>1, <4>2
      <3>4. QED BY <2>6, <2>9, <3>2, <3>3
    <2>12. \A i, j \in 1 .. Len(bus_slots') : i # j => bus_slots'[i].msi \cap bus_slots'[j].msi = {}
      <3> TAKE i \in 1 .. Len(bus_slots'), j \in 1 .. Len(bus_slots')
      <3>1. i # j => i < j \/ j < i
        BY <2>6, <2>9
      <3>2. QED BY <2>11, <3>1, Zenon
    <2>13. next_gsi' \in Nat /\ next_gsi' >= FirstMsiGsi /\ next_slot' = Len(bus_slots') + 1
      BY <2>5, <2>6, <2>9 DEF FirstMsiGsi
    <2>14. \A i : slot_gsi(i)' = slot_gsi(i)
      BY Zenon DEF slot_gsi
    <2>15. QED BY <2>8, <2>9, <2>10, <2>12, <2>13, <2>14, Zenon DEF Slots
  <1>3. [StartupNext]_startVars => AddDevice \/ UNCHANGED busVars
    BY Zenon DEF StartupNext, MainThread, enter_user_namespace, check_renderer, CreateVm, Serve, Fork,
           Spawned, wait_for_socket, InstallSignalHandlers, enter_network_namespace,
           apply_baseline, StartVcpus, BootFails, Killed, ActivateFromGuest, ChildStep,
           startVars, busVars
  <1>4. QED BY <1>1, <1>2, <1>3, Zenon

\* A step of main that neither forks nor takes a child.
LEMMA IdleChildren ==
  ASSUME Children, UNCHANGED <<daemon, held>>,
         \/ UNCHANGED <<vmm, todo>>
         \/ vmm = "building" /\ vmm' \in {"building", "running"} /\ Head(todo).op # "spawned"
  PROVE  Children'
  <1>1. \A n \in 1 .. MaxShares : Alive(n)' <=> Alive(n)
    BY Zenon DEF Alive
  <1>2. CASE UNCHANGED <<vmm, todo>>
    BY <1>1, <1>2, Zenon DEF Children
  <1>3. CASE vmm = "building" /\ vmm' \in {"building", "running"} /\ Head(todo).op # "spawned"
    <2>1. \A n \in 1 .. MaxShares : Alive(n) => n \in held
      BY <1>3 DEF Children
    <2>2. QED BY <1>1, <1>3, <2>1, Zenon DEF Children
  <1>4. QED BY <1>2, <1>3, Zenon

LEMMA ForkChildren == ASSUME Children, Sealing, Fork PROVE Children'
  <1>0. PICK m : m = Head(todo).arg
    BY Zenon
  <1>1. /\ vmm = "building" /\ vmm' = vmm /\ Head(todo).op = "fork" /\ todo' = Tail(todo)
        /\ daemon' = [daemon EXCEPT ![m].at = "forked"] /\ held' = held
    BY <1>0, Zenon DEF Fork, At, Go
  <1>2. Head(todo') = [op |-> "spawned", arg |-> m]
    <2>1. Ordered(todo)
      BY <1>1, Zenon DEF Sealing
    <2>2. Len(todo) \in Nat /\ Len(todo) > 0 /\ Head(todo) = todo[1]
      BY <2>1 DEF Ordered
    <2>3. Len(todo) > 1
      <3>1. 1 \in 1 .. Len(todo)
        BY <2>2
      <3>2. todo[1].op = "vcpus" <=> 1 = Len(todo)
        BY <2>1, <3>1, Zenon DEF Ordered
      <3>3. todo[1].op = "fork"
        BY <1>1, <2>2, Zenon
      <3>4. Len(todo) # 1
        BY <3>2, <3>3, Zenon
      <3>5. PICK k : k = Len(todo)
        BY Zenon
      <3>6. k \in Nat /\ k > 0 /\ k # 1
        BY <2>2, <3>4, <3>5, Zenon
      <3>7. k > 1
        BY <3>6
      <3>8. QED BY <3>5, <3>7, Zenon
    <2>4. todo[2] = [op |-> "spawned", arg |-> m]
      <3>1. 1 \in 1 .. Len(todo) - 1 /\ 1 + 1 = 2
        BY <2>2, <2>3
      <3>2. todo[1].op = "fork" => todo[1 + 1] = [op |-> "spawned", arg |-> todo[1].arg]
        BY <2>1, <3>1, Zenon DEF Ordered
      <3>3. todo[1].op = "fork" /\ todo[1].arg = m
        BY <1>0, <1>1, <2>2, Zenon
      <3>4. QED BY <3>1, <3>2, <3>3, Zenon
    <2>5. Ordered(todo') /\ Len(todo') = Len(todo) - 1 /\ \A i \in 1 .. Len(todo') : todo'[i] = todo[i + 1]
      BY <1>1, <2>1, TailOrdered, Zenon
    <2>6. Head(todo') = todo'[1]
      BY <2>5 DEF Ordered
    <2>7. 1 \in 1 .. Len(todo')
      BY <2>2, <2>3, <2>5
    <2>8. todo'[1] = todo[2]
      BY <2>5, <2>7
    <2>9. QED BY <2>4, <2>6, <2>8, Zenon
  <1>3. /\ daemon' \in [1 .. MaxShares -> DaemonType]
        /\ \A n \in 1 .. MaxShares : daemon'[n].at = "forked" \/ daemon'[n] = daemon[n]
        /\ \A n \in 1 .. MaxShares : n = m \/ daemon'[n] = daemon[n]
    BY <1>1, ZenonT(40) DEF Children, DaemonType
  <1>4. \A n \in 1 .. MaxShares : Alive(n) => n \in held
    BY <1>1 DEF Children
  <1>5. ASSUME NEW n \in 1 .. MaxShares, Alive(n)'
        PROVE  n \in held' \/ Head(todo') = [op |-> "spawned", arg |-> n]
    BY <1>1, <1>2, <1>3, <1>4, <1>5, Zenon DEF Alive
  <1>6. QED BY <1>1, <1>3, <1>5, Zenon DEF Children

LEMMA SpawnedChildren == ASSUME Children, Spawned PROVE Children'
  <1>1. /\ vmm = "building" /\ vmm' = vmm /\ daemon' = daemon
        /\ held' = held \cup {Head(todo).arg}
    BY Zenon DEF Spawned, At, Go
  <1>2. \A n \in 1 .. MaxShares : (Alive(n)' <=> Alive(n)) /\ (Alive(n) => n \in held')
    BY <1>1 DEF Children, Alive
  <1>3. QED BY <1>1, <1>2, Zenon DEF Children

LEMMA FailChildren == ASSUME Children, BootFails PROVE Children'
  <1>1. /\ vmm = "building" /\ vmm' = "failed" /\ (At("spawned") => daemon[Head(todo).arg].at = "dead")
        /\ daemon' = [n \in DOMAIN daemon |->
                        IF n \in held THEN [daemon[n] EXCEPT !.at = "dead"] ELSE daemon[n]]
    BY Zenon DEF BootFails
  <1>2. daemon' \in [1 .. MaxShares -> DaemonType]
    BY <1>1 DEF Children, DaemonType
  <1>3. ASSUME NEW n \in 1 .. MaxShares PROVE ~Alive(n)'
    <2>1. CASE n \in held
      BY <1>1, <2>1, Zenon DEF Children, Alive, DaemonType
    <2>2. CASE n \notin held
      <3>1. daemon'[n] = daemon[n]
        BY <1>1, <2>2, Zenon DEF Children
      <3>2. ~Alive(n)
        BY <1>1, <2>2 DEF Children, Alive, At
      <3>3. QED BY <3>1, <3>2, Zenon DEF Alive
    <2>3. QED BY <2>1, <2>2, Zenon
  <1>4. QED BY <1>1, <1>2, <1>3, Zenon DEF Children

LEMMA KilledChildren == ASSUME Children, Killed PROVE Children'
  <1>1. /\ vmm \in {"building", "running"} /\ vmm' = "killed"
        /\ daemon' = [n \in DOMAIN daemon |->
                        [daemon[n] EXCEPT !.told = daemon[n].armed /\ Alive(n)]]
    BY Zenon DEF Killed
  <1>2. daemon' \in [1 .. MaxShares -> DaemonType]
    <2>1. \A n \in 1 .. MaxShares : (daemon[n].armed /\ Alive(n)) \in BOOLEAN
      BY Zenon
    <2>2. \A n \in 1 .. MaxShares : \A told \in BOOLEAN :
            [daemon[n] EXCEPT !.told = told] \in DaemonType
      BY DEF Children, DaemonType
    <2>3. DOMAIN daemon = 1 .. MaxShares
      BY Zenon DEF Children
    <2>4. QED BY <1>1, <2>1, <2>2, <2>3, Zenon
  <1>3. ASSUME NEW n \in 1 .. MaxShares, daemon'[n].at \in {"serving", "listening"}
        PROVE  daemon'[n].told
    <2>1. daemon'[n].at = daemon[n].at /\ daemon'[n].told = (daemon[n].armed /\ Alive(n))
      BY <1>1, Zenon DEF Children, DaemonType
    <2>2. QED BY <1>1, <1>3, <2>1, Zenon DEF Children, Alive
  <1>4. QED BY <1>1, <1>2, <1>3, Zenon DEF Children

LEMMA ChildChildren ==
  ASSUME Children, NEW m \in 1 .. MaxShares, ChildStep(m)
  PROVE  Children'
  <1>1. /\ UNCHANGED <<vmm, todo, held>>
        /\ pre_exec(m) \/ DaemonRuns(m)
    BY Zenon DEF ChildStep
  <1>2. daemon \in [1 .. MaxShares -> DaemonType]
    BY Zenon DEF Children
  <1>3. PICK d :
          /\ daemon' = [daemon EXCEPT ![m] = d] /\ d \in DaemonType
          /\ Alive(m) /\ d.told = daemon[m].told
          /\ daemon[m].armed => d.armed
          /\ \/ d.at = "hooked" /\ d.armed
             \/ d.at = "dead"
             \/ d.at = "serving" /\ daemon[m].at = "hooked" /\ ParentThere
             \/ d.at = "listening" /\ daemon[m].at = "serving"
    <2>1. CASE /\ daemon' = [daemon EXCEPT ![m].armed = TRUE, ![m].at = "hooked"]
               /\ daemon[m].at = "forked"
      <3>1. daemon' = [daemon EXCEPT ![m] = [daemon[m] EXCEPT !.armed = TRUE, !.at = "hooked"]]
        BY <1>2, <2>1, Zenon
      <3>2. QED BY <1>2, <2>1, <3>1 DEF DaemonType, Alive
    <2>2. CASE \E a \in {"dead", "serving", "listening"} :
                 /\ daemon' = [daemon EXCEPT ![m].at = a] /\ Alive(m)
                 /\ a = "serving" => daemon[m].at = "hooked" /\ ParentThere
                 /\ a = "listening" => daemon[m].at = "serving"
      <3>1. PICK a \in {"dead", "serving", "listening"} :
                 /\ daemon' = [daemon EXCEPT ![m].at = a] /\ Alive(m)
                 /\ a = "serving" => daemon[m].at = "hooked" /\ ParentThere
                 /\ a = "listening" => daemon[m].at = "serving"
        BY <2>2, Zenon
      <3>2. daemon' = [daemon EXCEPT ![m] = [daemon[m] EXCEPT !.at = a]]
        BY <1>2, <3>1, Zenon
      <3>3. PICK r : r = [daemon[m] EXCEPT !.at = a]
        BY Zenon
      <3>4. r \in DaemonType /\ r.at = a /\ r.told = daemon[m].told /\ r.armed = daemon[m].armed
        BY <1>2, <3>1, <3>3, Zenon DEF DaemonType
      <3>5. QED BY <3>1, <3>2, <3>3, <3>4, Zenon
    <2>3. QED BY <1>1, <2>1, <2>2, Zenon DEF pre_exec, DaemonRuns, Alive
  <1>4. /\ daemon' \in [1 .. MaxShares -> DaemonType] /\ daemon'[m] = d
        /\ \A n \in 1 .. MaxShares : n # m => daemon'[n] = daemon[n]
    BY <1>2, <1>3, Zenon
  <1>5. \A n \in 1 .. MaxShares : Alive(n)' => Alive(n)
    BY <1>3, <1>4, Zenon DEF Alive
  <1>6. ASSUME vmm \in {"building", "running"}, NEW n \in 1 .. MaxShares,
               daemon'[n].at \in {"hooked", "serving", "listening"}
        PROVE  daemon'[n].armed
    BY <1>3, <1>4, <1>6, Zenon DEF Children
  <1>7. ASSUME vmm = "killed", NEW n \in 1 .. MaxShares, daemon'[n].at \in {"serving", "listening"}
        PROVE  daemon'[n].told
    BY <1>3, <1>4, <1>7, Zenon DEF Children, ParentThere
  <1>8. QED BY <1>1, <1>4, <1>5, <1>6, <1>7, Zenon DEF Children

LEMMA ChildrenStep == ASSUME Children, Sealing, [StartupNext]_startVars PROVE Children'
  <1>1. CASE Fork \/ Spawned \/ BootFails \/ Killed
    BY <1>1, ForkChildren, SpawnedChildren, FailChildren, KilledChildren, Zenon
  <1>2. CASE \E n \in 1 .. MaxShares : ChildStep(n)
    BY <1>2, ChildChildren, Zenon
  <1>3. CASE wait_for_socket \/ AddDevice \/ Serve("stats") \/ Serve("control") \/ StartVcpus
    BY <1>3, IdleChildren, Zenon DEF wait_for_socket, AddDevice, Serve, StartVcpus, At, Go, procVars
  <1>4. CASE enter_user_namespace \/ check_renderer \/ CreateVm \/ InstallSignalHandlers
               \/ enter_network_namespace \/ apply_baseline
    BY <1>4, IdleChildren, Zenon DEF enter_user_namespace, check_renderer, CreateVm,
          InstallSignalHandlers, enter_network_namespace, apply_baseline, At, Go, procVars
  <1>5. CASE ActivateFromGuest \/ UNCHANGED startVars
    BY <1>5, IdleChildren, Zenon DEF ActivateFromGuest, procVars, startVars
  <1>6. QED BY <1>1, <1>2, <1>3, <1>4, <1>5, Zenon DEF StartupNext, MainThread

-----------------------------------------------------------------------------

LEMMA StartupInductive == StartupSpec => []StartupInv
  <1>1. StartupInit => StartupInv
    BY InitStartup, Zenon
  <1>2. StartupInv /\ [StartupNext]_startVars => StartupInv'
    BY SealingStep, SlotsStep, ChildrenStep, Zenon DEF StartupInv
  <1>3. QED BY <1>1, <1>2, PTL DEF StartupSpec

\* Every thread of a process whose guest runs is filtered as asked, and off the
\* host's network if asked, with the tap and sockets still on it: the order of
\* main (enter_network_namespace, apply_baseline).
THEOREM GuestStartsSealed == StartupSpec => []SealedBeforeGuest
  <1>1. StartupInv => SealedBeforeGuest
    BY Zenon DEF StartupInv, Sealing, SealedBeforeGuest, Guests
  <1>2. QED BY <1>1, StartupInductive, PTL

\* Every device's INTx line is the one ACPI publishes for its slot, and no two
\* share an MSI (main's next_slot, IrqManager::alloc).
THEOREM InterruptsFollowSlots == StartupSpec => []IntxFollowsSlot
  <1>1. StartupInv => IntxFollowsSlot
    <2> SUFFICES ASSUME Slots PROVE IntxFollowsSlot
      BY Zenon DEF StartupInv
    <2>1. DOMAIN bus_slots = 1 .. Len(bus_slots)
      BY DEF Slots
    <2>2. QED BY <2>1, Zenon DEF Slots, IntxFollowsSlot
  <1>2. QED BY <1>1, StartupInductive, PTL

\* No virtiofsd is left by a boot that failed, or untold by a kill, however many
\* directories are shared and wherever it falls (Virtiofsd::spawn and Drop).
THEOREM NoChildLeft == StartupSpec => []DaemonsEndWithUs
  <1>1. StartupInv => DaemonsEndWithUs
    BY Zenon DEF StartupInv, Children, DaemonsEndWithUs
  <1>2. QED BY <1>1, StartupInductive, PTL
-----------------------------------------------------------------------------
(***************************************************************************)
(* What run() leaves of the host and gives the box, for every job, every   *)
(* layout of the host's mounts and whichever call fails.                   *)
(***************************************************************************)

Entered == {"setgroups", "setgid", "setuid", "verify", "exec", "nesbox"}
Built == Entered \cup {"chroot", "chdir"}
Apart == Built \cup {"tmpfs", "overlay", "bind"}
Steps == Apart \cup {"check", "unshare", "dry", "failed"}

Mount == [at : Seq(STRING) \cup {Proc, Sys}, rec : BOOLEAN]

CredType == [root : {"host", "jail"}, inside : BOOLEAN, uid : Nat, gid : Nat,
             groups : SUBSET Nat, nnp : BOOLEAN]

\* A mount point made on the host's own filesystem below an earlier bind.
BelowBind(p) ==
  \E i, k \in DOMAIN Binds(job) :
    /\ i < k /\ Binds(job)[k].at = p /\ Under(Binds(job)[i].at, p)
    /\ ~HasEntry(Binds(job)[i], p)

JailTypes ==
  /\ job \in Jobs /\ mode \in [Nodes -> Modes] /\ step \in Steps
  /\ bound \in Nat /\ cred \in CredType

\* The mounts there are, are the first binds, in order.
Bound ==
  step # "failed" =>
    /\ bound <= Len(Binds(job)) /\ DOMAIN mounts = 1 .. bound
    /\ mounts \in Seq(Mount)
    /\ \A i \in 1 .. bound : mounts[i] = Binds(job)[i]
    /\ step \in Built => bound = Len(Binds(job))

Untouched ==
  /\ leaked = {}
  /\ step \in Apart => space = [own |-> TRUE, private |-> TRUE]
  /\ DOMAIN written = {"overlay", "host"}
  /\ step \in {"check", "dry", "unshare", "tmpfs"} => written.host = {}
  /\ \A p \in written.host : p = job.scratch \/ BelowBind(p)

Identity ==
  /\ step \notin {"check", "dry", "failed"} => Allowed(job)
  /\ step \in {"chdir"} \cup Entered => cred.root = "jail"
  /\ step \in Entered => cred.inside
  /\ step \in {"exec", "nesbox"} =>
       cred.uid = job.uid /\ cred.gid = job.gid /\ cred.groups = device_groups(job).groups
  /\ step = "nesbox" => cred.nnp

JailInv == JailTypes /\ Bound /\ Untouched /\ Identity

-----------------------------------------------------------------------------
(* Sequences and the greatest of some indices *)

LEMMA LeastNat == ASSUME NEW T \in SUBSET Nat, T # {} PROVE \E x \in T : \A y \in T : x <= y
  <1>1. \E R : IsWellFoundedOn(R, Nat) /\ \A y, x \in Nat : y < x => <<y, x>> \in R
    <2> DEFINE R == OpToRel(<, Nat)
    <2>1. IsWellFoundedOn(R, Nat)
      BY NatLessThanWellFounded, Zenon
    <2>2. \A y, x \in Nat : y < x => <<y, x>> \in R
      BY Zenon DEF OpToRel
    <2> HIDE DEF R
    <2>3. QED BY <2>1, <2>2, Zenon
  <1>2. PICK R : IsWellFoundedOn(R, Nat) /\ \A y, x \in Nat : y < x => <<y, x>> \in R
    BY <1>1, Zenon
  <1>3. PICK x \in T : \A y \in T : ~ (<<y, x>> \in R)
    <2>1. IsWellFoundedOn(R, Nat) /\ T \subseteq Nat
      BY <1>2, Zenon
    <2>2. QED BY <2>1, WFMin, Zenon
  <1>4. \A y \in T : y \in Nat
    BY Zenon
  <1>5. ASSUME NEW y \in T PROVE x <= y
    <2>1. ~(y < x)
      BY <1>2, <1>3, <1>4, Zenon
    <2>2. QED BY <1>4, <2>1
  <1>6. QED BY <1>5, Zenon

LEMMA GreatestIndex ==
  ASSUME NEW n \in Nat, NEW A \in SUBSET (1 .. n), A # {}
  PROVE  \E i \in A : \A k \in A : k <= i
  <1>1. PICK T : T = {d \in Nat : n - d \in A}
    BY Zenon
  <1>2. \A k \in A : k \in 1 .. n /\ n - k \in T
    <2> TAKE k \in A
    <2>1. k \in 1 .. n
      BY Zenon
    <2>2. n - k \in Nat /\ n - (n - k) = k
      BY <2>1
    <2>3. QED BY <1>1, <2>1, <2>2, Zenon
  <1>3. T \in SUBSET Nat /\ T # {}
    BY <1>1, <1>2, Zenon
  <1>4. PICK d \in T : \A e \in T : d <= e
    BY <1>3, LeastNat, Zenon
  <1>5. n - d \in A /\ d \in Nat
    BY <1>1, <1>4, Zenon
  <1>6. \A k \in A : k <= n - d
    <2> TAKE k \in A
    <2>1. d <= n - k /\ k \in 1 .. n
      BY <1>2, <1>4, Zenon
    <2>2. QED BY <1>5, <2>1
  <1>7. QED BY <1>5, <1>6, Zenon

LEMMA SelfPrefix == ASSUME NEW p \in Seq(STRING) PROVE Under(p, p)
  BY DEF Under

\* /proc and /sys, then the paths of the configuration.
LEMMA BindsFacts ==
  ASSUME NEW j \in Jobs
  PROVE  /\ host_paths(j) \in Seq(Seq(STRING)) /\ Len(host_paths(j)) \in Nat
         /\ Binds(j) \in Seq(Mount) /\ Len(Binds(j)) = Len(host_paths(j)) + 2
         /\ Binds(j)[2] = [at |-> Sys, rec |-> TRUE]
         /\ \A k \in 1 .. Len(host_paths(j)) :
              Binds(j)[k + 2] = [at |-> host_paths(j)[k], rec |-> FALSE]
  <1>1. PICK h : h = host_paths(j) /\ h \in Seq(Seq(STRING))
    BY JobsAssumption, Zenon
  <1>2. PICK n \in Nat : n = Len(h)
    BY <1>1
  <1>3. PICK a : a = <<[at |-> Proc, rec |-> TRUE], [at |-> Sys, rec |-> TRUE]>>
    BY Zenon
  <1>4. PICK b : b = [i \in DOMAIN h |-> [at |-> h[i], rec |-> FALSE]]
    BY Zenon
  <1>5. Binds(j) = a \o b
    BY <1>1, <1>3, <1>4, Zenon DEF Binds
  <1>6. a \in Seq(Mount) /\ Len(a) = 2 /\ a[2] = [at |-> Sys, rec |-> TRUE]
    <2>1. PICK M, m1, m2 : /\ M = Mount /\ m1 = [at |-> Proc, rec |-> TRUE]
                           /\ m2 = [at |-> Sys, rec |-> TRUE]
      BY Zenon
    <2>2. m1 \in M /\ m2 \in M
      BY <2>1, Zenon DEF Mount
    <2>3. a = <<m1, m2>>
      BY <1>3, <2>1, Zenon
    <2>4. a \in Seq(M) /\ Len(a) = 2 /\ a[2] = m2
      BY <2>2, <2>3
    <2>5. QED BY <2>1, <2>4, Zenon
  <1>7. b \in Seq(Mount) /\ Len(b) = n /\ \A i \in 1 .. n : b[i] = [at |-> h[i], rec |-> FALSE]
    <2>1. PICK P : P = Seq(STRING)
      BY Zenon
    <2>2. h \in Seq(P) /\ DOMAIN h = 1 .. n
      BY <1>1, <1>2, <2>1
    <2>3. \A i \in 1 .. n : h[i] \in P
      BY <1>2, <2>2
    <2>4. \A i \in 1 .. n : [at |-> h[i], rec |-> FALSE] \in Mount
      BY <2>1, <2>3, Zenon DEF Mount
    <2>5. PICK M : M = Mount
      BY Zenon
    <2>6. b \in [1 .. n -> M]
      BY <1>4, <2>2, <2>4, <2>5, Zenon
    <2>7. QED BY <1>4, <2>2, <2>5, <2>6
  <1>8. PICK M : M = Mount
    BY Zenon
  <1>9. /\ a \o b \in Seq(M) /\ Len(a \o b) = 2 + n
        /\ \A i \in 1 .. 2 + n : (a \o b)[i] = IF i <= 2 THEN a[i] ELSE b[i - 2]
    <2>1. a \in Seq(M) /\ b \in Seq(M) /\ Len(a) = 2 /\ Len(b) = n
      BY <1>6, <1>7, <1>8, Zenon
    <2>2. /\ a \o b \in Seq(M) /\ Len(a \o b) = Len(a) + Len(b)
          /\ \A i \in 1 .. Len(a) + Len(b) :
               (a \o b)[i] = IF i <= Len(a) THEN a[i] ELSE b[i - Len(a)]
      BY <2>1, Concatenated, Zenon
    <2>3. QED BY <2>1, <2>2, Zenon
  <1>10. (a \o b)[2] = a[2]
    BY <1>9
  <1>11. ASSUME NEW k \in 1 .. n PROVE (a \o b)[k + 2] = b[k]
    <2>1. k + 2 \in 1 .. 2 + n /\ ~(k + 2 <= 2) /\ (k + 2) - 2 = k
      OBVIOUS
    <2>2. QED BY <1>9, <2>1, Zenon
  <1>12. QED BY <1>1, <1>2, <1>5, <1>6, <1>7, <1>8, <1>9, <1>10, <1>11

\* The mount a path is looked up in is the last of those at or above it.
LEMMA CoveringFacts ==
  ASSUME bound \in Nat, DOMAIN mounts = 1 .. bound, NEW p
  PROVE  /\ Covering(p) # 0 =>
              /\ Covering(p) \in 1 .. bound /\ Under(mounts[Covering(p)].at, p)
              /\ \A k \in 1 .. bound : Under(mounts[k].at, p) => k <= Covering(p)
         /\ \A k \in 1 .. bound : Under(mounts[k].at, p) => Covering(p) # 0
  <1>1. PICK A : A = {i \in 1 .. bound : Under(mounts[i].at, p)}
    BY Zenon
  <1>2. Covering(p) = IF A = {} THEN 0 ELSE CHOOSE i \in A : \A k \in A : k <= i
    BY <1>1 DEF Covering
  <1>3. CASE A = {}
    BY <1>1, <1>2, <1>3, Zenon
  <1>4. CASE A # {}
    <2>1. \E i \in A : \A k \in A : k <= i
      BY <1>1, <1>4, GreatestIndex, Zenon
    <2>2. Covering(p) \in A /\ \A k \in A : k <= Covering(p)
      BY <1>2, <1>4, <2>1, Zenon
    <2>3. \A k \in 1 .. bound : Under(mounts[k].at, p) => k \in A
      BY <1>1, Zenon
    <2>4. Covering(p) \in 1 .. bound /\ Under(mounts[Covering(p)].at, p) /\ Covering(p) # 0
      BY <1>1, <2>2
    <2>5. QED BY <2>2, <2>3, <2>4, Zenon
  <1>5. QED BY <1>3, <1>4, Zenon

-----------------------------------------------------------------------------

LEMMA InitJail == JailerInit => JailInv
  <1> SUFFICES ASSUME JailerInit PROVE JailInv
    BY Zenon
  <1>1. JailTypes
    BY DEF JailerInit, JailTypes, CredType, Steps
  <1>2. Bound
    <2>1. Len(Binds(job)) \in Nat
      BY BindsFacts DEF JailerInit
    <2>2. QED BY <2>1 DEF JailerInit, Bound, Built, Entered
  <1>3. Untouched
    BY Zenon DEF JailerInit, Untouched, Apart, Built, Entered
  <1>4. Identity
    BY Zenon DEF JailerInit, Identity, Entered
  <1>5. QED BY <1>1, <1>2, <1>3, <1>4, Zenon DEF JailInv

\* What run() was asked for, and what the host's devices allow, do not change.
LEMMA SameJob ==
  ASSUME UNCHANGED <<job, mode>>
  PROVE  /\ Binds(job)' = Binds(job) /\ device_groups(job)' = device_groups(job)
         /\ Allowed(job)' = Allowed(job) /\ \A p : BelowBind(p)' = BelowBind(p)
  <1>1. Binds(job)' = Binds(job)
    BY Zenon
  <1>2. device_groups(job)' = device_groups(job)
    BY Zenon DEF device_groups
  <1>3. Allowed(job)' = Allowed(job)
    BY <1>2, Zenon DEF Allowed
  <1>4. \A p : BelowBind(p)' = BelowBind(p)
    BY Zenon DEF BelowBind
  <1>5. QED BY <1>1, <1>2, <1>3, <1>4, Zenon

\* A step that leaves the mounts.
LEMMA BoundKept ==
  ASSUME Bound, UNCHANGED <<job, bound, mounts>>, step' # "failed" => step # "failed",
         step' \in Built => step \in Built
  PROVE  Bound'
  BY Zenon DEF Bound

\* One that leaves what is on the host.
LEMMA UntouchedKept ==
  ASSUME Untouched, UNCHANGED <<job, leaked, written>>,
         step' \in Apart => step \in Apart /\ UNCHANGED space,
         step' \in {"check", "dry", "unshare", "tmpfs"} => step \in {"check", "dry", "unshare", "tmpfs"}
  PROVE  Untouched'
  <1>1. \A p : BelowBind(p)' = BelowBind(p)
    BY Zenon DEF BelowBind
  <1>2. QED BY <1>1, Zenon DEF Untouched

LEMMA CheckStep == ASSUME JailInv, Check PROVE JailInv'
  <1>0. /\ JailTypes /\ Bound /\ Untouched /\ Identity /\ step = "check"
        /\ step' \in {"failed", "dry", "unshare"} /\ (step' = "unshare" => Allowed(job))
        /\ UNCHANGED <<job, mode, bound, space, mounts, leaked, written, cred>>
    BY Zenon DEF JailInv, Check
  <1>1. JailTypes'
    BY <1>0, Zenon DEF JailTypes, Steps
  <1>2. Bound'
    BY <1>0, BoundKept, Zenon DEF Built, Entered
  <1>3. Untouched'
    BY <1>0, UntouchedKept, Zenon DEF Apart, Built, Entered
  <1>4. Identity'
    BY <1>0, SameJob, Zenon DEF Identity, Entered
  <1>5. QED BY <1>1, <1>2, <1>3, <1>4, Zenon DEF JailInv

LEMMA NamespaceStep ==
  ASSUME JailInv, unshare_mount_namespace \/ MountScratch \/ build_jail
  PROVE  JailInv'
  <1>0. /\ JailTypes /\ Bound /\ Untouched /\ Identity
        /\ UNCHANGED <<job, mode, bound, mounts, cred>>
        /\ \/ step = "unshare" /\ step' = "tmpfs"
           \/ step = "tmpfs" /\ step' = "overlay"
           \/ step = "overlay" /\ step' = "bind"
    BY Zenon DEF JailInv, unshare_mount_namespace, MountScratch, build_jail, To
  <1>1. JailTypes'
    BY <1>0, Zenon DEF JailTypes, Steps, Apart
  <1>2. Bound'
    BY <1>0, BoundKept, Zenon DEF Built, Entered
  <1>3. Identity'
    BY <1>0, SameJob, Zenon DEF Identity, Entered
  <1>4. \A p : BelowBind(p)' = BelowBind(p)
    BY <1>0, SameJob, Zenon
  <1>5. ASSUME unshare_mount_namespace PROVE Untouched'
    BY <1>0, <1>4, <1>5, Zenon DEF unshare_mount_namespace, To, Untouched
  <1>6. ASSUME MountScratch PROVE Untouched'
    <2>1. /\ step = "tmpfs" /\ step' = "overlay" /\ space' = space
          /\ written' = [written EXCEPT !.host = written.host \union {job.scratch}]
          /\ leaked' = IF space.own /\ space.private THEN leaked ELSE leaked \union {job.scratch}
      BY <1>6, Zenon DEF MountScratch, To, raw_mount
    <2>2. space = [own |-> TRUE, private |-> TRUE]
      BY <1>0, <2>1, Zenon DEF Untouched, Apart
    <2>3. leaked' = {}
      BY <1>0, <2>1, <2>2, Zenon DEF Untouched
    <2>4. DOMAIN written' = {"overlay", "host"} /\ written'.host = written.host \union {job.scratch}
      BY <1>0, <2>1, Zenon DEF Untouched
    <2>5. QED BY <1>0, <1>4, <2>1, <2>2, <2>3, <2>4, Zenon DEF Untouched
  <1>7. ASSUME build_jail PROVE Untouched'
    <2>1. /\ step = "overlay" /\ step' = "bind" /\ UNCHANGED <<space, written>>
          /\ leaked' = IF space.own /\ space.private THEN leaked
                       ELSE leaked \union {Append(job.scratch, "merged")}
      BY <1>7, Zenon DEF build_jail, To, raw_mount
    <2>2. space = [own |-> TRUE, private |-> TRUE]
      BY <1>0, <2>1, Zenon DEF Untouched, Apart
    <2>3. leaked' = {}
      BY <1>0, <2>1, <2>2, Zenon DEF Untouched
    <2>4. QED BY <1>0, <1>4, <2>1, <2>2, <2>3, Zenon DEF Untouched
  <1>8. Untouched'
    BY <1>5, <1>6, <1>7, Zenon
  <1>9. QED BY <1>1, <1>2, <1>3, <1>8, Zenon DEF JailInv

\* The next bind: its mount point is on the host only below an earlier bind.
LEMMA BindStep == ASSUME JailInv, Bind PROVE JailInv'
  <1>0. /\ JailTypes /\ Bound /\ Untouched /\ Identity /\ step = "bind"
        /\ UNCHANGED <<job, mode, space, cred>>
    BY Zenon DEF JailInv, Bind
  <1>1. PICK B, k, b, M : B = Binds(job) /\ k = bound + 1 /\ b = B[k] /\ M = Mount
    BY Zenon
  <1>2. B \in Seq(M) /\ Len(B) \in Nat /\ DOMAIN B = 1 .. Len(B)
    <2>1. B \in Seq(M)
      BY <1>0, <1>1, BindsFacts, Zenon DEF JailTypes
    <2>2. QED BY <2>1
  <1>3. /\ k \in 1 .. Len(B) /\ bound \in Nat /\ bound' = k /\ k = bound + 1
        /\ written' = Makes(b.at) /\ mounts' = Append(mounts, b)
        /\ leaked' = IF space.own /\ space.private THEN leaked ELSE leaked \union {b.at}
        /\ step' = IF bound' = Len(B) THEN "chroot" ELSE "bind"
    <2>1. bound < Len(B) /\ bind_mount(b) /\ bound' = bound + 1
      BY <1>1, Zenon DEF Bind
    <2>2. step' = IF bound' = Len(B) THEN "chroot" ELSE "bind"
      BY <1>1, Zenon DEF Bind
    <2>3. bound \in Nat
      BY <1>0, Zenon DEF JailTypes
    <2>4. k \in 1 .. Len(B) /\ bound' = k /\ k = bound + 1
      BY <1>1, <1>2, <2>1, <2>3
    <2>5. QED BY <2>1, <2>2, <2>3, <2>4, Zenon DEF bind_mount, raw_mount
  <1>4. /\ mounts \in Seq(M) /\ DOMAIN mounts = 1 .. bound
        /\ \A i \in 1 .. bound : mounts[i] = B[i]
    BY <1>0, <1>1, Zenon DEF Bound
  <1>a. k \in 1 .. Len(B) /\ b = B[k] /\ k = bound + 1 /\ bound \in Nat /\ bound' = k
    BY <1>1, <1>3, Zenon
  <1>5. b \in M
    BY <1>2, <1>a
  <1>6. JailTypes'
    BY <1>0, <1>3 DEF JailTypes, Steps, Apart, Built
  <1>7. Bound'
    <2>1. Len(mounts) = bound
      BY <1>3, <1>4
    <2>2. mounts' \in Seq(M) /\ DOMAIN mounts' = 1 .. k
      BY <1>3, <1>4, <1>5, <2>1
    <2>3. \A i \in 1 .. k : mounts'[i] = B[i]
      <3> TAKE i \in 1 .. k
      <3>1. CASE i = k
        <4>1. mounts'[k] = b
          BY <1>3, <1>4, <1>5, <2>1
        <4>2. QED BY <1>1, <3>1, <4>1, Zenon
      <3>2. CASE i # k
        <4>1. i \in 1 .. bound
          BY <1>3, <3>2
        <4>2. mounts'[i] = mounts[i]
          BY <1>3, <1>4, <1>5, <2>1, <4>1
        <4>3. QED BY <1>4, <4>1, <4>2, Zenon
      <3>3. QED BY <3>1, <3>2, Zenon
    <2>4. B = Binds(job)'
      BY <1>0, <1>1, Zenon
    <2>5. step' \in {"chroot", "bind"} /\ k <= Len(B) /\ (step' = "chroot" => k = Len(B))
      <3>1. step' = IF k = Len(B) THEN "chroot" ELSE "bind"
        BY <1>3, Zenon
      <3>2. k <= Len(B)
        BY <1>2, <1>a
      <3>3. CASE k = Len(B)
        BY <3>1, <3>2, <3>3, Zenon
      <3>4. CASE k # Len(B)
        BY <3>1, <3>2, <3>4, Zenon
      <3>5. QED BY <3>3, <3>4, Zenon
    <2>6. QED BY <1>1, <1>3, <2>2, <2>3, <2>4, <2>5, Zenon DEF Bound, Built, Entered
  <1>8. Untouched'
    <2>1. space = [own |-> TRUE, private |-> TRUE] /\ leaked' = {} /\ space' = space
      BY <1>0, <1>3 DEF Untouched, Apart
    <2>2. step' \in {"chroot", "bind"}
      BY <1>3, Zenon
    <2>3. \A p : BelowBind(p)' = BelowBind(p)
      BY <1>0, SameJob, Zenon
    <2>4. PICK c : c = Covering(b.at)
      BY Zenon
    <2>5. DOMAIN written = {"overlay", "host"}
      BY <1>0, Zenon DEF Untouched
    <2>6. \/ written' = written
          \/ written' = [written EXCEPT !.overlay = written.overlay \union {b.at}]
          \/ /\ written' = [written EXCEPT !.host = written.host \union {b.at}]
             /\ c # 0 /\ ~HasEntry(mounts[c], b.at)
      BY <1>3, <2>4, Zenon DEF Makes
    <2>7. DOMAIN written' = {"overlay", "host"}
      BY <2>5, <2>6, Zenon
    <2>8. \/ written'.host = written.host
          \/ /\ written'.host = written.host \union {b.at}
             /\ c # 0 /\ ~HasEntry(mounts[c], b.at)
      BY <2>5, <2>6, Zenon
    <2>9. ASSUME c # 0, ~HasEntry(mounts[c], b.at) PROVE BelowBind(b.at)
      <3>1. c \in 1 .. bound /\ Under(mounts[c].at, b.at)
        BY <1>3, <1>4, <2>4, <2>9, CoveringFacts, Zenon
      <3>2. mounts[c] = B[c]
        BY <1>4, <3>1, Zenon
      <3>3. c \in DOMAIN B /\ k \in DOMAIN B /\ c < k /\ B[k].at = b.at
        <4>1. c < k /\ c \in 1 .. Len(B)
          BY <1>2, <1>a, <3>1
        <4>2. QED BY <1>2, <1>a, <4>1, Zenon
      <3>4. QED BY <1>1, <2>9, <3>1, <3>2, <3>3, Zenon DEF BelowBind
    <2>10. \A p \in written.host : p = job.scratch \/ BelowBind(p)
      BY <1>0, Zenon DEF Untouched
    <2>11. \A p \in written'.host : p = job.scratch \/ BelowBind(p)
      BY <2>8, <2>9, <2>10, Zenon
    <2>12. QED BY <1>0, <2>1, <2>2, <2>3, <2>7, <2>11, Zenon DEF Untouched
  <1>9. Identity'
    <2>1. step' \in {"chroot", "bind"}
      BY <1>3, Zenon
    <2>2. QED BY <1>0, <2>1, SameJob, Zenon DEF Identity, Entered
  <1>10. QED BY <1>6, <1>7, <1>8, <1>9, Zenon DEF JailInv

LEMMA IdentityStep ==
  ASSUME JailInv, enter_jail \/ drop_privileges \/ exec_command
  PROVE  JailInv'
  <1>0. /\ JailTypes /\ Bound /\ Untouched /\ Identity
        /\ UNCHANGED <<job, mode, bound, space, mounts, leaked, written>>
    BY Zenon DEF JailInv, enter_jail, drop_privileges, exec_command
  <1>1. \/ step = "chroot" /\ step' = "chdir" /\ cred' = [cred EXCEPT !.root = "jail"]
        \/ step = "chdir" /\ step' = "setgroups" /\ cred' = [cred EXCEPT !.inside = TRUE]
        \/ /\ step = "setgroups" /\ step' = "setgid"
           /\ cred' = [cred EXCEPT !.groups = device_groups(job).groups]
        \/ step = "setgid" /\ step' = "setuid" /\ cred' = [cred EXCEPT !.gid = job.gid]
        \/ step = "setuid" /\ step' = "verify" /\ cred' = [cred EXCEPT !.uid = job.uid]
        \/ /\ step = "verify" /\ step' = "exec" /\ cred' = cred
           /\ cred.uid = job.uid /\ cred.gid = job.gid
           /\ cred.groups = device_groups(job).groups
        \/ step = "exec" /\ step' = "nesbox" /\ cred' = [cred EXCEPT !.nnp = TRUE]
    BY Zenon DEF enter_jail, drop_privileges, exec_command, To
  <1>2. step \in Built /\ step' \in Built
    BY <1>1, Zenon DEF Built, Entered
  <1>3. PICK g : g = device_groups(job).groups
    BY Zenon
  <1>4. g \in SUBSET Nat
    <2>1. \A q \in NodesOf(job) : q \in Nodes
      BY Zenon DEF NodesOf
    <2>2. \A q \in Nodes : mode[q] \in [other : BOOLEAN, group : BOOLEAN, gid : Nat]
      BY <1>0, JobsAssumption, Zenon DEF JailTypes
    <2>3. QED BY <1>3, <2>1, <2>2, Zenon DEF device_groups
  <1>5. job.uid \in Nat /\ job.gid \in Nat /\ cred \in CredType
    BY <1>0, JobsAssumption, Zenon DEF JailTypes
  <1>6. cred' \in CredType
    BY <1>1, <1>3, <1>4, <1>5, Zenon DEF CredType
  <1>7. JailTypes'
    BY <1>0, <1>2, <1>6, Zenon DEF JailTypes, Steps, Apart
  <1>8. Bound'
    BY <1>0, <1>2, BoundKept, Zenon DEF Built, Entered
  <1>9. Untouched'
    BY <1>0, <1>2, UntouchedKept, Zenon DEF Apart, Built, Entered
  <1>10. Identity'
    <2>1. device_groups(job)' = device_groups(job) /\ Allowed(job)' = Allowed(job)
      BY <1>0, SameJob, Zenon
    <2>2. Allowed(job)
      BY <1>0, <1>2, Zenon DEF Identity, Built, Entered
    <2>3. /\ step' \in {"chdir"} \cup Entered => cred'.root = "jail"
          /\ step' \in Entered => cred'.inside
          /\ step' \in {"exec", "nesbox"} =>
               cred'.uid = job.uid /\ cred'.gid = job.gid /\ cred'.groups = g
          /\ step' = "nesbox" => cred'.nnp
      BY <1>0, <1>1, <1>3, <1>5, Zenon DEF Identity, Entered, CredType
    <2>4. QED BY <1>0, <1>3, <2>1, <2>2, <2>3, Zenon DEF Identity
  <1>11. QED BY <1>7, <1>8, <1>9, <1>10, Zenon DEF JailInv

LEMMA FailStep == ASSUME JailInv, Fails PROVE JailInv'
  <1>0. /\ JailTypes /\ Untouched /\ step' = "failed"
        /\ UNCHANGED <<job, mode, bound, leaked, written, cred>>
    BY Zenon DEF JailInv, Fails
  <1>1. JailTypes'
    BY <1>0, Zenon DEF JailTypes, Steps
  <1>2. Untouched'
    BY <1>0, UntouchedKept, Zenon DEF Apart, Built, Entered
  <1>3. Bound' /\ Identity'
    BY <1>0, Zenon DEF Bound, Identity, Entered
  <1>4. QED BY <1>1, <1>2, <1>3, Zenon DEF JailInv

LEMMA JailInductive == ASSUME JailInv, [JailerNext]_jailVars PROVE JailInv'
  <1>1. CASE UNCHANGED jailVars
    <2>1. UNCHANGED <<job, mode, step, bound, space, mounts, leaked, written, cred>>
      BY <1>1, Zenon DEF jailVars
    <2>2. JailTypes' /\ Bound'
      BY <2>1, Zenon DEF JailInv, JailTypes, Bound
    <2>3. Untouched'
      BY <2>1, UntouchedKept, Zenon DEF JailInv
    <2>4. Identity'
      BY <2>1, SameJob, Zenon DEF JailInv, Identity
    <2>5. QED BY <2>2, <2>3, <2>4, Zenon DEF JailInv
  <1>2. CASE JailerNext
    BY <1>2, CheckStep, NamespaceStep, BindStep, IdentityStep, FailStep, Zenon DEF JailerNext
  <1>3. QED BY <1>1, <1>2, Zenon

-----------------------------------------------------------------------------
(* What the running box finds *)

\* A path of the configuration shows the host's own file, or a directory
\* listed later, of another filesystem, is over it.
LEMMA PathsSeen ==
  ASSUME JailInv, step = "nesbox", NEW p \in Range(host_paths(job))
  PROVE  SeenTruly(p) \/ HiddenByOrder(job, p)
  <1>1. PICK h, B, n : h = host_paths(job) /\ B = Binds(job) /\ n = Len(h)
    BY Zenon
  <1>2. PICK P : P = Seq(STRING)
    BY Zenon
  <1>3. /\ h \in Seq(P) /\ n \in Nat /\ Len(B) = n + 2
        /\ \A k \in 1 .. n : B[k + 2] = [at |-> h[k], rec |-> FALSE]
        /\ B[2] = [at |-> Sys, rec |-> TRUE]
    <2>1. job \in Jobs
      BY Zenon DEF JailInv, JailTypes
    <2>2. QED BY <1>1, <1>2, <2>1, BindsFacts, Zenon
  <1>4. DOMAIN h = 1 .. n
    BY <1>1, <1>3
  <1>5. PICK i \in 1 .. n : h[i] = p
    BY <1>1, <1>4, Zenon DEF Range
  <1>6. Under(p, p)
    <2>1. p \in P
      BY <1>3, <1>4, <1>5
    <2>2. QED BY <1>2, <2>1, SelfPrefix, Zenon
  <1>7. /\ bound = n + 2 /\ bound \in Nat /\ DOMAIN mounts = 1 .. bound
        /\ \A k \in 1 .. bound : mounts[k] = B[k]
    BY <1>1, <1>3, Zenon DEF JailInv, JailTypes, Bound, Built, Entered
  <1>8. PICK c : c = Covering(p)
    BY Zenon
  <1>9. i + 2 \in 1 .. bound /\ mounts[i + 2] = [at |-> p, rec |-> FALSE]
    BY <1>3, <1>5, <1>7
  <1>10. /\ c # 0 /\ c \in 1 .. bound /\ Under(mounts[c].at, p) /\ i + 2 <= c
    <2>1. Under(mounts[i + 2].at, p)
      BY <1>6, <1>9
    <2>2. QED BY <1>7, <1>8, <1>9, <2>1, CoveringFacts, Zenon
  <1>11. CASE Shows(mounts[c], p)
    BY <1>8, <1>10, <1>11, Zenon DEF SeenTruly
  <1>12. CASE ~Shows(mounts[c], p)
    <2>1. PICK k : k = c - 2
      BY Zenon
    <2>2. k \in 1 .. n /\ c = k + 2 /\ i <= k
      <3>1. n \in Nat /\ i \in 1 .. n /\ bound = n + 2 /\ c \in 1 .. bound /\ i + 2 <= c
        BY <1>3, <1>5, <1>7, <1>10, Zenon
      <3>2. QED BY <2>1, <3>1
    <2>3. mounts[c] = [at |-> h[k], rec |-> FALSE]
      <3>1. mounts[c] = B[k + 2]
        BY <1>7, <1>10, <2>2, Zenon
      <3>2. QED BY <1>3, <2>2, <3>1, Zenon
    <2>4. Under(h[k], p) /\ Filesystem(h[k]) # Filesystem(p)
      <3>1. mounts[c].at = h[k] /\ mounts[c].rec = FALSE
        BY <2>3
      <3>2. QED BY <1>10, <1>12, <3>1, Zenon DEF Shows
    <2>5. i < k
      BY <1>5, <2>2, <2>4
    <2>6. i \in DOMAIN h /\ k \in DOMAIN h
      BY <1>4, <2>2, Zenon
    <2>7. QED BY <1>1, <1>5, <2>4, <2>5, <2>6, Zenon DEF HiddenByOrder
  <1>13. QED BY <1>11, <1>12, Zenon

\* What is mounted below /sys shows there, unless something is bound over it.
LEMMA SysSeen ==
  ASSUME JailInv, step = "nesbox", NEW p, Under(Sys, p)
  PROVE  SeenTruly(p) \/ \E q \in Range(host_paths(job)) : Under(q, p)
  <1>1. PICK h, B, n : h = host_paths(job) /\ B = Binds(job) /\ n = Len(h)
    BY Zenon
  <1>2. PICK P : P = Seq(STRING)
    BY Zenon
  <1>3. /\ h \in Seq(P) /\ n \in Nat /\ Len(B) = n + 2
        /\ \A k \in 1 .. n : B[k + 2] = [at |-> h[k], rec |-> FALSE]
        /\ B[2] = [at |-> Sys, rec |-> TRUE]
    <2>1. job \in Jobs
      BY Zenon DEF JailInv, JailTypes
    <2>2. QED BY <1>1, <1>2, <2>1, BindsFacts, Zenon
  <1>4. DOMAIN h = 1 .. n
    BY <1>1, <1>3
  <1>5. /\ bound = n + 2 /\ bound \in Nat /\ DOMAIN mounts = 1 .. bound
        /\ \A k \in 1 .. bound : mounts[k] = B[k]
    BY <1>1, <1>3, Zenon DEF JailInv, JailTypes, Bound, Built, Entered
  <1>6. PICK c : c = Covering(p)
    BY Zenon
  <1>7. 2 \in 1 .. bound /\ mounts[2] = [at |-> Sys, rec |-> TRUE]
    BY <1>3, <1>5
  <1>8. c # 0 /\ c \in 1 .. bound /\ Under(mounts[c].at, p) /\ 2 <= c
    <2>1. Under(mounts[2].at, p)
      BY <1>7
    <2>2. QED BY <1>5, <1>6, <1>7, <2>1, CoveringFacts, Zenon
  <1>9. CASE c = 2
    BY <1>6, <1>7, <1>9 DEF SeenTruly, Shows
  <1>10. CASE c # 2
    <2>1. PICK k : k = c - 2
      BY Zenon
    <2>2. k \in 1 .. n /\ c = k + 2
      BY <1>3, <1>5, <1>8, <1>10, <2>1
    <2>3. mounts[c].at = h[k]
      <3>1. mounts[c] = B[k + 2]
        BY <1>5, <1>8, <2>2, Zenon
      <3>2. B[k + 2] = [at |-> h[k], rec |-> FALSE]
        BY <1>3, <2>2, Zenon
      <3>3. QED BY <3>1, <3>2
    <2>4. h[k] \in Range(h)
      BY <1>4, <2>2, Zenon DEF Range
    <2>5. QED BY <1>1, <1>8, <2>3, <2>4, Zenon
  <1>11. QED BY <1>9, <1>10, Zenon

\* The groups left are those of the nodes that only a group may open, and no
\* node was left that only its owner may.
LEMMA NodesOpen ==
  ASSUME JailInv, step = "nesbox"
  PROVE  (\A p \in NodesOf(job) : Opens(mode[p])) /\ 0 \notin cred.groups
  <1>1. Allowed(job) /\ cred.groups = device_groups(job).groups
    BY Zenon DEF JailInv, Identity
  <1>2. cred.groups = {mode[p].gid : p \in {q \in NodesOf(job) : device_access(mode[q]) = "group"}}
    BY <1>1, Zenon DEF device_groups
  <1>3. \A p \in NodesOf(job) : device_access(mode[p]) # "owner"
    BY <1>1, Zenon DEF Allowed, device_groups
  <1>4. \A p \in NodesOf(job) : mode[p] \in [other : BOOLEAN, group : BOOLEAN, gid : Nat]
    BY JobsAssumption, Zenon DEF JailInv, JailTypes, NodesOf
  <1>5. ASSUME NEW p \in NodesOf(job) PROVE Opens(mode[p])
    <2>1. PICK m \in [other : BOOLEAN, group : BOOLEAN, gid : Nat] : m = mode[p]
      BY <1>4, Zenon
    <2>2. m.other \/ (device_access(m) = "group" /\ m.group)
      <3>1. device_access(m) # "owner"
        BY <1>3, <2>1, Zenon
      <3>2. CASE ~m.other /\ m.group /\ m.gid # 0
        BY <3>2, Zenon DEF device_access
      <3>3. CASE ~m.other /\ ~(m.group /\ m.gid # 0)
        <4>1. device_access(m) = "owner"
          BY <3>3, Zenon DEF device_access
        <4>2. QED BY <3>1, <4>1, Zenon
      <3>4. QED BY <3>2, <3>3, Zenon
    <2>3. device_access(m) = "group" => m.gid \in cred.groups
      BY <1>2, <2>1, Zenon
    <2>4. QED BY <2>1, <2>2, <2>3, Zenon DEF Opens
  <1>6. ASSUME NEW p \in NodesOf(job), device_access(mode[p]) = "group" PROVE mode[p].gid # 0
    BY <1>4, <1>6, Zenon DEF device_access
  <1>7. QED BY <1>2, <1>5, <1>6, Zenon

-----------------------------------------------------------------------------

\* Once nesbox runs in the jail it sees the host's own file at every path its
\* configuration names, except where the order of the configuration hides it,
\* and the mounts below /sys; it opens every device node among the paths; and
\* it is inside, without root and without a way back, whatever is bound after
\* what and whatever modes the nodes have (run, bind_mount, device_groups,
\* drop_privileges).
THEOREM BoxIsServed == JailerSpec => []JailServesConfig
  <1>1. JailInv => JailServesConfig
    <2> SUFFICES ASSUME JailInv, step = "nesbox"
                 PROVE  /\ \A p \in Range(host_paths(job)) : SeenTruly(p) \/ HiddenByOrder(job, p)
                        /\ \A p \in HostMounts : Under(Sys, p) =>
                             SeenTruly(p) \/ \E q \in Range(host_paths(job)) : Under(q, p)
                        /\ \A p \in NodesOf(job) : Opens(mode[p])
                        /\ cred.root = "jail" /\ cred.inside /\ cred.nnp
                        /\ cred.uid # 0 /\ cred.gid # 0 /\ 0 \notin cred.groups
      BY Zenon DEF JailServesConfig
    <2>1. /\ cred.root = "jail" /\ cred.inside /\ cred.nnp
          /\ cred.uid # 0 /\ cred.gid # 0
      BY Zenon DEF JailInv, Identity, Entered, Allowed
    <2>2. QED BY <2>1, PathsSeen, SysSeen, NodesOpen, Zenon
  <1>2. QED BY <1>1, InitJail, JailInductive, PTL DEF JailerSpec

\* Wherever the jailer stops, and whichever call failed, no mount of the jail
\* is on the host and nothing was made there beyond the scratch directory and
\* the mount points the binds themselves ask for (unshare_mount_namespace,
\* build_jail, bind_mount).
THEOREM HostStaysClean == JailerSpec => []HostUntouched
  <1>1. JailInv => HostUntouched
    BY Zenon DEF JailInv, Untouched, HostUntouched, BelowBind
  <1>2. QED BY <1>1, InitJail, JailInductive, PTL DEF JailerSpec

-----------------------------------------------------------------------------
(***************************************************************************)
(* A table write touches the routes of its own vector only, and leaves     *)
(* what was asked for on record.                                           *)
(***************************************************************************)
LEMMA RouteStep ==
    ASSUME TypeOK, NEW v \in Vectors, NEW e \in Entry, program_route(v, e)
    PROVE  /\ msi' \in [Vectors -> Route] /\ kvm' \in [Vectors -> Route]
           /\ e.addr # 0 => msi'[v] = Message(e)
           /\ \A w \in Vectors \ {v} : msi'[w] = msi[w]
  <1>1. Message(e) \in Route
    BY Zenon DEF Message, Route, Entry
  <1>2. CASE e.addr = 0
    BY <1>2, Zenon DEF program_route, TypeOK
  <1>3. CASE e.addr # 0
    BY <1>1, <1>3, MsixAssumption DEF program_route, set_msi_route, TypeOK
  <1>4. QED
    BY <1>2, <1>3, Zenon

(***************************************************************************)
(* Type correctness of every reachable state.                              *)
(***************************************************************************)
LEMMA TypeStep == TypeOK /\ [Next]_vars => TypeOK'
  <1> SUFFICES ASSUME TypeOK, [Next]_vars PROVE TypeOK'
    BY Zenon
  <1>a. NotFired \in [vec : Vectors \cup {NoVector}, to : Route]
    BY Zenon DEF NotFired, NoRoute, Route
  <1>1. ASSUME NEW v \in Vectors \cup Unbacked \cup {NoVector}, Raise(v) PROVE TypeOK'
    <2>1. UNCHANGED <<entries, enabled, msi, kvm, assigned>>
      BY <1>1, Zenon DEF Raise
    <2>2. intx' \in BOOLEAN
      BY <1>1, Zenon DEF Raise, trigger
    <2>3. pba' \subseteq Vectors /\ owed' \subseteq Vectors
      BY <1>1, Zenon DEF Raise, trigger, Fire, Quiet, TypeOK
    <2>4. fired' \in [vec : Vectors \cup {NoVector}, to : Route]
      BY <1>1, <1>a DEF Raise, trigger, Fire, Quiet, TypeOK
    <2>5. QED
      BY <2>1, <2>2, <2>3, <2>4, Zenon DEF TypeOK
  <1>2. ASSUME NEW v \in Vectors, NEW e \in Entry, GuestWrite(v, e) PROVE TypeOK'
    <2>1. program_route(v, e)
      BY <1>2, Zenon DEF GuestWrite, write
    <2>2. /\ msi' \in [Vectors -> Route] /\ kvm' \in [Vectors -> Route]
      BY <2>1, RouteStep, Zenon
    <2>3. entries' \in [Vectors -> Entry]
      BY <1>2, ZenonT(40) DEF GuestWrite, write, TypeOK
    <2>4. fired' \in [vec : Vectors \cup {NoVector}, to : Route]
      BY <1>2, <1>a, <2>2 DEF GuestWrite, write, Fire, Quiet
    <2>5. QED
      BY <1>2, <2>2, <2>3, <2>4, Zenon DEF GuestWrite, write, Fire, Quiet, TypeOK
  <1>3. ASSUME NEW on \in BOOLEAN, write_config(on) PROVE TypeOK'
    BY <1>3, <1>a, Zenon DEF write_config, Quiet, TypeOK
  <1>4. ASSUME NEW v \in Vectors \cup Unbacked, Assign(v) PROVE TypeOK'
    BY <1>4, <1>a, Zenon DEF Assign, Quiet, TypeOK
  <1>5. CASE Reset
    BY <1>5, <1>a, Zenon DEF Reset, Quiet, TypeOK
  <1>6. CASE UNCHANGED vars
    BY <1>6, Zenon DEF vars, TypeOK
  <1>7. QED
    BY <1>1, <1>2, <1>3, <1>4, <1>5, <1>6, Zenon DEF Next

(***************************************************************************)
(* Pending bits.  NothingStranded is inductive together with the types,    *)
(* whether or not commits fail.                                            *)
(***************************************************************************)
PendingInv == TypeOK /\ NothingStranded

LEMMA PendingInit == Init => PendingInv
  <1> SUFFICES ASSUME Init PROVE PendingInv
    BY Zenon
  <1>1. entries \in [Vectors -> Entry]
    BY Zenon DEF Init, Entry
  <1>2. msi \in [Vectors -> Route] /\ kvm \in [Vectors -> Route]
    BY Zenon DEF Init, Route, NoRoute
  <1>3. fired \in [vec : Vectors \cup {NoVector}, to : Route]
    BY Zenon DEF Init, Route, NoRoute, NotFired
  <1>4. QED
    BY <1>1, <1>2, <1>3, Zenon DEF Init, PendingInv, TypeOK, NothingStranded

LEMMA PendingStep == PendingInv /\ [Next]_vars => PendingInv'
  <1> SUFFICES ASSUME PendingInv, [Next]_vars PROVE NothingStranded'
    BY TypeStep, Zenon DEF PendingInv
  <1> USE DEF PendingInv, NothingStranded, masked
  <1>1. ASSUME NEW v \in Vectors \cup Unbacked \cup {NoVector}, Raise(v)
        PROVE  NothingStranded'
    BY <1>1, MsixAssumption, Zenon DEF Raise, trigger, Fire, Quiet, TypeOK
  <1>2. ASSUME NEW v \in Vectors, NEW e \in Entry, GuestWrite(v, e)
        PROVE  NothingStranded'
    <2>1. /\ entries' = [entries EXCEPT ![v] = e] /\ e.masked \in BOOLEAN
          /\ entries'[v] = e /\ \A w \in Vectors \ {v} : entries'[w] = entries[w]
      BY <1>2, Zenon DEF GuestWrite, write, TypeOK, Entry
    <2>2. CASE masked(v) /\ ~e.masked /\ v \in pba
      BY <1>2, <2>1, <2>2, Zenon DEF GuestWrite, write, Fire, TypeOK
    <2>3. CASE ~(masked(v) /\ ~e.masked /\ v \in pba)
      BY <1>2, <2>1, <2>3 DEF GuestWrite, write, Quiet, TypeOK
    <2>4. QED
      BY <2>2, <2>3, Zenon
  <1>3. ASSUME NEW on \in BOOLEAN, write_config(on) PROVE NothingStranded'
    BY <1>3, Zenon DEF write_config, Quiet
  <1>4. ASSUME NEW v \in Vectors \cup Unbacked, Assign(v) PROVE NothingStranded'
    BY <1>4, Zenon DEF Assign, Quiet
  <1>5. CASE Reset
    BY <1>5, Zenon DEF Reset, Quiet
  <1>6. CASE UNCHANGED vars
    BY <1>6, Zenon DEF vars
  <1>7. QED
    BY <1>1, <1>2, <1>3, <1>4, <1>5, <1>6, Zenon DEF Next

(***************************************************************************)
(* MsixTable::trigger and write never strand an interrupt: a pending bit   *)
(* sits on a masked vector, and an interrupt not yet sent is pending.      *)
(***************************************************************************)
THEOREM PendingCorrect == Spec => []NothingStranded
  <1>1. PendingInv => NothingStranded
    BY Zenon DEF PendingInv
  <1>2. QED
    BY PendingInit, PendingStep, <1>1, PTL DEF Spec

(***************************************************************************)
(* Delivery.  The invariant needs two facts that DeliveredAsProgrammed     *)
(* does not say: the record follows every programmed entry, and a vector   *)
(* in use is programmed.                                                   *)
(***************************************************************************)
Programmed == \A v \in Vectors : entries[v].addr # 0 => msi[v] = Message(entries[v])
InUse      == \A v \in Vectors : v \in assigned => entries[v].addr # 0

RouteInv == PendingInv /\ Programmed /\ InUse /\ DeliveredAsProgrammed

LEMMA RouteInvStep == RouteInv /\ [Next]_vars => RouteInv'
  <1> SUFFICES ASSUME RouteInv, [Next]_vars
               PROVE  Programmed' /\ InUse' /\ DeliveredAsProgrammed'
    BY PendingStep, Zenon DEF RouteInv
  <1>t. TypeOK /\ TypeOK'
    BY TypeStep, Zenon DEF RouteInv, PendingInv
  <1> USE DEF RouteInv, masked
  <1>1. ASSUME NEW v \in Vectors \cup Unbacked \cup {NoVector}, Raise(v)
        PROVE  Programmed' /\ InUse' /\ DeliveredAsProgrammed'
    <2>1. Programmed' /\ InUse'
      BY <1>1, Zenon DEF Raise, Programmed, InUse
    <2>2. CASE fired' = NotFired
      BY <2>1, <2>2, Zenon DEF DeliveredAsProgrammed
    <2>3. CASE fired' # NotFired
      <3>1. v \in Vectors /\ ~masked(v) /\ fired' = [vec |-> v, to |-> kvm[v]]
        BY <1>1, <2>3, Zenon DEF Raise, trigger, Fire, Quiet
      <3>2. /\ entries[v].addr # 0 /\ msi[v] = Message(entries[v])
            /\ entries' = entries /\ msi' = msi /\ kvm' = kvm
        BY <1>1, <3>1, Zenon DEF Raise, InUse, Programmed
      <3>3. QED
        BY <2>1, <3>1, <3>2, Zenon DEF DeliveredAsProgrammed
    <2>4. QED
      BY <2>2, <2>3, Zenon
  <1>2. ASSUME NEW v \in Vectors, NEW e \in Entry, GuestWrite(v, e)
        PROVE  Programmed' /\ InUse' /\ DeliveredAsProgrammed'
    <2>1. /\ entries'[v] = e /\ \A w \in Vectors \ {v} : entries'[w] = entries[w]
      BY <1>2, <1>t, Zenon DEF GuestWrite, write, TypeOK
    <2>2. /\ e.addr # 0 => msi'[v] = Message(e)
          /\ \A w \in Vectors \ {v} : msi'[w] = msi[w]
      <3>1. program_route(v, e)
        BY <1>2, Zenon DEF GuestWrite, write
      <3>2. QED
        BY <3>1, <1>t, RouteStep, Zenon
    <2>3. Programmed'
      BY <2>1, <2>2, Zenon DEF Programmed
    <2>4. InUse'
      BY <1>2, <2>1, Zenon DEF GuestWrite, InUse
    <2>5. CASE fired' = NotFired
      BY <2>3, <2>4, <2>5, Zenon DEF DeliveredAsProgrammed
    <2>6. CASE fired' # NotFired
      <3>1. ~e.masked /\ fired' = [vec |-> v, to |-> kvm'[v]]
        BY <1>2, <2>6, Zenon DEF GuestWrite, write, Fire, Quiet
      <3>2. e.addr # 0
        BY <1>2, <3>1, Zenon DEF GuestWrite
      <3>3. QED
        BY <2>1, <2>2, <2>3, <2>4, <3>1, <3>2, Zenon DEF DeliveredAsProgrammed
    <2>7. QED
      BY <2>5, <2>6, Zenon
  <1>3. ASSUME NEW on \in BOOLEAN, write_config(on)
        PROVE  Programmed' /\ InUse' /\ DeliveredAsProgrammed'
    BY <1>3, Zenon DEF write_config, Quiet, Programmed, InUse, DeliveredAsProgrammed
  <1>4. ASSUME NEW v \in Vectors \cup Unbacked, Assign(v)
        PROVE  Programmed' /\ InUse' /\ DeliveredAsProgrammed'
    BY <1>4, Zenon DEF Assign, Quiet, Programmed, InUse, DeliveredAsProgrammed
  <1>5. CASE Reset
    BY <1>5, MsixAssumption, Zenon DEF Reset, Quiet, Programmed, InUse, DeliveredAsProgrammed
  <1>6. CASE UNCHANGED vars
    BY <1>6, Zenon DEF vars, Programmed, InUse, DeliveredAsProgrammed
  <1>7. QED
    BY <1>1, <1>2, <1>3, <1>4, <1>5, <1>6, Zenon DEF Next

(***************************************************************************)
(* Every MSI of the device goes where the driver's entry says at that      *)
(* moment (program_route after every write, trigger and write for the      *)
(* mask), as soon as the last table could be installed.                    *)
(***************************************************************************)
THEOREM DeliveryCorrect == Spec => []DeliveredAsProgrammed
  <1>1. Init => RouteInv
    <2> SUFFICES ASSUME Init PROVE RouteInv
      BY Zenon
    <2>1. PendingInv
      BY PendingInit, Zenon
    <2>2. Programmed /\ InUse /\ DeliveredAsProgrammed
      BY MsixAssumption, Zenon DEF Init, Programmed, InUse, DeliveredAsProgrammed
    <2>3. QED
      BY <2>1, <2>2, Zenon DEF RouteInv
  <1>2. RouteInv => DeliveredAsProgrammed
    BY Zenon DEF RouteInv
  <1>3. QED
    BY <1>1, RouteInvStep, <1>2, PTL DEF Spec
=============================================================================
