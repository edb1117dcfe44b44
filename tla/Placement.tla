------------------------------ MODULE Placement ------------------------------
(***************************************************************************)
(* Where the threads of one VMM run: MachineConfig::validate, worker_cpus  *)
(* and io_cpus (vmm/src/config.rs), virtio-devices/src/affinity.rs and     *)
(* sched.rs, the GPU worker's confine, and the places main and the devices *)
(* use them.  A thread, and a kernel worker, is born with the cgroup, the  *)
(* CPUs and the nice value of the thread that asks for it.  The kernel     *)
(* refuses an affinity that names no CPU of the thread's cpuset, and a     *)
(* refusal is only warned about.                                           *)
(***************************************************************************)
EXTENDS Naturals, Integers, Sequences, FiniteSets, SequencesExt

CONSTANTS
  HostCpus,      \* the CPUs of the host
  CpuSetSize,    \* CPU_SETSIZE: a cpu_set_t cannot name a CPU from here on
  PinLists,      \* values of vcpu_pins
  CpuLists,      \* values of cpu_affinity, io_affinity and the GPU's worker_cpus
  NumPlaced,     \* vcpu_count
  MaxRefusals    \* bound: calls the kernel refuses for reasons of its own

ASSUME PlacementAssumption ==
  /\ CpuSetSize \in Nat /\ NumPlaced \in Nat \ {0} /\ MaxRefusals \in Nat
  /\ \A l \in PinLists : l \in Seq(Nat)
  /\ \A l \in CpuLists : l \subseteq Nat
  /\ {} \in CpuLists

VARIABLES
  asked,    \* the configuration
  group,    \* thread -> the cgroup it is in
  cpus,     \* thread -> the CPUs it may run on
  nice,     \* thread -> its nice value
  saved,    \* vCPU -> the affinity with_io_affinity put aside
  stage,    \* thread -> its place in the code
  warned,   \* threads a warning was logged about
  refusals  \* refusals left

placeVars == <<asked, group, cpus, nice, saved, stage, warned, refusals>>

VcpuIds == 1..NumPlaced
VcpuName == [i \in VcpuIds |-> "vcpu" \o ToString(i)]
VcpuNames == {VcpuName[i] : i \in VcpuIds}
Threads == {"main", "helper", "vhost", "gpu", "kvm"} \cup VcpuNames

\* MachineConfig::validate, the rules that decide a placement (threads_per_core
\* and dedicated ask for pins and place nothing).
validate(c) ==
  /\ c.pins # <<>> => Len(c.pins) = NumPlaced /\ IsInjective(c.pins)
  /\ c.vcpu_fd = c.io_fd

io_cpus(c) == IF c.io = {} THEN c.shared ELSE c.io

\* The GPU worker's CPUs: its own setting, or what worker_cpus leaves when the
\* pins are taken out.
worker_cpus(c) ==
  LET left == (io_cpus(c) \cup c.shared) \ Range(c.pins) IN
  IF c.worker # {} THEN c.worker
  ELSE IF left = {} THEN io_cpus(c) ELSE left

\* cpu_set: CPUs a cpu_set_t cannot name are dropped; {} stands for None.
cpu_set(list) == {c \in list : c < CpuSetSize}

\* The partition, when there is one, holds the pinned CPUs and nothing else.
CpusOf(g) ==
  IF ~asked.vcpu_fd THEN HostCpus
  ELSE IF g = "vcpu" THEN HostCpus \cap Range(asked.pins)
  ELSE HostCpus \ Range(asked.pins)

Origin == CpusOf("io")

\* Writing to cgroup.threads: the thread keeps what the new cpuset has of its
\* CPUs, or gets all of the cpuset's.  Refused only for reasons of the kernel's.
JoinTo(t, g) ==
  /\ group' = [group EXCEPT ![t] = g]
  /\ cpus' = [cpus EXCEPT ![t] = IF cpus[t] \cap CpusOf(g) = {} THEN CpusOf(g)
                                 ELSE cpus[t] \cap CpusOf(g)]
  /\ UNCHANGED <<warned, refusals>>

\* sched_setaffinity.
Applies(t, set) ==
  /\ set \cap CpusOf(group[t]) # {}
  /\ cpus' = [cpus EXCEPT ![t] = set \cap CpusOf(group[t])]
  /\ UNCHANGED <<group, warned, refusals>>

RefusedApply(t, set) ==
  /\ set \cap CpusOf(group[t]) = {}
  /\ warned' = warned \cup {t}
  /\ UNCHANGED <<group, cpus, refusals>>

RefusedByChance(t) ==
  /\ refusals > 0 /\ refusals' = refusals - 1
  /\ warned' = warned \cup {t}
  /\ UNCHANGED <<group, cpus>>

NoCall == UNCHANGED <<group, cpus, warned, refusals>>

apply(t, set) == Applies(t, set) \/ RefusedApply(t, set) \/ RefusedByChance(t)
join_cgroup(t, g) == IF asked.vcpu_fd THEN JoinTo(t, g) \/ RefusedByChance(t) ELSE NoCall

Reach(t, s) == stage' = [stage EXCEPT ![t] = s]
AtStage(t, s) == stage[t] = s

\* t comes to be, asked for by parent.
Inherits(t, parent) ==
  /\ group' = [group EXCEPT ![t] = group[parent]]
  /\ cpus' = [cpus EXCEPT ![t] = cpus[parent]]
  /\ UNCHANGED <<warned, refusals>>

\* main confines itself to the I/O set before it starts anything.
ConfineMain ==
  /\ AtStage("main", "start")
  /\ IF cpu_set(io_cpus(asked)) = {} THEN NoCall
     ELSE apply("main", cpu_set(io_cpus(asked)))
  /\ Reach("main", "confined")
  /\ UNCHANGED <<asked, nice, saved>>

\* A block, console, stats or control thread: born on main's set, and lowered.
SpawnHelper ==
  /\ AtStage("main", "confined") /\ AtStage("helper", "none")
  /\ Inherits("helper", "main")
  /\ nice' = [nice EXCEPT !["helper"] = 10]
  /\ Reach("helper", "runs")
  /\ UNCHANGED <<asked, saved>>

SpawnVcpu(i) ==
  /\ AtStage("helper", "runs") /\ AtStage(VcpuName[i], "none")
  /\ Inherits(VcpuName[i], "main")
  /\ Reach(VcpuName[i], "born")
  /\ UNCHANGED <<asked, nice, saved>>

\* placements: its pin, or the shared set, or where the process started.
PlacementOf(i) ==
  IF asked.pins # <<>> THEN cpu_set({asked.pins[i]})
  ELSE IF cpu_set(asked.shared) # {} THEN cpu_set(asked.shared)
  ELSE Origin

\* A vCPU thread joins the partition, then pins itself.
VcpuJoins(i) ==
  /\ AtStage(VcpuName[i], "born")
  /\ join_cgroup(VcpuName[i], "vcpu")
  /\ Reach(VcpuName[i], "joined")
  /\ UNCHANGED <<asked, nice, saved>>

VcpuPins(i) ==
  /\ AtStage(VcpuName[i], "joined")
  /\ IF PlacementOf(i) = {} THEN NoCall ELSE apply(VcpuName[i], PlacementOf(i))
  /\ Reach(VcpuName[i], "runs")
  /\ UNCHANGED <<asked, nice, saved>>

\* The first KVM_RUN makes KVM start its own worker.
FirstRun(i) ==
  /\ AtStage(VcpuName[i], "runs") /\ AtStage("kvm", "none")
  /\ Inherits("kvm", VcpuName[i])
  /\ Reach("kvm", "born")
  /\ UNCHANGED <<asked, nice, saved>>

\* with_io_affinity around set_owner, on the vCPU thread that serves the
\* guest's activation: step out, move, make the worker, step back in, restore.
Ran == stage["kvm"] # "none"

StepOut(i) ==
  LET v == VcpuName[i] IN
  /\ AtStage(v, "runs") /\ AtStage("vhost", "none") /\ Ran
  /\ cpu_set(io_cpus(asked)) # {}
  /\ saved' = [saved EXCEPT ![i] = cpus[v]]
  /\ join_cgroup(v, "io")
  /\ stage' = [stage EXCEPT ![v] = "out", !["vhost"] = "awaited"]
  /\ UNCHANGED <<asked, nice>>

MoveToIo(i) ==
  /\ AtStage(VcpuName[i], "out")
  /\ apply(VcpuName[i], cpu_set(io_cpus(asked)))
  /\ Reach(VcpuName[i], "moved")
  /\ UNCHANGED <<asked, nice, saved>>

\* A worker made while its maker is where a warning said it should not be is
\* covered by that warning.
MakeWorker(i) ==
  LET v == VcpuName[i] IN
  /\ AtStage(v, "moved")
  /\ group' = [group EXCEPT !["vhost"] = group[v]]
  /\ cpus' = [cpus EXCEPT !["vhost"] = cpus[v]]
  /\ warned' = IF v \in warned THEN warned \cup {"vhost"} ELSE warned
  /\ stage' = [stage EXCEPT ![v] = "made", !["vhost"] = "runs"]
  /\ UNCHANGED <<asked, nice, saved, refusals>>

\* The pin restored before the thread is back where the pin can be had.
ReturnPinFirst(i) ==
  LET v == VcpuName[i] IN
  \/ AtStage(v, "made") /\ apply(v, saved[i]) /\ Reach(v, "back")
  \/ AtStage(v, "back") /\ join_cgroup(v, "vcpu") /\ Reach(v, "runs")

Return(i) ==
  LET v == VcpuName[i] IN
  \/ AtStage(v, "made") /\ join_cgroup(v, "vcpu") /\ Reach(v, "back")
  \/ AtStage(v, "back") /\ apply(v, saved[i]) /\ Reach(v, "runs")

StepBack(i) == Return(i) /\ UNCHANGED <<asked, nice, saved>>

\* With no I/O set the worker is made where the thread is.
MakeWorkerHere(i) ==
  /\ AtStage(VcpuName[i], "runs") /\ AtStage("vhost", "none") /\ Ran
  /\ cpu_set(io_cpus(asked)) = {}
  /\ Inherits("vhost", VcpuName[i])
  /\ Reach("vhost", "runs")
  /\ UNCHANGED <<asked, nice, saved>>

\* The GPU worker, started by a vCPU thread at activation: born on its pin,
\* it leaves the partition and then confines itself.
SpawnGpuWorker(i) ==
  /\ AtStage(VcpuName[i], "runs") /\ AtStage("gpu", "none") /\ Ran
  /\ Inherits("gpu", VcpuName[i])
  /\ Reach("gpu", "born")
  /\ UNCHANGED <<asked, nice, saved>>

leave_vcpu_cgroup ==
  /\ AtStage("gpu", "born")
  /\ join_cgroup("gpu", "io")
  /\ Reach("gpu", "left")
  /\ UNCHANGED <<asked, nice, saved>>

confine ==
  /\ AtStage("gpu", "left")
  /\ apply("gpu", IF cpu_set(worker_cpus(asked)) = {} THEN Origin
                  ELSE cpu_set(worker_cpus(asked)))
  /\ Reach("gpu", "confined")
  /\ UNCHANGED <<asked, nice, saved>>

\* raise_this_thread, where the process may.
raise_this_thread ==
  /\ AtStage("gpu", "confined")
  /\ nice' \in {nice, [nice EXCEPT !["gpu"] = -5]}
  /\ Reach("gpu", "raised")
  /\ NoCall /\ UNCHANGED <<asked, saved>>

\* request_slice writes back the attributes it read, nice value included.
request_slice ==
  /\ AtStage("gpu", "raised")
  /\ Reach("gpu", "runs")
  /\ NoCall /\ UNCHANGED <<asked, nice, saved>>

\* rehome_kvm_workers, from the watcher: out of the cgroup, then to the set.
rehome_kvm_workers ==
  /\ AtStage("kvm", "born") /\ cpu_set(io_cpus(asked)) # {}
  /\ join_cgroup("kvm", "io")
  /\ Reach("kvm", "left")
  /\ UNCHANGED <<asked, nice, saved>>

RehomeApplies ==
  /\ AtStage("kvm", "left")
  /\ apply("kvm", cpu_set(io_cpus(asked)))
  /\ Reach("kvm", "runs")
  /\ UNCHANGED <<asked, nice, saved>>

Configs == [pins : PinLists, shared : CpuLists, io : CpuLists, worker : CpuLists,
            vcpu_fd : BOOLEAN, io_fd : BOOLEAN]

\* A partition is set up for pins, of CPUs the host has.
HostAgrees(c) == c.vcpu_fd => /\ c.pins # <<>> /\ Range(c.pins) \subseteq HostCpus
                              /\ HostCpus \ Range(c.pins) # {}

PlacementInit ==
  /\ asked \in {c \in Configs : validate(c) /\ HostAgrees(c)}
  /\ group = [t \in Threads |-> "io"]
  /\ cpus = [t \in Threads |-> Origin]
  /\ nice = [t \in Threads |-> 0]
  /\ saved = [i \in VcpuIds |-> {}]
  /\ stage = [t \in Threads |-> IF t = "main" THEN "start" ELSE "none"]
  /\ warned = {} /\ refusals = MaxRefusals

PlacementNext ==
  \/ ConfineMain \/ SpawnHelper
  \/ \E i \in VcpuIds :
       \/ SpawnVcpu(i) \/ VcpuJoins(i) \/ VcpuPins(i) \/ FirstRun(i)
       \/ StepOut(i) \/ MoveToIo(i) \/ MakeWorker(i) \/ StepBack(i) \/ MakeWorkerHere(i)
       \/ SpawnGpuWorker(i)
  \/ leave_vcpu_cgroup \/ confine \/ raise_this_thread \/ request_slice
  \/ rehome_kvm_workers \/ RehomeApplies

PlacementSpec == PlacementInit /\ [][PlacementNext]_placeVars

(***************************************************************************)
(* Property.                                                               *)
(***************************************************************************)

\* Whose CPUs a placement can name.
Nameable == \A i \in DOMAIN asked.pins : asked.pins[i] < CpuSetSize

WantedCpus(t) ==
  IF t \in VcpuNames THEN PlacementOf(CHOOSE i \in VcpuIds : VcpuName[i] = t)
  ELSE IF t = "gpu" THEN cpu_set(worker_cpus(asked))
  ELSE cpu_set(io_cpus(asked))

Home(t) == IF t \in VcpuNames THEN "vcpu" ELSE "io"

\* Every set the configuration asks for has a CPU where it will be asked for.
CanBeHad == \A t \in Threads :
              WantedCpus(t) # {} => WantedCpus(t) \cap CpusOf(Home(t)) # {}

\* A thread that has settled is on the CPUs the configuration gives it, in the
\* cgroup it belongs to and at its priority, or a warning says otherwise:
\* whoever started it, whatever it inherited, and also for a vCPU thread after
\* it has been out to make a worker.  And a warning has a cause: when every set
\* can be had and the kernel refuses nothing, nothing is refused for being asked
\* in the wrong cgroup (with_io_affinity, confine, rehome_kvm_workers, the vCPU
\* threads of main).
PlacedOrSaid ==
  Nameable =>
    /\ \A t \in Threads :
         AtStage(t, "runs") /\ {t, "main"} \cap warned = {} =>
           /\ WantedCpus(t) # {} =>
                /\ cpus[t] \subseteq WantedCpus(t)
                /\ asked.vcpu_fd => group[t] = Home(t)
           /\ nice[t] <= 0 \/ t = "helper"
    /\ CanBeHad /\ refusals = MaxRefusals => warned = {}
==============================================================================
