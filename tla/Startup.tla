------------------------------- MODULE Startup -------------------------------
(***************************************************************************)
(* main() of vmm/src/bin/nesbox.rs from a parsed configuration to running  *)
(* vCPUs: the order in which the process enters its namespaces, builds its *)
(* devices, starts threads and virtiofsd children, gives up the network,   *)
(* installs the system call filter and starts the guest.  Every step may   *)
(* fail, which drops what main owns, and the process may be killed at any  *)
(* point.  What a thread or a socket inherits from the thread that makes   *)
(* it is kept: a network namespace is per thread, a filter too unless it   *)
(* is installed with TSYNC.                                                *)
(***************************************************************************)
EXTENDS Naturals, Sequences, FiniteSets

CONSTANTS
  Options,      \* the optional parts a configuration may ask for
  GpuSettings,  \* how "gpu" is configured, and against which renderer
  FilterModes,  \* what "seccomp" may say
  MaxDrives,    \* bound: drives besides the root drive
  MaxShares,    \* bound: shared directories
  Polls         \* bound: looks at the socket before wait_for_socket gives up

ASSUME StartupAssumption ==
  /\ Options \subseteq {"unshare", "vsock", "net", "stats", "control", "nvgpu"}
  /\ GpuSettings \subseteq {"none", "free", "patched", "stock", "unknown"}
  /\ FilterModes \subseteq {"off", "audit", "enforce", "misspelt"}
  /\ MaxDrives \in Nat /\ MaxShares \in Nat /\ Polls \in Nat \ {0}

VARIABLES
  setup,     \* the configuration: [options, gpu, filter, drives, shares]
  todo,      \* the steps of main that are left
  crew,      \* thread -> [net: its namespace, filtered: BOOLEAN]
  privilege, \* the process is in a user namespace of its own
  made,      \* what was opened, bound or spawned -> the namespace it is in
  bus_slots, \* the devices on the bus, in slot order from 1: [kind, intx, msi]
  next_slot, \* main's counter
  next_gsi,  \* IrqManager's
  daemon,    \* share -> [at: where the child is, armed, told: BOOLEAN]
  held,      \* the shares whose child a Virtiofsd value owns
  looks,     \* polls left in wait_for_socket
  vmm        \* "building", "running", "failed" or "killed"

startVars == <<setup, todo, crew, privilege, made, bus_slots, next_slot, next_gsi,
               daemon, held, looks, vmm>>
busVars == <<bus_slots, next_slot, next_gsi>>
procVars == <<daemon, held, looks>>
isoVars == <<privilege, made>>

FirstMsiGsi == 24     \* IOAPIC_PINS: MSI GSIs start past the legacy ones
LastSlot == 31

\* acpi.rs: where the DSDT's _PRT says a slot's INTx line goes.
slot_gsi(slot) == IF slot = 1 THEN 10 ELSE 11

\* The threads a device's constructor starts.
Starts(kind) == CASE kind = "blk" -> {"blk"}
                  [] kind = "console" -> {"stdin"}
                  [] OTHER -> {}

\* The MSI-X vectors main asks for: a queue's each and one for configuration
\* changes with blk (one queue here), a fixed number with the others.
msix_vectors(kind) == CASE kind = "blk" -> 2
                        [] kind = "nvgpu" -> 3
                        [] OTHER -> 4

Asked(o) == o \in setup.options
When(cond, steps) == IF cond THEN steps ELSE <<>>
Step(op) == [op |-> op, arg |-> 0]
Add(kind) == [op |-> "add", arg |-> kind]

\* The blocks of main that build something.
BlkSteps(s) == <<Add("blk")>> \o [n \in 1..s.drives |-> Add("blk")]
VsockSteps(s) == When("vsock" \in s.options, <<Add("vsock")>>)
NetSteps(s) == When("net" \in s.options, <<Add("net")>>)
GpuSteps(s) == When(s.gpu # "none", <<Add("gpu")>>)
ServeSteps(s) == When("stats" \in s.options, <<Step("stats")>>)
                 \o When("control" \in s.options, <<Step("control")>>)
ForwardSteps(s) == When("nvgpu" \in s.options, <<Add("nvgpu")>>)

\* One shared directory: the child, its socket, the device.
ShareSteps(n) == <<[op |-> "fork", arg |-> n], [op |-> "spawned", arg |-> n],
                   [op |-> "wait", arg |-> n], Add("fs")>>

SharesSteps(s) == [k \in 1 .. 4 * s.shares |-> ShareSteps((k + 3) \div 4)[((k - 1) % 4) + 1]]

BuildSteps(s) == BlkSteps(s) \o <<Add("console")>> \o VsockSteps(s) \o NetSteps(s) \o GpuSteps(s)
              \o ServeSteps(s) \o ForwardSteps(s)
              \o SharesSteps(s)

\* main's order with the network given up where the privilege for it is got.
PlanNetworkFirst(s) ==
  When("unshare" \in s.options, <<Step("userns"), Step("netns")>>)
  \o <<Step("renderer"), Step("vm")>> \o BuildSteps(s)
  \o <<Step("signals"), Step("filter"), Step("vcpus")>>

\* Nothing is built past the last device: the network goes, then every system
\* call the build needed.
SealSteps(s) ==
  IF "unshare" \in s.options
  THEN <<Step("signals"), Step("netns"), Step("filter"), Step("vcpus")>>
  ELSE <<Step("signals"), Step("filter"), Step("vcpus")>>

\* main's order.
Plan(s) ==
  When("unshare" \in s.options, <<Step("userns")>>)
  \o <<Step("renderer"), Step("vm")>> \o BuildSteps(s) \o SealSteps(s)

At(op) == vmm = "building" /\ Head(todo).op = op
Go == todo' = Tail(todo) /\ UNCHANGED <<setup, vmm>>

\* A thread starts with what its creator has.
Born(names, parent) ==
  crew' = [t \in DOMAIN crew \cup names |->
             IF t \in DOMAIN crew THEN crew[t] ELSE crew[parent]]

\* Something made on the main thread belongs to that thread's namespace.
Made(what) == made' = [w \in DOMAIN made \cup {what} |->
                         IF w = what THEN crew["main"].net ELSE made[w]]

\* enter_user_namespace: refused once a second thread exists.
enter_user_namespace ==
  /\ At("userns") /\ DOMAIN crew = {"main"}
  /\ privilege' = TRUE
  /\ Go /\ UNCHANGED <<crew, made, busVars, procVars>>

\* renderer::decide: only a limit against a renderer known not to report it
\* stops the boot.
check_renderer ==
  /\ At("renderer") /\ setup.gpu # "stock"
  /\ Go /\ UNCHANGED <<crew, isoVars, busVars, procVars>>

\* Vm::new: the prefault thread is started from here.
CreateVm ==
  /\ At("vm")
  /\ Born({"prefault"}, "main")
  /\ Go /\ UNCHANGED <<isoVars, busVars, procVars>>

\* A device joins without the counter following it.
add_device_arc_uncounted(kind) ==
  /\ Len(bus_slots) < LastSlot
  /\ bus_slots' = Append(bus_slots, [kind |-> kind, intx |-> slot_gsi(next_slot),
                             msi |-> next_gsi .. next_gsi + msix_vectors(kind) - 1])
  /\ next_gsi' = next_gsi + msix_vectors(kind)
  /\ next_slot' = IF kind = "blk" THEN next_slot ELSE next_slot + 1

\* One device, as every block of main builds it: construct, take MSI-X
\* vectors, wire INTx for the slot the counter names, join the bus at the slot
\* the bus counts, step the counter.
add_device_arc(kind) ==
  /\ Len(bus_slots) < LastSlot
  /\ bus_slots' = Append(bus_slots, [kind |-> kind, intx |-> slot_gsi(next_slot),
                             msi |-> next_gsi .. next_gsi + msix_vectors(kind) - 1])
  /\ next_gsi' = next_gsi + msix_vectors(kind)
  /\ next_slot' = next_slot + 1

AddDevice ==
  /\ At("add")
  /\ add_device_arc(Head(todo).arg)
  /\ Born(Starts(Head(todo).arg), "main")
  /\ IF Head(todo).arg = "net" THEN Made("tap") ELSE UNCHANGED made
  /\ Go /\ UNCHANGED <<privilege, procVars>>

\* stats::serve and control::serve: bind, then the serving thread.
Serve(name) ==
  /\ At(name)
  /\ Made(name) /\ Born({name}, "main")
  /\ Go /\ UNCHANGED <<privilege, busVars, procVars>>

\* Virtiofsd::spawn up to the fork.
Fork ==
  /\ At("fork")
  /\ daemon' = [daemon EXCEPT ![Head(todo).arg].at = "forked"]
  /\ Made("virtiofsd")
  /\ Go /\ UNCHANGED <<crew, privilege, busVars, held, looks>>

\* Command::spawn comes back once the child has run its hook and its exec.
InHook(n) == daemon[n].at \in {"forked", "hooked"}

\* Virtiofsd::spawn after it: a Virtiofsd value owns the child before anything
\* else can fail.
Spawned ==
  /\ At("spawned") /\ ~InHook(Head(todo).arg)
  /\ held' = held \cup {Head(todo).arg}
  /\ looks' = Polls
  /\ Go /\ UNCHANGED <<crew, isoVars, busVars, daemon>>

\* wait_for_socket: the socket is there; or one more look.
wait_for_socket ==
  LET n == Head(todo).arg IN
  /\ At("wait")
  /\ \/ /\ daemon[n].at = "listening"
        /\ Go /\ UNCHANGED looks
     \/ /\ daemon[n].at \notin {"listening", "dead"} /\ looks > 1
        /\ looks' = looks - 1
        /\ UNCHANGED <<todo, setup, vmm>>
  /\ UNCHANGED <<crew, isoVars, busVars, daemon, held>>

InstallSignalHandlers ==
  /\ At("signals") /\ Go
  /\ UNCHANGED <<crew, isoVars, busVars, procVars>>

\* unshare(CLONE_NEWNET) moves the thread that calls it.
enter_network_namespace ==
  /\ At("netns") /\ privilege
  /\ crew' = [crew EXCEPT !["main"].net = "own"]
  /\ Go /\ UNCHANGED <<isoVars, busVars, procVars>>

\* install(prog, true): TSYNC puts it on every thread there is.
FilterAll ==
  crew' = [t \in DOMAIN crew |-> [crew[t] EXCEPT !.filtered = setup.filter # "off"]]

apply_baseline ==
  /\ At("filter") /\ setup.filter # "misspelt"
  /\ FilterAll
  /\ Go /\ UNCHANGED <<isoVars, busVars, procVars>>

StartVcpus ==
  /\ At("vcpus")
  /\ Born({"vcpu", "watcher"}, "main")
  /\ vmm' = "running" /\ todo' = <<>>
  /\ UNCHANGED <<setup, isoVars, busVars, procVars>>

\* The guest's activation write makes a vCPU thread start a device's worker.
ActivateFromGuest ==
  /\ vmm = "running" /\ "worker" \notin DOMAIN crew
  /\ \E i \in DOMAIN bus_slots : bus_slots[i].kind \in {"gpu", "nvgpu"}
  /\ Born({"worker"}, "vcpu")
  /\ UNCHANGED <<setup, todo, isoVars, busVars, procVars, vmm>>

Alive(n) == daemon[n].at \notin {"none", "dead"}

\* A step of main fails, for a reason of its own or one of the host's: main
\* returns, and each Virtiofsd value it owns is dropped, which kills and reaps
\* the child.  Command::spawn fails only when the child ended in its hook.
BootFails ==
  /\ vmm = "building" /\ (At("spawned") => daemon[Head(todo).arg].at = "dead")
  /\ vmm' = "failed"
  /\ daemon' = [n \in DOMAIN daemon |->
                  IF n \in held THEN [daemon[n] EXCEPT !.at = "dead"] ELSE daemon[n]]
  /\ held' = {} /\ crew' = <<>>
  /\ UNCHANGED <<setup, todo, isoVars, busVars, looks>>

\* The process is killed: nothing of its own runs.  The kernel signals the
\* children that asked for it.
Killed ==
  /\ vmm \in {"building", "running"}
  /\ vmm' = "killed"
  /\ daemon' = [n \in DOMAIN daemon |->
                  [daemon[n] EXCEPT !.told = daemon[n].armed /\ Alive(n)]]
  /\ held' = {} /\ crew' = <<>>
  /\ UNCHANGED <<setup, todo, isoVars, busVars, looks>>

ParentThere == vmm \in {"building", "running"}

\* The hook the other way round: look for the parent, then ask.
PreExecChecksFirst(n) ==
  \/ /\ daemon[n].at = "forked"
     /\ daemon' = [daemon EXCEPT ![n].at = IF ParentThere THEN "hooked" ELSE "dead"]
  \/ /\ daemon[n].at = "hooked"
     /\ daemon' = [daemon EXCEPT ![n].armed = TRUE, ![n].at = "serving"]

\* The child's pre_exec hook: ask for SIGTERM on the parent's death, and then
\* leave if the parent went before it could ask; then the exec.  A refused
\* prctl ends the child too.
pre_exec(n) ==
  \/ /\ daemon[n].at = "forked"
     /\ \/ daemon' = [daemon EXCEPT ![n].armed = TRUE, ![n].at = "hooked"]
        \/ daemon' = [daemon EXCEPT ![n].at = "dead"]
  \/ /\ daemon[n].at = "hooked"
     /\ daemon' = [daemon EXCEPT ![n].at = IF ParentThere THEN "serving" ELSE "dead"]

\* virtiofsd: it makes its socket, it stops when told, it may die by itself.
DaemonRuns(n) ==
  \/ /\ daemon[n].at = "serving"
     /\ daemon' = [daemon EXCEPT ![n].at = "listening"]
  \/ /\ Alive(n) /\ daemon[n].told
     /\ daemon' = [daemon EXCEPT ![n].at = "dead"]
  \/ /\ daemon[n].at \in {"serving", "listening"}
     /\ daemon' = [daemon EXCEPT ![n].at = "dead"]

ChildStep(n) ==
  /\ pre_exec(n) \/ DaemonRuns(n)
  /\ UNCHANGED <<setup, todo, crew, isoVars, busVars, held, looks, vmm>>

StartupInit ==
  /\ setup \in [options : SUBSET Options, gpu : GpuSettings, filter : FilterModes,
                drives : 0..MaxDrives, shares : 0..MaxShares]
  /\ todo = Plan(setup)
  /\ crew = [t \in {"main"} |-> [net |-> "host", filtered |-> FALSE]]
  /\ privilege = FALSE /\ made = <<>>
  /\ bus_slots = <<>> /\ next_slot = 1 /\ next_gsi = FirstMsiGsi
  /\ daemon = [n \in 1..MaxShares |-> [at |-> "none", armed |-> FALSE, told |-> FALSE]]
  /\ held = {} /\ looks = 0 /\ vmm = "building"

MainThread ==
  \/ enter_user_namespace \/ check_renderer \/ CreateVm \/ AddDevice
  \/ Serve("stats") \/ Serve("control")
  \/ Fork \/ Spawned \/ wait_for_socket
  \/ InstallSignalHandlers \/ enter_network_namespace \/ apply_baseline \/ StartVcpus

StartupNext ==
  \/ MainThread
  \/ BootFails \/ Killed \/ ActivateFromGuest
  \/ \E n \in 1..MaxShares : ChildStep(n)

StartupSpec == StartupInit /\ [][StartupNext]_startVars

(***************************************************************************)
(* Properties.                                                             *)
(***************************************************************************)

\* While the guest runs, every thread of the process is under the filter that
\* was asked for, including those that existed before it was installed and the
\* workers vCPU threads start later; with unshare-network the threads that
\* serve the guest are off the host's network, and the tap, the sockets and
\* virtiofsd, which have to stay reachable from it, are still on it (the order
\* main and enter_network_namespace call for).
SealedBeforeGuest ==
  vmm = "running" =>
    /\ \A t \in DOMAIN crew : crew[t].filtered = (setup.filter # "off")
    /\ \A t \in DOMAIN crew \cap {"vcpu", "watcher", "worker"} :
         crew[t].net = IF Asked("unshare") THEN "own" ELSE "host"
    /\ \A w \in DOMAIN made : made[w] = "host"

\* Whatever devices a configuration asks for, the INTx line wired for each is
\* the one the ACPI _PRT publishes for the slot the bus put it in, and no two
\* devices share an MSI GSI or take a legacy one (main's next_slot against the
\* bus's own count and IrqManager's).
IntxFollowsSlot ==
  /\ \A i \in DOMAIN bus_slots :
       bus_slots[i].intx = slot_gsi(i) /\ \A g \in bus_slots[i].msi : g >= FirstMsiGsi
  /\ \A i, j \in DOMAIN bus_slots : i # j => bus_slots[i].msi \cap bus_slots[j].msi = {}

\* A virtiofsd child never outlives the process unnoticed: after a boot that
\* failed none is left, wherever it failed; after a kill, one that got as far as
\* its exec has been sent SIGTERM, also when the kill fell between the fork and
\* the hook's request for the signal (Virtiofsd::spawn, its Drop).
DaemonsEndWithUs ==
  /\ vmm = "failed" => \A n \in DOMAIN daemon : ~Alive(n)
  /\ vmm = "killed" => \A n \in DOMAIN daemon :
                         daemon[n].at \in {"serving", "listening"} => daemon[n].told
==============================================================================
