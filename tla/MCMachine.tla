----------------------------- MODULE MCMachine -----------------------------
(***************************************************************************)
(* What is set up around a guest, and the bus its vCPUs then address: the  *)
(* jail, the order of main, memory, the placement of threads, and PCI.     *)
(* They share no state.  A behaviour is one of one part; the others rest   *)
(* in an initial state of theirs.                                          *)
(***************************************************************************)
EXTENDS MCPciBus, GuestMemory, Startup, Placement, Jailer

VARIABLE part

MCPinLists == {<<>>, <<0, 1>>, <<1, 5>>}
MCCpuLists == {{}, {1, 2}}

Usb == <<"mnt", "usb">>
Disk == <<"mnt", "usb", "disk">>
PlainJob ==
    [config |-> <<"etc", "box">>, kernel |-> <<"boot", "linux">>, drives |-> <<>>,
     gpu |-> <<>>, forward |-> <<>>, proc_nvidia |-> <<>>, has |-> {}, sockets |-> <<>>,
     shares |-> <<>>, extra |-> <<>>, scratch |-> <<"run", "jail">>, uid |-> 7, gid |-> 7,
     dry |-> FALSE, absolute |-> TRUE, live |-> FALSE, comma |-> FALSE]

\* Paths below, above and on the root of another filesystem, in either order;
\* devices and sockets; and each reason to refuse.
MCJobs ==
    {[PlainJob EXCEPT !.drives = d, !.shares = s, !.extra = e,
                      !.sockets = <<<<"run", "box", "stats">>>>] :
       d \in {<<>>, <<Disk>>},
       s \in {<<>>, <<<<"mnt">>>>, <<Usb>>, <<<<"mnt">>, Usb>>},
       e \in {<<>>, <<<<"srv">>>>, <<<<"dev">>>>, <<Disk>>}}
    \union
    {[PlainJob EXCEPT !.gpu = <<<<"dev", "dri">>>>, !.has = h,
                      !.forward = <<<<"run", "forward">>>>, !.proc_nvidia = <<n>>] :
       h \in {{}, {"network", "vsock"}}, n \in {<<"proc", "driver">>, <<"opt", "nv">>}}
    \union
    {PlainJob, [PlainJob EXCEPT !.dry = TRUE], [PlainJob EXCEPT !.absolute = FALSE],
     [PlainJob EXCEPT !.live = TRUE], [PlainJob EXCEPT !.comma = TRUE],
     [PlainJob EXCEPT !.gid = 0]}

MCHostMounts == {<<>>, <<"proc">>, <<"sys">>, <<"sys", "fs", "cgroup">>, <<"dev">>, <<"run">>, Usb}
MCNodes == {<<"dev", "kvm">>, <<"dev", "dri">>, <<"dev", "vhost-net">>}
MCAbsent == {<<"srv">>}
MCModes ==
    {[other |-> TRUE, group |-> TRUE, gid |-> 0], [other |-> FALSE, group |-> TRUE, gid |-> 5],
     [other |-> FALSE, group |-> TRUE, gid |-> 0], [other |-> FALSE, group |-> FALSE, gid |-> 5]}

mcVars == <<part, vars, memoryVars, startVars, placeVars, jailVars>>

\* The inputs of a part that rests.
PlainSetup == [options |-> {}, gpu |-> "none", filter |-> "off", drives |-> 0, shares |-> 0]
PlainPlacement ==
    [pins |-> <<>>, shared |-> {}, io |-> {}, worker |-> {}, vcpu_fd |-> FALSE, io_fd |-> FALSE]
PlainModes == [n \in MCNodes |-> [other |-> TRUE, group |-> TRUE, gid |-> 0]]

MCInit ==
    /\ part \in {"bus", "memory", "startup", "placement", "jail"}
    /\ \/ part = "memory"
       \/ memSize = 1 /\ addressable = 16 /\ thp = "Denied" /\ wantPrefault = FALSE
    /\ part = "startup" \/ setup = PlainSetup
    /\ part = "placement" \/ asked = PlainPlacement
    /\ part = "jail" \/ (job = PlainJob /\ mode = PlainModes)
    /\ Init /\ MemoryInit /\ StartupInit /\ PlacementInit /\ JailerInit

MCNext ==
    /\ UNCHANGED part
    /\ \/ /\ part = "bus" /\ Next
          /\ UNCHANGED <<memoryVars, startVars, placeVars, jailVars>>
       \/ /\ part = "memory" /\ MemoryNext
          /\ UNCHANGED <<vars, startVars, placeVars, jailVars>>
       \/ /\ part = "startup" /\ StartupNext
          /\ UNCHANGED <<vars, memoryVars, placeVars, jailVars>>
       \/ /\ part = "placement" /\ PlacementNext
          /\ UNCHANGED <<vars, memoryVars, startVars, jailVars>>
       \/ /\ part = "jail" /\ JailerNext
          /\ UNCHANGED <<vars, memoryVars, startVars, placeVars>>

MCSpec == MCInit /\ [][MCNext]_mcVars
=============================================================================
