----------------------------- MODULE Lifecycle -----------------------------
(***************************************************************************)
(* The end of a VM: the threads main starts (bin/nesbox.rs), the loop of a *)
(* vCPU thread (vm.rs), the stop request and its reason (lifecycle.rs,     *)
(* power.rs), and the virtiofsd supervisors that die with it.              *)
(***************************************************************************)
EXTENDS Naturals, FiniteSets

CONSTANTS
    NumVcpus,
    Shares,         \* shared directories, each with its daemon
    MayPanic        \* bound: whether a vCPU thread may panic

ASSUME LifecycleAssumption == NumVcpus \in Nat \ {0} /\ IsFiniteSet(Shares) /\ MayPanic \in BOOLEAN

VARIABLES
    requested, reason,      \* Shutdown
    signalled,              \* STOP_SIGNALLED
    vcpuAt,                 \* a vCPU thread: "check", "enter", "guest" or "gone"
    count,                  \* vcpus_exited
    watcher,                \* "watch", "wake", "nap" or "gone"
    main,                   \* "watcher", "vcpus", "stopped", "daemons", "unwind" or "exited"
    panicked,               \* vCPU threads that ended in a panic
    joined,                 \* vCPU threads main has joined: their ids are free
    daemon,                 \* a share's virtiofsd: "up", "died" (unreaped) or "reaped"
    sockets,                \* the shares whose socket is on disk
    code,                   \* the exit code
    causes                  \* history: the reasons requested, in order

lifeVars == <<requested, reason, signalled, vcpuAt, count, watcher, main, panicked, joined,
              daemon, sockets, code, causes>>

shutdown == <<requested, reason, causes>>
mainVars == <<main, panicked, joined, daemon, sockets, code>>

VcpuThreads == 1 .. NumVcpus

------------------------------------------------------------------------------
(* lifecycle.rs *)

NoReason == "none"

exit_code(r) ==
    CASE r \in {"PowerOff", "HostSignal"} -> 0
      [] r = "Reset" -> 2
      [] r = "GuestFault" -> 3
      [] r = "Error" -> 1

\* What a process whose main panicked exits with.
PanicCode == 101

\* Whoever asks last is reported.
request_last(r) ==
    /\ reason' = r
    /\ requested' = TRUE
    /\ causes' = IF causes = NoReason THEN r ELSE causes

request(r) ==
    /\ reason' = IF reason = NoReason THEN r ELSE reason
    /\ requested' = TRUE
    /\ causes' = IF causes = NoReason THEN r ELSE causes

------------------------------------------------------------------------------
(* A vCPU thread: run_vcpu_loop and the guard that counts it out. *)

\* CountOnDrop, on every way out of the thread.
Leave(v) == vcpuAt' = [vcpuAt EXCEPT ![v] = "gone"] /\ count' = count + 1

Loop(v, at) == vcpuAt' = [vcpuAt EXCEPT ![v] = at] /\ UNCHANGED count

LoopHead(v) ==
    /\ vcpuAt[v] = "check"
    /\ IF requested THEN Leave(v) ELSE Loop(v, "enter")
    /\ UNCHANGED <<shutdown, signalled, watcher, mainVars>>

\* From here on a signal interrupts the ioctl.
EnterGuest(v) ==
    /\ vcpuAt[v] = "enter"
    /\ Loop(v, "guest")
    /\ UNCHANGED <<shutdown, signalled, watcher, mainVars>>

\* Port and memory accesses the devices answer, EAGAIN of an application
\* processor, and a register of the power device written without its "do it" bit.
HandledExit(v) ==
    /\ vcpuAt[v] = "guest"
    /\ Loop(v, "check")
    /\ UNCHANGED <<shutdown, signalled, watcher, mainVars>>

\* PowerDevice::write with SLP_EN and S5, or the reset bit.
PowerWrite(v) ==
    /\ vcpuAt[v] = "guest"
    /\ \E r \in {"PowerOff", "Reset"} : request(r)
    /\ Loop(v, "check")
    /\ UNCHANGED <<signalled, watcher, mainVars>>

\* Hlt, Shutdown and Exception; FailEntry, InternalError and a failed KVM_RUN.
FatalExit(v) ==
    /\ vcpuAt[v] = "guest"
    /\ \E r \in {"GuestFault", "Error"} : request(r)
    /\ Leave(v)
    /\ UNCHANGED <<signalled, watcher, mainVars>>

\* A device's handler panics: nothing is requested.
Panic(v) ==
    /\ MayPanic /\ vcpuAt[v] = "guest"
    /\ Leave(v) /\ panicked' = panicked \cup {v}
    /\ UNCHANGED <<shutdown, signalled, watcher, main, joined, daemon, sockets, code>>

------------------------------------------------------------------------------
(* The watcher. *)

\* stop_handler, on a thread of the kernel's choice: a vCPU in the guest may be
\* the one that is interrupted.
StopSignal ==
    /\ main # "exited"
    /\ signalled' = TRUE
    /\ \/ UNCHANGED vcpuAt
       \/ \E v \in VcpuThreads : vcpuAt[v] = "guest" /\ vcpuAt' = [vcpuAt EXCEPT ![v] = "check"]
    /\ UNCHANGED <<shutdown, count, watcher, mainVars>>

\* One turn of the loop that waits for a request; the sleep ends it.
Watch ==
    /\ watcher = "watch"
    /\ \/ requested /\ watcher' = "wake" /\ UNCHANGED shutdown
       \/ ~requested /\ signalled /\ request("HostSignal") /\ watcher' = "wake"
       \/ ~requested /\ ~signalled /\ count = NumVcpus
            /\ watcher' = "gone" /\ UNCHANGED shutdown
    /\ UNCHANGED <<signalled, vcpuAt, count, mainVars>>

\* One signal to every vCPU thread, and then no more.
WakeOnce ==
    /\ watcher = "wake"
    /\ vcpuAt' = [v \in VcpuThreads |-> IF vcpuAt[v] = "guest" THEN "check" ELSE vcpuAt[v]]
    /\ watcher' = "gone"
    /\ UNCHANGED <<shutdown, signalled, count, mainVars>>

\* pthread_kill for every thread: a vCPU inside KVM_RUN comes out with EINTR, for
\* one outside it the handler runs and the signal is spent.
Wake ==
    /\ watcher = "wake"
    /\ IF count < NumVcpus
         THEN /\ vcpuAt' = [v \in VcpuThreads |-> IF vcpuAt[v] = "guest" THEN "check" ELSE vcpuAt[v]]
              /\ watcher' = "nap"
         ELSE watcher' = "gone" /\ UNCHANGED vcpuAt
    /\ UNCHANGED <<shutdown, signalled, count, mainVars>>

Nap ==
    /\ watcher = "nap"
    /\ watcher' = "wake"
    /\ UNCHANGED <<shutdown, signalled, vcpuAt, count, mainVars>>

------------------------------------------------------------------------------
(* main, from the joins on. *)

JoinWatcher ==
    /\ main = "watcher" /\ watcher = "gone"
    /\ main' = "vcpus"
    /\ UNCHANGED <<shutdown, signalled, vcpuAt, count, watcher, panicked, joined, daemon, sockets, code>>

\* In the order they were started; the unwrap panics main for a thread that did.
JoinVcpu ==
    /\ main = "vcpus"
    /\ \E v \in VcpuThreads \ joined :
         /\ 1 .. (v - 1) \subseteq joined
         /\ vcpuAt[v] = "gone"
         /\ joined' = joined \cup {v}
         /\ main' = CASE v \in panicked -> "unwind"
                      [] v \notin panicked /\ v = NumVcpus -> "stopped"
                      [] OTHER -> "vcpus"
    /\ UNCHANGED <<shutdown, signalled, vcpuAt, count, watcher, panicked, daemon, sockets, code>>

AllStopped ==
    /\ main = "stopped"
    /\ request("Error")
    /\ main' = "daemons"
    /\ UNCHANGED <<signalled, vcpuAt, count, watcher, panicked, joined, daemon, sockets, code>>

\* Virtiofsd::drop: kill, wait, remove the socket and the pidfile.
DropDaemon ==
    /\ main \in {"daemons", "unwind"}
    /\ \E s \in Shares :
          /\ daemon[s] # "reaped"
          /\ daemon' = [daemon EXCEPT ![s] = "reaped"]
          /\ sockets' = sockets \ {s}
    /\ UNCHANGED <<shutdown, signalled, vcpuAt, count, watcher, main, panicked, joined, code>>

ExitProcess ==
    /\ main \in {"daemons", "unwind"} /\ \A s \in Shares : daemon[s] = "reaped"
    /\ main' = "exited"
    /\ code' = IF main = "unwind" THEN PanicCode
               ELSE exit_code(IF reason = NoReason THEN "GuestFault" ELSE reason)
    /\ UNCHANGED <<shutdown, signalled, vcpuAt, count, watcher, panicked, joined, daemon, sockets>>

\* A virtiofsd crashes.
DaemonDies ==
    /\ \E s \in Shares : daemon[s] = "up" /\ daemon' = [daemon EXCEPT ![s] = "died"]
    /\ UNCHANGED <<shutdown, signalled, vcpuAt, count, watcher, main, panicked, joined, sockets, code>>

------------------------------------------------------------------------------
LifeInit ==
    /\ requested = FALSE /\ reason = NoReason /\ signalled = FALSE
    /\ vcpuAt = [v \in VcpuThreads |-> "check"] /\ count = 0
    /\ watcher = "watch" /\ main = "watcher" /\ joined = {} /\ panicked = {}
    /\ daemon = [s \in Shares |-> "up"] /\ sockets = Shares
    /\ code = 0 /\ causes = NoReason

\* The threads end with the process.
VcpuStep(v) == main # "exited" /\ (LoopHead(v) \/ EnterGuest(v))
GuestExit(v) == main # "exited" /\ (HandledExit(v) \/ PowerWrite(v) \/ FatalExit(v) \/ Panic(v))
WatcherStep == Watch \/ Wake \/ Nap
MainStep == JoinWatcher \/ JoinVcpu \/ AllStopped \/ DropDaemon \/ ExitProcess

LifeNext ==
    \/ \E v \in VcpuThreads : VcpuStep(v) \/ GuestExit(v)
    \/ StopSignal \/ WatcherStep \/ MainStep \/ DaemonDies

LifeSpec ==
    /\ LifeInit /\ [][LifeNext]_lifeVars
    /\ \A v \in VcpuThreads : WF_lifeVars(VcpuStep(v))
    /\ WF_lifeVars(WatcherStep) /\ WF_lifeVars(MainStep)

------------------------------------------------------------------------------
(* Properties. *)

\* Once a stop is asked for, by the guest, by a failing vCPU or by a signal to
\* the process, the process exits: a vCPU that had checked the flag and was about
\* to enter an idle guest is woken again until it is out.
StopEnds == requested \/ signalled ~> main = "exited"

\* No vCPU thread's id is freed by a join while the watcher may still signal it.
SignalsLiveThreads == watcher # "gone" => joined = {}

\* The exit code tells the first cause: later requests, those that the shutdown
\* itself triggers among them, do not displace it.  Only a panic is reported as
\* one.
FirstCauseReported ==
    main = "exited" => code = IF panicked = {} THEN exit_code(causes) ELSE PanicCode

\* The shutdown is orderly: it signals only threads that are there, and reports
\* what began it.
OrderlyStop == SignalsLiveThreads /\ FirstCauseReported
==============================================================================
