---------------------------- MODULE VhostDevice ----------------------------
(***************************************************************************)
(* The devices whose queues somebody else serves: virtio-net and           *)
(* virtio-vsock (in the kernel, vhost), virtio-fs and virtio-gpu-nv (in a  *)
(* backend process, vhost-user).  The guest's driver programs registers;   *)
(* DRIVER_OK makes `activate` hand memory, features, rings and eventfds to *)
(* the backend, one call after another, any of which can fail and end the  *)
(* attempt where it stands; status 0 makes `reset` take the rings back.    *)
(* A register access holds the device's lock, so nothing else of the       *)
(* device runs during an activation; doorbells and the backend do.         *)
(*                                                                         *)
(* Of the features only those that some decision depends on are kept:      *)
(* MAC, CSUM, HOST_* and the other GUEST_* bits are treated as GUEST_TSO   *)
(* is, or by nobody here.  Queue sizes are left out.                       *)
(***************************************************************************)
EXTENDS Naturals, Sequences

CONSTANTS
    VhostKinds,     \* of "net", "vsock", "fs", "nvgpu"
    Wishes,         \* bound: the sets of features a driver asks for
    MaxLives,       \* bound: how often a driver takes the device over
    MaxFaults       \* bound: backend calls that fail

ASSUME VhostAssumption ==
    /\ VhostKinds \subseteq {"net", "vsock", "fs", "nvgpu"}
    /\ MaxLives \in Nat \ {0} /\ MaxFaults \in Nat

VARIABLES
    kind,           \* which device
    able,           \* backend_features
    status,         \* ComCfg.st: "reset", "driver" or "driver_ok"
    word,           \* ComCfg.dff: the feature word the driver writes next
    accepted,       \* the features the driver believes it negotiated
    df,             \* ComCfg.df
    queueSel,       \* qs
    queues,         \* QState: the ring's address (0, or whose it is) and vec
    msixOn,         \* MsixTable.enabled
    step,           \* the call `activate` makes next, 0 when it does not run
    running, owned, \* Inner
    backend,        \* what the backend was told
    kicked,         \* queues whose kick eventfd is signalled
    lives,          \* drivers so far
    failures,       \* backend calls that failed
    torn,           \* one of them left some rings attached and not others
    misuse          \* the backend refused a call it is entitled to refuse

vhostVars == <<kind, able, status, word, accepted, df, queueSel, queues, msixOn, step,
               running, owned, backend, kicked, lives, failures, torn, misuse>>

\* What no register write changes by itself, and what `activate` leaves alone.
registers == <<status, word, accepted, df, queueSel, queues, msixOn, lives>>
devices   == <<kind, able>>

NumQueues(k) == IF k = "vsock" THEN 3 ELSE 2
Queues       == 0 .. NumQueues(kind) - 1

\* The queues the backend serves: vsock keeps its event queue.
Backed == 0 .. 1

BoundVectors == 0 .. 2
NoVec        == 65535
VecChoices   == {1, 9, NoVec}

\* The call eventfds that belong to no vector: the INTx line, and none.
Intx   == 256
NoCall == 257

new_queues(k) ==
    [q \in 0 .. NumQueues(k) - 1 |-> [ring |-> 0, vec |-> q]]

------------------------------------------------------------------------------
(* Features. *)

HighWord == {"V1"}
RingBits == {"EVENT_IDX"}

\* net.rs offers what the tap carries out, and ring layouts the kernel has.
NetFeatures   == {"V1", "MRG_RXBUF", "GUEST_CSUM", "GUEST_TSO"} \cup (able \cap RingBits)
VsockFeatures == {"V1"} \cup (able \cap RingBits)
UserFeatures  == {"V1"}

features ==
    CASE kind = "net"   -> NetFeatures
      [] kind = "vsock" -> VsockFeatures
      [] OTHER          -> UserFeatures

AlwaysAble(k) ==
    CASE k = "net"   -> {"V1", "MRG_RXBUF"}
      [] k = "vsock" -> {"V1"}
      [] OTHER       -> {"V1", "PROTOCOL"}

\* A driver walks the selector past the two words the features occupy; read as
\* "not zero is the high word", the third write wipes the high word.
write_driver_feature_high(value) ==
    IF word = 0 THEN (df \cap HighWord) \cup (value \ HighWord)
                ELSE (df \ HighWord) \cup (IF word = 1 THEN value \cap HighWord ELSE {})

write_driver_feature(value) ==
    CASE word = 0 -> (df \cap HighWord) \cup (value \ HighWord)
      [] word = 1 -> (df \ HighWord) \cup (value \cap HighWord)
      [] OTHER    -> df

acked == df \cap features

\* Features as the backend is told them: the kernel's net backend refuses what
\* it does not have, and a vhost-user backend is also told the protocol bit.
ToldFeatures ==
    CASE kind = "net"   -> acked \cap able
      [] kind = "vsock" -> acked
      [] OTHER          -> acked \cup (able \cap {"PROTOCOL"})

HdrSize == IF acked \cap {"MRG_RXBUF", "V1"} # {} THEN 12 ELSE 10

\* Segmentation rides on checksum offload.
tap_offload_flags ==
    IF "GUEST_CSUM" \in acked
    THEN {"CSUM"} \cup (IF "GUEST_TSO" \in acked THEN {"TSO"} ELSE {})
    ELSE {}

------------------------------------------------------------------------------
(* The backend, as vhost and vhost-user define it. *)

NoRing == [ring |-> 0, call |-> NoCall]

NewBackend(k) ==
    [owner |-> k = "nvgpu", told |-> {}, mem |-> FALSE, rings |-> [q \in Backed |-> NoRing],
     attached |-> {}, hdr |-> 0, offloads |-> {}]

\* The eventfd of the queue's vector, or the INTx line without one.
call_fd(vec) ==
    CASE ~msixOn \/ vec = NoVec              -> Intx
      [] msixOn /\ vec \in BoundVectors      -> vec
      [] OTHER                               -> NoCall

\* What the backend is entitled to refuse: a second owner, a feature it does
\* not have, a ring that is being served.
Refuses(call) ==
    \/ call.do = "owner"    /\ backend.owner /\ ~owned
    \/ call.do = "features" /\ ~(ToldFeatures \subseteq able)
    \/ call.do = "ring"     /\ call.q \in backend.attached

\* A device that owns its backend does not ask again.
Skips(call) == call.do = "owner" /\ owned

\* A call the device itself gives up on before or instead of making it.
GivesUp(call) ==
    call.do = "ring" /\ (queues[call.q].ring = 0 \/ call_fd(queues[call.q].vec) = NoCall)

Told(call) ==
    CASE call.do = "hdr"      -> [backend EXCEPT !.hdr = HdrSize]
      [] call.do = "offload"  -> [backend EXCEPT !.offloads = tap_offload_flags]
      [] call.do = "owner"    -> [backend EXCEPT !.owner = TRUE]
      [] call.do = "features" -> [backend EXCEPT !.told = ToldFeatures]
      [] call.do = "mem"      -> [backend EXCEPT !.mem = TRUE]
      [] call.do = "ring"     -> [backend EXCEPT !.rings[call.q] =
                                     [ring |-> queues[call.q].ring,
                                      call |-> call_fd(queues[call.q].vec)]]
      [] call.do = "attach"   -> [backend EXCEPT !.attached = @ \cup call.qs]
      [] OTHER                -> backend

\* A ring takes five calls: the address can be there and the call eventfd not.
HalfRing(q) == [backend EXCEPT !.rings[q].ring = queues[q].ring]

------------------------------------------------------------------------------
(* What `activate` calls, in order. *)

Call(what)   == [do |-> what]
Ring(q)      == [do |-> "ring", q |-> q]
Attach(qs)   == [do |-> "attach", qs |-> qs]

\* Attaching inside the loop over the rings starts queue 0 before queue 1 is told.
NetActivateEager ==
    <<Call("hdr"), Call("offload"), Call("owner"), Call("features"), Call("mem"),
      Ring(0), Attach({0}), Ring(1), Attach({1})>>

NetActivate ==
    <<Call("hdr"), Call("offload"), Call("owner"), Call("features"), Call("mem"),
      Ring(0), Ring(1), Attach({0}), Attach({1})>>

VsockActivate ==
    <<Call("owner"), Call("features"), Call("mem"), Ring(0), Ring(1), Call("cid"), Attach(Backed)>>

FsActivate ==
    <<Call("owner"), Call("features"), Call("protocol"), Call("mem"), Ring(0), Ring(1),
      Attach({0}), Attach({1})>>

NvActivate ==
    <<Call("features"), Call("protocol"), Call("request_channel"), Call("mem"),
      Ring(0), Ring(1), Attach({0}), Attach({1})>>

Plan ==
    CASE kind = "net"   -> NetActivate
      [] kind = "vsock" -> VsockActivate
      [] kind = "fs"    -> FsActivate
      [] OTHER          -> NvActivate

------------------------------------------------------------------------------
(* The driver's register writes, before it says DRIVER_OK. *)

Locked == step # 0
SettingUp == ~Locked /\ status = "driver"

\* A selector past the last queue means the last one.
sq(sel) == IF sel < NumQueues(kind) THEN sel ELSE NumQueues(kind) - 1

\* The driver takes the device over and decides what it will accept.
TakeOver ==
    /\ ~Locked /\ status = "reset" /\ lives < MaxLives
    /\ \E wish \in Wishes : accepted' = wish \cap features
    /\ status' = "driver" /\ lives' = lives + 1 /\ word' = 0
    /\ UNCHANGED <<devices, df, queueSel, queues, msixOn, step, running, owned, backend,
                   kicked, failures, torn, misuse>>

WriteFeatures ==
    /\ SettingUp /\ word < 3
    /\ df' = write_driver_feature(accepted)
    /\ word' = word + 1
    /\ UNCHANGED <<devices, status, accepted, queueSel, queues, msixOn, lives, step, running,
                   owned, backend, kicked, failures, torn, misuse>>

\* The next queue: select it, give it a vector and an address.
ProgramQueue ==
    /\ SettingUp /\ word = 3
    /\ \E q \in Queues : \E vec \in IF q \in Backed THEN VecChoices ELSE {q} :
          /\ queueSel' = q
          /\ queues[q].ring = 0 /\ \A p \in 0 .. q - 1 : queues[p].ring # 0
          /\ queues' = [queues EXCEPT ![sq(q)] = [ring |-> lives, vec |-> vec]]
    /\ UNCHANGED <<devices, status, word, accepted, df, msixOn, lives, step, running, owned,
                   backend, kicked, failures, torn, misuse>>

write_msix_enable ==
    /\ SettingUp /\ word = 3
    /\ msixOn' = ~msixOn
    /\ UNCHANGED <<devices, status, word, accepted, df, queueSel, queues, lives, step, running,
                   owned, backend, kicked, failures, torn, misuse>>

------------------------------------------------------------------------------
(* The status register: DRIVER_OK, and 0. *)

\* A driver may write DRIVER_OK again; a device that runs takes no notice.
WriteDriverOk ==
    /\ ~Locked /\ status # "reset" /\ word = 3
    /\ status' = "driver_ok"
    /\ step' = IF running THEN 0 ELSE 1
    /\ UNCHANGED <<devices, word, accepted, df, queueSel, queues, msixOn, lives, running, owned,
                   backend, kicked, failures, torn, misuse>>

\* The next call goes through, or need not be made.
CallDone ==
    /\ Locked
    /\ LET call == Plan[step] IN
          /\ ~GivesUp(call) /\ ~Refuses(call)
          /\ backend' = Told(call)
          /\ LET last == step = Len(Plan) IN
                /\ step' = IF last THEN 0 ELSE step + 1
                /\ running' = last
          /\ owned' = (owned \/ call.do = "owner")
    /\ UNCHANGED <<devices, registers, kicked, failures, torn, misuse>>

\* It does not: `?` ends the activation, and nothing done so far is undone.
Abandon ==
    /\ step' = 0
    /\ torn' = (torn \/ backend.attached # {})
    /\ UNCHANGED <<devices, registers, running, owned, kicked>>

CallRefused ==
    /\ Locked
    /\ LET call == Plan[step] IN
          /\ ~(call.do = "ring" /\ queues[call.q].ring = 0)
          /\ Refuses(call)
    /\ misuse' = TRUE
    /\ UNCHANGED <<backend, failures>>
    /\ Abandon

CallGivenUp ==
    /\ Locked
    /\ LET call == Plan[step] IN
          /\ GivesUp(call)
          /\ ~Refuses(call) \/ queues[call.q].ring = 0
          /\ backend' = IF queues[call.q].ring = 0 THEN backend ELSE HalfRing(call.q)
    /\ UNCHANGED <<failures, misuse>>
    /\ Abandon

CallFails ==
    /\ Locked /\ failures < MaxFaults
    /\ LET call == Plan[step] IN
          /\ ~GivesUp(call) /\ ~Refuses(call) /\ ~Skips(call)
          /\ \/ backend' = backend
             \/ call.do = "ring" /\ backend' = HalfRing(call.q)
    /\ failures' = failures + 1
    /\ UNCHANGED misuse
    /\ Abandon

\* The rings that can stay attached when their detaching fails: net, fs and
\* nvgpu go on with the next queue, vsock stops both in one call.
NetReset   == SUBSET Backed
VsockReset == {{}, Backed}
FsReset    == SUBSET Backed
NvReset    == SUBSET Backed

\* A device that was not running leaves the backend alone.
Kept ==
    CASE ~running              -> {backend.attached}
      [] running /\ failures = MaxFaults -> {{}}
      [] OTHER -> CASE kind = "net"   -> NetReset
                    [] kind = "vsock" -> VsockReset
                    [] kind = "fs"    -> FsReset
                    [] OTHER          -> NvReset

ResetDevice(owner) ==
    /\ ~Locked /\ status # "reset"
    /\ status' = "reset"
    /\ running' = FALSE /\ owned' = owner
    /\ queues' = new_queues(kind) /\ queueSel' = 0
    /\ \E kept \in Kept :
          /\ backend' = [backend EXCEPT !.attached = kept]
          /\ LET failed == running /\ kept # {} IN
                /\ failures' = failures + (IF failed THEN 1 ELSE 0)
                /\ torn' = (torn \/ failed)
    /\ UNCHANGED <<devices, word, accepted, df, msixOn, step, kicked, lives, misuse>>

\* A reset that forgets the backend has its owner already.
reset_disowned == ResetDevice(FALSE)

reset_device == ResetDevice(owned)

------------------------------------------------------------------------------
(* Doorbells and the backend need no lock. *)

Kick ==
    /\ status = "driver_ok"
    /\ \E q \in Backed : q \notin kicked /\ kicked' = kicked \cup {q}
    /\ UNCHANGED <<devices, registers, step, running, owned, backend, failures, torn, misuse>>

\* The backend serves an attached queue and consumes its kick.
Serve ==
    /\ \E q \in kicked \cap backend.attached : kicked' = kicked \ {q}
    /\ UNCHANGED <<devices, registers, step, running, owned, backend, failures, torn, misuse>>

VhostInit ==
    /\ kind \in VhostKinds
    /\ \E extra \in SUBSET (IF kind \in {"net", "vsock"} THEN RingBits ELSE {}) :
          able = AlwaysAble(kind) \cup extra
    /\ status = "reset" /\ word = 3 /\ accepted = {} /\ df = {}
    /\ queueSel = 0 /\ queues = new_queues(kind) /\ msixOn = FALSE
    /\ step = 0 /\ running = FALSE /\ owned = FALSE
    /\ backend = NewBackend(kind) /\ kicked = {}
    /\ lives = 0 /\ failures = 0 /\ torn = FALSE /\ misuse = FALSE

VhostNext ==
    \/ TakeOver \/ WriteFeatures \/ ProgramQueue \/ write_msix_enable
    \/ WriteDriverOk \/ CallDone \/ CallRefused \/ CallGivenUp \/ CallFails
    \/ reset_device \/ Kick \/ Serve

VhostSpec == VhostInit /\ [][VhostNext]_vhostVars

------------------------------------------------------------------------------
(* Properties. *)

\* A backend that serves any ring was first told, by this driver's activation,
\* all of them: memory, an owner, each ring's own address and the eventfd the
\* driver's vector means now.  So nothing is served before DRIVER_OK, and after
\* a reset nothing of the former driver's rings is.  (activate: "by this point
\* every queue is ready to be serviced"; not so once an activation or a reset
\* stopped half way.)
ServedIsReady ==
    ~torn /\ backend.attached # {} =>
        /\ status = "driver_ok" /\ backend.owner /\ backend.mem
        /\ \A q \in Backed : backend.rings[q] = [ring |-> lives, call |-> call_fd(queues[q].vec)]

\* While rings are served, driver, backend and tap agree: on the ring layout and
\* the header's size, and the tap passes up only what the driver can take.
NegotiationAgrees ==
    ~torn /\ backend.attached # {} =>
        /\ backend.told \cap (RingBits \cup HighWord) = accepted \cap (RingBits \cup HighWord)
        /\ kind = "net" =>
              /\ backend.hdr = 12 <=> (accepted \cap {"V1", "MRG_RXBUF"} # {})
              /\ "CSUM" \in backend.offloads <=> "GUEST_CSUM" \in accepted
              /\ "TSO" \in backend.offloads => {"GUEST_CSUM", "GUEST_TSO"} \subseteq accepted

\* Over any number of activations, failures and resets the backend is never
\* given a call it must refuse (owned: "a second activation after a guest reset
\* must not repeat it").
NeverRefused == ~torn => ~misuse
==============================================================================
