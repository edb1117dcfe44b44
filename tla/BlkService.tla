----------------------------- MODULE BlkService -----------------------------
(***************************************************************************)
(* What a block queue promises its driver, without rings, slots, engines   *)
(* or threads: a chain the driver posts is answered once, by the device,   *)
(* and comes back once; a reset takes everything back at a stroke.         *)
(***************************************************************************)
CONSTANT Heads
VARIABLES
    up,       \* is the queue enabled?
    chain     \* who has each chain: "driver", "device" or (answered) "ring"

vars == <<up, chain>>

Init == up = FALSE /\ chain = [h \in Heads |-> "driver"]

Start == ~up /\ up' = TRUE /\ UNCHANGED chain

Move(h, from, to) ==
    /\ up /\ chain[h] = from
    /\ chain' = [chain EXCEPT ![h] = to]
    /\ UNCHANGED up

Post(h)   == Move(h, "driver", "device")
Answer(h) == Move(h, "device", "ring")
Reap(h)   == Move(h, "ring", "driver")

Reset == up /\ up' = FALSE /\ chain' = [h \in Heads |-> "driver"]

Next == Start \/ Reset \/ \E h \in Heads : Post(h) \/ Answer(h) \/ Reap(h)

Spec == Init /\ [][Next]_vars
=============================================================================
