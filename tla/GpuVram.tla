------------------------------ MODULE GpuVram ------------------------------
(***************************************************************************)
(* VramAccountant (gpu/vram.rs) beside the renderer whose allocations it   *)
(* counts.  A guest allocates with GEM_NEW records in a submitted stream,  *)
(* names the buffer with RESOURCE_CREATE_BLOB and frees it by the resource *)
(* id, or by destroying the context, which frees everything it made.  A    *)
(* charge therefore goes from `pending` to `live` to gone, and what is     *)
(* credited must be what was charged.                                      *)
(*                                                                         *)
(* A record of a stream is what the parser makes of it; a stream that does *)
(* not parse is one that holds a "bad" one.  The limit refuses nothing,    *)
(* so allocations past it, and those in host memory, are not told apart.   *)
(***************************************************************************)
EXTENDS Naturals, Sequences, SequencesExt, FiniteSetsExt

CONSTANTS
    GpuCtxs,        \* context ids; the ones below are created for the DRM capset
    DrmCtxs,
    BlobIds, ResIds,
    VramSizes,      \* of allocations
    RepeatBlob,     \* whether a driver may name a blob id that is pending again
    MaxCharged      \* bound: the guest stops allocating here

ASSUME VramAssumption ==
    /\ DrmCtxs \subseteq GpuCtxs /\ VramSizes \subseteq Nat
    /\ MaxCharged \in Nat /\ RepeatBlob \in BOOLEAN

VARIABLES
    charged,        \* the total
    pendingCharge,  \* (context, blob id) -> bytes
    liveCharge,     \* resource id -> [bytes, ctx]
    drmContexts,    \* contexts whose submits are command streams
    peak,
    buffers,        \* the renderer's: [ctx, blob, bytes], blob a blob id not yet named
    named,          \* the renderer's: resource id -> [ctx, bytes], for blobs
    rendererCtxs    \* contexts that exist

vramVars == <<charged, pendingCharge, liveCharge, drmContexts, peak,
              buffers, named, rendererCtxs>>

Without(f, keys) == [k \in DOMAIN f \ keys |-> f[k]]
With(f, k, v)    == [j \in DOMAIN f \cup {k} |-> IF j = k THEN v ELSE f[j]]
Monus(a, b)      == IF a < b THEN 0 ELSE a - b
TotalOf(f, bytes(_)) == MapThenSumSet(LAMBDA k : bytes(f[k]), DOMAIN f)

GemNew(blob, size) == [do |-> "vram", blob |-> blob, size |-> size]

Records ==
    {GemNew(b, n) : b \in BlobIds, n \in VramSizes} \cup
    {[do |-> "other"], [do |-> "bad"]}

Streams == {<<r>> : r \in Records} \cup {<<r, s>> : r, s \in Records}

WellFormed(stream) == \A i \in DOMAIN stream : stream[i].do # "bad"
VramRecords(stream) == SelectSeq(stream, LAMBDA r : r.do = "vram")

------------------------------------------------------------------------------
(* The accountant. *)

\* One allocation: into the pending charges, the larger one where there is one.
Propose(ctx, acc, r) ==
    LET key == <<ctx, r.blob>>
        old == IF key \in DOMAIN acc.pend THEN acc.pend[key] ELSE 0
    IN [pend  |-> With(acc.pend, key, IF old < r.size THEN r.size ELSE old),
        total |-> acc.total + r.size]

\* Charged only after the whole stream is known to parse.
observe_submit(ctx, stream) ==
    IF ctx \notin drmContexts \/ ~WellFormed(stream)
    THEN UNCHANGED <<charged, pendingCharge, peak>>
    ELSE LET acc == FoldLeft(LAMBDA a, r : Propose(ctx, a, r),
                             [pend |-> pendingCharge, total |-> charged],
                             VramRecords(stream))
         IN /\ pendingCharge' = acc.pend /\ charged' = acc.total
            /\ peak' = IF peak < acc.total THEN acc.total ELSE peak

claim_blob(ctx, blob, res) ==
    IF <<ctx, blob>> \in DOMAIN pendingCharge
    THEN /\ liveCharge' = With(liveCharge, res, [ctx |-> ctx, bytes |-> pendingCharge[<<ctx, blob>>]])
         /\ pendingCharge' = Without(pendingCharge, {<<ctx, blob>>})
    ELSE UNCHANGED <<liveCharge, pendingCharge>>

release_resource(res) ==
    IF res \in DOMAIN liveCharge
    THEN /\ charged' = Monus(charged, liveCharge[res].bytes)
         /\ liveCharge' = Without(liveCharge, {res})
    ELSE UNCHANGED <<charged, liveCharge>>

\* Only the charges that no blob claimed.
forget_context_unclaimed(ctx) ==
    LET mine == {k \in DOMAIN pendingCharge : k[1] = ctx}
    IN /\ pendingCharge' = Without(pendingCharge, mine)
       /\ charged' = Monus(charged, MapThenSumSet(LAMBDA k : pendingCharge[k], mine))
       /\ drmContexts' = drmContexts \ {ctx}
       /\ UNCHANGED liveCharge

\* Everything the context held, claimed or not.
forget_context(ctx) ==
    LET mine == {k \in DOMAIN pendingCharge : k[1] = ctx}
        made == {r \in DOMAIN liveCharge : liveCharge[r].ctx = ctx}
    IN /\ pendingCharge' = Without(pendingCharge, mine)
       /\ liveCharge' = Without(liveCharge, made)
       /\ charged' = Monus(charged, MapThenSumSet(LAMBDA k : pendingCharge[k], mine)
                                    + MapThenSumSet(LAMBDA r : liveCharge[r].bytes, made))
       /\ drmContexts' = drmContexts \ {ctx}

------------------------------------------------------------------------------
(* The handlers, each with what the renderer does and answers. *)

CreateContext(c) ==
    /\ c \notin rendererCtxs /\ rendererCtxs' = rendererCtxs \cup {c}
    /\ drmContexts' = IF c \in DrmCtxs THEN drmContexts \cup {c} ELSE drmContexts
    /\ UNCHANGED <<charged, pendingCharge, liveCharge, peak, buffers, named>>

\* The renderer rejects a stream that does not parse, and ends one at a blob id
\* that still names a buffer.
Allocates(c, set, r) ==
    IF \E b \in set : b.ctx = c /\ b.blob = r.blob THEN set
    ELSE set \cup {[ctx |-> c, blob |-> r.blob, bytes |-> r.size]}

SubmitCommand(c) ==
    /\ c \in rendererCtxs /\ charged < MaxCharged
    /\ \E stream \in Streams :
          /\ RepeatBlob \/ LET new == VramRecords(stream) IN
                \A i \in DOMAIN new :
                   /\ ~ \E b \in buffers : b.ctx = c /\ b.blob = new[i].blob
                   /\ \A j \in 1 .. i - 1 : new[j].blob # new[i].blob
          /\ observe_submit(c, stream)
          /\ buffers' = IF c \in DrmCtxs /\ WellFormed(stream)
                        THEN FoldLeft(LAMBDA set, r : Allocates(c, set, r), buffers,
                                      VramRecords(stream))
                        ELSE buffers
    /\ UNCHANGED <<liveCharge, drmContexts, named, rendererCtxs>>

CreateBlob(c) ==
    /\ c \in rendererCtxs
    /\ \E blob \in BlobIds, res \in ResIds \ DOMAIN named :
          /\ \E b \in buffers :
                /\ b.ctx = c /\ b.blob = blob
                /\ buffers' = buffers \ {b}
                /\ named' = With(named, res, [ctx |-> c, bytes |-> b.bytes])
          /\ claim_blob(c, blob, res)
    /\ UNCHANGED <<charged, drmContexts, peak, rendererCtxs>>

\* A resource id outlives its context; its memory does not.
UnrefResource ==
    /\ \E res \in DOMAIN named :
          /\ named' = Without(named, {res})
          /\ release_resource(res)
    /\ UNCHANGED <<pendingCharge, drmContexts, peak, buffers, rendererCtxs>>

DestroyContext(c) ==
    /\ c \in rendererCtxs /\ rendererCtxs' = rendererCtxs \ {c}
    /\ buffers' = {b \in buffers : b.ctx # c}
    /\ named' = [res \in DOMAIN named |->
                    IF named[res].ctx = c THEN [named[res] EXCEPT !.bytes = 0] ELSE named[res]]
    /\ forget_context(c)
    /\ UNCHANGED <<peak>>

VramInit ==
    /\ charged = 0 /\ pendingCharge = <<>> /\ liveCharge = <<>> /\ drmContexts = {}
    /\ peak = 0
    /\ buffers = {} /\ named = <<>> /\ rendererCtxs = {}

VramNext ==
    \/ \E c \in GpuCtxs : CreateContext(c) \/ SubmitCommand(c) \/ CreateBlob(c) \/ DestroyContext(c)
    \/ UnrefResource

VramSpec == VramInit /\ [][VramNext]_vramVars

------------------------------------------------------------------------------
(* Properties. *)

\* The total is the charges on record, so freeing everything brings it back to
\* zero (forget_context: "crediting anything less would ratchet a long-lived box
\* toward refusing allocations for memory nobody holds"; observe_submit: of a
\* repeated blob id, "keep the larger charge rather than losing track of one").
ChargesExact ==
    charged = TotalOf(pendingCharge, LAMBDA bytes : bytes)
              + TotalOf(liveCharge, LAMBDA charge : charge.bytes)

\* The total is what the renderer holds for the guest's native contexts, in
\* buffers without a resource id and with one, whatever the order of context and
\* resource destruction ("if these totals and the renderer's disagree, one of
\* them is wrong"); and the peak is no lower.
ChargeTracksRenderer ==
    /\ charged = MapThenSumSet(LAMBDA b : b.bytes, buffers)
                 + TotalOf(named, LAMBDA res : res.bytes)
    /\ charged <= peak
==============================================================================
