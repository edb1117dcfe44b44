----------------------------- MODULE VringIndex -----------------------------
(***************************************************************************)
(* The free-running ring indices of a split virtqueue and the question     *)
(* both sides of an EVENT_IDX queue ask of them (common.rs).  In the code  *)
(* an index is a u16, so IdxMod is 65536; nothing here depends on it.      *)
(***************************************************************************)
EXTENDS Integers

CONSTANT IdxMod     \* number of values of a ring index: 2^16 in the code

ASSUME IdxModAssumption == IdxMod \in Nat /\ IdxMod > 1

Index == 0 .. IdxMod - 1

\* u16::wrapping_add for a step that is itself at most one turn of the index.
wrapping_add(a, b) == IF a + b >= IdxMod THEN a + b - IdxMod ELSE a + b

\* u16::wrapping_sub
wrapping_sub(a, b) == IF a >= b THEN a - b ELSE a - b + IdxMod

\* Mutant: plain comparisons, wrong once the index has wrapped.
need_event_plain(event, new, old) == event < new /\ event >= old

\* Has the index the other side is waiting for been passed by the batch that
\* moved the index from old to new?
vring_need_event(event, new, old) ==
    wrapping_sub(wrapping_sub(new, event), 1) < wrapping_sub(new, old)

\* The indices published when an index moves from old to new.
Published(old, new) == {wrapping_add(old, k) : k \in 0 .. wrapping_sub(new, old) - 1}
=============================================================================
