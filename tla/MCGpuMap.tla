------------------------------ MODULE MCGpuMap ------------------------------
(* Instance of GpuMap for TLC. *)
EXTENDS GpuMap

\* Unbounded, bounded by bytes, bounded by count.
SmallLimits == {<<0, 0>>, <<1, 0>>, <<0, 1>>}
=============================================================================
