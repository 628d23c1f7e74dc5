------------------------------- MODULE Clock -------------------------------
(***************************************************************************)
(* Instant::now() of the one process, in ticks since it was started.       *)
(***************************************************************************)
EXTENDS Naturals

CONSTANT MaxTime    \* bound on the ticks of a behaviour

VARIABLE now

\* now.duration_since(t) <= d, for a t that is not in the future.
Within(t, d) == now <= t + d
=============================================================================
