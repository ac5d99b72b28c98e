------------------------------ MODULE ScopedRun ------------------------------
(***************************************************************************)
(* What run_container_instrumented promises about the containers it       *)
(* starts (spec 4.3, "scoped acquisition with guaranteed cleanup on all   *)
(* exit paths"): each resource is acquired at most once, resources are    *)
(* released in the reverse of the order they were acquired in, and the    *)
(* scope is left only once every acquired resource has been released.     *)
(* A removal of the container is the release; a docker run that fails is  *)
(* no acquisition.                                                         *)
(***************************************************************************)
EXTENDS Naturals, Sequences

CONSTANT Resources

VARIABLES
  held,      \* the resources acquired and not yet released, oldest first
  released,  \* the resources released so far
  closed     \* the scope has been left

\* r is held.
Holds(r) == \E j \in 1 .. Len(held) : held[j] = r

Init ==
  /\ held = <<>>
  /\ released = {}
  /\ closed = FALSE

\* A resource never acquired in this scope is acquired.
Acquire(r) ==
  /\ ~closed
  /\ ~Holds(r) /\ r \notin released
  /\ held' = Append(held, r)
  /\ UNCHANGED <<released, closed>>

\* The resource acquired last of those still held is released.
Release ==
  /\ held # <<>>
  /\ released' = released \cup {held[Len(held)]}
  /\ held' = SubSeq(held, 1, Len(held) - 1)
  /\ UNCHANGED closed

\* The scope is left with nothing held.
Close ==
  /\ ~closed /\ held = <<>>
  /\ closed' = TRUE
  /\ UNCHANGED <<held, released>>

Next == (\E r \in Resources : Acquire(r)) \/ Release \/ Close

Spec == Init /\ [][Next]_<<held, released, closed>>
=============================================================================
