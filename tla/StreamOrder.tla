-------------------------------- MODULE StreamOrder --------------------------------
(***************************************************************************)
(* What the framework relies on when it puts work on the streams of a      *)
(* device: the work of one stream is done in the order it was put there,   *)
(* and work behind an event waits for the work before the event.           *)
(***************************************************************************)
EXTENDS Naturals, Sequences

CONSTANT Streams

VARIABLES
  work,    \* all work so far: sequence of [stream, after], after = 0 for none
  pending  \* numbers of the work that is not done

vars == <<work, pending>>

Init == work = <<>> /\ pending = {}

Issue(s, after) ==
  /\ work' = Append(work, [stream |-> s, after |-> after])
  /\ pending' = pending \cup {Len(work) + 1}

Execute(n) ==
  /\ n \in pending
  /\ \A m \in pending : m < n => work[m].stream # work[n].stream
  /\ work[n].after \notin pending
  /\ pending' = pending \ {n}
  /\ UNCHANGED work

Next ==
  \/ \E s \in Streams : \E after \in 0..Len(work) : Issue(s, after)
  \/ \E n \in pending : Execute(n)

Spec == Init /\ [][Next]_vars
=============================================================================
