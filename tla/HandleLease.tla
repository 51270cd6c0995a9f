----------------------------- MODULE HandleLease -----------------------------
(***************************************************************************)
(* What a kernel may rely on when it asks for a MuDNN handle, without the  *)
(* mutex, the weak pointers and the thread-local windows that provide it:  *)
(* a handle belongs to one device, is leased to at most one thread at a    *)
(* time, a thread leases at most one handle per device, and once the pool  *)
(* is closed nothing is leased any more.  MudnnHandlePool is shown to      *)
(* implement this specification.                                           *)
(***************************************************************************)
CONSTANTS Thread,       \* threads that run kernels
          Device,       \* device ordinals
          Handle,       \* identities of ::musa::dnn::Handle objects
          Absent, Free  \* known to no table / leased to nobody

VARIABLES owner,        \* [Handle -> the leasing thread, Free or Absent]
          home,         \* [Handle -> the device it was created on, or Absent]
          open          \* the pool still lends handles

leaseVars == <<owner, home, open>>

LeaseInit ==
  /\ owner = [h \in Handle |-> Absent]
  /\ home = [h \in Handle |-> Absent]
  /\ open = TRUE

HoldsOn(t, d) == \E h \in Handle : owner[h] = t /\ home[h] = d

\* An idle handle of the device is leased to a thread that has none there.
Grant(t, d, h) ==
  /\ open
  /\ ~HoldsOn(t, d)
  /\ owner[h] = Free /\ home[h] = d
  /\ owner' = [owner EXCEPT ![h] = t]
  /\ UNCHANGED <<home, open>>

\* With no idle handle left on the device a new one is made for the thread.
GrantNew(t, d, h) ==
  /\ open
  /\ ~HoldsOn(t, d)
  /\ owner[h] = Absent
  /\ \A g \in Handle : home[g] = d => owner[g] # Free
  /\ owner' = [owner EXCEPT ![h] = t]
  /\ home' = [home EXCEPT ![h] = d]
  /\ UNCHANGED open

\* A thread gives a lease back; an open pool can lend the handle again.
GiveBack(t, h) ==
  /\ open
  /\ owner[h] = t
  /\ owner' = [owner EXCEPT ![h] = Free]
  /\ UNCHANGED <<home, open>>

\* A thread that outlives the pool takes its handles with it.
Abandon(t) ==
  /\ ~open
  /\ owner' = [h \in Handle |-> IF owner[h] = t THEN Absent ELSE owner[h]]
  /\ home' = [h \in Handle |-> IF owner[h] = t THEN Absent ELSE home[h]]
  /\ UNCHANGED open

\* The pool goes away, and the handles nobody leases with it.
Close ==
  /\ open
  /\ open' = FALSE
  /\ owner' = [h \in Handle |-> IF owner[h] = Free THEN Absent ELSE owner[h]]
  /\ home' = [h \in Handle |-> IF owner[h] = Free THEN Absent ELSE home[h]]

LeaseNext ==
  \/ \E t \in Thread, h \in Handle :
       \/ \E d \in Device : Grant(t, d, h) \/ GrantNew(t, d, h)
       \/ GiveBack(t, h)
  \/ \E t \in Thread : Abandon(t)
  \/ Close

LeaseSpec == LeaseInit /\ [][LeaseNext]_leaseVars
=============================================================================
