---------------------------- MODULE SingletonLease ----------------------------
(***************************************************************************)
(* What the local worker's database lease promises, without saying how the  *)
(* worker keeps the promise: one holder at a time, and the lease changes    *)
(* hands only when its holder gives it up or when its time has run out.     *)
(* LocalWorker implements this specification.                               *)
(***************************************************************************)
EXTENDS Integers

CONSTANTS
  Worker,     \* processes that may hold the lease
  Nobody,     \* the lease is free
  Departed,   \* the identity of a process that no longer exists
  Lease,      \* length of the lease, in ticks
  MaxLag      \* how many ticks old the clock reading used by a claim may be

VARIABLES
  holder,     \* who holds the lease
  left        \* ticks until the lease expires, negative once it has

leaseVars == <<holder, left>>

NoTime == 0 - MaxLag

LeaseInit == holder = Nobody /\ left = NoTime

\* The lease is given for Lease ticks counted from a clock reading that may be
\* up to MaxLag ticks old; only a free or expired lease can be acquired.
Acquire(w) ==
  /\ left <= 0
  /\ holder' = w
  /\ left' \in (Lease - MaxLag)..Lease

Renew(w) == holder = w /\ left' = Lease /\ UNCHANGED holder

Release(w) == holder = w /\ holder' = Nobody /\ left' = NoTime

\* An expired lease may be cleared by anybody.
Clear == left <= 0 /\ holder' = Nobody /\ left' = NoTime

\* The holder's process ends; its lease stays in the database.
Depart(w) == holder = w /\ holder' = Departed /\ UNCHANGED left

Pass ==
  /\ left' = IF left > NoTime THEN left - 1 ELSE NoTime
  /\ UNCHANGED holder

LeaseNext ==
  \/ \E w \in Worker : Acquire(w) \/ Renew(w) \/ Release(w) \/ Depart(w)
  \/ Clear
  \/ Pass

LeaseSpec == LeaseInit /\ [][LeaseNext]_leaseVars
===============================================================================
