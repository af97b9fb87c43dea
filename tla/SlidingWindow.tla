--------------------------- MODULE SlidingWindow ---------------------------
(***************************************************************************)
(* What the RATE_LIMIT option promises.  This limiter remembers every call *)
(* there has ever been; the one in pkg/config keeps a handful of stamps.   *)
(* A call is refused when the interval that ends with it already holds     *)
(* `attempts` calls, and calls that are refused count as calls.            *)
(***************************************************************************)
EXTENDS Integers, Sequences, FiniteSets

VARIABLES
  limit,      \* [attempts, interval]; attempts = 0: there is no limit
  now,        \* the clock
  calls,      \* the times of all calls, in order
  admitted    \* the positions in calls of the calls that were let through

vars == <<limit, now, calls, admitted>>

RecentCalls == {i \in DOMAIN calls : calls[i] >= now - limit.interval}

Refuses ==
  limit.attempts > 0 /\ Cardinality(RecentCalls) >= limit.attempts

Init ==
  /\ limit \in [attempts : Nat, interval : Nat]
  /\ now \in Nat
  /\ calls \in Seq(Int)
  /\ \A i \in DOMAIN calls : calls[i] <= now
  /\ \A i, j \in DOMAIN calls : i <= j => calls[i] <= calls[j]
  /\ admitted = {}

Call ==
  /\ calls' = Append(calls, now)
  /\ admitted' = IF Refuses THEN admitted ELSE admitted \union {Len(calls')}
  /\ UNCHANGED <<limit, now>>

Advance ==
  /\ now' \in Nat
  /\ now' > now
  /\ UNCHANGED <<limit, calls, admitted>>

Next == Call \/ Advance

Spec == Init /\ [][Next]_vars
=============================================================================
