----------------------------- MODULE RateLimiter -----------------------------
(***************************************************************************)
(* The in-memory sliding window limiter of app/middleware.  A key's lock   *)
(* is never held across a suspension point (the section it guards has no   *)
(* await, and an asyncio.Lock that is free is taken without yielding), so  *)
(* each call is one step of the event loop.  A key that is not in          *)
(* _requests and one with an empty deque behave alike.  The clock is       *)
(* time.time(), taken not to step back.                                    *)
(***************************************************************************)
EXTENDS SlidingWindow

CONSTANT MaxTime  \* bound on the clock

ASSUME MaxTimeAssumption == MaxTime \in Nat

VARIABLE requests  \* _requests: the deque of timestamps of each key

vars == <<windowVars, requests>>

TypeOK ==
  /\ now \in 0..MaxTime
  /\ admitted \in [Keys -> Seq(0..now)]
  /\ until \in [Keys -> Nat]
  /\ requests \in [Keys -> Seq(0..now)]

Init == WindowInit /\ requests = [k \in Keys |-> <<>>]

-----------------------------------------------------------------------------
(* check_limit *)

(* Mutant of Expired: the oldest admissible timestamp is dropped too. *)
MutantExpired(t) == t + Window <= now

Expired(t) == t + Window < now

(* The while loop pops n timestamps from the left of s. *)
Pops(s, n) ==
  /\ \A i \in 1..n : Expired(s[i])
  /\ n < Len(s) => ~Expired(s[n + 1])

Drop(s, n) == SubSeq(s, n + 1, Len(s))

(* Mutant of Allow: the deque holds the times at which requests expire. *)
MutantAllow(k, n) ==
  /\ Pops(requests[k], n)
  /\ Len(requests[k]) - n < Limit
  /\ requests' = [requests EXCEPT ![k] = Append(Drop(@, n), now + Window)]
  /\ admitted' = [admitted EXCEPT ![k] = Append(@, now)]
  /\ until' = [until EXCEPT ![k] = 0]
  /\ UNCHANGED now

Allow(k, n) ==
  /\ Pops(requests[k], n)
  /\ Len(requests[k]) - n < Limit
  /\ requests' = [requests EXCEPT ![k] = Append(Drop(@, n), now)]
  /\ admitted' = [admitted EXCEPT ![k] = Append(@, now)]
  /\ until' = [until EXCEPT ![k] = 0]
  /\ UNCHANGED now

(* Mutant of RetryAfter: rounded down. *)
MutantRetryAfter(s) ==
  IF s = <<>> THEN Window \div PerSecond
  ELSE (Window - (now - s[1])) \div PerSecond

(* In whole seconds: int(window - (now - oldest)) + 1, and the window for  *)
(* a limit of zero.                                                        *)
RetryAfter(s) ==
  IF s = <<>> THEN Window \div PerSecond
  ELSE (Window - (now - s[1])) \div PerSecond + 1

Reject(k, n) ==
  /\ Pops(requests[k], n)
  /\ Len(requests[k]) - n >= Limit
  /\ requests' = [requests EXCEPT ![k] = Drop(@, n)]
  /\ until' = [until EXCEPT ![k] = now + RetryAfter(Drop(requests[k], n)) * PerSecond]
  /\ UNCHANGED <<now, admitted>>

-----------------------------------------------------------------------------
(* cleanup_expired_keys *)

(* Mutant of Idle: the oldest timestamp decides, against a single window.  *)
MutantIdle(s) == s = <<>> \/ s[1] + Window < now

Idle(s) == s = <<>> \/ s[Len(s)] + 2 * Window < now

CleanupExpiredKeys ==
  /\ requests' = [k \in Keys |-> IF Idle(requests[k]) THEN <<>> ELSE requests[k]]
  /\ UNCHANGED windowVars

-----------------------------------------------------------------------------

PassTime == now < MaxTime /\ Tick /\ UNCHANGED requests

(* The process restarts: the promise starts afresh. *)
Restart == Forget /\ requests' = [k \in Keys |-> <<>>]

Next ==
  \/ PassTime \/ Restart \/ CleanupExpiredKeys
  \/ \E k \in Keys : \E n \in 0..Len(requests[k]) : Allow(k, n) \/ Reject(k, n)

Spec == Init /\ [][Next]_vars

-----------------------------------------------------------------------------
(* Properties *)

(* No window of Window ticks, wherever it starts, holds more than Limit    *)
(* admitted requests of a key: pruning and cleanup forget no request that  *)
(* still counts.                                                           *)
Spaced(a) == \A i \in 1..(Len(a) - Limit) : a[i + Limit] > a[i] + Window

LimitHolds == \A k \in Keys : Spaced(admitted[k])

(* Why it holds, the inductive invariant: the deque r is what is left of   *)
(* the admitted times a, in order, once expired ones have been forgotten.  *)
KeyInv(a, r) ==
  /\ \A i, j \in 1..Len(a) : i <= j => a[i] <= a[j]
  /\ Len(r) <= Len(a)
  /\ \A i \in 1..Len(r) : r[i] = a[Len(a) - Len(r) + i]
  /\ \A i \in 1..(Len(a) - Len(r)) : Expired(a[i])
  /\ Spaced(a)

LimiterInv == TypeOK /\ \A k \in Keys : KeyInv(admitted[k], requests[k])

(* A deque never holds more than Limit, so the oldest timestamp that is    *)
(* left at a refusal is the blocking one; a promise outlasts its window.   *)
PromiseInv ==
  \A k \in Keys :
    /\ Len(requests[k]) <= Limit
    /\ until[k] # 0 /\ Limit # 0 =>
         Len(admitted[k]) >= Limit /\ until[k] > Blocking(k) + Window

(* A client that waits as long as Retry-After says is admitted, if nobody  *)
(* else used its key meanwhile.                                            *)
RetryAfterSuffices ==
  \A k \in Keys : until[k] # 0 /\ until[k] <= now /\ Limit # 0 => Room(k)

(* Every answer is the one the sliding window calls for: nothing is        *)
(* refused, either, because of a request that has left the window, and a   *)
(* refused client waits less than a second longer than it must.            *)
ImplementsSlidingWindow == WindowSpec
=============================================================================
