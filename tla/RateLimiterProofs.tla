------------------------- MODULE RateLimiterProofs -------------------------
(***************************************************************************)
(* Theorems about RateLimiter, for any keys, limit, window and clock.      *)
(***************************************************************************)
EXTENDS RateLimiter, SequenceTheorems, TLAPS

(* The assumptions on the constants, in the form the proofs use. *)
LEMMA Constants ==
  /\ Limit \in Nat /\ Window \in Nat /\ PerSecond \in Nat \ {0}
  /\ MaxTime \in Nat
  BY WindowAssumption, MaxTimeAssumption

(* A sequence of times without its first n elements. *)
LEMMA DropProperties ==
  ASSUME NEW T, NEW s \in Seq(T), NEW n \in 0..Len(s)
  PROVE  /\ Drop(s, n) \in Seq(T)
         /\ Len(Drop(s, n)) = Len(s) - n
         /\ \A i \in 1..(Len(s) - n) : Drop(s, n)[i] = s[i + n]
  BY DEF Drop

(* Popping expired timestamps keeps the deque a suffix of the admitted     *)
(* times that has lost expired ones only.                                  *)
LEMMA PopKeepsInv ==
  ASSUME now \in Nat, NEW a \in Seq(Nat), NEW r \in Seq(Nat), KeyInv(a, r),
         NEW n \in 0..Len(r), Pops(r, n)
  PROVE  KeyInv(a, Drop(r, n))
<1> DEFINE d == Drop(r, n)
<1>1. /\ d \in Seq(Nat)
      /\ Len(d) = Len(r) - n
      /\ \A i \in 1..Len(d) : d[i] = r[i + n]
  BY DropProperties
<1>2. /\ Len(r) <= Len(a)
      /\ \A i \in 1..Len(r) : r[i] = a[Len(a) - Len(r) + i]
      /\ \A i \in 1..(Len(a) - Len(r)) : Expired(a[i])
      /\ Len(a) \in Nat /\ Len(r) \in Nat /\ Len(d) \in Nat
  BY <1>1 DEF KeyInv
<1>3. Len(d) <= Len(a)
  BY <1>1, <1>2
<1>4. \A i \in 1..Len(d) : d[i] = a[Len(a) - Len(d) + i]
  <2> SUFFICES ASSUME NEW i \in 1..Len(d) PROVE d[i] = a[Len(a) - Len(d) + i]
    OBVIOUS
  <2>1. i + n \in 1..Len(r)
    BY <1>1, <1>2
  <2>2. Len(a) - Len(r) + (i + n) = Len(a) - Len(d) + i
    BY <1>1, <1>2
  <2>3. QED
    BY <1>1, <1>2, <2>1, <2>2
<1>5. \A i \in 1..(Len(a) - Len(d)) : Expired(a[i])
  <2> SUFFICES ASSUME NEW i \in 1..(Len(a) - Len(d)) PROVE Expired(a[i])
    OBVIOUS
  <2>1. CASE i <= Len(a) - Len(r)
    BY <1>2, <2>1
  <2>2. CASE i > Len(a) - Len(r)
    <3> DEFINE j == i - (Len(a) - Len(r))
    <3>1. j \in 1..n /\ j \in 1..Len(r) /\ Len(a) - Len(r) + j = i
      BY <1>1, <1>2, <2>2
    <3>2. r[j] = a[i]
      BY <1>2, <3>1
    <3>3. QED
      BY <3>1, <3>2 DEF Pops
  <2>3. QED
    BY <1>1, <1>2, <2>1, <2>2
<1>6. QED
  BY <1>3, <1>4, <1>5 DEF KeyInv

(* A request admitted with fewer than Limit timestamps left in the deque   *)
(* is more than a window away from the one Limit places before it.         *)
LEMMA AdmitKeepsInv ==
  ASSUME now \in Nat, NEW a \in Seq(0..now), NEW r \in Seq(0..now), KeyInv(a, r),
         Len(r) < Limit
  PROVE  KeyInv(Append(a, now), Append(r, now))
<1> USE Constants
<1> DEFINE b == Append(a, now)
           q == Append(r, now)
<1>1. /\ Len(a) \in Nat /\ Len(r) \in Nat
      /\ Len(b) = Len(a) + 1 /\ Len(q) = Len(r) + 1
      /\ \A i \in 1..Len(a) : b[i] = a[i] /\ a[i] \in 0..now
      /\ \A i \in 1..Len(r) : q[i] = r[i]
      /\ b[Len(a) + 1] = now /\ q[Len(r) + 1] = now
  OBVIOUS
<1>2. \A i, j \in 1..Len(b) : i <= j => b[i] <= b[j]
  <2> SUFFICES ASSUME NEW i \in 1..Len(b), NEW j \in 1..Len(b), i <= j
               PROVE  b[i] <= b[j]
    OBVIOUS
  <2>1. CASE j <= Len(a)
    BY <1>1, <2>1 DEF KeyInv
  <2>2. CASE j = Len(a) + 1
    BY <1>1, <2>2
  <2>3. QED
    BY <1>1, <2>1, <2>2
<1>3. \A i \in 1..Len(q) : q[i] = b[Len(b) - Len(q) + i]
  <2> SUFFICES ASSUME NEW i \in 1..Len(q) PROVE q[i] = b[Len(b) - Len(q) + i]
    OBVIOUS
  <2>1. CASE i <= Len(r)
    <3>1. Len(a) - Len(r) + i \in 1..Len(a) /\ r[i] = a[Len(a) - Len(r) + i]
      BY <1>1, <2>1 DEF KeyInv
    <3>2. QED
      BY <1>1, <2>1, <3>1
  <2>2. CASE i = Len(r) + 1
    <3>1. Len(b) - Len(q) + i = Len(a) + 1
      BY <1>1, <2>2
    <3>2. QED
      BY <1>1, <2>2, <3>1
  <2>3. i <= Len(r) \/ i = Len(r) + 1
    BY <1>1
  <2>4. QED
    BY <2>1, <2>2, <2>3
<1>4. \A i \in 1..(Len(b) - Len(q)) : Expired(b[i])
  BY <1>1 DEF KeyInv
<1>5. Spaced(b)
  <2> SUFFICES ASSUME NEW i \in 1..(Len(b) - Limit) PROVE b[i + Limit] > b[i] + Window
    BY DEF Spaced
  <2>1. CASE i + Limit <= Len(a)
    <3>1. i \in 1..(Len(a) - Limit) /\ i \in 1..Len(a) /\ i + Limit \in 1..Len(a)
      BY <1>1, <2>1
    <3>2. a[i + Limit] > a[i] + Window
      BY <3>1 DEF KeyInv, Spaced
    <3>3. QED
      BY <1>1, <3>1, <3>2
  <2>2. CASE i + Limit = Len(a) + 1
    <3>1. i \in 1..(Len(a) - Len(r)) /\ i \in 1..Len(a)
      BY <1>1, <2>2
    <3>2. a[i] + Window < now
      BY <3>1 DEF KeyInv, Expired
    <3>3. b[i] = a[i] /\ b[i + Limit] = now
      BY <1>1, <2>2, <3>1
    <3>4. QED
      BY <3>2, <3>3
  <2>3. i \in 1..(Len(a) + 1 - Limit) /\ Len(a) \in Nat
    BY <1>1
  <2>4. i + Limit <= Len(a) \/ i + Limit = Len(a) + 1
    BY <2>3
  <2>5. QED
    BY <2>1, <2>2, <2>4
<1>6. Len(q) <= Len(b)
  BY <1>1 DEF KeyInv
<1>7. QED
  BY <1>2, <1>3, <1>4, <1>5, <1>6 DEF KeyInv

(* Forgetting a deque whose last timestamp has expired. *)
LEMMA CleanupKeepsInv ==
  ASSUME now \in Nat, NEW a \in Seq(0..now), NEW r \in Seq(0..now), KeyInv(a, r), Idle(r)
  PROVE  KeyInv(a, <<>>)
<1> USE Constants
<1>1. Len(a) \in Nat /\ Len(r) \in Nat /\ Len(<<>>) = 0
  OBVIOUS
<1>2. \A i \in 1..Len(a) : Expired(a[i])
  <2> SUFFICES ASSUME NEW i \in 1..Len(a) PROVE Expired(a[i])
    OBVIOUS
  <2>1. CASE i <= Len(a) - Len(r)
    BY <1>1, <2>1 DEF KeyInv
  <2>2. CASE i > Len(a) - Len(r)
    <3>1. Len(r) # 0 /\ Len(a) # 0
      BY <1>1, <2>2
    <3>2. r[Len(r)] + 2 * Window < now
      BY <1>1, <3>1 DEF Idle
    <3>3. r[Len(r)] = a[Len(a)] /\ a[i] <= a[Len(a)]
      BY <1>1, <3>1 DEF KeyInv
    <3>4. a[i] \in Nat /\ a[Len(a)] \in Nat
      BY <1>1, <3>1
    <3>5. QED
      BY <3>2, <3>3, <3>4 DEF Expired
  <2>3. QED
    BY <1>1, <2>1, <2>2
<1>3. QED
  BY <1>1, <1>2 DEF KeyInv

(* What has expired stays expired as time passes. *)
LEMMA PassTimeKeepsInv ==
  ASSUME NEW a \in Seq(Nat), NEW r \in Seq(Nat), now \in Nat, now' = now + 1, KeyInv(a, r)
  PROVE  KeyInv(a, r)'
<1> SUFFICES ASSUME NEW i \in 1..(Len(a) - Len(r)) PROVE Expired(a[i])'
  BY DEF KeyInv, Spaced
<1>1. a[i] \in Nat /\ Expired(a[i])
  BY DEF KeyInv
<1>2. QED
  BY <1>1, Constants DEF Expired

(* Integer division stays in the naturals. *)
LEMMA DivNat == ASSUME NEW a \in Nat, NEW b \in Nat \ {0} PROVE a \div b \in Nat
  OBVIOUS

(* So does a product. *)
LEMMA ProductNat == ASSUME NEW a \in Nat, NEW b \in Nat PROVE a * b \in Nat
  OBVIOUS

(* Every step keeps the variables in their types. *)
LEMMA NextTypeOK == TypeOK /\ [Next]_vars => TypeOK'
<1> SUFFICES ASSUME TypeOK, [Next]_vars PROVE TypeOK'
  OBVIOUS
<1> USE Constants DEF TypeOK, vars, windowVars
<1>1. CASE PassTime
  <2>1. now \in Nat /\ now' = now + 1 /\ 0..now \subseteq 0..now'
    BY <1>1 DEF PassTime, Tick
  <2>2. ASSUME NEW s \in Seq(0..now) PROVE s \in Seq(0..now')
    BY <2>1, SeqMonotonic
  <2>3. admitted' \in [Keys -> Seq(0..now')] /\ requests' \in [Keys -> Seq(0..now')]
    BY <1>1, <2>2 DEF PassTime, Tick
  <2>4. now' \in 0..MaxTime /\ until' \in [Keys -> Nat]
    BY <1>1 DEF PassTime, Tick
  <2>5. QED
    BY <2>3, <2>4
<1>2. CASE Restart
  BY <1>2 DEF Restart, Forget
<1>3. CASE CleanupExpiredKeys
  <2>1. <<>> \in Seq(0..now)
    OBVIOUS
  <2>2. QED
    BY <1>3, <2>1 DEF CleanupExpiredKeys
<1>4. ASSUME NEW k \in Keys, NEW n \in 0..Len(requests[k]), Allow(k, n) PROVE TypeOK'
  <2>1. Drop(requests[k], n) \in Seq(0..now) /\ now \in 0..now
    BY DropProperties
  <2>2. QED
    BY <1>4, <2>1 DEF Allow
<1>5. ASSUME NEW k \in Keys, NEW n \in 0..Len(requests[k]), Reject(k, n) PROVE TypeOK'
  <2> DEFINE d == Drop(requests[k], n)
  <2>1. d \in Seq(0..now)
    BY DropProperties
  <2>2. now + RetryAfter(d) * PerSecond \in Nat
    <3>1. RetryAfter(d) \in Nat
      <4>1. CASE d = <<>>
        BY <4>1, DivNat DEF RetryAfter
      <4>2. CASE d # <<>>
        <5>1. /\ n < Len(requests[k])
              /\ d[1] = requests[k][n + 1]
              /\ requests[k][n + 1] \in 0..now
          <6>1. Len(d) # 0 /\ Len(d) = Len(requests[k]) - n /\ Len(requests[k]) \in Nat
            BY <2>1, <4>2, DropProperties
          <6>2. 1 \in 1..(Len(requests[k]) - n) /\ n + 1 \in 1..Len(requests[k])
            BY <6>1
          <6>3. d[1] = requests[k][1 + n]
            <7>1. \A i \in 1..(Len(requests[k]) - n) : d[i] = requests[k][i + n]
              BY DropProperties
            <7>2. QED
              BY <6>2, <7>1
          <6>4. requests[k][n + 1] \in 0..now
            BY <6>2, ElementOfSeq
          <6>5. QED
            BY <6>1, <6>2, <6>3, <6>4
        <5>2. ~Expired(d[1])
          BY <1>5, <5>1 DEF Reject, Pops
        <5>3. Window - (now - d[1]) \in Nat
          BY <5>1, <5>2 DEF Expired
        <5>4. (Window - (now - d[1])) \div PerSecond \in Nat
          BY <5>3, DivNat
        <5>5. QED
          BY <4>2, <5>4 DEF RetryAfter
      <4>3. QED
        BY <4>1, <4>2
    <3>2. RetryAfter(d) * PerSecond \in Nat
      BY <3>1, ProductNat
    <3>3. QED
      BY <3>2
  <2>3. QED
    BY <1>5, <2>1, <2>2 DEF Reject
<1>6. CASE UNCHANGED vars
  BY <1>6
<1>7. QED
  BY <1>1, <1>2, <1>3, <1>4, <1>5, <1>6 DEF Next

(* Every call of the limiter keeps the invariant of every key. *)
LEMMA NextKeyInv ==
  ASSUME LimiterInv, [Next]_vars, NEW c \in Keys
  PROVE  KeyInv(admitted[c], requests[c])'
<1> USE DEF LimiterInv
<1>1. /\ now \in Nat
      /\ admitted[c] \in Seq(0..now) /\ requests[c] \in Seq(0..now)
      /\ 0..now \subseteq Nat
  BY DEF TypeOK
<1>2. admitted[c] \in Seq(Nat) /\ requests[c] \in Seq(Nat)
  BY <1>1, SeqMonotonic
<1>3. KeyInv(admitted[c], requests[c])
  OBVIOUS
<1>4. CASE PassTime
  <2>1. now' = now + 1 /\ UNCHANGED <<admitted, requests>>
    BY <1>4 DEF PassTime, Tick
  <2>2. QED
    BY <1>1, <1>2, <1>3, <2>1, PassTimeKeepsInv
<1>5. CASE Restart
  <2>1. admitted'[c] = <<>> /\ requests'[c] = <<>> /\ Len(<<>>) = 0
    BY <1>5 DEF Restart, Forget
  <2>2. QED
    BY <2>1, Constants DEF KeyInv, Spaced
<1>6. ASSUME UNCHANGED now, KeyInv(admitted'[c], requests'[c])
      PROVE  KeyInv(admitted[c], requests[c])'
  BY <1>6 DEF KeyInv, Spaced, Expired
<1>7. CASE CleanupExpiredKeys
  <2>1. UNCHANGED <<now, admitted>>
    BY <1>7 DEF CleanupExpiredKeys, windowVars
  <2>2. CASE Idle(requests[c])
    <3>1. requests'[c] = <<>>
      BY <1>7, <2>2 DEF CleanupExpiredKeys
    <3>2. QED
      BY <1>1, <1>3, <1>6, <2>1, <2>2, <3>1, CleanupKeepsInv
  <2>3. CASE ~Idle(requests[c])
    <3>1. requests'[c] = requests[c]
      BY <1>7, <2>3 DEF CleanupExpiredKeys
    <3>2. QED
      BY <1>3, <1>6, <2>1, <3>1
  <2>4. QED
    BY <2>2, <2>3
<1>8. ASSUME NEW k \in Keys, NEW n \in 0..Len(requests[k]), Allow(k, n)
      PROVE  KeyInv(admitted[c], requests[c])'
  <2>1. UNCHANGED now
    BY <1>8 DEF Allow
  <2>2. CASE c = k
    <3> DEFINE d == Drop(requests[c], n)
    <3>1. /\ d \in Seq(0..now)
          /\ Len(d) = Len(requests[c]) - n
      BY <1>1, <2>2, DropProperties
    <3>2. KeyInv(admitted[c], d)
      BY <1>1, <1>2, <1>3, <1>8, <2>2, PopKeepsInv DEF Allow
    <3>3. /\ Len(d) < Limit
          /\ admitted'[c] = Append(admitted[c], now)
          /\ requests'[c] = Append(d, now)
      BY <1>8, <2>2, <3>1 DEF Allow, TypeOK
    <3>4. KeyInv(Append(admitted[c], now), Append(d, now))
      BY <1>1, <3>1, <3>2, <3>3, AdmitKeepsInv
    <3>5. QED
      BY <1>6, <2>1, <3>3, <3>4
  <2>3. CASE c # k
    <3>1. UNCHANGED <<admitted[c], requests[c]>>
      BY <1>8, <2>3 DEF Allow, TypeOK
    <3>2. QED
      BY <1>3, <1>6, <2>1, <3>1
  <2>4. QED
    BY <2>2, <2>3
<1>9. ASSUME NEW k \in Keys, NEW n \in 0..Len(requests[k]), Reject(k, n)
      PROVE  KeyInv(admitted[c], requests[c])'
  <2>1. UNCHANGED <<now, admitted>>
    BY <1>9 DEF Reject
  <2>2. CASE c = k
    <3>1. requests'[c] = Drop(requests[c], n)
      BY <1>9, <2>2 DEF Reject, TypeOK
    <3>2. KeyInv(admitted[c], Drop(requests[c], n))
      BY <1>1, <1>2, <1>3, <1>9, <2>2, PopKeepsInv DEF Reject
    <3>3. QED
      BY <1>6, <2>1, <3>1, <3>2
  <2>3. CASE c # k
    <3>1. UNCHANGED requests[c]
      BY <1>9, <2>3 DEF Reject, TypeOK
    <3>2. QED
      BY <1>3, <1>6, <2>1, <3>1
  <2>4. QED
    BY <2>2, <2>3
<1>10. CASE UNCHANGED vars
  <2>1. UNCHANGED <<now, admitted, requests>>
    BY <1>10 DEF vars, windowVars
  <2>2. QED
    BY <1>3, <1>6, <2>1
<1>11. QED
  BY <1>4, <1>5, <1>7, <1>8, <1>9, <1>10 DEF Next

(* The limiter starts with empty deques. *)
LEMMA InitLimiterInv == Init => LimiterInv
<1> SUFFICES ASSUME Init PROVE LimiterInv
  OBVIOUS
<1>1. <<>> \in Seq(0..now) /\ Len(<<>>) = 0
  OBVIOUS
<1>2. TypeOK
  BY <1>1, Constants DEF Init, WindowInit, TypeOK
<1>3. KeyInv(<<>>, <<>>)
  <2>1. 1..0 = {} /\ 1..(0 - Limit) = {} /\ 1..(0 - 0) = {}
    BY Constants
  <2>2. QED
    BY <1>1, <2>1 DEF KeyInv, Spaced
<1>4. QED
  BY <1>2, <1>3 DEF LimiterInv, Init, WindowInit

(* The deque of a key is always what is left of its admitted times once    *)
(* expired ones are forgotten, by check_limit or by cleanup_expired_keys.  *)
THEOREM LimiterInvariant == Spec => []LimiterInv
<1>1. LimiterInv /\ [Next]_vars => LimiterInv'
  <2> SUFFICES ASSUME LimiterInv, [Next]_vars PROVE LimiterInv'
    OBVIOUS
  <2>1. TypeOK'
    BY NextTypeOK DEF LimiterInv
  <2>2. \A c \in Keys : KeyInv(admitted[c], requests[c])'
    BY NextKeyInv
  <2>3. QED
    BY <2>1, <2>2 DEF LimiterInv
<1>2. QED
  BY <1>1, InitLimiterInv, PTL DEF Spec

(* Every reachable state is well typed; no recorded time is in the future. *)
THEOREM TypeCorrect == Spec => []TypeOK
<1>1. LimiterInv => TypeOK
  BY DEF LimiterInv
<1>2. QED
  BY <1>1, LimiterInvariant, PTL

(* For every limit, window and key, no window holds more than Limit        *)
(* admitted requests.                                                      *)
THEOREM LimitIsKept == Spec => []LimitHolds
<1>1. LimiterInv => LimitHolds
  BY DEF LimiterInv, LimitHolds, KeyInv
<1>2. QED
  BY <1>1, LimiterInvariant, PTL

-----------------------------------------------------------------------------
(* Division rounds down, by less than the divisor. *)
LEMMA DivBounds ==
  ASSUME NEW x \in Nat, NEW p \in Nat \ {0}
  PROVE  /\ x \div p \in Nat
         /\ (x \div p) * p <= x
         /\ x < (x \div p) * p + p
  OBVIOUS

(* A product by a successor. *)
LEMMA ProductSucc ==
  ASSUME NEW q \in Nat, NEW p \in Nat
  PROVE  (q + 1) * p = q * p + p /\ q * p \in Nat
  OBVIOUS

(* A window of whole seconds is that many seconds. *)
LEMMA WholeSeconds == (Window \div PerSecond) * PerSecond = Window
<1>1. PICK seconds \in 0..Window : Window = seconds * PerSecond
  BY WindowAssumption
<1>2. seconds \in Nat /\ PerSecond \in Nat \ {0}
  BY Constants
<1>3. ((seconds * PerSecond) \div PerSecond) * PerSecond = seconds * PerSecond
  BY <1>2
<1>4. QED
  BY <1>1, <1>3

(* The deque decides as the window does: fewer than Limit timestamps are   *)
(* left in it exactly when the request that is Limit places from the end   *)
(* of the admitted ones has left the window.                               *)
LEMMA DequeDecides ==
  ASSUME now \in Nat, NEW a \in Seq(Nat), NEW r \in Seq(Nat), KeyInv(a, r),
         NEW n \in 0..Len(r), Pops(r, n), Limit # 0
  PROVE  /\ Len(r) - n < Limit =>
              Len(a) < Limit \/ a[Len(a) - Limit + 1] + Window < now
         /\ Len(r) - n >= Limit =>
              Len(a) >= Limit /\ ~(a[Len(a) - Limit + 1] + Window < now)
<1> USE Constants
<1> DEFINE d == Drop(r, n)
           j == Len(a) - Limit + 1
<1>1. KeyInv(a, d)
  BY PopKeepsInv
<1>2. /\ Len(a) \in Nat /\ Len(r) \in Nat /\ Len(r) <= Len(a)
      /\ Len(d) = Len(r) - n
      /\ \A i \in 1..Len(a) : a[i] \in Nat
  <2>1. Len(a) \in Nat /\ Len(r) \in Nat /\ \A i \in 1..Len(a) : a[i] \in Nat
    OBVIOUS
  <2>2. Len(d) = Len(r) - n
    BY DropProperties
  <2>3. QED
    BY <2>1, <2>2 DEF KeyInv
<1>3. ASSUME Len(r) - n < Limit, Len(a) >= Limit PROVE a[j] + Window < now
  <2>1. j \in 1..(Len(a) - Len(d))
    BY <1>2, <1>3
  <2>2. QED
    BY <1>1, <2>1 DEF KeyInv, Expired
<1>4. ASSUME Len(r) - n >= Limit PROVE Len(a) >= Limit /\ ~(a[j] + Window < now)
  <2> DEFINE i == Len(a) - Len(r) + (n + 1)
  <2>1. /\ n < Len(r) /\ n + 1 \in 1..Len(r) /\ Len(a) >= Limit
        /\ i \in 1..Len(a) /\ j \in 1..Len(a) /\ i <= j
    BY <1>2, <1>4
  <2>2. ~Expired(r[n + 1])
    BY <2>1 DEF Pops
  <2>3. r[n + 1] = a[i]
    BY <2>1 DEF KeyInv
  <2>4. a[i] <= a[j]
    BY <2>1 DEF KeyInv
  <2>5. a[i] \in Nat /\ a[j] \in Nat
    BY <1>2, <2>1
  <2> HIDE DEF i, j
  <2>6. ~(a[i] + Window < now)
    BY <2>2, <2>3 DEF Expired
  <2>7. ~(a[j] + Window < now)
    BY <2>4, <2>5, <2>6
  <2>8. QED
    BY <2>1, <2>7
<1>5. QED
  BY <1>2, <1>3, <1>4

(* So a call admits exactly when there is room. *)
LEMMA RoomIffFewLeft ==
  ASSUME LimiterInv, NEW k \in Keys, NEW n \in 0..Len(requests[k]), Pops(requests[k], n)
  PROVE  Room(k) <=> Len(requests[k]) - n < Limit
<1> USE Constants
<1>1. /\ now \in Nat /\ KeyInv(admitted[k], requests[k])
      /\ admitted[k] \in Seq(Nat) /\ requests[k] \in Seq(Nat)
  <2>1. admitted[k] \in Seq(0..now) /\ requests[k] \in Seq(0..now) /\ 0..now \subseteq Nat
    BY DEF LimiterInv, TypeOK
  <2>2. QED
    BY <2>1, SeqMonotonic DEF LimiterInv, TypeOK
<1>2. Len(requests[k]) \in Nat /\ Len(admitted[k]) \in Nat /\ n <= Len(requests[k])
  BY <1>1
<1>3. CASE Limit = 0
  BY <1>2, <1>3 DEF Room
<1>4. CASE Limit # 0
  <2>1. /\ Len(requests[k]) - n < Limit => Room(k)
        /\ Len(requests[k]) - n >= Limit => ~Room(k)
    <3> DEFINE a == admitted[k]
               r == requests[k]
    <3>1. /\ Len(r) - n < Limit =>
               Len(a) < Limit \/ a[Len(a) - Limit + 1] + Window < now
          /\ Len(r) - n >= Limit =>
               Len(a) >= Limit /\ ~(a[Len(a) - Limit + 1] + Window < now)
      BY <1>1, <1>4, DequeDecides
    <3>2. Len(a) >= Limit => ~(Len(a) < Limit)
      BY <1>2
    <3>3. QED
      BY <1>4, <3>1, <3>2 DEF Room, Blocking
  <2>2. Len(requests[k]) - n < Limit \/ Len(requests[k]) - n >= Limit
    BY <1>2
  <2>3. QED
    BY <2>1, <2>2
<1>5. QED
  BY <1>3, <1>4

(* A deque that is full once expired timestamps are popped starts with the *)
(* blocking one, which has not expired.                                    *)
LEMMA OldestBlocks ==
  ASSUME now \in Nat, NEW a \in Seq(0..now), NEW r \in Seq(0..now), KeyInv(a, r),
         NEW n \in 0..Len(r), Pops(r, n), Len(r) - n = Limit, Limit # 0
  PROVE  /\ Drop(r, n) # <<>>
         /\ Drop(r, n)[1] = a[Len(a) - Limit + 1]
         /\ Drop(r, n)[1] \in 0..now
         /\ ~Expired(Drop(r, n)[1])
<1> USE Constants
<1> DEFINE d == Drop(r, n)
<1>1. /\ Len(a) \in Nat /\ Len(r) \in Nat /\ n < Len(r)
      /\ n + 1 \in 1..Len(r) /\ 1 \in 1..(Len(r) - n)
      /\ Len(a) - Len(r) + (n + 1) = Len(a) - Limit + 1
  <2>1. Len(a) \in Nat /\ Len(r) \in Nat
    OBVIOUS
  <2>2. QED
    BY <2>1
<1>2. d # <<>> /\ d[1] = r[1 + n]
  <2>1. /\ Len(d) = Len(r) - n
        /\ \A i \in 1..(Len(r) - n) : d[i] = r[i + n]
    BY DropProperties
  <2>2. QED
    BY <1>1, <2>1
<1>3. r[n + 1] = a[Len(a) - Len(r) + (n + 1)]
  BY <1>1 DEF KeyInv
<1>4. r[n + 1] \in 0..now
  BY <1>1, ElementOfSeq
<1>5. ~Expired(r[n + 1])
  BY <1>1 DEF Pops
<1>6. QED
  BY <1>1, <1>2, <1>3, <1>4, <1>5

(* A refusal tells the time at which the blocking request has left the     *)
(* window, and less than a second more than that.                          *)
LEMMA RejectRefuses ==
  ASSUME LimiterInv, PromiseInv, NEW k \in Keys, NEW n \in 0..Len(requests[k]), Reject(k, n)
  PROVE  Refuse(k)
<1> USE Constants
<1> DEFINE a == admitted[k]
           r == requests[k]
           d == Drop(r, n)
           t == now + RetryAfter(d) * PerSecond
<1>1. /\ now \in Nat
      /\ a \in Seq(0..now) /\ r \in Seq(0..now) /\ KeyInv(a, r)
  BY DEF LimiterInv, TypeOK
<1>2. ~Room(k) /\ until' = [until EXCEPT ![k] = t] /\ UNCHANGED <<now, admitted>>
  BY RoomIffFewLeft DEF Reject
<1>3. Len(r) \in Nat /\ d \in Seq(0..now) /\ Len(d) = Len(r) - n /\ Len(r) - n = Limit
  <2>1. Len(d) = Len(r) - n /\ d \in Seq(0..now)
    BY <1>1, DropProperties
  <2>2. Len(r) \in Nat /\ Len(r) <= Limit /\ Len(r) - n >= Limit /\ n \in Nat
    BY <1>1 DEF PromiseInv, Reject
  <2>3. Len(r) - n = Limit
    BY <2>2
  <2>4. QED
    BY <2>1, <2>2, <2>3
<1>4. CASE Limit = 0
  <2>1. d = <<>>
    <3>1. Len(d) = 0
      BY <1>3, <1>4
    <3>2. QED
      BY <1>3, <3>1, EmptySeq
  <2>2. t = now + Window
    BY <2>1, WholeSeconds DEF RetryAfter
  <2>3. t \in 0..(now + Window + PerSecond)
    BY <1>1, <2>2
  <2>4. QED
    BY <1>2, <1>4, <2>3 DEF Refuse
<1>5. CASE Limit # 0
  <2> DEFINE x == Window - (now - d[1])
             q == x \div PerSecond
  <2>4. /\ d # <<>> /\ d[1] = Blocking(k) /\ d[1] \in 0..now
        /\ ~Expired(d[1])
    BY <1>1, <1>3, <1>5, OldestBlocks DEF Reject, Blocking
  <2>6. x \in Nat /\ now + x = d[1] + Window
    BY <1>1, <2>4 DEF Expired
  <2>7. q \in Nat /\ q * PerSecond <= x /\ x < q * PerSecond + PerSecond
    BY <2>6, DivBounds
  <2>8. t = now + (q * PerSecond + PerSecond) /\ q * PerSecond \in Nat
    <3>1. RetryAfter(d) = q + 1
      BY <2>4 DEF RetryAfter
    <3>2. (q + 1) * PerSecond = q * PerSecond + PerSecond /\ q * PerSecond \in Nat
      BY <2>7, ProductSucc
    <3>3. QED
      BY <3>1, <3>2
  <2> HIDE DEF q, t
  <2>9. /\ t > Blocking(k) + Window /\ t <= Blocking(k) + Window + PerSecond
        /\ t \in 0..(now + Window + PerSecond)
    BY <1>1, <2>4, <2>6, <2>7, <2>8
  <2>10. QED
    BY <1>2, <2>9 DEF Refuse
<1>6. QED
  BY <1>4, <1>5

(* Every step keeps the promises made to refused clients. *)
LEMMA NextPromiseInv == LimiterInv /\ PromiseInv /\ [Next]_vars => PromiseInv'
<1> SUFFICES ASSUME LimiterInv, PromiseInv, [Next]_vars, NEW c \in Keys
             PROVE  (/\ Len(requests[c]) <= Limit
                     /\ until[c] # 0 /\ Limit # 0 =>
                          Len(admitted[c]) >= Limit /\ until[c] > Blocking(c) + Window)'
  BY DEF PromiseInv
<1> USE Constants DEF LimiterInv, TypeOK
<1>1. /\ now \in Nat
      /\ Len(requests[c]) \in Nat /\ Len(admitted[c]) \in Nat
  OBVIOUS
<1>2. CASE PassTime
  BY <1>2 DEF PassTime, Tick, PromiseInv, Blocking
<1>3. CASE Restart
  <2>1. requests'[c] = <<>> /\ until'[c] = 0 /\ Len(<<>>) = 0
    BY <1>3 DEF Restart, Forget
  <2>2. QED
    BY <2>1
<1>4. CASE CleanupExpiredKeys
  <2>1. UNCHANGED <<admitted, until>> /\ requests'[c] \in {requests[c], <<>>} /\ Len(<<>>) = 0
    BY <1>4 DEF CleanupExpiredKeys, windowVars
  <2>2. QED
    BY <2>1 DEF PromiseInv, Blocking
<1>5. ASSUME NEW k \in Keys, NEW n \in 0..Len(requests[k]), Allow(k, n)
      PROVE  (/\ Len(requests[c]) <= Limit
              /\ until[c] # 0 /\ Limit # 0 =>
                   Len(admitted[c]) >= Limit /\ until[c] > Blocking(c) + Window)'
  <2>1. CASE c = k
    <3>1. /\ Drop(requests[k], n) \in Seq(0..now)
          /\ Len(Drop(requests[k], n)) = Len(requests[k]) - n
      <4>1. requests[k] \in Seq(0..now)
        OBVIOUS
      <4>2. QED
        BY <4>1, DropProperties
    <3>2. requests'[k] = Append(Drop(requests[k], n), now) /\ now \in 0..now
      BY <1>5 DEF Allow
    <3>3. Len(requests'[k]) = Len(requests[k]) - n + 1
      BY <3>1, <3>2
    <3>4. Len(requests[k]) - n < Limit /\ until'[k] = 0
      BY <1>5 DEF Allow
    <3>5. QED
      BY <1>1, <2>1, <3>3, <3>4
  <2>2. CASE c # k
    BY <1>5, <2>2 DEF Allow, PromiseInv, Blocking
  <2>3. QED
    BY <2>1, <2>2
<1>6. ASSUME NEW k \in Keys, NEW n \in 0..Len(requests[k]), Reject(k, n)
      PROVE  (/\ Len(requests[c]) <= Limit
              /\ until[c] # 0 /\ Limit # 0 =>
                   Len(admitted[c]) >= Limit /\ until[c] > Blocking(c) + Window)'
  <2>1. CASE c = k
    <3>1. Refuse(k)
      BY <1>6, RejectRefuses
    <3>2. Limit # 0 => /\ Len(admitted[k]) >= Limit
                       /\ until'[k] > Blocking(k) + Window
      BY <1>1, <2>1, <3>1 DEF Refuse, Room
    <3>3. Len(requests'[k]) = Len(requests[k]) - n
      BY <1>6, DropProperties DEF Reject
    <3>4. UNCHANGED admitted
      BY <1>6 DEF Reject
    <3>5. QED
      BY <1>1, <2>1, <3>2, <3>3, <3>4 DEF PromiseInv, Blocking
  <2>2. CASE c # k
    BY <1>6, <2>2 DEF Reject, PromiseInv, Blocking
  <2>3. QED
    BY <2>1, <2>2
<1>7. CASE UNCHANGED vars
  BY <1>7 DEF vars, windowVars, PromiseInv, Blocking
<1>8. QED
  BY <1>2, <1>3, <1>4, <1>5, <1>6, <1>7 DEF Next

(* What a refused client was told outlasts the window of the request that  *)
(* blocked it.                                                             *)
THEOREM PromiseInvariant == Spec => []PromiseInv
<1>1. Init => PromiseInv
  <2>1. Len(<<>>) = 0
    OBVIOUS
  <2>2. 0 <= Limit
    BY Constants
  <2>3. QED
    BY <2>1, <2>2 DEF Init, WindowInit, PromiseInv
<1>2. QED
  BY <1>1, NextPromiseInv, LimiterInvariant, PTL DEF Spec

(* A client that waits as long as Retry-After says finds room, unless the  *)
(* key was used meanwhile.                                                 *)
THEOREM WaitingIsEnough == Spec => []RetryAfterSuffices
<1>1. LimiterInv /\ PromiseInv => RetryAfterSuffices
  <2> SUFFICES ASSUME LimiterInv, PromiseInv, NEW k \in Keys,
                      until[k] # 0, until[k] <= now, Limit # 0
               PROVE  Room(k)
    BY DEF RetryAfterSuffices
  <2> USE Constants DEF LimiterInv, TypeOK
  <2>1. until[k] > Blocking(k) + Window /\ Len(admitted[k]) >= Limit
    BY DEF PromiseInv
  <2>2. Blocking(k) \in 0..now
    BY <2>1 DEF Blocking
  <2>3. QED
    BY <2>1, <2>2 DEF Room
<1>2. QED
  BY <1>1, LimiterInvariant, PromiseInvariant, PTL

(* Every answer of the limiter is the one the sliding window calls for,    *)
(* and forgetting a deque changes none.                                    *)
THEOREM LimiterRefinesWindow == Spec => ImplementsSlidingWindow
<1>1. Init => WindowInit
  BY DEF Init
<1>2. LimiterInv /\ PromiseInv /\ [Next]_vars => [WindowNext]_windowVars
  <2> SUFFICES ASSUME LimiterInv, PromiseInv, [Next]_vars PROVE [WindowNext]_windowVars
    OBVIOUS
  <2>1. ASSUME NEW k \in Keys, NEW n \in 0..Len(requests[k]), Allow(k, n) PROVE Admit(k)
    BY <2>1, RoomIffFewLeft DEF Allow, Admit
  <2>2. ASSUME NEW k \in Keys, NEW n \in 0..Len(requests[k]), Reject(k, n) PROVE Refuse(k)
    BY <2>2, RejectRefuses
  <2>3. CASE CleanupExpiredKeys
    BY <2>3 DEF CleanupExpiredKeys
  <2>4. CASE UNCHANGED vars
    BY <2>4 DEF vars
  <2>5. QED
    BY <2>1, <2>2, <2>3, <2>4 DEF Next, PassTime, Restart, WindowNext
<1>3. QED
  BY <1>1, <1>2, LimiterInvariant, PromiseInvariant, PTL DEF Spec, ImplementsSlidingWindow, WindowSpec
=============================================================================
