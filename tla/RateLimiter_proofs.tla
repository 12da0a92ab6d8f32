------------------------- MODULE RateLimiter_proofs -------------------------
(***************************************************************************)
(* Both limiters, for any limit and number of requests and servers.  The   *)
(* shared one: an answer that comes late still meets the counter of its    *)
(* window, so no stretch of time admits more than its windows' bursts.     *)
(* The bucket: no stretch of time admits more than the burst and what      *)
(* flows in, though requests overtake one another and buckets are swept.   *)
(* And neither refuses anybody who has not used up the limit.              *)
(***************************************************************************)
EXTENDS RateLimiter, TLAPS

-----------------------------------------------------------------------------
(* Windows *)

\* Division by the window.
LEMMA Division ==
    ASSUME NEW t \in Nat, NEW per \in Nat \ {0}
    PROVE  /\ t \div per \in Nat /\ t \div per <= t
           /\ per * (t \div per) <= t /\ t < per * (t \div per) + per
PROOF OBVIOUS

\* A number lies in the window it is in.
LEMMA DivisionIs ==
    ASSUME NEW t \in Nat, NEW per \in Nat \ {0}, NEW k \in Nat,
           per * k <= t, t < per * k + per
    PROVE  t \div per = k
PROOF OBVIOUS

\* The window of a moment has a first moment and a last; what comes before and
\* after lies in the window before and after.
LEMMA Windows ==
    ASSUME NEW t \in Nat, NEW per \in Nat \ {0}
    PROVE  \E first, last \in Nat :
              /\ first <= t /\ t <= last
              /\ \A u \in first .. last : u \div per = t \div per
              /\ \A u \in Nat : u < first =>
                    u \div per < t \div per /\ (first - 1) \div per = (t \div per) - 1
              /\ \A u \in Nat : u > last =>
                    u \div per > t \div per /\ (last + 1) \div per = (t \div per) + 1
PROOF
<1>1. PICK k \in Nat : k = t \div per /\ per * k <= t /\ t < per * k + per
  BY Division
<1>2. PICK first \in Nat : first = per * k
  OBVIOUS
<1>3. PICK last \in Nat : last = first + per - 1
  OBVIOUS
<1>4. first <= t /\ t <= last
  BY <1>1, <1>2, <1>3
<1>5. ASSUME NEW u \in first .. last
      PROVE  u \div per = k
  <2>1. u \in Nat /\ per * k <= u /\ u < per * k + per
    BY <1>2, <1>3, <1>5
  <2> QED
    BY <2>1, DivisionIs
<1>6. ASSUME NEW u \in Nat, u < first
      PROVE  u \div per < k /\ (first - 1) \div per = k - 1
  <2>1. PICK j \in Nat : j = u \div per /\ per * j <= u
    BY Division
  <2>2. j < k
    <3>1. CASE j >= k
      <4>1. per * j >= per * k
        BY <3>1
      <4> QED
        BY <4>1, <2>1, <1>2, <1>6
    <3> QED
      BY <3>1
  <2>3. k - 1 \in Nat
    BY <2>2
  <2>4. per * (k - 1) = first - per /\ first - 1 \in Nat
    BY <1>2, <1>6
  <2>5. per * (k - 1) <= first - 1 /\ first - 1 < per * (k - 1) + per
    BY <2>4
  <2>6. (first - 1) \div per = k - 1
    BY <2>3, <2>4, <2>5, DivisionIs
  <2> QED
    BY <2>1, <2>2, <2>6
<1>7. ASSUME NEW u \in Nat, u > last
      PROVE  u \div per > k /\ (last + 1) \div per = k + 1
  <2>1. PICK j \in Nat : j = u \div per /\ u < per * j + per
    BY Division
  <2>2. j > k
    <3>1. CASE j <= k
      <4>1. per * j <= per * k
        BY <3>1
      <4> QED
        BY <4>1, <2>1, <1>2, <1>3, <1>7
    <3> QED
      BY <3>1
  <2>3. per * (k + 1) = last + 1
    BY <1>2, <1>3
  <2>4. per * (k + 1) <= last + 1 /\ last + 1 < per * (k + 1) + per
    BY <2>3
  <2>5. (last + 1) \div per = k + 1
    BY <2>4, DivisionIs
  <2> QED
    BY <2>1, <2>2, <2>5
<1> QED
  BY <1>1, <1>4, <1>5, <1>6, <1>7

-----------------------------------------------------------------------------
(* The invariant *)

\* Who waits came no more than MaxWait ago.
WaitInv ==
    /\ now \in Times /\ waiting \in [Times -> Nat]
    /\ \A t \in Times : waiting[t] > 0 => t <= now /\ now <= t + MaxWait

TypeInv ==
    /\ counter \in [Times -> [count : Nat, expires : Nat]]
    /\ since \in [0 .. MaxTime + 1 -> Nat]

\* The counter of a window has counted whom it admitted, and lives until the
\* last request of its window has its answer.
Counted(s, t) ==
    /\ Admitted(s, t) <= limit.Burst
    /\ Admitted(s, t) <= counter[Slot(s)].count
    /\ Admitted(s, t) > 0 =>
          \A u \in Times : Slot(u) = Slot(s) => u + 1 < counter[Slot(s)].expires

CountInv == \A s, t \in Times : s <= t /\ Slot(s) = Slot(t) => Counted(s, t)

Kept(s, t) == Admitted(s, t) <= limit.Burst * (Slot(t) - Slot(s) + 1)

RateInv == \A s, t \in Times : s <= t => Kept(s, t)

IInv ==
    /\ limit \in Limits
    /\ WaitInv
    /\ backing = "redis" => TypeInv /\ CountInv /\ RateInv

\* A limit is at least one request, in a window of at least a second.
LEMMA LimitIs ==
    ASSUME limit \in Limits
    PROVE  limit.Burst \in Nat \ {0} /\ limit.Per \in Nat \ {0}
PROOF BY LimiterAssumption

\* A window has a first and a last moment among those of the clock, and its
\* number is one of its moments or comes before them.
LEMMA WindowOf ==
    ASSUME limit \in Limits, NEW t \in Times
    PROVE  /\ Slot(t) \in Times
           /\ \A u \in Times : Slot(u) = Slot(t) => u < t + limit.Per
           /\ \E first, last \in Nat :
                 /\ first <= t /\ t <= last
                 /\ \A u \in first .. last : Slot(u) = Slot(t)
                 /\ \A u \in Nat : u < first =>
                       Slot(u) < Slot(t) /\ Slot(first - 1) = Slot(t) - 1
                 /\ \A u \in Nat : u > last =>
                       Slot(u) > Slot(t) /\ Slot(last + 1) = Slot(t) + 1
PROOF
<1>1. limit.Per \in Nat \ {0} /\ t \in Nat /\ MaxTime \in Nat
  BY LimitIs, LimiterAssumption DEF Times
<1>2. Slot(t) \in Times
  <2>1. t \div limit.Per \in Nat /\ t \div limit.Per <= t
    BY <1>1, Division
  <2> QED
    BY <2>1, <1>1 DEF Slot, Times
<1>3. ASSUME NEW u \in Times, Slot(u) = Slot(t)
      PROVE  u < t + limit.Per
  <2>1. PICK k \in Nat : k = t \div limit.Per /\ limit.Per * k <= t
    BY <1>1, Division
  <2>2. u \in Nat /\ u < limit.Per * (u \div limit.Per) + limit.Per
    <3>1. u \in Nat
      BY DEF Times
    <3> QED
      BY <3>1, <1>1, Division
  <2>3. u \div limit.Per = k
    BY <2>1, <1>3 DEF Slot
  <2>4. limit.Per * k \in Nat
    BY <1>1
  <2> QED
    BY <2>1, <2>2, <2>3, <2>4, <1>1
<1>4. \E first, last \in Nat :
         /\ first <= t /\ t <= last
         /\ \A u \in first .. last : Slot(u) = Slot(t)
         /\ \A u \in Nat : u < first =>
               Slot(u) < Slot(t) /\ Slot(first - 1) = Slot(t) - 1
         /\ \A u \in Nat : u > last =>
               Slot(u) > Slot(t) /\ Slot(last + 1) = Slot(t) + 1
  BY <1>1, Windows DEF Slot
<1> QED
  BY <1>2, <1>3, <1>4

\* Windows are stretches of time.
LEMMA WindowBetween ==
    ASSUME limit \in Limits, NEW s \in Times, NEW t \in Times, NEW u \in Times,
           s <= t, t <= u, Slot(s) = Slot(u)
    PROVE  Slot(s) = Slot(t)
PROOF
<1>1. s \in Nat /\ t \in Nat /\ u \in Nat
  BY DEF Times
<1>2. Slot(s) \in Int /\ Slot(t) \in Int
  BY WindowOf DEF Times
<1>3. PICK first, last \in Nat :
         /\ first <= t /\ t <= last
         /\ \A v \in first .. last : Slot(v) = Slot(t)
         /\ \A v \in Nat : v < first => Slot(v) < Slot(t)
         /\ \A v \in Nat : v > last => Slot(v) > Slot(t)
  BY WindowOf
<1> QED
  BY <1>1, <1>2, <1>3

\* Later moments have later windows.
LEMMA WindowsInOrder ==
    ASSUME limit \in Limits, NEW s \in Times, NEW t \in Times, s <= t
    PROVE  Slot(s) \in Nat /\ Slot(t) \in Nat /\ Slot(s) <= Slot(t)
PROOF
<1>1. s \in Nat /\ t \in Nat
  BY DEF Times
<1>2. Slot(s) \in Nat /\ Slot(t) \in Nat
  BY WindowOf DEF Times
<1>3. PICK first, last \in Nat :
         /\ first <= t /\ t <= last
         /\ \A v \in first .. last : Slot(v) = Slot(t)
         /\ \A v \in Nat : v < first => Slot(v) < Slot(t)
  BY WindowOf
<1> QED
  BY <1>1, <1>2, <1>3

-----------------------------------------------------------------------------
(* Steps *)

\* A call to Redis counts, and admits only within the burst of its window.
LEMMA CountKeeps ==
    ASSUME IInv, backing = "redis", NEW t \in Times, waiting[t] > 0, UNCHANGED limit,
           counter' = [counter EXCEPT ![Slot(t)] = Incremented(Slot(t))],
           \/ Admit(t) /\ counter'[Slot(t)].count <= limit.Burst
           \/ UNCHANGED since
    PROVE  (TypeInv /\ CountInv /\ RateInv)'
PROOF
<1>1. TypeInv /\ CountInv /\ RateInv /\ WaitInv /\ limit \in Limits
  BY DEF IInv
<1>2. PICK burst \in Nat \ {0}, per \in Nat \ {0} : burst = limit.Burst /\ per = limit.Per
  BY <1>1, LimitIs
<1>3. now \in Nat /\ t \in Nat /\ t <= now /\ now <= t + 1
  BY <1>1, LimiterAssumption DEF WaitInv, Times
<1>4. PICK k \in Times : k = Slot(t)
  BY <1>1, WindowOf
<1>5. PICK count \in Nat, expires \in Nat :
         counter[k].count = count /\ counter[k].expires = expires
  BY <1>1, <1>4 DEF TypeInv
<1>6. PICK n \in Nat : /\ now < expires => n = Lesser(count, burst)
                       /\ ~(now < expires) => n = Lesser(0, burst)
  BY DEF Lesser
<1>7. /\ counter' \in [Times -> [count : Nat, expires : Nat]]
      /\ counter'[k].count = n + 1 /\ counter'[k].expires = now + per + 1
      /\ \A j \in Times \ {k} : counter'[j] = counter[j]
  <2>1. PICK r \in [count : Nat, expires : Nat] : r = [count |-> n + 1, expires |-> now + per + 1]
    <3>1. n + 1 \in Nat /\ now + per + 1 \in Nat
      BY <1>2, <1>3
    <3> QED
      BY <3>1
  <2>2. Incremented(k) = r
    <3>1. now + WindowTTL = now + per + 1
      BY <1>2, <1>3 DEF WindowTTL
    <3>2. Lesser(IF now < counter[k].expires THEN counter[k].count ELSE 0, limit.Burst) = n
      BY <1>2, <1>5, <1>6
    <3> QED
      BY <3>1, <3>2, <2>1 DEF Incremented
  <2>3. counter' = [counter EXCEPT ![k] = r]
    BY <2>2, <1>4
  <2>4. r.count = n + 1 /\ r.expires = now + per + 1
    BY <2>1
  <2> QED
    BY <2>3, <2>4, <1>1, <1>4 DEF TypeInv
<1>8. PICK more \in 0 .. 1 :
         /\ \A s \in 0 .. MaxTime + 1 : since'[s] = IF s <= t THEN since[s] + more ELSE since[s]
         /\ since' \in [0 .. MaxTime + 1 -> Nat]
         /\ more = 1 => n + 1 <= burst
  <2>1. CASE Admit(t) /\ counter'[Slot(t)].count <= limit.Burst
    BY <2>1, <1>1, <1>2, <1>3, <1>4, <1>7 DEF Admit, TypeInv
  <2>2. CASE UNCHANGED since
    BY <2>2, <1>1 DEF TypeInv
  <2> QED
    BY <2>1, <2>2
<1>9. TypeInv'
  BY <1>7, <1>8 DEF TypeInv
<1>10. \A s, u \in Times : s <= u =>
          /\ Admitted(s, u) \in Int
          /\ Admitted(s, u)' = Admitted(s, u) + (IF s <= t /\ t <= u THEN more ELSE 0)
  <2> SUFFICES ASSUME NEW s \in Times, NEW u \in Times, s <= u
               PROVE  /\ Admitted(s, u) \in Int
                      /\ Admitted(s, u)' = Admitted(s, u) + (IF s <= t /\ t <= u THEN more ELSE 0)
    OBVIOUS
  <2>1. s \in 0 .. MaxTime + 1 /\ u + 1 \in 0 .. MaxTime + 1 /\ s \in Nat /\ u \in Nat
    BY LimiterAssumption DEF Times
  <2>2. since[s] \in Nat /\ since[u + 1] \in Nat
    BY <2>1, <1>1 DEF TypeInv
  <2>3. /\ since'[s] = IF s <= t THEN since[s] + more ELSE since[s]
        /\ since'[u + 1] = IF u + 1 <= t THEN since[u + 1] + more ELSE since[u + 1]
    BY <2>1, <1>8
  <2> QED
    BY <2>1, <2>2, <2>3, <1>3 DEF Admitted
<1>11. \A u \in Times : Slot(u) \in Times /\ Slot(u)' = Slot(u)
  BY <1>1, WindowOf DEF Slot
<1>12. CountInv'
  <2> SUFFICES ASSUME NEW s \in Times, NEW u \in Times, s <= u, Slot(s) = Slot(u)
               PROVE  /\ Admitted(s, u)' <= burst
                      /\ Admitted(s, u)' <= counter'[Slot(s)].count
                      /\ Admitted(s, u)' > 0 =>
                            \A v \in Times : Slot(v) = Slot(s) =>
                                v + 1 < counter'[Slot(s)].expires
    BY <1>2, <1>11 DEF CountInv, Counted
  <2>1. /\ Admitted(s, u) \in Int /\ Admitted(s, u) <= burst
        /\ Admitted(s, u) <= counter[Slot(s)].count
        /\ Admitted(s, u) > 0 =>
              \A v \in Times : Slot(v) = Slot(s) => v + 1 < counter[Slot(s)].expires
    BY <1>1, <1>2, <1>10 DEF CountInv, Counted
  <2>2. CASE Slot(s) # k
    <3>1. ~(s <= t /\ t <= u)
      BY <2>2, <1>1, <1>4, WindowBetween
    <3>2. Admitted(s, u)' = Admitted(s, u)
      BY <3>1, <2>1, <1>10
    <3> QED
      BY <3>2, <2>1, <2>2, <1>7, <1>11
  <2>3. CASE Slot(s) = k
    <3>1. Admitted(s, u) > 0 => now < expires
      BY <2>1, <2>3, <1>3, <1>4, <1>5
    <3>2. Admitted(s, u) <= n
      BY <3>1, <2>1, <2>3, <1>5, <1>6 DEF Lesser
    <3>3. Admitted(s, u)' <= n + 1 /\ Admitted(s, u)' <= burst
      BY <3>2, <2>1, <1>8, <1>10
    <3>4. \A v \in Times : Slot(v) = k => v + 1 < now + per + 1
      <4>1. \A v \in Times : Slot(v) = k => v < t + per /\ v \in Nat
        BY <1>1, <1>2, <1>4, WindowOf DEF Times
      <4> QED
        BY <4>1, <1>3
    <3> QED
      BY <3>3, <3>4, <2>3, <1>7
  <2> QED
    BY <2>2, <2>3
<1>13. RateInv'
  <2> SUFFICES ASSUME NEW s \in Times, NEW u \in Times, s <= u
               PROVE  Admitted(s, u)' <= burst * (Slot(u) - Slot(s) + 1)
    BY <1>2, <1>11 DEF RateInv, Kept
  <2>1. /\ s \in Nat /\ u \in Nat /\ MaxTime \in Nat
        /\ Slot(s) \in Nat /\ Slot(u) \in Nat /\ k \in Nat
    BY <1>11, LimiterAssumption DEF Times
  <2>2. /\ Admitted(s, u) \in Int
        /\ Admitted(s, u) <= burst * (Slot(u) - Slot(s) + 1)
    BY <1>1, <1>2, <1>10 DEF RateInv, Kept
  <2>3. CASE ~(s <= t /\ t <= u /\ more = 1)
    <3>1. Admitted(s, u)' = Admitted(s, u)
      BY <2>2, <2>3, <1>10
    <3> QED
      BY <3>1, <2>2
  <2>4. CASE s <= t /\ t <= u /\ more = 1
    <3>1. PICK first, last \in Nat :
             /\ first <= t /\ t <= last
             /\ \A v \in first .. last : Slot(v) = k
             /\ \A v \in Nat : v < first => Slot(v) < k /\ Slot(first - 1) = k - 1
             /\ \A v \in Nat : v > last => Slot(v) > k /\ Slot(last + 1) = k + 1
      BY <1>1, <1>4, WindowOf
    <3>2. PICK a \in Times : a = IF s < first THEN first ELSE s
      BY <3>1, <2>1, <1>3 DEF Times
    <3>3. PICK z \in Times : z = IF u > last THEN last ELSE u
      BY <3>1, <2>1, <1>3 DEF Times
    <3>4. /\ a \in Nat /\ z \in Nat /\ a <= t /\ t <= z /\ a \in first .. last /\ z \in first .. last
      BY <3>1, <3>2, <3>3, <2>1, <2>4, <1>3
    <3>5. Slot(a) = k /\ Slot(z) = k
      BY <3>1, <3>4
    <3>6. \A v \in Times : since[v] \in Nat /\ since[v + 1] \in Nat
      <4>1. \A v \in Times : v \in 0 .. MaxTime + 1 /\ v + 1 \in 0 .. MaxTime + 1
        BY <2>1 DEF Times
      <4> QED
        BY <4>1, <1>1 DEF TypeInv
    <3>7. Admitted(a, z) \in Int /\ Admitted(a, z) <= burst - 1
      <4>1. Counted(a, z)' /\ Admitted(a, z)' = Admitted(a, z) + more /\ Admitted(a, z) \in Int
        BY <3>4, <3>5, <1>10, <1>11, <1>12, <1>3 DEF CountInv
      <4> QED
        BY <4>1, <2>4, <1>2 DEF Counted
    <3>8. since[s] - since[a] <= burst * (k - Slot(s)) /\ since[s] - since[a] \in Int
      <4>1. since[s] \in Nat /\ since[a] \in Nat
        BY <3>6
      <4>2. CASE s < first
        <5>1. first - 1 \in Times /\ s <= first - 1 /\ Slot(first - 1) = k - 1
          BY <4>2, <3>1, <3>2, <2>1 DEF Times
        <5>2. Admitted(s, first - 1) <= burst * (k - 1 - Slot(s) + 1)
          BY <5>1, <1>1, <1>2 DEF RateInv, Kept
        <5>3. Admitted(s, first - 1) = since[s] - since[a]
          BY <4>2, <3>1, <3>2 DEF Admitted
        <5> QED
          BY <5>2, <5>3, <4>1, <2>1
      <4>3. CASE ~(s < first)
        <5>1. a = s /\ Slot(s) = k
          BY <4>3, <3>2, <3>5
        <5> QED
          BY <5>1, <4>1, <2>1
      <4> QED
        BY <4>2, <4>3
    <3>9. since[z + 1] - since[u + 1] <= burst * (Slot(u) - k) /\ since[z + 1] - since[u + 1] \in Int
      <4>1. since[z + 1] \in Nat /\ since[u + 1] \in Nat
        BY <3>6
      <4>2. CASE u > last
        <5>1. last + 1 \in Times /\ last + 1 <= u /\ Slot(last + 1) = k + 1
          BY <4>2, <3>1, <2>1 DEF Times
        <5>2. Admitted(last + 1, u) <= burst * (Slot(u) - (k + 1) + 1)
          BY <5>1, <1>1, <1>2 DEF RateInv, Kept
        <5>3. Admitted(last + 1, u) = since[z + 1] - since[u + 1]
          BY <4>2, <3>3 DEF Admitted
        <5> QED
          BY <5>2, <5>3, <4>1, <2>1
      <4>3. CASE ~(u > last)
        <5>1. z = u /\ Slot(u) = k
          BY <4>3, <3>3, <3>5
        <5> QED
          BY <5>1, <4>1, <2>1
      <4> QED
        BY <4>2, <4>3
    <3>10. Admitted(s, u) = (since[s] - since[a]) + Admitted(a, z) + (since[z + 1] - since[u + 1])
      <4>1. /\ since[s] \in Nat /\ since[a] \in Nat
            /\ since[z + 1] \in Nat /\ since[u + 1] \in Nat
        BY <3>6
      <4> QED
        BY <4>1 DEF Admitted
    <3>11. Admitted(s, u)' = Admitted(s, u) + 1
      BY <2>4, <1>10
    <3>12. burst * (k - Slot(s)) + burst + burst * (Slot(u) - k) = burst * (Slot(u) - Slot(s) + 1)
      BY <2>1
    <3>13. burst * (k - Slot(s)) \in Int /\ burst * (Slot(u) - k) \in Int
      BY <2>1
    <3> QED
      BY <3>7, <3>8, <3>9, <3>10, <3>11, <3>12, <3>13
  <2> QED
    BY <2>3, <2>4
<1> QED
  BY <1>9, <1>12, <1>13

-----------------------------------------------------------------------------
(* Theorems *)

\* Nobody has come yet.
LEMMA Initially == Init => IInv
PROOF
<1> SUFFICES ASSUME Init
             PROVE  IInv
  OBVIOUS
<1>1. limit \in Limits /\ WaitInv
  BY LimiterAssumption DEF Init, WaitInv, Times
<1>2. TypeInv
  BY LimiterAssumption DEF Init, TypeInv
<1>3. limit.Burst \in Nat \ {0}
  BY <1>1, LimitIs
<1>4. \A s, t \in Times : Admitted(s, t) = 0
  <2>1. \A s \in Times : s \in 0 .. MaxTime + 1 /\ s + 1 \in 0 .. MaxTime + 1
    BY LimiterAssumption DEF Times
  <2> QED
    BY <2>1 DEF Init, Admitted
<1>5. CountInv
  <2>1. \A s \in Times : Slot(s) \in Times /\ counter[Slot(s)].count = 0
    BY <1>1, WindowOf DEF Init
  <2> QED
    BY <2>1, <1>3, <1>4 DEF CountInv, Counted
<1>6. RateInv
  <2> SUFFICES ASSUME NEW s \in Times, NEW t \in Times, s <= t
               PROVE  0 <= limit.Burst * (Slot(t) - Slot(s) + 1)
    BY <1>4 DEF RateInv, Kept
  <2>1. Slot(s) \in Nat /\ Slot(t) \in Nat /\ Slot(s) <= Slot(t)
    BY <1>1, WindowsInOrder
  <2>2. Slot(t) - Slot(s) + 1 \in Nat
    BY <2>1
  <2> QED
    BY <2>2, <1>3
<1> QED
  BY <1>1, <1>2, <1>5, <1>6 DEF IInv

\* The invariant holds in every state, whatever Redis does.
THEOREM Invariance == Spec => []IInv
PROOF
<1>1. IInv /\ [Next]_vars => IInv'
  <2> SUFFICES ASSUME IInv, [Next]_vars
               PROVE  IInv'
    OBVIOUS
  <2>1. limit \in Limits /\ WaitInv /\ MaxWait \in Nat
    BY LimiterAssumption DEF IInv
  <2>2. UNCHANGED <<limit, backing, counter, since>> => IInv' \/ ~WaitInv'
    <3> SUFFICES ASSUME UNCHANGED <<limit, backing, counter, since>>, WaitInv'
                 PROVE  IInv'
      OBVIOUS
    <3>1. \A s \in Times : Slot(s)' = Slot(s)
      BY DEF Slot
    <3>2. \A s, t \in Times : Admitted(s, t)' = Admitted(s, t)
      BY DEF Admitted
    <3> QED
      BY <3>1, <3>2 DEF IInv, TypeInv, CountInv, Counted, RateInv, Kept
  <2>3. ASSUME NEW t \in Times, Leave(t), UNCHANGED now
        PROVE  WaitInv' /\ waiting[t] > 0
    <3>1. waiting[t] > 0 /\ waiting' = [waiting EXCEPT ![t] = waiting[t] - 1]
      BY <2>3 DEF Leave
    <3> QED
      BY <3>1, <2>1, <2>3 DEF WaitInv
  <2>4. CASE Arrive
    <3>1. /\ waiting' = [waiting EXCEPT ![now] = waiting[now] + 1]
          /\ UNCHANGED <<limit, backing, now, counter, since>>
      BY <2>4 DEF Arrive, config, store, history
    <3>2. now \in Nat /\ now <= now + MaxWait
      BY <2>1 DEF WaitInv, Times
    <3>3. WaitInv'
      BY <3>1, <3>2, <2>1 DEF WaitInv
    <3> QED
      BY <3>1, <3>3, <2>2
  <2>5. ASSUME NEW t \in Times, TakeToken(t)
        PROVE  IInv'
    BY <2>1, <2>3, <2>5 DEF TakeToken, config, IInv
  <2>6. ASSUME NEW t \in Times, CountRequest(t) \/ FailOpen(t)
        PROVE  IInv'
    <3>1. /\ Leave(t) /\ UNCHANGED <<limit, backing, now>> /\ backing = "redis"
          /\ \/ UNCHANGED <<counter, since>>
             \/ /\ counter' = [counter EXCEPT ![Slot(t)] = Incremented(Slot(t))]
                /\ \/ Admit(t) /\ counter'[Slot(t)].count <= limit.Burst
                   \/ UNCHANGED since
      BY <2>6 DEF CountRequest, FailOpen, Refuse, config
    <3>2. WaitInv' /\ waiting[t] > 0
      BY <3>1, <2>3
    <3>3. CASE UNCHANGED <<counter, since>>
      BY <3>1, <3>2, <3>3, <2>2
    <3>4. CASE /\ counter' = [counter EXCEPT ![Slot(t)] = Incremented(Slot(t))]
               /\ \/ Admit(t) /\ counter'[Slot(t)].count <= limit.Burst
                  \/ UNCHANGED since
      <4>1. (TypeInv /\ CountInv /\ RateInv)'
        BY <3>1, <3>2, <3>4, CountKeeps
      <4> QED
        BY <4>1, <3>1, <3>2, <2>1 DEF IInv
    <3> QED
      BY <3>1, <3>3, <3>4
  <2>7. CASE Sweep
    <3>1. UNCHANGED <<limit, backing, now, waiting, counter, since>>
      BY <2>7 DEF Sweep, config, history
    <3>2. WaitInv'
      BY <3>1, <2>1 DEF WaitInv
    <3> QED
      BY <3>1, <3>2, <2>2
  <2>8. CASE Tick
    <3>1. /\ now < MaxTime /\ now' = now + 1
          /\ \A t \in Times : t + MaxWait <= now => waiting[t] = 0
          /\ UNCHANGED <<limit, backing, waiting, counter, since>>
      BY <2>8 DEF Tick, config, store, history
    <3>2. WaitInv'
      <4>1. now \in Nat /\ now' \in Times
        BY <3>1, <2>1, LimiterAssumption DEF WaitInv, Times
      <4>2. ASSUME NEW t \in Times, waiting[t] > 0
            PROVE  t <= now' /\ now' <= t + MaxWait
        <5>1. t \in Nat /\ waiting[t] # 0 /\ t <= now
          BY <4>2, <2>1 DEF WaitInv, Times
        <5> QED
          BY <5>1, <4>1, <3>1, <2>1
      <4> QED
        BY <4>1, <4>2, <3>1, <2>1 DEF WaitInv
    <3> QED
      BY <3>1, <3>2, <2>2
  <2>9. CASE UNCHANGED vars
    <3>1. UNCHANGED <<limit, backing, now, waiting, counter, since>>
      BY <2>9 DEF vars, config, store, history
    <3>2. WaitInv'
      BY <3>1, <2>1 DEF WaitInv
    <3> QED
      BY <3>1, <3>2, <2>2
  <2> QED
    BY <2>4, <2>5, <2>6, <2>7, <2>8, <2>9 DEF Next
<1> QED
  BY <1>1, Initially, PTL DEF Spec

\* Per window all servers together admit no more than the burst, for any limit,
\* any number of requests and however late Redis answers within the second the
\* call may take (ratelimit.go:97-107, redis.go:82-96).
THEOREM WindowsKeepTheirBurst == Spec => []WindowKeepsBurst
PROOF
<1>1. IInv => WindowKeepsBurst
  <2> SUFFICES ASSUME IInv, backing = "redis", NEW s \in 0 .. now, NEW t \in 0 .. now, s <= t
               PROVE  Admitted(s, t) <= limit.Burst * (Slot(t) - Slot(s) + 1)
    BY DEF WindowKeepsBurst
  <2>1. s \in Times /\ t \in Times
    BY LimiterAssumption DEF IInv, WaitInv, Times
  <2> QED
    BY <2>1 DEF IInv, RateInv, Kept
<1> QED
  BY <1>1, Invariance, PTL
-----------------------------------------------------------------------------
(* The bucket *)

\* What the bucket held at moment 0, had it filled at its rate ever since: a
\* refill leaves it alone, overtaken or not, or lowers it where the bucket
\* overflows; an admission takes one request's worth.
Potential == bucket.tokens - bucket.last * limit.Burst

BucketTypeInv ==
    /\ bucket.tokens \in Int /\ bucket.last \in Int /\ ordered \in BOOLEAN
    /\ bucket # NoBucket => bucket.last \in 0 .. now
    /\ since \in [0 .. MaxTime + 1 -> Nat]

Flowed(s, t) == Admitted(s, t) * FillTime <= limit.Burst * (FillTime + t - s)

\* The bucket, or the next one, serves nobody from before g, and who was
\* admitted before g is paid for by the time since: g is at least FillTime
\* after the last of them.
Began(g) ==
    /\ \A t \in Times : waiting[t] > 0 => g <= t
    /\ \A s \in Times : s < g => Admitted(s, g - 1) * FillTime <= limit.Burst * (g - s)
    /\ bucket = NoBucket => \A s \in g .. MaxTime + 1 : since[s] = 0
    /\ \A s, t \in Times : g <= s /\ s <= t /\ Admitted(s, t) # 0 =>
          Admitted(s, t) * limit.Per + Potential <= Capacity - s * limit.Burst

BucketInv ==
    /\ \A s \in 0 .. MaxTime + 1 : now < s => since[s] = 0
    /\ bucket # NoBucket =>
          \A s \in 0 .. MaxTime + 1 : bucket.last + MaxWait < s => since[s] = 0
    /\ \A s, t \in Times : s <= t => Flowed(s, t)
    /\ \E g \in 0 .. now : Began(g)

\* In order the bucket is no emptier than it must be: it was full at some
\* moment and has given only what was admitted since.
OrderInv ==
    ordered /\ bucket # NoBucket =>
        /\ \A s \in 0 .. MaxTime + 1 : bucket.last < s => since[s] = 0
        /\ \E s \in 0 .. bucket.last :
              Potential + limit.Per * since[s] >= Capacity - s * limit.Burst

Due(s, t) == (Admitted(s, t) + 1) * limit.Per > limit.Burst * (limit.Per + t - s)

DueInv ==
    /\ refused \in Int /\ refused <= now
    /\ refused >= 0 => \E s \in 0 .. refused : Due(s, refused)

MemoryInv == BucketTypeInv /\ BucketInv /\ OrderInv /\ DueInv

\* An empty bucket fills in at least a second and no sooner than the rate says.
LEMMA FillTimeIs ==
    ASSUME limit \in Limits
    PROVE  /\ FillTime \in Nat \ {0} /\ FillTime <= limit.Per
           /\ FillTime <= IdleLimit + 1 - 2 * MaxWait
PROOF
<1>1. limit.Per \in Nat \ {0} /\ IdleLimit \in Nat /\ MaxWait \in Nat /\ 2 * MaxWait <= IdleLimit
  BY LimitIs, LimiterAssumption
<1> QED
  BY <1>1 DEF FillTime, Lesser

\* Who keeps to the rate over the time a bucket takes to fill keeps to it over
\* a shorter time.
LEMMA SlowerFill ==
    ASSUME NEW a \in Int, NEW burst \in Nat, NEW per \in Nat, NEW fill \in Nat,
           fill <= per, NEW d \in Nat, a * per <= burst * (per + d)
    PROVE  a * fill <= burst * (fill + d)
PROOF
<1>1. CASE a <= burst
  <2>1. a * fill <= burst * fill
    BY <1>1
  <2>2. burst * (fill + d) = burst * fill + burst * d /\ burst * d >= 0
    OBVIOUS
  <2> QED
    BY <2>1, <2>2
<1>2. CASE a > burst
  <2>1. PICK x \in Nat : a = burst + x
    BY <1>2
  <2>2. a * per = burst * per + x * per /\ burst * (per + d) = burst * per + burst * d
    BY <2>1
  <2>3. x * per <= burst * d
    BY <2>2
  <2>4. x * fill <= x * per
    OBVIOUS
  <2>5. a * fill = burst * fill + x * fill /\ burst * (fill + d) = burst * fill + burst * d
    BY <2>1
  <2> QED
    BY <2>3, <2>4, <2>5
<1> QED
  BY <1>1, <1>2

\* What a request does to the bucket, in terms of the potential.
LEMMA TokenTaken ==
    ASSUME limit \in Limits, BucketTypeInv, NEW t \in Times, TakeToken(t)
    PROVE  /\ bucket' # NoBucket /\ bucket'.last = t /\ bucket'.tokens \in Int
           /\ Potential \in Int
           /\ \E phi \in Int, more \in 0 .. 1 :
                 /\ Potential' = phi
                 /\ phi <= Capacity - t * limit.Burst - more * limit.Per
                 /\ bucket # NoBucket => phi <= Potential - more * limit.Per
                 /\ \/ phi = Capacity - t * limit.Burst - more * limit.Per
                    \/ bucket # NoBucket /\ phi = Potential - more * limit.Per
                 /\ more = 1 => Admit(t) /\ phi + t * limit.Burst >= 0
                 /\ more = 0 => Refuse(t) /\ phi + t * limit.Burst < limit.Per
PROOF
<1>1. PICK burst \in Nat \ {0}, per \in Nat \ {0} : burst = limit.Burst /\ per = limit.Per
  BY LimitIs
<1>2. PICK tokens \in Int, last \in Int : bucket.tokens = tokens /\ bucket.last = last
  BY DEF BucketTypeInv
<1>3. t \in Nat /\ limit' = limit
  BY LimiterAssumption DEF Times, TakeToken, config
<1>4. PICK b : b = IF bucket = NoBucket THEN FreshBucket(t) ELSE Refilled(t)
  OBVIOUS
<1>5. IF b.tokens < limit.Per
      THEN Refuse(t) /\ bucket' = b
      ELSE Admit(t) /\ bucket' = [b EXCEPT !.tokens = b.tokens - limit.Per]
  BY <1>4 DEF TakeToken
<1>6. PICK cap \in Nat : cap = Capacity /\ cap = burst * per
  BY <1>1 DEF Capacity
<1>7. PICK x \in Int :
         /\ b = [tokens |-> x, last |-> t] /\ x <= cap
         /\ bucket # NoBucket => x <= tokens + (t - last) * burst
         /\ x = cap \/ (bucket # NoBucket /\ x = tokens + (t - last) * burst)
  <2>1. CASE bucket = NoBucket
    BY <2>1, <1>4, <1>6 DEF FreshBucket
  <2>2. CASE bucket # NoBucket
    <3>1. PICK y \in Int : y = tokens + (t - last) * burst
      BY <1>1, <1>2, <1>3
    <3>2. b = [tokens |-> Lesser(y, cap), last |-> t]
      BY <2>2, <3>1, <1>1, <1>2, <1>4, <1>6 DEF Refilled
    <3>3. PICK x \in Int : x = Lesser(y, cap)
      BY <1>6 DEF Lesser
    <3> QED
      BY <2>2, <3>1, <3>2, <3>3, <1>6 DEF Lesser
  <2> QED
    BY <2>1, <2>2
<1>8. PICK more \in 0 .. 1 :
         /\ bucket' = [tokens |-> x - more * per, last |-> t]
         /\ more = 1 => Admit(t) /\ x >= per
         /\ more = 0 => Refuse(t) /\ x < per
  <2>1. b.tokens = x
    BY <1>7
  <2>2. CASE x < per
    <3>1. bucket' = [tokens |-> x - 0 * per, last |-> t] /\ Refuse(t)
      BY <2>1, <2>2, <1>1, <1>5, <1>7
    <3> QED
      BY <3>1, <2>2
  <2>3. CASE ~(x < per)
    <3>1. bucket' = [b EXCEPT !.tokens = x - per]
      BY <2>1, <2>3, <1>1, <1>5
    <3>2. Admit(t)
      BY <2>1, <2>3, <1>1, <1>5
    <3>3. bucket' = [tokens |-> x - per, last |-> t]
      BY <3>1, <1>7
    <3>4. bucket' = [tokens |-> x - 1 * per, last |-> t]
      BY <3>3
    <3>5. x >= per
      BY <2>3
    <3> QED
      BY <3>2, <3>4, <3>5
  <2> QED
    BY <2>2, <2>3
<1>9. bucket'.last = t /\ bucket'.tokens = x - more * per
  BY <1>8
<1>10. bucket' # NoBucket
  BY <1>9, <1>3 DEF NoBucket
<1>11. Potential = tokens - last * burst /\ Potential' = x - more * per - t * burst
  BY <1>1, <1>2, <1>3, <1>9 DEF Potential
<1>12. (t - last) * burst = t * burst - last * burst
  BY <1>1, <1>3
<1>13. PICK tb \in Int, lb \in Int, mp \in Int : tb = t * burst /\ lb = last * burst /\ mp = more * per
  BY <1>1, <1>3
<1>14. (more = 1 => mp = per) /\ (more = 0 => mp = 0)
  BY <1>13, <1>1
<1> QED
  <2> DEFINE phi == x - mp - tb
  <2>1. phi \in Int /\ Potential' = phi
    BY <1>11, <1>13
  <2>2. phi <= cap - tb - mp
    BY <1>6, <1>7
  <2>3. bucket # NoBucket => phi <= tokens - lb - mp
    BY <1>7, <1>12, <1>13
  <2>4. \/ phi = cap - tb - mp
        \/ bucket # NoBucket /\ phi = tokens - lb - mp
    BY <1>7, <1>12, <1>13
  <2>5. more = 1 => Admit(t) /\ phi + tb >= 0
    BY <1>8, <1>14, <1>1
  <2>6. more = 0 => Refuse(t) /\ phi + tb < per
    BY <1>8, <1>14, <1>1
  <2>7. x - mp \in Int
    OBVIOUS
  <2> HIDE DEF phi
  <2>8. /\ tb = t * limit.Burst /\ mp = more * limit.Per /\ per = limit.Per
        /\ cap = Capacity /\ Potential = tokens - lb /\ Potential \in Int
    BY <1>1, <1>6, <1>11, <1>13
  <2>9. bucket'.tokens \in Int
    BY <2>7, <1>9, <1>13
  <2>10. /\ phi <= Capacity - t * limit.Burst - more * limit.Per
         /\ bucket # NoBucket => phi <= Potential - more * limit.Per
         /\ \/ phi = Capacity - t * limit.Burst - more * limit.Per
            \/ bucket # NoBucket /\ phi = Potential - more * limit.Per
    BY <2>2, <2>3, <2>4, <2>8
  <2>11. /\ more = 1 => Admit(t) /\ phi + t * limit.Burst >= 0
         /\ more = 0 => Refuse(t) /\ phi + t * limit.Burst < limit.Per
    BY <2>5, <2>6, <2>8
  <2> QED
    BY <2>1, <2>8, <2>9, <2>10, <2>11, <1>9, <1>10

\* The requests of the moments s to t, before and after one more.
LEMMA OneMore ==
    ASSUME since \in [0 .. MaxTime + 1 -> Nat], NEW t \in Times, NEW more \in 0 .. 1,
           more = 1 => Admit(t), more = 0 => UNCHANGED since
    PROVE  /\ since' \in [0 .. MaxTime + 1 -> Nat]
           /\ \A s \in 0 .. MaxTime + 1 : since'[s] = since[s] + (IF s <= t THEN more ELSE 0)
           /\ \A s, u \in Times : s <= u =>
                 /\ Admitted(s, u) \in Int
                 /\ Admitted(s, u)' = Admitted(s, u) + (IF s <= t /\ t <= u THEN more ELSE 0)
PROOF
<1>1. t \in Nat /\ MaxTime \in Nat
  BY LimiterAssumption DEF Times
<1>2. /\ since' \in [0 .. MaxTime + 1 -> Nat]
      /\ \A s \in 0 .. MaxTime + 1 : since'[s] = since[s] + (IF s <= t THEN more ELSE 0)
  <2>1. CASE more = 1
    BY <2>1, <1>1 DEF Admit
  <2>2. CASE more = 0
    BY <2>2
  <2> QED
    BY <2>1, <2>2
<1>3. ASSUME NEW s \in Times, NEW u \in Times, s <= u
      PROVE  /\ Admitted(s, u) \in Int
             /\ Admitted(s, u)' = Admitted(s, u) + (IF s <= t /\ t <= u THEN more ELSE 0)
  <2>1. s \in 0 .. MaxTime + 1 /\ u + 1 \in 0 .. MaxTime + 1 /\ s \in Nat /\ u \in Nat
    BY <1>1 DEF Times
  <2>2. since[s] \in Nat /\ since[u + 1] \in Nat
    BY <2>1
  <2>3. /\ since'[s] = since[s] + (IF s <= t THEN more ELSE 0)
        /\ since'[u + 1] = since[u + 1] + (IF u + 1 <= t THEN more ELSE 0)
    BY <2>1, <1>2
  <2> QED
    BY <1>1, <1>3, <2>1, <2>2, <2>3 DEF Admitted
<1> QED
  BY <1>2, <1>3

\* A request at the bucket keeps what the bucket has given within the rate.
LEMMA TokenKeeps ==
    ASSUME limit \in Limits, WaitInv, MemoryInv, NEW t \in Times, TakeToken(t)
    PROVE  MemoryInv'
PROOF
<1>1. PICK burst \in Nat \ {0}, per \in Nat \ {0} : burst = limit.Burst /\ per = limit.Per
  BY LimitIs
<1>2. PICK fill \in Nat \ {0} : fill = FillTime /\ fill <= per
  BY <1>1, FillTimeIs
<1>3. PICK cap \in Nat : cap = Capacity /\ cap = burst * per
  BY <1>1 DEF Capacity
<1>4. /\ limit' = limit /\ now' = now /\ FillTime' = FillTime /\ Capacity' = Capacity
      /\ waiting[t] > 0 /\ waiting' = [waiting EXCEPT ![t] = waiting[t] - 1]
      /\ ordered' => ordered /\ bucket.last <= t
  BY DEF TakeToken, config, FillTime, Capacity, Leave
<1>5. t \in Nat /\ MaxTime \in Nat /\ now \in Nat /\ t <= now /\ now <= t + MaxWait /\ MaxWait \in Nat
  BY <1>4, LimiterAssumption DEF WaitInv, Times
<1>6. BucketTypeInv /\ BucketInv /\ OrderInv /\ DueInv
  BY DEF MemoryInv
<1>7. PICK last \in Int : last = bucket.last /\ (bucket # NoBucket => last \in 0 .. now)
  BY <1>6 DEF BucketTypeInv
<1>8. /\ bucket' # NoBucket /\ bucket'.last = t /\ bucket'.tokens \in Int
      /\ Potential \in Int
  BY <1>6, TokenTaken
<1>9. PICK phi \in Int, more \in 0 .. 1 :
         /\ Potential' = phi
         /\ phi <= cap - t * burst - more * per
         /\ bucket # NoBucket => phi <= Potential - more * per
         /\ \/ phi = cap - t * burst - more * per
            \/ bucket # NoBucket /\ phi = Potential - more * per
         /\ more = 1 => Admit(t) /\ phi + t * burst >= 0
         /\ more = 0 => Refuse(t) /\ phi + t * burst < per
  BY <1>1, <1>3, <1>6, TokenTaken
<1>10. more = 0 => UNCHANGED since
  BY <1>9 DEF Refuse
<1>11. /\ since' \in [0 .. MaxTime + 1 -> Nat]
       /\ \A s \in 0 .. MaxTime + 1 : since'[s] = since[s] + (IF s <= t THEN more ELSE 0)
       /\ \A s, u \in Times : s <= u =>
             /\ Admitted(s, u) \in Int
             /\ Admitted(s, u)' = Admitted(s, u) + (IF s <= t /\ t <= u THEN more ELSE 0)
  <2>1. since \in [0 .. MaxTime + 1 -> Nat] /\ (more = 1 => Admit(t))
    BY <1>6, <1>9 DEF BucketTypeInv
  <2> QED
    BY <2>1, <1>10, OneMore
<1>12. PICK g \in 0 .. now : Began(g)
  BY <1>6 DEF BucketInv
<1>13. g \in Times /\ g <= t /\ g \in Nat
  BY <1>4, <1>5, <1>12 DEF Began, Times, WaitInv
<1>14. BucketTypeInv'
  <2>1. t \in 0 .. now'
    BY <1>4, <1>5
  <2>2. ordered' \in BOOLEAN
    BY Zenon DEF TakeToken
  <2> QED
    BY <2>1, <2>2, <1>5, <1>8, <1>11 DEF BucketTypeInv
<1>15. \A s \in Times : s < g => /\ Admitted(s, g - 1)' = Admitted(s, g - 1)
                                /\ Admitted(s, g - 1) \in Int
                                /\ Admitted(s, g - 1) * fill <= burst * (g - s)
  <2> SUFFICES ASSUME NEW s \in Times, s < g
               PROVE  /\ Admitted(s, g - 1)' = Admitted(s, g - 1)
                      /\ Admitted(s, g - 1) \in Int
                      /\ Admitted(s, g - 1) * fill <= burst * (g - s)
    OBVIOUS
  <2>1. s \in Nat /\ g - 1 \in Times /\ s <= g - 1 /\ ~(t <= g - 1)
    BY <1>5, <1>13 DEF Times
  <2>2. Admitted(s, g - 1)' = Admitted(s, g - 1) /\ Admitted(s, g - 1) \in Int
    BY <2>1, <1>11
  <2>3. Admitted(s, g - 1) * fill <= burst * (g - s)
    BY <1>1, <1>2, <1>12 DEF Began
  <2> QED
    BY <2>2, <2>3
<1>16. \A s, u \in Times : g <= s /\ s <= u /\ Admitted(s, u)' # 0 =>
          Admitted(s, u)' * per + phi <= cap - s * burst
  <2> SUFFICES ASSUME NEW s \in Times, NEW u \in Times, g <= s, s <= u, Admitted(s, u)' # 0
               PROVE  Admitted(s, u)' * per + phi <= cap - s * burst
    OBVIOUS
  <2>1. PICK a \in Int : a = Admitted(s, u)
    BY <1>11
  <2>2. Admitted(s, u)' = a + (IF s <= t /\ t <= u THEN more ELSE 0)
    BY <2>1, <1>11
  <2>3. s \in Nat /\ u \in Nat
    BY DEF Times
  <2>4. PICK mp \in Nat : mp = more * per
    BY <1>1
  <2>5. CASE a = 0
    <3>1. s <= t /\ more = 1
      BY <2>2, <2>5
    <3>2. Admitted(s, u)' * per = mp
      BY <2>2, <2>4, <2>5, <3>1, <1>1
    <3>3. s * burst <= t * burst /\ s * burst \in Nat /\ t * burst \in Nat
      BY <3>1, <2>3, <1>1, <1>5
    <3> QED
      BY <3>2, <3>3, <2>4, <1>9
  <2>6. CASE a # 0
    <3>1. bucket # NoBucket
      <4>1. s \in g .. MaxTime + 1 /\ u + 1 \in g .. MaxTime + 1
        BY <2>3, <1>5, <1>13 DEF Times
      <4>2. since[s] = 0 /\ since[u + 1] = 0 => a = 0
        BY <2>1 DEF Admitted
      <4> QED
        BY <4>1, <4>2, <2>6, <1>12 DEF Began
    <3>2. a * per + Potential <= cap - s * burst
      BY <2>1, <2>6, <1>1, <1>3, <1>12 DEF Began
    <3>3. phi <= Potential - mp
      BY <3>1, <2>4, <1>9
    <3>4. PICK ap \in Int : ap = a * per
      BY <1>1
    <3>5. Admitted(s, u)' * per = ap \/ Admitted(s, u)' * per = ap + mp
      <4>1. (a + more) * per = ap + mp
        BY <3>4, <2>4, <1>1
      <4>2. Admitted(s, u)' = a \/ Admitted(s, u)' = a + more
        BY <2>2
      <4> QED
        BY <4>1, <4>2, <3>4
    <3>6. s * burst \in Nat
      BY <2>3, <1>1
    <3> QED
      BY <3>2, <3>3, <3>4, <3>5, <3>6, <2>4, <1>8
  <2> QED
    BY <2>5, <2>6
<1>17. Began(g)'
  <2>1. \A u \in Times : waiting'[u] > 0 => g <= u
    <3> SUFFICES ASSUME NEW u \in Times, waiting'[u] > 0
                 PROVE  g <= u
      OBVIOUS
    <3>1. waiting[u] \in Nat /\ waiting \in [Times -> Nat]
      BY DEF WaitInv
    <3>2. waiting'[u] = IF u = t THEN waiting[t] - 1 ELSE waiting[u]
      BY <3>1, <1>4
    <3>3. waiting[u] > 0
      BY <3>1, <3>2, <1>4
    <3> QED
      BY <3>3, <1>12 DEF Began
  <2>2. \A s \in Times : s < g => (Admitted(s, g - 1) * FillTime <= limit.Burst * (g - s))'
    BY <1>1, <1>2, <1>4, <1>15
  <2>3. \A s, u \in Times : g <= s /\ s <= u /\ Admitted(s, u)' # 0 =>
          Admitted(s, u)' * limit'.Per + Potential' <= Capacity' - s * limit'.Burst
    BY <1>1, <1>3, <1>4, <1>9, <1>16
  <2> QED
    BY <2>1, <2>2, <2>3, <1>8 DEF Began, NoBucket
<1>18. ASSUME NEW s \in Times, NEW u \in Times, s <= u
       PROVE  Flowed(s, u)'
  <2>1. s \in Nat /\ u \in Nat
    BY DEF Times
  <2>2. /\ Admitted(s, u) \in Int /\ Admitted(s, u) * fill <= burst * (fill + u - s)
        /\ Admitted(s, u)' = Admitted(s, u) + (IF s <= t /\ t <= u THEN more ELSE 0)
    BY <1>1, <1>2, <1>6, <1>11, <1>18 DEF BucketInv, Flowed
  <2>3. ASSUME NEW v \in Times, g <= v, v <= t, t <= u, more = 1
        PROVE  /\ Admitted(v, u)' * fill <= burst * (fill + u - v)
               /\ Admitted(v, u)' \in Int /\ Admitted(v, u) \in Int
    <3>1. v \in Nat /\ v <= u
      BY <2>1, <2>3, <1>5 DEF Times
    <3>2. PICK a \in Int : a = Admitted(v, u)' /\ Admitted(v, u) \in Int
      BY <3>1, <1>11
    <3>3. PICK d \in Nat : d = u - v
      BY <3>1, <2>1
    <3>4. CASE a = 0
      <4>1. a * fill = 0
        BY <3>4
      <4>2. burst * (fill + d) \in Nat
        BY <1>1, <1>2
      <4>3. fill + u - v = fill + d
        BY <3>1, <3>3, <2>1
      <4> QED
        BY <4>1, <4>2, <4>3, <3>2
    <3>5. CASE a # 0
      <4>1. a * per + phi <= cap - v * burst
        BY <3>1, <3>2, <3>5, <2>3, <1>16
      <4>2. phi + t * burst >= 0
        BY <2>3, <1>9
      <4>3. u * burst = v * burst + d * burst /\ t * burst <= u * burst
        BY <3>1, <3>3, <2>1, <2>3, <1>1, <1>5
      <4>4. burst * (per + d) = cap + d * burst
        BY <1>1, <1>3, <3>3
      <4>5. /\ v * burst \in Nat /\ t * burst \in Nat /\ u * burst \in Nat
            /\ d * burst \in Nat /\ a * per \in Int
        BY <3>1, <3>2, <3>3, <2>1, <1>1, <1>5
      <4>6. a * per <= cap + d * burst
        BY <4>1, <4>2, <4>3, <4>5
      <4>7. a * fill <= burst * (fill + d)
        <5>1. a * per <= burst * (per + d)
          BY <4>4, <4>6
        <5> QED
          BY <5>1, <1>1, <1>2, SlowerFill
      <4>8. fill + u - v = fill + d
        BY <3>1, <3>3, <2>1
      <4> QED
        BY <4>7, <4>8, <3>2
    <3> QED
      BY <3>4, <3>5
  <2>4. Admitted(s, u)' * fill <= burst * (fill + u - s)
    <3>1. CASE ~(s <= t /\ t <= u /\ more = 1)
      <4>1. Admitted(s, u)' = Admitted(s, u)
        BY <3>1, <2>2
      <4> QED
        BY <4>1, <2>2
    <3>2. CASE s <= t /\ t <= u /\ more = 1 /\ g <= s
      BY <3>2, <2>3
    <3>3. CASE t <= u /\ more = 1 /\ s < g
      <4>1. /\ Admitted(g, u)' * fill <= burst * (fill + u - g)
            /\ Admitted(g, u)' \in Int /\ Admitted(g, u) \in Int
        BY <3>3, <2>3, <1>13
      <4>2. /\ Admitted(s, g - 1)' = Admitted(s, g - 1)
            /\ Admitted(s, g - 1) \in Int
            /\ Admitted(s, g - 1) * fill <= burst * (g - s)
        BY <3>3, <1>15
      <4>3. PICK x \in Int, y \in Int : x = Admitted(s, g - 1)' /\ y = Admitted(g, u)'
        BY <4>1, <4>2
      <4>4. Admitted(s, u)' = x + y
        <5>1. Admitted(s, u)' = since'[s] - since'[u + 1] /\ x = since'[s] - since'[g] /\ y = since'[g] - since'[u + 1]
          <6>1. g - 1 + 1 = g
            BY <1>13
          <6> QED
            BY <6>1, <4>3 DEF Admitted
        <5>2. s \in 0 .. MaxTime + 1 /\ g \in 0 .. MaxTime + 1 /\ u + 1 \in 0 .. MaxTime + 1
          BY <1>5, <1>13 DEF Times
        <5>3. since'[s] \in Nat /\ since'[g] \in Nat /\ since'[u + 1] \in Nat
          BY <5>2, <1>11
        <5> QED
          BY <5>1, <5>3
      <4>5. (x + y) * fill = x * fill + y * fill
        BY <1>2
      <4>6. burst * (g - s) + burst * (fill + u - g) = burst * (fill + u - s)
        BY <2>1, <1>1, <1>2, <1>13
      <4>7. x * fill <= burst * (g - s) /\ y * fill <= burst * (fill + u - g)
        BY <4>1, <4>2, <4>3
      <4>8. /\ x * fill \in Int /\ y * fill \in Int
            /\ burst * (g - s) \in Int /\ burst * (fill + u - g) \in Int
        BY <2>1, <1>1, <1>2, <1>13
      <4> QED
        BY <4>4, <4>5, <4>6, <4>7, <4>8
    <3> QED
      BY <3>1, <3>2, <3>3, <2>1, <1>13
  <2> QED
    BY <2>4, <1>1, <1>2, <1>4 DEF Flowed
<1>19. BucketInv'
  <2>1. \A s \in 0 .. MaxTime + 1 : now' < s => since'[s] = 0
    BY <1>4, <1>5, <1>6, <1>11 DEF BucketInv, BucketTypeInv
  <2>2. \A s \in 0 .. MaxTime + 1 : bucket'.last + MaxWait < s => since'[s] = 0
    BY <2>1, <1>4, <1>5, <1>8
  <2>3. g \in 0 .. now'
    BY <1>4, <1>12
  <2> QED
    BY <2>1, <2>2, <2>3, <1>17, <1>18 DEF BucketInv
<1>20. ordered' => \A s \in 0 .. MaxTime + 1 : t < s => since'[s] = 0
  <2> SUFFICES ASSUME ordered', NEW s \in 0 .. MaxTime + 1, t < s
               PROVE  since[s] = 0
    BY <1>5, <1>6, <1>11 DEF BucketTypeInv
  <2>1. CASE bucket = NoBucket
    BY <2>1, <1>5, <1>12, <1>13 DEF Began
  <2>2. CASE bucket # NoBucket
    <3>1. ordered /\ last <= t
      BY <1>4, <1>7
    <3> QED
      BY <3>1, <2>2, <1>5, <1>6, <1>7 DEF OrderInv
  <2> QED
    BY <2>1, <2>2
<1>21. ordered' => \E s \in 0 .. t : phi + per * since'[s] >= cap - s * burst
  <2> SUFFICES ASSUME ordered'
               PROVE  \E s \in 0 .. t : phi + per * since'[s] >= cap - s * burst
    OBVIOUS
  <2>1. CASE phi = cap - t * burst - more * per
    <3>1. since[t] \in Nat /\ since'[t] = since[t] + more
      <4>1. t \in 0 .. MaxTime + 1
        BY <1>5 DEF Times
      <4> QED
        BY <4>1, <1>5, <1>6, <1>11 DEF BucketTypeInv
    <3>2. PICK n \in Nat : n = since[t] /\ since'[t] = n + more
      BY <3>1
    <3>3. per * (n + more) = per * n + more * per /\ per * n \in Nat
      BY <3>2, <1>1
    <3>4. phi + per * since'[t] >= cap - t * burst
      BY <3>2, <3>3, <2>1, <1>1, <1>5
    <3> QED
      BY <3>4, <1>5
  <2>2. CASE bucket # NoBucket /\ phi = Potential - more * per
    <3>1. ordered /\ last <= t /\ last \in 0 .. now
      BY <2>2, <1>4, <1>7
    <3>2. PICK s \in 0 .. last : Potential + per * since[s] >= cap - s * burst
      BY <3>1, <2>2, <1>1, <1>3, <1>6, <1>7 DEF OrderInv
    <3>3. s \in 0 .. MaxTime + 1 /\ s \in 0 .. t
      BY <3>1, <3>2, <1>5 DEF Times
    <3>4. PICK n \in Nat : n = since[s] /\ since'[s] = n + more
      <4>1. since[s] \in Nat
        BY <3>3, <1>6 DEF BucketTypeInv
      <4>2. s <= t
        BY <3>3
      <4>3. since'[s] = since[s] + more
        BY <4>2, <3>3, <1>11
      <4> QED
        BY <4>1, <4>3
    <3>5. per * (n + more) = per * n + more * per /\ per * n \in Nat
      BY <1>1
    <3>6. phi + per * since'[s] >= cap - s * burst
      BY <3>2, <3>3, <3>4, <3>5, <2>2, <1>1, <1>8
    <3> QED
      BY <3>3, <3>6
  <2> QED
    BY <2>1, <2>2, <1>9
<1>22. OrderInv'
  BY <1>1, <1>3, <1>4, <1>8, <1>9, <1>20, <1>21 DEF OrderInv, NoBucket
<1>23. DueInv'
  <2>1. CASE ordered' /\ more = 0
    <3>1. refused' = t
      BY <2>1, <1>9 DEF Refuse
    <3>2. PICK s \in 0 .. t : phi + per * since'[s] >= cap - s * burst
      BY <2>1, <1>21
    <3>3. s \in 0 .. MaxTime + 1 /\ t + 1 \in 0 .. MaxTime + 1 /\ s \in Nat
      BY <3>2, <1>5 DEF Times
    <3>4. PICK n \in Nat : n = since'[s] /\ since'[t + 1] = 0
      BY <3>3, <2>1, <1>5, <1>11, <1>20
    <3>5. Admitted(s, t)' = n
      BY <3>4 DEF Admitted
    <3>6. phi + t * burst < per
      BY <2>1, <1>1, <1>9
    <3>7. /\ (n + 1) * per = per * n + per
          /\ burst * (per + t - s) = burst * per + t * burst - s * burst
      BY <3>3, <1>1, <1>5
    <3>8. per * n \in Nat /\ t * burst \in Nat /\ s * burst \in Nat
      BY <3>3, <1>1, <1>5
    <3>9. (n + 1) * per > burst * (per + t - s)
      BY <3>2, <3>4, <3>6, <3>7, <3>8, <1>3
    <3>10. Due(s, t)'
      BY <3>5, <3>9, <1>1, <1>4 DEF Due
    <3> QED
      BY <3>1, <3>10, <1>4, <1>5, <3>2 DEF DueInv, Due
  <2>2. CASE ~(ordered' /\ more = 0)
    <3>1. refused' = refused /\ refused \in Int /\ refused <= now
      BY <2>2, <1>6, <1>9 DEF Refuse, Admit, DueInv
    <3>2. ASSUME refused >= 0
          PROVE  \E s \in 0 .. refused : Due(s, refused)'
      <4>1. PICK s \in 0 .. refused : Due(s, refused)
        BY <3>2, <1>6 DEF DueInv
      <4>2. s \in Times /\ refused \in Times /\ s <= refused /\ s \in Nat /\ refused \in Nat
        BY <3>1, <3>2, <1>5 DEF Times, WaitInv
      <4>3. PICK a \in Int, b \in Int : a = Admitted(s, refused) /\ b = Admitted(s, refused)' /\ a <= b
        <5>1. PICK r \in Times : r = refused /\ s <= r
          BY <4>2
        <5>2. Admitted(s, refused)' = Admitted(s, r)' /\ Admitted(s, refused) = Admitted(s, r)
          BY <5>1, <3>1 DEF Admitted
        <5>3. /\ Admitted(s, r) \in Int
              /\ Admitted(s, r)' = Admitted(s, r) + (IF s <= t /\ t <= r THEN more ELSE 0)
          BY <5>1, <4>2, <1>11
        <5> QED
          BY <5>2, <5>3
      <4>4. (a + 1) * per > burst * (per + refused - s)
        BY <4>1, <4>3, <1>1 DEF Due
      <4>5. (b + 1) * per >= (a + 1) * per
        BY <4>3, <1>1
      <4>6. (b + 1) * per > burst * (per + refused - s)
        <5>1. /\ (b + 1) * per \in Int /\ (a + 1) * per \in Int
              /\ burst * (per + refused - s) \in Int
          BY <4>2, <1>1
        <5> QED
          BY <5>1, <4>4, <4>5
      <4> QED
        BY <4>3, <4>6, <3>1, <1>1, <1>4 DEF Due
    <3> QED
      BY <3>1, <3>2, <1>4 DEF DueInv
  <2> QED
    BY <2>1, <2>2
<1> QED
  BY <1>14, <1>19, <1>22, <1>23 DEF MemoryInv

\* The sweeper gives away a bucket that has filled meanwhile, or as much of it
\* as FillTime says.
LEMMA SweepKeeps ==
    ASSUME limit \in Limits, WaitInv, MemoryInv, Sweep
    PROVE  MemoryInv'
PROOF
<1>1. PICK burst \in Nat \ {0} : burst = limit.Burst
  BY LimitIs
<1>2. PICK fill \in Nat \ {0} : fill = FillTime /\ fill <= IdleLimit + 1 - 2 * MaxWait
  BY FillTimeIs
<1>3. /\ bucket # NoBucket /\ now - bucket.last > IdleLimit
      /\ bucket' = NoBucket
      /\ UNCHANGED <<limit, now, waiting, since, refused, ordered>>
  BY DEF Sweep, config, history
<1>4. BucketTypeInv /\ BucketInv /\ DueInv
  BY DEF MemoryInv
<1>5. PICK last \in 0 .. now : last = bucket.last
  BY <1>3, <1>4 DEF BucketTypeInv
<1>6. /\ now \in Nat /\ MaxWait \in Nat /\ IdleLimit \in Nat /\ 2 * MaxWait <= IdleLimit
      /\ MaxTime \in Nat /\ now <= MaxTime
  BY LimiterAssumption DEF WaitInv, Times
<1>7. PICK g \in 0 .. now : g = now - MaxWait /\ last + MaxWait < g /\ g - (last + MaxWait) >= fill
  BY <1>2, <1>3, <1>5, <1>6
<1>8. \A s, t \in Times : Admitted(s, t)' = Admitted(s, t) /\ Flowed(s, t)' = Flowed(s, t)
  BY <1>3 DEF Admitted, Flowed, FillTime
<1>9. \A s \in g .. MaxTime + 1 : since[s] = 0
  BY <1>3, <1>4, <1>5, <1>6, <1>7 DEF BucketInv
<1>10. BucketTypeInv'
  BY <1>3, <1>4 DEF BucketTypeInv, NoBucket
<1>11. Began(g)'
  <2>1. \A t \in Times : waiting'[t] > 0 => g <= t
    BY <1>3, <1>6, <1>7 DEF WaitInv, Times
  <2>2. ASSUME NEW s \in Times, s < g
        PROVE  (Admitted(s, g - 1) * FillTime <= limit.Burst * (g - s))'
    <3>1. s \in Nat /\ g - 1 \in Times /\ g \in 0 .. MaxTime + 1 /\ s \in 0 .. MaxTime + 1
      BY <1>6, <1>7, <2>2 DEF Times
    <3>2. since[g] = 0 /\ since[s] \in Nat
      BY <3>1, <1>4, <1>9 DEF BucketTypeInv
    <3>3. PICK n \in Nat : n = since[s] /\ Admitted(s, g - 1) = n
      <4>1. g - 1 + 1 = g
        BY <1>7
      <4> QED
        BY <4>1, <3>2 DEF Admitted
    <3>4. n * fill <= burst * (g - s)
      <4>1. CASE last + MaxWait < s
        <5>1. n = 0
          BY <4>1, <3>1, <3>3, <1>3, <1>4, <1>5 DEF BucketInv
        <5>2. burst * (g - s) \in Nat
          BY <3>1, <2>2, <1>1, <1>7
        <5> QED
          BY <5>1, <5>2, <1>2
      <4>2. CASE s <= last + MaxWait
        <5>1. PICK z \in Times : z = last + MaxWait
          BY <1>5, <1>6, <1>7 DEF Times
        <5>2. s <= z /\ z \in Nat /\ z + 1 \in 0 .. MaxTime + 1
          BY <5>1, <4>2, <1>5, <1>6, <1>7 DEF Times
        <5>3. since[z + 1] = 0
          BY <5>1, <5>2, <1>3, <1>4, <1>5, <1>6 DEF BucketInv
        <5>4. Admitted(s, z) = n
          BY <5>3, <3>3 DEF Admitted
        <5>5. n * fill <= burst * (fill + z - s)
          BY <5>2, <5>4, <1>1, <1>2, <1>4 DEF BucketInv, Flowed
        <5>6. fill + z - s <= g - s /\ fill + z - s \in Nat /\ g - s \in Nat
          BY <5>1, <5>2, <3>1, <2>2, <1>7
        <5>7. burst * (fill + z - s) <= burst * (g - s)
          BY <5>6, <1>1
        <5>8. n * fill \in Nat /\ burst * (fill + z - s) \in Nat /\ burst * (g - s) \in Nat
          BY <5>6, <1>1, <1>2
        <5> QED
          BY <5>5, <5>7, <5>8
      <4> QED
        BY <4>1, <4>2, <3>1, <1>5, <1>6
    <3>5. /\ Admitted(s, g - 1)' = Admitted(s, g - 1)
          /\ FillTime' = FillTime /\ limit' = limit
      BY <1>3 DEF Admitted, FillTime
    <3> QED
      BY <3>3, <3>4, <3>5, <1>1, <1>2
  <2>3. \A s, t \in Times : g <= s /\ s <= t => Admitted(s, t)' = 0
    <3> SUFFICES ASSUME NEW s \in Times, NEW t \in Times, g <= s, s <= t
                 PROVE  Admitted(s, t) = 0
      BY <1>8
    <3>1. s \in g .. MaxTime + 1 /\ t + 1 \in g .. MaxTime + 1
      BY <1>6, <1>7 DEF Times
    <3>2. since[s] = 0 /\ since[t + 1] = 0
      BY <3>1, <1>9
    <3> QED
      BY <3>2 DEF Admitted
  <2> QED
    BY <2>1, <2>2, <2>3, <1>3, <1>9 DEF Began
<1>12. BucketInv'
  <2>1. g \in 0 .. now'
    BY <1>3, <1>7
  <2>2. bucket' = NoBucket'
    BY <1>3 DEF NoBucket
  <2>3. \A s, t \in Times : s <= t => Flowed(s, t)'
    BY <1>4, <1>8 DEF BucketInv
  <2> QED
    BY <2>1, <2>2, <2>3, <1>3, <1>4, <1>11 DEF BucketInv
<1>13. OrderInv'
  BY <1>3 DEF OrderInv, NoBucket
<1>14. DueInv'
  BY <1>3, <1>4 DEF DueInv, Due, Admitted
<1> QED
  BY <1>10, <1>12, <1>13, <1>14 DEF MemoryInv

\* Nothing but the bucket's own steps concerns it; the clock and the requests
\* that arrive only come after it.
LEMMA OthersKeep ==
    ASSUME WaitInv, MemoryInv,
           UNCHANGED <<limit, bucket, since, refused, ordered>>,
           \/ UNCHANGED <<now, waiting>>
           \/ UNCHANGED now /\ waiting' = [waiting EXCEPT ![now] = waiting[now] + 1]
           \/ UNCHANGED waiting /\ now' = now + 1
    PROVE  MemoryInv'
PROOF
<1>1. BucketTypeInv /\ BucketInv /\ OrderInv /\ DueInv
  BY DEF MemoryInv
<1>2. now \in Nat /\ now' \in Nat /\ now <= now'
  BY DEF WaitInv, Times
<1>3. /\ Potential' = Potential /\ Capacity' = Capacity /\ FillTime' = FillTime
      /\ \A s, t \in Times : Admitted(s, t)' = Admitted(s, t) /\ Flowed(s, t)' = Flowed(s, t)
  BY DEF Potential, Capacity, FillTime, Admitted, Flowed
<1>4. BucketTypeInv'
  BY <1>1, <1>2 DEF BucketTypeInv, NoBucket
<1>5. BucketInv'
  <2>1. PICK g \in 0 .. now : Began(g)
    BY <1>1 DEF BucketInv
  <2>2. \A t \in Times : waiting'[t] > 0 => g <= t
    <3> SUFFICES ASSUME NEW t \in Times, waiting'[t] > 0, t # now
                 PROVE  g <= t
      BY <2>1, <1>2
    <3>1. waiting'[t] = waiting[t]
      BY DEF WaitInv
    <3> QED
      BY <3>1, <2>1 DEF Began
  <2>3. Began(g)'
    <3>1. \A s \in Times : s < g => Admitted(s, g - 1)' = Admitted(s, g - 1)
      BY DEF Admitted
    <3> QED
      BY <2>1, <2>2, <3>1, <1>3 DEF Began, NoBucket
  <2>4. g \in 0 .. now'
    BY <2>1, <1>2
  <2>5. \A s \in 0 .. MaxTime + 1 : now' < s => since'[s] = 0
    BY <1>1, <1>2 DEF BucketInv
  <2>6. \A s, t \in Times : s <= t => Flowed(s, t)'
    BY <1>1, <1>3 DEF BucketInv
  <2> QED
    BY <2>3, <2>4, <2>5, <2>6, <1>1 DEF BucketInv, NoBucket
<1>6. OrderInv'
  BY <1>1, <1>3 DEF OrderInv, NoBucket
<1>7. DueInv'
  BY <1>1, <1>2 DEF DueInv, Due, Admitted
<1> QED
  BY <1>4, <1>5, <1>6, <1>7 DEF MemoryInv

-----------------------------------------------------------------------------
(* Refusals by the shared counter *)

FirstOf(t) == Slot(t) * limit.Per

\* A counter below the burst has counted nobody who was not admitted, and one
\* at the burst has admitted as many.
Deserved(t) ==
    Lesser(counter[Slot(t)].count, limit.Burst) <= Admitted(FirstOf(t), SlotEnd(t))

SharedInv ==
    /\ ordered = TRUE /\ refused \in Int /\ refused <= now
    /\ \A t \in Times : Deserved(t)
    /\ refused >= 0 => Admitted(FirstOf(refused), SlotEnd(refused)) >= limit.Burst

\* The moments of a window, as far as the clock goes.
LEMMA WindowEnds ==
    ASSUME limit \in Limits, NEW t \in Times
    PROVE  /\ FirstOf(t) \in Times /\ FirstOf(t) <= t /\ Slot(FirstOf(t)) = Slot(t)
           /\ SlotEnd(t) \in Times /\ t <= SlotEnd(t)
PROOF
<1>1. PICK per \in Nat \ {0} : per = limit.Per
  BY LimitIs
<1>2. t \in Nat /\ MaxTime \in Nat /\ t <= MaxTime
  BY LimiterAssumption DEF Times
<1>3. PICK k \in Nat : k = Slot(t) /\ per * k <= t /\ t < per * k + per
  BY <1>1, <1>2, Division DEF Slot
<1>4. PICK first \in Nat : first = k * per /\ first = per * k
  OBVIOUS
<1>5. first \div per = k
  BY <1>1, <1>4, DivisionIs
<1>6. (k + 1) * per = first + per
  BY <1>1, <1>4
<1>7. SlotEnd(t) = Lesser(MaxTime, first + per - 1)
  BY <1>1, <1>3, <1>6 DEF SlotEnd
<1>8. SlotEnd(t) \in Times /\ t <= SlotEnd(t)
  BY <1>1, <1>2, <1>3, <1>4, <1>7 DEF Lesser, Times
<1>9. FirstOf(t) = first
  BY <1>1, <1>3, <1>4 DEF FirstOf
<1>10. first \in Times /\ first <= t
  BY <1>2, <1>3, <1>4 DEF Times
<1> QED
  BY <1>1, <1>3, <1>5, <1>8, <1>9, <1>10 DEF Slot

\* A call to Redis counts towards the burst whom it admits, and is refused only
\* by a window that has admitted its burst.
LEMMA CallDeserves ==
    ASSUME limit \in Limits, WaitInv, TypeInv, SharedInv, NEW t \in Times, t <= now,
           UNCHANGED <<limit, now, ordered>>,
           counter' = [counter EXCEPT ![Slot(t)] = Incremented(Slot(t))],
           IF counter'[Slot(t)].count <= limit.Burst
           THEN Admit(t)
           ELSE UNCHANGED since /\ refused' \in {t, refused}
    PROVE  SharedInv'
PROOF
<1>1. PICK burst \in Nat \ {0} : burst = limit.Burst
  BY LimitIs
<1>2. PICK k \in Times : k = Slot(t)
  BY WindowOf
<1>3. PICK n \in Nat : n = counter[k].count
  BY <1>2 DEF TypeInv
<1>4. PICK m \in Nat : /\ m = Lesser(n, burst) \/ m = 0
                       /\ counter'[k].count = m + 1
                       /\ \A j \in Times \ {k} : counter'[j] = counter[j]
  <2>1. PICK c \in {n, 0} : c = IF now < counter[k].expires THEN counter[k].count ELSE 0
    BY <1>3
  <2>2. Lesser(c, burst) \in Nat /\ (c = 0 => Lesser(c, burst) = 0)
    BY <1>3, <2>1 DEF Lesser
  <2>3. Incremented(k).count = Lesser(c, burst) + 1
    BY <1>1, <2>1 DEF Incremented
  <2>4. counter'[k].count = Lesser(c, burst) + 1
    BY <1>2, <2>3 DEF TypeInv
  <2>5. \A j \in Times \ {k} : counter'[j] = counter[j]
    BY <1>2 DEF TypeInv
  <2> QED
    BY <2>1, <2>2, <2>4, <2>5
<1>5. PICK more \in 0 .. 1 :
         /\ more = 1 => Admit(t) /\ m + 1 <= burst
         /\ more = 0 => UNCHANGED since /\ m + 1 > burst /\ refused' \in {t, refused}
  BY <1>1, <1>2, <1>4
<1>6. \A s, u \in Times : s <= u =>
         /\ Admitted(s, u) \in Int
         /\ Admitted(s, u)' = Admitted(s, u) + (IF s <= t /\ t <= u THEN more ELSE 0)
  <2>1. since \in [0 .. MaxTime + 1 -> Nat]
    BY DEF TypeInv
  <2>2. (more = 1 => Admit(t)) /\ (more = 0 => UNCHANGED since)
    BY <1>5
  <2> QED
    BY <2>1, <2>2, OneMore
<1>7. \A u \in Times : /\ FirstOf(u)' = FirstOf(u) /\ SlotEnd(u)' = SlotEnd(u) /\ Slot(u)' = Slot(u)
                       /\ FirstOf(u) \in Times /\ SlotEnd(u) \in Times /\ Slot(u) \in Times
                       /\ FirstOf(u) <= u /\ u <= SlotEnd(u) /\ u \in Nat
                       /\ FirstOf(u) \in Nat /\ SlotEnd(u) \in Nat
  BY WindowEnds, WindowOf DEF FirstOf, SlotEnd, Slot, Times
<1>8. \A u \in Times : Admitted(FirstOf(u), SlotEnd(u)) \in Int
  BY <1>6, <1>7
<1>9. ASSUME NEW u \in Times
      PROVE  (Admitted(FirstOf(u), SlotEnd(u)))' = Admitted(FirstOf(u), SlotEnd(u))
                 + (IF FirstOf(u) <= t /\ t <= SlotEnd(u) THEN more ELSE 0)
  <2>1. PICK a \in Times, z \in Times : a = FirstOf(u) /\ z = SlotEnd(u) /\ a <= z
    BY <1>7
  <2>2. (Admitted(FirstOf(u), SlotEnd(u)))' = Admitted(a, z)'
    BY <2>1, <1>7 DEF Admitted
  <2> QED
    BY <2>1, <2>2, <1>6
<1>10. \A u \in Times : Slot(u) = k => Admitted(FirstOf(u), SlotEnd(u)) = Admitted(FirstOf(t), SlotEnd(t))
  BY <1>2 DEF FirstOf, SlotEnd
<1>11. Lesser(n, burst) <= Admitted(FirstOf(t), SlotEnd(t)) /\ Lesser(n, burst) \in Nat
  BY <1>1, <1>2, <1>3 DEF SharedInv, Deserved, Lesser
<1>12. m <= Admitted(FirstOf(t), SlotEnd(t)) /\ Admitted(FirstOf(t), SlotEnd(t)) \in Int
  BY <1>4, <1>8, <1>11
<1>13. m <= burst
  BY <1>1, <1>3, <1>4 DEF Lesser
<1>14. Lesser(m + 1, burst) <= (Admitted(FirstOf(t), SlotEnd(t)))'
  BY <1>5, <1>7, <1>9, <1>12, <1>13 DEF Lesser
<1>15. ASSUME NEW u \in Times
       PROVE  Deserved(u)'
  <2>1. CASE Slot(u) = k
    <3>1. (Admitted(FirstOf(u), SlotEnd(u)))' = (Admitted(FirstOf(t), SlotEnd(t)))'
      BY <2>1, <1>2, <1>7 DEF FirstOf, SlotEnd, Admitted
    <3> QED
      BY <3>1, <2>1, <1>1, <1>4, <1>7, <1>14 DEF Deserved
  <2>2. CASE Slot(u) # k
    <3>1. counter'[Slot(u)] = counter[Slot(u)] /\ counter[Slot(u)].count \in Nat
      BY <2>2, <1>4, <1>7 DEF TypeInv
    <3>2. Lesser(counter[Slot(u)].count, burst) <= Admitted(FirstOf(u), SlotEnd(u))
      BY <1>1 DEF SharedInv, Deserved
    <3>3. Lesser(counter[Slot(u)].count, burst) \in Nat
      BY <3>1 DEF Lesser
    <3> QED
      BY <3>1, <3>2, <3>3, <1>1, <1>7, <1>8, <1>9 DEF Deserved
  <2> QED
    BY <2>1, <2>2
<1>16. refused' \in Int /\ refused' <= now'
  BY <1>5 DEF SharedInv, Admit, Times, WaitInv
<1>17. ASSUME refused' >= 0
       PROVE  (Admitted(FirstOf(refused), SlotEnd(refused)))' >= burst
  <2>1. CASE refused' = t /\ more = 0
    <3>1. m + 1 > burst
      BY <2>1, <1>5
    <3>2. (Admitted(FirstOf(t), SlotEnd(t)))' >= burst
      BY <3>1, <1>7, <1>9, <1>12, <1>13
    <3> QED
      BY <3>2, <2>1 DEF FirstOf, SlotEnd, Slot, Admitted
  <2>2. CASE refused' = refused
    <3>1. PICK r \in Times : r = refused
      <4>1. refused \in Int /\ refused >= 0 /\ refused <= now /\ now <= MaxTime
        BY <2>2, <1>17, LimiterAssumption DEF SharedInv, WaitInv, Times
      <4>2. MaxTime \in Nat /\ now \in Nat
        BY LimiterAssumption DEF WaitInv, Times
      <4>3. refused \in 0 .. MaxTime
        BY <4>1, <4>2
      <4> QED
        BY <4>3 DEF Times
    <3>2. Admitted(FirstOf(r), SlotEnd(r)) >= burst
      BY <3>1, <2>2, <1>1, <1>17 DEF SharedInv
    <3>3. (Admitted(FirstOf(r), SlotEnd(r)))' >= burst
      BY <3>2, <1>8, <1>9
    <3> QED
      BY <3>1, <3>3, <2>2 DEF FirstOf, SlotEnd, Slot, Admitted
  <2> QED
    BY <2>1, <2>2, <1>5 DEF Admit
<1> QED
  BY <1>1, <1>15, <1>16, <1>17 DEF SharedInv

-----------------------------------------------------------------------------
(* Theorems on the bucket and on refusals *)

RefusalInv ==
    /\ backing = "memory" => MemoryInv
    /\ backing = "redis" => SharedInv

LEMMA InitiallyFull == Init => RefusalInv
PROOF
<1> SUFFICES ASSUME Init
             PROVE  RefusalInv
  OBVIOUS
<1>1. PICK burst \in Nat \ {0}, per \in Nat \ {0} : burst = limit.Burst /\ per = limit.Per
  BY LimitIs DEF Init
<1>2. PICK fill \in Nat \ {0} : fill = FillTime
  BY FillTimeIs DEF Init
<1>3. MaxTime \in Nat /\ since = [t \in 0 .. MaxTime + 1 |-> 0] /\ now = 0 /\ bucket = NoBucket
  BY LimiterAssumption DEF Init
<1>4. \A s, t \in Times : Admitted(s, t) = 0
  <2>1. \A s \in Times : s \in 0 .. MaxTime + 1 /\ s + 1 \in 0 .. MaxTime + 1
    BY <1>3 DEF Times
  <2> QED
    BY <2>1, <1>3 DEF Admitted
<1>5. BucketTypeInv
  BY <1>3 DEF Init, BucketTypeInv, NoBucket
<1>6. \A s, t \in Times : s <= t => Flowed(s, t)
  <2> SUFFICES ASSUME NEW s \in Times, NEW t \in Times, s <= t
               PROVE  Flowed(s, t)
    OBVIOUS
  <2>1. s \in Nat /\ t \in Nat
    BY DEF Times
  <2>2. fill + t - s \in Nat
    BY <2>1
  <2>3. burst * (fill + t - s) >= 0
    BY <2>2
  <2> QED
    BY <2>3, <1>1, <1>2, <1>4 DEF Flowed
<1>7. Began(0)
  BY <1>3, <1>4 DEF Init, Began, Times
<1>8. BucketInv
  BY <1>3, <1>6, <1>7 DEF BucketInv
<1>9. OrderInv /\ DueInv
  BY <1>3 DEF Init, OrderInv, DueInv
<1>10. backing = "redis" => SharedInv
  <2>1. \A t \in Times : Deserved(t)
    <3> SUFFICES ASSUME NEW t \in Times
                 PROVE  Deserved(t)
      OBVIOUS
    <3>1. counter[Slot(t)].count = 0
      BY WindowOf DEF Init
    <3>2. Admitted(FirstOf(t), SlotEnd(t)) = 0
      BY <1>4, WindowEnds DEF Init
    <3> QED
      BY <3>1, <3>2, <1>1 DEF Deserved, Lesser
  <2> QED
    BY <2>1, <1>3 DEF Init, SharedInv
<1> QED
  BY <1>5, <1>8, <1>9, <1>10 DEF RefusalInv, MemoryInv

\* The accounts of both limiters are kept by every step.
THEOREM RefusalInvariance == Spec => []RefusalInv
PROOF
<1>1. IInv /\ RefusalInv /\ [Next]_vars => RefusalInv'
  <2> SUFFICES ASSUME IInv, RefusalInv, [Next]_vars
               PROVE  RefusalInv'
    OBVIOUS
  <2>1. limit \in Limits /\ WaitInv /\ MaxWait \in Nat /\ (backing = "redis" => TypeInv)
    BY LimiterAssumption DEF IInv
  <2>2. ASSUME UNCHANGED <<config, store, history>>,
               \/ UNCHANGED <<now, waiting>>
               \/ UNCHANGED now /\ waiting' = [waiting EXCEPT ![now] = waiting[now] + 1]
               \/ UNCHANGED waiting /\ now' = now + 1
        PROVE  RefusalInv'
    <3>1. /\ UNCHANGED <<limit, backing, bucket, counter, since, refused, ordered>>
          /\ now \in Nat /\ now' \in Nat /\ now <= now'
      BY <2>1, <2>2 DEF config, store, history, WaitInv, Times
    <3>2. backing = "memory" => MemoryInv'
      BY <3>1, <2>1, <2>2, OthersKeep DEF RefusalInv
    <3>3. backing = "redis" => SharedInv'
      BY <3>1 DEF RefusalInv, SharedInv, Deserved, Admitted, FirstOf, SlotEnd, Slot
    <3> QED
      BY <3>1, <3>2, <3>3 DEF RefusalInv
  <2>3. ASSUME NEW t \in Times, TakeToken(t)
        PROVE  RefusalInv'
    <3>1. backing = "memory" /\ backing' = backing
      BY <2>3 DEF TakeToken, config
    <3> QED
      BY <3>1, <2>1, <2>3, TokenKeeps DEF RefusalInv
  <2>4. ASSUME NEW t \in Times, CountRequest(t) \/ FailOpen(t)
        PROVE  RefusalInv'
    <3>1. /\ backing = "redis" /\ backing' = backing
          /\ UNCHANGED <<limit, now, ordered>> /\ waiting[t] > 0
      BY <2>4 DEF CountRequest, FailOpen, config, Leave
    <3>2. SharedInv /\ ordered' = TRUE /\ t <= now
      BY <3>1, <2>1 DEF RefusalInv, SharedInv, WaitInv
    <3>3. \/ UNCHANGED <<counter, since, refused>>
          \/ /\ counter' = [counter EXCEPT ![Slot(t)] = Incremented(Slot(t))]
             /\ IF counter'[Slot(t)].count <= limit.Burst
                THEN Admit(t)
                ELSE UNCHANGED since /\ refused' \in {t, refused}
      BY <2>4 DEF CountRequest, FailOpen, Refuse
    <3>4. CASE UNCHANGED <<counter, since, refused>>
      BY <3>1, <3>2, <3>4 DEF RefusalInv, SharedInv, Deserved, Admitted, FirstOf, SlotEnd, Slot
    <3>5. CASE /\ counter' = [counter EXCEPT ![Slot(t)] = Incremented(Slot(t))]
               /\ IF counter'[Slot(t)].count <= limit.Burst
                  THEN Admit(t)
                  ELSE UNCHANGED since /\ refused' \in {t, refused}
      BY <3>1, <3>2, <3>5, <2>1, CallDeserves DEF RefusalInv
    <3> QED
      BY <3>3, <3>4, <3>5
  <2>5. CASE Arrive
    BY <2>2, <2>5 DEF Arrive
  <2>6. CASE Sweep
    <3>1. UNCHANGED <<limit, backing, now, counter, since, refused, ordered>>
      BY <2>6 DEF Sweep, config, history
    <3>2. backing = "redis" => SharedInv'
      BY <3>1 DEF RefusalInv, SharedInv, Deserved, Admitted, FirstOf, SlotEnd, Slot
    <3> QED
      BY <3>1, <3>2, <2>1, <2>6, SweepKeeps DEF RefusalInv
  <2>7. CASE Tick
    BY <2>2, <2>7 DEF Tick
  <2>8. CASE UNCHANGED vars
    BY <2>2, <2>8 DEF vars
  <2> QED
    BY <2>3, <2>4, <2>5, <2>6, <2>7, <2>8 DEF Next
<1> QED
  BY <1>1, Invariance, InitiallyFull, PTL DEF Spec

\* Over any stretch of time the bucket admits no more than its burst and what
\* flows in meanwhile, for any limit, however many requests overtake one
\* another and whenever the sweeper comes (ratelimit.go:45-80).
THEOREM BucketsKeepTheirRate == Spec => []BucketKeepsRate
PROOF
<1>1. IInv /\ RefusalInv => BucketKeepsRate
  <2> SUFFICES ASSUME IInv, RefusalInv, backing = "memory",
                      NEW s \in 0 .. now, NEW t \in 0 .. now, s <= t
               PROVE  Admitted(s, t) * FillTime <= limit.Burst * (FillTime + t - s)
    BY DEF BucketKeepsRate
  <2>1. s \in Times /\ t \in Times
    BY LimiterAssumption DEF IInv, WaitInv, Times
  <2> QED
    BY <2>1 DEF RefusalInv, MemoryInv, BucketInv, Flowed
<1> QED
  BY <1>1, Invariance, RefusalInvariance, PTL

\* Nobody is refused, by either limiter, before the burst and the refill since
\* are used up (ratelimit.go:46, 57-65, 97-107).
THEOREM RefusalsAreDue == Spec => []RefusalIsDue
PROOF
<1>1. IInv /\ RefusalInv /\ backing \in {"memory", "redis"} => RefusalIsDue
  <2> SUFFICES ASSUME IInv, RefusalInv, refused >= 0, backing \in {"memory", "redis"}
               PROVE  RefusalIsDue
    BY DEF RefusalIsDue
  <2>1. CASE backing = "memory"
    BY <2>1 DEF RefusalIsDue, RefusalInv, MemoryInv, DueInv, Due
  <2>2. CASE backing = "redis"
    <3>1. SharedInv /\ limit \in Limits /\ refused \in Times /\ refused \in Nat
      BY <2>2, LimiterAssumption DEF RefusalInv, SharedInv, IInv, WaitInv, Times
    <3>2. FirstOf(refused) \in 0 .. refused /\ Slot(FirstOf(refused)) = Slot(refused)
      BY <3>1, WindowEnds DEF Times
    <3>3. Admitted(FirstOf(refused), SlotEnd(refused)) >= limit.Burst
      BY <3>1 DEF SharedInv
    <3> QED
      BY <3>2, <3>3, <2>2 DEF RefusalIsDue
  <2> QED
    BY <2>1, <2>2
<1>2. Spec => [](backing \in {"memory", "redis"})
  <2>1. Init => backing \in {"memory", "redis"}
    BY DEF Init
  <2>2. backing \in {"memory", "redis"} /\ [Next]_vars => (backing \in {"memory", "redis"})'
    BY DEF Next, vars, config, Arrive, TakeToken, CountRequest, FailOpen, Sweep, Tick
  <2> QED
    BY <2>1, <2>2, PTL DEF Spec
<1> QED
  BY <1>1, <1>2, Invariance, RefusalInvariance, PTL
=============================================================================
