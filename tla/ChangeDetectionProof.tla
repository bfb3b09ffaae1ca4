------------------------- MODULE ChangeDetectionProof -------------------------
(***************************************************************************)
(* Proofs about ChangeDetection, for any rows, systems and stages and any  *)
(* width of the ticks: Changed<T> yields the rows written since the system *)
(* last ran, no fewer and no more, however often the counter wraps around. *)
(*                                                                         *)
(* And about Transforms, which starts from such changes and has variables  *)
(* of its own, for any entities and hierarchies: world transforms are      *)
(* those the links make up, no two threads of a descent write one entity,  *)
(* and, if no entity lacks a local transform, no change is passed over.    *)
(***************************************************************************)
EXTENDS ChangeDetection, Transforms, TLAPS

\* What the program must keep to: no system is kept out for longer than stamps
\* stay exact, the plan is compiled again only while Tick::ZERO is in the past,
\* and no reader shares a stage with commands that write what it reads.
WellUsed ==
  /\ NStages + 1 <= MaxPause /\ MaxPause <= MaxChangeAge
  /\ LastRecompile + MaxPause < TickMod \div 2
  /\ \A c \in Commanders, s \in Readers : StageOf(c) # StageOf(s)

-----------------------------------------------------------------------------
(* Ticks modulo TickMod.                                                   *)

LEMMA Widths ==
  /\ TickMod \in Nat /\ TickMod >= 2 /\ TickMod \div 2 \in Nat
  /\ 2 * (TickMod \div 2) = TickMod
  /\ MaxChangeAge \in Nat /\ CheckInterval \in Nat /\ CheckInterval >= 1
  /\ MaxChangeAge + CheckInterval < TickMod \div 2
  /\ MaxChangeAge < TickMod /\ NStages \in Nat /\ LastRecompile \in Nat /\ MaxPause \in Nat
<1>1. TickMod \in Nat /\ TickMod >= 1 /\ TickMod % 2 = 0
  BY ChangeAssumption
<1>2. 2 * (TickMod \div 2) = TickMod /\ TickMod \div 2 \in Nat
  BY <1>1
<1> QED
  BY <1>1, <1>2, ChangeAssumption

LEMMA Division ==
  ASSUME NEW m \in Nat, m > 0, NEW n \in Int
  PROVE  n \div m \in Int /\ n % m \in 0 .. m - 1 /\ n = m * (n \div m) + (n % m)
<1> DEFINE q == n \div m
           r == n % m
<1>1. m \in Int /\ n \in Int
  OBVIOUS
<1>2. q \in Int /\ r \in 0 .. m - 1 /\ n = m * q + r
  BY <1>1
<1> QED
  BY <1>1, <1>2

\* Division with remainder is unique.
LEMMA Remainder ==
  ASSUME NEW m \in Nat, m > 0, NEW z \in Int, NEW u \in 0 .. m - 1
  PROVE  (m * z + u) % m = u
<1> DEFINE x == m * z + u
           q == x \div m
           r == x % m
<1>1. x \in Int /\ m * z \in Int /\ u \in Int
  OBVIOUS
<1>2. q \in Int /\ r \in 0 .. m - 1 /\ x = m * q + r
  BY <1>1
<1>3. m * q \in Int
  BY <1>2
<1>4. z > q => m * z >= m * q + m
  <2>1. z > q => z - q >= 1
    BY <1>2
  <2>2. z > q => m * (z - q) >= m
    BY <1>2, <2>1
  <2>3. m * (z - q) = m * z - m * q
    BY <1>2
  <2> HIDE DEF q
  <2> QED
    BY <1>1, <1>2, <1>3, <2>2, <2>3
<1>5. z < q => m * q >= m * z + m
  <2>1. z < q => q - z >= 1
    BY <1>2
  <2>2. z < q => m * (q - z) >= m
    BY <1>2, <2>1
  <2>3. m * (q - z) = m * q - m * z
    BY <1>2
  <2> HIDE DEF q
  <2> QED
    BY <1>1, <1>2, <1>3, <2>2, <2>3
<1>6. z = q
  <2> DEFINE mz == m * z
             mq == m * q
  <2>1. mz \in Int /\ mq \in Int /\ mz + u = mq + r
        /\ (z > q => mz >= mq + m) /\ (z < q => mq >= mz + m)
    BY <1>1, <1>2, <1>3, <1>4, <1>5
  <2> HIDE DEF mz, mq, q, r, x
  <2> QED
    BY <1>2, <2>1
<1> QED
  BY <1>1, <1>2, <1>3, <1>6

\* Tick(n) is n less a multiple of TickMod.
LEMMA TickFacts ==
  ASSUME NEW n \in Int
  PROVE  /\ Tick(n) \in 0 .. TickMod - 1
         /\ \E q \in Int : n = TickMod * q + Tick(n)
<1>1. TickMod \in Nat /\ TickMod >= 2
  BY Widths
<1> DEFINE q == n \div TickMod
           t == n % TickMod
<1>2. q \in Int /\ t \in 0 .. TickMod - 1 /\ n = TickMod * q + t
  BY <1>1, Division
<1>3. Tick(n) = t
  BY DEF Tick
<1> HIDE DEF q, t
<1> QED
  BY <1>2, <1>3

\* Going back less than the range from a tick.
LEMMA TickBack ==
  ASSUME NEW n \in Int, NEW k \in 0 .. TickMod - 1
  PROVE  (Tick(n) - k) % TickMod = Tick(n - k)
<1> DEFINE t == Tick(n)
           M == TickMod
<1>1. M \in Nat /\ M >= 2
  BY Widths
<1>2. PICK q \in Int : n = M * q + t
  BY TickFacts
<1>3. t \in 0 .. M - 1 /\ k \in 0 .. M - 1 /\ M * q \in Int
  BY <1>1, TickFacts
<1>4. CASE t >= k
  <2> DEFINE u == t - k
             z == 0
  <2>1. u \in 0 .. M - 1 /\ z \in Int /\ M * z = 0
    BY <1>1, <1>3, <1>4
  <2>2. n - k = M * q + u /\ t - k = M * z + u
    <3> HIDE DEF t, z
    <3> QED
      BY <1>1, <1>2, <1>3, <2>1
  <2> HIDE DEF u, z, t
  <2>3. (M * q + u) % M = u /\ (M * z + u) % M = u
    BY <1>1, <2>1, Remainder
  <2>4. (t - k) % M = u /\ (n - k) % M = u
    BY <2>2, <2>3
  <2> QED
    BY <2>4 DEF Tick, t
<1>5. CASE t < k
  <2> DEFINE u == M + t - k
  <2>1. u \in 0 .. M - 1 /\ q - 1 \in Int /\ -1 \in Int
    BY <1>1, <1>3, <1>5
  <2>2. M * (q - 1) = M * q - M /\ M * (-1) = -M
    BY <1>1
  <2>3. n - k = M * (q - 1) + u /\ t - k = M * (-1) + u
    BY <1>1, <1>2, <1>3, <2>2
  <2>4. (M * (q - 1) + u) % M = u /\ (M * (-1) + u) % M = u
    BY <1>1, <2>1, Remainder
  <2> HIDE DEF t, u
  <2>5. (t - k) % M = u /\ (n - k) % M = u
    BY <2>3, <2>4
  <2> QED
    BY <2>5 DEF Tick, t
<1> QED
  BY <1>1, <1>3, <1>4, <1>5

\* The difference of two ticks is that of the times, modulo TickMod.
LEMMA TickDifference ==
  ASSUME NEW n \in Int, NEW x \in Int
  PROVE  (Tick(n) - Tick(x)) % TickMod = Tick(n - x)
<1> DEFINE k == Tick(x)
           M == TickMod
<1>1. M \in Nat /\ M >= 2 /\ k \in 0 .. M - 1
  BY Widths, TickFacts
<1>2. (Tick(n) - k) % M = Tick(n - k)
  BY <1>1, TickBack
<1>3. PICK q \in Int : x = M * q + k
  BY TickFacts
<1>4. PICK p \in Int : n - x = M * p + Tick(n - x)
  BY TickFacts
<1>5. Tick(n - x) \in 0 .. M - 1
  BY TickFacts
<1>6. n - k = M * (p + q) + Tick(n - x)
  <2>1. M * (p + q) = M * p + M * q
    BY <1>1
  <2>2. M * p \in Int /\ M * q \in Int
    BY <1>1
  <2> HIDE DEF k
  <2> QED
    BY <1>1, <1>3, <1>4, <1>5, <2>1, <2>2
<1>7. (M * (p + q) + Tick(n - x)) % M = Tick(n - x)
  BY <1>1, <1>5, Remainder
<1> HIDE DEF k
<1> QED
  BY <1>2, <1>6, <1>7 DEF Tick, k

LEMMA TickSmall ==
  /\ \A x \in 0 .. TickMod - 1 : Tick(x) = x
  /\ \A x \in 1 .. TickMod - 1 : Tick(-x) = TickMod - x
<1>1. TickMod \in Nat /\ TickMod >= 2
  BY Widths
<1>2. ASSUME NEW x \in 0 .. TickMod - 1 PROVE Tick(x) = x
  <2>1. (TickMod * 0 + x) % TickMod = x /\ TickMod * 0 + x = x
    BY <1>1, Remainder
  <2> QED
    BY <2>1 DEF Tick
<1>3. ASSUME NEW x \in 1 .. TickMod - 1 PROVE Tick(-x) = TickMod - x
  <2>1. TickMod - x \in 0 .. TickMod - 1 /\ -1 \in Int
    BY <1>1
  <2>2. (TickMod * (-1) + (TickMod - x)) % TickMod = TickMod - x
    BY <1>1, <2>1, Remainder
  <2>3. TickMod * (-1) + (TickMod - x) = -x
    BY <1>1
  <2> QED
    BY <2>2, <2>3 DEF Tick
<1> QED
  BY <1>2, <1>3

\* Within half the range the comparison of ticks is that of times.
LEMMA NewerIsLater ==
  ASSUME NEW a \in Int, NEW b \in Int, a - b < TickMod \div 2, b - a < TickMod \div 2
  PROVE  IsNewer(Tick(a), Tick(b)) <=> a > b
<1> DEFINE h == TickMod \div 2
           d == Tick(a - b)
<1>1. TickMod \in Nat /\ h \in Nat /\ 2 * h = TickMod /\ TickMod >= 2
  BY Widths
<1>2. IsNewer(Tick(a), Tick(b)) <=> 0 < d /\ d < h
  BY TickDifference DEF IsNewer
<1> HIDE DEF h
<1>3. CASE a >= b
  <2>1. a - b \in 0 .. TickMod - 1
    BY <1>1, <1>3 DEF h
  <2>2. d = a - b
    BY <2>1, TickSmall
  <2> QED
    BY <1>1, <1>2, <1>3, <2>2 DEF h
<1>4. CASE a < b
  <2>1. b - a \in 1 .. TickMod - 1 /\ a - b = -(b - a)
    BY <1>1, <1>4 DEF h
  <2>2. d = TickMod - (b - a)
    BY <2>1, TickSmall
  <2> QED
    BY <1>1, <1>2, <1>4, <2>2 DEF h
<1> QED
  BY <1>3, <1>4

\* A stamp within the range of the current tick is pulled up to MaxChangeAge.
Pulled(x, n) == IF n - x > MaxChangeAge THEN n - MaxChangeAge ELSE x

LEMMA ClampedIsPulled ==
  ASSUME NEW x \in Int, NEW n \in Int, x <= n, n - x < TickMod
  PROVE  Clamped(Tick(x), Tick(n)) = Tick(Pulled(x, n))
<1>1. n - x \in 0 .. TickMod - 1 /\ MaxChangeAge \in 0 .. TickMod - 1
  BY Widths
<1>2. (Tick(n) - Tick(x)) % TickMod = n - x
  BY <1>1, TickDifference, TickSmall
<1>3. (Tick(n) - MaxChangeAge) % TickMod = Tick(n - MaxChangeAge)
  BY <1>1, TickBack
<1> QED
  BY <1>2, <1>3 DEF Clamped, Pulled

\* The ticks at which stamps are checked come every CheckInterval.
LEMMA NextCheck ==
  ASSUME NEW n \in Nat
  PROVE  /\ Tick(n) % CheckInterval \in 0 .. CheckInterval - 1
         /\ (Tick(n + 1) % CheckInterval) # 0
              => Tick(n + 1) % CheckInterval = (Tick(n) % CheckInterval) + 1
<1> DEFINE t == Tick(n)
           C == CheckInterval
           M == TickMod
<1>1. C \in Nat /\ C >= 1 /\ t \in 0 .. M - 1 /\ M \in Nat /\ M >= 2
  BY Widths, TickFacts
<1>2. Tick(n + 1) = IF t = M - 1 THEN 0 ELSE t + 1
  <2>1. PICK q \in Int : n = M * q + t
    BY TickFacts
  <2>2. M * q \in Int
    BY <1>1
  <2>3. CASE t = M - 1
    <3>1. M * (q + 1) = M * q + M
      BY <1>1
    <3>2. (M * (q + 1) + 0) % M = 0
      BY <1>1, Remainder
    <3>3. n + 1 = M * (q + 1) + 0
      <4> HIDE DEF t
      <4> QED
        BY <1>1, <2>1, <2>2, <2>3, <3>1
    <3> HIDE DEF t
    <3> QED
      BY <2>3, <3>2, <3>3 DEF Tick
  <2>4. CASE t # M - 1
    <3>1. t + 1 \in 0 .. M - 1
      BY <1>1, <2>4
    <3>2. (M * q + (t + 1)) % M = t + 1
      BY <1>1, <3>1, Remainder
    <3>3. n + 1 = M * q + (t + 1)
      <4> HIDE DEF t
      <4> QED
        BY <1>1, <2>1, <2>2
    <3> HIDE DEF t
    <3> QED
      BY <2>4, <3>2, <3>3 DEF Tick
  <2> QED
    BY <2>3, <2>4
<1> HIDE DEF t
<1>3. t % C \in 0 .. C - 1
  BY <1>1
<1>4. 0 % C = 0
  <2>1. (C * 0 + 0) % C = 0 /\ C * 0 + 0 = 0
    BY <1>1, Remainder
  <2> QED
    BY <2>1
<1>5. (t + 1) % C = IF t % C = C - 1 THEN 0 ELSE (t % C) + 1
  <2> DEFINE q == t \div C
             u == t % C
  <2>1. q \in Int /\ u \in 0 .. C - 1 /\ t = C * q + u
    BY <1>1
  <2>2. C * q \in Int /\ C * (q + 1) = C * q + C
    BY <1>1, <2>1
  <2> HIDE DEF q, u
  <2>3. CASE u = C - 1
    <3>1. (C * (q + 1) + 0) % C = 0
      BY <1>1, <2>1, Remainder
    <3>2. t + 1 = C * (q + 1) + 0
      BY <1>1, <2>1, <2>2, <2>3
    <3> QED
      BY <2>3, <3>1, <3>2 DEF u
  <2>4. CASE u # C - 1
    <3>1. u + 1 \in 0 .. C - 1
      BY <1>1, <2>1, <2>4
    <3>2. (C * q + (u + 1)) % C = u + 1
      BY <1>1, <2>1, <3>1, Remainder
    <3>3. t + 1 = C * q + (u + 1)
      BY <1>1, <2>1, <2>2
    <3> QED
      BY <2>4, <3>2, <3>3 DEF u
  <2> QED
    BY <2>3, <2>4
<1> QED
  BY <1>2, <1>3, <1>4, <1>5 DEF t

-----------------------------------------------------------------------------
(* The invariant.                                                          *)

Types ==
  /\ now \in Nat /\ now >= 1 /\ stage \in 0 .. NStages
  /\ enabled \subseteq InStage(stage) /\ left \subseteq enabled
  /\ deferred \subseteq Rows
  /\ deferred # {} => enabled # {} /\ \E c \in Commanders : StageOf(c) = stage
  /\ ranAt \in [Systems -> Nat] /\ \A s \in Systems : ranAt[s] <= now
  /\ unseen \in [Systems -> SUBSET Rows]

\* How many ticks may pass before a system has its next chance.
Wait(s) ==
  IF s \in left THEN 0
  ELSE IF StageOf(s) > stage THEN StageOf(s) - stage
  ELSE NStages - stage + 1 + StageOf(s)

\* Every reader comes to its chance before it has been out for too long.
Due == \A s \in Readers : now + Wait(s) - ranAt[s] <= MaxPause

\* How old a stamp may be: the checks leave MaxChangeAge, and time goes on.
Slack == MaxChangeAge + (Tick(now) % CheckInterval)

\* Each stamp is the tick of a time e[r], not too long ago, and the aggregate
\* that of a time g no earlier.  These are the times of the last write, unless
\* a check has pulled them up.
Stamps(e, g) ==
  /\ aggregate = Tick(g) /\ g <= now /\ now - g <= Slack
  /\ \A r \in Rows : /\ stamp[r] = Tick(e[r]) /\ now - e[r] <= Slack
                     /\ 1 <= e[r] /\ e[r] <= g

HasRun(s) == s \in enabled \ left

\* What a reader has not seen is what was stamped after the time of its window,
\* which is when it last ran, or 0 after a compile.
Told(s, e, b) ==
  /\ \A r \in Rows : r \in unseen[s] <=> e[r] > b
  /\ b = ranAt[s] \/ (b = 0 /\ ranAt[s] <= LastRecompile)
  /\ enabled # {} \/ stage = 0 => b < now

\* While the stage of a reader that has run is still open, its window lags
\* behind, but nobody writes what it reads.
Windows(e, base) ==
  \A s \in Readers :
    /\ window[s] = Tick(base[s]) /\ base[s] <= now
    /\ HasRun(s) => unseen[s] = {} /\ ranAt[s] = now
    /\ ~HasRun(s) => Told(s, e, base[s])

Timed == \E e \in [Rows -> Nat], g \in Nat, base \in [Systems -> Nat] :
           Stamps(e, g) /\ Windows(e, base)

IInv == Types /\ Due /\ Timed /\ NothingMissed /\ NothingInvented

LEMMA SlackBound ==
  ASSUME Types
  PROVE  Slack \in Nat /\ Slack < TickMod \div 2 /\ MaxChangeAge <= Slack
<1>1. (Tick(now) % CheckInterval) \in 0 .. CheckInterval - 1
  BY NextCheck DEF Types
<1>2. MaxChangeAge \in Nat /\ CheckInterval \in Nat /\ TickMod \div 2 \in Nat
      /\ MaxChangeAge + CheckInterval < TickMod \div 2
  BY Widths
<1> DEFINE h == TickMod \div 2
           u == Tick(now) % CheckInterval
<1>3. Slack = MaxChangeAge + u
  BY DEF Slack
<1> HIDE DEF h, u
<1> QED
  BY <1>1, <1>2, <1>3 DEF h, u

\* What happens to the times of the stamps as time goes on: some are pulled up.
LEMMA AdvanceStamps ==
  ASSUME Types, NEW e \in [Rows -> Nat], NEW g \in Nat, Stamps(e, g), Advance
  PROVE  \E e2 \in [Rows -> Nat], g2 \in Nat :
           /\ Stamps(e2, g2)'
           /\ \A r \in Rows : /\ e2[r] >= e[r]
                              /\ e2[r] # e[r] => e2[r] = (now + 1) - MaxChangeAge
<1> DEFINE n == now + 1
           A == MaxChangeAge
           late == Tick(n) % CheckInterval
<1>1. /\ now \in Nat /\ n \in Nat /\ A \in Nat /\ A < TickMod /\ TickMod \in Nat
      /\ 2 * (TickMod \div 2) = TickMod /\ TickMod \div 2 \in Nat
      /\ Slack \in Nat /\ Slack < TickMod \div 2 /\ A <= Slack
  BY Widths, SlackBound DEF Types
<1>2. now' = n /\ Slack' = A + late
  BY DEF Advance, Slack
<1>3. late \in Nat /\ (late # 0 => Slack' = Slack + 1)
  <2>1. /\ late \in 0 .. CheckInterval - 1
        /\ late # 0 => late = (Tick(now) % CheckInterval) + 1
    BY <1>1, NextCheck
  <2>2. (Tick(now) % CheckInterval) \in 0 .. CheckInterval - 1 /\ CheckInterval \in Nat
    BY <1>1, NextCheck, Widths
  <2> HIDE DEF late
  <2> QED
    BY <1>1, <1>2, <2>1, <2>2 DEF Slack
<1>4. /\ aggregate = Tick(g) /\ g <= now /\ now - g <= Slack
      /\ \A r \in Rows : /\ stamp[r] = Tick(e[r]) /\ now - e[r] <= Slack
                         /\ 1 <= e[r] /\ e[r] <= g /\ e[r] \in Nat
  BY DEF Stamps
<1>5. CASE late = 0
  <2>1. \A x \in Nat : x <= now /\ now - x <= Slack =>
          /\ Clamped(Tick(x), Tick(n)) = Tick(Pulled(x, n))
          /\ Pulled(x, n) \in Nat /\ Pulled(x, n) >= x /\ Pulled(x, n) <= n
          /\ n - Pulled(x, n) <= A
          /\ Pulled(x, n) # x => Pulled(x, n) = n - A
    <3> SUFFICES ASSUME NEW x \in Nat, x <= now, now - x <= Slack
                 PROVE  /\ Clamped(Tick(x), Tick(n)) = Tick(Pulled(x, n))
                        /\ Pulled(x, n) \in Nat /\ Pulled(x, n) >= x /\ Pulled(x, n) <= n
                        /\ n - Pulled(x, n) <= A
                        /\ Pulled(x, n) # x => Pulled(x, n) = n - A
      OBVIOUS
    <3>1. x <= n /\ n - x < TickMod
      BY <1>1
    <3>2. Clamped(Tick(x), Tick(n)) = Tick(Pulled(x, n))
      BY <1>1, <3>1, ClampedIsPulled
    <3> QED
      BY <1>1, <3>1, <3>2 DEF Pulled
  <2> DEFINE e2 == [r \in Rows |-> Pulled(e[r], n)]
             g2 == Pulled(g, n)
  <2>2. /\ stamp' = [r \in Rows |-> Clamped(stamp[r], Tick(n))]
        /\ aggregate' = Clamped(aggregate, Tick(n))
    BY <1>5 DEF Advance
  <2>3. /\ g2 \in Nat /\ aggregate' = Tick(g2) /\ g2 <= n /\ n - g2 <= A
    BY <1>4, <2>1, <2>2
  <2>4. ASSUME NEW r \in Rows
        PROVE  /\ stamp'[r] = Tick(Pulled(e[r], n)) /\ n - Pulled(e[r], n) <= A
               /\ Pulled(e[r], n) \in Nat /\ Pulled(e[r], n) >= e[r]
               /\ Pulled(e[r], n) # e[r] => Pulled(e[r], n) = n - A
    <3>1. e[r] <= now
      BY <1>1, <1>4
    <3> QED
      BY <1>4, <2>1, <2>2, <3>1
  <2>5. \A r \in Rows : Pulled(e[r], n) <= g2
    BY <1>1, <1>4 DEF Pulled
  <2>6. e2 \in [Rows -> Nat] /\ \A r \in Rows : e2[r] = Pulled(e[r], n)
    BY <2>4
  <2>7. Slack' = A
    BY <1>1, <1>2, <1>5
  <2>8. \A r \in Rows : 1 <= e2[r]
    BY <1>4, <2>4, <2>6
  <2>9. PICK e3 \in [Rows -> Nat], g3 \in Nat : e3 = e2 /\ g3 = g2
    BY <2>3, <2>6
  <2> HIDE DEF e2, g2, n, late
  <2>10. Stamps(e3, g3)'
    BY <1>2, <2>3, <2>4, <2>5, <2>6, <2>7, <2>8, <2>9 DEF Stamps, Tick
  <2>11. \A r \in Rows : e3[r] >= e[r] /\ (e3[r] # e[r] => e3[r] = n - A)
    BY <2>4, <2>6, <2>9
  <2>12. \A r \in Rows : /\ e3[r] >= e[r]
                         /\ e3[r] # e[r] => e3[r] = (now + 1) - MaxChangeAge
    BY <1>1, <2>11 DEF n
  <2> QED
    BY <2>10, <2>12
<1>6. CASE late # 0
  <2>1. UNCHANGED stampVars
    BY <1>6 DEF Advance
  <2>2. Slack' = Slack + 1
    BY <1>3, <1>6
  <2> HIDE DEF late
  <2>3. Stamps(e, g)'
    BY <1>1, <1>2, <1>4, <2>1, <2>2 DEF Stamps, stampVars, Tick
  <2>4. \A r \in Rows : e[r] >= e[r]
    BY <1>4
  <2> QED
    BY <2>3, <2>4
<1> QED
  BY <1>5, <1>6

\* Writing rows makes their time now.
LEMMA StampStamps ==
  ASSUME Types, NEW e \in [Rows -> Nat], NEW g \in Nat, Stamps(e, g),
         NEW rows \in SUBSET Rows, Stamp(rows), now' = now
  PROVE  \E e2 \in [Rows -> Nat], g2 \in Nat :
           /\ Stamps(e2, g2)'
           /\ \A r \in Rows : e2[r] = IF r \in rows THEN now ELSE e[r]
<1>1. /\ now \in Nat /\ now >= 1 /\ Slack \in Nat /\ Slack < TickMod \div 2 /\ Slack' = Slack
      /\ TickMod \div 2 \in Nat
  BY SlackBound, Widths DEF Types, Slack
<1>2. /\ aggregate = Tick(g) /\ g <= now /\ now - g <= Slack
      /\ \A r \in Rows : /\ stamp[r] = Tick(e[r]) /\ now - e[r] <= Slack
                         /\ 1 <= e[r] /\ e[r] <= g /\ e[r] \in Nat
  BY DEF Stamps
<1>3. IsNewer(Tick(now), aggregate) <=> now > g
  <2>1. now - g < TickMod \div 2 /\ g - now < TickMod \div 2
    BY <1>1, <1>2
  <2> QED
    BY <1>1, <1>2, <2>1, NewerIsLater
<1> DEFINE e2 == [r \in Rows |-> IF r \in rows THEN now ELSE e[r]]
           g2 == IF rows # {} THEN now ELSE g
<1>4. e2 \in [Rows -> Nat] /\ g2 \in Nat
      /\ \A r \in Rows : e2[r] = IF r \in rows THEN now ELSE e[r]
  BY <1>1, <1>2
<1>5. aggregate' = Tick(g2)
  <2>1. now > g \/ now = g
    BY <1>1, <1>2
  <2> QED
    BY <1>2, <1>3, <2>1 DEF Stamp
<1>6. \A r \in Rows : stamp'[r] = Tick(e2[r])
  BY <1>2 DEF Stamp
<1>7. g2 <= now /\ now - g2 <= Slack
  BY <1>1, <1>2
<1>8. \A r \in Rows : 1 <= e2[r] /\ e2[r] <= g2 /\ now - e2[r] <= Slack
  BY <1>1, <1>2, <1>4
<1>9. PICK e3 \in [Rows -> Nat], g3 \in Nat : e3 = e2 /\ g3 = g2
  BY <1>4
<1>10. \A r \in Rows : e3[r] = IF r \in rows THEN now ELSE e[r]
  BY <1>4, <1>9
<1> HIDE DEF e2, g2
<1>11. Stamps(e3, g3)'
  BY <1>1, <1>5, <1>6, <1>7, <1>8, <1>9 DEF Stamps, Tick
<1> QED
  BY <1>10, <1>11

\* How long ago a reader that has not run yet in the stage last ran.
LEMMA Recent ==
  ASSUME WellUsed, Types, Due, NEW s \in Readers
  PROVE  /\ s \in Systems /\ StageOf(s) \in 1 .. NStages
         /\ Wait(s) \in Nat /\ ranAt[s] \in Nat /\ ranAt[s] <= now
         /\ now + Wait(s) - ranAt[s] <= MaxPause
         /\ s \notin left => Wait(s) >= 1
<1>1. s \in Systems /\ StageOf(s) \in 1 .. NStages /\ NStages \in Nat
  BY ChangeAssumption
<1>2. now \in Nat /\ stage \in 0 .. NStages /\ ranAt[s] \in Nat /\ ranAt[s] <= now
  BY <1>1 DEF Types
<1>3. Wait(s) \in Nat /\ (s \notin left => Wait(s) >= 1)
  BY <1>1, <1>2 DEF Wait
<1> QED
  BY <1>1, <1>2, <1>3 DEF Due

\* A reader about to run finds what it has not seen, and only that.
LEMMA ReadsWhatIsNew ==
  ASSUME WellUsed, Types, Due, NEW e \in [Rows -> Nat], NEW g \in Nat,
         NEW base \in [Systems -> Nat], Stamps(e, g), Windows(e, base),
         NEW s \in Readers, ~HasRun(s)
  PROVE  Changed(window[s]) = unseen[s]
<1> DEFINE b == base[s]
           h == TickMod \div 2
<1>1. /\ s \in Systems /\ b \in Nat /\ b <= now /\ now \in Nat /\ window[s] = Tick(b)
      /\ Told(s, e, b) /\ h \in Nat /\ Slack \in Nat /\ Slack < h
      /\ unseen[s] \subseteq Rows
  BY Recent, SlackBound, Widths DEF Windows, Types
<1>2. now - b < h
  <2>1. /\ now - ranAt[s] <= MaxPause /\ ranAt[s] \in Nat
        /\ MaxPause \in Nat /\ LastRecompile \in Nat
        /\ MaxPause <= MaxChangeAge /\ MaxChangeAge <= Slack
        /\ LastRecompile + MaxPause < h
    <3>1. now - ranAt[s] <= MaxPause
      <4>1. /\ Wait(s) \in Nat /\ ranAt[s] \in Nat /\ MaxPause \in Nat
            /\ now + Wait(s) - ranAt[s] <= MaxPause
        BY Recent, Widths
      <4> QED
        BY <1>1, <4>1
    <3> QED
      BY <3>1, Recent, Widths, SlackBound DEF WellUsed
  <2>2. MaxChangeAge \in Nat
    BY Widths
  <2>3. b = ranAt[s] \/ (b = 0 /\ ranAt[s] <= LastRecompile)
    BY <1>1 DEF Told
  <2> HIDE DEF b, h
  <2> QED
    BY <1>1, <2>1, <2>2, <2>3
<1>3. ASSUME NEW x \in Nat, x <= now, now - x <= Slack
      PROVE  IsNewer(Tick(x), window[s]) <=> x > b
  <2>1. x - b < h /\ b - x < h
    BY <1>1, <1>2, <1>3
  <2> QED
    BY <1>1, <2>1, NewerIsLater
<1>4. \A r \in Rows : /\ e[r] \in Nat /\ e[r] <= now /\ now - e[r] <= Slack
                      /\ stamp[r] = Tick(e[r]) /\ e[r] <= g
  BY <1>1 DEF Stamps
<1>5. \A r \in Rows : IsNewer(stamp[r], window[s]) <=> r \in unseen[s]
  BY <1>1, <1>3, <1>4 DEF Told
<1>6. IsNewer(aggregate, window[s]) <=> g > b
  BY <1>3 DEF Stamps
<1>7. unseen[s] # {} => g > b
  <2>1. \A r \in Rows : r \in unseen[s] => e[r] > b
    BY <1>1 DEF Told
  <2> HIDE DEF b
  <2> QED
    BY <1>1, <1>4, <2>1
<1> QED
  BY <1>1, <1>5, <1>6, <1>7 DEF Changed

\* Time goes on between two stages: no reader loses or gains a row to see.
LEMMA AdvanceTold ==
  ASSUME WellUsed, Types, Due, NEW s \in Readers, s \notin left,
         NEW e \in [Rows -> Nat], NEW e2 \in [Rows -> Nat], NEW b \in Nat, b <= now,
         Told(s, e, b), \A r \in Rows : e[r] >= 1,
         \A r \in Rows : /\ e2[r] >= e[r]
                         /\ e2[r] # e[r] => e2[r] = (now + 1) - MaxChangeAge
  PROVE  \A r \in Rows : r \in unseen[s] <=> e2[r] > b
<1>1. b = 0 \/ (now + 1) - MaxChangeAge <= b
  <2>1. /\ Wait(s) \in Nat /\ Wait(s) >= 1 /\ ranAt[s] \in Nat
        /\ now + Wait(s) - ranAt[s] <= MaxPause /\ now \in Nat
        /\ MaxPause \in Nat /\ MaxChangeAge \in Nat /\ MaxPause <= MaxChangeAge
    BY Recent, Widths DEF WellUsed, Types
  <2>2. now + 1 - ranAt[s] <= MaxChangeAge
    BY <2>1
  <2>3. b = ranAt[s] \/ b = 0
    BY DEF Told
  <2> QED
    BY <2>1, <2>2, <2>3
<1>2. SUFFICES ASSUME NEW r \in Rows PROVE r \in unseen[s] <=> e2[r] > b
  OBVIOUS
<1>3. /\ e[r] \in Nat /\ e2[r] \in Nat /\ e[r] >= 1 /\ e2[r] >= e[r]
      /\ e2[r] # e[r] => e2[r] = (now + 1) - MaxChangeAge
      /\ r \in unseen[s] <=> e[r] > b
  BY DEF Told
<1> QED
  BY <1>1, <1>3

LEMMA InitIInv == ASSUME WellUsed PROVE Init => IInv
<1> SUFFICES ASSUME Init PROVE IInv
  OBVIOUS
<1>1. Types
  BY Widths DEF Init, Types, InStage
<1>2. \A s \in Readers : s \in Systems /\ StageOf(s) \in 1 .. NStages
  BY ChangeAssumption
<1>3. Tick(1) = 1 /\ Tick(0) = 0
  <2>1. 1 \in 0 .. TickMod - 1 /\ 0 \in 0 .. TickMod - 1
    BY Widths
  <2> QED
    BY <2>1, TickSmall
<1>4. Due
  <2> SUFFICES ASSUME NEW s \in Readers PROVE now + Wait(s) - ranAt[s] <= MaxPause
    BY DEF Due
  <2>1. StageOf(s) \in 1 .. NStages /\ NStages \in Nat /\ MaxPause \in Nat
        /\ NStages + 1 <= MaxPause
    BY <1>2, Widths DEF WellUsed
  <2>2. Wait(s) = StageOf(s) /\ now = 1 /\ ranAt[s] = 0
    BY <1>2, <2>1 DEF Init, Wait
  <2> QED
    BY <2>1, <2>2
<1>5. Timed
  <2> DEFINE e == [r \in Rows |-> 1]
             base == [s \in Systems |-> 0]
  <2>1. e \in [Rows -> Nat] /\ base \in [Systems -> Nat]
        /\ (\A r \in Rows : e[r] = 1) /\ \A s \in Systems : base[s] = 0
    OBVIOUS
  <2> HIDE DEF e, base
  <2>2. Slack \in Nat
    BY <1>1, SlackBound
  <2>3. Stamps(e, 1)
    BY <1>3, <2>1, <2>2 DEF Init, Stamps
  <2>4. Windows(e, base)
    <3> SUFFICES ASSUME NEW s \in Readers
                 PROVE  /\ window[s] = Tick(base[s]) /\ base[s] <= now
                        /\ ~HasRun(s) /\ Told(s, e, base[s])
      BY DEF Windows
    <3>1. base[s] = 0 /\ window[s] = 0 /\ now = 1 /\ unseen[s] = Rows /\ ranAt[s] = 0
      BY <1>2, <2>1 DEF Init
    <3> QED
      BY <1>3, <2>1, <3>1 DEF Init, HasRun, Told
  <2> QED
    BY <2>1, <2>3, <2>4 DEF Timed
<1> QED
  BY <1>1, <1>4, <1>5 DEF Init, IInv, NothingMissed, NothingInvented

LEMMA SkipStageStep == ASSUME WellUsed, IInv, SkipStage PROVE IInv'
<1> USE DEF IInv
<1>1. /\ enabled = {} /\ left = {} /\ deferred = {} /\ stage < NStages
      /\ stage' = stage + 1 /\ stage \in Nat /\ NStages \in Nat /\ now \in Nat
      /\ UNCHANGED <<now, stampVars, window, enabled, left, deferred, truthVars>>
  BY Widths DEF SkipStage, BetweenStages, Types
<1>2. Types'
  BY <1>1 DEF Types, truthVars
<1>3. Due'
  <2> SUFFICES ASSUME NEW s \in Readers PROVE (now + Wait(s) - ranAt[s] <= MaxPause)'
    BY DEF Due
  <2>1. /\ s \in Systems /\ StageOf(s) \in 1 .. NStages /\ ranAt[s] \in Nat
        /\ now + Wait(s) - ranAt[s] <= MaxPause /\ MaxPause \in Nat
    BY Recent, Widths
  <2>2. CASE StageOf(s) = stage + 1
    <3>1. (now + 1) + (NStages + 1) - ranAt[s] <= MaxPause
      <4>1. ~((now + 1) + (NStages + 1) - ranAt[s] > MaxPause)
        BY <2>1, <2>2 DEF SkipStage, Impatient, InStage
      <4> QED
        BY <1>1, <2>1, <4>1
    <3>2. Wait(s)' = NStages + 1
      BY <1>1, <2>1, <2>2 DEF Wait
    <3> QED
      BY <1>1, <2>1, <3>1, <3>2 DEF truthVars
  <2>3. CASE StageOf(s) # stage + 1
    <3>1. Wait(s)' = Wait(s) - 1 /\ Wait(s) \in Nat
      BY <1>1, <2>1, <2>3 DEF Wait
    <3> QED
      BY <1>1, <2>1, <3>1 DEF truthVars
  <2> QED
    BY <2>2, <2>3
<1>4. Timed'
  <2>1. PICK e \in [Rows -> Nat], g \in Nat, base \in [Systems -> Nat] :
          Stamps(e, g) /\ Windows(e, base)
    BY DEF Timed
  <2>2. Stamps(e, g)'
    BY <1>1, <2>1 DEF Stamps, stampVars, Slack, Tick
  <2>3. Windows(e, base)'
    <3> SUFFICES ASSUME NEW s \in Readers
                 PROVE  (/\ window[s] = Tick(base[s]) /\ base[s] <= now
                         /\ ~HasRun(s) /\ Told(s, e, base[s]))'
      BY DEF Windows
    <3>1. ~HasRun(s)
      BY <1>1 DEF HasRun
    <3>2. Told(s, e, base[s]) /\ window[s] = Tick(base[s]) /\ base[s] <= now
      BY <2>1, <3>1 DEF Windows
    <3>3. stage' # 0 /\ enabled' = {}
      BY <1>1
    <3> QED
      BY <1>1, <3>2, <3>3 DEF Told, HasRun, Tick, truthVars
  <2> QED
    BY <2>2, <2>3 DEF Timed
<1> QED
  BY <1>1, <1>2, <1>3, <1>4 DEF NothingMissed, NothingInvented, truthVars

LEMMA OpenStageStep ==
  ASSUME WellUsed, IInv, NEW on \in SUBSET Systems, OpenStage(on)
  PROVE  IInv'
<1> USE DEF IInv
<1>1. /\ enabled = {} /\ left = {} /\ deferred = {} /\ stage < NStages
      /\ stage' = stage + 1 /\ stage \in Nat /\ NStages \in Nat
      /\ now \in Nat /\ now >= 1 /\ now' = now + 1
      /\ on # {} /\ on \subseteq InStage(stage + 1)
      /\ enabled' = on /\ left' = on
      /\ UNCHANGED <<window, deferred, truthVars>>
  BY Widths DEF OpenStage, BetweenStages, Types, Advance
<1>2. Types'
  <2>1. \A s \in Systems : ranAt[s] <= now + 1
    BY <1>1 DEF Types
  <2> QED
    BY <1>1, <2>1 DEF Types, truthVars
<1>3. Due'
  <2> SUFFICES ASSUME NEW s \in Readers PROVE (now + Wait(s) - ranAt[s] <= MaxPause)'
    BY DEF Due
  <2>1. /\ s \in Systems /\ StageOf(s) \in 1 .. NStages /\ ranAt[s] \in Nat
        /\ now + Wait(s) - ranAt[s] <= MaxPause /\ MaxPause \in Nat
    BY Recent, Widths
  <2>2. CASE s \in on
    <3>1. Wait(s)' = 0 /\ Wait(s) = 1
      BY <1>1, <2>1, <2>2 DEF Wait, InStage
    <3> QED
      BY <1>1, <2>1, <3>1 DEF truthVars
  <2>3. CASE s \notin on /\ StageOf(s) = stage + 1
    <3>1. (now + 1) + (NStages + 1) - ranAt[s] <= MaxPause
      <4>1. ~((now + 1) + (NStages + 1) - ranAt[s] > MaxPause)
        BY <2>1, <2>3 DEF OpenStage, Impatient, InStage
      <4> QED
        BY <1>1, <2>1, <4>1
    <3>2. Wait(s)' = NStages + 1
      BY <1>1, <2>1, <2>3 DEF Wait
    <3> QED
      BY <1>1, <2>1, <3>1, <3>2 DEF truthVars
  <2>4. CASE s \notin on /\ StageOf(s) # stage + 1
    <3>1. Wait(s)' = Wait(s) - 1 /\ Wait(s) \in Nat
      BY <1>1, <2>1, <2>4 DEF Wait
    <3> QED
      BY <1>1, <2>1, <3>1 DEF truthVars
  <2> QED
    BY <2>2, <2>3, <2>4
<1>4. Timed'
  <2>1. PICK e \in [Rows -> Nat], g \in Nat, base \in [Systems -> Nat] :
          Stamps(e, g) /\ Windows(e, base)
    BY DEF Timed
  <2>2. PICK e2 \in [Rows -> Nat], g2 \in Nat :
          /\ Stamps(e2, g2)'
          /\ \A r \in Rows : /\ e2[r] >= e[r]
                             /\ e2[r] # e[r] => e2[r] = (now + 1) - MaxChangeAge
    BY <2>1, AdvanceStamps DEF OpenStage
  <2>3. Windows(e2, base)'
    <3> SUFFICES ASSUME NEW s \in Readers
                 PROVE  (/\ window[s] = Tick(base[s]) /\ base[s] <= now
                         /\ ~HasRun(s) /\ Told(s, e2, base[s]))'
      BY DEF Windows
    <3>1. ~HasRun(s) /\ ~HasRun(s)' /\ s \in Systems /\ s \notin left
      BY <1>1, Recent DEF HasRun
    <3>2. /\ Told(s, e, base[s]) /\ window[s] = Tick(base[s])
          /\ base[s] <= now /\ base[s] \in Nat
      BY <2>1, <3>1 DEF Windows
    <3>3. \A r \in Rows : r \in unseen[s] <=> e2[r] > base[s]
      <4>1. \A r \in Rows : e[r] >= 1
        BY <2>1 DEF Stamps
      <4> QED
        BY <2>2, <3>1, <3>2, <4>1, AdvanceTold
    <3>4. base[s] < now' /\ base[s] <= now'
      BY <1>1, <3>2
    <3> QED
      BY <1>1, <3>1, <3>2, <3>3, <3>4 DEF Told, Tick, truthVars
  <2> QED
    BY <2>2, <2>3 DEF Timed
<1> QED
  BY <1>1, <1>2, <1>3, <1>4 DEF NothingMissed, NothingInvented, truthVars

LEMMA EndFrameStep == ASSUME WellUsed, IInv, EndFrame PROVE IInv'
<1> USE DEF IInv
<1>1. /\ enabled = {} /\ left = {} /\ deferred = {} /\ stage = NStages
      /\ stage' = 0 /\ stage \in Nat /\ NStages \in Nat
      /\ now \in Nat /\ now >= 1 /\ now' = now + 1
      /\ UNCHANGED <<window, enabled, left, deferred, truthVars>>
  BY Widths DEF EndFrame, BetweenStages, Types, Advance
<1>2. Types'
  <2>1. \A s \in Systems : ranAt[s] <= now + 1
    BY <1>1 DEF Types
  <2> QED
    BY <1>1, <2>1 DEF Types, truthVars
<1>3. Due'
  <2> SUFFICES ASSUME NEW s \in Readers PROVE (now + Wait(s) - ranAt[s] <= MaxPause)'
    BY DEF Due
  <2>1. /\ s \in Systems /\ StageOf(s) \in 1 .. NStages /\ ranAt[s] \in Nat
        /\ now + Wait(s) - ranAt[s] <= MaxPause /\ MaxPause \in Nat
    BY Recent, Widths
  <2>2. Wait(s)' = StageOf(s) /\ Wait(s) = StageOf(s) + 1
    BY <1>1, <2>1 DEF Wait
  <2> QED
    BY <1>1, <2>1, <2>2 DEF truthVars
<1>4. Timed'
  <2>1. PICK e \in [Rows -> Nat], g \in Nat, base \in [Systems -> Nat] :
          Stamps(e, g) /\ Windows(e, base)
    BY DEF Timed
  <2>2. PICK e2 \in [Rows -> Nat], g2 \in Nat :
          /\ Stamps(e2, g2)'
          /\ \A r \in Rows : /\ e2[r] >= e[r]
                             /\ e2[r] # e[r] => e2[r] = (now + 1) - MaxChangeAge
    BY <2>1, AdvanceStamps DEF EndFrame
  <2>3. Windows(e2, base)'
    <3> SUFFICES ASSUME NEW s \in Readers
                 PROVE  (/\ window[s] = Tick(base[s]) /\ base[s] <= now
                         /\ ~HasRun(s) /\ Told(s, e2, base[s]))'
      BY DEF Windows
    <3>1. ~HasRun(s) /\ ~HasRun(s)' /\ s \in Systems /\ s \notin left
      BY <1>1, Recent DEF HasRun
    <3>2. /\ Told(s, e, base[s]) /\ window[s] = Tick(base[s])
          /\ base[s] <= now /\ base[s] \in Nat
      BY <2>1, <3>1 DEF Windows
    <3>3. \A r \in Rows : r \in unseen[s] <=> e2[r] > base[s]
      <4>1. \A r \in Rows : e[r] >= 1
        BY <2>1 DEF Stamps
      <4> QED
        BY <2>2, <3>1, <3>2, <4>1, AdvanceTold
    <3>4. base[s] < now' /\ base[s] <= now'
      BY <1>1, <3>2
    <3> QED
      BY <1>1, <3>1, <3>2, <3>3, <3>4 DEF Told, Tick, truthVars
  <2> QED
    BY <2>2, <2>3 DEF Timed
<1> QED
  BY <1>1, <1>2, <1>3, <1>4 DEF NothingMissed, NothingInvented, truthVars

\* A system runs: it sees what is new, and what it writes is new to the readers
\* of other stages; those of its own stage do not read it.
LEMMA RunSystemStep ==
  ASSUME WellUsed, IInv, NEW s \in Systems, NEW writes \in SUBSET Rows,
         NEW defers \in SUBSET Rows, RunSystem(s, writes, defers)
  PROVE  IInv'
<1> USE DEF IInv
<1>1. /\ s \in left /\ s \in enabled /\ s \in InStage(stage) /\ enabled # {}
      /\ (writes # {} => s \in Writers) /\ (defers # {} => s \in Commanders)
      /\ left' = left \ {s} /\ Stamp(writes)
      /\ unseen' = [q \in Systems |-> IF q = s THEN {} ELSE unseen[q] \cup writes]
      /\ ranAt' = [ranAt EXCEPT ![s] = now]
      /\ deferred' = deferred \cup defers
      /\ UNCHANGED <<now, window, stage, enabled>>
      /\ now \in Nat /\ now >= 1 /\ stage \in 0 .. NStages /\ NStages \in Nat
  BY Widths DEF RunSystem, Types
<1>2. PICK e \in [Rows -> Nat], g \in Nat, base \in [Systems -> Nat] :
        Stamps(e, g) /\ Windows(e, base)
  BY DEF Timed
<1>3. /\ ranAt \in [Systems -> Nat] /\ ranAt' \in [Systems -> Nat]
      /\ ranAt'[s] = now /\ \A q \in Systems \ {s} : ranAt'[q] = ranAt[q]
      /\ unseen \in [Systems -> SUBSET Rows]
      /\ unseen'[s] = {} /\ \A q \in Systems \ {s} : unseen'[q] = unseen[q] \cup writes
  BY <1>1 DEF Types
<1>4. Types'
  <2>1. \A q \in Systems : ranAt'[q] <= now
    BY <1>1, <1>3 DEF Types
  <2>2. unseen' \in [Systems -> SUBSET Rows]
    BY <1>1, <1>3
  <2>3. deferred' # {} => \E c \in Commanders : StageOf(c) = stage
    BY <1>1 DEF Types, InStage
  <2> QED
    BY <1>1, <1>3, <2>1, <2>2, <2>3 DEF Types, InStage
<1>5. Due'
  <2> SUFFICES ASSUME NEW q \in Readers PROVE (now + Wait(q) - ranAt[q] <= MaxPause)'
    BY DEF Due
  <2>1. /\ q \in Systems /\ StageOf(q) \in 1 .. NStages /\ ranAt[q] \in Nat
        /\ now + Wait(q) - ranAt[q] <= MaxPause /\ MaxPause \in Nat /\ NStages + 1 <= MaxPause
    BY Recent, Widths DEF WellUsed
  <2>2. CASE q = s
    <3>1. Wait(q)' = NStages + 1
      BY <1>1, <2>1, <2>2 DEF Wait, InStage
    <3> QED
      BY <1>1, <1>3, <2>1, <2>2, <3>1
  <2>3. CASE q # s
    <3>1. Wait(q)' = Wait(q)
      BY <1>1, <2>3 DEF Wait
    <3> QED
      BY <1>1, <1>3, <2>1, <2>3, <3>1
  <2> QED
    BY <2>2, <2>3
<1>6. missed' = missed /\ invented' = invented
  <2>1. ASSUME s \in Readers PROVE Changed(window[s]) = unseen[s]
    BY <1>1, <1>2, <2>1, ReadsWhatIsNew DEF HasRun
  <2> QED
    BY <2>1 DEF RunSystem
<1>7. Timed'
  <2>1. PICK e2 \in [Rows -> Nat], g2 \in Nat :
          /\ Stamps(e2, g2)'
          /\ \A r \in Rows : e2[r] = IF r \in writes THEN now ELSE e[r]
    BY <1>1, <1>2, StampStamps
  <2>2. Windows(e2, base)'
    <3> SUFFICES ASSUME NEW q \in Readers
                 PROVE  (/\ window[q] = Tick(base[q]) /\ base[q] <= now
                         /\ HasRun(q) => unseen[q] = {} /\ ranAt[q] = now
                         /\ ~HasRun(q) => Told(q, e2, base[q]))'
      BY DEF Windows
    <3>1. /\ q \in Systems /\ window[q] = Tick(base[q]) /\ base[q] <= now
          /\ base[q] \in Nat
      BY <1>2, Recent DEF Windows
    <3>2. CASE q = s
      <4>1. HasRun(q)'
        BY <1>1, <3>2 DEF HasRun
      <4> QED
        BY <1>1, <1>3, <3>1, <3>2, <4>1 DEF Tick
    <3>3. CASE q # s /\ HasRun(q)
      <4>1. writes = {}
        <5>1. StageOf(q) = stage /\ StageOf(s) = stage
          BY <1>1, <3>3 DEF HasRun, Types, InStage
        <5>2. s \notin Writers
          BY <3>3, <5>1, ChangeAssumption
        <5> QED
          BY <1>1, <5>2
      <4>2. HasRun(q)' /\ unseen[q] = {} /\ ranAt[q] = now
        BY <1>1, <1>2, <3>3 DEF HasRun, Windows
      <4> QED
        BY <1>1, <1>3, <3>1, <3>3, <4>1, <4>2 DEF Tick
    <3>4. CASE q # s /\ ~HasRun(q)
      <4>1. ~HasRun(q)' /\ Told(q, e, base[q])
        BY <1>1, <1>2, <3>4 DEF HasRun, Windows
      <4>2. base[q] < now
        BY <1>1, <4>1 DEF Told
      <4>3. \A r \in Rows : r \in unseen'[q] <=> e2[r] > base[q]
        BY <1>3, <2>1, <3>1, <3>4, <4>1, <4>2 DEF Told
      <4>4. Told(q, e2, base[q])'
        BY <1>1, <1>3, <3>1, <3>4, <4>1, <4>2, <4>3 DEF Told
      <4> QED
        BY <1>1, <3>1, <4>1, <4>4 DEF Tick
    <3> QED
      BY <3>2, <3>3, <3>4
  <2> QED
    BY <2>1, <2>2 DEF Timed
<1> QED
  BY <1>4, <1>5, <1>6, <1>7 DEF NothingMissed, NothingInvented

\* The stage closes: the windows of its readers come up to the tick they ran at.
LEMMA CloseStageStep == ASSUME WellUsed, IInv, CloseStage PROVE IInv'
<1> USE DEF IInv
<1>1. /\ enabled # {} /\ left = {} /\ Stamp(deferred) /\ deferred \in SUBSET Rows
      /\ unseen' = [s \in Systems |-> unseen[s] \cup deferred]
      /\ window' = [s \in Systems |-> IF s \in enabled THEN Tick(now) ELSE window[s]]
      /\ enabled' = {} /\ deferred' = {}
      /\ UNCHANGED <<now, stage, left, ranAt, missed, invented>>
      /\ now \in Nat /\ now >= 1
  BY DEF CloseStage, Types
<1>2. PICK e \in [Rows -> Nat], g \in Nat, base \in [Systems -> Nat] :
        Stamps(e, g) /\ Windows(e, base)
  BY DEF Timed
<1>3. stage # 0
  <2>1. PICK s \in enabled : TRUE
    BY <1>1
  <2>2. s \in Systems /\ StageOf(s) = stage /\ StageOf(s) \in 1 .. NStages
    BY ChangeAssumption DEF Types, InStage
  <2> QED
    BY <2>2, Widths
<1>4. unseen \in [Systems -> SUBSET Rows] /\ \A s \in Systems : unseen'[s] = unseen[s] \cup deferred
  BY <1>1 DEF Types
<1>5. Types'
  <2>1. unseen' \in [Systems -> SUBSET Rows]
    BY <1>1, <1>4
  <2> QED
    BY <1>1, <2>1 DEF Types
<1>6. Due'
  BY <1>1 DEF Due, Wait
<1>7. Timed'
  <2>1. PICK e2 \in [Rows -> Nat], g2 \in Nat :
          /\ Stamps(e2, g2)'
          /\ \A r \in Rows : e2[r] = IF r \in deferred THEN now ELSE e[r]
    BY <1>1, <1>2, StampStamps
  <2> DEFINE closed == [s \in Systems |-> IF s \in enabled THEN now ELSE base[s]]
  <2>2. closed \in [Systems -> Nat]
        /\ \A s \in Systems : closed[s] = IF s \in enabled THEN now ELSE base[s]
    BY <1>1
  <2>3. PICK base2 \in [Systems -> Nat] : base2 = closed
    BY <2>2
  <2> HIDE DEF closed
  <2>4. Windows(e2, base2)'
    <3> SUFFICES ASSUME NEW q \in Readers
                 PROVE  (/\ window[q] = Tick(base2[q]) /\ base2[q] <= now
                         /\ ~HasRun(q) /\ Told(q, e2, base2[q]))'
      BY DEF Windows
    <3>1. q \in Systems /\ ~HasRun(q)'
      BY <1>1, Recent DEF HasRun
    <3>2. CASE q \in enabled
      <4>1. HasRun(q) /\ unseen[q] = {} /\ ranAt[q] = now
        BY <1>1, <1>2, <3>2 DEF HasRun, Windows
      <4>2. deferred = {}
        <5>1. StageOf(q) = stage
          BY <3>2 DEF Types, InStage
        <5> QED
          BY <5>1 DEF Types, WellUsed
      <4>3. base2[q] = now /\ window'[q] = Tick(now) /\ unseen'[q] = {}
        BY <1>1, <1>4, <2>2, <2>3, <3>1, <3>2, <4>1, <4>2
      <4>4. \A r \in Rows : ~(e2[r] > now)
        <5>1. \A r \in Rows : e[r] \in Nat /\ e[r] <= g
          BY <1>2 DEF Stamps
        <5>2. g <= now
          BY <1>2 DEF Stamps
        <5> QED
          BY <1>1, <2>1, <5>1, <5>2
      <4>5. Told(q, e2, base2[q])'
        BY <1>1, <1>3, <4>1, <4>3, <4>4 DEF Told
      <4> QED
        BY <1>1, <3>1, <4>3, <4>5 DEF Tick
    <3>3. CASE q \notin enabled
      <4>1. ~HasRun(q)
        BY <3>3 DEF HasRun
      <4>2. /\ Told(q, e, base[q]) /\ window[q] = Tick(base[q]) /\ base[q] <= now
            /\ base[q] \in Nat
        BY <1>2, <3>1, <4>1 DEF Windows
      <4>3. base2[q] = base[q] /\ window'[q] = window[q] /\ base[q] < now
        BY <1>1, <2>2, <2>3, <3>1, <3>3, <4>2 DEF Told
      <4>4. \A r \in Rows : r \in unseen'[q] <=> e2[r] > base[q]
        BY <1>4, <2>1, <3>1, <4>2, <4>3 DEF Told
      <4>5. Told(q, e2, base2[q])'
        BY <1>1, <1>3, <4>2, <4>3, <4>4 DEF Told
      <4> QED
        BY <1>1, <3>1, <4>2, <4>3, <4>5 DEF Tick
    <3> QED
      BY <3>2, <3>3
  <2> QED
    BY <2>1, <2>4 DEF Timed
<1> QED
  BY <1>1, <1>5, <1>6, <1>7 DEF NothingMissed, NothingInvented

LEMMA WriteOutsideStep ==
  ASSUME WellUsed, IInv, NEW row \in Rows, WriteOutside(row)
  PROVE  IInv'
<1> USE DEF IInv
<1>1. /\ enabled = {} /\ left = {} /\ stage = 0 /\ Stamp({row}) /\ {row} \in SUBSET Rows
      /\ unseen' = [s \in Systems |-> unseen[s] \cup {row}]
      /\ UNCHANGED <<now, window, stageVars, ranAt, missed, invented>>
      /\ now \in Nat /\ now >= 1
  BY DEF WriteOutside, BetweenStages, Types
<1>2. PICK e \in [Rows -> Nat], g \in Nat, base \in [Systems -> Nat] :
        Stamps(e, g) /\ Windows(e, base)
  BY DEF Timed
<1>3. unseen \in [Systems -> SUBSET Rows] /\ \A s \in Systems : unseen'[s] = unseen[s] \cup {row}
  BY <1>1 DEF Types
<1>4. Types'
  <2>1. unseen' \in [Systems -> SUBSET Rows]
    BY <1>1, <1>3
  <2> QED
    BY <1>1, <2>1 DEF Types, stageVars
<1>5. Due'
  BY <1>1 DEF Due, Wait, stageVars
<1>6. Timed'
  <2>1. PICK e2 \in [Rows -> Nat], g2 \in Nat :
          /\ Stamps(e2, g2)'
          /\ \A r \in Rows : e2[r] = IF r \in {row} THEN now ELSE e[r]
    BY <1>1, <1>2, StampStamps
  <2>2. Windows(e2, base)'
    <3> SUFFICES ASSUME NEW q \in Readers
                 PROVE  (/\ window[q] = Tick(base[q]) /\ base[q] <= now
                         /\ ~HasRun(q) /\ Told(q, e2, base[q]))'
      BY DEF Windows
    <3>1. q \in Systems /\ ~HasRun(q) /\ ~HasRun(q)'
      BY <1>1, Recent DEF HasRun, stageVars
    <3>2. /\ Told(q, e, base[q]) /\ window[q] = Tick(base[q]) /\ base[q] <= now
          /\ base[q] \in Nat /\ base[q] < now
      BY <1>1, <1>2, <3>1 DEF Windows, Told
    <3>3. \A r \in Rows : r \in unseen'[q] <=> e2[r] > base[q]
      BY <1>3, <2>1, <3>1, <3>2 DEF Told
    <3> QED
      BY <1>1, <3>1, <3>2, <3>3 DEF Told, Tick, stageVars
  <2> QED
    BY <2>1, <2>2 DEF Timed
<1> QED
  BY <1>1, <1>4, <1>5, <1>6 DEF NothingMissed, NothingInvented

\* Every window is back at Tick::ZERO, before any stamp.
LEMMA RecompileStep == ASSUME WellUsed, IInv, Recompile PROVE IInv'
<1> USE DEF IInv
<1>1. /\ enabled = {} /\ left = {} /\ stage = 0 /\ now <= LastRecompile
      /\ window' = [s \in Systems |-> 0] /\ unseen' = [s \in Systems |-> Rows]
      /\ UNCHANGED <<now, stampVars, stageVars, ranAt, missed, invented>>
      /\ now \in Nat /\ now >= 1 /\ LastRecompile \in Nat
  BY Widths DEF Recompile, BetweenStages, Types
<1>2. PICK e \in [Rows -> Nat], g \in Nat, base \in [Systems -> Nat] :
        Stamps(e, g) /\ Windows(e, base)
  BY DEF Timed
<1>3. Types'
  <2>1. unseen' \in [Systems -> SUBSET Rows]
    BY <1>1
  <2> QED
    BY <1>1, <2>1 DEF Types, stageVars
<1>4. Due'
  BY <1>1 DEF Due, Wait, stageVars
<1>5. Timed'
  <2>1. Stamps(e, g)'
    BY <1>1, <1>2 DEF Stamps, stampVars, Slack, Tick
  <2>2. PICK base2 \in [Systems -> Nat] : \A s \in Systems : base2[s] = 0
    <3>1. [s \in Systems |-> 0] \in [Systems -> Nat]
      OBVIOUS
    <3> QED
      BY <3>1
  <2>3. Windows(e, base2)'
    <3> SUFFICES ASSUME NEW q \in Readers
                 PROVE  (/\ window[q] = Tick(base2[q]) /\ base2[q] <= now
                         /\ ~HasRun(q) /\ Told(q, e, base2[q]))'
      BY DEF Windows
    <3>1. q \in Systems /\ ~HasRun(q)' /\ base2[q] = 0 /\ window'[q] = 0 /\ unseen'[q] = Rows
      BY <1>1, <2>2, Recent DEF HasRun, stageVars
    <3>2. Tick(0) = 0
      <4>1. 0 \in 0 .. TickMod - 1
        BY Widths
      <4> QED
        BY <4>1, TickSmall
    <3>3. \A r \in Rows : e[r] \in Nat /\ e[r] > 0
      BY <1>2 DEF Stamps
    <3>4. ranAt[q] \in Nat /\ ranAt[q] <= LastRecompile
      BY <1>1, <3>1 DEF Types
    <3>5. 0 < now' /\ ranAt'[q] <= LastRecompile
      BY <1>1, <3>4
    <3>6. Told(q, e, base2[q])'
      BY <3>1, <3>3, <3>5 DEF Told
    <3> QED
      BY <1>1, <3>1, <3>2, <3>6 DEF Tick
  <2> QED
    BY <2>1, <2>3 DEF Timed
<1> QED
  BY <1>1, <1>3, <1>4, <1>5 DEF NothingMissed, NothingInvented

LEMMA NextIInv == ASSUME WellUsed PROVE IInv /\ [Next]_vars => IInv'
<1> SUFFICES ASSUME IInv, [Next]_vars PROVE IInv'
  OBVIOUS
<1>1. CASE SkipStage
  BY <1>1, SkipStageStep
<1>2. ASSUME NEW on \in SUBSET Systems, OpenStage(on) PROVE IInv'
  BY <1>2, OpenStageStep
<1>3. ASSUME NEW s \in Systems, NEW writes \in SUBSET Rows, NEW defers \in SUBSET Rows,
             RunSystem(s, writes, defers)
      PROVE  IInv'
  BY <1>3, RunSystemStep
<1>4. CASE CloseStage
  BY <1>4, CloseStageStep
<1>5. CASE EndFrame
  BY <1>5, EndFrameStep
<1>6. ASSUME NEW r \in Rows, WriteOutside(r) PROVE IInv'
  BY <1>6, WriteOutsideStep
<1>7. CASE Recompile
  BY <1>7, RecompileStep
<1>8. CASE UNCHANGED vars
  <2>1. Types' /\ Due'
    BY <1>8 DEF IInv, Types, Due, Wait, vars, stageVars, truthVars
  <2>2. Timed'
    <3>1. PICK e \in [Rows -> Nat], g \in Nat, base \in [Systems -> Nat] :
            Stamps(e, g) /\ Windows(e, base)
      BY DEF IInv, Timed
    <3>2. Stamps(e, g)'
      BY <1>8, <3>1 DEF Stamps, Slack, Tick, vars, stampVars
    <3>3. Windows(e, base)'
      BY <1>8, <3>1 DEF Windows, Told, HasRun, Tick, vars, stageVars, truthVars
    <3> QED
      BY <3>2, <3>3 DEF Timed
  <2> QED
    BY <1>8, <2>1, <2>2 DEF IInv, NothingMissed, NothingInvented, vars, truthVars
<1> QED
  BY <1>1, <1>2, <1>3, <1>4, <1>5, <1>6, <1>7, <1>8 DEF Next

LEMMA Invariance == ASSUME WellUsed PROVE Spec => []IInv
<1>1. IInv /\ [Next]_vars => IInv'
  BY NextIInv
<1>2. Init => IInv
  BY InitIInv
<1> QED
  BY <1>1, <1>2, PTL DEF Spec

-----------------------------------------------------------------------------
(* The theorems.                                                           *)

\* A system that runs sees every row written since it last ran, for any number
\* of turns of the tick counter, if it is not kept out for longer than stamps
\* stay exact and commands are applied in other stages than those that read
\* what they write.
THEOREM ChangesAreNotMissed == ASSUME WellUsed PROVE Spec => []NothingMissed
<1>1. IInv => NothingMissed
  BY DEF IInv
<1> QED
  BY <1>1, Invariance, PTL

\* Nor does it see any other row, under the same conditions: the checks keep old
\* stamps from becoming new as the counter wraps around.
THEOREM ChangesAreNotInvented == ASSUME WellUsed PROVE Spec => []NothingInvented
<1>1. IInv => NothingInvented
  BY DEF IInv
<1> QED
  BY <1>1, Invariance, PTL

-----------------------------------------------------------------------------
(* The pass over the transforms (Transforms).                              *)

Transform == Seq(Node \X Version)
Result == [node : Node, base : Transform]

PassTypes ==
    /\ alive \in SUBSET Node
    /\ parent \in [Node -> Node \cup {None}]
    /\ local \in [Node -> Version \cup {None}]
    /\ global \in [Node -> Transform \cup {None}]
    /\ changedAt \in [Node -> Nat]
    /\ currentTick \in Nat /\ lastRun \in Nat /\ thisRun \in Nat
    /\ phase \in {"idle", "descent"}
    /\ frontier \in SUBSET Result /\ missing \in SUBSET Result
    /\ visited \in SUBSET Node /\ moved \in SUBSET Node

\* What is stamped is in the past of the next pass, and in that of a running one.
Stamped ==
    /\ lastRun < currentTick
    /\ \A n \in Node : changedAt[n] <= currentTick
    /\ phase = "descent" => thisRun < currentTick /\ \A n \in Node : changedAt[n] <= thisRun

\* Whoever follows the links upwards leaves any set of entities.
Grounded(f) == \A S \in SUBSET Node : S # {} => \E m \in S : f[m] \notin S

Linked ==
    /\ Grounded(parent)
    /\ \A n \in Node : parent[n] # None => n \in alive /\ parent[n] \in alive

\* Nothing that waits is below something else that waits, or above something
\* that has been computed.
Apart ==
    \A i \in frontier :
        /\ i.node \in alive
        /\ \E d \in Chain(i.node) : d \in Dirty
        /\ \A j \in frontier : i # j => j.node \notin Chain(i.node)
        /\ \A v \in visited : i.node \notin Chain(v)

\* The world transform an entity has when the pass is over, unless it is still
\* to be visited.
Later(n) == Inserted(global, missing)[n]

LaterBase(n) ==
    IF parent[n] = None \/ Later(parent[n]) = None THEN Identity ELSE Later(parent[n])

Single(results) == \A r, q \in results : r.node = q.node => r = q

\* What waits knows its parent's world transform, what was computed was computed
\* from it, and what no change is above had the right one all along.
Based ==
    /\ Single(missing) /\ \A r \in missing : r.node \in visited
    /\ \A i \in frontier : i.base = LaterBase(i.node)
    /\ \A v \in visited : Later(v) = Compose(LaterBase(v), v)
    /\ \A n \in alive : Settled(n) => Later(n) = Compose(LaterBase(n), n)

\* Below a change every entity has been computed, or something above it waits,
\* unless a transform is missing on the way.
Reached ==
    \A n \in alive :
        /\ \A m \in Chain(n) : local[m] # None
        /\ \E d \in Chain(n) : d \in Dirty
        => n \in visited \/ \E i \in frontier : i.node \in Chain(n)

Descent == phase = "descent" => Apart /\ Based /\ Reached
Rest == phase = "idle" => frontier = {} /\ missing = {} /\ visited = {}

PassInv == PassTypes /\ Stamped /\ Linked /\ Rest /\ GlobalsExact /\ Descent

-----------------------------------------------------------------------------
(* Entities above an entity.                                               *)

Links == [Node -> Node \cup {None}]

LEMMA AboveUp ==
    ASSUME NEW f \in Links, NEW n \in Node
    PROVE  /\ Above(f, n) \in SUBSET Node
           /\ Upward(f, n, Above(f, n))
           /\ \A S \in SUBSET Node : Upward(f, n, S) => Above(f, n) \subseteq S
<1>1. Above(f, n) \in SUBSET Node
  BY DEF Above
<1>2. ASSUME NEW S \in SUBSET Node, Upward(f, n, S) PROVE Above(f, n) \subseteq S
  BY <1>2 DEF Above
<1>3. ASSUME NEW m \in Above(f, n) \cup {n}, f[m] # None PROVE f[m] \in Above(f, n)
  <2>1. m \in Node /\ f[m] \in Node
    BY <1>1, <1>3 DEF Links
  <2>2. ASSUME NEW S \in SUBSET Node, Upward(f, n, S) PROVE f[m] \in S
    <3>1. m \in S \cup {n}
      BY <1>2, <2>2
    <3> QED
      BY <1>3, <2>2, <3>1 DEF Upward
  <2> QED
    BY <2>1, <2>2 DEF Above
<1> QED
  BY <1>1, <1>2, <1>3 DEF Upward

LEMMA AboveUpwards ==
    ASSUME NEW f \in Links, NEW n \in Node, NEW m \in {n} \cup Above(f, n)
    PROVE  /\ m \in Node
           /\ f[m] # None => f[m] \in Above(f, n)
           /\ Above(f, m) \subseteq Above(f, n)
<1>1. m \in Node /\ Upward(f, n, Above(f, n)) /\ Above(f, n) \in SUBSET Node
  BY AboveUp
<1>2. Upward(f, m, Above(f, n))
  BY <1>1 DEF Upward
<1> QED
  BY <1>1, <1>2, AboveUp DEF Upward

LEMMA AboveParent ==
    ASSUME NEW f \in Links, NEW n \in Node
    PROVE  /\ f[n] = None => Above(f, n) = {}
           /\ f[n] # None => f[n] \in Node /\ Above(f, n) = {f[n]} \cup Above(f, f[n])
<1>1. ASSUME f[n] = None PROVE Above(f, n) = {}
  <2>1. Upward(f, n, {})
    BY <1>1 DEF Upward
  <2> QED
    BY <2>1, AboveUp
<1>2. ASSUME f[n] # None PROVE f[n] \in Node /\ Above(f, n) = {f[n]} \cup Above(f, f[n])
  <2> DEFINE p == f[n]
             S == {p} \cup Above(f, p)
  <2>1. p \in Node
    BY <1>2 DEF Links
  <2>2. Upward(f, p, Above(f, p)) /\ S \in SUBSET Node
    BY <2>1, AboveUp
  <2>3. Upward(f, n, S)
    BY <2>2 DEF Upward
  <2>4. Above(f, n) \subseteq S
    BY <2>2, <2>3, AboveUp
  <2>5. p \in Above(f, n)
    BY <1>2, AboveUpwards
  <2>6. Above(f, p) \subseteq Above(f, n)
    BY <2>5, AboveUpwards
  <2> QED
    BY <2>1, <2>4, <2>5, <2>6
<1> QED
  BY <1>1, <1>2

\* The way from n up to m ends in a child of m.
LEMMA AboveChild ==
    ASSUME NEW f \in Links, NEW n \in Node, NEW m \in Above(f, n)
    PROVE  \E c \in {n} \cup Above(f, n) : f[c] = m
<1> DEFINE S == {k \in Above(f, n) : \E c \in {n} \cup Above(f, n) : f[c] = k}
<1>1. S \in SUBSET Node /\ Upward(f, n, Above(f, n))
  BY AboveUp
<1>2. ASSUME NEW x \in S \cup {n}, f[x] # None PROVE f[x] \in S
  <2>1. x \in {n} \cup Above(f, n)
    OBVIOUS
  <2>2. f[x] \in Above(f, n)
    BY <1>2, <2>1, AboveUpwards
  <2> QED
    BY <2>1, <2>2
<1>3. Upward(f, n, S)
  BY <1>2 DEF Upward
<1>4. Above(f, n) \subseteq S
  BY <1>1, <1>3, AboveUp
<1> QED
  BY <1>4

\* Only the links above an entity say what is above it.
LEMMA AboveSame ==
    ASSUME NEW f \in Links, NEW g \in Links, NEW n \in Node,
           \A m \in {n} \cup Above(f, n) : g[m] = f[m]
    PROVE  Above(g, n) = Above(f, n)
<1>1. Above(g, n) \subseteq Above(f, n)
  <2>1. Upward(g, n, Above(f, n)) /\ Above(f, n) \in SUBSET Node
    BY AboveUp DEF Upward
  <2> QED
    BY <2>1, AboveUp
<1>2. Above(f, n) \subseteq Above(g, n)
  <2> DEFINE S == Above(f, n) \cap Above(g, n)
  <2>1. S \in SUBSET Node
    BY AboveUp
  <2>2. ASSUME NEW x \in S \cup {n}, f[x] # None PROVE f[x] \in S
    <3>1. x \in {n} \cup Above(f, n) /\ x \in {n} \cup Above(g, n) /\ g[x] = f[x]
      OBVIOUS
    <3>2. f[x] \in Above(f, n)
      BY <2>2, <3>1, AboveUpwards
    <3>3. g[x] \in Above(g, n)
      BY <2>2, <3>1, AboveUpwards
    <3> QED
      BY <3>1, <3>2, <3>3
  <2>3. Upward(f, n, S)
    BY <2>2 DEF Upward
  <2> QED
    BY <2>1, <2>3, AboveUp
<1> QED
  BY <1>1, <1>2

LEMMA NotAboveItself ==
    ASSUME NEW f \in Links, Grounded(f), NEW n \in Node
    PROVE  n \notin Above(f, n)
<1> SUFFICES ASSUME n \in Above(f, n) PROVE FALSE
  OBVIOUS
<1> DEFINE S == {m \in Above(f, n) : n \in Above(f, m)}
<1>1. S \in SUBSET Node /\ n \in S
  BY AboveUp
<1>2. PICK m \in S : f[m] \notin S
  BY <1>1 DEF Grounded
<1>3. m \in Node /\ f[m] # None /\ Above(f, m) = {f[m]} \cup Above(f, f[m])
  BY <1>1, AboveParent
<1>4. f[m] \in Above(f, n)
  BY <1>3, AboveUpwards
<1>5. f[m] = n \/ n \in Above(f, f[m])
  BY <1>3
<1> QED
  BY <1>1, <1>2, <1>4, <1>5

\* Of the members of D on the way up from n one is the topmost.
LEMMA Topmost ==
    ASSUME NEW f \in Links, Grounded(f), NEW n \in Node, NEW D,
           NEW d \in {n} \cup Above(f, n), d \in D
    PROVE  \E t \in {n} \cup Above(f, n) : t \in D /\ \A m \in Above(f, t) : m \notin D
<1> DEFINE up == {n} \cup Above(f, n)
           S == {m \in up : \E e \in {m} \cup Above(f, m) : e \in D}
<1>1. S \in SUBSET Node /\ d \in S
  BY AboveUp
<1>2. PICK t \in S : f[t] \notin S
  BY <1>1 DEF Grounded
<1>3. t \in Node /\ t \in up
  BY <1>1
<1>4. ASSUME NEW m \in Above(f, t) PROVE m \notin D
  <2>1. f[t] # None /\ m \in {f[t]} \cup Above(f, f[t])
    BY <1>3, <1>4, AboveParent
  <2>2. f[t] \in up
    BY <1>3, <2>1, AboveUpwards
  <2> QED
    BY <1>2, <2>1, <2>2
<1>5. t \in D
  BY <1>4
<1> QED
  BY <1>3, <1>4, <1>5

-----------------------------------------------------------------------------
(* Links that change.                                                      *)

LEMMA CutGrounded ==
    ASSUME NEW f \in Links, NEW g \in Links, Grounded(f), \A m \in Node : g[m] \in {f[m], None}
    PROVE  Grounded(g)
BY TransformsAssumption DEF Grounded

LEMMA AttachGrounded ==
    ASSUME NEW f \in Links, NEW n \in Node, NEW p \in Node, Grounded(f),
           n # p, n \notin Above(f, p)
    PROVE  Grounded([f EXCEPT ![n] = p])
<1> DEFINE g == [f EXCEPT ![n] = p]
<1> SUFFICES ASSUME NEW S \in SUBSET Node, S # {} PROVE \E m \in S : g[m] \notin S
  BY DEF Grounded
<1>1. g[n] = p /\ \A m \in Node : m # n => g[m] = f[m]
  BY DEF Links
<1>2. CASE n \notin S
  <2>1. PICK m \in S : f[m] \notin S
    BY DEF Grounded
  <2> QED
    BY <1>1, <1>2, <2>1
<1>3. CASE n \in S /\ p \notin S
  BY <1>1, <1>3
<1>4. CASE p \in S
  <2> DEFINE T == S \cap ({p} \cup Above(f, p))
  <2>1. T \in SUBSET Node /\ p \in T
    BY <1>4
  <2>2. PICK m \in T : f[m] \notin T
    BY <2>1 DEF Grounded
  <2>3. m \in Node /\ m # n /\ m \in S
    BY <2>1
  <2>4. f[m] \notin S
    <3>1. f[m] # None => f[m] \in Above(f, p)
      BY <2>2, AboveUpwards
    <3> QED
      BY <2>2, <3>1, TransformsAssumption
  <2> QED
    BY <1>1, <2>3, <2>4
<1> QED
  BY <1>2, <1>3, <1>4
-----------------------------------------------------------------------------
(* Writing results.                                                        *)

LEMMA InsertedFacts ==
    ASSUME NEW g, NEW M, NEW n \in Node
    PROVE  /\ (\A r \in M : r.node # n) => Inserted(g, M)[n] = g[n]
           /\ \A q \in M : q.node = n /\ Single(M) => Inserted(g, M)[n] = q.base
<1>1. ASSUME NEW q \in M, q.node = n, Single(M) PROVE Inserted(g, M)[n] = q.base
  <2> DEFINE c == CHOOSE r \in M : r.node = n
  <2>1. c \in M /\ c.node = n
    BY <1>1
  <2>2. c = q
    BY <1>1, <2>1 DEF Single
  <2>3. Inserted(g, M)[n] = c.base
    BY <1>1 DEF Inserted
  <2> HIDE DEF c
  <2> QED
    BY <2>2, <2>3
<1> QED
  BY <1>1 DEF Inserted

LEMMA WrittenFacts ==
    ASSUME NEW g, NEW M, NEW n \in Node
    PROVE  /\ (\A r \in M : r.node # n) \/ g[n] = None => Written(g, M)[n] = g[n]
           /\ \A q \in M : q.node = n /\ Single(M) /\ g[n] # None => Written(g, M)[n] = q.base
<1>1. ASSUME NEW q \in M, q.node = n, Single(M), g[n] # None PROVE Written(g, M)[n] = q.base
  <2> DEFINE c == CHOOSE r \in M : r.node = n
  <2>1. c \in M /\ c.node = n
    BY <1>1
  <2>2. c = q
    BY <1>1, <2>1 DEF Single
  <2>3. Written(g, M)[n] = c.base
    BY <1>1 DEF Written
  <2> HIDE DEF c
  <2> QED
    BY <2>2, <2>3
<1> QED
  BY <1>1 DEF Written

\* Results R that do not meet those in M, and what becomes of them, whether written
\* at once or when the pass is over.
Apiece(M, R) ==
    /\ Single(M) /\ Single(R)
    /\ \A q \in R : q.node \in Node /\ \A r \in M : r.node # q.node

Lands(g, M, R, g2, M2) ==
    /\ Single(M2)
    /\ \A q \in R : Inserted(g2, M2)[q.node] = q.base
    /\ \A n \in Node : (\A q \in R : q.node # n) => Inserted(g2, M2)[n] = Inserted(g, M)[n]

\* Each result is what its entity ends with, and the others end with what they had.
LEMMA WriteLater ==
    ASSUME NEW g, NEW M, NEW R, Apiece(M, R)
    PROVE  Lands(g, M, R, Written(g, R), M \cup Deferred(g, R))
<1>0. /\ Single(M) /\ Single(R)
      /\ \A q \in R : q.node \in Node /\ \A r \in M : r.node # q.node
  BY DEF Apiece
<1> DEFINE M2 == M \cup Deferred(g, R)
           g2 == Written(g, R)
<1>1. Single(M2)
  BY <1>0 DEF Single, Deferred
<1>2. \A q \in R : q \in M2 <=> q \in M \/ g[q.node] = None
  BY DEF Deferred
<1>3. \A r \in M2 : r \in M \/ (r \in R /\ g[r.node] = None)
  BY DEF Deferred
<1> HIDE DEF M2, g2
<1>4. ASSUME NEW q \in R PROVE Inserted(g2, M2)[q.node] = q.base
  <2>1. q.node \in Node
    BY <1>0
  <2>2. CASE g[q.node] = None
    BY <1>1, <1>2, <2>1, <2>2, InsertedFacts
  <2>3. CASE g[q.node] # None
    <3>1. \A r \in M2 : r.node # q.node
      BY <1>0, <1>3, <2>3
    <3>2. Inserted(g2, M2)[q.node] = g2[q.node]
      BY <2>1, <3>1, InsertedFacts
    <3>3. g2[q.node] = q.base
      BY <1>0, <2>1, <2>3, WrittenFacts DEF g2
    <3> QED
      BY <3>2, <3>3
  <2> QED
    BY <2>2, <2>3
<1>5. ASSUME NEW n \in Node, \A q \in R : q.node # n PROVE Inserted(g2, M2)[n] = Inserted(g, M)[n]
  <2>1. g2[n] = g[n]
    BY <1>5, WrittenFacts DEF g2
  <2>2. \A r \in M2 : r.node = n => r \in M
    BY <1>3, <1>5
  <2>3. CASE \E r \in M : r.node = n
    <3>1. PICK r \in M : r.node = n
      BY <2>3
    <3>2. r \in M2
      BY <3>1 DEF M2
    <3> QED
      BY <1>0, <1>1, <3>1, <3>2, InsertedFacts
  <2>4. CASE \A r \in M : r.node # n
    BY <2>1, <2>2, <2>4, InsertedFacts
  <2> QED
    BY <2>3, <2>4
<1> QED
  BY <1>1, <1>4, <1>5 DEF M2, g2, Lands

LEMMA ResultTypes ==
    ASSUME NEW g \in [Node -> Transform \cup {None}], NEW M \in SUBSET Result
    PROVE  /\ Inserted(g, M) \in [Node -> Transform \cup {None}]
           /\ Written(g, M) \in [Node -> Transform \cup {None}]
           /\ Deferred(g, M) \in SUBSET Result
<1>1. \A n : (\E r \in M : r.node = n) => (CHOOSE r \in M : r.node = n) \in M
  OBVIOUS
<1>2. \A r \in M : r.base \in Transform
  BY DEF Result
<1>3. \A n : (\E r \in M : r.node = n) => (CHOOSE r \in M : r.node = n).base \in Transform
  BY <1>1, <1>2
<1>4. Inserted(g, M) \in [Node -> Transform \cup {None}]
  BY <1>3 DEF Inserted
<1>5. Written(g, M) \in [Node -> Transform \cup {None}]
  BY <1>3 DEF Written
<1> QED
  BY <1>4, <1>5 DEF Deferred

-----------------------------------------------------------------------------
(* Types.                                                                  *)

LEMMA ComposeType ==
    ASSUME PassTypes, NEW base \in Transform, NEW n \in Node, local[n] # None
    PROVE  Compose(base, n) \in Transform /\ Item(n, Compose(base, n)) \in Result
<1>1. <<n, local[n]>> \in Node \X Version
  BY DEF PassTypes
<1>2. Append(base, <<n, local[n]>>) \in Seq(Node \X Version)
  BY <1>1 DEF Transform
<1>3. Compose(base, n) \in Transform
  BY <1>2 DEF Compose, Transform
<1> QED
  BY <1>3 DEF Item, Result

LEMMA BaseType ==
    ASSUME PassTypes, NEW n \in Node
    PROVE  /\ Identity \in Transform
           /\ Base(n) \in Transform /\ Item(n, Base(n)) \in Result
<1>1. Identity \in Transform
  BY DEF Identity, Transform
<1>2. parent[n] # None => global[parent[n]] \in Transform \cup {None}
  BY DEF PassTypes
<1>3. Base(n) \in Transform
  BY <1>1, <1>2 DEF Base
<1> QED
  BY <1>1, <1>3 DEF Item, Result

LEMMA PassTypesStep == ASSUME PassTypes, [NextTransforms]_transformVars PROVE PassTypes'
<1> USE TransformsAssumption
<1>1. ASSUME NEW n \in Node, Spawn(n) \/ Write(n) \/ Strip(n) PROVE PassTypes'
  <2>1. \E v \in Version \cup {None} : local' = [local EXCEPT ![n] = v]
    BY <1>1 DEF Spawn, Write, Strip, Locals
  <2>2. local' \in [Node -> Version \cup {None}]
    BY <2>1 DEF PassTypes
  <2>3. /\ changedAt' \in [Node -> Nat] /\ alive' \in SUBSET Node
        /\ UNCHANGED <<parent, global, currentTick, lastRun, pass, moved>>
    BY <1>1 DEF Spawn, Write, Strip, Edit, Between, PassTypes
  <2> QED
    BY <2>2, <2>3 DEF PassTypes, pass
<1>2. ASSUME NEW n \in Node, NEW p \in Node, Attach(n, p) PROVE PassTypes'
  BY <1>2 DEF Attach, Edit, Between, PassTypes, pass
<1>3. ASSUME NEW n \in Node, Detach(n) PROVE PassTypes'
  BY <1>3 DEF Detach, Edit, Between, PassTypes, pass
<1>4. ASSUME NEW n \in Node, Despawn(n) PROVE PassTypes'
  BY <1>4 DEF Despawn, Edit, Between, PassTypes, pass, Without
<1>5. CASE BeginPass
  <2> DEFINE simple == {Item(n, Compose(Identity, n)) : n \in {m \in Dirty : Simple(m)}}
  <2>1. \A n \in Dirty : n \in Node /\ local[n] # None
    BY DEF Dirty, PassTypes
  <2>2. simple \in SUBSET Result
    BY <2>1, BaseType, ComposeType
  <2>3. {Item(n, Base(n)) : n \in Seeds} \in SUBSET Result
    BY <2>1, BaseType DEF Seeds
  <2>4. \A r \in simple : r.node \in Node
    BY <2>2 DEF Result
  <2>5. Written(global, simple) \in [Node -> Transform \cup {None}] /\ Deferred(global, simple) \in SUBSET Result
    BY <2>2, ResultTypes DEF PassTypes
  <2> HIDE DEF simple
  <2>6. /\ frontier' \in SUBSET Result /\ global' \in [Node -> Transform \cup {None}]
        /\ missing' \in SUBSET Result /\ visited' \in SUBSET Node
    BY <1>5, <2>3, <2>4, <2>5 DEF BeginPass, simple
  <2> QED
    <3>1. /\ thisRun' = currentTick /\ currentTick' = currentTick + 1 /\ phase' = "descent"
          /\ moved' = moved \ Dirty /\ lastRun' = lastRun
          /\ UNCHANGED <<alive, parent, local, changedAt>>
      BY <1>5 DEF BeginPass, CloseWindow, world
    <3> QED
      BY <2>6, <3>1 DEF PassTypes
<1>6. ASSUME NEW i \in frontier, Visit(i) PROVE PassTypes'
  <2> DEFINE n == i.node
             result == Item(n, Compose(i.base, n))
  <2>1. n \in Node /\ i.base \in Transform
    BY DEF PassTypes, Result
  <2>2. CASE local[n] = None
    BY <1>6, <2>2 DEF Visit, PassTypes, world
  <2>3. CASE local[n] # None
    <3>1. result \in Result /\ result.base \in Transform
      BY <2>1, <2>3, ComposeType DEF Item
    <3>2. Written(global, {result}) \in [Node -> Transform \cup {None}] /\ Deferred(global, {result}) \in SUBSET Result
      BY <3>1, ResultTypes DEF PassTypes
    <3>3. {Item(c, result.base) : c \in Children(n)} \in SUBSET Result
      BY <3>1 DEF Children, Item, Result, PassTypes
    <3> HIDE DEF result
    <3>4. /\ frontier' \in SUBSET Result /\ global' \in [Node -> Transform \cup {None}]
          /\ missing' \in SUBSET Result /\ visited' \in SUBSET Node
      BY <1>6, <2>1, <2>3, <3>2, <3>3 DEF Visit, PassTypes, result
    <3> QED
      BY <1>6, <3>4 DEF Visit, PassTypes, world
  <2> QED
    BY <2>2, <2>3
<1>7. CASE EndPass
  BY <1>7, ResultTypes DEF EndPass, PassTypes, world
<1>8. CASE UNCHANGED transformVars
  BY <1>8 DEF transformVars, world, pass, PassTypes
<1> QED
  BY <1>1, <1>2, <1>3, <1>4, <1>5, <1>6, <1>7, <1>8 DEF NextTransforms

-----------------------------------------------------------------------------
(* Edits.                                                                  *)

EditOf(n) ==
    \/ Spawn(n) \/ Write(n) \/ Strip(n) \/ Detach(n) \/ Despawn(n)
    \/ \E p \in Node : Attach(n, p)

LEMMA NextKinds ==
    ASSUME [NextTransforms]_transformVars
    PROVE  \/ \E n \in Node : EditOf(n)
           \/ BeginPass \/ EndPass \/ \E i \in frontier : Visit(i)
           \/ UNCHANGED transformVars
BY DEF NextTransforms, EditOf

LEMMA EditFrame ==
    ASSUME NEW n \in Node, EditOf(n)
    PROVE  phase = "idle" /\ UNCHANGED <<currentTick, lastRun, pass>>
BY DEF EditOf, Spawn, Write, Strip, Detach, Despawn, Attach, Edit, Between

LEMMA StampedStep ==
    ASSUME PassTypes, Stamped, [NextTransforms]_transformVars PROVE Stamped'
<1>1. ASSUME NEW n \in Node, EditOf(n) PROVE Stamped'
  <2>1. changedAt' = changedAt \/ changedAt' = [changedAt EXCEPT ![n] = currentTick]
    BY <1>1 DEF EditOf, Spawn, Write, Strip, Detach, Despawn, Attach
  <2>2. phase = "idle" /\ UNCHANGED <<currentTick, lastRun, phase>>
    BY <1>1, EditFrame DEF pass
  <2> QED
    BY <2>1, <2>2 DEF Stamped, PassTypes
<1>2. CASE BeginPass
  <2>1. /\ thisRun' = currentTick /\ currentTick' = currentTick + 1
        /\ UNCHANGED <<changedAt, lastRun>>
    BY <1>2 DEF BeginPass, CloseWindow, world
  <2> QED
    BY <2>1 DEF Stamped, PassTypes
<1>3. CASE EndPass
  BY <1>3 DEF EndPass, world, Stamped, PassTypes
<1>4. ASSUME NEW i \in frontier, Visit(i) PROVE Stamped'
  BY <1>4 DEF Visit, world, Stamped, PassTypes
<1>5. CASE UNCHANGED transformVars
  BY <1>5 DEF transformVars, world, pass, Stamped
<1> QED
  BY <1>1, <1>2, <1>3, <1>4, <1>5, NextKinds

\* What is above an entity lives, if all parents do.
LEMMA AboveAlive ==
    ASSUME NEW f \in Links, NEW A, \A n \in Node : f[n] # None => f[n] \in A,
           NEW n \in Node, NEW m \in Above(f, n)
    PROVE  m \in A
<1>1. PICK c \in {n} \cup Above(f, n) : f[c] = m
  BY AboveChild
<1>2. c \in Node /\ m \in Node
  BY <1>1, AboveUpwards
<1> QED
  BY <1>1, <1>2, TransformsAssumption

\* No child outlives its parent.
LEMMA SubtreeClosed ==
    ASSUME PassTypes, Linked, NEW n \in Node, NEW m \in Node, parent[m] \in Subtree(n)
    PROVE  m \in Subtree(n)
<1>1. parent \in Links /\ parent[m] \in Node /\ parent[m] # None
  BY TransformsAssumption DEF PassTypes, Links, Subtree
<1>2. m \in alive
  BY <1>1 DEF Linked
<1>3. Above(parent, m) = {parent[m]} \cup Above(parent, parent[m])
  BY <1>1, AboveParent
<1>4. parent[m] = n \/ n \in Above(parent, parent[m])
  BY DEF Subtree, Ancestors
<1> QED
  BY <1>2, <1>3, <1>4 DEF Subtree, Ancestors

LEMMA LinkedStep ==
    ASSUME PassTypes, Linked, [NextTransforms]_transformVars PROVE Linked'
<1> USE TransformsAssumption
<1>1. parent \in Links
  BY DEF PassTypes, Links
<1>2. ASSUME NEW n \in Node, Spawn(n) PROVE Linked'
  BY <1>2 DEF Spawn, Linked
<1>3. ASSUME NEW n \in Node, Write(n) \/ Strip(n) PROVE Linked'
  BY <1>3 DEF Write, Strip, Linked
<1>4. ASSUME NEW n \in Node, NEW p \in Node, Attach(n, p) PROVE Linked'
  <2>1. /\ {n, p} \subseteq alive /\ n # p /\ n \notin Above(parent, p)
        /\ parent' = [parent EXCEPT ![n] = p] /\ alive' = alive
    BY <1>4 DEF Attach, Ancestors
  <2>2. Grounded(parent')
    BY <1>1, <2>1, AttachGrounded DEF Linked
  <2> QED
    BY <2>1, <2>2 DEF Linked, PassTypes
<1>5. ASSUME NEW n \in Node, Detach(n) PROVE Linked'
  <2>1. parent' = [parent EXCEPT ![n] = None] /\ alive' = alive
    BY <1>5 DEF Detach
  <2>2. parent' \in Links /\ \A m \in Node : parent'[m] \in {parent[m], None}
    BY <1>1, <2>1 DEF Links
  <2>3. Grounded(parent')
    BY <1>1, <2>2, CutGrounded DEF Linked
  <2> QED
    BY <2>1, <2>2, <2>3 DEF Linked
<1>6. ASSUME NEW n \in Node, Despawn(n) PROVE Linked'
  <2>1. parent' = Without(parent, Subtree(n)) /\ alive' = alive \ Subtree(n)
    BY <1>6 DEF Despawn
  <2>2. \A m \in Node : parent'[m] = IF m \in Subtree(n) THEN None ELSE parent[m]
    BY <2>1 DEF Without
  <2>3. parent' \in Links
    BY <1>1, <2>1 DEF Without, Links
  <2>4. Grounded(parent')
    BY <1>1, <2>2, <2>3, CutGrounded DEF Linked
  <2>5. ASSUME NEW m \in Node, parent'[m] # None PROVE m \in alive' /\ parent'[m] \in alive'
    <3>1. m \notin Subtree(n) /\ parent'[m] = parent[m] /\ m \in alive /\ parent[m] \in alive
      BY <2>2, <2>5 DEF Linked
    <3>2. parent[m] \notin Subtree(n)
      BY <3>1, SubtreeClosed
    <3> QED
      BY <2>1, <3>1, <3>2
  <2> QED
    BY <2>4, <2>5 DEF Linked
<1>7. CASE BeginPass \/ EndPass \/ (\E i \in frontier : Visit(i)) \/ UNCHANGED transformVars
  <2>1. parent' = parent /\ alive' = alive
    BY <1>7 DEF BeginPass, EndPass, Visit, transformVars, world
  <2> QED
    BY <2>1 DEF Linked
<1> QED
  BY <1>2, <1>3, <1>4, <1>5, <1>6, <1>7, NextKinds DEF EditOf

\* An entity whose way up no edit has touched is as it was.
LEMMA Untouched ==
    ASSUME PassTypes, PassTypes', phase = "idle", GlobalsExact,
           NEW n \in alive, Settled(n)',
           \A m \in {n} \cup Above(parent', n) :
               /\ parent'[m] = parent[m] /\ local'[m] = local[m] /\ global'[m] = global[m]
               /\ m \in Dirty \cup moved => m \in Dirty' \cup moved'
    PROVE  global'[n] = Compose(Base(n), n)'
<1>1. parent \in Links /\ parent' \in Links /\ n \in Node
  BY DEF PassTypes, Links
<1>2. Above(parent, n) = Above(parent', n)
  BY <1>1, AboveSame
<1>3. Settled(n)
  BY <1>2 DEF Settled, Chain, Ancestors
<1>4. global[n] = Compose(Base(n), n)
  BY <1>3 DEF GlobalsExact
<1>5. parent[n] # None => parent[n] \in Above(parent, n)
  BY <1>1, AboveUpwards
<1>6. Base(n)' = Base(n)
  BY <1>2, <1>5 DEF Base, Identity
<1>7. local'[n] = local[n]
  OBVIOUS
<1>8. Compose(Base(n), n)' = Compose(Base(n), n)
  BY <1>6, <1>7 DEF Compose
<1> QED
  BY <1>4, <1>8

LEMMA EditExact ==
    ASSUME PassTypes, PassTypes', Stamped, Linked, Linked', GlobalsExact,
           NEW x \in Node, EditOf(x)
    PROVE  GlobalsExact'
<1>1. phase = "idle" /\ lastRun' = lastRun /\ lastRun < currentTick
  BY EditFrame DEF Stamped
<1> SUFFICES ASSUME NEW n \in alive', Settled(n)' PROVE global'[n] = Compose(Base(n), n)'
  BY DEF GlobalsExact
<1> DEFINE up == {n} \cup Above(parent', n)
<1>2. n \in Node /\ up = Chain(n)'
  BY DEF PassTypes, Chain, Ancestors
<1>3. \A m \in up : m \in alive' /\ m \in Node
  <2>1. parent' \in Links /\ \A m \in Node : parent'[m] # None => parent'[m] \in alive'
    BY DEF PassTypes, Links, Linked
  <2>2. \A m \in Above(parent', n) : m \in alive'
    BY <1>2, <2>1, AboveAlive
  <2> QED
    BY <2>2 DEF PassTypes
<1>4. \A m \in up : local'[m] # None /\ m \notin Dirty' /\ m \notin moved'
  BY <1>2 DEF Settled
<1> HIDE DEF up
<1>5. CASE Spawn(x) \/ Write(x)
  <2>1. /\ changedAt' = [changedAt EXCEPT ![x] = currentTick]
        /\ \E v : local' = [local EXCEPT ![x] = v]
        /\ UNCHANGED <<parent, global, moved>> /\ alive' = alive \cup {x}
    BY <1>5 DEF Spawn, Write
  <2>2. local'[x] # None => x \in Dirty'
    BY <1>1, <2>1 DEF Dirty, PassTypes
  <2>3. x \notin up
    BY <1>4, <2>2
  <2>4. \A m \in up : local'[m] = local[m] /\ (m \in Dirty => m \in Dirty')
    BY <1>1, <1>3, <2>1, <2>3 DEF Dirty, PassTypes
  <2>5. n \in alive
    BY <2>1, <2>3 DEF up
  <2> QED
    BY <1>1, <2>1, <2>4, <2>5, Untouched DEF up
<1>6. CASE Strip(x)
  <2>1. /\ local' = [local EXCEPT ![x] = None]
        /\ UNCHANGED <<alive, parent, changedAt, global, moved>>
    BY <1>6 DEF Strip
  <2>2. x \notin up
    BY <1>4, <2>1 DEF PassTypes
  <2>3. \A m \in up : local'[m] = local[m] /\ (m \in Dirty => m \in Dirty')
    BY <1>1, <1>3, <2>1, <2>2 DEF Dirty, PassTypes
  <2> QED
    BY <1>1, <2>1, <2>3, Untouched DEF up
<1>7. CASE Detach(x) \/ \E p \in Node : Attach(x, p)
  <2>1. /\ \E p : parent' = [parent EXCEPT ![x] = p]
        /\ moved' = moved \cup {x}
        /\ UNCHANGED <<alive, local, changedAt, global>>
    BY <1>7 DEF Detach, Attach
  <2>2. x \notin up
    BY <1>4, <2>1
  <2>3. \A m \in up : parent'[m] = parent[m] /\ (m \in Dirty => m \in Dirty')
    BY <1>1, <1>3, <2>1, <2>2 DEF Dirty, PassTypes
  <2> QED
    BY <1>1, <2>1, <2>3, Untouched DEF up
<1>8. CASE Despawn(x)
  <2> DEFINE gone == Subtree(x)
  <2>1. /\ alive' = alive \ gone /\ parent' = Without(parent, gone)
        /\ local' = Without(local, gone) /\ global' = Without(global, gone)
        /\ moved' = moved \ gone /\ changedAt' = changedAt
    BY <1>8 DEF Despawn
  <2>2. \A m \in up : m \notin gone /\ m \in alive
    BY <1>3, <2>1
  <2>3. \A m \in up : parent'[m] = parent[m] /\ local'[m] = local[m] /\ global'[m] = global[m]
    BY <1>3, <2>1, <2>2 DEF Without
  <2>4. \A m \in up : m \in Dirty \cup moved => m \in Dirty' \cup moved'
    BY <1>1, <2>1, <2>2, <2>3 DEF Dirty
  <2>5. n \in alive
    BY <2>2 DEF up
  <2> QED
    BY <1>1, <2>3, <2>4, <2>5, Untouched DEF up
<1> QED
  BY <1>5, <1>6, <1>7, <1>8 DEF EditOf

-----------------------------------------------------------------------------
(* A pass begins.                                                          *)

LEMMA ChainFacts ==
    ASSUME PassTypes, Linked, NEW n \in Node
    PROVE  /\ parent \in Links /\ Chain(n) = {n} \cup Above(parent, n)
           /\ n \notin Ancestors(n) /\ n \in Chain(n)
           /\ parent[n] # None => parent[n] \in Chain(n)
           /\ \A m \in Chain(n) : m \in Node /\ Chain(m) \subseteq Chain(n)
           /\ \A m \in Chain(n) : parent[m] # None => parent[m] \in Ancestors(n)
           /\ \A m \in Node : parent[m] = n => Chain(m) = {m} \cup Chain(n)
<1>1. parent \in Links /\ Grounded(parent) /\ Chain(n) = {n} \cup Above(parent, n)
      /\ Ancestors(n) = Above(parent, n)
  BY DEF PassTypes, Links, Linked, Chain, Ancestors
<1>2. n \notin Ancestors(n)
  BY <1>1, NotAboveItself
<1>3. \A m \in Chain(n) : /\ m \in Node /\ Above(parent, m) \subseteq Above(parent, n)
                          /\ parent[m] # None => parent[m] \in Above(parent, n)
  BY <1>1, AboveUpwards
<1>4. \A m \in Chain(n) : Chain(m) \subseteq Chain(n)
  BY <1>1, <1>3 DEF Chain, Ancestors
<1>5. ASSUME NEW m \in Node, parent[m] = n PROVE Chain(m) = {m} \cup Chain(n)
  <2>1. Above(parent, m) = {n} \cup Above(parent, n)
    BY <1>1, <1>5, AboveParent, TransformsAssumption
  <2> QED
    BY <1>1, <2>1 DEF Chain, Ancestors
<1> QED
  BY <1>1, <1>2, <1>3, <1>4, <1>5

LEMMA BeginLater ==
    ASSUME PassTypes, Linked, missing = {}, BeginPass, NEW n \in Node
    PROVE  /\ Single(missing')
           /\ n \in Dirty /\ Simple(n) => Later(n)' = Compose(Identity, n)
           /\ ~(n \in Dirty /\ Simple(n)) => Later(n)' = global[n]
           /\ LaterBase(n)' = Base(n)
<1> DEFINE R == {Item(m, Compose(Identity, m)) : m \in {k \in Dirty : Simple(k)}}
<1>1. global' = Written(global, R) /\ missing' = {} \cup Deferred(global, R) /\ parent' = parent
  BY DEF BeginPass, world
<1>2. /\ \A q \in R : q.node \in Dirty /\ Simple(q.node) /\ q.base = Compose(Identity, q.node)
      /\ \A m \in Dirty : Simple(m) => \E q \in R : q.node = m
      /\ \A q, r \in R : q.node = r.node => q = r
  <2>1. ASSUME NEW q \in R
        PROVE  q.node \in Dirty /\ Simple(q.node) /\ q = Item(q.node, Compose(Identity, q.node))
    <3>1. PICK k \in {m \in Dirty : Simple(m)} : q = Item(k, Compose(Identity, k))
      OBVIOUS
    <3>2. q.node = k
      BY <3>1 DEF Item
    <3> QED
      BY <3>1, <3>2
  <2>2. ASSUME NEW m \in Dirty, Simple(m) PROVE \E q \in R : q.node = m
    <3>1. Item(m, Compose(Identity, m)) \in R
      BY <2>2
    <3> QED
      BY <3>1 DEF Item
  <2>3. \A m, b : Item(m, b).base = b
    BY DEF Item
  <2> HIDE DEF R
  <2>4. \A q \in R : q.base = Compose(Identity, q.node)
    BY <2>1, <2>3
  <2>5. \A q, r \in R : q.node = r.node => q = r
    BY <2>1
  <2> QED
    BY <2>1, <2>2, <2>4, <2>5
<1>3. \A m \in Dirty : m \in Node
  BY DEF Dirty, PassTypes
<1> HIDE DEF R
<1>4. Single({}) /\ Single(R) /\ \A q \in R : q.node \in Node
  BY <1>2, <1>3 DEF Single
<1>5. /\ Single(missing')
      /\ \A q \in R : Inserted(global', missing')[q.node] = q.base
      /\ \A m \in Node : (\A q \in R : q.node # m) => Inserted(global', missing')[m] = Inserted(global, {})[m]
  <2>1. Apiece({}, R)
    BY <1>4 DEF Apiece
  <2>2. Lands(global, {}, R, global', missing')
    BY <1>1, <2>1, WriteLater
  <2> QED
    BY <2>2 DEF Lands
<1>6. \A m \in Node : Inserted(global, {})[m] = global[m]
  BY DEF Inserted
<1>7. \A m \in Node : m \in Dirty /\ Simple(m) => Later(m)' = Compose(Identity, m)
  BY <1>2, <1>5 DEF Later
<1>8. \A m \in Node : ~(m \in Dirty /\ Simple(m)) => Later(m)' = global[m]
  BY <1>2, <1>5, <1>6 DEF Later
<1>9. LaterBase(n)' = Base(n)
  <2>1. CASE parent[n] = None
    BY <1>1, <2>1 DEF LaterBase, Base, Identity
  <2>2. CASE parent[n] # None
    <3>1. n \in alive /\ parent[n] \in Node
      BY <2>2 DEF Linked, PassTypes
    <3>2. PICK p \in Node : p = parent[n]
      BY <3>1
    <3>3. ~Simple(p)
      BY <3>1, <3>2 DEF Simple, Children
    <3>4. Later(p)' = global[p]
      BY <1>8, <3>3
    <3>5. parent'[n] = p
      BY <1>1, <3>2
    <3>6. Inserted(global', missing')[p] = global[p]
      BY <3>4 DEF Later
    <3>7. LaterBase(n)' = IF p = None \/ global[p] = None THEN Identity ELSE global[p]
      BY <3>5, <3>6 DEF LaterBase, Later, Identity
    <3> QED
      BY <3>2, <3>7 DEF Base
  <2> QED
    BY <2>1, <2>2
<1> QED
  BY <1>5, <1>7, <1>8, <1>9

LEMMA BeginPassStep ==
    ASSUME PassTypes, Linked, Rest, GlobalsExact, BeginPass
    PROVE  Apart' /\ Based' /\ Reached'
<1>1. /\ UNCHANGED <<alive, parent, local, changedAt, lastRun>> /\ moved' = moved \ Dirty
      /\ phase = "idle" /\ frontier = {} /\ missing = {} /\ visited = {}
  BY DEF BeginPass, world, Rest
<1>2. /\ Dirty' = Dirty /\ \A n : Chain(n)' = Chain(n)
      /\ \A b, n : Compose(b, n)' = Compose(b, n)
  BY <1>1 DEF Dirty, Chain, Ancestors, Compose
<1>3. \A n \in Dirty : n \in Node /\ n \in alive
  BY DEF Dirty, PassTypes
<1>4. /\ \A i \in frontier' : i.node \in Seeds /\ i.base = Base(i.node) /\ i = Item(i.node, Base(i.node))
      /\ \A n \in Seeds : \E i \in frontier' : i.node = n
  <2>1. frontier' = {Item(n, Base(n)) : n \in Seeds}
    BY DEF BeginPass
  <2>2. \A n, b : Item(n, b).node = n /\ Item(n, b).base = b
    BY DEF Item
  <2> QED
    BY <2>1, <2>2
<1>5. \A v : v \in visited' <=> v \in Dirty /\ Simple(v)
  <2>1. visited' = {r.node : r \in {Item(n, Compose(Identity, n)) : n \in {m \in Dirty : Simple(m)}}}
    BY DEF BeginPass
  <2>2. \A n, b : Item(n, b).node = n
    BY DEF Item
  <2> QED
    BY <2>1, <2>2
<1>6. \A n \in Seeds : n \in Dirty /\ ~Simple(n) /\ \A m \in Ancestors(n) : m \notin Dirty
  BY DEF Seeds, Covered
<1>7. Apart'
  <2> SUFFICES ASSUME NEW i \in frontier'
               PROVE  /\ i.node \in alive /\ \E d \in Chain(i.node) : d \in Dirty
                      /\ \A j \in frontier' : i # j => j.node \notin Chain(i.node)
                      /\ \A v \in visited' : i.node \notin Chain(v)
    BY <1>1, <1>2 DEF Apart
  <2>1. i.node \in Node /\ i.node \in alive /\ i.node \in Dirty /\ i.node \in Seeds
    BY <1>3, <1>4, <1>6
  <2>2. i.node \in Chain(i.node)
    BY DEF Chain
  <2>3. ASSUME NEW j \in frontier', i # j PROVE j.node \notin Chain(i.node)
    <3>1. j.node # i.node
      BY <1>4, <2>3
    <3>2. j.node \notin Ancestors(i.node)
      BY <1>4, <1>6, <2>1
    <3> QED
      BY <3>1, <3>2 DEF Chain
  <2>4. ASSUME NEW v \in visited' PROVE i.node \notin Chain(v)
    <3>1. Simple(v) /\ v \in Node /\ parent[v] = None
      BY <1>3, <1>5 DEF Simple
    <3>2. Chain(v) = {v}
      BY <3>1, AboveParent, ChainFacts
    <3>3. i.node # v
      BY <1>4, <1>6, <3>1
    <3> QED
      BY <3>2, <3>3
  <2> QED
    BY <2>1, <2>2, <2>3, <2>4
<1>8. Based'
  <2>0. \A n \in Node : /\ Single(missing')
                        /\ n \in Dirty /\ Simple(n) => Later(n)' = Compose(Identity, n)
                        /\ ~(n \in Dirty /\ Simple(n)) => Later(n)' = global[n]
                        /\ LaterBase(n)' = Base(n)
    BY <1>1, BeginLater
  <2>1. \A r \in missing' : r.node \in visited'
    BY DEF BeginPass, Deferred
  <2>2. \A i \in frontier' : i.base = LaterBase(i.node)'
    BY <1>3, <1>4, <1>6, <2>0
  <2>3. ASSUME NEW v \in visited' PROVE Later(v)' = Compose(LaterBase(v), v)'
    <3>1. v \in Node /\ v \in Dirty /\ Simple(v) /\ parent[v] = None
      BY <1>3, <1>5 DEF Simple
    <3>2. Later(v)' = Compose(Identity, v) /\ LaterBase(v)' = Identity
      BY <2>0, <3>1 DEF Base
    <3>3. Compose(LaterBase(v), v)' = Compose(LaterBase(v)', v)
      BY <1>1 DEF Compose
    <3> QED
      BY <3>2, <3>3
  <2>4. ASSUME NEW n \in alive, Settled(n)' PROVE Later(n)' = Compose(LaterBase(n), n)'
    <3>1. Settled(n)
      BY <1>1, <1>2, <2>4 DEF Settled
    <3>2. global[n] = Compose(Base(n), n)
      BY <1>1, <3>1 DEF GlobalsExact
    <3>3. n \in Node /\ n \notin Dirty
      BY <3>1 DEF Settled, Chain, PassTypes
    <3>4. Later(n)' = global[n] /\ LaterBase(n)' = Base(n)
      BY <2>0, <3>3
    <3>5. Compose(LaterBase(n), n)' = Compose(LaterBase(n)', n)
      BY <1>1 DEF Compose
    <3> QED
      BY <3>2, <3>4, <3>5
  <2>5. Single(missing')
    <3>1. CASE \E n : n \in Node
      BY <2>0, <3>1
    <3>2. CASE ~\E n : n \in Node
      <4>1. missing' = {}
        BY <1>3, <1>5, <2>1, <3>2
      <4> QED
        BY <4>1 DEF Single
    <3> QED
      BY <3>1, <3>2
  <2> QED
    BY <1>1, <2>1, <2>2, <2>3, <2>4, <2>5 DEF Based
<1>9. Reached'
  <2> SUFFICES ASSUME NEW n \in alive, \A m \in Chain(n) : local[m] # None,
                      NEW d \in Chain(n), d \in Dirty
               PROVE  n \in visited' \/ \E i \in frontier' : i.node \in Chain(n)
    BY <1>1, <1>2 DEF Reached
  <2>1. n \in Node /\ parent \in Links /\ Grounded(parent) /\ Chain(n) = {n} \cup Above(parent, n)
    BY ChainFacts DEF PassTypes, Linked
  <2>2. PICK t \in Chain(n) : t \in Dirty /\ \A m \in Above(parent, t) : m \notin Dirty
    BY <2>1, Topmost
  <2>3. CASE Simple(t)
    <3>1. n = t
      <4> SUFFICES ASSUME t \in Above(parent, n) PROVE FALSE
        BY <2>1, <2>2
      <4>1. PICK c \in {n} \cup Above(parent, n) : parent[c] = t
        BY <2>1, AboveChild
      <4>2. c \in Node /\ t \in Node
        BY <1>3, <2>1, <2>2, ChainFacts
      <4>3. c \in alive
        BY <4>1, <4>2, TransformsAssumption DEF Linked
      <4> QED
        BY <2>3, <4>1, <4>3 DEF Simple, Children
    <3> QED
      BY <1>5, <2>2, <2>3, <3>1
  <2>4. CASE ~Simple(t)
    <3>1. t \in Seeds
      BY <2>2, <2>4 DEF Seeds, Covered, Ancestors
    <3> QED
      BY <1>4, <3>1
  <2> QED
    BY <2>3, <2>4
<1> QED
  BY <1>7, <1>8, <1>9

-----------------------------------------------------------------------------
(* Entities are visited.                                                   *)

\* One without a local transform only leaves the stack.
LEMMA VisitHole ==
    ASSUME PassTypes, Apart, Based, Reached,
           NEW i \in frontier, Visit(i), local[i.node] = None
    PROVE  Apart' /\ Based' /\ Reached'
<1>1. /\ UNCHANGED <<alive, parent, local, changedAt, lastRun, moved, global, missing, visited>>
      /\ frontier' = frontier \ {i}
  BY DEF Visit, world
<1>2. Dirty' = Dirty /\ \A n : Chain(n)' = Chain(n)
  BY <1>1 DEF Dirty, Chain, Ancestors
<1>3. \A n : Later(n)' = Later(n)
  BY <1>1 DEF Later
<1>4. \A n : LaterBase(n)' = LaterBase(n)
  BY <1>1 DEF Later, LaterBase
<1>5. \A b, n : Compose(b, n)' = Compose(b, n)
  BY <1>1 DEF Compose
<1>6. Apart'
  BY <1>1, <1>2 DEF Apart
<1>7. Based'
  <2>1. \A n : Settled(n)' <=> Settled(n)
    BY <1>1, <1>2 DEF Settled
  <2>2. \A n : Compose(LaterBase(n), n)' = Compose(LaterBase(n), n)
    BY <1>1, <1>4 DEF Compose
  <2> QED
    BY <1>1, <1>3, <1>4, <2>1, <2>2 DEF Based
<1>8. Reached'
  BY <1>1, <1>2 DEF Reached
<1> QED
  BY <1>6, <1>7, <1>8

LEMMA VisitLater ==
    ASSUME PassTypes, Linked, Apart, Based,
           NEW i \in frontier, Visit(i), local[i.node] # None
    PROVE  /\ Single(missing')
           /\ \A r \in missing' : r \in missing \/ r.node = i.node
           /\ Later(i.node)' = Compose(i.base, i.node)
           /\ \A m \in Node : m # i.node => Later(m)' = Later(m)
           /\ \A m \in Node : parent[m] # i.node => LaterBase(m)' = LaterBase(m)
           /\ \A m \in Node : parent[m] = i.node => LaterBase(m)' = Compose(i.base, i.node)
<1> DEFINE result == Item(i.node, Compose(i.base, i.node))
<1>1. PICK n \in Node : n = i.node
  BY DEF PassTypes, Result
<1>2. /\ global' = Written(global, {result}) /\ missing' = missing \cup Deferred(global, {result})
      /\ parent' = parent
  BY DEF Visit, world
<1>3. i.base \in Transform
  BY DEF PassTypes, Result
<1>4. result.node = n /\ result.base = Compose(i.base, n) /\ result.base \in Transform
  BY <1>1, <1>3, ComposeType DEF Item
<1> HIDE DEF result
<1>5. n \notin visited
  <2>1. n \in Chain(n)
    BY DEF Chain
  <2> QED
    BY <1>1, <2>1 DEF Apart
<1>6. Single(missing) /\ Single({result}) /\ \A r \in missing : r.node # n
  BY <1>5 DEF Based, Single
<1>7. /\ Single(missing')
      /\ Inserted(global', missing')[n] = Compose(i.base, n)
      /\ \A m \in Node : m # n => Inserted(global', missing')[m] = Inserted(global, missing)[m]
  <2> DEFINE R == {result}
  <2>1. Apiece(missing, R)
    BY <1>4, <1>6 DEF Apiece
  <2>2. Lands(global, missing, R, global', missing')
    BY <1>2, <2>1, WriteLater
  <2>3. result \in R /\ \A q \in R : q = result
    OBVIOUS
  <2> HIDE DEF R
  <2> QED
    BY <1>4, <2>2, <2>3 DEF Lands
<1>8. \A r \in missing' : r \in missing \/ r.node = n
  BY <1>2, <1>4 DEF Deferred
<1>9. i' = i /\ Later(n)' = Compose(i.base, n) /\ \A m \in Node : m # n => Later(m)' = Later(m)
  BY <1>7 DEF Later
<1>10. ASSUME NEW m \in Node, parent[m] # n PROVE LaterBase(m)' = LaterBase(m)
  <2>1. CASE parent[m] = None
    BY <1>2, <2>1 DEF LaterBase, Identity
  <2>2. CASE parent[m] # None
    <3>1. PICK p \in Node : p = parent[m] /\ p = parent'[m]
      BY <1>2, <2>2 DEF PassTypes
    <3>2. p # n /\ Inserted(global', missing')[p] = Inserted(global, missing)[p]
      BY <1>7, <1>10, <3>1
    <3> QED
      BY <3>1, <3>2 DEF LaterBase, Later, Identity
  <2> QED
    BY <2>1, <2>2
<1>11. ASSUME NEW m \in Node, parent[m] = n PROVE LaterBase(m)' = Compose(i.base, n)
  <2>1. Compose(i.base, n) # None /\ n # None
    BY <1>4, TransformsAssumption DEF Transform
  <2>2. parent'[m] = n
    BY <1>2, <1>11
  <2> QED
    BY <1>7, <2>1, <2>2 DEF LaterBase, Later
<1> QED
  BY <1>1, <1>7, <1>8, <1>9, <1>10, <1>11

LEMMA VisitApart ==
    ASSUME PassTypes, Linked, Apart,
           NEW i \in frontier, Visit(i), local[i.node] # None
    PROVE  Apart'
<1>1. PICK n \in Node : n = i.node
  BY DEF PassTypes, Result
<1>2. /\ UNCHANGED <<alive, parent, local, changedAt, lastRun>>
      /\ visited' = visited \cup {n}
      /\ \A j \in frontier' : \/ j \in frontier /\ j # i
                              \/ \E c \in Children(n) : j = Item(c, Compose(i.base, n))
  BY <1>1 DEF Visit, world, Item
<1>3. Dirty' = Dirty /\ \A m : Chain(m)' = Chain(m)
  BY <1>2 DEF Dirty, Chain, Ancestors
<1>4. /\ i.node = n /\ \E d \in Chain(n) : d \in Dirty
      /\ \A j \in frontier : j # i => j.node \notin Chain(n) /\ n \notin Chain(j.node)
      /\ \A v \in visited : n \notin Chain(v)
  BY <1>1 DEF Apart
<1>5. \A c \in Children(n) : c \in Node /\ c \in alive /\ parent[c] = n /\ Chain(c) = {c} \cup Chain(n)
  BY ChainFacts DEF Children, PassTypes
<1>6. n \in Chain(n) /\ n \notin Ancestors(n) /\ n # None
  BY TransformsAssumption, ChainFacts
<1>7. \A c \in Children(n) : \A m \in Node : c \in Chain(m) => n \in Ancestors(m)
  BY <1>5, <1>6, ChainFacts
<1>8. \A c \in Children(n) : c \notin Chain(n)
  BY <1>6, <1>7
<1>9. \A c \in Children(n) : \A m \in Node : c \in Chain(m) => n \in Chain(m)
  BY <1>7 DEF Chain
<1>10. \A j \in frontier : j.node \in Node
  BY DEF PassTypes, Result
<1>11. \A c, b : Item(c, b).node = c
  BY DEF Item
<1>12. \A j \in frontier' : \/ j \in frontier /\ j # i
                            \/ j.node \in Children(n) /\ j = Item(j.node, Compose(i.base, n))
  BY <1>2, <1>11
<1> SUFFICES ASSUME NEW j \in frontier'
             PROVE  /\ j.node \in alive /\ \E d \in Chain(j.node) : d \in Dirty
                    /\ \A k \in frontier' : j # k => k.node \notin Chain(j.node)
                    /\ \A v \in visited' : j.node \notin Chain(v)
  BY <1>2, <1>3 DEF Apart
<1>13. CASE j \in frontier /\ j # i
  <2>1. j.node \in alive /\ \E d \in Chain(j.node) : d \in Dirty
    BY <1>13 DEF Apart
  <2>2. ASSUME NEW k \in frontier', j # k PROVE k.node \notin Chain(j.node)
    <3>1. CASE k \in frontier
      BY <1>13, <2>2, <3>1 DEF Apart
    <3>2. CASE k.node \in Children(n)
      BY <1>4, <1>9, <1>10, <1>13, <3>2
    <3> QED
      BY <1>12, <3>1, <3>2
  <2>3. ASSUME NEW v \in visited' PROVE j.node \notin Chain(v)
    BY <1>2, <1>4, <1>13 DEF Apart
  <2> QED
    BY <2>1, <2>2, <2>3
<1>14. CASE j.node \in Children(n) /\ j = Item(j.node, Compose(i.base, n))
  <2>1. j.node \in alive /\ \E d \in Chain(j.node) : d \in Dirty
    BY <1>4, <1>5, <1>14
  <2>2. ASSUME NEW k \in frontier', j # k PROVE k.node \notin Chain(j.node)
    <3>1. Chain(j.node) = {j.node} \cup Chain(n)
      BY <1>5, <1>14
    <3>2. CASE k \in frontier /\ k # i
      <4>1. k.node \notin Chain(n) /\ n \notin Chain(k.node)
        BY <1>4, <3>2
      <4>2. k.node # j.node
        BY <1>6, <3>1, <4>1
      <4> QED
        BY <3>1, <4>1, <4>2
    <3>3. CASE k.node \in Children(n) /\ k = Item(k.node, Compose(i.base, n))
      <4>1. k.node # j.node
        BY <1>14, <2>2, <3>3
      <4> QED
        BY <1>8, <3>1, <3>3, <4>1
    <3> QED
      BY <1>12, <3>2, <3>3
  <2>3. ASSUME NEW v \in visited' PROVE j.node \notin Chain(v)
    <3>1. CASE v = n
      BY <1>8, <1>14, <3>1
    <3>2. CASE v \in visited
      <4>1. v \in Node /\ n \notin Chain(v)
        BY <1>4, <3>2 DEF PassTypes
      <4> QED
        BY <1>9, <1>14, <4>1
    <3> QED
      BY <1>2, <3>1, <3>2
  <2> QED
    BY <2>1, <2>2, <2>3
<1> QED
  BY <1>12, <1>13, <1>14

LEMMA VisitBased ==
    ASSUME PassTypes, Linked, Apart, Based,
           NEW i \in frontier, Visit(i), local[i.node] # None
    PROVE  Based'
<1>1. PICK n \in Node : n = i.node
  BY DEF PassTypes, Result
<1>2. /\ UNCHANGED <<alive, parent, local, changedAt, lastRun, moved>>
      /\ visited' = visited \cup {n}
      /\ \A j \in frontier' : \/ j \in frontier /\ j # i
                              \/ \E c \in Children(n) : j = Item(c, Compose(i.base, n))
  BY <1>1 DEF Visit, world, Item
<1>3. Dirty' = Dirty /\ \A m : Chain(m)' = Chain(m)
  BY <1>2 DEF Dirty, Chain, Ancestors
<1>4. /\ Single(missing')
      /\ \A r \in missing' : r \in missing \/ r.node = n
      /\ Later(n)' = Compose(i.base, n)
      /\ \A m \in Node : m # n => Later(m)' = Later(m)
      /\ \A m \in Node : parent[m] # n => LaterBase(m)' = LaterBase(m)
      /\ \A m \in Node : parent[m] = n => LaterBase(m)' = Compose(i.base, n)
  BY <1>1, VisitLater
<1>5. \A m, b : Compose(b, m)' = Compose(b, m)
  BY <1>2 DEF Compose
<1>6. \A m : Compose(LaterBase(m), m)' = Compose(LaterBase(m)', m)
  BY <1>2 DEF Compose
<1>7. \A m \in Node : /\ m \in Chain(m) /\ m \notin Ancestors(m)
                      /\ parent[m] # None => parent[m] \in Chain(m) /\ parent[m] \in Ancestors(m)
                      /\ \A k \in Chain(m) : Chain(k) \subseteq Chain(m)
  BY ChainFacts
<1>8. \A r \in missing' : r.node \in visited'
  BY <1>2, <1>4 DEF Based
<1>9. ASSUME NEW j \in frontier' PROVE j.base = LaterBase(j.node)'
  <2>1. CASE j \in frontier /\ j # i
    <3>1. j.node \in Node /\ n \notin Chain(j.node) /\ j.base = LaterBase(j.node)
      BY <1>1, <2>1 DEF PassTypes, Result, Apart, Based
    <3>2. parent[j.node] # n
      BY <1>7, <3>1, TransformsAssumption
    <3>3. \A m \in Node : m = j.node => LaterBase(m)' = j.base
      BY <1>4, <3>1, <3>2
    <3>4. PICK m \in Node : m = j.node
      BY <3>1
    <3> QED
      BY <3>3, <3>4
  <2>2. ASSUME NEW c \in Children(n), j = Item(c, Compose(i.base, n)) PROVE j.base = LaterBase(j.node)'
    <3>1. c \in Node /\ parent[c] = n
      BY DEF Children, PassTypes
    <3>2. j.node = c /\ j.base = Compose(i.base, n)
      BY <2>2 DEF Item
    <3>3. LaterBase(c)' = Compose(i.base, n)
      BY <1>4, <3>1
    <3> QED
      BY <3>2, <3>3
  <2> QED
    BY <1>2, <2>1, <2>2
<1>10. ASSUME NEW v \in visited' PROVE Later(v)' = Compose(LaterBase(v), v)'
  <2>1. CASE v = n
    <3>1. i.base = LaterBase(n)
      BY <1>1 DEF Based
    <3>2. parent[n] # n
      BY <1>7, TransformsAssumption
    <3>3. LaterBase(n)' = i.base
      BY <1>4, <3>1, <3>2
    <3>4. Later(n)' = Compose(LaterBase(n)', n)
      BY <1>4, <3>3
    <3> QED
      BY <1>6, <2>1, <3>4
  <2>2. CASE v \in visited
    <3>1. v \in Node /\ n \notin Chain(v) /\ Later(v) = Compose(LaterBase(v), v)
      BY <1>1, <2>2 DEF Apart, Based, PassTypes
    <3>2. v # n /\ parent[v] # n
      BY <1>7, <3>1, TransformsAssumption
    <3>3. Later(v)' = Later(v) /\ LaterBase(v)' = LaterBase(v)
      BY <1>4, <3>1, <3>2
    <3> QED
      BY <1>6, <3>1, <3>3
  <2> QED
    BY <1>2, <2>1, <2>2
<1>11. ASSUME NEW v \in alive, Settled(v)' PROVE Later(v)' = Compose(LaterBase(v), v)'
  <2>1. Settled(v)
    BY <1>2, <1>3, <1>11 DEF Settled
  <2>2. v \in Node /\ Later(v) = Compose(LaterBase(v), v)
    BY <2>1 DEF Based, PassTypes
  <2>3. n \notin Chain(v)
    <3>1. PICK d \in Chain(n) : d \in Dirty
      BY <1>1 DEF Apart
    <3> QED
      BY <1>7, <2>1, <2>2, <3>1 DEF Settled
  <2>4. v # n /\ parent[v] # n
    BY <1>7, <2>2, <2>3, TransformsAssumption
  <2>5. Later(v)' = Later(v) /\ LaterBase(v)' = LaterBase(v)
    BY <1>4, <2>2, <2>4
  <2> QED
    BY <1>6, <2>2, <2>5
<1> QED
  BY <1>2, <1>4, <1>8, <1>9, <1>10, <1>11 DEF Based

LEMMA VisitReached ==
    ASSUME PassTypes, Linked, Apart, Reached,
           NEW i \in frontier, Visit(i), local[i.node] # None
    PROVE  Reached'
<1>1. PICK n \in Node : n = i.node
  BY DEF PassTypes, Result
<1>2. /\ UNCHANGED <<alive, parent, local, changedAt, lastRun, moved>>
      /\ visited' = visited \cup {n}
      /\ frontier' = (frontier \ {i}) \cup {Item(c, Compose(i.base, n)) : c \in Children(n)}
  BY <1>1 DEF Visit, world, Item
<1>3. Dirty' = Dirty /\ \A m : Chain(m)' = Chain(m)
  BY <1>2 DEF Dirty, Chain, Ancestors
<1> SUFFICES ASSUME NEW m \in alive, \A k \in Chain(m) : local[k] # None,
                    NEW d \in Chain(m), d \in Dirty
             PROVE  m \in visited' \/ \E j \in frontier' : j.node \in Chain(m)
  BY <1>2, <1>3 DEF Reached
<1>4. m \in visited \/ \E j \in frontier : j.node \in Chain(m)
  BY DEF Reached
<1>5. CASE m \in visited
  BY <1>2, <1>5
<1>6. CASE \E j \in frontier : j # i /\ j.node \in Chain(m)
  BY <1>2, <1>6
<1>7. CASE n \in Chain(m) /\ m = n
  BY <1>2, <1>7
<1>8. CASE n \in Chain(m) /\ m # n
  <2>1. m \in Node /\ parent \in Links /\ Chain(m) = {m} \cup Above(parent, m)
    BY ChainFacts DEF PassTypes
  <2>2. PICK c \in {m} \cup Above(parent, m) : parent[c] = n
    BY <1>8, <2>1, AboveChild
  <2>3. c \in Children(n)
    BY <2>1, <2>2, ChainFacts, TransformsAssumption DEF Children, Linked
  <2>4. Item(c, Compose(i.base, n)) \in frontier' /\ Item(c, Compose(i.base, n)).node = c
    BY <1>2, <2>3 DEF Item
  <2> QED
    BY <2>1, <2>2, <2>4
<1> QED
  BY <1>1, <1>4, <1>5, <1>6, <1>7, <1>8

-----------------------------------------------------------------------------
\* The pass is over: what it was to write is there.
LEMMA EndPassStep ==
    ASSUME PassTypes, Stamped, Apart, Based, Reached, EndPass PROVE GlobalsExact'
<1>1. /\ UNCHANGED <<alive, parent, local, changedAt, moved>>
      /\ phase = "descent" /\ frontier = {} /\ lastRun' = thisRun
      /\ global' = Inserted(global, missing)
  BY DEF EndPass, world
<1>2. \A n : Chain(n)' = Chain(n)
  BY <1>1 DEF Chain, Ancestors
<1> SUFFICES ASSUME NEW n \in alive, Settled(n)' PROVE global'[n] = Compose(Base(n), n)'
  BY <1>1 DEF GlobalsExact
<1>3. \A m \in Chain(n) : local[m] # None /\ m \notin moved
  BY <1>1, <1>2 DEF Settled
<1>4. Later(n) = Compose(LaterBase(n), n)
  <2>1. CASE \E d \in Chain(n) : d \in Dirty
    <3>1. n \in visited
      BY <1>1, <1>3, <2>1 DEF Reached
    <3> QED
      BY <3>1 DEF Based
  <2>2. CASE \A d \in Chain(n) : d \notin Dirty
    <3>1. Settled(n)
      BY <1>3, <2>2 DEF Settled
    <3> QED
      BY <3>1 DEF Based
  <2> QED
    BY <2>1, <2>2
<1>5. Base(n)' = LaterBase(n)
  BY <1>1 DEF Base, LaterBase, Later, Identity
<1>6. global'[n] = Later(n)
  BY <1>1 DEF Later
<1>7. Compose(Base(n), n)' = Compose(LaterBase(n), n)
  BY <1>1, <1>5 DEF Compose
<1> QED
  BY <1>4, <1>6, <1>7

LEMMA InitPassInv == InitTransforms => PassInv
<1> SUFFICES ASSUME InitTransforms PROVE PassInv
  OBVIOUS
<1>1. PassTypes /\ Stamped /\ Rest
  BY DEF InitTransforms, PassTypes, Stamped, Rest
<1>2. Linked
  BY TransformsAssumption DEF InitTransforms, Linked, Grounded
<1>3. GlobalsExact /\ Descent
  BY DEF InitTransforms, GlobalsExact, Descent
<1> QED
  BY <1>1, <1>2, <1>3 DEF PassInv

LEMMA NextPassInv == ASSUME PassInv, [NextTransforms]_transformVars PROVE PassInv'
<1>1. PassTypes /\ Stamped /\ Linked /\ Rest /\ GlobalsExact /\ Descent
  BY DEF PassInv
<1>2. PassTypes' /\ Stamped' /\ Linked'
  BY <1>1, PassTypesStep, StampedStep, LinkedStep
<1>3. ASSUME NEW n \in Node, EditOf(n) PROVE Rest' /\ GlobalsExact' /\ Descent'
  <2>1. phase = "idle" /\ UNCHANGED <<phase, frontier, missing, visited>>
    BY <1>3, EditFrame DEF pass
  <2>2. GlobalsExact'
    BY <1>1, <1>2, <1>3, EditExact
  <2> QED
    BY <1>1, <2>1, <2>2 DEF Rest, Descent
<1>4. CASE BeginPass
  <2>1. phase' = "descent"
    BY <1>4 DEF BeginPass
  <2>2. Apart' /\ Based' /\ Reached'
    BY <1>1, <1>4, BeginPassStep
  <2>3. Rest' /\ GlobalsExact' /\ Descent'
    BY <2>1, <2>2 DEF Rest, GlobalsExact, Descent
  <2> QED
    BY <1>2, <2>3 DEF PassInv
<1>5. CASE EndPass
  <2>1. /\ phase = "descent" /\ phase' = "idle" /\ frontier' = {} /\ missing' = {} /\ visited' = {}
    BY <1>5 DEF EndPass
  <2>2. Apart /\ Based /\ Reached
    BY <1>1, <2>1 DEF Descent
  <2>3. GlobalsExact'
    BY <1>1, <1>5, <2>2, EndPassStep
  <2>4. Rest' /\ Descent'
    BY <2>1 DEF Rest, Descent
  <2> QED
    BY <1>2, <2>3, <2>4 DEF PassInv
<1>6. ASSUME NEW i \in frontier, Visit(i) PROVE Rest' /\ GlobalsExact' /\ Descent'
  <2>1. phase = "descent" /\ phase' = "descent"
    BY <1>6 DEF Visit
  <2>2. Apart /\ Based /\ Reached
    BY <1>1, <2>1 DEF Descent
  <2>3. Apart' /\ Based' /\ Reached'
    BY <1>1, <1>6, <2>2, VisitHole, VisitApart, VisitBased, VisitReached
  <2> QED
    BY <2>1, <2>3 DEF Rest, GlobalsExact, Descent
<1>7. CASE UNCHANGED transformVars
  BY <1>1, <1>7 DEF transformVars, world, pass, PassInv, PassTypes, Stamped, Linked, Rest,
     GlobalsExact, Settled, Chain, Ancestors, Dirty, Base, Compose, Descent, Apart, Based,
     Reached, Later, LaterBase
<1> QED
  BY <1>2, <1>3, <1>4, <1>5, <1>6, <1>7, NextKinds DEF PassInv

LEMMA PassInvariance == SpecTransforms => []PassInv
<1>1. InitTransforms => PassInv
  BY InitPassInv
<1>2. PassInv /\ [NextTransforms]_transformVars => PassInv'
  BY NextPassInv
<1> QED
  BY <1>1, <1>2, PTL DEF SpecTransforms

\* Whatever the entities, their hierarchy and the edits, and however the threads of
\* a descent take turns: between passes, an entity on whose way up nothing has
\* changed, nor been moved unannounced, nor lacks a transform, has the world
\* transform of its parent composed with its own.
THEOREM WorldTransformsAreExact == SpecTransforms => []GlobalsExact
<1>1. PassInv => GlobalsExact
  BY DEF PassInv
<1> QED
  BY <1>1, PassInvariance, PTL

\* Whatever the hierarchy, the threads of a descent never write the same entity:
\* none is computed twice, waits twice, or waits below another that waits.
THEOREM DescentsStayApart == SpecTransforms => []RowsAreApart
<1>1. ASSUME PassInv PROVE RowsAreApart
  <2> SUFFICES ASSUME NEW i \in frontier, NEW j \in frontier
               PROVE  i.node \notin visited /\ (i # j => i.node \notin Subtree(j.node))
    BY DEF RowsAreApart
  <2>1. Apart
    BY <1>1 DEF PassInv, PassTypes, Rest, Descent
  <2>2. i.node \in Chain(i.node) /\ j.node \in Chain(j.node)
    BY DEF Chain
  <2>3. i # j => j.node \notin Chain(i.node) /\ i.node # j.node
    BY <2>1, <2>2 DEF Apart
  <2>4. i # j => i.node \notin Subtree(j.node)
    BY <2>3 DEF Subtree, Chain
  <2> QED
    BY <2>1, <2>2, <2>4 DEF Apart
<1> QED
  BY <1>1, PassInvariance, PTL

-----------------------------------------------------------------------------
(* No change is passed over, if no local transform is lacking.             *)

Whole == \A n \in alive : local[n] # None

\* The world transform ends in the latest local one.
Fresh(n) == Later(n) # None /\ Later(n)[Len(Later(n))] = <<n, local[n]>>

\* The inductive invariant: what has not changed is fresh, and so is what has, as
\* soon as the pass has computed it.
FreshInv == Whole /\ \A n \in alive : n \notin Dirty \/ n \in visited => Fresh(n)

LEMMA ComposeEnds ==
    ASSUME PassTypes, NEW n \in Node, local[n] # None, NEW base \in Transform
    PROVE  Compose(base, n) # None /\ Compose(base, n)[Len(Compose(base, n))] = <<n, local[n]>>
<1>1. <<n, local[n]>> \in Node \X Version
  BY DEF PassTypes
<1>2. /\ Append(base, <<n, local[n]>>) \in Transform
      /\ Len(Append(base, <<n, local[n]>>)) = Len(base) + 1
      /\ Append(base, <<n, local[n]>>)[Len(base) + 1] = <<n, local[n]>>
  BY <1>1 DEF Transform
<1> QED
  BY <1>2, TransformsAssumption DEF Compose, Transform

\* Between passes the world transforms are all there.
LEMMA RestLater == ASSUME missing = {}, NEW n \in Node PROVE Later(n) = global[n]
BY DEF Later, Inserted

LEMMA WholeStep ==
    ASSUME ~Holes, PassTypes, Whole, [NextTransforms]_transformVars PROVE Whole'
<1>1. ASSUME NEW n \in Node, EditOf(n) PROVE Whole'
  <2>1. CASE Spawn(n) \/ Write(n)
    <3>1. PICK v \in Version : local' = [local EXCEPT ![n] = v]
      BY <2>1 DEF Spawn, Write, Locals
    <3>2. v # None /\ alive' \subseteq alive \cup {n}
      BY <2>1, TransformsAssumption DEF Spawn, Write
    <3> QED
      BY <3>1, <3>2 DEF Whole, PassTypes
  <2>2. CASE Strip(n)
    BY <2>2 DEF Strip
  <2>3. CASE Detach(n) \/ \E p \in Node : Attach(n, p)
    BY <2>3 DEF Detach, Attach, Whole
  <2>4. CASE Despawn(n)
    BY <2>4 DEF Despawn, Without, Whole, PassTypes
  <2> QED
    BY <1>1, <2>1, <2>2, <2>3, <2>4 DEF EditOf
<1>2. CASE BeginPass \/ EndPass \/ (\E i \in frontier : Visit(i)) \/ UNCHANGED transformVars
  <2>1. local' = local /\ alive' = alive
    BY <1>2 DEF BeginPass, EndPass, Visit, transformVars, world
  <2> QED
    BY <2>1 DEF Whole
<1> QED
  BY <1>1, <1>2, NextKinds

LEMMA EditFresh ==
    ASSUME ~Holes, PassInv, PassInv', FreshInv, Whole', NEW x \in Node, EditOf(x)
    PROVE  FreshInv'
<1>1. /\ phase = "idle" /\ lastRun' = lastRun /\ lastRun < currentTick
      /\ missing = {} /\ visited = {} /\ missing' = {} /\ visited' = {}
      /\ PassTypes /\ PassTypes'
  BY EditFrame DEF PassInv, Stamped, Rest, pass
<1> SUFFICES ASSUME NEW n \in alive', n \notin Dirty' PROVE Fresh(n)'
  BY <1>1 DEF FreshInv
<1>2. n \in Node /\ local'[n] # None /\ ~(changedAt'[n] > lastRun)
  BY <1>1 DEF Whole, Dirty, PassTypes
<1>3. n \in alive /\ local'[n] = local[n] /\ global'[n] = global[n] /\ changedAt'[n] = changedAt[n]
  <2>1. CASE Spawn(x) \/ Write(x)
    <3>1. /\ changedAt' = [changedAt EXCEPT ![x] = currentTick]
          /\ \E v : local' = [local EXCEPT ![x] = v]
          /\ global' = global /\ alive' \subseteq alive \cup {x}
      BY <2>1 DEF Spawn, Write
    <3>2. n # x
      BY <1>1, <1>2, <3>1 DEF PassTypes
    <3> QED
      BY <1>1, <1>2, <3>1, <3>2 DEF PassTypes
  <2>2. CASE Strip(x)
    BY <2>2 DEF Strip
  <2>3. CASE Detach(x) \/ \E p \in Node : Attach(x, p)
    BY <2>3 DEF Detach, Attach
  <2>4. CASE Despawn(x)
    BY <1>2, <2>4 DEF Despawn, Without
  <2> QED
    BY <2>1, <2>2, <2>3, <2>4 DEF EditOf
<1>4. Fresh(n)
  BY <1>1, <1>2, <1>3 DEF FreshInv, Dirty
<1>5. Later(n)' = Later(n)
  <2>1. \A m \in Node : Inserted(global, missing)[m] = global[m]
    BY <1>1 DEF Inserted
  <2>2. \A m \in Node : Inserted(global', missing')[m] = global'[m]
    BY <1>1 DEF Inserted
  <2> QED
    BY <1>2, <1>3, <2>1, <2>2 DEF Later
<1> QED
  BY <1>3, <1>4, <1>5 DEF Fresh

LEMMA BeginFresh ==
    ASSUME PassInv, FreshInv, Whole', BeginPass PROVE FreshInv'
<1>1. /\ UNCHANGED <<alive, parent, local, changedAt, lastRun>>
      /\ missing = {} /\ PassTypes /\ Linked
  BY DEF BeginPass, world, PassInv, Rest
<1>2. Dirty' = Dirty
  BY <1>1 DEF Dirty
<1> SUFFICES ASSUME NEW n \in alive, n \notin Dirty \/ n \in visited' PROVE Fresh(n)'
  BY <1>1, <1>2 DEF FreshInv
<1>3. n \in Node /\ local[n] # None
  BY <1>1 DEF PassTypes, FreshInv, Whole
<1>4. /\ n \in Dirty /\ Simple(n) => Later(n)' = Compose(Identity, n)
      /\ ~(n \in Dirty /\ Simple(n)) => Later(n)' = global[n]
  BY <1>1, <1>3, BeginLater
<1>5. CASE n \in Dirty /\ Simple(n)
  <2>1. Identity \in Transform
    BY DEF Identity, Transform
  <2> QED
    BY <1>1, <1>3, <1>4, <1>5, <2>1, ComposeEnds DEF Fresh
<1>6. CASE ~(n \in Dirty /\ Simple(n))
  <2>1. visited' = {r.node : r \in {Item(m, Compose(Identity, m)) : m \in {k \in Dirty : Simple(k)}}}
    BY DEF BeginPass
  <2>2. n \notin visited'
    BY <1>6, <2>1 DEF Item
  <2>3. Fresh(n) /\ Later(n) = global[n]
    BY <1>1, <1>3, <2>2, RestLater DEF FreshInv
  <2> QED
    BY <1>1, <1>4, <1>6, <2>3 DEF Fresh
<1> QED
  BY <1>5, <1>6

LEMMA VisitFresh ==
    ASSUME PassInv, FreshInv, Whole', NEW i \in frontier, Visit(i) PROVE FreshInv'
<1>1. /\ UNCHANGED <<alive, parent, local, changedAt, lastRun>>
      /\ PassTypes /\ Linked /\ Apart /\ Based
  BY DEF Visit, world, PassInv, Descent
<1>2. Dirty' = Dirty
  BY <1>1 DEF Dirty
<1>3. i.node \in alive /\ i.node \in Node /\ local[i.node] # None /\ i.base \in Transform
  BY <1>1 DEF Apart, FreshInv, Whole, PassTypes, Result
<1>4. visited' = visited \cup {i.node}
  BY <1>3 DEF Visit
<1>5. /\ Later(i.node)' = Compose(i.base, i.node)
      /\ \A m \in Node : m # i.node => Later(m)' = Later(m)
  BY <1>1, <1>3, VisitLater
<1> SUFFICES ASSUME NEW n \in alive, n \notin Dirty \/ n \in visited' PROVE Fresh(n)'
  BY <1>1, <1>2 DEF FreshInv
<1>6. CASE n = i.node
  <2>1. Compose(i.base, n) # None /\ Compose(i.base, n)[Len(Compose(i.base, n))] = <<n, local[n]>>
    BY <1>1, <1>3, <1>6, ComposeEnds
  <2>2. Later(n)' = Compose(i.base, n)
    BY <1>5, <1>6
  <2> QED
    BY <1>1, <2>1, <2>2 DEF Fresh
<1>7. CASE n # i.node
  <2>1. Fresh(n)
    BY <1>4, <1>7 DEF FreshInv
  <2>2. Later(n)' = Later(n)
    BY <1>1, <1>5, <1>7 DEF PassTypes
  <2> QED
    BY <1>1, <2>1, <2>2 DEF Fresh
<1> QED
  BY <1>6, <1>7

LEMMA EndFresh ==
    ASSUME PassInv, FreshInv, Whole', EndPass PROVE FreshInv'
<1>1. /\ UNCHANGED <<alive, parent, local, changedAt>>
      /\ frontier = {} /\ missing' = {} /\ visited' = {}
      /\ global' = Inserted(global, missing)
      /\ PassTypes /\ Linked /\ Reached
  BY DEF EndPass, world, PassInv, Descent
<1> SUFFICES ASSUME NEW n \in alive PROVE Fresh(n)'
  BY <1>1 DEF FreshInv
<1>2. n \in Node /\ parent \in Links /\ Chain(n) = {n} \cup Above(parent, n)
  BY <1>1, ChainFacts DEF PassTypes
<1>3. \A m \in Chain(n) : local[m] # None
  <2>1. \A m \in Node : parent[m] # None => parent[m] \in alive
    BY <1>1 DEF Linked
  <2>2. \A m \in Above(parent, n) : m \in alive
    BY <1>2, <2>1, AboveAlive
  <2> QED
    BY <1>2, <2>2 DEF FreshInv, Whole
<1>4. n \notin Dirty \/ n \in visited
  BY <1>1, <1>2, <1>3 DEF Reached
<1>5. Fresh(n)
  BY <1>4 DEF FreshInv
<1>6. Later(n)' = Later(n)
  <2>1. \A m \in Node : Inserted(global', missing')[m] = global'[m]
    BY <1>1 DEF Inserted
  <2> QED
    BY <1>1, <1>2, <2>1 DEF Later
<1> QED
  BY <1>1, <1>5, <1>6 DEF Fresh

LEMMA NextFreshInv ==
    ASSUME ~Holes, PassInv, PassInv', FreshInv, [NextTransforms]_transformVars PROVE FreshInv'
<1>1. Whole'
  BY WholeStep DEF PassInv, FreshInv
<1>2. CASE UNCHANGED transformVars
  BY <1>2 DEF transformVars, world, pass, FreshInv, Whole, Fresh, Later, Dirty
<1> QED
  BY <1>1, <1>2, EditFresh, BeginFresh, VisitFresh, EndFresh, NextKinds

\* "Recomputes GlobalTransform for every entity whose LocalTransform changed"
\* holds as long as no entity is without a LocalTransform: after every pass, whatever
\* the hierarchy, what has changed and who was moved, each entity that has not
\* changed since has a world transform that ends in its latest local one.
THEOREM NoChangePassedOver == ASSUME ~Holes PROVE SpecTransforms => []ChangesApplied
<1>1. InitTransforms => PassInv /\ FreshInv
  BY InitPassInv DEF InitTransforms, FreshInv, Whole
<1>2. PassInv /\ FreshInv /\ [NextTransforms]_transformVars => PassInv' /\ FreshInv'
  BY NextPassInv, NextFreshInv
<1>3. ASSUME PassInv, FreshInv PROVE ChangesApplied
  <2> SUFFICES ASSUME phase = "idle", NEW n \in alive, n \notin Dirty
               PROVE  global[n] # None /\ global[n][Len(global[n])] = <<n, local[n]>>
    BY DEF ChangesApplied
  <2>1. n \in Node /\ missing = {}
    BY <1>3 DEF PassInv, PassTypes, Rest
  <2>2. Fresh(n)
    BY <1>3 DEF FreshInv
  <2> QED
    BY <2>1, <2>2, RestLater DEF Fresh
<1> QED
  BY <1>1, <1>2, <1>3, PTL DEF SpecTransforms

=============================================================================
