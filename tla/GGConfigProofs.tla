--------------------------- MODULE GGConfigProofs ---------------------------
(***************************************************************************)
(* What the operations on a configuration return, and what becomes of it   *)
(* on the way through its file: the facts the other proofs rest on.        *)
(***************************************************************************)
EXTENDS ConfigFile, WellFoundedInduction, FiniteSetTheorems, SequenceTheorems, FunctionTheorems,
        TLAPS

\* A set of natural numbers that is not empty has a least element.
LEMMA LeastElement ==
  ASSUME NEW T \in SUBSET Nat, T # {}
  PROVE  \E x \in T : \A y \in T : x <= y
<1> DEFINE R == OpToRel(<, Nat)
<1>1. IsWellFoundedOn(R, Nat)
  BY NatLessThanWellFounded
<1>2. \A x, y \in Nat : x < y => <<x, y>> \in R
  BY Zenon DEF OpToRel
<1> HIDE DEF R
<1>3. \E x \in T : \A y \in T : ~ (<<y, x>> \in R)
  BY <1>1, WFMin, Zenon
<1>4. PICK x \in T : \A y \in T : ~ (<<y, x>> \in R)
  BY <1>3
<1>5. \A y \in T : ~ (y < x)
  BY <1>2, <1>4, Zenon
<1> QED
  BY <1>5

\* Whatever a TOTP or HOTP call hits, Min picks the least hit.
LEMMA MinIsLeast ==
  ASSUME NEW S \in SUBSET Nat, S # {}
  PROVE  Min(S) \in S /\ \A y \in S : Min(S) <= y
<1>1. \E x \in S : \A y \in S : x <= y
  BY LeastElement
<1> QED
  BY <1>1 DEF Min

LEMMA MaxIsGreatest ==
  ASSUME NEW S \in SUBSET Int, NEW n \in S, \A y \in S : y <= n
  PROVE  Max(S) = n
<1>1. n \in Int /\ \A y \in S : n >= y
  OBVIOUS
<1>2. ASSUME NEW x \in S, \A y \in S : x >= y
      PROVE  x = n
  <2>1. x \in Int /\ x >= n /\ x <= n
    BY <1>1, <1>2
  <2> QED
    BY <1>1, <2>1
<1> QED
  BY <1>1, <1>2 DEF Max

LEMMA StepType ==
  ASSUME NEW c \in Config
  PROVE  Step(c) \in Nat \ {0} /\ Window(c) \in Nat \ {0}
  BY DEF Config, Step, Window, DefaultStepSize, DefaultWindow

LEMMA UseScratchCodeType ==
  ASSUME NEW c \in Config, NEW code \in ScratchCodes, HasScratchCode(c, code)
  PROVE  UseScratchCode(c, code) \in Config
<1> DEFINE left == [c.scratch EXCEPT ![code] = @ - 1]
<1>1. c.scratch \in [ScratchCodes -> Nat]
  BY DEF Config
<1>2. left \in [ScratchCodes -> Nat]
  BY <1>1 DEF HasScratchCode
<1>3. UseScratchCode(c, code) = [c EXCEPT !.scratch = left, !.dirty = TRUE]
  BY DEF UseScratchCode
<1> QED
  BY <1>2, <1>3 DEF Config

LEMMA ResetDisallowListType ==
  ASSUME NEW c \in Config, NEW centre \in Int, NEW window \in Nat
  PROVE  ResetDisallowList(c, centre, window) \in Config
  BY DEF Config, ResetDisallowList

LEMMA RecordUsedTimestampType ==
  ASSUME NEW c \in Config, NEW ts \in Int
  PROVE  RecordUsedTimestamp(c, ts) \in Config
  BY DEF Config, RecordUsedTimestamp
-----------------------------------------------------------------------------
(***************************************************************************)
(* The rate limiter, on stamps in order, none of them later than the call. *)
(***************************************************************************)

\* The stamps a process leaves when its clock is not set back.
StampsInOrder(c, now) ==
  /\ InOrder(c.rateLimit.timestamps)
  /\ \A i \in DOMAIN c.rateLimit.timestamps : c.rateLimit.timestamps[i] <= now

\* In an ordered list that ends with hi, what lies in lo .. hi is a tail.
LEMMA BetweenIsTail ==
  ASSUME NEW s \in Seq(Int), s # << >>, InOrder(s),
         NEW lo \in Int, NEW hi \in Int, s[Len(s)] = hi, lo <= hi
  PROVE  \E m \in 1 .. Len(s) :
           /\ Between(s, lo, hi) = SubSeq(s, m, Len(s))
           /\ \A i \in 1 .. m - 1 : s[i] < lo
           /\ \A i \in m .. Len(s) : lo <= s[i]
<1> DEFINE kept == {i \in DOMAIN s : lo <= s[i] /\ s[i] <= hi}
<1>1. Len(s) \in Nat \ {0} /\ DOMAIN s = 1 .. Len(s)
  OBVIOUS
<1>2. \A i \in 1 .. Len(s) : s[i] \in Int
  OBVIOUS
<1>3. \A i, j \in 1 .. Len(s) : i <= j => s[i] <= s[j]
  BY <1>1 DEF InOrder
<1>4. \A i \in 1 .. Len(s) : i \in kept <=> lo <= s[i]
  BY <1>1, <1>2, <1>3
<1>5. kept \in SUBSET (1 .. Len(s)) /\ Len(s) \in kept
  BY <1>1, <1>2, <1>4
<1>6. Between(s, lo, hi) = SubSeq(s, Min(kept), Max(kept))
  BY DEF Between
<1> HIDE DEF kept
<1>7. Max(kept) = Len(s)
  <2>1. kept \in SUBSET Int /\ \A y \in kept : y <= Len(s)
    BY <1>1, <1>5
  <2> QED
    BY <1>5, <2>1, MaxIsGreatest
<1>8. Min(kept) \in kept /\ \A y \in kept : Min(kept) <= y
  BY <1>1, <1>5, MinIsLeast
<1>9. PICK m \in 1 .. Len(s) : m = Min(kept)
  BY <1>5, <1>8
<1>10. m \in kept /\ m \in Nat /\ \A y \in kept : m <= y
  BY <1>8, <1>9
<1>11. ASSUME NEW i \in 1 .. m - 1
       PROVE  s[i] < lo
  <2>1. i \in 1 .. Len(s) /\ i < m
    BY <1>1, <1>9, <1>10
  <2>2. i \notin kept
    BY <1>10, <2>1
  <2> QED
    BY <1>2, <1>4, <2>1, <2>2
<1>12. ASSUME NEW i \in m .. Len(s)
       PROVE  lo <= s[i]
  <2>1. lo <= s[m]
    BY <1>4, <1>9, <1>10
  <2>2. i \in 1 .. Len(s) /\ m <= i
    BY <1>1, <1>9, <1>10
  <2>3. s[m] <= s[i]
    BY <1>3, <1>9, <2>2
  <2> QED
    BY <1>2, <1>9, <2>1, <2>2, <2>3
<1> QED
  BY <1>6, <1>7, <1>9, <1>11, <1>12

LEMMA LastOfAppend ==
  ASSUME NEW s \in Seq(Int), NEW t \in Int
  PROVE  /\ Append(s, t) \in Seq(Int)
         /\ Append(s, t) # << >>
         /\ Append(s, t)[Len(Append(s, t))] = t
<1>1. /\ Append(s, t) \in Seq(Int) /\ Append(s, t) # << >>
      /\ Len(Append(s, t)) = Len(s) + 1
      /\ Append(s, t)[Len(s) + 1] = t
  BY AppendProperties
<1> QED
  BY <1>1, Zenon

\* The part of a list from m on.
LEMMA TailProperties ==
  ASSUME NEW s \in Seq(Int), NEW m \in 1 .. Len(s)
  PROVE  /\ SubSeq(s, m, Len(s)) \in Seq(Int)
         /\ Len(SubSeq(s, m, Len(s))) = Len(s) - m + 1
         /\ \A i \in 1 .. Len(s) - m + 1 : SubSeq(s, m, Len(s))[i] = s[m + i - 1]
<1>1. /\ \A i \in m .. Len(s) : s[i] \in Int
      /\ m \in Int /\ Len(s) \in Int /\ m <= Len(s)
  OBVIOUS
<1>2. /\ SubSeq(s, m, Len(s)) \in Seq(Int)
      /\ Len(SubSeq(s, m, Len(s)))
           = IF m <= Len(s) THEN Len(s) - m + 1 ELSE 0
      /\ \A i \in 1 .. Len(s) - m + 1 : SubSeq(s, m, Len(s))[i] = s[m + i - 1]
  BY <1>1, SubSeqProperties, SMTT(30)
<1> QED
  BY <1>1, <1>2, Zenon

\* A call whose time is not before the stamps goes to the end of the list.
LEMMA AppendInOrder ==
  ASSUME NEW s \in Seq(Int), NEW t \in Int, InOrder(s),
         \A i \in DOMAIN s : s[i] <= t
  PROVE  InOrder(Append(s, t))
<1>1. /\ Append(s, t) \in Seq(Int)
      /\ Len(Append(s, t)) = Len(s) + 1
      /\ Append(s, t)[Len(s) + 1] = t
      /\ \A i \in 1 .. Len(s) : Append(s, t)[i] = s[i]
  BY AppendProperties
<1>2. Len(s) \in Nat /\ DOMAIN s = 1 .. Len(s)
      /\ DOMAIN Append(s, t) = 1 .. Len(s) + 1
      /\ \A i \in 1 .. Len(s) : s[i] \in Int
  BY <1>1
<1> SUFFICES ASSUME NEW i \in 1 .. Len(s) + 1, NEW j \in 1 .. Len(s) + 1, i <= j
             PROVE  Append(s, t)[i] <= Append(s, t)[j]
  BY <1>2 DEF InOrder
<1>3. CASE j = Len(s) + 1
  BY <1>1, <1>2, <1>3
<1>4. CASE j # Len(s) + 1
  <2>1. i \in 1 .. Len(s) /\ j \in 1 .. Len(s)
    BY <1>2, <1>4
  <2> QED
    BY <1>1, <1>2, <2>1 DEF InOrder
<1> QED
  BY <1>3, <1>4

\* The recent attempts are the tail of the list that starts where the stamps
\* become recent, and the call itself is the last of them.
LEMMA RecentIsTail ==
  ASSUME NEW c \in Config, NEW now \in Int, StampsInOrder(c, now)
  PROVE  LET s == Append(c.rateLimit.timestamps, now)
         IN  \E m \in 1 .. Len(s) :
               /\ RecentAttempts(c, now) = SubSeq(s, m, Len(s))
               /\ \A i \in 1 .. m - 1 : s[i] < now - c.rateLimit.interval
               /\ \A i \in m .. Len(s) : now - c.rateLimit.interval <= s[i]
<1> DEFINE s == Append(c.rateLimit.timestamps, now)
<1>1. c.rateLimit.timestamps \in Seq(Int) /\ c.rateLimit.interval \in Nat
  BY DEF Config, RateLimit
<1>2. s \in Seq(Int) /\ s # << >> /\ s[Len(s)] = now
  BY <1>1, LastOfAppend, Zenon
<1>3. InOrder(s)
  BY <1>1, AppendInOrder DEF StampsInOrder
<1>4. Sorted(s) = s
  BY <1>3 DEF Sorted
<1>5. RecentAttempts(c, now) = Between(s, now - c.rateLimit.interval, now)
  BY <1>4 DEF RecentAttempts
<1>6. now - c.rateLimit.interval \in Int /\ now - c.rateLimit.interval <= now
  BY <1>1
<1> HIDE DEF s
<1>7. \E m \in 1 .. Len(s) :
        /\ RecentAttempts(c, now) = SubSeq(s, m, Len(s))
        /\ \A i \in 1 .. m - 1 : s[i] < now - c.rateLimit.interval
        /\ \A i \in m .. Len(s) : now - c.rateLimit.interval <= s[i]
  BY <1>2, <1>3, <1>5, <1>6, BetweenIsTail
<1> QED
  BY <1>7 DEF s

LEMMA NewestIsTail ==
  ASSUME NEW s \in Seq(Int), NEW n \in 1 .. Len(s)
  PROVE  /\ Newest(s, n) \in Seq(Int)
         /\ Len(Newest(s, n)) = n
         /\ \A i \in 1 .. n : Newest(s, n)[i] = s[Len(s) - n + i]
<1>1. PICK k \in 1 .. Len(s) : k = Len(s) - n + 1
  OBVIOUS
<1>3. Len(s) - k + 1 = n
  BY <1>1
<1>4. /\ SubSeq(s, k, Len(s)) \in Seq(Int)
      /\ Len(SubSeq(s, k, Len(s))) = n
      /\ \A i \in 1 .. n : SubSeq(s, k, Len(s))[i] = s[k + i - 1]
  BY <1>3, TailProperties
<1>5. Newest(s, n) = SubSeq(s, k, Len(s))
  BY <1>1 DEF Newest
<1>6. \A i \in 1 .. n : k + i - 1 = Len(s) - n + i
  BY <1>1
<1> QED
  BY <1>4, <1>5, <1>6

\* The newest of a tail are the newest of the whole.
LEMMA NewestOfTail ==
  ASSUME NEW s \in Seq(Int), NEW m \in 1 .. Len(s),
         NEW t \in Seq(Int), t = SubSeq(s, m, Len(s)),
         NEW n \in 1 .. Len(t)
  PROVE  Newest(t, n) = Newest(s, n)
<1>1. Len(s) \in Nat /\ Len(t) \in Nat /\ m \in Nat /\ n \in Nat /\ n <= Len(t)
  OBVIOUS
<1>3. /\ Len(t) = Len(s) - m + 1
      /\ \A i \in 1 .. Len(s) - m + 1 : t[i] = s[m + i - 1]
  BY TailProperties, Zenon
<1>2. \A i \in 1 .. Len(t) : t[i] = s[m + i - 1]
  BY <1>3, Zenon
<1>4. n \in 1 .. Len(s)
  BY <1>1, <1>3
<1>5. ASSUME NEW i \in 1 .. n
      PROVE  Newest(t, n)[i] = Newest(s, n)[i]
  <2>1. i \in Nat /\ 1 <= i /\ i <= n
    BY <1>1
  <2>2. Len(t) - n + i \in 1 .. Len(t) /\ m + (Len(t) - n + i) - 1 = Len(s) - n + i
    BY <1>1, <1>3, <2>1
  <2>3. t[Len(t) - n + i] = s[Len(s) - n + i]
    BY <1>2, <2>2
  <2>4. Newest(t, n)[i] = t[Len(t) - n + i]
    BY NewestIsTail
  <2>5. Newest(s, n)[i] = s[Len(s) - n + i]
    BY <1>4, NewestIsTail
  <2> QED
    BY <2>3, <2>4, <2>5
<1>6. /\ Newest(t, n) \in Seq(Int) /\ Len(Newest(t, n)) = n
      /\ Newest(s, n) \in Seq(Int) /\ Len(Newest(s, n)) = n
  BY <1>4, NewestIsTail
<1> QED
  BY <1>5, <1>6, SeqEqual

\* What EnforceRateLimit keeps is a tail of the list, and it drops nothing that
\* is recent unless it keeps as many stamps as the option allows attempts.
LEMMA EnforceRateLimitKeeps ==
  ASSUME NEW c \in Config, NEW now \in Int, StampsInOrder(c, now),
         HasRateLimit(c)
  PROVE  LET s    == Append(c.rateLimit.timestamps, now)
             lo   == now - c.rateLimit.interval
             kept == EnforceRateLimit(c, now).rateLimit.timestamps
         IN  \E k \in 1 .. Len(s) :
               /\ kept = SubSeq(s, k, Len(s))
               /\ Len(s) - k + 1 <= c.rateLimit.attempts
               /\ \/ k > 1 /\ s[k - 1] < lo /\ ~IsRateLimited(c, now)
                  \/ k = 1 /\ ~IsRateLimited(c, now)
                  \/ /\ Len(s) - k + 1 = c.rateLimit.attempts
                     /\ k > 1 /\ lo <= s[k - 1] /\ IsRateLimited(c, now)
<1> DEFINE s == Append(c.rateLimit.timestamps, now)
           lo == now - c.rateLimit.interval
           A == c.rateLimit.attempts
           recent == RecentAttempts(c, now)
           kept == EnforceRateLimit(c, now).rateLimit.timestamps
           Outcome ==
             \E k \in 1 .. Len(s) :
               /\ kept = SubSeq(s, k, Len(s))
               /\ Len(s) - k + 1 <= A
               /\ \/ k > 1 /\ s[k - 1] < lo /\ ~IsRateLimited(c, now)
                  \/ k = 1 /\ ~IsRateLimited(c, now)
                  \/ /\ Len(s) - k + 1 = A
                     /\ k > 1 /\ lo <= s[k - 1] /\ IsRateLimited(c, now)
<1>1. /\ c.rateLimit \in RateLimit /\ c.rateLimit.timestamps \in Seq(Int)
      /\ A \in Nat \ {0} /\ lo \in Int
  BY DEF Config, RateLimit, HasRateLimit
<1>2. s \in Seq(Int) /\ Len(s) \in Nat
  BY <1>1
<1>3. PICK m \in 1 .. Len(s) :
         /\ recent = SubSeq(s, m, Len(s))
         /\ \A i \in 1 .. m - 1 : s[i] < lo
         /\ \A i \in m .. Len(s) : lo <= s[i]
  BY RecentIsTail
<1>4. kept = IF IsRateLimited(c, now) THEN Newest(recent, A) ELSE recent
  BY <1>1 DEF EnforceRateLimit, HasRateLimit, Config, RateLimit
<1>5. IsRateLimited(c, now) <=> Len(recent) > A
  BY DEF IsRateLimited, HasRateLimit
<1> HIDE DEF s, lo, kept, recent, A, Outcome
<1>6. recent \in Seq(Int) /\ Len(recent) = Len(s) - m + 1
      /\ \A i \in 1 .. Len(recent) : recent[i] = s[m + i - 1]
  BY <1>2, <1>3, TailProperties
<1>7. ASSUME ~IsRateLimited(c, now)
      PROVE  Outcome
  <2>1. kept = SubSeq(s, m, Len(s))
    BY <1>3, <1>4, <1>7
  <2>2. m > 1 => s[m - 1] < lo
    BY <1>3
  <2>3. Len(s) - m + 1 <= A
    BY <1>1, <1>2, <1>5, <1>6, <1>7
  <2> QED
    BY <1>7, <2>1, <2>2, <2>3 DEF Outcome
<1>8. ASSUME IsRateLimited(c, now)
      PROVE  Outcome
  <2> DEFINE k == Len(s) - A + 1
  <2>1. k \in 1 .. Len(s) /\ m < k
    <3>1. A \in Nat \ {0} /\ A < Len(s) - m + 1
      BY <1>1, <1>5, <1>6, <1>8
    <3> QED
      BY <1>2, <3>1
  <2>2. kept = Newest(recent, A) /\ A \in 1 .. Len(recent)
    BY <1>1, <1>4, <1>5, <1>6, <1>8
  <2>3. kept = SubSeq(s, k, Len(s))
    <3>1. kept = Newest(s, A)
      BY <1>2, <1>3, <1>6, <2>2, NewestOfTail
    <3> QED
      BY <3>1 DEF Newest
  <2>4. lo <= s[k - 1]
    BY <1>3, <2>1
  <2>5. Len(s) - k + 1 = A /\ Len(s) - k + 1 <= A /\ k > 1
    BY <1>1, <1>2, <2>1
  <2> HIDE DEF k
  <2> QED
    BY <1>8, <2>1, <2>3, <2>4, <2>5 DEF Outcome
<1> QED
  BY <1>7, <1>8 DEF Outcome, s, lo, kept, A

\* The fields the rate limiter does not touch.
SameButRateLimit(c, d) ==
  /\ d.secret = c.secret /\ d.scratch = c.scratch
  /\ d.totpAuth = c.totpAuth /\ d.hotpConfigured = c.hotpConfigured
  /\ d.hotpCounter = c.hotpCounter
  /\ d.stepSize = c.stepSize /\ d.windowSize = c.windowSize
  /\ d.disallowReuse = c.disallowReuse /\ d.disallowed = c.disallowed
  /\ d.timeSkew = c.timeSkew /\ d.samples = c.samples
  /\ d.rateLimit.attempts = c.rateLimit.attempts
  /\ d.rateLimit.interval = c.rateLimit.interval

\* The stamps stay in order, none of them later than the call.
LEMMA EnforceRateLimitType ==
  ASSUME NEW c \in Config, NEW now \in Int, StampsInOrder(c, now)
  PROVE  /\ EnforceRateLimit(c, now) \in Config
         /\ StampsInOrder(EnforceRateLimit(c, now), now)
         /\ SameButRateLimit(c, EnforceRateLimit(c, now))
<1> DEFINE d == EnforceRateLimit(c, now)
           old == c.rateLimit.timestamps
           s == Append(old, now)
<1>1. CASE ~HasRateLimit(c)
  BY <1>1 DEF EnforceRateLimit, SameButRateLimit
<1>2. CASE HasRateLimit(c)
  <2>1. old \in Seq(Int) /\ s \in Seq(Int) /\ s[Len(s)] = now
    BY DEF Config, RateLimit
  <2>2. InOrder(s)
    BY <2>1, AppendInOrder DEF StampsInOrder
  <2>3. PICK k \in 1 .. Len(s) :
           d.rateLimit.timestamps = SubSeq(s, k, Len(s))
    BY <1>2, EnforceRateLimitKeeps
  <2> DEFINE kept == SubSeq(s, k, Len(s))
  <2>4. d = [c EXCEPT !.rateLimit = [c.rateLimit EXCEPT !.timestamps = kept],
                      !.dirty = TRUE]
    BY <1>2, <2>3 DEF EnforceRateLimit, Config, RateLimit
  <2> HIDE DEF s, d
  <2>5. Len(s) \in Nat /\ k \in Nat /\ \A i \in 1 .. Len(s) : s[i] \in Int
    BY <2>1
  <2>6. /\ kept \in Seq(Int) /\ Len(kept) = Len(s) - k + 1
        /\ \A i \in 1 .. Len(kept) : kept[i] = s[k + i - 1]
    BY <2>1, TailProperties
  <2>7. \A i, j \in 1 .. Len(s) : i <= j => s[i] <= s[j]
    BY <2>1, <2>2 DEF InOrder
  <2> HIDE DEF kept
  <2>8. ASSUME NEW i \in 1 .. Len(kept), NEW j \in 1 .. Len(kept), i <= j
        PROVE  kept[i] <= kept[j] /\ kept[i] <= s[Len(s)]
    <3>1. /\ k + i - 1 \in 1 .. Len(s) /\ k + j - 1 \in 1 .. Len(s)
          /\ k + i - 1 <= k + j - 1 /\ k + i - 1 <= Len(s)
          /\ Len(s) \in 1 .. Len(s)
      BY <2>5, <2>6, <2>8
    <3> QED
      BY <2>6, <2>7, <3>1
  <2>9. DOMAIN kept = 1 .. Len(kept)
    BY <2>6
  <2>10. InOrder(kept) /\ \A i \in DOMAIN kept : kept[i] <= now
    BY <2>1, <2>8, <2>9 DEF InOrder
  <2>11. [c.rateLimit EXCEPT !.timestamps = kept] \in RateLimit
    BY <2>6 DEF Config, RateLimit
  <2>12. d \in Config /\ d.rateLimit = [c.rateLimit EXCEPT !.timestamps = kept]
    BY <2>4, <2>11 DEF Config
  <2>13. StampsInOrder(d, now)
    BY <2>10, <2>12 DEF StampsInOrder, Config, RateLimit
  <2>14. SameButRateLimit(c, d)
    BY <2>4, <2>12 DEF SameButRateLimit, Config, RateLimit
  <2> QED
    BY <2>12, <2>13, <2>14 DEF d
<1> QED
  BY <1>1, <1>2

-----------------------------------------------------------------------------
(***************************************************************************)
(* The skew samples.                                                       *)
(***************************************************************************)

LEMMA WithSampleType ==
  ASSUME NEW s \in Seq(SkewSample), NEW ts \in Int, NEW skew \in Int
  PROVE  WithSample(s, ts, skew) \in Seq(SkewSample)
<1>1. [timestamp |-> ts, skew |-> skew] \in SkewSample
  BY DEF SkewSample
<1>2. CASE Len(s) = SkewSamplesNeeded
  <2>1. s # << >>
    <3>1. Len(s) # 0
      BY <1>2 DEF SkewSamplesNeeded
    <3> QED
      BY <3>1
  <2>2. Tail(s) \in Seq(SkewSample)
    BY <2>1
  <2> QED
    BY <1>1, <1>2, <2>2, AppendProperties DEF WithSample
<1>3. CASE Len(s) # SkewSamplesNeeded
  BY <1>1, <1>3, AppendProperties DEF WithSample
<1> QED
  BY <1>2, <1>3

LEMMA AverageSkewType ==
  ASSUME NEW s \in Seq(SkewSample), Len(s) = SkewSamplesNeeded
  PROVE  AverageSkew(s) \in Int
<1> DEFINE Samples == SkewSample
<1>1. Len(s) = 3 /\ s \in Seq(Samples)
  BY DEF SkewSamplesNeeded
<1> HIDE DEF Samples
<1>2. \A i \in 1 .. 3 : s[i] \in Samples
  BY <1>1, ElementOfSeq
<1>3. s[1] \in Samples /\ s[2] \in Samples /\ s[3] \in Samples
  BY <1>2
<1>4. s[1].skew + s[2].skew + s[3].skew \in Int
  BY <1>3 DEF Samples, SkewSample
<1>5. \A total \in Int : Quotient(total, SkewSamplesNeeded) \in Int
  BY DEF Quotient, SkewSamplesNeeded
<1> QED
  BY <1>4, <1>5 DEF AverageSkew

LEMMA RecordSkewObservationType ==
  ASSUME NEW c \in Config, NEW ts \in Int, NEW skew \in Int
  PROVE  LET d == RecordSkewObservation(c, ts, skew)
         IN  d \in Config /\ d.rateLimit = c.rateLimit
<1> DEFINE samples == WithSample(c.samples, ts, skew)
<1>1. c.samples \in Seq(SkewSample) /\ samples \in Seq(SkewSample)
  BY WithSampleType DEF Config
<1>2. CASE IsIgnoredObservation(c, ts, skew)
  <2>1. ~AdoptsSkew(c, ts, skew)
    BY <1>2 DEF AdoptsSkew
  <2> QED
    BY <1>2, <2>1 DEF RecordSkewObservation
<1>3. CASE AdoptsSkew(c, ts, skew)
  <2>1. ~IsIgnoredObservation(c, ts, skew) /\ Len(samples) = SkewSamplesNeeded
    BY <1>3 DEF AdoptsSkew, AllAgree
  <2>2. AverageSkew(samples) \in Int
    BY <1>1, <2>1, AverageSkewType
  <2>3. RecordSkewObservation(c, ts, skew)
          = [c EXCEPT !.timeSkew = AverageSkew(samples),
                      !.samples = << >>, !.dirty = TRUE]
    BY <1>3, <2>1 DEF RecordSkewObservation
  <2>4. << >> \in Seq(SkewSample)
    OBVIOUS
  <2> DEFINE d == RecordSkewObservation(c, ts, skew)
  <2>5. PICK average \in Int :
           d = [c EXCEPT !.timeSkew = average, !.samples = << >>, !.dirty = TRUE]
    BY <2>2, <2>3
  <2> HIDE DEF samples, d
  <2>6. d \in Config /\ d.rateLimit = c.rateLimit
    BY <2>4, <2>5 DEF Config
  <2> QED
    BY <2>6 DEF d
<1>4. CASE ~IsIgnoredObservation(c, ts, skew) /\ ~AdoptsSkew(c, ts, skew)
  <2>1. RecordSkewObservation(c, ts, skew)
          = [c EXCEPT !.samples = samples, !.dirty = TRUE]
    BY <1>4 DEF RecordSkewObservation
  <2> HIDE DEF samples
  <2> QED
    BY <1>1, <2>1 DEF Config
<1> QED
  BY <1>2, <1>3, <1>4

-----------------------------------------------------------------------------
(*****************************************************************************)
(* Sorting the attempts.                                                     *)
(*****************************************************************************)

\* Whatever the list, its indices can be put in the order of its integers.
LEMMA SortingExists ==
  ASSUME NEW s \in Seq(Int)
  PROVE  \E p \in [1 .. Len(s) -> 1 .. Len(s)] :
           /\ \A i, j \in 1 .. Len(s) : p[i] = p[j] => i = j
           /\ \A k \in 1 .. Len(s) : \E i \in 1 .. Len(s) : p[i] = k
           /\ \A i, j \in 1 .. Len(s) : i < j => s[p[i]] <= s[p[j]]
<1> DEFINE D == 1 .. Len(s)
           Before(i, j) == s[i] < s[j] \/ (s[i] = s[j] /\ i <= j)
           UpTo(j) == {i \in D : Before(i, j)}
           rank == [j \in D |-> Cardinality(UpTo(j))]
<1>1. Len(s) \in Nat /\ \A i \in D : s[i] \in Int /\ i \in Int
  OBVIOUS
<1>2. IsFiniteSet(D) /\ Cardinality(D) = Len(s)
  <2>1. 1 \in Int /\ Len(s) \in Int
    BY <1>1
  <2>2. IsFiniteSet(1 .. Len(s))
        /\ Cardinality(1 .. Len(s)) = IF 1 > Len(s) THEN 0 ELSE Len(s) - 1 + 1
    BY <2>1, FS_Interval
  <2> QED
    BY <1>1, <2>2
<1>3. ASSUME NEW j \in D
      PROVE  /\ IsFiniteSet(UpTo(j)) /\ Cardinality(UpTo(j)) \in D
             /\ j \in UpTo(j)
  <2>1. UpTo(j) \in SUBSET D /\ j \in UpTo(j)
    BY <1>1
  <2> HIDE DEF UpTo
  <2>2. IsFiniteSet(UpTo(j)) /\ Cardinality(UpTo(j)) <= Len(s)
    BY <1>2, <2>1, FS_Subset
  <2>3. Cardinality(UpTo(j)) \in Nat /\ Cardinality(UpTo(j)) # 0
    BY <2>1, <2>2, FS_CardinalityType, FS_EmptySet
  <2> QED
    BY <1>1, <2>1, <2>2, <2>3
<1>4. ASSUME NEW i \in D, NEW j \in D, Before(i, j), i # j
      PROVE  rank[i] < rank[j]
  <2>1. UpTo(i) \subseteq UpTo(j) /\ j \notin UpTo(i)
    BY <1>1, <1>4
  <2>2. rank[i] = Cardinality(UpTo(i)) /\ rank[j] = Cardinality(UpTo(j))
    OBVIOUS
  <2>3. /\ IsFiniteSet(UpTo(i)) /\ Cardinality(UpTo(i)) \in D
        /\ IsFiniteSet(UpTo(j)) /\ Cardinality(UpTo(j)) \in D /\ j \in UpTo(j)
    BY <1>3
  <2> HIDE DEF UpTo, rank
  <2>4. UpTo(i) \in SUBSET UpTo(j) /\ UpTo(i) # UpTo(j)
    BY <2>1, <2>3
  <2>5. /\ Cardinality(UpTo(i)) <= Cardinality(UpTo(j))
        /\ Cardinality(UpTo(i)) # Cardinality(UpTo(j))
    BY <2>3, <2>4, FS_Subset
  <2> QED
    BY <1>1, <2>2, <2>3, <2>5
<1>5. \A i, j \in D : i # j => Before(i, j) \/ Before(j, i)
  BY <1>1
<1>6. rank \in [D -> D]
  BY <1>3
<1> HIDE DEF rank
<1>7. \A i, j \in D : rank[i] = rank[j] => i = j
  <2> SUFFICES ASSUME NEW i \in D, NEW j \in D, i # j
               PROVE  rank[i] # rank[j]
    OBVIOUS
  <2>1. rank[i] \in Int /\ rank[j] \in Int
    BY <1>1, <1>6
  <2>2. rank[i] < rank[j] \/ rank[j] < rank[i]
    BY <1>4, <1>5
  <2> QED
    BY <2>1, <2>2
<1>8. rank \in Injection(D, D)
  BY <1>6, <1>7, Fun_IsInj
<1>9. rank \in Surjection(D, D)
  BY <1>2, <1>8, FS_Injection
<1>10. rank \in Bijection(D, D)
  BY <1>8, <1>9, Fun_IsBij
<1> DEFINE p == Inverse(rank, D, D)
<1>11. p \in Bijection(D, D) /\ \A i \in D : p[rank[i]] = i
  BY <1>10, Fun_BijInverse
<1> HIDE DEF p
<1>12. p \in [D -> D] /\ \A k \in D : rank[p[k]] = k
  <2>1. p \in [D -> D]
    BY <1>11, Fun_BijectionProperties
  <2>2. \A k \in D : \E i \in D : rank[i] = k
    BY <1>9, Fun_SurjectionProperties
  <2> QED
    BY <1>11, <2>1, <2>2
<1>13. ASSUME NEW i \in D, NEW j \in D, i < j
       PROVE  s[p[i]] <= s[p[j]]
  <2>1. /\ p[i] \in D /\ p[j] \in D /\ p[i] # p[j]
        /\ i \in Int /\ j \in Int /\ rank[p[i]] = i /\ rank[p[j]] = j
    BY <1>1, <1>12, <1>13
  <2>2. s[p[i]] \in Int /\ s[p[j]] \in Int
    BY <1>1, <2>1
  <2>3. s[p[j]] < s[p[i]] => rank[p[j]] < rank[p[i]]
    BY <1>4, <2>1
  <2> QED
    BY <1>13, <2>1, <2>2, <2>3
<1>14. /\ \A i, j \in D : p[i] = p[j] => i = j
       /\ \A k \in D : \E i \in D : p[i] = k
  BY <1>6, <1>11, <1>12
<1> QED
  BY <1>12, <1>13, <1>14

\* What corresponds one to one is as many.
LEMMA CorrespondingSets ==
  ASSUME NEW A, IsFiniteSet(A), NEW B, NEW f \in [A -> B],
         \A x, y \in A : f[x] = f[y] => x = y,
         \A z \in B : \E x \in A : f[x] = z
  PROVE  IsFiniteSet(B) /\ Cardinality(B) = Cardinality(A)
<1>1. f \in Bijection(A, B)
  BY Fun_IsBij
<1>2. ExistsBijection(A, B)
  BY <1>1 DEF ExistsBijection
<1> QED
  BY <1>2, FS_Bijection

\* sort.Slice: a list of the same length, in order, with the same integers.
LEMMA SortedType ==
  ASSUME NEW s \in Seq(Int)
  PROVE  /\ Sorted(s) \in Seq(Int) /\ Len(Sorted(s)) = Len(s)
         /\ InOrder(Sorted(s))
         /\ \A i \in 1 .. Len(s) : \E j \in 1 .. Len(s) : Sorted(s)[j] = s[i]
<1>1. CASE InOrder(s)
  <2>1. Sorted(s) = s
    BY <1>1 DEF Sorted
  <2> QED
    BY <1>1, <2>1
<1>2. CASE ~InOrder(s)
  <2> DEFINE Values == {s[i] : i \in DOMAIN s}
             Sorting(t) == /\ InOrder(t)
                           /\ \A i \in DOMAIN s :
                                Cardinality({j \in DOMAIN s : t[j] = s[i]})
                                  = Cardinality({j \in DOMAIN s : s[j] = s[i]})
             u == Sorted(s)
  <2>1. /\ DOMAIN s = 1 .. Len(s) /\ Len(s) \in Nat
        /\ Values \subseteq Int
    OBVIOUS
  <2>2. PICK p \in [1 .. Len(s) -> 1 .. Len(s)] :
               /\ \A i, j \in 1 .. Len(s) : p[i] = p[j] => i = j
               /\ \A k \in 1 .. Len(s) : \E i \in 1 .. Len(s) : p[i] = k
               /\ \A i, j \in 1 .. Len(s) : i < j => s[p[i]] <= s[p[j]]
    BY SortingExists
  <2>3. \A i \in 1 .. Len(s) : s[i] \in Int
    OBVIOUS
  <2> DEFINE t == [i \in DOMAIN s |-> s[p[i]]]
  <2>4. t \in [DOMAIN s -> Values]
    BY <2>1, <2>2
  <2>5. InOrder(t)
    <3>1. \A i, j \in 1 .. Len(s) : i <= j => s[p[i]] <= s[p[j]]
      <4>1. \A i \in 1 .. Len(s) : s[p[i]] \in Int
        BY <2>2, <2>3
      <4>2. ASSUME NEW i \in 1 .. Len(s), NEW j \in 1 .. Len(s), i <= j
            PROVE  s[p[i]] <= s[p[j]]
        <5>1. i = j \/ i < j
          BY <2>1, <4>2
        <5>2. CASE i = j
          BY <4>1, <5>2
        <5>3. CASE i < j
          BY <2>2, <5>3
        <5> QED
          BY <5>1, <5>2, <5>3
      <4> QED
        BY <4>2
    <3> QED
      BY <2>1, <3>1 DEF InOrder
  <2>6. IsFiniteSet(DOMAIN s)
    <3>1. IsFiniteSet(1 .. Len(s))
      BY <2>1, FS_Interval
    <3> QED
      BY <2>1, <3>1
  <2>7. ASSUME NEW i \in DOMAIN s
        PROVE  Cardinality({j \in DOMAIN s : t[j] = s[i]})
                 = Cardinality({j \in DOMAIN s : s[j] = s[i]})
    <3> DEFINE D == DOMAIN s
               v == s[i]
               A == {j \in D : t[j] = v}
               B == {j \in D : s[j] = v}
               f == [j \in A |-> p[j]]
    <3>1. /\ \A x, y \in A : f[x] = f[y] => x = y
          /\ \A z \in B : \E x \in A : f[x] = z
          /\ f \in [A -> B]
      <4>1. /\ \A x, y \in D : p[x] = p[y] => x = y
            /\ \A z \in D : \E x \in D : p[x] = z
        BY <2>1, <2>2
      <4> QED
        BY <2>1, <2>2, <4>1
    <3>2. A \in SUBSET D
      OBVIOUS
    <3> HIDE DEF A, B, f
    <3>3. IsFiniteSet(A)
      BY <2>6, <3>2, FS_Subset
    <3>4. Cardinality(A) = Cardinality(B)
      BY <3>1, <3>3, CorrespondingSets
    <3> QED
      BY <3>4 DEF A, B
  <2>8. Sorting(t)
    BY <2>5, <2>7
  <2>9. u = CHOOSE x \in [DOMAIN s -> Values] : Sorting(x)
    BY <1>2 DEF Sorted
  <2> HIDE DEF Sorting, t, u, Values
  <2>10. u \in [DOMAIN s -> Values] /\ Sorting(u)
    BY <2>4, <2>8, <2>9
  <2>11. u \in Seq(Int) /\ Len(u) = Len(s)
    <3>1. u \in [1 .. Len(s) -> Int]
      BY <2>1, <2>10
    <3> QED
      BY <2>1, <3>1
  <2>12. ASSUME NEW i \in 1 .. Len(s)
         PROVE  \E j \in 1 .. Len(s) : u[j] = s[i]
    <3> DEFINE A == {j \in DOMAIN s : s[j] = s[i]}
               B == {j \in DOMAIN s : u[j] = s[i]}
    <3>1. i \in A /\ IsFiniteSet(A) /\ IsFiniteSet(B)
      BY <2>1, <2>6, FS_Subset
    <3>2. Cardinality(B) = Cardinality(A)
      BY <2>1, <2>10 DEF Sorting
    <3> HIDE DEF A, B
    <3>3. Cardinality(A) # 0
      BY <3>1, FS_EmptySet
    <3>4. B # {}
      BY <3>1, <3>2, <3>3, FS_EmptySet
    <3> QED
      BY <2>1, <3>4 DEF B
  <2> QED
    BY <2>10, <2>11, <2>12 DEF Sorting, u
<1> QED
  BY <1>1, <1>2

\* The greatest of some positions is one of them.
LEMMA GreatestElement ==
  ASSUME NEW n \in Nat, NEW S \in SUBSET (1 .. n), S # {}
  PROVE  Max(S) \in S
<1> DEFINE T == {n - x : x \in S}
<1>1. PICK e \in S : TRUE
  OBVIOUS
<1>2. T \in SUBSET Nat /\ T # {}
  <2>1. \A x \in S : x \in Int /\ n - x \in Nat
    OBVIOUS
  <2>2. n - e \in T
    BY <1>1
  <2> QED
    BY <2>1, <2>2
<1> HIDE DEF T
<1>3. PICK y \in T : \A z \in T : y <= z
  BY <1>2, LeastElement
<1>4. PICK x \in S : y = n - x
  BY <1>3 DEF T
<1>5. ASSUME NEW z \in S
      PROVE  z <= x
  <2>1. n - z \in T
    BY DEF T
  <2>2. n - x <= n - z
    BY <1>3, <1>4, <2>1
  <2>3. x \in Int /\ z \in Int
    OBVIOUS
  <2> QED
    BY <2>2, <2>3
<1>6. S \in SUBSET Int
  OBVIOUS
<1>7. Max(S) = x
  BY <1>5, <1>6, MaxIsGreatest
<1> QED
  BY <1>7

\* However the clock was set: EnforceRateLimit leaves a list of integers.
LEMMA EnforceRateLimitKeepsType ==
  ASSUME NEW c \in Config, NEW now \in Int
  PROVE  /\ EnforceRateLimit(c, now) \in Config
         /\ SameButRateLimit(c, EnforceRateLimit(c, now))
<1> DEFINE d == EnforceRateLimit(c, now)
           limit == c.rateLimit
           s == Append(limit.timestamps, now)
           u == Sorted(s)
           kept == {i \in DOMAIN u : now - limit.interval <= u[i] /\ u[i] <= now}
           recent == RecentAttempts(c, now)
<1>1. /\ limit.attempts \in Nat /\ limit.interval \in Nat
      /\ limit.timestamps \in Seq(Int)
  BY DEF Config, RateLimit
<1>2. s \in Seq(Int) /\ Len(s) \in Nat \ {0} /\ s[Len(s)] = now
  BY <1>1
<1>3. recent = SubSeq(u, Min(kept), Max(kept))
  BY DEF RecentAttempts, Between
<1> HIDE DEF s, d, recent
<1>4. /\ u \in Seq(Int) /\ Len(u) = Len(s)
      /\ \E j \in 1 .. Len(s) : u[j] = now
  <2>1. /\ u \in Seq(Int) /\ Len(u) = Len(s)
        /\ \A i \in 1 .. Len(s) : \E j \in 1 .. Len(s) : u[j] = s[i]
    BY <1>2, SortedType
  <2>2. Len(s) \in 1 .. Len(s)
    BY <1>2
  <2> QED
    BY <1>2, <2>1, <2>2
<1> HIDE DEF u
<1>5. kept \in SUBSET (1 .. Len(s)) /\ kept # {}
  <2>1. DOMAIN u = 1 .. Len(s)
    BY <1>4
  <2>2. PICK j \in 1 .. Len(s) : u[j] = now
    BY <1>4
  <2>3. j \in kept
    BY <1>1, <2>1, <2>2
  <2>4. kept \subseteq 1 .. Len(s)
    BY <2>1
  <2> HIDE DEF kept
  <2> QED
    BY <2>3, <2>4
<1> HIDE DEF kept
<1>6. Min(kept) \in 1 .. Len(s) /\ Max(kept) \in 1 .. Len(s)
  <2>1. kept \in SUBSET Nat
    BY <1>2, <1>5
  <2> QED
    BY <1>2, <1>5, <2>1, GreatestElement, MinIsLeast
<1>7. recent \in Seq(Int)
  BY <1>2, <1>3, <1>4, <1>6, SubSeqProperties
<1>8. CASE ~HasRateLimit(c)
  BY <1>8 DEF EnforceRateLimit, SameButRateLimit, d
<1>9. CASE HasRateLimit(c)
  <2> DEFINE left == IF IsRateLimited(c, now)
                     THEN Newest(recent, limit.attempts) ELSE recent
  <2>1. left \in Seq(Int)
    <3>1. CASE IsRateLimited(c, now)
      <4>1. Len(recent) > limit.attempts /\ limit.attempts > 0
        BY <3>1 DEF IsRateLimited, HasRateLimit, recent
      <4>2. Len(recent) \in Nat
        BY <1>7
      <4>3. /\ Len(recent) - limit.attempts + 1 \in 1 .. Len(recent)
            /\ Len(recent) \in 1 .. Len(recent)
        BY <1>1, <4>1, <4>2
      <4>4. SubSeq(recent, Len(recent) - limit.attempts + 1, Len(recent)) \in Seq(Int)
        BY <1>7, <4>3, SubSeqProperties
      <4> QED
        BY <3>1, <4>4 DEF Newest
    <3> QED
      BY <1>7, <3>1
  <2>2. d = [c EXCEPT !.rateLimit = [limit EXCEPT !.timestamps = left],
                      !.dirty = TRUE]
    BY <1>9 DEF EnforceRateLimit, Config, RateLimit, d, recent
  <2> HIDE DEF left
  <2>3. [limit EXCEPT !.timestamps = left] \in RateLimit
    BY <2>1 DEF Config, RateLimit
  <2>4. d \in Config
    BY <2>2, <2>3 DEF Config
  <2>5. SameButRateLimit(c, d)
    BY <2>2, <2>3 DEF SameButRateLimit, Config, RateLimit
  <2> QED
    BY <2>4, <2>5 DEF d
<1> QED
  BY <1>8, <1>9

\* Induction, for a set of natural numbers.
LEMMA NatSetInduction ==
  ASSUME NEW S, 0 \in S, \A n \in Nat : n \in S => n + 1 \in S
  PROVE  Nat \subseteq S
<1>1. SUFFICES ASSUME Nat \ S # {} PROVE FALSE
  OBVIOUS
<1>2. PICK n \in Nat \ S : \A m \in Nat \ S : n <= m
  BY <1>1, LeastElement
<1> QED
  BY <1>2

\* The greatest position of a prefix, and the prefix without it.
LEMMA PrefixTop ==
  ASSUME NEW k \in Nat, NEW n \in 1 .. k
  PROVE  /\ 1 .. n \in SUBSET (1 .. k) /\ 1 .. n # {}
         /\ Max(1 .. n) = n /\ (1 .. n) \ {n} = 1 .. n - 1
<1>1. n \in Nat \ {0} /\ n <= k
  OBVIOUS
<1>2. 1 .. n \in SUBSET Int /\ n \in 1 .. n /\ \A y \in 1 .. n : y <= n
  BY <1>1
<1>3. Max(1 .. n) = n
  BY <1>2, MaxIsGreatest
<1>4. (1 .. n) \ {n} = 1 .. n - 1
  BY <1>1
<1>5. 1 .. n \in SUBSET (1 .. k)
  BY <1>1
<1> QED
  BY <1>2, <1>3, <1>4, <1>5

\* A sequence that lists a set once, for SetToSeq.
LEMMA SetToSeqLists ==
  ASSUME NEW S, IsFiniteSet(S)
  PROVE  /\ SetToSeq(S) \in Seq(S)
         /\ \A i, j \in DOMAIN SetToSeq(S) : SetToSeq(S)[i] = SetToSeq(S)[j] => i = j
         /\ \A x \in S : \E i \in DOMAIN SetToSeq(S) : SetToSeq(S)[i] = x
<1> DEFINE n == Cardinality(S)
           u == SetToSeq(S)
<1>1. n \in Nat /\ ExistsBijection(1 .. n, S)
  BY FS_CardinalityType
<1>2. PICK f : f \in Bijection(1 .. n, S)
  BY <1>1 DEF ExistsBijection
<1>3. f \in [1 .. n -> S] /\ IsInjective(f)
  <2>1. f \in [1 .. n -> S]
    BY <1>2, Fun_BijectionProperties
  <2>2. \A i, j \in 1 .. n : f[i] = f[j] => i = j
    BY <1>2, Fun_BijectionProperties
  <2> QED
    BY <2>1, <2>2 DEF IsInjective
<1>4. u = CHOOSE g \in [1 .. n -> S] : IsInjective(g)
  BY DEF SetToSeq
<1> HIDE DEF n, u
<1>5. u \in [1 .. n -> S] /\ IsInjective(u)
  BY <1>3, <1>4
<1>6. \A i, j \in 1 .. n : u[i] = u[j] => i = j
  BY <1>5 DEF IsInjective
<1>7. u \in Injection(1 .. n, S)
  BY <1>5, <1>6, Fun_IsInj
<1>8. IsFiniteSet(1 .. n) /\ Cardinality(1 .. n) = Cardinality(S)
  BY <1>1, FS_Interval DEF n
<1>9. u \in Surjection(1 .. n, S)
  BY <1>7, <1>8, FS_Injection
<1>10. \A x \in S : \E i \in 1 .. n : u[i] = x
  BY <1>9 DEF Surjection
<1>11. u \in Seq(S) /\ DOMAIN u = 1 .. n
  BY <1>1, <1>5
<1> QED
  BY <1>6, <1>10, <1>11 DEF u

-----------------------------------------------------------------------------
(*****************************************************************************)
(* Sequences that enumerate a set with copies.                               *)
(*****************************************************************************)

\* The elements of out are the entries of K, each once: an entry is a pair of
\* an element and the number of its copy.
Enumerates(out, K) ==
  \E place \in [DOMAIN out -> K] :
    /\ \A i, j \in DOMAIN out : place[i] = place[j] => i = j
    /\ \A e \in K : \E i \in DOMAIN out : place[i] = e
    /\ \A i \in DOMAIN out : out[i] = place[i][1]

\* Two sequences one after the other enumerate the entries of both.
LEMMA ConcatEnumerates ==
  ASSUME NEW L, NEW s \in Seq(L), NEW t \in Seq(L), NEW K, NEW M,
         Enumerates(s, K), Enumerates(t, M), K \cap M = {}
  PROVE  s \o t \in Seq(L) /\ Enumerates(s \o t, K \union M)
<1> DEFINE u == s \o t
<1>1. /\ Len(s) \in Nat /\ Len(t) \in Nat /\ DOMAIN s = 1 .. Len(s)
      /\ DOMAIN t = 1 .. Len(t)
  OBVIOUS
<1>2. /\ u \in Seq(L) /\ DOMAIN u = 1 .. Len(s) + Len(t)
      /\ \A i \in 1 .. Len(s) : u[i] = s[i]
      /\ \A i \in 1 .. Len(t) : u[Len(s) + i] = t[i]
  OBVIOUS
<1> HIDE DEF u
<1>3. PICK p \in [DOMAIN s -> K] :
        /\ \A i, j \in DOMAIN s : p[i] = p[j] => i = j
        /\ \A e \in K : \E i \in DOMAIN s : p[i] = e
        /\ \A i \in DOMAIN s : s[i] = p[i][1]
  BY DEF Enumerates
<1>4. PICK q \in [DOMAIN t -> M] :
        /\ \A i, j \in DOMAIN t : q[i] = q[j] => i = j
        /\ \A e \in M : \E i \in DOMAIN t : q[i] = e
        /\ \A i \in DOMAIN t : t[i] = q[i][1]
  BY DEF Enumerates
<1> DEFINE r == [i \in DOMAIN u |-> IF i <= Len(s) THEN p[i] ELSE q[i - Len(s)]]
<1>5. /\ \A i \in 1 .. Len(s) : i \in DOMAIN u /\ r[i] = p[i] /\ p[i] \in K
      /\ \A i \in 1 .. Len(t) :
           Len(s) + i \in DOMAIN u /\ r[Len(s) + i] = q[i] /\ q[i] \in M
  <2>1. ASSUME NEW i \in 1 .. Len(s)
        PROVE  i \in DOMAIN u /\ r[i] = p[i] /\ p[i] \in K
    <3>1. i \in DOMAIN u /\ i <= Len(s)
      BY <1>1, <1>2
    <3> QED
      BY <1>1, <1>3, <3>1
  <2>2. ASSUME NEW i \in 1 .. Len(t)
        PROVE  Len(s) + i \in DOMAIN u /\ r[Len(s) + i] = q[i] /\ q[i] \in M
    <3>1. Len(s) + i \in DOMAIN u /\ ~(Len(s) + i <= Len(s)) /\ (Len(s) + i) - Len(s) = i
      BY <1>1, <1>2
    <3>2. q[i] \in M
      BY <1>1, <1>4
    <3> QED
      BY <3>1, <3>2
  <2> QED
    BY <2>1, <2>2
<1>6. ASSUME NEW i \in DOMAIN u
      PROVE  \/ i \in 1 .. Len(s)
             \/ \E k \in 1 .. Len(t) : i = Len(s) + k
  <2>1. i \in Int /\ 1 <= i /\ i <= Len(s) + Len(t)
    BY <1>1, <1>2
  <2>2. CASE i <= Len(s)
    BY <1>1, <2>1, <2>2
  <2>3. CASE i > Len(s)
    <3>1. i - Len(s) \in 1 .. Len(t) /\ i = Len(s) + (i - Len(s))
      BY <1>1, <2>1, <2>3
    <3> QED
      BY <3>1
  <2> QED
    BY <1>1, <2>1, <2>2, <2>3
<1>7. r \in [DOMAIN u -> K \union M]
  <2>1. \A i \in DOMAIN u : r[i] \in K \union M
    BY <1>5, <1>6
  <2> QED
    BY <2>1
<1> HIDE DEF r
<1>8. ASSUME NEW i \in DOMAIN u, NEW j \in DOMAIN u, r[i] = r[j]
      PROVE  i = j
  <2>1. CASE i \in 1 .. Len(s) /\ j \in 1 .. Len(s)
    BY <1>1, <1>3, <1>5, <1>8, <2>1
  <2>2. ASSUME NEW k \in 1 .. Len(t), i = Len(s) + k, NEW m \in 1 .. Len(t),
               j = Len(s) + m
        PROVE  i = j
    <3>1. r[i] = q[k] /\ r[j] = q[m]
      BY <1>5, <2>2
    <3>2. q[k] = q[m] /\ k \in DOMAIN t /\ m \in DOMAIN t
      BY <1>1, <1>8, <3>1
    <3>3. k = m
      BY <1>4, <3>2
    <3> QED
      BY <2>2, <3>3
  <2>3. ASSUME NEW k \in 1 .. Len(t), i = Len(s) + k, j \in 1 .. Len(s)
        PROVE  FALSE
    BY <1>5, <1>8, <2>3
  <2>4. ASSUME NEW k \in 1 .. Len(t), j = Len(s) + k, i \in 1 .. Len(s)
        PROVE  FALSE
    BY <1>5, <1>8, <2>4
  <2> QED
    BY <1>6, <2>1, <2>2, <2>3, <2>4
<1>9. \A e \in K \union M : \E i \in DOMAIN u : r[i] = e
  <2>1. ASSUME NEW e \in K
        PROVE  \E i \in DOMAIN u : r[i] = e
    <3>1. PICK i \in 1 .. Len(s) : p[i] = e
      BY <1>1, <1>3
    <3> QED
      BY <1>5, <3>1
  <2>2. ASSUME NEW e \in M
        PROVE  \E i \in DOMAIN u : r[i] = e
    <3>1. PICK i \in 1 .. Len(t) : q[i] = e
      BY <1>1, <1>4
    <3>2. Len(s) + i \in DOMAIN u /\ r[Len(s) + i] = e
      BY <1>5, <3>1
    <3> QED
      BY <3>2
  <2> QED
    BY <2>1, <2>2
<1>10. ASSUME NEW i \in DOMAIN u
       PROVE  u[i] = r[i][1]
  <2>1. CASE i \in 1 .. Len(s)
    BY <1>1, <1>2, <1>3, <1>5, <2>1
  <2>2. ASSUME NEW k \in 1 .. Len(t), i = Len(s) + k
        PROVE  u[i] = r[i][1]
    <3>1. u[i] = t[k] /\ r[i] = q[k]
      BY <1>2, <1>5, <2>2
    <3>2. t[k] = q[k][1]
      BY <1>1, <1>4
    <3> QED
      BY <3>1, <3>2
  <2> QED
    BY <1>6, <2>1, <2>2
<1>11. Enumerates(u, K \union M)
  BY <1>7, <1>8, <1>9, <1>10 DEF Enumerates
<1> QED
  BY <1>2, <1>11 DEF u

\* FlattenSeq puts its sequences one after the other.
LEMMA FlattenSeqRun ==
  ASSUME NEW L, NEW seqs \in Seq(L), seqs # << >>
  PROVE  \E flat : /\ flat[1] = seqs[1]
                   /\ \A n \in 2 .. Len(seqs) : flat[n] = flat[n - 1] \o seqs[n]
                   /\ FlattenSeq(seqs) = flat[Len(seqs)]
<1> DEFINE Next(flat, i) == IF i = 1 THEN seqs[i] ELSE flat[i - 1] \o seqs[i]
           IsFlat(k, flat) == flat = [i \in 1 .. k |-> Next(flat, i)]
           Flattens(k) == \E flat : IsFlat(k, flat)
           Flat == {k \in Nat : Flattens(k)}
<1>1. Len(seqs) \in Nat \ {0}
  OBVIOUS
<1>2. Flattens(0)
  <2>1. IsFlat(0, [i \in 1 .. 0 |-> 0])
    OBVIOUS
  <2> HIDE DEF IsFlat
  <2> QED
    BY <2>1
<1>3. ASSUME NEW k \in Nat, Flattens(k)
      PROVE  Flattens(k + 1)
  <2>1. PICK flat : IsFlat(k, flat)
    BY <1>3
  <2> DEFINE q == [i \in 1 .. k + 1 |->
                     IF i <= k THEN flat[i] ELSE Next(flat, i)]
  <2>2. ASSUME NEW i \in 1 .. k + 1
        PROVE  q[i] = Next(q, i)
    <3>1. CASE i <= k
      <4>1. i \in 1 .. k
        BY <3>1
      <4>2. flat[i] = Next(flat, i)
        BY <2>1, <4>1
      <4>3. CASE i = 1
        BY <3>1, <4>2, <4>3
      <4>4. CASE i # 1
        <5>1. i - 1 \in 1 .. k + 1 /\ i - 1 <= k
          BY <4>1, <4>4
        <5>2. q[i - 1] = flat[i - 1]
          BY <5>1
        <5> QED
          BY <3>1, <4>2, <4>4, <5>2
      <4> QED
        BY <4>3, <4>4
    <3>2. CASE i = k + 1
      <4>1. q[i] = Next(flat, i)
        BY <3>2
      <4>2. CASE i = 1
        BY <4>1, <4>2
      <4>3. CASE i # 1
        <5>1. i - 1 \in 1 .. k + 1 /\ i - 1 <= k
          BY <3>2, <4>3
        <5>2. q[i - 1] = flat[i - 1]
          BY <5>1
        <5> QED
          BY <4>1, <4>3, <5>2
      <4> QED
        BY <4>2, <4>3
    <3> QED
      BY <3>1, <3>2
  <2>3. IsFlat(k + 1, q)
    BY <2>2
  <2> QED
    BY <2>3
<1> HIDE DEF Flattens
<1>4. 0 \in Flat /\ \A n \in Nat : n \in Flat => n + 1 \in Flat
  BY <1>2, <1>3
<1> HIDE DEF Flat
<1>5. Flattens(Len(seqs))
  <2>1. Nat \subseteq Flat
    BY <1>4, NatSetInduction
  <2> QED
    BY <1>1, <2>1 DEF Flat
<1> DEFINE flatten == CHOOSE flat : IsFlat(Len(seqs), flat)
<1>6. IsFlat(Len(seqs), flatten)
  <2> HIDE DEF IsFlat
  <2> QED
    BY <1>5 DEF Flattens
<1>7. FlattenSeq(seqs) = flatten[Len(seqs)]
  BY <1>1 DEF FlattenSeq
<1> HIDE DEF flatten
<1>8. flatten[1] = seqs[1]
  BY <1>1, <1>6
<1>9. \A n \in 2 .. Len(seqs) : flatten[n] = flatten[n - 1] \o seqs[n]
  <2> SUFFICES ASSUME NEW n \in 2 .. Len(seqs)
               PROVE  flatten[n] = flatten[n - 1] \o seqs[n]
    OBVIOUS
  <2>1. n \in 1 .. Len(seqs) /\ n # 1
    BY <1>1
  <2> QED
    BY <1>6, <2>1
<1> QED
  BY <1>7, <1>8, <1>9

\* As many sequences, one after the other.
LEMMA FlattenSeqEnumerates ==
  ASSUME NEW L, NEW seqs \in Seq(Seq(L)), NEW K, DOMAIN K = DOMAIN seqs,
         \A n \in DOMAIN seqs : Enumerates(seqs[n], K[n]),
         \A n, m \in DOMAIN seqs : n # m => K[n] \cap K[m] = {},
         NEW M, \A e : e \in M <=> \E n \in DOMAIN seqs : e \in K[n]
  PROVE  FlattenSeq(seqs) \in Seq(L) /\ Enumerates(FlattenSeq(seqs), M)
<1>1. Len(seqs) \in Nat /\ DOMAIN seqs = 1 .. Len(seqs)
  OBVIOUS
<1>2. CASE seqs = << >>
  <2>1. FlattenSeq(seqs) = << >>
    BY <1>2 DEF FlattenSeq
  <2>2. M = {}
    BY <1>2
  <2>3. Enumerates(<< >>, {})
    <3>1. [i \in {} |-> 0] \in [DOMAIN << >> -> {}]
      OBVIOUS
    <3> QED
      BY <3>1 DEF Enumerates
  <2>4. << >> \in Seq(L)
    OBVIOUS
  <2> QED
    BY <2>1, <2>2, <2>3, <2>4, Zenon
<1>3. CASE seqs # << >>
  <2>1. PICK flat : /\ flat[1] = seqs[1]
                    /\ \A n \in 2 .. Len(seqs) : flat[n] = flat[n - 1] \o seqs[n]
                    /\ FlattenSeq(seqs) = flat[Len(seqs)]
    BY <1>3, FlattenSeqRun
  <2> DEFINE Below(n) == UNION {K[i] : i \in 1 .. n}
             Good(n) == n \in 1 .. Len(seqs) =>
                          flat[n] \in Seq(L) /\ Enumerates(flat[n], Below(n))
             G == {n \in Nat : Good(n)}
  <2>2. ASSUME NEW n \in Nat, Good(n)
        PROVE  Good(n + 1)
    <3> SUFFICES ASSUME n + 1 \in 1 .. Len(seqs)
                 PROVE  /\ flat[n + 1] \in Seq(L)
                        /\ Enumerates(flat[n + 1], Below(n + 1))
      OBVIOUS
    <3>1. seqs[n + 1] \in Seq(L) /\ Enumerates(seqs[n + 1], K[n + 1])
      <4>1. n + 1 \in DOMAIN seqs
        BY <1>1
      <4> QED
        BY <4>1
    <3>2. CASE n = 0
      <4>1. Below(1) = K[1]
        OBVIOUS
      <4> HIDE DEF Below
      <4> QED
        BY <2>1, <3>1, <3>2, <4>1
    <3>3. CASE n # 0
      <4>1. n \in 1 .. Len(seqs) /\ n + 1 \in 2 .. Len(seqs) /\ (n + 1) - 1 = n
        BY <1>1, <3>3
      <4>2. flat[n + 1] = flat[n] \o seqs[n + 1]
        BY <2>1, <4>1
      <4>3. flat[n] \in Seq(L) /\ Enumerates(flat[n], Below(n))
        BY <2>2, <4>1
      <4>4. Below(n) \cap K[n + 1] = {}
        <5>1. \A i \in 1 .. n : i \in DOMAIN seqs /\ n + 1 \in DOMAIN seqs /\ i # n + 1
          BY <1>1, <4>1
        <5> QED
          BY <5>1
      <4>5. Below(n + 1) = Below(n) \union K[n + 1]
        <5>1. 1 .. n + 1 = (1 .. n) \union {n + 1}
          OBVIOUS
        <5> QED
          BY <5>1
      <4> HIDE DEF Below
      <4> QED
        <5>1. /\ flat[n] \o seqs[n + 1] \in Seq(L)
              /\ Enumerates(flat[n] \o seqs[n + 1], Below(n) \union K[n + 1])
          BY <3>1, <4>3, <4>4, ConcatEnumerates
        <5> QED
          BY <4>2, <4>5, <5>1
    <3> QED
      BY <3>2, <3>3
  <2>3. Good(0)
    OBVIOUS
  <2> HIDE DEF Good
  <2>4. 0 \in G /\ \A n \in Nat : n \in G => n + 1 \in G
    BY <2>2, <2>3
  <2> HIDE DEF G
  <2>5. Good(Len(seqs))
    <3>1. Nat \subseteq G
      BY <2>4, NatSetInduction
    <3> QED
      BY <1>1, <3>1 DEF G
  <2>6. Len(seqs) \in 1 .. Len(seqs)
    BY <1>1, <1>3
  <2>7. flat[Len(seqs)] \in Seq(L) /\ Enumerates(flat[Len(seqs)], Below(Len(seqs)))
    <3> HIDE DEF Below
    <3> QED
      BY <2>5, <2>6 DEF Good
  <2>8. Below(Len(seqs)) = M
    BY <1>1
  <2> HIDE DEF Below
  <2> QED
    BY <2>1, <2>7, <2>8
<1> QED
  BY <1>2, <1>3

-----------------------------------------------------------------------------
(*****************************************************************************)
(* The lines that Bytes writes.                                              *)
(*****************************************************************************)

\* A line that is written if the option is set.
OneIf(condition, line) == IF condition THEN {<<line, 1>>} ELSE {}

\* The login records that are written, and the scratch codes that are left.
LastEntries(c) ==
  UNION {OneIf(IsWritten(c.lastLogins[i]), LastLine(i, c.lastLogins[i])) : i \in Slots}

ScratchEntries(c) ==
  UNION {{ScratchLine(code)} \X (1 .. c.scratch[code]) : code \in ScratchCodes}

\* The lines of c's file, each with the number of its copy.
Entries(c) ==
  {<<SecretLine(c.secret), 1>>}
    \union OneIf(c.totpAuth, Flag("TOTP_AUTH"))
    \union OneIf(c.hotpConfigured, Option("HOTP_COUNTER", c.hotpCounter))
    \union OneIf(c.stepSize # DefaultStepSize, Option("STEP_SIZE", c.stepSize))
    \union OneIf(c.windowSize # DefaultWindow, Option("WINDOW_SIZE", c.windowSize))
    \union OneIf(HasRateLimit(c), Option("RATE_LIMIT", c.rateLimit))
    \union OneIf(c.disallowReuse, Option("DISALLOW_REUSE", c.disallowed))
    \union OneIf(c.timeSkew # 0, Option("TIME_SKEW", c.timeSkew))
    \union OneIf(c.samples # << >>, Option("RESETTING_TIME_SKEW", c.samples))
    \union LastEntries(c)
    \union ScratchEntries(c)

\* A part of a file: lines with these keys, each entry once.
Part(L, s, K, keys) ==
  /\ s \in Seq(L)
  /\ Enumerates(s, K)
  /\ \A e \in K : e[1].key \in keys

\* Parts with different keys make a larger part.
LEMMA PartsConcat ==
  ASSUME NEW L, NEW s, NEW t, NEW K, NEW M, NEW keys, NEW more,
         Part(L, s, K, keys), Part(L, t, M, more), keys \cap more = {}
  PROVE  /\ Part(L, s \o t, K \union M, keys \union more)
         /\ s # << >> => s \o t # << >> /\ (s \o t)[1] = s[1]
<1>1. s \in Seq(L) /\ t \in Seq(L) /\ Enumerates(s, K) /\ Enumerates(t, M)
  BY DEF Part
<1>2. K \cap M = {}
  BY DEF Part
<1>3. s \o t \in Seq(L) /\ Enumerates(s \o t, K \union M)
  BY <1>1, <1>2, ConcatEnumerates
<1>4. s # << >> => s \o t # << >> /\ (s \o t)[1] = s[1]
  BY <1>1
<1> QED
  BY <1>3, <1>4 DEF Part

\* A line that is written if its option is set is such a part.
LEMMA WhenIsPart ==
  ASSUME NEW L, NEW condition \in BOOLEAN, NEW line, condition => line \in L
  PROVE  Part(L, When(condition, line), OneIf(condition, line), {line.key})
<1>1. CASE condition
  <2>1. Enumerates(<<line>>, {<<line, 1>>})
    <3> DEFINE place == [i \in DOMAIN <<line>> |-> <<line, 1>>]
    <3>1. /\ place \in [DOMAIN <<line>> -> {<<line, 1>>}]
          /\ DOMAIN <<line>> = {1} /\ place[1] = <<line, 1>>
      OBVIOUS
    <3> HIDE DEF place
    <3> QED
      BY <3>1 DEF Enumerates
  <2>2. <<line>> \in Seq(L)
    BY <1>1
  <2> QED
    BY <1>1, <2>1, <2>2 DEF When, OneIf, Part
<1>2. CASE ~condition
  <2>1. Enumerates(<< >>, {})
    <3>1. [i \in {} |-> 0] \in [DOMAIN << >> -> {}]
      OBVIOUS
    <3> QED
      BY <3>1 DEF Enumerates
  <2>2. << >> \in Seq(L)
    OBVIOUS
  <2> QED
    BY <1>2, <2>1, <2>2 DEF When, OneIf, Part
<1> QED
  BY <1>1, <1>2

\* One more option, if it is to be written.
LEMMA OptionIsAdded ==
  ASSUME NEW L, NEW s, NEW K, NEW keys, Part(L, s, K, keys), s # << >>,
         NEW condition \in BOOLEAN, NEW line, condition => line \in L,
         line.key \notin keys
  PROVE  /\ Part(L, s \o When(condition, line), K \union OneIf(condition, line),
                 keys \union {line.key})
         /\ s \o When(condition, line) # << >>
         /\ (s \o When(condition, line))[1] = s[1]
<1>1. Part(L, When(condition, line), OneIf(condition, line), {line.key})
  BY WhenIsPart
<1>2. keys \cap {line.key} = {}
  OBVIOUS
<1> QED
  BY <1>1, <1>2, PartsConcat

\* So are the login records, one line for each slot in use.
LEMMA LastLinesArePart ==
  ASSUME NEW c \in Config, NEW L, \A e \in LastEntries(c) : e[1] \in L
  PROVE  Part(L, LastLines(c), LastEntries(c), {"LAST"})
<1> DEFINE Written(i) == IsWritten(c.lastLogins[i])
           Line(i) == LastLine(i, c.lastLogins[i])
           seqs == [n \in 1 .. MaxLogins |-> When(Written(n - 1), Line(n - 1))]
           K == [n \in 1 .. MaxLogins |-> OneIf(Written(n - 1), Line(n - 1))]
<1>1. MaxLogins \in Nat
  BY ConfigAssumption
<1>2. \A n \in 1 .. MaxLogins : n - 1 \in Slots
  BY <1>1 DEF Slots
<1>3. \A i \in Slots : i + 1 \in 1 .. MaxLogins /\ (i + 1) - 1 = i
  BY <1>1 DEF Slots
<1>4. ASSUME NEW n \in 1 .. MaxLogins
      PROVE  Part(L, seqs[n], K[n], {"LAST"})
  <2>1. Written(n - 1) \in BOOLEAN
    BY DEF IsWritten
  <2>2. Written(n - 1) => Line(n - 1) \in L
    <3> SUFFICES ASSUME Written(n - 1)
                 PROVE  Line(n - 1) \in L
      OBVIOUS
    <3>1. <<Line(n - 1), 1>> \in LastEntries(c)
      BY <1>2 DEF LastEntries, OneIf
    <3> QED
      BY <3>1
  <2>3. Line(n - 1).key = "LAST"
    BY DEF LastLine
  <2> HIDE DEF Written, Line
  <2>4. Part(L, When(Written(n - 1), Line(n - 1)), OneIf(Written(n - 1), Line(n - 1)),
             {Line(n - 1).key})
    BY <2>1, <2>2, WhenIsPart
  <2> QED
    BY <2>3, <2>4
<1>5. ASSUME NEW n \in 1 .. MaxLogins, NEW m \in 1 .. MaxLogins, n # m
      PROVE  K[n] \cap K[m] = {}
  <2>1. n - 1 # m - 1
    BY <1>1, <1>5
  <2>2. Line(n - 1) # Line(m - 1)
    BY <2>1 DEF LastLine
  <2> HIDE DEF Line, Written
  <2> QED
    BY <2>2 DEF OneIf
<1>6. UNION {K[n] : n \in 1 .. MaxLogins} = LastEntries(c)
  <2> DEFINE E(i) == OneIf(Written(i), Line(i))
  <2>1. \A n \in 1 .. MaxLogins : K[n] = E(n - 1)
    OBVIOUS
  <2>2. LastEntries(c) = UNION {E(i) : i \in Slots}
    BY DEF LastEntries
  <2> HIDE DEF E, K
  <2> QED
    BY <1>2, <1>3, <2>1, <2>2
<1>7. LastLines(c) = FlattenSeq(seqs)
  BY DEF LastLines
<1>8. /\ seqs \in Seq(Seq(L)) /\ DOMAIN seqs = 1 .. MaxLogins
      /\ DOMAIN K = DOMAIN seqs
  <2>1. \A n \in 1 .. MaxLogins : seqs[n] \in Seq(L)
    BY <1>4 DEF Part
  <2> QED
    BY <1>1, <2>1
<1>9. \A n \in DOMAIN seqs : Enumerates(seqs[n], K[n])
  BY <1>4, <1>8 DEF Part
<1> HIDE DEF seqs, K
<1>10. FlattenSeq(seqs) \in Seq(L) /\ Enumerates(FlattenSeq(seqs), LastEntries(c))
  <2>1. \A n, m \in DOMAIN seqs : n # m => K[n] \cap K[m] = {}
    BY <1>5, <1>8
  <2>2. \A e : e \in LastEntries(c) <=> \E n \in DOMAIN seqs : e \in K[n]
    BY <1>6, <1>8
  <2> QED
    BY <1>8, <1>9, <2>1, <2>2, FlattenSeqEnumerates
<1>11. \A e \in LastEntries(c) : e[1].key \in {"LAST"}
  BY DEF LastEntries, OneIf, LastLine
<1> QED
  BY <1>7, <1>10, <1>11 DEF Part

\* And the scratch codes, one line for each that is left.
LEMMA ScratchLinesArePart ==
  ASSUME NEW c \in Config, NEW L, \A e \in ScratchEntries(c) : e[1] \in L
  PROVE  Part(L, ScratchLines(c), ScratchEntries(c), {"scratch"})
<1> DEFINE codes == SetToSeq(ScratchCodes)
           Copies(code) == [copy \in 1 .. c.scratch[code] |-> ScratchLine(code)]
           Of(code) == {ScratchLine(code)} \X (1 .. c.scratch[code])
           seqs == [n \in DOMAIN codes |-> Copies(codes[n])]
           K == [n \in DOMAIN codes |-> Of(codes[n])]
<1>1. \A code \in ScratchCodes : c.scratch[code] \in Nat
  BY DEF Config
<1>2. /\ codes \in Seq(ScratchCodes)
      /\ \A n, m \in DOMAIN codes : codes[n] = codes[m] => n = m
      /\ \A code \in ScratchCodes : \E n \in DOMAIN codes : codes[n] = code
  BY ConfigAssumption, SetToSeqLists
<1> HIDE DEF codes
<1>3. \A n \in DOMAIN codes : codes[n] \in ScratchCodes
  BY <1>2
<1>4. ASSUME NEW code \in ScratchCodes
      PROVE  Copies(code) \in Seq(L) /\ Enumerates(Copies(code), Of(code))
  <2> DEFINE place == [copy \in 1 .. c.scratch[code] |-> <<ScratchLine(code), copy>>]
  <2>1. ASSUME NEW copy \in 1 .. c.scratch[code]
        PROVE  ScratchLine(code) \in L
    <3>1. <<ScratchLine(code), copy>> \in ScratchEntries(c)
      BY DEF ScratchEntries
    <3> QED
      BY <3>1
  <2>2. Copies(code) \in Seq(L) /\ DOMAIN Copies(code) = 1 .. c.scratch[code]
    BY <1>1, <2>1
  <2>3. place \in [DOMAIN Copies(code) -> Of(code)]
    BY <2>2
  <2>4. /\ \A i, j \in DOMAIN Copies(code) : place[i] = place[j] => i = j
        /\ \A e \in Of(code) : \E i \in DOMAIN Copies(code) : place[i] = e
        /\ \A i \in DOMAIN Copies(code) : Copies(code)[i] = place[i][1]
    BY <2>2
  <2> HIDE DEF place, Copies, Of
  <2> QED
    BY <2>2, <2>3, <2>4 DEF Enumerates
<1>5. ASSUME NEW n \in DOMAIN codes, NEW m \in DOMAIN codes, n # m
      PROVE  K[n] \cap K[m] = {}
  <2>1. ScratchLine(codes[n]) # ScratchLine(codes[m])
    BY <1>2, <1>5 DEF ScratchLine
  <2> QED
    BY <2>1
<1>6. UNION {K[n] : n \in DOMAIN codes} = ScratchEntries(c)
  <2>1. \A n \in DOMAIN codes : K[n] = Of(codes[n])
    OBVIOUS
  <2>2. ScratchEntries(c) = UNION {Of(code) : code \in ScratchCodes}
    BY DEF ScratchEntries
  <2> HIDE DEF Of, K
  <2> QED
    BY <1>2, <1>3, <2>1, <2>2
<1>7. ScratchLines(c) = FlattenSeq(seqs)
  BY DEF ScratchLines, codes
<1>8. /\ seqs \in Seq(Seq(L)) /\ DOMAIN seqs = DOMAIN codes
      /\ DOMAIN K = DOMAIN seqs
  <2>1. \A n \in DOMAIN codes : seqs[n] \in Seq(L)
    BY <1>3, <1>4
  <2>2. Len(codes) \in Nat /\ DOMAIN codes = 1 .. Len(codes)
    BY <1>2
  <2> HIDE DEF Copies
  <2> QED
    BY <2>1, <2>2
<1>9. \A n \in DOMAIN seqs : Enumerates(seqs[n], K[n])
  <2> HIDE DEF Copies, Of
  <2> QED
    BY <1>3, <1>4, <1>8
<1> HIDE DEF seqs, K
<1>10. /\ FlattenSeq(seqs) \in Seq(L)
       /\ Enumerates(FlattenSeq(seqs), ScratchEntries(c))
  <2>1. \A n, m \in DOMAIN seqs : n # m => K[n] \cap K[m] = {}
    BY <1>5, <1>8
  <2>2. \A e : e \in ScratchEntries(c) <=> \E n \in DOMAIN seqs : e \in K[n]
    BY <1>6, <1>8
  <2> QED
    BY <1>8, <1>9, <2>1, <2>2, FlattenSeqEnumerates
<1>11. \A e \in ScratchEntries(c) : e[1].key \in {"scratch"}
  BY DEF ScratchEntries, ScratchLine
<1> QED
  BY <1>7, <1>10, <1>11 DEF Part

\* The lines without their numbers.
LinesOf(c) == {e[1] : e \in Entries(c)}

\* What Bytes writes: the secret first, and every entry of c once.
LEMMA BytesEnumerates ==
  ASSUME NEW c \in Config
  PROVE  /\ Bytes(c) \in Seq(LinesOf(c))
         /\ Bytes(c) # << >> /\ Bytes(c)[1] = SecretLine(c.secret)
         /\ Enumerates(Bytes(c), Entries(c))
<1> DEFINE L == LinesOf(c)
           l2 == Flag("TOTP_AUTH")
           l3 == Option("HOTP_COUNTER", c.hotpCounter)
           l4 == Option("STEP_SIZE", c.stepSize)
           l5 == Option("WINDOW_SIZE", c.windowSize)
           l6 == Option("RATE_LIMIT", c.rateLimit)
           l7 == Option("DISALLOW_REUSE", c.disallowed)
           l8 == Option("TIME_SKEW", c.timeSkew)
           l9 == Option("RESETTING_TIME_SKEW", c.samples)
           b2 == c.totpAuth
           b3 == c.hotpConfigured
           b4 == c.stepSize # DefaultStepSize
           b5 == c.windowSize # DefaultWindow
           b6 == HasRateLimit(c)
           b7 == c.disallowReuse
           b8 == c.timeSkew # 0
           b9 == c.samples # << >>
           s1 == <<SecretLine(c.secret)>>
           s2 == s1 \o When(b2, l2)
           s3 == s2 \o When(b3, l3)
           s4 == s3 \o When(b4, l4)
           s5 == s4 \o When(b5, l5)
           s6 == s5 \o When(b6, l6)
           s7 == s6 \o When(b7, l7)
           s8 == s7 \o When(b8, l8)
           s9 == s8 \o When(b9, l9)
           s10 == s9 \o LastLines(c)
           s11 == s10 \o ScratchLines(c)
           e1 == {<<SecretLine(c.secret), 1>>}
           e2 == e1 \union OneIf(b2, l2)
           e3 == e2 \union OneIf(b3, l3)
           e4 == e3 \union OneIf(b4, l4)
           e5 == e4 \union OneIf(b5, l5)
           e6 == e5 \union OneIf(b6, l6)
           e7 == e6 \union OneIf(b7, l7)
           e8 == e7 \union OneIf(b8, l8)
           e9 == e8 \union OneIf(b9, l9)
           e10 == e9 \union LastEntries(c)
           e11 == e10 \union ScratchEntries(c)
           k1 == {"secret"}
           k2 == k1 \union {l2.key}
           k3 == k2 \union {l3.key}
           k4 == k3 \union {l4.key}
           k5 == k4 \union {l5.key}
           k6 == k5 \union {l6.key}
           k7 == k6 \union {l7.key}
           k8 == k7 \union {l8.key}
           k9 == k8 \union {l9.key}
           k10 == k9 \union {"LAST"}
           k11 == k10 \union {"scratch"}
           Begun(s) == s # << >> /\ s[1] = SecretLine(c.secret)
<1>1. Bytes(c) = s11 /\ Entries(c) = e11
  BY Zenon DEF Bytes, Entries
<1>2. /\ b2 \in BOOLEAN /\ b3 \in BOOLEAN /\ b4 \in BOOLEAN /\ b5 \in BOOLEAN
      /\ b6 \in BOOLEAN /\ b7 \in BOOLEAN /\ b8 \in BOOLEAN /\ b9 \in BOOLEAN
  BY DEF Config, HasRateLimit
<1>3. /\ l2.key = "TOTP_AUTH" /\ l3.key = "HOTP_COUNTER" /\ l4.key = "STEP_SIZE"
      /\ l5.key = "WINDOW_SIZE" /\ l6.key = "RATE_LIMIT"
      /\ l7.key = "DISALLOW_REUSE" /\ l8.key = "TIME_SKEW"
      /\ l9.key = "RESETTING_TIME_SKEW" /\ SecretLine(c.secret).key = "secret"
  BY DEF Flag, Option, SecretLine
<1>4. \A e \in e11 : e[1] \in L
  BY <1>1 DEF LinesOf
<1>5. /\ SecretLine(c.secret) \in L
      /\ (b2 => l2 \in L) /\ (b3 => l3 \in L) /\ (b4 => l4 \in L)
      /\ (b5 => l5 \in L) /\ (b6 => l6 \in L) /\ (b7 => l7 \in L)
      /\ (b8 => l8 \in L) /\ (b9 => l9 \in L)
  <2> HIDE DEF L, b2, b3, b4, b5, b6, b7, b8, b9, l2, l3, l4, l5, l6, l7, l8, l9
  <2> QED
    <3>1. /\ OneIf(b2, l2) \subseteq e11 /\ OneIf(b3, l3) \subseteq e11
          /\ OneIf(b4, l4) \subseteq e11 /\ OneIf(b5, l5) \subseteq e11
          /\ OneIf(b6, l6) \subseteq e11 /\ OneIf(b7, l7) \subseteq e11
          /\ OneIf(b8, l8) \subseteq e11 /\ OneIf(b9, l9) \subseteq e11
          /\ <<SecretLine(c.secret), 1>> \in e11
      OBVIOUS
    <3> HIDE DEF e11
    <3>2. ASSUME NEW b, NEW line, b, OneIf(b, line) \subseteq e11
          PROVE  line \in L
      <4>1. <<line, 1>> \in e11
        BY <3>2 DEF OneIf
      <4> QED
        BY <1>4, <4>1
    <3>3. SecretLine(c.secret) \in L
      BY <1>4, <3>1
    <3> QED
      BY <3>1, <3>2, <3>3
<1>6. /\ \A e \in LastEntries(c) : e[1] \in L
      /\ \A e \in ScratchEntries(c) : e[1] \in L
  BY <1>4
<1>7. /\ Part(L, LastLines(c), LastEntries(c), {"LAST"})
      /\ Part(L, ScratchLines(c), ScratchEntries(c), {"scratch"})
  BY <1>6, LastLinesArePart, ScratchLinesArePart
<1> HIDE DEF L, b2, b3, b4, b5, b6, b7, b8, b9, l2, l3, l4, l5, l6, l7, l8, l9
<1>8. Part(L, s1, e1, k1) /\ Begun(s1)
  <2> DEFINE line == SecretLine(c.secret)
  <2> HIDE DEF line
  <2>1. Part(L, When(TRUE, line), OneIf(TRUE, line), {line.key})
    BY <1>5, WhenIsPart DEF line
  <2>2. Part(L, <<line>>, {<<line, 1>>}, {line.key})
    BY <2>1 DEF When, OneIf
  <2>3. <<line>> # << >> /\ <<line>>[1] = line
    OBVIOUS
  <2> QED
    BY <1>3, <2>2, <2>3 DEF line
<1>9. /\ l2.key \notin k1 /\ l3.key \notin k2 /\ l4.key \notin k3 /\ l5.key \notin k4
      /\ l6.key \notin k5 /\ l7.key \notin k6 /\ l8.key \notin k7 /\ l9.key \notin k8
      /\ k9 \cap {"LAST"} = {} /\ k10 \cap {"scratch"} = {}
  BY <1>3
<1> HIDE DEF s1, e1, k1, k2, k3, k4, k5, k6, k7, k8, k9, k10, k11
<1>10. Part(L, s2, e2, k2) /\ Begun(s2)
  BY <1>2, <1>5, <1>8, <1>9, OptionIsAdded DEF k2
<1> HIDE DEF s2, e2
<1>11. Part(L, s3, e3, k3) /\ Begun(s3)
  BY <1>2, <1>5, <1>10, <1>9, OptionIsAdded DEF k3
<1> HIDE DEF s3, e3
<1>12. Part(L, s4, e4, k4) /\ Begun(s4)
  BY <1>2, <1>5, <1>11, <1>9, OptionIsAdded DEF k4
<1> HIDE DEF s4, e4
<1>13. Part(L, s5, e5, k5) /\ Begun(s5)
  BY <1>2, <1>5, <1>12, <1>9, OptionIsAdded DEF k5
<1> HIDE DEF s5, e5
<1>14. Part(L, s6, e6, k6) /\ Begun(s6)
  BY <1>2, <1>5, <1>13, <1>9, OptionIsAdded DEF k6
<1> HIDE DEF s6, e6
<1>15. Part(L, s7, e7, k7) /\ Begun(s7)
  BY <1>2, <1>5, <1>14, <1>9, OptionIsAdded DEF k7
<1> HIDE DEF s7, e7
<1>16. Part(L, s8, e8, k8) /\ Begun(s8)
  BY <1>2, <1>5, <1>15, <1>9, OptionIsAdded DEF k8
<1> HIDE DEF s8, e8
<1>17. Part(L, s9, e9, k9) /\ Begun(s9)
  BY <1>2, <1>5, <1>16, <1>9, OptionIsAdded DEF k9
<1> HIDE DEF s9, e9
<1>18. Part(L, s10, e10, k10) /\ Begun(s10)
  BY <1>7, <1>17, <1>9, PartsConcat DEF k10
<1> HIDE DEF s10, e10
<1>19. Part(L, s11, e11, k11) /\ Begun(s11)
  BY <1>7, <1>18, <1>9, PartsConcat DEF k11
<1> QED
  BY <1>1, <1>19 DEF L, Part

-----------------------------------------------------------------------------
(*****************************************************************************)
(* Parse, line by line.                                                      *)
(*****************************************************************************)

\* One step of Parse.
ReadLine(result, line) ==
  IF result.ok THEN parseOption(result.cfg, line) ELSE result

\* Parse reads the lines below the secret one after the other.
LEMMA ParseIsARun ==
  ASSUME NEW L, NEW file \in Seq(L), file # << >>, file[1].value # "missing"
  PROVE  \E r : /\ r[0] = Parsed(NewConfig(file[1].value))
                /\ \A n \in 1 .. Len(file) - 1 :
                     r[n] = ReadLine(r[n - 1], file[n + 1])
                /\ Parse(file) = r[Len(file) - 1]
<1> DEFINE s == Tail(file)
           start == Parsed(NewConfig(file[1].value))
           K == Len(file) - 1
           Read(a, line) == ReadLine(a, line)
           Next(it, t) == IF t = {} THEN start
                          ELSE Read(it[t \ {Max(t)}], s[Max(t)])
           IsFold(k, it) == it = [t \in SUBSET (1 .. k) |-> Next(it, t)]
           HasFold(k) == \E it : IsFold(k, it)
           Foldable == {k \in Nat : HasFold(k)}
<1>1. K \in Nat /\ s \in Seq(L) /\ Len(s) = K /\ DOMAIN s = 1 .. K
      /\ \A n \in 1 .. K : s[n] = file[n + 1]
  OBVIOUS
<1> HIDE DEF s, start, K, Read
<1>2. HasFold(0)
  <2> DEFINE it == [t \in SUBSET (1 .. 0) |-> start]
  <2>1. \A t \in SUBSET (1 .. 0) : t = {}
    OBVIOUS
  <2>2. IsFold(0, it)
    BY <2>1
  <2> QED
    BY <2>2
<1>3. ASSUME NEW k \in Nat, HasFold(k)
      PROVE  HasFold(k + 1)
  <2>1. PICK it : IsFold(k, it)
    BY <1>3
  <2> DEFINE q == [t \in SUBSET (1 .. k + 1) |->
                    IF k + 1 \in t THEN Read(it[t \ {k + 1}], s[k + 1]) ELSE it[t]]
  <2>2. ASSUME NEW t \in SUBSET (1 .. k + 1)
        PROVE  q[t] = Next(q, t)
    <3>1. CASE k + 1 \in t
      <4>1. Max(t) = k + 1
        <5>1. t \in SUBSET Int /\ \A y \in t : y <= k + 1
          OBVIOUS
        <5> QED
          BY <3>1, <5>1, MaxIsGreatest
      <4>2. t \ {k + 1} \in SUBSET (1 .. k + 1) /\ k + 1 \notin t \ {k + 1}
        OBVIOUS
      <4>3. q[t \ {k + 1}] = it[t \ {k + 1}]
        BY <4>2
      <4>4. q[t] = Read(it[t \ {k + 1}], s[k + 1])
        BY <3>1
      <4> QED
        BY <3>1, <4>1, <4>3, <4>4
    <3>2. CASE k + 1 \notin t
      <4>1. t \in SUBSET (1 .. k)
        BY <3>2
      <4>2. q[t] = it[t]
        BY <3>2
      <4> HIDE DEF q
      <4>3. it[t] = Next(it, t)
        BY <2>1, <4>1
      <4>4. CASE t = {}
        BY <4>2, <4>3, <4>4
      <4>5. CASE t # {}
        <5>1. t \ {Max(t)} \in SUBSET (1 .. k + 1) /\ k + 1 \notin t \ {Max(t)}
          BY <3>2
        <5>2. q[t \ {Max(t)}] = it[t \ {Max(t)}]
          BY <5>1 DEF q
        <5> QED
          BY <4>2, <4>3, <4>5, <5>2
      <4> QED
        BY <4>4, <4>5
    <3> QED
      BY <3>1, <3>2
  <2>3. IsFold(k + 1, q)
    BY <2>2
  <2> QED
    BY <2>3
<1> HIDE DEF HasFold
<1>4. HasFold(K)
  <2>1. 0 \in Foldable /\ \A n \in Nat : n \in Foldable => n + 1 \in Foldable
    BY <1>2, <1>3
  <2> HIDE DEF Foldable
  <2>2. Nat \subseteq Foldable
    BY <2>1, NatSetInduction
  <2> QED
    BY <1>1, <2>2 DEF Foldable
<1> DEFINE fold == CHOOSE it : IsFold(K, it)
<1>5. IsFold(K, fold)
  BY <1>4 DEF HasFold
<1>6. Parse(file) = fold[1 .. K]
  <2>1. Parse(file) = FoldLeft(LAMBDA result, line :
                  IF result.ok THEN parseOption(result.cfg, line) ELSE result, start, s)
    BY DEF Parse, s, start
  <2>2. FoldLeft(LAMBDA result, line :
                  IF result.ok THEN parseOption(result.cfg, line) ELSE result, start, s) = fold[DOMAIN s]
    BY <1>1 DEF FoldLeft, MapThenFoldSet, ReadLine, Read
  <2> QED BY <1>1, <2>1, <2>2
<1> HIDE DEF fold
<1> DEFINE r == [n \in 0 .. K |-> fold[1 .. n]]
<1>7. r[0] = start
  <2>1. 1 .. 0 = {} /\ {} \in SUBSET (1 .. K) /\ 0 \in 0 .. K
    BY <1>1
  <2> QED
    BY <1>5, <2>1
<1>8. ASSUME NEW n \in 1 .. K
      PROVE  r[n] = Read(r[n - 1], s[n])
  <2>1. /\ 1 .. n \in SUBSET (1 .. K) /\ 1 .. n # {}
        /\ Max(1 .. n) = n /\ (1 .. n) \ {n} = 1 .. n - 1
    BY <1>1, PrefixTop
  <2>2. n \in 0 .. K /\ n - 1 \in 0 .. K
    BY <1>1
  <2>3. fold[1 .. n] = Read(fold[1 .. n - 1], s[n])
    BY <1>5, <2>1
  <2> QED
    BY <2>2, <2>3
<1>9. r[K] = fold[1 .. K]
  BY <1>1
<1> HIDE DEF r
<1> QED
  BY <1>1, <1>6, <1>7, <1>8, <1>9 DEF start, K, Read, ReadLine


\* A file with the lines of c below its secret, in any order.
Describes(f, c) ==
  /\ f \in Seq(LinesOf(c))
  /\ f # << >> /\ f[1] = SecretLine(c.secret)
  /\ Enumerates(f, Entries(c))

\* What Parse has put together when it has read f up to line n.
Seen(f, n, key) == \E m \in 2 .. n : f[m].key = key

\* How many lines of each scratch code it has read.
CodesSeen(f, n) ==
  [code \in ScratchCodes |-> Cardinality({m \in 2 .. n : f[m] = ScratchLine(code)})]

\* The login records it has read; the others are empty.
Logins(c, f, n) ==
  [i \in Slots |-> IF \E m \in 2 .. n : f[m] = LastLine(i, c.lastLogins[i])
                   THEN Rejoin(c.lastLogins[i]) ELSE NoLogin]

\* A line that Parse refuses.
IsBlankLine(line) == line.key = "LAST" /\ Rejoined[line.record.host] = NoHost

\* The options of one value, and their keys.
KeyOf ==
  [ totpAuth |-> "TOTP_AUTH", hotpConfigured |-> "HOTP_COUNTER",
    hotpCounter |-> "HOTP_COUNTER", stepSize |-> "STEP_SIZE",
    windowSize |-> "WINDOW_SIZE", disallowReuse |-> "DISALLOW_REUSE",
    disallowed |-> "DISALLOW_REUSE", rateLimit |-> "RATE_LIMIT",
    timeSkew |-> "TIME_SKEW", samples |-> "RESETTING_TIME_SKEW" ]

\* A configuration is a function of its fields.
Fields == DOMAIN KeyOf \union {"secret", "scratch", "lastLogins", "dirty"}

\* What Parse has then: the options it has seen, and the defaults of the others.
Partial(c, f, n) ==
  [field \in Fields |->
     IF field = "scratch" THEN CodesSeen(f, n)
     ELSE IF field = "lastLogins" THEN Logins(c, f, n)
     ELSE IF field \in DOMAIN KeyOf /\ Seen(f, n, KeyOf[field]) THEN c[field]
     ELSE NewConfig(c.secret)[field]]

\* A line of c's file below the secret.
IsOptionOf(line, c) ==
  \/ line = Flag("TOTP_AUTH") /\ c.totpAuth
  \/ line = Option("HOTP_COUNTER", c.hotpCounter) /\ c.hotpConfigured
  \/ line = Option("STEP_SIZE", c.stepSize) /\ c.stepSize # DefaultStepSize
  \/ line = Option("WINDOW_SIZE", c.windowSize) /\ c.windowSize # DefaultWindow
  \/ line = Option("RATE_LIMIT", c.rateLimit) /\ HasRateLimit(c)
  \/ line = Option("DISALLOW_REUSE", c.disallowed) /\ c.disallowReuse
  \/ line = Option("TIME_SKEW", c.timeSkew) /\ c.timeSkew # 0
  \/ line = Option("RESETTING_TIME_SKEW", c.samples) /\ c.samples # << >>
  \/ \E i \in Slots : line = LastLine(i, c.lastLogins[i]) /\ IsWritten(c.lastLogins[i])
  \/ \E code \in ScratchCodes : line = ScratchLine(code)

\* An entry of the file is such a line.
LEMMA EntryIsOption ==
  ASSUME NEW c \in Config, NEW e \in Entries(c), e[1].key # "secret"
  PROVE  IsOptionOf(e[1], c)
<1>1. CASE e \in LastEntries(c)
  BY <1>1 DEF LastEntries, OneIf, IsOptionOf
<1>2. CASE e \in ScratchEntries(c)
  BY <1>2 DEF ScratchEntries, IsOptionOf
<1>3. e # <<SecretLine(c.secret), 1>>
  BY DEF SecretLine
<1>4. CASE e \notin LastEntries(c) /\ e \notin ScratchEntries(c)
  <2>1. \/ e \in OneIf(c.totpAuth, Flag("TOTP_AUTH"))
        \/ e \in OneIf(c.hotpConfigured, Option("HOTP_COUNTER", c.hotpCounter))
        \/ e \in OneIf(c.stepSize # DefaultStepSize, Option("STEP_SIZE", c.stepSize))
        \/ e \in OneIf(c.windowSize # DefaultWindow, Option("WINDOW_SIZE", c.windowSize))
        \/ e \in OneIf(HasRateLimit(c), Option("RATE_LIMIT", c.rateLimit))
        \/ e \in OneIf(c.disallowReuse, Option("DISALLOW_REUSE", c.disallowed))
        \/ e \in OneIf(c.timeSkew # 0, Option("TIME_SKEW", c.timeSkew))
        \/ e \in OneIf(c.samples # << >>, Option("RESETTING_TIME_SKEW", c.samples))
    BY <1>3, <1>4 DEF Entries
  <2> QED
    BY <2>1 DEF OneIf, IsOptionOf
<1> QED
  BY <1>1, <1>2, <1>4

\* In a file that describes c, the lines below the secret are options of c.
LEMMA LinesAreOptions ==
  ASSUME NEW c \in Config, NEW f, Describes(f, c), NEW n \in 2 .. Len(f)
  PROVE  IsOptionOf(f[n], c)
<1>1. Len(f) \in Nat \ {0} /\ DOMAIN f = 1 .. Len(f)
  BY DEF Describes
<1>2. PICK place \in [DOMAIN f -> Entries(c)] :
        /\ \A i, j \in DOMAIN f : place[i] = place[j] => i = j
        /\ \A i \in DOMAIN f : f[i] = place[i][1]
  BY DEF Describes, Enumerates
<1>3. n \in DOMAIN f /\ 1 \in DOMAIN f /\ n # 1
  BY <1>1
<1>4. ASSUME NEW e \in Entries(c), e[1].key = "secret"
      PROVE  e = <<SecretLine(c.secret), 1>>
  BY <1>4 DEF Entries, OneIf, LastEntries, ScratchEntries, Flag, Option, LastLine,
              ScratchLine
<1>5. place[1] = <<SecretLine(c.secret), 1>>
  BY <1>2, <1>3, <1>4 DEF Describes, SecretLine
<1>6. place[n] \in Entries(c) /\ place[n][1].key # "secret"
  BY <1>2, <1>3, <1>4, <1>5
<1> QED
  BY <1>2, <1>3, <1>6, EntryIsOption

\* One line more.
LEMMA SeenNext ==
  ASSUME NEW f, NEW n \in Nat, n >= 2, NEW key
  PROVE  Seen(f, n, key) <=> Seen(f, n - 1, key) \/ f[n].key = key
<1>1. 2 .. n = (2 .. n - 1) \union {n}
  OBVIOUS
<1> QED
  BY <1>1 DEF Seen

\* One line of a scratch code more, or none.
LEMMA CodesSeenNext ==
  ASSUME NEW f, NEW n \in Nat, n >= 2
  PROVE  /\ f[n].key # "scratch" => CodesSeen(f, n) = CodesSeen(f, n - 1)
         /\ \A code \in ScratchCodes :
              f[n] = ScratchLine(code) =>
                CodesSeen(f, n) = [CodesSeen(f, n - 1) EXCEPT ![code] = @ + 1]
<1> DEFINE At(k, code) == {m \in 2 .. k : f[m] = ScratchLine(code)}
<1>1. /\ 2 .. n = (2 .. n - 1) \union {n} /\ n \notin 2 .. n - 1
      /\ n - 1 \in Int
  OBVIOUS
<1>2. ASSUME NEW code \in ScratchCodes, f[n] # ScratchLine(code)
      PROVE  At(n, code) = At(n - 1, code)
  BY <1>1, <1>2
<1>3. ASSUME NEW code \in ScratchCodes, f[n] = ScratchLine(code)
      PROVE  Cardinality(At(n, code)) = Cardinality(At(n - 1, code)) + 1
  <2>1. At(n, code) = At(n - 1, code) \union {n} /\ n \notin At(n - 1, code)
    BY <1>1, <1>3
  <2>2. IsFiniteSet(2 .. n - 1) /\ At(n - 1, code) \in SUBSET (2 .. n - 1)
    BY <1>1, FS_Interval
  <2> HIDE DEF At
  <2>3. IsFiniteSet(At(n - 1, code))
    BY <2>2, FS_Subset
  <2> QED
    BY <2>1, <2>3, FS_AddElement
<1>4. /\ CodesSeen(f, n) = [code \in ScratchCodes |-> Cardinality(At(n, code))]
      /\ CodesSeen(f, n - 1) = [code \in ScratchCodes |-> Cardinality(At(n - 1, code))]
  BY DEF CodesSeen
<1>5. \A x, y \in ScratchCodes : ScratchLine(x) = ScratchLine(y) => x = y
  BY DEF ScratchLine
<1>6. \A x \in ScratchCodes : ScratchLine(x).key = "scratch"
  BY DEF ScratchLine
<1> HIDE DEF At
<1> QED
  BY <1>2, <1>3, <1>4, <1>5, <1>6

\* One login record more, or none.
LEMMA LoginsNext ==
  ASSUME NEW c, NEW f, NEW n \in Nat, n >= 2
  PROVE  /\ f[n].key # "LAST" => Logins(c, f, n) = Logins(c, f, n - 1)
         /\ \A i \in Slots :
              f[n] = LastLine(i, c.lastLogins[i]) =>
                Logins(c, f, n) = [Logins(c, f, n - 1) EXCEPT ![i] = Rejoin(c.lastLogins[i])]
<1> DEFINE Line(i) == LastLine(i, c.lastLogins[i])
           Found(k, i) == \E m \in 2 .. k : f[m] = Line(i)
<1>1. 2 .. n = (2 .. n - 1) \union {n}
  OBVIOUS
<1>2. \A i \in Slots : Found(n, i) <=> Found(n - 1, i) \/ f[n] = Line(i)
  BY <1>1
<1>3. \A i \in Slots : Line(i).key = "LAST"
  BY DEF LastLine
<1>4. \A i, j \in Slots : Line(i) = Line(j) => i = j
  BY DEF LastLine
<1>5. /\ Logins(c, f, n) =
           [i \in Slots |-> IF Found(n, i) THEN Rejoin(c.lastLogins[i]) ELSE NoLogin]
      /\ Logins(c, f, n - 1) =
           [i \in Slots |-> IF Found(n - 1, i) THEN Rejoin(c.lastLogins[i]) ELSE NoLogin]
  BY DEF Logins
<1> HIDE DEF Found
<1>6. f[n].key # "LAST" => Logins(c, f, n) = Logins(c, f, n - 1)
  BY <1>2, <1>3, <1>5
<1>7. ASSUME NEW i \in Slots, f[n] = Line(i)
      PROVE  Logins(c, f, n) = [Logins(c, f, n - 1) EXCEPT ![i] = Rejoin(c.lastLogins[i])]
  <2>1. \A j \in Slots : Found(n, j) <=> Found(n - 1, j) \/ j = i
    BY <1>2, <1>4, <1>7
  <2> HIDE DEF Line
  <2> QED
    BY <1>5, <2>1
<1> QED
  BY <1>6, <1>7

\* Two configurations that differ in the field a line sets.
DifferBy(line, c, p, q) ==
  /\ p = [field \in Fields |-> p[field]] /\ q = [field \in Fields |-> q[field]]
  /\ \A field \in Fields \ {"scratch", "lastLogins"} :
       q[field] = IF field \in DOMAIN KeyOf /\ line.key = KeyOf[field]
                  THEN c[field] ELSE p[field]
  /\ line.key # "scratch" => q.scratch = p.scratch
  /\ line.key # "LAST" => q.lastLogins = p.lastLogins

\* What is read up to a line differs from what was read before in its field.
LEMMA NextLineDiffers ==
  ASSUME NEW c, NEW f, NEW n \in Nat, n >= 2
  PROVE  DifferBy(f[n], c, Partial(c, f, n - 1), Partial(c, f, n))
<1>1. /\ f[n].key # "scratch" => CodesSeen(f, n) = CodesSeen(f, n - 1)
      /\ f[n].key # "LAST" => Logins(c, f, n) = Logins(c, f, n - 1)
  BY CodesSeenNext, LoginsNext
<1>2. \A field \in Fields \ {"scratch", "lastLogins"} :
        Partial(c, f, n)[field] =
          IF field \in DOMAIN KeyOf /\ f[n].key = KeyOf[field]
          THEN c[field] ELSE Partial(c, f, n - 1)[field]
  BY SeenNext DEF Partial
<1>3. /\ {"scratch", "lastLogins"} \subseteq Fields
      /\ \A m : /\ Partial(c, f, m).scratch = CodesSeen(f, m)
               /\ Partial(c, f, m).lastLogins = Logins(c, f, m)
  BY DEF Partial, Fields
<1>4. \A m : Partial(c, f, m) = [field \in Fields |-> Partial(c, f, m)[field]]
  BY DEF Partial
<1> QED
  BY <1>1, <1>2, <1>3, <1>4 DEF DifferBy

\* So it is what was read before with that field set.
LEMMA OneFieldIsSet ==
  ASSUME NEW c, NEW p, NEW q, NEW line, DifferBy(line, c, p, q),
         NEW option \in DOMAIN KeyOf, line.key = KeyOf[option],
         \A other \in DOMAIN KeyOf : other # option => KeyOf[other] # KeyOf[option]
  PROVE  [p EXCEPT ![option] = c[option]] = q
<1>1. line.key # "scratch" /\ line.key # "LAST"
  BY DEF KeyOf
<1>2. \A field \in Fields : field # option => q[field] = p[field]
  BY <1>1 DEF DifferBy
<1>3. option \in Fields /\ q[option] = c[option]
  BY DEF DifferBy, Fields, KeyOf
<1>4. p = [field \in Fields |-> p[field]] /\ q = [field \in Fields |-> q[field]]
  BY DEF DifferBy
<1> QED
  BY <1>2, <1>3, <1>4

\* A rate limit in range is one that Parse does not refuse.
LEMMA LimitIsRead ==
  ASSUME NEW c \in Config, InRange(c), HasRateLimit(c), NEW p
  PROVE  parseRateLimit(p, c.rateLimit) = Parsed([p EXCEPT !.rateLimit = c.rateLimit])
<1> DEFINE attempts == c.rateLimit.attempts
           interval == c.rateLimit.interval
<1>1. attempts \in Nat /\ interval \in Nat /\ attempts > 0
  BY DEF Config, RateLimit, HasRateLimit
<1>2. attempts <= 100 /\ interval <= 3600 /\ interval > 0
  BY DEF InRange, LimitInRange
<1> HIDE DEF attempts, interval
<1>3. attempts \in 1 .. 100 /\ interval \in 1 .. 3600
  BY <1>1, <1>2
<1>4. ASSUME NEW limit, limit.attempts \in 1 .. 100, limit.interval \in 1 .. 3600
      PROVE  parseRateLimit(p, limit) = Parsed([p EXCEPT !.rateLimit = limit])
  BY <1>4 DEF parseRateLimit, ParsedIf
<1> QED
  BY <1>3, <1>4 DEF attempts, interval

\* Reading an option of c adds what it says.
LEMMA OptionIsRead ==
  ASSUME NEW c \in Config, InRange(c), NEW f, NEW n \in Nat, n >= 2,
         IsOptionOf(f[n], c), ~IsBlankLine(f[n])
  PROVE  parseOption(Partial(c, f, n - 1), f[n]) = Parsed(Partial(c, f, n))
<1> DEFINE p == Partial(c, f, n - 1)
           q == Partial(c, f, n)
           line == f[n]
<1>1. /\ \A i \in Slots :
           line = LastLine(i, c.lastLogins[i]) =>
             q.lastLogins = [p.lastLogins EXCEPT ![i] = Rejoin(c.lastLogins[i])]
      /\ \A code \in ScratchCodes :
           line = ScratchLine(code) =>
             q.scratch = [p.scratch EXCEPT ![code] = @ + 1]
  BY CodesSeenNext, LoginsNext DEF Partial, Fields
<1>2. DifferBy(line, c, p, q)
  BY NextLineDiffers
<1>13. p.disallowed = {} \/ p.disallowed = c.disallowed
  BY DEF Partial, KeyOf, Fields, NewConfig
<1>14. IsOptionOf(line, c) /\ ~IsBlankLine(line)
  OBVIOUS
<1> SUFFICES parseOption(p, line) = Parsed(q)
  OBVIOUS
<1> HIDE DEF p, q, line
<1>3. CASE line = Flag("TOTP_AUTH") /\ c.totpAuth
  <2>1. line.key = "TOTP_AUTH" /\ parseOption(p, line) = Parsed([p EXCEPT !.totpAuth = TRUE])
    BY <1>3 DEF Flag, parseOption
  <2>2. [p EXCEPT !.totpAuth = TRUE] = q
    BY <1>2, <1>3, <2>1, OneFieldIsSet DEF KeyOf, Config
  <2> QED
    BY <2>1, <2>2
<1>4. CASE line = Option("HOTP_COUNTER", c.hotpCounter) /\ c.hotpConfigured
  <2>1. /\ line.key = "HOTP_COUNTER"
        /\ parseOption(p, line) =
             Parsed([p EXCEPT !.hotpConfigured = TRUE, !.hotpCounter = c.hotpCounter])
    BY <1>4 DEF Option, parseOption
  <2>2. /\ {"hotpConfigured", "hotpCounter"} \subseteq Fields
        /\ q.hotpConfigured = c.hotpConfigured /\ q.hotpCounter = c.hotpCounter
        /\ c.hotpConfigured = TRUE
    BY <1>2, <1>4, <2>1 DEF DifferBy, KeyOf, Fields, Config
  <2>5. \A field \in Fields \ {"hotpConfigured", "hotpCounter"} : q[field] = p[field]
    BY <1>2, <2>1 DEF DifferBy, KeyOf, Fields
  <2>3. [p EXCEPT !.hotpConfigured = TRUE, !.hotpCounter = c.hotpCounter] = q
    BY <1>2, <2>2, <2>5 DEF DifferBy
  <2> QED
    BY <2>1, <2>3
<1>5. CASE line = Option("STEP_SIZE", c.stepSize)
  <2>1. line.key = "STEP_SIZE" /\ parseOption(p, line) = Parsed([p EXCEPT !.stepSize = c.stepSize])
    BY <1>5 DEF Option, parseOption, ParsedIf, InRange
  <2>2. [p EXCEPT !.stepSize = c.stepSize] = q
    BY <1>2, <1>5, <2>1, OneFieldIsSet DEF KeyOf, Config
  <2> QED
    BY <2>1, <2>2
<1>6. CASE line = Option("WINDOW_SIZE", c.windowSize)
  <2>1. line.key = "WINDOW_SIZE" /\ parseOption(p, line) = Parsed([p EXCEPT !.windowSize = c.windowSize])
    BY <1>6 DEF Option, parseOption, ParsedIf, InRange
  <2>2. [p EXCEPT !.windowSize = c.windowSize] = q
    BY <1>2, <1>6, <2>1, OneFieldIsSet DEF KeyOf, Config
  <2> QED
    BY <2>1, <2>2
<1>7. CASE line = Option("RATE_LIMIT", c.rateLimit) /\ HasRateLimit(c)
  <2>1. line.key = "RATE_LIMIT" /\ line.value = c.rateLimit
    BY <1>7 DEF Option
  <2>2. parseOption(p, line) = parseRateLimit(p, line.value)
    BY <2>1 DEF parseOption
  <2>3. parseRateLimit(p, c.rateLimit) = Parsed([p EXCEPT !.rateLimit = c.rateLimit])
    BY <1>7, LimitIsRead
  <2>4. [p EXCEPT !.rateLimit = c.rateLimit] = q
    BY <1>2, <2>1, OneFieldIsSet DEF KeyOf, Config
  <2> QED
    BY <2>1, <2>2, <2>3, <2>4
<1>8. CASE line = Option("DISALLOW_REUSE", c.disallowed) /\ c.disallowReuse
  <2>1. /\ line.key = "DISALLOW_REUSE"
        /\ parseOption(p, line) =
             Parsed([p EXCEPT !.disallowReuse = TRUE,
                              !.disallowed = p.disallowed \union c.disallowed])
    BY <1>8 DEF Option, parseOption
  <2>2. p.disallowed \union c.disallowed = c.disallowed
    BY <1>13
  <2>3. /\ {"disallowReuse", "disallowed"} \subseteq Fields
        /\ q.disallowReuse = c.disallowReuse /\ q.disallowed = c.disallowed
        /\ c.disallowReuse = TRUE
    BY <1>2, <1>8, <2>1 DEF DifferBy, KeyOf, Fields, Config
  <2>5. \A field \in Fields \ {"disallowReuse", "disallowed"} : q[field] = p[field]
    BY <1>2, <2>1 DEF DifferBy, KeyOf, Fields
  <2>4. [p EXCEPT !.disallowReuse = TRUE, !.disallowed = c.disallowed] = q
    BY <1>2, <2>3, <2>5 DEF DifferBy
  <2> QED
    BY <2>1, <2>2, <2>4
<1>9. CASE line = Option("TIME_SKEW", c.timeSkew)
  <2>1. line.key = "TIME_SKEW" /\ parseOption(p, line) = Parsed([p EXCEPT !.timeSkew = c.timeSkew])
    BY <1>9 DEF Option, parseOption
  <2>2. [p EXCEPT !.timeSkew = c.timeSkew] = q
    BY <1>2, <1>9, <2>1, OneFieldIsSet DEF KeyOf, Config
  <2> QED
    BY <2>1, <2>2
<1>10. CASE line = Option("RESETTING_TIME_SKEW", c.samples)
  <2>1. line.key = "RESETTING_TIME_SKEW" /\ parseOption(p, line) = Parsed([p EXCEPT !.samples = c.samples])
    BY <1>10 DEF Option, parseOption, parseSkewSamples, ParsedIf, InRange,
               SamplesInRange
  <2>2. [p EXCEPT !.samples = c.samples] = q
    BY <1>2, <1>10, <2>1, OneFieldIsSet DEF KeyOf, Config
  <2> QED
    BY <2>1, <2>2
<1>11. ASSUME NEW i \in Slots, line = LastLine(i, c.lastLogins[i])
       PROVE  parseOption(p, line) = Parsed(q)
  <2>4. /\ line.key = "LAST" /\ line.slot = i /\ line.record = c.lastLogins[i]
        /\ Rejoined[line.record.host] # NoHost
    BY <1>11, <1>14 DEF LastLine, IsBlankLine
  <2>1. /\ line.key = "LAST"
        /\ parseOption(p, line) =
             Parsed([p EXCEPT !.lastLogins =
                                 [p.lastLogins EXCEPT ![i] = Rejoin(c.lastLogins[i])]])
    BY <2>4 DEF parseOption, parseLastLogin, ParsedIf
  <2>2. /\ "lastLogins" \in Fields
        /\ \A field \in Fields \ {"lastLogins"} : q[field] = p[field]
    BY <1>2, <2>1 DEF DifferBy, KeyOf, Fields
  <2>3. [p EXCEPT !.lastLogins = q.lastLogins] = q
    BY <1>2, <2>2 DEF DifferBy
  <2> QED
    BY <1>1, <1>11, <2>1, <2>3
<1>12. ASSUME NEW code \in ScratchCodes, line = ScratchLine(code)
       PROVE  parseOption(p, line) = Parsed(q)
  <2>1. /\ line.key = "scratch"
        /\ parseOption(p, line) =
             Parsed([p EXCEPT !.scratch = [p.scratch EXCEPT ![code] = @ + 1]])
    BY <1>12 DEF ScratchLine, parseOption
  <2>2. /\ "scratch" \in Fields
        /\ \A field \in Fields \ {"scratch"} : q[field] = p[field]
    BY <1>2, <2>1 DEF DifferBy, KeyOf, Fields
  <2>3. [p EXCEPT !.scratch = q.scratch] = q
    BY <1>2, <2>2 DEF DifferBy
  <2> QED
    BY <1>1, <1>12, <2>1, <2>3
<1> QED
  BY <1>3, <1>4, <1>5, <1>6, <1>7, <1>8, <1>9, <1>10, <1>11, <1>12, <1>14
     DEF IsOptionOf

\* A line of a blank host is refused, whatever was read before.
LEMMA BlankIsRefused ==
  ASSUME NEW p, NEW line, IsBlankLine(line)
  PROVE  parseOption(p, line) = Rejected
BY DEF IsBlankLine, parseOption, parseLastLogin, ParsedIf

\* Before the first line Parse has a new configuration.
LEMMA NothingIsRead ==
  ASSUME NEW c, NEW f
  PROVE  Partial(c, f, 1) = NewConfig(c.secret)
<1>1. 2 .. 1 = {}
  OBVIOUS
<1>2. \A key : ~Seen(f, 1, key)
  BY <1>1 DEF Seen
<1>3. CodesSeen(f, 1) = [code \in ScratchCodes |-> 0]
  <2>1. \A code : {m \in 2 .. 1 : f[m] = ScratchLine(code)} = {}
    BY <1>1
  <2>2. Cardinality({}) = 0
    BY FS_EmptySet
  <2> QED
    BY <2>1, <2>2 DEF CodesSeen
<1>4. Logins(c, f, 1) = [i \in Slots |-> NoLogin]
  BY <1>1 DEF Logins
<1>5. /\ NewConfig(c.secret) = [field \in Fields |-> NewConfig(c.secret)[field]]
      /\ NewConfig(c.secret).scratch = [code \in ScratchCodes |-> 0]
      /\ NewConfig(c.secret).lastLogins = [i \in Slots |-> NoLogin]
  BY DEF NewConfig, Fields, KeyOf
<1>6. \A field \in Fields : Partial(c, f, 1)[field] = NewConfig(c.secret)[field]
  BY <1>2, <1>3, <1>4, <1>5 DEF Partial
<1>7. Partial(c, f, 1) = [field \in Fields |-> Partial(c, f, 1)[field]]
  BY DEF Partial
<1> QED
  BY <1>5, <1>6, <1>7

\* Every entry has its line below the secret.
LEMMA EntriesAreBelow ==
  ASSUME NEW c \in Config, NEW f, Describes(f, c), NEW e \in Entries(c),
         e[1].key # "secret"
  PROVE  \E m \in 2 .. Len(f) : f[m] = e[1]
<1>1. Len(f) \in Nat /\ DOMAIN f = 1 .. Len(f)
  BY DEF Describes
<1>2. PICK m \in DOMAIN f : f[m] = e[1]
  BY DEF Describes, Enumerates
<1>3. f[1].key = "secret"
  BY DEF Describes, SecretLine
<1> QED
  BY <1>1, <1>2, <1>3

\* As many lines as copies of each scratch code.
LEMMA AllCopiesAreBelow ==
  ASSUME NEW c \in Config, NEW f, Describes(f, c)
  PROVE  CodesSeen(f, Len(f)) = c.scratch
<1>1. Len(f) \in Nat /\ DOMAIN f = 1 .. Len(f)
  BY DEF Describes
<1>2. PICK place \in [DOMAIN f -> Entries(c)] :
        /\ \A i, j \in DOMAIN f : place[i] = place[j] => i = j
        /\ \A e \in Entries(c) : \E i \in DOMAIN f : place[i] = e
        /\ \A i \in DOMAIN f : f[i] = place[i][1]
  BY DEF Describes, Enumerates
<1>3. \A code \in ScratchCodes : c.scratch[code] \in Nat
  BY DEF Config
<1>4. ASSUME NEW code \in ScratchCodes
      PROVE  Cardinality({m \in 2 .. Len(f) : f[m] = ScratchLine(code)}) = c.scratch[code]
  <2> DEFINE A == {m \in 2 .. Len(f) : f[m] = ScratchLine(code)}
             B == 1 .. c.scratch[code]
             copyOf == [m \in A |-> place[m][2]]
  <2>1. ASSUME NEW e \in Entries(c), e[1] = ScratchLine(code)
        PROVE  \E n \in B : e = <<ScratchLine(code), n>>
    <3>1. e \in ScratchEntries(c)
      BY <2>1 DEF Entries, OneIf, LastEntries, LastLine, Flag, Option, SecretLine,
                  ScratchLine
    <3>2. PICK other \in ScratchCodes :
            e \in {ScratchLine(other)} \X (1 .. c.scratch[other])
      BY <3>1 DEF ScratchEntries
    <3>3. other = code
      BY <2>1, <3>2 DEF ScratchLine
    <3> QED
      BY <3>2, <3>3
  <2>2. ASSUME NEW m \in A
        PROVE  place[m] = <<ScratchLine(code), copyOf[m]>> /\ copyOf[m] \in B
    <3>1. m \in DOMAIN f /\ place[m] \in Entries(c) /\ place[m][1] = ScratchLine(code)
      BY <1>1, <1>2
    <3>2. PICK n \in B : place[m] = <<ScratchLine(code), n>>
      BY <2>1, <3>1
    <3> QED
      BY <3>2
  <2>3. ASSUME NEW n \in B
        PROVE  \E m \in A : copyOf[m] = n
    <3>1. <<ScratchLine(code), n>> \in Entries(c)
      BY DEF Entries, ScratchEntries
    <3>2. PICK m \in DOMAIN f : place[m] = <<ScratchLine(code), n>>
      BY <1>2, <3>1
    <3>3. f[m] = ScratchLine(code) /\ m # 1
      BY <1>2, <3>2 DEF Describes, SecretLine, ScratchLine
    <3>4. m \in A
      BY <1>1, <3>3
    <3> QED
      BY <3>2, <3>4
  <2>4. A \subseteq DOMAIN f
    BY <1>1
  <2>5. IsFiniteSet(A)
    <3>1. IsFiniteSet(2 .. Len(f)) /\ A \in SUBSET (2 .. Len(f))
      BY <1>1, FS_Interval
    <3> HIDE DEF A
    <3> QED
      BY <3>1, FS_Subset
  <2>6. copyOf \in [A -> B] /\ \A x, y \in A : copyOf[x] = copyOf[y] => x = y
    <3>1. \A x, y \in A : copyOf[x] = copyOf[y] => place[x] = place[y]
      BY <2>2
    <3>2. copyOf \in [A -> B]
      BY <2>2
    <3> HIDE DEF A, copyOf
    <3> QED
      BY <1>2, <2>4, <3>1, <3>2
  <2>7. Cardinality(B) = c.scratch[code]
    BY <1>3, FS_Interval
  <2> HIDE DEF A, B, copyOf
  <2>8. Cardinality(A) = Cardinality(B)
    BY <2>3, <2>5, <2>6, CorrespondingSets
  <2> QED
    BY <2>7, <2>8 DEF A
<1> QED
  BY <1>4 DEF CodesSeen, Config

\* An option whose line is not in the file has its default value.
LEMMA OptionsAreSeen ==
  ASSUME NEW c \in Config, InRange(c), NEW f, Describes(f, c),
         NEW field \in DOMAIN KeyOf, ~Seen(f, Len(f), KeyOf[field])
  PROVE  c[field] = NewConfig(c.secret)[field]
<1> DEFINE IsBelow(line) == <<line, 1>> \in Entries(c) /\ line.key = KeyOf[field]
<1>1. ASSUME NEW line, IsBelow(line)
      PROVE  FALSE
  <2>1. line.key # "secret" /\ line.key = KeyOf[field] /\ <<line, 1>> \in Entries(c)
    BY <1>1 DEF KeyOf
  <2>2. PICK m \in 2 .. Len(f) : f[m] = line
    BY <2>1, EntriesAreBelow
  <2> QED
    BY <2>1, <2>2 DEF Seen
<1> HIDE DEF IsBelow
<1>2. CASE field = "totpAuth"
  <2>1. c.totpAuth => IsBelow(Flag("TOTP_AUTH"))
    BY <1>2 DEF IsBelow, Entries, OneIf, KeyOf, Flag
  <2> QED
    BY <1>1, <1>2, <2>1 DEF NewConfig, Config
<1>3. CASE field \in {"hotpConfigured", "hotpCounter"}
  <2>1. c.hotpConfigured => IsBelow(Option("HOTP_COUNTER", c.hotpCounter))
    BY <1>3 DEF IsBelow, Entries, OneIf, KeyOf, Option
  <2>2. ~c.hotpConfigured
    BY <1>1, <2>1
  <2>3. c.hotpCounter = 0
    BY <2>2 DEF InRange, UnusedAreEmpty
  <2>4. c.hotpConfigured = FALSE
    BY <2>2 DEF Config
  <2>5. NewConfig(c.secret).hotpConfigured = FALSE /\ NewConfig(c.secret).hotpCounter = 0
    BY DEF NewConfig
  <2> QED
    BY <1>3, <2>3, <2>4, <2>5
<1>4. CASE field = "stepSize"
  <2>1. c.stepSize # DefaultStepSize => IsBelow(Option("STEP_SIZE", c.stepSize))
    BY <1>4 DEF IsBelow, Entries, OneIf, KeyOf, Option
  <2> QED
    BY <1>1, <1>4, <2>1 DEF NewConfig
<1>5. CASE field = "windowSize"
  <2>1. c.windowSize # DefaultWindow => IsBelow(Option("WINDOW_SIZE", c.windowSize))
    BY <1>5 DEF IsBelow, Entries, OneIf, KeyOf, Option
  <2> QED
    BY <1>1, <1>5, <2>1 DEF NewConfig
<1>6. CASE field \in {"disallowReuse", "disallowed"}
  <2>1. c.disallowReuse => IsBelow(Option("DISALLOW_REUSE", c.disallowed))
    BY <1>6 DEF IsBelow, Entries, OneIf, KeyOf, Option
  <2>2. ~c.disallowReuse
    BY <1>1, <2>1
  <2>3. c.disallowed = {}
    BY <2>2 DEF InRange, UnusedAreEmpty
  <2>4. c.disallowReuse = FALSE
    BY <2>2 DEF Config
  <2>5. NewConfig(c.secret).disallowReuse = FALSE /\ NewConfig(c.secret).disallowed = {}
    BY DEF NewConfig
  <2> QED
    BY <1>6, <2>3, <2>4, <2>5
<1>7. CASE field = "rateLimit"
  <2>1. HasRateLimit(c) => IsBelow(Option("RATE_LIMIT", c.rateLimit))
    BY <1>7 DEF IsBelow, Entries, OneIf, KeyOf, Option
  <2>2. c.rateLimit = NoRateLimit
    BY <1>1, <2>1 DEF InRange, LimitInRange
  <2> QED
    BY <1>7, <2>2 DEF NewConfig
<1>8. CASE field = "timeSkew"
  <2>1. c.timeSkew # 0 => IsBelow(Option("TIME_SKEW", c.timeSkew))
    BY <1>8 DEF IsBelow, Entries, OneIf, KeyOf, Option
  <2> QED
    BY <1>1, <1>8, <2>1 DEF NewConfig
<1>9. CASE field = "samples"
  <2>1. c.samples # << >> => IsBelow(Option("RESETTING_TIME_SKEW", c.samples))
    BY <1>9 DEF IsBelow, Entries, OneIf, KeyOf, Option
  <2> QED
    BY <1>1, <1>9, <2>1 DEF NewConfig
<1> QED
  BY <1>2, <1>3, <1>4, <1>5, <1>6, <1>7, <1>8, <1>9 DEF KeyOf

\* The line of a slot is there if its record is written.
LEMMA WrittenIsBelow ==
  ASSUME NEW c \in Config, NEW f, Describes(f, c), NEW i \in Slots
  PROVE  (\E m \in 2 .. Len(f) : f[m] = LastLine(i, c.lastLogins[i]))
           <=> IsWritten(c.lastLogins[i])
<1>1. ASSUME IsWritten(c.lastLogins[i])
      PROVE  \E m \in 2 .. Len(f) : f[m] = LastLine(i, c.lastLogins[i])
  <2>1. <<LastLine(i, c.lastLogins[i]), 1>> \in Entries(c)
    BY <1>1 DEF Entries, LastEntries, OneIf
  <2> QED
    BY <2>1, EntriesAreBelow DEF LastLine
<1>2. ASSUME NEW m \in 2 .. Len(f), f[m] = LastLine(i, c.lastLogins[i])
      PROVE  IsWritten(c.lastLogins[i])
  <2>1. IsOptionOf(LastLine(i, c.lastLogins[i]), c)
    BY <1>2, LinesAreOptions
  <2> QED
    BY <2>1 DEF IsOptionOf, LastLine, Flag, Option, ScratchLine
<1> QED
  BY <1>1, <1>2

\* A slot has the record of its line.
LEMMA LoginsAreSeen ==
  ASSUME NEW c \in Config, NEW f, Describes(f, c)
  PROVE  Logins(c, f, Len(f)) = ReadBack(c).lastLogins
<1>1. ReadBack(c).lastLogins =
        [i \in Slots |-> IF IsWritten(c.lastLogins[i]) THEN Rejoin(c.lastLogins[i])
                         ELSE NoLogin]
  BY DEF ReadBack, Config
<1> QED
  BY <1>1, WrittenIsBelow DEF Logins

\* A file has a line of a blank host if its configuration has such a record.
LEMMA BlankIsBelow ==
  ASSUME NEW c \in Config, NEW f, Describes(f, c)
  PROVE  (\E m \in 2 .. Len(f) : IsBlankLine(f[m])) <=> HasBlankHost(c)
<1>1. ASSUME NEW m \in 2 .. Len(f), IsBlankLine(f[m])
      PROVE  HasBlankHost(c)
  <2>1. IsOptionOf(f[m], c) /\ f[m].key = "LAST"
    BY <1>1, LinesAreOptions DEF IsBlankLine
  <2>4. ASSUME NEW line, line.key = "LAST", IsOptionOf(line, c)
        PROVE  \E i \in Slots : line = LastLine(i, c.lastLogins[i]) /\ IsWritten(c.lastLogins[i])
    <3>1. /\ line # Flag("TOTP_AUTH")
          /\ \A key \in {"HOTP_COUNTER", "STEP_SIZE", "WINDOW_SIZE", "RATE_LIMIT",
                         "DISALLOW_REUSE", "TIME_SKEW", "RESETTING_TIME_SKEW"} :
               \A value : line # Option(key, value)
          /\ \A code : line # ScratchLine(code)
      BY <2>4 DEF Flag, Option, ScratchLine
    <3> QED
      BY <2>4, <3>1 DEF IsOptionOf
  <2>2. PICK i \in Slots : f[m] = LastLine(i, c.lastLogins[i]) /\ IsWritten(c.lastLogins[i])
    BY <2>1, <2>4
  <2>3. f[m].record = c.lastLogins[i]
    BY <2>2 DEF LastLine
  <2> QED
    BY <1>1, <2>2, <2>3 DEF IsBlankLine, HasBlankHost
<1>2. ASSUME HasBlankHost(c)
      PROVE  \E m \in 2 .. Len(f) : IsBlankLine(f[m])
  <2>1. PICK i \in Slots : /\ IsWritten(c.lastLogins[i])
                           /\ Rejoined[c.lastLogins[i].host] = NoHost
    BY <1>2 DEF HasBlankHost
  <2>2. PICK m \in 2 .. Len(f) : f[m] = LastLine(i, c.lastLogins[i])
    BY <2>1, WrittenIsBelow
  <2>3. IsBlankLine(f[m])
    BY <2>1, <2>2 DEF LastLine, IsBlankLine
  <2> QED
    BY <2>3
<1> QED
  BY <1>1, <1>2

\* After the last line Parse has the configuration that was written.
LEMMA AllIsRead ==
  ASSUME NEW c \in Config, InRange(c), NEW f, Describes(f, c)
  PROVE  Partial(c, f, Len(f)) = ReadBack(c)
<1> DEFINE p == Partial(c, f, Len(f))
           q == ReadBack(c)
<1>1. p = [field \in Fields |-> p[field]]
  BY DEF Partial
<1>2. q = [field \in Fields |-> q[field]]
  BY DEF ReadBack, Config, Fields, KeyOf
<1>3. \A field \in Fields \ {"lastLogins", "dirty"} : q[field] = c[field]
  BY DEF ReadBack, Config, Fields, KeyOf
<1>4. ASSUME NEW field \in DOMAIN KeyOf
      PROVE  p[field] = c[field]
  BY OptionsAreSeen DEF Partial, Fields, KeyOf
<1>5. p.scratch = c.scratch /\ p.lastLogins = q.lastLogins
  BY AllCopiesAreBelow, LoginsAreSeen DEF Partial, Fields
<1>6. p.secret = c.secret /\ p.dirty = q.dirty
  <2>1. p.secret = c.secret /\ p.dirty = FALSE
    BY DEF Partial, Fields, KeyOf, NewConfig
  <2>2. q.dirty = FALSE
    BY DEF ReadBack, Config
  <2> QED
    BY <2>1, <2>2
<1> HIDE DEF p, q
<1>7. \A field \in Fields : p[field] = q[field]
  BY <1>3, <1>4, <1>5, <1>6 DEF Fields, KeyOf
<1>8. p = q
  BY <1>1, <1>2, <1>7
<1> QED
  BY <1>8 DEF p, q

\* What Parse makes of a file that describes c, whatever the order of its lines.
\* It goes through the options one by one until it meets a blank host, if any.
LEMMA DescribedIsRead ==
  ASSUME NEW c \in Config, InRange(c), c.secret # "missing",
         NEW f, Describes(f, c)
  PROVE  Parse(f) = IF HasBlankHost(c) THEN Rejected ELSE Parsed(ReadBack(c))
<1>1. /\ f \in Seq(LinesOf(c)) /\ f # << >> /\ f[1].value = c.secret
      /\ Len(f) \in Nat \ {0}
  BY DEF Describes, SecretLine
<1>2. PICK r : /\ r[0] = Parsed(NewConfig(f[1].value))
               /\ \A n \in 1 .. Len(f) - 1 : r[n] = ReadLine(r[n - 1], f[n + 1])
               /\ Parse(f) = r[Len(f) - 1]
  BY <1>1, ParseIsARun
<1> DEFINE BlankUpTo(n) == \E m \in 2 .. n : IsBlankLine(f[m])
           Got(n) == IF BlankUpTo(n) THEN Rejected ELSE Parsed(Partial(c, f, n))
           Read == {n \in Nat : n < Len(f) => r[n] = Got(n + 1)}
<1>3. 0 \in Read
  <2>1. ~BlankUpTo(1)
    OBVIOUS
  <2> QED
    BY <1>1, <1>2, <2>1, NothingIsRead
<1>4. ASSUME NEW n \in Nat, n \in Read
      PROVE  n + 1 \in Read
  <2> DEFINE m == n + 2
  <2>1. SUFFICES ASSUME n + 1 < Len(f)
                 PROVE  r[n + 1] = Got(m)
    BY <1>1
  <2>2. r[n] = Got(n + 1)
    BY <1>1, <1>4, <2>1
  <2>3. n + 1 \in 1 .. Len(f) - 1 /\ m \in 2 .. Len(f)
        /\ (n + 1) - 1 = n /\ (n + 1) + 1 = m /\ m - 1 = n + 1
        /\ m \in Nat /\ m >= 2 /\ 2 .. m = (2 .. m - 1) \union {m}
    BY <1>1, <2>1
  <2>4. r[n + 1] = ReadLine(r[n], f[m])
    BY <1>2, <2>3
  <2>5. IsOptionOf(f[m], c)
    BY <2>3, LinesAreOptions
  <2>6. r[n] = Got(m - 1)
    BY <2>2, <2>3
  <2>7. BlankUpTo(m) <=> BlankUpTo(m - 1) \/ IsBlankLine(f[m])
    BY <2>3
  <2> HIDE DEF m, BlankUpTo
  <2>8. CASE BlankUpTo(m - 1)
    BY <2>4, <2>6, <2>7, <2>8 DEF ReadLine, Rejected
  <2>9. CASE ~BlankUpTo(m - 1)
    <3>1. r[n + 1] = parseOption(Partial(c, f, m - 1), f[m])
      BY <2>4, <2>6, <2>9 DEF ReadLine, Parsed
    <3>2. CASE IsBlankLine(f[m])
      BY <2>7, <3>1, <3>2, BlankIsRefused
    <3>3. CASE ~IsBlankLine(f[m])
      <4>1. parseOption(Partial(c, f, m - 1), f[m]) = Parsed(Partial(c, f, m))
        BY <2>3, <2>5, <3>3, OptionIsRead
      <4> QED
        BY <2>7, <2>9, <3>1, <3>3, <4>1
    <3> QED
      BY <3>2, <3>3
  <2> QED
    BY <2>8, <2>9
<1> HIDE DEF Read
<1>5. Nat \subseteq Read
  BY <1>3, <1>4, NatSetInduction
<1>6. Len(f) - 1 \in Read /\ Len(f) - 1 < Len(f) /\ (Len(f) - 1) + 1 = Len(f)
  BY <1>1, <1>5
<1>7. r[Len(f) - 1] = Got(Len(f))
  BY <1>6 DEF Read
<1>8. BlankUpTo(Len(f)) <=> HasBlankHost(c)
  BY BlankIsBelow
<1> HIDE DEF BlankUpTo
<1> QED
  BY <1>2, <1>7, <1>8, AllIsRead

-----------------------------------------------------------------------------
(*****************************************************************************)
(* What reading a file gives, and what it is equal to.                       *)
(*****************************************************************************)

\* Bytes describes its configuration.
LEMMA BytesDescribe ==
  ASSUME NEW c \in Config
  PROVE  Describes(Bytes(c), c)
BY BytesEnumerates DEF Describes

\* Whoever leaves the options alone leaves a configuration in range.
LEMMA SameRange ==
  ASSUME NEW c, InRange(c), NEW d,
         d.stepSize = c.stepSize, d.windowSize = c.windowSize,
         d.rateLimit.attempts = c.rateLimit.attempts,
         d.rateLimit.interval = c.rateLimit.interval,
         HasRateLimit(c) \/ d.rateLimit = c.rateLimit,
         d.hotpConfigured = c.hotpConfigured, d.hotpCounter = c.hotpCounter,
         d.disallowReuse = c.disallowReuse,
         c.disallowReuse \/ d.disallowed = c.disallowed,
         SamplesInRange(d), LoginsInRange(d)
  PROVE  InRange(d)
<1>1. HasRateLimit(d) <=> HasRateLimit(c)
  BY DEF HasRateLimit
<1>2. LimitInRange(d)
  <2>1. LimitInRange(c)
    BY DEF InRange
  <2> QED
    BY <1>1, <2>1 DEF LimitInRange
<1>3. d.stepSize \in 1 .. 60 /\ d.windowSize \in 1 .. 100
  BY DEF InRange
<1>4. UnusedAreEmpty(d)
  BY DEF InRange, UnusedAreEmpty
<1> QED
  BY <1>2, <1>3, <1>4 DEF InRange

\* What comes back from a file is of the type and in range.
LEMMA ReadBackInRange ==
  ASSUME NEW c \in Config, InRange(c), ~HasBlankHost(c)
  PROVE  ReadBack(c) \in Config /\ InRange(ReadBack(c))
<1> DEFINE d == ReadBack(c)
           logins == [i \in Slots |-> IF IsWritten(c.lastLogins[i])
                                      THEN Rejoin(c.lastLogins[i]) ELSE NoLogin]
<1>1. d = [c EXCEPT !.dirty = FALSE, !.lastLogins = logins]
  BY DEF ReadBack, Config
<1>2. c.lastLogins \in [Slots -> LoginRecord] /\ NoLogin \in LoginRecord
  BY DEF Config, LoginRecord, NoLogin
<1>3. ASSUME NEW i \in Slots, IsWritten(c.lastLogins[i])
      PROVE  Rejoin(c.lastLogins[i]) \in LoginRecord
             /\ Rejoin(c.lastLogins[i]).host # NoHost
  <2>1. c.lastLogins[i] \in LoginRecord /\ c.lastLogins[i].host \in Hosts
    BY <1>2, <1>3 DEF LoginRecord, IsWritten
  <2>2. Rejoined[c.lastLogins[i].host] \in Hosts \union {NoHost}
        /\ Rejoined[c.lastLogins[i].host] # NoHost
    BY <1>3, <2>1, HostAssumption DEF HasBlankHost
  <2> QED
    BY <2>1, <2>2 DEF Rejoin, LoginRecord
<1>4. logins \in [Slots -> LoginRecord]
  BY <1>2, <1>3
<1> HIDE DEF d
<1>5. \A i \in Slots : logins[i].host = NoHost => logins[i].when = 0
  BY <1>3 DEF NoLogin
<1> HIDE DEF logins
<1>6. d \in Config /\ d.lastLogins = logins
  BY <1>1, <1>4 DEF Config
<1>7. /\ d.stepSize = c.stepSize /\ d.windowSize = c.windowSize
      /\ d.rateLimit = c.rateLimit /\ d.samples = c.samples
      /\ d.hotpConfigured = c.hotpConfigured /\ d.hotpCounter = c.hotpCounter
      /\ d.disallowReuse = c.disallowReuse /\ d.disallowed = c.disallowed
  BY <1>1 DEF Config
<1>8. SamplesInRange(d) /\ LoginsInRange(d)
  BY <1>5, <1>6, <1>7 DEF InRange, SamplesInRange, LoginsInRange
<1>9. InRange(d)
  BY <1>7, <1>8, SameRange
<1> QED
  BY <1>6, <1>9 DEF d

\* Two lines below the secret may change places.
LEMMA SwapDescribed ==
  ASSUME NEW c, NEW f, Describes(f, c),
         NEW i \in DOMAIN f \ {1}, NEW j \in DOMAIN f \ {1}
  PROVE  Describes([f EXCEPT ![i] = f[j], ![j] = f[i]], c)
<1> DEFINE g == [f EXCEPT ![i] = f[j], ![j] = f[i]]
           Other(n) == IF n = j THEN i ELSE IF n = i THEN j ELSE n
<1>1. /\ f \in Seq(LinesOf(c)) /\ f # << >> /\ f[1] = SecretLine(c.secret)
      /\ Len(f) \in Nat /\ DOMAIN f = 1 .. Len(f) /\ 1 \in DOMAIN f
  BY DEF Describes
<1>2. DOMAIN g = DOMAIN f /\ \A n \in DOMAIN f : Other(n) \in DOMAIN f /\ g[n] = f[Other(n)]
  BY <1>1
<1>3. g \in Seq(LinesOf(c)) /\ g # << >>
  <2>1. g \in [1 .. Len(f) -> LinesOf(c)]
    BY <1>1
  <2> HIDE DEF g
  <2>2. g \in Seq(LinesOf(c))
    BY <1>1, <2>1, SeqDef
  <2> QED
    BY <1>1, <1>2, <2>2
<1>4. g[1] = SecretLine(c.secret)
  BY <1>1, <1>2
<1>5. PICK place \in [DOMAIN f -> Entries(c)] :
        /\ \A m, n \in DOMAIN f : place[m] = place[n] => m = n
        /\ \A e \in Entries(c) : \E n \in DOMAIN f : place[n] = e
        /\ \A n \in DOMAIN f : f[n] = place[n][1]
  BY DEF Describes, Enumerates
<1> DEFINE moved == [n \in DOMAIN f |-> place[Other(n)]]
<1>6. \A m, n \in DOMAIN f : Other(m) = Other(n) => m = n
  OBVIOUS
<1>7. \A n \in DOMAIN f : Other(Other(n)) = n
  OBVIOUS
<1> HIDE DEF Other, g
<1>8. Enumerates(g, Entries(c))
  <2>1. moved \in [DOMAIN g -> Entries(c)]
    BY <1>2, <1>5
  <2>2. \A m, n \in DOMAIN g : moved[m] = moved[n] => m = n
    BY <1>2, <1>5, <1>6
  <2>3. \A e \in Entries(c) : \E n \in DOMAIN g : moved[n] = e
    BY <1>2, <1>5, <1>7
  <2>4. \A n \in DOMAIN g : g[n] = moved[n][1]
    BY <1>2, <1>5
  <2> QED
    BY <2>1, <2>2, <2>3, <2>4 DEF Enumerates
<1>9. Describes(g, c)
  BY <1>3, <1>4, <1>8 DEF Describes
<1> QED
  BY <1>9 DEF g

-----------------------------------------------------------------------------
(*****************************************************************************)
(* The operations of a login keep a configuration in range.                  *)
(*****************************************************************************)

\* Attempts are counted under a limit that stays as it is.
LEMMA EnforceRateLimitRange ==
  ASSUME NEW c \in Config, InRange(c), NEW now \in Int
  PROVE  LET d == EnforceRateLimit(c, now)
         IN  d \in Config /\ InRange(d) /\ (d = c \/ d.dirty)
<1> DEFINE d == EnforceRateLimit(c, now)
<1>1. d \in Config /\ SameButRateLimit(c, d)
  BY EnforceRateLimitKeepsType
<1>2. ~HasRateLimit(c) => d = c
  BY DEF EnforceRateLimit
<1>3. HasRateLimit(c) => d.lastLogins = c.lastLogins /\ d.dirty = TRUE
  <2>1. ASSUME NEW stamps
        PROVE  LET e == [c EXCEPT !.rateLimit.timestamps = stamps, !.dirty = TRUE]
               IN  e.lastLogins = c.lastLogins /\ e.dirty = TRUE
    BY DEF Config
  <2> QED
    BY <2>1 DEF EnforceRateLimit
<1> HIDE DEF d
<1>4. CASE HasRateLimit(c)
  <2>1. SamplesInRange(d) /\ LoginsInRange(d)
    BY <1>1, <1>3, <1>4 DEF InRange, SamplesInRange, LoginsInRange, SameButRateLimit
  <2>2. InRange(d)
    BY <1>1, <1>4, <2>1, SameRange DEF SameButRateLimit
  <2> QED
    BY <1>1, <1>3, <1>4, <2>2 DEF d
<1>5. CASE ~HasRateLimit(c)
  BY <1>2, <1>5 DEF d
<1> QED
  BY <1>4, <1>5

\* Steps are listed as used only under DISALLOW_REUSE.
LEMMA RecordUsedTimestampRange ==
  ASSUME NEW c \in Config, InRange(c), NEW ts \in Int
  PROVE  LET d == RecordUsedTimestamp(c, ts)
         IN  d \in Config /\ InRange(d) /\ (d = c \/ d.dirty)
<1> DEFINE d == RecordUsedTimestamp(c, ts)
<1>1. d \in Config
  BY RecordUsedTimestampType
<1>2. CASE c.disallowReuse
  <2>1. d = [c EXCEPT !.disallowed = @ \union {ts}, !.dirty = TRUE]
    BY <1>2 DEF RecordUsedTimestamp
  <2> HIDE DEF d
  <2>2. /\ d.stepSize = c.stepSize /\ d.windowSize = c.windowSize
        /\ d.rateLimit = c.rateLimit /\ d.samples = c.samples
        /\ d.hotpConfigured = c.hotpConfigured /\ d.hotpCounter = c.hotpCounter
        /\ d.disallowReuse = c.disallowReuse /\ d.lastLogins = c.lastLogins
        /\ d.dirty = TRUE
    BY <2>1 DEF Config
  <2>3. SamplesInRange(d) /\ LoginsInRange(d)
    BY <2>2 DEF InRange, SamplesInRange, LoginsInRange
  <2>4. InRange(d)
    BY <1>2, <2>2, <2>3, SameRange
  <2> QED
    BY <1>1, <2>2, <2>4 DEF d
<1>3. CASE ~c.disallowReuse
  BY <1>3 DEF RecordUsedTimestamp
<1> QED
  BY <1>2, <1>3

\* Using up a scratch code leaves the options alone.
LEMMA UseScratchCodeRange ==
  ASSUME NEW c \in Config, InRange(c), NEW code \in ScratchCodes,
         HasScratchCode(c, code)
  PROVE  LET d == UseScratchCode(c, code)
         IN  d \in Config /\ InRange(d) /\ d.dirty
<1> DEFINE d == UseScratchCode(c, code)
<1>1. d \in Config
  BY UseScratchCodeType
<1>2. \E left : d = [c EXCEPT !.scratch = left, !.dirty = TRUE]
  BY DEF UseScratchCode
<1> HIDE DEF d
<1>3. /\ d.stepSize = c.stepSize /\ d.windowSize = c.windowSize
      /\ d.rateLimit = c.rateLimit /\ d.samples = c.samples
      /\ d.hotpConfigured = c.hotpConfigured /\ d.hotpCounter = c.hotpCounter
      /\ d.disallowReuse = c.disallowReuse /\ d.disallowed = c.disallowed
      /\ d.lastLogins = c.lastLogins /\ d.dirty = TRUE
  BY <1>2 DEF Config
<1>4. SamplesInRange(d) /\ LoginsInRange(d)
  BY <1>3 DEF InRange, SamplesInRange, LoginsInRange
<1>5. InRange(d)
  BY <1>3, <1>4, SameRange
<1> QED
  BY <1>1, <1>3, <1>5 DEF d

\* A sample of a skew has a time that can be written.
LEMMA WithSampleRange ==
  ASSUME NEW s \in Seq(SkewSample), \A i \in DOMAIN s : s[i].timestamp >= 0,
         NEW ts \in Nat, NEW skew \in Int
  PROVE  \A i \in DOMAIN WithSample(s, ts, skew) : WithSample(s, ts, skew)[i].timestamp >= 0
<1> DEFINE Positive == {e \in SkewSample : e.timestamp >= 0}
           new == [timestamp |-> ts, skew |-> skew]
           kept == IF Len(s) = SkewSamplesNeeded THEN Tail(s) ELSE s
<1>1. Len(s) \in Nat /\ DOMAIN s = 1 .. Len(s) /\ s \in [1 .. Len(s) -> Positive]
  OBVIOUS
<1>2. new \in Positive
  BY DEF SkewSample
<1> HIDE DEF Positive, new
<1>3. s \in Seq(Positive)
  BY <1>1, SeqDef
<1>4. kept \in Seq(Positive)
  <2>1. CASE Len(s) = SkewSamplesNeeded
    <3>1. s # << >>
      BY <2>1 DEF SkewSamplesNeeded
    <3>2. Tail(s) \in Seq(Positive)
      BY <1>3, <3>1
    <3> QED
      BY <2>1, <3>2
  <2> QED
    BY <1>3, <2>1
<1> HIDE DEF kept
<1>5. Append(kept, new) \in Seq(Positive)
  BY <1>2, <1>4, AppendProperties
<1>6. \A i \in DOMAIN Append(kept, new) : Append(kept, new)[i] \in Positive
  BY <1>5, ElementOfSeq
<1> QED
  BY <1>6 DEF WithSample, Positive, kept, new

\* So have the samples when a login adds one, or takes the skew they agree on.
LEMMA RecordSkewObservationRange ==
  ASSUME NEW c \in Config, InRange(c), NEW ts \in Nat, NEW skew \in Int
  PROVE  LET d == RecordSkewObservation(c, ts, skew)
         IN  d \in Config /\ InRange(d) /\ (d = c \/ d.dirty)
<1> DEFINE d == RecordSkewObservation(c, ts, skew)
           s == WithSample(c.samples, ts, skew)
<1>1. d \in Config
  BY RecordSkewObservationType
<1>2. \A i \in DOMAIN s : s[i].timestamp >= 0
  BY WithSampleRange DEF Config, InRange, SamplesInRange
<1> HIDE DEF s
<1>3. \/ d = c
      \/ d = [c EXCEPT !.timeSkew = AverageSkew(s), !.samples = << >>, !.dirty = TRUE]
      \/ d = [c EXCEPT !.samples = s, !.dirty = TRUE]
  BY DEF RecordSkewObservation, s
<1>4. CASE d # c
  <2>0. \E skews, new : /\ new = << >> \/ new = s
                        /\ d = [c EXCEPT !.timeSkew = skews, !.samples = new,
                                         !.dirty = TRUE]
    <3>1. [c EXCEPT !.samples = s, !.dirty = TRUE]
            = [c EXCEPT !.timeSkew = c.timeSkew, !.samples = s, !.dirty = TRUE]
      BY DEF Config
    <3> QED
      BY <1>3, <1>4, <3>1
  <2> HIDE DEF d
  <2>1. /\ d.stepSize = c.stepSize /\ d.windowSize = c.windowSize
        /\ d.rateLimit = c.rateLimit
        /\ d.hotpConfigured = c.hotpConfigured /\ d.hotpCounter = c.hotpCounter
        /\ d.disallowReuse = c.disallowReuse /\ d.disallowed = c.disallowed
        /\ d.lastLogins = c.lastLogins /\ d.dirty = TRUE
        /\ d.samples = << >> \/ d.samples = s
    BY <2>0 DEF Config
  <2>2. SamplesInRange(d) /\ LoginsInRange(d)
    BY <1>2, <2>1 DEF InRange, SamplesInRange, LoginsInRange
  <2>3. InRange(d)
    BY <2>1, <2>2, SameRange
  <2> QED
    BY <1>1, <2>1, <2>3 DEF d
<1> QED
  BY <1>1, <1>4

\* A login leaves a record of its host, and none without one.
LEMMA UpdateLoginRecordRange ==
  ASSUME NEW c \in Config, InRange(c), NEW host \in Hosts, NEW now \in Int,
         NEW d \in UpdateLoginRecord(c, host, now)
  PROVE  d \in Config /\ InRange(d) /\ d.dirty
<1>1. host # NoHost
  BY ConfigAssumption
<1>2. PICK slot : d = [c EXCEPT !.lastLogins[slot] = [host |-> host, when |-> now],
                                !.dirty = TRUE]
  BY <1>1 DEF UpdateLoginRecord
<1> DEFINE record == [host |-> host, when |-> now]
           logins == [c.lastLogins EXCEPT ![slot] = record]
<1>3. c.lastLogins \in [Slots -> LoginRecord] /\ record \in LoginRecord
  BY DEF Config, LoginRecord
<1>4. /\ logins \in [Slots -> LoginRecord]
      /\ \A i \in Slots : logins[i] = c.lastLogins[i] \/ logins[i] = record
  BY <1>3
<1>5. d = [c EXCEPT !.lastLogins = logins, !.dirty = TRUE]
  BY <1>2
<1> HIDE DEF logins
<1>6. d \in Config
  BY <1>4, <1>5 DEF Config
<1>7. /\ d.stepSize = c.stepSize /\ d.windowSize = c.windowSize
      /\ d.rateLimit = c.rateLimit /\ d.samples = c.samples
      /\ d.hotpConfigured = c.hotpConfigured /\ d.hotpCounter = c.hotpCounter
      /\ d.disallowReuse = c.disallowReuse /\ d.disallowed = c.disallowed
      /\ d.lastLogins = logins /\ d.dirty = TRUE
  BY <1>5 DEF Config
<1>8. SamplesInRange(d)
  BY <1>7 DEF InRange, SamplesInRange
<1>9. LoginsInRange(d)
  BY <1>1, <1>4, <1>7 DEF InRange, LoginsInRange
<1>10. InRange(d)
  BY <1>7, <1>8, <1>9, SameRange
<1> QED
  BY <1>6, <1>7, <1>10
=============================================================================
