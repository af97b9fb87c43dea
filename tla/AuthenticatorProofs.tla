------------------------ MODULE AuthenticatorProofs ------------------------
(***************************************************************************)
(* What one call of VerifyCode returns and leaves behind.                  *)
(***************************************************************************)
EXTENDS Authenticator, GGConfigProofs

Results == Successes \union Failures

\* The skew that detectSkew finds first is one of the skews it may find.
LEMMA NearestSkewIsPossible ==
  ASSUME NEW skews \in SUBSET Int, skews # {}
  PROVE  NearestSkew(skews) \in skews
<1> DEFINE distances == {Abs(d) : d \in skews}
<1>1. \A d \in Int : Abs(d) \in Nat /\ (d = Abs(d) \/ d = -Abs(d))
  BY DEF Abs
<1>2. distances \in SUBSET Nat /\ distances # {}
  BY <1>1
<1>3. PICK m \in distances : \A n \in distances : m <= n
  <2> HIDE DEF distances
  <2> QED
    BY <1>2, LeastElement
<1>4. m \in Nat
  BY <1>2
<1>5. \A e \in skews : m <= Abs(e) /\ Abs(e) \in Nat /\ (e = Abs(e) \/ e = -Abs(e))
  BY <1>1, <1>3
<1>6. PICK a \in skews : Abs(a) = m
  BY <1>3
<1> HIDE DEF distances
<1>7. CASE -m \in skews
  <2>1. Abs(-m) = m
    BY <1>4 DEF Abs
  <2>2. \A e \in skews : Abs(-m) < Abs(e) \/ (Abs(-m) = Abs(e) /\ -m <= e)
    BY <1>4, <1>5, <2>1
  <2> QED
    BY <1>7, <2>2 DEF NearestSkew
<1>8. CASE -m \notin skews
  <2>1. a = m /\ m \in skews
    BY <1>5, <1>6, <1>8
  <2>2. \A e \in skews : Abs(m) < Abs(e) \/ (Abs(m) = Abs(e) /\ m <= e)
    BY <1>4, <1>5, <1>6, <1>8, <2>1
  <2> QED
    BY <2>1, <2>2 DEF NearestSkew
<1> QED
  BY <1>7, <1>8

LEMMA TimeStepType ==
  ASSUME NEW c \in Config, NEW now \in Nat
  PROVE  TimeStep(c, now) \in Int /\ Centre(c, now) \in Int
<1>1. Step(c) \in Nat \ {0} /\ c.timeSkew \in Int
  BY StepType DEF Config
<1>2. \A step \in Nat \ {0} : now \div step \in Int
  OBVIOUS
<1>3. TimeStep(c, now) \in Int
  BY <1>1, <1>2 DEF TimeStep
<1> QED
  BY <1>1, <1>3 DEF Centre

\* Adapting the skew leaves everything but the skew and its samples alone.
LEMMA VerifyOutsideWindowType ==
  ASSUME NEW c \in Config, NEW code, NEW opts \in VerifyOptions, NEW now \in Nat
  PROVE  LET o == VerifyOutsideWindow(c, code, opts, now)
         IN  /\ o.cfg \in Config /\ o.cfg.rateLimit = c.rateLimit
             /\ o.result \in {"totp", "invalidCode"} /\ o.counter \in Int
             /\ opts.disableSkewAdjustment => o = Failure(c, "invalidCode")
<1> DEFINE skews == PossibleSkews(c, code, now)
           d == NearestSkew(skews)
           tm == TimeStep(c, now)
           o == VerifyOutsideWindow(c, code, opts, now)
<1>1. CASE opts.disableSkewAdjustment \/ skews = {}
  <2>1. o = Failure(c, "invalidCode")
    BY <1>1 DEF VerifyOutsideWindow
  <2> QED
    BY <2>1 DEF Failure
<1>2. CASE ~opts.disableSkewAdjustment /\ skews # {}
  <2>1. skews \in SUBSET Int
    BY DEF PossibleSkews
  <2>2. d \in Int
    <3> HIDE DEF skews
    <3> QED
      BY <1>2, <2>1, NearestSkewIsPossible
  <2>3. tm \in Int
    BY TimeStepType
  <2>4. /\ RecordSkewObservation(c, tm, d) \in Config
        /\ RecordSkewObservation(c, tm, d).rateLimit = c.rateLimit
    <3> HIDE DEF d, tm
    <3> QED
      BY <2>2, <2>3, RecordSkewObservationType
  <2>5. \/ o = Success(RecordSkewObservation(c, tm, d), "totp", tm + d)
        \/ o = Failure(RecordSkewObservation(c, tm, d), "invalidCode")
    BY <1>2 DEF VerifyOutsideWindow
  <2> HIDE DEF d, tm, o
  <2>6. o.cfg \in Config /\ o.cfg.rateLimit = c.rateLimit
        /\ o.result \in {"totp", "invalidCode"} /\ o.counter \in Int
    BY <2>2, <2>3, <2>4, <2>5 DEF Success, Failure
  <2> QED
    BY <1>2, <2>6 DEF o
<1> QED
  BY <1>1, <1>2

-----------------------------------------------------------------------------
(***************************************************************************)
(* TOTP.                                                                   *)
(***************************************************************************)

\* The least counter that shows the code lies in the window.
LEMMA LeastTOTPHit ==
  ASSUME NEW c \in Config, NEW code, NEW now \in Nat,
         TOTPHits(c, code, now) # {}
  PROVE  LET hit == Min(TOTPHits(c, code, now))
         IN  /\ hit \in TOTPHits(c, code, now) /\ hit \in Nat
             /\ hit > Centre(c, now) - Window(c)
             /\ hit < Centre(c, now) + Window(c)
<1> DEFINE hits == TOTPHits(c, code, now)
           hit == Min(hits)
<1>1. Centre(c, now) \in Int /\ Window(c) \in Nat \ {0}
  BY TimeStepType, StepType
<1>2. hits \in SUBSET Nat /\ hits # {}
  BY <1>1 DEF TOTPHits, AcceptableCounters
<1>3. hit \in hits
  <2> HIDE DEF hits
  <2> QED
    BY <1>2, MinIsLeast
<1>4. \A counter \in hits :
        /\ counter >= Centre(c, now) - (Window(c) - 1) \div 2
        /\ counter <= Centre(c, now) + Window(c) \div 2
  BY <1>1 DEF TOTPHits, AcceptableCounters
<1>5. (Window(c) - 1) \div 2 < Window(c) /\ Window(c) \div 2 < Window(c)
  <2>1. \A w \in Nat \ {0} : (w - 1) \div 2 < w /\ w \div 2 < w
    OBVIOUS
  <2> QED
    BY <1>1, <2>1
<1>6. (Window(c) - 1) \div 2 \in Int /\ Window(c) \div 2 \in Int
  BY <1>1
<1> HIDE DEF hit, hits
<1>7. hit \in Nat
  BY <1>2, <1>3
<1>8. hit > Centre(c, now) - Window(c) /\ hit < Centre(c, now) + Window(c)
  BY <1>1, <1>3, <1>4, <1>5, <1>6, <1>7
<1> QED
  BY <1>3, <1>7, <1>8 DEF hit, hits

\* What a call of totpAlgorithm.Verify may answer: a hit that is on the list,
\* a hit that goes on it, or none.
LEMMA VerifyTOTPAnswers ==
  ASSUME NEW c \in Config, NEW code, NEW opts \in VerifyOptions, NEW now \in Nat
  PROVE  LET o == VerifyTOTP(c, code, opts, now)
             pruned == ResetDisallowList(c, Centre(c, now), Window(c))
             hit == Min(TOTPHits(c, code, now))
         IN  \/ /\ o = VerifyOutsideWindow(pruned, code, opts, now)
                /\ TOTPHits(c, code, now) = {}
             \/ /\ o = Failure(pruned, "reused")
                /\ TOTPHits(c, code, now) # {}
                /\ IsReused(pruned, hit)
             \/ /\ o = Success(RecordUsedTimestamp(pruned, hit), "totp", hit)
                /\ TOTPHits(c, code, now) # {}
                /\ ~IsReused(pruned, hit)
  BY DEF VerifyTOTP

LEMMA VerifyTOTPType ==
  ASSUME NEW c \in Config, NEW code, NEW opts \in VerifyOptions, NEW now \in Nat
  PROVE  LET o == VerifyTOTP(c, code, opts, now)
         IN  /\ o.cfg \in Config /\ o.cfg.rateLimit = c.rateLimit
             /\ o.result \in {"totp", "reused", "invalidCode"}
             /\ o.counter \in Int
<1> DEFINE o == VerifyTOTP(c, code, opts, now)
           pruned == ResetDisallowList(c, Centre(c, now), Window(c))
           hit == Min(TOTPHits(c, code, now))
           Typed == /\ o.cfg \in Config /\ o.cfg.rateLimit = c.rateLimit
                    /\ o.result \in {"totp", "reused", "invalidCode"}
                    /\ o.counter \in Int
<1>1. Centre(c, now) \in Int /\ Window(c) \in Nat
  BY TimeStepType, StepType
<1>2. pruned \in Config /\ pruned.rateLimit = c.rateLimit
  <2>1. pruned \in Config
    BY <1>1, ResetDisallowListType
  <2>2. pruned.rateLimit = c.rateLimit
    BY DEF ResetDisallowList, Config
  <2> QED
    BY <2>1, <2>2
<1>3. \/ o = VerifyOutsideWindow(pruned, code, opts, now)
      \/ o = Failure(pruned, "reused")
      \/ /\ o = Success(RecordUsedTimestamp(pruned, hit), "totp", hit)
         /\ TOTPHits(c, code, now) # {}
  BY VerifyTOTPAnswers
<1>4. TOTPHits(c, code, now) # {} => hit \in Int
  BY LeastTOTPHit
<1> SUFFICES Typed
  BY DEF Typed, o
<1> HIDE DEF pruned, hit, o
<1>5. CASE o = VerifyOutsideWindow(pruned, code, opts, now)
  BY <1>2, <1>5, VerifyOutsideWindowType
<1>6. CASE o = Failure(pruned, "reused")
  BY <1>2, <1>6 DEF Failure
<1>7. CASE /\ o = Success(RecordUsedTimestamp(pruned, hit), "totp", hit)
           /\ TOTPHits(c, code, now) # {}
  <2>1. RecordUsedTimestamp(pruned, hit) \in Config
    BY <1>2, <1>4, <1>7, RecordUsedTimestampType
  <2>2. RecordUsedTimestamp(pruned, hit).rateLimit = c.rateLimit
    BY <1>2 DEF RecordUsedTimestamp, Config
  <2> QED
    BY <1>4, <1>7, <2>1, <2>2 DEF Success
<1> QED
  BY <1>3, <1>5, <1>6, <1>7

\* What the window of a call depends on.
SameWindow(c, d) ==
  /\ d.stepSize = c.stepSize /\ d.windowSize = c.windowSize
  /\ d.timeSkew = c.timeSkew /\ d.disallowReuse = c.disallowReuse

InWindow(c, now, counter) ==
  counter > Centre(c, now) - Window(c) /\ counter < Centre(c, now) + Window(c)

LEMMA SameWindowSameCentre ==
  ASSUME NEW c, NEW d, NEW now, SameWindow(c, d)
  PROVE  /\ Centre(d, now) = Centre(c, now) /\ Window(d) = Window(c)
         /\ \A counter : InWindow(d, now, counter) <=> InWindow(c, now, counter)
  BY DEF SameWindow, Centre, Window, TimeStep, Step, InWindow

LEMMA DivisionIsMonotone ==
  ASSUME NEW a \in Nat, NEW b \in Nat, a <= b, NEW step \in Nat \ {0}
  PROVE  a \div step <= b \div step
<1> DEFINE p == a \div step
           q == b \div step
<1>1. /\ p \in Int /\ q \in Int
      /\ step * p <= a /\ a < step * p + step
      /\ step * q <= b /\ b < step * q + step
  OBVIOUS
<1> HIDE DEF p, q
<1>2. ASSUME p > q
      PROVE  FALSE
  <2>1. p - (q + 1) \in Nat
    BY <1>1, <1>2
  <2>2. step * (p - (q + 1)) \in Nat
    BY <2>1
  <2>3. step * (p - (q + 1)) = step * p - step * q - step
    BY <1>1
  <2>4. step * p \in Int /\ step * q \in Int
    BY <1>1
  <2> QED
    BY <1>1, <2>2, <2>3, <2>4
<1> QED
  BY <1>1, <1>2 DEF p, q

\* As time passes the window moves forward.
LEMMA CentreAdvances ==
  ASSUME NEW c \in Config, NEW t \in Nat, NEW u \in Nat, t <= u
  PROVE  Centre(c, t) <= Centre(c, u)
<1>1. Step(c) \in Nat \ {0} /\ c.timeSkew \in Int
  BY StepType DEF Config
<1>2. t \div Step(c) <= u \div Step(c)
  BY <1>1, DivisionIsMonotone
<1>3. t \div Step(c) \in Int /\ u \div Step(c) \in Int
  BY <1>1
<1> QED
  BY <1>1, <1>2, <1>3 DEF Centre, TimeStep

\* The list of used counters keeps what the window could still show.
KeepsList(c, d, now) ==
  \A counter \in Int :
    counter \in c.disallowed /\ InWindow(c, now, counter)
      => counter \in d.disallowed

\* A code that is accepted was in the window, was not on the list, and is now.
GoesOnList(c, o, now) ==
  o.result = "totp" =>
    /\ InWindow(c, now, o.counter)
    /\ c.disallowReuse =>
         o.counter \notin c.disallowed /\ o.counter \in o.cfg.disallowed

LEMMA VerifyTOTPUsesList ==
  ASSUME NEW c \in Config, NEW code, NEW opts \in VerifyOptions, NEW now \in Nat,
         opts.disableSkewAdjustment
  PROVE  LET o == VerifyTOTP(c, code, opts, now)
         IN  SameWindow(c, o.cfg) /\ KeepsList(c, o.cfg, now) /\ GoesOnList(c, o, now)
<1> DEFINE o == VerifyTOTP(c, code, opts, now)
           pruned == ResetDisallowList(c, Centre(c, now), Window(c))
           hit == Min(TOTPHits(c, code, now))
           used == RecordUsedTimestamp(pruned, hit)
           Holds == SameWindow(c, o.cfg) /\ KeepsList(c, o.cfg, now)
                      /\ GoesOnList(c, o, now)
<1> SUFFICES Holds
  BY DEF Holds, o
<1>1. Centre(c, now) \in Int /\ Window(c) \in Nat
  BY TimeStepType, StepType
<1>2. pruned \in Config
  BY <1>1, ResetDisallowListType
<1>3. SameWindow(c, pruned)
  BY DEF SameWindow, ResetDisallowList, Config
<1>4. \A counter \in Int :
        InWindow(c, now, counter) =>
          (counter \in c.disallowed <=> counter \in pruned.disallowed)
  <2> SUFFICES ASSUME NEW counter \in Int, InWindow(c, now, counter)
               PROVE  counter \in c.disallowed <=> counter \in pruned.disallowed
    OBVIOUS
  <2>1. /\ counter - Centre(c, now) < Window(c)
        /\ Centre(c, now) - counter < Window(c)
    BY <1>1 DEF InWindow
  <2> QED
    BY <2>1 DEF ResetDisallowList, Config
<1>5. KeepsList(c, pruned, now)
  BY <1>4 DEF KeepsList
<1>6. \/ o = Failure(pruned, "invalidCode")
      \/ o = Failure(pruned, "reused")
      \/ /\ o = Success(used, "totp", hit)
         /\ TOTPHits(c, code, now) # {}
         /\ ~IsReused(pruned, hit)
  <2>1. VerifyOutsideWindow(pruned, code, opts, now) = Failure(pruned, "invalidCode")
    BY DEF VerifyOutsideWindow
  <2> QED
    BY <2>1, VerifyTOTPAnswers
<1>7. TOTPHits(c, code, now) # {} => hit \in Int /\ InWindow(c, now, hit)
  BY LeastTOTPHit DEF InWindow
<1> HIDE DEF o, pruned, hit
<1>8. CASE o = Failure(pruned, "invalidCode") \/ o = Failure(pruned, "reused")
  BY <1>3, <1>5, <1>8 DEF Failure, GoesOnList
<1>9. CASE /\ o = Success(used, "totp", hit)
           /\ TOTPHits(c, code, now) # {}
           /\ ~IsReused(pruned, hit)
  <2>1. o.cfg = used /\ o.counter = hit
    BY <1>9 DEF Success
  <2>2. SameWindow(c, used)
    BY <1>2, <1>3 DEF SameWindow, RecordUsedTimestamp, Config
  <2>3. /\ \A counter \in pruned.disallowed : counter \in used.disallowed
        /\ pruned.disallowReuse => hit \in used.disallowed
    BY <1>2 DEF RecordUsedTimestamp, Config
  <2>4. c.disallowReuse => hit \notin c.disallowed /\ hit \in used.disallowed
    BY <1>3, <1>4, <1>7, <1>9, <2>3 DEF IsReused, SameWindow
  <2>5. KeepsList(c, used, now)
    BY <1>5, <2>3 DEF KeepsList
  <2>6. GoesOnList(c, o, now)
    BY <1>7, <1>9, <2>1, <2>4 DEF GoesOnList
  <2> QED
    BY <2>1, <2>2, <2>5, <2>6
<1> QED
  BY <1>6, <1>8, <1>9

\* A TOTP code leaves the HOTP counter alone.
LEMMA VerifyTOTPLeavesHOTP ==
  ASSUME NEW c \in Config, NEW code, NEW opts \in VerifyOptions, NEW now \in Nat
  PROVE  LET o == VerifyTOTP(c, code, opts, now)
         IN  o.result # "hotp" /\ o.cfg.hotpCounter = c.hotpCounter
<1> DEFINE o == VerifyTOTP(c, code, opts, now)
           pruned == ResetDisallowList(c, Centre(c, now), Window(c))
           hit == Min(TOTPHits(c, code, now))
           tm == TimeStep(pruned, now)
           d == NearestSkew(PossibleSkews(pruned, code, now))
           used == RecordUsedTimestamp(pruned, hit)
           observed == RecordSkewObservation(pruned, tm, d)
<1>1. pruned \in Config /\ pruned.hotpCounter = c.hotpCounter
  <2>1. Centre(c, now) \in Int /\ Window(c) \in Nat
    BY TimeStepType, StepType
  <2> QED
    BY <2>1, ResetDisallowListType DEF ResetDisallowList, Config
<1>2. \/ o = Failure(pruned, "invalidCode")
      \/ o = Success(observed, "totp", tm + d)
      \/ o = Failure(observed, "invalidCode")
      \/ o = Failure(pruned, "reused")
      \/ o = Success(used, "totp", hit)
  BY DEF VerifyTOTP, VerifyOutsideWindow
<1> HIDE DEF o, pruned, hit, tm, d
<1>3. used.hotpCounter = c.hotpCounter
  BY <1>1 DEF RecordUsedTimestamp, Config
<1>4. observed.hotpCounter = c.hotpCounter
  BY <1>1 DEF RecordSkewObservation, Config
<1> HIDE DEF used, observed
<1>5. o.result # "hotp" /\ o.cfg.hotpCounter = c.hotpCounter
  BY <1>1, <1>2, <1>3, <1>4 DEF Success, Failure
<1> QED
  BY <1>5 DEF o

-----------------------------------------------------------------------------
(***************************************************************************)
(* HOTP.                                                                   *)
(***************************************************************************)

\* HOTP_COUNTER never goes back, and a code that is accepted leaves it behind.
LEMMA VerifyHOTPAdvances ==
  ASSUME NEW c \in Config, NEW code, NEW opts \in VerifyOptions
  PROVE  LET o == VerifyHOTP(c, code, opts)
         IN  /\ o.cfg \in Config /\ o.cfg.rateLimit = c.rateLimit
             /\ o.counter \in Int
             /\ o.cfg.hotpCounter >= c.hotpCounter
             /\ \/ /\ o.result = "hotp"
                   /\ o.counter >= c.hotpCounter
                   /\ o.cfg.hotpCounter = o.counter + 1
                \/ o.result = "invalidCode"
<1> DEFINE hits == HOTPHits(c, code)
           hit == Min(hits)
           o == VerifyHOTP(c, code, opts)
<1>1. c.hotpCounter \in Int /\ Window(c) \in Nat \ {0}
  BY StepType DEF Config
<1>2. /\ hits \in SUBSET Nat
      /\ \A value \in hits : value >= c.hotpCounter
  BY <1>1 DEF HOTPHits
<1>3. hits # {} => hit \in hits
  <2> HIDE DEF hits
  <2> QED
    BY <1>2, MinIsLeast
<1>4. ASSUME NEW n \in Int
      PROVE  /\ WithCounter(c, n) \in Config
             /\ WithCounter(c, n).rateLimit = c.rateLimit
             /\ WithCounter(c, n).hotpCounter = n
  BY DEF WithCounter, Config
<1>5. \/ hits # {} /\ o = Success(WithCounter(c, hit + 1), "hotp", hit)
      \/ o = Failure(c, "invalidCode")
      \/ o = Failure(WithCounter(c, c.hotpCounter + 1), "invalidCode")
  BY DEF VerifyHOTP
<1> HIDE DEF o, hit, hits
<1>6. CASE hits # {} /\ o = Success(WithCounter(c, hit + 1), "hotp", hit)
  <2>1. hit \in Int /\ hit + 1 \in Int /\ hit >= c.hotpCounter
    <3>1. hit \in Nat /\ hit >= c.hotpCounter
      BY <1>2, <1>3, <1>6, Zenon
    <3> QED
      BY <3>1
  <2>2. /\ o.cfg = WithCounter(c, hit + 1) /\ o.result = "hotp"
        /\ o.counter = hit
    BY <1>6 DEF Success
  <2> QED
    BY <1>1, <1>4, <2>1, <2>2 DEF o
<1>7. CASE o = Failure(c, "invalidCode")
  BY <1>1, <1>7 DEF Failure, o
<1>8. CASE o = Failure(WithCounter(c, c.hotpCounter + 1), "invalidCode")
  <2>1. c.hotpCounter + 1 \in Int /\ c.hotpCounter + 1 >= c.hotpCounter
    BY <1>1
  <2>2. /\ o.cfg = WithCounter(c, c.hotpCounter + 1)
        /\ o.result = "invalidCode" /\ o.counter = 0
    BY <1>8 DEF Failure
  <2> QED
    BY <1>4, <2>1, <2>2 DEF o
<1> QED
  BY <1>5, <1>6, <1>7, <1>8

\* An HOTP code leaves the window and the list of used counters alone.
LEMMA VerifyHOTPLeavesTOTP ==
  ASSUME NEW c \in Config, NEW code, NEW opts \in VerifyOptions
  PROVE  LET o == VerifyHOTP(c, code, opts)
         IN  /\ SameWindow(c, o.cfg) /\ o.result # "totp"
             /\ o.cfg.disallowed = c.disallowed
<1> DEFINE o == VerifyHOTP(c, code, opts)
           hit == Min(HOTPHits(c, code))
<1>1. \/ o = Success(WithCounter(c, hit + 1), "hotp", hit)
      \/ o = Failure(c, "invalidCode")
      \/ o = Failure(WithCounter(c, c.hotpCounter + 1), "invalidCode")
  BY DEF VerifyHOTP
<1>2. \A n : /\ SameWindow(c, WithCounter(c, n))
            /\ WithCounter(c, n).disallowed = c.disallowed
  BY DEF SameWindow, WithCounter, Config
<1>3. SameWindow(c, c)
  BY DEF SameWindow
<1> HIDE DEF o, hit
<1>4. /\ SameWindow(c, o.cfg) /\ o.result # "totp"
      /\ o.cfg.disallowed = c.disallowed
  BY <1>1, <1>2, <1>3 DEF Success, Failure
<1> QED
  BY <1>4 DEF o

-----------------------------------------------------------------------------
(***************************************************************************)
(* Any token.                                                              *)
(***************************************************************************)

\* Where the answer to a token comes from.
LEMMA VerifyTokenAnswers ==
  ASSUME NEW c, NEW token \in Tokens, NEW opts, NEW now
  PROVE  LET o == VerifyToken(c, token, opts, now)
         IN  \/ \E error \in {"invalidCode", "badLength", "badSecret", "unknownMode"} :
                  o = Failure(c, error)
             \/ /\ token.code \in ScratchCodes /\ HasScratchCode(c, token.code)
                /\ o = Success(UseScratchCode(c, token.code), "scratch", 0)
             \/ token.kind = "six" /\ o = VerifyTOTP(c, token.code, opts, now)
             \/ token.kind = "six" /\ o = VerifyHOTP(c, token.code, opts)
<1> DEFINE o == VerifyToken(c, token, opts, now)
<1>1. CASE token.kind \in {"blank", "notDigits", "badLength"}
  BY <1>1 DEF VerifyToken
<1>2. CASE token.kind = "eight"
  <2>1. token.code \in ScratchCodes
    BY <1>2 DEF Tokens
  <2>2. o = VerifyScratch(c, token.code)
    BY <1>2 DEF VerifyToken
  <2> QED
    BY <2>1, <2>2 DEF VerifyScratch
<1>3. CASE token.kind = "six"
  <2>1. o = VerifySixDigits(c, token.code, opts, now)
    BY <1>3 DEF VerifyToken
  <2>2. \/ o = Failure(c, "badSecret") \/ o = Failure(c, "unknownMode")
        \/ o = VerifyTOTP(c, token.code, opts, now)
        \/ o = VerifyHOTP(c, token.code, opts)
    BY <2>1 DEF VerifySixDigits
  <2> QED
    BY <1>3, <2>2
<1>4. token.kind \in {"six", "eight", "blank", "badLength", "notDigits"}
  BY DEF Tokens
<1> QED
  BY <1>1, <1>2, <1>3, <1>4

LEMMA VerifyTokenType ==
  ASSUME NEW c \in Config, NEW token \in Tokens, NEW opts \in VerifyOptions,
         NEW now \in Nat
  PROVE  LET o == VerifyToken(c, token, opts, now)
         IN  /\ o.cfg \in Config /\ o.cfg.rateLimit = c.rateLimit
             /\ o.result \in Results \ {"noSecret", "rateLimited"}
             /\ o.counter \in Int
<1> DEFINE o == VerifyToken(c, token, opts, now)
           Typed == /\ o.cfg \in Config /\ o.cfg.rateLimit = c.rateLimit
                    /\ o.result \in Results \ {"noSecret", "rateLimited"}
                    /\ o.counter \in Int
<1>1. \/ \E error \in {"invalidCode", "badLength", "badSecret", "unknownMode"} :
           o = Failure(c, error)
      \/ /\ token.code \in ScratchCodes /\ HasScratchCode(c, token.code)
         /\ o = Success(UseScratchCode(c, token.code), "scratch", 0)
      \/ token.kind = "six" /\ o = VerifyTOTP(c, token.code, opts, now)
      \/ token.kind = "six" /\ o = VerifyHOTP(c, token.code, opts)
  BY VerifyTokenAnswers
<1> SUFFICES Typed
  BY DEF Typed, o
<1> HIDE DEF o
<1>4. CASE \E error \in {"invalidCode", "badLength", "badSecret", "unknownMode"} :
             o = Failure(c, error)
  BY <1>4 DEF Failure, Results, Failures, Successes
<1>5. CASE /\ token.code \in ScratchCodes /\ HasScratchCode(c, token.code)
           /\ o = Success(UseScratchCode(c, token.code), "scratch", 0)
  <2>1. UseScratchCode(c, token.code) \in Config
    BY <1>5, UseScratchCodeType
  <2>2. UseScratchCode(c, token.code).rateLimit = c.rateLimit
    BY DEF UseScratchCode, Config
  <2> QED
    BY <1>5, <2>1, <2>2 DEF Success, Results, Failures, Successes
<1>6. CASE o = VerifyTOTP(c, token.code, opts, now)
  <2>1. /\ o.cfg \in Config /\ o.cfg.rateLimit = c.rateLimit
        /\ o.result \in {"totp", "reused", "invalidCode"} /\ o.counter \in Int
    BY <1>6, VerifyTOTPType
  <2> QED
    BY <2>1 DEF Results, Failures, Successes
<1>7. CASE o = VerifyHOTP(c, token.code, opts)
  <2>1. /\ o.cfg \in Config /\ o.cfg.rateLimit = c.rateLimit
        /\ o.result \in {"hotp", "invalidCode"} /\ o.counter \in Int
    BY <1>7, VerifyHOTPAdvances
  <2> QED
    BY <2>1 DEF Results, Failures, Successes
<1> QED
  BY <1>1, <1>4, <1>5, <1>6, <1>7

\* A call of VerifyCode counts itself and is refused, or hands its token on.
LEMMA VerifyCodeKeepsType ==
  ASSUME NEW c \in Config, NEW token \in Tokens, NEW opts \in VerifyOptions,
         NEW now \in Nat
  PROVE  LET o == VerifyCode(c, token, opts, now)
             limited == EnforceRateLimit(c, now)
         IN  /\ o.cfg \in Config
             /\ o.result \in Results /\ o.counter \in Int
             /\ o.cfg.rateLimit =
                  IF ReachesRateLimiter(c) THEN limited.rateLimit ELSE c.rateLimit
             /\ o.result \in {"noSecret", "rateLimited"}
                  <=> ~ReachesRateLimiter(c) \/ IsRateLimited(c, now)
<1> DEFINE o == VerifyCode(c, token, opts, now)
           limited == EnforceRateLimit(c, now)
           Typed ==
             /\ o.cfg \in Config
             /\ o.result \in Results /\ o.counter \in Int
             /\ o.cfg.rateLimit =
                  IF ReachesRateLimiter(c) THEN limited.rateLimit ELSE c.rateLimit
             /\ o.result \in {"noSecret", "rateLimited"}
                  <=> ~ReachesRateLimiter(c) \/ IsRateLimited(c, now)
<1> SUFFICES Typed
  BY DEF Typed, o
<1>1. limited \in Config
  BY EnforceRateLimitKeepsType
<1>2. CASE ~ReachesRateLimiter(c)
  <2>1. o = Failure(c, "noSecret")
    BY <1>2 DEF VerifyCode
  <2> HIDE DEF o
  <2> QED
    BY <1>2, <2>1 DEF Failure, Results, Failures
<1>3. CASE ReachesRateLimiter(c) /\ IsRateLimited(c, now)
  <2>1. o = Failure(limited, "rateLimited")
    BY <1>3 DEF VerifyCode
  <2> HIDE DEF o, limited
  <2> QED
    BY <1>1, <1>3, <2>1 DEF Failure, Results, Failures
<1>4. CASE ReachesRateLimiter(c) /\ ~IsRateLimited(c, now)
  <2>1. o = VerifyToken(limited, token, opts, now)
    BY <1>4 DEF VerifyCode
  <2> HIDE DEF o, limited
  <2>2. /\ o.cfg \in Config /\ o.cfg.rateLimit = limited.rateLimit
        /\ o.result \in Results \ {"noSecret", "rateLimited"}
        /\ o.counter \in Int
    BY <1>1, <2>1, VerifyTokenType
  <2> QED
    BY <1>4, <2>2
<1> QED
  BY <1>2, <1>3, <1>4

\* Of a list of stamps in order it leaves one in order.
LEMMA VerifyCodeType ==
  ASSUME NEW c \in Config, NEW token \in Tokens, NEW opts \in VerifyOptions,
         NEW now \in Nat, StampsInOrder(c, now)
  PROVE  LET o == VerifyCode(c, token, opts, now)
             limited == EnforceRateLimit(c, now)
         IN  /\ o.cfg \in Config /\ StampsInOrder(o.cfg, now)
             /\ o.result \in Results /\ o.counter \in Int
             /\ o.cfg.rateLimit =
                  IF ReachesRateLimiter(c) THEN limited.rateLimit ELSE c.rateLimit
             /\ o.result \in {"noSecret", "rateLimited"}
                  <=> ~ReachesRateLimiter(c) \/ IsRateLimited(c, now)
<1> DEFINE o == VerifyCode(c, token, opts, now)
           limited == EnforceRateLimit(c, now)
<1>1. StampsInOrder(limited, now)
  BY EnforceRateLimitType
<1>2. o.cfg.rateLimit \in {limited.rateLimit, c.rateLimit}
  BY VerifyCodeKeepsType
<1> HIDE DEF o, limited
<1>3. StampsInOrder(o.cfg, now)
  BY <1>1, <1>2 DEF StampsInOrder
<1> QED
  BY <1>3, VerifyCodeKeepsType DEF o, limited

\* No call lets HOTP_COUNTER go back, and the call that accepts an HOTP code
\* leaves it past that code.
LEMMA VerifyCodeHOTP ==
  ASSUME NEW c \in Config, NEW token \in Tokens, NEW opts \in VerifyOptions,
         NEW now \in Nat
  PROVE  LET o == VerifyCode(c, token, opts, now)
         IN  /\ o.cfg.hotpCounter >= c.hotpCounter
             /\ o.result = "hotp" =>
                  /\ o.counter >= c.hotpCounter
                  /\ o.cfg.hotpCounter = o.counter + 1
<1> DEFINE o == VerifyCode(c, token, opts, now)
           limited == EnforceRateLimit(c, now)
           Advances ==
             /\ o.cfg.hotpCounter >= c.hotpCounter
             /\ o.result = "hotp" =>
                  /\ o.counter >= c.hotpCounter
                  /\ o.cfg.hotpCounter = o.counter + 1
<1> SUFFICES Advances
  BY DEF Advances, o
<1>1. limited \in Config /\ limited.hotpCounter = c.hotpCounter
  BY EnforceRateLimitKeepsType DEF SameButRateLimit
<1>2. c.hotpCounter \in Int
  BY DEF Config
<1> DEFINE Unmoved == o.cfg.hotpCounter = c.hotpCounter /\ o.result # "hotp"
<1>3. Unmoved => Advances
  BY <1>2
<1>4. \/ o = Failure(c, "noSecret") \/ o = Failure(limited, "rateLimited")
      \/ o = VerifyToken(limited, token, opts, now)
  BY DEF VerifyCode
<1> HIDE DEF o, limited
<1>5. CASE o = Failure(c, "noSecret") \/ o = Failure(limited, "rateLimited")
  BY <1>1, <1>3, <1>5 DEF Failure
<1>6. CASE o = VerifyToken(limited, token, opts, now)
  <2>1. CASE \E error \in {"invalidCode", "badLength", "badSecret", "unknownMode"} :
               o = Failure(limited, error)
    BY <1>1, <1>3, <2>1 DEF Failure
  <2>2. CASE o = Success(UseScratchCode(limited, token.code), "scratch", 0)
    <3>1. UseScratchCode(limited, token.code).hotpCounter = limited.hotpCounter
      BY <1>1 DEF UseScratchCode, Config
    <3> QED
      BY <1>1, <1>3, <2>2, <3>1 DEF Success
  <2>3. CASE o = VerifyTOTP(limited, token.code, opts, now)
    <3>1. o.result # "hotp" /\ o.cfg.hotpCounter = limited.hotpCounter
      BY <1>1, <2>3, VerifyTOTPLeavesHOTP
    <3> QED
      BY <1>1, <1>3, <3>1
  <2>4. CASE o = VerifyHOTP(limited, token.code, opts)
    <3>1. /\ o.cfg.hotpCounter >= limited.hotpCounter
          /\ \/ /\ o.result = "hotp"
                /\ o.counter >= limited.hotpCounter
                /\ o.cfg.hotpCounter = o.counter + 1
             \/ o.result = "invalidCode"
      BY <1>1, <2>4, VerifyHOTPAdvances
    <3> QED
      BY <1>1, <3>1
  <2> QED
    BY <1>1, <1>6, <2>1, <2>2, <2>3, <2>4, VerifyTokenAnswers
<1> QED
  BY <1>4, <1>5, <1>6

\* Without skew adjustment every call keeps the window where it is and the
\* list of used counters complete.
LEMMA VerifyCodeTOTP ==
  ASSUME NEW c \in Config, NEW token \in Tokens, NEW opts \in VerifyOptions,
         NEW now \in Nat, opts.disableSkewAdjustment
  PROVE  LET o == VerifyCode(c, token, opts, now)
         IN  SameWindow(c, o.cfg) /\ KeepsList(c, o.cfg, now) /\ GoesOnList(c, o, now)
<1> DEFINE o == VerifyCode(c, token, opts, now)
           limited == EnforceRateLimit(c, now)
           Holds == SameWindow(c, o.cfg) /\ KeepsList(c, o.cfg, now)
                      /\ GoesOnList(c, o, now)
           Untouched == /\ SameWindow(limited, o.cfg) /\ o.result # "totp"
                        /\ o.cfg.disallowed = limited.disallowed
<1> SUFFICES Holds
  BY DEF Holds, o
<1>1. /\ limited \in Config /\ SameWindow(c, limited)
      /\ limited.disallowed = c.disallowed
  BY EnforceRateLimitKeepsType DEF SameButRateLimit, SameWindow
<1>2. \/ o = Failure(c, "noSecret") \/ o = Failure(limited, "rateLimited")
      \/ o = VerifyToken(limited, token, opts, now)
  BY DEF VerifyCode
<1> HIDE DEF o, limited
<1>3. \A counter : InWindow(limited, now, counter) <=> InWindow(c, now, counter)
  BY <1>1, SameWindowSameCentre
<1>4. ASSUME /\ SameWindow(limited, o.cfg) /\ KeepsList(limited, o.cfg, now)
             /\ GoesOnList(limited, o, now)
      PROVE  Holds
  <2>1. SameWindow(c, o.cfg)
    BY <1>1, <1>4 DEF SameWindow
  <2>2. KeepsList(c, o.cfg, now)
    BY <1>1, <1>3, <1>4 DEF KeepsList
  <2>3. GoesOnList(c, o, now)
    BY <1>1, <1>3, <1>4 DEF GoesOnList, SameWindow
  <2> QED
    BY <2>1, <2>2, <2>3
<1>5. Untouched => Holds
  BY <1>4 DEF KeepsList, GoesOnList
<1>6. CASE o = Failure(c, "noSecret") \/ o = Failure(limited, "rateLimited")
  BY <1>1, <1>5, <1>6 DEF Failure, SameWindow
<1>7. CASE o = VerifyToken(limited, token, opts, now)
  <2>1. CASE \E error \in {"invalidCode", "badLength", "badSecret", "unknownMode"} :
               o = Failure(limited, error)
    BY <1>5, <2>1 DEF Failure, SameWindow
  <2>2. CASE o = Success(UseScratchCode(limited, token.code), "scratch", 0)
    <3> DEFINE spent == UseScratchCode(limited, token.code)
    <3>1. SameWindow(limited, spent) /\ spent.disallowed = limited.disallowed
      BY <1>1 DEF UseScratchCode, Config, SameWindow
    <3> HIDE DEF spent
    <3>2. o.cfg = spent /\ o.result = "scratch"
      BY <2>2 DEF Success, spent
    <3> QED
      BY <1>5, <3>1, <3>2
  <2>3. CASE o = VerifyTOTP(limited, token.code, opts, now)
    BY <1>1, <1>4, <2>3, VerifyTOTPUsesList
  <2>4. CASE o = VerifyHOTP(limited, token.code, opts)
    BY <1>1, <1>5, <2>4, VerifyHOTPLeavesTOTP
  <2> QED
    BY <1>1, <1>7, <2>1, <2>2, <2>3, <2>4, VerifyTokenAnswers
<1> QED
  BY <1>2, <1>6, <1>7

-----------------------------------------------------------------------------
(***************************************************************************)
(* What a call does to TIME_SKEW and to the observations kept beside it.   *)
(***************************************************************************)

\* All that the skew adjustment reads and writes is as it was.
SameSkew(c, d) == SameWindow(c, d) /\ d.samples = c.samples

\* A code that was seen d steps off is recorded, and refused.
Observes(c, o, now, d) ==
  /\ o.result = "invalidCode"
  /\ SameWindow(c, o.cfg)
  /\ o.cfg.samples = WithSample(c.samples, TimeStep(c, now), d)

\* A code that was seen d steps off completes a measurement, and is accepted.
Adopts(c, o, now, d) ==
  /\ o.result = "totp" /\ o.counter = TimeStep(c, now) + d
  /\ AllAgree(WithSample(c.samples, TimeStep(c, now), d))
  /\ o.cfg.stepSize = c.stepSize /\ o.cfg.windowSize = c.windowSize
  /\ o.cfg.timeSkew = AverageSkew(WithSample(c.samples, TimeStep(c, now), d))
  /\ o.cfg.samples = << >>

\* The code was seen d steps off, and not for the step recorded last.
SeenAt(c, code, now, d) ==
  /\ d \in Int /\ TimeStep(c, now) + d \in Nat
  /\ code = Compute(TimeStep(c, now) + d)
  /\ ~IsIgnoredObservation(c, TimeStep(c, now), d)

\* The three things a call may do to the skew.
MovesSkew(c, code, o, now) ==
  \/ SameSkew(c, o.cfg)
  \/ \E d \in Int : SeenAt(c, code, now, d)
                      /\ (Observes(c, o, now, d) \/ Adopts(c, o, now, d))

\* Whatever else differs, two configurations with one skew move alike.
LEMMA SameSkewMovesAlike ==
  ASSUME NEW c, NEW d, NEW code, NEW o, NEW now, SameSkew(c, d),
         MovesSkew(d, code, o, now)
  PROVE  MovesSkew(c, code, o, now)
<1>1. TimeStep(d, now) = TimeStep(c, now) /\ d.samples = c.samples
  BY DEF SameSkew, SameWindow, TimeStep, Step
<1>2. SameWindow(d, o.cfg) => SameWindow(c, o.cfg)
  BY DEF SameSkew, SameWindow
<1>3. SameSkew(d, o.cfg) => SameSkew(c, o.cfg)
  BY <1>1, <1>2 DEF SameSkew
<1>4. \A e : SeenAt(d, code, now, e) => SeenAt(c, code, now, e)
  BY <1>1 DEF SeenAt, IsIgnoredObservation
<1>5. \A e : Observes(d, o, now, e) => Observes(c, o, now, e)
  BY <1>1, <1>2 DEF Observes
<1>6. d.stepSize = c.stepSize /\ d.windowSize = c.windowSize
  BY DEF SameSkew, SameWindow
<1>7. \A e : Adopts(d, o, now, e) => Adopts(c, o, now, e)
  BY <1>1, <1>6 DEF Adopts
<1> QED
  BY <1>3, <1>4, <1>5, <1>7 DEF MovesSkew

LEMMA VerifyOutsideWindowMovesSkew ==
  ASSUME NEW c \in Config, NEW code, NEW opts \in VerifyOptions, NEW now \in Nat
  PROVE  MovesSkew(c, code, VerifyOutsideWindow(c, code, opts, now), now)
<1> DEFINE skews == PossibleSkews(c, code, now)
           d == NearestSkew(skews)
           tm == TimeStep(c, now)
           o == VerifyOutsideWindow(c, code, opts, now)
           observed == RecordSkewObservation(c, tm, d)
<1> SUFFICES MovesSkew(c, code, o, now)
  OBVIOUS
<1>1. SameSkew(c, c)
  BY DEF SameSkew, SameWindow
<1>2. CASE opts.disableSkewAdjustment \/ skews = {}
  <2>1. o = Failure(c, "invalidCode")
    BY <1>2 DEF VerifyOutsideWindow
  <2> HIDE DEF o
  <2> QED
    BY <1>1, <2>1 DEF Failure, MovesSkew
<1>3. CASE ~opts.disableSkewAdjustment /\ skews # {}
  <2>1. d \in skews
    <3>1. skews \in SUBSET Int
      BY DEF PossibleSkews
    <3> HIDE DEF skews
    <3> QED
      BY <1>3, <3>1, NearestSkewIsPossible
  <2>2. tm \in Int
    BY TimeStepType
  <2>3. \/ o = Success(observed, "totp", tm + d) /\ AdoptsSkew(c, tm, d)
        \/ o = Failure(observed, "invalidCode") /\ ~AdoptsSkew(c, tm, d)
    BY <1>3 DEF VerifyOutsideWindow
  <2>4. d \in Int /\ tm + d \in Nat /\ code = Compute(tm + d)
    <3>1. \A e \in skews : /\ e \in Int /\ tm + e >= 0
                           /\ Compute(tm + e) = code
      BY DEF PossibleSkews
    <3> HIDE DEF d, tm, skews
    <3> QED
      BY <2>1, <2>2, <3>1
  <2> HIDE DEF d, o, skews
  <2>5. CASE IsIgnoredObservation(c, tm, d)
    <3>1. observed = c /\ ~AdoptsSkew(c, tm, d)
      BY <2>5 DEF RecordSkewObservation, AdoptsSkew
    <3>2. o.cfg = c
      BY <2>3, <3>1 DEF Failure
    <3> QED
      BY <1>1, <3>2 DEF MovesSkew
  <2>6. CASE ~IsIgnoredObservation(c, tm, d) /\ ~AdoptsSkew(c, tm, d)
    <3>1. observed = [c EXCEPT !.samples = WithSample(c.samples, tm, d),
                               !.dirty = TRUE]
      BY <2>6 DEF RecordSkewObservation
    <3>2. SameWindow(c, observed)
          /\ observed.samples = WithSample(c.samples, tm, d)
      BY <3>1 DEF Config, SameWindow
    <3>3. o.cfg = observed /\ o.result = "invalidCode"
      BY <2>3, <2>6 DEF Failure
    <3>4. Observes(c, o, now, d) /\ SeenAt(c, code, now, d)
      BY <2>4, <2>6, <3>2, <3>3 DEF Observes, SeenAt
    <3> QED
      BY <2>4, <3>4 DEF MovesSkew
  <2>7. CASE AdoptsSkew(c, tm, d)
    <3>1. /\ ~IsIgnoredObservation(c, tm, d)
          /\ AllAgree(WithSample(c.samples, tm, d))
      BY <2>7 DEF AdoptsSkew
    <3>2. observed = [c EXCEPT !.timeSkew = AverageSkew(WithSample(c.samples, tm, d)),
                               !.samples = << >>, !.dirty = TRUE]
      BY <2>7, <3>1 DEF RecordSkewObservation
    <3>3. /\ observed.timeSkew = AverageSkew(WithSample(c.samples, tm, d))
          /\ observed.samples = << >>
          /\ observed.stepSize = c.stepSize
          /\ observed.windowSize = c.windowSize
      BY <3>2 DEF Config
    <3>4. o.cfg = observed /\ o.result = "totp" /\ o.counter = tm + d
      BY <2>3, <2>7 DEF Success
    <3>5. Adopts(c, o, now, d) /\ SeenAt(c, code, now, d)
      BY <2>4, <3>1, <3>3, <3>4 DEF Adopts, SeenAt
    <3> QED
      BY <2>4, <3>5 DEF MovesSkew
  <2> QED
    BY <2>5, <2>6, <2>7
<1> QED
  BY <1>2, <1>3

LEMMA VerifyTOTPMovesSkew ==
  ASSUME NEW c \in Config, NEW code, NEW opts \in VerifyOptions, NEW now \in Nat
  PROVE  MovesSkew(c, code, VerifyTOTP(c, code, opts, now), now)
<1> DEFINE o == VerifyTOTP(c, code, opts, now)
           pruned == ResetDisallowList(c, Centre(c, now), Window(c))
           hit == Min(TOTPHits(c, code, now))
           used == RecordUsedTimestamp(pruned, hit)
<1> SUFFICES MovesSkew(c, code, o, now)
  OBVIOUS
<1>1. pruned \in Config /\ SameSkew(c, pruned)
  <2>1. Centre(c, now) \in Int /\ Window(c) \in Nat
    BY TimeStepType, StepType
  <2> QED
    BY <2>1, ResetDisallowListType
    DEF ResetDisallowList, Config, SameSkew, SameWindow
<1>2. \/ o = VerifyOutsideWindow(pruned, code, opts, now)
      \/ o = Failure(pruned, "reused")
      \/ o = Success(used, "totp", hit)
  BY VerifyTOTPAnswers
<1> HIDE DEF o, pruned, hit
<1>3. CASE o = VerifyOutsideWindow(pruned, code, opts, now)
  <2>1. MovesSkew(pruned, code, o, now)
    BY <1>1, <1>3, VerifyOutsideWindowMovesSkew
  <2> QED
    BY <1>1, <2>1, SameSkewMovesAlike
<1>4. CASE o = Failure(pruned, "reused")
  BY <1>1, <1>4 DEF Failure, MovesSkew
<1>5. CASE o = Success(used, "totp", hit)
  <2>1. SameSkew(c, used)
    BY <1>1 DEF RecordUsedTimestamp, Config, SameSkew, SameWindow
  <2> QED
    BY <1>5, <2>1 DEF Success, MovesSkew
<1> QED
  BY <1>2, <1>3, <1>4, <1>5

LEMMA VerifyHOTPKeepsSkew ==
  ASSUME NEW c \in Config, NEW code, NEW opts \in VerifyOptions
  PROVE  SameSkew(c, VerifyHOTP(c, code, opts).cfg)
<1> DEFINE o == VerifyHOTP(c, code, opts)
           hit == Min(HOTPHits(c, code))
<1> SUFFICES SameSkew(c, o.cfg)
  OBVIOUS
<1>1. \/ o = Success(WithCounter(c, hit + 1), "hotp", hit)
      \/ o = Failure(c, "invalidCode")
      \/ o = Failure(WithCounter(c, c.hotpCounter + 1), "invalidCode")
  BY DEF VerifyHOTP
<1>2. SameSkew(c, c) /\ \A n : SameSkew(c, WithCounter(c, n))
  BY DEF SameSkew, SameWindow, WithCounter, Config
<1> HIDE DEF o, hit
<1> QED
  BY <1>1, <1>2 DEF Success, Failure

\* Only a six-digit code moves the skew, and only as VerifyTOTP does.
LEMMA VerifyCodeMovesSkew ==
  ASSUME NEW c \in Config, NEW token \in Tokens, NEW opts \in VerifyOptions,
         NEW now \in Nat
  PROVE  LET o == VerifyCode(c, token, opts, now)
         IN  SameSkew(c, o.cfg)
               \/ (token.kind = "six" /\ MovesSkew(c, token.code, o, now))
<1> DEFINE o == VerifyCode(c, token, opts, now)
           limited == EnforceRateLimit(c, now)
           Holds == SameSkew(c, o.cfg)
                      \/ (token.kind = "six" /\ MovesSkew(c, token.code, o, now))
<1> SUFFICES Holds
  BY DEF Holds, o
<1>1. limited \in Config /\ SameSkew(c, limited)
  BY EnforceRateLimitKeepsType DEF SameButRateLimit, SameSkew, SameWindow
<1>2. SameSkew(c, c)
  BY DEF SameSkew, SameWindow
<1>3. \/ o = Failure(c, "noSecret") \/ o = Failure(limited, "rateLimited")
      \/ o = VerifyToken(limited, token, opts, now)
  BY DEF VerifyCode
<1> HIDE DEF o, limited
<1>4. SameSkew(limited, o.cfg) => Holds
  BY <1>1 DEF SameSkew, SameWindow
<1>5. CASE o = Failure(c, "noSecret") \/ o = Failure(limited, "rateLimited")
  BY <1>1, <1>2, <1>5 DEF Failure
<1>6. CASE o = VerifyToken(limited, token, opts, now)
  <2>1. CASE \E error \in {"invalidCode", "badLength", "badSecret", "unknownMode"} :
               o = Failure(limited, error)
    BY <1>1, <2>1 DEF Failure
  <2>2. CASE o = Success(UseScratchCode(limited, token.code), "scratch", 0)
    <3>1. SameSkew(limited, UseScratchCode(limited, token.code))
      BY <1>1 DEF UseScratchCode, Config, SameSkew, SameWindow
    <3> QED
      BY <1>4, <2>2, <3>1 DEF Success
  <2>3. CASE token.kind = "six" /\ o = VerifyTOTP(limited, token.code, opts, now)
    <3>1. MovesSkew(limited, token.code, o, now)
      BY <1>1, <2>3, VerifyTOTPMovesSkew
    <3> QED
      BY <1>1, <2>3, <3>1, SameSkewMovesAlike
  <2>4. CASE o = VerifyHOTP(limited, token.code, opts)
    BY <1>1, <1>4, <2>4, VerifyHOTPKeepsSkew
  <2> QED
    BY <1>1, <1>6, <2>1, <2>2, <2>3, <2>4, VerifyTokenAnswers
<1> QED
  BY <1>3, <1>5, <1>6

-----------------------------------------------------------------------------
(***************************************************************************)
(* What must be written.                                                   *)
(***************************************************************************)

\* A token never takes the mark from a configuration that is to be written.
LEMMA VerifyTokenStaysDirty ==
  ASSUME NEW c \in Config, NEW token \in Tokens, NEW opts \in VerifyOptions,
         NEW now \in Nat
  PROVE  LET o == VerifyToken(c, token, opts, now)
         IN  /\ c.dirty => o.cfg.dirty
             /\ o.result = "totp" /\ c.disallowReuse => o.cfg.dirty
<1> DEFINE o == VerifyToken(c, token, opts, now)
           Dirty == /\ c.dirty => o.cfg.dirty
                    /\ o.result = "totp" /\ c.disallowReuse => o.cfg.dirty
<1> SUFFICES Dirty
  OBVIOUS
<1>1. CASE \E error \in {"invalidCode", "badLength", "badSecret", "unknownMode"} :
             o = Failure(c, error)
  BY <1>1 DEF Failure
<1>2. CASE o = Success(UseScratchCode(c, token.code), "scratch", 0)
  <2>1. UseScratchCode(c, token.code).dirty
    BY DEF UseScratchCode, Config
  <2> QED
    BY <1>2, <2>1 DEF Success
<1>3. CASE o = VerifyTOTP(c, token.code, opts, now)
  <2> DEFINE pruned == ResetDisallowList(c, Centre(c, now), Window(c))
             hit == Min(TOTPHits(c, token.code, now))
             tm == TimeStep(pruned, now)
             d == NearestSkew(PossibleSkews(pruned, token.code, now))
             used == RecordUsedTimestamp(pruned, hit)
             observed == RecordSkewObservation(pruned, tm, d)
  <2>1. \/ o = VerifyOutsideWindow(pruned, token.code, opts, now)
        \/ o = Failure(pruned, "reused")
        \/ o = Success(used, "totp", hit)
    BY <1>3 DEF VerifyTOTP
  <2>2. o.cfg \in {pruned, used, observed}
    BY <2>1 DEF VerifyOutsideWindow, Success, Failure
  <2>3. /\ pruned \in Config
        /\ c.dirty \/ c.disallowReuse => pruned.dirty
    <3>1. Centre(c, now) \in Int /\ Window(c) \in Nat
      BY TimeStepType, StepType
    <3>2. pruned \in Config
      BY <3>1, ResetDisallowListType
    <3> QED
      BY <3>2 DEF ResetDisallowList, Config
  <2> HIDE DEF pruned, o
  <2>4. pruned.dirty => used.dirty /\ observed.dirty
    BY <2>3 DEF RecordUsedTimestamp, RecordSkewObservation, Config
  <2> HIDE DEF used, observed
  <2> QED
    BY <2>2, <2>3, <2>4
<1>4. CASE o = VerifyHOTP(c, token.code, opts)
  <2>1. \A n : WithCounter(c, n).dirty
    BY DEF WithCounter, Config
  <2>2. o.cfg = c \/ \E n : o.cfg = WithCounter(c, n)
    BY <1>4 DEF VerifyHOTP, Success, Failure
  <2>3. o.result # "totp"
    BY <1>4 DEF VerifyHOTP, Success, Failure
  <2> HIDE DEF o
  <2> QED
    BY <2>1, <2>2, <2>3
<1> QED
  BY <1>1, <1>2, <1>3, <1>4, VerifyTokenAnswers

\* Where an accepted code counts towards a limit or goes on the list, the
\* configuration is to be written.
LEMMA VerifyCodeDirties ==
  ASSUME NEW c \in Config, NEW token \in Tokens, NEW opts \in VerifyOptions,
         NEW now \in Nat
  PROVE  LET o == VerifyCode(c, token, opts, now)
         IN  o.result \in Successes =>
               /\ HasRateLimit(c) => o.cfg.dirty
               /\ o.result = "totp" /\ c.disallowReuse => o.cfg.dirty
<1> DEFINE limited == EnforceRateLimit(c, now)
           o == VerifyCode(c, token, opts, now)
<1> SUFFICES ASSUME o.result \in Successes
             PROVE  /\ HasRateLimit(c) => o.cfg.dirty
                    /\ o.result = "totp" /\ c.disallowReuse => o.cfg.dirty
  OBVIOUS
<1>1. o = VerifyToken(limited, token, opts, now)
  BY DEF VerifyCode, Failure, Successes
<1>2. /\ limited \in Config /\ limited.disallowReuse = c.disallowReuse
      /\ HasRateLimit(c) => limited.dirty
  <2>1. limited \in Config /\ limited.disallowReuse = c.disallowReuse
    BY EnforceRateLimitKeepsType DEF SameButRateLimit
  <2>2. HasRateLimit(c) => limited.dirty
    BY DEF EnforceRateLimit, Config
  <2> QED
    BY <2>1, <2>2
<1> HIDE DEF limited, o
<1> QED
  BY <1>1, <1>2, VerifyTokenStaysDirty
=============================================================================
