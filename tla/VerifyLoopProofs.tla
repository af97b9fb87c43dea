-------------------------- MODULE VerifyLoopProofs --------------------------
(***************************************************************************)
(* What VerifyLoop promises, for every instance of its constants.          *)
(***************************************************************************)
EXTENDS VerifyLoop, AuthenticatorProofs, FiniteSetTheorems

\* The clock is not set back.
ClockForward == ClockSteps \subseteq Nat

\* The stamps in the file are in order, and older than the start.
StampsOfThePast ==
  \A c \in InitialConfigs, t \in StartTimes : StampsInOrder(c, t)

\* no_skew_adj, or --no-skew-adjust: TIME_SKEW keeps its value.
NoSkewAdjustment == \A opts \in OptionSets : opts.disableSkewAdjustment

-----------------------------------------------------------------------------
(***************************************************************************)
(* Types.                                                                  *)
(***************************************************************************)

\* The outcome of a call, as VerifyCodeKeepsType describes it.
LEMMA CallType ==
  ASSUME TypeOK, NEW token \in TypedTokens, NEW opts \in OptionSets
  PROVE  LET o == VerifyCode(cfg, token, opts, now)
         IN  /\ o.cfg \in Config
             /\ o.result \in Results /\ o.counter \in Int
             /\ token \in Tokens /\ opts \in VerifyOptions
             /\ cfg \in Config /\ now \in Nat
<1>1. /\ token \in Tokens /\ opts \in VerifyOptions
      /\ cfg \in Config /\ now \in Nat
  BY LoopAssumption DEF TypeOK
<1> QED
  BY <1>1, VerifyCodeKeepsType

LEMMA TypeInit ==
  ASSUME Init
  PROVE  TypeOK
<1>1. cfg \in Config /\ now \in Nat
  BY LoopAssumption DEF Init
<1>2. last \in Answers
  BY DEF Init, Answers
<1>3. calls \in Seq(Int) /\ admitted \subseteq DOMAIN calls
  BY <1>1 DEF Init, Config, RateLimit
<1>4. accepted = {} /\ misses \subseteq Misses
  BY DEF Init, SampledCalls
<1> QED
  BY <1>1, <1>2, <1>3, <1>4 DEF TypeOK

LEMMA VerifyKeepsType ==
  ASSUME TypeOK, NEW token \in TypedTokens, NEW opts \in OptionSets,
         Verify(token, opts)
  PROVE  TypeOK'
<1> DEFINE o == VerifyCode(cfg, token, opts, now)
<1>1. /\ o.cfg \in Config
      /\ o.result \in Results /\ o.counter \in Int
      /\ token \in Tokens /\ now \in Nat
  BY CallType
<1>2. cfg' = o.cfg /\ now' = now
  BY DEF Verify
<1>3. last' = [result |-> o.result, counter |-> o.counter]
  BY DEF Verify
<1>4. calls' = IF ReachesRateLimiter(cfg) THEN Append(calls, now) ELSE calls
  BY DEF Verify
<1>5. \/ o.result \in {"noSecret", "rateLimited"} /\ admitted' = admitted
      \/ /\ o.result \notin {"noSecret", "rateLimited"}
         /\ admitted' = admitted \union {Len(calls')}
  BY DEF Verify
<1>6. accepted' = IF o.result \in {"totp", "hotp"}
                  THEN accepted \union {[type |-> o.result, counter |-> o.counter]}
                  ELSE accepted
  BY DEF Verify
<1>7. misses' \in {{}, misses}
        \/ /\ token.kind = "six"
           /\ misses' = misses \union {[code |-> token.code,
                                         at |-> TimeStep(cfg, now)]}
  BY DEF Verify
<1>8. o.result \notin {"noSecret", "rateLimited"} => ReachesRateLimiter(cfg)
  BY DEF VerifyCode, Failure
<1> HIDE DEF o
<1>9. last' \in Answers
  BY <1>1, <1>3 DEF Answers, Results
<1>10. /\ calls \in Seq(Int) /\ calls' \in Seq(Int)
       /\ ReachesRateLimiter(cfg) => Len(calls') = Len(calls) + 1
       /\ ~ReachesRateLimiter(cfg) => calls' = calls
  BY <1>1, <1>4, AppendProperties DEF TypeOK
<1>11. admitted' \subseteq DOMAIN calls'
  <2>1. /\ Len(calls) \in Nat /\ Len(calls') \in Nat
        /\ DOMAIN calls = 1 .. Len(calls) /\ DOMAIN calls' = 1 .. Len(calls')
    BY <1>10
  <2>2. admitted \subseteq DOMAIN calls
    BY DEF TypeOK
  <2>3. CASE ReachesRateLimiter(cfg)
    <3>1. Len(calls') = Len(calls) + 1
      BY <1>10, <2>3
    <3>2. DOMAIN calls \subseteq DOMAIN calls' /\ Len(calls') \in DOMAIN calls'
      BY <2>1, <3>1
    <3> QED
      BY <1>5, <2>2, <3>2
  <2>4. CASE ~ReachesRateLimiter(cfg)
    BY <1>5, <1>8, <1>10, <2>2, <2>4
  <2> QED
    BY <2>3, <2>4
<1>12. accepted' \subseteq [type : {"totp", "hotp"}, counter : Int]
  BY <1>1, <1>6 DEF TypeOK
<1>13. misses' \subseteq Misses
  <2>1. token.kind = "six" => token.code \in SixDigitCodes
    BY <1>1 DEF Tokens
  <2>2. TimeStep(cfg, now) \in Int
    BY <1>1, TimeStepType DEF TypeOK
  <2> QED
    BY <1>7, <2>1, <2>2 DEF TypeOK, Misses
<1> QED
  BY <1>1, <1>2, <1>9, <1>10, <1>11, <1>12, <1>13
  DEF TypeOK

\* Wherever the clock is set, it shows a time that is not negative.
LEMMA SetClockKeepsType ==
  ASSUME TypeOK, SetClock
  PROVE  TypeOK'
<1>1. PICK d \in ClockSteps : now + d \in 0 .. MaxTime /\ now' = now + d
  BY DEF SetClock
<1>2. now' \in Nat
  BY <1>1, LoopAssumption
<1>3. UNCHANGED <<cfg, last, calls, admitted, accepted, misses>>
  BY DEF SetClock
<1> QED
  BY <1>2, <1>3 DEF TypeOK

\* Forwards, if that is how it is set.
LEMMA ClockAdvances ==
  ASSUME ClockForward, TypeOK, SetClock
  PROVE  now \in Nat /\ now' \in Nat /\ now <= now'
<1>1. PICK d \in ClockSteps : now' = now + d
  BY DEF SetClock
<1>2. now \in Nat /\ d \in Nat
  BY <1>1 DEF ClockForward, TypeOK
<1> QED
  BY <1>1, <1>2

LEMMA StutterKeepsType ==
  ASSUME TypeOK, UNCHANGED vars
  PROVE  TypeOK'
  BY DEF vars, TypeOK

LEMMA StepKeepsType ==
  ASSUME TypeOK, [Next]_vars
  PROVE  TypeOK'
<1>1. CASE \E token \in TypedTokens, opts \in OptionSets : Verify(token, opts)
  BY <1>1, VerifyKeepsType
<1>2. CASE SetClock
  BY <1>2, SetClockKeepsType
<1>3. CASE UNCHANGED vars
  BY <1>3, StutterKeepsType
<1> QED
  BY <1>1, <1>2, <1>3 DEF Next

\* However the clock is set, and whatever the file held, calls leave a
\* configuration (VerifyCode).
THEOREM TypeCorrect == Spec => []TypeOK
<1>1. Init => TypeOK
  BY TypeInit
<1>2. TypeOK /\ [Next]_vars => TypeOK'
  BY StepKeepsType
<1> QED
  BY <1>1, <1>2, PTL DEF Spec

-----------------------------------------------------------------------------
(***************************************************************************)
(* Counter-based codes are accepted once.                                  *)
(***************************************************************************)

\* A call adds at most the counter it accepts.
LEMMA CountersAfterCall ==
  ASSUME NEW token \in TypedTokens, NEW opts \in OptionSets,
         Verify(token, opts), NEW type \in {"totp", "hotp"}
  PROVE  LET o == VerifyCode(cfg, token, opts, now)
         IN  \A k \in Counters(type)' :
               k \in Counters(type) \/ (o.result = type /\ k = o.counter)
<1> DEFINE o == VerifyCode(cfg, token, opts, now)
<1>1. accepted' = IF o.result \in {"totp", "hotp"}
                  THEN accepted \union {[type |-> o.result, counter |-> o.counter]}
                  ELSE accepted
  BY DEF Verify
<1> HIDE DEF o
<1>2. \A k \in Counters(type)' :
        k \in Counters(type) \/ (o.result = type /\ k = o.counter)
  BY <1>1 DEF Counters
<1> QED
  BY <1>2 DEF o

LEMMA CountersType ==
  ASSUME TypeOK, NEW type \in {"totp", "hotp"}
  PROVE  Counters(type) \subseteq Int
  BY DEF TypeOK, Counters

LEMMA VerifyKeepsHotpInv ==
  ASSUME TypeOK, HotpInv, NEW token \in TypedTokens, NEW opts \in OptionSets,
         Verify(token, opts)
  PROVE  /\ HotpInv'
         /\ last'.result = "hotp" => \A k \in Counters("hotp") : k < last'.counter
<1> DEFINE o == VerifyCode(cfg, token, opts, now)
<1>1. /\ o.cfg \in Config /\ o.counter \in Int /\ cfg \in Config
      /\ token \in Tokens /\ opts \in VerifyOptions /\ now \in Nat
     
  BY CallType
<1>2. /\ o.cfg.hotpCounter >= cfg.hotpCounter
      /\ o.result = "hotp" =>
           /\ o.counter >= cfg.hotpCounter
           /\ o.cfg.hotpCounter = o.counter + 1
  BY <1>1, VerifyCodeHOTP
<1>3. /\ cfg' = o.cfg
      /\ last' = [result |-> o.result, counter |-> o.counter]
  BY DEF Verify
<1>4. \A k \in Counters("hotp")' :
        k \in Counters("hotp") \/ (o.result = "hotp" /\ k = o.counter)
  BY CountersAfterCall
<1>5. cfg.hotpCounter \in Int /\ o.cfg.hotpCounter \in Int
      /\ Counters("hotp") \subseteq Int
  BY <1>1, CountersType DEF Config
<1>6. \A k \in Counters("hotp") : k < cfg.hotpCounter
  BY DEF HotpInv
<1> HIDE DEF o
<1>7. HotpInv'
  <2> SUFFICES ASSUME NEW k \in Counters("hotp")'
               PROVE  k < o.cfg.hotpCounter
    BY <1>3 DEF HotpInv
  <2>1. CASE k \in Counters("hotp")
    <3>1. k \in Int /\ k < cfg.hotpCounter
      BY <1>5, <1>6, <2>1
    <3> QED
      BY <1>2, <1>5, <3>1
  <2>2. CASE o.result = "hotp" /\ k = o.counter
    BY <1>1, <1>2, <2>2
  <2> QED
    BY <1>4, <2>1, <2>2
<1>8. last'.result = "hotp" => \A k \in Counters("hotp") : k < last'.counter
  <2> SUFFICES ASSUME o.result = "hotp", NEW k \in Counters("hotp")
               PROVE  k < o.counter
    BY <1>3
  <2>1. k \in Int /\ k < cfg.hotpCounter
    BY <1>5, <1>6
  <2> QED
    BY <1>1, <1>2, <1>5, <2>1
<1> QED
  BY <1>7, <1>8

LEMMA StepKeepsHotpInv ==
  ASSUME TypeOK, HotpInv, [Next]_vars
  PROVE  /\ HotpInv'
         /\ Accepts("hotp") => \A k \in Counters("hotp") : k < last'.counter
<1>1. CASE \E token \in TypedTokens, opts \in OptionSets : Verify(token, opts)
  BY <1>1, VerifyKeepsHotpInv DEF Accepts
<1>2. CASE UNCHANGED <<cfg, calls, accepted>>
  BY <1>2 DEF HotpInv, Counters, Accepts
<1> QED
  BY <1>1, <1>2 DEF Next, SetClock, vars

\* HOTP_COUNTER is past every counter that was accepted.
THEOREM HotpCounterIsPast == Spec => []HotpInv
<1>1. Init => TypeOK /\ HotpInv
  <2>1. Init => HotpInv
    BY DEF Init, HotpInv, Counters
  <2> QED
    BY <2>1, TypeInit
<1>2. TypeOK /\ HotpInv /\ [Next]_vars => TypeOK' /\ HotpInv'
  BY StepKeepsType, StepKeepsHotpInv
<1> QED
  BY <1>1, <1>2, PTL DEF Spec

\* No HOTP code is accepted after a newer one, nor twice.
THEOREM HotpNeverReplayed == Spec => HotpNoReplay
<1>1. Init => TypeOK /\ HotpInv
  <2>1. Init => HotpInv
    BY DEF Init, HotpInv, Counters
  <2> QED
    BY <2>1, TypeInit
<1>2. TypeOK /\ HotpInv /\ [Next]_vars => TypeOK' /\ HotpInv'
  BY StepKeepsType, StepKeepsHotpInv
<1>3. TypeOK /\ HotpInv /\ [Next]_vars
        => [Accepts("hotp")
              => \A k \in Counters("hotp") : k < last'.counter]_vars
  BY StepKeepsHotpInv
<1> QED
  BY <1>1, <1>2, <1>3, PTL DEF Spec, HotpNoReplay

-----------------------------------------------------------------------------
(***************************************************************************)
(* Under DISALLOW_REUSE time-based codes are accepted once.                *)
(***************************************************************************)

LEMMA SetClockKeepsTotpInv ==
  ASSUME ClockForward, TypeOK, TotpInv, SetClock
  PROVE  TotpInv'
<1>1. now \in Nat /\ now' \in Nat /\ now <= now'
  BY ClockAdvances
<1>2. cfg \in Config /\ cfg' = cfg /\ Counters("totp")' = Counters("totp")
  BY DEF TypeOK, SetClock, Counters
<1>3. Centre(cfg, now) <= Centre(cfg, now')
  BY <1>1, <1>2, CentreAdvances
<1>4. /\ Centre(cfg, now) \in Int /\ Centre(cfg, now') \in Int
      /\ Window(cfg) \in Nat
  BY <1>1, <1>2, TimeStepType, StepType
<1> SUFFICES ASSUME cfg.disallowReuse, NEW k \in Counters("totp")
             PROVE  /\ k \in cfg.disallowed \/ k + Window(cfg) <= Centre(cfg, now')
                    /\ k < Centre(cfg, now') + Window(cfg)
  BY <1>2 DEF TotpInv
<1>5. k \in Int
  BY CountersType
<1>6. /\ k \in cfg.disallowed \/ k + Window(cfg) <= Centre(cfg, now)
      /\ k < Centre(cfg, now) + Window(cfg)
  BY DEF TotpInv
<1> QED
  BY <1>3, <1>4, <1>5, <1>6

LEMMA VerifyKeepsTotpInv ==
  ASSUME NoSkewAdjustment, TypeOK, TotpInv,
         NEW token \in TypedTokens, NEW opts \in OptionSets, Verify(token, opts)
  PROVE  /\ TotpInv'
         /\ last'.result = "totp" /\ cfg.disallowReuse
              => last'.counter \notin Counters("totp")
<1> DEFINE o == VerifyCode(cfg, token, opts, now)
<1>1. /\ o.cfg \in Config /\ o.counter \in Int /\ cfg \in Config
      /\ token \in Tokens /\ opts \in VerifyOptions /\ now \in Nat
     
  BY CallType
<1>2. SameWindow(cfg, o.cfg) /\ KeepsList(cfg, o.cfg, now) /\ GoesOnList(cfg, o, now)
  BY <1>1, VerifyCodeTOTP DEF NoSkewAdjustment
<1>3. /\ cfg' = o.cfg /\ now' = now
      /\ last' = [result |-> o.result, counter |-> o.counter]
  BY DEF Verify
<1>4. \A k \in Counters("totp")' :
        k \in Counters("totp") \/ (o.result = "totp" /\ k = o.counter)
  BY CountersAfterCall
<1>5. /\ Centre(cfg, now) \in Int /\ Window(cfg) \in Nat
      /\ Counters("totp") \subseteq Int
  BY <1>1, TimeStepType, StepType, CountersType
<1> HIDE DEF o
<1>6. /\ Centre(o.cfg, now) = Centre(cfg, now) /\ Window(o.cfg) = Window(cfg)
      /\ o.cfg.disallowReuse = cfg.disallowReuse
  BY <1>2, SameWindowSameCentre DEF SameWindow
<1>7. ASSUME cfg.disallowReuse, NEW k \in Counters("totp")
      PROVE  /\ k \in Int
             /\ k \in cfg.disallowed \/ k + Window(cfg) <= Centre(cfg, now)
             /\ k < Centre(cfg, now) + Window(cfg)
  BY <1>5, <1>7 DEF TotpInv
<1>8. TotpInv'
  <2> SUFFICES ASSUME cfg.disallowReuse, NEW k \in Counters("totp")'
               PROVE  /\ \/ k \in o.cfg.disallowed
                         \/ k + Window(cfg) <= Centre(cfg, now)
                      /\ k < Centre(cfg, now) + Window(cfg)
    BY <1>3, <1>6 DEF TotpInv
  <2>1. CASE k \in Counters("totp")
    <3>1. /\ k \in Int
          /\ k \in cfg.disallowed \/ k + Window(cfg) <= Centre(cfg, now)
          /\ k < Centre(cfg, now) + Window(cfg)
      BY <1>7, <2>1
    <3>2. k + Window(cfg) <= Centre(cfg, now) \/ InWindow(cfg, now, k)
      BY <1>5, <3>1 DEF InWindow
    <3>3. k \in cfg.disallowed /\ InWindow(cfg, now, k) => k \in o.cfg.disallowed
      BY <1>2, <3>1 DEF KeepsList
    <3> QED
      BY <3>1, <3>2, <3>3
  <2>2. CASE o.result = "totp" /\ k = o.counter
    BY <1>2, <2>2 DEF GoesOnList, InWindow
  <2> QED
    BY <1>4, <2>1, <2>2
<1>9. last'.result = "totp" /\ cfg.disallowReuse
        => last'.counter \notin Counters("totp")
  <2> SUFFICES ASSUME o.result = "totp", cfg.disallowReuse,
                      o.counter \in Counters("totp")
               PROVE  FALSE
    BY <1>3
  <2>1. InWindow(cfg, now, o.counter) /\ o.counter \notin cfg.disallowed
    BY <1>2 DEF GoesOnList
  <2>2. o.counter + Window(cfg) <= Centre(cfg, now)
    BY <1>7, <2>1
  <2> QED
    BY <1>1, <1>5, <2>1, <2>2 DEF InWindow
<1> QED
  BY <1>8, <1>9

LEMMA StepKeepsTotpInv ==
  ASSUME ClockForward, NoSkewAdjustment, TypeOK, TotpInv, [Next]_vars
  PROVE  /\ TotpInv'
         /\ Accepts("totp") /\ cfg.disallowReuse
              => last'.counter \notin Counters("totp")
<1>1. CASE \E token \in TypedTokens, opts \in OptionSets : Verify(token, opts)
  BY <1>1, VerifyKeepsTotpInv DEF Accepts
<1>2. CASE SetClock
  <2>1. calls' = calls
    BY <1>2 DEF SetClock
  <2> QED
    BY <1>2, <2>1, SetClockKeepsTotpInv DEF Accepts
<1>3. CASE UNCHANGED vars
  BY <1>3 DEF TotpInv, Counters, Accepts, vars
<1> QED
  BY <1>1, <1>2, <1>3 DEF Next

LEMMA TotpInit ==
  ASSUME Init
  PROVE  TotpInv
  BY DEF Init, TotpInv, Counters

\* An accepted time step is on the list, or too old for the window.
THEOREM UsedStepsAreBlocked ==
  ASSUME ClockForward, NoSkewAdjustment
  PROVE  Spec => []TotpInv
<1>1. Init => TypeOK /\ TotpInv
  BY TypeInit, TotpInit
<1>2. TypeOK /\ TotpInv /\ [Next]_vars => TypeOK' /\ TotpInv'
  BY StepKeepsType, StepKeepsTotpInv
<1> QED
  BY <1>1, <1>2, PTL DEF Spec

\* Under DISALLOW_REUSE no time step is accepted twice.
THEOREM TotpNeverReplayed ==
  ASSUME ClockForward, NoSkewAdjustment
  PROVE  Spec => TotpNoReplay
<1>1. Init => TypeOK /\ TotpInv
  BY TypeInit, TotpInit
<1>2. TypeOK /\ TotpInv /\ [Next]_vars => TypeOK' /\ TotpInv'
  BY StepKeepsType, StepKeepsTotpInv
<1>3. TypeOK /\ TotpInv /\ [Next]_vars
        => [Accepts("totp") /\ cfg.disallowReuse
              => last'.counter \notin Counters("totp")]_vars
  BY StepKeepsTotpInv
<1> QED
  BY <1>1, <1>2, <1>3, PTL DEF Spec, TotpNoReplay

-----------------------------------------------------------------------------
(***************************************************************************)
(* The skew adjustment.                                                    *)
(***************************************************************************)

\* What a call does to the skew, in the words of the loop.
LEMMA CallMovesSkew ==
  ASSUME TypeOK, NEW token \in TypedTokens, NEW opts \in OptionSets
  PROVE  LET o == VerifyCode(cfg, token, opts, now)
         IN  \/ SameSkew(cfg, o.cfg)
             \/ /\ token.kind = "six" /\ token.code \in SixDigitCodes
                /\ \E d \in Int :
                     /\ SeenAt(cfg, token.code, now, d)
                     /\ Observes(cfg, o, now, d) \/ Adopts(cfg, o, now, d)
<1>1. /\ token \in Tokens /\ opts \in VerifyOptions
      /\ cfg \in Config /\ now \in Nat
  BY CallType
<1>2. token.kind = "six" => token.code \in SixDigitCodes
  BY <1>1 DEF Tokens
<1> DEFINE o == VerifyCode(cfg, token, opts, now)
<1>3. SameSkew(cfg, o.cfg)
        \/ (token.kind = "six" /\ MovesSkew(cfg, token.code, o, now))
  BY <1>1, VerifyCodeMovesSkew
<1> HIDE DEF o
<1>4. \/ SameSkew(cfg, o.cfg)
      \/ /\ token.kind = "six" /\ token.code \in SixDigitCodes
         /\ \E d \in Int :
              /\ SeenAt(cfg, token.code, now, d)
              /\ Observes(cfg, o, now, d) \/ Adopts(cfg, o, now, d)
  BY <1>2, <1>3 DEF MovesSkew
<1> QED
  BY <1>4 DEF o

\* t is what is left of s, in its order, and one more sample.
Extends(t, s, sample) ==
  /\ t \in Seq(SkewSample) /\ Len(t) \in Nat \ {0}
  /\ t[Len(t)] = sample
  /\ \E k \in Nat :
       /\ Len(t) - 1 + k = Len(s)
       /\ \A i \in 1 .. Len(t) - 1 : t[i] = s[i + k]

LEMMA WithSampleExtends ==
  ASSUME NEW s \in Seq(SkewSample), NEW ts \in Int, NEW skew \in Int
  PROVE  Extends(WithSample(s, ts, skew), s, [timestamp |-> ts, skew |-> skew])
<1> DEFINE t == WithSample(s, ts, skew)
           new == [timestamp |-> ts, skew |-> skew]
<1> SUFFICES Extends(t, s, new)
  OBVIOUS
<1>1. t \in Seq(SkewSample) /\ new \in SkewSample
  BY WithSampleType DEF SkewSample
<1>2. Len(s) \in Nat
  OBVIOUS
<1>3. CASE Len(s) = SkewSamplesNeeded
  <2>1. s # << >>
    <3>1. Len(s) # 0
      BY <1>3 DEF SkewSamplesNeeded
    <3> QED
      BY <3>1
  <2> DEFINE r == Tail(s)
  <2>2. /\ r \in Seq(SkewSample) /\ Len(r) = Len(s) - 1
        /\ \A i \in 1 .. Len(r) : r[i] = s[i + 1]
    BY <2>1, HeadTailProperties
  <2>3. t = Append(r, new)
    BY <1>3 DEF WithSample
  <2> HIDE DEF r, t, new
  <2>4. /\ Len(t) = Len(r) + 1 /\ t[Len(r) + 1] = new
        /\ \A i \in 1 .. Len(r) : t[i] = r[i]
    BY <1>1, <2>2, <2>3, AppendProperties
  <2>5. Len(r) \in Nat /\ Len(t) - 1 = Len(r) /\ Len(t) - 1 + 1 = Len(s)
    BY <1>2, <2>2, <2>4
  <2>6. \A i \in 1 .. Len(t) - 1 : t[i] = s[i + 1]
    BY <2>2, <2>4, <2>5
  <2>7. Len(t) \in Nat \ {0} /\ t[Len(t)] = new /\ 1 \in Nat
    BY <2>4, <2>5
  <2> QED
    BY <1>1, <2>5, <2>6, <2>7, Zenon DEF Extends
<1>4. CASE Len(s) # SkewSamplesNeeded
  <2>1. t = Append(s, new)
    BY <1>4 DEF WithSample
  <2> HIDE DEF t, new
  <2>2. /\ Len(t) = Len(s) + 1 /\ t[Len(s) + 1] = new
        /\ \A i \in 1 .. Len(s) : t[i] = s[i]
    BY <1>1, <2>1, AppendProperties
  <2>3. Len(t) - 1 = Len(s) /\ Len(t) - 1 + 0 = Len(s)
    BY <1>2, <2>2
  <2>4. \A i \in 1 .. Len(t) - 1 : t[i] = s[i + 0]
    BY <1>2, <2>2, <2>3
  <2>5. Len(t) \in Nat \ {0} /\ t[Len(t)] = new /\ 0 \in Nat
    BY <1>2, <2>2
  <2> QED
    BY <1>1, <2>3, <2>4, <2>5, Zenon DEF Extends
<1> QED
  BY <1>3, <1>4

\* Three samples that agree: one skew apart from the next at most, and a step
\* or two later.
LEMMA ThreeAgree ==
  ASSUME NEW t \in Seq(SkewSample), AllAgree(t)
  PROVE  /\ Len(t) = 3
         /\ t[1] \in SkewSample /\ t[2] \in SkewSample /\ t[3] \in SkewSample
         /\ Agree(t[1], t[2]) /\ Agree(t[2], t[3])
<1>1. Len(t) = 3
  BY DEF AllAgree, SkewSamplesNeeded
<1>2. \A i \in 1 .. 3 : t[i] \in SkewSample
  <2> DEFINE Samples == SkewSample
  <2>1. t \in Seq(Samples)
    OBVIOUS
  <2> HIDE DEF Samples
  <2>2. \A i \in 1 .. 3 : t[i] \in Samples
    BY <1>1, <2>1, ElementOfSeq
  <2> QED
    BY <2>2 DEF Samples
<1>3. Agree(t[1], t[1 + 1]) /\ Agree(t[2], t[2 + 1])
  <2>1. \A i \in 1 .. 2 : Agree(t[i], t[i + 1])
    BY DEF AllAgree, SkewSamplesNeeded
  <2> QED
    BY <2>1
<1> QED
  BY <1>1, <1>2, <1>3

\* The average of three samples that agree is within one step of the last.
LEMMA AverageIsNear ==
  ASSUME NEW t \in Seq(SkewSample), AllAgree(t)
  PROVE  /\ AverageSkew(t) \in Int
         /\ AverageSkew(t) - 1 <= t[3].skew /\ t[3].skew <= AverageSkew(t) + 1
<1>1. /\ t[1] \in SkewSample /\ t[2] \in SkewSample /\ t[3] \in SkewSample
      /\ Agree(t[1], t[2]) /\ Agree(t[2], t[3])
  BY ThreeAgree
<1> DEFINE a == t[1].skew
           b == t[2].skew
           c == t[3].skew
<1>2. /\ a \in Int /\ b \in Int /\ c \in Int
      /\ a - b \in -1 .. 1 /\ b - c \in -1 .. 1
  BY <1>1 DEF SkewSample, Agree
<1>3. AverageSkew(t) = Quotient(a + b + c, 3)
  BY DEF AverageSkew, SkewSamplesNeeded
<1> HIDE DEF a, b, c
<1>4. \A total \in Int :
        /\ Quotient(total, 3) \in Int
        /\ 3 * Quotient(total, 3) >= total - 2
        /\ 3 * Quotient(total, 3) <= total + 2
  BY DEF Quotient
<1>5. /\ a + b + c \in Int
      /\ a + b + c >= 3 * c - 3 /\ a + b + c <= 3 * c + 3
  BY <1>2
<1> DEFINE sum == a + b + c
           q == Quotient(sum, 3)
<1>6. /\ q \in Int
      /\ 3 * q >= 3 * c - 5 /\ 3 * q <= 3 * c + 5
  <2>1. sum \in Int /\ sum >= 3 * c - 3 /\ sum <= 3 * c + 3
    BY <1>5
  <2> HIDE DEF sum
  <2>2. q \in Int /\ 3 * q >= sum - 2 /\ 3 * q <= sum + 2
    BY <1>4, <2>1
  <2> HIDE DEF q
  <2> QED
    BY <1>2, <2>1, <2>2
<1> HIDE DEF q
<1>7. q - 1 <= c /\ c <= q + 1
  BY <1>2, <1>6
<1> QED
  BY <1>3, <1>6, <1>7 DEF q, c

LEMMA VerifyFitsSkew ==
  ASSUME TypeOK, NEW token \in TypedTokens, NEW opts \in OptionSets,
         Verify(token, opts), SkewAdapted, Window(cfg) >= 3
  PROVE  last'.counter \in AcceptableCounters(cfg', now)
<1> DEFINE o == VerifyCode(cfg, token, opts, now)
           tm == TimeStep(cfg, now)
<1>1. /\ cfg' = o.cfg
      /\ last' = [result |-> o.result, counter |-> o.counter]
  BY DEF Verify
<1>2. cfg \in Config /\ o.cfg \in Config /\ now \in Nat
  BY CallType
<1>3. PICK d \in Int : SeenAt(cfg, token.code, now, d) /\ Adopts(cfg, o, now, d)
  <2>1. o.cfg.timeSkew # cfg.timeSkew
    BY <1>1 DEF SkewAdapted
  <2> HIDE DEF o
  <2> QED
    BY <2>1, CallMovesSkew DEF o, SameSkew, SameWindow, Observes
<1> HIDE DEF o
<1>4. tm \in Int /\ tm + d \in Nat
  BY <1>2, <1>3, TimeStepType DEF SeenAt
<1> DEFINE t == WithSample(cfg.samples, tm, d)
           average == AverageSkew(t)
<1>5. /\ t \in Seq(SkewSample) /\ Len(t) \in Nat
      /\ t[Len(t)] = [timestamp |-> tm, skew |-> d]
  <2>1. cfg.samples \in Seq(SkewSample)
    BY <1>2 DEF Config
  <2> HIDE DEF tm
  <2> QED
    BY <1>4, <2>1, WithSampleExtends DEF Extends
<1>6. AllAgree(t) /\ o.cfg.timeSkew = average /\ o.counter = tm + d
  BY <1>3 DEF Adopts
<1>7. TimeStep(o.cfg, now) = tm /\ Window(o.cfg) = Window(cfg)
  BY <1>3 DEF Adopts, TimeStep, Step, Window
<1> HIDE DEF tm, t
<1>8. t[3].skew = d
  BY <1>5, <1>6, ThreeAgree
<1>9. average \in Int /\ average - 1 <= d /\ d <= average + 1
  BY <1>5, <1>6, <1>8, AverageIsNear
<1> HIDE DEF average
<1>10. Centre(o.cfg, now) = tm + average
  BY <1>6, <1>7 DEF Centre
<1> DEFINE w == Window(o.cfg)
<1>11. (w - 1) \div 2 >= 1 /\ w \div 2 >= 1
       /\ (w - 1) \div 2 \in Int /\ w \div 2 \in Int
  <2>1. \A n \in Nat : n >= 3 => /\ (n - 1) \div 2 >= 1 /\ n \div 2 >= 1
                                 /\ (n - 1) \div 2 \in Int /\ n \div 2 \in Int
    OBVIOUS
  <2> QED
    BY <1>2, <1>7, <2>1, StepType
<1> HIDE DEF w
<1>12. /\ tm + d \in Centre(o.cfg, now) - (w - 1) \div 2
                      .. Centre(o.cfg, now) + w \div 2
       /\ tm + d >= 0
  BY <1>4, <1>9, <1>10, <1>11
<1>13. tm + d \in AcceptableCounters(o.cfg, now)
  BY <1>12 DEF AcceptableCounters, w
<1> QED
  BY <1>1, <1>6, <1>13

\* The averaged TIME_SKEW serves the device it was measured on.
THEOREM AdaptedSkewServes == Spec => AdaptedSkewFits
<1>1. Init => TypeOK
  BY TypeInit
<1>2. TypeOK /\ [Next]_vars => TypeOK'
  BY StepKeepsType
<1>3. TypeOK /\ [Next]_vars
        => [SkewAdapted /\ Window(cfg) >= 3
              => last'.counter \in AcceptableCounters(cfg', now)]_vars
  <2> SUFFICES ASSUME TypeOK, Next, SkewAdapted, Window(cfg) >= 3
               PROVE  last'.counter \in AcceptableCounters(cfg', now)
    OBVIOUS
  <2>1. ~SetClock
    BY DEF SetClock, SkewAdapted
  <2> QED
    BY <2>1, VerifyFitsSkew DEF Next
<1> QED
  BY <1>1, <1>2, <1>3, PTL DEF Spec, AdaptedSkewFits

\* The time step a sample was seen at on the device.
Observed(sample) == sample.timestamp + sample.skew

\* Samples as RecordSkewObservation leaves them: none for the step of the one
\* before it.
DistinctSamples(s) ==
  /\ \A i \in DOMAIN s : Observed(s[i]) \in Nat
  /\ \A i \in DOMAIN s :
       i + 1 \in DOMAIN s => Observed(s[i]) # Observed(s[i + 1])

FilesOfThisProgram == \A c \in InitialConfigs : DistinctSamples(c.samples)

\* The codes of a secret are codes of six digits.
CodesHaveSixDigits == \A k \in Nat : Compute(k) \in SixDigitCodes

\* What a call leaves in the history if it is refused and leaves this sample.
MarkOf(sample) ==
  [code |-> Compute(Observed(sample)), at |-> sample.timestamp]

\* Every sample is the mark of a call that was refused.
SampleInv ==
  /\ DistinctSamples(cfg.samples)
  /\ \A i \in DOMAIN cfg.samples : MarkOf(cfg.samples[i]) \in misses

LEMMA SampleInit ==
  ASSUME FilesOfThisProgram, CodesHaveSixDigits, Init
  PROVE  SampleInv
<1>1. DistinctSamples(cfg.samples) /\ misses = SampledCalls(cfg)
  BY DEF Init, FilesOfThisProgram
<1>2. ASSUME NEW i \in DOMAIN cfg.samples
      PROVE  MarkOf(cfg.samples[i]) \in misses
  <2>1. cfg.samples[i].timestamp \in Int
    <3>1. cfg \in Config
      BY LoopAssumption DEF Init
    <3>2. cfg.samples \in Seq(SkewSample)
      BY <3>1 DEF Config
    <3>3. cfg.samples[i] \in SkewSample
      BY <3>2
    <3> QED
      BY <3>3 DEF SkewSample
  <2>2. Compute(Observed(cfg.samples[i])) \in SixDigitCodes
    BY <1>1 DEF DistinctSamples, CodesHaveSixDigits
  <2>3. MarkOf(cfg.samples[i]) \in Misses
    BY <2>1, <2>2 DEF MarkOf, Misses
  <2> QED
    BY <1>1, <2>3 DEF SampledCalls, MarkOf, Observed
<1> QED
  BY <1>1, <1>2 DEF SampleInv

\* The samples are distinct, the last one was seen at the counter, and the
\* others have left their marks.
MarkedBut(t, marked, counter) ==
  /\ DistinctSamples(t)
  /\ \A i \in 1 .. Len(t) - 1 : MarkOf(t[i]) \in marked
  /\ Observed(t[Len(t)]) = counter

\* A sample that is recorded is for a step of its own.
LEMMA SampleIsMarked ==
  ASSUME NEW s \in Seq(SkewSample), NEW marked, NEW ts \in Int, NEW skew \in Int,
         DistinctSamples(s), ts + skew \in Nat,
         ~IsSameObservation(s, ts, skew),
         \A i \in DOMAIN s : MarkOf(s[i]) \in marked
  PROVE  MarkedBut(WithSample(s, ts, skew), marked, ts + skew)
<1> DEFINE t == WithSample(s, ts, skew)
<1> SUFFICES MarkedBut(t, marked, ts + skew)
  OBVIOUS
<1>1. Extends(t, s, [timestamp |-> ts, skew |-> skew])
  BY WithSampleExtends
<1> HIDE DEF t
<1>2. PICK k \in Nat : /\ Len(t) - 1 + k = Len(s)
                       /\ \A i \in 1 .. Len(t) - 1 : t[i] = s[i + k]
  BY <1>1 DEF Extends
<1>3. /\ DOMAIN t = 1 .. Len(t) /\ DOMAIN s = 1 .. Len(s)
      /\ Len(t) \in Nat \ {0} /\ Len(s) \in Nat
  BY <1>1 DEF Extends
<1>4. Observed(t[Len(t)]) = ts + skew
  BY <1>1 DEF Observed, Extends
<1>5. \A i \in 1 .. Len(t) - 1 : i + k \in DOMAIN s /\ t[i] = s[i + k]
  BY <1>2, <1>3
<1>6. \A i \in 1 .. Len(t) - 1 : /\ Observed(t[i]) \in Nat
                                 /\ MarkOf(t[i]) \in marked
  BY <1>5 DEF DistinctSamples
<1>7. \A i \in DOMAIN t : Observed(t[i]) \in Nat
  <2> TAKE i \in DOMAIN t
  <2>1. i = Len(t) \/ i \in 1 .. Len(t) - 1
    BY <1>3
  <2> QED
    BY <1>4, <1>6, <2>1
<1>8. ASSUME NEW i \in DOMAIN t, i + 1 \in DOMAIN t
      PROVE  Observed(t[i]) # Observed(t[i + 1])
  <2>1. i \in 1 .. Len(t) - 1
    BY <1>3, <1>8
  <2>2. t[i] = s[i + k] /\ i + k \in DOMAIN s
    BY <1>5, <2>1
  <2>3. CASE i + 1 = Len(t)
    <3>1. i + k = Len(s) /\ s # << >>
      BY <1>2, <1>3, <2>2, <2>3
    <3>2. Observed(s[Len(s)]) # ts + skew
      BY <3>1 DEF IsSameObservation, Observed
    <3> QED
      BY <1>4, <2>2, <2>3, <3>1, <3>2
  <2>4. CASE i + 1 # Len(t)
    <3>1. i + 1 \in 1 .. Len(t) - 1 /\ i + 1 + k = i + k + 1
      <4>1. i \in Int /\ 1 <= i /\ i + 1 <= Len(t) /\ Len(t) \in Int /\ k \in Int
        BY <1>3, <1>8, <2>1
      <4> QED
        BY <2>4, <4>1
    <3>2. t[i + 1] = s[i + k + 1] /\ i + k + 1 \in DOMAIN s
      BY <1>5, <3>1
    <3> QED
      BY <2>2, <3>2 DEF DistinctSamples
  <2> QED
    BY <2>3, <2>4
<1>9. DistinctSamples(t)
  BY <1>7, <1>8 DEF DistinctSamples
<1> QED
  BY <1>4, <1>6, <1>9 DEF MarkedBut

\* Three samples that agree and follow one another were taken at three times,
\* and show three successive steps of the device.
LEMMA ThreeSamplesThreeSteps ==
  ASSUME NEW t \in Seq(SkewSample), AllAgree(t), DistinctSamples(t)
  PROVE  /\ t[1].timestamp < t[2].timestamp /\ t[2].timestamp < t[3].timestamp
         /\ Observed(t[1]) \in Nat /\ Observed(t[2]) \in Nat
         /\ Observed(t[3]) \in Nat
         /\ Observed(t[1]) < Observed(t[2]) /\ Observed(t[2]) < Observed(t[3])
         /\ Observed(t[3]) <= Observed(t[1]) + 6
<1>1. /\ Len(t) = 3
      /\ t[1] \in SkewSample /\ t[2] \in SkewSample /\ t[3] \in SkewSample
      /\ Agree(t[1], t[2]) /\ Agree(t[2], t[3])
  BY ThreeAgree
<1>2. ASSUME NEW a \in SkewSample, NEW b \in SkewSample, Agree(a, b)
      PROVE  Observed(a) <= Observed(b) /\ Observed(b) <= Observed(a) + 3
  <2>1. /\ a.timestamp \in Int /\ a.skew \in Int
        /\ b.timestamp \in Int /\ b.skew \in Int
    BY DEF SkewSample
  <2>2. /\ a.timestamp < b.timestamp /\ b.timestamp <= a.timestamp + 2
        /\ a.skew - b.skew <= 1 /\ b.skew - a.skew <= 1
    BY <1>2, <2>1 DEF Agree
  <2> QED
    BY <2>1, <2>2 DEF Observed
<1> DEFINE j == Observed(t[1])
           k == Observed(t[2])
           l == Observed(t[3])
<1>3. j \in Nat /\ k \in Nat /\ l \in Nat /\ j # k /\ k # l
  <2>1. 1 \in DOMAIN t /\ 1 + 1 \in DOMAIN t /\ 2 \in DOMAIN t
        /\ 2 + 1 \in DOMAIN t /\ 3 \in DOMAIN t
    BY <1>1
  <2>2. Observed(t[1]) # Observed(t[1 + 1]) /\ Observed(t[2]) # Observed(t[2 + 1])
    BY <2>1 DEF DistinctSamples
  <2> QED
    BY <2>1, <2>2 DEF DistinctSamples
<1>4. j <= k /\ k <= j + 3 /\ k <= l /\ l <= k + 3
  BY <1>1, <1>2
<1> HIDE DEF j, k, l
<1>5. j < k /\ k < l /\ l <= j + 6
  BY <1>3, <1>4
<1>6. t[1].timestamp < t[2].timestamp /\ t[2].timestamp < t[3].timestamp
  BY <1>1 DEF Agree
<1> QED
  BY <1>3, <1>5, <1>6 DEF j, k, l

\* What SkewNeedsThreeSteps says of a step.
MeasuredInThreeSteps ==
  \E first, second \in misses, j, k \in 0 .. last'.counter - 1 :
    /\ first.at < second.at /\ second.at < TimeStep(cfg, now)
    /\ first.code = Compute(j) /\ second.code = Compute(k)
    /\ j < k /\ last'.counter <= j + 6

LEMMA VerifyKeepsSampleInv ==
  ASSUME TypeOK, SampleInv,
         NEW token \in TypedTokens, NEW opts \in OptionSets, Verify(token, opts)
  PROVE  SampleInv' /\ (SkewAdapted => MeasuredInThreeSteps)
<1> DEFINE o == VerifyCode(cfg, token, opts, now)
<1>1. /\ cfg' = o.cfg
      /\ last' = [result |-> o.result, counter |-> o.counter]
  BY DEF Verify
<1>2. /\ cfg'.timeSkew # cfg.timeSkew => misses' = {}
      /\ cfg'.timeSkew = cfg.timeSkew =>
           IF token.kind = "six" /\ o.result = "invalidCode"
           THEN misses' = misses \union {[code |-> token.code,
                                           at |-> TimeStep(cfg, now)]}
           ELSE misses' = misses
  BY DEF Verify
<1>3. cfg \in Config /\ o.cfg \in Config /\ now \in Nat
  BY CallType
<1>4. \/ SameSkew(cfg, o.cfg)
      \/ /\ token.kind = "six"
         /\ \E d \in Int :
              /\ SeenAt(cfg, token.code, now, d)
              /\ Observes(cfg, o, now, d) \/ Adopts(cfg, o, now, d)
  BY CallMovesSkew
<1>5. cfg'.timeSkew = cfg.timeSkew => misses \subseteq misses'
  BY <1>2
<1> HIDE DEF o
<1>6. CASE SameSkew(cfg, o.cfg)
  <2>1. cfg'.timeSkew = cfg.timeSkew /\ cfg'.samples = cfg.samples
    BY <1>1, <1>6 DEF SameSkew, SameWindow
  <2>2. SampleInv'
    BY <1>5, <2>1 DEF SampleInv, DistinctSamples, MarkOf, Observed
  <2> QED
    BY <2>1, <2>2 DEF SkewAdapted
<1>7. CASE /\ token.kind = "six"
           /\ \E d \in Int :
                /\ SeenAt(cfg, token.code, now, d)
                /\ Observes(cfg, o, now, d) \/ Adopts(cfg, o, now, d)
  <2> DEFINE tm == TimeStep(cfg, now)
  <2>1. PICK d \in Int : /\ SeenAt(cfg, token.code, now, d)
                         /\ Observes(cfg, o, now, d) \/ Adopts(cfg, o, now, d)
    BY <1>7
  <2>2. /\ tm \in Int /\ tm + d \in Nat /\ token.code = Compute(tm + d)
        /\ ~IsSameObservation(cfg.samples, tm, d)
    BY <1>3, <2>1, TimeStepType DEF SeenAt, IsIgnoredObservation
  <2> DEFINE t == WithSample(cfg.samples, tm, d)
  <2>3. cfg.samples \in Seq(SkewSample)
    BY <1>3 DEF Config
  <2>4. Observes(cfg, o, now, d) =>
          /\ cfg'.timeSkew = cfg.timeSkew /\ cfg'.samples = t
          /\ o.result = "invalidCode"
    BY <1>1 DEF Observes, SameWindow
  <2>5. Adopts(cfg, o, now, d) =>
          /\ cfg'.samples = << >> /\ AllAgree(t) /\ last'.counter = tm + d
    BY <1>1 DEF Adopts
  <2>10. tm = TimeStep(cfg, now)
    OBVIOUS
  <2> HIDE DEF tm
  <2>6. MarkedBut(t, misses, tm + d)
    BY <2>2, <2>3, SampleIsMarked DEF SampleInv
  <2>7. /\ t \in Seq(SkewSample) /\ Len(t) \in Nat \ {0} /\ DistinctSamples(t)
        /\ t[Len(t)] = [timestamp |-> tm, skew |-> d]
    BY <2>2, <2>3, <2>6, WithSampleExtends DEF Extends, MarkedBut
  <2> HIDE DEF t
  <2>8. CASE Observes(cfg, o, now, d)
    <3>1. /\ cfg'.timeSkew = cfg.timeSkew /\ cfg'.samples = t
          /\ misses' = misses \union {[code |-> Compute(tm + d), at |-> tm]}
      BY <1>2, <1>7, <2>2, <2>4, <2>8, <2>10
    <3>4. MarkOf(t[Len(t)]) = [code |-> Compute(tm + d), at |-> tm]
      BY <2>7 DEF MarkOf, Observed
    <3>2. \A i \in DOMAIN t : MarkOf(t[i]) \in misses'
      <4> TAKE i \in DOMAIN t
      <4>1. i = Len(t) \/ i \in 1 .. Len(t) - 1
        BY <2>7
      <4> QED
        BY <2>6, <3>1, <3>4, <4>1 DEF MarkedBut
    <3>3. SampleInv'
      BY <2>7, <3>1, <3>2 DEF SampleInv, DistinctSamples, MarkOf, Observed
    <3> QED
      BY <3>1, <3>3 DEF SkewAdapted
  <2>9. CASE Adopts(cfg, o, now, d)
    <3>1. cfg'.samples = << >> /\ AllAgree(t) /\ last'.counter = tm + d
      BY <2>5, <2>9
    <3>2. SampleInv'
      BY <3>1 DEF SampleInv, DistinctSamples
    <3>3. Len(t) = 3
      BY <2>7, <3>1, ThreeAgree
    <3>4. /\ MarkOf(t[1]) \in misses /\ MarkOf(t[2]) \in misses
          /\ Observed(t[3]) = tm + d /\ t[3].timestamp = tm
      BY <2>6, <2>7, <3>3 DEF MarkedBut
    <3> DEFINE j == Observed(t[1])
               k == Observed(t[2])
    <3>5. /\ t[1].timestamp < t[2].timestamp /\ t[2].timestamp < tm
          /\ j \in Nat /\ k \in Nat /\ j < k /\ k < last'.counter
          /\ last'.counter \in Nat /\ last'.counter <= j + 6
      BY <2>7, <3>1, <3>4, ThreeSamplesThreeSteps
    <3>6. /\ MarkOf(t[1]).code = Compute(j) /\ MarkOf(t[1]).at = t[1].timestamp
          /\ MarkOf(t[2]).code = Compute(k) /\ MarkOf(t[2]).at = t[2].timestamp
      BY DEF MarkOf
    <3> HIDE DEF j, k
    <3>7. j \in 0 .. last'.counter - 1 /\ k \in 0 .. last'.counter - 1
      BY <3>5
    <3>8. MeasuredInThreeSteps
      BY <2>10, <3>4, <3>5, <3>6, <3>7 DEF MeasuredInThreeSteps
    <3> QED
      BY <3>2, <3>8
  <2> QED
    BY <2>1, <2>8, <2>9
<1> QED
  BY <1>4, <1>6, <1>7

LEMMA StepKeepsSampleInv ==
  ASSUME TypeOK, SampleInv, [Next]_vars
  PROVE  SampleInv' /\ (SkewAdapted => MeasuredInThreeSteps)
<1>1. CASE \E token \in TypedTokens, opts \in OptionSets : Verify(token, opts)
  BY <1>1, VerifyKeepsSampleInv
<1>2. CASE UNCHANGED <<cfg, misses>>
  BY <1>2 DEF SampleInv, DistinctSamples, MarkOf, Observed, SkewAdapted
<1> QED
  BY <1>1, <1>2 DEF Next, SetClock, vars

\* TIME_SKEW only changes at the third of three calls at different times, with
\* the codes of three different steps, the first two refused: for every file
\* this program wrote, whatever the codes of the steps are, and also if some of
\* them are the same (RecordSkewObservation).
THEOREM SkewIsMeasured ==
  ASSUME FilesOfThisProgram, CodesHaveSixDigits
  PROVE  Spec => SkewNeedsThreeSteps
<1>1. Init => TypeOK /\ SampleInv
  BY TypeInit, SampleInit
<1>2. TypeOK /\ SampleInv /\ [Next]_vars => TypeOK' /\ SampleInv'
  BY StepKeepsType, StepKeepsSampleInv
<1>3. TypeOK /\ SampleInv /\ [Next]_vars
        => [SkewAdapted => MeasuredInThreeSteps]_vars
  BY StepKeepsSampleInv
<1>4. TypeOK /\ SampleInv /\ [Next]_vars
        => [SkewAdapted =>
             \E first, second \in misses, j, k \in 0 .. last'.counter - 1 :
               /\ first.at < second.at /\ second.at < TimeStep(cfg, now)
               /\ first.code = Compute(j) /\ second.code = Compute(k)
               /\ j < k /\ last'.counter <= j + 6]_vars
  BY <1>3 DEF MeasuredInThreeSteps
<1> QED
  BY <1>1, <1>2, <1>4, PTL DEF Spec, SkewNeedsThreeSteps

-----------------------------------------------------------------------------
(***************************************************************************)
(* The handful of stamps EnforceRateLimit keeps is as good as a memory of  *)
(* all calls: VerifyLoop implements SlidingWindow.                         *)
(***************************************************************************)

\* The history of calls is ordered, since the clock is not set back.
CallsInOrder == InOrder(calls) /\ \A i \in DOMAIN calls : calls[i] <= now

TypeInv == TypeOK /\ StampsInOrder(cfg, now)

RateLimiterInv == TypeInv /\ RateInv /\ CallsInOrder

\* The calls that stamps no longer hold are the first `older` ones.
LEMMA StampsAreLatestCalls ==
  ASSUME RateLimiterInv, HasRateLimit(cfg)
  PROVE  \E older \in 0 .. Len(calls) :
           /\ Len(cfg.rateLimit.timestamps) = Len(calls) - older
           /\ \A i \in 1 .. Len(calls) - older :
                cfg.rateLimit.timestamps[i] = calls[older + i]
           /\ \/ older = 0
              \/ Len(cfg.rateLimit.timestamps) = cfg.rateLimit.attempts
              \/ calls[older] < now - cfg.rateLimit.interval
<1> DEFINE stamps == cfg.rateLimit.timestamps
           older == Len(calls) - Len(stamps)
<1>1. calls \in Seq(Int) /\ stamps \in Seq(Int)
  BY DEF RateLimiterInv, TypeInv, TypeOK, Config, RateLimit
<1>2. /\ older >= 0
      /\ stamps = SubSeq(calls, older + 1, Len(calls))
      /\ \/ older = 0
         \/ Len(stamps) = cfg.rateLimit.attempts
         \/ calls[older] < now - cfg.rateLimit.interval
  BY DEF RateLimiterInv, RateInv
<1> HIDE DEF stamps
<1>3. /\ Len(calls) \in Nat /\ Len(stamps) \in Nat /\ older \in 0 .. Len(calls)
      /\ Len(stamps) = Len(calls) - older
  BY <1>1, <1>2
<1> HIDE DEF older
<1>4. ASSUME NEW i \in 1 .. Len(calls) - older
      PROVE  stamps[i] = calls[older + i]
  <2>1. /\ older + 1 \in Int /\ i \in 1 .. Len(calls) - (older + 1) + 1
        /\ (older + 1) + i - 1 = older + i
    BY <1>3
  <2>2. SubSeq(calls, older + 1, Len(calls))[i] = calls[(older + 1) + i - 1]
    BY <1>1, <1>3, <2>1, SubSeqProperties
  <2> QED
    BY <1>2, <2>1, <2>2
<1> QED
  BY <1>2, <1>3, <1>4 DEF stamps

\* How many calls are recent, from where the recent ones begin.
LEMMA RecentCallsCount ==
  ASSUME NEW s \in Seq(Int), InOrder(s), NEW lo \in Int,
         NEW m \in 1 .. Len(s) + 1, NEW n \in Nat
  PROVE  LET recent == {i \in DOMAIN s : s[i] >= lo}
         IN  /\ IsFiniteSet(recent) /\ Cardinality(recent) \in Nat
             /\ (m > 1 => s[m - 1] < lo) /\ Len(s) - m + 1 < n
                  => Cardinality(recent) < n
             /\ (m <= Len(s) => lo <= s[m]) /\ Len(s) - m + 1 >= n
                  => Cardinality(recent) >= n
<1> DEFINE recent == {i \in DOMAIN s : s[i] >= lo}
<1>1. /\ Len(s) \in Nat /\ DOMAIN s = 1 .. Len(s)
      /\ \A i \in 1 .. Len(s) : s[i] \in Int
  OBVIOUS
<1>2. \A i, j \in 1 .. Len(s) : i <= j => s[i] <= s[j]
  BY <1>1 DEF InOrder
<1>3. recent \in SUBSET (1 .. Len(s))
  BY <1>1
<1>4. \A i \in 1 .. Len(s) : i \in recent <=> s[i] >= lo
  BY <1>1
<1> HIDE DEF recent
<1>5. IsFiniteSet(recent) /\ Cardinality(recent) \in Nat
  <2>1. IsFiniteSet(1 .. Len(s))
    BY <1>1, FS_Interval
  <2>2. IsFiniteSet(recent)
    BY <1>3, <2>1, FS_Subset
  <2> QED
    BY <2>2, FS_CardinalityType
<1>6. /\ IsFiniteSet(m .. Len(s))
      /\ Cardinality(m .. Len(s)) = Len(s) - m + 1
  <2>1. m \in Int /\ Len(s) \in Int /\ m <= Len(s) + 1
    BY <1>1
  <2>2. /\ IsFiniteSet(m .. Len(s))
        /\ Cardinality(m .. Len(s)) = IF m > Len(s) THEN 0 ELSE Len(s) - m + 1
    BY <2>1, FS_Interval
  <2> QED
    BY <2>1, <2>2
<1>7. ASSUME m > 1 => s[m - 1] < lo, Len(s) - m + 1 < n
      PROVE  Cardinality(recent) < n
  <2>1. recent \in SUBSET (m .. Len(s))
    <3> SUFFICES ASSUME NEW i \in recent, i < m
                 PROVE  FALSE
      BY <1>1, <1>3
    <3>1. i \in 1 .. Len(s) /\ s[i] >= lo
      BY <1>3, <1>4
    <3>2. m > 1 /\ m - 1 \in 1 .. Len(s) /\ i <= m - 1
      BY <1>1, <3>1
    <3>3. s[i] <= s[m - 1] /\ s[m - 1] < lo /\ s[i] \in Int /\ s[m - 1] \in Int
      BY <1>1, <1>2, <1>7, <3>1, <3>2
    <3> QED
      BY <3>1, <3>3
  <2>2. Cardinality(recent) <= Cardinality(m .. Len(s))
    BY <1>6, <2>1, FS_Subset
  <2> QED
    BY <1>1, <1>5, <1>6, <1>7, <2>2
<1>8. ASSUME m <= Len(s) => lo <= s[m], Len(s) - m + 1 >= n
      PROVE  Cardinality(recent) >= n
  <2>1. (m .. Len(s)) \in SUBSET recent
    <3> SUFFICES ASSUME NEW i \in m .. Len(s)
                 PROVE  i \in recent
      OBVIOUS
    <3>1. i \in 1 .. Len(s) /\ m \in 1 .. Len(s) /\ m <= i
      BY <1>1
    <3>2. lo <= s[m] /\ s[m] <= s[i] /\ s[m] \in Int /\ s[i] \in Int
      BY <1>1, <1>2, <1>8, <3>1
    <3> QED
      BY <1>4, <3>1, <3>2
  <2>2. Cardinality(m .. Len(s)) <= Cardinality(recent)
    BY <1>5, <2>1, FS_Subset
  <2> QED
    BY <1>1, <1>5, <1>6, <1>8, <2>2
<1> QED
  BY <1>5, <1>7, <1>8 DEF recent

\* One call: the limiter decides it as the sliding window does, and keeps the
\* stamps it needs to decide the next.
LEMMA LimiterDecides ==
  ASSUME RateLimiterInv, HasRateLimit(cfg)
  PROVE  LET kept == EnforceRateLimit(cfg, now).rateLimit.timestamps
             all == Append(calls, now)
             A == cfg.rateLimit.attempts
         IN  /\ \E m \in 1 .. Len(all) :
                  /\ kept = SubSeq(all, m, Len(all))
                  /\ \/ m = 1
                     \/ Len(all) - m + 1 = A
                     \/ all[m - 1] < now - cfg.rateLimit.interval
             /\ IsRateLimited(cfg, now) <=> Limiter!Refuses
<1> DEFINE stamps == cfg.rateLimit.timestamps
           s == Append(stamps, now)
           all == Append(calls, now)
           lo == now - cfg.rateLimit.interval
           A == cfg.rateLimit.attempts
           kept == EnforceRateLimit(cfg, now).rateLimit.timestamps
           recent == {i \in DOMAIN calls : calls[i] >= lo}
           Decides ==
             /\ \E m \in 1 .. Len(all) :
                  /\ kept = SubSeq(all, m, Len(all))
                  /\ m = 1 \/ Len(all) - m + 1 = A \/ all[m - 1] < lo
             /\ IsRateLimited(cfg, now) <=> Limiter!Refuses
<1> SUFFICES Decides
  BY DEF Decides, kept, all, A, lo
<1>1. /\ cfg \in Config /\ now \in Nat /\ StampsInOrder(cfg, now)
      /\ calls \in Seq(Int) /\ stamps \in Seq(Int)
      /\ lo \in Int /\ A \in Nat \ {0}
      /\ InOrder(calls)
  BY DEF RateLimiterInv, TypeInv, TypeOK, Config, RateLimit, HasRateLimit,
         CallsInOrder
<1>2. PICK older \in 0 .. Len(calls) :
         /\ Len(stamps) = Len(calls) - older
         /\ \A i \in 1 .. Len(calls) - older : stamps[i] = calls[older + i]
         /\ older = 0 \/ Len(stamps) = A \/ calls[older] < lo
  BY StampsAreLatestCalls
<1>3. PICK k \in 1 .. Len(s) :
         /\ kept = SubSeq(s, k, Len(s))
         /\ Len(s) - k + 1 <= A
         /\ \/ k > 1 /\ s[k - 1] < lo /\ ~IsRateLimited(cfg, now)
            \/ k = 1 /\ ~IsRateLimited(cfg, now)
            \/ /\ Len(s) - k + 1 = A
               /\ k > 1 /\ lo <= s[k - 1] /\ IsRateLimited(cfg, now)
  <2>1. now \in Int /\ cfg \in Config /\ StampsInOrder(cfg, now)
    BY <1>1
  <2> QED
    BY <2>1, EnforceRateLimitKeeps, Zenon
<1>4. Limiter!Refuses <=> Cardinality(recent) >= A
  <2>1. Limiter!Cardinality(recent) = Cardinality(recent)
    BY DEF Limiter!Cardinality, Cardinality
  <2>2. Limiter!RecentCalls = recent
    BY DEF Limiter!RecentCalls
  <2> HIDE DEF recent
  <2> QED
    BY <1>1, <2>1, <2>2 DEF Limiter!Refuses
<1>5. /\ s \in Seq(Int) /\ Len(s) = Len(stamps) + 1
      /\ s[Len(stamps) + 1] = now
      /\ \A i \in 1 .. Len(stamps) : s[i] = stamps[i]
  BY <1>1, AppendProperties
<1>6. /\ all \in Seq(Int) /\ Len(all) = Len(calls) + 1
      /\ all[Len(calls) + 1] = now
      /\ \A i \in 1 .. Len(calls) : all[i] = calls[i]
  BY <1>1, AppendProperties
<1>7. /\ \A n \in Nat, m \in 1 .. Len(calls) + 1 :
           /\ (m > 1 => calls[m - 1] < lo) /\ Len(calls) - m + 1 < n
                => Cardinality(recent) < n
           /\ (m <= Len(calls) => lo <= calls[m]) /\ Len(calls) - m + 1 >= n
                => Cardinality(recent) >= n
      /\ Cardinality(recent) \in Nat
  <2> HIDE DEF lo
  <2>1. \A n \in Nat, m \in 1 .. Len(calls) + 1 :
           /\ (m > 1 => calls[m - 1] < lo) /\ Len(calls) - m + 1 < n
                => Cardinality(recent) < n
           /\ (m <= Len(calls) => lo <= calls[m]) /\ Len(calls) - m + 1 >= n
                => Cardinality(recent) >= n
    BY <1>1, RecentCallsCount
  <2>2. 1 \in 1 .. Len(calls) + 1
    BY <1>1
  <2>3. Cardinality(recent) \in Nat
    BY <1>1, <2>2, RecentCallsCount
  <2> QED
    BY <2>1, <2>3
<1> HIDE DEF stamps, s, all, lo, A, kept, recent
<1>8. /\ Len(calls) \in Nat /\ older \in Nat /\ older <= Len(calls)
      /\ Len(stamps) \in Nat /\ Len(s) = Len(calls) - older + 1
      /\ k \in Nat /\ 1 <= k /\ k <= Len(s)
      /\ Len(s) \in Nat /\ Len(all) \in Nat
  <2>1. Len(calls) \in Nat /\ Len(stamps) \in Nat
    BY <1>1
  <2> QED
    BY <1>2, <1>5, <1>6, <2>1
<1>9. \A i \in 1 .. Len(s) : s[i] = all[older + i]
  <2> SUFFICES ASSUME NEW i \in 1 .. Len(s)
               PROVE  s[i] = all[older + i]
    OBVIOUS
  <2>1. CASE i = Len(stamps) + 1
    <3>1. older + i = Len(calls) + 1
      BY <1>2, <1>8, <2>1
    <3> QED
      BY <1>5, <1>6, <2>1, <3>1
  <2>2. CASE i # Len(stamps) + 1
    <3>1. /\ i \in 1 .. Len(stamps) /\ i \in 1 .. Len(calls) - older
          /\ older + i \in 1 .. Len(calls)
      BY <1>2, <1>5, <1>8, <2>2
    <3> QED
      BY <1>2, <1>5, <1>6, <3>1
  <2> QED
    BY <2>1, <2>2
<1> DEFINE m == older + k
<1>10. m \in 1 .. Len(all) /\ Len(all) - m + 1 = Len(s) - k + 1
  BY <1>6, <1>8
<1>11. kept = SubSeq(all, m, Len(all))
  <2>1. /\ SubSeq(s, k, Len(s)) \in Seq(Int)
        /\ Len(SubSeq(s, k, Len(s))) = Len(s) - k + 1
        /\ \A i \in 1 .. Len(s) - k + 1 : SubSeq(s, k, Len(s))[i] = s[k + i - 1]
    BY <1>5, TailProperties, Zenon
  <2>2. /\ SubSeq(all, m, Len(all)) \in Seq(Int)
        /\ Len(SubSeq(all, m, Len(all))) = Len(s) - k + 1
        /\ \A i \in 1 .. Len(s) - k + 1 :
             SubSeq(all, m, Len(all))[i] = all[m + i - 1]
    <3> HIDE DEF m
    <3>1. /\ SubSeq(all, m, Len(all)) \in Seq(Int)
          /\ Len(SubSeq(all, m, Len(all))) = Len(all) - m + 1
          /\ \A i \in 1 .. Len(all) - m + 1 :
               SubSeq(all, m, Len(all))[i] = all[m + i - 1]
      BY <1>6, <1>10, TailProperties, Zenon
    <3> QED
      BY <1>10, <3>1, Zenon
  <2>3. \A i \in 1 .. Len(s) - k + 1 : s[k + i - 1] = all[m + i - 1]
    <3> SUFFICES ASSUME NEW i \in 1 .. Len(s) - k + 1
                 PROVE  s[k + i - 1] = all[m + i - 1]
      OBVIOUS
    <3>1. k + i - 1 \in 1 .. Len(s) /\ older + (k + i - 1) = m + i - 1
      BY <1>8
    <3> QED
      BY <1>9, <3>1
  <2> QED
    BY <1>3, <2>1, <2>2, <2>3, SeqEqual
<1>12. \/ m = 1
       \/ Len(all) - m + 1 = A
       \/ all[m - 1] < lo
  <2>1. CASE k > 1 /\ s[k - 1] < lo
    <3>1. k - 1 \in 1 .. Len(s) /\ older + (k - 1) = m - 1
      BY <1>8, <2>1
    <3> QED
      BY <1>9, <2>1, <3>1
  <2>2. CASE k = 1 /\ ~IsRateLimited(cfg, now)
    <3>1. CASE older = 0
      BY <2>2, <3>1
    <3>2. CASE Len(stamps) = A
      BY <1>1, <1>3, <1>5, <1>8, <2>2, <3>2
    <3>3. CASE older # 0 /\ calls[older] < lo
      <4>1. older \in 1 .. Len(calls) /\ m - 1 = older
        BY <1>8, <2>2, <3>3
      <4> QED
        BY <1>6, <3>3, <4>1
    <3> QED
      BY <1>2, <3>1, <3>2, <3>3
  <2>3. CASE Len(s) - k + 1 = A
    BY <1>10, <2>3
  <2> QED
    BY <1>3, <2>1, <2>2, <2>3
<1>13. IsRateLimited(cfg, now) <=> Cardinality(recent) >= A
  <2>1. CASE ~IsRateLimited(cfg, now)
    <3>1. m \in 1 .. Len(calls) + 1 /\ Len(calls) - m + 1 < A
      BY <1>1, <1>3, <1>6, <1>8, <1>10
    <3>2. m > 1 => calls[m - 1] < lo
      <4>1. m > 1 => m - 1 \in 1 .. Len(calls)
        BY <1>8, <3>1
      <4>2. m > 1 => all[m - 1] < lo
        <5>1. CASE Len(all) - m + 1 = A /\ k > 1 /\ s[k - 1] < lo
          <6>1. k - 1 \in 1 .. Len(s) /\ older + (k - 1) = m - 1
            BY <1>8, <5>1
          <6> QED
            BY <1>9, <5>1, <6>1
        <5>2. CASE k = 1 /\ Len(all) - m + 1 = A
          <6>1. Len(stamps) # A
            BY <1>1, <1>3, <1>5, <1>8, <5>2
          <6>2. older # 0 => calls[older] < lo
            BY <1>2, <6>1
          <6>3. m > 1 => older \in 1 .. Len(calls) /\ m - 1 = older
            BY <1>8, <5>2
          <6>4. m > 1 => older # 0 /\ all[m - 1] = calls[older]
            BY <1>6, <1>8, <6>3
          <6> QED
            BY <6>2, <6>4
        <5>3. CASE Len(all) - m + 1 # A
          BY <1>8, <1>12, <5>3
        <5> QED
          BY <1>3, <2>1, <5>1, <5>2, <5>3
      <4> QED
        BY <1>6, <4>1, <4>2
    <3>3. Cardinality(recent) < A
      BY <1>1, <1>7, <3>1, <3>2
    <3> QED
      BY <1>1, <1>7, <2>1, <3>3
  <2>2. CASE IsRateLimited(cfg, now)
    <3>1. Len(s) - k + 1 = A /\ k > 1 /\ lo <= s[k - 1]
      BY <1>3, <2>2
    <3>2. /\ m - 1 \in 1 .. Len(calls) + 1 /\ m - 1 \in 1 .. Len(calls)
          /\ Len(calls) - (m - 1) + 1 >= A
          /\ k - 1 \in 1 .. Len(s) /\ older + (k - 1) = m - 1
      <4>1. k - 1 \in 1 .. Len(s) /\ older + (k - 1) = m - 1
        BY <1>8, <3>1
      <4>2. m - 1 \in 1 .. Len(calls)
        BY <1>8, <3>1
      <4>3. Len(calls) - (m - 1) + 1 = A
        BY <1>6, <1>8, <1>10, <3>1
      <4> QED
        BY <1>1, <1>8, <4>1, <4>2, <4>3
    <3>3. lo <= calls[m - 1]
      BY <1>6, <1>9, <3>1, <3>2
    <3>4. Cardinality(recent) >= A
      BY <1>1, <1>7, <3>2, <3>3
    <3> QED
      BY <2>2, <3>4
  <2> QED
    BY <2>1, <2>2
<1> HIDE DEF m
<1> QED
  BY <1>4, <1>10, <1>11, <1>12, <1>13 DEF Decides

-----------------------------------------------------------------------------
(***************************************************************************)
(* The invariant, step by step.                                            *)
(***************************************************************************)

\* The stamps are in order at first.
LEMMA TypedAtInit ==
  ASSUME StampsOfThePast, Init
  PROVE  TypeInv
BY TypeInit DEF StampsOfThePast, TypeInv, Init

\* A call adds the time of the clock behind them.
LEMMA VerifyKeepsStamps ==
  ASSUME TypeInv, NEW token \in TypedTokens, NEW opts \in OptionSets,
         Verify(token, opts)
  PROVE  TypeInv'
<1> DEFINE o == VerifyCode(cfg, token, opts, now)
<1>1. /\ token \in Tokens /\ opts \in VerifyOptions
      /\ cfg \in Config /\ now \in Nat /\ StampsInOrder(cfg, now)
  BY CallType DEF TypeInv
<1>2. StampsInOrder(o.cfg, now)
  BY <1>1, VerifyCodeType
<1>3. cfg' = o.cfg /\ now' = now
  BY DEF Verify
<1> HIDE DEF o
<1>4. StampsInOrder(cfg, now)'
  BY <1>2, <1>3 DEF StampsInOrder
<1> QED
  BY <1>4, VerifyKeepsType DEF TypeInv

LEMMA SetClockKeepsStamps ==
  ASSUME ClockForward, TypeInv, SetClock
  PROVE  TypeInv' /\ now' >= now
<1>1. cfg' = cfg /\ now \in Nat /\ now' \in Nat /\ now <= now'
  BY ClockAdvances DEF TypeInv, SetClock
<1>2. cfg.rateLimit.timestamps \in Seq(Int)
  BY DEF TypeInv, TypeOK, Config, RateLimit
<1>3. StampsInOrder(cfg, now')
  <2> SUFFICES ASSUME NEW i \in DOMAIN cfg.rateLimit.timestamps
               PROVE  cfg.rateLimit.timestamps[i] <= now'
    BY DEF TypeInv, StampsInOrder
  <2>1. /\ cfg.rateLimit.timestamps[i] \in Int
        /\ cfg.rateLimit.timestamps[i] <= now
    BY <1>2 DEF TypeInv, StampsInOrder
  <2> QED
    BY <1>1, <2>1
<1>4. StampsInOrder(cfg, now)'
  BY <1>1, <1>3 DEF StampsInOrder
<1> QED
  BY <1>1, <1>4, SetClockKeepsType DEF TypeInv

LEMMA RateLimiterInit ==
  ASSUME ClockForward, StampsOfThePast, Init
  PROVE  RateLimiterInv
<1>1. TypeInv /\ calls = cfg.rateLimit.timestamps
  BY TypedAtInit DEF Init
<1>2. calls \in Seq(Int) /\ Len(calls) \in Nat
  BY <1>1 DEF TypeInv, TypeOK
<1>3. SubSeq(calls, 1, Len(calls)) = calls
  BY <1>2
<1>4. RateInv
  BY <1>1, <1>2, <1>3 DEF RateInv
<1>5. CallsInOrder
  BY <1>1 DEF CallsInOrder, TypeInv, StampsInOrder
<1> QED
  BY <1>1, <1>4, <1>5 DEF RateLimiterInv

\* What one call does to the limiter and to the history.
LEMMA CallEffect ==
  ASSUME TypeInv, NEW token \in TypedTokens, NEW opts \in OptionSets,
         Verify(token, opts)
  PROVE  LET o == VerifyCode(cfg, token, opts, now)
             limited == EnforceRateLimit(cfg, now)
         IN  /\ now' = now
             /\ cfg'.rateLimit =
                  IF ReachesRateLimiter(cfg) THEN limited.rateLimit ELSE cfg.rateLimit
             /\ cfg'.rateLimit.attempts = cfg.rateLimit.attempts
             /\ cfg'.rateLimit.interval = cfg.rateLimit.interval
             /\ calls' = IF ReachesRateLimiter(cfg)
                         THEN Append(calls, now) ELSE calls
             /\ admitted' = IF ~ReachesRateLimiter(cfg) \/ IsRateLimited(cfg, now)
                            THEN admitted ELSE admitted \union {Len(calls')}
<1> DEFINE o == VerifyCode(cfg, token, opts, now)
           limited == EnforceRateLimit(cfg, now)
<1>1. /\ token \in Tokens /\ opts \in VerifyOptions
      /\ cfg \in Config /\ now \in Nat /\ StampsInOrder(cfg, now)
  BY CallType DEF TypeInv
<1>2. /\ o.cfg.rateLimit =
           IF ReachesRateLimiter(cfg) THEN limited.rateLimit ELSE cfg.rateLimit
      /\ o.result \in {"noSecret", "rateLimited"}
           <=> ~ReachesRateLimiter(cfg) \/ IsRateLimited(cfg, now)
  BY <1>1, VerifyCodeType
<1>3. /\ limited.rateLimit.attempts = cfg.rateLimit.attempts
      /\ limited.rateLimit.interval = cfg.rateLimit.interval
  BY <1>1 DEF EnforceRateLimit, Config, RateLimit
<1>4. /\ cfg' = o.cfg /\ now' = now
      /\ calls' = IF ReachesRateLimiter(cfg) THEN Append(calls, now) ELSE calls
      /\ admitted' = IF o.result \in {"noSecret", "rateLimited"}
                     THEN admitted ELSE admitted \union {Len(calls')}
  BY DEF Verify
<1> HIDE DEF o, limited
<1>5. /\ cfg'.rateLimit.attempts = cfg.rateLimit.attempts
      /\ cfg'.rateLimit.interval = cfg.rateLimit.interval
  BY <1>2, <1>3, <1>4
<1> QED
  BY <1>2, <1>4, <1>5 DEF limited

LEMMA VerifyKeepsRateLimiterInv ==
  ASSUME RateLimiterInv, NEW token \in TypedTokens, NEW opts \in OptionSets,
         Verify(token, opts)
  PROVE  RateLimiterInv'
<1> DEFINE limited == EnforceRateLimit(cfg, now)
<1>1. TypeInv /\ TypeInv' /\ RateInv /\ CallsInOrder
  BY VerifyKeepsStamps DEF RateLimiterInv
<1>2. /\ now' = now
      /\ cfg'.rateLimit =
           IF ReachesRateLimiter(cfg) THEN limited.rateLimit ELSE cfg.rateLimit
      /\ cfg'.rateLimit.attempts = cfg.rateLimit.attempts
      /\ cfg'.rateLimit.interval = cfg.rateLimit.interval
      /\ calls' = IF ReachesRateLimiter(cfg) THEN Append(calls, now) ELSE calls
  BY <1>1, CallEffect
<1> HIDE DEF limited
<1>3. CASE ~ReachesRateLimiter(cfg)
  BY <1>1, <1>2, <1>3
  DEF RateLimiterInv, RateInv, HasRateLimit, CallsInOrder, InOrder
<1>4. CASE ReachesRateLimiter(cfg)
  <2>1. calls \in Seq(Int) /\ now \in Int
    BY <1>1 DEF TypeInv, TypeOK
  <2>2. calls' = Append(calls, now)
    BY <1>2, <1>4
  <2>3. CallsInOrder'
    <3>1. InOrder(Append(calls, now))
      BY <1>1, <2>1, AppendInOrder DEF CallsInOrder
    <3>2. \A i \in DOMAIN Append(calls, now) : Append(calls, now)[i] <= now
      BY <1>1, <2>1, AppendProperties DEF CallsInOrder
    <3> QED
      BY <1>2, <2>2, <3>1, <3>2 DEF CallsInOrder, InOrder
  <2>4. RateInv'
    <3> SUFFICES ASSUME HasRateLimit(cfg)
                 PROVE  RateInv'
      BY <1>2 DEF RateInv, HasRateLimit
    <3> DEFINE all == Append(calls, now)
               kept == limited.rateLimit.timestamps
               A == cfg.rateLimit.attempts
               lo == now - cfg.rateLimit.interval
    <3>1. PICK m \in 1 .. Len(all) :
             /\ kept = SubSeq(all, m, Len(all))
             /\ m = 1 \/ Len(all) - m + 1 = A \/ all[m - 1] < lo
      BY LimiterDecides DEF limited
    <3>2. all \in Seq(Int) /\ Len(all) \in Nat
      BY <2>1
    <3>3. /\ cfg'.rateLimit.timestamps = kept /\ calls' = all
          /\ cfg'.rateLimit.attempts = A
          /\ now' - cfg'.rateLimit.interval = lo
      BY <1>2, <1>4
    <3> HIDE DEF all, kept, A, lo
    <3>4. Len(kept) = Len(all) - m + 1
      BY <3>1, <3>2
    <3>5. Len(all) - Len(kept) = m - 1 /\ m - 1 >= 0 /\ (m - 1) + 1 = m
      BY <3>2, <3>4
    <3> QED
      BY <3>1, <3>3, <3>4, <3>5 DEF RateInv
  <2> QED
    BY <1>1, <2>3, <2>4 DEF RateLimiterInv
<1> QED
  BY <1>3, <1>4

LEMMA SetClockKeepsRateLimiterInv ==
  ASSUME ClockForward, RateLimiterInv, SetClock
  PROVE  RateLimiterInv'
<1>1. TypeInv' /\ now' >= now /\ now \in Nat /\ now' \in Nat
  BY SetClockKeepsStamps DEF RateLimiterInv, TypeInv, TypeOK
<1>2. cfg' = cfg /\ calls' = calls
  BY DEF SetClock
<1>3. calls \in Seq(Int) /\ cfg.rateLimit.interval \in Int
  BY DEF RateLimiterInv, TypeInv, TypeOK, Config, RateLimit
<1>4. CallsInOrder'
  BY <1>1, <1>2, <1>3 DEF RateLimiterInv, CallsInOrder, InOrder
<1>5. RateInv'
  <2> SUFFICES ASSUME HasRateLimit(cfg)
               PROVE  RateInv'
    BY <1>2 DEF RateInv
  <2> DEFINE stamps == cfg.rateLimit.timestamps
             older == Len(calls) - Len(stamps)
  <2>1. /\ older >= 0
        /\ stamps = SubSeq(calls, older + 1, Len(calls))
        /\ \/ older = 0
           \/ Len(stamps) = cfg.rateLimit.attempts
           \/ calls[older] < now - cfg.rateLimit.interval
    BY DEF RateLimiterInv, RateInv
  <2>2. Len(calls) \in Nat /\ Len(stamps) \in Nat
    BY <1>3 DEF RateLimiterInv, TypeInv, TypeOK, Config, RateLimit
  <2> HIDE DEF stamps
  <2>3. older # 0 => older \in 1 .. Len(calls)
    <3>1. older >= 0
      BY <2>1
    <3> QED
      BY <2>2, <3>1
  <2>4. older # 0 => calls[older] \in Int
    BY <1>3, <2>3
  <2>5. older # 0 /\ calls[older] < now - cfg.rateLimit.interval
          => calls[older] < now' - cfg.rateLimit.interval
    BY <1>1, <1>3, <2>4
  <2> QED
    BY <1>2, <2>1, <2>5 DEF RateInv, stamps
<1> QED
  BY <1>1, <1>4, <1>5 DEF RateLimiterInv

LEMMA StepKeepsRateLimiterInv ==
  ASSUME ClockForward, RateLimiterInv, [Next]_vars
  PROVE  RateLimiterInv'
<1>1. CASE \E token \in TypedTokens, opts \in OptionSets : Verify(token, opts)
  BY <1>1, VerifyKeepsRateLimiterInv
<1>2. CASE SetClock
  BY <1>2, SetClockKeepsRateLimiterInv
<1>3. CASE UNCHANGED vars
  <2>1. TypeInv'
    BY <1>3, StutterKeepsType DEF RateLimiterInv, TypeInv, StampsInOrder, vars
  <2> QED
    BY <1>3, <2>1 DEF RateLimiterInv, RateInv, CallsInOrder, InOrder, vars
<1> QED
  BY <1>1, <1>2, <1>3 DEF Next

\* The stamps in the Config are the latest calls, and the calls they no longer
\* hold are too old or too many ago to matter to any later decision.
THEOREM StampsSuffice ==
  ASSUME ClockForward, StampsOfThePast
  PROVE  Spec => []RateInv
<1>1. Init => RateLimiterInv
  BY RateLimiterInit
<1>2. RateLimiterInv /\ [Next]_vars => RateLimiterInv'
  BY StepKeepsRateLimiterInv
<1>3. RateLimiterInv => RateInv
  BY DEF RateLimiterInv
<1> QED
  BY <1>1, <1>2, <1>3, PTL DEF Spec

-----------------------------------------------------------------------------
(***************************************************************************)
(* The refinement.                                                         *)
(***************************************************************************)

LEMMA LimiterInit ==
  ASSUME ClockForward, StampsOfThePast, Init
  PROVE  Limiter!Init
<1>1. RateLimiterInv /\ admitted = {}
  BY RateLimiterInit DEF Init
<1>2. /\ cfg.rateLimit.attempts \in Nat /\ cfg.rateLimit.interval \in Nat
      /\ now \in Nat /\ calls \in Seq(Int)
  BY <1>1 DEF RateLimiterInv, TypeInv, TypeOK, Config, RateLimit
<1> QED
  BY <1>1, <1>2 DEF RateLimiterInv, CallsInOrder, InOrder, Limiter!Init

LEMMA VerifyIsCall ==
  ASSUME RateLimiterInv, NEW token \in TypedTokens, NEW opts \in OptionSets,
         Verify(token, opts)
  PROVE  Limiter!Call \/ UNCHANGED Limiter!vars
<1>1. /\ now' = now
      /\ cfg'.rateLimit.attempts = cfg.rateLimit.attempts
      /\ cfg'.rateLimit.interval = cfg.rateLimit.interval
      /\ calls' = IF ReachesRateLimiter(cfg) THEN Append(calls, now) ELSE calls
      /\ admitted' = IF ~ReachesRateLimiter(cfg) \/ IsRateLimited(cfg, now)
                     THEN admitted ELSE admitted \union {Len(calls')}
  BY CallEffect DEF RateLimiterInv
<1>2. IsRateLimited(cfg, now) <=> Limiter!Refuses
  <2>1. CASE HasRateLimit(cfg)
    BY <2>1, LimiterDecides
  <2>2. CASE ~HasRateLimit(cfg)
    BY <2>2 DEF HasRateLimit, IsRateLimited, Limiter!Refuses
  <2> QED
    BY <2>1, <2>2
<1>3. CASE ReachesRateLimiter(cfg)
  BY <1>1, <1>2, <1>3 DEF Limiter!Call
<1>4. CASE ~ReachesRateLimiter(cfg)
  BY <1>1, <1>4 DEF Limiter!vars
<1> QED
  BY <1>3, <1>4

LEMMA SetClockIsAdvance ==
  ASSUME ClockForward, RateLimiterInv, SetClock
  PROVE  Limiter!Advance \/ UNCHANGED Limiter!vars
<1>1. now \in Nat /\ now' \in Nat /\ now' >= now
  BY SetClockKeepsStamps DEF RateLimiterInv, TypeInv, TypeOK
<1>2. cfg' = cfg /\ calls' = calls /\ admitted' = admitted
  BY DEF SetClock
<1>3. CASE now' = now
  BY <1>2, <1>3 DEF Limiter!vars
<1>4. CASE now' # now
  BY <1>1, <1>2, <1>4 DEF Limiter!Advance
<1> QED
  BY <1>3, <1>4

\* The limiter that keeps a few stamps decides every call as the one that
\* remembers all of them: VerifyLoop implements SlidingWindow.
THEOREM ImplementsSlidingWindow ==
  ASSUME ClockForward, StampsOfThePast
  PROVE  Spec => LimiterRefinement
<1>1. Init => RateLimiterInv /\ Limiter!Init
  BY RateLimiterInit, LimiterInit
<1>2. RateLimiterInv /\ [Next]_vars => RateLimiterInv'
  BY StepKeepsRateLimiterInv
<1>3. RateLimiterInv /\ [Next]_vars => [Limiter!Next]_(Limiter!vars)
  <2> SUFFICES ASSUME RateLimiterInv, [Next]_vars
               PROVE  Limiter!Call \/ Limiter!Advance \/ UNCHANGED Limiter!vars
    BY DEF Limiter!Next
  <2>1. CASE \E token \in TypedTokens, opts \in OptionSets : Verify(token, opts)
    BY <2>1, VerifyIsCall
  <2>2. CASE SetClock
    BY <2>2, SetClockIsAdvance
  <2>3. CASE UNCHANGED vars
    BY <2>3 DEF vars, Limiter!vars
  <2> QED
    BY <2>1, <2>2, <2>3 DEF Next
<1> QED
  BY <1>1, <1>2, <1>3, PTL DEF Spec, LimiterRefinement, Limiter!Spec
=============================================================================
