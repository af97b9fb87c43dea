----------------------------- MODULE VerifyLoop -----------------------------
(***************************************************************************)
(* One process that keeps a Config in memory and verifies tokens against   *)
(* it while the clock moves: the way the package's tests drive it, and     *)
(* what the library promises before any question of storing the file.      *)
(* The history variables record what happened; nothing reads them back.    *)
(***************************************************************************)
EXTENDS Authenticator

CONSTANTS
  InitialConfigs, \* what the secret file may hold at the start
  OptionSets,     \* the VerifyOptions callers pass
  TypedTokens,    \* the tokens users type
  StartTimes,     \* the clock at the start
  ClockSteps,     \* what the clock may do between two calls
  MaxTime,        \* bound on the clock
  MaxCalls        \* bound on the number of calls

ASSUME LoopAssumption ==
  /\ InitialConfigs \subseteq Config
  /\ OptionSets \subseteq VerifyOptions
  /\ TypedTokens \subseteq Tokens
  /\ StartTimes \subseteq Nat
  /\ ClockSteps \subseteq Int
  /\ MaxTime \in Nat
  /\ MaxCalls \in Nat

VARIABLES
  cfg,        \* the Config
  now,        \* the clock, in seconds
  last,       \* the answer to the last call
  calls,      \* history: when calls reached the rate limiter
  admitted,   \* history: which of them it let through
  accepted,   \* history: the [type, counter] of the codes accepted so far
  misses      \* history: the codes refused since TIME_SKEW last changed, and when

vars == <<cfg, now, last, calls, admitted, accepted, misses>>

Answers == [result : Successes \union Failures \union {"none"}, counter : Int]

\* A refused call: what was typed at which time step.
Misses == [code : SixDigitCodes, at : Int]

TypeOK ==
  /\ cfg \in Config
  /\ now \in Nat
  /\ last \in Answers
  /\ calls \in Seq(Int)
  /\ admitted \subseteq DOMAIN calls
  /\ accepted \subseteq [type : {"totp", "hotp"}, counter : Int]
  /\ misses \subseteq Misses

\* The calls that left a file's RESETTING_TIME_SKEW entries.
SampledCalls(c) ==
  {[code |-> Compute(c.samples[i].timestamp + c.samples[i].skew),
    at   |-> c.samples[i].timestamp] : i \in DOMAIN c.samples} \intersect Misses

Init ==
  /\ cfg \in InitialConfigs
  /\ now \in StartTimes
  /\ last = [result |-> "none", counter |-> 0]
  /\ calls = cfg.rateLimit.timestamps
  /\ admitted = {}
  /\ accepted = {}
  /\ misses = SampledCalls(cfg)

\* One call of Authenticator.VerifyCode.
Verify(token, opts) ==
  LET outcome == VerifyCode(cfg, token, opts, now)
      counted == [type |-> outcome.result, counter |-> outcome.counter]
  IN  /\ ReachesRateLimiter(cfg) => Len(calls) < MaxCalls
      /\ cfg' = outcome.cfg
      /\ last' = [result |-> outcome.result, counter |-> outcome.counter]
      /\ calls' = IF ReachesRateLimiter(cfg) THEN Append(calls, now) ELSE calls
      /\ admitted' = IF outcome.result \in {"noSecret", "rateLimited"}
                     THEN admitted ELSE admitted \union {Len(calls')}
      /\ accepted' = IF outcome.result \in {"totp", "hotp"}
                     THEN accepted \union {counted} ELSE accepted
      /\ misses' = CASE cfg'.timeSkew # cfg.timeSkew -> {}
                     [] cfg'.timeSkew = cfg.timeSkew /\ token.kind = "six"
                          /\ outcome.result = "invalidCode" ->
                          misses \union {[code |-> token.code,
                                          at   |-> TimeStep(cfg, now)]}
                     [] OTHER -> misses
      /\ UNCHANGED now

\* Time passes, or the host's clock is set.
SetClock ==
  \E d \in ClockSteps :
    /\ now + d \in 0 .. MaxTime
    /\ now' = now + d
    /\ UNCHANGED <<cfg, last, calls, admitted, accepted, misses>>

Next ==
  \/ \E token \in TypedTokens, opts \in OptionSets : Verify(token, opts)
  \/ SetClock

Spec == Init /\ [][Next]_vars

-----------------------------------------------------------------------------
(***************************************************************************)
(* Counter-based codes.                                                    *)
(***************************************************************************)

Counters(type) == {a.counter : a \in {b \in accepted : b.type = type}}

Accepts(type) == calls' # calls /\ last'.result = type

\* An accepted HOTP code is newer than every code accepted before it: neither
\* a look-ahead over skipped codes nor the step a failure takes lets an old
\* code in again (hotpAlgorithm.Verify).
HotpNoReplay ==
  [][Accepts("hotp") => \A k \in Counters("hotp") : k < last'.counter]_vars

\* Why: HOTP_COUNTER is past every counter that was accepted.
HotpInv == \A k \in Counters("hotp") : k < cfg.hotpCounter

-----------------------------------------------------------------------------
(***************************************************************************)
(* Time-based codes.                                                       *)
(***************************************************************************)

\* Under DISALLOW_REUSE no time step is accepted twice, although the code
\* forgets the used steps that are a window away from the centre on every
\* call (totpAlgorithm.Verify, ResetDisallowList).  It holds while the clock
\* is not set back and TIME_SKEW is not adapted.
TotpNoReplay ==
  [][Accepts("totp") /\ cfg.disallowReuse
       => last'.counter \notin Counters("totp")]_vars

\* Why: a step that was accepted is on the list or already too old for the
\* window, and no accepted step is so far ahead that it is forgotten early.
TotpInv ==
  cfg.disallowReuse =>
    \A k \in Counters("totp") :
      /\ k \in cfg.disallowed \/ k + Window(cfg) <= Centre(cfg, now)
      /\ k < Centre(cfg, now) + Window(cfg)

SkewAdapted == cfg'.timeSkew # cfg.timeSkew

\* TIME_SKEW only changes at the third of three calls at three different
\* times, the first two refused, with the codes of three successive, different
\* steps of the device: typing one stolen code again and again, while the
\* clock runs and its distance shrinks, is not enough (RecordSkewObservation).
SkewNeedsThreeSteps ==
  [][SkewAdapted =>
       \E first, second \in misses, j, k \in 0 .. last'.counter - 1 :
         /\ first.at < second.at /\ second.at < TimeStep(cfg, now)
         /\ first.code = Compute(j) /\ second.code = Compute(k)
         /\ j < k /\ last'.counter <= j + 6]_vars

\* The averaged TIME_SKEW serves the device it was measured on: with a window
\* of at least three the code that completed the measurement lies inside the
\* window it is given (RecordSkewObservation, totpAlgorithm.Verify).
AdaptedSkewFits ==
  [][SkewAdapted /\ Window(cfg) >= 3
       => last'.counter \in AcceptableCounters(cfg', now)]_vars

-----------------------------------------------------------------------------
(***************************************************************************)
(* The rate limiter.                                                       *)
(***************************************************************************)

\* The handful of stamps EnforceRateLimit keeps decides every call exactly as
\* if all calls had been remembered, as long as the clock is not set back.
Limiter ==
  INSTANCE SlidingWindow WITH
    limit <- [attempts |-> cfg.rateLimit.attempts,
              interval |-> cfg.rateLimit.interval]

LimiterRefinement == Limiter!Spec

\* Why: the stamps are the latest calls, and those that are missing could
\* not matter, being too old or more than `attempts` calls ago.
RateInv ==
  HasRateLimit(cfg) =>
    LET stamps == cfg.rateLimit.timestamps
        older  == Len(calls) - Len(stamps)
    IN  /\ older >= 0
        /\ stamps = SubSeq(calls, older + 1, Len(calls))
        /\ \/ older = 0
           \/ Len(stamps) = cfg.rateLimit.attempts
           \/ calls[older] < now - cfg.rateLimit.interval
=============================================================================
