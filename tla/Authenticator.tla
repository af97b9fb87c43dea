--------------------------- MODULE Authenticator ---------------------------
(***************************************************************************)
(* pkg/authenticator: the verification of one token against one            *)
(* configuration.  VerifyCode returns what the Go method returns together  *)
(* with the configuration it leaves behind, which it changes on many of    *)
(* its error returns too.                                                  *)
(*                                                                         *)
(* Abstractions.  A typed line is a token: its shape, and its number when  *)
(* it is six or eight digits.  The shared secret is fixed, so the HMAC of  *)
(* pkg/otp is the operator Compute from counters to six-digit codes.  Unix *)
(* times are not negative, so Go's truncating division is \div.            *)
(***************************************************************************)
EXTENDS GGConfig

CONSTANTS
  SixDigitCodes,  \* the six-digit numbers a user may type
  Compute(_),     \* otp.Compute under the user's secret
  SkewSearch      \* farthest counter detectSkew tries: 25 * 60 - 1 in the code

ASSUME AuthenticatorAssumption == SkewSearch \in Nat

Tokens ==
  [kind : {"six"}, code : SixDigitCodes]
    \union [kind : {"eight"}, code : ScratchCodes]
    \union [kind : {"blank", "badLength", "notDigits"}]

VerifyOptions == [disableSkewAdjustment : BOOLEAN, noIncrementHOTP : BOOLEAN]

Successes == {"scratch", "totp", "hotp"}

Failures == {"noSecret", "rateLimited", "invalidCode", "badLength",
             "badSecret", "unknownMode", "reused"}

Success(c, type, counter) ==
  [cfg |-> c, result |-> type, counter |-> counter]

Failure(c, error) == [cfg |-> c, result |-> error, counter |-> 0]

-----------------------------------------------------------------------------
(***************************************************************************)
(* TOTP.                                                                   *)
(***************************************************************************)

TimeStep(c, now) == now \div Step(c)

Centre(c, now) == TimeStep(c, now) + c.timeSkew

AcceptableCounters(c, now) ==
  {counter \in Centre(c, now) - (Window(c) - 1) \div 2
                 .. Centre(c, now) + Window(c) \div 2 : counter >= 0}

TOTPHits(c, code, now) ==
  {counter \in AcceptableCounters(c, now) : Compute(counter) = code}

\* How far from the host's clock a device would show this code.
PossibleSkews(c, code, now) ==
  {d \in (-SkewSearch .. SkewSearch) \ {0} :
     /\ TimeStep(c, now) + d >= 0
     /\ Compute(TimeStep(c, now) + d) = code}

Abs(d) == IF d < 0 THEN -d ELSE d

\* The search goes outwards and looks back before it looks ahead.
NearestSkew(skews) ==
  CHOOSE d \in skews :
    \A e \in skews : Abs(d) < Abs(e) \/ (Abs(d) = Abs(e) /\ d <= e)

VerifyOutsideWindow(c, code, opts, now) ==
  LET skews == PossibleSkews(c, code, now)
      d     == NearestSkew(skews)
      tm    == TimeStep(c, now)
  IN  CASE opts.disableSkewAdjustment \/ skews = {} ->
             Failure(c, "invalidCode")
        [] ~opts.disableSkewAdjustment /\ skews # {} /\ AdoptsSkew(c, tm, d) ->
             Success(RecordSkewObservation(c, tm, d), "totp", tm + d)
        [] OTHER -> Failure(RecordSkewObservation(c, tm, d), "invalidCode")

VerifyTOTP(c, code, opts, now) ==
  LET hits   == TOTPHits(c, code, now)
      pruned == ResetDisallowList(c, Centre(c, now), Window(c))
  IN  CASE hits = {} -> VerifyOutsideWindow(pruned, code, opts, now)
        [] hits # {} /\ IsReused(pruned, Min(hits)) -> Failure(pruned, "reused")
        [] OTHER -> Success(RecordUsedTimestamp(pruned, Min(hits)),
                            "totp", Min(hits))

-----------------------------------------------------------------------------
(***************************************************************************)
(* HOTP.                                                                   *)
(***************************************************************************)

\* Mutant: the counter that was used is stored, not the next one.
WithCounterMutant(c, counter) ==
  [c EXCEPT !.hotpCounter = counter - 1, !.dirty = TRUE]

WithCounter(c, counter) == [c EXCEPT !.hotpCounter = counter, !.dirty = TRUE]

\* Mutant: the window reaches back as far as it looks ahead, as for TOTP.
HOTPHitsMutant(c, code) ==
  {value \in c.hotpCounter - Window(c) \div 2 .. c.hotpCounter + Window(c) \div 2 :
     value >= 0 /\ Compute(value) = code}

HOTPHits(c, code) ==
  {value \in c.hotpCounter .. c.hotpCounter + Window(c) - 1 :
     value >= 0 /\ Compute(value) = code}

VerifyHOTP(c, code, opts) ==
  LET hits == HOTPHits(c, code)
  IN  CASE hits # {} ->
             Success(WithCounter(c, Min(hits) + 1), "hotp", Min(hits))
        [] hits = {} /\ opts.noIncrementHOTP -> Failure(c, "invalidCode")
        [] OTHER -> Failure(WithCounter(c, c.hotpCounter + 1), "invalidCode")

-----------------------------------------------------------------------------
(***************************************************************************)
(* The order of the checks.                                                *)
(***************************************************************************)

VerifySixDigits(c, code, opts, now) ==
  CASE c.secret = "undecodable" -> Failure(c, "badSecret")
    [] c.secret # "undecodable" /\ Mode(c) = "totp" ->
         VerifyTOTP(c, code, opts, now)
    [] c.secret # "undecodable" /\ Mode(c) = "hotp" -> VerifyHOTP(c, code, opts)
    [] OTHER -> Failure(c, "unknownMode")

VerifyScratch(c, code) ==
  IF HasScratchCode(c, code)
  THEN Success(UseScratchCode(c, code), "scratch", 0)
  ELSE Failure(c, "invalidCode")

\* A token that the rate limiter let through.
VerifyToken(c, token, opts, now) ==
  CASE token.kind \in {"blank", "notDigits"} -> Failure(c, "invalidCode")
    [] token.kind = "badLength" -> Failure(c, "badLength")
    [] token.kind = "eight" -> VerifyScratch(c, token.code)
    [] token.kind = "six" -> VerifySixDigits(c, token.code, opts, now)

ReachesRateLimiter(c) == c.secret # "missing"

VerifyCode(c, token, opts, now) ==
  LET limited == EnforceRateLimit(c, now)
  IN  CASE ~ReachesRateLimiter(c) -> Failure(c, "noSecret")
        [] ReachesRateLimiter(c) /\ IsRateLimited(c, now) ->
             Failure(limited, "rateLimited")
        [] OTHER -> VerifyToken(limited, token, opts, now)
=============================================================================
