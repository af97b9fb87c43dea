---------------------------- MODULE MCVerifyLoop ----------------------------
(***************************************************************************)
(* VerifyLoop on small instances.                                          *)
(***************************************************************************)
EXTENDS VerifyLoop

\* The base every instance starts from: what Parse makes of a file with a
\* secret and nothing else.
PlainConfig ==
  [ secret |-> "valid", scratch |-> [code \in ScratchCodes |-> 0],
    totpAuth |-> FALSE, hotpConfigured |-> FALSE, hotpCounter |-> 0,
    stepSize |-> 1, windowSize |-> 3,
    disallowReuse |-> FALSE, disallowed |-> {},
    rateLimit |-> NoRateLimit, timeSkew |-> 0, samples |-> << >>,
    lastLogins |-> [i \in Slots |-> NoLogin], dirty |-> FALSE ]

Options(noSkew, noIncrement) ==
  [disableSkewAdjustment |-> noSkew, noIncrementHOTP |-> noIncrement]

\* Codes that do not repeat within the counters an instance reaches.
DistinctCodes == 0 .. 60
DistinctCompute(counter) == counter % 61

\* Codes that repeat every four counters up to counter 29, so that a window can
\* hold the same code twice, and do not repeat after that.
RepeatedCodes == 0 .. 3
EarlyCompute(counter) == IF counter < 30 THEN counter % 4 ELSE counter % 61

CodeTokens == [kind : {"six"}, code : RepeatedCodes]

-----------------------------------------------------------------------------
\* TOTP without skew adjustment: odd and even windows, steps of one and two
\* seconds, with a list of used steps already in the file.
TotpConfigs ==
  {[PlainConfig EXCEPT !.totpAuth = TRUE, !.disallowReuse = TRUE,
                       !.windowSize = w, !.stepSize = s, !.disallowed = d] :
     w \in {1, 2, 3}, s \in {1, 2}, d \in {{}, {1, 2}}}

NoScratchCodes == {}
NoHosts == {}
Forward == {1, 2}

-----------------------------------------------------------------------------
\* Skew adjustment: the device is up to SkewSearch steps off, with a window of
\* one step, and of three around a TIME_SKEW that is in the file already.
SkewConfigs ==
  {[PlainConfig EXCEPT !.totpAuth = TRUE, !.windowSize = 1],
   [PlainConfig EXCEPT !.totpAuth = TRUE, !.timeSkew = -1]}

SkewTokens == [kind : {"six"}, code : 0 .. 9]
LateTokens == [kind : {"six"}, code : 40 .. 49]
SkewOptions == {Options(FALSE, FALSE)}
StartAtThree == {3}

\* A file with DISALLOW_REUSE whose owner's device is off by a few steps.
SkewReuseConfigs ==
  {[PlainConfig EXCEPT !.totpAuth = TRUE, !.disallowReuse = TRUE]}

-----------------------------------------------------------------------------
\* HOTP, with and without no_increment_hotp, and with a negative counter,
\* which the parser admits.
HotpConfigs ==
  {[PlainConfig EXCEPT !.hotpConfigured = TRUE, !.hotpCounter = c,
                       !.windowSize = w] : c \in {-1, 0}, w \in {1, 2, 5}}

HotpOptions == {Options(TRUE, FALSE), Options(TRUE, TRUE)}

-----------------------------------------------------------------------------
\* The limiter: one to three attempts per one to three seconds, from an empty
\* list and from the list of an earlier process; tokens that fail and succeed.
RateConfigs ==
  {[PlainConfig EXCEPT !.totpAuth = TRUE,
                       !.scratch = [code \in ScratchCodes |-> 1], !.rateLimit =
       [attempts |-> a, interval |-> i, timestamps |-> t]] :
     a \in 1 .. 3, i \in 1 .. 3, t \in {<< >>, <<0, 1>>}}
    \union {PlainConfig, [PlainConfig EXCEPT !.secret = "missing"],
            [PlainConfig EXCEPT !.secret = "undecodable"]}

NoSkewOptions == {Options(TRUE, FALSE)}

RateTokens == [kind : {"blank", "badLength"}]
                \union [kind : {"six"}, code : {0, 2}]
                \union [kind : {"eight"}, code : ScratchCodes]
-----------------------------------------------------------------------------
(***************************************************************************)
(* Codes, skew and limiter in one run: what is typed, when and how often   *)
(* depends on the file the process starts from.                            *)
(***************************************************************************)
TotpSlice ==
  [tokens |-> CodeTokens, options |-> NoSkewOptions,
   start |-> 0, end |-> 6, calls |-> 4]
HotpSlice ==
  [tokens |-> CodeTokens, options |-> HotpOptions,
   start |-> 0, end |-> 1, calls |-> 4]
SkewSlice ==
  [tokens |-> LateTokens, options |-> SkewOptions,
   start |-> 43, end |-> 46, calls |-> 4]
RateSlice ==
  [tokens |-> RateTokens, options |-> NoSkewOptions,
   start |-> 1, end |-> 5, calls |-> 5]

Slice(c) ==
  IF c.hotpConfigured THEN HotpSlice
  ELSE IF c.disallowReuse THEN TotpSlice
  ELSE IF c.totpAuth /\ ~HasRateLimit(c) THEN SkewSlice
  ELSE RateSlice

AllConfigs == TotpConfigs \union HotpConfigs \union SkewConfigs \union RateConfigs
AllOptions == HotpOptions \union SkewOptions
AllTokens == CodeTokens \union LateTokens \union RateTokens
AllStarts == {TotpSlice.start, HotpSlice.start, SkewSlice.start, RateSlice.start}

SliceNext ==
  LET slice == Slice(cfg)
  IN  \/ \E token \in slice.tokens, opts \in slice.options :
           Len(calls) < slice.calls /\ Verify(token, opts)
      \/ SetClock /\ now' <= slice.end

SliceInit == Init /\ now = Slice(cfg).start

SliceSpec == SliceInit /\ [][SliceNext]_vars
=============================================================================
