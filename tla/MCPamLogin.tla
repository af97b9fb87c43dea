----------------------------- MODULE MCPamLogin -----------------------------
(***************************************************************************)
(* PamLogin on small instances.                                            *)
(***************************************************************************)
EXTENDS PamLogin, TLC

CONSTANTS
  alice, bob, carol,   \* logins
  here, there          \* hosts

OneLoginEach == {alice, bob, carol}
TwoLogins == {alice, bob}
TwoHosts == {here, there}
NoHosts == {}
Logins == Permutations(Sessions)

PlainConfig == [EmptyConfig EXCEPT !.secret = "valid", !.stepSize = 1]

Arguments ==
  [nullOK |-> FALSE, gracePeriod |-> 0, noSkewAdjust |-> TRUE,
   noIncrementHOTP |-> FALSE, allowReadonly |-> FALSE]

Counters == 0 .. 30
SameCounter(counter) == counter % 31

Six(codes) == [kind : {"six"}, code : codes]
Eight == [kind : {"eight"}, code : ScratchCodes]

StartAtOne == {1}
Forward == {1}
AnyWriteError == {"denied", "failed"}
OneWriteError == {"failed"}
NoWriteError == {}
NoConfigs == {}

-----------------------------------------------------------------------------
\* A scratch code with one copy, and HOTP or TOTP codes.
CodeConfigs ==
  LET one == [PlainConfig EXCEPT !.scratch = [code \in ScratchCodes |-> 1]]
  IN  { [one EXCEPT !.hotpConfigured = TRUE, !.hotpCounter = 1],
        [one EXCEPT !.totpAuth = TRUE, !.disallowReuse = TRUE] }
CodeTokens == Six({1, 2}) \union Eight \union [kind : {"notDigits"}]

\* The same, where TOTP and scratch codes count towards one login per interval.
CodeAndRateConfigs ==
  { IF c.totpAuth
    THEN [c EXCEPT !.rateLimit.attempts = 1, !.rateLimit.interval = 1]
    ELSE c : c \in CodeConfigs }
CodeAndRateTokens == Six({1, 2}) \union Eight

-----------------------------------------------------------------------------
\* Two hosts that compete for one LASTn slot, an owner who replaces and
\* removes the file, a file that cannot be read.
GraceConfigs ==
  {Malformed, [PlainConfig EXCEPT !.totpAuth = TRUE],
   [PlainConfig EXCEPT !.totpAuth = TRUE,
                       !.lastLogins[0] = [host |-> there, when |-> 1]]}
OwnersEdits == {Malformed, [PlainConfig EXCEPT !.hotpConfigured = TRUE]}
GraceArguments ==
  [Arguments EXCEPT !.gracePeriod = 2, !.nullOK = TRUE, !.allowReadonly = TRUE]
GraceTokens == Six({1, 2})

-----------------------------------------------------------------------------
\* The smallest instances on which the claims of the messages fail.
OneScratch ==
  {[PlainConfig EXCEPT !.totpAuth = TRUE,
                       !.scratch = [code \in ScratchCodes |-> 1]]}
OneAttempt ==
  {[PlainConfig EXCEPT !.totpAuth = TRUE,
                       !.rateLimit.attempts = 1, !.rateLimit.interval = 1]}
RightOrWrong == Six({1, 9})

\* One login after the other.
SerialSpec ==
  Init /\ [][/\ Next
             /\ \E s \in Sessions : \A t \in Sessions \ {s} :
                  pc'[t] \in {"start", "done", "killed"}]_vars
=============================================================================
