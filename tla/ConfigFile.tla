----------------------------- MODULE ConfigFile -----------------------------
(***************************************************************************)
(* pkg/config: the text of a secret file, as Bytes writes it and Parse     *)
(* reads it.  A file is the sequence of its lines, the first of which is   *)
(* the secret.  A line is a record of its key and its value, already split *)
(* into fields.  Options Parse does not know are kept as they are and left *)
(* out here, as are the 64 KB limit and blank lines.  The name of a remote *)
(* host is whatever PAM_RHOST held, white space included, but one line.    *)
(***************************************************************************)
EXTENDS GGConfig, SequencesExt

CONSTANT
  Rejoined        \* a host's words with one blank between two, NoHost if none

ASSUME HostAssumption == Rejoined \in [Hosts -> Hosts \union {NoHost}]

Secrets == {"missing", "undecodable", "valid"}

SecretLine(secret) == [key |-> "secret", value |-> secret]
Flag(name) == [key |-> name]
Option(name, value) == [key |-> name, value |-> value]
LastLine(slot, record) == [key |-> "LAST", slot |-> slot, record |-> record]
ScratchLine(code) == [key |-> "scratch", value |-> code]

-----------------------------------------------------------------------------
(***************************************************************************)
(* Writing.                                                                *)
(***************************************************************************)

When(condition, line) == IF condition THEN <<line>> ELSE << >>

IsWritten(record) == record.host # NoHost /\ record.when # 0

LastLines(c) ==
  FlattenSeq([n \in 1 .. MaxLogins |->
                When(IsWritten(c.lastLogins[n - 1]),
                     LastLine(n - 1, c.lastLogins[n - 1]))])

ScratchLines(c) ==
  LET codes == SetToSeq(ScratchCodes)
  IN  FlattenSeq([n \in DOMAIN codes |->
                    [copy \in 1 .. c.scratch[codes[n]] |-> ScratchLine(codes[n])]])

Bytes(c) ==
  <<SecretLine(c.secret)>>
    \o When(c.totpAuth, Flag("TOTP_AUTH"))
    \o When(c.hotpConfigured, Option("HOTP_COUNTER", c.hotpCounter))
    \o When(c.stepSize # DefaultStepSize, Option("STEP_SIZE", c.stepSize))
    \o When(c.windowSize # DefaultWindow, Option("WINDOW_SIZE", c.windowSize))
    \o When(HasRateLimit(c), Option("RATE_LIMIT", c.rateLimit))
    \o When(c.disallowReuse, Option("DISALLOW_REUSE", c.disallowed))
    \o When(c.timeSkew # 0, Option("TIME_SKEW", c.timeSkew))
    \o When(c.samples # << >>, Option("RESETTING_TIME_SKEW", c.samples))
    \o LastLines(c)
    \o ScratchLines(c)

-----------------------------------------------------------------------------
(***************************************************************************)
(* Reading.                                                                *)
(***************************************************************************)

Rejected == [ok |-> FALSE]

Parsed(c) == [ok |-> TRUE, cfg |-> c]

ParsedIf(condition, c) == IF condition THEN Parsed(c) ELSE Rejected

NewConfig(secret) ==
  [ secret |-> secret, scratch |-> [code \in ScratchCodes |-> 0],
    totpAuth |-> FALSE, hotpConfigured |-> FALSE, hotpCounter |-> 0,
    stepSize |-> DefaultStepSize, windowSize |-> DefaultWindow,
    disallowReuse |-> FALSE, disallowed |-> {},
    rateLimit |-> NoRateLimit, timeSkew |-> 0, samples |-> << >>,
    lastLogins |-> [i \in Slots |-> NoLogin], dirty |-> FALSE ]

\* Mutant: an interval of one hour, which ggpam init accepts, is out of range.
parseRateLimitMutant(c, limit) ==
  ParsedIf(limit.attempts \in 1 .. 100 /\ limit.interval \in 1 .. 3599,
           [c EXCEPT !.rateLimit = limit])

parseRateLimit(c, limit) ==
  ParsedIf(limit.attempts \in 1 .. 100 /\ limit.interval \in 1 .. 3600,
           [c EXCEPT !.rateLimit = limit])

\* The sign of a sample's skew is what separates it from its time.
parseSkewSamples(c, samples) ==
  ParsedIf(\A i \in DOMAIN samples : samples[i].timestamp >= 0,
           [c EXCEPT !.samples = samples])

\* The words before the time are the host.
Rejoin(record) == [record EXCEPT !.host = Rejoined[@]]

\* Mutant: the records go to the slots in the order they are read.
parseLastLoginMutant(c, slot, record) ==
  LET free == {i \in Slots : c.lastLogins[i] = NoLogin}
  IN  ParsedIf(free # {} /\ Rejoined[record.host] # NoHost,
               [c EXCEPT !.lastLogins[Min(free)] = Rejoin(record)])

\* A line with a time and no word before it is refused.
parseLastLogin(c, slot, record) ==
  ParsedIf(slot \in Slots /\ Rejoined[record.host] # NoHost,
           [c EXCEPT !.lastLogins[slot] = Rejoin(record)])

parseOption(c, line) ==
  CASE line.key = "TOTP_AUTH" -> Parsed([c EXCEPT !.totpAuth = TRUE])
    [] line.key = "HOTP_COUNTER" ->
         Parsed([c EXCEPT !.hotpConfigured = TRUE, !.hotpCounter = line.value])
    [] line.key = "STEP_SIZE" ->
         ParsedIf(line.value \in 1 .. 60, [c EXCEPT !.stepSize = line.value])
    [] line.key = "WINDOW_SIZE" ->
         ParsedIf(line.value \in 1 .. 100, [c EXCEPT !.windowSize = line.value])
    [] line.key = "RATE_LIMIT" -> parseRateLimit(c, line.value)
    [] line.key = "DISALLOW_REUSE" ->
         Parsed([c EXCEPT !.disallowReuse = TRUE,
                          !.disallowed = @ \union line.value])
    [] line.key = "TIME_SKEW" -> Parsed([c EXCEPT !.timeSkew = line.value])
    [] line.key = "RESETTING_TIME_SKEW" -> parseSkewSamples(c, line.value)
    [] line.key = "LAST" -> parseLastLogin(c, line.slot, line.record)
    [] line.key = "scratch" -> Parsed([c EXCEPT !.scratch[line.value] = @ + 1])
    [] OTHER -> Rejected

\* The configurations that a file can hold.  Parse takes no others, and the
\* operations of GGConfig leave no others behind.
LimitInRange(c) ==
  /\ c.rateLimit.attempts <= 100 /\ c.rateLimit.interval <= 3600
  /\ HasRateLimit(c) => c.rateLimit.interval > 0
  /\ ~HasRateLimit(c) => c.rateLimit = NoRateLimit

UnusedAreEmpty(c) ==
  /\ ~c.disallowReuse => c.disallowed = {}
  /\ ~c.hotpConfigured => c.hotpCounter = 0

SamplesInRange(c) == \A i \in DOMAIN c.samples : c.samples[i].timestamp >= 0

LoginsInRange(c) ==
  \A i \in Slots : c.lastLogins[i].host = NoHost => c.lastLogins[i].when = 0

InRange(c) ==
  /\ c.stepSize \in 1 .. 60 /\ c.windowSize \in 1 .. 100
  /\ LimitInRange(c) /\ UnusedAreEmpty(c)
  /\ SamplesInRange(c) /\ LoginsInRange(c)

\* The records that come back from a file: a record without a host or of time
\* zero is not written, the host of the others has lost its extra blanks.
ReadBack(c) ==
  [c EXCEPT !.dirty = FALSE,
            !.lastLogins =
              [i \in Slots |-> IF IsWritten(@[i]) THEN Rejoin(@[i]) ELSE NoLogin]]

\* A record whose host is nothing but white space, which is not an empty host.
HasBlankHost(c) ==
  \E i \in Slots : /\ IsWritten(c.lastLogins[i])
                   /\ Rejoined[c.lastLogins[i].host] = NoHost

\* The first line that cannot be read rejects the file.
Parse(file) ==
  IF file = << >> \/ file[1].value = "missing"
  THEN Rejected
  ELSE FoldLeft(LAMBDA result, line :
                  IF result.ok THEN parseOption(result.cfg, line) ELSE result,
                Parsed(NewConfig(file[1].value)), Tail(file))
=============================================================================
