------------------------------ MODULE GGConfig ------------------------------
(***************************************************************************)
(* pkg/config: the contents of a user's secret file and the operations the *)
(* verifier performs on it.  Every operator takes a configuration and      *)
(* returns the configuration the Go method leaves behind, so that the same *)
(* definitions serve a process holding one Config (VerifyLoop) and logins  *)
(* that load and store it (PamLogin).                                      *)
(*                                                                         *)
(* Abstractions.  A missing RATE_LIMIT is attempts = 0, a value the parser *)
(* rejects.  The scratch codes are a multiset (code |-> copies left) and   *)
(* the disallowed TOTP counters a set: nothing reads their order.  Times   *)
(* are whole Unix seconds, as in the file.  A file has at most three skew  *)
(* samples, which is as many as the program ever writes.                   *)
(***************************************************************************)
EXTENDS Integers, Sequences, FiniteSetsExt

CONSTANTS
  ScratchCodes,   \* the eight-digit numbers a user may type
  Hosts,          \* remote hosts named by PAM_RHOST
  NoHost,         \* PAM_RHOST is absent or empty
  MaxLogins       \* LASTn slots of the file: 10 in the code

ASSUME ConfigAssumption ==
  /\ IsFiniteSet(ScratchCodes)
  /\ NoHost \notin Hosts
  /\ MaxLogins \in Nat \ {0}

DefaultStepSize == 30
DefaultWindow == 3
SkewSamplesNeeded == 3

Slots == 0 .. MaxLogins - 1

RateLimit == [attempts : Nat, interval : Nat, timestamps : Seq(Int)]

NoRateLimit == [attempts |-> 0, interval |-> 0, timestamps |-> << >>]

SkewSample == [timestamp : Int, skew : Int]

LoginRecord == [host : Hosts \union {NoHost}, when : Int]

\* A LASTn slot without a record.
NoLogin == [host |-> NoHost, when |-> 0]

Config ==
  [ secret         : {"missing", "undecodable", "valid"},
    scratch        : [ScratchCodes -> Nat],
    totpAuth       : BOOLEAN,
    hotpConfigured : BOOLEAN,
    hotpCounter    : Int,
    stepSize       : Nat,
    windowSize     : Nat,
    disallowReuse  : BOOLEAN,
    disallowed     : SUBSET Int,
    rateLimit      : RateLimit,
    timeSkew       : Int,
    samples        : Seq(SkewSample),
    lastLogins     : [Slots -> LoginRecord],
    dirty          : BOOLEAN ]

Mode(c) ==
  CASE c.hotpConfigured -> "hotp"
    [] ~c.hotpConfigured /\ c.totpAuth -> "totp"
    [] OTHER -> "unknown"

Step(c) == IF c.stepSize > 0 THEN c.stepSize ELSE DefaultStepSize

Window(c) == IF c.windowSize > 0 THEN c.windowSize ELSE DefaultWindow

\* What is left of a configuration that was written to a file and read back:
\* a login record of time zero is not written.  This is for hosts without extra
\* white space; ReadBack (module ConfigFile) says what becomes of the others.
Stored(c) ==
  [c EXCEPT !.dirty = FALSE,
            !.lastLogins =
              [i \in Slots |-> IF @[i].when = 0 THEN NoLogin ELSE @[i]]]

-----------------------------------------------------------------------------
(***************************************************************************)
(* Scratch codes and the list of used TOTP counters.                       *)
(***************************************************************************)

\* Mutant: a code whose copies are used up is still one of the user's codes.
HasScratchCodeMutant(c, code) == c.scratch[code] >= 0

HasScratchCode(c, code) == c.scratch[code] > 0

UseScratchCode(c, code) ==
  [c EXCEPT !.scratch[code] = @ - 1, !.dirty = TRUE]

\* Mutant: the list is pruned to half a window on each side.
ResetDisallowListMutant(c, centre, window) ==
  IF c.disallowReuse
  THEN [c EXCEPT !.disallowed =
                   {ts \in @ : ts - centre \in -(window \div 2) + 1 .. window \div 2},
                 !.dirty = TRUE]
  ELSE c

\* Forget the used counters that are a whole window away from centre.
ResetDisallowList(c, centre, window) ==
  IF c.disallowReuse
  THEN [c EXCEPT !.disallowed =
                   {ts \in @ : ts - centre < window /\ centre - ts < window},
                 !.dirty = TRUE]
  ELSE c

IsReused(c, ts) == c.disallowReuse /\ ts \in c.disallowed

RecordUsedTimestamp(c, ts) ==
  IF c.disallowReuse
  THEN [c EXCEPT !.disallowed = @ \union {ts}, !.dirty = TRUE]
  ELSE c

-----------------------------------------------------------------------------
(***************************************************************************)
(* The rate limiter.  The code sorts the list before it filters it, so the *)
(* entries it keeps are contiguous; the attempt being made is one of them. *)
(***************************************************************************)

InOrder(s) == \A i, j \in DOMAIN s : i <= j => s[i] <= s[j]

\* sort.Slice on a list of integers: a sorted list is left as it is.
Sorted(s) ==
  IF InOrder(s)
  THEN s
  ELSE CHOOSE t \in [DOMAIN s -> {s[i] : i \in DOMAIN s}] :
         /\ InOrder(t)
         /\ \A i \in DOMAIN s :
              Cardinality({j \in DOMAIN s : t[j] = s[i]})
                = Cardinality({j \in DOMAIN s : s[j] = s[i]})

\* The part of the sorted list s that lies in lo .. hi.
Between(s, lo, hi) ==
  LET kept == {i \in DOMAIN s : lo <= s[i] /\ s[i] <= hi}
  IN  SubSeq(s, Min(kept), Max(kept))

Newest(s, n) == SubSeq(s, Len(s) - n + 1, Len(s))

HasRateLimit(c) == c.rateLimit.attempts > 0

\* Mutant: an attempt exactly one interval old is forgotten.
RecentAttemptsMutant(c, now) ==
  Between(Sorted(Append(c.rateLimit.timestamps, now)),
          now - c.rateLimit.interval + 1, now)

\* The attempts inside the interval that ends now, this one included.
RecentAttempts(c, now) ==
  Between(Sorted(Append(c.rateLimit.timestamps, now)),
          now - c.rateLimit.interval, now)

\* Mutant: the attempt being made is taken for one that is still allowed.
IsRateLimitedMutant(c, now) ==
  HasRateLimit(c) /\ Len(RecentAttempts(c, now)) > c.rateLimit.attempts + 1

IsRateLimited(c, now) ==
  HasRateLimit(c) /\ Len(RecentAttempts(c, now)) > c.rateLimit.attempts

\* What EnforceRateLimit leaves behind, whether or not it refuses.
EnforceRateLimit(c, now) ==
  LET recent == RecentAttempts(c, now)
  IN  IF ~HasRateLimit(c) THEN c
      ELSE [c EXCEPT
              !.rateLimit.timestamps =
                 IF IsRateLimited(c, now)
                 THEN Newest(recent, c.rateLimit.attempts) ELSE recent,
              !.dirty = TRUE]

-----------------------------------------------------------------------------
(***************************************************************************)
(* Adapting to a device whose clock is off: three recent observations that *)
(* agree replace TIME_SKEW by their average.                               *)
(***************************************************************************)

\* Go's integer division truncates towards zero.
Quotient(a, b) == IF a >= 0 THEN a \div b ELSE -((-a) \div b)

\* Mutant: only two observations in one time step are the same.
IsSameObservationMutant(s, ts, skew) ==
  s # << >> /\ s[Len(s)].timestamp = ts

\* The code counts for the same time step as the last recorded sample.
IsSameObservation(s, ts, skew) ==
  /\ s # << >>
  /\ s[Len(s)].timestamp + s[Len(s)].skew = ts + skew

\* Make room for one more sample, then record it.
WithSample(s, ts, skew) ==
  Append(IF Len(s) = SkewSamplesNeeded THEN Tail(s) ELSE s,
         [timestamp |-> ts, skew |-> skew])

Agree(earlier, later) ==
  /\ earlier.timestamp < later.timestamp
  /\ later.timestamp <= earlier.timestamp + 2
  /\ earlier.skew - later.skew \in -1 .. 1

AllAgree(s) ==
  /\ Len(s) = SkewSamplesNeeded
  /\ \A i \in 1 .. SkewSamplesNeeded - 1 : Agree(s[i], s[i + 1])

\* Mutant: divided by the number of pairs, not of samples.
AverageSkewMutant(s) ==
  Quotient(s[1].skew + s[2].skew + s[3].skew, SkewSamplesNeeded - 1)

AverageSkew(s) ==
  Quotient(s[1].skew + s[2].skew + s[3].skew, SkewSamplesNeeded)

IsIgnoredObservation(c, ts, skew) ==
  skew = 0 \/ IsSameObservation(c.samples, ts, skew)

AdoptsSkew(c, ts, skew) ==
  /\ ~IsIgnoredObservation(c, ts, skew)
  /\ AllAgree(WithSample(c.samples, ts, skew))

RecordSkewObservation(c, ts, skew) ==
  LET samples == WithSample(c.samples, ts, skew)
  IN  CASE IsIgnoredObservation(c, ts, skew) -> c
        [] AdoptsSkew(c, ts, skew) ->
             [c EXCEPT !.timeSkew = AverageSkew(samples),
                       !.samples = << >>, !.dirty = TRUE]
        [] OTHER -> [c EXCEPT !.samples = samples, !.dirty = TRUE]

-----------------------------------------------------------------------------
(***************************************************************************)
(* The last logins, one record per host, and the grace period.             *)
(***************************************************************************)

\* Mutant: a recent login from anywhere will do.
WithinGracePeriodMutant(c, host, grace, now) ==
  grace > 0 /\ \E i \in Slots : c.lastLogins[i].when + grace > now

WithinGracePeriod(c, host, grace, now) ==
  /\ grace > 0
  /\ host # NoHost
  /\ \E i \in Slots : /\ c.lastLogins[i].host = host
                      /\ c.lastLogins[i].when + grace > now

\* The slots UpdateLoginRecord may overwrite.  The code ranges over a map,
\* whose order Go leaves open: any slot of the host, else the first free
\* slot, else any of the oldest ones.
LoginSlots(c, host) ==
  LET SlotsOf(h) == {i \in Slots : c.lastLogins[i].host = h}
  IN  CASE SlotsOf(host) # {} -> SlotsOf(host)
        [] SlotsOf(host) = {} /\ SlotsOf(NoHost) # {} -> {Min(SlotsOf(NoHost))}
        [] OTHER -> {i \in Slots : \A j \in Slots :
                       c.lastLogins[i].when <= c.lastLogins[j].when}

\* The configurations UpdateLoginRecord may leave behind.
UpdateLoginRecord(c, host, now) ==
  IF host = NoHost
  THEN {c}
  ELSE {[c EXCEPT !.lastLogins[slot] = [host |-> host, when |-> now],
                  !.dirty = TRUE] : slot \in LoginSlots(c, host)}
=============================================================================
