---------------------------- MODULE SecretStore ----------------------------
(***************************************************************************)
(* A secret file in use: a configuration is loaded, changed by logins and  *)
(* written back, over and over, and its owner edits the lines in between.  *)
(* What this asks of pkg/config is that Parse reads what Bytes wrote.      *)
(***************************************************************************)
EXTENDS ConfigFile

CONSTANTS
  InitialConfigs, \* the configurations ggpam init or a program starts from
  Times,          \* the times at which logins happen
  UsedCounters,   \* the TOTP counters logins use up
  Skews           \* the skews the samples of failed logins have

ASSUME StoreAssumption ==
  /\ InitialConfigs \subseteq Config
  /\ \A c \in InitialConfigs : InRange(c)
  /\ Times \subseteq Nat
  /\ UsedCounters \subseteq Int
  /\ Skews \subseteq Int \ {0}

VARIABLES
  cfg,    \* the configuration in memory
  file    \* the lines of the file

vars == <<cfg, file>>

Init ==
  /\ cfg \in InitialConfigs
  /\ file = << >>

Save ==
  /\ cfg.dirty \/ file = << >>
  /\ file' = Bytes(cfg)
  /\ cfg' = [cfg EXCEPT !.dirty = FALSE]

Load ==
  /\ ~cfg.dirty
  /\ Parse(file).ok
  /\ cfg' = Parse(file).cfg
  /\ UNCHANGED file

\* A file Parse rejects ends every login from then on.
Refuse ==
  /\ ~cfg.dirty
  /\ file # << >> /\ ~Parse(file).ok
  /\ UNCHANGED vars

\* A login leaves its traces in the configuration it has loaded; bound: one
\* trace each.
Idle ==
  /\ ~cfg.dirty
  /\ Parse(file).ok
  /\ cfg = Parse(file).cfg

CountAttempt(now) ==
  /\ Idle
  /\ cfg' = EnforceRateLimit(cfg, now)
  /\ UNCHANGED file

UseCounter(counter) ==
  /\ Idle
  /\ cfg' = RecordUsedTimestamp(cfg, counter)
  /\ UNCHANGED file

UseScratch(code) ==
  /\ Idle
  /\ HasScratchCode(cfg, code)
  /\ cfg' = UseScratchCode(cfg, code)
  /\ UNCHANGED file

ObserveSkew(ts, skew) ==
  /\ Idle
  /\ cfg' = RecordSkewObservation(cfg, ts, skew)
  /\ UNCHANGED file

RememberHost(host, now) ==
  /\ Idle
  /\ cfg' \in UpdateLoginRecord(cfg, host, now)
  /\ UNCHANGED file

\* The owner swaps two lines below the secret; bound: of a file just saved.
SwapLines(i, j) ==
  /\ ~cfg.dirty
  /\ file = Bytes(cfg)
  /\ {i, j} \subseteq DOMAIN file \ {1}
  /\ file' = [file EXCEPT ![i] = file[j], ![j] = file[i]]
  /\ UNCHANGED cfg

Next ==
  \/ Save
  \/ Load
  \/ Refuse
  \/ \E now \in Times : CountAttempt(now)
  \/ \E counter \in UsedCounters : UseCounter(counter)
  \/ \E code \in ScratchCodes : UseScratch(code)
  \/ \E now \in Times, skew \in Skews : ObserveSkew(now, skew)
  \/ \E host \in Hosts, now \in Times : RememberHost(host, now)
  \/ \E i, j \in DOMAIN file : SwapLines(i, j)

Spec == Init /\ [][Next]_vars

-----------------------------------------------------------------------------
\* Logins keep the configuration within its type: no scratch code goes below
\* zero copies, no LASTn slot leaves its range.
TypeOK == cfg \in Config

\* Parse reads back what Bytes wrote: every counter, stamp, sample, record and
\* scratch code a login left in memory survives the file, whichever options
\* are written because they differ from their defaults and whichever are not.
\* A host comes back with its blanks joined into one, and one record of a host
\* of nothing but white space makes the whole file one that Parse rejects.
RoundTrip ==
  cfg.secret # "missing" =>
    Parse(Bytes(cfg)) = IF HasBlankHost(cfg) THEN Rejected ELSE Parsed(ReadBack(cfg))

\* The order of the lines below the secret means nothing.
OrderIrrelevant ==
  [][(\E i, j \in DOMAIN file : SwapLines(i, j)) => Parse(file') = Parse(file)]_vars
=============================================================================
