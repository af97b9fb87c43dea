--------------------------- MODULE MCInitCommand ---------------------------
(***************************************************************************)
(* InitCommand on small instances.                                         *)
(***************************************************************************)
EXTENDS InitCommand

\* A code every 30 seconds; the codes typed are those of steps 0, 1 and 5.
Codes == 0 .. 60
DistinctCompute(counter) == counter % 61
TryTimes == {0, 30, 300}
TypedCodes == {0, 1, 5}

Is(kinds) == [kind : kinds]
Six == [kind : {"six"}, code : TypedCodes]

NoHosts == {}
NothingRejoined == [host \in NoHosts |-> NoHost]
OldFiles == {<< >>, Bytes([NewConfig("valid") EXCEPT !.totpAuth = TRUE])}

\* What cobra makes of an empty command line.
NoFlags ==
  [ force |-> FALSE, mode |-> "", timeBased |-> FALSE, counterBased |-> FALSE,
    step |-> DefaultStepSize, windowSize |-> 0, minimalWindow |-> FALSE,
    rateAttempts |-> 3, rateAttemptsGiven |-> FALSE,
    rateInterval |-> 30, rateIntervalGiven |-> FALSE,
    disableRate |-> FALSE, scratch |-> 5,
    disallow |-> FALSE, allowReuse |-> FALSE,
    quiet |-> FALSE, confirm |-> TRUE, noConfirm |-> FALSE ]

\* No question is left open but the last.
Settling ==
  [NoFlags EXCEPT !.timeBased = TRUE, !.minimalWindow = TRUE,
                  !.disableRate = TRUE, !.disallow = TRUE]

SequencesUpTo(n, S) == UNION {[1 .. k -> S] : k \in 0 .. n}

-----------------------------------------------------------------------------
\* Nothing settled by flags: four answers, a code or two, the last answer.
\* Some inputs end early, some have an empty line in between.
YesNo == Is({"yes", "no"})
Dialogues ==
  {answers \o code \o last :
     answers \in [1 .. 4 -> YesNo],
     code \in SequencesUpTo(1, Six \union Is({"skip", "blank"}))
                \union {<<first>> \o <<[kind |-> "skip"]>> : first \in Six},
     last \in SequencesUpTo(1, YesNo)}
    \union SequencesUpTo(3, Is({"yes", "no", "other"}))

Interactive ==
  [opts : {NoFlags}, terminal : BOOLEAN, typed : Dialogues]

\* The code and the last answer, in any order, for every kind of line.
Confirmations ==
  [opts : {[Settling EXCEPT !.windowSize = w, !.minimalWindow = FALSE,
                            !.force = f] : w \in {1, 2, 6}, f \in BOOLEAN},
   terminal : BOOLEAN,
   typed : SequencesUpTo(3, Is({"yes", "no", "skip", "blank", "other"}) \union Six)]

\* Flags at their limits, without a terminal and with nothing to read.
Forced(flags) == [opts : flags, terminal : {FALSE}, typed : {<< >>}]
Unasked == [Settling EXCEPT !.force = TRUE, !.noConfirm = TRUE]

Automated ==
  Forced({[Unasked EXCEPT !.windowSize = w, !.minimalWindow = m,
                          !.step = s, !.scratch = e, !.quiet = q] :
            w \in {-1, 0, 2, 21, 22}, m \in BOOLEAN, s \in {0, 1, 60, 61},
            e \in {-1, 0, 10, 11}, q \in BOOLEAN})
    \union
  Forced({[Unasked EXCEPT !.disableRate = d,
                          !.rateAttempts = a, !.rateAttemptsGiven = TRUE,
                          !.rateInterval = i, !.rateIntervalGiven = TRUE] :
            d \in BOOLEAN, a \in {0, 1, 10, 11}, i \in {0, 15, 600, 601, 3601}})
    \union
  Forced({[Unasked EXCEPT !.disableRate = FALSE, !.rateAttempts = 1,
                          !.rateAttemptsGiven = TRUE]})
    \union
  Forced({[Unasked EXCEPT !.mode = m, !.timeBased = t, !.counterBased = c,
                          !.disallow = d, !.allowReuse = r] :
            m \in {"", "totp", "hotp", "other"}, t, c, d, r \in BOOLEAN})

AllCalls == Interactive \union Confirmations \union Automated

-----------------------------------------------------------------------------
\* README.md recommends --no-confirm for automation: everything else settled,
\* and the same with a user at a terminal.
NoConfirm == {[Settling EXCEPT !.noConfirm = TRUE]}
NoConfirmCalls ==
  [opts : NoConfirm, terminal : BOOLEAN, typed : SequencesUpTo(2, YesNo)]
=============================================================================
