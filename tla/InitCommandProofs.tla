------------------------- MODULE InitCommandProofs -------------------------
(***************************************************************************)
(* ggpam init, whatever its flags and its input: the options it settles    *)
(* stay in their ranges, and it writes over nothing without a yes.         *)
(***************************************************************************)
EXTENDS InitCommand, AuthenticatorProofs

-----------------------------------------------------------------------------
(***************************************************************************)
(* The readers.                                                            *)
(***************************************************************************)

ReadersTypeOK ==
  /\ input \in Seq(Lines)
  /\ ahead \in [Readers -> Seq(Lines)]

\* What a read leaves of the input, and what it brings into the buffer, are
\* lines that were there.
LEMMA SplitType ==
  ASSUME NEW S, NEW s \in Seq(S), NEW n \in 0 .. Len(s)
  PROVE  /\ SubSeq(s, 1, n) \in Seq(S) /\ Len(SubSeq(s, 1, n)) = n
         /\ SubSeq(s, n + 1, Len(s)) \in Seq(S)
         /\ \A i \in 1 .. n : SubSeq(s, 1, n)[i] = s[i]
         /\ \A i \in DOMAIN SubSeq(s, n + 1, Len(s)) :
              /\ n + i \in DOMAIN s
              /\ SubSeq(s, n + 1, Len(s))[i] = s[n + i]
  BY Z3

\* No reader has a yes before it.
NoYes(s) == \A i \in DOMAIN s : s[i].kind # "yes"

NoYesLeft == NoYes(input) /\ \A r \in Readers : NoYes(ahead[r])

LEMMA ConsumeTakes ==
  ASSUME ReadersTypeOK, NEW r \in Readers, Consume(r)
  PROVE  \E n \in 0 .. Len(input) :
           /\ ahead[r] \o SubSeq(input, 1, n) # << >>
           /\ ahead' = [ahead EXCEPT ![r] = Tail(@ \o SubSeq(input, 1, n))]
           /\ input' = SubSeq(input, n + 1, Len(input))
<1>1. ahead[r] \in Seq(Lines) /\ input \in Seq(Lines)
  BY DEF ReadersTypeOK
<1>2. ahead[r] \o input # << >>
  BY DEF Consume, AtEOF
<1>3. PICK n \in IF ahead[r] = << >> THEN LinesPerRead ELSE {0} :
        /\ ahead' = [ahead EXCEPT ![r] = Tail(@ \o SubSeq(input, 1, n))]
        /\ input' = SubSeq(input, n + 1, Len(input))
  BY DEF Consume
<1>4. n \in 0 .. Len(input) /\ (ahead[r] = << >> => n > 0)
  <2>1. CASE ahead[r] = << >>
    BY <1>1, <1>2, <1>3, <2>1 DEF LinesPerRead
  <2>2. CASE ahead[r] # << >>
    BY <1>1, <1>3, <2>2
  <2> QED
    BY <2>1, <2>2
<1> DEFINE front == SubSeq(input, 1, n)
<1>5. front \in Seq(Lines) /\ Len(front) = n
  BY <1>1, <1>4, SplitType
<1>6. ahead[r] \o front # << >>
  <2> HIDE DEF front
  <2> QED
    BY <1>1, <1>4, <1>5
<1> QED
  BY <1>3, <1>4, <1>6

LEMMA ConsumeTypes ==
  ASSUME ReadersTypeOK, NEW r \in Readers, Consume(r)
  PROVE  ReadersTypeOK' /\ NextLine(r) \in Lines
<1>1. ahead[r] \in Seq(Lines) /\ input \in Seq(Lines)
  BY DEF ReadersTypeOK
<1>2. PICK n \in 0 .. Len(input) :
        /\ ahead[r] \o SubSeq(input, 1, n) # << >>
        /\ ahead' = [ahead EXCEPT ![r] = Tail(@ \o SubSeq(input, 1, n))]
        /\ input' = SubSeq(input, n + 1, Len(input))
  BY ConsumeTakes
<1> DEFINE front == SubSeq(input, 1, n)
           read == ahead[r] \o front
<1>3. read \in Seq(Lines) /\ read # << >>
  <2>1. front \in Seq(Lines)
    BY <1>1, SplitType
  <2> QED
    BY <1>1, <1>2, <2>1
<1>4. Tail(read) \in Seq(Lines)
  <2> HIDE DEF read
  <2> QED
    BY <1>3
<1>5. input' \in Seq(Lines)
  BY <1>1, <1>2, SplitType
<1>6. ahead' \in [Readers -> Seq(Lines)]
  <2>1. ahead' = [ahead EXCEPT ![r] = Tail(read)]
    BY <1>2
  <2> QED
    BY <1>4, <2>1 DEF ReadersTypeOK
<1>7. NextLine(r) \in Lines
  BY <1>1 DEF NextLine, Consume, AtEOF
<1> QED
  BY <1>5, <1>6, <1>7 DEF ReadersTypeOK

LEMMA ConsumeNoYes ==
  ASSUME ReadersTypeOK, NEW r \in Readers, Consume(r), NoYesLeft
  PROVE  NoYesLeft' /\ NextLine(r).kind # "yes"
<1>1. /\ ahead[r] \in Seq(Lines) /\ NoYes(ahead[r])
      /\ input \in Seq(Lines) /\ NoYes(input)
  BY DEF ReadersTypeOK, NoYesLeft
<1>2. PICK n \in 0 .. Len(input) :
        /\ ahead[r] \o SubSeq(input, 1, n) # << >>
        /\ ahead' = [ahead EXCEPT ![r] = Tail(@ \o SubSeq(input, 1, n))]
        /\ input' = SubSeq(input, n + 1, Len(input))
  BY ConsumeTakes
<1> DEFINE front == SubSeq(input, 1, n)
           read == ahead[r] \o front
<1>3. front \in Seq(Lines) /\ NoYes(front)
  BY <1>1, SplitType DEF NoYes
<1>4. NoYes(input')
  BY <1>1, <1>2, SplitType DEF NoYes
<1>5. read \in Seq(Lines) /\ read # << >>
  BY <1>1, <1>2, <1>3
<1>6. NoYes(read)
  <2> HIDE DEF front
  <2> QED
    BY <1>1, <1>3 DEF NoYes
<1>7. NoYes(Tail(read))
  <2> HIDE DEF read
  <2> QED
    BY <1>5, <1>6 DEF NoYes
<1>8. \A q \in Readers : NoYes(ahead'[q])
  <2>1. ahead' = [ahead EXCEPT ![r] = Tail(read)]
    BY <1>2
  <2> QED
    BY <1>7, <2>1 DEF NoYesLeft, ReadersTypeOK
<1>9. NextLine(r).kind # "yes"
  <2>1. ahead[r] \o input # << >>
    BY DEF Consume, AtEOF
  <2> QED
    BY <1>1, <2>1 DEF NextLine, NoYes
<1> QED
  BY <1>4, <1>8, <1>9 DEF NoYesLeft

\* A question that was settled, by a flag or an answer.
LEMMA SettledReaders ==
  ASSUME ReadersTypeOK, NEW open, NEW flag, NEW yes, Settled(open, flag, yes)
  PROVE  /\ ReadersTypeOK'
         /\ NoYesLeft => NoYesLeft'
<1>1. CASE UNCHANGED stdin
  BY <1>1 DEF stdin, ReadersTypeOK, NoYesLeft
<1>2. CASE Consume("answers")
  BY <1>2, ConsumeTypes, ConsumeNoYes DEF Readers
<1> QED
  BY <1>1, <1>2 DEF Settled, Answered

-----------------------------------------------------------------------------
(***************************************************************************)
(* The options.                                                            *)
(***************************************************************************)

InitTypeInv ==
  /\ call \in Calls
  /\ TypeOK

LEMMA NewConfigType ==
  ASSUME NEW secret \in {"missing", "undecodable", "valid"}
  PROVE  NewConfig(secret) \in Config
<1>1. NoRateLimit \in RateLimit
  BY DEF NoRateLimit, RateLimit
<1>2. NoLogin \in LoginRecord
  BY DEF NoLogin, LoginRecord
<1> QED
  BY <1>1, <1>2 DEF NewConfig, Config, DefaultStepSize, DefaultWindow

LEMMA OptsType ==
  ASSUME InitTypeInv
  PROVE  opts \in Flags
  BY InitAssumption DEF InitTypeInv, opts

LEMMA ReadersAreTyped ==
  ASSUME InitTypeInv
  PROVE  ReadersTypeOK
  BY DEF InitTypeInv, TypeOK, ReadersTypeOK

\* The window of --minimal-window is at least three steps.
LEMMA FlagWindowType ==
  ASSUME InitTypeInv, ~WindowIsOpen
  PROVE  FlagWindow \in Nat \ {0}
<1>1. opts.windowSize \in Int
  BY OptsType DEF Flags
<1>2. opts.minimalWindow \in BOOLEAN
  BY OptsType DEF Flags
<1>3. Max({3, opts.windowSize}) \in Nat \ {0}
  <2>1. CASE opts.windowSize <= 3
    <3>1. Max({3, opts.windowSize}) = 3
      BY <1>1, <2>1, MaxIsGreatest
    <3> QED
      BY <3>1
  <2>2. CASE opts.windowSize > 3
    <3>1. Max({3, opts.windowSize}) = opts.windowSize
      BY <1>1, <2>2, MaxIsGreatest
    <3> QED
      BY <1>1, <2>2, <3>1
  <2> QED
    BY <1>1, <2>1, <2>2
<1> QED
  BY <1>1, <1>2, <1>3 DEF FlagWindow, WindowIsOpen

LEMMA DetermineModeTypes ==
  ASSUME InitTypeInv, DetermineMode
  PROVE  cfg' \in Config
<1>1. cfg \in Config
  BY DEF InitTypeInv, TypeOK
<1>2. PICK totp \in BOOLEAN :
        cfg' = [cfg EXCEPT !.totpAuth = totp, !.hotpConfigured = ~totp,
                           !.hotpCounter = IF totp THEN 0 ELSE FirstHOTPCounter]
  BY DEF DetermineMode
<1> DEFINE counter == IF totp THEN 0 ELSE FirstHOTPCounter
<1>3. counter \in Int /\ (~totp) \in BOOLEAN
  BY DEF FirstHOTPCounter
<1> HIDE DEF counter
<1>4. cfg' = [cfg EXCEPT !.totpAuth = totp, !.hotpConfigured = ~totp,
                         !.hotpCounter = counter]
  BY <1>2 DEF counter
<1> QED
  BY <1>1, <1>3, <1>4 DEF Config

LEMMA DetermineReuseTypes ==
  ASSUME InitTypeInv, DetermineReuse
  PROVE  cfg' \in Config
  BY DEF InitTypeInv, TypeOK, DetermineReuse, Config

LEMMA DetermineWindowTypes ==
  ASSUME InitTypeInv, DetermineWindow
  PROVE  cfg' \in Config
<1>1. PICK wide \in BOOLEAN :
        cfg' = [cfg EXCEPT !.windowSize =
                  CASE ~WindowIsOpen -> FlagWindow
                    [] WindowIsOpen /\ wide -> WideWindow
                    [] OTHER -> DefaultWindow]
  BY DEF DetermineWindow
<1> DEFINE window == CASE ~WindowIsOpen -> FlagWindow
                       [] WindowIsOpen /\ wide -> WideWindow
                       [] OTHER -> DefaultWindow
<1>2. window \in Nat
  <2>1. WindowIsOpen \in BOOLEAN
    BY DEF WindowIsOpen
  <2> QED
    BY <2>1, FlagWindowType DEF WideWindow, DefaultWindow
<1> HIDE DEF window
<1>3. cfg' = [cfg EXCEPT !.windowSize = window]
  BY <1>1 DEF window
<1> QED
  BY <1>2, <1>3 DEF InitTypeInv, TypeOK, Config

LEMMA DetermineRateLimitTypes ==
  ASSUME InitTypeInv, DetermineRateLimit
  PROVE  cfg' \in Config
<1>1. PICK limit \in BOOLEAN :
        /\ Settled(RateIsOpen, ~opts.disableRate, limit)
        /\ cfg' = [cfg EXCEPT !.rateLimit =
                     CASE ~limit -> NoRateLimit
                       [] limit /\ RateIsOpen -> Limit(3, 30)
                       [] OTHER -> Limit(opts.rateAttempts, opts.rateInterval)]
  BY DEF DetermineRateLimit
<1> DEFINE rate == CASE ~limit -> NoRateLimit
                     [] limit /\ RateIsOpen -> Limit(3, 30)
                     [] OTHER -> Limit(opts.rateAttempts, opts.rateInterval)
<1>2. /\ opts.rateAttempts \in Int /\ opts.rateInterval \in Int
      /\ opts.disableRate \in BOOLEAN
  BY OptsType DEF Flags
<1>3. rate \in RateLimit
  <2>1. CASE ~limit
    BY <2>1 DEF NoRateLimit, RateLimit
  <2>2. CASE limit /\ RateIsOpen
    BY <2>2 DEF Limit, RateLimit
  <2>3. CASE limit /\ ~RateIsOpen
    <3>1. ~opts.disableRate
      BY <1>1, <1>2, <2>3 DEF Settled
    <3>2. ~RateFlagsRefused
      BY DEF DetermineRateLimit, At, Refused
    <3>3. /\ opts.rateAttempts \in 0 .. 10
          /\ opts.rateInterval >= 0
      BY <1>2, <3>1, <3>2 DEF RateFlagsRefused
    <3>4. Limit(opts.rateAttempts, opts.rateInterval) \in RateLimit
      BY <1>2, <3>3 DEF Limit, RateLimit
    <3> QED
      BY <2>3, <3>4
  <2> QED
    BY <2>1, <2>2, <2>3
<1> HIDE DEF rate
<1>4. cfg' = [cfg EXCEPT !.rateLimit = rate]
  BY <1>1 DEF rate
<1> QED
  BY <1>3, <1>4 DEF InitTypeInv, TypeOK, Config

LEMMA GenerateTypes ==
  ASSUME InitTypeInv, Generate
  PROVE  cfg' \in Config
<1>1. PICK codes \in [ScratchCodes -> 0 .. opts.scratch] :
        cfg' = [cfg EXCEPT !.stepSize = opts.step, !.scratch = codes]
  BY DEF Generate
<1>2. opts.step \in 1 .. 60
  BY OptsType DEF Generate, At, Refused, OutOfRange, Flags
<1>3. opts.scratch \in 0 .. maxScratchCodes
  BY OptsType DEF Generate, At, Refused, OutOfRange, Flags
<1>4. codes \in [ScratchCodes -> Nat]
  BY <1>1, <1>3 DEF maxScratchCodes
<1>5. cfg \in Config
  BY DEF InitTypeInv, TypeOK
<1>6. opts.step \in Nat
  BY <1>2
<1> QED
  BY <1>1, <1>4, <1>5, <1>6 DEF Config

LEMMA StepKeepsInitTypes ==
  ASSUME InitTypeInv, [Next]_vars
  PROVE  InitTypeInv'
<1> USE DEF InitTypeInv, TypeOK
<1>1. ReadersTypeOK
  BY ReadersAreTyped
<1>2. CASE UNCHANGED <<call, cfg>> /\ ReadersTypeOK' /\ pc' \in PCs
  BY <1>2 DEF ReadersTypeOK
<1>3. CASE UNCHANGED call /\ cfg' \in Config /\ ReadersTypeOK' /\ pc' \in PCs
  BY <1>3 DEF ReadersTypeOK
<1>4. UNCHANGED stdin => ReadersTypeOK'
  BY <1>1 DEF stdin, ReadersTypeOK
<1>5. CASE Refuse \/ Break \/ Start \/ Finished \/ UNCHANGED vars
  BY <1>2, <1>4, <1>5 DEF Refuse, Break, Start, Finished, PCs, Ends, vars, stdin
<1>6. CASE DetermineMode
  <2>1. ReadersTypeOK'
    BY <1>1, <1>6, SettledReaders DEF DetermineMode
  <2> QED
    BY <1>3, <1>6, <2>1, DetermineModeTypes DEF DetermineMode, PCs
<1>7. CASE DetermineReuse
  <2>1. ReadersTypeOK'
    BY <1>1, <1>7, SettledReaders DEF DetermineReuse
  <2> QED
    BY <1>3, <1>7, <2>1, DetermineReuseTypes DEF DetermineReuse, PCs
<1>8. CASE DetermineWindow
  <2>1. ReadersTypeOK'
    BY <1>1, <1>8, SettledReaders DEF DetermineWindow
  <2> QED
    BY <1>3, <1>8, <2>1, DetermineWindowTypes DEF DetermineWindow, PCs
<1>9. CASE DetermineRateLimit
  <2>1. ReadersTypeOK'
    BY <1>1, <1>9, SettledReaders DEF DetermineRateLimit
  <2> QED
    BY <1>3, <1>9, <2>1, DetermineRateLimitTypes DEF DetermineRateLimit, PCs
<1>10. CASE Generate
  BY <1>3, <1>4, <1>10, GenerateTypes DEF Generate, BeforeWriting, PCs
<1>11. CASE TryCode \/ SkipCode \/ CodeFails \/ AskAgain \/ AskToWrite
  <2>1. ReadersTypeOK'
    BY <1>1, <1>4, <1>11, ConsumeTypes
       DEF TryCode, SkipCode, CodeFails, AskAgain, AskToWrite, Answered, CodeIs,
           Readers
  <2>2. UNCHANGED <<call, cfg>> /\ pc' \in PCs
    BY <1>11 DEF TryCode, SkipCode, CodeFails, AskAgain, AskToWrite,
                 BeforeWriting, PCs, Ends
  <2> QED
    BY <1>2, <2>1, <2>2
<1>12. CASE Write
  BY <1>2, <1>4, <1>12 DEF Write, PCs, Ends
<1> QED
  BY <1>5, <1>6, <1>7, <1>8, <1>9, <1>10, <1>11, <1>12 DEF Next

LEMMA InitStartsTyped ==
  ASSUME Init
  PROVE  InitTypeInv
<1>1. call \in Calls /\ call.typed \in Seq(Lines)
  BY InitAssumption DEF Init
<1>2. cfg \in Config
  BY NewConfigType DEF Init
<1> QED
  BY <1>1, <1>2 DEF Init, InitTypeInv, TypeOK, PCs, Readers

\* Whatever the flags, the Config that ggpam init builds is one: the ranges of
\* runInit leave no negative count, window or limit (InitCommand.TypeOK).
THEOREM InitKeepsTypes == Spec => []TypeOK
<1>1. Init => InitTypeInv
  BY InitStartsTyped
<1>2. InitTypeInv /\ [Next]_vars => InitTypeInv'
  BY StepKeepsInitTypes
<1>3. InitTypeInv => TypeOK
  BY DEF InitTypeInv
<1> QED
  BY <1>1, <1>2, <1>3, PTL DEF Spec

-----------------------------------------------------------------------------
(***************************************************************************)
(* No file without a yes.                                                  *)
(***************************************************************************)

\* Nobody may write, and no reader can come to a yes.
Withheld == ~opts.force /\ NoYes(call.typed)

WithheldInv ==
  /\ InitTypeInv
  /\ Withheld => NoYesLeft /\ pc \notin {"write", "written"}

LEMMA StepKeepsWithheld ==
  ASSUME WithheldInv, [Next]_vars, Withheld
  PROVE  NoYesLeft' /\ pc' \notin {"write", "written"}
<1>1. ReadersTypeOK /\ NoYesLeft /\ pc \notin {"write", "written"}
  BY ReadersAreTyped DEF WithheldInv
<1>2. ~opts.force
  BY DEF Withheld
<1>3. UNCHANGED stdin => NoYesLeft'
  BY <1>1 DEF stdin, NoYesLeft
<1>4. CASE Refuse \/ Break \/ Start \/ Finished \/ UNCHANGED vars
  BY <1>1, <1>3, <1>4 DEF Refuse, Break, Start, Finished, vars, stdin
<1>5. CASE DetermineMode \/ DetermineReuse \/ DetermineWindow \/ DetermineRateLimit
  BY <1>1, <1>5, SettledReaders
     DEF DetermineMode, DetermineReuse, DetermineWindow, DetermineRateLimit
<1>6. CASE Generate
  BY <1>2, <1>3, <1>6 DEF Generate, BeforeWriting
<1>7. CASE TryCode \/ SkipCode \/ CodeFails \/ AskAgain
  <2>1. NoYesLeft'
    BY <1>1, <1>3, <1>7, ConsumeNoYes
       DEF TryCode, SkipCode, CodeFails, AskAgain, CodeIs, Readers
  <2> QED
    BY <1>1, <1>2, <1>7, <2>1
       DEF TryCode, SkipCode, CodeFails, AskAgain, BeforeWriting
<1>8. CASE AskToWrite
  <2>1. PICK yes \in BOOLEAN :
          Answered(yes) /\ pc' = IF yes THEN "write" ELSE "cancelled"
    BY <1>8 DEF AskToWrite
  <2>2. ~yes
    <3>1. CASE AtEOF("answers") /\ ~yes
      BY <3>1
    <3>2. CASE /\ Consume("answers")
               /\ NextLine("answers").kind = IF yes THEN "yes" ELSE "no"
      <4>1. NextLine("answers").kind # "yes"
        BY <1>1, <3>2, ConsumeNoYes DEF Readers
      <4> QED
        BY <3>2, <4>1
    <3> QED
      BY <2>1, <3>1, <3>2 DEF Answered
  <2>3. NoYesLeft'
    BY <1>1, <1>3, <2>1, ConsumeNoYes DEF Answered, Readers
  <2> QED
    BY <2>1, <2>2, <2>3
<1>9. CASE Write
  BY <1>1, <1>9 DEF Write, At
<1> QED
  BY <1>4, <1>5, <1>6, <1>7, <1>8, <1>9 DEF Next

LEMMA CallStays ==
  ASSUME [Next]_vars
  PROVE  UNCHANGED call
  BY DEF Next, vars, Refuse, Break, Start, Finished, DetermineMode, DetermineReuse,
         DetermineWindow, DetermineRateLimit, Generate, TryCode, SkipCode,
         CodeFails, AskAgain, AskToWrite, Write

\* Without --force and without a yes among the lines that are typed, ggpam init
\* writes no file: not because the input ends, nor because a line was read by
\* the wrong one of the two readers (InitCommand.NoYesNoFile).
THEOREM NothingIsWrittenUnasked == Spec => []NoYesNoFile
<1>1. Init => WithheldInv
  <2> SUFFICES ASSUME Init
               PROVE  WithheldInv
    OBVIOUS
  <2>1. InitTypeInv
    BY InitStartsTyped
  <2>2. Withheld => NoYesLeft
    BY DEF Init, Withheld, NoYesLeft, NoYes
  <2> QED
    BY <2>1, <2>2 DEF Init, WithheldInv
<1>2. WithheldInv /\ [Next]_vars => WithheldInv'
  <2> SUFFICES ASSUME WithheldInv, [Next]_vars
               PROVE  WithheldInv'
    OBVIOUS
  <2>1. InitTypeInv'
    BY StepKeepsInitTypes DEF WithheldInv
  <2>2. Withheld' <=> Withheld
    BY CallStays DEF Withheld, opts, NoYes
  <2> QED
    BY <2>1, <2>2, StepKeepsWithheld DEF WithheldInv
<1>3. WithheldInv => NoYesNoFile
  BY DEF WithheldInv, Withheld, NoYes, NoYesNoFile
<1> QED
  BY <1>1, <1>2, <1>3, PTL DEF Spec

-----------------------------------------------------------------------------
(*****************************************************************************)
(* The options.                                                              *)
(*****************************************************************************)

\* What no option of ggpam init sets.
Untouched(c) ==
  /\ c.secret = "valid" /\ c.disallowed = {} /\ c.timeSkew = 0 /\ c.samples = << >>
  /\ c.lastLogins = [i \in Slots |-> NoLogin]
  /\ c.rateLimit.timestamps = << >> /\ c.dirty = FALSE

\* The steps that run once all options are settled.
AfterOptions == {"confirm", "update", "write", "written"}

\* What the options are when they are settled, and what is written.
OptionsInv ==
  /\ InitTypeInv
  /\ Untouched(cfg) /\ LimitInRange(cfg) /\ UnusedAreEmpty(cfg)
  /\ cfg.stepSize \in 1 .. 60
  /\ ~(cfg.totpAuth /\ cfg.hotpConfigured)
  /\ pc \in {"reuse", "window", "rate", "generate"} \union AfterOptions =>
       cfg.totpAuth \/ cfg.hotpConfigured
  /\ pc \in AfterOptions => cfg.windowSize \in 1 .. 21
  /\ pc = "confirm" => cfg.totpAuth
  /\ pc = "written" => file = Bytes(cfg)

\* With the settled options, what Parse reads is what was written.
LEMMA UntouchedInRange ==
  ASSUME NEW c \in Config, Untouched(c), LimitInRange(c), UnusedAreEmpty(c),
         c.stepSize \in 1 .. 60, c.windowSize \in 1 .. 21
  PROVE  /\ InRange(c) /\ ReadBack(c) = c
         /\ Parse(Bytes(c)) = Parsed(c)
<1>1. SamplesInRange(c)
  BY DEF SamplesInRange, Untouched
<1>2. LoginsInRange(c)
  BY DEF LoginsInRange, Untouched, NoLogin
<1>3. c.windowSize \in 1 .. 100
  OBVIOUS
<1>4. InRange(c)
  BY <1>1, <1>2, <1>3 DEF InRange
<1>5. \A i \in Slots : c.lastLogins[i] = NoLogin /\ ~IsWritten(c.lastLogins[i])
  BY DEF Untouched, NoLogin, IsWritten
<1>6. ReadBack(c) = c /\ ~HasBlankHost(c)
  <2>1. c.lastLogins = [i \in Slots |-> IF IsWritten(c.lastLogins[i])
                                        THEN Rejoin(c.lastLogins[i]) ELSE NoLogin]
    BY <1>5 DEF Untouched
  <2>2. c.dirty = FALSE
    BY DEF Untouched
  <2>3. ReadBack(c) = [c EXCEPT !.dirty = c.dirty, !.lastLogins = c.lastLogins]
    BY <2>1, <2>2 DEF ReadBack, Config
  <2> QED
    BY <1>5, <2>3 DEF Config, HasBlankHost
<1>7. Parse(Bytes(c)) = Parsed(ReadBack(c))
  BY <1>4, <1>6, BytesDescribe, DescribedIsRead DEF Untouched
<1> QED
  BY <1>4, <1>6, <1>7

\* The first attempt of all is within any limit.
LEMMA FirstAttempt ==
  ASSUME NEW c \in Config, c.rateLimit.timestamps = << >>, NEW now \in Int
  PROVE  ~IsRateLimited(c, now)
<1> DEFINE s == Append(c.rateLimit.timestamps, now)
<1>1. s = <<now>>
  OBVIOUS
<1>2. Len(s) = 1 /\ s \in Seq(Int)
  BY <1>1
<1>3. StampsInOrder(c, now)
  BY DEF StampsInOrder, InOrder
<1>4. PICK m \in 1 .. Len(s) : RecentAttempts(c, now) = SubSeq(s, m, Len(s))
  BY <1>3, RecentIsTail
<1>5. RecentAttempts(c, now) = SubSeq(s, 1, 1)
  BY <1>2, <1>4
<1> HIDE DEF s
<1>6. Len(RecentAttempts(c, now)) = 1
  BY <1>2, <1>5
<1>7. c.rateLimit.attempts \in Nat
  BY DEF Config, RateLimit
<1> QED
  BY <1>6, <1>7 DEF IsRateLimited, HasRateLimit

\* On the first attempt, with no list of used counters, the verifier accepts
\* just the codes of the window around the clock.
LEMMA FreshVerdict ==
  ASSUME NEW c \in Config, Untouched(c), c.totpAuth, ~c.hotpConfigured,
         NEW code \in SixDigitCodes, NEW o \in VerifyOptions,
         o.disableSkewAdjustment, NEW now \in Nat
  PROVE  VerifyCode(c, [kind |-> "six", code |-> code], o, now).result = "totp"
           <=> \E counter \in now \div Step(c) - (Window(c) - 1) \div 2
                                .. now \div Step(c) + Window(c) \div 2 :
                 counter >= 0 /\ Compute(counter) = code
<1> DEFINE d == EnforceRateLimit(c, now)
           token == [kind |-> "six", code |-> code]
           verdict == VerifyTOTP(d, code, o, now)
           hits == TOTPHits(d, code, now)
<1>1. d \in Config /\ SameButRateLimit(c, d)
  BY EnforceRateLimitKeepsType
<1>2. VerifyCode(c, token, o, now) = VerifyToken(d, token, o, now)
  <2>1. ReachesRateLimiter(c) /\ ~IsRateLimited(c, now)
    BY FirstAttempt DEF Untouched, ReachesRateLimiter
  <2> QED
    BY <2>1 DEF VerifyCode
<1> HIDE DEF d
<1>3. VerifyToken(d, token, o, now) = verdict
  <2>1. VerifyToken(d, token, o, now) = VerifySixDigits(d, code, o, now)
    BY DEF VerifyToken
  <2>2. d.secret = "valid" /\ Mode(d) = "totp"
    BY <1>1 DEF Untouched, SameButRateLimit, Mode
  <2> QED
    BY <2>1, <2>2 DEF VerifySixDigits
<1>4. verdict.result = "totp" <=> hits # {}
  <2> DEFINE pruned == ResetDisallowList(d, Centre(d, now), Window(d))
  <2>1. d.disallowed = {}
    BY <1>1 DEF Untouched, SameButRateLimit
  <2>2. pruned.disallowed = {}
    BY <1>1, <2>1 DEF ResetDisallowList, Config
  <2>3. \A ts : ~IsReused(pruned, ts)
    BY <2>2 DEF IsReused
  <2>4. VerifyOutsideWindow(pruned, code, o, now).result = "invalidCode"
    BY DEF VerifyOutsideWindow, Failure
  <2> HIDE DEF pruned
  <2>5. CASE hits = {}
    BY <2>4, <2>5 DEF VerifyTOTP, pruned
  <2>6. CASE hits # {}
    BY <2>3, <2>6 DEF VerifyTOTP, pruned, Success
  <2> QED
    BY <2>5, <2>6
<1>5. hits = {counter \in Centre(d, now) - (Window(d) - 1) \div 2
                            .. Centre(d, now) + Window(d) \div 2 :
                counter >= 0 /\ Compute(counter) = code}
  BY DEF TOTPHits, AcceptableCounters
<1>6. Centre(d, now) = now \div Step(c) /\ Window(d) = Window(c)
  <2>1. now \div Step(c) \in Int
    BY StepType
  <2>2. TimeStep(d, now) = now \div Step(c) /\ d.timeSkew = 0 /\ Window(d) = Window(c)
    BY <1>1 DEF TimeStep, Step, Window, Untouched, SameButRateLimit
  <2> QED
    BY <2>1, <2>2 DEF Centre
<1> HIDE DEF hits, verdict
<1> QED
  BY <1>2, <1>3, <1>4, <1>5, <1>6

\* confirmCode searches the same window.
LEMMA ConfirmsInWindow ==
  ASSUME cfg \in Config, cfg.timeSkew = 0, NEW code, NEW now \in Nat
  PROVE  Confirms(code, now)
           <=> \E counter \in now \div Step(cfg) - (Window(cfg) - 1) \div 2
                                .. now \div Step(cfg) + Window(cfg) \div 2 :
                 counter >= 0 /\ Compute(counter) = code
<1> DEFINE tm == now \div Step(cfg)
           back == (Window(cfg) - 1) \div 2
           ahd == Window(cfg) \div 2
<1>1. tm \in Nat
  BY StepType
<1>2. back \in Int /\ ahd \in Int
  BY StepType
<1>3. Max({tm + cfg.timeSkew, 0}) = tm
  <2>1. tm + cfg.timeSkew = tm
    BY <1>1
  <2> HIDE DEF tm
  <2>2. Max({tm, 0}) = tm
    BY <1>1, MaxIsGreatest
  <2> QED
    BY <2>1, <2>2
<1>4. Confirms(code, now) <=>
        \E offset \in -back .. ahd : tm + offset >= 0 /\ Compute(tm + offset) = code
  BY <1>3 DEF Confirms
<1> HIDE DEF tm, back, ahd
<1>5. ASSUME NEW counter \in tm - back .. tm + ahd
      PROVE  counter - tm \in -back .. ahd /\ tm + (counter - tm) = counter
  BY <1>1, <1>2
<1>6. ASSUME NEW offset \in -back .. ahd
      PROVE  tm + offset \in tm - back .. tm + ahd
  BY <1>1, <1>2
<1>7. Confirms(code, now) <=>
        \E counter \in tm - back .. tm + ahd : counter >= 0 /\ Compute(counter) = code
  BY <1>4, <1>5, <1>6
<1> QED
  BY <1>7 DEF tm, back, ahd

\* A new configuration has the options that no step has settled yet.
LEMMA OptionsStart ==
  ASSUME Init
  PROVE  OptionsInv
<1> DEFINE c == cfg
<1>1. InitTypeInv
  BY InitStartsTyped
<1>2. c = NewConfig("valid") /\ pc = "start"
  BY DEF Init
<1> HIDE DEF c
<1>3. c.rateLimit = NoRateLimit
  BY <1>2 DEF NewConfig
<1>4. /\ c.secret = "valid" /\ c.disallowed = {} /\ c.timeSkew = 0 /\ c.samples = << >>
      /\ c.lastLogins = [i \in Slots |-> NoLogin]
      /\ c.hotpCounter = 0 /\ c.stepSize = DefaultStepSize
  BY <1>2 DEF NewConfig
<1>5. ~c.dirty /\ c.dirty = FALSE /\ ~c.totpAuth
  BY <1>2 DEF NewConfig
<1>6. Untouched(c) /\ UnusedAreEmpty(c)
  BY <1>3, <1>4, <1>5 DEF Untouched, UnusedAreEmpty, NoRateLimit
<1>7. LimitInRange(c)
  BY <1>3 DEF LimitInRange, HasRateLimit, NoRateLimit
<1>8. c.stepSize \in 1 .. 60
  BY <1>4 DEF DefaultStepSize
<1> QED
  BY <1>1, <1>2, <1>5, <1>6, <1>7, <1>8 DEF OptionsInv, AfterOptions, c

\* Each step that settles an option keeps what the others have settled.
LEMMA ModeIsSettled ==
  ASSUME OptionsInv, DetermineMode
  PROVE  OptionsInv'
<1> DEFINE c == cfg
           d == cfg'
<1>1. InitTypeInv' /\ InitTypeInv
  BY StepKeepsInitTypes DEF OptionsInv, Next
<1>2. PICK totp \in BOOLEAN :
        d = [c EXCEPT !.totpAuth = totp, !.hotpConfigured = ~totp,
                      !.hotpCounter = IF totp THEN 0 ELSE FirstHOTPCounter]
  BY DEF DetermineMode
<1>3. /\ c \in Config /\ Untouched(c) /\ LimitInRange(c) /\ UnusedAreEmpty(c)
      /\ c.stepSize \in 1 .. 60
  BY DEF OptionsInv, InitTypeInv, TypeOK
<1>4. pc' = "reuse"
  BY DEF DetermineMode
<1> HIDE DEF c, d
<1>5. /\ d.secret = c.secret /\ d.disallowed = c.disallowed /\ d.timeSkew = c.timeSkew
      /\ d.samples = c.samples /\ d.lastLogins = c.lastLogins
      /\ d.rateLimit = c.rateLimit /\ d.stepSize = c.stepSize
      /\ d.disallowReuse = c.disallowReuse /\ d.dirty = c.dirty
  BY <1>2, <1>3 DEF Config
<1>6. d.totpAuth = totp /\ d.hotpConfigured = ~totp
  BY <1>2, <1>3 DEF Config
<1>7. d.hotpCounter = IF totp THEN 0 ELSE FirstHOTPCounter
  BY <1>2, <1>3 DEF Config
<1>8. Untouched(d)
  BY <1>3, <1>5 DEF Untouched
<1>9. LimitInRange(d)
  BY <1>3, <1>5 DEF LimitInRange, HasRateLimit
<1>10. UnusedAreEmpty(d)
  BY <1>3, <1>5, <1>6, <1>7 DEF UnusedAreEmpty
<1>11. d.stepSize \in 1 .. 60
  BY <1>3, <1>5
<1> QED
  BY <1>1, <1>4, <1>6, <1>8, <1>9, <1>10, <1>11 DEF OptionsInv, AfterOptions, d

\* Codes that may not be reused leave no list of used ones yet.
LEMMA ReuseIsSettled ==
  ASSUME OptionsInv, DetermineReuse
  PROVE  OptionsInv'
<1> DEFINE c == cfg
           d == cfg'
<1>1. InitTypeInv' /\ pc = "reuse" /\ pc' = "window"
  BY StepKeepsInitTypes DEF OptionsInv, Next, DetermineReuse, At
<1>2. PICK disallow \in BOOLEAN : d = [c EXCEPT !.disallowReuse = disallow]
  BY DEF DetermineReuse
<1>3. /\ c \in Config /\ Untouched(c) /\ LimitInRange(c) /\ UnusedAreEmpty(c)
      /\ c.stepSize \in 1 .. 60 /\ ~(c.totpAuth /\ c.hotpConfigured)
      /\ c.totpAuth \/ c.hotpConfigured
  BY <1>1 DEF OptionsInv, InitTypeInv, TypeOK
<1> HIDE DEF c, d
<1>4. /\ d.secret = c.secret /\ d.disallowed = c.disallowed /\ d.timeSkew = c.timeSkew
      /\ d.samples = c.samples /\ d.lastLogins = c.lastLogins
      /\ d.rateLimit = c.rateLimit /\ d.stepSize = c.stepSize
      /\ d.totpAuth = c.totpAuth /\ d.hotpConfigured = c.hotpConfigured
      /\ d.hotpCounter = c.hotpCounter /\ d.dirty = c.dirty
  BY <1>2, <1>3 DEF Config
<1>5. Untouched(d)
  BY <1>3, <1>4 DEF Untouched
<1>6. LimitInRange(d)
  BY <1>3, <1>4 DEF LimitInRange, HasRateLimit
<1>7. UnusedAreEmpty(d)
  BY <1>3, <1>4 DEF UnusedAreEmpty, Untouched
<1>8. d.stepSize \in 1 .. 60 /\ ~(d.totpAuth /\ d.hotpConfigured)
      /\ (d.totpAuth \/ d.hotpConfigured)
  BY <1>3, <1>4
<1> QED
  BY <1>1, <1>5, <1>6, <1>7, <1>8 DEF OptionsInv, AfterOptions, d

\* The window is in its range only once it is written (OptionsAreComplete).
LEMMA WindowIsSettled ==
  ASSUME OptionsInv, DetermineWindow
  PROVE  OptionsInv'
<1> DEFINE c == cfg
           d == cfg'
<1>1. InitTypeInv' /\ pc = "window" /\ pc' = "rate"
  BY StepKeepsInitTypes DEF OptionsInv, Next, DetermineWindow, At
<1>2. \E window : d = [c EXCEPT !.windowSize = window]
  BY DEF DetermineWindow
<1>3. /\ c \in Config /\ Untouched(c) /\ LimitInRange(c) /\ UnusedAreEmpty(c)
      /\ c.stepSize \in 1 .. 60 /\ ~(c.totpAuth /\ c.hotpConfigured)
      /\ c.totpAuth \/ c.hotpConfigured
  BY <1>1 DEF OptionsInv, InitTypeInv, TypeOK
<1> HIDE DEF c, d
<1>4. /\ d.secret = c.secret /\ d.disallowed = c.disallowed /\ d.timeSkew = c.timeSkew
      /\ d.samples = c.samples /\ d.lastLogins = c.lastLogins
      /\ d.rateLimit = c.rateLimit /\ d.stepSize = c.stepSize
      /\ d.totpAuth = c.totpAuth /\ d.hotpConfigured = c.hotpConfigured
      /\ d.disallowReuse = c.disallowReuse
      /\ d.hotpCounter = c.hotpCounter /\ d.dirty = c.dirty
  BY <1>2, <1>3 DEF Config
<1>5. Untouched(d)
  BY <1>3, <1>4 DEF Untouched
<1>6. LimitInRange(d)
  BY <1>3, <1>4 DEF LimitInRange, HasRateLimit
<1>7. UnusedAreEmpty(d)
  BY <1>3, <1>4 DEF UnusedAreEmpty
<1>8. d.stepSize \in 1 .. 60 /\ ~(d.totpAuth /\ d.hotpConfigured)
      /\ (d.totpAuth \/ d.hotpConfigured)
  BY <1>3, <1>4
<1> QED
  BY <1>1, <1>5, <1>6, <1>7, <1>8 DEF OptionsInv, AfterOptions, d

\* The limits ggpam init allows are limits Parse allows.
LEMMA LimitIsSettled ==
  ASSUME OptionsInv, DetermineRateLimit
  PROVE  OptionsInv'
<1> DEFINE c == cfg
           d == cfg'
<1>1. InitTypeInv' /\ InitTypeInv /\ pc = "rate" /\ pc' = "generate"
  BY StepKeepsInitTypes DEF OptionsInv, Next, DetermineRateLimit, At
<1>2. PICK limit \in BOOLEAN :
        /\ Settled(RateIsOpen, ~opts.disableRate, limit)
        /\ d = [c EXCEPT !.rateLimit =
                   CASE ~limit -> NoRateLimit
                     [] limit /\ RateIsOpen -> Limit(3, 30)
                     [] OTHER -> Limit(opts.rateAttempts, opts.rateInterval)]
  BY DEF DetermineRateLimit
<1> DEFINE rate == CASE ~limit -> NoRateLimit
                     [] limit /\ RateIsOpen -> Limit(3, 30)
                     [] OTHER -> Limit(opts.rateAttempts, opts.rateInterval)
<1>3. /\ c \in Config /\ Untouched(c) /\ UnusedAreEmpty(c)
      /\ c.stepSize \in 1 .. 60 /\ ~(c.totpAuth /\ c.hotpConfigured)
      /\ c.totpAuth \/ c.hotpConfigured
  BY <1>1 DEF OptionsInv, InitTypeInv, TypeOK
<1>4. /\ opts.rateAttempts \in Int /\ opts.rateInterval \in Int
      /\ opts.disableRate \in BOOLEAN
      /\ opts.rateAttemptsGiven \in BOOLEAN /\ opts.rateIntervalGiven \in BOOLEAN
  BY <1>1, OptsType DEF Flags
<1>5. /\ rate.timestamps = << >>
      /\ rate.attempts > 0 => rate.interval > 0 /\ rate.interval <= 3600
      /\ rate.attempts <= 100 /\ rate.interval <= 3600
      /\ rate.attempts > 0 \/ rate = NoRateLimit
  <2>1. CASE ~limit
    BY <2>1 DEF NoRateLimit
  <2>2. CASE limit /\ RateIsOpen
    BY <2>2 DEF Limit
  <2>3. CASE limit /\ ~RateIsOpen
    <3>1. ~opts.disableRate /\ RateFlagsGiven
      BY <1>2, <1>4, <2>3 DEF Settled, RateIsOpen
    <3>2. ~RateFlagsRefused
      BY DEF DetermineRateLimit, At, Refused
    <3>3. /\ opts.rateAttempts \in 1 .. 10
          /\ opts.rateInterval \in 15 .. 600
      BY <1>4, <3>1, <3>2 DEF RateFlagsRefused
    <3>4. rate = Limit(opts.rateAttempts, opts.rateInterval)
      BY <2>3
    <3> HIDE DEF rate
    <3>5. /\ rate.timestamps = << >> /\ rate.attempts = opts.rateAttempts
          /\ rate.interval = opts.rateInterval
      BY <3>4 DEF Limit
    <3>6. rate.attempts > 0 /\ rate.attempts <= 100
      BY <3>3, <3>5
    <3> DEFINE interval == opts.rateInterval
    <3>7. interval \in 15 .. 600 /\ rate.interval = interval
      BY <3>3, <3>5
    <3> HIDE DEF interval
    <3>8. interval > 0 /\ interval <= 3600
      BY <3>7
    <3> QED
      BY <3>5, <3>6, <3>7, <3>8
  <2> QED
    BY <2>1, <2>2, <2>3
<1>6. d = [c EXCEPT !.rateLimit = rate]
  BY <1>2
<1> HIDE DEF c, d, rate
<1>7. /\ d.secret = c.secret /\ d.disallowed = c.disallowed /\ d.timeSkew = c.timeSkew
      /\ d.samples = c.samples /\ d.lastLogins = c.lastLogins
      /\ d.rateLimit = rate /\ d.stepSize = c.stepSize
      /\ d.totpAuth = c.totpAuth /\ d.hotpConfigured = c.hotpConfigured
      /\ d.disallowReuse = c.disallowReuse
      /\ d.hotpCounter = c.hotpCounter /\ d.dirty = c.dirty
  BY <1>3, <1>6 DEF Config
<1>8. Untouched(d)
  BY <1>3, <1>5, <1>7 DEF Untouched
<1>9. LimitInRange(d)
  BY <1>5, <1>7 DEF LimitInRange, HasRateLimit
<1>10. UnusedAreEmpty(d)
  BY <1>3, <1>7 DEF UnusedAreEmpty
<1>11. d.stepSize \in 1 .. 60 /\ ~(d.totpAuth /\ d.hotpConfigured)
       /\ (d.totpAuth \/ d.hotpConfigured)
  BY <1>3, <1>7
<1> QED
  BY <1>1, <1>8, <1>9, <1>10, <1>11 DEF OptionsInv, AfterOptions, d

\* Before it writes, ggpam init refuses what it has not asked for (validate).
LEMMA OptionsAreComplete ==
  ASSUME OptionsInv, Generate
  PROVE  OptionsInv'
<1> DEFINE c == cfg
           d == cfg'
<1>1. InitTypeInv' /\ InitTypeInv /\ pc = "generate"
  BY StepKeepsInitTypes DEF OptionsInv, Next, Generate, At
<1>2. PICK codes : d = [c EXCEPT !.stepSize = opts.step, !.scratch = codes]
  BY DEF Generate
<1>3. /\ c \in Config /\ Untouched(c) /\ LimitInRange(c) /\ UnusedAreEmpty(c)
      /\ ~(c.totpAuth /\ c.hotpConfigured)
      /\ c.totpAuth \/ c.hotpConfigured
  BY <1>1 DEF OptionsInv, InitTypeInv, TypeOK
<1>4. opts.step \in 1 .. 60 /\ c.windowSize \in 1 .. 21
  BY <1>1 DEF Generate, At, Refused, OutOfRange
<1>5. pc' = "confirm" => c.totpAuth
  BY DEF Generate, LetsTryCode, BeforeWriting, useTOTP
<1>6. pc' \in {"confirm", "update", "write"}
  BY DEF Generate, BeforeWriting
<1> HIDE DEF c, d
<1>7. /\ d.secret = c.secret /\ d.disallowed = c.disallowed /\ d.timeSkew = c.timeSkew
      /\ d.samples = c.samples /\ d.lastLogins = c.lastLogins
      /\ d.rateLimit = c.rateLimit /\ d.stepSize = opts.step
      /\ d.windowSize = c.windowSize
      /\ d.totpAuth = c.totpAuth /\ d.hotpConfigured = c.hotpConfigured
      /\ d.disallowReuse = c.disallowReuse
      /\ d.hotpCounter = c.hotpCounter /\ d.dirty = c.dirty
  BY <1>2, <1>3 DEF Config
<1>8. Untouched(d)
  BY <1>3, <1>7 DEF Untouched
<1>9. LimitInRange(d)
  BY <1>3, <1>7 DEF LimitInRange, HasRateLimit
<1>10. UnusedAreEmpty(d)
  BY <1>3, <1>7 DEF UnusedAreEmpty
<1>11. /\ d.stepSize \in 1 .. 60 /\ ~(d.totpAuth /\ d.hotpConfigured)
       /\ (d.totpAuth \/ d.hotpConfigured)
       /\ d.windowSize \in 1 .. 21 /\ (pc' = "confirm" => d.totpAuth)
  BY <1>3, <1>4, <1>5, <1>7
<1> QED
  BY <1>1, <1>6, <1>8, <1>9, <1>10, <1>11 DEF OptionsInv, d

\* The other steps leave the options alone.
LEMMA StepKeepsOptions ==
  ASSUME OptionsInv, [Next]_vars
  PROVE  OptionsInv'
<1>1. InitTypeInv'
  BY StepKeepsInitTypes DEF OptionsInv
<1>2. CASE DetermineMode
  BY <1>2, ModeIsSettled
<1>3. CASE DetermineReuse
  BY <1>3, ReuseIsSettled
<1>4. CASE DetermineWindow
  BY <1>4, WindowIsSettled
<1>5. CASE DetermineRateLimit
  BY <1>5, LimitIsSettled
<1>6. CASE Generate
  BY <1>6, OptionsAreComplete
<1>7. CASE Write
  BY <1>1, <1>7 DEF OptionsInv, Write, At, AfterOptions
<1>8. CASE \/ Refuse \/ Break \/ Start \/ Finished \/ UNCHANGED vars
           \/ TryCode \/ SkipCode \/ CodeFails \/ AskAgain \/ AskToWrite
  <2>1. UNCHANGED <<cfg, file>>
    BY <1>8 DEF Refuse, Break, Start, Finished, vars, TryCode, SkipCode, CodeFails,
                AskAgain, AskToWrite
  <2>2. \/ pc' = pc \/ pc' \in {"failed", "mode", "cancelled"}
        \/ pc \in {"confirm", "update"} /\ pc' \in {"update", "write"}
    BY <1>8 DEF Refuse, Break, Start, Finished, vars, TryCode, SkipCode, CodeFails,
                AskAgain, AskToWrite, BeforeWriting, CodeIs, At
  <2> QED
    BY <1>1, <2>1, <2>2 DEF OptionsInv, AfterOptions
<1> QED
  BY <1>2, <1>3, <1>4, <1>5, <1>6, <1>7, <1>8 DEF Next

\* The options of ggpam init, whatever flags and input it is given.
THEOREM OptionsInvariant == Spec => []OptionsInv
<1>1. Init => OptionsInv
  BY OptionsStart
<1>2. OptionsInv /\ [Next]_vars => OptionsInv'
  BY StepKeepsOptions
<1> QED
  BY <1>1, <1>2, PTL DEF Spec

\* Every file that ggpam init writes, whatever flags and answers it is given, is
\* one that Parse reads as what was meant, with one way to log in (init.go,
\* Bytes, Parse).
THEOREM WrittenFilesLoad == Spec => []FilesLoad
<1>1. OptionsInv => FilesLoad
  <2> DEFINE c == cfg
  <2> SUFFICES ASSUME OptionsInv, pc = "written"
               PROVE  Parse(file) = Parsed(c) /\ Mode(Parse(file).cfg) \in {"totp", "hotp"}
    BY DEF FilesLoad
  <2>1. /\ c \in Config /\ Untouched(c) /\ LimitInRange(c) /\ UnusedAreEmpty(c)
        /\ c.stepSize \in 1 .. 60 /\ c.windowSize \in 1 .. 21
        /\ c.totpAuth \/ c.hotpConfigured
        /\ file = Bytes(c)
    BY DEF OptionsInv, InitTypeInv, TypeOK, AfterOptions
  <2> HIDE DEF c
  <2>2. Parse(file) = Parsed(c)
    BY <2>1, UntouchedInRange
  <2>3. Parse(file).cfg = c
    BY <2>2 DEF Parsed
  <2> QED
    BY <2>1, <2>2, <2>3 DEF Mode
<1> QED
  BY <1>1, OptionsInvariant, PTL

-----------------------------------------------------------------------------
(*****************************************************************************)
(* Confirming a code.                                                        *)
(*****************************************************************************)

\* The codes that were tried.
TriedInv ==
  /\ OptionsInv
  /\ tried # {} => pc \in AfterOptions \union Ends
                  /\ cfg.totpAuth /\ cfg.windowSize \in 1 .. 21
  /\ \A t \in tried : /\ t.code \in SixDigitCodes /\ t.now \in Times
                      /\ t.ok <=> Confirms(t.code, t.now)

\* A code is tried with the options that are written later.
LEMMA StepKeepsTried ==
  ASSUME TriedInv, [Next]_vars
  PROVE  TriedInv'
<1>1. OptionsInv'
  BY StepKeepsOptions DEF TriedInv
<1>2. CASE UNCHANGED tried /\ tried = {}
  BY <1>1, <1>2 DEF TriedInv
<1>3. CASE UNCHANGED <<tried, cfg>> /\ (pc \in AfterOptions \union Ends => pc' \in AfterOptions \union Ends)
  <2>1. \A code, now : Confirms(code, now)' <=> Confirms(code, now)
    BY <1>3 DEF Confirms
  <2> QED
    BY <1>1, <1>3, <2>1 DEF TriedInv
<1>4. CASE \/ Start \/ DetermineMode \/ DetermineReuse \/ DetermineWindow
           \/ DetermineRateLimit \/ Generate
  <2>1. UNCHANGED tried
    BY <1>4 DEF Start, DetermineMode, DetermineReuse, DetermineWindow,
                DetermineRateLimit, Generate
  <2>2. pc \notin AfterOptions \union Ends
    BY <1>4 DEF Start, DetermineMode, DetermineReuse, DetermineWindow,
                DetermineRateLimit, Generate, At, AfterOptions, Ends
  <2> QED
    BY <1>2, <2>1, <2>2 DEF TriedInv
<1>5. CASE \/ Refuse \/ Break \/ SkipCode \/ CodeFails \/ AskAgain \/ AskToWrite
           \/ Write \/ Finished \/ UNCHANGED vars
  <2>1. UNCHANGED <<tried, cfg>>
    BY <1>5 DEF Refuse, Break, SkipCode, CodeFails, AskAgain, AskToWrite, Write,
                Finished, vars
  <2>2. pc' \in AfterOptions \union Ends \/ pc' = pc
    BY <1>5 DEF Refuse, Break, SkipCode, CodeFails, AskAgain, AskToWrite, Write,
                Finished, vars, BeforeWriting, AfterOptions, Ends
  <2> QED
    BY <1>3, <2>1, <2>2
<1>6. CASE TryCode
  <2>1. PICK now \in Times :
          tried' = tried \union {[code |-> NextLine("codes").code, now |-> now,
                                  ok |-> Confirms(NextLine("codes").code, now)]}
    BY <1>6 DEF TryCode
  <2>2. NextLine("codes").code \in SixDigitCodes
    <3>1. NextLine("codes") \in Lines
      BY <1>6, ReadersAreTyped, ConsumeTypes DEF TriedInv, OptionsInv, TryCode, CodeIs, Readers
    <3>2. NextLine("codes").kind = "six"
      BY <1>6 DEF TryCode, CodeIs
    <3> QED
      BY <3>1, <3>2 DEF Lines
  <2>3. UNCHANGED cfg /\ pc = "confirm" /\ pc' \in AfterOptions
    BY <1>6 DEF TryCode, CodeIs, BeforeWriting, AfterOptions
  <2>4. \A code, time : Confirms(code, time)' <=> Confirms(code, time)
    BY <2>3 DEF Confirms
  <2>5. cfg.totpAuth /\ cfg.windowSize \in 1 .. 21
    BY <2>3 DEF TriedInv, OptionsInv, AfterOptions
  <2> DEFINE code == NextLine("codes").code
             ok == Confirms(code, now)
  <2>6. ok \in BOOLEAN
    BY DEF Confirms
  <2>7. ASSUME NEW t \in tried'
        PROVE  /\ t.code \in SixDigitCodes /\ t.now \in Times
               /\ t.ok <=> Confirms(t.code, t.now)
    <3>1. CASE t \in tried
      BY <3>1 DEF TriedInv
    <3>2. CASE t = [code |-> code, now |-> now, ok |-> ok]
      <4> HIDE DEF code
      <4>1. t.code = code /\ t.now = now /\ t.ok = ok
        BY <3>2
      <4> QED
        BY <2>2, <4>1 DEF code
    <3> QED
      BY <2>1, <3>1, <3>2
  <2> QED
    BY <1>1, <2>3, <2>4, <2>5, <2>7 DEF TriedInv
<1> QED
  BY <1>4, <1>5, <1>6 DEF Next

\* Whatever code is typed, and at whatever time, ggpam init confirms it if and
\* only if the verifier accepts it with the file that is then written: the search
\* of one and of the other, after the way through the file, is the same
\* (confirmCode, VerifyCode).
THEOREM ConfirmationIsVerdict == Spec => []ConfirmationAgrees
<1>1. Init => TriedInv
  BY OptionsStart DEF Init, TriedInv
<1>2. TriedInv /\ [Next]_vars => TriedInv'
  BY StepKeepsTried
<1>3. TriedInv => ConfirmationAgrees
  <2> DEFINE c == cfg
  <2>1. SUFFICES ASSUME TriedInv, NEW t \in tried, NEW o \in VerifyOptions,
                        o.disableSkewAdjustment
                 PROVE  t.ok <=> VerifyCode(Parse(Bytes(c)).cfg,
                                            [kind |-> "six", code |-> t.code],
                                            o, t.now).result = "totp"
    BY DEF ConfirmationAgrees
  <2>2. /\ c \in Config /\ Untouched(c) /\ LimitInRange(c) /\ UnusedAreEmpty(c)
        /\ c.stepSize \in 1 .. 60 /\ c.windowSize \in 1 .. 21
        /\ c.totpAuth /\ ~c.hotpConfigured
    BY <2>1 DEF TriedInv, OptionsInv, InitTypeInv, TypeOK
  <2>3. t.code \in SixDigitCodes /\ t.now \in Nat /\ (t.ok <=> Confirms(t.code, t.now))
    BY <2>1, InitAssumption DEF TriedInv
  <2>4. c.timeSkew = 0
    BY <2>2 DEF Untouched
  <2>5. Confirms(t.code, t.now)
          <=> \E counter \in t.now \div Step(c) - (Window(c) - 1) \div 2
                               .. t.now \div Step(c) + Window(c) \div 2 :
                counter >= 0 /\ Compute(counter) = t.code
    BY <2>2, <2>3, <2>4, ConfirmsInWindow
  <2> HIDE DEF c
  <2>6. Parse(Bytes(c)).cfg = c
    BY <2>2, UntouchedInRange DEF Parsed
  <2>7. VerifyCode(c, [kind |-> "six", code |-> t.code], o, t.now).result = "totp"
          <=> \E counter \in t.now \div Step(c) - (Window(c) - 1) \div 2
                               .. t.now \div Step(c) + Window(c) \div 2 :
                counter >= 0 /\ Compute(counter) = t.code
    BY <2>1, <2>2, <2>3, FreshVerdict
  <2> QED
    BY <2>3, <2>5, <2>6, <2>7
<1> QED
  BY <1>1, <1>2, <1>3, PTL DEF Spec
=============================================================================
