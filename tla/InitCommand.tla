---------------------------- MODULE InitCommand ----------------------------
(***************************************************************************)
(* cmd/cli/init.go: ggpam init settles the options of a new secret file    *)
(* from its flags and, where they leave something open, from questions on  *)
(* the standard input, lets the user try a code, and writes the file.      *)
(*                                                                         *)
(* Two buffered readers share the standard input: the one of               *)
(* util.PromptYesNo, for answers, and one that confirmCode makes for       *)
(* codes.  A read of an empty buffer takes one line from a terminal, and   *)
(* from a pipe whatever has arrived.                                       *)
(*                                                                         *)
(* Abstractions.  A line is what it means to its readers.  The label, the  *)
(* issuer and the QR code are only shown.  Flags are integers already, and *)
(* the interval of the limiter whole seconds.                              *)
(***************************************************************************)
EXTENDS Authenticator, ConfigFile

CONSTANTS
  Calls,   \* flags and standard input of the runs of the command
  Files,   \* what may be at the path before
  Times    \* when a code is tried

Flags ==
  [ force : BOOLEAN, mode : {"", "totp", "hotp", "other"},
    timeBased : BOOLEAN, counterBased : BOOLEAN, step : Int,
    windowSize : Int, minimalWindow : BOOLEAN,
    rateAttempts : Int, rateAttemptsGiven : BOOLEAN,
    rateInterval : Int, rateIntervalGiven : BOOLEAN,
    disableRate : BOOLEAN, scratch : Int,
    disallow : BOOLEAN, allowReuse : BOOLEAN,
    quiet : BOOLEAN, confirm : BOOLEAN, noConfirm : BOOLEAN ]

Lines == [kind : {"yes", "no", "skip", "blank", "other"}]
           \union [kind : {"six"}, code : SixDigitCodes]

ASSUME InitAssumption ==
  /\ Calls \subseteq [opts : Flags, terminal : BOOLEAN, typed : Seq(Lines)]
  /\ Times \subseteq Nat

VARIABLES
  call,    \* this run of the command: its flags, its input
  pc,      \* what runInit does next
  input,   \* the lines that no reader has taken yet
  ahead,   \* reader |-> the lines in its buffer
  cfg,     \* the Config under construction
  tried,   \* history: the codes tried, when, and what confirmCode said
  file     \* the lines of the secret file

stdin == <<input, ahead>>
vars == <<call, pc, input, ahead, cfg, tried, file>>

Readers == {"answers", "codes"}
Ends == {"failed", "cancelled", "written"}
PCs == {"start", "mode", "reuse", "window", "rate", "generate", "confirm",
        "update", "write"} \union Ends

opts == call.opts

maxScratchCodes == 10
WideWindow == 17
FirstHOTPCounter == 1

Init ==
  /\ call \in Calls
  /\ pc = "start"
  /\ input = call.typed
  /\ ahead = [r \in Readers |-> << >>]
  /\ cfg = NewConfig("valid")
  /\ tried = {}
  /\ file \in Files

-----------------------------------------------------------------------------
(***************************************************************************)
(* Reading lines.                                                          *)
(***************************************************************************)

AtEOF(r) == ahead[r] \o input = << >>

NextLine(r) == Head(ahead[r] \o input)

\* How many lines the system call brings that an empty buffer makes.
LinesPerRead == IF call.terminal THEN {1} ELSE 1 .. Len(input)

\* Reader r hands out NextLine(r).
Consume(r) ==
  /\ ~AtEOF(r)
  /\ \E n \in IF ahead[r] = << >> THEN LinesPerRead ELSE {0} :
       /\ ahead' = [ahead EXCEPT ![r] = Tail(@ \o SubSeq(input, 1, n))]
       /\ input' = SubSeq(input, n + 1, Len(input))

\* Mutant: a question left without an answer is answered with yes.
AnsweredMutant(yes) ==
  \/ /\ AtEOF("answers")
     /\ yes
     /\ UNCHANGED stdin
  \/ /\ Consume("answers")
     /\ NextLine("answers").kind = IF yes THEN "yes" ELSE "no"

\* PromptYesNo returns: the end of the input is a no.
Answered(yes) ==
  \/ /\ AtEOF("answers")
     /\ ~yes
     /\ UNCHANGED stdin
  \/ /\ Consume("answers")
     /\ NextLine("answers").kind = IF yes THEN "yes" ELSE "no"

\* A question is put only if the flags leave it open.
Settled(open, flag, yes) ==
  IF open THEN Answered(yes) ELSE yes = flag /\ UNCHANGED stdin

-----------------------------------------------------------------------------
(***************************************************************************)
(* What the flags say.                                                     *)
(***************************************************************************)

RequestedMode ==
  CASE opts.counterBased -> "hotp"
    [] ~opts.counterBased /\ opts.timeBased -> "totp"
    [] OTHER -> opts.mode

useTOTP == cfg.totpAuth

ReuseIsOpen == useTOTP /\ ~opts.disallow /\ ~opts.allowReuse

\* Mutant: only a window of zero is taken for one that was not given.
WindowIsOpenMutant == ~opts.minimalWindow /\ opts.windowSize = 0

WindowIsOpen == ~opts.minimalWindow /\ opts.windowSize <= 0

FlagWindow ==
  CASE opts.minimalWindow /\ useTOTP -> Max({3, opts.windowSize})
    [] opts.minimalWindow /\ ~useTOTP -> 1
    [] OTHER -> opts.windowSize

RateFlagsGiven == opts.rateAttemptsGiven /\ opts.rateIntervalGiven

RateIsOpen == ~opts.disableRate /\ ~RateFlagsGiven

\* Mutant: the longest interval is not checked.
RateFlagsRefusedMutant ==
  /\ ~opts.disableRate
  /\ \/ opts.rateAttemptsGiven # opts.rateIntervalGiven
     \/ RateFlagsGiven /\ ~(opts.rateAttempts \in 1 .. 10 /\ opts.rateInterval >= 15)

RateFlagsRefused ==
  /\ ~opts.disableRate
  /\ \/ opts.rateAttemptsGiven # opts.rateIntervalGiven
     \/ opts.rateAttempts \notin 0 .. 10
     \/ opts.rateInterval < 0
     \/ /\ RateFlagsGiven
        /\ opts.rateInterval \notin 15 .. 600 \/ opts.rateAttempts < 1

OutOfRange ==
  \/ opts.step \notin 1 .. 60
  \/ cfg.windowSize \notin 1 .. 21
  \/ opts.scratch \notin 0 .. maxScratchCodes

\* The flags contradict each other, or what was chosen, or are out of range.
Refused ==
  \/ pc = "start" /\ opts.allowReuse /\ opts.disallow
  \/ pc = "start" /\ opts.counterBased /\ opts.timeBased
  \/ pc = "mode" /\ RequestedMode = "other"
  \/ pc = "reuse" /\ ~useTOTP /\ (opts.disallow \/ opts.allowReuse)
  \/ pc = "rate" /\ RateFlagsRefused
  \/ pc = "generate" /\ OutOfRange

-----------------------------------------------------------------------------
(***************************************************************************)
(* The steps of runInit, each with the question it may put.                *)
(***************************************************************************)

At(step) == pc = step /\ ~Refused

Refuse ==
  /\ Refused
  /\ pc' = "failed"
  /\ UNCHANGED <<call, stdin, cfg, tried, file>>

\* No home directory, no randomness, or a file system that refuses.
Break ==
  /\ pc \in {"start", "generate", "write"}
  /\ pc' = "failed"
  /\ UNCHANGED <<call, stdin, cfg, tried, file>>

Start ==
  /\ At("start")
  /\ pc' = "mode"
  /\ UNCHANGED <<call, stdin, cfg, tried, file>>

DetermineMode ==
  /\ At("mode")
  /\ \E totp \in BOOLEAN :
       /\ Settled(RequestedMode = "", RequestedMode = "totp", totp)
       /\ cfg' = [cfg EXCEPT !.totpAuth = totp, !.hotpConfigured = ~totp,
                             !.hotpCounter = IF totp THEN 0 ELSE FirstHOTPCounter]
  /\ pc' = "reuse"
  /\ UNCHANGED <<call, tried, file>>

DetermineReuse ==
  /\ At("reuse")
  /\ \E disallow \in BOOLEAN :
       /\ Settled(ReuseIsOpen, opts.disallow, disallow)
       /\ cfg' = [cfg EXCEPT !.disallowReuse = disallow]
  /\ pc' = "window"
  /\ UNCHANGED <<call, tried, file>>

DetermineWindow ==
  /\ At("window")
  /\ \E wide \in BOOLEAN :
       /\ Settled(WindowIsOpen, FALSE, wide)
       /\ cfg' = [cfg EXCEPT !.windowSize =
                    CASE ~WindowIsOpen -> FlagWindow
                      [] WindowIsOpen /\ wide -> WideWindow
                      [] OTHER -> DefaultWindow]
  /\ pc' = "rate"
  /\ UNCHANGED <<call, tried, file>>

Limit(attempts, interval) ==
  [attempts |-> attempts, interval |-> interval, timestamps |-> << >>]

DetermineRateLimit ==
  /\ At("rate")
  /\ \E limit \in BOOLEAN :
       /\ Settled(RateIsOpen, ~opts.disableRate, limit)
       /\ cfg' = [cfg EXCEPT !.rateLimit =
                    CASE ~limit -> NoRateLimit
                      [] limit /\ RateIsOpen -> Limit(3, 30)
                      [] OTHER -> Limit(opts.rateAttempts, opts.rateInterval)]
  /\ pc' = "generate"
  /\ UNCHANGED <<call, tried, file>>

\* To the question whether to write, or past it.
BeforeWriting == IF opts.force THEN "write" ELSE "update"

LetsTryCode == ~opts.quiet /\ ~opts.noConfirm /\ opts.confirm /\ useTOTP

\* Random scratch codes may repeat.
Generate ==
  /\ At("generate")
  /\ \E codes \in [ScratchCodes -> 0 .. opts.scratch] :
       /\ MapThenSumSet(LAMBDA code : codes[code], ScratchCodes) = opts.scratch
       /\ cfg' = [cfg EXCEPT !.stepSize = opts.step, !.scratch = codes]
  /\ pc' = IF LetsTryCode THEN "confirm" ELSE BeforeWriting
  /\ UNCHANGED <<call, stdin, tried, file>>

-----------------------------------------------------------------------------
(***************************************************************************)
(* confirmCode and validateTOTPInput.                                      *)
(***************************************************************************)

\* Mutant: an even window extends to the past instead of the future.
ConfirmsMutant(code, now) ==
  \E offset \in -(Window(cfg) \div 2) .. (Window(cfg) - 1) \div 2 :
    LET value == now \div Step(cfg) + offset
    IN  value >= 0 /\ Compute(value) = code

Confirms(code, now) ==
  LET base == Max({now \div Step(cfg) + cfg.timeSkew, 0})
  IN  \E offset \in -((Window(cfg) - 1) \div 2) .. Window(cfg) \div 2 :
        base + offset >= 0 /\ Compute(base + offset) = code

CodeIs(kinds) ==
  pc = "confirm" /\ Consume("codes") /\ NextLine("codes").kind \in kinds

TryCode ==
  /\ CodeIs({"six"})
  /\ \E now \in Times :
       LET code == NextLine("codes").code
       IN  /\ tried' = tried \union
                         {[code |-> code, now |-> now, ok |-> Confirms(code, now)]}
           /\ pc' = IF Confirms(code, now) THEN BeforeWriting ELSE "confirm"
  /\ UNCHANGED <<call, cfg, file>>

SkipCode ==
  /\ CodeIs({"skip"})
  /\ pc' = BeforeWriting
  /\ UNCHANGED <<call, cfg, tried, file>>

\* The input ends, or the line is neither a code nor empty.
CodeFails ==
  /\ \/ pc = "confirm" /\ AtEOF("codes") /\ UNCHANGED stdin
     \/ CodeIs({"yes", "no", "other"})
  /\ pc' = "failed"
  /\ UNCHANGED <<call, cfg, tried, file>>

-----------------------------------------------------------------------------
QuestionIsPut ==
  \/ At("mode") /\ RequestedMode = ""
  \/ At("reuse") /\ ReuseIsOpen
  \/ At("window") /\ WindowIsOpen
  \/ At("rate") /\ RateIsOpen
  \/ At("update")

\* Mutant: the line is read once, before the loop.
AskAgainMutant ==
  \/ /\ QuestionIsPut
     /\ ~AtEOF("answers")
     /\ NextLine("answers").kind \notin {"yes", "no"}
     /\ UNCHANGED vars
  \/ /\ CodeIs({"blank"})
     /\ UNCHANGED <<call, pc, cfg, tried, file>>

\* A line that is no answer, or an empty line instead of a code.
AskAgain ==
  /\ \/ /\ QuestionIsPut
        /\ Consume("answers")
        /\ NextLine("answers").kind \notin {"yes", "no"}
     \/ CodeIs({"blank"})
  /\ UNCHANGED <<call, pc, cfg, tried, file>>

AskToWrite ==
  /\ At("update")
  /\ \E yes \in BOOLEAN : Answered(yes) /\ pc' = IF yes THEN "write" ELSE "cancelled"
  /\ UNCHANGED <<call, cfg, tried, file>>

Write ==
  /\ At("write")
  /\ file' = Bytes(cfg)
  /\ pc' = "written"
  /\ UNCHANGED <<call, stdin, cfg, tried>>

Finished == pc \in Ends /\ UNCHANGED vars

Next ==
  \/ Refuse
  \/ Break
  \/ Start
  \/ DetermineMode
  \/ DetermineReuse
  \/ DetermineWindow
  \/ DetermineRateLimit
  \/ Generate
  \/ TryCode
  \/ SkipCode
  \/ CodeFails
  \/ AskAgain
  \/ AskToWrite
  \/ Write
  \/ Finished

Spec == Init /\ [][Next]_vars

\* The lines are there, and the command is scheduled.
FairSpec == Spec /\ WF_vars(Next)

-----------------------------------------------------------------------------
\* The Config under construction and the readers keep their types: whatever
\* the flags, no option ends up outside what the rest of the program expects.
TypeOK ==
  /\ pc \in PCs
  /\ cfg \in Config
  /\ input \in Seq(Lines)
  /\ ahead \in [Readers -> Seq(Lines)]

\* The ranges ggpam init allows are within those Parse allows, and a file it
\* wrote has all that was chosen: the user is never left with a secret file
\* that every login refuses.
FilesLoad ==
  pc = "written" => /\ Parse(file) = Parsed(cfg)
                    /\ Mode(Parse(file).cfg) \in {"totp", "hotp"}

\* confirmCode has a window search of its own.  It says of a code what the
\* verifier says of it at the same time, reading the file that is written.
ConfirmationAgrees ==
  \A t \in tried, o \in VerifyOptions :
    o.disableSkewAdjustment =>
      LET verdict == VerifyCode(Parse(Bytes(cfg)).cfg,
                                [kind |-> "six", code |-> t.code], o, t.now)
      IN  t.ok <=> verdict.result = "totp"

\* A secret file is replaced only on --force or on a yes: not because the
\* input ended, nor because a line was read by the wrong reader.
NoYesNoFile ==
  (~opts.force /\ \A i \in DOMAIN call.typed : call.typed[i].kind # "yes")
    => pc \notin {"write", "written"}

\* The command ends, whatever is typed: no question is put for ever.
InitEnds == <>(pc \in Ends)

\* README.md on --no-confirm: "skip the confirmation to write the file (for
\* automation)".
NoConfirmNeverAsks == opts.noConfirm => pc # "update"
=============================================================================
