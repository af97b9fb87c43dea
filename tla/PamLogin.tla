------------------------------ MODULE PamLogin ------------------------------
(***************************************************************************)
(* The PAM module: concurrent logins of one user, each a runPamAuth that   *)
(* loads the user's secret file, asks for a code, verifies it against the  *)
(* configuration in its memory and replaces the file (cmd/pam/main.go,     *)
(* pkg/pam/config.go).  The user may replace or remove the file meanwhile, *)
(* writes may fail, a login may be killed between any two steps, and the   *)
(* power may fail.                                                         *)
(*                                                                         *)
(* Abstractions.  Every writer of the file writes a private temporary and  *)
(* renames it, so an inode has one content for ever: contents is the list  *)
(* of the inodes that were ever put in place, dir the position of the one  *)
(* the path names now.  That position stands for the FileState, whose      *)
(* inode number and modification time differ between any two of them.      *)
(* What a login does in its own memory between two accesses to the file is *)
(* one step and reads the clock once.  A login's arguments, account and    *)
(* privileges are settled before it starts; its template is rendered.      *)
(* "authErr" stands for every answer that refuses the login.               *)
(***************************************************************************)
EXTENDS Authenticator

CONSTANTS
  Sessions,       \* the logins, each of which happens once
  InitialConfigs, \* what the secret file may hold at the start
  OwnerConfigs,   \* what its owner may replace it with
  TypedTokens,    \* what users may answer to the prompt
  Params,         \* the module's arguments
  StartTimes, ClockSteps,
  Malformed,      \* a file that Parse or validateSecretFile rejects
  WriteErrors,    \* how a write may fail
  PowerFails,     \* whether the power may fail
  MaxTime,        \* bound on the clock
  MaxInodes       \* bound on the replacements of the file

WriteErrorKinds == {"denied", "failed"}

ASSUME LoginAssumption ==
  /\ IsFiniteSet(Sessions)
  /\ Malformed \notin Config
  /\ InitialConfigs \subseteq Config \union {Malformed}
  /\ OwnerConfigs \subseteq Config \union {Malformed}
  /\ TypedTokens \subseteq Tokens
  /\ \A token \in TypedTokens : token.kind # "blank"
  /\ Params \in [nullOK : BOOLEAN, gracePeriod : Nat, noSkewAdjust : BOOLEAN,
                 noIncrementHOTP : BOOLEAN, allowReadonly : BOOLEAN]
  /\ StartTimes \subseteq 0 .. MaxTime
  /\ ClockSteps \subseteq Int
  /\ WriteErrors \subseteq WriteErrorKinds
  /\ PowerFails \in BOOLEAN
  /\ MaxTime \in Nat
  /\ MaxInodes \in Nat

VARIABLES
  now,        \* the clock, in seconds
  contents,   \* inode |-> the configuration in it, or Malformed
  dir,        \* the inode the path names, or NoFile
  durable,    \* what the path may name if the power fails
  pc,         \* where each login is
  fd,         \* the inode a login opened
  mem,        \* the Config in a login's memory
  host,       \* PAM_RHOST
  verdict,    \* what was decided about a login, on which code, and when
  rc,         \* the answer to the application
  raced,      \* history: the file was replaced while a login was between its
              \* last look at it and its rename
  edited      \* history: the owner replaced or removed the file

file == <<contents, dir, durable>>
locals == <<pc, fd, mem, host, verdict, rc>>
history == <<raced, edited>>
vars == <<now, file, locals, history>>

NoFile == 0

Codes == [type : {"hotp", "totp"}, number : Int]
           \union [type : {"scratch"}, number : ScratchCodes]
           \union [type : Failures \union {"none", "grace"}, number : {0}]

Verdicts == [code : Codes, when : Int]

NoVerdict == [code |-> [type |-> "none", number |-> 0], when |-> 0]

PCs == {"start", "lock", "load", "decide", "prompt", "persist", "publish",
        "syncDir", "done", "killed"}

Answers == {"none", "success", "ignore", "authErr"}

TypeOK ==
  /\ now \in Nat
  /\ contents \in Seq(Config \union {Malformed})
  /\ dir \in {NoFile} \union DOMAIN contents
  /\ durable \subseteq {NoFile} \union DOMAIN contents
  /\ pc \in [Sessions -> PCs]
  /\ fd \in [Sessions -> {NoFile} \union DOMAIN contents]
  /\ mem \in [Sessions -> Config]
  /\ host \in [Sessions -> Hosts \union {NoHost}]
  /\ verdict \in [Sessions -> Verdicts]
  /\ rc \in [Sessions -> Answers]
  /\ raced \in BOOLEAN
  /\ edited \in BOOLEAN

\* Mutant: the file stays locked until the login is over.
LockedMutant(inode) ==
  \E s \in Sessions : pc[s] \notin {"start", "lock"} /\ fd[s] = inode

\* A login holds the lock from flock until LoadConfig closes the file.
Locked(inode) == \E s \in Sessions : pc[s] = "load" /\ fd[s] = inode

\* A login that compared the file with the one it read and not yet renamed.
AboutToPublish == {s \in Sessions : pc[s] = "publish"}

EmptyConfig ==
  [ secret |-> "missing", scratch |-> [code \in ScratchCodes |-> 0],
    totpAuth |-> FALSE, hotpConfigured |-> FALSE, hotpCounter |-> 0,
    stepSize |-> DefaultStepSize, windowSize |-> DefaultWindow,
    disallowReuse |-> FALSE, disallowed |-> {},
    rateLimit |-> NoRateLimit, timeSkew |-> 0, samples |-> << >>,
    lastLogins |-> [i \in Slots |-> NoLogin], dirty |-> FALSE ]

Init ==
  /\ now \in StartTimes
  /\ \E c \in InitialConfigs : contents = <<c>>
  /\ dir = 1
  /\ durable = {1}
  /\ pc = [s \in Sessions |-> "start"]
  /\ fd = [s \in Sessions |-> NoFile]
  /\ mem = [s \in Sessions |-> EmptyConfig]
  /\ host = [s \in Sessions |-> NoHost]
  /\ verdict = [s \in Sessions |-> NoVerdict]
  /\ rc = [s \in Sessions |-> "none"]
  /\ raced = FALSE
  /\ edited = FALSE

Goto(s, place) ==
  /\ pc' = [pc EXCEPT ![s] = place]
  /\ UNCHANGED <<fd, rc>>

\* The call returns: what it held in memory is gone.
Answer(s, a) ==
  /\ pc' = [pc EXCEPT ![s] = "done"]
  /\ rc' = [rc EXCEPT ![s] = a]
  /\ fd' = [fd EXCEPT ![s] = NoFile]
  /\ mem' = [mem EXCEPT ![s] = EmptyConfig]

Remember(s, c) == mem' = [mem EXCEPT ![s] = c]

Decide(s, type, number) ==
  verdict' = [verdict EXCEPT ![s] =
                [code |-> [type |-> type, number |-> number], when |-> now]]

-----------------------------------------------------------------------------
(***************************************************************************)
(* Reading the file: LoadConfig.                                           *)
(***************************************************************************)

Open(s) ==
  /\ pc[s] = "start"
  /\ dir # NoFile
  /\ \E h \in Hosts \union {NoHost} : host' = [host EXCEPT ![s] = h]
  /\ fd' = [fd EXCEPT ![s] = dir]
  /\ pc' = [pc EXCEPT ![s] = "lock"]
  /\ UNCHANGED <<now, file, mem, verdict, rc, history>>

OpenNothing(s) ==
  /\ pc[s] = "start"
  /\ dir = NoFile
  /\ Answer(s, IF Params.nullOK THEN "ignore" ELSE "authErr")
  /\ UNCHANGED <<now, file, host, verdict, history>>

Lock(s) ==
  /\ pc[s] = "lock"
  /\ ~Locked(fd[s])
  /\ Goto(s, "load")
  /\ UNCHANGED <<now, file, mem, host, verdict, history>>

Load(s) ==
  /\ pc[s] = "load"
  /\ contents[fd[s]] # Malformed
  /\ Remember(s, contents[fd[s]])
  /\ Goto(s, "decide")
  /\ UNCHANGED <<now, file, host, verdict, history>>

LoadFails(s) ==
  /\ pc[s] = "load"
  /\ contents[fd[s]] = Malformed
  /\ Answer(s, "authErr")
  /\ UNCHANGED <<now, file, host, verdict, history>>

-----------------------------------------------------------------------------
(***************************************************************************)
(* Deciding: the grace period, or a code.                                  *)
(***************************************************************************)

InGrace(s) == WithinGracePeriod(mem[s], host[s], Params.gracePeriod, now)

Grace(s) ==
  /\ pc[s] = "decide"
  /\ InGrace(s)
  /\ \E c \in UpdateLoginRecord(mem[s], host[s], now) : Remember(s, c)
  /\ Decide(s, "grace", 0)
  /\ Goto(s, "persist")
  /\ UNCHANGED <<now, file, host, history>>

AskForCode(s) ==
  /\ pc[s] = "decide"
  /\ ~InGrace(s)
  /\ Goto(s, "prompt")
  /\ UNCHANGED <<now, file, mem, host, verdict, history>>

\* The conversation fails, or brings nothing that could be a code.
PromptFails(s) ==
  /\ pc[s] = "prompt"
  /\ Answer(s, "authErr")
  /\ UNCHANGED <<now, file, host, verdict, history>>

VerifyOpts ==
  [disableSkewAdjustment |-> Params.noSkewAdjust,
   noIncrementHOTP |-> Params.noIncrementHOTP]

Outcome(s, token) == VerifyCode(mem[s], token, VerifyOpts, now)

RecordLogin(c, h, when) ==
  IF Params.gracePeriod > 0 THEN UpdateLoginRecord(c, h, when) ELSE {c}

Accept(s, token) ==
  LET outcome == Outcome(s, token)
  IN  /\ pc[s] = "prompt"
      /\ outcome.result \in Successes
      /\ \E c \in RecordLogin(outcome.cfg, host[s], now) : Remember(s, c)
      /\ Decide(s, outcome.result, IF outcome.result = "scratch" THEN token.code
                                   ELSE outcome.counter)
      /\ Goto(s, "persist")
      /\ UNCHANGED <<now, file, host, history>>

\* Mutant: what the verifier changed in the configuration is written, too.
RejectMutant(s, token) ==
  /\ pc[s] = "prompt"
  /\ Outcome(s, token).result \in Failures
  /\ Decide(s, Outcome(s, token).result, 0)
  /\ Remember(s, Outcome(s, token).cfg)
  /\ Goto(s, "persist")
  /\ UNCHANGED <<now, file, host, history>>

\* What the verifier changed in the configuration goes with the memory.
Reject(s, token) ==
  /\ pc[s] = "prompt"
  /\ Outcome(s, token).result \in Failures
  /\ Decide(s, Outcome(s, token).result, 0)
  /\ Answer(s, "authErr")
  /\ UNCHANGED <<now, file, host, history>>

-----------------------------------------------------------------------------
(***************************************************************************)
(* Writing the file: persistConfig and WriteConfig.                        *)
(***************************************************************************)

NothingToWrite(s) ==
  /\ pc[s] = "persist"
  /\ ~mem[s].dirty
  /\ Answer(s, "success")
  /\ UNCHANGED <<now, file, host, verdict, history>>

\* Mutant: any file is as good as the one that was read.
UnmodifiedMutant(s) == dir # NoFile

\* What Lstat finds: the file that was read, or another, or none.
Unmodified(s) == dir = fd[s]

CheckPasses(s) ==
  /\ pc[s] = "persist"
  /\ mem[s].dirty
  /\ Unmodified(s)
  /\ Goto(s, "publish")
  /\ UNCHANGED <<now, file, mem, host, verdict, history>>

CheckFails(s) ==
  /\ pc[s] = "persist"
  /\ mem[s].dirty
  /\ ~Unmodified(s)
  /\ Answer(s, "authErr")
  /\ UNCHANGED <<now, file, host, verdict, history>>

\* From now on the path names this inode, on the disk perhaps not yet.
PointTo(inode) ==
  /\ dir' = inode
  /\ durable' = IF PowerFails THEN durable \union {inode} ELSE {inode}

PutInPlace(content) ==
  /\ contents' = Append(contents, content)
  /\ PointTo(Len(contents) + 1)

\* The temporary is written and renamed over whatever the path names now.
Publish(s) ==
  /\ pc[s] = "publish"
  /\ PutInPlace(Stored(mem[s]))
  /\ raced' = (raced \/ AboutToPublish # {s})
  /\ Goto(s, "syncDir")
  /\ UNCHANGED <<now, mem, host, verdict, edited>>

\* Mutant: the new file is in place, and that is enough.
SyncDirMutant(s) ==
  /\ pc[s] = "syncDir"
  /\ Answer(s, "success")
  /\ UNCHANGED <<now, file, host, verdict, history>>

SyncDir(s) ==
  /\ pc[s] = "syncDir"
  /\ durable' = {dir}
  /\ Answer(s, "success")
  /\ UNCHANGED <<now, contents, dir, host, verdict, history>>

\* A step of the write fails before the rename, or the sync after it.
WriteFails(s, error) ==
  /\ pc[s] \in {"persist", "publish", "syncDir"}
  /\ mem[s].dirty
  /\ Answer(s, IF Params.allowReadonly /\ error = "denied"
               THEN "success" ELSE "authErr")
  /\ UNCHANGED <<now, file, host, verdict, history>>

-----------------------------------------------------------------------------
(***************************************************************************)
(* The environment.                                                        *)
(***************************************************************************)

Running == {s \in Sessions : pc[s] \notin {"start", "done", "killed"}}

\* The process dies; the kernel drops its lock.
Kill(s) ==
  /\ s \in Running
  /\ pc' = [pc EXCEPT ![s] = "killed"]
  /\ fd' = [fd EXCEPT ![s] = NoFile]
  /\ mem' = [mem EXCEPT ![s] = EmptyConfig]
  /\ UNCHANGED <<now, file, host, verdict, rc, history>>

\* All processes die, and the directory is what had come to the disk of it:
\* all renames since it was synchronised, none, or the first of them.
PowerLoss ==
  /\ PowerFails
  /\ dir' \in durable
  /\ durable' = {dir'}
  /\ pc' = [s \in Sessions |-> IF s \in Running THEN "killed" ELSE pc[s]]
  /\ fd' = [s \in Sessions |-> NoFile]
  /\ mem' = [s \in Sessions |-> EmptyConfig]
  /\ UNCHANGED <<now, contents, host, verdict, rc, history>>

OwnerReplaces ==
  /\ Len(contents) < MaxInodes
  /\ \E c \in OwnerConfigs : PutInPlace(c)
  /\ raced' = (raced \/ AboutToPublish # {})
  /\ edited' = TRUE
  /\ UNCHANGED <<now, locals>>

OwnerRemoves ==
  /\ OwnerConfigs # {}
  /\ dir # NoFile
  /\ PointTo(NoFile)
  /\ raced' = (raced \/ AboutToPublish # {})
  /\ edited' = TRUE
  /\ UNCHANGED <<now, contents, locals>>

SetClock ==
  \E d \in ClockSteps :
    /\ now + d \in 0 .. MaxTime
    /\ now' = now + d
    /\ UNCHANGED <<file, locals, history>>

Environment == OwnerReplaces \/ OwnerRemoves \/ PowerLoss \/ SetClock

\* The steps a login takes by itself; the others wait for a person.
Proceed(s) ==
  \/ Lock(s) \/ Load(s) \/ LoadFails(s)
  \/ Grace(s) \/ AskForCode(s)
  \/ NothingToWrite(s) \/ CheckPasses(s) \/ CheckFails(s)
  \/ Publish(s) \/ SyncDir(s)
  \/ \E error \in WriteErrors : WriteFails(s, error)

Reply(s) ==
  \/ PromptFails(s)
  \/ \E token \in TypedTokens : Accept(s, token) \/ Reject(s, token)

\* No login is left to happen.
Finished ==
  /\ \A s \in Sessions : pc[s] \in {"done", "killed"}
  /\ UNCHANGED vars

Next ==
  \/ \E s \in Sessions :
       Open(s) \/ OpenNothing(s) \/ Proceed(s) \/ Reply(s) \/ Kill(s)
  \/ Environment
  \/ Finished

Spec == Init /\ [][Next]_vars

-----------------------------------------------------------------------------
(***************************************************************************)
(* What the file is for.                                                   *)
(***************************************************************************)

\* What the user set the file up with.
Setup == contents[1]

Granted(s) == rc[s] = "success"

\* The logins granted on this code.
GrantedOn(code) == {s \in Sessions : Granted(s) /\ verdict[s].code = code}

Uses(code) ==
  CASE code.type = "scratch" -> Setup.scratch[code.number]
    [] code.type = "hotp" -> 1
    [] code.type = "totp" /\ Setup.disallowReuse -> 1
    [] OTHER -> Cardinality(Sessions)

CodesGranted == {verdict[s].code : s \in {t \in Sessions : Granted(t)}}

\* No code of these types let in more logins than it is good for.
NoneOveruses(types) ==
  \A code \in CodesGranted :
    code.type \in types => Cardinality(GrantedOn(code)) <= Uses(code)

\* However logins interleave, fail to write and die, and whenever the power
\* fails, a scratch code and an HOTP counter let one login in: all but one of
\* the logins that verified it find the file modified (WriteConfig).  It needs
\* the file to stay put between the comparison and the rename.
EachCodeOnce ==
  ~raced /\ ~edited /\ ~Params.allowReadonly
    => NoneOveruses({"scratch", "hotp"})

\* Under DISALLOW_REUSE the same is true of the steps of the clock, although
\* the list of used steps forgets: as long as TIME_SKEW is not adapted
\* and the clock is not set back (ClockSteps).
EachStepOnce ==
  ~raced /\ ~edited /\ ~Params.allowReadonly /\ Params.noSkewAdjust
    => NoneOveruses({"totp"})

IsSpent(c, code) ==
  CASE code.type = "scratch" ->
         c.scratch[code.number] <= Uses(code) - Cardinality(GrantedOn(code))
    [] code.type = "hotp" -> c.hotpCounter > code.number
    [] OTHER -> TRUE

\* What has let somebody in is spent in every file a power loss may bring
\* back: the directory is synchronised before the login is granted
\* (WriteConfig), whichever login's rename that brings to the disk.
SpentOnDisk ==
  ~raced /\ ~edited /\ ~Params.allowReadonly =>
    \A code \in CodesGranted, inode \in durable : IsSpent(contents[inode], code)

\* A login that is alone may turn one content of the file into the other.
ByLogin(old, new) ==
  /\ old # Malformed
  /\ \E h \in Hosts \union {NoHost}, when \in 0 .. MaxTime :
       \/ /\ WithinGracePeriod(old, h, Params.gracePeriod, when)
          /\ \E c \in UpdateLoginRecord(old, h, when) : new = Stored(c)
       \/ \E token \in TypedTokens :
            LET outcome == VerifyCode(old, token, VerifyOpts, when)
            IN  /\ outcome.result \in Successes
                /\ \E c \in RecordLogin(outcome.cfg, h, when) : new = Stored(c)

ContentOf(inode) == IF inode = NoFile THEN Malformed ELSE contents[inode]

Atomic == INSTANCE AtomicFile WITH
  Initial <- InitialConfigs, Edits <- OwnerConfigs, Nothing <- Malformed,
  content <- ContentOf(dir), durable <- {ContentOf(i) : i \in durable},
  broken <- raced

\* The logins' dozen steps are one step to the file: whatever they wrote is
\* what a single login makes of the content it replaces, with nobody's count,
\* window or record lost, and the owner's edits survive, until two renames
\* race.
ImplementsAtomicFile == Atomic!Spec

\* "Secret file changed during processing, please retry": the same without
\* the proviso, for nothing in the code keeps two logins from renaming.
EachCodeOnceEver ==
  ~edited /\ ~Params.allowReadonly => NoneOveruses(Successes)

\* A login never renames over a file that it has not read, its owner's edit
\* included, unless that file appeared after the comparison.
NoBlindOverwrite ==
  \A s \in AboutToPublish : raced \/ dir = fd[s]

\* The times of decisions of these types in the interval that ends with t.
DecidedBefore(t, types) ==
  {s \in Sessions :
     /\ verdict[s].code.type \in types
     /\ verdict[t].when - Setup.rateLimit.interval <= verdict[s].when
     /\ verdict[s].when <= verdict[t].when}

\* RATE_LIMIT as "Limit logins to N per every M seconds": no interval holds
\* more logins granted on a code than the option says, although each login
\* counts from the file it read.
LoginsLimited ==
  ~raced /\ ~edited /\ ~Params.allowReadonly /\ HasRateLimit(Setup)
    => \A t \in Sessions :
         Granted(t) /\ verdict[t].code.type \in Successes
           => Cardinality({s \in DecidedBefore(t, Successes) : Granted(s)})
                <= Setup.rateLimit.attempts

\* RATE_LIMIT as "3 attempts every 30s": no interval holds more tokens that
\* were compared with a code, right or wrong, than the option says.
AttemptsLimited ==
  ~raced /\ ~edited /\ HasRateLimit(Setup)
    => \A t \in Sessions :
         Cardinality(DecidedBefore(t, Successes \union {"invalidCode"}))
           <= Setup.rateLimit.attempts

RecentRecord(c, h, when) ==
  c # Malformed /\ WithinGracePeriod(c, h, Params.gracePeriod, when)

\* A login that skips the code can name an earlier one from the same host,
\* less than grace_period ago, that did not, or that could in its turn: lost
\* updates, evicted records and failing writes never invent a login.
GraceRooted ==
  [][\A s \in Sessions :
       verdict'[s] # verdict[s] /\ verdict'[s].code.type = "grace"
         => \/ \E t \in Sessions \ {s} :
                /\ host[t] = host[s]
                /\ verdict[t].code.type \in Successes \union {"grace"}
                /\ verdict[t].when + Params.gracePeriod > now
            \/ \E c \in InitialConfigs \union OwnerConfigs :
                 RecentRecord(c, host[s], now)]_vars

\* Nobody waits for somebody else's user: a login that is not at its prompt
\* comes to its prompt or its end, since the lock on the secret file is given
\* back before the prompt (openLocked, LoadConfig).
LoginsProceed ==
  \A s \in Sessions :
    pc[s] \notin {"start", "prompt", "done", "killed"}
      ~> pc[s] \in {"prompt", "done", "killed"}
=============================================================================
