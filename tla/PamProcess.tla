------------------------------ MODULE PamProcess ------------------------------
(***************************************************************************)
(* A process that calls the PAM module: each thread makes one call of      *)
(* goPamAuthenticate, from its arguments to the restored privileges        *)
(* (cmd/pam/main.go).  The threads share the process's users and groups    *)
(* and its logger.                                                         *)
(*                                                                         *)
(* Abstractions.  What PamLogin models is one step here: the lock, the     *)
(* grace period, the verifier, which is the set of codes a secret file     *)
(* accepts, and the replacement of the file, which may or may not be       *)
(* necessary.  The fallback user's home is moved to twice in a row, with   *)
(* nothing in between: once here.  "denied" stands for PAM_AUTH_ERR and    *)
(* for what a failed conversation returns.                                 *)
(***************************************************************************)
EXTENDS PamArguments, Conversation, Logger

CONSTANTS
  Threads,
  Accounts,         \* the names of accounts
  UserOf, GroupOf,  \* account |-> its numbers
  Worlds,           \* the processes, files and calls to check
  NoCall, NoAnswer, NoAccount

Nobody == "nobody"

PlacesToLog == {"stderr", "home", "fixed"}

SecretFile ==
  [inode : Nat, kind : {"regular", "other"}, owner : Nat, mode : 0 .. 511,
   parses : BOOLEAN, codes : SUBSET Codes, recent : BOOLEAN]

\* A process begins with its effective ids saved, or as its real ones (execve).
ASSUME ProcessAssumption ==
  /\ NoThread \notin Threads
  /\ Accounts \intersect {NoAccount, Stderr, Lost, NoFile} = {}
  /\ UserOf \in [Accounts -> Nat] /\ GroupOf \in [Accounts -> Nat]
  /\ \A w \in Worlds :
       /\ w.ids \in Ids
       /\ w.ids.euid \in {w.ids.uid, w.ids.suid}
       /\ w.ids.egid \in {w.ids.gid, w.ids.sgid}
       /\ w.known \subseteq Accounts
       /\ w.logTo \in PlacesToLog
       /\ w.logTo # "stderr" => w.logDir \notin {Stderr, Lost, NoFile}
       /\ w.logDir \in Accounts => w.logDirOwner = UserOf[w.logDir]
       /\ w.logOwners \in [DOMAIN w.logOwners -> Nat]
       /\ w.secrets \in [DOMAIN w.secrets -> SecretFile]
       /\ \A t \in Threads : w.calls[t] # NoCall =>
            /\ w.calls[t].args \in Seq(Range(w.calls[t].args))
            /\ \A arg \in Range(w.calls[t].args) :
                 arg.name = "allowed_perm" => arg.value \in Nat \union {Unparsed}
            /\ w.calls[t].password \in Texts /\ w.calls[t].authtok \in Texts
            /\ w.calls[t].answer \in Texts \union {NoAnswer}

VARIABLES
  world,      \* what stays: the calls, the accounts, the template, where to log
  ids,        \* the users and groups of the process
  log,        \* its logger
  logOwners,  \* the log files there are: directory |-> owner
  secrets,    \* the secret files there are
  login,      \* the local variables of each thread's call
  overlapped  \* history: a call began before another one was over

vars == <<world, ids, log, logOwners, secrets, login, overlapped>>

PCs == {"start", "configuring", "parse", "account", "moveLog", "movingLog",
        "drop", "readGroup", "compare", "dropUser", "putBack", "moveOwnLog",
        "movingOwnLog", "load", "ask", "persist", "restore", "restoreGroup",
        "done"}

Answers == {"none", "success", "ignore", "denied", "serviceErr"}

TypeOK ==
  /\ ids \in Ids
  /\ log.mutex \in Threads \union {NoThread}
  /\ log.file \in DOMAIN logOwners \union {NoFile}
  /\ log.output \in DOMAIN logOwners \union {Stderr}
  /\ DOMAIN secrets = DOMAIN world.secrets
  /\ \A path \in DOMAIN secrets : secrets[path] \in SecretFile
  /\ \A t \in Threads :
       /\ login[t].pc \in PCs
       /\ login[t].account \in world.known \union {NoAccount}
       /\ login[t].rc \in Answers
       /\ login[t].authtok \in Texts
       /\ login[t].said \subseteq DOMAIN logOwners \union {Stderr, Lost}

Call(t) == world.calls[t]
Params(t) == ParseParams(Call(t).args)

EmptyText == [word |-> NoWord, digits |-> << >>, blank |-> FALSE]

NewLogin(call) ==
  [ pc |-> "start", account |-> NoAccount, orig |-> Effective(world.ids),
    dropped |-> FALSE, inode |-> 0, rc |-> "none", said |-> {},
    authtok |-> IF call = NoCall THEN EmptyText ELSE call.authtok ]

Init ==
  /\ world \in Worlds
  /\ ids = world.ids
  /\ log = NewLogger
  /\ logOwners = world.logOwners
  /\ secrets = world.secrets
  /\ login = [t \in Threads |-> NewLogin(world.calls[t])]
  /\ overlapped = FALSE

Running == {t \in Threads : login[t].pc \notin {"start", "done"}}

Goto(t, place) == login' = [login EXCEPT ![t].pc = place]

\* A message of this step ends up where the logger leads at this moment.
Saying(t) == login[t].said \union {WhereMessagesGo(log)}

\* The answer is settled; the restored privileges are still to come.
Ends(t, answer, said) ==
  login' = [login EXCEPT
              ![t].pc = IF login[t].dropped THEN "restore" ELSE "done",
              ![t].rc = answer, ![t].said = said]

EndsSaying(t, answer) == Ends(t, answer, Saying(t))
EndsSilently(t, answer) == Ends(t, answer, login[t].said)

-----------------------------------------------------------------------------
(***************************************************************************)
(* The logger: ConfigureDefault when a call begins, UpdateHome when the    *)
(* account is known, and again with its privileges.                        *)
(***************************************************************************)

Configure(t) ==
  /\ log.mutex = NoThread
  /\ log' = ConfigureBegins(log, t)

HomeOwner(account) == UserOf[account]

\* What the new log file is, and whose directory it is in.
LogTarget(t) ==
  CASE login[t].pc # "configuring" -> [dir |-> login[t].account,
                                       owner |-> HomeOwner(login[t].account)]
    [] login[t].pc = "configuring" /\ world.logTo = "stderr" ->
         [dir |-> NoFile, owner |-> Root]
    [] OTHER -> [dir |-> world.logDir, owner |-> world.logDirOwner]

AfterMove == [configuring |-> "parse", movingLog |-> "drop", movingOwnLog |-> "load"]

Began(t) ==
  /\ overlapped' = (overlapped \/ Running # {})
  /\ UNCHANGED <<world, ids, logOwners, secrets>>

\* Mutant: the process configures its logger once.
StartMutant(t) ==
  /\ Call(t) # NoCall
  /\ login[t].pc = "start"
  /\ IF log = NewLogger THEN Configure(t) /\ Goto(t, "configuring")
     ELSE UNCHANGED log /\ Goto(t, "parse")
  /\ Began(t)

Start(t) ==
  /\ Call(t) # NoCall
  /\ login[t].pc = "start"
  /\ Configure(t)
  /\ Goto(t, "configuring")
  /\ Began(t)

Reopen(t) ==
  LET target   == LogTarget(t)
      fromHome == login[t].pc # "configuring" \/ world.logTo = "home"
      opens    == target.dir # NoFile
      fails    == opens /\ ~CanOpenLog(ids, logOwners, target.owner, target.dir)
  IN  /\ login[t].pc \in DOMAIN AfterMove
      /\ log' = IF fails THEN ConfigureFails(log)
                ELSE ConfigureEnds(log, target.dir, fromHome)
      /\ logOwners' = IF opens /\ ~fails THEN WithLog(logOwners, target.dir, ids.euid)
                      ELSE logOwners
      /\ Goto(t, AfterMove[login[t].pc])
      /\ UNCHANGED <<world, ids, secrets, overlapped>>

UpdateHome(t, moving, next) ==
  /\ \/ ~FollowsHome(log) /\ Goto(t, next) /\ UNCHANGED log
     \/ FollowsHome(log) /\ Configure(t) /\ Goto(t, moving)
  /\ UNCHANGED <<world, ids, logOwners, secrets, overlapped>>

-----------------------------------------------------------------------------
(***************************************************************************)
(* Arguments, account, privileges.                                         *)
(***************************************************************************)

ParseArguments(t) ==
  /\ login[t].pc = "parse"
  /\ IF IsRefused(Call(t).args) THEN EndsSaying(t, "serviceErr")
     ELSE Goto(t, "account")
  /\ UNCHANGED <<world, ids, log, logOwners, secrets, overlapped>>

TargetUser(t) ==
  IF Params(t).forcedUser # "" THEN Params(t).forcedUser ELSE Call(t).user

\* Mutant: there is always a user to fall back to.
HasFallbackMutant == TRUE

HasFallback == Nobody \in world.known

\* pam_get_user brings no name, and its own answer is passed on.
NoUserName(t) ==
  /\ login[t].pc = "account"
  /\ Call(t).user \in {"", "unavailable"}
  /\ EndsSilently(t, IF Call(t).user = "" THEN "success" ELSE "denied")
  /\ UNCHANGED <<world, ids, log, logOwners, secrets, overlapped>>

LookUp(t) ==
  LET target == TargetUser(t)
      found(account, said) ==
        login' = [login EXCEPT ![t].pc = "moveLog", ![t].account = account,
                               ![t].said = said]
  IN  /\ login[t].pc = "account"
      /\ Call(t).user \notin {"", "unavailable"}
      /\ CASE target \in world.known -> found(target, login[t].said)
           [] target \notin world.known /\ HasFallback -> found(Nobody, Saying(t))
           [] OTHER -> EndsSaying(t, "serviceErr")
      /\ UNCHANGED <<world, ids, log, logOwners, secrets, overlapped>>

Wanted(t) ==
  [user |-> UserOf[login[t].account], group |-> GroupOf[login[t].account]]

\* dropPrivileges asks for the user and for the group, one after the other;
\* other threads may change them in between and before it acts on the answers.
ReadUser(t) ==
  /\ login[t].pc = "drop"
  /\ login' = [login EXCEPT ![t].pc = "readGroup",
                            ![t].orig.user = Effective(ids).user]
  /\ UNCHANGED <<world, ids, log, logOwners, secrets, overlapped>>

ReadGroup(t) ==
  /\ login[t].pc = "readGroup"
  /\ login' = [login EXCEPT ![t].pc = "compare",
                            ![t].orig.group = Effective(ids).group]
  /\ UNCHANGED <<world, ids, log, logOwners, secrets, overlapped>>

NothingToDrop(t) ==
  /\ login[t].pc = "compare"
  /\ ActsAs(login[t].orig, Wanted(t))
  /\ Goto(t, "moveOwnLog")
  /\ UNCHANGED <<world, ids, log, logOwners, secrets, overlapped>>

DropGroup(t) ==
  /\ login[t].pc = "compare"
  /\ ~ActsAs(login[t].orig, Wanted(t))
  /\ IF MaySetGroup(ids, Wanted(t).group) THEN Goto(t, "dropUser")
     ELSE EndsSaying(t, "serviceErr")
  /\ ids' = SetGroup(ids, Wanted(t).group)
  /\ UNCHANGED <<world, log, logOwners, secrets, overlapped>>

DropUser(t) ==
  /\ login[t].pc = "dropUser"
  /\ IF MaySetUser(ids, Wanted(t).user)
     THEN login' = [login EXCEPT ![t].pc = "moveOwnLog", ![t].dropped = TRUE]
     ELSE Goto(t, "putBack")
  /\ ids' = SetUser(ids, Wanted(t).user)
  /\ UNCHANGED <<world, log, logOwners, secrets, overlapped>>

\* Mutant: the group is left as it is.
GroupPutBackMutant(t) == ids

\* When the user cannot be set, the group is put back.
GroupPutBack(t) == SetGroup(ids, login[t].orig.group)

PutBack(t) ==
  /\ login[t].pc = "putBack"
  /\ ids' = GroupPutBack(t)
  /\ EndsSaying(t, "serviceErr")
  /\ UNCHANGED <<world, log, logOwners, secrets, overlapped>>

RestoreUser(t) ==
  /\ login[t].pc = "restore"
  /\ ids' = SetUser(ids, login[t].orig.user)
  /\ Goto(t, "restoreGroup")
  /\ UNCHANGED <<world, log, logOwners, secrets, overlapped>>

RestoreGroup(t) ==
  /\ login[t].pc = "restoreGroup"
  /\ ids' = SetGroup(ids, login[t].orig.group)
  /\ Goto(t, "done")
  /\ UNCHANGED <<world, log, logOwners, secrets, overlapped>>

-----------------------------------------------------------------------------
(***************************************************************************)
(* The secret file and the code.                                           *)
(***************************************************************************)

SecretPath(t) == ResolveSecretPath(Params(t).secret, login[t].account)
Secret(t) == secrets[SecretPath(t)]

\* The owner of the directory: the home, or one of the administrator's.
DirectoryOwner(path) ==
  IF path.name = "home" THEN HomeOwner(path.of) ELSE Root

\* validateSecretFile; modes are compared as numbers.
IsValid(t, file) ==
  /\ file.kind = "regular"
  /\ file.mode <= Params(t).allowedPerm
  /\ Params(t).noStrictOwner \/ file.owner = UserOf[login[t].account]

Loads(t) ==
  /\ SecretPath(t) \in DOMAIN secrets
  /\ MayRead(ids, Secret(t)) /\ IsValid(t, Secret(t)) /\ Secret(t).parses

Rendered(t) ==
  Params(t).template = "" \/ (MayRead(ids, world.template) /\ world.template.renders)

Load(t) ==
  /\ login[t].pc = "load"
  /\ CASE SecretPath(t) \notin DOMAIN secrets ->
            EndsSaying(t, IF Params(t).nullOK THEN "ignore" ELSE "denied")
       [] SecretPath(t) \in DOMAIN secrets /\ ~Loads(t) -> EndsSaying(t, "denied")
       [] Loads(t) /\ ~Rendered(t) -> EndsSaying(t, "serviceErr")
       [] OTHER -> login' = [login EXCEPT ![t].pc = "ask",
                                          ![t].inode = Secret(t).inode]
  /\ UNCHANGED <<world, ids, log, logOwners, secrets, overlapped>>

Asks(t) == login[t].pc = "ask" /\ ~(Params(t).gracePeriod > 0 /\ Secret(t).recent)

Grace(t) ==
  /\ login[t].pc = "ask"
  /\ ~Asks(t)
  /\ login' = [login EXCEPT ![t].pc = "persist", ![t].said = Saying(t)]
  /\ UNCHANGED <<world, ids, log, logOwners, secrets, overlapped>>

\* The first password is used if there is a code at its end.
TakesPassword(t) == Params(t).passMode # "prompt" /\ HasOTP(login[t].authtok)

\* Mutant: the password is passed on before its code is verified.
ForwardsMutant(t, verified) == Params(t).forwardPass

Forwards(t, verified) == verified /\ Params(t).forwardPass

Verify(t, verified, rest) ==
  LET authtok == IF Forwards(t, verified) /\ rest # EmptyText THEN rest
                 ELSE login[t].authtok
  IN  IF verified
      THEN login' = [login EXCEPT ![t].pc = "persist", ![t].authtok = authtok]
      ELSE login' = [login EXCEPT
                       ![t].pc = IF login[t].dropped THEN "restore" ELSE "done",
                       ![t].rc = "denied", ![t].said = Saying(t),
                       ![t].authtok = authtok]

FromPassword(t) ==
  /\ Asks(t)
  /\ TakesPassword(t)
  /\ LET otp == ExtractOTP(login[t].authtok)
     IN  Verify(t, otp.code \in Secret(t).codes, otp.rest)
  /\ UNCHANGED <<world, ids, log, logOwners, secrets, overlapped>>

NoCodeInPassword(t) ==
  /\ Asks(t)
  /\ Params(t).passMode = "useFirst" /\ ~TakesPassword(t)
  /\ EndsSilently(t, "denied")
  /\ UNCHANGED <<world, ids, log, logOwners, secrets, overlapped>>

Prompt(t) ==
  LET answer == Call(t).answer
  IN  /\ Asks(t)
      /\ Params(t).passMode # "useFirst" /\ ~TakesPassword(t)
      /\ IF answer = NoAnswer \/ Trimmed(answer) = EmptyText
         THEN EndsSilently(t, "denied")
         ELSE Verify(t, IsCode(Trimmed(answer), Secret(t).codes), EmptyText)
      /\ UNCHANGED <<world, ids, log, logOwners, secrets, overlapped>>

\* Nothing has changed, or what has is written by renaming a new file.
NothingToWrite(t) ==
  /\ login[t].pc = "persist"
  /\ EndsSaying(t, "success")
  /\ UNCHANGED <<world, ids, log, logOwners, secrets, overlapped>>

\* Chmod takes the permissions of a mode, whatever else is set in it.
LeftMode(t) == Params(t).allowedPerm % 512

MayReplace(t) == MayWriteIn(ids, DirectoryOwner(SecretPath(t)))
IsUnmodified(t) == Secret(t).inode = login[t].inode

Replace(t) ==
  /\ login[t].pc = "persist"
  /\ IsUnmodified(t) /\ MayReplace(t)
  /\ secrets' = [secrets EXCEPT
                   ![SecretPath(t)].inode = @ + 1,
                   ![SecretPath(t)].owner = ids.euid,
                   ![SecretPath(t)].mode = LeftMode(t)]
  /\ EndsSaying(t, "success")
  /\ UNCHANGED <<world, ids, log, logOwners, overlapped>>

CannotReplace(t) ==
  /\ login[t].pc = "persist"
  /\ ~(IsUnmodified(t) /\ MayReplace(t))
  /\ EndsSaying(t, IF IsUnmodified(t) /\ Params(t).allowReadonly
                   THEN "success" ELSE "denied")
  /\ UNCHANGED <<world, ids, log, logOwners, secrets, overlapped>>

-----------------------------------------------------------------------------
Finished ==
  /\ \A t \in Threads : Call(t) = NoCall \/ login[t].pc = "done"
  /\ UNCHANGED vars

Step(t) ==
  \/ Start(t) \/ Reopen(t)
  \/ login[t].pc = "moveLog" /\ UpdateHome(t, "movingLog", "drop")
  \/ login[t].pc = "moveOwnLog" /\ UpdateHome(t, "movingOwnLog", "load")
  \/ ParseArguments(t) \/ NoUserName(t) \/ LookUp(t)
  \/ ReadUser(t) \/ ReadGroup(t)
  \/ NothingToDrop(t) \/ DropGroup(t) \/ DropUser(t) \/ PutBack(t)
  \/ RestoreUser(t) \/ RestoreGroup(t)
  \/ Load(t) \/ Grace(t)
  \/ FromPassword(t) \/ NoCodeInPassword(t) \/ Prompt(t)
  \/ NothingToWrite(t) \/ Replace(t) \/ CannotReplace(t)

Next == (\E t \in Threads : Step(t)) \/ Finished

Spec == Init /\ [][Next]_vars

-----------------------------------------------------------------------------
(***************************************************************************)
(* Whose privileges, and whose log.                                        *)
(***************************************************************************)

Looked == {t \in Threads : login[t].account # NoAccount}
GroupFor(t) == GroupOf[login[t].account]

\* When no call is in progress the process is who it was.  If calls overlapped,
\* each restoring what it found, its user is what it was if no call found
\* another one's, and its group likewise, each for itself: it takes both, who
\* found what and who may go back to it (dropPrivileges, restorePrivileges).
IdsRestored ==
  Running = {} =>
    /\ ~overlapped => ids = world.ids
    /\ (\A t \in Threads : login[t].orig.user = world.ids.euid)
         => ids.euid = world.ids.euid
    /\ (\A t \in Threads : login[t].orig.group = world.ids.egid)
         => ids.egid = world.ids.egid

\* The secret file and the template are read, and the file is replaced, as
\* the account they belong to, as long as calls do not overlap.
AccessAsUser ==
  ~overlapped =>
    \A t \in Threads : login[t].pc \in {"load", "ask", "persist"} =>
      Effective(ids) = Wanted(t)

\* A login leaves the secret file to the owner without whom no later login
\* would accept it (validateSecretFile, WriteConfig).
OwnerKept ==
  ~overlapped /\ (\A t \in Threads : Call(t) # NoCall => ~Params(t).noStrictOwner)
    => \A path \in DOMAIN secrets :
         secrets[path].owner = world.secrets[path].owner

\* However many threads move the log, no more than one file is open: a process
\* that lives long does not run out of descriptors (configure).
OneLogHandle == log.handles <= 1

\* What is said of a user's login goes to the log of the process or to that
\* of the user, never to the log an earlier login left behind, although a
\* move may fail halfway.
OwnLog ==
  ~overlapped => \A t \in Threads :
    login[t].said \subseteq {Stderr, Lost, world.logDir, login[t].account}

\* The log of the account could be written before the privileges were dropped
\* and after.
OwnLogIsOpen(t) ==
  LET account == login[t].account
  IN  /\ CanOpenLog(world.ids, logOwners, HomeOwner(account), account)
      /\ account \in DOMAIN logOwners => logOwners[account] = HomeOwner(account)

\* A message is lost only when the log of the moment belongs to somebody else:
\* the process may not write its own, or it follows the user's home, where the
\* process may not write or root has made the log that the user cannot open.
LogArrives ==
  ~overlapped => \A t \in Threads : Lost \in login[t].said =>
    \/ world.logTo = "home" /\ login[t].account # NoAccount /\ ~OwnLogIsOpen(t)
    \/ ~CanOpenLog(world.ids, world.logOwners, world.logDirOwner, world.logDir)

-----------------------------------------------------------------------------
(***************************************************************************)
(* What a person types.                                                    *)
(***************************************************************************)

AnswerIs(t, code) ==
  /\ Call(t).answer # NoAnswer
  /\ Trimmed(Call(t).answer) = [EmptyText EXCEPT !.digits = code]

\* The person gives the code: alone at the prompt, whatever that asks for, or
\* six digits right after a first password.
CodeReply(t) ==
  LET mode   == Params(t).passMode
      joined == /\ Len(Call(t).code) = 1 /\ ~Call(t).authtok.blank
                /\ Call(t).authtok = Then(Call(t).password, Call(t).code)
  IN  \/ mode # "prompt" /\ joined
      \/ mode = "tryFirst" /\ ~HasOTP(Call(t).authtok) /\ AnswerIs(t, Call(t).code)
      \/ mode = "prompt" /\ AnswerIs(t, Call(t).code)

OwnerReads(mode) == ReadableBit((mode \div 64) % 8)

\* The process may become the account, and file and template are in order.
IsSetUp(t) ==
  /\ login[t].account = TargetUser(t)
  /\ world.ids.euid \in {Root, Wanted(t).user} /\ MaySetGroup(world.ids, GroupFor(t))
  /\ SecretPath(t) \in DOMAIN world.secrets
  /\ LET file == world.secrets[SecretPath(t)]
     IN  /\ IsValid(t, file) /\ file.owner = Wanted(t).user
         /\ OwnerReads(file.mode) /\ file.parses
         /\ Call(t).code \in file.codes
  /\ Params(t).allowReadonly \/ Wanted(t).user \in {Root, DirectoryOwner(SecretPath(t))}
  /\ Params(t).template = "" \/ (world.template.renders /\ world.template.mode = 420)

\* Whoever has logged in with this file did so for the same account, and left it
\* with a mode that this call accepts and the owner can read.
ShareFile(t) ==
  \A u \in Looked : SecretPath(u) = SecretPath(t) =>
    /\ login[u].account = login[t].account
    /\ LeftMode(u) <= Params(t).allowedPerm
    /\ OwnerReads(LeftMode(u))

\* The call got as far as an account, and was answered.
Called(t) == login[t].rc # "none" /\ login[t].account # NoAccount

\* Whoever gives the code alone at the prompt, or six digits right after a
\* first password, is let in, whatever that password ends with and however the
\* module comes by the code (obtainOTP, extractOTP).
CodeReplyGranted ==
  ~overlapped =>
    \A t \in Threads : Called(t) /\ IsSetUp(t) /\ ShareFile(t) /\ CodeReply(t) =>
      login[t].rc = "success"

\* What the prompt asks for: with forward_pass, password and code.
AskedReply(t) ==
  IF Params(t).prompt = "password and code"
  THEN Then(Call(t).password, Call(t).code)
  ELSE [EmptyText EXCEPT !.digits = Call(t).code]

\* "Password & verification code: ": whoever types what the prompt asks for is
\* let in (params.go:102).
AskedReplyGranted ==
  ~overlapped =>
    \A t \in Threads :
      /\ Called(t) /\ IsSetUp(t) /\ ShareFile(t)
      /\ Params(t).passMode = "prompt" /\ Call(t).answer = AskedReply(t)
      => login[t].rc = "success"

\* Whoever is let in gave a code of the file, alone at the prompt or at the
\* end of the first password, or came within the grace period; except that a
\* name that pam_get_user brings empty is answered with pam_get_user's own
\* success (runPamAuth, obtainOTP).
GrantedOnACode ==
  \A t \in Threads : login[t].rc = "success" /\ Call(t).user # "" =>
    \/ Params(t).gracePeriod > 0 /\ Secret(t).recent
    \/ \E code \in Secret(t).codes :
         \/ AnswerIs(t, code)
         \/ Params(t).passMode # "prompt"
              /\ \E rest \in Texts : Call(t).authtok = Then(rest, code)

\* The next module sees another password only after its code was verified,
\* and then exactly the one that was typed before the code (forward_pass).
PasswordForwarded ==
  \A t \in Threads : Call(t) # NoCall /\ login[t].authtok # Call(t).authtok =>
    /\ Params(t).forwardPass
    /\ \E code \in Secret(t).codes : Call(t).authtok = Then(login[t].authtok, code)
=============================================================================
