-------------------------------- MODULE PamCli --------------------------------
(***************************************************************************)
(* PAM logins together with "ggpam verify" on the same secret file         *)
(* (cmd/cli/verify.go).  The command reads the file without the lock,      *)
(* verifies a code and saves what it has in memory with Config.Save        *)
(* (pkg/config/config.go): no comparison, and a temporary, path.tmp, that  *)
(* all its processes share.                                                *)
(*                                                                         *)
(* Abstractions.  Save writes into an inode that others may have open, and *)
(* that may be in place already.  A position of contents, an inode for     *)
(* ever in PamLogin, is here an inode with a modification time: to write   *)
(* is to append a content and to let everything that names the inode name  *)
(* the new position, except the FileState of a login that has read it.  A  *)
(* write is whole or not at all.  The power is not to fail here: Save      *)
(* syncs nothing, and promises nothing then.                               *)
(***************************************************************************)
EXTENDS PamLogin

CONSTANTS
  Commands,  \* the invocations of "ggpam verify", each of which happens once
  CliOpts    \* their flags

ASSUME CliAssumption ==
  /\ IsFiniteSet(Commands)
  /\ ~PowerFails
  /\ CliOpts \in [disableSkewAdjustment : BOOLEAN, noIncrementHOTP : BOOLEAN]

VARIABLES
  tmp,      \* what path.tmp names, or NoFile
  emptied,  \* the positions with nothing in them
  cli,      \* the local variables of each command
  stale,    \* history: the file was replaced while a command was between
            \* reading and replacing it
  mixed     \* history: a command opened path.tmp while another was using it

cliVars == <<tmp, emptied, cli, stale, mixed>>
allVars == <<vars, cliVars>>

CliPCs == {"start", "open", "write", "rename", "done", "killed"}

NewCommand ==
  [pc |-> "start", mem |-> EmptyConfig, fd |-> NoFile,
   code |-> NoVerdict.code, rc |-> "none"]

CliTypeOK ==
  /\ TypeOK
  /\ tmp \in {NoFile} \union DOMAIN contents
  /\ emptied \subseteq {i \in DOMAIN contents : contents[i] = Malformed}
  /\ \A c \in Commands :
       /\ cli[c].pc \in CliPCs
       /\ cli[c].mem \in Config
       /\ cli[c].fd \in {NoFile} \union DOMAIN contents
       /\ cli[c].code \in Codes
       /\ cli[c].rc \in {"none", "verified", "failed"}
  /\ stale \in BOOLEAN
  /\ mixed \in BOOLEAN

CliInit ==
  /\ Init
  /\ tmp = NoFile
  /\ emptied = {}
  /\ cli = [c \in Commands |-> NewCommand]
  /\ stale = FALSE
  /\ mixed = FALSE

Saving == {c \in Commands : cli[c].pc \in {"write", "rename"}}

\* The commands whose configuration is what the file held some time ago.
AboutToSave == {c \in Commands : cli[c].pc = "open"} \union Saving

Exit(c, result) ==
  [cli EXCEPT ![c] = [NewCommand EXCEPT !.pc = "done", !.code = cli[c].code,
                                        !.rc = result]]

-----------------------------------------------------------------------------
CliVerify(c, token) ==
  LET outcome == VerifyCode(contents[dir], token, CliOpts, now)
      code == [type |-> outcome.result,
               number |-> IF outcome.result = "scratch" THEN token.code
                          ELSE outcome.counter]
  IN  /\ cli[c].pc = "start"
      /\ dir # NoFile /\ contents[dir] # Malformed
      /\ outcome.result \in Successes
      /\ cli' = [cli EXCEPT ![c] =
                   IF outcome.cfg.dirty
                   THEN [NewCommand EXCEPT !.pc = "open", !.mem = outcome.cfg,
                                           !.code = code]
                   ELSE [NewCommand EXCEPT !.pc = "done", !.code = code,
                                           !.rc = "verified"]]
      /\ UNCHANGED <<vars, tmp, emptied, stale, mixed>>

\* No file, no configuration in it, or another code: nothing is saved.
CliRefuse(c, token) ==
  /\ cli[c].pc = "start"
  /\ \/ dir = NoFile
     \/ dir # NoFile /\ contents[dir] = Malformed
     \/ /\ dir # NoFile /\ contents[dir] # Malformed
        /\ VerifyCode(contents[dir], token, CliOpts, now).result \in Failures
  /\ cli' = Exit(c, "failed")
  /\ UNCHANGED <<vars, tmp, emptied, stale, mixed>>

\* The inode in position p is in the new position from now on, for everybody
\* who names it.
Rewrite(p, content) ==
  LET q == Len(contents) + 1
      move(x) == IF x = p THEN q ELSE x
  IN  /\ contents' = Append(contents, content)
      /\ PointTo(move(dir))
      /\ fd' = [s \in Sessions |->
                  IF pc[s] \in {"lock", "load"} THEN move(fd[s]) ELSE fd[s]]
      /\ raced' = (raced \/ (dir = p /\ AboutToPublish # {}))
      /\ UNCHANGED <<now, pc, mem, host, verdict, rc, edited>>

\* The command has the inode open, at position q, and is at this place.
Reopened(c, p, q, place) ==
  [d \in Commands |->
     IF d = c THEN [cli[d] EXCEPT !.pc = place, !.fd = q]
     ELSE [cli[d] EXCEPT !.fd = IF @ = p THEN q ELSE @]]

\* Mutant: what is left of an earlier save is not truncated.
CliOpenTmpMutant(c) ==
  /\ cli[c].pc = "open"
  /\ tmp # NoFile
  /\ cli' = Reopened(c, tmp, tmp, "write")
  /\ mixed' = (mixed \/ Saving # {})
  /\ UNCHANGED <<vars, tmp, emptied, stale>>

\* path.tmp is there, and is truncated whoever else writes to it.
CliOpenTmp(c) ==
  LET q == Len(contents) + 1
  IN  /\ cli[c].pc = "open"
      /\ tmp # NoFile
      /\ Rewrite(tmp, Malformed)
      /\ tmp' = q
      /\ emptied' = emptied \union {q}
      /\ cli' = Reopened(c, tmp, q, "write")
      /\ mixed' = (mixed \/ Saving # {})
      /\ UNCHANGED stale

CliCreateTmp(c) ==
  LET q == Len(contents) + 1
  IN  /\ cli[c].pc = "open"
      /\ tmp = NoFile
      /\ contents' = Append(contents, Malformed)
      /\ tmp' = q
      /\ emptied' = emptied \union {q}
      /\ cli' = [cli EXCEPT ![c].pc = "write", ![c].fd = q]
      /\ mixed' = (mixed \/ Saving # {})
      /\ UNCHANGED <<now, dir, durable, locals, history, stale>>

Copies(content) == SumFunction(content.scratch)

\* What a file holds when data is written over it from its beginning: the end
\* of a longer content stays, a piece of a line or a last scratch code.
Overlaid(data, position) ==
  LET old == contents[position]
  IN  IF position \in emptied THEN {data}
      ELSE {data, Malformed} \union
             {[data EXCEPT !.scratch[code] = @ + 1] : code \in
                {code \in ScratchCodes :
                   /\ old # Malformed
                   /\ old.scratch[code] > 0 /\ Copies(old) > Copies(data)}}

CliWrite(c) ==
  LET p == cli[c].fd
      q == Len(contents) + 1
  IN  /\ cli[c].pc = "write"
      /\ \E content \in Overlaid(Stored(cli[c].mem), p) : Rewrite(p, content)
      /\ tmp' = IF tmp = p THEN q ELSE tmp
      /\ cli' = Reopened(c, p, q, "rename")
      /\ stale' = (stale \/ (dir = p /\ AboutToSave # {c}))
      /\ UNCHANGED <<emptied, mixed>>

CliRename(c) ==
  /\ cli[c].pc = "rename"
  /\ tmp # NoFile
  /\ PointTo(tmp)
  /\ tmp' = NoFile
  /\ cli' = Exit(c, "verified")
  /\ raced' = (raced \/ AboutToPublish # {})
  /\ stale' = (stale \/ AboutToSave # {c})
  /\ UNCHANGED <<now, contents, locals, edited, emptied, mixed>>

\* Another command renamed the temporary of both.
CliNothingToRename(c) ==
  /\ cli[c].pc = "rename"
  /\ tmp = NoFile
  /\ cli' = Exit(c, "failed")
  /\ UNCHANGED <<vars, tmp, emptied, stale, mixed>>

\* A step of Save fails; the temporary stays.
CliSaveFails(c) ==
  /\ WriteErrors # {}
  /\ c \in AboutToSave
  /\ cli' = Exit(c, "failed")
  /\ UNCHANGED <<vars, tmp, emptied, stale, mixed>>

CliKill(c) ==
  /\ c \in AboutToSave
  /\ cli' = [cli EXCEPT ![c] = [NewCommand EXCEPT !.pc = "killed"]]
  /\ UNCHANGED <<vars, tmp, emptied, stale, mixed>>

-----------------------------------------------------------------------------
CliStep(c) ==
  \/ \E token \in TypedTokens : CliVerify(c, token) \/ CliRefuse(c, token)
  \/ CliOpenTmp(c) \/ CliCreateTmp(c) \/ CliWrite(c)
  \/ CliRename(c) \/ CliNothingToRename(c)
  \/ CliSaveFails(c) \/ CliKill(c)

\* What a step of PamLogin is to the commands.
Beside(step) ==
  /\ step
  /\ stale' = (stale \/ (dir' # dir /\ AboutToSave # {}))
  /\ UNCHANGED <<tmp, emptied, cli, mixed>>

LoginStep(s) ==
  Open(s) \/ OpenNothing(s) \/ Proceed(s) \/ Reply(s) \/ Kill(s)

\* Nobody is in the middle of anything, and nobody else has to come.
AllOver ==
  /\ Running = {} /\ AboutToSave = {}
  /\ UNCHANGED allVars

CliNext ==
  \/ \E s \in Sessions : Beside(LoginStep(s))
  \/ Beside(Environment)
  \/ \E c \in Commands : CliStep(c)
  \/ AllOver

CliSpec == CliInit /\ [][CliNext]_allVars

\* A login that is not waiting for a person is scheduled; nothing is assumed
\* of persons, clocks and commands.
LoginsAreScheduled == \A s \in Sessions : WF_allVars(Beside(Proceed(s)))

CliFairSpec == CliSpec /\ LoginsAreScheduled

-----------------------------------------------------------------------------
\* What Save leaves in place is a whole configuration, however many earlier
\* saves died and left their path.tmp behind: a login always finds a file it
\* can read.  It needs saves that do not use path.tmp at the same time.
SavedWhole ==
  ~mixed /\ ~edited /\ Malformed \notin InitialConfigs
    => dir # NoFile /\ contents[dir] # Malformed

Spent(code) ==
  \/ code.type \in {"scratch", "hotp"}
  \/ code.type = "totp" /\ Setup.disallowReuse

CommandsOn(code) == {c \in Commands : cli[c].rc = "verified" /\ cli[c].code = code}

CodesVerified == {cli[c].code : c \in {d \in Commands : cli[d].rc = "verified"}}

\* What a command has spent lets nobody in, and what has let somebody in is
\* refused by the command: a login that reads the file before a command saves
\* finds it modified (WriteConfig).  It needs that nothing replaces the file
\* between a command's reading and its saving, where the command looks at
\* nothing (Config.Save), and for steps of the clock that TIME_SKEW is not
\* adapted.
SpentForBoth ==
  ~raced /\ ~edited /\ ~stale /\ ~mixed /\ ~Params.allowReadonly
    => \A code \in CodesGranted \union CodesVerified :
         Spent(code) =>
           Cardinality(GrantedOn(code)) + Cardinality(CommandsOn(code)) <= Uses(code)
=============================================================================
