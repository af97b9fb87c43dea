---------------------------- MODULE PamCliProofs ----------------------------
(***************************************************************************)
(* "ggpam verify" beside the logins: what the two kinds of writers leave   *)
(* of the file, and of the codes in it.                                    *)
(***************************************************************************)
EXTENDS PamCli, PamLoginProofs

NewPosition == Len(contents) + 1

CliAnswers == {"none", "verified", "failed"}

CommandsType ==
  cli \in [Commands -> [pc : CliPCs, mem : Config, fd : {NoFile} \union Inodes,
                        code : Codes, rc : CliAnswers]]

-----------------------------------------------------------------------------
(***************************************************************************)
(* The steps of a command, to the logins.                                  *)
(***************************************************************************)

LEMMA NewPositionAppends ==
  ASSUME FileType, NEW e, contents' = Append(contents, e)
  PROVE  /\ \E S : contents' \in Seq(S)
         /\ NewPosition \notin Inodes /\ NewPosition # NoFile
         /\ Inodes' = Inodes \union {NewPosition}
         /\ \A i \in Inodes : contents'[i] = contents[i]
         /\ contents'[NewPosition] = e
         /\ Setup' = Setup
<1>1. PICK S : contents \in Seq(S)
  BY DEF FileType
<1>2. /\ contents' \in Seq(S \union {e})
      /\ Len(contents') = Len(contents) + 1
      /\ \A i \in 1 .. Len(contents) : contents'[i] = contents[i]
      /\ contents'[Len(contents) + 1] = e
  BY <1>1, AppendKeeps
<1>3. Len(contents) \in Nat
  BY <1>1
<1>4. Inodes' = Inodes \union {NewPosition} /\ NewPosition \notin Inodes
      /\ NewPosition # NoFile
  BY <1>2, <1>3 DEF Inodes, NewPosition, NoFile
<1>5. Setup' = Setup
  BY <1>2 DEF Setup, FileType, Inodes
<1> QED
  BY <1>2, <1>4, <1>5 DEF Inodes, NewPosition

\* A login that is about to read what is in position p reads what is written.
FollowsTo(s, p) ==
  \/ fd'[s] = fd[s]
  \/ pc[s] \in {"lock", "load"} /\ fd[s] = p /\ fd'[s] = NewPosition

\* What a write does to the file.
LEMMA RewriteEffect ==
  ASSUME FileType, NEW p, NEW e, Rewrite(p, e)
  PROVE  /\ contents' = Append(contents, e)
         /\ dir' = (IF dir = p THEN NewPosition ELSE dir)
         /\ durable' = {dir'}
         /\ raced' = (raced \/ (dir = p /\ AboutToPublish # {}))
         /\ UNCHANGED <<now, pc, mem, host, verdict, rc, edited>>
         /\ \A s \in Sessions : FollowsTo(s, p)
BY CliAssumption DEF Rewrite, PointTo, NewPosition, FollowsTo

LEMMA RewriteKeepsAtomicInv ==
  ASSUME AtomicInv, NEW p, NEW e, Rewrite(p, e)
  PROVE  AtomicInv'
<1>1. TypeInv /\ FileType /\ LocalsType
  BY DEF AtomicInv, TypeInv
<1>2. /\ contents' = Append(contents, e)
      /\ dir' = (IF dir = p THEN NewPosition ELSE dir) /\ durable' = {dir'}
      /\ raced' = (raced \/ (dir = p /\ AboutToPublish # {}))
      /\ UNCHANGED <<now, pc, mem, host, verdict, rc, edited>>
  BY <1>1, RewriteEffect
<1>3. /\ \E S : contents' \in Seq(S)
      /\ Inodes' = Inodes \union {NewPosition}
      /\ \A i \in Inodes : contents'[i] = contents[i]
  BY <1>1, <1>2, NewPositionAppends
<1>4. FileType'
  BY <1>1, <1>2, <1>3 DEF FileType
<1>5. fd' = [s \in Sessions |->
               IF pc[s] \in {"lock", "load"}
               THEN IF fd[s] = p THEN NewPosition ELSE fd[s]
               ELSE fd[s]]
  BY DEF Rewrite, NewPosition
<1>6. fd' \in [Sessions -> {NoFile} \union Inodes']
  BY <1>1, <1>3, <1>5 DEF LocalsType
<1>7. LocalsType'
  BY <1>1, <1>2, <1>6 DEF LocalsType, PerLogin
<1>8. ASSUME NEW s \in Sessions
      PROVE  Holds(s)'
  <2>1. Holds(s) /\ pc'[s] = pc[s] /\ mem'[s] = mem[s]
    BY <1>2 DEF AtomicInv
  <2>2. CASE pc[s] \in {"lock", "load"}
    <3>1. fd[s] \in Inodes /\ fd'[s] \in {fd[s], NewPosition}
      BY <1>5, <2>1, <2>2 DEF Holds
    <3>2. fd'[s] \in Inodes'
      BY <1>3, <3>1
    <3> QED
      BY <2>1, <2>2, <3>2 DEF Holds
  <2>3. CASE pc[s] \notin {"lock", "load"}
    <3>1. fd'[s] = fd[s]
      BY <1>5, <2>3
    <3>2. pc[s] = "publish" => raced' \/ (dir' = dir /\ raced' = raced)
      <4>1. raced \in BOOLEAN
        BY <1>1 DEF TypeInv
      <4>2. CASE dir = p
        BY <1>2, <4>2 DEF AboutToPublish
      <4>3. CASE dir # p
        BY <1>2, <4>1, <4>3
      <4> QED
        BY <4>2, <4>3
    <3>3. \A i \in Inodes : i \in Inodes' /\ contents'[i] = contents[i]
      BY <1>3
    <3> QED
      BY <2>1, <3>1, <3>2, <3>3, HoldsStill
  <2> QED
    BY <2>2, <2>3
<1>9. TypeInv'
  BY <1>1, <1>2, <1>4, <1>7 DEF TypeInv
<1> QED
  BY <1>8, <1>9 DEF AtomicInv

LEMMA CreateKeepsAtomicInv ==
  ASSUME AtomicInv, NEW c, CliCreateTmp(c)
  PROVE  AtomicInv'
<1>1. TypeInv /\ FileType /\ LocalsType
  BY DEF AtomicInv, TypeInv
<1>2. /\ contents' = Append(contents, Malformed)
      /\ UNCHANGED <<now, dir, durable, locals, raced, edited>>
  BY DEF CliCreateTmp, history
<1>3. /\ \E S : contents' \in Seq(S)
      /\ Inodes' = Inodes \union {NewPosition}
      /\ \A i \in Inodes : contents'[i] = contents[i]
  BY <1>1, <1>2, NewPositionAppends
<1>4. FileType'
  BY <1>1, <1>2, <1>3 DEF FileType
<1>5. LocalsType'
  BY <1>1, <1>2, <1>3, LocalsTypeGrows
<1>6. \A s \in Sessions : Holds(s)'
  BY <1>2, <1>3, HoldsStill DEF AtomicInv, locals
<1> QED
  BY <1>1, <1>2, <1>4, <1>5, <1>6 DEF AtomicInv, TypeInv

LEMMA RenameKeepsAtomicInv ==
  ASSUME AtomicInv, NEW c, CliRename(c), tmp \in {NoFile} \union Inodes
  PROVE  AtomicInv'
<1>1. TypeInv /\ FileType /\ LocalsType
  BY DEF AtomicInv, TypeInv
<1>2. /\ UNCHANGED <<now, contents, locals, edited>>
      /\ dir' = tmp /\ tmp # NoFile /\ durable' = {dir'}
      /\ raced' = (raced \/ AboutToPublish # {})
  BY CliAssumption DEF CliRename, PointTo
<1>3. Inodes' = Inodes
  BY <1>2 DEF Inodes
<1>4. FileType'
  BY <1>1, <1>2, <1>3 DEF FileType
<1>5. LocalsType'
  BY <1>1, <1>2, <1>3, LocalsTypeGrows
<1>6. ASSUME NEW s \in Sessions
      PROVE  Holds(s)'
  <2>1. Holds(s) /\ pc'[s] = pc[s] /\ fd'[s] = fd[s] /\ mem'[s] = mem[s]
    BY <1>2 DEF AtomicInv, locals
  <2>2. pc[s] = "publish" => raced'
    BY <1>2 DEF AboutToPublish
  <2>3. \A i \in Inodes : i \in Inodes' /\ contents'[i] = contents[i]
    BY <1>2, <1>3
  <2> QED
    BY <2>1, <2>2, <2>3, HoldsStill
<1> QED
  BY <1>1, <1>2, <1>4, <1>5, <1>6 DEF AtomicInv, TypeInv

-----------------------------------------------------------------------------
(***************************************************************************)
(* Types.                                                                  *)
(***************************************************************************)

CliTypedInv ==
  /\ TypedInv
  /\ tmp \in {NoFile} \union Inodes
  /\ emptied \subseteq Inodes
  /\ \A i \in emptied : contents[i] = Malformed
  /\ CommandsType
  /\ \A c \in Commands : Typed(cli[c].mem, now)
  /\ stale \in BOOLEAN
  /\ mixed \in BOOLEAN

\* What a command does leaves the other commands alone, but for the position
\* of an inode they have open.
SameCommand(c) ==
  /\ cli'[c].pc = cli[c].pc /\ cli'[c].mem = cli[c].mem
  /\ cli'[c].code = cli[c].code /\ cli'[c].rc = cli[c].rc

\* The command goes on with what it has.
SameMemory(c) ==
  cli'[c].mem = cli[c].mem /\ cli'[c].code = cli[c].code /\ cli'[c].rc = cli[c].rc

LEMMA FieldsOfCommand ==
  ASSUME CommandsType, NEW c \in Commands
  PROVE  /\ cli[c].pc \in CliPCs /\ cli[c].mem \in Config
         /\ cli[c].fd \in {NoFile} \union Inodes
         /\ cli[c].code \in Codes /\ cli[c].rc \in CliAnswers
         /\ cli[c] = [pc |-> cli[c].pc, mem |-> cli[c].mem, fd |-> cli[c].fd,
                      code |-> cli[c].code, rc |-> cli[c].rc]
  BY DEF CommandsType

\* Where the inodes are not taken away, a command remains one.
LEMMA CommandType ==
  ASSUME CommandsType, NEW c \in Commands, NEW S, Inodes \subseteq S
  PROVE  cli[c] \in [pc : CliPCs, mem : Config, fd : {NoFile} \union S,
                     code : Codes, rc : CliAnswers]
<1>1. cli[c] \in [pc : CliPCs, mem : Config, fd : {NoFile} \union Inodes,
                  code : Codes, rc : CliAnswers]
  BY DEF CommandsType
<1> QED
  BY <1>1

LEMMA ReopenedEffect ==
  ASSUME CommandsType, NEW c \in Commands, NEW p, NEW q \in Inodes',
         Inodes \subseteq Inodes', NEW place \in CliPCs,
         cli' = Reopened(c, p, q, place)
  PROVE  /\ CommandsType'
         /\ cli'[c].pc = place /\ cli'[c].fd = q /\ cli'[c].mem = cli[c].mem
         /\ cli'[c].code = cli[c].code /\ cli'[c].rc = cli[c].rc
         /\ \A d \in Commands \ {c} :
              SameCommand(d) /\ cli'[d].fd \in {cli[d].fd, q}
<1>1. cli'[c] = [cli[c] EXCEPT !.pc = place, !.fd = q]
  BY DEF Reopened
<1>2. /\ cli'[c].pc = place /\ cli'[c].fd = q /\ cli'[c].mem = cli[c].mem
      /\ cli'[c].code = cli[c].code /\ cli'[c].rc = cli[c].rc
      /\ cli'[c] \in [pc : CliPCs, mem : Config, fd : {NoFile} \union Inodes',
                      code : Codes, rc : CliAnswers]
  BY <1>1, FieldsOfCommand
<1>3. ASSUME NEW d \in Commands \ {c}
      PROVE  /\ SameCommand(d) /\ cli'[d].fd \in {cli[d].fd, q}
             /\ cli'[d] \in [pc : CliPCs, mem : Config,
                             fd : {NoFile} \union Inodes',
                             code : Codes, rc : CliAnswers]
  <2> DEFINE place2 == IF cli[d].fd = p THEN q ELSE cli[d].fd
  <2>1. cli'[d] = [cli[d] EXCEPT !.fd = place2]
    BY DEF Reopened
  <2>2. place2 \in {cli[d].fd, q}
    OBVIOUS
  <2> HIDE DEF place2
  <2> QED
    BY <2>1, <2>2, FieldsOfCommand DEF SameCommand
<1>4. cli' = [d \in Commands |-> cli'[d]]
  BY DEF Reopened
<1>5. CommandsType'
  BY <1>2, <1>3, <1>4 DEF CommandsType
<1> QED
  BY <1>2, <1>3, <1>5

\* The command goes to another place with what it has.
LEMMA UpdateEffect ==
  ASSUME CommandsType, NEW c \in Commands, Inodes \subseteq Inodes',
         NEW r \in [pc : CliPCs, mem : Config, fd : {NoFile} \union Inodes',
                    code : Codes, rc : CliAnswers],
         cli' = [cli EXCEPT ![c] = r]
  PROVE  /\ CommandsType' /\ cli'[c] = r
         /\ \A d \in Commands \ {c} : cli'[d] = cli[d]
<1>1. cli'[c] = r /\ \A d \in Commands \ {c} : cli'[d] = cli[d]
  BY DEF CommandsType
<1>2. cli' = [d \in Commands |-> cli'[d]]
  BY DEF CommandsType
<1>3. ASSUME NEW d \in Commands
      PROVE  cli'[d] \in [pc : CliPCs, mem : Config, fd : {NoFile} \union Inodes',
                          code : Codes, rc : CliAnswers]
  <2>1. CASE d = c
    BY <1>1, <2>1
  <2>2. CASE d # c
    <3>1. cli'[d] = cli[d]
      BY <1>1, <2>2
    <3> QED
      BY <3>1, CommandType
  <2> QED
    BY <2>1, <2>2
<1> QED
  BY <1>1, <1>2, <1>3 DEF CommandsType

LEMMA NoVerdictCode == NoVerdict.code \in Codes
  BY DEF NoVerdict, Codes

\* A command that ends forgets what it has read.
LEMMA ExitEffect ==
  ASSUME CommandsType, NEW c \in Commands, Inodes \subseteq Inodes',
         NEW result \in CliAnswers, cli' = Exit(c, result)
  PROVE  /\ CommandsType' /\ cli'[c].pc = "done" /\ cli'[c].mem = EmptyConfig
         /\ cli'[c].code = cli[c].code /\ cli'[c].rc = result
         /\ \A d \in Commands \ {c} : cli'[d] = cli[d]
<1> DEFINE r == [NewCommand EXCEPT !.pc = "done", !.code = cli[c].code, !.rc = result]
<1>1. /\ r \in [pc : CliPCs, mem : Config, fd : {NoFile} \union Inodes',
                code : Codes, rc : CliAnswers]
      /\ r.pc = "done" /\ r.mem = EmptyConfig /\ r.code = cli[c].code /\ r.rc = result
  BY FieldsOfCommand, EmptyConfigType DEF NewCommand, CliPCs, Typed
<1>2. cli' = [cli EXCEPT ![c] = r]
  BY DEF Exit
<1> HIDE DEF r
<1> QED
  BY <1>1, <1>2, UpdateEffect

LEMMA KillEffect ==
  ASSUME CommandsType, NEW c \in Commands, CliKill(c)
  PROVE  /\ CommandsType' /\ cli'[c].pc = "killed" /\ cli'[c].mem = EmptyConfig
         /\ cli'[c].rc = "none"
         /\ \A d \in Commands \ {c} : cli'[d] = cli[d]
<1> DEFINE r == [NewCommand EXCEPT !.pc = "killed"]
<1>1. Inodes' = Inodes
  BY DEF CliKill, vars, file, Inodes
<1>2. /\ r \in [pc : CliPCs, mem : Config, fd : {NoFile} \union Inodes',
                code : Codes, rc : CliAnswers]
      /\ r.pc = "killed" /\ r.mem = EmptyConfig /\ r.rc = "none"
  BY NoVerdictCode, EmptyConfigType DEF NewCommand, CliPCs, CliAnswers, Typed
<1>3. cli' = [cli EXCEPT ![c] = r]
  BY DEF CliKill
<1> HIDE DEF r
<1> QED
  BY <1>1, <1>2, <1>3, UpdateEffect

\* What a command leaves in its memory of the file it read.
LEMMA VerifyEffect ==
  ASSUME CliTypedInv, NEW c \in Commands, NEW token \in TypedTokens,
         CliVerify(c, token)
  PROVE  LET o == VerifyCode(contents[dir], token, CliOpts, now)
         IN  /\ UNCHANGED <<vars, tmp, emptied, stale, mixed>>
             /\ cli[c].pc = "start"
             /\ dir \in Inodes /\ Typed(contents[dir], now) /\ token \in Tokens
             /\ o.result \in Successes
             /\ CommandsType' /\ Typed(cli'[c].mem, now)
             /\ cli'[c].code = CodeOf(o, token)
             /\ o.cfg.dirty => /\ cli'[c].pc = "open" /\ cli'[c].mem = o.cfg
                               /\ cli'[c].rc = "none"
             /\ ~o.cfg.dirty => cli'[c].pc = "done" /\ cli'[c].rc = "verified"
             /\ \A d \in Commands \ {c} : cli'[d] = cli[d]
<1> DEFINE o == VerifyCode(contents[dir], token, CliOpts, now)
           code == CodeOf(o, token)
           saves == [NewCommand EXCEPT !.pc = "open", !.mem = o.cfg, !.code = code]
           ends == [NewCommand EXCEPT !.pc = "done", !.code = code, !.rc = "verified"]
<1>1. /\ UNCHANGED <<vars, tmp, emptied, stale, mixed>> /\ cli[c].pc = "start"
      /\ dir # NoFile /\ contents[dir] # Malformed /\ o.result \in Successes
      /\ cli' = [cli EXCEPT ![c] = IF o.cfg.dirty THEN saves ELSE ends]
  BY DEF CliVerify, CodeOf
<1>2. /\ FileType /\ now \in Nat /\ token \in Tokens /\ CliOpts \in VerifyOptions
      /\ CommandsType
  BY LoginAssumption, CliAssumption
     DEF CliTypedInv, TypedInv, AtomicInv, TypeInv, VerifyOptions
<1>3. dir \in Inodes /\ Typed(contents[dir], now)
  BY <1>1, <1>2 DEF FileType, CliTypedInv, TypedInv
<1>4. Typed(o.cfg, now) /\ code \in Codes
  BY <1>1, <1>2, <1>3, VerifyCodeTyped, AcceptedCodeType
<1>5. Inodes' = Inodes
  BY <1>1 DEF vars, file, Inodes
<1> HIDE DEF o, code
<1>6. /\ saves \in [pc : CliPCs, mem : Config, fd : {NoFile} \union Inodes',
                    code : Codes, rc : CliAnswers]
      /\ saves.pc = "open" /\ saves.mem = o.cfg /\ saves.code = code
      /\ saves.rc = "none"
  BY <1>4 DEF NewCommand, CliPCs, CliAnswers, Typed
<1>7. /\ ends \in [pc : CliPCs, mem : Config, fd : {NoFile} \union Inodes',
                   code : Codes, rc : CliAnswers]
      /\ ends.pc = "done" /\ ends.mem = EmptyConfig /\ ends.code = code
      /\ ends.rc = "verified"
  BY <1>4, EmptyConfigType DEF NewCommand, CliPCs, CliAnswers, Typed
<1> HIDE DEF saves, ends
<1> DEFINE r == IF o.cfg.dirty THEN saves ELSE ends
<1>8. /\ CommandsType' /\ cli'[c] = r
      /\ \A d \in Commands \ {c} : cli'[d] = cli[d]
  <2>1. r \in [pc : CliPCs, mem : Config, fd : {NoFile} \union Inodes',
               code : Codes, rc : CliAnswers]
    BY <1>6, <1>7
  <2>2. cli' = [cli EXCEPT ![c] = r]
    BY <1>1
  <2> HIDE DEF r
  <2> QED
    BY <1>2, <1>5, <2>1, <2>2, UpdateEffect
<1>9. Typed(cli'[c].mem, now)
  BY <1>4, <1>6, <1>7, <1>8, EmptyConfigType
<1>10. cli'[c].code = code
  BY <1>6, <1>7, <1>8
<1>11. o.cfg.dirty => cli'[c] = saves
  BY <1>8
<1>12. ~o.cfg.dirty => cli'[c] = ends
  BY <1>8
<1> HIDE DEF r
<1> QED
  BY <1>1, <1>2, <1>3, <1>6, <1>7, <1>8, <1>9, <1>10, <1>11, <1>12 DEF o, code

LEMMA TypedInvStays ==
  ASSUME TypedInv, AtomicInv', UNCHANGED <<now, mem, verdict>>,
         \A i \in Inodes' : \/ i \in Inodes /\ contents'[i] = contents[i]
                            \/ contents'[i] = Malformed
                            \/ Typed(contents'[i], now)
  PROVE  TypedInv'
BY DEF TypedInv

\* What a write leaves is a configuration or cannot be read.
LEMMA OverlaidType ==
  ASSUME NEW c, NEW p, NEW t, Typed(c, t), NEW content \in Overlaid(Stored(c), p)
  PROVE  content = Malformed \/ Typed(content, t)
<1> DEFINE data == Stored(c)
<1>1. data \in Config /\ Typed(data, t)
  BY StoredType, OnlyRecordsTyped DEF Typed
<1>2. CASE content = data \/ content = Malformed
  BY <1>1, <1>2
<1>3. CASE \E code \in ScratchCodes :
             content = [data EXCEPT !.scratch[code] = @ + 1]
  <2>1. PICK code \in ScratchCodes : content = [data EXCEPT !.scratch[code] = @ + 1]
    BY <1>3
  <2> HIDE DEF data
  <2> DEFINE longer == [data.scratch EXCEPT ![code] = @ + 1]
  <2>2. longer \in [ScratchCodes -> Nat]
    BY <1>1 DEF Config
  <2>3. content = [data EXCEPT !.scratch = longer]
    BY <1>1, <2>1 DEF Config
  <2> HIDE DEF longer
  <2>4. content \in Config /\ content.rateLimit = data.rateLimit
    BY <1>1, <2>2, <2>3 DEF Config
  <2> QED
    BY <1>1, <2>4 DEF Typed, StampsInOrder
<1> QED
  BY <1>2, <1>3 DEF Overlaid

\* What is in the file is of no concern to what only changes the commands.
LEMMA QuietCommandKeepsTypes ==
  ASSUME CliTypedInv, UNCHANGED <<vars, tmp, emptied, stale, mixed>>,
         CommandsType', \A d \in Commands : Typed(cli'[d].mem, now)
  PROVE  CliTypedInv'
<1>1. TypedInv'
  BY StepKeepsTypedInv DEF CliTypedInv
<1>2. now' = now /\ contents' = contents /\ Inodes' = Inodes
  BY DEF vars, file, Inodes
<1> QED
  BY <1>1, <1>2 DEF CliTypedInv, Typed

LEMMA MemoryOfCommand ==
  ASSUME CliTypedInv, NEW c \in Commands
  PROVE  Typed(cli[c].mem, now)
BY FieldsOfCommand DEF CliTypedInv, Typed

LEMMA EndingCommandKeepsTypes ==
  ASSUME CliTypedInv, NEW c \in Commands,
         \/ \E token \in TypedTokens : CliVerify(c, token) \/ CliRefuse(c, token)
         \/ CliNothingToRename(c) \/ CliSaveFails(c) \/ CliKill(c)
  PROVE  CliTypedInv'
<1>1. ASSUME NEW token \in TypedTokens, CliVerify(c, token)
      PROVE  CliTypedInv'
  <2>1. /\ UNCHANGED <<vars, tmp, emptied, stale, mixed>>
        /\ CommandsType' /\ Typed(cli'[c].mem, now)
        /\ \A d \in Commands \ {c} : cli'[d] = cli[d]
    BY <1>1, VerifyEffect
  <2>2. \A d \in Commands : Typed(cli'[d].mem, now)
    BY <2>1, MemoryOfCommand
  <2> QED
    BY <2>1, <2>2, QuietCommandKeepsTypes
<1>2. CASE \/ \E token \in TypedTokens : CliRefuse(c, token)
           \/ CliNothingToRename(c) \/ CliSaveFails(c) \/ CliKill(c)
  <2>1. UNCHANGED <<vars, tmp, emptied, stale, mixed>> /\ CommandsType
    BY <1>2 DEF CliRefuse, CliNothingToRename, CliSaveFails, CliKill, CliTypedInv
  <2>2. Inodes' = Inodes
    BY <2>1 DEF vars, file, Inodes
  <2>3. cli' = Exit(c, "failed") \/ CliKill(c)
    BY <1>2 DEF CliRefuse, CliNothingToRename, CliSaveFails
  <2>4. /\ CommandsType' /\ cli'[c].mem = EmptyConfig
        /\ \A d \in Commands \ {c} : cli'[d] = cli[d]
    BY <2>1, <2>2, <2>3, ExitEffect, KillEffect DEF CliAnswers
  <2>5. \A d \in Commands : Typed(cli'[d].mem, now)
    BY <2>4, MemoryOfCommand, EmptyConfigType
  <2> QED
    BY <2>1, <2>4, <2>5, QuietCommandKeepsTypes
<1> QED
  BY <1>1, <1>2

\* What opening path.tmp leaves: nothing in it, and nothing else touched.
LEMMA TruncatingEffect ==
  ASSUME CliTypedInv, NEW c \in Commands, CliOpenTmp(c) \/ CliCreateTmp(c)
  PROVE  /\ NewPosition \notin Inodes /\ NewPosition # NoFile
         /\ Inodes' = Inodes \union {NewPosition}
         /\ \A i \in Inodes : contents'[i] = contents[i]
         /\ contents'[NewPosition] = Malformed /\ Setup' = Setup
         /\ dir' = (IF dir = tmp /\ tmp # NoFile THEN NewPosition ELSE dir)
         /\ raced' = (raced \/ (dir = tmp /\ tmp # NoFile /\ AboutToPublish # {}))
         /\ UNCHANGED <<now, pc, mem, host, verdict, rc, edited, stale>>
         /\ tmp' = NewPosition /\ emptied' = emptied \union {NewPosition}
         /\ mixed' = (mixed \/ Saving # {})
         /\ \A s \in Sessions : fd'[s] = fd[s] \/ (tmp # NoFile /\ FollowsTo(s, tmp))
         /\ CommandsType' /\ cli[c].pc = "open" /\ cli'[c].pc = "write"
         /\ cli'[c].fd = NewPosition /\ SameMemory(c)
         /\ \A d \in Commands \ {c} :
              SameCommand(d) /\ cli'[d].fd \in {cli[d].fd, NewPosition}
<1>1. FileType /\ CommandsType /\ raced \in BOOLEAN
  BY DEF CliTypedInv, TypedInv, AtomicInv, TypeInv
<1>2. /\ contents' = Append(contents, Malformed)
      /\ dir' = (IF dir = tmp /\ tmp # NoFile THEN NewPosition ELSE dir)
      /\ raced' = (raced \/ (dir = tmp /\ tmp # NoFile /\ AboutToPublish # {}))
      /\ UNCHANGED <<now, pc, mem, host, verdict, rc, edited, stale>>
      /\ \A s \in Sessions : fd'[s] = fd[s] \/ (tmp # NoFile /\ FollowsTo(s, tmp))
  <2>1. CASE CliOpenTmp(c)
    <3>1. tmp # NoFile /\ Rewrite(tmp, Malformed) /\ UNCHANGED stale
      BY <2>1 DEF CliOpenTmp
    <3> QED
      BY <1>1, <3>1, RewriteEffect
  <2>2. CASE CliCreateTmp(c)
    BY <1>1, <2>2 DEF CliCreateTmp, locals, history
  <2> QED
    BY <2>1, <2>2
<1>3. /\ tmp' = NewPosition /\ emptied' = emptied \union {NewPosition}
      /\ mixed' = (mixed \/ Saving # {}) /\ cli[c].pc = "open"
  BY DEF CliOpenTmp, CliCreateTmp, NewPosition
<1>4. /\ NewPosition \notin Inodes /\ NewPosition # NoFile
      /\ Inodes' = Inodes \union {NewPosition}
      /\ \A i \in Inodes : contents'[i] = contents[i]
      /\ contents'[NewPosition] = Malformed /\ Setup' = Setup
  BY <1>1, <1>2, NewPositionAppends
<1>5. /\ CommandsType' /\ cli'[c].pc = "write"
      /\ cli'[c].fd = NewPosition /\ SameMemory(c)
      /\ \A d \in Commands \ {c} :
           SameCommand(d) /\ cli'[d].fd \in {cli[d].fd, NewPosition}
  <2>1. CASE CliOpenTmp(c)
    <3>1. cli' = Reopened(c, tmp, NewPosition, "write")
      BY <2>1 DEF CliOpenTmp, NewPosition
    <3> QED
      BY <1>1, <1>4, <3>1, ReopenedEffect DEF CliPCs, SameMemory
  <2>2. CASE CliCreateTmp(c)
    <3> DEFINE r == [cli[c] EXCEPT !.pc = "write", !.fd = NewPosition]
    <3>1. cli' = [cli EXCEPT ![c] = r]
      BY <1>1, <2>2 DEF CliCreateTmp, NewPosition, CommandsType
    <3>2. cli[c] \in [pc : CliPCs, mem : Config, fd : {NoFile} \union Inodes',
                      code : Codes, rc : CliAnswers]
      BY <1>1, <1>4, CommandType
    <3>3. /\ r \in [pc : CliPCs, mem : Config, fd : {NoFile} \union Inodes',
                    code : Codes, rc : CliAnswers]
          /\ r.pc = "write" /\ r.fd = NewPosition
          /\ r.mem = cli[c].mem /\ r.code = cli[c].code /\ r.rc = cli[c].rc
      BY <1>4, <3>2 DEF CliPCs
    <3> HIDE DEF r
    <3>4. /\ CommandsType' /\ cli'[c] = r
          /\ \A d \in Commands \ {c} : cli'[d] = cli[d]
      BY <1>1, <1>4, <3>1, <3>3, UpdateEffect
    <3> QED
      BY <3>3, <3>4 DEF SameCommand, SameMemory
  <2> QED
    BY <2>1, <2>2
<1> QED
  BY <1>2, <1>3, <1>4, <1>5

LEMMA TruncatingKeepsTypes ==
  ASSUME CliTypedInv, NEW c \in Commands,
         CliOpenTmp(c) \/ CliCreateTmp(c)
  PROVE  CliTypedInv'
<1>1. /\ Inodes' = Inodes \union {NewPosition}
      /\ \A i \in Inodes : contents'[i] = contents[i]
      /\ contents'[NewPosition] = Malformed
      /\ UNCHANGED <<now, mem, verdict, stale>>
      /\ tmp' = NewPosition /\ emptied' = emptied \union {NewPosition}
      /\ mixed' = (mixed \/ Saving # {})
      /\ CommandsType' /\ SameMemory(c)
      /\ \A d \in Commands \ {c} : SameCommand(d)
  BY TruncatingEffect
<1>2. AtomicInv'
  BY RewriteKeepsAtomicInv, CreateKeepsAtomicInv DEF CliOpenTmp, CliTypedInv, TypedInv
<1>3. TypedInv'
  BY <1>1, <1>2, TypedInvStays DEF CliTypedInv
<1>4. \A d \in Commands : Typed(cli'[d].mem, now')
  BY <1>1 DEF CliTypedInv, SameCommand, SameMemory
<1>5. emptied' \subseteq Inodes' /\ \A i \in emptied' : contents'[i] = Malformed
  BY <1>1 DEF CliTypedInv
<1> QED
  BY <1>1, <1>3, <1>4, <1>5 DEF CliTypedInv

\* What a write does to the file and to the commands.
LEMMA WriteEffect ==
  ASSUME CliTypedInv, NEW c \in Commands, CliWrite(c)
  PROVE  /\ \E content \in Overlaid(Stored(cli[c].mem), cli[c].fd) :
              Rewrite(cli[c].fd, content) /\ contents'[NewPosition] = content
         /\ NewPosition \notin Inodes /\ NewPosition # NoFile
         /\ Inodes' = Inodes \union {NewPosition}
         /\ \A i \in Inodes : contents'[i] = contents[i]
         /\ Setup' = Setup
         /\ dir' = (IF dir = cli[c].fd THEN NewPosition ELSE dir)
         /\ raced' = (raced \/ (dir = cli[c].fd /\ AboutToPublish # {}))
         /\ UNCHANGED <<now, pc, mem, host, verdict, rc, edited, emptied, mixed>>
         /\ \A s \in Sessions : FollowsTo(s, cli[c].fd)
         /\ CommandsType' /\ cli[c].pc = "write" /\ cli'[c].pc = "rename"
         /\ cli'[c].fd = NewPosition /\ SameMemory(c)
         /\ \A d \in Commands \ {c} :
              SameCommand(d) /\ cli'[d].fd \in {cli[d].fd, NewPosition}
<1>1. AtomicInv /\ FileType /\ CommandsType
  BY DEF CliTypedInv, TypedInv, AtomicInv, TypeInv
<1>2. /\ cli[c].pc = "write" /\ UNCHANGED <<emptied, mixed>>
      /\ cli' = Reopened(c, cli[c].fd, NewPosition, "rename")
  BY DEF CliWrite, NewPosition
<1>3. PICK content \in Overlaid(Stored(cli[c].mem), cli[c].fd) :
        Rewrite(cli[c].fd, content)
  BY DEF CliWrite
<1>4. /\ contents' = Append(contents, content)
      /\ dir' = (IF dir = cli[c].fd THEN NewPosition ELSE dir)
      /\ raced' = (raced \/ (dir = cli[c].fd /\ AboutToPublish # {}))
      /\ UNCHANGED <<now, pc, mem, host, verdict, rc, edited>>
      /\ \A s \in Sessions : FollowsTo(s, cli[c].fd)
  BY <1>1, <1>3, RewriteEffect
<1>5. /\ NewPosition \notin Inodes /\ NewPosition # NoFile
      /\ Inodes' = Inodes \union {NewPosition}
      /\ \A i \in Inodes : contents'[i] = contents[i]
      /\ contents'[NewPosition] = content /\ Setup' = Setup
  BY <1>1, <1>4, NewPositionAppends
<1>6. /\ CommandsType' /\ cli'[c].pc = "rename"
      /\ cli'[c].fd = NewPosition /\ SameMemory(c)
      /\ \A d \in Commands \ {c} :
           SameCommand(d) /\ cli'[d].fd \in {cli[d].fd, NewPosition}
  BY <1>1, <1>2, <1>5, ReopenedEffect DEF CliPCs, SameMemory
<1> QED
  BY <1>2, <1>3, <1>4, <1>5, <1>6

LEMMA WriteKeepsTypes ==
  ASSUME CliTypedInv, NEW c \in Commands, CliWrite(c)
  PROVE  CliTypedInv'
<1>1. AtomicInv
  BY DEF CliTypedInv, TypedInv
<1>2. PICK content \in Overlaid(Stored(cli[c].mem), cli[c].fd) :
        Rewrite(cli[c].fd, content) /\ contents'[NewPosition] = content
  BY WriteEffect
<1>3. AtomicInv'
  BY <1>1, <1>2, RewriteKeepsAtomicInv
<1>4. content = Malformed \/ Typed(content, now)
  BY MemoryOfCommand, OverlaidType
<1>5. /\ Inodes' = Inodes \union {NewPosition}
      /\ \A i \in Inodes : contents'[i] = contents[i]
      /\ UNCHANGED <<now, mem, verdict, emptied, mixed>>
      /\ CommandsType' /\ SameMemory(c)
      /\ \A d \in Commands \ {c} : SameCommand(d)
  BY WriteEffect
<1>6. TypedInv'
  BY <1>2, <1>3, <1>4, <1>5, TypedInvStays DEF CliTypedInv
<1>7. \A d \in Commands : Typed(cli'[d].mem, now')
  BY <1>5 DEF CliTypedInv, SameCommand, SameMemory
<1>8. tmp' \in {NoFile} \union Inodes' /\ stale' \in BOOLEAN
  BY <1>5 DEF CliWrite, CliTypedInv, NewPosition
<1> QED
  BY <1>5, <1>6, <1>7, <1>8 DEF CliTypedInv

LEMMA RenameEffect ==
  ASSUME CliTypedInv, NEW c \in Commands, CliRename(c)
  PROVE  /\ UNCHANGED <<now, contents, locals, edited, emptied, mixed>>
         /\ cli[c].pc = "rename" /\ tmp \in Inodes /\ dir' = tmp /\ tmp' = NoFile
         /\ Inodes' = Inodes /\ Setup' = Setup
         /\ raced' = (raced \/ AboutToPublish # {})
         /\ stale' = (stale \/ AboutToSave # {c})
         /\ CommandsType' /\ cli'[c].pc = "done" /\ cli'[c].rc = "verified"
         /\ cli'[c].mem = EmptyConfig /\ cli'[c].code = cli[c].code
         /\ \A d \in Commands \ {c} : cli'[d] = cli[d]
<1>1. /\ UNCHANGED <<now, contents, locals, edited, emptied, mixed>>
      /\ cli[c].pc = "rename" /\ tmp # NoFile /\ dir' = tmp /\ tmp' = NoFile
      /\ raced' = (raced \/ AboutToPublish # {})
      /\ stale' = (stale \/ AboutToSave # {c})
      /\ cli' = Exit(c, "verified")
  BY DEF CliRename, PointTo
<1>2. CommandsType /\ Inodes' = Inodes /\ Setup' = Setup /\ tmp \in Inodes
  BY <1>1 DEF CliTypedInv, Inodes, Setup
<1>3. /\ CommandsType' /\ cli'[c].pc = "done" /\ cli'[c].rc = "verified"
      /\ cli'[c].mem = EmptyConfig /\ cli'[c].code = cli[c].code
      /\ \A d \in Commands \ {c} : cli'[d] = cli[d]
  BY <1>1, <1>2, ExitEffect DEF CliAnswers
<1> QED
  BY <1>1, <1>2, <1>3

LEMMA RenameKeepsTypes ==
  ASSUME CliTypedInv, NEW c \in Commands, CliRename(c)
  PROVE  CliTypedInv'
<1>1. /\ UNCHANGED <<now, contents, mem, verdict, emptied, mixed>>
      /\ tmp' = NoFile /\ Inodes' = Inodes /\ stale' \in BOOLEAN
      /\ CommandsType' /\ cli'[c].mem = EmptyConfig
      /\ \A d \in Commands \ {c} : cli'[d] = cli[d]
  BY RenameEffect DEF locals
<1>2. AtomicInv'
  BY RenameKeepsAtomicInv DEF CliTypedInv, TypedInv
<1>3. TypedInv'
  BY <1>1, <1>2, TypedInvStays DEF CliTypedInv
<1>4. \A d \in Commands : Typed(cli'[d].mem, now')
  BY <1>1, EmptyConfigType DEF CliTypedInv, Typed
<1> QED
  BY <1>1, <1>3, <1>4 DEF CliTypedInv

\* No step of PamLogin changes a file that was ever in place.
LEMMA StepKeepsContents ==
  ASSUME FileType, [Next]_vars
  PROVE  /\ \A i \in Inodes : i \in Inodes' /\ contents'[i] = contents[i]
         /\ Setup' = Setup
<1>1. contents' = contents \/ \E e : PutInPlace(e)
  <2>1. ASSUME NEW s \in Sessions, Quiet(s)
        PROVE  contents' = contents
    BY <2>1, QuietStaysAway DEF file
  <2>2. CASE \E s \in Sessions : Publish(s)
    BY <2>2 DEF Publish
  <2>3. CASE OwnerReplaces
    BY <2>3 DEF OwnerReplaces
  <2>4. CASE \/ \E s \in Sessions : SyncDir(s)
             \/ OwnerRemoves \/ PowerLoss \/ SetClock \/ UNCHANGED vars
    BY <2>4 DEF SyncDir, OwnerRemoves, PowerLoss, SetClock, vars, file
  <2> QED
    BY <2>1, <2>2, <2>3, <2>4, StepCases
<1> QED
  BY <1>1, ContentsStay

LEMMA CliCases ==
  ASSUME [CliNext]_allVars
  PROVE  \/ \E c \in Commands : CliStep(c)
         \/ /\ [Next]_vars /\ UNCHANGED <<tmp, emptied, cli, mixed>>
            /\ stale' \in {stale, stale \/ (dir' # dir /\ AboutToSave # {})}
            /\ dir' # dir => stale' = (stale \/ AboutToSave # {})
BY DEF CliNext, Beside, LoginStep, AllOver, allVars, cliVars, Next, vars, file

LEMMA BesideKeepsTypes ==
  ASSUME CliTypedInv, [Next]_vars,
         UNCHANGED <<tmp, emptied, cli, mixed>>, stale' \in BOOLEAN
  PROVE  CliTypedInv'
<1>1. TypedInv' /\ (ClockForward => now' >= now) /\ now \in Nat /\ now' \in Nat
  BY StepKeepsTypedInv DEF CliTypedInv, TypedInv, AtomicInv, TypeInv
<1>2. \A i \in Inodes : i \in Inodes' /\ contents'[i] = contents[i]
  BY StepKeepsContents DEF CliTypedInv, TypedInv, AtomicInv, TypeInv
<1>3. CommandsType'
  BY <1>2 DEF CliTypedInv, CommandsType
<1>4. \A c \in Commands : Typed(cli'[c].mem, now')
  <2>1. CASE ClockForward
    BY <1>1, <2>1, MemoryOfCommand, TypedLater
  <2>2. CASE ~ClockForward
    BY <2>2, <1>3, MemoryOfCommand DEF Typed
  <2> QED
    BY <2>1, <2>2
<1> QED
  BY <1>1, <1>2, <1>3, <1>4 DEF CliTypedInv

LEMMA CliStepKeepsTypedInv ==
  ASSUME CliTypedInv, [CliNext]_allVars
  PROVE  CliTypedInv'
<1>1. CASE /\ [Next]_vars /\ UNCHANGED <<tmp, emptied, cli, mixed>>
           /\ stale' \in {stale, stale \/ (dir' # dir /\ AboutToSave # {})}
  <2>1. stale' \in BOOLEAN
    BY <1>1 DEF CliTypedInv
  <2> QED
    BY <1>1, <2>1, BesideKeepsTypes
<1>2. CASE \E c \in Commands : CliStep(c)
  BY <1>2, EndingCommandKeepsTypes, TruncatingKeepsTypes, WriteKeepsTypes,
     RenameKeepsTypes DEF CliStep
<1> QED
  BY <1>1, <1>2, CliCases

LEMMA CliTypedInit ==
  ASSUME CliInit
  PROVE  CliTypedInv
<1>1. TypedInv
  BY TypedInit DEF CliInit
<1>2. NewCommand \in [pc : CliPCs, mem : Config, fd : {NoFile} \union Inodes,
                      code : Codes, rc : CliAnswers]
  BY EmptyConfigType, NoVerdictCode DEF NewCommand, CliPCs, CliAnswers, Typed
<1>3. CommandsType
  BY <1>2 DEF CliInit, CommandsType
<1>4. \A c \in Commands : Typed(cli[c].mem, now)
  BY EmptyConfigType DEF CliInit, NewCommand, Typed
<1> QED
  BY <1>1, <1>3, <1>4 DEF CliInit, CliTypedInv

\* Whatever the logins and the commands do to the file and to each other, the
\* variables have their types: what either reads, the other wrote, or it cannot
\* be read.
THEOREM CommandsTypeCorrect ==
  CliSpec => []CliTypeOK
<1>1. CliTypedInv => CliTypeOK
  <2> SUFFICES ASSUME CliTypedInv
               PROVE  CliTypeOK
    OBVIOUS
  <2>1. TypeOK
    BY TypedInvTypes DEF CliTypedInv
  <2>2. DOMAIN contents = Inodes
    BY DEF CliTypedInv, TypedInv, AtomicInv, TypeInv, FileType, Inodes
  <2>3. /\ tmp \in {NoFile} \union DOMAIN contents
        /\ emptied \subseteq {i \in DOMAIN contents : contents[i] = Malformed}
    BY <2>2 DEF CliTypedInv
  <2>4. \A c \in Commands :
          /\ cli[c].pc \in CliPCs
          /\ cli[c].mem \in Config
          /\ cli[c].fd \in {NoFile} \union DOMAIN contents
          /\ cli[c].code \in Codes
          /\ cli[c].rc \in {"none", "verified", "failed"}
    BY <2>2, FieldsOfCommand DEF CliTypedInv, CliAnswers
  <2> QED
    BY <2>1, <2>3, <2>4 DEF CliTypedInv, CliTypeOK
<1> QED
  BY <1>1, CliTypedInit, CliStepKeepsTypedInv, PTL DEF CliSpec

-----------------------------------------------------------------------------
(***************************************************************************)
(* Whole files.                                                            *)
(***************************************************************************)

Calm == ~mixed /\ ~edited

\* The one command that saves has path.tmp for itself, and path.tmp is not
\* what the path names, nor what a login has read.
OneSaves ==
  /\ dir \in Inodes /\ tmp # dir
  /\ tmp # NoFile => \A s \in Sessions : fd[s] # tmp
  /\ \A c, d \in Saving : c = d
  /\ \A c \in Saving :
       /\ tmp # NoFile /\ cli[c].fd = tmp
       /\ cli[c].pc = "write" => tmp \in emptied
       /\ cli[c].pc = "rename" => contents[tmp] = Stored(cli[c].mem)

SavingInv ==
  /\ CliTypedInv
  /\ Setup \in InitialConfigs
  /\ Calm => OneSaves /\ (contents[dir] = Malformed => Setup = Malformed)

LEMMA StoredIsReadable ==
  ASSUME NEW c, NEW t, Typed(c, t)
  PROVE  Stored(c) # Malformed
BY StoredType, LoginAssumption DEF Typed

LEMMA DescriptorType ==
  ASSUME CliTypedInv, NEW s \in Sessions
  PROVE  fd[s] \in {NoFile} \union Inodes
BY DEF CliTypedInv, TypedInv, AtomicInv, TypeInv, LocalsType

\* A command that neither opens path.tmp nor writes it.
LEMMA FewerSave ==
  ASSUME Calm => OneSaves, NEW c \in Commands,
         UNCHANGED <<contents, dir, fd, tmp, emptied, mixed, edited>>,
         cli'[c].pc \notin {"write", "rename"},
         \A d \in Commands \ {c} : cli'[d] = cli[d]
  PROVE  Calm' => Calm /\ OneSaves'
<1>1. Inodes' = Inodes
  BY DEF Inodes
<1>2. \A d \in Saving' : d \in Saving /\ cli'[d] = cli[d]
  BY DEF Saving
<1> QED
  BY <1>1, <1>2 DEF Calm, OneSaves

LEMMA EndingKeepsSaving ==
  ASSUME SavingInv, NEW c \in Commands,
         \/ \E token \in TypedTokens : CliVerify(c, token) \/ CliRefuse(c, token)
         \/ CliNothingToRename(c) \/ CliSaveFails(c) \/ CliKill(c)
  PROVE  SavingInv'
<1>1. CliTypedInv' /\ CommandsType
  BY EndingCommandKeepsTypes DEF SavingInv, CliTypedInv
<1>2. UNCHANGED <<vars, tmp, emptied, stale, mixed>>
  BY DEF CliVerify, CliRefuse, CliNothingToRename, CliSaveFails, CliKill
<1>3. /\ cli'[c].pc \notin {"write", "rename"}
      /\ \A d \in Commands \ {c} : cli'[d] = cli[d]
  <2>1. ASSUME NEW token \in TypedTokens, CliVerify(c, token)
        PROVE  /\ cli'[c].pc \notin {"write", "rename"}
               /\ \A d \in Commands \ {c} : cli'[d] = cli[d]
    BY <2>1, VerifyEffect DEF SavingInv
  <2>2. CASE cli' = Exit(c, "failed")
    BY <1>1, <1>2, <2>2, ExitEffect DEF CliAnswers, vars, file, Inodes
  <2>3. CASE CliKill(c)
    BY <1>1, <2>3, KillEffect
  <2> QED
    BY <2>1, <2>2, <2>3 DEF CliRefuse, CliNothingToRename, CliSaveFails
<1>4. UNCHANGED <<contents, dir, fd, tmp, emptied, mixed, edited, Setup>>
  BY <1>2 DEF vars, file, locals, history, Setup
<1>5. Calm' => Calm /\ OneSaves'
  BY <1>3, <1>4, FewerSave DEF SavingInv
<1> QED
  BY <1>1, <1>4, <1>5 DEF SavingInv

LEMMA TruncatingKeepsSaving ==
  ASSUME SavingInv, NEW c \in Commands,
         CliOpenTmp(c) \/ CliCreateTmp(c)
  PROVE  SavingInv'
<1>1. CliTypedInv' /\ CliTypedInv
  BY TruncatingKeepsTypes DEF SavingInv
<1>2. /\ NewPosition \notin Inodes /\ NewPosition # NoFile
      /\ Inodes' = Inodes \union {NewPosition}
      /\ \A i \in Inodes : contents'[i] = contents[i]
      /\ Setup' = Setup /\ edited' = edited
      /\ dir' = (IF dir = tmp /\ tmp # NoFile THEN NewPosition ELSE dir)
      /\ tmp' = NewPosition /\ emptied' = emptied \union {NewPosition}
      /\ mixed' = (mixed \/ Saving # {})
      /\ \A s \in Sessions : fd'[s] = fd[s] \/ (tmp # NoFile /\ FollowsTo(s, tmp))
      /\ cli'[c].pc = "write" /\ cli'[c].fd = NewPosition
      /\ \A d \in Commands \ {c} : SameCommand(d)
  BY <1>1, TruncatingEffect
<1>3. SUFFICES ASSUME Calm'
               PROVE  OneSaves' /\ (contents'[dir'] = Malformed => Setup' = Malformed)
  BY <1>1, <1>2 DEF SavingInv
<1>4. Calm /\ Saving = {}
  BY <1>1, <1>2, <1>3 DEF Calm, CliTypedInv
<1>5. /\ dir \in Inodes /\ tmp # dir /\ (contents[dir] = Malformed => Setup = Malformed)
      /\ tmp # NoFile => \A s \in Sessions : fd[s] # tmp
  BY <1>4 DEF SavingInv, OneSaves
<1>6. dir' = dir /\ contents'[dir'] = contents[dir] /\ dir' \in Inodes' /\ tmp' # dir'
  BY <1>2, <1>5
<1>7. \A d \in Saving' : d = c
  BY <1>2, <1>4 DEF Saving, SameCommand
<1>8. \A s \in Sessions : fd'[s] # NewPosition
  BY <1>1, <1>2, <1>5, DescriptorType DEF FollowsTo
<1> QED
  BY <1>2, <1>5, <1>6, <1>7, <1>8 DEF OneSaves

LEMMA WriteKeepsSaving ==
  ASSUME SavingInv, NEW c \in Commands, CliWrite(c)
  PROVE  SavingInv'
<1>1. CliTypedInv' /\ CliTypedInv
  BY WriteKeepsTypes DEF SavingInv
<1>2. /\ NewPosition \notin Inodes /\ NewPosition # NoFile
      /\ Inodes' = Inodes \union {NewPosition}
      /\ \A i \in Inodes : contents'[i] = contents[i]
      /\ Setup' = Setup /\ UNCHANGED <<edited, mixed, emptied>>
      /\ dir' = (IF dir = cli[c].fd THEN NewPosition ELSE dir)
      /\ \A s \in Sessions : FollowsTo(s, cli[c].fd)
      /\ cli[c].pc = "write" /\ cli'[c].pc = "rename"
      /\ cli'[c].fd = NewPosition /\ SameMemory(c)
      /\ \A d \in Commands \ {c} : SameCommand(d)
  BY <1>1, WriteEffect
<1>3. SUFFICES ASSUME Calm'
               PROVE  OneSaves' /\ (contents'[dir'] = Malformed => Setup' = Malformed)
  BY <1>1, <1>2 DEF SavingInv
<1>4. Calm /\ OneSaves /\ (contents[dir] = Malformed => Setup = Malformed)
  BY <1>2, <1>3 DEF Calm, SavingInv
<1>5. /\ c \in Saving /\ dir \in Inodes /\ cli[c].fd = tmp
      /\ tmp # dir /\ tmp \in emptied /\ \A s \in Sessions : fd[s] # tmp
  BY <1>2, <1>4 DEF Saving, OneSaves
<1>6. contents'[NewPosition] = Stored(cli[c].mem)
  <2>1. \E content \in Overlaid(Stored(cli[c].mem), cli[c].fd) :
          contents'[NewPosition] = content
    BY <1>1, WriteEffect
  <2> QED
    BY <1>5, <2>1 DEF Overlaid
<1>7. dir' = dir /\ contents'[dir'] = contents[dir] /\ dir' \in Inodes'
  BY <1>2, <1>5
<1>8. tmp' = NewPosition
  BY <1>5 DEF CliWrite, NewPosition
<1>9. \A d \in Saving' : d = c
  BY <1>2, <1>4, <1>5 DEF Saving, SameCommand, OneSaves
<1>10. \A s \in Sessions : fd'[s] # NewPosition
  BY <1>1, <1>2, <1>5, DescriptorType DEF FollowsTo
<1> QED
  BY <1>2, <1>4, <1>5, <1>6, <1>7, <1>8, <1>9, <1>10 DEF OneSaves, SameMemory

LEMMA RenameKeepsSaving ==
  ASSUME SavingInv, NEW c \in Commands, CliRename(c)
  PROVE  SavingInv'
<1>1. CliTypedInv' /\ CliTypedInv
  BY RenameKeepsTypes DEF SavingInv
<1>2. /\ UNCHANGED <<contents, edited, emptied, mixed, Setup, Inodes>>
      /\ cli[c].pc = "rename" /\ tmp \in Inodes /\ dir' = tmp /\ tmp' = NoFile
      /\ cli'[c].pc = "done"
      /\ \A d \in Commands \ {c} : cli'[d] = cli[d]
  BY <1>1, RenameEffect
<1>3. SUFFICES ASSUME Calm'
               PROVE  OneSaves' /\ (contents'[dir'] = Malformed => Setup' = Malformed)
  BY <1>1, <1>2 DEF SavingInv
<1>4. Calm /\ OneSaves /\ c \in Saving
  BY <1>2, <1>3 DEF Calm, SavingInv, Saving
<1>5. contents[tmp] = Stored(cli[c].mem) /\ contents[tmp] # Malformed /\ tmp # NoFile
  BY <1>1, <1>2, <1>4, MemoryOfCommand, StoredIsReadable DEF OneSaves
<1>6. Saving' = {}
  BY <1>2, <1>4 DEF Saving, OneSaves
<1> QED
  BY <1>2, <1>5, <1>6 DEF OneSaves

\* A login opens what the path names, or closes what it has open.
LEMMA StepKeepsDescriptors ==
  ASSUME AtomicInv, [Next]_vars, NEW s \in Sessions
  PROVE  fd'[s] \in {fd[s], dir, NoFile}
<1>1. LocalsType
  BY DEF AtomicInv, TypeInv
<1>2. ASSUME NEW t \in Sessions, Quiet(t)
      PROVE  fd'[s] \in {fd[s], dir, NoFile}
  <2>1. CASE s # t
    BY <1>2, <2>1, QuietKeepsLocals DEF OthersStay
  <2>2. CASE s = t
    BY <1>1, <1>2, <2>2
    DEF Quiet, Open, OpenNothing, Lock, Load, LoadFails, Grace, AskForCode,
        PromptFails, Accept, Reject, NothingToWrite, CheckPasses, CheckFails,
        WriteFails, Kill, Goto, Answer, LocalsType
  <2> QED
    BY <2>1, <2>2
<1>3. CASE \/ \E t \in Sessions : Publish(t) \/ SyncDir(t)
           \/ OwnerReplaces \/ OwnerRemoves \/ PowerLoss \/ SetClock
           \/ UNCHANGED vars
  BY <1>1, <1>3 DEF Publish, SyncDir, OwnerReplaces, OwnerRemoves, PowerLoss,
                    SetClock, vars, locals, Goto, Answer, LocalsType
<1> QED
  BY <1>2, <1>3, StepCases

LEMMA BesideKeepsSaving ==
  ASSUME SavingInv, [Next]_vars, CliTypedInv',
         UNCHANGED <<tmp, emptied, cli, mixed>>
  PROVE  SavingInv'
<1>1. /\ CliTypedInv /\ FileType /\ edited \in BOOLEAN
      /\ \A s \in Sessions : Typed(mem[s], now)
  BY DEF SavingInv, CliTypedInv, TypedInv, AtomicInv, TypeInv
<1>2. /\ \A i \in Inodes : i \in Inodes' /\ contents'[i] = contents[i]
      /\ Setup' = Setup
  BY <1>1, StepKeepsContents
<1>3. Saving' = Saving
  BY DEF Saving
<1>4. SUFFICES ASSUME Calm'
               PROVE  OneSaves' /\ (contents'[dir'] = Malformed => Setup' = Malformed)
  BY <1>2 DEF SavingInv
<1>5. \/ edited' = edited /\ dir' = dir
      \/ /\ edited' = edited /\ dir' \in Inodes' \ Inodes
         /\ contents'[dir'] # Malformed
      \/ edited'
  <2>1. CASE \E s \in Sessions : Quiet(s)
    BY <2>1, QuietStaysAway DEF file, history
  <2>2. ASSUME NEW s \in Sessions, Publish(s)
        PROVE  /\ edited' = edited /\ dir' \in Inodes' \ Inodes
               /\ contents'[dir'] # Malformed
    <3>1. PutInPlace(Stored(mem[s])) /\ edited' = edited
      BY <2>2 DEF Publish
    <3>2. /\ Len(contents) \in Nat /\ dir' = Len(contents) + 1 /\ dir' \in Inodes'
          /\ contents'[dir'] = Stored(mem[s])
      BY <1>1, <3>1, NewInode
    <3> QED
      BY <1>1, <3>1, <3>2, StoredIsReadable DEF Inodes
  <2>3. CASE OwnerReplaces \/ OwnerRemoves
    BY <2>3 DEF OwnerReplaces, OwnerRemoves
  <2>4. CASE (\E s \in Sessions : SyncDir(s)) \/ SetClock \/ UNCHANGED vars
    BY <2>4 DEF SyncDir, SetClock, vars, file, history
  <2>5. ~PowerLoss
    BY CliAssumption DEF PowerLoss
  <2> QED
    BY <2>1, <2>2, <2>3, <2>4, <2>5, StepCases
<1>6. Calm
  BY <1>1, <1>4, <1>5 DEF Calm
<1>7. OneSaves /\ (contents[dir] = Malformed => Setup = Malformed)
  BY <1>6 DEF SavingInv
<1>8. dir' \in Inodes' /\ tmp # dir' /\ (contents'[dir'] = Malformed => Setup' = Malformed)
  <2>1. tmp \in {NoFile} \union Inodes
    BY <1>1 DEF CliTypedInv
  <2>2. NoFile \notin Inodes'
    BY DEF NoFile, Inodes
  <2> QED
    BY <1>2, <1>4, <1>5, <1>7, <2>1, <2>2 DEF Calm, OneSaves
<1>9. \A c \in Saving : tmp # NoFile => contents'[tmp] = contents[tmp]
  BY <1>1, <1>2 DEF CliTypedInv
<1>10. tmp # NoFile => \A s \in Sessions : fd'[s] # tmp
  BY <1>7, StepKeepsDescriptors DEF OneSaves, SavingInv, CliTypedInv, TypedInv
<1> QED
  BY <1>3, <1>7, <1>8, <1>9, <1>10 DEF OneSaves

LEMMA CliStepKeepsSavingInv ==
  ASSUME SavingInv, [CliNext]_allVars
  PROVE  SavingInv'
<1>1. CliTypedInv'
  BY CliStepKeepsTypedInv DEF SavingInv
<1>2. CASE [Next]_vars /\ UNCHANGED <<tmp, emptied, cli, mixed>>
  BY <1>1, <1>2, BesideKeepsSaving
<1>3. CASE \E c \in Commands : CliStep(c)
  BY <1>3, EndingKeepsSaving, TruncatingKeepsSaving, WriteKeepsSaving,
     RenameKeepsSaving DEF CliStep
<1> QED
  BY <1>2, <1>3, CliCases

LEMMA SavingInit ==
  ASSUME CliInit
  PROVE  SavingInv
<1>1. PICK c \in InitialConfigs : contents = <<c>>
  BY DEF CliInit, Init
<1>2. Setup = c /\ dir = 1 /\ 1 \in Inodes /\ tmp = NoFile /\ contents[dir] = Setup
  BY <1>1 DEF CliInit, Init, Setup, Inodes
<1>3. Saving = {}
  BY DEF CliInit, Saving, NewCommand
<1> QED
  BY <1>1, <1>2, <1>3, CliTypedInit DEF SavingInv, OneSaves, NoFile

\* However many saves die and leave their path.tmp, however many logins write
\* the file meanwhile: as long as no two saves use path.tmp at once and the
\* owner keeps away, a login finds a file that it can read.
THEOREM SavesAreWhole ==
  CliSpec => []SavedWhole
<1>1. SavingInv => SavedWhole
  BY DEF SavingInv, SavedWhole, Calm, OneSaves, Inodes, NoFile
<1> QED
  BY <1>1, SavingInit, CliStepKeepsSavingInv, PTL DEF CliSpec

-----------------------------------------------------------------------------
(***************************************************************************)
(* What a configuration leaves of the codes that the user set up.          *)
(***************************************************************************)

\* Where a time step may be used only once, nobody adjusts the skew: else one
\* step of the clock has several numbers.
SkewStays ==
  (\E c \in InitialConfigs \ {Malformed} : c.disallowReuse)
    => Params.noSkewAdjust /\ CliOpts.disableSkewAdjustment

\* The codes that are good for a number of logins, as set up in this file.
Spendable(first) ==
  SpendCodes \union (IF first.disallowReuse THEN [type : {"totp"}, number : Int] ELSE {})

OptionsKept(first, c) == first.disallowReuse => SameWindow(first, c)

\* The step is not accepted any more: it is on the list of those used, or has
\* left the window.
Blocked(c, step, t) ==
  /\ step < Centre(c, t) + Window(c)
  /\ step \in c.disallowed \/ step + Window(c) <= Centre(c, t)

\* How many more logins the code is good for, and how many it was good for.
Unused(c, code, t) ==
  IF code.type # "totp" THEN Left(c, code)
  ELSE IF Blocked(c, code.number, t) THEN 0 ELSE 1

Worth(first, code) == IF code.type = "totp" THEN 1 ELSE Left(first, code)

One(other, code) == IF other = code THEN 1 ELSE 0

\* With these uses behind them, and one more of this code, no code has been
\* used more often than it is worth.
Affords(first, taken, c, t, code) ==
  /\ OptionsKept(first, c)
  /\ \A other \in Spendable(first) :
       Unused(c, other, t) + taken[other] + One(other, code) <= Worth(first, other)

\* From c to d one use of the code is spent, and perhaps uses of others.
Pays(first, c, d, t, code) ==
  /\ OptionsKept(first, d)
  /\ \A other \in Spendable(first) :
       Unused(d, other, t) + One(other, code) <= Unused(c, other, t)

NoCode == NoVerdict.code

LEMMA NoCodeIsNotSpendable ==
  ASSUME NEW first
  PROVE  NoCode \notin Spendable(first) /\ NoCode.type = "none"
BY DEF NoCode, NoVerdict, Spendable, SpendCodes

LEMMA OneType ==
  ASSUME NEW other, NEW code
  PROVE  /\ One(other, code) \in 0 .. 1
         /\ other = code => One(other, code) = 1
         /\ other # code => One(other, code) = 0
BY DEF One

LEMMA SpendableKinds ==
  ASSUME NEW first \in Config, NEW code \in Spendable(first)
  PROVE  \/ code \in SpendCodes /\ code.type # "totp"
         \/ /\ code = [type |-> "totp", number |-> code.number]
            /\ code.type = "totp" /\ code.number \in Int /\ first.disallowReuse
BY DEF Spendable, SpendCodes

LEMMA UnusedType ==
  ASSUME NEW first \in Config, NEW code \in Spendable(first),
         NEW c \in Config, NEW t
  PROVE  /\ Unused(c, code, t) \in Nat /\ Worth(first, code) \in Nat
         /\ code.type = "totp" => Unused(c, code, t) \in 0 .. 1
<1>1. CASE code \in SpendCodes /\ code.type # "totp"
  BY <1>1, LeftType, ConfigIsShaped DEF Unused, Worth
<1>2. CASE code.type = "totp"
  BY <1>2 DEF Unused, Worth
<1> QED
  BY <1>1, <1>2, SpendableKinds

\* Time blocks more steps, and never frees one.
LEMMA UnusedLater ==
  ASSUME NEW first \in Config, NEW code \in Spendable(first),
         NEW c \in Config, NEW t \in Nat, NEW u \in Nat, t <= u
  PROVE  Unused(c, code, u) <= Unused(c, code, t)
<1>1. CASE code \in SpendCodes /\ code.type # "totp"
  BY <1>1, UnusedType DEF Unused
<1>2. CASE code.type = "totp" /\ code.number \in Int
  <2>1. /\ Centre(c, t) \in Int /\ Centre(c, u) \in Int /\ Centre(c, t) <= Centre(c, u)
        /\ Window(c) \in Nat
    BY TimeStepType, CentreAdvances, StepType
  <2>2. Blocked(c, code.number, t) => Blocked(c, code.number, u)
    BY <1>2, <2>1 DEF Blocked
  <2> QED
    BY <1>2, <2>2 DEF Unused
<1> QED
  BY <1>1, <1>2, SpendableKinds

\* Login records have nothing to do with codes.
LEMMA SameUnused ==
  ASSUME NEW first, NEW c, NEW d, SameCodes(c, d), OnlyRecords(c, d)
  PROVE  /\ OptionsKept(first, c) => OptionsKept(first, d)
         /\ \A code, t : Unused(d, code, t) = Unused(c, code, t)
<1>1. \A code : Left(d, code) = Left(c, code)
  BY SameCodesLeft
<1>2. \A t : Centre(d, t) = Centre(c, t) /\ Window(d) = Window(c)
  BY SameWindowSameCentre DEF OnlyRecords
<1>3. \A code, t : Blocked(d, code.number, t) <=> Blocked(c, code.number, t)
  BY <1>2 DEF Blocked, OnlyRecords
<1>4. \A code, t : Unused(d, code, t) = Unused(c, code, t)
  BY <1>1, <1>3 DEF Unused
<1> QED
  BY <1>4 DEF OptionsKept, OnlyRecords, SameWindow

LEMMA StoredUnused ==
  ASSUME NEW first, NEW c \in Config
  PROVE  /\ OptionsKept(first, c) => OptionsKept(first, Stored(c))
         /\ \A code, t : Unused(Stored(c), code, t) = Unused(c, code, t)
<1>1. SameCodes(c, Stored(c)) /\ OnlyRecords(c, Stored(c))
  BY StoredSameCodes, StoredType, ConfigIsShaped
<1> QED
  BY <1>1, SameUnused

\* What TOTP leaves of a step, on a list that nobody adjusts.
LEMMA StepIsPaid ==
  ASSUME NEW c \in Config, NEW o, o.cfg \in Config, o.counter \in Int,
         NEW token, NEW t \in Nat, c.disallowReuse,
         SameWindow(c, o.cfg), KeepsList(c, o.cfg, t), GoesOnList(c, o, t),
         NEW other, other.type = "totp", other.number \in Int
  PROVE  Unused(o.cfg, other, t) + One(other, CodeOf(o, token)) <= Unused(c, other, t)
<1>1. /\ Centre(c, t) \in Int /\ Window(c) \in Nat
      /\ Centre(o.cfg, t) = Centre(c, t) /\ Window(o.cfg) = Window(c)
  BY TimeStepType, StepType, SameWindowSameCentre
<1>2. Blocked(c, other.number, t) => Blocked(o.cfg, other.number, t)
  <2> SUFFICES ASSUME Blocked(c, other.number, t)
               PROVE  Blocked(o.cfg, other.number, t)
    OBVIOUS
  <2>1. other.number < Centre(c, t) + Window(c)
    BY DEF Blocked
  <2>2. CASE other.number + Window(c) <= Centre(c, t)
    BY <1>1, <2>1, <2>2 DEF Blocked
  <2>3. CASE /\ other.number \in c.disallowed
             /\ ~(other.number + Window(c) <= Centre(c, t))
    <3>1. InWindow(c, t, other.number)
      BY <1>1, <2>1, <2>3 DEF InWindow
    <3>2. other.number \in o.cfg.disallowed
      BY <2>3, <3>1 DEF KeepsList
    <3> QED
      BY <1>1, <2>1, <3>2 DEF Blocked
  <2> QED
    BY <2>2, <2>3 DEF Blocked
<1>3. CASE other # CodeOf(o, token)
  <2>1. One(other, CodeOf(o, token)) = 0
    BY <1>3, OneType
  <2>2. Unused(o.cfg, other, t) \in 0 .. 1 /\ Unused(c, other, t) \in 0 .. 1
    BY DEF Unused
  <2>3. Unused(c, other, t) = 0 => Unused(o.cfg, other, t) = 0
    BY <1>2 DEF Unused
  <2> QED
    BY <2>1, <2>2, <2>3
<1>4. CASE other = CodeOf(o, token)
  <2>1. o.result = "totp" /\ other.number = o.counter
    BY <1>4 DEF CodeOf
  <2>2. /\ InWindow(c, t, other.number)
        /\ other.number \notin c.disallowed /\ other.number \in o.cfg.disallowed
    BY <2>1 DEF GoesOnList
  <2>3. ~Blocked(c, other.number, t) /\ Blocked(o.cfg, other.number, t)
    BY <1>1, <2>2 DEF Blocked, InWindow
  <2>4. Unused(c, other, t) = 1 /\ Unused(o.cfg, other, t) = 0
    BY <2>3 DEF Unused
  <2>5. One(other, CodeOf(o, token)) = 1
    BY <1>4, OneType
  <2> QED
    BY <2>4, <2>5
<1> QED
  BY <1>3, <1>4

\* A code that is accepted is paid for, and what says so is to be written.
LEMMA VerifyCodePays ==
  ASSUME NEW first \in Config, NEW c \in Config, NEW token \in Tokens,
         NEW opts \in VerifyOptions, NEW t \in Nat,
         OptionsKept(first, c), first.disallowReuse => opts.disableSkewAdjustment,
         VerifyCode(c, token, opts, t).result \in Successes
  PROVE  LET o == VerifyCode(c, token, opts, t)
         IN  /\ Pays(first, c, o.cfg, t, CodeOf(o, token))
             /\ CodeOf(o, token) \in Spendable(first) => o.cfg.dirty
<1> DEFINE o == VerifyCode(c, token, opts, t)
           code == CodeOf(o, token)
<1> SUFFICES /\ Pays(first, c, o.cfg, t, code)
             /\ code \in Spendable(first) => o.cfg.dirty
  OBVIOUS
<1>1. o.cfg \in Config /\ o.counter \in Int
  BY VerifyCodeKeepsType
<1>2. SpendsItsCode(c, o, token)
  BY VerifyCodeSpends, ConfigIsShaped
<1>3. first.disallowReuse =>
        SameWindow(c, o.cfg) /\ KeepsList(c, o.cfg, t) /\ GoesOnList(c, o, t)
  BY VerifyCodeTOTP
<1>4. o.result = "totp" /\ c.disallowReuse => o.cfg.dirty
  BY VerifyCodeDirties
<1>5. first.disallowReuse => c.disallowReuse
  BY DEF OptionsKept, SameWindow
<1> HIDE DEF o
<1>6. OptionsKept(first, o.cfg)
  BY <1>3 DEF OptionsKept, SameWindow
<1>7. ASSUME NEW other \in Spendable(first)
      PROVE  Unused(o.cfg, other, t) + One(other, code) <= Unused(c, other, t)
  <2>1. CASE other \in SpendCodes /\ other.type # "totp"
    <3>1. /\ Left(o.cfg, other) <= Left(c, other)
          /\ other = code => Left(o.cfg, other) + 1 <= Left(c, other)
      BY <1>2, <2>1 DEF SpendsItsCode, Spends
    <3>2. Left(o.cfg, other) \in Nat /\ Left(c, other) \in Nat
      BY <1>1, <2>1, LeftType, ConfigIsShaped
    <3>3. Unused(o.cfg, other, t) = Left(o.cfg, other)
          /\ Unused(c, other, t) = Left(c, other)
      BY <2>1 DEF Unused
    <3> HIDE DEF code
    <3> QED
      BY <3>1, <3>2, <3>3, OneType
  <2>2. CASE other.type = "totp" /\ other.number \in Int /\ first.disallowReuse
    BY <1>1, <1>3, <1>5, <2>2, StepIsPaid
  <2> QED
    BY <2>1, <2>2, SpendableKinds
<1>8. code \in Spendable(first) => o.cfg.dirty
  <2> SUFFICES ASSUME code \in Spendable(first)
               PROVE  o.cfg.dirty
    OBVIOUS
  <2>1. CASE code \in SpendCodes
    BY <1>2, <2>1 DEF SpendsItsCode, Spends
  <2>2. CASE code.type = "totp" /\ first.disallowReuse
    BY <1>4, <1>5, <2>2 DEF CodeOf
  <2> HIDE DEF code
  <2> QED
    BY <2>1, <2>2, SpendableKinds
<1> QED
  BY <1>6, <1>7, <1>8 DEF Pays

LEMMA PaidAffords ==
  ASSUME NEW first \in Config, NEW taken \in [Spendable(first) -> Nat],
         NEW c \in Config, NEW d \in Config, NEW t \in Nat, NEW code,
         Affords(first, taken, c, t, NoCode), Pays(first, c, d, t, code)
  PROVE  Affords(first, taken, d, t, code)
<1>1. ASSUME NEW other \in Spendable(first)
      PROVE  Unused(d, other, t) + taken[other] + One(other, code) <= Worth(first, other)
  <2>1. /\ Unused(c, other, t) + taken[other] + One(other, NoCode) <= Worth(first, other)
        /\ Unused(d, other, t) + One(other, code) <= Unused(c, other, t)
    BY DEF Affords, Pays
  <2>2. /\ Unused(c, other, t) \in Nat /\ Unused(d, other, t) \in Nat
        /\ Worth(first, other) \in Nat /\ taken[other] \in Nat
    BY UnusedType
  <2>3. One(other, NoCode) = 0 /\ One(other, code) \in 0 .. 1
    BY NoCodeIsNotSpendable, OneType
  <2> QED
    BY <2>1, <2>2, <2>3
<1> QED
  BY <1>1 DEF Affords, Pays

\* What is paid may be taken, once.
LEMMA PaidIsTaken ==
  ASSUME NEW first \in Config, NEW taken \in [Spendable(first) -> Nat],
         NEW more \in [Spendable(first) -> Nat],
         NEW c \in Config, NEW t \in Nat, NEW code,
         Affords(first, taken, c, t, code),
         \A other \in Spendable(first) : more[other] <= taken[other] + One(other, code)
  PROVE  Affords(first, more, c, t, NoCode)
<1>1. ASSUME NEW other \in Spendable(first)
      PROVE  Unused(c, other, t) + more[other] + One(other, NoCode) <= Worth(first, other)
  <2>1. /\ Unused(c, other, t) + taken[other] + One(other, code) <= Worth(first, other)
        /\ more[other] <= taken[other] + One(other, code)
    BY DEF Affords
  <2>2. /\ Unused(c, other, t) \in Nat /\ Worth(first, other) \in Nat
        /\ taken[other] \in Nat /\ more[other] \in Nat
    BY UnusedType
  <2>3. One(other, NoCode) = 0 /\ One(other, code) \in 0 .. 1
    BY NoCodeIsNotSpendable, OneType
  <2> QED
    BY <2>1, <2>2, <2>3
<1> QED
  BY <1>1 DEF Affords

\* Time, and logins that are refused, cost nothing.
LEMMA AffordsStill ==
  ASSUME NEW first \in Config, NEW taken \in [Spendable(first) -> Nat],
         NEW less \in [Spendable(first) -> Nat],
         NEW c \in Config, NEW t \in Nat, NEW u \in Nat, t <= u, NEW code,
         Affords(first, taken, c, t, code),
         \A other \in Spendable(first) : less[other] <= taken[other]
  PROVE  Affords(first, less, c, u, code)
<1>1. ASSUME NEW other \in Spendable(first)
      PROVE  Unused(c, other, u) + less[other] + One(other, code) <= Worth(first, other)
  <2>1. /\ Unused(c, other, t) + taken[other] + One(other, code) <= Worth(first, other)
        /\ Unused(c, other, u) <= Unused(c, other, t)
        /\ less[other] <= taken[other]
    BY UnusedLater DEF Affords
  <2>2. /\ Unused(c, other, t) \in Nat /\ Unused(c, other, u) \in Nat
        /\ Worth(first, other) \in Nat
        /\ taken[other] \in Nat /\ less[other] \in Nat
    BY UnusedType
  <2>3. One(other, code) \in 0 .. 1
    BY OneType
  <2> QED
    BY <2>1, <2>2, <2>3
<1> QED
  BY <1>1 DEF Affords

\* A configuration in which the codes are as in another.
LEMMA AffordsAlike ==
  ASSUME NEW first, NEW taken, NEW c, NEW d, NEW t, NEW code,
         Affords(first, taken, c, t, code), OptionsKept(first, d),
         \A other : Unused(d, other, t) = Unused(c, other, t)
  PROVE  Affords(first, taken, d, t, code)
BY DEF Affords

-----------------------------------------------------------------------------
(***************************************************************************)
(* Codes that a command and a login compete for.                           *)
(***************************************************************************)

Taken(code) == Cardinality(Outstanding(code)) + Cardinality(CommandsOn(code))

\* How often each code has been used.
Takings == [code \in Spendable(Setup) |-> Taken(code)]

\* Nobody comes between a writer's reading and its writing; a login sees to
\* that, a command does not.
NoneBetween == ~raced /\ ~edited /\ ~stale /\ ~mixed /\ ~Params.allowReadonly

\* A login can pay for the code it has accepted, as long as the path names the
\* file it read; in any case it has something to write.
LoginPays(s) ==
  pc[s] \in {"persist", "publish"} =>
    /\ dir = fd[s] => Affords(Setup, Takings, mem[s], now, verdict[s].code)
    /\ verdict[s].code \in Spendable(Setup) => mem[s].dirty

CommandPays(c) ==
  cli[c].pc \in {"open", "write", "rename"}
    => Affords(Setup, Takings, cli[c].mem, now, cli[c].code)

Balanced ==
  /\ \A i \in Inodes : contents[i] # Malformed => OptionsKept(Setup, contents[i])
  /\ Affords(Setup, Takings, contents[dir], now, NoCode)
  /\ \A s \in Sessions : LoginPays(s)
  /\ \A c \in Commands : CommandPays(c)

\* From a file that cannot be read, nobody gets anywhere.
Untouched ==
  /\ Len(contents) = 1
  /\ \A s \in Sessions :
       /\ pc[s] \notin {"decide", "prompt", "persist", "publish", "syncDir"}
       /\ verdict[s].code.type \notin Successes
  /\ \A c \in Commands :
       cli[c].pc \notin {"open", "write", "rename"} /\ cli[c].rc # "verified"

BothInv ==
  /\ SavingInv
  /\ \A s \in Sessions : rc[s] = "success" => pc[s] = "done"
  /\ NoneBetween => IF Setup = Malformed THEN Untouched ELSE Balanced

LEMMA TakenType ==
  ASSUME NEW A \in SUBSET Sessions, NEW B \in SUBSET Commands
  PROVE  Cardinality(A) + Cardinality(B) \in Nat
<1>1. IsFiniteSet(A) /\ IsFiniteSet(B)
  BY LoginAssumption, CliAssumption, FS_Subset
<1> QED
  BY <1>1, FS_CardinalityType

LEMMA UsersAreSubsets ==
  ASSUME NEW code
  PROVE  Outstanding(code) \in SUBSET Sessions /\ CommandsOn(code) \in SUBSET Commands
BY DEF Outstanding, Syncing, GrantedOn, CommandsOn

LEMMA TakingsType == Takings \in [Spendable(Setup) -> Nat]
BY UsersAreSubsets, TakenType DEF Takings, Taken

LEMMA LaterTakingsType ==
  ASSUME Setup' = Setup,
         \A code \in Spendable(Setup) :
           Outstanding(code)' \in SUBSET Sessions /\ CommandsOn(code)' \in SUBSET Commands
  PROVE  Takings' \in [Spendable(Setup) -> Nat]
BY TakenType DEF Takings, Taken

\* Of a set of codes that have been used, one more use is one more at most.
LEMMA CountsOneMore ==
  ASSUME NEW S, IsFiniteSet(S), NEW A \in SUBSET S, NEW B \in SUBSET S, NEW x \in S,
         NEW more \in BOOLEAN, B \subseteq A \union (IF more THEN {x} ELSE {})
  PROVE  /\ Cardinality(A) \in Nat /\ Cardinality(B) \in Nat
         /\ Cardinality(B) <= Cardinality(A) + (IF more THEN 1 ELSE 0)
<1>1. /\ IsFiniteSet(A) /\ IsFiniteSet(B) /\ Cardinality(A) \in Nat
      /\ Cardinality(B) \in Nat
  BY FS_Subset, FS_CardinalityType
<1>2. CASE more
  <2>1. /\ IsFiniteSet(A \union {x})
        /\ Cardinality(A \union {x})
             = IF x \in A THEN Cardinality(A) ELSE Cardinality(A) + 1
    BY <1>1, FS_AddElement
  <2>2. Cardinality(B) <= Cardinality(A \union {x})
    BY <1>2, <2>1, FS_Subset
  <2> QED
    BY <1>1, <1>2, <2>1, <2>2
<1>3. CASE ~more
  <2>1. B \subseteq A
    BY <1>3
  <2>2. Cardinality(B) <= Cardinality(A)
    BY <1>1, <2>1, FS_Subset
  <2> QED
    BY <1>1, <1>3, <2>2
<1> QED
  BY <1>2, <1>3

\* A step that lets nobody in on such a code.
LEMMA TakingsFall ==
  ASSUME Setup' = Setup,
         \A code \in Spendable(Setup) : /\ Outstanding(code)' \subseteq Outstanding(code)
                                        /\ CommandsOn(code)' \subseteq CommandsOn(code)
  PROVE  /\ Takings' \in [Spendable(Setup) -> Nat]
         /\ \A code \in Spendable(Setup) : Takings'[code] <= Takings[code]
<1>1. Takings' \in [Spendable(Setup) -> Nat]
  <2>1. \A code \in Spendable(Setup) :
          Outstanding(code)' \in SUBSET Sessions /\ CommandsOn(code)' \in SUBSET Commands
    BY UsersAreSubsets
  <2> QED
    BY <2>1, LaterTakingsType
<1>2. ASSUME NEW code \in Spendable(Setup)
      PROVE  Takings'[code] <= Takings[code]
  <2>1. IsFiniteSet(Sessions) /\ IsFiniteSet(Commands)
    BY LoginAssumption, CliAssumption
  <2>2. IsFiniteSet(Outstanding(code)) /\ IsFiniteSet(CommandsOn(code))
    BY <2>1, UsersAreSubsets, FS_Subset
  <2>3. /\ IsFiniteSet(Outstanding(code)') /\ IsFiniteSet(CommandsOn(code)')
        /\ Cardinality(Outstanding(code)') <= Cardinality(Outstanding(code))
        /\ Cardinality(CommandsOn(code)') <= Cardinality(CommandsOn(code))
    BY <2>2, FS_Subset
  <2>4. /\ Cardinality(Outstanding(code)') \in Nat
        /\ Cardinality(Outstanding(code)) \in Nat
        /\ Cardinality(CommandsOn(code)') \in Nat
        /\ Cardinality(CommandsOn(code)) \in Nat
    BY <2>2, <2>3, FS_CardinalityType
  <2>5. Takings'[code] = Cardinality(Outstanding(code)') + Cardinality(CommandsOn(code)')
    BY DEF Takings, Taken
  <2>6. Takings[code] = Cardinality(Outstanding(code)) + Cardinality(CommandsOn(code))
    BY DEF Takings, Taken
  <2> QED
    BY <2>3, <2>4, <2>5, <2>6
<1> QED
  BY <1>1, <1>2

\* A login renames, or a command: one more has been let in on the code.
LEMMA TakingsRise ==
  ASSUME Setup' = Setup, NEW paid,
         \/ \E s \in Sessions : \A code \in Spendable(Setup) :
              /\ Outstanding(code)' \subseteq
                   Outstanding(code) \union (IF code = paid THEN {s} ELSE {})
              /\ CommandsOn(code)' \subseteq CommandsOn(code)
         \/ \E c \in Commands : \A code \in Spendable(Setup) :
              /\ Outstanding(code)' \subseteq Outstanding(code)
              /\ CommandsOn(code)' \subseteq
                   CommandsOn(code) \union (IF code = paid THEN {c} ELSE {})
  PROVE  /\ Takings' \in [Spendable(Setup) -> Nat]
         /\ \A code \in Spendable(Setup) :
              Takings'[code] <= Takings[code] + One(code, paid)
<1>1. Takings' \in [Spendable(Setup) -> Nat]
  <2>1. \A code \in Spendable(Setup) :
          Outstanding(code)' \in SUBSET Sessions /\ CommandsOn(code)' \in SUBSET Commands
    <3>1. \A code : Outstanding(code) \in SUBSET Sessions /\ CommandsOn(code) \in SUBSET Commands
      BY UsersAreSubsets
    <3> QED
      BY <3>1
  <2> QED
    BY <2>1, LaterTakingsType
<1>2. ASSUME NEW code \in Spendable(Setup)
      PROVE  Takings'[code] <= Takings[code] + One(code, paid)
  <2> DEFINE a == Cardinality(Outstanding(code))
             b == Cardinality(CommandsOn(code))
             a2 == Cardinality(Outstanding(code)')
             b2 == Cardinality(CommandsOn(code)')
  <2>1. IsFiniteSet(Sessions) /\ IsFiniteSet(Commands)
    BY LoginAssumption, CliAssumption
  <2>2. /\ Outstanding(code) \subseteq Sessions /\ Outstanding(code)' \subseteq Sessions
        /\ CommandsOn(code) \subseteq Commands /\ CommandsOn(code)' \subseteq Commands
    BY UsersAreSubsets
  <2>3. a \in Nat /\ b \in Nat /\ a2 \in Nat /\ b2 \in Nat
    <3>1. /\ IsFiniteSet(Outstanding(code)) /\ IsFiniteSet(Outstanding(code)')
          /\ IsFiniteSet(CommandsOn(code)) /\ IsFiniteSet(CommandsOn(code)')
      BY <2>1, <2>2, FS_Subset
    <3> QED
      BY <3>1, FS_CardinalityType
  <2>4. Takings'[code] = a2 + b2
    BY DEF Takings, Taken
  <2>5. Takings[code] = a + b
    BY DEF Takings, Taken
  <2>6. ASSUME NEW S, IsFiniteSet(S), NEW A \in SUBSET S, NEW B \in SUBSET S,
               NEW x \in S, B \subseteq A \union (IF code = paid THEN {x} ELSE {})
        PROVE  Cardinality(B) <= Cardinality(A) + One(code, paid)
    BY <2>6, CountsOneMore DEF One
  <2>7. ASSUME NEW S, IsFiniteSet(S), NEW A \in SUBSET S, NEW B \in SUBSET A
        PROVE  Cardinality(B) <= Cardinality(A)
    BY <2>7, FS_Subset
  <2>8. \/ a2 <= a + One(code, paid) /\ b2 <= b
        \/ a2 <= a /\ b2 <= b + One(code, paid)
    <3>1. CASE \E s \in Sessions :
                 /\ Outstanding(code)' \subseteq
                      Outstanding(code) \union (IF code = paid THEN {s} ELSE {})
                 /\ CommandsOn(code)' \subseteq CommandsOn(code)
      BY <2>1, <2>2, <2>6, <2>7, <3>1
    <3>2. CASE \E c \in Commands :
                 /\ Outstanding(code)' \subseteq Outstanding(code)
                 /\ CommandsOn(code)' \subseteq
                      CommandsOn(code) \union (IF code = paid THEN {c} ELSE {})
      BY <2>1, <2>2, <2>6, <2>7, <3>2
    <3> QED
      BY <3>1, <3>2
  <2> HIDE DEF a, b, a2, b2
  <2>9. One(code, paid) \in 0 .. 1
    BY OneType
  <2> QED
    BY <2>3, <2>4, <2>5, <2>8, <2>9
<1> QED
  BY <1>1, <1>2

\* The files and memories that are not written stay in balance.
LEMMA BalancedTypes ==
  ASSUME BothInv, Setup # Malformed
  PROVE  /\ Setup \in Config /\ now \in Nat /\ Takings \in [Spendable(Setup) -> Nat]
         /\ \A s \in Sessions : mem[s] \in Config /\ Typed(mem[s], now)
         /\ \A c \in Commands : cli[c].mem \in Config
         /\ \A i \in Inodes : contents[i] # Malformed =>
                                contents[i] \in Config /\ Typed(contents[i], now)
         /\ NoneBetween => Calm /\ OneSaves /\ dir \in Inodes /\ contents[dir] # Malformed
<1>1. /\ CliTypedInv /\ TypedInv /\ AtomicInv /\ TypeInv /\ FileType
  BY DEF BothInv, SavingInv, CliTypedInv, TypedInv, AtomicInv, TypeInv
<1>2. now \in Nat
  BY <1>1 DEF TypeInv
<1>3. Setup \in Config
  BY <1>1 DEF TypedInv, Typed, FileType, Setup
<1>4. \A c \in Commands : cli[c].mem \in Config
  BY <1>1, FieldsOfCommand DEF CliTypedInv
<1>5. NoneBetween => Calm /\ OneSaves /\ dir \in Inodes /\ contents[dir] # Malformed
  BY DEF BothInv, SavingInv, NoneBetween, Calm, OneSaves
<1> QED
  BY <1>1, <1>2, <1>3, <1>4, <1>5, TakingsType DEF TypedInv, Typed

-----------------------------------------------------------------------------
(***************************************************************************)
(* Steps that let nobody in, and the steps that do.                        *)
(***************************************************************************)

LoginWillPay(s) ==
  pc'[s] \in {"persist", "publish"} =>
    /\ dir' = fd'[s] => Affords(Setup, Takings, mem'[s], now, verdict'[s].code)
    /\ verdict'[s].code \in Spendable(Setup) => mem'[s].dirty

CommandWillPay(c) ==
  cli'[c].pc \in {"open", "write", "rename"}
    => Affords(Setup, Takings, cli'[c].mem, now, cli'[c].code)

\* A login, or a command, that is where it was with what it had.
LoginKeeps(s) ==
  pc'[s] \in {"persist", "publish"} =>
    /\ pc[s] \in {"persist", "publish"}
    /\ mem'[s] = mem[s] /\ verdict'[s] = verdict[s]
    /\ dir' = fd'[s] => dir = fd[s]

CommandKeeps(c) ==
  cli'[c].pc \in {"open", "write", "rename"} =>
    /\ cli[c].pc \in {"open", "write", "rename"}
    /\ cli'[c].mem = cli[c].mem /\ cli'[c].code = cli[c].code

NobodyTakes ==
  \A code \in Spendable(Setup) : /\ Outstanding(code)' \subseteq Outstanding(code)
                                 /\ CommandsOn(code)' \subseteq CommandsOn(code)

\* The files there are, and the new ones, have the options of the first.
OptionsStay ==
  \A i \in Inodes' :
    \/ i \in Inodes /\ contents'[i] = contents[i]
    \/ contents'[i] = Malformed
    \/ OptionsKept(Setup, contents'[i])

LEMMA KeptWillPay ==
  ASSUME Balanced
  PROVE  /\ \A s \in Sessions : LoginKeeps(s) => LoginWillPay(s)
         /\ \A c \in Commands : CommandKeeps(c) => CommandWillPay(c)
BY DEF Balanced, LoginPays, CommandPays, LoginKeeps, CommandKeeps, LoginWillPay,
       CommandWillPay

LEMMA OptionsOfFiles ==
  ASSUME Balanced, Setup' = Setup, OptionsStay
  PROVE  \A i \in Inodes' : contents'[i] # Malformed => OptionsKept(Setup', contents'[i])
BY DEF Balanced, OptionsStay

LEMMA LaterTypes ==
  ASSUME SavingInv'
  PROVE  /\ now' \in Nat /\ \A s \in Sessions : mem'[s] \in Config
         /\ \A c \in Commands : cli'[c].mem \in Config
<1>1. CliTypedInv' /\ TypedInv' /\ TypeInv'
  BY DEF SavingInv, CliTypedInv, TypedInv, AtomicInv
<1>2. \A c \in Commands : cli'[c].mem \in Config
  BY <1>1 DEF CliTypedInv, CommandsType
<1> QED
  BY <1>1, <1>2 DEF TypedInv, Typed, TypeInv

\* Nobody is let in, and perhaps time passes: the balance stays.
LEMMA StillBalanced ==
  ASSUME BothInv, SavingInv', NoneBetween, Setup # Malformed, Setup' = Setup,
         now' >= now, contents'[dir'] = contents[dir], OptionsStay, NobodyTakes,
         \A s \in Sessions : LoginWillPay(s),
         \A c \in Commands : CommandWillPay(c)
  PROVE  Balanced'
<1>1. /\ Setup \in Config /\ now \in Nat /\ Takings \in [Spendable(Setup) -> Nat]
      /\ contents[dir] \in Config /\ Balanced
  BY BalancedTypes DEF BothInv
<1>2. /\ now' \in Nat /\ \A s \in Sessions : mem'[s] \in Config
      /\ \A c \in Commands : cli'[c].mem \in Config
  BY LaterTypes
<1>3. /\ Takings' \in [Spendable(Setup) -> Nat]
      /\ \A code \in Spendable(Setup) : Takings'[code] <= Takings[code]
  BY TakingsFall DEF NobodyTakes
<1>4. ASSUME NEW c \in Config, NEW code, Affords(Setup, Takings, c, now, code)
      PROVE  Affords(Setup', Takings', c, now', code)
  BY <1>1, <1>2, <1>3, <1>4, AffordsStill
<1>5. Affords(Setup', Takings', contents'[dir'], now', NoCode)
  BY <1>1, <1>4 DEF Balanced
<1>6. ASSUME NEW s \in Sessions
      PROVE  LoginPays(s)'
  BY <1>2, <1>4 DEF LoginWillPay, LoginPays
<1>7. ASSUME NEW c \in Commands
      PROVE  CommandPays(c)'
  BY <1>2, <1>4 DEF CommandWillPay, CommandPays
<1>8. \A i \in Inodes' : contents'[i] # Malformed => OptionsKept(Setup', contents'[i])
  BY <1>1, OptionsOfFiles
<1> QED
  BY <1>5, <1>6, <1>7, <1>8 DEF Balanced

\* A writer renames: what it spent is taken.  Whoever else has read the file is
\* too late, and no other command has.
LEMMA ReplacedBalanced ==
  ASSUME BothInv, SavingInv', NoneBetween, Setup # Malformed, Setup' = Setup,
         now' = now, OptionsStay, NEW paid,
         NEW c \in Config, Affords(Setup, Takings, c, now, paid),
         contents'[dir'] = Stored(c),
         \/ \E s \in Sessions : \A code \in Spendable(Setup) :
              /\ Outstanding(code)' \subseteq
                   Outstanding(code) \union (IF code = paid THEN {s} ELSE {})
              /\ CommandsOn(code)' \subseteq CommandsOn(code)
         \/ \E d \in Commands : \A code \in Spendable(Setup) :
              /\ Outstanding(code)' \subseteq Outstanding(code)
              /\ CommandsOn(code)' \subseteq
                   CommandsOn(code) \union (IF code = paid THEN {d} ELSE {}),
         \A s \in Sessions : LoginKeeps(s) /\ dir' # fd'[s],
         \A d \in Commands : cli'[d].pc \notin {"open", "write", "rename"}
  PROVE  Balanced'
<1>1. /\ Setup \in Config /\ now \in Nat /\ Takings \in [Spendable(Setup) -> Nat]
      /\ Balanced
  BY BalancedTypes DEF BothInv
<1>2. /\ Takings' \in [Spendable(Setup) -> Nat]
      /\ \A code \in Spendable(Setup) : Takings'[code] <= Takings[code] + One(code, paid)
  BY TakingsRise
<1>3. Affords(Setup, Takings', c, now, NoCode)
  BY <1>1, <1>2, PaidIsTaken
<1>4. Affords(Setup, Takings', Stored(c), now, NoCode)
  <2>1. OptionsKept(Setup, c)
    BY DEF Affords
  <2> QED
    BY <1>3, <2>1, StoredUnused, AffordsAlike
<1>5. Affords(Setup', Takings', contents'[dir'], now', NoCode)
  BY <1>4
<1>6. ASSUME NEW s \in Sessions
      PROVE  LoginPays(s)'
  <2>1. LoginWillPay(s)
    BY <1>1, KeptWillPay
  <2> QED
    BY <2>1 DEF LoginWillPay, LoginPays
<1>7. \A d \in Commands : CommandPays(d)'
  BY DEF CommandPays
<1>8. \A i \in Inodes' : contents'[i] # Malformed => OptionsKept(Setup', contents'[i])
  BY <1>1, OptionsOfFiles
<1> QED
  BY <1>5, <1>6, <1>7, <1>8 DEF Balanced

-----------------------------------------------------------------------------
(***************************************************************************)
(* The commands' steps and the balance.                                    *)
(***************************************************************************)

LEMMA SameOutstanding ==
  ASSUME UNCHANGED <<pc, verdict, rc>>
  PROVE  \A code : Outstanding(code)' = Outstanding(code)
BY DEF Outstanding, Syncing, GrantedOn, Granted

LEMMA SetupIsInitial ==
  ASSUME BothInv
  PROVE  Setup \in InitialConfigs
BY DEF BothInv, SavingInv

\* Of the commands, only c may have verified something now.
LEMMA OthersVerifyNothing ==
  ASSUME NEW c \in Commands, \A d \in Commands \ {c} : SameCommand(d) \/ cli'[d] = cli[d]
  PROVE  /\ \A code : CommandsOn(code)' \subseteq CommandsOn(code) \union {c}
         /\ \A code : \/ cli'[c].rc # "verified" \/ cli'[c].code # code
                      \/ cli[c].rc = "verified" /\ cli[c].code = code
                      => CommandsOn(code)' \subseteq CommandsOn(code)
         /\ \A d \in Commands \ {c} : CommandKeeps(d)
BY DEF CommandsOn, SameCommand, CommandKeeps

LEMMA EndingKeepsBalance ==
  ASSUME SkewStays, BothInv, SavingInv', NoneBetween, Setup # Malformed,
         NEW c \in Commands,
         \/ \E token \in TypedTokens : CliVerify(c, token) \/ CliRefuse(c, token)
         \/ CliNothingToRename(c) \/ CliSaveFails(c) \/ CliKill(c)
  PROVE  Balanced'
<1>1. UNCHANGED <<vars, tmp, emptied, stale, mixed>>
  BY DEF CliVerify, CliRefuse, CliNothingToRename, CliSaveFails, CliKill
<1>2. /\ UNCHANGED <<now, contents, dir, pc, fd, mem, verdict, rc, Setup, Inodes>>
      /\ CliTypedInv /\ CommandsType /\ now \in Nat
  BY <1>1 DEF vars, file, locals, Setup, Inodes, BothInv, SavingInv, CliTypedInv,
              TypedInv, AtomicInv, TypeInv
<1>3. Balanced /\ Setup \in Config
  BY BalancedTypes DEF BothInv
<1>4. /\ \A d \in Commands \ {c} : cli'[d] = cli[d]
      /\ CommandWillPay(c)
      /\ \A code \in Spendable(Setup) : cli'[c].rc # "verified" \/ cli'[c].code # code
  <2>1. ASSUME NEW token \in TypedTokens, CliVerify(c, token)
        PROVE  /\ \A d \in Commands \ {c} : cli'[d] = cli[d]
               /\ CommandWillPay(c)
               /\ \A code \in Spendable(Setup) :
                    cli'[c].rc # "verified" \/ cli'[c].code # code
    <3> DEFINE o == VerifyCode(contents[dir], token, CliOpts, now)
               code == CodeOf(o, token)
    <3>1. /\ dir \in Inodes /\ Typed(contents[dir], now) /\ token \in Tokens
          /\ o.result \in Successes
          /\ cli'[c].code = code
          /\ o.cfg.dirty => /\ cli'[c].pc = "open" /\ cli'[c].mem = o.cfg
                            /\ cli'[c].rc = "none"
          /\ ~o.cfg.dirty => cli'[c].pc = "done" /\ cli'[c].rc = "verified"
          /\ \A d \in Commands \ {c} : cli'[d] = cli[d]
      BY <1>2, <2>1, VerifyEffect
    <3>2. CliOpts \in VerifyOptions
      BY CliAssumption DEF VerifyOptions
    <3>3. Affords(Setup, Takings, contents[dir], now, NoCode)
      BY <1>3 DEF Balanced
    <3>4. OptionsKept(Setup, contents[dir])
      BY <3>3 DEF Affords
    <3>5. Setup.disallowReuse => CliOpts.disableSkewAdjustment
      BY <1>3, SetupIsInitial DEF SkewStays
    <3>6. /\ Pays(Setup, contents[dir], o.cfg, now, code)
          /\ code \in Spendable(Setup) => o.cfg.dirty
      BY <1>2, <1>3, <3>1, <3>2, <3>4, <3>5, VerifyCodePays DEF Typed
    <3>7. o.cfg \in Config
      BY <1>2, <3>1, <3>2, VerifyCodeKeepsType DEF Typed
    <3> HIDE DEF o, code
    <3>8. Affords(Setup, Takings, o.cfg, now, code)
      BY <1>2, <1>3, <3>1, <3>3, <3>6, <3>7, TakingsType, PaidAffords DEF Typed
    <3> QED
      BY <3>1, <3>6, <3>8 DEF CommandWillPay
  <2>2. CASE cli' = Exit(c, "failed") \/ CliKill(c)
    BY <1>2, <2>2, ExitEffect, KillEffect DEF CliAnswers, CommandWillPay
  <2> QED
    BY <2>1, <2>2 DEF CliRefuse, CliNothingToRename, CliSaveFails
<1>5. NobodyTakes
  BY <1>2, <1>4, SameOutstanding, OthersVerifyNothing DEF NobodyTakes
<1>6. \A d \in Commands : CommandWillPay(d)
  BY <1>3, <1>4, OthersVerifyNothing, KeptWillPay
<1>7. \A s \in Sessions : LoginWillPay(s)
  BY <1>2, <1>3, KeptWillPay DEF LoginKeeps
<1>8. OptionsStay /\ now' >= now
  BY <1>2 DEF OptionsStay
<1> QED
  BY <1>2, <1>5, <1>6, <1>7, <1>8, StillBalanced

LEMMA TruncatingKeepsBalance ==
  ASSUME BothInv, SavingInv', NoneBetween, Setup # Malformed, NEW c \in Commands,
         CliOpenTmp(c) \/ CliCreateTmp(c)
  PROVE  Balanced'
<1>1. CliTypedInv /\ Balanced /\ Setup \in Config /\ OneSaves /\ now \in Nat
  BY BalancedTypes DEF BothInv, SavingInv
<1>2. /\ NewPosition \notin Inodes
      /\ Inodes' = Inodes \union {NewPosition}
      /\ \A i \in Inodes : contents'[i] = contents[i]
      /\ contents'[NewPosition] = Malformed /\ Setup' = Setup
      /\ dir' = (IF dir = tmp /\ tmp # NoFile THEN NewPosition ELSE dir)
      /\ UNCHANGED <<now, pc, mem, verdict, rc>>
      /\ \A s \in Sessions : fd'[s] = fd[s] \/ (tmp # NoFile /\ FollowsTo(s, tmp))
      /\ cli[c].pc = "open" /\ SameMemory(c)
      /\ \A d \in Commands \ {c} : SameCommand(d)
  BY <1>1, TruncatingEffect
<1>3. dir' = dir /\ contents'[dir'] = contents[dir] /\ \A s \in Sessions : fd'[s] = fd[s]
  BY <1>1, <1>2 DEF OneSaves, FollowsTo
<1>4. \A d \in Commands : CommandKeeps(d)
  BY <1>2, OthersVerifyNothing DEF CommandKeeps, SameMemory
<1>5. NobodyTakes
  BY <1>2, SameOutstanding DEF NobodyTakes, CommandsOn, SameMemory, SameCommand
<1>6. OptionsStay /\ now' >= now
  BY <1>1, <1>2 DEF OptionsStay
<1>7. \A s \in Sessions : LoginKeeps(s)
  BY <1>2, <1>3 DEF LoginKeeps
<1> QED
  BY <1>1, <1>2, <1>3, <1>4, <1>5, <1>6, <1>7, KeptWillPay, StillBalanced

LEMMA WriteKeepsBalance ==
  ASSUME BothInv, SavingInv', NoneBetween, Setup # Malformed, NEW c \in Commands,
         CliWrite(c)
  PROVE  Balanced'
<1>1. /\ CliTypedInv /\ Balanced /\ Setup \in Config /\ OneSaves /\ now \in Nat
      /\ cli[c].mem \in Config
  BY BalancedTypes DEF BothInv, SavingInv
<1>2. /\ NewPosition \notin Inodes
      /\ Inodes' = Inodes \union {NewPosition}
      /\ \A i \in Inodes : contents'[i] = contents[i]
      /\ Setup' = Setup
      /\ dir' = (IF dir = cli[c].fd THEN NewPosition ELSE dir)
      /\ UNCHANGED <<now, pc, mem, verdict, rc>>
      /\ \A s \in Sessions : FollowsTo(s, cli[c].fd)
      /\ cli[c].pc = "write" /\ SameMemory(c)
      /\ \A d \in Commands \ {c} : SameCommand(d)
      /\ \E content \in Overlaid(Stored(cli[c].mem), cli[c].fd) :
           contents'[NewPosition] = content
  BY <1>1, WriteEffect
<1>3. c \in Saving /\ cli[c].fd = tmp /\ tmp # NoFile /\ tmp \in emptied
  BY <1>1, <1>2 DEF OneSaves, Saving
<1>4. dir' = dir /\ contents'[dir'] = contents[dir] /\ \A s \in Sessions : fd'[s] = fd[s]
  BY <1>1, <1>2, <1>3 DEF OneSaves, FollowsTo
<1>5. contents'[NewPosition] = Stored(cli[c].mem)
  BY <1>2, <1>3 DEF Overlaid
<1>6. OptionsKept(Setup, contents'[NewPosition])
  <2>1. OptionsKept(Setup, cli[c].mem)
    BY <1>1, <1>2 DEF Balanced, CommandPays, Affords
  <2> QED
    BY <1>1, <1>5, <2>1, StoredUnused
<1>7. \A d \in Commands : CommandKeeps(d)
  BY <1>2, OthersVerifyNothing DEF CommandKeeps, SameMemory
<1>8. NobodyTakes
  BY <1>2, SameOutstanding DEF NobodyTakes, CommandsOn, SameMemory, SameCommand
<1>9. OptionsStay /\ now' >= now
  BY <1>1, <1>2, <1>6 DEF OptionsStay
<1>10. \A s \in Sessions : LoginKeeps(s)
  BY <1>2, <1>4 DEF LoginKeeps
<1> QED
  BY <1>1, <1>2, <1>4, <1>7, <1>8, <1>9, <1>10, KeptWillPay, StillBalanced

LEMMA RenameKeepsBalance ==
  ASSUME BothInv, SavingInv', NoneBetween, NoneBetween', Setup # Malformed,
         NEW c \in Commands, CliRename(c)
  PROVE  Balanced'
<1>1. /\ CliTypedInv /\ Balanced /\ Setup \in Config /\ OneSaves
      /\ cli[c].mem \in Config
  BY BalancedTypes DEF BothInv, SavingInv
<1>2. /\ UNCHANGED <<now, contents, locals>>
      /\ cli[c].pc = "rename" /\ tmp \in Inodes /\ dir' = tmp
      /\ Inodes' = Inodes /\ Setup' = Setup
      /\ stale' = (stale \/ AboutToSave # {c})
      /\ cli'[c].pc = "done" /\ cli'[c].code = cli[c].code
      /\ \A d \in Commands \ {c} : cli'[d] = cli[d]
  BY <1>1, RenameEffect
<1>3. c \in Saving /\ tmp # NoFile /\ contents[tmp] = Stored(cli[c].mem)
  BY <1>1, <1>2 DEF OneSaves, Saving
<1>4. Affords(Setup, Takings, cli[c].mem, now, cli[c].code)
  BY <1>1, <1>2 DEF Balanced, CommandPays
<1>5. \A d \in Commands : cli'[d].pc \notin {"open", "write", "rename"}
  <2>1. AboutToSave = {c}
    BY <1>2 DEF NoneBetween
  <2>2. \A d \in Commands : cli[d].pc \in {"open", "write", "rename"} => d = c
    BY <2>1 DEF AboutToSave, Saving
  <2> QED
    BY <1>2, <2>2
<1>6. \A code \in Spendable(Setup) :
        /\ Outstanding(code)' \subseteq Outstanding(code)
        /\ CommandsOn(code)' \subseteq
             CommandsOn(code) \union (IF code = cli[c].code THEN {c} ELSE {})
  <2>1. \A code : Outstanding(code)' = Outstanding(code)
    BY <1>2, SameOutstanding DEF locals
  <2>2. \A code : CommandsOn(code)' \subseteq
          CommandsOn(code) \union (IF code = cli[c].code THEN {c} ELSE {})
    BY <1>2 DEF CommandsOn
  <2> QED
    BY <2>1, <2>2
<1>7. \A s \in Sessions : LoginKeeps(s) /\ dir' # fd'[s]
  <2>1. \A s \in Sessions : fd'[s] = fd[s] /\ fd[s] # tmp
    BY <1>1, <1>2, <1>3 DEF OneSaves, locals
  <2> QED
    BY <1>2, <2>1 DEF LoginKeeps, locals
<1>8. OptionsStay /\ contents'[dir'] = Stored(cli[c].mem) /\ now' = now
  BY <1>2, <1>3 DEF OptionsStay
<1> QED
  BY <1>1, <1>2, <1>4, <1>5, <1>6, <1>7, <1>8, ReplacedBalanced

-----------------------------------------------------------------------------
(***************************************************************************)
(* The logins' steps and the balance.                                      *)
(***************************************************************************)

DoneAnswers == \A s \in Sessions : rc[s] = "success" => pc[s] = "done"

LEMMA TypesOfLogins ==
  ASSUME BothInv
  PROVE  /\ TypedInv /\ AtomicInv /\ FileType /\ LocalsType /\ now \in Nat
         /\ raced \in BOOLEAN /\ edited \in BOOLEAN /\ stale \in BOOLEAN
         /\ mixed \in BOOLEAN /\ CliTypedInv
BY DEF BothInv, SavingInv, CliTypedInv, TypedInv, AtomicInv, TypeInv

\* What a login decides on, it can pay for.
LEMMA DecidingPays ==
  ASSUME SkewStays, BothInv, NoneBetween, Setup # Malformed, NEW s \in Sessions,
         Grace(s) \/ \E token \in TypedTokens : Accept(s, token)
  PROVE  LoginWillPay(s) /\ pc'[s] = "persist" /\ rc'[s] # "success"
<1>1. /\ PerLogin(mem) /\ PerLogin(verdict) /\ LocalsType /\ now \in Nat
      /\ Typed(mem[s], now) /\ mem[s] \in Config /\ Holds(s)
      /\ host[s] \in Hosts \union {NoHost}
      /\ Setup \in Config /\ Takings \in [Spendable(Setup) -> Nat] /\ Balanced
  BY BalancedTypes, TypesOfLogins
     DEF BothInv, TypedInv, AtomicInv, LocalsType, Typed
<1>2. /\ pc[s] \in {"decide", "prompt"} /\ pc'[s] = "persist"
      /\ fd' = fd /\ rc' = rc /\ dir' = dir
  BY <1>1 DEF Grace, Accept, Goto, file, LocalsType
<1>3. rc'[s] # "success"
  BY <1>2 DEF BothInv
<1>4. fd[s] \in Inodes /\ mem[s] = contents[fd[s]] /\ OptionsKept(Setup, mem[s])
  BY <1>1, <1>2 DEF Holds, Balanced
<1>5. dir = fd[s] => Affords(Setup, Takings, mem[s], now, NoCode)
  BY <1>1, <1>4 DEF Balanced
<1>6. CASE Grace(s)
  <2>1. PICK d \in UpdateLoginRecord(mem[s], host[s], now) : mem'[s] = d
    BY <1>1, <1>6 DEF Grace, Remember, PerLogin
  <2>2. SameCodes(mem[s], d) /\ OnlyRecords(mem[s], d)
    BY <1>1, <2>1, RecordLoginType, UpdateLoginRecordSameCodes, ConfigIsShaped
  <2>3. verdict'[s].code = [type |-> "grace", number |-> 0]
    BY <1>1, <1>6 DEF Grace, Decide, PerLogin
  <2>4. /\ verdict'[s].code \notin Spendable(Setup)
        /\ NoCode \notin Spendable(Setup)
    BY <2>3, NoCodeIsNotSpendable DEF Spendable, SpendCodes
  <2>5. dir = fd[s] => Affords(Setup, Takings, d, now, NoCode)
    <3>1. OptionsKept(Setup, d) /\ \A c, t : Unused(d, c, t) = Unused(mem[s], c, t)
      BY <1>4, <2>2, SameUnused
    <3> QED
      BY <1>5, <3>1, AffordsAlike
  <2>6. dir = fd[s] => Affords(Setup, Takings, d, now, verdict'[s].code)
    BY <2>4, <2>5 DEF Affords, One
  <2> QED
    BY <1>2, <1>3, <2>1, <2>4, <2>6 DEF LoginWillPay
<1>7. ASSUME NEW token \in TypedTokens, Accept(s, token)
      PROVE  LoginWillPay(s)
  <2> DEFINE o == VerifyCode(mem[s], token, VerifyOpts, now)
             code == CodeOf(o, token)
  <2>1. token \in Tokens /\ VerifyOpts \in VerifyOptions
    BY LoginAssumption DEF VerifyOpts, VerifyOptions
  <2>2. o.result \in Successes /\ verdict'[s].code = code
    BY <1>1, <1>7 DEF Accept, Outcome, Decide, PerLogin, CodeOf
  <2>3. PICK d \in RecordLogin(o.cfg, host[s], now) : mem'[s] = d
    BY <1>1, <1>7 DEF Accept, Outcome, Remember, PerLogin
  <2>4. o.cfg \in Config
    BY <1>1, <2>1, VerifyCodeKeepsType DEF Typed
  <2>5. /\ SameCodes(o.cfg, d) /\ OnlyRecords(o.cfg, d)
        /\ o.cfg.dirty => d.dirty
    BY <1>1, <2>3, <2>4, RecordLoginType, RecordLoginSameCodes, ConfigIsShaped
  <2>6. Setup.disallowReuse => VerifyOpts.disableSkewAdjustment
    BY <1>1, SetupIsInitial, LoginAssumption DEF SkewStays, VerifyOpts
  <2>7. /\ Pays(Setup, mem[s], o.cfg, now, code)
        /\ code \in Spendable(Setup) => o.cfg.dirty
    BY <1>1, <1>4, <2>1, <2>2, <2>6, VerifyCodePays DEF Typed
  <2> HIDE DEF o, code
  <2>8. dir = fd[s] => Affords(Setup, Takings, o.cfg, now, code)
    BY <1>1, <1>5, <2>4, <2>7, PaidAffords
  <2>9. OptionsKept(Setup, o.cfg)
    BY <2>7 DEF Pays
  <2>10. OptionsKept(Setup, d) /\ \A c, t : Unused(d, c, t) = Unused(o.cfg, c, t)
    BY <2>5, <2>9, SameUnused
  <2>11. dir = fd[s] => Affords(Setup, Takings, d, now, code)
    BY <2>8, <2>10, AffordsAlike
  <2> QED
    BY <1>2, <2>2, <2>3, <2>5, <2>7, <2>11 DEF LoginWillPay
<1> QED
  BY <1>2, <1>3, <1>6, <1>7

\* What else a login does by itself lets nobody in on a code that is spent.
LEMMA QuietKeepsPaying ==
  ASSUME BothInv, NoneBetween, Setup # Malformed, NEW s \in Sessions, Quiet(s),
         ~Grace(s), \A token \in TypedTokens : ~Accept(s, token)
  PROVE  /\ LoginKeeps(s)
         /\ \A code \in Spendable(Setup) :
              s \in Outstanding(code)' => s \in Outstanding(code)
<1>1. LocalsType /\ Balanced /\ ~Params.allowReadonly /\ (rc[s] = "success" => pc[s] = "done")
  BY BalancedTypes, TypesOfLogins DEF BothInv, NoneBetween
<1>2. dir' = dir
  BY QuietStaysAway DEF file
<1>3. CASE Open(s) \/ Lock(s) \/ Load(s) \/ AskForCode(s) \/ CheckPasses(s)
  <2>1. /\ rc' = rc /\ verdict' = verdict /\ rc[s] # "success"
        /\ pc'[s] \in {"lock", "load", "decide", "prompt", "publish"}
        /\ pc'[s] = "publish" => CheckPasses(s)
        /\ CheckPasses(s) => pc[s] = "persist" /\ fd' = fd /\ mem' = mem
    BY <1>1, <1>3 DEF Open, Lock, Load, AskForCode, CheckPasses, Goto, LocalsType
  <2> QED
    BY <1>2, <2>1 DEF LoginKeeps, Outstanding, Syncing, GrantedOn, Granted
<1>4. CASE \/ OpenNothing(s) \/ LoadFails(s) \/ PromptFails(s)
           \/ \E token \in TypedTokens : Reject(s, token)
           \/ CheckFails(s) \/ \E error \in WriteErrors : WriteFails(s, error)
  <2>1. pc'[s] = "done" /\ rc'[s] # "success"
    BY <1>1, <1>4 DEF OpenNothing, LoadFails, PromptFails, Reject, CheckFails,
                      WriteFails, Answer, LocalsType
  <2> QED
    BY <2>1 DEF LoginKeeps, Outstanding, Syncing, GrantedOn, Granted
<1>5. CASE NothingToWrite(s)
  <2>1. pc'[s] = "done" /\ verdict' = verdict /\ pc[s] = "persist" /\ ~mem[s].dirty
    BY <1>1, <1>5 DEF NothingToWrite, Answer, LocalsType
  <2>2. verdict[s].code \notin Spendable(Setup)
    BY <1>1, <2>1 DEF Balanced, LoginPays
  <2> QED
    BY <2>1, <2>2 DEF LoginKeeps, Outstanding, Syncing, GrantedOn
<1>6. CASE Kill(s)
  <2>1. rc' = rc /\ verdict' = verdict /\ pc[s] # "done" /\ pc'[s] = "killed"
    BY <1>1, <1>6 DEF Kill, Running, LocalsType
  <2> QED
    BY <1>1, <2>1 DEF LoginKeeps, Outstanding, Syncing, GrantedOn, Granted
<1> QED
  BY <1>3, <1>4, <1>5, <1>6 DEF Quiet

LEMMA QuietKeepsBalance ==
  ASSUME SkewStays, BothInv, SavingInv', NoneBetween, Setup # Malformed,
         NEW s \in Sessions, Quiet(s), UNCHANGED <<tmp, emptied, cli, mixed>>
  PROVE  Balanced'
<1>1. AtomicInv /\ now \in Nat /\ Balanced
  BY BalancedTypes, TypesOfLogins DEF BothInv
<1>2. UNCHANGED <<now, contents, dir, Setup, Inodes>> /\ OthersStay(s)
  BY <1>1, QuietStaysAway, QuietKeepsLocals DEF file, Setup, Inodes
<1>3. /\ LoginWillPay(s)
      /\ \A code \in Spendable(Setup) :
           s \in Outstanding(code)' => s \in Outstanding(code)
  <2>1. CASE Grace(s) \/ \E token \in TypedTokens : Accept(s, token)
    <3>1. LoginWillPay(s) /\ pc'[s] = "persist" /\ rc'[s] # "success"
      BY <2>1, DecidingPays
    <3> QED
      BY <3>1 DEF Outstanding, Syncing, GrantedOn, Granted
  <2>2. CASE ~Grace(s) /\ \A token \in TypedTokens : ~Accept(s, token)
    BY <1>1, <2>2, QuietKeepsPaying, KeptWillPay
  <2> QED
    BY <2>1, <2>2
<1>4. \A u \in Sessions \ {s} : LoginKeeps(u)
  BY <1>2 DEF OthersStay, LoginKeeps
<1>5. \A u \in Sessions : LoginWillPay(u)
  BY <1>1, <1>3, <1>4, KeptWillPay
<1>6. \A c \in Commands : CommandWillPay(c)
  BY <1>1, KeptWillPay DEF CommandKeeps
<1>7. NobodyTakes
  <2>1. ASSUME NEW code \in Spendable(Setup)
        PROVE  Outstanding(code)' \subseteq Outstanding(code)
    <3>1. \A u \in Sessions \ {s} : u \in Outstanding(code)' => u \in Outstanding(code)
      BY <1>2 DEF OthersStay, Outstanding, Syncing, GrantedOn, Granted
    <3>2. Outstanding(code)' \subseteq Sessions
      BY DEF Outstanding, Syncing, GrantedOn
    <3> QED
      BY <1>3, <3>1, <3>2
  <2>2. \A code : CommandsOn(code)' = CommandsOn(code)
    BY DEF CommandsOn
  <2> QED
    BY <2>1, <2>2 DEF NobodyTakes
<1>8. OptionsStay /\ now' >= now
  BY <1>1, <1>2 DEF OptionsStay
<1> QED
  BY <1>2, <1>5, <1>6, <1>7, <1>8, StillBalanced

\* The directory comes to the disk, or time passes.
LEMMA OthersKeepBalance ==
  ASSUME ClockForward, BothInv, SavingInv', NoneBetween, Setup # Malformed,
         (\E s \in Sessions : SyncDir(s)) \/ SetClock \/ UNCHANGED vars,
         UNCHANGED <<tmp, emptied, cli, mixed>>
  PROVE  Balanced'
<1>1. TypedInv /\ LocalsType /\ now \in Nat /\ Balanced /\ AtomicInv'
  BY BalancedTypes, TypesOfLogins DEF BothInv, SavingInv, CliTypedInv, TypedInv
<1>2. UNCHANGED <<contents, dir, mem, verdict, Setup, Inodes>>
      \/ \E s \in Sessions : SyncDir(s)
  BY DEF SetClock, vars, file, locals, Setup, Inodes
<1>3. UNCHANGED <<contents, dir, verdict, Setup, Inodes>>
  BY <1>2 DEF SyncDir, Setup, Inodes
<1>4. now' >= now
  BY <1>1, SetClockKeepsTypedInv DEF SyncDir
<1>5. /\ \A u \in Sessions : LoginKeeps(u)
      /\ \A code : Outstanding(code)' \subseteq Outstanding(code)
  <2>1. ASSUME NEW s \in Sessions, SyncDir(s)
        PROVE  /\ \A u \in Sessions : LoginKeeps(u)
               /\ \A code : Outstanding(code)' \subseteq Outstanding(code)
    <3>1. /\ pc[s] = "syncDir" /\ pc'[s] = "done" /\ verdict' = verdict
          /\ \A u \in Sessions \ {s} : /\ pc'[u] = pc[u] /\ fd'[u] = fd[u]
                                       /\ mem'[u] = mem[u] /\ rc'[u] = rc[u]
      BY <1>1, <2>1 DEF SyncDir, Answer, LocalsType, PerLogin
    <3> QED
      BY <1>3, <3>1 DEF LoginKeeps, Outstanding, Syncing, GrantedOn, Granted
  <2>2. CASE SetClock \/ UNCHANGED vars
    BY <2>2 DEF SetClock, vars, locals, file, LoginKeeps, Outstanding, Syncing,
                GrantedOn, Granted
  <2> QED
    BY <2>1, <2>2
<1>6. NobodyTakes
  BY <1>5 DEF NobodyTakes, CommandsOn
<1>7. \A c \in Commands : CommandWillPay(c)
  BY <1>1, KeptWillPay DEF CommandKeeps
<1>8. OptionsStay
  BY <1>3 DEF OptionsStay
<1> QED
  BY <1>1, <1>3, <1>4, <1>5, <1>6, <1>7, <1>8, KeptWillPay, StillBalanced

\* What a login spent is taken when it renames.
LEMMA PublishKeepsBalance ==
  ASSUME BothInv, SavingInv', NoneBetween, NoneBetween', Setup # Malformed,
         NEW s \in Sessions, Publish(s), UNCHANGED <<tmp, emptied, cli, mixed>>,
         dir' # dir => stale' = (stale \/ AboutToSave # {})
  PROVE  Balanced'
<1>1. /\ AtomicInv /\ FileType /\ LocalsType /\ now \in Nat /\ Balanced
      /\ mem[s] \in Config /\ Setup \in Config
      /\ \A u \in Sessions : fd[u] \in {NoFile} \union Inodes
  BY BalancedTypes, TypesOfLogins, DescriptorType DEF BothInv
<1>2. /\ PutInPlace(Stored(mem[s])) /\ pc[s] = "publish"
      /\ raced' = (raced \/ AboutToPublish # {s})
      /\ UNCHANGED <<now, mem, verdict, rc, fd>>
      /\ pc'[s] = "syncDir" /\ \A u \in Sessions \ {s} : pc'[u] = pc[u]
  BY <1>1 DEF Publish, Goto, LocalsType
<1>3. /\ dir' = Len(contents) + 1 /\ Len(contents) \in Nat
      /\ contents'[dir'] = Stored(mem[s]) /\ dir' \notin Inodes /\ dir' # NoFile
      /\ Inodes' = Inodes \union {dir'}
      /\ \A i \in Inodes : contents'[i] = contents[i]
  BY <1>1, <1>2, NewInode DEF Inodes, NoFile
<1>4. Setup' = Setup
  BY <1>1, <1>2, ContentsStay
<1>5. dir = fd[s] /\ dir' # dir
  BY <1>1, <1>2, <1>3 DEF AtomicInv, Holds, NoneBetween, FileType
<1>6. Affords(Setup, Takings, mem[s], now, verdict[s].code)
  BY <1>1, <1>2, <1>5 DEF Balanced, LoginPays
<1>7. \A d \in Commands : cli'[d].pc \notin {"open", "write", "rename"}
  <2>1. AboutToSave = {}
    BY <1>5 DEF NoneBetween
  <2> QED
    BY <2>1 DEF AboutToSave, Saving
<1>8. \A u \in Sessions : LoginKeeps(u) /\ dir' # fd'[u]
  <2>1. \A u \in Sessions : dir' # fd'[u]
    BY <1>1, <1>2, <1>3
  <2> QED
    BY <1>2, <2>1 DEF LoginKeeps
<1>9. \A code \in Spendable(Setup) :
        /\ Outstanding(code)' \subseteq
             Outstanding(code) \union (IF code = verdict[s].code THEN {s} ELSE {})
        /\ CommandsOn(code)' \subseteq CommandsOn(code)
  <2>1. \A code : Outstanding(code)' \subseteq
          Outstanding(code) \union (IF code = verdict[s].code THEN {s} ELSE {})
    BY <1>2 DEF Outstanding, Syncing, GrantedOn, Granted
  <2>2. \A code : CommandsOn(code)' = CommandsOn(code)
    BY DEF CommandsOn
  <2> QED
    BY <2>1, <2>2
<1>10. OptionsStay
  <2>1. OptionsKept(Setup, mem[s])
    BY <1>6 DEF Affords
  <2>2. OptionsKept(Setup, contents'[dir'])
    BY <1>1, <1>3, <2>1, StoredUnused
  <2> QED
    BY <1>3, <2>2 DEF OptionsStay
<1> QED
  BY <1>1, <1>2, <1>3, <1>4, <1>6, <1>7, <1>8, <1>9, <1>10, ReplacedBalanced

-----------------------------------------------------------------------------
(***************************************************************************)
(* Every step, and what follows.                                           *)
(***************************************************************************)

\* Only a login that answers gets "success", and then it is done.
LEMMA DoneAnswersStay ==
  ASSUME LocalsType, DoneAnswers, [Next]_vars
  PROVE  DoneAnswers'
<1>1. ASSUME NEW s \in Sessions, Quiet(s) \/ Publish(s) \/ SyncDir(s)
      PROVE  /\ rc'[s] = "success" => pc'[s] = "done"
             /\ \A u \in Sessions \ {s} : pc'[u] = pc[u] /\ rc'[u] = rc[u]
  <2>1. CASE \/ Open(s) \/ Lock(s) \/ Load(s) \/ AskForCode(s) \/ CheckPasses(s)
             \/ Grace(s) \/ \E token \in TypedTokens : Accept(s, token)
             \/ Publish(s)
    BY <2>1 DEF Open, Lock, Load, AskForCode, CheckPasses, Grace, Accept, Publish,
                Goto, LocalsType, DoneAnswers
  <2>2. CASE \/ OpenNothing(s) \/ LoadFails(s) \/ PromptFails(s)
             \/ \E token \in TypedTokens : Reject(s, token)
             \/ NothingToWrite(s) \/ CheckFails(s) \/ SyncDir(s)
             \/ \E error \in WriteErrors : WriteFails(s, error)
    BY <2>2 DEF OpenNothing, LoadFails, PromptFails, Reject, NothingToWrite,
                CheckFails, WriteFails, SyncDir, Answer, LocalsType
  <2>3. CASE Kill(s)
    BY <2>3 DEF Kill, Running, LocalsType, DoneAnswers
  <2> QED
    BY <1>1, <2>1, <2>2, <2>3 DEF Quiet
<1>2. CASE \/ OwnerReplaces \/ OwnerRemoves \/ SetClock \/ UNCHANGED vars
  BY <1>2 DEF OwnerReplaces, OwnerRemoves, SetClock, vars, locals, DoneAnswers
<1>3. ~PowerLoss
  BY CliAssumption DEF PowerLoss
<1> QED
  BY <1>1, <1>2, <1>3, StepCases DEF DoneAnswers

\* What has come between, has.
LEMMA HistoryGrows ==
  ASSUME BothInv, [CliNext]_allVars, NoneBetween'
  PROVE  NoneBetween
<1>1. /\ raced \in BOOLEAN /\ edited \in BOOLEAN /\ stale \in BOOLEAN /\ mixed \in BOOLEAN
      /\ CliTypedInv
  BY TypesOfLogins
<1>2. ASSUME [Next]_vars, UNCHANGED mixed,
             stale' \in {stale, stale \/ (dir' # dir /\ AboutToSave # {})}
      PROVE  NoneBetween
  <2>1. (raced => raced') /\ (edited => edited')
    <3>1. CASE \E s \in Sessions : Quiet(s)
      BY <3>1, QuietStaysAway DEF history
    <3>2. CASE (\E s \in Sessions : Publish(s)) \/ OwnerReplaces \/ OwnerRemoves
      <4>1. raced => raced'
        BY <3>2 DEF Publish, OwnerReplaces, OwnerRemoves
      <4>2. edited' = edited \/ edited' = TRUE
        BY <3>2 DEF Publish, OwnerReplaces, OwnerRemoves
      <4> QED
        BY <4>1, <4>2
    <3>3. CASE \/ \E s \in Sessions : SyncDir(s)
               \/ PowerLoss \/ SetClock \/ UNCHANGED vars
      BY <3>3 DEF SyncDir, PowerLoss, SetClock, vars, history
    <3> QED
      BY <1>2, <3>1, <3>2, <3>3, StepCases
  <2> QED
    BY <1>1, <1>2, <2>1 DEF NoneBetween
<1>3. ASSUME NEW c \in Commands, CliStep(c)
      PROVE  NoneBetween
  <2>1. CASE \/ \E token \in TypedTokens : CliVerify(c, token) \/ CliRefuse(c, token)
             \/ CliNothingToRename(c) \/ CliSaveFails(c) \/ CliKill(c)
    <3>1. UNCHANGED <<raced, edited, stale, mixed>>
      BY <2>1 DEF CliVerify, CliRefuse, CliNothingToRename, CliSaveFails, CliKill,
                  vars, history
    <3> QED
      BY <1>1, <3>1 DEF NoneBetween
  <2>2. CASE CliOpenTmp(c) \/ CliCreateTmp(c)
    <3>1. (raced => raced') /\ (mixed => mixed') /\ UNCHANGED <<edited, stale>>
      BY <1>1, <2>2, TruncatingEffect
    <3> QED
      BY <1>1, <3>1 DEF NoneBetween
  <2>3. CASE CliWrite(c)
    <3>1. (raced => raced') /\ UNCHANGED <<edited, mixed>>
      BY <1>1, <2>3, WriteEffect
    <3> QED
      BY <1>1, <2>3, <3>1 DEF NoneBetween, CliWrite
  <2>4. CASE CliRename(c)
    <3>1. (raced => raced') /\ (stale => stale') /\ UNCHANGED <<edited, mixed>>
      BY <1>1, <2>4, RenameEffect
    <3> QED
      BY <1>1, <3>1 DEF NoneBetween
  <2> QED
    BY <1>3, <2>1, <2>2, <2>3, <2>4 DEF CliStep
<1> QED
  BY <1>2, <1>3, CliCases

\* Where there is nothing to read, it stays so.
LEMMA UntouchedStays ==
  ASSUME BothInv, NoneBetween, NoneBetween', Setup = Malformed, Untouched,
         [CliNext]_allVars
  PROVE  Untouched'
<1>1. /\ CliTypedInv /\ AtomicInv /\ LocalsType /\ CommandsType
      /\ dir \in Inodes /\ Inodes = {1}
  BY TypesOfLogins DEF CliTypedInv, BothInv, SavingInv, NoneBetween, Calm, OneSaves,
                       Untouched, Inodes
<1>2. contents[dir] = Malformed /\ dir # NoFile
  BY <1>1 DEF Setup, NoFile
<1>3. ASSUME NEW c \in Commands, CliStep(c)
      PROVE  Untouched'
  <2>1. cli[c].pc \notin {"open", "write", "rename"} /\ c \notin AboutToSave
    BY DEF Untouched, AboutToSave, Saving
  <2>2. PICK token \in TypedTokens : CliRefuse(c, token)
    BY <1>2, <1>3, <2>1 DEF CliStep, CliVerify, CliOpenTmp, CliCreateTmp, CliWrite,
         CliRename, CliNothingToRename, CliSaveFails, CliKill
  <2>3. UNCHANGED <<contents, pc, verdict, Inodes>> /\ cli' = Exit(c, "failed")
    BY <2>2 DEF CliRefuse, vars, file, locals, Inodes
  <2>4. /\ cli'[c].pc = "done" /\ cli'[c].rc = "failed"
        /\ \A d \in Commands \ {c} : cli'[d] = cli[d]
    BY <1>1, <2>3, ExitEffect DEF CliAnswers
  <2> QED
    BY <2>3, <2>4 DEF Untouched
<1>4. ASSUME [Next]_vars, UNCHANGED cli
      PROVE  Untouched'
  <2>1. ASSUME NEW s \in Sessions, Quiet(s)
        PROVE  Untouched'
    <3>1. contents' = contents /\ OthersStay(s)
      BY <1>1, <2>1, QuietStaysAway, QuietKeepsLocals DEF file
    <3>2. pc[s] \notin {"decide", "prompt", "persist", "publish", "syncDir"}
      BY DEF Untouched
    <3>3. ~Load(s)
      BY <1>1 DEF Load, AtomicInv, Holds, Setup
    <3>4. Open(s) \/ OpenNothing(s) \/ Lock(s) \/ LoadFails(s) \/ Kill(s)
      BY <2>1, <3>2, <3>3 DEF Quiet, Grace, AskForCode, PromptFails, Accept, Reject,
                              NothingToWrite, CheckPasses, CheckFails, WriteFails
    <3>5. pc'[s] \in {"lock", "load", "done", "killed"} /\ verdict' = verdict
      BY <1>1, <3>4 DEF Open, OpenNothing, Lock, LoadFails, Kill, Goto, Answer,
                        LocalsType
    <3> QED
      BY <1>4, <3>1, <3>5 DEF Untouched, OthersStay
  <2>2. \A s \in Sessions : ~Publish(s) /\ ~SyncDir(s)
    BY DEF Untouched, Publish, SyncDir
  <2>3. ~OwnerReplaces /\ ~OwnerRemoves /\ ~PowerLoss
    BY CliAssumption DEF NoneBetween, OwnerReplaces, OwnerRemoves, PowerLoss
  <2>4. CASE SetClock \/ UNCHANGED vars
    BY <1>4, <2>4 DEF SetClock, vars, file, locals, Untouched
  <2> QED
    BY <1>4, <2>1, <2>2, <2>3, <2>4, StepCases
<1> QED
  BY <1>3, <1>4, CliCases

LEMMA CliStepKeepsBalance ==
  ASSUME ClockForward, SkewStays, BothInv, SavingInv', NoneBetween, NoneBetween',
         Setup # Malformed, [CliNext]_allVars
  PROVE  Balanced'
<1>1. CASE \E c \in Commands : CliStep(c)
  BY <1>1, EndingKeepsBalance, TruncatingKeepsBalance, WriteKeepsBalance,
     RenameKeepsBalance DEF CliStep
<1>2. CASE /\ [Next]_vars /\ UNCHANGED <<tmp, emptied, cli, mixed>>
           /\ dir' # dir => stale' = (stale \/ AboutToSave # {})
  <2>1. ~OwnerReplaces /\ ~OwnerRemoves /\ ~PowerLoss
    BY CliAssumption DEF NoneBetween, OwnerReplaces, OwnerRemoves, PowerLoss
  <2> QED
    BY <1>2, <2>1, StepCases, QuietKeepsBalance, PublishKeepsBalance,
       OthersKeepBalance
<1> QED
  BY <1>1, <1>2, CliCases

LEMMA CliStepKeepsBothInv ==
  ASSUME ClockForward, SkewStays, BothInv, [CliNext]_allVars
  PROVE  BothInv'
<1>1. SavingInv'
  BY CliStepKeepsSavingInv DEF BothInv
<1>2. /\ LocalsType /\ DoneAnswers /\ CliTypedInv /\ FileType
  BY TypesOfLogins DEF BothInv, DoneAnswers
<1>3. DoneAnswers' /\ Setup' = Setup
  <2>1. CASE [Next]_vars
    BY <1>2, <2>1, DoneAnswersStay, StepKeepsContents
  <2>2. ASSUME NEW c \in Commands, CliStep(c)
        PROVE  DoneAnswers' /\ Setup' = Setup
    <3>1. UNCHANGED <<pc, rc>> /\ Setup' = Setup
      <4>1. CASE \/ \E token \in TypedTokens : CliVerify(c, token) \/ CliRefuse(c, token)
                 \/ CliNothingToRename(c) \/ CliSaveFails(c) \/ CliKill(c)
        BY <4>1 DEF CliVerify, CliRefuse, CliNothingToRename, CliSaveFails, CliKill,
                    vars, locals, file, Setup
      <4>2. CASE CliOpenTmp(c) \/ CliCreateTmp(c)
        BY <1>2, <4>2, TruncatingEffect
      <4>3. CASE CliWrite(c)
        BY <1>2, <4>3, WriteEffect
      <4>4. CASE CliRename(c)
        BY <1>2, <4>4, RenameEffect DEF locals
      <4> QED
        BY <2>2, <4>1, <4>2, <4>3, <4>4 DEF CliStep
    <3> QED
      BY <1>2, <3>1 DEF DoneAnswers
  <2> QED
    BY <2>1, <2>2, CliCases
<1>4. NoneBetween' => IF Setup' = Malformed THEN Untouched' ELSE Balanced'
  <2>1. SUFFICES ASSUME NoneBetween'
                 PROVE  IF Setup' = Malformed THEN Untouched' ELSE Balanced'
    OBVIOUS
  <2>2. NoneBetween
    BY <2>1, HistoryGrows
  <2>3. CASE Setup = Malformed
    <3>1. Untouched
      BY <2>2, <2>3 DEF BothInv
    <3> QED
      BY <1>3, <2>1, <2>2, <2>3, <3>1, UntouchedStays
  <2>4. CASE Setup # Malformed
    BY <1>1, <1>3, <2>1, <2>2, <2>4, CliStepKeepsBalance
  <2> QED
    BY <2>3, <2>4
<1> QED
  BY <1>1, <1>3, <1>4 DEF BothInv, DoneAnswers

LEMMA BothInit ==
  ASSUME ClockForward, CliInit
  PROVE  BothInv
<1>1. SavingInv
  BY SavingInit
<1>2. PICK c \in InitialConfigs : contents = <<c>>
  BY DEF CliInit, Init
<1>3. /\ Setup = c /\ dir = 1 /\ Inodes = {1} /\ Len(contents) = 1 /\ contents[dir] = c
  BY <1>2 DEF CliInit, Init, Setup, Inodes
<1>4. /\ \A s \in Sessions : pc[s] = "start" /\ rc[s] = "none" /\ verdict[s] = NoVerdict
      /\ \A d \in Commands : cli[d].pc = "start" /\ cli[d].rc = "none"
  BY DEF CliInit, Init, NewCommand
<1>5. CASE Setup = Malformed
  <2>1. NoVerdict.code.type \notin Successes
    BY DEF NoVerdict, Successes
  <2> QED
    BY <1>1, <1>3, <1>4, <1>5, <2>1 DEF BothInv, Untouched
<1>6. CASE Setup # Malformed
  <2>1. c \in Config /\ now \in Nat
    BY <1>1, <1>3, <1>6 DEF SavingInv, CliTypedInv, TypedInv, Typed, AtomicInv, TypeInv
  <2>2. \A code : Outstanding(code) = {} /\ CommandsOn(code) = {}
    BY <1>4 DEF Outstanding, Syncing, GrantedOn, Granted, CommandsOn
  <2>3. \A code \in Spendable(c) : Takings[code] = 0
    BY <1>3, <2>2, FS_EmptySet DEF Takings, Taken
  <2>4. OptionsKept(c, c)
    BY DEF OptionsKept, SameWindow
  <2>5. ASSUME NEW code \in Spendable(c)
        PROVE  Unused(c, code, now) + Takings[code] + One(code, NoCode) <= Worth(c, code)
    <3>1. Unused(c, code, now) \in Nat /\ Worth(c, code) \in Nat
      BY <2>1, UnusedType
    <3>2. Unused(c, code, now) <= Worth(c, code)
      BY <2>1, <3>1, UnusedType DEF Unused, Worth
    <3>3. One(code, NoCode) = 0
      BY NoCodeIsNotSpendable, OneType
    <3> QED
      BY <2>3, <3>1, <3>2, <3>3
  <2>6. Affords(Setup, Takings, contents[dir], now, NoCode)
    BY <1>3, <2>4, <2>5 DEF Affords
  <2>7. Balanced
    BY <1>3, <1>4, <2>4, <2>6 DEF Balanced, LoginPays, CommandPays
  <2> QED
    BY <1>1, <1>4, <1>6, <2>7 DEF BothInv
<1> QED
  BY <1>5, <1>6

LEMMA BothInvSpendsForBoth ==
  ASSUME BothInv
  PROVE  SpentForBoth
<1>1. SUFFICES ASSUME NoneBetween, NEW code \in CodesGranted \union CodesVerified,
                      Spent(code)
               PROVE  Cardinality(GrantedOn(code)) + Cardinality(CommandsOn(code))
                        <= Uses(code)
  BY DEF SpentForBoth, NoneBetween
<1>2. /\ TypedInv /\ CliTypedInv /\ now \in Nat
  BY TypesOfLogins
<1>3. code \in Codes
  BY <1>1, <1>2, FieldsOfCommand DEF CodesGranted, CodesVerified, TypedInv, CliTypedInv,
                            Verdicts
<1>4. code.type \in Successes
  BY <1>1 DEF Spent, Successes
<1>5. Setup # Malformed
  <2>1. ASSUME Setup = Malformed
        PROVE  FALSE
    <3>1. /\ \A s \in Sessions : verdict[s].code.type \notin Successes
          /\ \A c \in Commands : cli[c].rc # "verified"
      BY <1>1, <2>1 DEF BothInv, Untouched
    <3> QED
      BY <1>1, <1>4, <3>1 DEF CodesGranted, CodesVerified
  <2> QED
    BY <2>1
<1>6. /\ Setup \in Config /\ contents[dir] \in Config /\ Balanced
      /\ Takings \in [Spendable(Setup) -> Nat]
  BY <1>1, <1>5, BalancedTypes DEF BothInv
<1>7. /\ code \in Spendable(Setup)
      /\ Uses(code) \in Nat /\ Worth(Setup, code) <= Uses(code)
  <2>1. CASE code.type = "scratch"
    <3>1. code \in SpendCodes
      BY <1>3, <2>1 DEF Codes, SpendCodes, Failures
    <3>2. Uses(code) = Setup.scratch[code.number] /\ Worth(Setup, code) = Uses(code)
      BY <2>1 DEF Worth, Left, Uses
    <3>3. Worth(Setup, code) \in Nat
      BY <1>6, <3>1, UnusedType DEF Spendable
    <3> QED
      BY <3>1, <3>2, <3>3 DEF Spendable
  <2>2. CASE code.type = "hotp"
    <3>1. code \in SpendCodes
      BY <1>3, <2>2 DEF Codes, SpendCodes, Failures
    <3>2. Uses(code) = 1 /\ Worth(Setup, code) \in 0 .. 1
      BY <2>2 DEF Worth, Left, Uses
    <3> QED
      BY <3>1, <3>2 DEF Spendable
  <2>3. CASE code.type = "totp" /\ Setup.disallowReuse
    <3>1. Uses(code) = 1 /\ Worth(Setup, code) = 1
      BY <2>3 DEF Worth, Uses
    <3>2. code \in Spendable(Setup)
      BY <1>3, <2>3 DEF Codes, Spendable, Failures
    <3> QED
      BY <3>1, <3>2
  <2> QED
    BY <1>1, <2>1, <2>2, <2>3 DEF Spent
<1>8. Takings[code] <= Worth(Setup, code)
  <2>1. Unused(contents[dir], code, now) + Takings[code] + One(code, NoCode)
          <= Worth(Setup, code)
    BY <1>6, <1>7 DEF Balanced, Affords
  <2>2. /\ Unused(contents[dir], code, now) \in Nat /\ Worth(Setup, code) \in Nat
        /\ Takings[code] \in Nat /\ One(code, NoCode) \in 0 .. 1
    BY <1>6, <1>7, UnusedType, OneType
  <2> QED
    BY <2>1, <2>2
<1>9. Cardinality(GrantedOn(code)) + Cardinality(CommandsOn(code)) <= Takings[code]
  <2>1. GrantedOn(code) \in SUBSET Outstanding(code) /\ Outstanding(code) \in SUBSET Sessions
    BY UsersAreSubsets DEF Outstanding
  <2>2. /\ Cardinality(GrantedOn(code)) \in Nat /\ Cardinality(Outstanding(code)) \in Nat
        /\ Cardinality(GrantedOn(code)) <= Cardinality(Outstanding(code))
    BY <2>1, FewerLogins
  <2>3. Cardinality(CommandsOn(code)) \in Nat
    BY UsersAreSubsets, CliAssumption, FS_Subset, FS_CardinalityType
  <2>4. Takings[code] = Cardinality(Outstanding(code)) + Cardinality(CommandsOn(code))
    BY <1>7 DEF Takings, Taken
  <2> QED
    BY <2>2, <2>3, <2>4
<1>10. Worth(Setup, code) \in Nat /\ Takings[code] \in Nat
  BY <1>6, <1>7, UnusedType
<1>11. Cardinality(GrantedOn(code)) + Cardinality(CommandsOn(code)) \in Nat
  <2>1. GrantedOn(code) \in SUBSET Sessions /\ CommandsOn(code) \in SUBSET Commands
    BY UsersAreSubsets DEF GrantedOn
  <2> QED
    BY <2>1, TakenType
<1> QED
  BY <1>7, <1>8, <1>9, <1>10, <1>11

\* What a command has spent lets nobody in, and what has let somebody in the
\* command refuses, for any number of logins and of commands: unless something
\* replaces the file between a writer's reading and its writing.
THEOREM CodesAreSpentForBoth ==
  ASSUME ClockForward, SkewStays
  PROVE  CliSpec => []SpentForBoth
<1> QED
  BY BothInit, CliStepKeepsBothInv, BothInvSpendsForBoth, PTL DEF CliSpec
=============================================================================
