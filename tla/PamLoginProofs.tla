--------------------------- MODULE PamLoginProofs ---------------------------
(***************************************************************************)
(* The logins of one user, however many they are.                          *)
(***************************************************************************)
EXTENDS PamLogin, AuthenticatorProofs

\* A login changes its own variables only.
OthersStay(s) ==
  \A t \in Sessions \ {s} :
    /\ pc'[t] = pc[t] /\ fd'[t] = fd[t] /\ mem'[t] = mem[t]
    /\ host'[t] = host[t] /\ verdict'[t] = verdict[t] /\ rc'[t] = rc[t]

\* A function on the logins, whatever its values.
PerLogin(f) == f = [s \in Sessions |-> f[s]]

Inodes == 1 .. Len(contents)

FileType ==
  /\ \E S : contents \in Seq(S)
  /\ 1 \in Inodes
  /\ dir \in durable
  /\ durable \subseteq {NoFile} \union Inodes

LocalsType ==
  /\ pc \in [Sessions -> PCs]
  /\ fd \in [Sessions -> {NoFile} \union Inodes]
  /\ PerLogin(mem)
  /\ host \in [Sessions -> Hosts \union {NoHost}]
  /\ PerLogin(verdict)
  /\ rc \in [Sessions -> Answers]

TypeInv ==
  /\ now \in 0 .. MaxTime
  /\ FileType
  /\ LocalsType
  /\ raced \in BOOLEAN
  /\ edited \in BOOLEAN

\* What a login holds in its memory, at each place, of the file it opened.
Holds(s) ==
  /\ pc[s] \in {"lock", "load", "decide", "prompt", "persist", "publish"}
       => fd[s] \in Inodes
  /\ pc[s] \in {"decide", "prompt"}
       => contents[fd[s]] # Malformed /\ mem[s] = contents[fd[s]]
  /\ pc[s] \in {"persist", "publish"}
       => ByLogin(contents[fd[s]], Stored(mem[s]))
  /\ pc[s] = "publish" => raced \/ dir = fd[s]

AtomicInv == TypeInv /\ \A s \in Sessions : Holds(s)

-----------------------------------------------------------------------------
LEMMA AppendKeeps ==
  ASSUME NEW S, NEW s \in Seq(S), NEW e
  PROVE  /\ Append(s, e) \in Seq(S \union {e})
         /\ Len(Append(s, e)) = Len(s) + 1
         /\ \A i \in 1 .. Len(s) : Append(s, e)[i] = s[i]
         /\ Append(s, e)[Len(s) + 1] = e
<1>1. s \in Seq(S \union {e})
  OBVIOUS
<1> QED
  BY <1>1, AppendProperties

\* A new file gets a new place in the list, and the others keep theirs.
LEMMA NewInode ==
  ASSUME FileType, NEW e, PutInPlace(e)
  PROVE  /\ \E S : contents' \in Seq(S)
         /\ Len(contents) \in Nat /\ Len(contents') = Len(contents) + 1
         /\ \A i \in Inodes : i \in Inodes' /\ contents'[i] = contents[i]
         /\ dir' = Len(contents) + 1 /\ dir' \in Inodes' /\ contents'[dir'] = e
         /\ dir' \in durable' /\ durable' \subseteq {NoFile} \union Inodes'
         /\ durable' \in {durable \union {dir'}, {dir'}}
<1>1. PICK S : contents \in Seq(S)
  BY DEF FileType
<1>2. contents' = Append(contents, e)
  BY DEF PutInPlace
<1>3. /\ contents' \in Seq(S \union {e})
      /\ Len(contents') = Len(contents) + 1
      /\ \A i \in 1 .. Len(contents) : contents'[i] = contents[i]
      /\ contents'[Len(contents) + 1] = e
  BY <1>1, <1>2, AppendKeeps
<1>4. Len(contents) \in Nat
  BY <1>1
<1>5. Inodes \subseteq Inodes' /\ Len(contents) + 1 \in Inodes'
  BY <1>3, <1>4 DEF Inodes
<1>6. dir' = Len(contents) + 1 /\ durable' \in {durable \union {dir'}, {dir'}}
  BY DEF PutInPlace, PointTo
<1>7. durable' \subseteq {NoFile} \union Inodes'
  BY <1>5, <1>6 DEF FileType
<1> QED
  BY <1>3, <1>4, <1>5, <1>6, <1>7 DEF Inodes

\* Where no file is replaced, a login that did nothing holds what it held.
LEMMA HoldsStill ==
  ASSUME NEW s \in Sessions, Holds(s),
         \A i \in Inodes : i \in Inodes' /\ contents'[i] = contents[i],
         pc'[s] = pc[s], fd'[s] = fd[s], mem'[s] = mem[s],
         pc[s] = "publish" => raced' \/ (dir' = dir /\ raced' = raced)
  PROVE  Holds(s)'
<1>1. pc[s] \in {"lock", "load", "decide", "prompt", "persist", "publish"}
        => fd'[s] \in Inodes' /\ contents'[fd'[s]] = contents[fd[s]]
  BY DEF Holds
<1>2. pc[s] \in {"persist", "publish"}
        => ByLogin(contents[fd[s]], Stored(mem[s]))'
  <2> SUFFICES ASSUME pc[s] \in {"persist", "publish"}
               PROVE  ByLogin(contents'[fd'[s]], Stored(mem'[s]))
    OBVIOUS
  <2>1. ByLogin(contents[fd[s]], Stored(mem[s]))
    BY DEF Holds
  <2>2. contents'[fd'[s]] = contents[fd[s]] /\ mem'[s] = mem[s]
    BY <1>1
  <2> QED
    BY <2>1, <2>2
<1> QED
  BY <1>1, <1>2 DEF Holds

-----------------------------------------------------------------------------
(***************************************************************************)
(* The steps of a login that leave the file alone.                         *)
(***************************************************************************)

LEMMA AnswerKeepsTypes ==
  ASSUME NEW s \in Sessions, LocalsType, NEW a \in Answers, Answer(s, a),
         UNCHANGED <<file, host, verdict>>
  PROVE  /\ LocalsType' /\ OthersStay(s)
         /\ pc'[s] = "done" /\ rc'[s] = a
<1>1. /\ pc' \in [Sessions -> PCs] /\ pc'[s] = "done"
      /\ rc' \in [Sessions -> Answers] /\ rc'[s] = a
      /\ fd' \in [Sessions -> {NoFile} \union Inodes']
  BY DEF Answer, LocalsType, PCs, file, Inodes
<1>2. PerLogin(mem)' /\ PerLogin(verdict)' /\ host' \in [Sessions -> Hosts \union {NoHost}]
  BY DEF Answer, LocalsType, PerLogin
<1>3. OthersStay(s)
  BY DEF Answer, LocalsType, PerLogin, OthersStay
<1> QED
  BY <1>1, <1>2, <1>3 DEF LocalsType

LEMMA GotoKeepsTypes ==
  ASSUME NEW s \in Sessions, LocalsType, NEW place \in PCs, Goto(s, place),
         \/ mem' = mem
         \/ \E c : Remember(s, c),
         \/ verdict' = verdict
         \/ \E type, number : Decide(s, type, number),
         UNCHANGED <<file, host>>
  PROVE  /\ LocalsType' /\ OthersStay(s)
         /\ pc'[s] = place
<1>1. /\ pc' \in [Sessions -> PCs] /\ pc'[s] = place
      /\ fd' \in [Sessions -> {NoFile} \union Inodes']
      /\ rc' \in [Sessions -> Answers]
  BY DEF Goto, LocalsType, file, Inodes
<1>2. PerLogin(mem)' /\ \A t \in Sessions \ {s} : mem'[t] = mem[t]
  BY DEF Remember, LocalsType, PerLogin
<1>3. PerLogin(verdict)' /\ \A t \in Sessions \ {s} : verdict'[t] = verdict[t]
  BY DEF Decide, LocalsType, PerLogin
<1>4. OthersStay(s)
  BY <1>2, <1>3 DEF Goto, LocalsType, OthersStay
<1> QED
  BY <1>1, <1>2, <1>3, <1>4 DEF LocalsType

LEMMA OpenKeepsTypes ==
  ASSUME NEW s \in Sessions, FileType, LocalsType, Open(s)
  PROVE  /\ LocalsType' /\ OthersStay(s)
         /\ pc'[s] = "lock" /\ fd'[s] = dir /\ dir \in Inodes
<1>1. dir \in Inodes
  BY DEF Open, FileType
<1>2. /\ pc' \in [Sessions -> PCs] /\ pc'[s] = "lock"
      /\ fd' \in [Sessions -> {NoFile} \union Inodes'] /\ fd'[s] = dir
      /\ rc' \in [Sessions -> Answers]
  BY <1>1 DEF Open, LocalsType, file, Inodes, PCs
<1>3. host' \in [Sessions -> Hosts \union {NoHost}]
  BY DEF Open, LocalsType
<1>4. PerLogin(mem)' /\ PerLogin(verdict)'
  BY DEF Open, LocalsType, PerLogin
<1>5. OthersStay(s)
  BY DEF Open, LocalsType, OthersStay
<1> QED
  BY <1>1, <1>2, <1>3, <1>4, <1>5 DEF LocalsType

\* A login that is alone writes what ByLogin allows.
LEMMA AcceptIsByLogin ==
  ASSUME NEW s \in Sessions, AtomicInv, NEW token \in TypedTokens,
         Accept(s, token)
  PROVE  ByLogin(contents[fd[s]], Stored(mem'[s]))
<1> DEFINE outcome == VerifyCode(contents[fd[s]], token, VerifyOpts, now)
<1>1. pc[s] = "prompt"
  BY DEF Accept
<1>2. contents[fd[s]] # Malformed /\ mem[s] = contents[fd[s]]
  BY <1>1 DEF AtomicInv, Holds
<1>3. now \in 0 .. MaxTime /\ host[s] \in Hosts \union {NoHost} /\ PerLogin(mem)
  BY DEF AtomicInv, TypeInv, LocalsType
<1>4. outcome = Outcome(s, token)
  BY <1>2 DEF Outcome
<1> HIDE DEF outcome
<1>5. /\ outcome.result \in Successes
      /\ \E c \in RecordLogin(outcome.cfg, host[s], now) : Remember(s, c)
  BY <1>4 DEF Accept
<1>6. PICK c \in RecordLogin(outcome.cfg, host[s], now) : Remember(s, c)
  BY <1>5
<1>7. mem'[s] = c
  BY <1>3, <1>6 DEF Remember, PerLogin
<1> QED
  BY <1>2, <1>3, <1>5, <1>6, <1>7 DEF ByLogin, outcome

LEMMA GraceIsByLogin ==
  ASSUME NEW s \in Sessions, AtomicInv, Grace(s)
  PROVE  ByLogin(contents[fd[s]], Stored(mem'[s]))
<1>1. contents[fd[s]] # Malformed /\ mem[s] = contents[fd[s]]
  BY DEF Grace, AtomicInv, Holds
<1>2. now \in 0 .. MaxTime /\ host[s] \in Hosts \union {NoHost} /\ PerLogin(mem)
  BY DEF AtomicInv, TypeInv, LocalsType
<1>3. WithinGracePeriod(contents[fd[s]], host[s], Params.gracePeriod, now)
  BY <1>1 DEF Grace, InGrace
<1>4. PICK c \in UpdateLoginRecord(contents[fd[s]], host[s], now) : Remember(s, c)
  BY <1>1 DEF Grace
<1>5. mem'[s] = c
  BY <1>2, <1>4 DEF Remember, PerLogin
<1> QED
  BY <1>1, <1>2, <1>3, <1>4, <1>5 DEF ByLogin

\* The steps between two accesses to the file.
Quiet(s) ==
  \/ Open(s) \/ OpenNothing(s) \/ Lock(s) \/ Load(s) \/ LoadFails(s)
  \/ Grace(s) \/ AskForCode(s) \/ PromptFails(s)
  \/ \E token \in TypedTokens : Accept(s, token) \/ Reject(s, token)
  \/ NothingToWrite(s) \/ CheckPasses(s) \/ CheckFails(s)
  \/ \E error \in WriteErrors : WriteFails(s, error)
  \/ Kill(s)

LEMMA QuietStaysAway ==
  ASSUME NEW s \in Sessions, Quiet(s)
  PROVE  UNCHANGED <<now, file, history>>
BY DEF Quiet, Open, OpenNothing, Lock, Load, LoadFails, Grace, AskForCode,
       PromptFails, Accept, Reject, NothingToWrite, CheckPasses, CheckFails,
       WriteFails, Kill

\* A login that answers, or dies, holds nothing any more.
LEMMA DoneHoldsNothing ==
  ASSUME NEW s \in Sessions, pc'[s] \in {"done", "killed"}
  PROVE  Holds(s)'
BY DEF Holds

\* The quiet steps that end a login.
LEMMA EndingStep ==
  ASSUME NEW s \in Sessions, LocalsType,
         \/ OpenNothing(s) \/ LoadFails(s) \/ PromptFails(s)
         \/ \E token \in TypedTokens : Reject(s, token)
         \/ NothingToWrite(s) \/ CheckFails(s)
         \/ \E error \in WriteErrors : WriteFails(s, error)
         \/ Kill(s)
  PROVE  LocalsType' /\ OthersStay(s) /\ pc'[s] \in {"done", "killed"}
<1>1. CASE Kill(s)
  <2>1. /\ pc' \in [Sessions -> PCs] /\ pc'[s] = "killed"
        /\ fd' \in [Sessions -> {NoFile} \union Inodes']
        /\ rc' \in [Sessions -> Answers]
        /\ host' \in [Sessions -> Hosts \union {NoHost}]
    BY <1>1 DEF Kill, LocalsType, file, Inodes, PCs
  <2>2. PerLogin(mem)' /\ PerLogin(verdict)' /\ OthersStay(s)
    BY <1>1 DEF Kill, LocalsType, PerLogin, OthersStay
  <2> QED
    BY <2>1, <2>2 DEF LocalsType
<1>2. CASE \/ OpenNothing(s) \/ LoadFails(s) \/ PromptFails(s)
           \/ NothingToWrite(s) \/ CheckFails(s)
           \/ \E error \in WriteErrors : WriteFails(s, error)
  <2>1. \E a \in Answers : Answer(s, a)
    BY <1>2 DEF OpenNothing, LoadFails, PromptFails, NothingToWrite, CheckFails,
                WriteFails, Answers
  <2>2. UNCHANGED <<file, host, verdict>>
    BY <1>2 DEF OpenNothing, LoadFails, PromptFails, NothingToWrite, CheckFails,
                WriteFails
  <2> QED
    BY <2>1, <2>2, AnswerKeepsTypes
<1>3. ASSUME NEW token \in TypedTokens, Reject(s, token)
      PROVE  LocalsType' /\ OthersStay(s) /\ pc'[s] \in {"done", "killed"}
  <2>1. /\ pc' \in [Sessions -> PCs] /\ pc'[s] = "done"
        /\ fd' \in [Sessions -> {NoFile} \union Inodes']
        /\ rc' \in [Sessions -> Answers]
        /\ host' \in [Sessions -> Hosts \union {NoHost}]
    BY <1>3 DEF Reject, Answer, LocalsType, file, Inodes, PCs, Answers
  <2>2. PerLogin(mem)' /\ PerLogin(verdict)'
    BY <1>3 DEF Reject, Answer, Decide, LocalsType, PerLogin
  <2>3. OthersStay(s)
    BY <1>3 DEF Reject, Answer, Decide, LocalsType, PerLogin, OthersStay
  <2> QED
    BY <2>1, <2>2, <2>3 DEF LocalsType
<1> QED
  BY <1>1, <1>2, <1>3

LEMMA QuietKeepsLocals ==
  ASSUME NEW s \in Sessions, AtomicInv, Quiet(s)
  PROVE  LocalsType' /\ OthersStay(s) /\ Holds(s)'
<1>1. TypeInv /\ FileType /\ LocalsType /\ Holds(s)
  BY DEF AtomicInv, TypeInv
<1>2. contents' = contents /\ dir' = dir /\ raced' = raced /\ Inodes' = Inodes
  BY QuietStaysAway DEF file, history, Inodes
<1>3. CASE Open(s)
  <2>1. LocalsType' /\ OthersStay(s) /\ pc'[s] = "lock" /\ fd'[s] \in Inodes
    BY <1>1, <1>3, OpenKeepsTypes
  <2> QED
    BY <1>2, <2>1 DEF Holds
<1>4. CASE Lock(s)
  <2>1. LocalsType' /\ OthersStay(s) /\ pc'[s] = "load"
    BY <1>1, <1>4, GotoKeepsTypes DEF Lock, PCs
  <2>2. fd'[s] = fd[s] /\ fd[s] \in Inodes
    BY <1>1, <1>4 DEF Lock, Goto, Holds
  <2> QED
    BY <1>2, <2>1, <2>2 DEF Holds
<1>5. CASE Load(s)
  <2>1. LocalsType' /\ OthersStay(s) /\ pc'[s] = "decide"
    BY <1>1, <1>5, GotoKeepsTypes DEF Load, PCs
  <2>2. fd'[s] = fd[s] /\ fd[s] \in Inodes
    BY <1>1, <1>5 DEF Load, Goto, Holds
  <2>3. contents[fd[s]] # Malformed /\ mem'[s] = contents[fd[s]]
    BY <1>1, <1>5 DEF Load, Remember, LocalsType, PerLogin
  <2> QED
    BY <1>2, <2>1, <2>2, <2>3 DEF Holds
<1>6. CASE Grace(s)
  <2>1. LocalsType' /\ OthersStay(s) /\ pc'[s] = "persist"
    BY <1>1, <1>6, GotoKeepsTypes DEF Grace, PCs
  <2>2. fd'[s] = fd[s] /\ fd[s] \in Inodes
    BY <1>1, <1>6 DEF Grace, Goto, Holds
  <2>3. ByLogin(contents[fd[s]], Stored(mem'[s]))
    BY <1>6, GraceIsByLogin
  <2>4. ByLogin(contents'[fd'[s]], Stored(mem'[s]))
    BY <1>2, <2>2, <2>3
  <2> QED
    BY <1>2, <2>1, <2>2, <2>4 DEF Holds
<1>7. CASE AskForCode(s)
  <2>1. LocalsType' /\ OthersStay(s) /\ pc'[s] = "prompt"
    BY <1>1, <1>7, GotoKeepsTypes DEF AskForCode, PCs
  <2>2. fd'[s] = fd[s] /\ mem'[s] = mem[s]
    BY <1>7 DEF AskForCode, Goto
  <2> QED
    BY <1>1, <1>2, <1>7, <2>1, <2>2 DEF AskForCode, Holds
<1>8. ASSUME NEW token \in TypedTokens, Accept(s, token)
      PROVE  LocalsType' /\ OthersStay(s) /\ Holds(s)'
  <2>0. /\ \E c : Remember(s, c)
        /\ \E type, number : Decide(s, type, number)
        /\ Goto(s, "persist") /\ UNCHANGED <<file, host>> /\ pc[s] = "prompt"
    BY <1>8 DEF Accept
  <2>1. LocalsType' /\ OthersStay(s) /\ pc'[s] = "persist"
    BY <1>1, <2>0, GotoKeepsTypes DEF PCs
  <2>2. fd'[s] = fd[s] /\ fd[s] \in Inodes
    BY <1>1, <2>0 DEF Goto, Holds
  <2>3. ByLogin(contents[fd[s]], Stored(mem'[s]))
    BY <1>8, AcceptIsByLogin
  <2>4. ByLogin(contents'[fd'[s]], Stored(mem'[s]))
    BY <1>2, <2>2, <2>3
  <2> QED
    BY <1>2, <2>1, <2>2, <2>4 DEF Holds
<1>9. CASE CheckPasses(s)
  <2>1. LocalsType' /\ OthersStay(s) /\ pc'[s] = "publish"
    BY <1>1, <1>9, GotoKeepsTypes DEF CheckPasses, PCs
  <2>2. fd'[s] = fd[s] /\ mem'[s] = mem[s] /\ dir = fd[s] /\ pc[s] = "persist"
    BY <1>9 DEF CheckPasses, Goto, Unmodified
  <2>3. fd[s] \in Inodes /\ ByLogin(contents[fd[s]], Stored(mem[s]))
    BY <1>1, <2>2 DEF Holds
  <2>4. ByLogin(contents'[fd'[s]], Stored(mem'[s]))
    BY <1>2, <2>2, <2>3
  <2> QED
    BY <1>2, <2>1, <2>2, <2>3, <2>4 DEF Holds
<1>10. CASE \/ OpenNothing(s) \/ LoadFails(s) \/ PromptFails(s)
            \/ \E token \in TypedTokens : Reject(s, token)
            \/ NothingToWrite(s) \/ CheckFails(s)
            \/ \E error \in WriteErrors : WriteFails(s, error)
            \/ Kill(s)
  BY <1>1, <1>10, EndingStep, DoneHoldsNothing
<1> QED
  BY <1>3, <1>4, <1>5, <1>6, <1>7, <1>8, <1>9, <1>10 DEF Quiet

LEMMA QuietKeepsAtomicInv ==
  ASSUME NEW s \in Sessions, AtomicInv, Quiet(s)
  PROVE  AtomicInv'
<1>1. UNCHANGED <<now, file, history>>
  BY QuietStaysAway
<1>2. LocalsType' /\ OthersStay(s) /\ Holds(s)'
  BY QuietKeepsLocals
<1>3. TypeInv'
  <2>1. FileType'
    BY <1>1 DEF AtomicInv, TypeInv, FileType, file, Inodes
  <2> QED
    BY <1>1, <1>2, <2>1 DEF AtomicInv, TypeInv, history
<1>4. ASSUME NEW t \in Sessions \ {s}
      PROVE  Holds(t)'
  <2>1. Holds(t) /\ pc'[t] = pc[t] /\ fd'[t] = fd[t] /\ mem'[t] = mem[t]
    BY <1>2 DEF AtomicInv, OthersStay
  <2>2. /\ \A i \in Inodes : i \in Inodes' /\ contents'[i] = contents[i]
        /\ dir' = dir /\ raced' = raced
    BY <1>1 DEF file, history, Inodes
  <2> QED
    BY <2>1, <2>2, HoldsStill
<1> QED
  BY <1>2, <1>3, <1>4 DEF AtomicInv

-----------------------------------------------------------------------------
(***************************************************************************)
(* The steps that change what the path names.                              *)
(***************************************************************************)

\* After a replacement, whoever was about to rename is in a race.
LEMMA ReplacedKeepsHolds ==
  ASSUME NEW t \in Sessions, Holds(t), FileType, NEW e, PutInPlace(e),
         pc'[t] = pc[t], fd'[t] = fd[t], mem'[t] = mem[t],
         pc[t] = "publish" => raced'
  PROVE  Holds(t)'
<1>1. \A i \in Inodes : i \in Inodes' /\ contents'[i] = contents[i]
  BY NewInode
<1> QED
  BY <1>1, HoldsStill

\* Inodes are never taken away.
LEMMA LocalsTypeGrows ==
  ASSUME LocalsType, Inodes \subseteq Inodes', UNCHANGED locals
  PROVE  LocalsType'
BY DEF LocalsType, locals, PerLogin

LEMMA PublishKeepsAtomicInv ==
  ASSUME NEW s \in Sessions, AtomicInv, Publish(s)
  PROVE  AtomicInv'
<1>1. FileType /\ LocalsType /\ PutInPlace(Stored(mem[s]))
  BY DEF AtomicInv, TypeInv, Publish
<1>2. /\ pc' = [pc EXCEPT ![s] = "syncDir"] /\ pc[s] = "publish"
      /\ UNCHANGED <<now, fd, mem, host, verdict, rc, edited>>
      /\ raced' = (raced \/ AboutToPublish # {s})
  BY DEF Publish, Goto
<1>3. Inodes \subseteq Inodes'
  BY <1>1, NewInode
<1>4. FileType'
  <2>1. 1 \in Inodes'
    BY <1>1, <1>3 DEF FileType
  <2> QED
    BY <1>1, <2>1, NewInode DEF FileType
<1>5. LocalsType' /\ pc'[s] = "syncDir"
  BY <1>1, <1>2, <1>3 DEF LocalsType, PCs, PerLogin
<1>6. Holds(s)'
  BY <1>5 DEF Holds
<1>7. ASSUME NEW t \in Sessions \ {s}
      PROVE  Holds(t)'
  <2>1. pc[t] = "publish" => raced'
    BY <1>2 DEF AboutToPublish
  <2>2. Holds(t) /\ pc'[t] = pc[t] /\ fd'[t] = fd[t] /\ mem'[t] = mem[t]
    BY <1>1, <1>2 DEF AtomicInv, LocalsType
  <2> QED
    BY <1>1, <2>1, <2>2, ReplacedKeepsHolds
<1>8. TypeInv'
  BY <1>2, <1>4, <1>5 DEF AtomicInv, TypeInv
<1> QED
  BY <1>6, <1>7, <1>8 DEF AtomicInv

LEMMA SyncDirKeepsAtomicInv ==
  ASSUME NEW s \in Sessions, AtomicInv, SyncDir(s)
  PROVE  AtomicInv'
<1>1. /\ FileType /\ LocalsType /\ pc' = [pc EXCEPT ![s] = "done"]
      /\ rc' = [rc EXCEPT ![s] = "success"]
      /\ fd' = [fd EXCEPT ![s] = NoFile]
      /\ mem' = [mem EXCEPT ![s] = EmptyConfig]
      /\ durable' = {dir}
      /\ UNCHANGED <<now, contents, dir, host, verdict, raced, edited>>
  BY DEF AtomicInv, TypeInv, SyncDir, Answer, history
<1>2. Inodes' = Inodes /\ FileType'
  BY <1>1 DEF Inodes, FileType
<1>3. LocalsType'
  BY <1>1, <1>2 DEF LocalsType, PCs, Answers, PerLogin
<1>4. pc'[s] = "done"
  BY <1>1 DEF LocalsType
<1>5. ASSUME NEW t \in Sessions \ {s}
      PROVE  Holds(t)'
  <2>1. Holds(t) /\ pc'[t] = pc[t] /\ fd'[t] = fd[t] /\ mem'[t] = mem[t]
    BY <1>1 DEF AtomicInv, LocalsType, PerLogin
  <2> QED
    BY <1>1, <1>2, <2>1, HoldsStill
<1>6. TypeInv'
  BY <1>1, <1>2, <1>3 DEF AtomicInv, TypeInv
<1> QED
  BY <1>4, <1>5, <1>6, DoneHoldsNothing DEF AtomicInv

LEMMA PowerLossKeepsAtomicInv ==
  ASSUME AtomicInv, PowerLoss
  PROVE  AtomicInv'
<1>1. /\ FileType /\ LocalsType
      /\ dir' \in durable /\ durable' = {dir'}
      /\ pc' = [s \in Sessions |-> IF s \in Running THEN "killed" ELSE pc[s]]
      /\ fd' = [s \in Sessions |-> NoFile]
      /\ mem' = [s \in Sessions |-> EmptyConfig]
      /\ UNCHANGED <<now, contents, host, verdict, rc, raced, edited>>
  BY DEF AtomicInv, TypeInv, PowerLoss, history
<1>2. Inodes' = Inodes /\ FileType'
  BY <1>1 DEF Inodes, FileType
<1>3. LocalsType'
  <2>1. pc' \in [Sessions -> PCs]
    BY <1>1 DEF LocalsType, PCs
  <2>2. fd' \in [Sessions -> {NoFile} \union Inodes'] /\ PerLogin(mem)'
    BY <1>1 DEF PerLogin
  <2> QED
    BY <1>1, <2>1, <2>2 DEF LocalsType, PerLogin
<1>4. ASSUME NEW t \in Sessions
      PROVE  Holds(t)'
  <2>1. pc'[t] \in {"start", "done", "killed"}
    BY <1>1 DEF Running
  <2> QED
    BY <2>1 DEF Holds
<1>5. TypeInv'
  BY <1>1, <1>2, <1>3 DEF AtomicInv, TypeInv
<1> QED
  BY <1>4, <1>5 DEF AtomicInv

LEMMA OwnerKeepsAtomicInv ==
  ASSUME AtomicInv, OwnerReplaces \/ OwnerRemoves
  PROVE  AtomicInv'
<1>1. /\ FileType /\ LocalsType /\ UNCHANGED <<now, locals>>
      /\ raced' = (raced \/ AboutToPublish # {}) /\ edited' = TRUE
  BY DEF AtomicInv, TypeInv, OwnerReplaces, OwnerRemoves
<1>2. \A t \in Sessions :
        /\ Holds(t) /\ pc'[t] = pc[t] /\ fd'[t] = fd[t] /\ mem'[t] = mem[t]
        /\ pc[t] = "publish" => raced'
  BY <1>1 DEF AtomicInv, locals, AboutToPublish
<1>3. CASE OwnerReplaces
  <2>1. PICK c \in OwnerConfigs : PutInPlace(c)
    BY <1>3 DEF OwnerReplaces
  <2>2. Inodes \subseteq Inodes' /\ FileType'
    BY <1>1, <2>1, NewInode DEF FileType
  <2>3. LocalsType'
    BY <1>1, <2>2, LocalsTypeGrows
  <2>4. \A t \in Sessions : Holds(t)'
    BY <1>1, <1>2, <2>1, ReplacedKeepsHolds
  <2> QED
    BY <1>1, <2>2, <2>3, <2>4 DEF AtomicInv, TypeInv
<1>4. CASE OwnerRemoves
  <2>1. /\ contents' = contents /\ dir' = NoFile
        /\ durable' \in {durable \union {NoFile}, {NoFile}}
    BY <1>4 DEF OwnerRemoves, PointTo
  <2>2. Inodes' = Inodes /\ FileType'
    BY <1>1, <2>1 DEF Inodes, FileType
  <2>3. LocalsType'
    BY <1>1, <2>2, LocalsTypeGrows
  <2>4. \A t \in Sessions : Holds(t)'
    BY <1>2, <2>1, <2>2, HoldsStill
  <2> QED
    BY <1>1, <2>2, <2>3, <2>4 DEF AtomicInv, TypeInv
<1> QED
  BY <1>3, <1>4

LEMMA SetClockKeepsAtomicInv ==
  ASSUME AtomicInv, SetClock \/ UNCHANGED vars
  PROVE  AtomicInv'
<1>1. /\ now' \in 0 .. MaxTime
      /\ UNCHANGED <<contents, dir, durable, pc, fd, mem, host, verdict, rc,
                     raced, edited>>
  BY DEF SetClock, vars, file, locals, history, AtomicInv, TypeInv
<1>2. Inodes' = Inodes
  BY <1>1 DEF Inodes
<1>3. FileType' /\ LocalsType'
  BY <1>1, <1>2 DEF AtomicInv, TypeInv, FileType, LocalsType, PerLogin
<1>4. \A t \in Sessions : Holds(t)'
  BY <1>1, <1>2, HoldsStill DEF AtomicInv
<1> QED
  BY <1>1, <1>3, <1>4 DEF AtomicInv, TypeInv

LEMMA StepCases ==
  ASSUME [Next]_vars
  PROVE  \/ \E s \in Sessions : Quiet(s) \/ Publish(s) \/ SyncDir(s)
         \/ OwnerReplaces \/ OwnerRemoves \/ PowerLoss \/ SetClock
         \/ UNCHANGED vars
BY DEF Next, Proceed, Reply, Quiet, Environment, Finished

LEMMA StepKeepsAtomicInv ==
  ASSUME AtomicInv, [Next]_vars
  PROVE  AtomicInv'
BY StepCases, QuietKeepsAtomicInv, PublishKeepsAtomicInv, SyncDirKeepsAtomicInv,
   PowerLossKeepsAtomicInv, OwnerKeepsAtomicInv, SetClockKeepsAtomicInv

LEMMA AtomicInit ==
  ASSUME Init
  PROVE  AtomicInv
<1>1. PICK c \in InitialConfigs : contents = <<c>>
  BY DEF Init
<1>2. contents \in Seq({c}) /\ Len(contents) = 1 /\ Inodes = {1}
  BY <1>1 DEF Inodes
<1>3. FileType
  BY <1>2 DEF Init, FileType
<1>4. LocalsType
  BY DEF Init, LocalsType, PerLogin, PCs, Answers
<1>5. now \in 0 .. MaxTime
  BY LoginAssumption DEF Init
<1>6. \A s \in Sessions : Holds(s)
  BY DEF Init, Holds
<1> QED
  BY <1>3, <1>4, <1>5, <1>6 DEF Init, AtomicInv, TypeInv

\* No login renames over a file it has not read, however many logins there
\* are and however often they die, unless the file appeared after the
\* comparison in WriteConfig.
THEOREM NothingIsOverwrittenBlindly ==
  Spec => []NoBlindOverwrite
<1>1. AtomicInv => NoBlindOverwrite
  BY DEF AtomicInv, Holds, NoBlindOverwrite, AboutToPublish
<1> QED
  BY <1>1, AtomicInit, StepKeepsAtomicInv, PTL DEF Spec

-----------------------------------------------------------------------------
(***************************************************************************)
(* The refinement.                                                         *)
(***************************************************************************)

LEMMA InitIsAtomic ==
  ASSUME Init
  PROVE  Atomic!Init
<1>1. PICK c \in InitialConfigs : contents = <<c>>
  BY DEF Init
<1>2. dir = 1 /\ durable = {1} /\ ContentOf(1) = c /\ raced = FALSE
  BY <1>1 DEF Init, ContentOf, NoFile
<1> QED
  BY <1>2 DEF Atomic!Init

\* A new file becomes the content, and what was durable stays or goes.
LEMMA PutInPlaceReplaces ==
  ASSUME FileType, NEW e, PutInPlace(e)
  PROVE  ContentOf(dir)' = e /\ Atomic!Replaced
<1>1. /\ \A i \in Inodes : i # NoFile /\ contents'[i] = contents[i]
      /\ dir' # NoFile /\ contents'[dir'] = e
      /\ durable' \in {durable \union {dir'}, {dir'}}
      /\ durable \subseteq {NoFile} \union Inodes
  BY NewInode DEF FileType, Inodes, NoFile
<1>2. ContentOf(dir)' = e
  BY <1>1 DEF ContentOf
<1>3. \A i \in durable : ContentOf(i)' = ContentOf(i)
  <2> SUFFICES ASSUME NEW i \in durable
               PROVE  (IF i = NoFile THEN Malformed ELSE contents'[i])
                        = (IF i = NoFile THEN Malformed ELSE contents[i])
    BY DEF ContentOf
  <2> QED
    BY <1>1
<1> QED
  BY <1>1, <1>2, <1>3 DEF Atomic!Replaced, ContentOf

LEMMA PublishIsLogin ==
  ASSUME NEW s \in Sessions, AtomicInv, Publish(s)
  PROVE  Atomic!Next
<1>1. FileType /\ PutInPlace(Stored(mem[s])) /\ pc[s] = "publish"
      /\ raced' = (raced \/ AboutToPublish # {s}) /\ raced \in BOOLEAN
  BY DEF AtomicInv, TypeInv, Publish
<1>2. CASE raced'
  BY <1>1, <1>2 DEF Atomic!Next
<1>3. CASE ~raced'
  <2>1. dir = fd[s] /\ fd[s] \in Inodes
        /\ ByLogin(contents[fd[s]], Stored(mem[s]))
    BY <1>1, <1>3 DEF AtomicInv, Holds
  <2>2. ContentOf(dir) = contents[fd[s]]
    BY <2>1 DEF ContentOf, NoFile, Inodes
  <2>3. ContentOf(dir)' = Stored(mem[s]) /\ Atomic!Replaced
    BY <1>1, PutInPlaceReplaces
  <2>4. ByLogin(ContentOf(dir), ContentOf(dir)')
    BY <2>1, <2>2, <2>3
  <2>5. Atomic!Login
    BY <2>3, <2>4 DEF Atomic!Login
  <2> QED
    BY <1>1, <1>3, <2>5 DEF Atomic!Next
<1> QED
  BY <1>2, <1>3

LEMMA OwnerIsEdit ==
  ASSUME AtomicInv, OwnerReplaces \/ OwnerRemoves
  PROVE  Atomic!Next
<1>1. /\ FileType /\ raced \in BOOLEAN
      /\ raced' = (raced \/ AboutToPublish # {})
  BY DEF AtomicInv, TypeInv, OwnerReplaces, OwnerRemoves
<1>2. CASE raced'
  BY <1>2 DEF Atomic!Next
<1>3. CASE ~raced' /\ OwnerReplaces
  <2>1. PICK c \in OwnerConfigs : PutInPlace(c)
    BY <1>3 DEF OwnerReplaces
  <2>2. Atomic!Edit
    BY <1>1, <2>1, PutInPlaceReplaces DEF Atomic!Edit
  <2> QED
    BY <1>1, <1>3, <2>2 DEF Atomic!Next
<1>4. CASE ~raced' /\ OwnerRemoves
  <2>1. /\ contents' = contents /\ dir' = NoFile
        /\ durable' \in {durable \union {NoFile}, {NoFile}}
    BY <1>4 DEF OwnerRemoves, PointTo
  <2>2. /\ ContentOf(dir)' = Malformed
        /\ \A i \in durable' : ContentOf(i)' = ContentOf(i)
    BY <2>1 DEF ContentOf
  <2>3. Atomic!Edit
    BY <2>1, <2>2 DEF Atomic!Edit, Atomic!Replaced, ContentOf
  <2> QED
    BY <1>1, <1>4, <2>3 DEF Atomic!Next
<1> QED
  BY <1>1, <1>2, <1>3, <1>4

LEMMA SyncDirIsSync ==
  ASSUME NEW s \in Sessions, SyncDir(s)
  PROVE  Atomic!Next
<1>1. contents' = contents /\ dir' = dir /\ durable' = {dir} /\ raced' = raced
  BY DEF SyncDir, history
<1> QED
  BY <1>1 DEF Atomic!Next, Atomic!Sync, ContentOf

LEMMA PowerLossIsPowerLoss ==
  ASSUME PowerLoss
  PROVE  Atomic!Next
<1>1. /\ contents' = contents /\ dir' \in durable /\ durable' = {dir'}
      /\ raced' = raced
  BY DEF PowerLoss, history
<1> QED
  BY <1>1 DEF Atomic!Next, Atomic!PowerLoss, ContentOf

LEMMA OtherStepsAreStutters ==
  ASSUME UNCHANGED <<file, history>>
  PROVE  UNCHANGED Atomic!vars
BY DEF file, history, Atomic!vars, ContentOf

\* To the secret file a login, however many steps it takes and however many
\* others take theirs in between, is one step, until two renames race: the
\* dozen steps of PamLogin implement the single one of AtomicFile.
THEOREM LoginsAreAtomic ==
  Spec => ImplementsAtomicFile
<1>1. AtomicInv /\ [Next]_vars => [Atomic!Next]_(Atomic!vars)
  <2> SUFFICES ASSUME AtomicInv, [Next]_vars
               PROVE  Atomic!Next \/ UNCHANGED Atomic!vars
    OBVIOUS
  <2>1. CASE \E s \in Sessions : Quiet(s)
    BY <2>1, QuietStaysAway, OtherStepsAreStutters
  <2>2. CASE SetClock \/ UNCHANGED vars
    BY <2>2, OtherStepsAreStutters DEF SetClock, vars, history
  <2>3. CASE \E s \in Sessions : Publish(s) \/ SyncDir(s)
    BY <2>3, PublishIsLogin, SyncDirIsSync
  <2>4. CASE OwnerReplaces \/ OwnerRemoves \/ PowerLoss
    BY <2>4, OwnerIsEdit, PowerLossIsPowerLoss
  <2> QED
    BY <2>1, <2>2, <2>3, <2>4, StepCases
<1> QED
  BY <1>1, AtomicInit, StepKeepsAtomicInv, InitIsAtomic, PTL
  DEF Spec, ImplementsAtomicFile, Atomic!Spec

-----------------------------------------------------------------------------
(***************************************************************************)
(* Scratch codes and HOTP counters are spent for good, however many logins *)
(* verify them at the same time and whenever the power fails.              *)
(***************************************************************************)

\* The codes that are spent when they let somebody in, whatever the options.
SpendCodes ==
  [type : {"scratch"}, number : ScratchCodes] \union [type : {"hotp"}, number : Int]

\* A configuration as far as these codes go.  Nothing is said of the rate
\* limiter's stamps, which a clock that is set back leaves in any order.
ShapeOf(S) ==
  [ secret : S, scratch : [ScratchCodes -> Nat], totpAuth : S,
    hotpConfigured : S, hotpCounter : Int, stepSize : S, windowSize : Nat,
    disallowReuse : S, disallowed : S, rateLimit : S, timeSkew : S,
    samples : S, lastLogins : S, dirty : S ]

Shaped(c) == \E S : c \in ShapeOf(S)

\* How many more logins the code may let in.
Left(c, code) ==
  IF code.type = "scratch" THEN c.scratch[code.number]
  ELSE IF c.hotpCounter <= code.number THEN 1 ELSE 0

SameCodes(c, d) ==
  /\ Shaped(d)
  /\ d.scratch = c.scratch
  /\ d.hotpCounter = c.hotpCounter
  /\ d.windowSize = c.windowSize

SameRecords(c, d) == d.lastLogins = c.lastLogins

\* From c to d one use of the code is spent, and perhaps uses of others.
Spends(c, d, code) ==
  /\ \A other \in SpendCodes : Left(d, other) <= Left(c, other)
  /\ code \in SpendCodes => Left(d, code) + 1 <= Left(c, code) /\ d.dirty

-----------------------------------------------------------------------------
LEMMA ConfigIsShaped ==
  ASSUME NEW c \in Config
  PROVE  Shaped(c)
<1> DEFINE S == {c.secret, c.totpAuth, c.hotpConfigured, c.stepSize,
                 c.disallowReuse, c.disallowed, c.rateLimit, c.timeSkew,
                 c.samples, c.lastLogins, c.dirty}
<1>1. c \in ShapeOf(S)
  BY DEF Config, ShapeOf
<1> QED
  BY <1>1 DEF Shaped

LEMMA LeftType ==
  ASSUME NEW c, Shaped(c), NEW code \in SpendCodes
  PROVE  Left(c, code) \in Nat
BY DEF Shaped, ShapeOf, SpendCodes, Left

LEMMA SameCodesLeft ==
  ASSUME NEW c, NEW d, SameCodes(c, d), NEW code
  PROVE  Left(d, code) = Left(c, code)
BY DEF SameCodes, Left

LEMMA StoredSameCodes ==
  ASSUME NEW c, Shaped(c)
  PROVE  SameCodes(c, Stored(c))
<1> DEFINE kept == [i \in Slots |-> IF c.lastLogins[i].when = 0 THEN NoLogin
                                    ELSE c.lastLogins[i]]
<1>1. PICK S : c \in ShapeOf(S)
  BY DEF Shaped
<1>2. Stored(c) = [c EXCEPT !.dirty = FALSE, !.lastLogins = kept]
  BY DEF Stored
<1> HIDE DEF kept
<1>3. /\ Stored(c) \in ShapeOf(S \union {FALSE, kept})
      /\ Stored(c).scratch = c.scratch /\ Stored(c).hotpCounter = c.hotpCounter
      /\ Stored(c).windowSize = c.windowSize
  BY <1>1, <1>2 DEF ShapeOf
<1> QED
  BY <1>3 DEF Shaped, SameCodes

LEMMA EnforceRateLimitSameCodes ==
  ASSUME NEW c, Shaped(c), NEW when
  PROVE  LET d == EnforceRateLimit(c, when)
         IN  SameCodes(c, d) /\ SameRecords(c, d)
<1> DEFINE recent == RecentAttempts(c, when)
           stamps == IF IsRateLimited(c, when)
                     THEN Newest(recent, c.rateLimit.attempts) ELSE recent
<1>1. CASE ~HasRateLimit(c)
  BY <1>1 DEF EnforceRateLimit, SameCodes, SameRecords
<1>2. CASE HasRateLimit(c)
  <2>1. EnforceRateLimit(c, when)
          = [c EXCEPT !.rateLimit.timestamps = stamps, !.dirty = TRUE]
    BY <1>2 DEF EnforceRateLimit
  <2> HIDE DEF stamps
  <2> DEFINE d == [c EXCEPT !.rateLimit.timestamps = stamps, !.dirty = TRUE]
             limit == [c.rateLimit EXCEPT !.timestamps = stamps]
  <2>2. PICK S : c \in ShapeOf(S)
    BY DEF Shaped
  <2>3. d = [c EXCEPT !.rateLimit = limit, !.dirty = TRUE]
    BY <2>2 DEF ShapeOf
  <2> HIDE DEF limit, d
  <2>4. /\ d \in ShapeOf(S \union {limit, TRUE})
        /\ d.scratch = c.scratch /\ d.hotpCounter = c.hotpCounter
        /\ d.windowSize = c.windowSize /\ d.lastLogins = c.lastLogins
    BY <2>2, <2>3 DEF ShapeOf
  <2>5. SameCodes(c, d) /\ SameRecords(c, d)
    BY <2>4 DEF Shaped, SameCodes, SameRecords
  <2> QED
    BY <2>1, <2>5 DEF d
<1> QED
  BY <1>1, <1>2

LEMMA ResetDisallowListSameCodes ==
  ASSUME NEW c, Shaped(c), NEW centre, NEW window
  PROVE  LET d == ResetDisallowList(c, centre, window)
         IN  SameCodes(c, d) /\ SameRecords(c, d)
<1> DEFINE kept == {ts \in c.disallowed : ts - centre < window /\ centre - ts < window}
<1>1. \/ ResetDisallowList(c, centre, window) = c
      \/ ResetDisallowList(c, centre, window)
           = [c EXCEPT !.disallowed = kept, !.dirty = TRUE]
  BY DEF ResetDisallowList
<1> HIDE DEF kept
<1> DEFINE d == [c EXCEPT !.disallowed = kept, !.dirty = TRUE]
<1>2. SameCodes(c, c) /\ SameCodes(c, d) /\ SameRecords(c, c) /\ SameRecords(c, d)
  <2>1. PICK S : c \in ShapeOf(S)
    BY DEF Shaped
  <2>2. /\ d \in ShapeOf(S \union {kept, TRUE})
        /\ d.scratch = c.scratch /\ d.hotpCounter = c.hotpCounter
        /\ d.windowSize = c.windowSize /\ d.lastLogins = c.lastLogins
    BY <2>1 DEF ShapeOf
  <2> QED
    BY <2>2 DEF Shaped, SameCodes, SameRecords
<1> QED
  BY <1>1, <1>2

LEMMA RecordUsedTimestampSameCodes ==
  ASSUME NEW c, Shaped(c), NEW ts
  PROVE  LET d == RecordUsedTimestamp(c, ts)
         IN  SameCodes(c, d) /\ SameRecords(c, d)
<1> DEFINE more == c.disallowed \union {ts}
           d == [c EXCEPT !.disallowed = more, !.dirty = TRUE]
<1>1. RecordUsedTimestamp(c, ts) \in {c, d}
  BY DEF RecordUsedTimestamp
<1> HIDE DEF more
<1>2. SameCodes(c, c) /\ SameCodes(c, d) /\ SameRecords(c, c) /\ SameRecords(c, d)
  <2>1. PICK S : c \in ShapeOf(S)
    BY DEF Shaped
  <2>2. /\ d \in ShapeOf(S \union {more, TRUE})
        /\ d.scratch = c.scratch /\ d.hotpCounter = c.hotpCounter
        /\ d.windowSize = c.windowSize /\ d.lastLogins = c.lastLogins
    BY <2>1 DEF ShapeOf
  <2> QED
    BY <2>2 DEF Shaped, SameCodes, SameRecords
<1> QED
  BY <1>1, <1>2

LEMMA RecordSkewObservationSameCodes ==
  ASSUME NEW c, Shaped(c), NEW ts, NEW skew
  PROVE  LET d == RecordSkewObservation(c, ts, skew)
         IN  SameCodes(c, d) /\ SameRecords(c, d)
<1> DEFINE samples == WithSample(c.samples, ts, skew)
           average == AverageSkew(samples)
           d == RecordSkewObservation(c, ts, skew)
<1>1. \/ d = c
      \/ d = [c EXCEPT !.timeSkew = average, !.samples = << >>, !.dirty = TRUE]
      \/ d = [c EXCEPT !.samples = samples, !.dirty = TRUE]
  BY DEF RecordSkewObservation
<1> HIDE DEF samples, average, d
<1>2. SameCodes(c, d) /\ SameRecords(c, d)
  <2>1. PICK S : c \in ShapeOf(S)
    BY DEF Shaped
  <2>2. /\ d \in ShapeOf(S \union {average, << >>, samples, TRUE})
        /\ d.scratch = c.scratch /\ d.hotpCounter = c.hotpCounter
        /\ d.windowSize = c.windowSize /\ d.lastLogins = c.lastLogins
    BY <1>1, <2>1 DEF ShapeOf
  <2> QED
    BY <2>2 DEF Shaped, SameCodes, SameRecords
<1> QED
  BY <1>2 DEF d

LEMMA SameCodesTransitive ==
  ASSUME NEW c, NEW d, NEW e, SameCodes(c, d), SameCodes(d, e)
  PROVE  SameCodes(c, e)
BY DEF SameCodes

LEMMA UpdateLoginRecordSameCodes ==
  ASSUME NEW c, Shaped(c), NEW h, NEW when, NEW d \in UpdateLoginRecord(c, h, when)
  PROVE  SameCodes(c, d) /\ (c.dirty => d.dirty)
<1>1. CASE d = c
  BY <1>1 DEF SameCodes
<1>2. CASE \E slot : d = [c EXCEPT !.lastLogins[slot] = [host |-> h, when |-> when],
                                   !.dirty = TRUE]
  <2>1. PICK slot : d = [c EXCEPT !.lastLogins[slot] = [host |-> h, when |-> when],
                                  !.dirty = TRUE]
    BY <1>2
  <2>2. PICK S : c \in ShapeOf(S)
    BY DEF Shaped
  <2> DEFINE records == [c.lastLogins EXCEPT ![slot] = [host |-> h, when |-> when]]
  <2>3. d = [c EXCEPT !.lastLogins = records, !.dirty = TRUE]
    BY <2>1, <2>2 DEF ShapeOf
  <2> HIDE DEF records
  <2>4. /\ d \in ShapeOf(S \union {records, TRUE}) /\ d.dirty
        /\ d.scratch = c.scratch /\ d.hotpCounter = c.hotpCounter
        /\ d.windowSize = c.windowSize
    BY <2>2, <2>3 DEF ShapeOf
  <2> QED
    BY <2>4 DEF Shaped, SameCodes
<1> QED
  BY <1>1, <1>2 DEF UpdateLoginRecord

LEMMA RecordLoginSameCodes ==
  ASSUME NEW c, Shaped(c), NEW h, NEW when, NEW d \in RecordLogin(c, h, when)
  PROVE  SameCodes(c, d) /\ (c.dirty => d.dirty)
<1>1. d = c \/ d \in UpdateLoginRecord(c, h, when)
  BY DEF RecordLogin
<1> QED
  BY <1>1, UpdateLoginRecordSameCodes DEF SameCodes

-----------------------------------------------------------------------------
(***************************************************************************)
(* What a token spends.                                                    *)
(***************************************************************************)

LEMMA VerifyTOTPSameCodes ==
  ASSUME NEW c, Shaped(c), NEW code, NEW opts, NEW when
  PROVE  LET o == VerifyTOTP(c, code, opts, when)
         IN  /\ SameCodes(c, o.cfg) /\ SameRecords(c, o.cfg)
             /\ o.result \notin {"scratch", "hotp"}
<1> DEFINE pruned == ResetDisallowList(c, Centre(c, when), Window(c))
           hit == Min(TOTPHits(c, code, when))
           tm == TimeStep(pruned, when)
           d == NearestSkew(PossibleSkews(pruned, code, when))
           used == RecordUsedTimestamp(pruned, hit)
           observed == RecordSkewObservation(pruned, tm, d)
           o == VerifyTOTP(c, code, opts, when)
<1>1. \/ o = VerifyOutsideWindow(pruned, code, opts, when)
      \/ o = Failure(pruned, "reused")
      \/ o = Success(used, "totp", hit)
  BY DEF VerifyTOTP
<1>2. \/ VerifyOutsideWindow(pruned, code, opts, when) = Failure(pruned, "invalidCode")
      \/ VerifyOutsideWindow(pruned, code, opts, when) = Success(observed, "totp", tm + d)
      \/ VerifyOutsideWindow(pruned, code, opts, when) = Failure(observed, "invalidCode")
  BY DEF VerifyOutsideWindow
<1>3. SameCodes(c, pruned) /\ SameRecords(c, pruned)
  BY ResetDisallowListSameCodes
<1>4. Shaped(pruned)
  BY <1>3 DEF SameCodes
<1> HIDE DEF pruned, hit, tm, d, o
<1>5. /\ SameCodes(c, used) /\ SameRecords(c, used)
      /\ SameCodes(c, observed) /\ SameRecords(c, observed)
  BY <1>3, <1>4, RecordUsedTimestampSameCodes, RecordSkewObservationSameCodes,
     SameCodesTransitive DEF SameRecords
<1> HIDE DEF used, observed
<1>6. /\ SameCodes(c, o.cfg) /\ SameRecords(c, o.cfg)
      /\ o.result \notin {"scratch", "hotp"}
  BY <1>1, <1>2, <1>3, <1>5 DEF Success, Failure
<1> QED
  BY <1>6 DEF o

\* The code of an answer.
CodeOf(o, token) ==
  [type |-> o.result,
   number |-> IF o.result = "scratch" THEN token.code ELSE o.counter]

SpendsItsCode(c, o, token) ==
  /\ Shaped(o.cfg) /\ SameRecords(c, o.cfg)
  /\ Spends(c, o.cfg, CodeOf(o, token))
  /\ o.result \in {"scratch", "hotp"} => CodeOf(o, token) \in SpendCodes

LEMMA SameCodesSpendNothing ==
  ASSUME NEW c, Shaped(c), NEW o, SameCodes(c, o.cfg), SameRecords(c, o.cfg),
         NEW token,
         o.result \notin {"scratch", "hotp"}
  PROVE  SpendsItsCode(c, o, token)
<1>1. \A code \in SpendCodes : Left(o.cfg, code) <= Left(c, code)
  BY SameCodesLeft, LeftType
<1>2. CodeOf(o, token) \notin SpendCodes
  BY DEF CodeOf, SpendCodes
<1> QED
  BY <1>1, <1>2 DEF SpendsItsCode, Spends, SameCodes

LEMMA WithCounterSpends ==
  ASSUME NEW c, Shaped(c), NEW n \in Int, n >= c.hotpCounter
  PROVE  /\ Shaped(WithCounter(c, n)) /\ WithCounter(c, n).dirty
         /\ WithCounter(c, n).hotpCounter = n /\ SameRecords(c, WithCounter(c, n))
         /\ \A code \in SpendCodes : Left(WithCounter(c, n), code) <= Left(c, code)
<1>1. /\ Shaped(WithCounter(c, n)) /\ WithCounter(c, n).dirty
      /\ WithCounter(c, n).hotpCounter = n
      /\ WithCounter(c, n).scratch = c.scratch
      /\ SameRecords(c, WithCounter(c, n))
  <2>1. PICK S : c \in ShapeOf(S)
    BY DEF Shaped
  <2>2. WithCounter(c, n) \in ShapeOf(S \union {TRUE})
    BY <2>1 DEF ShapeOf, WithCounter
  <2>3. /\ WithCounter(c, n).dirty /\ WithCounter(c, n).hotpCounter = n
        /\ WithCounter(c, n).scratch = c.scratch
        /\ SameRecords(c, WithCounter(c, n))
    BY <2>1 DEF ShapeOf, WithCounter, SameRecords
  <2> QED
    BY <2>2, <2>3 DEF Shaped
<1>2. ASSUME NEW code \in SpendCodes
      PROVE  Left(WithCounter(c, n), code) <= Left(c, code)
  <2>1. CASE code.type = "scratch"
    BY <1>1, <2>1, LeftType DEF Left
  <2>2. CASE code.type = "hotp" /\ code.number \in Int
    BY <1>1, <2>2 DEF Left, Shaped, ShapeOf
  <2> QED
    BY <2>1, <2>2 DEF SpendCodes
<1> QED
  BY <1>1, <1>2

LEMMA VerifyHOTPSpends ==
  ASSUME NEW c, Shaped(c), NEW code, NEW opts, NEW token
  PROVE  SpendsItsCode(c, VerifyHOTP(c, code, opts), token)
<1> DEFINE hits == HOTPHits(c, code)
           hit == Min(hits)
           o == VerifyHOTP(c, code, opts)
<1> SUFFICES SpendsItsCode(c, o, token)
  OBVIOUS
<1>1. c.hotpCounter \in Int /\ Window(c) \in Nat \ {0}
  BY DEF Shaped, ShapeOf, Window, DefaultWindow
<1>2. hits \in SUBSET Nat /\ \A value \in hits : value >= c.hotpCounter
  BY <1>1 DEF HOTPHits
<1>3. hits # {} => hit \in hits
  <2> HIDE DEF hits
  <2> QED
    BY <1>2, MinIsLeast
<1>4. \/ hits # {} /\ o = Success(WithCounter(c, hit + 1), "hotp", hit)
      \/ o = Failure(c, "invalidCode")
      \/ o = Failure(WithCounter(c, c.hotpCounter + 1), "invalidCode")
  BY DEF VerifyHOTP
<1> HIDE DEF o, hit, hits
<1>5. CASE hits # {} /\ o = Success(WithCounter(c, hit + 1), "hotp", hit)
  <2>1. hit \in Int /\ hit >= c.hotpCounter
    <3>1. hit \in Nat /\ hit >= c.hotpCounter
      BY <1>2, <1>3, <1>5, Zenon
    <3> QED
      BY <3>1
  <2>2. hit + 1 \in Int /\ hit + 1 >= c.hotpCounter
    BY <1>1, <2>1
  <2>3. o.cfg = WithCounter(c, hit + 1) /\ o.result = "hotp" /\ o.counter = hit
    BY <1>5 DEF Success
  <2>4. /\ Shaped(o.cfg) /\ o.cfg.dirty /\ o.cfg.hotpCounter = hit + 1
        /\ SameRecords(c, o.cfg)
        /\ \A other \in SpendCodes : Left(o.cfg, other) <= Left(c, other)
    BY <2>2, <2>3, WithCounterSpends
  <2>5. CodeOf(o, token) = [type |-> "hotp", number |-> hit]
    BY <2>3 DEF CodeOf
  <2>6. CodeOf(o, token) \in SpendCodes
    BY <2>1, <2>5 DEF SpendCodes
  <2>7. Left(o.cfg, CodeOf(o, token)) = 0 /\ Left(c, CodeOf(o, token)) = 1
    BY <1>1, <2>1, <2>4, <2>5 DEF Left
  <2> QED
    BY <2>4, <2>6, <2>7 DEF SpendsItsCode, Spends
<1>6. CASE o = Failure(c, "invalidCode")
  BY <1>6, SameCodesSpendNothing DEF Failure, SameCodes, SameRecords
<1>7. CASE o = Failure(WithCounter(c, c.hotpCounter + 1), "invalidCode")
  <2>1. c.hotpCounter + 1 \in Int /\ c.hotpCounter + 1 >= c.hotpCounter
    BY <1>1
  <2>2. o.cfg = WithCounter(c, c.hotpCounter + 1) /\ o.result = "invalidCode"
    BY <1>7 DEF Failure
  <2>3. /\ Shaped(o.cfg) /\ SameRecords(c, o.cfg)
        /\ \A other \in SpendCodes : Left(o.cfg, other) <= Left(c, other)
    BY <2>1, <2>2, WithCounterSpends
  <2>4. CodeOf(o, token) \notin SpendCodes
    BY <2>2 DEF CodeOf, SpendCodes
  <2> QED
    BY <2>2, <2>3, <2>4 DEF SpendsItsCode, Spends
<1> QED
  BY <1>4, <1>5, <1>6, <1>7

LEMMA ScratchSpends ==
  ASSUME NEW c, Shaped(c), NEW token, token.code \in ScratchCodes,
         HasScratchCode(c, token.code)
  PROVE  SpendsItsCode(c, Success(UseScratchCode(c, token.code), "scratch", 0), token)
<1> DEFINE d == UseScratchCode(c, token.code)
           o == Success(d, "scratch", 0)
<1>1. /\ c.scratch \in [ScratchCodes -> Nat] /\ c.scratch[token.code] > 0
  BY DEF Shaped, ShapeOf, HasScratchCode
<1>2. /\ d.scratch = [c.scratch EXCEPT ![token.code] = @ - 1]
      /\ d.hotpCounter = c.hotpCounter /\ d.dirty /\ SameRecords(c, d)
  <2>1. PICK S : c \in ShapeOf(S)
    BY DEF Shaped
  <2> QED
    BY <2>1 DEF UseScratchCode, ShapeOf, SameRecords
<1>3. d.scratch \in [ScratchCodes -> Nat]
  BY <1>1, <1>2
<1>4. Shaped(d)
  <2>1. PICK S : c \in ShapeOf(S)
    BY DEF Shaped
  <2>2. d = [c EXCEPT !.scratch = d.scratch, !.dirty = TRUE]
    BY <1>2, <2>1 DEF UseScratchCode, ShapeOf
  <2>3. d \in ShapeOf(S \union {TRUE})
    <3> HIDE DEF d
    <3> QED
      BY <1>3, <2>1, <2>2 DEF ShapeOf
  <2> QED
    BY <2>3 DEF Shaped
<1>5. o.cfg = d /\ CodeOf(o, token) = [type |-> "scratch", number |-> token.code]
  BY DEF Success, CodeOf
<1> HIDE DEF d, o
<1>6. CodeOf(o, token) \in SpendCodes
  BY <1>5 DEF SpendCodes
<1>7. Left(d, CodeOf(o, token)) + 1 <= Left(c, CodeOf(o, token))
  BY <1>1, <1>2, <1>5 DEF Left
<1>8. ASSUME NEW code \in SpendCodes
      PROVE  Left(d, code) <= Left(c, code)
  <2>1. CASE code.type = "scratch" /\ code.number \in ScratchCodes
    BY <1>1, <1>2, <2>1 DEF Left
  <2>2. CASE code.type = "hotp"
    BY <1>2, <2>2 DEF Left
  <2> QED
    BY <2>1, <2>2 DEF SpendCodes
<1>9. SpendsItsCode(c, o, token)
  BY <1>2, <1>4, <1>5, <1>6, <1>7, <1>8 DEF SpendsItsCode, Spends
<1> QED
  BY <1>9 DEF o, d

LEMMA VerifyTokenSpends ==
  ASSUME NEW c, Shaped(c), NEW token \in Tokens, NEW opts, NEW when
  PROVE  SpendsItsCode(c, VerifyToken(c, token, opts, when), token)
<1> DEFINE o == VerifyToken(c, token, opts, when)
<1> SUFFICES SpendsItsCode(c, o, token)
  OBVIOUS
<1>1. CASE \E error \in {"invalidCode", "badLength", "badSecret", "unknownMode"} :
             o = Failure(c, error)
  <2>1. /\ SameCodes(c, o.cfg) /\ SameRecords(c, o.cfg)
        /\ o.result \notin {"scratch", "hotp"}
    BY <1>1 DEF Failure, SameCodes, SameRecords
  <2> HIDE DEF o
  <2> QED
    BY <2>1, SameCodesSpendNothing
<1>2. CASE /\ token.code \in ScratchCodes /\ HasScratchCode(c, token.code)
           /\ o = Success(UseScratchCode(c, token.code), "scratch", 0)
  BY <1>2, ScratchSpends
<1>3. CASE o = VerifyTOTP(c, token.code, opts, when)
  <2>1. /\ SameCodes(c, o.cfg) /\ SameRecords(c, o.cfg)
        /\ o.result \notin {"scratch", "hotp"}
    BY <1>3, VerifyTOTPSameCodes
  <2> HIDE DEF o
  <2> QED
    BY <2>1, SameCodesSpendNothing
<1>4. CASE o = VerifyHOTP(c, token.code, opts)
  BY <1>4, VerifyHOTPSpends
<1> QED
  BY <1>1, <1>2, <1>3, <1>4, VerifyTokenAnswers

\* Whatever is typed, and whatever the clock does: the code that lets a user
\* in is spent in the configuration that VerifyCode leaves, which is to be
\* written.
LEMMA VerifyCodeSpends ==
  ASSUME NEW c, Shaped(c), NEW token \in Tokens, NEW opts, NEW when
  PROVE  SpendsItsCode(c, VerifyCode(c, token, opts, when), token)
<1> DEFINE limited == EnforceRateLimit(c, when)
           o == VerifyCode(c, token, opts, when)
<1> SUFFICES SpendsItsCode(c, o, token)
  OBVIOUS
<1>1. SameCodes(c, limited) /\ Shaped(limited) /\ SameRecords(c, limited)
  BY EnforceRateLimitSameCodes DEF SameCodes
<1>2. \/ o = Failure(c, "noSecret")
      \/ o = Failure(limited, "rateLimited")
      \/ o = VerifyToken(limited, token, opts, when)
  BY DEF VerifyCode
<1> HIDE DEF limited, o
<1>3. CASE o = Failure(c, "noSecret") \/ o = Failure(limited, "rateLimited")
  <2>1. /\ SameCodes(c, o.cfg) /\ SameRecords(c, o.cfg)
        /\ o.result \notin {"scratch", "hotp"}
    BY <1>1, <1>3 DEF Failure, SameCodes, SameRecords
  <2> QED
    BY <2>1, SameCodesSpendNothing
<1>4. CASE o = VerifyToken(limited, token, opts, when)
  <2>1. SpendsItsCode(limited, o, token)
    BY <1>1, <1>4, VerifyTokenSpends
  <2>2. \A code \in SpendCodes : Left(limited, code) = Left(c, code)
    BY <1>1, SameCodesLeft
  <2> QED
    BY <1>1, <2>1, <2>2 DEF SpendsItsCode, Spends, SameRecords
<1> QED
  BY <1>2, <1>3, <1>4

-----------------------------------------------------------------------------
(***************************************************************************)
(* The invariant: what is left of a code in the file, together with the    *)
(* logins it let in, is no more than the user set up.                      *)
(***************************************************************************)

\* A login that has renamed, and is granted when the directory is on the disk.
Syncing(code) ==
  {s \in Sessions : pc[s] = "syncDir" /\ verdict[s].code = code}

Outstanding(code) == GrantedOn(code) \union Syncing(code)

Safe == ~raced /\ ~edited /\ ~Params.allowReadonly

ShapeInv ==
  /\ \A i \in Inodes : contents[i] = Malformed \/ Shaped(contents[i])
  /\ \A s \in Sessions : Shaped(mem[s])

\* What a login decided, and what that spent of the file it read.
Decided(s) ==
  /\ rc[s] = "success" => pc[s] = "done"
  /\ verdict[s].code.type \in {"scratch", "hotp"} => verdict[s].code \in SpendCodes
  /\ pc[s] \in {"persist", "publish"}
       => Spends(contents[fd[s]], mem[s], verdict[s].code)

\* From a file that cannot be read, nobody gets anywhere.
Unreadable ==
  /\ Len(contents) = 1
  /\ \A s \in Sessions :
       /\ pc[s] \notin {"decide", "prompt", "persist", "publish", "syncDir"}
       /\ verdict[s].code \notin SpendCodes

Accounted ==
  /\ Shaped(Setup)
  /\ \A i \in durable : i \in Inodes /\ Shaped(contents[i])
  /\ \A code \in SpendCodes :
       /\ \A i \in durable :
            Left(contents[i], code) + Cardinality(GrantedOn(code))
              <= Left(Setup, code)
       /\ Left(contents[dir], code) + Cardinality(Outstanding(code))
            <= Left(Setup, code)

CodesInv ==
  /\ AtomicInv
  /\ ShapeInv
  /\ \A s \in Sessions : Decided(s)
  /\ Safe => IF Setup = Malformed THEN Unreadable ELSE Accounted

LEMMA FewerLogins ==
  ASSUME NEW A \in SUBSET Sessions, NEW B \in SUBSET A
  PROVE  Cardinality(A) \in Nat /\ Cardinality(B) \in Nat
         /\ Cardinality(B) <= Cardinality(A)
<1>1. IsFiniteSet(Sessions)
  BY LoginAssumption
<1>2. IsFiniteSet(A)
  BY <1>1, FS_Subset
<1>3. IsFiniteSet(B) /\ Cardinality(B) <= Cardinality(A)
  BY <1>2, FS_Subset
<1> QED
  BY <1>2, <1>3, FS_CardinalityType

LEMMA OneMoreLogin ==
  ASSUME NEW A \in SUBSET Sessions, NEW s \in Sessions
  PROVE  Cardinality(A \union {s}) \in Nat /\ Cardinality(A) \in Nat
         /\ Cardinality(A \union {s}) <= Cardinality(A) + 1
<1>1. IsFiniteSet(Sessions)
  BY LoginAssumption
<1>2. IsFiniteSet(A)
  BY <1>1, FS_Subset
<1>3. Cardinality(A) \in Nat
  BY <1>2, FS_CardinalityType
<1>4. Cardinality(A \union {s})
        = IF s \in A THEN Cardinality(A) ELSE Cardinality(A) + 1
  BY <1>2, FS_AddElement
<1> QED
  BY <1>3, <1>4

LEMMA CodesAreFinite ==
  ASSUME NEW code
  PROVE  /\ GrantedOn(code) \in SUBSET Sessions
         /\ Outstanding(code) \in SUBSET Sessions
         /\ GrantedOn(code) \in SUBSET Outstanding(code)
BY DEF GrantedOn, Outstanding, Syncing

\* The first file stays first, and every file what it is.
LEMMA ContentsStay ==
  ASSUME FileType, \/ contents' = contents \/ \E e : PutInPlace(e)
  PROVE  /\ \A i \in Inodes : i \in Inodes' /\ contents'[i] = contents[i]
         /\ Setup' = Setup
<1>1. \A i \in Inodes : i \in Inodes' /\ contents'[i] = contents[i]
  BY NewInode DEF Inodes
<1>2. 1 \in Inodes
  BY DEF FileType
<1> QED
  BY <1>1, <1>2 DEF Setup

-----------------------------------------------------------------------------
LEMMA EmptyConfigIsShaped == Shaped(EmptyConfig)
<1> DEFINE S == {EmptyConfig.secret, EmptyConfig.totpAuth,
                 EmptyConfig.hotpConfigured, EmptyConfig.stepSize,
                 EmptyConfig.disallowReuse, EmptyConfig.disallowed,
                 EmptyConfig.rateLimit, EmptyConfig.timeSkew,
                 EmptyConfig.samples, EmptyConfig.lastLogins,
                 EmptyConfig.dirty}
<1>1. EmptyConfig.scratch = [code \in ScratchCodes |-> 0]
      /\ EmptyConfig.hotpCounter = 0 /\ EmptyConfig.windowSize = 3
  BY DEF EmptyConfig, DefaultWindow
<1>2. EmptyConfig \in ShapeOf(S)
  BY <1>1 DEF EmptyConfig, ShapeOf
<1> QED
  BY <1>2 DEF Shaped

LEMMA CodesInit ==
  ASSUME Init
  PROVE  CodesInv
<1>1. PICK c \in InitialConfigs : contents = <<c>>
  BY DEF Init
<1>2. Inodes = {1} /\ contents[1] = c /\ Len(contents) = 1 /\ Setup = c
  BY <1>1 DEF Inodes, Setup
<1>3. c = Malformed \/ Shaped(c)
  BY LoginAssumption, ConfigIsShaped
<1>4. ShapeInv
  BY <1>2, <1>3, EmptyConfigIsShaped DEF Init, ShapeInv
<1>5. \A s \in Sessions : /\ verdict[s].code.type = "none" /\ rc[s] = "none"
                          /\ pc[s] = "start"
  BY DEF Init, NoVerdict
<1>6. \A s \in Sessions : Decided(s) /\ verdict[s].code \notin SpendCodes
  BY <1>5 DEF Decided, SpendCodes
<1>7. CASE c = Malformed
  BY <1>2, <1>4, <1>5, <1>6, <1>7, AtomicInit DEF CodesInv, Unreadable
<1>8. CASE c # Malformed
  <2>1. Shaped(c) /\ durable = {1} /\ dir = 1
    BY <1>3, <1>8 DEF Init
  <2>2. ASSUME NEW code \in SpendCodes
        PROVE  /\ Left(c, code) \in Nat
               /\ Cardinality(GrantedOn(code)) = 0
               /\ Cardinality(Outstanding(code)) = 0
    <3>1. GrantedOn(code) = {} /\ Outstanding(code) = {}
      BY <1>5 DEF GrantedOn, Granted, Outstanding, Syncing
    <3> QED
      BY <2>1, <3>1, LeftType, FS_EmptySet
  <2>3. Accounted
    BY <1>2, <2>1, <2>2 DEF Accounted
  <2> QED
    BY <1>2, <1>4, <1>6, <1>8, <2>3, AtomicInit DEF CodesInv
<1> QED
  BY <1>7, <1>8

-----------------------------------------------------------------------------
(***************************************************************************)
(* A step between two accesses to the file grants nobody a code.           *)
(***************************************************************************)

\* What a login that goes on verifying has read.
LEMMA ReadIsShaped ==
  ASSUME NEW s \in Sessions, CodesInv,
         pc[s] \in {"decide", "prompt", "persist", "publish"}
  PROVE  /\ fd[s] \in Inodes /\ contents[fd[s]] # Malformed
         /\ Shaped(contents[fd[s]])
         /\ pc[s] \in {"decide", "prompt"} => mem[s] = contents[fd[s]]
<1>1. Holds(s)
  BY DEF CodesInv, AtomicInv
<1>2. fd[s] \in Inodes /\ contents[fd[s]] # Malformed
  BY <1>1 DEF Holds, ByLogin
<1> QED
  BY <1>1, <1>2 DEF Holds, CodesInv, ShapeInv

LEMMA AcceptSpends ==
  ASSUME NEW s \in Sessions, CodesInv, NEW token \in TypedTokens, Accept(s, token)
  PROVE  /\ Shaped(mem'[s])
         /\ Spends(contents[fd[s]], mem'[s], verdict'[s].code)
         /\ verdict'[s].code.type \in {"scratch", "hotp"}
              => verdict'[s].code \in SpendCodes
<1> DEFINE c == contents[fd[s]]
           o == Outcome(s, token)
<1>1. pc[s] = "prompt"
  BY DEF Accept
<1>2. mem[s] = c /\ Shaped(c)
  BY <1>1, ReadIsShaped
<1>3. PerLogin(mem) /\ PerLogin(verdict)
  BY DEF CodesInv, AtomicInv, TypeInv, LocalsType
<1>4. token \in Tokens
  BY LoginAssumption
<1>5. SpendsItsCode(c, o, token)
  BY <1>2, <1>4, VerifyCodeSpends DEF Outcome
<1>6. PICK d \in RecordLogin(o.cfg, host[s], now) : Remember(s, d)
  BY DEF Accept
<1>7. mem'[s] = d
  BY <1>3, <1>6 DEF Remember, PerLogin
<1>8. verdict'[s].code = CodeOf(o, token)
  BY <1>3 DEF Accept, Decide, PerLogin, CodeOf
<1> HIDE DEF c, o
<1>9. SameCodes(o.cfg, d) /\ (o.cfg.dirty => d.dirty)
  BY <1>5, <1>6, RecordLoginSameCodes DEF SpendsItsCode
<1>10. Shaped(d) /\ \A code \in SpendCodes : Left(d, code) = Left(o.cfg, code)
  BY <1>9, SameCodesLeft DEF SameCodes
<1>11. Spends(c, d, CodeOf(o, token))
  BY <1>5, <1>9, <1>10 DEF SpendsItsCode, Spends
<1>12. CodeOf(o, token).type \in {"scratch", "hotp"} => CodeOf(o, token) \in SpendCodes
  BY <1>5 DEF SpendsItsCode, CodeOf
<1> QED
  BY <1>7, <1>8, <1>10, <1>11, <1>12 DEF c

LEMMA GraceSpendsNothing ==
  ASSUME NEW s \in Sessions, CodesInv, Grace(s)
  PROVE  /\ Shaped(mem'[s])
         /\ Spends(contents[fd[s]], mem'[s], verdict'[s].code)
         /\ verdict'[s].code.type = "grace"
<1>1. mem[s] = contents[fd[s]] /\ Shaped(mem[s])
  BY ReadIsShaped DEF Grace
<1>2. PerLogin(mem) /\ PerLogin(verdict)
  BY DEF CodesInv, AtomicInv, TypeInv, LocalsType
<1>3. PICK d \in UpdateLoginRecord(mem[s], host[s], now) : Remember(s, d)
  BY DEF Grace
<1>4. mem'[s] = d
  BY <1>2, <1>3 DEF Remember, PerLogin
<1>5. verdict'[s].code.type = "grace"
  BY <1>2 DEF Grace, Decide, PerLogin
<1>6. SameCodes(mem[s], d)
  BY <1>1, <1>3, UpdateLoginRecordSameCodes
<1>7. \A code \in SpendCodes : Left(d, code) <= Left(mem[s], code)
  BY <1>1, <1>6, SameCodesLeft, LeftType
<1>8. verdict'[s].code \notin SpendCodes
  BY <1>5 DEF SpendCodes
<1> QED
  BY <1>1, <1>4, <1>5, <1>6, <1>7, <1>8 DEF Spends, SameCodes

\* The step leaves the login well, and grants it nothing that is to be spent.
GrantsNothing(s) ==
  /\ Shaped(mem'[s])
  /\ Decided(s)'
  /\ pc'[s] # "syncDir"
  /\ ~Params.allowReadonly /\ rc'[s] = "success"
       => verdict'[s].code \notin SpendCodes
            \/ (rc[s] = "success" /\ verdict'[s] = verdict[s])

LEMMA ReadingGrantsNothing ==
  ASSUME NEW s \in Sessions, CodesInv,
         Open(s) \/ Lock(s) \/ Load(s) \/ AskForCode(s) \/ CheckPasses(s)
  PROVE  GrantsNothing(s)
<1>1. Decided(s) /\ Shaped(mem[s]) /\ LocalsType
  BY DEF CodesInv, ShapeInv, AtomicInv, TypeInv
<1>2. contents' = contents /\ verdict' = verdict /\ rc' = rc /\ pc[s] # "done"
  BY DEF Open, Lock, Load, AskForCode, CheckPasses, Goto, file
<1>3. CASE Open(s) \/ Lock(s) \/ AskForCode(s) \/ CheckPasses(s)
  <2>1. mem' = mem /\ (CheckPasses(s) => fd' = fd /\ pc[s] = "persist")
        /\ pc'[s] \in {"lock", "load", "prompt", "publish"}
        /\ (pc'[s] = "publish" => CheckPasses(s))
    BY <1>1, <1>3 DEF Open, Lock, AskForCode, CheckPasses, Goto, LocalsType
  <2> QED
    BY <1>1, <1>2, <2>1 DEF GrantsNothing, Decided
<1>4. CASE Load(s)
  <2>1. pc[s] = "load" /\ contents[fd[s]] # Malformed /\ pc'[s] = "decide"
    BY <1>1, <1>4 DEF Load, Goto, LocalsType
  <2>2. fd[s] \in Inodes
    BY <2>1 DEF CodesInv, AtomicInv, Holds
  <2>3. Shaped(contents[fd[s]])
    BY <2>1, <2>2 DEF CodesInv, ShapeInv
  <2>4. mem'[s] = contents[fd[s]]
    BY <1>1, <1>4 DEF Load, Remember, LocalsType, PerLogin
  <2> QED
    BY <1>1, <1>2, <2>1, <2>3, <2>4 DEF GrantsNothing, Decided
<1> QED
  BY <1>3, <1>4

LEMMA DecidingGrantsNothing ==
  ASSUME NEW s \in Sessions, CodesInv,
         Grace(s) \/ \E token \in TypedTokens : Accept(s, token)
  PROVE  GrantsNothing(s)
<1>1. Decided(s) /\ LocalsType
  BY DEF CodesInv, AtomicInv, TypeInv
<1>2. /\ contents' = contents /\ fd' = fd /\ rc' = rc /\ pc'[s] = "persist"
      /\ pc[s] \in {"decide", "prompt"}
  BY <1>1 DEF Grace, Accept, Goto, file, LocalsType
<1>3. rc'[s] # "success"
  BY <1>1, <1>2 DEF Decided
<1>4. /\ Shaped(mem'[s])
      /\ Spends(contents[fd[s]], mem'[s], verdict'[s].code)
      /\ verdict'[s].code.type \in {"scratch", "hotp"}
           => verdict'[s].code \in SpendCodes
  BY GraceSpendsNothing, AcceptSpends
<1> QED
  BY <1>2, <1>3, <1>4 DEF GrantsNothing, Decided

LEMMA EndingGrantsNothing ==
  ASSUME NEW s \in Sessions, CodesInv,
         \/ OpenNothing(s) \/ LoadFails(s) \/ PromptFails(s)
         \/ \E token \in TypedTokens : Reject(s, token)
         \/ NothingToWrite(s) \/ CheckFails(s)
         \/ \E error \in WriteErrors : WriteFails(s, error)
         \/ Kill(s)
  PROVE  GrantsNothing(s)
<1>1. Decided(s) /\ LocalsType
  BY DEF CodesInv, AtomicInv, TypeInv
<1>2. pc'[s] \in {"done", "killed"}
  BY <1>1, EndingStep
<1>3. mem'[s] = EmptyConfig
  BY <1>1 DEF OpenNothing, LoadFails, PromptFails, Reject, NothingToWrite,
              CheckFails, WriteFails, Kill, Answer, LocalsType, PerLogin
<1>4. CASE \E token \in TypedTokens : Reject(s, token)
  <2>1. pc'[s] = "done" /\ rc'[s] = "authErr"
    BY <1>1, <1>4 DEF Reject, Answer, LocalsType
  <2>2. verdict'[s].code.type \in Failures
    BY <1>1, <1>4 DEF Reject, Decide, LocalsType, PerLogin
  <2> QED
    BY <1>3, <2>1, <2>2, EmptyConfigIsShaped
    DEF GrantsNothing, Decided, Failures
<1>5. CASE Kill(s)
  <2>1. rc' = rc /\ verdict' = verdict /\ pc[s] # "done" /\ pc'[s] = "killed"
    BY <1>1, <1>5 DEF Kill, Running, LocalsType
  <2> QED
    BY <1>1, <1>3, <2>1, EmptyConfigIsShaped DEF GrantsNothing, Decided
<1>6. CASE \/ OpenNothing(s) \/ LoadFails(s) \/ PromptFails(s)
           \/ CheckFails(s) \/ \E error \in WriteErrors : WriteFails(s, error)
  <2>1. verdict' = verdict /\ pc'[s] = "done"
        /\ (~Params.allowReadonly => rc'[s] # "success")
    BY <1>1, <1>6 DEF OpenNothing, LoadFails, PromptFails, CheckFails,
                      WriteFails, Answer, LocalsType
  <2> QED
    BY <1>1, <1>3, <2>1, EmptyConfigIsShaped DEF GrantsNothing, Decided
<1>7. CASE NothingToWrite(s)
  <2>1. verdict' = verdict /\ pc'[s] = "done" /\ pc[s] = "persist" /\ ~mem[s].dirty
    BY <1>1, <1>7 DEF NothingToWrite, Answer, LocalsType
  <2>2. verdict[s].code \notin SpendCodes
    BY <1>1, <2>1 DEF Decided, Spends
  <2> QED
    BY <1>1, <1>3, <2>1, <2>2, EmptyConfigIsShaped DEF GrantsNothing, Decided
<1> QED
  BY <1>4, <1>5, <1>6, <1>7

LEMMA QuietGrantsNothing ==
  ASSUME NEW s \in Sessions, CodesInv, Quiet(s)
  PROVE  GrantsNothing(s)
BY ReadingGrantsNothing, DecidingGrantsNothing, EndingGrantsNothing DEF Quiet

\* Where nothing can be read, nobody comes past LoadConfig.
LEMMA QuietKeepsUnreadable ==
  ASSUME NEW s \in Sessions, CodesInv, Setup = Malformed, Unreadable, Quiet(s)
  PROVE  Unreadable'
<1>1. /\ contents' = contents /\ LocalsType
      /\ OthersStay(s)
  BY QuietStaysAway, QuietKeepsLocals DEF file, CodesInv, AtomicInv, TypeInv
<1>2. pc[s] \notin {"decide", "prompt", "persist", "publish", "syncDir"}
  BY DEF Unreadable
<1>3. ~Load(s)
  <2> SUFFICES ASSUME Load(s)
               PROVE  FALSE
    OBVIOUS
  <2>1. pc[s] = "load" /\ contents[fd[s]] # Malformed
    BY DEF Load
  <2>2. fd[s] \in Inodes
    BY <2>1 DEF CodesInv, AtomicInv, Holds
  <2>3. fd[s] = 1
    BY <2>2 DEF Unreadable, Inodes
  <2> QED
    BY <2>1, <2>3 DEF Setup
<1>4. Open(s) \/ OpenNothing(s) \/ Lock(s) \/ LoadFails(s) \/ Kill(s)
  BY <1>2, <1>3 DEF Quiet, Grace, AskForCode, PromptFails, Accept, Reject,
                    NothingToWrite, CheckPasses, CheckFails, WriteFails
<1>5. pc'[s] \in {"lock", "load", "done", "killed"} /\ verdict' = verdict
  BY <1>1, <1>4 DEF Open, OpenNothing, Lock, LoadFails, Kill, Goto, Answer,
                    LocalsType
<1> QED
  BY <1>1, <1>5 DEF Unreadable, OthersStay

\* With no new grants and the same files, the accounts stay in order.
LEMMA AccountedStill ==
  ASSUME CodesInv, Accounted, UNCHANGED file,
         \A code \in SpendCodes : /\ GrantedOn(code)' \subseteq GrantedOn(code)
                                  /\ Outstanding(code)' \subseteq Outstanding(code)
  PROVE  Accounted'
<1>1. contents' = contents /\ dir' = dir /\ durable' = durable
      /\ Setup' = Setup /\ Inodes' = Inodes
  BY DEF file, Setup, Inodes
<1>2. \A i \in durable : i \in Inodes /\ Shaped(contents[i])
  BY DEF Accounted
<1>3. dir \in durable
  BY DEF CodesInv, AtomicInv, TypeInv, FileType
<1>4. ASSUME NEW code \in SpendCodes
      PROVE  /\ \A i \in durable :
                  Left(contents[i], code) + Cardinality(GrantedOn(code)')
                    <= Left(Setup, code)
             /\ Left(contents[dir], code) + Cardinality(Outstanding(code)')
                  <= Left(Setup, code)
  <2>1. /\ Cardinality(GrantedOn(code)) \in Nat
        /\ Cardinality(GrantedOn(code)') \in Nat
        /\ Cardinality(GrantedOn(code)') <= Cardinality(GrantedOn(code))
        /\ Cardinality(Outstanding(code)) \in Nat
        /\ Cardinality(Outstanding(code)') \in Nat
        /\ Cardinality(Outstanding(code)') <= Cardinality(Outstanding(code))
    BY CodesAreFinite, FewerLogins
  <2>2. Left(Setup, code) \in Int
    BY LeftType DEF Accounted
  <2>3. \A i \in durable : Left(contents[i], code) \in Nat
    BY <1>2, LeftType
  <2> QED
    BY <1>3, <2>1, <2>2, <2>3 DEF Accounted
<1>5. Shaped(Setup)
  BY DEF Accounted
<1> QED
  BY <1>1, <1>2, <1>4, <1>5 DEF Accounted

LEMMA OthersStayDecided ==
  ASSUME NEW s \in Sessions, OthersStay(s), CodesInv,
         \A i \in Inodes : contents'[i] = contents[i],
         NEW t \in Sessions \ {s}
  PROVE  Shaped(mem'[t]) /\ Decided(t)'
<1>1. Decided(t) /\ Shaped(mem[t]) /\ Holds(t)
  BY DEF CodesInv, ShapeInv, AtomicInv
<1>2. /\ pc'[t] = pc[t] /\ fd'[t] = fd[t] /\ mem'[t] = mem[t]
      /\ verdict'[t] = verdict[t] /\ rc'[t] = rc[t]
  BY DEF OthersStay
<1>3. pc[t] \in {"persist", "publish"} => contents'[fd[t]] = contents[fd[t]]
  BY <1>1 DEF Holds
<1> QED
  BY <1>1, <1>2, <1>3 DEF Decided

LEMMA QuietKeepsCodesInv ==
  ASSUME NEW s \in Sessions, CodesInv, Quiet(s)
  PROVE  CodesInv'
<1>1. AtomicInv /\ AtomicInv'
  BY QuietKeepsAtomicInv DEF CodesInv
<1>2. /\ UNCHANGED <<now, file, history>> /\ contents' = contents
      /\ Inodes' = Inodes /\ Setup' = Setup /\ (Safe' <=> Safe)
  BY QuietStaysAway DEF file, history, Inodes, Setup, Safe
<1>3. OthersStay(s) /\ GrantsNothing(s)
  BY <1>1, QuietKeepsLocals, QuietGrantsNothing
<1>4. \A t \in Sessions : Shaped(mem'[t]) /\ Decided(t)'
  BY <1>2, <1>3, OthersStayDecided DEF GrantsNothing
<1>5. ShapeInv'
  BY <1>2, <1>4 DEF CodesInv, ShapeInv
<1>6. CASE Safe /\ Setup = Malformed
  BY <1>1, <1>2, <1>4, <1>5, <1>6, QuietKeepsUnreadable DEF CodesInv
<1>7. CASE Safe /\ Setup # Malformed
  <2>1. ASSUME NEW code \in SpendCodes
        PROVE  /\ GrantedOn(code)' \subseteq GrantedOn(code)
               /\ Outstanding(code)' \subseteq Outstanding(code)
    <3>1. GrantedOn(code)' \subseteq GrantedOn(code)
      BY <1>3, <1>7, <2>1 DEF GrantedOn, Granted, GrantsNothing, OthersStay, Safe
    <3>2. Syncing(code)' \subseteq Syncing(code)
      BY <1>3 DEF Syncing, GrantsNothing, OthersStay
    <3> QED
      BY <3>1, <3>2 DEF Outstanding
  <2>2. Accounted
    BY <1>7 DEF CodesInv
  <2>3. Accounted'
    BY <1>2, <2>1, <2>2, AccountedStill
  <2> QED
    BY <1>1, <1>2, <1>4, <1>5, <1>7, <2>3 DEF CodesInv
<1> QED
  BY <1>1, <1>2, <1>4, <1>5, <1>6, <1>7 DEF CodesInv

-----------------------------------------------------------------------------
(***************************************************************************)
(* Writing the file, and losing it.                                        *)
(***************************************************************************)

LEMMA PublishEffect ==
  ASSUME NEW s \in Sessions, CodesInv, Publish(s)
  PROVE  /\ PutInPlace(Stored(mem[s])) /\ OthersStay(s)
         /\ pc[s] = "publish" /\ pc'[s] = "syncDir"
         /\ mem' = mem /\ verdict' = verdict /\ rc' = rc /\ edited' = edited
         /\ raced' = (raced \/ AboutToPublish # {s})
         /\ fd[s] \in Inodes /\ contents[fd[s]] # Malformed
         /\ Shaped(contents[fd[s]]) /\ Shaped(mem[s])
         /\ Spends(contents[fd[s]], mem[s], verdict[s].code)
<1>1. LocalsType /\ Decided(s) /\ Shaped(mem[s])
  BY DEF CodesInv, ShapeInv, AtomicInv, TypeInv
<1>2. /\ PutInPlace(Stored(mem[s])) /\ pc[s] = "publish"
      /\ pc' = [pc EXCEPT ![s] = "syncDir"]
      /\ fd' = fd /\ mem' = mem /\ host' = host /\ verdict' = verdict /\ rc' = rc
      /\ edited' = edited /\ raced' = (raced \/ AboutToPublish # {s})
  BY DEF Publish, Goto
<1>3. OthersStay(s) /\ pc'[s] = "syncDir"
  BY <1>1, <1>2 DEF LocalsType, OthersStay
<1> QED
  BY <1>1, <1>2, <1>3, ReadIsShaped DEF Decided

\* The file that is renamed holds what the login that read its predecessor
\* left of the codes.
LEMMA PublishAccounts ==
  ASSUME NEW s \in Sessions, CodesInv, Publish(s), Safe', Setup # Malformed
  PROVE  Accounted'
<1> DEFINE old == contents[dir]
           new == Stored(mem[s])
<1>1. /\ PutInPlace(new) /\ OthersStay(s)
      /\ pc[s] = "publish" /\ pc'[s] = "syncDir"
      /\ verdict' = verdict /\ rc' = rc
      /\ raced' = (raced \/ AboutToPublish # {s}) /\ edited' = edited
      /\ Shaped(mem[s]) /\ Spends(contents[fd[s]], mem[s], verdict[s].code)
  BY PublishEffect
<1>2. Safe /\ raced \in BOOLEAN /\ ~raced /\ FileType
  BY <1>1 DEF Safe, CodesInv, AtomicInv, TypeInv
<1>3. Accounted
  BY <1>2 DEF CodesInv
<1>4. dir = fd[s]
  BY <1>1, <1>2 DEF CodesInv, AtomicInv, Holds
<1>5. /\ \A i \in Inodes : i \in Inodes' /\ contents'[i] = contents[i]
      /\ dir' \in Inodes' /\ contents'[dir'] = new
      /\ durable' \in {durable \union {dir'}, {dir'}}
      /\ Setup' = Setup
  BY <1>1, <1>2, NewInode, ContentsStay
<1>6. SameCodes(mem[s], new) /\ Shaped(new)
  BY <1>1, StoredSameCodes DEF SameCodes
<1>7. dir \in durable
  BY <1>2 DEF FileType
<1> HIDE DEF new
<1>8. \A i \in durable' : i \in Inodes' /\ Shaped(contents'[i])
  BY <1>3, <1>5, <1>6 DEF Accounted
<1>9. ASSUME NEW code \in SpendCodes
      PROVE  /\ \A i \in durable' :
                  Left(contents'[i], code) + Cardinality(GrantedOn(code)')
                    <= Left(Setup, code)
             /\ Left(new, code) + Cardinality(Outstanding(code)')
                  <= Left(Setup, code)
  <2>1. /\ GrantedOn(code)' = GrantedOn(code)
        /\ Outstanding(code)' \subseteq
             IF code = verdict[s].code THEN Outstanding(code) \union {s}
             ELSE Outstanding(code)
    BY <1>1 DEF GrantedOn, Granted, Outstanding, Syncing, OthersStay
  <2>2. Left(new, code) = Left(mem[s], code)
    BY <1>6, SameCodesLeft
  <2>3. /\ Left(mem[s], code) <= Left(old, code)
        /\ code = verdict[s].code => Left(mem[s], code) + 1 <= Left(old, code)
    BY <1>1, <1>4 DEF Spends
  <2>4. Left(mem[s], code) \in Nat /\ Left(old, code) \in Nat
        /\ Left(Setup, code) \in Nat
    BY <1>1, <1>3, <1>7, LeftType DEF Accounted
  <2>5. Left(old, code) + Cardinality(Outstanding(code)) <= Left(Setup, code)
    BY <1>3 DEF Accounted
  <2>6. /\ Outstanding(code) \in SUBSET Sessions
        /\ Outstanding(code) \union {s} \in SUBSET Sessions
        /\ GrantedOn(code) \in SUBSET Outstanding(code)
    BY CodesAreFinite
  <2>7. /\ Cardinality(Outstanding(code)) \in Nat
        /\ Cardinality(GrantedOn(code)) \in Nat
        /\ Cardinality(GrantedOn(code)) <= Cardinality(Outstanding(code))
    BY <2>6, FewerLogins
  <2>8. CASE code = verdict[s].code
    <3>1. /\ Cardinality(Outstanding(code) \union {s}) \in Nat
          /\ Cardinality(Outstanding(code) \union {s})
               <= Cardinality(Outstanding(code)) + 1
      BY <2>6, OneMoreLogin
    <3>2. /\ Cardinality(Outstanding(code)') \in Nat
          /\ Cardinality(Outstanding(code)')
               <= Cardinality(Outstanding(code) \union {s})
      BY <2>1, <2>6, <2>8, FewerLogins
    <3>3. Left(new, code) + Cardinality(Outstanding(code)') <= Left(Setup, code)
      BY <2>2, <2>3, <2>4, <2>5, <2>7, <2>8, <3>1, <3>2
    <3>4. \A i \in durable' :
            Left(contents'[i], code) + Cardinality(GrantedOn(code)')
              <= Left(Setup, code)
      <4>1. Left(new, code) + Cardinality(GrantedOn(code)) <= Left(Setup, code)
        BY <2>2, <2>3, <2>4, <2>5, <2>7
      <4> QED
        BY <1>3, <1>5, <2>1, <4>1 DEF Accounted
    <3> QED
      BY <3>3, <3>4
  <2>9. CASE code # verdict[s].code
    <3>1. /\ Cardinality(Outstanding(code)') \in Nat
          /\ Cardinality(Outstanding(code)') <= Cardinality(Outstanding(code))
      BY <2>1, <2>6, <2>9, FewerLogins
    <3>2. Left(new, code) + Cardinality(Outstanding(code)') <= Left(Setup, code)
      BY <2>2, <2>3, <2>4, <2>5, <2>7, <3>1
    <3>3. \A i \in durable' :
            Left(contents'[i], code) + Cardinality(GrantedOn(code)')
              <= Left(Setup, code)
      <4>1. Left(new, code) + Cardinality(GrantedOn(code)) <= Left(Setup, code)
        BY <2>2, <2>3, <2>4, <2>5, <2>7
      <4> QED
        BY <1>3, <1>5, <2>1, <4>1 DEF Accounted
    <3> QED
      BY <3>2, <3>3
  <2> QED
    BY <2>8, <2>9
<1> QED
  BY <1>3, <1>5, <1>8, <1>9 DEF Accounted

LEMMA PublishKeepsCodesInv ==
  ASSUME NEW s \in Sessions, CodesInv, Publish(s)
  PROVE  CodesInv'
<1>1. /\ PutInPlace(Stored(mem[s])) /\ OthersStay(s)
      /\ pc[s] = "publish" /\ pc'[s] = "syncDir"
      /\ mem' = mem /\ verdict' = verdict /\ rc' = rc /\ edited' = edited
      /\ raced' = (raced \/ AboutToPublish # {s})
      /\ fd[s] \in Inodes /\ contents[fd[s]] # Malformed /\ Shaped(mem[s])
  BY PublishEffect
<1>2. AtomicInv' /\ FileType /\ Decided(s) /\ raced \in BOOLEAN
  BY PublishKeepsAtomicInv DEF CodesInv, AtomicInv, TypeInv
<1>3. /\ \A i \in Inodes : i \in Inodes' /\ contents'[i] = contents[i]
      /\ Len(contents) \in Nat /\ Len(contents') = Len(contents) + 1
      /\ dir' = Len(contents) + 1 /\ contents'[dir'] = Stored(mem[s])
      /\ Setup' = Setup
  BY <1>1, <1>2, NewInode, ContentsStay
<1>4. \A t \in Sessions : Shaped(mem'[t]) /\ Decided(t)'
  <2>1. Shaped(mem'[s]) /\ Decided(s)'
    BY <1>1, <1>2 DEF Decided
  <2> QED
    BY <1>1, <1>3, <2>1, OthersStayDecided
<1>5. \A i \in Inodes' : contents'[i] = Malformed \/ Shaped(contents'[i])
  <2>1. Shaped(Stored(mem[s]))
    BY <1>1, StoredSameCodes DEF SameCodes
  <2>2. \A i \in Inodes' : i \in Inodes \/ i = dir'
    BY <1>3 DEF Inodes
  <2> QED
    BY <1>3, <2>1, <2>2 DEF CodesInv, ShapeInv
<1>6. Safe' => Safe /\ Setup # Malformed
  <2> SUFFICES ASSUME Safe'
               PROVE  Safe /\ Setup # Malformed
    OBVIOUS
  <2>1. Safe
    BY <1>1, <1>2 DEF Safe
  <2>2. Setup = Malformed => FALSE
    BY <1>1, <2>1 DEF CodesInv, Unreadable
  <2> QED
    BY <2>1, <2>2
<1>7. Safe' => Accounted'
  BY <1>6, PublishAccounts
<1> QED
  BY <1>2, <1>3, <1>4, <1>5, <1>6, <1>7 DEF CodesInv, ShapeInv

LEMMA SyncDirKeepsCodesInv ==
  ASSUME NEW s \in Sessions, CodesInv, SyncDir(s)
  PROVE  CodesInv'
<1>1. AtomicInv' /\ FileType /\ LocalsType /\ Decided(s)
  BY SyncDirKeepsAtomicInv DEF CodesInv, AtomicInv, TypeInv
<1>2. /\ pc[s] = "syncDir" /\ pc' = [pc EXCEPT ![s] = "done"]
      /\ rc' = [rc EXCEPT ![s] = "success"]
      /\ fd' = [fd EXCEPT ![s] = NoFile]
      /\ mem' = [mem EXCEPT ![s] = EmptyConfig]
      /\ contents' = contents /\ dir' = dir /\ durable' = {dir}
      /\ host' = host /\ verdict' = verdict /\ raced' = raced /\ edited' = edited
  BY DEF SyncDir, Answer, history
<1>3. /\ OthersStay(s) /\ pc'[s] = "done" /\ mem'[s] = EmptyConfig
      /\ Inodes' = Inodes /\ Setup' = Setup /\ (Safe' <=> Safe)
  BY <1>1, <1>2 DEF LocalsType, PerLogin, OthersStay, Inodes, Setup, Safe
<1>4. \A t \in Sessions : Shaped(mem'[t]) /\ Decided(t)'
  <2>1. Shaped(mem'[s]) /\ Decided(s)'
    BY <1>1, <1>2, <1>3, EmptyConfigIsShaped DEF Decided
  <2> QED
    BY <1>2, <1>3, <2>1, OthersStayDecided
<1>5. ShapeInv'
  BY <1>2, <1>3, <1>4 DEF CodesInv, ShapeInv
<1>6. Safe /\ Setup = Malformed => FALSE
  BY <1>2 DEF CodesInv, Unreadable
<1>7. CASE Safe /\ Setup # Malformed
  <2>1. Accounted /\ dir \in durable
    BY <1>1, <1>7 DEF CodesInv, FileType
  <2>2. ASSUME NEW code \in SpendCodes
        PROVE  /\ Left(contents[dir], code) + Cardinality(GrantedOn(code)')
                    <= Left(Setup, code)
               /\ Left(contents[dir], code) + Cardinality(Outstanding(code)')
                    <= Left(Setup, code)
    <3>1. /\ GrantedOn(code)' \subseteq Outstanding(code)
          /\ Outstanding(code)' \subseteq Outstanding(code)
      BY <1>2, <1>3 DEF GrantedOn, Granted, Outstanding, Syncing, OthersStay
    <3>2. /\ Cardinality(Outstanding(code)) \in Nat
          /\ Cardinality(GrantedOn(code)') \in Nat
          /\ Cardinality(GrantedOn(code)') <= Cardinality(Outstanding(code))
          /\ Cardinality(Outstanding(code)') \in Nat
          /\ Cardinality(Outstanding(code)') <= Cardinality(Outstanding(code))
      BY <3>1, CodesAreFinite, FewerLogins
    <3>3. Left(contents[dir], code) \in Nat /\ Left(Setup, code) \in Nat
      BY <2>1, LeftType DEF Accounted
    <3>4. Left(contents[dir], code) + Cardinality(Outstanding(code))
            <= Left(Setup, code)
      BY <2>1 DEF Accounted
    <3> QED
      BY <3>2, <3>3, <3>4
  <2>3. Accounted'
    BY <1>2, <1>3, <2>1, <2>2 DEF Accounted
  <2> QED
    BY <1>1, <1>3, <1>4, <1>5, <1>7, <2>3 DEF CodesInv
<1> QED
  BY <1>1, <1>3, <1>4, <1>5, <1>6, <1>7 DEF CodesInv

\* A power loss takes away what was renamed and not granted yet.
LEMMA PowerLossKeepsCodesInv ==
  ASSUME CodesInv, PowerLoss
  PROVE  CodesInv'
<1>1. AtomicInv' /\ LocalsType
  BY PowerLossKeepsAtomicInv DEF CodesInv, AtomicInv, TypeInv
<1>2. /\ contents' = contents /\ dir' \in durable /\ durable' = {dir'}
      /\ pc' = [s \in Sessions |-> IF s \in Running THEN "killed" ELSE pc[s]]
      /\ mem' = [s \in Sessions |-> EmptyConfig]
      /\ verdict' = verdict /\ rc' = rc /\ raced' = raced /\ edited' = edited
      /\ Inodes' = Inodes /\ Setup' = Setup /\ (Safe' <=> Safe)
  BY DEF PowerLoss, history, Inodes, Setup, Safe
<1>3. \A s \in Sessions : /\ pc'[s] \in {"start", "done", "killed"}
                          /\ pc[s] = "done" => pc'[s] = "done"
  BY <1>2 DEF Running
<1>4. \A s \in Sessions : Shaped(mem'[s]) /\ Decided(s)'
  BY <1>2, <1>3, EmptyConfigIsShaped DEF CodesInv, Decided
<1>5. ShapeInv'
  BY <1>2, <1>4 DEF CodesInv, ShapeInv
<1>6. CASE Safe /\ Setup = Malformed
  <2>1. Unreadable'
    BY <1>2, <1>3, <1>6 DEF CodesInv, Unreadable
  <2> QED
    BY <1>1, <1>2, <1>4, <1>5, <1>6, <2>1 DEF CodesInv
<1>7. CASE Safe /\ Setup # Malformed
  <2>1. Accounted
    BY <1>7 DEF CodesInv
  <2>2. \A code : GrantedOn(code)' = GrantedOn(code)
                  /\ Outstanding(code)' = GrantedOn(code)
    BY <1>2, <1>3 DEF GrantedOn, Granted, Outstanding, Syncing
  <2>3. Accounted'
    BY <1>2, <2>1, <2>2 DEF Accounted
  <2> QED
    BY <1>1, <1>2, <1>4, <1>5, <1>7, <2>3 DEF CodesInv
<1> QED
  BY <1>1, <1>2, <1>4, <1>5, <1>6, <1>7 DEF CodesInv

LEMMA OwnerKeepsCodesInv ==
  ASSUME CodesInv, OwnerReplaces \/ OwnerRemoves
  PROVE  CodesInv'
<1>1. AtomicInv' /\ FileType /\ edited' = TRUE /\ UNCHANGED locals
  BY OwnerKeepsAtomicInv DEF CodesInv, AtomicInv, TypeInv, OwnerReplaces,
                             OwnerRemoves
<1>2. /\ \A i \in Inodes : i \in Inodes' /\ contents'[i] = contents[i]
      /\ \A i \in Inodes' : contents'[i] = Malformed \/ Shaped(contents'[i])
  <2>1. CASE OwnerRemoves
    <3>1. contents' = contents
      BY <2>1 DEF OwnerRemoves
    <3> QED
      BY <3>1 DEF Inodes, CodesInv, ShapeInv
  <2>2. CASE OwnerReplaces
    <3>1. PICK c \in OwnerConfigs : PutInPlace(c)
      BY <2>2 DEF OwnerReplaces
    <3>2. c = Malformed \/ Shaped(c)
      BY LoginAssumption, ConfigIsShaped
    <3>3. /\ \A i \in Inodes : i \in Inodes' /\ contents'[i] = contents[i]
          /\ Len(contents) \in Nat /\ Len(contents') = Len(contents) + 1
          /\ dir' = Len(contents) + 1 /\ contents'[dir'] = c
      BY <1>1, <3>1, NewInode
    <3>4. \A i \in Inodes' : i \in Inodes \/ i = dir'
      BY <3>3 DEF Inodes
    <3> QED
      BY <3>2, <3>3, <3>4 DEF CodesInv, ShapeInv
  <2> QED
    BY <2>1, <2>2
<1>3. ASSUME NEW s \in Sessions
      PROVE  Shaped(mem'[s]) /\ Decided(s)'
  <2>1. Decided(s) /\ Holds(s) /\ Shaped(mem[s])
    BY DEF CodesInv, ShapeInv, AtomicInv
  <2>2. pc' = pc /\ fd' = fd /\ mem' = mem /\ verdict' = verdict /\ rc' = rc
    BY <1>1 DEF locals
  <2>3. pc[s] \in {"persist", "publish"} => contents'[fd[s]] = contents[fd[s]]
    BY <1>2, <2>1 DEF Holds
  <2> QED
    BY <2>1, <2>2, <2>3 DEF Decided
<1> QED
  BY <1>1, <1>2, <1>3 DEF CodesInv, ShapeInv, Safe

LEMMA OtherStepsKeepCodesInv ==
  ASSUME CodesInv, SetClock \/ UNCHANGED vars
  PROVE  CodesInv'
<1>1. AtomicInv'
  BY SetClockKeepsAtomicInv DEF CodesInv
<1>2. UNCHANGED <<contents, dir, durable, pc, fd, mem, verdict, rc, raced, edited>>
  BY DEF SetClock, vars, file, locals, history
<1>3. ShapeInv' /\ \A s \in Sessions : Decided(s)'
  BY <1>2 DEF CodesInv, ShapeInv, Inodes, Decided
<1>4. /\ Setup' = Setup /\ (Safe' <=> Safe) /\ Inodes' = Inodes
      /\ \A code : GrantedOn(code)' = GrantedOn(code)
                   /\ Outstanding(code)' = Outstanding(code)
  BY <1>2 DEF Setup, Safe, Inodes, GrantedOn, Granted, Outstanding, Syncing
<1>5. (Unreadable => Unreadable') /\ (Accounted => Accounted')
  BY <1>2, <1>4 DEF Unreadable, Accounted
<1> QED
  BY <1>1, <1>3, <1>4, <1>5 DEF CodesInv

LEMMA StepKeepsCodesInv ==
  ASSUME CodesInv, [Next]_vars
  PROVE  CodesInv'
BY StepCases, QuietKeepsCodesInv, PublishKeepsCodesInv, SyncDirKeepsCodesInv,
   PowerLossKeepsCodesInv, OwnerKeepsCodesInv, OtherStepsKeepCodesInv

-----------------------------------------------------------------------------
(***************************************************************************)
(* The theorems.                                                           *)
(***************************************************************************)

LEMMA GrantedCodesAreAccounted ==
  ASSUME CodesInv, Safe, NEW code \in CodesGranted,
         code.type \in {"scratch", "hotp"}
  PROVE  /\ Accounted /\ code \in SpendCodes
         /\ Cardinality(GrantedOn(code)) \in Nat \ {0}
<1>1. PICK s \in Sessions : Granted(s) /\ code = verdict[s].code
  BY DEF CodesGranted
<1>2. code \in SpendCodes
  BY <1>1 DEF CodesInv, Decided
<1>3. Accounted
  BY <1>1, <1>2 DEF CodesInv, Unreadable
<1>4. s \in GrantedOn(code) /\ IsFiniteSet(Sessions)
  BY <1>1, LoginAssumption DEF GrantedOn
<1>5. IsFiniteSet(GrantedOn(code))
  BY <1>4, CodesAreFinite, FS_Subset
<1>6. Cardinality(GrantedOn(code)) \in Nat
  BY <1>5, FS_CardinalityType
<1>7. Cardinality(GrantedOn(code)) # 0
  BY <1>4, <1>5, FS_EmptySet
<1> QED
  BY <1>2, <1>3, <1>6, <1>7

LEMMA CodesInvSpendsOnce ==
  ASSUME CodesInv
  PROVE  EachCodeOnce
<1> SUFFICES ASSUME Safe, NEW code \in CodesGranted,
                    code.type \in {"scratch", "hotp"}
             PROVE  Cardinality(GrantedOn(code)) <= Uses(code)
  BY DEF EachCodeOnce, NoneOveruses, Safe
<1>1. /\ Accounted /\ code \in SpendCodes
      /\ Cardinality(GrantedOn(code)) \in Nat \ {0}
  BY GrantedCodesAreAccounted
<1>2. dir \in durable
  BY DEF CodesInv, AtomicInv, TypeInv, FileType
<1>3. Left(contents[dir], code) + Cardinality(GrantedOn(code)) <= Left(Setup, code)
  BY <1>1, <1>2 DEF Accounted
<1>4. Left(contents[dir], code) \in Nat /\ Left(Setup, code) \in Nat
  BY <1>1, <1>2, LeftType DEF Accounted
<1>5. Left(Setup, code) <= Uses(code)
  <2>1. CASE code.type = "scratch"
    <3>1. Left(Setup, code) = Uses(code)
      BY <2>1 DEF Left, Uses
    <3> QED
      BY <1>4, <3>1
  <2>2. CASE code.type = "hotp"
    BY <2>2 DEF Left, Uses
  <2> QED
    BY <2>1, <2>2
<1>6. Uses(code) \in Nat
  BY <1>4 DEF Left, Uses
<1> QED
  BY <1>1, <1>3, <1>4, <1>5, <1>6

LEMMA CodesInvSpendsOnDisk ==
  ASSUME CodesInv
  PROVE  SpentOnDisk
<1> SUFFICES ASSUME Safe, NEW code \in CodesGranted, NEW inode \in durable
             PROVE  IsSpent(contents[inode], code)
  BY DEF SpentOnDisk, Safe
<1>1. CASE code.type \notin {"scratch", "hotp"}
  BY <1>1 DEF IsSpent
<1>2. CASE code.type \in {"scratch", "hotp"}
  <2>1. /\ Accounted /\ code \in SpendCodes
        /\ Cardinality(GrantedOn(code)) \in Nat \ {0}
    BY <1>2, GrantedCodesAreAccounted
  <2>2. Left(contents[inode], code) + Cardinality(GrantedOn(code)) <= Left(Setup, code)
    BY <2>1 DEF Accounted
  <2>3. /\ Left(contents[inode], code) \in Nat /\ Left(Setup, code) \in Nat
        /\ Shaped(contents[inode])
    BY <2>1, LeftType DEF Accounted
  <2>4. CASE code.type = "scratch"
    <3>1. Left(contents[inode], code) <= Left(Setup, code) - Cardinality(GrantedOn(code))
      BY <2>1, <2>2, <2>3
    <3> QED
      BY <2>4, <3>1 DEF IsSpent, Uses, Left
  <2>5. CASE code.type = "hotp"
    <3>1. Left(Setup, code) <= 1
      BY <2>5 DEF Left
    <3>2. Left(contents[inode], code) = 0
      BY <2>1, <2>2, <2>3, <3>1
    <3>3. contents[inode].hotpCounter \in Int /\ code.number \in Int
      BY <2>1, <2>3, <2>5 DEF Shaped, ShapeOf, SpendCodes
    <3> QED
      BY <2>5, <3>2, <3>3 DEF IsSpent, Left
  <2> QED
    BY <1>2, <2>4, <2>5
<1> QED
  BY <1>1, <1>2

\* A scratch code lets in as many logins as there are copies of it, and an
\* HOTP counter one, however many logins verify it at once, wherever they
\* die, and whenever the power fails.
THEOREM CodesAreSpentOnce ==
  Spec => []EachCodeOnce
BY CodesInit, StepKeepsCodesInv, CodesInvSpendsOnce, PTL DEF Spec

\* By the time somebody is let in, the code is spent in every file that a
\* power loss may bring back.
THEOREM CodesAreSpentOnDisk ==
  Spec => []SpentOnDisk
BY CodesInit, StepKeepsCodesInv, CodesInvSpendsOnDisk, PTL DEF Spec

-----------------------------------------------------------------------------
(***************************************************************************)
(* Login records.                                                          *)
(***************************************************************************)

\* The records are in the slots, whatever they are.
Tabled(c) == c.lastLogins = [i \in Slots |-> c.lastLogins[i]]

Recorded(c, h, when) ==
  \E i \in Slots : c.lastLogins[i].host = h /\ c.lastLogins[i].when = when

\* A login that may be on record: one that was let in, or one from the files
\* that were there already.
Known(h, when) ==
  \/ \E c \in InitialConfigs \union OwnerConfigs :
       c # Malformed /\ Recorded(c, h, when)
  \/ \E s \in Sessions : /\ host[s] = h
                         /\ verdict[s].code.type \in Successes \union {"grace"}
                         /\ verdict[s].when = when

Rooted(c) ==
  /\ Tabled(c)
  /\ \A h \in Hosts : \A when : Recorded(c, h, when) => Known(h, when)

RecordInv ==
  /\ CodesInv
  /\ \A i \in Inodes : contents[i] = Malformed \/ Rooted(contents[i])
  /\ \A s \in Sessions :
       /\ pc[s] \in {"start", "lock", "load", "decide", "prompt"}
            => verdict[s] = NoVerdict
       /\ pc[s] \in {"persist", "publish"} => Rooted(mem[s])

LEMMA StoredRecords ==
  ASSUME NEW c, Shaped(c), Tabled(c)
  PROVE  /\ Tabled(Stored(c))
         /\ \A h \in Hosts : \A when :
              Recorded(Stored(c), h, when) => Recorded(c, h, when)
<1> DEFINE kept == [i \in Slots |-> IF c.lastLogins[i].when = 0 THEN NoLogin
                                    ELSE c.lastLogins[i]]
<1>1. PICK S : c \in ShapeOf(S)
  BY DEF Shaped
<1>2. Stored(c).lastLogins = kept
  BY <1>1 DEF Stored, ShapeOf
<1>3. Tabled(Stored(c))
  BY <1>2 DEF Tabled
<1>4. ASSUME NEW h \in Hosts, NEW when, Recorded(Stored(c), h, when)
      PROVE  Recorded(c, h, when)
  <2>1. PICK i \in Slots : kept[i].host = h /\ kept[i].when = when
    BY <1>2, <1>4 DEF Recorded
  <2>2. NoLogin.host # h
    BY ConfigAssumption DEF NoLogin
  <2>3. kept[i] = c.lastLogins[i]
    BY <2>1, <2>2
  <2> QED
    BY <2>1, <2>3 DEF Recorded
<1> QED
  BY <1>3, <1>4

\* A login puts itself on record, and nobody else.
LEMMA UpdateLoginRecordRecords ==
  ASSUME NEW c, Shaped(c), Tabled(c), NEW h, NEW when,
         NEW d \in UpdateLoginRecord(c, h, when)
  PROVE  /\ Tabled(d)
         /\ \A g, w : Recorded(d, g, w) => Recorded(c, g, w) \/ (g = h /\ w = when)
<1>1. CASE d = c
  BY <1>1
<1>2. CASE \E slot : d = [c EXCEPT !.lastLogins[slot] = [host |-> h, when |-> when],
                                   !.dirty = TRUE]
  <2>1. PICK slot : d = [c EXCEPT !.lastLogins[slot] = [host |-> h, when |-> when],
                                  !.dirty = TRUE]
    BY <1>2
  <2>2. PICK S : c \in ShapeOf(S)
    BY DEF Shaped
  <2>3. d.lastLogins = [c.lastLogins EXCEPT ![slot] = [host |-> h, when |-> when]]
    BY <2>1, <2>2 DEF ShapeOf
  <2>4. Tabled(d)
    BY <2>3 DEF Tabled
  <2>5. \A i \in Slots : \/ d.lastLogins[i] = c.lastLogins[i]
                         \/ d.lastLogins[i] = [host |-> h, when |-> when]
    BY <2>3 DEF Tabled
  <2> QED
    BY <2>4, <2>5 DEF Recorded
<1> QED
  BY <1>1, <1>2 DEF UpdateLoginRecord

\* What is on record is known already, or is this login.
RootedBut(c, h, when) ==
  /\ Tabled(c)
  /\ \A g \in Hosts : \A w :
       Recorded(c, g, w) => Known(g, w) \/ (g = h /\ w = when)

LEMMA DecidingRecords ==
  ASSUME NEW s \in Sessions, RecordInv,
         Grace(s) \/ \E token \in TypedTokens : Accept(s, token)
  PROVE  /\ RootedBut(mem'[s], host[s], now)
         /\ verdict'[s].code.type \in Successes \union {"grace"}
         /\ verdict'[s].when = now /\ verdict[s] = NoVerdict
         /\ pc'[s] = "persist" /\ host' = host
<1>1. PerLogin(mem) /\ PerLogin(verdict) /\ LocalsType
  BY DEF RecordInv, CodesInv, AtomicInv, TypeInv, LocalsType
<1>2. pc[s] \in {"decide", "prompt"}
  BY DEF Grace, Accept
<1>3. mem[s] = contents[fd[s]] /\ Shaped(mem[s]) /\ Rooted(mem[s])
      /\ verdict[s] = NoVerdict
  BY <1>2, ReadIsShaped DEF RecordInv
<1>4. pc'[s] = "persist" /\ host' = host
  BY <1>1 DEF Grace, Accept, Goto, LocalsType
<1>5. CASE Grace(s)
  <2>1. PICK d \in UpdateLoginRecord(mem[s], host[s], now) : Remember(s, d)
    BY <1>5 DEF Grace
  <2>2. mem'[s] = d
    BY <1>1, <2>1 DEF Remember, PerLogin
  <2>3. RootedBut(d, host[s], now)
    BY <1>3, <2>1, UpdateLoginRecordRecords DEF Rooted, RootedBut
  <2>4. verdict'[s].code.type = "grace" /\ verdict'[s].when = now
    BY <1>1, <1>5 DEF Grace, Decide, PerLogin
  <2> QED
    BY <1>3, <1>4, <2>2, <2>3, <2>4
<1>6. ASSUME NEW token \in TypedTokens, Accept(s, token)
      PROVE  /\ RootedBut(mem'[s], host[s], now)
             /\ verdict'[s].code.type \in Successes /\ verdict'[s].when = now
  <2> DEFINE o == Outcome(s, token)
  <2>1. token \in Tokens
    BY LoginAssumption
  <2>2. Shaped(o.cfg) /\ SameRecords(mem[s], o.cfg)
    BY <1>3, <2>1, VerifyCodeSpends DEF Outcome, SpendsItsCode
  <2>3. PICK d \in RecordLogin(o.cfg, host[s], now) : Remember(s, d)
    BY <1>6 DEF Accept
  <2>4. o.result \in Successes /\ verdict'[s].code.type = o.result
        /\ verdict'[s].when = now
    BY <1>1, <1>6 DEF Accept, Decide, PerLogin
  <2> HIDE DEF o
  <2>5. mem'[s] = d
    BY <1>1, <2>3 DEF Remember, PerLogin
  <2>6. Rooted(o.cfg)
    BY <1>3, <2>2 DEF SameRecords, Rooted, Tabled, Recorded
  <2>7. d = o.cfg \/ d \in UpdateLoginRecord(o.cfg, host[s], now)
    BY <2>3 DEF RecordLogin
  <2>8. RootedBut(d, host[s], now)
    BY <2>2, <2>6, <2>7, UpdateLoginRecordRecords DEF Rooted, RootedBut
  <2> QED
    BY <2>4, <2>5, <2>8
<1> QED
  BY <1>3, <1>4, <1>5, <1>6

LEMMA KnownStays ==
  ASSUME \A s \in Sessions :
           \/ host'[s] = host[s] /\ verdict'[s] = verdict[s]
           \/ verdict[s].code.type \notin Successes \union {"grace"},
         NEW h, NEW when, Known(h, when)
  PROVE  Known(h, when)'
BY DEF Known

\* Nothing that matters to the records changes but s, which does not decide.
LEMMA QuietRecords ==
  ASSUME NEW s \in Sessions, RecordInv, Quiet(s), ~Grace(s),
         \A token \in TypedTokens : ~Accept(s, token)
  PROVE  /\ pc'[s] \in {"start", "lock", "load", "decide", "prompt"}
              => verdict'[s] = NoVerdict
         /\ pc'[s] \in {"persist", "publish"} => mem'[s] = mem[s] /\ Rooted(mem[s])
         /\ \/ host'[s] = host[s] /\ verdict'[s] = verdict[s]
            \/ verdict[s] = NoVerdict
         /\ verdict'[s].code.type = "grace" => verdict'[s] = verdict[s]
<1>1. LocalsType
  BY DEF RecordInv, CodesInv, AtomicInv, TypeInv
<1>2. CASE Open(s) \/ Lock(s) \/ Load(s) \/ AskForCode(s)
  <2>1. pc[s] \in {"start", "lock", "load", "decide"} /\ verdict' = verdict
    BY <1>2 DEF Open, Lock, Load, AskForCode
  <2>2. pc'[s] \in {"lock", "load", "decide", "prompt"}
    BY <1>1, <1>2 DEF Open, Lock, Load, AskForCode, Goto, LocalsType
  <2>3. verdict[s] = NoVerdict
    BY <2>1 DEF RecordInv
  <2> QED
    BY <2>1, <2>2, <2>3
<1>3. CASE CheckPasses(s)
  <2>1. pc[s] = "persist" /\ pc'[s] = "publish"
        /\ mem' = mem /\ verdict' = verdict /\ host' = host
    BY <1>1, <1>3 DEF CheckPasses, Goto, LocalsType
  <2> QED
    BY <2>1 DEF RecordInv
<1>4. CASE \/ OpenNothing(s) \/ LoadFails(s) \/ PromptFails(s)
           \/ NothingToWrite(s) \/ CheckFails(s)
           \/ \E error \in WriteErrors : WriteFails(s, error)
           \/ Kill(s)
  <2>1. pc'[s] \in {"done", "killed"}
    BY <1>1, <1>4, EndingStep
  <2>2. verdict' = verdict /\ host' = host
    BY <1>4 DEF OpenNothing, LoadFails, PromptFails, NothingToWrite, CheckFails,
                WriteFails, Kill
  <2> QED
    BY <2>1, <2>2
<1>5. CASE \E token \in TypedTokens : Reject(s, token)
  <2>1. pc'[s] \in {"done", "killed"}
    BY <1>1, <1>5, EndingStep
  <2>2. pc[s] = "prompt" /\ verdict'[s].code.type \in Failures
    BY <1>1, <1>5 DEF Reject, Decide, LocalsType, PerLogin
  <2>3. verdict[s] = NoVerdict
    BY <2>2 DEF RecordInv
  <2> QED
    BY <2>1, <2>2, <2>3 DEF Failures
<1> QED
  BY <1>2, <1>3, <1>4, <1>5 DEF Quiet

\* What is rooted stays so while logins are only added to those that are known.
LEMMA RootedStays ==
  ASSUME \A h \in Hosts : \A when : Known(h, when) => Known(h, when)',
         NEW c, Rooted(c), NEW d, d = c
  PROVE  Tabled(d) /\ \A h \in Hosts : \A when : Recorded(d, h, when) => Known(h, when)'
BY DEF Rooted

LEMMA QuietKeepsRecordInv ==
  ASSUME NEW s \in Sessions, RecordInv, Quiet(s)
  PROVE  RecordInv'
<1>1. CodesInv' /\ OthersStay(s)
  BY QuietKeepsCodesInv, QuietKeepsLocals DEF RecordInv, CodesInv
<1>2. contents' = contents /\ Inodes' = Inodes /\ now' = now
  BY QuietStaysAway DEF file, Inodes
<1>3. CASE Grace(s) \/ \E token \in TypedTokens : Accept(s, token)
  <2>1. /\ RootedBut(mem'[s], host[s], now)
        /\ verdict'[s].code.type \in Successes \union {"grace"}
        /\ verdict'[s].when = now /\ verdict[s] = NoVerdict
        /\ pc'[s] = "persist" /\ host' = host
    BY <1>3, DecidingRecords
  <2>2. \A h \in Hosts : \A when : Known(h, when) => Known(h, when)'
    BY <1>1, <2>1, KnownStays DEF OthersStay, NoVerdict, Successes
  <2>3. Known(host[s], now)'
    BY <1>2, <2>1 DEF Known
  <2>4. Rooted(mem[s])'
    <3>1. \A h \in Hosts : \A when : Recorded(mem'[s], h, when) => Known(h, when)'
      BY <1>2, <2>1, <2>2, <2>3 DEF RootedBut
    <3> QED
      BY <2>1, <3>1 DEF RootedBut, Rooted
  <2>5. \A i \in Inodes : contents[i] = Malformed \/ Rooted(contents[i])'
    BY <1>2, <2>2 DEF RecordInv, Rooted
  <2>6. \A t \in Sessions \ {s} :
           /\ pc'[t] \in {"start", "lock", "load", "decide", "prompt"}
                => verdict'[t] = NoVerdict
           /\ pc'[t] \in {"persist", "publish"} => Rooted(mem[t])'
    BY <1>1, <2>2 DEF RecordInv, OthersStay, Rooted
  <2> QED
    BY <1>1, <1>2, <2>1, <2>4, <2>5, <2>6 DEF RecordInv
<1>4. CASE ~Grace(s) /\ \A token \in TypedTokens : ~Accept(s, token)
  <2>1. /\ pc'[s] \in {"start", "lock", "load", "decide", "prompt"}
             => verdict'[s] = NoVerdict
        /\ pc'[s] \in {"persist", "publish"} => mem'[s] = mem[s] /\ Rooted(mem[s])
        /\ \/ host'[s] = host[s] /\ verdict'[s] = verdict[s]
           \/ verdict[s] = NoVerdict
    BY <1>4, QuietRecords
  <2>2. \A h \in Hosts : \A when : Known(h, when) => Known(h, when)'
    BY <1>1, <2>1, KnownStays DEF OthersStay, NoVerdict, Successes
  <2>3. pc'[s] \in {"persist", "publish"} => Rooted(mem[s])'
    BY <2>1, <2>2 DEF Rooted
  <2>4. \A i \in Inodes : contents[i] = Malformed \/ Rooted(contents[i])'
    BY <1>2, <2>2 DEF RecordInv, Rooted
  <2>5. \A t \in Sessions \ {s} :
           /\ pc'[t] \in {"start", "lock", "load", "decide", "prompt"}
                => verdict'[t] = NoVerdict
           /\ pc'[t] \in {"persist", "publish"} => Rooted(mem[t])'
    BY <1>1, <2>2 DEF RecordInv, OthersStay, Rooted
  <2> QED
    BY <1>1, <1>2, <2>1, <2>3, <2>4, <2>5 DEF RecordInv
<1> QED
  BY <1>3, <1>4

\* Files come and go: the new one holds what a login or the owner wrote.
LEMMA WritingKeepsRecordInv ==
  ASSUME RecordInv, CodesInv',
         \/ \E s \in Sessions : Publish(s) \/ SyncDir(s)
         \/ OwnerReplaces \/ OwnerRemoves \/ PowerLoss \/ SetClock
         \/ UNCHANGED vars
  PROVE  RecordInv'
<1>1. host' = host /\ verdict' = verdict
  BY DEF Publish, SyncDir, OwnerReplaces, OwnerRemoves, PowerLoss, SetClock,
         vars, locals
<1>2. \A h \in Hosts : \A when : Known(h, when) => Known(h, when)'
  BY <1>1, KnownStays
<1>3. LocalsType /\ FileType
  BY DEF RecordInv, CodesInv, AtomicInv, TypeInv
<1>4. \A s \in Sessions :
        /\ pc'[s] \in {"start", "lock", "load", "decide", "prompt"}
             => pc'[s] = pc[s]
        /\ pc'[s] \in {"persist", "publish"} => pc'[s] = pc[s] /\ mem'[s] = mem[s]
  <2>1. CASE \E s \in Sessions : Publish(s) \/ SyncDir(s)
    BY <1>3, <2>1 DEF Publish, SyncDir, Goto, Answer, LocalsType, PerLogin
  <2>2. CASE PowerLoss
    BY <1>3, <2>2 DEF PowerLoss, Running, LocalsType
  <2>3. CASE OwnerReplaces \/ OwnerRemoves \/ SetClock \/ UNCHANGED vars
    BY <2>3 DEF OwnerReplaces, OwnerRemoves, SetClock, vars, locals
  <2> QED
    BY <2>1, <2>2, <2>3
<1>5. \A s \in Sessions :
         /\ pc'[s] \in {"start", "lock", "load", "decide", "prompt"}
              => verdict'[s] = NoVerdict
         /\ pc'[s] \in {"persist", "publish"} => Rooted(mem[s])'
  BY <1>1, <1>2, <1>4 DEF RecordInv, Rooted
<1>6. \A i \in Inodes' : contents'[i] = Malformed \/ Rooted(contents[i])'
  <2>1. CASE \/ \E s \in Sessions : SyncDir(s)
             \/ OwnerRemoves \/ PowerLoss \/ SetClock \/ UNCHANGED vars
    <3>1. contents' = contents
      BY <2>1 DEF SyncDir, OwnerRemoves, PowerLoss, SetClock, vars, file
    <3> QED
      BY <1>2, <3>1 DEF RecordInv, Rooted, Inodes
  <2>2. ASSUME NEW e, PutInPlace(e),
               e # Malformed => Tabled(e) /\ \A h \in Hosts : \A when :
                                               Recorded(e, h, when) => Known(h, when)'
        PROVE  \A i \in Inodes' : contents'[i] = Malformed \/ Rooted(contents[i])'
    <3>1. /\ \A i \in Inodes : i \in Inodes' /\ contents'[i] = contents[i]
          /\ Len(contents) \in Nat /\ Len(contents') = Len(contents) + 1
          /\ dir' = Len(contents) + 1 /\ contents'[dir'] = e
      BY <1>3, <2>2, NewInode
    <3>2. \A i \in Inodes' : i \in Inodes \/ i = dir'
      BY <3>1 DEF Inodes
    <3>3. \A i \in Inodes : contents'[i] = Malformed \/ Rooted(contents[i])'
      BY <1>2, <3>1 DEF RecordInv, Rooted
    <3>4. contents'[dir'] = Malformed \/ Rooted(contents[dir])'
      BY <2>2, <3>1 DEF Rooted
    <3> QED
      BY <3>2, <3>3, <3>4
  <2>3. ASSUME NEW s \in Sessions, Publish(s)
        PROVE  \A i \in Inodes' : contents'[i] = Malformed \/ Rooted(contents[i])'
    <3>1. PutInPlace(Stored(mem[s])) /\ pc[s] = "publish" /\ Shaped(mem[s])
      BY <2>3 DEF Publish, RecordInv, CodesInv, ShapeInv
    <3>2. Rooted(mem[s])
      BY <3>1 DEF RecordInv
    <3>3. /\ Tabled(Stored(mem[s]))
          /\ \A h \in Hosts : \A when :
               Recorded(Stored(mem[s]), h, when) => Recorded(mem[s], h, when)
      BY <3>1, <3>2, StoredRecords DEF Rooted
    <3>4. \A h \in Hosts : \A when :
            Recorded(Stored(mem[s]), h, when) => Known(h, when)'
      BY <1>2, <3>2, <3>3 DEF Rooted
    <3> QED
      BY <2>2, <3>1, <3>3, <3>4
  <2>4. CASE OwnerReplaces
    <3>1. PICK c \in OwnerConfigs : PutInPlace(c)
      BY <2>4 DEF OwnerReplaces
    <3>2. c # Malformed
            => Tabled(c) /\ \A h \in Hosts : \A when : Recorded(c, h, when) => Known(h, when)'
      BY LoginAssumption DEF Config, Tabled, Known
    <3> QED
      BY <2>2, <3>1, <3>2
  <2> QED
    BY <2>1, <2>3, <2>4
<1> QED
  BY <1>5, <1>6 DEF RecordInv

LEMMA StepKeepsRecordInv ==
  ASSUME RecordInv, [Next]_vars
  PROVE  RecordInv'
<1>1. CodesInv'
  BY StepKeepsCodesInv DEF RecordInv
<1> QED
  BY <1>1, StepCases, QuietKeepsRecordInv, WritingKeepsRecordInv

LEMMA RecordInit ==
  ASSUME Init
  PROVE  RecordInv
<1>1. PICK c \in InitialConfigs : contents = <<c>>
  BY DEF Init
<1>2. Inodes = {1} /\ contents[1] = c
  BY <1>1 DEF Inodes
<1>3. c # Malformed => Rooted(c)
  BY LoginAssumption DEF Config, Tabled, Known, Rooted
<1>4. \A s \in Sessions : pc[s] = "start" /\ verdict[s] = NoVerdict
  BY DEF Init
<1> QED
  BY <1>2, <1>3, <1>4, CodesInit DEF RecordInv

\* Who skips the code is known: the record that says so is that of a login
\* that was let in, or was there from the start.
LEMMA GraceIsRooted ==
  ASSUME NEW s \in Sessions, RecordInv, Grace(s)
  PROVE  \/ \E t \in Sessions \ {s} :
              /\ host[t] = host[s]
              /\ verdict[t].code.type \in Successes \union {"grace"}
              /\ verdict[t].when + Params.gracePeriod > now
         \/ \E c \in InitialConfigs \union OwnerConfigs :
              RecentRecord(c, host[s], now)
<1>1. Rooted(mem[s]) /\ verdict[s] = NoVerdict
  BY ReadIsShaped DEF Grace, RecordInv
<1>2. /\ Params.gracePeriod > 0 /\ host[s] # NoHost
      /\ \E i \in Slots : /\ mem[s].lastLogins[i].host = host[s]
                          /\ mem[s].lastLogins[i].when + Params.gracePeriod > now
  BY DEF Grace, InGrace, WithinGracePeriod
<1>3. PICK when : /\ Recorded(mem[s], host[s], when)
                  /\ when + Params.gracePeriod > now
  BY <1>2 DEF Recorded
<1>4. host[s] \in Hosts
  BY <1>2 DEF RecordInv, CodesInv, AtomicInv, TypeInv, LocalsType
<1>5. Known(host[s], when)
  BY <1>1, <1>3, <1>4 DEF Rooted
<1>6. CASE \E c \in InitialConfigs \union OwnerConfigs :
             c # Malformed /\ Recorded(c, host[s], when)
  BY <1>2, <1>3, <1>6 DEF Recorded, RecentRecord, WithinGracePeriod
<1>7. CASE \E t \in Sessions :
             /\ host[t] = host[s]
             /\ verdict[t].code.type \in Successes \union {"grace"}
             /\ verdict[t].when = when
  BY <1>1, <1>3, <1>7 DEF NoVerdict, Successes
<1> QED
  BY <1>5, <1>6, <1>7 DEF Known

\* A login that skips the code can name the earlier one that did not, or that
\* could in its turn: nothing that happens to the file invents a login.
THEOREM NoLoginIsInvented ==
  Spec => GraceRooted
<1>1. ASSUME RecordInv, [Next]_vars, NEW s \in Sessions,
             verdict'[s] # verdict[s], verdict'[s].code.type = "grace"
      PROVE  Grace(s)
  <2>1. \E t \in Sessions : Quiet(t)
    BY <1>1, StepCases DEF Publish, SyncDir, OwnerReplaces, OwnerRemoves,
                           PowerLoss, SetClock, vars, locals
  <2>2. Quiet(s)
    BY <1>1, <2>1, QuietKeepsLocals DEF OthersStay, RecordInv, CodesInv
  <2>3. ASSUME NEW token \in TypedTokens, Accept(s, token)
        PROVE  FALSE
    BY <1>1, <2>3 DEF Accept, Decide, RecordInv, CodesInv, AtomicInv, TypeInv,
                      LocalsType, PerLogin, Successes
  <2> QED
    BY <1>1, <2>2, <2>3, QuietRecords
<1>2. RecordInv /\ [Next]_vars
        => [\A s \in Sessions :
              verdict'[s] # verdict[s] /\ verdict'[s].code.type = "grace"
                => \/ \E t \in Sessions \ {s} :
                        /\ host[t] = host[s]
                        /\ verdict[t].code.type \in Successes \union {"grace"}
                        /\ verdict[t].when + Params.gracePeriod > now
                   \/ \E c \in InitialConfigs \union OwnerConfigs :
                        RecentRecord(c, host[s], now)]_vars
  BY <1>1, GraceIsRooted
<1> QED
  BY <1>2, RecordInit, StepKeepsRecordInv, PTL DEF Spec, GraceRooted

-----------------------------------------------------------------------------
(***************************************************************************)
(* Types.                                                                  *)
(***************************************************************************)

\* The clock is not set back.
ClockForward == ClockSteps \subseteq Nat

\* What an installation starts with, or the owner puts in place, has its stamps
\* in order, and older than the start.
StampsOfThePast ==
  \A c \in (InitialConfigs \union OwnerConfigs) \ {Malformed}, t \in StartTimes :
    StampsInOrder(c, t)

\* The order of the stamps is the one part of a file's shape that the clock
\* and the owner can disturb.
Typed(c, t) == c \in Config /\ (ClockForward /\ StampsOfThePast => StampsInOrder(c, t))

TypedInv ==
  /\ AtomicInv
  /\ ClockForward => \E t \in StartTimes : t <= now
  /\ \A i \in Inodes : contents[i] = Malformed \/ Typed(contents[i], now)
  /\ \A s \in Sessions : Typed(mem[s], now) /\ verdict[s] \in Verdicts

LEMMA TypedLater ==
  ASSUME NEW c, NEW t \in Int, NEW u \in Int, t <= u, Typed(c, t)
  PROVE  Typed(c, u)
<1>1. c.rateLimit.timestamps \in Seq(Int)
  BY DEF Typed, Config, RateLimit
<1>2. \A i \in DOMAIN c.rateLimit.timestamps : c.rateLimit.timestamps[i] \in Int
  BY <1>1
<1> QED
  BY <1>2 DEF Typed, StampsInOrder

\* The configurations differ in their login records at most.
OnlyRecords(c, d) ==
  SameWindow(c, d) /\ d.disallowed = c.disallowed /\ d.rateLimit = c.rateLimit

LEMMA OnlyRecordsTyped ==
  ASSUME NEW c, NEW d \in Config, NEW t, OnlyRecords(c, d), Typed(c, t)
  PROVE  Typed(d, t)
BY DEF OnlyRecords, Typed, StampsInOrder

LEMMA StoredType ==
  ASSUME NEW c \in Config
  PROVE  Stored(c) \in Config /\ OnlyRecords(c, Stored(c))
<1> DEFINE kept == [i \in Slots |-> IF c.lastLogins[i].when = 0 THEN NoLogin
                                    ELSE c.lastLogins[i]]
<1>1. kept \in [Slots -> LoginRecord]
  BY DEF Config, LoginRecord, NoLogin
<1>2. Stored(c) = [c EXCEPT !.dirty = FALSE, !.lastLogins = kept]
  BY DEF Stored
<1> HIDE DEF kept
<1> QED
  BY <1>1, <1>2 DEF Config, OnlyRecords, SameWindow

LEMMA RecordLoginType ==
  ASSUME NEW c \in Config, NEW h \in Hosts \union {NoHost}, NEW when \in Int,
         NEW d, d \in RecordLogin(c, h, when) \/ d \in UpdateLoginRecord(c, h, when)
  PROVE  d \in Config /\ OnlyRecords(c, d) /\ (c.dirty => d.dirty)
<1>1. CASE d = c
  BY <1>1 DEF OnlyRecords, SameWindow
<1>2. CASE \E slot : d = [c EXCEPT !.lastLogins[slot] = [host |-> h, when |-> when],
                                   !.dirty = TRUE]
  <2>1. PICK slot : d = [c EXCEPT !.lastLogins[slot] = [host |-> h, when |-> when],
                                  !.dirty = TRUE]
    BY <1>2
  <2> DEFINE records == [c.lastLogins EXCEPT ![slot] = [host |-> h, when |-> when]]
  <2>2. records \in [Slots -> LoginRecord]
    BY DEF Config, LoginRecord
  <2>3. d = [c EXCEPT !.lastLogins = records, !.dirty = TRUE]
    BY <2>1 DEF Config
  <2> HIDE DEF records
  <2> QED
    BY <2>2, <2>3 DEF Config, OnlyRecords, SameWindow
<1> QED
  BY <1>1, <1>2 DEF RecordLogin, UpdateLoginRecord

LEMMA EmptyConfigType ==
  ASSUME NEW t
  PROVE  Typed(EmptyConfig, t)
<1>1. EmptyConfig \in Config
  BY DEF EmptyConfig, Config, RateLimit, NoRateLimit, LoginRecord, NoLogin,
         DefaultStepSize, DefaultWindow
<1>2. EmptyConfig.rateLimit.timestamps = << >>
  BY DEF EmptyConfig, NoRateLimit
<1> QED
  BY <1>1, <1>2 DEF Typed, StampsInOrder, InOrder

LEMMA VerifyCodeTyped ==
  ASSUME NEW c, NEW t \in Nat, Typed(c, t), NEW token \in Tokens,
         NEW opts \in VerifyOptions
  PROVE  Typed(VerifyCode(c, token, opts, t).cfg, t)
BY VerifyCodeKeepsType, VerifyCodeType DEF Typed

\* The code that is accepted is one.
LEMMA AcceptedCodeType ==
  ASSUME NEW c, NEW token \in Tokens, NEW opts \in VerifyOptions, NEW t \in Nat,
         Typed(c, t), VerifyCode(c, token, opts, t).result \in Successes
  PROVE  CodeOf(VerifyCode(c, token, opts, t), token) \in Codes
<1> DEFINE o == VerifyCode(c, token, opts, t)
<1> SUFFICES CodeOf(o, token) \in Codes
  OBVIOUS
<1>1. o.counter \in Int
  BY VerifyCodeKeepsType DEF Typed
<1>2. SpendsItsCode(c, o, token)
  BY VerifyCodeSpends, ConfigIsShaped DEF Typed
<1>3. o.result \in Successes
  OBVIOUS
<1> HIDE DEF o
<1>4. CASE o.result \in {"scratch", "hotp"}
  BY <1>2, <1>4 DEF SpendsItsCode, SpendCodes, Codes
<1>5. CASE o.result = "totp"
  BY <1>1, <1>5 DEF CodeOf, Codes
<1> QED
  BY <1>3, <1>4, <1>5 DEF Successes

\* What a login that decides leaves in its memory.
LEMMA DecidingType ==
  ASSUME NEW s \in Sessions, TypedInv,
         Grace(s) \/ \E token \in TypedTokens : Accept(s, token)
  PROVE  Typed(mem'[s], now) /\ verdict'[s] \in Verdicts
<1>1. /\ PerLogin(mem) /\ PerLogin(verdict) /\ now \in Nat
      /\ host[s] \in Hosts \union {NoHost} /\ Typed(mem[s], now)
      /\ VerifyOpts \in VerifyOptions
  BY LoginAssumption DEF TypedInv, AtomicInv, TypeInv, LocalsType,
                         VerifyOpts, VerifyOptions
<1>2. CASE Grace(s)
  <2>1. PICK d \in UpdateLoginRecord(mem[s], host[s], now) : mem'[s] = d
    BY <1>1, <1>2 DEF Grace, Remember, PerLogin
  <2>2. Typed(d, now)
    BY <1>1, <2>1, RecordLoginType, OnlyRecordsTyped DEF Typed
  <2>3. verdict'[s] = [code |-> [type |-> "grace", number |-> 0], when |-> now]
    BY <1>1, <1>2 DEF Grace, Decide, PerLogin
  <2> QED
    BY <1>1, <2>1, <2>2, <2>3 DEF Verdicts, Codes
<1>3. ASSUME NEW token \in TypedTokens, Accept(s, token)
      PROVE  Typed(mem'[s], now) /\ verdict'[s] \in Verdicts
  <2> DEFINE o == Outcome(s, token)
  <2>1. token \in Tokens
    BY LoginAssumption
  <2>2. Typed(o.cfg, now) /\ o.counter \in Int
    BY <1>1, <2>1, VerifyCodeTyped, VerifyCodeKeepsType DEF Outcome, Typed
  <2>3. PICK d \in RecordLogin(o.cfg, host[s], now) : mem'[s] = d
    BY <1>1, <1>3 DEF Accept, Remember, PerLogin
  <2>4. /\ o.result \in Successes
        /\ verdict'[s] = [code |-> CodeOf(o, token), when |-> now]
    BY <1>1, <1>3 DEF Accept, Decide, PerLogin, CodeOf
  <2>5. CodeOf(o, token) \in Codes
    BY <1>1, <2>1, <2>4, AcceptedCodeType DEF Outcome
  <2> HIDE DEF o
  <2>6. Typed(d, now)
    BY <1>1, <2>2, <2>3, RecordLoginType, OnlyRecordsTyped DEF Typed
  <2> QED
    BY <1>1, <2>3, <2>4, <2>5, <2>6 DEF Verdicts
<1> QED
  BY <1>2, <1>3

LEMMA QuietType ==
  ASSUME NEW s \in Sessions, TypedInv, Quiet(s)
  PROVE  Typed(mem'[s], now) /\ verdict'[s] \in Verdicts
<1>1. /\ LocalsType /\ now \in Nat
      /\ Typed(mem[s], now) /\ verdict[s] \in Verdicts
  BY DEF TypedInv, AtomicInv, TypeInv
<1>2. CASE Open(s) \/ Lock(s) \/ AskForCode(s) \/ CheckPasses(s)
  BY <1>1, <1>2 DEF Open, Lock, AskForCode, CheckPasses
<1>3. CASE Load(s)
  <2>1. pc[s] = "load" /\ contents[fd[s]] # Malformed
        /\ mem'[s] = contents[fd[s]] /\ verdict' = verdict
    BY <1>1, <1>3 DEF Load, Remember, LocalsType, PerLogin
  <2>2. fd[s] \in Inodes
    BY <2>1 DEF TypedInv, AtomicInv, Holds
  <2> QED
    BY <1>1, <2>1, <2>2 DEF TypedInv
<1>4. CASE \/ OpenNothing(s) \/ LoadFails(s) \/ PromptFails(s)
           \/ NothingToWrite(s) \/ CheckFails(s)
           \/ \E error \in WriteErrors : WriteFails(s, error)
           \/ Kill(s)
  <2>1. mem'[s] = EmptyConfig /\ verdict' = verdict
    BY <1>1, <1>4 DEF OpenNothing, LoadFails, PromptFails, NothingToWrite,
              CheckFails, WriteFails, Kill, Answer, LocalsType, PerLogin
  <2> QED
    BY <1>1, <2>1, EmptyConfigType
<1>5. ASSUME NEW token \in TypedTokens, Reject(s, token)
      PROVE  Typed(mem'[s], now) /\ verdict'[s] \in Verdicts
  <2>1. mem'[s] = EmptyConfig
    BY <1>1, <1>5 DEF Reject, Answer, LocalsType, PerLogin
  <2>2. /\ Outcome(s, token).result \in Failures
        /\ verdict'[s] = [code |-> [type |-> Outcome(s, token).result,
                                    number |-> 0], when |-> now]
    BY <1>1, <1>5 DEF Reject, Decide, LocalsType, PerLogin
  <2> QED
    BY <1>1, <2>1, <2>2, EmptyConfigType DEF Verdicts, Codes
<1> QED
  BY <1>2, <1>3, <1>4, <1>5, DecidingType DEF Quiet

LEMMA QuietKeepsTypedInv ==
  ASSUME NEW s \in Sessions, TypedInv, Quiet(s)
  PROVE  TypedInv'
<1>1. AtomicInv' /\ OthersStay(s)
  BY QuietKeepsAtomicInv, QuietKeepsLocals DEF TypedInv
<1>2. contents' = contents /\ Inodes' = Inodes /\ now' = now
  BY QuietStaysAway DEF file, Inodes
<1>3. Typed(mem'[s], now) /\ verdict'[s] \in Verdicts
  BY QuietType
<1>4. \A t \in Sessions : Typed(mem'[t], now') /\ verdict'[t] \in Verdicts
  BY <1>1, <1>2, <1>3 DEF OthersStay, TypedInv
<1> QED
  BY <1>1, <1>2, <1>4 DEF TypedInv

LEMMA WritingKeepsTypedInv ==
  ASSUME TypedInv, AtomicInv',
         \/ \E s \in Sessions : Publish(s) \/ SyncDir(s)
         \/ OwnerReplaces \/ OwnerRemoves \/ PowerLoss
  PROVE  TypedInv'
<1>1. now' = now /\ verdict' = verdict /\ now \in Nat
  BY DEF Publish, SyncDir, OwnerReplaces, OwnerRemoves, PowerLoss, locals,
         TypedInv, AtomicInv, TypeInv
<1>2. FileType /\ PerLogin(mem)
  BY DEF TypedInv, AtomicInv, TypeInv, LocalsType
<1>3. \A s \in Sessions : mem'[s] \in {mem[s], EmptyConfig}
  BY <1>2 DEF Publish, SyncDir, OwnerReplaces, OwnerRemoves, PowerLoss, locals,
              Answer, PerLogin
<1>4. \A s \in Sessions : Typed(mem'[s], now') /\ verdict'[s] \in Verdicts
  BY <1>1, <1>3, EmptyConfigType DEF TypedInv
<1>5. ASSUME NEW e, PutInPlace(e), e = Malformed \/ Typed(e, now)
      PROVE  \A i \in Inodes' : contents'[i] = Malformed \/ Typed(contents'[i], now')
  <2>1. /\ \A i \in Inodes : i \in Inodes' /\ contents'[i] = contents[i]
        /\ Len(contents) \in Nat /\ Len(contents') = Len(contents) + 1
        /\ dir' = Len(contents) + 1 /\ contents'[dir'] = e
    BY <1>2, <1>5, NewInode
  <2>2. \A i \in Inodes' : i \in Inodes \/ i = dir'
    BY <2>1 DEF Inodes
  <2> QED
    BY <1>1, <1>5, <2>1, <2>2 DEF TypedInv
<1>6. \A i \in Inodes' : contents'[i] = Malformed \/ Typed(contents'[i], now')
  <2>1. CASE \/ \E s \in Sessions : SyncDir(s)
             \/ OwnerRemoves \/ PowerLoss
    <3>1. contents' = contents
      BY <2>1 DEF SyncDir, OwnerRemoves, PowerLoss
    <3> QED
      BY <1>1, <3>1 DEF TypedInv, Inodes
  <2>2. ASSUME NEW s \in Sessions, Publish(s)
        PROVE  PutInPlace(Stored(mem[s])) /\ Typed(Stored(mem[s]), now)
    <3>1. PutInPlace(Stored(mem[s])) /\ Typed(mem[s], now)
      BY <2>2 DEF Publish, TypedInv
    <3> QED
      BY <3>1, StoredType, OnlyRecordsTyped DEF Typed
  <2>3. ASSUME NEW c \in OwnerConfigs, PutInPlace(c)
        PROVE  c = Malformed \/ Typed(c, now)
    <3>1. c = Malformed \/ c \in Config
      BY LoginAssumption
    <3>2. ASSUME ClockForward, StampsOfThePast, c # Malformed
          PROVE  Typed(c, now)
      <4>1. PICK t \in StartTimes : t <= now
        BY <3>2 DEF TypedInv
      <4>2. t \in Int /\ Typed(c, t)
        BY <3>1, <3>2, LoginAssumption DEF StampsOfThePast, Typed
      <4> QED
        BY <1>1, <4>1, <4>2, TypedLater
    <3> QED
      BY <3>1, <3>2 DEF Typed
  <2> QED
    BY <1>5, <2>1, <2>2, <2>3 DEF OwnerReplaces
<1> QED
  BY <1>1, <1>4, <1>6 DEF TypedInv

LEMMA SetClockKeepsTypedInv ==
  ASSUME TypedInv, AtomicInv', SetClock \/ UNCHANGED vars
  PROVE  TypedInv' /\ (ClockForward => now' >= now)
<1>1. UNCHANGED <<contents, mem, verdict>> /\ now \in Nat /\ now' \in Nat
  BY DEF SetClock, vars, file, locals, TypedInv, AtomicInv, TypeInv
<1>2. ClockForward => now' >= now
  BY <1>1 DEF SetClock, vars, ClockForward
<1>3. ClockForward => \E t \in StartTimes : t <= now'
  <2>1. ASSUME ClockForward
        PROVE  \E t \in StartTimes : t <= now'
    <3>1. PICK t \in StartTimes : t <= now
      BY <2>1 DEF TypedInv
    <3>2. t \in Int
      BY LoginAssumption
    <3> QED
      BY <1>1, <1>2, <2>1, <3>1, <3>2
  <2> QED
    BY <2>1
<1>4. \A c : Typed(c, now) => Typed(c, now')
  <2>1. CASE ClockForward
    BY <1>1, <1>2, <2>1, TypedLater
  <2>2. CASE ~ClockForward
    BY <2>2 DEF Typed
  <2> QED
    BY <2>1, <2>2
<1> QED
  BY <1>1, <1>2, <1>3, <1>4 DEF TypedInv, Inodes

LEMMA StepKeepsTypedInv ==
  ASSUME TypedInv, [Next]_vars
  PROVE  TypedInv' /\ (ClockForward => now' >= now)
<1>1. AtomicInv' /\ now \in Nat
  BY StepKeepsAtomicInv DEF TypedInv, AtomicInv, TypeInv
<1>2. CASE SetClock \/ UNCHANGED vars
  BY <1>1, <1>2, SetClockKeepsTypedInv
<1>3. CASE \E s \in Sessions : Quiet(s)
  BY <1>1, <1>3, QuietKeepsTypedInv, QuietStaysAway
<1>4. CASE \/ \E s \in Sessions : Publish(s) \/ SyncDir(s)
           \/ OwnerReplaces \/ OwnerRemoves \/ PowerLoss
  <2>1. now' = now
    BY <1>4 DEF Publish, SyncDir, OwnerReplaces, OwnerRemoves, PowerLoss
  <2> QED
    BY <1>1, <1>4, <2>1, WritingKeepsTypedInv
<1> QED
  BY <1>2, <1>3, <1>4, StepCases

LEMMA TypedInit ==
  ASSUME Init
  PROVE  TypedInv
<1>1. PICK c \in InitialConfigs : contents = <<c>>
  BY DEF Init
<1>2. Inodes = {1} /\ contents[1] = c
  BY <1>1 DEF Inodes
<1>3. now \in StartTimes /\ now \in Int
  BY LoginAssumption DEF Init
<1>4. c = Malformed \/ Typed(c, now)
  BY <1>3, LoginAssumption DEF StampsOfThePast, Typed
<1>5. \A s \in Sessions : Typed(mem[s], now) /\ verdict[s] \in Verdicts
  BY EmptyConfigType DEF Init, NoVerdict, Verdicts, Codes
<1> QED
  BY <1>2, <1>3, <1>4, <1>5, AtomicInit DEF TypedInv

LEMMA TypedInvTypes ==
  ASSUME TypedInv
  PROVE  TypeOK
<1>1. TypeInv
  BY DEF TypedInv, AtomicInv
<1>2. contents \in Seq(Config \union {Malformed}) /\ Inodes = DOMAIN contents
  <2>1. PICK S : contents \in Seq(S)
    BY <1>1 DEF TypeInv, FileType
  <2>2. Len(contents) \in Nat /\ contents \in [1 .. Len(contents) -> S]
    BY <2>1
  <2>3. \A i \in 1 .. Len(contents) : contents[i] \in Config \union {Malformed}
    BY DEF TypedInv, Inodes, Typed
  <2>4. contents \in [1 .. Len(contents) -> Config \union {Malformed}]
    BY <2>2, <2>3
  <2> QED
    BY <2>1, <2>2, <2>4, SeqDef DEF Inodes
<1>3. mem \in [Sessions -> Config] /\ verdict \in [Sessions -> Verdicts]
  BY <1>1 DEF TypedInv, Typed, TypeInv, LocalsType, PerLogin
<1> QED
  BY <1>1, <1>2, <1>3 DEF TypeOK, TypeInv, FileType, LocalsType

\* Whatever the logins, the owner and the power do, the variables have their
\* types: every file can be read as what a login wrote.
THEOREM LoginsTypeCorrect ==
  Spec => []TypeOK
<1>1. Init => TypedInv
  BY TypedInit
<1>2. TypedInv /\ [Next]_vars => TypedInv'
  BY StepKeepsTypedInv
<1>3. TypedInv => TypeOK
  BY TypedInvTypes
<1> QED
  BY <1>1, <1>2, <1>3, PTL DEF Spec
-----------------------------------------------------------------------------
(***************************************************************************)
(* What a configuration remembers of a set of logins: the used steps of    *)
(* the clock, and when codes were accepted.                                *)
(***************************************************************************)

BlocksReuse(c) == Params.noSkewAdjust /\ c.disallowReuse

\* The stamps of a file count the logins, if they are stamps of the past.
CountsLogins(c) == StampsOfThePast /\ HasRateLimit(c)

\* The options that say what is to be remembered.  Logins never change them.
SameOptions(c, d) ==
  /\ d.rateLimit.attempts = c.rateLimit.attempts
  /\ d.rateLimit.interval = c.rateLimit.interval
  /\ Params.noSkewAdjust => SameWindow(c, d)

\* A code of this type counts towards a limit, or is used up.
Counts(c, type) ==
  \/ BlocksReuse(c) /\ type = "totp"
  \/ CountsLogins(c) /\ type \in Successes

\* The steps that S used, according to v, can not be used again at t or later.
RemembersSteps(S, v, c, t) ==
  BlocksReuse(c) =>
    \A s \in S : v[s].code.type = "totp" =>
      /\ \/ v[s].code.number \in c.disallowed
         \/ v[s].code.number + Window(c) <= Centre(c, t)
      /\ v[s].code.number < Centre(c, t) + Window(c)

Since(S, v, lo) == {s \in S : v[s].code.type \in Successes /\ lo <= v[s].when}

\* The last n stamps are not from before lo.
LastSince(stamps, n, lo) ==
  /\ n <= Len(stamps)
  /\ \A i \in DOMAIN stamps : i > Len(stamps) - n => lo <= stamps[i]

\* Each login of S that is in the interval has its stamp.
RemembersTimes(S, v, c, t) ==
  CountsLogins(c) =>
    /\ \A s \in S : v[s].code.type \in Successes => v[s].when <= t
    /\ \A lo \in Int : lo >= t - c.rateLimit.interval =>
         LastSince(c.rateLimit.timestamps, Cardinality(Since(S, v, lo)), lo)

Remembers(S, v, c, t) == RemembersSteps(S, v, c, t) /\ RemembersTimes(S, v, c, t)

\* The logins of S in the interval that ends with t.
UpTo(S, v, c, t) == {s \in Since(S, v, t - c.rateLimit.interval) : v[s].when <= t}

UsesStepsOnce(S, v) ==
  \A s, u \in S : v[s].code.type = "totp" /\ v[s].code = v[u].code => s = u

KeepsToLimit(S, v, c) ==
  \A s \in S : v[s].code.type \in Successes =>
    Cardinality(UpTo(S, v, c, v[s].when)) <= c.rateLimit.attempts

\* The logins of S are no more than the options allow.
Allowed(S, v, c) ==
  /\ BlocksReuse(c) => UsesStepsOnce(S, v)
  /\ CountsLogins(c) => KeepsToLimit(S, v, c)

-----------------------------------------------------------------------------
LEMMA LastSinceFewer ==
  ASSUME NEW s \in Seq(Int), NEW n \in Nat, NEW m \in Nat, m <= n, NEW lo \in Int,
         LastSince(s, n, lo)
  PROVE  LastSince(s, m, lo)
<1>1. Len(s) \in Nat /\ DOMAIN s = 1 .. Len(s)
  OBVIOUS
<1> QED
  BY <1>1 DEF LastSince

\* What the rate limiter keeps of a list, and the new stamp, are the last.
LEMMA LastSinceOneMore ==
  ASSUME NEW old \in Seq(Int), NEW t \in Int, NEW n \in Nat,
         NEW lo \in Int, NEW start \in Int, start <= lo, lo <= t,
         LastSince(old, n, lo),
         NEW k \in 1 .. Len(old) + 1,
         k = 1 \/ Append(old, t)[k - 1] < start
  PROVE  LastSince(SubSeq(Append(old, t), k, Len(Append(old, t))), n + 1, lo)
<1> DEFINE s == Append(old, t)
           new == SubSeq(s, k, Len(s))
<1>1. /\ s \in Seq(Int) /\ Len(s) = Len(old) + 1 /\ s[Len(old) + 1] = t
      /\ \A i \in 1 .. Len(old) : s[i] = old[i]
      /\ Len(old) \in Nat /\ DOMAIN old = 1 .. Len(old)
  BY AppendProperties
<1> HIDE DEF s
<1>2. k \in 1 .. Len(s)
  BY <1>1
<1>3. /\ new \in Seq(Int) /\ Len(new) = Len(s) - k + 1
      /\ \A i \in 1 .. Len(s) - k + 1 : new[i] = s[k + i - 1]
  BY <1>1, <1>2, TailProperties
<1> HIDE DEF new
<1>4. /\ n <= Len(old)
      /\ \A i \in 1 .. Len(old) : i > Len(old) - n => lo <= old[i]
  BY <1>1 DEF LastSince
<1>5. k <= Len(s) - n
  <2>1. CASE k = 1
    BY <1>1, <1>4, <2>1
  <2>2. CASE s[k - 1] < start /\ k > 1
    <3> SUFFICES ASSUME k > Len(s) - n
                 PROVE  FALSE
      BY <1>1, <1>4
    <3> DEFINE j == k - 1
    <3>1. j \in 1 .. Len(old) /\ j > Len(old) - n
      BY <1>1, <2>2
    <3> HIDE DEF j
    <3>2. s[j] = old[j] /\ old[j] \in Int
      BY <1>1, <3>1
    <3>3. lo <= old[j]
      BY <1>4, <3>1
    <3>4. s[j] < start
      BY <2>2 DEF j
    <3> QED
      BY <3>2, <3>3, <3>4
  <2> QED
    BY <2>1, <2>2 DEF s
<1>6. n + 1 <= Len(new)
  BY <1>1, <1>3, <1>5
<1>7. ASSUME NEW i \in DOMAIN new, i > Len(new) - (n + 1)
      PROVE  lo <= new[i]
  <2> DEFINE j == k + i - 1
  <2>1. DOMAIN new = 1 .. Len(new)
    BY <1>3
  <2>2. i \in 1 .. Len(s) - k + 1
    BY <1>3, <2>1
  <2>3. new[i] = s[j]
    BY <1>3, <2>2
  <2>4. j \in 1 .. Len(old) + 1 /\ j > Len(old) - n
    <3> DEFINE m == Len(old)
    <3>1. Len(s) = m + 1 /\ Len(new) = m + 2 - k /\ m \in Nat
      BY <1>1, <1>3
    <3> HIDE DEF m
    <3>2. i \in 1 .. m + 2 - k /\ i > m + 2 - k - (n + 1) /\ k \in 1 .. m + 1
      BY <1>7, <2>2, <3>1 DEF m
    <3>3. k + i - 1 \in 1 .. m + 1 /\ k + i - 1 > m - n
      BY <3>1, <3>2
    <3> QED
      BY <3>3 DEF m
  <2> HIDE DEF j
  <2>5. CASE j = Len(old) + 1
    BY <1>1, <2>3, <2>5
  <2>6. CASE j \in 1 .. Len(old)
    BY <1>1, <1>4, <2>3, <2>4, <2>6
  <2> QED
    BY <1>1, <2>4, <2>5, <2>6
<1> QED
  BY <1>6, <1>7 DEF LastSince, new, s

\* From c to d the stamp is added and a tail is kept, of everything recent.
AddsStamp(c, d, t) ==
  \E k \in 1 .. Len(c.rateLimit.timestamps) + 1 :
    LET s == Append(c.rateLimit.timestamps, t)
    IN  /\ d.rateLimit.timestamps = SubSeq(s, k, Len(s))
        /\ Len(s) - k + 1 <= c.rateLimit.attempts
        /\ k = 1 \/ s[k - 1] < t - c.rateLimit.interval

LEMMA AcceptedStamps ==
  ASSUME ClockForward, NEW c, NEW t \in Nat, Typed(c, t), NEW token \in Tokens,
         NEW opts \in VerifyOptions, VerifyCode(c, token, opts, t).result \in Successes,
         CountsLogins(c)
  PROVE  AddsStamp(c, VerifyCode(c, token, opts, t).cfg, t)
<1> DEFINE s == Append(c.rateLimit.timestamps, t)
           o == VerifyCode(c, token, opts, t)
           lo == t - c.rateLimit.interval
           kept == EnforceRateLimit(c, t).rateLimit.timestamps
<1>1. c \in Config /\ StampsInOrder(c, t) /\ HasRateLimit(c) /\ t \in Int
  BY DEF Typed, CountsLogins
<1>2. /\ o.cfg.rateLimit = IF ReachesRateLimiter(c) THEN EnforceRateLimit(c, t).rateLimit
                           ELSE c.rateLimit
      /\ o.result \in {"noSecret", "rateLimited"}
           <=> ~ReachesRateLimiter(c) \/ IsRateLimited(c, t)
  BY <1>1, VerifyCodeType
<1>3. o.result \notin {"noSecret", "rateLimited"}
  BY DEF Successes
<1>4. o.cfg.rateLimit = EnforceRateLimit(c, t).rateLimit /\ ~IsRateLimited(c, t)
  BY <1>2, <1>3
<1>5. PICK k \in 1 .. Len(s) :
         /\ kept = SubSeq(s, k, Len(s))
         /\ Len(s) - k + 1 <= c.rateLimit.attempts
         /\ \/ k > 1 /\ s[k - 1] < lo /\ ~IsRateLimited(c, t)
            \/ k = 1 /\ ~IsRateLimited(c, t)
            \/ /\ Len(s) - k + 1 = c.rateLimit.attempts
               /\ k > 1 /\ lo <= s[k - 1] /\ IsRateLimited(c, t)
  BY <1>1, EnforceRateLimitKeeps, Zenon
<1>6. c.rateLimit.timestamps \in Seq(Int)
  BY <1>1 DEF Config, RateLimit
<1>7. Len(s) = Len(c.rateLimit.timestamps) + 1
  BY <1>6, AppendProperties
<1>8. o.cfg.rateLimit.timestamps = SubSeq(s, k, Len(s))
  BY <1>4, <1>5
<1> HIDE DEF o, kept
<1> QED
  BY <1>4, <1>5, <1>7, <1>8 DEF AddsStamp, o

-----------------------------------------------------------------------------
(***************************************************************************)
(* What is remembered stays so.                                            *)
(***************************************************************************)

LEMMA VerdictType ==
  ASSUME NEW d \in Verdicts
  PROVE  d.when \in Int /\ (d.code.type = "totp" => d.code.number \in Int)
BY DEF Verdicts, Codes, Failures

LEMMA SinceIsFinite ==
  ASSUME NEW S \in SUBSET Sessions, NEW v, NEW lo
  PROVE  Since(S, v, lo) \in SUBSET Sessions /\ Cardinality(Since(S, v, lo)) \in Nat
<1>1. Since(S, v, lo) \in SUBSET Sessions
  BY DEF Since
<1> QED
  BY <1>1, FewerLogins

LEMMA SameOptionsCount ==
  ASSUME NEW c, NEW d, SameOptions(c, d)
  PROVE  /\ BlocksReuse(d) <=> BlocksReuse(c)
         /\ CountsLogins(d) <=> CountsLogins(c)
         /\ d.rateLimit.attempts = c.rateLimit.attempts
         /\ d.rateLimit.interval = c.rateLimit.interval
         /\ \A type : Counts(d, type) <=> Counts(c, type)
BY DEF SameOptions, SameWindow, BlocksReuse, HasRateLimit, CountsLogins, Counts

\* Fewer logins, a later time, other login records.
LEMMA RemembersStill ==
  ASSUME NEW c \in Config, NEW d, OnlyRecords(c, d),
         NEW t \in Nat, NEW u \in Nat, t <= u,
         NEW S \in SUBSET Sessions, NEW T \in SUBSET S,
         NEW v, \A s \in S : v[s] \in Verdicts,
         NEW w, \A s \in T : w[s] = v[s],
         Remembers(S, v, c, t)
  PROVE  Remembers(T, w, d, u)
<1>1. RemembersSteps(T, w, d, u)
  <2>1. /\ Centre(d, u) = Centre(c, u) /\ Window(d) = Window(c)
        /\ d.disallowed = c.disallowed /\ (BlocksReuse(d) <=> BlocksReuse(c))
    BY SameWindowSameCentre DEF OnlyRecords, BlocksReuse, SameWindow
  <2>2. /\ Centre(c, t) \in Int /\ Centre(c, u) \in Int /\ Window(c) \in Nat
        /\ Centre(c, t) <= Centre(c, u)
    BY TimeStepType, StepType, CentreAdvances
  <2> SUFFICES ASSUME BlocksReuse(c), NEW s \in T, w[s].code.type = "totp"
               PROVE  /\ \/ w[s].code.number \in c.disallowed
                         \/ w[s].code.number + Window(c) <= Centre(c, u)
                      /\ w[s].code.number < Centre(c, u) + Window(c)
    BY <2>1 DEF RemembersSteps
  <2>3. w[s] = v[s] /\ v[s].code.type = "totp" /\ v[s].code.number \in Int
    BY VerdictType
  <2>4. /\ \/ v[s].code.number \in c.disallowed
           \/ v[s].code.number + Window(c) <= Centre(c, t)
        /\ v[s].code.number < Centre(c, t) + Window(c)
    BY <2>3 DEF Remembers, RemembersSteps
  <2> QED
    BY <2>2, <2>3, <2>4
<1>2. RemembersTimes(T, w, d, u)
  <2>1. d.rateLimit = c.rateLimit /\ (CountsLogins(d) <=> CountsLogins(c))
        /\ c.rateLimit.interval \in Int /\ c.rateLimit.timestamps \in Seq(Int)
    BY DEF OnlyRecords, HasRateLimit, CountsLogins, Config, RateLimit
  <2> SUFFICES ASSUME CountsLogins(c)
               PROVE  /\ \A s \in T : w[s].code.type \in Successes => w[s].when <= u
                      /\ \A lo \in Int : lo >= u - c.rateLimit.interval =>
                           LastSince(c.rateLimit.timestamps,
                                     Cardinality(Since(T, w, lo)), lo)
    BY <2>1 DEF RemembersTimes
  <2>2. ASSUME NEW s \in T, w[s].code.type \in Successes
        PROVE  w[s].when <= u
    <3>1. w[s] = v[s] /\ v[s].when \in Int
      BY VerdictType
    <3>2. v[s].when <= t
      BY <2>2, <3>1 DEF Remembers, RemembersTimes
    <3> QED
      BY <3>1, <3>2
  <2>3. ASSUME NEW lo \in Int, lo >= u - c.rateLimit.interval
        PROVE  LastSince(c.rateLimit.timestamps, Cardinality(Since(T, w, lo)), lo)
    <3>1. lo >= t - c.rateLimit.interval
      BY <2>1, <2>3
    <3>2. LastSince(c.rateLimit.timestamps, Cardinality(Since(S, v, lo)), lo)
      BY <3>1 DEF Remembers, RemembersTimes
    <3>3. /\ Since(S, v, lo) \in SUBSET Sessions
          /\ Since(T, w, lo) \in SUBSET Since(S, v, lo)
      BY DEF Since
    <3>4. /\ Cardinality(Since(S, v, lo)) \in Nat
          /\ Cardinality(Since(T, w, lo)) \in Nat
          /\ Cardinality(Since(T, w, lo)) <= Cardinality(Since(S, v, lo))
      BY <3>3, FewerLogins
    <3> QED
      BY <2>1, <3>2, <3>4, LastSinceFewer
  <2> QED
    BY <2>2, <2>3
<1> QED
  BY <1>1, <1>2 DEF Remembers

LEMMA AllowedStill ==
  ASSUME NEW c, NEW d, SameOptions(c, d), d.rateLimit.attempts \in Int,
         NEW S \in SUBSET Sessions, NEW T \in SUBSET S,
         NEW v, NEW w, \A s \in T : w[s] = v[s],
         Allowed(S, v, c)
  PROVE  Allowed(T, w, d)
<1>1. /\ BlocksReuse(d) <=> BlocksReuse(c)
      /\ CountsLogins(d) <=> CountsLogins(c)
      /\ d.rateLimit.attempts = c.rateLimit.attempts
      /\ d.rateLimit.interval = c.rateLimit.interval
  BY SameOptionsCount
<1>2. BlocksReuse(d) => UsesStepsOnce(T, w)
  BY <1>1 DEF Allowed, UsesStepsOnce
<1>3. ASSUME CountsLogins(d), NEW s \in T, w[s].code.type \in Successes
      PROVE  Cardinality(UpTo(T, w, d, w[s].when)) <= d.rateLimit.attempts
  <2>1. Cardinality(UpTo(S, v, c, v[s].when)) <= c.rateLimit.attempts
    BY <1>1, <1>3 DEF Allowed, KeepsToLimit
  <2>2. /\ UpTo(S, v, c, v[s].when) \in SUBSET Sessions
        /\ UpTo(T, w, d, w[s].when) \in SUBSET UpTo(S, v, c, v[s].when)
    BY <1>1 DEF UpTo, Since
  <2>3. /\ Cardinality(UpTo(S, v, c, v[s].when)) \in Nat
        /\ Cardinality(UpTo(T, w, d, w[s].when)) \in Nat
        /\ Cardinality(UpTo(T, w, d, w[s].when))
             <= Cardinality(UpTo(S, v, c, v[s].when))
    BY <2>2, FewerLogins
  <2> QED
    BY <1>1, <2>1, <2>3
<1> QED
  BY <1>2, <1>3 DEF Allowed, KeepsToLimit

\* A login on a code of another kind needs no place.
LEMMA NotCounted ==
  ASSUME NEW c, NEW S, NEW s, NEW v, NEW t, ~Counts(c, v[s].code.type)
  PROVE  /\ Remembers(S, v, c, t) => Remembers(S \union {s}, v, c, t)
         /\ Allowed(S, v, c) => Allowed(S \union {s}, v, c)
<1>1. BlocksReuse(c) => v[s].code.type # "totp"
  BY DEF Counts
<1>2. CountsLogins(c) =>
        /\ v[s].code.type \notin Successes
        /\ \A lo : Since(S \union {s}, v, lo) = Since(S, v, lo)
  BY DEF Counts, Since
<1>3. RemembersSteps(S, v, c, t) => RemembersSteps(S \union {s}, v, c, t)
  BY <1>1 DEF RemembersSteps
<1>4. RemembersTimes(S, v, c, t) => RemembersTimes(S \union {s}, v, c, t)
  BY <1>2 DEF RemembersTimes
<1>5. BlocksReuse(c) /\ UsesStepsOnce(S, v) => UsesStepsOnce(S \union {s}, v)
  BY <1>1 DEF UsesStepsOnce
<1>6. CountsLogins(c) /\ KeepsToLimit(S, v, c) => KeepsToLimit(S \union {s}, v, c)
  <2>1. CountsLogins(c) => \A u : UpTo(S \union {s}, v, c, u) = UpTo(S, v, c, u)
    BY <1>2 DEF UpTo
  <2> QED
    BY <1>2, <2>1 DEF KeepsToLimit
<1> QED
  BY <1>3, <1>4, <1>5, <1>6 DEF Remembers, Allowed

-----------------------------------------------------------------------------
(***************************************************************************)
(* What a login that is accepted adds.                                     *)
(***************************************************************************)

\* w is v but for s, whose code was accepted at t.
AcceptsNow(c, token, t, S, v, s, w) ==
  /\ Typed(c, t) /\ VerifyCode(c, token, VerifyOpts, t).result \in Successes
  /\ \A u \in S : w[u] = v[u] /\ v[u] \in Verdicts
  /\ w[s] = [code |-> CodeOf(VerifyCode(c, token, VerifyOpts, t), token), when |-> t]

LEMMA AcceptSteps ==
  ASSUME NEW c, NEW token \in Tokens, NEW t \in Nat, NEW S \in SUBSET Sessions,
         NEW v, NEW s \in Sessions, NEW w, AcceptsNow(c, token, t, S, v, s, w),
         RemembersSteps(S, v, c, t), BlocksReuse(c), UsesStepsOnce(S, v)
  PROVE  /\ RemembersSteps(S \union {s}, w, VerifyCode(c, token, VerifyOpts, t).cfg, t)
         /\ UsesStepsOnce(S \union {s}, w)
<1> DEFINE o == VerifyCode(c, token, VerifyOpts, t)
<1>1. /\ c \in Config
      /\ VerifyOpts \in VerifyOptions /\ VerifyOpts.disableSkewAdjustment
      /\ Params.noSkewAdjust /\ c.disallowReuse
  BY LoginAssumption DEF AcceptsNow, Typed, VerifyOpts, VerifyOptions, BlocksReuse
<1>2. SameWindow(c, o.cfg) /\ KeepsList(c, o.cfg, t) /\ GoesOnList(c, o, t)
  BY <1>1, VerifyCodeTOTP
<1>3. o.counter \in Int
  BY <1>1, VerifyCodeKeepsType
<1>4. /\ \A u \in S : w[u] = v[u] /\ v[u] \in Verdicts
      /\ w[s].code = CodeOf(o, token)
  BY DEF AcceptsNow
<1> HIDE DEF o
<1>5. w[s].code.type = o.result /\ (o.result = "totp" => w[s].code.number = o.counter)
  BY <1>4 DEF CodeOf
<1>6. Centre(o.cfg, t) = Centre(c, t) /\ Window(o.cfg) = Window(c)
  BY <1>2, SameWindowSameCentre
<1>7. Centre(c, t) \in Int /\ Window(c) \in Nat
  BY <1>1, TimeStepType, StepType
<1>8. ASSUME NEW u \in S, w[u].code.type = "totp"
      PROVE  /\ w[u].code.number \in Int
             /\ \/ w[u].code.number \in c.disallowed
                \/ w[u].code.number + Window(c) <= Centre(c, t)
             /\ w[u].code.number < Centre(c, t) + Window(c)
  BY <1>4, <1>8, VerdictType DEF RemembersSteps
<1>9. RemembersSteps(S \union {s}, w, o.cfg, t)
  <2> SUFFICES ASSUME NEW u \in S \union {s}, w[u].code.type = "totp"
               PROVE  /\ \/ w[u].code.number \in o.cfg.disallowed
                         \/ w[u].code.number + Window(c) <= Centre(c, t)
                      /\ w[u].code.number < Centre(c, t) + Window(c)
    BY <1>6 DEF RemembersSteps
  <2>1. CASE u \in S
    <3> DEFINE k == w[u].code.number
    <3>1. /\ k \in Int /\ k < Centre(c, t) + Window(c)
          /\ k \in c.disallowed \/ k + Window(c) <= Centre(c, t)
      BY <1>8, <2>1
    <3> HIDE DEF k
    <3>2. k + Window(c) <= Centre(c, t) \/ InWindow(c, t, k)
      BY <1>7, <3>1 DEF InWindow
    <3>3. k \in c.disallowed /\ InWindow(c, t, k) => k \in o.cfg.disallowed
      BY <1>2, <3>1 DEF KeepsList
    <3> QED
      BY <3>1, <3>2, <3>3 DEF k
  <2>2. CASE u = s
    BY <1>1, <1>2, <1>5, <2>2 DEF GoesOnList, InWindow
  <2> QED
    BY <2>1, <2>2
<1>10. ASSUME NEW u \in S, w[u].code.type = "totp", w[u].code = w[s].code
       PROVE  FALSE
  <2>1. o.result = "totp" /\ w[u].code.number = o.counter
    BY <1>5, <1>10
  <2>2. o.counter \notin c.disallowed /\ InWindow(c, t, o.counter)
    BY <1>1, <1>2, <2>1 DEF GoesOnList
  <2>3. o.counter + Window(c) <= Centre(c, t)
    BY <1>8, <1>10, <2>1, <2>2
  <2> QED
    BY <1>3, <1>7, <2>2, <2>3 DEF InWindow
<1>11. UsesStepsOnce(S \union {s}, w)
  BY <1>4, <1>10 DEF UsesStepsOnce
<1> QED
  BY <1>9, <1>11 DEF o

LEMMA AcceptTimes ==
  ASSUME NEW c, NEW token \in Tokens, NEW t \in Nat, NEW S \in SUBSET Sessions,
         NEW v, NEW s \in Sessions, NEW w, AcceptsNow(c, token, t, S, v, s, w),
         RemembersTimes(S, v, c, t), CountsLogins(c), KeepsToLimit(S, v, c),
         NEW d, SameOptions(c, d), AddsStamp(c, d, t)
  PROVE  /\ RemembersTimes(S \union {s}, w, d, t)
         /\ KeepsToLimit(S \union {s}, w, c)
<1> DEFINE old == c.rateLimit.timestamps
           new == d.rateLimit.timestamps
           start == t - c.rateLimit.interval
           T == S \union {s}
<1>1. /\ old \in Seq(Int) /\ start \in Int /\ start <= t /\ t \in Int
      /\ c.rateLimit.attempts \in Int
  BY DEF AcceptsNow, Typed, Config, RateLimit
<1>2. PICK k \in 1 .. Len(old) + 1 :
        /\ new = SubSeq(Append(old, t), k, Len(Append(old, t)))
        /\ Len(Append(old, t)) - k + 1 <= c.rateLimit.attempts
        /\ k = 1 \/ Append(old, t)[k - 1] < start
  BY DEF AddsStamp
<1>3. new \in Seq(Int) /\ Len(new) <= c.rateLimit.attempts
  <2>1. Append(old, t) \in Seq(Int) /\ k \in 1 .. Len(Append(old, t))
    BY <1>1, AppendProperties
  <2> QED
    BY <1>2, <2>1, TailProperties
<1>4. /\ d.rateLimit.attempts = c.rateLimit.attempts
      /\ d.rateLimit.interval = c.rateLimit.interval
  BY SameOptionsCount
<1>5. /\ \A u \in S : w[u] = v[u] /\ v[u] \in Verdicts
      /\ w[s].when = t
  BY DEF AcceptsNow
<1>6. /\ \A u \in S : v[u].code.type \in Successes => v[u].when <= t
      /\ \A lo \in Int : lo >= start => LastSince(old, Cardinality(Since(S, v, lo)), lo)
  BY DEF RemembersTimes
<1> HIDE DEF old, new, start
<1>7. ASSUME NEW lo \in Int, lo >= start
      PROVE  LastSince(new, Cardinality(Since(T, w, lo)), lo)
  <2>1. CASE lo <= t
    <3>1. /\ Since(S, v, lo) \in SUBSET Sessions
          /\ Cardinality(Since(S, v, lo)) \in Nat
      BY SinceIsFinite
    <3>2. LastSince(new, Cardinality(Since(S, v, lo)) + 1, lo)
      BY <1>1, <1>2, <1>6, <1>7, <2>1, <3>1, LastSinceOneMore
    <3>3. /\ Cardinality(Since(S, v, lo) \union {s}) \in Nat
          /\ Cardinality(Since(S, v, lo) \union {s}) <= Cardinality(Since(S, v, lo)) + 1
      BY <3>1, OneMoreLogin
    <3>4. Since(T, w, lo) \in SUBSET (Since(S, v, lo) \union {s})
      BY <1>5 DEF Since
    <3>5. Since(S, v, lo) \union {s} \in SUBSET Sessions
      BY <3>1
    <3>6. /\ Cardinality(Since(T, w, lo)) \in Nat
          /\ Cardinality(Since(T, w, lo)) <= Cardinality(Since(S, v, lo) \union {s})
      BY <3>4, <3>5, FewerLogins
    <3>7. Cardinality(Since(T, w, lo)) <= Cardinality(Since(S, v, lo)) + 1
          /\ Cardinality(Since(S, v, lo)) + 1 \in Nat
      BY <3>1, <3>3, <3>6
    <3> QED
      BY <1>3, <3>2, <3>6, <3>7, LastSinceFewer
  <2>2. CASE ~(lo <= t)
    <3>1. \A u \in T : w[u].code.type \in Successes => w[u].when \in Int /\ w[u].when <= t
      BY <1>1, <1>5, <1>6, VerdictType
    <3>2. Since(T, w, lo) = {}
      BY <1>1, <2>2, <3>1 DEF Since
    <3>3. Cardinality(Since(T, w, lo)) = 0
      BY <3>2, FS_EmptySet
    <3>4. DOMAIN new = 1 .. Len(new) /\ Len(new) \in Nat
      BY <1>3
    <3>5. LastSince(new, 0, lo)
      BY <3>4 DEF LastSince
    <3> QED
      BY <3>3, <3>5
  <2> QED
    BY <2>1, <2>2
<1>8. \A u \in T : w[u].code.type \in Successes => w[u].when <= t
  BY <1>1, <1>5, <1>6
<1>9. RemembersTimes(T, w, d, t)
  BY <1>4, <1>7, <1>8 DEF RemembersTimes, new, start
<1>10. Cardinality(Since(T, w, start)) <= c.rateLimit.attempts
       /\ Cardinality(Since(T, w, start)) \in Nat
  <2>1. Cardinality(Since(T, w, start)) <= Len(new)
    <3>1. start >= start
      BY <1>1
    <3>2. LastSince(new, Cardinality(Since(T, w, start)), start)
      BY <1>1, <1>7, <3>1, Zenon
    <3> QED
      BY <3>2 DEF LastSince
  <2>2. Len(new) \in Nat
    BY <1>3
  <2>3. Cardinality(Since(T, w, start)) \in Nat
    BY SinceIsFinite
  <2> QED
    BY <1>1, <1>3, <2>1, <2>2, <2>3
<1>11. ASSUME NEW u \in T, w[u].code.type \in Successes
       PROVE  Cardinality(UpTo(T, w, c, w[u].when)) <= c.rateLimit.attempts
  <2>1. CASE w[u].when = t
    <3>1. UpTo(T, w, c, w[u].when) \in SUBSET Since(T, w, start)
      BY <2>1 DEF UpTo, start
    <3>2. Since(T, w, start) \in SUBSET Sessions
      BY SinceIsFinite
    <3>3. /\ Cardinality(UpTo(T, w, c, w[u].when)) \in Nat
          /\ Cardinality(UpTo(T, w, c, w[u].when)) <= Cardinality(Since(T, w, start))
      BY <3>1, <3>2, FewerLogins
    <3> QED
      BY <1>1, <1>10, <3>3
  <2>2. CASE w[u].when # t
    <3>1. u \in S /\ w[u] = v[u]
      BY <1>5, <2>2
    <3>2. v[u].when \in Int /\ v[u].when <= t /\ v[u].when # t
      BY <1>5, <1>6, <1>11, <2>2, <3>1, VerdictType
    <3>3. ~(t <= v[u].when)
      BY <1>1, <3>2
    <3>4. UpTo(T, w, c, w[u].when) = UpTo(S, v, c, v[u].when)
      BY <1>5, <3>1, <3>3 DEF UpTo, Since
    <3> QED
      BY <1>11, <3>1, <3>4 DEF KeepsToLimit
  <2> QED
    BY <2>1, <2>2
<1>12. KeepsToLimit(T, w, c)
  BY <1>11 DEF KeepsToLimit
<1> QED
  BY <1>9, <1>12

LEMMA AcceptKeepsOptions ==
  ASSUME NEW c, NEW token \in Tokens, NEW t \in Nat, Typed(c, t)
  PROVE  SameOptions(c, VerifyCode(c, token, VerifyOpts, t).cfg)
<1> DEFINE o == VerifyCode(c, token, VerifyOpts, t)
<1>1. c \in Config /\ VerifyOpts \in VerifyOptions
  BY LoginAssumption DEF Typed, VerifyOpts, VerifyOptions
<1>2. o.cfg.rateLimit \in {EnforceRateLimit(c, t).rateLimit, c.rateLimit}
  BY <1>1, VerifyCodeKeepsType
<1>3. SameButRateLimit(c, EnforceRateLimit(c, t))
  BY <1>1, EnforceRateLimitKeepsType
<1>4. Params.noSkewAdjust => SameWindow(c, o.cfg)
  BY <1>1, VerifyCodeTOTP DEF VerifyOpts
<1> HIDE DEF o
<1>5. SameOptions(c, o.cfg)
  BY <1>2, <1>3, <1>4 DEF SameOptions, SameButRateLimit
<1> QED
  BY <1>5 DEF o

\* Whatever is to be remembered of S is remembered of S and the new login, and
\* together they are no more than is allowed.
LEMMA AcceptRemembers ==
  ASSUME ClockForward, NEW c, NEW token \in Tokens, NEW t \in Nat, NEW S \in SUBSET Sessions,
         NEW v, NEW s \in Sessions, NEW w, AcceptsNow(c, token, t, S, v, s, w),
         Remembers(S, v, c, t), Allowed(S, v, c)
  PROVE  /\ Remembers(S \union {s}, w, VerifyCode(c, token, VerifyOpts, t).cfg, t)
         /\ Allowed(S \union {s}, w, c)
<1> DEFINE o == VerifyCode(c, token, VerifyOpts, t)
<1>1. Typed(c, t) /\ o.result \in Successes /\ VerifyOpts \in VerifyOptions
  BY LoginAssumption DEF AcceptsNow, VerifyOpts, VerifyOptions
<1>2. SameOptions(c, o.cfg)
  BY <1>1, AcceptKeepsOptions
<1>3. CountsLogins(c) => AddsStamp(c, o.cfg, t)
  BY <1>1, AcceptedStamps
<1> HIDE DEF o
<1>4. BlocksReuse(c) => /\ RemembersSteps(S \union {s}, w, o.cfg, t)
                        /\ UsesStepsOnce(S \union {s}, w)
  BY AcceptSteps DEF Remembers, Allowed, o
<1>5. CountsLogins(c) => /\ RemembersTimes(S \union {s}, w, o.cfg, t)
                         /\ KeepsToLimit(S \union {s}, w, c)
  BY <1>2, <1>3, AcceptTimes DEF Remembers, Allowed
<1>6. ~BlocksReuse(c) => RemembersSteps(S \union {s}, w, o.cfg, t)
  BY <1>2, SameOptionsCount DEF RemembersSteps
<1>7. ~CountsLogins(c) => RemembersTimes(S \union {s}, w, o.cfg, t)
  BY <1>2, SameOptionsCount DEF RemembersTimes
<1> QED
  BY <1>4, <1>5, <1>6, <1>7 DEF Remembers, Allowed, o

LEMMA AcceptDirties ==
  ASSUME NEW c, NEW token \in Tokens, NEW t \in Nat, Typed(c, t),
         VerifyCode(c, token, VerifyOpts, t).result \in Successes
  PROVE  LET o == VerifyCode(c, token, VerifyOpts, t)
         IN  o.cfg.dirty \/ ~Counts(c, o.result)
<1>1. c \in Config /\ VerifyOpts \in VerifyOptions
  BY LoginAssumption DEF Typed, VerifyOpts, VerifyOptions
<1> QED
  BY <1>1, VerifyCodeDirties DEF Counts, BlocksReuse, CountsLogins

-----------------------------------------------------------------------------
(***************************************************************************)
(* The invariant: the file the path names remembers every login that wrote *)
(* it, and every file a power loss may bring back those that were let in.  *)
(***************************************************************************)

Counted(s) == Counts(Setup, verdict[s].code.type)

LetIn == {s \in Sessions : Granted(s) /\ Counted(s)}

Written == {s \in Sessions : (Granted(s) \/ pc[s] = "syncDir") /\ Counted(s)}

FilesRemember ==
  /\ \A i \in Inodes : contents[i] # Malformed /\ SameOptions(Setup, contents[i])
  /\ \A i \in durable : i \in Inodes /\ Remembers(LetIn, verdict, contents[i], now)
  /\ Remembers(Written, verdict, contents[dir], now)
  /\ Allowed(Written, verdict, Setup)

\* What a login is about to write remembers it as well, if it comes to that.
LoginRemembers(s) ==
  pc[s] \in {"persist", "publish"} =>
    /\ SameOptions(Setup, mem[s])
    /\ dir = fd[s] => /\ Remembers(Written \union {s}, verdict, mem[s], now)
                      /\ Allowed(Written \union {s}, verdict, Setup)
    /\ mem[s].dirty \/ ~Counted(s)

MemoryInv ==
  /\ CodesInv
  /\ TypedInv
  /\ Safe => IF Setup = Malformed
             THEN \A s \in Sessions : verdict[s].code.type \notin Successes
             ELSE FilesRemember /\ \A s \in Sessions : LoginRemembers(s)

LEMMA SameOptionsCompose ==
  ASSUME NEW c, NEW d, SameOptions(c, d)
  PROVE  /\ SameOptions(d, c)
         /\ \A e : SameOptions(d, e) \/ OnlyRecords(d, e) => SameOptions(c, e)
BY DEF SameOptions, SameWindow, OnlyRecords

LEMMA WhoIsRemembered ==
  /\ Written \in SUBSET Sessions /\ LetIn \in SUBSET Written
  /\ \A s \in Sessions : Written \union {s} \in SUBSET Sessions
BY DEF Written, LetIn

\* What the invariant says of the files there are.
LEMMA FilesAreTyped ==
  ASSUME MemoryInv, Safe, Setup # Malformed
  PROVE  /\ \A i \in Inodes : Typed(contents[i], now) /\ contents[i] \in Config
         /\ dir \in durable /\ dir \in Inodes /\ Setup \in Config
         /\ now \in Nat /\ \A s \in Sessions : verdict[s] \in Verdicts
         /\ FilesRemember /\ \A s \in Sessions : LoginRemembers(s)
<1>1. FilesRemember /\ \A s \in Sessions : LoginRemembers(s)
  BY DEF MemoryInv
<1>2. FileType /\ now \in Nat
  BY DEF MemoryInv, TypedInv, CodesInv, AtomicInv, TypeInv
<1>3. \A i \in Inodes : Typed(contents[i], now) /\ contents[i] \in Config
  BY <1>1 DEF FilesRemember, MemoryInv, TypedInv, Typed
<1>4. dir \in durable /\ dir \in Inodes /\ Setup \in Config
  BY <1>1, <1>2, <1>3 DEF FileType, FilesRemember, Setup
<1> QED
  BY <1>1, <1>2, <1>3, <1>4 DEF MemoryInv, TypedInv

\* The files stay, and nobody is let in that the file does not know.
LEMMA FilesStillRemember ==
  ASSUME MemoryInv, Safe, Setup # Malformed, now' \in Nat, now' >= now,
         contents' = contents, Written' \subseteq Written,
         \A s \in Written' : verdict'[s] = verdict[s],
         \A i \in durable' : \/ i \in durable /\ LetIn' \subseteq LetIn
                             \/ i = dir /\ LetIn' \subseteq Written,
         dir' = dir \/ (dir' \in durable /\ Written' \subseteq LetIn)
  PROVE  FilesRemember'
<1>1. /\ \A i \in Inodes : contents[i] \in Config
      /\ dir \in durable /\ dir \in Inodes /\ Setup \in Config
      /\ now \in Nat /\ \A s \in Sessions : verdict[s] \in Verdicts
      /\ FilesRemember
  BY FilesAreTyped
<1>2. /\ Written \in SUBSET Sessions /\ LetIn \in SUBSET Written
      /\ Written' \in SUBSET Sessions /\ LetIn' \in SUBSET Written'
  BY WhoIsRemembered DEF Written, LetIn
<1>3. Inodes' = Inodes /\ Setup' = Setup
  BY DEF Inodes, Setup
<1>4. \A c : OnlyRecords(c, c)
  BY DEF OnlyRecords, SameWindow
<1>5. ASSUME NEW i \in Inodes, NEW S \in SUBSET Written, NEW T \in SUBSET S,
             T \subseteq Written', Remembers(S, verdict, contents[i], now)
      PROVE  Remembers(T, verdict', contents[i], now')
  <2>1. S \in SUBSET Sessions
    BY <1>2
  <2>2. (\A s \in S : verdict[s] \in Verdicts) /\ \A s \in T : verdict'[s] = verdict[s]
    BY <1>1, <1>5, <2>1
  <2>3. contents[i] \in Config /\ OnlyRecords(contents[i], contents[i])
    BY <1>1, <1>4
  <2> QED
    BY <1>1, <1>5, <2>1, <2>2, <2>3, RemembersStill
<1>6. \A i \in durable' :
        i \in Inodes /\ Remembers(LetIn', verdict', contents[i], now')
  <2> SUFFICES ASSUME NEW i \in durable'
               PROVE  i \in Inodes /\ Remembers(LetIn', verdict', contents[i], now')
    OBVIOUS
  <2>1. CASE i \in durable /\ LetIn' \subseteq LetIn
    BY <1>1, <1>2, <1>5, <2>1 DEF FilesRemember
  <2>2. CASE i = dir /\ LetIn' \subseteq Written
    BY <1>1, <1>2, <1>5, <2>2 DEF FilesRemember
  <2> QED
    BY <2>1, <2>2
<1>7. Remembers(Written', verdict', contents[dir'], now')
  <2>1. CASE dir' = dir
    BY <1>1, <1>2, <1>5, <2>1 DEF FilesRemember
  <2>2. CASE dir' \in durable /\ Written' \subseteq LetIn
    BY <1>1, <1>2, <1>5, <2>2 DEF FilesRemember
  <2> QED
    BY <2>1, <2>2
<1>8. Allowed(Written', verdict', Setup)
  <2>1. SameOptions(Setup, Setup) /\ Setup.rateLimit.attempts \in Int
    BY <1>1 DEF SameOptions, SameWindow, Config, RateLimit
  <2> QED
    BY <1>1, <1>2, <2>1, AllowedStill DEF FilesRemember
<1> QED
  BY <1>1, <1>3, <1>6, <1>7, <1>8 DEF FilesRemember

\* The same of what a login is about to write.
LEMMA LoginStillRemembers ==
  ASSUME MemoryInv, Safe, Setup # Malformed, now' \in Nat, now' >= now,
         contents' = contents, dir' = dir, Written' \subseteq Written,
         \A s \in Written' : verdict'[s] = verdict[s],
         NEW s \in Sessions, pc'[s] \in {"persist", "publish"} =>
           /\ pc[s] \in {"persist", "publish"}
           /\ fd'[s] = fd[s] /\ mem'[s] = mem[s] /\ verdict'[s] = verdict[s]
  PROVE  LoginRemembers(s)'
<1> SUFFICES ASSUME pc'[s] \in {"persist", "publish"}
             PROVE  LoginRemembers(s)'
  BY DEF LoginRemembers
<1>1. /\ Setup \in Config /\ now \in Nat /\ \A u \in Sessions : verdict[u] \in Verdicts
      /\ LoginRemembers(s)
  BY FilesAreTyped
<1>2. Setup' = Setup
  BY DEF Setup
<1>3. /\ SameOptions(Setup, mem[s])
      /\ dir = fd[s] => /\ Remembers(Written \union {s}, verdict, mem[s], now)
                        /\ Allowed(Written \union {s}, verdict, Setup)
      /\ mem[s].dirty \/ ~Counted(s)
  BY <1>1 DEF LoginRemembers
<1>4. /\ Written \union {s} \in SUBSET Sessions
      /\ Written' \union {s} \in SUBSET (Written \union {s})
      /\ \A u \in Written \union {s} : verdict[u] \in Verdicts
      /\ \A u \in Written' \union {s} : verdict'[u] = verdict[u]
  BY <1>1, WhoIsRemembered
<1>5. mem[s] \in Config /\ OnlyRecords(mem[s], mem[s])
  BY DEF MemoryInv, TypedInv, Typed, OnlyRecords, SameWindow
<1>6. dir = fd[s] => Remembers(Written' \union {s}, verdict', mem[s], now')
  BY <1>1, <1>3, <1>4, <1>5, RemembersStill
<1>7. dir = fd[s] => Allowed(Written' \union {s}, verdict', Setup)
  <2>1. SameOptions(Setup, Setup) /\ Setup.rateLimit.attempts \in Int
    BY <1>1 DEF SameOptions, SameWindow, Config, RateLimit
  <2> QED
    BY <1>3, <1>4, <2>1, AllowedStill
<1>8. Counted(s)' <=> Counted(s)
  BY <1>2 DEF Counted
<1> QED
  BY <1>2, <1>3, <1>6, <1>7, <1>8 DEF LoginRemembers

-----------------------------------------------------------------------------
(***************************************************************************)
(* The steps.                                                              *)
(***************************************************************************)

\* A login that decides is not in the file yet.
LEMMA DecidingMemory ==
  ASSUME ClockForward, NEW s \in Sessions, MemoryInv, Safe, Setup # Malformed,
         Grace(s) \/ \E token \in TypedTokens : Accept(s, token)
  PROVE  LoginRemembers(s)' /\ s \notin Written'
<1> DEFINE c == mem[s]
<1>1. /\ LocalsType /\ Decided(s) /\ Typed(c, now) /\ c \in Config
      /\ host[s] \in Hosts \union {NoHost}
  BY DEF MemoryInv, TypedInv, CodesInv, AtomicInv, TypeInv, LocalsType, Typed
<1>2. /\ pc[s] \in {"decide", "prompt"} /\ pc'[s] = "persist"
      /\ fd' = fd /\ rc' = rc /\ contents' = contents /\ dir' = dir /\ now' = now
  BY <1>1 DEF Grace, Accept, Goto, file, LocalsType
<1>3. OthersStay(s) /\ Setup' = Setup
  BY <1>2, QuietKeepsLocals DEF Quiet, MemoryInv, TypedInv, CodesInv, Setup
<1>4. fd[s] \in Inodes /\ c = contents[fd[s]]
  BY <1>2, ReadIsShaped DEF MemoryInv, TypedInv
<1>5. /\ Setup \in Config /\ now \in Nat /\ \A u \in Sessions : verdict[u] \in Verdicts
      /\ FilesRemember
  BY FilesAreTyped
<1>6. SameOptions(Setup, c) /\ SameOptions(c, Setup)
  BY <1>4, <1>5, SameOptionsCompose DEF FilesRemember
<1>7. rc[s] # "success"
  BY <1>1, <1>2 DEF Decided
<1>8. s \notin Written /\ s \notin Written' /\ Written' \subseteq Written
      /\ \A u \in Written : verdict'[u] = verdict[u]
  BY <1>2, <1>3, <1>7 DEF Written, Granted, Counted, OthersStay
<1>9. /\ Written \in SUBSET Sessions /\ Written \union {s} \in SUBSET Sessions
      /\ Written' \union {s} \in SUBSET (Written \union {s})
  BY <1>8, WhoIsRemembered
<1>10. dir = fd[s] => /\ Remembers(Written, verdict, c, now)
                      /\ Allowed(Written, verdict, c)
  <2>1. dir = fd[s] => Remembers(Written, verdict, c, now)
    BY <1>4, <1>5 DEF FilesRemember
  <2>2. c.rateLimit.attempts \in Int
    BY <1>1 DEF Config, RateLimit
  <2>3. Allowed(Written, verdict, c)
    BY <1>5, <1>6, <1>9, <2>2, AllowedStill DEF FilesRemember
  <2> QED
    BY <2>1, <2>3
<1>11. \A u \in Sessions : verdict'[u] \in Verdicts
  BY <1>1, <1>3, <1>5, DecidingType DEF MemoryInv, OthersStay
<1> HIDE DEF c
<1>12. ASSUME NEW e \in Config, SameOptions(c, e), OnlyRecords(e, mem'[s]),
              dir = fd[s] => /\ Remembers(Written \union {s}, verdict', e, now)
                             /\ Allowed(Written \union {s}, verdict', c),
              mem'[s].dirty \/ ~Counts(c, verdict'[s].code.type)
       PROVE  LoginRemembers(s)'
  <2>1. SameOptions(Setup, mem'[s])
    BY <1>6, <1>12, SameOptionsCompose
  <2>2. dir = fd[s] => Remembers(Written' \union {s}, verdict', mem'[s], now)
    BY <1>5, <1>9, <1>11, <1>12, RemembersStill
  <2>3. dir = fd[s] => Allowed(Written' \union {s}, verdict', Setup)
    <3>1. Setup.rateLimit.attempts \in Int
      BY <1>5 DEF Config, RateLimit
    <3> QED
      BY <1>6, <1>9, <1>12, <3>1, AllowedStill
  <2>4. mem'[s].dirty \/ ~Counts(Setup, verdict'[s].code.type)
    BY <1>6, <1>12, SameOptionsCount
  <2> QED
    BY <1>2, <1>3, <2>1, <2>2, <2>3, <2>4 DEF LoginRemembers, Counted
<1>13. CASE Grace(s)
  <2>1. PICK d \in UpdateLoginRecord(c, host[s], now) : mem'[s] = d
    BY <1>1, <1>13 DEF Grace, Remember, LocalsType, PerLogin, c
  <2>2. OnlyRecords(c, d)
    BY <1>1, <1>5, <2>1, RecordLoginType
  <2>3. verdict'[s].code.type = "grace"
    BY <1>1, <1>13 DEF Grace, Decide, LocalsType, PerLogin
  <2>4. ~Counts(c, verdict'[s].code.type)
    BY <2>3 DEF Counts, Successes
  <2>5. OnlyRecords(c, c) /\ SameOptions(c, c)
    BY DEF OnlyRecords, SameWindow, SameOptions
  <2>6. c.rateLimit.attempts \in Int
    BY <1>1 DEF Config, RateLimit
  <2>7. ASSUME dir = fd[s]
        PROVE  /\ Remembers(Written \union {s}, verdict', c, now)
               /\ Allowed(Written \union {s}, verdict', c)
    <3>1. Written \in SUBSET Written
      OBVIOUS
    <3>2. Remembers(Written, verdict', c, now)
      BY <1>1, <1>5, <1>8, <1>9, <1>10, <2>5, <2>7, <3>1, RemembersStill
    <3>3. Allowed(Written, verdict', c)
      BY <1>8, <1>9, <1>10, <2>5, <2>6, <2>7, <3>1, AllowedStill
    <3> QED
      BY <2>4, <3>2, <3>3, NotCounted
  <2> QED
    BY <1>1, <1>8, <1>12, <2>1, <2>2, <2>4, <2>5, <2>7
<1>14. ASSUME NEW token \in TypedTokens, Accept(s, token)
       PROVE  LoginRemembers(s)'
  <2> DEFINE o == VerifyCode(c, token, VerifyOpts, now)
  <2>1. token \in Tokens /\ VerifyOpts \in VerifyOptions
    BY LoginAssumption DEF VerifyOpts, VerifyOptions
  <2>2. /\ o.result \in Successes
        /\ verdict'[s] = [code |-> CodeOf(o, token), when |-> now]
    BY <1>1, <1>14 DEF Accept, Outcome, Decide, LocalsType, PerLogin, CodeOf, c
  <2>3. PICK d \in RecordLogin(o.cfg, host[s], now) : mem'[s] = d
    BY <1>1, <1>14 DEF Accept, Outcome, Remember, LocalsType, PerLogin, c
  <2>4. o.cfg \in Config /\ now \in Int /\ host[s] \in Hosts \union {NoHost}
    BY <1>1, <1>5, <2>1, VerifyCodeKeepsType DEF Typed
  <2>5. OnlyRecords(o.cfg, d) /\ (o.cfg.dirty => d.dirty)
    BY <2>3, <2>4, RecordLoginType
  <2>6. SameOptions(c, o.cfg)
    BY <1>1, <1>5, <2>1, AcceptKeepsOptions
  <2>7. o.cfg.dirty \/ ~Counts(c, o.result)
    BY <1>1, <1>5, <2>1, <2>2, AcceptDirties
  <2>8. AcceptsNow(c, token, now, Written, verdict, s, verdict')
    BY <1>1, <1>5, <1>8, <1>9, <2>2 DEF AcceptsNow
  <2>9. dir = fd[s] => /\ Remembers(Written \union {s}, verdict', o.cfg, now)
                       /\ Allowed(Written \union {s}, verdict', c)
    BY <1>5, <1>9, <1>10, <2>1, <2>8, AcceptRemembers
  <2>10. verdict'[s].code.type = o.result
    BY <2>2 DEF CodeOf
  <2> HIDE DEF o
  <2> QED
    BY <1>12, <2>3, <2>4, <2>5, <2>6, <2>7, <2>9, <2>10
<1> QED
  BY <1>8, <1>13, <1>14

\* What else a login does by itself lets nobody in on a code that counts.
LEMMA QuietMemory ==
  ASSUME NEW s \in Sessions, MemoryInv, Safe, Setup # Malformed, Quiet(s), ~Grace(s),
         \A token \in TypedTokens : ~Accept(s, token)
  PROVE  /\ s \in Written' => s \in LetIn /\ verdict'[s] = verdict[s]
         /\ pc'[s] \in {"persist", "publish"} =>
              /\ pc[s] \in {"persist", "publish"}
              /\ fd'[s] = fd[s] /\ mem'[s] = mem[s] /\ verdict'[s] = verdict[s]
<1>1. LocalsType /\ Decided(s) /\ LoginRemembers(s)
  BY FilesAreTyped DEF MemoryInv, TypedInv, CodesInv, AtomicInv, TypeInv
<1>2. contents' = contents /\ Setup' = Setup
  BY QuietStaysAway DEF file, Setup
<1>3. CASE Open(s) \/ Lock(s) \/ Load(s) \/ AskForCode(s) \/ CheckPasses(s)
  <2>1. /\ rc' = rc /\ verdict' = verdict /\ rc[s] # "success"
        /\ pc'[s] \in {"lock", "load", "decide", "prompt", "publish"}
        /\ pc'[s] = "publish" => CheckPasses(s)
        /\ CheckPasses(s) => pc[s] = "persist" /\ fd' = fd /\ mem' = mem
    BY <1>1, <1>3 DEF Open, Lock, Load, AskForCode, CheckPasses, Goto, LocalsType,
                      Decided
  <2> QED
    BY <2>1 DEF Written, Granted
<1>4. CASE \/ OpenNothing(s) \/ LoadFails(s) \/ PromptFails(s)
           \/ \E token \in TypedTokens : Reject(s, token)
           \/ CheckFails(s) \/ \E error \in WriteErrors : WriteFails(s, error)
  <2>1. pc'[s] = "done" /\ rc'[s] # "success"
    BY <1>1, <1>4 DEF OpenNothing, LoadFails, PromptFails, Reject, CheckFails,
                      WriteFails, Answer, LocalsType, Safe
  <2> QED
    BY <2>1 DEF Written, Granted
<1>5. CASE NothingToWrite(s)
  <2>1. pc'[s] = "done" /\ verdict' = verdict /\ pc[s] = "persist" /\ ~mem[s].dirty
    BY <1>1, <1>5 DEF NothingToWrite, Answer, LocalsType
  <2>2. ~Counted(s) /\ ~Counted(s)'
    BY <1>1, <1>2, <2>1 DEF LoginRemembers, Counted
  <2> QED
    BY <2>1, <2>2 DEF Written
<1>6. CASE Kill(s)
  <2>1. rc' = rc /\ verdict' = verdict /\ pc[s] # "done" /\ pc'[s] = "killed"
    BY <1>1, <1>6 DEF Kill, Running, LocalsType
  <2>2. rc'[s] # "success"
    BY <1>1, <2>1 DEF Decided
  <2> QED
    BY <2>1, <2>2 DEF Written, Granted
<1> QED
  BY <1>3, <1>4, <1>5, <1>6 DEF Quiet

LEMMA QuietKeepsMemoryInv ==
  ASSUME ClockForward, NEW s \in Sessions, MemoryInv, CodesInv', TypedInv', Quiet(s)
  PROVE  MemoryInv'
<1>1. /\ contents' = contents /\ dir' = dir /\ durable' = durable /\ now' = now
      /\ Setup' = Setup /\ (Safe' <=> Safe) /\ OthersStay(s)
  BY QuietStaysAway, QuietKeepsLocals
  DEF file, history, Setup, Safe, MemoryInv, TypedInv, CodesInv
<1>2. now' \in Nat /\ now' >= now
  BY <1>1 DEF MemoryInv, TypedInv, CodesInv, AtomicInv, TypeInv
<1>3. CASE Safe /\ Setup = Malformed
  <2>1. pc[s] \notin {"decide", "prompt"}
    BY <1>3 DEF MemoryInv, TypedInv, CodesInv, Unreadable
  <2>2. verdict' = verdict
    BY <2>1 DEF Quiet, Open, OpenNothing, Lock, Load, LoadFails, Grace,
      AskForCode, PromptFails, Accept, Reject, NothingToWrite, CheckPasses,
      CheckFails, WriteFails, Kill
  <2> QED
    BY <1>1, <1>3, <2>2 DEF MemoryInv
<1>4. CASE Safe /\ Setup # Malformed
  <2>1. /\ s \in Written' => s \in LetIn /\ verdict'[s] = verdict[s]
        /\ LoginRemembers(s)' \/ (pc'[s] \in {"persist", "publish"} =>
              /\ pc[s] \in {"persist", "publish"}
              /\ fd'[s] = fd[s] /\ mem'[s] = mem[s] /\ verdict'[s] = verdict[s])
    BY <1>4, DecidingMemory, QuietMemory
  <2>2. /\ Written' \subseteq Written /\ LetIn' \subseteq LetIn
        /\ \A u \in Written' : verdict'[u] = verdict[u]
    BY <1>1, <2>1 DEF Written, LetIn, Granted, Counted, OthersStay
  <2>3. FilesRemember'
    BY <1>1, <1>2, <1>4, <2>2, FilesStillRemember
  <2>4. \A u \in Sessions : LoginRemembers(u)'
    BY <1>1, <1>2, <1>4, <2>1, <2>2, LoginStillRemembers DEF OthersStay
  <2> QED
    BY <1>1, <1>4, <2>3, <2>4 DEF MemoryInv
<1> QED
  BY <1>1, <1>3, <1>4 DEF MemoryInv

\* The new file remembers whom the one before it remembered, and the login
\* that wrote it.
LEMMA PublishRemembers ==
  ASSUME NEW s \in Sessions, MemoryInv, CodesInv', TypedInv', Publish(s), Safe',
         Setup # Malformed
  PROVE  FilesRemember' /\ \A u \in Sessions : LoginRemembers(u)'
<1> DEFINE new == Stored(mem[s])
<1>1. /\ PutInPlace(new) /\ OthersStay(s) /\ pc[s] = "publish" /\ pc'[s] = "syncDir"
      /\ mem' = mem /\ verdict' = verdict /\ rc' = rc
      /\ raced' = (raced \/ AboutToPublish # {s}) /\ edited' = edited /\ now' = now
  BY PublishEffect DEF MemoryInv, TypedInv, Publish
<1>2. CodesInv /\ FileType /\ raced \in BOOLEAN
  BY DEF MemoryInv, TypedInv, CodesInv, AtomicInv, TypeInv
<1>3. Safe /\ ~raced
  BY <1>1, <1>2 DEF Safe
<1>4. dir = fd[s]
  BY <1>1, <1>2, <1>3 DEF CodesInv, AtomicInv, Holds
<1>5. /\ \A i \in Inodes : i \in Inodes' /\ contents'[i] = contents[i]
      /\ Len(contents) \in Nat /\ Len(contents') = Len(contents) + 1
      /\ dir' = Len(contents) + 1 /\ dir' \in Inodes' /\ contents'[dir'] = new
      /\ durable' \in {durable \union {dir'}, {dir'}} /\ Setup' = Setup
  BY <1>1, <1>2, NewInode, ContentsStay
<1>6. /\ \A u \in Sessions : verdict[u] \in Verdicts
      /\ now \in Nat /\ Setup \in Config /\ FilesRemember /\ LoginRemembers(s)
  BY <1>3, FilesAreTyped
<1>7. /\ SameOptions(Setup, mem[s])
      /\ Remembers(Written \union {s}, verdict, mem[s], now)
      /\ Allowed(Written \union {s}, verdict, Setup)
  BY <1>1, <1>4, <1>6 DEF LoginRemembers
<1>8. mem[s] \in Config /\ new \in Config /\ OnlyRecords(mem[s], new)
  BY StoredType DEF MemoryInv, TypedInv, Typed
<1> HIDE DEF new
<1>9. new # Malformed /\ SameOptions(Setup, new)
  BY <1>7, <1>8, SameOptionsCompose, LoginAssumption
<1>10. /\ LetIn' = LetIn /\ LetIn \in SUBSET (Written \union {s})
       /\ Written' \in SUBSET (Written \union {s})
       /\ Written \union {s} \in SUBSET Sessions
  BY <1>1, <1>5 DEF LetIn, Written, Granted, Counted, OthersStay
<1>11. \A T \in SUBSET (Written \union {s}) : Remembers(T, verdict, new, now)
  BY <1>6, <1>7, <1>8, <1>10, RemembersStill
<1>12. Allowed(Written', verdict, Setup)
  <2>1. SameOptions(Setup, Setup) /\ Setup.rateLimit.attempts \in Int
    BY <1>6 DEF SameOptions, SameWindow, Config, RateLimit
  <2> QED
    BY <1>7, <1>10, <2>1, AllowedStill
<1>13. \A i \in Inodes' : i \in Inodes \/ i = dir'
  BY <1>5 DEF Inodes
<1>14. FilesRemember'
  <2>1. \A i \in Inodes' : contents'[i] # Malformed /\ SameOptions(Setup, contents'[i])
    BY <1>5, <1>6, <1>9, <1>13 DEF FilesRemember
  <2>2. \A i \in durable' :
          i \in Inodes' /\ Remembers(LetIn, verdict, contents'[i], now)
    BY <1>5, <1>6, <1>10, <1>11 DEF FilesRemember
  <2>3. Remembers(Written', verdict, contents'[dir'], now)
    BY <1>5, <1>10, <1>11
  <2> QED
    BY <1>1, <1>5, <1>10, <1>12, <2>1, <2>2, <2>3 DEF FilesRemember
<1>15. ASSUME NEW u \in Sessions, pc'[u] \in {"persist", "publish"}
       PROVE  LoginRemembers(u)'
  <2>1. u # s /\ pc'[u] = pc[u] /\ fd'[u] = fd[u]
    BY <1>1, <1>15 DEF OthersStay
  <2>2. fd[u] \in Inodes /\ LoginRemembers(u)
    BY <1>2, <1>3, <1>15, <2>1, FilesAreTyped DEF CodesInv, AtomicInv, Holds
  <2>3. fd'[u] # dir'
    BY <1>5, <2>1, <2>2 DEF Inodes
  <2> QED
    BY <1>1, <1>5, <1>15, <2>1, <2>2, <2>3 DEF LoginRemembers, Counted
<1> QED
  BY <1>14, <1>15 DEF LoginRemembers

LEMMA PublishKeepsMemoryInv ==
  ASSUME NEW s \in Sessions, MemoryInv, CodesInv', TypedInv', Publish(s)
  PROVE  MemoryInv'
<1>1. /\ PutInPlace(Stored(mem[s])) /\ pc[s] = "publish" /\ edited' = edited
      /\ raced' = (raced \/ AboutToPublish # {s})
  BY PublishEffect DEF MemoryInv, TypedInv
<1>2. FileType /\ raced \in BOOLEAN
  BY DEF MemoryInv, TypedInv, CodesInv, AtomicInv, TypeInv
<1>3. Setup' = Setup /\ (Safe' => Safe)
  BY <1>1, <1>2, ContentsStay DEF Safe
<1>4. Safe' => Setup # Malformed
  BY <1>1, <1>3 DEF MemoryInv, TypedInv, CodesInv, Unreadable
<1> QED
  BY <1>3, <1>4, PublishRemembers DEF MemoryInv

\* Whoever is let in is in the file that is on the disk by then.
LEMMA SyncDirKeepsMemoryInv ==
  ASSUME NEW s \in Sessions, MemoryInv, CodesInv', TypedInv', SyncDir(s)
  PROVE  MemoryInv'
<1>1. LocalsType /\ now \in Nat
  BY DEF MemoryInv, TypedInv, CodesInv, AtomicInv, TypeInv
<1>2. /\ pc[s] = "syncDir" /\ pc'[s] = "done" /\ OthersStay(s)
      /\ contents' = contents /\ dir' = dir /\ durable' = {dir} /\ now' = now
      /\ verdict' = verdict /\ Setup' = Setup /\ (Safe' <=> Safe)
  BY <1>1 DEF SyncDir, Answer, LocalsType, PerLogin, OthersStay, history, Setup, Safe
<1>3. Safe /\ Setup = Malformed => FALSE
  BY <1>2 DEF MemoryInv, TypedInv, CodesInv, Unreadable
<1>4. CASE Safe /\ Setup # Malformed
  <2>1. Written' \subseteq Written /\ LetIn' \subseteq Written
    BY <1>2 DEF Written, LetIn, Granted, Counted, OthersStay
  <2>2. now' \in Nat /\ now' >= now
    BY <1>1, <1>2
  <2>3. FilesRemember'
    BY <1>2, <1>4, <2>1, <2>2, FilesStillRemember
  <2>4. \A u \in Sessions : pc'[u] \in {"persist", "publish"} =>
          /\ pc[u] \in {"persist", "publish"}
          /\ fd'[u] = fd[u] /\ mem'[u] = mem[u] /\ verdict'[u] = verdict[u]
    BY <1>2 DEF OthersStay
  <2>5. \A u \in Sessions : LoginRemembers(u)'
    BY <1>2, <1>4, <2>1, <2>2, <2>4, LoginStillRemembers
  <2> QED
    BY <1>2, <1>4, <2>3, <2>5 DEF MemoryInv
<1> QED
  BY <1>2, <1>3, <1>4 DEF MemoryInv

LEMMA PowerLossKeepsMemoryInv ==
  ASSUME MemoryInv, CodesInv', TypedInv', PowerLoss
  PROVE  MemoryInv'
<1>1. now \in Nat
  BY DEF MemoryInv, TypedInv, CodesInv, AtomicInv, TypeInv
<1>2. /\ contents' = contents /\ dir' \in durable /\ durable' = {dir'}
      /\ pc' = [u \in Sessions |-> IF u \in Running THEN "killed" ELSE pc[u]]
      /\ verdict' = verdict /\ rc' = rc /\ now' = now
      /\ Setup' = Setup /\ (Safe' <=> Safe)
  BY DEF PowerLoss, history, Setup, Safe
<1>3. \A u \in Sessions : pc'[u] \in {"start", "done", "killed"}
  BY <1>2 DEF Running
<1>4. CASE Safe /\ Setup # Malformed
  <2>1. LetIn' = LetIn /\ Written' \subseteq LetIn
    BY <1>2, <1>3 DEF Written, LetIn, Granted, Counted
  <2>2. now' \in Nat /\ now' >= now /\ Written' \subseteq Written
    BY <1>1, <1>2, <2>1, WhoIsRemembered
  <2>3. FilesRemember'
    BY <1>2, <1>4, <2>1, <2>2, FilesStillRemember
  <2>4. \A u \in Sessions : LoginRemembers(u)'
    BY <1>3 DEF LoginRemembers
  <2> QED
    BY <1>2, <1>4, <2>3, <2>4 DEF MemoryInv
<1> QED
  BY <1>2, <1>4 DEF MemoryInv

LEMMA SetClockKeepsMemoryInv ==
  ASSUME MemoryInv, CodesInv', TypedInv', now' >= now, SetClock \/ UNCHANGED vars
  PROVE  MemoryInv'
<1>1. /\ UNCHANGED <<contents, dir, durable, pc, fd, mem, verdict, rc, raced, edited>>
      /\ now' \in Nat
  BY DEF SetClock, vars, file, locals, history, TypedInv, CodesInv, AtomicInv, TypeInv
<1>2. /\ Setup' = Setup /\ (Safe' <=> Safe) /\ Written' = Written /\ LetIn' = LetIn
  BY <1>1 DEF Setup, Safe, Written, LetIn, Granted, Counted
<1>3. CASE Safe /\ Setup # Malformed
  <2>1. FilesRemember'
    BY <1>1, <1>2, <1>3, FilesStillRemember
  <2>2. \A u \in Sessions : LoginRemembers(u)'
    BY <1>1, <1>2, <1>3, LoginStillRemembers
  <2> QED
    BY <1>2, <1>3, <2>1, <2>2 DEF MemoryInv
<1> QED
  BY <1>1, <1>2, <1>3 DEF MemoryInv

LEMMA StepKeepsMemoryInv ==
  ASSUME ClockForward, MemoryInv, [Next]_vars
  PROVE  MemoryInv'
<1>1. CodesInv' /\ TypedInv' /\ now' >= now
  BY StepKeepsCodesInv, StepKeepsTypedInv DEF MemoryInv
<1>2. OwnerReplaces \/ OwnerRemoves => MemoryInv'
  BY <1>1 DEF OwnerReplaces, OwnerRemoves, MemoryInv, Safe
<1> QED
  BY <1>1, <1>2, StepCases, QuietKeepsMemoryInv, PublishKeepsMemoryInv,
     SyncDirKeepsMemoryInv, PowerLossKeepsMemoryInv, SetClockKeepsMemoryInv

-----------------------------------------------------------------------------
(***************************************************************************)
(* The theorems.                                                           *)
(***************************************************************************)

LEMMA MemoryInit ==
  ASSUME ClockForward, Init
  PROVE  MemoryInv
<1>1. PICK c \in InitialConfigs : contents = <<c>>
  BY DEF Init
<1>2. Inodes = {1} /\ Setup = c /\ contents[1] = c /\ dir = 1 /\ durable = {1}
  BY <1>1 DEF Inodes, Setup, Init
<1>3. \A s \in Sessions : /\ verdict[s].code.type = "none" /\ rc[s] = "none"
                          /\ pc[s] = "start"
  BY DEF Init, NoVerdict
<1>4. Written = {} /\ LetIn = {}
  BY <1>3 DEF Written, LetIn, Granted
<1>5. CASE c = Malformed
  BY <1>2, <1>3, <1>5, CodesInit, TypedInit DEF MemoryInv, Successes
<1>6. CASE c # Malformed
  <2>1. c \in Config /\ c.rateLimit.timestamps \in Seq(Int)
    BY <1>6, LoginAssumption DEF Config, RateLimit
  <2>2. \A lo : LastSince(c.rateLimit.timestamps, Cardinality(Since({}, verdict, lo)), lo)
    <3>1. \A lo : Since({}, verdict, lo) = {}
      BY DEF Since
    <3>2. Cardinality({}) = 0
      BY FS_EmptySet
    <3>3. \A lo : LastSince(c.rateLimit.timestamps, 0, lo)
      BY <2>1 DEF LastSince
    <3> QED
      BY <3>1, <3>2, <3>3
  <2>3. Remembers({}, verdict, c, now) /\ Allowed({}, verdict, c)
    BY <2>2 DEF Remembers, RemembersSteps, RemembersTimes, Allowed,
                UsesStepsOnce, KeepsToLimit
  <2>4. SameOptions(c, c)
    BY DEF SameOptions, SameWindow
  <2>5. FilesRemember /\ \A s \in Sessions : LoginRemembers(s)
    BY <1>2, <1>3, <1>4, <1>6, <2>3, <2>4 DEF FilesRemember, LoginRemembers
  <2> QED
    BY <1>2, <1>6, <2>5, CodesInit, TypedInit DEF MemoryInv
<1> QED
  BY <1>5, <1>6

LEMMA MemoryInvStepsOnce ==
  ASSUME MemoryInv
  PROVE  EachStepOnce
<1> SUFFICES ASSUME Safe, Params.noSkewAdjust, NEW code \in CodesGranted,
                    code.type = "totp"
             PROVE  Cardinality(GrantedOn(code)) <= Uses(code)
  BY DEF EachStepOnce, NoneOveruses, Safe
<1>1. PICK s \in Sessions : Granted(s) /\ verdict[s].code = code
  BY DEF CodesGranted
<1>2. Setup # Malformed
  BY <1>1 DEF MemoryInv, Successes
<1>3. Allowed(Written, verdict, Setup)
  BY <1>2, FilesAreTyped DEF FilesRemember
<1>4. CASE Setup.disallowReuse
  <2>1. BlocksReuse(Setup) /\ UsesStepsOnce(Written, verdict)
    BY <1>3, <1>4 DEF BlocksReuse, Allowed
  <2>2. GrantedOn(code) \subseteq Written /\ s \in Written
    BY <1>1, <2>1 DEF GrantedOn, Written, Granted, Counted, Counts
  <2>3. GrantedOn(code) \subseteq {s}
    BY <1>1, <2>1, <2>2 DEF UsesStepsOnce, GrantedOn
  <2>4. Cardinality({s}) = 1 /\ {s} \in SUBSET Sessions
    BY FS_Singleton
  <2>5. Cardinality(GrantedOn(code)) <= Cardinality({s})
    BY <2>3, <2>4, FewerLogins
  <2>6. Uses(code) = 1
    BY <1>4 DEF Uses
  <2> QED
    BY <2>4, <2>5, <2>6
<1>5. CASE ~Setup.disallowReuse
  <2>1. Uses(code) = Cardinality(Sessions)
    BY <1>5 DEF Uses
  <2>2. GrantedOn(code) \in SUBSET Sessions /\ Sessions \in SUBSET Sessions
    BY CodesAreFinite
  <2> QED
    BY <2>1, <2>2, FewerLogins
<1> QED
  BY <1>4, <1>5

LEMMA MemoryInvLimits ==
  ASSUME StampsOfThePast, MemoryInv
  PROVE  LoginsLimited
<1> SUFFICES ASSUME Safe, HasRateLimit(Setup), NEW t \in Sessions,
                    Granted(t), verdict[t].code.type \in Successes
             PROVE  Cardinality({s \in DecidedBefore(t, Successes) : Granted(s)})
                      <= Setup.rateLimit.attempts
  BY DEF LoginsLimited, Safe
<1> DEFINE earlier == {s \in DecidedBefore(t, Successes) : Granted(s)}
           limited == UpTo(Written, verdict, Setup, verdict[t].when)
<1>1. Setup # Malformed
  BY DEF MemoryInv
<1>2. Allowed(Written, verdict, Setup) /\ Setup \in Config
  BY <1>1, FilesAreTyped DEF FilesRemember
<1>3. KeepsToLimit(Written, verdict, Setup)
  BY <1>2 DEF Allowed, CountsLogins
<1>4. t \in Written
  BY DEF Written, Counted, Counts, CountsLogins
<1>5. Cardinality(limited) <= Setup.rateLimit.attempts
  BY <1>3, <1>4 DEF KeepsToLimit
<1>6. earlier \in SUBSET limited /\ limited \in SUBSET Sessions
  BY DEF DecidedBefore, UpTo, Since, Written, Counted, Counts, CountsLogins
<1>7. /\ Cardinality(limited) \in Nat /\ Cardinality(earlier) \in Nat
      /\ Cardinality(earlier) <= Cardinality(limited)
  BY <1>6, FewerLogins
<1>8. Setup.rateLimit.attempts \in Int
  BY <1>2 DEF Config, RateLimit
<1> HIDE DEF earlier, limited
<1>9. Cardinality(earlier) <= Setup.rateLimit.attempts
  BY <1>5, <1>7, <1>8
<1> QED
  BY <1>9 DEF earlier

\* Under DISALLOW_REUSE a step of the clock lets one login in, however many
\* verify it at once, wherever they die, and whenever the power fails.
THEOREM StepsAreSpentOnce ==
  ASSUME ClockForward
  PROVE  Spec => []EachStepOnce
<1>1. Init => MemoryInv
  BY MemoryInit
<1>2. MemoryInv /\ [Next]_vars => MemoryInv'
  BY StepKeepsMemoryInv
<1>3. MemoryInv => EachStepOnce
  BY MemoryInvStepsOnce
<1> QED
  BY <1>1, <1>2, <1>3, PTL DEF Spec

\* Under RATE_LIMIT no interval holds more logins on a code than the option
\* says, although each of them counts from the file that it read.
THEOREM LoginsAreLimited ==
  ASSUME ClockForward, StampsOfThePast
  PROVE  Spec => []LoginsLimited
<1>1. Init => MemoryInv
  BY MemoryInit
<1>2. MemoryInv /\ [Next]_vars => MemoryInv'
  BY StepKeepsMemoryInv
<1>3. MemoryInv => LoginsLimited
  BY MemoryInvLimits
<1> QED
  BY <1>1, <1>2, <1>3, PTL DEF Spec
=============================================================================
