--------------------------- MODULE PamProcessProofs ---------------------------
(***************************************************************************)
(* A process with any number of calls: its log, its users and groups, and  *)
(* what it reads, replaces and passes on.                                  *)
(***************************************************************************)
EXTENDS PamProcess, WellFoundedInduction, SequenceTheorems, TLAPS

Moving == {"configuring", "movingLog", "movingOwnLog"}

\* Before the call has an account, before it asks who the process is, before it
\* drops, and with its privileges.
Nameless == {"start", "configuring", "parse", "account"}
Unread == Nameless \union {"moveLog", "movingLog", "drop"}
Early == Unread \union {"readGroup", "compare"}
Settled == {"moveOwnLog", "movingOwnLog", "load", "ask", "persist"}

Outputs == Accounts \union {Stderr, Lost, world.logDir}

Loggers ==
  [ mutex : Threads \union {NoThread}, file : Outputs \union {NoFile},
    output : Outputs, derivedFromHome : BOOLEAN, handles : Int ]

Logins ==
  [ pc : PCs, account : Accounts \union {NoAccount},
    orig : [user : Nat, group : Nat], dropped : BOOLEAN, inode : Nat,
    rc : Answers, said : SUBSET Outputs, authtok : Texts ]

TypeInv ==
  /\ world \in Worlds
  /\ ids \in Ids
  /\ log \in Loggers
  /\ logOwners \in [DOMAIN logOwners -> Nat]
  /\ secrets \in [DOMAIN world.secrets -> SecretFile]
  /\ login \in [Threads -> Logins]
  /\ overlapped \in BOOLEAN

\* Where a call is tells what it has of an account and of privileges.
PlaceOf(t) ==
  /\ Call(t) = NoCall => login[t].pc = "start"
  /\ login[t].pc \in Nameless => login[t].account = NoAccount
  /\ login[t].pc \notin Nameless \union {"done"} => login[t].account \in Accounts
  /\ login[t].pc \in Early \union {"dropUser", "putBack"} => ~login[t].dropped
  /\ login[t].pc \in Unread => login[t].orig = Effective(world.ids)
  /\ login[t].pc = "readGroup" => login[t].orig.group = world.ids.egid
  /\ login[t].pc \in {"restore", "restoreGroup"} => login[t].dropped

PlaceInv == \A t \in Threads : PlaceOf(t)

-----------------------------------------------------------------------------
HandleInv ==
  /\ \A t \in Threads : login[t].pc \in Moving => log.mutex = t
  /\ log.mutex = NoThread => log.handles = (IF log.file = NoFile THEN 0 ELSE 1)
  /\ log.mutex # NoThread => log.file = NoFile /\ log.handles = 0

-----------------------------------------------------------------------------
\* A switch changes the effective ids only.
RealIds ==
  /\ ids.uid = world.ids.uid /\ ids.suid = world.ids.suid
  /\ ids.gid = world.ids.gid /\ ids.sgid = world.ids.sgid

\* Who the process is during a call that is alone.
IdsAt(t) ==
  /\ login[t].pc \in Early => ids = world.ids
  /\ login[t].pc = "dropUser" =>
       ids.euid = world.ids.euid /\ ids.egid = GroupFor(t)
  /\ login[t].pc \in Settled =>
       /\ Effective(ids) = Wanted(t)
       /\ login[t].dropped \/ ids = world.ids
  /\ login[t].pc \in {"putBack", "restoreGroup"} => ids.euid = world.ids.euid
  /\ login[t].pc = "putBack" => ~MaySetUser(ids, Wanted(t).user)

AloneInv ==
  ~overlapped =>
    /\ \A t, u \in Running : t = u
    /\ \A t \in Threads : login[t].orig = Effective(world.ids)
    /\ \A t \in Running : IdsAt(t)
    /\ Running = {} => ids = world.ids

-----------------------------------------------------------------------------
\* The calls that have yet to give back the user of the process, and its group.
OwesUser ==
  {t \in Threads : login[t].pc \in Settled \union {"restore"} /\ login[t].dropped}
OwesGroup ==
  {t \in Threads :
     \/ login[t].pc \in {"dropUser", "putBack"}
     \/ login[t].pc \in Settled \union {"restore", "restoreGroup"} /\ login[t].dropped}

\* No call has found another user than the one the process began with, or group.
FoundUser == \A t \in Threads : login[t].orig.user = world.ids.euid
FoundGroup == \A t \in Threads : login[t].orig.group = world.ids.egid

\* Then whoever has taken it away will put it back.
BackInv ==
  /\ FoundUser => ids.euid = world.ids.euid \/ OwesUser # {}
  /\ FoundGroup => ids.egid = world.ids.egid \/ OwesGroup # {}

IdsInv == RealIds /\ AloneInv /\ BackInv
-----------------------------------------------------------------------------
\* What is accepted and how recent a login was does not change; and who owns
\* the file that a lone call has looked at.
FileInv ==
  /\ DOMAIN secrets = DOMAIN world.secrets
  /\ \A path \in DOMAIN secrets :
       /\ secrets[path].codes = world.secrets[path].codes
       /\ secrets[path].recent = world.secrets[path].recent
  /\ \A t \in Threads :
       login[t].pc \in {"ask", "persist"} => SecretPath(t) \in DOMAIN secrets

OwnerInv ==
  ~overlapped /\ (\A t \in Threads : Call(t) # NoCall => ~Params(t).noStrictOwner)
    => /\ \A path \in DOMAIN secrets :
            secrets[path].owner = world.secrets[path].owner
       /\ \A t \in Threads : login[t].pc \in {"ask", "persist"} =>
            Secret(t).owner = UserOf[login[t].account]

-----------------------------------------------------------------------------
CanLog == CanOpenLog(world.ids, world.logOwners, world.logDirOwner, world.logDir)

\* Why a message of the call may be lost.
Excused(t) ==
  \/ world.logTo = "home" /\ login[t].account # NoAccount /\ ~OwnLogIsOpen(t)
  \/ ~CanLog

LogOwnersInv ==
  /\ \A dir \in DOMAIN world.logOwners :
       dir \in DOMAIN logOwners /\ logOwners[dir] = world.logOwners[dir]
  /\ log.derivedFromHome => world.logTo = "home"
  /\ \A t \in Threads :
       login[t].pc \in {"movingLog", "movingOwnLog"} => world.logTo = "home"
  /\ ~overlapped /\ CanLog /\ world.logTo # "stderr" =>
       /\ CanOpenLog(world.ids, logOwners, world.logDirOwner, world.logDir)
       /\ (\E t \in Threads : login[t].pc \notin {"start", "configuring"})
            => world.logDir \in DOMAIN logOwners

\* The logs of the call: the process's, and its account's.
LogsOf(t) == {world.logDir} \union ({login[t].account} \ {NoAccount})

SaidInv ==
  /\ log.output # NoFile
  /\ \A t \in Threads : Call(t) = NoCall => login[t].said = {}
  /\ ~overlapped => \A t \in Threads :
       /\ login[t].said \subseteq {Stderr, Lost} \union LogsOf(t)
       /\ Lost \in login[t].said => Excused(t)
       /\ t \in Running => log.file \in {NoFile} \union LogsOf(t)
       /\ t \in Running /\ login[t].pc \notin Moving /\ WhereMessagesGo(log) = Lost
            => Excused(t)

-----------------------------------------------------------------------------
\* What entitles a call to be let in.
Entitled(t) ==
  /\ SecretPath(t) \in DOMAIN secrets
  /\ \/ Params(t).gracePeriod > 0 /\ Secret(t).recent
     \/ \E code \in Secret(t).codes :
          \/ AnswerIs(t, code)
          \/ Params(t).passMode # "prompt"
               /\ \E rest \in Texts : Call(t).authtok = Then(rest, code)

\* The password without a code that was verified.
IsForwarded(t, password) ==
  /\ SecretPath(t) \in DOMAIN secrets
  /\ Params(t).forwardPass
  /\ \E code \in Secret(t).codes : Call(t).authtok = Then(password, code)

Unanswered == PCs \ {"persist", "restore", "restoreGroup", "done"}

CodeInv ==
  \A t \in Threads :
    /\ login[t].pc = "persist" => Entitled(t)
    /\ login[t].rc = "success" /\ Call(t).user # "" => Entitled(t)
    /\ login[t].pc \in Unanswered =>
         login[t].rc = "none" /\ (Call(t) # NoCall => login[t].authtok = Call(t).authtok)
    /\ Call(t) # NoCall /\ login[t].authtok # Call(t).authtok
         => IsForwarded(t, login[t].authtok)

-----------------------------------------------------------------------------
\* The file is as it was or as some call has left it.
IsLeftBy(path, u) ==
  /\ SecretPath(u) = path
  /\ secrets[path].owner = UserOf[login[u].account]
  /\ secrets[path].mode = LeftMode(u)

PathInv ==
  \A path \in DOMAIN secrets :
    /\ secrets[path].kind = world.secrets[path].kind
    /\ secrets[path].parses = world.secrets[path].parses
    /\ ~overlapped =>
         \/ /\ secrets[path].owner = world.secrets[path].owner
            /\ secrets[path].mode = world.secrets[path].mode
         \/ \E u \in Looked : IsLeftBy(path, u)

\* Nothing is in the way of the call.
IsWelcome(t) ==
  login[t].account # NoAccount /\ IsSetUp(t) /\ ShareFile(t) /\ CodeReply(t)

\* So it is on its way to be let in.
ReplyInv ==
  ~overlapped => \A t \in Threads :
    /\ login[t].pc \in {"ask", "persist"} => Secret(t).inode = login[t].inode
    /\ IsWelcome(t) => login[t].rc = (IF login[t].pc \in {"restore", "restoreGroup", "done"}
                                     THEN "success" ELSE "none")

-----------------------------------------------------------------------------
(***************************************************************************)
(* Types and places.                                                       *)
(***************************************************************************)

LEMMA WorldFacts ==
  ASSUME world \in Worlds
  PROVE  /\ world.ids \in Ids
         /\ world.ids.euid \in {world.ids.uid, world.ids.suid}
         /\ world.ids.egid \in {world.ids.gid, world.ids.sgid}
         /\ world.known \subseteq Accounts
         /\ world.logTo \in PlacesToLog
         /\ world.logTo # "stderr" => world.logDir \notin {Stderr, Lost, NoFile}
         /\ world.logDir \in Accounts => world.logDirOwner = UserOf[world.logDir]
         /\ world.logOwners \in [DOMAIN world.logOwners -> Nat]
         /\ world.secrets \in [DOMAIN world.secrets -> SecretFile]
         /\ \A t \in Threads : Call(t) # NoCall =>
              /\ Call(t).args \in Seq(Range(Call(t).args))
              /\ \A arg \in Range(Call(t).args) :
                   arg.name = "allowed_perm" => arg.value \in Nat \union {Unparsed}
              /\ Call(t).password \in Texts /\ Call(t).authtok \in Texts
              /\ Call(t).answer \in Texts \union {NoAnswer}
BY ProcessAssumption DEF Call

-----------------------------------------------------------------------------
(***************************************************************************)
(* The arguments.                                                          *)
(***************************************************************************)

\* A set of natural numbers that is not empty has a least element.
LEMMA LeastElement ==
  ASSUME NEW T \in SUBSET Nat, T # {}
  PROVE  \E x \in T : \A y \in T : x <= y
<1> DEFINE R == OpToRel(<, Nat)
<1>1. IsWellFoundedOn(R, Nat)
  BY NatLessThanWellFounded
<1>2. \A x, y \in Nat : x < y => <<x, y>> \in R
  BY Zenon DEF OpToRel
<1> HIDE DEF R
<1>3. \E x \in T : \A y \in T : ~ (<<y, x>> \in R)
  BY <1>1, WFMin, Zenon
<1>4. PICK x \in T : \A y \in T : ~ (<<y, x>> \in R)
  BY <1>3
<1>5. \A y \in T : ~ (y < x)
  BY <1>2, <1>4, Zenon
<1> QED
  BY <1>5

\* Induction, for a set of natural numbers.
LEMMA NatSetInduction ==
  ASSUME NEW S, 0 \in S, \A n \in Nat : n \in S => n + 1 \in S
  PROVE  Nat \subseteq S
<1>1. SUFFICES ASSUME Nat \ S # {} PROVE FALSE
  OBVIOUS
<1>2. PICK n \in Nat \ S : \A m \in Nat \ S : n <= m
  BY <1>1, LeastElement
<1> QED
  BY <1>2

\* The greatest of some numbers is one of them.
LEMMA MaxIsGreatest ==
  ASSUME NEW S \in SUBSET Int, NEW n \in S, \A y \in S : y <= n
  PROVE  Max(S) = n
<1>1. n \in Int /\ \A y \in S : n >= y
  OBVIOUS
<1>2. ASSUME NEW x \in S, \A y \in S : x >= y
      PROVE  x = n
  <2>1. x \in Int /\ x >= n /\ x <= n
    BY <1>1, <1>2
  <2> QED
    BY <1>1, <2>1
<1> QED
  BY <1>1, <1>2 DEF Max

\* What ParseParams has so far allows a mode that is a number.
AllowsNumber(params) ==
  "allowedPerm" \in DOMAIN params /\ params.allowedPerm \in Int

\* One argument sets a mode that is a number, or leaves the one there is.
LEMMA ArgumentKeepsNumber ==
  ASSUME NEW params, AllowsNumber(params), NEW arg,
         arg.name = "allowed_perm" => arg.value \in Nat \union {Unparsed}
  PROVE  AllowsNumber(WithArgument(params, arg))
BY DEF AllowsNumber, WithArgument, TemplateNames, Unparsed

\* The number stays one from argument to argument (ParseParams).
LEMMA AllowedPermIsNumber ==
  ASSUME NEW args, args \in Seq(Range(args)),
         \A arg \in Range(args) :
           arg.name = "allowed_perm" => arg.value \in Nat \union {Unparsed}
  PROVE  ParseParams(args).allowedPerm \in Int
<1> DEFINE K == Len(args)
           Take(a, i) == WithArgument(a, args[i])
           Value(it, t) == IF t = {} THEN DefaultParams
                           ELSE Take(it[t \ {Max(t)}], Max(t))
           IsFold(k, it) == it = [t \in SUBSET (1 .. k) |-> Value(it, t)]
           HasFold(k) == \E it : IsFold(k, it)
           Foldable == {k \in Nat : HasFold(k)}
<1>1. /\ K \in Nat /\ DOMAIN args = 1 .. K
      /\ \A i \in 1 .. K : args[i] \in Range(args)
  BY DEF Range
<1> HIDE DEF K, Take
<1>2. HasFold(0)
  <2> DEFINE it == [t \in SUBSET (1 .. 0) |-> DefaultParams]
  <2>1. \A t \in SUBSET (1 .. 0) : t = {}
    OBVIOUS
  <2>2. IsFold(0, it)
    BY <2>1
  <2> QED
    BY <2>2
<1>3. ASSUME NEW k \in Nat, HasFold(k)
      PROVE  HasFold(k + 1)
  <2>1. PICK it : IsFold(k, it)
    BY <1>3
  <2> DEFINE q == [t \in SUBSET (1 .. k + 1) |->
                    IF k + 1 \in t THEN Take(it[t \ {k + 1}], k + 1) ELSE it[t]]
  <2>2. ASSUME NEW t \in SUBSET (1 .. k + 1)
        PROVE  q[t] = Value(q, t)
    <3>1. CASE k + 1 \in t
      <4>1. Max(t) = k + 1
        <5>1. t \in SUBSET Int /\ \A y \in t : y <= k + 1
          OBVIOUS
        <5> QED
          BY <3>1, <5>1, MaxIsGreatest
      <4>2. t \ {k + 1} \in SUBSET (1 .. k + 1) /\ k + 1 \notin t \ {k + 1}
        OBVIOUS
      <4>3. q[t \ {k + 1}] = it[t \ {k + 1}]
        BY <4>2
      <4>4. q[t] = Take(it[t \ {k + 1}], k + 1)
        BY <3>1
      <4> QED
        BY <3>1, <4>1, <4>3, <4>4
    <3>2. CASE k + 1 \notin t
      <4>1. t \in SUBSET (1 .. k)
        BY <3>2
      <4>2. q[t] = it[t]
        BY <3>2
      <4> HIDE DEF q
      <4>3. it[t] = Value(it, t)
        BY <2>1, <4>1
      <4>4. CASE t = {}
        BY <4>2, <4>3, <4>4
      <4>5. CASE t # {}
        <5>1. t \ {Max(t)} \in SUBSET (1 .. k + 1) /\ k + 1 \notin t \ {Max(t)}
          BY <3>2
        <5>2. q[t \ {Max(t)}] = it[t \ {Max(t)}]
          BY <5>1 DEF q
        <5> QED
          BY <4>2, <4>3, <4>5, <5>2
      <4> QED
        BY <4>4, <4>5
    <3> QED
      BY <3>1, <3>2
  <2>3. IsFold(k + 1, q)
    BY <2>2
  <2> QED
    BY <2>3
<1> HIDE DEF HasFold
<1>4. HasFold(K)
  <2>1. 0 \in Foldable /\ \A n \in Nat : n \in Foldable => n + 1 \in Foldable
    BY <1>2, <1>3
  <2> HIDE DEF Foldable
  <2>2. Nat \subseteq Foldable
    BY <2>1, NatSetInduction
  <2> QED
    BY <1>1, <2>2 DEF Foldable
<1> DEFINE fold == CHOOSE it : IsFold(K, it)
<1>5. IsFold(K, fold)
  BY <1>4 DEF HasFold
<1>6. FoldLeft(WithArgument, DefaultParams, args) = fold[1 .. K]
  <2>1. FoldLeft(WithArgument, DefaultParams, args) = fold[DOMAIN args]
    BY <1>1 DEF FoldLeft, MapThenFoldSet, Take
  <2> QED
    BY <1>1, <2>1
<1> HIDE DEF fold
<1> DEFINE Numbered == {n \in Nat : n <= K => AllowsNumber(fold[1 .. n])}
<1>7. 0 \in Numbered
  <2>1. 1 .. 0 = {} /\ {} \in SUBSET (1 .. K)
    BY <1>1
  <2>2. fold[{}] = DefaultParams
    BY <1>5, <2>1
  <2>3. AllowsNumber(DefaultParams)
    BY DEF AllowsNumber, DefaultParams, OwnerOnly
  <2> QED
    BY <2>1, <2>2, <2>3
<1>8. ASSUME NEW n \in Nat, n \in Numbered
      PROVE  n + 1 \in Numbered
  <2> SUFFICES ASSUME n + 1 <= K
               PROVE  AllowsNumber(fold[1 .. n + 1])
    OBVIOUS
  <2>1. /\ n + 1 \in 1 .. K /\ 1 .. n + 1 \in SUBSET (1 .. K) /\ 1 .. n + 1 # {}
        /\ (1 .. n + 1) \ {n + 1} = 1 .. n
    <3>1. n + 1 \in 1 .. K
      BY <1>1
    <3>2. 1 .. n + 1 \in SUBSET (1 .. K) /\ n + 1 \in 1 .. n + 1
      BY <1>1
    <3>3. (1 .. n + 1) \ {n + 1} = 1 .. n
      OBVIOUS
    <3> QED
      BY <3>1, <3>2, <3>3
  <2>2. Max(1 .. n + 1) = n + 1
    <3>1. 1 .. n + 1 \in SUBSET Int /\ n + 1 \in 1 .. n + 1
          /\ \A y \in 1 .. n + 1 : y <= n + 1
      OBVIOUS
    <3> QED
      BY <3>1, MaxIsGreatest
  <2>3. fold[1 .. n + 1] = WithArgument(fold[1 .. n], args[n + 1])
    BY <1>5, <2>1, <2>2 DEF Take
  <2>4. AllowsNumber(fold[1 .. n])
    BY <1>1, <1>8
  <2> QED
    BY <1>1, <2>1, <2>3, <2>4, ArgumentKeepsNumber
<1>9. AllowsNumber(fold[1 .. K])
  <2> HIDE DEF Numbered
  <2>1. Nat \subseteq Numbered
    BY <1>7, <1>8, NatSetInduction
  <2> QED
    BY <1>1, <2>1 DEF Numbered
<1> DEFINE params == FoldLeft(WithArgument, DefaultParams, args)
<1>10. AllowsNumber(params)
  BY <1>6, <1>9
<1>11. ParseParams(args)
         = IF params.forwardPass /\ ~params.promptOverride
           THEN [params EXCEPT !.prompt = "password and code"] ELSE params
  BY DEF ParseParams
<1> HIDE DEF params
<1> QED
  BY <1>10, <1>11 DEF AllowsNumber

\* What Chmod leaves of the mode of a call is one of a file.
LEMMA LeftModeType ==
  ASSUME world \in Worlds, NEW t \in Threads, Call(t) # NoCall
  PROVE  LeftMode(t) \in 0 .. 511
<1>1. Params(t).allowedPerm \in Int
  BY WorldFacts, AllowedPermIsNumber DEF Params
<1> QED
  BY <1>1 DEF LeftMode

-----------------------------------------------------------------------------
(***************************************************************************)
(* What one call changes.                                                  *)
(***************************************************************************)

\* The text a code is taken from is the rest followed by the code.
LEMMA ExtractOTPSplits ==
  ASSUME NEW text \in Texts, HasOTP(text)
  PROVE  /\ ExtractOTP(text).rest \in Texts
         /\ Then(ExtractOTP(text).rest, ExtractOTP(text).code) = text
<1> DEFINE n == Len(text.digits) - 1
           rest == SubSeq(text.digits, 1, n)
           code == SubSeq(text.digits, n + 1, Len(text.digits))
<1>1. /\ EndsInDigits(text, 6) /\ text.digits \in Seq(Pairs \union Sixes)
      /\ Len(text.digits) \in 1 .. 3
  BY DEF HasOTP, EndsInDigits, Texts, Digits
<1>2. ExtractOTP(text) = [code |-> code, rest |-> [text EXCEPT !.digits = rest]]
  BY <1>1 DEF ExtractOTP, SplitDigits
<1>3. rest \o code = text.digits
  BY <1>1
<1>4. rest \in Digits
  <2>1. CASE Len(text.digits) = 1
    <3>1. rest = << >>
      BY <1>1, <2>1
    <3> QED
      BY <3>1 DEF Digits
  <2>2. CASE Len(text.digits) = 2
    <3>1. rest = <<text.digits[1]>>
      <4>1. Len(rest) = 1 /\ rest[1] = text.digits[1] /\ rest \in Seq(Pairs \union Sixes)
        BY <1>1, <2>2
      <4> HIDE DEF rest
      <4> QED
        BY <1>1, <4>1, SeqEqual
    <3>2. text.digits[1] \in Pairs \union Sixes
      BY <1>1, <2>2
    <3> QED
      BY <3>1, <3>2 DEF Digits
  <2>3. CASE Len(text.digits) = 3
    <3>1. rest = <<text.digits[1], text.digits[2]>>
      <4>1. /\ Len(rest) = 2 /\ rest[1] = text.digits[1] /\ rest[2] = text.digits[2]
            /\ rest \in Seq(Pairs \union Sixes)
        BY <1>1, <2>3
      <4> HIDE DEF rest
      <4> QED
        BY <1>1, <4>1, SeqEqual
    <3>2. text.digits \in (Pairs \X Pairs \X Sixes) \union (Sixes \X Pairs \X Sixes)
      BY <2>3 DEF Texts, Digits
    <3>3. text.digits[1] \in Pairs \union Sixes /\ text.digits[2] \in Pairs
      BY <3>2
    <3> QED
      BY <3>1, <3>3 DEF Digits
  <2> QED
    BY <1>1, <2>1, <2>2, <2>3
<1> HIDE DEF rest, code
<1>5. ExtractOTP(text).code = code
  BY <1>2
<1>6. /\ ExtractOTP(text).rest = [text EXCEPT !.digits = rest]
      /\ ExtractOTP(text).rest \in Texts
  BY <1>2, <1>4 DEF Texts
<1>7. [[text EXCEPT !.digits = rest] EXCEPT !.digits = rest \o code] = text
  BY <1>3 DEF Texts
<1> QED
  BY <1>5, <1>6, <1>7, <1>3 DEF Then, Texts

\* What a step of one call leaves alone, and what ending it changes.
OthersStay(t) == \A u \in Threads \ {t} : login'[u] = login[u]

LEMMA GotoChanges ==
  ASSUME NEW t \in Threads, login \in [Threads -> Logins],
         NEW place \in PCs, Goto(t, place)
  PROVE  /\ login' \in [Threads -> Logins] /\ OthersStay(t)
         /\ login'[t] = [login[t] EXCEPT !.pc = place]
BY DEF Goto, Logins, OthersStay

Ended(r, answer, said) ==
  [r EXCEPT !.pc = IF r.dropped THEN "restore" ELSE "done",
            !.rc = answer, !.said = said]

LEMMA EndsChanges ==
  ASSUME NEW t \in Threads, login \in [Threads -> Logins],
         NEW answer \in Answers, NEW said, said \subseteq Outputs, Ends(t, answer, said)
  PROVE  /\ login' \in [Threads -> Logins] /\ OthersStay(t)
         /\ login'[t] = Ended(login[t], answer, said)
<1>1. login' = [login EXCEPT ![t] = Ended(login[t], answer, said)]
  BY DEF Ends, Logins, Ended
<1>2. Ended(login[t], answer, said) \in Logins
  BY DEF Logins, PCs, Ended
<1> QED
  BY <1>1, <1>2 DEF OthersStay

LEMMA Becomes ==
  ASSUME NEW t \in Threads, login \in [Threads -> Logins],
         NEW r \in Logins, login' = [login EXCEPT ![t] = r]
  PROVE  login' \in [Threads -> Logins] /\ OthersStay(t) /\ login'[t] = r
BY DEF OthersStay

LEMMA SayingIsOutput ==
  ASSUME NEW t \in Threads, login \in [Threads -> Logins], log \in Loggers
  PROVE  Saying(t) \in SUBSET Outputs
BY DEF Saying, WhereMessagesGo, Logins, Loggers, Outputs

\* Steps that change nothing but the variables of their call.
Quiet(t) ==
  \/ ParseArguments(t) \/ NoUserName(t) \/ LookUp(t)
  \/ ReadUser(t) \/ ReadGroup(t) \/ NothingToDrop(t)
  \/ Load(t) \/ Grace(t)
  \/ FromPassword(t) \/ NoCodeInPassword(t) \/ Prompt(t)
  \/ NothingToWrite(t) \/ CannotReplace(t)

LEMMA QuietStays ==
  ASSUME NEW t, Quiet(t)
  PROVE  UNCHANGED <<world, ids, log, logOwners, secrets, overlapped>>
BY DEF Quiet, ParseArguments, NoUserName, LookUp, ReadUser, ReadGroup, NothingToDrop,
   Load, Grace, FromPassword, NoCodeInPassword, Prompt, NothingToWrite, CannotReplace

LEMMA EndIsPlaced ==
  ASSUME NEW t \in Threads, TypeInv, PlaceOf(t), world' = world,
         login[t].pc \in {"parse", "account", "compare", "putBack"} \union Settled,
         NEW answer \in Answers, NEW said, said \subseteq Outputs, Ends(t, answer, said)
  PROVE  /\ login' \in [Threads -> Logins] /\ OthersStay(t) /\ PlaceOf(t)'
         /\ login'[t].rc = answer /\ login'[t].said = said
         /\ login'[t].pc = (IF login[t].dropped THEN "restore" ELSE "done")
         /\ login'[t].account = login[t].account /\ login'[t].orig = login[t].orig
         /\ login'[t].dropped = login[t].dropped /\ login'[t].authtok = login[t].authtok
<1>1. login \in [Threads -> Logins] /\ login[t] \in Logins
  BY DEF TypeInv
<1>2. /\ login' \in [Threads -> Logins] /\ OthersStay(t)
      /\ login'[t] = Ended(login[t], answer, said)
  BY <1>1, EndsChanges
<1> QED
  BY <1>1, <1>2 DEF Ended, Logins, PlaceOf, Nameless, Unread, Early, Settled, Call

\* Where a step leaves its own call.
IsPlaced(t) ==
  /\ login' \in [Threads -> Logins]
  /\ OthersStay(t)
  /\ PlaceOf(t)'

\* What such a step makes of its own call.
QuietMove(t) ==
  LET old == login[t]
      new == login'[t]
  IN  /\ new.dropped = old.dropped /\ new.said \subseteq Saying(t)
      /\ old.pc # "ask" => new.authtok = old.authtok
      /\ new.pc \notin {"restore", "done"} => new.rc = old.rc
      /\ new.rc = "success" => new.rc = old.rc \/ old.pc = "persist" \/ Call(t).user = ""
      /\ \/ /\ old.pc \in {"parse", "account", "load", "ask", "persist"}
            /\ new.pc = (IF old.dropped THEN "restore" ELSE "done")
            /\ new.account = old.account /\ new.orig = old.orig
         \/ /\ old.pc = "parse" /\ new.pc = "account"
            /\ new.account = old.account /\ new.orig = old.orig
         \/ old.pc = "account" /\ new.pc = "moveLog" /\ new.orig = old.orig
         \/ /\ old.pc = "drop" /\ new.pc = "readGroup" /\ new.account = old.account
            /\ new.orig.user = ids.euid /\ new.orig.group = old.orig.group
         \/ /\ old.pc = "readGroup" /\ new.pc = "compare" /\ new.account = old.account
            /\ new.orig.user = old.orig.user /\ new.orig.group = ids.egid
         \/ /\ old.pc = "compare" /\ ActsAs(old.orig, Wanted(t)) /\ new.pc = "moveOwnLog"
            /\ new.account = old.account /\ new.orig = old.orig
         \/ /\ old.pc = "load" /\ Loads(t) /\ new.pc = "ask"
            /\ new.inode = Secret(t).inode
            /\ new.account = old.account /\ new.orig = old.orig
         \/ /\ old.pc = "ask" /\ new.pc = "persist" /\ new.inode = old.inode
            /\ new.account = old.account /\ new.orig = old.orig

LEMMA QuietIsPlaced ==
  ASSUME NEW t \in Threads, TypeInv, PlaceOf(t), Quiet(t)
  PROVE  IsPlaced(t) /\ QuietMove(t)
<1>1. /\ login \in [Threads -> Logins] /\ login[t] \in Logins /\ world' = world
      /\ Call(t)' = Call(t)
  BY QuietStays DEF TypeInv, Call
<1>2. /\ Saying(t) \subseteq Outputs /\ login[t].said \subseteq Outputs
      /\ \A answer \in Answers : /\ EndsSaying(t, answer) => Ends(t, answer, Saying(t))
                                /\ EndsSilently(t, answer) => Ends(t, answer, login[t].said)
  BY <1>1, SayingIsOutput DEF TypeInv, Logins, EndsSaying, EndsSilently
<1>18. login[t].said \subseteq Saying(t)
  BY DEF Saying
<1>3. /\ {"none", "success", "ignore", "denied", "serviceErr"} \subseteq Answers
      /\ {"account", "moveLog", "readGroup", "compare", "moveOwnLog", "ask", "persist"}
           \subseteq PCs
  BY DEF Answers, PCs
<1>4. Call(t) # NoCall \/ login[t].pc = "start"
  BY DEF PlaceOf
<1>5. ASSUME NEW answer \in Answers, EndsSaying(t, answer) \/ EndsSilently(t, answer),
             login[t].pc \in {"parse", "account", "load", "ask", "persist"},
             answer = "success" => login[t].pc = "persist" \/ Call(t).user = ""
      PROVE  IsPlaced(t) /\ QuietMove(t)
  <2>1. PICK said \in {Saying(t), login[t].said} : Ends(t, answer, said)
    BY <1>5 DEF EndsSaying, EndsSilently
  <2>2. said \subseteq Outputs /\ said \subseteq Saying(t)
    BY <1>2 DEF Saying
  <2> QED
    <3>1. /\ IsPlaced(t) /\ login'[t].rc = answer /\ login'[t].said = said
          /\ login'[t].pc = (IF login[t].dropped THEN "restore" ELSE "done")
          /\ login'[t].account = login[t].account /\ login'[t].orig = login[t].orig
          /\ login'[t].dropped = login[t].dropped /\ login'[t].authtok = login[t].authtok
      <4>1. login[t].pc \in {"parse", "account", "compare", "putBack"} \union Settled
        BY <1>5 DEF Settled
      <4> QED
        BY <1>1, <2>1, <2>2, <4>1, EndIsPlaced DEF IsPlaced
    <3> QED
      BY <1>5, <2>2, <3>1 DEF QuietMove
<1>6. CASE ParseArguments(t)
  <2>1. CASE Goto(t, "account")
    <3>1. /\ login' \in [Threads -> Logins] /\ OthersStay(t)
          /\ login'[t] = [login[t] EXCEPT !.pc = "account"]
      BY <1>1, <1>3, <2>1, GotoChanges
    <3> QED
      BY <1>1, <1>18, <1>6, <3>1
         DEF ParseArguments, IsPlaced, QuietMove, PlaceOf, Logins, Nameless, Unread, Early
  <2> QED
    BY <1>3, <1>5, <1>6, <2>1 DEF ParseArguments
<1>7. CASE NoUserName(t)
  BY <1>3, <1>5, <1>7 DEF NoUserName
<1>8. CASE LookUp(t)
  <2>1. ASSUME NEW account \in Accounts, NEW said, said \subseteq Outputs,
               said \subseteq Saying(t),
               login' = [login EXCEPT ![t].pc = "moveLog", ![t].account = account,
                                      ![t].said = said]
        PROVE  IsPlaced(t) /\ QuietMove(t)
    <3> DEFINE r == [login[t] EXCEPT !.pc = "moveLog", !.account = account, !.said = said]
    <3>1. login' = [login EXCEPT ![t] = r]
      BY <1>1, <2>1 DEF Logins
    <3>2. r \in Logins
      BY <1>1, <1>3, <2>1 DEF Logins
    <3> HIDE DEF r
    <3>3. login' \in [Threads -> Logins] /\ OthersStay(t) /\ login'[t] = r
      BY <1>1, <3>1, <3>2, Becomes
    <3> QED
      BY <1>1, <2>1, <1>4, <1>8, <3>3
         DEF r, LookUp, IsPlaced, QuietMove, PlaceOf, Logins, Nameless, Unread, Early
  <2>2. world.known \subseteq Accounts
    BY WorldFacts DEF TypeInv
  <2>3. CASE TargetUser(t) \in world.known
    BY <1>2, <1>18, <1>8, <2>1, <2>2, <2>3 DEF LookUp
  <2>4. CASE TargetUser(t) \notin world.known /\ HasFallback
    BY <1>2, <1>18, <1>8, <2>1, <2>2, <2>4 DEF LookUp, HasFallback
  <2> QED
    BY <1>3, <1>5, <1>8, <2>3, <2>4 DEF LookUp
<1>9. CASE ReadUser(t) \/ ReadGroup(t)
  <2>1. Effective(ids).user \in Nat /\ Effective(ids).group \in Nat
    BY DEF TypeInv, Ids, Effective
  <2> DEFINE r == [login[t] EXCEPT !.pc = "readGroup", !.orig.user = Effective(ids).user]
             q == [login[t] EXCEPT !.pc = "compare", !.orig.group = Effective(ids).group]
             new == IF login[t].pc = "drop" THEN r ELSE q
  <2>2. r \in Logins /\ q \in Logins
    BY <1>1, <1>3, <2>1 DEF Logins
  <2>3. login' = [login EXCEPT ![t] = new]
    <3>1. CASE ReadUser(t)
      BY <1>1, <3>1 DEF Logins, ReadUser
    <3>2. CASE ReadGroup(t)
      BY <1>1, <3>2 DEF Logins, ReadGroup
    <3> QED
      BY <1>9, <3>1, <3>2
  <2>7. /\ r.orig.user = ids.euid /\ r.orig.group = login[t].orig.group
        /\ q.orig.user = login[t].orig.user /\ q.orig.group = ids.egid
    BY <1>1 DEF Logins, Effective
  <2> HIDE DEF r, q
  <2>4. login' \in [Threads -> Logins] /\ OthersStay(t) /\ login'[t] = new
    BY <1>1, <2>2, <2>3, Becomes
  <2>5. CASE ReadUser(t)
    BY <1>1, <1>18, <1>4, <2>4, <2>5, <2>7 DEF r, ReadUser, IsPlaced, QuietMove, PlaceOf,
       Logins, Nameless, Unread, Early, Effective
  <2>6. CASE ReadGroup(t)
    BY <1>1, <1>18, <1>4, <2>4, <2>6, <2>7 DEF q, ReadGroup, IsPlaced, QuietMove, PlaceOf,
       Logins, Nameless, Unread, Early, Effective
  <2> QED
    BY <1>9, <2>5, <2>6
<1>19. CASE NothingToDrop(t)
  <2>1. /\ login' \in [Threads -> Logins] /\ OthersStay(t)
        /\ login'[t] = [login[t] EXCEPT !.pc = "moveOwnLog"]
    BY <1>1, <1>3, <1>19, GotoChanges DEF NothingToDrop
  <2> QED
    BY <1>1, <1>18, <1>4, <1>19, <2>1
       DEF NothingToDrop, IsPlaced, QuietMove, PlaceOf, Logins, Nameless, Unread, Early
<1>10. CASE Load(t)
  <2>1. CASE Loads(t) /\ Rendered(t)
    <3> DEFINE r == [login[t] EXCEPT !.pc = "ask", !.inode = Secret(t).inode]
    <3>1. login' = [login EXCEPT ![t].pc = "ask", ![t].inode = Secret(t).inode]
      BY <1>10, <2>1 DEF Load, Loads
    <3>2. login' = [login EXCEPT ![t] = r]
      BY <1>1, <3>1 DEF Logins
    <3>3. r \in Logins
      <4>1. Secret(t).inode \in Nat
        BY <2>1 DEF Loads, TypeInv, Secret, SecretFile
      <4> QED
        BY <1>1, <1>3, <4>1 DEF Logins
    <3> HIDE DEF r
    <3>4. login' \in [Threads -> Logins] /\ OthersStay(t) /\ login'[t] = r
      BY <1>1, <3>2, <3>3, Becomes
    <3>5. login[t].pc = "load"
      BY <1>10 DEF Load
    <3> QED
      BY <1>1, <1>18, <1>4, <2>1, <3>4, <3>5
         DEF r, IsPlaced, QuietMove, PlaceOf, Logins, Nameless, Unread, Early
  <2>2. CASE ~(Loads(t) /\ Rendered(t))
    <3>1. /\ login[t].pc = "load"
          /\ \E answer \in Answers \ {"success"} : EndsSaying(t, answer)
      BY <1>3, <1>10, <2>2 DEF Load, Answers
    <3> QED
      BY <1>5, <3>1
  <2> QED
    BY <2>1, <2>2
<1>11. CASE Grace(t)
  <2> DEFINE r == [login[t] EXCEPT !.pc = "persist", !.said = Saying(t)]
  <2>1. login' = [login EXCEPT ![t] = r]
    BY <1>1, <1>11 DEF Logins, Grace
  <2>2. r \in Logins
    BY <1>1, <1>2, <1>3 DEF Logins
  <2> HIDE DEF r
  <2>3. login' \in [Threads -> Logins] /\ OthersStay(t) /\ login'[t] = r
    BY <1>1, <2>1, <2>2, Becomes
  <2> QED
    BY <1>1, <1>18, <1>4, <1>11, <2>3
       DEF r, Grace, IsPlaced, QuietMove, PlaceOf, Logins, Nameless, Unread, Early
<1>12. ASSUME NEW verified \in BOOLEAN, NEW rest \in Texts, Verify(t, verified, rest),
             login[t].pc = "ask"
       PROVE  IsPlaced(t) /\ QuietMove(t)
  <2> DEFINE authtok == IF Forwards(t, verified) /\ rest # EmptyText THEN rest
                        ELSE login[t].authtok
             r == [login[t] EXCEPT !.pc = "persist", !.authtok = authtok]
             q == [login[t] EXCEPT
                     !.pc = IF login[t].dropped THEN "restore" ELSE "done",
                     !.rc = "denied", !.said = Saying(t), !.authtok = authtok]
  <2>1. authtok \in Texts
    BY <1>1, <1>12 DEF Logins
  <2> HIDE DEF authtok
  <2>2. r \in Logins /\ q \in Logins
    BY <1>1, <1>2, <1>3, <2>1 DEF Logins, PCs
  <2>3. login' = [login EXCEPT ![t] = IF verified THEN r ELSE q]
    BY <1>1, <1>12 DEF Logins, Verify, authtok
  <2> HIDE DEF r, q
  <2>4. /\ login' \in [Threads -> Logins] /\ OthersStay(t)
        /\ login'[t] = IF verified THEN r ELSE q
    BY <1>1, <2>2, <2>3, Becomes
  <2> QED
    BY <1>1, <1>18, <1>4, <1>12, <2>4
       DEF r, q, IsPlaced, QuietMove, PlaceOf, Logins, Nameless, Unread, Early
<1>17. CASE FromPassword(t)
  <2> DEFINE otp == ExtractOTP(login[t].authtok)
             v == IF otp.code \in Secret(t).codes THEN TRUE ELSE FALSE
  <2>1. login[t].authtok \in Texts
    BY <1>1 DEF Logins
  <2> QED
    <3>1. Verify(t, v, otp.rest)
      BY <1>17 DEF FromPassword, Verify, Forwards
    <3>2. otp.rest \in Texts /\ login[t].pc = "ask"
      BY <1>17, <2>1, ExtractOTPSplits DEF FromPassword, TakesPassword, Asks
    <3> QED
      BY <1>12, <3>1, <3>2
<1>13. CASE NoCodeInPassword(t)
  BY <1>3, <1>5, <1>13 DEF NoCodeInPassword, Asks, Settled
<1>14. CASE Prompt(t)
  <2>1. EmptyText \in Texts
    BY DEF EmptyText, Texts, Digits
  <2> QED
    BY <1>3, <1>5, <1>12, <1>14, <2>1 DEF Prompt, Asks, Settled, IsCode
<1>15. CASE NothingToWrite(t)
  BY <1>3, <1>5, <1>15 DEF NothingToWrite, Settled
<1>16. CASE CannotReplace(t)
  BY <1>3, <1>5, <1>16 DEF CannotReplace, Settled
<1> QED
  BY <1>6, <1>7, <1>8, <1>9, <1>10, <1>11, <1>13, <1>14, <1>15, <1>16, <1>17,
     <1>19 DEF Quiet

LEMMA GotoIsPlaced ==
  ASSUME NEW t \in Threads, login \in [Threads -> Logins], PlaceOf(t), world' = world,
         Call(t) # NoCall, NEW place \in PCs, Goto(t, place),
         place \in Nameless => login[t].pc \in Nameless,
         place \in {"moveLog", "movingLog", "drop"} => login[t].pc \in Unread \ Nameless,
         place \in {"dropUser", "putBack"} => login[t].pc \in {"compare", "dropUser"},
         place \in Settled \union {"restore", "restoreGroup"}
           => login[t].pc \in Settled \union {"restore", "restoreGroup"},
         place = "restoreGroup" => login[t].pc = "restore",
         place \notin {"readGroup", "compare", "restore"}
  PROVE  IsPlaced(t)
<1>1. /\ login' \in [Threads -> Logins] /\ OthersStay(t)
      /\ login'[t] = [login[t] EXCEPT !.pc = place]
  BY GotoChanges
<1>2. login[t] \in Logins /\ login[t].pc \in PCs /\ Call(t)' # NoCall
  BY DEF Logins, Call
<1> QED
  BY <1>1, <1>2 DEF IsPlaced, PlaceOf, Logins, Nameless, Unread, Early, Settled, PCs

LEMMA IdsStay ==
  ASSUME ids \in Ids, NEW id \in Nat
  PROVE  SetUser(ids, id) \in Ids /\ SetGroup(ids, id) \in Ids
BY DEF Ids, SetUser, SetGroup

LEMMA LogFileAdded ==
  ASSUME logOwners \in [DOMAIN logOwners -> Nat], NEW dir, NEW owner \in Nat,
         logOwners' = WithLog(logOwners, dir, owner)
  PROVE  /\ DOMAIN logOwners' = DOMAIN logOwners \union {dir}
         /\ \A d \in DOMAIN logOwners : logOwners'[d] = logOwners[d]
         /\ dir \notin DOMAIN logOwners => logOwners'[dir] = owner
         /\ logOwners' \in [DOMAIN logOwners' -> Nat]
BY DEF WithLog

\* What a step does to the log.
LEMMA LogTypes ==
  ASSUME TypeInv, NEW t \in Threads, PlaceOf(t)
  PROVE  /\ Configure(t) => log' \in Loggers
         /\ Reopen(t) => log' \in Loggers
         /\ Reopen(t) => logOwners' \in [DOMAIN logOwners' -> Nat]
<1>1. log \in Loggers /\ login[t] \in Logins /\ ids.euid \in Nat
  BY DEF TypeInv, Ids
<1>2. ConfigureBegins(log, t) \in Loggers
  <2> DEFINE left == IF log.file = NoFile THEN log.handles ELSE log.handles - 1
  <2>1. left \in Int
    BY <1>1 DEF Loggers
  <2>2. ConfigureBegins(log, t) = [log EXCEPT !.mutex = t, !.file = NoFile, !.handles = left]
    BY <1>1 DEF Loggers, ConfigureBegins
  <2> QED
    BY <1>1, <2>1, <2>2 DEF Loggers
<1>6. ConfigureFails(log) \in Loggers
  BY <1>1 DEF Loggers, ConfigureFails
<1>3. ASSUME NEW dir \in Outputs \union {NoFile}, NEW home \in BOOLEAN
      PROVE  ConfigureEnds(log, dir, home) \in Loggers
  <2> DEFINE left == IF dir = NoFile THEN log.handles ELSE log.handles + 1
             output == IF dir = NoFile THEN Stderr ELSE dir
  <2>1. left \in Int /\ output \in Outputs
    BY <1>1, <1>3 DEF Loggers, Outputs
  <2>2. ConfigureEnds(log, dir, home)
          = [log EXCEPT !.mutex = NoThread, !.derivedFromHome = home, !.file = dir,
                        !.output = output, !.handles = left]
    BY <1>1 DEF Loggers, ConfigureEnds
  <2> QED
    BY <1>1, <1>3, <2>1, <2>2 DEF Loggers
<1>5. Reopen(t) => logOwners' \in [DOMAIN logOwners' -> Nat]
  BY <1>1, LogFileAdded DEF Reopen, TypeInv
<1>4. CASE Reopen(t)
  <2>1. LogTarget(t).dir \in Outputs \union {NoFile}
    BY <1>1, <1>4 DEF LogTarget, Reopen, AfterMove, PlaceOf, Nameless, Outputs
  <2>2. \/ log' = ConfigureFails(log)
        \/ \E home \in BOOLEAN : log' = ConfigureEnds(log, LogTarget(t).dir, home)
    BY <1>4 DEF Reopen
  <2>3. CASE \E home \in BOOLEAN : log' = ConfigureEnds(log, LogTarget(t).dir, home)
    <3>1. PICK home \in BOOLEAN : log' = ConfigureEnds(log, LogTarget(t).dir, home)
      BY <2>3
    <3>2. log' \in Loggers
      BY <1>3, <2>1, <3>1
    <3> QED
      BY <1>4, <1>5, <3>2 DEF Reopen, Configure
  <2> QED
    BY <1>4, <1>5, <1>6, <2>2, <2>3
<1> QED
  BY <1>2, <1>4, <1>5 DEF Configure, Reopen

LEMMA StepIsPlaced ==
  ASSUME TypeInv, PlaceInv, NEW t \in Threads, Step(t)
  PROVE  world' = world /\ IsPlaced(t)
<1>1. /\ login \in [Threads -> Logins] /\ login[t] \in Logins /\ PlaceOf(t)
      /\ world' = world
  BY DEF TypeInv, PlaceInv, Step, Start, Began, Reopen, UpdateHome, ParseArguments,
     NoUserName, LookUp, ReadUser, ReadGroup, NothingToDrop, DropGroup, DropUser,
     PutBack, RestoreUser, RestoreGroup, Load, Grace, FromPassword, NoCodeInPassword,
     Prompt, NothingToWrite, Replace, CannotReplace
<1>2. CASE Quiet(t)
  BY <1>1, <1>2, QuietIsPlaced
<1>3. /\ Saying(t) \subseteq Outputs
      /\ {"success", "serviceErr"} \subseteq Answers
  BY <1>1, SayingIsOutput DEF TypeInv, Answers
<1>4. Call(t) # NoCall \/ login[t].pc = "start"
  BY <1>1 DEF PlaceOf
<1>5. ASSUME EndsSaying(t, "serviceErr") \/ EndsSaying(t, "success"),
             login[t].pc \in {"parse", "account", "compare", "putBack"} \union Settled
      PROVE  IsPlaced(t)
  <2>1. Ends(t, "serviceErr", Saying(t)) \/ Ends(t, "success", Saying(t))
    BY <1>5 DEF EndsSaying
  <2> QED
    BY <1>1, <1>3, <1>5, <2>1, EndIsPlaced DEF IsPlaced
<1>6. CASE Start(t)
  BY <1>1, <1>6, GotoIsPlaced DEF Start, Nameless, Unread, Early, Settled, PCs
<1>7. CASE Reopen(t)
  <2>1. CASE login[t].pc = "configuring"
    BY <1>1, <1>4, <1>7, <2>1, GotoIsPlaced DEF Reopen, AfterMove, Nameless, Unread,
       Early, Settled, PCs
  <2>2. CASE login[t].pc = "movingLog"
    BY <1>1, <1>4, <1>7, <2>2, GotoIsPlaced DEF Reopen, AfterMove, Nameless, Unread,
       Early, Settled, PCs
  <2>3. CASE login[t].pc = "movingOwnLog"
    BY <1>1, <1>4, <1>7, <2>3, GotoIsPlaced DEF Reopen, AfterMove, Nameless, Unread,
       Early, Settled, PCs
  <2> QED
    BY <1>7, <2>1, <2>2, <2>3 DEF Reopen, AfterMove
<1>8. CASE login[t].pc = "moveLog" /\ UpdateHome(t, "movingLog", "drop")
  BY <1>1, <1>4, <1>8, GotoIsPlaced DEF UpdateHome, Nameless, Unread, Early, Settled, PCs
<1>9. CASE login[t].pc = "moveOwnLog" /\ UpdateHome(t, "movingOwnLog", "load")
  BY <1>1, <1>4, <1>9, GotoIsPlaced DEF UpdateHome, Nameless, Unread, Early, Settled, PCs
<1>10. CASE DropGroup(t)
  <2>1. CASE EndsSaying(t, "serviceErr")
    BY <1>5, <1>10, <2>1 DEF DropGroup
  <2>2. CASE Goto(t, "dropUser")
    BY <1>1, <1>4, <1>10, <2>2, GotoIsPlaced
       DEF DropGroup, Nameless, Unread, Early, Settled, PCs
  <2> QED
    BY <1>10, <2>1, <2>2 DEF DropGroup
<1>11. CASE DropUser(t)
  <2>1. CASE Goto(t, "putBack")
    BY <1>1, <1>4, <1>11, <2>1, GotoIsPlaced
       DEF DropUser, Nameless, Unread, Early, Settled, PCs
  <2>2. CASE login' = [login EXCEPT ![t].pc = "moveOwnLog", ![t].dropped = TRUE]
    <3> DEFINE r == [login[t] EXCEPT !.pc = "moveOwnLog", !.dropped = TRUE]
    <3>1. login' = [login EXCEPT ![t] = r]
      BY <1>1, <2>2 DEF Logins
    <3>2. r \in Logins
      BY <1>1 DEF Logins, PCs
    <3> HIDE DEF r
    <3>3. login' \in [Threads -> Logins] /\ OthersStay(t) /\ login'[t] = r
      BY <1>1, <3>1, <3>2, Becomes
    <3> QED
      BY <1>1, <1>4, <1>11, <3>3
         DEF r, DropUser, IsPlaced, PlaceOf, Logins, Nameless, Unread, Early, Call
  <2> QED
    BY <1>11, <2>1, <2>2 DEF DropUser
<1>15. CASE PutBack(t)
  BY <1>5, <1>15 DEF PutBack
<1>12. CASE RestoreUser(t)
  BY <1>1, <1>4, <1>12, GotoIsPlaced DEF RestoreUser, Nameless, Unread, Early, Settled, PCs
<1>13. CASE RestoreGroup(t)
  BY <1>1, <1>4, <1>13, GotoIsPlaced DEF RestoreGroup, Nameless, Unread, Early, Settled, PCs
<1>14. CASE Replace(t)
  BY <1>5, <1>14 DEF Replace, Settled
<1> QED
  BY <1>1, <1>2, <1>6, <1>7, <1>8, <1>9, <1>10, <1>11, <1>12, <1>13, <1>14,
     <1>15 DEF Step, Quiet

LEMMA StepKeepsTypes ==
  ASSUME TypeInv, PlaceInv, NEW t \in Threads, Step(t)
  PROVE  TypeInv' /\ PlaceInv'
<1>1. world' = world /\ IsPlaced(t)
  BY StepIsPlaced
<1>2. PlaceInv'
  BY <1>1 DEF IsPlaced, PlaceInv, PlaceOf, OthersStay, Call
<1>3. overlapped' \in BOOLEAN
  BY QuietStays DEF TypeInv, Step, Quiet, Start, Began, Reopen, UpdateHome, DropGroup,
     DropUser, PutBack, RestoreUser, RestoreGroup, Replace
<1>4. ids' \in Ids
  <2>1. /\ login[t] \in Logins /\ ids \in Ids
        /\ login[t].account \in Accounts => Wanted(t).user \in Nat /\ Wanted(t).group \in Nat
    BY ProcessAssumption DEF TypeInv, Logins, Wanted
  <2>2. /\ SetUser(ids, login[t].orig.user) \in Ids
        /\ SetGroup(ids, login[t].orig.group) \in Ids
    BY <2>1, IdsStay DEF Logins
  <2>3. login[t].pc \in {"compare", "dropUser"} => login[t].account \in Accounts
    BY DEF PlaceInv, PlaceOf, Nameless
  <2>4. CASE DropGroup(t)
    BY <2>1, <2>3, <2>4, IdsStay DEF DropGroup
  <2>5. CASE DropUser(t)
    BY <2>1, <2>3, <2>5, IdsStay DEF DropUser
  <2>6. CASE PutBack(t)
    BY <2>2, <2>6 DEF PutBack, GroupPutBack
  <2> QED
    BY <2>1, <2>2, <2>4, <2>5, <2>6, QuietStays DEF Step, Quiet, Start, Began, Reopen,
       UpdateHome, RestoreUser, RestoreGroup, Replace
<1>5. log' \in Loggers /\ logOwners' \in [DOMAIN logOwners' -> Nat]
  <2>1. log \in Loggers /\ logOwners \in [DOMAIN logOwners -> Nat] /\ PlaceOf(t)
    BY DEF TypeInv, PlaceInv
  <2>2. CASE Configure(t) /\ UNCHANGED logOwners
    BY <2>1, <2>2, LogTypes
  <2>3. CASE Reopen(t)
    BY <2>1, <2>3, LogTypes
  <2>4. CASE UNCHANGED <<log, logOwners>>
    BY <1>1, <2>1, <2>4 DEF Loggers, Outputs
  <2> QED
    BY <2>2, <2>3, <2>4, QuietStays DEF Step, Quiet, Start, Began, UpdateHome, DropGroup,
       DropUser, PutBack, RestoreUser, RestoreGroup, Replace
<1>6. secrets' \in [DOMAIN world.secrets -> SecretFile]
  <2>1. CASE Replace(t)
    <3> DEFINE path == SecretPath(t)
               mode == LeftMode(t)
               f == [secrets[path] EXCEPT !.inode = @ + 1, !.owner = ids.euid, !.mode = mode]
    <3>1. ids.euid \in Nat /\ mode \in 0 .. 511
      BY <2>1, LeftModeType DEF TypeInv, PlaceInv, PlaceOf, Replace, Ids
    <3> HIDE DEF mode
    <3>2. path \in DOMAIN world.secrets => f \in SecretFile
      <4> HIDE DEF path
      <4> DEFINE Modes == 0 .. 511
      <4>1. SecretFile = [ inode : Nat, kind : {"regular", "other"}, owner : Nat,
                           mode : Modes, parses : BOOLEAN, codes : SUBSET Codes,
                           recent : BOOLEAN ]
        BY DEF SecretFile
      <4>2. mode \in Modes
        BY <3>1
      <4> HIDE DEF Modes
      <4>3. path \in DOMAIN world.secrets
              => secrets[path] \in SecretFile /\ secrets[path].inode + 1 \in Nat
        BY <4>1 DEF TypeInv
      <4> QED
        BY <3>1, <4>1, <4>2, <4>3
    <3>3. path \in DOMAIN world.secrets => secrets' = [secrets EXCEPT ![path] = f]
      BY <2>1 DEF TypeInv, Replace, SecretFile, mode
    <3>4. path \notin DOMAIN world.secrets => secrets' = secrets
      BY <2>1 DEF TypeInv, Replace
    <3> HIDE DEF f, path
    <3> QED
      BY <3>2, <3>3, <3>4 DEF TypeInv
  <2>2. CASE secrets' = secrets
    BY <2>2 DEF TypeInv
  <2> QED
    BY <2>1, <2>2, QuietStays DEF Step, Quiet, Start, Began, Reopen, UpdateHome, DropGroup,
       DropUser, PutBack, RestoreUser, RestoreGroup
<1>7. Outputs' = Outputs
  BY <1>1 DEF Outputs
<1>8. Loggers' = Loggers /\ Logins' = Logins
  BY <1>7 DEF Loggers, Logins
<1>9. world' \in Worlds /\ login' \in [Threads -> Logins]
  BY <1>1 DEF TypeInv, IsPlaced
<1> QED
  BY <1>1, <1>2, <1>3, <1>4, <1>5, <1>6, <1>8, <1>9 DEF TypeInv

LEMMA TypesAtInit ==
  ASSUME Init
  PROVE  TypeInv /\ PlaceInv
<1>1. /\ world \in Worlds /\ world.ids \in Ids
      /\ world.logOwners \in [DOMAIN world.logOwners -> Nat]
      /\ world.secrets \in [DOMAIN world.secrets -> SecretFile]
  BY WorldFacts DEF Init
<1>2. log \in Loggers
  BY DEF Init, NewLogger, Loggers, Outputs
<1>3. secrets \in [DOMAIN world.secrets -> SecretFile]
  BY <1>1 DEF Init
<1>4. ASSUME NEW t \in Threads
      PROVE  NewLogin(world.calls[t]) \in Logins
  <2>1. EmptyText \in Texts
    BY DEF EmptyText, Texts, Digits
  <2>2. world.calls[t] = NoCall \/ world.calls[t].authtok \in Texts
    BY WorldFacts DEF Init, Call
  <2> QED
    BY <1>1, <2>1, <2>2 DEF NewLogin, Logins, PCs, Answers, Effective, Ids
<1>5. login \in [Threads -> Logins]
  BY <1>4 DEF Init
<1>6. PlaceInv
  BY DEF Init, PlaceInv, PlaceOf, NewLogin, Nameless, Unread, Early
<1> QED
  BY <1>1, <1>2, <1>3, <1>5, <1>6 DEF Init, TypeInv

LEMMA TypesWithoutStep ==
  ASSUME TypeInv, PlaceInv, UNCHANGED vars
  PROVE  TypeInv' /\ PlaceInv'
<1>1. /\ world' = world /\ ids' = ids /\ log' = log /\ logOwners' = logOwners
      /\ secrets' = secrets /\ login' = login /\ overlapped' = overlapped
  BY DEF vars
<1>2. Loggers' = Loggers /\ Logins' = Logins
  BY <1>1 DEF Loggers, Logins, Outputs
<1> QED
  BY <1>1, <1>2 DEF TypeInv, PlaceInv, PlaceOf, Call

\* Where a call is tells what it has of an account and of privileges: none of
\* either before the step that gives them, both until it restores (runPamAuth).
THEOREM TypesAreKept == Spec => [](TypeInv /\ PlaceInv)
<1>1. TypeInv /\ PlaceInv /\ [Next]_vars => TypeInv' /\ PlaceInv'
  BY StepKeepsTypes, TypesWithoutStep DEF Next, Finished
<1> QED
  BY <1>1, TypesAtInit, PTL DEF Spec

-----------------------------------------------------------------------------
(***************************************************************************)
(* The log has one handle.                                                 *)
(***************************************************************************)

\* What a step of the call makes of the log: it takes it, lets go of it, or
\* leaves it alone.
Takes(t) ==
  /\ login[t].pc \notin Moving /\ login'[t].pc \in Moving
  /\ Configure(t) /\ UNCHANGED logOwners
LetsGo(t) ==
  login[t].pc \in Moving /\ login'[t].pc \notin Moving /\ Reopen(t)
Leaves(t) ==
  /\ login[t].pc \notin Moving /\ login'[t].pc \notin Moving
  /\ UNCHANGED <<log, logOwners>>

LEMMA LogIsMoved ==
  ASSUME TypeInv, PlaceInv, NEW t \in Threads, Step(t)
  PROVE  Takes(t) \/ LetsGo(t) \/ Leaves(t)
<1>1. login \in [Threads -> Logins] /\ login[t] \in Logins /\ PlaceOf(t)
  BY DEF TypeInv, PlaceInv
<1>2. CASE Quiet(t)
  BY <1>1, <1>2, QuietIsPlaced, QuietStays DEF QuietMove, Leaves, Moving
<1>3. ASSUME NEW place \in PCs, Goto(t, place)
      PROVE  login'[t].pc = place
  <2>1. login'[t] = [login[t] EXCEPT !.pc = place]
    BY <1>1, <1>3, GotoChanges
  <2> QED
    BY <1>1, <2>1 DEF Logins
<1>4. CASE Start(t)
  BY <1>3, <1>4 DEF Start, Began, Takes, Moving, PCs
<1>5. CASE Reopen(t)
  BY <1>3, <1>5 DEF Reopen, AfterMove, LetsGo, Moving, PCs
<1>6. CASE \/ login[t].pc = "moveLog" /\ UpdateHome(t, "movingLog", "drop")
           \/ login[t].pc = "moveOwnLog" /\ UpdateHome(t, "movingOwnLog", "load")
  BY <1>3, <1>6 DEF UpdateHome, Takes, Leaves, Moving, PCs
<1>7. CASE DropGroup(t) \/ DropUser(t) \/ PutBack(t) \/ Replace(t)
  BY <1>1, <1>7 DEF DropGroup, DropUser, PutBack, Replace, Goto, EndsSaying, Ends, Leaves,
     Moving, Logins
<1>8. CASE RestoreUser(t) \/ RestoreGroup(t)
  BY <1>3, <1>8 DEF RestoreUser, RestoreGroup, Leaves, Moving, PCs
<1> QED
  BY <1>2, <1>4, <1>5, <1>6, <1>7, <1>8 DEF Step, Quiet

LEMMA StepKeepsHandle ==
  ASSUME TypeInv, PlaceInv, HandleInv, NEW t \in Threads, Step(t)
  PROVE  HandleInv'
<1>1. /\ log \in Loggers /\ login \in [Threads -> Logins] /\ NoThread \notin Threads
      /\ OthersStay(t)
  BY ProcessAssumption, StepIsPlaced DEF TypeInv, IsPlaced
<1>2. CASE Takes(t)
  <2>1. log.mutex = NoThread /\ log' = ConfigureBegins(log, t)
    BY <1>2 DEF Takes, Configure
  <2>2. \A u \in Threads : login[u].pc \notin Moving
    BY <1>1, <2>1 DEF HandleInv
  <2>3. log'.mutex = t /\ log'.file = NoFile /\ log'.handles = 0
    BY <1>1, <2>1 DEF HandleInv, ConfigureBegins, Loggers
  <2> QED
    BY <1>1, <2>2, <2>3 DEF HandleInv, OthersStay
<1>3. CASE LetsGo(t)
  <2>1. log.mutex = t /\ log.file = NoFile /\ log.handles = 0
    BY <1>1, <1>3 DEF HandleInv, LetsGo
  <2>2. \/ log' = ConfigureFails(log)
        \/ \E dir, home : log' = ConfigureEnds(log, dir, home)
    BY <1>3 DEF LetsGo, Reopen
  <2>3. /\ log'.mutex = NoThread
        /\ log'.handles = (IF log'.file = NoFile THEN 0 ELSE 1)
    <3>1. CASE log' = ConfigureFails(log)
      BY <1>1, <2>1, <3>1 DEF ConfigureFails, Loggers
    <3>2. ASSUME NEW dir, NEW home, log' = ConfigureEnds(log, dir, home)
          PROVE  log'.mutex = NoThread /\ log'.file = dir
                 /\ log'.handles = (IF dir = NoFile THEN 0 ELSE 1)
      BY <1>1, <2>1, <3>2 DEF ConfigureEnds, Loggers
    <3> QED
      BY <2>2, <3>1, <3>2
  <2> QED
    BY <1>1, <1>3, <2>1, <2>3 DEF HandleInv, OthersStay, LetsGo
<1>4. CASE Leaves(t)
  BY <1>1, <1>4 DEF HandleInv, OthersStay, Leaves
<1> QED
  BY <1>2, <1>3, <1>4, LogIsMoved

\* However many calls move the log, and wherever a move fails, no more than
\* one log file is open (configure).
THEOREM OneHandle == Spec => []OneLogHandle
<1>1. Init => HandleInv
  BY DEF Init, HandleInv, NewLogin, NewLogger, Moving
<1>2. TypeInv /\ PlaceInv /\ HandleInv /\ [Next]_vars => HandleInv'
  <2>1. ASSUME HandleInv, UNCHANGED vars
        PROVE  HandleInv'
    BY <2>1 DEF HandleInv, vars
  <2> QED
    BY <2>1, StepKeepsHandle DEF Next, Finished
<1>3. TypeInv /\ HandleInv => OneLogHandle
  BY DEF HandleInv, OneLogHandle
<1> QED
  BY <1>1, <1>2, <1>3, TypesAreKept, PTL DEF Spec

-----------------------------------------------------------------------------
(***************************************************************************)
(* Whose privileges.                                                       *)
(***************************************************************************)

\* The steps that touch the place of their call only.
PlainMove(t) ==
  /\ UNCHANGED <<ids, secrets>>
  /\ \E place \in PCs :
       /\ login'[t] = [login[t] EXCEPT !.pc = place]
       /\ \/ login[t].pc = "start" /\ place = "configuring"
          \/ login[t].pc = "configuring" /\ place = "parse"
          \/ login[t].pc = "moveLog" /\ place \in {"movingLog", "drop"}
          \/ login[t].pc = "movingLog" /\ place = "drop"
          \/ login[t].pc = "moveOwnLog" /\ place \in {"movingOwnLog", "load"}
          \/ login[t].pc = "movingOwnLog" /\ place = "load"

LEMMA LogStepIsPlain ==
  ASSUME TypeInv, NEW t \in Threads,
         \/ Start(t) \/ Reopen(t)
         \/ login[t].pc = "moveLog" /\ UpdateHome(t, "movingLog", "drop")
         \/ login[t].pc = "moveOwnLog" /\ UpdateHome(t, "movingOwnLog", "load")
  PROVE  PlainMove(t)
<1>1. login \in [Threads -> Logins]
  BY DEF TypeInv
<1>2. ASSUME NEW place \in PCs, Goto(t, place)
      PROVE  login'[t] = [login[t] EXCEPT !.pc = place]
  BY <1>1, <1>2, GotoChanges
<1>3. {"configuring", "parse", "movingLog", "drop", "movingOwnLog", "load"} \subseteq PCs
  BY DEF PCs
<1>4. CASE Start(t)
  BY <1>2, <1>3, <1>4 DEF Start, Began, PlainMove
<1>5. CASE Reopen(t)
  BY <1>2, <1>3, <1>5 DEF Reopen, AfterMove, PlainMove
<1>6. CASE \/ login[t].pc = "moveLog" /\ UpdateHome(t, "movingLog", "drop")
           \/ login[t].pc = "moveOwnLog" /\ UpdateHome(t, "movingOwnLog", "load")
  BY <1>2, <1>3, <1>6 DEF UpdateHome, PlainMove
<1> QED
  BY <1>4, <1>5, <1>6

\* The steps that touch the ids: what the call keeps, and where it goes.
KeepsCall(t) ==
  /\ login'[t].account = login[t].account
  /\ login'[t].authtok = login[t].authtok
  /\ \/ login'[t].rc = login[t].rc
     \/ login'[t].rc = "serviceErr" /\ login'[t].pc = "done"
  /\ login'[t].said \subseteq Saying(t)

GroupDropped(t) ==
  /\ login[t].pc = "compare" /\ ~ActsAs(login[t].orig, Wanted(t)) /\ KeepsCall(t)
  /\ ids' = SetGroup(ids, GroupFor(t))
  /\ login'[t].dropped = login[t].dropped /\ login'[t].orig = login[t].orig
  /\ login'[t].pc = (IF MaySetGroup(ids, GroupFor(t)) THEN "dropUser" ELSE "done")

UserDropped(t) ==
  /\ login[t].pc = "dropUser" /\ KeepsCall(t) /\ login'[t].orig = login[t].orig
  /\ ids' = SetUser(ids, Wanted(t).user)
  /\ \/ /\ MaySetUser(ids, Wanted(t).user)
        /\ login'[t].pc = "moveOwnLog" /\ login'[t].dropped
     \/ /\ ~MaySetUser(ids, Wanted(t).user)
        /\ login'[t].pc = "putBack" /\ ~login'[t].dropped

GroupReturned(t) ==
  /\ login[t].pc = "putBack" /\ KeepsCall(t) /\ login'[t].orig = login[t].orig
  /\ ids' = SetGroup(ids, login[t].orig.group)
  /\ login'[t].pc = "done" /\ ~login'[t].dropped

Restored(t) ==
  /\ KeepsCall(t) /\ login'[t].rc = login[t].rc
  /\ login'[t].orig = login[t].orig /\ login'[t].dropped = login[t].dropped
  /\ \/ /\ login[t].pc = "restore" /\ login'[t].pc = "restoreGroup"
        /\ ids' = SetUser(ids, login[t].orig.user)
     \/ /\ login[t].pc = "restoreGroup" /\ login'[t].pc = "done"
        /\ ids' = SetGroup(ids, login[t].orig.group)

LEMMA SwitchSteps ==
  ASSUME TypeInv, PlaceInv, NEW t \in Threads
  PROVE  /\ DropGroup(t) => GroupDropped(t)
         /\ DropUser(t) => UserDropped(t)
         /\ PutBack(t) => GroupReturned(t)
         /\ RestoreUser(t) \/ RestoreGroup(t) => Restored(t)
<1>1. /\ login \in [Threads -> Logins] /\ login[t] \in Logins /\ PlaceOf(t)
      /\ login[t].pc \in {"compare", "dropUser", "putBack"} => ~login[t].dropped
  BY DEF TypeInv, PlaceInv, PlaceOf, Early
<1>2. Wanted(t).group = GroupFor(t)
  BY DEF Wanted, GroupFor
<1>3. Saying(t) \subseteq Outputs /\ "serviceErr" \in Answers
  BY <1>1, SayingIsOutput DEF TypeInv, Answers
<1>4. ASSUME EndsSaying(t, "serviceErr"), login[t].pc \in {"compare", "putBack"}
      PROVE  /\ KeepsCall(t) /\ login'[t].pc = "done"
             /\ login'[t].orig = login[t].orig /\ login'[t].dropped = login[t].dropped
  <2>1. login'[t] = Ended(login[t], "serviceErr", Saying(t))
    BY <1>1, <1>3, <1>4, EndsChanges DEF EndsSaying
  <2> QED
    BY <1>1, <1>4, <2>1 DEF Ended, KeepsCall, Logins, Saying
<1>8. ASSUME NEW place \in PCs, Goto(t, place)
      PROVE  /\ login'[t].pc = place /\ KeepsCall(t) /\ login'[t].rc = login[t].rc
             /\ login'[t].orig = login[t].orig /\ login'[t].dropped = login[t].dropped
  <2>1. login'[t] = [login[t] EXCEPT !.pc = place]
    BY <1>1, <1>8, GotoChanges
  <2> QED
    BY <1>1, <2>1 DEF Logins, KeepsCall, Saying
<1>9. {"dropUser", "putBack", "restoreGroup", "done"} \subseteq PCs
  BY DEF PCs
<1>5. ASSUME DropGroup(t)
      PROVE  GroupDropped(t)
  <2>1. CASE MaySetGroup(ids, GroupFor(t))
    BY <1>2, <1>5, <1>8, <1>9, <2>1 DEF DropGroup, GroupDropped
  <2>2. CASE ~MaySetGroup(ids, GroupFor(t))
    BY <1>2, <1>4, <1>5, <2>2 DEF DropGroup, GroupDropped
  <2> QED
    BY <2>1, <2>2
<1>6. ASSUME DropUser(t)
      PROVE  UserDropped(t)
  <2>1. CASE MaySetUser(ids, Wanted(t).user)
    <3> DEFINE r == [login[t] EXCEPT !.pc = "moveOwnLog", !.dropped = TRUE]
    <3>1. login' = [login EXCEPT ![t] = r]
      BY <1>1, <1>6, <2>1 DEF DropUser, Logins
    <3>2. login'[t] = r
      BY <1>1, <3>1
    <3> QED
      BY <1>1, <1>6, <2>1, <3>2 DEF DropUser, UserDropped, KeepsCall, Logins, Saying
  <2>2. CASE ~MaySetUser(ids, Wanted(t).user)
    <3>1. login[t].pc = "dropUser" /\ Goto(t, "putBack") /\ ids' = SetUser(ids, Wanted(t).user)
      BY <1>6, <2>2 DEF DropUser
    <3> QED
      BY <1>1, <1>8, <1>9, <2>2, <3>1 DEF UserDropped
  <2> QED
    BY <2>1, <2>2
<1>10. ASSUME PutBack(t)
       PROVE  GroupReturned(t)
  BY <1>1, <1>4, <1>10 DEF PutBack, GroupPutBack, GroupReturned
<1>7. ASSUME RestoreUser(t) \/ RestoreGroup(t)
      PROVE  Restored(t)
  BY <1>7, <1>8, <1>9 DEF RestoreUser, RestoreGroup, Restored
<1> QED
  BY <1>5, <1>6, <1>7, <1>10

\* Every step is one of these, or replaces the secret file.
FileReplaced(t) ==
  /\ Replace(t) /\ UNCHANGED ids
  /\ login[t].pc = "persist" /\ login'[t].pc = (IF login[t].dropped THEN "restore" ELSE "done")
  /\ login'[t].account = login[t].account /\ login'[t].orig = login[t].orig
  /\ login'[t].dropped = login[t].dropped /\ login'[t].authtok = login[t].authtok
  /\ login'[t].said \subseteq Saying(t) /\ login'[t].rc = "success"

StepKind(t) ==
  \/ PlainMove(t) \/ GroupDropped(t) \/ UserDropped(t) \/ GroupReturned(t) \/ Restored(t)
  \/ FileReplaced(t)
  \/ Quiet(t) /\ QuietMove(t) /\ UNCHANGED <<ids, secrets>>

LEMMA StepKinds ==
  ASSUME TypeInv, PlaceInv, NEW t \in Threads, Step(t)
  PROVE  StepKind(t)
<1>1. PlaceOf(t)
  BY DEF PlaceInv
<1>2. CASE Quiet(t)
  BY <1>1, <1>2, QuietIsPlaced, QuietStays DEF StepKind
<1>3. CASE Replace(t)
  <2>1. /\ login \in [Threads -> Logins] /\ Saying(t) \subseteq Outputs
        /\ "success" \in Answers
    BY SayingIsOutput DEF TypeInv, Answers
  <2>2. login[t].pc = "persist" /\ UNCHANGED ids /\ Ends(t, "success", Saying(t))
    BY <1>3 DEF Replace, EndsSaying
  <2>3. login'[t] = Ended(login[t], "success", Saying(t))
    BY <2>1, <2>2, EndsChanges
  <2>4. FileReplaced(t)
    BY <1>3, <2>1, <2>2, <2>3 DEF FileReplaced, Ended, Logins
  <2> QED
    BY <2>4 DEF StepKind
<1> QED
  BY <1>2, <1>3, LogStepIsPlain, SwitchSteps DEF Step, Quiet, StepKind

LEMMA RealIdsStay ==
  ASSUME NEW id
  PROVE  /\ ids' \in {SetUser(ids, id), SetGroup(ids, id)} /\ ids \in Ids
              => /\ ids'.uid = ids.uid /\ ids'.suid = ids.suid
                 /\ ids'.gid = ids.gid /\ ids'.sgid = ids.sgid
         /\ ids' = SetUser(ids, id) /\ ids \in Ids
              => /\ ids'.egid = ids.egid
                 /\ ids'.euid = IF MaySetUser(ids, id) THEN id ELSE ids.euid
         /\ ids' = SetGroup(ids, id) /\ ids \in Ids
              => /\ ids'.euid = ids.euid
                 /\ ids'.egid = IF MaySetGroup(ids, id) THEN id ELSE ids.egid
BY DEF SetUser, SetGroup, Ids

LEMMA StepKeepsRealIds ==
  ASSUME TypeInv, PlaceInv, RealIds, NEW t \in Threads, Step(t)
  PROVE  RealIds'
<1>1. world' = world /\ ids \in Ids /\ StepKind(t)
  BY StepIsPlaced, StepKinds DEF TypeInv
<1>2. ids' = ids \/ \E id : ids' \in {SetUser(ids, id), SetGroup(ids, id)}
  BY <1>1 DEF StepKind, PlainMove, GroupDropped, UserDropped, GroupReturned, Restored,
     FileReplaced
<1> QED
  BY <1>1, <1>2, RealIdsStay DEF RealIds

\* A process can always become again who it was when it began.
LEMMA MayGoBack ==
  ASSUME TypeInv, RealIds
  PROVE  MaySetUser(ids, world.ids.euid) /\ MaySetGroup(ids, world.ids.egid)
BY WorldFacts DEF TypeInv, RealIds, MaySetUser, MaySetGroup

LEMMA SameIds ==
  ASSUME NEW a \in Ids, NEW b \in Ids,
         a.uid = b.uid, a.euid = b.euid, a.suid = b.suid,
         a.gid = b.gid, a.egid = b.egid, a.sgid = b.sgid
  PROVE  a = b
BY DEF Ids

LEMMA SameEffective ==
  ASSUME NEW who \in [user : Nat, group : Nat], NEW a \in Ids,
         who.user = a.euid, who.group = a.egid
  PROVE  who = Effective(a)
BY DEF Effective

LEMMA AloneInStep ==
  ASSUME TypeInv, PlaceInv, AloneInv, NEW t \in Threads, Step(t), ~overlapped'
  PROVE  /\ ~overlapped /\ Running \subseteq {t}
         /\ login[t].pc = "start" => Running = {} /\ login'[t].pc = "configuring"
         /\ login[t].pc # "start" => t \in Running
<1>1. StepKind(t) /\ login \in [Threads -> Logins]
  BY StepKinds DEF TypeInv
<1>2. /\ login[t].pc # "done"
      /\ login[t].pc = "start" => login'[t].pc = "configuring"
  BY <1>1 DEF StepKind, PlainMove, GroupDropped, UserDropped, GroupReturned, Restored,
     FileReplaced, QuietMove, Logins
<1>3. CASE Start(t)
  BY <1>2, <1>3 DEF Start, Began
<1>4. CASE ~Start(t)
  <2>1. overlapped' = overlapped
    BY <1>4, QuietStays DEF Step, Quiet, Reopen, UpdateHome, DropGroup, DropUser, PutBack,
       RestoreUser, RestoreGroup, Replace
  <2>2. login[t].pc # "start"
    BY <1>4 DEF Step, Reopen, AfterMove, UpdateHome, ParseArguments, NoUserName, LookUp,
       ReadUser, ReadGroup, NothingToDrop, DropGroup, DropUser, PutBack, RestoreUser,
       RestoreGroup, Load, Grace, Asks, FromPassword, NoCodeInPassword, Prompt,
       NothingToWrite, Replace, CannotReplace
  <2> QED
    BY <1>2, <2>1, <2>2 DEF Running, AloneInv
<1> QED
  BY <1>3, <1>4

LEMMA StepKeepsAlone ==
  ASSUME TypeInv, PlaceInv, RealIds, AloneInv, NEW t \in Threads, Step(t)
  PROVE  AloneInv'
<1> SUFFICES ASSUME ~overlapped'
             PROVE  AloneInv'
  BY DEF AloneInv
<1>1. /\ world' = world /\ login \in [Threads -> Logins] /\ login' \in [Threads -> Logins]
      /\ OthersStay(t) /\ PlaceOf(t) /\ PlaceOf(t)'
  BY StepIsPlaced DEF TypeInv, PlaceInv, IsPlaced
<1>2. /\ ~overlapped /\ Running \subseteq {t}
      /\ login[t].pc = "start" => Running = {} /\ login'[t].pc = "configuring"
      /\ login[t].pc # "start" => t \in Running
  BY AloneInStep
<1>3. StepKind(t)
  BY StepKinds
<1>4. /\ \A u \in Threads : login[u].orig = Effective(world.ids)
      /\ login[t].pc # "start" => IdsAt(t)
      /\ login[t].pc = "start" => ids = world.ids
  BY <1>2 DEF AloneInv
<1>5. /\ ids \in Ids /\ ids' \in Ids /\ world.ids \in Ids /\ RealIds'
      /\ MaySetUser(ids, world.ids.euid) /\ MaySetGroup(ids, world.ids.egid)
  BY StepKeepsTypes, StepKeepsRealIds, MayGoBack, WorldFacts DEF TypeInv
<1>6. ASSUME ids'.euid = world.ids.euid, ids'.egid = world.ids.egid
      PROVE  ids' = world.ids
  BY <1>1, <1>5, <1>6, SameIds DEF RealIds
<1>7. /\ login'[t].orig = Effective(world.ids)
      /\ login'[t].pc = "done" => ids' = world.ids
      /\ login'[t].pc # "done" => IdsAt(t)'
  <2>1. CASE PlainMove(t)
    BY <1>1, <1>4, <2>1 DEF PlainMove, IdsAt, Early, Unread, Nameless, Settled, Logins,
       Wanted, GroupFor
  <2>2. CASE QuietMove(t) /\ ids' = ids
    <3>1. CASE login[t].pc \in {"drop", "readGroup"}
      <4>1. /\ ids = world.ids
            /\ login[t].orig.user = ids.euid /\ login[t].orig.group = ids.egid
        BY <1>4, <3>1 DEF IdsAt, Early, Unread, Effective
      <4>2. /\ login'[t].orig.user = ids.euid /\ login'[t].orig.group = ids.egid
            /\ login'[t].pc \in {"readGroup", "compare"}
        BY <2>2, <3>1, <4>1 DEF QuietMove
      <4>3. login'[t].orig = Effective(world.ids) /\ ids' = world.ids'
        <5>1. login'[t].orig \in [user : Nat, group : Nat]
          BY <1>1 DEF Logins
        <5> QED
          BY <1>1, <1>5, <2>2, <4>1, <4>2, <5>1, SameEffective
      <4> QED
        BY <4>2, <4>3 DEF IdsAt, Settled
    <3>2. CASE login[t].pc \notin {"drop", "readGroup"}
      BY <1>1, <1>4, <2>2, <3>2 DEF QuietMove, IdsAt, Early, Unread, Nameless, Settled,
         Logins, Wanted, GroupFor, PlaceOf, ActsAs, Effective
    <3> QED
      BY <3>1, <3>2
  <2>3. CASE GroupDropped(t)
    <3>1. ids = world.ids
      BY <1>4, <2>3 DEF GroupDropped, IdsAt, Early
    <3>2. /\ ids'.euid = world.ids.euid
          /\ ids'.egid = IF MaySetGroup(ids, GroupFor(t)) THEN GroupFor(t) ELSE world.ids.egid
      BY <1>5, <2>3, <3>1, RealIdsStay DEF GroupDropped
    <3> QED
      BY <1>1, <1>4, <1>6, <2>3, <3>1, <3>2 DEF GroupDropped, KeepsCall, IdsAt, Early,
         Unread, Nameless, Settled, GroupFor, Effective
  <2>4. CASE UserDropped(t)
    <3>1. ids.euid = world.ids.euid /\ ids.egid = GroupFor(t)
      BY <1>4, <2>4 DEF UserDropped, IdsAt
    <3>2. CASE MaySetUser(ids, Wanted(t).user)
      <4>1. ids'.euid = Wanted(t).user /\ ids'.egid = GroupFor(t)
        BY <1>5, <2>4, <3>1, <3>2, RealIdsStay DEF UserDropped
      <4> QED
        BY <1>4, <2>4, <3>2, <4>1 DEF UserDropped, KeepsCall, IdsAt, Early, Unread,
           Nameless, Settled, GroupFor, Effective, Wanted
    <3>3. CASE ~MaySetUser(ids, Wanted(t).user)
      <4>1. ids' = ids /\ Wanted(t)' = Wanted(t)
        BY <2>4, <3>3 DEF UserDropped, SetUser, KeepsCall, Wanted
      <4> QED
        BY <1>1, <1>4, <2>4, <3>1, <3>3, <4>1
           DEF UserDropped, IdsAt, Early, Unread, Nameless, Settled, MaySetUser, IsRoot
    <3> QED
      BY <3>2, <3>3
  <2>7. CASE GroupReturned(t)
    <3>1. ids.euid = world.ids.euid /\ login[t].orig.group = world.ids.egid
      BY <1>4, <2>7 DEF GroupReturned, IdsAt, Effective
    <3>2. ids'.euid = world.ids.euid /\ ids'.egid = world.ids.egid
      BY <1>5, <2>7, <3>1, RealIdsStay DEF GroupReturned
    <3> QED
      BY <1>4, <1>6, <2>7, <3>2 DEF GroupReturned
  <2>5. CASE Restored(t)
    <3>1. login[t].orig.user = world.ids.euid /\ login[t].orig.group = world.ids.egid
      BY <1>4 DEF Effective
    <3>2. CASE login[t].pc = "restore"
      <4>1. ids'.euid = world.ids.euid
        BY <1>5, <2>5, <3>1, <3>2, RealIdsStay DEF Restored
      <4> QED
        BY <1>1, <1>4, <2>5, <3>2, <4>1 DEF Restored, IdsAt, Early, Unread, Nameless,
           Settled
    <3>3. CASE login[t].pc = "restoreGroup"
      <4>1. ids'.euid = world.ids.euid /\ ids'.egid = world.ids.egid
        BY <1>4, <1>5, <2>5, <3>1, <3>3, RealIdsStay DEF Restored, IdsAt
      <4> QED
        BY <1>4, <1>6, <2>5, <3>3, <4>1 DEF Restored
    <3> QED
      BY <2>5, <3>2, <3>3 DEF Restored
  <2>6. CASE FileReplaced(t)
    BY <1>1, <1>4, <2>6 DEF FileReplaced, IdsAt, Early, Unread, Nameless, Settled
  <2> QED
    BY <1>3, <2>1, <2>2, <2>3, <2>4, <2>5, <2>6, <2>7 DEF StepKind
<1>8. Running' \subseteq {t} /\ (login'[t].pc # "start")
  <2>1. login'[t].pc # "start"
    BY <1>1, <1>3 DEF StepKind, PlainMove, GroupDropped, UserDropped, GroupReturned,
       Restored, FileReplaced, QuietMove, Logins
  <2> QED
    BY <1>2, <2>1, <1>1 DEF Running, OthersStay
<1> QED
  BY <1>1, <1>4, <1>7, <1>8 DEF AloneInv, Running, OthersStay

\* The calls that have an account keep it.
LEMMA LookedStays ==
  ASSUME TypeInv, PlaceInv, NEW t \in Threads, Step(t)
  PROVE  \A u \in Looked : u \in Looked' /\ login'[u].account = login[u].account
<1>1. /\ login \in [Threads -> Logins] /\ OthersStay(t) /\ PlaceOf(t) /\ StepKind(t)
  BY StepIsPlaced, StepKinds DEF TypeInv, PlaceInv, IsPlaced
<1>2. login[t].account # NoAccount => login'[t].account = login[t].account
  BY <1>1 DEF StepKind, PlainMove, QuietMove, GroupDropped, UserDropped, GroupReturned,
     Restored, KeepsCall, FileReplaced, PlaceOf, Nameless, Logins
<1> QED
  BY <1>1, <1>2 DEF Looked, OthersStay

\* A call has not found anybody before it asks.
LEMMA FoundBefore ==
  ASSUME TypeInv, PlaceInv, NEW t \in Threads, Step(t)
  PROVE  (FoundUser' => FoundUser) /\ (FoundGroup' => FoundGroup)
<1>1. /\ world' = world /\ login \in [Threads -> Logins] /\ OthersStay(t) /\ PlaceOf(t)
      /\ StepKind(t)
  BY StepIsPlaced, StepKinds DEF TypeInv, PlaceInv, IsPlaced
<1>2. /\ login'[t].orig.user = login[t].orig.user \/ login[t].orig.user = world.ids.euid
      /\ login'[t].orig.group = login[t].orig.group \/ login[t].orig.group = world.ids.egid
  <2>1. CASE QuietMove(t) /\ login[t].pc \in {"drop", "readGroup"}
    <3>1. CASE login[t].pc = "drop"
      <4>1. login[t].orig.user = world.ids.euid
        BY <1>1, <3>1 DEF PlaceOf, Unread, Effective
      <4> QED
        BY <2>1, <3>1, <4>1 DEF QuietMove
    <3>2. CASE login[t].pc = "readGroup"
      <4>1. login[t].orig.group = world.ids.egid
        BY <1>1, <3>2 DEF PlaceOf
      <4> QED
        BY <2>1, <3>2, <4>1 DEF QuietMove
    <3> QED
      BY <2>1, <3>1, <3>2
  <2>2. CASE ~(QuietMove(t) /\ login[t].pc \in {"drop", "readGroup"})
    <3>1. CASE PlainMove(t)
      BY <1>1, <3>1 DEF PlainMove, Logins
    <3>2. CASE QuietMove(t)
      BY <2>2, <3>2 DEF QuietMove
    <3> QED
      BY <1>1, <3>1, <3>2 DEF StepKind, GroupDropped, UserDropped, GroupReturned, Restored,
         FileReplaced
  <2> QED
    BY <2>1, <2>2
<1> QED
  BY <1>1, <1>2 DEF FoundUser, FoundGroup, OthersStay

\* Whoever takes the user or the group away owes it from then on, until the
\* process, which may always go back, is given what the call found.
LEMMA StepKeepsBack ==
  ASSUME TypeInv, PlaceInv, RealIds, BackInv, NEW t \in Threads, Step(t)
  PROVE  BackInv'
<1>1. /\ world' = world /\ login \in [Threads -> Logins] /\ OthersStay(t) /\ PlaceOf(t)
      /\ StepKind(t) /\ ids \in Ids
  BY StepIsPlaced, StepKinds DEF TypeInv, PlaceInv, IsPlaced
<1>2. (FoundUser' => FoundUser) /\ (FoundGroup' => FoundGroup)
  BY FoundBefore
<1>3. MaySetUser(ids, world.ids.euid) /\ MaySetGroup(ids, world.ids.egid)
  BY MayGoBack
<1>4. /\ OwesUser \ {t} \subseteq OwesUser' /\ OwesGroup \ {t} \subseteq OwesGroup'
  BY <1>1 DEF OwesUser, OwesGroup, OthersStay
<1>5. ASSUME FoundUser
      PROVE  \/ ids'.euid = ids.euid /\ (t \in OwesUser => t \in OwesUser')
             \/ ids'.euid = world.ids.euid
             \/ t \in OwesUser'
  <2>1. CASE PlainMove(t) \/ FileReplaced(t) \/ (QuietMove(t) /\ ids' = ids)
    <3>1. ids' = ids
      BY <2>1 DEF PlainMove, FileReplaced
    <3>2. t \in OwesUser => t \in OwesUser'
      <4>1. CASE PlainMove(t)
        BY <1>1, <4>1 DEF PlainMove, OwesUser, Settled, Logins
      <4>2. CASE FileReplaced(t)
        BY <4>2 DEF FileReplaced, OwesUser, Settled
      <4>3. CASE QuietMove(t)
        BY <4>3 DEF QuietMove, OwesUser, Settled
      <4> QED
        BY <2>1, <4>1, <4>2, <4>3
    <3> QED
      BY <3>1, <3>2
  <2>2. CASE GroupDropped(t) \/ GroupReturned(t)
    <3>1. ids'.euid = ids.euid
      BY <1>1, <2>2, RealIdsStay DEF GroupDropped, GroupReturned
    <3> QED
      BY <2>2, <3>1 DEF GroupDropped, GroupReturned, OwesUser, Settled
  <2>3. CASE UserDropped(t)
    <3>1. ~MaySetUser(ids, Wanted(t).user) => ids'.euid = ids.euid
      BY <1>1, <2>3, RealIdsStay DEF UserDropped
    <3> QED
      BY <2>3, <3>1 DEF UserDropped, OwesUser, Settled
  <2>4. CASE Restored(t)
    <3>1. login[t].pc = "restore" => ids'.euid = world.ids.euid
      BY <1>1, <1>3, <1>5, <2>4, RealIdsStay DEF Restored, FoundUser
    <3>2. login[t].pc # "restore" => ids'.euid = ids.euid /\ t \notin OwesUser
      BY <1>1, <2>4, RealIdsStay DEF Restored, OwesUser, Settled
    <3> QED
      BY <3>1, <3>2
  <2> QED
    BY <1>1, <2>1, <2>2, <2>3, <2>4 DEF StepKind
<1>6. ASSUME FoundGroup
      PROVE  \/ ids'.egid = ids.egid /\ (t \in OwesGroup => t \in OwesGroup')
             \/ ids'.egid = world.ids.egid
             \/ t \in OwesGroup'
  <2>1. CASE PlainMove(t) \/ FileReplaced(t) \/ (QuietMove(t) /\ ids' = ids)
    <3>1. ids' = ids
      BY <2>1 DEF PlainMove, FileReplaced
    <3>2. t \in OwesGroup => t \in OwesGroup'
      <4>1. CASE PlainMove(t)
        BY <1>1, <4>1 DEF PlainMove, OwesGroup, Settled, Logins
      <4>2. CASE FileReplaced(t)
        BY <4>2 DEF FileReplaced, OwesGroup, Settled
      <4>3. CASE QuietMove(t)
        BY <4>3 DEF QuietMove, OwesGroup, Settled
      <4> QED
        BY <2>1, <4>1, <4>2, <4>3
    <3> QED
      BY <3>1, <3>2
  <2>2. CASE GroupDropped(t)
    <3>1. ~MaySetGroup(ids, GroupFor(t)) => ids'.egid = ids.egid
      BY <1>1, <2>2, RealIdsStay DEF GroupDropped
    <3> QED
      BY <2>2, <3>1 DEF GroupDropped, OwesGroup, Settled
  <2>3. CASE UserDropped(t)
    BY <2>3 DEF UserDropped, OwesGroup, Settled
  <2>4. CASE GroupReturned(t)
    BY <1>1, <1>3, <1>6, <2>4, RealIdsStay DEF GroupReturned, FoundGroup
  <2>5. CASE Restored(t)
    <3>1. login[t].pc = "restore" => ids'.egid = ids.egid
      BY <1>1, <2>5, RealIdsStay DEF Restored
    <3>2. login[t].pc # "restore" => ids'.egid = world.ids.egid
      BY <1>1, <1>3, <1>6, <2>5, RealIdsStay DEF Restored, FoundGroup
    <3> QED
      BY <2>5, <3>1, <3>2 DEF Restored, OwesGroup
  <2> QED
    BY <1>1, <2>1, <2>2, <2>3, <2>4, <2>5 DEF StepKind
<1>7. FoundUser' => ids'.euid = world.ids.euid \/ OwesUser' # {}
  BY <1>2, <1>4, <1>5 DEF BackInv
<1>8. FoundGroup' => ids'.egid = world.ids.egid \/ OwesGroup' # {}
  BY <1>2, <1>4, <1>6 DEF BackInv
<1> QED
  BY <1>1, <1>7, <1>8 DEF BackInv

LEMMA IdsInvAtInit ==
  ASSUME Init
  PROVE  IdsInv
<1>1. \A t \in Threads : /\ login[t].pc = "start" /\ ~login[t].dropped
                        /\ login[t].account = NoAccount
                        /\ login[t].orig = Effective(world.ids)
  BY DEF Init, NewLogin
<1>2. ids = world.ids /\ ~overlapped
  BY DEF Init
<1>3. Running = {}
  BY <1>1, <1>2 DEF Running
<1>4. AloneInv
  BY <1>1, <1>2, <1>3 DEF AloneInv
<1> QED
  BY <1>2, <1>3, <1>4 DEF IdsInv, RealIds, BackInv

LEMMA IdsInvWithoutStep ==
  ASSUME IdsInv, UNCHANGED vars
  PROVE  IdsInv'
<1>1. RealIds'
  BY DEF IdsInv, RealIds, vars
<1>2. AloneInv'
  BY DEF IdsInv, AloneInv, IdsAt, Running, GroupFor, Wanted, vars
<1>3. BackInv'
  BY DEF IdsInv, BackInv, FoundUser, FoundGroup, OwesUser, OwesGroup, vars
<1> QED
  BY <1>1, <1>2, <1>3 DEF IdsInv

\* Which ids the process has follows from where its calls are, for a call that
\* is alone; and for calls that overlap, whoever made it another user or group
\* than it was has yet to undo that, as long as each call found its own
\* (dropPrivileges, restorePrivileges).
THEOREM IdsAreKept == Spec => []IdsInv
<1>1. TypeInv /\ PlaceInv /\ IdsInv /\ [Next]_vars => IdsInv'
  <2>1. ASSUME TypeInv, PlaceInv, IdsInv, NEW t \in Threads, Step(t)
        PROVE  IdsInv'
    BY <2>1, StepKeepsRealIds, StepKeepsAlone, StepKeepsBack DEF IdsInv
  <2> QED
    BY <2>1, IdsInvWithoutStep DEF Next, Finished
<1> QED
  BY <1>1, IdsInvAtInit, TypesAreKept, PTL DEF Spec

\* A process whose logins have followed one another is who it was.  If they have
\* overlapped, its user is what it was if no login found another one's, and its
\* group likewise: the last to give one back can, and gives back the right one
\* (dropPrivileges, restorePrivileges).
THEOREM ProcessIsRestored == Spec => []IdsRestored
<1>1. IdsInv => IdsRestored
  <2> SUFFICES ASSUME IdsInv, Running = {}
               PROVE  /\ ~overlapped => ids = world.ids
                      /\ FoundUser => ids.euid = world.ids.euid
                      /\ FoundGroup => ids.egid = world.ids.egid
    BY DEF IdsRestored, FoundUser, FoundGroup
  <2>1. OwesUser = {} /\ OwesGroup = {}
    BY DEF OwesUser, OwesGroup, Running, Settled
  <2> QED
    BY <2>1 DEF IdsInv, BackInv, AloneInv
<1> QED
  BY <1>1, IdsAreKept, PTL

\* Secret file and template are opened, and the file is replaced, with the
\* user and the group of the account, for every process, account and number of
\* calls, unless calls overlap (runPamAuth).
THEOREM FilesAsUser == Spec => []AccessAsUser
<1>1. IdsInv => AccessAsUser
  BY DEF IdsInv, AloneInv, AccessAsUser, Running, IdsAt, Settled
<1> QED
  BY <1>1, IdsAreKept, PTL

-----------------------------------------------------------------------------
(***************************************************************************)
(* Whose file.                                                             *)
(***************************************************************************)

LEMMA FileWritten ==
  ASSUME TypeInv, PlaceInv, FileInv, NEW t \in Threads, Step(t)
  PROVE  \/ secrets' = secrets /\ ~Replace(t)
         \/ /\ Replace(t) /\ login[t].pc = "persist" /\ SecretPath(t) \in DOMAIN secrets
            /\ DOMAIN secrets' = DOMAIN secrets
            /\ secrets'[SecretPath(t)].owner = ids.euid
            /\ secrets'[SecretPath(t)].mode = LeftMode(t)
            /\ \A path \in DOMAIN secrets :
                 /\ secrets'[path].codes = secrets[path].codes
                 /\ secrets'[path].recent = secrets[path].recent
                 /\ secrets'[path].kind = secrets[path].kind
                 /\ secrets'[path].parses = secrets[path].parses
                 /\ path # SecretPath(t) => secrets'[path] = secrets[path]
<1>1. CASE Replace(t)
  <2>1. login[t].pc = "persist" /\ SecretPath(t) \in DOMAIN secrets
    BY <1>1 DEF Replace, FileInv
  <2>2. secrets \in [DOMAIN world.secrets -> SecretFile]
    BY DEF TypeInv
  <2> DEFINE path == SecretPath(t)
             perm == LeftMode(t)
             f == [secrets[path] EXCEPT !.inode = @ + 1, !.owner = ids.euid, !.mode = perm]
  <2>3. secrets' = [secrets EXCEPT ![path] = f]
    BY <1>1, <2>1, <2>2 DEF Replace, SecretFile
  <2> HIDE DEF perm
  <2>4. /\ f.owner = ids.euid /\ f.mode = perm /\ f.codes = secrets[path].codes
        /\ f.recent = secrets[path].recent /\ f.kind = secrets[path].kind
        /\ f.parses = secrets[path].parses
    BY <2>1, <2>2 DEF SecretFile
  <2> HIDE DEF f, path
  <2>5. path \in DOMAIN secrets
    BY <2>1 DEF path
  <2> QED
    BY <1>1, <2>1, <2>3, <2>4, <2>5 DEF path, perm
<1>2. CASE ~Replace(t)
  BY <1>2, QuietStays DEF Step, Quiet, Start, Began, Reopen, UpdateHome, DropGroup,
     DropUser, PutBack, RestoreUser, RestoreGroup
<1> QED
  BY <1>1, <1>2

LEMMA StepKeepsFile ==
  ASSUME TypeInv, PlaceInv, FileInv, NEW t \in Threads, Step(t)
  PROVE  /\ FileInv'
         /\ login'[t].pc \in {"ask", "persist"}
              => SecretPath(t)' = SecretPath(t) /\ (login[t].pc = "ask" \/ Loads(t))
         /\ \A u \in Threads \ {t} : SecretPath(u)' = SecretPath(u)
<1>1. /\ world' = world /\ login \in [Threads -> Logins] /\ OthersStay(t) /\ StepKind(t)
  BY StepIsPlaced, StepKinds DEF TypeInv, IsPlaced
<1>2. login'[t].pc \in {"ask", "persist"}
        => SecretPath(t)' = SecretPath(t) /\ (login[t].pc = "ask" \/ Loads(t))
  BY <1>1 DEF StepKind, PlainMove, QuietMove, GroupDropped, UserDropped, GroupReturned,
     Restored, FileReplaced, Logins, SecretPath, Params, Call
<1>3. \A u \in Threads \ {t} : SecretPath(u)' = SecretPath(u)
  BY <1>1 DEF OthersStay, SecretPath, Params, Call
<1>4. DOMAIN secrets' = DOMAIN secrets
      /\ \A path \in DOMAIN secrets : /\ secrets'[path].codes = secrets[path].codes
                                     /\ secrets'[path].recent = secrets[path].recent
  BY FileWritten
<1>5. Loads(t) => SecretPath(t) \in DOMAIN secrets
  BY DEF Loads
<1> QED
  BY <1>1, <1>2, <1>3, <1>4, <1>5 DEF FileInv, OthersStay

LEMMA StepKeepsOwner ==
  ASSUME TypeInv, PlaceInv, AloneInv, FileInv, OwnerInv, NEW t \in Threads, Step(t)
  PROVE  OwnerInv'
<1> SUFFICES ASSUME ~overlapped',
                    (\A u \in Threads : Call(u) # NoCall => ~Params(u).noStrictOwner)'
             PROVE  OwnerInv'
  BY DEF OwnerInv
<1>1. /\ world' = world /\ login \in [Threads -> Logins] /\ OthersStay(t) /\ StepKind(t)
      /\ PlaceOf(t)
  BY StepIsPlaced, StepKinds DEF TypeInv, PlaceInv, IsPlaced
<1>2. /\ ~overlapped /\ Running \subseteq {t}
      /\ login[t].pc # "start" => t \in Running
  BY AloneInStep
<1>3. \A u \in Threads : Call(u) # NoCall => ~Params(u).noStrictOwner
  BY <1>1 DEF Params, Call
<1>4. /\ \A path \in DOMAIN secrets : secrets[path].owner = world.secrets[path].owner
      /\ login[t].pc \in {"ask", "persist"} => Secret(t).owner = UserOf[login[t].account]
  BY <1>2, <1>3 DEF OwnerInv
<1>5. /\ FileInv'
      /\ login'[t].pc \in {"ask", "persist"}
           => SecretPath(t)' = SecretPath(t) /\ (login[t].pc = "ask" \/ Loads(t))
  BY StepKeepsFile
<1>6. \A u \in Threads \ {t} : login'[u].pc \notin {"ask", "persist"}
  BY <1>1, <1>2 DEF Running, OthersStay
<1>7. CASE secrets' = secrets /\ ~Replace(t)
  <2>1. Loads(t) /\ login[t].pc = "load" => Secret(t).owner = UserOf[login[t].account]
    BY <1>1, <1>3 DEF Loads, IsValid, PlaceOf
  <2>2. login'[t].pc \in {"ask", "persist"}
          => /\ login'[t].account = login[t].account
             /\ login[t].pc \in {"load", "ask"}
    BY <1>1, <1>7 DEF StepKind, PlainMove, QuietMove, GroupDropped, UserDropped,
       GroupReturned, Restored, FileReplaced, Logins
  <2>3. login'[t].pc \in {"ask", "persist"} => (Secret(t).owner = UserOf[login[t].account])'
    BY <1>4, <1>5, <1>7, <2>1, <2>2 DEF Secret
  <2> QED
    BY <1>1, <1>4, <1>6, <1>7, <2>3 DEF OwnerInv
<1>8. CASE Replace(t)
  <2>1. login[t].pc = "persist" /\ login'[t].pc \notin {"ask", "persist"}
    BY <1>1, <1>8 DEF Replace, StepKind, PlainMove, QuietMove, GroupDropped,
       UserDropped, GroupReturned, Restored, FileReplaced, Logins
  <2>2. ids.euid = UserOf[login[t].account]
    BY <1>2, <2>1 DEF AloneInv, IdsAt, Settled, Wanted, Effective
  <2>3. /\ DOMAIN secrets' = DOMAIN secrets
        /\ \A path \in DOMAIN secrets :
             secrets'[path].owner = IF path = SecretPath(t) THEN ids.euid ELSE secrets[path].owner
    BY <1>8, FileWritten
  <2>4. \A path \in DOMAIN secrets : secrets'[path].owner = secrets[path].owner
    BY <1>4, <2>1, <2>2, <2>3 DEF Secret
  <2> QED
    BY <1>1, <1>4, <1>6, <2>1, <2>3, <2>4 DEF OwnerInv
<1> QED
  BY <1>7, <1>8, FileWritten

\* No call changes what a secret file accepts, and the owner of the file that a
\* lone call has checked is the user it runs as (validateSecretFile, WriteConfig).
THEOREM FilesAreKept == Spec => [](FileInv /\ OwnerInv)
<1>1. Init => FileInv /\ OwnerInv
  BY DEF Init, NewLogin, FileInv, OwnerInv
<1>2. /\ TypeInv /\ PlaceInv /\ IdsInv /\ FileInv /\ OwnerInv /\ [Next]_vars
        => FileInv' /\ OwnerInv'
  <2>1. ASSUME FileInv, OwnerInv, UNCHANGED vars
        PROVE  FileInv' /\ OwnerInv'
    BY <2>1 DEF FileInv, OwnerInv, Secret, SecretPath, Params, Call, vars
  <2> QED
    BY <2>1, StepKeepsFile, StepKeepsOwner DEF Next, Finished, IdsInv
<1> QED
  BY <1>1, <1>2, TypesAreKept, IdsAreKept, PTL DEF Spec

\* A login that replaces the secret file leaves it to its owner, so that the
\* next login accepts it (validateSecretFile, WriteConfig).
THEOREM OwnerStays == Spec => []OwnerKept
<1>1. OwnerInv => OwnerKept
  BY DEF OwnerInv, OwnerKept
<1> QED
  BY <1>1, FilesAreKept, PTL

-----------------------------------------------------------------------------
(***************************************************************************)
(* Whose log.                                                              *)
(***************************************************************************)

\* A move opens the log of the process or that of the account, or none.
LEMMA Targets ==
  ASSUME TypeInv, PlaceInv, NEW t \in Threads, Reopen(t)
  PROVE  /\ login[t].pc \in Moving
         /\ login[t].pc # "configuring" => login[t].account \in Accounts
         /\ LogTarget(t).dir \in {NoFile} \union LogsOf(t)
         /\ LogTarget(t).dir # NoFile => LogTarget(t).dir \notin {Stderr, Lost}
         /\ LogTarget(t).dir \in Accounts => LogTarget(t).owner = UserOf[LogTarget(t).dir]
         /\ login[t].pc = "configuring" =>
              \/ world.logTo = "stderr" /\ LogTarget(t).dir = NoFile
              \/ /\ world.logTo # "stderr" /\ LogTarget(t).dir = world.logDir
                 /\ LogTarget(t).owner = world.logDirOwner
         /\ login[t].pc # "configuring" =>
              LogTarget(t) = [dir |-> login[t].account, owner |-> HomeOwner(login[t].account)]
<1>1. /\ login[t].pc \in Moving /\ NoFile \notin Accounts /\ NoAccount \notin Accounts
      /\ Stderr \notin Accounts /\ Lost \notin Accounts
  BY ProcessAssumption DEF Reopen, AfterMove, Moving
<1>2. login[t].pc # "configuring" => login[t].account \in Accounts
  BY <1>1 DEF PlaceInv, PlaceOf, Moving, Nameless
<1>3. CASE login[t].pc = "configuring"
  <2>1. /\ world.logTo # "stderr" => world.logDir \notin {Stderr, Lost, NoFile}
        /\ world.logDir \in Accounts => world.logDirOwner = UserOf[world.logDir]
    BY WorldFacts DEF TypeInv
  <2>2. CASE world.logTo = "stderr"
    <3>1. LogTarget(t) = [dir |-> NoFile, owner |-> Root]
      BY <1>3, <2>2 DEF LogTarget
    <3> QED
      BY <1>1, <1>3, <2>2, <3>1
  <2>3. CASE world.logTo # "stderr"
    <3>1. LogTarget(t) = [dir |-> world.logDir, owner |-> world.logDirOwner]
      BY <1>3, <2>3 DEF LogTarget
    <3> QED
      BY <1>1, <1>3, <2>1, <2>3, <3>1 DEF LogsOf
  <2> QED
    BY <2>2, <2>3
<1>4. CASE login[t].pc # "configuring"
  <2>1. LogTarget(t) = [dir |-> login[t].account, owner |-> HomeOwner(login[t].account)]
    BY <1>4 DEF LogTarget
  <2>2. LogTarget(t).dir = login[t].account /\ LogTarget(t).owner = UserOf[login[t].account]
    BY <2>1 DEF HomeOwner
  <2> QED
    BY <1>1, <1>2, <1>4, <2>1, <2>2 DEF LogsOf
<1> QED
  BY <1>1, <1>2, <1>3, <1>4

\* What a move leaves: the new file is open, or the old one is closed.
LEMMA MoveEnds ==
  ASSUME TypeInv, PlaceInv, HandleInv, NEW t \in Threads, LetsGo(t)
  PROVE  LET target == LogTarget(t)
             opens  == target.dir # NoFile
         IN  \/ /\ opens /\ ~CanOpenLog(ids, logOwners, target.owner, target.dir)
                /\ log'.file = NoFile /\ log'.output = log.output
                /\ log'.derivedFromHome = log.derivedFromHome /\ logOwners' = logOwners
             \/ /\ ~opens /\ log'.file = NoFile /\ log'.output = Stderr
                /\ log'.derivedFromHome = (login[t].pc # "configuring" \/ world.logTo = "home")
                /\ logOwners' = logOwners
             \/ /\ opens /\ CanOpenLog(ids, logOwners, target.owner, target.dir)
                /\ log'.file = target.dir /\ log'.output = target.dir
                /\ log'.derivedFromHome = (login[t].pc # "configuring" \/ world.logTo = "home")
                /\ logOwners' = WithLog(logOwners, target.dir, ids.euid)
<1>1. log \in Loggers /\ log.file = NoFile
  <2>1. NoThread \notin Threads
    BY ProcessAssumption
  <2> QED
    BY <2>1 DEF TypeInv, HandleInv, LetsGo
<1> DEFINE target == LogTarget(t)
           opens == target.dir # NoFile
           fits == CanOpenLog(ids, logOwners, target.owner, target.dir)
           home == login[t].pc # "configuring" \/ world.logTo = "home"
<1>2. /\ log' = IF opens /\ ~fits THEN ConfigureFails(log)
                ELSE ConfigureEnds(log, target.dir, home)
      /\ logOwners' = IF opens /\ ~(opens /\ ~fits)
                      THEN WithLog(logOwners, target.dir, ids.euid) ELSE logOwners
  BY DEF LetsGo, Reopen
<1> HIDE DEF target, fits, home
<1>3. CASE opens /\ ~fits
  BY <1>1, <1>2, <1>3 DEF ConfigureFails, Loggers, target, fits
<1>4. CASE ~(opens /\ ~fits)
  <2>1. /\ log'.file = target.dir
        /\ log'.output = (IF target.dir = NoFile THEN Stderr ELSE target.dir)
        /\ log'.derivedFromHome = home
    BY <1>1, <1>2, <1>4 DEF ConfigureEnds, Loggers
  <2> QED
    BY <1>2, <1>4, <2>1 DEF target, fits, home
<1> QED
  BY <1>3, <1>4

\* What there is of log files stays, and a new one in a home is made by its
\* owner or by root.
LEMMA LogOwnersGrow ==
  ASSUME TypeInv, PlaceInv, HandleInv, NEW t \in Threads, Step(t)
  PROVE  /\ \A dir \in DOMAIN logOwners :
              dir \in DOMAIN logOwners' /\ logOwners'[dir] = logOwners[dir]
         /\ \A dir \in DOMAIN logOwners' \ DOMAIN logOwners :
              /\ Reopen(t) /\ dir = LogTarget(t).dir /\ logOwners'[dir] = ids.euid
              /\ dir \in Accounts => logOwners'[dir] \in {Root, UserOf[dir]}
<1>1. CASE logOwners' = logOwners
  BY <1>1
<1>2. CASE LetsGo(t) /\ logOwners' # logOwners
  <2>1. /\ CanOpenLog(ids, logOwners, LogTarget(t).owner, LogTarget(t).dir)
        /\ logOwners' = WithLog(logOwners, LogTarget(t).dir, ids.euid)
    BY <1>2, MoveEnds
  <2>2. /\ DOMAIN logOwners' = DOMAIN logOwners \union {LogTarget(t).dir}
        /\ \A d \in DOMAIN logOwners : logOwners'[d] = logOwners[d]
        /\ LogTarget(t).dir \notin DOMAIN logOwners => logOwners'[LogTarget(t).dir] = ids.euid
    BY <2>1, LogFileAdded DEF TypeInv, Ids
  <2>3. LogTarget(t).dir \in Accounts => LogTarget(t).owner = UserOf[LogTarget(t).dir]
    BY <1>2, Targets DEF LetsGo
  <2> QED
    BY <1>2, <2>1, <2>2, <2>3 DEF CanOpenLog, MayWriteIn, LetsGo
<1> QED
  BY <1>1, <1>2, LogIsMoved DEF Takes, Leaves

LEMMA ExcusedStays ==
  ASSUME TypeInv, PlaceInv, HandleInv, NEW t \in Threads, Step(t), NEW u \in Threads,
         Excused(u)
  PROVE  Excused(u)'
<1>1. /\ world' = world /\ login[u].account \in Accounts \union {NoAccount}
      /\ login[u].account # NoAccount => login'[u].account = login[u].account
  BY StepIsPlaced, LookedStays DEF TypeInv, Logins, Looked
<1>2. CASE ~CanLog
  BY <1>1, <1>2 DEF Excused, CanLog
<1>3. CASE world.logTo = "home" /\ login[u].account # NoAccount /\ ~OwnLogIsOpen(u)
  <2> DEFINE account == login[u].account
  <2>1. account \in Accounts /\ account # NoAccount /\ login'[u].account = account
    BY <1>1, <1>3
  <2>2. CASE account \in DOMAIN logOwners
    BY <1>1, <1>3, <2>1, <2>2, LogOwnersGrow DEF Excused, OwnLogIsOpen, CanOpenLog
  <2>3. CASE account \notin DOMAIN logOwners
    <3>1. world.ids.euid \notin {Root, UserOf[account]}
      BY <1>3, <2>3 DEF OwnLogIsOpen, CanOpenLog, MayWriteIn, HomeOwner
    <3>2. account \in DOMAIN logOwners' => logOwners'[account] \in {Root, UserOf[account]}
      BY <2>1, <2>3, LogOwnersGrow
    <3>3. ~OwnLogIsOpen(u)'
      BY <1>1, <2>1, <3>1, <3>2 DEF OwnLogIsOpen, CanOpenLog, MayWriteIn, HomeOwner
    <3> QED
      BY <1>1, <1>3, <2>1, <3>3 DEF Excused
  <2> QED
    BY <2>2, <2>3
<1> QED
  BY <1>2, <1>3 DEF Excused

LEMMA StepKeepsLogOwners ==
  ASSUME TypeInv, PlaceInv, HandleInv, AloneInv, LogOwnersInv, NEW t \in Threads, Step(t)
  PROVE  LogOwnersInv'
<1>1. /\ world' = world /\ login \in [Threads -> Logins] /\ login[t] \in Logins
      /\ OthersStay(t) /\ StepKind(t) /\ log \in Loggers
  BY StepIsPlaced, StepKinds DEF TypeInv, IsPlaced
<1>2. \A dir \in DOMAIN logOwners :
        dir \in DOMAIN logOwners' /\ logOwners'[dir] = logOwners[dir]
  BY LogOwnersGrow
<1>3. \A dir \in DOMAIN world.logOwners :
        dir \in DOMAIN logOwners' /\ logOwners'[dir] = world.logOwners[dir]
  BY <1>2 DEF LogOwnersInv
<1>4. log'.derivedFromHome => world.logTo = "home"
  <2>1. CASE Takes(t)
    BY <1>1, <2>1 DEF Takes, Configure, ConfigureBegins, LogOwnersInv, Loggers
  <2>2. CASE LetsGo(t)
    BY <2>2, MoveEnds DEF LogOwnersInv, LetsGo, Moving
  <2>3. CASE Leaves(t)
    BY <2>3 DEF Leaves, LogOwnersInv
  <2> QED
    BY <2>1, <2>2, <2>3, LogIsMoved
<1>5. login'[t].pc \in {"movingLog", "movingOwnLog"} => world.logTo = "home"
  <2> SUFFICES ASSUME login'[t].pc \in {"movingLog", "movingOwnLog"}
               PROVE  world.logTo = "home"
    OBVIOUS
  <2>1. Takes(t)
    BY LogIsMoved DEF LetsGo, Leaves, Moving
  <2>2. \/ login[t].pc = "moveLog" /\ UpdateHome(t, "movingLog", "drop")
        \/ login[t].pc = "moveOwnLog" /\ UpdateHome(t, "movingOwnLog", "load")
    <3>1. login[t].pc \in {"moveLog", "moveOwnLog"}
      BY <1>1 DEF StepKind, PlainMove, QuietMove, GroupDropped, UserDropped,
         GroupReturned, Restored, FileReplaced, Logins
    <3> QED
      BY <3>1 DEF Step, Start, Reopen, AfterMove, ParseArguments, NoUserName, LookUp,
         ReadUser, ReadGroup, NothingToDrop, DropGroup, DropUser, PutBack, RestoreUser,
         RestoreGroup, Load, Grace, Asks, FromPassword, NoCodeInPassword, Prompt,
         NothingToWrite, Replace, CannotReplace
  <2>3. FollowsHome(log) \/ Goto(t, "drop") \/ Goto(t, "load")
    BY <2>2 DEF UpdateHome
  <2>4. ~Goto(t, "drop") /\ ~Goto(t, "load")
    BY <1>1 DEF Goto, Logins
  <2> QED
    BY <2>3, <2>4 DEF FollowsHome, LogOwnersInv
<1>6. ASSUME ~overlapped', CanLog, world.logTo # "stderr"
      PROVE  /\ CanOpenLog(world.ids, logOwners', world.logDirOwner, world.logDir)
             /\ (\E u \in Threads : login'[u].pc \notin {"start", "configuring"})
                  => world.logDir \in DOMAIN logOwners'
  <2>1. /\ ~overlapped /\ Running \subseteq {t}
        /\ login[t].pc = "start" => Running = {} /\ login'[t].pc = "configuring"
        /\ login[t].pc # "start" => t \in Running
    BY <1>6, AloneInStep
  <2>2. /\ CanOpenLog(world.ids, logOwners, world.logDirOwner, world.logDir)
        /\ (\E u \in Threads : login[u].pc \notin {"start", "configuring"})
             => world.logDir \in DOMAIN logOwners
    BY <1>6, <2>1 DEF LogOwnersInv
  <2>3. CASE world.logDir \in DOMAIN logOwners
    BY <1>2, <2>2, <2>3 DEF CanOpenLog
  <2>4. CASE world.logDir \notin DOMAIN logOwners
    <3>1. login[t].pc \in {"start", "configuring"}
      BY <2>2, <2>4
    <3>2. CASE login[t].pc = "configuring"
      <4>1. ids = world.ids
        BY <2>1, <3>2 DEF AloneInv, IdsAt, Early, Unread, Nameless
      <4>2. LetsGo(t)
        BY <3>2, LogIsMoved DEF Takes, Leaves, Moving
      <4>3. /\ LogTarget(t).dir = world.logDir /\ LogTarget(t).owner = world.logDirOwner
            /\ world.logDir # NoFile
        BY <1>6, <3>2, <4>2, Targets, WorldFacts DEF LetsGo, TypeInv
      <4>4. logOwners' = WithLog(logOwners, world.logDir, world.ids.euid)
        BY <2>2, <4>1, <4>2, <4>3, MoveEnds
      <4>5. world.logDir \in DOMAIN logOwners' /\ logOwners'[world.logDir] = world.ids.euid
        BY <2>4, <4>4 DEF WithLog
      <4> QED
        BY <4>5 DEF CanOpenLog
    <3>3. CASE login[t].pc = "start"
      <4>1. Takes(t)
        BY <2>1, <3>3, LogIsMoved DEF LetsGo, Leaves, Moving
      <4>2. \A u \in Threads : login'[u].pc \in {"start", "configuring"}
        BY <1>1, <2>1, <2>2, <2>4, <3>3 DEF OthersStay
      <4> QED
        BY <2>2, <4>1, <4>2 DEF Takes
    <3> QED
      BY <3>1, <3>2, <3>3
  <2> QED
    BY <2>3, <2>4
<1>7. \A u \in Threads : login'[u].pc \in {"movingLog", "movingOwnLog"}
                           => world.logTo = "home"
  BY <1>1, <1>5 DEF OthersStay, LogOwnersInv
<1> QED
  BY <1>1, <1>3, <1>4, <1>6, <1>7 DEF LogOwnersInv, CanLog

\* A log that cannot be opened is a reason why messages are lost.
LEMMA FailureExcuses ==
  ASSUME TypeInv, PlaceInv, AloneInv, LogOwnersInv, NEW t \in Threads, Reopen(t),
         ~overlapped, t \in Running, LogTarget(t).dir # NoFile,
         ~CanOpenLog(ids, logOwners, LogTarget(t).owner, LogTarget(t).dir)
  PROVE  Excused(t)
<1>1. IdsAt(t)
  BY DEF AloneInv
<1>2. login[t].pc \in Moving /\ NoAccount \notin Accounts
  BY ProcessAssumption, Targets
<1>3. CASE login[t].pc = "configuring"
  <2>1. ids = world.ids
    BY <1>1, <1>3 DEF IdsAt, Early, Unread, Nameless
  <2>2. /\ world.logTo # "stderr" /\ LogTarget(t).dir = world.logDir
        /\ LogTarget(t).owner = world.logDirOwner
    BY <1>3, Targets
  <2> QED
    BY <2>1, <2>2 DEF LogOwnersInv, Excused
<1>4. CASE login[t].pc # "configuring"
  <2> DEFINE account == login[t].account
  <2>1. /\ account \in Accounts /\ world.logTo = "home"
        /\ LogTarget(t).dir = account /\ LogTarget(t).owner = UserOf[account]
    BY <1>2, <1>4, Targets DEF LogOwnersInv, HomeOwner, Moving
  <2>2. ids = world.ids \/ ids.euid = UserOf[account]
    BY <1>1, <1>2, <1>4 DEF IdsAt, Early, Unread, Nameless, Settled, Moving, Effective, Wanted
  <2>3. ~OwnLogIsOpen(t)
    BY <2>1, <2>2 DEF OwnLogIsOpen, CanOpenLog, MayWriteIn, HomeOwner
  <2> QED
    BY <1>2, <2>1, <2>3 DEF Excused
<1> QED
  BY <1>3, <1>4

LEMMA StepKeepsSaid ==
  ASSUME TypeInv, PlaceInv, HandleInv, AloneInv, LogOwnersInv, SaidInv,
         NEW t \in Threads, Step(t)
  PROVE  SaidInv'
<1>1. /\ world' = world /\ login \in [Threads -> Logins] /\ login[t] \in Logins
      /\ OthersStay(t) /\ StepKind(t) /\ log \in Loggers /\ PlaceOf(t)
  BY StepIsPlaced, StepKinds DEF TypeInv, PlaceInv, IsPlaced
<1>2. log'.output # NoFile
  <2>1. Stderr # NoFile
    BY DEF Stderr, NoFile
  <2>2. CASE Takes(t)
    BY <1>1, <2>2 DEF Takes, Configure, ConfigureBegins, SaidInv, Loggers
  <2>3. CASE LetsGo(t)
    BY <2>1, <2>3, MoveEnds DEF SaidInv
  <2>4. CASE Leaves(t)
    BY <2>4 DEF Leaves, SaidInv
  <2> QED
    BY <2>2, <2>3, <2>4, LogIsMoved
<1>3. Call(t) # NoCall
  <2>1. login[t].pc = "start" => Start(t)
    BY DEF Step, Reopen, AfterMove, UpdateHome, ParseArguments, NoUserName, LookUp,
       ReadUser, ReadGroup, NothingToDrop, DropGroup, DropUser, PutBack, RestoreUser,
       RestoreGroup, Load, Grace, Asks, FromPassword, NoCodeInPassword, Prompt,
       NothingToWrite, Replace, CannotReplace
  <2> QED
    BY <1>1, <2>1 DEF Start, PlaceOf
<1>4. \A u \in Threads : Call(u)' = NoCall => login'[u].said = {}
  BY <1>1, <1>3 DEF SaidInv, OthersStay, Call
<1>5. ASSUME ~overlapped'
      PROVE  \A u \in Threads :
               /\ login'[u].said \subseteq {Stderr, Lost} \union LogsOf(u)'
               /\ Lost \in login'[u].said => Excused(u)'
               /\ u \in Running' => log'.file \in {NoFile} \union LogsOf(u)'
               /\ u \in Running' /\ login'[u].pc \notin Moving /\ WhereMessagesGo(log)' = Lost
                    => Excused(u)'
  <2>1. /\ ~overlapped /\ Running \subseteq {t}
        /\ login[t].pc = "start" => Running = {} /\ login'[t].pc = "configuring"
        /\ login[t].pc # "start" => t \in Running
    BY <1>5, AloneInStep
  <2>2. \A u \in Threads :
          /\ login[u].said \subseteq {Stderr, Lost} \union LogsOf(u)
          /\ Lost \in login[u].said => Excused(u)
          /\ u \in Running => log.file \in {NoFile} \union LogsOf(u)
          /\ u \in Running /\ login[u].pc \notin Moving /\ WhereMessagesGo(log) = Lost
               => Excused(u)
    BY <2>1 DEF SaidInv
  <2>3. LogsOf(t) \subseteq LogsOf(t)'
    BY <1>1, LookedStays DEF LogsOf, Looked
  <2>4. Excused(t) => Excused(t)'
    BY ExcusedStays
  <2>5. ASSUME NEW u \in Threads \ {t}
        PROVE  /\ login'[u].said \subseteq {Stderr, Lost} \union LogsOf(u)'
               /\ Lost \in login'[u].said => Excused(u)'
               /\ u \notin Running'
    <3>1. login'[u] = login[u] /\ LogsOf(u)' = LogsOf(u)
      BY <1>1 DEF OthersStay, LogsOf
    <3>2. Excused(u) => Excused(u)'
      BY ExcusedStays
    <3> QED
      BY <2>1, <2>2, <3>1, <3>2 DEF Running
  <2>6. \/ login'[t].said = login[t].said
        \/ /\ login[t].pc \notin Moving \union {"start"}
           /\ login'[t].said \subseteq Saying(t)
    BY <1>1 DEF StepKind, PlainMove, QuietMove, GroupDropped, UserDropped,
       GroupReturned, Restored, KeepsCall, FileReplaced, Logins, Moving
  <2>7. ASSUME login'[t].said = login[t].said
        PROVE /\ login'[t].said \subseteq {Stderr, Lost} \union LogsOf(t)'
              /\ Lost \in login'[t].said => Excused(t)'
    BY <2>2, <2>3, <2>4, <2>7
  <2>8. ASSUME login[t].pc \notin Moving \union {"start"}, login'[t].said \subseteq Saying(t)
        PROVE /\ login'[t].said \subseteq {Stderr, Lost} \union LogsOf(t)'
              /\ Lost \in login'[t].said => Excused(t)'
    <3>1. t \in Running /\ log.output # NoFile
      BY <2>1, <2>8 DEF SaidInv
    <3>2. WhereMessagesGo(log) \in {Stderr, Lost} \union LogsOf(t)
      BY <2>2, <3>1 DEF WhereMessagesGo
    <3>3. WhereMessagesGo(log) = Lost => Excused(t)
      BY <2>2, <2>8, <3>1
    <3> QED
      BY <2>2, <2>3, <2>4, <2>8, <3>2, <3>3 DEF Saying
  <2>9. /\ login'[t].said \subseteq {Stderr, Lost} \union LogsOf(t)'
        /\ Lost \in login'[t].said => Excused(t)'
    BY <2>6, <2>7, <2>8
  <2>10. /\ t \in Running' => log'.file \in {NoFile} \union LogsOf(t)'
         /\ t \in Running' /\ login'[t].pc \notin Moving /\ WhereMessagesGo(log') = Lost
              => Excused(t)'
    <3>1. CASE Takes(t)
      BY <1>1, <3>1 DEF Takes, Configure, ConfigureBegins, Loggers
    <3>2. CASE LetsGo(t)
      <4>1. t \in Running /\ Reopen(t)
        BY <2>1, <3>2 DEF LetsGo, Moving
      <4>2. CASE /\ LogTarget(t).dir # NoFile
                 /\ ~CanOpenLog(ids, logOwners, LogTarget(t).owner, LogTarget(t).dir)
        BY <2>1, <2>4, <3>2, <4>1, <4>2, FailureExcuses, MoveEnds
      <4>3. CASE LogTarget(t).dir = NoFile
        BY <3>2, <4>3, MoveEnds DEF WhereMessagesGo, Stderr, Lost
      <4>4. CASE /\ LogTarget(t).dir # NoFile
                 /\ CanOpenLog(ids, logOwners, LogTarget(t).owner, LogTarget(t).dir)
        <5>1. /\ log'.file = LogTarget(t).dir /\ log'.output = LogTarget(t).dir
              /\ LogTarget(t).dir \in LogsOf(t) /\ LogTarget(t).dir # Lost
          BY <3>2, <4>1, <4>4, MoveEnds, Targets
        <5> QED
          BY <2>3, <5>1 DEF WhereMessagesGo
      <4> QED
        BY <4>2, <4>3, <4>4
    <3>3. CASE Leaves(t)
      <4>1. t \in Running
        BY <2>1, <3>3 DEF Leaves, Moving
      <4> QED
        BY <2>2, <2>3, <2>4, <3>3, <4>1 DEF Leaves
    <3> QED
      BY <3>1, <3>2, <3>3, LogIsMoved
  <2> QED
    BY <2>5, <2>9, <2>10
<1> QED
  BY <1>1, <1>2, <1>4, <1>5 DEF SaidInv

LEMMA LogAtInit ==
  ASSUME Init
  PROVE  HandleInv /\ LogOwnersInv /\ SaidInv
<1>1. \A t \in Threads : login[t].pc = "start" /\ login[t].said = {}
  BY DEF Init, NewLogin
<1>2. log = NewLogger /\ logOwners = world.logOwners
  BY DEF Init
<1>3. HandleInv
  BY <1>1, <1>2 DEF HandleInv, NewLogger, Moving
<1>4. LogOwnersInv
  BY <1>1, <1>2 DEF LogOwnersInv, NewLogger, CanLog
<1>5. SaidInv
  BY <1>1, <1>2 DEF SaidInv, Running, NewLogger, Stderr, NoFile
<1> QED
  BY <1>3, <1>4, <1>5

\* Whom the log files belong to, and where the messages of a lone call have
\* gone: to the log of the process or to its account's (UpdateHome, logf).
THEOREM LogIsKept == Spec => [](LogOwnersInv /\ SaidInv)
<1> DEFINE LogInv == HandleInv /\ LogOwnersInv /\ SaidInv
<1>1. TypeInv /\ PlaceInv /\ AloneInv /\ LogInv /\ [Next]_vars => LogInv'
  <2>1. ASSUME LogInv, UNCHANGED vars
        PROVE  LogInv'
    BY <2>1 DEF HandleInv, LogOwnersInv, SaidInv, CanLog, Running, LogsOf, Excused,
       OwnLogIsOpen, Call, vars
  <2> QED
    BY <2>1, StepKeepsHandle, StepKeepsLogOwners, StepKeepsSaid DEF Next, Finished
<1>2. Init => LogInv
  BY LogAtInit
<1>3. IdsInv => AloneInv
  BY DEF IdsInv
<1> QED
  BY <1>1, <1>2, <1>3, TypesAreKept, IdsAreKept, PTL DEF Spec

\* What is said of a login goes to the log of the process or to that of the
\* account, whatever accounts the process serves one after the other and
\* wherever a move of the log fails (UpdateHome, configure).
THEOREM LogIsOwn == Spec => []OwnLog
<1>1. SaidInv => OwnLog
  BY DEF SaidInv, OwnLog, LogsOf
<1> QED
  BY <1>1, LogIsKept, PTL

\* A message is lost only where the log that is due cannot be written by
\* whoever the process is (logf, configure).
THEOREM LogHasArrived == Spec => []LogArrives
<1>1. SaidInv => LogArrives
  BY DEF SaidInv, LogArrives, Excused, CanLog
<1> QED
  BY <1>1, LogIsKept, PTL

-----------------------------------------------------------------------------
(***************************************************************************)
(* What a person types.                                                    *)
(***************************************************************************)

\* The files accept what they accepted.
LEMMA EntitledStays ==
  ASSUME TypeInv, PlaceInv, FileInv, NEW t \in Threads, Step(t), NEW u \in Threads,
         login'[u].account = login[u].account
  PROVE  /\ Entitled(u) => Entitled(u)'
         /\ \A password : IsForwarded(u, password) =>
              /\ SecretPath(u)' \in DOMAIN secrets'
              /\ Params(u)'.forwardPass
              /\ \E code \in Secret(u)'.codes : Call(u)'.authtok = Then(password, code)
<1>1. /\ world' = world /\ Call(u)' = Call(u) /\ Params(u)' = Params(u)
      /\ SecretPath(u)' = SecretPath(u)
  BY StepIsPlaced DEF Call, Params, SecretPath
<1>2. SecretPath(u) \in DOMAIN secrets =>
        /\ SecretPath(u) \in DOMAIN secrets'
        /\ Secret(u)'.codes = Secret(u).codes /\ Secret(u)'.recent = Secret(u).recent
  BY <1>1, FileWritten DEF Secret
<1>3. \A code : AnswerIs(u, code)' <=> AnswerIs(u, code)
  BY <1>1 DEF AnswerIs
<1> QED
  BY <1>1, <1>2, <1>3 DEF Entitled, IsForwarded, AnswerIs

LEMMA SameText ==
  ASSUME NEW a \in Texts, NEW b \in Texts,
         a.word = b.word, a.digits = b.digits, a.blank = b.blank
  PROVE  a = b
BY DEF Texts

LEMMA CodeAlone ==
  ASSUME NEW text \in Texts, Trimmed(text).word = NoWord
  PROVE  Trimmed(text) = [EmptyText EXCEPT !.digits = Trimmed(text).digits]
<1> DEFINE alone == [EmptyText EXCEPT !.digits = Trimmed(text).digits]
<1>1. /\ Trimmed(text) \in Texts /\ Trimmed(text).digits \in Digits
      /\ Trimmed(text).blank = FALSE
  BY DEF Trimmed, Texts
<1>2. EmptyText \in Texts
  BY DEF EmptyText, Texts, Digits
<1>3. /\ alone \in Texts /\ alone.word = EmptyText.word /\ alone.blank = EmptyText.blank
      /\ alone.digits = Trimmed(text).digits
  BY <1>1, <1>2 DEF Texts
<1> QED
  BY <1>1, <1>3, SameText DEF EmptyText

\* A call passes on a password, and goes on to be let in, once it has a code.
LEMMA CodeIsGiven ==
  ASSUME TypeInv, PlaceInv, FileInv, CodeInv, NEW t \in Threads, Step(t),
         login[t].pc = "ask"
  PROVE  /\ login'[t].pc = "persist" => Entitled(t)
         /\ login'[t].authtok # login[t].authtok => IsForwarded(t, login'[t].authtok)
<1>1. /\ login \in [Threads -> Logins] /\ login[t] \in Logins /\ PlaceOf(t)
      /\ Call(t) # NoCall /\ login[t].authtok = Call(t).authtok
      /\ Call(t).answer \in Texts \union {NoAnswer}
      /\ SecretPath(t) \in DOMAIN secrets
  BY WorldFacts DEF TypeInv, PlaceInv, PlaceOf, CodeInv, FileInv, Unanswered, PCs
<1>2. Saying(t) \subseteq Outputs /\ login[t].said \subseteq Outputs /\ "denied" \in Answers
  BY <1>1, SayingIsOutput DEF TypeInv, Answers, Logins
<1>3. ASSUME NEW verified \in BOOLEAN, NEW rest, Verify(t, verified, rest)
      PROVE  /\ login'[t].pc = "persist" => verified
             /\ login'[t].authtok # login[t].authtok =>
                  /\ verified /\ Params(t).forwardPass /\ rest # EmptyText
                  /\ login'[t].authtok = rest
  <2> DEFINE authtok == IF Forwards(t, verified) /\ rest # EmptyText THEN rest
                        ELSE login[t].authtok
             r == [login[t] EXCEPT !.pc = "persist", !.authtok = authtok]
             q == [login[t] EXCEPT
                     !.pc = IF login[t].dropped THEN "restore" ELSE "done",
                     !.rc = "denied", !.said = Saying(t), !.authtok = authtok]
  <2> HIDE DEF authtok
  <2>1. /\ r.pc = "persist" /\ r.authtok = authtok
        /\ q.pc # "persist" /\ q.authtok = authtok
    BY <1>1 DEF Logins
  <2>2. login' = [login EXCEPT ![t] = IF verified THEN r ELSE q]
    BY <1>1, <1>3 DEF Logins, Verify, authtok
  <2> HIDE DEF r, q
  <2>3. login'[t] = IF verified THEN r ELSE q
    BY <1>1, <2>2
  <2> QED
    BY <1>3, <2>1, <2>3 DEF authtok, Forwards
<1>4. CASE FromPassword(t)
  <2> DEFINE otp == ExtractOTP(login[t].authtok)
             v == IF otp.code \in Secret(t).codes THEN TRUE ELSE FALSE
  <2>1. Verify(t, v, otp.rest)
    BY <1>4 DEF FromPassword, Verify, Forwards
  <2>2. /\ Params(t).passMode # "prompt"
        /\ otp.rest \in Texts /\ Then(otp.rest, otp.code) = Call(t).authtok
    BY <1>1, <1>4, ExtractOTPSplits DEF FromPassword, TakesPassword, Logins
  <2> HIDE DEF otp
  <2>3. v \in BOOLEAN /\ (v => otp.code \in Secret(t).codes)
    OBVIOUS
  <2> HIDE DEF v
  <2>4. /\ login'[t].pc = "persist" => v
        /\ login'[t].authtok # login[t].authtok =>
             v /\ Params(t).forwardPass /\ login'[t].authtok = otp.rest
    BY <1>3, <2>1, <2>3
  <2> QED
    BY <1>1, <2>2, <2>3, <2>4 DEF Entitled, IsForwarded
<1>5. CASE Prompt(t)
  <2> DEFINE answer == Trimmed(Call(t).answer)
             v == IF IsCode(answer, Secret(t).codes) THEN TRUE ELSE FALSE
  <2>1. CASE Call(t).answer = NoAnswer \/ answer = EmptyText
    <3>1. Ends(t, "denied", login[t].said)
      BY <1>5, <2>1 DEF Prompt, EndsSilently
    <3>2. login'[t] = Ended(login[t], "denied", login[t].said)
      BY <1>1, <1>2, <3>1, EndsChanges
    <3> QED
      BY <1>1, <3>2 DEF Ended, Logins
  <2>2. CASE ~(Call(t).answer = NoAnswer \/ answer = EmptyText)
    <3>1. Verify(t, v, EmptyText)
      BY <1>5, <2>2 DEF Prompt, Verify, Forwards
    <3>2. /\ v \in BOOLEAN
          /\ v => answer.word = NoWord /\ answer.digits \in Secret(t).codes
      BY DEF IsCode
    <3>3. Call(t).answer \in Texts
      BY <1>1, <2>2
    <3>5. v => AnswerIs(t, answer.digits)
      BY <2>2, <3>2, <3>3, CodeAlone DEF AnswerIs
    <3> HIDE DEF v, answer
    <3>6. /\ login'[t].pc = "persist" => v
          /\ login'[t].authtok = login[t].authtok
      BY <1>3, <3>1, <3>2
    <3> QED
      BY <1>1, <3>2, <3>5, <3>6 DEF Entitled
  <2> QED
    BY <2>1, <2>2
<1>6. CASE Grace(t)
  <2> DEFINE r == [login[t] EXCEPT !.pc = "persist", !.said = Saying(t)]
  <2>1. login' = [login EXCEPT ![t] = r]
    BY <1>1, <1>6 DEF Logins, Grace
  <2>2. login'[t].authtok = login[t].authtok
    BY <1>1, <2>1 DEF Logins
  <2>3. Params(t).gracePeriod > 0 /\ Secret(t).recent
    BY <1>6 DEF Grace, Asks
  <2> QED
    BY <1>1, <2>2, <2>3 DEF Entitled
<1>7. CASE NoCodeInPassword(t)
  <2>1. Ends(t, "denied", login[t].said)
    BY <1>7 DEF NoCodeInPassword, EndsSilently
  <2>2. login'[t] = Ended(login[t], "denied", login[t].said)
    BY <1>1, <1>2, <2>1, EndsChanges
  <2> QED
    BY <1>1, <2>2 DEF Ended, Logins
<1> QED
  BY <1>4, <1>5, <1>6, <1>7 DEF Step, Start, Reopen, AfterMove, UpdateHome,
     ParseArguments, NoUserName, LookUp, ReadUser, ReadGroup, NothingToDrop, DropGroup,
     DropUser, PutBack, RestoreUser, RestoreGroup, Load, NothingToWrite, Replace,
     CannotReplace

LEMMA StepKeepsCodes ==
  ASSUME TypeInv, PlaceInv, FileInv, CodeInv, NEW t \in Threads, Step(t)
  PROVE  CodeInv'
<1>1. /\ world' = world /\ login \in [Threads -> Logins] /\ login' \in [Threads -> Logins]
      /\ OthersStay(t) /\ StepKind(t) /\ PlaceOf(t)
      /\ \A u \in Threads : Call(u)' = Call(u)
  BY StepIsPlaced, StepKinds DEF TypeInv, PlaceInv, IsPlaced, Call
<1>2. ASSUME NEW u \in Threads \ {t}
      PROVE  /\ login'[u].pc = "persist" => Entitled(u)'
             /\ login'[u].rc = "success" /\ Call(u)' .user # "" => Entitled(u)'
             /\ login'[u].pc \in Unanswered =>
                  login'[u].rc = "none"
                  /\ (Call(u)' # NoCall => login'[u].authtok = Call(u)'.authtok)
             /\ Call(u)' # NoCall /\ login'[u].authtok # Call(u)'.authtok
                  => IsForwarded(u, login[u].authtok)'
  <2>1. login'[u] = login[u] /\ Call(u)' = Call(u)
    BY <1>1 DEF OthersStay
  <2>2. /\ Entitled(u) => Entitled(u)'
        /\ IsForwarded(u, login[u].authtok) => IsForwarded(u, login[u].authtok)'
    BY <2>1, EntitledStays DEF IsForwarded
  <2> QED
    BY <2>1, <2>2 DEF CodeInv
<1>3. CASE login[t].pc = "ask"
  <2>1. login'[t].account = login[t].account
    BY <1>1, <1>3 DEF StepKind, PlainMove, QuietMove, GroupDropped, UserDropped,
       GroupReturned, Restored, FileReplaced, KeepsCall
  <2>2. /\ login[t].rc = "none" /\ (Call(t) # NoCall => login[t].authtok = Call(t).authtok)
        /\ Call(t) # NoCall
    BY <1>1, <1>3 DEF CodeInv, Unanswered, PCs, PlaceOf
  <2>3. /\ login'[t].pc \notin Unanswered
        /\ login'[t].rc = "success" => Call(t).user = ""
    BY <1>1, <1>3, <2>2 DEF StepKind, PlainMove, QuietMove, GroupDropped, UserDropped,
       GroupReturned, Restored, FileReplaced, Unanswered
  <2>4. /\ login'[t].pc = "persist" => Entitled(t)'
        /\ login'[t].authtok # Call(t).authtok => IsForwarded(t, login[t].authtok)'
    BY <1>3, <2>1, <2>2, CodeIsGiven, EntitledStays DEF IsForwarded
  <2> QED
    BY <1>1, <1>2, <2>3, <2>4 DEF CodeInv
<1>4. CASE login[t].pc # "ask"
  <2>1. login'[t].authtok = login[t].authtok
    BY <1>1, <1>4 DEF StepKind, PlainMove, QuietMove, GroupDropped, UserDropped,
       GroupReturned, Restored, FileReplaced, KeepsCall, Logins
  <2>2. login'[t].pc \in Unanswered => login[t].pc \in Unanswered /\ login'[t].rc = login[t].rc
    BY <1>1, <1>4 DEF StepKind, PlainMove, QuietMove, GroupDropped, UserDropped,
       GroupReturned, Restored, FileReplaced, KeepsCall, Logins, Unanswered, PCs
  <2>3. login'[t].pc # "persist"
    BY <1>1, <1>4 DEF StepKind, PlainMove, QuietMove, GroupDropped, UserDropped,
       GroupReturned, Restored, FileReplaced, Logins
  <2>4. /\ login'[t].rc = "success" /\ Call(t).user # ""
             => login[t].pc = "persist" \/ login[t].rc = "success"
        /\ login[t].pc \notin Nameless => login'[t].account = login[t].account
    BY <1>1, <1>4 DEF StepKind, PlainMove, QuietMove, GroupDropped, UserDropped,
       GroupReturned, Restored, FileReplaced, KeepsCall, Logins, Nameless
  <2>5. /\ login[t].pc \in Nameless => login[t].rc # "success" /\ login[t].pc # "persist"
        /\ login[t].pc \in Nameless /\ Call(t) # NoCall => login[t].authtok = Call(t).authtok
    BY DEF CodeInv, Nameless, Unanswered, PCs
  <2>6. login[t].pc \notin Nameless =>
          /\ Entitled(t) => Entitled(t)'
          /\ IsForwarded(t, login[t].authtok) => IsForwarded(t, login[t].authtok)'
    BY <2>1, <2>4, EntitledStays DEF IsForwarded
  <2>7. /\ login'[t].rc = "success" /\ Call(t).user # "" => Entitled(t)'
        /\ Call(t) # NoCall /\ login'[t].authtok # Call(t).authtok
             => IsForwarded(t, login[t].authtok)'
    BY <2>1, <2>4, <2>5, <2>6 DEF CodeInv
  <2> QED
    BY <1>1, <1>2, <2>1, <2>2, <2>3, <2>7 DEF CodeInv
<1> QED
  BY <1>3, <1>4

\* A call that is past the check has a code that the file accepts or a recent
\* login, and forwards what it was given or the rest of it (obtainOTP).
THEOREM CodesAreKept == Spec => []CodeInv
<1>1. ASSUME Init
      PROVE  CodeInv
  <2>1. \A t \in Threads :
          /\ login[t].pc = "start" /\ login[t].rc = "none"
          /\ Call(t) # NoCall => login[t].authtok = Call(t).authtok
    BY <1>1 DEF Init, NewLogin, Call
  <2> QED
    BY <2>1 DEF CodeInv
<1>2. TypeInv /\ PlaceInv /\ FileInv /\ CodeInv /\ [Next]_vars => CodeInv'
  <2>1. ASSUME CodeInv, UNCHANGED vars
        PROVE  CodeInv'
    BY <2>1 DEF CodeInv, Entitled, IsForwarded, AnswerIs, Secret, SecretPath, Params,
       Call, vars
  <2> QED
    BY <2>1, StepKeepsCodes DEF Next, Finished
<1> QED
  BY <1>1, <1>2, TypesAreKept, FilesAreKept, PTL DEF Spec

\* Nobody is let in without a code of the file or a recent login, but for a
\* call without a user name; calls may overlap (runPamAuth, obtainOTP).
THEOREM GrantedWithCode == Spec => []GrantedOnACode
<1>1. CodeInv => GrantedOnACode
  BY DEF CodeInv, GrantedOnACode, Entitled
<1> QED
  BY <1>1, CodesAreKept, PTL

\* What the next module sees is the password that was given or, once a code
\* was verified, what is left of it; calls may overlap (forward_pass).
THEOREM PasswordIsForwarded == Spec => []PasswordForwarded
<1>1. CodeInv => PasswordForwarded
  BY DEF CodeInv, PasswordForwarded, IsForwarded
<1> QED
  BY <1>1, CodesAreKept, PTL

-----------------------------------------------------------------------------
(***************************************************************************)
(* Who is let in.                                                          *)
(***************************************************************************)

LEMMA StepKeepsPaths ==
  ASSUME TypeInv, PlaceInv, AloneInv, FileInv, PathInv, NEW t \in Threads, Step(t)
  PROVE  PathInv'
<1>1. /\ world' = world /\ login \in [Threads -> Logins] /\ StepKind(t) /\ PlaceOf(t)
      /\ DOMAIN secrets' = DOMAIN secrets
  BY StepIsPlaced, StepKinds, FileWritten DEF TypeInv, PlaceInv
<1>2. \A u \in Looked : /\ u \in Looked' /\ login'[u].account = login[u].account
                       /\ SecretPath(u)' = SecretPath(u) /\ LeftMode(u)' = LeftMode(u)
  BY <1>1, LookedStays DEF SecretPath, Params, LeftMode, Call
<1>3. ~overlapped' => ~overlapped
  BY AloneInStep
<1> SUFFICES ASSUME NEW path \in DOMAIN secrets
             PROVE  /\ secrets'[path].kind = world.secrets[path].kind
                    /\ secrets'[path].parses = world.secrets[path].parses
                    /\ ~overlapped' =>
                         \/ /\ secrets'[path].owner = world.secrets[path].owner
                            /\ secrets'[path].mode = world.secrets[path].mode
                         \/ \E u \in Looked' : IsLeftBy(path, u)'
  BY <1>1 DEF PathInv
<1>4. /\ secrets'[path].kind = secrets[path].kind
      /\ secrets'[path].parses = secrets[path].parses
  BY FileWritten
<1>5. CASE secrets'[path] = secrets[path]
  <2>1. \A u \in Looked : IsLeftBy(path, u) => IsLeftBy(path, u)'
    BY <1>2, <1>5 DEF IsLeftBy
  <2> QED
    BY <1>2, <1>3, <1>4, <1>5, <2>1 DEF PathInv
<1>6. CASE Replace(t) /\ path = SecretPath(t)
  <2>1. /\ login[t].pc = "persist" /\ secrets'[path].owner = ids.euid
        /\ secrets'[path].mode = LeftMode(t)
    BY <1>6, FileWritten
  <2>2. t \in Looked
    BY <1>1, <2>1, ProcessAssumption DEF PlaceOf, Nameless, Looked
  <2>3. ASSUME ~overlapped'
        PROVE  IsLeftBy(path, t)'
    <3>1. ids.euid = UserOf[login[t].account]
      BY <2>1, <2>3, AloneInStep DEF AloneInv, IdsAt, Settled, Wanted, Effective
    <3> QED
      BY <1>2, <1>6, <2>1, <2>2, <3>1 DEF IsLeftBy
  <2> QED
    BY <1>2, <1>4, <2>2, <2>3 DEF PathInv
<1> QED
  BY <1>5, <1>6, FileWritten

\* The file of a welcome call is one it accepts and can read.
LEMMA WelcomeFile ==
  ASSUME TypeInv, FileInv, PathInv, ~overlapped, NEW t \in Threads, IsWelcome(t)
  PROVE  /\ SecretPath(t) \in DOMAIN secrets
         /\ IsValid(t, Secret(t)) /\ Secret(t).parses
         /\ Secret(t).owner = Wanted(t).user
         /\ OwnerReads(Secret(t).mode)
         /\ Call(t).code \in Secret(t).codes
<1> DEFINE path == SecretPath(t)
           file == world.secrets[path]
<1>1. /\ path \in DOMAIN world.secrets /\ IsValid(t, file)
      /\ file.owner = Wanted(t).user /\ OwnerReads(file.mode) /\ file.parses
      /\ Call(t).code \in file.codes
  BY DEF IsWelcome, IsSetUp
<1>2. /\ path \in DOMAIN secrets /\ secrets[path].kind = file.kind
      /\ secrets[path].parses = file.parses /\ secrets[path].codes = file.codes
      /\ \/ secrets[path].owner = file.owner /\ secrets[path].mode = file.mode
         \/ \E u \in Looked : IsLeftBy(path, u)
  BY <1>1 DEF FileInv, PathInv
<1>3. CASE secrets[path].owner = file.owner /\ secrets[path].mode = file.mode
  BY <1>1, <1>2, <1>3 DEF IsValid, Secret
<1>4. CASE \E u \in Looked : IsLeftBy(path, u)
  <2>1. PICK u \in Looked : IsLeftBy(path, u)
    BY <1>4
  <2>2. /\ secrets[path].owner = Wanted(t).user
        /\ secrets[path].mode <= Params(t).allowedPerm
        /\ OwnerReads(secrets[path].mode)
    BY <2>1 DEF IsWelcome, ShareFile, IsLeftBy, Wanted
  <2> QED
    BY <1>1, <1>2, <2>2 DEF IsValid, Secret, Wanted
<1> QED
  BY <1>2, <1>3, <1>4

LEMMA WelcomeBefore ==
  ASSUME TypeInv, PlaceInv, NEW t \in Threads, Step(t), NEW u \in Looked, IsWelcome(u)'
  PROVE  IsWelcome(u)
<1>1. world' = world
  BY StepIsPlaced
<1>2. \A x \in Looked : /\ x \in Looked' /\ login'[x].account = login[x].account
                       /\ SecretPath(x)' = SecretPath(x) /\ Params(x)' = Params(x)
                       /\ LeftMode(x)' = LeftMode(x) /\ Call(x)' = Call(x)
  BY <1>1, LookedStays DEF SecretPath, Params, LeftMode, Call
<1>3. ShareFile(u)
  BY <1>2 DEF IsWelcome, ShareFile
<1>4. CodeReply(u)
  <2>1. AnswerIs(u, Call(u).code)' <=> AnswerIs(u, Call(u).code)
    BY <1>2 DEF AnswerIs
  <2> QED
    BY <1>2, <2>1 DEF IsWelcome, CodeReply
<1>5. IsSetUp(u)
  <2> DEFINE file == world.secrets[SecretPath(u)]
  <2>1. /\ login'[u].account = login[u].account /\ SecretPath(u)' = SecretPath(u)
        /\ Params(u)' = Params(u) /\ Call(u)' = Call(u) /\ file' = file
        /\ Wanted(u)' = Wanted(u) /\ GroupFor(u)' = GroupFor(u)
        /\ TargetUser(u)' = TargetUser(u)
    BY <1>1, <1>2 DEF TargetUser, Wanted, GroupFor
  <2>2. IsSetUp(u)'
    BY DEF IsWelcome
  <2>3. IsValid(u, file)
    <3>1. /\ file'.kind = "regular" /\ file'.mode <= Params(u)'.allowedPerm
          /\ Params(u)'.noStrictOwner \/ file'.owner = UserOf[login'[u].account]
      BY <2>2 DEF IsSetUp, IsValid
    <3> HIDE DEF file
    <3> QED
      BY <2>1, <3>1 DEF IsValid
  <2>4. /\ MaySetGroup(world.ids, GroupFor(u)) /\ OwnerReads(file.mode)
        /\ Params(u).allowReadonly \/ Wanted(u).user \in {Root, DirectoryOwner(SecretPath(u))}
    BY <1>1, <2>1, <2>2
       DEF IsSetUp, MaySetGroup, IsRoot, OwnerReads, ReadableBit, DirectoryOwner, HomeOwner
  <2> QED
    BY <1>1, <2>1, <2>2, <2>3, <2>4 DEF IsSetUp
<1> QED
  BY <1>3, <1>4, <1>5 DEF IsWelcome, Looked

\* A first password with the code right after it.
LEMMA JoinedHasCode ==
  ASSUME NEW password \in Texts, NEW code \in Codes, Len(code) = 1,
         NEW text \in Texts, ~text.blank, text = Then(password, code)
  PROVE  HasOTP(text) /\ ExtractOTP(text).code = code
<1> DEFINE n == Len(text.digits)
<1>1. PICK six \in Sixes : code = <<six>>
  <2>1. ASSUME code \in Pairs \X Sixes
        PROVE  Len(code) = 2
    BY <2>1
  <2> QED
    BY <2>1 DEF Codes
<1>2. text.digits = password.digits \o <<six>>
  BY <1>1 DEF Then, Texts
<1>3. password.digits \in Seq(Pairs \union Sixes)
  <2> DEFINE d == password.digits
             Groups == Pairs \union Sixes
  <2>1. d \in Digits
    BY DEF Texts
  <2> HIDE DEF d
  <2>2. ASSUME d = << >>
        PROVE  d \in Seq(Groups)
    BY <2>2
  <2>3. ASSUME NEW a \in Groups, d = <<a>>
        PROVE  d \in Seq(Groups)
    BY <2>3
  <2>4. ASSUME NEW a \in Groups, NEW b \in Groups, d = <<a, b>>
        PROVE  d \in Seq(Groups)
    BY <2>4
  <2>5. ASSUME NEW a \in Groups, NEW b \in Groups, NEW c \in Groups, d = <<a, b, c>>
        PROVE  d \in Seq(Groups)
    BY <2>5
  <2>6. \/ d = << >> \/ \E a \in Groups : d = <<a>>
        \/ \E a, b \in Groups : d = <<a, b>>
        \/ \E a, b, c \in Groups : d = <<a, b, c>>
    <3>1. \/ d = << >> \/ \E a \in Groups : d = <<a>>
          \/ d \in Groups \X Groups \/ d \in Groups \X Groups \X Groups
      BY <2>1 DEF Digits
    <3> QED
      BY <3>1
  <2>7. d \in Seq(Groups)
    BY <2>2, <2>3, <2>4, <2>5, <2>6
  <2> QED
    BY <2>7 DEF d
<1>4. n = Len(password.digits) + 1 /\ text.digits[n] = six /\ n \in Nat \ {0}
  BY <1>2, <1>3
<1>5. EndsInDigits(text, 6)
  BY <1>4 DEF EndsInDigits
<1>6. ExtractOTP(text).code = SubSeq(text.digits, n, n)
  BY <1>4, <1>5 DEF ExtractOTP, SplitDigits
<1>7. SubSeq(text.digits, n, n) = <<six>>
  <2> DEFINE last == SubSeq(text.digits, n, n)
  <2>1. text.digits \in Seq(Pairs \union Sixes) /\ n = Len(text.digits)
    BY <1>2, <1>3
  <2> HIDE DEF n
  <2>2. Len(last) = 1 /\ last[1] = six /\ last \in Seq(Pairs \union Sixes)
    BY <1>4, <2>1
  <2> HIDE DEF last
  <2>3. <<six>> \in Seq(Pairs \union Sixes)
    OBVIOUS
  <2>4. last = <<six>>
    BY <2>2, <2>3, SeqEqual
  <2> QED
    BY <2>4 DEF last
<1> QED
  BY <1>1, <1>5, <1>6, <1>7 DEF HasOTP

\* A welcome call may become its account.
LEMMA WelcomeMaySwitch ==
  ASSUME TypeInv, RealIds, AloneInv, ~overlapped, NEW t \in Running, IsWelcome(t)
  PROVE  /\ login[t].pc = "compare" => MaySetGroup(ids, GroupFor(t))
         /\ login[t].pc = "dropUser" => MaySetUser(ids, Wanted(t).user)
         /\ login[t].pc # "putBack"
<1>1. IdsAt(t) /\ world.ids.euid \in {Root, Wanted(t).user}
      /\ MaySetGroup(world.ids, GroupFor(t))
  BY DEF AloneInv, IsWelcome, IsSetUp
<1>2. login[t].pc = "compare" => ids = world.ids
  BY <1>1 DEF IdsAt, Early
<1>3. login[t].pc \in {"dropUser", "putBack"} => ids.euid = world.ids.euid
  BY <1>1 DEF IdsAt
<1> QED
  BY <1>1, <1>2, <1>3 DEF IdsAt, MaySetUser, IsRoot

\* It finds a secret file and a template that it can use.
LEMMA WelcomeLoads ==
  ASSUME TypeInv, FileInv, PathInv, AloneInv, ~overlapped, NEW t \in Running, IsWelcome(t),
         login[t].pc = "load"
  PROVE  Loads(t) /\ Rendered(t)
<1>1. ids.euid = Wanted(t).user
  BY DEF AloneInv, IdsAt, Settled, Effective, Wanted
<1>2. /\ SecretPath(t) \in DOMAIN secrets /\ IsValid(t, Secret(t)) /\ Secret(t).parses
      /\ Secret(t).owner = Wanted(t).user /\ OwnerReads(Secret(t).mode)
  BY WelcomeFile, t \in Threads DEF Running
<1>3. MayRead(ids, Secret(t))
  BY <1>1, <1>2 DEF MayRead, OwnerReads
<1>4. Rendered(t)
  <2>1. CASE Params(t).template = ""
    BY <2>1 DEF Rendered
  <2>2. CASE Params(t).template # ""
    <3>1. world.template.mode = 420 /\ world.template.renders
      BY <2>2 DEF IsWelcome, IsSetUp
    <3>2. ReadableBit((420 \div 64) % 8) /\ ReadableBit(420 % 8)
      BY DEF ReadableBit
    <3> QED
      BY <3>1, <3>2 DEF Rendered, MayRead
  <2> QED
    BY <2>1, <2>2
<1> QED
  BY <1>2, <1>3, <1>4 DEF Loads

\* Its reply is taken for the code that it is.
LEMMA WelcomeAsks ==
  ASSUME TypeInv, PlaceInv, FileInv, PathInv, CodeInv, ~overlapped,
         NEW t \in Threads, IsWelcome(t), login[t].pc = "ask", Step(t)
  PROVE  login'[t].pc = "persist"
<1> DEFINE code == Call(t).code
           text == Call(t).authtok
           mode == Params(t).passMode
           answer == Call(t).answer
           joined == Len(code) = 1 /\ ~text.blank /\ text = Then(Call(t).password, code)
<1>1. /\ login \in [Threads -> Logins] /\ login[t] \in Logins
      /\ Call(t) # NoCall /\ login[t].authtok = text
      /\ Call(t).password \in Texts /\ text \in Texts
  BY WorldFacts DEF TypeInv, PlaceInv, PlaceOf, CodeInv, Unanswered, PCs
<1>2. code \in Secret(t).codes /\ code \in Codes
  <2>1. SecretPath(t) \in DOMAIN secrets /\ code \in Secret(t).codes
    BY WelcomeFile
  <2> QED
    BY <2>1 DEF TypeInv, SecretFile, Secret
<1>3. joined => HasOTP(text) /\ ExtractOTP(text).code = code
  BY <1>1, <1>2, JoinedHasCode
<1>4. \/ mode # "prompt" /\ joined
      \/ mode = "tryFirst" /\ ~HasOTP(text) /\ AnswerIs(t, code)
      \/ mode = "prompt" /\ AnswerIs(t, code)
  BY DEF IsWelcome, CodeReply
<1>5. ASSUME NEW verified \in BOOLEAN, verified, NEW rest, Verify(t, verified, rest)
      PROVE  login'[t].pc = "persist"
  <2> DEFINE authtok == IF Forwards(t, verified) /\ rest # EmptyText THEN rest
                        ELSE login[t].authtok
             r == [login[t] EXCEPT !.pc = "persist", !.authtok = authtok]
  <2>1. login' = [login EXCEPT ![t] = r]
    BY <1>1, <1>5 DEF Logins, Verify
  <2> HIDE DEF authtok
  <2>2. r.pc = "persist"
    BY <1>1 DEF Logins
  <2> QED
    BY <1>1, <2>1, <2>2
<1> HIDE DEF code, text, mode, answer, joined
<1>6. CASE FromPassword(t)
  <2> DEFINE otp == ExtractOTP(login[t].authtok)
             v == IF otp.code \in Secret(t).codes THEN TRUE ELSE FALSE
  <2>1. Verify(t, v, otp.rest)
    BY <1>6 DEF FromPassword, Verify, Forwards
  <2>2. mode # "prompt" /\ HasOTP(text)
    BY <1>1, <1>6 DEF FromPassword, TakesPassword, mode
  <2>3. v \in BOOLEAN /\ v
    BY <1>1, <1>2, <1>3, <1>4, <2>2
  <2> HIDE DEF v, otp
  <2> QED
    BY <1>5, <2>1, <2>3
<1>7. CASE Prompt(t)
  <2> DEFINE v == IF IsCode(Trimmed(answer), Secret(t).codes) THEN TRUE ELSE FALSE
  <2>1. mode # "useFirst" /\ (mode = "prompt" \/ ~HasOTP(text))
    BY <1>1, <1>7 DEF Prompt, TakesPassword, mode
  <2>2. AnswerIs(t, code)
    BY <1>3, <1>4, <2>1
  <2>3. answer # NoAnswer /\ Trimmed(answer) = [EmptyText EXCEPT !.digits = code]
    BY <2>2 DEF AnswerIs, answer
  <2>4. code # << >>
    BY <1>2 DEF Codes
  <2>5. /\ [EmptyText EXCEPT !.digits = code].word = NoWord
        /\ [EmptyText EXCEPT !.digits = code].digits = code
        /\ EmptyText.digits = << >>
    BY DEF EmptyText
  <2>6. Trimmed(answer) # EmptyText /\ IsCode(Trimmed(answer), Secret(t).codes)
    BY <1>2, <2>3, <2>4, <2>5 DEF IsCode
  <2>7. Verify(t, v, EmptyText)
    BY <1>7, <2>3, <2>6 DEF Prompt, Verify, Forwards, answer
  <2>8. v \in BOOLEAN /\ v
    BY <2>6
  <2> HIDE DEF v
  <2> QED
    BY <1>5, <2>7, <2>8
<1>8. CASE Grace(t)
  <2> DEFINE r == [login[t] EXCEPT !.pc = "persist", !.said = Saying(t)]
  <2>1. login' = [login EXCEPT ![t] = r]
    BY <1>1, <1>8 DEF Logins, Grace
  <2> QED
    BY <1>1, <2>1 DEF Logins
<1>9. ~NoCodeInPassword(t)
  BY <1>1, <1>3, <1>4 DEF NoCodeInPassword, TakesPassword, mode
<1> QED
  BY <1>6, <1>7, <1>8, <1>9 DEF Step, Start, Reopen, AfterMove, UpdateHome,
     ParseArguments, NoUserName, LookUp, ReadUser, ReadGroup, NothingToDrop, DropGroup,
     DropUser, PutBack, RestoreUser, RestoreGroup, Load, NothingToWrite, Replace,
     CannotReplace

\* And the file it has read is its to replace, or need not be replaced.
LEMMA WelcomePersists ==
  ASSUME TypeInv, PlaceInv, AloneInv, ~overlapped, NEW t \in Running, IsWelcome(t),
         login[t].pc = "persist", IsUnmodified(t), Step(t)
  PROVE  login'[t].rc = "success"
<1>1. /\ login \in [Threads -> Logins] /\ login[t] \in Logins /\ t \in Threads
      /\ Saying(t) \subseteq Outputs /\ "success" \in Answers
  BY SayingIsOutput DEF TypeInv, Running, Answers
<1>2. ids.euid = Wanted(t).user
  BY DEF AloneInv, IdsAt, Settled, Effective, Wanted
<1>3. MayReplace(t) \/ Params(t).allowReadonly
  BY <1>2 DEF IsWelcome, IsSetUp, MayReplace, MayWriteIn
<1>4. EndsSaying(t, "success")
  <2>1. CASE CannotReplace(t)
    BY <1>3, <2>1 DEF CannotReplace
  <2>2. CASE NothingToWrite(t) \/ Replace(t)
    BY <2>2 DEF NothingToWrite, Replace
  <2> QED
    BY <2>1, <2>2 DEF Step, Start, Reopen, AfterMove, UpdateHome, ParseArguments,
       NoUserName, LookUp, ReadUser, ReadGroup, NothingToDrop, DropGroup, DropUser,
       PutBack, RestoreUser, RestoreGroup, Load, Grace, Asks, FromPassword,
       NoCodeInPassword, Prompt
<1>5. login'[t] = Ended(login[t], "success", Saying(t))
  BY <1>1, <1>4, EndsChanges DEF EndsSaying
<1> QED
  BY <1>1, <1>5 DEF Ended, Logins

Answered == {"restore", "restoreGroup", "done"}

\* Nor does any other step stand in its way.
LEMMA WelcomeGoesOn ==
  ASSUME TypeInv, PlaceInv, RealIds, AloneInv, FileInv, PathInv, CodeInv, ReplyInv,
         NEW t \in Looked, IsWelcome(t), Step(t), ~overlapped'
  PROVE  login'[t].rc = IF login'[t].pc \in Answered THEN "success" ELSE "none"
<1>1. /\ ~overlapped /\ t \in Threads /\ StepKind(t) /\ PlaceOf(t)
      /\ login[t].account # NoAccount
      /\ login[t].rc = IF login[t].pc \in Answered THEN "success" ELSE "none"
  BY AloneInStep, StepKinds DEF PlaceInv, Looked, ReplyInv, Answered
<1>2. login[t].pc \notin Nameless /\ t \in Running
  BY <1>1, AloneInStep DEF PlaceOf, Nameless
<1>3. /\ login[t].pc = "compare" => MaySetGroup(ids, GroupFor(t))
      /\ login[t].pc = "dropUser" => MaySetUser(ids, Wanted(t).user)
      /\ login[t].pc # "putBack"
      /\ login[t].pc = "load" => Loads(t) /\ Rendered(t)
  BY <1>1, <1>2, WelcomeMaySwitch, WelcomeLoads
<1>4. CASE \/ PlainMove(t) \/ GroupDropped(t) \/ UserDropped(t) \/ GroupReturned(t)
           \/ Restored(t) \/ FileReplaced(t)
  BY <1>1, <1>3, <1>4 DEF PlainMove, GroupDropped, UserDropped, GroupReturned, Restored,
     FileReplaced, KeepsCall, TypeInv, Logins, Answered
<1>5. CASE Quiet(t) /\ QuietMove(t)
  <2>1. login[t].pc = "load" => login'[t].pc = "ask"
    <3>1. ASSUME login[t].pc = "load"
          PROVE  login' = [login EXCEPT ![t].pc = "ask", ![t].inode = Secret(t).inode]
      BY <1>3, <1>5, <3>1 DEF Quiet, ParseArguments, NoUserName, LookUp, ReadUser,
         ReadGroup, NothingToDrop, Grace, Asks, FromPassword, NoCodeInPassword, Prompt,
         NothingToWrite, CannotReplace, Load, Loads
    <3> QED
      BY <1>1, <3>1 DEF TypeInv, Logins
  <2>2. login[t].pc = "ask" => login'[t].pc = "persist"
    BY <1>1, WelcomeAsks
  <2>3. login[t].pc = "persist" => login'[t].rc = "success"
    BY <1>1, <1>2, WelcomePersists DEF ReplyInv, IsUnmodified
  <2> QED
    BY <1>1, <1>2, <1>5, <2>1, <2>2, <2>3 DEF QuietMove, Nameless, Answered
<1> QED
  BY <1>1, <1>4, <1>5 DEF StepKind

LEMMA StepKeepsReply ==
  ASSUME TypeInv, PlaceInv, RealIds, AloneInv, FileInv, PathInv, CodeInv, ReplyInv,
         NEW t \in Threads, Step(t)
  PROVE  ReplyInv'
<1> SUFFICES ASSUME ~overlapped', NEW u \in Threads
             PROVE  /\ login'[u].pc \in {"ask", "persist"} =>
                         Secret(u)'.inode = login'[u].inode
                    /\ IsWelcome(u)' =>
                         login'[u].rc = IF login'[u].pc \in Answered THEN "success" ELSE "none"
  BY DEF ReplyInv, Answered
<1>1. /\ world' = world /\ login \in [Threads -> Logins] /\ OthersStay(t) /\ StepKind(t)
      /\ PlaceOf(t) /\ PlaceOf(u)
  BY StepIsPlaced, StepKinds DEF TypeInv, PlaceInv, IsPlaced
<1>2. /\ ~overlapped /\ Running \subseteq {t}
      /\ login[t].pc # "start" => t \in Running
  BY AloneInStep
<1>3. u \in Looked /\ IsWelcome(u)' => IsWelcome(u)
  BY WelcomeBefore
<1>4. CASE u # t
  <2>1. login'[u] = login[u] /\ login[u].pc \notin {"ask", "persist"}
    BY <1>1, <1>2, <1>4 DEF OthersStay, Running
  <2>2. IsWelcome(u)' => u \in Looked
    BY <2>1 DEF IsWelcome, Looked
  <2> QED
    BY <1>2, <1>3, <2>1, <2>2 DEF ReplyInv, Answered
<1>5. CASE u = t
  <2>1. login'[t].pc \in {"ask", "persist"} => Secret(t)'.inode = login'[t].inode
    <3>1. login'[t].pc \in {"ask", "persist"} =>
            /\ secrets' = secrets /\ SecretPath(t)' = SecretPath(t)
            /\ \/ login[t].pc = "load" /\ login'[t].inode = Secret(t).inode
               \/ login[t].pc = "ask" /\ login'[t].inode = login[t].inode
      BY <1>1, StepKeepsFile DEF StepKind, PlainMove, GroupDropped, UserDropped,
         GroupReturned, Restored, FileReplaced, QuietMove, Logins
    <3> QED
      BY <1>2, <3>1 DEF ReplyInv, Secret
  <2>2. ASSUME IsWelcome(t)', t \notin Looked
        PROVE  login'[t].rc = "none" /\ login'[t].pc \notin Answered
    <3>1. login[t].account = NoAccount /\ login'[t].account # NoAccount
      BY <2>2 DEF IsWelcome, Looked
    <3>2. login[t].pc \in Nameless
      BY <1>1, <1>2, <3>1, ProcessAssumption DEF PlaceOf, Running, Nameless
    <3>3. login[t].rc = "none"
      BY <3>2 DEF CodeInv, Nameless, Unanswered, PCs
    <3>4. login[t].pc = "account" /\ login'[t].pc = "moveLog" /\ login'[t].rc = login[t].rc
      BY <1>1, <3>1, <3>2 DEF StepKind, PlainMove, GroupDropped, UserDropped,
         GroupReturned, Restored, FileReplaced, QuietMove, Logins, KeepsCall, Nameless
    <3> QED
      BY <3>3, <3>4 DEF Answered
  <2>3. ASSUME IsWelcome(t)', t \in Looked
        PROVE  login'[t].rc = IF login'[t].pc \in Answered THEN "success" ELSE "none"
    BY <1>3, <1>5, <2>3, WelcomeGoesOn
  <2> QED
    BY <1>5, <2>1, <2>2, <2>3
<1> QED
  BY <1>4, <1>5

\* A call that nothing is in the way of has not failed at any of its steps
\* (runPamAuth).
THEOREM WelcomeIsKept == Spec => [](PathInv /\ ReplyInv)
<1>1. ASSUME Init
      PROVE  PathInv /\ ReplyInv
  <2>1. \A t \in Threads : login[t].pc = "start" /\ login[t].account = NoAccount
    BY <1>1 DEF Init, NewLogin
  <2>2. secrets = world.secrets
    BY <1>1 DEF Init
  <2> QED
    BY <2>1, <2>2 DEF PathInv, ReplyInv, IsWelcome
<1> DEFINE Inv == TypeInv /\ PlaceInv /\ IdsInv /\ FileInv /\ CodeInv
<1>2. Inv /\ PathInv /\ ReplyInv /\ [Next]_vars => PathInv' /\ ReplyInv'
  <2>1. ASSUME PathInv, ReplyInv, UNCHANGED vars
        PROVE  PathInv' /\ ReplyInv'
    <3>1. \A t : /\ SecretPath(t)' = SecretPath(t) /\ Params(t)' = Params(t)
                 /\ Call(t)' = Call(t) /\ Secret(t)' = Secret(t)
                 /\ LeftMode(t)' = LeftMode(t)
      BY <2>1 DEF SecretPath, Params, Call, Secret, LeftMode, vars
    <3>2. PathInv'
      BY <2>1, <3>1 DEF PathInv, IsLeftBy, Looked, vars
    <3>3. ASSUME NEW t \in Threads
          PROVE  IsWelcome(t)' => IsWelcome(t)
      <4>1. ShareFile(t)' => ShareFile(t)
        BY <2>1, <3>1 DEF ShareFile, Looked, vars
      <4>2. CodeReply(t)' => CodeReply(t)
        BY <3>1 DEF CodeReply, AnswerIs
      <4>3. IsSetUp(t)' => IsSetUp(t)
        <5> DEFINE file == world.secrets[SecretPath(t)]
        <5>1. /\ world' = world /\ login' = login /\ file' = file /\ Wanted(t)' = Wanted(t)
              /\ TargetUser(t)' = TargetUser(t) /\ GroupFor(t)' = GroupFor(t)
          BY <2>1, <3>1 DEF vars, TargetUser, Wanted, GroupFor
        <5>2. IsValid(t, file)' => IsValid(t, file)
          BY <3>1, <5>1 DEF IsValid
        <5> SUFFICES ASSUME IsSetUp(t)'
                     PROVE  IsSetUp(t)
          OBVIOUS
        <5>3. /\ MaySetGroup(world.ids, GroupFor(t)) /\ OwnerReads(file.mode)
              /\ \/ Params(t).allowReadonly
                 \/ Wanted(t).user \in {Root, DirectoryOwner(SecretPath(t))}
          BY <3>1, <5>1 DEF IsSetUp, MaySetGroup, IsRoot, OwnerReads, ReadableBit,
             DirectoryOwner, HomeOwner
        <5> QED
          BY <3>1, <5>1, <5>2, <5>3 DEF IsSetUp
      <4> QED
        BY <2>1, <4>1, <4>2, <4>3 DEF IsWelcome, vars
    <3> QED
      BY <2>1, <3>1, <3>2, <3>3 DEF ReplyInv, vars
  <2> QED
    BY <2>1, StepKeepsPaths, StepKeepsReply DEF Next, Finished, IdsInv
<1>3. Spec => []Inv
  BY TypesAreKept, IdsAreKept, FilesAreKept, CodesAreKept, PTL
<1> QED
  BY <1>1, <1>2, <1>3, PTL DEF Spec

\* Whoever gives the code alone at the prompt, or six digits right after a first
\* password, is let in: the end of a password is taken
\* for the code that it is, the privileges that were dropped suffice for the
\* file that an earlier login has left, and nothing else refuses the call
\* (obtainOTP, extractOTP, runPamAuth).
THEOREM CodeReplyIsGranted == Spec => []CodeReplyGranted
<1>1. ReplyInv => CodeReplyGranted
  BY DEF ReplyInv, CodeReplyGranted, Called, IsWelcome
<1> QED
  BY <1>1, WelcomeIsKept, PTL

-----------------------------------------------------------------------------
(***************************************************************************)
(* The types as they are checked: a log that is open or written to is one  *)
(* there is, and an account is one that was found.                         *)
(***************************************************************************)

Places == DOMAIN logOwners \union {Stderr, Lost}

ThereInv ==
  /\ log.file \in DOMAIN logOwners \union {NoFile}
  /\ log.output \in DOMAIN logOwners \union {Stderr}
  /\ \A t \in Threads : /\ login[t].said \subseteq Places
                        /\ login[t].account \in world.known \union {NoAccount}

\* Only LookUp gives a call an account, and only one that is known.
LEMMA AccountIsKnown ==
  ASSUME TypeInv, PlaceInv, NEW t \in Threads, Step(t)
  PROVE  login'[t].account \in {login[t].account} \union world.known
<1>1. login \in [Threads -> Logins] /\ login[t] \in Logins /\ StepKind(t)
  BY StepKinds DEF TypeInv
<1>2. CASE Quiet(t) /\ QuietMove(t) /\ login[t].pc = "account" /\ login'[t].pc = "moveLog"
  <2>1. ASSUME NEW answer, NEW said, Ends(t, answer, said)
        PROVE  login'[t].account = login[t].account
    BY <1>1, <2>1 DEF Ends, Logins
  <2>2. CASE NoUserName(t)
    BY <2>1, <2>2 DEF NoUserName, EndsSilently
  <2>3. CASE LookUp(t)
    <3>1. ASSUME NEW account, NEW said,
                 login' = [login EXCEPT ![t].pc = "moveLog", ![t].account = account,
                                        ![t].said = said]
          PROVE  login'[t].account = account
      BY <1>1, <3>1 DEF Logins
    <3>2. CASE TargetUser(t) \in world.known
      BY <2>3, <3>1, <3>2 DEF LookUp
    <3>3. CASE TargetUser(t) \notin world.known /\ HasFallback
      BY <2>3, <3>1, <3>3 DEF LookUp, HasFallback
    <3>4. CASE TargetUser(t) \notin world.known /\ ~HasFallback
      BY <2>1, <2>3, <3>4 DEF LookUp, EndsSaying
    <3> QED
      BY <3>2, <3>3, <3>4
  <2> QED
    BY <1>2, <2>2, <2>3 DEF Quiet, ParseArguments, ReadUser, ReadGroup, NothingToDrop,
       Load, Grace, FromPassword, NoCodeInPassword, Prompt, Asks, NothingToWrite,
       CannotReplace
<1> QED
  BY <1>1, <1>2 DEF StepKind, PlainMove, GroupDropped, UserDropped, GroupReturned,
     Restored, KeepsCall, FileReplaced, QuietMove, Logins

LEMMA StepKeepsThere ==
  ASSUME TypeInv, PlaceInv, HandleInv, ThereInv, NEW t \in Threads, Step(t)
  PROVE  ThereInv'
<1>1. /\ world' = world /\ login \in [Threads -> Logins] /\ login[t] \in Logins
      /\ OthersStay(t) /\ StepKind(t) /\ log \in Loggers
  BY StepIsPlaced, StepKinds DEF TypeInv, IsPlaced
<1>2. DOMAIN logOwners \subseteq DOMAIN logOwners' /\ Places \subseteq Places'
  BY LogOwnersGrow DEF Places
<1>3. /\ log'.file \in DOMAIN logOwners' \union {NoFile}
      /\ log'.output \in DOMAIN logOwners' \union {Stderr}
  <2>1. CASE Takes(t)
    BY <1>1, <1>2, <2>1 DEF Takes, Configure, ConfigureBegins, ThereInv, Loggers
  <2>2. CASE LetsGo(t)
    <3> DEFINE dir == LogTarget(t).dir
    <3>1. logOwners' = WithLog(logOwners, dir, ids.euid) => dir \in DOMAIN logOwners'
      BY DEF WithLog
    <3> HIDE DEF dir
    <3> QED
      BY <1>2, <2>2, <3>1, MoveEnds DEF ThereInv, dir
  <2>3. CASE Leaves(t)
    BY <2>3 DEF Leaves, ThereInv
  <2> QED
    BY <2>1, <2>2, <2>3, LogIsMoved
<1>4. Saying(t) \subseteq Places
  BY DEF Saying, WhereMessagesGo, ThereInv, Places
<1>5. login'[t].said \subseteq login[t].said \union Saying(t)
  BY <1>1 DEF StepKind, PlainMove, GroupDropped, UserDropped, GroupReturned, Restored,
     KeepsCall, FileReplaced, QuietMove, Logins
<1>6. login'[t].said \subseteq Places'
  BY <1>2, <1>4, <1>5 DEF ThereInv
<1>7. \A u \in Threads \ {t} : login'[u].said \subseteq Places' /\ login'[u] = login[u]
  BY <1>1, <1>2 DEF ThereInv, OthersStay
<1> QED
  BY <1>1, <1>3, <1>6, <1>7, AccountIsKnown DEF ThereInv

\* Ids, log, files and calls have their types: a message goes to a log file
\* there is or is lost, a file that was replaced has a mode that Chmod can give
\* it, and a call never has an account that was not found (WriteConfig,
\* configure, runPamAuth).
THEOREM ProcessTypeCorrect == Spec => []TypeOK
<1> DEFINE Inv == TypeInv /\ PlaceInv /\ HandleInv
<1>1. Init => HandleInv /\ ThereInv
  BY DEF Init, HandleInv, ThereInv, NewLogin, NewLogger, Moving
<1>2. Inv /\ ThereInv /\ [Next]_vars => HandleInv' /\ ThereInv'
  <2>1. ASSUME HandleInv, ThereInv, UNCHANGED vars
        PROVE  HandleInv' /\ ThereInv'
    BY <2>1 DEF HandleInv, ThereInv, Places, vars
  <2> QED
    BY <2>1, StepKeepsHandle, StepKeepsThere DEF Next, Finished
<1>3. TypeInv /\ FileInv /\ ThereInv => TypeOK
  BY DEF TypeInv, FileInv, ThereInv, TypeOK, Loggers, Logins, Places
<1> QED
  BY <1>1, <1>2, <1>3, TypesAreKept, FilesAreKept, PTL DEF Spec
=============================================================================
