----------------------------- MODULE MCPamProcess -----------------------------
(***************************************************************************)
(* PamProcess on small instances: one call with every kind of arguments,   *)
(* files and answers, and two or three calls at once or one after the      *)
(* other.                                                                  *)
(***************************************************************************)
EXTENDS PamProcess, TLC

CONSTANTS
  one, two, three, \* threads
  word,           \* a password, or its beginning
  pair, another,  \* two digits
  six, end, stray \* six digits: a code, the end of a scratch code, of a password

AllThreads == {one, two, three}
OneWord == {word}
TwoPairs == {pair, another}
ThreeSixes == {six, end, stray}

\* oscar's primary group is root's.
People == {"root", "alice", "bob", "oscar", "nobody"}
Users == [root |-> 0, alice |-> 1, bob |-> 2, oscar |-> 3, nobody |-> 9]
Groups == [Users EXCEPT !["oscar"] = 0]

RunBy(u, effective) ==
  LET user == Users[u] group == Groups[u]
  IN  [uid |-> user, euid |-> user, suid |-> user,
       gid |-> group, egid |-> effective, sgid |-> effective]
Daemon == RunBy("root", 0)
Locker == RunBy("alice", 1)
\* A set-user-id program of root's, like su.
Su == [RunBy("alice", 1) EXCEPT !.euid = Root, !.suid = Root]
\* Set-group-id programs.
ShadowLocker == RunBy("alice", 8)
ShadowLockerOfOscar == RunBy("oscar", 8)

Arg(name, value) == [name |-> name, value |-> value]
FlagArg(name) == Arg(name, NoValue)

Text(w, digits) == [word |-> w, digits |-> digits, blank |-> FALSE]
Code == <<six>>
Scratch == <<another, end>>

Good(owner) ==
  [inode |-> 1, kind |-> "regular", owner |-> owner, mode |-> OwnerOnly,
   parses |-> TRUE, codes |-> {Code, Scratch}, recent |-> FALSE]
Home(account) == [name |-> "home", of |-> account]
OneFile(path, file) == path :> file
HomeFiles ==
  [path \in {Home(a) : a \in {"alice", "bob", "oscar"}} |-> Good(Users[path.of])]

HomeOf(user) == CHOOSE a \in People : Users[a] = user

NoOwners == [dir \in {} |-> 0]

Person(args, user) ==
  [args |-> args, user |-> user, password |-> Text(word, << >>), code |-> Code,
   authtok |-> EmptyText, answer |-> Text(NoWord, Code)]

World(i, to, owners, files, calls) ==
  [ calls |-> calls, known |-> People, ids |-> i,
    logTo |-> to, logDir |-> IF to = "fixed" THEN "var" ELSE HomeOf(i.uid),
    logDirOwner |-> IF to = "fixed" THEN Root ELSE i.uid, logOwners |-> owners, secrets |-> files,
    template |-> [owner |-> 0, mode |-> 420, renders |-> TRUE] ]

Only(call) == [t \in Threads |-> IF t = one THEN call ELSE NoCall]

-----------------------------------------------------------------------------
\* How a password and a code are typed, asked for and taken apart.
Passwords == {Text(word, << >>), Text(word, <<pair>>), Text(word, <<stray>>),
              EmptyText}
ModeArgs == {<< >>, <<FlagArg("try_first_pass")>>, <<FlagArg("use_first_pass")>>}
ForwardArgs == {<< >>, <<FlagArg("forward_pass")>>}

TypedCalls ==
  UNION {
    LET joined == Then(p, c)
        code   == Text(NoWord, c)
    IN  { [args |-> m \o f, user |-> "alice", password |-> p, code |-> c,
           authtok |-> a, answer |-> r] :
            a \in {EmptyText, p, joined, [joined EXCEPT !.blank = TRUE]},
            r \in {code, [code EXCEPT !.blank = TRUE], joined,
                   Text(NoWord, <<stray>>), NoAnswer} } :
    m \in ModeArgs, f \in ForwardArgs, p \in Passwords, c \in {Code, Scratch} }

TypedWorlds ==
  {World(Daemon, "stderr", NoOwners, HomeFiles, Only(call)) : call \in TypedCalls}

-----------------------------------------------------------------------------
\* Whose account, which file, which arguments: one call.
ManyArgs ==
  { << >>, <<FlagArg("nullok"), FlagArg("debug")>>, <<Arg("secret", "own")>>,
    <<Arg("secret", "common"), FlagArg("no_strict_owner"),
      FlagArg("allow_readonly")>>,
    <<Arg("allowed_perm", 292), FlagArg("no_strict_owner")>>,
    <<Arg("allowed_perm", 512 + OwnerOnly)>>,
    <<Arg("user", "bob"), Arg("authtok_prompt", "own"), FlagArg("forward_pass")>>,
    <<Arg("prompt_file", "t"), Arg("grace_period", 5)>>,
    <<FlagArg("nullok"), Arg("grace_period", Unparsed)>>,
    <<Arg("prompt_template", "")>>, <<Arg("debug", "1")>>,
    <<Arg("allowed_perm", 0)>>, <<FlagArg("no such argument")>> }

ManyFiles ==
  { OneFile(Home("alice"), f) : f \in
      { Good(1), Good(0), [Good(1) EXCEPT !.kind = "other"],
        [Good(1) EXCEPT !.parses = FALSE], [Good(1) EXCEPT !.recent = TRUE],
        [Good(0) EXCEPT !.mode = 292], [Good(1) EXCEPT !.mode = 292] } }
    \union { OneFile([name |-> "own", of |-> "alice"], Good(1)),
             OneFile([name |-> "common", of |-> "everyone"],
                     [Good(0) EXCEPT !.mode = 292]),
             HomeFiles, OneFile(Home("nobody"), Good(9)) }

AccountWorlds ==
  { [World(i, to, NoOwners, files, Only(Person(args, user)))
       EXCEPT !.known = known, !.template = t] :
      i \in {Daemon, ShadowLocker}, to \in {"stderr", "home"},
      files \in ManyFiles, args \in ManyArgs,
      user \in {"alice", "stranger", "", "unavailable"},
      known \in {People, People \ {"nobody"}},
      t \in {[owner |-> 0, mode |-> 420, renders |-> TRUE],
             [owner |-> 0, mode |-> 384, renders |-> TRUE],
             [owner |-> 1, mode |-> 384, renders |-> FALSE]} }

-----------------------------------------------------------------------------
\* Two calls in one process, with every place to log.
Calls == {<<Person(<< >>, "alice"), Person(<< >>, "alice")>>,
          <<Person(<< >>, "alice"), Person(<< >>, "bob")>>,
          <<Person(<< >>, "bob"), Person(<< >>, "oscar")>>,
          <<Person(<< >>, "oscar"), Person(<< >>, "stranger")>>,
          <<Person(<< >>, "alice"), Person(<< >>, "root")>>,
          <<Person(<< >>, "bob"), Person(<<FlagArg("unknown")>>, "alice")>>}

SharedWorlds ==
  { World(i, to, owners, HomeFiles,
          [t \in Threads |-> CASE t = one -> calls[1] [] t = two -> calls[2]
                               [] OTHER -> NoCall]) :
      i \in {Daemon, Locker, ShadowLocker, ShadowLockerOfOscar},
      to \in {"stderr", "home", "fixed"},
      owners \in {NoOwners, [alice |-> 1], [alice |-> 1, bob |-> 2, var |-> 0]},
      calls \in Calls }

-----------------------------------------------------------------------------
\* Three calls: for one account, for two, and for three.
CrowdedWorlds ==
  { World(i, "stderr", NoOwners, HomeFiles,
          [t \in Threads |-> Person(<< >>, CASE t = one -> "alice" [] t = two -> second
                                             [] OTHER -> third)]) :
      i \in {Daemon, Su}, second \in {"alice", "bob"}, third \in {"alice", "stranger"} }

AllWorlds == TypedWorlds \union AccountWorlds \union SharedWorlds \union CrowdedWorlds
=============================================================================
