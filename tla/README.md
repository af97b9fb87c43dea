# TLA+ models of ggpam

ggpam is a Go implementation of Google Authenticator: a PAM module and a command
line that check one-time passwords against a secret file in the user's home. These
modules model the verifier, the configuration it changes, the text of the file, the
command that makes it, the concurrent logins and commands that read and replace it, and
the process around a login: arguments, privileges, conversation and log. TLC checks them
on small instances; TLAPS proves every safety property for every instance.

## 1. The system

| Component | State | Operations | Talks to |
|---|---|---|---|
| Configuration, `pkg/config` | one `Config`: secret, scratch codes, options, `Dirty` | scratch codes, list of used TOTP counters, rate limiter, skew samples, login records | changed by the verifier and by `runPamAuth` |
| Secret file text, `pkg/config` | the lines of the file | `Parse`, `Bytes`, `Save` | the PAM module, the CLI |
| Verifier, `pkg/authenticator`, `pkg/otp` | none of its own | `VerifyCode`: limiter, shape of the token, scratch code, TOTP or HOTP | changes the `Config` it is given, on many error returns too |
| File access, `pkg/pam/config.go` | the file, its `FileState`, `flock` | `LoadConfig`, `WriteConfig` | other logins, the owner, through the file system |
| PAM login, `cmd/pam/main.go` | a login's local variables | `runPamAuth`: load, grace period, prompt, verify, persist | the application (its answer), a person (the prompt) |
| Conversation, `cmd/pam/main.go` | none | `obtainOTP`, `extractOTP`, forwarding the rest of a password | PAM items |
| Arguments, `pkg/pam/params.go` | none | `ParseParams` | |
| Privileges, `cmd/pam/main.go` | effective user and group of the process | `dropPrivileges`, `restorePrivileges` | every login in the process |
| Prompt template, `cmd/pam/prompt_template.go` | none | read and render a file | `runPamAuth`, with the user's privileges |
| CLI verify, `cmd/cli/verify.go` | `path.tmp`, shared by all its processes | load, verify, `Save` | the same file, without comparison or lock |
| CLI init, `cmd/cli/init.go`, `pkg/util/prompt.go` | flags, two readers of the standard input, a `Config` | `runInit`: questions, ranges, `confirmCode`, `Save` | the user or a script; the file |
| Logging, `pkg/logging` | a process-wide logger | `ConfigureDefault`, `UpdateHome` | every login in the process |
| Messages, utilities, version, SELinux label, scripts | none that matters | | |

What is hard about it:

- A login reads the file, waits for a person, and writes back what it read, changed.
  Several logins of one user do so at once; the only protection is that `WriteConfig`
  compares the file's device, inode, size and time with those it read. Writes fail,
  processes die, the owner edits the file or removes it.
- The verifier is a small state machine of its own over many calls: a bounded list of
  stamps must act as a sliding window, a pruned list of used counters must block every
  replay, a counter moves by look-ahead and by failure, three observations move the
  clock correction.
- Users and groups and the logger belong to the process, and each login switches them
  and switches them back, with errors that are ignored.
- `ggpam verify` writes the same file with neither lock nor comparison, through a
  temporary whose name all its processes share.
- What one login leaves in memory must survive `Bytes` and `Parse`.
- `ggpam init` has its own copy of the verifier's window and of the parser's ranges, and
  two buffered readers on one input, which may end anywhere.

What makes each part correct:

- configuration and verifier: no code is accepted twice; the limiter decides as if it
  remembered everything; the skew changes only on independent evidence and the new
  value fits the device;
- logins: whatever the interleaving, a code lets one login in; a limit on logins holds
  across files; a login without a code follows one with a code; nobody's edit is
  overwritten unseen; what is spent is spent on the disk; no login waits for another's
  user;
- command: what it spends no login accepts; a save that dies spoils nothing;
- process: a file is read and replaced as its owner; the process is who it was
  afterwards; who gives the code is let in, nobody else, and the password passed on is
  the one that was typed; the log leaks no descriptors and goes to nobody else's home;
- file: it reads back what was written, in any order of its lines;
- init: it ends, writes only when told to, and what it writes loads and verifies.

`PROJECT.json` lists the hazards at their lines, with the properties that cover them.

## 2. The modules

| Module | Models |
|---|---|
| `GGConfig` | `Config` as a record and every operation on it as an operator from a configuration to the one it leaves |
| `Authenticator` | `VerifyCode`, `totpAlgorithm.Verify`, `hotpAlgorithm.Verify`, `detectSkew`, as operators that return result, counter and configuration |
| `VerifyLoop` | one process that holds a `Config` and verifies tokens while the clock moves |
| `SlidingWindow` | abstract: what a rate limit promises, with a memory of all calls |
| `PamLogin` | concurrent `runPamAuth`s on one file, with `LoadConfig` and `WriteConfig` |
| `AtomicFile` | abstract: a file that each login replaces in one step |
| `PamCli` | `PamLogin` and concurrent `runVerify`s on the same file, with `Config.Save` |
| `PamArguments` | `ParseParams` and `ResolveSecretPath` |
| `Conversation` | texts people type; `extractOTP`, `splitDigits` |
| `Privileges` | ids of a process, and what the kernel lets it do |
| `Logger` | the logger of a process |
| `PamProcess` | threads of one process in `goPamAuthenticate`, composed of the four modules before |
| `ConfigFile` | `Bytes` and `Parse` on sequences of lines |
| `SecretStore` | a configuration that is changed, written and read, while its owner reorders lines |
| `InitCommand` | `runInit` from flags and input to the file |
| `MCVerifyLoop`, `MCPamLogin`, `MCPamCli`, `MCPamProcess`, `MCSecretStore`, `MCInitCommand` | the instances TLC checks |
| `GGConfigProofs`, `AuthenticatorProofs` | lemmas on the operators: of a configuration, of the lines of a file, of a verification |
| `VerifyLoopProofs` | of `VerifyLoop`: invariants, replay theorems, the rate limiter and the refinement of `SlidingWindow` |
| `PamLoginProofs` | of `PamLogin`: the refinement of `AtomicFile`, no blind overwrite, what is spent stays spent; types, and what the file remembers of earlier logins |
| `PamCliProofs` | of `PamCli`: types, whole files, the codes of both writers |
| `PamProcessProofs` | of `PamProcess`: types, the process, its log, the files, who is let in |
| `SecretStoreProofs` | of `SecretStore`: types, the round trip, the order of lines |
| `InitCommandProofs` | of `InitCommand`: types, no file without a yes, what is written loads and was confirmed as it verifies |

`GGConfig` and `Authenticator` have no state. `VerifyLoop` and `PamLogin` both use
them: the same definition of a call serves a process that keeps its `Config` and logins
that load and store it. `SecretStore` justifies `PamLogin`'s treatment of the file as
the configuration `Stored(c)`: that is what comes back of `c` where no remote host has
white space to lose (`PlainHostsComeBack`). What becomes of other hosts is `SecretStore`'s
matter, and the hosts of `PamLogin` and `PamCli` are without.
`PamLogin` and `PamProcess` describe the same handler from two sides. `PamProcess` has
everything before the file is opened and after the answer is settled, and takes the
steps `PamLogin` refines (lock, verify, compare and rename) as one each; `PamLogin`
takes what `PamProcess` settles (arguments, account, privileges) as given. `PamCli`
extends `PamLogin` by a second kind of writer and leaves its actions as they are.
`InitCommand` uses both `ConfigFile` and `Authenticator`, to say that the file it wrote
is one that `Parse` and `VerifyCode` accept.
Operators named `...Mutant` are plausible mistakes in the operator that follows them;
nothing uses them, and for each property one of them is known to violate it.

### How the modules correspond to the code

- A Go method on `*Config` that returns an error becomes a pair: a predicate for the
  error (`IsRateLimited`, `IsReused`) and an operator for what it leaves behind
  (`EnforceRateLimit`), because most change the configuration even when they refuse.
- `VerifyCode` keeps the order of the checks: a missing secret before the limiter, the
  limiter before the shape of the token, six digits before the secret is decoded. The
  HMAC is a constant operator `Compute` from counters to codes; nothing is assumed of
  it, so two counters may have the same code.
- Where Go leaves the choice open (the iteration order of the map of login records),
  `UpdateLoginRecord` is a set of configurations.
- In `PamLogin` each access to the file is a step: open, lock, read, compare, rename,
  sync. What happens in memory between two of them is one step. Each inode ever put in
  place is an element of `contents`, and `dir` says which one the path names; its
  position stands for the `FileState`. An inode number freed by one rename and used by
  the next would still differ in its modification time, which is in nanoseconds.
- A login that ends forgets its memory (`Answer`); one that dies does so at any point
  after it opened the file (`Kill`), and the kernel drops its lock with it.
- The directory is on the disk only after `SyncDir`. `durable` holds what the path may
  name after a power loss: each name since the last synchronisation (`PowerLoss`).
- In `PamCli`, `Save` opens `path.tmp` (truncating what is there), writes, renames: three
  steps, each of which may fail or be the last. Two commands may have one inode open,
  which one of them has already put in place; `Rewrite` gives the inode a new position
  (a new modification time) and moves all who name it, except the `FileState` a login
  keeps. Data written over longer data leaves its end, which may be a scratch code
  (`Overlaid`).
- In `PamProcess` reading the effective user, reading the group, comparing and
  `setresgid`, `setresuid`, and putting the group back after a failure are a step each,
  as other threads may come between them, and so are the two halves of `configure`
  (close, open). `world` is what does not change: the calls, the accounts,
  where to log. Modes are compared as numbers, as `validateSecretFile` does it; `Chmod`
  leaves nine bits of an `allowed_perm` (`LeftMode`). A message
  is recorded by where the logger leads when it is written (`said`).
- In `InitCommand` a step of `runInit` and the question it may put are one action; each
  line read is one step. `ahead` holds the buffers of the two readers (`stdinReader` of
  `PromptYesNo`, and the one `confirmCode` makes). A read of an empty buffer brings one
  line from a terminal; from a pipe, any number of those still to come.
- "authErr" stands for every answer that refuses: `PAM_AUTH_ERR`, `PAM_SERVICE_ERR` and
  what a failed conversation returns.

## 3. The runs

| Run | Asks | Result |
|---|---|---|
| `VerifyLoop` | is any code accepted twice? does the cut list act as a sliding window? what does it take to change `TIME_SKEW`, does the new value fit? | no (TOTP: with `DISALLOW_REUSE` and `no_skew_adj`); yes (`SlidingWindow` is implemented); codes of three different steps at three times; yes |
| `PamLogin_codes` | does a code let one login in, is it spent on the disk, does the limit on logins hold, also after a power loss? | yes, unless two logins both compare before either renames (for TOTP: with `DISALLOW_REUSE`, `no_skew_adj`, and a clock that is not set back) |
| `PamLogin_grace` | does the grace period rest on a login, are edits safe, is a login one step to the file? | yes (`AtomicFile` is implemented), with the same proviso for edits and steps |
| `PamCli` | what may `ggpam verify` spoil, and does a login ever wait for another's user? | nothing, as long as no other writer comes between its reading and its saving; no |
| `PamProcess` | whose privileges, whose log, which answers? | as below |
| `SecretStore` | does a file read back, in any order of lines? | yes, but for the blanks of a host; not with a host of nothing but white space |
| `PamProcess_forward_pass` | "Password & verification code: " | violated |
| `VerifyLoop_skew_replay` | "Disallow reuse" with skew adjustment | violated |
| `PamLogin_race` | "Secret file changed during processing", always? | violated |
| `PamLogin_attempts` | "3 attempts every 30s" | violated |
| `InitCommand` | does `ggpam init` end, write only on a yes, and write a file that works? | yes |
| `InitCommand_no_confirm` | `--no-confirm`: "skip the confirmation to write the file" | violated |

What `PamProcess` shows in particular:

- One call at a time, the process is afterwards exactly who it was (`IdsRestored`), and
  files are touched as the account (`AccessAsUser`, `OwnerKept`). When calls overlap in
  threads, a call may read and write as another call's user, and the process may be left
  with a user's ids. Say a process of root: call A reads user and group b while call B is
  dropped to b; B restores root; A, whose account is a, becomes a; its `setresuid` back to
  b fails with EPERM, which is ignored, and the process stays a. `IdsRestored` says what is
  left of the claim: if no call found another user than the process's, the user comes
  back, and the group likewise, each for itself.
- The log reaches its place (`LogArrives`) unless the process itself may not write its
  log, or the log follows the user's home and cannot be written there: because the
  process may not write it before it drops its privileges, or because the module, as
  root, has just created it, and the user cannot open it (`cmd/pam/main.go:102` and
  `110`). Then `configure` has closed the old file,
  cannot open the new one, and keeps an output that starts with the closed file, so that
  stderr gets nothing either, although `src/README.md:69` says that it does.
- Who gives the code is let in (`CodeReplyGranted`): alone at the prompt, whatever that
  asks for, or as six digits after the first password. A scratch code of eight digits
  after a password does not work, because `extractOTP` tries six first and its second
  attempt can never be reached; and under `try_first_pass` a password that itself ends in
  six digits is refused without a question. Nor is everybody let in: an earlier login on
  the same file for another account, or with an `allowed_perm` this one does not accept,
  leaves a file that is refused (`ShareFile`), and a process that was given another group
  as effective one only cannot take the account's (`IsSetUp`).
- Who answers what the prompt asks for is not always let in: that is
  `AskedReplyGranted`, which `forward_pass` violates (below). `GrantedOnACode` says what
  is accepted.

What `SecretStore` shows: `PAM_RHOST` is recorded as it is unless it is empty
(`cmd/pam/main.go:178`, `313` to `318`), but `parseLastLogin` splits the line at white space,
asks for two words at least and joins all but the last with single blanks
(`pkg/config/config.go:254` to `262`). So a host with several blanks in a row comes back as
another host, to which the grace period will not apply; and one record of a host of nothing
but white space makes the file one that `Parse` rejects, for every later login, until
somebody edits it. `RoundTrip` says that this is all that is read differently and the only
thing that is rejected, and `OrderIrrelevant` includes files that are rejected.

The five violated ones are disagreements between a text of the program and its code:

1. `PamLogin_attempts`: a refused verification returns before `persistConfig`
   (`cmd/pam/main.go:162`), so the stamps of failed attempts are lost. The limiter
   counts logins, as another message has it ("Limit logins to N per every M seconds"),
   and `LoginsLimited` holds; it does not slow down guessing. For the same reason the
   HOTP counter that a failure advances and the skew samples it leaves are never stored.
2. `VerifyLoop_skew_replay`: the call that completes a skew adjustment makes no reuse
   check (`pkg/authenticator/algorithm.go:48`). A code that an earlier call accepted and
   put on the list, and that has left the window since, is accepted again when it is
   measured as the third observation.
3. `PamLogin_race`: between comparison and rename (`pkg/pam/config.go:99` to `128`)
   nothing excludes another login.
4. `InitCommand_no_confirm`: `--no-confirm` skips `confirmCode` only. The question
   whether to write the file is put unless `--force` is given (`cmd/cli/init.go:191`);
   without input its answer is no, and a script ends with nothing written.
5. `PamProcess_forward_pass`: `forward_pass` makes the prompt "Password & verification
   code: " (`pkg/pam/params.go:102`), but `promptCode` takes the whole answer for the code
   (`cmd/pam/main.go:244`): it is never split, and both together are refused.

Other disagreements, met while modelling and not the subject of a run: `ggpam init` and
`src/README.md:58` use `~/.ggpam_authenticator` by default, where the PAM module, without
`secret=`, uses `~/.google_authenticator` (`pkg/pam/config.go:33`); and `src/README.md:60`
has `{{.Rhost}}` in a prompt template, a field `promptContext` lacks, so that such a
template fails every login.

### Bounds

- `VerifyLoop`: what is typed and when depends on the file (`Slice`): four or five calls,
  clocks that move up to six seconds, with steps of one or two seconds, windows of one to
  five. The shortest replay takes two calls and the distance at which a counter is
  forgotten, two or three steps; a skew is adopted on the third call and its code tried on
  the fourth; limits of one to three attempts are filled, exceeded and expire within five
  calls. Codes repeat every four counters, so that a window holds the same code twice; only
  the files with skew adjustment start at a clock where they do not, since distances are
  measured there. For HOTP the clock hardly moves: it plays no part. The 1499 counters on
  each side that `detectSkew` tries become three (`SkewSearch`).
- `PamLogin`: three logins where they compete for codes and for the limit (symmetric),
  two where the owner edits too. Three are enough for two to be granted on a list that
  a third one has filled. One `LASTn` slot instead of ten, so that two hosts compete for
  it. `MaxInodes` bounds the owner's edits only; each login renames at most once.
- `PamCli`: two logins beside one command, and one login beside two commands
  (`SliceNext`), which is what it takes for two saves to share `path.tmp` and for a login
  to wait for another one. One code of each kind; the clock stands still.
- `PamProcess`: one call with every combination of modes, passwords that end in no, two
  or six digits, codes, first passwords and answers; one call with every kind of
  argument, file, account and template; two calls, at once or in turn, for processes of
  root, of a user, set-user-id and set-group-id ones, with every place to log; three calls
  at once, for one, two and three accounts. 1,256,034 states, which include an
  `allowed_perm` of more than nine bits. Three groups of six
  digits distinguish a code from the end of a password and of a scratch code.
- `SecretStore`: one trace (attempt, counter, scratch code, sample or record) between
  two writes, two slots, times zero and one: a record of time zero is not written, and
  `ReadBack` says so. Four hosts stand for "a b", "a  b", "  " and "c": the second comes
  back as the first, the third is recorded and its file rejected. One initial file has a
  scratch code. The initial configurations are `InRange`, which is what the parser accepts
  and the program writes.
- `InitCommand`: flags at and just outside their limits; a full dialogue of four answers,
  one or two codes and a last answer, in all combinations and cut short; and, when only
  code and last answer are open, all inputs of up to three lines, which is enough for
  each reader to take a line the other was meant to have.
- Deadlock is checked for `PamLogin`, `PamProcess` and `InitCommand`, whose only way to
  stop is `Finished`, for `PamCli` (`AllOver`), and for `SecretStore`. `VerifyLoop` stops when its clock and its calls run out.

### Fairness

`PamCli` assumes weak fairness of `Proceed(s)`, the steps a login takes by itself, which
is that a running process is scheduled; of commands it assumes nothing. People owe nothing: `Reply` may
never happen. Weak fairness is enough for `Lock` because each login opens the file once
and the lock is held only from `Lock` to `Load`. `InitCommand` assumes weak fairness of
its only process; its input is there from the beginning, and may be too short.

## 4. The proofs

All constants are arbitrary, with the assumptions the modules state (`ConfigAssumption`:
finitely many scratch codes; `AuthenticatorAssumption`, `LoopAssumption`; `LoginAssumption`:
finitely many logins, and clocks that start within `MaxTime`; `CliAssumption`: finitely
many commands, and power that does not fail; `StoreAssumption`: configurations within the
ranges of the parser; `HostAssumption`: the words of a host, if any, make a host;
`InitAssumption`; `ProcessAssumption`: names that are not markers,
arguments and texts that are such, and a process as execve(2) leaves it, whose effective
ids are its real or its saved ones). Six more are hypotheses of the theorems that need them:

- `ClockForward`: the clock is not set back. With a clock set back, stamps and used
  counters are dropped that matter again later, and the claims fail.
- `StampsOfThePast` (rate limiter only): the stamps of the files that are not written by a
  login are in order, and older than the start.
- `NoSkewAdjustment` (TOTP only): `no_skew_adj` is set. Without it `TotpNoReplay` fails,
  which is the second of the findings above.
- `SkewStays` (`CodesAreSpentForBoth` only): the same of logins and commands, where the
  file has `DISALLOW_REUSE`.
- `FilesOfThisProgram` (`SkewNeedsThreeSteps` only): the skew samples in the file have
  counters that are not negative, consecutive ones for different steps, as
  `recordSkewObservation` leaves them.
- `CodesHaveSixDigits` (`SkewNeedsThreeSteps` only): what `Compute` returns is a code of
  six digits. That codes of different steps differ is not assumed: the code compares
  steps, so that one code of two steps may count for both, and the property says the same.

| Theorem | States |
|---|---|
| `TypeCorrect` | `Spec => []TypeOK`, of `VerifyLoop` |
| `HotpCounterIsPast`, `HotpNeverReplayed` | `[]HotpInv`, `HotpNoReplay` |
| `UsedStepsAreBlocked`, `TotpNeverReplayed` | `ClockForward` and `NoSkewAdjustment` imply `[]TotpInv`, `TotpNoReplay` |
| `StampsSuffice` | `ClockForward` and `StampsOfThePast` imply `[]RateInv` |
| `AdaptedSkewServes` | `[]AdaptedSkewFits` |
| `SkewIsMeasured` | `FilesOfThisProgram` and `CodesHaveSixDigits` imply `SkewNeedsThreeSteps` |
| `ImplementsSlidingWindow` | `ClockForward` and `StampsOfThePast` imply `Spec => Limiter!Spec` |
| `NothingIsOverwrittenBlindly` | `[]NoBlindOverwrite`, of `PamLogin` |
| `LoginsAreAtomic` | `Spec => Atomic!Spec`, of `PamLogin` |
| `CodesAreSpentOnce` | `[]EachCodeOnce`, of `PamLogin` |
| `CodesAreSpentOnDisk` | `[]SpentOnDisk`, of `PamLogin` |
| `NoLoginIsInvented` | `GraceRooted`, of `PamLogin` |
| `LoginsTypeCorrect` | `[]TypeOK`, of `PamLogin` |
| `StepsAreSpentOnce` | `ClockForward` implies `[]EachStepOnce`, of `PamLogin` |
| `LoginsAreLimited` | `ClockForward` and `StampsOfThePast` imply `[]LoginsLimited`, of `PamLogin` |
| `CommandsTypeCorrect`, `SavesAreWhole` | `[]CliTypeOK`, `[]SavedWhole`, of `PamCli` |
| `CodesAreSpentForBoth` | `ClockForward` and `SkewStays` imply `[]SpentForBoth`, of `PamCli` |
| `ProcessTypeCorrect` | `[]TypeOK`, of `PamProcess` |
| `ProcessIsRestored` | `[]IdsRestored`, of `PamProcess` |
| `FilesAsUser`, `OwnerStays` | `[]AccessAsUser`, `[]OwnerKept`, of `PamProcess` |
| `OneHandle`, `LogIsOwn`, `LogHasArrived` | `[]OneLogHandle`, `[]OwnLog`, `[]LogArrives`, of `PamProcess` |
| `CodeReplyIsGranted` | `[]CodeReplyGranted`, of `PamProcess` |
| `GrantedWithCode`, `PasswordIsForwarded` | `[]GrantedOnACode`, `[]PasswordForwarded`, of `PamProcess` |
| `StoreTypeCorrect` | `[]TypeOK`, of `SecretStore` |
| `RoundTripCorrect`, `OrderCorrect` | `[]RoundTrip`, `OrderIrrelevant`, of `SecretStore` |
| `PlainHostsComeBack` | `Parse(Bytes(c)) = Parsed(Stored(c))` where no host has extra white space |
| `InitKeepsTypes`, `NothingIsWrittenUnasked` | `[]TypeOK`, `[]NoYesNoFile`, of `InitCommand` |
| `WrittenFilesLoad`, `ConfirmationIsVerdict` | `[]FilesLoad`, `[]ConfirmationAgrees`, of `InitCommand` |

The theorems about `PamLogin` hold for any number of logins, any options and files, a
clock that is set at will where `ClockForward` is not named, and writes, logins and power
that fail at any step. `raced`, `edited` and
`allow_readonly` are provisos in the properties themselves. Those about `PamProcess` hold
for any number of threads, accounts and files, and any arguments; that calls do not
overlap is a proviso of the properties where they need it. Those about `PamCli` hold for
any number of logins and commands, with writes that fail and writers that die anywhere,
those about `SecretStore` for any number of scratch codes, hosts and slots, hosts of any
white space, and any order of lines, and those about `InitCommand` for all flags and inputs.

The argument, from the bottom:

- *Operators.* In an ordered list that ends with the present, what lies in the interval
  is a tail (`BetweenIsTail`), so `EnforceRateLimit` keeps a tail of its list plus the
  new stamp, and what it cut off was too old or in excess (`EnforceRateLimitKeeps`). A
  call never lowers `HOTP_COUNTER` and an accepted code leaves it one further
  (`VerifyCodeHOTP`). A call that leaves the skew alone leaves the window alone, keeps
  the used counters inside it, and accepts only counters inside it that were not on the
  list and now are (`VerifyCodeTOTP`). Neither of these needs the stamps in order: a
  clock that is set back leaves them in any, and `EnforceRateLimit` sorts what it
  keeps. That there is such a sorting, `SortingExists` shows by taking the greatest
  stamps one by one, so `EnforceRateLimit` returns a configuration whatever it is given
  (`EnforceRateLimitKeepsType`).
- *HOTP.* `HotpInv` is inductive: every accepted counter is below `HOTP_COUNTER`.
- *TOTP.* That no accepted counter is accepted again is not inductive, since the list
  forgets. `TotpInv` is: an accepted counter is on the list, or a window behind the
  centre; and it is never a window ahead, where it would be forgotten before it can be
  used. A clock that moves forward preserves it because the centre is monotone
  (`DivisionIsMonotone`, `CentreAdvances`).
- *Skew.* An adapted skew is the average of three samples that agree, which is within one
  of the last, and the last was taken at this call (`VerifyTOTPMovesSkew`). That codes of
  three steps were typed for it is not inductive: `SampleInv` says that every sample in
  the file marks a call in the history that was refused at the sample's time with the
  code of the sample's step, or was there at the start. Three that agree were taken at
  three times and are three successive steps within six (`ThreeSamplesThreeSteps`).
- *Limiter.* `RateInv` relates the list to the history of all calls: the list is its
  latest part, and the calls before it are too old or more than `attempts` calls ago.
  `LimiterDecides` shows that the list then decides as a count of recent calls does
  (`RecentCallsCount`), which gives both the invariant's next state and the refinement:
  `Verify` is `Call` or a stutter, `SetClock` is `Advance` or a stutter.
- *One login, one step.* That what a login publishes is what one login makes of the
  content it replaces is not inductive either: it decides long before it publishes, on a
  copy. `AtomicInv` says what it holds at each place: while it decides and waits, its
  memory is the content of the inode it opened; from then on, what it is to write is
  `ByLogin` of that content, which does not change, since inodes are never written to
  again; and about to rename, the path still names that inode, unless two logins have
  raced. Renames, edits and power losses change `dir` but no inode. From this
  `NoBlindOverwrite` follows at once, and `Publish` is `AtomicFile`'s step of a login, the
  owner's actions its edits, `SyncDir` and `PowerLoss` its own, all others stutters.
- *Codes.* Nothing that concerns one login shows that a code lets in one login only.
  `CodesInv` keeps an account for each scratch code and counter: the uses left in the
  current file, the logins granted and the logins that have renamed and wait for the
  directory are together no more than the user set up; and for every file that a power
  loss may bring back, the uses left and the logins granted are. A verification spends a
  use of its code in memory (`VerifyCodeSpends`, over scratch codes, TOTP, look-ahead and
  refusals) and raises no other's, the rename turns it into a use less in the file, and
  only the synchronisation, which leaves no file but the current one to come back, grants
  the login. `EachCodeOnce` and `SpentOnDisk` are both consequences. The
  account needs neither ordered stamps nor a forward clock, so that only the shape of a
  configuration is carried along (`Shaped`), not its type.
- *Records.* `RecordInv`: every login record in a file, or in the memory of a login that is
  about to write, names a login that was let past its prompt or was in a file the owner
  wrote (`Rooted`). Files that come back, records that are evicted and updates that are
  lost only take records away, and a login that decides adds its own, which is on record
  as a verdict in the same step.
- *Types.* `TypedInv` has every file and memory a configuration, and the stamps in each of
  them in order, none later than the clock, for as long as `ClockForward` and
  `StampsOfThePast` say that this is so in the beginning and stays so (`Typed`). The order
  is what the theorems about the limiter take from it; the types hold without.
- *Steps and limits.* Two logins that verify at once know nothing of each other, so
  neither `EachStepOnce` nor `LoginsLimited` is inductive, nor is it enough to speak of
  the current file. `MemoryInv` says who remembers whom (`Remembers`: a used step is on
  the list or a window behind the centre, as in `TotpInv`, and at least as many of the
  latest stamps fall into any interval up to now as logins on a code do). Every file a
  power loss may bring back remembers the logins that were let in; the file the path
  names remembers also those that have renamed and wait for the directory (`Written`); and
  what a login is about to write remembers these and itself, as long as the path names the
  file it read. Together they keep to the options (`Allowed`). A login whose file was
  replaced meanwhile may hold anything; it is refused when it compares, and that is where
  the proof uses the comparison. An accepted code adds its step and its stamp to what was
  remembered (`AcceptRemembers`, from `VerifyCodeTOTP` and `EnforceRateLimitKeeps`); time
  and lost logins take nothing away (`RemembersStill`). A code that counts always has the
  file written (`VerifyCodeDirties`), so that nobody is let in on it by `NothingToWrite`.
- *Whole files.* That the path names a file that can be read says nothing of the
  temporary that a dead save left, nor of whom it belongs to. `SavingInv` does, for as
  long as no two saves use it at once: `path.tmp` is not what the path names (`OneSaves`),
  and no login has it open, so that a write to it is seen by nobody; the one command that
  saves has it open, empty before its write and with its configuration after it. A login
  only ever opens what the path names (`StepKeepsDescriptors`).
- *Two kinds of writers.* `CodesInv` rests on inodes that are never written to again and
  on a comparison before every rename, and a command respects neither. `BothInv` replaces
  them by what `SavingInv` says of the inodes and keeps one account for both (`Affords`):
  what a file leaves of a code (`Unused`), the logins and the commands that have taken it
  (`Takings`), and the use that is in somebody's memory, are together no more than the
  user set up. It holds of the file the path names; of the memory of every command that is
  about to save; and of a login's, as long as the path names what it read. A step of
  the clock counts as a code that is good for one use, left as long as it is neither on
  the list nor behind the window (`Blocked`). Accepting a code pays for it
  (`VerifyCodePays`), a rename takes what was paid (`ReplacedBalanced`) and leaves every
  login that has read the old file with one the path does not name any more; all other
  steps let nobody in (`StillBalanced`). Where a command would not find the file as it
  read it, the history variables of the property have recorded it (`HistoryGrows`).
- *No file without a yes.* `WithheldInv`: as long as no line is a yes, none is left for
  either reader of the standard input, whichever of them took lines meant for the other
  (`NoYesLeft`), so that no question comes to one.
- *Process.* `PlaceInv` says what a call has at each place: an account, privileges to give
  back. With it a step is one of seven kinds (`StepKinds`): it changes only what its call
  remembers, drops the group, drops the user, puts the group back, restores one of them,
  replaces the file, or leaves all of these alone; the lemmas after it are about kinds,
  not about the two dozen actions. That the process is restored is not inductive:
  `AloneInv` says who the process is, and what has been read of it, at each place of a
  call that is alone, which gives `AccessAsUser` as well. For calls that overlap `BackInv`
  says that somebody who has found the right user will still put it back (`OwesUser`) as
  long as the process is another one, if all who have looked have found the right one, and
  the same of the group (`OwesGroup`), which is owed from `setresgid` on. Going back to
  who the process was when it began is always permitted (`MayGoBack`), so that the last of
  them does it (`StepKeepsBack`).
- *Log.* `HandleInv` ties the descriptors to the mutex: whoever moves the log holds it,
  with no file open. `SaidInv` is about the logger and not about what was said: its file
  is one of the call's own two, and while messages are lost there is an excuse for it.
  That excuse lasts, although more log files come to exist (`ExcusedStays`).
- *Answers.* `CodeInv` carries the code from the text it was taken from: what
  `extractOTP` splits is, put together, the text (`ExtractOTPSplits`). Conversely
  `ReplyInv` says that a call in whose way nothing is has not been refused so far; that
  nothing can be in its way rests on `PathInv`, that a file is as it was or as some
  earlier login has left it, on `AloneInv`, and on `JoinedHasCode`.

- *The text of the file.* `Bytes` writes, below the secret, each option once and each
  scratch code as often as it is listed: as a sequence it enumerates a set of entries
  (`BytesEnumerates`, from `ConcatEnumerates` and `FlattenSeqEnumerates`), and in which
  order makes no difference to what follows. `Parse` is a fold; `ParseIsARun` shows that
  it is also a function of how many lines have been read, each value the step of `Parse`
  from the one before, and about such a function one can argue number by number
  (`NatSetInduction`). What it has put together after n lines is, field by field, what the
  lines so far say: an option that was seen has its value, one that was not has its
  default, and a scratch code is there as often as its lines (`AllIsRead`); from the first
  line of a blank host on it is a rejection (`BlankIsRefused`). So a file that `Describes` a
  configuration is read as what `ReadBack` leaves of it, or rejected (`DescribedIsRead`). In
  `SecretStore` `FileInv` says that the file describes some configuration in range; each
  operation of a login keeps the ranges of the parser (`UpdateLoginRecordRange`,
  `RecordSkewObservationRange` and the others), and exchanging two lines keeps the
  enumeration (`SwapDescribed`).
- *What `ggpam init` writes.* `OptionsInv`: what has been asked for so far is within the
  ranges of `runInit`, and from the question about the type of the code on there is one
  way to log in. These ranges are inside those of the parser (`UntouchedInRange`), and a
  written file is `Bytes` of the configuration. `TriedInv` carries the outcome of each try
  to the end, with the options it was tried with, which change no more.
- *Types of a process.* What `ParseParams` folds from the arguments is a number, or none,
  in `allowed_perm` (`AllowedPermIsNumber`, by the same kind of argument as for `Parse`).
  `ThereInv`: a log that is open or written to is one there is, and an account is one that
  was found.

Only model-checked: liveness, which is that a login that is not at its prompt comes to it or
to its end (`LoginsProceed`) and that `ggpam init` ends (`InitEnds`), since fairness is a
matter of ENABLED, which the provers do not have; and that the models do not deadlock.

## 5. Not modelled

The HMAC and its truncation, the base32 text of the secret, options of other programs
that are kept as they are, the 64 KB limit; the text of prompts, messages and rendered
templates; SELinux; levels and format of the log; what `ggpam verify` and `ggpam init`
only show. `pkg/i18n/messages.go`, a sixth of the code, is a table of texts. A power loss
while `Config.Save` is at work: it syncs nothing, and nothing is promised. A file with
more than three skew samples, or with options outside the ranges of the parser, is not an
initial state: the program does not write one.

## 6. Plan

Done: all components that keep state, and the proofs of all their safety properties. What
could follow is an abstract specification of the codes: a ledger from which every login
and every command takes one use in one step, implemented by `PamCli` under the provisos of
`SpentForBoth`. `BothInv` is the account it needs.
