-------------------------------- MODULE Logger --------------------------------
(***************************************************************************)
(* The logger of a process (pkg/logging/logging.go): one for all its       *)
(* threads, moved to another file by every login.                          *)
(*                                                                         *)
(* A log file stands for its directory.  configure closes the old file and *)
(* opens the new one under the logger's mutex, in two steps here, since a  *)
(* thread that is writing does not hold it: logf takes it only to read the *)
(* level.  Levels are left out: every message modelled is logged.          *)
(***************************************************************************)
EXTENDS Integers, Privileges

CONSTANTS NoThread

Stderr == "stderr"
Lost == "lost"
NoFile == "none"

NewLogger ==
  [ mutex |-> NoThread,
    file |-> NoFile,         \* the open log file
    output |-> Stderr,       \* where messages go: a log file and stderr, or stderr
    derivedFromHome |-> FALSE,
    handles |-> 0 ]          \* the open descriptors of log files

\* Mutant: the old file is left open until the new one is there.
ConfigureBeginsMutant(log, t) == [log EXCEPT !.mutex = t]

\* The old file is closed, and the output still leads there.
ConfigureBegins(log, t) ==
  [log EXCEPT !.mutex = t, !.file = NoFile,
              !.handles = IF log.file = NoFile THEN @ ELSE @ - 1]

\* openFile: the file is made with mode 0600 if need be.
CanOpenLog(ids, owners, dirOwner, dir) ==
  IF dir \in DOMAIN owners
  THEN ids.euid \in {Root, owners[dir]} ELSE MayWriteIn(ids, dirOwner)

\* The log files there are, with one more that belongs to this user.
WithLog(owners, dir, owner) ==
  [d \in DOMAIN owners \union {dir} |-> IF d \in DOMAIN owners THEN owners[d] ELSE owner]

ConfigureFails(log) == [log EXCEPT !.mutex = NoThread]

ConfigureEnds(log, dir, fromHome) ==
  [log EXCEPT !.mutex = NoThread, !.derivedFromHome = fromHome,
              !.file = dir,
              !.output = IF dir = NoFile THEN Stderr ELSE dir,
              !.handles = IF dir = NoFile THEN @ ELSE @ + 1]

\* MultiWriter tries the file before stderr and stops at the first error, so
\* that a closed file takes stderr with it.
WhereMessagesGo(log) ==
  IF log.output \in {Stderr, log.file} THEN log.output ELSE Lost

\* Mutant: any logger follows the user home.
FollowsHomeMutant(log) == TRUE

\* UpdateHome moves the log only if its place came from a home directory.
FollowsHome(log) == log.derivedFromHome
=============================================================================
