----------------------------- MODULE MCPamCli -----------------------------
(***************************************************************************)
(* PamCli on a small instance.                                             *)
(***************************************************************************)
EXTENDS PamCli, MCPamLogin

CONSTANTS first, second   \* commands

TwoCommands == {first, second}
CliFlags == [disableSkewAdjustment |-> TRUE, noIncrementHOTP |-> FALSE]

\* A code of every kind, for CodeConfigs.
FewTokens == Six({1}) \union Eight

\* Two logins and a command, or a login and two commands.
SliceNext == CliNext /\ (pc'[bob] = "start" \/ cli'[second].pc = "start")

SliceSpec == CliInit /\ [][SliceNext]_allVars /\ LoginsAreScheduled
=============================================================================
