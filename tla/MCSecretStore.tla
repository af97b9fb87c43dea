--------------------------- MODULE MCSecretStore ---------------------------
(***************************************************************************)
(* SecretStore on small instances.                                         *)
(***************************************************************************)
EXTENDS SecretStore

CONSTANTS plain, spaced, blank, other    \* "a b", "a  b", "  " and "c"

RemoteHosts == {plain, spaced, blank, other}

RejoinedHosts ==
  [host \in RemoteHosts |-> CASE host = blank  -> NoHost
                              [] host = spaced -> plain
                              [] OTHER         -> host]

StoreConfigs ==
  LET new == NewConfig("valid")
  IN  { [new EXCEPT !.scratch = [code \in ScratchCodes |-> 1],
                    !.hotpConfigured = TRUE, !.hotpCounter = 1,
                    !.stepSize = 60, !.windowSize = 100],
        [new EXCEPT !.totpAuth = TRUE, !.disallowReuse = TRUE, !.stepSize = 1,
                    !.timeSkew = -1],
        [new EXCEPT !.totpAuth = TRUE, !.windowSize = 1,
                    !.rateLimit.attempts = 1, !.rateLimit.interval = 3600] }

LoginTimes == {0, 1}
OneCounter == {5}
Skew == {-1}
=============================================================================
