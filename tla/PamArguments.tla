----------------------------- MODULE PamArguments -----------------------------
(***************************************************************************)
(* What the PAM module makes of its arguments (pkg/pam/params.go), and the *)
(* file it takes for the user's secret file (pkg/pam/config.go).           *)
(* An argument is a name and a value.  A number that does not parse is     *)
(* Unparsed; a flag has the value NoValue, and any other is not that flag. *)
(***************************************************************************)
EXTENDS Integers, Sequences, SequencesExt

Unparsed == -1
NoValue == "no value"

OwnerOnly == 6 * 64   \* 0600

DefaultParams ==
  [ secret |-> "", prompt |-> "code", promptOverride |-> FALSE,
    template |-> "", passMode |-> "prompt", forwardPass |-> FALSE,
    nullOK |-> FALSE, allowReadonly |-> FALSE, noStrictOwner |-> FALSE,
    allowedPerm |-> OwnerOnly, gracePeriod |-> 0, forcedUser |-> "" ]

TemplateNames == {"prompt_file", "prompt_template"}
NumberNames == {"allowed_perm", "grace_period"}
TextNames == {"secret", "authtok_prompt", "user"} \union TemplateNames
FlagNames == {"try_first_pass", "use_first_pass", "forward_pass", "nullok",
              "no_strict_owner", "allow_readonly"}
\* Flags without a meaning in this model: what they change is in PamLogin, or
\* is only shown.
OtherFlagNames == {"debug", "noskewadj", "no_increment_hotp",
                   "echo_verification_code"}

Refused(arg) ==
  \/ arg.name \notin TextNames \union NumberNames \union FlagNames
                       \union OtherFlagNames
  \/ arg.name \in FlagNames \union OtherFlagNames /\ arg.value # NoValue
  \/ arg.name \in TemplateNames /\ arg.value = ""
  \/ arg.name = "allowed_perm" /\ arg.value \in {Unparsed, 0}
  \/ arg.name = "grace_period" /\ arg.value < 0

WithArgument(params, arg) ==
  CASE arg.name = "secret" -> [params EXCEPT !.secret = arg.value]
    [] arg.name = "authtok_prompt" ->
         [params EXCEPT !.prompt = arg.value, !.promptOverride = TRUE]
    [] arg.name \in TemplateNames -> [params EXCEPT !.template = arg.value]
    [] arg.name = "user" -> [params EXCEPT !.forcedUser = arg.value]
    [] arg.name = "allowed_perm" -> [params EXCEPT !.allowedPerm = arg.value]
    [] arg.name = "grace_period" -> [params EXCEPT !.gracePeriod = arg.value]
    [] arg.name = "try_first_pass" -> [params EXCEPT !.passMode = "tryFirst"]
    [] arg.name = "use_first_pass" -> [params EXCEPT !.passMode = "useFirst"]
    [] arg.name = "forward_pass" -> [params EXCEPT !.forwardPass = TRUE]
    [] arg.name = "nullok" -> [params EXCEPT !.nullOK = TRUE]
    [] arg.name = "no_strict_owner" -> [params EXCEPT !.noStrictOwner = TRUE]
    [] arg.name = "allow_readonly" -> [params EXCEPT !.allowReadonly = TRUE]
    [] OTHER -> params

\* ParseParams stops at the first argument it refuses; its caller then has
\* no use for the others.
IsRefused(args) == \E i \in DOMAIN args : Refused(args[i])

\* The prompt of forward_pass depends on all arguments, so it comes last.
ParseParams(args) ==
  LET params == FoldLeft(WithArgument, DefaultParams, args)
  IN  IF params.forwardPass /\ ~params.promptOverride
      THEN [params EXCEPT !.prompt = "password and code"]
      ELSE params

\* ".google_authenticator" in the user's home, or what secret= says, with the
\* user's name or home in it ("own") or without ("common").
ResolveSecretPath(spec, account) ==
  CASE spec = "" -> [name |-> "home", of |-> account]
    [] spec = "own" -> [name |-> "own", of |-> account]
    [] OTHER -> [name |-> spec, of |-> "everyone"]
=============================================================================
