----------------------------- MODULE Conversation -----------------------------
(***************************************************************************)
(* How the PAM module comes by a code: from the password an earlier module *)
(* asked for, whose end it takes for a code, or from its own prompt        *)
(* (obtainOTP, promptCode, extractOTP in cmd/pam/main.go).                 *)
(*                                                                         *)
(* A text is a word that does not end in a digit, perhaps empty, then the  *)
(* digits at its end in groups of two and six, then perhaps white space.   *)
(* A code of the generator is one group of six, a scratch code a group of  *)
(* two before a group of six.                                              *)
(***************************************************************************)
EXTENDS Sequences, SequencesExt

CONSTANTS
  Words, NoWord,  \* NoWord is the empty word
  Pairs,          \* groups of two digits
  Sixes           \* groups of six

\* More than five digits end in a group of six, so that their last six and
\* last eight are groups too.  Six and two are what is left of fourteen digits
\* whose last six were taken for a code.
Digits ==
  {<< >>} \union {<<pair>> : pair \in Pairs}
    \union {<<six>> : six \in Sixes} \union (Pairs \X Pairs) \union (Pairs \X Sixes)
    \union (Sixes \X Pairs) \union (Sixes \X Sixes) \union (Pairs \X Pairs \X Sixes)
    \union (Sixes \X Pairs \X Sixes)

\* The codes of the generator, and scratch codes.
Codes == {<<six>> : six \in Sixes} \union (Pairs \X Sixes)

Texts == [word : Words \union {NoWord}, digits : Digits, blank : BOOLEAN]

Trimmed(text) == [text EXCEPT !.blank = FALSE]

\* A password with a code typed after it.
Then(password, code) == [password EXCEPT !.digits = @ \o code]

\* The last `size` bytes are digits.
EndsInDigits(text, size) ==
  LET n == Len(text.digits)
  IN  /\ ~text.blank
      /\ n > 0 /\ text.digits[n] \in Sixes
      /\ size = 8 => n > 1 /\ text.digits[n - 1] \in Pairs

SplitDigits(text, size) ==
  LET n == Len(text.digits) - (IF size = 8 THEN 2 ELSE 1)
  IN  [code |-> SubSeq(text.digits, n + 1, Len(text.digits)),
       rest |-> [text EXCEPT !.digits = SubSeq(@, 1, n)]]

HasOTP(text) == EndsInDigits(text, 6) \/ EndsInDigits(text, 8)

\* Mutant: the longer codes first.
ExtractOTPMutant(text) ==
  SplitDigits(text, IF EndsInDigits(text, 8) THEN 8 ELSE 6)

\* Six digits are tried before eight, and whatever ends in eight ends in six.
ExtractOTP(text) ==
  SplitDigits(text, IF EndsInDigits(text, 6) THEN 6 ELSE 8)

\* Mutant: the password before the code is left out of account.
IsCodeMutant(text, codes) == text.digits \in codes

\* What is typed at the prompt is a code as a whole: with a word before the
\* digits it is none.
IsCode(text, codes) == text.word = NoWord /\ text.digits \in codes
=============================================================================
