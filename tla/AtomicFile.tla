------------------------------ MODULE AtomicFile ------------------------------
(***************************************************************************)
(* What the logins promise of the secret file: each of them reads it and   *)
(* replaces it in a single step, and what is replaced is on the disk       *)
(* before the next answer.  PamLogin, where a login is a dozen steps and   *)
(* holds no lock over them, implements this module as long as no two       *)
(* renames race.                                                           *)
(***************************************************************************)
CONSTANTS
  Initial, Edits,  \* what the file holds at first, and what its owner may write
  Nothing,         \* no file, or one without a configuration
  ByLogin(_, _)    \* whether a login may turn one content into another

VARIABLES
  content,  \* the file
  durable,  \* what a power loss may leave of it
  broken    \* two renames raced, and nothing is promised any more

vars == <<content, durable, broken>>

Init ==
  /\ content \in Initial
  /\ durable = {content}
  /\ broken = FALSE

\* The new content may come to the disk at once, or later.
Replaced == durable' \in {durable \union {content'}, {content'}}

Login == ByLogin(content, content') /\ Replaced

Edit == content' \in Edits \union {Nothing} /\ Replaced

Sync == UNCHANGED content /\ durable' = {content}

PowerLoss == content' \in durable /\ durable' = {content'}

Next ==
  \/ broken' = TRUE
  \/ UNCHANGED broken /\ (Sync \/ PowerLoss \/ Edit \/ Login)

Spec == Init /\ [][Next]_vars
=============================================================================
