------------------------------ MODULE Privileges ------------------------------
(***************************************************************************)
(* The users and groups of a process, as setresuid(2) and setresgid(2)     *)
(* treat them, and what dropPrivileges and restorePrivileges make of them  *)
(* (cmd/pam/main.go).  They belong to the process: the calls change them   *)
(* for all its threads.                                                    *)
(***************************************************************************)
EXTENDS Integers

Root == 0

Ids == [uid : Nat, euid : Nat, suid : Nat, gid : Nat, egid : Nat, sgid : Nat]

IsRoot(ids) == ids.euid = Root

\* Anything goes for root; others choose among the ids they have.
MaySetUser(ids, user) ==
  IsRoot(ids) \/ user \in {ids.uid, ids.euid, ids.suid}
MaySetGroup(ids, group) ==
  IsRoot(ids) \/ group \in {ids.gid, ids.egid, ids.sgid}

\* The call, its error ignored.
SetUser(ids, user) ==
  IF MaySetUser(ids, user) THEN [ids EXCEPT !.euid = user] ELSE ids
SetGroup(ids, group) ==
  IF MaySetGroup(ids, group) THEN [ids EXCEPT !.egid = group] ELSE ids

Effective(ids) == [user |-> ids.euid, group |-> ids.egid]

\* Mutant: one of the two is as good as both.
ActsAsMutant(orig, who) == orig.user = who.user \/ orig.group = who.group

\* There is nothing to drop for who the process was when it was asked.
ActsAs(orig, who) == orig.user = who.user /\ orig.group = who.group

\* The bits of a mode for everybody, and for the group.
ReadableBit(bits) == (bits \div 4) % 2 = 1

\* open(2) for reading.
MayRead(ids, file) ==
  \/ IsRoot(ids)
  \/ ids.euid = file.owner /\ ReadableBit((file.mode \div 64) % 8)
  \/ ids.euid # file.owner /\ ReadableBit(file.mode % 8)

\* Files may be made and replaced by the owner of the directory.
MayWriteIn(ids, directory) == ids.euid \in {Root, directory}
=============================================================================
