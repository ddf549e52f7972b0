--------------------------- MODULE AppendOnlyLog ---------------------------
(***************************************************************************)
(* What a session log promises its users (SessionLog and SessionManager in *)
(* ah-contracts): events are numbered from 0 without gaps and are never    *)
(* changed or removed, except that the whole log may be rolled back to the *)
(* named checkpoint.  A checkpoint that is taken while an append is under  *)
(* way may already hold its event.                                         *)
(***************************************************************************)
EXTENDS Naturals, Sequences

CONSTANTS Ids, None

VARIABLES log, saved

Init == log = <<>> /\ saved = None

Extended == {Append(log, [seq |-> Len(log), id |-> id]) : id \in Ids}

Extend == log' \in Extended /\ UNCHANGED saved
Save == saved' \in {log} \union Extended /\ UNCHANGED log
Rollback == saved # None /\ log' = saved /\ UNCHANGED saved

Spec == Init /\ [][Extend \/ Save \/ Rollback]_<<log, saved>>
=============================================================================
