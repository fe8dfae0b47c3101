---------------------------- MODULE MCTaskSystem ----------------------------
(***************************************************************************)
(* Instances of TaskSystem for TLC: one job (two of different priority in  *)
(* TaskDrain) of which the first may be retried once, one or two starts of *)
(* workers and one client of the web process.                              *)
(***************************************************************************)
EXTENDS TaskSystem

\* Two workers that were given different names, or two starts of one worker
\* (also: two workers on one host, whose name defaults to the host's).
DistinctNames == [w \in Workers |-> w]
SameName      == [w \in Workers |-> "host"]

AnyJob        == [w \in Workers |-> Jobs]
EqualPriority == [j \in Jobs |-> 0]
LaterFirst    == [j \in Jobs |-> j]
FirstRetries  == [j \in Jobs |-> IF j = 1 THEN 1 ELSE 0]
=============================================================================
