-------------------------- MODULE MCPhysicalQuota --------------------------
(***************************************************************************)
(* Three instances of the quota, chosen in the initial state: every file   *)
(* operation without polling, polling with the WAL as the only file that   *)
(* changes, and the registry with several databases and either limit, but  *)
(* no file operation.                                                      *)
(***************************************************************************)
EXTENDS PhysicalQuota

VARIABLE instance

MCMaxFile == [main |-> 2, wal |-> 2, shm |-> 1]

Whole(f) == f.len = f.alloc

Within(i) ==
  CASE i = "files" -> pc' # "poll" /\ refs' <= 1 /\ asked' # 3
    [] i = "alerts" -> /\ refs' <= 1 /\ file["main"] = file["main"]' /\ file["shm"] = file["shm"]'
                       /\ Whole(file["wal"]') /\ asked' # 3
    [] i = "registry" -> pc' # "poll" /\ op' = NoOp

MCInit ==
  /\ QuotaInit
  /\ instance \in {"files", "alerts", "registry"}
  /\ instance = "alerts" => file["main"].len = 1
MCNext == QuotaNext /\ Within(instance) /\ UNCHANGED instance
MCSpec == MCInit /\ [][MCNext]_<<quotaVars, instance>>

MCView == <<QuotaView, instance>>
=============================================================================
