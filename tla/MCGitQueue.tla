---------------------------- MODULE MCGitQueue ----------------------------
(***************************************************************************)
(* GitQueue on two jobs and three leases: l1 and l2 are taken by request   *)
(* coroutines, n1 is the GitLockContext entered inside job j1.             *)
(***************************************************************************)
EXTENDS GitQueue

CONSTANTS j1, j2, l1, l2, n1

MCJobs == {j1, j2}
MCLeases == {l1, l2, n1}
MCOwner == [l \in MCLeases |-> IF l = n1 THEN j1 ELSE NoTaskId]
=============================================================================
