------------------------------ MODULE MCDaemon ------------------------------
(* A client that loads, an admin client that does everything, and the       *)
(* daemon's main goroutine.                                                 *)
EXTENDS Daemon, TLC

CONSTANTS a, b, d, client, admin, main

MCMembers == {a, b}
MCModels == {a, b, d}
MCDraftOf == a :> d @@ b :> NoModel
MCSharedDraftOf == a :> b @@ b :> NoModel
MCJobs == client :> {"load"}
          @@ admin :> AllJobs \ {"stopAll"}
          @@ main :> {"stopAll"}
MCLongJobs == client :> {"load"} @@ admin :> {"pull", "reload"} @@ main :> {"stopAll"}
MCClientJobs == client :> {"load"}
MCSymmetry == Permutations(Slots)
=============================================================================
