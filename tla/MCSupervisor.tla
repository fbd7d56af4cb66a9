----------------------------- MODULE MCSupervisor -----------------------------
(***************************************************************************)
(* The supervisor for TLC: the fleet whose API handlers and main goroutine *)
(* call the Manager at the same time ("fleet"), the same fleet whose one   *)
(* listener's file disappears ("removal"), and one caller with listeners   *)
(* that ask for NAT and may fail at it ("host"). The parts share the       *)
(* module's constants but for the configs, the calls and CanRemove, so     *)
(* the invariants the proofs are about hold of each of them as they stand. *)
(***************************************************************************)
EXTENDS Supervisor, TLC

CONSTANTS api, main

VARIABLE part

Cfg(enabled, nat) == [enabled |-> enabled, nat |-> nat, opt |-> 1]
MCOn == {Cfg(TRUE, FALSE)}
MCOnOff == {Cfg(TRUE, FALSE), Cfg(FALSE, FALSE)}
MCNat == {Cfg(TRUE, TRUE), Cfg(FALSE, FALSE)}
MCAll == MCOnOff \cup MCNat

(* The management API's handlers run one at a time under mgmt's mutate lock; *)
(* the main goroutine reconciles on SIGHUP and closes the fleet on SIGTERM.  *)
MCReconcile == (api :> {"rebuild", "stop"} @@ main :> {"apply"})
MCShutdown == (api :> {"rebuild", "stop"} @@ main :> {"apply", "close"})

Fleet == INSTANCE Supervisor WITH Configs <- MCOnOff
Removal == INSTANCE Supervisor WITH Configs <- MCOn, CanRemove <- TRUE
Host == INSTANCE Supervisor WITH
  Configs <- MCNat, CanRemove <- TRUE,
  Ops <- (api :> {} @@ main :> {"apply", "rebuild", "stop", "close"})

Begin ==
  \/ part = "fleet" /\ Fleet!Init
  \/ part = "removal" /\ Removal!Init
  \/ part = "host" /\ Host!Init
Step ==
  /\ UNCHANGED part
  /\ \/ part = "fleet" /\ Fleet!Next
     \/ part = "removal" /\ Removal!Next
     \/ part = "host" /\ Host!Next
SafetySpec == Begin /\ [][Step]_<<part, vars>>

FleetSpec == part = "fleet" /\ Init /\ [][UNCHANGED part /\ Next]_<<part, vars>>
FairFleet == FleetSpec /\ Fairness /\ InlineCloseReturns

Symmetry == Permutations(Handles) \cup Permutations(Servers)

-----------------------------------------------------------------------------
(* Properties. *)

(* stopListenerLocked and persistHostnetState: with one caller the rules   *)
(* on the host are those of the tracked servers and no others, whether or  *)
(* not the state file could be written.                                    *)
HostRulesFollow == part = "host" => Host!RulesFollowServers
=============================================================================
