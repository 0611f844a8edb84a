---------------------------- MODULE ExitContract ----------------------------
(***************************************************************************)
(* What graceful_exit/src/lib.rs promises its callers, read off the code's *)
(* signatures and return points and free of mutexes, condition variables   *)
(* and notification lists:                                                 *)
(*                                                                         *)
(*   - nobody is told about an exit that has not been requested;           *)
(*   - a drain (blocking_wait_for_guards) returns quietly only at a moment *)
(*     at which no guard is in scope, and gives up only if it was called   *)
(*     with a timeout and some guard is still in scope;                    *)
(*   - a drain whose guards are all gone does return, as a drain with a    *)
(*     timeout does in any case.                                           *)
(*                                                                         *)
(* GracefulExit.tla is shown to implement this module.                     *)
(***************************************************************************)

CONSTANTS
  Guards,           (* the GracefulExitGuard values a run of the program creates *)
  AsyncWaiters,     (* calls of wait_for_exit                                    *)
  BlockingWaiters,  (* calls of blocking_wait_for_exit                           *)
  Drainers,         (* calls of blocking_wait_for_guards                         *)
  TimedDrainers     (* the ones among them whose timeout is Some(_)              *)

VARIABLES
  requested,  (* exit() has been called                                *)
  told,       (* the waits for an exit that have returned              *)
  scope,      (* per guard: "before", "in" or "after" its scope        *)
  drain       (* per drain: "uncalled", "waiting", "drained", "forced" *)

vars == <<requested, told, scope, drain>>

NoGuardInScope == \A g \in Guards : scope[g] # "in"

Init ==
  /\ requested = FALSE
  /\ told = {}
  /\ scope = [g \in Guards |-> "before"]
  /\ drain = [d \in Drainers |-> "uncalled"]

Request ==
  /\ requested' = TRUE
  /\ UNCHANGED <<told, scope, drain>>

Tell(w) ==
  /\ requested
  /\ told' = told \cup {w}
  /\ UNCHANGED <<requested, scope, drain>>

Enter(g) ==
  /\ scope[g] = "before"
  /\ scope' = [scope EXCEPT ![g] = "in"]
  /\ UNCHANGED <<requested, told, drain>>

Leave(g) ==
  /\ scope[g] = "in"
  /\ scope' = [scope EXCEPT ![g] = "after"]
  /\ UNCHANGED <<requested, told, drain>>

Call(d) ==
  /\ drain[d] = "uncalled"
  /\ drain' = [drain EXCEPT ![d] = "waiting"]
  /\ UNCHANGED <<requested, told, scope>>

Drained(d) ==
  /\ drain[d] = "waiting"
  /\ NoGuardInScope
  /\ drain' = [drain EXCEPT ![d] = "drained"]
  /\ UNCHANGED <<requested, told, scope>>

Forced(d) ==
  /\ d \in TimedDrainers
  /\ drain[d] = "waiting"
  /\ ~NoGuardInScope
  /\ drain' = [drain EXCEPT ![d] = "forced"]
  /\ UNCHANGED <<requested, told, scope>>

Next ==
  \/ Request
  \/ \E w \in AsyncWaiters \cup BlockingWaiters : Tell(w)
  \/ \E g \in Guards : Enter(g) \/ Leave(g)
  \/ \E d \in Drainers : Call(d) \/ Drained(d) \/ Forced(d)

Spec == Init /\ [][Next]_vars

(* The obligations to make progress are the drains'. A wait for the exit   *)
(* has none here: a task that starts to wait after the notification has    *)
(* gone out is not woken by it.                                            *)
Fairness ==
  /\ \A d \in Drainers : WF_vars(Drained(d))
  /\ \A d \in TimedDrainers : WF_vars(Drained(d) \/ Forced(d))

FairSpec == Spec /\ Fairness

=============================================================================
