---------------------------- MODULE GracefulExit ----------------------------
(***************************************************************************)
(* The exit system of graceful_exit/src/lib.rs (bws.old/src/               *)
(* graceful_shutdown.rs is the same code under older names):               *)
(*                                                                         *)
(*   initiate       Arc<(OnceCell<()>, Notify)>    initiated, asyncPc      *)
(*   active_guards  Arc<(Mutex<u64>, Condvar)>     mutex, counter, drainPc *)
(*                                                                         *)
(* Each element of Guards is one GracefulExitGuard value, made once by     *)
(* guard() and dropped at most once; each other thread or task is one call *)
(* of a method of GracefulExit. A thread takes one step per access to      *)
(* shared state, so that every interleaving of the calls is a behaviour.   *)
(* The u64 counter cannot wrap: it never exceeds the number of guards.     *)
(***************************************************************************)
EXTENDS Naturals, FiniteSets

CONSTANTS
  Guards,           (* the guards a run creates                             *)
  Exiters,          (* threads that call exit(), any number of times        *)
  AsyncWaiters,     (* tasks that call wait_for_exit, as often as they like *)
  BlockingWaiters,  (* threads that call blocking_wait_for_exit             *)
  Drainers,         (* threads that call blocking_wait_for_guards           *)
  TimedDrainers,    (* the drainers whose timeout is Some(_)                *)
  MaxSpurious,      (* bound on the spurious wakeups of one drainer         *)
  Free              (* value of mutex when nobody holds it                  *)

ASSUME ConstantsAssumption ==
  /\ TimedDrainers \subseteq Drainers
  /\ AsyncWaiters \cap BlockingWaiters = {}
  /\ Guards \cap Drainers = {}
  /\ Free \notin Guards \cup Drainers
  /\ MaxSpurious \in Nat

VARIABLES
  initiated,   (* the OnceCell is set                                       *)
  exitPc,      (* exiter: "idle", "set" (cell set, waiters not yet notified) *)
  asyncPc,     (* task: "idle", "registered", "notified", "returned"        *)
  blockPc,     (* thread: "idle", "blocked", "returned"                     *)
  mutex,       (* owner of active_guards.0                                  *)
  counter,     (* the value it protects                                     *)
  loaded,      (* what the += or -= of a guard has read of it               *)
  guardPc,     (* where the code that owns the guard is                     *)
  drainPc,     (* where the drainer is                                      *)
  elapsed,     (* the drainer's timeout has run out                         *)
  spurious     (* spurious wakeups the drainer has had                      *)

exitVars == <<initiated, exitPc, asyncPc, blockPc>>
guardVars == <<mutex, counter, loaded, guardPc>>
drainVars == <<drainPc, elapsed, spurious>>
vars == <<exitVars, guardVars, drainVars>>

Init ==
  /\ initiated = FALSE
  /\ exitPc = [e \in Exiters |-> "idle"]
  /\ asyncPc = [w \in AsyncWaiters |-> "idle"]
  /\ blockPc = [b \in BlockingWaiters |-> "idle"]
  /\ mutex = Free
  /\ counter = 0
  /\ loaded = [g \in Guards |-> 0]
  /\ guardPc = [g \in Guards |-> "none"]
  /\ drainPc = [d \in Drainers |-> "idle"]
  /\ elapsed = [d \in Drainers |-> FALSE]
  /\ spurious = [d \in Drainers |-> 0]

-----------------------------------------------------------------------------
(* exit(): set the cell, whether or not it was set before, then notify the *)
(* tasks that are registered at that moment.                               *)

(* Mutant: exit() only notifies, the cell is never set.                    *)
ExitSetNever(e) ==
  /\ exitPc[e] = "idle"
  /\ exitPc' = [exitPc EXCEPT ![e] = "set"]
  /\ UNCHANGED <<initiated, asyncPc, blockPc, guardVars, drainVars>>

ExitSet(e) ==
  /\ exitPc[e] = "idle"
  /\ exitPc' = [exitPc EXCEPT ![e] = "set"]
  /\ initiated' = TRUE
  /\ UNCHANGED <<asyncPc, blockPc, guardVars, drainVars>>

(* Notify::notify_waiters leaves nothing behind for tasks that come later. *)
NotifyWaiters(pcs) ==
  [w \in AsyncWaiters |-> IF pcs[w] = "registered" THEN "notified" ELSE pcs[w]]

(* Mutant: notify_one.                                                     *)
ExitNotifyOne(e) ==
  /\ exitPc[e] = "set"
  /\ exitPc' = [exitPc EXCEPT ![e] = "idle"]
  /\ LET waiting == {w \in AsyncWaiters : asyncPc[w] = "registered"} IN
       \/ waiting = {} /\ UNCHANGED asyncPc
       \/ \E w \in waiting : asyncPc' = [asyncPc EXCEPT ![w] = "notified"]
  /\ UNCHANGED <<initiated, blockPc, guardVars, drainVars>>

ExitNotify(e) ==
  /\ exitPc[e] = "set"
  /\ exitPc' = [exitPc EXCEPT ![e] = "idle"]
  /\ asyncPc' = NotifyWaiters(asyncPc)
  /\ UNCHANGED <<initiated, blockPc, guardVars, drainVars>>

-----------------------------------------------------------------------------
(* wait_for_exit(): the first poll creates the Notified future, which      *)
(* registers the task; the cell is not looked at. A caller that races the  *)
(* future in a select! may drop it, notified or not, and call again.       *)

AsyncRegister(w) ==
  /\ asyncPc[w] = "idle"
  /\ asyncPc' = [asyncPc EXCEPT ![w] = "registered"]
  /\ UNCHANGED <<initiated, exitPc, blockPc, guardVars, drainVars>>

AsyncReturn(w) ==
  /\ asyncPc[w] = "notified"
  /\ asyncPc' = [asyncPc EXCEPT ![w] = "returned"]
  /\ UNCHANGED <<initiated, exitPc, blockPc, guardVars, drainVars>>

AsyncCancel(w) ==
  /\ asyncPc[w] \in {"registered", "notified"}
  /\ asyncPc' = [asyncPc EXCEPT ![w] = "idle"]
  /\ UNCHANGED <<initiated, exitPc, blockPc, guardVars, drainVars>>

(* blocking_wait_for_exit(): OnceCell::wait returns once the cell is set.  *)

BlockingCall(b) ==
  /\ blockPc[b] = "idle"
  /\ blockPc' = [blockPc EXCEPT ![b] = "blocked"]
  /\ UNCHANGED <<initiated, exitPc, asyncPc, guardVars, drainVars>>

BlockingReturn(b) ==
  /\ blockPc[b] = "blocked"
  /\ initiated
  /\ blockPc' = [blockPc EXCEPT ![b] = "returned"]
  /\ UNCHANGED <<initiated, exitPc, asyncPc, guardVars, drainVars>>

-----------------------------------------------------------------------------
(* guard(): the lock is a temporary of the statement that increments. The  *)
(* += of the u64 is a read and a write, and so is the -= of drop(): only   *)
(* the mutex keeps other threads from coming between.                      *)

GuardLock(g) ==
  /\ guardPc[g] = "none"
  /\ mutex = Free
  /\ mutex' = g
  /\ guardPc' = [guardPc EXCEPT ![g] = "creating"]
  /\ UNCHANGED <<exitVars, counter, loaded, drainVars>>

GuardLoad(g) ==
  /\ guardPc[g] = "creating"
  /\ loaded' = [loaded EXCEPT ![g] = counter]
  /\ guardPc' = [guardPc EXCEPT ![g] = "adding"]
  /\ UNCHANGED <<exitVars, mutex, counter, drainVars>>

GuardIncrement(g) ==
  /\ guardPc[g] = "adding"
  /\ counter' = loaded[g] + 1
  /\ loaded' = [loaded EXCEPT ![g] = 0]
  /\ mutex' = Free
  /\ guardPc' = [guardPc EXCEPT ![g] = "held"]
  /\ UNCHANGED <<exitVars, drainVars>>

(* Drop for GracefulExitGuard: the lock is held to the end of drop(), so   *)
(* the notification goes out before anyone else can see the zero.          *)

(* Mutant: the guard can be dropped a second time.                         *)
DropLockAgain(g) ==
  /\ guardPc[g] \in {"held", "dropped"}
  /\ mutex = Free
  /\ mutex' = g
  /\ guardPc' = [guardPc EXCEPT ![g] = "dropping"]
  /\ UNCHANGED <<exitVars, counter, loaded, drainVars>>

(* Mutant: drop() works on the counter without taking the mutex.           *)
DropUnlocked(g) ==
  /\ guardPc[g] = "held"
  /\ guardPc' = [guardPc EXCEPT ![g] = "dropping"]
  /\ UNCHANGED <<exitVars, mutex, counter, loaded, drainVars>>

DropLock(g) ==
  /\ guardPc[g] = "held"
  /\ mutex = Free
  /\ mutex' = g
  /\ guardPc' = [guardPc EXCEPT ![g] = "dropping"]
  /\ UNCHANGED <<exitVars, counter, loaded, drainVars>>

DropLoad(g) ==
  /\ guardPc[g] = "dropping"
  /\ loaded' = [loaded EXCEPT ![g] = counter]
  /\ guardPc' = [guardPc EXCEPT ![g] = "subtracting"]
  /\ UNCHANGED <<exitVars, mutex, counter, drainVars>>

(* Mutant: the notification is sent when one guard is left.                *)
DropDecrementOffByOne(g) ==
  /\ guardPc[g] = "subtracting"
  /\ counter' = loaded[g] - 1
  /\ loaded' = [loaded EXCEPT ![g] = 0]
  /\ \/ /\ counter' = 1
        /\ guardPc' = [guardPc EXCEPT ![g] = "notifying"]
        /\ UNCHANGED mutex
     \/ /\ counter' # 1
        /\ guardPc' = [guardPc EXCEPT ![g] = "dropped"]
        /\ mutex' = Free
  /\ UNCHANGED <<exitVars, drainVars>>

DropDecrement(g) ==
  /\ guardPc[g] = "subtracting"
  /\ counter' = loaded[g] - 1
  /\ loaded' = [loaded EXCEPT ![g] = 0]
  /\ \/ /\ counter' = 0
        /\ guardPc' = [guardPc EXCEPT ![g] = "notifying"]
        /\ UNCHANGED mutex
     \/ /\ counter' # 0
        /\ guardPc' = [guardPc EXCEPT ![g] = "dropped"]
        /\ mutex' = Free
  /\ UNCHANGED <<exitVars, drainVars>>

(* Condvar::notify_all: every thread asleep on it goes for the mutex.      *)
NotifyAll(pcs) ==
  [d \in Drainers |-> IF pcs[d] = "asleep" THEN "woken" ELSE pcs[d]]

(* Mutant: notify_one.                                                     *)
DropNotifyOne(g) ==
  /\ guardPc[g] = "notifying"
  /\ LET asleep == {d \in Drainers : drainPc[d] = "asleep"} IN
       \/ asleep = {} /\ UNCHANGED drainPc
       \/ \E d \in asleep : drainPc' = [drainPc EXCEPT ![d] = "woken"]
  /\ guardPc' = [guardPc EXCEPT ![g] = "dropped"]
  /\ mutex' = Free
  /\ UNCHANGED <<exitVars, counter, loaded, elapsed, spurious>>

DropNotify(g) ==
  /\ guardPc[g] = "notifying"
  /\ drainPc' = NotifyAll(drainPc)
  /\ guardPc' = [guardPc EXCEPT ![g] = "dropped"]
  /\ mutex' = Free
  /\ UNCHANGED <<exitVars, counter, loaded, elapsed, spurious>>

-----------------------------------------------------------------------------
(* blocking_wait_for_guards(timeout): Condvar::wait_while or, with a       *)
(* timeout, wait_timeout_while. Under the mutex the loop looks at the      *)
(* counter, then at the clock, then sleeps; going to sleep and letting go  *)
(* of the mutex are one step, looking and going to sleep are not.          *)

DrainLock(d) ==
  /\ drainPc[d] \in {"idle", "woken"}
  /\ mutex = Free
  /\ mutex' = d
  /\ drainPc' = [drainPc EXCEPT ![d] = "checking"]
  /\ UNCHANGED <<exitVars, counter, loaded, guardPc, elapsed, spurious>>

(* Mutant: wait instead of wait_while: any wakeup ends the drain.          *)
DrainReturnOnWakeup(d) ==
  /\ drainPc[d] = "checking"
  /\ counter = 0 \/ spurious[d] > 0
  /\ mutex' = Free
  /\ drainPc' = [drainPc EXCEPT ![d] = "drained"]
  /\ UNCHANGED <<exitVars, counter, loaded, guardPc, elapsed, spurious>>

DrainReturn(d) ==
  /\ drainPc[d] = "checking"
  /\ counter = 0
  /\ mutex' = Free
  /\ drainPc' = [drainPc EXCEPT ![d] = "drained"]
  /\ UNCHANGED <<exitVars, counter, loaded, guardPc, elapsed, spurious>>

(* Mutant: the clock is looked at before the counter.                      *)
DrainTimeOutFirst(d) ==
  /\ drainPc[d] = "checking"
  /\ elapsed[d]
  /\ mutex' = Free
  /\ drainPc' = [drainPc EXCEPT ![d] = "forced"]
  /\ UNCHANGED <<exitVars, counter, loaded, guardPc, elapsed, spurious>>

DrainTimeOut(d) ==
  /\ drainPc[d] = "checking"
  /\ counter > 0
  /\ elapsed[d]
  /\ mutex' = Free
  /\ drainPc' = [drainPc EXCEPT ![d] = "forced"]
  /\ UNCHANGED <<exitVars, counter, loaded, guardPc, elapsed, spurious>>

DrainCheck(d) ==
  /\ drainPc[d] = "checking"
  /\ counter > 0
  /\ ~elapsed[d]
  /\ drainPc' = [drainPc EXCEPT ![d] = "parking"]
  /\ UNCHANGED <<exitVars, guardVars, elapsed, spurious>>

DrainPark(d) ==
  /\ drainPc[d] = "parking"
  /\ mutex' = Free
  /\ drainPc' = [drainPc EXCEPT ![d] = "asleep"]
  /\ UNCHANGED <<exitVars, counter, loaded, guardPc, elapsed, spurious>>

(* The clock started when the mutex was first taken.                       *)
Elapse(d) ==
  /\ d \in TimedDrainers
  /\ drainPc[d] \in {"checking", "parking", "asleep", "woken"}
  /\ ~elapsed[d]
  /\ elapsed' = [elapsed EXCEPT ![d] = TRUE]
  /\ UNCHANGED <<exitVars, guardVars, drainPc, spurious>>

TimeoutWake(d) ==
  /\ drainPc[d] = "asleep"
  /\ elapsed[d]
  /\ drainPc' = [drainPc EXCEPT ![d] = "woken"]
  /\ UNCHANGED <<exitVars, guardVars, elapsed, spurious>>

SpuriousWake(d) ==
  /\ drainPc[d] = "asleep"
  /\ spurious[d] < MaxSpurious
  /\ spurious' = [spurious EXCEPT ![d] = @ + 1]
  /\ drainPc' = [drainPc EXCEPT ![d] = "woken"]
  /\ UNCHANGED <<exitVars, guardVars, elapsed>>

-----------------------------------------------------------------------------
ExitStep(e) == ExitSet(e) \/ ExitNotify(e)

AsyncStep(w) == AsyncRegister(w) \/ AsyncReturn(w) \/ AsyncCancel(w)

BlockingStep(b) == BlockingCall(b) \/ BlockingReturn(b)

GuardStep(g) ==
  \/ GuardLock(g) \/ GuardLoad(g) \/ GuardIncrement(g)
  \/ DropLock(g) \/ DropLoad(g) \/ DropDecrement(g) \/ DropNotify(g)

DrainStep(d) ==
  \/ DrainLock(d) \/ DrainReturn(d) \/ DrainTimeOut(d)
  \/ DrainCheck(d) \/ DrainPark(d)
  \/ Elapse(d) \/ TimeoutWake(d) \/ SpuriousWake(d)

Next ==
  \/ \E e \in Exiters : ExitStep(e)
  \/ \E w \in AsyncWaiters : AsyncStep(w)
  \/ \E b \in BlockingWaiters : BlockingStep(b)
  \/ \E g \in Guards : GuardStep(g)
  \/ \E d \in Drainers : DrainStep(d)

Spec == Init /\ [][Next]_vars

(* A thread inside a call goes on with it, a woken task is polled, and     *)
(* time passes. Nobody has to call exit(), make a guard, wait or cancel; a *)
(* guard may stay in scope for ever, but once its drop() has begun the     *)
(* drop goes on. Weak fairness of the lock steps is enough because the     *)
(* mutex is taken finitely often: guards are made once, spurious wakeups   *)
(* are bounded.                                                            *)
Fairness ==
  /\ \A e \in Exiters : WF_vars(ExitNotify(e))
  /\ \A w \in AsyncWaiters : WF_vars(AsyncReturn(w))
  /\ \A b \in BlockingWaiters : WF_vars(BlockingReturn(b))
  /\ \A g \in Guards :
       WF_vars(\/ GuardLoad(g) \/ GuardIncrement(g)
               \/ DropLoad(g) \/ DropDecrement(g) \/ DropNotify(g))
  /\ \A d \in Drainers :
       /\ WF_vars(drainPc[d] # "idle" /\ DrainLock(d))
       /\ WF_vars(DrainReturn(d) \/ DrainTimeOut(d) \/ DrainCheck(d) \/ DrainPark(d))
       /\ WF_vars(Elapse(d))
       /\ WF_vars(TimeoutWake(d))

FairSpec == Spec /\ Fairness

-----------------------------------------------------------------------------
(* Type invariant of the variables (graceful_exit/src/lib.rs:11-19 and *)
(* the positions of the threads in its methods). In particular the u64     *)
(* counter never goes below zero.                                          *)
TypeOK ==
  /\ initiated \in BOOLEAN
  /\ exitPc \in [Exiters -> {"idle", "set"}]
  /\ asyncPc \in [AsyncWaiters -> {"idle", "registered", "notified", "returned"}]
  /\ blockPc \in [BlockingWaiters -> {"idle", "blocked", "returned"}]
  /\ mutex \in {Free} \cup Guards \cup Drainers
  /\ counter \in Nat
  /\ loaded \in [Guards -> Nat]
  /\ guardPc \in [Guards -> {"none", "creating", "adding", "held", "dropping",
                             "subtracting", "notifying", "dropped"}]
  /\ drainPc \in [Drainers -> {"idle", "checking", "parking", "asleep",
                               "woken", "drained", "forced"}]
  /\ elapsed \in [Drainers -> BOOLEAN]
  /\ spurious \in [Drainers -> 0 .. MaxSpurious]

Counted == {g \in Guards : guardPc[g] \in {"held", "dropping", "subtracting"}}

(* The mutex is owned by exactly the thread that is inside a critical      *)
(* section of guard(), drop() or blocking_wait_for_guards().               *)
LockDiscipline ==
  /\ \A g \in Guards :
       guardPc[g] \in {"creating", "adding", "dropping", "subtracting", "notifying"}
         <=> mutex = g
  /\ \A d \in Drainers : drainPc[d] \in {"checking", "parking"} <=> mutex = d

(* Whatever the interleaving of guard() and drop(), the counter is the     *)
(* number of guards in scope: no thread writes back what it read before    *)
(* another's change (lib.rs:32, 84-85).                                    *)
CounterMatchesGuards == IsFiniteSet(Counted) /\ counter = Cardinality(Counted)

(* A drainer never sleeps past the moment it waits for: if it is asleep or *)
(* about to sleep while no guard is counted, the drop that took the        *)
(* counter to zero is still to send its notification (lib.rs:72-75, 88-90).*)
NoLostWakeup ==
  \A d \in Drainers :
    /\ drainPc[d] = "asleep" =>
         counter > 0 \/ \E g \in Guards : guardPc[g] = "notifying"
    /\ drainPc[d] = "parking" => counter > 0

(* No wait for an exit ends, and no task is even notified, before an       *)
(* exit() has set the cell (lib.rs:39-41).                                 *)
NoEarlyExit ==
  /\ \A w \in AsyncWaiters : asyncPc[w] \in {"notified", "returned"} => initiated
  /\ \A b \in BlockingWaiters : blockPc[b] = "returned" => initiated
  /\ \A e \in Exiters : exitPc[e] = "set" => initiated

(* The mapping to the contract: a guard is in scope while it is counted, a *)
(* drain has been called once it has the mutex.                            *)
ScopeOf(pc) ==
  CASE pc \in {"none", "creating", "adding"}         -> "before"
    [] pc \in {"held", "dropping", "subtracting"}    -> "in"
    [] OTHER                                         -> "after"

DrainOf(pc) ==
  CASE pc = "idle"                   -> "uncalled"
    [] pc \in {"drained", "forced"}  -> pc
    [] OTHER                         -> "waiting"

Told ==
  {w \in AsyncWaiters : asyncPc[w] = "returned"}
    \cup {b \in BlockingWaiters : blockPc[b] = "returned"}

Contract == INSTANCE ExitContract WITH
  requested <- initiated,
  told      <- Told,
  scope     <- [g \in Guards |-> ScopeOf(guardPc[g])],
  drain     <- [d \in Drainers |-> DrainOf(drainPc[d])]

(* The mutex, counter and condition variable implement the contract: a     *)
(* quiet return of blocking_wait_for_guards happens with no guard in scope *)
(* and a forced one only after the timeout with a guard in scope.          *)
ContractSafety == Contract!Spec

(* Under the fairness above they also meet its progress obligations: a     *)
(* drain whose guards are all gone returns, a timed one always returns.    *)
ContractProgress == Contract!Fairness

(* A task that is waiting when exit() has set the cell but not yet         *)
(* notified is woken, unless its caller drops the wait (lib.rs:39-41, 49). *)
RegisteredAreWoken ==
  \A w \in AsyncWaiters :
    (asyncPc[w] = "registered" /\ \E e \in Exiters : exitPc[e] = "set")
      ~> asyncPc[w] # "registered"

(* What lib.rs:47 says of wait_for_exit, "Waits for the shutdown           *)
(* initiation asynchronously": once the exit is initiated, no wait goes on.*)
(* The code does not do this for a wait that starts after notify_waiters.  *)
AsyncLearnOfExit ==
  \A w \in AsyncWaiters :
    (asyncPc[w] = "registered" /\ initiated) ~> asyncPc[w] # "registered"

=============================================================================
