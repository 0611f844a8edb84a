---------------------------- MODULE AppShutdown ----------------------------
(***************************************************************************)
(* The application of bws.old: the main thread in run_app                  *)
(* (application/mod.rs), the server thread in run (lib.rs), the accept     *)
(* loop serve and the connection tasks handle_conn (serverbase.rs), the    *)
(* ctrl-c handler, and the ShutdownSystem they share, which is the         *)
(* GracefulExit module: a step of a thread that calls the shutdown system  *)
(* is a step of that module and of the thread together.                    *)
(*                                                                         *)
(* A handshake or a session (status or login) is one phase here: it lasts  *)
(* until its packets, which the client sends when it likes, have come.     *)
(***************************************************************************)
EXTENDS Naturals

CONSTANTS
  Conns,        (* the connections clients may open                        *)
  Main, Server, (* the main thread, the server thread                      *)
  CtrlC,        (* the thread of the ctrl-c handler                        *)
  Timed,        (* config.shutdown_timeout is Some(_)                      *)
  MaxSpurious,  (* bound on the spurious wakeups of the main thread        *)
  Free          (* value of mutex when nobody holds it                     *)

ASSUME AppAssumption ==
  /\ Main # Server /\ Free \notin {Main, Server}
  /\ Conns \cap {Main, Server, Free} = {}
  /\ Timed \in BOOLEAN
  /\ MaxSpurious \in Nat

VARIABLES
  initiated, exitPc, asyncPc, blockPc, mutex, counter, loaded, guardPc,
  drainPc, elapsed, spurious,    (* the shutdown system, see GracefulExit  *)
  mainPc,    (* "setup", "handler" (installed), "waiting", "exited"        *)
  serverPc,  (* "off", "starting", "binding", "bound", "serving",          *)
             (* "leaving", "stopped"                                       *)
  connPc     (* "none", "backlog", "spawned", "legacy", "handshake",       *)
             (* "session", "leaving", "closed"                             *)

Shutdown == INSTANCE GracefulExit WITH
  Guards          <- Conns \cup {Server},
  Exiters         <- {CtrlC},
  AsyncWaiters    <- Conns \cup {Server},
  BlockingWaiters <- {Main},
  Drainers        <- {Main},
  TimedDrainers   <- IF Timed THEN {Main} ELSE {}

systemVars == <<initiated, exitPc, asyncPc, blockPc, mutex, counter, loaded, guardPc,
                drainPc, elapsed, spurious>>
appVars == <<mainPc, serverPc, connPc>>
vars == <<systemVars, appVars>>

Init ==
  /\ Shutdown!Init
  /\ mainPc = "setup"
  /\ serverPc = "off"
  /\ connPc = [c \in Conns |-> "none"]

(* The other threads end with the process.                                 *)
Running == mainPc # "exited"

Move(c, to) == connPc' = [connPc EXCEPT ![c] = to]

(* A task that leaves a select! drops the wait it raced there, if that was *)
(* polled at all.                                                          *)
LeaveSelect(w) ==
  IF asyncPc[w] \in {"registered", "notified"} THEN Shutdown!AsyncCancel(w)
  ELSE UNCHANGED systemVars

(* Mutant: the value of a guard is made without counting it.               *)
GuardingUncounted(w) ==
  /\ guardPc[w] = "none"
  /\ guardPc' = [guardPc EXCEPT ![w] = "held"]
  /\ UNCHANGED <<initiated, exitPc, asyncPc, blockPc, mutex, counter, loaded,
                 drainPc, elapsed, spurious>>

Guarding(w) ==
  Shutdown!GuardLock(w) \/ Shutdown!GuardLoad(w) \/ Shutdown!GuardIncrement(w)

Dropping(w) ==
  \/ Shutdown!DropLock(w) \/ Shutdown!DropLoad(w)
  \/ Shutdown!DropDecrement(w) \/ Shutdown!DropNotify(w)

-----------------------------------------------------------------------------
(* run_app, the main thread                                                *)

(* set_handler may fail: run_app returns the error.                        *)
InstallHandler ==
  /\ mainPc = "setup"
  /\ mainPc' \in {"handler", "exited"}
  /\ UNCHANGED <<systemVars, serverPc, connPc>>

SpawnServer ==
  /\ mainPc = "handler"
  /\ mainPc' = "waiting"
  /\ serverPc' = "starting"
  /\ UNCHANGED <<systemVars, connPc>>

(* Mutant: the timeout of the config is not handed on.                     *)
MainWaitUntimed ==
  /\ mainPc = "waiting"
  /\ \/ Shutdown!BlockingStep(Main)
     \/ (blockPc[Main] = "returned" /\ Shutdown!DrainStep(Main) /\ elapsed' = elapsed)
  /\ UNCHANGED appVars

(* blocking_wait_for_shutdown, then blocking_wait_for_guards               *)
MainWait ==
  /\ mainPc = "waiting"
  /\ \/ Shutdown!BlockingStep(Main)
     \/ (blockPc[Main] = "returned" /\ Shutdown!DrainStep(Main))
  /\ UNCHANGED appVars

MainExit ==
  /\ mainPc = "waiting"
  /\ drainPc[Main] \in {"drained", "forced"}
  /\ mainPc' = "exited"
  /\ UNCHANGED <<systemVars, serverPc, connPc>>

(* The handler calls shutdown() once for every ctrl-c.                     *)
PressCtrlC ==
  /\ Running /\ mainPc # "setup"
  /\ Shutdown!ExitStep(CtrlC)
  /\ UNCHANGED appVars

-----------------------------------------------------------------------------
(* run and serve, the server thread                                        *)

ServerGuard ==
  /\ Running /\ serverPc = "starting"
  /\ Guarding(Server)
  /\ serverPc' = IF guardPc'[Server] = "held" THEN "binding" ELSE serverPc
  /\ UNCHANGED <<mainPc, connPc>>

(* bind may fail: run returns the error.                                   *)
Bind ==
  /\ Running /\ serverPc = "binding"
  /\ serverPc' \in {"bound", "leaving"}
  /\ UNCHANGED <<systemVars, mainPc, connPc>>

(* The first poll of the wait in the select!.                              *)
ServerRegister ==
  /\ Running /\ serverPc = "bound"
  /\ Shutdown!AsyncRegister(Server)
  /\ serverPc' = "serving"
  /\ UNCHANGED <<mainPc, connPc>>

Accepting == Running /\ serverPc \in {"bound", "serving"}

(* The task of the connection is spawned; it is polled some time later.    *)
Accept(c) ==
  /\ Accepting
  /\ connPc[c] = "backlog"
  /\ Move(c, "spawned")
  /\ UNCHANGED <<systemVars, mainPc, serverPc>>

(* accept or set_nodelay fails: serve returns, and with it run, as if all  *)
(* were well. The sockets in the backlog are closed with the listener.     *)
ServeFails ==
  /\ Accepting
  /\ serverPc' = "leaving"
  /\ LeaveSelect(Server)
  /\ connPc' = [c \in Conns |-> IF connPc[c] = "backlog" THEN "closed" ELSE connPc[c]]
  /\ UNCHANGED mainPc

(* Mutant: the server goes on after the notification.                      *)
ServerIgnoresShutdown ==
  /\ Running /\ serverPc = "serving"
  /\ Shutdown!AsyncReturn(Server)
  /\ UNCHANGED appVars

ServerHears ==
  /\ Running /\ serverPc = "serving"
  /\ Shutdown!AsyncReturn(Server)
  /\ serverPc' = "leaving"
  /\ connPc' = [c \in Conns |-> IF connPc[c] = "backlog" THEN "closed" ELSE connPc[c]]
  /\ UNCHANGED mainPc

ServerDrop ==
  /\ Running /\ serverPc = "leaving"
  /\ Dropping(Server)
  /\ serverPc' = IF guardPc'[Server] = "dropped" THEN "stopped" ELSE serverPc
  /\ UNCHANGED <<mainPc, connPc>>

-----------------------------------------------------------------------------
(* a client, and handle_conn, the task of its connection                   *)

Connect(c) ==
  /\ Accepting
  /\ connPc[c] = "none"
  /\ Move(c, "backlog")
  /\ UNCHANGED <<systemVars, mainPc, serverPc>>

(* Mutant: the guard is taken only when the legacy phase is over.          *)
ConnGuardAfterLegacy(c) ==
  /\ Running
  /\ \/ connPc[c] = "spawned" /\ Move(c, "legacy") /\ UNCHANGED systemVars
     \/ /\ connPc[c] = "legacy" /\ Guarding(c)
        /\ IF guardPc'[c] = "held" THEN Move(c, "handshake") ELSE UNCHANGED connPc
  /\ UNCHANGED <<mainPc, serverPc>>

ConnGuard(c) ==
  /\ Running /\ connPc[c] = "spawned"
  /\ Guarding(c)
  /\ IF guardPc'[c] = "held" THEN Move(c, "legacy") ELSE UNCHANGED connPc
  /\ UNCHANGED <<mainPc, serverPc>>

(* legacy_ping::handle: not raced with the shutdown. It ends with the task *)
(* (a legacy ping, a stream error) or finds that this is no legacy ping.   *)
LegacyEnds(c) ==
  /\ Running /\ connPc[c] = "legacy"
  /\ Move(c, "leaving") \/ Move(c, "handshake")
  /\ UNCHANGED <<systemVars, mainPc, serverPc>>

InSelect(c) == connPc[c] \in {"handshake", "session"}

(* The first poll of the wait in the select! of the phase; a phase whose   *)
(* packets are there already may end without it.                           *)
ConnRegister(c) ==
  /\ Running /\ InSelect(c)
  /\ Shutdown!AsyncRegister(c)
  /\ UNCHANGED appVars

(* Mutant: the wait of the handshake stays registered.                     *)
PhaseKeepsWait(c) ==
  /\ Running /\ InSelect(c)
  /\ Move(c, "leaving") \/ (connPc[c] = "handshake" /\ Move(c, "session"))
  /\ UNCHANGED <<systemVars, mainPc, serverPc>>

(* The phase is over: its packets came, the stream failed or the task      *)
(* panicked. Its wait is dropped even if it has been notified.             *)
PhaseEnds(c) ==
  /\ Running /\ InSelect(c)
  /\ Move(c, "leaving") \/ (connPc[c] = "handshake" /\ Move(c, "session"))
  /\ LeaveSelect(c)
  /\ UNCHANGED <<mainPc, serverPc>>

ConnHears(c) ==
  /\ Running /\ InSelect(c)
  /\ Shutdown!AsyncReturn(c)
  /\ Move(c, "leaving")
  /\ UNCHANGED <<mainPc, serverPc>>

ConnDrop(c) ==
  /\ Running /\ connPc[c] = "leaving"
  /\ Dropping(c)
  /\ IF guardPc'[c] = "dropped" THEN Move(c, "closed") ELSE UNCHANGED connPc
  /\ UNCHANGED <<mainPc, serverPc>>

-----------------------------------------------------------------------------
MainStep == InstallHandler \/ SpawnServer \/ MainWait \/ MainExit

ServerStep == ServerGuard \/ Bind \/ ServerRegister \/ ServerHears \/ ServerDrop

ConnStep(c) == ConnGuard(c) \/ ConnRegister(c) \/ ConnHears(c) \/ ConnDrop(c)

ClientStep(c) == Connect(c) \/ Accept(c) \/ LegacyEnds(c) \/ PhaseEnds(c)

Next ==
  \/ MainStep \/ PressCtrlC \/ ServerStep \/ ServeFails
  \/ \E c \in Conns : ConnStep(c) \/ ClientStep(c)

Spec == Init /\ [][Next]_vars

(* The threads run, and a woken or spawned task is polled. Nothing makes a *)
(* client send what a phase waits for, or a user press ctrl-c; but a       *)
(* shutdown() that has set the cell goes on to notify. The time of the     *)
(* timeout need not pass: a drain whose time never runs out behaves as one *)
(* that was called without a timeout.                                      *)
Fairness ==
  /\ WF_vars(InstallHandler) /\ WF_vars(SpawnServer) /\ WF_vars(MainExit)
  /\ WF_vars(mainPc = "waiting" /\ Shutdown!BlockingStep(Main) /\ UNCHANGED appVars)
  /\ WF_vars(MainWait /\ drainPc' # drainPc /\ spurious' = spurious)
  /\ WF_vars(PressCtrlC /\ exitPc[CtrlC] = "set")
  /\ WF_vars(ServerStep)
  /\ \A c \in Conns : WF_vars(ConnStep(c))

FairSpec == Spec /\ Fairness

TimePasses == WF_vars(MainWait /\ elapsed' # elapsed)

-----------------------------------------------------------------------------
(* Where the threads of the application may be.                            *)
PositionsOK ==
  /\ mainPc \in {"setup", "handler", "waiting", "exited"}
  /\ serverPc \in {"off", "starting", "binding", "bound", "serving",
                   "leaving", "stopped"}
  /\ connPc \in [Conns -> {"none", "backlog", "spawned", "legacy", "handshake",
                           "session", "leaving", "closed"}]

(* Type invariant of the application and of the exit system it shares: in  *)
(* particular no drop of a guard, on any path of any task, takes the u64   *)
(* counter below zero (graceful_shutdown.rs:84-85, serverbase.rs:105).     *)
TypeOK == Shutdown!TypeOK /\ PositionsOK

(* The server or a connection is at work on something a shutdown should    *)
(* let it finish.                                                          *)
ServerBusy == serverPc \in {"binding", "bound", "serving"}
ConnBusy(c) == connPc[c] \in {"legacy", "handshake", "session"}

(* Guards and waits follow the scopes of the code: whoever is busy holds   *)
(* its guard, on every path out of a phase the guard is still there to be  *)
(* dropped once, and no wait stays behind in the list of the Notify        *)
(* (serverbase.rs:105-135, bws.old/src/lib.rs:19-28).                      *)
ScopesRespected ==
  /\ ServerBusy => guardPc[Server] = "held"
  /\ serverPc = "stopped" => guardPc[Server] = "dropped"
  /\ asyncPc[Server] \in {"registered", "notified"} => serverPc = "serving"
  /\ \A c \in Conns :
       /\ ConnBusy(c) => guardPc[c] = "held"
       /\ connPc[c] = "closed" => guardPc[c] \in {"none", "dropped"}
       /\ asyncPc[c] \in {"registered", "notified"} => InSelect(c)

(* When main's wait for the guards returns without a timeout, nobody is    *)
(* busy at that moment (application/mod.rs:47).                            *)
QuietDrainFindsNobodyBusy ==
  [][drainPc[Main] # "drained" /\ drainPc'[Main] = "drained"
       => ~ServerBusy /\ \A c \in Conns : ~ConnBusy(c)]_vars

(* With a timeout (the default, application/mod.rs:63) a ctrl-c ends the   *)
(* process, whatever the clients do and whoever missed the notification.   *)
CtrlCEndsProcess == TimePasses => (initiated ~> mainPc = "exited")

(* A task that a shutdown under way will not reach: it waits where it does *)
(* not listen, or it started to listen when the notification had gone out. *)
Deaf(w) ==
  \/ w \in Conns /\ connPc[w] = "legacy"
  \/ asyncPc[w] = "registered" /\ exitPc[CtrlC] = "idle"

(* Without a timeout these two are the only reasons for a shutdown that    *)
(* never ends: if in the long run nobody is deaf, the process exits        *)
(* (serverbase.rs:109, 114-133; bws.old/src/lib.rs:23-26).                 *)
ShutdownHeardEndsProcess ==
  <>initiated /\ <>[](\A w \in Conns \cup {Server} : ~Deaf(w))
    => <>(mainPc = "exited")

(* "Prevents a shutdown while in scope, unless forcuful shutdown timeout   *)
(* is reached" (bws.old/src/graceful_shutdown.rs:16): the process does not *)
(* exit over a guard unless the timeout was reached. The code does not do  *)
(* this for a guard made after the drain has looked at the counter.        *)
GuardsPreventExit ==
  mainPc = "exited" /\ drainPc[Main] = "drained"
    => \A w \in Conns \cup {Server} : guardPc[w] # "held"

=============================================================================
