------------------------- MODULE AppShutdownProofs -------------------------
(***************************************************************************)
(* The application for any number of connections. Every step of it is a    *)
(* step of GracefulExit or leaves the exit system alone, so the theorems   *)
(* of GracefulExitProofs hold of the exit system the application shares.   *)
(* On top of them: who is busy holds a guard, hence a drain that finds the *)
(* counter at zero finds nobody busy.                                      *)
(***************************************************************************)
EXTENDS AppShutdown, TLAPS

(* The instance Shutdown of the application, with the theorems about it.   *)
System == INSTANCE GracefulExitProofs WITH
  Guards          <- Conns \cup {Server},
  Exiters         <- {CtrlC},
  AsyncWaiters    <- Conns \cup {Server},
  BlockingWaiters <- {Main},
  Drainers        <- {Main},
  TimedDrainers   <- IF Timed THEN {Main} ELSE {}

Tasks == Conns \cup {Server}

Listening == {"registered", "notified"}

(* Where the guard of the server thread is.                                *)
ServerScope ==
  /\ mainPc \in {"setup", "handler"} => serverPc = "off"
  /\ serverPc = "off" => guardPc[Server] = "none"
  /\ serverPc = "starting" => guardPc[Server] \in {"none", "creating", "adding"}
  /\ ServerBusy => guardPc[Server] = "held"
  /\ serverPc = "leaving" => guardPc[Server] \in {"held", "dropping", "subtracting", "notifying"}
  /\ serverPc = "stopped" => guardPc[Server] = "dropped"
  /\ asyncPc[Server] \in Listening => serverPc = "serving"

(* Where the guard of a connection is.                                     *)
ConnScope(c) ==
  /\ connPc[c] \in {"none", "backlog"} => guardPc[c] = "none"
  /\ connPc[c] = "spawned" => guardPc[c] \in {"none", "creating", "adding"}
  /\ ConnBusy(c) => guardPc[c] = "held"
  /\ connPc[c] = "leaving" => guardPc[c] \in {"held", "dropping", "subtracting", "notifying"}
  /\ connPc[c] = "closed" => guardPc[c] \in {"none", "dropped"}
  /\ asyncPc[c] \in Listening => InSelect(c)

Scopes == PositionsOK /\ ServerScope /\ \A c \in Conns : ConnScope(c)

-----------------------------------------------------------------------------
(* The application as a user of the exit system.                           *)
LEMMA ExitAssumption == System!ConstantsAssumption
BY AppAssumption DEF System!ConstantsAssumption

(* Two instances of one module.                                            *)
LEMMA SameInit == Shutdown!Init <=> System!Init
BY DEF Shutdown!Init, System!Init

LEMMA SameNext == Shutdown!Next <=> System!Next
BY DEF Shutdown!Next, System!Next, Shutdown!ExitStep, System!ExitStep,
   Shutdown!ExitSet, System!ExitSet, Shutdown!ExitNotify, System!ExitNotify,
   Shutdown!NotifyWaiters, System!NotifyWaiters,
   Shutdown!AsyncStep, System!AsyncStep, Shutdown!AsyncRegister, System!AsyncRegister,
   Shutdown!AsyncReturn, System!AsyncReturn, Shutdown!AsyncCancel, System!AsyncCancel,
   Shutdown!BlockingStep, System!BlockingStep,
   Shutdown!BlockingCall, System!BlockingCall,
   Shutdown!BlockingReturn, System!BlockingReturn,
   Shutdown!GuardStep, System!GuardStep, Shutdown!GuardLock, System!GuardLock,
   Shutdown!GuardLoad, System!GuardLoad, Shutdown!DropLoad, System!DropLoad,
   Shutdown!GuardIncrement, System!GuardIncrement,
   Shutdown!DropLock, System!DropLock, Shutdown!DropDecrement, System!DropDecrement,
   Shutdown!DropNotify, System!DropNotify, Shutdown!NotifyAll, System!NotifyAll,
   Shutdown!DrainStep, System!DrainStep, Shutdown!DrainLock, System!DrainLock,
   Shutdown!DrainReturn, System!DrainReturn,
   Shutdown!DrainTimeOut, System!DrainTimeOut,
   Shutdown!DrainCheck, System!DrainCheck, Shutdown!DrainPark, System!DrainPark,
   Shutdown!Elapse, System!Elapse, Shutdown!TimeoutWake, System!TimeoutWake,
   Shutdown!SpuriousWake, System!SpuriousWake, Shutdown!exitVars, System!exitVars,
   Shutdown!guardVars, System!guardVars, Shutdown!drainVars, System!drainVars

LEMMA SameVars == UNCHANGED Shutdown!vars <=> UNCHANGED System!vars
BY DEF Shutdown!vars, System!vars, Shutdown!exitVars, System!exitVars,
   Shutdown!guardVars, System!guardVars, Shutdown!drainVars, System!drainVars

(* Whatever a task or a thread does with the exit system is one call.      *)
LEMMA Calls ==
  ASSUME NEW w \in Tasks,
         Guarding(w) \/ Dropping(w) \/ LeaveSelect(w)
           \/ Shutdown!AsyncRegister(w) \/ Shutdown!AsyncReturn(w)
  PROVE  Shutdown!Next \/ UNCHANGED systemVars
BY DEF Tasks, Guarding, Dropping, LeaveSelect, Shutdown!Next, Shutdown!GuardStep,
   Shutdown!AsyncStep

LEMMA SystemStep == [Next]_vars => [Shutdown!Next]_(Shutdown!vars)
<1> SUFFICES ASSUME [Next]_vars PROVE Shutdown!Next \/ UNCHANGED systemVars
  BY DEF systemVars, Shutdown!vars, Shutdown!exitVars, Shutdown!guardVars,
     Shutdown!drainVars
<1>1. CASE MainStep
  <2>1. CASE MainWait
    BY <2>1 DEF MainWait, Shutdown!Next
  <2>2. CASE InstallHandler \/ SpawnServer \/ MainExit
    BY <2>2 DEF InstallHandler, SpawnServer, MainExit
  <2>3. QED
    BY <1>1, <2>1, <2>2 DEF MainStep
<1>2. CASE PressCtrlC
  BY <1>2 DEF PressCtrlC, Shutdown!Next
<1>3. CASE ServerStep \/ ServeFails
  <2>1. Server \in Tasks
    BY DEF Tasks
  <2>2. CASE Bind
    BY <2>2 DEF Bind
  <2>3. CASE ~Bind
    BY <1>3, <2>1, <2>3, Calls
    DEF ServerStep, ServerGuard, ServerRegister, ServerHears, ServerDrop, ServeFails
  <2>4. QED
    BY <2>2, <2>3
<1>4. ASSUME NEW c \in Conns, ConnStep(c) PROVE Shutdown!Next \/ UNCHANGED systemVars
  <2>1. c \in Tasks
    BY DEF Tasks
  <2>2. QED
    BY <1>4, <2>1, Calls DEF ConnStep, ConnGuard, ConnRegister, ConnHears, ConnDrop
<1>5. ASSUME NEW c \in Conns, ClientStep(c) PROVE Shutdown!Next \/ UNCHANGED systemVars
  <2>1. c \in Tasks
    BY DEF Tasks
  <2>2. QED
    BY <1>5, <2>1, Calls DEF ClientStep, Connect, Accept, LegacyEnds, PhaseEnds
<1>6. CASE UNCHANGED vars
  BY <1>6 DEF vars
<1>7. QED
  BY <1>1, <1>2, <1>3, <1>4, <1>5, <1>6 DEF Next

(* The application is a user of the exit system: for any connections, what *)
(* its threads do together is a behaviour of GracefulExit.                 *)
THEOREM ApplicationUsesExit == Spec => Shutdown!Spec
<1>1. Init => Shutdown!Init
  BY DEF Init
<1>2. QED
  BY <1>1, SystemStep, PTL DEF Spec, Shutdown!Spec

LEMMA SystemInductive == Spec => []System!Inductive
<1>1. Shutdown!Spec => System!Spec
  <2>1. [Shutdown!Next]_(Shutdown!vars) => [System!Next]_(System!vars)
    BY SameNext, SameVars
  <2>2. QED
    BY <2>1, SameInit, PTL DEF Shutdown!Spec, System!Spec
<1>2. System!Spec => []System!Inductive
  BY ExitAssumption, System!InductiveAlways DEF System!InductiveAlways
<1>3. QED
  BY <1>1, <1>2, ApplicationUsesExit, PTL

-----------------------------------------------------------------------------
(* Guards and scopes.                                                      *)

(* What the calls of a task do to its own guard and its own wait.          *)
LEMMA GuardingDoes ==
  ASSUME System!TypeOK, NEW w \in Tasks, Guarding(w)
  PROVE  /\ UNCHANGED asyncPc
         /\ \A v \in Tasks \ {w} : guardPc'[v] = guardPc[v]
         /\ \/ guardPc[w] = "none" /\ guardPc'[w] = "creating"
            \/ guardPc[w] = "creating" /\ guardPc'[w] = "adding"
            \/ guardPc[w] = "adding" /\ guardPc'[w] = "held"
BY DEF System!TypeOK, Tasks, Guarding, Shutdown!GuardLock, Shutdown!GuardLoad,
   Shutdown!GuardIncrement, Shutdown!exitVars

LEMMA DroppingDoes ==
  ASSUME System!TypeOK, NEW w \in Tasks, Dropping(w)
  PROVE  /\ UNCHANGED asyncPc
         /\ \A v \in Tasks \ {w} : guardPc'[v] = guardPc[v]
         /\ guardPc'[w] \in {"dropping", "subtracting", "notifying", "dropped"}
BY DEF System!TypeOK, Tasks, Dropping, Shutdown!DropLock, Shutdown!DropLoad,
   Shutdown!DropDecrement, Shutdown!DropNotify, Shutdown!exitVars

LEMMA LeavingDoes ==
  ASSUME System!TypeOK, NEW w \in Tasks, LeaveSelect(w)
  PROVE  /\ UNCHANGED guardPc
         /\ \A v \in Tasks \ {w} : asyncPc'[v] = asyncPc[v]
         /\ asyncPc'[w] \notin Listening
BY DEF System!TypeOK, Tasks, Listening, LeaveSelect, Shutdown!AsyncCancel, systemVars,
   Shutdown!guardVars

LEMMA HearingDoes ==
  ASSUME System!TypeOK, NEW w \in Tasks, Shutdown!AsyncReturn(w)
  PROVE  /\ UNCHANGED guardPc
         /\ \A v \in Tasks \ {w} : asyncPc'[v] = asyncPc[v]
         /\ asyncPc'[w] \notin Listening
BY DEF System!TypeOK, Tasks, Listening, Shutdown!AsyncReturn, Shutdown!guardVars

LEMMA RegisteringDoes ==
  ASSUME System!TypeOK, NEW w \in Tasks, Shutdown!AsyncRegister(w)
  PROVE  /\ UNCHANGED guardPc
         /\ \A v \in Tasks \ {w} : asyncPc'[v] = asyncPc[v]
BY DEF System!TypeOK, Tasks, Shutdown!AsyncRegister, Shutdown!guardVars

(* A step that leaves the server's part of the state alone, and one that   *)
(* leaves a connection's.                                                  *)
LEMMA ServerAlone ==
  ASSUME ServerScope, guardPc'[Server] = guardPc[Server],
         asyncPc'[Server] \in Listening => asyncPc[Server] \in Listening,
         UNCHANGED <<mainPc, serverPc>>
  PROVE  ServerScope'
BY DEF ServerScope, ServerBusy

LEMMA ConnAlone ==
  ASSUME NEW c \in Conns, ConnScope(c), guardPc'[c] = guardPc[c],
         asyncPc'[c] \in Listening => asyncPc[c] \in Listening,
         connPc'[c] = connPc[c] \/ (connPc[c] = "backlog" /\ connPc'[c] = "closed")
  PROVE  ConnScope(c)'
BY DEF ConnScope, ConnBusy, InSelect, Listening

LEMMA ServerIsNone == Server \in Tasks /\ Server \notin Conns /\ Conns \subseteq Tasks
BY AppAssumption DEF Tasks

LEMMA ScopesMain ==
  ASSUME System!TypeOK, Scopes, MainStep \/ PressCtrlC
  PROVE  Scopes'
<1>1. UNCHANGED <<connPc, guardPc>>
      /\ \A v \in Tasks : asyncPc'[v] \in Listening => asyncPc[v] \in Listening
  <2>1. CASE MainWait
    BY <2>1 DEF MainWait, appVars, Shutdown!BlockingStep, Shutdown!BlockingCall,
       Shutdown!BlockingReturn, Shutdown!DrainStep, Shutdown!DrainLock,
       Shutdown!DrainReturn, Shutdown!DrainTimeOut, Shutdown!DrainCheck,
       Shutdown!DrainPark, Shutdown!Elapse, Shutdown!TimeoutWake,
       Shutdown!SpuriousWake, Shutdown!guardVars, Shutdown!exitVars
  <2>2. CASE InstallHandler \/ SpawnServer \/ MainExit
    BY <2>2 DEF InstallHandler, SpawnServer, MainExit, systemVars
  <2>3. CASE PressCtrlC
    BY <2>3 DEF PressCtrlC, appVars, Shutdown!ExitStep, Shutdown!ExitSet,
       Shutdown!ExitNotify, Shutdown!NotifyWaiters, Shutdown!guardVars, Tasks, Listening
  <2>4. QED
    BY <2>1, <2>2, <2>3 DEF MainStep
<1>2. \A c \in Conns : ConnScope(c)'
  BY <1>1, ServerIsNone, ConnAlone DEF Scopes
<1>3. ServerScope' /\ PositionsOK'
  <2>1. CASE SpawnServer
    BY <1>1, <2>1, ServerIsNone
    DEF SpawnServer, Scopes, PositionsOK, ServerScope, ServerBusy, systemVars
  <2>2. CASE InstallHandler
    BY <1>1, <2>2, ServerIsNone
    DEF InstallHandler, Scopes, PositionsOK, ServerScope, ServerBusy, systemVars
  <2>3. CASE MainExit
    BY <1>1, <2>3, ServerIsNone
    DEF MainExit, Scopes, PositionsOK, ServerScope, ServerBusy, systemVars
  <2>4. CASE MainWait \/ PressCtrlC
    <3>1. UNCHANGED <<mainPc, serverPc>>
      BY <2>4 DEF MainWait, PressCtrlC, appVars
    <3>2. QED
      BY <1>1, <3>1, ServerIsNone, ServerAlone DEF Scopes, PositionsOK
  <2>5. QED
    BY <2>1, <2>2, <2>3, <2>4 DEF MainStep
<1>4. QED
  BY <1>2, <1>3 DEF Scopes

LEMMA ScopesServer ==
  ASSUME System!TypeOK, Scopes, ServerStep \/ ServeFails
  PROVE  Scopes'
<1>1. PositionsOK /\ ServerScope /\ \A c \in Conns : ConnScope(c)
  BY DEF Scopes
<1>2. \A c \in Conns : c \in Tasks \ {Server}
  BY ServerIsNone
<1>3. mainPc' = mainPc /\ mainPc \in {"setup", "handler", "waiting", "exited"}
  BY <1>1 DEF ServerStep, ServerGuard, Bind, ServerRegister, ServerHears, ServerDrop,
     ServeFails, PositionsOK
<1>4. CASE ServerGuard \/ ServerDrop \/ Bind \/ ServerRegister
  <2>1. /\ UNCHANGED connPc
        /\ \A c \in Conns : guardPc'[c] = guardPc[c] /\ asyncPc'[c] = asyncPc[c]
    <3>1. CASE ServerGuard
      BY <1>2, <3>1, ServerIsNone, GuardingDoes DEF ServerGuard
    <3>2. CASE ServerDrop
      BY <1>2, <3>2, ServerIsNone, DroppingDoes DEF ServerDrop
    <3>3. CASE Bind
      BY <3>3 DEF Bind, systemVars
    <3>4. CASE ServerRegister
      BY <1>2, <3>4, ServerIsNone, RegisteringDoes DEF ServerRegister
    <3>5. QED
      BY <1>4, <3>1, <3>2, <3>3, <3>4
  <2>2. \A c \in Conns : ConnScope(c)'
    BY <1>1, <2>1, ConnAlone
  <2>3. CASE ServerGuard
    <3>1. serverPc = "starting"
          /\ serverPc' = IF guardPc'[Server] = "held" THEN "binding" ELSE serverPc
      BY <2>3 DEF ServerGuard
    <3>2. asyncPc' = asyncPc /\ guardPc'[Server] \in {"creating", "adding", "held"}
      BY <2>3, ServerIsNone, GuardingDoes DEF ServerGuard
    <3>3. QED
      BY <1>1, <1>3, <2>1, <2>2, <3>1, <3>2 DEF Scopes, PositionsOK, ServerScope, ServerBusy
  <2>4. CASE ServerDrop
    <3>1. serverPc = "leaving"
          /\ serverPc' = IF guardPc'[Server] = "dropped" THEN "stopped" ELSE serverPc
      BY <2>4 DEF ServerDrop
    <3>2. asyncPc' = asyncPc
          /\ guardPc'[Server] \in {"dropping", "subtracting", "notifying", "dropped"}
      BY <2>4, ServerIsNone, DroppingDoes DEF ServerDrop
    <3>3. QED
      BY <1>1, <1>3, <2>1, <2>2, <3>1, <3>2 DEF Scopes, PositionsOK, ServerScope, ServerBusy
  <2>5. CASE Bind
    BY <1>1, <1>3, <2>1, <2>2, <2>5
    DEF Bind, systemVars, Scopes, PositionsOK, ServerScope, ServerBusy
  <2>6. CASE ServerRegister
    <3>1. guardPc' = guardPc /\ serverPc = "bound" /\ serverPc' = "serving"
      BY <2>6, ServerIsNone, RegisteringDoes DEF ServerRegister
    <3>2. QED
      BY <1>1, <1>3, <2>1, <2>2, <3>1 DEF Scopes, PositionsOK, ServerScope, ServerBusy
  <2>7. QED
    BY <1>4, <2>3, <2>4, <2>5, <2>6
<1>5. CASE ServeFails \/ ServerHears
  <2>1. /\ serverPc \in {"bound", "serving"} /\ serverPc' = "leaving"
        /\ connPc' = [c \in Conns |-> IF connPc[c] = "backlog" THEN "closed" ELSE connPc[c]]
    BY <1>5 DEF ServeFails, ServerHears, Accepting
  <2>2. /\ guardPc' = guardPc /\ asyncPc'[Server] \notin Listening
        /\ \A c \in Conns : asyncPc'[c] = asyncPc[c]
    BY <1>2, <1>5, ServerIsNone, LeavingDoes, HearingDoes DEF ServeFails, ServerHears
  <2>3. \A c \in Conns : ConnScope(c)'
    BY <1>1, <2>1, <2>2, ConnAlone
  <2>4. QED
    BY <1>1, <1>3, <2>1, <2>2, <2>3 DEF Scopes, PositionsOK, ServerScope, ServerBusy
<1>6. QED
  BY <1>4, <1>5 DEF ServerStep

LEMMA ScopesConn ==
  ASSUME System!TypeOK, Scopes, NEW c \in Conns, ConnStep(c) \/ ClientStep(c)
  PROVE  Scopes'
<1>1. PositionsOK /\ ServerScope /\ ConnScope(c) /\ \A d \in Conns : ConnScope(d)
  BY DEF Scopes
<1>2. c \in Tasks /\ Server \in Tasks \ {c} /\ \A d \in Conns \ {c} : d \in Tasks \ {c}
  BY ServerIsNone
<1>3. UNCHANGED <<mainPc, serverPc>>
  BY DEF ConnStep, ClientStep, ConnGuard, ConnRegister, ConnHears, ConnDrop, Connect,
     Accept, LegacyEnds, PhaseEnds, appVars
<1>4. /\ \A v \in Tasks \ {c} : guardPc'[v] = guardPc[v] /\ asyncPc'[v] = asyncPc[v]
      /\ \/ UNCHANGED connPc
         \/ \E to \in {"backlog", "spawned", "legacy", "handshake", "session",
                       "leaving", "closed"} : connPc' = [connPc EXCEPT ![c] = to]
      /\ ConnScope(c)'
  <2>0. connPc \in [Conns -> {"none", "backlog", "spawned", "legacy", "handshake",
                             "session", "leaving", "closed"}]
    BY <1>1 DEF PositionsOK
  <2>1. CASE ConnGuard(c)
    <3>1. /\ connPc[c] = "spawned"
          /\ IF guardPc'[c] = "held" THEN connPc' = [connPc EXCEPT ![c] = "legacy"]
                                     ELSE UNCHANGED connPc
      BY <2>1 DEF ConnGuard, Move
    <3>2. /\ asyncPc' = asyncPc /\ guardPc'[c] \in {"creating", "adding", "held"}
          /\ \A v \in Tasks \ {c} : guardPc'[v] = guardPc[v]
      BY <1>2, <2>1, GuardingDoes DEF ConnGuard
    <3>3. QED
      BY <1>1, <2>0, <3>1, <3>2 DEF ConnScope, ConnBusy, InSelect
  <2>2. CASE ConnDrop(c)
    <3>1. /\ connPc[c] = "leaving"
          /\ IF guardPc'[c] = "dropped" THEN connPc' = [connPc EXCEPT ![c] = "closed"]
                                        ELSE UNCHANGED connPc
      BY <2>2 DEF ConnDrop, Move
    <3>2. /\ asyncPc' = asyncPc
          /\ guardPc'[c] \in {"dropping", "subtracting", "notifying", "dropped"}
          /\ \A v \in Tasks \ {c} : guardPc'[v] = guardPc[v]
      BY <1>2, <2>2, DroppingDoes DEF ConnDrop
    <3>3. QED
      BY <1>1, <2>0, <3>1, <3>2 DEF ConnScope, ConnBusy, InSelect
  <2>3. CASE ConnRegister(c)
    <3>1. InSelect(c) /\ UNCHANGED connPc
      BY <2>3 DEF ConnRegister, appVars
    <3>2. guardPc' = guardPc /\ \A v \in Tasks \ {c} : asyncPc'[v] = asyncPc[v]
      BY <1>2, <2>3, RegisteringDoes DEF ConnRegister
    <3>3. QED
      BY <1>1, <3>1, <3>2 DEF ConnScope, ConnBusy, InSelect
  <2>4. CASE ConnHears(c) \/ PhaseEnds(c)
    <3>1. /\ InSelect(c)
          /\ \/ connPc' = [connPc EXCEPT ![c] = "leaving"]
             \/ connPc' = [connPc EXCEPT ![c] = "session"]
      BY <2>4 DEF ConnHears, PhaseEnds, Move
    <3>2. /\ guardPc' = guardPc /\ asyncPc'[c] \notin Listening
          /\ \A v \in Tasks \ {c} : asyncPc'[v] = asyncPc[v]
      BY <1>2, <2>4, LeavingDoes, HearingDoes DEF ConnHears, PhaseEnds
    <3>3. QED
      BY <1>1, <2>0, <3>1, <3>2 DEF ConnScope, ConnBusy, InSelect
  <2>5. CASE Connect(c) \/ Accept(c) \/ LegacyEnds(c)
    <3>1. UNCHANGED <<guardPc, asyncPc>>
      BY <2>5 DEF Connect, Accept, LegacyEnds, systemVars
    <3>2. \/ connPc[c] = "none" /\ connPc' = [connPc EXCEPT ![c] = "backlog"]
          \/ connPc[c] = "backlog" /\ connPc' = [connPc EXCEPT ![c] = "spawned"]
          \/ connPc[c] = "legacy" /\ \/ connPc' = [connPc EXCEPT ![c] = "leaving"]
                                     \/ connPc' = [connPc EXCEPT ![c] = "handshake"]
      BY <2>5 DEF Connect, Accept, LegacyEnds, Move
    <3>3. QED
      BY <1>1, <2>0, <3>1, <3>2 DEF ConnScope, ConnBusy, InSelect
  <2>6. QED
    BY <2>1, <2>2, <2>3, <2>4, <2>5 DEF ConnStep, ClientStep
<1>5. PositionsOK'
  BY <1>1, <1>3, <1>4 DEF PositionsOK
<1>6. ServerScope'
  BY <1>1, <1>2, <1>3, <1>4, ServerAlone
<1>7. \A d \in Conns : ConnScope(d)'
  <2>1. ASSUME NEW d \in Conns, d # c PROVE ConnScope(d)'
    <3>1. connPc'[d] = connPc[d]
      BY <1>1, <1>4, <2>1 DEF PositionsOK
    <3>2. guardPc'[d] = guardPc[d] /\ asyncPc'[d] = asyncPc[d]
      BY <1>2, <1>4, <2>1
    <3>3. QED
      BY <1>1, <2>1, <3>1, <3>2, ConnAlone
  <2>2. QED
    BY <1>4, <2>1
<1>8. QED
  BY <1>5, <1>6, <1>7 DEF Scopes

LEMMA ScopesInit == Init => Scopes
BY ServerIsNone
DEF Init, Shutdown!Init, Scopes, PositionsOK, ServerScope, ServerBusy, ConnScope, ConnBusy,
    InSelect, Listening, Tasks

LEMMA ScopesStep == System!Inductive /\ Scopes /\ [Next]_vars => Scopes'
<1> SUFFICES ASSUME System!Inductive, Scopes, [Next]_vars PROVE Scopes'
  OBVIOUS
<1>1. System!TypeOK
  BY DEF System!Inductive
<1>2. CASE MainStep \/ PressCtrlC
  BY <1>1, <1>2, ScopesMain
<1>3. CASE ServerStep \/ ServeFails
  BY <1>1, <1>3, ScopesServer
<1>4. ASSUME NEW c \in Conns, ConnStep(c) \/ ClientStep(c) PROVE Scopes'
  BY <1>1, <1>4, ScopesConn
<1>5. CASE UNCHANGED vars
  <2>1. UNCHANGED <<guardPc, asyncPc, mainPc, serverPc, connPc>>
    BY <1>5 DEF vars, systemVars, appVars
  <2>2. QED
    BY <2>1 DEF Scopes, PositionsOK, ServerScope, ServerBusy, ConnScope, ConnBusy, InSelect
<1>6. QED
  BY <1>2, <1>3, <1>4, <1>5 DEF Next

LEMMA ScopesHold == Spec => []Scopes
BY ScopesInit, ScopesStep, SystemInductive, PTL DEF Spec

(* For any number of connections the variables of the application and of   *)
(* the exit system keep their types: no drop of a guard takes the counter  *)
(* below zero (graceful_shutdown.rs:84-85, serverbase.rs:105).             *)
THEOREM TypeCorrect == Spec => []TypeOK
<1>1. Scopes => PositionsOK
  BY DEF Scopes
<1>2. System!Inductive => Shutdown!TypeOK
  BY DEF System!Inductive, System!TypeOK, Shutdown!TypeOK
<1>3. System!Inductive /\ Scopes => TypeOK
  BY <1>1, <1>2 DEF TypeOK
<1>4. QED
  BY <1>3, SystemInductive, ScopesHold, PTL

(* For any number of connections, whoever is busy holds its guard, a guard *)
(* is dropped once on every path, and no wait stays behind                 *)
(* (serverbase.rs:105-135, bws.old/src/lib.rs:19-28).                      *)
THEOREM ScopesCorrect == Spec => []ScopesRespected
<1>1. Scopes => ScopesRespected
  BY DEF Scopes, ServerScope, ConnScope, ScopesRespected, Listening
<1>2. QED
  BY <1>1, ScopesHold, PTL

(* The zero that ends main's wait is a zero of guards, and the guards      *)
(* cover the work: nobody is busy when the wait for the guards returns     *)
(* without a timeout (application/mod.rs:47).                              *)
THEOREM QuietDrainCorrect == Spec => QuietDrainFindsNobodyBusy
<1> DEFINE Ends == drainPc[Main] # "drained" /\ drainPc'[Main] = "drained"
           Quiet == ~ServerBusy /\ \A c \in Conns : ~ConnBusy(c)
<1>1. ASSUME System!Inductive, Scopes, [Next]_vars, Ends PROVE Quiet
  <2>1. System!TypeOK /\ System!CounterMatchesGuards
    BY <1>1 DEF System!Inductive
  <2>2. Shutdown!DrainReturn(Main)
    <3>1. Shutdown!Next
      BY <1>1, SystemStep DEF Shutdown!vars, Shutdown!drainVars
    <3>2. CASE Shutdown!DrainStep(Main)
      BY <1>1, <2>1, <3>2
      DEF System!TypeOK, Shutdown!DrainStep, Shutdown!DrainLock, Shutdown!DrainTimeOut,
          Shutdown!DrainCheck, Shutdown!DrainPark, Shutdown!Elapse, Shutdown!TimeoutWake,
          Shutdown!SpuriousWake
    <3>3. CASE \E w \in Tasks : Shutdown!GuardStep(w)
      BY <1>1, <2>1, <3>3
      DEF System!TypeOK, Shutdown!GuardStep, Shutdown!GuardLock, Shutdown!GuardLoad,
          Shutdown!GuardIncrement, Shutdown!DropLock, Shutdown!DropLoad, Shutdown!DropDecrement, Shutdown!DropNotify,
          Shutdown!NotifyAll, Shutdown!drainVars
    <3>4. CASE \/ Shutdown!ExitStep(CtrlC) \/ Shutdown!BlockingStep(Main)
               \/ \E w \in Tasks : Shutdown!AsyncStep(w)
      BY <1>1, <3>4
      DEF Shutdown!ExitStep, Shutdown!ExitSet, Shutdown!ExitNotify, Shutdown!BlockingStep,
          Shutdown!BlockingCall, Shutdown!BlockingReturn, Shutdown!AsyncStep,
          Shutdown!AsyncRegister, Shutdown!AsyncReturn, Shutdown!AsyncCancel,
          Shutdown!drainVars
    <3>5. QED
      BY <3>1, <3>2, <3>3, <3>4 DEF Shutdown!Next, Tasks
  <2>3. \A w \in Tasks : guardPc[w] \notin {"held", "dropping", "subtracting"}
    <3>1. counter = 0
      BY <2>2 DEF Shutdown!DrainReturn
    <3>2. counter = 0 <=>
            \A w \in Conns \cup {Server} :
              guardPc[w] \notin {"held", "dropping", "subtracting"}
      BY <2>1, ExitAssumption, System!ZeroIsQuiet DEF System!ZeroIsQuiet
    <3>3. QED
      BY <3>1, <3>2 DEF Tasks
  <2>4. QED
    BY <1>1, <2>3, ServerIsNone DEF Scopes, ServerScope, ConnScope
<1>2. System!Inductive /\ Scopes /\ [Next]_vars => [Ends => Quiet]_vars
  BY <1>1
<1>3. QED
  BY <1>2, SystemInductive, ScopesHold, PTL DEF Spec, QuietDrainFindsNobodyBusy

=============================================================================
