------------------------------- MODULE Lifecycle -------------------------------
(***************************************************************************)
(* How the library and its controller come and go: ruminate_init spawns    *)
(* the controller, learns its port, connects and has it attach to the      *)
(* program; ruminate_destroy, called by the program and again on exit, has *)
(* it detach and shut down; and when the program dies under the debugger   *)
(* the controller shuts itself down.                                       *)
(*                                                                         *)
(* Calls in between are module Rendezvous; what matters of them here is    *)
(* that one may block the controller's only dispatch thread for ever.      *)
(* The controller may also be interrupted (SIGINT).                        *)
(***************************************************************************)
EXTENDS Naturals, Sequences

CONSTANT MaxInits  (* bound: calls of ruminate_init *)

ASSUME LifecycleAssumption == MaxInits \in Nat

VARIABLES
  (* the program *)
  proc,       (* "running", "stopped" (by the debugger) or "dead"          *)
  cpc,        (* where its main thread is                                  *)
  lib,        (* how far the global object ruminate is built               *)
  inited,     (* what the last ruminate_init returned                      *)
  inits,      (* calls of ruminate_init so far                             *)
  handlers,   (* registered runs of ruminate_destroy_atexit                *)
  (* the connection *)
  request,    (* the factory request on its way: "none", "create", ...     *)
  answer,     (* its answer: "none", "ok" or "error"                       *)
  (* the controller *)
  srv,        (* its main thread and communicator                          *)
  disp,       (* its dispatch thread                                       *)
  outcome,    (* the answer the dispatch thread has prepared               *)
  attached,   (* whether the debugger is attached to the program           *)
  registered, (* whether the debugger is in DebuggerFactoryImpl.debuggers  *)
  inAdapter,  (* whether its servant is in the object adapter              *)
  (* the event thread of the debugger *)
  em,         (* where it is; "off" before it is started                   *)
  events,     (* process state changes not received yet                    *)
  onStop,     (* whether the attach callback for a stop is registered      *)
  onRun,      (* whether the attach callback for running is registered     *)
  running,    (* the Event __init__ waits for                              *)
  emShutdown  (* LLDBEventMachine.shutdownRequested                        *)

clientVars == <<cpc, lib, inited, inits, handlers>>
netVars    == <<request, answer>>
serverVars == <<srv, disp, outcome, registered, inAdapter>>
emVars     == <<em, onStop, onRun, running, emShutdown>>
targetVars == <<proc, attached, events>>
vars       == <<clientVars, netVars, serverVars, emVars, targetVars>>

Init ==
  /\ proc = "running"   /\ cpc = "idle"       /\ lib = "null"
  /\ inited = "none"    /\ inits = 0          /\ handlers = 0
  /\ request = "none"   /\ answer = "none"
  /\ srv = "none"       /\ disp = "idle"      /\ outcome = "none"
  /\ attached = FALSE   /\ registered = FALSE /\ inAdapter = FALSE
  /\ em = "off"         /\ events = <<>>
  /\ onStop = FALSE     /\ onRun = FALSE      /\ running = FALSE
  /\ emShutdown = FALSE

-----------------------------------------------------------------------------
(* ruminate_init. *)

At(loc) == proc = "running" /\ cpc = loc

Return(result) == cpc' = "idle" /\ inited' = result

(* A library that exists already is taken for an initialised one. *)
InitAgain ==
  /\ At("idle") /\ inits < MaxInits /\ lib # "null"
  /\ Return("true")
  /\ inits' = inits + 1
  /\ UNCHANGED <<lib, handlers, netVars, serverVars, emVars, targetVars>>

(* The object is allocated; without a program name that is all.  Bound: a  *)
(* new library is made only once the previous controller is gone.          *)
InitNew ==
  /\ At("idle") /\ inits < MaxInits /\ lib = "null"
  /\ srv \in {"none", "gone"}
  /\ lib' = "allocated"
  /\ inits' = inits + 1
  /\ \/ cpc' = "fork" /\ UNCHANGED inited
     \/ Return("false")
  /\ UNCHANGED <<handlers, netVars, serverVars, emVars, targetVars>>

(* fork_child: a fresh controller process, or an error. *)
ForkChild ==
  /\ At("fork")
  /\ \/ /\ cpc' = "readPort"
        /\ lib' = "forked"
        /\ srv' = "starting"
        /\ registered' = FALSE /\ inAdapter' = FALSE
        /\ em' = "off" /\ events' = <<>>
        /\ onStop' = FALSE /\ onRun' = FALSE
        /\ running' = FALSE /\ emShutdown' = FALSE
        /\ UNCHANGED inited
     \/ /\ Return("false")
        /\ UNCHANGED <<lib, srv, registered, inAdapter, emVars, events>>
  /\ UNCHANGED <<inits, handlers, netVars, disp, outcome, proc, attached>>

(* read_child_port: the port; or end of file, from a controller that died  *)
(* before it wrote one; or an interrupted read.                            *)
ReadChildPort ==
  /\ At("readPort")
  /\ \/ srv = "serving" /\ cpc' = "setupIce" /\ UNCHANGED inited
     \/ srv = "gone" /\ Return("false")
     \/ Return("false")
  /\ UNCHANGED <<lib, inits, handlers, netVars, serverVars, emVars, targetVars>>

(* setup_ice and create_factory, each of which may throw. *)
SetupIce ==
  /\ At("setupIce")
  /\ \/ cpc' = "createFactory" /\ lib' = "ice" /\ UNCHANGED inited
     \/ Return("false") /\ UNCHANGED lib
  /\ UNCHANGED <<inits, handlers, netVars, serverVars, emVars, targetVars>>

CreateFactory ==
  /\ At("createFactory")
  /\ \/ srv = "serving" /\ cpc' = "createDebugger" /\ lib' = "factory"
        /\ UNCHANGED inited
     \/ Return("false") /\ UNCHANGED lib
  /\ UNCHANGED <<inits, handlers, netVars, serverVars, emVars, targetVars>>

(* create_debugger: the synchronous request create. *)
CreateDebugger ==
  /\ At("createDebugger")
  /\ cpc' = "awaitCreate"
  /\ request' = "create"
  /\ UNCHANGED <<lib, inited, inits, handlers, answer, serverVars, emVars, targetVars>>

EndCreateDebugger ==
  /\ At("awaitCreate")
  /\ answer # "none"
  /\ answer' = "none"
  /\ \/ /\ answer = "ok"
        /\ lib' = "ready"
        /\ handlers' = handlers + 1
        /\ Return("true")
     \/ /\ answer = "error"
        /\ Return("false")
        /\ UNCHANGED <<lib, handlers>>
  /\ UNCHANGED <<inits, request, serverVars, emVars, targetVars>>

InitSteps == ForkChild \/ ReadChildPort \/ SetupIce \/ CreateFactory
               \/ CreateDebugger \/ EndCreateDebugger

-----------------------------------------------------------------------------
(* ruminate_destroy, from the program or on its way out. *)

(* With a factory, the synchronous request shutdown. *)
AskShutdown(asked) ==
  /\ lib \in {"factory", "ready"}
  /\ request' = "shutdown"
  /\ cpc' = asked
  /\ UNCHANGED <<lib, handlers, answer>>

(* Without one the attempt throws, or there is no library: nothing is left *)
(* to do but to free the object.                                           *)
NoFactory ==
  /\ lib \notin {"factory", "ready"}
  /\ lib' = "null"
  /\ UNCHANGED netVars

(* Mutant: shutdown is not waited for. *)
FreeLibraryAtOnce ==
  /\ answer' = "none"
  /\ lib' = "null"
  /\ UNCHANGED request

(* The answer, of either kind; the communicator is destroyed, waitpid has  *)
(* no child to wait for (g_spawn forks twice), and the object is freed.    *)
FreeLibrary ==
  /\ answer # "none"
  /\ answer' = "none"
  /\ lib' = "null"
  /\ UNCHANGED request

CallDestroy ==
  /\ At("idle")
  /\ \/ AskShutdown("awaitShutdown")
     \/ NoFactory /\ UNCHANGED <<cpc, handlers>>
  /\ UNCHANGED <<inited, inits, serverVars, emVars, targetVars>>

EndDestroy ==
  /\ At("awaitShutdown")
  /\ FreeLibrary
  /\ cpc' = "idle"
  /\ UNCHANGED <<inited, inits, handlers, serverVars, emVars, targetVars>>

(* The program exits: every registered handler runs, then the destructor.  *)
(* All of them are ruminate_destroy.                                       *)
Exit ==
  /\ At("idle")
  /\ cpc' = "exiting"
  /\ UNCHANGED <<lib, inited, inits, handlers, netVars, serverVars, emVars, targetVars>>

(* Mutant: the exit handlers are not counted. *)
NextHandlerForever == cpc' = "exiting" /\ handlers' = handlers - 1

NextHandler ==
  IF handlers > 0
  THEN cpc' = "exiting" /\ handlers' = handlers - 1
  ELSE cpc' = "exited" /\ UNCHANGED handlers

ExitHandler ==
  /\ At("exiting")
  /\ AskShutdown("awaitExit") \/ (NoFactory /\ NextHandler)
  /\ UNCHANGED <<inited, inits, serverVars, emVars, targetVars>>

EndExitHandler ==
  /\ At("awaitExit")
  /\ FreeLibrary
  /\ NextHandler
  /\ UNCHANGED <<inited, inits, serverVars, emVars, targetVars>>

(* A process that dies while attached is reported to the debugger. *)
Dies ==
  /\ proc' = "dead"
  /\ events' = IF attached THEN Append(events, "exited") ELSE events
  /\ UNCHANGED attached

Exited ==
  /\ At("exited")
  /\ Dies
  /\ UNCHANGED <<clientVars, netVars, serverVars, emVars>>

DestroySteps == EndDestroy \/ ExitHandler \/ EndExitHandler \/ Exited

(* SIGKILL, or a signal the program does not survive. *)
Killed ==
  /\ proc # "dead"
  /\ Dies
  /\ UNCHANGED <<clientVars, netVars, serverVars, emVars>>

-----------------------------------------------------------------------------
(* The controller's main thread. *)

(* The adapter is active and the port written; or the start fails. *)
StartServer ==
  /\ srv = "starting"
  /\ srv' \in {"serving", "gone"}
  /\ UNCHANGED <<clientVars, netVars, disp, outcome, registered, inAdapter,
                 emVars, targetVars>>

(* The debugger lets go of the program. *)
Detach ==
  /\ attached' = FALSE
  /\ proc' = IF attached /\ proc = "stopped" THEN "running" ELSE proc
  /\ UNCHANGED events

(* waitForShutdown returns; the communicator waits for the dispatch thread *)
(* and the interpreter for the event thread.                               *)
EndServer ==
  /\ srv \in {"down", "interrupted"}
  /\ disp = "idle"
  /\ em \in {"off", "done"}
  /\ srv' = "gone"
  /\ Detach
  /\ UNCHANGED <<clientVars, netVars, disp, outcome, registered, inAdapter,
                 emVars>>

(* shutdownOnInterrupt. *)
Interrupt ==
  /\ srv = "serving"
  /\ srv' = "interrupted"
  /\ UNCHANGED <<clientVars, netVars, disp, outcome, registered, inAdapter,
                 emVars, targetVars>>

(* A request that nobody will dispatch comes back as an exception. *)
Refuse ==
  /\ srv \in {"down", "interrupted", "gone"}
  /\ request # "none"
  /\ request' = "none"
  /\ answer' = "error"
  /\ UNCHANGED <<clientVars, serverVars, emVars, targetVars>>

-----------------------------------------------------------------------------
(* The dispatch thread: DebuggerFactoryImpl.create and shutdown. *)

Answer(result) == disp' = "reply" /\ outcome' = result

(* DebuggerImpl.__init__ raises before the event thread is started: no     *)
(* such executable, no place for the breakpoint, or no right to attach.    *)
CreateFails ==
  /\ disp = "create"
  /\ Answer("error")
  /\ UNCHANGED <<clientVars, netVars, srv, registered, inAdapter, emVars, targetVars>>

(* The callbacks are registered, the program is stopped by the attach, and *)
(* the event thread is started.                                            *)
Attach ==
  /\ disp = "create"
  /\ proc = "running"
  /\ onStop' = TRUE /\ onRun' = TRUE
  /\ attached' = TRUE
  /\ proc' = "stopped"
  /\ events' = Append(events, "stopped")
  /\ em' = "wait"
  /\ disp' = "awaitRunning"
  /\ UNCHANGED <<clientVars, netVars, srv, outcome, registered, inAdapter,
                 running, emShutdown>>

(* Mutant: create does not wait for the program to run again. *)
AwaitNothing ==
  /\ disp = "awaitRunning"
  /\ disp' = "register"
  /\ UNCHANGED <<clientVars, netVars, srv, outcome, registered, inAdapter,
                 emVars, targetVars>>

AwaitRunning ==
  /\ disp = "awaitRunning"
  /\ running
  /\ disp' = "register"
  /\ UNCHANGED <<clientVars, netVars, srv, outcome, registered, inAdapter,
                 emVars, targetVars>>

(* addWithUUID raises once the communicator is shut down. *)
Register ==
  /\ disp = "register"
  /\ IF srv = "serving"
     THEN registered' = TRUE /\ inAdapter' = TRUE /\ Answer("ok")
     ELSE Answer("error") /\ UNCHANGED <<registered, inAdapter>>
  /\ UNCHANGED <<clientVars, netVars, srv, emVars, targetVars>>

(* Mutant: shutdown only ends the event thread. *)
ShutDownWithoutDetach ==
  /\ disp = "shutdown"
  /\ IF registered
     THEN emShutdown' = TRUE /\ disp' = "join"
     ELSE disp' = "down" /\ UNCHANGED emShutdown
  /\ UNCHANGED <<clientVars, netVars, srv, outcome, registered, inAdapter,
                 em, onStop, onRun, running, targetVars>>

(* Mutant: the event thread is waited for before it is told to end. *)
ShutDownJoinsFirst ==
  /\ disp = "shutdown"
  /\ IF registered
     THEN Detach /\ disp' = "join"
     ELSE disp' = "down" /\ UNCHANGED targetVars
  /\ UNCHANGED <<clientVars, netVars, srv, outcome, registered, inAdapter, emVars>>

(* DebuggerFactoryImpl.shutdown: LLDBEventMachine.shutdown detaches and    *)
(* waits for the event thread; the servant is removed, which raises if it  *)
(* has been; the communicator is shut down.                                *)
DetachDebugger ==
  /\ disp = "shutdown"
  /\ IF registered
     THEN Detach /\ emShutdown' = TRUE /\ disp' = "join"
     ELSE disp' = "down" /\ UNCHANGED <<targetVars, emShutdown>>
  /\ UNCHANGED <<clientVars, netVars, srv, outcome, registered, inAdapter,
                 em, onStop, onRun, running>>

JoinEventThread ==
  /\ disp = "join"
  /\ em = "done"
  /\ disp' = "remove"
  /\ UNCHANGED <<clientVars, netVars, srv, outcome, registered, inAdapter,
                 emVars, targetVars>>

RemoveServant ==
  /\ disp = "remove"
  /\ IF inAdapter /\ srv = "serving"
     THEN inAdapter' = FALSE /\ disp' = "down" /\ UNCHANGED outcome
     ELSE Answer("error") /\ UNCHANGED inAdapter
  /\ UNCHANGED <<clientVars, netVars, srv, registered, emVars, targetVars>>

ShutDownCommunicator ==
  /\ disp = "down"
  /\ srv' = "down"
  /\ Answer("ok")
  /\ UNCHANGED <<clientVars, netVars, registered, inAdapter, emVars, targetVars>>

DispatchRequest ==
  /\ srv = "serving"
  /\ disp = "idle"
  /\ request # "none"
  /\ disp' = request
  /\ request' = "none"
  /\ UNCHANGED <<clientVars, answer, srv, outcome, registered, inAdapter,
                 emVars, targetVars>>

SendAnswer ==
  /\ disp = "reply"
  /\ answer' = outcome
  /\ disp' = "idle"
  /\ outcome' = "none"
  /\ UNCHANGED <<clientVars, request, srv, registered, inAdapter, emVars, targetVars>>

(* A call of another thread of the program is left waiting for a stop that *)
(* has passed (Rendezvous), and the dispatch thread with it.               *)
CallBlocks ==
  /\ lib = "ready"
  /\ srv = "serving"
  /\ disp = "idle"
  /\ disp' = "blocked"
  /\ UNCHANGED <<clientVars, netVars, srv, outcome, registered, inAdapter,
                 emVars, targetVars>>

DispatchSteps ==
  \/ DispatchRequest \/ CreateFails \/ Attach \/ AwaitRunning \/ Register
  \/ DetachDebugger \/ JoinEventThread \/ RemoveServant
  \/ ShutDownCommunicator \/ SendAnswer

-----------------------------------------------------------------------------
(* The event thread. *)

emServerUnchanged == UNCHANGED <<clientVars, netVars, disp, outcome, registered>>

(* The head of the loop in run, and the timeout of WaitForEvent. *)
LoopHead ==
  /\ em = "loop"
  /\ em' = IF emShutdown THEN "done" ELSE "wait"
  /\ emServerUnchanged
  /\ UNCHANGED <<srv, inAdapter, onStop, onRun, running, emShutdown, targetVars>>

WaitTimesOut ==
  /\ em = "wait"
  /\ emShutdown
  /\ em' = "done"
  /\ emServerUnchanged
  /\ UNCHANGED <<srv, inAdapter, onStop, onRun, running, emShutdown, targetVars>>

Received(state) ==
  /\ em = "wait"
  /\ events # <<>>
  /\ Head(events) = state

(* SBProcess.Continue: the program runs and that is an event again.        *)
Continue ==
  IF attached /\ proc = "stopped"
  THEN proc' = "running" /\ events' = Append(Tail(events), "running")
  ELSE UNCHANGED proc /\ events' = Tail(events)

(* Mutant: the attach callback leaves the program stopped. *)
OnStoppedStays ==
  /\ Received("stopped")
  /\ onStop' = FALSE
  /\ events' = Tail(events)
  /\ em' = "loop"
  /\ emServerUnchanged
  /\ UNCHANGED <<srv, inAdapter, onRun, running, emShutdown, attached, proc>>

(* A stop: the attach callback removes itself, sets up the signals, which  *)
(* raises if the process is no more, and continues; later stops find no    *)
(* callback (but those of Rendezvous) and are continued.                   *)
OnStopped ==
  /\ Received("stopped")
  /\ onStop' = FALSE
  /\ \/ /\ Continue
        /\ em' = "loop"
     \/ /\ onStop
        /\ proc = "dead"
        /\ events' = Tail(events)
        /\ em' = "done"
        /\ UNCHANGED proc
  /\ emServerUnchanged
  /\ UNCHANGED <<srv, inAdapter, onRun, running, emShutdown, attached>>

(* Mutant: the callback removes itself and forgets the Event. *)
OnRunningSilent ==
  /\ Received("running")
  /\ events' = Tail(events)
  /\ onRun' = FALSE
  /\ em' = "loop"
  /\ emServerUnchanged
  /\ UNCHANGED <<srv, inAdapter, onStop, running, emShutdown, proc, attached>>

OnRunning ==
  /\ Received("running")
  /\ events' = Tail(events)
  /\ onRun' = FALSE
  /\ running' = (running \/ onRun)
  /\ em' = "loop"
  /\ emServerUnchanged
  /\ UNCHANGED <<srv, inAdapter, onStop, emShutdown, proc, attached>>

(* Mutant: the event thread waits for itself. *)
OnExitedJoins ==
  /\ Received("exited")
  /\ attached' = FALSE
  /\ events' = Tail(events)
  /\ IF registered
     THEN emShutdown' = TRUE /\ em' = "join"
     ELSE em' = "down" /\ UNCHANGED emShutdown
  /\ emServerUnchanged
  /\ UNCHANGED <<srv, inAdapter, onStop, onRun, running, proc>>

(* doShutdown: DebuggerFactoryImpl.shutdown on the event thread, which     *)
(* does not wait for itself.                                               *)
OnExited ==
  /\ Received("exited")
  /\ attached' = FALSE
  /\ events' = Tail(events)
  /\ IF registered
     THEN emShutdown' = TRUE /\ em' = "remove"
     ELSE em' = "down" /\ UNCHANGED emShutdown
  /\ emServerUnchanged
  /\ UNCHANGED <<srv, inAdapter, onStop, onRun, running, proc>>

(* adapter.remove; an exception ends the event thread.                     *)
EmRemoveServant ==
  /\ em = "remove"
  /\ IF inAdapter /\ srv = "serving"
     THEN inAdapter' = FALSE /\ em' = "down"
     ELSE em' = "done" /\ UNCHANGED inAdapter
  /\ emServerUnchanged
  /\ UNCHANGED <<srv, onStop, onRun, running, emShutdown, targetVars>>

EmShutDownCommunicator ==
  /\ em = "down"
  /\ srv' = "down"
  /\ em' = "loop"
  /\ emServerUnchanged
  /\ UNCHANGED <<inAdapter, onStop, onRun, running, emShutdown, targetVars>>

EventThread ==
  \/ LoopHead \/ WaitTimesOut \/ OnStopped \/ OnRunning \/ OnExited
  \/ EmRemoveServant \/ EmShutDownCommunicator

-----------------------------------------------------------------------------
Controller == StartServer \/ EndServer \/ Refuse

Next ==
  \/ InitNew \/ InitAgain \/ InitSteps
  \/ CallDestroy \/ Exit \/ DestroySteps
  \/ Killed
  \/ Controller \/ Interrupt
  \/ DispatchSteps \/ CallBlocks
  \/ EventThread

Spec == Init /\ [][Next]_vars

(* Every thread that can go on does; the program need not call, exit or be *)
(* killed, and nobody need interrupt the controller.                       *)
FairSpec ==
  /\ Spec
  /\ WF_vars(InitSteps)
  /\ WF_vars(DestroySteps)
  /\ WF_vars(Controller)
  /\ WF_vars(DispatchSteps)
  /\ WF_vars(EventThread)

-----------------------------------------------------------------------------
(* PROPERTIES *)

(* The variables have their types. *)
TypeOK ==
  /\ proc \in {"running", "stopped", "dead"}
  /\ cpc \in {"idle", "fork", "readPort", "setupIce", "createFactory",
             "createDebugger", "awaitCreate", "awaitShutdown", "exiting",
             "awaitExit", "exited"}
  /\ lib \in {"null", "allocated", "forked", "ice", "factory", "ready"}
  /\ inited \in {"none", "true", "false"}
  /\ inits \in 0..MaxInits
  /\ handlers \in 0..inits
  /\ request \in {"none", "create", "shutdown"}
  /\ answer \in {"none", "ok", "error"}
  /\ srv \in {"none", "starting", "serving", "interrupted", "down", "gone"}
  /\ disp \in {"idle", "create", "awaitRunning", "register", "shutdown",
              "join", "remove", "down", "reply", "blocked"}
  /\ outcome \in {"none", "ok", "error"}
  /\ {attached, registered, inAdapter, onStop, onRun, running, emShutdown}
       \subseteq BOOLEAN
  /\ em \in {"off", "loop", "wait", "remove", "down", "done"}
  /\ events \in Seq({"stopped", "running", "exited"})
  /\ request # "none" \/ answer # "none" \/ disp \notin {"idle", "blocked"} =>
       cpc \in {"awaitCreate", "awaitShutdown", "awaitExit"}

(* When ruminate_init has built the library and until it is destroyed, a   *)
(* program that is not killed is as module Rendezvous assumes it: running, *)
(* attached, its event thread waiting, the handshake's callbacks removed   *)
(* and no stop of it left to be received (debugger_impl.py __init__;       *)
(* debugger_factory_impl.py create).                                       *)
ReadyForCalls ==
  lib = "ready" /\ cpc = "idle" /\ proc # "dead" =>
    /\ proc = "running" /\ attached
    /\ em \in {"loop", "wait"}
    /\ ~onStop /\ ~onRun
    /\ \A i \in 1..Len(events) : events[i] = "running"

(* After ruminate_destroy the debugger has let go of the program, unless   *)
(* the controller was interrupted and could not be asked to (lldb_em.py    *)
(* shutdown; ruminate.cpp ruminate_destroy).                               *)
NotHeldWithoutLibrary ==
  lib = "null" /\ proc # "dead" /\ srv # "interrupted" =>
    ~attached /\ proc = "running"

(* A library that has once reached its controller's factory is not given   *)
(* up before the controller is on its way out - so a controller that       *)
(* nobody will ever ask to shut down is left only by an init that failed   *)
(* between fork_child and create_factory (ruminate.cpp:231, 238).          *)
NoOrphanController ==
  [][(lib \in {"factory", "ready"} /\ lib' = "null")
       => srv' \notin {"starting", "serving"}]_vars

(* The attach does not leave the program stopped (debugger_impl.py         *)
(* onStopped).                                                             *)
StopEnds == proc = "stopped" ~> proc # "stopped"

(* ruminate_init returns, whatever fails on the way, if the program lives. *)
InitReturns == cpc = "fork" ~> (cpc = "idle" \/ proc = "dead")

(* Once ruminate_init has succeeded, the end of the program or of the      *)
(* library is the end of the controller, whichever of its threads hears of *)
(* it first - but for a controller that was interrupted, and so cannot be  *)
(* asked, or whose dispatch thread is taken (debugger_factory_impl.py      *)
(* shutdown; lldb_em.py shutdown).  A program killed before create has     *)
(* entered its debugger in the factory leaves the controller running.      *)
ControllerFollows ==
  registered /\ (lib = "null" \/ (lib = "ready" /\ proc = "dead"))
    ~> srv \in {"gone", "interrupted"} \/ disp = "blocked"

(* ruminate_destroy returns, unless a call has taken the dispatch thread,  *)
(* which must serve its request shutdown, for ever (ruminate.cpp           *)
(* ruminate_destroy and what it waits for in the controller).              *)
DestroyReturns ==
  cpc \in {"awaitShutdown", "awaitExit"}
    ~> (cpc \notin {"awaitShutdown", "awaitExit"} \/ proc = "dead"
          \/ disp = "blocked")

(* "If the program name has not been previously set via a call to          *)
(* g_set_prgname(), an error will occur", and init returns whether one     *)
(* did (include/ruminate/ruminate.h): true means there is a library.       *)
InitTrueMeansReady ==
  [][inits' > inits /\ cpc' = "idle" /\ inited' = "true" => lib = "ready"]_vars
===============================================================================
