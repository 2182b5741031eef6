--------------------------- MODULE Lifecycle_proofs ---------------------------
(***************************************************************************)
(* Proofs about Lifecycle, for any bound MaxInits: the types, that calls   *)
(* find the program as they need it, that a program without a library is   *)
(* let go of, and that no controller is left behind by its library.        *)
(*                                                                         *)
(* A program that is dead does nothing any more, so beyond the types only  *)
(* a living one has something to keep: Living, in four parts.  ClientInv   *)
(* says what each position of ruminate_init has built; RequestInv what the *)
(* request on its way, its handler and its answer say of each other and of *)
(* the server; DebuggerInv when the debugger is attached, entered in the   *)
(* factory and listening; and Phases is the history of the event thread    *)
(* with the program, from before the attach to after the detach.           *)
(***************************************************************************)
EXTENDS Lifecycle, TLAPS

-----------------------------------------------------------------------------
(* THE INVARIANT *)

(* One thing at a time is on its way between client and dispatch thread.   *)
Connection ==
  /\ request # "none" => answer = "none"
  /\ request # "none" \/ answer # "none" => disp \in {"idle", "blocked"}

(* An initialisation under way has not registered its exit handler yet.    *)
Initialising ==
  cpc \in {"fork", "readPort", "setupIce", "createFactory", "createDebugger",
           "awaitCreate"}
    => handlers < inits

TypeInv == TypeOK /\ Connection /\ Initialising

(* The client waits for its request shutdown.                              *)
AtShutdown == cpc \in {"awaitShutdown", "awaitExit"}

ClientInv ==
  /\ lib = "allocated" => srv \in {"none", "gone"}
  /\ cpc = "fork" => lib = "allocated"
  /\ cpc \in {"readPort", "setupIce"} => lib = "forked"
  /\ cpc = "createFactory" => lib = "ice"
  /\ cpc \in {"createDebugger", "awaitCreate"} => lib = "factory"
  /\ AtShutdown => lib \in {"factory", "ready"}
  /\ lib \in {"forked", "ice"} \/ cpc = "createDebugger" => em = "off"

(* The handlers run for the client that waits, at a server that was asked  *)
(* while it served; what they have done when they answer.                  *)
RequestInv ==
  /\ request = "create" => cpc = "awaitCreate" /\ em = "off"
  /\ request = "shutdown" => AtShutdown
  /\ disp \in {"create", "awaitRunning", "register"} => cpc = "awaitCreate"
  /\ disp \in {"shutdown", "join", "remove", "down"} => AtShutdown
  /\ disp = "create" => em = "off"
  /\ disp \notin {"idle", "reply"} => srv \in {"serving", "interrupted"}
  /\ cpc = "awaitCreate" 
       /\ (answer = "ok" \/ (disp = "reply" /\ outcome = "ok"))
       => registered
  /\ AtShutdown /\ (answer # "none" \/ disp = "reply")
       => srv \notin {"starting", "serving"}

(* A debugger is entered in the factory only when the program runs again,  *)
(* and from then on until shutdown has told it to detach it is attached.   *)
(* One that is attached and not entered is found by nobody, but then the   *)
(* server has been interrupted and is on its way out.                      *)
DebuggerInv ==
  /\ srv = "starting" => em = "off"
  /\ disp = "register" \/ registered => running
  /\ lib = "ready" => registered
  /\ attached /\ ~registered
       => disp \in {"awaitRunning", "register"} \/ srv # "serving"
  /\ disp = "shutdown" => registered \/ ~attached
  /\ disp \in {"join", "remove"} => registered
  /\ disp \in {"join", "remove", "down"} => ~attached
  /\ registered /\ srv = "serving" => inAdapter \/ disp = "down"
  /\ attached => srv \in {"serving", "interrupted"}
  /\ attached => \/ lib \in {"factory", "ready"}
                 \/ lib = "null" /\ srv = "interrupted"
  /\ em # "off" /\ lib \in {"factory", "ready"} /\ ~AtShutdown => attached

(* What the event thread has seen of a living program: nothing yet; not    *)
(* the stop of the attach; not that it runs again; all; the detach.        *)
NotStarted ==
  /\ em = "off" /\ proc = "running" /\ ~attached /\ ~emShutdown
  /\ ~onStop /\ ~onRun /\ ~running /\ events = <<>>
Stopped ==
  /\ em = "wait" /\ proc = "stopped" /\ attached /\ ~emShutdown
  /\ onStop /\ onRun /\ ~running /\ events = <<"stopped">>
Resumed ==
  /\ em \in {"loop", "wait"} /\ proc = "running" /\ attached /\ ~emShutdown
  /\ ~onStop /\ onRun /\ ~running /\ events = <<"running">>
Following ==
  /\ em \in {"loop", "wait"} /\ proc = "running" /\ attached /\ ~emShutdown
  /\ ~onStop /\ ~onRun /\ running /\ events = <<>>
Leaving ==
  /\ em \in {"loop", "wait", "done"} /\ proc = "running" /\ ~attached
  /\ emShutdown /\ ~onStop /\ ~onRun /\ running /\ events = <<>>

Phases == NotStarted \/ Stopped \/ Resumed \/ Following \/ Leaving

Living == proc # "dead" => ClientInv /\ RequestInv /\ DebuggerInv /\ Phases

IInv == TypeInv /\ Living

-----------------------------------------------------------------------------
(* THE QUEUE OF EVENTS *)

(* The queues of one event that a living program's handshake goes through. *)
LEMMA EventFacts ==
  /\ Append(<<>>, "stopped") = <<"stopped">>
  /\ Append(<<>>, "running") = <<"running">>
  /\ <<"stopped">> # <<>> /\ <<"running">> # <<>>
  /\ \A e : Head(<<e>>) = e /\ Tail(<<e>>) = <<>>
OBVIOUS

(* Appending an event and taking one away leave a queue of events.         *)
LEMMA EventsTyped ==
  ASSUME NEW S, NEW s \in Seq(S)
  PROVE  /\ \A e \in S : Append(s, e) \in Seq(S)
         /\ s # <<>> => Tail(s) \in Seq(S)
         /\ <<>> \in Seq(S)
OBVIOUS

-----------------------------------------------------------------------------
(* TYPES *)

(* The variables that are truth values. *)
Flags == {attached, registered, inAdapter, onStop, onRun, running, emShutdown}

(* The actions of Next, by who takes them: the program in ruminate_init    *)
(* and at its end, the controller's main thread and its dispatch thread;   *)
(* EventThread is the fifth.                                               *)
InitActions     == InitNew \/ InitAgain \/ InitSteps
EndActions      == CallDestroy \/ Exit \/ DestroySteps \/ Killed
ServerActions   == Controller \/ Interrupt
DispatchActions == DispatchSteps \/ CallBlocks

(* The types and the connection: ruminate_init.                            *)
LEMMA InitTyped == TypeInv /\ InitActions => TypeInv'
<1> SUFFICES ASSUME TypeInv, InitActions PROVE TypeInv'
  OBVIOUS
<1> USE LifecycleAssumption
        DEF TypeInv, TypeOK, Connection, Initialising, At,
            clientVars, netVars, serverVars, emVars, targetVars
<1>1. CASE InitAgain
  BY <1>1 DEF InitAgain, Return
<1>2. CASE InitNew
  BY <1>2 DEF InitNew, Return
<1>3. CASE ForkChild
  <2>1. Flags' \subseteq BOOLEAN BY <1>3, Zenon DEF ForkChild, Return, Flags
  <2> QED BY <1>3, <2>1, EventsTyped DEF ForkChild, Return, Flags
<1>4. CASE ReadChildPort
  BY <1>4 DEF ReadChildPort, Return
<1>5. CASE SetupIce
  BY <1>5 DEF SetupIce, Return
<1>6. CASE CreateFactory
  BY <1>6 DEF CreateFactory, Return
<1>7. CASE CreateDebugger
  BY <1>7 DEF CreateDebugger
<1>8. CASE EndCreateDebugger
  BY <1>8 DEF EndCreateDebugger, Return
<1> QED
    BY <1>1, <1>2, <1>3, <1>4, <1>5, <1>6, <1>7, <1>8 DEF InitActions,
       InitSteps

(* The types and the connection: ruminate_destroy and the program's end.   *)
LEMMA EndTyped == TypeInv /\ EndActions => TypeInv'
<1> SUFFICES ASSUME TypeInv, EndActions PROVE TypeInv'
  OBVIOUS
<1> USE LifecycleAssumption
        DEF TypeInv, TypeOK, Connection, Initialising, At,
            clientVars, netVars, serverVars, emVars, targetVars
<1>1. CASE CallDestroy
  BY <1>1 DEF CallDestroy, AskShutdown, NoFactory
<1>2. CASE Exit
  BY <1>2 DEF Exit
<1>3. CASE EndDestroy
  BY <1>3 DEF EndDestroy, FreeLibrary
<1>4. CASE ExitHandler
  BY <1>4 DEF ExitHandler, AskShutdown, NoFactory, NextHandler
<1>5. CASE EndExitHandler
  BY <1>5 DEF EndExitHandler, FreeLibrary, NextHandler
<1>6. CASE Exited
  BY <1>6, EventsTyped DEF Exited, Dies
<1>7. CASE Killed
  BY <1>7, EventsTyped DEF Killed, Dies
<1> QED
    BY <1>1, <1>2, <1>3, <1>4, <1>5, <1>6, <1>7 DEF EndActions, DestroySteps

(* The types and the connection: the controller's main thread.             *)
LEMMA ServerTyped == TypeInv /\ ServerActions => TypeInv'
<1> SUFFICES ASSUME TypeInv, ServerActions PROVE TypeInv'
  OBVIOUS
<1> USE LifecycleAssumption
        DEF TypeInv, TypeOK, Connection, Initialising, At,
            clientVars, netVars, serverVars, emVars, targetVars
<1>1. CASE StartServer
  BY <1>1 DEF StartServer
<1>2. CASE EndServer
  <2>1. Flags' \subseteq BOOLEAN BY <1>2, Zenon DEF EndServer, Detach, Flags
  <2> QED BY <1>2, <2>1 DEF EndServer, Detach, Flags
<1>3. CASE Refuse
  BY <1>3 DEF Refuse
<1>4. CASE Interrupt
  BY <1>4 DEF Interrupt
<1> QED BY <1>1, <1>2, <1>3, <1>4 DEF ServerActions, Controller

(* The types and the connection: the dispatch thread.                      *)
LEMMA DispatchTyped == TypeInv /\ DispatchActions => TypeInv'
<1> SUFFICES ASSUME TypeInv, DispatchActions PROVE TypeInv'
  OBVIOUS
<1> USE LifecycleAssumption
        DEF TypeInv, TypeOK, Connection, Initialising, At,
            clientVars, netVars, serverVars, emVars, targetVars
<1>1. CASE DispatchRequest
  BY <1>1 DEF DispatchRequest
<1>2. CASE CreateFails
  BY <1>2 DEF CreateFails, Answer
<1>3. CASE Attach
  BY <1>3, EventsTyped DEF Attach
<1>4. CASE AwaitRunning
  BY <1>4, EventsTyped DEF AwaitRunning
<1>5. CASE Register
  <2>1. Flags' \subseteq BOOLEAN BY <1>5, Zenon DEF Register, Answer, Flags
  <2> QED BY <1>5, <2>1 DEF Register, Answer, Flags
<1>6. CASE DetachDebugger
  <2>1. Flags' \subseteq BOOLEAN
      BY <1>6, Zenon DEF DetachDebugger, Detach, Flags
  <2> QED BY <1>6, <2>1 DEF DetachDebugger, Detach, Flags
<1>7. CASE JoinEventThread
  BY <1>7 DEF JoinEventThread
<1>8. CASE RemoveServant
  <2>1. Flags' \subseteq BOOLEAN
      BY <1>8, Zenon DEF RemoveServant, Answer, Flags
  <2> QED BY <1>8, <2>1 DEF RemoveServant, Answer, Flags
<1>9. CASE ShutDownCommunicator
  BY <1>9 DEF ShutDownCommunicator, Answer
<1>10. CASE SendAnswer
  BY <1>10 DEF SendAnswer
<1>11. CASE CallBlocks
  BY <1>11 DEF CallBlocks
<1> QED
    BY <1>1, <1>2, <1>3, <1>4, <1>5, <1>6, <1>7, <1>8, <1>9, <1>10, <1>11
       DEF DispatchActions, DispatchSteps

(* The types and the connection: the event thread.                         *)
LEMMA EventTyped == TypeInv /\ EventThread => TypeInv'
<1> SUFFICES ASSUME TypeInv, EventThread PROVE TypeInv'
  OBVIOUS
<1> USE LifecycleAssumption
        DEF TypeInv, TypeOK, Connection, Initialising, At,
            clientVars, netVars, serverVars, emVars, targetVars
<1>1. CASE LoopHead
  BY <1>1 DEF LoopHead, emServerUnchanged
<1>2. CASE WaitTimesOut
  BY <1>2 DEF WaitTimesOut, emServerUnchanged
<1>3. CASE OnStopped
  <2>1. Flags' \subseteq BOOLEAN
      BY <1>3, Zenon DEF OnStopped, Received, Continue, emServerUnchanged,
         Flags
  <2> QED
      BY <1>3, <2>1, EventsTyped DEF OnStopped, Received, Continue,
         emServerUnchanged, Flags
<1>4. CASE OnRunning
  <2>1. Flags' \subseteq BOOLEAN
      BY <1>4, Zenon DEF OnRunning, Received, emServerUnchanged, Flags
  <2> QED
      BY <1>4, <2>1, EventsTyped DEF OnRunning, Received, emServerUnchanged,
         Flags
<1>5. CASE OnExited
  <2>1. Flags' \subseteq BOOLEAN
      BY <1>5, Zenon DEF OnExited, Received, emServerUnchanged, Flags
  <2> QED
      BY <1>5, <2>1, EventsTyped DEF OnExited, Received, emServerUnchanged,
         Flags
<1>6. CASE EmRemoveServant
  <2>1. Flags' \subseteq BOOLEAN
      BY <1>6, Zenon DEF EmRemoveServant, emServerUnchanged, Flags
  <2> QED BY <1>6, <2>1 DEF EmRemoveServant, emServerUnchanged, Flags
<1>7. CASE EmShutDownCommunicator
  BY <1>7 DEF EmShutDownCommunicator, emServerUnchanged
<1> QED BY <1>1, <1>2, <1>3, <1>4, <1>5, <1>6, <1>7 DEF EventThread

(* Every step keeps the types and the connection.                          *)
LEMMA TypeStep == TypeInv /\ [Next]_vars => TypeInv'
<1> SUFFICES ASSUME TypeInv, [Next]_vars PROVE TypeInv'
  OBVIOUS
<1>1. CASE Next
  BY <1>1, InitTyped, EndTyped, ServerTyped, DispatchTyped,
     EventTyped
     DEF Next, InitActions, EndActions, ServerActions, DispatchActions
<1>2. CASE UNCHANGED vars
  BY <1>2 DEF TypeInv, TypeOK, Connection, Initialising, vars, clientVars,
              netVars, serverVars, emVars, targetVars
<1> QED BY <1>1, <1>2

-----------------------------------------------------------------------------
(* THE LIVING PROGRAM *)

(* What a step must keep, taken apart. *)
LEMMA LivingParts ==
  ASSUME proc' # "dead" => ClientInv' /\ RequestInv' /\ DebuggerInv' /\ Phases'
  PROVE  Living'
BY DEF Living

(* A program that lives on is kept in order: ruminate_init.                *)
LEMMA InitLiving == IInv /\ InitActions => Living'
<1> SUFFICES ASSUME IInv, InitActions, proc' # "dead"
             PROVE  ClientInv' /\ RequestInv' /\ DebuggerInv' /\ Phases'
  BY LivingParts
<1> USE DEF IInv, TypeInv, TypeOK, Connection, Living, ClientInv, RequestInv,
            DebuggerInv, Phases, NotStarted, Stopped, Resumed, Following,
            Leaving, AtShutdown, At,
            clientVars, netVars, serverVars, emVars, targetVars
<1>1. CASE InitAgain
  BY <1>1 DEF InitAgain, Return
<1>2. CASE InitNew
  BY <1>2 DEF InitNew, Return
<1>3. CASE ForkChild
  BY <1>3, EventFacts DEF ForkChild, Return
<1>4. CASE ReadChildPort
  BY <1>4 DEF ReadChildPort, Return
<1>5. CASE SetupIce
  BY <1>5 DEF SetupIce, Return
<1>6. CASE CreateFactory
  BY <1>6 DEF CreateFactory, Return
<1>7. CASE CreateDebugger
  BY <1>7 DEF CreateDebugger
<1>8. CASE EndCreateDebugger
  BY <1>8 DEF EndCreateDebugger, Return
<1> QED
    BY <1>1, <1>2, <1>3, <1>4, <1>5, <1>6, <1>7, <1>8 DEF InitActions,
       InitSteps

(* A program that lives on is kept in order: ruminate_destroy, and the     *)
(* end of the program.                                                     *)
LEMMA EndLiving == IInv /\ EndActions => Living'
<1> SUFFICES ASSUME IInv, EndActions, proc' # "dead"
             PROVE  ClientInv' /\ RequestInv' /\ DebuggerInv' /\ Phases'
  BY LivingParts
<1> USE DEF IInv, TypeInv, TypeOK, Connection, Living, ClientInv, RequestInv,
            DebuggerInv, Phases, NotStarted, Stopped, Resumed, Following,
            Leaving, AtShutdown, At,
            clientVars, netVars, serverVars, emVars, targetVars
<1>1. CASE CallDestroy
  BY <1>1 DEF CallDestroy, AskShutdown, NoFactory
<1>2. CASE Exit
  BY <1>2 DEF Exit
<1>3. CASE EndDestroy
  BY <1>3 DEF EndDestroy, FreeLibrary
<1>4. CASE ExitHandler
  BY <1>4 DEF ExitHandler, AskShutdown, NoFactory, NextHandler
<1>5. CASE EndExitHandler
  BY <1>5 DEF EndExitHandler, FreeLibrary, NextHandler
<1>6. CASE Exited
  BY <1>6, EventFacts DEF Exited, Dies
<1>7. CASE Killed
  BY <1>7, EventFacts DEF Killed, Dies
<1> QED
    BY <1>1, <1>2, <1>3, <1>4, <1>5, <1>6, <1>7 DEF EndActions, DestroySteps

(* A program that lives on is kept in order: the controller's main thread. *)
LEMMA ServerLiving == IInv /\ ServerActions => Living'
<1> SUFFICES ASSUME IInv, ServerActions, proc' # "dead"
             PROVE  ClientInv' /\ RequestInv' /\ DebuggerInv' /\ Phases'
  BY LivingParts
<1> USE DEF IInv, TypeInv, TypeOK, Connection, Living, ClientInv, RequestInv,
            DebuggerInv, Phases, NotStarted, Stopped, Resumed, Following,
            Leaving, AtShutdown, At,
            clientVars, netVars, serverVars, emVars, targetVars
<1>1. CASE StartServer
  BY <1>1 DEF StartServer
<1>2. CASE EndServer
  BY <1>2 DEF EndServer, Detach
<1>3. CASE Refuse
  BY <1>3 DEF Refuse
<1>4. CASE Interrupt
  BY <1>4 DEF Interrupt
<1> QED BY <1>1, <1>2, <1>3, <1>4 DEF ServerActions, Controller

(* A program that lives on is kept in order: the dispatch thread.          *)
LEMMA DispatchLiving == IInv /\ DispatchActions => Living'
<1> SUFFICES ASSUME IInv, DispatchActions, proc' # "dead"
             PROVE  ClientInv' /\ RequestInv' /\ DebuggerInv' /\ Phases'
  BY LivingParts
<1> USE DEF IInv, TypeInv, TypeOK, Connection, Living, ClientInv, RequestInv,
            DebuggerInv, Phases, NotStarted, Stopped, Resumed, Following,
            Leaving, AtShutdown, At,
            clientVars, netVars, serverVars, emVars, targetVars
<1>1. CASE DispatchRequest
  BY <1>1 DEF DispatchRequest
<1>2. CASE CreateFails
  BY <1>2 DEF CreateFails, Answer
<1>3. CASE Attach
  BY <1>3, EventFacts DEF Attach
<1>4. CASE AwaitRunning
  BY <1>4, EventFacts DEF AwaitRunning
<1>5. CASE Register
  BY <1>5 DEF Register, Answer
<1>6. CASE DetachDebugger
  BY <1>6 DEF DetachDebugger, Detach
<1>7. CASE JoinEventThread
  BY <1>7 DEF JoinEventThread
<1>8. CASE RemoveServant
  BY <1>8 DEF RemoveServant, Answer
<1>9. CASE ShutDownCommunicator
  BY <1>9 DEF ShutDownCommunicator, Answer
<1>10. CASE SendAnswer
  BY <1>10 DEF SendAnswer
<1>11. CASE CallBlocks
  BY <1>11 DEF CallBlocks
<1> QED
    BY <1>1, <1>2, <1>3, <1>4, <1>5, <1>6, <1>7, <1>8, <1>9, <1>10, <1>11
       DEF DispatchActions, DispatchSteps

(* A program that lives on is kept in order: the event thread.             *)
LEMMA EventLiving == IInv /\ EventThread => Living'
<1> SUFFICES ASSUME IInv, EventThread, proc' # "dead"
             PROVE  ClientInv' /\ RequestInv' /\ DebuggerInv' /\ Phases'
  BY LivingParts
<1> USE DEF IInv, TypeInv, TypeOK, Connection, Living, ClientInv, RequestInv,
            DebuggerInv, Phases, NotStarted, Stopped, Resumed, Following,
            Leaving, AtShutdown, At,
            clientVars, netVars, serverVars, emVars, targetVars
<1>1. CASE LoopHead
  BY <1>1 DEF LoopHead, emServerUnchanged
<1>2. CASE WaitTimesOut
  BY <1>2 DEF WaitTimesOut, emServerUnchanged
<1>3. CASE OnStopped
  BY <1>3, EventFacts DEF OnStopped, Received, Continue, emServerUnchanged
<1>4. CASE OnRunning
  BY <1>4, EventFacts DEF OnRunning, Received, emServerUnchanged
<1>5. CASE OnExited
  BY <1>5, EventFacts DEF OnExited, Received, emServerUnchanged
<1>6. CASE EmRemoveServant
  BY <1>6 DEF EmRemoveServant, emServerUnchanged
<1>7. CASE EmShutDownCommunicator
  BY <1>7 DEF EmShutDownCommunicator, emServerUnchanged
<1> QED BY <1>1, <1>2, <1>3, <1>4, <1>5, <1>6, <1>7 DEF EventThread

(* Every step keeps the invariant.                                         *)
LEMMA Step == IInv /\ [Next]_vars => IInv'
<1> SUFFICES ASSUME IInv, [Next]_vars PROVE Living'
  BY TypeStep DEF IInv
<1>1. CASE Next
  BY <1>1, InitLiving, EndLiving, ServerLiving,
     DispatchLiving, EventLiving
     DEF Next, InitActions, EndActions, ServerActions, DispatchActions
<1>2. CASE UNCHANGED vars
  BY <1>2 DEF IInv, Living, ClientInv, RequestInv, DebuggerInv, Phases,
              NotStarted, Stopped, Resumed, Following, Leaving, AtShutdown,
              vars, clientVars, netVars, serverVars, emVars, targetVars
<1> QED BY <1>1, <1>2

(* It holds before ruminate_init is called. *)
LEMMA InitIInv == Init => IInv
<1> SUFFICES ASSUME Init PROVE IInv
  OBVIOUS
<1>1. Flags \subseteq BOOLEAN
  BY Zenon DEF Init, Flags
<1>2. TypeInv
  BY <1>1, LifecycleAssumption, EventsTyped
     DEF Init, TypeInv, TypeOK, Flags, Connection, Initialising
<1>3. Living
  BY DEF Init, Living, ClientInv, RequestInv, DebuggerInv, Phases, NotStarted,
         AtShutdown
<1> QED BY <1>2, <1>3 DEF IInv

-----------------------------------------------------------------------------
(* THEOREMS *)

(* The inductive invariant of the life cycle (ruminate.cpp, debugger_impl  *)
(* .py, debugger_factory_impl.py, lldb_em.py).                             *)
THEOREM Invariant == Spec => []IInv
BY InitIInv, Step, PTL DEF Spec

(* Every variable has its type, and no request, handler or answer is about *)
(* for which no client waits.                                              *)
THEOREM TypeCorrect == Spec => []TypeOK
<1>1. IInv => TypeOK
  BY DEF IInv, TypeInv
<1> QED BY <1>1, Invariant, PTL

(* While there is a library that ruminate_init has built and the program   *)
(* neither dies nor is in one of its calls, the program runs and is        *)
(* followed by the debugger, with nothing of the handshake left            *)
(* (debugger_impl.py __init__; debugger_factory_impl.py create).           *)
THEOREM ReadyWhenBuilt == Spec => []ReadyForCalls
<1>1. IInv => ReadyForCalls
  BY DEF IInv, Living, ClientInv, DebuggerInv, Phases, NotStarted, Stopped,
         Resumed, Following, Leaving, AtShutdown, ReadyForCalls
<1> QED BY <1>1, Invariant, PTL

(* Without a library the program is not in the debugger's hands, unless    *)
(* the controller was interrupted (lldb_em.py shutdown; ruminate.cpp       *)
(* ruminate_destroy).                                                      *)
THEOREM LetGoWithoutLibrary == Spec => []NotHeldWithoutLibrary
<1>1. IInv => NotHeldWithoutLibrary
  BY DEF IInv, Living, DebuggerInv, Phases, NotStarted, Stopped, Resumed,
         Following, Leaving, NotHeldWithoutLibrary
<1> QED BY <1>1, Invariant, PTL

(* The only steps that give up a library with a factory are those of a     *)
(* client whose shutdown has been answered.                                *)
LEMMA GivenUpWhenAnswered ==
  ASSUME [Next]_vars, lib \in {"factory", "ready"}, lib' = "null"
  PROVE  AtShutdown /\ proc = "running" /\ answer # "none" /\ UNCHANGED srv
<1> USE DEF At, Return, AskShutdown, NoFactory, AtShutdown,
            clientVars, netVars, serverVars, emVars, targetVars
<1>1. ASSUME InitActions PROVE FALSE
  BY <1>1 DEF InitActions, InitNew, InitAgain, InitSteps, ForkChild,
              ReadChildPort, SetupIce, CreateFactory, CreateDebugger,
              EndCreateDebugger
<1>2. CASE EndActions
  BY <1>2 DEF EndActions, CallDestroy, Exit, DestroySteps, EndDestroy,
              ExitHandler, EndExitHandler, FreeLibrary, NextHandler,
              Exited, Killed
<1>3. ASSUME ServerActions PROVE FALSE
  BY <1>3 DEF ServerActions, Controller, StartServer, EndServer,
              Refuse, Interrupt
<1>4. ASSUME DispatchActions PROVE FALSE
  BY <1>4 DEF DispatchActions, DispatchSteps, DispatchRequest, CreateFails,
              Attach, AwaitRunning, Register, DetachDebugger,
              JoinEventThread, RemoveServant, ShutDownCommunicator,
              SendAnswer, CallBlocks
<1>5. ASSUME EventThread PROVE FALSE
  BY <1>5 DEF EventThread, LoopHead, WaitTimesOut, OnStopped, OnRunning,
              OnExited, EmRemoveServant, EmShutDownCommunicator,
              emServerUnchanged
<1>6. ASSUME UNCHANGED vars PROVE FALSE
  BY <1>6 DEF vars
<1> QED BY <1>1, <1>2, <1>3, <1>4, <1>5, <1>6
   DEF Next, InitActions, EndActions, ServerActions, DispatchActions

(* No library is given up before its controller is on its way out          *)
(* (ruminate.cpp ruminate_destroy; debugger_factory_impl.py shutdown).     *)
THEOREM NoControllerLeft == Spec => NoOrphanController
<1>1. IInv /\ [Next]_vars
        => ((lib \in {"factory", "ready"} /\ lib' = "null")
              => srv' \notin {"starting", "serving"})
  <2> SUFFICES ASSUME IInv, [Next]_vars,
                      lib \in {"factory", "ready"}, lib' = "null"
               PROVE  srv' \notin {"starting", "serving"}
    OBVIOUS
  <2> QED BY GivenUpWhenAnswered DEF IInv, Living, RequestInv
<1> QED BY <1>1, Invariant, PTL DEF Spec, NoOrphanController
===============================================================================
