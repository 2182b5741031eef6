------------------------------ MODULE Rendezvous ------------------------------
(***************************************************************************)
(* The rendezvous between the threads of a program and the controller that *)
(* debugs it, once ruminate_init has returned.                             *)
(*                                                                         *)
(* A call that needs the caller's stack (ruminate_get_type,                *)
(* ruminate_backtrace, the members of an array) sends an asynchronous      *)
(* request, runs into the breakpoint in ruminate_hit_breakpoint and then   *)
(* waits for the answer.  The controller's dispatch thread registers a     *)
(* callback for the stop and waits; its event thread (LLDBEventMachine)    *)
(* receives the stop, runs the callback and so wakes the dispatch thread,  *)
(* which reads the stack, continues the program and answers.  A stop that  *)
(* finds no callback registered is continued at once.                      *)
(*                                                                         *)
(* The dispatch thread is one: the server thread pool of the controller is *)
(* left at its default size.                                               *)
(*                                                                         *)
(* ruminate_get_type keeps its request in ruminate->arp, which all threads *)
(* share without a lock: a thread may end the request of another.          *)
(***************************************************************************)
EXTENDS Naturals, Sequences, FiniteSets

CONSTANTS
  Threads,     (* threads of the debugged program                          *)
  NoRequest,   (* stands for a null AsyncResult, and for "serving nobody"  *)
  MaxCalls,    (* bound: API calls a thread makes                          *)
  MaxInAll,    (* bound: API calls all threads make                        *)
  MaxInFlight  (* how many threads use the library at the same time        *)

(* A request is the first, second, ... of a thread; a call sends up to two. *)
Requests == Threads \X (1..2 * MaxCalls)
Of(r) == r[1]

ASSUME RendezvousAssumption ==
  /\ NoRequest \notin Requests
  /\ IsFiniteSet(Threads)
  /\ MaxCalls \in Nat
  /\ MaxInAll \in Nat
  /\ MaxInFlight \in Nat

VARIABLES
  (* the debugged program *)
  process,   (* "running", "stopped" or "aborted"                          *)
  pc,        (* where each thread is                                       *)
  op,        (* what each request asks                                     *)
  sent,      (* how many requests each thread has sent                     *)
  calls,     (* API calls made so far (bounded by MaxCalls)                *)
  arp,       (* ruminate->arp: a get_type's request, or NoRequest          *)
  ending,    (* the request whose answer a get_type waits for in end_      *)
  (* the connection *)
  requests,  (* requests that are not dispatched yet, in order             *)
  reply,     (* "none", the answer that has arrived, or "taken"            *)
  (* the controller's dispatch thread *)
  dispatch,  (* where it is                                                *)
  serving,   (* the request it serves                                      *)
  result,    (* the answer it has prepared                                 *)
  signalled, (* stoppedAtBreakpoint of the StoppedThread it waits in       *)
  (* the controller's event thread *)
  events,    (* stops of the process that are not received yet             *)
  callbacks, (* LLDBEventMachine.callbacks[eStateStopped], by request      *)
  em,        (* where it is                                                *)
  emIndex    (* position in the loop over callbacks                        *)

callVars   == <<op, sent, calls, arp, ending>>
clientVars == <<process, pc, callVars>>
netVars    == <<requests, reply>>
serverVars == <<dispatch, serving, result, signalled>>
emVars     == <<events, callbacks, em, emIndex>>
vars       == <<clientVars, netVars, serverVars, emVars>>

(* Requests that stop the caller at the breakpoint, and the others.        *)
StopOps == {"type", "backtrace", "members"}
Ops     == StopOps \cup {"query"}

(* Places in a library call: at the assertion of get_type, sending its     *)
(* request, storing it; before the breakpoint and at it; behind it; and in *)
(* get_type waiting in end_, clearing ruminate->arp and asking for the id. *)
Locations == {"idle", "assert", "begin", "store", "trap", "halted", "end",
              "await", "clear", "query"}

Init ==
  /\ process = "running"
  /\ pc = [t \in Threads |-> "idle"]
  /\ op = [r \in Requests |-> "query"]
  /\ sent = [t \in Threads |-> 0]
  /\ calls = [t \in Threads |-> 0]
  /\ arp = NoRequest
  /\ ending = [t \in Threads |-> NoRequest]
  /\ requests = <<>>
  /\ reply = [r \in Requests |-> "none"]
  /\ dispatch = "idle"
  /\ serving = NoRequest
  /\ result = "none"
  /\ signalled = FALSE
  /\ events = 0
  /\ callbacks = <<>>
  /\ em = "wait"
  /\ emIndex = 0

-----------------------------------------------------------------------------
(* The debugged program.  None of its threads moves unless it is running.  *)

(* A thread is about to make its next library call. *)
MayCall(t) ==
  /\ process = "running"
  /\ pc[t] = "idle"
  /\ calls[t] < MaxCalls
  /\ Cardinality({c \in Threads \X (1..MaxCalls) : c[2] <= calls[c[1]]}) < MaxInAll
  /\ Cardinality({u \in Threads : pc[u] # "idle"}) < MaxInFlight

(* The request thread t sent last. *)
Latest(t) == <<t, sent[t]>>

(* Thread t sends a request that asks o and goes on to location loc. *)
Send(t, o, loc) ==
  LET r == <<t, sent[t] + 1>>
  IN  /\ sent' = [sent EXCEPT ![t] = @ + 1]
      /\ op' = [op EXCEPT ![r] = o]
      /\ requests' = Append(requests, r)
      /\ pc' = [pc EXCEPT ![t] = loc]

(* Thread t goes on to location loc. *)
GoTo(t, loc) == pc' = [pc EXCEPT ![t] = loc]

(* ruminate_get_type_by_variable_name reaches its assertion. *)
EnterGetType(t) ==
  /\ MayCall(t)
  /\ GoTo(t, "assert")
  /\ calls' = [calls EXCEPT ![t] = @ + 1]
  /\ UNCHANGED <<process, op, sent, arp, ending, netVars, serverVars, emVars>>

(* The assertion that no get_type is pending holds. *)
AssertHolds(t) ==
  /\ process = "running"
  /\ pc[t] = "assert"
  /\ arp = NoRequest
  /\ GoTo(t, "begin")
  /\ UNCHANGED <<process, callVars, netVars, serverVars, emVars>>

(* The assertion fails: g_assert aborts the program. *)
AssertFails(t) ==
  /\ process = "running"
  /\ pc[t] = "assert"
  /\ arp # NoRequest
  /\ process' = "aborted"
  /\ UNCHANGED <<pc, callVars, netVars, serverVars, emVars>>

(* begin_getTypeByVariableName sends the request ... *)
BeginGetType(t) ==
  /\ process = "running"
  /\ pc[t] = "begin"
  /\ Send(t, "type", "store")
  /\ UNCHANGED <<process, calls, arp, ending, reply, serverVars, emVars>>

(* ... and what it returns is stored for all threads to see. *)
StoreArp(t) ==
  /\ process = "running"
  /\ pc[t] = "store"
  /\ arp' = Latest(t)
  /\ GoTo(t, "trap")
  /\ UNCHANGED <<process, op, sent, calls, ending, netVars, serverVars, emVars>>

(* ruminate_backtrace and the first use of an array's members. *)
BeginStop(t, o) ==
  /\ MayCall(t)
  /\ Send(t, o, "trap")
  /\ calls' = [calls EXCEPT ![t] = @ + 1]
  /\ UNCHANGED <<process, arp, ending, reply, serverVars, emVars>>

(* Every synchronous request that needs no stop. *)
BeginQuery(t) ==
  /\ MayCall(t)
  /\ Send(t, "query", "end")
  /\ calls' = [calls EXCEPT ![t] = @ + 1]
  /\ UNCHANGED <<process, arp, ending, reply, serverVars, emVars>>

(* A request cannot be made: the call returns without having stopped.      *)
BeginFails(t) ==
  /\ \/ /\ MayCall(t)
        /\ calls' = [calls EXCEPT ![t] = @ + 1]
        /\ UNCHANGED pc
     \/ /\ process = "running"
        /\ pc[t] \in {"begin", "query"}
        /\ GoTo(t, "idle")
        /\ UNCHANGED calls
  /\ UNCHANGED <<process, op, sent, arp, ending, netVars, serverVars, emVars>>

(* ruminate_hit_breakpoint: the threads in S are at the breakpoint when    *)
(* the debugger stops the program.                                         *)
HitBreakpoint(S) ==
  /\ process = "running"
  /\ S # {}
  /\ \A t \in S : pc[t] = "trap"
  /\ process' = "stopped"
  /\ pc' = [t \in Threads |-> IF t \in S THEN "halted" ELSE pc[t]]
  /\ events' = events + 1
  /\ UNCHANGED <<callVars, netVars, serverVars, callbacks, em, emIndex>>

(* A get_type is behind the breakpoint, about to look at ruminate->arp.    *)
AtEndOfType(t) == pc[t] = "end" /\ op[Latest(t)] = "type"

(* end_ was called for request r; it must not be called again. *)
Ended(r) == reply[r] = "taken" \/ \E u \in Threads : ending[u] = r

(* end_getTypeByVariableName is given ruminate->arp, whosever request that *)
(* is by now.  No request, or one that is ended, is refused by Ice and the *)
(* call returns NULL; else the thread waits for that request's answer.     *)
EndGetType(t) ==
  /\ process = "running"
  /\ AtEndOfType(t)
  /\ IF arp = NoRequest \/ Ended(arp)
     THEN GoTo(t, "idle") /\ UNCHANGED ending
     ELSE GoTo(t, "await") /\ ending' = [ending EXCEPT ![t] = arp]
  /\ UNCHANGED <<process, op, sent, calls, arp, netVars, serverVars, emVars>>

(* The answer is taken.  On failure the call returns NULL and leaves       *)
(* ruminate->arp as it is.  end_ reads the answer through ruminate->arp:   *)
(* if that has changed meanwhile, what it finds there is anything.         *)
TakeType(t) ==
  /\ process = "running"
  /\ pc[t] = "await"
  /\ reply[ending[t]] # "none"
  /\ \/ /\ reply[ending[t]] = "ok" \/ arp # ending[t]
        /\ GoTo(t, "clear")
     \/ /\ reply[ending[t]] = "error" \/ arp # ending[t]
        /\ GoTo(t, "idle")
  /\ reply' = [reply EXCEPT ![ending[t]] = "taken"]
  /\ ending' = [ending EXCEPT ![t] = NoRequest]
  /\ UNCHANGED <<process, op, sent, calls, arp, requests, serverVars, emVars>>

(* The pending call, whosever it is by now, is forgotten ... *)
ClearArp(t) ==
  /\ process = "running"
  /\ pc[t] = "clear"
  /\ arp' = NoRequest
  /\ GoTo(t, "query")
  /\ UNCHANGED <<process, op, sent, calls, ending, netVars, serverVars, emVars>>

(* ... and r_type_new asks for the type's id. *)
QueryTypeId(t) ==
  /\ process = "running"
  /\ pc[t] = "query"
  /\ Send(t, "query", "end")
  /\ UNCHANGED <<process, calls, arp, ending, reply, serverVars, emVars>>

(* ruminate->arp counts its references without a lock.  Where one thread   *)
(* writes it while another clears it or begins to end its request, or      *)
(* where the request a thread waits for is no longer kept in it, a request *)
(* may be used after it was destroyed, and the program may abort.          *)
RaceOnArp(t) ==
  /\ process = "running"
  /\ \/ /\ pc[t] \in {"store", "clear"}
        /\ \E u \in Threads \ {t} : pc[u] = "clear" \/ AtEndOfType(u)
     \/ pc[t] = "await" /\ arp # ending[t]
  /\ process' = "aborted"
  /\ UNCHANGED <<pc, callVars, netVars, serverVars, emVars>>

(* The answer to the thread's own request has arrived and the thread runs  *)
(* to take it.                                                             *)
Answered(t) ==
  /\ process = "running"
  /\ pc[t] = "end"
  /\ reply[Latest(t)] # "none"

(* Thread t takes its answer and its call returns. *)
TakeReply(t) ==
  /\ reply' = [reply EXCEPT ![Latest(t)] = "taken"]
  /\ GoTo(t, "idle")

(* end_getBacktrace, called outside gxx_call in a function that may not    *)
(* throw: an error terminates the program.                                 *)
EndBacktrace(t) ==
  /\ Answered(t)
  /\ op[Latest(t)] = "backtrace"
  /\ \/ /\ reply[Latest(t)] = "ok"
        /\ TakeReply(t)
        /\ UNCHANGED process
     \/ /\ reply[Latest(t)] = "error"
        /\ process' = "aborted"
        /\ UNCHANGED <<pc, reply>>
  /\ UNCHANGED <<callVars, requests, serverVars, emVars>>

(* end_getMembers and every synchronous request report what they get. *)
EndOther(t) ==
  /\ Answered(t)
  /\ op[Latest(t)] \in {"members", "query"}
  /\ TakeReply(t)
  /\ UNCHANGED <<process, callVars, requests, serverVars, emVars>>

-----------------------------------------------------------------------------
(* SBProcess.Continue: the threads at the breakpoint run past it.  On a    *)
(* program that is not stopped it is an error nobody looks at.             *)
Continue ==
  IF process = "stopped"
  THEN /\ process' = "running"
       /\ pc' = [t \in Threads |-> IF pc[t] = "halted" THEN "end" ELSE pc[t]]
  ELSE UNCHANGED <<process, pc>>

(* SBThread.stop_reason, read when the callback of request r runs. *)
StoppedAtBreakpoint(r) == process = "stopped" /\ pc[Of(r)] = "halted"

-----------------------------------------------------------------------------
(* The dispatch thread. *)

(* The next request is dispatched; one without a stop is answered at once. *)
Dispatch ==
  /\ dispatch = "idle"
  /\ requests # <<>>
  /\ serving' = Head(requests)
  /\ requests' = Tail(requests)
  /\ \/ /\ op[Head(requests)] = "query"
        /\ result' \in {"ok", "error"}
        /\ dispatch' = "reply"
     \/ /\ op[Head(requests)] \in StopOps
        /\ dispatch' = "enter"
        /\ UNCHANGED result
  /\ UNCHANGED <<clientVars, reply, signalled, emVars>>

(* StoppedThread.__enter__: the thread is found and the callback is added. *)
EnterStop ==
  /\ dispatch = "enter"
  /\ callbacks' = Append(callbacks, serving)
  /\ signalled' = FALSE
  /\ dispatch' = "waiting"
  /\ UNCHANGED <<clientVars, netVars, serving, result, events, em, emIndex>>

(* Mutant: the callback is added before the thread is looked up. *)
EnterFailsLate ==
  /\ dispatch = "enter"
  /\ callbacks' = Append(callbacks, serving)
  /\ result' = "error"
  /\ dispatch' = "reply"
  /\ UNCHANGED <<clientVars, netVars, serving, signalled, events, em, emIndex>>

(* StoppedThread.__enter__: the thread is not known; validate raises before *)
(* any callback is added, and the error is the answer.                     *)
EnterFails ==
  /\ dispatch = "enter"
  /\ result' = "error"
  /\ dispatch' = "reply"
  /\ UNCHANGED <<clientVars, netVars, serving, signalled, emVars>>

(* Mutant: the wait gives up after a while. *)
WakeEarly ==
  /\ dispatch = "waiting"
  /\ dispatch' = "body"
  /\ UNCHANGED <<clientVars, netVars, serving, result, signalled, emVars>>

(* stoppedAtBreakpoint.wait() returns. *)
Wake ==
  /\ dispatch = "waiting"
  /\ signalled
  /\ dispatch' = "body"
  /\ UNCHANGED <<clientVars, netVars, serving, result, signalled, emVars>>

(* The body of the with statement reads the stack, or raises. *)
InspectStack ==
  /\ dispatch = "body"
  /\ result' \in {"ok", "error"}
  /\ dispatch' = "exit"
  /\ UNCHANGED <<clientVars, netVars, serving, signalled, emVars>>

(* Mutant: the program is not continued when the body raised. *)
ExitStopOnSuccess ==
  /\ dispatch = "exit"
  /\ IF result = "ok" THEN Continue ELSE UNCHANGED <<process, pc>>
  /\ dispatch' = "reply"
  /\ UNCHANGED <<callVars, netVars, serving, result, signalled, emVars>>

(* Mutant: the answer is sent from within the with statement. *)
ExitStopAnswered ==
  /\ dispatch = "exit"
  /\ Continue
  /\ reply' = [reply EXCEPT ![serving] = result]
  /\ dispatch' = "reply"
  /\ UNCHANGED <<callVars, requests, serving, result, signalled, emVars>>

(* Mutant: the program is not continued at all. *)
ExitStopNever ==
  /\ dispatch = "exit"
  /\ dispatch' = "reply"
  /\ UNCHANGED <<clientVars, netVars, serving, result, signalled, emVars>>

(* StoppedThread.__exit__ continues the program, whatever the body did. *)
ExitStop ==
  /\ dispatch = "exit"
  /\ Continue
  /\ dispatch' = "reply"
  /\ UNCHANGED <<callVars, netVars, serving, result, signalled, emVars>>

(* The answer is sent. *)
SendReply ==
  /\ dispatch = "reply"
  /\ reply' = [reply EXCEPT ![serving] = result]
  /\ dispatch' = "idle"
  /\ serving' = NoRequest
  /\ result' = "none"
  /\ UNCHANGED <<clientVars, requests, signalled, emVars>>

-----------------------------------------------------------------------------
(* The event thread. *)

(* Mutant: the event is looked at and left in the listener's queue. *)
ReceiveStopAgain ==
  /\ em = "wait"
  /\ events > 0
  /\ em' = IF callbacks # <<>> THEN "loop" ELSE "resume"
  /\ emIndex' = 0
  /\ UNCHANGED <<clientVars, netVars, serverVars, events, callbacks>>

(* Mutant: a stop without a callback is left alone. *)
ReceiveStopOnly ==
  /\ em = "wait"
  /\ events > 0
  /\ events' = events - 1
  /\ em' = IF callbacks # <<>> THEN "loop" ELSE "wait"
  /\ emIndex' = 0
  /\ UNCHANGED <<clientVars, netVars, serverVars, callbacks>>

(* A stop is received: go through the callbacks, or, if there are none,    *)
(* take it for an unexpected stop.                                         *)
ReceiveStop ==
  /\ em = "wait"
  /\ events > 0
  /\ events' = events - 1
  /\ em' = IF callbacks # <<>> THEN "loop" ELSE "resume"
  /\ emIndex' = 0
  /\ UNCHANGED <<clientVars, netVars, serverVars, callbacks>>

(* An unexpected stop is continued. *)
ResumeUnexpected ==
  /\ em = "resume"
  /\ Continue
  /\ em' = "wait"
  /\ UNCHANGED <<callVars, netVars, serverVars, events, callbacks, emIndex>>

(* Mutant: any stop will do. *)
CallbackSignalsAlways ==
  /\ em = "loop"
  /\ emIndex < Len(callbacks)
  /\ process = "stopped"
  /\ signalled' = TRUE
  /\ em' = "remove"
  /\ UNCHANGED <<clientVars, netVars, dispatch, serving, result,
                 events, callbacks, emIndex>>

(* Mutant: it removes itself without setting the event. *)
CallbackForgets ==
  /\ em = "loop"
  /\ emIndex < Len(callbacks)
  /\ StoppedAtBreakpoint(callbacks[emIndex + 1])
  /\ em' = "remove"
  /\ UNCHANGED <<clientVars, netVars, serverVars, events, callbacks, emIndex>>

(* The next callback finds its thread at the breakpoint and sets its event *)
(* before it removes itself.                                               *)
CallbackSignals ==
  /\ em = "loop"
  /\ emIndex < Len(callbacks)
  /\ StoppedAtBreakpoint(callbacks[emIndex + 1])
  /\ signalled' = TRUE
  /\ em' = "remove"
  /\ UNCHANGED <<clientVars, netVars, dispatch, serving, result,
                 events, callbacks, emIndex>>

(* The next callback finds that the stop is not its own. *)
CallbackIgnores ==
  /\ em = "loop"
  /\ emIndex < Len(callbacks)
  /\ ~StoppedAtBreakpoint(callbacks[emIndex + 1])
  /\ emIndex' = emIndex + 1
  /\ UNCHANGED <<clientVars, netVars, serverVars, events, callbacks, em>>

(* removeCallback, in the middle of the loop over the same list. *)
RemoveCallback ==
  /\ em = "remove"
  /\ callbacks' = SubSeq(callbacks, 1, emIndex)
                    \o SubSeq(callbacks, emIndex + 2, Len(callbacks))
  /\ emIndex' = emIndex + 1
  /\ em' = "loop"
  /\ UNCHANGED <<clientVars, netVars, serverVars, events>>

(* Mutant: every stop is continued once its callbacks have run. *)
EndLoopResumes ==
  /\ em = "loop"
  /\ emIndex >= Len(callbacks)
  /\ em' = "resume"
  /\ emIndex' = 0
  /\ UNCHANGED <<clientVars, netVars, serverVars, events, callbacks>>

(* The loop is over and the event thread waits for the next event. *)
EndLoop ==
  /\ em = "loop"
  /\ emIndex >= Len(callbacks)
  /\ em' = "wait"
  /\ emIndex' = 0
  /\ UNCHANGED <<clientVars, netVars, serverVars, events, callbacks>>

-----------------------------------------------------------------------------
ClientMoves(t) ==
  \/ AssertHolds(t)
  \/ AssertFails(t)
  \/ BeginGetType(t)
  \/ StoreArp(t)
  \/ EndGetType(t)
  \/ TakeType(t)
  \/ ClearArp(t)
  \/ QueryTypeId(t)
  \/ EndBacktrace(t)
  \/ EndOther(t)

ClientCalls(t) ==
  \/ EnterGetType(t)
  \/ \E o \in {"backtrace", "members"} : BeginStop(t, o)
  \/ BeginQuery(t)
  \/ BeginFails(t)

DispatchThread ==
  \/ Dispatch
  \/ EnterStop
  \/ EnterFails
  \/ Wake
  \/ InspectStack
  \/ ExitStop
  \/ SendReply

EventThread ==
  \/ ReceiveStop
  \/ ResumeUnexpected
  \/ CallbackSignals
  \/ CallbackIgnores
  \/ RemoveCallback
  \/ EndLoop

Next ==
  \/ \E t \in Threads : ClientMoves(t) \/ ClientCalls(t) \/ RaceOnArp(t)
  \/ \E S \in SUBSET Threads : HitBreakpoint(S)
  \/ DispatchThread
  \/ EventThread

Spec == Init /\ [][Next]_vars

(* The scheduler runs every thread that can run, on both sides; nothing    *)
(* obliges a thread to make another call.                                  *)
Fairness ==
  /\ \A t \in Threads :
       /\ WF_vars(ClientMoves(t))
       /\ WF_vars(\E S \in SUBSET Threads : t \in S /\ HitBreakpoint(S))
  /\ WF_vars(DispatchThread)
  /\ WF_vars(EventThread)

FairSpec == Spec /\ Fairness

-----------------------------------------------------------------------------
(* PROPERTIES *)

(* The variables have their types.  In particular at most one stop waits   *)
(* to be received (the program does not run, and so does not stop again,   *)
(* before one is), and the loop of onEvent over a list that callbacks      *)
(* shorten and __enter__ lengthens never gets beyond its first callback.   *)
TypeOK ==
  /\ process \in {"running", "stopped", "aborted"}
  /\ pc \in [Threads -> Locations]
  /\ op \in [Requests -> Ops]
  /\ sent \in [Threads -> 0..2 * MaxCalls]
  /\ calls \in [Threads -> 0..MaxCalls]
  /\ arp \in Requests \cup {NoRequest}
  /\ ending \in [Threads -> Requests \cup {NoRequest}]
  /\ requests \in Seq(Requests)
  /\ reply \in [Requests -> {"none", "ok", "error", "taken"}]
  /\ dispatch \in {"idle", "enter", "waiting", "body", "exit", "reply"}
  /\ serving \in Requests \cup {NoRequest}
  /\ result \in {"none", "ok", "error"}
  /\ signalled \in BOOLEAN
  /\ events \in {0, 1}
  /\ callbacks \in Seq(Requests)
  /\ em \in {"wait", "loop", "remove", "resume"}
  /\ emIndex \in {0, 1}

(* While the dispatch thread reads a stack and until it has continued the  *)
(* program, the program is stopped and the thread it serves is at the      *)
(* breakpoint: nobody else resumes the program under it (debugger_impl.py  *)
(* getTypeByVariableName, getBacktrace and stopped_thread.py __exit__).    *)
InspectsHaltedThread ==
  dispatch \in {"body", "exit"} =>
    /\ process = "stopped"
    /\ serving \in Requests
    /\ pc[Of(serving)] = "halted"

(* Handlers in the list of callbacks are exactly the one being removed and *)
(* the one whose StoppedThread still waits: no callback survives its call  *)
(* (lldb_em.py addCallback, removeCallback; stopped_thread.py __enter__).  *)
CallbackWaits == dispatch = "waiting" /\ ~signalled
CallbacksMatchWaiters ==
  LET waiting == IF CallbackWaits THEN <<serving>> ELSE <<>>
  IN  IF em = "remove"
      THEN callbacks # <<>> /\ Tail(callbacks) = waiting
      ELSE callbacks = waiting

(* Who is going to let a stopped program go. *)
ResumedByHandler == dispatch \in {"body", "exit"}
                      \/ (dispatch = "waiting" /\ signalled)
ResumedByEventThread == em = "resume"
StopNotSeen == events > 0 \/ (em = "loop" /\ emIndex = 0)

(* A stop has at most one owner: it is still to be seen by the event       *)
(* thread, or the event thread resumes it, or a woken handler does, and    *)
(* there is an owner only while the program is stopped (lldb_em.py         *)
(* onEvent; stopped_thread.py __exit__).                                   *)
OneResumer ==
  /\ ResumedByHandler \/ ResumedByEventThread \/ StopNotSeen
       => process = "stopped"
  /\ ~(ResumedByHandler /\ ResumedByEventThread)
  /\ ~(ResumedByHandler /\ StopNotSeen)
  /\ ~(ResumedByEventThread /\ StopNotSeen)

(* A stop has an owner, so the program is not left standing - as long as   *)
(* one thread at a time uses the library (MaxInFlight = 1): the event      *)
(* thread continues a stop no callback is registered for (lldb_em.py       *)
(* onEvent), and no callback is registered for another thread's stop.      *)
NoOrphanStop ==
  process = "stopped" =>
    ResumedByHandler \/ ResumedByEventThread \/ StopNotSeen

(* Request r has an answer, delivered or prepared. *)
Has(r, answer) ==
  \/ reply[r] = answer
  \/ serving = r /\ dispatch = "reply" /\ result = answer

(* Each request that was sent is in one place: queued, in service, or      *)
(* answered.  No two threads wait for the answer of one request, nor is an *)
(* answer taken twice; and while a thread may wait for the request of      *)
(* another, it does so in get_type only and for a get_type's request: who  *)
(* asks anything else finds its own answer untouched (ruminate.cpp         *)
(* begin_ and end_ calls, ruminate->arp; array_type.cpp).                  *)
Sent(r)   == r[2] <= sent[Of(r)]
Queued(r) == \E i \in 1..Len(requests) : requests[i] = r
OwnsAnswer(t) ==
  /\ pc[t] \in {"trap", "halted", "end"}
  /\ op[Latest(t)] # "type"
OneAnswerPerRequest ==
  /\ \A i, j \in 1..Len(requests) : requests[i] = requests[j] => i = j
  /\ \A r \in Requests :
       /\ Queued(r) => serving # r /\ reply[r] = "none"
       /\ serving = r => reply[r] = "none"
       /\ Sent(r) <=> (Queued(r) \/ serving = r \/ reply[r] # "none")
  /\ \A t \in Threads :
       /\ OwnsAnswer(t) => reply[Latest(t)] # "taken"
       /\ pc[t] = "await" => /\ Sent(ending[t])
                             /\ op[ending[t]] = "type"
                             /\ reply[ending[t]] # "taken"
       /\ \A u \in Threads :
            pc[t] = "await" /\ pc[u] = "await" /\ ending[t] = ending[u] => t = u

(* An answer read from a stack is there only once the thread that asked    *)
(* for it has been continued past the breakpoint (stopped_thread.py        *)
(* __exit__ comes before the answer is sent).                              *)
AnswerAfterBreakpoint ==
  \A t \in Threads :
    pc[t] \in {"store", "trap", "halted"} => ~Has(Latest(t), "ok")

(* The rendezvous implements StopTheWorld: the stack of a thread is read   *)
(* for its own request, while no thread of the program moves.              *)
Phase(r) ==
  CASE ~Sent(r) -> "new"
    [] Sent(r) /\ reply[r] = "taken" -> "done"
    [] Sent(r) /\ Has(r, "ok")    -> "answered"
    [] Sent(r) /\ Has(r, "error") -> "refused"
    [] OTHER -> IF op[r] = "query" THEN "query" ELSE "stack"

STW == INSTANCE StopTheWorld
         WITH phase     <- [r \in Requests |-> Phase(r)],
              inspected <- IF dispatch \in {"body", "exit"}
                           THEN serving ELSE NoRequest,
              alive     <- process # "aborted"

StopsTheWorld == STW!AbsSpec

(* A stopped program is resumed (same condition as NoOrphanStop).          *)
StopResumed == process = "stopped" ~> process # "stopped"

(* A call whose callback is registered before its thread reaches the       *)
(* breakpoint returns, unless the program aborts (debugger_impl.py         *)
(* getTypeByVariableName, getBacktrace; ruminate.cpp end_ calls).          *)
InTimeCallReturns ==
  \A t \in Threads :
    (dispatch = "waiting" /\ serving = Latest(t) /\ pc[t] = "trap")
      ~> (pc[t] = "idle" \/ process = "aborted")

(* "@return A pointer to an RType or NULL if an error occurred": a call    *)
(* returns (include/ruminate/ruminate.h).  It need not: the stop may be    *)
(* seen before the callback for it is registered.                          *)
CallReturns ==
  \A t \in Threads :
    pc[t] # "idle" ~> (pc[t] = "idle" \/ process = "aborted")

(* The assertion of ruminate_get_type_by_variable_name holds whenever a    *)
(* thread reaches it.  It does not after a get_type that failed.           *)
ArpAssertion == \A t \in Threads : pc[t] = "assert" => arp = NoRequest
===============================================================================
