----------------------------- MODULE StopTheWorld -----------------------------
(***************************************************************************)
(* What the debugger controller promises the threads of the program it     *)
(* debugs, without the sockets, callbacks and breakpoints it does it with. *)
(*                                                                         *)
(* A thread asks, either a query or for something read from its own stack. *)
(* The controller inspects one stack at a time, for one request, and the   *)
(* whole program stands still meanwhile; nothing read from a stack is the  *)
(* answer to a request unless a stack was inspected for that very request. *)
(* A request is asked once and its answer is taken at most once.           *)
(***************************************************************************)

CONSTANTS
  Requests,  (* what the threads of the debugged program may ask *)
  NoRequest  (* "nobody is being inspected"                      *)

VARIABLES
  phase,     (* how far each request is                          *)
  inspected, (* the request for which a stack is being read      *)
  alive      (* FALSE once the program has aborted               *)

absVars == <<phase, inspected, alive>>

Asking   == {"query", "stack"}
Answered == {"answered", "refused"}

AbsTypeOK ==
  /\ phase \in [Requests -> {"new", "done"} \cup Asking \cup Answered]
  /\ inspected \in Requests \cup {NoRequest}
  /\ alive \in BOOLEAN

AbsInit ==
  /\ phase = [r \in Requests |-> "new"]
  /\ inspected = NoRequest
  /\ alive = TRUE

(* The program moves only while nobody is being inspected. *)
ProgramMoves == alive /\ inspected = NoRequest

(* A thread asks. *)
Ask(r, kind) ==
  /\ ProgramMoves
  /\ phase[r] = "new"
  /\ phase' = [phase EXCEPT ![r] = kind]
  /\ UNCHANGED <<inspected, alive>>

(* The program stands still and the controller looks at the stack for r. *)
Inspect(r) ==
  /\ phase[r] = "stack"
  /\ ProgramMoves
  /\ inspected' = r
  /\ UNCHANGED <<phase, alive>>

(* The program is let go with the answer to r decided. *)
Release(r, answer) ==
  /\ inspected = r
  /\ inspected' = NoRequest
  /\ phase' = [phase EXCEPT ![r] = answer]
  /\ UNCHANGED alive

(* A query is answered; a look at the stack can only be refused this way. *)
AnswerUninspected(r, answer) ==
  /\ inspected = NoRequest
  /\ phase[r] = "query" \/ (phase[r] = "stack" /\ answer = "refused")
  /\ phase' = [phase EXCEPT ![r] = answer]
  /\ UNCHANGED <<inspected, alive>>

(* The answer is taken. *)
Take(r) ==
  /\ ProgramMoves
  /\ phase[r] \in Answered
  /\ phase' = [phase EXCEPT ![r] = "done"]
  /\ UNCHANGED <<inspected, alive>>

(* The program aborts; nobody is being inspected at that moment. *)
Abort ==
  /\ ProgramMoves
  /\ alive' = FALSE
  /\ UNCHANGED <<phase, inspected>>

AbsNext ==
  \/ \E r \in Requests :
       \/ \E kind \in Asking : Ask(r, kind)
       \/ Inspect(r)
       \/ \E answer \in Answered :
            Release(r, answer) \/ AnswerUninspected(r, answer)
       \/ Take(r)
  \/ Abort

AbsSpec == AbsInit /\ [][AbsNext]_absVars
===============================================================================
