--------------------------------- MODULE Oracle ---------------------------------
(***************************************************************************)
(* What a getter of the library promises about an answer of the controller *)
(* that it keeps: a call returns the answer or fails, and once the answer  *)
(* is known no call that begins later fails.                               *)
(***************************************************************************)
CONSTANTS
  Threads, (* threads of the program                                       *)
  Facts    (* what the controller can be asked                             *)

VARIABLES
  known, (* the facts that need not be asked any more                      *)
  about, (* the fact a thread's last call is about                         *)
  call   (* how far it is: "none", "open", "sure", "answered", "failed"    *)

vars == <<known, about, call>>

Init ==
  /\ known = {}
  /\ about \in [Threads -> Facts]
  /\ call = [t \in Threads |-> "none"]

(* A call of t about f; it may still fail unless f is known. *)
Begin(t) ==
  /\ call[t] \notin {"open", "sure"}
  /\ \E f \in Facts :
       /\ about' = [about EXCEPT ![t] = f]
       /\ call' = [call EXCEPT ![t] = IF f \in known THEN "sure" ELSE "open"]
  /\ UNCHANGED known

Learn(t) ==
  /\ call[t] = "open"
  /\ known' = known \cup {about[t]}
  /\ call' = [call EXCEPT ![t] = "sure"]
  /\ UNCHANGED about

Fail(t) ==
  /\ call[t] = "open"
  /\ call' = [call EXCEPT ![t] = "failed"]
  /\ UNCHANGED <<known, about>>

Answer(t) ==
  /\ call[t] = "sure"
  /\ call' = [call EXCEPT ![t] = "answered"]
  /\ UNCHANGED <<known, about>>

Next == \E t \in Threads : Begin(t) \/ Learn(t) \/ Fail(t) \/ Answer(t)

Spec == Init /\ [][Next]_vars
================================================================================
