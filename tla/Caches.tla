--------------------------------- MODULE Caches ---------------------------------
(***************************************************************************)
(* Answers of the controller that the library keeps as values: the size of *)
(* a type, the members of an aggregate and the elements of an array, the   *)
(* value of an enumerator; and the quark of a string, kept alike.  Each    *)
(* has a flag that says whether it is there, and no lock: the check of the *)
(* flag, the requests, each store of a part of the value, the store of the *)
(* flag and the final read are steps of their own.  Stores are seen in     *)
(* program order.                                                          *)
(*                                                                         *)
(* The names and types kept as objects are in module References.           *)
(***************************************************************************)
EXTENDS Naturals, Sequences

CONSTANTS
  Threads,       (* threads of the program, which share the objects        *)
  Facts,         (* the kept values, of one object each                    *)
  VectorsShared  (* whether several threads may make the first use of a    *)
                 (* list of members at the same time                       *)

AllFacts == {"size", "quark", "value", "members", "elements"}

ASSUME CachesAssumption == Facts \subseteq AllFacts /\ VectorsShared \in BOOLEAN

VARIABLES
  kept,   (* the parts of each value that have been stored                 *)
  marked, (* the facts whose flag is set: initialized, members_init, valid *)
  about,  (* the fact a thread's last getter is about                      *)
  todo,   (* the steps its getter has still to make                        *)
  got     (* how it ended: "none", "right", "wrong", "failed"              *)

cacheVars == <<kept, marked, about, todo, got>>

(* What a value consists of. *)
Parts(f) == IF f = "value" THEN {"type", "value"} ELSE {"value"}

(* The steps of each getter when the flag is not set.  The elements of an  *)
(* array take two requests, around a breakpoint; an enumerator asks for    *)
(* its type, whether that is signed, and the value.  Assigning a vector    *)
(* first loses what was there.                                             *)
FillSize == <<"ask", "value", "mark", "read">>
FillQuark == <<"value", "mark", "read">>
FillMembers == <<"ask", "clear", "value", "mark", "read">>
FillElements == <<"ask", "ask", "clear", "value", "mark", "read">>

FillValue == <<"ask", "ask", "ask", "type", "value", "mark", "read">>

Fill(f) ==
  CASE f = "size"     -> FillSize
    [] f = "quark"    -> FillQuark
    [] f = "members"  -> FillMembers
    [] f = "elements" -> FillElements
    [] f = "value"    -> FillValue

Vectors == {"members", "elements"}

CachesInit ==
  /\ kept = [f \in Facts |-> {}]
  /\ marked = {}
  /\ about \in [Threads -> Facts]
  /\ todo = [t \in Threads |-> <<>>]
  /\ got = [t \in Threads |-> "none"]

-----------------------------------------------------------------------------
Idle(t) == todo[t] = <<>>
Next1(t) == Head(todo[t])

(* The rule for lists of members, whose assignment is not atomic. *)
MayUse(t, f) ==
  \/ VectorsShared \/ f \notin Vectors \/ f \in marked
  \/ \A u \in Threads \ {t} : Idle(u) \/ about[u] # f

(* Thread t calls the getter of f, which looks at the flag. *)
Get(t, f) ==
  /\ Idle(t) /\ MayUse(t, f)
  /\ about' = [about EXCEPT ![t] = f]
  /\ todo' = [todo EXCEPT ![t] = IF f \in marked THEN <<"read">> ELSE Fill(f)]
  /\ got' = [got EXCEPT ![t] = "none"]
  /\ UNCHANGED <<kept, marked>>

(* Mutant: a getter that fails throws away what is there by now. *)
AskClears(t) ==
  /\ ~Idle(t) /\ Next1(t) = "ask"
  /\ \/ todo' = [todo EXCEPT ![t] = Tail(@)] /\ UNCHANGED <<got, kept>>
     \/ /\ todo' = [todo EXCEPT ![t] = <<>>]
        /\ got' = [got EXCEPT ![t] = "failed"]
        /\ kept' = [kept EXCEPT ![about[t]] = {}]
  /\ UNCHANGED <<marked, about>>

(* A request, and the exceptions it ends with made a GError. *)
Ask(t) ==
  /\ ~Idle(t) /\ Next1(t) = "ask"
  /\ \/ todo' = [todo EXCEPT ![t] = Tail(@)] /\ UNCHANGED got
     \/ /\ todo' = [todo EXCEPT ![t] = <<>>]
        /\ got' = [got EXCEPT ![t] = "failed"]
  /\ UNCHANGED <<kept, marked, about>>

(* A part of the value is stored, or the old vector goes. *)
Store(t) ==
  /\ ~Idle(t) /\ Next1(t) \in {"type", "value", "clear"}
  /\ kept' = [kept EXCEPT ![about[t]] =
                IF Next1(t) = "clear" THEN {} ELSE @ \cup {Next1(t)}]
  /\ todo' = [todo EXCEPT ![t] = Tail(@)]
  /\ UNCHANGED <<marked, about, got>>

Mark(t) ==
  /\ ~Idle(t) /\ Next1(t) = "mark"
  /\ marked' = marked \cup {about[t]}
  /\ todo' = [todo EXCEPT ![t] = Tail(@)]
  /\ UNCHANGED <<kept, about, got>>

(* What is returned is read from the object again. *)
Read(t) ==
  /\ ~Idle(t) /\ Next1(t) = "read"
  /\ got' = [got EXCEPT ![t] = IF kept[about[t]] = Parts(about[t])
                               THEN "right" ELSE "wrong"]
  /\ todo' = [todo EXCEPT ![t] = <<>>]
  /\ UNCHANGED <<kept, marked, about>>

Getting(t) == Ask(t) \/ Store(t) \/ Mark(t) \/ Read(t)

-----------------------------------------------------------------------------
CachesTypeOK ==
  /\ kept \in [Facts -> SUBSET {"type", "value"}]
  /\ marked \subseteq Facts
  /\ about \in [Threads -> Facts]
  /\ todo \in [Threads -> Seq({"ask", "clear", "type", "value", "mark", "read"})]
  /\ got \in [Threads -> {"none", "right", "wrong", "failed"}]

(* A getter returns what the controller answered, also when another thread *)
(* fills the same cache meanwhile: never a part of it, and never what was  *)
(* there before (r_type_size, r_string_quark, r_enum_member_value_signed,  *)
(* r_aggregate_type_nmembers, r_array_type_size).                          *)
AnswersRight == \A t \in Threads : got[t] # "wrong"

(* How far the call of t is, as the abstract object sees it. *)
Progress(t) ==
  CASE ~Idle(t) /\ Len(todo[t]) > 1  -> "open"
    [] ~Idle(t) /\ todo[t] = <<"read">> -> "sure"
    [] Idle(t) -> CASE got[t] = "right"  -> "answered"
                    [] got[t] = "none"   -> "none"
                    [] OTHER             -> got[t]

Kept == INSTANCE Oracle
          WITH known <- marked, call <- [t \in Threads |-> Progress(t)]

(* To its callers a kept value is the controller itself, until it is known *)
(* and nothing can fail any more: a failure is not remembered and a        *)
(* success not forgotten.                                                  *)
KeepsAnswers == Kept!Spec
================================================================================
