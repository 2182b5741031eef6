-------------------------------- MODULE Cleanup --------------------------------
(***************************************************************************)
(* What calls of the library and of the codec hold on to.  A function      *)
(* takes references one after the other; every request in between may      *)
(* fail, and then a ladder of labels drops what has been taken so far.     *)
(* The functions call each other along the type of a value, to any depth.  *)
(*                                                                         *)
(* Each function is a list of steps.  A stack of frames executes it; a     *)
(* frame has the references it must still drop or return.  Values, names   *)
(* and sizes do not matter here: a branch on them may go either way.       *)
(***************************************************************************)
EXTENDS Naturals, Sequences, FiniteSets

CONSTANTS
  MaxTurns, (* bound: turns of a loop                                      *)
  MaxDepth  (* bound: frames, from which on values have no parts           *)

ASSUME CleanupAssumption == MaxTurns \in Nat \ {0} /\ MaxDepth \in Nat \ {0}

VARIABLES
  frames, (* the functions that are running, the innermost first           *)
  failed, (* what has failed in the call: requests, hooks of the program   *)
  last,   (* how a function has just returned                              *)
  fault   (* why the process has stopped                                   *)

vars == <<frames, failed, last, fault>>

Kinds == {"memory", "member", "string", "type", "types", "json", "state"}

-----------------------------------------------------------------------------
(* STEPS *)

(* A request of the controller, or an allocation that needs one: gives one *)
(* k, or fails and the ladder ks is left by.  "none" stands for no         *)
(* reference; a ladder <<"null">> for a result that is used without a look *)
(* at it, and <<"assert">> for an assertion that it was had.               *)
Ask(k, ks)    == [op |-> "ask", k |-> k, ks |-> ks]
Make(k)       == [op |-> "make", k |-> k]
(* A hook of the program, which may decline, or fail with an error.        *)
Hook(to)      == [op |-> "hook", to |-> to]
(* One of the functions is called, for a k; nothing is looked at.          *)
Run(fns, k)   == [op |-> "run", fns |-> fns, k |-> k]
(* One of the functions is called and its result returned.                 *)
Tail_(fns)    == [op |-> "tail", fns |-> fns]
(* If there is an error, or no k - or none besides one that was there      *)
(* before - the ladder is left by.                                         *)
Check(ks)     == [op |-> "check", ks |-> ks]
IfNone(k, ks) == [op |-> "none", k |-> k, n |-> 1, ks |-> ks]
IfOne(k, ks)  == [op |-> "none", k |-> k, n |-> 2, ks |-> ks]
Drop(ks)      == [op |-> "drop", ks |-> ks]
(* The k, if there is one, becomes part of the value.                      *)
Give(k)       == [op |-> "give", k |-> k]
Either(to)    == [op |-> "either", to |-> to]
Loop(to)      == [op |-> "loop", to |-> to]
Back(to)      == [op |-> "back", to |-> to]
Return(k)     == [op |-> "return", k |-> k]
(* An assertion that the value decides.                                    *)
Stop          == [op |-> "stop"]

-----------------------------------------------------------------------------
(* THE LIBRARY *)

(* r_type_member_type refers to a type it could not make. *)
MemberType == <<
  Either(5),
  Ask("none", <<>>), Ask("type", <<"null">>), Return("type"),
  Make("type"), Return("type")>>

(* Mutant: the label that drops the type is missed. *)
EnumValueSkips == <<
  Either(3), Return("none"),
  Run({"r_type_member_type"}, "type"), Check(<<>>),
  Either(9),
  Ask("none", <<>>), Ask("none", <<"type">>), Return("none"),
  Stop>>

(* ensure_value_init: that the type is a builtin is asserted; isSigned and *)
(* the value; the type is kept.                                            *)
EnumValue == <<
  Either(3), Return("none"),
  Run({"r_type_member_type"}, "type"), Check(<<>>),
  Either(9),
  Ask("none", <<"type">>), Ask("none", <<"type">>), Return("none"),
  Stop>>

(* nmembers; then the member at i and its name, until it is the one. *)
MemberByName == <<
  Ask("none", <<>>),
  Loop(9),
  Ask("member", <<>>),
  Ask("string", <<"member">>), Drop(<<"string">>),
  Either(10),
  Drop(<<"member">>), Back(2),
  Return("none"),
  Return("member")>>

(* ruminate_get_types_by_name: a list, to which each type is given. *)
TypesByName == <<
  Ask("none", <<>>),
  Make("types"),
  Loop(7),
  Ask("type", <<"types">>), Give("type"), Back(3),
  Return("types")>>

(* r_mem_malloc: a type for the pointer, the pointee, and memory of that.  *)
(* On success the pointee is kept.                                         *)
MallocSized == <<
  Ask("type", <<>>),
  Ask("type", <<"type">>),
  Ask("memory", <<"type", "type">>),
  Drop(<<"type">>),
  Return("memory")>>

-----------------------------------------------------------------------------
(* FROM A VALUE TO JSON *)

(* The state is one made here, because none was given. *)
Serialize == <<
  Make("state"),
  Run({"_json_serialize"}, "json"), IfNone("json", <<"state">>),
  Either(9),
  Ask("string", <<"json", "state">>),
  Make("json"), Make("json"), Drop(<<"string">>),
  Drop(<<"state">>),
  Return("json")>>

(* The name is used whether or not it was had.  A hook that fails is taken *)
(* for one that declines.                                                  *)
SerializeAny == <<
  Either(3), Return("none"),
  Ask("string", <<"null">>), Drop(<<"string">>),
  Hook(8), Make("json"), Return("json"),
  Tail_({"json_serialize_builtin", "json_serialize_pointer",
         "json_serialize_aggregate", "json_serialize_array"})>>

(* void is left out with JSON_FLAG_SKIP_UNKNOWN, and an assertion without. *)
SerializeBuiltin == <<
  Either(4), Make("json"), Return("json"),
  Either(6), Return("none"),
  Stop>>

(* So are a union and a function. *)
SerializeAggregate == <<
  Either(3), Tail_({"json_serialize_struct", "json_serialize_enum"}),
  Either(5), Return("none"),
  Stop>>

(* Mutant: null for what could not be had, as in an array. *)
SerializePointerNull == <<
  Either(6),
  Ask("type", <<"null">>),
  Run({"_json_serialize"}, "json"), Give("json"),
  Drop(<<"type">>),
  Make("json"), Return("json")>>

(* A pointer or a typedef: the pointee, or the canonical type. *)
SerializePointer == <<
  Either(6),
  Ask("type", <<"null">>),
  Run({"_json_serialize"}, "json"),
  Drop(<<"type">>), Return("json"),
  Make("json"), Return("json")>>

(* Mutant: no look at the error after a member. *)
SerializeStructGoesOn == <<
  Make("json"),
  Ask("none", <<"json">>),
  Loop(9),
  Ask("member", <<"json">>),
  Ask("none", <<"member", "json">>),
  Run({"json_serialize_struct_member"}, "none"),
  Drop(<<"member">>), Back(3),
  Either(11), Drop(<<"json">>),
  Return("json")>>

(* An object without members is dropped. *)
SerializeStruct == <<
  Make("json"),
  Ask("none", <<"json">>),
  Loop(10),
  Ask("member", <<"json">>),
  Ask("none", <<"member", "json">>),
  Run({"json_serialize_struct_member"}, "none"), Check(<<"member", "json">>),
  Drop(<<"member">>), Back(3),
  Either(12), Drop(<<"json">>),
  Return("json")>>

(* The object takes a reference of its own to the JSON of a member, and is *)
(* asserted to take it: not under a name that is no UTF-8.                 *)
SerializeStructMember == <<
  Run({"r_type_member_type"}, "type"), Check(<<>>),
  Run({"_json_serialize"}, "json"), Check(<<"type">>), IfNone("json", <<"type">>),
  Ask("string", <<"json", "type">>),
  Either(10),
  Drop(<<"string", "type">>),
  Return("none"),
  Stop>>

(* The type of an enumerator is taken for a builtin; if that is void, then *)
(* nothing comes of it, or an assertion.  The loop is left with the        *)
(* enumerator that was found.                                              *)
SerializeEnum == <<
  Ask("none", <<>>),
  Loop(15),
  Ask("member", <<>>),
  Run({"r_type_member_type"}, "type"), Check(<<"member">>),
  Either(9),
  Either(15),
  Return("none"),
  Ask("none", <<"type", "member">>),
  Run({"ensure_value_init"}, "none"), Check(<<"type", "member">>),
  Either(16),
  Drop(<<"type", "member">>), Back(2),
  Stop,
  Make("json"), Return("json")>>

(* Mutant: a null is made for every element. *)
SerializeArrayNulls == <<
  Ask("none", <<>>),
  Make("json"),
  Loop(13),
  Ask("member", <<"json">>),
  Run({"r_type_member_type"}, "type"), Check(<<"member", "json">>),
  Ask("none", <<"type", "member", "json">>),
  Run({"_json_serialize"}, "json"), Check(<<"type", "member", "json">>),
  Make("json"), Drop(<<"type", "member">>), Back(3),
  Return("json")>>

(* The array takes a reference of its own to the JSON of an element. *)
SerializeArray == <<
  Ask("none", <<>>),
  Make("json"),
  Loop(12),
  Ask("member", <<"json">>),
  Run({"r_type_member_type"}, "type"), Check(<<"member", "json">>),
  Ask("none", <<"type", "member", "json">>),
  Run({"_json_serialize"}, "json"), Check(<<"type", "member", "json">>),
  Drop(<<"type", "member">>), Back(3),
  Return("json")>>

-----------------------------------------------------------------------------
(* FROM JSON TO A VALUE *)

(* The first of the types of that name is used, if there is one or not. *)
Deserialize == <<
  Make("state"),
  Run({"ruminate_get_types_by_name"}, "types"), IfNone("types", <<"state">>),
  Ask("none", <<"null">>),
  Run({"_json_deserialize"}, "memory"),
  Drop(<<"types", "state">>),
  Return("memory")>>

(* Nothing is had of an unknown type.  A hook returns what it likes; a     *)
(* typedef is asserted not to be there.                                    *)
DeserializeAny == <<
  Either(3), Return("none"),
  Ask("string", <<"null">>), Drop(<<"string">>),
  Either(8),
  Ask("memory", <<>>), Return("memory"),
  Either(10), Return("none"),
  Either(12), Stop,
  Tail_({"json_deserialize_builtin", "json_deserialize_pointer",
         "json_deserialize_aggregate", "json_deserialize_array"})>>

(* void is asserted not to be there. *)
DeserializeBuiltin == <<
  Either(4), Run({"_r_mem_malloc_sized"}, "memory"), Return("memory"),
  Stop>>

(* Nor a union or a function. *)
DeserializeAggregate == <<
  Either(3), Tail_({"json_deserialize_struct", "json_deserialize_enum"}),
  Stop>>

DeserializeEnum == <<Ask("memory", <<>>), Return("memory")>>

(* null, or the pointee, which the pointer then keeps alive. *)
DeserializePointer == <<
  Either(4),
  Ask("memory", <<>>), Return("memory"),
  Ask("type", <<"null">>),
  Run({"_json_deserialize"}, "memory"),
  Drop(<<"type">>), Give("memory"),
  Ask("memory", <<"null">>),
  Return("memory")>>

(* Mutant: the label above the one it should be. *)
DeserializeStructAbove == <<
  Ask("memory", <<>>),
  Ask("none", <<"memory">>),
  Loop(11),
  Ask("member", <<"memory">>),
  Ask("none", <<"member", "memory">>),
  Ask("string", <<"string", "member", "memory">>),
  Run({"json_deserialize_struct_member"}, "none"),
  Check(<<"string", "member", "memory">>),
  Drop(<<"member", "string">>), Back(3),
  Return("memory")>>

DeserializeStruct == <<
  Ask("memory", <<>>),
  Ask("none", <<"memory">>),
  Loop(11),
  Ask("member", <<"memory">>),
  Ask("none", <<"member", "memory">>),
  Ask("string", <<"member", "memory">>),
  Run({"json_deserialize_struct_member"}, "none"),
  Check(<<"string", "member", "memory">>),
  Drop(<<"member", "string">>), Back(3),
  Return("memory")>>

(* The value is copied, if there is one or not. *)
DeserializeStructMember == <<
  Run({"r_type_member_type"}, "type"), Check(<<>>),
  Run({"_json_deserialize"}, "memory"), Check(<<"type">>),
  Ask("none", <<"memory", "type">>),
  IfNone("memory", <<"null">>),
  Drop(<<"memory", "type">>),
  Return("none")>>

(* What the ladder drops as JSON is the borrowed element and the block;    *)
(* that the element has a size, and is there, is asserted.                 *)
DeserializeArray == <<
  Ask("none", <<>>),
  Ask("none", <<"assert">>),
  Ask("memory", <<"assert">>),
  Loop(15),
  Ask("member", <<"json">>),
  Run({"r_type_member_type"}, "type"), Check(<<"member", "json">>),
  Ask("none", <<"assert">>),
  Ask("none", <<"type", "member", "json">>),
  Run({"_json_deserialize"}, "memory"), Check(<<"json", "type", "member", "json">>),
  IfOne("memory", <<"null">>),
  Drop(<<"memory", "type", "member">>), Back(4),
  Return("memory")>>

-----------------------------------------------------------------------------
(* EXECUTION *)

Code == [
  r_type_member_type |-> MemberType,
  ensure_value_init |-> EnumValue,
  r_aggregate_type_member_by_name |-> MemberByName,
  ruminate_get_types_by_name |-> TypesByName,
  _r_mem_malloc_sized |-> MallocSized,
  json_serialize |-> Serialize,
  _json_serialize |-> SerializeAny,
  json_serialize_builtin |-> SerializeBuiltin,
  json_serialize_pointer |-> SerializePointer,
  json_serialize_aggregate |-> SerializeAggregate,
  json_serialize_struct |-> SerializeStruct,
  json_serialize_struct_member |-> SerializeStructMember,
  json_serialize_enum |-> SerializeEnum,
  json_serialize_array |-> SerializeArray,
  json_deserialize |-> Deserialize,
  _json_deserialize |-> DeserializeAny,
  json_deserialize_builtin |-> DeserializeBuiltin,
  json_deserialize_aggregate |-> DeserializeAggregate,
  json_deserialize_enum |-> DeserializeEnum,
  json_deserialize_pointer |-> DeserializePointer,
  json_deserialize_struct |-> DeserializeStruct,
  json_deserialize_struct_member |-> DeserializeStructMember,
  json_deserialize_array |-> DeserializeArray]

Functions == DOMAIN Code

(* What the program calls. *)
Roots == {"json_serialize", "json_deserialize", "ruminate_get_types_by_name",
          "_r_mem_malloc_sized", "r_aggregate_type_member_by_name",
          "ensure_value_init"}

(* Values without parts: among the aggregates, those of enums. *)
Flat == {"json_serialize_builtin", "json_serialize_aggregate", "json_serialize_enum",
         "json_deserialize_builtin", "json_deserialize_aggregate",
         "json_deserialize_enum"}

(* The functions with a GError of their own, which only a label passes on. *)
OwnError ==
  {"json_serialize_struct", "json_serialize_struct_member", "json_serialize_enum",
   "json_serialize_array", "json_deserialize_struct",
   "json_deserialize_struct_member", "json_deserialize_array", "ensure_value_init"}

NoReturn == [fn |-> "none"]
NoFault == [fn |-> "none", kind |-> "none"]
NoRefs == [k \in Kinds |-> 0]

(* err: a request or a call of this function has failed; old: the caller's *)
(* GError was set before.                                                  *)
Frame(fn) == [fn |-> fn, pc |-> 1, refs |-> NoRefs, turns |-> 0,
              err |-> FALSE, old |-> FALSE]

Init == frames = <<>> /\ failed = {} /\ last = NoReturn /\ fault = NoFault

Top == Head(frames)
Step == Code[Top.fn][Top.pc]

Next1(fr) == [fr EXCEPT !.pc = @ + 1]
With(fr, k) == IF k = "none" THEN fr ELSE [fr EXCEPT !.refs[k] = @ + 1]

Continue(fr) ==
  /\ frames' = <<fr>> \o Tail(frames)
  /\ last' = NoReturn
  /\ UNCHANGED fault

Faults(kind) ==
  /\ fault' = [fn |-> Top.fn, kind |-> kind]
  /\ last' = NoReturn
  /\ UNCHANGED frames

(* Fr returns a k, if it has one; the caller has it then.                  *)
Finish(fr, k, error) ==
  LET gives == k # "none" /\ fr.refs[k] > 0
      left  == IF gives THEN [fr.refs EXCEPT ![k] = @ - 1] ELSE fr.refs
      rest  == Tail(frames)
  IN /\ last' = [fn |-> fr.fn, gives |-> gives, error |-> error,
                 left |-> left, turns |-> fr.turns]
     /\ frames' = IF rest = <<>> THEN <<>>
                  ELSE <<[With(Head(rest), IF gives THEN k ELSE "none")
                           EXCEPT !.err = @ \/ error]>> \o Tail(rest)
     /\ UNCHANGED fault

Count(k, ks) == Cardinality({i \in DOMAIN ks : ks[i] = k})

(* The kinds in ks that fr does not have. *)
Missing(fr, ks) == {k \in {ks[i] : i \in DOMAIN ks} : fr.refs[k] < Count(k, ks)}

Without(fr, ks) == [fr EXCEPT !.refs = [k \in Kinds |-> @[k] - Count(k, ks)]]

Leave(fr, ks) ==
  IF ks \in {<<"null">>, <<"assert">>} THEN Faults(ks[1])
  ELSE IF Missing(fr, ks) # {} THEN Faults("drop")
  ELSE Finish(Without(fr, ks), "none", fr.err \/ fr.old)

-----------------------------------------------------------------------------
Running(op) == fault = NoFault /\ frames # <<>> /\ Step.op = op

Begin ==
  /\ fault = NoFault /\ frames = <<>>
  /\ \E fn \in Roots : frames' = <<Frame(fn)>>
  /\ failed' = {} /\ last' = NoReturn
  /\ UNCHANGED fault

DoAsk ==
  /\ Running("ask")
  /\ \/ Continue(Next1(With(Top, Step.k))) /\ UNCHANGED failed
     \/ /\ Leave([Top EXCEPT !.err = TRUE], Step.ks)
        /\ failed' = failed \cup {"request"}

DoMake ==
  /\ Running("make")
  /\ Continue(Next1(With(Top, Step.k)))
  /\ UNCHANGED failed

DoHook ==
  /\ Running("hook")
  /\ \/ Continue(Next1(Top)) /\ UNCHANGED failed
     \/ Continue([Top EXCEPT !.pc = Step.to]) /\ UNCHANGED failed
     \/ /\ Continue([Top EXCEPT !.pc = Step.to, !.err = TRUE])
        /\ failed' = failed \cup {"hook"}

(* The frame of the caller waits at the next step. *)
DoRun ==
  /\ Running("run")
  /\ \E fn \in Step.fns :
       frames' = <<Frame(fn), Next1(Top)>> \o Tail(frames)
  /\ last' = NoReturn
  /\ UNCHANGED <<failed, fault>>

DoTail ==
  /\ Running("tail")
  /\ \E fn \in IF Len(frames) < MaxDepth THEN Step.fns ELSE Step.fns \cap Flat :
       Continue([Frame(fn) EXCEPT !.old = Top.err \/ Top.old])
  /\ UNCHANGED failed

DoCheck ==
  /\ Running("check")
  /\ IF Top.err THEN Leave(Top, Step.ks) ELSE Continue(Next1(Top))
  /\ UNCHANGED failed

DoIfNone ==
  /\ Running("none")
  /\ IF Top.refs[Step.k] < Step.n THEN Leave(Top, Step.ks) ELSE Continue(Next1(Top))
  /\ UNCHANGED failed

DoDrop ==
  /\ Running("drop")
  /\ IF Missing(Top, Step.ks) # {} THEN Faults("drop")
     ELSE Continue(Next1(Without(Top, Step.ks)))
  /\ UNCHANGED failed

DoGive ==
  /\ Running("give")
  /\ Continue(Next1([Top EXCEPT !.refs[Step.k] = 0]))
  /\ UNCHANGED failed

DoBranch ==
  /\ \/ Running("either") /\ \E pc \in {Top.pc + 1, Step.to} :
                               Continue([Top EXCEPT !.pc = pc])
     \/ Running("loop") /\ Top.turns < MaxTurns /\ Continue(Next1(Top))
     \/ Running("loop") /\ Continue([Top EXCEPT !.pc = Step.to])
     \/ Running("back") /\ Continue([Top EXCEPT !.pc = Step.to, !.turns = @ + 1])
  /\ UNCHANGED failed

DoReturn ==
  /\ Running("return")
  /\ Finish(Top, Step.k, Top.old \/ (Top.err /\ Top.fn \notin OwnError))
  /\ UNCHANGED failed

DoStop == Running("stop") /\ Faults("assert") /\ UNCHANGED failed

Next ==
  \/ Begin \/ DoAsk \/ DoMake \/ DoHook \/ DoRun \/ DoTail \/ DoCheck \/ DoIfNone
  \/ DoDrop \/ DoGive \/ DoBranch \/ DoReturn \/ DoStop

Spec == Init /\ [][Next]_vars

-----------------------------------------------------------------------------
(* PROPERTIES *)

(* A function never holds more than one turn of its loops can leave it,    *)
(* and the frames are frames of the code, at a step of theirs.             *)
TypeOK ==
  /\ frames \in Seq([fn : Functions, pc : 1 .. 17, turns : 0 .. MaxTurns,
                     refs : [Kinds -> 0 .. MaxTurns + 2],
                     err : BOOLEAN, old : BOOLEAN])
  /\ \A i \in DOMAIN frames : frames[i].pc \in DOMAIN Code[frames[i].fn]
  /\ failed \subseteq {"request", "hook"}
  /\ fault \in {NoFault} \cup [fn : Functions, kind : {"null", "assert", "drop"}]

(* Where the code drops or uses what it has not got, or asserts that it    *)
(* has it.                                                                 *)
KnownFaults ==
  {<<"r_type_member_type", "null">>,
   <<"ensure_value_init", "assert">>,
   <<"_json_serialize", "null">>,
   <<"json_serialize_builtin", "assert">>,
   <<"json_serialize_pointer", "null">>,
   <<"json_serialize_aggregate", "assert">>,
   <<"json_serialize_struct_member", "assert">>,
   <<"json_serialize_enum", "assert">>,
   <<"json_deserialize", "null">>,
   <<"_json_deserialize", "null">>,
   <<"_json_deserialize", "assert">>,
   <<"json_deserialize_builtin", "assert">>,
   <<"json_deserialize_pointer", "null">>,
   <<"json_deserialize_aggregate", "assert">>,
   <<"json_deserialize_struct_member", "null">>,
   <<"json_deserialize_struct_member", "drop">>,
   <<"json_deserialize_array", "null">>,
   <<"json_deserialize_array", "assert">>,
   <<"json_deserialize_array", "drop">>}

(* However deep in a value a request fails, no label drops a reference     *)
(* that was not taken or is the caller's - but for those of an array that  *)
(* is half read (deserialize.c:210-222), and a member nobody made (87).    *)
DropsOnlyOwn == fault # NoFault => <<fault.fn, fault.kind>> \in KnownFaults

(* An array that is written keeps the JSON of every element that it was    *)
(* given, besides its own (serialize.c:258).                               *)
Appended(fn, k, turns) ==
  IF fn = "json_serialize_array" /\ k = "json" THEN turns ELSE 0

(* What a function leaves behind besides: when it succeeds; when it fails, *)
(* as a part has come with an error and a result; and what it leaves       *)
(* because of a hook that failed, or after one.                            *)
KnownLeaks ==
  [done |-> {<<"ensure_value_init", "type">>,
             <<"_r_mem_malloc_sized", "type">>,
             <<"json_serialize", "json">>,
             <<"json_serialize_struct_member", "json">>,
             <<"json_serialize_enum", "type">>,
             <<"json_serialize_enum", "member">>},
   failed |-> {<<"json_deserialize_struct_member", "memory">>},
   hooked |-> {<<"json_serialize_struct_member", "json">>,
               <<"json_serialize_array", "json">>,
               <<"json_serialize_enum", "type">>,
               <<"json_serialize_enum", "member">>}]

(* Every way out of a function drops what it took, but for the leaks above *)
(* (serialize.c:49, 58, 163, 185, 254, 258, 367, deserialize.c:74,         *)
(* enum_member.cpp:60, memory.cpp:74).                                     *)
LeavesNothing ==
  last # NoReturn =>
    LET fails == last.error /\ ~last.gives
        leaks == (IF fails THEN KnownLeaks.failed ELSE KnownLeaks.done)
                   \cup (IF fails /\ "hook" \in failed THEN KnownLeaks.hooked ELSE {})
    IN \A k \in Kinds :
         last.left[k] > Appended(last.fn, k, last.turns) => <<last.fn, k>> \in leaks

(* A GError comes with no result, unless a pointer is read whose pointee   *)
(* could not be (deserialize.c:262), or a hook has failed                  *)
(* (serialize.c:309).                                                      *)
ErrorOrResult ==
  last # NoReturn /\ last.gives /\ last.error =>
    \/ "hook" \in failed
    \/ last.fn \in {"json_deserialize_pointer", "json_deserialize"}

(* What the program gets an error for has failed, and whatever has failed  *)
(* at any depth it gets an error for.                                      *)
ErrorMeansError ==
  frames = <<>> /\ last # NoReturn => (last.error <=> failed # {})
================================================================================
