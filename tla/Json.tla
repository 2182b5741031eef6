---------------------------------- MODULE Json ---------------------------------
(***************************************************************************)
(* ruminate-jansson: a value of the program is turned into JSON along its  *)
(* type, and JSON into a fresh value.                                      *)
(*                                                                         *)
(* A type is a record with its kind k.  A value is a tree: the bits of a   *)
(* builtin or an enum, the values of the members of a struct or of the     *)
(* elements of an array in order, and for a pointer <<>> (null) or         *)
(* <<what it points to>>.  A JSON value is a record [j |-> its kind, ...], *)
(* and so is what a function returns: [r |-> "ok", "none" (null without an *)
(* error), "error", "abort" (an assertion) or "crash" (undefined           *)
(* behaviour), ...].                                                       *)
(*                                                                         *)
(* The functions call each other through _json_serialize and               *)
(* _json_deserialize, a call for each part of a value: a step makes such a *)
(* call or returns from one.                                               *)
(***************************************************************************)
EXTENDS Integers, Sequences

CONSTANTS
  Inputs,   (* [type, value |-> what is serialised, parts |-> all the      *)
            (* <<type, value>> in it, fails |-> for each direction the     *)
            (* <<question, type>> that the controller does not answer]     *)
  Types,    (* the types of the program                                    *)
  HookSets, (* sets of hooks: functions from types to kinds of hooks       *)
  Modulus   (* 2^w for the builtin integers of w bits, by id               *)

VARIABLES
  input,    (* the arguments of json_serialize, and the controller         *)
  skip,     (* JSON_FLAG_SKIP_UNKNOWN                                      *)
  hooks,    (* JsonState.handlers                                          *)
  active,   (* the calls on the stack, each waiting for the one it made    *)
  returned  (* what the others returned; the same call, made again,        *)
            (* returns the same                                            *)

vars == <<input, skip, hooks, active, returned>>

None  == [r |-> "none"]
Error == [r |-> "error"]
Abort == [r |-> "abort"]
Crash == [r |-> "crash"]
Ok(x) == [r |-> "ok", x |-> x]
Outcomes == {"ok", "none", "error", "abort", "crash"}

Missing    == [j |-> "missing"] (* the null json_t pointer *)
Null       == [j |-> "null"]
Integer(n) == [j |-> "integer", n |-> n]

(* A double without a number, which JSON does not have. *)
NaN == 2

(* What is in a value: the pointee, members or elements. *)
Contents(t, v) ==
  CASE t.k = "pointer" -> IF v = <<>> THEN {} ELSE {<<t.of, v[1]>>}
    [] t.k = "typedef" -> {<<t.of, v>>}
    [] t.k = "array"   -> {<<t.of, v[i]>> : i \in 1..t.n}
    [] t.k = "struct"  -> {<<t.members[i].type, v[i]>> : i \in DOMAIN t.members}
    [] OTHER           -> {}

IntegerType(t) == t.k = "enum" \/ (t.k = "builtin" /\ t.id \in DOMAIN Modulus)

(* v has the shape of a value of type t. *)
Shaped(t, v) ==
  CASE IntegerType(t)  -> v \in 0 .. Modulus[t.id] - 1
    [] t.k = "builtin" /\ t.id = "BOOL" -> v \in {0, 1}
    [] t.k = "pointer" -> v = <<>> \/ v = <<v[1]>>
    [] t.k = "array"   -> v = [i \in 1..t.n |-> v[i]]
    [] t.k = "struct"  -> v = [i \in DOMAIN t.members |-> v[i]]
    [] OTHER           -> TRUE

WellFormed(t) ==
  CASE t.k = "builtin" -> t.id \in DOMAIN Modulus \cup {"DOUBLE", "BOOL", "VOID"}
    [] t.k = "enum"    -> t.id \in DOMAIN Modulus
    [] t.k = "struct"  -> /\ Len(t.members) \in Nat \ {0}
                          /\ DOMAIN t.members = 1 .. Len(t.members)
                          /\ \A i \in DOMAIN t.members : t.members[i].type \in Types
    [] t.k = "array"   -> t.of \in Types /\ t.n \in Nat
    [] t.k \in {"pointer", "typedef"} -> t.of \in Types
    [] OTHER -> t.k \in {"unknown", "union", "function"}

HookKinds == {"none", "own", "cont", "declines"}

ASSUME JsonAssumption ==
  /\ DOMAIN Modulus \cap {"DOUBLE", "BOOL", "VOID"} = {}
  /\ \A id \in DOMAIN Modulus : Modulus[id] \in Nat \ {0} /\ Modulus[id] % 2 = 0
  /\ \A t \in Types : WellFormed(t)
  /\ \A H \in HookSets : \A t \in DOMAIN H : H[t] \in HookKinds
  /\ \A in \in Inputs :
       /\ <<in.type, in.value>> \in in.parts
       /\ \A p \in in.parts : /\ p = <<p[1], p[2]>>
                              /\ p[1] \in Types /\ Shaped(p[1], p[2])
                              /\ Contents(p[1], p[2]) \subseteq in.parts

-----------------------------------------------------------------------------
(* CALLS *)

(* The calls of _json_serialize for a value v of type t, and of            *)
(* _json_deserialize for a value of type t from the JSON j, with do_hook.  *)
SerializeTo(t, v)   == <<"serialize", t, "do_hook", v>>
DeserializeTo(t, j) == <<"deserialize", t, "do_hook", j>>

(* What a hook calls for the default. *)
WithoutHook(c) == <<c[1], c[2], "no_hook", c[4]>>

(* Whether the controller answers a question about t: its name, its parts  *)
(* (members, elements, pointee, canonical type, or what the macro asks for *)
(* a builtin) or its size.                                                 *)
Answers(c, q, t) == <<q, t>> \notin input.fails[c[1]]
Answered(c, q) == Answers(c, q, c[2])

(* The hook of a type; an unknown one is not asked for one.                *)
Hook(t) == IF t.k # "unknown" /\ t \in DOMAIN hooks THEN hooks[t] ELSE "none"

(* The hook of a call is looked up by the name of the type, which is used  *)
(* unseen, also when no hook is wanted.                                    *)
HookOf(c) ==
  IF c[2].k # "unknown" /\ ~Answered(c, "name") THEN "crash"
  ELSE IF c[3] = "do_hook" THEN Hook(c[2]) ELSE "none"

(* A serialiser that declines is followed by the default.                  *)
Default(c) ==
  \/ HookOf(c) = "none"
  \/ c[1] = "serialize" /\ HookOf(c) = "declines"

(* What is asked before the first part is called for has been answered;    *)
(* what is read is allocated first, and an array asks for an element's     *)
(* size before it reads the element.                                       *)
Ready(c) ==
  /\ Answered(c, "parts")
  /\ c[1] = "deserialize" =>
       /\ c[2].k \in {"struct", "array"} => Answered(c, "size")
       /\ c[2].k = "array" /\ c[2].n > 0 => Answers(c, "size", c[2].of)

Member(j, name) ==
  IF j.j = "object" /\ name \in DOMAIN j.of THEN j.of[name] ELSE Missing

HasElement(j, i) == j.j = "array" /\ i \in DOMAIN j.of

(* The calls for the parts, in order, once the type has been asked.        *)
SerializeParts(t, v) ==
  CASE t.k = "pointer" -> IF v = <<>> THEN <<>> ELSE <<SerializeTo(t.of, v[1])>>
    [] t.k = "typedef" -> <<SerializeTo(t.of, v)>>
    [] t.k = "array"   -> [i \in 1..t.n |-> SerializeTo(t.of, v[i])]
    [] t.k = "struct"  -> [i \in DOMAIN t.members |->
                             SerializeTo(t.members[i].type, v[i])]
    [] OTHER           -> <<>>

DeserializeParts(t, j) ==
  CASE t.k = "pointer" -> IF j = Null THEN <<>> ELSE <<DeserializeTo(t.of, j)>>
    [] t.k = "array"   -> [i \in {k \in 1..t.n : HasElement(j, k)} |->
                             DeserializeTo(t.of, j.of[i])]
    [] t.k = "struct"  -> [i \in DOMAIN t.members |->
                             DeserializeTo(t.members[i].type,
                                           Member(j, t.members[i].name))]
    [] OTHER           -> <<>>

(* Every call that c makes if none of them ends it.  A hook of kind "cont" *)
(* calls its function again without a hook; should that give no JSON, the  *)
(* default does once more what it has just done.                           *)
Parts(c) ==
  IF HookOf(c) = "cont" THEN <<WithoutHook(c)>>
  ELSE IF ~Default(c) \/ ~Ready(c) THEN <<>>
  ELSE IF c[1] = "serialize" THEN SerializeParts(c[2], c[4])
  ELSE DeserializeParts(c[2], c[4])

(* Mutant: an element that fails is taken for one without JSON. *)
AcceptedErrors(c, p) ==
  IF ~(Default(c) /\ c[2].k \in {"struct", "array"}) THEN Outcomes
  ELSE IF c[1] = "serialize" THEN {"ok", "none", "error"} ELSE {"ok"}

(* A loop over members or elements ends at a result of a part p that it    *)
(* does not accept; a member that is read is copied, for which its size is *)
(* asked.                                                                  *)
Accepted(c, p) ==
  IF ~(Default(c) /\ c[2].k \in {"struct", "array"}) THEN Outcomes
  ELSE IF c[1] = "serialize" THEN {"ok", "none"}
  ELSE IF c[2].k = "struct" /\ ~Answers(c, "size", p[2]) THEN {} ELSE {"ok"}

-----------------------------------------------------------------------------
(* What a call of _json_serialize returns; rs is what the calls for the    *)
(* parts have returned.                                                    *)

(* The bits read as a signed integer, and back. *)
Signed(bits, m) == IF 2 * bits < m THEN bits ELSE bits - m
Bits(n, m) == n % m

SerializeBuiltin(t, v) ==
  CASE t.id \in DOMAIN Modulus -> Ok(Integer(Signed(v, Modulus[t.id])))
    [] t.id = "DOUBLE"         -> IF v = NaN THEN None ELSE Ok([j |-> "real", x |-> v])
    [] t.id = "BOOL"           -> Ok([j |-> IF v # 0 THEN "true" ELSE "false"])
    [] OTHER                   -> IF skip THEN None ELSE Abort

(* The members that have JSON, by name; a name set twice keeps the last. *)
Object(t, rs) ==
  LET done == {i \in DOMAIN rs : rs[i].r = "ok"}
      last(n) == CHOOSE i \in done : /\ t.members[i].name = n
                                     /\ \A k \in done : t.members[k].name = n => k <= i
  IN  [j |-> "object", of |-> [n \in {t.members[i].name : i \in done} |-> rs[last(n)].x]]

SerializeStruct(c, rs) ==
  IF ~Ready(c) THEN Error
  ELSE IF \E i \in DOMAIN rs : rs[i].r = "ok" THEN Ok(Object(c[2], rs)) ELSE None

(* The value if it is that of an enumerator. *)
SerializeEnum(c) ==
  LET val == Signed(c[4], Modulus[c[2].id]) IN
  IF ~Ready(c) THEN Error
  ELSE IF val \in c[2].enumerators THEN Ok(Integer(val)) ELSE Abort

(* Elements without JSON are null. *)
SerializeArray(c, rs) ==
  IF ~Ready(c) THEN Error
  ELSE Ok([j |-> "array",
           of |-> [i \in DOMAIN rs |-> IF rs[i].r = "ok" THEN rs[i].x ELSE Null]])

(* Mutant: a null pointer is no JSON. *)
SerializePointerNone(c, rs) ==
  IF c[4] = <<>> THEN None ELSE IF Ready(c) THEN rs[1] ELSE Crash

(* A pointee that cannot be had is the type asked of next. *)
SerializePointer(c, rs) ==
  IF c[4] = <<>> THEN Ok(Null) ELSE IF Ready(c) THEN rs[1] ELSE Crash

SerializeByType(c, rs) ==
  LET k == c[2].k IN
  CASE k = "unknown" -> None
    [] k = "builtin" -> SerializeBuiltin(c[2], c[4])
    [] k = "pointer" -> SerializePointer(c, rs)
    [] k = "array"   -> SerializeArray(c, rs)
    [] k = "typedef" -> IF Ready(c) THEN rs[1] ELSE Crash
    [] k = "struct"  -> SerializeStruct(c, rs)
    [] k = "enum"    -> SerializeEnum(c)
    [] OTHER         -> IF skip THEN None ELSE Abort

-----------------------------------------------------------------------------
(* What a call of _json_deserialize returns. *)

IntegerValue(j) == IF j.j = "integer" THEN j.n ELSE 0

(* Mutant: the integer is not cut to the width of the type. *)
DeserializeBuiltinWide(t, j) ==
  CASE t.id \in DOMAIN Modulus -> Ok(IntegerValue(j))
    [] t.id = "DOUBLE" -> Ok(IF j.j = "real" THEN j.x ELSE 0)
    [] t.id = "BOOL"   -> Ok(IF j.j = "true" THEN 1 ELSE 0)
    [] OTHER           -> Abort

DeserializeBuiltin(t, j) ==
  CASE t.id \in DOMAIN Modulus -> Ok(Bits(IntegerValue(j), Modulus[t.id]))
    [] t.id = "DOUBLE" -> Ok(IF j.j = "real" THEN j.x ELSE 0)
    [] t.id = "BOOL"   -> Ok(IF j.j = "true" THEN 1 ELSE 0)
    [] OTHER           -> Abort

(* Every member is copied from the value made of it. *)
DeserializeStruct(c, rs) ==
  IF Ready(c) THEN Ok([i \in DOMAIN rs |-> rs[i].x]) ELSE Error

(* The integer is written as a uintmax_t; of that the enum has its width.  *)
DeserializeEnum(t, j) == Ok(Bits(IntegerValue(j), Modulus[t.id]))

(* That the sizes are known, and the elements in the JSON, is asserted.    *)
DeserializeArray(c, rs) ==
  IF ~Answered(c, "parts") THEN Error
  ELSE IF Ready(c) /\ \A i \in 1..c[2].n : HasElement(c[4], i)
       THEN Ok([i \in 1..c[2].n |-> rs[i].x]) ELSE Abort

(* What the pointer points to is not looked at: it may be no value; nor is *)
(* the block for the pointer, which is asked for after that.               *)
DeserializePointer(c, rs) ==
  IF c[4] = Null THEN IF Answered(c, "size") THEN Ok(<<>>) ELSE Error
  ELSE IF ~Ready(c) THEN Crash
  ELSE IF ~Answered(c, "size") /\ rs[1].r # "abort" THEN Crash
  ELSE IF rs[1].r = "ok" THEN Ok(<<rs[1].x>>)
  ELSE IF rs[1].r = "none" THEN Ok(<<>>) ELSE rs[1]

(* What is made is allocated first, and for that its size is asked of. *)
DeserializeByType(c, rs) ==
  LET k == c[2].k IN
  CASE k = "unknown" -> None
    [] k = "builtin" -> IF (Ready(c) /\ Answered(c, "size")) \/ c[2].id = "VOID"
                        THEN DeserializeBuiltin(c[2], c[4]) ELSE Error
    [] k = "pointer" -> DeserializePointer(c, rs)
    [] k = "array"   -> DeserializeArray(c, rs)
    [] k = "struct"  -> DeserializeStruct(c, rs)
    [] k = "enum"    -> IF Answered(c, "size") THEN DeserializeEnum(c[2], c[4]) ELSE Error
    [] OTHER         -> Abort

-----------------------------------------------------------------------------
(* How a call ends.                                                        *)

(* A hook makes the JSON, or the value, itself, or asks for the default    *)
(* and returns that, or declines, which is final for a value.              *)
Hooked(c, rs) ==
  CASE HookOf(c) = "crash" -> Crash
    [] HookOf(c) = "cont" -> rs[1]
    [] HookOf(c) = "own"  -> IF c[1] = "serialize" THEN Ok([j |-> "string", s |-> c[4]])
                             ELSE IF c[4].j = "string" THEN Ok(c[4].s) ELSE Crash
    [] OTHER -> None

Result(c, rs) ==
  IF ~Default(c) THEN Hooked(c, rs)
  ELSE IF c[1] = "serialize" THEN SerializeByType(c, rs)
  ELSE DeserializeByType(c, rs)

(* With a part that is not accepted.  A value that is none is copied from, *)
(* one whose size is not known is an error; the cleanup of an array drops  *)
(* a JSON value it does not own, and the block as one, but an assertion    *)
(* has failed before.                                                      *)
Broken(c, x) ==
  CASE c[1] = "serialize" -> x
    [] c[1] = "deserialize" /\ c[2].k = "struct" -> IF x.r = "none" THEN Crash
                                                   ELSE IF x.r = "ok" THEN Error ELSE x
    [] OTHER -> IF x = Abort THEN Abort ELSE Crash

Done(c) == c \in DOMAIN returned

(* The parts before the i-th have been accepted. *)
Reaches(c, i) ==
  \A k \in DOMAIN Parts(c) :
    k < i => Done(Parts(c)[k]) /\ returned[Parts(c)[k]].r \in Accepted(c, Parts(c)[k])

Returns(c, x) ==
  /\ active' = active \ {c}
  /\ returned' = [d \in DOMAIN returned \cup {c} |-> IF d = c THEN x ELSE returned[d]]
  /\ UNCHANGED <<input, skip, hooks>>

-----------------------------------------------------------------------------
(* The round trip of a JsonState with JSON_FLAG_INVERTABLE. *)

Root == SerializeTo(input.type, input.value)

(* The type is found by its name; bound: no two types share one. *)
Back == DeserializeTo(input.type, returned[Root].x)

Init ==
  /\ input \in Inputs
  /\ skip \in BOOLEAN
  /\ hooks \in HookSets
  /\ active = {}
  /\ returned = <<>>

json_serialize ==
  /\ active = {} /\ ~Done(Root)
  /\ active' = {Root}
  /\ UNCHANGED <<input, skip, hooks, returned>>

(* Only what has been made is read back. *)
json_deserialize ==
  /\ active = {} /\ Done(Root)
  /\ returned[Root].r = "ok" /\ ~Done(Back)
  /\ active' = {Back}
  /\ UNCHANGED <<input, skip, hooks, returned>>

(* c calls for its next part. *)
CallPart(c) ==
  \E i \in DOMAIN Parts(c) :
    /\ Reaches(c, i)
    /\ ~Done(Parts(c)[i]) /\ Parts(c)[i] \notin active
    /\ active' = active \cup {Parts(c)[i]}
    /\ UNCHANGED <<input, skip, hooks, returned>>

(* c returns because of a part it does not accept. *)
ReturnBroken(c) ==
  \E i \in DOMAIN Parts(c) :
    /\ Reaches(c, i)
    /\ Done(Parts(c)[i]) /\ returned[Parts(c)[i]].r \notin Accepted(c, Parts(c)[i])
    /\ Returns(c, Broken(c, returned[Parts(c)[i]]))

(* c returns when all of its parts have. *)
Return(c) ==
  /\ \A i \in DOMAIN Parts(c) :
       Done(Parts(c)[i]) /\ returned[Parts(c)[i]].r \in Accepted(c, Parts(c)[i])
  /\ Returns(c, Result(c, [i \in DOMAIN Parts(c) |-> returned[Parts(c)[i]]]))

Next ==
  \/ json_serialize \/ json_deserialize
  \/ \E c \in active : CallPart(c) \/ ReturnBroken(c) \/ Return(c)

Spec == Init /\ [][Next]_vars

-----------------------------------------------------------------------------
(* PROPERTIES *)

(* x has been made of some JSON for a value of type t. *)
Made(t, x) ==
  \E c \in DOMAIN returned :
    c[1] = "deserialize" /\ c[2] = t /\ returned[c] = Ok(x)

(* What _json_deserialize makes is a value of its type, as wide as that,   *)
(* with all its parts, and these have been made for their types.           *)
TypeOK ==
  /\ \A c \in DOMAIN returned : returned[c].r \in Outcomes
  /\ \A c \in DOMAIN returned :
       c[1] = "deserialize" /\ HookOf(c) # "own" /\ returned[c].r = "ok" =>
         /\ Shaped(c[2], returned[c].x)
         /\ \A p \in Contents(c[2], returned[c].x) : Made(p[1], p[2])

(* What is in a value, for one who cannot look into what a hook made.      *)
Seen(p) == IF Hook(p[1]) = "own" THEN {} ELSE Contents(p[1], p[2])

(* All that is in the value, at any depth: in every set that has the value *)
(* and what is seen in its elements.                                       *)
Within ==
  {q \in input.parts :
     \A S \in SUBSET input.parts :
       <<input.type, input.value>> \in S /\ (\A p \in S : Seen(p) \subseteq S) => q \in S}

(* A part about which the controller fails, with an error. *)
Fails(p) ==
  /\ Hook(p[1]) # "own"
  /\ p[1].k \in {"struct", "array", "enum"}
  /\ <<"parts", p[1]>> \in input.fails.serialize

(* A part that cannot but stop the program: the name of its type, which is *)
(* asked for first and used unseen, or the type of a pointee or a typedef  *)
(* cannot be had, or an enum is none of its enumerators.                   *)
Stops(p) ==
  \/ p[1].k # "unknown" /\ <<"name", p[1]>> \in input.fails.serialize
  \/ /\ Hook(p[1]) # "own"
     /\ \/ p[1].k = "enum" /\ Signed(p[2], Modulus[p[1].id]) \notin p[1].enumerators
        \/ /\ p[1].k = "typedef" \/ (p[1].k = "pointer" /\ p[2] # <<>>)
           /\ <<"parts", p[1]>> \in input.fails.serialize

(* A part that has JSON whatever is in it. *)
HasJson(p) ==
  LET t == p[1] IN
  \/ Hook(t) = "own"
  \/ t.k \in {"array", "enum"}
  \/ t.k = "builtin" /\ t.id # "VOID" /\ (t.id = "DOUBLE" => p[2] # NaN)
  \/ t.k = "pointer" /\ p[2] = <<>>

(* With JSON_FLAG_SKIP_UNKNOWN no part of a value without JSON stops the   *)
(* rest: a value has JSON exactly if one of its parts has, and there is no *)
(* assertion on the way.  But an error of the controller that is looked at *)
(* (that of a name is not), anywhere in it, however deep, is an error of   *)
(* json_serialize, and never a value with a part missing (serialize.c, the *)
(* NULL and the GError of every level).                                    *)
SkipsOnlyUnrepresentable ==
  active = {} /\ Done(Root) /\ skip /\ (\A p \in Within : ~Stops(p)) =>
    returned[Root].r = IF \E p \in Within : Fails(p)   THEN "error"
                  ELSE IF \E p \in Within : HasJson(p) THEN "ok" ELSE "none"

(* What a value must avoid in each of its parts to be read back as it was: *)
(* unions and typedefs without a hook of their own, hooks that decline,    *)
(* unknown types, a pointer to a null pointer, a double without a number,  *)
(* two members of one name.                                                *)
Invertible(p) ==
  LET t == p[1]
      v == p[2]
  IN
  \/ Hook(t) = "own"
  \/ /\ Hook(t) # "declines"
     /\ \/ t.k = "builtin" /\ t.id # "VOID" /\ (t.id = "DOUBLE" => v # NaN)
        \/ t.k \in {"enum", "array"}
        \/ /\ t.k = "pointer"
           /\ v # <<>> /\ t.of.k = "pointer" /\ Hook(t.of) # "own" => v[1] # <<>>
        \/ /\ t.k = "struct"
           /\ \A i, k \in DOMAIN t.members : t.members[i].name = t.members[k].name => i = k

(* Such a value survives json_serialize and json_deserialize, whatever     *)
(* its nesting and its hooks, if the controller answers.                   *)
RoundTrip ==
  /\ active = {} /\ Done(Root) /\ returned[Root].r = "ok" /\ Done(Back)
  /\ \A p \in Within : Invertible(p) /\ \A f \in input.fails.deserialize : f[2] # p[1]
  => returned[Back] = Ok(input.value)
=============================================================================
