--------------------------------- MODULE MCJson --------------------------------
(* Json on all types up to a small depth and all their values. *)
EXTENDS Json

IntModulus == [INT |-> 4, LONG |-> 8, CHAR |-> 2]

Builtin(id)  == [k |-> "builtin", id |-> id]
Pointer(t)   == [k |-> "pointer", of |-> t]
Typedef(t)   == [k |-> "typedef", of |-> t]
Array(t)     == [k |-> "array", of |-> t, n |-> 2]
Struct(ts)   == [k |-> "struct",
                 members |-> [i \in DOMAIN ts |->
                                [name |-> <<"a", "b">>[i], type |-> ts[i]]]]
Unnamed(t, u) == [k |-> "struct",
                  members |-> <<[name |-> "", type |-> t], [name |-> "", type |-> u]>>]

IntType == Builtin("INT")
Union   == [k |-> "union"]
Enum    == [k |-> "enum", id |-> "INT", enumerators |-> {-1, 1}]
Unknown == [k |-> "unknown"]

Leaves == {Builtin(id) : id \in {"INT", "LONG", "CHAR", "DOUBLE", "BOOL", "VOID"}}
            \cup {Union, Enum, Unknown, [k |-> "function"]}

(* Only a pointer leads to a type without values of its own. *)
Opaque == {Builtin("VOID"), [k |-> "function"]}
Over(S) == {Pointer(t) : t \in S}
             \cup UNION {{Typedef(t), Array(t), Struct(<<t>>)} : t \in S \ Opaque}
Shallow == Over(Leaves)

Pick == {IntType, Builtin("DOUBLE"), Union, Pointer(IntType),
         Pointer(Builtin("VOID")), Pointer(Pointer(Builtin("CHAR"))),
         Typedef(IntType), Array(Union), Struct(<<Union>>)}
Deep == {Struct(<<t, u>>) : t, u \in Pick}
          \cup Over(Over({Builtin("CHAR"), Builtin("VOID"), Union, Enum}))
          \cup {Unnamed(t, u) : t, u \in {IntType, Pointer(IntType)}}

(* An enum may have a value that is none of its enumerators. *)
RECURSIVE Values(_)
Values(t) ==
  CASE t.k = "builtin" -> CASE t.id \in DOMAIN IntModulus -> 0 .. IntModulus[t.id] - 1
                            [] t.id = "DOUBLE" -> 0..2
                            [] OTHER -> 0..1
    [] t.k = "enum"    -> {0, 1, 3}
    [] t.k = "pointer" -> {<<>>} \cup {<<v>> : v \in Values(t.of)}
    [] t.k = "typedef" -> Values(t.of)
    [] t.k = "array"   -> {<<v, w>> : v, w \in Values(t.of)}
    [] t.k = "struct"  -> IF Len(t.members) = 1
                          THEN {<<v>> : v \in Values(t.members[1].type)}
                          ELSE {<<v, w>> : v \in Values(t.members[1].type),
                                           w \in Values(t.members[2].type)}
    [] OTHER           -> {0}

RECURSIVE AllIn(_, _)
AllIn(t, v) == {<<t, v>>} \cup UNION {AllIn(p[1], p[2]) : p \in Contents(t, v)}

Failing(t, S, F) ==
  {[type |-> t, value |-> v, parts |-> AllIn(t, v),
    fails |-> [serialize |-> S, deserialize |-> F]] : v \in Values(t)}

Answered_(S) == UNION {Failing(t, {}, {}) : t \in S}

AllHooks == {<<>>} \cup [{Typedef(IntType), Union} -> {"own", "declines"}]
              \cup [{Struct(<<Union>>), Pointer(IntType)} -> {"own", "cont"}]

(* Questions the controller does not answer, anywhere in a value, and some *)
(* that it answers only the first time.                                    *)
Asked == {Struct(<<IntType>>), Enum, Array(Builtin("CHAR")),
          Pointer(IntType), Typedef(IntType)}
Char == Builtin("CHAR")
About(b) == {b} \cup Over({b}) \cup {Struct(<<t, b>>) : t \in Pick}
              \cup {Struct(<<Pointer(b), t>>) : t \in Pick}
Nearby(b) == {b, Pointer(b), Array(b), Struct(<<Char, b>>)}

Unanswered ==
  UNION {UNION {Failing(t, {<<"parts", b>>}, {}) : t \in About(b)} : b \in Asked}
    \cup UNION {UNION {Failing(t, {<<"name", b>>}, {}) : t \in Nearby(b)} :
               b \in Asked \cup {Char, Unknown, Union}}
Lost ==
  UNION {UNION {Failing(t, {}, {<<q, b>>}) : t \in Nearby(b)} :
         q \in {"name", "parts", "size"}, b \in Asked \cup {Char, Union}}

AllInputs == Answered_(Leaves \ Opaque) \cup Answered_(Shallow) \cup Answered_(Deep)
               \cup Unanswered \cup Lost

ProgramTypes == Leaves \cup Shallow \cup Deep
                  \cup UNION {About(b) \cup Nearby(b) : b \in Asked \cup {Char, Unknown, Union}}
===============================================================================
