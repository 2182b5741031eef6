------------------------------ MODULE Types_proofs -----------------------------
(***************************************************************************)
(* Proofs about the classification of types and members: the tables of the *)
(* controller and of the library's switches agree on every TypeId, so all  *)
(* that is known of an object is what its TypeId, or its container and its *)
(* own ids, tell.                                                          *)
(***************************************************************************)
EXTENDS Types, TLAPS

-----------------------------------------------------------------------------
(* THE TABLES *)

(* The TypeIds of type.ice that a servant may answer. *)
Others == {"Array", "Typedef", "Pointer", "Unknown"}
AllIds == AggregateIds \cup BuiltinIds \cup Others

(* Every entry of the controller's tables is a TypeId of the library. *)
LEMMA IdsKnown == TypeIds \subseteq AllIds
<1>1. ASSUME NEW b \in BasicTypes PROVE Lookup(BasicId, b) \in BuiltinIds \cup {"unlisted"}
  BY <1>1 DEF Lookup, BasicId, BasicTypes, BuiltinIds
<1>2. ASSUME NEW c \in TypeClasses
      PROVE  Lookup(ClassId, c) \in AggregateIds \cup Others \cup {"unlisted"}
  BY <1>2 DEF Lookup, ClassId, TypeClasses, AggregateIds, Others
<1> QED
  BY <1>1, <1>2 DEF TypeIds, GetIds, AllIds

(* rat->id or rbt->id, as r_type_new sets it. *)
SubOf(id) ==
  CASE id \in AggregateIds -> Lookup(AggregateId, id)
    [] id \in BuiltinIds   -> Lookup(BuiltinId, id)
    [] OTHER               -> "none"

(* What a switch makes of an aggregate. *)
LEMMA Aggregates ==
  ASSUME NEW id \in AggregateIds
  PROVE  /\ TypeLevel(id) = "AGGREGATE"
         /\ SubOf(id) \in {"STRUCT", "UNION", "ENUM", "FUNCTION"}
         /\ TypeAlloc(id) = IF id = "Function" THEN "RFunctionType" ELSE "RAggregateType"
         /\ SubOf(id) = "FUNCTION" <=> id = "Function"
         /\ Lookup(AggregateFree, SubOf(id)) = TypeAlloc(id)
         /\ id \in Containers
<1>1. id \notin BuiltinIds
  BY DEF AggregateIds, BuiltinIds
<1>2. TypeLevel(id) = "AGGREGATE" /\ id \in Containers
  BY <1>1 DEF TypeLevel, Containers
<1>3. SubOf(id) = Lookup(AggregateId, id) /\ TypeAlloc(id) = Lookup(AggregateAlloc, id)
  BY <1>1 DEF SubOf, TypeAlloc
<1>4. id \in {"Structure", "Union", "Enum", "Function"}
  BY DEF AggregateIds
<1>5. Lookup(AggregateId, id) = CASE id = "Structure" -> "STRUCT" [] id = "Union" -> "UNION"
                                  [] id = "Enum" -> "ENUM" [] OTHER -> "FUNCTION"
  BY <1>4 DEF Lookup, AggregateId
<1>6. Lookup(AggregateAlloc, id) = IF id = "Function" THEN "RFunctionType" ELSE "RAggregateType"
  BY <1>4 DEF Lookup, AggregateAlloc
<1>7. \A i \in {"STRUCT", "UNION", "ENUM", "FUNCTION"} :
        Lookup(AggregateFree, i) = IF i = "FUNCTION" THEN "RFunctionType" ELSE "RAggregateType"
  BY DEF Lookup, AggregateFree
<1> QED
  BY <1>2, <1>3, <1>4, <1>5, <1>6, <1>7

(* What a switch makes of a builtin. *)
LEMMA Builtins ==
  ASSUME NEW id \in BuiltinIds
  PROVE  /\ TypeLevel(id) = "BUILTIN" /\ TypeAlloc(id) = "RBuiltinType"
         /\ SubOf(id) \in {"INT", "LONG", "DOUBLE", "VOID", "SHORT", "CHAR", "BOOL"}
<1>1. id \notin AggregateIds
  BY DEF AggregateIds, BuiltinIds
<1>2. TypeLevel(id) = "BUILTIN" /\ TypeAlloc(id) = "RBuiltinType"
  BY <1>1 DEF TypeLevel, TypeAlloc
<1>3. SubOf(id) = Lookup(BuiltinId, id)
  BY <1>1 DEF SubOf
<1>4. Lookup(BuiltinId, id) \in {"INT", "LONG", "DOUBLE", "VOID", "SHORT", "CHAR", "BOOL"}
  BY DEF Lookup, BuiltinId, BuiltinIds
<1> QED
  BY <1>2, <1>3, <1>4

(* And of each of the others. *)
LEMMA Rest ==
  ASSUME NEW id \in Others
  PROVE  /\ id \notin AggregateIds /\ id \notin BuiltinIds
         /\ SubOf(id) = "none"
         /\ TypeAlloc(id) = CASE id = "Array" -> "RArrayType" [] id = "Typedef" -> "RTypedefType"
                              [] id = "Pointer" -> "RPointerType" [] OTHER -> "RType"
         /\ TypeLevel(id) = CASE id = "Array" -> "ARRAY" [] id = "Typedef" -> "TYPEDEF"
                              [] id = "Pointer" -> "POINTER" [] OTHER -> "UNKNOWN"
         /\ Lookup([Array |-> "RArrayType", Typedef |-> "RTypedefType",
                    Pointer |-> "RPointerType", Unknown |-> "RType"], id) = TypeAlloc(id)
<1>1. id \notin AggregateIds /\ id \notin BuiltinIds
  BY DEF AggregateIds, BuiltinIds, Others
<1>2. SubOf(id) = "none"
  BY <1>1 DEF SubOf
<1>3. TypeAlloc(id) = Lookup([Array |-> "RArrayType", Typedef |-> "RTypedefType",
                              Pointer |-> "RPointerType", Unknown |-> "RType"], id)
  BY <1>1 DEF TypeAlloc
<1>4. TypeLevel(id) = Lookup([Array |-> "ARRAY", Typedef |-> "TYPEDEF",
                              Pointer |-> "POINTER", Unknown |-> "UNKNOWN"], id)
  BY <1>1 DEF TypeLevel
<1>5. id \in {"Array", "Typedef", "Pointer", "Unknown"}
  BY DEF Others
<1> QED
  BY <1>1, <1>2, <1>3, <1>4, <1>5 DEF Lookup

-----------------------------------------------------------------------------
(* TYPES *)

(* All that is known of an RType, by its TypeId. *)
TypeKnown(t) ==
  /\ t.type_id \in TypeIds
  /\ t.struct = TypeAlloc(t.type_id) /\ t.id = TypeLevel(t.type_id) /\ t.sub = SubOf(t.type_id)

(* A type that is cast by its ids, and freed by its TypeId and sub-type,   *)
(* is what r_type_alloc made.                                              *)
LEMMA TypeSound ==
  ASSUME NEW t, TypeKnown(t)
  PROVE  /\ t.struct \in DOMAIN Bases
         /\ t.sub \in CASE t.id = "AGGREGATE" -> {"STRUCT", "UNION", "ENUM", "FUNCTION"}
                        [] t.id = "BUILTIN" -> {"INT", "LONG", "DOUBLE", "VOID",
                                                "SHORT", "CHAR", "BOOL"}
                        [] t.id \in {"ARRAY", "TYPEDEF", "POINTER", "UNKNOWN"} -> {"none"}
                        [] OTHER -> {}
         /\ TypeCasts(t) \subseteq Bases[t.struct]
         /\ TypeFree(t) = t.struct
         /\ "unlisted" \notin {t.struct, t.id, t.sub}
         /\ t.id \in {"AGGREGATE", "ARRAY"} => t.type_id \in Containers
<1> DEFINE casts == [AGGREGATE |-> "RAggregateType", BUILTIN |-> "RBuiltinType",
                     TYPEDEF |-> "RTypedefType", POINTER |-> "RPointerType",
                     ARRAY |-> "RArrayType", UNKNOWN |-> "RType"]
           base == Lookup(casts, t.id)
<1>1. TypeCasts(t) \subseteq
        {base} \cup (IF t.id = "AGGREGATE" /\ t.sub = "FUNCTION" THEN {"RFunctionType"} ELSE {})
  BY DEF TypeCasts
<1>2. CASE t.type_id \in AggregateIds
  <2>1. /\ t.id = "AGGREGATE" /\ t.sub \in {"STRUCT", "UNION", "ENUM", "FUNCTION"}
        /\ t.struct = IF t.sub = "FUNCTION" THEN "RFunctionType" ELSE "RAggregateType"
        /\ Lookup(AggregateFree, t.sub) = t.struct /\ t.type_id \in Containers
    BY <1>2, Aggregates DEF TypeKnown
  <2>2. TypeFree(t) = t.struct
    <3>1. t.type_id \notin BuiltinIds
      BY <1>2 DEF AggregateIds, BuiltinIds
    <3> QED
      BY <1>2, <2>1, <3>1 DEF TypeFree
  <2>3. base = "RAggregateType"
    BY <2>1 DEF Lookup
  <2>4. TypeCasts(t) \subseteq Bases[t.struct]
    BY <1>1, <2>1, <2>3 DEF Bases
  <2> QED
    BY <2>1, <2>2, <2>4 DEF Bases
<1>3. CASE t.type_id \in BuiltinIds
  <2>1. /\ t.id = "BUILTIN" /\ t.struct = "RBuiltinType"
        /\ t.sub \in {"INT", "LONG", "DOUBLE", "VOID", "SHORT", "CHAR", "BOOL"}
    BY <1>3, Builtins DEF TypeKnown
  <2>2. TypeFree(t) = t.struct
    <3>1. t.type_id \notin AggregateIds
      BY <1>3 DEF AggregateIds, BuiltinIds
    <3> QED
      BY <1>3, <2>1, <3>1 DEF TypeFree
  <2>3. base = "RBuiltinType"
    BY <2>1 DEF Lookup
  <2>4. TypeCasts(t) \subseteq Bases[t.struct]
    BY <1>1, <2>1, <2>3 DEF Bases
  <2> QED
    BY <2>1, <2>2, <2>4 DEF Bases
<1>4. CASE t.type_id \in Others
  <2>1. /\ t.sub = "none"
        /\ \/ t.type_id = "Array" /\ t.id = "ARRAY" /\ t.struct = "RArrayType"
           \/ t.type_id = "Typedef" /\ t.id = "TYPEDEF" /\ t.struct = "RTypedefType"
           \/ t.type_id = "Pointer" /\ t.id = "POINTER" /\ t.struct = "RPointerType"
           \/ t.type_id = "Unknown" /\ t.id = "UNKNOWN" /\ t.struct = "RType"
    BY <1>4, Rest DEF TypeKnown, Others
  <2>2. TypeFree(t) = t.struct
    BY <1>4, Rest DEF TypeFree, TypeKnown
  <2>3. base = t.struct
    BY <2>1 DEF Lookup
  <2>4. TypeCasts(t) \subseteq Bases[t.struct]
    BY <1>1, <2>1, <2>3 DEF Bases
  <2> QED
    BY <2>1, <2>2, <2>4 DEF Bases, Containers
<1> QED
  BY <1>2, <1>3, <1>4, IdsKnown DEF TypeKnown, AllIds

-----------------------------------------------------------------------------
(* MEMBERS *)

(* All that is known of an RTypeMember, by its container. *)
MemberKnown(m) ==
  /\ m.container \in Containers
  /\ m.struct = Lookup(MemberAlloc, m.container)
  /\ m.id = MemberLevel(m.container) /\ m.sub \in MemberIds(m.container)
  /\ m.value \in IF m.sub = "ENUM" THEN {"none", "signed", "unsigned"} ELSE {"none"}
  /\ m.value # "none" => m.type \notin NonBuiltins /\ m.value = ValueType(m.type)
  /\ m.sub = "ENUM" => m.type \in EnumeratorTypes

(* A member that is freed and cast by its own ids is what was allocated by *)
(* its container, and its servant is that of the container.                *)
LEMMA MemberSound ==
  ASSUME NEW m, MemberKnown(m)
  PROVE  /\ m.struct \in DOMAIN Bases
         /\ m.id = "ARRAY" <=> m.sub = "none"
         /\ MemberCasts(m) \subseteq Bases[m.struct]
         /\ MemberFree(m.id, m.sub) = m.struct
         /\ {"getType"}
            \cup (IF m.container \in {"Structure", "Union", "Enum"} THEN {"getName"} ELSE {})
            \cup (IF m.container # "Function" THEN {"getOffsetInBytes"} ELSE {})
            \cup (IF m.sub = "ENUM" THEN {"getValueSigned"} ELSE {})
              \subseteq Answers[Adapter(m.container)]
<1>1. m.container \in {"Structure", "Union", "Enum", "Function", "Array"}
  BY DEF MemberKnown, Containers, AggregateIds
<1>2. CASE m.container \in {"Structure", "Union"}
  <2>1. m.struct = "RAggregateMember"
    BY <1>2 DEF MemberKnown, Lookup, MemberAlloc
  <2>2. m.id = "AGGREGATE" /\ m.sub \in {"BITFIELD", "OTHER"}
    BY <1>2 DEF MemberKnown, MemberLevel, MemberIds
  <2>3. Adapter(m.container) = "SBTypeMemberAdapter"
    BY <1>2 DEF Adapter
  <2> QED
    BY <1>2, <2>1, <2>2, <2>3 DEF Bases, MemberCasts, MemberFree, AggregateMemberFree, Answers
<1>3. CASE m.container = "Enum"
  <2>1. m.struct = "REnumMember"
    BY <1>3 DEF MemberKnown, Lookup, MemberAlloc
  <2>2. m.id = "AGGREGATE" /\ m.sub = "ENUM"
    BY <1>3 DEF MemberKnown, MemberLevel, MemberIds
  <2>3. Adapter(m.container) = "SBTypeEnumMemberAdapter"
    BY <1>3 DEF Adapter
  <2> QED
    BY <1>3, <2>1, <2>2, <2>3 DEF Bases, MemberCasts, MemberFree, AggregateMemberFree, Answers
<1>4. CASE m.container = "Function"
  <2>1. m.struct = "RAggregateMember"
    BY <1>4 DEF MemberKnown, Lookup, MemberAlloc
  <2>2. m.id = "AGGREGATE" /\ m.sub = "OTHER"
    BY <1>4 DEF MemberKnown, MemberLevel, MemberIds
  <2>3. Adapter(m.container) = "SBTypeListAdapter"
    BY <1>4 DEF Adapter
  <2> QED
    BY <1>4, <2>1, <2>2, <2>3 DEF Bases, MemberCasts, MemberFree, AggregateMemberFree, Answers
<1>5. CASE m.container = "Array"
  <2>1. m.struct = "RTypeMember"
    BY <1>5 DEF MemberKnown, Lookup, MemberAlloc
  <2>2. m.id = "ARRAY" /\ m.sub = "none"
    BY <1>5 DEF MemberKnown, MemberLevel, MemberIds
  <2>3. Adapter(m.container) = "SBTypeAdapter"
    BY <1>5 DEF Adapter
  <2> QED
    BY <1>5, <2>1, <2>2, <2>3 DEF Bases, MemberCasts, MemberFree, AggregateMemberFree, Answers
<1> QED
  BY <1>1, <1>2, <1>3, <1>4, <1>5

(* A field whose init fails is freed by the id of an object of zeros.      *)
LEMMA FailedMember ==
  ASSUME NEW container \in {"Structure", "Union"}
  PROVE  Lookup(MemberAlloc, container) = MemberFree(MemberLevel(container), ZeroMemberId)
<1>1. Lookup(MemberAlloc, container) = "RAggregateMember"
  BY DEF Lookup, MemberAlloc
<1>2. MemberLevel(container) = "AGGREGATE"
  BY DEF MemberLevel
<1> QED
  BY <1>1, <1>2 DEF MemberFree, AggregateMemberFree, ZeroMemberId

-----------------------------------------------------------------------------
(* THE INVARIANT *)

TypeInv == ty = NoType \/ (TypeKnown(ty) /\ ty.members \in BOOLEAN)
MemberInv == tm = NoMember \/ MemberKnown(tm)

TypesInv == TypeInv /\ MemberInv /\ FreedAsAllocated /\ NoAssertion

(* At first there is neither a type nor a member. *)
LEMMA TypesInit == Init => TypesInv
BY DEF Init, TypesInv, TypeInv, MemberInv, FreedAsAllocated, NoAssertion

(* Each step keeps the invariant, by the tables. *)
LEMMA TypesStep == TypesInv /\ [Next]_vars => TypesInv'
<1> SUFFICES ASSUME TypesInv, [Next]_vars PROVE TypesInv'
  OBVIOUS
<1> USE DEF TypesInv
<1>1. CASE TypeNew
  <2>1. PICK id \in TypeIds :
          LET rt == [struct  |-> TypeAlloc(id), type_id |-> id, id |-> TypeLevel(id),
                     sub |-> SubOf(id), members |-> FALSE]
          IN IF "unlisted" \in {rt.struct, rt.id, rt.sub}
             THEN Abort("switch")
             ELSE ty' = rt /\ UNCHANGED <<tm, freed, crash>>
    BY <1>1 DEF TypeNew, SubOf
  <2> DEFINE rt == [struct  |-> TypeAlloc(id), type_id |-> id, id |-> TypeLevel(id),
                    sub |-> SubOf(id), members |-> FALSE]
  <2>2. TypeKnown(rt)
    BY IdsKnown DEF TypeKnown
  <2>3. "unlisted" \notin {rt.struct, rt.id, rt.sub}
    <3> HIDE DEF rt
    <3> QED
      BY <2>2, TypeSound
  <2>4. ty' = rt /\ UNCHANGED <<tm, freed, crash>>
    BY <2>1, <2>3
  <2>5. rt.members \in BOOLEAN
    OBVIOUS
  <2> QED
    <3> HIDE DEF rt
    <3> QED
      BY <2>2, <2>4, <2>5 DEF TypeInv, MemberInv, FreedAsAllocated, NoAssertion
<1>2. CASE InitMembers
  <2>1. /\ ty' = [ty EXCEPT !.members = TRUE] /\ UNCHANGED <<tm, freed, crash>>
        /\ TypeKnown(ty) /\ ty # NoType
    BY <1>2 DEF InitMembers, TypeInv
  <2>2. TypeKnown(ty')
    BY <2>1 DEF TypeKnown
  <2>3. ty'.members \in BOOLEAN
    BY <2>1
  <2> QED
    BY <2>1, <2>2, <2>3 DEF TypeInv, MemberInv, FreedAsAllocated, NoAssertion
<1>3. CASE TypeDelete
  <2>1. freed' = <<ty.struct, TypeFree(ty)>> /\ ty' = NoType /\ UNCHANGED <<tm, crash>>
    BY <1>3 DEF TypeDelete
  <2>2. TypeFree(ty) = ty.struct
    BY <1>3, TypeSound DEF TypeDelete, TypeInv
  <2> QED
    BY <2>1, <2>2 DEF TypeInv, MemberInv, FreedAsAllocated, NoAssertion
<1>4. CASE MemberNew
  <2>1. ty.type_id \in Containers
    BY <1>4, TypeSound DEF MemberNew, TypeInv
  <2>2. PICK sub \in MemberIds(ty.type_id),
             type \in IF ty.type_id = "Enum" THEN EnumeratorTypes ELSE {"none"} :
          tm' = [struct    |-> Lookup(MemberAlloc, ty.type_id),
                 id        |-> MemberLevel(ty.type_id),
                 sub       |-> sub,
                 value     |-> "none",
                 container |-> ty.type_id,
                 type      |-> type]
    BY <1>4, <2>1 DEF MemberNew
  <2>3. UNCHANGED <<ty, freed, crash>>
    BY <1>4, <2>1 DEF MemberNew
  <2>4. MemberKnown(tm')
    <3>1. sub = "ENUM" => type \in EnumeratorTypes
      <4>1. ty.type_id \in {"Structure", "Union", "Enum", "Function", "Array"}
        BY <2>1 DEF Containers, AggregateIds
      <4> QED
        BY <4>1 DEF MemberIds
    <3> QED
      BY <2>1, <2>2, <3>1 DEF MemberKnown
  <2>5. crash = "none"
    BY <1>4 DEF MemberNew
  <2> QED
    BY <2>3, <2>4, <2>5 DEF TypeInv, MemberInv, FreedAsAllocated, NoAssertion
<1>5. CASE MemberNewFails
  <2>1. freed'[1] = freed'[2] /\ UNCHANGED <<ty, tm, crash>>
    BY <1>5, FailedMember DEF MemberNewFails
  <2> QED
    BY <2>1 DEF TypeInv, MemberInv, FreedAsAllocated, NoAssertion
<1>6. CASE EnumValue
  <2> DEFINE kept == IF tm.value = "none" THEN ValueType(tm.type) ELSE tm.value
  <2>1. /\ MemberKnown(tm) /\ tm # NoMember /\ tm.sub = "ENUM"
        /\ tm.type \in DOMAIN Signed \cup NonBuiltins
    BY <1>6 DEF EnumValue, MemberInv
  <2>2. CASE tm.type \in NonBuiltins
    <3>1. kept = "assertion"
      BY <2>1, <2>2 DEF MemberKnown, ValueType
    <3>2. Abort("enumerator")
      BY <1>6, <3>1 DEF EnumValue
    <3> QED
      BY <2>1, <2>2, <3>2 DEF Abort, TypeInv, MemberInv, FreedAsAllocated, NoAssertion
  <2>3. CASE tm.type \notin NonBuiltins
    <3>1. kept = ValueType(tm.type)
      BY <2>1 DEF MemberKnown
    <3>2. kept = IF Signed[tm.type] THEN "signed" ELSE "unsigned"
      BY <2>3, <3>1 DEF ValueType
    <3>3. kept # "assertion" /\ kept # "none"
      BY <3>2
    <3>4. tm' = [tm EXCEPT !.value = kept] /\ UNCHANGED <<ty, freed, crash>>
      BY <1>6, <3>2, <3>3 DEF EnumValue
    <3>5. MemberKnown(tm')
      BY <2>1, <2>3, <3>1, <3>2, <3>4 DEF MemberKnown
    <3>6. crash = "none"
      BY <1>6 DEF EnumValue
    <3> QED
      BY <3>4, <3>5, <3>6 DEF TypeInv, MemberInv, FreedAsAllocated, NoAssertion
  <2> QED
    BY <2>2, <2>3
<1>7. CASE MemberDelete
  <2>1. freed' = <<tm.struct, MemberFree(tm.id, tm.sub)>> /\ tm' = NoMember
        /\ UNCHANGED <<ty, crash>>
    BY <1>7 DEF MemberDelete
  <2>2. MemberFree(tm.id, tm.sub) = tm.struct
    BY <1>7, MemberSound DEF MemberDelete, MemberInv
  <2>3. crash = "none"
    BY <1>7 DEF MemberDelete
  <2> QED
    BY <2>1, <2>2, <2>3 DEF TypeInv, MemberInv, FreedAsAllocated, NoAssertion
<1>8. CASE UNCHANGED vars
  BY <1>8 DEF vars, TypeInv, MemberInv, FreedAsAllocated, NoAssertion
<1> QED
  BY <1>1, <1>2, <1>3, <1>4, <1>5, <1>6, <1>7, <1>8 DEF Next

(* In every reachable state the ids of the type and of the member are what *)
(* the tables make of their TypeId and container, and no assertion failed  *)
(* but that about the type of an enumerator.                               *)
THEOREM Invariant == Spec => []TypesInv
BY TypesInit, TypesStep, PTL DEF Spec

-----------------------------------------------------------------------------
(* THE PROPERTIES *)

(* Every object has an id of its kind at each level, whatever lldb has.    *)
THEOREM TypeCorrect == Spec => []TypeOK
<1>1. TypesInv => TypeOK
  <2> SUFFICES ASSUME TypesInv PROVE TypeOK
    OBVIOUS
  <2>1. ty # NoType =>
          /\ ty.struct \in DOMAIN Bases /\ ty.type_id \in TypeIds
          /\ ty.sub \in CASE ty.id = "AGGREGATE" -> {"STRUCT", "UNION", "ENUM", "FUNCTION"}
                          [] ty.id = "BUILTIN" -> {"INT", "LONG", "DOUBLE", "VOID",
                                                   "SHORT", "CHAR", "BOOL"}
                          [] ty.id \in {"ARRAY", "TYPEDEF", "POINTER", "UNKNOWN"} -> {"none"}
                          [] OTHER -> {}
          /\ ty.members \in BOOLEAN
    BY TypeSound DEF TypesInv, TypeInv, TypeKnown
  <2>2. tm # NoMember =>
          /\ tm.struct \in DOMAIN Bases /\ tm.container \in Containers
          /\ tm.id = "ARRAY" <=> tm.sub = "none"
          /\ tm.value \in IF tm.sub = "ENUM" THEN {"none", "signed", "unsigned"} ELSE {"none"}
          /\ tm.sub = "ENUM" => tm.type \in EnumeratorTypes
    BY MemberSound DEF TypesInv, MemberInv, MemberKnown
  <2>3. crash \in {"none", "switch", "signedness", "enumerator"}
    BY DEF TypesInv, NoAssertion
  <2> QED
    BY <2>1, <2>2, <2>3 DEF TypeOK
<1> QED
  BY <1>1, Invariant, PTL

(* What an object is cast to by its ids is what its struct begins with.    *)
THEOREM CastsAreSafe == Spec => []CastsSafe
<1>1. TypesInv => CastsSafe
  BY TypeSound, MemberSound DEF TypesInv, TypeInv, MemberInv, CastsSafe
<1> QED
  BY <1>1, Invariant, PTL

(* An object is freed as what it was allocated as, even half initialised.  *)
THEOREM FreesMatch == Spec => []FreedAsAllocated
BY Invariant, PTL DEF TypesInv

(* A member's servant answers what the library asks of such a member.      *)
THEOREM ServantsAnswer == Spec => []MembersAnswer
<1>1. TypesInv => MembersAnswer
  BY MemberSound DEF TypesInv, MemberInv, MembersAnswer
<1> QED
  BY <1>1, Invariant, PTL

(* No switch over a TypeId lacks a case, no accessor of an enumerator finds *)
(* its value kept with the other signedness, and the assertion about the   *)
(* type of an enumerator (enum_member.cpp:43) fails only for one whose type *)
(* is no builtin.                                                          *)
THEOREM AssertsLittle == Spec => []NoAssertion
<1>1. TypesInv => NoAssertion
  BY DEF TypesInv
<1> QED
  BY <1>1, Invariant, PTL
===============================================================================
