-------------------------------- MODULE Types ---------------------------------
(***************************************************************************)
(* What kind of object a type becomes.                                     *)
(*                                                                         *)
(* lldb's type class and basic type become a TypeId in the controller; by  *)
(* it the library chooses the struct it allocates, and then, in tables of  *)
(* their own, the ids that callers and its own destroy and free functions  *)
(* go by.  A member is classified by its container, but is destroyed by    *)
(* its own ids, perhaps after the container is gone, and perhaps before    *)
(* all of its ids are set.  Its requests are answered by one of four       *)
(* servants, which do not implement the same operations.                   *)
(*                                                                         *)
(* One type and one member are alive at a time; every request to the       *)
(* controller may fail.  Names, counts and cached types are in References. *)
(***************************************************************************)

VARIABLES
  ty,     (* the RType, or NoType                                          *)
  tm,     (* the RTypeMember, or NoMember                                  *)
  freed,  (* how the last object was allocated and how it was freed        *)
  crash   (* which assertion has failed: "none", "switch", "signedness" of *)
          (* an enumerator's value, or "enumerator" of no builtin type     *)

vars == <<ty, tm, freed, crash>>

Lookup(table, key) == IF key \in DOMAIN table THEN table[key] ELSE "unlisted"

(* The structs, each with those it begins with. *)
Bases ==
  [RType            |-> {"RType"},
   RArrayType       |-> {"RArrayType", "RType"},
   RBuiltinType     |-> {"RBuiltinType", "RType"},
   RPointerType     |-> {"RPointerType", "RType"},
   RTypedefType     |-> {"RTypedefType", "RType"},
   RAggregateType   |-> {"RAggregateType", "RType"},
   RFunctionType    |-> {"RFunctionType", "RAggregateType", "RType"},
   RTypeMember      |-> {"RTypeMember"},
   RAggregateMember |-> {"RAggregateMember", "RTypeMember"},
   REnumMember      |-> {"REnumMember", "RAggregateMember", "RTypeMember"}]

-----------------------------------------------------------------------------
(* The controller: TypeImpl.  What is not in a table raises a KeyError.     *)

(* lldb's basic types; the last two are not in the table. *)
BasicTypes == {"Bool", "Char", "SignedChar", "UnsignedChar", "Double", "Short",
  "UnsignedShort", "Int", "UnsignedInt", "Long", "UnsignedLong", "Void",
  "Float", "LongLong"}
BasicId ==
  [Bool |-> "Bool", Char |-> "Char", SignedChar |-> "Char", UnsignedChar |-> "Char",
   Double |-> "Double", Short |-> "Short", UnsignedShort |-> "Short",
   Int |-> "Int", UnsignedInt |-> "Int", Long |-> "Long", UnsignedLong |-> "Long",
   Void |-> "Void"]

(* The same for its other type classes. *)
TypeClasses == {"Array", "Enumeration", "Union", "Struct", "Function", "Pointer",
  "Typedef", "Invalid", "Other", "Reference", "Vector"}
ClassId ==
  [Array |-> "Array", Enumeration |-> "Enum", Union |-> "Union",
   Struct |-> "Structure", Function |-> "Function", Pointer |-> "Pointer",
   Typedef |-> "Typedef", Invalid |-> "Unknown", Other |-> "Unknown"]

(* getId of every type there can be a servant for. *)
GetIds == {Lookup(BasicId, b) : b \in BasicTypes}
            \cup {Lookup(ClassId, c) : c \in TypeClasses}
TypeIds == GetIds \ {"unlisted"}

(* Only these basic types have a signedness: bool has none in the table.    *)
Signed == [b \in DOMAIN BasicId \ {"Bool"} |-> b = "SignedChar"]

(* What lldb may have for the type of an enumerator: a basic type, or one  *)
(* of another class, as the typedef of enum E : uint8_t.                    *)
NonBuiltins == {Lookup(ClassId, c) : c \in TypeClasses} \ {"unlisted"}
EnumeratorTypes == BasicTypes \cup NonBuiltins

(* Mutant: getMembers takes enumerators for fields. *)
AdapterOfFields(id) ==
  CASE id = "Array"    -> "SBTypeAdapter"
    [] id = "Function" -> "SBTypeListAdapter"
    [] OTHER           -> "SBTypeMemberAdapter"

(* The servant getMembers makes for each member of a type. *)
Adapter(id) ==
  CASE id = "Array"    -> "SBTypeAdapter"
    [] id = "Function" -> "SBTypeListAdapter"
    [] id = "Enum"     -> "SBTypeEnumMemberAdapter"
    [] OTHER           -> "SBTypeMemberAdapter"

(* The operations that each implements; the others raise. *)
Answers ==
  [SBTypeListAdapter       |-> {"getType"},
   SBTypeAdapter           |-> {"getType", "getOffsetInBytes"},
   SBTypeEnumMemberAdapter |-> {"getType", "getName", "getOffsetInBytes",
                                "getValueSigned"},
   SBTypeMemberAdapter     |-> {"getType", "getName", "getOffsetInBytes",
                                "getOffsetInBits", "getBitfieldSizeInBits",
                                "isBitfield"}]

-----------------------------------------------------------------------------
(* The library: RType.  What is in no case of a switch is an assertion.     *)

AggregateIds == {"Structure", "Union", "Enum", "Function"}
BuiltinIds == {"Int", "Long", "Double", "Void", "Short", "Char", "Bool"}

(* Mutant: all aggregates are allocated alike. *)
AggregateAllocAlike == [i \in AggregateIds |-> "RAggregateType"]

(* r_aggregate_type_alloc. *)
AggregateAlloc ==
  [Structure |-> "RAggregateType", Union |-> "RAggregateType",
   Enum |-> "RAggregateType", Function |-> "RFunctionType"]

(* The struct r_type_alloc makes for a TypeId. *)
TypeAlloc(id) ==
  CASE id \in AggregateIds -> Lookup(AggregateAlloc, id)
    [] id \in BuiltinIds   -> "RBuiltinType"
    [] OTHER -> Lookup([Array |-> "RArrayType", Typedef |-> "RTypedefType",
                        Pointer |-> "RPointerType", Unknown |-> "RType"], id)

(* rt->id, set by r_type_init. *)
TypeLevel(id) ==
  CASE id \in AggregateIds -> "AGGREGATE"
    [] id \in BuiltinIds   -> "BUILTIN"
    [] OTHER -> Lookup([Array |-> "ARRAY", Typedef |-> "TYPEDEF",
                        Pointer |-> "POINTER", Unknown |-> "UNKNOWN"], id)

(* rat->id, set by r_aggregate_type_init. *)
AggregateId ==
  [Structure |-> "STRUCT", Union |-> "UNION", Enum |-> "ENUM",
   Function |-> "FUNCTION"]

(* Mutant: bool is one more type without an id of its own. *)
BuiltinIdUnknown ==
  [Int |-> "INT", Long |-> "LONG", Double |-> "DOUBLE", Void |-> "VOID",
   Short |-> "SHORT", Char |-> "CHAR", Bool |-> "UNKNOWN"]

(* rbt->id, set by r_builtin_type_init; R_BUILTIN_TYPE_UNKNOWN, on which    *)
(* the codec aborts (serialize.c:165), is none of them.                     *)
BuiltinId ==
  [Int |-> "INT", Long |-> "LONG", Double |-> "DOUBLE", Void |-> "VOID",
   Short |-> "SHORT", Char |-> "CHAR", Bool |-> "BOOL"]

(* r_aggregate_type_free goes by rat->id. *)
AggregateFree ==
  [i \in {"STRUCT", "UNION", "ENUM", "FUNCTION"} |->
     IF i = "FUNCTION" THEN "RFunctionType" ELSE "RAggregateType"]

(* The struct r_type_free takes a type for. *)
TypeFree(t) ==
  CASE t.type_id \in AggregateIds -> Lookup(AggregateFree, t.sub)
    [] t.type_id \in BuiltinIds   -> "RBuiltinType"
    [] OTHER -> Lookup([Array |-> "RArrayType", Typedef |-> "RTypedefType",
                        Pointer |-> "RPointerType", Unknown |-> "RType"], t.type_id)

(* The structs a type is cast to by its ids: by its own init and destroy   *)
(* functions, and by callers of r_type_id and r_aggregate_type_id.         *)
TypeCasts(t) ==
  {Lookup([AGGREGATE |-> "RAggregateType", BUILTIN |-> "RBuiltinType",
           TYPEDEF |-> "RTypedefType", POINTER |-> "RPointerType",
           ARRAY |-> "RArrayType", UNKNOWN |-> "RType"], t.id)}
  \cup (IF t.id = "AGGREGATE" /\ t.sub = "FUNCTION" THEN {"RFunctionType"} ELSE {})

-----------------------------------------------------------------------------
(* The library: RTypeMember.                                                *)

Containers == AggregateIds \cup {"Array"}

(* r_type_member_alloc and r_aggregate_member_alloc, by the container. *)
MemberAlloc ==
  [Array |-> "RTypeMember", Enum |-> "REnumMember", Structure |-> "RAggregateMember",
   Union |-> "RAggregateMember", Function |-> "RAggregateMember"]

(* tm->id, set by r_type_member_init before anything can fail. *)
MemberLevel(container) == IF container = "Array" THEN "ARRAY" ELSE "AGGREGATE"

(* Mutant: the enumerators of RAggregateMemberId in another order. *)
ReorderedMemberId == "ENUM"

(* rm->id before r_aggregate_member_init: the object is allocated as zero. *)
ZeroMemberId == "BITFIELD"

(* The rm->id that r_aggregate_member_init may set. *)
MemberIds(container) ==
  CASE container \in {"Structure", "Union"} -> {"BITFIELD", "OTHER"}
    [] container = "Enum"                   -> {"ENUM"}
    [] container = "Function"               -> {"OTHER"}
    [] OTHER                                -> {"none"}

(* The struct r_type_member_free takes a member for, by its own ids. *)
AggregateMemberFree(sub) == IF sub = "ENUM" THEN "REnumMember" ELSE "RAggregateMember"
MemberFree(id, sub) ==
  IF id = "ARRAY" THEN "RTypeMember" ELSE AggregateMemberFree(sub)

(* The structs a member is cast to by its ids, when it is destroyed and by *)
(* callers of r_type_member_id and r_aggregate_member_id.                   *)
MemberCasts(m) ==
  {"RTypeMember"}
  \cup (IF m.id = "AGGREGATE" THEN {"RAggregateMember"} ELSE {})
  \cup (IF m.sub = "ENUM" THEN {"REnumMember"} ELSE {})

NoType == [struct |-> "none"]
NoMember == [struct |-> "none"]

Init ==
  /\ ty = NoType
  /\ tm = NoMember
  /\ freed = <<"none", "none">>
  /\ crash = "none"

Abort(why) == crash' = why /\ UNCHANGED <<ty, tm, freed>>

-----------------------------------------------------------------------------
(* r_type_new, for any type lldb may have. *)
TypeNew ==
  /\ crash = "none" /\ ty = NoType
  /\ \E id \in TypeIds :
       LET rt == [struct  |-> TypeAlloc(id),
                  type_id |-> id,
                  id      |-> TypeLevel(id),
                  sub     |-> CASE id \in AggregateIds -> Lookup(AggregateId, id)
                                [] id \in BuiltinIds   -> Lookup(BuiltinId, id)
                                [] OTHER               -> "none",
                  members |-> FALSE]
       IN IF "unlisted" \in {rt.struct, rt.id, rt.sub}
          THEN Abort("switch")
          ELSE ty' = rt /\ UNCHANGED <<tm, freed, crash>>

(* init_members of an aggregate or an array; unless getMembers raises.     *)
InitMembers ==
  /\ crash = "none" /\ ty # NoType
  /\ ty.id \in {"AGGREGATE", "ARRAY"}
  /\ ~ty.members
  /\ ty' = [ty EXCEPT !.members = TRUE]
  /\ UNCHANGED <<tm, freed, crash>>

(* r_type_member_new fails: the member is freed by the ids it has.         *)
MemberNewFails ==
  /\ crash = "none" /\ ty # NoType /\ tm = NoMember
  /\ ty.id \in {"AGGREGATE", "ARRAY"} /\ ty.members
  /\ ty.type_id \in {"Structure", "Union"}
  /\ freed' = <<Lookup(MemberAlloc, ty.type_id),
                MemberFree(MemberLevel(ty.type_id), ZeroMemberId)>>
  /\ UNCHANGED <<ty, tm, crash>>

(* r_type_member_new: only of a field is it asked whether it is a bitfield, *)
(* and of no member what its type is.                                       *)
MemberNew ==
  /\ crash = "none" /\ ty # NoType /\ tm = NoMember
  /\ ty.id \in {"AGGREGATE", "ARRAY"} /\ ty.members
  /\ LET container == ty.type_id
         field == container \in {"Structure", "Union"}
     IN /\ field => "isBitfield" \in Answers[Adapter(container)]
        /\ IF container \notin Containers
           THEN Abort("switch")
           ELSE /\ \E sub \in MemberIds(container),
                      type \in IF container = "Enum" THEN EnumeratorTypes
                                                     ELSE {"none"} :
                     tm' = [struct    |-> Lookup(MemberAlloc, container),
                            id        |-> MemberLevel(container),
                            sub       |-> sub,
                            value     |-> "none",
                            container |-> container,
                            type      |-> type]
                /\ UNCHANGED <<ty, freed, crash>>

(* Mutant: its branches the other way round. *)
ValueTypeSwapped(b) ==
  CASE b \in NonBuiltins -> "assertion"
    [] OTHER             -> IF Signed[b] THEN "unsigned" ELSE "signed"

(* How ensure_value_init keeps the value of an enumerator of type b, which *)
(* it asserts to be a builtin.                                             *)
ValueType(b) ==
  CASE b \in NonBuiltins -> "assertion"
    [] OTHER             -> IF Signed[b] THEN "signed" ELSE "unsigned"

(* An enumerator's value, by a caller that has asked whether its type is    *)
(* signed (serialize.c:171), if that is a builtin, and by any other caller: *)
(* ensure_value_init asks again, unless it has the value, and the accessor  *)
(* asserts that the answers agree.  Any of the requests may raise, and then *)
(* nothing is kept.                                                         *)
EnumValue ==
  /\ crash = "none" /\ tm # NoMember
  /\ tm.sub = "ENUM"
  /\ tm.type \in DOMAIN Signed \cup NonBuiltins
  /\ "getValueSigned" \in Answers[Adapter(tm.container)]
  /\ LET kept == IF tm.value = "none" THEN ValueType(tm.type) ELSE tm.value
         agrees == tm.type \in DOMAIN Signed
                     => kept = IF Signed[tm.type] THEN "signed" ELSE "unsigned"
     IN CASE kept = "assertion" -> Abort("enumerator")
          [] kept # "assertion" /\ ~agrees -> Abort("signedness")
          [] OTHER -> /\ tm' = [tm EXCEPT !.value = kept]
                      /\ UNCHANGED <<ty, freed, crash>>

(* r_type_delete; its members do not hold a type alive. *)
TypeDelete ==
  /\ crash = "none" /\ ty # NoType
  /\ freed' = <<ty.struct, TypeFree(ty)>>
  /\ ty' = NoType
  /\ UNCHANGED <<tm, crash>>

MemberDelete ==
  /\ crash = "none" /\ tm # NoMember
  /\ freed' = <<tm.struct, MemberFree(tm.id, tm.sub)>>
  /\ tm' = NoMember
  /\ UNCHANGED <<ty, crash>>

Next ==
  \/ TypeNew \/ InitMembers \/ TypeDelete
  \/ MemberNew \/ MemberNewFails \/ EnumValue \/ MemberDelete

Spec == Init /\ [][Next]_vars

-----------------------------------------------------------------------------
(* Every object has an id of its kind at each level: no RAggregateType or  *)
(* RBuiltinType has the UNKNOWN that their headers declare and on which    *)
(* the codec aborts, and only enumerators keep a value.                    *)
TypeOK ==
  /\ ty = NoType
       \/ /\ ty.struct \in DOMAIN Bases /\ ty.type_id \in TypeIds
          /\ ty.sub \in CASE ty.id = "AGGREGATE" -> {"STRUCT", "UNION", "ENUM", "FUNCTION"}
                          [] ty.id = "BUILTIN" -> {"INT", "LONG", "DOUBLE", "VOID",
                                                   "SHORT", "CHAR", "BOOL"}
                          [] ty.id \in {"ARRAY", "TYPEDEF", "POINTER", "UNKNOWN"} -> {"none"}
                          [] OTHER -> {}
          /\ ty.members \in BOOLEAN
  /\ tm = NoMember
       \/ /\ tm.struct \in DOMAIN Bases /\ tm.container \in Containers
          /\ tm.id = "ARRAY" <=> tm.sub = "none"
          /\ tm.value \in IF tm.sub = "ENUM" THEN {"none", "signed", "unsigned"}
                                             ELSE {"none"}
          /\ tm.sub = "ENUM" => tm.type \in EnumeratorTypes
  /\ crash \in {"none", "switch", "signedness", "enumerator"}

(* type.h:24 and aggregate_type.h:25, "can be safely cast to its sub-type": *)
(* every struct that an object is cast to by its ids is one that the       *)
(* allocated struct begins with.                                           *)
CastsSafe ==
  /\ ty # NoType => TypeCasts(ty) \subseteq Bases[ty.struct]
  /\ tm # NoMember => MemberCasts(tm) \subseteq Bases[tm.struct]

(* g_slice_free is told the struct that g_slice_new was: for types that    *)
(* are freed by their TypeId and then their sub-type, for members that are *)
(* freed without their container, and for members whose init failed before *)
(* they had all of their ids.                                              *)
FreedAsAllocated == freed[1] = freed[2]

(* A member's servant implements what the library asks of such a member:   *)
(* names of fields and enumerators, offsets of fields and elements, values *)
(* of enumerators.  Of a function's arguments only the type can be had.    *)
MembersAnswer ==
  tm # NoMember =>
    {"getType"}
    \cup (IF tm.container \in {"Structure", "Union", "Enum"} THEN {"getName"} ELSE {})
    \cup (IF tm.container # "Function" THEN {"getOffsetInBytes"} ELSE {})
    \cup (IF tm.sub = "ENUM" THEN {"getValueSigned"} ELSE {})
      \subseteq Answers[Adapter(tm.container)]

(* Of the library's assertions about types and members only that of       *)
(* enum_member.cpp:43 can fail, and only for an enumerator whose type is no *)
(* builtin, which nothing before the first question for its value rules    *)
(* out.  Every TypeId of the controller has a case in every switch, and an *)
(* enumerator read with the signedness of its type was kept with that.     *)
NoAssertion ==
  \/ crash = "none"
  \/ /\ crash = "enumerator"
     /\ tm # NoMember /\ tm.sub = "ENUM" /\ tm.type \in NonBuiltins

=============================================================================
