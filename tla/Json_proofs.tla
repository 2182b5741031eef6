------------------------------- MODULE Json_proofs -----------------------------
(***************************************************************************)
(* Proofs about the codec, for all types, values, hooks and widths.        *)
(*                                                                         *)
(* Nothing here descends a value: the invariant speaks of the table of     *)
(* calls that have returned, of which each is what its parts make it       *)
(* (Ends), and of what is in a value as the least set closed under its     *)
(* contents (Within).  So three things follow from the table alone: what a *)
(* call makes of a type (Results, Jsons, Readings), which parts a call was *)
(* stopped by (Skipping), and that what is read from the JSON of a value   *)
(* is that value (Solids, Trips).                                          *)
(***************************************************************************)
EXTENDS Json, WellFoundedInduction, TLAPS

-----------------------------------------------------------------------------
(* THE INVARIANT *)

InputOK == input \in Inputs /\ skip \in BOOLEAN /\ hooks \in HookSets

(* A call is of one of the two functions, for a type of the program; what  *)
(* is serialised is in the value; a call without a hook is made by one.    *)
CallOK(c) ==
  /\ c = <<c[1], c[2], c[3], c[4]>>
  /\ c[1] \in {"serialize", "deserialize"} /\ c[2] \in Types /\ c[3] \in {"do_hook", "no_hook"}
  /\ c[3] = "no_hook" => Hook(c[2]) = "cont"
  /\ c[1] = "serialize" => <<c[2], c[4]>> \in Within

Known == active \cup DOMAIN returned

Calls == \A c \in Known : CallOK(c)

Apart == active \cap DOMAIN returned = {}

(* Nothing is serialised any more once anything is read back.              *)
Phases ==
  \A d \in Known :
    d[1] = "deserialize" => Done(Root) /\ \A c \in active : c[1] = "deserialize"

(* What c returns is what the parts that have returned make it return.     *)
Ended(c, x) ==
  \/ \E i \in DOMAIN Parts(c) :
       /\ Done(Parts(c)[i]) /\ returned[Parts(c)[i]].r \notin Accepted(c, Parts(c)[i])
       /\ x = Broken(c, returned[Parts(c)[i]])
  \/ /\ \A i \in DOMAIN Parts(c) :
          Done(Parts(c)[i]) /\ returned[Parts(c)[i]].r \in Accepted(c, Parts(c)[i])
     /\ x = Result(c, [i \in DOMAIN Parts(c) |-> returned[Parts(c)[i]]])

Ends == \A c \in DOMAIN returned : \A x : x = returned[c] => Ended(c, x)

CInv == InputOK /\ Calls /\ Apart /\ Phases /\ Ends

-----------------------------------------------------------------------------
(* WHAT STAYS THE SAME *)

LEMMA HookSame ==
  ASSUME UNCHANGED <<input, skip, hooks>>
  PROVE  /\ \A t : Hook(t)' = Hook(t)
         /\ \A c : HookOf(c)' = HookOf(c)
         /\ \A c : Default(c)' <=> Default(c)
         /\ \A c, q, t : Answers(c, q, t)' <=> Answers(c, q, t)
         /\ \A c, q : Answered(c, q)' <=> Answered(c, q)
         /\ \A c : Ready(c)' <=> Ready(c)
         /\ \A c, p : Accepted(c, p)' = Accepted(c, p)
         /\ \A p : Seen(p)' = Seen(p)
         /\ Root' = Root
<1>1. \A t : Hook(t)' = Hook(t)
  BY DEF Hook
<1>8. /\ \A c, q, t : Answers(c, q, t)' <=> Answers(c, q, t)
      /\ \A c, q : Answered(c, q)' <=> Answered(c, q)
  BY DEF Answers, Answered
<1>2. \A c : HookOf(c)' = HookOf(c)
  BY <1>1, <1>8 DEF HookOf
<1>3. \A c : Default(c)' <=> Default(c)
  BY <1>2 DEF Default
<1>4. \A c : Ready(c)' <=> Ready(c)
  BY <1>8 DEF Ready
<1>5. \A c, p : Accepted(c, p)' = Accepted(c, p)
  BY <1>3, <1>8 DEF Accepted
<1>6. \A p : Seen(p)' = Seen(p)
  BY <1>1 DEF Seen
<1>7. Root' = Root
  BY DEF Root
<1>. QED  BY <1>1, <1>2, <1>3, <1>4, <1>5, <1>6, <1>7, <1>8

(* What a call calls is settled by the input, the hooks and the flag. *)
LEMMA PartsSame ==
  ASSUME UNCHANGED <<input, skip, hooks>>
  PROVE  \A c : Parts(c)' = Parts(c)
BY HookSame DEF Parts

(* And so is what it makes of the results of its parts. *)
LEMMA ResultSame ==
  ASSUME UNCHANGED <<input, skip, hooks>>
  PROVE  \A c, rs : Result(c, rs)' = Result(c, rs)
<1>. SUFFICES ASSUME NEW c, NEW rs PROVE Result(c, rs)' = Result(c, rs)
  OBVIOUS
<1>1. /\ HookOf(c)' = HookOf(c) /\ (Default(c)' <=> Default(c)) /\ (Ready(c)' <=> Ready(c))
      /\ (\A q : Answered(c, q)' <=> Answered(c, q))
  BY HookSame
<1>2. Hooked(c, rs)' = Hooked(c, rs)
  BY <1>1 DEF Hooked
<1>3. SerializeByType(c, rs)' = SerializeByType(c, rs)
  BY <1>1 DEF SerializeByType, SerializeBuiltin, SerializeStruct, SerializeEnum,
              SerializeArray, SerializePointer
<1>4. DeserializeByType(c, rs)' = DeserializeByType(c, rs)
  BY <1>1 DEF DeserializeByType, DeserializeStruct, DeserializeArray,
              DeserializePointer
<1>. QED  BY <1>1, <1>2, <1>3, <1>4 DEF Result

(* And what is in the value. *)
LEMMA WithinSame ==
  ASSUME UNCHANGED <<input, skip, hooks>>
  PROVE  Within' = Within
BY HookSame DEF Within

(* What is in the value is in the value's parts, and so is what is seen in *)
(* it.                                                                     *)
LEMMA WithinClosed ==
  ASSUME InputOK
  PROVE  /\ <<input.type, input.value>> \in Within
         /\ Within \subseteq input.parts
         /\ \A p \in Within : Seen(p) \subseteq Within
<1>1. \A p \in input.parts : Contents(p[1], p[2]) \subseteq input.parts
  BY JsonAssumption DEF InputOK
<1>2. \A p \in input.parts : Seen(p) \subseteq input.parts
  BY <1>1 DEF Seen
<1>3. <<input.type, input.value>> \in input.parts
  BY JsonAssumption DEF InputOK
<1>4. ASSUME NEW p \in Within, NEW q \in Seen(p) PROVE q \in Within
  <2>1. p \in input.parts /\ q \in input.parts
    BY <1>2, <1>4 DEF Within
  <2>2. ASSUME NEW S \in SUBSET input.parts, <<input.type, input.value>> \in S,
               \A r \in S : Seen(r) \subseteq S
        PROVE  q \in S
    <3>1. p \in S
      BY <2>2 DEF Within
    <3>. QED  BY <3>1, <2>2, <1>4
  <2>. QED  BY <2>1, <2>2 DEF Within
<1>. QED  BY <1>3, <1>4 DEF Within

(* What is in the value has a type of the program and its shape. *)
LEMMA TypesOfParts ==
  ASSUME InputOK, NEW p \in input.parts
  PROVE  p = <<p[1], p[2]>> /\ p[1] \in Types /\ Shaped(p[1], p[2])
BY JsonAssumption DEF InputOK

(* Such a tuple is a call. *)
LEMMA MakesCall ==
  ASSUME NEW f \in {"serialize", "deserialize"}, NEW t \in Types,
         NEW h \in {"do_hook", "no_hook"}, NEW x, h = "no_hook" => Hook(t) = "cont",
         f = "serialize" => <<t, x>> \in Within
  PROVE  CallOK(<<f, t, h, x>>)
BY DEF CallOK

(* The parts of what is serialised are what is seen in it.                 *)
LEMMA SerializePartsOK ==
  ASSUME NEW t, NEW v, WellFormed(t),
         \A q \in Contents(t, v) : q \in Within,
         NEW i \in DOMAIN SerializeParts(t, v)
  PROVE  /\ CallOK(SerializeParts(t, v)[i])
         /\ SerializeParts(t, v)[i][1] = "serialize"
<1>. SUFFICES \E u \in Types : \E w :
           /\ SerializeParts(t, v)[i] = SerializeTo(u, w)
           /\ <<u, w>> \in Within
  <2>1. ASSUME NEW u \in Types, NEW w, <<u, w>> \in Within
        PROVE  CallOK(SerializeTo(u, w)) /\ SerializeTo(u, w)[1] = "serialize"
    <3>1. CallOK(<<"serialize", u, "do_hook", w>>)
      BY <2>1, MakesCall
    <3>. QED  BY <3>1 DEF SerializeTo
  <2>. QED  BY <2>1
<1>1. CASE t.k = "pointer" /\ v # <<>>
  <2>1. SerializeParts(t, v) = <<SerializeTo(t.of, v[1])>>
    BY <1>1 DEF SerializeParts
  <2>2. t.of \in Types /\ Contents(t, v) = {<<t.of, v[1]>>}
    BY <1>1 DEF WellFormed, Contents
  <2>. QED  BY <2>1, <2>2
<1>2. CASE t.k = "pointer" /\ v = <<>>
  BY <1>2 DEF SerializeParts
<1>3. CASE t.k = "typedef"
  <2>1. SerializeParts(t, v) = <<SerializeTo(t.of, v)>>
    BY <1>3 DEF SerializeParts
  <2>2. t.of \in Types /\ Contents(t, v) = {<<t.of, v>>}
    BY <1>3 DEF WellFormed, Contents
  <2>. QED  BY <2>1, <2>2
<1>4. CASE t.k = "array"
  <2>1. SerializeParts(t, v) = [k \in 1..t.n |-> SerializeTo(t.of, v[k])]
    BY <1>4 DEF SerializeParts
  <2>2. t.of \in Types /\ Contents(t, v) = {<<t.of, v[k]>> : k \in 1..t.n}
    BY <1>4 DEF WellFormed, Contents
  <2>. QED  BY <2>1, <2>2
<1>5. CASE t.k = "struct"
  <2>1. SerializeParts(t, v) = [k \in DOMAIN t.members |->
                                  SerializeTo(t.members[k].type, v[k])]
    BY <1>5 DEF SerializeParts
  <2>2. /\ \A k \in DOMAIN t.members : t.members[k].type \in Types
        /\ Contents(t, v) = {<<t.members[k].type, v[k]>> : k \in DOMAIN t.members}
    BY <1>5 DEF WellFormed, Contents
  <2>3. t.members[i].type \in Types
    BY <2>1, <2>2
  <2>. QED  BY <2>1, <2>2, <2>3
<1>6. CASE t.k \notin {"pointer", "typedef", "array", "struct"}
  BY <1>6 DEF SerializeParts
<1>. QED  BY <1>1, <1>2, <1>3, <1>4, <1>5, <1>6

(* What a reading call calls for is of a type of the program. *)
LEMMA DeserializePartsOK ==
  ASSUME NEW t, NEW j, WellFormed(t), NEW i \in DOMAIN DeserializeParts(t, j)
  PROVE  /\ CallOK(DeserializeParts(t, j)[i])
         /\ DeserializeParts(t, j)[i][1] = "deserialize"
<1>. SUFFICES \E u \in Types : \E y : DeserializeParts(t, j)[i] = DeserializeTo(u, y)
  <2>1. ASSUME NEW u \in Types, NEW y
        PROVE  CallOK(DeserializeTo(u, y)) /\ DeserializeTo(u, y)[1] = "deserialize"
    <3>1. CallOK(<<"deserialize", u, "do_hook", y>>)
      BY <2>1, MakesCall
    <3>. QED  BY <3>1 DEF DeserializeTo
  <2>. QED  BY <2>1
<1>1. CASE t.k = "pointer" /\ j # Null
  <2>1. DeserializeParts(t, j) = <<DeserializeTo(t.of, j)>>
    BY <1>1 DEF DeserializeParts
  <2>. QED  BY <1>1, <2>1 DEF WellFormed
<1>2. CASE t.k = "pointer" /\ j = Null
  BY <1>2 DEF DeserializeParts
<1>3. CASE t.k = "array"
  <2>1. DeserializeParts(t, j) = [k \in {l \in 1..t.n : HasElement(j, l)} |->
                                    DeserializeTo(t.of, j.of[k])]
    BY <1>3 DEF DeserializeParts
  <2>. QED  BY <1>3, <2>1 DEF WellFormed
<1>4. CASE t.k = "struct"
  <2>1. DeserializeParts(t, j) =
          [k \in DOMAIN t.members |->
             DeserializeTo(t.members[k].type, Member(j, t.members[k].name))]
    BY <1>4 DEF DeserializeParts
  <2>2. \A k \in DOMAIN t.members : t.members[k].type \in Types
    BY <1>4 DEF WellFormed
  <2>3. t.members[i].type \in Types
    BY <2>1, <2>2
  <2>. QED  BY <2>1, <2>3
<1>5. CASE t.k \notin {"pointer", "array", "struct"}
  BY <1>5 DEF DeserializeParts
<1>. QED  BY <1>1, <1>2, <1>3, <1>4, <1>5

(* The hook of a call, if the name of its type is had. *)
LEMMA HookKind ==
  ASSUME InputOK, NEW c
  PROVE  HookOf(c) \in HookKinds \cup {"crash"} /\ Hook(c[2]) \in HookKinds
<1>1. Hook(c[2]) \in HookKinds
  BY JsonAssumption DEF Hook, InputOK, HookKinds
<1>2. HookOf(c) \in HookKinds \cup {"crash"}
  BY <1>1 DEF HookOf, HookKinds
<1>. QED  BY <1>1, <1>2

(* A hook that asks for the default is not asked again. *)
LEMMA HookAgain ==
  ASSUME NEW c, HookOf(c) = "cont"
  PROVE  HookOf(WithoutHook(c)) = "none"
<1>1. /\ WithoutHook(c)[1] = c[1] /\ WithoutHook(c)[2] = c[2]
      /\ WithoutHook(c)[3] = "no_hook"
  BY DEF WithoutHook
<1>2. Answered(WithoutHook(c), "name") <=> Answered(c, "name")
  BY <1>1 DEF Answered, Answers
<1>3. c[2].k = "unknown" \/ Answered(c, "name")
  BY DEF HookOf
<1>. QED  BY <1>1, <1>2, <1>3 DEF HookOf

(* Without a name a call crashes. *)
LEMMA ResultUnnamed ==
  ASSUME NEW c, NEW rs, HookOf(c) = "crash"
  PROVE  Result(c, rs) = Crash
<1>1. ~Default(c)
  BY DEF Default
<1>2. Hooked(c, rs) = Crash
  BY DEF Hooked
<1>. QED  BY <1>1, <1>2 DEF Result

(* The calls for the parts by the hook of the call that makes them.        *)
LEMMA PartsOfHook ==
  ASSUME NEW c, HookOf(c) = "cont"
  PROVE  Parts(c) = <<WithoutHook(c)>>
BY DEF Parts

(* Without a hook that asks for the default, the parts are those of the    *)
(* type.                                                                   *)
LEMMA PartsOfSerialize ==
  ASSUME NEW c, c[1] = "serialize", HookOf(c) # "cont"
  PROVE  Parts(c) = IF Default(c) /\ Ready(c) THEN SerializeParts(c[2], c[4])
                    ELSE <<>>
BY DEF Parts

(* The same in the other direction. *)
LEMMA PartsOfDeserialize ==
  ASSUME NEW c, c[1] = "deserialize", HookOf(c) # "cont"
  PROVE  Parts(c) = IF Default(c) /\ Ready(c) THEN DeserializeParts(c[2], c[4])
                    ELSE <<>>
BY DEF Parts

(* Every call for a part is a call for a part of what is serialised, or of *)
(* the type, in the same direction.                                        *)
LEMMA PartsOK ==
  ASSUME InputOK, NEW c, CallOK(c), NEW i \in DOMAIN Parts(c)
  PROVE  CallOK(Parts(c)[i]) /\ Parts(c)[i][1] = c[1]
<1>. WellFormed(c[2])
  BY JsonAssumption DEF CallOK
<1>1. CASE HookOf(c) = "cont"
  <2>1. Parts(c) = <<WithoutHook(c)>>
    BY <1>1, PartsOfHook
  <2>2. Hook(c[2]) = "cont"
    BY <1>1 DEF HookOf
  <2>3. CallOK(<<c[1], c[2], "no_hook", c[4]>>)
    BY <2>2, MakesCall DEF CallOK
  <2>4. Parts(c)[i] = <<c[1], c[2], "no_hook", c[4]>>
    BY <2>1 DEF WithoutHook
  <2>. QED  BY <2>3, <2>4
<1>2. CASE HookOf(c) # "cont" /\ ~(Default(c) /\ Ready(c))
  BY <1>2 DEF Parts
<1>3. CASE HookOf(c) # "cont" /\ Default(c) /\ Ready(c) /\ c[1] = "serialize"
  <2>1. Parts(c) = SerializeParts(c[2], c[4])
    BY <1>3, PartsOfSerialize
  <2>2. Hook(c[2]) # "own"
    BY <1>3 DEF Default, HookOf, CallOK
  <2>3. <<c[2], c[4]>> \in Within
    BY <1>3 DEF CallOK
  <2>4. Seen(<<c[2], c[4]>>) = Contents(c[2], c[4])
    BY <2>2 DEF Seen
  <2>5. \A q \in Contents(c[2], c[4]) : q \in Within
    BY <2>3, <2>4, WithinClosed
  <2>6. i \in DOMAIN SerializeParts(c[2], c[4])
    BY <2>1
  <2>. QED  BY <1>3, <2>1, <2>5, <2>6, SerializePartsOK
<1>4. CASE HookOf(c) # "cont" /\ Default(c) /\ Ready(c) /\ c[1] # "serialize"
  <2>1. c[1] = "deserialize"
    BY <1>4 DEF CallOK
  <2>2. Parts(c) = DeserializeParts(c[2], c[4])
    BY <1>4, <2>1, PartsOfDeserialize
  <2>3. i \in DOMAIN DeserializeParts(c[2], c[4])
    BY <2>2
  <2>. QED  BY <2>1, <2>2, <2>3, DeserializePartsOK
<1>. QED  BY <1>1, <1>2, <1>3, <1>4

-----------------------------------------------------------------------------
(* THE STEPS *)

(* Why d is called next. *)
Called(d) ==
  \/ d = Root /\ active = {}
  \/ d = Back /\ active = {} /\ Done(Root) /\ returned[Root].r = "ok"
  \/ \E c \in active : \E i \in DOMAIN Parts(c) : d = Parts(c)[i]

Calling(d) ==
  /\ d \notin Known /\ Called(d)
  /\ active' = active \cup {d}
  /\ UNCHANGED <<input, skip, hooks, returned>>

Returning(c, x) == c \in active /\ Ended(c, x) /\ Returns(c, x)

(* A step makes one call, or ends one. *)
LEMMA Steps ==
  ASSUME Apart, Next
  PROVE  (\E d : Calling(d)) \/ (\E c, x : Returning(c, x))
<1>1. CASE json_serialize
  BY <1>1 DEF json_serialize, Calling, Called, Known, Done
<1>2. CASE json_deserialize
  BY <1>2 DEF json_deserialize, Calling, Called, Known, Done
<1>3. ASSUME NEW c \in active, CallPart(c)
      PROVE  \E d : Calling(d)
  BY <1>3 DEF CallPart, Calling, Called, Known, Done
<1>4. ASSUME NEW c \in active, ReturnBroken(c)
      PROVE  \E x : Returning(c, x)
  BY <1>4 DEF ReturnBroken, Returning, Ended
<1>5. ASSUME NEW c \in active, Return(c)
      PROVE  \E x : Returning(c, x)
  BY <1>5 DEF Return, Returning, Ended
<1>. QED  BY <1>1, <1>2, <1>3, <1>4, <1>5 DEF Next

(* What a call has returned stays. *)
LEMMA TableGrows ==
  ASSUME Apart,
         (\E d : Calling(d)) \/ (\E c, x : Returning(c, x)) \/ UNCHANGED vars
  PROVE  /\ UNCHANGED <<input, skip, hooks>>
         /\ DOMAIN returned \subseteq DOMAIN returned'
         /\ \A c \in DOMAIN returned : returned'[c] = returned[c]
<1>1. ASSUME NEW c, NEW x, Returning(c, x)
      PROVE  /\ UNCHANGED <<input, skip, hooks>>
             /\ DOMAIN returned \subseteq DOMAIN returned'
             /\ \A d \in DOMAIN returned : returned'[d] = returned[d]
  BY <1>1 DEF Returning, Returns, Apart
<1>. QED  BY <1>1 DEF Calling, vars

(* One call leaves the stack and enters the table. *)
LEMMA ReturnsOne ==
  ASSUME Apart, NEW c, NEW x, Returning(c, x)
  PROVE  /\ DOMAIN returned' = DOMAIN returned \cup {c} /\ returned'[c] = x
         /\ c \notin DOMAIN returned /\ active' = active \ {c} /\ Known' = Known
BY DEF Returning, Returns, Apart, Known

(* A reason to return stays one. *)
LEMMA EndedStays ==
  ASSUME Apart,
         (\E d : Calling(d)) \/ (\E c, x : Returning(c, x)) \/ UNCHANGED vars,
         NEW c, NEW x, Ended(c, x)
  PROVE  Ended(c, x)'
<1>1. UNCHANGED <<input, skip, hooks>>
  BY TableGrows
<1>2. Parts(c)' = Parts(c) /\ \A p : Accepted(c, p)' = Accepted(c, p)
  BY <1>1, HookSame, PartsSame
<1>3. \A rs : Result(c, rs)' = Result(c, rs)
  BY <1>1, ResultSame
<1>4. \A d : Done(d) => Done(d)' /\ returned'[d] = returned[d]
  BY TableGrows DEF Done
<1>5. CASE \E i \in DOMAIN Parts(c) :
             /\ Done(Parts(c)[i]) /\ returned[Parts(c)[i]].r \notin Accepted(c, Parts(c)[i])
             /\ x = Broken(c, returned[Parts(c)[i]])
  <2>1. PICK i \in DOMAIN Parts(c) :
               /\ Done(Parts(c)[i]) /\ returned[Parts(c)[i]].r \notin Accepted(c, Parts(c)[i])
               /\ x = Broken(c, returned[Parts(c)[i]])
    BY <1>5
  <2>2. Done(Parts(c)[i])' /\ returned'[Parts(c)[i]] = returned[Parts(c)[i]]
    BY <1>2, <1>4, <2>1
  <2>3. /\ i \in DOMAIN Parts(c)' /\ Parts(c)'[i] = Parts(c)[i]
        /\ Done(Parts(c)[i])' /\ returned'[Parts(c)'[i]] = returned[Parts(c)[i]]
        /\ Accepted(c, Parts(c)[i])' = Accepted(c, Parts(c)[i])
    BY <1>2, <2>2
  <2>4. Broken(c, returned[Parts(c)[i]])' = Broken(c, returned[Parts(c)[i]])
    BY <2>3 DEF Broken
  <2>. QED  BY <2>1, <2>3, <2>4 DEF Ended
<1>6. CASE /\ \A i \in DOMAIN Parts(c) :
                Done(Parts(c)[i]) /\ returned[Parts(c)[i]].r \in Accepted(c, Parts(c)[i])
           /\ x = Result(c, [i \in DOMAIN Parts(c) |-> returned[Parts(c)[i]]])
  <2>1. [i \in DOMAIN Parts(c) |-> returned[Parts(c)[i]]]
          = [i \in DOMAIN Parts(c)' |-> returned'[Parts(c)'[i]]]
    BY <1>2, <1>4, <1>6
  <2>2. \A i \in DOMAIN Parts(c) :
          /\ Done(Parts(c)[i])' /\ returned'[Parts(c)[i]] = returned[Parts(c)[i]]
          /\ Accepted(c, Parts(c)[i])' = Accepted(c, Parts(c)[i])
    BY <1>2, <1>4, <1>6
  <2>3. \A i \in DOMAIN Parts(c)' :
          Done(Parts(c)[i])' /\ returned'[Parts(c)'[i]].r \in Accepted(c, Parts(c)[i])'
    BY <1>2, <1>6, <2>2
  <2>. QED  BY <1>2, <1>3, <1>6, <2>1, <2>3 DEF Ended
<1>. QED  BY <1>5, <1>6 DEF Ended

(* Before the first call the table is empty. *)
LEMMA CInvInit == Init => CInv
<1>. SUFFICES ASSUME Init PROVE CInv
  OBVIOUS
<1>. DOMAIN returned = {} /\ active = {}
  BY DEF Init
<1>. QED
  BY DEF Init, CInv, InputOK, Calls, Apart, Phases, Ends, Known

(* A new call is for a part of the value, and a new entry of the table     *)
(* ended.                                                                  *)
LEMMA CInvStep == CInv /\ [Next]_vars => CInv'
<1>. SUFFICES ASSUME CInv, [Next]_vars PROVE CInv'
  OBVIOUS
<1>. USE DEF CInv
<1>1. (\E d : Calling(d)) \/ (\E c, x : Returning(c, x)) \/ UNCHANGED vars
  BY Steps
<1>2. /\ UNCHANGED <<input, skip, hooks>>
      /\ DOMAIN returned \subseteq DOMAIN returned'
      /\ \A c \in DOMAIN returned : returned'[c] = returned[c]
  BY <1>1, TableGrows
<1>3. InputOK'
  BY <1>2 DEF InputOK
<1>4. \A c : CallOK(c) => CallOK(c)'
  BY <1>2, HookSame, WithinSame DEF CallOK
<1>5. \A c \in DOMAIN returned : \A x : x = returned'[c] => Ended(c, x)'
  <2>. SUFFICES ASSUME NEW c \in DOMAIN returned, NEW x, x = returned'[c]
                PROVE  Ended(c, x)'
    OBVIOUS
  <2>1. Ended(c, x)
    BY <1>2 DEF Ends
  <2>. QED  BY <1>1, <2>1, EndedStays
<1>6. ASSUME NEW d, Calling(d)
      PROVE  Calls' /\ Apart' /\ Phases' /\ Ends'
  <2>1. CallOK(d) /\ (d[1] = "deserialize" =>
                        Done(Root) /\ \A c \in active : c[1] = "deserialize")
                  /\ (d[1] = "serialize" =>
                        \A c \in Known : c[1] = "serialize")
    <3>1. CASE d = Root /\ active = {}
      <4>1. CallOK(d) /\ d[1] = "serialize"
        BY <3>1, WithinClosed, TypesOfParts DEF Root, SerializeTo, CallOK
      <4>2. ~Done(Root)
        BY <3>1, <1>6 DEF Calling, Known, Done
      <4>. QED  BY <4>1, <4>2 DEF Phases, Calls, CallOK
    <3>2. CASE d = Back /\ active = {} /\ Done(Root) /\ returned[Root].r = "ok"
      <4>1. CallOK(d) /\ d[1] = "deserialize"
        BY <3>2, WithinClosed, TypesOfParts DEF Back, DeserializeTo, CallOK
      <4>. QED  BY <4>1, <3>2
    <3>3. ASSUME NEW c \in active, NEW i \in DOMAIN Parts(c), d = Parts(c)[i]
          PROVE  CallOK(d) /\ (d[1] = "deserialize" =>
                        Done(Root) /\ \A b \in active : b[1] = "deserialize")
                  /\ (d[1] = "serialize" =>
                        \A b \in Known : b[1] = "serialize")
      <4>1. CallOK(c) /\ c \in Known
        BY <3>3 DEF Calls, Known
      <4>2. CallOK(d) /\ d[1] = c[1]
        BY <3>3, <4>1, PartsOK
      <4>3. \A b \in Known : b[1] \in {"serialize", "deserialize"}
        BY DEF Calls, CallOK
      <4>. QED  BY <4>1, <4>2, <4>3 DEF Phases
    <3>. QED  BY <1>6, <3>1, <3>2, <3>3 DEF Calling, Called
  <2>2. active' = active \cup {d} /\ returned' = returned /\ Known' = Known \cup {d}
        /\ d \notin Known
    BY <1>6 DEF Calling, Known
  <2>3. Calls'
    BY <2>1, <2>2, <1>4 DEF Calls
  <2>4. Apart'
    BY <2>2 DEF Apart, Known
  <2>5. Phases'
    <3>1. Root' = Root /\ (Done(Root)' <=> Done(Root))
      BY <1>2, <2>2, HookSame DEF Done
    <3>2. d[1] \in {"serialize", "deserialize"}
      BY <2>1 DEF CallOK
    <3>. QED  BY <2>1, <2>2, <3>1, <3>2 DEF Phases
  <2>6. Ends'
    BY <1>5, <2>2 DEF Ends
  <2>. QED  BY <2>3, <2>4, <2>5, <2>6
<1>7. ASSUME NEW c, NEW x, Returning(c, x)
      PROVE  Calls' /\ Apart' /\ Phases' /\ Ends'
  <2>1. /\ DOMAIN returned' = DOMAIN returned \cup {c} /\ returned'[c] = x
        /\ c \notin DOMAIN returned /\ active' = active \ {c} /\ Known' = Known
    BY <1>7, ReturnsOne
  <2>2. Calls'
    BY <2>1, <1>4 DEF Calls
  <2>3. Apart'
    BY <2>1 DEF Apart
  <2>4. Phases'
    <3>1. Root' = Root /\ (Done(Root) => Done(Root)')
      BY <1>2, <2>1, HookSame DEF Done
    <3>. QED  BY <2>1, <3>1 DEF Phases
  <2>5. Ends'
    <3>1. Ended(c, x)'
      BY <1>1, <1>7, EndedStays DEF Returning
    <3>. QED  BY <1>5, <2>1, <3>1 DEF Ends
  <2>. QED  BY <2>2, <2>3, <2>4, <2>5
<1>8. CASE UNCHANGED vars
  <2>1. Known' = Known /\ active' = active /\ returned' = returned
    BY <1>8 DEF vars, Known
  <2>2. Calls' /\ Apart'
    BY <2>1, <1>4 DEF Calls, Apart
  <2>3. Phases'
    BY <2>1, <1>2, HookSame DEF Phases, Done
  <2>4. Ends'
    BY <1>5, <2>1 DEF Ends
  <2>. QED  BY <1>3, <2>2, <2>3, <2>4
<1>. QED  BY <1>1, <1>3, <1>6, <1>7, <1>8

-----------------------------------------------------------------------------
(* WHAT A CALL RETURNS *)

ResultOK(x) == x \in {None, Error, Abort, Crash} \/ \E y : x = Ok(y)

Results == \A c \in DOMAIN returned : ResultOK(returned[c])

(* What the parts have returned, and that all of them have been accepted.  *)
Got(c) == [i \in DOMAIN Parts(c) |-> returned[Parts(c)[i]]]

Complete(c) ==
  \A i \in DOMAIN Parts(c) :
    Done(Parts(c)[i]) /\ returned[Parts(c)[i]].r \in Accepted(c, Parts(c)[i])

(* What is returned with a value. *)
LEMMA OkIs == \A y : Ok(y).r = "ok" /\ Ok(y).x = y
BY DEF Ok

(* A result is known by its outcome. *)
LEMMA OutcomeOf ==
  ASSUME NEW x, ResultOK(x)
  PROVE  /\ x.r \in Outcomes
         /\ x.r = "ok" => x = Ok(x.x)
         /\ x.r = "none" => x = None
         /\ x.r = "error" => x = Error
BY DEF ResultOK, Outcomes, None, Error, Abort, Crash, Ok

(* A call that does without one of its parts has failed.                   *)
LEMMA Completed ==
  ASSUME Results, NEW c, CallOK(c), NEW x, Ended(c, x),
         x.r = "ok" \/ (c[1] = "serialize" /\ x.r = "none")
  PROVE  Complete(c) /\ x = Result(c, Got(c))
<1>1. ASSUME NEW i \in DOMAIN Parts(c), Done(Parts(c)[i]),
             returned[Parts(c)[i]].r \notin Accepted(c, Parts(c)[i]),
             x = Broken(c, returned[Parts(c)[i]])
      PROVE  FALSE
  <2>. DEFINE y == returned[Parts(c)[i]]
  <2>1. y.r \in Outcomes
    BY <1>1, OutcomeOf DEF Results, Done
  <2>2. Default(c) /\ c[2].k \in {"struct", "array"}
    BY <1>1, <2>1 DEF Accepted
  <2>3. /\ c[1] = "serialize" => y.r # "ok" /\ y.r # "none"
        /\ c[2].k = "array" => y.r # "ok"
    BY <1>1, <2>2 DEF Accepted
  <2>4. CASE c[1] = "serialize"
    BY <1>1, <2>3, <2>4 DEF Broken
  <2>5. CASE c[1] = "deserialize" /\ c[2].k = "struct"
    BY <1>1, <2>3, <2>5 DEF Broken, Crash, Error
  <2>6. CASE c[1] = "deserialize" /\ c[2].k = "array"
    BY <1>1, <2>3, <2>6 DEF Broken, Crash, Abort
  <2>. QED  BY <2>2, <2>4, <2>5, <2>6 DEF CallOK
<1>. QED  BY <1>1 DEF Ended, Complete, Got

(* A call that is complete has results of all its parts. *)
LEMMA ResultsOfParts ==
  ASSUME Results, NEW c, Complete(c)
  PROVE  /\ DOMAIN Got(c) = DOMAIN Parts(c)
         /\ \A i \in DOMAIN Parts(c) : /\ Parts(c)[i] \in DOMAIN returned
                                       /\ Got(c)[i] = returned[Parts(c)[i]]
                                       /\ ResultOK(Got(c)[i])
                                       /\ Got(c)[i].r \in Accepted(c, Parts(c)[i])
BY DEF Results, Complete, Got, Done

(* The functions, by the hook and the type. *)
LEMMA ResultOfCont ==
  ASSUME NEW c, NEW rs, HookOf(c) = "cont"
  PROVE  Result(c, rs) = rs[1]
<1>1. ~Default(c)
  BY DEF Default
<1>2. Hooked(c, rs) = rs[1]
  BY DEF Hooked
<1>. QED  BY <1>1, <1>2 DEF Result

(* With the default, a value is written along its type. *)
LEMMA ResultOfSerialize ==
  ASSUME NEW c, NEW rs, Default(c), c[1] = "serialize"
  PROVE  Result(c, rs) = SerializeByType(c, rs)
BY DEF Result

(* And read along its type. *)
LEMMA ResultOfDeserialize ==
  ASSUME NEW c, NEW rs, Default(c), c[1] = "deserialize"
  PROVE  Result(c, rs) = DeserializeByType(c, rs)
BY DEF Result

(* What is written, for each kind of type. *)
LEMMA SerializeOf ==
  ASSUME NEW c, NEW rs, NEW t, t = c[2]
  PROVE  LET x == SerializeByType(c, rs) IN
         /\ t.k = "builtin" => x = SerializeBuiltin(t, c[4])
         /\ t.k = "pointer" => x = SerializePointer(c, rs)
         /\ t.k = "array" => x = SerializeArray(c, rs)
         /\ t.k = "typedef" => x = IF Ready(c) THEN rs[1] ELSE Crash
         /\ t.k = "struct" => x = SerializeStruct(c, rs)
         /\ t.k = "enum" => x = SerializeEnum(c)
         /\ t.k = "unknown" => x = None
         /\ t.k \notin {"builtin", "pointer", "array", "typedef", "struct",
                        "enum", "unknown"} => x = IF skip THEN None ELSE Abort
BY DEF SerializeByType

(* What is read, for each kind of type. *)
LEMMA DeserializeOf ==
  ASSUME NEW c, NEW rs, NEW t, t = c[2]
  PROVE  LET x == DeserializeByType(c, rs) IN
         /\ t.k = "builtin" => x = IF (Ready(c) /\ Answered(c, "size")) \/ t.id = "VOID"
                                   THEN DeserializeBuiltin(t, c[4]) ELSE Error
         /\ t.k = "pointer" => x = DeserializePointer(c, rs)
         /\ t.k = "array" => x = DeserializeArray(c, rs)
         /\ t.k = "struct" => x = DeserializeStruct(c, rs)
         /\ t.k = "enum" => x = IF Answered(c, "size")
                                THEN DeserializeEnum(t, c[4]) ELSE Error
         /\ t.k = "unknown" => x = None
         /\ t.k \notin {"builtin", "pointer", "array", "struct",
                        "enum", "unknown"} => x = Abort
BY DEF DeserializeByType

(* What is called for a part, by the type. *)
LEMMA SerializePartsOf ==
  ASSUME NEW t, NEW v
  PROVE  LET P == SerializeParts(t, v) IN
         /\ t.k = "pointer" /\ v = <<>> => P = <<>>
         /\ t.k = "pointer" /\ v # <<>> => P = <<SerializeTo(t.of, v[1])>>
         /\ t.k = "typedef" => P = <<SerializeTo(t.of, v)>>
         /\ t.k = "array" => P = [i \in 1..t.n |-> SerializeTo(t.of, v[i])]
         /\ t.k = "struct" => P = [i \in DOMAIN t.members |->
                                     SerializeTo(t.members[i].type, v[i])]
         /\ t.k \notin {"pointer", "typedef", "array", "struct"} => P = <<>>
BY DEF SerializeParts

(* The same for what is read. *)
LEMMA DeserializePartsOf ==
  ASSUME NEW t, NEW j
  PROVE  LET P == DeserializeParts(t, j) IN
         /\ t.k = "pointer" /\ j = Null => P = <<>>
         /\ t.k = "pointer" /\ j # Null => P = <<DeserializeTo(t.of, j)>>
         /\ t.k = "array" => P = [i \in {k \in 1..t.n : HasElement(j, k)} |->
                                    DeserializeTo(t.of, j.of[i])]
         /\ t.k = "struct" => P = [i \in DOMAIN t.members |->
                                     DeserializeTo(t.members[i].type,
                                                   Member(j, t.members[i].name))]
         /\ t.k \notin {"pointer", "array", "struct"} => P = <<>>
BY DEF DeserializeParts

(* What is made of results is a result. *)
LEMMA ResultIsOK ==
  ASSUME Results, NEW c, CallOK(c), Complete(c)
  PROVE  ResultOK(Result(c, Got(c)))
<1>. SUFFICES ASSUME NEW rs, rs = Got(c) PROVE ResultOK(Result(c, rs))
  OBVIOUS
<1>. DEFINE t  == c[2]
<1>0. /\ DOMAIN rs = DOMAIN Parts(c)
      /\ \A i \in DOMAIN Parts(c) : ResultOK(rs[i])
  BY ResultsOfParts
<1>1. CASE HookOf(c) = "cont"
  BY <1>0, <1>1, PartsOfHook, ResultOfCont
<1>2. CASE HookOf(c) # "cont" /\ ~Default(c)
  <2>1. Hooked(c, rs) \in {None, Crash} \/ \E y : Hooked(c, rs) = Ok(y)
    BY <1>2 DEF Hooked
  <2>. QED  BY <1>2, <2>1 DEF Result, ResultOK
<1>3. CASE HookOf(c) # "cont" /\ Default(c) /\ c[1] = "serialize"
  <2>1. /\ Result(c, rs) = SerializeByType(c, rs)
        /\ Ready(c) => Parts(c) = SerializeParts(t, c[4])
    BY <1>3, ResultOfSerialize, PartsOfSerialize
  <2>2. CASE t.k = "builtin"
    <3>1. SerializeBuiltin(t, c[4]) \in {None, Abort} \/ \E y : SerializeBuiltin(t, c[4]) = Ok(y)
      BY DEF SerializeBuiltin
    <3>2. Result(c, rs) = SerializeBuiltin(t, c[4])
      BY <2>1, <2>2, SerializeOf
    <3>. QED  BY <3>1, <3>2 DEF ResultOK
  <2>3. CASE t.k = "pointer"
    BY <1>0, <2>1, <2>3, SerializeOf, SerializePartsOf DEF SerializePointer, ResultOK
  <2>4. CASE t.k = "array"
    BY <2>1, <2>4, SerializeOf DEF SerializeArray, ResultOK
  <2>5. CASE t.k = "typedef"
    BY <1>0, <2>1, <2>5, SerializeOf, SerializePartsOf DEF ResultOK
  <2>6. CASE t.k = "struct"
    BY <2>1, <2>6, SerializeOf DEF SerializeStruct, ResultOK
  <2>7. CASE t.k = "enum"
    BY <2>1, <2>7, SerializeOf DEF SerializeEnum, ResultOK
  <2>. QED  BY <2>1, <2>2, <2>3, <2>4, <2>5, <2>6, <2>7, SerializeOf DEF ResultOK
<1>4. CASE HookOf(c) # "cont" /\ Default(c) /\ c[1] = "deserialize"
  <2>1. /\ Result(c, rs) = DeserializeByType(c, rs)
        /\ Ready(c) => Parts(c) = DeserializeParts(t, c[4])
    BY <1>4, ResultOfDeserialize, PartsOfDeserialize
  <2>2. CASE t.k = "builtin"
    <3>1. DeserializeBuiltin(t, c[4]) = Abort \/ \E y : DeserializeBuiltin(t, c[4]) = Ok(y)
      BY DEF DeserializeBuiltin
    <3>2. Result(c, rs) \in {DeserializeBuiltin(t, c[4]), Error}
      BY <2>1, <2>2, DeserializeOf
    <3>. QED  BY <3>1, <3>2 DEF ResultOK
  <2>3. CASE t.k = "pointer"
    <3>1. CASE c[4] = Null \/ ~Ready(c)
      BY <3>1, <2>1, <2>3, DeserializeOf DEF DeserializePointer, ResultOK
    <3>2. CASE c[4] # Null /\ Ready(c)
      <4>1. ResultOK(rs[1])
        <5>1. Parts(c) = <<DeserializeTo(t.of, c[4])>>
          BY <2>1, <2>3, <3>2, DeserializePartsOf
        <5>. QED  BY <1>0, <5>1
      <4>2. DeserializePointer(c, rs) \in {rs[1], Crash, Ok(<<>>), Ok(<<rs[1].x>>)}
        BY <3>2 DEF DeserializePointer
      <4>. QED  BY <2>1, <2>3, <4>1, <4>2, DeserializeOf DEF ResultOK
    <3>. QED  BY <3>1, <3>2
  <2>4. CASE t.k = "array"
    BY <2>1, <2>4, DeserializeOf DEF DeserializeArray, ResultOK
  <2>5. CASE t.k = "struct"
    BY <2>1, <2>5, DeserializeOf DEF DeserializeStruct, ResultOK
  <2>6. CASE t.k = "enum"
    BY <2>1, <2>6, DeserializeOf DEF DeserializeEnum, ResultOK
  <2>. QED  BY <2>1, <2>2, <2>3, <2>4, <2>5, <2>6, DeserializeOf DEF ResultOK
<1>. QED  BY <1>1, <1>2, <1>3, <1>4 DEF CallOK

(* And so is what a broken loop leaves. *)
LEMMA EndedIsOK ==
  ASSUME Results, NEW c, CallOK(c), NEW x, Ended(c, x)
  PROVE  ResultOK(x)
<1>1. ASSUME NEW i \in DOMAIN Parts(c), Done(Parts(c)[i]),
             x = Broken(c, returned[Parts(c)[i]])
      PROVE  ResultOK(x)
  <2>1. ResultOK(returned[Parts(c)[i]])
    BY <1>1 DEF Results, Done
  <2>2. Broken(c, returned[Parts(c)[i]]) \in {returned[Parts(c)[i]], Crash, Abort, Error}
    BY DEF Broken
  <2>. QED  BY <1>1, <2>1, <2>2 DEF ResultOK
<1>2. CASE Complete(c) /\ x = Result(c, Got(c))
  BY <1>2, ResultIsOK
<1>. QED  BY <1>1, <1>2 DEF Ended, Complete, Got

-----------------------------------------------------------------------------
(* JSON *)

(* The JSON a call was given: what a call of the other function has made,  *)
(* null, or none.                                                          *)
Written(j) ==
  \/ j \in {Null, Missing}
  \/ \E c \in DOMAIN returned : c[1] = "serialize" /\ returned[c] = Ok(j)

JsonOK(j) ==
  /\ j.j = "integer" => j.n \in Int
  /\ j.j \in {"object", "array"} => \A i \in DOMAIN j.of : Written(j.of[i])

Jsons ==
  /\ \A c \in DOMAIN returned : \A j :
       c[1] = "serialize" /\ returned[c] = Ok(j) => JsonOK(j)
  /\ \A c \in Known : c[1] = "deserialize" => Written(c[4])

(* What was written, or is not there, is JSON. *)
LEMMA WrittenIsOK ==
  ASSUME Jsons, NEW j, Written(j)
  PROVE  JsonOK(j)
<1>1. CASE j \in {Null, Missing}
  BY <1>1 DEF JsonOK, Null, Missing
<1>. QED  BY <1>1 DEF Written, Jsons

(* A set of numbers up to n has a greatest one. *)
LEMMA GreatestBelow ==
  ASSUME NEW n \in Nat, NEW S \in SUBSET (1..n), S # {}
  PROVE  \E x \in S : \A y \in S : y <= x
<1>. DEFINE T == {n - i : i \in S}
<1>1. T \in SUBSET Nat
  OBVIOUS
<1>2. T # {}
  <2>1. PICK i \in S : TRUE
    OBVIOUS
  <2>2. n - i \in T
    OBVIOUS
  <2>. QED  BY <2>2
<1>. HIDE DEF T
<1>3. PICK x \in T : \A y \in T : ~(<<y, x>> \in OpToRel(<, Nat))
  BY <1>1, <1>2, NatLessThanWellFounded, WFMin
<1>4. PICK i \in S : x = n - i
  BY DEF T
<1>5. \A k \in S : n - k \in T
  BY DEF T
<1>6. \A k \in S : ~(n - k < n - i)
  BY <1>1, <1>3, <1>4, <1>5 DEF OpToRel
<1>. QED  BY <1>6

(* A member of the object is what was made of the last member of its name. *)
LEMMA ObjectMembers ==
  ASSUME NEW n \in Nat, NEW t, NEW rs, DOMAIN rs = 1..n,
         NEW name \in DOMAIN Object(t, rs).of
  PROVE  \E i \in 1..n : /\ rs[i].r = "ok" /\ t.members[i].name = name
                         /\ Object(t, rs).of[name] = rs[i].x
<1>. DEFINE done == {i \in DOMAIN rs : rs[i].r = "ok"}
            S    == {i \in done : t.members[i].name = name}
            P(i) == /\ t.members[i].name = name
                    /\ \A k \in done : t.members[k].name = name => k <= i
            l    == CHOOSE i \in done : P(i)
<1>1. name \in {t.members[i].name : i \in done} /\ Object(t, rs).of[name] = rs[l].x
  BY DEF Object
<1>2. S # {} /\ S \in SUBSET (1..n)
  BY <1>1
<1>3. PICK i \in S : \A k \in S : k <= i
  BY <1>2, GreatestBelow
<1>4. i \in done /\ P(i)
  BY <1>3
<1>5. l \in done /\ P(l)
  BY <1>4
<1>. QED  BY <1>1, <1>5

(* What a call of _json_serialize has made. *)
LEMMA MadeJson ==
  ASSUME InputOK, Results, Jsons,
         NEW c, CallOK(c), c[1] = "serialize", Complete(c),
         NEW j, Result(c, Got(c)) = Ok(j)
  PROVE  JsonOK(j)
<1>. SUFFICES ASSUME NEW rs, rs = Got(c) PROVE JsonOK(j)
  OBVIOUS
<1>. DEFINE t == c[2]
            v == c[4]
<1>0. /\ DOMAIN rs = DOMAIN Parts(c)
      /\ \A i \in DOMAIN Parts(c) : /\ Parts(c)[i] \in DOMAIN returned
                                    /\ Parts(c)[i][1] = "serialize"
                                    /\ rs[i] = returned[Parts(c)[i]]
                                    /\ ResultOK(rs[i])
  BY ResultsOfParts, PartsOK
<1>1. \A i \in DOMAIN Parts(c) :
        rs[i].r = "ok" => Written(rs[i].x) /\ JsonOK(rs[i].x)
  BY <1>0, OutcomeOf, WrittenIsOK DEF Written
<1>2. CASE HookOf(c) = "cont"
  <2>1. Ok(j) = rs[1] /\ Parts(c) = <<WithoutHook(c)>>
    BY <1>2, PartsOfHook, ResultOfCont
  <2>2. 1 \in DOMAIN Parts(c) /\ rs[1].r = "ok" /\ rs[1].x = j
    BY <2>1 DEF Ok
  <2>. QED  BY <1>1, <2>2
<1>3. CASE HookOf(c) # "cont" /\ ~Default(c)
  <2>1. \/ Ok(j) = Ok([j |-> "string", s |-> c[4]]) \/ Ok(j) = None
        \/ Ok(j) = Crash
    BY <1>3 DEF Result, Hooked
  <2>. QED  BY <2>1 DEF Ok, None, Crash, JsonOK
<1>4. CASE HookOf(c) # "cont" /\ Default(c)
  <2>1. /\ Ok(j) = SerializeByType(c, rs)
        /\ Ready(c) => Parts(c) = SerializeParts(t, v)
    BY <1>4, ResultOfSerialize, PartsOfSerialize
  <2>2. WellFormed(t) /\ Shaped(t, v)
    <3>1. <<t, v>> \in input.parts
      BY WithinClosed DEF CallOK
    <3>. QED  BY <3>1, TypesOfParts, JsonAssumption DEF CallOK
  <2>3. CASE t.k = "builtin"
    <3>1. Ok(j) = SerializeBuiltin(t, v)
      BY <2>1, <2>3, SerializeOf
    <3>2. CASE t.id \in DOMAIN Modulus
      <4>1. Modulus[t.id] \in Nat /\ v \in 0 .. Modulus[t.id] - 1
        BY <2>2, <2>3, <3>2, JsonAssumption DEF Shaped, IntegerType
      <4>2. Ok(j) = Ok(Integer(Signed(v, Modulus[t.id])))
        <5>1. t.id # "DOUBLE" /\ t.id # "BOOL"
          BY <3>2, JsonAssumption
        <5>. QED  BY <3>1, <3>2, <5>1 DEF SerializeBuiltin
      <4>3. Signed(v, Modulus[t.id]) \in Int
        BY <4>1 DEF Signed
      <4>. QED  BY <4>2, <4>3 DEF Ok, Integer, JsonOK
    <3>3. CASE t.id \notin DOMAIN Modulus
      BY <3>1, <3>3 DEF SerializeBuiltin, Ok, JsonOK, None, Abort
    <3>. QED  BY <3>2, <3>3
  <2>4. CASE t.k = "pointer"
    <3>1. Ok(j) \in {Ok(Null), Crash} \/ (v # <<>> /\ Ready(c) /\ Ok(j) = rs[1])
      BY <2>1, <2>4, SerializeOf DEF SerializePointer
    <3>2. CASE v # <<>> /\ Ready(c) /\ Ok(j) = rs[1]
      <4>1. Parts(c) = <<SerializeTo(t.of, v[1])>>
        BY <2>1, <2>4, <3>2, SerializePartsOf
      <4>2. 1 \in DOMAIN Parts(c) /\ rs[1].r = "ok" /\ rs[1].x = j
        BY <4>1, <3>2 DEF Ok
      <4>. QED  BY <4>2, <1>1
    <3>. QED  BY <3>1, <3>2 DEF Ok, Null, Crash, JsonOK
  <2>5. CASE t.k = "array"
    <3>1. Ok(j) = Error \/
          Ok(j) = Ok([j |-> "array",
                      of |-> [i \in DOMAIN rs |-> IF rs[i].r = "ok" THEN rs[i].x ELSE Null]])
      BY <2>1, <2>5, SerializeOf DEF SerializeArray
    <3>2. \A i \in DOMAIN rs : Written(IF rs[i].r = "ok" THEN rs[i].x ELSE Null)
      BY <1>0, <1>1 DEF Written
    <3>. QED  BY <3>1, <3>2 DEF Ok, Error, JsonOK
  <2>6. CASE t.k = "typedef"
    <3>1. Ok(j) = Crash \/ (Ready(c) /\ Ok(j) = rs[1])
      BY <2>1, <2>6, SerializeOf
    <3>2. CASE Ready(c) /\ Ok(j) = rs[1]
      <4>1. Parts(c) = <<SerializeTo(t.of, v)>>
        BY <2>1, <2>6, <3>2, SerializePartsOf
      <4>2. 1 \in DOMAIN Parts(c) /\ rs[1].r = "ok" /\ rs[1].x = j
        BY <4>1, <3>2 DEF Ok
      <4>. QED  BY <4>2, <1>1
    <3>. QED  BY <3>1, <3>2 DEF Ok, Crash
  <2>7. CASE t.k = "struct"
    <3>1. Ok(j) \in {Error, None} \/ (Ready(c) /\ Ok(j) = Ok(Object(t, rs)))
      BY <2>1, <2>7, SerializeOf DEF SerializeStruct
    <3>2. CASE Ready(c) /\ Ok(j) = Ok(Object(t, rs))
      <4>1. /\ Len(t.members) \in Nat /\ DOMAIN t.members = 1 .. Len(t.members)
        BY <2>2, <2>7 DEF WellFormed
      <4>2. DOMAIN rs = 1 .. Len(t.members)
        BY <4>1, <1>0, <2>1, <2>7, <3>2, SerializePartsOf
      <4>3. \A name \in DOMAIN Object(t, rs).of : Written(Object(t, rs).of[name])
        BY <4>1, <4>2, <1>0, <1>1, ObjectMembers
      <4>4. j = Object(t, rs)
        BY <3>2 DEF Ok
      <4>5. Object(t, rs).j = "object"
        BY DEF Object
      <4>. QED  BY <4>3, <4>4, <4>5 DEF JsonOK
    <3>. QED  BY <3>1, <3>2 DEF Ok, Error, None
  <2>8. CASE t.k = "enum"
    <3>1. Modulus[t.id] \in Nat /\ v \in 0 .. Modulus[t.id] - 1
      BY <2>2, <2>8, JsonAssumption DEF Shaped, IntegerType, WellFormed
    <3>2. Ok(j) \in {Error, Abort, Ok(Integer(Signed(v, Modulus[t.id])))}
      BY <2>1, <2>8, SerializeOf DEF SerializeEnum
    <3>3. Signed(v, Modulus[t.id]) \in Int
      BY <3>1 DEF Signed
    <3>. QED  BY <3>2, <3>3 DEF Ok, Error, Abort, Integer, JsonOK
  <2>9. CASE t.k \notin {"builtin", "pointer", "array", "typedef", "struct", "enum"}
    <3>1. Ok(j) \in {None, Abort}
      BY <2>1, <2>9, SerializeOf
    <3>. QED  BY <3>1 DEF Ok, None, Abort
  <2>. QED  BY <2>3, <2>4, <2>5, <2>6, <2>7, <2>8, <2>9
<1>. QED  BY <1>2, <1>3, <1>4

(* What a call of _json_deserialize for a part is given. *)
LEMMA PartsWritten ==
  ASSUME InputOK, Jsons, NEW c, CallOK(c), c[1] = "deserialize", Written(c[4]),
         NEW i \in DOMAIN Parts(c)
  PROVE  Written(Parts(c)[i][4])
<1>. DEFINE t == c[2]
            j == c[4]
<1>1. CASE HookOf(c) = "cont"
  <2>1. Parts(c) = <<WithoutHook(c)>>
    BY <1>1, PartsOfHook
  <2>2. Parts(c)[i] = <<c[1], c[2], "no_hook", c[4]>>
    BY <2>1 DEF WithoutHook
  <2>. QED  BY <2>2
<1>2. CASE HookOf(c) # "cont" /\ ~(Default(c) /\ Ready(c))
  BY <1>2, PartsOfDeserialize
<1>3. CASE HookOf(c) # "cont" /\ Default(c) /\ Ready(c)
  <2>1. Parts(c) = DeserializeParts(t, j)
    BY <1>3, PartsOfDeserialize
  <2>2. JsonOK(j)
    BY WrittenIsOK
  <2>3. CASE t.k = "pointer" /\ j # Null
    <3>1. Parts(c) = <<DeserializeTo(t.of, j)>>
      BY <2>1, <2>3, DeserializePartsOf
    <3>2. Parts(c)[i] = DeserializeTo(t.of, j)
      BY <3>1
    <3>. QED  BY <3>2 DEF DeserializeTo
  <2>4. CASE t.k = "array"
    <3>1. Parts(c) = [k \in {l \in 1..t.n : HasElement(j, l)} |->
                        DeserializeTo(t.of, j.of[k])]
      BY <2>1, <2>4 DEF DeserializeParts
    <3>2. HasElement(j, i) /\ Parts(c)[i] = DeserializeTo(t.of, j.of[i])
      BY <3>1
    <3>3. Written(j.of[i])
      BY <2>2, <3>2 DEF HasElement, JsonOK
    <3>. QED  BY <3>2, <3>3 DEF DeserializeTo
  <2>5. CASE t.k = "struct"
    <3>1. Parts(c)[i] = DeserializeTo(t.members[i].type, Member(j, t.members[i].name))
      BY <2>1, <2>5 DEF DeserializeParts
    <3>2. Written(Member(j, t.members[i].name))
      BY <2>2 DEF Member, JsonOK, Written
    <3>. QED  BY <3>1, <3>2 DEF DeserializeTo
  <2>6. CASE (t.k = "pointer" /\ j = Null) \/ t.k \notin {"pointer", "array", "struct"}
    <3>1. Parts(c) = <<>>
      BY <2>1, <2>6 DEF DeserializeParts
    <3>. QED  BY <3>1
  <2>. QED  BY <2>3, <2>4, <2>5, <2>6
<1>. QED  BY <1>1, <1>2, <1>3

-----------------------------------------------------------------------------
(* VALUES *)

ValueOK(t, x) == /\ Shaped(t, x)
                 /\ \A p \in Contents(t, x) : Made(p[1], p[2])

Readings ==
  \A c \in DOMAIN returned : \A x :
    c[1] = "deserialize" /\ HookOf(c) # "own" /\ returned[c] = Ok(x) => ValueOK(c[2], x)

(* What a call of _json_deserialize has made. *)
LEMMA MadeValue ==
  ASSUME InputOK, Results, Jsons, Readings,
         NEW c, CallOK(c), c[1] = "deserialize", HookOf(c) # "own", Complete(c),
         Written(c[4]),
         NEW x, Result(c, Got(c)) = Ok(x)
  PROVE  ValueOK(c[2], x)
<1>. SUFFICES ASSUME NEW rs, rs = Got(c) PROVE ValueOK(c[2], x)
  OBVIOUS
<1>. DEFINE t == c[2]
            j == c[4]
<1>0. /\ DOMAIN rs = DOMAIN Parts(c)
      /\ \A i \in DOMAIN Parts(c) : /\ Parts(c)[i] \in DOMAIN returned
                                    /\ Parts(c)[i][1] = "deserialize"
                                    /\ rs[i] = returned[Parts(c)[i]]
                                    /\ rs[i].r \in Accepted(c, Parts(c)[i])
                                    /\ rs[i].r = "ok" => rs[i] = Ok(rs[i].x)
  BY ResultsOfParts, PartsOK, OutcomeOf
<1>1. \A i \in DOMAIN Parts(c) : rs[i].r = "ok" => Made(Parts(c)[i][2], rs[i].x)
  BY <1>0 DEF Made
<1>2. IntegerValue(j) \in Int
  BY WrittenIsOK DEF IntegerValue, JsonOK
<1>3. CASE HookOf(c) = "cont"
  <2>1. Ok(x) = rs[1] /\ Parts(c) = <<WithoutHook(c)>>
    BY <1>3, PartsOfHook, ResultOfCont
  <2>2. 1 \in DOMAIN Parts(c) /\ Parts(c)[1] = WithoutHook(c)
    BY <2>1
  <2>3. HookOf(WithoutHook(c)) = "none" /\ WithoutHook(c)[2] = t
    BY <1>3, HookAgain DEF WithoutHook
  <2>4. /\ Parts(c)[1] \in DOMAIN returned /\ Parts(c)[1][1] = "deserialize"
        /\ returned[Parts(c)[1]] = Ok(x)
    BY <1>0, <2>1, <2>2
  <2>. QED  BY <2>2, <2>3, <2>4 DEF Readings
<1>4. CASE HookOf(c) # "cont" /\ ~Default(c)
  BY <1>4 DEF Result, Hooked, Ok, None, Crash
<1>5. CASE HookOf(c) # "cont" /\ Default(c)
  <2>1. /\ Ok(x) = DeserializeByType(c, rs)
        /\ Ready(c) => Parts(c) = DeserializeParts(t, j)
    BY <1>5, ResultOfDeserialize, PartsOfDeserialize
  <2>2. WellFormed(t)
    BY JsonAssumption DEF CallOK
  <2>3. CASE t.k = "builtin"
    <3>1. Ok(x) = DeserializeBuiltin(t, j)
      BY <2>1, <2>3, DeserializeOf DEF Ok, Error
    <3>2. Contents(t, x) = {}
      BY <2>3 DEF Contents
    <3>3. CASE t.id \in DOMAIN Modulus
      <4>1. t.id # "DOUBLE" /\ t.id # "BOOL" /\ Modulus[t.id] \in Nat \ {0}
        BY <3>3, JsonAssumption
      <4>2. Ok(x) = Ok(Bits(IntegerValue(j), Modulus[t.id]))
        BY <3>1, <3>3, <4>1 DEF DeserializeBuiltin
      <4>3. x = IntegerValue(j) % Modulus[t.id]
        BY <4>2 DEF Ok, Bits
      <4>4. x \in 0 .. Modulus[t.id] - 1
        BY <1>2, <4>1, <4>3
      <4>5. Shaped(t, x)
        BY <2>3, <3>3, <4>1, <4>4 DEF Shaped, IntegerType
      <4>. QED  BY <3>2, <4>5 DEF ValueOK
    <3>4. CASE t.id \notin DOMAIN Modulus
      <4>1. t.id = "BOOL" => x \in {0, 1}
        BY <3>1, <3>4 DEF DeserializeBuiltin, Ok
      <4>2. Shaped(t, x)
        BY <2>3, <3>4, <4>1 DEF Shaped, IntegerType
      <4>. QED  BY <3>2, <4>2 DEF ValueOK
    <3>. QED  BY <3>3, <3>4
  <2>4. CASE t.k = "enum"
    <3>1. Ok(x) = Ok(Bits(IntegerValue(j), Modulus[t.id]))
      BY <2>1, <2>4, DeserializeOf DEF DeserializeEnum, Ok, Error
    <3>2. x = IntegerValue(j) % Modulus[t.id]
      BY <3>1 DEF Ok, Bits
    <3>3. Modulus[t.id] \in Nat \ {0}
      BY <2>2, <2>4, JsonAssumption DEF WellFormed
    <3>4. x \in 0 .. Modulus[t.id] - 1
      BY <1>2, <3>2, <3>3
    <3>. QED  BY <2>4, <3>4 DEF ValueOK, Shaped, Contents, IntegerType
  <2>5. CASE t.k = "pointer"
    <3>1. Ok(x) = DeserializePointer(c, rs)
      BY <2>1, <2>5, DeserializeOf
    <3>2. CASE x = <<>>
      BY <2>5, <3>2 DEF ValueOK, Shaped, Contents, IntegerType
    <3>3. CASE x # <<>>
      <4>1. j # Null /\ Ready(c)
        BY <3>1, <3>3 DEF DeserializePointer, Ok, Crash, Error
      <4>2. Parts(c) = <<DeserializeTo(t.of, j)>>
        BY <2>1, <2>5, <4>1, DeserializePartsOf
      <4>3. 1 \in DOMAIN Parts(c) /\ Parts(c)[1][2] = t.of
        BY <4>2 DEF DeserializeTo
      <4>4. rs[1].r = "ok" /\ Ok(x) = Ok(<<rs[1].x>>)
        BY <3>1, <3>3, <4>1 DEF DeserializePointer, Ok, Crash
      <4>5. x = <<rs[1].x>>
        BY <4>4 DEF Ok
      <4>6. Made(t.of, rs[1].x)
        BY <1>1, <4>3, <4>4
      <4>7. Contents(t, x) = {<<t.of, rs[1].x>>}
        BY <2>5, <4>5 DEF Contents
      <4>8. Shaped(t, x)
        BY <2>5, <4>5 DEF Shaped, IntegerType
      <4>. QED  BY <4>6, <4>7, <4>8 DEF ValueOK
    <3>. QED  BY <3>2, <3>3
  <2>6. CASE t.k = "array"
    <3>1. Ok(x) = DeserializeArray(c, rs)
      BY <2>1, <2>6, DeserializeOf
    <3>2. /\ Ready(c) /\ \A i \in 1..t.n : HasElement(j, i)
          /\ Ok(x) = Ok([i \in 1..t.n |-> rs[i].x])
      BY <3>1 DEF DeserializeArray, Ok, Error, Abort
    <3>3. x = [i \in 1..t.n |-> rs[i].x]
      BY <3>2 DEF Ok
    <3>4. Parts(c) = [k \in {l \in 1..t.n : HasElement(j, l)} |->
                        DeserializeTo(t.of, j.of[k])]
      BY <2>1, <2>6, <3>2 DEF DeserializeParts
    <3>5. \A i \in 1..t.n : i \in DOMAIN Parts(c) /\ Parts(c)[i][2] = t.of
      BY <3>2, <3>4 DEF DeserializeTo
    <3>6. \A i \in DOMAIN Parts(c) : rs[i].r = "ok"
      BY <1>0, <1>5, <2>6 DEF Accepted
    <3>7. \A i \in 1..t.n : Made(t.of, x[i])
      BY <1>1, <3>3, <3>5, <3>6
    <3>8. Contents(t, x) = {<<t.of, x[i]>> : i \in 1..t.n}
      BY <2>6 DEF Contents
    <3>9. Shaped(t, x)
      BY <2>6, <3>3 DEF Shaped, IntegerType
    <3>. QED  BY <3>7, <3>8, <3>9 DEF ValueOK
  <2>7. CASE t.k = "struct"
    <3>1. Ok(x) = DeserializeStruct(c, rs)
      BY <2>1, <2>7, DeserializeOf
    <3>2. Ready(c) /\ Ok(x) = Ok([i \in DOMAIN rs |-> rs[i].x])
      BY <3>1 DEF DeserializeStruct, Ok, Error
    <3>3. Parts(c) = [i \in DOMAIN t.members |->
                        DeserializeTo(t.members[i].type,
                                      Member(j, t.members[i].name))]
      BY <2>1, <2>7, <3>2, DeserializePartsOf
    <3>4. x = [i \in DOMAIN t.members |-> rs[i].x]
      BY <1>0, <3>2, <3>3 DEF Ok
    <3>5. \A i \in DOMAIN t.members : /\ i \in DOMAIN Parts(c)
                                      /\ Parts(c)[i][2] = t.members[i].type
      BY <3>3 DEF DeserializeTo
    <3>6. \A i \in DOMAIN Parts(c) : rs[i].r = "ok"
      BY <1>0, <1>5, <2>7 DEF Accepted
    <3>7. \A i \in DOMAIN t.members : Made(t.members[i].type, x[i])
      BY <1>1, <3>4, <3>5, <3>6
    <3>8. Contents(t, x) = {<<t.members[i].type, x[i]>> : i \in DOMAIN t.members}
      BY <2>7 DEF Contents
    <3>9. Shaped(t, x)
      BY <2>7, <3>4 DEF Shaped, IntegerType
    <3>. QED  BY <3>7, <3>8, <3>9 DEF ValueOK
  <2>8. CASE t.k \notin {"builtin", "pointer", "array", "struct", "enum"}
    <3>1. Ok(x) \in {None, Abort}
      BY <2>1, <2>8, DeserializeOf
    <3>. QED  BY <3>1 DEF Ok, None, Abort
  <2>. QED  BY <2>3, <2>4, <2>5, <2>6, <2>7, <2>8
<1>. QED  BY <1>3, <1>4, <1>5

-----------------------------------------------------------------------------
(* THE INVARIANT, COMPLETED *)

JsonInv == CInv /\ Results /\ Jsons /\ Readings

(* The facts about the table that stay true as it grows.                   *)
LEMMA FactsStay ==
  ASSUME Apart,
         (\E d : Calling(d)) \/ (\E c, x : Returning(c, x)) \/ UNCHANGED vars
  PROVE  /\ \A j : Written(j) => Written(j)'
         /\ \A j : JsonOK(j) => JsonOK(j)'
         /\ \A t, x : Made(t, x) => Made(t, x)'
         /\ \A t, x : ValueOK(t, x) => ValueOK(t, x)'
<1>1. /\ UNCHANGED <<input, skip, hooks>>
      /\ DOMAIN returned \subseteq DOMAIN returned'
      /\ \A c \in DOMAIN returned : returned'[c] = returned[c]
  BY TableGrows
<1>2. \A j : Written(j) => Written(j)'
  BY <1>1 DEF Written
<1>3. \A j : JsonOK(j) => JsonOK(j)'
  BY <1>2 DEF JsonOK
<1>4. \A t, x : Made(t, x) => Made(t, x)'
  BY <1>1 DEF Made
<1>5. \A t, x : ValueOK(t, x) => ValueOK(t, x)'
  BY <1>4 DEF ValueOK
<1>. QED  BY <1>2, <1>3, <1>4, <1>5

(* Before the first call there is nothing to be wrong. *)
LEMMA JsonInvInit == Init => JsonInv
<1>. SUFFICES ASSUME Init PROVE JsonInv
  OBVIOUS
<1>. DOMAIN returned = {} /\ active = {}
  BY DEF Init
<1>. QED
  BY CInvInit DEF JsonInv, Results, Jsons, Readings, Known

(* Each step keeps the invariant: the table grows by what its entries make. *)
LEMMA JsonInvStep == JsonInv /\ [Next]_vars => JsonInv'
<1>. SUFFICES ASSUME JsonInv, [Next]_vars PROVE JsonInv'
  OBVIOUS
<1>. USE DEF JsonInv, CInv
<1>1. CInv'
  BY CInvStep
<1>2. (\E d : Calling(d)) \/ (\E c, x : Returning(c, x)) \/ UNCHANGED vars
  BY Steps
<1>3. /\ UNCHANGED <<input, skip, hooks>>
      /\ DOMAIN returned \subseteq DOMAIN returned'
      /\ \A c \in DOMAIN returned : returned'[c] = returned[c]
  BY <1>2, TableGrows
<1>4. /\ \A x : ResultOK(x)' <=> ResultOK(x)
      /\ \A c : HookOf(c)' = HookOf(c)
  BY <1>3, HookSame DEF ResultOK
<1>5. /\ \A j : Written(j) => Written(j)'
      /\ \A j : JsonOK(j) => JsonOK(j)'
      /\ \A t, x : ValueOK(t, x) => ValueOK(t, x)'
  BY <1>2, FactsStay
<1>6. ASSUME NEW d, Calling(d)
      PROVE  Results' /\ Jsons' /\ Readings'
  <2>1. returned' = returned /\ Known' = Known \cup {d} /\ Called(d)
    BY <1>6 DEF Calling, Known
  <2>2. d[1] = "deserialize" => Written(d[4])
    <3>1. CASE d = Root
      BY <3>1 DEF Root, SerializeTo
    <3>2. CASE d = Back /\ Done(Root) /\ returned[Root].r = "ok"
      <4>1. returned[Root] = Ok(returned[Root].x) /\ Root \in DOMAIN returned
        BY <3>2, OutcomeOf DEF Results, Done
      <4>2. Root[1] = "serialize" /\ d[4] = returned[Root].x
        BY <3>2 DEF Root, Back, SerializeTo, DeserializeTo
      <4>. QED  BY <4>1, <4>2 DEF Written
    <3>3. ASSUME NEW c \in active, NEW i \in DOMAIN Parts(c), d = Parts(c)[i],
                 d[1] = "deserialize"
          PROVE  Written(d[4])
      <4>1. c \in Known /\ CallOK(c)
        BY DEF Known, Calls
      <4>2. c[1] = "deserialize"
        BY <3>3, <4>1, PartsOK
      <4>3. Written(c[4])
        BY <4>1, <4>2 DEF Jsons
      <4>. QED  BY <3>3, <4>1, <4>2, <4>3, PartsWritten
    <3>. QED  BY <2>1, <3>1, <3>2, <3>3 DEF Called
  <2>3. Results'
    BY <1>4, <2>1 DEF Results
  <2>4. Jsons'
    BY <1>5, <2>1, <2>2 DEF Jsons
  <2>5. Readings'
    BY <1>4, <1>5, <2>1 DEF Readings
  <2>. QED  BY <2>3, <2>4, <2>5
<1>7. ASSUME NEW c, NEW x, Returning(c, x)
      PROVE  Results' /\ Jsons' /\ Readings'
  <2>1. /\ DOMAIN returned' = DOMAIN returned \cup {c} /\ returned'[c] = x
        /\ Known' = Known
    BY <1>7, ReturnsOne
  <2>2. c \in Known /\ CallOK(c) /\ Ended(c, x)
    BY <1>7 DEF Returning, Known, Calls
  <2>3. ResultOK(x)
    BY <2>2, EndedIsOK
  <2>4. x.r = "ok" => Complete(c) /\ x = Result(c, Got(c))
    BY <2>2, Completed
  <2>5. Results'
    BY <1>3, <1>4, <2>1, <2>3 DEF Results
  <2>6. ASSUME NEW j, c[1] = "serialize", x = Ok(j)
        PROVE  JsonOK(j)
    <3>1. x.r = "ok"
      BY <2>6 DEF Ok
    <3>. QED  BY <2>2, <2>4, <2>6, <3>1, MadeJson
  <2>7. Jsons'
    <3>1. \A j : c[1] = "serialize" /\ x = Ok(j) => JsonOK(j)'
      BY <1>5, <2>6
    <3>. QED  BY <1>3, <1>5, <2>1, <3>1 DEF Jsons
  <2>8. ASSUME NEW y, c[1] = "deserialize", HookOf(c) # "own", x = Ok(y)
        PROVE  ValueOK(c[2], y)
    <3>1. x.r = "ok"
      BY <2>8 DEF Ok
    <3>2. Written(c[4])
      BY <2>2, <2>8 DEF Jsons
    <3>. QED  BY <2>2, <2>4, <2>8, <3>1, <3>2, MadeValue
  <2>9. Readings'
    <3>1. \A y : c[1] = "deserialize" /\ HookOf(c) # "own" /\ x = Ok(y)
                   => ValueOK(c[2], y)'
      BY <1>5, <2>8
    <3>. QED  BY <1>3, <1>4, <1>5, <2>1, <3>1 DEF Readings
  <2>. QED  BY <2>5, <2>7, <2>9
<1>8. CASE UNCHANGED vars
  <2>1. returned' = returned /\ Known' = Known
    BY <1>8 DEF vars, Known
  <2>. QED  BY <1>1, <1>4, <1>5, <2>1 DEF Results, Jsons, Readings
<1>. QED  BY <1>1, <1>2, <1>6, <1>7, <1>8

(* Every call on the stack and in the table is one for a part of the value *)
(* or of its type; the table is what the functions make of each other's    *)
(* results.                                                                *)
THEOREM Invariant == Spec => []JsonInv
<1>1. Init => JsonInv
  BY JsonInvInit
<1>2. JsonInv /\ [Next]_vars => JsonInv'
  BY JsonInvStep
<1>. QED  BY <1>1, <1>2, PTL DEF Spec

(* What _json_deserialize makes is a value of its type, of its width, with *)
(* parts made for their types, whatever the types, their depth, the hooks  *)
(* and the widths of the integers.                                         *)
THEOREM TypeCorrect == Spec => []TypeOK
<1>1. JsonInv => TypeOK
  <2>. SUFFICES ASSUME JsonInv PROVE TypeOK
    OBVIOUS
  <2>1. \A c \in DOMAIN returned : returned[c].r \in Outcomes
    BY OutcomeOf DEF JsonInv, Results
  <2>2. ASSUME NEW c \in DOMAIN returned, c[1] = "deserialize", HookOf(c) # "own",
               returned[c].r = "ok"
        PROVE  ValueOK(c[2], returned[c].x)
    <3>1. returned[c] = Ok(returned[c].x)
      BY <2>2, OutcomeOf DEF JsonInv, Results
    <3>. QED  BY <2>2, <3>1 DEF JsonInv, Readings
  <2>. QED  BY <2>1, <2>2 DEF TypeOK, ValueOK
<1>. QED  BY <1>1, Invariant, PTL

-----------------------------------------------------------------------------
(* SKIPPING *)

(* No part of the value stops the program. *)
Unstopped == \A p \in Within : ~Stops(p)

(* A result tells something of the value: an error that the controller     *)
(* fails in a part of it, JSON that a part has some.                       *)
Told(x) == /\ x.r \in {"ok", "none", "error"}
           /\ x.r = "error" => \E p \in Within : Fails(p)
           /\ x.r = "ok" => \E p \in Within : HasJson(p)

Skipping ==
  skip /\ Unstopped =>
    \A c \in DOMAIN returned : c[1] = "serialize" => Told(returned[c])

(* What can be told of the value does not change. *)
LEMMA ToldSame ==
  ASSUME UNCHANGED <<input, skip, hooks>>
  PROVE  /\ Unstopped' <=> Unstopped
         /\ \A x : Told(x)' <=> Told(x)
<1>1. Within' = Within /\ \A t : Hook(t)' = Hook(t)
  BY HookSame, WithinSame
<1>2. \A p : (Stops(p)' <=> Stops(p)) /\ (Fails(p)' <=> Fails(p))
  BY <1>1 DEF Stops, Fails
<1>3. \A p : HasJson(p)' <=> HasJson(p)
  BY <1>1 DEF HasJson
<1>. QED  BY <1>1, <1>2, <1>3 DEF Unstopped, Told

(* What a call tells when its parts have told the same.                    *)
LEMMA TellsOn ==
  ASSUME InputOK, Results, Skipping, skip, Unstopped,
         NEW c, CallOK(c), c[1] = "serialize", NEW x, Ended(c, x)
  PROVE  Told(x)
<1>. DEFINE t == c[2]
            v == c[4]
            p == <<t, v>>
<1>1. p \in Within /\ p[1] = t /\ p[2] = v /\ ~Stops(p)
  BY DEF CallOK, Unstopped
<1>2. \A i \in DOMAIN Parts(c) : Done(Parts(c)[i]) => Told(returned[Parts(c)[i]])
  BY PartsOK DEF Skipping, Done
<1>3. ASSUME NEW i \in DOMAIN Parts(c), Done(Parts(c)[i]),
             x = Broken(c, returned[Parts(c)[i]])
      PROVE  Told(x)
  BY <1>2, <1>3 DEF Broken
<1>4. ASSUME Complete(c), x = Result(c, Got(c))
      PROVE  Told(x)
  <2>. SUFFICES ASSUME NEW rs, rs = Got(c) PROVE Told(x)
    OBVIOUS
  <2>1. DOMAIN rs = DOMAIN Parts(c) /\ \A i \in DOMAIN Parts(c) : Told(rs[i])
    BY <1>2, <1>4, ResultsOfParts DEF Done
  <2>2. CASE HookOf(c) = "cont"
    BY <1>4, <2>1, <2>2, PartsOfHook, ResultOfCont
  <2>3. CASE HookOf(c) # "cont" /\ ~Default(c)
    <3>4. HookOf(c) # "crash"
      <4>1. t.k = "unknown" \/ Answered(c, "name")
        BY <1>1 DEF Stops, Answered, Answers
      <4>. QED  BY <4>1, HookKind DEF HookOf, HookKinds
    <3>1. x = Ok([j |-> "string", s |-> c[4]]) \/ x = None
      BY <1>4, <2>3, <3>4 DEF Result, Hooked
    <3>2. CASE HookOf(c) = "own"
      <4>1. HasJson(p)
        BY <1>1, <3>2 DEF HasJson, HookOf
      <4>. QED  BY <1>1, <3>1, <4>1 DEF Told, Ok, None
    <3>3. CASE HookOf(c) # "own"
      BY <1>4, <2>3, <3>3, <3>4 DEF Result, Hooked, Told, None
    <3>. QED  BY <3>2, <3>3
  <2>4. CASE HookOf(c) # "cont" /\ Default(c)
    <3>1. /\ x = SerializeByType(c, rs)
          /\ Ready(c) => Parts(c) = SerializeParts(t, v)
      BY <1>4, <2>4, ResultOfSerialize, PartsOfSerialize
    <3>2. /\ Hook(t) # "own"
          /\ Ready(c) <=> <<"parts", t>> \notin input.fails.serialize
      BY <2>4 DEF Default, HookOf, CallOK, Ready, Answered, Answers
    <3>3. CASE t.k = "builtin"
      <4>1. x = SerializeBuiltin(t, v)
        BY <3>1, <3>3, SerializeOf
      <4>2. x.r \in {"ok", "none"}
        BY <4>1 DEF SerializeBuiltin, Ok, None
      <4>3. x.r = "ok" => HasJson(p)
        <5>1. CASE t.id \in DOMAIN Modulus
          <6>1. t.id # "VOID" /\ t.id # "DOUBLE"
            BY <5>1, JsonAssumption
          <6>. QED  BY <1>1, <3>3, <6>1 DEF HasJson
        <5>2. CASE t.id \notin DOMAIN Modulus
          <6>1. WellFormed(t)
            BY JsonAssumption DEF CallOK
          <6>2. t.id \in {"DOUBLE", "BOOL", "VOID"}
            BY <3>3, <5>2, <6>1 DEF WellFormed
          <6>. QED  BY <1>1, <3>3, <4>1, <5>2, <6>2 DEF SerializeBuiltin, None, HasJson
        <5>. QED  BY <5>1, <5>2
      <4>. QED  BY <1>1, <4>2, <4>3 DEF Told
    <3>4. CASE t.k = "pointer"
      <4>1. x = SerializePointer(c, rs)
        BY <3>1, <3>4, SerializeOf
      <4>2. CASE v = <<>>
        <5>1. HasJson(p)
          BY <1>1, <3>4, <4>2 DEF HasJson
        <5>. QED  BY <1>1, <4>1, <4>2, <5>1 DEF SerializePointer, Ok, Told
      <4>3. CASE v # <<>>
        <5>1. Ready(c)
          BY <1>1, <3>2, <3>4, <4>3 DEF Stops
        <5>2. Parts(c) = <<SerializeTo(t.of, v[1])>>
          BY <3>1, <3>4, <4>3, <5>1, SerializePartsOf
        <5>3. x = rs[1]
          BY <4>1, <4>3, <5>1 DEF SerializePointer
        <5>. QED  BY <2>1, <5>2, <5>3
      <4>. QED  BY <4>2, <4>3
    <3>5. CASE t.k = "typedef"
      <4>1. Ready(c)
        BY <1>1, <3>2, <3>5 DEF Stops
      <4>2. Parts(c) = <<SerializeTo(t.of, v)>>
        BY <3>1, <3>5, <4>1, SerializePartsOf
      <4>3. x = rs[1]
        BY <3>1, <3>5, <4>1, SerializeOf
      <4>. QED  BY <2>1, <4>2, <4>3
    <3>6. CASE t.k \in {"array", "struct", "enum"} /\ ~Ready(c)
      <4>1. x = Error
        BY <3>1, <3>6, SerializeOf DEF SerializeArray, SerializeStruct, SerializeEnum
      <4>2. Fails(p)
        BY <1>1, <3>2, <3>6 DEF Fails
      <4>. QED  BY <1>1, <4>1, <4>2 DEF Told, Error
    <3>7. CASE t.k = "array" /\ Ready(c)
      <4>1. x.r = "ok"
        BY <3>1, <3>7, SerializeOf DEF SerializeArray, Ok
      <4>2. HasJson(p)
        BY <1>1, <3>7 DEF HasJson
      <4>. QED  BY <1>1, <4>1, <4>2 DEF Told
    <3>8. CASE t.k = "struct" /\ Ready(c)
      <4>1. x = SerializeStruct(c, rs)
        BY <3>1, <3>8, SerializeOf
      <4>2. x.r = "none" \/ (x.r = "ok" /\ \E i \in DOMAIN rs : rs[i].r = "ok")
        BY <3>8, <4>1 DEF SerializeStruct, Ok, None
      <4>. QED  BY <2>1, <4>2 DEF Told
    <3>9. CASE t.k = "enum" /\ Ready(c)
      <4>1. x = SerializeEnum(c)
        BY <3>1, <3>9, SerializeOf
      <4>2. x.r = "ok"
        BY <1>1, <3>2, <3>9, <4>1 DEF SerializeEnum, Stops, Ok
      <4>3. HasJson(p)
        BY <1>1, <3>9 DEF HasJson
      <4>. QED  BY <1>1, <4>2, <4>3 DEF Told
    <3>10. CASE t.k \notin {"builtin", "pointer", "typedef", "array", "struct", "enum"}
      <4>1. x = None
        BY <3>1, <3>10, SerializeOf
      <4>. QED  BY <4>1 DEF Told, None
    <3>. QED  BY <3>3, <3>4, <3>5, <3>6, <3>7, <3>8, <3>9, <3>10
  <2>. QED  BY <2>2, <2>3, <2>4
<1>. QED  BY <1>3, <1>4 DEF Ended, Complete, Got

(* A new entry of the table tells something of the value as those of its   *)
(* parts do.                                                               *)
LEMMA SkippingStep ==
  JsonInv /\ Skipping /\ [Next]_vars => Skipping'
<1>. SUFFICES ASSUME JsonInv, Skipping, [Next]_vars PROVE Skipping'
  OBVIOUS
<1>. USE DEF JsonInv, CInv
<1>1. (\E d : Calling(d)) \/ (\E c, x : Returning(c, x)) \/ UNCHANGED vars
  BY Steps
<1>2. /\ UNCHANGED <<input, skip, hooks>>
      /\ \A c \in DOMAIN returned : returned'[c] = returned[c]
  BY <1>1, TableGrows
<1>3. (Unstopped' <=> Unstopped) /\ \A x : Told(x)' <=> Told(x)
  BY <1>2, ToldSame
<1>4. ASSUME NEW c, NEW x, Returning(c, x)
      PROVE  Skipping'
  <2>1. DOMAIN returned' = DOMAIN returned \cup {c} /\ returned'[c] = x
    BY <1>4, ReturnsOne
  <2>2. CallOK(c) /\ Ended(c, x)
    BY <1>4 DEF Returning, Known, Calls
  <2>3. skip /\ Unstopped /\ c[1] = "serialize" => Told(x)
    BY <2>2, TellsOn
  <2>. QED  BY <1>2, <1>3, <2>1, <2>3 DEF Skipping
<1>5. CASE UNCHANGED returned
  BY <1>2, <1>3, <1>5 DEF Skipping
<1>. QED  BY <1>1, <1>4, <1>5 DEF Calling, vars

(* A call and one that asks no hook, or one that makes the JSON itself.    *)
LEMMA Unhooked ==
  ASSUME JsonInv, NEW c \in DOMAIN returned, c[1] = "serialize",
         returned[c].r \in {"ok", "none"}
  PROVE  \E d \in DOMAIN returned :
           /\ CallOK(d) /\ d[1] = "serialize" /\ d[2] = c[2] /\ d[4] = c[4]
           /\ returned[d] = returned[c]
           /\ Complete(d) /\ returned[d] = Result(d, Got(d))
           /\ \/ Hook(d[2]) = "own" /\ returned[d].r = "ok"
              \/ Default(d) /\ Hook(d[2]) # "own" /\ HookOf(d) # "cont"
<1>. USE DEF JsonInv, CInv
<1>1. \A d \in DOMAIN returned : CallOK(d) /\ Ended(d, returned[d])
  BY DEF Calls, Known, Ends
<1>2. \A d \in DOMAIN returned :
        d[1] = "serialize" /\ returned[d].r \in {"ok", "none"}
          => Complete(d) /\ returned[d] = Result(d, Got(d))
  <2>. TAKE d \in DOMAIN returned
  <2>. HAVE d[1] = "serialize" /\ returned[d].r \in {"ok", "none"}
  <2>1. CallOK(d) /\ Ended(d, returned[d])
    BY <1>1
  <2>2. PICK x : x = returned[d]
    OBVIOUS
  <2>3. Complete(d) /\ x = Result(d, Got(d))
    BY <2>1, <2>2, Completed
  <2>. QED  BY <2>2, <2>3
<1>3. CASE HookOf(c) = "cont"
  <2>1. Parts(c) = <<WithoutHook(c)>> /\ returned[c] = Got(c)[1]
    BY <1>2, <1>3, PartsOfHook, ResultOfCont
  <2>2. 1 \in DOMAIN Parts(c) /\ Parts(c)[1] = WithoutHook(c)
    BY <2>1
  <2>3. WithoutHook(c) \in DOMAIN returned /\ returned[WithoutHook(c)] = returned[c]
    BY <1>2, <2>1, <2>2, ResultsOfParts
  <2>4. /\ WithoutHook(c)[1] = "serialize" /\ WithoutHook(c)[2] = c[2]
        /\ WithoutHook(c)[4] = c[4] /\ HookOf(WithoutHook(c)) = "none"
    BY <1>3, HookAgain DEF WithoutHook
  <2>5. Hook(c[2]) = "cont" /\ Default(WithoutHook(c))
    BY <1>3, <2>4 DEF HookOf, Default
  <2>. QED  BY <1>1, <1>2, <2>3, <2>4, <2>5
<1>4. CASE HookOf(c) # "cont" /\ ~Default(c)
  <2>5. HookOf(c) # "crash"
    BY <1>2, ResultUnnamed DEF Crash
  <2>1. HookOf(c) \in HookKinds
    BY <2>5, HookKind
  <2>2. HookOf(c) = "own" /\ Hook(c[2]) = "own"
    BY <1>4, <2>1 DEF HookKinds, Default, HookOf
  <2>3. returned[c] = Ok([j |-> "string", s |-> c[4]])
    BY <1>2, <1>4, <2>2 DEF Result, Hooked
  <2>4. returned[c].r = "ok"
    BY <2>3 DEF Ok
  <2>. QED  BY <1>1, <1>2, <2>2, <2>4
<1>5. CASE HookOf(c) # "cont" /\ Default(c)
  <2>1. CallOK(c) /\ Hook(c[2]) # "own"
    BY <1>1, <1>5 DEF CallOK, Default, HookOf
  <2>. QED  BY <1>2, <1>5, <2>1
<1>. QED  BY <1>3, <1>4, <1>5

(* A call for p has returned with a result in R. *)
For(p, R) ==
  \E c \in DOMAIN returned :
    c[1] = "serialize" /\ c[2] = p[1] /\ c[4] = p[2] /\ returned[c].r \in R

(* A result without an error, or none, comes from such results for all     *)
(* that is seen in the value.                                              *)
LEMMA ForSeen ==
  ASSUME JsonInv, Unstopped, NEW p \in Within,
         NEW R, R \in {{"ok", "none"}, {"none"}}, For(p, R)
  PROVE  /\ \A q \in Seen(p) : For(q, R)
         /\ ~Fails(p)
         /\ R = {"none"} => ~HasJson(p)
<1>. USE DEF JsonInv, CInv
<1>1. PICK c \in DOMAIN returned :
        c[1] = "serialize" /\ c[2] = p[1] /\ c[4] = p[2] /\ returned[c].r \in R
  BY DEF For
<1>2. returned[c].r \in {"ok", "none"}
  BY <1>1
<1>3. PICK d \in DOMAIN returned :
        /\ CallOK(d) /\ d[1] = "serialize" /\ d[2] = c[2] /\ d[4] = c[4]
        /\ returned[d] = returned[c]
        /\ Complete(d) /\ returned[d] = Result(d, Got(d))
        /\ \/ Hook(d[2]) = "own" /\ returned[d].r = "ok"
           \/ Default(d) /\ Hook(d[2]) # "own" /\ HookOf(d) # "cont"
  BY <1>1, <1>2, Unhooked
<1>. DEFINE t == d[2]
            v == d[4]
<1>4. PICK x, rs : x = returned[d] /\ rs = Got(d)
  OBVIOUS
<1>5. /\ p = <<t, v>> /\ t = p[1] /\ v = p[2]
  BY <1>1, <1>3, WithinClosed, TypesOfParts
<1>6. x.r \in R /\ x.r \in {"ok", "none"} /\ x = Result(d, rs)
  BY <1>1, <1>3, <1>4
<1>7. CASE Hook(t) = "own"
  BY <1>3, <1>4, <1>5, <1>6, <1>7 DEF Seen, Fails
<1>8. CASE Default(d) /\ Hook(t) # "own" /\ HookOf(d) # "cont"
  <2>1. /\ DOMAIN rs = DOMAIN Parts(d)
        /\ \A i \in DOMAIN Parts(d) : /\ Parts(d)[i] \in DOMAIN returned
                                      /\ rs[i] = returned[Parts(d)[i]]
                                      /\ rs[i].r \in Accepted(d, Parts(d)[i])
    BY <1>3, <1>4, ResultsOfParts
  <2>2. \A i \in DOMAIN Parts(d) : \A u, w :
          Parts(d)[i] = SerializeTo(u, w) /\ rs[i].r \in R => For(<<u, w>>, R)
    BY <2>1 DEF For, SerializeTo
  <2>3. /\ x = SerializeByType(d, rs)
        /\ Ready(d) => Parts(d) = SerializeParts(t, v)
    BY <1>3, <1>6, <1>8, ResultOfSerialize, PartsOfSerialize
  <2>4. /\ Seen(p) = Contents(t, v)
        /\ Ready(d) <=> <<"parts", t>> \notin input.fails.serialize
    BY <1>3, <1>5, <1>8 DEF Seen, Ready, Answered, Answers
  <2>5. ~Stops(p)
    BY DEF Unstopped
  <2>6. CASE t.k = "pointer" /\ v = <<>>
    <3>1. Seen(p) = {} /\ ~Fails(p)
      BY <1>5, <2>4, <2>6 DEF Contents, Fails
    <3>2. x.r = "ok"
      BY <2>3, <2>6, SerializeOf DEF SerializePointer, Ok
    <3>. QED  BY <1>6, <3>1, <3>2
  <2>7. CASE t.k = "pointer" /\ v # <<>>
    <3>1. Ready(d)
      BY <1>5, <1>8, <2>4, <2>5, <2>7 DEF Stops
    <3>2. Parts(d) = <<SerializeTo(t.of, v[1])>>
      BY <2>3, <2>7, <3>1, SerializePartsOf
    <3>3. x = rs[1]
      BY <2>3, <2>7, <3>1, SerializeOf DEF SerializePointer
    <3>4. For(<<t.of, v[1]>>, R)
      BY <1>6, <2>2, <3>2, <3>3
    <3>5. Seen(p) = {<<t.of, v[1]>>}
      BY <2>4, <2>7 DEF Contents
    <3>6. ~Fails(p) /\ ~HasJson(p)
      BY <1>5, <1>8, <2>7 DEF Fails, HasJson
    <3>. QED  BY <3>4, <3>5, <3>6
  <2>8. CASE t.k = "typedef"
    <3>1. Ready(d)
      BY <1>5, <1>8, <2>4, <2>5, <2>8 DEF Stops
    <3>2. Parts(d) = <<SerializeTo(t.of, v)>>
      BY <2>3, <2>8, <3>1, SerializePartsOf
    <3>3. x = rs[1]
      BY <2>3, <2>8, <3>1, SerializeOf
    <3>4. For(<<t.of, v>>, R)
      BY <1>6, <2>2, <3>2, <3>3
    <3>5. Seen(p) = {<<t.of, v>>}
      BY <2>4, <2>8 DEF Contents
    <3>6. ~Fails(p) /\ ~HasJson(p)
      BY <1>5, <1>8, <2>8 DEF Fails, HasJson
    <3>. QED  BY <3>4, <3>5, <3>6
  <2>9. CASE t.k = "array"
    <3>1. x = SerializeArray(d, rs)
      BY <2>3, <2>9, SerializeOf
    <3>2. Ready(d) /\ x.r = "ok"
      BY <1>6, <3>1 DEF SerializeArray, Ok, Error
    <3>3. R = {"ok", "none"}
      BY <1>6, <3>2
    <3>4. Parts(d) = [i \in 1..t.n |-> SerializeTo(t.of, v[i])]
      BY <2>3, <2>9, <3>2, SerializePartsOf
    <3>5. \A i \in DOMAIN Parts(d) : rs[i].r \in R
      BY <1>3, <1>8, <2>1, <2>9, <3>3 DEF Accepted
    <3>6. \A i \in 1..t.n : For(<<t.of, v[i]>>, R)
      BY <2>2, <3>4, <3>5
    <3>7. Seen(p) = {<<t.of, v[i]>> : i \in 1..t.n}
      BY <2>4, <2>9 DEF Contents
    <3>8. ~Fails(p)
      BY <1>5, <2>4, <3>2 DEF Fails
    <3>. QED  BY <3>3, <3>6, <3>7, <3>8
  <2>10. CASE t.k = "struct"
    <3>1. x = SerializeStruct(d, rs)
      BY <2>3, <2>10, SerializeOf
    <3>2. Ready(d) /\ (x.r = "none" => \A i \in DOMAIN rs : rs[i].r # "ok")
      BY <1>6, <3>1 DEF SerializeStruct, Ok, None, Error
    <3>3. Parts(d) = [i \in DOMAIN t.members |-> SerializeTo(t.members[i].type, v[i])]
      BY <2>3, <2>10, <3>2, SerializePartsOf
    <3>4. \A i \in DOMAIN Parts(d) : rs[i].r \in {"ok", "none"}
      BY <1>3, <1>8, <2>1, <2>10 DEF Accepted
    <3>5. \A i \in DOMAIN Parts(d) : rs[i].r \in R
      BY <1>6, <2>1, <3>2, <3>4
    <3>6. \A i \in DOMAIN t.members : For(<<t.members[i].type, v[i]>>, R)
      BY <2>2, <3>3, <3>5
    <3>7. Seen(p) = {<<t.members[i].type, v[i]>> : i \in DOMAIN t.members}
      BY <2>4, <2>10 DEF Contents
    <3>8. ~Fails(p)
      BY <1>5, <2>4, <3>2 DEF Fails
    <3>9. ~HasJson(p)
      BY <1>5, <1>8, <2>10 DEF HasJson
    <3>. QED  BY <3>6, <3>7, <3>8, <3>9
  <2>11. CASE t.k = "enum"
    <3>1. x = SerializeEnum(d)
      BY <2>3, <2>11, SerializeOf
    <3>2. Ready(d) /\ x.r = "ok"
      BY <1>6, <3>1 DEF SerializeEnum, Ok, Error, Abort
    <3>3. Seen(p) = {} /\ ~Fails(p)
      BY <1>5, <2>4, <2>11, <3>2 DEF Contents, Fails
    <3>. QED  BY <1>6, <3>2, <3>3
  <2>12. CASE t.k = "builtin"
    <3>1. x = SerializeBuiltin(t, v)
      BY <2>3, <2>12, SerializeOf
    <3>2. HasJson(p) => x.r = "ok"
      <4>1. WellFormed(t)
        BY <1>3, JsonAssumption DEF CallOK
      <4>2. CASE t.id \in DOMAIN Modulus
        <5>1. t.id # "DOUBLE" /\ t.id # "BOOL"
          BY <4>2, JsonAssumption
        <5>2. x = Ok(Integer(Signed(v, Modulus[t.id])))
          BY <3>1, <4>2, <5>1 DEF SerializeBuiltin
        <5>. QED  BY <5>2 DEF Ok
      <4>3. CASE t.id \notin DOMAIN Modulus
        <5>1. t.id \in {"DOUBLE", "BOOL", "VOID"}
          BY <2>12, <4>1, <4>3 DEF WellFormed
        <5>. QED  BY <1>5, <1>8, <2>12, <3>1, <4>3, <5>1
                  DEF SerializeBuiltin, HasJson, Ok
      <4>. QED  BY <4>2, <4>3
    <3>3. Seen(p) = {} /\ ~Fails(p)
      BY <1>5, <2>4, <2>12 DEF Contents, Fails
    <3>. QED  BY <1>6, <3>2, <3>3
  <2>13. CASE t.k \notin {"pointer", "typedef", "array", "struct", "enum", "builtin"}
    BY <1>5, <1>8, <2>4, <2>13 DEF Contents, Fails, HasJson
  <2>. QED  BY <2>6, <2>7, <2>8, <2>9, <2>10, <2>11, <2>12, <2>13
<1>. QED  BY <1>3, <1>7, <1>8

(* A result of json_serialize without an error, or none, comes from such   *)
(* results for everything in the value.                                    *)
LEMMA ForAll ==
  ASSUME JsonInv, Unstopped, NEW R, R \in {{"ok", "none"}, {"none"}},
         For(<<input.type, input.value>>, R)
  PROVE  \A p \in Within : For(p, R)
<1>. DEFINE S == {p \in Within : For(p, R)}
<1>1. S \in SUBSET input.parts /\ <<input.type, input.value>> \in S
  BY WithinClosed DEF JsonInv, CInv
<1>2. \A p \in S : Seen(p) \subseteq S
  BY ForSeen, WithinClosed DEF JsonInv, CInv
<1>3. \A p \in Within : p \in S
  BY <1>1, <1>2 DEF Within
<1>. QED  BY <1>3

(* With JSON_FLAG_SKIP_UNKNOWN an error of the controller anywhere in the  *)
(* value is an error of json_serialize, and without one the value has JSON *)
(* exactly if one of its parts has, at whatever depth.                     *)
THEOREM Skips == Spec => []SkipsOnlyUnrepresentable
<1>1. Init => Skipping
  <2>1. Init => DOMAIN returned = {}
    BY DEF Init
  <2>. QED  BY <2>1 DEF Skipping
<1>2. JsonInv /\ Skipping /\ [Next]_vars => Skipping'
  BY SkippingStep
<1>3. JsonInv /\ Skipping => SkipsOnlyUnrepresentable
  <2>. SUFFICES ASSUME JsonInv, Skipping, Done(Root), skip, Unstopped
                PROVE  returned[Root].r = IF \E p \in Within : Fails(p) THEN "error"
                                     ELSE IF \E p \in Within : HasJson(p) THEN "ok"
                                     ELSE "none"
    BY DEF SkipsOnlyUnrepresentable, Unstopped
  <2>. DEFINE x == returned[Root]
              p == <<input.type, input.value>>
  <2>1. Root \in DOMAIN returned /\ Root[1] = "serialize"
        /\ Root[2] = p[1] /\ Root[4] = p[2]
    BY DEF Done, Root, SerializeTo
  <2>2. Told(x)
    BY <2>1 DEF Skipping
  <2>3. CASE x.r = "error"
    BY <2>2, <2>3 DEF Told
  <2>4. CASE x.r \in {"ok", "none"}
    <3>1. For(p, {"ok", "none"})
      BY <2>1, <2>4 DEF For
    <3>2. \A q \in Within : ~Fails(q)
      BY <3>1, ForAll, ForSeen
    <3>3. CASE x.r = "ok"
      BY <2>2, <3>2, <3>3 DEF Told
    <3>4. CASE x.r = "none"
      <4>1. For(p, {"none"})
        BY <2>1, <3>4 DEF For
      <4>2. \A q \in Within : ~HasJson(q)
        BY <4>1, ForAll, ForSeen
      <4>. QED  BY <3>2, <3>4, <4>2
    <3>. QED  BY <2>4, <3>3, <3>4
  <2>. QED  BY <2>2, <2>3, <2>4 DEF Told
<1>. QED  BY <1>1, <1>2, <1>3, Invariant, PTL DEF Spec

-----------------------------------------------------------------------------
(* THE ROUND TRIP *)

AllInvertible ==
  \A p \in Within : Invertible(p) /\ \A f \in input.fails.deserialize : f[2] # p[1]

(* All that is invertible has JSON, and null is that of a null pointer.    *)
Solid(c, x) ==
  /\ x.r # "none"
  /\ x = Ok(Null) => c[2].k = "pointer" /\ c[4] = <<>> /\ Hook(c[2]) # "own"

(* d reads back what c has made. *)
Inverse(c, d) ==
  /\ c[1] = "serialize" /\ d[1] = "deserialize"
  /\ d[2] = c[2] /\ d[3] = c[3] /\ returned[c] = Ok(d[4])

Solids ==
  AllInvertible => \A c \in DOMAIN returned :
                     c[1] = "serialize" => Solid(c, returned[c])

Trips ==
  AllInvertible => \A c, d \in DOMAIN returned :
                     Inverse(c, d) => returned[d] = Ok(c[4])

(* What is invertible does not change. *)
LEMMA InvertibleSame ==
  ASSUME UNCHANGED <<input, skip, hooks>>
  PROVE  /\ AllInvertible' <=> AllInvertible
         /\ \A c, x : Solid(c, x)' <=> Solid(c, x)
<1>1. Within' = Within /\ \A t : Hook(t)' = Hook(t)
  BY HookSame, WithinSame
<1>2. \A p : Invertible(p)' <=> Invertible(p)
  BY <1>1 DEF Invertible
<1>3. \A c, x : Solid(c, x)' <=> Solid(c, x)
  BY <1>1 DEF Solid
<1>. QED  BY <1>1, <1>2, <1>3 DEF AllInvertible

(* An invertible value is serialised to something if its parts are. *)
LEMMA SolidOn ==
  ASSUME InputOK, Results, Solids, AllInvertible,
         NEW c, CallOK(c), c[1] = "serialize", NEW x, Ended(c, x)
  PROVE  Solid(c, x)
<1>. DEFINE t == c[2]
            v == c[4]
            p == <<t, v>>
<1>1. /\ p \in Within /\ p[1] = t /\ p[2] = v /\ Invertible(p)
      /\ WellFormed(t)
  BY JsonAssumption DEF CallOK, AllInvertible
<1>2. CASE x.r \notin {"ok", "none"}
  BY <1>2 DEF Solid, Ok
<1>3. CASE x.r \in {"ok", "none"}
  <2>1. Complete(c) /\ x = Result(c, Got(c))
    BY <1>3, Completed
  <2>2. PICK rs : rs = Got(c)
    OBVIOUS
  <2>3. /\ DOMAIN rs = DOMAIN Parts(c)
        /\ \A i \in DOMAIN Parts(c) : /\ Solid(Parts(c)[i], rs[i])
                                      /\ rs[i].r \in Accepted(c, Parts(c)[i])
    BY <2>1, <2>2, ResultsOfParts, PartsOK DEF Solids
  <2>4. CASE HookOf(c) = "cont"
    <3>1. Parts(c) = <<WithoutHook(c)>> /\ x = rs[1]
      BY <2>1, <2>2, <2>4, PartsOfHook, ResultOfCont
    <3>2. Solid(WithoutHook(c), x)
      BY <2>3, <3>1
    <3>. QED  BY <3>2 DEF Solid, WithoutHook
  <2>5. CASE HookOf(c) = "own"
    <3>1. x = Ok([j |-> "string", s |-> c[4]])
      BY <2>1, <2>5 DEF Result, Hooked, Default
    <3>. QED  BY <3>1 DEF Solid, Ok, Null
  <2>6. CASE HookOf(c) = "none"
    <3>1. Default(c) /\ HookOf(c) # "cont" /\ Hook(t) \notin {"own", "declines"}
      <4>1. Hook(t) # "own"
        BY <2>6 DEF HookOf, CallOK
      <4>2. Hook(t) # "declines"
        BY <1>1, <4>1 DEF Invertible
      <4>. QED  BY <2>6, <4>1, <4>2 DEF Default
    <3>2. /\ x = SerializeByType(c, rs)
          /\ Ready(c) => Parts(c) = SerializeParts(t, v)
      BY <2>1, <2>2, <3>1, ResultOfSerialize, PartsOfSerialize
    <3>3. CASE t.k = "builtin"
      <4>1. x = SerializeBuiltin(t, v)
        BY <3>2, <3>3, SerializeOf
      <4>2. t.id # "VOID" /\ (t.id = "DOUBLE" => v # NaN)
        BY <1>1, <3>1, <3>3 DEF Invertible
      <4>3. CASE t.id \in DOMAIN Modulus
        <5>1. t.id # "DOUBLE" /\ t.id # "BOOL"
          BY <4>3, JsonAssumption
        <5>2. x = Ok(Integer(Signed(v, Modulus[t.id])))
          BY <4>1, <4>3, <5>1 DEF SerializeBuiltin
        <5>. QED  BY <5>2 DEF Solid, Ok, Null, Integer
      <4>4. CASE t.id \notin DOMAIN Modulus
        <5>1. t.id \in {"DOUBLE", "BOOL"}
          BY <1>1, <3>3, <4>2, <4>4 DEF WellFormed
        <5>. QED  BY <4>1, <4>2, <4>4, <5>1 DEF SerializeBuiltin, Solid, Ok, Null
      <4>. QED  BY <4>3, <4>4
    <3>4. CASE t.k = "pointer"
      <4>1. x = SerializePointer(c, rs)
        BY <3>2, <3>4, SerializeOf
      <4>2. CASE v = <<>>
        BY <3>1, <3>4, <4>1, <4>2 DEF SerializePointer, Solid, Ok
      <4>3. CASE v # <<>> /\ ~Ready(c)
        BY <4>1, <4>3 DEF SerializePointer, Solid, Ok, Crash
      <4>4. CASE v # <<>> /\ Ready(c)
        <5>1. x = rs[1]
          BY <4>1, <4>4 DEF SerializePointer
        <5>2. Parts(c) = <<SerializeTo(t.of, v[1])>>
          BY <3>2, <3>4, <4>4, SerializePartsOf
        <5>3. Solid(SerializeTo(t.of, v[1]), x)
          BY <2>3, <5>1, <5>2
        <5>4. ~(t.of.k = "pointer" /\ v[1] = <<>> /\ Hook(t.of) # "own")
          BY <1>1, <3>1, <3>4, <4>4 DEF Invertible
        <5>. QED  BY <5>3, <5>4 DEF Solid, SerializeTo
      <4>. QED  BY <4>2, <4>3, <4>4
    <3>5. CASE t.k = "array"
      <4>1. x = SerializeArray(c, rs)
        BY <3>2, <3>5, SerializeOf
      <4>. QED  BY <4>1 DEF SerializeArray, Solid, Ok, Null, Error
    <3>6. CASE t.k = "struct"
      <4>1. x = SerializeStruct(c, rs)
        BY <3>2, <3>6, SerializeOf
      <4>2. CASE ~Ready(c)
        BY <4>1, <4>2 DEF SerializeStruct, Solid, Ok, Error
      <4>3. CASE Ready(c)
        <5>1. DOMAIN Parts(c) = DOMAIN t.members /\ 1 \in DOMAIN t.members
          BY <1>1, <3>2, <3>6, <4>3, SerializePartsOf DEF WellFormed
        <5>2. rs[1].r = "ok" /\ 1 \in DOMAIN rs
          BY <2>3, <3>1, <3>6, <5>1 DEF Solid, Accepted
        <5>3. x = Ok(Object(t, rs))
          BY <4>1, <4>3, <5>2 DEF SerializeStruct
        <5>4. Object(t, rs).j = "object"
          BY DEF Object
        <5>5. Object(t, rs) # Null
          BY <5>4 DEF Null
        <5>. QED  BY <5>3, <5>5 DEF Solid, Ok
      <4>. QED  BY <4>2, <4>3
    <3>7. CASE t.k = "enum"
      <4>1. x = SerializeEnum(c)
        BY <3>2, <3>7, SerializeOf
      <4>. QED  BY <4>1 DEF SerializeEnum, Solid, Ok, Null, Integer, Error, Abort
    <3>. QED  BY <1>1, <3>1, <3>3, <3>4, <3>5, <3>6, <3>7 DEF Invertible
  <2>7. CASE HookOf(c) = "declines"
    BY <1>1, <2>7 DEF Invertible, HookOf
  <2>8. HookOf(c) # "crash"
    BY <1>3, <2>1, ResultUnnamed DEF Crash
  <2>. QED  BY <2>4, <2>5, <2>6, <2>7, <2>8, HookKind DEF HookKinds
<1>. QED  BY <1>2, <1>3

(* A call that has been satisfied by what its parts returned ends so.      *)
LEMMA Unbroken ==
  ASSUME Results, NEW d, CallOK(d), NEW x, Ended(d, x),
         Default(d) /\ d[2].k \in {"struct", "array"} =>
           \A i \in DOMAIN Parts(d) :
             Done(Parts(d)[i]) => /\ returned[Parts(d)[i]].r = "ok"
                                  /\ Answers(d, "size", Parts(d)[i][2])
  PROVE  Complete(d) /\ x = Result(d, Got(d))
<1>1. ASSUME NEW i \in DOMAIN Parts(d), Done(Parts(d)[i])
      PROVE  returned[Parts(d)[i]].r \in Accepted(d, Parts(d)[i])
  <2>1. returned[Parts(d)[i]].r \in Outcomes
    BY <1>1, OutcomeOf DEF Results, Done
  <2>2. CASE Default(d) /\ d[2].k \in {"struct", "array"}
    <3>1. returned[Parts(d)[i]].r = "ok" /\ Answers(d, "size", Parts(d)[i][2])
      BY <1>1, <2>2
    <3>. QED  BY <2>2, <3>1 DEF Accepted
  <2>. QED  BY <2>1, <2>2 DEF Accepted
<1>. QED  BY <1>1 DEF Ended, Complete, Got

(* The controller answers all that is asked to read an invertible value.   *)
LEMMA AllAnswered ==
  ASSUME AllInvertible, NEW d, d[1] = "deserialize", NEW p \in Within
  PROVE  \A q : Answers(d, q, p[1])
<1>. SUFFICES ASSUME NEW q, ~Answers(d, q, p[1]) PROVE FALSE
  OBVIOUS
<1>1. <<q, p[1]>> \in input.fails.deserialize
  BY DEF Answers
<1>2. <<q, p[1]>>[2] = p[1]
  OBVIOUS
<1>. QED  BY <1>1, <1>2 DEF AllInvertible

(* The integer of the bits, and the bits of that. *)
LEMMA SignedBits ==
  ASSUME NEW m \in Nat \ {0}, m % 2 = 0, NEW v \in 0 .. m - 1
  PROVE  Bits(Signed(v, m), m) = v
<1>1. CASE 2 * v < m
  BY <1>1 DEF Signed, Bits
<1>2. CASE ~(2 * v < m)
  <2>1. (v - m) % m = v
    OBVIOUS
  <2>. QED  BY <1>2, <2>1 DEF Signed, Bits
<1>. QED  BY <1>1, <1>2

(* The JSON of a struct whose members have names of their own.             *)
LEMMA MemberOf ==
  ASSUME NEW n \in Nat, NEW t, NEW rs, DOMAIN rs = 1..n,
         \A i, k \in 1..n : t.members[i].name = t.members[k].name => i = k,
         NEW i \in 1..n, rs[i].r = "ok"
  PROVE  Member(Object(t, rs), t.members[i].name) = rs[i].x
<1>1. /\ t.members[i].name \in DOMAIN Object(t, rs).of
      /\ Object(t, rs).j = "object"
  BY DEF Object
<1>2. Object(t, rs).of[t.members[i].name] = rs[i].x
  BY <1>1, ObjectMembers
<1>. QED  BY <1>1, <1>2 DEF Member

(* d reads back what c has made if this is so for the parts.               *)
LEMMA TripOn ==
  ASSUME JsonInv, Solids, Trips, AllInvertible,
         NEW c \in DOMAIN returned, NEW d, CallOK(d), Inverse(c, d),
         NEW x, Ended(d, x)
  PROVE  x = Ok(c[4])
<1>. USE DEF JsonInv, CInv
<1>. DEFINE t == c[2]
            v == c[4]
            j == d[4]
            p == <<t, v>>
<1>1. /\ c[1] = "serialize" /\ d[1] = "deserialize"
      /\ d[2] = t /\ d[3] = c[3] /\ returned[c] = Ok(j) /\ CallOK(c)
  BY DEF Inverse, Calls, Known
<1>2. /\ p \in Within /\ p[1] = t /\ p[2] = v /\ Invertible(p)
      /\ WellFormed(t) /\ Shaped(t, v)
      /\ \A q \in {"name", "parts", "size"} : Answered(d, q)
  <2>1. p \in Within
    BY <1>1 DEF CallOK
  <2>2. p \in input.parts
    BY <2>1, WithinClosed
  <2>3. \A q : Answers(d, q, t)
    BY <1>1, <2>1, AllAnswered
  <2>. QED  BY <1>1, <2>1, <2>2, <2>3, TypesOfParts, JsonAssumption
            DEF CallOK, AllInvertible, Answered
<1>3. Complete(c) /\ Ok(j) = Result(c, Got(c))
  <2>1. returned[c].r = "ok"
    BY <1>1 DEF Ok
  <2>2. PICK y : y = returned[c]
    OBVIOUS
  <2>3. Ended(c, y)
    BY <2>2 DEF Ends
  <2>4. Complete(c) /\ y = Result(c, Got(c))
    BY <1>1, <2>1, <2>2, <2>3, Completed
  <2>. QED  BY <1>1, <2>2, <2>4
<1>4. HookOf(d) = HookOf(c) /\ HookOf(c) # "crash"
  <2>1. HookOf(c) # "crash"
    BY <1>3, ResultUnnamed DEF Ok, Crash
  <2>. QED  BY <1>1, <1>2, <2>1 DEF HookOf
<1>5. PICK rs, qs : rs = Got(c) /\ qs = Got(d)
  OBVIOUS
<1>6. /\ DOMAIN rs = DOMAIN Parts(c)
      /\ \A i \in DOMAIN Parts(c) : /\ Parts(c)[i] \in DOMAIN returned
                                    /\ rs[i] = returned[Parts(c)[i]]
                                    /\ rs[i].r \in Accepted(c, Parts(c)[i])
                                    /\ rs[i].r = "ok" => rs[i] = Ok(rs[i].x)
                                    /\ rs[i].r # "none"
  BY <1>1, <1>3, <1>5, ResultsOfParts, PartsOK, OutcomeOf DEF Solids, Solid
<1>7. \A i \in DOMAIN Parts(d) : \A u, w, y :
        /\ i \in DOMAIN Parts(c) /\ Parts(c)[i] = SerializeTo(u, w)
        /\ rs[i] = Ok(y) /\ Parts(d)[i] = DeserializeTo(u, y)
        /\ Done(Parts(d)[i])
        => returned[Parts(d)[i]] = Ok(w)
  <2>. TAKE i \in DOMAIN Parts(d)
  <2>. TAKE u, w, y
  <2>. HAVE /\ i \in DOMAIN Parts(c) /\ Parts(c)[i] = SerializeTo(u, w)
            /\ rs[i] = Ok(y) /\ Parts(d)[i] = DeserializeTo(u, y)
            /\ Done(Parts(d)[i])
  <2>1. Parts(c)[i] \in DOMAIN returned /\ returned[Parts(c)[i]] = Ok(y)
    BY <1>6
  <2>2. Inverse(Parts(c)[i], Parts(d)[i]) /\ Parts(c)[i][4] = w
    BY <2>1 DEF Inverse, SerializeTo, DeserializeTo
  <2>. QED  BY <2>1, <2>2 DEF Trips, Done
<1>8. CASE HookOf(c) = "cont"
  <2>1. Parts(c) = <<WithoutHook(c)>> /\ Ok(j) = rs[1]
    BY <1>3, <1>5, <1>8, PartsOfHook, ResultOfCont
  <2>2. Parts(d) = <<WithoutHook(d)>> /\ ~Default(d)
    BY <1>4, <1>8, PartsOfHook DEF Default
  <2>3. Complete(d) /\ x = qs[1]
    BY <1>4, <1>5, <1>8, <2>2, Unbroken, ResultOfCont
  <2>4. WithoutHook(d) \in DOMAIN returned /\ x = returned[WithoutHook(d)]
    BY <1>5, <2>2, <2>3, ResultsOfParts
  <2>5. WithoutHook(c) \in DOMAIN returned /\ returned[WithoutHook(c)] = Ok(j)
    BY <1>6, <2>1
  <2>6. Inverse(WithoutHook(c), WithoutHook(d)) /\ WithoutHook(c)[4] = v
    BY <1>1, <2>5 DEF Inverse, WithoutHook
  <2>. QED  BY <2>4, <2>5, <2>6 DEF Trips
<1>9. CASE HookOf(c) = "own"
  <2>1. Ok(j) = Ok([j |-> "string", s |-> v])
    BY <1>1, <1>3, <1>9 DEF Result, Hooked, Default
  <2>2. j.j = "string" /\ j.s = v
    BY <2>1 DEF Ok
  <2>3. ~Default(d) /\ HookOf(d) = "own"
    BY <1>1, <1>4, <1>9 DEF Default
  <2>4. x = Result(d, qs)
    BY <1>5, <2>3, Unbroken
  <2>. QED  BY <1>1, <2>2, <2>3, <2>4 DEF Result, Hooked
<1>10. CASE HookOf(c) = "none"
  <2>1. /\ Default(c) /\ Default(d) /\ HookOf(c) # "cont" /\ HookOf(d) # "cont"
        /\ Hook(t) # "own"
    BY <1>1, <1>4, <1>10 DEF Default, HookOf, CallOK
  <2>2. /\ Ok(j) = SerializeByType(c, rs)
        /\ Ready(c) => Parts(c) = SerializeParts(t, v)
    BY <1>1, <1>3, <1>5, <2>1, ResultOfSerialize, PartsOfSerialize
  <2>10. \A q \in Contents(t, v) : q \in Within /\ Answers(d, "size", q[1])
    BY <1>1, <1>2, <2>1, WithinClosed, AllAnswered DEF Seen
  <2>11. Ready(d)
    <3>1. ASSUME t.k = "array", t.n > 0 PROVE Answers(d, "size", t.of)
      <4>1. 1 \in 1..t.n
        BY <1>2, <3>1 DEF WellFormed
      <4>2. <<t.of, v[1]>> \in Contents(t, v)
        BY <3>1, <4>1 DEF Contents
      <4>. QED  BY <2>10, <4>2
    <3>. QED  BY <1>1, <1>2, <3>1 DEF Ready
  <2>3. Parts(d) = DeserializeParts(t, j)
    BY <1>1, <2>1, <2>11, PartsOfDeserialize
  <2>4. t.k \notin {"struct", "array"} => Complete(d) /\ x = DeserializeByType(d, qs)
    BY <1>1, <1>5, <2>1, Unbroken, ResultOfDeserialize
  <2>5. CASE t.k = "builtin"
    <3>1. Ok(j) = SerializeBuiltin(t, v) /\ x = DeserializeBuiltin(t, j)
      BY <1>1, <1>2, <2>2, <2>4, <2>5, <2>11, SerializeOf, DeserializeOf
    <3>2. CASE t.id \in DOMAIN Modulus
      <4>1. /\ t.id # "DOUBLE" /\ t.id # "BOOL"
            /\ Modulus[t.id] \in Nat \ {0} /\ Modulus[t.id] % 2 = 0
        BY <3>2, JsonAssumption
      <4>2. v \in 0 .. Modulus[t.id] - 1
        BY <1>2, <2>5, <3>2, <4>1 DEF Shaped, IntegerType
      <4>3. Ok(j) = Ok(Integer(Signed(v, Modulus[t.id])))
        BY <3>1, <3>2, <4>1 DEF SerializeBuiltin
      <4>4. IntegerValue(j) = Signed(v, Modulus[t.id])
        BY <4>3 DEF Ok, Integer, IntegerValue
      <4>5. x = Ok(Bits(IntegerValue(j), Modulus[t.id]))
        BY <3>1, <3>2, <4>1 DEF DeserializeBuiltin
      <4>6. Bits(Signed(v, Modulus[t.id]), Modulus[t.id]) = v
        BY <4>1, <4>2, SignedBits
      <4>. QED  BY <4>4, <4>5, <4>6
    <3>3. CASE t.id \notin DOMAIN Modulus
      <4>1. t.id \in {"DOUBLE", "BOOL"} /\ (t.id = "DOUBLE" => v # NaN)
        BY <1>2, <2>1, <2>5, <3>3 DEF WellFormed, Invertible
      <4>2. CASE t.id = "DOUBLE"
        <5>1. Ok(j) = Ok([j |-> "real", x |-> v])
          BY <3>1, <3>3, <4>1, <4>2 DEF SerializeBuiltin
        <5>2. j.j = "real" /\ j.x = v
          BY <5>1 DEF Ok
        <5>. QED  BY <3>1, <3>3, <4>2, <5>2 DEF DeserializeBuiltin
      <4>3. CASE t.id = "BOOL"
        <5>1. Ok(j) = Ok([j |-> IF v # 0 THEN "true" ELSE "false"])
          BY <3>1, <3>3, <4>3 DEF SerializeBuiltin
        <5>2. j.j = IF v # 0 THEN "true" ELSE "false"
          BY <5>1 DEF Ok
        <5>3. v \in {0, 1}
          BY <1>2, <2>5, <3>3, <4>3 DEF Shaped, IntegerType
        <5>. QED  BY <3>1, <3>3, <4>3, <5>2, <5>3 DEF DeserializeBuiltin
      <4>. QED  BY <4>1, <4>2, <4>3
    <3>. QED  BY <3>2, <3>3
  <2>6. CASE t.k = "enum"
    <3>1. Ok(j) = SerializeEnum(c) /\ x = DeserializeEnum(t, j)
      BY <1>1, <1>2, <2>2, <2>4, <2>6, SerializeOf, DeserializeOf
    <3>2. Ok(j) = Ok(Integer(Signed(v, Modulus[t.id])))
      BY <3>1 DEF SerializeEnum, Ok, Error, Abort
    <3>3. IntegerValue(j) = Signed(v, Modulus[t.id])
      BY <3>2 DEF Ok, Integer, IntegerValue
    <3>4. /\ Modulus[t.id] \in Nat \ {0} /\ Modulus[t.id] % 2 = 0
          /\ v \in 0 .. Modulus[t.id] - 1
      BY <1>2, <2>6, JsonAssumption DEF WellFormed, Shaped, IntegerType
    <3>5. Bits(Signed(v, Modulus[t.id]), Modulus[t.id]) = v
      BY <3>4, SignedBits
    <3>. QED  BY <3>1, <3>3, <3>5 DEF DeserializeEnum
  <2>7. CASE t.k = "pointer"
    <3>1. Ok(j) = SerializePointer(c, rs) /\ x = DeserializePointer(d, qs)
      BY <1>1, <2>2, <2>4, <2>7, SerializeOf, DeserializeOf
    <3>2. CASE v = <<>>
      <4>1. j = Null
        BY <3>1, <3>2 DEF SerializePointer, Ok
      <4>. QED  BY <1>1, <1>2, <2>11, <3>1, <3>2, <4>1 DEF DeserializePointer
    <3>3. CASE v # <<>>
      <4>1. Ready(c) /\ Ok(j) = rs[1]
        BY <3>1, <3>3 DEF SerializePointer, Ok, Crash
      <4>2. Parts(c) = <<SerializeTo(t.of, v[1])>>
        BY <2>2, <2>7, <3>3, <4>1, SerializePartsOf
      <4>3. j # Null
        <5>1. Solid(c, Ok(j))
          BY <1>1 DEF Solids
        <5>. QED  BY <3>3, <5>1 DEF Solid
      <4>4. Parts(d) = <<DeserializeTo(t.of, j)>>
        BY <2>3, <2>7, <4>3, DeserializePartsOf
      <4>5. Done(DeserializeTo(t.of, j)) /\ qs[1] = returned[DeserializeTo(t.of, j)]
        BY <1>5, <2>4, <2>7, <4>4, ResultsOfParts DEF Done
      <4>6. qs[1] = Ok(v[1])
        BY <1>7, <4>1, <4>2, <4>4, <4>5
      <4>7. x = Ok(<<v[1]>>)
        BY <1>1, <1>2, <2>11, <3>1, <4>3, <4>6 DEF DeserializePointer, Ok
      <4>8. v = <<v[1]>>
        BY <1>2, <2>7, <3>3 DEF Shaped, IntegerType
      <4>. QED  BY <4>7, <4>8
    <3>. QED  BY <3>2, <3>3
  <2>8. CASE t.k = "array"
    <3>1. Ok(j) = SerializeArray(c, rs)
      BY <2>2, <2>8, SerializeOf
    <3>2. Ready(c)
      BY <3>1 DEF SerializeArray, Ok, Error
    <3>3. Parts(c) = [i \in 1..t.n |-> SerializeTo(t.of, v[i])]
      BY <2>2, <2>8, <3>2, SerializePartsOf
    <3>4. \A i \in 1..t.n : i \in DOMAIN rs /\ rs[i].r = "ok" /\ rs[i] = Ok(rs[i].x)
      BY <1>1, <1>6, <2>1, <2>8, <3>3 DEF Accepted
    <3>5. j = [j |-> "array", of |-> [i \in DOMAIN rs |->
                                        IF rs[i].r = "ok" THEN rs[i].x ELSE Null]]
      BY <3>1, <3>2 DEF SerializeArray, Ok
    <3>6. \A i \in 1..t.n : HasElement(j, i) /\ j.of[i] = rs[i].x
      BY <3>4, <3>5 DEF HasElement
    <3>7. \A i \in DOMAIN Parts(d) : /\ i \in 1..t.n
                                     /\ Parts(d)[i] = DeserializeTo(t.of, rs[i].x)
      BY <2>3, <2>8, <3>6 DEF DeserializeParts
    <3>8. \A i \in 1..t.n : i \in DOMAIN Parts(d)
      BY <2>3, <2>8, <3>6 DEF DeserializeParts
    <3>9. \A i \in DOMAIN Parts(d) :
            Done(Parts(d)[i]) => returned[Parts(d)[i]] = Ok(v[i])
      <4>. TAKE i \in DOMAIN Parts(d)
      <4>1. i \in 1..t.n /\ Parts(d)[i] = DeserializeTo(t.of, rs[i].x)
        BY <3>7
      <4>2. i \in DOMAIN Parts(c) /\ Parts(c)[i] = SerializeTo(t.of, v[i])
        BY <3>3, <4>1
      <4>3. rs[i] = Ok(rs[i].x)
        BY <3>4, <4>1
      <4>. QED  BY <1>7, <4>1, <4>2, <4>3
    <3>10. Complete(d) /\ x = Result(d, qs)
      <4>1. \A i \in DOMAIN Parts(d) :
              Done(Parts(d)[i]) => returned[Parts(d)[i]].r = "ok"
        BY <3>9, OkIs
      <4>2. \A i \in DOMAIN Parts(d) : Answers(d, "size", Parts(d)[i][2])
        <5>. TAKE i \in DOMAIN Parts(d)
        <5>1. i \in 1..t.n /\ Parts(d)[i][2] = t.of
          BY <3>7 DEF DeserializeTo
        <5>2. <<t.of, v[i]>> \in Contents(t, v)
          BY <2>8, <5>1 DEF Contents
        <5>. QED  BY <2>10, <5>1, <5>2
      <4>. QED  BY <1>5, <4>1, <4>2, Unbroken
    <3>11. \A i \in 1..t.n : qs[i] = Ok(v[i])
      BY <1>5, <3>8, <3>9, <3>10, ResultsOfParts DEF Done
    <3>12. x = DeserializeArray(d, qs)
      BY <1>1, <2>1, <2>8, <3>10, ResultOfDeserialize, DeserializeOf
    <3>13. x = Ok([i \in 1..t.n |-> qs[i].x])
      BY <1>1, <1>2, <2>11, <3>6, <3>12 DEF DeserializeArray
    <3>14. [i \in 1..t.n |-> qs[i].x] = [i \in 1..t.n |-> v[i]]
      <4>1. \A i \in 1..t.n : qs[i].x = v[i]
        BY <3>11, OkIs
      <4>. QED  BY <4>1
    <3>15. v = [i \in 1..t.n |-> v[i]]
      BY <1>2, <2>8 DEF Shaped, IntegerType
    <3>. QED  BY <3>13, <3>14, <3>15
  <2>9. CASE t.k = "struct"
    <3>1. Ok(j) = SerializeStruct(c, rs)
      BY <2>2, <2>9, SerializeOf
    <3>2. Ready(c)
      BY <3>1 DEF SerializeStruct, Ok, Error
    <3>3. j = Object(t, rs)
      BY <3>1, <3>2 DEF SerializeStruct, Ok, None
    <3>4. Parts(c) = [i \in DOMAIN t.members |-> SerializeTo(t.members[i].type, v[i])]
      BY <2>2, <2>9, <3>2, SerializePartsOf
    <3>5. /\ Len(t.members) \in Nat /\ DOMAIN t.members = 1 .. Len(t.members)
          /\ DOMAIN rs = 1 .. Len(t.members)
      BY <1>2, <1>6, <2>9, <3>4 DEF WellFormed
    <3>6. \A i \in DOMAIN rs : rs[i].r = "ok" /\ rs[i] = Ok(rs[i].x)
      BY <1>1, <1>6, <2>1, <2>9 DEF Accepted
    <3>7. \A i, k \in DOMAIN t.members : t.members[i].name = t.members[k].name => i = k
      BY <1>2, <2>1, <2>9 DEF Invertible
    <3>8. \A i \in DOMAIN t.members : Member(j, t.members[i].name) = rs[i].x
      <4>. TAKE i \in DOMAIN t.members
      <4>1. PICK n \in Nat : n = Len(t.members)
        BY <3>5
      <4>2. /\ DOMAIN rs = 1..n /\ i \in 1..n /\ rs[i].r = "ok"
            /\ \A k, l \in 1..n : t.members[k].name = t.members[l].name => k = l
        BY <3>5, <3>6, <3>7, <4>1
      <4>3. Member(Object(t, rs), t.members[i].name) = rs[i].x
        BY <4>2, MemberOf
      <4>. QED  BY <3>3, <4>3
    <3>9. /\ DOMAIN Parts(d) = DOMAIN t.members
          /\ \A i \in DOMAIN t.members :
               Parts(d)[i] = DeserializeTo(t.members[i].type, rs[i].x)
      BY <2>3, <2>9, <3>8 DEF DeserializeParts
    <3>10. \A i \in DOMAIN Parts(d) :
             Done(Parts(d)[i]) => returned[Parts(d)[i]] = Ok(v[i])
      <4>. TAKE i \in DOMAIN Parts(d)
      <4>1. i \in DOMAIN t.members /\ Parts(d)[i] = DeserializeTo(t.members[i].type, rs[i].x)
        BY <3>9
      <4>2. i \in DOMAIN Parts(c) /\ Parts(c)[i] = SerializeTo(t.members[i].type, v[i])
        BY <3>4, <4>1
      <4>3. rs[i] = Ok(rs[i].x)
        BY <3>5, <3>6, <4>1
      <4>. QED  BY <1>7, <4>1, <4>2, <4>3
    <3>11. Complete(d) /\ x = Result(d, qs)
      <4>1. \A i \in DOMAIN Parts(d) :
              Done(Parts(d)[i]) => returned[Parts(d)[i]].r = "ok"
        BY <3>10, OkIs
      <4>2. \A i \in DOMAIN Parts(d) : Answers(d, "size", Parts(d)[i][2])
        <5>. TAKE i \in DOMAIN Parts(d)
        <5>1. i \in DOMAIN t.members /\ Parts(d)[i][2] = t.members[i].type
          BY <3>9 DEF DeserializeTo
        <5>2. <<t.members[i].type, v[i]>> \in Contents(t, v)
          BY <2>9, <5>1 DEF Contents
        <5>. QED  BY <2>10, <5>1, <5>2
      <4>. QED  BY <1>5, <4>1, <4>2, Unbroken
    <3>12. \A i \in DOMAIN t.members : i \in DOMAIN qs /\ qs[i] = Ok(v[i])
      BY <1>5, <3>9, <3>10, <3>11, ResultsOfParts DEF Done
    <3>13. DOMAIN qs = DOMAIN t.members
      BY <1>5, <3>9, <3>11, ResultsOfParts
    <3>14. x = DeserializeStruct(d, qs)
      BY <1>1, <2>1, <2>9, <3>11, ResultOfDeserialize, DeserializeOf
    <3>15. x = Ok([i \in DOMAIN qs |-> qs[i].x])
      BY <1>1, <1>2, <2>11, <3>14 DEF DeserializeStruct
    <3>16. [i \in DOMAIN qs |-> qs[i].x] = [i \in DOMAIN t.members |-> v[i]]
      <4>1. \A i \in DOMAIN t.members : qs[i].x = v[i]
        BY <3>12, OkIs
      <4>. QED  BY <3>13, <4>1
    <3>17. v = [i \in DOMAIN t.members |-> v[i]]
      BY <1>2, <2>9 DEF Shaped, IntegerType
    <3>. QED  BY <3>15, <3>16, <3>17
  <2>. QED  BY <1>2, <2>1, <2>5, <2>6, <2>7, <2>8, <2>9 DEF Invertible
<1>11. CASE HookOf(c) = "declines"
  BY <1>2, <1>11 DEF Invertible, HookOf
<1>12. HookOf(c) \in HookKinds
  BY <1>4, HookKind
<1>. QED  BY <1>8, <1>9, <1>10, <1>11, <1>12 DEF HookKinds

(* A value is read back as its parts are. *)
LEMMA TripsStep ==
  JsonInv /\ Solids /\ Trips /\ [Next]_vars => Solids' /\ Trips'
<1>. SUFFICES ASSUME JsonInv, Solids, Trips, [Next]_vars PROVE Solids' /\ Trips'
  OBVIOUS
<1>. USE DEF JsonInv, CInv
<1>1. (\E d : Calling(d)) \/ (\E c, x : Returning(c, x)) \/ UNCHANGED vars
  BY Steps
<1>2. /\ UNCHANGED <<input, skip, hooks>>
      /\ \A c \in DOMAIN returned : returned'[c] = returned[c]
  BY <1>1, TableGrows
<1>3. (AllInvertible' <=> AllInvertible) /\ \A c, x : Solid(c, x)' <=> Solid(c, x)
  BY <1>2, InvertibleSame
<1>4. ASSUME NEW b, NEW x, Returning(b, x)
      PROVE  Solids' /\ Trips'
  <2>1. DOMAIN returned' = DOMAIN returned \cup {b} /\ returned'[b] = x
    BY <1>4, ReturnsOne
  <2>2. CallOK(b) /\ Ended(b, x) /\ b \in active
    BY <1>4 DEF Returning, Known, Calls
  <2>3. AllInvertible /\ b[1] = "serialize" => Solid(b, x)
    BY <2>2, SolidOn
  <2>4. Solids'
    BY <1>2, <1>3, <2>1, <2>3 DEF Solids
  <2>5. ASSUME AllInvertible, NEW c \in DOMAIN returned, NEW d \in DOMAIN returned,
               Inverse(c, d)'
        PROVE  returned'[d] = Ok(c[4])
    <3>1. Inverse(c, d)
      BY <1>2, <2>5 DEF Inverse
    <3>. QED  BY <1>2, <2>5, <3>1 DEF Trips
  <2>6. ASSUME AllInvertible, NEW c \in DOMAIN returned, Inverse(c, b)'
        PROVE  returned'[b] = Ok(c[4])
    <3>1. Inverse(c, b)
      BY <1>2, <2>6 DEF Inverse
    <3>. QED  BY <2>1, <2>2, <2>6, <3>1, TripOn
  <2>7. ASSUME NEW d \in DOMAIN returned, Inverse(b, d)'
        PROVE  FALSE
    <3>1. b[1] = "serialize" /\ d[1] = "deserialize" /\ d \in Known
      BY <2>7 DEF Inverse, Known
    <3>. QED  BY <2>2, <3>1 DEF Phases
  <2>8. ~Inverse(b, b)'
    BY DEF Inverse
  <2>9. Trips'
    BY <1>3, <2>1, <2>5, <2>6, <2>7, <2>8 DEF Trips
  <2>. QED  BY <2>4, <2>9
<1>5. CASE UNCHANGED returned
  <2>1. \A c, d : Inverse(c, d)' <=> Inverse(c, d)
    BY <1>5 DEF Inverse
  <2>. QED  BY <1>3, <1>5, <2>1 DEF Solids, Trips
<1>. QED  BY <1>1, <1>4, <1>5 DEF Calling, vars

(* What is made of an invertible value is read back as it was, whatever    *)
(* its type, its depth, its hooks and the widths of its integers.          *)
THEOREM RoundTrips == Spec => []RoundTrip
<1>1. Init => Solids /\ Trips
  <2>1. Init => DOMAIN returned = {}
    BY DEF Init
  <2>. QED  BY <2>1 DEF Solids, Trips
<1>2. JsonInv /\ Solids /\ Trips /\ [Next]_vars => Solids' /\ Trips'
  BY TripsStep
<1>3. JsonInv /\ Trips => RoundTrip
  <2>. SUFFICES ASSUME JsonInv, Trips, Done(Root), returned[Root].r = "ok",
                       Done(Back), AllInvertible
                PROVE  returned[Back] = Ok(input.value)
    BY DEF RoundTrip, AllInvertible
  <2>1. returned[Root] = Ok(returned[Root].x)
    BY OutcomeOf DEF JsonInv, Results, Done
  <2>2. Inverse(Root, Back) /\ Root[4] = input.value
    BY <2>1 DEF Inverse, Root, Back, SerializeTo, DeserializeTo
  <2>. QED  BY <2>2 DEF Trips, Done
<1>. QED  BY <1>1, <1>2, <1>3, Invariant, PTL DEF Spec
=============================================================================
