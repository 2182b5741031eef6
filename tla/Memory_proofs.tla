------------------------------ MODULE Memory_proofs ------------------------------
(***************************************************************************)
(* Proofs about kept values and typed memory, for any number of threads,   *)
(* any size of the type and any width of size_t.                           *)
(***************************************************************************)
EXTENDS Memory, Caches_proofs

-----------------------------------------------------------------------------
(* Memory runs the getters of Caches.                                      *)

(* A step of Memory is a step of one getter, or none. *)
LEMMA CachePart ==
  ASSUME [Next]_vars
  PROVE  \/ UNCHANGED cacheVars
         \/ \E t \in Threads : Getting(t) \/ \E f \in Facts : Get(t, f)
<1>1. CASE UNCHANGED vars
  BY <1>1 DEF vars
<1>2. ASSUME NEW t \in Threads, Getting(t) PROVE \E u \in Threads : Getting(u)
  BY <1>2
<1>3. ASSUME NEW t \in Threads, Allocating(t)
      PROVE  UNCHANGED cacheVars \/ \E f \in Facts : Get(t, f)
  BY <1>3, MemoryAssumption DEF Allocating, AskFact, CallFunction, CallMacro, Pointee,
       ByType, Sized, FreshSized, Unref
<1> QED
  BY <1>1, <1>2, <1>3 DEF Next

(* No step of Memory breaks the invariant of the caches.                   *)
LEMMA CInvNext == CInv /\ [Next]_vars => CInv'
<1> SUFFICES ASSUME CInv, [Next]_vars PROVE CInv'
  OBVIOUS
<1>1. CASE UNCHANGED cacheVars
  BY <1>1, CInvUnchanged
<1>2. ASSUME NEW t \in Threads, NEW f \in Facts, Get(t, f) PROVE CInv'
  BY <1>2, CInvGet
<1>3. ASSUME NEW t \in Threads, Getting(t) PROVE CInv'
  BY <1>3, CInvAsk, CInvStore, CInvMark, CInvRead DEF Getting
<1> QED
  BY <1>1, <1>2, <1>3, CachePart

(* The values kept, and the getters that fill them, are always as they     *)
(* should be, whoever allocates meanwhile.                                 *)
THEOREM CacheInvariant == Spec => []CInv
<1>1. Init => CInv
  BY CInvInit DEF Init
<1> QED
  BY <1>1, CInvNext, PTL DEF Spec

(* If lists of members are first used by one thread, a getter returns what *)
(* the controller answered, never a part of it and never what was there    *)
(* before, for any number of threads (r_type_size, r_string_quark,         *)
(* r_enum_member_value_signed, r_aggregate_type_nmembers,                  *)
(* r_array_type_size).                                                     *)
THEOREM AnswersAreRight == ASSUME ~VectorsShared PROVE Spec => []AnswersRight
<1>1. CInv => AnswersRight
  BY DEF CInv, RightWhereExact, Exact, AnswersRight
<1> QED
  BY <1>1, CacheInvariant, PTL

(* And to its callers a kept value is then the controller itself: no       *)
(* failure is remembered, no success forgotten (Oracle).                   *)
THEOREM CachesImplementOracle == ASSUME ~VectorsShared PROVE Spec => KeepsAnswers
<1>1. Init => Kept!Init
  BY OracleInit DEF Init
<1>2. CInv /\ [Next]_vars => [Kept!Next]_(Kept!vars)
  <2> SUFFICES ASSUME CInv, [Next]_vars PROVE [Kept!Next]_(Kept!vars)
    OBVIOUS
  <2>1. CASE UNCHANGED cacheVars
    BY <2>1, OracleUnchanged
  <2>2. ASSUME NEW t \in Threads, NEW f \in Facts, Get(t, f) PROVE Kept!Next
    BY <2>2, OracleGet DEF Kept!Next
  <2>3. ASSUME NEW t \in Threads, Getting(t) PROVE Kept!Next \/ UNCHANGED Kept!vars
    BY <2>3, OracleAsk, OracleStore, OracleMark, OracleRead DEF Getting, Kept!Next
  <2> QED
    BY <2>1, <2>2, <2>3, CachePart
<1> QED
  BY <1>1, <1>2, CacheInvariant, PTL DEF Spec, KeepsAnswers, Kept!Spec

-----------------------------------------------------------------------------
(* Sizes.                                                                  *)

(* A product with a factor that is not 0 is as large as the other factor.  *)
LEMMA Product == \A a, b \in Nat : a * b \in Nat /\ (b # 0 => a * b >= a)
OBVIOUS

(* A remainder is small, and a small number is its own remainder.          *)
LEMMA ModSmall ==
  \A x \in Nat : x % Modulus \in 0 .. Modulus - 1 /\ (x < Modulus => x % Modulus = x)
BY MemoryAssumption

(* The fields of a record of a set of records. *)
LEMMA Fields ==
  ASSUME NEW F, NEW S, NEW C, NEW r \in [fn : F, macro : BOOLEAN, size : S, n : C]
  PROVE  r.fn \in F /\ r.macro \in BOOLEAN /\ r.size \in S /\ r.n \in C
OBVIOUS

(* What a request asks for. *)
LEMMA RequestSizes ==
  ASSUME NEW r \in Requests
  PROVE  /\ r.size \in Nat /\ r.n \in Nat /\ r.size * r.n \in Nat
         /\ r.fn \in {"malloc", "malloc_sized", "calloc", "calloc_sized"}
         /\ r.macro \in BOOLEAN
         /\ r.fn = "malloc" => r.size = Size /\ r.n = 1
<1>1. /\ r.size \in Nat /\ r.n \in Nat
      /\ r.fn \in {"malloc", "malloc_sized", "calloc", "calloc_sized"}
      /\ r.macro \in BOOLEAN
      /\ r.fn = "malloc" => r.size = Size /\ r.n = 1
  <2>1. AskedSizes \subseteq Nat /\ Counts \subseteq Nat /\ Size \in Nat
    BY MemoryAssumption
  <2>2. CASE r \in [fn : {"malloc"}, macro : BOOLEAN, size : {Size}, n : {1}]
    BY <2>1, <2>2
  <2>3. CASE r \in [fn : {"malloc_sized"}, macro : BOOLEAN, size : AskedSizes, n : {1}]
    <3>1. /\ r.fn \in {"malloc_sized"} /\ r.macro \in BOOLEAN
          /\ r.size \in AskedSizes /\ r.n \in {1}
      BY <2>3, Fields, Zenon
    <3>2. r.size \in Nat
      BY <2>1, <3>1
    <3>3. r.n = 1
      BY <3>1
    <3>4. r.fn = "malloc_sized"
      BY <3>1
    <3>5. "malloc_sized" # "malloc"
      OBVIOUS
    <3> QED
      BY <3>1, <3>2, <3>3, <3>4, <3>5
  <2>4. CASE r \in [fn : {"calloc"}, macro : BOOLEAN, size : {Size}, n : Counts]
    BY <2>1, <2>4
  <2>5. CASE r \in [fn : {"calloc_sized"}, macro : BOOLEAN, size : AskedSizes, n : Counts]
    BY <2>1, <2>5
  <2>6. \/ r \in [fn : {"malloc"}, macro : BOOLEAN, size : {Size}, n : {1}]
        \/ r \in [fn : {"malloc_sized"}, macro : BOOLEAN, size : AskedSizes, n : {1}]
        \/ r \in [fn : {"calloc"}, macro : BOOLEAN, size : {Size}, n : Counts]
        \/ r \in [fn : {"calloc_sized"}, macro : BOOLEAN, size : AskedSizes, n : Counts]
    BY Zenon DEF Requests
  <2> QED
    BY <2>2, <2>3, <2>4, <2>5, <2>6
<1> QED
  BY <1>1, Product

(* The size asked for is a size_t, and the product unless that wraps.      *)
LEMMA RealSizes ==
  ASSUME NEW r \in Requests
  PROVE  /\ RealSize(r) \in 0 .. Modulus - 1
         /\ r.size * r.n < Modulus => RealSize(r) = r.size * r.n
BY RequestSizes, ModSmall DEF RealSize

(* The block of a request. *)
LEMMA Blocks ==
  ASSUME NEW r \in Requests
  PROVE  /\ NewBlock(r) \in [len : 0 .. Modulus - 1, size : 0 .. Modulus - 1,
                             zeroed : 0 .. Modulus - 1]
         /\ NewBlock(r).size = RealSize(r)
         /\ Zeroes(r) => NewBlock(r).zeroed = RealSize(r)
         /\ ~Wraps(r) => NewBlock(r).len = Header + RealSize(r)
                         /\ RealSize(r) = r.size * r.n
<1>1. RealSize(r) \in 0 .. Modulus - 1 /\ Header + RealSize(r) \in Nat
  BY RealSizes, MemoryAssumption
<1>2. (Header + RealSize(r)) % Modulus \in 0 .. Modulus - 1
  BY <1>1, ModSmall
<1>3. ~Wraps(r) => /\ RealSize(r) = r.size * r.n
                   /\ (Header + RealSize(r)) % Modulus = Header + RealSize(r)
  <2> SUFFICES ASSUME ~Wraps(r)
               PROVE  /\ RealSize(r) = r.size * r.n
                      /\ (Header + RealSize(r)) % Modulus = Header + RealSize(r)
    OBVIOUS
  <2> DEFINE product == r.size * r.n
  <2>1. product \in Nat /\ (product < Modulus => RealSize(r) = product)
    BY RequestSizes, RealSizes
  <2>2. ~(Header + product >= Modulus)
    BY DEF Wraps
  <2> HIDE DEF product
  <2>3. product < Modulus /\ Header + product < Modulus /\ Header + product \in Nat
    BY <2>1, <2>2, MemoryAssumption
  <2>4. (Header + product) % Modulus = Header + product
    BY <2>3, ModSmall
  <2> QED
    BY <2>1, <2>3, <2>4 DEF product
<1> QED
  BY <1>1, <1>2, <1>3, MemoryAssumption DEF NewBlock

(* The assertion fails only for a caller that asks for too little.         *)
Misused(r) == r.fn # "malloc" /\ (r.size < Size \/ r.n = 0 \/ r.size * r.n >= Modulus)

(* A request that does not cover its type asks for too little, or wraps.   *)
LEMMA AssertMeansMisuse ==
  ASSUME NEW r \in Requests, ~Covers(r, Size)
  PROVE  Misused(r)
<1>1. RealSize(r) < Size
  BY RealSizes, MemoryAssumption DEF Covers
<1>2. CASE r.size * r.n >= Modulus
  <2>1. r.fn # "malloc"
    BY <1>2, RequestSizes, MemoryAssumption
  <2> QED
    BY <1>2, <2>1 DEF Misused
<1>3. CASE r.size * r.n < Modulus
  <2>1. r.size * r.n < Size
    BY <1>1, <1>3, RealSizes
  <2>2. r.n # 0 => r.size < Size
    BY <2>1, RequestSizes, Product, MemoryAssumption
  <2>3. r.fn # "malloc"
    BY <2>1, RequestSizes, MemoryAssumption
  <2> QED
    BY <2>2, <2>3 DEF Misused
<1> QED
  BY <1>2, <1>3, RequestSizes, MemoryAssumption

-----------------------------------------------------------------------------
(* The inductive invariant of allocations.                                 *)

BlockType == [len : 0 .. Modulus - 1, size : 0 .. Modulus - 1, zeroed : 0 .. Modulus - 1]
TypesType == [pointer : 0 .. 1, pointee : 0 .. 2]
Places == {"out", "pointee", "by_type", "sized", "fresh"}

AllocTypes ==
  /\ pc \in [Threads -> Places]
  /\ request \in [Threads -> Requests \cup {NoRequest}]
  /\ block \in [Threads -> BlockType]
  /\ types \in [Threads -> TypesType]
  /\ abort \in BOOLEAN

(* A function waits for the getter of the size, a macro for nothing; both  *)
(* have a request and no block yet.                                        *)
Waits(t) ==
  /\ pc[t] \in {"by_type", "sized"} =>
       /\ about[t] = "size"
       /\ todo[t] = <<>> => got[t] \in {"right", "failed"}
  /\ pc[t] \in {"pointee", "fresh"} => todo[t] = <<>>
  /\ pc[t] # "out" => request[t] \in Requests /\ block[t] = NoBlock

(* A block is the one of its request, and covers the type. *)
BlockOfRequest(t) ==
  block[t] # NoBlock =>
    /\ request[t] \in Requests
    /\ block[t] = NewBlock(request[t])
    /\ Size <= RealSize(request[t])

(* The types a macro has made, by how far it is. *)
TypesOfMacro(t) ==
  /\ pc[t] = "pointee" => types[t] = [pointer |-> 1, pointee |-> 0]
  /\ pc[t] = "fresh" => types[t] = [pointer |-> 1, pointee |-> 1]
  /\ pc[t] \in {"by_type", "sized"} => types[t] = NoTypes
  /\ pc[t] = "out" => /\ types[t].pointer = 0
                      /\ block[t] = NoBlock => types[t] = NoTypes
                      /\ types[t].pointee \in {0, 2}

AbortMisused == abort => \E t \in Threads : request[t] \in Requests /\ Misused(request[t])

MInv ==
  /\ AllocTypes
  /\ \A t \in Threads : Waits(t) /\ BlockOfRequest(t) /\ (~abort => TypesOfMacro(t))
  /\ AbortMisused

(* Other threads are where they were. *)
Elsewhere(t) ==
  \A u \in Threads \ {t} :
    /\ about'[u] = about[u] /\ todo'[u] = todo[u] /\ got'[u] = got[u]
    /\ pc'[u] = pc[u] /\ request'[u] = request[u]
    /\ block'[u] = block[u] /\ types'[u] = types[u]

(* So a step of t need only keep what concerns t. *)
LEMMA MStep ==
  ASSUME MInv, ~abort, NEW t \in Threads, Elsewhere(t), AllocTypes',
         Waits(t)', BlockOfRequest(t)', ~abort' => TypesOfMacro(t)', AbortMisused'
  PROVE  MInv'
<1>1. ASSUME NEW u \in Threads \ {t}
      PROVE  Waits(u)' /\ BlockOfRequest(u)' /\ (~abort' => TypesOfMacro(u)')
  <2>1. Waits(u) /\ BlockOfRequest(u) /\ TypesOfMacro(u)
    BY DEF MInv
  <2>2. /\ about'[u] = about[u] /\ todo'[u] = todo[u] /\ got'[u] = got[u]
        /\ pc'[u] = pc[u] /\ request'[u] = request[u]
        /\ block'[u] = block[u] /\ types'[u] = types[u]
    BY DEF Elsewhere
  <2>3. Waits(u)'
    BY <2>1, <2>2 DEF Waits
  <2>4. BlockOfRequest(u)'
    BY <2>1, <2>2 DEF BlockOfRequest
  <2>5. TypesOfMacro(u)'
    BY <2>1, <2>2 DEF TypesOfMacro
  <2> QED
    BY <2>3, <2>4, <2>5
<1> QED
  BY <1>1 DEF MInv

(* The constants of blocks and macros have their types.                    *)
LEMMA Nothing ==
  /\ NoBlock \in BlockType /\ NoTypes \in TypesType
  /\ [pointer |-> 1, pointee |-> 0] \in TypesType
  /\ [pointer |-> 1, pointee |-> 1] \in TypesType
  /\ [pointer |-> 0, pointee |-> 2] \in TypesType
  /\ NoTypes.pointer = 0 /\ [pointer |-> 0, pointee |-> 2].pointer = 0
  /\ NoTypes.pointee = 0 /\ [pointer |-> 0, pointee |-> 2].pointee = 2
<1>1. 0 \in 0 .. Modulus - 1
  BY MemoryAssumption
<1> QED
  BY <1>1 DEF NoBlock, NoTypes, BlockType, TypesType

(* A block is something: a header has a size. *)
LEMMA BlockIsSome ==
  ASSUME NEW r \in Requests
  PROVE  NewBlock(r) # NoBlock
<1>1. CASE RealSize(r) = 0
  <2>1. Header + RealSize(r) = Header /\ Header \in Nat \ {0} /\ Header < Modulus
    BY <1>1, MemoryAssumption
  <2>2. NewBlock(r).len = Header
    BY <2>1, ModSmall DEF NewBlock
  <2> QED
    BY <2>1, <2>2 DEF NoBlock
<1>2. CASE RealSize(r) # 0
  BY <1>2 DEF NewBlock, NoBlock
<1> QED
  BY <1>1, <1>2

(* At first nobody allocates.                                              *)
LEMMA MInvInit == Init => MInv
<1> SUFFICES ASSUME Init PROVE MInv
  OBVIOUS
<1>1. AllocTypes
  BY Nothing DEF Init, AllocTypes, Places
<1>2. ASSUME NEW t \in Threads
      PROVE  Waits(t) /\ BlockOfRequest(t) /\ TypesOfMacro(t)
  <2>1. pc[t] = "out" /\ block[t] = NoBlock /\ types[t] = NoTypes
    BY DEF Init
  <2> QED
    BY <2>1, Nothing DEF Waits, BlockOfRequest, TypesOfMacro
<1>3. AbortMisused
  BY DEF Init, AbortMisused
<1> QED
  BY <1>1, <1>2, <1>3 DEF MInv

(* Where nothing changes, MInv stays.                                      *)
LEMMA MInvUnchanged == MInv /\ UNCHANGED vars => MInv'
<1> SUFFICES ASSUME MInv, UNCHANGED vars PROVE MInv'
  OBVIOUS
<1>1. /\ about' = about /\ todo' = todo /\ got' = got
      /\ pc' = pc /\ request' = request /\ block' = block /\ types' = types /\ abort' = abort
  BY DEF vars, cacheVars, memoryVars
<1>2. AllocTypes' /\ AbortMisused'
  BY <1>1 DEF MInv, AllocTypes, AbortMisused
<1>3. \A t \in Threads : Waits(t)'
  BY <1>1 DEF MInv, Waits
<1>4. \A t \in Threads : BlockOfRequest(t)'
  BY <1>1 DEF MInv, BlockOfRequest
<1>5. ~abort' => \A t \in Threads : TypesOfMacro(t)'
  BY <1>1 DEF MInv, TypesOfMacro
<1> QED
  BY <1>2, <1>3, <1>4, <1>5 DEF MInv

-----------------------------------------------------------------------------
(* One lemma for each action. *)

(* What a step of a getter means to the function that waits for it. *)
LEMMA GettingMoves ==
  ASSUME CInv, NEW t \in Threads, Getting(t)
  PROVE  /\ todo[t] # <<>> /\ about' = about
         /\ todo'[t] = <<>> =>
              \/ got'[t] = "failed"
              \/ got'[t] \in {"right", "wrong"} /\ (Exact(about[t]) => got'[t] = "right")
         /\ \A u \in Threads \ {t} : todo'[u] = todo[u] /\ got'[u] = got[u]
<1>1. todo[t] # <<>>
  BY DEF Getting, Ask, Store, Mark, Read, Idle
<1>2. \A u \in Threads \ {t} : todo'[u] = todo[u] /\ got'[u] = got[u]
  BY DEF Getting, Ask, Store, Mark, Read, CInv, InCode
<1> QED
  BY <1>1, <1>2, CInvAsk, CInvStore, CInvMark, CInvRead DEF Getting

(* A step of a getter brings the waiting function a right size or a failure. *)
LEMMA MInvGetting ==
  ASSUME CInv, MInv, NEW t \in Threads, Getting(t), ~abort, UNCHANGED memoryVars
  PROVE  MInv'
<1>1. pc' = pc /\ request' = request /\ block' = block /\ types' = types /\ abort' = abort
  BY DEF memoryVars
<1>2. Elsewhere(t)
  BY <1>1, GettingMoves DEF Elsewhere
<1>3. AllocTypes' /\ AbortMisused' /\ BlockOfRequest(t)' /\ TypesOfMacro(t)'
  BY <1>1 DEF MInv, AllocTypes, AbortMisused, BlockOfRequest, TypesOfMacro
<1>4. Waits(t)'
  <2>1. Waits(t)
    BY DEF MInv
  <2>2. Exact("size")
    BY DEF Exact, Vectors
  <2> QED
    BY <2>1, <2>2, <1>1, GettingMoves DEF Waits
<1> QED
  BY <1>1, <1>2, <1>3, <1>4, MStep

(* A getter that is called. *)
LEMMA GetMoves ==
  ASSUME CInv, NEW t \in Threads, NEW f \in Facts, Get(t, f)
  PROVE  /\ todo[t] = <<>> /\ todo'[t] # <<>> /\ about'[t] = f
         /\ \A u \in Threads \ {t} :
              about'[u] = about[u] /\ todo'[u] = todo[u] /\ got'[u] = got[u]
<1>1. todo[t] = <<>>
  BY DEF Get, Idle
<1>2. \A u \in Threads \ {t} :
         about'[u] = about[u] /\ todo'[u] = todo[u] /\ got'[u] = got[u]
  BY DEF Get, CInv, InCode
<1> QED
  BY <1>1, <1>2, CInvGet

(* A caller that asks for a fact of the type has no block.                 *)
LEMMA MInvAskFact ==
  ASSUME CInv, MInv, NEW t \in Threads, AskFact(t)
  PROVE  MInv'
<1>1. /\ pc' = pc /\ request' = request /\ block' = block /\ types' = types
      /\ abort' = abort /\ ~abort /\ pc[t] = "out"
  BY DEF AskFact, At, memoryVars
<1>2. Elsewhere(t)
  BY <1>1, GetMoves DEF AskFact, Elsewhere
<1>3. AllocTypes' /\ AbortMisused' /\ BlockOfRequest(t)' /\ TypesOfMacro(t)'
  BY <1>1 DEF MInv, AllocTypes, AbortMisused, BlockOfRequest, TypesOfMacro
<1>4. Waits(t)'
  BY <1>1 DEF Waits
<1> QED
  BY <1>1, <1>2, <1>3, <1>4, MStep

(* A function that allocates first asks for the size.                      *)
LEMMA MInvCallFunction ==
  ASSUME CInv, MInv, NEW t \in Threads, CallFunction(t)
  PROVE  MInv'
<1>1. PICK r \in Requests :
        /\ request' = [request EXCEPT ![t] = r]
        /\ pc' = [pc EXCEPT ![t] = IF Told(r) THEN "sized" ELSE "by_type"]
  BY DEF CallFunction, Goto
<1>2. /\ ~abort /\ ~abort' /\ abort' = abort /\ pc[t] = "out" /\ block[t] = NoBlock
      /\ block' = block /\ types' = types
      /\ Get(t, "size") /\ "size" \in Facts
  BY MemoryAssumption DEF CallFunction, At
<1>3. /\ request'[t] = r /\ pc'[t] \in {"sized", "by_type"}
      /\ \A u \in Threads \ {t} : request'[u] = request[u] /\ pc'[u] = pc[u]
  BY <1>1 DEF MInv, AllocTypes
<1>4. Elsewhere(t)
  BY <1>2, <1>3, GetMoves DEF Elsewhere
<1>5. AllocTypes' /\ AbortMisused'
  BY <1>1, <1>2, <1>3 DEF MInv, AllocTypes, AbortMisused, Places
<1>6. Waits(t)'
  BY <1>2, <1>3, GetMoves DEF Waits
<1>7. BlockOfRequest(t)'
  BY <1>2 DEF BlockOfRequest
<1>8. TypesOfMacro(t)'
  BY <1>2, <1>3 DEF MInv, TypesOfMacro
<1> QED
  BY <1>2, <1>4, <1>5, <1>6, <1>7, <1>8, MStep

(* The cache is left alone. *)
LEMMA QuietCache ==
  ASSUME UNCHANGED cacheVars
  PROVE  about' = about /\ todo' = todo /\ got' = got
BY DEF cacheVars

(* A macro begins with the type of a pointer and nothing else.             *)
LEMMA MInvCallMacro ==
  ASSUME CInv, MInv, NEW t \in Threads, CallMacro(t)
  PROVE  MInv'
<1>1. PICK r \in Requests : request' = [request EXCEPT ![t] = r]
  BY DEF CallMacro
<1>2. /\ ~abort /\ ~abort' /\ abort' = abort /\ pc[t] = "out" /\ block[t] = NoBlock
      /\ block' = block /\ todo[t] = <<>>
      /\ about' = about /\ todo' = todo /\ got' = got
  BY QuietCache DEF CallMacro, At, Idle
<1>3. types[t] = NoTypes
  BY <1>2 DEF MInv, TypesOfMacro
<1>4. \/ /\ types' = [types EXCEPT ![t] = [pointer |-> 1, pointee |-> 0]]
         /\ pc' = [pc EXCEPT ![t] = "pointee"]
      \/ types' = types /\ pc' = pc
  <2>1. [types[t] EXCEPT !.pointer = 1] = [pointer |-> 1, pointee |-> 0]
    BY <1>3 DEF NoTypes
  <2> QED
    BY <2>1 DEF CallMacro, Goto
<1>5. /\ request'[t] = r
      /\ \/ types'[t] = [pointer |-> 1, pointee |-> 0] /\ pc'[t] = "pointee"
         \/ types'[t] = NoTypes /\ pc'[t] = "out"
      /\ \A u \in Threads \ {t} :
           request'[u] = request[u] /\ pc'[u] = pc[u] /\ types'[u] = types[u]
  BY <1>1, <1>2, <1>3, <1>4 DEF MInv, AllocTypes
<1>6. Elsewhere(t)
  BY <1>2, <1>5 DEF Elsewhere
<1>7. AllocTypes' /\ AbortMisused'
  BY <1>1, <1>2, <1>4, Nothing DEF MInv, AllocTypes, AbortMisused, Places
<1>8. Waits(t)'
  BY <1>2, <1>5 DEF Waits
<1>9. BlockOfRequest(t)'
  BY <1>2 DEF BlockOfRequest
<1>10. TypesOfMacro(t)'
  BY <1>5, Nothing DEF TypesOfMacro
<1> QED
  BY <1>2, <1>6, <1>7, <1>8, <1>9, <1>10, MStep

(* A macro gives the pointer up for the type it points at.                 *)
LEMMA MInvPointee ==
  ASSUME CInv, MInv, NEW t \in Threads, Pointee(t)
  PROVE  MInv'
<1>1. /\ ~abort /\ ~abort' /\ abort' = abort /\ pc[t] = "pointee"
      /\ block' = block /\ request' = request /\ todo[t] = <<>>
      /\ about' = about /\ todo' = todo /\ got' = got
  BY QuietCache DEF Pointee, At, Idle
<1>2. /\ types[t] = [pointer |-> 1, pointee |-> 0]
      /\ request[t] \in Requests /\ block[t] = NoBlock
  BY <1>1 DEF MInv, TypesOfMacro, Waits
<1>3. \/ /\ types' = [types EXCEPT ![t] = [pointer |-> 1, pointee |-> 1]]
         /\ pc' = [pc EXCEPT ![t] = "fresh"]
      \/ /\ types' = [types EXCEPT ![t] = NoTypes]
         /\ pc' = [pc EXCEPT ![t] = "out"]
  <2>1. [types[t] EXCEPT !.pointee = 1] = [pointer |-> 1, pointee |-> 1]
    BY <1>2
  <2>2. [types[t] EXCEPT !.pointer = 0] = NoTypes
    BY <1>2 DEF NoTypes
  <2> QED
    BY <2>1, <2>2 DEF Pointee, Goto
<1>4. /\ \/ types'[t] = [pointer |-> 1, pointee |-> 1] /\ pc'[t] = "fresh"
         \/ types'[t] = NoTypes /\ pc'[t] = "out"
      /\ \A u \in Threads \ {t} : pc'[u] = pc[u] /\ types'[u] = types[u]
  BY <1>3 DEF MInv, AllocTypes
<1>5. Elsewhere(t)
  BY <1>1, <1>4 DEF Elsewhere
<1>6. AllocTypes' /\ AbortMisused'
  BY <1>1, <1>3, Nothing DEF MInv, AllocTypes, AbortMisused, Places
<1>7. Waits(t)'
  BY <1>1, <1>2, <1>4 DEF Waits
<1>8. BlockOfRequest(t)'
  BY <1>1, <1>2 DEF BlockOfRequest
<1>9. TypesOfMacro(t)'
  BY <1>4, Nothing DEF TypesOfMacro
<1> QED
  BY <1>1, <1>5, <1>6, <1>7, <1>8, <1>9, MStep

(* The function called by a macro asks for the size of its type.           *)
LEMMA MInvByType ==
  ASSUME CInv, MInv, NEW t \in Threads, ByType(t)
  PROVE  MInv'
<1>1. /\ ~abort /\ ~abort' /\ abort' = abort /\ pc[t] = "by_type"
      /\ block' = block /\ request' = request /\ types' = types
  BY DEF ByType, At
<1>2. request[t] \in Requests /\ block[t] = NoBlock /\ types[t] = NoTypes
  BY <1>1 DEF MInv, Waits, TypesOfMacro
<1>3. \/ pc' = [pc EXCEPT ![t] = "out"] /\ UNCHANGED cacheVars
      \/ pc' = [pc EXCEPT ![t] = "sized"] /\ Get(t, "size")
  BY DEF ByType, Goto
<1>4. /\ \/ pc'[t] = "out" /\ UNCHANGED cacheVars
         \/ pc'[t] = "sized" /\ Get(t, "size")
      /\ \A u \in Threads \ {t} : pc'[u] = pc[u]
  BY <1>3 DEF MInv, AllocTypes
<1>5. Elsewhere(t)
  BY <1>1, <1>4, QuietCache, GetMoves, MemoryAssumption DEF Elsewhere
<1>6. AllocTypes' /\ AbortMisused'
  BY <1>1, <1>3 DEF MInv, AllocTypes, AbortMisused, Places
<1>7. Waits(t)'
  BY <1>1, <1>2, <1>4, GetMoves, MemoryAssumption DEF Waits
<1>8. BlockOfRequest(t)'
  BY <1>1, <1>2 DEF BlockOfRequest
<1>9. TypesOfMacro(t)'
  BY <1>1, <1>2, <1>4, Nothing DEF TypesOfMacro
<1> QED
  BY <1>1, <1>5, <1>6, <1>7, <1>8, <1>9, MStep

(* The end of an allocation, of a function and of a macro alike. *)
LEMMA AllocateLeads ==
  ASSUME MInv, NEW t \in Threads, ~abort, request[t] \in Requests, block[t] = NoBlock,
         Allocate(t, Size)
  PROVE  \/ /\ block' = [block EXCEPT ![t] = NewBlock(request[t])]
            /\ Size <= RealSize(request[t]) /\ abort' = FALSE
            /\ NewBlock(request[t]) \in BlockType /\ NewBlock(request[t]) # NoBlock
         \/ abort' = TRUE /\ block' = block /\ Misused(request[t])
<1>1. NewBlock(request[t]) \in BlockType /\ NewBlock(request[t]) # NoBlock
  BY Blocks, BlockIsSome DEF BlockType
<1>2. ~Covers(request[t], Size) => Misused(request[t])
  BY AssertMeansMisuse
<1>3. abort = FALSE
  BY DEF MInv, AllocTypes
<1> QED
  BY <1>1, <1>2, <1>3 DEF Allocate, Covers

(* A function that has its size allocates, fails, or asserts.              *)
LEMMA MInvSized ==
  ASSUME CInv, MInv, NEW t \in Threads, Sized(t)
  PROVE  MInv'
<1>1. /\ ~abort /\ abort = FALSE /\ pc[t] = "sized" /\ todo[t] = <<>>
      /\ request' = request /\ types' = types /\ pc' = [pc EXCEPT ![t] = "out"]
      /\ about' = about /\ todo' = todo /\ got' = got
  BY QuietCache DEF Sized, At, Goto, Idle, MInv, AllocTypes
<1>2. /\ request[t] \in Requests /\ block[t] = NoBlock /\ types[t] = NoTypes
      /\ got[t] \in {"right", "failed"}
  BY <1>1 DEF MInv, Waits, TypesOfMacro
<1>3. \/ block' = block /\ abort' = abort
      \/ Allocate(t, Size)
  BY <1>2 DEF Sized
<1>4. \/ block' = block /\ abort' = FALSE
      \/ /\ block' = [block EXCEPT ![t] = NewBlock(request[t])]
         /\ Size <= RealSize(request[t]) /\ abort' = FALSE
         /\ NewBlock(request[t]) \in BlockType
      \/ abort' = TRUE /\ block' = block /\ Misused(request[t])
  BY <1>1, <1>2, <1>3, AllocateLeads
<1>5. /\ pc'[t] = "out" /\ types'[t] = NoTypes /\ request'[t] = request[t]
      /\ \/ block'[t] = NoBlock
         \/ block'[t] = NewBlock(request[t]) /\ Size <= RealSize(request[t])
      /\ \A u \in Threads \ {t} : pc'[u] = pc[u] /\ block'[u] = block[u]
  BY <1>1, <1>2, <1>4 DEF MInv, AllocTypes
<1>6. Elsewhere(t)
  BY <1>1, <1>5 DEF Elsewhere
<1>7. AllocTypes'
  BY <1>1, <1>4 DEF MInv, AllocTypes, Places
<1>8. AbortMisused'
  BY <1>1, <1>2, <1>4 DEF AbortMisused
<1>9. Waits(t)'
  BY <1>5 DEF Waits
<1>10. BlockOfRequest(t)'
  BY <1>2, <1>5 DEF BlockOfRequest
<1>11. TypesOfMacro(t)'
  BY <1>5, Nothing DEF TypesOfMacro
<1> QED
  BY <1>1, <1>6, <1>7, <1>8, <1>9, <1>10, <1>11, MStep

(* A macro that has its size goes on as a function does.                   *)
LEMMA MInvFreshSized ==
  ASSUME CInv, MInv, NEW t \in Threads, FreshSized(t)
  PROVE  MInv'
<1>1. /\ ~abort /\ abort = FALSE /\ pc[t] = "fresh" /\ todo[t] = <<>>
      /\ request' = request /\ pc' = [pc EXCEPT ![t] = "out"]
      /\ about' = about /\ todo' = todo /\ got' = got
  BY QuietCache DEF FreshSized, At, Goto, Idle, MInv, AllocTypes
<1>2. request[t] \in Requests /\ block[t] = NoBlock
  BY <1>1 DEF MInv, Waits
<1>3. \/ /\ Allocate(t, Size)
         /\ types' = [types EXCEPT ![t] = [pointer |-> 0, pointee |-> 2]]
      \/ /\ types' = [types EXCEPT ![t] = NoTypes]
         /\ block' = block /\ abort' = abort
  BY DEF FreshSized
<1>4. \/ /\ types' = [types EXCEPT ![t] = NoTypes] /\ block' = block /\ abort' = FALSE
      \/ /\ types' = [types EXCEPT ![t] = [pointer |-> 0, pointee |-> 2]]
         /\ \/ /\ block' = [block EXCEPT ![t] = NewBlock(request[t])]
               /\ Size <= RealSize(request[t]) /\ abort' = FALSE
               /\ NewBlock(request[t]) \in BlockType /\ NewBlock(request[t]) # NoBlock
            \/ abort' = TRUE /\ block' = block /\ Misused(request[t])
  BY <1>1, <1>2, <1>3, AllocateLeads
<1>5. /\ pc'[t] = "out" /\ request'[t] = request[t]
      /\ \/ types'[t] = NoTypes /\ block'[t] = NoBlock
         \/ /\ types'[t] = [pointer |-> 0, pointee |-> 2]
            /\ \/ /\ block'[t] = NewBlock(request[t]) /\ Size <= RealSize(request[t])
                  /\ block'[t] # NoBlock
               \/ block'[t] = NoBlock /\ abort'
      /\ \A u \in Threads \ {t} :
           pc'[u] = pc[u] /\ block'[u] = block[u] /\ types'[u] = types[u]
  BY <1>1, <1>2, <1>4 DEF MInv, AllocTypes
<1>6. Elsewhere(t)
  BY <1>1, <1>5 DEF Elsewhere
<1>7. AllocTypes'
  BY <1>1, <1>4, Nothing, ZenonT(60) DEF MInv, AllocTypes, Places
<1>8. AbortMisused'
  BY <1>1, <1>2, <1>4 DEF AbortMisused
<1>9. Waits(t)'
  BY <1>5 DEF Waits
<1>10. BlockOfRequest(t)'
  BY <1>2, <1>5 DEF BlockOfRequest
<1>11. ~abort' => TypesOfMacro(t)'
  BY <1>5, Nothing DEF TypesOfMacro
<1> QED
  BY <1>1, <1>6, <1>7, <1>8, <1>9, <1>10, <1>11, MStep

(* A block that is dropped leaves nothing to be dropped by its macro.      *)
LEMMA MInvUnref ==
  ASSUME CInv, MInv, NEW t \in Threads, Unref(t)
  PROVE  MInv'
<1>1. /\ ~abort /\ ~abort' /\ abort' = abort /\ pc[t] = "out" /\ pc' = pc
      /\ block' = [block EXCEPT ![t] = NoBlock]
      /\ request' = [request EXCEPT ![t] = NoRequest]
      /\ types' = [types EXCEPT ![t] = NoTypes]
      /\ about' = about /\ todo' = todo /\ got' = got
  BY QuietCache DEF Unref, At
<1>2. /\ pc'[t] = "out" /\ block'[t] = NoBlock /\ types'[t] = NoTypes
      /\ \A u \in Threads \ {t} :
           block'[u] = block[u] /\ types'[u] = types[u] /\ request'[u] = request[u]
  BY <1>1 DEF MInv, AllocTypes
<1>3. Elsewhere(t)
  BY <1>1, <1>2 DEF Elsewhere
<1>4. AllocTypes' /\ AbortMisused'
  BY <1>1, Nothing DEF MInv, AllocTypes, AbortMisused
<1>5. Waits(t)' /\ BlockOfRequest(t)'
  BY <1>2 DEF Waits, BlockOfRequest
<1>6. TypesOfMacro(t)'
  BY <1>2, Nothing DEF TypesOfMacro
<1> QED
  BY <1>1, <1>3, <1>4, <1>5, <1>6, MStep

-----------------------------------------------------------------------------
(* What callers of the allocators may rely on. *)

(* A step keeps what is lost, or a thread loses something. *)
LEMMA LostByThreads ==
  ASSUME lost \subseteq Threads, [Next]_vars
  PROVE  lost' \subseteq Threads
<1>1. ASSUME NEW t \in Threads, Unref(t) PROVE lost' \subseteq lost \cup {t}
  BY <1>1 DEF Unref
<1>2. ASSUME NEW t \in Threads, Allocating(t), ~Unref(t) PROVE lost' = lost
  BY <1>2 DEF Allocating, AskFact, CallFunction, CallMacro, Pointee, ByType, Sized,
              FreshSized, memoryVars
<1>3. ASSUME NEW t \in Threads, Getting(t), UNCHANGED memoryVars PROVE lost' = lost
  BY <1>3 DEF memoryVars
<1>4. CASE UNCHANGED vars
  BY <1>4 DEF vars, memoryVars
<1> QED
  BY <1>1, <1>2, <1>3, <1>4 DEF Next

(* In every reachable state the kept values and the allocations are as     *)
(* CInv and MInv say.                                                      *)
THEOREM MemoryInvariant == Spec => [](CInv /\ MInv /\ lost \subseteq Threads)
<1>1. Init => CInv /\ MInv /\ lost \subseteq Threads
  BY CInvInit, MInvInit DEF Init
<1>2. CInv /\ MInv /\ lost \subseteq Threads /\ [Next]_vars
        => CInv' /\ MInv' /\ (lost \subseteq Threads)'
  <2> SUFFICES ASSUME CInv, MInv, lost \subseteq Threads, [Next]_vars PROVE MInv'
    BY CInvNext, LostByThreads
  <2>1. CASE UNCHANGED vars
    BY <2>1, MInvUnchanged
  <2>2. ASSUME NEW t \in Threads, Getting(t), ~abort, UNCHANGED memoryVars PROVE MInv'
    BY <2>2, MInvGetting
  <2>3. ASSUME NEW t \in Threads, Allocating(t) PROVE MInv'
    BY <2>3, MInvAskFact, MInvCallFunction, MInvCallMacro, MInvPointee, MInvByType,
       MInvSized, MInvFreshSized, MInvUnref
    DEF Allocating
  <2> QED
    BY <2>1, <2>2, <2>3 DEF Next
<1> QED
  BY <1>1, <1>2, PTL DEF Spec

(* A block never says it is smaller than its type, and unless a size has   *)
(* wrapped it has room for its header and for every byte promised          *)
(* (memory.h:64, :111), whatever the width of size_t.                      *)
THEOREM BlocksHoldPromises == Spec => []BlockHoldsPromise
<1>1. CInv /\ MInv => BlockHoldsPromise
  <2> SUFFICES ASSUME MInv, NEW t \in Threads, block[t] # NoBlock
               PROVE  /\ block[t].size >= Size
                      /\ ~Wraps(request[t]) =>
                           /\ block[t].len = Header + block[t].size
                           /\ block[t].size = request[t].size * request[t].n
                           /\ Zeroes(request[t]) => block[t].zeroed = block[t].size
    BY DEF BlockHoldsPromise, SizeCoversType
  <2>1. /\ request[t] \in Requests /\ block[t] = NewBlock(request[t])
        /\ Size <= RealSize(request[t])
    BY DEF MInv, BlockOfRequest
  <2> QED
    BY <2>1, Blocks, RealSizes, MemoryAssumption
<1> QED
  BY <1>1, MemoryInvariant, PTL

(* The assertion of r_mem_malloc_sized_fn fails only for a caller that     *)
(* asked for less than the type or for a product that has wrapped, never   *)
(* in r_mem_malloc.                                                        *)
THEOREM AssertsOnMisuseOnly == Spec => []AssertsOnlyOnMisuse
<1>1. CInv /\ MInv => AssertsOnlyOnMisuse
  <2> SUFFICES ASSUME MInv, abort PROVE AssertsOnlyOnMisuse
    BY DEF AssertsOnlyOnMisuse
  <2>1. PICK t \in Threads : request[t] \in Requests /\ Misused(request[t])
    BY DEF MInv, AbortMisused
  <2>2. request[t] # NoRequest
    BY <2>1, RequestSizes DEF NoRequest
  <2> QED
    BY <2>1, <2>2 DEF AssertsOnlyOnMisuse, Misused
<1> QED
  BY <1>1, MemoryInvariant, PTL

(* A macro that fails, at whichever step, leaves no reference to the types *)
(* it had made (_r_mem_malloc_sized, _r_mem_calloc_sized).                 *)
THEOREM MacrosLeaveNothing == Spec => []MacroLeavesNothing
<1>1. CInv /\ MInv => MacroLeavesNothing
  BY DEF MInv, TypesOfMacro, MacroLeavesNothing
<1> QED
  BY <1>1, MemoryInvariant, PTL

(* The variables have their types, and a macro holds no getter up. *)
THEOREM MemoryTypes == Spec => []TypeOK
<1>1. CInv /\ MInv /\ lost \subseteq Threads => TypeOK
  <2> SUFFICES ASSUME CInv, MInv, lost \subseteq Threads PROVE TypeOK
    OBVIOUS
  <2>1. ASSUME NEW t \in Threads
        PROVE  todo[t] \in Seq({"ask", "clear", "type", "value", "mark", "read"})
    <3>1. about[t] \in AllFacts /\ todo[t] \in Steps(about[t])
      BY CachesAssumption DEF CInv, InCode
    <3> QED
      BY <3>1, StepsAreSequences
  <2>2. todo \in [Threads -> Seq({"ask", "clear", "type", "value", "mark", "read"})]
    BY <2>1 DEF CInv, InCode
  <2>3. CachesTypeOK
    BY <2>2 DEF CInv, InCode, CachesTypeOK
  <2>4. \A t \in Threads : pc[t] \in {"pointee", "fresh"} => Idle(t)
    BY DEF MInv, Waits, Idle
  <2> QED
    BY <2>3, <2>4 DEF MInv, AllocTypes, TypeOK, BlockType, TypesType, Places
<1> QED
  BY <1>1, MemoryInvariant, PTL
================================================================================
