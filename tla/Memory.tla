--------------------------------- MODULE Memory ---------------------------------
(***************************************************************************)
(* Typed memory: a block is an RMemory header and the bytes asked for, of  *)
(* a type whose size the controller knows.  Sizes are size_t: they wrap at *)
(* Modulus, and nothing in memory.cpp looks for that (TODO: Check for      *)
(* overflow).                                                              *)
(*                                                                         *)
(* The threads share one type, for the functions; a macro has a pointer    *)
(* type and its pointee made for every call.  The references to a block    *)
(* and to its type are in module References.                               *)
(***************************************************************************)
EXTENDS Caches

CONSTANTS
  Modulus,    (* size_t counts modulo this                                 *)
  Header,     (* sizeof(RMemory)                                           *)
  Size,       (* of the type                                               *)
  AskedSizes, (* bound: sizes the program passes                           *)
  Counts,     (* bound: numbers of elements it passes                      *)
  Allocators  (* bound: the threads that allocate                          *)

ASSUME MemoryAssumption ==
  /\ Modulus \in Nat /\ Header \in Nat \ {0} /\ Size \in Nat
  /\ Header + Size < Modulus
  /\ AskedSizes \subseteq 0 .. Modulus - 1 /\ Counts \subseteq 0 .. Modulus - 1
  /\ "size" \in Facts

VARIABLES
  pc,      (* where a thread is in an r_mem function or macro              *)
  request, (* what it was last asked for                                   *)
  block,   (* what it last returned                                        *)
  types,   (* references to the pointer type and to the pointee of a macro *)
  lost,    (* the threads that have dropped a block of a macro's, whose    *)
           (* own reference to the pointee nobody can drop any more        *)
  abort    (* an assertion has failed                                      *)

memoryVars == <<pc, request, block, types, lost, abort>>
vars == <<cacheVars, memoryVars>>

NoBlock == [len |-> 0, size |-> 0, zeroed |-> 0]
NoRequest == [fn |-> "none"]
NoTypes == [pointer |-> 0, pointee |-> 0]

(* The functions and macros: whether they are told the size, and whether   *)
(* the memory is zeroed.  A macro without a size passes sizeof(type).      *)
Requests ==
       [fn : {"malloc"},       macro : BOOLEAN, size : {Size},     n : {1}]
  \cup [fn : {"malloc_sized"}, macro : BOOLEAN, size : AskedSizes, n : {1}]
  \cup [fn : {"calloc"},       macro : BOOLEAN, size : {Size},     n : Counts]
  \cup [fn : {"calloc_sized"}, macro : BOOLEAN, size : AskedSizes, n : Counts]

Told(r) == r.fn \in {"malloc_sized", "calloc_sized"}
Zeroes(r) == r.fn \in {"calloc", "calloc_sized"}

Init ==
  /\ CachesInit
  /\ pc = [t \in Threads |-> "out"]
  /\ request = [t \in Threads |-> NoRequest]
  /\ block = [t \in Threads |-> NoBlock]
  /\ types = [t \in Threads |-> NoTypes]
  /\ lost = {}
  /\ abort = FALSE

-----------------------------------------------------------------------------
At(t, l) == ~abort /\ Idle(t) /\ pc[t] = l
Goto(t, l) == pc' = [pc EXCEPT ![t] = l]

(* The program asks for a value that is kept. *)
AskFact(t) ==
  /\ At(t, "out")
  /\ \E f \in Facts : Get(t, f)
  /\ UNCHANGED memoryVars

(* It calls a function, which asks for the size of its type first. *)
CallFunction(t) ==
  /\ At(t, "out") /\ t \in Allocators /\ block[t] = NoBlock
  /\ \E r \in Requests :
       /\ ~r.macro
       /\ request' = [request EXCEPT ![t] = r]
       /\ Goto(t, IF Told(r) THEN "sized" ELSE "by_type")
  /\ Get(t, "size")
  /\ UNCHANGED <<block, types, lost, abort>>

(* Or a macro: ruminate_get_type for a pointer to the type. *)
CallMacro(t) ==
  /\ At(t, "out") /\ t \in Allocators /\ block[t] = NoBlock
  /\ \E r \in Requests :
       /\ r.macro
       /\ request' = [request EXCEPT ![t] = r]
  /\ \/ types' = [types EXCEPT ![t].pointer = 1] /\ Goto(t, "pointee")
     \/ UNCHANGED <<types, pc>>
  /\ UNCHANGED <<cacheVars, block, lost, abort>>

(* Mutant: to the error label above the right one, which drops a pointee   *)
(* that was not made.                                                      *)
PointeeDropped(t) ==
  /\ At(t, "pointee")
  /\ \/ types' = [types EXCEPT ![t].pointee = 1] /\ Goto(t, "fresh")
     \/ /\ types' = [types EXCEPT ![t] = [pointer |-> 0, pointee |-> types[t].pointee - 1]]
        /\ Goto(t, "out")
  /\ UNCHANGED <<cacheVars, request, block, lost, abort>>

(* _r_mem_malloc_sized, _r_mem_calloc_sized: the pointee, or nothing. *)
Pointee(t) ==
  /\ At(t, "pointee")
  /\ \/ types' = [types EXCEPT ![t].pointee = 1] /\ Goto(t, "fresh")
     \/ types' = [types EXCEPT ![t].pointer = 0] /\ Goto(t, "out")
  /\ UNCHANGED <<cacheVars, request, block, lost, abort>>

(* r_mem_malloc_fn and r_mem_calloc_fn have the size, and the function     *)
(* they pass it to asks again.                                             *)
ByType(t) ==
  /\ At(t, "by_type")
  /\ IF got[t] = "failed"
     THEN Goto(t, "out") /\ UNCHANGED cacheVars
     ELSE Goto(t, "sized") /\ Get(t, "size")
  /\ UNCHANGED <<request, block, types, lost, abort>>

(* size * nmemb, as size_t. *)
RealSize(r) == (r.size * r.n) % Modulus

(* r_memory_new, and the memset of calloc. *)
NewBlock(r) ==
  [len |-> (Header + RealSize(r)) % Modulus, size |-> RealSize(r),
   zeroed |-> IF Zeroes(r) THEN RealSize(r) ELSE 0]

(* Mutant: larger than the type, not as large as it. *)
CoversStrictly(r, size) == size < RealSize(r)

(* Mutant: the size that is compared is that of an element. *)
CoversElement(r, size) == size <= r.size

(* The assertion of r_mem_malloc_sized_fn. *)
Covers(r, size) == size <= RealSize(r)

(* r_mem_malloc_sized_fn with the size it was told by r_type_size. *)
Allocate(t, size) ==
  IF Covers(request[t], size)
  THEN block' = [block EXCEPT ![t] = NewBlock(request[t])] /\ UNCHANGED abort
  ELSE abort' = TRUE /\ UNCHANGED block

Sized(t) ==
  /\ At(t, "sized")
  /\ Goto(t, "out")
  /\ IF got[t] = "failed"
     THEN UNCHANGED <<block, abort>>
     ELSE Allocate(t, IF got[t] = "right" THEN Size ELSE 0)
  /\ UNCHANGED <<cacheVars, request, types, lost>>

(* Mutant: the error label below the one it should be. *)
FreshSizedSkips(t) ==
  /\ At(t, "fresh")
  /\ Goto(t, "out")
  /\ \/ /\ Allocate(t, Size)
        /\ types' = [types EXCEPT ![t] = [pointer |-> 0, pointee |-> 2]]
     \/ /\ types' = [types EXCEPT ![t].pointer = 0]
        /\ UNCHANGED <<block, abort>>
  /\ UNCHANGED <<cacheVars, request, lost>>

(* The same for the pointee of a macro, whose size nobody has asked for.   *)
(* The block takes a reference; the macro keeps its own if there is one.   *)
FreshSized(t) ==
  /\ At(t, "fresh")
  /\ Goto(t, "out")
  /\ \/ /\ Allocate(t, Size)
        /\ types' = [types EXCEPT ![t] = [pointer |-> 0, pointee |-> 2]]
     \/ /\ types' = [types EXCEPT ![t] = NoTypes]
        /\ UNCHANGED <<block, abort>>
  /\ UNCHANGED <<cacheVars, request, lost>>

(* The program drops the block, which drops its own reference to its type  *)
(* and no other, and forgets the request.                                  *)
Unref(t) ==
  /\ At(t, "out") /\ block[t] # NoBlock
  /\ block' = [block EXCEPT ![t] = NoBlock]
  /\ request' = [request EXCEPT ![t] = NoRequest]
  /\ types' = [types EXCEPT ![t] = NoTypes]
  /\ lost' = IF types[t].pointee > 1 THEN lost \cup {t} ELSE lost
  /\ UNCHANGED <<cacheVars, pc, abort>>

Allocating(t) ==
  \/ AskFact(t) \/ CallFunction(t) \/ CallMacro(t) \/ Pointee(t)
  \/ ByType(t) \/ Sized(t) \/ FreshSized(t) \/ Unref(t)

Next ==
  \E t \in Threads : \/ Getting(t) /\ ~abort /\ UNCHANGED memoryVars
                     \/ Allocating(t)

Spec == Init /\ [][Next]_vars

-----------------------------------------------------------------------------
(* PROPERTIES *)

(* The variables have their types; a getter runs only where a function or  *)
(* the program waits for it.                                               *)
TypeOK ==
  /\ CachesTypeOK
  /\ pc \in [Threads -> {"out", "pointee", "by_type", "sized", "fresh"}]
  /\ request \in [Threads -> Requests \cup {NoRequest}]
  /\ block \in [Threads -> [len : 0 .. Modulus - 1, size : 0 .. Modulus - 1,
                            zeroed : 0 .. Modulus - 1]]
  /\ types \in [Threads -> [pointer : 0 .. 1, pointee : 0 .. 2]]
  /\ lost \subseteq Threads
  /\ abort \in BOOLEAN
  /\ \A t \in Threads : pc[t] \in {"pointee", "fresh"} => Idle(t)

Wraps(r) == Header + r.size * r.n >= Modulus

(* No block says it is smaller than the type it says it has. *)
SizeCoversType == \A t \in Threads : block[t] # NoBlock => block[t].size >= Size

(* Whatever wraps, and whoever else asks for the size meanwhile, a block   *)
(* is as large as its type (memory.h:64; r_mem_size, r_mem_type).  And     *)
(* unless a size has wrapped it has room for its header and for all the    *)
(* bytes promised, and all of them are zeroed (memory.h:111, "enough       *)
(* memory for nmemb instances").                                           *)
BlockHoldsPromise ==
  /\ SizeCoversType
  /\ \A t \in Threads :
       LET r == request[t]  b == block[t] IN
       b # NoBlock /\ ~Wraps(r) =>
         /\ b.len = Header + b.size
         /\ b.size = r.size * r.n
         /\ Zeroes(r) => b.zeroed = b.size

(* memory.h:64, "at least as large as the type": the assertion fails only  *)
(* for a caller that asked for less, for no elements, or for a product     *)
(* that has wrapped; never for r_mem_malloc.                               *)
AssertsOnlyOnMisuse ==
  abort => \E t \in Threads :
             LET r == request[t] IN
             /\ r # NoRequest /\ r.fn # "malloc"
             /\ r.size < Size \/ r.n = 0 \/ r.size * r.n >= Modulus

(* A macro that fails, at whichever step, leaves no reference to the types *)
(* made for it; one that succeeds drops the pointer type, and keeps one    *)
(* reference to the pointee besides the block's, which is lost with it.    *)
MacroLeavesNothing ==
  \A t \in Threads :
    pc[t] = "out" /\ ~abort =>
      /\ types[t].pointer = 0
      /\ block[t] = NoBlock => types[t] = NoTypes
      /\ types[t].pointee \in {0, 2}
================================================================================
