------------------------------ MODULE References ------------------------------
(***************************************************************************)
(* Who keeps the library's objects alive.                                  *)
(*                                                                         *)
(* RType, RTypeMember, RString, RFrameList, RFrame and RMemory are counted *)
(* by reference with atomic counters.  Some own others: a memory its type, *)
(* a frame list its frames; a type, a member and a frame cache the name    *)
(* and the member its type, fetched from the controller on first use.      *)
(* The program gives back every reference it is given, and uses an object  *)
(* only while it has one (a frame also through its list).                  *)
(*                                                                         *)
(* The caches are filled without a lock, so their check, fetch, store and  *)
(* reference are steps of their own here.  What a freed object held is     *)
(* never used as another: the first use of it ends the program.            *)
(***************************************************************************)
EXTENDS Naturals, Sequences, FiniteSets

CONSTANTS
  Threads,       (* threads of the program                                 *)
  Cells,         (* bound: objects alive at the same time                  *)
  None,          (* the null pointer                                       *)
  MaxHeld,       (* bound: references one thread has to one object         *)
  FunctionTypes, (* whether the program asks frames for their types        *)
  SizedMacros    (* whether it uses the r_mem_malloc and r_mem_calloc      *)
                 (* macros                                                 *)

ASSUME ReferencesAssumption ==
  /\ None \notin Cells
  /\ IsFiniteSet(Cells)
  /\ MaxHeld \in Nat \ {0}
  /\ FunctionTypes \in BOOLEAN /\ SizedMacros \in BOOLEAN

VARIABLES
  kind,  (* what each cell of the heap holds; "free" if nothing            *)
  rc,    (* refcnt                                                         *)
  link,  (* the objects a cell points to, by field                         *)
  held,  (* references each thread of the program has                      *)
  at,    (* where each thread is in the library                            *)
  arg,   (* the object and the field its getter works on                   *)
  fresh, (* the object its getter has fetched                              *)
  todo,  (* references its call is still to drop, in order                 *)
  lent,  (* types r_frame_function_type has given to a thread that had not *)
         (* made them: history, to say what may go wrong                   *)
  crash  (* "none", or what killed the program                             *)

heapVars   == <<kind, rc, link>>
threadVars == <<held, at, arg, fresh, todo>>
vars       == <<heapVars, threadVars, lent, crash>>

Kinds  == {"type", "member", "string", "frames", "frame", "memory"}
Fields == {"name", "type", "frame"}
NoLinks == [f \in Fields |-> None]

(* What a kind of object drops when it is destroyed.  A frame does not     *)
(* drop its functionType.                                                  *)
Owned(k) ==
  CASE k = "type"   -> {"name"}
    [] k = "member" -> {"name", "type"}
    [] k = "frame"  -> {"name"}
    [] k = "frames" -> {"frame"}
    [] k = "memory" -> {"type"}
    [] OTHER        -> {}

(* The fields a kind of object fetches on first use, and of what kind.     *)
Cached(k) ==
  CASE k = "type"   -> {"name"}
    [] k = "member" -> {"name", "type"}
    [] k = "frame"  -> {"name"} \cup (IF FunctionTypes THEN {"type"} ELSE {})
    [] OTHER        -> {}
KindOf(f) == IF f = "name" THEN "string" ELSE f

NoArg == <<None, "name">>

Init ==
  /\ kind = [c \in Cells |-> "free"]
  /\ rc = [c \in Cells |-> 0]
  /\ link = [c \in Cells |-> NoLinks]
  /\ held = [t \in Threads |-> [c \in Cells |-> 0]]
  /\ at = [t \in Threads |-> "out"]
  /\ arg = [t \in Threads |-> NoArg]
  /\ fresh = [t \in Threads |-> None]
  /\ todo = [t \in Threads |-> <<>>]
  /\ lent = {} /\ crash = "none"

-----------------------------------------------------------------------------
(* Thread t is outside the library and may call it. *)
MayCall(t) == crash = "none" /\ at[t] = "out"

Has(t, c) ==
  \/ held[t][c] > 0
  \/ \E l \in Cells : held[t][l] > 0 /\ link[l]["frame"] = c

(* Thread t is given one reference more to c, or one less. *)
Hold(t, c) == held' = [held EXCEPT ![t][c] = @ + 1]
MayHold(t, c) == held[t][c] < MaxHeld

Free(c) == kind[c] = "free"
Alloc(c, k) == kind' = [kind EXCEPT ![c] = k]

(* A free cell that nobody takes for what it was. *)
Vacant(c) ==
  Free(c) /\ c \notin lent /\ \A d \in Cells, f \in Fields : link[d][f] # c

localUnchanged == UNCHANGED <<at, arg, fresh, todo, lent, crash>>

(* Its getter returns. *)
Return(t) ==
  /\ at' = [at EXCEPT ![t] = "out"]
  /\ arg' = [arg EXCEPT ![t] = NoArg]

(* r_type_new: get_type, pointer, pointee, canonical, return type, ...     *)
NewType(t) ==
  /\ MayCall(t)
  /\ \E c \in Cells :
       /\ Vacant(c) /\ Alloc(c, "type")
       /\ rc' = [rc EXCEPT ![c] = 1]
       /\ Hold(t, c)
  /\ UNCHANGED link /\ localUnchanged

(* r_type_member_new: a member of an aggregate or of an array.  It keeps   *)
(* no reference to its container.                                          *)
NewMember(t) ==
  /\ MayCall(t)
  /\ \E c, m \in Cells :
       /\ kind[c] = "type" /\ Has(t, c)
       /\ Vacant(m) /\ Alloc(m, "member")
       /\ rc' = [rc EXCEPT ![m] = 1]
       /\ Hold(t, m)
  /\ UNCHANGED link /\ localUnchanged

(* r_frame_list_new: a list and its frames, of which one is modelled.      *)
NewFrames(t) ==
  /\ MayCall(t)
  /\ \E l, c \in Cells :
       /\ l # c /\ Vacant(l) /\ Vacant(c)
       /\ kind' = [kind EXCEPT ![l] = "frames", ![c] = "frame"]
       /\ rc' = [rc EXCEPT ![l] = 1, ![c] = 1]
       /\ link' = [link EXCEPT ![l]["frame"] = c]
       /\ Hold(t, l)
  /\ localUnchanged

(* Mutant: the memory borrows its type. *)
NewMemoryBorrows(t) ==
  /\ MayCall(t)
  /\ \E c, m \in Cells :
       /\ kind[c] = "type" /\ Has(t, c)
       /\ Vacant(m) /\ Alloc(m, "memory")
       /\ rc' = [rc EXCEPT ![m] = 1]
       /\ link' = [link EXCEPT ![m]["type"] = c]
       /\ Hold(t, m)
  /\ localUnchanged

(* r_memory_new takes a reference to the type it is given. *)
NewMemory(t) ==
  /\ MayCall(t)
  /\ \E c, m \in Cells :
       /\ kind[c] = "type" /\ Has(t, c)
       /\ Vacant(m) /\ Alloc(m, "memory")
       /\ rc' = [rc EXCEPT ![m] = 1, ![c] = @ + 1]
       /\ link' = [link EXCEPT ![m]["type"] = c]
       /\ Hold(t, m)
  /\ localUnchanged

(* The r_mem_malloc and r_mem_calloc macros, on the pointer type p they    *)
(* have just been given: the pointee, the memory of that type, and p goes. *)
(* The pointee is dropped only if there is no memory.                      *)
NewSized(t) ==
  /\ MayCall(t) /\ SizedMacros
  /\ \E p \in Cells :
       /\ kind[p] = "type" /\ held[t][p] > 0
       /\ \/ \E c, m \in Cells :
               /\ c # m /\ Vacant(c) /\ Vacant(m)
               /\ kind' = [kind EXCEPT ![c] = "type", ![m] = "memory"]
               /\ rc' = [rc EXCEPT ![m] = 1, ![c] = 2]
               /\ link' = [link EXCEPT ![m]["type"] = c]
               /\ held' = [held EXCEPT ![t] =
                            [@ EXCEPT ![p] = held[t][p] - 1,
                                      ![m] = held[t][m] + 1]]
          \/ /\ held' = [held EXCEPT ![t][p] = @ - 1]
             /\ UNCHANGED heapVars
       /\ todo' = [todo EXCEPT ![t] = <<p>>]
       /\ at' = [at EXCEPT ![t] = "unref"]
  /\ UNCHANGED <<arg, fresh, lent, crash>>

(* Another reference to c is taken for t; c had better be alive.           *)
TakeRef(t, c) ==
  IF Free(c)
  THEN crash' = "freed" /\ UNCHANGED <<rc, held>>
  ELSE /\ rc' = [rc EXCEPT ![c] = @ + 1]
       /\ Hold(t, c)
       /\ UNCHANGED crash

(* r_*_ref, for the thread itself or for another; also r_mem_type.         *)
Ref(t) ==
  /\ MayCall(t)
  /\ \E u \in Threads, c \in Cells :
       /\ MayHold(u, c)
       /\ \/ Has(t, c)
          \/ \E m \in Cells :
               /\ kind[m] = "memory" /\ Has(t, m) /\ link[m]["type"] = c
       /\ TakeRef(u, c)
  /\ UNCHANGED <<kind, link, at, arg, fresh, todo, lent>>

(* Any other use of an object that has gone too early.                     *)
UseGone(t) ==
  /\ MayCall(t)
  /\ \E c \in Cells : held[t][c] > 0 /\ Free(c)
  /\ crash' = "freed"
  /\ UNCHANGED <<heapVars, threadVars, lent>>

-----------------------------------------------------------------------------
(* The lazy getters: r_type_name, r_aggregate_member_name, the names of a  *)
(* frame, r_type_member_type and r_frame_function_type.                    *)

(* Mutant: a cached object is returned without a reference. *)
GetBorrows(t) ==
  /\ MayCall(t)
  /\ \E c \in Cells, f \in Fields :
       /\ f \in Cached(kind[c]) /\ Has(t, c)
       /\ \/ /\ link[c][f] # None /\ MayHold(t, link[c][f])
             /\ Hold(t, link[c][f])
             /\ UNCHANGED <<at, arg>>
          \/ /\ link[c][f] = None
             /\ at' = [at EXCEPT ![t] = "fetch"]
             /\ arg' = [arg EXCEPT ![t] = <<c, f>>]
             /\ UNCHANGED held
  /\ UNCHANGED <<heapVars, fresh, todo, lent, crash>>

(* The cached object is there, or is to be fetched. *)
Get(t) ==
  /\ MayCall(t)
  /\ \E c \in Cells, f \in Fields :
       /\ f \in Cached(kind[c]) /\ Has(t, c)
       /\ \/ /\ link[c][f] # None /\ MayHold(t, link[c][f])
             /\ at' = [at EXCEPT ![t] = "ref"]
          \/ /\ link[c][f] = None
             /\ at' = [at EXCEPT ![t] = "fetch"]
       /\ arg' = [arg EXCEPT ![t] = <<c, f>>]
  /\ UNCHANGED <<heapVars, held, fresh, todo, lent, crash>>

(* The controller is asked, and a new object is made of its answer, or the *)
(* failure is reported.  A type that could not be made is stored as null.  *)
Fetch(t) ==
  /\ crash = "none"
  /\ at[t] = "fetch"
  /\ \/ /\ \E c \in Cells :
             /\ Vacant(c) /\ Alloc(c, KindOf(arg[t][2]))
             /\ rc' = [rc EXCEPT ![c] = 1]
             /\ fresh' = [fresh EXCEPT ![t] = c]
        /\ at' = [at EXCEPT ![t] = "store"]
        /\ UNCHANGED arg
     \/ /\ arg[t][2] = "type"
        /\ at' = [at EXCEPT ![t] = "store"]
        /\ UNCHANGED <<kind, rc, fresh, arg>>
     \/ Return(t) /\ UNCHANGED <<kind, rc, fresh>>
  /\ UNCHANGED <<link, held, todo, lent, crash>>

(* The pointer of a frame to its function's type, which it does not own.   *)
FrameType(c, f) == kind[c] = "frame" /\ f = "type"

(* It is stored, over whatever another thread has stored meanwhile, unless *)
(* the object has gone.                                                    *)
Store(t) ==
  /\ crash = "none"
  /\ at[t] = "store"
  /\ LET c == arg[t][1]
         f == arg[t][2]
     IN IF Free(c)
        THEN crash' = "freed" /\ UNCHANGED <<link, at, fresh>>
        ELSE /\ link' = [link EXCEPT ![c][f] = fresh[t]]
             /\ IF FrameType(c, f)
                THEN at' = [at EXCEPT ![t] = "reread"] /\ UNCHANGED fresh
                ELSE /\ at' = [at EXCEPT ![t] = "ref"]
                     /\ fresh' = [fresh EXCEPT ![t] = None]
             /\ UNCHANGED crash
  /\ UNCHANGED <<kind, rc, held, arg, todo, lent>>

(* Mutant: what is stored is returned without a reference. *)
StoredBorrows(t) ==
  /\ crash = "none"
  /\ at[t] = "ref"
  /\ link[arg[t][1]][arg[t][2]] # None
  /\ Hold(t, link[arg[t][1]][arg[t][2]])
  /\ Return(t)
  /\ UNCHANGED <<heapVars, fresh, todo, lent, crash>>

(* A reference to what is stored now is returned. *)
RefStored(t) ==
  /\ crash = "none"
  /\ at[t] = "ref"
  /\ LET c == arg[t][1]
         x == link[c][arg[t][2]]
     IN IF Free(c) \/ x = None
        THEN /\ crash' = IF Free(c) THEN "freed" ELSE "null"
             /\ UNCHANGED <<rc, held>>
        ELSE TakeRef(t, x)
  /\ Return(t)
  /\ UNCHANGED <<kind, link, fresh, todo, lent>>

(* The first r_frame_function_type returns what is stored now as it is,    *)
(* as if it was the type it has made.                                      *)
Reread(t) ==
  /\ crash = "none"
  /\ at[t] = "reread"
  /\ LET x == link[arg[t][1]]["type"] IN
     IF x = None THEN UNCHANGED <<held, lent>>
     ELSE /\ Hold(t, x)
          /\ lent' = lent \cup ({x} \ {fresh[t]})
  /\ fresh' = [fresh EXCEPT ![t] = None]
  /\ Return(t)
  /\ UNCHANGED <<heapVars, todo, crash>>

-----------------------------------------------------------------------------
(* r_*_unref *)

(* The program drops a reference of its own. *)
Release(t) ==
  /\ MayCall(t)
  /\ \E c \in Cells :
       /\ held[t][c] > 0
       /\ held' = [held EXCEPT ![t][c] = @ - 1]
       /\ todo' = [todo EXCEPT ![t] = <<c>>]
  /\ at' = [at EXCEPT ![t] = "unref"]
  /\ UNCHANGED <<heapVars, arg, fresh, lent, crash>>

(* Mutant: an object drops what it never fetched. *)
DroppedUnchecked(c) ==
  LET drop(f) == IF f \in Owned(kind[c]) THEN <<link[c][f]>> ELSE <<>>
  IN  drop("name") \o drop("type") \o drop("frame")

(* The references an object owns, in the order its destroy drops them. *)
Dropped(c) ==
  LET owned(f) == f \in Owned(kind[c]) /\ link[c][f] # None
      drop(f)  == IF owned(f) THEN <<link[c][f]>> ELSE <<>>
  IN  drop("name") \o drop("type") \o drop("frame")

(* One decrement, and the object goes with the last one. *)
Unref(t) ==
  /\ crash = "none"
  /\ todo[t] # <<>>
  /\ LET c == Head(todo[t]) IN
     IF Free(c)
     THEN crash' = "freed" /\ UNCHANGED <<heapVars, todo, at>>
     ELSE LET gone == rc[c] = 1
              rest == (IF gone THEN Dropped(c) ELSE <<>>) \o Tail(todo[t])
          IN /\ rc' = [rc EXCEPT ![c] = @ - 1]
             /\ kind' = [kind EXCEPT ![c] = IF gone THEN "free" ELSE @]
             /\ link' = [link EXCEPT ![c] = IF gone THEN NoLinks ELSE @]
             /\ todo' = [todo EXCEPT ![t] = rest]
             /\ at' = [at EXCEPT ![t] = IF rest = <<>> THEN "out" ELSE @]
             /\ UNCHANGED crash
  /\ UNCHANGED <<held, arg, fresh, lent>>

-----------------------------------------------------------------------------
Call(t) == NewType(t) \/ NewMember(t) \/ NewFrames(t) \/ NewMemory(t)
             \/ NewSized(t) \/ Ref(t) \/ UseGone(t) \/ Get(t) \/ Release(t)
Proceed(t) == Fetch(t) \/ Store(t) \/ RefStored(t) \/ Reread(t) \/ Unref(t)

Next == \E t \in Threads : Call(t) \/ Proceed(t)

Spec == Init /\ [][Next]_vars

-----------------------------------------------------------------------------
(* PROPERTIES *)

(* The variables have their types, and every pointer points at a cell. *)
TypeOK ==
  /\ kind \in [Cells -> Kinds \cup {"free"}]
  /\ rc \in [Cells -> Nat]
  /\ link \in [Cells -> [Fields -> Cells \cup {None}]]
  /\ held \in [Threads -> [Cells -> Nat]]
  /\ at \in [Threads -> {"out", "fetch", "store", "ref", "reread", "unref"}]
  /\ arg \in [Threads -> (Cells \cup {None}) \X Fields]
  /\ fresh \in [Threads -> Cells \cup {None}]
  /\ todo \in [Threads -> Seq(Cells)]
  /\ lent \subseteq Cells
  /\ crash \in {"none", "freed", "null"}

(* The references to c that somebody is going to drop: those a thread      *)
(* holds, those of objects that own c, the one to an object just fetched,  *)
(* and those a call has still to drop, each by its place from the end.     *)
HeldBy(c)    == UNION {{t} \X (1..held[t][c]) : t \in Threads}
OwnedBy(c)   ==
  UNION {{d} \X {f \in Owned(kind[d]) : link[d][f] = c} : d \in Cells}
FetchedBy(c) == {t \in Threads : fresh[t] = c}
DroppedBy(c) ==
  UNION {{t} \X {i \in 1..Len(todo[t]) : todo[t][Len(todo[t]) + 1 - i] = c} :
           t \in Threads}
Owners(c) ==
  Cardinality(HeldBy(c)) + Cardinality(OwnedBy(c))
    + Cardinality(FetchedBy(c)) + Cardinality(DroppedBy(c))

(* Everything somebody is going to drop is alive and counted, however the  *)
(* threads fill the caches they share: an object may stay too long, it     *)
(* never goes too early (the r_*_ref and r_*_unref of type.cpp, string.cpp,*)
(* type_member.cpp, frame.cpp and memory.cpp and the getters' caches).     *)
(* All but a type two threads were given by a frame with one reference     *)
(* between them (frame.cpp:120-121).                                       *)
CountsCover ==
  \A c \in Cells : /\ c \in lent \/ rc[c] >= Owners(c)
                  /\ Free(c) <=> rc[c] = 0

(* A single thread that stays away from the macros and the types of frames *)
(* leaves nothing behind: the count is exactly the references there are,   *)
(* and every pointer in a live object, also one it does not own, is to a   *)
(* live object of the kind it should be.                                   *)
CountsExact ==
  /\ \A c \in Cells : rc[c] = Owners(c)
  /\ \A c \in Cells, f \in Fields :
       link[c][f] # None => kind[link[c][f]] = KindOf(f)

(* However two threads fill the caches they share, only the type of a      *)
(* frame may be gone while it is pointed at or held, and only that be used *)
(* then (frame.cpp:118-121, against type.h:66, "This RType will be freed   *)
(* if the reference count drops to zero"): one a frame still points at, or *)
(* one that two first callers were given.                                  *)
OnlyFrameTypesDangle ==
  LET dangles(c, f) == link[c][f] # None /\ kind[link[c][f]] # KindOf(f)
      gone(c) == c \in lent /\ Free(c)
  IN
  /\ \A c \in Cells, f \in Fields :
       dangles(c, f) => FrameType(c, f) \/ gone(link[c][f])
  /\ \A t \in Threads, c \in Cells : held[t][c] > 0 /\ Free(c) => gone(c)
  /\ crash = "freed" => \/ \E c \in Cells, f \in Fields : dangles(c, f)
                        \/ \E c \in Cells : gone(c)
===============================================================================
