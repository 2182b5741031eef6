-------------------------- MODULE References_proofs ---------------------------
(***************************************************************************)
(* That nothing is freed while somebody still has a reference to it, for   *)
(* any number of threads and of objects.                                   *)
(*                                                                         *)
(* A count covers its owners: rc[c] is at least the size of four sets of   *)
(* tokens, the references threads hold, those of owning objects, those     *)
(* just fetched, and those still to be dropped.  Every step changes each   *)
(* of them by at most one for each object, and the argument is a sum: what *)
(* the step adds to the sets it adds to the count.  The one step that      *)
(* frees an object does so when the count is one and the reference being   *)
(* dropped is there: nobody else has any, so nobody's pointer breaks.      *)
(* A type that a frame has lent is beyond all this: it may go while it is  *)
(* held, and what is left of it is never taken for anything else.          *)
(*                                                                         *)
(* The same sum shows more of a thread that is alone, and stays away from  *)
(* the macros and the types of frames: nothing is lost on the way, so that *)
(* the count is the sum and not only as much.                              *)
(***************************************************************************)
EXTENDS References, FiniteSetTheorems, SequenceTheorems, TLAPS

(* A single thread that stays away from the macros and the types of frames *)
Alone == (\A t, u \in Threads : t = u) /\ ~FunctionTypes /\ ~SizedMacros

(* T has at most n elements more than S, and exactly n if nothing can be   *)
(* lost.                                                                   *)
Within(S, T, n) ==
  /\ IsFiniteSet(T) /\ Cardinality(T) \in Nat /\ Cardinality(S) \in Nat
  /\ Cardinality(T) <= Cardinality(S) + n
  /\ Alone => Cardinality(T) = Cardinality(S) + n

(* A set that gains nothing does not grow.                                 *)
LEMMA WithinSame ==
  ASSUME NEW S, NEW T, IsFiniteSet(S), T \subseteq S, Alone => T = S
  PROVE  Within(S, T, 0)
BY FS_Subset, FS_CardinalityType DEF Within

(* A set that gains one element grows by one at most.                      *)
LEMMA WithinMore ==
  ASSUME NEW S, NEW T, NEW y, IsFiniteSet(S), T \subseteq S \cup {y},
         Alone => y \notin S /\ T = S \cup {y}
  PROVE  Within(S, T, 1)
<1>1. /\ IsFiniteSet(S \cup {y}) /\ Cardinality(S) \in Nat
      /\ Cardinality(S \cup {y})
           = IF y \in S THEN Cardinality(S) ELSE Cardinality(S) + 1
  BY FS_AddElement, FS_CardinalityType
<1>2. Cardinality(S \cup {y}) \in Nat
  BY <1>1, FS_CardinalityType
<1>3. /\ IsFiniteSet(T) /\ Cardinality(T) \in Nat
      /\ Cardinality(T) <= Cardinality(S \cup {y})
  BY <1>1, FS_Subset, FS_CardinalityType
<1>4. Cardinality(S \cup {y}) <= Cardinality(S) + 1
  BY <1>1, <1>2
<1>5. Alone => Cardinality(T) = Cardinality(S) + 1
  BY <1>1
<1>6. Cardinality(T) <= Cardinality(S) + 1
  BY <1>1, <1>2, <1>3, <1>4
<1> QED BY <1>1, <1>3, <1>5, <1>6 DEF Within

(* A set that loses an element and gains none shrinks.                     *)
LEMMA WithinLess ==
  ASSUME NEW S, NEW T, NEW x \in S, IsFiniteSet(S), T \subseteq S \ {x},
         Alone => T = S \ {x}
  PROVE  Within(S, T, -1)
<1>1. /\ IsFiniteSet(S \ {x}) /\ Cardinality(S) \in Nat
      /\ Cardinality(S \ {x}) = Cardinality(S) - 1
  BY FS_RemoveElement, FS_CardinalityType
<1>2. /\ IsFiniteSet(T) /\ Cardinality(T) \in Nat
      /\ Cardinality(T) <= Cardinality(S \ {x})
  BY <1>1, FS_Subset, FS_CardinalityType
<1> QED BY <1>1, <1>2 DEF Within

(* T is S without its element x, and with y at most.                       *)
Swapped(S, T, x, y) ==
  /\ IsFiniteSet(S) /\ x \in S /\ T \subseteq (S \ {x}) \cup {y}
  /\ Alone => y \notin S \ {x} /\ T = (S \ {x}) \cup {y}

(* A set that loses an element and gains one does not grow.                *)
LEMMA WithinSwap ==
  ASSUME NEW S, NEW T, NEW x, NEW y, Swapped(S, T, x, y)
  PROVE  Within(S, T, 0)
<1> USE DEF Swapped
<1> DEFINE R == S \ {x}
<1>1. Within(S, R, -1)
  BY WithinLess
<1>2. Within(R, T, 1)
  <2>1. IsFiniteSet(R)
    BY <1>1 DEF Within
  <2>2. T \subseteq R \cup {y} /\ (Alone => y \notin R /\ T = R \cup {y})
    OBVIOUS
  <2> HIDE DEF R
  <2> QED BY <2>1, <2>2, WithinMore
<1> HIDE DEF R
<1> QED BY <1>1, <1>2 DEF Within

-----------------------------------------------------------------------------
(* THE INVARIANT *)

(* The sets of references to c are finite.                                 *)
Finite(c) == /\ IsFiniteSet(HeldBy(c)) /\ IsFiniteSet(OwnedBy(c))
             /\ IsFiniteSet(FetchedBy(c)) /\ IsFiniteSet(DroppedBy(c))

(* c is counted for everybody that is going to drop it, unless it is lent. *)
Covered(c) ==
  /\ Finite(c)
  /\ c \in lent \/ rc[c] >= Owners(c)
  /\ Alone => rc[c] = Owners(c)

Counted == \A c \in Cells : Covered(c)

(* A cell is free when its count has come to nothing, and only then.       *)
FreeIffUncounted == \A c \in Cells : Free(c) <=> rc[c] = 0

(* What is lent is a type, or was one; nothing is if frames are not asked. *)
LentTypes == /\ \A c \in lent : kind[c] \in {"type", "free"}
             /\ lent # {} => FunctionTypes

(* What a field points at is owned, or the type of a frame; it is what it  *)
(* should be, or a type that has gone.                                     *)
Linked(c, f) ==
  LET x == link[c][f] IN
  x # None =>
    /\ f \in Owned(kind[c]) \/ (FrameType(c, f) /\ FunctionTypes)
    /\ \/ kind[x] = KindOf(f)
       \/ f = "type" /\ Free(x) /\ (FrameType(c, f) \/ x \in lent)
LinksRight == \A c \in Cells, f \in Fields : Linked(c, f)

(* Where thread t is: only an unref has references to drop, only a getter  *)
(* that stores has a new object, of the kind of its field; and a getter    *)
(* works on an object the thread keeps.                                    *)
Getting == {"fetch", "store", "ref", "reread"}
Calls(t) ==
  /\ todo[t] # <<>> <=> at[t] = "unref"
  /\ fresh[t] # None => at[t] \in {"store", "reread"}
  /\ at[t] \in Getting
       => /\ arg[t][1] \in Cells /\ Has(t, arg[t][1])
          /\ arg[t][2] \in Cached(kind[arg[t][1]]) \/ Free(arg[t][1])
  /\ at[t] = "reread" => FrameType(arg[t][1], arg[t][2]) /\ FunctionTypes
  /\ at[t] = "store" /\ fresh[t] # None
       => \/ kind[fresh[t]] = KindOf(arg[t][2])
          \/ arg[t][2] = "type" /\ Free(fresh[t])
  /\ Alone /\ at[t] \in {"fetch", "store"} => link[arg[t][1]][arg[t][2]] = None
InCalls == \A t \in Threads : Calls(t)

(* A pointer to something gone, or to something else since.                *)
Dangles(c, f) == link[c][f] # None /\ kind[link[c][f]] # KindOf(f)
(* A lent type that has gone.                                              *)
Gone(c) == c \in lent /\ Free(c)
CrashedByDangling ==
  crash = "freed" => \/ \E c \in Cells, f \in Fields : Dangles(c, f)
                     \/ \E c \in Cells : Gone(c)

(* The inductive invariant.                                                *)
IInv == /\ TypeOK /\ Counted /\ FreeIffUncounted /\ LentTypes /\ LinksRight
        /\ InCalls /\ CrashedByDangling

(* If the four sets of references to c grow by h, i, j and k at most, and  *)
(* its count by as much or more, c stays covered.                          *)
LEMMA Recount ==
  ASSUME TypeOK, rc' \in [Cells -> Nat], NEW c \in Cells, Covered(c),
         lent \subseteq lent',
         NEW h \in Int, NEW i \in Int, NEW j \in Int, NEW k \in Int,
         Within(HeldBy(c), HeldBy(c)', h), Within(OwnedBy(c), OwnedBy(c)', i),
         Within(FetchedBy(c), FetchedBy(c)', j),
         Within(DroppedBy(c), DroppedBy(c)', k),
         rc'[c] = rc[c] + h + i + j + k
  PROVE  Covered(c)'
<1>1. Finite(c)'
  BY DEF Within, Finite
<1> DEFINE n == Cardinality(HeldBy(c)) + Cardinality(OwnedBy(c))
                  + Cardinality(FetchedBy(c)) + Cardinality(DroppedBy(c))
           m == Cardinality(HeldBy(c)') + Cardinality(OwnedBy(c)')
                  + Cardinality(FetchedBy(c)') + Cardinality(DroppedBy(c)')
<1>2. c \in lent \/ rc[c] >= n
  BY DEF Covered, Owners
<1>3. Alone => rc[c] = n
  BY DEF Covered, Owners
<1>4. rc[c] \in Nat /\ rc'[c] \in Nat
  BY DEF TypeOK
<1>5. CASE rc[c] >= n
  <2>1. rc'[c] >= m
    BY <1>4, <1>5 DEF Within
  <2>2. Alone => rc'[c] = m
    BY <1>3, <1>4 DEF Within
  <2> QED BY <1>1, <2>1, <2>2 DEF Covered, Owners
<1>6. CASE c \in lent
  <2>1. Alone => rc'[c] = m
    BY <1>3, <1>4 DEF Within
  <2> QED BY <1>1, <1>6, <2>1 DEF Covered, Owners
<1> QED BY <1>2, <1>5, <1>6

(* The same for a step that leaves a count too high.                       *)
LEMMA RecountMore ==
  ASSUME TypeOK, rc' \in [Cells -> Nat], NEW c \in Cells, Covered(c),
         lent \subseteq lent',
         NEW h \in Int, NEW i \in Int, NEW j \in Int, NEW k \in Int,
         Within(HeldBy(c), HeldBy(c)', h), Within(OwnedBy(c), OwnedBy(c)', i),
         Within(FetchedBy(c), FetchedBy(c)', j),
         Within(DroppedBy(c), DroppedBy(c)', k),
         ~Alone, rc'[c] >= rc[c] + h + i + j + k
  PROVE  Covered(c)'
<1>1. Finite(c)'
  BY DEF Within, Finite
<1>2. CASE c \in lent
  BY <1>1, <1>2 DEF Covered
<1>3. CASE c \notin lent
  <2>1. rc[c] >= Cardinality(HeldBy(c)) + Cardinality(OwnedBy(c))
                   + Cardinality(FetchedBy(c)) + Cardinality(DroppedBy(c))
    BY <1>3 DEF Covered, Owners
  <2>2. rc'[c] >= Cardinality(HeldBy(c)') + Cardinality(OwnedBy(c)')
                   + Cardinality(FetchedBy(c)') + Cardinality(DroppedBy(c)')
    <3> rc[c] \in Nat /\ rc'[c] \in Nat
      BY DEF TypeOK
    <3> QED BY <2>1 DEF Within
  <2> QED BY <1>1, <2>2 DEF Covered, Owners
<1> QED BY <1>2, <1>3

(* The changes there are, for the arithmetic of a sum.                     *)
LEMMA Changes == 0 \in Int /\ 1 \in Int /\ -1 \in Int
OBVIOUS

(* The size of a finite set, which is positive if it is not empty.         *)
LEMMA Sizes ==
  ASSUME NEW S, IsFiniteSet(S)
  PROVE  Cardinality(S) \in Nat /\ (S # {} => Cardinality(S) >= 1)
BY FS_CardinalityType, FS_EmptySet

(* What somebody has a reference to is alive (every r_*_ref relies on it:  *)
(* type.cpp, string.cpp, type_member.cpp, frame.cpp, memory.cpp).          *)
LEMMA ReferencedAlive ==
  ASSUME TypeOK, NEW c \in Cells, Covered(c), FreeIffUncounted, c \notin lent,
         \/ HeldBy(c) # {} \/ OwnedBy(c) # {} \/ FetchedBy(c) # {}
         \/ DroppedBy(c) # {}
  PROVE  ~Free(c) /\ rc[c] >= 1
<1>1. Cardinality(HeldBy(c)) + Cardinality(OwnedBy(c))
        + Cardinality(FetchedBy(c)) + Cardinality(DroppedBy(c)) >= 1
  BY Sizes DEF Covered, Finite
<1> QED BY <1>1, Sizes DEF Covered, Owners, FreeIffUncounted, TypeOK, Finite

(* When the count is one and a reference is being dropped, that is the     *)
(* only one.                                                               *)
LEMMA LastReference ==
  ASSUME TypeOK, NEW c \in Cells, Covered(c), rc[c] = 1, DroppedBy(c) # {},
         c \notin lent
  PROVE  HeldBy(c) = {} /\ OwnedBy(c) = {} /\ FetchedBy(c) = {}
<1>1. Cardinality(HeldBy(c)) + Cardinality(OwnedBy(c))
        + Cardinality(FetchedBy(c)) + Cardinality(DroppedBy(c)) <= 1
  BY DEF Covered, Owners
<1>2. /\ Cardinality(HeldBy(c)) = 0 /\ Cardinality(OwnedBy(c)) = 0
      /\ Cardinality(FetchedBy(c)) = 0
  BY <1>1, Sizes DEF Covered, Finite
<1> QED BY <1>2, FS_EmptySet DEF Covered, Finite

-----------------------------------------------------------------------------
(* THE REFERENCES A STEP ADDS AND DROPS *)

(* The references threads hold, as pairs of a thread and a number.         *)
LEMMA HeldPlaces ==
  /\ \A c, x : x \in HeldBy(c) <=>
       \E t \in Threads : \E i \in 1..held[t][c] : x = <<t, i>>
  /\ \A c, x : x \in HeldBy(c)' <=>
       \E t \in Threads : \E i \in 1..held'[t][c] : x = <<t, i>>
BY DEF HeldBy

(* A thread that takes a reference has one more, and nobody has less.      *)
LEMMA HoldCounts ==
  ASSUME TypeOK, Counted, NEW t \in Threads, NEW c \in Cells, Hold(t, c)
  PROVE  /\ held' \in [Threads -> [Cells -> Nat]]
         /\ \A u \in Threads, d \in Cells : held'[u][d] >= held[u][d]
         /\ Within(HeldBy(c), HeldBy(c)', 1)
         /\ \A d \in Cells : d # c => Within(HeldBy(d), HeldBy(d)', 0)
<1>1. held \in [Threads -> [Cells -> Nat]]
  BY DEF TypeOK
<1>2. /\ held' \in [Threads -> [Cells -> Nat]]
      /\ \A u \in Threads, d \in Cells : held'[u][d] >= held[u][d]
  BY <1>1 DEF Hold
<1>3. /\ HeldBy(c)' = HeldBy(c) \cup {<<t, held[t][c] + 1>>}
      /\ <<t, held[t][c] + 1>> \notin HeldBy(c)
  <2>1. held'[t][c] = held[t][c] + 1 /\ held[t][c] \in Nat
    BY <1>1 DEF Hold
  <2>2. \A u \in Threads : u # t => held'[u][c] = held[u][c]
    BY <1>1 DEF Hold
  <2>3. <<t, held[t][c] + 1>> \notin HeldBy(c)
    BY <2>1, HeldPlaces
  <2>4. ASSUME NEW x
        PROVE  x \in HeldBy(c)' <=>
                 x \in HeldBy(c) \/ x = <<t, held[t][c] + 1>>
    <3>1. \A i : i \in 1..held'[t][c] <=>
            i \in 1..held[t][c] \/ i = held[t][c] + 1
      BY <2>1
    <3> QED BY <2>2, <3>1, HeldPlaces
  <2> QED BY <2>3, <2>4
<1>4. \A d \in Cells : d # c => HeldBy(d)' = HeldBy(d)
  BY <1>1 DEF Hold, HeldBy
<1>5. \A d \in Cells : IsFiniteSet(HeldBy(d))
  BY DEF Counted, Covered, Finite
<1> QED BY <1>2, <1>3, <1>4, <1>5, WithinSame, WithinMore

(* No thread takes or drops a reference.                                   *)
LEMMA HeldKept ==
  ASSUME Counted, UNCHANGED held
  PROVE  \A d \in Cells : Within(HeldBy(d), HeldBy(d)', 0)
BY WithinSame DEF Counted, Covered, Finite, HeldBy

(* A thread that gives one up has one less.                                *)
LEMMA LetGoCounts ==
  ASSUME TypeOK, Counted, NEW t \in Threads, NEW c \in Cells, held[t][c] > 0,
         held' = [held EXCEPT ![t][c] = @ - 1]
  PROVE  /\ held' \in [Threads -> [Cells -> Nat]]
         /\ Within(HeldBy(c), HeldBy(c)', -1)
         /\ \A d \in Cells : d # c => Within(HeldBy(d), HeldBy(d)', 0)
<1>1. held \in [Threads -> [Cells -> Nat]]
  BY DEF TypeOK
<1>2. held' \in [Threads -> [Cells -> Nat]]
  BY <1>1
<1>3. <<t, held[t][c]>> \in HeldBy(c)
  BY <1>1 DEF HeldBy
<1>4. HeldBy(c)' = HeldBy(c) \ {<<t, held[t][c]>>}
  BY <1>1 DEF HeldBy
<1>5. \A d \in Cells : d # c => HeldBy(d)' = HeldBy(d)
  BY <1>1 DEF HeldBy
<1>6. \A d \in Cells : IsFiniteSet(HeldBy(d))
  BY DEF Counted, Covered, Finite
<1> QED BY <1>2, <1>3, <1>4, <1>5, <1>6, WithinSame, WithinLess

(* A thread gives up a reference to one object for one to another.         *)
LEMMA MoveCounts ==
  ASSUME TypeOK, Counted, NEW t \in Threads, NEW c \in Cells, NEW m \in Cells,
         c # m, held[t][c] > 0,
         held' = [held EXCEPT ![t] =
                   [@ EXCEPT ![c] = held[t][c] - 1,
                             ![m] = held[t][m] + 1]]
  PROVE  /\ held' \in [Threads -> [Cells -> Nat]]
         /\ Within(HeldBy(c), HeldBy(c)', -1)
         /\ Within(HeldBy(m), HeldBy(m)', 1)
         /\ \A d \in Cells \ {c, m} : Within(HeldBy(d), HeldBy(d)', 0)
<1>1. held \in [Threads -> [Cells -> Nat]]
  BY DEF TypeOK
<1>2. /\ held' \in [Threads -> [Cells -> Nat]]
      /\ \A u \in Threads, d \in Cells :
           held'[u][d] = IF u # t THEN held[u][d]
                         ELSE IF d = c THEN held[t][c] - 1
                         ELSE IF d = m THEN held[t][m] + 1 ELSE held[t][d]
  BY <1>1
<1>3. <<t, held[t][c]>> \in HeldBy(c)
  BY <1>1 DEF HeldBy
<1>4. HeldBy(c)' = HeldBy(c) \ {<<t, held[t][c]>>}
  BY <1>1, <1>2 DEF HeldBy
<1>5. /\ HeldBy(m)' = HeldBy(m) \cup {<<t, held[t][m] + 1>>}
      /\ <<t, held[t][m] + 1>> \notin HeldBy(m)
  <2>1. held'[t][m] = held[t][m] + 1 /\ held[t][m] \in Nat
    BY <1>1, <1>2
  <2>2. \A u \in Threads : u # t => held'[u][m] = held[u][m]
    BY <1>2
  <2>3. <<t, held[t][m] + 1>> \notin HeldBy(m)
    BY <2>1 DEF HeldBy
  <2>4. HeldBy(m)' = HeldBy(m) \cup {<<t, held[t][m] + 1>>}
    <3>1. 1..held'[t][m] = (1..held[t][m]) \cup {held[t][m] + 1}
      BY <2>1
    <3>2. \A u \in Threads : u # t => 1..held'[u][m] = 1..held[u][m]
      BY <2>2
    <3> QED BY <3>1, <3>2 DEF HeldBy
  <2> QED BY <2>3, <2>4
<1>6. \A d \in Cells \ {c, m} : HeldBy(d)' = HeldBy(d)
  BY <1>1, <1>2 DEF HeldBy
<1>7. \A d \in Cells : IsFiniteSet(HeldBy(d))
  BY DEF Counted, Covered, Finite
<1> QED BY <1>2, <1>3, <1>4, <1>5, <1>6, <1>7, WithinSame, WithinLess,
           WithinMore

(* No link that is owned is written over, and no object that owns one goes. *)
KeepsLinks ==
  \A y \in Cells, g \in Fields :
    g \in Owned(kind[y]) /\ link[y][g] # None =>
      g \in Owned(kind'[y]) /\ link'[y][g] = link[y][g]

(* Field f of x is the only new link that is owned, and it is to c.        *)
OnlyNewLink(x, f, c) ==
  /\ \A y \in Cells, g \in Fields :
       g \in Owned(kind'[y]) /\ link'[y][g] # None =>
         \/ g \in Owned(kind[y]) /\ link'[y][g] = link[y][g]
         \/ y = x /\ g = f /\ link'[y][g] = c
  /\ Alone =>
       /\ f \in Owned(kind'[x]) /\ link'[x][f] = c /\ link[x][f] = None
       /\ KeepsLinks

(* Then only c has gained an owner.                                        *)
LEMMA OwnedAdds ==
  ASSUME TypeOK, Counted, NEW x \in Cells, NEW f \in Fields, NEW c \in Cells,
         OnlyNewLink(x, f, c)
  PROVE  /\ Within(OwnedBy(c), OwnedBy(c)', 1)
         /\ \A d \in Cells : d # c => Within(OwnedBy(d), OwnedBy(d)', 0)
<1>1. \A k : Owned(k) \subseteq Fields
  BY DEF Owned, Fields
<1>2. /\ OwnedBy(c)' \subseteq OwnedBy(c) \cup {<<x, f>>}
      /\ Alone => /\ OwnedBy(c)' = OwnedBy(c) \cup {<<x, f>>}
                  /\ <<x, f>> \notin OwnedBy(c)
  BY <1>1, ReferencesAssumption DEF OwnedBy, KeepsLinks, OnlyNewLink
<1>3. \A d \in Cells : d # c => /\ OwnedBy(d)' \subseteq OwnedBy(d)
                                /\ Alone => OwnedBy(d)' = OwnedBy(d)
  BY <1>1, ReferencesAssumption DEF OwnedBy, KeepsLinks, OnlyNewLink
<1>4. \A d \in Cells : IsFiniteSet(OwnedBy(d))
  BY DEF Counted, Covered, Finite
<1> QED BY <1>2, <1>3, <1>4, WithinSame, WithinMore

(* If no link that is owned is new, nothing gains an owner.                *)
LEMMA OwnedKept ==
  ASSUME TypeOK, Counted,
         \A y \in Cells, g \in Fields :
           g \in Owned(kind'[y]) /\ link'[y][g] # None =>
             g \in Owned(kind[y]) /\ link'[y][g] = link[y][g],
         Alone => KeepsLinks
  PROVE  \A d \in Cells : Within(OwnedBy(d), OwnedBy(d)', 0)
<1>1. \A k : Owned(k) \subseteq Fields
  BY DEF Owned, Fields
<1> TAKE d \in Cells
<1>2. OwnedBy(d)' \subseteq OwnedBy(d)
  BY <1>1, ReferencesAssumption DEF OwnedBy
<1>3. IsFiniteSet(OwnedBy(d))
  BY DEF Counted, Covered, Finite
<1>4. Alone => OwnedBy(d)' = OwnedBy(d)
  BY <1>1, ReferencesAssumption DEF OwnedBy, KeepsLinks
<1> QED BY <1>2, <1>3, <1>4, WithinSame

(* An object that goes owned what its links point at.                      *)
LEMMA OwnedGone ==
  ASSUME TypeOK, Counted, LinksRight, NEW c \in Cells,
         kind' = [kind EXCEPT ![c] = "free"],
         link' = [link EXCEPT ![c] = NoLinks]
  PROVE  \A d \in Cells :
           Within(OwnedBy(d), OwnedBy(d)',
             IF \E f \in Owned(kind[c]) : link[c][f] = d THEN -1 ELSE 0)
<1> TAKE d \in Cells
<1>1. IsFiniteSet(OwnedBy(d))
  BY DEF Counted, Covered, Finite
<1>2. \A x \in Cells : /\ kind'[x] = IF x = c THEN "free" ELSE kind[x]
                       /\ link'[x] = IF x = c THEN NoLinks ELSE link[x]
  BY DEF TypeOK
<1>3. Owned("free") = {}
  BY DEF Owned
<1>4. CASE \E f \in Owned(kind[c]) : link[c][f] = d
  <2> PICK f \in Owned(kind[c]) : link[c][f] = d
    BY <1>4
  <2>1. <<c, f>> \in OwnedBy(d)
    BY DEF OwnedBy
  <2>2. \A g \in Owned(kind[c]) : link[c][g] = d => g = f
    BY ReferencesAssumption
    DEF LinksRight, Linked, FrameType, KindOf, Owned, Fields, Free
  <2>3. OwnedBy(d)' = OwnedBy(d) \ {<<c, f>>}
    BY <1>2, <1>3, <2>2 DEF OwnedBy
  <2> QED BY <1>1, <1>4, <2>1, <2>3, WithinLess
<1>5. CASE ~ \E f \in Owned(kind[c]) : link[c][f] = d
  <2>1. OwnedBy(d)' = OwnedBy(d)
    BY <1>2, <1>3, <1>5 DEF OwnedBy
  <2> QED BY <1>1, <1>5, <2>1, WithinSame
<1> QED BY <1>4, <1>5

(* No getter fetches or stores.                                            *)
LEMMA FetchedKept ==
  ASSUME Counted, UNCHANGED fresh
  PROVE  \A d \in Cells : Within(FetchedBy(d), FetchedBy(d)', 0)
BY WithinSame DEF Counted, Covered, Finite, FetchedBy

(* A getter has fetched c.                                                 *)
LEMMA FetchCounts ==
  ASSUME TypeOK, Counted, NEW t \in Threads, NEW c \in Cells,
         fresh[t] = None, fresh' = [fresh EXCEPT ![t] = c]
  PROVE  /\ Within(FetchedBy(c), FetchedBy(c)', 1)
         /\ \A d \in Cells : d # c => Within(FetchedBy(d), FetchedBy(d)', 0)
<1>1. fresh \in [Threads -> Cells \cup {None}]
  BY DEF TypeOK
<1>2. FetchedBy(c)' = FetchedBy(c) \cup {t} /\ t \notin FetchedBy(c)
  BY <1>1, ReferencesAssumption DEF FetchedBy
<1>3. \A d \in Cells : d # c => FetchedBy(d)' = FetchedBy(d)
  BY <1>1, ReferencesAssumption DEF FetchedBy
<1>4. \A d \in Cells : IsFiniteSet(FetchedBy(d))
  BY DEF Counted, Covered, Finite
<1> QED BY <1>2, <1>3, <1>4, WithinSame, WithinMore

(* A getter has stored c, and has nothing of its own left.                 *)
LEMMA StoreCounts ==
  ASSUME TypeOK, Counted, NEW t \in Threads, NEW c \in Cells, fresh[t] = c,
         fresh' = [fresh EXCEPT ![t] = None]
  PROVE  /\ Within(FetchedBy(c), FetchedBy(c)', -1)
         /\ \A d \in Cells : d # c => Within(FetchedBy(d), FetchedBy(d)', 0)
<1>1. fresh \in [Threads -> Cells \cup {None}]
  BY DEF TypeOK
<1>2. t \in FetchedBy(c) /\ FetchedBy(c)' = FetchedBy(c) \ {t}
  BY <1>1, ReferencesAssumption DEF FetchedBy
<1>3. \A d \in Cells : d # c => FetchedBy(d)' = FetchedBy(d)
  BY <1>1, ReferencesAssumption DEF FetchedBy
<1>4. \A d \in Cells : IsFiniteSet(FetchedBy(d))
  BY DEF Counted, Covered, Finite
<1> QED BY <1>2, <1>3, <1>4, WithinSame, WithinLess

(* No call has more or less to drop.                                       *)
LEMMA DroppedKept ==
  ASSUME Counted, UNCHANGED todo
  PROVE  \A d \in Cells : Within(DroppedBy(d), DroppedBy(d)', 0)
<1>1. \A d \in Cells : IsFiniteSet(DroppedBy(d))
  BY DEF Counted, Covered, Finite
<1>2. \A d \in Cells : DroppedBy(d)' = DroppedBy(d)
  BY DEF DroppedBy
<1> QED BY <1>1, <1>2, WithinSame

(* A call is to drop c, and nothing else.                                  *)
LEMMA DropCounts ==
  ASSUME TypeOK, Counted, NEW t \in Threads, NEW c \in Cells, todo[t] = <<>>,
         todo' = [todo EXCEPT ![t] = <<c>>]
  PROVE  /\ todo' \in [Threads -> Seq(Cells)]
         /\ Within(DroppedBy(c), DroppedBy(c)', 1)
         /\ \A d \in Cells : d # c => Within(DroppedBy(d), DroppedBy(d)', 0)
<1>1. todo \in [Threads -> Seq(Cells)]
  BY DEF TypeOK
<1>2. /\ <<c>> \in Seq(Cells)
      /\ \A u \in Threads : todo'[u] = IF u = t THEN <<c>> ELSE todo[u]
      /\ Len(<<c>>) = 1 /\ <<c>>[1] = c
  BY <1>1
<1>3. /\ DroppedBy(c)' = DroppedBy(c) \cup {<<t, 1>>}
      /\ <<t, 1>> \notin DroppedBy(c)
  BY <1>1, <1>2 DEF DroppedBy
<1>4. ASSUME NEW d \in Cells, d # c PROVE DroppedBy(d)' = DroppedBy(d)
  <2>1. ASSUME NEW u \in Threads, NEW i \in 1..Len(todo'[u]),
               todo'[u][Len(todo'[u]) + 1 - i] = d
        PROVE  <<u, i>> \in DroppedBy(d)
    BY <1>1, <1>2, <1>4, <2>1 DEF DroppedBy
  <2>2. ASSUME NEW u \in Threads, NEW i \in 1..Len(todo[u]),
               todo[u][Len(todo[u]) + 1 - i] = d
        PROVE  <<u, i>> \in DroppedBy(d)'
    BY <1>1, <1>2, <2>2 DEF DroppedBy
  <2> QED BY <2>1, <2>2 DEF DroppedBy
<1>5. \A d \in Cells : IsFiniteSet(DroppedBy(d))
  BY DEF Counted, Covered, Finite
<1>6. todo' \in [Threads -> Seq(Cells)]
  BY <1>1, <1>2
<1> QED BY <1>3, <1>4, <1>5, <1>6, WithinSame, WithinMore

(* Counted from the end, what is left of a list keeps its places, and what *)
(* replaces its head comes after them.                                     *)
LEMMA FromTheEnd ==
  ASSUME NEW s \in Seq(Cells), s # <<>>, NEW D \in Seq(Cells),
         NEW r, r = D \o Tail(s)
  PROVE  /\ r \in Seq(Cells) /\ Len(r) = Len(D) + Len(s) - 1
         /\ Len(s) \in Nat \ {0} /\ Len(D) \in Nat
         /\ s[1] = Head(s) /\ Head(s) \in Cells
         /\ \A i \in 1..Len(r) :
              r[Len(r) + 1 - i] = IF i < Len(s) THEN s[Len(s) + 1 - i]
                                  ELSE D[Len(D) + Len(s) - i]
<1>1. /\ Tail(s) \in Seq(Cells) /\ Len(Tail(s)) = Len(s) - 1
      /\ Len(s) \in Nat \ {0} /\ Len(D) \in Nat
      /\ \A i \in 1..Len(Tail(s)) : Tail(s)[i] = s[i + 1]
      /\ s[1] = Head(s) /\ Head(s) \in Cells
  OBVIOUS
<1>2. /\ r \in Seq(Cells) /\ Len(r) = Len(D) + Len(Tail(s))
      /\ \A i \in 1..Len(r) :
           r[i] = IF i <= Len(D) THEN D[i] ELSE Tail(s)[i - Len(D)]
  BY <1>1
<1>3. ASSUME NEW i \in 1..Len(r)
      PROVE  r[Len(r) + 1 - i] = IF i < Len(s) THEN s[Len(s) + 1 - i]
                                 ELSE D[Len(D) + Len(s) - i]
  BY <1>1, <1>2
<1> QED BY <1>1, <1>2, <1>3

(* What the places from the end are.                                       *)
LEMMA Places ==
  /\ \A d, x : x \in DroppedBy(d) <=>
       \E u \in Threads : \E i \in 1..Len(todo[u]) :
         x = <<u, i>> /\ todo[u][Len(todo[u]) + 1 - i] = d
  /\ \A d, x : x \in DroppedBy(d)' <=>
       \E u \in Threads : \E i \in 1..Len(todo'[u]) :
         x = <<u, i>> /\ todo'[u][Len(todo'[u]) + 1 - i] = d
BY DEF DroppedBy

(* A call drops the head of its list and has those of D to drop first: the *)
(* head has one reference less, those of D one more.                       *)
LEMMA UnrefCounts ==
  ASSUME TypeOK, Counted, NEW t \in Threads, todo[t] # <<>>,
         NEW D \in Seq(Cells),
         \A i, j \in 1..Len(D) : D[i] = D[j] => i = j,
         todo' = [todo EXCEPT ![t] = D \o Tail(todo[t])]
  PROVE  /\ todo' \in [Threads -> Seq(Cells)]
         /\ \A d \in Cells :
              LET dropped == d = Head(todo[t])
                  added   == \E i \in 1..Len(D) : D[i] = d
              IN  /\ dropped /\ ~added
                       => Within(DroppedBy(d), DroppedBy(d)', -1)
                  /\ ~dropped /\ added
                       => Within(DroppedBy(d), DroppedBy(d)', 1)
                  /\ (dropped <=> added)
                       => Within(DroppedBy(d), DroppedBy(d)', 0)
<1> PICK s \in Seq(Cells) : s = todo[t]
  BY DEF TypeOK
<1> PICK r : r = D \o Tail(s)
  OBVIOUS
<1> PICK n \in Nat : n = Len(s)
  OBVIOUS
<1>1. todo \in [Threads -> Seq(Cells)]
  BY DEF TypeOK
<1>2. /\ r \in Seq(Cells) /\ Len(r) = Len(D) + n - 1
      /\ n # 0 /\ Len(D) \in Nat /\ s[1] = Head(s) /\ Head(s) \in Cells
      /\ \A i \in 1..Len(r) : r[Len(r) + 1 - i] = IF i < n THEN s[n + 1 - i]
                                                  ELSE D[Len(D) + n - i]
  BY FromTheEnd, SMTT(30)
<1>3. \A u \in Threads : todo'[u] = IF u = t THEN r ELSE todo[u]
  BY <1>1
<1>4. todo' \in [Threads -> Seq(Cells)]
  BY <1>1, <1>2, <1>3
<1>5. ASSUME NEW d \in Cells
      PROVE  LET dropped == d = Head(s)
                 added   == \E i \in 1..Len(D) : D[i] = d
             IN  /\ dropped /\ ~added
                      => Within(DroppedBy(d), DroppedBy(d)', -1)
                 /\ ~dropped /\ added
                      => Within(DroppedBy(d), DroppedBy(d)', 1)
                 /\ (dropped <=> added)
                      => Within(DroppedBy(d), DroppedBy(d)', 0)
  <2>1. IsFiniteSet(DroppedBy(d))
    BY DEF Counted, Covered, Finite
  <2>2. \A x : x \in DroppedBy(d)' =>
          \/ x \in DroppedBy(d) /\ x # <<t, n>>
          \/ \E i \in 1..Len(D) : D[i] = d /\ x = <<t, Len(D) + n - i>>
    <3> SUFFICES ASSUME NEW x, x \in DroppedBy(d)'
                 PROVE  \/ x \in DroppedBy(d) /\ x # <<t, n>>
                        \/ \E i \in 1..Len(D) :
                             D[i] = d /\ x = <<t, Len(D) + n - i>>
      OBVIOUS
    <3> PICK u \in Threads :
          \E i \in 1..Len(todo'[u]) :
            x = <<u, i>> /\ todo'[u][Len(todo'[u]) + 1 - i] = d
      BY Places, SMTT(30)
    <3> PICK i \in 1..Len(todo'[u]) :
          x = <<u, i>> /\ todo'[u][Len(todo'[u]) + 1 - i] = d
      OBVIOUS
    <3>1. CASE u # t
      BY <1>3, <3>1 DEF DroppedBy
    <3>2. CASE u = t /\ i < n
      <4>1. i \in 1..Len(r) /\ r[Len(r) + 1 - i] = d
        BY <1>3, <3>2
      <4>2. s[n + 1 - i] = d /\ i \in 1..n
        BY <1>2, <3>2, <4>1, SMTT(30)
      <4>3. <<t, i>> \in DroppedBy(d)
        BY <4>2, Places
      <4>4. x = <<t, i>> /\ x # <<t, n>>
        BY <3>2
      <4> QED BY <4>3, <4>4
    <3>3. CASE u = t /\ ~(i < n)
      <4>1. i \in 1..Len(r) /\ r[Len(r) + 1 - i] = d
        BY <1>3, <3>3
      <4>2. D[Len(D) + n - i] = d /\ Len(D) + n - i \in 1..Len(D)
        BY <1>2, <3>3, <4>1
      <4>3. i = Len(D) + n - (Len(D) + n - i)
        BY <1>2, <3>3
      <4> QED BY <3>3, <4>2, <4>3
    <3> QED BY <3>1, <3>2, <3>3
  <2>3. ASSUME NEW x \in DroppedBy(d), x # <<t, n>>
        PROVE  x \in DroppedBy(d)'
    <3> PICK u \in Threads :
          \E i \in 1..Len(todo[u]) :
            x = <<u, i>> /\ todo[u][Len(todo[u]) + 1 - i] = d
      BY DEF DroppedBy
    <3> PICK i \in 1..Len(todo[u]) :
          x = <<u, i>> /\ todo[u][Len(todo[u]) + 1 - i] = d
      OBVIOUS
    <3>1. CASE u # t
      BY <1>3, <3>1 DEF DroppedBy
    <3>2. CASE u = t
      <4>1. i \in 1..n /\ i < n /\ s[n + 1 - i] = d
        BY <2>3, <3>2
      <4>2. i \in 1..Len(r) /\ r[Len(r) + 1 - i] = d
        BY <1>2, <4>1, SMTT(30)
      <4>3. i \in 1..Len(todo'[t]) /\ todo'[t][Len(todo'[t]) + 1 - i] = d
        BY <1>3, <4>2
      <4>4. <<t, i>> \in DroppedBy(d)'
        BY <4>3, Places
      <4> QED BY <3>2, <4>4
    <3> QED BY <3>1, <3>2
  <2>4. ASSUME NEW i \in 1..Len(D), D[i] = d
        PROVE  <<t, Len(D) + n - i>> \in DroppedBy(d)'
    <3> PICK j : j = Len(D) + n - i
      OBVIOUS
    <3>1. j \in 1..Len(r) /\ ~(j < n) /\ Len(D) + n - j = i
      BY <1>2
    <3>2. r[Len(r) + 1 - j] = d
      BY <1>2, <2>4, <3>1
    <3>3. j \in 1..Len(todo'[t]) /\ todo'[t][Len(todo'[t]) + 1 - j] = d
      BY <1>3, <3>1, <3>2
    <3>4. <<t, j>> \in DroppedBy(d)'
      BY <3>3, Places
    <3> QED BY <3>4
  <2>5. \A i : <<t, i>> \in DroppedBy(d) => i \in 1..n
    BY DEF DroppedBy
  <2> PICK z : z = <<t, n>>
    OBVIOUS
  <2>6. d = Head(s) <=> z \in DroppedBy(d)
    <3>1. n \in 1..n /\ s[n + 1 - n] = Head(s)
      BY <1>2
    <3> QED BY <3>1 DEF DroppedBy
  <2>7. CASE \E i \in 1..Len(D) : D[i] = d
    <3> PICK i \in 1..Len(D) : D[i] = d
      BY <2>7
    <3> PICK y : y = <<t, Len(D) + n - i>>
      OBVIOUS
    <3>1. \A x : x \in DroppedBy(d)' <=>
            \/ x \in DroppedBy(d) /\ x # z
            \/ x = y
      BY <2>2, <2>3, <2>4
    <3>2. y \notin DroppedBy(d) \/ y = z
      <4>1. Len(D) + n - i \in 1..n => Len(D) + n - i = n
        BY <1>2, SMTT(30)
      <4> QED BY <2>5, <4>1
    <3>3. CASE d = Head(s)
      <4>1. Swapped(DroppedBy(d), DroppedBy(d)', z, y)
        BY <2>1, <2>6, <3>1, <3>2, <3>3 DEF Swapped
      <4>2. Within(DroppedBy(d), DroppedBy(d)', 0)
        BY <4>1, WithinSwap
      <4> QED BY <2>7, <3>3, <4>2
    <3>4. CASE d # Head(s)
      <4>1. DroppedBy(d)' = DroppedBy(d) \cup {y} /\ y \notin DroppedBy(d)
        BY <2>6, <3>1, <3>2, <3>4, ZenonT(60)
      <4>2. Within(DroppedBy(d), DroppedBy(d)', 1)
        BY <2>1, <4>1, WithinMore
      <4> QED BY <2>7, <3>4, <4>2
    <3> QED BY <3>3, <3>4
  <2>8. CASE ~ \E i \in 1..Len(D) : D[i] = d
    <3>1. \A x : x \in DroppedBy(d)' <=> x \in DroppedBy(d) /\ x # z
      BY <2>2, <2>3, <2>8
    <3>2. CASE d = Head(s)
      <4>1. DroppedBy(d)' = DroppedBy(d) \ {z}
        BY <3>1
      <4>2. Within(DroppedBy(d), DroppedBy(d)', -1)
        BY <2>1, <2>6, <3>2, <4>1, WithinLess
      <4> QED BY <2>8, <3>2, <4>2
    <3>3. CASE d # Head(s)
      <4>1. DroppedBy(d)' = DroppedBy(d)
        BY <2>6, <3>1, <3>3
      <4>2. Within(DroppedBy(d), DroppedBy(d)', 0)
        BY <2>1, <4>1, WithinSame
      <4> QED BY <2>8, <3>3, <4>2
    <3> QED BY <3>2, <3>3
  <2> QED BY <2>7, <2>8
<1> QED BY <1>4, <1>5

(* Short sequences, put together.                                          *)
LEMMA ShortSequences ==
  /\ <<>> \o <<>> = <<>>
  /\ \A x : <<x>> \o <<>> = <<x>> /\ <<>> \o <<x>> = <<x>>
  /\ \A x, y : <<x>> \o <<y>> = <<x, y>>
  /\ \A x, y : <<x, y>> \o <<>> = <<x, y>>
<1>1. ASSUME NEW x, NEW y PROVE <<x>> \o <<y>> = <<x, y>>
  <2>1. <<x>> \in Seq({x, y}) /\ y \in {x, y}
    OBVIOUS
  <2>2. Append(<<x>>, y) = <<x>> \o <<y>>
    BY <2>1, AppendIsConcat
  <2>3. Append(<<x>>, y) = <<x, y>>
    <3>1. /\ Append(<<x>>, y) \in Seq({x, y}) /\ Len(Append(<<x>>, y)) = 2
          /\ Append(<<x>>, y)[1] = x /\ Append(<<x>>, y)[2] = y
      BY <2>1, AppendProperties
    <3>2. <<x, y>> \in Seq({x, y}) /\ Len(<<x, y>>) = 2
          /\ <<x, y>>[1] = x /\ <<x, y>>[2] = y
      OBVIOUS
    <3>3. \A i \in 1..2 : Append(<<x>>, y)[i] = <<x, y>>[i]
      <4> TAKE i \in 1..2
      <4>1. i = 1 \/ i = 2
        OBVIOUS
      <4> QED BY <3>1, <3>2, <4>1
    <3> QED BY <3>1, <3>2, <3>3, SeqEqual
  <2> QED BY <2>2, <2>3
<1>2. \A x, y : <<x, y>> \o <<>> = <<x, y>>
  OBVIOUS
<1>3. \A x : <<x>> \o <<>> = <<x>> /\ <<>> \o <<x>> = <<x>>
  OBVIOUS
<1> QED BY <1>1, <1>2, <1>3

(* What the destroy functions drop: objects their object owns, each once.  *)
LEMMA DroppedShape ==
  ASSUME TypeOK, LinksRight, NEW c \in Cells
  PROVE  /\ Dropped(c) \in Seq(Cells)
         /\ \A i, j \in 1..Len(Dropped(c)) :
              Dropped(c)[i] = Dropped(c)[j] => i = j
         /\ \A i \in 1..Len(Dropped(c)) :
              \E f \in Owned(kind[c]) : link[c][f] = Dropped(c)[i]
         /\ \A f \in Owned(kind[c]) : link[c][f] # None =>
              \E i \in 1..Len(Dropped(c)) : Dropped(c)[i] = link[c][f]
<1> PICK n, p, q :
      n = link[c]["name"] /\ p = link[c]["type"] /\ q = link[c]["frame"]
  OBVIOUS
<1>1. {n, p, q} \subseteq Cells \cup {None}
  BY DEF TypeOK, Fields
<1>2. \A f \in {"name", "type", "frame"} : Linked(c, f)
  BY DEF LinksRight, Fields
<1> DEFINE Is(s) ==
       /\ s \in Seq(Cells)
       /\ \A i, j \in 1..Len(s) : s[i] = s[j] => i = j
       /\ \A i \in 1..Len(s) : \E f \in Owned(kind[c]) : link[c][f] = s[i]
       /\ \A f \in Owned(kind[c]) : link[c][f] # None =>
            \E i \in 1..Len(s) : s[i] = link[c][f]
<1> SUFFICES Is(Dropped(c))
  OBVIOUS
<1>3. ASSUME \A f \in Owned(kind[c]) : link[c][f] = None
      PROVE  Is(<<>>)
  BY <1>3
<1>4. ASSUME NEW f \in Owned(kind[c]), NEW x \in Cells, x = link[c][f],
             \A g \in Owned(kind[c]) : link[c][g] # None => g = f
      PROVE  Is(<<x>>)
  <2>1. /\ <<x>> \in Seq(Cells) /\ Len(<<x>>) = 1 /\ <<x>>[1] = x
        /\ \A i \in 1..1 : i = 1
    OBVIOUS
  <2>2. 1 \in 1..1
    OBVIOUS
  <2> QED BY <1>4, <2>1, <2>2
<1>5. ASSUME "name" \in Owned(kind[c]), "type" \in Owned(kind[c]),
             n \in Cells, p \in Cells
      PROVE  Is(<<n, p>>)
  <2>1. kind[n] = "string" /\ kind[p] \in {"type", "free"}
    BY <1>2, <1>5, ReferencesAssumption
    DEF Linked, KindOf, FrameType, Owned, Free
  <2>2. n # p
    BY <2>1
  <2>3. <<n, p>> \in Seq(Cells) /\ Len(<<n, p>>) = 2
        /\ <<n, p>>[1] = n /\ <<n, p>>[2] = p
    BY <1>5
  <2>4. \A i \in 1..2 : i = 1 \/ i = 2
    OBVIOUS
  <2>5. \A f \in Owned(kind[c]) : link[c][f] # None => f \in {"name", "type"}
    BY <1>5 DEF Owned
  <2>6. 1 \in 1..2 /\ 2 \in 1..2
    OBVIOUS
  <2> QED BY <1>5, <2>2, <2>3, <2>4, <2>5, <2>6
<1> HIDE DEF Is
<1> DEFINE owned(f) == f \in Owned(kind[c]) /\ link[c][f] # None
           drop(f)  == IF owned(f) THEN <<link[c][f]>> ELSE <<>>
<1>6. Dropped(c) = (drop("name") \o drop("type")) \o drop("frame")
  BY DEF Dropped
<1>7. /\ owned("frame") => ~owned("name") /\ ~owned("type")
      /\ owned("name") => "name" \in Owned(kind[c]) /\ n \in Cells
      /\ owned("type") => "type" \in Owned(kind[c]) /\ p \in Cells
      /\ owned("frame") => "frame" \in Owned(kind[c]) /\ q \in Cells
  BY <1>1 DEF Owned
<1>8. \A g \in Owned(kind[c]) :
        link[c][g] # None => g \in {"name", "type", "frame"} /\ owned(g)
  BY DEF Owned
<1>9. CASE owned("name") /\ owned("type")
  <2>1. Dropped(c) = (<<n>> \o <<p>>) \o <<>>
    BY <1>6, <1>7, <1>9
  <2>2. Dropped(c) = <<n, p>>
    BY <2>1, ShortSequences
  <2>3. Is(<<n, p>>)
    <3>1. "name" \in Owned(kind[c]) /\ "type" \in Owned(kind[c])
          /\ n \in Cells /\ p \in Cells
      BY <1>7, <1>9
    <3> QED BY <1>5, <3>1
  <2> HIDE DEF Is
  <2> QED BY <2>2, <2>3
<1>10. CASE owned("name") /\ ~owned("type")
  <2>1. Dropped(c) = (<<n>> \o <<>>) \o <<>>
    BY <1>6, <1>7, <1>10
  <2>2. Dropped(c) = <<n>>
    BY <2>1, ShortSequences
  <2>3. \A g \in Owned(kind[c]) : link[c][g] # None => g = "name"
    BY <1>7, <1>8, <1>10
  <2>4. "name" \in Owned(kind[c]) /\ n \in Cells
    BY <1>7, <1>10
  <2>5. Is(<<n>>)
    BY <1>4, <2>3, <2>4
  <2> QED BY <2>2, <2>5
<1>11. CASE ~owned("name") /\ owned("type")
  <2>1. Dropped(c) = (<<>> \o <<p>>) \o <<>>
    BY <1>6, <1>7, <1>11
  <2>2. Dropped(c) = <<p>>
    BY <2>1, ShortSequences
  <2>3. \A g \in Owned(kind[c]) : link[c][g] # None => g = "type"
    BY <1>7, <1>8, <1>11
  <2>4. "type" \in Owned(kind[c]) /\ p \in Cells
    BY <1>7, <1>11
  <2>5. Is(<<p>>)
    BY <1>4, <2>3, <2>4
  <2> QED BY <2>2, <2>5
<1>12. CASE owned("frame")
  <2>1. Dropped(c) = (<<>> \o <<>>) \o <<q>>
    BY <1>6, <1>7, <1>12
  <2>2. Dropped(c) = <<q>>
    BY <2>1, ShortSequences
  <2>3. \A g \in Owned(kind[c]) : link[c][g] # None => g = "frame"
    BY <1>7, <1>8, <1>12
  <2>4. "frame" \in Owned(kind[c]) /\ q \in Cells
    BY <1>7, <1>12
  <2>5. Is(<<q>>)
    BY <1>4, <2>3, <2>4
  <2> QED BY <2>2, <2>5
<1>13. CASE ~owned("name") /\ ~owned("type") /\ ~owned("frame")
  <2>1. Dropped(c) = (<<>> \o <<>>) \o <<>>
    BY <1>6, <1>13
  <2>2. Dropped(c) = <<>>
    BY <2>1, ShortSequences
  <2>3. \A f \in Owned(kind[c]) : link[c][f] = None
    BY <1>8, <1>13
  <2>4. Is(<<>>)
    BY <1>3, <2>3
  <2> QED BY <2>2, <2>4
<1> HIDE DEF owned, drop
<1> QED BY <1>9, <1>10, <1>11, <1>12, <1>13

-----------------------------------------------------------------------------
(* WHAT A STEP LEAVES ALONE *)

(* A step leaves x what it is, with its frame.                             *)
Stays(x) == kind'[x] = kind[x] /\ link'[x]["frame"] = link[x]["frame"]

(* Nobody has a reference to g, unless it is being dropped.                *)
Unused(g) == HeldBy(g) = {} /\ OwnedBy(g) = {} /\ FetchedBy(g) = {}

(* A step frees at most g, which nobody uses or which is lent, and takes   *)
(* no free cell that is not vacant.                                        *)
Spares(g) ==
  /\ \A x \in Cells : ~Free(x) /\ x # g => Stays(x)
  /\ \A x \in Cells : Free(x) /\ ~Vacant(x) => kind'[x] = "free"
  /\ lent \subseteq lent'
  /\ g \in Cells => (Unused(g) \/ g \in lent) /\ kind'[g] = "free"

(* What a thread has through a list of frames is a frame, and the list is  *)
(* one.                                                                    *)
LEMMA FramesOfLists ==
  ASSUME IInv, NEW l \in Cells, NEW c \in Cells, link[l]["frame"] = c
  PROVE  /\ kind[l] = "frames" /\ kind[c] = "frame"
         /\ l \notin lent /\ c \notin lent /\ OwnedBy(c) # {}
<1>1. Linked(l, "frame") /\ c # None
  BY ReferencesAssumption DEF IInv, LinksRight, Fields
<1>2. "frame" \in Owned(kind[l]) /\ kind[c] = "frame"
  BY <1>1 DEF Linked, FrameType, KindOf
<1>3. kind[l] = "frames"
  BY <1>2 DEF Owned
<1>4. <<l, "frame">> \in OwnedBy(c)
  BY <1>2 DEF OwnedBy
<1>5. l \notin lent /\ c \notin lent
  BY <1>2, <1>3 DEF IInv, LentTypes
<1> QED BY <1>2, <1>3, <1>4, <1>5

(* What a thread has, itself or through a list of frames, is in use, and   *)
(* alive if it is not lent.                                                *)
LEMMA HasAlive ==
  ASSUME IInv, NEW t \in Threads, NEW c \in Cells, Has(t, c)
  PROVE  ~Unused(c) /\ (c \in lent \/ ~Free(c))
<1>1. HeldBy(c) # {} \/ OwnedBy(c) # {}
  <2>1. CASE held[t][c] > 0
    <3>1. <<t, 1>> \in HeldBy(c)
      BY <2>1 DEF HeldBy, IInv, TypeOK
    <3> QED BY <3>1
  <2>2. CASE \E l \in Cells : held[t][l] > 0 /\ link[l]["frame"] = c
    BY <2>2, FramesOfLists
  <2> QED BY <2>1, <2>2 DEF Has
<1> QED BY <1>1, ReferencedAlive DEF IInv, Counted, Unused

(* A step that spares what is used takes nothing from a thread that drops  *)
(* nothing.                                                                *)
LEMMA HasKept ==
  ASSUME IInv, NEW t \in Threads, NEW c \in Cells, Has(t, c),
         NEW g, Spares(g),
         \A x \in Cells : held[t][x] > 0 => held'[t][x] > 0
  PROVE  Has(t, c)'
<1>1. CASE held[t][c] > 0
  BY <1>1 DEF Has
<1>2. CASE \E l \in Cells : held[t][l] > 0 /\ link[l]["frame"] = c
  <2> PICK l \in Cells : held[t][l] > 0 /\ link[l]["frame"] = c
    BY <1>2
  <2>1. Has(t, l)
    BY DEF Has
  <2>2. kind[l] = "frames" /\ l \notin lent
    BY FramesOfLists
  <2>3. Stays(l)
    BY <2>1, <2>2, HasAlive DEF Spares
  <2>4. held'[t][l] > 0 /\ link'[l]["frame"] = c
    BY <2>3 DEF Stays
  <2> QED BY <2>4 DEF Has
<1> QED BY <1>1, <1>2 DEF Has

(* What becomes in such a step of an object that is used: it stays, or it  *)
(* was a lent type and is gone.                                            *)
LEMMA UsedKept ==
  ASSUME IInv, NEW g, Spares(g), NEW x \in Cells, ~Unused(x),
         x \in lent \/ ~Free(x)
  PROVE  \/ ~Free(x) /\ Stays(x)
         \/ x \in lent /\ kind[x] \in {"type", "free"} /\ kind'[x] = "free"
<1>1. CASE Free(x)
  <2>1. kind'[x] = "free" /\ x \in lent
    BY <1>1 DEF Spares, Vacant
  <2> QED BY <2>1 DEF IInv, LentTypes
<1>2. CASE ~Free(x) /\ x # g
  BY <1>2 DEF Spares
<1>3. CASE x = g
  BY <1>3 DEF Spares, IInv, LentTypes
<1> QED BY <1>1, <1>2, <1>3

(* Such a step leaves the calls of other threads as they were: what their  *)
(* getters work on and what they have fetched is still there, or was lent. *)
LEMMA CallKept ==
  ASSUME IInv, NEW t \in Threads, NEW g, Spares(g),
         \A x \in Cells : held[t][x] > 0 => held'[t][x] > 0,
         Alone /\ at[t] \in {"fetch", "store"} => UNCHANGED link,
         at'[t] = at[t], arg'[t] = arg[t],
         fresh'[t] = fresh[t], todo'[t] = todo[t]
  PROVE  Calls(t)'
<1>1. /\ Calls(t) /\ fresh[t] \in Cells \cup {None}
      /\ arg[t] \in (Cells \cup {None}) \X Fields
  BY DEF IInv, InCalls, TypeOK
<1>2. /\ todo'[t] # <<>> <=> at'[t] = "unref"
      /\ fresh'[t] # None => at'[t] \in {"store", "reread"}
  BY <1>1 DEF Calls
<1>3. ASSUME at[t] \in Getting
      PROVE  /\ arg[t][1] \in Cells /\ Has(t, arg[t][1])'
             /\ \/ /\ kind'[arg[t][1]] = kind[arg[t][1]]
                   /\ arg[t][2] \in Cached(kind[arg[t][1]])
                \/ /\ kind[arg[t][1]] \in {"type", "free"}
                   /\ kind'[arg[t][1]] = "free"
  <2> PICK a \in Cells : a = arg[t][1]
    BY <1>1, <1>3 DEF Calls
  <2>1. Has(t, a) /\ (arg[t][2] \in Cached(kind[a]) \/ Free(a))
    BY <1>1, <1>3 DEF Calls
  <2>2. Has(t, a)'
    BY <2>1, HasKept
  <2>3. \/ ~Free(a) /\ Stays(a)
        \/ a \in lent /\ kind[a] \in {"type", "free"} /\ kind'[a] = "free"
    BY <2>1, HasAlive, UsedKept
  <2>4. Has(t, arg[t][1])'
    BY <2>2 DEF Has
  <2> QED BY <2>1, <2>3, <2>4 DEF Stays
<1>4. ASSUME fresh[t] # None
      PROVE  \/ kind'[fresh[t]] = kind[fresh[t]]
             \/ /\ kind[fresh[t]] \in {"type", "free"}
                /\ kind'[fresh[t]] = "free"
  <2> PICK c \in Cells : c = fresh[t]
    BY <1>1, <1>4
  <2>1. t \in FetchedBy(c)
    BY DEF FetchedBy
  <2>2. ~Unused(c) /\ (c \in lent \/ ~Free(c))
    BY <2>1, ReferencedAlive DEF IInv, Counted, Unused
  <2> QED BY <2>2, UsedKept DEF Stays
<1>5. at'[t] \in Getting
        => /\ arg'[t][1] \in Cells /\ Has(t, arg[t][1])'
           /\ arg'[t][2] \in Cached(kind'[arg'[t][1]]) \/ Free(arg[t][1])'
  BY <1>3 DEF Free
<1>6. at'[t] = "store" /\ fresh'[t] # None
        => \/ kind'[fresh'[t]] = KindOf(arg'[t][2])
           \/ arg'[t][2] = "type" /\ Free(fresh[t])'
  BY <1>1, <1>4 DEF Calls, Free, KindOf, Fields
<1>7. at'[t] = "reread" => FrameType(arg[t][1], arg[t][2])' /\ FunctionTypes
  BY <1>1, <1>3 DEF Calls, FrameType, Getting
<1>8. Alone /\ at'[t] \in {"fetch", "store"}
        => link'[arg'[t][1]][arg'[t][2]] = None
  BY <1>1 DEF Calls
<1> QED BY <1>2, <1>5, <1>6, <1>7, <1>8 DEF Calls, Free, FrameType

(* Such a step leaves a link right that it does not write.                 *)
LEMMA LinkKept ==
  ASSUME IInv, NEW g, Spares(g), NEW c \in Cells, NEW f \in Fields,
         kind'[c] = kind[c], link'[c][f] = link[c][f]
  PROVE  Linked(c, f)'
<1> PICK d : d = link[c][f]
  OBVIOUS
<1>1. CASE d = None
  BY <1>1 DEF Linked
<1>2. CASE d # None
  <2>1. /\ d \in Cells
        /\ f \in Owned(kind[c]) \/ (FrameType(c, f) /\ FunctionTypes)
        /\ \/ kind[d] = KindOf(f)
           \/ f = "type" /\ Free(d) /\ (FrameType(c, f) \/ d \in lent)
    BY <1>2 DEF IInv, TypeOK, LinksRight, Linked
  <2>2. (f = "type" /\ FrameType(c, f)) \/ f \in Owned(kind[c])
    BY <2>1 DEF FrameType
  <2>3. CASE Free(d)
    <3>1. kind'[d] = "free"
      BY <2>1, <2>3 DEF Spares, Vacant
    <3>2. f = "type" /\ (FrameType(c, f) \/ d \in lent)
      BY <2>1, <2>3 DEF Free, KindOf, Fields
    <3> QED BY <2>1, <3>1, <3>2 DEF Linked, FrameType, Free, Spares
  <2>4. CASE ~Free(d) /\ d # g
    <3>1. kind'[d] = kind[d]
      BY <2>1, <2>4 DEF Spares, Stays
    <3> QED BY <2>1, <2>4, <3>1 DEF Linked, FrameType
  <2>5. CASE ~Free(d) /\ d = g
    <3>1. /\ kind[d] = KindOf(f) /\ kind'[d] = "free"
          /\ Unused(d) \/ d \in lent
      BY <2>1, <2>5 DEF Spares
    <3>2. f \in Owned(kind[c]) => <<c, f>> \in OwnedBy(d)
      BY DEF OwnedBy
    <3>3. d \in lent => f = "type" /\ d \in lent'
      BY <3>1, <2>5 DEF IInv, LentTypes, KindOf, Fields, Spares, Free
    <3> QED BY <2>1, <2>2, <3>1, <3>2, <3>3
            DEF Unused, Linked, FrameType, Free
  <2> QED BY <2>3, <2>4, <2>5
<1> QED BY <1>1, <1>2

(* A free cell has no count and no links.                                  *)
LEMMA FreeUnlinked ==
  ASSUME IInv, NEW c \in Cells, Free(c)
  PROVE  rc[c] = 0 /\ \A f \in Fields : link[c][f] = None
BY DEF IInv, FreeIffUncounted, LinksRight, Linked, Owned, FrameType, Free

(* An object made of a free cell, with no links, disturbs nothing.         *)
LEMMA AllocKeeps ==
  ASSUME IInv, NEW c \in Cells, Vacant(c), NEW k \in Kinds, Alloc(c, k),
         UNCHANGED <<link, lent>>
  PROVE  /\ kind' \in [Cells -> Kinds \cup {"free"}]
         /\ \A d \in Cells : Free(d)' <=> Free(d) /\ d # c
         /\ Spares(None) /\ LentTypes'
         /\ \A d \in Cells : Within(OwnedBy(d), OwnedBy(d)', 0)
         /\ LinksRight'
<1>0. Free(c) /\ c \notin lent
  BY DEF Vacant
<1>1. \A d \in Cells : kind'[d] = IF d = c THEN k ELSE kind[d]
  BY DEF Alloc, IInv, TypeOK
<1>2. /\ kind' \in [Cells -> Kinds \cup {"free"}]
      /\ \A d \in Cells : Free(d)' <=> Free(d) /\ d # c
  BY <1>0, <1>1 DEF Alloc, IInv, TypeOK, Kinds, Free
<1>3. Spares(None) /\ LentTypes'
  <2>1. \A x \in Cells : ~Free(x) => Stays(x)
    BY <1>0, <1>1 DEF Stays
  <2>2. \A x \in Cells : Free(x) /\ ~Vacant(x) => kind'[x] = "free"
    BY <1>1 DEF Free
  <2>3. LentTypes'
    BY <1>0, <1>1 DEF IInv, TypeOK, LentTypes
  <2> QED BY <2>1, <2>2, <2>3, ReferencesAssumption DEF Spares
<1>4. \A d \in Cells : Within(OwnedBy(d), OwnedBy(d)', 0)
  <2>1. KeepsLinks
    BY <1>0, <1>1, FreeUnlinked DEF KeepsLinks
  <2> QED BY <1>0, <1>1, <2>1, FreeUnlinked, OwnedKept DEF IInv
<1>5. ASSUME NEW d \in Cells, NEW f \in Fields PROVE Linked(d, f)'
  <2>1. CASE d = c
    BY <1>0, <2>1, FreeUnlinked DEF Linked
  <2>2. CASE d # c
    <3>1. kind'[d] = kind[d] /\ link'[d][f] = link[d][f]
      BY <1>1, <2>2
    <3> QED BY <1>3, <3>1, LinkKept
  <2> QED BY <2>1, <2>2
<1> QED BY <1>2, <1>3, <1>4, <1>5 DEF LinksRight

-----------------------------------------------------------------------------
(* CALLS *)

(* A new object with one reference, its maker's, keeps the invariant.      *)
LEMMA NewCell ==
  ASSUME IInv, NEW t \in Threads, NEW c \in Cells, Vacant(c), NEW k \in Kinds,
         Alloc(c, k), rc' = [rc EXCEPT ![c] = 1], Hold(t, c),
         UNCHANGED <<link, at, arg, fresh, todo, lent, crash>>, crash = "none"
  PROVE  IInv'
<1> USE DEF IInv
<1>1. TypeOK'
  BY AllocKeeps, HoldCounts DEF TypeOK
<1>2. Counted'
  <2> SUFFICES ASSUME NEW d \in Cells PROVE Covered(d)'
    BY DEF Counted
  <2>1. /\ Within(FetchedBy(d), FetchedBy(d)', 0)
        /\ Within(DroppedBy(d), DroppedBy(d)', 0)
        /\ Within(OwnedBy(d), OwnedBy(d)', 0)
    BY FetchedKept, DroppedKept, AllocKeeps
  <2>2. /\ Covered(d) /\ rc' \in [Cells -> Nat] /\ rc[c] = 0
        /\ lent \subseteq lent'
    BY FreeUnlinked DEF Counted, TypeOK, Vacant
  <2>3. CASE d = c
    <3>1. rc'[d] = rc[d] + 1 + 0 + 0 + 0 /\ Within(HeldBy(d), HeldBy(d)', 1)
      BY <2>2, <2>3, HoldCounts DEF TypeOK
    <3> QED BY <2>1, <2>2, <3>1, Recount, Changes
  <2>4. CASE d # c
    <3>1. rc'[d] = rc[d] + 0 + 0 + 0 + 0 /\ Within(HeldBy(d), HeldBy(d)', 0)
      BY <2>4, HoldCounts DEF TypeOK
    <3> QED BY <2>1, <2>2, <3>1, Recount, Changes
  <2> QED BY <2>3, <2>4
<1>3. FreeIffUncounted'
  <2>1. \A d \in Cells : Free(d)' <=> Free(d) /\ d # c
    BY AllocKeeps
  <2> QED BY <2>1 DEF FreeIffUncounted, TypeOK
<1>4. LinksRight' /\ LentTypes'
  BY AllocKeeps
<1>5. InCalls'
  <2> SUFFICES ASSUME NEW u \in Threads PROVE Calls(u)'
    BY DEF InCalls
  <2>1. \A x \in Cells : held[u][x] > 0 => held'[u][x] > 0
    BY HoldCounts DEF TypeOK
  <2>2. Spares(None)
    BY AllocKeeps
  <2> QED BY <2>1, <2>2, CallKept
<1>6. CrashedByDangling'
  BY DEF CrashedByDangling
<1> QED BY <1>1, <1>2, <1>3, <1>4, <1>5, <1>6

(* r_type_new keeps it.                                                    *)
LEMMA NewTypeStep ==
  ASSUME IInv, NEW t \in Threads, NewType(t)
  PROVE  IInv'
BY NewCell DEF NewType, MayCall, localUnchanged, Kinds

(* r_type_member_new keeps it.                                             *)
LEMMA NewMemberStep ==
  ASSUME IInv, NEW t \in Threads, NewMember(t)
  PROVE  IInv'
BY NewCell DEF NewMember, MayCall, localUnchanged, Kinds

(* A new object m that owns one other, c, through its field g.             *)
LEMMA NewLink ==
  ASSUME IInv, NEW m \in Cells, Vacant(m), NEW g \in Fields, NEW c \in Cells,
         link' = [link EXCEPT ![m][g] = c],
         \A d \in Cells : kind'[d] = kind[d] \/ Vacant(d),
         kind'[c] = KindOf(g), g \in Owned(kind'[m]), UNCHANGED lent
  PROVE  /\ link' \in [Cells -> [Fields -> Cells \cup {None}]]
         /\ Spares(None) /\ LentTypes'
         /\ Within(OwnedBy(c), OwnedBy(c)', 1)
         /\ \A d \in Cells : d # c => Within(OwnedBy(d), OwnedBy(d)', 0)
         /\ LinksRight'
<1>0. Free(m) /\ \A d \in Cells : Vacant(d) => Free(d) /\ d \notin lent
  BY DEF Vacant
<1>1. /\ link \in [Cells -> [Fields -> Cells \cup {None}]]
      /\ \A y \in Cells, f \in Fields :
           link'[y][f] = IF y = m /\ f = g THEN c ELSE link[y][f]
  BY DEF IInv, TypeOK
<1>2. link' \in [Cells -> [Fields -> Cells \cup {None}]]
  BY <1>1
<1>3. \A y \in Cells, f \in Fields : Free(y) => link[y][f] = None
  BY FreeUnlinked
<1>4. Spares(None) /\ LentTypes'
  <2>1. \A x \in Cells : ~Free(x) => Stays(x)
    BY <1>0, <1>1 DEF Stays, Fields
  <2>2. \A x \in Cells : Free(x) /\ ~Vacant(x) => kind'[x] = "free"
    BY DEF Free
  <2>3. LentTypes'
    BY <1>0 DEF IInv, TypeOK, LentTypes
  <2> QED BY <2>1, <2>2, <2>3, ReferencesAssumption DEF Spares
<1>5. \A y \in Cells, f \in Fields :
        f \in Owned(kind'[y]) /\ link'[y][f] # None =>
          \/ f \in Owned(kind[y]) /\ link'[y][f] = link[y][f]
          \/ y = m /\ f = g /\ link'[y][f] = c
  BY <1>0, <1>1, <1>3
<1>6. /\ Within(OwnedBy(c), OwnedBy(c)', 1)
      /\ \A d \in Cells : d # c => Within(OwnedBy(d), OwnedBy(d)', 0)
  <2>1. KeepsLinks
    BY <1>0, <1>1, <1>3 DEF KeepsLinks, Owned
  <2>2. link'[m][g] = c /\ link[m][g] = None
    BY <1>0, <1>1, <1>3
  <2>3. OnlyNewLink(m, g, c)
    BY <1>5, <2>1, <2>2 DEF OnlyNewLink
  <2> QED BY <2>3, OwnedAdds DEF IInv
<1>7. ASSUME NEW d \in Cells, NEW f \in Fields PROVE Linked(d, f)'
  <2>1. CASE d = m /\ f = g
    BY <1>1, <2>1 DEF Linked
  <2>2. CASE ~(d = m /\ f = g) /\ Free(d)
    BY <1>1, <1>3, <2>2 DEF Linked
  <2>3. CASE ~(d = m /\ f = g) /\ ~Free(d)
    <3>1. kind'[d] = kind[d] /\ link'[d][f] = link[d][f]
      BY <1>0, <1>1, <2>3
    <3> QED BY <1>4, <3>1, LinkKept
  <2> QED BY <2>1, <2>2, <2>3
<1> QED BY <1>2, <1>4, <1>6, <1>7 DEF LinksRight

(* r_frame_list_new keeps it: the list has its maker's reference, its      *)
(* frame the list's.                                                       *)
LEMMA NewFramesStep ==
  ASSUME IInv, NEW t \in Threads, NewFrames(t)
  PROVE  IInv'
<1> PICK l \in Cells, c \in Cells :
      /\ l # c /\ Vacant(l) /\ Vacant(c)
      /\ kind' = [kind EXCEPT ![l] = "frames", ![c] = "frame"]
      /\ rc' = [rc EXCEPT ![l] = 1, ![c] = 1]
      /\ link' = [link EXCEPT ![l]["frame"] = c]
      /\ Hold(t, l)
  BY DEF NewFrames
<1>0. /\ UNCHANGED <<at, arg, fresh, todo, lent, crash>> /\ crash = "none"
      /\ Free(l) /\ Free(c)
  BY DEF NewFrames, MayCall, localUnchanged, Vacant
<1> USE DEF IInv
<1>1. /\ \A d \in Cells : kind'[d] = IF d = l THEN "frames"
                                     ELSE IF d = c THEN "frame" ELSE kind[d]
      /\ kind' \in [Cells -> Kinds \cup {"free"}]
      /\ \A d \in Cells : rc'[d] = IF d \in {l, c} THEN 1 ELSE rc[d]
      /\ rc' \in [Cells -> Nat] /\ rc[l] = 0 /\ rc[c] = 0
  BY <1>0, FreeUnlinked DEF TypeOK, Kinds
<1>2. /\ kind'[c] = KindOf("frame") /\ "frame" \in Owned(kind'[l])
      /\ "frame" \in Fields
  BY <1>1 DEF KindOf, Owned, Fields
<1>3. \A d \in Cells : kind'[d] = kind[d] \/ Vacant(d)
  BY <1>1
<1>4. /\ link' \in [Cells -> [Fields -> Cells \cup {None}]]
      /\ Spares(None) /\ LentTypes'
      /\ Within(OwnedBy(c), OwnedBy(c)', 1)
      /\ \A d \in Cells : d # c => Within(OwnedBy(d), OwnedBy(d)', 0)
      /\ LinksRight'
  BY <1>0, <1>2, <1>3, NewLink
<1>5. /\ held' \in [Threads -> [Cells -> Nat]]
      /\ \A u \in Threads, d \in Cells : held'[u][d] >= held[u][d]
      /\ Within(HeldBy(l), HeldBy(l)', 1)
      /\ \A d \in Cells : d # l => Within(HeldBy(d), HeldBy(d)', 0)
  BY HoldCounts
<1>6. TypeOK'
  BY <1>0, <1>1, <1>4, <1>5 DEF TypeOK
<1>7. Counted'
  <2> SUFFICES ASSUME NEW d \in Cells PROVE Covered(d)'
    BY DEF Counted
  <2>1. /\ Within(FetchedBy(d), FetchedBy(d)', 0)
        /\ Within(DroppedBy(d), DroppedBy(d)', 0)
        /\ Covered(d) /\ rc[d] \in Nat /\ lent \subseteq lent'
    BY <1>0, FetchedKept, DroppedKept DEF Counted, TypeOK
  <2>2. CASE d = l
    <3>1. /\ rc'[d] = rc[d] + 1 + 0 + 0 + 0
          /\ Within(HeldBy(d), HeldBy(d)', 1)
          /\ Within(OwnedBy(d), OwnedBy(d)', 0)
      BY <1>1, <1>4, <1>5, <2>1, <2>2
    <3> QED BY <1>1, <2>1, <3>1, Recount, Changes
  <2>3. CASE d = c
    <3>1. /\ rc'[d] = rc[d] + 0 + 1 + 0 + 0
          /\ Within(HeldBy(d), HeldBy(d)', 0)
          /\ Within(OwnedBy(d), OwnedBy(d)', 1)
      BY <1>1, <1>4, <1>5, <2>1, <2>3
    <3> QED BY <1>1, <2>1, <3>1, Recount, Changes
  <2>4. CASE d \notin {l, c}
    <3>1. /\ rc'[d] = rc[d] + 0 + 0 + 0 + 0
          /\ Within(HeldBy(d), HeldBy(d)', 0)
          /\ Within(OwnedBy(d), OwnedBy(d)', 0)
      BY <1>1, <1>4, <1>5, <2>1, <2>4
    <3> QED BY <1>1, <2>1, <3>1, Recount, Changes
  <2> QED BY <2>2, <2>3, <2>4
<1>8. FreeIffUncounted'
  <2> SUFFICES ASSUME NEW d \in Cells PROVE Free(d)' <=> rc'[d] = 0
    BY DEF FreeIffUncounted
  <2>1. Free(d) <=> rc[d] = 0
    BY DEF FreeIffUncounted
  <2> QED BY <1>1, <2>1 DEF Free
<1>9. InCalls'
  <2> SUFFICES ASSUME NEW u \in Threads PROVE Calls(u)'
    BY DEF InCalls
  <2>1. \A x \in Cells : held[u][x] > 0 => held'[u][x] > 0
    BY <1>5, SMTT(30) DEF TypeOK
  <2>2. Alone => at[u] = "out"
    BY DEF Alone, NewFrames, MayCall
  <2> QED BY <1>0, <1>4, <2>1, <2>2, CallKept
<1>10. CrashedByDangling'
  BY <1>0 DEF CrashedByDangling
<1> QED BY <1>4, <1>6, <1>7, <1>8, <1>9, <1>10

(* r_memory_new keeps it: it takes the reference to the type that the      *)
(* memory is going to drop.                                                *)
LEMMA NewMemoryStep ==
  ASSUME IInv, NEW t \in Threads, NewMemory(t)
  PROVE  IInv'
<1> PICK c \in Cells, m \in Cells :
      /\ kind[c] = "type" /\ Has(t, c)
      /\ Vacant(m) /\ Alloc(m, "memory")
      /\ rc' = [rc EXCEPT ![m] = 1, ![c] = @ + 1]
      /\ link' = [link EXCEPT ![m]["type"] = c]
      /\ Hold(t, m)
  BY DEF NewMemory
<1>0. /\ UNCHANGED <<at, arg, fresh, todo, lent, crash>> /\ crash = "none"
      /\ Free(m) /\ m # c
  BY DEF NewMemory, MayCall, localUnchanged, Vacant, Free
<1> USE DEF IInv
<1>a. /\ rc \in [Cells -> Nat] /\ kind \in [Cells -> Kinds \cup {"free"}]
      /\ rc[m] = 0
  BY <1>0, FreeUnlinked DEF TypeOK
<1>b. /\ rc' \in [Cells -> Nat]
      /\ \A d \in Cells : rc'[d] = IF d = m THEN 1
                                   ELSE IF d = c THEN rc[d] + 1 ELSE rc[d]
  BY <1>0, <1>a
<1>1. /\ \A d \in Cells : kind'[d] = IF d = m THEN "memory" ELSE kind[d]
      /\ kind' \in [Cells -> Kinds \cup {"free"}]
  BY <1>a DEF Kinds, Alloc
<1>2. /\ kind'[c] = KindOf("type") /\ "type" \in Owned(kind'[m])
      /\ "type" \in Fields
  BY <1>0, <1>1 DEF KindOf, Owned, Fields
<1>3. \A d \in Cells : kind'[d] = kind[d] \/ Vacant(d)
  BY <1>1
<1>4. /\ link' \in [Cells -> [Fields -> Cells \cup {None}]]
      /\ Spares(None) /\ LentTypes'
      /\ Within(OwnedBy(c), OwnedBy(c)', 1)
      /\ \A d \in Cells : d # c => Within(OwnedBy(d), OwnedBy(d)', 0)
      /\ LinksRight'
  BY <1>0, <1>2, <1>3, NewLink
<1>5. /\ held' \in [Threads -> [Cells -> Nat]]
      /\ \A u \in Threads, d \in Cells : held'[u][d] >= held[u][d]
      /\ Within(HeldBy(m), HeldBy(m)', 1)
      /\ \A d \in Cells : d # m => Within(HeldBy(d), HeldBy(d)', 0)
  BY HoldCounts
<1>6. TypeOK'
  BY <1>0, <1>b, <1>1, <1>4, <1>5 DEF TypeOK
<1>7. Counted'
  <2> SUFFICES ASSUME NEW d \in Cells PROVE Covered(d)'
    BY DEF Counted
  <2>1. /\ Covered(d) /\ rc[d] \in Nat /\ lent \subseteq lent'
        /\ Within(FetchedBy(d), FetchedBy(d)', 0)
        /\ Within(DroppedBy(d), DroppedBy(d)', 0)
    BY <1>0, FetchedKept, DroppedKept DEF Counted, TypeOK
  <2>2. CASE d = m
    <3>1. /\ rc'[d] = rc[d] + 1 + 0 + 0 + 0
          /\ Within(HeldBy(d), HeldBy(d)', 1)
          /\ Within(OwnedBy(d), OwnedBy(d)', 0)
      BY <1>a, <1>b, <1>0, <1>4, <1>5, <2>1, <2>2
    <3> QED BY <1>b, <2>1, <3>1, Recount, Changes
  <2>3. CASE d = c
    <3>1. /\ rc'[d] = rc[d] + 0 + 1 + 0 + 0
          /\ Within(HeldBy(d), HeldBy(d)', 0)
          /\ Within(OwnedBy(d), OwnedBy(d)', 1)
      BY <1>a, <1>b, <1>0, <1>4, <1>5, <2>1, <2>3
    <3> QED BY <1>b, <2>1, <3>1, Recount, Changes
  <2>4. CASE d \notin {m, c}
    <3>1. /\ rc'[d] = rc[d] + 0 + 0 + 0 + 0
          /\ Within(HeldBy(d), HeldBy(d)', 0)
          /\ Within(OwnedBy(d), OwnedBy(d)', 0)
      BY <1>a, <1>b, <1>0, <1>4, <1>5, <2>1, <2>4
    <3> QED BY <1>b, <2>1, <3>1, Recount, Changes
  <2> QED BY <2>2, <2>3, <2>4
<1>8. FreeIffUncounted'
  <2> SUFFICES ASSUME NEW d \in Cells PROVE Free(d)' <=> rc'[d] = 0
    BY DEF FreeIffUncounted
  <2>1. Free(d) <=> rc[d] = 0
    BY DEF FreeIffUncounted
  <2>2. CASE d = m
    BY <1>b, <1>1, <2>2 DEF Free
  <2>3. CASE d = c
    <3>1. rc'[d] = rc[d] + 1 /\ rc[d] \in Nat /\ kind'[d] = "type"
      BY <1>0, <1>a, <1>b, <1>1, <2>3
    <3> QED BY <3>1 DEF Free
  <2>4. CASE d # m /\ d # c
    BY <1>b, <1>1, <2>1, <2>4 DEF Free
  <2> QED BY <2>2, <2>3, <2>4
<1>9. InCalls'
  <2> SUFFICES ASSUME NEW u \in Threads PROVE Calls(u)'
    BY DEF InCalls
  <2>1. \A x \in Cells : held[u][x] > 0 => held'[u][x] > 0
    BY <1>5, SMTT(30) DEF TypeOK
  <2>2. Alone => at[u] = "out"
    BY DEF Alone, NewMemory, MayCall
  <2> QED BY <1>0, <1>4, <2>1, <2>2, CallKept
<1>10. CrashedByDangling'
  BY <1>0 DEF CrashedByDangling
<1> QED BY <1>4, <1>6, <1>7, <1>8, <1>9, <1>10

(* A reference given up is handed to an unref, which has it to drop.       *)
LEMMA HandOver ==
  ASSUME IInv, NEW t \in Threads, NEW c \in Cells, at[t] = "out",
         todo' = [todo EXCEPT ![t] = <<c>>], at' = [at EXCEPT ![t] = "unref"],
         UNCHANGED <<arg, fresh, crash>>, crash = "none", Spares(None),
         \A u \in Threads, d \in Cells : u # t => held'[u][d] = held[u][d]
  PROVE  /\ todo' \in [Threads -> Seq(Cells)]
         /\ at' \in [Threads -> {"out", "unref"} \cup Getting]
         /\ Within(DroppedBy(c), DroppedBy(c)', 1)
         /\ \A d \in Cells : d # c => Within(DroppedBy(d), DroppedBy(d)', 0)
         /\ InCalls' /\ CrashedByDangling'
<1> USE DEF IInv
<1>1. Calls(t) /\ todo[t] = <<>>
  BY DEF InCalls, Calls
<1>2. /\ todo' \in [Threads -> Seq(Cells)]
      /\ Within(DroppedBy(c), DroppedBy(c)', 1)
      /\ \A d \in Cells : d # c => Within(DroppedBy(d), DroppedBy(d)', 0)
  BY <1>1, DropCounts
<1>3. at' \in [Threads -> {"out", "unref"} \cup Getting]
  BY DEF TypeOK, Getting
<1>4. Calls(t)'
  <2>1. at'[t] = "unref" /\ todo'[t] = <<c>> /\ <<c>> # <<>>
    BY DEF TypeOK
  <2>2. fresh[t] = None
    BY <1>1 DEF Calls
  <2> QED BY <1>1, <2>1, <2>2 DEF Calls, Getting
<1>5. ASSUME NEW u \in Threads, u # t PROVE Calls(u)'
  <2>1. at'[u] = at[u] /\ todo'[u] = todo[u]
    BY <1>5 DEF TypeOK
  <2>2. ~Alone
    BY <1>5 DEF Alone
  <2> QED BY <1>5, <2>1, <2>2, CallKept
<1>6. InCalls'
  BY <1>4, <1>5 DEF InCalls
<1>7. CrashedByDangling'
  BY DEF CrashedByDangling
<1> QED BY <1>2, <1>3, <1>6, <1>7

(* A reference that a thread gives up and its call is to drop keeps it.    *)
LEMMA LetGoStep ==
  ASSUME IInv, NEW t \in Threads, NEW c \in Cells, MayCall(t), held[t][c] > 0,
         held' = [held EXCEPT ![t][c] = @ - 1],
         todo' = [todo EXCEPT ![t] = <<c>>], at' = [at EXCEPT ![t] = "unref"],
         UNCHANGED <<heapVars, arg, fresh, lent, crash>>
  PROVE  IInv'
<1> USE DEF IInv, heapVars
<1>1. Spares(None)
  BY ReferencesAssumption DEF Stays, Spares, Free
<1>2. /\ held' \in [Threads -> [Cells -> Nat]]
      /\ Within(HeldBy(c), HeldBy(c)', -1)
      /\ \A d \in Cells : d # c => Within(HeldBy(d), HeldBy(d)', 0)
  BY LetGoCounts
<1>3. \A u \in Threads, d \in Cells : u # t => held'[u][d] = held[u][d]
  BY DEF TypeOK
<1>4. /\ todo' \in [Threads -> Seq(Cells)]
      /\ at' \in [Threads -> {"out", "unref"} \cup Getting]
      /\ Within(DroppedBy(c), DroppedBy(c)', 1)
      /\ \A d \in Cells : d # c => Within(DroppedBy(d), DroppedBy(d)', 0)
      /\ InCalls' /\ CrashedByDangling'
  BY <1>1, <1>3, HandOver DEF MayCall
<1>5. \A d \in Cells : Within(OwnedBy(d), OwnedBy(d)', 0)
  BY OwnedKept DEF KeepsLinks
<1>6. TypeOK'
  BY <1>2, <1>4 DEF TypeOK, Getting
<1>7. Counted'
  <2> SUFFICES ASSUME NEW d \in Cells PROVE Covered(d)'
    BY DEF Counted
  <2>1. /\ Covered(d) /\ rc[d] \in Nat
        /\ rc' = rc /\ rc' \in [Cells -> Nat] /\ lent \subseteq lent'
        /\ Within(OwnedBy(d), OwnedBy(d)', 0)
        /\ Within(FetchedBy(d), FetchedBy(d)', 0)
    BY FetchedKept, <1>5 DEF Counted, TypeOK
  <2>2. CASE d = c
    <3>1. /\ rc'[d] = rc[d] + -1 + 0 + 0 + 1
          /\ Within(HeldBy(d), HeldBy(d)', -1)
          /\ Within(DroppedBy(d), DroppedBy(d)', 1)
      BY <1>2, <1>4, <2>1, <2>2
    <3> QED BY <2>1, <3>1, Recount, Changes
  <2>3. CASE d # c
    <3>1. /\ rc'[d] = rc[d] + 0 + 0 + 0 + 0
          /\ Within(HeldBy(d), HeldBy(d)', 0)
          /\ Within(DroppedBy(d), DroppedBy(d)', 0)
      BY <1>2, <1>4, <2>1, <2>3
    <3> QED BY <2>1, <3>1, Recount, Changes
  <2> QED BY <2>2, <2>3
<1>8. FreeIffUncounted'
  BY DEF FreeIffUncounted, Free
<1>9. LinksRight' /\ LentTypes'
  BY DEF LinksRight, Linked, FrameType, Free, LentTypes
<1> QED BY <1>4, <1>6, <1>7, <1>8, <1>9

(* The program's r_*_unref, up to its first decrement, keeps it.           *)
LEMMA ReleaseStep ==
  ASSUME IInv, NEW t \in Threads, Release(t)
  PROVE  IInv'
BY LetGoStep DEF Release

(* The r_mem_malloc and r_mem_calloc macros keep it: the reference to the  *)
(* pointee nobody drops only makes the count too high.                     *)
LEMMA NewSizedStep ==
  ASSUME IInv, NEW t \in Threads, NewSized(t)
  PROVE  IInv'
<1> PICK p \in Cells :
      /\ kind[p] = "type" /\ held[t][p] > 0
      /\ \/ \E c, m \in Cells :
              /\ c # m /\ Vacant(c) /\ Vacant(m)
              /\ kind' = [kind EXCEPT ![c] = "type", ![m] = "memory"]
              /\ rc' = [rc EXCEPT ![m] = 1, ![c] = 2]
              /\ link' = [link EXCEPT ![m]["type"] = c]
              /\ held' = [held EXCEPT ![t] =
                           [@ EXCEPT ![p] = held[t][p] - 1,
                                     ![m] = held[t][m] + 1]]
         \/ /\ held' = [held EXCEPT ![t][p] = @ - 1]
            /\ UNCHANGED heapVars
      /\ todo' = [todo EXCEPT ![t] = <<p>>]
      /\ at' = [at EXCEPT ![t] = "unref"]
  BY DEF NewSized
<1>a. /\ MayCall(t) /\ UNCHANGED <<arg, fresh, lent, crash>>
      /\ crash = "none" /\ at[t] = "out"
  BY DEF NewSized, MayCall
<1>b. CASE held' = [held EXCEPT ![t][p] = @ - 1] /\ UNCHANGED heapVars
  BY <1>a, <1>b, LetGoStep
<1>c. CASE \E c, m \in Cells :
             /\ c # m /\ Vacant(c) /\ Vacant(m)
             /\ kind' = [kind EXCEPT ![c] = "type", ![m] = "memory"]
             /\ rc' = [rc EXCEPT ![m] = 1, ![c] = 2]
             /\ link' = [link EXCEPT ![m]["type"] = c]
             /\ held' = [held EXCEPT ![t] =
                          [@ EXCEPT ![p] = held[t][p] - 1,
                                    ![m] = held[t][m] + 1]]
  <2> PICK c \in Cells, m \in Cells :
        /\ c # m /\ Vacant(c) /\ Vacant(m)
        /\ kind' = [kind EXCEPT ![c] = "type", ![m] = "memory"]
        /\ rc' = [rc EXCEPT ![m] = 1, ![c] = 2]
        /\ link' = [link EXCEPT ![m]["type"] = c]
        /\ held' = [held EXCEPT ![t] =
                     [@ EXCEPT ![p] = held[t][p] - 1,
                               ![m] = held[t][m] + 1]]
    BY <1>c
  <2> USE DEF IInv
  <2>a. ~Alone /\ Free(c) /\ Free(m)
    BY DEF NewSized, Alone, Vacant
  <2>0. /\ rc \in [Cells -> Nat] /\ kind \in [Cells -> Kinds \cup {"free"}]
        /\ rc[m] = 0 /\ rc[c] = 0
    BY <2>a, FreeUnlinked DEF TypeOK
  <2>1. /\ rc' \in [Cells -> Nat] /\ rc[m] = 0 /\ rc[c] = 0
        /\ kind' \in [Cells -> Kinds \cup {"free"}]
        /\ \A d \in Cells : kind'[d] = IF d = c THEN "type"
                                       ELSE IF d = m THEN "memory" ELSE kind[d]
        /\ \A d \in Cells : rc'[d] = IF d = m THEN 1
                                     ELSE IF d = c THEN 2 ELSE rc[d]
        /\ p # m /\ p # c
    <3>1. kind' \in [Cells -> Kinds \cup {"free"}]
      BY <2>0 DEF Kinds
    <3>2. p # m /\ p # c
      BY <2>a DEF Free
    <3>3. rc' \in [Cells -> Nat]
      BY <2>0
    <3> QED BY <2>0, <3>1, <3>2, <3>3
  <2>2. /\ kind'[c] = KindOf("type") /\ "type" \in Owned(kind'[m])
        /\ "type" \in Fields
    BY <2>1 DEF KindOf, Owned, Fields
  <2>3. \A d \in Cells : kind'[d] = kind[d] \/ Vacant(d)
    BY <2>1
  <2>4. /\ link' \in [Cells -> [Fields -> Cells \cup {None}]]
        /\ Spares(None) /\ LentTypes'
        /\ Within(OwnedBy(c), OwnedBy(c)', 1)
        /\ \A d \in Cells : d # c => Within(OwnedBy(d), OwnedBy(d)', 0)
        /\ LinksRight'
    BY <1>a, <2>2, <2>3, NewLink
  <2>5. /\ held' \in [Threads -> [Cells -> Nat]]
        /\ Within(HeldBy(p), HeldBy(p)', -1)
        /\ Within(HeldBy(m), HeldBy(m)', 1)
        /\ \A d \in Cells \ {p, m} : Within(HeldBy(d), HeldBy(d)', 0)
    BY <2>1, MoveCounts
  <2>6. \A u \in Threads, d \in Cells : u # t => held'[u][d] = held[u][d]
    BY DEF TypeOK
  <2>7. /\ todo' \in [Threads -> Seq(Cells)]
        /\ at' \in [Threads -> {"out", "unref"} \cup Getting]
        /\ Within(DroppedBy(p), DroppedBy(p)', 1)
        /\ \A d \in Cells : d # p => Within(DroppedBy(d), DroppedBy(d)', 0)
        /\ InCalls' /\ CrashedByDangling'
    BY <1>a, <2>4, <2>6, HandOver
  <2>8. TypeOK'
    BY <1>a, <2>1, <2>4, <2>5, <2>7 DEF TypeOK, Getting
  <2>9. Counted'
    <3> SUFFICES ASSUME NEW d \in Cells PROVE Covered(d)'
      BY DEF Counted
    <3>1. /\ Covered(d) /\ rc[d] \in Nat /\ lent \subseteq lent'
          /\ Within(FetchedBy(d), FetchedBy(d)', 0)
      BY <1>a, FetchedKept DEF Counted, TypeOK
    <3>2. CASE d = m
      <4>1. /\ rc'[d] >= rc[d] + 1 + 0 + 0 + 0
            /\ Within(HeldBy(d), HeldBy(d)', 1)
            /\ Within(OwnedBy(d), OwnedBy(d)', 0)
            /\ Within(DroppedBy(d), DroppedBy(d)', 0)
        BY <2>1, <2>4, <2>5, <2>7, <3>1, <3>2
      <4> QED BY <2>1, <2>a, <3>1, <4>1, RecountMore, Changes
    <3>3. CASE d = c
      <4>1. /\ rc'[d] >= rc[d] + 0 + 1 + 0 + 0
            /\ Within(HeldBy(d), HeldBy(d)', 0)
            /\ Within(OwnedBy(d), OwnedBy(d)', 1)
            /\ Within(DroppedBy(d), DroppedBy(d)', 0)
        BY <2>1, <2>4, <2>5, <2>7, <3>1, <3>3
      <4> QED BY <2>1, <2>a, <3>1, <4>1, RecountMore, Changes
    <3>4. CASE d = p
      <4>1. /\ rc'[d] >= rc[d] + -1 + 0 + 0 + 1
            /\ Within(HeldBy(d), HeldBy(d)', -1)
            /\ Within(OwnedBy(d), OwnedBy(d)', 0)
            /\ Within(DroppedBy(d), DroppedBy(d)', 1)
        BY <2>1, <2>4, <2>5, <2>7, <3>1, <3>4
      <4> QED BY <2>1, <2>a, <3>1, <4>1, RecountMore, Changes
    <3>5. CASE d \notin {m, c, p}
      <4>1. /\ rc'[d] >= rc[d] + 0 + 0 + 0 + 0
            /\ Within(HeldBy(d), HeldBy(d)', 0)
            /\ Within(OwnedBy(d), OwnedBy(d)', 0)
            /\ Within(DroppedBy(d), DroppedBy(d)', 0)
        BY <2>1, <2>4, <2>5, <2>7, <3>1, <3>5
      <4> QED BY <2>1, <2>a, <3>1, <4>1, RecountMore, Changes
    <3> QED BY <3>2, <3>3, <3>4, <3>5
  <2>10. FreeIffUncounted'
    <3> SUFFICES ASSUME NEW d \in Cells PROVE Free(d)' <=> rc'[d] = 0
      BY DEF FreeIffUncounted
    <3>1. Free(d) <=> rc[d] = 0
      BY DEF FreeIffUncounted
    <3> QED BY <2>1, <2>a, <3>1 DEF Free
  <2> QED BY <2>4, <2>7, <2>8, <2>9, <2>10
<1> QED BY <1>b, <1>c

-----------------------------------------------------------------------------
(* REFERENCES AND GETTERS *)

(* A step that leaves heap and references alone.                           *)
LEMMA SameHeap ==
  ASSUME IInv, UNCHANGED <<heapVars, held, fresh, todo, lent>>
  PROVE  /\ Counted' /\ FreeIffUncounted' /\ LentTypes' /\ LinksRight'
         /\ \A v \in Threads :
              at'[v] = at[v] /\ arg'[v] = arg[v] => Calls(v)'
<1> USE DEF IInv, heapVars
<1>1. Counted'
  <2> SUFFICES ASSUME NEW d \in Cells PROVE Covered(d)'
    BY DEF Counted
  <2>1. /\ Covered(d) /\ rc' \in [Cells -> Nat]
        /\ rc'[d] = rc[d] + 0 + 0 + 0 + 0 /\ lent \subseteq lent'
    BY DEF Counted, TypeOK
  <2>2. /\ Within(HeldBy(d), HeldBy(d)', 0)
        /\ Within(OwnedBy(d), OwnedBy(d)', 0)
        /\ Within(FetchedBy(d), FetchedBy(d)', 0)
        /\ Within(DroppedBy(d), DroppedBy(d)', 0)
    BY HeldKept, OwnedKept, FetchedKept, DroppedKept DEF KeepsLinks
  <2> QED BY <2>1, <2>2, Recount, Changes
<1>2. FreeIffUncounted'
  BY DEF FreeIffUncounted, Free
<1>3. LinksRight' /\ LentTypes'
  BY DEF LinksRight, Linked, FrameType, Free, LentTypes
<1>4. ASSUME NEW v \in Threads, at'[v] = at[v], arg'[v] = arg[v]
      PROVE  Calls(v)'
  <2>1. Spares(None)
    BY ReferencesAssumption DEF Stays, Spares, Free
  <2>2. \A x \in Cells : held[v][x] > 0 => held'[v][x] > 0
    OBVIOUS
  <2> QED BY <1>4, <2>1, <2>2, CallKept
<1> QED BY <1>1, <1>2, <1>3, <1>4

(* A reference more to an object that is alive.                            *)
LEMMA Taken ==
  ASSUME IInv, NEW u \in Threads, NEW c \in Cells, ~Free(c),
         rc' = [rc EXCEPT ![c] = @ + 1], Hold(u, c),
         UNCHANGED <<kind, link, fresh, todo, lent>>
  PROVE  /\ rc' \in [Cells -> Nat] /\ held' \in [Threads -> [Cells -> Nat]]
         /\ Counted' /\ FreeIffUncounted' /\ LentTypes' /\ LinksRight'
         /\ \A v \in Threads :
              at'[v] = at[v] /\ arg'[v] = arg[v] => Calls(v)'
<1> USE DEF IInv
<1>1. /\ rc \in [Cells -> Nat] /\ rc' \in [Cells -> Nat]
      /\ \A d \in Cells : rc'[d] = IF d = c THEN rc[d] + 1 ELSE rc[d]
  BY DEF TypeOK
<1>2. /\ held' \in [Threads -> [Cells -> Nat]]
      /\ \A v \in Threads, d \in Cells : held'[v][d] >= held[v][d]
      /\ Within(HeldBy(c), HeldBy(c)', 1)
      /\ \A d \in Cells : d # c => Within(HeldBy(d), HeldBy(d)', 0)
  BY HoldCounts
<1>3. Counted'
  <2> SUFFICES ASSUME NEW d \in Cells PROVE Covered(d)'
    BY DEF Counted
  <2>1. /\ Covered(d) /\ lent \subseteq lent'
        /\ Within(OwnedBy(d), OwnedBy(d)', 0)
        /\ Within(FetchedBy(d), FetchedBy(d)', 0)
        /\ Within(DroppedBy(d), DroppedBy(d)', 0)
    BY OwnedKept, FetchedKept, DroppedKept DEF Counted, KeepsLinks
  <2>2. CASE d = c
    <3>1. /\ rc'[d] = rc[d] + 1 + 0 + 0 + 0
          /\ Within(HeldBy(d), HeldBy(d)', 1)
      BY <1>1, <1>2, <2>2
    <3> QED BY <1>1, <2>1, <3>1, Recount, Changes
  <2>3. CASE d # c
    <3>1. /\ rc'[d] = rc[d] + 0 + 0 + 0 + 0
          /\ Within(HeldBy(d), HeldBy(d)', 0)
      BY <1>1, <1>2, <2>3
    <3> QED BY <1>1, <2>1, <3>1, Recount, Changes
  <2> QED BY <2>2, <2>3
<1>4. FreeIffUncounted'
  <2> SUFFICES ASSUME NEW d \in Cells PROVE Free(d)' <=> rc'[d] = 0
    BY DEF FreeIffUncounted
  <2>1. Free(d) <=> rc[d] = 0
    BY DEF FreeIffUncounted
  <2> QED BY <1>1, <2>1 DEF Free
<1>5. LinksRight' /\ LentTypes'
  BY DEF LinksRight, Linked, FrameType, Free, LentTypes
<1>6. ASSUME NEW v \in Threads, at'[v] = at[v], arg'[v] = arg[v]
      PROVE  Calls(v)'
  <2>1. Spares(None)
    BY ReferencesAssumption DEF Stays, Spares, Free
  <2>2. \A x \in Cells : held[v][x] > 0 => held'[v][x] > 0
    BY <1>2 DEF TypeOK
  <2> QED BY <1>6, <2>1, <2>2, CallKept
<1> QED BY <1>1, <1>2, <1>3, <1>4, <1>5, <1>6

(* A step that only moves thread t on in the library keeps it.             *)
LEMMA MovedOn ==
  ASSUME IInv, NEW t \in Threads,
         UNCHANGED <<heapVars, held, fresh, todo, lent>>,
         at' \in [Threads -> {"out", "unref"} \cup Getting],
         arg' \in [Threads -> (Cells \cup {None}) \X Fields],
         \A v \in Threads : v # t => at'[v] = at[v] /\ arg'[v] = arg[v],
         crash' \in {"none", "freed", "null"}, Calls(t)', CrashedByDangling'
  PROVE  IInv'
<1>1. /\ Counted' /\ FreeIffUncounted' /\ LentTypes' /\ LinksRight'
      /\ \A v \in Threads : at'[v] = at[v] /\ arg'[v] = arg[v] => Calls(v)'
  BY SameHeap
<1>2. TypeOK'
  BY DEF IInv, TypeOK, heapVars, Getting
<1>3. InCalls'
  BY <1>1 DEF InCalls
<1> QED BY <1>1, <1>2, <1>3 DEF IInv

(* A thread that has something that is free has been lent it.              *)
LEMMA HeldGone ==
  ASSUME IInv, NEW t \in Threads, NEW c \in Cells, Has(t, c), Free(c)
  PROVE  Gone(c)
BY HasAlive DEF Gone

(* A step that only ends the program keeps it.                             *)
LEMMA SameCalls ==
  ASSUME IInv, UNCHANGED <<kind, rc, link, held, at, arg, fresh, todo, lent>>,
         crash' \in {"none", "freed", "null"}, CrashedByDangling'
  PROVE  IInv'
<1>1. /\ Counted' /\ FreeIffUncounted' /\ LentTypes' /\ LinksRight'
      /\ \A v \in Threads : at'[v] = at[v] /\ arg'[v] = arg[v] => Calls(v)'
  BY SameHeap DEF heapVars
<1>2. TypeOK'
  BY DEF IInv, TypeOK
<1>3. InCalls'
  BY <1>1 DEF InCalls
<1> QED BY <1>1, <1>2, <1>3 DEF IInv

(* r_*_ref and r_mem_type keep it: what the caller has is alive or lent,   *)
(* and so is the type of its memory.                                       *)
LEMMA RefStep ==
  ASSUME IInv, NEW t \in Threads, Ref(t)
  PROVE  IInv'
<1> PICK u \in Threads, c \in Cells :
      /\ \/ Has(t, c)
         \/ \E m \in Cells :
              kind[m] = "memory" /\ Has(t, m) /\ link[m]["type"] = c
      /\ TakeRef(u, c)
  BY DEF Ref
<1>1. UNCHANGED <<kind, link, at, arg, fresh, todo, lent>> /\ crash = "none"
  BY DEF Ref, MayCall
<1>2. CASE Free(c)
  <2>1. UNCHANGED <<rc, held>> /\ crash' = "freed"
    BY <1>2 DEF TakeRef
  <2>2. CASE Has(t, c)
    <3>1. Gone(c)'
      BY <1>1, <1>2, <2>2, HeldGone DEF Gone, Free
    <3>2. CrashedByDangling'
      BY <3>1 DEF CrashedByDangling
    <3> QED BY <1>1, <2>1, <3>2, SameCalls
  <2>3. CASE \E m \in Cells : link[m]["type"] = c
    <3> PICK m \in Cells : link[m]["type"] = c
      BY <2>3
    <3>1. Dangles(m, "type")' /\ "type" \in Fields
      BY <1>1, <1>2, ReferencesAssumption DEF Dangles, Free, KindOf, Fields
    <3>2. CrashedByDangling'
      BY <3>1 DEF CrashedByDangling
    <3> QED BY <1>1, <2>1, <3>2, SameCalls
  <2> QED BY <2>2, <2>3
<1>3. CASE ~Free(c)
  <2>0. rc' = [rc EXCEPT ![c] = @ + 1] /\ Hold(u, c) /\ UNCHANGED crash
    BY <1>3 DEF TakeRef
  <2>1. /\ rc' \in [Cells -> Nat] /\ held' \in [Threads -> [Cells -> Nat]]
        /\ Counted' /\ FreeIffUncounted' /\ LentTypes' /\ LinksRight'
        /\ \A v \in Threads : at'[v] = at[v] /\ arg'[v] = arg[v] => Calls(v)'
    BY <1>1, <1>3, <2>0, Taken
  <2>2. TypeOK'
    BY <1>1, <2>0, <2>1 DEF IInv, TypeOK
  <2>3. InCalls'
    BY <1>1, <2>1 DEF InCalls
  <2>4. CrashedByDangling'
    BY <1>1, <2>0 DEF CrashedByDangling
  <2> QED BY <2>1, <2>2, <2>3, <2>4 DEF IInv
<1> QED BY <1>2, <1>3

(* Any other use of what is gone keeps it: it was lent.                    *)
LEMMA UseGoneStep ==
  ASSUME IInv, NEW t \in Threads, UseGone(t)
  PROVE  IInv'
<1> PICK c \in Cells : held[t][c] > 0 /\ Free(c)
  BY DEF UseGone
<1>1. /\ UNCHANGED <<heapVars, held, at, arg, fresh, todo, lent>>
      /\ crash' = "freed"
  BY DEF UseGone, threadVars
<1>2. Gone(c)'
  BY <1>1, HeldGone DEF Has, Gone, Free, heapVars
<1>3. CrashedByDangling'
  BY <1>2 DEF CrashedByDangling
<1> QED BY <1>1, <1>3, SameCalls DEF heapVars

(* A lazy getter keeps it.                                                 *)
LEMMA GetStep ==
  ASSUME IInv, NEW t \in Threads, Get(t)
  PROVE  IInv'
<1> PICK c \in Cells, f \in Fields :
      /\ f \in Cached(kind[c]) /\ Has(t, c)
      /\ \/ at' = [at EXCEPT ![t] = "ref"]
         \/ link[c][f] = None /\ at' = [at EXCEPT ![t] = "fetch"]
      /\ arg' = [arg EXCEPT ![t] = <<c, f>>]
  BY DEF Get
<1>0. /\ UNCHANGED <<heapVars, held, fresh, todo, lent, crash>>
      /\ crash = "none" /\ at[t] = "out"
  BY DEF Get, MayCall
<1>1. /\ at' \in [Threads -> {"out", "unref"} \cup Getting]
      /\ arg' \in [Threads -> (Cells \cup {None}) \X Fields]
      /\ \A v \in Threads : v # t => at'[v] = at[v] /\ arg'[v] = arg[v]
  <2>1. /\ at \in [Threads -> {"out", "unref"} \cup Getting]
        /\ arg \in [Threads -> (Cells \cup {None}) \X Fields]
    BY DEF IInv, TypeOK, Getting
  <2>2. {"ref", "fetch"} \subseteq Getting
    BY DEF Getting
  <2> QED BY <2>1, <2>2
<1>2. Calls(t)'
  <2>1. /\ at'[t] \in {"ref", "fetch"} /\ arg'[t] = <<c, f>>
        /\ at'[t] = "fetch" => link[c][f] = None
        /\ fresh'[t] = fresh[t] /\ todo'[t] = todo[t] /\ Calls(t)
    BY <1>0 DEF IInv, TypeOK, InCalls
  <2>2. Has(t, c)' /\ f \in Cached(kind'[c]) /\ link' = link
    BY <1>0 DEF Has, heapVars
  <2>3. Has(t, arg[t][1])'
    BY <2>1, <2>2 DEF Has
  <2> QED BY <1>0, <2>1, <2>2, <2>3 DEF Calls, Getting
<1>3. CrashedByDangling'
  BY <1>0 DEF CrashedByDangling
<1> QED BY <1>0, <1>1, <1>2, <1>3, MovedOn DEF IInv, TypeOK

(* A getter that returns keeps nothing.                                    *)
LEMMA Returned ==
  ASSUME IInv, NEW t \in Threads, at[t] # "unref", Return(t), UNCHANGED todo,
         fresh'[t] = None
  PROVE  /\ Calls(t)'
         /\ at' \in [Threads -> {"out", "unref"} \cup Getting]
         /\ arg' \in [Threads -> (Cells \cup {None}) \X Fields]
         /\ \A v \in Threads : v # t => at'[v] = at[v] /\ arg'[v] = arg[v]
<1>1. /\ at \in [Threads -> {"out", "unref"} \cup Getting]
      /\ arg \in [Threads -> (Cells \cup {None}) \X Fields]
      /\ NoArg \in (Cells \cup {None}) \X Fields
  BY DEF IInv, TypeOK, Getting, NoArg, Fields
<1>2. /\ at' \in [Threads -> {"out", "unref"} \cup Getting]
      /\ arg' \in [Threads -> (Cells \cup {None}) \X Fields]
      /\ \A v \in Threads : v # t => at'[v] = at[v] /\ arg'[v] = arg[v]
      /\ at'[t] = "out"
  BY <1>1 DEF Return
<1>3. Calls(t)'
  <2>1. todo'[t] = <<>>
    BY DEF IInv, InCalls, Calls
  <2> QED BY <1>2, <2>1 DEF Calls, Getting
<1> QED BY <1>2, <1>3

(* Its fetch keeps it.                                                     *)
LEMMA FetchStep ==
  ASSUME IInv, NEW t \in Threads, Fetch(t)
  PROVE  IInv'
<1> USE DEF IInv
<1>0. /\ crash = "none" /\ at[t] = "fetch" /\ Calls(t)
      /\ UNCHANGED <<link, held, todo, lent, crash>>
  BY DEF Fetch, InCalls
<1> PICK a \in Cells, f \in Fields : a = arg[t][1] /\ f = arg[t][2]
  BY <1>0 DEF TypeOK, Calls, Getting
<1>1. /\ fresh[t] = None /\ todo[t] = <<>>
      /\ Has(t, a) /\ (f \in Cached(kind[a]) \/ Free(a))
  BY <1>0 DEF Calls, Getting
<1>2. CASE /\ \E c \in Cells :
                /\ Vacant(c) /\ Alloc(c, KindOf(f))
                /\ rc' = [rc EXCEPT ![c] = 1]
                /\ fresh' = [fresh EXCEPT ![t] = c]
           /\ at' = [at EXCEPT ![t] = "store"]
           /\ UNCHANGED arg
  <2> PICK c \in Cells :
        /\ Vacant(c) /\ Alloc(c, KindOf(f))
        /\ rc' = [rc EXCEPT ![c] = 1]
        /\ fresh' = [fresh EXCEPT ![t] = c]
    BY <1>2
  <2>0. Free(c)
    BY DEF Vacant
  <2>1. KindOf(f) \in Kinds
    BY DEF KindOf, Kinds, Fields
  <2>2. /\ kind' \in [Cells -> Kinds \cup {"free"}]
        /\ \A d \in Cells : Free(d)' <=> Free(d) /\ d # c
        /\ Spares(None) /\ LentTypes'
        /\ \A d \in Cells : Within(OwnedBy(d), OwnedBy(d)', 0)
        /\ LinksRight'
    BY <1>0, <2>1, AllocKeeps
  <2>3. /\ Within(FetchedBy(c), FetchedBy(c)', 1)
        /\ \A d \in Cells : d # c => Within(FetchedBy(d), FetchedBy(d)', 0)
    BY <1>1, FetchCounts
  <2>4. /\ rc \in [Cells -> Nat] /\ rc' \in [Cells -> Nat] /\ rc[c] = 0
        /\ \A d \in Cells : rc'[d] = IF d = c THEN 1 ELSE rc[d]
    BY <2>0, FreeUnlinked DEF TypeOK
  <2>5. TypeOK'
    BY <1>0, <1>2, <2>2, <2>4 DEF TypeOK
  <2>6. Counted'
    <3> SUFFICES ASSUME NEW d \in Cells PROVE Covered(d)'
      BY DEF Counted
    <3>1. /\ Covered(d) /\ lent \subseteq lent'
          /\ Within(HeldBy(d), HeldBy(d)', 0)
          /\ Within(OwnedBy(d), OwnedBy(d)', 0)
          /\ Within(DroppedBy(d), DroppedBy(d)', 0)
      BY <1>0, <2>2, HeldKept, DroppedKept DEF Counted
    <3>2. CASE d = c
      <4>1. /\ rc'[d] = rc[d] + 0 + 0 + 1 + 0
            /\ Within(FetchedBy(d), FetchedBy(d)', 1)
        BY <2>3, <2>4, <3>2
      <4> QED BY <2>4, <3>1, <4>1, Recount, Changes
    <3>3. CASE d # c
      <4>1. /\ rc'[d] = rc[d] + 0 + 0 + 0 + 0
            /\ Within(FetchedBy(d), FetchedBy(d)', 0)
        BY <2>3, <2>4, <3>3
      <4> QED BY <2>4, <3>1, <4>1, Recount, Changes
    <3> QED BY <3>2, <3>3
  <2>7. FreeIffUncounted'
    BY <2>2, <2>4 DEF FreeIffUncounted
  <2>8. \A v \in Threads, x \in Cells : held[v][x] > 0 => held'[v][x] > 0
    BY <1>0
  <2>9. Calls(t)'
    <3>1. /\ at'[t] = "store" /\ arg'[t] = arg[t] /\ fresh'[t] = c
          /\ todo'[t] = <<>> /\ c # None
      BY <1>0, <1>1, <1>2, ReferencesAssumption DEF TypeOK
    <3>2. Has(t, a)'
      BY <1>1, <2>2, <2>8, HasKept
    <3>3. Has(t, arg[t][1])'
      BY <3>1, <3>2 DEF Has
    <3>4. f \in Cached(kind'[a]) \/ kind'[a] = "free"
      BY <1>1, <2>2, HasAlive, UsedKept DEF Stays
    <3>5. kind'[c] = KindOf(f)
      BY DEF Alloc, TypeOK
    <3>6. Alone => link'[a][f] = None
      BY <1>0 DEF Calls
    <3> QED BY <1>1, <3>1, <3>3, <3>4, <3>5, <3>6 DEF Calls, Free
  <2>10. ASSUME NEW v \in Threads, v # t PROVE Calls(v)'
    <3>1. /\ at'[v] = at[v] /\ arg'[v] = arg[v]
          /\ fresh'[v] = fresh[v] /\ todo'[v] = todo[v]
      BY <1>0, <1>2, <2>10 DEF TypeOK
    <3> QED BY <1>0, <2>2, <2>8, <3>1, CallKept
  <2>11. InCalls'
    BY <2>9, <2>10 DEF InCalls
  <2>12. CrashedByDangling'
    BY <1>0 DEF CrashedByDangling
  <2> QED BY <2>2, <2>5, <2>6, <2>7, <2>11, <2>12
<1>3. CASE /\ at' = [at EXCEPT ![t] = "store"]
           /\ UNCHANGED <<kind, rc, fresh, arg>>
  <2>1. /\ at' \in [Threads -> {"out", "unref"} \cup Getting]
        /\ arg' \in [Threads -> (Cells \cup {None}) \X Fields]
        /\ \A v \in Threads : v # t => at'[v] = at[v] /\ arg'[v] = arg[v]
    BY <1>3 DEF TypeOK, Getting
  <2>2. Calls(t)'
    <3>1. /\ at'[t] = "store" /\ arg' = arg /\ fresh'[t] = None
          /\ todo'[t] = <<>> /\ kind' = kind /\ link' = link
      BY <1>0, <1>1, <1>3 DEF TypeOK
    <3>2. Has(t, arg[t][1])'
      BY <1>0, <1>1, <3>1 DEF Has
    <3>3. Alone => link[a][f] = None
      BY <1>0 DEF Calls
    <3> QED BY <1>1, <3>1, <3>2, <3>3 DEF Calls, Free
  <2>3. CrashedByDangling'
    BY <1>0 DEF CrashedByDangling
  <2> QED BY <1>0, <1>3, <2>1, <2>2, <2>3, MovedOn DEF heapVars, TypeOK
<1>4. CASE Return(t) /\ UNCHANGED <<kind, rc, fresh>>
  <2>1. /\ Calls(t)'
        /\ at' \in [Threads -> {"out", "unref"} \cup Getting]
        /\ arg' \in [Threads -> (Cells \cup {None}) \X Fields]
        /\ \A v \in Threads : v # t => at'[v] = at[v] /\ arg'[v] = arg[v]
    BY <1>0, <1>1, <1>4, Returned
  <2>2. CrashedByDangling'
    BY <1>0 DEF CrashedByDangling
  <2> QED BY <1>0, <1>4, <2>1, <2>2, MovedOn DEF heapVars, TypeOK
<1> QED BY <1>2, <1>3, <1>4 DEF Fetch

(* Its store keeps it, also of nothing: the new object's reference goes to *)
(* the cache, or, for the type of a frame, stays with the getter; what     *)
(* another thread had stored there keeps a count that nobody drops.        *)
LEMMA StoreStep ==
  ASSUME IInv, NEW t \in Threads, Store(t)
  PROVE  IInv'
<1> USE DEF IInv
<1>0. /\ crash = "none" /\ at[t] = "store" /\ Calls(t)
      /\ UNCHANGED <<kind, rc, held, arg, todo, lent>>
  BY DEF Store, InCalls
<1> PICK a \in Cells, f \in Fields, x \in Cells \cup {None} :
      a = arg[t][1] /\ f = arg[t][2] /\ x = fresh[t]
  BY <1>0 DEF TypeOK, Calls, Getting
<1>1. /\ todo[t] = <<>> /\ Has(t, a)
      /\ x # None => kind[x] = KindOf(f) \/ (f = "type" /\ Free(x))
      /\ f \in Cached(kind[a]) \/ Free(a)
  <2>1. todo[t] = <<>> /\ Has(t, a) /\ (f \in Cached(kind[a]) \/ Free(a))
    BY <1>0 DEF Calls, Getting
  <2>2. x # None => kind[x] = KindOf(f) \/ (f = "type" /\ Free(x))
    BY <1>0 DEF Calls, Free
  <2> QED BY <2>1, <2>2
<1>a. CASE Free(a)
  <2>1. crash' = "freed" /\ UNCHANGED <<link, at, fresh>>
    BY <1>a DEF Store
  <2>2. Gone(a)'
    BY <1>0, <1>1, <1>a, HeldGone DEF Gone, Free
  <2>3. CrashedByDangling'
    BY <2>2 DEF CrashedByDangling
  <2> QED BY <1>0, <2>1, <2>3, SameCalls
<1>b. CASE ~Free(a)
  <2>1. /\ link' = [link EXCEPT ![a][f] = x] /\ UNCHANGED crash
        /\ IF FrameType(a, f)
           THEN at' = [at EXCEPT ![t] = "reread"] /\ UNCHANGED fresh
           ELSE /\ at' = [at EXCEPT ![t] = "ref"]
                /\ fresh' = [fresh EXCEPT ![t] = None]
    BY <1>b DEF Store
  <2>2. /\ f \in Cached(kind[a]) /\ f # "frame"
        /\ (FrameType(a, f) /\ FunctionTypes) \/ f \in Owned(kind[a])
        /\ FrameType(a, f) => f \notin Owned(kind[a])
    BY <1>1, <1>b DEF Cached, Owned, FrameType, Fields
  <2>3. /\ link' \in [Cells -> [Fields -> Cells \cup {None}]]
        /\ \A y \in Cells, g \in Fields :
             link'[y][g] = IF y = a /\ g = f THEN x ELSE link[y][g]
    BY <2>1 DEF TypeOK
  <2>4. Spares(None)
    <3>1. \A y \in Cells : Stays(y)
      BY <1>0, <2>2, <2>3 DEF Stays, Fields
    <3> QED BY <1>0, <3>1, ReferencesAssumption DEF Spares, Free
  <2>5. x # None /\ Free(x) => x \in lent
    <3> SUFFICES ASSUME x # None, Free(x), x \notin lent PROVE FALSE
      OBVIOUS
    <3>1. x \in Cells /\ t \in FetchedBy(x)
      BY DEF FetchedBy
    <3> QED BY <3>1, ReferencedAlive DEF Counted
  <2>6. LinksRight' /\ LentTypes'
    <3>1. ASSUME NEW y \in Cells, NEW g \in Fields PROVE Linked(y, g)'
      <4>1. CASE y = a /\ g = f
        BY <1>0, <1>1, <2>2, <2>3, <2>5, <4>1 DEF Linked, FrameType, Free
      <4>2. CASE ~(y = a /\ g = f)
        <5>1. kind'[y] = kind[y] /\ link'[y][g] = link[y][g]
          BY <1>0, <2>3, <4>2
        <5> QED BY <2>4, <5>1, LinkKept
      <4> QED BY <4>1, <4>2
    <3> QED BY <1>0, <3>1 DEF LinksRight, LentTypes
  <2>7. FreeIffUncounted' /\ CrashedByDangling'
    BY <1>0, <2>1 DEF FreeIffUncounted, Free, CrashedByDangling
  <2>8. /\ fresh' \in [Threads -> Cells \cup {None}]
        /\ \A v \in Threads : v # t => at'[v] = at[v] /\ fresh'[v] = fresh[v]
        /\ at'[t] = IF FrameType(a, f) THEN "reread" ELSE "ref"
        /\ ~FrameType(a, f) => fresh'[t] = None
    BY <2>1 DEF TypeOK
  <2>9. TypeOK'
    <3>1. /\ at' \in [Threads ->
                      {"out", "fetch", "store", "ref", "reread", "unref"}]
          /\ crash' \in {"none", "freed", "null"}
      BY <2>1 DEF TypeOK
    <3> QED BY <1>0, <2>3, <2>8, <3>1 DEF TypeOK
  <2>10. Calls(t)'
    <3>1. todo'[t] = <<>> /\ arg'[t] = arg[t] /\ kind' = kind
      BY <1>0, <1>1
    <3>2. Has(t, a)'
      BY <1>0, <1>1, <2>4, HasKept
    <3>3. Has(t, arg[t][1])'
      BY <3>1, <3>2 DEF Has
    <3>4. FrameType(a, f) => FrameType(arg[t][1], arg[t][2])' /\ FunctionTypes
      BY <1>0, <2>2 DEF FrameType, Owned
    <3> QED BY <2>2, <2>8, <3>1, <3>3, <3>4 DEF Calls
  <2>11. ASSUME NEW v \in Threads, v # t PROVE Calls(v)'
    <3>1. ~Alone
      BY <2>11 DEF Alone
    <3> QED BY <1>0, <2>4, <2>8, <2>11, <3>1, CallKept
  <2>12. InCalls'
    BY <2>10, <2>11 DEF InCalls
  <2>13. Counted'
    <3> SUFFICES ASSUME NEW d \in Cells PROVE Covered(d)'
      BY DEF Counted
    <3>1. /\ Covered(d) /\ rc' \in [Cells -> Nat] /\ rc'[d] = rc[d]
          /\ rc[d] \in Nat /\ lent \subseteq lent'
          /\ Within(HeldBy(d), HeldBy(d)', 0)
          /\ Within(DroppedBy(d), DroppedBy(d)', 0)
      BY <1>0, HeldKept, DroppedKept DEF Counted, TypeOK
    <3>2. Alone => link[a][f] = None
      BY <1>0 DEF Calls
    <3>3. CASE FrameType(a, f) \/ x = None
      <4>1. /\ \A y \in Cells, g \in Fields :
                  g \in Owned(kind'[y]) /\ link'[y][g] # None =>
                    g \in Owned(kind[y]) /\ link'[y][g] = link[y][g]
            /\ Alone => KeepsLinks
        BY <1>0, <2>2, <2>3, <3>2, <3>3 DEF KeepsLinks, Alone
      <4>2. Within(OwnedBy(d), OwnedBy(d)', 0)
        BY <4>1, OwnedKept
      <4>3. fresh' = fresh
        BY <2>1, <3>3 DEF TypeOK
      <4>4. /\ Within(FetchedBy(d), FetchedBy(d)', 0)
            /\ rc'[d] = rc[d] + 0 + 0 + 0 + 0
        BY <3>1, <4>3, FetchedKept
      <4> QED BY <3>1, <4>2, <4>4, Recount, Changes
    <3>4. CASE ~FrameType(a, f) /\ x # None
      <4>0. x \in Cells
        BY <3>4
      <4>1. \A y \in Cells, g \in Fields :
              g \in Owned(kind'[y]) /\ link'[y][g] # None =>
                \/ g \in Owned(kind[y]) /\ link'[y][g] = link[y][g]
                \/ y = a /\ g = f /\ link'[y][g] = x
        BY <1>0, <2>3
      <4>2. Alone => KeepsLinks
        BY <1>0, <2>3, <3>2 DEF KeepsLinks
      <4>3. f \in Owned(kind'[a]) /\ link'[a][f] = x
        BY <1>0, <2>2, <2>3, <3>4
      <4>4. Alone => /\ f \in Owned(kind'[a]) /\ link'[a][f] = x
                     /\ link[a][f] = None /\ KeepsLinks
        BY <3>2, <4>2, <4>3
      <4>5. /\ Within(OwnedBy(x), OwnedBy(x)', 1)
            /\ \A e \in Cells : e # x => Within(OwnedBy(e), OwnedBy(e)', 0)
        <5>1. TypeOK /\ Counted
          OBVIOUS
        <5> HIDE DEF IInv
        <5>2. OnlyNewLink(a, f, x)
          BY <4>1, <4>4 DEF OnlyNewLink
        <5> QED BY <4>0, <5>1, <5>2, OwnedAdds
      <4>6. /\ Within(FetchedBy(x), FetchedBy(x)', -1)
            /\ \A e \in Cells :
                 e # x => Within(FetchedBy(e), FetchedBy(e)', 0)
        BY <2>1, <3>4, <4>0, StoreCounts
      <4>7. CASE d = x
        <5>1. /\ rc'[d] = rc[d] + 0 + 1 + -1 + 0
              /\ Within(OwnedBy(d), OwnedBy(d)', 1)
              /\ Within(FetchedBy(d), FetchedBy(d)', -1)
          BY <3>1, <4>5, <4>6, <4>7
        <5> QED BY <3>1, <5>1, Recount, Changes
      <4>8. CASE d # x
        <5>1. /\ rc'[d] = rc[d] + 0 + 0 + 0 + 0
              /\ Within(OwnedBy(d), OwnedBy(d)', 0)
              /\ Within(FetchedBy(d), FetchedBy(d)', 0)
          BY <3>1, <4>5, <4>6, <4>8
        <5> QED BY <3>1, <5>1, Recount, Changes
      <4> QED BY <4>7, <4>8
    <3> QED BY <3>3, <3>4
  <2> QED BY <2>6, <2>7, <2>9, <2>12, <2>13
<1> QED BY <1>a, <1>b

(* Its reference keeps it: whatever is stored now, also by another thread, *)
(* is alive, or a dangling pointer, or nothing.                            *)
LEMMA RefStoredStep ==
  ASSUME IInv, NEW t \in Threads, RefStored(t)
  PROVE  IInv'
<1> USE DEF IInv
<1>0. /\ at[t] = "ref" /\ Calls(t) /\ crash = "none"
      /\ UNCHANGED <<kind, link, fresh, todo, lent>> /\ Return(t)
  BY DEF RefStored, InCalls
<1> PICK a \in Cells, f \in Fields, d \in Cells \cup {None} :
      a = arg[t][1] /\ f = arg[t][2] /\ d = link[a][f]
  BY <1>0 DEF TypeOK, Calls, Getting
<1>1. todo[t] = <<>> /\ fresh[t] = None /\ fresh'[t] = None /\ Has(t, a)
  BY <1>0 DEF Calls, Getting
<1>2. /\ Calls(t)'
      /\ at' \in [Threads -> {"out", "unref"} \cup Getting]
      /\ arg' \in [Threads -> (Cells \cup {None}) \X Fields]
      /\ \A v \in Threads : v # t => at'[v] = at[v] /\ arg'[v] = arg[v]
  BY <1>0, <1>1, Returned
<1>3. CASE UNCHANGED <<rc, held>> /\ crash' \in {"freed", "null"}
             /\ CrashedByDangling'
  BY <1>0, <1>2, <1>3, MovedOn DEF heapVars
<1>4. CASE Free(a)
  <2>1. UNCHANGED <<rc, held>> /\ crash' = "freed"
    BY <1>4 DEF RefStored
  <2>2. Gone(a)'
    BY <1>0, <1>1, <1>4, HeldGone DEF Gone, Free
  <2> QED BY <1>3, <2>1, <2>2 DEF CrashedByDangling
<1>5. CASE ~Free(a) /\ d = None
  <2>1. UNCHANGED <<rc, held>> /\ crash' = "null"
    BY <1>5 DEF RefStored
  <2> QED BY <1>3, <2>1 DEF CrashedByDangling
<1>6. CASE ~Free(a) /\ d # None
  <2>0. d \in Cells /\ TakeRef(t, d)
    BY <1>6 DEF RefStored
  <2>1. CASE Free(d)
    <3>1. UNCHANGED <<rc, held>> /\ crash' = "freed"
      BY <2>0, <2>1 DEF TakeRef
    <3>2. Dangles(a, f)'
      BY <1>0, <1>6, <2>1 DEF Dangles, Free, KindOf, Fields
    <3> QED BY <1>3, <3>1, <3>2 DEF CrashedByDangling
  <2>2. CASE ~Free(d)
    <3>1. rc' = [rc EXCEPT ![d] = @ + 1] /\ Hold(t, d) /\ UNCHANGED crash
      BY <2>0, <2>2 DEF TakeRef
    <3>2. /\ rc' \in [Cells -> Nat] /\ held' \in [Threads -> [Cells -> Nat]]
          /\ Counted' /\ FreeIffUncounted' /\ LentTypes' /\ LinksRight'
          /\ \A v \in Threads :
               at'[v] = at[v] /\ arg'[v] = arg[v] => Calls(v)'
      BY <1>0, <2>0, <2>2, <3>1, Taken
    <3>3. TypeOK'
      BY <1>0, <1>2, <3>1, <3>2 DEF TypeOK, Getting
    <3>4. InCalls'
      BY <1>2, <3>2 DEF InCalls
    <3>5. CrashedByDangling'
      BY <1>0, <3>1 DEF CrashedByDangling
    <3> QED BY <3>2, <3>3, <3>4, <3>5
  <2> QED BY <2>1, <2>2
<1> QED BY <1>4, <1>5, <1>6

(* The first getter of a frame's type keeps it: what it returns is what it *)
(* has made, or is lent from now on, and what it has made leaks.           *)
LEMMA RereadStep ==
  ASSUME IInv, NEW t \in Threads, Reread(t)
  PROVE  IInv'
<1> USE DEF IInv
<1>0. /\ at[t] = "reread" /\ Calls(t) /\ crash = "none"
      /\ UNCHANGED <<kind, rc, link, todo, crash>> /\ Return(t)
      /\ fresh' = [fresh EXCEPT ![t] = None]
  BY DEF Reread, InCalls, heapVars
<1> PICK a \in Cells, x \in Cells \cup {None}, y \in Cells \cup {None} :
      a = arg[t][1] /\ x = link[a]["type"] /\ y = fresh[t]
  BY <1>0 DEF TypeOK, Calls, Getting, Fields
<1>1. /\ FunctionTypes /\ ~Alone
      /\ fresh' \in [Threads -> Cells \cup {None}] /\ fresh'[t] = None
  BY <1>0 DEF Calls, Alone, TypeOK
<1>2. /\ Calls(t)'
      /\ at' \in [Threads -> {"out", "unref"} \cup Getting]
      /\ arg' \in [Threads -> (Cells \cup {None}) \X Fields]
      /\ \A v \in Threads : v # t => at'[v] = at[v] /\ arg'[v] = arg[v]
  BY <1>0, <1>1, Returned
<1>3. /\ x = None => UNCHANGED <<held, lent>>
      /\ x # None => /\ x \in Cells /\ Hold(t, x)
                     /\ lent' = lent \cup ({x} \ {y})
  BY DEF Reread
<1>4. x # None => kind[x] \in {"type", "free"}
  <2>1. Linked(a, "type")
    BY DEF LinksRight, Fields
  <2> QED BY <2>1 DEF Linked, KindOf, Free
<1>5. /\ held' \in [Threads -> [Cells -> Nat]]
      /\ \A v \in Threads, d \in Cells : held[v][d] > 0 => held'[v][d] > 0
      /\ x # None => Within(HeldBy(x), HeldBy(x)', 1)
      /\ \A d \in Cells : d # x => Within(HeldBy(d), HeldBy(d)', 0)
  <2>1. CASE x = None
    BY <1>3, <2>1, HeldKept DEF TypeOK
  <2>2. CASE x # None
    <3>1. /\ held' \in [Threads -> [Cells -> Nat]]
          /\ \A v \in Threads, d \in Cells : held'[v][d] >= held[v][d]
          /\ Within(HeldBy(x), HeldBy(x)', 1)
          /\ \A d \in Cells : d # x => Within(HeldBy(d), HeldBy(d)', 0)
      BY <1>3, <2>2, HoldCounts
    <3>2. held \in [Threads -> [Cells -> Nat]]
      BY DEF TypeOK
    <3> QED BY <3>1, <3>2
  <2> QED BY <2>1, <2>2
<1>6. /\ y # None => Within(FetchedBy(y), FetchedBy(y)', -1)
      /\ \A d \in Cells : d # y => Within(FetchedBy(d), FetchedBy(d)', 0)
  <2>1. CASE y = None
    <3>1. fresh' = fresh
      BY <1>0, <2>1 DEF TypeOK
    <3> QED BY <2>1, <3>1, FetchedKept
  <2>2. CASE y # None
    BY <1>0, <2>2, StoreCounts
  <2> QED BY <2>1, <2>2
<1>7. /\ lent \subseteq lent' /\ lent' \subseteq Cells
      /\ \A d \in lent' : d \in lent \/ d = x
      /\ x # None /\ x # y => x \in lent'
  BY <1>3 DEF TypeOK
<1>8. LentTypes'
  BY <1>0, <1>1, <1>3, <1>4, <1>7 DEF LentTypes
<1>9. LinksRight' /\ FreeIffUncounted' /\ CrashedByDangling'
  BY <1>0, <1>7 DEF LinksRight, Linked, FrameType, Free, FreeIffUncounted,
     CrashedByDangling
<1>10. TypeOK'
  BY <1>0, <1>1, <1>2, <1>5, <1>7 DEF TypeOK, Getting
<1>11. InCalls'
  <2>1. Spares(None)
    BY <1>0, <1>7, ReferencesAssumption DEF Spares, Stays, Free
  <2>2. ASSUME NEW v \in Threads, v # t PROVE Calls(v)'
    <3>1. fresh'[v] = fresh[v] /\ todo'[v] = todo[v]
      BY <1>0, <2>2 DEF TypeOK
    <3> QED BY <1>1, <1>2, <1>5, <2>1, <2>2, <3>1, CallKept
  <2> QED BY <1>2, <2>2 DEF InCalls
<1>12. Counted'
  <2> SUFFICES ASSUME NEW d \in Cells PROVE Covered(d)'
    BY DEF Counted
  <2>1. /\ Covered(d) /\ rc' \in [Cells -> Nat] /\ rc'[d] = rc[d]
        /\ rc[d] \in Nat /\ lent \subseteq lent'
        /\ Within(OwnedBy(d), OwnedBy(d)', 0)
        /\ Within(DroppedBy(d), DroppedBy(d)', 0)
    BY <1>0, <1>7, OwnedKept, DroppedKept DEF Counted, TypeOK, KeepsLinks
  <2>2. CASE d = x /\ d = y
    <3>1. /\ rc'[d] >= rc[d] + 1 + 0 + -1 + 0
          /\ Within(HeldBy(d), HeldBy(d)', 1)
          /\ Within(FetchedBy(d), FetchedBy(d)', -1)
      BY <1>5, <1>6, <2>1, <2>2, ReferencesAssumption
    <3> QED BY <1>1, <2>1, <3>1, RecountMore, Changes
  <2>3. CASE d = x /\ d # y
    <3>1. d \in lent'
      BY <1>7, <2>3, ReferencesAssumption
    <3>2. Finite(d)'
      BY <1>5, <1>6, <2>1, <2>3, ReferencesAssumption DEF Finite, Within
    <3> QED BY <1>1, <3>1, <3>2 DEF Covered
  <2>4. CASE d # x /\ d = y
    <3>1. /\ rc'[d] >= rc[d] + 0 + 0 + -1 + 0
          /\ Within(HeldBy(d), HeldBy(d)', 0)
          /\ Within(FetchedBy(d), FetchedBy(d)', -1)
      BY <1>5, <1>6, <2>1, <2>4, ReferencesAssumption
    <3> QED BY <1>1, <2>1, <3>1, RecountMore, Changes
  <2>5. CASE d # x /\ d # y
    <3>1. /\ rc'[d] >= rc[d] + 0 + 0 + 0 + 0
          /\ Within(HeldBy(d), HeldBy(d)', 0)
          /\ Within(FetchedBy(d), FetchedBy(d)', 0)
      BY <1>5, <1>6, <2>1, <2>5
    <3> QED BY <1>1, <2>1, <3>1, RecountMore, Changes
  <2> QED BY <2>2, <2>3, <2>4, <2>5
<1> QED BY <1>8, <1>9, <1>10, <1>11, <1>12

-----------------------------------------------------------------------------
(* UNREF *)

(* The reference an unref drops next is one somebody has: its own call.    *)
LEMMA HeadDropped ==
  ASSUME TypeOK, NEW t \in Threads, todo[t] # <<>>
  PROVE  /\ Head(todo[t]) \in Cells
         /\ DroppedBy(Head(todo[t])) # {}
<1> PICK s \in Seq(Cells) : s = todo[t]
  BY DEF TypeOK
<1>1. /\ Len(s) \in Nat \ {0} /\ Head(s) \in Cells /\ s[1] = Head(s)
  OBVIOUS
<1> PICK n \in Nat : n = Len(s)
  OBVIOUS
<1>2. n \in 1..n /\ n + 1 - n = 1
  BY <1>1
<1>3. <<t, n>> \in DroppedBy(Head(s))
  BY <1>1, <1>2 DEF DroppedBy
<1> QED BY <1>1, <1>3

(* One decrement of an unref keeps it: an object goes with its last        *)
(* reference, or was lent, and its call has then to drop what it owned.    *)
LEMMA UnrefAlive ==
  ASSUME IInv, NEW t \in Threads, Unref(t), ~Free(Head(todo[t]))
  PROVE  IInv'
<1> USE DEF IInv
<1>0. /\ crash = "none" /\ todo[t] # <<>>
      /\ UNCHANGED <<held, arg, fresh, lent>> /\ Calls(t)
  BY DEF Unref, InCalls
<1>1. /\ Head(todo[t]) \in Cells /\ DroppedBy(Head(todo[t])) # {}
  BY <1>0, HeadDropped
<1> PICK c \in Cells : c = Head(todo[t])
  BY <1>1
<1>2. DroppedBy(c) # {}
  BY <1>1
<1>3. ~Free(c) /\ rc[c] >= 1 /\ Covered(c)
  <2>1. ~Free(c)
    BY DEF Free
  <2> QED BY <2>1 DEF Counted, FreeIffUncounted, TypeOK
<1> PICK D : D = IF rc[c] = 1 THEN Dropped(c) ELSE <<>>
  OBVIOUS
<1>4. /\ rc' = [rc EXCEPT ![c] = @ - 1]
      /\ kind' = [kind EXCEPT ![c] = IF rc[c] = 1 THEN "free" ELSE @]
      /\ link' = [link EXCEPT ![c] = IF rc[c] = 1 THEN NoLinks ELSE @]
      /\ todo' = [todo EXCEPT ![t] = D \o Tail(todo[t])]
      /\ at' = [at EXCEPT ![t] =
                  IF D \o Tail(todo[t]) = <<>> THEN "out" ELSE @]
      /\ UNCHANGED crash
  BY <1>3 DEF Unref, Free
<1>5. /\ D \in Seq(Cells)
      /\ \A i, j \in 1..Len(D) : D[i] = D[j] => i = j
      /\ rc[c] = 1 =>
           /\ \A i \in 1..Len(D) :
                \E f \in Owned(kind[c]) : link[c][f] = D[i]
           /\ \A f \in Owned(kind[c]) : link[c][f] # None =>
                \E i \in 1..Len(D) : D[i] = link[c][f]
      /\ rc[c] # 1 => Len(D) = 0
  <2>1. CASE rc[c] = 1
    <3>1. D = Dropped(c)
      BY <2>1
    <3>2. /\ Dropped(c) \in Seq(Cells)
          /\ \A i, j \in 1..Len(Dropped(c)) :
               Dropped(c)[i] = Dropped(c)[j] => i = j
          /\ \A i \in 1..Len(Dropped(c)) :
               \E f \in Owned(kind[c]) : link[c][f] = Dropped(c)[i]
          /\ \A f \in Owned(kind[c]) : link[c][f] # None =>
               \E i \in 1..Len(Dropped(c)) : Dropped(c)[i] = link[c][f]
      BY DroppedShape
    <3> QED BY <2>1, <3>1, <3>2
  <2>2. CASE rc[c] # 1
    BY <2>2
  <2> QED BY <2>1, <2>2
<1>6. /\ rc \in [Cells -> Nat] /\ rc' \in [Cells -> Nat]
      /\ \A d \in Cells : rc'[d] = IF d = c THEN rc[d] - 1 ELSE rc[d]
  BY <1>3, <1>4, SMTT(30) DEF TypeOK
<1>7. /\ todo' \in [Threads -> Seq(Cells)]
      /\ \A d \in Cells :
           LET dropped == d = c
               added   == \E i \in 1..Len(D) : D[i] = d
           IN  /\ dropped /\ ~added
                    => Within(DroppedBy(d), DroppedBy(d)', -1)
               /\ ~dropped /\ added
                    => Within(DroppedBy(d), DroppedBy(d)', 1)
               /\ (dropped <=> added)
                    => Within(DroppedBy(d), DroppedBy(d)', 0)
  <2>1. /\ todo' \in [Threads -> Seq(Cells)]
        /\ \A d \in Cells :
             LET dropped == d = Head(todo[t])
                 added   == \E i \in 1..Len(D) : D[i] = d
             IN  /\ dropped /\ ~added
                      => Within(DroppedBy(d), DroppedBy(d)', -1)
                 /\ ~dropped /\ added
                      => Within(DroppedBy(d), DroppedBy(d)', 1)
                 /\ (dropped <=> added)
                      => Within(DroppedBy(d), DroppedBy(d)', 0)
    BY <1>0, <1>4, <1>5, UnrefCounts, ZenonT(60)
  <2> QED BY <2>1
<1>8. /\ at \in [Threads -> {"out", "unref"} \cup Getting]
      /\ at[t] = "unref" /\ fresh[t] = None
  BY <1>0 DEF Calls, TypeOK, Getting
<1>9. /\ at' \in [Threads -> {"out", "unref"} \cup Getting]
      /\ at'[t] = IF todo'[t] = <<>> THEN "out" ELSE "unref"
      /\ \A v \in Threads : v # t => at'[v] = at[v] /\ todo'[v] = todo[v]
  BY <1>4, <1>8 DEF TypeOK
<1>10. Calls(t)'
  BY <1>0, <1>8, <1>9 DEF Calls, Getting
<1>11. CrashedByDangling'
  BY <1>0, <1>4 DEF CrashedByDangling
<1>12. \A d \in Cells : /\ Within(HeldBy(d), HeldBy(d)', 0)
                        /\ Within(FetchedBy(d), FetchedBy(d)', 0)
  BY <1>0, HeldKept, FetchedKept
<1>13. CASE rc[c] # 1
  <2>1. UNCHANGED <<kind, link>>
    BY <1>4, <1>13 DEF TypeOK
  <2>2. TypeOK'
    BY <1>0, <1>4, <1>6, <1>7, <1>9, <2>1 DEF TypeOK, Getting
  <2>3. Counted'
    <3> SUFFICES ASSUME NEW d \in Cells PROVE Covered(d)'
      BY DEF Counted
    <3>1. /\ Covered(d) /\ rc[d] \in Nat /\ rc' \in [Cells -> Nat]
          /\ lent \subseteq lent'
          /\ Within(HeldBy(d), HeldBy(d)', 0)
          /\ Within(OwnedBy(d), OwnedBy(d)', 0)
          /\ Within(FetchedBy(d), FetchedBy(d)', 0)
      BY <1>0, <1>6, <1>12, <2>1, OwnedKept DEF Counted, KeepsLinks
    <3>2. ~ \E i \in 1..Len(D) : D[i] = d
      BY <1>5, <1>13
    <3>3. CASE d = c
      <4>1. rc'[d] = rc[d] + 0 + 0 + 0 + -1
        BY <1>6, <3>1, <3>3
      <4>2. Within(DroppedBy(d), DroppedBy(d)', -1)
        BY <1>7, <3>2, <3>3
      <4> QED BY <3>1, <4>1, <4>2, Recount, Changes
    <3>4. CASE d # c
      <4>1. /\ rc'[d] = rc[d] + 0 + 0 + 0 + 0
            /\ Within(DroppedBy(d), DroppedBy(d)', 0)
        BY <1>6, <1>7, <3>1, <3>2, <3>4
      <4> QED BY <3>1, <4>1, Recount, Changes
    <3> QED BY <3>3, <3>4
  <2>4. FreeIffUncounted'
    <3> SUFFICES ASSUME NEW d \in Cells PROVE Free(d)' <=> rc'[d] = 0
      BY DEF FreeIffUncounted
    <3>1. (Free(d) <=> rc[d] = 0) /\ (Free(d)' <=> Free(d))
      BY <2>1 DEF FreeIffUncounted, Free
    <3>2. CASE d = c
      BY <1>3, <1>6, <1>13, <3>1, <3>2
    <3>3. CASE d # c
      BY <1>6, <3>1, <3>3
    <3> QED BY <3>2, <3>3
  <2>5. LinksRight' /\ LentTypes'
    BY <1>0, <2>1 DEF LinksRight, Linked, FrameType, Free, LentTypes
  <2>6. ASSUME NEW v \in Threads, v # t PROVE Calls(v)'
    <3>1. Spares(None)
      BY <1>0, <2>1, ReferencesAssumption DEF Stays, Spares, Free
    <3>2. /\ at'[v] = at[v] /\ arg'[v] = arg[v]
          /\ fresh'[v] = fresh[v] /\ todo'[v] = todo[v]
          /\ \A x \in Cells : held[v][x] > 0 => held'[v][x] > 0
      BY <1>0, <1>9, <2>6
    <3>3. ~Alone
      BY <2>6 DEF Alone
    <3> QED BY <3>1, <3>2, <3>3, CallKept
  <2>7. InCalls'
    BY <1>10, <2>6 DEF InCalls
  <2> QED BY <1>11, <2>2, <2>3, <2>4, <2>5, <2>7
<1>14. CASE rc[c] = 1
  <2>1. /\ kind' = [kind EXCEPT ![c] = "free"]
        /\ link' = [link EXCEPT ![c] = NoLinks]
    BY <1>4, <1>14
  <2>2. Unused(c) \/ c \in lent
    BY <1>2, <1>3, <1>14, LastReference DEF Unused
  <2>3. /\ \A d \in Cells : kind'[d] = IF d = c THEN "free" ELSE kind[d]
        /\ \A d \in Cells : link'[d] = IF d = c THEN NoLinks ELSE link[d]
        /\ kind' \in [Cells -> Kinds \cup {"free"}]
        /\ link' \in [Cells -> [Fields -> Cells \cup {None}]]
    BY <2>1 DEF TypeOK, NoLinks
  <2>4. TypeOK'
    BY <1>0, <1>4, <1>6, <1>7, <1>9, <2>3 DEF TypeOK, Getting
  <2>5. \A d \in Cells :
          Within(OwnedBy(d), OwnedBy(d)',
            IF \E f \in Owned(kind[c]) : link[c][f] = d THEN -1 ELSE 0)
    BY <2>1, OwnedGone
  <2>6. Counted'
    <3> SUFFICES ASSUME NEW d \in Cells PROVE Covered(d)'
      BY DEF Counted
    <3>1. /\ Covered(d) /\ rc[d] \in Nat /\ rc' \in [Cells -> Nat]
          /\ lent \subseteq lent'
          /\ Within(HeldBy(d), HeldBy(d)', 0)
          /\ Within(FetchedBy(d), FetchedBy(d)', 0)
      BY <1>0, <1>6, <1>12 DEF Counted
    <3>2. CASE d = c
      <4>1. ~ \E f \in Owned(kind[c]) : link[c][f] = d
        <5>1. ASSUME NEW f \in Owned(kind[c]), link[c][f] = d
              PROVE  FALSE
          <6>1. Linked(c, f) /\ c # None /\ f \in Fields
            BY ReferencesAssumption DEF LinksRight, Owned, Fields
          <6>2. kind[c] = KindOf(f)
            BY <1>3, <3>2, <5>1, <6>1 DEF Linked
          <6> QED BY <6>2 DEF KindOf, Owned
        <5> QED BY <5>1
      <4>2. ~ \E i \in 1..Len(D) : D[i] = d
        BY <1>5, <1>14, <4>1
      <4>3. rc'[d] = rc[d] + 0 + 0 + 0 + -1
        BY <1>6, <3>1, <3>2
      <4>4. Within(OwnedBy(d), OwnedBy(d)', 0)
        BY <2>5, <4>1
      <4>5. Within(DroppedBy(d), DroppedBy(d)', -1)
        BY <1>7, <3>2, <4>2
      <4> QED BY <3>1, <4>3, <4>4, <4>5, Recount, Changes
    <3>3. CASE d # c /\ \E f \in Owned(kind[c]) : link[c][f] = d
      <4>1. Within(OwnedBy(d), OwnedBy(d)', -1)
        BY <2>5, <3>3
      <4>2. \E i \in 1..Len(D) : D[i] = d
        BY <1>5, <1>14, <3>3, ReferencesAssumption
      <4>3. rc'[d] = rc[d] + 0 + -1 + 0 + 1
        BY <1>6, <3>1, <3>3
      <4>4. Within(DroppedBy(d), DroppedBy(d)', 1)
        BY <1>7, <3>3, <4>2
      <4> QED BY <3>1, <4>1, <4>3, <4>4, Recount, Changes
    <3>4. CASE d # c /\ ~ \E f \in Owned(kind[c]) : link[c][f] = d
      <4>1. Within(OwnedBy(d), OwnedBy(d)', 0)
        BY <2>5, <3>4
      <4>2. ~ \E i \in 1..Len(D) : D[i] = d
        BY <1>5, <1>14, <3>4
      <4>3. /\ rc'[d] = rc[d] + 0 + 0 + 0 + 0
            /\ Within(DroppedBy(d), DroppedBy(d)', 0)
        BY <1>6, <1>7, <3>1, <3>4, <4>2
      <4> QED BY <3>1, <4>1, <4>3, Recount, Changes
    <3> QED BY <3>2, <3>3, <3>4
  <2>7. FreeIffUncounted'
    <3> SUFFICES ASSUME NEW d \in Cells PROVE Free(d)' <=> rc'[d] = 0
      BY DEF FreeIffUncounted
    <3>1. Free(d) <=> rc[d] = 0
      BY DEF FreeIffUncounted
    <3>2. CASE d = c
      BY <1>6, <1>14, <2>3, <3>2 DEF Free
    <3>3. CASE d # c
      BY <1>6, <2>3, <3>1, <3>3 DEF Free
    <3> QED BY <3>2, <3>3
  <2>8. Spares(c) /\ LentTypes'
    <3>1. \A x \in Cells : x # c => Stays(x)
      BY <2>3 DEF Stays
    <3>2. LentTypes'
      BY <1>0, <2>3 DEF LentTypes, TypeOK
    <3> QED BY <1>0, <2>2, <2>3, <3>1, <3>2 DEF Spares, Free
  <2>9. LinksRight'
    <3> SUFFICES ASSUME NEW y \in Cells, NEW f \in Fields PROVE Linked(y, f)'
      BY DEF LinksRight
    <3>1. CASE y = c
      BY <2>3, <3>1 DEF Linked, NoLinks
    <3>2. CASE y # c
      <4>1. kind'[y] = kind[y] /\ link'[y][f] = link[y][f]
        BY <2>3, <3>2
      <4> QED BY <2>8, <4>1, LinkKept
    <3> QED BY <3>1, <3>2
  <2>10. ASSUME NEW v \in Threads, v # t PROVE Calls(v)'
    <3>1. /\ at'[v] = at[v] /\ arg'[v] = arg[v]
          /\ fresh'[v] = fresh[v] /\ todo'[v] = todo[v]
          /\ \A x \in Cells : held[v][x] > 0 => held'[v][x] > 0
      BY <1>0, <1>9, <2>10
    <3>2. ~Alone
      BY <2>10 DEF Alone
    <3> QED BY <2>8, <3>1, <3>2, CallKept
  <2>11. InCalls'
    BY <1>10, <2>10 DEF InCalls
  <2> QED BY <1>11, <2>4, <2>6, <2>7, <2>8, <2>9, <2>11
<1> QED BY <1>13, <1>14

(* An unref keeps it, also one of a lent type that has gone.               *)
LEMMA UnrefStep ==
  ASSUME IInv, NEW t \in Threads, Unref(t)
  PROVE  IInv'
<1>1. CASE ~Free(Head(todo[t]))
  BY <1>1, UnrefAlive
<1>2. CASE Free(Head(todo[t]))
  <2>0. /\ UNCHANGED <<heapVars, held, at, arg, fresh, todo, lent>>
        /\ crash' = "freed" /\ todo[t] # <<>>
    BY <1>2 DEF Unref
  <2> PICK c \in Cells : c = Head(todo[t]) /\ DroppedBy(c) # {}
    BY <2>0, HeadDropped DEF IInv
  <2>1. Free(c)
    BY <1>2 DEF Free
  <2>2. c \in lent
    BY <2>1, ReferencedAlive DEF IInv, Counted
  <2>3. Gone(c)'
    BY <2>0, <2>1, <2>2 DEF Gone, Free, heapVars
  <2>4. CrashedByDangling'
    BY <2>3 DEF CrashedByDangling
  <2> QED BY <2>0, <2>4, SameCalls DEF heapVars
<1> QED BY <1>1, <1>2

-----------------------------------------------------------------------------
(* THE THEOREMS *)

(* Initially there is nothing to count.                                    *)
LEMMA InitHolds ==
  ASSUME Init
  PROVE  IInv
<1>1. TypeOK
  BY DEF Init, TypeOK, NoLinks, NoArg, Fields
<1>2. Counted
  <2> SUFFICES ASSUME NEW c \in Cells PROVE Covered(c)
    BY DEF Counted
  <2>1. HeldBy(c) = {}
    BY DEF Init, HeldBy
  <2>2. OwnedBy(c) = {}
    BY DEF Init, OwnedBy, Owned
  <2>3. FetchedBy(c) = {}
    BY ReferencesAssumption DEF Init, FetchedBy
  <2>4. DroppedBy(c) = {}
    BY DEF Init, DroppedBy
  <2>5. IsFiniteSet({}) /\ Cardinality({}) = 0 /\ rc[c] = 0
    BY FS_EmptySet DEF Init
  <2> QED BY <2>1, <2>2, <2>3, <2>4, <2>5 DEF Covered, Finite, Owners
<1>3. FreeIffUncounted /\ LinksRight /\ LentTypes
  BY DEF Init, FreeIffUncounted, Free, LinksRight, Linked, NoLinks, LentTypes
<1>4. InCalls
  BY DEF Init, InCalls, Calls, Getting
<1>5. CrashedByDangling
  BY DEF Init, CrashedByDangling
<1> QED BY <1>1, <1>2, <1>3, <1>4, <1>5 DEF IInv

(* Every step keeps the invariant.                                         *)
LEMMA NextKeeps ==
  ASSUME IInv, [Next]_vars
  PROVE  IInv'
<1>1. CASE UNCHANGED vars
  <2>1. /\ UNCHANGED <<heapVars, held, fresh, todo, lent>>
        /\ UNCHANGED <<at, arg, crash>>
    BY <1>1 DEF vars, threadVars
  <2>2. CrashedByDangling' /\ crash \in {"none", "freed", "null"}
    BY <2>1 DEF IInv, TypeOK, heapVars, CrashedByDangling, Dangles, Gone, Free
  <2> QED BY <2>1, <2>2, SameCalls DEF heapVars
<1>2. CASE Next
  <2> PICK t \in Threads : Call(t) \/ Proceed(t)
    BY <1>2 DEF Next
  <2>1. CASE Call(t)
    BY <2>1, NewTypeStep, NewMemberStep, NewFramesStep, NewMemoryStep,
       NewSizedStep, RefStep, UseGoneStep, GetStep, ReleaseStep DEF Call
  <2>2. CASE Proceed(t)
    BY <2>2, FetchStep, StoreStep, RefStoredStep, RereadStep, UnrefStep
    DEF Proceed
  <2> QED BY <2>1, <2>2
<1> QED BY <1>1, <1>2

(* The invariant holds in every state, for any number of threads that      *)
(* share objects without a lock.                                           *)
THEOREM Invariant == Spec => []IInv
<1>1. Init => IInv
  BY InitHolds
<1>2. IInv /\ [Next]_vars => IInv'
  BY NextKeeps
<1> QED BY <1>1, <1>2, PTL DEF Spec

(* The variables have their types, and every pointer points at a cell.     *)
THEOREM TypeCorrect == Spec => []TypeOK
<1>1. IInv => TypeOK
  BY DEF IInv
<1> QED BY <1>1, Invariant, PTL

(* Everything somebody is going to drop is alive and counted, but for a    *)
(* type a frame has lent: nothing else the library or the program drops    *)
(* has been freed before (the r_*_unref of type.cpp, string.cpp,           *)
(* type_member.cpp, frame.cpp and memory.cpp).                             *)
THEOREM Covering == Spec => []CountsCover
<1>1. IInv => CountsCover
  BY DEF IInv, Counted, Covered, FreeIffUncounted, CountsCover
<1> QED BY <1>1, Invariant, PTL

(* A single thread that stays away from the macros and from the types of   *)
(* frames leaks nothing and leaves nothing dangling: every count is the    *)
(* number of references there are, to the last, and every pointer is to a  *)
(* live object (the getters' caches and the unrefs, type.cpp to            *)
(* memory.cpp).                                                            *)
THEOREM Exact ==
  ASSUME Alone
  PROVE  Spec => []CountsExact
<1>1. IInv => CountsExact
  <2> SUFFICES ASSUME IInv PROVE CountsExact
    OBVIOUS
  <2>1. \A c \in Cells : rc[c] = Owners(c)
    BY DEF IInv, Counted, Covered
  <2>0. ~FunctionTypes /\ lent = {}
    BY DEF Alone, IInv, LentTypes
  <2>2. ASSUME NEW c \in Cells, NEW f \in Fields, link[c][f] # None
        PROVE  kind[link[c][f]] = KindOf(f)
    BY <2>0, <2>2 DEF IInv, LinksRight, Linked, FrameType, Owned
  <2> QED BY <2>1, <2>2 DEF CountsExact
<1> QED BY <1>1, Invariant, PTL

(* However threads fill the caches they share, only the type of a frame is *)
(* ever held, pointed at or used when it is gone: one that a frame still   *)
(* points at, or has lent (frame.cpp:118-121).                             *)
THEOREM Dangling == Spec => []OnlyFrameTypesDangle
<1>1. IInv => OnlyFrameTypesDangle
  <2> SUFFICES ASSUME IInv PROVE OnlyFrameTypesDangle
    OBVIOUS
  <2>1. ASSUME NEW c \in Cells, NEW f \in Fields, Dangles(c, f)
        PROVE  FrameType(c, f) \/ Gone(link[c][f])
    BY <2>1 DEF IInv, LinksRight, Linked, Dangles, Gone
  <2>2. ASSUME NEW t \in Threads, NEW c \in Cells, held[t][c] > 0, Free(c)
        PROVE  Gone(c)
    BY <2>2, HeldGone DEF Has
  <2>3. crash = "freed" => \/ \E c \in Cells, f \in Fields : Dangles(c, f)
                           \/ \E c \in Cells : Gone(c)
    BY DEF IInv, CrashedByDangling
  <2> QED BY <2>1, <2>2, <2>3 DEF OnlyFrameTypesDangle, Dangles, Gone
<1> QED BY <1>1, Invariant, PTL
===============================================================================
