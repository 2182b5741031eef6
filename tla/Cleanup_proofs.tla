---------------------------- MODULE Cleanup_proofs ----------------------------
(***************************************************************************)
(* What calls hold on to, for any depth of a value and any number of turns *)
(* of a loop.                                                              *)
(*                                                                         *)
(* At tells for each step of each function which references a frame has    *)
(* there.  Flows says the table is right: what a step makes of a frame is  *)
(* in the table again, every ladder has what it drops, and whatever is     *)
(* left at the end is known.  That is shown function by function, step by  *)
(* step.  The rest is the machine: the frame on top is at a step of the    *)
(* table, each one below at the call it waits for.                         *)
(***************************************************************************)
EXTENDS Cleanup, FiniteSetTheorems, SequenceTheorems, TLAPS

-----------------------------------------------------------------------------
(* THE TABLE *)

(* fr has one k at the steps of S, and none at any other.                  *)
Held(fr, k, S) == fr.refs[k] = IF fr.pc \in S THEN 1 ELSE 0

(* The same for what the call before step pc gives unless it fails.        *)
HeldUnless(fr, k, pc, S) ==
  fr.refs[k] = IF fr.pc \in S \/ (fr.pc = pc /\ ~fr.err) THEN 1 ELSE 0

(* At the steps of S fr has so many.                                       *)
Has(fr, k, S, low, high) ==
  fr.pc \in S => fr.refs[k] >= low /\ fr.refs[k] <= high

OnlyOf(fr, ks) == \A x \in Kinds \ ks : fr.refs[x] = 0

ErrAt(fr, S) == fr.err => fr.pc \in S
LoopAt(fr, S) == fr.pc \in S => fr.turns < MaxTurns

MemberTypeAt(fr) == ~fr.err /\ OnlyOf(fr, {"type"}) /\ Held(fr, "type", {4, 6})

EnumValueAt(fr) ==
  /\ ErrAt(fr, {4}) /\ OnlyOf(fr, {"type"})
  /\ HeldUnless(fr, "type", 4, 5..9)

MemberByNameAt(fr) ==
  /\ ~fr.err /\ LoopAt(fr, 3..8) /\ OnlyOf(fr, {"member", "string"})
  /\ Held(fr, "member", {4, 5, 6, 7, 10}) /\ Held(fr, "string", {5})

TypesByNameAt(fr) ==
  /\ ~fr.err /\ LoopAt(fr, 4..6) /\ OnlyOf(fr, {"types", "type"})
  /\ Held(fr, "types", 3..7) /\ Held(fr, "type", {5})

(* The type of the pointer and the pointee.                                *)
MallocSizedAt(fr) ==
  /\ ~fr.err /\ OnlyOf(fr, {"memory", "type"})
  /\ Held(fr, "memory", {4, 5})
  /\ Has(fr, "type", {1}, 0, 0) /\ Has(fr, "type", {2, 5}, 1, 1)
  /\ Has(fr, "type", {3, 4}, 2, 2)

(* The value, and two more that are made around it.                        *)
SerializeAt(fr) ==
  /\ ErrAt(fr, 3..10) /\ OnlyOf(fr, {"state", "string", "json"})
  /\ Held(fr, "state", 2..9) /\ Held(fr, "string", 6..8)
  /\ Has(fr, "json", 1..2, 0, 0) /\ Has(fr, "json", {3}, 0, 1)
  /\ Has(fr, "json", 4..6, 1, 1) /\ Has(fr, "json", {7}, 2, 2)
  /\ Has(fr, "json", {8}, 3, 3)  /\ Has(fr, "json", 9..10, 1, 3)

SerializeAnyAt(fr) ==
  /\ ErrAt(fr, {8}) /\ OnlyOf(fr, {"string", "json"})
  /\ Held(fr, "string", {4}) /\ Held(fr, "json", {7})

SerializeBuiltinAt(fr) ==
  ~fr.err /\ OnlyOf(fr, {"json"}) /\ Held(fr, "json", {3})

SerializeAggregateAt(fr) == ~fr.err /\ OnlyOf(fr, {})

SerializePointerAt(fr) ==
  /\ ErrAt(fr, 4..5) /\ OnlyOf(fr, {"type", "json"})
  /\ Held(fr, "type", 3..4)
  /\ Has(fr, "json", {1, 2, 3, 6}, 0, 0) /\ Has(fr, "json", 4..5, 0, 1)
  /\ Has(fr, "json", {7}, 1, 1)

SerializeStructAt(fr) ==
  /\ ErrAt(fr, {7}) /\ LoopAt(fr, 4..9) /\ OnlyOf(fr, {"member", "json"})
  /\ Held(fr, "member", 5..8)
  /\ Has(fr, "json", {1}, 0, 0) /\ Has(fr, "json", 2..11, 1, 1)
  /\ Has(fr, "json", {12}, 0, 1)

SerializeStructMemberAt(fr) ==
  /\ ErrAt(fr, {2, 4}) /\ OnlyOf(fr, {"type", "string", "json"})
  /\ HeldUnless(fr, "type", 2, {3, 4, 5, 6, 7, 8, 10})
  /\ Held(fr, "string", {7, 8, 10})
  /\ Has(fr, "json", 1..3, 0, 0) /\ Has(fr, "json", 4..5, 0, 1)
  /\ Has(fr, "json", 6..10, 1, 1)

SerializeEnumAt(fr) ==
  /\ ErrAt(fr, {5, 11}) /\ LoopAt(fr, 3..14)
  /\ OnlyOf(fr, {"member", "type", "json"})
  /\ fr.pc # 15 =>
       /\ Held(fr, "member", 4..13 \cup 16..17)
       /\ HeldUnless(fr, "type", 5, 6..13 \cup 16..17)
  /\ Has(fr, "member", {15}, 0, 1) /\ Has(fr, "type", {15}, 0, 1)
  /\ Held(fr, "json", {17})

(* The array, and one more for each element there has been.                *)
SerializeArrayAt(fr) ==
  /\ ErrAt(fr, {6, 9}) /\ LoopAt(fr, 4..11)
  /\ OnlyOf(fr, {"member", "type", "json"})
  /\ Held(fr, "member", 5..10) /\ HeldUnless(fr, "type", 6, 7..10)
  /\ Has(fr, "json", 1..2, 0, 0)
  /\ Has(fr, "json", {3, 4, 5, 6, 7, 8, 12}, 1, fr.turns + 1)
  /\ Has(fr, "json", 9..11, 1, fr.turns + 2)

DeserializeAt(fr) ==
  /\ ErrAt(fr, 3..7) /\ OnlyOf(fr, {"state", "types", "memory"})
  /\ Held(fr, "state", 2..6)
  /\ Has(fr, "types", {1, 2, 7}, 0, 0) /\ Has(fr, "types", {3}, 0, 1)
  /\ Has(fr, "types", 4..6, 1, 1)
  /\ Has(fr, "memory", 1..5, 0, 0) /\ Has(fr, "memory", 6..7, 0, 1)

DeserializeAnyAt(fr) ==
  /\ ~fr.err /\ OnlyOf(fr, {"string", "memory"})
  /\ Held(fr, "string", {4}) /\ Held(fr, "memory", {7})

DeserializeBuiltinAt(fr) ==
  /\ ErrAt(fr, {3}) /\ OnlyOf(fr, {"memory"})
  /\ HeldUnless(fr, "memory", 3, {})

DeserializeAggregateAt(fr) == ~fr.err /\ OnlyOf(fr, {})

DeserializeEnumAt(fr) ==
  ~fr.err /\ OnlyOf(fr, {"memory"}) /\ Held(fr, "memory", {2})

DeserializePointerAt(fr) ==
  /\ ErrAt(fr, 6..9) /\ OnlyOf(fr, {"type", "memory"})
  /\ Held(fr, "type", 5..6)
  /\ Has(fr, "memory", {1, 2, 4, 5, 8}, 0, 0)
  /\ Has(fr, "memory", {3, 9}, 1, 1) /\ Has(fr, "memory", 6..7, 0, 1)

DeserializeStructAt(fr) ==
  /\ ErrAt(fr, {8}) /\ LoopAt(fr, 4..10)
  /\ OnlyOf(fr, {"memory", "member", "string"})
  /\ Held(fr, "memory", 2..11) /\ Held(fr, "member", 5..9)
  /\ Held(fr, "string", 7..9)

DeserializeStructMemberAt(fr) ==
  /\ ErrAt(fr, {2, 4}) /\ OnlyOf(fr, {"type", "memory"})
  /\ HeldUnless(fr, "type", 2, 3..7)
  /\ Has(fr, "memory", {1, 2, 3, 8}, 0, 0) /\ Has(fr, "memory", 4..6, 0, 1)
  /\ Has(fr, "memory", {7}, 1, 1)

(* The array, and an element.                                              *)
DeserializeArrayAt(fr) ==
  /\ ErrAt(fr, {7, 11}) /\ LoopAt(fr, 5..14)
  /\ OnlyOf(fr, {"member", "type", "memory"})
  /\ Held(fr, "member", 6..13) /\ HeldUnless(fr, "type", 7, 8..13)
  /\ Has(fr, "memory", 1..3, 0, 0) /\ Has(fr, "memory", 4..10, 1, 1)
  /\ Has(fr, "memory", 11..12, 1, 2) /\ Has(fr, "memory", {13}, 2, 2)
  /\ Has(fr, "memory", 14..15, 1, 1)

Table(fr) ==
  /\ fr.fn = "r_type_member_type"              => MemberTypeAt(fr)
  /\ fr.fn = "ensure_value_init"               => EnumValueAt(fr)
  /\ fr.fn = "r_aggregate_type_member_by_name" => MemberByNameAt(fr)
  /\ fr.fn = "ruminate_get_types_by_name"      => TypesByNameAt(fr)
  /\ fr.fn = "_r_mem_malloc_sized"             => MallocSizedAt(fr)
  /\ fr.fn = "json_serialize"                  => SerializeAt(fr)
  /\ fr.fn = "_json_serialize"                 => SerializeAnyAt(fr)
  /\ fr.fn = "json_serialize_builtin"          => SerializeBuiltinAt(fr)
  /\ fr.fn = "json_serialize_pointer"          => SerializePointerAt(fr)
  /\ fr.fn = "json_serialize_aggregate"        => SerializeAggregateAt(fr)
  /\ fr.fn = "json_serialize_struct"           => SerializeStructAt(fr)
  /\ fr.fn = "json_serialize_struct_member"    => SerializeStructMemberAt(fr)
  /\ fr.fn = "json_serialize_enum"             => SerializeEnumAt(fr)
  /\ fr.fn = "json_serialize_array"            => SerializeArrayAt(fr)
  /\ fr.fn = "json_deserialize"                => DeserializeAt(fr)
  /\ fr.fn = "_json_deserialize"               => DeserializeAnyAt(fr)
  /\ fr.fn = "json_deserialize_builtin"        => DeserializeBuiltinAt(fr)
  /\ fr.fn = "json_deserialize_aggregate"      => DeserializeAggregateAt(fr)
  /\ fr.fn = "json_deserialize_enum"           => DeserializeEnumAt(fr)
  /\ fr.fn = "json_deserialize_pointer"        => DeserializePointerAt(fr)
  /\ fr.fn = "json_deserialize_struct"         => DeserializeStructAt(fr)
  /\ fr.fn = "json_deserialize_struct_member"  => DeserializeStructMemberAt(fr)
  /\ fr.fn = "json_deserialize_array"          => DeserializeArrayAt(fr)

-----------------------------------------------------------------------------
(* THE INVARIANT *)

Frames == [fn : Functions, pc : 1 .. 17, turns : 0 .. MaxTurns,
           refs : [Kinds -> 0 .. MaxTurns + 2], err : BOOLEAN, old : BOOLEAN]

Serializers ==
  {"_json_serialize", "json_serialize_builtin", "json_serialize_pointer",
   "json_serialize_aggregate", "json_serialize_struct", "json_serialize_enum",
   "json_serialize_array"}
Deserializers ==
  {"_json_deserialize", "json_deserialize_builtin",
   "json_deserialize_pointer", "json_deserialize_aggregate",
   "json_deserialize_enum", "json_deserialize_struct", "json_deserialize_array"}
Tails == (Serializers \cup Deserializers)
           \ {"_json_serialize", "_json_deserialize"}

(* Functions that take each other's place on the stack.                    *)
Alike(f, g) == \/ f = g
               \/ f \in Serializers /\ g \in Serializers
               \/ f \in Deserializers /\ g \in Deserializers

(* What a function returns, if anything.                                   *)
Result(f) ==
  CASE f = "r_type_member_type"                            -> "type"
    [] f = "ruminate_get_types_by_name"                    -> "types"
    [] f = "r_aggregate_type_member_by_name"               -> "member"
    [] f \in Serializers \cup {"json_serialize"}           -> "json"
    [] f \in Deserializers \cup {"json_deserialize", "_r_mem_malloc_sized"}
                                                           -> "memory"
    [] OTHER                                               -> "none"

(* They return either a result or an error.                                *)
Sure == {"r_type_member_type", "_r_mem_malloc_sized"}

(* The frame is at a step of its function, with what the table says.       *)
At(fr) ==
  /\ fr \in Frames /\ fr.pc \in DOMAIN Code[fr.fn]
  /\ fr.old => fr.fn \in Tails
  /\ Table(fr)

(* Only after a hook has failed is there an error together with a value.   *)
Hooked(fr, what) ==
  /\ fr.old => "hook" \in what
  /\ fr.err /\ fr.fn = "_json_serialize" => "hook" \in what
  /\ fr.err /\ fr.fn \in {"json_serialize", "json_serialize_pointer"} =>
       (fr.refs["json"] > 0 => "hook" \in what)
  /\ fr.err /\ fr.fn = "json_serialize_struct_member" =>
       (fr.refs["json"] > 0 => "hook" \in what)
  /\ fr.err /\ fr.fn = "json_serialize_array" =>
       (fr.refs["json"] > fr.turns + 1 => "hook" \in what)

(* A frame that waits for f is behind a call of f, or of one like it.      *)
Before(fr) == [fr EXCEPT !.pc = @ - 1]
Waits(fr, f) ==
  /\ fr \in Frames /\ fr.pc \in DOMAIN Code[fr.fn] /\ fr.pc > 1
  /\ At(Before(fr))
  /\ Code[fr.fn][fr.pc - 1].op = "run"
  /\ \E g \in Code[fr.fn][fr.pc - 1].fns : Alike(g, f)

Stack ==
  fault = NoFault /\ frames # <<>> =>
    /\ At(frames[1])
    /\ \A i \in 2..Len(frames) : Waits(frames[i], frames[i - 1].fn)

(* Whatever has failed, a frame knows of it.                               *)
Known ==
  fault = NoFault /\ frames # <<>> =>
    /\ \A i \in 1..Len(frames) : Hooked(frames[i], failed)
    /\ failed # {} <=> \E i \in 1..Len(frames) : frames[i].err \/ frames[i].old

IInv == /\ TypeOK /\ Stack /\ Known
        /\ DropsOnlyOwn /\ LeavesNothing /\ ErrorOrResult /\ ErrorMeansError

-----------------------------------------------------------------------------
(* WHAT STEPS MAKE OF A FRAME *)

Good(fr, what) == At(fr) /\ Hooked(fr, what)

(* g is at step pc, and the rest of it is as in fr, but for the references *)
(* and, after a call or a hook, err.                                       *)
Goes(fr, g, pc) == g.pc = pc /\ g.turns = fr.turns /\ (g.err <=> fr.err)
Keeps(fr, g) == \A x \in Kinds : g.refs[x] = fr.refs[x]

(* g has, of kind k, one reference more than fr.                           *)
OneMore(fr, g, k) ==
  \A x \in Kinds : g.refs[x] = IF x = k THEN fr.refs[x] + 1 ELSE fr.refs[x]

(* Steps that go on: of the frame fr they make g.                          *)
AskMoves(fr, g, k) == Goes(fr, g, fr.pc + 1) /\ OneMore(fr, g, k)
HookMoves(fr, g, to, what) ==
  /\ Keeps(fr, g)
  /\ \/ Goes(fr, g, fr.pc + 1) \/ Goes(fr, g, to)
     \/ g.pc = to /\ g.turns = fr.turns /\ g.err /\ "hook" \in what
RunMoves(fr, g, f, what) ==
  /\ g.pc = fr.pc + 1 /\ g.turns = fr.turns
  /\ \/ (g.err <=> fr.err) /\ Result(f) # "none" /\ OneMore(fr, g, Result(f))
     \/ g.err /\ Keeps(fr, g)
     \/ (g.err <=> fr.err) /\ f \notin Sure /\ Keeps(fr, g)
     \/ /\ g.err /\ f \notin Sure /\ Result(f) # "none"
        /\ f \in Serializers => "hook" \in what
        /\ OneMore(fr, g, Result(f))
CheckMoves(fr, g) == ~fr.err /\ Goes(fr, g, fr.pc + 1) /\ Keeps(fr, g)
NoneMoves(fr, g, k, n) ==
  fr.refs[k] >= n /\ Goes(fr, g, fr.pc + 1) /\ Keeps(fr, g)
DropMoves(fr, g, ks) ==
  /\ Goes(fr, g, fr.pc + 1)
  /\ \A x \in Kinds : g.refs[x] = fr.refs[x] - Count(x, ks)
GiveMoves(fr, g, k) ==
  /\ Goes(fr, g, fr.pc + 1)
  /\ \A x \in Kinds : g.refs[x] = IF x = k THEN 0 ELSE fr.refs[x]
EitherMoves(fr, g, to) ==
  Keeps(fr, g) /\ (Goes(fr, g, fr.pc + 1) \/ Goes(fr, g, to))
LoopMoves(fr, g, to) ==
  /\ Keeps(fr, g)
  /\ Goes(fr, g, to) \/ (Goes(fr, g, fr.pc + 1) /\ fr.turns < MaxTurns)
BackMoves(fr, g, to) ==
  Keeps(fr, g) /\ g.pc = to /\ g.turns = fr.turns + 1 /\ (g.err <=> fr.err)

(* what: what has failed by then.                                          *)
Moves(fr, g, what) ==
  LET s == Code[fr.fn][fr.pc] IN
  \/ s.op \in {"ask", "make"} /\ AskMoves(fr, g, s.k)
  \/ s.op = "hook"   /\ HookMoves(fr, g, s.to, what)
  \/ s.op = "run"    /\ \E f \in s.fns : RunMoves(fr, g, f, what)
  \/ s.op = "check"  /\ CheckMoves(fr, g)
  \/ s.op = "none"   /\ NoneMoves(fr, g, s.k, s.n)
  \/ s.op = "drop"   /\ DropMoves(fr, g, s.ks)
  \/ s.op = "give"   /\ GiveMoves(fr, g, s.k)
  \/ s.op = "either" /\ EitherMoves(fr, g, s.to)
  \/ s.op = "loop"   /\ LoopMoves(fr, g, s.to)
  \/ s.op = "back"   /\ BackMoves(fr, g, s.to)

Shape == [fn : Functions, pc : Nat, turns : Nat, refs : [Kinds -> Nat],
          err : BOOLEAN, old : BOOLEAN]

-----------------------------------------------------------------------------
(* HOW A FUNCTION IS LEFT *)

Bad(fr) == fr.err \/ fr.old

(* How a function is left by an error: after a hook has failed, or not.    *)
How(what) == IF "hook" \in what THEN "hooked" ELSE "failed"

Leaks(how) == IF how = "failed" THEN KnownLeaks.failed
              ELSE IF how = "hooked"
                THEN KnownLeaks.failed \cup KnownLeaks.hooked
              ELSE KnownLeaks.done

(* So many of kind k a frame may have besides what it drops or returns.    *)
Kept(fr, k) == Appended(fr.fn, k, fr.turns)

(* fr has what the ladder drops.                                           *)
Enough(fr, ks) ==
  ks \in Seq(Kinds) /\ \A i \in DOMAIN ks : fr.refs[ks[i]] >= Count(ks[i], ks)

(* The ladder drops what there is and leaves only what is known, or it is  *)
(* known not to.                                                           *)
Ladder(fr, ks, how) ==
  IF ks \in {<<"null">>, <<"assert">>} THEN <<fr.fn, ks[1]>> \in KnownFaults
  ELSE \/ /\ Missing(fr, ks) # {} /\ <<fr.fn, "drop">> \in KnownFaults
       \/ /\ Enough(fr, ks)
          /\ how = "done" => fr.fn \notin Sure
          /\ \A x \in Kinds :
               fr.refs[x] > Count(x, ks) + Kept(fr, x)
                 => <<fr.fn, x>> \in Leaks(how)

(* What is returned, what is left then, and that an error is passed on.    *)
Gives(fr, k) == k # "none" /\ fr.refs[k] > 0
Ending(fr, k, what) ==
  /\ Gives(fr, k) =>
       /\ k = Result(fr.fn)
       /\ \A x \in Kinds :
            fr.refs[x] > (IF x = k THEN 1 ELSE 0) + Kept(fr, x)
              => <<fr.fn, x>> \in Leaks("done")
       /\ Bad(fr) => /\ fr.fn \notin Sure
                     /\ \/ "hook" \in what
                        \/ fr.fn \in {"json_deserialize_pointer",
                                      "json_deserialize"}
  /\ ~Gives(fr, k) =>
       /\ fr.fn \in Sure => Bad(fr)
       /\ \A x \in Kinds :
            fr.refs[x] > Kept(fr, x)
              => <<fr.fn, x>> \in Leaks(IF Bad(fr) THEN How(what) ELSE "done")
  /\ fr.err /\ ~fr.old => fr.fn \notin OwnError

Outs(fr, what) ==
  LET s == Code[fr.fn][fr.pc] IN
  /\ s.op = "ask"    => Ladder(fr, s.ks, How(what))
  /\ s.op = "check"  => (fr.err => Ladder(fr, s.ks, How(what)))
  /\ s.op = "none"   => s.k \in Kinds /\ s.n \in Nat
  /\ s.op = "none"   => (fr.refs[s.k] < s.n =>
                           /\ Ladder(fr, s.ks, How(what))
                           /\ Ladder(fr, s.ks, "done"))
  /\ s.op = "drop"   => Enough(fr, s.ks)
  /\ s.op = "return" => s.k \in Kinds \cup {"none"} /\ Ending(fr, s.k, what)
  /\ s.op = "run"    => /\ fr.pc + 1 \in DOMAIN Code[fr.fn]
                        /\ s.fns \subseteq Functions
  /\ s.op = "tail"   => /\ s.fns \subseteq Tails
                        /\ \A f \in s.fns : Alike(fr.fn, f)
                        /\ Bad(fr) => "hook" \in what
  /\ s.op \in {"hook", "either", "loop", "back"} => s.to \in Nat
  /\ s.op = "stop"   => <<fr.fn, "assert">> \in KnownFaults

(* What the step at which fr is makes of it is in the table again.         *)
Flows(fr, what) ==
  /\ Outs(fr, what)
  /\ \A g \in Shape :
       g.fn = fr.fn /\ (g.old <=> fr.old) /\ Moves(fr, g, what)
         => Good(g, what)

(* A frame that goes on after a request that was answered has one          *)
(* reference more of the kind asked for.                                   *)
LEMMA AskIs ==
  ASSUME NEW fr, NEW g, NEW what, NEW k, NEW ks, Moves(fr, g, what),
         Code[fr.fn][fr.pc] = Ask(k, ks)
  PROVE  AskMoves(fr, g, k)
BY DEF Moves, Ask

(* A frame that goes on after an allocation has one reference more.        *)
LEMMA MakeIs ==
  ASSUME NEW fr, NEW g, NEW what, NEW k, Moves(fr, g, what),
         Code[fr.fn][fr.pc] = Make(k)
  PROVE  AskMoves(fr, g, k)
BY DEF Moves, Make

(* A frame goes on after a hook that was taken, has declined, or has       *)
(* failed.                                                                 *)
LEMMA HookIs ==
  ASSUME NEW fr, NEW g, NEW what, NEW to, Moves(fr, g, what),
         Code[fr.fn][fr.pc] = Hook(to)
  PROVE  HookMoves(fr, g, to, what)
BY DEF Moves, Hook

(* A frame goes on after a call in one of four ways: with a result, an     *)
(* error, neither, or both.                                                *)
LEMMA RunIs ==
  ASSUME NEW fr, NEW g, NEW what, NEW f, NEW k, Moves(fr, g, what),
         Code[fr.fn][fr.pc] = Run({f}, k)
  PROVE  RunMoves(fr, g, f, what)
BY DEF Moves, Run

(* A frame does not go on after a call in its place.                       *)
LEMMA TailIs ==
  ASSUME NEW fr, NEW g, NEW what, NEW fns, Moves(fr, g, what),
         Code[fr.fn][fr.pc] = Tail_(fns)
  PROVE  FALSE
BY DEF Moves, Tail_

(* A frame goes on after a look at the error only if it has none.          *)
LEMMA CheckIs ==
  ASSUME NEW fr, NEW g, NEW what, NEW ks, Moves(fr, g, what),
         Code[fr.fn][fr.pc] = Check(ks)
  PROVE  CheckMoves(fr, g)
BY DEF Moves, Check

(* A frame goes on after a look for a k only if it has one.                *)
LEMMA NoneIs ==
  ASSUME NEW fr, NEW g, NEW what, NEW k, NEW ks, Moves(fr, g, what),
         Code[fr.fn][fr.pc] = IfNone(k, ks)
  PROVE  NoneMoves(fr, g, k, 1)
BY DEF Moves, IfNone

(* A frame goes on after a look for one k besides the first only if it has *)
(* two.                                                                    *)
LEMMA OneIs ==
  ASSUME NEW fr, NEW g, NEW what, NEW k, NEW ks, Moves(fr, g, what),
         Code[fr.fn][fr.pc] = IfOne(k, ks)
  PROVE  NoneMoves(fr, g, k, 2)
BY DEF Moves, IfOne

(* A frame that goes on after a drop has as many fewer as the ladder       *)
(* counts.                                                                 *)
LEMMA DropIs ==
  ASSUME NEW fr, NEW g, NEW what, NEW ks, Moves(fr, g, what),
         Code[fr.fn][fr.pc] = Drop(ks)
  PROVE  DropMoves(fr, g, ks)
BY DEF Moves, Drop

(* A frame that goes on after it gave a k to the value has none left.      *)
LEMMA GiveIs ==
  ASSUME NEW fr, NEW g, NEW what, NEW k, Moves(fr, g, what),
         Code[fr.fn][fr.pc] = Give(k)
  PROVE  GiveMoves(fr, g, k)
BY DEF Moves, Give

(* A branch leaves the references of a frame alone.                        *)
LEMMA EitherIs ==
  ASSUME NEW fr, NEW g, NEW what, NEW to, Moves(fr, g, what),
         Code[fr.fn][fr.pc] = Either(to)
  PROVE  EitherMoves(fr, g, to)
BY DEF Moves, Either

(* A frame goes into a loop only while it has turns left.                  *)
LEMMA LoopIs ==
  ASSUME NEW fr, NEW g, NEW what, NEW to, Moves(fr, g, what),
         Code[fr.fn][fr.pc] = Loop(to)
  PROVE  LoopMoves(fr, g, to)
BY DEF Moves, Loop

(* The way back of a loop counts a turn.                                   *)
LEMMA BackIs ==
  ASSUME NEW fr, NEW g, NEW what, NEW to, Moves(fr, g, what),
         Code[fr.fn][fr.pc] = Back(to)
  PROVE  BackMoves(fr, g, to)
BY DEF Moves, Back

(* A frame does not go on after its return.                                *)
LEMMA ReturnIs ==
  ASSUME NEW fr, NEW g, NEW what, NEW k, Moves(fr, g, what),
         Code[fr.fn][fr.pc] = Return(k)
  PROVE  FALSE
BY DEF Moves, Return

(* A frame does not go on after an assertion that fails.                   *)
LEMMA StopIs ==
  ASSUME NEW fr, NEW g, NEW what, Moves(fr, g, what), Code[fr.fn][fr.pc] = Stop
  PROVE  FALSE
BY DEF Moves, Stop

(* What may be left behind without a hook may be left after one.           *)
LEMMA AnyHow ==
  ASSUME NEW fr, NEW what, NEW ks, Ladder(fr, ks, "failed")
  PROVE  Ladder(fr, ks, How(what))
BY DEF Ladder, How, Leaks

(* A request may fail: its ladder is all there is to show of leaving.      *)
LEMMA AskOut ==
  ASSUME NEW fr, NEW what, NEW k, NEW ks, Code[fr.fn][fr.pc] = Ask(k, ks),
         Ladder(fr, ks, "failed")
  PROVE  Outs(fr, what)
BY AnyHow DEF Outs, Ask

(* An allocation does not fail: nothing is left by it.                     *)
LEMMA MakeOut ==
  ASSUME NEW fr, NEW what, NEW k, Code[fr.fn][fr.pc] = Make(k)
  PROVE  Outs(fr, what)
BY DEF Outs, Make

(* A hook does not make its caller return: nothing is left by it.          *)
LEMMA HookOut ==
  ASSUME NEW fr, NEW what, NEW to \in Nat, Code[fr.fn][fr.pc] = Hook(to)
  PROVE  Outs(fr, what)
BY DEF Outs, Hook

(* There is a step behind a call.                                          *)
LEMMA RunOut ==
  ASSUME NEW fr, NEW what, NEW f, NEW k, Code[fr.fn][fr.pc] = Run({f}, k),
         f \in Functions, fr.pc + 1 \in DOMAIN Code[fr.fn]
  PROVE  Outs(fr, what)
BY DEF Outs, Run

(* A call in place passes on an error only after a hook.                   *)
LEMMA TailOut ==
  ASSUME NEW fr, NEW what, NEW fns, Code[fr.fn][fr.pc] = Tail_(fns),
         fns \subseteq Tails, \A f \in fns : Alike(fr.fn, f),
         Bad(fr) => "hook" \in what
  PROVE  Outs(fr, what)
BY DEF Outs, Tail_

(* The ladder of a look at the error.                                      *)
LEMMA CheckOut ==
  ASSUME NEW fr, NEW what, NEW ks, Code[fr.fn][fr.pc] = Check(ks),
         fr.err => Ladder(fr, ks, "failed")
  PROVE  Outs(fr, what)
BY AnyHow DEF Outs, Check

(* The same where a hook may have failed.                                  *)
LEMMA HowOut ==
  ASSUME NEW fr, NEW what, NEW ks, Code[fr.fn][fr.pc] = Check(ks),
         fr.err => Ladder(fr, ks, How(what))
  PROVE  Outs(fr, what)
BY DEF Outs, Check

(* The ladder of a look for a k.                                           *)
LEMMA NoneOut ==
  ASSUME NEW fr, NEW what, NEW k \in Kinds, NEW ks,
         Code[fr.fn][fr.pc] = IfNone(k, ks),
         fr.refs[k] < 1 => Ladder(fr, ks, "failed") /\ Ladder(fr, ks, "done")
  PROVE  Outs(fr, what)
BY AnyHow DEF Outs, IfNone

(* The ladder of a look for one k more.                                    *)
LEMMA OneOut ==
  ASSUME NEW fr, NEW what, NEW k \in Kinds, NEW ks,
         Code[fr.fn][fr.pc] = IfOne(k, ks),
         fr.refs[k] < 2 => Ladder(fr, ks, "failed") /\ Ladder(fr, ks, "done")
  PROVE  Outs(fr, what)
BY AnyHow DEF Outs, IfOne

(* A drop has what it drops.                                               *)
LEMMA DropOut ==
  ASSUME NEW fr, NEW what, NEW ks, Code[fr.fn][fr.pc] = Drop(ks),
         Enough(fr, ks)
  PROVE  Outs(fr, what)
BY DEF Outs, Drop

(* A frame leaves nothing by giving a k to the value.                      *)
LEMMA GiveOut ==
  ASSUME NEW fr, NEW what, NEW k, Code[fr.fn][fr.pc] = Give(k)
  PROVE  Outs(fr, what)
BY DEF Outs, Give

(* A frame leaves nothing by a branch.                                     *)
LEMMA EitherOut ==
  ASSUME NEW fr, NEW what, NEW to \in Nat, Code[fr.fn][fr.pc] = Either(to)
  PROVE  Outs(fr, what)
BY DEF Outs, Either

(* A frame leaves nothing at the head of a loop.                           *)
LEMMA LoopOut ==
  ASSUME NEW fr, NEW what, NEW to \in Nat, Code[fr.fn][fr.pc] = Loop(to)
  PROVE  Outs(fr, what)
BY DEF Outs, Loop

(* A frame leaves nothing on the way back of a loop.                       *)
LEMMA BackOut ==
  ASSUME NEW fr, NEW what, NEW to \in Nat, Code[fr.fn][fr.pc] = Back(to)
  PROVE  Outs(fr, what)
BY DEF Outs, Back

(* A return ends the function as it should.                                *)
LEMMA ReturnOut ==
  ASSUME NEW fr, NEW what, NEW k \in Kinds \cup {"none"},
         Code[fr.fn][fr.pc] = Return(k),
         Ending(fr, k, what)
  PROVE  Outs(fr, what)
BY DEF Outs, Return

(* An assertion fails where it is known to.                                *)
LEMMA StopOut ==
  ASSUME NEW fr, NEW what, Code[fr.fn][fr.pc] = Stop,
         <<fr.fn, "assert">> \in KnownFaults
  PROVE  Outs(fr, what)
BY DEF Outs, Stop


-----------------------------------------------------------------------------
(* LADDERS *)

(* A ladder without a k drops no k.                                        *)
LEMMA CountZero ==
  ASSUME NEW k, NEW ks, \A i \in DOMAIN ks : ks[i] # k
  PROVE  Count(k, ks) = 0
<1>1. {i \in DOMAIN ks : ks[i] = k} = {}
  OBVIOUS
<1> QED BY <1>1, FS_EmptySet DEF Count

(* A ladder with a k at one place drops one.                               *)
LEMMA CountOnce ==
  ASSUME NEW k, NEW ks, NEW i \in DOMAIN ks, ks[i] = k,
         \A j \in DOMAIN ks : ks[j] = k => j = i
  PROVE  Count(k, ks) = 1
<1>1. {j \in DOMAIN ks : ks[j] = k} = {i}
  OBVIOUS
<1> QED BY <1>1, FS_Singleton DEF Count

(* A ladder with a k at two places drops two.                              *)
LEMMA CountTwice ==
  ASSUME NEW k, NEW ks, NEW i \in DOMAIN ks, NEW j \in DOMAIN ks, i # j,
         \A h \in DOMAIN ks : ks[h] = k <=> h \in {i, j}
  PROVE  Count(k, ks) = 2
<1>1. {h \in DOMAIN ks : ks[h] = k} = {i} \cup {j}
  OBVIOUS
<1>2. IsFiniteSet({i}) /\ Cardinality({i}) = 1
  BY FS_Singleton
<1>3. Cardinality({i} \cup {j}) = 2
  BY <1>2, FS_AddElement
<1> QED BY <1>1, <1>3 DEF Count

(* What a ladder of one kind drops.                                        *)
LEMMA CountOne ==
  ASSUME NEW a, NEW k
  PROVE  Count(k, <<a>>) = IF k = a THEN 1 ELSE 0
<1>1. DOMAIN <<a>> = {1} /\ <<a>>[1] = a
  OBVIOUS
<1>2. CASE k = a
  BY <1>1, <1>2, CountOnce
<1>3. CASE k # a
  BY <1>1, <1>3, CountZero
<1> QED BY <1>2, <1>3

(* What a ladder of two kinds drops.                                       *)
LEMMA CountTwo ==
  ASSUME NEW a, NEW b, a # b, NEW k
  PROVE  Count(k, <<a, b>>) = IF k \in {a, b} THEN 1 ELSE 0
<1>1. DOMAIN <<a, b>> = {1, 2} /\ <<a, b>>[1] = a /\ <<a, b>>[2] = b
  OBVIOUS
<1>2. CASE k = a
  BY <1>1, <1>2, CountOnce
<1>3. CASE k = b
  BY <1>1, <1>3, CountOnce
<1>4. CASE k \notin {a, b}
  BY <1>1, <1>4, CountZero
<1> QED BY <1>2, <1>3, <1>4

(* What a ladder of three kinds drops.                                     *)
LEMMA CountThree ==
  ASSUME NEW a, NEW b, NEW c, a # b, a # c, b # c, NEW k
  PROVE  Count(k, <<a, b, c>>) = IF k \in {a, b, c} THEN 1 ELSE 0
<1>1. /\ DOMAIN <<a, b, c>> = {1, 2, 3}
      /\ <<a, b, c>>[1] = a /\ <<a, b, c>>[2] = b /\ <<a, b, c>>[3] = c
  OBVIOUS
<1>2. CASE k = a
  BY <1>1, <1>2, CountOnce
<1>3. CASE k = b
  BY <1>1, <1>3, CountOnce
<1>4. CASE k = c
  BY <1>1, <1>4, CountOnce
<1>5. CASE k \notin {a, b, c}
  BY <1>1, <1>5, CountZero
<1> QED BY <1>2, <1>3, <1>4, <1>5

(* What a ladder with the same kind twice drops.                           *)
LEMMA CountBoth ==
  ASSUME NEW a, NEW k
  PROVE  Count(k, <<a, a>>) = IF k = a THEN 2 ELSE 0
<1>1. DOMAIN <<a, a>> = {1, 2} /\ <<a, a>>[1] = a /\ <<a, a>>[2] = a
  OBVIOUS
<1>2. CASE k = a
  BY <1>1, <1>2, CountTwice
<1>3. CASE k # a
  BY <1>1, <1>3, CountZero
<1> QED BY <1>2, <1>3

(* fr has a reference of each kind in S, and what it has besides is known. *)
Clears(fr, S, how) ==
  /\ \A a \in S : fr.refs[a] >= 1
  /\ \A x \in Kinds :
       fr.refs[x] > (IF x \in S THEN 1 ELSE 0) + Kept(fr, x)
         => <<fr.fn, x>> \in Leaks(how)
  /\ how = "done" => fr.fn \notin Sure

(* The empty ladder drops nothing.                                         *)
LEMMA LadderNone ==
  ASSUME NEW fr, NEW how, Clears(fr, {}, how)
  PROVE  Ladder(fr, <<>>, how)
<1>1. \A k : Count(k, <<>>) = 0
  BY CountZero
<1>2. Enough(fr, <<>>)
  BY DEF Enough
<1> QED BY <1>1, <1>2 DEF Ladder, Clears

(* A ladder of one kind is right if that is there and the rest is known.   *)
LEMMA LadderOne ==
  ASSUME NEW fr, NEW how, NEW a \in Kinds, Clears(fr, {a}, how)
  PROVE  Ladder(fr, <<a>>, how)
<1>1. Enough(fr, <<a>>)
  BY CountOne DEF Enough, Clears
<1>2. <<a>> \notin {<<"null">>, <<"assert">>}
  BY DEF Kinds
<1> QED BY <1>1, <1>2, CountOne DEF Ladder, Clears

(* A ladder of two kinds is right if both are there and the rest is known. *)
LEMMA LadderTwo ==
  ASSUME NEW fr, NEW how, NEW a \in Kinds, NEW b \in Kinds, a # b,
         Clears(fr, {a, b}, how)
  PROVE  Ladder(fr, <<a, b>>, how)
<1>1. Enough(fr, <<a, b>>)
  <2>1. DOMAIN <<a, b>> = {1, 2} /\ <<a, b>>[1] = a /\ <<a, b>>[2] = b
    OBVIOUS
  <2> QED BY <2>1, CountTwo DEF Enough, Clears
<1>2. <<a, b>> \notin {<<"null">>, <<"assert">>}
  OBVIOUS
<1> QED BY <1>1, <1>2, CountTwo DEF Ladder, Clears

(* A ladder of three kinds is right if all are there and the rest is       *)
(* known.                                                                  *)
LEMMA LadderThree ==
  ASSUME NEW fr, NEW how, NEW a \in Kinds, NEW b \in Kinds, NEW c \in Kinds,
         a # b, a # c, b # c, Clears(fr, {a, b, c}, how)
  PROVE  Ladder(fr, <<a, b, c>>, how)
<1>1. Enough(fr, <<a, b, c>>)
  <2>1. /\ DOMAIN <<a, b, c>> = {1, 2, 3}
        /\ <<a, b, c>>[1] = a /\ <<a, b, c>>[2] = b /\ <<a, b, c>>[3] = c
    OBVIOUS
  <2> QED BY <2>1, CountThree DEF Enough, Clears
<1>2. <<a, b, c>> \notin {<<"null">>, <<"assert">>}
  OBVIOUS
<1> QED BY <1>1, <1>2, CountThree DEF Ladder, Clears

(* What the functions return, one by one.                                  *)
LEMMA ResultOf ==
  /\ Result("r_type_member_type") = "type"
  /\ Result("ruminate_get_types_by_name") = "types"
  /\ Result("r_aggregate_type_member_by_name") = "member"
  /\ Result("_r_mem_malloc_sized") = "memory"
  /\ Result("ensure_value_init") = "none"
  /\ Result("json_serialize_struct_member") = "none"
  /\ Result("json_deserialize_struct_member") = "none"
  /\ Result("json_serialize") = "json"
  /\ Result("json_deserialize") = "memory"
  /\ \A f \in Serializers : Result(f) = "json"
  /\ \A f \in Deserializers : Result(f) = "memory"
BY DEF Result, Serializers, Deserializers

Fewer(fr, g, S) ==
  /\ Goes(fr, g, fr.pc + 1)
  /\ \A x \in Kinds :
       g.refs[x] = IF x \in S THEN fr.refs[x] - 1 ELSE fr.refs[x]

(* The numbers in a frame are numbers.                                     *)
LEMMA FrameFacts ==
  ASSUME NEW fr \in Frames
  PROVE  /\ MaxTurns \in Nat /\ MaxTurns >= 1
         /\ fr.turns \in Nat /\ fr.turns <= MaxTurns /\ fr.err \in BOOLEAN
         /\ \A x \in Kinds : fr.refs[x] \in Nat
<1>1. \A x \in Kinds : fr.refs[x] \in 0 .. MaxTurns + 2
  BY DEF Frames
<1>2. \A x \in Kinds : fr.refs[x] \in Nat
  BY <1>1
<1> QED BY <1>2, CleanupAssumption DEF Frames

(* What a frame may have besides is a number.                              *)
LEMMA KeptIs ==
  ASSUME NEW fr \in Frames, NEW k
  PROVE  Kept(fr, k) \in Nat
BY FrameFacts DEF Kept, Appended

(* A drop of one kind takes one of it.                                     *)
LEMMA DropOne ==
  ASSUME NEW fr \in Frames, NEW g, NEW what, NEW a, Moves(fr, g, what),
         Code[fr.fn][fr.pc] = Drop(<<a>>)
  PROVE  Fewer(fr, g, {a})
<1>1. DropMoves(fr, g, <<a>>)
  BY DropIs
<1> QED BY <1>1, FrameFacts, CountOne DEF DropMoves, Fewer

(* What has the shape of a frame and keeps the bounds is one.              *)
LEMMA ShapeFrame ==
  ASSUME NEW g \in Shape, g.turns <= MaxTurns, g.pc \in 1..17,
         \A x \in Kinds : g.refs[x] <= MaxTurns + 2
  PROVE  g \in Frames
BY CleanupAssumption DEF Shape, Frames

(* The functions, one by one.                                              *)
LEMMA FunctionsAre == Functions = {"r_type_member_type", "ensure_value_init",
"r_aggregate_type_member_by_name", "ruminate_get_types_by_name",
"_r_mem_malloc_sized", "json_serialize", "_json_serialize",
"json_serialize_builtin", "json_serialize_pointer",
"json_serialize_aggregate", "json_serialize_struct",
"json_serialize_struct_member", "json_serialize_enum", "json_serialize_array",
"json_deserialize", "_json_deserialize", "json_deserialize_builtin",
"json_deserialize_aggregate", "json_deserialize_enum",
"json_deserialize_pointer", "json_deserialize_struct",
"json_deserialize_struct_member", "json_deserialize_array"}
BY DEF Functions, Code

(* There is enough for a ladder of one kind if there is one.               *)
LEMMA EnoughOne ==
  ASSUME NEW fr, NEW a \in Kinds, fr.refs[a] >= 1
  PROVE  Enough(fr, <<a>>)
BY CountOne DEF Enough

(* Where a result is used without a look at it, or is asserted to be       *)
(* there, nothing is shown but that it is known.                           *)
LEMMA LadderKnown ==
  ASSUME NEW fr, NEW how, NEW kind \in {"null", "assert"},
         <<fr.fn, kind>> \in KnownFaults
  PROVE  Ladder(fr, <<kind>>, how)
BY DEF Ladder

(* fr has a k at most, and nothing else.                                   *)
HasOnly(fr, k) ==
  \A x \in Kinds : IF x = k THEN fr.refs[x] \in {0, 1} ELSE fr.refs[x] = 0

(* A function that has no error at a return, and nothing but its result,   *)
(* ends as it should.                                                      *)
LEMMA EndsClean ==
  ASSUME NEW fr \in Frames, NEW what, NEW k \in Kinds \cup {"none"},
         HasOnly(fr, k), ~fr.err, fr.old => "hook" \in what,
         fr.fn \notin Sure, k \in {Result(fr.fn), "none"}
  PROVE  Ending(fr, k, what)
<1>1. \A x \in Kinds : /\ ~(fr.refs[x] > (IF x = k THEN 1 ELSE 0) + Kept(fr, x))
                       /\ x # k => ~(fr.refs[x] > Kept(fr, x))
  BY KeptIs DEF HasOnly
<1>2. ~Gives(fr, k) => \A x \in Kinds : ~(fr.refs[x] > Kept(fr, x))
  <2>1. \A x \in Kinds : x = k /\ ~Gives(fr, k) => fr.refs[x] = 0
    BY DEF HasOnly, Gives, Kinds
  <2> QED BY <1>1, <2>1, KeptIs
<1> QED BY <1>1, <1>2 DEF Ending, Bad, Gives, Kinds

(* There is enough for a ladder of two kinds if there is one of each.      *)
LEMMA EnoughTwo ==
  ASSUME NEW fr, NEW a \in Kinds, NEW b \in Kinds, a # b,
         fr.refs[a] >= 1, fr.refs[b] >= 1
  PROVE  Enough(fr, <<a, b>>)
<1>1. DOMAIN <<a, b>> = {1, 2} /\ <<a, b>>[1] = a /\ <<a, b>>[2] = b
  OBVIOUS
<1> QED BY <1>1, CountTwo DEF Enough

(* There is enough for a ladder of three kinds if there is one of each.    *)
LEMMA EnoughThree ==
  ASSUME NEW fr, NEW a \in Kinds, NEW b \in Kinds, NEW c \in Kinds,
         a # b, a # c, b # c,
         fr.refs[a] >= 1, fr.refs[b] >= 1, fr.refs[c] >= 1
  PROVE  Enough(fr, <<a, b, c>>)
<1>1. /\ DOMAIN <<a, b, c>> = {1, 2, 3}
      /\ <<a, b, c>>[1] = a /\ <<a, b, c>>[2] = b /\ <<a, b, c>>[3] = c
  OBVIOUS
<1> QED BY <1>1, CountThree DEF Enough

(* A drop of two kinds takes one of each.                                  *)
LEMMA DropTwo ==
  ASSUME NEW fr \in Frames, NEW g, NEW what, NEW a, NEW b, a # b,
         Moves(fr, g, what),
         Code[fr.fn][fr.pc] = Drop(<<a, b>>)
  PROVE  Fewer(fr, g, {a, b})
<1>1. DropMoves(fr, g, <<a, b>>)
  BY DropIs
<1> QED BY <1>1, FrameFacts, CountTwo DEF DropMoves, Fewer

(* A drop of three kinds takes one of each.                                *)
LEMMA DropThree ==
  ASSUME NEW fr \in Frames, NEW g, NEW what, NEW a, NEW b, NEW c,
         a # b, a # c, b # c, Moves(fr, g, what),
         Code[fr.fn][fr.pc] = Drop(<<a, b, c>>)
  PROVE  Fewer(fr, g, {a, b, c})
<1>1. DropMoves(fr, g, <<a, b, c>>)
  BY DropIs
<1> QED BY <1>1, FrameFacts, CountThree DEF DropMoves, Fewer

(* The ladder of an array that is half read drops two of what it has none  *)
(* of.                                                                     *)
LEMMA LadderFour ==
  ASSUME NEW fr, NEW how, fr.refs["json"] = 0,
         <<fr.fn, "drop">> \in KnownFaults
  PROVE  Ladder(fr, <<"json", "type", "member", "json">>, how)
<1> DEFINE ks == <<"json", "type", "member", "json">>
<1>1. /\ DOMAIN ks = {1, 2, 3, 4}
      /\ ks[1] = "json" /\ ks[2] = "type" /\ ks[3] = "member" /\ ks[4] = "json"
  OBVIOUS
<1>2. ks \notin {<<"null">>, <<"assert">>}
  OBVIOUS
<1> HIDE DEF ks
<1>3. Count("json", ks) = 2
  BY <1>1, CountTwice, SMTT(30)
<1>4. Missing(fr, ks) # {}
  BY <1>1, <1>3 DEF Missing
<1>5. Ladder(fr, ks, how)
  BY <1>2, <1>4 DEF Ladder
<1> QED BY <1>5 DEF ks

(* The ladder of r_mem_malloc that drops both of its types is right if     *)
(* they are there.                                                         *)
LEMMA LadderBoth ==
  ASSUME NEW fr \in Frames, NEW how, NEW a \in Kinds, fr.refs[a] = 2,
         \A x \in Kinds \ {a} : fr.refs[x] = 0,
         how = "done" => fr.fn \notin Sure
  PROVE  Ladder(fr, <<a, a>>, how)
<1>1. Enough(fr, <<a, a>>)
  <2>1. DOMAIN <<a, a>> = {1, 2} /\ <<a, a>>[1] = a /\ <<a, a>>[2] = a
    OBVIOUS
  <2> QED BY <2>1, CountBoth DEF Enough
<1>2. <<a, a>> \notin {<<"null">>, <<"assert">>}
  OBVIOUS
<1>3. \A x \in Kinds : ~(fr.refs[x] > Count(x, <<a, a>>) + Kept(fr, x))
  BY CountBoth, KeptIs
<1> QED BY <1>1, <1>2, <1>3 DEF Ladder

(* A ladder of two kinds that are not both there is right where that is    *)
(* known.                                                                  *)
LEMMA LadderLacks ==
  ASSUME NEW fr, NEW how, NEW a \in Kinds, NEW b \in Kinds, a # b,
         fr.refs[a] = 0 \/ fr.refs[b] = 0, <<fr.fn, "drop">> \in KnownFaults
  PROVE  Ladder(fr, <<a, b>>, how)
<1>1. Missing(fr, <<a, b>>) # {}
  <2>1. DOMAIN <<a, b>> = {1, 2} /\ <<a, b>>[1] = a /\ <<a, b>>[2] = b
    OBVIOUS
  <2> QED BY <2>1, CountTwo DEF Missing
<1>2. <<a, b>> \notin {<<"null">>, <<"assert">>}
  OBVIOUS
<1> QED BY <1>1, <1>2 DEF Ladder

(* A ladder of one kind that is not there is right where that is known.    *)
LEMMA LadderLacksOne ==
  ASSUME NEW fr, NEW how, NEW a \in Kinds, fr.refs[a] = 0,
         <<fr.fn, "drop">> \in KnownFaults
  PROVE  Ladder(fr, <<a>>, how)
<1>1. DOMAIN <<a>> = {1} /\ <<a>>[1] = a
  OBVIOUS
<1>2. <<a>> \notin {<<"null">>, <<"assert">>}
  BY DEF Kinds
<1> QED BY <1>1, <1>2, CountOne DEF Ladder, Missing

(* A ladder of three kinds of which the last is not there is right where   *)
(* that is known.                                                          *)
LEMMA LadderLacksLast ==
  ASSUME NEW fr, NEW how, NEW a \in Kinds, NEW b \in Kinds, NEW c \in Kinds,
         a # b, a # c, b # c, fr.refs[c] = 0, <<fr.fn, "drop">> \in KnownFaults
  PROVE  Ladder(fr, <<a, b, c>>, how)
<1>1. Missing(fr, <<a, b, c>>) # {}
  <2>1. /\ DOMAIN <<a, b, c>> = {1, 2, 3}
        /\ <<a, b, c>>[1] = a /\ <<a, b, c>>[2] = b /\ <<a, b, c>>[3] = c
    OBVIOUS
  <2> QED BY <2>1, CountThree DEF Missing
<1>2. <<a, b, c>> \notin {<<"null">>, <<"assert">>}
  OBVIOUS
<1> QED BY <1>1, <1>2 DEF Ladder

(* A function that has no error at a return, and besides its result only   *)
(* what is known, ends as it should.                                       *)
LEMMA EndsKeeping ==
  ASSUME NEW fr \in Frames, NEW what, NEW k \in Kinds \cup {"none"}, ~fr.err,
         k = Result(fr.fn) \/ k = "none",
         fr.old => "hook" \in what /\ Gives(fr, k),
         fr.fn \in Sure => Gives(fr, k) /\ ~fr.old,
         \A x \in Kinds :
           fr.refs[x] > (IF x = k THEN 1 ELSE 0) + Kept(fr, x)
             => <<fr.fn, x>> \in KnownLeaks.done
  PROVE  Ending(fr, k, what)
<1>1. CASE Gives(fr, k)
  BY <1>1 DEF Ending, Gives, Bad, Leaks
<1>2. CASE ~Gives(fr, k)
  <2>1. ~Bad(fr) /\ fr.fn \notin Sure
    BY <1>2 DEF Bad
  <2>2. \A x \in Kinds : fr.refs[x] > Kept(fr, x) =>
          fr.refs[x] > (IF x = k THEN 1 ELSE 0) + Kept(fr, x)
    BY <1>2, KeptIs, FrameFacts DEF Gives, Kinds
  <2>3. \A x \in Kinds :
          fr.refs[x] > Kept(fr, x) => <<fr.fn, x>> \in Leaks("done")
    BY <2>2 DEF Leaks
  <2> QED BY <1>2, <2>1, <2>3 DEF Ending, Bad
<1> QED BY <1>1, <1>2

(* The same, whatever it may have besides.                                 *)
LEMMA EndsLeaving ==
  ASSUME NEW fr \in Frames, NEW what, NEW k \in Kinds \cup {"none"}, ~fr.err,
         k = Result(fr.fn) \/ k = "none",
         fr.old => "hook" \in what /\ Gives(fr, k),
         fr.fn \in Sure => Gives(fr, k) /\ ~fr.old,
         \A x \in Kinds :
           fr.refs[x] > (IF x = k THEN 1 ELSE 0)
             => <<fr.fn, x>> \in KnownLeaks.done
  PROVE  Ending(fr, k, what)
<1>1. \A x \in Kinds :
        fr.refs[x] > (IF x = k THEN 1 ELSE 0) + Kept(fr, x)
          => fr.refs[x] > (IF x = k THEN 1 ELSE 0)
  BY KeptIs, FrameFacts
<1> QED BY <1>1, EndsKeeping

(* A function that may have an error at a return ends as it should if it   *)
(* gives a result together with one only where that is known.              *)
LEMMA EndsFailed ==
  ASSUME NEW fr \in Frames, NEW what, NEW k \in Kinds \cup {"none"},
         k = Result(fr.fn) \/ k = "none",
         fr.fn \notin Sure, fr.fn \notin OwnError,
         fr.old => "hook" \in what,
         Gives(fr, k) /\ fr.err => \/ "hook" \in what
                                   \/ fr.fn \in {"json_deserialize_pointer",
                                                 "json_deserialize"},
         \A x \in Kinds \ {k} : fr.refs[x] = 0,
         Gives(fr, k) => fr.refs[k] = 1 \/ <<fr.fn, k>> \in KnownLeaks.done
  PROVE  Ending(fr, k, what)
<1>1. \A x \in Kinds : Kept(fr, x) \in Nat /\ fr.refs[x] \in Nat
  BY KeptIs, FrameFacts
<1>2. CASE Gives(fr, k)
  <2>1. \A x \in Kinds :
          fr.refs[x] > (IF x = k THEN 1 ELSE 0) + Kept(fr, x)
            => <<fr.fn, x>> \in Leaks("done")
    BY <1>1, <1>2 DEF Leaks
  <2>2. k = Result(fr.fn)
    BY <1>2 DEF Gives
  <2> QED BY <1>2, <2>1, <2>2 DEF Ending, Bad
<1>3. CASE ~Gives(fr, k)
  <2>1. \A x \in Kinds : ~(fr.refs[x] > Kept(fr, x))
    BY <1>1, <1>3 DEF Gives, Kinds
  <2> QED BY <1>3, <2>1 DEF Ending
<1> QED BY <1>2, <1>3

(* The steps of r_type_member_type, one by one.                            *)
LEMMA MemberTypeCode ==
  LET X == Code["r_type_member_type"] IN
  /\ DOMAIN X = 1..6
  /\ X[1] = Either(5) /\ X[2] = Ask("none", <<>>)
  /\ X[3] = Ask("type", <<"null">>) /\ X[4] = Return("type")
  /\ X[5] = Make("type") /\ X[6] = Return("type")
BY DEF Code, MemberType

(* r_type_member_type: the table is right for it, it returns a type or an  *)
(* error, and uses the type it could not ask for.                          *)
LEMMA MemberTypeFlows ==
  ASSUME NEW fr, NEW what, Good(fr, what), fr.fn = "r_type_member_type"
  PROVE  Flows(fr, what)
<1>1. /\ fr \in Frames /\ fr.pc \in 1..6 /\ MemberTypeAt(fr)
      /\ ~fr.old
  <2>1. /\ fr \in Frames /\ fr.pc \in DOMAIN Code[fr.fn] /\ Table(fr)
        /\ ~fr.old
    BY DEF Good, At, Hooked, Tails, Serializers, Deserializers
  <2> QED BY <2>1, MemberTypeCode DEF Table
<1>2. /\ MaxTurns \in Nat /\ MaxTurns >= 1
      /\ fr.turns \in Nat /\ fr.turns <= MaxTurns
      /\ fr.err \in BOOLEAN /\ \A x \in Kinds : fr.refs[x] \in Nat
  BY <1>1, FrameFacts
<1> USE DEF MemberTypeAt, Held, HeldUnless, Has, OnlyOf,
           ErrAt, LoopAt, Kinds
<1>3. ASSUME NEW g \in Shape, Moves(fr, g, what)
      PROVE  MemberTypeAt(g) /\ g.pc \in 1..6 /\ g.turns <= MaxTurns
  <2> HIDE DEF MemberTypeAt
  <2>1. /\ fr.pc = 1 => EitherMoves(fr, g, 5)
        /\ fr.pc = 2 => AskMoves(fr, g, "none")
        /\ fr.pc \in {3, 5} => AskMoves(fr, g, "type")
        /\ fr.pc \notin {4, 6}
    BY <1>1, <1>3, MemberTypeCode, EitherIs, AskIs, ReturnIs, MakeIs
  <2> USE DEF MemberTypeAt, AskMoves, EitherMoves, Goes, Keeps, OneMore
  <2>2. CASE fr.pc \in 1..3
    BY <1>1, <1>2, <1>3, <2>1, <2>2
  <2>3. CASE fr.pc \in 4..6
    BY <1>1, <1>2, <1>3, <2>1, <2>3
  <2> QED BY <1>1, <2>2, <2>3
<1>4. ASSUME NEW g \in Shape, g.fn = fr.fn, g.old <=> fr.old, MemberTypeAt(g),
             g.pc \in 1..6, g.turns <= MaxTurns
      PROVE  Good(g, what)
  <2>1. g.turns \in Nat /\ \A x \in Kinds : g.refs[x] \in Nat
    BY <1>4 DEF Shape
  <2>2. \A x \in Kinds : g.refs[x] <= MaxTurns + 2
    BY <1>2, <1>4, <2>1
  <2> QED BY <1>1, <1>4, <2>2, ShapeFrame, MemberTypeCode
          DEF Good, At, Hooked, Table, Tails, Serializers, Deserializers
<1>5. fr.pc = 2 => Clears(fr, {}, "failed")
  BY <1>1, <1>2 DEF Clears, Kept, Appended, Sure
<1>6. /\ fr.pc = 2 => Ladder(fr, <<>>, "failed")
      /\ fr.pc = 3 => Ladder(fr, <<"null">>, "failed")
  BY <1>1, <1>5, LadderNone, LadderKnown DEF KnownFaults
<1>7. fr.pc \in {4, 6} => Ending(fr, "type", what)
  <2>1. fr.pc \in {4, 6} => ~fr.err
    BY <1>1
  <2>2. fr.pc \in {4, 6} => \A x \in Kinds :
          fr.refs[x] > (IF x = "type" THEN 1 ELSE 0)
            => <<fr.fn, x>> \in KnownLeaks.done
    BY <1>1, <1>2
  <2>3. fr.pc \in {4, 6} => Gives(fr, "type")
    BY <1>1, <1>2 DEF Gives
  <2> HIDE DEF MemberTypeAt
  <2> QED BY <1>1, <1>2, <2>1, <2>2, <2>3, EndsLeaving, ResultOf DEF Sure
<1>8. Outs(fr, what)
  <2> HIDE DEF MemberTypeAt
  <2>1. CASE fr.pc \in {1, 5}
    BY <1>1, <2>1, MemberTypeCode, EitherOut, MakeOut
  <2>2. CASE fr.pc \in 2..3
    BY <1>1, <1>6, <2>2, MemberTypeCode, AskOut
  <2>3. CASE fr.pc \in {4, 6}
    BY <1>1, <1>7, <2>3, MemberTypeCode, ReturnOut
  <2> QED BY <1>1, <2>1, <2>2, <2>3
<1> QED BY <1>1, <1>3, <1>4, <1>8 DEF Flows

(* The steps of ensure_value_init, one by one.                             *)
LEMMA EnumValueCode ==
  LET X == Code["ensure_value_init"] IN
  /\ DOMAIN X = 1..9
  /\ X[1] = Either(3) /\ X[2] = Return("none")
  /\ X[3] = Run({"r_type_member_type"}, "type") /\ X[4] = Check(<<>>)
  /\ X[5] = Either(9)
  /\ X[6] = Ask("none", <<"type">>) /\ X[7] = Ask("none", <<"type">>)
  /\ X[8] = Return("none") /\ X[9] = Stop
BY DEF Code, EnumValue

(* ensure_value_init: whichever request fails the type is dropped; at the  *)
(* end it is left behind, which is known.                                  *)
LEMMA EnumValueFlows ==
  ASSUME NEW fr, NEW what, Good(fr, what), fr.fn = "ensure_value_init"
  PROVE  Flows(fr, what)
<1>1. /\ fr \in Frames /\ fr.pc \in 1..9 /\ EnumValueAt(fr)
      /\ ~fr.old
  <2>1. /\ fr \in Frames /\ fr.pc \in DOMAIN Code[fr.fn] /\ Table(fr)
        /\ ~fr.old
    BY DEF Good, At, Hooked, Tails, Serializers, Deserializers
  <2> QED BY <2>1, EnumValueCode DEF Table
<1>2. /\ MaxTurns \in Nat /\ MaxTurns >= 1
      /\ fr.turns \in Nat /\ fr.turns <= MaxTurns
      /\ fr.err \in BOOLEAN /\ \A x \in Kinds : fr.refs[x] \in Nat
  BY <1>1, FrameFacts
<1> USE DEF EnumValueAt, Held, HeldUnless, Has, OnlyOf,
           ErrAt, LoopAt, Kinds
<1>3. ASSUME NEW g \in Shape, Moves(fr, g, what)
      PROVE  EnumValueAt(g) /\ g.pc \in 1..9 /\ g.turns <= MaxTurns
  <2> HIDE DEF EnumValueAt
  <2>1. /\ fr.pc = 1 => EitherMoves(fr, g, 3)
        /\ fr.pc = 3 => RunMoves(fr, g, "r_type_member_type", what)
        /\ fr.pc = 4 => CheckMoves(fr, g)
        /\ fr.pc = 5 => EitherMoves(fr, g, 9)
        /\ fr.pc \in 6..7 => AskMoves(fr, g, "none")
        /\ fr.pc \notin {2, 8, 9}
    BY <1>1, <1>3, EnumValueCode, EitherIs, ReturnIs, RunIs, CheckIs, AskIs,
       StopIs
  <2> USE DEF EnumValueAt, AskMoves, RunMoves, CheckMoves, EitherMoves, Goes,
              Keeps, OneMore
  <2>2. CASE fr.pc \in 1..4
    BY <1>1, <1>2, <1>3, <2>1, <2>2, ResultOf DEF Sure
  <2>3. CASE fr.pc \in 5..9
    BY <1>1, <1>2, <1>3, <2>1, <2>3
  <2> QED BY <1>1, <2>2, <2>3
<1>4. ASSUME NEW g \in Shape, g.fn = fr.fn, g.old <=> fr.old, EnumValueAt(g),
             g.pc \in 1..9, g.turns <= MaxTurns
      PROVE  Good(g, what)
  <2>1. g.turns \in Nat /\ \A x \in Kinds : g.refs[x] \in Nat
    BY <1>4 DEF Shape
  <2>2. \A x \in Kinds : g.refs[x] <= MaxTurns + 2
    BY <1>2, <1>4, <2>1
  <2> QED BY <1>1, <1>4, <2>2, ShapeFrame, EnumValueCode
          DEF Good, At, Hooked, Table, Tails, Serializers, Deserializers
<1>5. /\ fr.pc = 4 /\ fr.err => Clears(fr, {}, "failed")
      /\ fr.pc \in 6..7 => Clears(fr, {"type"}, "failed")
  BY <1>1, <1>2 DEF Clears, Kept, Appended, Leaks, KnownLeaks, Sure
<1>6. /\ fr.pc = 4 /\ fr.err => Ladder(fr, <<>>, "failed")
      /\ fr.pc \in 6..7 => Ladder(fr, <<"type">>, "failed")
  BY <1>5, LadderNone, LadderOne
<1>7. fr.pc \in {2, 8} => Ending(fr, "none", what)
  <2>1. fr.pc \in {2, 8} => ~fr.err
    BY <1>1
  <2>2. fr.pc \in {2, 8} => \A x \in Kinds :
          fr.refs[x] > (IF x = "none" THEN 1 ELSE 0)
            => <<fr.fn, x>> \in KnownLeaks.done
    BY <1>1, <1>2 DEF KnownLeaks
  <2> HIDE DEF EnumValueAt
  <2> QED BY <1>1, <1>2, <2>1, <2>2, EndsLeaving, ResultOf DEF Sure
<1>8. {"r_type_member_type"} \subseteq Functions
  BY FunctionsAre
<1>9. Outs(fr, what)
  <2> HIDE DEF EnumValueAt
  <2>1. CASE fr.pc \in {1, 5}
    BY <1>1, <2>1, EnumValueCode, EitherOut
  <2>2. CASE fr.pc \in {2, 8}
    BY <1>1, <1>7, <2>2, EnumValueCode, ReturnOut
  <2>3. CASE fr.pc = 3
    BY <1>1, <1>8, <2>3, EnumValueCode, RunOut
  <2>4. CASE fr.pc = 4
    BY <1>1, <1>6, <2>4, EnumValueCode, CheckOut
  <2>5. CASE fr.pc \in 6..7
    BY <1>1, <1>6, <2>5, EnumValueCode, AskOut
  <2>6. CASE fr.pc = 9
    BY <1>1, <2>6, EnumValueCode, StopOut DEF KnownFaults
  <2> QED BY <1>1, <2>1, <2>2, <2>3, <2>4, <2>5, <2>6
<1> QED BY <1>1, <1>3, <1>4, <1>9 DEF Flows

(* The steps of r_aggregate_type_member_by_name, one by one.               *)
LEMMA MemberByNameCode ==
  LET X == Code["r_aggregate_type_member_by_name"] IN
  /\ DOMAIN X = 1..10
  /\ X[1] = Ask("none", <<>>) /\ X[2] = Loop(9) /\ X[3] = Ask("member", <<>>)
  /\ X[4] = Ask("string", <<"member">>) /\ X[5] = Drop(<<"string">>)
  /\ X[6] = Either(10) /\ X[7] = Drop(<<"member">>) /\ X[8] = Back(2)
  /\ X[9] = Return("none") /\ X[10] = Return("member")
BY DEF Code, MemberByName

(* r_aggregate_type_member_by_name: each member that is not the one is     *)
(* dropped on every way round the loop and out of it.                      *)
LEMMA MemberByNameFlows ==
  ASSUME NEW fr, NEW what, Good(fr, what),
         fr.fn = "r_aggregate_type_member_by_name"
  PROVE  Flows(fr, what)
<1>1. /\ fr \in Frames /\ fr.pc \in 1..10 /\ MemberByNameAt(fr)
      /\ ~fr.old
  <2>1. /\ fr \in Frames /\ fr.pc \in DOMAIN Code[fr.fn] /\ Table(fr)
        /\ ~fr.old
    BY DEF Good, At, Hooked, Tails, Serializers, Deserializers
  <2> QED BY <2>1, MemberByNameCode DEF Table
<1>2. /\ MaxTurns \in Nat /\ MaxTurns >= 1
      /\ fr.turns \in Nat /\ fr.turns <= MaxTurns
      /\ fr.err \in BOOLEAN /\ \A x \in Kinds : fr.refs[x] \in Nat
  BY <1>1, FrameFacts
<1> USE DEF MemberByNameAt, Held, HeldUnless, Has, OnlyOf,
           ErrAt, LoopAt, Kinds
<1>3. ASSUME NEW g \in Shape, Moves(fr, g, what)
      PROVE  MemberByNameAt(g) /\ g.pc \in 1..10 /\ g.turns <= MaxTurns
  <2> HIDE DEF MemberByNameAt
  <2>1. /\ fr.pc = 1 => AskMoves(fr, g, "none")
        /\ fr.pc = 2 => LoopMoves(fr, g, 9)
        /\ fr.pc = 3 => AskMoves(fr, g, "member")
        /\ fr.pc = 4 => AskMoves(fr, g, "string")
        /\ fr.pc = 5 => Fewer(fr, g, {"string"})
        /\ fr.pc = 6 => EitherMoves(fr, g, 10)
        /\ fr.pc = 7 => Fewer(fr, g, {"member"})
        /\ fr.pc = 8 => BackMoves(fr, g, 2)
        /\ fr.pc \notin {9, 10}
    BY <1>1, <1>3, MemberByNameCode, AskIs, LoopIs, DropOne, EitherIs, BackIs,
       ReturnIs
  <2> USE DEF MemberByNameAt, AskMoves, EitherMoves, LoopMoves, BackMoves,
              Fewer, Goes, Keeps, OneMore
  <2>2. CASE fr.pc \in 1..4
    BY <1>1, <1>2, <1>3, <2>1, <2>2
  <2>3. CASE fr.pc \in 5..7
    BY <1>1, <1>2, <1>3, <2>1, <2>3
  <2>4. CASE fr.pc \in 8..10
    BY <1>1, <1>2, <1>3, <2>1, <2>4
  <2> QED BY <1>1, <2>2, <2>3, <2>4
<1>4. ASSUME NEW g \in Shape, g.fn = fr.fn, g.old <=> fr.old,
             MemberByNameAt(g),
             g.pc \in 1..10, g.turns <= MaxTurns
      PROVE  Good(g, what)
  <2>1. g.turns \in Nat /\ \A x \in Kinds : g.refs[x] \in Nat
    BY <1>4 DEF Shape
  <2>2. \A x \in Kinds : g.refs[x] <= MaxTurns + 2
    BY <1>2, <1>4, <2>1
  <2> QED BY <1>1, <1>4, <2>2, ShapeFrame, MemberByNameCode
          DEF Good, At, Hooked, Table, Tails, Serializers, Deserializers
<1>5. /\ fr.pc \in {1, 3} => Clears(fr, {}, "failed")
      /\ fr.pc = 4 => Clears(fr, {"member"}, "failed")
  BY <1>1, <1>2 DEF Clears, Kept, Appended, Sure
<1>6. /\ fr.pc \in {1, 3} => Ladder(fr, <<>>, "failed")
      /\ fr.pc = 4 => Ladder(fr, <<"member">>, "failed")
  BY <1>5, LadderNone, LadderOne
<1>7. /\ fr.pc = 5 => Enough(fr, <<"string">>)
      /\ fr.pc = 7 => Enough(fr, <<"member">>)
  BY <1>1, <1>2, EnoughOne
<1>8. /\ fr.pc = 9 => Ending(fr, "none", what)
      /\ fr.pc = 10 => Ending(fr, "member", what)
  <2>1. fr.pc \in 9..10 => ~fr.err
    BY <1>1
  <2>2. /\ fr.pc = 9 => HasOnly(fr, "none")
        /\ fr.pc = 10 => HasOnly(fr, "member")
    BY <1>1, <1>2 DEF HasOnly
  <2> HIDE DEF MemberByNameAt
  <2> QED BY <1>1, <2>1, <2>2, EndsClean, ResultOf DEF Sure
<1>9. Outs(fr, what)
  <2> HIDE DEF MemberByNameAt
  <2>1. CASE fr.pc \in {1, 3, 4}
    BY <1>1, <1>6, <2>1, MemberByNameCode, AskOut
  <2>2. CASE fr.pc \in {2, 6, 8}
    BY <1>1, <2>2, MemberByNameCode, LoopOut, EitherOut, BackOut
  <2>3. CASE fr.pc = 5
    BY <1>1, <1>7, <2>3, MemberByNameCode, DropOut
  <2>4. CASE fr.pc = 7
    BY <1>1, <1>7, <2>4, MemberByNameCode, DropOut
  <2>5. CASE fr.pc \in 9..10
    BY <1>1, <1>8, <2>5, MemberByNameCode, ReturnOut
  <2> QED BY <1>1, <2>1, <2>2, <2>3, <2>4, <2>5
<1> QED BY <1>1, <1>3, <1>4, <1>9 DEF Flows

(* The steps of ruminate_get_types_by_name, one by one.                    *)
LEMMA TypesByNameCode ==
  LET X == Code["ruminate_get_types_by_name"] IN
  /\ DOMAIN X = 1..7
  /\ X[1] = Ask("none", <<>>) /\ X[2] = Make("types") /\ X[3] = Loop(7)
  /\ X[4] = Ask("type", <<"types">>) /\ X[5] = Give("type") /\ X[6] = Back(3)
  /\ X[7] = Return("types")
BY DEF Code, TypesByName

(* ruminate_get_types_by_name: a request that fails in the middle of the   *)
(* loop drops the list, which has all the types so far.                    *)
LEMMA TypesByNameFlows ==
  ASSUME NEW fr, NEW what, Good(fr, what), fr.fn = "ruminate_get_types_by_name"
  PROVE  Flows(fr, what)
<1>1. /\ fr \in Frames /\ fr.pc \in 1..7 /\ TypesByNameAt(fr)
      /\ ~fr.old
  <2>1. /\ fr \in Frames /\ fr.pc \in DOMAIN Code[fr.fn] /\ Table(fr)
        /\ ~fr.old
    BY DEF Good, At, Hooked, Tails, Serializers, Deserializers
  <2> QED BY <2>1, TypesByNameCode DEF Table
<1>2. /\ MaxTurns \in Nat /\ MaxTurns >= 1
      /\ fr.turns \in Nat /\ fr.turns <= MaxTurns
      /\ fr.err \in BOOLEAN /\ \A x \in Kinds : fr.refs[x] \in Nat
  BY <1>1, FrameFacts
<1> USE DEF TypesByNameAt, Held, HeldUnless, Has, OnlyOf,
           ErrAt, LoopAt, Kinds
<1>3. ASSUME NEW g \in Shape, Moves(fr, g, what)
      PROVE  TypesByNameAt(g) /\ g.pc \in 1..7 /\ g.turns <= MaxTurns
  <2> HIDE DEF TypesByNameAt
  <2>1. /\ fr.pc = 1 => AskMoves(fr, g, "none")
        /\ fr.pc = 2 => AskMoves(fr, g, "types")
        /\ fr.pc = 3 => LoopMoves(fr, g, 7)
        /\ fr.pc = 4 => AskMoves(fr, g, "type")
        /\ fr.pc = 5 => GiveMoves(fr, g, "type")
        /\ fr.pc = 6 => BackMoves(fr, g, 3)
        /\ fr.pc \notin {7}
    BY <1>1, <1>3, TypesByNameCode, AskIs, MakeIs, LoopIs, GiveIs, BackIs,
       ReturnIs
  <2> USE DEF TypesByNameAt, AskMoves, GiveMoves, LoopMoves, BackMoves, Goes,
              Keeps, OneMore
  <2>2. CASE fr.pc \in 1..4
    BY <1>1, <1>2, <1>3, <2>1, <2>2
  <2>3. CASE fr.pc \in 5..7
    BY <1>1, <1>2, <1>3, <2>1, <2>3
  <2> QED BY <1>1, <2>2, <2>3
<1>4. ASSUME NEW g \in Shape, g.fn = fr.fn, g.old <=> fr.old, TypesByNameAt(g),
             g.pc \in 1..7, g.turns <= MaxTurns
      PROVE  Good(g, what)
  <2>1. g.turns \in Nat /\ \A x \in Kinds : g.refs[x] \in Nat
    BY <1>4 DEF Shape
  <2>2. \A x \in Kinds : g.refs[x] <= MaxTurns + 2
    BY <1>2, <1>4, <2>1
  <2> QED BY <1>1, <1>4, <2>2, ShapeFrame, TypesByNameCode
          DEF Good, At, Hooked, Table, Tails, Serializers, Deserializers
<1>5. /\ fr.pc = 1 => Clears(fr, {}, "failed")
      /\ fr.pc = 4 => Clears(fr, {"types"}, "failed")
  BY <1>1, <1>2 DEF Clears, Kept, Appended, Sure
<1>6. /\ fr.pc = 1 => Ladder(fr, <<>>, "failed")
      /\ fr.pc = 4 => Ladder(fr, <<"types">>, "failed")
  BY <1>5, LadderNone, LadderOne
<1>7. fr.pc = 7 => Ending(fr, "types", what)
  <2>1. fr.pc = 7 => ~fr.err
    BY <1>1
  <2>2. fr.pc = 7 => HasOnly(fr, "types")
    BY <1>1, <1>2 DEF HasOnly
  <2> HIDE DEF TypesByNameAt
  <2> QED BY <1>1, <2>1, <2>2, EndsClean, ResultOf DEF Sure
<1>8. Outs(fr, what)
  <2> HIDE DEF TypesByNameAt
  <2>1. CASE fr.pc \in {1, 4}
    BY <1>1, <1>6, <2>1, TypesByNameCode, AskOut
  <2>2. CASE fr.pc \in {2, 3, 5, 6}
    BY <1>1, <2>2, TypesByNameCode, MakeOut, LoopOut, GiveOut, BackOut
  <2>3. CASE fr.pc = 7
    BY <1>1, <1>7, <2>3, TypesByNameCode, ReturnOut
  <2> QED BY <1>1, <2>1, <2>2, <2>3
<1> QED BY <1>1, <1>3, <1>4, <1>8 DEF Flows

(* The steps of _r_mem_malloc_sized, one by one.                           *)
LEMMA MallocSizedCode ==
  LET X == Code["_r_mem_malloc_sized"] IN
  /\ DOMAIN X = 1..5
  /\ X[1] = Ask("type", <<>>) /\ X[2] = Ask("type", <<"type">>)
  /\ X[3] = Ask("memory", <<"type", "type">>) /\ X[4] = Drop(<<"type">>)
  /\ X[5] = Return("memory")
BY DEF Code, MallocSized

(* _r_mem_malloc_sized: the ladder drops as many types as there are; the   *)
(* pointee is left behind on success, which is known.                      *)
LEMMA MallocSizedFlows ==
  ASSUME NEW fr, NEW what, Good(fr, what), fr.fn = "_r_mem_malloc_sized"
  PROVE  Flows(fr, what)
<1>1. /\ fr \in Frames /\ fr.pc \in 1..5 /\ MallocSizedAt(fr)
      /\ ~fr.old
  <2>1. /\ fr \in Frames /\ fr.pc \in DOMAIN Code[fr.fn] /\ Table(fr)
        /\ ~fr.old
    BY DEF Good, At, Hooked, Tails, Serializers, Deserializers
  <2> QED BY <2>1, MallocSizedCode DEF Table
<1>2. /\ MaxTurns \in Nat /\ MaxTurns >= 1
      /\ fr.turns \in Nat /\ fr.turns <= MaxTurns
      /\ fr.err \in BOOLEAN /\ \A x \in Kinds : fr.refs[x] \in Nat
  BY <1>1, FrameFacts
<1> USE DEF MallocSizedAt, Held, HeldUnless, Has, OnlyOf,
           ErrAt, LoopAt, Kinds
<1>3. ASSUME NEW g \in Shape, Moves(fr, g, what)
      PROVE  MallocSizedAt(g) /\ g.pc \in 1..5 /\ g.turns <= MaxTurns
  <2> HIDE DEF MallocSizedAt
  <2>1. /\ fr.pc \in 1..2 => AskMoves(fr, g, "type")
        /\ fr.pc = 3 => AskMoves(fr, g, "memory")
        /\ fr.pc = 4 => Fewer(fr, g, {"type"})
        /\ fr.pc \notin {5}
    BY <1>1, <1>3, MallocSizedCode, AskIs, DropOne, ReturnIs
  <2> USE DEF MallocSizedAt, AskMoves, Fewer, Goes, Keeps, OneMore
  <2>2. CASE fr.pc \in 1..3
    BY <1>1, <1>2, <1>3, <2>1, <2>2
  <2>3. CASE fr.pc \in 4..5
    BY <1>1, <1>2, <1>3, <2>1, <2>3
  <2> QED BY <1>1, <2>2, <2>3
<1>4. ASSUME NEW g \in Shape, g.fn = fr.fn, g.old <=> fr.old, MallocSizedAt(g),
             g.pc \in 1..5, g.turns <= MaxTurns
      PROVE  Good(g, what)
  <2>1. g.turns \in Nat /\ \A x \in Kinds : g.refs[x] \in Nat
    BY <1>4 DEF Shape
  <2>2. \A x \in Kinds : g.refs[x] <= MaxTurns + 2
    BY <1>2, <1>4, <2>1
  <2> QED BY <1>1, <1>4, <2>2, ShapeFrame, MallocSizedCode
          DEF Good, At, Hooked, Table, Tails, Serializers, Deserializers
<1>5. fr.pc = 3 => Ladder(fr, <<"type", "type">>, "failed")
  BY <1>1, <1>2, LadderBoth DEF KnownFaults
<1>6. /\ fr.pc = 1 => Clears(fr, {}, "failed")
      /\ fr.pc = 2 => Clears(fr, {"type"}, "failed")
  BY <1>1, <1>2 DEF Clears, Kept, Appended, Leaks, KnownLeaks, Sure
<1>7. /\ fr.pc = 1 => Ladder(fr, <<>>, "failed")
      /\ fr.pc = 2 => Ladder(fr, <<"type">>, "failed")
  BY <1>6, LadderNone, LadderOne
<1>8. fr.pc = 4 => Enough(fr, <<"type">>)
  BY <1>1, <1>2, EnoughOne
<1>9. fr.pc = 5 => Ending(fr, "memory", what)
  <2>1. fr.pc = 5 => ~fr.err
    BY <1>1
  <2>2. fr.pc = 5 => \A x \in Kinds :
          fr.refs[x] > (IF x = "memory" THEN 1 ELSE 0)
            => <<fr.fn, x>> \in KnownLeaks.done
    BY <1>1, <1>2 DEF KnownLeaks
  <2>3. fr.pc = 5 => Gives(fr, "memory")
    BY <1>1, <1>2 DEF Gives
  <2> HIDE DEF MallocSizedAt
  <2> QED BY <1>1, <1>2, <2>1, <2>2, <2>3, EndsLeaving, ResultOf DEF Sure
<1>10. Outs(fr, what)
  <2> HIDE DEF MallocSizedAt
  <2>1. CASE fr.pc \in 1..3
    BY <1>1, <1>5, <1>7, <2>1, MallocSizedCode, AskOut
  <2>2. CASE fr.pc = 4
    BY <1>1, <1>8, <2>2, MallocSizedCode, DropOut
  <2>3. CASE fr.pc = 5
    BY <1>1, <1>9, <2>3, MallocSizedCode, ReturnOut
  <2> QED BY <1>1, <2>1, <2>2, <2>3
<1> QED BY <1>1, <1>3, <1>4, <1>10 DEF Flows

(* The steps of json_serialize, one by one.                                *)
LEMMA SerializeCode ==
  LET X == Code["json_serialize"] IN
  /\ DOMAIN X = 1..10
  /\ X[1] = Make("state") /\ X[2] = Run({"_json_serialize"}, "json")
  /\ X[3] = IfNone("json", <<"state">>) /\ X[4] = Either(9)
  /\ X[5] = Ask("string", <<"json", "state">>) /\ X[6] = Make("json")
  /\ X[7] = Make("json") /\ X[8] = Drop(<<"string">>)
  /\ X[9] = Drop(<<"state">>) /\ X[10] = Return("json")
BY DEF Code, Serialize

(* json_serialize: after _json_serialize has failed there is no JSON, but  *)
(* for a hook's; what it left around the value is known.                   *)
LEMMA SerializeFlows ==
  ASSUME NEW fr, NEW what, Good(fr, what), fr.fn = "json_serialize"
  PROVE  Flows(fr, what)
<1>1. /\ fr \in Frames /\ fr.pc \in 1..10 /\ SerializeAt(fr)
      /\ ~fr.old
      /\ Hooked(fr, what)
  <2>1. /\ fr \in Frames /\ fr.pc \in DOMAIN Code[fr.fn] /\ Table(fr)
        /\ ~fr.old
        /\ Hooked(fr, what)
    BY DEF Good, At, Hooked, Tails, Serializers, Deserializers
  <2> QED BY <2>1, SerializeCode DEF Table
<1>2. /\ MaxTurns \in Nat /\ MaxTurns >= 1
      /\ fr.turns \in Nat /\ fr.turns <= MaxTurns
      /\ fr.err \in BOOLEAN /\ \A x \in Kinds : fr.refs[x] \in Nat
  BY <1>1, FrameFacts
<1> USE DEF SerializeAt, Held, HeldUnless, Has, OnlyOf,
           ErrAt, LoopAt, Kinds, Hooked
<1>3. ASSUME NEW g \in Shape, Moves(fr, g, what), g.fn = fr.fn,
             g.old <=> fr.old
      PROVE  SerializeAt(g) /\ g.pc \in 1..10 /\ g.turns <= MaxTurns
             /\ Hooked(g, what)
  <2> HIDE DEF SerializeAt
  <2>1. /\ fr.pc = 1 => AskMoves(fr, g, "state")
        /\ fr.pc = 2 => RunMoves(fr, g, "_json_serialize", what)
        /\ fr.pc = 3 => NoneMoves(fr, g, "json", 1)
        /\ fr.pc = 4 => EitherMoves(fr, g, 9)
        /\ fr.pc = 5 => AskMoves(fr, g, "string")
        /\ fr.pc \in 6..7 => AskMoves(fr, g, "json")
        /\ fr.pc = 8 => Fewer(fr, g, {"string"})
        /\ fr.pc = 9 => Fewer(fr, g, {"state"})
        /\ fr.pc \notin {10}
    BY <1>1, <1>3, SerializeCode, MakeIs, RunIs, NoneIs, EitherIs, AskIs,
       DropOne, ReturnIs
  <2> USE DEF SerializeAt, AskMoves, RunMoves, NoneMoves, EitherMoves, Fewer,
              Goes, Keeps, OneMore
  <2>2. CASE fr.pc \in 1..4
    BY <1>1, <1>2, <1>3, <2>1, <2>2, ResultOf DEF Sure, Serializers
  <2>3. CASE fr.pc \in 5..7
    BY <1>1, <1>2, <1>3, <2>1, <2>3
  <2>4. CASE fr.pc \in 8..10
    BY <1>1, <1>2, <1>3, <2>1, <2>4
  <2> QED BY <1>1, <2>2, <2>3, <2>4
<1>4. ASSUME NEW g \in Shape, g.fn = fr.fn, g.old <=> fr.old, SerializeAt(g),
             g.pc \in 1..10, g.turns <= MaxTurns, Hooked(g, what)
      PROVE  Good(g, what)
  <2>1. g.turns \in Nat /\ \A x \in Kinds : g.refs[x] \in Nat
    BY <1>4 DEF Shape
  <2>2. \A x \in Kinds : g.refs[x] <= MaxTurns + 2
    BY <1>2, <1>4, <2>1
  <2> QED BY <1>1, <1>4, <2>2, ShapeFrame, SerializeCode
          DEF Good, At, Hooked, Table, Tails, Serializers, Deserializers
<1>5. /\ fr.pc = 3 /\ fr.refs["json"] < 1 => Clears(fr, {"state"}, "failed")
      /\ fr.pc = 3 /\ fr.refs["json"] < 1 => Clears(fr, {"state"}, "done")
      /\ fr.pc = 5 => Clears(fr, {"json", "state"}, "failed")
  BY <1>1, <1>2 DEF Clears, Kept, Appended, Leaks, KnownLeaks, Sure
<1>6. /\ fr.pc = 3 /\ fr.refs["json"] < 1 => Ladder(fr, <<"state">>, "failed")
      /\ fr.pc = 3 /\ fr.refs["json"] < 1 => Ladder(fr, <<"state">>, "done")
      /\ fr.pc = 5 => Ladder(fr, <<"json", "state">>, "failed")
  BY <1>5, LadderOne, LadderTwo
<1>7. /\ fr.pc = 8 => Enough(fr, <<"string">>)
      /\ fr.pc = 9 => Enough(fr, <<"state">>)
  BY <1>1, <1>2, EnoughOne
<1>8. fr.pc = 10 => Ending(fr, "json", what)
  <2>1. fr.pc = 10 /\ Gives(fr, "json") /\ fr.err =>
          \/ "hook" \in what
          \/ fr.fn \in {"json_deserialize_pointer", "json_deserialize"}
    BY <1>1, <1>2 DEF Gives
  <2>2. fr.pc = 10 => \A x \in Kinds \ {"json"} : fr.refs[x] = 0
    BY <1>1, <1>2
  <2>3. fr.pc = 10 /\ Gives(fr, "json") =>
          fr.refs["json"] = 1 \/ <<fr.fn, "json">> \in KnownLeaks.done
    BY <1>1, <1>2 DEF Gives, KnownLeaks
  <2> HIDE DEF SerializeAt
  <2> QED BY <1>1, <1>2, <2>1, <2>2, <2>3, EndsFailed, ResultOf
         DEF Sure, Serializers, OwnError
<1>9. {"_json_serialize"} \subseteq Functions
  BY FunctionsAre
<1>10. Outs(fr, what)
  <2> HIDE DEF SerializeAt
  <2>1. CASE fr.pc \in {1, 4, 6, 7}
    BY <1>1, <2>1, SerializeCode, MakeOut, EitherOut
  <2>2. CASE fr.pc = 2
    BY <1>1, <1>9, <2>2, SerializeCode, RunOut
  <2>3. CASE fr.pc = 3
    BY <1>1, <1>6, <2>3, SerializeCode, NoneOut
  <2>4. CASE fr.pc = 5
    BY <1>1, <1>6, <2>4, SerializeCode, AskOut
  <2>5. CASE fr.pc = 8
    BY <1>1, <1>7, <2>5, SerializeCode, DropOut
  <2>6. CASE fr.pc = 9
    BY <1>1, <1>7, <2>6, SerializeCode, DropOut
  <2>7. CASE fr.pc = 10
    BY <1>1, <1>8, <2>7, SerializeCode, ReturnOut
  <2> QED BY <1>1, <2>1, <2>2, <2>3, <2>4, <2>5, <2>6, <2>7
<1> QED BY <1>1, <1>3, <1>4, <1>10 DEF Flows

(* The steps of _json_serialize, one by one.                               *)
LEMMA SerializeAnyCode ==
  LET X == Code["_json_serialize"] IN
  /\ DOMAIN X = 1..8
  /\ X[1] = Either(3) /\ X[2] = Return("none")
  /\ X[3] = Ask("string", <<"null">>) /\ X[4] = Drop(<<"string">>)
  /\ X[5] = Hook(8) /\ X[6] = Make("json") /\ X[7] = Return("json")
  /\ X[8] = Tail_({"json_serialize_builtin", "json_serialize_pointer",
                   "json_serialize_aggregate", "json_serialize_array"})
BY DEF Code, SerializeAny

(* _json_serialize: it has nothing of its own when the function for the    *)
(* type takes its place, and an error only after a hook.                   *)
LEMMA SerializeAnyFlows ==
  ASSUME NEW fr, NEW what, Good(fr, what), fr.fn = "_json_serialize"
  PROVE  Flows(fr, what)
<1>1. /\ fr \in Frames /\ fr.pc \in 1..8 /\ SerializeAnyAt(fr)
      /\ ~fr.old
      /\ Hooked(fr, what)
  <2>1. /\ fr \in Frames /\ fr.pc \in DOMAIN Code[fr.fn] /\ Table(fr)
        /\ ~fr.old
        /\ Hooked(fr, what)
    BY DEF Good, At, Hooked, Tails, Serializers, Deserializers
  <2> QED BY <2>1, SerializeAnyCode DEF Table
<1>2. /\ MaxTurns \in Nat /\ MaxTurns >= 1
      /\ fr.turns \in Nat /\ fr.turns <= MaxTurns
      /\ fr.err \in BOOLEAN /\ \A x \in Kinds : fr.refs[x] \in Nat
  BY <1>1, FrameFacts
<1> USE DEF SerializeAnyAt, Held, HeldUnless, Has, OnlyOf,
           ErrAt, LoopAt, Kinds, Hooked
<1>3. ASSUME NEW g \in Shape, Moves(fr, g, what), g.fn = fr.fn,
             g.old <=> fr.old
      PROVE  SerializeAnyAt(g) /\ g.pc \in 1..8 /\ g.turns <= MaxTurns
             /\ Hooked(g, what)
  <2> HIDE DEF SerializeAnyAt
  <2>1. /\ fr.pc = 1 => EitherMoves(fr, g, 3)
        /\ fr.pc = 3 => AskMoves(fr, g, "string")
        /\ fr.pc = 4 => Fewer(fr, g, {"string"})
        /\ fr.pc = 5 => HookMoves(fr, g, 8, what)
        /\ fr.pc = 6 => AskMoves(fr, g, "json")
        /\ fr.pc \notin {2, 7, 8}
    BY <1>1, <1>3, SerializeAnyCode, EitherIs, ReturnIs, AskIs, DropOne,
       HookIs, MakeIs, TailIs
  <2> USE DEF SerializeAnyAt, AskMoves, HookMoves, EitherMoves, Fewer, Goes,
              Keeps, OneMore
  <2>2. CASE fr.pc \in 1..4
    BY <1>1, <1>2, <1>3, <2>1, <2>2
  <2>3. CASE fr.pc \in 5..8
    BY <1>1, <1>2, <1>3, <2>1, <2>3
  <2> QED BY <1>1, <2>2, <2>3
<1>4. ASSUME NEW g \in Shape, g.fn = fr.fn, g.old <=> fr.old,
             SerializeAnyAt(g),
             g.pc \in 1..8, g.turns <= MaxTurns, Hooked(g, what)
      PROVE  Good(g, what)
  <2>1. g.turns \in Nat /\ \A x \in Kinds : g.refs[x] \in Nat
    BY <1>4 DEF Shape
  <2>2. \A x \in Kinds : g.refs[x] <= MaxTurns + 2
    BY <1>2, <1>4, <2>1
  <2> QED BY <1>1, <1>4, <2>2, ShapeFrame, SerializeAnyCode
          DEF Good, At, Hooked, Table, Tails, Serializers, Deserializers
<1>5. fr.pc = 3 => Ladder(fr, <<"null">>, "failed")
  BY <1>1, LadderKnown DEF KnownFaults
<1>6. fr.pc = 4 => Enough(fr, <<"string">>)
  BY <1>1, <1>2, EnoughOne
<1>7. /\ fr.pc = 2 => Ending(fr, "none", what)
      /\ fr.pc = 7 => Ending(fr, "json", what)
  <2>1. fr.pc \in {2, 7} => ~fr.err
    BY <1>1
  <2>2. /\ fr.pc = 2 => HasOnly(fr, "none")
        /\ fr.pc = 7 => HasOnly(fr, "json")
    BY <1>1, <1>2 DEF HasOnly
  <2> HIDE DEF SerializeAnyAt
  <2> QED BY <1>1, <2>1, <2>2, EndsClean, ResultOf DEF Sure, Serializers
<1>8. fr.pc = 8 => (Bad(fr) => "hook" \in what)
  BY <1>1 DEF Bad
<1>9. Outs(fr, what)
  <2> HIDE DEF SerializeAnyAt
  <2>1. CASE fr.pc \in {1, 5, 6}
    BY <1>1, <2>1, SerializeAnyCode, EitherOut, HookOut, MakeOut
  <2>2. CASE fr.pc \in {2, 7}
    BY <1>1, <1>7, <2>2, SerializeAnyCode, ReturnOut
  <2>3. CASE fr.pc = 3
    BY <1>1, <1>5, <2>3, SerializeAnyCode, AskOut
  <2>4. CASE fr.pc = 4
    BY <1>1, <1>6, <2>4, SerializeAnyCode, DropOut
  <2>5. CASE fr.pc = 8
    BY <1>1, <1>8, <2>5, SerializeAnyCode, TailOut
       DEF Tails, Alike, Serializers, Deserializers
  <2> QED BY <1>1, <2>1, <2>2, <2>3, <2>4, <2>5
<1> QED BY <1>1, <1>3, <1>4, <1>9 DEF Flows

(* The steps of json_serialize_builtin, one by one.                        *)
LEMMA SerializeBuiltinCode ==
  LET X == Code["json_serialize_builtin"] IN
  /\ DOMAIN X = 1..6
  /\ X[1] = Either(4) /\ X[2] = Make("json") /\ X[3] = Return("json")
  /\ X[4] = Either(6) /\ X[5] = Return("none") /\ X[6] = Stop
BY DEF Code, SerializeBuiltin

(* json_serialize_builtin: nothing in it fails.                            *)
LEMMA SerializeBuiltinFlows ==
  ASSUME NEW fr, NEW what, Good(fr, what), fr.fn = "json_serialize_builtin"
  PROVE  Flows(fr, what)
<1>1. /\ fr \in Frames /\ fr.pc \in 1..6 /\ SerializeBuiltinAt(fr)
      /\ fr.old => "hook" \in what
  <2>1. /\ fr \in Frames /\ fr.pc \in DOMAIN Code[fr.fn] /\ Table(fr)
        /\ fr.old => "hook" \in what
    BY DEF Good, At, Hooked
  <2> QED BY <2>1, SerializeBuiltinCode DEF Table
<1>2. /\ MaxTurns \in Nat /\ MaxTurns >= 1
      /\ fr.turns \in Nat /\ fr.turns <= MaxTurns
      /\ fr.err \in BOOLEAN /\ \A x \in Kinds : fr.refs[x] \in Nat
  BY <1>1, FrameFacts
<1> USE DEF SerializeBuiltinAt, Held, HeldUnless, Has, OnlyOf,
           ErrAt, LoopAt, Kinds
<1>3. ASSUME NEW g \in Shape, Moves(fr, g, what)
      PROVE  SerializeBuiltinAt(g) /\ g.pc \in 1..6 /\ g.turns <= MaxTurns
  <2> HIDE DEF SerializeBuiltinAt
  <2>1. /\ fr.pc = 1 => EitherMoves(fr, g, 4)
        /\ fr.pc = 2 => AskMoves(fr, g, "json")
        /\ fr.pc = 4 => EitherMoves(fr, g, 6)
        /\ fr.pc \notin {3, 5, 6}
    BY <1>1, <1>3, SerializeBuiltinCode, EitherIs, MakeIs, ReturnIs, StopIs
  <2> USE DEF SerializeBuiltinAt, AskMoves, EitherMoves, Goes, Keeps, OneMore
  <2>2. CASE fr.pc \in 1..6
    BY <1>1, <1>2, <1>3, <2>1, <2>2
  <2> QED BY <1>1, <2>2
<1>4. ASSUME NEW g \in Shape, g.fn = fr.fn, g.old <=> fr.old,
             SerializeBuiltinAt(g),
             g.pc \in 1..6, g.turns <= MaxTurns
      PROVE  Good(g, what)
  <2>1. g.turns \in Nat /\ \A x \in Kinds : g.refs[x] \in Nat
    BY <1>4 DEF Shape
  <2>2. \A x \in Kinds : g.refs[x] <= MaxTurns + 2
    BY <1>2, <1>4, <2>1
  <2> QED BY <1>1, <1>4, <2>2, ShapeFrame, SerializeBuiltinCode
          DEF Good, At, Hooked, Table, Tails, Serializers, Deserializers
<1>5. /\ fr.pc = 3 => Ending(fr, "json", what)
      /\ fr.pc = 5 => Ending(fr, "none", what)
  <2>1. fr.pc \in {3, 5} => ~fr.err
    BY <1>1
  <2>2. /\ fr.pc = 3 => HasOnly(fr, "json")
        /\ fr.pc = 5 => HasOnly(fr, "none")
    BY <1>1, <1>2 DEF HasOnly
  <2> HIDE DEF SerializeBuiltinAt
  <2> QED BY <1>1, <2>1, <2>2, EndsClean, ResultOf DEF Sure, Serializers
<1>6. Outs(fr, what)
  <2> HIDE DEF SerializeBuiltinAt
  <2>1. CASE fr.pc \in {1, 2, 4}
    BY <1>1, <2>1, SerializeBuiltinCode, EitherOut, MakeOut
  <2>2. CASE fr.pc \in {3, 5}
    BY <1>1, <1>5, <2>2, SerializeBuiltinCode, ReturnOut
  <2>3. CASE fr.pc = 6
    BY <1>1, <2>3, SerializeBuiltinCode, StopOut DEF KnownFaults
  <2> QED BY <1>1, <2>1, <2>2, <2>3
<1> QED BY <1>1, <1>3, <1>4, <1>6 DEF Flows

(* The steps of json_serialize_aggregate, one by one.                      *)
LEMMA SerializeAggregateCode ==
  LET X == Code["json_serialize_aggregate"] IN
  /\ DOMAIN X = 1..5
  /\ X[1] = Either(3)
  /\ X[2] = Tail_({"json_serialize_struct", "json_serialize_enum"})
  /\ X[3] = Either(5) /\ X[4] = Return("none") /\ X[5] = Stop
BY DEF Code, SerializeAggregate

(* json_serialize_aggregate: a function for the type takes its             *)
(* place.                                                                  *)
LEMMA SerializeAggregateFlows ==
  ASSUME NEW fr, NEW what, Good(fr, what), fr.fn = "json_serialize_aggregate"
  PROVE  Flows(fr, what)
<1>1. /\ fr \in Frames /\ fr.pc \in 1..5 /\ SerializeAggregateAt(fr)
      /\ fr.old => "hook" \in what
  <2>1. /\ fr \in Frames /\ fr.pc \in DOMAIN Code[fr.fn] /\ Table(fr)
        /\ fr.old => "hook" \in what
    BY DEF Good, At, Hooked
  <2> QED BY <2>1, SerializeAggregateCode DEF Table
<1>2. /\ MaxTurns \in Nat /\ MaxTurns >= 1
      /\ fr.turns \in Nat /\ fr.turns <= MaxTurns
      /\ fr.err \in BOOLEAN /\ \A x \in Kinds : fr.refs[x] \in Nat
  BY <1>1, FrameFacts
<1> USE DEF SerializeAggregateAt, OnlyOf, Kinds
<1>3. ASSUME NEW g \in Shape, Moves(fr, g, what)
      PROVE  SerializeAggregateAt(g) /\ g.pc \in 1..5 /\ g.turns <= MaxTurns
  <2> HIDE DEF SerializeAggregateAt
  <2>1. /\ fr.pc = 1 => EitherMoves(fr, g, 3)
        /\ fr.pc = 3 => EitherMoves(fr, g, 5)
        /\ fr.pc \notin {2, 4, 5}
    BY <1>1, <1>3, SerializeAggregateCode, EitherIs, TailIs, ReturnIs, StopIs
  <2> USE DEF SerializeAggregateAt, EitherMoves, Goes, Keeps
  <2> QED BY <1>1, <1>2, <1>3, <2>1
<1>4. ASSUME NEW g \in Shape, g.fn = fr.fn, g.old <=> fr.old,
             SerializeAggregateAt(g),
             g.pc \in 1..5, g.turns <= MaxTurns
      PROVE  Good(g, what)
  <2>1. g.turns \in Nat /\ \A x \in Kinds : g.refs[x] \in Nat
    BY <1>4 DEF Shape
  <2>2. \A x \in Kinds : g.refs[x] <= MaxTurns + 2
    BY <1>2, <1>4, <2>1
  <2> QED BY <1>1, <1>4, <2>2, ShapeFrame, SerializeAggregateCode
          DEF Good, At, Hooked, Table, Tails, Serializers, Deserializers
<1>5. fr.pc = 4 => Ending(fr, "none", what)
  <2>1. ~fr.err /\ HasOnly(fr, "none")
    BY <1>1 DEF HasOnly
  <2> HIDE DEF SerializeAggregateAt
  <2> QED BY <1>1, <2>1, EndsClean DEF Sure
<1>6. Bad(fr) => "hook" \in what
  BY <1>1 DEF Bad
<1>7. Outs(fr, what)
  <2> HIDE DEF SerializeAggregateAt
  <2>1. CASE fr.pc \in {1, 3}
    BY <1>1, <2>1, SerializeAggregateCode, EitherOut
  <2>2. CASE fr.pc = 2
    BY <1>1, <1>6, <2>2, SerializeAggregateCode, TailOut
       DEF Tails, Alike, Serializers, Deserializers
  <2>3. CASE fr.pc = 4
    BY <1>1, <1>5, <2>3, SerializeAggregateCode, ReturnOut
  <2>4. CASE fr.pc = 5
    BY <1>1, <2>4, SerializeAggregateCode, StopOut DEF KnownFaults
  <2> QED BY <1>1, <2>1, <2>2, <2>3, <2>4
<1> QED BY <1>1, <1>3, <1>4, <1>7 DEF Flows

(* The steps of json_serialize_pointer, one by one.                        *)
LEMMA SerializePointerCode ==
  LET X == Code["json_serialize_pointer"] IN
  /\ DOMAIN X = 1..7
  /\ X[1] = Either(6) /\ X[2] = Ask("type", <<"null">>)
  /\ X[3] = Run({"_json_serialize"}, "json") /\ X[4] = Drop(<<"type">>)
  /\ X[5] = Return("json") /\ X[6] = Make("json") /\ X[7] = Return("json")
BY DEF Code, SerializePointer

(* json_serialize_pointer: the type is dropped whether the pointee could   *)
(* be serialised or not, and a result with an error is a hook's.           *)
LEMMA SerializePointerFlows ==
  ASSUME NEW fr, NEW what, Good(fr, what), fr.fn = "json_serialize_pointer"
  PROVE  Flows(fr, what)
<1>1. /\ fr \in Frames /\ fr.pc \in 1..7 /\ SerializePointerAt(fr)
      /\ fr.old => "hook" \in what
      /\ Hooked(fr, what)
  <2>1. /\ fr \in Frames /\ fr.pc \in DOMAIN Code[fr.fn] /\ Table(fr)
        /\ fr.old => "hook" \in what
        /\ Hooked(fr, what)
    BY DEF Good, At, Hooked
  <2> QED BY <2>1, SerializePointerCode DEF Table
<1>2. /\ MaxTurns \in Nat /\ MaxTurns >= 1
      /\ fr.turns \in Nat /\ fr.turns <= MaxTurns
      /\ fr.err \in BOOLEAN /\ \A x \in Kinds : fr.refs[x] \in Nat
  BY <1>1, FrameFacts
<1> USE DEF SerializePointerAt, Held, HeldUnless, Has, OnlyOf,
           ErrAt, LoopAt, Kinds, Hooked
<1>3. ASSUME NEW g \in Shape, Moves(fr, g, what), g.fn = fr.fn,
             g.old <=> fr.old
      PROVE  SerializePointerAt(g) /\ g.pc \in 1..7 /\ g.turns <= MaxTurns
             /\ Hooked(g, what)
  <2> HIDE DEF SerializePointerAt
  <2>1. /\ fr.pc = 1 => EitherMoves(fr, g, 6)
        /\ fr.pc = 2 => AskMoves(fr, g, "type")
        /\ fr.pc = 3 => RunMoves(fr, g, "_json_serialize", what)
        /\ fr.pc = 4 => Fewer(fr, g, {"type"})
        /\ fr.pc = 6 => AskMoves(fr, g, "json")
        /\ fr.pc \notin {5, 7}
    BY <1>1, <1>3, SerializePointerCode, EitherIs, AskIs, RunIs, DropOne,
       ReturnIs, MakeIs
  <2> USE DEF SerializePointerAt, AskMoves, RunMoves, EitherMoves, Fewer, Goes,
              Keeps, OneMore
  <2>2. CASE fr.pc \in {1, 2, 4}
    BY <1>1, <1>2, <1>3, <2>1, <2>2
  <2>4. CASE fr.pc = 3
    BY <1>1, <1>2, <1>3, <2>1, <2>4, ResultOf, SMTT(30) DEF Sure, Serializers
  <2>3. CASE fr.pc \in 5..7
    BY <1>1, <1>2, <1>3, <2>1, <2>3
  <2> QED BY <1>1, <2>2, <2>3, <2>4
<1>4. ASSUME NEW g \in Shape, g.fn = fr.fn, g.old <=> fr.old,
             SerializePointerAt(g),
             g.pc \in 1..7, g.turns <= MaxTurns, Hooked(g, what)
      PROVE  Good(g, what)
  <2>1. g.turns \in Nat /\ \A x \in Kinds : g.refs[x] \in Nat
    BY <1>4 DEF Shape
  <2>2. \A x \in Kinds : g.refs[x] <= MaxTurns + 2
    BY <1>2, <1>4, <2>1
  <2> QED BY <1>1, <1>4, <2>2, ShapeFrame, SerializePointerCode
          DEF Good, At, Hooked, Table, Tails, Serializers, Deserializers
<1>5. fr.pc = 2 => Ladder(fr, <<"null">>, "failed")
  BY <1>1, LadderKnown DEF KnownFaults
<1>6. fr.pc = 4 => Enough(fr, <<"type">>)
  BY <1>1, <1>2, EnoughOne
<1>7. fr.pc \in {5, 7} => Ending(fr, "json", what)
  <2>1. fr.pc \in {5, 7} /\ Gives(fr, "json") /\ fr.err =>
          \/ "hook" \in what
          \/ fr.fn \in {"json_deserialize_pointer", "json_deserialize"}
    BY <1>1, <1>2 DEF Gives
  <2>2. fr.pc \in {5, 7} => \A x \in Kinds \ {"json"} : fr.refs[x] = 0
    BY <1>1, <1>2
  <2>3. fr.pc \in {5, 7} /\ Gives(fr, "json") =>
          fr.refs["json"] = 1 \/ <<fr.fn, "json">> \in KnownLeaks.done
    BY <1>1, <1>2 DEF Gives
  <2> HIDE DEF SerializePointerAt
  <2> QED BY <1>1, <1>2, <2>1, <2>2, <2>3, EndsFailed, ResultOf
         DEF Sure, Serializers, OwnError
<1>8. {"_json_serialize"} \subseteq Functions
  BY FunctionsAre
<1>9. Outs(fr, what)
  <2> HIDE DEF SerializePointerAt
  <2>1. CASE fr.pc \in {1, 6}
    BY <1>1, <2>1, SerializePointerCode, EitherOut, MakeOut
  <2>2. CASE fr.pc = 2
    BY <1>1, <1>5, <2>2, SerializePointerCode, AskOut
  <2>3. CASE fr.pc = 3
    BY <1>1, <1>8, <2>3, SerializePointerCode, RunOut
  <2>4. CASE fr.pc = 4
    BY <1>1, <1>6, <2>4, SerializePointerCode, DropOut
  <2>5. CASE fr.pc \in {5, 7}
    BY <1>1, <1>7, <2>5, SerializePointerCode, ReturnOut
  <2> QED BY <1>1, <2>1, <2>2, <2>3, <2>4, <2>5
<1> QED BY <1>1, <1>3, <1>4, <1>9 DEF Flows

(* The steps of json_serialize_struct, one by one.                         *)
LEMMA SerializeStructCode ==
  LET X == Code["json_serialize_struct"] IN
  /\ DOMAIN X = 1..12
  /\ X[1] = Make("json") /\ X[2] = Ask("none", <<"json">>) /\ X[3] = Loop(10)
  /\ X[4] = Ask("member", <<"json">>)
  /\ X[5] = Ask("none", <<"member", "json">>)
  /\ X[6] = Run({"json_serialize_struct_member"}, "none")
  /\ X[7] = Check(<<"member", "json">>) /\ X[8] = Drop(<<"member">>)
  /\ X[9] = Back(3) /\ X[10] = Either(12) /\ X[11] = Drop(<<"json">>)
  /\ X[12] = Return("json")
BY DEF Code, SerializeStruct

(* json_serialize_struct: however many members there have been, the        *)
(* ladders drop this one and the object.                                   *)
LEMMA SerializeStructFlows ==
  ASSUME NEW fr, NEW what, Good(fr, what), fr.fn = "json_serialize_struct"
  PROVE  Flows(fr, what)
<1>1. /\ fr \in Frames /\ fr.pc \in 1..12 /\ SerializeStructAt(fr)
      /\ fr.old => "hook" \in what
  <2>1. /\ fr \in Frames /\ fr.pc \in DOMAIN Code[fr.fn] /\ Table(fr)
        /\ fr.old => "hook" \in what
    BY DEF Good, At, Hooked
  <2> QED BY <2>1, SerializeStructCode DEF Table
<1>2. /\ MaxTurns \in Nat /\ MaxTurns >= 1
      /\ fr.turns \in Nat /\ fr.turns <= MaxTurns
      /\ fr.err \in BOOLEAN /\ \A x \in Kinds : fr.refs[x] \in Nat
  BY <1>1, FrameFacts
<1> USE DEF SerializeStructAt, Held, HeldUnless, Has, OnlyOf,
           ErrAt, LoopAt, Kinds
<1>3. ASSUME NEW g \in Shape, Moves(fr, g, what)
      PROVE  SerializeStructAt(g) /\ g.pc \in 1..12 /\ g.turns <= MaxTurns
  <2> HIDE DEF SerializeStructAt
  <2>1. /\ fr.pc = 1 => AskMoves(fr, g, "json")
        /\ fr.pc \in {2, 5} => AskMoves(fr, g, "none")
        /\ fr.pc = 3 => LoopMoves(fr, g, 10)
        /\ fr.pc = 4 => AskMoves(fr, g, "member")
        /\ fr.pc = 6 => RunMoves(fr, g, "json_serialize_struct_member", what)
        /\ fr.pc = 7 => CheckMoves(fr, g)
        /\ fr.pc = 8 => Fewer(fr, g, {"member"})
        /\ fr.pc = 9 => BackMoves(fr, g, 3)
        /\ fr.pc = 10 => EitherMoves(fr, g, 12)
        /\ fr.pc = 11 => Fewer(fr, g, {"json"})
        /\ fr.pc \notin {12}
    BY <1>1, <1>3, SerializeStructCode, MakeIs, AskIs, LoopIs, RunIs, CheckIs,
       DropOne, BackIs, EitherIs, ReturnIs
  <2> USE DEF SerializeStructAt, AskMoves, RunMoves, CheckMoves, EitherMoves,
              LoopMoves, BackMoves, Fewer, Goes, Keeps, OneMore
  <2>2. CASE fr.pc \in 1..4
    BY <1>1, <1>2, <1>3, <2>1, <2>2
  <2>3. CASE fr.pc \in 5..8
    BY <1>1, <1>2, <1>3, <2>1, <2>3, ResultOf DEF Sure
  <2>4. CASE fr.pc \in 9..12
    BY <1>1, <1>2, <1>3, <2>1, <2>4
  <2> QED BY <1>1, <2>2, <2>3, <2>4
<1>4. ASSUME NEW g \in Shape, g.fn = fr.fn, g.old <=> fr.old,
             SerializeStructAt(g),
             g.pc \in 1..12, g.turns <= MaxTurns
      PROVE  Good(g, what)
  <2>1. g.turns \in Nat /\ \A x \in Kinds : g.refs[x] \in Nat
    BY <1>4 DEF Shape
  <2>2. \A x \in Kinds : g.refs[x] <= MaxTurns + 2
    BY <1>2, <1>4, <2>1
  <2> QED BY <1>1, <1>4, <2>2, ShapeFrame, SerializeStructCode
          DEF Good, At, Hooked, Table, Tails, Serializers, Deserializers
<1>5. /\ fr.pc \in {2, 4} => Clears(fr, {"json"}, "failed")
      /\ fr.pc = 5 => Clears(fr, {"member", "json"}, "failed")
      /\ fr.pc = 7 /\ fr.err => Clears(fr, {"member", "json"}, "failed")
  BY <1>1, <1>2 DEF Clears, Kept, Appended, Sure
<1>6. /\ fr.pc \in {2, 4} => Ladder(fr, <<"json">>, "failed")
      /\ fr.pc = 5 => Ladder(fr, <<"member", "json">>, "failed")
      /\ fr.pc = 7 /\ fr.err => Ladder(fr, <<"member", "json">>, "failed")
  BY <1>5, LadderOne, LadderTwo
<1>7. /\ fr.pc = 8 => Enough(fr, <<"member">>)
      /\ fr.pc = 11 => Enough(fr, <<"json">>)
  BY <1>1, <1>2, EnoughOne
<1>8. fr.pc = 12 => Ending(fr, "json", what)
  <2>1. fr.pc = 12 => ~fr.err
    BY <1>1
  <2>2. fr.pc = 12 => HasOnly(fr, "json")
    BY <1>1, <1>2 DEF HasOnly
  <2> HIDE DEF SerializeStructAt
  <2> QED BY <1>1, <2>1, <2>2, EndsClean, ResultOf DEF Sure, Serializers
<1>9. {"json_serialize_struct_member"} \subseteq Functions
  BY FunctionsAre
<1>10. Outs(fr, what)
  <2> HIDE DEF SerializeStructAt
  <2>1. CASE fr.pc \in {1, 3, 9, 10}
    BY <1>1, <2>1, SerializeStructCode, MakeOut, LoopOut, BackOut, EitherOut
  <2>2. CASE fr.pc \in {2, 4, 5}
    BY <1>1, <1>6, <2>2, SerializeStructCode, AskOut
  <2>3. CASE fr.pc = 6
    BY <1>1, <1>9, <2>3, SerializeStructCode, RunOut
  <2>4. CASE fr.pc = 7
    BY <1>1, <1>6, <2>4, SerializeStructCode, CheckOut
  <2>5. CASE fr.pc = 8
    BY <1>1, <1>7, <2>5, SerializeStructCode, DropOut
  <2>6. CASE fr.pc = 11
    BY <1>1, <1>7, <2>6, SerializeStructCode, DropOut
  <2>7. CASE fr.pc = 12
    BY <1>1, <1>8, <2>7, SerializeStructCode, ReturnOut
  <2> QED BY <1>1, <2>1, <2>2, <2>3, <2>4, <2>5, <2>6, <2>7
<1> QED BY <1>1, <1>3, <1>4, <1>10 DEF Flows

(* The steps of json_serialize_struct_member, one by one.                  *)
LEMMA SerializeStructMemberCode ==
  LET X == Code["json_serialize_struct_member"] IN
  /\ DOMAIN X = 1..10
  /\ X[1] = Run({"r_type_member_type"}, "type") /\ X[2] = Check(<<>>)
  /\ X[3] = Run({"_json_serialize"}, "json") /\ X[4] = Check(<<"type">>)
  /\ X[5] = IfNone("json", <<"type">>)
  /\ X[6] = Ask("string", <<"json", "type">>)
  /\ X[7] = Either(10)
  /\ X[8] = Drop(<<"string", "type">>) /\ X[9] = Return("none")
  /\ X[10] = Stop
BY DEF Code, SerializeStructMember

(* json_serialize_struct_member: all it leaves behind is the reference to  *)
(* the JSON of the member, which the object has taken one of its own to.   *)
LEMMA SerializeStructMemberFlows ==
  ASSUME NEW fr, NEW what, Good(fr, what),
         fr.fn = "json_serialize_struct_member"
  PROVE  Flows(fr, what)
<1>1. /\ fr \in Frames /\ fr.pc \in 1..10 /\ SerializeStructMemberAt(fr)
      /\ ~fr.old /\ Hooked(fr, what)
  <2>1. /\ fr \in Frames /\ fr.pc \in DOMAIN Code[fr.fn] /\ Table(fr)
        /\ ~fr.old /\ Hooked(fr, what)
    BY DEF Good, At, Hooked, Tails, Serializers, Deserializers
  <2> QED BY <2>1, SerializeStructMemberCode DEF Table
<1>2. /\ MaxTurns \in Nat /\ MaxTurns >= 1
      /\ fr.turns \in Nat /\ fr.turns <= MaxTurns
      /\ fr.err \in BOOLEAN /\ \A x \in Kinds : fr.refs[x] \in Nat
  BY <1>1, FrameFacts
<1> USE DEF SerializeStructMemberAt, Held, HeldUnless, Has, OnlyOf,
           ErrAt, LoopAt, Kinds, Hooked
<1>3. ASSUME NEW g \in Shape, Moves(fr, g, what), g.fn = fr.fn,
             g.old <=> fr.old
      PROVE  /\ SerializeStructMemberAt(g) /\ g.pc \in 1..10
             /\ g.turns <= MaxTurns /\ Hooked(g, what)
  <2> HIDE DEF SerializeStructMemberAt
  <2>1. /\ fr.pc = 1 => RunMoves(fr, g, "r_type_member_type", what)
        /\ fr.pc \in {2, 4} => CheckMoves(fr, g)
        /\ fr.pc = 3 => RunMoves(fr, g, "_json_serialize", what)
        /\ fr.pc = 5 => NoneMoves(fr, g, "json", 1)
        /\ fr.pc = 6 => AskMoves(fr, g, "string")
        /\ fr.pc = 7 => EitherMoves(fr, g, 10)
        /\ fr.pc = 8 => Fewer(fr, g, {"string", "type"})
        /\ fr.pc \notin {9, 10}
    BY <1>1, <1>3, SerializeStructMemberCode, RunIs, CheckIs, NoneIs, AskIs,
       EitherIs, DropTwo, ReturnIs, StopIs
  <2> USE DEF SerializeStructMemberAt, AskMoves, RunMoves, CheckMoves,
              NoneMoves, EitherMoves, Fewer, Goes, Keeps, OneMore
  <2>2. CASE fr.pc \in 1..4
    BY <1>1, <1>2, <1>3, <2>1, <2>2, ResultOf DEF Sure, Serializers
  <2>3. CASE fr.pc \in 5..10
    BY <1>1, <1>2, <1>3, <2>1, <2>3
  <2> QED BY <1>1, <2>2, <2>3
<1>4. ASSUME NEW g \in Shape, g.fn = fr.fn, g.old <=> fr.old,
             SerializeStructMemberAt(g),
             g.pc \in 1..10, g.turns <= MaxTurns, Hooked(g, what)
      PROVE  Good(g, what)
  <2>1. g.turns \in Nat /\ \A x \in Kinds : g.refs[x] \in Nat
    BY <1>4 DEF Shape
  <2>2. \A x \in Kinds : g.refs[x] <= MaxTurns + 2
    BY <1>2, <1>4, <2>1
  <2> QED BY <1>1, <1>4, <2>2, ShapeFrame, SerializeStructMemberCode
          DEF Good, At, Hooked, Table, Tails, Serializers, Deserializers
<1>5. /\ fr.pc = 2 /\ fr.err => Clears(fr, {}, "failed")
      /\ fr.pc = 4 /\ fr.err => Clears(fr, {"type"}, How(what))
      /\ fr.pc = 5 /\ fr.refs["json"] < 1 => Clears(fr, {"type"}, "failed")
      /\ fr.pc = 5 /\ fr.refs["json"] < 1 => Clears(fr, {"type"}, "done")
      /\ fr.pc = 6 => Clears(fr, {"json", "type"}, "failed")
  BY <1>1, <1>2 DEF Clears, Kept, Appended, How, Leaks, KnownLeaks, Sure
<1>6. /\ fr.pc = 2 /\ fr.err => Ladder(fr, <<>>, "failed")
      /\ fr.pc = 4 /\ fr.err => Ladder(fr, <<"type">>, How(what))
      /\ fr.pc = 5 /\ fr.refs["json"] < 1 => Ladder(fr, <<"type">>, "failed")
      /\ fr.pc = 5 /\ fr.refs["json"] < 1 => Ladder(fr, <<"type">>, "done")
      /\ fr.pc = 6 => Ladder(fr, <<"json", "type">>, "failed")
  BY <1>5, LadderNone, LadderOne, LadderTwo
<1>7. fr.pc = 8 => Enough(fr, <<"string", "type">>)
  BY <1>1, <1>2, EnoughTwo
<1>8. fr.pc = 9 => Ending(fr, "none", what)
  <2>1. fr.pc = 9 => ~fr.err
    BY <1>1
  <2>2. fr.pc = 9 => \A x \in Kinds :
          fr.refs[x] > (IF x = "none" THEN 1 ELSE 0)
            => <<fr.fn, x>> \in KnownLeaks.done
    BY <1>1, <1>2 DEF KnownLeaks
  <2> HIDE DEF SerializeStructMemberAt
  <2> QED BY <1>1, <1>2, <2>1, <2>2, EndsLeaving, ResultOf
        DEF Sure, Serializers
<1>9. {"r_type_member_type", "_json_serialize"} \subseteq Functions
  BY FunctionsAre
<1>10. Outs(fr, what)
  <2> HIDE DEF SerializeStructMemberAt
  <2>1. CASE fr.pc \in {1, 3}
    BY <1>1, <1>9, <2>1, SerializeStructMemberCode, RunOut
  <2>2. CASE fr.pc \in {2, 4}
    BY <1>1, <1>6, <2>2, SerializeStructMemberCode, CheckOut, HowOut
  <2>3. CASE fr.pc = 5
    BY <1>1, <1>6, <2>3, SerializeStructMemberCode, NoneOut
  <2>4. CASE fr.pc = 6
    BY <1>1, <1>6, <2>4, SerializeStructMemberCode, AskOut
  <2>5. CASE fr.pc = 8
    BY <1>1, <1>7, <2>5, SerializeStructMemberCode, DropOut
  <2>6. CASE fr.pc = 9
    BY <1>1, <1>8, <2>6, SerializeStructMemberCode, ReturnOut
  <2>7. CASE fr.pc = 7
    BY <1>1, <2>7, SerializeStructMemberCode, EitherOut
  <2>8. CASE fr.pc = 10
    BY <1>1, <2>8, SerializeStructMemberCode, StopOut DEF KnownFaults
  <2> QED BY <1>1, <2>1, <2>2, <2>3, <2>4, <2>5, <2>6, <2>7, <2>8
<1> QED BY <1>1, <1>3, <1>4, <1>10 DEF Flows

(* The steps of json_serialize_enum, one by one.                           *)
LEMMA SerializeEnumCode ==
  LET X == Code["json_serialize_enum"] IN
  /\ DOMAIN X = 1..17
  /\ X[1] = Ask("none", <<>>) /\ X[2] = Loop(15) /\ X[3] = Ask("member", <<>>)
  /\ X[4] = Run({"r_type_member_type"}, "type") /\ X[5] = Check(<<"member">>)
  /\ X[6] = Either(9) /\ X[7] = Either(15) /\ X[8] = Return("none")
  /\ X[9] = Ask("none", <<"type", "member">>)
  /\ X[10] = Run({"ensure_value_init"}, "none")
  /\ X[11] = Check(<<"type", "member">>) /\ X[12] = Either(16)
  /\ X[13] = Drop(<<"type", "member">>) /\ X[14] = Back(2) /\ X[15] = Stop
  /\ X[16] = Make("json") /\ X[17] = Return("json")
BY DEF Code, SerializeEnum

(* json_serialize_enum: every turn drops its enumerator and type; those of *)
(* the turn that finds it are left behind, which is known.                 *)
LEMMA SerializeEnumFlows ==
  ASSUME NEW fr, NEW what, Good(fr, what), fr.fn = "json_serialize_enum"
  PROVE  Flows(fr, what)
<1>1. /\ fr \in Frames /\ fr.pc \in 1..17 /\ SerializeEnumAt(fr)
      /\ fr.old => "hook" \in what
  <2>1. /\ fr \in Frames /\ fr.pc \in DOMAIN Code[fr.fn] /\ Table(fr)
        /\ fr.old => "hook" \in what
    BY DEF Good, At, Hooked
  <2> QED BY <2>1, SerializeEnumCode DEF Table
<1>2. /\ MaxTurns \in Nat /\ MaxTurns >= 1
      /\ fr.turns \in Nat /\ fr.turns <= MaxTurns
      /\ fr.err \in BOOLEAN /\ \A x \in Kinds : fr.refs[x] \in Nat
  BY <1>1, FrameFacts
<1> USE DEF SerializeEnumAt, Held, HeldUnless, Has, OnlyOf,
           ErrAt, LoopAt, Kinds
<1>3. ASSUME NEW g \in Shape, Moves(fr, g, what)
      PROVE  SerializeEnumAt(g) /\ g.pc \in 1..17 /\ g.turns <= MaxTurns
  <2> HIDE DEF SerializeEnumAt
  <2>1. /\ fr.pc \in {1, 9} => AskMoves(fr, g, "none")
        /\ fr.pc = 2 => LoopMoves(fr, g, 15)
        /\ fr.pc = 3 => AskMoves(fr, g, "member")
        /\ fr.pc = 4 => RunMoves(fr, g, "r_type_member_type", what)
        /\ fr.pc \in {5, 11} => CheckMoves(fr, g)
        /\ fr.pc = 10 => RunMoves(fr, g, "ensure_value_init", what)
        /\ fr.pc \notin {8, 15, 17}
    BY <1>1, <1>3, SerializeEnumCode, AskIs, LoopIs, RunIs, CheckIs, StopIs,
       ReturnIs
  <2>2. /\ fr.pc = 6 => EitherMoves(fr, g, 9)
        /\ fr.pc = 7 => EitherMoves(fr, g, 15)
        /\ fr.pc = 12 => EitherMoves(fr, g, 16)
        /\ fr.pc = 13 => Fewer(fr, g, {"type", "member"})
        /\ fr.pc = 14 => BackMoves(fr, g, 2)
        /\ fr.pc = 16 => AskMoves(fr, g, "json")
    BY <1>1, <1>3, SerializeEnumCode, EitherIs, DropTwo, BackIs, MakeIs
  <2> USE DEF SerializeEnumAt, AskMoves, RunMoves, CheckMoves, EitherMoves,
              LoopMoves, BackMoves, Fewer, Goes, Keeps, OneMore
  <2>3. CASE fr.pc \in 1..4
    BY <1>1, <1>2, <1>3, <2>1, <2>3, ResultOf DEF Sure
  <2>4. CASE fr.pc \in 5..8
    BY <1>1, <1>2, <1>3, <2>1, <2>2, <2>4
  <2>5. CASE fr.pc \in 9..11
    BY <1>1, <1>2, <1>3, <2>1, <2>5, ResultOf DEF Sure
  <2>6. CASE fr.pc \in 12..14
    BY <1>1, <1>2, <1>3, <2>2, <2>6
  <2>7. CASE fr.pc \in 15..17
    BY <1>1, <1>2, <1>3, <2>1, <2>2, <2>7
  <2> QED BY <1>1, <2>3, <2>4, <2>5, <2>6, <2>7
<1>4. ASSUME NEW g \in Shape, g.fn = fr.fn, g.old <=> fr.old,
             SerializeEnumAt(g),
             g.pc \in 1..17, g.turns <= MaxTurns
      PROVE  Good(g, what)
  <2>1. g.turns \in Nat /\ \A x \in Kinds : g.refs[x] \in Nat
    BY <1>4 DEF Shape
  <2>2. \A x \in Kinds : g.refs[x] <= MaxTurns + 2
    BY <1>2, <1>4, <2>1
  <2> QED BY <1>1, <1>4, <2>2, ShapeFrame, SerializeEnumCode
          DEF Good, At, Hooked, Table, Tails, Serializers, Deserializers
<1>5. /\ fr.pc \in {1, 3} => Clears(fr, {}, "failed")
      /\ fr.pc = 5 /\ fr.err => Clears(fr, {"member"}, "failed")
      /\ fr.pc = 9 => Clears(fr, {"type", "member"}, "failed")
      /\ fr.pc = 11 /\ fr.err => Clears(fr, {"type", "member"}, "failed")
  BY <1>1, <1>2 DEF Clears, Kept, Appended, Leaks, KnownLeaks, Sure
<1>6. /\ fr.pc \in {1, 3} => Ladder(fr, <<>>, "failed")
      /\ fr.pc = 5 /\ fr.err => Ladder(fr, <<"member">>, "failed")
      /\ fr.pc = 9 => Ladder(fr, <<"type", "member">>, "failed")
      /\ fr.pc = 11 /\ fr.err => Ladder(fr, <<"type", "member">>, "failed")
  BY <1>5, LadderNone, LadderOne, LadderTwo
<1>7. fr.pc = 13 => Enough(fr, <<"type", "member">>)
  <2>1. fr.pc = 13 =>
          fr.refs["type"] >= 1 /\ fr.refs["member"] >= 1
    BY <1>1, <1>2
  <2> HIDE DEF SerializeEnumAt
  <2> QED BY <2>1, EnoughTwo
<1>8. fr.pc = 17 => Ending(fr, "json", what)
  <2>1. fr.pc = 17 => ~fr.err
    BY <1>1
  <2>2. fr.pc = 17 => \A x \in Kinds :
          fr.refs[x] > (IF x = "json" THEN 1 ELSE 0)
            => <<fr.fn, x>> \in KnownLeaks.done
    BY <1>1, <1>2 DEF KnownLeaks
  <2>3. fr.pc = 17 => Gives(fr, "json")
    BY <1>1, <1>2 DEF Gives
  <2> HIDE DEF SerializeEnumAt
  <2> QED BY <1>1, <1>2, <2>1, <2>2, <2>3, EndsLeaving, ResultOf
        DEF Sure, Serializers
<1>9. {"r_type_member_type", "ensure_value_init"} \subseteq Functions
  BY FunctionsAre
<1>10. fr.pc = 8 => Ending(fr, "none", what)
  <2>1. fr.pc = 8 => \A x \in Kinds :
          fr.refs[x] > Kept(fr, x) => x \in {"type", "member"}
    BY <1>1, <1>2 DEF Kept, Appended
  <2>2. fr.pc = 8 => ~fr.err
    BY <1>1
  <2> HIDE DEF SerializeEnumAt
  <2>3. {<<fr.fn, "type">>, <<fr.fn, "member">>}
          \subseteq KnownLeaks.done \cap KnownLeaks.hooked
    BY DEF KnownLeaks
  <2>4. fr.fn \notin Sure
    BY DEF Sure
  <2> QED BY <1>1, <2>1, <2>2, <2>3, <2>4 DEF Ending, Gives, Bad, How, Leaks
<1>11. Outs(fr, what)
  <2> HIDE DEF SerializeEnumAt
  <2>1. CASE fr.pc \in {1, 3, 9}
    BY <1>1, <1>6, <2>1, SerializeEnumCode, AskOut
  <2>2. CASE fr.pc \in {2, 6, 7, 12, 14, 16}
    BY <1>1, <2>2, SerializeEnumCode, LoopOut, EitherOut, BackOut, MakeOut
  <2>3. CASE fr.pc \in {4, 10}
    BY <1>1, <1>9, <2>3, SerializeEnumCode, RunOut
  <2>4. CASE fr.pc \in {5, 11}
    BY <1>1, <1>6, <2>4, SerializeEnumCode, CheckOut
  <2>5. CASE fr.pc = 13
    BY <1>1, <1>7, <2>5, SerializeEnumCode, DropOut
  <2>6. CASE fr.pc = 15
    BY <1>1, <2>6, SerializeEnumCode, StopOut DEF KnownFaults
  <2>7. CASE fr.pc = 17
    BY <1>1, <1>8, <2>7, SerializeEnumCode, ReturnOut
  <2>8. CASE fr.pc = 8
    BY <1>1, <1>10, <2>8, SerializeEnumCode, ReturnOut
  <2> QED BY <1>1, <2>1, <2>2, <2>3, <2>4, <2>5, <2>6, <2>7, <2>8
<1> QED BY <1>1, <1>3, <1>4, <1>11 DEF Flows

(* The steps of json_serialize_array, one by one.                          *)
LEMMA SerializeArrayCode ==
  LET X == Code["json_serialize_array"] IN
  /\ DOMAIN X = 1..12
  /\ X[1] = Ask("none", <<>>) /\ X[2] = Make("json") /\ X[3] = Loop(12)
  /\ X[4] = Ask("member", <<"json">>)
  /\ X[5] = Run({"r_type_member_type"}, "type")
  /\ X[6] = Check(<<"member", "json">>)
  /\ X[7] = Ask("none", <<"type", "member", "json">>)
  /\ X[8] = Run({"_json_serialize"}, "json")
  /\ X[9] = Check(<<"type", "member", "json">>)
  /\ X[10] = Drop(<<"type", "member">>) /\ X[11] = Back(3)
  /\ X[12] = Return("json")
BY DEF Code, SerializeArray

(* json_serialize_array: the JSON it may leave behind is that of the       *)
(* elements, one for each turn: turns + 1 is what it has at most.          *)
LEMMA SerializeArrayFlows ==
  ASSUME NEW fr, NEW what, Good(fr, what), fr.fn = "json_serialize_array"
  PROVE  Flows(fr, what)
<1>1. /\ fr \in Frames /\ fr.pc \in 1..12 /\ SerializeArrayAt(fr)
      /\ fr.old => "hook" \in what
      /\ Hooked(fr, what)
  <2>1. /\ fr \in Frames /\ fr.pc \in DOMAIN Code[fr.fn] /\ Table(fr)
        /\ fr.old => "hook" \in what
        /\ Hooked(fr, what)
    BY DEF Good, At, Hooked
  <2> QED BY <2>1, SerializeArrayCode DEF Table
<1>2. /\ MaxTurns \in Nat /\ MaxTurns >= 1
      /\ fr.turns \in Nat /\ fr.turns <= MaxTurns
      /\ fr.err \in BOOLEAN /\ \A x \in Kinds : fr.refs[x] \in Nat
  BY <1>1, FrameFacts
<1> USE DEF SerializeArrayAt, Held, HeldUnless, Has, OnlyOf,
           ErrAt, LoopAt, Kinds, Hooked
<1>3. ASSUME NEW g \in Shape, Moves(fr, g, what), g.fn = fr.fn,
             g.old <=> fr.old
      PROVE  /\ SerializeArrayAt(g) /\ g.pc \in 1..12
             /\ g.turns <= MaxTurns /\ Hooked(g, what)
  <2> HIDE DEF SerializeArrayAt
  <2>1. /\ fr.pc \in {1, 7} => AskMoves(fr, g, "none")
        /\ fr.pc = 2 => AskMoves(fr, g, "json")
        /\ fr.pc = 3 => LoopMoves(fr, g, 12)
        /\ fr.pc = 4 => AskMoves(fr, g, "member")
        /\ fr.pc = 5 => RunMoves(fr, g, "r_type_member_type", what)
        /\ fr.pc \in {6, 9} => CheckMoves(fr, g)
        /\ fr.pc = 8 => RunMoves(fr, g, "_json_serialize", what)
        /\ fr.pc = 10 => Fewer(fr, g, {"type", "member"})
        /\ fr.pc = 11 => BackMoves(fr, g, 3)
        /\ fr.pc \notin {12}
    BY <1>1, <1>3, SerializeArrayCode, AskIs, MakeIs, LoopIs, RunIs, CheckIs,
       DropTwo, BackIs, ReturnIs
  <2> USE DEF SerializeArrayAt, AskMoves, RunMoves, CheckMoves, LoopMoves,
              BackMoves, Fewer, Goes, Keeps, OneMore
  <2>2. CASE fr.pc \in 1..4
    BY <1>1, <1>2, <1>3, <2>1, <2>2
  <2>3. CASE fr.pc \in 5..8
    BY <1>1, <1>2, <1>3, <2>1, <2>3, ResultOf DEF Sure, Serializers
  <2>4. CASE fr.pc \in 9..12
    BY <1>1, <1>2, <1>3, <2>1, <2>4
  <2> QED BY <1>1, <2>2, <2>3, <2>4
<1>4. ASSUME NEW g \in Shape, g.fn = fr.fn, g.old <=> fr.old,
             SerializeArrayAt(g),
             g.pc \in 1..12, g.turns <= MaxTurns, Hooked(g, what)
      PROVE  Good(g, what)
  <2>1. g.turns \in Nat /\ \A x \in Kinds : g.refs[x] \in Nat
    BY <1>4 DEF Shape
  <2>2. \A x \in Kinds : g.refs[x] <= MaxTurns + 2
    BY <1>2, <1>4, <2>1
  <2> QED BY <1>1, <1>4, <2>2, ShapeFrame, SerializeArrayCode
          DEF Good, At, Hooked, Table, Tails, Serializers, Deserializers
<1>5. /\ fr.pc = 1 => Clears(fr, {}, "failed")
      /\ fr.pc = 4 => Clears(fr, {"json"}, "failed")
      /\ fr.pc = 6 /\ fr.err => Clears(fr, {"member", "json"}, "failed")
      /\ fr.pc = 7 => Clears(fr, {"type", "member", "json"}, "failed")
      /\ fr.pc = 9 /\ fr.err =>
          Clears(fr, {"type", "member", "json"}, How(what))
  BY <1>1, <1>2 DEF Clears, Kept, Appended, How, Leaks, KnownLeaks, Sure
<1>6. /\ fr.pc = 1 => Ladder(fr, <<>>, "failed")
      /\ fr.pc = 4 => Ladder(fr, <<"json">>, "failed")
      /\ fr.pc = 6 /\ fr.err => Ladder(fr, <<"member", "json">>, "failed")
      /\ fr.pc = 7 => Ladder(fr, <<"type", "member", "json">>, "failed")
      /\ fr.pc = 9 /\ fr.err =>
          Ladder(fr, <<"type", "member", "json">>, How(what))
  BY <1>5, LadderNone, LadderOne, LadderTwo, LadderThree
<1>7. fr.pc = 10 => Enough(fr, <<"type", "member">>)
  BY <1>1, <1>2, EnoughTwo
<1>8. fr.pc = 12 => Ending(fr, "json", what)
  <2>1. fr.pc = 12 => ~fr.err
    BY <1>1
  <2>2. fr.pc = 12 => \A x \in Kinds :
          fr.refs[x] > (IF x = "json" THEN 1 ELSE 0) + Kept(fr, x)
            => <<fr.fn, x>> \in KnownLeaks.done
    BY <1>1, <1>2 DEF Kept, Appended
  <2>3. fr.pc = 12 => Gives(fr, "json")
    BY <1>1, <1>2 DEF Gives
  <2> HIDE DEF SerializeArrayAt
  <2> QED BY <1>1, <1>2, <2>1, <2>2, <2>3, EndsKeeping, ResultOf
        DEF Sure, Serializers
<1>9. {"r_type_member_type", "_json_serialize"} \subseteq Functions
  BY FunctionsAre
<1>10. Outs(fr, what)
  <2> HIDE DEF SerializeArrayAt
  <2>1. CASE fr.pc \in {1, 4, 7}
    BY <1>1, <1>6, <2>1, SerializeArrayCode, AskOut
  <2>2. CASE fr.pc \in {2, 3, 11}
    BY <1>1, <2>2, SerializeArrayCode, MakeOut, LoopOut, BackOut
  <2>3. CASE fr.pc \in {5, 8}
    BY <1>1, <1>9, <2>3, SerializeArrayCode, RunOut, SMTT(30)
  <2>4. CASE fr.pc \in {6, 9}
    BY <1>1, <1>6, <2>4, SerializeArrayCode, CheckOut, HowOut
  <2>5. CASE fr.pc = 10
    BY <1>1, <1>7, <2>5, SerializeArrayCode, DropOut
  <2>6. CASE fr.pc = 12
    BY <1>1, <1>8, <2>6, SerializeArrayCode, ReturnOut
  <2> QED BY <1>1, <2>1, <2>2, <2>3, <2>4, <2>5, <2>6
<1> QED BY <1>1, <1>3, <1>4, <1>10 DEF Flows

(* The steps of json_deserialize, one by one.                              *)
LEMMA DeserializeCode ==
  LET X == Code["json_deserialize"] IN
  /\ DOMAIN X = 1..7
  /\ X[1] = Make("state")
  /\ X[2] = Run({"ruminate_get_types_by_name"}, "types")
  /\ X[3] = IfNone("types", <<"state">>) /\ X[4] = Ask("none", <<"null">>)
  /\ X[5] = Run({"_json_deserialize"}, "memory")
  /\ X[6] = Drop(<<"types", "state">>) /\ X[7] = Return("memory")
BY DEF Code, Deserialize

(* json_deserialize: types and state are there at every drop, and a result *)
(* with an error is that of a pointer.                                     *)
LEMMA DeserializeFlows ==
  ASSUME NEW fr, NEW what, Good(fr, what), fr.fn = "json_deserialize"
  PROVE  Flows(fr, what)
<1>1. /\ fr \in Frames /\ fr.pc \in 1..7 /\ DeserializeAt(fr)
      /\ ~fr.old
  <2>1. /\ fr \in Frames /\ fr.pc \in DOMAIN Code[fr.fn] /\ Table(fr)
        /\ ~fr.old
    BY DEF Good, At, Hooked, Tails, Serializers, Deserializers
  <2> QED BY <2>1, DeserializeCode DEF Table
<1>2. /\ MaxTurns \in Nat /\ MaxTurns >= 1
      /\ fr.turns \in Nat /\ fr.turns <= MaxTurns
      /\ fr.err \in BOOLEAN /\ \A x \in Kinds : fr.refs[x] \in Nat
  BY <1>1, FrameFacts
<1> USE DEF DeserializeAt, Held, HeldUnless, Has, OnlyOf,
           ErrAt, LoopAt, Kinds
<1>3. ASSUME NEW g \in Shape, Moves(fr, g, what)
      PROVE  DeserializeAt(g) /\ g.pc \in 1..7 /\ g.turns <= MaxTurns
  <2> HIDE DEF DeserializeAt
  <2>1. /\ fr.pc = 1 => AskMoves(fr, g, "state")
        /\ fr.pc = 2 => RunMoves(fr, g, "ruminate_get_types_by_name", what)
        /\ fr.pc = 3 => NoneMoves(fr, g, "types", 1)
        /\ fr.pc = 4 => AskMoves(fr, g, "none")
        /\ fr.pc = 5 => RunMoves(fr, g, "_json_deserialize", what)
        /\ fr.pc = 6 => Fewer(fr, g, {"types", "state"})
        /\ fr.pc \notin {7}
    BY <1>1, <1>3, DeserializeCode, MakeIs, RunIs, NoneIs, AskIs, DropTwo,
       ReturnIs
  <2> USE DEF DeserializeAt, AskMoves, RunMoves, NoneMoves, Fewer, Goes, Keeps,
              OneMore
  <2>2. CASE fr.pc \in 1..2
    BY <1>1, <1>2, <1>3, <2>1, <2>2, ResultOf
       DEF Sure, Serializers, Deserializers
  <2>3. CASE fr.pc \in 3..4
    BY <1>1, <1>2, <1>3, <2>1, <2>3
  <2>4. CASE fr.pc \in 5..6
    BY <1>1, <1>2, <1>3, <2>1, <2>4, ResultOf
       DEF Sure, Serializers, Deserializers
  <2>5. CASE fr.pc = 7
    BY <1>1, <1>2, <1>3, <2>1, <2>5
  <2> QED BY <1>1, <2>2, <2>3, <2>4, <2>5
<1>4. ASSUME NEW g \in Shape, g.fn = fr.fn, g.old <=> fr.old, DeserializeAt(g),
             g.pc \in 1..7, g.turns <= MaxTurns
      PROVE  Good(g, what)
  <2>1. g.turns \in Nat /\ \A x \in Kinds : g.refs[x] \in Nat
    BY <1>4 DEF Shape
  <2>2. \A x \in Kinds : g.refs[x] <= MaxTurns + 2
    BY <1>2, <1>4, <2>1
  <2> QED BY <1>1, <1>4, <2>2, ShapeFrame, DeserializeCode
          DEF Good, At, Hooked, Table, Tails, Serializers, Deserializers
<1>5. /\ fr.pc = 3 /\ fr.refs["types"] < 1 => Clears(fr, {"state"}, "failed")
      /\ fr.pc = 3 /\ fr.refs["types"] < 1 => Clears(fr, {"state"}, "done")
  BY <1>1, <1>2 DEF Clears, Kept, Appended, Sure
<1>6. /\ fr.pc = 3 /\ fr.refs["types"] < 1 => Ladder(fr, <<"state">>, "failed")
      /\ fr.pc = 3 /\ fr.refs["types"] < 1 => Ladder(fr, <<"state">>, "done")
      /\ fr.pc = 4 => Ladder(fr, <<"null">>, "failed")
  BY <1>1, <1>5, LadderOne, LadderKnown DEF KnownFaults
<1>7. fr.pc = 6 => Enough(fr, <<"types", "state">>)
  BY <1>1, <1>2, EnoughTwo
<1>8. fr.pc = 7 => Ending(fr, "memory", what)
  <2>1. fr.pc = 7 /\ Gives(fr, "memory") /\ fr.err =>
          \/ "hook" \in what
          \/ fr.fn \in {"json_deserialize_pointer", "json_deserialize"}
    BY <1>1, <1>2 DEF Gives
  <2>2. fr.pc = 7 => \A x \in Kinds \ {"memory"} : fr.refs[x] = 0
    BY <1>1, <1>2
  <2>3. fr.pc = 7 /\ Gives(fr, "memory") =>
          fr.refs["memory"] = 1 \/ <<fr.fn, "memory">> \in KnownLeaks.done
    BY <1>1, <1>2 DEF Gives
  <2> HIDE DEF DeserializeAt
  <2> QED BY <1>1, <1>2, <2>1, <2>2, <2>3, EndsFailed, ResultOf
         DEF Sure, Deserializers, OwnError
<1>9. {"ruminate_get_types_by_name", "_json_deserialize"} \subseteq Functions
  BY FunctionsAre
<1>10. Outs(fr, what)
  <2> HIDE DEF DeserializeAt
  <2>1. CASE fr.pc = 1
    BY <1>1, <2>1, DeserializeCode, MakeOut
  <2>2. CASE fr.pc \in {2, 5}
    BY <1>1, <1>9, <2>2, DeserializeCode, RunOut
  <2>3. CASE fr.pc = 3
    BY <1>1, <1>6, <2>3, DeserializeCode, NoneOut
  <2>4. CASE fr.pc = 4
    BY <1>1, <1>6, <2>4, DeserializeCode, AskOut
  <2>5. CASE fr.pc = 6
    BY <1>1, <1>7, <2>5, DeserializeCode, DropOut
  <2>6. CASE fr.pc = 7
    BY <1>1, <1>8, <2>6, DeserializeCode, ReturnOut
  <2> QED BY <1>1, <2>1, <2>2, <2>3, <2>4, <2>5, <2>6
<1> QED BY <1>1, <1>3, <1>4, <1>10 DEF Flows

(* The steps of _json_deserialize, one by one.                             *)
LEMMA DeserializeAnyCode ==
  LET X == Code["_json_deserialize"] IN
  /\ DOMAIN X = 1..12
  /\ X[1] = Either(3) /\ X[2] = Return("none")
  /\ X[3] = Ask("string", <<"null">>) /\ X[4] = Drop(<<"string">>)
  /\ X[5] = Either(8) /\ X[6] = Ask("memory", <<>>) /\ X[7] = Return("memory")
  /\ X[8] = Either(10) /\ X[9] = Return("none") /\ X[10] = Either(12)
  /\ X[11] = Stop
  /\ X[12] = Tail_({"json_deserialize_builtin", "json_deserialize_pointer",
                    "json_deserialize_aggregate", "json_deserialize_array"})
BY DEF Code, DeserializeAny

(* _json_deserialize: it has nothing, and no error, when the function for  *)
(* the type takes its place.                                               *)
LEMMA DeserializeAnyFlows ==
  ASSUME NEW fr, NEW what, Good(fr, what), fr.fn = "_json_deserialize"
  PROVE  Flows(fr, what)
<1>1. /\ fr \in Frames /\ fr.pc \in 1..12 /\ DeserializeAnyAt(fr)
      /\ ~fr.old
  <2>1. /\ fr \in Frames /\ fr.pc \in DOMAIN Code[fr.fn] /\ Table(fr)
        /\ ~fr.old
    BY DEF Good, At, Hooked, Tails, Serializers, Deserializers
  <2> QED BY <2>1, DeserializeAnyCode DEF Table
<1>2. /\ MaxTurns \in Nat /\ MaxTurns >= 1
      /\ fr.turns \in Nat /\ fr.turns <= MaxTurns
      /\ fr.err \in BOOLEAN /\ \A x \in Kinds : fr.refs[x] \in Nat
  BY <1>1, FrameFacts
<1> USE DEF DeserializeAnyAt, Held, HeldUnless, Has, OnlyOf,
           ErrAt, LoopAt, Kinds
<1>3. ASSUME NEW g \in Shape, Moves(fr, g, what)
      PROVE  DeserializeAnyAt(g) /\ g.pc \in 1..12 /\ g.turns <= MaxTurns
  <2> HIDE DEF DeserializeAnyAt
  <2>1. /\ fr.pc = 1 => EitherMoves(fr, g, 3)
        /\ fr.pc = 3 => AskMoves(fr, g, "string")
        /\ fr.pc = 4 => Fewer(fr, g, {"string"})
        /\ fr.pc = 5 => EitherMoves(fr, g, 8)
        /\ fr.pc = 6 => AskMoves(fr, g, "memory")
        /\ fr.pc = 8 => EitherMoves(fr, g, 10)
        /\ fr.pc = 10 => EitherMoves(fr, g, 12)
        /\ fr.pc \notin {2, 7, 9, 11, 12}
    BY <1>1, <1>3, DeserializeAnyCode, EitherIs, ReturnIs, AskIs, DropOne,
       StopIs, TailIs
  <2> USE DEF DeserializeAnyAt, AskMoves, EitherMoves, Fewer, Goes, Keeps,
              OneMore
  <2>2. CASE fr.pc \in 1..4
    BY <1>1, <1>2, <1>3, <2>1, <2>2
  <2>3. CASE fr.pc \in 5..8
    BY <1>1, <1>2, <1>3, <2>1, <2>3
  <2>4. CASE fr.pc \in 9..12
    BY <1>1, <1>2, <1>3, <2>1, <2>4
  <2> QED BY <1>1, <2>2, <2>3, <2>4
<1>4. ASSUME NEW g \in Shape, g.fn = fr.fn, g.old <=> fr.old,
             DeserializeAnyAt(g),
             g.pc \in 1..12, g.turns <= MaxTurns
      PROVE  Good(g, what)
  <2>1. g.turns \in Nat /\ \A x \in Kinds : g.refs[x] \in Nat
    BY <1>4 DEF Shape
  <2>2. \A x \in Kinds : g.refs[x] <= MaxTurns + 2
    BY <1>2, <1>4, <2>1
  <2> QED BY <1>1, <1>4, <2>2, ShapeFrame, DeserializeAnyCode
          DEF Good, At, Hooked, Table, Tails, Serializers, Deserializers
<1>5. fr.pc = 6 => Clears(fr, {}, "failed")
  BY <1>1, <1>2 DEF Clears, Kept, Appended, Sure
<1>6. /\ fr.pc = 3 => Ladder(fr, <<"null">>, "failed")
      /\ fr.pc = 6 => Ladder(fr, <<>>, "failed")
  BY <1>1, <1>5, LadderKnown, LadderNone DEF KnownFaults
<1>7. fr.pc = 4 => Enough(fr, <<"string">>)
  BY <1>1, <1>2, EnoughOne
<1>8. /\ fr.pc \in {2, 9} => Ending(fr, "none", what)
      /\ fr.pc = 7 => Ending(fr, "memory", what)
  <2>1. fr.pc \in {2, 7, 9} => ~fr.err
    BY <1>1
  <2>2. /\ fr.pc \in {2, 9} => HasOnly(fr, "none")
        /\ fr.pc = 7 => HasOnly(fr, "memory")
    BY <1>1, <1>2 DEF HasOnly
  <2> HIDE DEF DeserializeAnyAt
  <2> QED BY <1>1, <2>1, <2>2, EndsClean, ResultOf DEF Sure, Deserializers
<1>9. fr.pc = 12 => (Bad(fr) => "hook" \in what)
  BY <1>1 DEF Bad
<1>10. Outs(fr, what)
  <2> HIDE DEF DeserializeAnyAt
  <2>1. CASE fr.pc \in {1, 5, 8, 10}
    BY <1>1, <2>1, DeserializeAnyCode, EitherOut
  <2>2. CASE fr.pc \in {2, 7, 9}
    BY <1>1, <1>8, <2>2, DeserializeAnyCode, ReturnOut
  <2>3. CASE fr.pc \in {3, 6}
    BY <1>1, <1>6, <2>3, DeserializeAnyCode, AskOut
  <2>4. CASE fr.pc = 4
    BY <1>1, <1>7, <2>4, DeserializeAnyCode, DropOut
  <2>5. CASE fr.pc = 11
    BY <1>1, <2>5, DeserializeAnyCode, StopOut DEF KnownFaults
  <2>6. CASE fr.pc = 12
    BY <1>1, <1>9, <2>6, DeserializeAnyCode, TailOut
       DEF Tails, Alike, Serializers, Deserializers
  <2> QED BY <1>1, <2>1, <2>2, <2>3, <2>4, <2>5, <2>6
<1> QED BY <1>1, <1>3, <1>4, <1>10 DEF Flows

(* The steps of json_deserialize_builtin, one by one.                      *)
LEMMA DeserializeBuiltinCode ==
  LET X == Code["json_deserialize_builtin"] IN
  /\ DOMAIN X = 1..4
  /\ X[1] = Either(4) /\ X[2] = Run({"_r_mem_malloc_sized"}, "memory")
  /\ X[3] = Return("memory") /\ X[4] = Stop
BY DEF Code, DeserializeBuiltin

(* json_deserialize_builtin: the memory is there unless the error is.      *)
LEMMA DeserializeBuiltinFlows ==
  ASSUME NEW fr, NEW what, Good(fr, what), fr.fn = "json_deserialize_builtin"
  PROVE  Flows(fr, what)
<1>1. /\ fr \in Frames /\ fr.pc \in 1..4 /\ DeserializeBuiltinAt(fr)
      /\ fr.old => "hook" \in what
  <2>1. /\ fr \in Frames /\ fr.pc \in DOMAIN Code[fr.fn] /\ Table(fr)
        /\ fr.old => "hook" \in what
    BY DEF Good, At, Hooked
  <2> QED BY <2>1, DeserializeBuiltinCode DEF Table
<1>2. /\ MaxTurns \in Nat /\ MaxTurns >= 1
      /\ fr.turns \in Nat /\ fr.turns <= MaxTurns
      /\ fr.err \in BOOLEAN /\ \A x \in Kinds : fr.refs[x] \in Nat
  BY <1>1, FrameFacts
<1> USE DEF DeserializeBuiltinAt, Held, HeldUnless, Has, OnlyOf,
           ErrAt, LoopAt, Kinds
<1>3. ASSUME NEW g \in Shape, Moves(fr, g, what)
      PROVE  DeserializeBuiltinAt(g) /\ g.pc \in 1..4 /\ g.turns <= MaxTurns
  <2> HIDE DEF DeserializeBuiltinAt
  <2>1. /\ fr.pc = 1 => EitherMoves(fr, g, 4)
        /\ fr.pc = 2 => RunMoves(fr, g, "_r_mem_malloc_sized", what)
        /\ fr.pc \notin {3, 4}
    BY <1>1, <1>3, DeserializeBuiltinCode, EitherIs, RunIs, ReturnIs, StopIs
  <2> USE DEF DeserializeBuiltinAt, EitherMoves, RunMoves, Goes, Keeps, OneMore
  <2>2. CASE fr.pc \in 1..4
    BY <1>1, <1>2, <1>3, <2>1, <2>2, ResultOf DEF Sure
  <2> QED BY <1>1, <2>2
<1>4. ASSUME NEW g \in Shape, g.fn = fr.fn, g.old <=> fr.old,
             DeserializeBuiltinAt(g),
             g.pc \in 1..4, g.turns <= MaxTurns
      PROVE  Good(g, what)
  <2>1. g.turns \in Nat /\ \A x \in Kinds : g.refs[x] \in Nat
    BY <1>4 DEF Shape
  <2>2. \A x \in Kinds : g.refs[x] <= MaxTurns + 2
    BY <1>2, <1>4, <2>1
  <2> QED BY <1>1, <1>4, <2>2, ShapeFrame, DeserializeBuiltinCode
          DEF Good, At, Hooked, Table, Tails, Serializers, Deserializers
<1>5. fr.pc = 3 => Ending(fr, "memory", what)
  <2>1. fr.pc = 3 /\ Gives(fr, "memory") /\ fr.err =>
          \/ "hook" \in what
          \/ fr.fn \in {"json_deserialize_pointer", "json_deserialize"}
    BY <1>1, <1>2 DEF Gives
  <2>2. fr.pc = 3 => \A x \in Kinds \ {"memory"} : fr.refs[x] = 0
    BY <1>1, <1>2
  <2>3. fr.pc = 3 /\ Gives(fr, "memory") =>
          fr.refs["memory"] = 1 \/ <<fr.fn, "memory">> \in KnownLeaks.done
    BY <1>1, <1>2 DEF Gives
  <2> HIDE DEF DeserializeBuiltinAt
  <2> QED BY <1>1, <1>2, <2>1, <2>2, <2>3, EndsFailed, ResultOf
         DEF Sure, Deserializers, OwnError
<1>6. {"_r_mem_malloc_sized"} \subseteq Functions
  BY FunctionsAre
<1>7. Outs(fr, what)
  <2> HIDE DEF DeserializeBuiltinAt
  <2>1. CASE fr.pc = 2
    BY <1>1, <1>6, <2>1, DeserializeBuiltinCode, RunOut
  <2>2. CASE fr.pc = 3
    BY <1>1, <1>5, <2>2, DeserializeBuiltinCode, ReturnOut
  <2>3. CASE fr.pc = 1
    BY <1>1, <2>3, DeserializeBuiltinCode, EitherOut
  <2>4. CASE fr.pc = 4
    BY <1>1, <2>4, DeserializeBuiltinCode, StopOut DEF KnownFaults
  <2> QED BY <1>1, <2>1, <2>2, <2>3, <2>4
<1> QED BY <1>1, <1>3, <1>4, <1>7 DEF Flows

(* The steps of json_deserialize_aggregate, one by one.                    *)
LEMMA DeserializeAggregateCode ==
  LET X == Code["json_deserialize_aggregate"] IN
  /\ DOMAIN X = 1..3
  /\ X[1] = Either(3)
  /\ X[2] = Tail_({"json_deserialize_struct", "json_deserialize_enum"})
  /\ X[3] = Stop
BY DEF Code, DeserializeAggregate

(* json_deserialize_aggregate: a function for the type takes its           *)
(* place.                                                                  *)
LEMMA DeserializeAggregateFlows ==
  ASSUME NEW fr, NEW what, Good(fr, what), fr.fn = "json_deserialize_aggregate"
  PROVE  Flows(fr, what)
<1>1. /\ fr \in Frames /\ fr.pc \in 1..3 /\ DeserializeAggregateAt(fr)
      /\ fr.old => "hook" \in what
  <2>1. /\ fr \in Frames /\ fr.pc \in DOMAIN Code[fr.fn] /\ Table(fr)
        /\ fr.old => "hook" \in what
    BY DEF Good, At, Hooked
  <2> QED BY <2>1, DeserializeAggregateCode DEF Table
<1>2. /\ MaxTurns \in Nat /\ MaxTurns >= 1
      /\ fr.turns \in Nat /\ fr.turns <= MaxTurns
      /\ fr.err \in BOOLEAN /\ \A x \in Kinds : fr.refs[x] \in Nat
  BY <1>1, FrameFacts
<1> USE DEF DeserializeAggregateAt, OnlyOf, Kinds
<1>3. ASSUME NEW g \in Shape, Moves(fr, g, what)
      PROVE  DeserializeAggregateAt(g) /\ g.pc \in 1..3 /\ g.turns <= MaxTurns
  <2> HIDE DEF DeserializeAggregateAt
  <2>1. fr.pc = 1 /\ EitherMoves(fr, g, 3)
    BY <1>1, <1>3, DeserializeAggregateCode, EitherIs, TailIs, StopIs
  <2> USE DEF DeserializeAggregateAt, EitherMoves, Goes, Keeps
  <2> QED BY <1>1, <1>2, <1>3, <2>1
<1>4. ASSUME NEW g \in Shape, g.fn = fr.fn, g.old <=> fr.old,
             DeserializeAggregateAt(g),
             g.pc \in 1..3, g.turns <= MaxTurns
      PROVE  Good(g, what)
  <2>1. g.turns \in Nat /\ \A x \in Kinds : g.refs[x] \in Nat
    BY <1>4 DEF Shape
  <2>2. \A x \in Kinds : g.refs[x] <= MaxTurns + 2
    BY <1>2, <1>4, <2>1
  <2> QED BY <1>1, <1>4, <2>2, ShapeFrame, DeserializeAggregateCode
          DEF Good, At, Hooked, Table, Tails, Serializers, Deserializers
<1>5. Bad(fr) => "hook" \in what
  BY <1>1 DEF Bad
<1>6. Outs(fr, what)
  <2> HIDE DEF DeserializeAggregateAt
  <2>1. CASE fr.pc = 1
    BY <1>1, <2>1, DeserializeAggregateCode, EitherOut
  <2>2. CASE fr.pc = 2
    BY <1>1, <1>5, <2>2, DeserializeAggregateCode, TailOut
       DEF Tails, Alike, Serializers, Deserializers
  <2>3. CASE fr.pc = 3
    BY <1>1, <2>3, DeserializeAggregateCode, StopOut DEF KnownFaults
  <2> QED BY <1>1, <2>1, <2>2, <2>3
<1> QED BY <1>1, <1>3, <1>4, <1>6 DEF Flows

(* The steps of json_deserialize_enum, one by one.                         *)
LEMMA DeserializeEnumCode ==
  LET X == Code["json_deserialize_enum"] IN
  /\ DOMAIN X = 1..2
  /\ X[1] = Ask("memory", <<>>) /\ X[2] = Return("memory")
BY DEF Code, DeserializeEnum

(* json_deserialize_enum: the memory is there if nothing failed.           *)
LEMMA DeserializeEnumFlows ==
  ASSUME NEW fr, NEW what, Good(fr, what), fr.fn = "json_deserialize_enum"
  PROVE  Flows(fr, what)
<1>1. /\ fr \in Frames /\ fr.pc \in 1..2 /\ DeserializeEnumAt(fr)
      /\ fr.old => "hook" \in what
  <2>1. /\ fr \in Frames /\ fr.pc \in DOMAIN Code[fr.fn] /\ Table(fr)
        /\ fr.old => "hook" \in what
    BY DEF Good, At, Hooked
  <2> QED BY <2>1, DeserializeEnumCode DEF Table
<1>2. /\ MaxTurns \in Nat /\ MaxTurns >= 1
      /\ fr.turns \in Nat /\ fr.turns <= MaxTurns
      /\ fr.err \in BOOLEAN /\ \A x \in Kinds : fr.refs[x] \in Nat
  BY <1>1, FrameFacts
<1> USE DEF DeserializeEnumAt, Held, HeldUnless, Has, OnlyOf,
           ErrAt, LoopAt, Kinds
<1>3. ASSUME NEW g \in Shape, Moves(fr, g, what)
      PROVE  DeserializeEnumAt(g) /\ g.pc \in 1..2 /\ g.turns <= MaxTurns
  <2> HIDE DEF DeserializeEnumAt
  <2>1. /\ fr.pc = 1 => AskMoves(fr, g, "memory")
        /\ fr.pc \notin {2}
    BY <1>1, <1>3, DeserializeEnumCode, AskIs, ReturnIs
  <2> USE DEF DeserializeEnumAt, AskMoves, Goes, Keeps, OneMore
  <2>2. CASE fr.pc \in 1..2
    BY <1>1, <1>2, <1>3, <2>1, <2>2
  <2> QED BY <1>1, <2>2
<1>4. ASSUME NEW g \in Shape, g.fn = fr.fn, g.old <=> fr.old,
             DeserializeEnumAt(g),
             g.pc \in 1..2, g.turns <= MaxTurns
      PROVE  Good(g, what)
  <2>1. g.turns \in Nat /\ \A x \in Kinds : g.refs[x] \in Nat
    BY <1>4 DEF Shape
  <2>2. \A x \in Kinds : g.refs[x] <= MaxTurns + 2
    BY <1>2, <1>4, <2>1
  <2> QED BY <1>1, <1>4, <2>2, ShapeFrame, DeserializeEnumCode
          DEF Good, At, Hooked, Table, Tails, Serializers, Deserializers
<1>5. fr.pc = 1 => Clears(fr, {}, "failed")
  BY <1>1, <1>2 DEF Clears, Kept, Appended, Sure
<1>6. fr.pc = 1 => Ladder(fr, <<>>, "failed")
  BY <1>5, LadderNone
<1>7. fr.pc = 2 => Ending(fr, "memory", what)
  <2>1. fr.pc = 2 => ~fr.err
    BY <1>1
  <2>2. fr.pc = 2 => HasOnly(fr, "memory")
    BY <1>1, <1>2 DEF HasOnly
  <2> HIDE DEF DeserializeEnumAt
  <2> QED BY <1>1, <2>1, <2>2, EndsClean, ResultOf DEF Sure, Deserializers
<1>8. Outs(fr, what)
  <2> HIDE DEF DeserializeEnumAt
  <2>1. CASE fr.pc = 1
    BY <1>1, <1>6, <2>1, DeserializeEnumCode, AskOut
  <2>2. CASE fr.pc = 2
    BY <1>1, <1>7, <2>2, DeserializeEnumCode, ReturnOut
  <2> QED BY <1>1, <2>1, <2>2
<1> QED BY <1>1, <1>3, <1>4, <1>8 DEF Flows

(* The steps of json_deserialize_pointer, one by one.                      *)
LEMMA DeserializePointerCode ==
  LET X == Code["json_deserialize_pointer"] IN
  /\ DOMAIN X = 1..9
  /\ X[1] = Either(4) /\ X[2] = Ask("memory", <<>>) /\ X[3] = Return("memory")
  /\ X[4] = Ask("type", <<"null">>)
  /\ X[5] = Run({"_json_deserialize"}, "memory") /\ X[6] = Drop(<<"type">>)
  /\ X[7] = Give("memory") /\ X[8] = Ask("memory", <<"null">>)
  /\ X[9] = Return("memory")
BY DEF Code, DeserializePointer

(* json_deserialize_pointer: the type is dropped whether the pointee could *)
(* be read or not; the error then comes with a pointer.                    *)
LEMMA DeserializePointerFlows ==
  ASSUME NEW fr, NEW what, Good(fr, what), fr.fn = "json_deserialize_pointer"
  PROVE  Flows(fr, what)
<1>1. /\ fr \in Frames /\ fr.pc \in 1..9 /\ DeserializePointerAt(fr)
      /\ fr.old => "hook" \in what
  <2>1. /\ fr \in Frames /\ fr.pc \in DOMAIN Code[fr.fn] /\ Table(fr)
        /\ fr.old => "hook" \in what
    BY DEF Good, At, Hooked
  <2> QED BY <2>1, DeserializePointerCode DEF Table
<1>2. /\ MaxTurns \in Nat /\ MaxTurns >= 1
      /\ fr.turns \in Nat /\ fr.turns <= MaxTurns
      /\ fr.err \in BOOLEAN /\ \A x \in Kinds : fr.refs[x] \in Nat
  BY <1>1, FrameFacts
<1> USE DEF DeserializePointerAt, Held, HeldUnless, Has, OnlyOf,
           ErrAt, LoopAt, Kinds
<1>3. ASSUME NEW g \in Shape, Moves(fr, g, what)
      PROVE  DeserializePointerAt(g) /\ g.pc \in 1..9 /\ g.turns <= MaxTurns
  <2> HIDE DEF DeserializePointerAt
  <2>1. /\ fr.pc = 1 => EitherMoves(fr, g, 4)
        /\ fr.pc \in {2, 8} => AskMoves(fr, g, "memory")
        /\ fr.pc = 4 => AskMoves(fr, g, "type")
        /\ fr.pc = 5 => RunMoves(fr, g, "_json_deserialize", what)
        /\ fr.pc = 6 => Fewer(fr, g, {"type"})
        /\ fr.pc = 7 => GiveMoves(fr, g, "memory")
        /\ fr.pc \notin {3, 9}
    BY <1>1, <1>3, DeserializePointerCode, EitherIs, AskIs, ReturnIs, RunIs,
       DropOne, GiveIs
  <2> USE DEF DeserializePointerAt, AskMoves, RunMoves, GiveMoves, EitherMoves,
              Fewer, Goes, Keeps, OneMore
  <2>2. CASE fr.pc \in 1..3
    BY <1>1, <1>2, <1>3, <2>1, <2>2
  <2>3. CASE fr.pc \in 4..6
    BY <1>1, <1>2, <1>3, <2>1, <2>3, ResultOf
       DEF Sure, Serializers, Deserializers
  <2>4. CASE fr.pc \in 7..9
    BY <1>1, <1>2, <1>3, <2>1, <2>4
  <2> QED BY <1>1, <2>2, <2>3, <2>4
<1>4. ASSUME NEW g \in Shape, g.fn = fr.fn, g.old <=> fr.old,
             DeserializePointerAt(g),
             g.pc \in 1..9, g.turns <= MaxTurns
      PROVE  Good(g, what)
  <2>1. g.turns \in Nat /\ \A x \in Kinds : g.refs[x] \in Nat
    BY <1>4 DEF Shape
  <2>2. \A x \in Kinds : g.refs[x] <= MaxTurns + 2
    BY <1>2, <1>4, <2>1
  <2> QED BY <1>1, <1>4, <2>2, ShapeFrame, DeserializePointerCode
          DEF Good, At, Hooked, Table, Tails, Serializers, Deserializers
<1>5. fr.pc = 2 => Clears(fr, {}, "failed")
  BY <1>1, <1>2 DEF Clears, Kept, Appended, Sure
<1>6. /\ fr.pc = 2 => Ladder(fr, <<>>, "failed")
      /\ fr.pc \in {4, 8} => Ladder(fr, <<"null">>, "failed")
  BY <1>1, <1>5, LadderNone, LadderKnown DEF KnownFaults
<1>7. fr.pc = 6 => Enough(fr, <<"type">>)
  BY <1>1, <1>2, EnoughOne
<1>8. fr.pc \in {3, 9} => Ending(fr, "memory", what)
  <2>1. fr.pc \in {3, 9} /\ Gives(fr, "memory") /\ fr.err =>
          \/ "hook" \in what
          \/ fr.fn \in {"json_deserialize_pointer", "json_deserialize"}
    BY <1>1, <1>2 DEF Gives
  <2>2. fr.pc \in {3, 9} => \A x \in Kinds \ {"memory"} : fr.refs[x] = 0
    BY <1>1, <1>2
  <2>3. fr.pc \in {3, 9} /\ Gives(fr, "memory") =>
          fr.refs["memory"] = 1 \/ <<fr.fn, "memory">> \in KnownLeaks.done
    BY <1>1, <1>2 DEF Gives
  <2> HIDE DEF DeserializePointerAt
  <2> QED BY <1>1, <1>2, <2>1, <2>2, <2>3, EndsFailed, ResultOf
         DEF Sure, Deserializers, OwnError
<1>9. {"_json_deserialize"} \subseteq Functions
  BY FunctionsAre
<1>10. Outs(fr, what)
  <2> HIDE DEF DeserializePointerAt
  <2>1. CASE fr.pc \in {1, 7}
    BY <1>1, <2>1, DeserializePointerCode, EitherOut, GiveOut
  <2>2. CASE fr.pc \in {2, 4, 8}
    BY <1>1, <1>6, <2>2, DeserializePointerCode, AskOut
  <2>3. CASE fr.pc \in {3, 9}
    BY <1>1, <1>8, <2>3, DeserializePointerCode, ReturnOut
  <2>4. CASE fr.pc = 5
    BY <1>1, <1>9, <2>4, DeserializePointerCode, RunOut
  <2>5. CASE fr.pc = 6
    BY <1>1, <1>7, <2>5, DeserializePointerCode, DropOut
  <2> QED BY <1>1, <2>1, <2>2, <2>3, <2>4, <2>5
<1> QED BY <1>1, <1>3, <1>4, <1>10 DEF Flows

(* The steps of json_deserialize_struct, one by one.                       *)
LEMMA DeserializeStructCode ==
  LET X == Code["json_deserialize_struct"] IN
  /\ DOMAIN X = 1..11
  /\ X[1] = Ask("memory", <<>>) /\ X[2] = Ask("none", <<"memory">>)
  /\ X[3] = Loop(11) /\ X[4] = Ask("member", <<"memory">>)
  /\ X[5] = Ask("none", <<"member", "memory">>)
  /\ X[6] = Ask("string", <<"member", "memory">>)
  /\ X[7] = Run({"json_deserialize_struct_member"}, "none")
  /\ X[8] = Check(<<"string", "member", "memory">>)
  /\ X[9] = Drop(<<"member", "string">>) /\ X[10] = Back(3)
  /\ X[11] = Return("memory")
BY DEF Code, DeserializeStruct

(* json_deserialize_struct: however many members there have been, each     *)
(* ladder drops the memory, the member and the name it has.                *)
LEMMA DeserializeStructFlows ==
  ASSUME NEW fr, NEW what, Good(fr, what), fr.fn = "json_deserialize_struct"
  PROVE  Flows(fr, what)
<1>1. /\ fr \in Frames /\ fr.pc \in 1..11 /\ DeserializeStructAt(fr)
      /\ fr.old => "hook" \in what
  <2>1. /\ fr \in Frames /\ fr.pc \in DOMAIN Code[fr.fn] /\ Table(fr)
        /\ fr.old => "hook" \in what
    BY DEF Good, At, Hooked
  <2> QED BY <2>1, DeserializeStructCode DEF Table
<1>2. /\ MaxTurns \in Nat /\ MaxTurns >= 1
      /\ fr.turns \in Nat /\ fr.turns <= MaxTurns
      /\ fr.err \in BOOLEAN /\ \A x \in Kinds : fr.refs[x] \in Nat
  BY <1>1, FrameFacts
<1> USE DEF DeserializeStructAt, Held, HeldUnless, Has, OnlyOf,
           ErrAt, LoopAt, Kinds
<1>3. ASSUME NEW g \in Shape, Moves(fr, g, what)
      PROVE  DeserializeStructAt(g) /\ g.pc \in 1..11 /\ g.turns <= MaxTurns
  <2> HIDE DEF DeserializeStructAt
  <2>1. /\ fr.pc = 1 => AskMoves(fr, g, "memory")
        /\ fr.pc \in {2, 5} => AskMoves(fr, g, "none")
        /\ fr.pc = 3 => LoopMoves(fr, g, 11)
        /\ fr.pc = 4 => AskMoves(fr, g, "member")
        /\ fr.pc = 6 => AskMoves(fr, g, "string")
        /\ fr.pc = 7 => RunMoves(fr, g, "json_deserialize_struct_member", what)
        /\ fr.pc = 8 => CheckMoves(fr, g)
        /\ fr.pc = 9 => Fewer(fr, g, {"member", "string"})
        /\ fr.pc = 10 => BackMoves(fr, g, 3)
        /\ fr.pc \notin {11}
    BY <1>1, <1>3, DeserializeStructCode, AskIs, LoopIs, RunIs, CheckIs,
       DropTwo, BackIs, ReturnIs
  <2> USE DEF DeserializeStructAt, AskMoves, RunMoves, CheckMoves, LoopMoves,
              BackMoves, Fewer, Goes, Keeps, OneMore
  <2>2. CASE fr.pc \in 1..4
    BY <1>1, <1>2, <1>3, <2>1, <2>2
  <2>3. CASE fr.pc \in 5..8
    BY <1>1, <1>2, <1>3, <2>1, <2>3, ResultOf DEF Sure
  <2>4. CASE fr.pc \in 9..11
    BY <1>1, <1>2, <1>3, <2>1, <2>4
  <2> QED BY <1>1, <2>2, <2>3, <2>4
<1>4. ASSUME NEW g \in Shape, g.fn = fr.fn, g.old <=> fr.old,
             DeserializeStructAt(g),
             g.pc \in 1..11, g.turns <= MaxTurns
      PROVE  Good(g, what)
  <2>1. g.turns \in Nat /\ \A x \in Kinds : g.refs[x] \in Nat
    BY <1>4 DEF Shape
  <2>2. \A x \in Kinds : g.refs[x] <= MaxTurns + 2
    BY <1>2, <1>4, <2>1
  <2> QED BY <1>1, <1>4, <2>2, ShapeFrame, DeserializeStructCode
          DEF Good, At, Hooked, Table, Tails, Serializers, Deserializers
<1>5. /\ fr.pc = 1 => Clears(fr, {}, "failed")
      /\ fr.pc \in {2, 4} => Clears(fr, {"memory"}, "failed")
      /\ fr.pc \in 5..6 => Clears(fr, {"member", "memory"}, "failed")
      /\ fr.pc = 8 /\ fr.err =>
          Clears(fr, {"string", "member", "memory"}, "failed")
  BY <1>1, <1>2 DEF Clears, Kept, Appended, Sure
<1>6. /\ fr.pc = 1 => Ladder(fr, <<>>, "failed")
      /\ fr.pc \in {2, 4} => Ladder(fr, <<"memory">>, "failed")
      /\ fr.pc \in 5..6 => Ladder(fr, <<"member", "memory">>, "failed")
      /\ fr.pc = 8 /\ fr.err =>
          Ladder(fr, <<"string", "member", "memory">>, "failed")
  BY <1>5, LadderNone, LadderOne, LadderTwo, LadderThree
<1>7. fr.pc = 9 => Enough(fr, <<"member", "string">>)
  BY <1>1, <1>2, EnoughTwo, SMTT(30)
<1>8. fr.pc = 11 => Ending(fr, "memory", what)
  <2>1. fr.pc = 11 => ~fr.err
    BY <1>1
  <2>2. fr.pc = 11 => HasOnly(fr, "memory")
    BY <1>1, <1>2 DEF HasOnly
  <2> HIDE DEF DeserializeStructAt
  <2> QED BY <1>1, <2>1, <2>2, EndsClean, ResultOf DEF Sure, Deserializers
<1>9. {"json_deserialize_struct_member"} \subseteq Functions
  BY FunctionsAre
<1>10. Outs(fr, what)
  <2> HIDE DEF DeserializeStructAt
  <2>1. CASE fr.pc \in {1, 2, 4, 5, 6}
    BY <1>1, <1>6, <2>1, DeserializeStructCode, AskOut
  <2>2. CASE fr.pc \in {3, 10}
    BY <1>1, <2>2, DeserializeStructCode, LoopOut, BackOut
  <2>3. CASE fr.pc = 7
    BY <1>1, <1>9, <2>3, DeserializeStructCode, RunOut, SMTT(30)
  <2>4. CASE fr.pc = 8
    BY <1>1, <1>6, <2>4, DeserializeStructCode, CheckOut
  <2>5. CASE fr.pc = 9
    BY <1>1, <1>7, <2>5, DeserializeStructCode, DropOut
  <2>6. CASE fr.pc = 11
    BY <1>1, <1>8, <2>6, DeserializeStructCode, ReturnOut
  <2> QED BY <1>1, <2>1, <2>2, <2>3, <2>4, <2>5, <2>6
<1> QED BY <1>1, <1>3, <1>4, <1>10 DEF Flows

(* The steps of json_deserialize_struct_member, one by one.                *)
LEMMA DeserializeStructMemberCode ==
  LET X == Code["json_deserialize_struct_member"] IN
  /\ DOMAIN X = 1..8
  /\ X[1] = Run({"r_type_member_type"}, "type") /\ X[2] = Check(<<>>)
  /\ X[3] = Run({"_json_deserialize"}, "memory") /\ X[4] = Check(<<"type">>)
  /\ X[5] = Ask("none", <<"memory", "type">>)
  /\ X[6] = IfNone("memory", <<"null">>) /\ X[7] = Drop(<<"memory", "type">>)
  /\ X[8] = Return("none")
BY DEF Code, DeserializeStructMember

(* json_deserialize_struct_member: the memory that is dropped is there,    *)
(* unless there was no value, which is known.                              *)
LEMMA DeserializeStructMemberFlows ==
  ASSUME NEW fr, NEW what, Good(fr, what),
         fr.fn = "json_deserialize_struct_member"
  PROVE  Flows(fr, what)
<1>1. /\ fr \in Frames /\ fr.pc \in 1..8 /\ DeserializeStructMemberAt(fr)
      /\ ~fr.old
  <2>1. /\ fr \in Frames /\ fr.pc \in DOMAIN Code[fr.fn] /\ Table(fr)
        /\ ~fr.old
    BY DEF Good, At, Hooked, Tails, Serializers, Deserializers
  <2> QED BY <2>1, DeserializeStructMemberCode DEF Table
<1>2. /\ MaxTurns \in Nat /\ MaxTurns >= 1
      /\ fr.turns \in Nat /\ fr.turns <= MaxTurns
      /\ fr.err \in BOOLEAN /\ \A x \in Kinds : fr.refs[x] \in Nat
  BY <1>1, FrameFacts
<1> USE DEF DeserializeStructMemberAt, Held, HeldUnless, Has, OnlyOf,
           ErrAt, LoopAt, Kinds
<1>3. ASSUME NEW g \in Shape, Moves(fr, g, what)
      PROVE  DeserializeStructMemberAt(g) /\ g.pc \in 1..8
             /\ g.turns <= MaxTurns
  <2> HIDE DEF DeserializeStructMemberAt
  <2>1. /\ fr.pc = 1 => RunMoves(fr, g, "r_type_member_type", what)
        /\ fr.pc \in {2, 4} => CheckMoves(fr, g)
        /\ fr.pc = 3 => RunMoves(fr, g, "_json_deserialize", what)
        /\ fr.pc = 5 => AskMoves(fr, g, "none")
        /\ fr.pc = 6 => NoneMoves(fr, g, "memory", 1)
        /\ fr.pc = 7 => Fewer(fr, g, {"memory", "type"})
        /\ fr.pc \notin {8}
    BY <1>1, <1>3, DeserializeStructMemberCode, RunIs, CheckIs, AskIs, NoneIs,
       DropTwo, ReturnIs
  <2> USE DEF DeserializeStructMemberAt, AskMoves, RunMoves, CheckMoves,
              NoneMoves, Fewer, Goes, Keeps, OneMore
  <2>2. CASE fr.pc \in 1..4
    BY <1>1, <1>2, <1>3, <2>1, <2>2, ResultOf
       DEF Sure, Serializers, Deserializers
  <2>3. CASE fr.pc \in 5..8
    BY <1>1, <1>2, <1>3, <2>1, <2>3
  <2> QED BY <1>1, <2>2, <2>3
<1>4. ASSUME NEW g \in Shape, g.fn = fr.fn, g.old <=> fr.old,
             DeserializeStructMemberAt(g),
             g.pc \in 1..8, g.turns <= MaxTurns
      PROVE  Good(g, what)
  <2>1. g.turns \in Nat /\ \A x \in Kinds : g.refs[x] \in Nat
    BY <1>4 DEF Shape
  <2>2. \A x \in Kinds : g.refs[x] <= MaxTurns + 2
    BY <1>2, <1>4, <2>1
  <2> QED BY <1>1, <1>4, <2>2, ShapeFrame, DeserializeStructMemberCode
          DEF Good, At, Hooked, Table, Tails, Serializers, Deserializers
<1>5. fr.pc = 5 /\ fr.refs["memory"] = 0 =>
          Ladder(fr, <<"memory", "type">>, "failed")
  BY <1>1, <1>2, LadderLacks DEF KnownFaults
<1>6. /\ fr.pc = 2 /\ fr.err => Clears(fr, {}, "failed")
      /\ fr.pc = 4 /\ fr.err => Clears(fr, {"type"}, "failed")
      /\ fr.pc = 5 /\ fr.refs["memory"] # 0 =>
          Clears(fr, {"memory", "type"}, "failed")
  BY <1>1, <1>2 DEF Clears, Kept, Appended, Leaks, KnownLeaks, Sure
<1>7. /\ fr.pc = 2 /\ fr.err => Ladder(fr, <<>>, "failed")
      /\ fr.pc = 4 /\ fr.err => Ladder(fr, <<"type">>, "failed")
      /\ fr.pc = 5 => Ladder(fr, <<"memory", "type">>, "failed")
      /\ fr.pc = 6 /\ fr.refs["memory"] < 1 => Ladder(fr, <<"null">>, "failed")
      /\ fr.pc = 6 /\ fr.refs["memory"] < 1 => Ladder(fr, <<"null">>, "done")
  BY <1>1, <1>6, <1>5, LadderNone, LadderOne, LadderTwo, LadderKnown
     DEF KnownFaults
<1>8. fr.pc = 7 => Enough(fr, <<"memory", "type">>)
  BY <1>1, <1>2, EnoughTwo
<1>9. fr.pc = 8 => Ending(fr, "none", what)
  <2>1. fr.pc = 8 => ~fr.err
    BY <1>1
  <2>2. fr.pc = 8 => HasOnly(fr, "none")
    BY <1>1, <1>2 DEF HasOnly
  <2> HIDE DEF DeserializeStructMemberAt
  <2> QED BY <1>1, <2>1, <2>2, EndsClean, ResultOf DEF Sure, Deserializers
<1>10. {"r_type_member_type", "_json_deserialize"} \subseteq Functions
  BY FunctionsAre
<1>11. Outs(fr, what)
  <2> HIDE DEF DeserializeStructMemberAt
  <2>1. CASE fr.pc \in {1, 3}
    BY <1>1, <1>10, <2>1, DeserializeStructMemberCode, RunOut
  <2>2. CASE fr.pc \in {2, 4}
    BY <1>1, <1>5, <1>7, <2>2, DeserializeStructMemberCode, CheckOut
  <2>3. CASE fr.pc = 5
    BY <1>1, <1>5, <1>7, <2>3, DeserializeStructMemberCode, AskOut
  <2>4. CASE fr.pc = 6
    BY <1>1, <1>5, <1>7, <2>4, DeserializeStructMemberCode, NoneOut
  <2>5. CASE fr.pc = 7
    BY <1>1, <1>8, <2>5, DeserializeStructMemberCode, DropOut
  <2>6. CASE fr.pc = 8
    BY <1>1, <1>9, <2>6, DeserializeStructMemberCode, ReturnOut
  <2> QED BY <1>1, <2>1, <2>2, <2>3, <2>4, <2>5, <2>6
<1> QED BY <1>1, <1>3, <1>4, <1>11 DEF Flows

(* The steps of json_deserialize_array, one by one.                        *)
LEMMA DeserializeArrayCode ==
  LET X == Code["json_deserialize_array"] IN
  /\ DOMAIN X = 1..15
  /\ X[1] = Ask("none", <<>>) /\ X[2] = Ask("none", <<"assert">>)
  /\ X[3] = Ask("memory", <<"assert">>) /\ X[4] = Loop(15)
  /\ X[5] = Ask("member", <<"json">>)
  /\ X[6] = Run({"r_type_member_type"}, "type")
  /\ X[7] = Check(<<"member", "json">>) /\ X[8] = Ask("none", <<"assert">>)
  /\ X[9] = Ask("none", <<"type", "member", "json">>)
  /\ X[10] = Run({"_json_deserialize"}, "memory")
  /\ X[11] = Check(<<"json", "type", "member", "json">>)
  /\ X[12] = IfOne("memory", <<"null">>)
  /\ X[13] = Drop(<<"memory", "type", "member">>) /\ X[14] = Back(4)
  /\ X[15] = Return("memory")
BY DEF Code, DeserializeArray

(* json_deserialize_array: the ladders inside the loop drop JSON that it   *)
(* never has, which is known; the drop of an element is behind a look for  *)
(* the second memory.                                                      *)
LEMMA DeserializeArrayFlows ==
  ASSUME NEW fr, NEW what, Good(fr, what), fr.fn = "json_deserialize_array"
  PROVE  Flows(fr, what)
<1>1. /\ fr \in Frames /\ fr.pc \in 1..15 /\ DeserializeArrayAt(fr)
      /\ fr.old => "hook" \in what
  <2>1. /\ fr \in Frames /\ fr.pc \in DOMAIN Code[fr.fn] /\ Table(fr)
        /\ fr.old => "hook" \in what
    BY DEF Good, At, Hooked
  <2> QED BY <2>1, DeserializeArrayCode DEF Table
<1>2. /\ MaxTurns \in Nat /\ MaxTurns >= 1
      /\ fr.turns \in Nat /\ fr.turns <= MaxTurns
      /\ fr.err \in BOOLEAN /\ \A x \in Kinds : fr.refs[x] \in Nat
  BY <1>1, FrameFacts
<1> USE DEF DeserializeArrayAt, Held, HeldUnless, Has, OnlyOf,
           ErrAt, LoopAt, Kinds
<1>3. ASSUME NEW g \in Shape, Moves(fr, g, what)
      PROVE  DeserializeArrayAt(g) /\ g.pc \in 1..15 /\ g.turns <= MaxTurns
  <2> HIDE DEF DeserializeArrayAt
  <2>1. /\ fr.pc \in {1, 2, 8, 9} => AskMoves(fr, g, "none")
        /\ fr.pc = 3 => AskMoves(fr, g, "memory")
        /\ fr.pc = 4 => LoopMoves(fr, g, 15)
        /\ fr.pc = 5 => AskMoves(fr, g, "member")
        /\ fr.pc = 6 => RunMoves(fr, g, "r_type_member_type", what)
        /\ fr.pc \in {7, 11} => CheckMoves(fr, g)
        /\ fr.pc = 10 => RunMoves(fr, g, "_json_deserialize", what)
        /\ fr.pc = 12 => NoneMoves(fr, g, "memory", 2)
        /\ fr.pc = 13 => Fewer(fr, g, {"memory", "type", "member"})
        /\ fr.pc = 14 => BackMoves(fr, g, 4)
        /\ fr.pc \notin {15}
    BY <1>1, <1>3, DeserializeArrayCode, AskIs, LoopIs, RunIs, CheckIs, OneIs,
       DropThree, BackIs, ReturnIs
  <2> USE DEF DeserializeArrayAt, AskMoves, RunMoves, CheckMoves, NoneMoves,
              LoopMoves, BackMoves, Fewer, Goes, Keeps, OneMore
  <2>2. CASE fr.pc \in 1..4
    BY <1>1, <1>2, <1>3, <2>1, <2>2
  <2>3. CASE fr.pc \in 5..8
    BY <1>1, <1>2, <1>3, <2>1, <2>3, ResultOf
       DEF Sure, Serializers, Deserializers
  <2>4. CASE fr.pc \in 9..12
    BY <1>1, <1>2, <1>3, <2>1, <2>4, ResultOf
       DEF Sure, Serializers, Deserializers
  <2>5. CASE fr.pc \in 13..15
    BY <1>1, <1>2, <1>3, <2>1, <2>5
  <2> QED BY <1>1, <2>2, <2>3, <2>4, <2>5
<1>4. ASSUME NEW g \in Shape, g.fn = fr.fn, g.old <=> fr.old,
             DeserializeArrayAt(g),
             g.pc \in 1..15, g.turns <= MaxTurns
      PROVE  Good(g, what)
  <2>1. g.turns \in Nat /\ \A x \in Kinds : g.refs[x] \in Nat
    BY <1>4 DEF Shape
  <2>2. \A x \in Kinds : g.refs[x] <= MaxTurns + 2
    BY <1>2, <1>4, <2>1
  <2> QED BY <1>1, <1>4, <2>2, ShapeFrame, DeserializeArrayCode
          DEF Good, At, Hooked, Table, Tails, Serializers, Deserializers
<1>5. /\ fr.pc = 5 => Ladder(fr, <<"json">>, "failed")
      /\ fr.pc = 7 /\ fr.err => Ladder(fr, <<"member", "json">>, "failed")
      /\ fr.pc = 9 => Ladder(fr, <<"type", "member", "json">>, "failed")
      /\ fr.pc = 11 /\ fr.err =>
          Ladder(fr, <<"json", "type", "member", "json">>, "failed")
  BY <1>1, <1>2, LadderLacksOne, LadderLacks, LadderLacksLast, LadderFour,
     ZenonT(60) DEF KnownFaults
<1>6. fr.pc = 1 => Clears(fr, {}, "failed")
  BY <1>1, <1>2 DEF Clears, Kept, Appended, Sure
<1>7. /\ fr.pc = 1 => Ladder(fr, <<>>, "failed")
      /\ fr.pc \in {2, 3, 8} => Ladder(fr, <<"assert">>, "failed")
      /\ fr.pc = 12 /\ fr.refs["memory"] < 2 =>
          Ladder(fr, <<"null">>, "failed")
      /\ fr.pc = 12 /\ fr.refs["memory"] < 2 => Ladder(fr, <<"null">>, "done")
  BY <1>1, <1>6, LadderNone, LadderKnown DEF KnownFaults
<1>8. fr.pc = 13 => Enough(fr, <<"memory", "type", "member">>)
  <2>1. fr.pc = 13 =>
          fr.refs["memory"] >= 1 /\ fr.refs["type"] >= 1
            /\ fr.refs["member"] >= 1
    BY <1>1, <1>2
  <2> HIDE DEF DeserializeArrayAt
  <2> QED BY <2>1, EnoughThree
<1>9. fr.pc = 15 => Ending(fr, "memory", what)
  <2>1. fr.pc = 15 => ~fr.err
    BY <1>1
  <2>2. fr.pc = 15 => HasOnly(fr, "memory")
    BY <1>1, <1>2 DEF HasOnly
  <2> HIDE DEF DeserializeArrayAt
  <2> QED BY <1>1, <2>1, <2>2, EndsClean, ResultOf DEF Sure, Deserializers
<1>10. {"r_type_member_type", "_json_deserialize"} \subseteq Functions
  BY FunctionsAre
<1>11. Outs(fr, what)
  <2> HIDE DEF DeserializeArrayAt
  <2>1. CASE fr.pc \in {1, 2, 3, 5, 8, 9}
    BY <1>1, <1>5, <1>7, <2>1, DeserializeArrayCode, AskOut
  <2>2. CASE fr.pc \in {4, 14}
    BY <1>1, <2>2, DeserializeArrayCode, LoopOut, BackOut
  <2>3. CASE fr.pc \in {6, 10}
    BY <1>1, <1>10, <2>3, DeserializeArrayCode, RunOut
  <2>4. CASE fr.pc \in {7, 11}
    BY <1>1, <1>5, <1>7, <2>4, DeserializeArrayCode, CheckOut
  <2>5. CASE fr.pc = 12
    BY <1>1, <1>5, <1>7, <2>5, DeserializeArrayCode, OneOut
  <2>6. CASE fr.pc = 13
    BY <1>1, <1>8, <2>6, DeserializeArrayCode, DropOut
  <2>7. CASE fr.pc = 15
    BY <1>1, <1>9, <2>7, DeserializeArrayCode, ReturnOut
  <2> QED BY <1>1, <2>1, <2>2, <2>3, <2>4, <2>5, <2>6, <2>7
<1> QED BY <1>1, <1>3, <1>4, <1>11 DEF Flows


(* A function starts in the table.                                         *)
LEMMA StartAt ==
  ASSUME NEW fr, fr.pc = 1, ~fr.err, fr.turns = 0,
         \A x \in Kinds : fr.refs[x] = 0
  PROVE  Table(fr)
<1>1. MaxTurns \in Nat /\ MaxTurns >= 1
  BY CleanupAssumption
<1> USE DEF Held, HeldUnless, Has, OnlyOf, ErrAt, LoopAt, Kinds
<1>2. /\ MemberTypeAt(fr) /\ EnumValueAt(fr) /\ MemberByNameAt(fr)
      /\ TypesByNameAt(fr) /\ MallocSizedAt(fr)
  BY <1>1 DEF MemberTypeAt, EnumValueAt, MemberByNameAt, TypesByNameAt,
     MallocSizedAt
<1>3. /\ SerializeAt(fr) /\ SerializeAnyAt(fr) /\ SerializeBuiltinAt(fr)
      /\ SerializePointerAt(fr) /\ SerializeAggregateAt(fr)
      /\ SerializeStructAt(fr)
      /\ SerializeStructMemberAt(fr) /\ SerializeEnumAt(fr)
      /\ SerializeArrayAt(fr)
  BY <1>1 DEF SerializeAt, SerializeAnyAt, SerializeBuiltinAt,
     SerializePointerAt, SerializeAggregateAt, SerializeStructAt,
     SerializeStructMemberAt, SerializeEnumAt, SerializeArrayAt
<1>4. /\ DeserializeAt(fr) /\ DeserializeAnyAt(fr) /\ DeserializeBuiltinAt(fr)
      /\ DeserializeAggregateAt(fr) /\ DeserializeEnumAt(fr)
      /\ DeserializePointerAt(fr)
      /\ DeserializeStructAt(fr) /\ DeserializeStructMemberAt(fr)
      /\ DeserializeArrayAt(fr)
  BY <1>1 DEF DeserializeAt, DeserializeAnyAt, DeserializeBuiltinAt,
     DeserializeAggregateAt, DeserializeEnumAt, DeserializePointerAt,
     DeserializeStructAt, DeserializeStructMemberAt, DeserializeArrayAt
<1> QED BY <1>2, <1>3, <1>4 DEF Table

(* Every function has steps, 17 of them at most.                           *)
LEMMA CodeLength ==
  ASSUME NEW f \in Functions
  PROVE  1 \in DOMAIN Code[f] /\ DOMAIN Code[f] \subseteq 1..17
<1>1. CASE f \in {"r_type_member_type", "ensure_value_init",
                  "r_aggregate_type_member_by_name",
                  "ruminate_get_types_by_name", "_r_mem_malloc_sized"}
  BY <1>1, MemberTypeCode, EnumValueCode, MemberByNameCode, TypesByNameCode,
     MallocSizedCode
<1>2. CASE f \in Serializers
                   \cup {"json_serialize", "json_serialize_struct_member"}
  BY <1>2, SerializeCode, SerializeAnyCode, SerializeBuiltinCode,
     SerializePointerCode, SerializeAggregateCode, SerializeStructCode,
     SerializeStructMemberCode, SerializeEnumCode, SerializeArrayCode
     DEF Serializers
<1>3. CASE f \in Deserializers
                   \cup {"json_deserialize",
                             "json_deserialize_struct_member"}
  BY <1>3, DeserializeCode, DeserializeAnyCode, DeserializeBuiltinCode,
     DeserializeAggregateCode, DeserializeEnumCode, DeserializePointerCode,
     DeserializeStructCode, DeserializeStructMemberCode, DeserializeArrayCode
     DEF Deserializers
<1> QED BY <1>1, <1>2, <1>3, FunctionsAre DEF Serializers, Deserializers

(* A frame that has just been made is in the table.                        *)
LEMMA FrameAt ==
  ASSUME NEW f \in Functions, NEW fr \in Frames, fr.fn = f, fr.pc = 1,
         ~fr.err, fr.turns = 0, fr.old => f \in Tails,
         \A x \in Kinds : fr.refs[x] = 0
  PROVE  At(fr)
BY StartAt, CodeLength DEF At

(* The table is right: what a step makes of a frame is in it again.        *)
LEMMA AllFlows ==
  ASSUME NEW fr, NEW what, Good(fr, what)
  PROVE  Flows(fr, what)
<1>1. fr.fn \in Functions
  BY DEF Good, At, Frames
<1>2. CASE fr.fn \in {"r_type_member_type", "ensure_value_init",
                      "r_aggregate_type_member_by_name",
                      "ruminate_get_types_by_name", "_r_mem_malloc_sized"}
  BY <1>2, MemberTypeFlows, EnumValueFlows, MemberByNameFlows,
     TypesByNameFlows, MallocSizedFlows
<1>3. CASE fr.fn \in Serializers
                       \cup {"json_serialize", "json_serialize_struct_member"}
  BY <1>3, SerializeFlows, SerializeAnyFlows, SerializeBuiltinFlows,
     SerializePointerFlows, SerializeAggregateFlows, SerializeStructFlows,
     SerializeStructMemberFlows, SerializeEnumFlows, SerializeArrayFlows
     DEF Serializers
<1>4. CASE fr.fn \in Deserializers
                       \cup {"json_deserialize",
                             "json_deserialize_struct_member"}
  BY <1>4, DeserializeFlows, DeserializeAnyFlows, DeserializeBuiltinFlows,
     DeserializeAggregateFlows, DeserializeEnumFlows, DeserializePointerFlows,
     DeserializeStructFlows, DeserializeStructMemberFlows, DeserializeArrayFlows
     DEF Deserializers
<1> QED BY <1>1, <1>2, <1>3, <1>4, FunctionsAre DEF Serializers, Deserializers


-----------------------------------------------------------------------------
(* THE MACHINE *)

(* The frames of a stack whose top is replaced.                            *)
LEMMA Onto ==
  ASSUME NEW S, NEW s \in Seq(S), s # <<>>, NEW g \in S
  PROVE  LET t == <<g>> \o Tail(s) IN
         /\ t \in Seq(S) /\ t # <<>> /\ Len(t) = Len(s) /\ t[1] = g
         /\ \A i \in 2..Len(s) : t[i] = s[i]
OBVIOUS

(* The frames of a stack whose top is replaced by two.                     *)
LEMMA Above ==
  ASSUME NEW S, NEW s \in Seq(S), s # <<>>, NEW g \in S, NEW h \in S
  PROVE  LET t == <<g, h>> \o Tail(s) IN
         /\ t \in Seq(S) /\ t # <<>> /\ Len(t) = Len(s) + 1
         /\ t[1] = g /\ t[2] = h
         /\ \A i \in 3..Len(t) : t[i] = s[i - 1]
OBVIOUS

(* The frames of a stack with the top one gone.                            *)
LEMMA Below ==
  ASSUME NEW S, NEW s \in Seq(S), s # <<>>, Tail(s) # <<>>, NEW g \in S
  PROVE  LET t == <<g>> \o Tail(Tail(s)) IN
         /\ t \in Seq(S) /\ t # <<>> /\ Len(t) = Len(s) - 1 /\ Len(s) >= 2
         /\ Head(Tail(s)) = s[2] /\ t[1] = g
         /\ \A i \in 2..Len(t) : t[i] = s[i + 1]
OBVIOUS

(* A stack of which nothing is left without the top has one frame.         *)
LEMMA Single ==
  ASSUME NEW S, NEW s \in Seq(S), s # <<>>, Tail(s) = <<>>
  PROVE  Len(s) = 1
<1>1. Len(Tail(s)) = Len(s) - 1 /\ Len(s) \in Nat
  BY HeadTailProperties, LenProperties
<1>2. Len(Tail(s)) = 0
  BY EmptySeq
<1>3. \A n \in Nat : n - 1 = 0 => n = 1
  OBVIOUS
<1>4. Len(s) - 1 = 0
  BY <1>1, <1>2, Zenon
<1> QED BY <1>1, <1>3, <1>4, Zenon

(* What Hooked says of a frame stays true when more has failed.            *)
LEMMA MoreFailed ==
  ASSUME NEW fr, NEW what, NEW more, what \subseteq more, Hooked(fr, what)
  PROVE  Hooked(fr, more)
BY DEF Hooked

(* Functions that are alike return the same, or fail in the same way.      *)
LEMMA AlikeResult ==
  ASSUME NEW f, NEW g, Alike(f, g)
  PROVE  /\ Result(f) = Result(g)
         /\ f \in Sure => f = g
         /\ f \in Serializers => g \in Serializers
         /\ g \in {"json_deserialize_pointer", "json_deserialize"} =>
              f \notin Serializers
BY ResultOf DEF Alike, Serializers, Deserializers, Sure

(* Alike is transitive: whoever takes the place of a function may be       *)
(* replaced in turn.                                                       *)
LEMMA AlikeAll ==
  ASSUME NEW f, NEW g, NEW h, Alike(f, g), Alike(g, h)
  PROVE  Alike(f, h)
BY DEF Alike, Serializers, Deserializers

(* The frame on top is in the table, and its step is one of its function.  *)
LEMMA TopFacts ==
  ASSUME IInv, fault = NoFault, frames # <<>>
  PROVE  /\ frames \in Seq(Frames) /\ Top = frames[1]
         /\ Top \in Frames /\ Good(Top, failed)
         /\ Outs(Top, failed) /\ failed \subseteq {"request", "hook"}
         /\ Bad(Top) => failed # {}
<1>1. frames \in Seq(Frames)
  BY DEF IInv, TypeOK, Frames
<1>2. Len(frames) >= 1 /\ Top = frames[1] /\ Top \in Frames
  BY <1>1 DEF Top
<1>3. At(Top) /\ Hooked(Top, failed)
  BY <1>2 DEF IInv, Stack, Known
<1>4. Bad(Top) => failed # {}
  BY <1>2 DEF IInv, Known, Bad
<1> QED BY <1>1, <1>2, <1>3, <1>4, AllFlows DEF Good, Flows, IInv, TypeOK

(* What the invariant says of the stack s, when what has failed.           *)
Sound(s, what) ==
  /\ s \in Seq(Frames) /\ s # <<>> /\ what \subseteq {"request", "hook"}
  /\ Good(s[1], what)
  /\ \A i \in 2..Len(s) : Waits(s[i], s[i - 1].fn) /\ Hooked(s[i], what)
  /\ what # {} <=> \E i \in 1..Len(s) : s[i].err \/ s[i].old

(* The invariant says that the stack is sound.                             *)
LEMMA SoundIs ==
  ASSUME IInv, fault = NoFault, frames # <<>>
  PROVE  Sound(frames, failed)
<1>1. frames \in Seq(Frames) /\ Len(frames) >= 1
  BY DEF IInv, TypeOK, Frames
<1> QED BY <1>1 DEF Sound, IInv, TypeOK, Stack, Known, Good

(* The invariant holds after a step if the new stack is sound and the      *)
(* return, if it is one, as it should be.                                  *)
LEMMA SoundKeeps ==
  ASSUME Sound(frames', failed'), fault' = NoFault,
         LeavesNothing', ErrorOrResult'
  PROVE  IInv'
<1>1. frames' \in Seq(Frames) /\ frames' # <<>> /\ Len(frames') >= 1
  BY DEF Sound
<1>2. \A i \in DOMAIN frames' : frames'[i].pc \in DOMAIN Code[frames'[i].fn]
  <2> SUFFICES ASSUME NEW i \in DOMAIN frames'
               PROVE  frames'[i].pc \in DOMAIN Code[frames'[i].fn]
    OBVIOUS
  <2>1. i = 1 \/ i \in 2..Len(frames')
    BY <1>1
  <2> QED BY <2>1 DEF Sound, Good, At, Waits
<1>3. TypeOK'
  BY <1>1, <1>2 DEF TypeOK, Sound, Frames
<1>4. Stack'
  BY DEF Stack, Sound, Good
<1>5. Known'
  <2>1. \A i \in 1..Len(frames') : i = 1 \/ i \in 2..Len(frames')
    BY <1>1
  <2> QED BY <2>1 DEF Known, Sound, Good
<1> QED BY <1>1, <1>3, <1>4, <1>5 DEF IInv, DropsOnlyOwn, ErrorMeansError

(* The frame on top becomes g.                                             *)
LEMMA ContinueKeeps ==
  ASSUME IInv, fault = NoFault, frames # <<>>, NEW g \in Shape, Continue(g),
         g.fn = Top.fn, g.old <=> Top.old, Top.err => g.err,
         Moves(Top, g, failed'),
         failed \subseteq failed', failed' \subseteq {"request", "hook"},
         failed' # {} <=> failed # {} \/ g.err
  PROVE  IInv'
<1>1. /\ frames \in Seq(Frames) /\ Top = frames[1] /\ Len(frames) >= 1
      /\ Top \in Frames /\ Good(Top, failed) /\ Sound(frames, failed)
  BY TopFacts, SoundIs
<1>2. Good(g, failed')
  <2>1. Good(Top, failed')
    BY <1>1, MoreFailed DEF Good
  <2> QED BY <2>1, AllFlows DEF Flows
<1>3. g \in Frames
  BY <1>2 DEF Good, At
<1>4. /\ frames' \in Seq(Frames) /\ frames' # <<>>
      /\ Len(frames') = Len(frames) /\ frames'[1] = g
      /\ \A i \in 2..Len(frames) : frames'[i] = frames[i]
  BY <1>1, <1>3, Onto DEF Continue
<1>5. \A i \in 2..Len(frames') :
        Waits(frames'[i], frames'[i - 1].fn) /\ Hooked(frames'[i], failed')
  <2> SUFFICES ASSUME NEW i \in 2..Len(frames')
               PROVE  /\ Waits(frames'[i], frames'[i - 1].fn)
                      /\ Hooked(frames'[i], failed')
    OBVIOUS
  <2>1. Waits(frames[i], frames[i - 1].fn) /\ Hooked(frames[i], failed)
    BY <1>1, <1>4 DEF Sound
  <2>2. frames'[i] = frames[i] /\ frames'[i - 1].fn = frames[i - 1].fn
    BY <1>1, <1>4
  <2> QED BY <2>1, <2>2, MoreFailed
<1>6. failed' # {} <=>
        \E i \in 1..Len(frames') : frames'[i].err \/ frames'[i].old
  <2>1. failed # {} <=>
          \E i \in 1..Len(frames) : frames[i].err \/ frames[i].old
    BY <1>1 DEF Sound
  <2> QED BY <1>1, <1>4, <2>1
<1>7. Sound(frames', failed')
  BY <1>2, <1>4, <1>5, <1>6 DEF Sound
<1> QED BY <1>7, SoundKeeps DEF Continue, LeavesNothing, ErrorOrResult


(* g is fr, but for what the step is about.                                *)
Same(fr, g) == g \in Shape /\ g.fn = fr.fn /\ (g.old <=> fr.old)

(* A frame has the shape of one, whatever its step.                        *)
LEMMA FrameShape ==
  ASSUME NEW fr \in Frames
  PROVE  /\ fr \in Shape /\ fr.pc + 1 \in Nat /\ fr.turns + 1 \in Nat
         /\ fr.pc \in Nat /\ DOMAIN fr.refs = Kinds
BY CleanupAssumption DEF Frames, Shape

(* One reference more of a kind, or of none.                               *)
LEMMA WithIs ==
  ASSUME NEW fr \in Frames, NEW k
  PROVE  LET g == With(fr, k) IN
         /\ g \in Shape /\ g.fn = fr.fn
         /\ (g.old <=> fr.old) /\ (g.err <=> fr.err)
         /\ g.pc = fr.pc /\ g.turns = fr.turns /\ OneMore(fr, g, k)
<1>1. fr \in Shape
  BY FrameShape
<1>2. CASE k = "none"
  BY <1>1, <1>2 DEF With, OneMore, Shape, Kinds
<1>3. CASE k # "none"
  <2> DEFINE g == [fr EXCEPT !.refs[k] = @ + 1]
  <2>1. g = [fr EXCEPT !.refs = [fr.refs EXCEPT ![k] = fr.refs[k] + 1]]
    BY <1>1 DEF Shape
  <2>2. [fr.refs EXCEPT ![k] = fr.refs[k] + 1] \in [Kinds -> Nat]
    <3>1. fr.refs \in [Kinds -> Nat]
      BY <1>1 DEF Shape
    <3>2. k \in Kinds => fr.refs[k] + 1 \in Nat
      BY <3>1
    <3> QED BY <3>1, <3>2
  <2> QED BY <1>1, <1>3, <2>1, <2>2 DEF With, OneMore, Shape
<1> QED BY <1>2, <1>3

(* A frame at its next step is otherwise as it was.                        *)
LEMMA NextIs ==
  ASSUME NEW fr \in Shape
  PROVE  LET g == Next1(fr) IN
         /\ Same(fr, g) /\ (g.err <=> fr.err)
         /\ g.pc = fr.pc + 1 /\ g.turns = fr.turns /\ g.refs = fr.refs
BY DEF Next1, Same, Shape

(* A frame at its next step, with one reference more, is what a request    *)
(* makes of it.                                                            *)
LEMMA OneMoreGoes ==
  ASSUME NEW fr \in Frames, NEW k
  PROVE  LET g == Next1(With(fr, k)) IN
         Same(fr, g) /\ AskMoves(fr, g, k)
<1>1. With(fr, k) \in Shape
  BY WithIs
<1> QED BY <1>1, WithIs, NextIs, FrameShape DEF Same, AskMoves, Goes, OneMore

(* Where there is enough nothing is missing, and no count drops below      *)
(* zero.                                                                   *)
LEMMA EnoughIs ==
  ASSUME NEW fr \in Frames, NEW ks, Enough(fr, ks)
  PROVE  /\ Missing(fr, ks) = {}
         /\ \A x \in Kinds :
              Count(x, ks) \in Nat /\ fr.refs[x] - Count(x, ks) \in Nat
<1>1. \A x \in Kinds : Count(x, ks) \in Nat
  <2> SUFFICES ASSUME NEW x \in Kinds  PROVE Count(x, ks) \in Nat
    OBVIOUS
  <2>1. DOMAIN ks = 1..Len(ks) /\ Len(ks) \in Nat
    BY DEF Enough
  <2>2. IsFiniteSet(1..Len(ks))
    BY <2>1, FS_Interval
  <2>3. IsFiniteSet({i \in DOMAIN ks : ks[i] = x})
    BY <2>1, <2>2, FS_Subset
  <2> QED BY <2>3, FS_CardinalityType DEF Count
<1>2. \A i \in DOMAIN ks : ks[i] \in Kinds
  BY DEF Enough
<1>3. Missing(fr, ks) = {}
  BY <1>1, <1>2, FrameFacts DEF Enough, Missing
<1>4. \A x \in Kinds : fr.refs[x] - Count(x, ks) \in Nat
  <2> SUFFICES ASSUME NEW x \in Kinds  PROVE fr.refs[x] - Count(x, ks) \in Nat
    OBVIOUS
  <2>1. CASE \E i \in DOMAIN ks : ks[i] = x
    BY <1>1, <2>1, FrameFacts DEF Enough
  <2>2. CASE \A i \in DOMAIN ks : ks[i] # x
    BY <2>2, CountZero, FrameFacts
  <2> QED BY <2>1, <2>2
<1> QED BY <1>1, <1>3, <1>4

(* A frame without what a ladder drops is otherwise as it was.             *)
LEMMA FewerGoes ==
  ASSUME NEW fr \in Frames, NEW ks, Enough(fr, ks)
  PROVE  LET g == Without(fr, ks) IN
         /\ g \in Shape /\ g.fn = fr.fn
         /\ (g.old <=> fr.old) /\ (g.err <=> fr.err)
         /\ g.pc = fr.pc /\ g.turns = fr.turns
         /\ \A x \in Kinds : g.refs[x] = fr.refs[x] - Count(x, ks)
BY EnoughIs, FrameShape DEF Without, Shape


(* What a frame that has just been made has: nothing.                      *)
LEMMA FrameIs ==
  ASSUME NEW f \in Functions
  PROVE  /\ Frame(f) \in Frames /\ Frame(f).fn = f /\ Frame(f).pc = 1
         /\ Frame(f).turns = 0 /\ ~Frame(f).err /\ ~Frame(f).old
         /\ \A x \in Kinds : Frame(f).refs[x] = 0
BY CleanupAssumption DEF Frame, Frames, NoRefs

(* Begin: the program calls a function.                                    *)
LEMMA BeginKeeps ==
  ASSUME IInv, Begin
  PROVE  IInv'
<1> PICK f \in Roots : frames' = <<Frame(f)>>
  BY DEF Begin
<1>1. f \in Functions
  BY FunctionsAre DEF Roots
<1>2. /\ Frame(f) \in Frames /\ Frame(f).fn = f /\ Frame(f).pc = 1
      /\ Frame(f).turns = 0 /\ ~Frame(f).err /\ ~Frame(f).old
      /\ \A x \in Kinds : Frame(f).refs[x] = 0
  BY <1>1, FrameIs
<1>3. At(Frame(f)) /\ Hooked(Frame(f), {})
  BY <1>1, <1>2, FrameAt DEF Hooked
<1>4. failed' = {} /\ last' = NoReturn /\ fault' = NoFault
  BY DEF Begin
<1>5. /\ frames' \in Seq(Frames) /\ frames' # <<>> /\ Len(frames') = 1
      /\ frames'[1] = Frame(f)
  BY <1>2
<1>6. Sound(frames', failed')
  BY <1>2, <1>3, <1>4, <1>5 DEF Sound, Good
<1> QED BY <1>4, <1>6, SoundKeeps DEF LeavesNothing, ErrorOrResult

(* The process stops where it is known to.                                 *)
LEMMA FaultKeeps ==
  ASSUME IInv, fault = NoFault, frames # <<>>,
         NEW kind \in {"null", "assert", "drop"},
         Faults(kind), <<Top.fn, kind>> \in KnownFaults,
         failed' \subseteq {"request", "hook"}
  PROVE  IInv'
<1>1. Top \in Frames
  BY TopFacts
<1>2. /\ fault'.fn = Top.fn /\ fault'.kind = kind /\ frames' = frames
      /\ fault' \in [fn : Functions, kind : {"null", "assert", "drop"}]
      /\ last' = NoReturn
  BY <1>1 DEF Faults, Frames
<1>3. fault' # NoFault
  <2>1. fault'.kind # "none"
    BY <1>2
  <2> QED BY <2>1 DEF NoFault
<1>4. TypeOK'
  BY <1>2 DEF IInv, TypeOK
<1>5. DropsOnlyOwn' /\ LeavesNothing' /\ ErrorOrResult' /\ ErrorMeansError'
  BY <1>2 DEF DropsOnlyOwn, LeavesNothing, ErrorOrResult, ErrorMeansError
<1> QED BY <1>3, <1>4, <1>5 DEF IInv, Stack, Known

(* A step in which nothing fails.                                          *)
LEMMA StepKeeps ==
  ASSUME IInv, fault = NoFault, frames # <<>>, NEW g, Same(Top, g),
         Continue(g), failed' = failed, g.err <=> Top.err,
         Moves(Top, g, failed)
  PROVE  IInv'
<1>1. failed' # {} <=> failed # {} \/ g.err
  BY TopFacts DEF Bad
<1> QED BY <1>1, TopFacts, ContinueKeeps DEF Same

(* A frame at another step is otherwise as it was.                         *)
LEMMA GotoIs ==
  ASSUME NEW fr \in Shape, NEW n \in Nat
  PROVE  LET g == [fr EXCEPT !.pc = n] IN
         Same(fr, g) /\ Goes(fr, g, n) /\ Keeps(fr, g)
BY DEF Same, Goes, Keeps, Shape

(* A hook, a branch or a loop that leads elsewhere leads to a step.        *)
LEMMA StepTo ==
  ASSUME IInv, fault = NoFault, frames # <<>>,
         Step.op \in {"hook", "either", "loop", "back"}
  PROVE  Step.to \in Nat
BY TopFacts DEF Outs, Step

(* DoMake: an allocation.                                                  *)
LEMMA MakeKeeps ==
  ASSUME IInv, DoMake
  PROVE  IInv'
<1>1. fault = NoFault /\ frames # <<>> /\ Step.op = "make"
  BY DEF DoMake, Running
<1> DEFINE g == Next1(With(Top, Step.k))
<1>2. Same(Top, g) /\ AskMoves(Top, g, Step.k)
  BY <1>1, TopFacts, OneMoreGoes
<1>3. Moves(Top, g, failed)
  BY <1>1, <1>2 DEF Moves, Step
<1>4. Continue(g) /\ failed' = failed /\ (g.err <=> Top.err)
  BY <1>2 DEF DoMake, AskMoves, Goes
<1> HIDE DEF g
<1> QED BY <1>1, <1>2, <1>3, <1>4, StepKeeps

(* DoHook: of the three ways out of a hook one adds an error.              *)
LEMMA HookKeeps ==
  ASSUME IInv, DoHook
  PROVE  IInv'
<1>1. fault = NoFault /\ frames # <<>> /\ Step.op = "hook"
  BY DEF DoHook, Running
<1>2. Top \in Frames /\ Top \in Shape /\ failed \subseteq {"request", "hook"}
  BY <1>1, TopFacts, FrameShape
<1>3. CASE Continue(Next1(Top)) /\ failed' = failed
  <2>1. Moves(Top, Next1(Top), failed)
    BY <1>1, <1>2, NextIs DEF Moves, HookMoves, Keeps, Goes, Step
  <2> QED BY <1>1, <1>2, <1>3, <2>1, NextIs, StepKeeps
<1>4. CASE Continue([Top EXCEPT !.pc = Step.to]) /\ failed' = failed
  <2> DEFINE g == [Top EXCEPT !.pc = Step.to]
  <2>1. Same(Top, g) /\ Goes(Top, g, Step.to) /\ Keeps(Top, g)
    BY <1>1, <1>2, StepTo, GotoIs
  <2>2. Moves(Top, g, failed)
    BY <1>1, <2>1 DEF Moves, HookMoves, Step
  <2> HIDE DEF g
  <2> QED BY <1>1, <1>4, <2>1, <2>2, StepKeeps DEF g, Goes
<1>5. CASE /\ Continue([Top EXCEPT !.pc = Step.to, !.err = TRUE])
           /\ failed' = failed \cup {"hook"}
  <2> DEFINE g == [Top EXCEPT !.pc = Step.to, !.err = TRUE]
  <2>1. /\ g.fn = Top.fn /\ g.old = Top.old /\ g.err /\ g.pc = Step.to
        /\ g.turns = Top.turns /\ g.refs = Top.refs
    BY <1>2 DEF Shape
  <2>2. Same(Top, g)
    BY <1>1, <1>2, <2>1, StepTo DEF Same, Shape
  <2>3. Moves(Top, g, failed')
    BY <1>1, <1>5, <2>1 DEF Moves, HookMoves, Keeps, Step
  <2> HIDE DEF g
  <2> QED BY <1>1, <1>2, <1>5, <2>1, <2>2, <2>3, ContinueKeeps DEF g, Same
<1> QED BY <1>3, <1>4, <1>5 DEF DoHook

(* DoBranch: a branch, a loop, or the way back.                            *)
LEMMA BranchKeeps ==
  ASSUME IInv, DoBranch
  PROVE  IInv'
<1>1. /\ fault = NoFault /\ frames # <<>> /\ failed' = failed
      /\ Step.op \in {"either", "loop", "back"}
  BY DEF DoBranch, Running
<1>2. Top \in Frames /\ Top \in Shape /\ Step.to \in Nat /\ Top.pc + 1 \in Nat
  BY <1>1, TopFacts, FrameShape, StepTo
<1>3. CASE /\ Running("either")
           /\ \E pc \in {Top.pc + 1, Step.to} :
                Continue([Top EXCEPT !.pc = pc])
  <2> PICK pc \in {Top.pc + 1, Step.to} : Continue([Top EXCEPT !.pc = pc])
    BY <1>3
  <2> DEFINE g == [Top EXCEPT !.pc = pc]
  <2>1. Same(Top, g) /\ Goes(Top, g, pc) /\ Keeps(Top, g)
    BY <1>2, GotoIs
  <2>2. Moves(Top, g, failed)
    BY <1>3, <2>1 DEF Moves, EitherMoves, Running, Step
  <2> HIDE DEF g
  <2> QED BY <1>1, <2>1, <2>2, StepKeeps DEF g, Goes
<1>4. CASE Running("loop") /\ Top.turns < MaxTurns /\ Continue(Next1(Top))
  <2>1. /\ Same(Top, Next1(Top)) /\ Goes(Top, Next1(Top), Top.pc + 1)
        /\ Keeps(Top, Next1(Top))
    BY <1>2, NextIs DEF Goes, Keeps
  <2>2. Moves(Top, Next1(Top), failed)
    BY <1>4, <2>1 DEF Moves, LoopMoves, Running, Step
  <2> QED BY <1>1, <1>4, <2>1, <2>2, StepKeeps DEF Goes
<1>5. CASE Running("loop") /\ Continue([Top EXCEPT !.pc = Step.to])
  <2> DEFINE g == [Top EXCEPT !.pc = Step.to]
  <2>1. Same(Top, g) /\ Goes(Top, g, Step.to) /\ Keeps(Top, g)
    BY <1>2, GotoIs
  <2>2. Moves(Top, g, failed)
    BY <1>5, <2>1 DEF Moves, LoopMoves, Running, Step
  <2> HIDE DEF g
  <2> QED BY <1>1, <1>5, <2>1, <2>2, StepKeeps DEF g, Goes
<1>6. CASE /\ Running("back")
           /\ Continue([Top EXCEPT !.pc = Step.to, !.turns = @ + 1])
  <2> DEFINE g == [Top EXCEPT !.pc = Step.to, !.turns = @ + 1]
  <2>1. /\ Same(Top, g) /\ Keeps(Top, g) /\ g.pc = Step.to
        /\ g.turns = Top.turns + 1 /\ (g.err <=> Top.err)
    BY <1>2, FrameShape DEF Same, Keeps, Shape
  <2>2. Moves(Top, g, failed)
    BY <1>6, <2>1 DEF Moves, BackMoves, Running, Step
  <2> HIDE DEF g
  <2> QED BY <1>1, <1>6, <2>1, <2>2, StepKeeps DEF g
<1> QED BY <1>3, <1>4, <1>5, <1>6 DEF DoBranch

(* DoGive: a reference becomes part of the value.                          *)
LEMMA GiveKeeps ==
  ASSUME IInv, DoGive
  PROVE  IInv'
<1>1. fault = NoFault /\ frames # <<>> /\ Step.op = "give"
  BY DEF DoGive, Running
<1>2. Top \in Frames /\ Top \in Shape
  BY <1>1, TopFacts, FrameShape
<1> DEFINE h == [Top EXCEPT !.refs[Step.k] = 0]
           g == Next1(h)
<1>3. /\ h \in Shape /\ h.fn = Top.fn /\ h.old = Top.old /\ h.err = Top.err
      /\ h.pc = Top.pc /\ h.turns = Top.turns
      /\ \A x \in Kinds : h.refs[x] = IF x = Step.k THEN 0 ELSE Top.refs[x]
  <2>1. h = [Top EXCEPT !.refs = [Top.refs EXCEPT ![Step.k] = 0]]
    BY <1>2 DEF Shape
  <2>2. [Top.refs EXCEPT ![Step.k] = 0] \in [Kinds -> Nat]
    BY <1>2 DEF Shape
  <2> QED BY <1>2, <2>1, <2>2 DEF Shape
<1> HIDE DEF h
<1>4. Same(Top, g) /\ GiveMoves(Top, g, Step.k) /\ (g.err <=> Top.err)
  BY <1>3, NextIs DEF Same, GiveMoves, Goes
<1>5. Moves(Top, g, failed)
  BY <1>1, <1>4 DEF Moves, Step
<1>6. Continue(g) /\ failed' = failed
  BY DEF DoGive, h
<1> HIDE DEF g
<1> QED BY <1>1, <1>4, <1>5, <1>6, StepKeeps

(* DoDrop: the references that are dropped are there.                      *)
LEMMA DropKeeps ==
  ASSUME IInv, DoDrop
  PROVE  IInv'
<1>1. fault = NoFault /\ frames # <<>> /\ Step.op = "drop" /\ failed' = failed
  BY DEF DoDrop, Running
<1>2. Top \in Frames /\ Top \in Shape /\ Enough(Top, Step.ks)
  BY <1>1, TopFacts, FrameShape DEF Outs, Step
<1> DEFINE g == Next1(Without(Top, Step.ks))
<1>3. Continue(g)
  BY <1>2, EnoughIs DEF DoDrop
<1>4. Same(Top, g) /\ DropMoves(Top, g, Step.ks) /\ (g.err <=> Top.err)
  BY <1>2, FewerGoes, NextIs DEF Same, DropMoves, Goes
<1>5. Moves(Top, g, failed)
  BY <1>1, <1>4 DEF Moves, Step
<1> HIDE DEF g
<1> QED BY <1>1, <1>3, <1>4, <1>5, StepKeeps


(* e: whether an error is passed on.                                       *)
Passes(fr, k, e, what) ==
  /\ Gives(fr, k) =>
       /\ k = Result(fr.fn)
       /\ \A x \in Kinds :
            fr.refs[x] > (IF x = k THEN 1 ELSE 0) + Kept(fr, x)
              => <<fr.fn, x>> \in Leaks("done")
       /\ e = "yes" => /\ fr.fn \notin Sure
                       /\ \/ "hook" \in what
                          \/ fr.fn \in {"json_deserialize_pointer",
                                        "json_deserialize"}
  /\ ~Gives(fr, k) =>
       /\ e = "no" => fr.fn \notin Sure
       /\ \A x \in Kinds :
            fr.refs[x] > Kept(fr, x)
              => <<fr.fn, x>> \in Leaks(IF e = "yes" THEN How(what) ELSE "done")

(* What a function tells of itself when it returns.                        *)
LEMMA FinishLast ==
  ASSUME NEW fr \in Shape, NEW k \in Kinds \cup {"none"},
         NEW e \in {"yes", "no"}, Finish(fr, k, e = "yes"),
         Passes(fr, k, e, failed')
  PROVE  /\ last'.error <=> e = "yes"
         /\ LeavesNothing' /\ ErrorOrResult'
<1>1. /\ last'.fn = fr.fn /\ (last'.gives <=> Gives(fr, k))
      /\ last'.error <=> e = "yes"
      /\ last'.turns = fr.turns
      /\ \A x \in Kinds : last'.left[x] =
           IF Gives(fr, k) /\ x = k THEN fr.refs[x] - 1 ELSE fr.refs[x]
  <2>1. CASE Gives(fr, k)
    <3> DEFINE left == [fr.refs EXCEPT ![k] = @ - 1]
    <3>1. \A x \in Kinds :
            left[x] = IF x = k THEN fr.refs[x] - 1 ELSE fr.refs[x]
      BY DEF Shape
    <3>2. last' = [fn |-> fr.fn, gives |-> TRUE, error |-> e = "yes",
                   left |-> left, turns |-> fr.turns]
      BY <2>1 DEF Finish, Gives
    <3> HIDE DEF left
    <3>3. /\ last'.fn = fr.fn /\ last'.gives /\ (last'.error <=> e = "yes")
          /\ last'.left = left /\ last'.turns = fr.turns
      BY <3>2
    <3> QED BY <2>1, <3>1, <3>3
  <2>2. CASE ~Gives(fr, k)
    <3>1. last' = [fn |-> fr.fn, gives |-> FALSE, error |-> e = "yes",
                   left |-> fr.refs, turns |-> fr.turns]
      BY <2>2 DEF Finish, Gives
    <3> QED BY <2>2, <3>1
  <2> QED BY <2>1, <2>2
<1>2. ErrorOrResult'
  BY <1>1 DEF ErrorOrResult, Passes
<1>3. \A x \in Kinds : Kept(fr, x) = Appended(last'.fn, x, last'.turns)
  BY <1>1 DEF Kept
<1>4. LeavesNothing'
  <2>1. CASE Gives(fr, k)
    <3>1. \A x \in Kinds : /\ fr.refs[x] \in Nat /\ fr.turns \in Nat
                           /\ Kept(fr, x) \in Nat
      BY DEF Shape, Kept, Appended
    <3>2. \A x \in Kinds : last'.left[x] > Kept(fr, x) =>
            fr.refs[x] > (IF x = k THEN 1 ELSE 0) + Kept(fr, x)
      BY <1>1, <2>1, <3>1
    <3>3. \A x \in Kinds :
            last'.left[x] > Kept(fr, x) => <<fr.fn, x>> \in KnownLeaks.done
      BY <2>1, <3>2 DEF Passes, Leaks
    <3> QED BY <1>1, <1>3, <2>1, <3>3 DEF LeavesNothing
  <2>2. CASE ~Gives(fr, k)
    <3>1. \A x \in Kinds : last'.left[x] > Kept(fr, x) =>
            <<fr.fn, x>> \in Leaks(IF e = "yes" THEN How(failed') ELSE "done")
      BY <1>1, <2>2 DEF Passes
    <3>2. CASE e = "yes"
      BY <1>1, <1>3, <2>2, <3>1, <3>2 DEF LeavesNothing, Leaks, How
    <3>3. CASE e = "no"
      BY <1>1, <1>3, <2>2, <3>1, <3>3 DEF LeavesNothing, Leaks
    <3> QED BY <3>2, <3>3
  <2> QED BY <2>1, <2>2
<1> QED BY <1>1, <1>2, <1>4

(* The caller goes on with what it is given.                               *)
Given(fr, k) == IF Gives(fr, k) THEN k ELSE "none"
Caller(h, fr, k, e) == [With(h, Given(fr, k)) EXCEPT !.err = @ \/ e = "yes"]

(* The caller of a function that returns is at a step of the table with    *)
(* what it is given.                                                       *)
LEMMA CallerGoesOn ==
  ASSUME NEW h, NEW fr, NEW k \in Kinds \cup {"none"},
         NEW e \in {"yes", "no"}, NEW what,
         Waits(h, fr.fn), Hooked(h, what), Passes(fr, k, e, what)
  PROVE  LET g == Caller(h, fr, k, e) IN
         Good(g, what) /\ Same(h, g) /\ (g.err <=> h.err \/ e = "yes")
<1> DEFINE j == Given(fr, k)
           g == Caller(h, fr, k, e)
           b == Before(h)
<1> SUFFICES Good(g, what) /\ Same(h, g) /\ (g.err <=> h.err \/ e = "yes")
  OBVIOUS
<1>0. j = IF Gives(fr, k) THEN k ELSE "none"
  BY DEF Given
<1> HIDE DEF j
<1>1. h \in Frames /\ h.pc > 1 /\ At(b) /\ h \in Shape
  BY FrameShape DEF Waits
<1>2. /\ b \in Shape /\ b.fn = h.fn /\ b.old = h.old /\ b.err = h.err
      /\ b.pc = h.pc - 1 /\ b.turns = h.turns /\ b.refs = h.refs
  BY <1>1 DEF Before, Shape
<1>3. Good(b, what)
  BY <1>1, <1>2 DEF Good, Hooked
<1> HIDE DEF b
<1>4. PICK f \in Code[b.fn][b.pc].fns : Alike(f, fr.fn)
  <2>1. \E f \in Code[h.fn][h.pc - 1].fns : Alike(f, fr.fn)
    BY DEF Waits
  <2> QED BY <1>2, <2>1
<1>5. Code[b.fn][b.pc].op = "run"
  BY <1>2 DEF Waits
<1>6. /\ Same(h, g) /\ (g.err <=> h.err \/ e = "yes") /\ g.pc = h.pc
      /\ g.turns = h.turns /\ OneMore(h, g, j)
  <2> DEFINE w == With(h, j)
  <2>1. /\ w \in Shape /\ w.fn = h.fn /\ (w.old <=> h.old) /\ (w.err <=> h.err)
        /\ w.pc = h.pc /\ w.turns = h.turns /\ OneMore(h, w, j)
    BY <1>1, WithIs
  <2>2. g = [w EXCEPT !.err = @ \/ e = "yes"]
    BY DEF Caller, j
  <2> HIDE DEF w
  <2>3. /\ g \in Shape /\ g.fn = w.fn /\ (g.old <=> w.old) /\ g.pc = w.pc
        /\ g.turns = w.turns /\ g.refs = w.refs
    BY <2>1, <2>2 DEF Shape
  <2>4. g.err <=> w.err \/ e = "yes"
    BY <2>1, <2>2 DEF Shape
  <2> QED BY <2>1, <2>3, <2>4 DEF Same, OneMore
<1> HIDE DEF g
<1>7. g.pc = b.pc + 1 /\ g.turns = b.turns
  BY <1>1, <1>2, <1>6 DEF Shape
<1>8. /\ Result(f) = Result(fr.fn) /\ (f \in Sure => f = fr.fn)
      /\ fr.fn \in {"json_deserialize_pointer", "json_deserialize"}
           => f \notin Serializers
  BY <1>4, AlikeResult
<1>9. RunMoves(b, g, f, what)
  <2>1. CASE Gives(fr, k)
    <3>1. OneMore(b, g, Result(f)) /\ Result(f) # "none"
      BY <1>2, <1>6, <1>8, <1>0, <2>1 DEF Passes, OneMore, Gives
    <3>2. CASE e = "yes"
      BY <1>2, <1>6, <1>7, <1>8, <2>1, <3>1, <3>2 DEF Passes, RunMoves
    <3>3. CASE e = "no"
      BY <1>2, <1>6, <1>7, <1>8, <2>1, <3>1, <3>3 DEF RunMoves
    <3> QED BY <3>2, <3>3
  <2>2. CASE ~Gives(fr, k)
    <3>1. Keeps(b, g)
      BY <1>2, <1>6, <1>0, <2>2 DEF OneMore, Keeps, Kinds
    <3>2. CASE e = "yes"
      BY <1>2, <1>6, <1>7, <1>8, <2>2, <3>1, <3>2 DEF RunMoves
    <3>3. CASE e = "no"
      BY <1>2, <1>6, <1>7, <1>8, <2>2, <3>1, <3>3 DEF Passes, RunMoves
    <3> QED BY <3>2, <3>3
  <2> QED BY <2>1, <2>2
<1>10. Moves(b, g, what)
  BY <1>4, <1>5, <1>9 DEF Moves
<1>11. Flows(b, what)
  BY <1>3, AllFlows
<1> QED BY <1>2, <1>6, <1>10, <1>11 DEF Flows, Same


(* A function returns: to the program, or to the frame that waits for it.  *)
LEMMA FinishKeeps ==
  ASSUME IInv, fault = NoFault, frames # <<>>,
         NEW fr \in Shape, NEW k \in Kinds \cup {"none"},
         NEW e \in {"yes", "no"},
         fr.fn = Top.fn, Finish(fr, k, e = "yes"), Passes(fr, k, e, failed'),
         failed \subseteq failed', failed' \subseteq {"request", "hook"},
         failed' # {} => failed # {} \/ e = "yes",
         e = "yes" => failed' # {}, Bad(Top) => e = "yes"
  PROVE  IInv'
<1>1. /\ frames \in Seq(Frames) /\ Top = frames[1] /\ Len(frames) >= 1
      /\ Sound(frames, failed)
  BY TopFacts, SoundIs
<1>2. failed # {} <=> \E i \in 1..Len(frames) : frames[i].err \/ frames[i].old
  BY <1>1 DEF Sound
<1>3. (last'.error <=> e = "yes") /\ LeavesNothing' /\ ErrorOrResult'
  BY FinishLast
<1>4. fault' = NoFault
  BY DEF Finish
<1>5. CASE Tail(frames) = <<>>
  <2>1. frames' = <<>>
    BY <1>5 DEF Finish
  <2>2. Len(frames) = 1
    BY <1>1, <1>5, Single
  <2>3. e = "yes" <=> failed' # {}
    BY <1>1, <1>2, <2>2 DEF Bad
  <2>4. ErrorMeansError'
    BY <1>3, <2>3 DEF ErrorMeansError
  <2>5. TypeOK'
    BY <1>4, <2>1 DEF TypeOK
  <2> QED BY <1>3, <1>4, <2>1, <2>4, <2>5 DEF IInv, Stack, Known, DropsOnlyOwn
<1>6. CASE Tail(frames) # <<>>
  <2> DEFINE h == frames[2]
             g == Caller(h, fr, k, e)
  <2>1. Head(Tail(frames)) = h /\ 2 \in 2..Len(frames)
    BY <1>1, <1>6
  <2>2. Waits(h, fr.fn) /\ Hooked(h, failed')
    <3>1. Waits(frames[2], frames[2 - 1].fn) /\ Hooked(frames[2], failed)
      BY <1>1, <2>1 DEF Sound
    <3>2. frames[2 - 1].fn = fr.fn
      BY <1>1
    <3> QED BY <3>1, <3>2, MoreFailed
  <2>3. frames' = <<g>> \o Tail(Tail(frames))
    BY <1>6, <2>1 DEF Finish, Gives, Given, Caller
  <2> HIDE DEF h
  <2>4. Good(g, failed') /\ Same(h, g) /\ (g.err <=> h.err \/ e = "yes")
    BY <2>2, CallerGoesOn
  <2> HIDE DEF g
  <2>5. g \in Frames /\ g.fn = h.fn /\ (g.old <=> h.old)
    BY <2>4 DEF Good, At, Same
  <2>6. /\ frames' \in Seq(Frames) /\ frames' # <<>>
        /\ Len(frames') = Len(frames) - 1 /\ Len(frames) >= 2
        /\ frames'[1] = g
        /\ \A i \in 2..Len(frames') : frames'[i] = frames[i + 1]
    BY <1>1, <1>6, <2>3, <2>5, Below
  <2>7. \A i \in 2..Len(frames') :
          Waits(frames'[i], frames'[i - 1].fn) /\ Hooked(frames'[i], failed')
    <3> SUFFICES ASSUME NEW i \in 2..Len(frames')
                 PROVE  /\ Waits(frames'[i], frames'[i - 1].fn)
                        /\ Hooked(frames'[i], failed')
      OBVIOUS
    <3>1. i + 1 \in 2..Len(frames) /\ (i + 1) - 1 = i
      BY <1>1, <2>6
    <3>2. Waits(frames[i + 1], frames[i].fn) /\ Hooked(frames[i + 1], failed)
      BY <1>1, <3>1 DEF Sound
    <3>3. frames'[i] = frames[i + 1]
      BY <2>6
    <3>4. frames'[i - 1].fn = frames[i].fn
      <4>1. CASE i = 2
        BY <2>5, <2>6, <4>1 DEF h
      <4>2. CASE i # 2
        BY <1>1, <2>6, <4>2
      <4> QED BY <4>1, <4>2
    <3> QED BY <3>2, <3>3, <3>4, MoreFailed
  <2>8. failed' # {} <=>
          \E i \in 1..Len(frames') : frames'[i].err \/ frames'[i].old
    <3>1. ASSUME failed' # {}
          PROVE  \E i \in 1..Len(frames') : frames'[i].err \/ frames'[i].old
      <4>1. CASE e = "yes"
        BY <2>4, <2>6, <4>1
      <4>2. CASE e # "yes"
        <5>1. PICK i \in 1..Len(frames) : frames[i].err \/ frames[i].old
          BY <1>2, <3>1, <4>2
        <5>2. i # 1
          BY <1>1, <4>2, <5>1 DEF Bad
        <5>3. CASE i = 2
          BY <2>4, <2>5, <2>6, <5>1, <5>3 DEF h
        <5>4. CASE i # 2
          <6>1. i - 1 \in 2..Len(frames') /\ (i - 1) + 1 = i
            BY <1>1, <2>6, <5>2, <5>4
          <6>2. frames'[i - 1] = frames[i]
            BY <2>6, <6>1
          <6> QED BY <5>1, <6>1, <6>2
        <5> QED BY <5>3, <5>4
      <4> QED BY <4>1, <4>2
    <3>2. ASSUME NEW i \in 1..Len(frames'), frames'[i].err \/ frames'[i].old
          PROVE  failed' # {}
      <4>1. CASE i = 1
        <5>1. h.err \/ h.old \/ e = "yes"
          BY <2>4, <2>5, <2>6, <3>2, <4>1
        <5>2. h.err \/ h.old => failed # {}
          BY <1>1, <1>2, <2>6 DEF h
        <5> QED BY <5>1, <5>2
      <4>2. CASE i # 1
        <5>1. i + 1 \in 1..Len(frames) /\ frames'[i] = frames[i + 1]
          BY <1>1, <2>6, <4>2
        <5> QED BY <1>2, <3>2, <5>1
      <4> QED BY <4>1, <4>2
    <3> QED BY <3>1, <3>2
  <2>9. Sound(frames', failed')
    BY <2>4, <2>6, <2>7, <2>8 DEF Sound
  <2> QED BY <1>3, <1>4, <2>9, SoundKeeps
<1> QED BY <1>5, <1>6

(* DoRun: the caller waits behind the call.                                *)
LEMMA RunKeeps ==
  ASSUME IInv, DoRun
  PROVE  IInv'
<1>1. fault = NoFault /\ frames # <<>> /\ Step.op = "run" /\ failed' = failed
  BY DEF DoRun, Running
<1>2. /\ frames \in Seq(Frames) /\ Top = frames[1] /\ Len(frames) >= 1
      /\ Top \in Frames /\ Good(Top, failed) /\ Outs(Top, failed)
      /\ Sound(frames, failed)
  BY <1>1, TopFacts, SoundIs
<1>3. PICK f \in Step.fns : frames' = <<Frame(f), Next1(Top)>> \o Tail(frames)
  BY DEF DoRun
<1>4. f \in Functions /\ Top.pc + 1 \in DOMAIN Code[Top.fn]
  BY <1>1, <1>2 DEF Outs, Step
<1> DEFINE h == Next1(Top)
<1>5. /\ h \in Shape /\ h.fn = Top.fn
      /\ (h.old <=> Top.old) /\ (h.err <=> Top.err)
      /\ h.pc = Top.pc + 1 /\ h.turns = Top.turns /\ h.refs = Top.refs
  BY <1>2, FrameShape, NextIs DEF Same
<1>6. h \in Frames
  BY <1>2, <1>4, <1>5, CodeLength DEF Frames, Shape
<1>7. Before(h) = Top
  <2>1. h = [Top EXCEPT !.pc = Top.pc + 1] /\ Top.pc \in Nat
    BY <1>2, FrameShape DEF Next1
  <2>2. Before(h) = [h EXCEPT !.pc = Top.pc]
    <3>1. h.pc - 1 = Top.pc
      BY <1>5, <2>1
    <3> HIDE DEF h
    <3> QED BY <3>1 DEF Before
  <2>3. [h EXCEPT !.pc = Top.pc] = Top
    BY <1>2, <2>1 DEF Frames
  <2> QED BY <2>2, <2>3
<1>8. /\ Frame(f) \in Frames /\ Frame(f).fn = f /\ Frame(f).pc = 1
      /\ Frame(f).turns = 0 /\ ~Frame(f).err /\ ~Frame(f).old
      /\ \A x \in Kinds : Frame(f).refs[x] = 0
  BY <1>4, FrameIs
<1>9. Good(Frame(f), failed)
  BY <1>4, <1>8, FrameAt DEF Hooked, Good
<1>10. Waits(h, f)
  <2>1. h.pc > 1 /\ h.pc \in DOMAIN Code[h.fn] /\ h.pc - 1 = Top.pc
    BY <1>2, <1>4, <1>5, FrameShape, SMTT(30) DEF Frames
  <2>2. f \in Code[h.fn][h.pc - 1].fns /\ Code[h.fn][h.pc - 1].op = "run"
    BY <1>1, <1>5, <2>1 DEF Step
  <2> QED BY <1>2, <1>6, <1>7, <2>1, <2>2 DEF Waits, Good, Alike
<1>11. Hooked(h, failed)
  BY <1>2, <1>5 DEF Good, Hooked
<1> HIDE DEF h
<1>12. /\ frames' \in Seq(Frames) /\ frames' # <<>>
       /\ Len(frames') = Len(frames) + 1
       /\ frames'[1] = Frame(f) /\ frames'[2] = h
       /\ \A i \in 3..Len(frames') : frames'[i] = frames[i - 1]
  BY <1>2, <1>3, <1>6, <1>8, Above DEF h
<1>13. \A i \in 2..Len(frames') :
         Waits(frames'[i], frames'[i - 1].fn) /\ Hooked(frames'[i], failed')
  <2> SUFFICES ASSUME NEW i \in 2..Len(frames')
               PROVE  /\ Waits(frames'[i], frames'[i - 1].fn)
                      /\ Hooked(frames'[i], failed')
    OBVIOUS
  <2>1. CASE i = 2
    <3>1. frames'[i] = h /\ frames'[i - 1].fn = f
      BY <1>8, <1>12, <2>1
    <3> QED BY <1>1, <1>10, <1>11, <3>1
  <2>2. CASE i # 2
    <3>1. i - 1 \in 2..Len(frames) /\ i \in 3..Len(frames')
      BY <1>2, <1>12, <2>2
    <3>2. /\ Waits(frames[i - 1], frames[(i - 1) - 1].fn)
          /\ Hooked(frames[i - 1], failed)
      BY <1>2, <3>1 DEF Sound
    <3>3. frames'[i] = frames[i - 1]
      BY <1>12, <3>1
    <3>4. frames'[i - 1].fn = frames[(i - 1) - 1].fn
      <4>1. CASE i = 3
        BY <1>2, <1>5, <1>12, <4>1
      <4>2. CASE i # 3
        BY <1>12, <2>2, <4>2
      <4> QED BY <4>1, <4>2
    <3> QED BY <1>1, <3>2, <3>3, <3>4
  <2> QED BY <2>1, <2>2
<1>14. failed' # {} <=>
         \E i \in 1..Len(frames') : frames'[i].err \/ frames'[i].old
  <2>1. failed # {} <=>
          \E i \in 1..Len(frames) : frames[i].err \/ frames[i].old
    BY <1>2 DEF Sound
  <2>2. ASSUME NEW i \in 1..Len(frames), frames[i].err \/ frames[i].old
        PROVE  \E n \in 1..Len(frames') : frames'[n].err \/ frames'[n].old
    <3>1. i + 1 \in 1..Len(frames')
      BY <1>2, <1>12
    <3>2. frames'[i + 1].err \/ frames'[i + 1].old
      <4>1. CASE i = 1
        BY <1>2, <1>5, <1>12, <2>2, <4>1
      <4>2. CASE i # 1
        <5>1. i + 1 \in 3..Len(frames') /\ (i + 1) - 1 = i
          BY <1>2, <1>12, <4>2
        <5> QED BY <1>12, <2>2, <5>1
      <4> QED BY <4>1, <4>2
    <3> QED BY <3>1, <3>2
  <2>3. ASSUME NEW i \in 1..Len(frames'), frames'[i].err \/ frames'[i].old
        PROVE  \E n \in 1..Len(frames) : frames[n].err \/ frames[n].old
    <3>1. i # 1
      BY <1>8, <1>12, <2>3
    <3>2. i - 1 \in 1..Len(frames)
      BY <1>2, <1>12, <3>1
    <3>3. frames[i - 1].err \/ frames[i - 1].old
      <4>1. CASE i = 2
        BY <1>2, <1>5, <1>12, <2>3, <4>1
      <4>2. CASE i # 2
        BY <1>12, <2>3, <3>1, <4>2
      <4> QED BY <4>1, <4>2
    <3> QED BY <3>2, <3>3
  <2> QED BY <1>1, <2>1, <2>2, <2>3
<1>15. Sound(frames', failed')
  BY <1>1, <1>2, <1>8, <1>9, <1>12, <1>13, <1>14 DEF Sound
<1> QED BY <1>1, <1>15, SoundKeeps DEF DoRun, LeavesNothing, ErrorOrResult


(* A ladder is left by: the process stops where it is known to, or the     *)
(* function returns.                                                       *)
LEMMA LeaveKeeps ==
  ASSUME IInv, fault = NoFault, frames # <<>>,
         NEW fr \in Frames, fr.fn = Top.fn, fr.refs = Top.refs,
         Bad(Top) => Bad(fr), NEW ks, Leave(fr, ks),
         fr.turns = Top.turns,
         Ladder(Top, ks, IF Bad(fr) THEN How(failed') ELSE "done"),
         failed \subseteq failed', failed' \subseteq {"request", "hook"},
         failed' # {} <=> failed # {} \/ Bad(fr)
  PROVE  IInv'
<1>1. Top \in Frames /\ Top.fn \in Functions
  BY TopFacts DEF Frames
<1>2. Missing(fr, ks) = Missing(Top, ks)
  BY DEF Missing
<1>3. CASE ks \in {<<"null">>, <<"assert">>}
  <2>1. Faults(ks[1]) /\ <<Top.fn, ks[1]>> \in KnownFaults
    BY <1>3 DEF Leave, Ladder
  <2>2. ks[1] \in {"null", "assert", "drop"}
    BY <1>3
  <2> QED BY <2>1, <2>2, FaultKeeps
<1>4. CASE ks \notin {<<"null">>, <<"assert">>} /\ Missing(fr, ks) # {}
  <2>1. Faults("drop")
    BY <1>4 DEF Leave
  <2>2. ~Enough(Top, ks)
    BY <1>1, <1>2, <1>4, EnoughIs
  <2>3. <<Top.fn, "drop">> \in KnownFaults
    BY <1>4, <2>2 DEF Ladder
  <2> QED BY <2>1, <2>3, FaultKeeps
<1>5. CASE ks \notin {<<"null">>, <<"assert">>} /\ Missing(fr, ks) = {}
  <2> PICK e \in {"yes", "no"} : e = "yes" <=> Bad(fr)
    OBVIOUS
  <2> DEFINE g == Without(fr, ks)
  <2>1. /\ Enough(Top, ks)
        /\ e = "no" => Top.fn \notin Sure
        /\ \A x \in Kinds : Top.refs[x] > Count(x, ks) + Kept(Top, x) =>
             <<Top.fn, x>> \in
               Leaks(IF e = "yes" THEN How(failed') ELSE "done")
    BY <1>2, <1>5 DEF Ladder
  <2>2. Enough(fr, ks)
    BY <2>1 DEF Enough
  <2>3. /\ g \in Shape /\ g.fn = fr.fn /\ g.turns = fr.turns
        /\ \A x \in Kinds : /\ g.refs[x] = fr.refs[x] - Count(x, ks)
                            /\ fr.refs[x] \in Nat /\ Count(x, ks) \in Nat
    BY <2>2, FewerGoes, EnoughIs, FrameFacts
  <2>4. Finish(g, "none", fr.err \/ fr.old)
    BY <1>5 DEF Leave
  <2>5. Finish(g, "none", e = "yes")
    BY <2>4 DEF Finish, Bad
  <2> HIDE DEF g
  <2>6. \A x \in Kinds :
          g.refs[x] > Kept(g, x) => Top.refs[x] > Count(x, ks) + Kept(Top, x)
    <3>1. \A x \in Kinds : Kept(g, x) = Kept(Top, x) /\ Kept(Top, x) \in Nat
      BY <1>1, <2>3, KeptIs DEF Kept
    <3> QED BY <2>3, <3>1
  <2>7. Passes(g, "none", e, failed')
    BY <2>1, <2>3, <2>6 DEF Passes, Gives
  <2>8. /\ g \in Shape /\ g.fn = Top.fn /\ "none" \in Kinds \cup {"none"}
        /\ failed' # {} => failed # {} \/ e = "yes"
        /\ e = "yes" => failed' # {}
        /\ Bad(Top) => e = "yes"
    BY <2>3
  <2> QED BY <2>5, <2>7, <2>8, FinishKeeps
<1> QED BY <1>3, <1>4, <1>5

(* DoAsk: a request is answered, or fails.                                 *)
LEMMA AskKeeps ==
  ASSUME IInv, DoAsk
  PROVE  IInv'
<1>1. fault = NoFault /\ frames # <<>> /\ Step.op = "ask"
  BY DEF DoAsk, Running
<1>2. /\ Top \in Frames /\ Outs(Top, failed)
      /\ failed \subseteq {"request", "hook"}
  BY <1>1, TopFacts
<1>3. CASE Continue(Next1(With(Top, Step.k))) /\ failed' = failed
  <2> DEFINE g == Next1(With(Top, Step.k))
  <2>1. Same(Top, g) /\ AskMoves(Top, g, Step.k)
    BY <1>2, OneMoreGoes
  <2>2. Moves(Top, g, failed)
    BY <1>1, <2>1 DEF Moves, Step
  <2>3. Continue(g) /\ (g.err <=> Top.err)
    BY <1>3, <2>1 DEF AskMoves, Goes
  <2> HIDE DEF g
  <2> QED BY <1>1, <1>3, <2>1, <2>2, <2>3, StepKeeps
<1>4. CASE /\ Leave([Top EXCEPT !.err = TRUE], Step.ks)
           /\ failed' = failed \cup {"request"}
  <2> DEFINE g == [Top EXCEPT !.err = TRUE]
  <2>1. /\ g \in Frames /\ g.fn = Top.fn /\ g.refs = Top.refs /\ Bad(g)
        /\ g.turns = Top.turns
    BY <1>2 DEF Frames, Bad
  <2>2. Ladder(Top, Step.ks, How(failed))
    BY <1>1, <1>2 DEF Outs, Step
  <2> HIDE DEF g
  <2>3. Ladder(Top, Step.ks, IF Bad(g) THEN How(failed') ELSE "done")
    BY <1>4, <2>1, <2>2 DEF How
  <2>4. Leave(g, Step.ks)
    BY <1>4 DEF g
  <2> QED BY <1>1, <1>2, <1>4, <2>1, <2>3, <2>4, LeaveKeeps
<1> QED BY <1>3, <1>4 DEF DoAsk

(* DoCheck: a look at the error.                                           *)
LEMMA CheckKeeps ==
  ASSUME IInv, DoCheck
  PROVE  IInv'
<1>1. fault = NoFault /\ frames # <<>> /\ Step.op = "check" /\ failed' = failed
  BY DEF DoCheck, Running
<1>2. /\ Top \in Frames /\ Outs(Top, failed)
      /\ failed \subseteq {"request", "hook"}
      /\ Bad(Top) => failed # {}
  BY <1>1, TopFacts
<1>3. CASE Top.err
  <2>1. Bad(Top) /\ Ladder(Top, Step.ks, How(failed)) /\ Leave(Top, Step.ks)
    BY <1>1, <1>2, <1>3 DEF Outs, Step, Bad, DoCheck
  <2>2. Ladder(Top, Step.ks, IF Bad(Top) THEN How(failed') ELSE "done")
    BY <1>1, <2>1
  <2> QED BY <1>1, <1>2, <2>1, <2>2, LeaveKeeps
<1>4. CASE ~Top.err
  <2>1. Same(Top, Next1(Top)) /\ CheckMoves(Top, Next1(Top))
    BY <1>2, <1>4, FrameShape, NextIs DEF CheckMoves, Goes, Keeps
  <2>2. Moves(Top, Next1(Top), failed)
    BY <1>1, <2>1 DEF Moves, Step
  <2> QED BY <1>1, <1>4, <2>1, <2>2, StepKeeps DEF DoCheck, CheckMoves, Goes
<1> QED BY <1>3, <1>4

(* DoIfNone: a look for what a call should have given.                     *)
LEMMA IfNoneKeeps ==
  ASSUME IInv, DoIfNone
  PROVE  IInv'
<1>1. fault = NoFault /\ frames # <<>> /\ Step.op = "none" /\ failed' = failed
  BY DEF DoIfNone, Running
<1>2. /\ Top \in Frames /\ Outs(Top, failed)
      /\ failed \subseteq {"request", "hook"}
      /\ Bad(Top) => failed # {}
  BY <1>1, TopFacts
<1>3. CASE Top.refs[Step.k] < Step.n
  <2>1. /\ Ladder(Top, Step.ks, How(failed)) /\ Ladder(Top, Step.ks, "done")
        /\ Leave(Top, Step.ks)
    BY <1>1, <1>2, <1>3 DEF Outs, Step, DoIfNone
  <2>2. Ladder(Top, Step.ks, IF Bad(Top) THEN How(failed') ELSE "done")
    BY <1>1, <2>1
  <2> QED BY <1>1, <1>2, <2>1, <2>2, LeaveKeeps
<1>4. CASE ~(Top.refs[Step.k] < Step.n)
  <2>1. Top.refs[Step.k] >= Step.n
    BY <1>1, <1>2, <1>4, FrameFacts DEF Outs, Step
  <2>2. Same(Top, Next1(Top)) /\ NoneMoves(Top, Next1(Top), Step.k, Step.n)
    BY <1>2, <2>1, FrameShape, NextIs DEF NoneMoves, Goes, Keeps
  <2>3. Moves(Top, Next1(Top), failed)
    BY <1>1, <2>2 DEF Moves, Step
  <2> QED BY <1>1, <1>4, <2>2, <2>3, StepKeeps DEF DoIfNone, NoneMoves, Goes
<1> QED BY <1>3, <1>4

(* DoStop: an assertion fails, where it is known to.                       *)
LEMMA StopKeeps ==
  ASSUME IInv, DoStop
  PROVE  IInv'
<1>1. /\ fault = NoFault /\ frames # <<>>
      /\ Step.op = "stop" /\ failed' = failed
      /\ Faults("assert")
  BY DEF DoStop, Running
<1>2. /\ <<Top.fn, "assert">> \in KnownFaults
      /\ failed \subseteq {"request", "hook"}
  BY <1>1, TopFacts DEF Outs, Step
<1> QED BY <1>1, <1>2, FaultKeeps

(* DoReturn: the end of a function.                                        *)
LEMMA ReturnKeeps ==
  ASSUME IInv, DoReturn
  PROVE  IInv'
<1>1. /\ fault = NoFault /\ frames # <<>>
      /\ Step.op = "return" /\ failed' = failed
  BY DEF DoReturn, Running
<1>2. /\ Top \in Frames /\ Top \in Shape
      /\ failed \subseteq {"request", "hook"}
      /\ Bad(Top) => failed # {}
  BY <1>1, TopFacts, FrameShape
<1>3. Step.k \in Kinds \cup {"none"} /\ Ending(Top, Step.k, failed)
  BY <1>1, TopFacts DEF Outs, Step
<1> PICK e \in {"yes", "no"} : e = "yes" <=> Bad(Top)
  OBVIOUS
<1>4. Top.old \/ (Top.err /\ Top.fn \notin OwnError) <=> e = "yes"
  BY <1>3 DEF Ending, Bad
<1>5. Finish(Top, Step.k, e = "yes")
  BY <1>4 DEF DoReturn, Finish
<1>6. Passes(Top, Step.k, e, failed')
  BY <1>1, <1>3 DEF Passes, Ending
<1> QED BY <1>1, <1>2, <1>3, <1>5, <1>6, FinishKeeps


(* A frame waits for a function as for one like it.                        *)
LEMMA WaitsAlike ==
  ASSUME NEW h, NEW f, NEW g, Waits(h, f), Alike(f, g)
  PROVE  Waits(h, g)
BY AlikeAll DEF Waits

(* DoTail: a call that takes the place of its caller.                      *)
LEMMA TailKeeps ==
  ASSUME IInv, DoTail
  PROVE  IInv'
<1>1. fault = NoFault /\ frames # <<>> /\ Step.op = "tail" /\ failed' = failed
  BY DEF DoTail, Running
<1>2. /\ frames \in Seq(Frames) /\ Top = frames[1] /\ Len(frames) >= 1
      /\ Top \in Frames /\ Good(Top, failed) /\ Outs(Top, failed)
      /\ Sound(frames, failed)
  BY <1>1, TopFacts, SoundIs
<1>3. PICK f \in Step.fns :
        Continue([Frame(f) EXCEPT !.old = Top.err \/ Top.old])
  BY DEF DoTail
<1>4. f \in Tails /\ Alike(Top.fn, f) /\ (Bad(Top) => "hook" \in failed)
  BY <1>1, <1>2 DEF Outs, Step
<1>5. f \in Functions
  BY <1>4, FunctionsAre DEF Tails, Serializers, Deserializers
<1> DEFINE g == [Frame(f) EXCEPT !.old = Top.err \/ Top.old]
<1>6. /\ g \in Frames /\ g.fn = f /\ g.pc = 1 /\ g.turns = 0 /\ ~g.err
      /\ (g.old <=> Bad(Top)) /\ \A x \in Kinds : g.refs[x] = 0
  <2> DEFINE F == Frame(f)
  <2>1. /\ F \in Frames /\ F.fn = f /\ F.pc = 1 /\ F.turns = 0 /\ ~F.err
        /\ \A x \in Kinds : F.refs[x] = 0
    BY <1>5, FrameIs
  <2> HIDE DEF F
  <2>2. g = [F EXCEPT !.old = Top.err \/ Top.old]
    BY DEF F
  <2>3. /\ g \in Frames /\ g.fn = F.fn /\ g.pc = F.pc /\ g.turns = F.turns
        /\ g.err = F.err /\ g.refs = F.refs
    BY <2>1, <2>2 DEF Frames
  <2>4. g.old <=> Bad(Top)
    BY <2>1, <2>2 DEF Frames, Bad
  <2> QED BY <2>1, <2>3, <2>4
<1>7. Continue(g)
  BY <1>3
<1> HIDE DEF g
<1>8. Good(g, failed)
  BY <1>4, <1>5, <1>6, FrameAt DEF Hooked, Good
<1>9. /\ frames' \in Seq(Frames) /\ frames' # <<>>
      /\ Len(frames') = Len(frames) /\ frames'[1] = g
      /\ \A i \in 2..Len(frames) : frames'[i] = frames[i]
  BY <1>1, <1>2, <1>6, <1>7, Onto DEF Continue
<1>10. \A i \in 2..Len(frames') :
        Waits(frames'[i], frames'[i - 1].fn) /\ Hooked(frames'[i], failed')
  <2> SUFFICES ASSUME NEW i \in 2..Len(frames')
               PROVE  /\ Waits(frames'[i], frames'[i - 1].fn)
                      /\ Hooked(frames'[i], failed')
    OBVIOUS
  <2>1. Waits(frames[i], frames[i - 1].fn) /\ Hooked(frames[i], failed)
    BY <1>2, <1>9 DEF Sound
  <2>2. frames'[i] = frames[i]
    BY <1>9
  <2>3. CASE i = 2
    <3>1. frames[i - 1].fn = Top.fn /\ frames'[i - 1].fn = f
      BY <1>2, <1>6, <1>9, <2>3
    <3>2. Waits(frames[i], f)
      BY <1>4, <2>1, <3>1, WaitsAlike
    <3> QED BY <1>1, <2>1, <2>2, <3>1, <3>2
  <2>4. CASE i # 2
    <3>1. frames'[i - 1] = frames[i - 1]
      BY <1>9, <2>4
    <3> QED BY <1>1, <2>1, <2>2, <3>1
  <2> QED BY <2>3, <2>4
<1>11. failed' # {} <=>
         \E i \in 1..Len(frames') : frames'[i].err \/ frames'[i].old
  <2>1. failed # {} <=>
          \E i \in 1..Len(frames) : frames[i].err \/ frames[i].old
    BY <1>2 DEF Sound
  <2>2. \A i \in 1..Len(frames) :
          frames[i].err \/ frames[i].old <=> frames'[i].err \/ frames'[i].old
    BY <1>2, <1>6, <1>9 DEF Bad
  <2> QED BY <1>1, <1>9, <2>1, <2>2
<1>12. Sound(frames', failed')
  BY <1>1, <1>2, <1>8, <1>9, <1>10, <1>11 DEF Sound
<1> QED BY <1>1, <1>7, <1>12, SoundKeeps
        DEF Continue, LeavesNothing, ErrorOrResult

-----------------------------------------------------------------------------
(* THE THEOREMS *)

(* The invariant holds at the start, and every step keeps it.              *)
THEOREM Invariant == Spec => []IInv
<1>1. Init => IInv
  BY DEF Init, IInv, TypeOK, Stack, Known, DropsOnlyOwn, LeavesNothing,
     ErrorOrResult, ErrorMeansError
<1>2. IInv /\ [Next]_vars => IInv'
  <2>1. ASSUME IInv, Next PROVE IInv'
    BY <2>1, BeginKeeps, AskKeeps, MakeKeeps, HookKeeps, RunKeeps, TailKeeps,
       CheckKeeps, IfNoneKeeps, DropKeeps, GiveKeeps, BranchKeeps, ReturnKeeps,
       StopKeeps DEF Next
  <2>2. ASSUME IInv, UNCHANGED vars PROVE IInv'
    BY <2>2 DEF vars, IInv, TypeOK, Stack, Known, DropsOnlyOwn, LeavesNothing,
       ErrorOrResult, ErrorMeansError
  <2> QED BY <2>1, <2>2
<1> QED BY <1>1, <1>2, PTL DEF Spec

(* A frame is always at a step of its function, and holds no more of a     *)
(* kind than one turn of a loop can leave it: TypeOK of Cleanup.           *)
THEOREM TypeCorrect == Spec => []TypeOK
BY Invariant, PTL DEF IInv

(* At any depth of a value, whichever requests fail, the library and the   *)
(* codec stop only at the known places: nowhere else does a label drop a   *)
(* reference that the function does not have, is a result used that is not *)
(* there, or does an assertion fail, and these include the ones on void,   *)
(* unions, functions and typedefs: DropsOnlyOwn of Cleanup.                *)
THEOREM DropsOwn == Spec => []DropsOnlyOwn
BY Invariant, PTL DEF IInv

(* However a function returns, it leaves behind only the references that   *)
(* are known to leak, and more after a hook has failed; an array that is   *)
(* written has one for each element besides: LeavesNothing of Cleanup.     *)
THEOREM LeavesNone == Spec => []LeavesNothing
BY Invariant, PTL DEF IInv

(* No function returns a result together with an error, but after a        *)
(* pointer or a failing hook: ErrorOrResult of Cleanup.                    *)
THEOREM ErrorOrResultHolds == Spec => []ErrorOrResult
BY Invariant, PTL DEF IInv

(* A call of the program fails with an error just when something below it  *)
(* has failed: ErrorMeansError of Cleanup.                                 *)
THEOREM ErrorMeansErrorHolds == Spec => []ErrorMeansError
BY Invariant, PTL DEF IInv
====
