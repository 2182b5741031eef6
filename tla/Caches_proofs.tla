------------------------------ MODULE Caches_proofs ------------------------------
(***************************************************************************)
(* Proofs about the steps of Caches, for any number of threads: each step  *)
(* keeps an invariant of the kept values, and is a step of Oracle or none. *)
(* Memory_proofs makes theorems of them.                                   *)
(***************************************************************************)
EXTENDS Caches, TLAPS

Marking == <<"mark", "read">>
Reading == <<"read">>
Valuing == <<"value", "mark", "read">>

(* What a getter of f may still have to do before it marks f, but for the  *)
(* last store.                                                             *)
Asking(f) ==
  CASE f = "size"     -> {<<"ask", "value", "mark", "read">>}
    [] f = "quark"    -> {}
    [] f = "members"  -> {<<"ask", "clear", "value", "mark", "read">>,
                          <<"clear", "value", "mark", "read">>}
    [] f = "elements" -> {<<"ask", "ask", "clear", "value", "mark", "read">>,
                          <<"ask", "clear", "value", "mark", "read">>,
                          <<"clear", "value", "mark", "read">>}
    [] f = "value"    -> {<<"ask", "ask", "ask", "type", "value", "mark", "read">>,
                          <<"ask", "ask", "type", "value", "mark", "read">>,
                          <<"ask", "type", "value", "mark", "read">>,
                          <<"type", "value", "mark", "read">>}

(* All a thread may have to do for a getter of f. *)
Filling(f) == Asking(f) \cup {Valuing}
Steps(f) == {<<>>, Reading, Marking} \cup Filling(f)

-----------------------------------------------------------------------------
(* The code of the getters. *)

(* The first element, the rest and the length of a short sequence.         *)
LEMMA HeadTail ==
  /\ \A a : /\ Head(<<a>>) = a /\ Len(<<a>>) = 1
            /\ <<a>> # <<>>
  /\ \A a, b : /\ Head(<<a, b>>) = a /\ Tail(<<a, b>>) = <<b>>
               /\ Len(<<a, b>>) = 2 /\ <<a, b>> # <<>>
  /\ \A a, b, c : /\ Head(<<a, b, c>>) = a /\ Tail(<<a, b, c>>) = <<b, c>>
                  /\ Len(<<a, b, c>>) = 3 /\ <<a, b, c>> # <<>>
  /\ \A a, b, c, d : /\ Head(<<a, b, c, d>>) = a /\ Tail(<<a, b, c, d>>) = <<b, c, d>>
                     /\ Len(<<a, b, c, d>>) = 4 /\ <<a, b, c, d>> # <<>>
  /\ \A a, b, c, d, e :
       /\ Head(<<a, b, c, d, e>>) = a /\ Tail(<<a, b, c, d, e>>) = <<b, c, d, e>>
       /\ Len(<<a, b, c, d, e>>) = 5 /\ <<a, b, c, d, e>> # <<>>
  /\ \A a, b, c, d, e, f :
       /\ Head(<<a, b, c, d, e, f>>) = a /\ Tail(<<a, b, c, d, e, f>>) = <<b, c, d, e, f>>
       /\ Len(<<a, b, c, d, e, f>>) = 6 /\ <<a, b, c, d, e, f>> # <<>>
  /\ \A a, b, c, d, e, f, g :
       /\ Head(<<a, b, c, d, e, f, g>>) = a
       /\ Tail(<<a, b, c, d, e, f, g>>) = <<b, c, d, e, f, g>>
       /\ Len(<<a, b, c, d, e, f, g>>) = 7 /\ <<a, b, c, d, e, f, g>> # <<>>
OBVIOUS

(* What the steps are, one fact after the other. *)
LEMMA AskingOf ==
  /\ Asking("size") = {<<"ask", "value", "mark", "read">>}
  /\ Asking("quark") = {}
  /\ Asking("members") = {<<"ask", "clear", "value", "mark", "read">>,
                          <<"clear", "value", "mark", "read">>}
  /\ Asking("elements") = {<<"ask", "ask", "clear", "value", "mark", "read">>,
                           <<"ask", "clear", "value", "mark", "read">>,
                           <<"clear", "value", "mark", "read">>}
  /\ Asking("value") = {<<"ask", "ask", "ask", "type", "value", "mark", "read">>,
                        <<"ask", "ask", "type", "value", "mark", "read">>,
                        <<"ask", "type", "value", "mark", "read">>,
                        <<"type", "value", "mark", "read">>}
BY DEF Asking

(* The last steps of every getter: value, mark, read.                      *)
LEMMA LastSteps ==
  /\ Head(Reading) = "read" /\ Len(Reading) = 1 /\ Reading # <<>>
  /\ Head(Marking) = "mark" /\ Tail(Marking) = Reading /\ Len(Marking) = 2
  /\ Head(Valuing) = "value" /\ Tail(Valuing) = Marking /\ Len(Valuing) = 3
  /\ Marking # <<>> /\ Valuing # <<>>
BY HeadTail DEF Reading, Marking, Valuing

(* Where a step of a getter of f leads. *)
Leads(f, s) ==
  /\ s # <<>>
  /\ Head(s) = "ask" => Tail(s) \in Filling(f)
  /\ Head(s) = "clear" => f \in Vectors /\ Tail(s) = Valuing
  /\ Head(s) = "type" => f = "value" /\ Tail(s) = Valuing
  /\ Head(s) = "value" => s = Valuing /\ Tail(s) = Marking
  /\ Head(s) = "mark" => s = Marking /\ Tail(s) = Reading
  /\ Head(s) = "read" => s = Reading
  /\ Head(s) \in {"ask", "clear", "type", "value", "mark", "read"}
  /\ s # Reading => Len(s) > 1

(* A request leads to one of the steps that store its answer.              *)
LEMMA AskLeads ==
  ASSUME NEW f \in AllFacts, NEW s, s # <<>>, Head(s) = "ask",
         Tail(s) \in Filling(f), Len(s) > 1
  PROVE  Leads(f, s)
BY DEF Leads

(* Making room for a value leads to storing it.                            *)
LEMMA StoreLeads ==
  ASSUME NEW f \in AllFacts, NEW s, s # <<>>, Tail(s) = Valuing, Len(s) > 1,
         \/ Head(s) = "clear" /\ f \in Vectors
         \/ Head(s) = "type" /\ f = "value"
  PROVE  Leads(f, s)
BY DEF Leads

(* The last steps lead to each other and to the end.                       *)
LEMMA LastLeads ==
  ASSUME NEW f \in AllFacts
  PROVE  Leads(f, Valuing) /\ Leads(f, Marking) /\ Leads(f, Reading)
BY LastSteps DEF Leads

(* Each step of a getter but the last leads to a step of the same getter. *)
LEMMA Steps1 ==
  ASSUME NEW f \in AllFacts, NEW s \in Steps(f), s # <<>>
  PROVE  Leads(f, s)
<1>1. CASE s \in {Reading, Marking, Valuing}
  BY <1>1, LastLeads
<1>2. CASE f = "size" /\ s \in Asking(f)
  <2>1. s = <<"ask", "value", "mark", "read">>
    BY <1>2, AskingOf
  <2>2. Head(s) = "ask" /\ Tail(s) = Valuing /\ Len(s) > 1
    BY <2>1, HeadTail DEF Valuing
  <2> QED
    BY <2>2, AskLeads DEF Filling
<1>3. CASE f = "members" /\ s \in Asking(f)
  <2>1. CASE s = <<"ask", "clear", "value", "mark", "read">>
    <3>1. Head(s) = "ask" /\ Tail(s) = <<"clear", "value", "mark", "read">> /\ Len(s) > 1
      BY <2>1, HeadTail
    <3>2. Tail(s) \in Filling(f)
      BY <3>1, <1>3, AskingOf DEF Filling
    <3> QED
      BY <3>1, <3>2, AskLeads
  <2>2. CASE s = <<"clear", "value", "mark", "read">>
    <3>1. Head(s) = "clear" /\ Tail(s) = Valuing /\ Len(s) > 1
      BY <2>2, HeadTail DEF Valuing
    <3> QED
      BY <3>1, <1>3, StoreLeads DEF Vectors
  <2> QED
    BY <2>1, <2>2, <1>3, AskingOf
<1>4. CASE f = "elements" /\ s \in Asking(f)
  <2>1. CASE s = <<"ask", "ask", "clear", "value", "mark", "read">>
    <3>1. Head(s) = "ask" /\ Tail(s) = <<"ask", "clear", "value", "mark", "read">> /\ Len(s) > 1
      BY <2>1, HeadTail
    <3>2. Tail(s) \in Filling(f)
      BY <3>1, <1>4, AskingOf DEF Filling
    <3> QED
      BY <3>1, <3>2, AskLeads
  <2>2. CASE s = <<"ask", "clear", "value", "mark", "read">>
    <3>1. Head(s) = "ask" /\ Tail(s) = <<"clear", "value", "mark", "read">> /\ Len(s) > 1
      BY <2>2, HeadTail
    <3>2. Tail(s) \in Filling(f)
      BY <3>1, <1>4, AskingOf DEF Filling
    <3> QED
      BY <3>1, <3>2, AskLeads
  <2>3. CASE s = <<"clear", "value", "mark", "read">>
    <3>1. Head(s) = "clear" /\ Tail(s) = Valuing /\ Len(s) > 1
      BY <2>3, HeadTail DEF Valuing
    <3> QED
      BY <3>1, <1>4, StoreLeads DEF Vectors
  <2> QED
    BY <2>1, <2>2, <2>3, <1>4, AskingOf
<1>5. CASE f = "value" /\ s \in Asking(f)
  <2>1. CASE s = <<"ask", "ask", "ask", "type", "value", "mark", "read">>
    <3>1. /\ Head(s) = "ask" /\ Len(s) > 1
          /\ Tail(s) = <<"ask", "ask", "type", "value", "mark", "read">>
      BY <2>1, HeadTail
    <3>2. Tail(s) \in Filling(f)
      BY <3>1, <1>5, AskingOf DEF Filling
    <3> QED
      BY <3>1, <3>2, AskLeads
  <2>2. CASE s = <<"ask", "ask", "type", "value", "mark", "read">>
    <3>1. Head(s) = "ask" /\ Tail(s) = <<"ask", "type", "value", "mark", "read">> /\ Len(s) > 1
      BY <2>2, HeadTail
    <3>2. Tail(s) \in Filling(f)
      BY <3>1, <1>5, AskingOf DEF Filling
    <3> QED
      BY <3>1, <3>2, AskLeads
  <2>3. CASE s = <<"ask", "type", "value", "mark", "read">>
    <3>1. Head(s) = "ask" /\ Tail(s) = <<"type", "value", "mark", "read">> /\ Len(s) > 1
      BY <2>3, HeadTail
    <3>2. Tail(s) \in Filling(f)
      BY <3>1, <1>5, AskingOf DEF Filling
    <3> QED
      BY <3>1, <3>2, AskLeads
  <2>4. CASE s = <<"type", "value", "mark", "read">>
    <3>1. Head(s) = "type" /\ Tail(s) = Valuing /\ Len(s) > 1
      BY <2>4, HeadTail DEF Valuing
    <3> QED
      BY <3>1, <1>5, StoreLeads
  <2> QED
    BY <2>1, <2>2, <2>3, <2>4, <1>5, AskingOf
<1>6. CASE f = "quark" /\ s \in Asking(f)
  BY <1>6, AskingOf
<1> QED
  BY <1>1, <1>2, <1>3, <1>4, <1>5, <1>6 DEF Steps, Filling, AllFacts

(* A getter starts at one of its steps, and not at the marking. *)
LEMMA FillStarts ==
  ASSUME NEW f \in AllFacts
  PROVE  /\ Fill(f) \in Filling(f)
         /\ Fill(f) = Valuing => f = "quark"
  BY HeadTail DEF AllFacts, Fill, Filling, Asking, Valuing,
       FillSize, FillQuark, FillMembers, FillElements, FillValue

(* No step that stores or asks is the marking or the reading. *)
LEMMA FillingOnly ==
  ASSUME NEW f \in AllFacts, NEW s \in Filling(f)
  PROVE  s # <<>> /\ s # Reading /\ s # Marking
<1>1. CASE s = Valuing
  BY <1>1, HeadTail DEF Reading, Marking, Valuing
<1>2. CASE s \in Asking(f)
  BY <1>2, HeadTail DEF AllFacts, Asking, Reading, Marking
<1> QED
  BY <1>1, <1>2 DEF Filling

-----------------------------------------------------------------------------
(* The inductive invariant of the kept values.                             *)

Codes == UNION {Steps(f) : f \in AllFacts}

(* Every getter is at one of its steps. *)
InCode ==
  /\ kept \in [Facts -> SUBSET {"type", "value"}]
  /\ marked \subseteq Facts
  /\ about \in [Threads -> Facts]
  /\ todo \in [Threads -> Codes]
  /\ got \in [Threads -> {"none", "right", "wrong", "failed"}]
  /\ \A t \in Threads : todo[t] \in Steps(about[t])

(* The values that no two threads assign over. *)
Exact(f) == f \in Vectors => ~VectorsShared

(* A value is whole when it is marked and when a thread is about to mark   *)
(* it, and a thread that is about to read has it marked.                   *)
Stored ==
  \A f \in Facts : Exact(f) =>
    /\ kept[f] \subseteq Parts(f)
    /\ f \in marked => kept[f] = Parts(f)
    /\ \A t \in Threads : about[t] = f =>
         /\ todo[t] = Marking => kept[f] = Parts(f)
         /\ todo[t] = Valuing /\ f = "value" => "type" \in kept[f]

ReadsMarked == \A t \in Threads : todo[t] = Reading => about[t] \in marked

(* Who fills a list of members is alone with it, and it is not marked. *)
FillsAlone ==
  ~VectorsShared =>
    \A t \in Threads :
      about[t] \in Vectors /\ todo[t] \notin {<<>>, Reading} =>
        /\ about[t] \notin marked
        /\ \A u \in Threads \ {t} : todo[u] = <<>> \/ about[u] # about[t]

RightWhereExact == \A t \in Threads : got[t] = "wrong" => ~Exact(about[t])

CInv == InCode /\ Stored /\ ReadsMarked /\ FillsAlone /\ RightWhereExact

(* The steps differ from each other. *)
LEMMA StepsDiffer ==
  /\ Reading # Marking /\ Reading # Valuing /\ Marking # Valuing
  /\ Reading # <<>> /\ Marking # <<>> /\ Valuing # <<>>
BY LastSteps

(* Before any call no value is kept, and nobody is in a getter.            *)
LEMMA CInvInit == CachesInit => CInv
<1> SUFFICES ASSUME CachesInit PROVE CInv
  OBVIOUS
<1>1. <<>> \in Codes
  BY DEF Codes, Steps, AllFacts
<1>2. InCode
  BY <1>1 DEF CachesInit, InCode, Steps
<1>3. /\ \A t \in Threads : todo[t] = <<>> /\ got[t] = "none"
      /\ \A f \in Facts : kept[f] = {}
      /\ marked = {}
  BY DEF CachesInit
<1> QED
  BY <1>2, <1>3, StepsDiffer
  DEF CInv, Stored, ReadsMarked, FillsAlone, RightWhereExact

(* Where the cache and the getters stay as they are, so does CInv.         *)
LEMMA CInvUnchanged == CInv /\ UNCHANGED cacheVars => CInv'
BY DEF CInv, cacheVars, InCode, Stored, ReadsMarked, FillsAlone, RightWhereExact

(* A getter is called. *)
LEMMA CInvGet ==
  ASSUME CInv, NEW t \in Threads, NEW f \in Facts, Get(t, f)
  PROVE  CInv' /\ todo'[t] # <<>> /\ about'[t] = f
<1> DEFINE new == IF f \in marked THEN Reading ELSE Fill(f)
<1>0. f \in AllFacts
  BY CachesAssumption
<1>1. /\ todo[t] = <<>>
      /\ about' = [about EXCEPT ![t] = f]
      /\ todo' = [todo EXCEPT ![t] = new]
      /\ got' = [got EXCEPT ![t] = "none"]
      /\ kept' = kept /\ marked' = marked
  BY DEF Get, Idle, Reading
<1>2. /\ Fill(f) \in Filling(f) /\ Fill(f) # <<>> /\ Fill(f) # Reading /\ Fill(f) # Marking
      /\ Fill(f) = Valuing => f = "quark"
  BY <1>0, FillStarts, FillingOnly
<1>3. /\ new \in Steps(f) /\ new \in Codes
      /\ new = Reading => f \in marked
      /\ new # <<>> /\ new # Marking /\ (new = Valuing => f = "quark")
      /\ new # Reading => f \notin marked
  BY <1>0, <1>2, StepsDiffer DEF Steps, Codes
<1> HIDE DEF new
<1>4. /\ about'[t] = f /\ todo'[t] = new /\ got'[t] = "none"
      /\ \A u \in Threads \ {t} : about'[u] = about[u] /\ todo'[u] = todo[u] /\ got'[u] = got[u]
  BY <1>1 DEF CInv, InCode
<1>5. InCode'
  BY <1>1, <1>3, <1>4 DEF CInv, InCode
<1>6. Stored'
  BY <1>1, <1>3, <1>4 DEF CInv, Stored
<1>7. ReadsMarked'
  BY <1>1, <1>3, <1>4 DEF CInv, ReadsMarked
<1>8. FillsAlone'
  <2> SUFFICES ASSUME ~VectorsShared, NEW u \in Threads, about'[u] \in Vectors,
                      todo'[u] \notin {<<>>, Reading}
               PROVE  /\ about'[u] \notin marked
                      /\ \A v \in Threads \ {u} : todo'[v] = <<>> \/ about'[v] # about'[u]
    BY <1>1 DEF FillsAlone
  <2>1. MayUse(t, f)
    BY DEF Get
  <2>2. CASE u = t
    BY <2>1, <2>2, <1>3, <1>4 DEF MayUse, Idle
  <2>3. CASE u # t
    <3>1. /\ about[u] \notin marked
          /\ \A v \in Threads \ {u} : todo[v] = <<>> \/ about[v] # about[u]
      BY <2>3, <1>4 DEF CInv, FillsAlone
    <3>2. f # about[u]
      BY <2>1, <2>3, <3>1, <1>4 DEF MayUse, Idle
    <3> QED
      BY <2>3, <3>1, <3>2, <1>4
  <2> QED
    BY <2>2, <2>3
<1>9. RightWhereExact'
  BY <1>4 DEF CInv, RightWhereExact, Exact
<1> QED
  BY <1>3, <1>4, <1>5, <1>6, <1>7, <1>8, <1>9 DEF CInv

(* What a step of t leaves alone, and where it leads. *)
LEMMA StepOf ==
  ASSUME CInv, NEW t \in Threads, todo[t] # <<>>
  PROVE  /\ about[t] \in Facts /\ about[t] \in AllFacts
         /\ Leads(about[t], todo[t])
<1>1. about[t] \in Facts /\ about[t] \in AllFacts /\ todo[t] \in Steps(about[t])
  BY CachesAssumption DEF CInv, InCode
<1> QED
  BY <1>1, Steps1

(* What a getter may have to do is among its steps.                        *)
LEMMA FillingSteps ==
  ASSUME NEW f \in AllFacts
  PROVE  /\ Filling(f) \subseteq Steps(f) /\ Reading \in Steps(f) /\ Marking \in Steps(f)
         /\ <<>> \in Steps(f) /\ Steps(f) \subseteq Codes /\ Valuing \in Steps(f)
BY DEF Steps, Filling, Codes

(* A request is answered, or fails. *)
LEMMA CInvAsk ==
  ASSUME CInv, NEW t \in Threads, Ask(t)
  PROVE  CInv' /\ (todo'[t] = <<>> => got'[t] = "failed") /\ about' = about
<1> DEFINE f == about[t]
<1>1. /\ todo[t] # <<>> /\ Head(todo[t]) = "ask"
      /\ kept' = kept /\ marked' = marked /\ about' = about
  BY DEF Ask, Idle, Next1
<1>2. f \in Facts /\ f \in AllFacts /\ Tail(todo[t]) \in Filling(f)
  BY <1>1, StepOf DEF Leads
<1>3. PICK new \in {Tail(todo[t]), <<>>} :
        /\ todo' = [todo EXCEPT ![t] = new]
        /\ IF new = <<>> THEN got' = [got EXCEPT ![t] = "failed"] ELSE got' = got
  BY <1>2, FillingOnly DEF Ask
<1>4. /\ new \in Steps(f) /\ new \in Codes /\ new # Reading /\ new # Marking
  BY <1>2, <1>3, FillingOnly, FillingSteps, StepsDiffer
<1>5. new = Valuing => f # "value"
  <2>1. SUFFICES ASSUME f = "value", Tail(todo[t]) = Valuing PROVE FALSE
    BY <1>3, StepsDiffer
  <2>2. todo[t] \in Asking("value")
    BY <2>1, <1>1, LastSteps, StepsDiffer DEF CInv, InCode, Steps, Filling
  <2>3. Head(todo[t]) = "type" \/ Head(Tail(todo[t])) \in {"ask", "type"}
    <3>1. CASE todo[t] = <<"ask", "ask", "ask", "type", "value", "mark", "read">>
      BY <3>1, HeadTail
    <3>2. CASE todo[t] = <<"ask", "ask", "type", "value", "mark", "read">>
      BY <3>2, HeadTail
    <3>3. CASE todo[t] = <<"ask", "type", "value", "mark", "read">>
      BY <3>3, HeadTail
    <3>4. CASE todo[t] = <<"type", "value", "mark", "read">>
      BY <3>4, HeadTail
    <3> QED
      BY <2>2, <3>1, <3>2, <3>3, <3>4, AskingOf
  <2> QED
    BY <2>1, <2>3, <1>1, LastSteps
<1>6. /\ todo'[t] = new /\ (got'[t] = got[t] \/ got'[t] = "failed")
      /\ (new = <<>> => got'[t] = "failed")
      /\ \A u \in Threads \ {t} : todo'[u] = todo[u] /\ got'[u] = got[u]
  BY <1>3 DEF CInv, InCode
<1>7. InCode'
  BY <1>1, <1>3, <1>4, <1>6 DEF CInv, InCode
<1>8. Stored'
  BY <1>1, <1>4, <1>5, <1>6 DEF CInv, Stored
<1>9. ReadsMarked'
  BY <1>1, <1>4, <1>6 DEF CInv, ReadsMarked
<1>10. FillsAlone'
  <2>1. \A u \in Threads : todo'[u] \notin {<<>>, Reading} => todo[u] \notin {<<>>, Reading}
    BY <1>1, <1>6, LastSteps
  <2>2. \A u \in Threads : todo[u] = <<>> => todo'[u] = <<>>
    BY <1>1, <1>6
  <2> QED
    BY <1>1, <2>1, <2>2 DEF CInv, FillsAlone
<1>11. RightWhereExact'
  BY <1>1, <1>6 DEF CInv, RightWhereExact
<1> QED
  BY <1>1, <1>6, <1>7, <1>8, <1>9, <1>10, <1>11 DEF CInv

(* A part is stored, or a vector loses what it had. *)
LEMMA CInvStore ==
  ASSUME CInv, NEW t \in Threads, Store(t)
  PROVE  CInv' /\ todo'[t] # <<>> /\ about' = about
<1> DEFINE f == about[t]
<1>1. /\ todo[t] # <<>> /\ Head(todo[t]) \in {"type", "value", "clear"}
      /\ kept' = [kept EXCEPT ![f] = IF Head(todo[t]) = "clear" THEN {} ELSE @ \cup {Head(todo[t])}]
      /\ todo' = [todo EXCEPT ![t] = Tail(todo[t])]
      /\ marked' = marked /\ about' = about /\ got' = got
  BY DEF Store, Idle, Next1
<1>2. f \in Facts /\ f \in AllFacts /\ Leads(f, todo[t])
  BY <1>1, StepOf
<1>3. /\ Head(todo[t]) = "clear" => f \in Vectors /\ Tail(todo[t]) = Valuing
      /\ Head(todo[t]) = "type" => f = "value" /\ Tail(todo[t]) = Valuing
      /\ Head(todo[t]) = "value" => todo[t] = Valuing /\ Tail(todo[t]) = Marking
  BY <1>1, <1>2 DEF Leads
<1>4. /\ Tail(todo[t]) \in Steps(f) /\ Tail(todo[t]) \in Codes
      /\ Tail(todo[t]) \in {Valuing, Marking}
  BY <1>1, <1>2, <1>3, FillingSteps
<1>5. /\ todo'[t] = Tail(todo[t])
      /\ kept'[f] = IF Head(todo[t]) = "clear" THEN {} ELSE kept[f] \cup {Head(todo[t])}
      /\ \A u \in Threads \ {t} : todo'[u] = todo[u]
      /\ \A g \in Facts \ {f} : kept'[g] = kept[g]
  BY <1>1, <1>2 DEF CInv, InCode
<1>6. InCode'
  BY <1>1, <1>4, <1>5 DEF CInv, InCode
<1>7. Stored'
  <2> SUFFICES ASSUME NEW g \in Facts, Exact(g)
               PROVE  /\ kept'[g] \subseteq Parts(g)
                      /\ g \in marked => kept'[g] = Parts(g)
                      /\ \A u \in Threads : about[u] = g =>
                           /\ todo'[u] = Marking => kept'[g] = Parts(g)
                           /\ todo'[u] = Valuing /\ g = "value" => "type" \in kept'[g]
    BY <1>1 DEF Stored
  <2>1. /\ kept[g] \subseteq Parts(g)
        /\ g \in marked => kept[g] = Parts(g)
        /\ \A u \in Threads : about[u] = g =>
             /\ todo[u] = Marking => kept[g] = Parts(g)
             /\ todo[u] = Valuing /\ g = "value" => "type" \in kept[g]
    BY DEF CInv, Stored
  <2>2. CASE g # f
    BY <2>1, <2>2, <1>5
  <2>3. CASE g = f /\ Head(todo[t]) = "clear"
    <3>1. /\ f \notin marked
          /\ \A u \in Threads \ {t} : todo[u] = <<>> \/ about[u] # f
      BY <2>3, <1>1, <1>3, LastSteps DEF Exact, CInv, FillsAlone
    <3>2. kept'[g] = {} /\ todo'[t] = Valuing /\ f # "value"
      BY <2>3, <1>3, <1>5 DEF Vectors
    <3> QED
      BY <2>3, <3>1, <3>2, <1>5, StepsDiffer
  <2>4. CASE g = f /\ Head(todo[t]) = "type"
    <3>1. kept'[g] = kept[g] \cup {"type"} /\ todo'[t] = Valuing /\ g = "value"
      BY <2>4, <1>3, <1>5
    <3> QED
      BY <2>1, <2>4, <3>1, <1>5, StepsDiffer DEF Parts
  <2>5. CASE g = f /\ Head(todo[t]) = "value"
    <3>1. kept'[g] = kept[g] \cup {"value"} /\ todo'[t] = Marking /\ todo[t] = Valuing
      BY <2>5, <1>3, <1>5
    <3>2. kept'[g] = Parts(g)
      BY <2>1, <2>5, <3>1 DEF Parts
    <3> QED
      BY <2>1, <2>5, <3>1, <3>2, <1>5 DEF Parts
  <2> QED
    BY <2>2, <2>3, <2>4, <2>5, <1>1
<1>8. ReadsMarked'
  BY <1>1, <1>4, <1>5, StepsDiffer DEF CInv, ReadsMarked
<1>9. FillsAlone'
  <2>1. \A u \in Threads : todo'[u] \notin {<<>>, Reading} => todo[u] \notin {<<>>, Reading}
    BY <1>1, <1>5, LastSteps
  <2>2. \A u \in Threads : todo[u] = <<>> => todo'[u] = <<>>
    BY <1>1, <1>5
  <2> QED
    BY <1>1, <2>1, <2>2 DEF CInv, FillsAlone
<1>10. RightWhereExact'
  BY <1>1 DEF CInv, RightWhereExact
<1> QED
  BY <1>1, <1>4, <1>5, <1>6, <1>7, <1>8, <1>9, <1>10, StepsDiffer DEF CInv

(* The flag is set. *)
LEMMA CInvMark ==
  ASSUME CInv, NEW t \in Threads, Mark(t)
  PROVE  CInv' /\ todo'[t] # <<>> /\ about' = about
<1> DEFINE f == about[t]
<1>1. /\ todo[t] # <<>> /\ Head(todo[t]) = "mark"
      /\ marked' = marked \cup {f}
      /\ todo' = [todo EXCEPT ![t] = Tail(todo[t])]
      /\ kept' = kept /\ about' = about /\ got' = got
  BY DEF Mark, Idle, Next1
<1>2. f \in Facts /\ f \in AllFacts /\ todo[t] = Marking /\ Tail(todo[t]) = Reading
  BY <1>1, StepOf DEF Leads
<1>3. /\ todo'[t] = Reading
      /\ \A u \in Threads \ {t} : todo'[u] = todo[u]
  BY <1>1, <1>2 DEF CInv, InCode
<1>4. InCode'
  BY <1>1, <1>2, <1>3, FillingSteps DEF CInv, InCode
<1>5. Stored'
  BY <1>1, <1>2, <1>3, StepsDiffer DEF CInv, Stored
<1>6. ReadsMarked'
  BY <1>1, <1>3 DEF CInv, ReadsMarked
<1>7. FillsAlone'
  <2> SUFFICES ASSUME ~VectorsShared, NEW u \in Threads, about[u] \in Vectors,
                      todo'[u] \notin {<<>>, Reading}
               PROVE  /\ about[u] \notin marked'
                      /\ \A v \in Threads \ {u} : todo'[v] = <<>> \/ about[v] # about[u]
    BY <1>1 DEF FillsAlone
  <2>1. u # t /\ todo[u] = todo'[u]
    BY <1>3
  <2>2. /\ about[u] \notin marked
        /\ \A v \in Threads \ {u} : todo[v] = <<>> \/ about[v] # about[u]
    BY <2>1 DEF CInv, FillsAlone
  <2>3. about[u] # f
    BY <2>1, <2>2, <1>1
  <2> QED
    BY <2>1, <2>2, <2>3, <1>1, <1>3
<1>8. RightWhereExact'
  BY <1>1 DEF CInv, RightWhereExact
<1> QED
  BY <1>1, <1>3, <1>4, <1>5, <1>6, <1>7, <1>8, StepsDiffer DEF CInv

(* The value is read. *)
LEMMA CInvRead ==
  ASSUME CInv, NEW t \in Threads, Read(t)
  PROVE  /\ CInv' /\ about' = about /\ todo'[t] = <<>> /\ got'[t] \in {"right", "wrong"}
         /\ Exact(about[t]) => got'[t] = "right"
<1> DEFINE f == about[t]
<1>1. /\ todo[t] # <<>> /\ Head(todo[t]) = "read"
      /\ got' = [got EXCEPT ![t] = IF kept[f] = Parts(f) THEN "right" ELSE "wrong"]
      /\ todo' = [todo EXCEPT ![t] = <<>>]
      /\ kept' = kept /\ about' = about /\ marked' = marked
  BY DEF Read, Idle, Next1
<1>2. f \in Facts /\ f \in AllFacts /\ todo[t] = Reading
  BY <1>1, StepOf DEF Leads
<1>3. Exact(f) => kept[f] = Parts(f)
  BY <1>2 DEF CInv, ReadsMarked, Stored
<1>4. /\ todo'[t] = <<>> /\ got'[t] = IF kept[f] = Parts(f) THEN "right" ELSE "wrong"
      /\ \A u \in Threads \ {t} : todo'[u] = todo[u] /\ got'[u] = got[u]
  BY <1>1 DEF CInv, InCode
<1>5. InCode'
  BY <1>1, <1>2, <1>4, FillingSteps DEF CInv, InCode
<1>6. Stored'
  BY <1>1, <1>4, StepsDiffer DEF CInv, Stored
<1>7. ReadsMarked'
  BY <1>1, <1>4, StepsDiffer DEF CInv, ReadsMarked
<1>8. FillsAlone'
  BY <1>1, <1>4 DEF CInv, FillsAlone
<1>9. RightWhereExact'
  BY <1>1, <1>3, <1>4 DEF CInv, RightWhereExact
<1> QED
  BY <1>1, <1>3, <1>4, <1>5, <1>6, <1>7, <1>8, <1>9 DEF CInv

-----------------------------------------------------------------------------
(* Kept values are the controller's: Caches implements Oracle.             *)

(* How far a call is, by what the getter has still to do. *)
ProgressIs ==
  \A t \in Threads :
    /\ todo[t] = <<>> => Progress(t) = IF got[t] = "right" THEN "answered" ELSE got[t]
    /\ todo[t] = Reading => Progress(t) = "sure"
    /\ todo[t] \notin {<<>>, Reading} => Progress(t) = "open"

(* InCode tells how far each call is.                                      *)
LEMMA ProgressOf == InCode => ProgressIs
<1> SUFFICES ASSUME NEW t \in Threads, InCode
             PROVE  /\ todo[t] = <<>> => Progress(t) = IF got[t] = "right" THEN "answered" ELSE got[t]
                    /\ todo[t] = Reading => Progress(t) = "sure"
                    /\ todo[t] \notin {<<>>, Reading} => Progress(t) = "open"
  BY DEF ProgressIs
<1>1. about[t] \in AllFacts /\ todo[t] \in Steps(about[t])
  BY CachesAssumption DEF InCode
<1>2. todo[t] \notin {<<>>, Reading} => Len(todo[t]) > 1
  BY <1>1, Steps1 DEF Leads
<1>3. CASE todo[t] = <<>>
  BY <1>3, StepsDiffer DEF Progress, Idle, Reading
<1>4. CASE todo[t] = Reading
  BY <1>4, StepsDiffer, LastSteps DEF Progress, Idle, Reading
<1>5. CASE todo[t] \notin {<<>>, Reading}
  BY <1>5, <1>2 DEF Progress, Idle, Reading
<1> QED
  BY <1>3, <1>4, <1>5

(* The caches start as Oracle does: nothing is known, nobody asks.         *)
LEMMA OracleInit == CachesInit => Kept!Init
<1> SUFFICES ASSUME CachesInit PROVE Kept!Init
  OBVIOUS
<1>1. \A t \in Threads : Progress(t) = "none"
  BY CInvInit, ProgressOf DEF CInv, ProgressIs, CachesInit
<1> QED
  BY <1>1 DEF CachesInit, Kept!Init

(* A step of t changes the call of t only. *)
LEMMA OnlyCall ==
  ASSUME CInv, CInv', NEW t \in Threads, NEW X, Progress(t)' = X,
         \A u \in Threads \ {t} : todo'[u] = todo[u] /\ got'[u] = got[u]
  PROVE  [u \in Threads |-> Progress(u)]' = [[u \in Threads |-> Progress(u)] EXCEPT ![t] = X]
<1>1. ProgressIs /\ ProgressIs'
  BY ProgressOf, PTL DEF CInv
<1>2. \A u \in Threads \ {t} : Progress(u)' = Progress(u)
  <2> SUFFICES ASSUME NEW u \in Threads \ {t} PROVE Progress(u)' = Progress(u)
    OBVIOUS
  <2>1. todo'[u] = todo[u] /\ got'[u] = got[u]
    OBVIOUS
  <2> QED
    BY <1>1, <2>1 DEF ProgressIs
<1> QED
  BY <1>2

(* To call a getter is to begin a call of Oracle.                          *)
LEMMA OracleGet ==
  ASSUME CInv, NEW t \in Threads, NEW f \in Facts, Get(t, f)
  PROVE  Kept!Begin(t)
<1>1. CInv'
  BY CInvGet
<1>2. ProgressIs /\ ProgressIs'
  BY <1>1, ProgressOf, PTL DEF CInv
<1>3. /\ todo[t] = <<>> /\ got[t] # "open" /\ got[t] # "sure"
      /\ todo'[t] = IF f \in marked THEN Reading ELSE Fill(f)
      /\ about' = [about EXCEPT ![t] = f] /\ marked' = marked
      /\ \A u \in Threads \ {t} : todo'[u] = todo[u] /\ got'[u] = got[u]
  BY DEF Get, Idle, Reading, CInv, InCode
<1>4. f \notin marked => todo'[t] \notin {<<>>, Reading}
  BY <1>3, CachesAssumption, FillStarts, FillingOnly
<1>5. Progress(t) \notin {"open", "sure"}
  BY <1>2, <1>3 DEF ProgressIs
<1>6. Progress(t)' = IF f \in marked THEN "sure" ELSE "open"
  BY <1>2, <1>3, <1>4 DEF ProgressIs
<1>7. [u \in Threads |-> Progress(u)]' =
        [[u \in Threads |-> Progress(u)] EXCEPT ![t] = IF f \in marked THEN "sure" ELSE "open"]
  BY <1>1, <1>3, <1>6, OnlyCall
<1> QED
  BY <1>3, <1>5, <1>7 DEF Kept!Begin

(* A request that fails fails the call; one that succeeds is not seen yet. *)
LEMMA OracleAsk ==
  ASSUME CInv, NEW t \in Threads, Ask(t)
  PROVE  Kept!Fail(t) \/ UNCHANGED Kept!vars
<1>1. CInv'
  BY CInvAsk
<1>2. ProgressIs /\ ProgressIs'
  BY <1>1, ProgressOf, PTL DEF CInv
<1>3. /\ todo[t] # <<>> /\ Head(todo[t]) = "ask" /\ todo[t] # Reading
      /\ marked' = marked /\ about' = about
      /\ \A u \in Threads \ {t} : todo'[u] = todo[u] /\ got'[u] = got[u]
  BY LastSteps DEF Ask, Idle, Next1, CInv, InCode
<1>4. \/ todo'[t] = Tail(todo[t])
      \/ todo'[t] = <<>> /\ got'[t] = "failed"
  BY DEF Ask, CInv, InCode
<1>5. Progress(t) = "open"
  BY <1>2, <1>3 DEF ProgressIs
<1>6. CASE todo'[t] = Tail(todo[t])
  <2>1. todo'[t] \notin {<<>>, Reading}
    BY <1>3, <1>6, StepOf, FillingOnly DEF Leads
  <2>2. Progress(t)' = "open"
    BY <1>2, <2>1 DEF ProgressIs
  <2>3. [u \in Threads |-> Progress(u)]' = [[u \in Threads |-> Progress(u)] EXCEPT ![t] = "open"]
    BY <1>1, <1>3, <2>2, OnlyCall
  <2> QED
    BY <1>3, <1>5, <2>3 DEF Kept!vars
<1>7. CASE todo'[t] = <<>> /\ got'[t] = "failed"
  <2>1. Progress(t)' = "failed"
    BY <1>2, <1>7 DEF ProgressIs
  <2>2. [u \in Threads |-> Progress(u)]' = [[u \in Threads |-> Progress(u)] EXCEPT ![t] = "failed"]
    BY <1>1, <1>3, <2>1, OnlyCall
  <2> QED
    BY <1>3, <1>5, <2>2 DEF Kept!Fail
<1> QED
  BY <1>4, <1>6, <1>7

(* A stored value is not seen before it is marked.                         *)
LEMMA OracleStore ==
  ASSUME CInv, NEW t \in Threads, Store(t)
  PROVE  UNCHANGED Kept!vars
<1>1. CInv'
  BY CInvStore
<1>2. ProgressIs /\ ProgressIs'
  BY <1>1, ProgressOf, PTL DEF CInv
<1>3. /\ todo[t] # <<>> /\ Head(todo[t]) \in {"type", "value", "clear"} /\ todo[t] # Reading
      /\ marked' = marked /\ about' = about /\ todo'[t] = Tail(todo[t])
      /\ \A u \in Threads \ {t} : todo'[u] = todo[u] /\ got'[u] = got[u]
  BY LastSteps DEF Store, Idle, Next1, CInv, InCode
<1>4. todo'[t] \in {Valuing, Marking}
  BY <1>3, StepOf DEF Leads
<1>5. Progress(t) = "open" /\ Progress(t)' = "open"
  BY <1>2, <1>3, <1>4, StepsDiffer DEF ProgressIs
<1>6. [u \in Threads |-> Progress(u)]' = [[u \in Threads |-> Progress(u)] EXCEPT ![t] = "open"]
  BY <1>1, <1>3, <1>5, OnlyCall
<1> QED
  BY <1>3, <1>5, <1>6 DEF Kept!vars

(* To mark a value is to learn it.                                         *)
LEMMA OracleMark ==
  ASSUME CInv, NEW t \in Threads, Mark(t)
  PROVE  Kept!Learn(t)
<1>1. CInv'
  BY CInvMark
<1>2. ProgressIs /\ ProgressIs'
  BY <1>1, ProgressOf, PTL DEF CInv
<1>3. /\ todo[t] # <<>> /\ Head(todo[t]) = "mark" /\ todo[t] # Reading
      /\ marked' = marked \cup {about[t]} /\ about' = about /\ todo'[t] = Tail(todo[t])
      /\ \A u \in Threads \ {t} : todo'[u] = todo[u] /\ got'[u] = got[u]
  BY LastSteps DEF Mark, Idle, Next1, CInv, InCode
<1>4. todo'[t] = Reading
  BY <1>3, StepOf DEF Leads
<1>5. Progress(t) = "open" /\ Progress(t)' = "sure"
  BY <1>2, <1>3, <1>4 DEF ProgressIs
<1>6. [u \in Threads |-> Progress(u)]' = [[u \in Threads |-> Progress(u)] EXCEPT ![t] = "sure"]
  BY <1>1, <1>3, <1>5, OnlyCall
<1> QED
  BY <1>3, <1>5, <1>6 DEF Kept!Learn

(* To read a marked value is to answer the call with what is known.        *)
LEMMA OracleRead ==
  ASSUME CInv, NEW t \in Threads, Read(t), ~VectorsShared
  PROVE  Kept!Answer(t)
<1>1. CInv' /\ todo'[t] = <<>> /\ got'[t] = "right"
  BY CInvRead DEF Exact
<1>2. ProgressIs /\ ProgressIs'
  BY <1>1, ProgressOf, PTL DEF CInv
<1>3. /\ todo[t] # <<>> /\ Head(todo[t]) = "read"
      /\ marked' = marked /\ about' = about
      /\ \A u \in Threads \ {t} : todo'[u] = todo[u] /\ got'[u] = got[u]
  BY DEF Read, Idle, Next1, CInv, InCode
<1>4. todo[t] = Reading
  BY <1>3, StepOf DEF Leads
<1>5. Progress(t) = "sure" /\ Progress(t)' = "answered"
  BY <1>1, <1>2, <1>4 DEF ProgressIs
<1>6. [u \in Threads |-> Progress(u)]' = [[u \in Threads |-> Progress(u)] EXCEPT ![t] = "answered"]
  BY <1>1, <1>3, <1>5, OnlyCall
<1> QED
  BY <1>3, <1>5, <1>6 DEF Kept!Answer

(* A step outside the caches is none of Oracle.                            *)
LEMMA OracleUnchanged == UNCHANGED cacheVars => UNCHANGED Kept!vars
BY DEF cacheVars, Kept!vars, Progress, Idle

(* The steps of a getter are a sequence of steps. *)
LEMMA StepsAreSequences ==
  ASSUME NEW f \in AllFacts
  PROVE  Steps(f) \subseteq Seq({"ask", "clear", "type", "value", "mark", "read"})
<1> DEFINE S == {"ask", "clear", "type", "value", "mark", "read"}
<1>0. "ask" \in S /\ "clear" \in S /\ "type" \in S /\ "value" \in S /\ "mark" \in S /\ "read" \in S
  OBVIOUS
<1>1. <<>> \in Seq(S)
  OBVIOUS
<1>3. \A a, b, c \in S : <<a>> \in Seq(S) /\ <<a, b>> \in Seq(S) /\ <<a, b, c>> \in Seq(S)
  OBVIOUS
<1>4. \A a, b, c, d \in S : <<a, b, c, d>> \in Seq(S)
  OBVIOUS
<1>5. \A a, b, c, d, e \in S : <<a, b, c, d, e>> \in Seq(S)
  OBVIOUS
<1>6. \A a, b, c, d, e, g \in S : <<a, b, c, d, e, g>> \in Seq(S)
  OBVIOUS
<1>7. \A a, b, c, d, e, g, h \in S : <<a, b, c, d, e, g, h>> \in Seq(S)
  OBVIOUS
<1> HIDE DEF S
<1>8. {<<>>, Reading, Marking, Valuing} \subseteq Seq(S)
  BY <1>0, <1>1, <1>3 DEF Reading, Marking, Valuing
<1>9. Asking(f) \subseteq Seq(S)
  <2>1. CASE f = "size"
    <3>1. <<"ask", "value", "mark", "read">> \in Seq(S)
      BY <1>0, <1>4
    <3> QED
      BY <2>1, <3>1, AskingOf
  <2>2. CASE f = "quark"
    BY <2>2, AskingOf
  <2>3. CASE f \in {"members", "elements"}
    <3>1. /\ <<"clear", "value", "mark", "read">> \in Seq(S)
          /\ <<"ask", "clear", "value", "mark", "read">> \in Seq(S)
          /\ <<"ask", "ask", "clear", "value", "mark", "read">> \in Seq(S)
      BY <1>0, <1>4, <1>5, <1>6
    <3> QED
      BY <2>3, <3>1, AskingOf
  <2>4. CASE f = "value"
    <3>1. /\ <<"type", "value", "mark", "read">> \in Seq(S)
          /\ <<"ask", "type", "value", "mark", "read">> \in Seq(S)
          /\ <<"ask", "ask", "type", "value", "mark", "read">> \in Seq(S)
          /\ <<"ask", "ask", "ask", "type", "value", "mark", "read">> \in Seq(S)
      BY <1>0, <1>4, <1>5, <1>6, <1>7
    <3> QED
      BY <2>4, <3>1, AskingOf
  <2> QED
    BY <2>1, <2>2, <2>3, <2>4 DEF AllFacts
<1> QED
  BY <1>8, <1>9 DEF Steps, Filling, S
================================================================================
