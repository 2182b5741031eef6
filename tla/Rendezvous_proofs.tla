--------------------------- MODULE Rendezvous_proofs ---------------------------
(***************************************************************************)
(* Proofs about the rendezvous, for any set of threads.                    *)
(***************************************************************************)
EXTENDS Rendezvous, FiniteSetTheorems, TLAPS

-----------------------------------------------------------------------------
(* Sequences as onEvent and __enter__ use them. *)

(* Removing the first element, as removeCallback does it, leaves the tail. *)
LEMMA RemoveFirst ==
  ASSUME NEW S, NEW s \in Seq(S), s # <<>>
  PROVE  SubSeq(s, 1, 0) \o SubSeq(s, 2, Len(s)) = Tail(s)
OBVIOUS

(* Appending to a list that is not empty appends to its tail. *)
LEMMA TailOfAppend ==
  ASSUME NEW S, NEW s \in Seq(S), NEW e \in S, s # <<>>
  PROVE  /\ Append(s, e) \in Seq(S)
         /\ Append(s, e) # <<>>
         /\ Tail(Append(s, e)) = Append(Tail(s), e)
OBVIOUS

(* Appending to an empty list makes a list of one.                         *)
LEMMA AppendToEmpty == \A e : Append(<<>>, e) = <<e>>
OBVIOUS

(* A list of one: its length, its element and its tail. *)
LEMMA Singleton ==
  ASSUME NEW S, NEW e \in S
  PROVE  /\ <<e>> \in Seq(S)
         /\ <<e>> # <<>>
         /\ Len(<<e>>) = 1
         /\ <<e>>[1] = e
         /\ Tail(<<e>>) = <<>>
OBVIOUS

-----------------------------------------------------------------------------
(* The inductive invariant of the stop.                                    *)

(* A call sends its first request with two to spare and the second one     *)
(* with one; who is at the breakpoint or behind it has sent one.           *)
Budget ==
  \A t \in Threads :
    /\ sent[t] <= 2 * calls[t]
    /\ pc[t] \in {"assert", "begin"} => sent[t] + 2 <= 2 * calls[t]
    /\ pc[t] \in {"store", "trap", "halted", "await", "clear", "query"} \/ AtEndOfType(t)
         => sent[t] + 1 <= 2 * calls[t]
    /\ pc[t] \in {"store", "trap", "halted", "end"} => sent[t] # 0

(* A handler is serving somebody exactly when it is not idle; the event    *)
(* thread looks at the first callback only, and finds there the handler    *)
(* that waits, with no further stop pending; and once that handler is      *)
(* woken its thread stays at the breakpoint until the handler is done.     *)
StopInv ==
  /\ dispatch = "idle" <=> serving = NoRequest
  /\ em # "loop" => emIndex = 0
  /\ em = "loop" /\ emIndex = 0 => CallbackWaits /\ events = 0
  /\ ResumedByHandler => pc[Of(serving)] = "halted"

IInv == TypeOK /\ Budget /\ CallbacksMatchWaiters /\ OneResumer /\ StopInv

(* A request is a thread's; the number of a thread's request.              *)
LEMMA RequestParts ==
  /\ \A r \in Requests : Of(r) \in Threads /\ r[2] \in 1..2 * MaxCalls /\ r = <<Of(r), r[2]>>
  /\ \A t \in Threads, n \in 1..2 * MaxCalls :
       <<t, n>> \in Requests /\ Of(<<t, n>>) = t /\ <<t, n>>[2] = n
BY DEF Requests, Of

(* Initially no callback is there and nobody is stopped.                   *)
LEMMA InitIInv == Init => IInv
<1> SUFFICES ASSUME Init PROVE IInv
  OBVIOUS
<1>1. <<>> \in Seq(Requests)
  OBVIOUS
<1>2. TypeOK
  <2>1. 0 \in 0..MaxCalls /\ 0 \in 0..2 * MaxCalls
    BY RendezvousAssumption
  <2> QED
    BY <1>1, <2>1 DEF Init, TypeOK, Ops, StopOps, Locations
<1>3. CallbacksMatchWaiters
  BY DEF Init, CallbacksMatchWaiters, CallbackWaits
<1>4. OneResumer
  BY DEF Init, OneResumer, ResumedByHandler, ResumedByEventThread, StopNotSeen
<1>5. StopInv
  BY DEF Init, StopInv, ResumedByHandler
<1>6. Budget
  BY DEF Init, Budget, AtEndOfType
<1> QED
  BY <1>2, <1>3, <1>4, <1>5, <1>6 DEF IInv

(* What Send does, given that the thread has a request to spare.           *)
LEMMA SendIs ==
  ASSUME TypeOK, NEW t \in Threads, NEW o \in Ops,
         NEW loc \in {"store", "trap", "end"}, sent[t] < 2 * MaxCalls, Send(t, o, loc)
  PROVE  /\ sent' = [sent EXCEPT ![t] = sent[t] + 1]
         /\ sent' \in [Threads -> 0..2 * MaxCalls]
         /\ Latest(t)' \in Requests /\ Latest(t)' = <<t, sent[t] + 1>>
         /\ op' = [op EXCEPT ![Latest(t)'] = o] /\ op' \in [Requests -> Ops]
         /\ requests' = Append(requests, Latest(t)') /\ requests' \in Seq(Requests)
         /\ pc' = [pc EXCEPT ![t] = loc]
<1>1. sent[t] \in 0..2 * MaxCalls /\ MaxCalls \in Nat
  BY RendezvousAssumption DEF TypeOK
<1>2. sent[t] + 1 \in 1..2 * MaxCalls
  BY <1>1
<1>3. <<t, sent[t] + 1>> \in Requests
  BY <1>2, RequestParts
<1>4. /\ sent' = [sent EXCEPT ![t] = sent[t] + 1]
      /\ op' = [op EXCEPT ![<<t, sent[t] + 1>>] = o]
      /\ requests' = Append(requests, <<t, sent[t] + 1>>)
      /\ pc' = [pc EXCEPT ![t] = loc]
  BY DEF Send
<1>5. sent' \in [Threads -> 0..2 * MaxCalls] /\ sent'[t] = sent[t] + 1
  BY <1>1, <1>2, <1>4 DEF TypeOK
<1>6. Latest(t)' = <<t, sent[t] + 1>>
  BY <1>5 DEF Latest
<1>7. op' \in [Requests -> Ops]
  BY <1>3, <1>4 DEF TypeOK
<1>8. requests' \in Seq(Requests)
  BY <1>3, <1>4 DEF TypeOK
<1> QED
  BY <1>3, <1>4, <1>5, <1>6, <1>7, <1>8

(* What has been sent in the name of a thread is in the model's bounds.    *)
LEMMA Spare ==
  ASSUME TypeOK, Budget, NEW t \in Threads
  PROVE  /\ sent[t] \in Nat /\ calls[t] \in Nat /\ MaxCalls \in Nat /\ calls[t] <= MaxCalls
         /\ pc[t] \in {"begin", "query"} => sent[t] < 2 * MaxCalls
         /\ MayCall(t) => sent[t] < 2 * MaxCalls
         /\ sent[t] # 0 => Latest(t) \in Requests
<1>1. /\ sent[t] \in 0..2 * MaxCalls /\ calls[t] \in 0..MaxCalls /\ MaxCalls \in Nat
      /\ sent[t] <= 2 * calls[t]
      /\ pc[t] = "begin" => sent[t] + 2 <= 2 * calls[t]
      /\ pc[t] = "query" => sent[t] + 1 <= 2 * calls[t]
  BY RendezvousAssumption DEF TypeOK, Budget
<1>2. MayCall(t) => calls[t] < MaxCalls
  BY DEF MayCall
<1>3. sent[t] # 0 => Latest(t) \in Requests
  BY <1>1, RequestParts DEF Latest
<1> QED
  BY <1>1, <1>2, <1>3

(* Where a thread goes is a place. *)
LEMMA GoToIs ==
  ASSUME pc \in [Threads -> Locations], NEW t \in Threads, NEW loc \in Locations, GoTo(t, loc)
  PROVE  pc' \in [Threads -> Locations]
BY DEF GoTo

(* A step that sends a request keeps the variables in their types.         *)
LEMMA SendTypes ==
  ASSUME TypeOK, NEW t \in Threads, NEW o \in Ops,
         NEW loc \in {"store", "trap", "end"}, sent[t] < 2 * MaxCalls, Send(t, o, loc),
         calls' \in [Threads -> 0..MaxCalls],
         UNCHANGED <<process, arp, ending, reply, serverVars, emVars>>
  PROVE  TypeOK'
<1>1. /\ sent' \in [Threads -> 0..2 * MaxCalls] /\ op' \in [Requests -> Ops]
      /\ requests' \in Seq(Requests)
  BY SendIs
<1>2. pc' = [pc EXCEPT ![t] = loc]
  BY SendIs
<1>3. pc' \in [Threads -> Locations]
  BY <1>2 DEF TypeOK, Locations
<1>4. /\ UNCHANGED <<process, arp, ending, reply>>
      /\ UNCHANGED <<dispatch, serving, result, signalled>>
      /\ UNCHANGED <<events, callbacks, em, emIndex>>
  BY DEF serverVars, emVars
<1> QED
  BY <1>1, <1>3, <1>4 DEF TypeOK

(* Every step keeps the variables in their types. *)
LEMMA TypeStep == IInv /\ [Next]_vars => TypeOK'
<1> SUFFICES ASSUME IInv, [Next]_vars
             PROVE  TypeOK'
  OBVIOUS
<1>1. ASSUME NEW t \in Threads, BeginGetType(t) \/ QueryTypeId(t) PROVE TypeOK'
  <2>1. TypeOK /\ sent[t] < 2 * MaxCalls /\ calls \in [Threads -> 0..MaxCalls]
    BY <1>1, Spare DEF BeginGetType, QueryTypeId, IInv, TypeOK
  <2>2. /\ Send(t, "type", "store") \/ Send(t, "query", "end")
        /\ UNCHANGED calls
        /\ UNCHANGED <<process, arp, ending, reply, serverVars, emVars>>
    BY <1>1 DEF BeginGetType, QueryTypeId
  <2>3. "type" \in Ops /\ "query" \in Ops
    BY DEF Ops, StopOps
  <2> QED
    BY <2>1, <2>2, <2>3, SendTypes
<1>2. ASSUME NEW t \in Threads,
             (\E o \in {"backtrace", "members"} : BeginStop(t, o)) \/ BeginQuery(t)
      PROVE TypeOK'
  <2>1. TypeOK /\ MayCall(t) /\ sent[t] < 2 * MaxCalls
    BY <1>2, Spare DEF BeginStop, BeginQuery, IInv
  <2>2. calls' = [calls EXCEPT ![t] = calls[t] + 1]
    BY <1>2 DEF BeginStop, BeginQuery
  <2>3. calls' \in [Threads -> 0..MaxCalls]
    BY <2>1, <2>2, RendezvousAssumption DEF TypeOK, MayCall
  <2>4. /\ (\E o \in {"backtrace", "members"} : Send(t, o, "trap")) \/ Send(t, "query", "end")
        /\ UNCHANGED <<process, arp, ending, reply, serverVars, emVars>>
    BY <1>2 DEF BeginStop, BeginQuery
  <2>5. {"backtrace", "members", "query"} \subseteq Ops
    BY DEF Ops, StopOps
  <2> QED
    BY <2>1, <2>3, <2>4, <2>5, SendTypes
<1> USE RendezvousAssumption
    DEF IInv, TypeOK, vars, clientVars, callVars, netVars, serverVars, emVars
<1>3. ASSUME NEW t \in Threads, EnterGetType(t) PROVE TypeOK'
  <2>1. calls[t] + 1 \in 0..MaxCalls
    BY <1>3 DEF EnterGetType, MayCall
  <2> QED
    BY <1>3, <2>1, GoToIs DEF EnterGetType, Locations
<1>4. ASSUME NEW t \in Threads, AssertHolds(t) \/ AssertFails(t) PROVE TypeOK'
  <2>1. CASE AssertHolds(t)
    BY <2>1, GoToIs DEF AssertHolds, Locations
  <2>2. CASE AssertFails(t)
    BY <2>2 DEF AssertFails
  <2> QED
    BY <1>4, <2>1, <2>2
<1>5. ASSUME NEW S \in SUBSET Threads, HitBreakpoint(S) PROVE TypeOK'
  BY <1>5 DEF HitBreakpoint, OneResumer, StopNotSeen, Locations
<1>6. ASSUME NEW t \in Threads, StoreArp(t) PROVE TypeOK'
  <2>1. Latest(t) \in Requests
    BY <1>6, Spare DEF StoreArp, Budget
  <2> QED
    BY <1>6, <2>1, GoToIs DEF StoreArp, Locations
<1>7. ASSUME NEW t \in Threads, BeginFails(t) PROVE TypeOK'
  <2>1. MayCall(t) => calls[t] + 1 \in 0..MaxCalls
    BY DEF MayCall
  <2>2. pc' \in [Threads -> Locations]
    BY <1>7, GoToIs DEF BeginFails, Locations
  <2>3. calls' \in [Threads -> 0..MaxCalls]
    BY <1>7, <2>1 DEF BeginFails
  <2> QED
    BY <1>7, <2>2, <2>3 DEF BeginFails
<1>8. ASSUME NEW t \in Threads, EndGetType(t) PROVE TypeOK'
  <2>1. pc' \in [Threads -> Locations]
    BY <1>8, GoToIs DEF EndGetType, Locations
  <2>2. ending' \in [Threads -> Requests \cup {NoRequest}]
    BY <1>8 DEF EndGetType
  <2> QED
    BY <1>8, <2>1, <2>2 DEF EndGetType
<1>9. ASSUME NEW t \in Threads, TakeType(t) PROVE TypeOK'
  <2>1. pc' \in [Threads -> Locations]
    BY <1>9, GoToIs DEF TakeType, Locations
  <2>2. /\ ending' \in [Threads -> Requests \cup {NoRequest}]
        /\ reply' \in [Requests -> {"none", "ok", "error", "taken"}]
    BY <1>9 DEF TakeType
  <2> QED
    BY <1>9, <2>1, <2>2 DEF TakeType
<1>10. ASSUME NEW t \in Threads, ClearArp(t) PROVE TypeOK'
  BY <1>10, GoToIs DEF ClearArp, Locations
<1>11. ASSUME NEW t \in Threads, RaceOnArp(t) PROVE TypeOK'
  BY <1>11 DEF RaceOnArp
<1>12. ASSUME NEW t \in Threads, EndBacktrace(t) \/ EndOther(t) PROVE TypeOK'
  <2>1. pc' \in [Threads -> Locations]
    BY <1>12, GoToIs DEF EndBacktrace, EndOther, TakeReply, Locations
  <2>2. reply' \in [Requests -> {"none", "ok", "error", "taken"}]
    BY <1>12 DEF EndBacktrace, EndOther, TakeReply
  <2>3. CASE EndBacktrace(t)
    BY <2>1, <2>2, <2>3 DEF EndBacktrace
  <2>4. CASE EndOther(t)
    BY <2>1, <2>2, <2>4 DEF EndOther
  <2> QED
    BY <1>12, <2>3, <2>4
<1>13. CASE Dispatch
  BY <1>13 DEF Dispatch
<1>14. CASE EnterStop
  <2>1. serving \in Requests
    BY <1>14 DEF EnterStop, StopInv
  <2>2. Append(callbacks, serving) \in Seq(Requests)
    BY <2>1
  <2> QED
    BY <1>14, <2>1, <2>2 DEF EnterStop
<1>15. CASE EnterFails \/ Wake \/ InspectStack
  BY <1>15 DEF EnterFails, Wake, InspectStack
<1>16. CASE ExitStop
  BY <1>16 DEF ExitStop, Continue, Locations
<1>17. CASE SendReply
  BY <1>17 DEF SendReply, StopInv
<1>18. CASE ReceiveStop \/ CallbackSignals \/ EndLoop
  <2>1. CASE ReceiveStop
    BY <2>1 DEF ReceiveStop
  <2>2. CASE CallbackSignals
    BY <2>2 DEF CallbackSignals
  <2>3. CASE EndLoop
    BY <2>3 DEF EndLoop
  <2> QED
    BY <1>18, <2>1, <2>2, <2>3
<1>19. CASE ResumeUnexpected
  BY <1>19 DEF ResumeUnexpected, Continue, Locations
<1>20. CASE CallbackIgnores
  BY <1>20 DEF CallbackIgnores, CallbacksMatchWaiters, CallbackWaits
<1>21. CASE RemoveCallback
  BY <1>21, RemoveFirst DEF RemoveCallback, StopInv, CallbacksMatchWaiters, CallbackWaits
<1>22. CASE UNCHANGED vars
  BY <1>22
<1> QED
  BY <1>1, <1>2, <1>3, <1>4, <1>5, <1>6, <1>7, <1>8, <1>9, <1>10, <1>11, <1>12,
     <1>13, <1>14, <1>15, <1>16, <1>17, <1>18, <1>19, <1>20, <1>21, <1>22
  DEF Next, ClientMoves, ClientCalls, DispatchThread, EventThread

(* A thread that goes on without sending keeps within its budget.          *)
LEMMA BudgetMoves ==
  ASSUME TypeOK, Budget, UNCHANGED <<op, sent>>,
         \A t \in Threads : calls[t] <= calls'[t] /\ calls'[t] \in Nat,
         \A t \in Threads :
           \/ pc'[t] = pc[t]
           \/ pc'[t] = "idle"
           \/ pc'[t] = "assert" /\ calls'[t] = calls[t] + 1
           \/ pc[t] = "assert" /\ pc'[t] = "begin"
           \/ pc[t] \in {"store", "trap", "halted"} /\ pc'[t] \in {"trap", "halted", "end"}
           \/ AtEndOfType(t) /\ pc'[t] = "await"
           \/ pc[t] \in {"await", "clear"} /\ pc'[t] \in {"clear", "query"}
  PROVE  Budget'
<1> SUFFICES ASSUME NEW t \in Threads
             PROVE  /\ sent'[t] <= 2 * calls'[t]
                    /\ pc'[t] \in {"assert", "begin"} => sent'[t] + 2 <= 2 * calls'[t]
                    /\ pc'[t] \in {"store", "trap", "halted", "await", "clear", "query"}
                         \/ AtEndOfType(t)' => sent'[t] + 1 <= 2 * calls'[t]
                    /\ pc'[t] \in {"store", "trap", "halted", "end"} => sent'[t] # 0
  BY DEF Budget
<1>1. sent[t] \in Nat /\ calls[t] \in Nat /\ sent' = sent
  BY Spare
<1>2. /\ AtEndOfType(t)' => pc'[t] = "end"
      /\ AtEndOfType(t)' /\ pc[t] = "end" => AtEndOfType(t)
      /\ AtEndOfType(t) => pc[t] = "end"
  BY DEF AtEndOfType, Latest
<1> QED
  BY <1>1, <1>2 DEF Budget

(* Nor does one that sends exceed it.                                      *)
LEMMA BudgetSends ==
  ASSUME TypeOK, Budget, NEW t \in Threads, NEW o \in Ops,
         NEW loc \in {"store", "trap", "end"}, sent[t] < 2 * MaxCalls, Send(t, o, loc),
         \/ MayCall(t) /\ calls' = [calls EXCEPT ![t] = @ + 1]
         \/ pc[t] = "begin" /\ loc = "store" /\ calls' = calls
         \/ pc[t] = "query" /\ o = "query" /\ loc = "end" /\ calls' = calls
  PROVE  Budget'
<1>1. /\ sent' = [sent EXCEPT ![t] = sent[t] + 1] /\ pc' = [pc EXCEPT ![t] = loc]
      /\ Latest(t)' \in Requests /\ Latest(t)' = <<t, sent[t] + 1>>
      /\ op' = [op EXCEPT ![Latest(t)'] = o]
  BY SendIs
<1>2. ASSUME NEW u \in Threads \ {t}
      PROVE  /\ sent'[u] = sent[u] /\ calls'[u] = calls[u] /\ pc'[u] = pc[u]
             /\ AtEndOfType(u)' => AtEndOfType(u)
  <2>1. sent'[u] = sent[u] /\ calls'[u] = calls[u] /\ pc'[u] = pc[u]
    BY <1>1 DEF TypeOK
  <2>2. Latest(u)' = Latest(u)
    BY <2>1 DEF Latest
  <2>3. pc[u] = "end" => Latest(u) \in Requests /\ Latest(u) # Latest(t)'
    BY <1>1, Spare DEF Budget, Latest
  <2>4. pc[u] = "end" => op'[Latest(u)] = op[Latest(u)]
    BY <1>1, <2>3 DEF TypeOK
  <2> QED
    BY <2>1, <2>2, <2>4 DEF AtEndOfType
<1>3. /\ sent[t] \in Nat /\ calls[t] \in Nat /\ sent'[t] = sent[t] + 1 /\ pc'[t] = loc
      /\ op'[Latest(t)'] = o
  BY <1>1, Spare DEF TypeOK
<1>4. AtEndOfType(t)' => o = "type" /\ loc = "end"
  BY <1>3 DEF AtEndOfType
<1>5. /\ sent[t] <= 2 * calls[t]
      /\ pc[t] = "begin" => sent[t] + 2 <= 2 * calls[t]
      /\ pc[t] = "query" => sent[t] + 1 <= 2 * calls[t]
      /\ MayCall(t) /\ calls' = [calls EXCEPT ![t] = @ + 1] => calls'[t] = calls[t] + 1
  BY DEF Budget, TypeOK
<1>6. /\ sent'[t] <= 2 * calls'[t]
      /\ pc'[t] \in {"assert", "begin"} => sent'[t] + 2 <= 2 * calls'[t]
      /\ pc'[t] \in {"store", "trap", "halted", "await", "clear", "query"}
           \/ AtEndOfType(t)' => sent'[t] + 1 <= 2 * calls'[t]
      /\ pc'[t] \in {"store", "trap", "halted", "end"} => sent'[t] # 0
  BY <1>3, <1>4, <1>5
<1>7. \A u \in Threads \ {t} :
        /\ sent'[u] <= 2 * calls'[u]
        /\ pc'[u] \in {"assert", "begin"} => sent'[u] + 2 <= 2 * calls'[u]
        /\ pc'[u] \in {"store", "trap", "halted", "await", "clear", "query"}
             \/ AtEndOfType(u)' => sent'[u] + 1 <= 2 * calls'[u]
        /\ pc'[u] \in {"store", "trap", "halted", "end"} => sent'[u] # 0
  BY <1>2 DEF Budget
<1> QED
  BY <1>6, <1>7 DEF Budget

(* Every step keeps every thread within its budget. *)
LEMMA BudgetStep == IInv /\ [Next]_vars => Budget'
<1> SUFFICES ASSUME IInv, [Next]_vars PROVE Budget'
  OBVIOUS
<1> USE DEF IInv, clientVars, callVars
<1>1. \A t \in Threads : calls[t] \in Nat /\ calls[t] <= calls[t]
  BY Spare
<1>2. ASSUME NEW t \in Threads,
             \/ BeginGetType(t) \/ BeginQuery(t) \/ QueryTypeId(t)
             \/ \E o \in {"backtrace", "members"} : BeginStop(t, o)
      PROVE  Budget'
  BY <1>2, BudgetSends, Spare DEF BeginGetType, BeginQuery, QueryTypeId, BeginStop, Ops, StopOps
<1>3. ASSUME NEW t \in Threads, EnterGetType(t) \/ BeginFails(t) PROVE Budget'
  <2>1. calls' = calls \/ calls' = [calls EXCEPT ![t] = @ + 1]
    BY <1>3 DEF EnterGetType, BeginFails
  <2>2. \A u \in Threads : calls[u] <= calls'[u] /\ calls'[u] \in Nat
    BY <1>1, <2>1 DEF TypeOK
  <2>3. CASE EnterGetType(t)
    <3>1. /\ calls' = [calls EXCEPT ![t] = @ + 1] /\ pc' = [pc EXCEPT ![t] = "assert"]
          /\ UNCHANGED <<op, sent>>
      BY <2>3 DEF EnterGetType, GoTo
    <3>2. \A u \in Threads : pc'[u] = pc[u] \/ (pc'[u] = "assert" /\ calls'[u] = calls[u] + 1)
      BY <3>1 DEF TypeOK
    <3> QED
      BY <2>2, <3>1, <3>2, BudgetMoves
  <2>4. CASE BeginFails(t)
    <3>1. /\ pc' = pc \/ pc' = [pc EXCEPT ![t] = "idle"]
          /\ UNCHANGED <<op, sent>>
      BY <2>4 DEF BeginFails, GoTo
    <3>2. \A u \in Threads : pc'[u] = pc[u] \/ pc'[u] = "idle"
      BY <3>1 DEF TypeOK
    <3> QED
      BY <2>2, <3>1, <3>2, BudgetMoves
  <2> QED
    BY <1>3, <2>3, <2>4
<1>4. ASSUME NEW t \in Threads,
             AssertHolds(t) \/ AssertFails(t) \/ StoreArp(t) \/ EndGetType(t) \/ TakeType(t)
             \/ ClearArp(t) \/ EndBacktrace(t) \/ EndOther(t) \/ RaceOnArp(t)
      PROVE  Budget'
  BY <1>1, <1>4, BudgetMoves DEF AssertHolds, AssertFails, StoreArp, EndGetType, TakeType,
     ClearArp, EndBacktrace, EndOther, RaceOnArp, TakeReply, GoTo, TypeOK
<1>5. ASSUME NEW S \in SUBSET Threads, HitBreakpoint(S) PROVE Budget'
  BY <1>1, <1>5, BudgetMoves DEF HitBreakpoint
<1>6. CASE DispatchThread \/ EventThread \/ UNCHANGED vars
  <2>1. UNCHANGED <<op, sent, calls>> /\ (pc' = pc \/ Continue)
    BY <1>6 DEF DispatchThread, EventThread, vars, Dispatch, EnterStop, EnterFails, Wake,
       InspectStack, ExitStop, SendReply, ReceiveStop, ResumeUnexpected, CallbackSignals,
       CallbackIgnores, RemoveCallback, EndLoop
  <2>2. \A t \in Threads : pc'[t] = pc[t] \/ (pc[t] = "halted" /\ pc'[t] = "end")
    BY <2>1 DEF Continue
  <2> QED
    BY <1>1, <2>1, <2>2, BudgetMoves
<1> QED
  BY <1>2, <1>3, <1>4, <1>5, <1>6 DEF Next, ClientMoves, ClientCalls

-----------------------------------------------------------------------------
(* The three other parts of the invariant, step by step.                   *)
StopFacts == CallbacksMatchWaiters /\ OneResumer /\ StopInv

(* Nobody owns a stop while the program runs, so what the program does in  *)
(* between leaves the controller's facts alone.                            *)
LEMMA ProgramStep ==
  ASSUME IInv, process = "running", UNCHANGED <<serverVars, emVars>>
  PROVE  StopFacts'
  BY DEF IInv, StopFacts, CallbacksMatchWaiters, CallbackWaits, OneResumer, StopInv,
         ResumedByHandler, ResumedByEventThread, StopNotSeen, serverVars, emVars

(* Every step keeps the stop and its owner together.                       *)
LEMMA StopStep == IInv /\ [Next]_vars => StopFacts'
<1> SUFFICES ASSUME IInv, [Next]_vars
             PROVE  StopFacts'
  OBVIOUS
<1> USE DEF IInv, TypeOK, StopFacts, OneResumer, StopInv, CallbackWaits,
            ResumedByHandler, ResumedByEventThread, StopNotSeen,
            clientVars, callVars, netVars, serverVars, emVars
<1>1. ASSUME NEW t \in Threads, ClientMoves(t) \/ ClientCalls(t) \/ RaceOnArp(t)
      PROVE  StopFacts'
  <2>1. process = "running" /\ UNCHANGED <<serverVars, emVars>>
    BY <1>1 DEF ClientMoves, ClientCalls, EnterGetType, AssertHolds, AssertFails,
       BeginGetType, StoreArp, BeginStop, BeginQuery, BeginFails, EndGetType, TakeType,
       ClearArp, QueryTypeId, EndBacktrace, EndOther, RaceOnArp, MayCall, Answered
  <2> QED
    BY <2>1, ProgramStep
<1>2. ASSUME NEW S \in SUBSET Threads, HitBreakpoint(S)
      PROVE  StopFacts'
  BY <1>2 DEF HitBreakpoint, CallbacksMatchWaiters
<1>3. CASE Dispatch
  BY <1>3, RendezvousAssumption DEF Dispatch, CallbacksMatchWaiters
<1>4. CASE EnterStop
  <2>1. serving \in Requests /\ ~CallbackWaits /\ CallbackWaits'
    BY <1>4 DEF EnterStop
  <2>2. CallbacksMatchWaiters'
    <3>1. CASE em = "remove"
      <4>1. callbacks \in Seq(Requests) /\ callbacks # <<>> /\ Tail(callbacks) = <<>>
        BY <2>1, <3>1 DEF CallbacksMatchWaiters
      <4>2. callbacks' = Append(callbacks, serving) /\ em' = "remove" /\ serving' = serving
        BY <1>4, <3>1 DEF EnterStop
      <4>3. callbacks' # <<>> /\ Tail(callbacks') = <<serving>>
        <5>1. /\ Append(callbacks, serving) # <<>>
              /\ Tail(Append(callbacks, serving)) = Append(Tail(callbacks), serving)
          BY <2>1, <4>1, TailOfAppend
        <5> QED
          BY <4>1, <4>2, <5>1, AppendToEmpty
      <4> QED
        BY <2>1, <4>2, <4>3 DEF CallbacksMatchWaiters
    <3>2. CASE em # "remove"
      BY <1>4, <2>1, <3>2, AppendToEmpty DEF EnterStop, CallbacksMatchWaiters
    <3> QED
      BY <3>1, <3>2
  <2>3. OneResumer' /\ StopInv'
    BY <1>4, <2>1, RendezvousAssumption DEF EnterStop
  <2> QED
    BY <2>2, <2>3
<1>5. CASE EnterFails
  BY <1>5 DEF EnterFails, CallbacksMatchWaiters
<1>6. CASE Wake
  BY <1>6 DEF Wake, CallbacksMatchWaiters
<1>7. CASE InspectStack
  BY <1>7 DEF InspectStack, CallbacksMatchWaiters
<1>8. CASE ExitStop
  BY <1>8 DEF ExitStop, Continue, CallbacksMatchWaiters
<1>9. CASE SendReply
  BY <1>9 DEF SendReply, CallbacksMatchWaiters
<1>10. CASE ReceiveStop
  BY <1>10 DEF ReceiveStop, CallbacksMatchWaiters
<1>11. CASE ResumeUnexpected
  BY <1>11 DEF ResumeUnexpected, Continue, CallbacksMatchWaiters
<1>12. CASE CallbackSignals
  <2>1. serving \in Requests /\ CallbackWaits /\ emIndex = 0
    BY <1>12, Singleton DEF CallbackSignals, CallbacksMatchWaiters
  <2>2. callbacks = <<serving>>
    BY <1>12, <2>1 DEF CallbackSignals, CallbacksMatchWaiters
  <2>3. process = "stopped" /\ pc[Of(serving)] = "halted"
    BY <1>12, <2>1, <2>2, Singleton DEF CallbackSignals, StoppedAtBreakpoint
  <2>4. CallbacksMatchWaiters'
    BY <1>12, <2>1, <2>2, Singleton DEF CallbackSignals, CallbacksMatchWaiters
  <2>5. OneResumer' /\ StopInv'
    BY <1>12, <2>1, <2>3 DEF CallbackSignals
  <2> QED
    BY <2>4, <2>5
<1>13. CASE CallbackIgnores
  BY <1>13, Singleton DEF CallbackIgnores, CallbacksMatchWaiters
<1>14. CASE RemoveCallback
  <2>1. callbacks' = Tail(callbacks)
    <3>1. emIndex = 0 /\ callbacks \in Seq(Requests) /\ callbacks # <<>>
      BY <1>14 DEF RemoveCallback, CallbacksMatchWaiters
    <3>2. callbacks' = SubSeq(callbacks, 1, 0) \o SubSeq(callbacks, 2, Len(callbacks))
      BY <1>14, <3>1 DEF RemoveCallback
    <3> QED
      BY <3>1, <3>2, RemoveFirst
  <2>2. CallbacksMatchWaiters'
    BY <1>14, <2>1 DEF RemoveCallback, CallbacksMatchWaiters
  <2>3. OneResumer' /\ StopInv'
    BY <1>14 DEF RemoveCallback
  <2> QED
    BY <2>2, <2>3
<1>15. CASE EndLoop
  BY <1>15 DEF EndLoop, CallbacksMatchWaiters
<1>16. CASE UNCHANGED vars
  BY <1>16 DEF vars, CallbacksMatchWaiters
<1> QED
  BY <1>1, <1>2, <1>3, <1>4, <1>5, <1>6, <1>7, <1>8, <1>9, <1>10, <1>11, <1>12,
     <1>13, <1>14, <1>15, <1>16
  DEF Next, DispatchThread, EventThread

-----------------------------------------------------------------------------
(* The invariant holds in every reachable state. *)
THEOREM Invariant == Spec => []IInv
<1>1. IInv /\ [Next]_vars => IInv'
  BY TypeStep, BudgetStep, StopStep DEF IInv, StopFacts
<1> QED
  BY InitIInv, <1>1, PTL DEF Spec

(* Every variable has its type; at most one stop waits to be received and  *)
(* onEvent never gets beyond the first callback of its list.               *)
THEOREM TypeCorrect == Spec => []TypeOK
<1>1. IInv => TypeOK
  BY DEF IInv
<1> QED
  BY Invariant, <1>1, PTL

(* The stack that is read belongs to the thread being served, which is at  *)
(* the breakpoint of a stopped program from the moment its handler wakes   *)
(* until it continues the program.                                         *)
THEOREM InspectionSafe == Spec => []InspectsHaltedThread
<1>1. IInv => InspectsHaltedThread
  BY DEF IInv, TypeOK, OneResumer, StopInv, ResumedByHandler, InspectsHaltedThread
<1> QED
  BY Invariant, <1>1, PTL

(* No callback outlives its call, and none is missing while one waits. *)
THEOREM CallbacksBalanced == Spec => []CallbacksMatchWaiters
<1>1. IInv => CallbacksMatchWaiters
  BY DEF IInv
<1> QED
  BY Invariant, <1>1, PTL

(* A stop is never resumed by two parties, nor by one that has no stop. *)
THEOREM SingleResumer == Spec => []OneResumer
<1>1. IInv => OneResumer
  BY DEF IInv
<1> QED
  BY Invariant, <1>1, PTL

-----------------------------------------------------------------------------
(***************************************************************************)
(* Proofs about the requests of the rendezvous: each is in one place and   *)
(* its answer is taken once, behind the breakpoint; and, while one thread  *)
(* at a time uses the library, every stop has somebody who will resume it. *)
(***************************************************************************)

-----------------------------------------------------------------------------
(* The connection: a queue that no request is in twice. *)

In(s, u) == \E i \in 1..Len(s) : s[i] = u
Distinct(s) == \A i, j \in 1..Len(s) : s[i] = s[j] => i = j

(* A new request in the queue is in it once.                               *)
LEMMA QueueAppend ==
  ASSUME NEW S, NEW s \in Seq(S), NEW e \in S, Distinct(s), ~In(s, e)
  PROVE  /\ Distinct(Append(s, e))
         /\ \A u : In(Append(s, e), u) <=> (In(s, u) \/ u = e)
<1>1. /\ Len(Append(s, e)) = Len(s) + 1 /\ Len(s) \in Nat
      /\ \A i \in 1..Len(s) : Append(s, e)[i] = s[i]
      /\ Append(s, e)[Len(s) + 1] = e
  OBVIOUS
<1> QED
  BY <1>1 DEF In, Distinct

(* What is taken off the queue is in it no more.                           *)
LEMMA QueueTail ==
  ASSUME NEW S, NEW s \in Seq(S), s # <<>>, Distinct(s)
  PROVE  /\ Head(s) \in S /\ In(s, Head(s))
         /\ Distinct(Tail(s))
         /\ \A u : In(Tail(s), u) <=> (In(s, u) /\ u # Head(s))
<1>1. /\ Len(s) \in Nat \ {0} /\ Len(Tail(s)) = Len(s) - 1
      /\ \A i \in 1..Len(Tail(s)) : Tail(s)[i] = s[i + 1]
      /\ Head(s) = s[1] /\ s[1] \in S
  OBVIOUS
<1>2. \A u : In(Tail(s), u) => In(s, u) /\ u # Head(s)
  BY <1>1 DEF In, Distinct
<1>3. ASSUME NEW u, In(s, u), u # Head(s) PROVE In(Tail(s), u)
  <2>1. PICK i \in 1..Len(s) : s[i] = u
    BY <1>3 DEF In
  <2>2. i - 1 \in 1..Len(Tail(s)) /\ Tail(s)[i - 1] = u
    BY <1>1, <1>3, <2>1
  <2> QED
    BY <2>2 DEF In
<1> QED
  BY <1>1, <1>2, <1>3 DEF In, Distinct

-----------------------------------------------------------------------------
(* The inductive invariant of the requests.                                *)

(* A thread on its way to the breakpoint, or at it, wants its stack read;  *)
(* so does the request the dispatch thread is busy with; an answer that is *)
(* about to be sent is one; what ruminate->arp holds was sent, by a        *)
(* get_type; and a thread waits in end_ for a request.                     *)
AtStop == {"store", "trap", "halted"}
RequestPlaces ==
  /\ \A t \in Threads : pc[t] \in AtStop => op[Latest(t)] \in StopOps
  /\ \A t \in Threads : pc[t] = "store" => op[Latest(t)] = "type"
  /\ dispatch \in {"enter", "waiting", "body", "exit"} => op[serving] \in StopOps
  /\ dispatch \in {"exit", "reply"} => result # "none"
  /\ arp # NoRequest => Sent(arp) /\ op[arp] = "type"
  /\ \A t \in Threads : IF pc[t] = "await" THEN ending[t] \in Requests
                                           ELSE ending[t] = NoRequest

RequestInv == OneAnswerPerRequest /\ AnswerAfterBreakpoint /\ RequestPlaces

(* OneAnswerPerRequest, in the words of the queue. *)
Known(r) == In(requests, r) \/ serving = r \/ reply[r] # "none"
OneEach ==
  /\ Distinct(requests)
  /\ \A r \in Requests :
       /\ In(requests, r) => serving # r /\ reply[r] = "none"
       /\ serving = r => reply[r] = "none"
       /\ Sent(r) <=> Known(r)
Waiting ==
  \A t \in Threads :
    /\ OwnsAnswer(t) => reply[Latest(t)] # "taken"
    /\ pc[t] = "await" => /\ Sent(ending[t])
                          /\ op[ending[t]] = "type"
                          /\ reply[ending[t]] # "taken"
    /\ \A u \in Threads :
         pc[t] = "await" /\ pc[u] = "await" /\ ending[t] = ending[u] => t = u

(* The two ways to say it are the same.                                    *)
LEMMA OneEachIs == OneAnswerPerRequest <=> OneEach /\ Waiting
<1>1. /\ Distinct(requests) <=> \A i, j \in 1..Len(requests) : requests[i] = requests[j] => i = j
      /\ \A r \in Requests : /\ In(requests, r) <=> Queued(r)
                             /\ Known(r) <=> (Queued(r) \/ serving = r \/ reply[r] # "none")
  BY DEF Distinct, In, Queued, Known
<1> QED
  BY <1>1 DEF OneAnswerPerRequest, OneEach, Waiting

(* They are the same in the next state, too.                               *)
LEMMA OneEachNext == OneEach' /\ Waiting' => OneAnswerPerRequest'
<1>1. /\ Distinct(requests') <=> (\A i, j \in 1..Len(requests) : requests[i] = requests[j] => i = j)'
      /\ \A r \in Requests :
           /\ In(requests', r) <=> Queued(r)'
           /\ Known(r)' <=> (Queued(r)' \/ serving' = r \/ reply'[r] # "none")
  BY DEF Distinct, In, Queued, Known
<1> QED
  BY <1>1 DEF OneAnswerPerRequest, OneEach, Waiting

(* At first there are no requests.                                         *)
LEMMA RequestInit == Init => RequestInv
<1> SUFFICES ASSUME Init PROVE RequestInv
  OBVIOUS
<1>1. \A r \in Requests : ~Sent(r)
  BY RequestParts DEF Init, Sent
<1>2. OneEach
  BY <1>1, RendezvousAssumption DEF Init, OneEach, Distinct, In, Known
<1>3. Waiting
  BY DEF Init, Waiting, OwnsAnswer
<1>4. AnswerAfterBreakpoint /\ RequestPlaces
  BY RendezvousAssumption DEF Init, AnswerAfterBreakpoint, RequestPlaces, AtStop
<1> QED
  BY <1>2, <1>3, <1>4, OneEachIs DEF RequestInv

-----------------------------------------------------------------------------
(* What the program does.                                                  *)

(* The request a thread sent last, while it has a use for it. *)
LEMMA LatestIs ==
  ASSUME IInv, NEW t \in Threads, pc[t] \in {"store", "trap", "halted", "end"}
  PROVE  Latest(t) \in Requests /\ Of(Latest(t)) = t /\ Sent(Latest(t))
<1>1. Latest(t) \in Requests /\ sent[t] \in Nat
  BY Spare DEF IInv, Budget
<1> QED
  BY <1>1 DEF Latest, Of, Sent

(* Send names a request that was not sent before.                          *)
LEMMA SendFacts ==
  ASSUME IInv, NEW t \in Threads, NEW o \in Ops,
         NEW loc \in {"store", "trap", "end"}, sent[t] < 2 * MaxCalls, Send(t, o, loc)
  PROVE  /\ Latest(t)' \in Requests /\ Of(Latest(t)') = t /\ ~Sent(Latest(t)')
         /\ op'[Latest(t)'] = o /\ pc'[t] = loc
         /\ requests' = Append(requests, Latest(t)')
         /\ \A r \in Requests : Sent(r)' <=> (Sent(r) \/ r = Latest(t)')
         /\ \A r \in Requests : r # Latest(t)' => op'[r] = op[r]
         /\ \A u \in Threads \ {t} : Latest(u)' = Latest(u) /\ pc'[u] = pc[u]
<1> USE DEF IInv, TypeOK
<1>1. /\ sent' = [sent EXCEPT ![t] = sent[t] + 1]
      /\ Latest(t)' \in Requests /\ Latest(t)' = <<t, sent[t] + 1>>
      /\ op' = [op EXCEPT ![Latest(t)'] = o]
      /\ requests' = Append(requests, Latest(t)')
      /\ pc' = [pc EXCEPT ![t] = loc]
  BY SendIs
<1>2. sent[t] \in Nat /\ Of(Latest(t)') = t /\ Latest(t)'[2] = sent[t] + 1
  BY <1>1, Spare DEF Of
<1>3. ~Sent(Latest(t)')
  BY <1>2 DEF Sent
<1>4. ASSUME NEW r \in Requests PROVE Sent(r)' <=> (Sent(r) \/ r = Latest(t)')
  <2>1. Of(r) \in Threads /\ r[2] \in Nat /\ r = <<Of(r), r[2]>>
    BY RequestParts, RendezvousAssumption
  <2>2. CASE Of(r) = t
    <3>1. sent'[Of(r)] = sent[t] + 1
      BY <1>1, <2>2
    <3>2. r[2] <= sent[t] + 1 <=> (r[2] <= sent[t] \/ r[2] = sent[t] + 1)
      BY <1>2, <2>1
    <3>3. r[2] = sent[t] + 1 <=> r = Latest(t)'
      BY <1>1, <1>2, <2>1, <2>2
    <3> QED
      BY <2>2, <3>1, <3>2, <3>3 DEF Sent
  <2>3. CASE Of(r) # t
    BY <1>1, <1>2, <2>1, <2>3 DEF Sent
  <2> QED
    BY <2>2, <2>3
<1>5. \A u \in Threads \ {t} : Latest(u)' = Latest(u) /\ pc'[u] = pc[u]
  BY <1>1 DEF Latest
<1> QED
  BY <1>1, <1>2, <1>3, <1>4, <1>5

(* A request is sent by a thread that waits for none. *)
LEMMA SendStep ==
  ASSUME IInv, RequestInv, NEW t \in Threads, NEW o \in Ops,
         NEW loc \in {"store", "trap", "end"}, sent[t] < 2 * MaxCalls,
         loc = "trap" => o \in StopOps, loc = "store" => o = "type", pc[t] # "await",
         Send(t, o, loc), UNCHANGED <<arp, ending, reply, serverVars>>
  PROVE  RequestInv'
<1> DEFINE q == Latest(t)'
<1> USE DEF IInv, TypeOK, RequestInv, serverVars
<1>1. /\ q \in Requests /\ Of(q) = t /\ ~Sent(q)
      /\ op'[q] = o /\ pc'[t] = loc
      /\ requests' = Append(requests, q)
      /\ \A r \in Requests : Sent(r)' <=> (Sent(r) \/ r = q)
      /\ \A r \in Requests : r # q => op'[r] = op[r]
      /\ \A u \in Threads \ {t} : Latest(u)' = Latest(u) /\ pc'[u] = pc[u]
      /\ Latest(t)' = q
  BY SendFacts
<1> HIDE DEF q
<1>2. OneEach /\ Waiting
  BY OneEachIs
<1>3. ~In(requests, q) /\ serving # q /\ reply[q] = "none"
  BY <1>1, <1>2 DEF OneEach, Known
<1>4. /\ Distinct(requests')
      /\ \A u : In(requests', u) <=> (In(requests, u) \/ u = q)
  BY <1>1, <1>2, <1>3, QueueAppend DEF OneEach
<1>5. OneEach'
  BY <1>1, <1>2, <1>3, <1>4 DEF OneEach, Known
<1>6. \A u \in Threads \ {t} : pc[u] \in {"store", "trap", "halted", "end"} =>
        Latest(u) \in Requests /\ Latest(u) # q
  BY <1>1, LatestIs
<1>7. Waiting'
  <2>1. \A u \in Threads \ {t} :
          /\ pc'[u] = pc[u] /\ Latest(u)' = Latest(u)
          /\ OwnsAnswer(u)' => OwnsAnswer(u)
          /\ pc[u] = "await" => ending[u] \in Requests /\ ending[u] # q
                                /\ Sent(ending[u])' /\ op'[ending[u]] = op[ending[u]]
    BY <1>1, <1>2, <1>6 DEF OwnsAnswer, Waiting, RequestPlaces
  <2>2. pc'[t] # "await" /\ reply'[Latest(t)'] = "none"
    BY <1>1, <1>3
  <2> QED
    BY <1>2, <2>1, <2>2 DEF Waiting
<1>8. AnswerAfterBreakpoint'
  <2>1. \A u \in Threads : Has(Latest(u), "ok")' => Has(Latest(u)', "ok")
    BY DEF Has
  <2>2. ~Has(q, "ok")
    BY <1>3 DEF Has
  <2>3. \A u \in Threads \ {t} : pc'[u] \in AtStop => ~Has(Latest(u)', "ok")
    BY <1>1 DEF AnswerAfterBreakpoint, AtStop
  <2> QED
    BY <1>1, <2>1, <2>2, <2>3 DEF AnswerAfterBreakpoint, AtStop
<1>9. RequestPlaces'
  <2>1. /\ dispatch \in {"enter", "waiting", "body", "exit"} => op'[serving] = op[serving]
        /\ arp # NoRequest => op'[arp] = op[arp] /\ Sent(arp)'
    BY <1>1, <1>3 DEF RequestPlaces, StopInv
  <2>2. \A u \in Threads \ {t} : pc'[u] \in AtStop => op'[Latest(u)'] = op[Latest(u)]
    BY <1>1, <1>6 DEF AtStop
  <2>3. loc = "trap" \/ loc = "store" => o \in StopOps
    BY DEF StopOps
  <2>4. \A u \in Threads : /\ pc'[u] \in AtStop => op'[Latest(u)'] \in StopOps
                           /\ pc'[u] = "store" => op'[Latest(u)'] = "type"
    <3>1. ASSUME NEW u \in Threads \ {t}
          PROVE  /\ pc'[u] \in AtStop => op'[Latest(u)'] \in StopOps
                 /\ pc'[u] = "store" => op'[Latest(u)'] = "type"
      <4>1. pc'[u] = pc[u] /\ (pc'[u] \in AtStop => op'[Latest(u)'] = op[Latest(u)])
        BY <1>1, <2>2
      <4> QED
        BY <4>1 DEF RequestPlaces, AtStop
    <3>2. /\ pc'[t] \in AtStop => op'[Latest(t)'] \in StopOps
          /\ pc'[t] = "store" => op'[Latest(t)'] = "type"
      BY <1>1, <2>3 DEF AtStop
    <3> QED
      BY <3>1, <3>2
  <2>5. \A u \in Threads : IF pc'[u] = "await" THEN ending'[u] \in Requests
                                                ELSE ending'[u] = NoRequest
    BY <1>1 DEF RequestPlaces
  <2>6. /\ dispatch' \in {"enter", "waiting", "body", "exit"} => op'[serving'] \in StopOps
        /\ dispatch' \in {"exit", "reply"} => result' # "none"
        /\ arp' # NoRequest => Sent(arp)' /\ op'[arp'] = "type"
    BY <2>1 DEF RequestPlaces
  <2> QED
    BY <2>4, <2>5, <2>6 DEF RequestPlaces
<1> QED
  BY <1>5, <1>7, <1>8, <1>9, OneEachNext

(* Threads move from place to place with their requests where they are:    *)
(* up to the assertion, into the breakpoint and past it, or out.           *)
LEMMA MoveStep ==
  ASSUME IInv, RequestInv, UNCHANGED <<op, sent, ending, requests, reply, serverVars>>,
         arp' \in {arp, NoRequest} \/ (arp' \in Requests /\ Sent(arp') /\ op[arp'] = "type"),
         \A t \in Threads :
           /\ pc'[t] \in AtStop => pc[t] \in AtStop
           /\ pc'[t] = "store" => pc[t] = "store"
           /\ pc'[t] = "await" <=> pc[t] = "await"
           /\ OwnsAnswer(t)' => OwnsAnswer(t)
  PROVE  RequestInv'
<1> USE DEF IInv, TypeOK, RequestInv, serverVars
<1>1. OneEach /\ Waiting
  BY OneEachIs
<1>2. \A r : Sent(r)' <=> Sent(r)
  BY DEF Sent
<1>3. \A t \in Threads : Latest(t)' = Latest(t)
  BY DEF Latest
<1>4. OneEach'
  BY <1>1, <1>2 DEF OneEach, Known
<1>5. Waiting'
  BY <1>1, <1>2, <1>3 DEF Waiting
<1>6. AnswerAfterBreakpoint'
  <2>1. \A r : Has(r, "ok")' <=> Has(r, "ok")
    BY DEF Has
  <2>2. \A t \in Threads : Has(Latest(t), "ok")' <=> Has(Latest(t), "ok")
    BY <1>3, <2>1 DEF Has
  <2> QED
    BY <2>2 DEF AnswerAfterBreakpoint, AtStop
<1>7. RequestPlaces'
  BY <1>2, <1>3 DEF RequestPlaces
<1> QED
  BY <1>4, <1>5, <1>6, <1>7, OneEachNext

(* The answer of request r is taken by a thread that alone may take it and *)
(* that goes elsewhere.                                                    *)
LEMMA TakeStep ==
  ASSUME IInv, RequestInv, NEW t \in Threads, NEW r \in Requests, reply[r] # "none",
         UNCHANGED <<op, sent, arp, requests, serverVars>>,
         reply' = [reply EXCEPT ![r] = "taken"],
         pc'[t] \in {"idle", "clear"}, \A u \in Threads \ {t} : pc'[u] = pc[u],
         ending'[t] = NoRequest, \A u \in Threads \ {t} : ending'[u] = ending[u],
         \A u \in Threads \ {t} : pc[u] = "await" => ending[u] # r,
         \A u \in Threads \ {t} : OwnsAnswer(u) => Latest(u) # r
  PROVE  RequestInv'
<1> USE DEF IInv, TypeOK, RequestInv, serverVars
<1>1. OneEach /\ Waiting
  BY OneEachIs
<1>2. \A s : Sent(s)' <=> Sent(s)
  BY DEF Sent
<1>3. \A u \in Threads : Latest(u)' = Latest(u)
  BY DEF Latest
<1>4. OneEach'
  BY <1>1, <1>2 DEF OneEach, Known
<1>5. Waiting'
  <2>1. ~OwnsAnswer(t)' /\ pc'[t] # "await"
    BY DEF OwnsAnswer
  <2>2. \A u \in Threads \ {t} : OwnsAnswer(u)' => OwnsAnswer(u) /\ Latest(u) \in Requests
    BY <1>3, LatestIs DEF OwnsAnswer
  <2>3. \A u \in Threads \ {t} : pc[u] = "await" => ending[u] \in Requests
    BY DEF RequestPlaces
  <2>4. ASSUME NEW u \in Threads, OwnsAnswer(u)' PROVE reply'[Latest(u)'] # "taken"
    <3>1. u # t /\ OwnsAnswer(u) /\ Latest(u) \in Requests /\ Latest(u) # r
      BY <2>1, <2>2, <2>4
    <3>2. reply'[Latest(u)] = reply[Latest(u)] /\ reply[Latest(u)] # "taken"
      BY <1>1, <3>1 DEF Waiting
    <3> QED
      BY <1>3, <3>2
  <2>5. \A u \in Threads : pc'[u] = "await" =>
          u # t /\ pc[u] = "await" /\ ending'[u] = ending[u] /\ ending[u] # r
    BY <2>1
  <2>6. \A u \in Threads : pc'[u] = "await" =>
          Sent(ending[u])' /\ op'[ending'[u]] = "type" /\ reply'[ending'[u]] # "taken"
    BY <1>1, <1>2, <2>3, <2>5 DEF Waiting
  <2>7. \A u, v \in Threads :
          pc'[u] = "await" /\ pc'[v] = "await" /\ ending'[u] = ending'[v] => u = v
    BY <1>1, <2>5 DEF Waiting
  <2>8. \A u \in Threads : pc'[u] = "await" => Sent(ending[u])'
    BY <2>6
  <2> QED
    BY <2>4, <2>5, <2>6, <2>7 DEF Waiting, Sent
<1>6. AnswerAfterBreakpoint'
  <2>1. \A u \in Threads : Has(Latest(u), "ok")' => reply'[Latest(u)] = "ok"
                             \/ (serving = Latest(u) /\ dispatch = "reply" /\ result = "ok")
    BY <1>3 DEF Has
  <2>2. \A u \in Threads : pc'[u] \in AtStop => u # t /\ pc[u] \in AtStop /\ Latest(u) \in Requests
    BY LatestIs DEF AtStop
  <2> QED
    BY <2>1, <2>2 DEF AnswerAfterBreakpoint, AtStop, Has
<1>7. RequestPlaces'
  <2>1. \A u \in Threads : pc'[u] \in AtStop => pc[u] \in AtStop /\ pc'[u] = pc[u]
    BY DEF AtStop
  <2>2. \A u \in Threads : pc'[u] = "store" => pc[u] = "store"
    BY <2>1 DEF AtStop
  <2>3. \A u \in Threads : IF pc'[u] = "await" THEN ending'[u] \in Requests
                                                ELSE ending'[u] = NoRequest
    BY DEF RequestPlaces
  <2> QED
    BY <1>2, <1>3, <2>1, <2>2, <2>3 DEF RequestPlaces
<1> QED
  BY <1>4, <1>5, <1>6, <1>7, OneEachNext

(* A call that asked for something else than a type returns.               *)
LEMMA TakeOwn ==
  ASSUME IInv, RequestInv, NEW t \in Threads, Answered(t), op[Latest(t)] # "type",
         TakeReply(t), UNCHANGED <<callVars, requests, serverVars>>
  PROVE  RequestInv'
<1>1. Latest(t) \in Requests /\ pc[t] = "end" /\ reply[Latest(t)] # "none"
  BY LatestIs DEF Answered
<1>2. /\ pc' = [pc EXCEPT ![t] = "idle"] /\ reply' = [reply EXCEPT ![Latest(t)] = "taken"]
      /\ UNCHANGED <<op, sent, arp, ending>>
  BY DEF TakeReply, GoTo, callVars
<1>3. pc'[t] = "idle" /\ \A u \in Threads \ {t} : pc'[u] = pc[u]
  BY <1>2 DEF IInv, TypeOK
<1>4. ending[t] = NoRequest
  BY <1>1 DEF RequestInv, RequestPlaces
<1>5. \A u \in Threads \ {t} : /\ pc[u] = "await" => ending[u] # Latest(t)
                               /\ OwnsAnswer(u) => Latest(u) # Latest(t)
  BY <1>1, OneEachIs DEF RequestInv, Waiting, Latest
<1> QED
  BY <1>1, <1>2, <1>3, <1>4, <1>5, TakeStep

(* The steps of the program keep the requests in their places.             *)
LEMMA ProgramRequests ==
  ASSUME IInv, RequestInv,
         \/ \E t \in Threads : ClientMoves(t) \/ ClientCalls(t) \/ RaceOnArp(t)
         \/ \E S \in SUBSET Threads : HitBreakpoint(S)
  PROVE  RequestInv'
<1> USE DEF callVars, netVars
<1>1. ASSUME NEW t \in Threads, NEW loc \in Locations,
             UNCHANGED <<op, sent, ending, requests, reply, serverVars>>,
             arp' \in {arp, NoRequest}, GoTo(t, loc), loc \notin AtStop \cup {"end", "await"},
             pc[t] # "await"
      PROVE  RequestInv'
  <2>1. pc'[t] = loc /\ \A u \in Threads \ {t} : pc'[u] = pc[u]
    BY <1>1 DEF GoTo, IInv, TypeOK
  <2>2. ASSUME NEW u \in Threads
        PROVE  /\ pc'[u] \in AtStop => pc[u] \in AtStop
               /\ pc'[u] = "store" => pc[u] = "store"
               /\ pc'[u] = "await" <=> pc[u] = "await"
               /\ OwnsAnswer(u)' => OwnsAnswer(u)
    BY <1>1, <2>1 DEF OwnsAnswer, AtStop, Latest
  <2> QED
    BY <1>1, <2>2, MoveStep
<1>2. ASSUME UNCHANGED <<pc, op, sent, arp, ending, requests, reply, serverVars>>
      PROVE  RequestInv'
  BY <1>2, MoveStep DEF OwnsAnswer, Latest
<1>3. ASSUME NEW t \in Threads, EnterGetType(t) PROVE RequestInv'
  BY <1>1, <1>3 DEF EnterGetType, MayCall, Locations, AtStop
<1>4. ASSUME NEW t \in Threads, AssertHolds(t) PROVE RequestInv'
  BY <1>1, <1>4 DEF AssertHolds, Locations, AtStop
<1>5. ASSUME NEW t \in Threads, AssertFails(t) \/ RaceOnArp(t) PROVE RequestInv'
  BY <1>2, <1>5 DEF AssertFails, RaceOnArp
<1>6. ASSUME NEW t \in Threads, BeginFails(t) PROVE RequestInv'
  BY <1>1, <1>2, <1>6 DEF BeginFails, Locations, AtStop
<1>7. ASSUME NEW t \in Threads, BeginGetType(t) PROVE RequestInv'
  BY <1>7, SendStep, Spare DEF BeginGetType, Ops, StopOps, IInv
<1>8. ASSUME NEW t \in Threads, NEW o \in {"backtrace", "members"}, BeginStop(t, o)
      PROVE  RequestInv'
  BY <1>8, SendStep, Spare DEF BeginStop, Ops, StopOps, IInv, MayCall
<1>9. ASSUME NEW t \in Threads, BeginQuery(t) PROVE RequestInv'
  BY <1>9, SendStep, Spare DEF BeginQuery, Ops, StopOps, IInv, MayCall
<1>10. ASSUME NEW t \in Threads, QueryTypeId(t) PROVE RequestInv'
  BY <1>10, SendStep, Spare DEF QueryTypeId, Ops, StopOps, IInv
<1>11. ASSUME NEW t \in Threads, StoreArp(t) PROVE RequestInv'
  <2>1. /\ pc[t] = "store" /\ pc' = [pc EXCEPT ![t] = "trap"] /\ arp' = Latest(t)
        /\ UNCHANGED <<op, sent, ending, requests, reply, serverVars>>
    BY <1>11 DEF StoreArp, GoTo
  <2>2. Latest(t) \in Requests /\ Sent(Latest(t)) /\ op[Latest(t)] = "type"
    BY <2>1, LatestIs DEF RequestInv, RequestPlaces
  <2>3. ASSUME NEW u \in Threads
        PROVE  /\ pc'[u] \in AtStop => pc[u] \in AtStop
               /\ pc'[u] = "store" => pc[u] = "store"
               /\ pc'[u] = "await" <=> pc[u] = "await"
               /\ OwnsAnswer(u)' => OwnsAnswer(u)
    BY <2>1, <2>2 DEF OwnsAnswer, AtStop, Latest, IInv, TypeOK
  <2> QED
    BY <2>1, <2>2, <2>3, MoveStep
<1>12. ASSUME NEW t \in Threads, EndGetType(t) PROVE RequestInv'
  <2>1. /\ pc[t] = "end" /\ op[Latest(t)] = "type"
        /\ UNCHANGED <<op, sent, arp, requests, reply, serverVars>>
    BY <1>12 DEF EndGetType, AtEndOfType
  <2>2. CASE GoTo(t, "idle") /\ UNCHANGED ending
    BY <1>1, <2>1, <2>2 DEF Locations, AtStop
  <2>3. CASE ~(arp = NoRequest \/ Ended(arp)) /\ GoTo(t, "await")
             /\ ending' = [ending EXCEPT ![t] = arp]
    <3> USE DEF IInv, TypeOK, RequestInv, serverVars
    <3>1. /\ arp \in Requests /\ Sent(arp) /\ op[arp] = "type" /\ reply[arp] # "taken"
          /\ \A u \in Threads : ending[u] # arp
      BY <2>3 DEF RequestPlaces, Ended
    <3>2. /\ pc'[t] = "await" /\ \A u \in Threads \ {t} : pc'[u] = pc[u]
          /\ ending'[t] = arp /\ \A u \in Threads \ {t} : ending'[u] = ending[u]
      BY <2>3 DEF GoTo
    <3>3. OneEach /\ Waiting
      BY OneEachIs
    <3>4. /\ \A s : Sent(s)' <=> Sent(s)
          /\ \A u \in Threads : Latest(u)' = Latest(u)
      BY <2>1 DEF Sent, Latest
    <3>5. OneEach'
      BY <2>1, <3>3, <3>4 DEF OneEach, Known
    <3>6. Waiting'
      <4> HIDE DEF IInv, TypeOK, RequestInv
      <4>1. \A u \in Threads : OwnsAnswer(u)' => OwnsAnswer(u)
        BY <2>1, <3>2, <3>4 DEF OwnsAnswer
      <4>2. \A u \in Threads : pc'[u] = "await" => u = t \/ (pc[u] = "await" /\ ending'[u] = ending[u])
        BY <3>2
      <4>3. \A u \in Threads : pc'[u] = "await" =>
              Sent(ending'[u]) /\ op'[ending'[u]] = "type" /\ reply'[ending'[u]] # "taken"
        BY <2>1, <3>1, <3>2, <3>3, <4>2 DEF Waiting
      <4>4. \A u, v \in Threads :
              pc'[u] = "await" /\ pc'[v] = "await" /\ ending'[u] = ending'[v] => u = v
        BY <3>1, <3>2, <3>3, <4>2 DEF Waiting
      <4>5. \A u \in Threads : OwnsAnswer(u)' => reply'[Latest(u)'] # "taken"
        BY <2>1, <3>3, <3>4, <4>1 DEF Waiting
      <4>6. \A u \in Threads : pc'[u] = "await" => Sent(ending[u])'
        BY <2>1, <4>3 DEF Sent
      <4> QED
        BY <4>3, <4>4, <4>5, <4>6 DEF Waiting
    <3>7. AnswerAfterBreakpoint'
      BY <2>1, <3>2, <3>4 DEF AnswerAfterBreakpoint, Has
    <3>8. RequestPlaces'
      BY <2>1, <3>1, <3>2, <3>4 DEF RequestPlaces, AtStop
    <3> QED
      BY <3>5, <3>6, <3>7, <3>8, OneEachNext
  <2> QED
    BY <1>12, <2>2, <2>3 DEF EndGetType
<1>13. ASSUME NEW t \in Threads, TakeType(t) PROVE RequestInv'
  <2>1. PICK r \in Requests : r = ending[t]
    BY <1>13 DEF TakeType, RequestInv, RequestPlaces
  <2>2. /\ pc[t] = "await" /\ reply[r] # "none"
        /\ reply' = [reply EXCEPT ![r] = "taken"]
        /\ ending' = [ending EXCEPT ![t] = NoRequest]
        /\ GoTo(t, "clear") \/ GoTo(t, "idle")
        /\ UNCHANGED <<op, sent, arp, requests, serverVars>>
    BY <1>13, <2>1 DEF TakeType
  <2>3. /\ pc'[t] \in {"idle", "clear"} /\ \A u \in Threads \ {t} : pc'[u] = pc[u]
        /\ ending'[t] = NoRequest /\ \A u \in Threads \ {t} : ending'[u] = ending[u]
    BY <2>2 DEF GoTo, IInv, TypeOK
  <2>4. \A u \in Threads \ {t} : /\ pc[u] = "await" => ending[u] # r
                                 /\ OwnsAnswer(u) => Latest(u) # r
    BY <2>1, <2>2, OneEachIs DEF RequestInv, Waiting, OwnsAnswer
  <2> QED
    BY <2>2, <2>3, <2>4, TakeStep
<1>14. ASSUME NEW t \in Threads, ClearArp(t) PROVE RequestInv'
  BY <1>1, <1>14 DEF ClearArp, Locations, AtStop
<1>15. ASSUME NEW t \in Threads, EndBacktrace(t) PROVE RequestInv'
  <2>1. Answered(t) /\ op[Latest(t)] # "type" /\ UNCHANGED <<callVars, requests, serverVars>>
    BY <1>15 DEF EndBacktrace
  <2>2. CASE TakeReply(t)
    BY <2>1, <2>2, TakeOwn
  <2>3. CASE UNCHANGED <<pc, reply>>
    BY <1>2, <2>1, <2>3
  <2> QED
    BY <1>15, <2>2, <2>3 DEF EndBacktrace
<1>16. ASSUME NEW t \in Threads, EndOther(t) PROVE RequestInv'
  BY <1>16, TakeOwn DEF EndOther
<1>17. ASSUME NEW S \in SUBSET Threads, HitBreakpoint(S) PROVE RequestInv'
  <2>1. /\ \A t \in S : pc[t] = "trap"
        /\ pc' = [t \in Threads |-> IF t \in S THEN "halted" ELSE pc[t]]
        /\ UNCHANGED <<op, sent, arp, ending, requests, reply, serverVars>>
    BY <1>17 DEF HitBreakpoint
  <2>2. ASSUME NEW u \in Threads
        PROVE  /\ pc'[u] \in AtStop => pc[u] \in AtStop
               /\ pc'[u] = "store" => pc[u] = "store"
               /\ pc'[u] = "await" <=> pc[u] = "await"
               /\ OwnsAnswer(u)' => OwnsAnswer(u)
    BY <2>1 DEF OwnsAnswer, AtStop, Latest
  <2> QED
    BY <2>1, <2>2, MoveStep
<1> QED
  BY <1>3, <1>4, <1>5, <1>6, <1>7, <1>8, <1>9, <1>10, <1>11, <1>12, <1>13, <1>14,
     <1>15, <1>16, <1>17 DEF ClientMoves, ClientCalls

-----------------------------------------------------------------------------
(* What the controller does.                                               *)

(* The invariant depends on what the program is at, on the requests and on *)
(* the dispatch thread.                                                    *)
LEMMA ControllerStep ==
  ASSUME RequestInv, UNCHANGED <<pc, callVars>>, OneEach',
         \A r \in Requests : reply'[r] = "taken" <=> reply[r] = "taken",
         \A t \in Threads : pc[t] \in AtStop => ~Has(Latest(t), "ok")',
         dispatch' \in {"enter", "waiting", "body", "exit"} => op[serving'] \in StopOps,
         dispatch' \in {"exit", "reply"} => result' # "none",
         \A t \in Threads : OwnsAnswer(t) => Latest(t) \in Requests
  PROVE  RequestInv'
<1> USE DEF RequestInv, callVars
<1>1. OneEach /\ Waiting
  BY OneEachIs
<1>2. /\ \A r : Sent(r)' <=> Sent(r)
      /\ \A t \in Threads : Latest(t)' = Latest(t)
      /\ \A t \in Threads : OwnsAnswer(t)' <=> OwnsAnswer(t)
  BY DEF Sent, Latest, OwnsAnswer
<1>3. Waiting'
  <2>1. \A t \in Threads : OwnsAnswer(t)' => reply'[Latest(t)'] # "taken"
    BY <1>1, <1>2 DEF Waiting
  <2>2. \A t \in Threads : pc[t] = "await" => ending[t] \in Requests
    BY DEF RequestPlaces
  <2> QED
    BY <1>1, <1>2, <2>1, <2>2 DEF Waiting, Sent
<1>4. AnswerAfterBreakpoint'
  BY DEF AnswerAfterBreakpoint, AtStop
<1>5. RequestPlaces'
  BY <1>2 DEF RequestPlaces, Sent
<1> QED
  BY <1>3, <1>4, <1>5, OneEachNext

(* The dispatch thread goes from one place to another with the same        *)
(* request, and no answer is sent or prepared that is not one.             *)
LEMMA ServeStep ==
  ASSUME IInv, RequestInv, UNCHANGED <<clientVars, netVars, serving>>,
         dispatch \notin {"idle", "reply"}, dispatch' \in {"waiting", "body", "exit", "reply"},
         dispatch' \in {"exit", "reply"} => result' # "none",
         dispatch' = "reply" => result' = "error"
  PROVE  RequestInv'
<1> USE DEF IInv, TypeOK, clientVars, netVars
<1>1. OneEach
  BY OneEachIs DEF RequestInv
<1>2. OneEach'
  BY <1>1 DEF OneEach, Known, Sent, callVars
<1>3. \A t \in Threads : pc[t] \in AtStop => ~Has(Latest(t), "ok")'
  BY DEF RequestInv, AnswerAfterBreakpoint, Has, AtStop, Latest, callVars
<1>4. dispatch' \in {"enter", "waiting", "body", "exit"} => op[serving'] \in StopOps
  BY DEF RequestInv, RequestPlaces, StopInv
<1>5. \A t \in Threads : OwnsAnswer(t) => Latest(t) \in Requests
  BY LatestIs DEF OwnsAnswer
<1> QED
  BY <1>2, <1>3, <1>4, <1>5, ControllerStep

(* The controller continues the program: threads at the breakpoint go on   *)
(* to take their answers.                                                  *)
LEMMA ContinueStep ==
  ASSUME IInv, RequestInv, Continue, UNCHANGED <<callVars, requests, reply, serving, result>>,
         \/ UNCHANGED dispatch
         \/ /\ dispatch = "exit" /\ dispatch' = "reply"
            /\ process = "stopped" /\ pc[Of(serving)] = "halted"
  PROVE  RequestInv'
<1> USE DEF IInv, TypeOK, RequestInv, callVars
<1>1. OneEach /\ Waiting
  BY OneEachIs
<1>2. \A t \in Threads :
        \/ pc'[t] = pc[t] /\ (process = "stopped" => pc[t] # "halted")
        \/ pc[t] = "halted" /\ pc'[t] = "end"
  BY DEF Continue
<1>3. /\ \A r : Sent(r)' <=> Sent(r)
      /\ \A t \in Threads : Latest(t)' = Latest(t)
      /\ \A t \in Threads : OwnsAnswer(t)' => OwnsAnswer(t)
  BY <1>2 DEF Sent, Latest, OwnsAnswer
<1>4. OneEach'
  BY <1>1, <1>3 DEF OneEach, Known
<1>5. Waiting'
  <2>1. \A t \in Threads : pc'[t] = "await" <=> pc[t] = "await"
    BY <1>2
  <2> QED
    BY <1>1, <1>3, <2>1 DEF Waiting, Sent
<1>6. AnswerAfterBreakpoint'
  <2>1. ASSUME NEW t \in Threads, pc'[t] \in AtStop, Has(Latest(t), "ok")'
        PROVE  FALSE
    <3>1. pc[t] \in AtStop /\ pc'[t] = pc[t] /\ Latest(t)' = Latest(t)
      BY <1>2, <1>3, <2>1 DEF AtStop
    <3>2. ~Has(Latest(t), "ok") /\ Of(Latest(t)) = t
      BY <3>1, LatestIs DEF AnswerAfterBreakpoint, AtStop
    <3>3. serving = Latest(t) /\ dispatch = "exit" /\ process = "stopped" /\ pc[Of(serving)] = "halted"
      BY <2>1, <3>1, <3>2 DEF Has
    <3> QED
      BY <1>2, <3>1, <3>2, <3>3
  <2> QED
    BY <2>1 DEF AnswerAfterBreakpoint, AtStop
<1>7. RequestPlaces'
  <2>1. \A t \in Threads : /\ pc'[t] \in AtStop => pc[t] \in AtStop /\ pc'[t] = pc[t]
                           /\ pc'[t] = "await" <=> pc[t] = "await"
    BY <1>2 DEF AtStop
  <2>2. \A t \in Threads : pc'[t] = "store" => pc[t] = "store"
    BY <1>2
  <2> QED
    BY <1>3, <2>1, <2>2 DEF RequestPlaces, Sent
<1> QED
  BY <1>4, <1>5, <1>6, <1>7, OneEachNext

(* The steps of the dispatch thread keep the requests in their places.     *)
LEMMA DispatchRequests ==
  ASSUME IInv, RequestInv, DispatchThread
  PROVE  RequestInv'
<1> USE DEF IInv, TypeOK, clientVars, netVars, serverVars
<1>1. OneEach
  BY OneEachIs DEF RequestInv
<1>2. \A t \in Threads : /\ OwnsAnswer(t) => Latest(t) \in Requests
                         /\ pc[t] \in AtStop => Latest(t) \in Requests
  BY LatestIs DEF OwnsAnswer, AtStop
<1>3. CASE Dispatch
  <2> DEFINE q == Head(requests)
  <2>1. /\ dispatch = "idle" /\ requests # <<>> /\ serving' = q
        /\ requests' = Tail(requests)
        /\ pc' = pc /\ reply' = reply /\ UNCHANGED callVars
        /\ \/ op[q] = "query" /\ result' \in {"ok", "error"} /\ dispatch' = "reply"
           \/ op[q] \in StopOps /\ dispatch' = "enter"
    BY <1>3 DEF Dispatch
  <2>2. /\ q \in Requests /\ In(requests, q)
        /\ Distinct(requests')
        /\ \A u : In(requests', u) <=> (In(requests, u) /\ u # q)
    BY <1>1, <2>1, QueueTail DEF OneEach
  <2>3. serving = NoRequest /\ reply[q] = "none"
    BY <1>1, <2>1, <2>2 DEF StopInv, OneEach
  <2> HIDE DEF q
  <2>4. OneEach'
    BY <1>1, <2>1, <2>2, <2>3, RendezvousAssumption DEF OneEach, Known, Sent, callVars
  <2>5. ASSUME NEW t \in Threads, pc[t] \in AtStop PROVE ~Has(Latest(t), "ok")'
    <3>1. /\ Latest(t)' = Latest(t) /\ reply[Latest(t)] # "ok"
          /\ op[Latest(t)] \in StopOps
      BY <2>1, <2>5 DEF Latest, callVars, RequestInv, AnswerAfterBreakpoint, Has, AtStop,
         RequestPlaces
    <3>2. dispatch' = "reply" => serving' # Latest(t)
      BY <2>1, <3>1 DEF StopOps
    <3> QED
      BY <2>1, <3>1, <3>2 DEF Has
  <2>6. /\ dispatch' \in {"enter", "waiting", "body", "exit"} => op[serving'] \in StopOps
        /\ dispatch' \in {"exit", "reply"} => result' # "none"
    BY <2>1
  <2> QED
    BY <1>2, <2>1, <2>4, <2>5, <2>6, ControllerStep
<1>4. CASE EnterStop
  BY <1>4, ServeStep DEF EnterStop
<1>5. CASE EnterFails
  BY <1>5, ServeStep DEF EnterFails
<1>6. CASE Wake
  BY <1>6, ServeStep DEF Wake
<1>7. CASE InspectStack
  BY <1>7, ServeStep DEF InspectStack
<1>8. CASE ExitStop
  BY <1>8, ContinueStep DEF ExitStop, OneResumer, ResumedByHandler, StopInv
<1>9. CASE SendReply
  <2>1. /\ dispatch = "reply" /\ dispatch' = "idle" /\ serving \in Requests
        /\ reply' = [reply EXCEPT ![serving] = result] /\ serving' = NoRequest
        /\ pc' = pc /\ requests' = requests /\ UNCHANGED callVars
        /\ result \in {"ok", "error"} /\ reply[serving] = "none"
    BY <1>1, <1>9 DEF SendReply, StopInv, RequestInv, RequestPlaces, OneEach
  <2>2. OneEach'
    BY <1>1, <2>1, RendezvousAssumption DEF OneEach, Known, Sent, callVars
  <2>3. \A r \in Requests : reply'[r] = "taken" <=> reply[r] = "taken"
    BY <2>1
  <2>4. ASSUME NEW t \in Threads, pc[t] \in AtStop PROVE ~Has(Latest(t), "ok")'
    <3>1. Latest(t)' = Latest(t) /\ ~Has(Latest(t), "ok") /\ Latest(t) \in Requests
      BY <1>2, <2>1, <2>4 DEF Latest, callVars, RequestInv, AnswerAfterBreakpoint, AtStop
    <3> QED
      BY <2>1, <3>1 DEF Has
  <2> QED
    BY <1>2, <2>1, <2>2, <2>3, <2>4, ControllerStep
<1> QED
  BY <1>3, <1>4, <1>5, <1>6, <1>7, <1>8, <1>9 DEF DispatchThread

(* The event thread sends nothing; it may continue the program. *)
LEMMA EventRequests ==
  ASSUME IInv, RequestInv, EventThread
  PROVE  RequestInv'
<1>1. ASSUME UNCHANGED <<clientVars, netVars, dispatch, serving, result>> PROVE RequestInv'
  BY <1>1, MoveStep, ControllerStep DEF RequestInv, OneAnswerPerRequest, Queued, OwnsAnswer,
     Latest, Sent, AnswerAfterBreakpoint, Has, RequestPlaces, clientVars, callVars, netVars
<1>2. ASSUME ResumeUnexpected PROVE RequestInv'
  BY <1>2, ContinueStep DEF ResumeUnexpected, netVars, serverVars
<1> QED
  BY <1>1, <1>2 DEF EventThread, ReceiveStop, CallbackSignals, CallbackIgnores,
     RemoveCallback, EndLoop, serverVars

(* Every step keeps the requests in their places.                          *)
LEMMA RequestStep == IInv /\ RequestInv /\ [Next]_vars => RequestInv'
<1> SUFFICES ASSUME IInv, RequestInv, [Next]_vars PROVE RequestInv'
  OBVIOUS
<1>1. CASE UNCHANGED vars
  BY <1>1 DEF vars, clientVars, callVars, netVars, serverVars, RequestInv, OneAnswerPerRequest,
     Queued, OwnsAnswer, Latest, Sent, AnswerAfterBreakpoint, Has, RequestPlaces
<1> QED
  BY <1>1, ProgramRequests, DispatchRequests, EventRequests DEF Next

-----------------------------------------------------------------------------
(* In every reachable state the requests are where RequestInv says, also   *)
(* when threads overwrite, end and clear each other's ruminate->arp.       *)
THEOREM RequestInvariant == Spec => [](IInv /\ RequestInv)
<1>1. Init => RequestInv
  BY RequestInit
<1> QED
  BY <1>1, RequestStep, Invariant, PTL DEF Spec

(* Each request that was sent is queued, in service or answered, in one    *)
(* place; its answer is taken once, and by the thread that asked unless    *)
(* both it and the taker are in get_type: for any number of threads and of *)
(* calls under way.                                                        *)
THEOREM AnswersMatchRequests == Spec => []OneAnswerPerRequest
<1>1. RequestInv => OneAnswerPerRequest
  BY DEF RequestInv
<1> QED
  BY <1>1, RequestInvariant, PTL

(* What was read from a stack is an answer only when the thread that asked *)
(* for it has been continued past the breakpoint.                          *)
THEOREM AnswersFollowBreakpoint == Spec => []AnswerAfterBreakpoint
<1>1. RequestInv => AnswerAfterBreakpoint
  BY DEF RequestInv
<1> QED
  BY <1>1, RequestInvariant, PTL

-----------------------------------------------------------------------------
(* While one thread at a time uses the library, every stop has an owner.   *)

(* There is one such thread, and it is the one that stopped the program.   *)
(* What the controller has is its latest request, and ruminate->arp, if it *)
(* is in get_type and has stored it, holds that request, too.              *)
OneWhoCalls == \A t, u \in Threads : pc[t] # "idle" /\ pc[u] # "idle" => t = u
StoppedBySomebody == process = "stopped" => \E t \in Threads : pc[t] = "halted"
Owed == {"store", "trap", "halted", "end", "await"}
Pending(r) == In(requests, r) \/ serving = r
OwnRequest ==
  /\ \A r \in Requests : Pending(r) => pc[Of(r)] \in Owed /\ r = Latest(Of(r))
  /\ \A t \in Threads :
       /\ pc[t] \in {"trap", "halted"} \/ AtEndOfType(t) =>
            (op[Latest(t)] = "type" => arp = Latest(t))
       /\ pc[t] \in {"store", "trap", "halted", "end"} => reply[Latest(t)] # "taken"
       /\ pc[t] = "await" => ending[t] = Latest(t)
OwnerInv == OneWhoCalls /\ StoppedBySomebody /\ NoOrphanStop /\ OwnRequest

(* A thread whose callback waits is in the library. *)
LEMMA WaitingIsIn ==
  ASSUME IInv, OwnRequest, CallbackWaits
  PROVE  serving \in Requests /\ Of(serving) \in Threads /\ pc[Of(serving)] # "idle"
BY RequestParts DEF IInv, TypeOK, StopInv, CallbackWaits, OwnRequest, Pending, Owed

(* With a thread in the library none other may enter. *)
LEMMA MayCallAlone ==
  ASSUME MaxInFlight <= 1, NEW t \in Threads, MayCall(t), NEW u \in Threads
  PROVE  pc[u] = "idle"
<1> DEFINE S == {v \in Threads : pc[v] # "idle"}
<1>1. IsFiniteSet(S)
  BY FS_Subset, RendezvousAssumption
<1>2. Cardinality(S) \in Nat /\ Cardinality(S) < MaxInFlight /\ MaxInFlight \in Nat
  BY <1>1, FS_CardinalityType, RendezvousAssumption DEF MayCall
<1>3. Cardinality(S) = 0
  BY <1>2
<1>4. S = {}
  BY <1>1, <1>3, FS_EmptySet
<1> QED
  BY <1>4

(* A thread that is alone and that waits for nothing, or has its answer,   *)
(* leaves the controller with no request.                                  *)
LEMMA NothingPending ==
  ASSUME IInv, RequestInv, OwnRequest, NEW t \in Threads,
         \A u \in Threads \ {t} : pc[u] = "idle",
         pc[t] \notin Owed \/ reply[Latest(t)] # "none"
  PROVE  \A r \in Requests : ~Pending(r)
<1> SUFFICES ASSUME NEW r \in Requests, Pending(r) PROVE FALSE
  OBVIOUS
<1>1. Of(r) \in Threads /\ pc[Of(r)] \in Owed /\ r = Latest(Of(r))
  BY RequestParts DEF OwnRequest
<1>2. Of(r) = t
  BY <1>1 DEF Owed
<1>3. reply[r] = "none"
  BY OneEachIs DEF RequestInv, OneEach, Pending
<1> QED
  BY <1>1, <1>2, <1>3

(* It goes somewhere where it still waits for nothing. *)
LEMMA OwnQuiet ==
  ASSUME NEW t \in Threads, \A r \in Requests : ~Pending(r),
         UNCHANGED <<requests, serving>>,
         \A u \in Threads \ {t} : pc'[u] = "idle", pc'[t] \notin Owed
  PROVE  OwnRequest'
<1>1. \A r \in Requests : ~Pending(r)'
  BY DEF Pending
<1>2. \A u \in Threads : pc'[u] \notin Owed /\ ~AtEndOfType(u)'
  BY DEF Owed, AtEndOfType
<1> QED
  BY <1>1, <1>2 DEF OwnRequest, Owed

(* It sends a request. *)
LEMMA OwnSend ==
  ASSUME IInv, RequestInv, NEW t \in Threads, NEW o \in Ops,
         NEW loc \in {"store", "trap", "end"}, sent[t] < 2 * MaxCalls,
         \A r \in Requests : ~Pending(r), loc # "store" => o # "type",
         Send(t, o, loc), UNCHANGED <<reply, serving>>,
         \A u \in Threads \ {t} : pc[u] = "idle"
  PROVE  OwnRequest'
<1> DEFINE q == Latest(t)'
<1>1. /\ q \in Requests /\ Of(q) = t /\ ~Sent(q)
      /\ op'[q] = o /\ pc'[t] = loc
      /\ requests' = Append(requests, q)
      /\ \A u \in Threads \ {t} : pc'[u] = pc[u]
      /\ Latest(t)' = q
  BY SendFacts
<1> HIDE DEF q
<1>2. \A u : In(requests', u) <=> (In(requests, u) \/ u = q)
  BY <1>1, QueueAppend, OneEachIs DEF RequestInv, OneEach, Known, IInv, TypeOK
<1>3. \A r \in Requests : Pending(r)' => r = q
  BY <1>2 DEF Pending
<1>4. reply[q] # "taken"
  BY <1>1, OneEachIs DEF RequestInv, OneEach, Known
<1>5. \A u \in Threads : pc'[u] \in Owed => u = t
  BY <1>1 DEF Owed
<1>6. \A r \in Requests : Pending(r)' => pc'[Of(r)] \in Owed /\ r = Latest(Of(r))'
  BY <1>1, <1>3 DEF Owed, Latest
<1>7. AtEndOfType(t)' => o = "type" /\ loc = "end"
  BY <1>1 DEF AtEndOfType
<1>8. \A u \in Threads \ {t} : ~AtEndOfType(u)'
  BY <1>1 DEF AtEndOfType
<1>9. /\ pc'[t] \in {"trap", "halted"} \/ AtEndOfType(t)' => op'[Latest(t)'] # "type"
      /\ pc'[t] # "await" /\ reply'[Latest(t)'] # "taken"
  BY <1>1, <1>4, <1>7
<1> QED
  BY <1>5, <1>6, <1>8, <1>9 DEF OwnRequest, Owed

(* Where nothing is sent, stored or taken requests only leave the          *)
(* controller.                                                             *)
LEMMA OwnKept ==
  ASSUME OwnRequest, UNCHANGED callVars,
         \A r \in Requests : Pending(r)' => Pending(r) /\ Of(r) \in Threads,
         \A t \in Threads : pc[t] \in {"store", "trap", "halted", "end"} =>
           (reply'[Latest(t)] = "taken" <=> reply[Latest(t)] = "taken"),
         \A t \in Threads : \/ pc'[t] = pc[t]
                            \/ pc[t] = "trap" /\ pc'[t] = "halted"
                            \/ pc[t] = "halted" /\ pc'[t] = "end"
  PROVE  OwnRequest'
<1>1. /\ \A t \in Threads : Latest(t)' = Latest(t)
      /\ UNCHANGED <<op, arp, ending>>
  BY DEF Latest, callVars
<1>2. \A r \in Requests : Pending(r)' => pc'[Of(r)] \in Owed /\ r = Latest(Of(r))'
  BY <1>1 DEF OwnRequest, Owed
<1>3. ASSUME NEW t \in Threads
      PROVE  /\ pc'[t] \in {"trap", "halted"} \/ AtEndOfType(t)' =>
                  (op'[Latest(t)'] = "type" => arp' = Latest(t)')
             /\ pc'[t] \in {"store", "trap", "halted", "end"} => reply'[Latest(t)'] # "taken"
             /\ pc'[t] = "await" => ending'[t] = Latest(t)'
  BY <1>1 DEF OwnRequest, AtEndOfType
<1> QED
  BY <1>2, <1>3 DEF OwnRequest

(* It stores its request, for all to see, before the breakpoint. *)
LEMMA OwnStored ==
  ASSUME IInv, OwnRequest, NEW t \in Threads, StoreArp(t),
         \A u \in Threads \ {t} : pc[u] = "idle"
  PROVE  OwnRequest'
<1>1. /\ pc[t] = "store" /\ pc'[t] = "trap" /\ arp' = Latest(t)
      /\ \A u \in Threads \ {t} : pc'[u] = "idle"
      /\ UNCHANGED <<op, sent, ending, requests, reply, serving>>
  BY DEF StoreArp, GoTo, IInv, TypeOK, netVars, serverVars
<1>2. Latest(t)' = Latest(t)
  BY <1>1 DEF Latest
<1>3. \A r \in Requests : Pending(r)' => Of(r) = t /\ r = Latest(t)
  <2>1. \A r \in Requests : Pending(r)' => Pending(r) /\ Of(r) \in Threads
    BY <1>1, RequestParts DEF Pending
  <2> QED
    BY <2>1 DEF OwnRequest, Owed
<1>4. reply'[Latest(t)] # "taken"
  BY <1>1 DEF OwnRequest
<1>5. \A u \in Threads \ {t} : ~AtEndOfType(u)'
  BY <1>1 DEF AtEndOfType
<1> QED
  BY <1>1, <1>2, <1>3, <1>4, <1>5 DEF OwnRequest, Owed

(* Alone in the library it ends its own request, and none other. *)
LEMMA OwnEnds ==
  ASSUME IInv, RequestInv, OwnRequest, NEW t \in Threads, EndGetType(t),
         \A u \in Threads \ {t} : pc[u] = "idle"
  PROVE  OwnRequest'
<1>1. /\ pc[t] = "end" /\ op[Latest(t)] = "type" /\ AtEndOfType(t)
      /\ Latest(t) \in Requests /\ arp = Latest(t) /\ reply[arp] # "taken"
  BY LatestIs DEF EndGetType, AtEndOfType, OwnRequest
<1>2. \A u \in Threads : ending[u] = NoRequest
  BY <1>1 DEF RequestInv, RequestPlaces
<1>3. arp # NoRequest /\ ~Ended(arp)
  BY <1>1, <1>2, RendezvousAssumption DEF Ended
<1>4. /\ pc' = [pc EXCEPT ![t] = "await"] /\ ending' = [ending EXCEPT ![t] = Latest(t)]
      /\ UNCHANGED <<op, sent, arp, requests, reply, serving>>
  BY <1>1, <1>3 DEF EndGetType, GoTo, netVars, serverVars
<1>5. /\ pc'[t] = "await" /\ ending'[t] = Latest(t)
      /\ \A u \in Threads \ {t} : pc'[u] = "idle"
      /\ Latest(t)' = Latest(t)
  BY <1>4 DEF IInv, TypeOK, Latest
<1>6. \A r \in Requests : Pending(r)' => Of(r) = t /\ r = Latest(t)
  <2>1. \A r \in Requests : Pending(r)' => Pending(r) /\ Of(r) \in Threads
    BY <1>4, RequestParts DEF Pending
  <2> QED
    BY <2>1 DEF OwnRequest, Owed
<1>7. \A u \in Threads : ~AtEndOfType(u)'
  BY <1>5 DEF AtEndOfType
<1> QED
  BY <1>5, <1>6, <1>7 DEF OwnRequest, Owed

(* The steps of a thread that is alone in the library. *)
LEMMA OwnMoves ==
  ASSUME IInv, RequestInv, OwnRequest, NEW t \in Threads,
         ClientMoves(t) \/ ClientCalls(t) \/ RaceOnArp(t),
         \A u \in Threads \ {t} : pc[u] = "idle"
  PROVE  OwnRequest'
<1> USE DEF IInv, TypeOK
<1>q. ASSUME pc[t] \notin Owed \/ reply[Latest(t)] # "none", UNCHANGED <<requests, serving>>,
             NEW loc, loc \notin Owed, pc' = [pc EXCEPT ![t] = loc]
      PROVE  OwnRequest'
  BY <1>q, NothingPending, OwnQuiet
<1>s. ASSUME pc[t] \notin Owed, NEW o \in Ops, NEW loc \in {"store", "trap", "end"},
             sent[t] < 2 * MaxCalls, loc # "store" => o # "type",
             Send(t, o, loc), UNCHANGED <<reply, serving>>
      PROVE  OwnRequest'
  BY <1>s, NothingPending, OwnSend
<1>a. ASSUME UNCHANGED <<pc, callVars, requests, reply, serving>> PROVE OwnRequest'
  BY <1>a, OwnKept, RequestParts DEF Pending
<1>1. CASE EnterGetType(t)
  BY <1>1, <1>q DEF EnterGetType, MayCall, GoTo, Owed, netVars, serverVars
<1>2. CASE AssertHolds(t)
  BY <1>2, <1>q DEF AssertHolds, GoTo, Owed, netVars, serverVars
<1>3. CASE AssertFails(t) \/ RaceOnArp(t)
  BY <1>3, <1>a DEF AssertFails, RaceOnArp, netVars, serverVars
<1>4. CASE BeginGetType(t)
  BY <1>4, <1>s, Spare DEF BeginGetType, Budget, Owed, Ops, StopOps, serverVars
<1>5. CASE StoreArp(t)
  BY <1>5, OwnStored
<1>6. CASE EndGetType(t)
  BY <1>6, OwnEnds
<1>7. CASE TakeType(t)
  <2>1. pc[t] = "await" /\ ending[t] = Latest(t) /\ reply[Latest(t)] # "none"
    BY <1>7 DEF TakeType, OwnRequest
  <2>2. UNCHANGED <<requests, serving>> /\ (GoTo(t, "clear") \/ GoTo(t, "idle"))
    BY <1>7 DEF TakeType, serverVars
  <2> QED
    BY <2>1, <2>2, <1>q DEF GoTo, Owed
<1>8. CASE ClearArp(t)
  BY <1>8, <1>q DEF ClearArp, GoTo, Owed, netVars, serverVars
<1>9. CASE QueryTypeId(t)
  BY <1>9, <1>s, Spare DEF QueryTypeId, Budget, Owed, Ops, serverVars
<1>10. CASE EndBacktrace(t)
  <2>1. Answered(t) /\ UNCHANGED <<callVars, requests, serving>>
    BY <1>10 DEF EndBacktrace, serverVars
  <2>2. CASE TakeReply(t)
    BY <2>1, <2>2, <1>q DEF Answered, TakeReply, GoTo, Owed
  <2>3. CASE UNCHANGED <<pc, reply>>
    BY <2>1, <2>3, <1>a
  <2> QED
    BY <1>10, <2>2, <2>3 DEF EndBacktrace
<1>11. CASE EndOther(t)
  BY <1>11, <1>q DEF EndOther, Answered, TakeReply, GoTo, Owed, serverVars
<1>12. CASE \E o \in {"backtrace", "members"} : BeginStop(t, o)
  <2>1. PICK o \in {"backtrace", "members"} : BeginStop(t, o)
    BY <1>12
  <2> QED
    BY <2>1, <1>s, Spare DEF BeginStop, MayCall, Owed, Ops, StopOps, serverVars
<1>13. CASE BeginQuery(t)
  BY <1>13, <1>s, Spare DEF BeginQuery, MayCall, Owed, Ops, serverVars
<1>14. CASE BeginFails(t)
  <2>1. UNCHANGED <<requests, serving>> /\ pc[t] \notin Owed
    BY <1>14 DEF BeginFails, MayCall, Owed, netVars, serverVars
  <2>2. \E loc \in {"idle"} : pc' = [pc EXCEPT ![t] = loc]
    BY <1>14 DEF BeginFails, MayCall, GoTo
  <2> QED
    BY <2>1, <2>2, <1>q DEF Owed
<1> QED
  BY <1>1, <1>2, <1>3, <1>4, <1>5, <1>6, <1>7, <1>8, <1>9, <1>10, <1>11, <1>12, <1>13,
     <1>14 DEF ClientMoves, ClientCalls

(* The steps of the program leave no stop without an owner.                *)
LEMMA OwnerProgram ==
  ASSUME MaxInFlight <= 1, IInv, RequestInv, OwnerInv,
         \/ \E t \in Threads : ClientMoves(t) \/ ClientCalls(t) \/ RaceOnArp(t)
         \/ \E S \in SUBSET Threads : HitBreakpoint(S)
  PROVE  OwnerInv'
<1> USE DEF IInv, TypeOK, OwnerInv
<1>1. ASSUME NEW t \in Threads, ClientMoves(t) \/ ClientCalls(t) \/ RaceOnArp(t)
      PROVE  OwnerInv'
  <2>1. process' \in {"running", "aborted"}
    <3>1. CASE ClientMoves(t) \/ RaceOnArp(t)
      BY <3>1 DEF ClientMoves, AssertHolds, AssertFails, BeginGetType, StoreArp, EndGetType,
         TakeType, ClearArp, QueryTypeId, EndBacktrace, EndOther, Answered, RaceOnArp
    <3>2. CASE ClientCalls(t)
      BY <3>2 DEF ClientCalls, EnterGetType, BeginStop, BeginQuery, BeginFails, MayCall
    <3> QED
      BY <1>1, <3>1, <3>2
  <2>2. \A u \in Threads \ {t} : pc'[u] = pc[u]
    <3>1. CASE ClientMoves(t) \/ RaceOnArp(t)
      BY <3>1 DEF ClientMoves, AssertHolds, AssertFails, BeginGetType, StoreArp, EndGetType,
         TakeType, ClearArp, QueryTypeId, EndBacktrace, EndOther, RaceOnArp, Send, TakeReply, GoTo
    <3>2. CASE ClientCalls(t)
      BY <3>2 DEF ClientCalls, EnterGetType, BeginStop, BeginQuery, BeginFails, Send, GoTo
    <3> QED
      BY <1>1, <3>1, <3>2
  <2>3. pc[t] # "idle" \/ MayCall(t)
    <3>1. CASE ClientMoves(t) \/ RaceOnArp(t)
      BY <3>1 DEF ClientMoves, AssertHolds, AssertFails, BeginGetType, StoreArp, EndGetType,
         TakeType, ClearArp, QueryTypeId, EndBacktrace, EndOther, Answered, RaceOnArp,
         AtEndOfType
    <3>2. CASE ClientCalls(t)
      BY <3>2 DEF ClientCalls, EnterGetType, BeginStop, BeginQuery, BeginFails
    <3> QED
      BY <1>1, <3>1, <3>2
  <2>4. \A u \in Threads \ {t} : pc[u] = "idle"
    <3>1. CASE MayCall(t)
      BY <3>1, MayCallAlone
    <3>2. CASE pc[t] # "idle"
      BY <3>2 DEF OneWhoCalls
    <3> QED
      BY <2>3, <3>1, <3>2
  <2>5. OneWhoCalls' /\ StoppedBySomebody' /\ NoOrphanStop'
    BY <2>1, <2>2, <2>4 DEF OneWhoCalls, StoppedBySomebody, NoOrphanStop
  <2> QED
    BY <1>1, <2>4, <2>5, OwnMoves
<1>2. ASSUME NEW S \in SUBSET Threads, HitBreakpoint(S) PROVE OwnerInv'
  <2>1. OneWhoCalls' /\ StoppedBySomebody' /\ NoOrphanStop'
    BY <1>2 DEF HitBreakpoint, OneWhoCalls, StoppedBySomebody, NoOrphanStop, StopNotSeen
  <2>2. OwnRequest'
    BY <1>2, OwnKept, RequestParts DEF HitBreakpoint, Pending, netVars, serverVars
  <2> QED
    BY <2>1, <2>2
<1> QED
  BY <1>1, <1>2

(* Where nothing in the program moves and no request comes to the          *)
(* controller only the owner of the stop matters.                          *)
LEMMA OwnerStill ==
  ASSUME OwnerInv, UNCHANGED <<process, pc, callVars, netVars, serving>>, NoOrphanStop'
  PROVE  OwnerInv'
<1>1. OwnRequest'
  BY OwnKept, RequestParts DEF OwnerInv, Pending, netVars
<1> QED
  BY <1>1 DEF OwnerInv, OneWhoCalls, StoppedBySomebody

(* Who continues the program leaves nobody stopped. *)
LEMMA OwnerContinues ==
  ASSUME IInv, OwnerInv, process = "stopped", Continue,
         UNCHANGED <<callVars, netVars, serving>>
  PROVE  OwnerInv'
<1>1. OwnRequest'
  BY OwnKept, RequestParts DEF OwnerInv, Pending, netVars, Continue
<1> QED
  BY <1>1 DEF Continue, OwnerInv, OneWhoCalls, StoppedBySomebody, NoOrphanStop

(* The steps of the controller leave no stop without an owner.             *)
LEMMA OwnerController ==
  ASSUME IInv, RequestInv, OwnerInv, DispatchThread \/ EventThread
  PROVE  OwnerInv'
<1> USE DEF IInv, TypeOK, OneResumer, StopInv, ResumedByHandler, ResumedByEventThread,
            StopNotSeen, CallbackWaits
<1>1. CASE ExitStop
  BY <1>1, OwnerContinues DEF ExitStop
<1>2. CASE ResumeUnexpected
  BY <1>2, OwnerContinues DEF ResumeUnexpected, serverVars
<1>3. CASE Dispatch \/ EnterStop \/ EnterFails \/ Wake \/ InspectStack \/ SendReply
  <2>1. UNCHANGED <<process, pc, callVars, em, emIndex, events>>
    BY <1>3 DEF Dispatch, EnterStop, EnterFails, Wake, InspectStack, SendReply, clientVars, emVars
  <2>2. ResumedByHandler' <=> ResumedByHandler
    BY <1>3 DEF Dispatch, EnterStop, EnterFails, Wake, InspectStack, SendReply
  <2>3. OneWhoCalls' /\ StoppedBySomebody' /\ NoOrphanStop'
    BY <2>1, <2>2 DEF OwnerInv, OneWhoCalls, StoppedBySomebody, NoOrphanStop
  <2>4. CASE Dispatch
    <3>1. /\ requests # <<>> /\ requests' = Tail(requests) /\ serving' = Head(requests)
          /\ reply' = reply
      BY <2>4 DEF Dispatch
    <3>2. \A r \in Requests : Pending(r)' => Pending(r) /\ Of(r) \in Threads
      <4>1. Distinct(requests)
        BY OneEachIs DEF RequestInv, OneEach
      <4> QED
        BY <3>1, <4>1, QueueTail, RequestParts DEF Pending
    <3>3. OwnRequest'
      BY <2>1, <3>1, <3>2, OwnKept DEF OwnerInv
    <3> QED
      BY <2>3, <3>3 DEF OwnerInv
  <2>5. CASE SendReply
    <3>1. /\ requests' = requests /\ serving' = NoRequest /\ serving \in Requests
          /\ reply' = [reply EXCEPT ![serving] = result] /\ reply[serving] = "none"
          /\ dispatch = "reply"
      BY <2>5, OneEachIs DEF SendReply, RequestInv, OneEach
    <3>2. \A r \in Requests : Pending(r)' => Pending(r) /\ Of(r) \in Threads
      BY <3>1, RequestParts, RendezvousAssumption DEF Pending
    <3>3. \A r : reply'[r] = "taken" <=> reply[r] = "taken"
      BY <3>1
    <3>4. OwnRequest'
      BY <2>1, <3>2, <3>3, OwnKept DEF OwnerInv
    <3> QED
      BY <2>3, <3>4 DEF OwnerInv
  <2>6. CASE EnterStop \/ EnterFails \/ Wake \/ InspectStack
    <3>1. UNCHANGED <<netVars, serving>>
      BY <2>6 DEF EnterStop, EnterFails, Wake, InspectStack
    <3> QED
      BY <2>1, <2>3, <3>1, OwnerStill
  <2> QED
    BY <1>3, <2>4, <2>5, <2>6
<1>s. ASSUME UNCHANGED <<clientVars, netVars, serving>>, NoOrphanStop' PROVE OwnerInv'
  BY <1>s, OwnerStill DEF clientVars
<1>4. CASE ReceiveStop
  BY <1>4, <1>s DEF ReceiveStop, OwnerInv, NoOrphanStop, clientVars, serverVars
<1>5. CASE CallbackSignals
  <2>1. CallbackWaits
    BY <1>5, Singleton DEF CallbackSignals, CallbacksMatchWaiters
  <2> QED
    BY <1>5, <2>1, <1>s DEF CallbackSignals, NoOrphanStop, clientVars
<1>6. CASE CallbackIgnores
  <2>1. callbacks = <<serving>> /\ CallbackWaits /\ emIndex = 0
    BY <1>6, Singleton DEF CallbackIgnores, CallbacksMatchWaiters
  <2>2. process = "stopped" /\ serving \in Requests /\ pc[Of(serving)] # "idle"
        /\ Of(serving) \in Threads
    BY <1>6, <2>1, WaitingIsIn DEF CallbackIgnores, OwnerInv
  <2>3. pc[Of(serving)] # "halted"
    BY <1>6, <2>1, <2>2, Singleton DEF CallbackIgnores, StoppedAtBreakpoint
  <2> QED
    BY <2>2, <2>3 DEF OwnerInv, OneWhoCalls, StoppedBySomebody
<1>7. CASE RemoveCallback
  BY <1>7, <1>s DEF RemoveCallback, OwnerInv, NoOrphanStop, clientVars, serverVars
<1>8. CASE EndLoop
  <2>1. SUFFICES ASSUME emIndex = 0 PROVE FALSE
    BY <1>8, <1>s DEF EndLoop, OwnerInv, NoOrphanStop, clientVars, serverVars
  <2>2. CallbackWaits /\ serving \in Requests
    BY <1>8, <2>1 DEF EndLoop
  <2>3. callbacks = <<serving>>
    BY <1>8, <2>2 DEF EndLoop, CallbacksMatchWaiters
  <2> QED
    BY <1>8, <2>1, <2>2, <2>3, Singleton DEF EndLoop
<1> QED
  BY <1>1, <1>2, <1>3, <1>4, <1>5, <1>6, <1>7, <1>8 DEF DispatchThread, EventThread

(* If one thread at a time uses the library, a stopped program always has  *)
(* a stop that is still to be received, or somebody who is about to        *)
(* continue it: it is never left standing.                                 *)
THEOREM StopsOwned == ASSUME MaxInFlight <= 1 PROVE Spec => []NoOrphanStop
<1>1. Init => OwnerInv
  <2>1. ASSUME Init PROVE OwnRequest
    BY <2>1, RendezvousAssumption
    DEF Init, OwnRequest, Pending, In, AtEndOfType
  <2> QED
    BY <2>1 DEF Init, OwnerInv, OneWhoCalls, StoppedBySomebody, NoOrphanStop
<1>2. IInv /\ RequestInv /\ OwnerInv /\ [Next]_vars => OwnerInv'
  <2>1. ASSUME IInv, RequestInv, OwnerInv, UNCHANGED vars PROVE OwnerInv'
    <3>1. NoOrphanStop'
      BY <2>1 DEF vars, clientVars, serverVars, emVars, OwnerInv,
         NoOrphanStop, ResumedByHandler, ResumedByEventThread, StopNotSeen
    <3> QED
      BY <2>1, <3>1, OwnerStill DEF vars, clientVars, serverVars
  <2> QED
    BY <2>1, OwnerProgram, OwnerController DEF Next
<1>3. OwnerInv => NoOrphanStop
  BY DEF OwnerInv
<1> QED
  BY <1>1, <1>2, <1>3, RequestInvariant, PTL DEF Spec

-----------------------------------------------------------------------------
(***************************************************************************)
(* The rendezvous implements StopTheWorld, for any number of threads: each *)
(* step of Rendezvous is one of StopTheWorld or leaves it as it is.        *)
(***************************************************************************)

Taken(r) == reply[r] = "taken"
Inspected == IF dispatch \in {"body", "exit"} THEN serving ELSE NoRequest
Phases == [r \in Requests |-> Phase(r)]
Alive == process # "aborted"

-----------------------------------------------------------------------------
(* The phase of a request.                                                 *)

(* The phases, one at a time.                                              *)
LEMMA PhaseIs ==
  ASSUME NEW r \in Requests, ~(Has(r, "ok") /\ Has(r, "error")),
         Taken(r) => ~Has(r, "ok") /\ ~Has(r, "error")
  PROVE  /\ ~Sent(r) => Phase(r) = "new"
         /\ Sent(r) /\ Taken(r) => Phase(r) = "done"
         /\ Sent(r) /\ Has(r, "ok") => Phase(r) = "answered"
         /\ Sent(r) /\ Has(r, "error") => Phase(r) = "refused"
         /\ Sent(r) /\ ~Taken(r) /\ ~Has(r, "ok") /\ ~Has(r, "error") =>
              Phase(r) = IF op[r] = "query" THEN "query" ELSE "stack"
<1>1. CASE ~Sent(r)
  BY <1>1 DEF Phase
<1>2. CASE Sent(r) /\ Taken(r)
  BY <1>2 DEF Phase, Taken
<1>3. CASE Sent(r) /\ Has(r, "ok")
  BY <1>3 DEF Phase, Taken
<1>4. CASE Sent(r) /\ Has(r, "error")
  BY <1>4 DEF Phase, Taken
<1>5. CASE Sent(r) /\ ~Taken(r) /\ ~Has(r, "ok") /\ ~Has(r, "error")
  BY <1>5 DEF Phase, Taken
<1> QED
  BY <1>1, <1>2, <1>3, <1>4, <1>5

(* The same of the next state.                                             *)
LEMMA PhaseWillBe ==
  ASSUME NEW r \in Requests, ~(Has(r, "ok")' /\ Has(r, "error")'),
         Taken(r)' => ~Has(r, "ok")' /\ ~Has(r, "error")'
  PROVE  /\ ~Sent(r)' => Phase(r)' = "new"
         /\ Sent(r)' /\ Taken(r)' => Phase(r)' = "done"
         /\ Sent(r)' /\ Has(r, "ok")' => Phase(r)' = "answered"
         /\ Sent(r)' /\ Has(r, "error")' => Phase(r)' = "refused"
         /\ Sent(r)' /\ ~Taken(r)' /\ ~Has(r, "ok")' /\ ~Has(r, "error")' =>
              Phase(r)' = IF op'[r] = "query" THEN "query" ELSE "stack"
<1>1. CASE ~Sent(r)'
  BY <1>1 DEF Phase
<1>2. CASE Sent(r)' /\ Taken(r)'
  BY <1>2 DEF Phase, Taken
<1>3. CASE Sent(r)' /\ Has(r, "ok")'
  BY <1>3 DEF Phase, Taken
<1>4. CASE Sent(r)' /\ Has(r, "error")'
  BY <1>4 DEF Phase, Taken
<1>5. CASE Sent(r)' /\ ~Taken(r)' /\ ~Has(r, "ok")' /\ ~Has(r, "error")'
  BY <1>5 DEF Phase, Taken
<1> QED
  BY <1>1, <1>2, <1>3, <1>4, <1>5

(* It depends on whether the request was sent, on what it asks, on what    *)
(* there is for it and on whether that was taken.                          *)
LEMMA PhaseKept ==
  ASSUME NEW r \in Requests, ~(Has(r, "ok") /\ Has(r, "error")),
         Taken(r) => ~Has(r, "ok") /\ ~Has(r, "error"),
         Sent(r)' <=> Sent(r), Sent(r) => op'[r] = op[r],
         Taken(r)' <=> Taken(r), Has(r, "ok")' <=> Has(r, "ok"),
         Has(r, "error")' <=> Has(r, "error")
  PROVE  Phase(r)' = Phase(r)
<1>1. CASE ~Sent(r)
  BY <1>1, PhaseIs, PhaseWillBe
<1>2. CASE Sent(r) /\ Taken(r)
  BY <1>2, PhaseIs, PhaseWillBe
<1>3. CASE Sent(r) /\ Has(r, "ok")
  BY <1>3, PhaseIs, PhaseWillBe
<1>4. CASE Sent(r) /\ Has(r, "error")
  BY <1>4, PhaseIs, PhaseWillBe
<1>5. CASE Sent(r) /\ ~Taken(r) /\ ~Has(r, "ok") /\ ~Has(r, "error")
  BY <1>5, PhaseIs, PhaseWillBe
<1> QED
  BY <1>1, <1>2, <1>3, <1>4, <1>5

(* Where no phase changes, the function of the phases is the same.         *)
LEMMA PhasesKept ==
  ASSUME \A r \in Requests : Phase(r)' = Phase(r)
  PROVE  Phases' = Phases
BY DEF Phases

(* Where one phase changes, the function changes in one place.             *)
LEMMA OnePhase ==
  ASSUME NEW r \in Requests, NEW X, Phase(r)' = X,
         \A s \in Requests \ {r} : Phase(s)' = Phase(s)
  PROVE  Phases' = [Phases EXCEPT ![r] = X]
BY DEF Phases

(* What has nothing yet, and what has one answer only. *)
LEMMA HasWhat ==
  ASSUME IInv, RequestInv, NEW r \in Requests
  PROVE  /\ In(requests, r) => ~Has(r, "ok") /\ ~Has(r, "error") /\ ~Taken(r)
         /\ serving = r /\ dispatch # "reply" =>
              ~Has(r, "ok") /\ ~Has(r, "error") /\ ~Taken(r)
         /\ ~(Has(r, "ok") /\ Has(r, "error"))
         /\ Taken(r) => ~Has(r, "ok") /\ ~Has(r, "error")
         /\ In(requests, r) \/ serving = r \/ reply[r] # "none" => Sent(r)
         /\ ~Sent(r) => ~Has(r, "ok") /\ ~Has(r, "error") /\ ~Taken(r)
BY OneEachIs DEF IInv, TypeOK, RequestInv, OneEach, Known, Has, Taken

(* Requests that stay what they are. *)
LEMMA ElsewhereKept ==
  ASSUME IInv, RequestInv, NEW r \in Requests,
         \A s \in Requests \ {r} : op'[s] = op[s] /\ reply'[s] = reply[s],
         \A s \in Requests \ {r} : Sent(s)' <=> Sent(s),
         UNCHANGED <<dispatch, serving, result>>
           \/ (serving \in {r, NoRequest} /\ serving' \in {r, NoRequest})
  PROVE  \A s \in Requests \ {r} : Phase(s)' = Phase(s)
<1> TAKE s \in Requests \ {r}
<1>1. /\ Has(s, "ok")' <=> Has(s, "ok")
      /\ Has(s, "error")' <=> Has(s, "error")
      /\ Taken(s)' <=> Taken(s)
  BY RendezvousAssumption DEF Has, Taken
<1> QED
  BY <1>1, HasWhat, PhaseKept

-----------------------------------------------------------------------------
(* The steps of StopTheWorld.                                              *)

(* The program moves only while nobody is inspected. *)
LEMMA NobodyInspected ==
  ASSUME IInv, process = "running"
  PROVE  Alive /\ Inspected = NoRequest
BY DEF IInv, OneResumer, ResumedByHandler, Alive, Inspected

(* A running thread that sends a request takes the step Ask.               *)
LEMMA IsAsk ==
  ASSUME IInv, NEW r \in Requests, NEW kind \in {"query", "stack"},
         process = "running", process' = "running", UNCHANGED <<dispatch, serving>>,
         Phase(r) = "new", Phase(r)' = kind,
         \A s \in Requests \ {r} : Phase(s)' = Phase(s)
  PROVE  STW!AbsNext
<1>1. Phases' = [Phases EXCEPT ![r] = kind] /\ Phases[r] = "new"
  BY OnePhase DEF Phases
<1>2. STW!Ask(r, kind)
  BY <1>1, NobodyInspected DEF STW!Ask, STW!ProgramMoves, Phases, Inspected, Alive
<1> QED
  BY <1>2 DEF STW!AbsNext, STW!Asking

(* A running thread that takes an answer takes the step Take.              *)
LEMMA IsTake ==
  ASSUME IInv, NEW r \in Requests,
         process = "running", process' = "running", UNCHANGED <<dispatch, serving>>,
         Phase(r) \in {"answered", "refused"}, Phase(r)' = "done",
         \A s \in Requests \ {r} : Phase(s)' = Phase(s)
  PROVE  STW!AbsNext
<1>1. Phases' = [Phases EXCEPT ![r] = "done"] /\ Phases[r] \in {"answered", "refused"}
  BY OnePhase DEF Phases
<1>2. STW!Take(r)
  BY <1>1, NobodyInspected
  DEF STW!Take, STW!ProgramMoves, STW!Answered, Phases, Inspected, Alive
<1> QED
  BY <1>2 DEF STW!AbsNext

(* A program that ends takes the step Abort.                               *)
LEMMA IsAbort ==
  ASSUME IInv, process = "running", process' = "aborted", UNCHANGED <<dispatch, serving>>,
         \A r \in Requests : Phase(r)' = Phase(r)
  PROVE  STW!AbsNext
<1>1. Phases' = Phases
  BY PhasesKept
<1>2. STW!Abort
  BY <1>1, NobodyInspected DEF STW!Abort, STW!ProgramMoves, Phases, Inspected, Alive
<1> QED
  BY <1>2 DEF STW!AbsNext

(* A handler that begins to read a stack takes the step Inspect.           *)
LEMMA IsInspect ==
  ASSUME NEW r \in Requests, process \in {"running", "stopped"}, process' = process,
         dispatch \notin {"body", "exit"}, dispatch' = "body", serving' = r,
         Phase(r) = "stack", \A s \in Requests : Phase(s)' = Phase(s)
  PROVE  STW!AbsNext
<1>1. Phases' = Phases /\ Phases[r] = "stack"
  BY PhasesKept DEF Phases
<1>2. STW!Inspect(r)
  BY <1>1 DEF STW!Inspect, STW!ProgramMoves, Phases, Inspected, Alive
<1> QED
  BY <1>2 DEF STW!AbsNext

(* A handler done with a stack takes the step Release.                     *)
LEMMA IsRelease ==
  ASSUME NEW r \in Requests, NEW answer \in {"answered", "refused"},
         process \in {"running", "stopped"}, process' \in {"running", "stopped"},
         dispatch \in {"body", "exit"}, serving = r, dispatch' \notin {"body", "exit"},
         Phase(r)' = answer, \A s \in Requests \ {r} : Phase(s)' = Phase(s)
  PROVE  STW!AbsNext
<1>1. Phases' = [Phases EXCEPT ![r] = answer]
  BY OnePhase
<1>2. STW!Release(r, answer)
  BY <1>1 DEF STW!Release, Phases, Inspected, Alive
<1> QED
  BY <1>2 DEF STW!AbsNext, STW!Answered

(* An answer for which no stack was read is AnswerUninspected.             *)
LEMMA IsAnswer ==
  ASSUME NEW r \in Requests, NEW answer \in {"answered", "refused"}, process' = process,
         dispatch \notin {"body", "exit"}, dispatch' \notin {"body", "exit"},
         Phase(r) = "query" \/ (Phase(r) = "stack" /\ answer = "refused"),
         Phase(r)' = answer, \A s \in Requests \ {r} : Phase(s)' = Phase(s)
  PROVE  STW!AbsNext
<1>1. /\ Phases' = [Phases EXCEPT ![r] = answer]
      /\ Phases[r] = "query" \/ (Phases[r] = "stack" /\ answer = "refused")
  BY OnePhase DEF Phases
<1>2. STW!AnswerUninspected(r, answer)
  BY <1>1 DEF STW!AnswerUninspected, Phases, Inspected, Alive
<1> QED
  BY <1>2 DEF STW!AbsNext, STW!Answered

(* Steps that are none of StopTheWorld. *)
LEMMA IsStill ==
  ASSUME Alive' = Alive, Inspected' = Inspected, \A r \in Requests : Phase(r)' = Phase(r)
  PROVE  UNCHANGED STW!absVars
<1>1. Phases' = Phases
  BY PhasesKept
<1> QED
  BY <1>1 DEF STW!absVars, Phases, Inspected, Alive

-----------------------------------------------------------------------------
(* The program.                                                            *)

(* A request is sent: the thread asks. *)
LEMMA SendAbs ==
  ASSUME IInv, RequestInv, NEW t \in Threads, NEW o \in Ops,
         NEW loc \in {"store", "trap", "end"}, sent[t] < 2 * MaxCalls,
         process = "running", process' = "running", UNCHANGED <<reply, serverVars>>,
         Send(t, o, loc)
  PROVE  STW!AbsNext
<1>1. PICK r \in Requests :
        /\ r = Latest(t)' /\ ~Sent(r) /\ op'[r] = o
        /\ \A s \in Requests : Sent(s)' <=> (Sent(s) \/ s = r)
        /\ \A s \in Requests : s # r => op'[s] = op[s]
  BY SendFacts
<1>2. UNCHANGED <<dispatch, serving, result>>
  BY DEF serverVars
<1>3. \A s \in Requests \ {r} : Phase(s)' = Phase(s)
  BY <1>1, <1>2, ElsewhereKept
<1>4. ~Has(r, "ok") /\ ~Has(r, "error") /\ ~Taken(r)
  BY <1>1, HasWhat
<1>5. ~Has(r, "ok")' /\ ~Has(r, "error")' /\ ~Taken(r)' /\ Sent(r)'
  BY <1>1, <1>2, <1>4 DEF Has, Taken
<1>6. Phase(r) = "new" /\ Phase(r)' = IF o = "query" THEN "query" ELSE "stack"
  BY <1>1, <1>4, <1>5, PhaseIs, PhaseWillBe
<1> QED
  BY <1>2, <1>3, <1>6, IsAsk

(* An answer is taken. *)
LEMMA TakeAbs ==
  ASSUME IInv, RequestInv, NEW r \in Requests, reply[r] \in {"ok", "error"},
         reply' = [reply EXCEPT ![r] = "taken"],
         process = "running", process' = "running", UNCHANGED <<op, sent, serverVars>>
  PROVE  STW!AbsNext
<1>1. /\ reply'[r] = "taken" /\ \A s \in Requests \ {r} : reply'[s] = reply[s]
      /\ UNCHANGED <<dispatch, serving, result>>
      /\ \A s : Sent(s)' <=> Sent(s)
  BY DEF IInv, TypeOK, serverVars, Sent
<1>2. \A s \in Requests \ {r} : Phase(s)' = Phase(s)
  BY <1>1, ElsewhereKept
<1>3. Sent(r) /\ serving # r /\ ~Taken(r)
  BY OneEachIs DEF RequestInv, OneEach, Known, Taken
<1>4. Phase(r) \in {"answered", "refused"}
  BY <1>3, PhaseIs, HasWhat DEF Has
<1>5. Sent(r)' /\ Taken(r)' /\ ~Has(r, "ok")' /\ ~Has(r, "error")'
  BY <1>1, <1>3 DEF Has, Taken
<1>6. Phase(r)' = "done"
  BY <1>5, PhaseWillBe
<1> QED
  BY <1>1, <1>2, <1>4, <1>6, IsTake

(* Threads that move while no request does. *)
LEMMA MovesKept ==
  ASSUME IInv, RequestInv, UNCHANGED <<op, sent, reply, dispatch, serving, result>>
  PROVE  \A r \in Requests : Phase(r)' = Phase(r)
<1> TAKE r \in Requests
<1>1. /\ Has(r, "ok")' <=> Has(r, "ok")
      /\ Has(r, "error")' <=> Has(r, "error")
      /\ Taken(r)' <=> Taken(r)
      /\ Sent(r)' <=> Sent(r)
      /\ op'[r] = op[r]
  BY DEF Has, Taken, Sent
<1> QED
  BY <1>1, HasWhat, PhaseKept

(* Every step of the program is one of StopTheWorld, or none.              *)
LEMMA ProgramAbs ==
  ASSUME IInv, RequestInv,
         \/ \E t \in Threads : ClientMoves(t) \/ ClientCalls(t) \/ RaceOnArp(t)
         \/ \E S \in SUBSET Threads : HitBreakpoint(S)
  PROVE  [STW!AbsNext]_(STW!absVars)
<1> USE DEF callVars, netVars, serverVars
<1>1. ASSUME UNCHANGED <<op, sent, reply, serverVars>>, process \in {"running", "stopped"},
             process' \in {"running", "stopped"}
      PROVE  UNCHANGED STW!absVars
  BY <1>1, MovesKept, IsStill DEF Alive, Inspected
<1>2. ASSUME UNCHANGED <<op, sent, reply, serverVars>>, process = "running",
             process' = "aborted"
      PROVE  STW!AbsNext
  BY <1>2, MovesKept, IsAbort
<1>3. ASSUME NEW t \in Threads,
             \/ EnterGetType(t) \/ AssertHolds(t) \/ StoreArp(t) \/ EndGetType(t)
             \/ ClearArp(t) \/ BeginFails(t)
      PROVE  UNCHANGED STW!absVars
  <2>1. UNCHANGED <<op, sent, reply, serverVars>>
    BY <1>3 DEF EnterGetType, AssertHolds, StoreArp, EndGetType, ClearArp, BeginFails
  <2>2. process = "running" /\ process' = "running"
    BY <1>3 DEF EnterGetType, AssertHolds, StoreArp, EndGetType, ClearArp, BeginFails, MayCall
  <2> QED
    BY <2>1, <2>2, <1>1
<1>4. ASSUME NEW t \in Threads, AssertFails(t) \/ RaceOnArp(t) PROVE STW!AbsNext
  BY <1>2, <1>4 DEF AssertFails, RaceOnArp
<1>5. ASSUME NEW t \in Threads, BeginGetType(t) \/ QueryTypeId(t) PROVE STW!AbsNext
  <2>1. sent[t] < 2 * MaxCalls
    BY <1>5, Spare DEF IInv, BeginGetType, QueryTypeId
  <2> QED
    BY <1>5, <2>1, SendAbs DEF BeginGetType, QueryTypeId, Ops, StopOps
<1>6. ASSUME NEW t \in Threads, NEW o \in {"backtrace", "members"}, BeginStop(t, o)
      PROVE  STW!AbsNext
  BY <1>6, Spare, SendAbs DEF IInv, BeginStop, MayCall, Ops, StopOps
<1>7. ASSUME NEW t \in Threads, BeginQuery(t) PROVE STW!AbsNext
  BY <1>7, Spare, SendAbs DEF IInv, BeginQuery, MayCall, Ops
<1>8. ASSUME NEW t \in Threads, TakeType(t) PROVE STW!AbsNext
  <2>1. PICK r \in Requests : r = ending[t]
    BY <1>8 DEF TakeType, RequestInv, RequestPlaces
  <2>2. reply[r] # "taken" /\ reply[r] # "none"
    BY <1>8, <2>1, OneEachIs DEF TakeType, RequestInv, Waiting
  <2>3. reply[r] \in {"ok", "error"}
    BY <2>2 DEF IInv, TypeOK
  <2>4. /\ reply' = [reply EXCEPT ![r] = "taken"] /\ process = "running"
        /\ process' = "running" /\ UNCHANGED <<op, sent, serverVars>>
    BY <1>8, <2>1 DEF TakeType
  <2> QED
    BY <2>3, <2>4, TakeAbs
<1>9. ASSUME NEW t \in Threads, Answered(t), op[Latest(t)] # "type", TakeReply(t),
             process' = "running", UNCHANGED <<op, sent, serverVars>>
      PROVE  STW!AbsNext
  <2>1. PICK r \in Requests : r = Latest(t)
    BY <1>9, LatestIs DEF Answered
  <2>2. reply[r] # "taken" /\ reply[r] # "none"
    BY <1>9, <2>1, OneEachIs DEF Answered, RequestInv, Waiting, OwnsAnswer
  <2>3. reply[r] \in {"ok", "error"}
    BY <2>2 DEF IInv, TypeOK
  <2> QED
    BY <1>9, <2>1, <2>3, TakeAbs DEF TakeReply, Answered
<1>10. ASSUME NEW t \in Threads, EndBacktrace(t) PROVE STW!AbsNext
  <2>1. Answered(t) /\ op[Latest(t)] # "type" /\ process = "running"
        /\ UNCHANGED <<op, sent, serverVars>>
    BY <1>10 DEF EndBacktrace, Answered
  <2>2. CASE TakeReply(t) /\ UNCHANGED process
    BY <2>1, <2>2, <1>9
  <2>3. CASE process' = "aborted" /\ UNCHANGED <<pc, reply>>
    BY <2>1, <2>3, <1>2
  <2> QED
    BY <1>10, <2>2, <2>3 DEF EndBacktrace
<1>11. ASSUME NEW t \in Threads, EndOther(t) PROVE STW!AbsNext
  <2>1. Answered(t) /\ op[Latest(t)] # "type" /\ TakeReply(t) /\ process' = "running"
        /\ UNCHANGED <<op, sent, serverVars>>
    BY <1>11 DEF EndOther, Answered
  <2> QED
    BY <2>1, <1>9
<1>12. ASSUME NEW S \in SUBSET Threads, HitBreakpoint(S) PROVE UNCHANGED STW!absVars
  BY <1>1, <1>12 DEF HitBreakpoint
<1> QED
  BY <1>3, <1>4, <1>5, <1>6, <1>7, <1>8, <1>10, <1>11, <1>12 DEF ClientMoves, ClientCalls

-----------------------------------------------------------------------------
(* The controller.                                                         *)

(* The dispatch thread serves the same request and has no answer for it. *)
LEMMA ServeKept ==
  ASSUME IInv, RequestInv, UNCHANGED <<clientVars, reply, serving>>,
         dispatch # "reply", dispatch' # "reply"
  PROVE  \A r \in Requests : Phase(r)' = Phase(r)
<1> TAKE r \in Requests
<1>1. /\ Has(r, "ok")' <=> Has(r, "ok")
      /\ Has(r, "error")' <=> Has(r, "error")
      /\ Taken(r)' <=> Taken(r)
      /\ Sent(r)' <=> Sent(r)
      /\ op'[r] = op[r]
  BY DEF Has, Taken, Sent, clientVars, callVars
<1> QED
  BY <1>1, HasWhat, PhaseKept

(* Every step of the dispatch thread is one of StopTheWorld, or none.      *)
LEMMA DispatchAbs ==
  ASSUME IInv, RequestInv, DispatchThread
  PROVE  [STW!AbsNext]_(STW!absVars)
<1> USE DEF IInv, TypeOK, clientVars, netVars
<1>0. /\ UNCHANGED callVars
      /\ \A r : Sent(r)' <=> Sent(r)
      /\ op' = op
  BY DEF DispatchThread, Dispatch, EnterStop, EnterFails, Wake, InspectStack, ExitStop,
     SendReply, callVars, Sent
<1>1. CASE Dispatch
  <2>1. Head(requests) \in Requests /\ In(requests, Head(requests)) /\ requests # <<>>
    BY <1>1, QueueTail, OneEachIs DEF Dispatch, RequestInv, OneEach
  <2>2. PICK r \in Requests : r = Head(requests)
    BY <2>1
  <2>3. /\ dispatch = "idle" /\ serving = NoRequest /\ serving' = r
        /\ process' = process /\ reply' = reply
        /\ \/ op[r] = "query" /\ result' \in {"ok", "error"} /\ dispatch' = "reply"
           \/ op[r] \in StopOps /\ dispatch' = "enter"
    BY <1>1, <2>2 DEF Dispatch, StopInv
  <2>4. Sent(r) /\ ~Has(r, "ok") /\ ~Has(r, "error") /\ ~Taken(r)
    BY <2>1, <2>2, HasWhat
  <2>5. \A s \in Requests \ {r} : Phase(s)' = Phase(s)
    BY <1>0, <2>3, ElsewhereKept
  <2>6. Phase(r) = IF op[r] = "query" THEN "query" ELSE "stack"
    BY <2>4, PhaseIs
  <2>7. CASE op[r] = "query" /\ result' \in {"ok", "error"} /\ dispatch' = "reply"
    <3>1. /\ Has(r, "ok")' <=> result' = "ok"
          /\ Has(r, "error")' <=> result' = "error"
          /\ ~Taken(r)' /\ Sent(r)'
      BY <1>0, <2>3, <2>4, <2>7 DEF Has, Taken
    <3>2. Phase(r)' = IF result' = "ok" THEN "answered" ELSE "refused"
      BY <2>7, <3>1, PhaseWillBe
    <3> QED
      BY <2>3, <2>5, <2>6, <2>7, <3>2, IsAnswer
  <2>8. CASE op[r] \in StopOps /\ dispatch' = "enter"
    <3>1. ~Has(r, "ok")' /\ ~Has(r, "error")' /\ ~Taken(r)'
      BY <2>3, <2>4, <2>8 DEF Has, Taken
    <3>2. Phase(r)' = Phase(r)
      BY <1>0, <2>4, <3>1, PhaseKept
    <3> QED
      BY <2>3, <2>5, <2>8, <3>2, IsStill DEF Alive, Inspected
  <2> QED
    BY <2>3, <2>7, <2>8
<1>2. CASE EnterStop
  BY <1>2, ServeKept, IsStill DEF EnterStop, Alive, Inspected
<1>3. ASSUME dispatch \in {"enter", "waiting", "body", "exit"}
      PROVE  \E r \in Requests :
               /\ serving = r /\ Sent(r) /\ ~Has(r, "ok") /\ ~Has(r, "error")
               /\ ~Taken(r) /\ Phase(r) = "stack"
  <2>1. PICK r \in Requests : serving = r
    BY <1>3 DEF StopInv
  <2>2. /\ Sent(r) /\ op[r] \in StopOps /\ ~Has(r, "ok") /\ ~Has(r, "error") /\ ~Taken(r)
    BY <1>3, <2>1, HasWhat DEF RequestInv, RequestPlaces
  <2> QED
    BY <2>1, <2>2, PhaseIs DEF StopOps
<1>4. CASE EnterFails
  <2>1. PICK r \in Requests :
          /\ serving = r /\ Sent(r) /\ ~Has(r, "ok") /\ ~Has(r, "error")
          /\ ~Taken(r) /\ Phase(r) = "stack"
    BY <1>3, <1>4 DEF EnterFails
  <2>2. /\ dispatch = "enter" /\ dispatch' = "reply" /\ result' = "error"
        /\ serving' = serving /\ process' = process /\ reply' = reply
    BY <1>4 DEF EnterFails
  <2>3. \A s \in Requests \ {r} : Phase(s)' = Phase(s)
    BY <1>0, <2>1, <2>2, ElsewhereKept
  <2>4. Has(r, "error")' /\ ~Has(r, "ok")' /\ ~Taken(r)' /\ Sent(r)'
    BY <1>0, <2>1, <2>2 DEF Has, Taken
  <2>5. Phase(r)' = "refused"
    BY <2>4, PhaseWillBe
  <2> QED
    BY <2>1, <2>2, <2>3, <2>5, IsAnswer
<1>5. CASE Wake
  <2>1. PICK r \in Requests : serving = r /\ Phase(r) = "stack"
    BY <1>3, <1>5 DEF Wake
  <2> QED
    BY <1>5, <2>1, ServeKept, IsInspect DEF Wake, OneResumer, ResumedByHandler
<1>6. CASE InspectStack
  BY <1>6, ServeKept, IsStill DEF InspectStack, Alive, Inspected
<1>7. CASE ExitStop
  <2>1. PICK r \in Requests :
          serving = r /\ Sent(r) /\ ~Has(r, "ok") /\ ~Has(r, "error") /\ ~Taken(r)
    BY <1>3, <1>7 DEF ExitStop
  <2>2. /\ dispatch = "exit" /\ dispatch' = "reply" /\ result' = result
        /\ result \in {"ok", "error"}
        /\ serving' = serving /\ reply' = reply
        /\ process = "stopped" /\ process' = "running"
    BY <1>7 DEF ExitStop, Continue, OneResumer, ResumedByHandler, RequestInv, RequestPlaces
  <2>3. \A s \in Requests \ {r} : Phase(s)' = Phase(s)
    BY <1>0, <2>1, <2>2, ElsewhereKept
  <2>4. /\ Has(r, "ok")' <=> result = "ok"
        /\ Has(r, "error")' <=> result = "error"
        /\ ~Taken(r)' /\ Sent(r)'
    BY <1>0, <2>1, <2>2 DEF Has, Taken
  <2>5. Phase(r)' = IF result = "ok" THEN "answered" ELSE "refused"
    BY <2>2, <2>4, PhaseWillBe
  <2> QED
    BY <2>1, <2>2, <2>3, <2>5, IsRelease
<1>8. CASE SendReply
  <2>1. PICK r \in Requests : serving = r
    BY <1>8 DEF SendReply, StopInv
  <2>2. /\ dispatch = "reply" /\ dispatch' = "idle" /\ serving' = NoRequest
        /\ reply' = [reply EXCEPT ![r] = result] /\ process' = process
        /\ reply[r] = "none" /\ result \in {"ok", "error"}
    BY <1>8, <2>1, OneEachIs DEF SendReply, RequestInv, RequestPlaces, OneEach
  <2>3. ASSUME NEW s \in Requests PROVE Phase(s)' = Phase(s)
    <3>1. /\ Has(s, "ok")' <=> Has(s, "ok")
          /\ Has(s, "error")' <=> Has(s, "error")
          /\ Taken(s)' <=> Taken(s)
      BY <2>1, <2>2, RendezvousAssumption DEF Has, Taken
    <3> QED
      BY <1>0, <3>1, HasWhat, PhaseKept
  <2> QED
    BY <2>2, <2>3, IsStill DEF Alive, Inspected
<1> QED
  BY <1>1, <1>2, <1>4, <1>5, <1>6, <1>7, <1>8 DEF DispatchThread

(* The event thread sends nothing; it may continue the program. *)
LEMMA EventAbs ==
  ASSUME IInv, RequestInv, EventThread
  PROVE  UNCHANGED STW!absVars
<1>1. /\ UNCHANGED <<op, sent, reply, dispatch, serving, result>>
      /\ UNCHANGED process \/ Continue
  BY DEF EventThread, ReceiveStop, ResumeUnexpected, CallbackSignals, CallbackIgnores,
     RemoveCallback, EndLoop, clientVars, callVars, netVars, serverVars
<1>2. Alive' = Alive
  BY <1>1 DEF Continue, Alive
<1> QED
  BY <1>1, <1>2, MovesKept, IsStill DEF Inspected

-----------------------------------------------------------------------------
(* Every behaviour of the rendezvous is one of StopTheWorld: a stack is    *)
(* read for the request of the thread it belongs to, while no thread of    *)
(* the program moves; what was read then, or a refusal, is the answer to   *)
(* that request and to no other; and no answer is taken twice.             *)
THEOREM RendezvousStopsTheWorld == Spec => StopsTheWorld
<1>1. Init => STW!AbsInit
  <2> SUFFICES ASSUME Init PROVE STW!AbsInit
    OBVIOUS
  <2>1. \A r \in Requests : ~Sent(r) /\ ~Has(r, "ok") /\ ~Has(r, "error") /\ ~Taken(r)
    BY RequestParts DEF Init, Sent, Has, Taken
  <2>2. \A r \in Requests : Phase(r) = "new"
    BY <2>1, PhaseIs
  <2> QED
    BY <2>2 DEF Init, STW!AbsInit
<1>2. IInv /\ RequestInv /\ [Next]_vars => [STW!AbsNext]_(STW!absVars)
  <2> SUFFICES ASSUME IInv, RequestInv, [Next]_vars PROVE [STW!AbsNext]_(STW!absVars)
    OBVIOUS
  <2>1. CASE UNCHANGED vars
    <3>1. UNCHANGED <<op, sent, process, reply, dispatch, serving, result>>
      BY <2>1 DEF vars, clientVars, callVars, netVars, serverVars
    <3> QED
      BY <3>1, MovesKept, IsStill DEF Alive, Inspected
  <2> QED
    BY <2>1, ProgramAbs, DispatchAbs, EventAbs DEF Next
<1> QED
  BY <1>1, <1>2, RequestInvariant, PTL DEF Spec, StopsTheWorld, STW!AbsSpec

===============================================================================
