------------------------ MODULE PushyOwnershipProofs ------------------------
(***************************************************************************)
(* Types, and who owns a message.                                          *)
(*                                                                         *)
(* OwnershipInv is an inductive invariant of PushyService, for every value *)
(* of the constants.  Most steps are calm: they neither take nor give away *)
(* a message or an identifier.  What is left are the writes of records and *)
(* sets, the way of an identifier from the counter to the cache and to the *)
(* post, the answers of the library, and the end of a process.             *)
(***************************************************************************)
EXTENDS PushyService, TLAPS

(***************************************************************************)
(* Facts about the control flow, used by every step.                       *)
(***************************************************************************)

\* The main thread of a node is one of its threads.
LEMMA MainIsThread == \A n \in Nodes : Main(n) \in Threads /\ Main(n)[1] = n /\ IsMain(Main(n))
BY DEF Main, Threads, IsMain

\* The node of a thread is a node.
LEMMA ThreadNode == \A t \in Threads : t[1] \in Nodes
BY DEF Threads

\* What a step does to its own thread is all it does to threads.
Alone(t) ==
    \A u \in Threads \ {t} :
        /\ pc'[u] = pc[u] /\ cur'[u] = cur[u] /\ prov'[u] = prov[u]
        /\ todo'[u] = todo[u] /\ unread'[u] = unread[u] /\ slot'[u] = slot[u]

\* The variables of a thread between two handlers.
AtRest(t) ==
    /\ pc'[t] \in {"idle", "unwind"}
    /\ cur'[t] = NoMsg /\ prov'[t] = NoType
    /\ todo'[t] = {} /\ unread'[t] = {}

\* Jumping inside a handler.
LEMMA GotoEffect ==
    ASSUME ThreadsTypeOK, NEW t \in Threads, NEW l \in Pcs, Goto(t, l)
    PROVE  /\ ThreadsTypeOK' /\ Alone(t)
           /\ pc'[t] = l /\ cur' = cur /\ prov' = prov /\ todo' = todo /\ unread' = unread /\ slot' = slot
BY DEF ThreadsTypeOK, Goto, locals, Alone

\* Leaving it.
LEMMA LeaveEffect ==
    ASSUME ThreadsTypeOK, NEW t \in Threads, NEW l \in {"idle", "unwind"}, Leave(t, l)
    PROVE  ThreadsTypeOK' /\ Alone(t) /\ AtRest(t)
<1>1. ThreadsTypeOK'
  BY PushyAssumption DEF ThreadsTypeOK, Leave, Pcs
<1>2. Alone(t) /\ AtRest(t)
  BY DEF ThreadsTypeOK, Leave, Alone, AtRest
<1> QED BY <1>1, <1>2

\* Leaving it normally or by an exception.
LEMMA EndEffect ==
    ASSUME ThreadsTypeOK, NEW t \in Threads, Finish(t) \/ Throw(t)
    PROVE  ThreadsTypeOK' /\ Alone(t) /\ AtRest(t)
BY LeaveEffect DEF Finish, Throw

\* The return of push() and redeliver().
LEMMA ProceedEffect ==
    ASSUME ThreadsTypeOK, NEW t \in Threads, Proceed(t)
    PROVE  /\ ThreadsTypeOK' /\ Alone(t)
           /\ \/ AtRest(t)
              \/ /\ pc'[t] = "next" /\ cur'[t] = NoMsg
                 /\ todo'[t] = todo[t] /\ unread'[t] = unread[t] /\ prov'[t] = prov[t]
<1>1. CASE IsMain(t) \/ todo[t] # {}
  <2>1. ThreadsTypeOK'
    BY <1>1, PushyAssumption DEF Proceed, ThreadsTypeOK, Pcs, ListPcs
  <2> QED BY <1>1, <2>1 DEF Proceed, ThreadsTypeOK, Alone
<1>2. CASE ~(IsMain(t) \/ todo[t] # {})
  BY <1>2, EndEffect DEF Proceed
<1> QED BY <1>1, <1>2

\* The end of a process: its threads rest, the others do not notice.
LEMMA HaltEffect ==
    ASSUME ThreadsTypeOK, NEW n \in Nodes, Halt(n)
    PROVE  /\ ThreadsTypeOK'
           /\ \A t \in Threads : t[1] = n => AtRest(t)
           /\ \A t \in Threads : t[1] # n =>
                /\ pc'[t] = pc[t] /\ cur'[t] = cur[t] /\ prov'[t] = prov[t]
                /\ todo'[t] = todo[t] /\ slot'[t] = slot[t]
<1>1. ThreadsTypeOK'
  BY PushyAssumption DEF ThreadsTypeOK, Halt, Pcs
<1> QED BY <1>1 DEF Halt, AtRest

\* It keeps the types of the node variables.
LEMMA HaltNodes ==
    ASSUME NodesTypeOK, NEW n \in Nodes, Halt(n)
    PROVE  NodesTypeOK'
BY PushyAssumption DEF NodesTypeOK, Halt, EmptyCaches, NoCounts, Idents

(***************************************************************************)
(* Type correctness.                                                       *)
(***************************************************************************)

\* The initial state is well typed.
LEMMA TypeInit == Init => TypeOK
<1> SUFFICES ASSUME Init PROVE TypeOK
  OBVIOUS
<1> USE PushyAssumption DEF Init
<1>1. StoreTypeOK
  BY DEF StoreInit, StoreTypeOK
<1>2. NodesTypeOK
  BY DEF NodesTypeOK, NoCounts, EmptyCaches, Idents
<1>3. ThreadsTypeOK
  BY DEF ThreadsTypeOK, Pcs
<1>4. \A t \in Threads : WorkOK(t)
  BY DEF WorkOK, UsesSlot, TakePcs, CallbackPcs
<1>5. HistoryTypeOK
  BY DEF HistoryTypeOK
<1> QED BY <1>1, <1>2, <1>3, <1>4, <1>5 DEF TypeOK

\* Every step keeps the types of Redis' keys.
LEMMA StoreNext == TypeOK /\ [Next]_vars => StoreTypeOK'
<1> SUFFICES ASSUME TypeOK, [Next]_vars PROVE StoreTypeOK'
  OBVIOUS
<1> USE PushyAssumption DEF TypeOK, StoreTypeOK, WorkOK, TakePcs, CallbackPcs
<1>1. ASSUME NEW t \in Threads, NEW p \in Providers, StartPush(t, p) PROVE StoreTypeOK'
  BY <1>1 DEF StartPush, storeVars
<1>2. ASSUME NEW t \in Threads, NEW S \in SUBSET Msgs, StartRedeliver(t, S) PROVE StoreTypeOK'
  BY <1>2 DEF StartRedeliver, storeVars
<1>3. ASSUME NEW t \in Threads, PushWrite(t) PROVE StoreTypeOK'
  BY <1>3 DEF PushWrite, WriteRecord
<1>4. ASSUME NEW t \in Threads, TakeIdent(t) PROVE StoreTypeOK'
  BY <1>4 DEF TakeIdent, storeVars
<1>5. ASSUME NEW t \in Threads, CacheInsert(t) PROVE StoreTypeOK'
  BY <1>5 DEF CacheInsert, storeVars
<1>6. ASSUME NEW t \in Threads, MapCrash(t) PROVE StoreTypeOK'
  BY <1>6 DEF MapCrash, storeVars
<1>7. ASSUME NEW t \in Threads, Post(t) PROVE StoreTypeOK'
  BY <1>7 DEF Post, storeVars
<1>8. ASSUME NEW t \in Threads, PostUnconfigured(t) PROVE StoreTypeOK'
  BY <1>8 DEF PostUnconfigured, storeVars
<1>9. ASSUME NEW t \in Threads, NextRequested(t) PROVE StoreTypeOK'
  BY <1>9 DEF NextRequested, storeVars
<1>10. ASSUME NEW t \in Threads, ListFailed(t) PROVE StoreTypeOK'
  BY <1>10 DEF ListFailed, storeVars
<1>11. ASSUME NEW t \in Threads, ReadListed(t) PROVE StoreTypeOK'
  BY <1>11 DEF ReadListed, storeVars
<1>12. ASSUME NEW t \in Threads, NextListed(t) PROVE StoreTypeOK'
  BY <1>12 DEF NextListed, storeVars
<1>13. ASSUME NEW t \in Threads, CheckFailed(t) PROVE StoreTypeOK'
  BY <1>13 DEF CheckFailed, storeVars
<1>14. ASSUME NEW t \in Threads, TakeFailed(t) PROVE StoreTypeOK'
  BY <1>14 DEF TakeFailed, RemoveFailed
<1>15. ASSUME NEW t \in Threads, LogSettled(t) PROVE StoreTypeOK'
  BY <1>15 DEF LogSettled, storeVars
<1>16. ASSUME NEW t \in Threads, Drop(t) PROVE StoreTypeOK'
  BY <1>16 DEF Drop, DropRecord
<1>17. ASSUME NEW t \in Threads, MarkRead(t) PROVE StoreTypeOK'
  BY <1>17 DEF MarkRead, storeVars
<1>18. ASSUME NEW t \in Threads, MarkFailed(t) PROVE StoreTypeOK'
  BY <1>18 DEF MarkFailed, AddFailed
<1>19. ASSUME NEW t \in Threads, CountFailure(t) PROVE StoreTypeOK'
  BY <1>19 DEF CountFailure, CountAttempt
<1>20. ASSUME NEW t \in Threads, GiveUpCheck(t) PROVE StoreTypeOK'
  BY <1>20 DEF GiveUpCheck, storeVars
<1>21. ASSUME NEW t \in Threads, GiveUp(t) PROVE StoreTypeOK'
  BY <1>21 DEF GiveUp, RemoveFailed
<1>22. ASSUME NEW t \in Threads, LogFailure(t) PROVE StoreTypeOK'
  BY <1>22 DEF LogFailure, storeVars
<1>23. ASSUME NEW t \in Threads, RedisFails(t) PROVE StoreTypeOK'
  BY <1>23 DEF RedisFails, storeVars
<1>24. ASSUME NEW f \in inflight, Delivered(f) PROVE StoreTypeOK'
  BY <1>24 DEF Delivered, Answered, storeVars
<1>25. ASSUME NEW f \in inflight, Refused(f) PROVE StoreTypeOK'
  BY <1>25 DEF Refused, Answered, storeVars
<1>26. ASSUME NEW f \in inflight, UnknownIdent(f) PROVE StoreTypeOK'
  BY <1>26 DEF UnknownIdent, storeVars
<1>27. ASSUME NEW n \in Nodes, TimerFires(n) PROVE StoreTypeOK'
  BY <1>27 DEF TimerFires, storeVars
<1>28. ASSUME NEW n \in Nodes, NodeExit(n) PROVE StoreTypeOK'
  BY <1>28 DEF NodeExit, storeVars
<1>29. ASSUME NEW n \in Nodes, Crash(n) PROVE StoreTypeOK'
  BY <1>29 DEF Crash, storeVars
<1>30. ASSUME NEW n \in Nodes, Restart(n) PROVE StoreTypeOK'
  BY <1>30 DEF Restart, storeVars
<1>31. CASE UNCHANGED vars
  BY <1>31 DEF vars, storeVars
<1> QED
  BY <1>1, <1>2, <1>3, <1>4, <1>5, <1>6, <1>7, <1>8, <1>9, <1>10, <1>11, <1>12, <1>13, <1>14, <1>15, <1>16, <1>17, <1>18, <1>19, <1>20, <1>21, <1>22, <1>23, <1>24, <1>25, <1>26, <1>27, <1>28, <1>29, <1>30, <1>31
  DEF Next, ThreadStep, Answer

\* Every step keeps the types of the node variables and of the counts.
LEMMA NodesNext == TypeOK /\ [Next]_vars => NodesTypeOK' /\ HistoryTypeOK'
<1> SUFFICES ASSUME TypeOK, [Next]_vars PROVE NodesTypeOK' /\ HistoryTypeOK'
  OBVIOUS
<1> USE PushyAssumption DEF TypeOK, NodesTypeOK, WorkOK, ThreadsTypeOK, HistoryTypeOK, history, TakePcs, CallbackPcs
<1>1. ASSUME NEW t \in Threads, NEW p \in Providers, StartPush(t, p) PROVE NodesTypeOK' /\ HistoryTypeOK'
  BY <1>1 DEF StartPush, nodeVars
<1>2. ASSUME NEW t \in Threads, NEW S \in SUBSET Msgs, StartRedeliver(t, S) PROVE NodesTypeOK' /\ HistoryTypeOK'
  BY <1>2 DEF StartRedeliver, nodeVars
<1>3. ASSUME NEW t \in Threads, PushWrite(t) PROVE NodesTypeOK' /\ HistoryTypeOK'
  BY <1>3 DEF PushWrite, nodeVars
<1>4. ASSUME NEW t \in Threads, TakeIdent(t) PROVE NodesTypeOK' /\ HistoryTypeOK'
  <2>1. t[1] \in Nodes /\ prov[t] \in Providers
    BY <1>4, ThreadNode DEF TakeIdent
  <2>2. ident[t[1]][prov[t]] + 1 \in 0 .. MaxIdent
    BY <1>4, <2>1 DEF TakeIdent
  <2> QED BY <1>4, <2>1, <2>2 DEF TakeIdent
<1>5. ASSUME NEW t \in Threads, CacheInsert(t) PROVE NodesTypeOK' /\ HistoryTypeOK'
  <2>1. t[1] \in Nodes /\ prov[t] \in Providers /\ slot[t] \in Idents /\ cur[t] \in Msgs
    BY <1>5, ThreadNode DEF CacheInsert, UsesSlot
  <2>2. cache' \in [Nodes -> [Providers -> [Idents -> Msgs \cup {NoMsg}]]]
    <3>1. CASE UNCHANGED cache
      BY <3>1
    <3>2. CASE cache' = [cache EXCEPT ![t[1]][prov[t]][slot[t]] = cur[t]]
      BY <2>1, <3>2
    <3> QED BY <1>5, <3>1, <3>2 DEF CacheInsert
  <2> QED BY <1>5, <2>2 DEF CacheInsert
<1>6. ASSUME NEW t \in Threads, MapCrash(t) PROVE NodesTypeOK' /\ HistoryTypeOK'
  BY <1>6, ThreadNode, HaltNodes DEF MapCrash
<1>7. ASSUME NEW t \in Threads, Post(t) PROVE NodesTypeOK' /\ HistoryTypeOK'
  BY <1>7, ThreadNode DEF Post, UsesSlot, Posts
<1>8. ASSUME NEW t \in Threads, PostUnconfigured(t) PROVE NodesTypeOK' /\ HistoryTypeOK'
  BY <1>8, ThreadNode, HaltNodes DEF PostUnconfigured
<1>9. ASSUME NEW t \in Threads, NextRequested(t) PROVE NodesTypeOK' /\ HistoryTypeOK'
  BY <1>9 DEF NextRequested, nodeVars
<1>10. ASSUME NEW t \in Threads, ListFailed(t) PROVE NodesTypeOK' /\ HistoryTypeOK'
  BY <1>10 DEF ListFailed, nodeVars
<1>11. ASSUME NEW t \in Threads, ReadListed(t) PROVE NodesTypeOK' /\ HistoryTypeOK'
  BY <1>11 DEF ReadListed, nodeVars
<1>12. ASSUME NEW t \in Threads, NextListed(t) PROVE NodesTypeOK' /\ HistoryTypeOK'
  BY <1>12 DEF NextListed, nodeVars
<1>13. ASSUME NEW t \in Threads, CheckFailed(t) PROVE NodesTypeOK' /\ HistoryTypeOK'
  BY <1>13 DEF CheckFailed, nodeVars
<1>14. ASSUME NEW t \in Threads, TakeFailed(t) PROVE NodesTypeOK' /\ HistoryTypeOK'
  BY <1>14 DEF TakeFailed, nodeVars
<1>15. ASSUME NEW t \in Threads, LogSettled(t) PROVE NodesTypeOK' /\ HistoryTypeOK'
  BY <1>15 DEF LogSettled, nodeVars
<1>16. ASSUME NEW t \in Threads, Drop(t) PROVE NodesTypeOK' /\ HistoryTypeOK'
  BY <1>16 DEF Drop, nodeVars
<1>17. ASSUME NEW t \in Threads, MarkRead(t) PROVE NodesTypeOK' /\ HistoryTypeOK'
  BY <1>17 DEF MarkRead, nodeVars
<1>18. ASSUME NEW t \in Threads, MarkFailed(t) PROVE NodesTypeOK' /\ HistoryTypeOK'
  BY <1>18 DEF MarkFailed, nodeVars
<1>19. ASSUME NEW t \in Threads, CountFailure(t) PROVE NodesTypeOK' /\ HistoryTypeOK'
  BY <1>19 DEF CountFailure, nodeVars
<1>20. ASSUME NEW t \in Threads, GiveUpCheck(t) PROVE NodesTypeOK' /\ HistoryTypeOK'
  BY <1>20 DEF GiveUpCheck, nodeVars
<1>21. ASSUME NEW t \in Threads, GiveUp(t) PROVE NodesTypeOK' /\ HistoryTypeOK'
  BY <1>21 DEF GiveUp, nodeVars
<1>22. ASSUME NEW t \in Threads, LogFailure(t) PROVE NodesTypeOK' /\ HistoryTypeOK'
  BY <1>22 DEF LogFailure, nodeVars
<1>23. ASSUME NEW t \in Threads, RedisFails(t) PROVE NodesTypeOK' /\ HistoryTypeOK'
  BY <1>23 DEF RedisFails, nodeVars
<1>24. ASSUME NEW f \in inflight, Delivered(f) PROVE NodesTypeOK' /\ HistoryTypeOK'
  BY <1>24 DEF Delivered, Answered
<1>25. ASSUME NEW f \in inflight, Refused(f) PROVE NodesTypeOK' /\ HistoryTypeOK'
  BY <1>25 DEF Refused, Answered
<1>26. ASSUME NEW f \in inflight, UnknownIdent(f) PROVE NodesTypeOK' /\ HistoryTypeOK'
  BY <1>26 DEF UnknownIdent
<1>27. ASSUME NEW n \in Nodes, TimerFires(n) PROVE NodesTypeOK' /\ HistoryTypeOK'
  BY <1>27 DEF TimerFires, nodeVars
<1>28. ASSUME NEW n \in Nodes, NodeExit(n) PROVE NodesTypeOK' /\ HistoryTypeOK'
  BY <1>28, ThreadNode, HaltNodes DEF NodeExit
<1>29. ASSUME NEW n \in Nodes, Crash(n) PROVE NodesTypeOK' /\ HistoryTypeOK'
  BY <1>29, ThreadNode, HaltNodes DEF Crash
<1>30. ASSUME NEW n \in Nodes, Restart(n) PROVE NodesTypeOK' /\ HistoryTypeOK'
  BY <1>30 DEF Restart
<1>31. CASE UNCHANGED vars
  BY <1>31 DEF vars, nodeVars
<1> QED
  BY <1>1, <1>2, <1>3, <1>4, <1>5, <1>6, <1>7, <1>8, <1>9, <1>10, <1>11, <1>12, <1>13, <1>14, <1>15, <1>16, <1>17, <1>18, <1>19, <1>20, <1>21, <1>22, <1>23, <1>24, <1>25, <1>26, <1>27, <1>28, <1>29, <1>30, <1>31
  DEF Next, ThreadStep, Answer

\* The types of the thread variables.
ThreadsOK == ThreadsTypeOK /\ \A t \in Threads : WorkOK(t)

\* A step that does to other threads nothing keeps them, when its own is fine.
LEMMA AloneOK ==
    ASSUME ThreadsOK, NEW t \in Threads, ThreadsTypeOK', Alone(t), WorkOK(t)'
    PROVE  ThreadsOK'
BY DEF ThreadsOK, Alone, WorkOK, UsesSlot

\* A jump to a place that needs a provider and a message.
LEMMA GotoOK ==
    ASSUME ThreadsOK, NEW t \in Threads, NEW l \in Pcs \ {"idle", "unwind", "next", "write"}, Goto(t, l),
           prov[t] \in Providers, cur[t] \in Msgs, l \in {"insert", "post"} => slot[t] \in Idents
    PROVE  ThreadsOK'
BY GotoEffect, AloneOK DEF ThreadsOK, WorkOK, UsesSlot

\* The end of a handler.
LEMMA EndOK ==
    ASSUME ThreadsOK, NEW t \in Threads, Finish(t) \/ Throw(t)
    PROVE  ThreadsOK'
<1>1. ThreadsTypeOK' /\ Alone(t) /\ AtRest(t)
  BY EndEffect DEF ThreadsOK
<1>2. WorkOK(t)'
  BY <1>1 DEF WorkOK, AtRest, UsesSlot, TakePcs, CallbackPcs
<1> QED BY <1>1, <1>2, AloneOK

\* The return of push() and redeliver().
LEMMA ProceedOK ==
    ASSUME ThreadsOK, NEW t \in Threads, prov[t] \in Providers, Proceed(t)
    PROVE  ThreadsOK'
<1>1. ThreadsTypeOK' /\ Alone(t)
  BY ProceedEffect DEF ThreadsOK
<1>2. WorkOK(t)'
  BY ProceedEffect DEF ThreadsOK, WorkOK, AtRest, UsesSlot, TakePcs, CallbackPcs
<1> QED BY <1>1, <1>2, AloneOK

\* The end of a process.
LEMMA HaltOK ==
    ASSUME ThreadsOK, NEW n \in Nodes, Halt(n)
    PROVE  ThreadsOK'
<1>1. ThreadsTypeOK'
  BY HaltEffect DEF ThreadsOK
<1>2. ASSUME NEW t \in Threads, t[1] = n PROVE WorkOK(t)'
  BY <1>2, HaltEffect DEF ThreadsOK, AtRest, WorkOK, UsesSlot, TakePcs, CallbackPcs
<1>3. ASSUME NEW t \in Threads, t[1] # n PROVE WorkOK(t)'
  BY <1>3, HaltEffect DEF ThreadsOK, WorkOK, UsesSlot
<1> QED BY <1>1, <1>2, <1>3 DEF ThreadsOK

\* Every step keeps the types of the thread variables.
LEMMA ThreadsNext == TypeOK /\ [Next]_vars => ThreadsOK'
<1> SUFFICES ASSUME TypeOK, [Next]_vars PROVE ThreadsOK'
  OBVIOUS
<1> USE DEF Pcs, PushPcs, ListPcs, TakePcs, CallbackPcs
<1>0. ThreadsOK /\ ThreadsTypeOK /\ StoreTypeOK /\ NodesTypeOK
  BY DEF TypeOK, ThreadsOK
<1>1. ASSUME NEW t \in Threads, NEW p \in Providers, StartPush(t, p) PROVE ThreadsOK'
  BY <1>0, <1>1, AloneOK DEF StartPush, ThreadsTypeOK, Alone, WorkOK, UsesSlot, IsMain
<1>2. ASSUME NEW t \in Threads, NEW S \in SUBSET Msgs, StartRedeliver(t, S) PROVE ThreadsOK'
  BY <1>0, <1>2, AloneOK DEF StartRedeliver, ThreadsTypeOK, Alone, WorkOK, UsesSlot
<1>3. ASSUME NEW t \in Threads, PushWrite(t) PROVE ThreadsOK'
  <2>1. prov[t] \in Providers /\ UsesSlot(t) = (prov[t] = "gcm")
    BY <1>0, <1>3 DEF PushWrite, ThreadsOK, WorkOK, UsesSlot
  <2>2. ThreadsTypeOK' /\ Alone(t)
    BY <1>0, <1>3 DEF PushWrite, ThreadsTypeOK, Alone
  <2>3. WorkOK(t)'
    BY <1>0, <1>3, <2>1 DEF PushWrite, ThreadsOK, ThreadsTypeOK, WorkOK, UsesSlot, Providers
  <2> QED BY <1>0, <2>2, <2>3, AloneOK
<1>4. ASSUME NEW t \in Threads, TakeIdent(t) PROVE ThreadsOK'
  <2>1. prov[t] \in Providers /\ t[1] \in Nodes
    BY <1>0, <1>4, ThreadNode DEF TakeIdent, ThreadsOK, WorkOK
  <2>2. ident[t[1]][prov[t]] \in Idents
    BY <1>0, <1>4, <2>1, PushyAssumption DEF TakeIdent, NodesTypeOK, Idents
  <2>3. ThreadsTypeOK' /\ Alone(t)
    BY <1>0, <1>4, <2>2, PushyAssumption DEF TakeIdent, ThreadsTypeOK, Alone, Idents
  <2>4. WorkOK(t)'
    BY <1>0, <1>4, <2>1, <2>2 DEF TakeIdent, ThreadsTypeOK, WorkOK, UsesSlot
  <2> QED BY <1>0, <2>3, <2>4, AloneOK
<1>5. ASSUME NEW t \in Threads, CacheInsert(t) PROVE ThreadsOK'
  BY <1>0, <1>5, GotoOK DEF CacheInsert, ThreadsOK, WorkOK, UsesSlot
<1>6. ASSUME NEW t \in Threads, MapCrash(t) \/ PostUnconfigured(t) PROVE ThreadsOK'
  BY <1>0, <1>6, ThreadNode, HaltOK DEF MapCrash, PostUnconfigured
<1>7. ASSUME NEW t \in Threads, Post(t) PROVE ThreadsOK'
  BY <1>0, <1>7, ProceedOK DEF Post, ThreadsOK, WorkOK
<1>8. ASSUME NEW t \in Threads, NextRequested(t) PROVE ThreadsOK'
  <2>1. CASE Throw(t)
    BY <1>0, <2>1, EndOK
  <2>2. CASE ~ Throw(t)
    BY <1>0, <1>8, <2>2, AloneOK
    DEF NextRequested, HasRecord, StoreTypeOK, ThreadsTypeOK, Alone, WorkOK, UsesSlot
  <2> QED BY <2>1, <2>2
<1>9. ASSUME NEW t \in Threads, ListFailed(t) PROVE ThreadsOK'
  BY <1>0, <1>9, AloneOK DEF ListFailed, StoreTypeOK, ThreadsOK, ThreadsTypeOK, Alone, WorkOK, UsesSlot
<1>10. ASSUME NEW t \in Threads, ReadListed(t) PROVE ThreadsOK'
  <2>1. CASE Goto(t, "next")
    BY <1>0, <1>10, <2>1, GotoEffect, AloneOK DEF ReadListed, ThreadsOK, WorkOK, UsesSlot
  <2>2. CASE Throw(t)
    BY <1>0, <2>2, EndOK
  <2>3. CASE ~ Goto(t, "next") /\ ~ Throw(t)
    BY <1>0, <1>10, <2>3, AloneOK DEF ReadListed, ThreadsOK, ThreadsTypeOK, Alone, WorkOK, UsesSlot
  <2> QED BY <2>1, <2>2, <2>3
<1>11. ASSUME NEW t \in Threads, NextListed(t) PROVE ThreadsOK'
  <2>1. CASE Finish(t)
    BY <1>0, <2>1, EndOK
  <2>2. CASE ~ Finish(t)
    BY <1>0, <1>11, <2>2, AloneOK
    DEF NextListed, ThreadsOK, ThreadsTypeOK, Alone, WorkOK, UsesSlot, Providers
  <2> QED BY <2>1, <2>2
<1>12. ASSUME NEW t \in Threads,
              CheckFailed(t) \/ TakeFailed(t) \/ LogSettled(t) \/ Drop(t) \/ MarkRead(t) \/ MarkFailed(t)
                \/ CountFailure(t) \/ GiveUpCheck(t) \/ GiveUp(t) \/ LogFailure(t)
       PROVE  ThreadsOK'
  <2>1. prov[t] \in Providers /\ cur[t] \in Msgs
    BY <1>0, <1>12
    DEF CheckFailed, TakeFailed, LogSettled, Drop, MarkRead, MarkFailed, CountFailure, GiveUpCheck,
        GiveUp, LogFailure, ThreadsOK, WorkOK
  <2>2. \/ \E l \in TakePcs \cup CallbackPcs \cup {"ident"} : Goto(t, l)
        \/ Finish(t) \/ Throw(t) \/ Proceed(t)
    BY <1>12
    DEF CheckFailed, TakeFailed, LogSettled, Drop, MarkRead, MarkFailed, CountFailure, GiveUpCheck,
        GiveUp, LogFailure
  <2> QED BY <1>0, <2>1, <2>2, GotoOK, EndOK, ProceedOK
<1>13. ASSUME NEW t \in Threads, RedisFails(t) PROVE ThreadsOK'
  BY <1>0, <1>13, EndOK DEF RedisFails
<1>14. ASSUME NEW f \in inflight, NEW l \in {"sent", "drop", "mark"}, Answered(f, l) PROVE ThreadsOK'
  <2> DEFINE t == Main(f.node)
  <2>1. t \in Threads /\ f.prov \in Providers /\ Lookup(f) \in Msgs
    BY <1>0, <1>14, MainIsThread DEF Answered, NodesTypeOK, Posts, Lookup
  <2>2. ThreadsTypeOK' /\ Alone(t)
    BY <1>0, <1>14, <2>1 DEF Answered, ThreadsTypeOK, Alone
  <2>3. WorkOK(t)'
    BY <1>0, <1>14, <2>1 DEF Answered, ThreadsTypeOK, WorkOK, UsesSlot
  <2> QED BY <1>0, <2>1, <2>2, <2>3, AloneOK
<1>15. ASSUME NEW f \in inflight, UnknownIdent(f) PROVE ThreadsOK'
  <2>1. Main(f.node) \in Threads
    BY <1>0, MainIsThread DEF NodesTypeOK, Posts
  <2> QED BY <1>0, <1>15, <2>1, EndOK DEF UnknownIdent
<1>16. ASSUME NEW n \in Nodes, TimerFires(n) PROVE ThreadsOK'
  <2>1. Main(n) \in Threads
    BY MainIsThread
  <2> QED BY <1>0, <1>16, <2>1, AloneOK DEF TimerFires, ThreadsTypeOK, Alone, WorkOK, UsesSlot, Providers
<1>17. ASSUME NEW n \in Nodes, NodeExit(n) \/ Crash(n) PROVE ThreadsOK'
  BY <1>0, <1>17, HaltOK DEF NodeExit, Crash
<1>18. ASSUME UNCHANGED <<pc, locals>> PROVE ThreadsOK'
  BY <1>0, <1>18 DEF locals, ThreadsOK, ThreadsTypeOK, WorkOK, UsesSlot
<1> QED
  BY <1>1, <1>2, <1>3, <1>4, <1>5, <1>6, <1>7, <1>8, <1>9, <1>10, <1>11, <1>12, <1>13, <1>14, <1>15,
     <1>16, <1>17, <1>18
  DEF Next, ThreadStep, Answer, Delivered, Refused, Restart, vars

\* Every step keeps the types.
LEMMA TypeNext == TypeOK /\ [Next]_vars => TypeOK'
BY StoreNext, NodesNext, ThreadsNext DEF TypeOK, ThreadsOK

\* The state has the types the declarations announce, whatever the number of nodes, workers
\* and messages, and however they are configured.
THEOREM TypeCorrect == Spec => []TypeOK
BY TypeInit, TypeNext, PTL DEF Spec

(***************************************************************************)
(* Ownership                                                               *)
(***************************************************************************)

Owners == SingleOwner /\ OwnerFindsRecord /\ FailedIsLive

(***************************************************************************)
(* Calm steps                                                              *)
(***************************************************************************)

\* The step takes no identifier and answers at most some posts.
SlotCalm(t) ==
    /\ Alone(t)
    /\ UNCHANGED <<ident, cache>>
    /\ inflight' \subseteq inflight
    /\ ~ UsesSlot(t)'

\* The step takes no message.
OwnerCalm(t) ==
    /\ Alone(t)
    /\ UNCHANGED <<type, failed>>
    /\ inflight' \subseteq inflight
    /\ \A m \in Msgs : Holds(t, m)' => Holds(t, m)

\* A step that takes no identifier keeps what is known of the others.
LEMMA SlotCalmKeeps ==
    ASSUME SlotsDistinct, CacheHolds, NEW t \in Threads, SlotCalm(t)
    PROVE  SlotsDistinct' /\ CacheHolds'
<1>1. \A u \in Threads : UsesSlot(u)' =>
        u # t /\ UsesSlot(u) /\ pc'[u] = pc[u] /\ cur'[u] = cur[u] /\ prov'[u] = prov[u] /\ slot'[u] = slot[u]
  BY DEF SlotCalm, Alone, UsesSlot
<1>2. ident' = ident /\ cache' = cache /\ inflight' \subseteq inflight
  BY DEF SlotCalm
<1>3. SlotsDistinct'
  BY <1>1, <1>2 DEF SlotsDistinct, SameMap, InMap
<1>4. CacheHolds'
  <2>1. \A u \in Threads : pc'[u] = "post" => UsesSlot(u)'
    BY DEF UsesSlot
  <2> QED BY <1>1, <1>2, <2>1 DEF CacheHolds, Lookup
<1> QED BY <1>3, <1>4

\* A step that takes no message keeps who owns what.
LEMMA OwnerCalmKeeps ==
    ASSUME Owners, NEW t \in Threads, OwnerCalm(t)
    PROVE  Owners'
<1>1. \A u \in Threads : \A m \in Msgs : Holds(u, m)' => Holds(u, m)
  BY DEF OwnerCalm, Alone, Holds
<1>2. type' = type /\ failed' = failed /\ inflight' \subseteq inflight
  BY DEF OwnerCalm
<1>3. \A m \in Msgs : (Held(m)' => Held(m)) /\ (Posted(m)' => Posted(m)) /\ (InSomeSet(m)' <=> InSomeSet(m))
  BY <1>1, <1>2 DEF Held, Posted, InSomeSet
<1>4. SingleOwner'
  BY <1>1, <1>2, <1>3 DEF Owners, SingleOwner
<1>5. OwnerFindsRecord' /\ FailedIsLive'
  BY <1>2, <1>3 DEF Owners, OwnerFindsRecord, FailedIsLive, HasRecord
<1> QED BY <1>4, <1>5 DEF Owners

\* A handler that ends is calm.
LEMMA EndCalm ==
    ASSUME ThreadsTypeOK, PushyAssumption, NEW t \in Threads, Alone(t), AtRest(t)
    PROVE  ~ UsesSlot(t)' /\ \A m \in Msgs : ~ Holds(t, m)'
BY DEF AtRest, UsesSlot, Holds, OwnerPcs

\* The steps that read, choose, count and give up without having taken anything.
LEMMA CalmSteps ==
    ASSUME TypeOK, NEW t \in Threads, Resting(t),
           \/ \E p \in Providers : StartPush(t, p)
           \/ \E S \in SUBSET Msgs : StartRedeliver(t, S)
           \/ NextRequested(t) \/ ListFailed(t) \/ ReadListed(t) \/ NextListed(t)
           \/ CheckFailed(t) \/ LogSettled(t) \/ MarkRead(t) \/ CountFailure(t)
           \/ GiveUpCheck(t) \/ LogFailure(t) \/ RedisFails(t)
    PROVE  SlotCalm(t) /\ OwnerCalm(t)
<1> USE PushyAssumption DEF storeVars, nodeVars, UsesSlot, Holds, OwnerPcs
<1>0. ThreadsTypeOK
  BY DEF TypeOK
<1>1. ASSUME Finish(t) \/ Throw(t), UNCHANGED <<type, failed, nodeVars>>
      PROVE  SlotCalm(t) /\ OwnerCalm(t)
  BY <1>0, <1>1, EndEffect, EndCalm DEF SlotCalm, OwnerCalm
<1>2. ASSUME NEW l \in {"next", "srem", "gcheck", "gsrem", "logfail"}, Goto(t, l),
             UNCHANGED <<type, failed, nodeVars>>
      PROVE  SlotCalm(t) /\ OwnerCalm(t)
  BY <1>0, <1>2, GotoEffect DEF SlotCalm, OwnerCalm, Pcs, ListPcs, TakePcs, CallbackPcs
<1>3. ASSUME NEW p \in Providers, StartPush(t, p) PROVE SlotCalm(t) /\ OwnerCalm(t)
  <2>1. cur[t] = NoMsg
    BY <1>3 DEF StartPush, Resting
  <2> QED BY <1>0, <1>3, <2>1 DEF StartPush, SlotCalm, OwnerCalm, Alone, ThreadsTypeOK
<1>4. ASSUME NEW S \in SUBSET Msgs, StartRedeliver(t, S) PROVE SlotCalm(t) /\ OwnerCalm(t)
  BY <1>0, <1>4 DEF StartRedeliver, SlotCalm, OwnerCalm, Alone, ThreadsTypeOK
<1>5. CASE NextRequested(t)
  <2>1. CASE Throw(t)
    BY <1>1, <1>5, <2>1 DEF NextRequested
  <2>2. CASE ~ Throw(t)
    BY <1>0, <1>5, <2>2 DEF NextRequested, SlotCalm, OwnerCalm, Alone, ThreadsTypeOK
  <2> QED BY <2>1, <2>2
<1>6. CASE ListFailed(t)
  BY <1>0, <1>6 DEF ListFailed, SlotCalm, OwnerCalm, Alone, ThreadsTypeOK
<1>7. CASE ReadListed(t)
  <2>1. CASE Goto(t, "next")
    BY <1>2, <1>7, <2>1 DEF ReadListed
  <2>2. CASE Throw(t)
    BY <1>1, <1>7, <2>2 DEF ReadListed
  <2>3. CASE ~ Goto(t, "next") /\ ~ Throw(t)
    BY <1>0, <1>7, <2>3 DEF ReadListed, SlotCalm, OwnerCalm, Alone, ThreadsTypeOK
  <2> QED BY <2>1, <2>2, <2>3
<1>8. CASE NextListed(t)
  <2>1. CASE Finish(t)
    BY <1>1, <1>8, <2>1 DEF NextListed
  <2>2. CASE ~ Finish(t)
    BY <1>0, <1>8, <2>2 DEF NextListed, SlotCalm, OwnerCalm, Alone, ThreadsTypeOK
  <2> QED BY <2>1, <2>2
<1>9. CASE CheckFailed(t) \/ GiveUpCheck(t) \/ LogFailure(t) \/ CountFailure(t)
  BY <1>1, <1>2, <1>9 DEF CheckFailed, GiveUpCheck, LogFailure, CountFailure, CountAttempt
<1>10. CASE LogSettled(t) \/ MarkRead(t)
  <2>1. CASE Throw(t)
    BY <1>1, <1>10, <2>1 DEF LogSettled, MarkRead
  <2>2. CASE ~ Throw(t)
    <3>1. PICK l \in {"drop", "sadd"} : Goto(t, l)
      BY <1>10, <2>2 DEF LogSettled, MarkRead
    <3> QED BY <1>0, <1>10, <3>1, GotoEffect DEF LogSettled, MarkRead, SlotCalm, OwnerCalm, Pcs, CallbackPcs
  <2> QED BY <2>1, <2>2
<1>11. CASE RedisFails(t)
  BY <1>1, <1>11 DEF RedisFails
<1> QED BY <1>3, <1>4, <1>5, <1>6, <1>7, <1>8, <1>9, <1>10, <1>11

\* SREM, and its answer "not there": nothing has happened.
LEMMA NotTaken ==
    ASSUME TypeOK, NEW t \in Threads, TakeFailed(t) \/ GiveUp(t), ~ InFailed(cur[t], prov[t])
    PROVE  SlotCalm(t) /\ OwnerCalm(t)
<1>1. failed' = failed /\ UNCHANGED <<type, nodeVars>>
  <2>1. failed[prov[t]] \ {cur[t]} = failed[prov[t]]
    BY DEF InFailed
  <2>2. failed' = [failed EXCEPT ![prov[t]] = failed[prov[t]]]
    BY <2>1 DEF TakeFailed, GiveUp, RemoveFailed
  <2>3. failed' = failed
    BY <2>2 DEF TypeOK, StoreTypeOK
  <2> QED BY <2>3 DEF TakeFailed, GiveUp, RemoveFailed
<1>2. Alone(t) /\ (AtRest(t) \/ (pc'[t] = "next" /\ cur'[t] = NoMsg))
  BY ProceedEffect, EndEffect DEF TypeOK, TakeFailed, GiveUp
<1> QED
  BY <1>1, <1>2, PushyAssumption
  DEF SlotCalm, OwnerCalm, AtRest, nodeVars, UsesSlot, Holds, OwnerPcs

\* The timer starts calmly, and so does the end of a callback whose identifier is unknown.
LEMMA CalmMain ==
    ASSUME TypeOK, NEW n \in Nodes,
           TimerFires(n) \/ \E f \in inflight : f.node = n /\ UnknownIdent(f)
    PROVE  SlotCalm(Main(n)) /\ OwnerCalm(Main(n))
<1> USE PushyAssumption, MainIsThread DEF storeVars, nodeVars, UsesSlot, Holds, OwnerPcs, TypeOK
<1>1. CASE TimerFires(n)
  BY <1>1 DEF TimerFires, SlotCalm, OwnerCalm, Alone, ThreadsTypeOK
<1>2. ASSUME NEW f \in inflight, f.node = n, UnknownIdent(f)
      PROVE  SlotCalm(Main(n)) /\ OwnerCalm(Main(n))
  BY <1>2, EndEffect, EndCalm DEF UnknownIdent, SlotCalm, OwnerCalm
<1> QED BY <1>1, <1>2

\* So a step is calm, or one of few that are not, or it changes nothing of this.
LEMMA StepCases ==
    ASSUME TypeOK, \A t \in Threads : Resting(t), [Next]_vars
    PROVE  \/ \E t \in Threads : SlotCalm(t) /\ OwnerCalm(t)
           \/ \E t \in Threads :
                \/ PushWrite(t) \/ TakeIdent(t) \/ CacheInsert(t) \/ Post(t)
                \/ Drop(t) \/ MarkFailed(t)
                \/ (TakeFailed(t) \/ GiveUp(t)) /\ InFailed(cur[t], prov[t])
           \/ \E f \in inflight : \E l \in {"sent", "drop", "mark"} : Answered(f, l)
           \/ \E n \in Nodes : Halt(n) /\ UNCHANGED storeVars
           \/ UNCHANGED <<storeVars, ident, cache, inflight, pc, locals>>
<1>1. ASSUME NEW t \in Threads, ThreadStep(t), TakeFailed(t) \/ GiveUp(t)
      PROVE  (SlotCalm(t) /\ OwnerCalm(t)) \/ InFailed(cur[t], prov[t])
  BY <1>1, NotTaken
<1>2. ASSUME NEW t \in Threads, MapCrash(t) \/ PostUnconfigured(t)
      PROVE  \E n \in Nodes : Halt(n) /\ UNCHANGED storeVars
  BY <1>2, ThreadNode DEF MapCrash, PostUnconfigured
<1>3. ASSUME NEW n \in Nodes, NodeExit(n) \/ Crash(n) PROVE Halt(n) /\ UNCHANGED storeVars
  BY <1>3 DEF NodeExit, Crash
<1>4. ASSUME NEW f \in inflight, Answer(f)
      PROVE  UnknownIdent(f) \/ \E l \in {"sent", "drop", "mark"} : Answered(f, l)
  BY <1>4 DEF Answer, Delivered, Refused
<1>5. ASSUME NEW n \in Nodes, TimerFires(n) \/ \E f \in inflight : f.node = n /\ UnknownIdent(f)
      PROVE  \E t \in Threads : SlotCalm(t) /\ OwnerCalm(t)
  BY <1>5, CalmMain, MainIsThread
<1>6. \A f \in inflight : f.node \in Nodes
  BY DEF TypeOK, NodesTypeOK, Posts
<1>7. ASSUME NEW n \in Nodes, Restart(n)
      PROVE  UNCHANGED <<storeVars, ident, cache, inflight, pc, locals>>
  BY <1>7 DEF Restart
<1>8. ASSUME UNCHANGED vars
      PROVE  UNCHANGED <<storeVars, ident, cache, inflight, pc, locals>>
  BY <1>8 DEF vars, nodeVars
<1>9. CASE Next
  <2>1. ASSUME NEW t \in Threads,
               (\E p \in Providers : StartPush(t, p)) \/ (\E S \in SUBSET Msgs : StartRedeliver(t, S))
               \/ ThreadStep(t) \/ RedisFails(t)
        PROVE  \/ SlotCalm(t) /\ OwnerCalm(t)
               \/ PushWrite(t) \/ TakeIdent(t) \/ CacheInsert(t) \/ Post(t) \/ Drop(t) \/ MarkFailed(t)
               \/ (TakeFailed(t) \/ GiveUp(t)) /\ InFailed(cur[t], prov[t])
               \/ MapCrash(t) \/ PostUnconfigured(t)
    BY <1>1, <2>1, CalmSteps DEF ThreadStep
  <2>2. ASSUME NEW f \in inflight, Answer(f)
        PROVE  \/ \E t \in Threads : SlotCalm(t) /\ OwnerCalm(t)
               \/ \E l \in {"sent", "drop", "mark"} : Answered(f, l)
    BY <1>4, <1>5, <1>6, <2>2
  <2> QED BY <1>2, <1>3, <1>5, <1>7, <1>9, <2>1, <2>2 DEF Next
<1> QED BY <1>8, <1>9

\* The answer of the library and the writes to sets and records take no identifier.
LEMMA SlotCalmSteps ==
    ASSUME TypeOK
    PROVE  /\ \A t \in Threads :
                TakeFailed(t) \/ GiveUp(t) \/ Drop(t) \/ MarkFailed(t) => SlotCalm(t)
           /\ \A f \in inflight : \A l \in {"sent", "drop", "mark"} :
                Answered(f, l) => SlotCalm(Main(f.node))
<1> USE PushyAssumption DEF nodeVars, UsesSlot
<1>0. ThreadsTypeOK
  BY DEF TypeOK
<1>1. ASSUME NEW t \in Threads, TakeFailed(t) \/ GiveUp(t) \/ Drop(t) \/ MarkFailed(t)
      PROVE  SlotCalm(t)
  <2>1. Alone(t) /\ ~ UsesSlot(t)'
    <3>1. CASE Finish(t)
      BY <1>0, <3>1, EndEffect DEF AtRest
    <3>2. CASE Proceed(t)
      BY <1>0, <3>2, ProceedEffect DEF AtRest
    <3>3. ASSUME NEW l \in {"ident", "logperm", "drop", "incr"}, Goto(t, l) PROVE Alone(t) /\ ~ UsesSlot(t)'
      BY <1>0, <3>3, GotoEffect DEF Pcs, PushPcs, CallbackPcs
    <3> QED BY <1>1, <3>1, <3>2, <3>3 DEF TakeFailed, GiveUp, Drop, MarkFailed
  <2> QED BY <1>1, <2>1 DEF TakeFailed, GiveUp, Drop, MarkFailed, SlotCalm
<1>2. ASSUME NEW f \in inflight, NEW l \in {"sent", "drop", "mark"}, Answered(f, l)
      PROVE  SlotCalm(Main(f.node))
  <2>1. Main(f.node) \in Threads
    BY MainIsThread DEF TypeOK, NodesTypeOK, Posts
  <2> QED BY <1>0, <1>2, <2>1 DEF Answered, SlotCalm, Alone, ThreadsTypeOK
<1> QED BY <1>1, <1>2

(***************************************************************************)
(* The way of an identifier                                                *)
(***************************************************************************)

\* TakeIdent: the counter moves on, the identifier taken is new.
LEMMA TakeIdentEffect ==
    ASSUME TypeOK, NEW t \in Threads, TakeIdent(t)
    PROVE  /\ Alone(t) /\ t[1] \in Nodes /\ prov[t] \in Providers
           /\ pc'[t] \in {"write", "insert"} /\ (pc'[t] = "write" <=> cur[t] = NoMsg)
           /\ cur' = cur /\ prov' = prov /\ todo' = todo /\ cache' = cache /\ inflight' = inflight
           /\ slot'[t] = ident[t[1]][prov[t]] /\ slot'[t] \in Idents
           /\ ident'[t[1]][prov[t]] = ident[t[1]][prov[t]] + 1
           /\ \A n \in Nodes : \A p \in Providers :
                n # t[1] \/ p # prov[t] => ident'[n][p] = ident[n][p]
<1>1. t[1] \in Nodes /\ prov[t] \in Providers
  BY ThreadNode DEF TypeOK, TakeIdent, WorkOK
<1>2. ident[t[1]][prov[t]] \in Idents
  BY <1>1, PushyAssumption DEF TypeOK, NodesTypeOK, TakeIdent, Idents
<1>3. Alone(t) /\ pc'[t] \in {"write", "insert"} /\ (pc'[t] = "write" <=> cur[t] = NoMsg)
  BY DEF TypeOK, ThreadsTypeOK, TakeIdent, Alone
<1>4. slot'[t] = ident[t[1]][prov[t]]
  BY DEF TypeOK, ThreadsTypeOK, TakeIdent
<1>5. /\ ident'[t[1]][prov[t]] = ident[t[1]][prov[t]] + 1
      /\ \A n \in Nodes : \A p \in Providers :
            n # t[1] \/ p # prov[t] => ident'[n][p] = ident[n][p]
  BY <1>1 DEF TypeOK, NodesTypeOK, TakeIdent
<1> QED BY <1>1, <1>2, <1>3, <1>4, <1>5 DEF TakeIdent

\* Identifiers in use stay distinct.
LEMMA SlotsNext ==
    ASSUME TypeOK, SlotsDistinct, CacheHolds, \A t \in Threads : Resting(t), [Next]_vars
    PROVE  SlotsDistinct'
<1> USE PushyAssumption
<1>0. ThreadsTypeOK /\ NodesTypeOK /\ \A t \in Threads : WorkOK(t)
  BY DEF TypeOK
<1>1. ASSUME NEW t \in Threads, SlotCalm(t) PROVE SlotsDistinct'
  BY <1>1, SlotCalmKeeps
<1>2. ASSUME NEW t \in Threads, PushWrite(t) PROVE SlotsDistinct'
  <2>1. Alone(t) /\ prov' = prov /\ slot' = slot /\ ident' = ident /\ inflight' = inflight
    BY <1>0, <1>2 DEF PushWrite, nodeVars, Alone, ThreadsTypeOK
  <2>2. UsesSlot(t)' => UsesSlot(t)
    BY <1>0, <1>2 DEF PushWrite, WorkOK, UsesSlot, ThreadsTypeOK, Providers
  <2>3. \A u \in Threads : UsesSlot(u)' => UsesSlot(u)
    BY <2>1, <2>2 DEF Alone, UsesSlot
  <2> QED BY <2>1, <2>3 DEF SlotsDistinct, SameMap, InMap
<1>3. ASSUME NEW t \in Threads, TakeIdent(t) PROVE SlotsDistinct'
  <2> DEFINE i == ident[t[1]][prov[t]]
  <2>1. /\ Alone(t) /\ prov' = prov /\ inflight' = inflight /\ slot'[t] = i /\ ident'[t[1]][prov[t]] = i + 1
        /\ \A n \in Nodes : \A p \in Providers : n # t[1] \/ p # prov[t] => ident'[n][p] = ident[n][p]
        /\ t[1] \in Nodes /\ prov[t] \in Providers /\ i \in Nat
    BY <1>3, TakeIdentEffect DEF Idents
  <2>2. \A u \in Threads \ {t} : UsesSlot(u)' => UsesSlot(u) /\ slot'[u] = slot[u]
    BY <2>1 DEF Alone, UsesSlot
  <2>3. \A u \in Threads \ {t} : UsesSlot(u)' /\ SameMap(u, t)' => slot'[u] < i
    BY <2>1, <2>2 DEF SlotsDistinct, SameMap
  <2>4. \A f \in inflight' : f.node = t[1] /\ f.prov = prov[t] => f.ident < i
    BY <2>1 DEF SlotsDistinct
  <2>5. \A u \in Threads : UsesSlot(u)' => slot'[u] < ident'[u[1]][prov'[u]]
    <3> TAKE u \in Threads
    <3>1. CASE u = t
      BY <2>1, <3>1
    <3>2. CASE u # t /\ ~ SameMap(u, t)
      <4>1. SUFFICES ASSUME UsesSlot(u)' PROVE slot'[u] < ident'[u[1]][prov'[u]]
        OBVIOUS
      <4>2. UsesSlot(u) /\ slot'[u] = slot[u] /\ u[1] \in Nodes /\ prov[u] \in Providers
        BY <1>0, <2>2, <3>2, <4>1, ThreadNode DEF WorkOK, UsesSlot, Providers
      <4>3. ident'[u[1]][prov[u]] = ident[u[1]][prov[u]]
        BY <2>1, <3>2, <4>2 DEF SameMap
      <4> QED BY <2>1, <4>2, <4>3 DEF SlotsDistinct
    <3>3. CASE u # t /\ SameMap(u, t)
      <4>1. SUFFICES ASSUME UsesSlot(u)' PROVE slot'[u] < ident'[u[1]][prov'[u]]
        OBVIOUS
      <4>2. slot'[u] \in Nat /\ slot'[u] < i
        BY <1>0, <2>1, <2>2, <2>3, <3>3, <4>1 DEF WorkOK, Idents, SameMap
      <4> QED BY <2>1, <3>3, <4>2 DEF SameMap
    <3> QED BY <3>1, <3>2, <3>3
  <2>6. \A f \in inflight' : f.ident < ident'[f.node][f.prov]
    <3> TAKE f \in inflight'
    <3>1. f \in inflight /\ f.node \in Nodes /\ f.prov \in Providers /\ f.ident \in Nat
      BY <1>0, <2>1 DEF NodesTypeOK, Posts, Idents
    <3>2. CASE f.node = t[1] /\ f.prov = prov[t]
      BY <2>1, <2>4, <3>1, <3>2
    <3>3. CASE ~ (f.node = t[1] /\ f.prov = prov[t])
      BY <2>1, <3>1, <3>3 DEF SlotsDistinct
    <3> QED BY <3>2, <3>3
  <2>7. \A u, v \in Threads :
            u # v /\ UsesSlot(u)' /\ UsesSlot(v)' /\ SameMap(u, v)' => slot'[u] # slot'[v]
    <3>1. \A u \in Threads \ {t} : UsesSlot(u)' => slot'[u] \in Nat
      BY <1>0, <2>2 DEF WorkOK, Idents
    <3>2. \A u, v \in Threads \ {t} :
            u # v /\ UsesSlot(u)' /\ UsesSlot(v)' /\ SameMap(u, v)' => slot'[u] # slot'[v]
      BY <2>1, <2>2 DEF SlotsDistinct, SameMap
    <3>3. \A u \in Threads \ {t} : UsesSlot(u)' /\ (SameMap(u, t)' \/ SameMap(t, u)') => slot'[u] # slot'[t]
      BY <2>1, <2>3, <3>1 DEF SameMap
    <3> QED BY <3>2, <3>3
  <2>8. \A f \in inflight' : \A u \in Threads : UsesSlot(u)' /\ InMap(f, u)' => f.ident # slot'[u]
    <3> TAKE f \in inflight'
    <3> TAKE u \in Threads
    <3>1. CASE u = t
      <4>1. f.ident \in Nat
        BY <1>0, <2>1 DEF NodesTypeOK, Posts, Idents
      <4>2. InMap(f, u)' => f.ident < i
        BY <2>1, <2>4, <3>1 DEF InMap
      <4> QED BY <2>1, <3>1, <4>1, <4>2
    <3>2. CASE u # t
      BY <2>1, <2>2, <3>2 DEF SlotsDistinct, InMap
    <3> QED BY <3>1, <3>2
  <2> QED BY <2>1, <2>5, <2>6, <2>7, <2>8 DEF SlotsDistinct
<1>4. ASSUME NEW t \in Threads, CacheInsert(t) PROVE SlotsDistinct'
  <2>1. Alone(t) /\ prov' = prov /\ slot' = slot /\ ident' = ident /\ inflight' = inflight /\ UsesSlot(t)
    BY <1>0, <1>4, GotoEffect DEF CacheInsert, UsesSlot, Pcs, PushPcs
  <2>2. \A u \in Threads : UsesSlot(u)' => UsesSlot(u)
    BY <2>1 DEF Alone, UsesSlot
  <2> QED BY <2>1, <2>2 DEF SlotsDistinct, SameMap, InMap
<1>5. ASSUME NEW t \in Threads, Post(t) PROVE SlotsDistinct'
  <2> DEFINE f == [node |-> t[1], prov |-> prov[t], ident |-> slot[t], msg |-> cur[t]]
  <2>1. UsesSlot(t) /\ ident' = ident /\ inflight' = inflight \cup {f}
    BY <1>5 DEF Post, UsesSlot
  <2>2. Alone(t) /\ ~ UsesSlot(t)'
    BY <1>0, <1>5, ProceedEffect DEF Post, AtRest, UsesSlot
  <2>3. \A u \in Threads : UsesSlot(u)' => u # t /\ UsesSlot(u) /\ slot'[u] = slot[u] /\ prov'[u] = prov[u]
    BY <2>2 DEF Alone, UsesSlot
  <2>4. \A u \in Threads : UsesSlot(u)' => slot'[u] < ident'[u[1]][prov'[u]]
    BY <2>1, <2>3 DEF SlotsDistinct
  <2>5. \A u, v \in Threads :
            u # v /\ UsesSlot(u)' /\ UsesSlot(v)' /\ SameMap(u, v)' => slot'[u] # slot'[v]
    BY <2>3 DEF SlotsDistinct, SameMap
  <2>6. \A g \in inflight' : g.ident < ident'[g.node][g.prov]
    BY <2>1 DEF SlotsDistinct
  <2>7. \A g \in inflight' : \A u \in Threads : UsesSlot(u)' /\ InMap(g, u)' => g.ident # slot'[u]
    BY <2>1, <2>3 DEF SlotsDistinct, InMap, SameMap
  <2>8. \A g, h \in inflight' : g.node = h.node /\ g.prov = h.prov /\ g.ident = h.ident => g = h
    <3>1. \A g \in inflight : ~ (g.node = f.node /\ g.prov = f.prov /\ g.ident = f.ident)
      BY <2>1 DEF SlotsDistinct, InMap
    <3> QED BY <2>1, <3>1 DEF SlotsDistinct
  <2> QED BY <2>4, <2>5, <2>6, <2>7, <2>8 DEF SlotsDistinct
<1>6. ASSUME NEW n \in Nodes, Halt(n) PROVE SlotsDistinct'
  <2>1. \A u \in Threads : UsesSlot(u)' =>
            u[1] # n /\ UsesSlot(u) /\ slot'[u] = slot[u] /\ prov'[u] = prov[u]
    BY <1>0, <1>6, HaltEffect DEF AtRest, UsesSlot
  <2>2. /\ inflight' = {f \in inflight : f.node # n}
        /\ \A k \in Nodes \ {n} : ident'[k] = ident[k]
    BY <1>0, <1>6 DEF Halt, NodesTypeOK
  <2>3. \A u \in Threads : UsesSlot(u)' => slot'[u] < ident'[u[1]][prov'[u]]
    BY <2>1, <2>2, ThreadNode DEF SlotsDistinct
  <2>4. \A f \in inflight' : f.ident < ident'[f.node][f.prov]
    BY <1>0, <2>2 DEF SlotsDistinct, NodesTypeOK, Posts
  <2> QED BY <2>1, <2>2, <2>3, <2>4 DEF SlotsDistinct, SameMap, InMap
<1>7. CASE UNCHANGED <<storeVars, ident, cache, inflight, pc, locals>>
  BY <1>7 DEF locals, SlotsDistinct, UsesSlot, SameMap, InMap
<1>8. ASSUME NEW f \in inflight, NEW l \in {"sent", "drop", "mark"}, Answered(f, l)
      PROVE  SlotsDistinct'
  <2>1. Main(f.node) \in Threads
    BY <1>0, MainIsThread DEF NodesTypeOK, Posts
  <2> QED BY <1>1, <1>8, <2>1, SlotCalmSteps
<1>9. ASSUME NEW t \in Threads, TakeFailed(t) \/ GiveUp(t) \/ Drop(t) \/ MarkFailed(t)
      PROVE  SlotsDistinct'
  BY <1>1, <1>9, SlotCalmSteps
<1> QED BY StepCases, <1>1, <1>2, <1>3, <1>4, <1>5, <1>6, <1>7, <1>8, <1>9

\* Cells hold what was put there, and those of identifiers not used yet hold nothing.
LEMMA CacheNext ==
    ASSUME TypeOK, SlotsDistinct, CacheHolds, \A t \in Threads : Resting(t), [Next]_vars
    PROVE  CacheHolds'
<1> USE PushyAssumption
<1>0. ThreadsTypeOK /\ NodesTypeOK /\ \A t \in Threads : WorkOK(t)
  BY DEF TypeOK
<1>1. ASSUME NEW t \in Threads, SlotCalm(t) PROVE CacheHolds'
  BY <1>1, SlotCalmKeeps
<1>2. ASSUME NEW t \in Threads, PushWrite(t) PROVE CacheHolds'
  <2>1. /\ Alone(t) /\ prov' = prov /\ slot' = slot /\ ident' = ident /\ inflight' = inflight /\ cache' = cache
        /\ pc'[t] \notin {"write", "post"}
    BY <1>0, <1>2 DEF PushWrite, nodeVars, Alone, ThreadsTypeOK
  <2>2. UsesSlot(t)' => UsesSlot(t) /\ pc[t] # "post"
    BY <1>0, <1>2 DEF PushWrite, WorkOK, UsesSlot, ThreadsTypeOK, Providers
  <2>3. \A u \in Threads : UsesSlot(u)' /\ pc'[u] # "post" => UsesSlot(u) /\ pc[u] # "post"
    BY <2>1, <2>2 DEF Alone, UsesSlot
  <2>4. \A u \in Threads : pc'[u] = "post" => pc[u] = "post" /\ cur'[u] = cur[u]
    BY <2>1 DEF Alone
  <2> QED BY <2>1, <2>3, <2>4 DEF CacheHolds, Lookup
<1>3. ASSUME NEW t \in Threads, TakeIdent(t) PROVE CacheHolds'
  <2>1. /\ Alone(t) /\ prov' = prov /\ cur' = cur /\ cache' = cache /\ inflight' = inflight
        /\ slot'[t] = ident[t[1]][prov[t]] /\ slot'[t] \in Idents /\ pc'[t] \in {"write", "insert"}
        /\ t[1] \in Nodes /\ prov[t] \in Providers
        /\ ident'[t[1]][prov[t]] = ident[t[1]][prov[t]] + 1
        /\ \A n \in Nodes : \A p \in Providers : n # t[1] \/ p # prov[t] => ident'[n][p] = ident[n][p]
    BY <1>3, TakeIdentEffect
  <2>2. \A n \in Nodes : \A p \in Providers : \A i \in Idents : i >= ident'[n][p] => cache[n][p][i] = NoMsg
    <3> TAKE n \in Nodes
    <3> TAKE p \in Providers
    <3> TAKE i \in Idents
    <3>1. ident[n][p] \in Nat /\ i \in Nat
      BY <1>0 DEF NodesTypeOK, Idents
    <3>2. i >= ident'[n][p] => i >= ident[n][p]
      BY <2>1, <3>1
    <3> QED BY <3>2 DEF CacheHolds
  <2>3. cache[t[1]][prov[t]][slot'[t]] = NoMsg
    <3>1. slot'[t] >= ident[t[1]][prov[t]]
      BY <2>1 DEF Idents
    <3> QED BY <2>1, <3>1 DEF CacheHolds
  <2>4. \A u \in Threads : UsesSlot(u)' /\ pc'[u] # "post" => cache[u[1]][prov[u]][slot'[u]] = NoMsg
    BY <2>1, <2>3 DEF CacheHolds, Alone, UsesSlot
  <2>5. \A u \in Threads : pc'[u] = "post" => pc[u] = "post" /\ slot'[u] = slot[u]
    BY <2>1 DEF Alone
  <2> QED BY <2>1, <2>2, <2>4, <2>5 DEF CacheHolds, Lookup
<1>4. ASSUME NEW t \in Threads, CacheInsert(t) PROVE CacheHolds'
  <2> DEFINE n == t[1]
             p == prov[t]
             s == slot[t]
  <2>1. /\ Alone(t) /\ pc'[t] = "post" /\ cur' = cur /\ prov' = prov /\ slot' = slot
        /\ ident' = ident /\ inflight' = inflight /\ UsesSlot(t) /\ pc[t] = "insert"
    BY <1>0, <1>4, GotoEffect DEF CacheInsert, UsesSlot, Pcs, PushPcs
  <2>2. n \in Nodes /\ p \in Providers /\ s \in Idents /\ s < ident[n][p] /\ cur[t] \in Msgs
    BY <1>0, <2>1, ThreadNode DEF WorkOK, SlotsDistinct
  <2>3. \A u \in Threads : UsesSlot(u)' => UsesSlot(u)
    BY <2>1 DEF Alone, UsesSlot
  <2>4. \A u \in Threads : u # t => pc'[u] = pc[u]
    BY <2>1 DEF Alone
  <2>5. cache[n][p][s] = NoMsg
    BY <2>1 DEF CacheHolds
  <2>6. CASE cache' = cache /\ "lost_insert" \in MapRaces
    <3>1. CellOK(cache[n][p][s], cur[t])
      BY <2>5, <2>6 DEF CellOK
    <3> QED BY <2>1, <2>3, <2>4, <2>6, <3>1 DEF CacheHolds, Lookup
  <2>7. CASE cache' = [cache EXCEPT ![n][p][s] = cur[t]]
    <3>1. cache'[n][p][s] = cur[t]
      BY <1>0, <2>2, <2>7 DEF NodesTypeOK
    <3>2. \A k \in Nodes : \A q \in Providers : \A i \in Idents :
            k # n \/ q # p \/ i # s => cache'[k][q][i] = cache[k][q][i]
      BY <1>0, <2>2, <2>7 DEF NodesTypeOK
    <3>3. \A k \in Nodes : \A q \in Providers : \A i \in Idents :
            i >= ident'[k][q] => cache'[k][q][i] = NoMsg
      <4> TAKE k \in Nodes
      <4> TAKE q \in Providers
      <4> TAKE i \in Idents
      <4>1. ident[k][q] \in Nat /\ i \in Nat /\ s \in Nat
        BY <1>0, <2>2 DEF NodesTypeOK, Idents
      <4>2. k = n /\ q = p /\ i = s => ~ (i >= ident[k][q])
        BY <2>2, <4>1
      <4> QED BY <2>1, <3>2, <4>2 DEF CacheHolds
    <3>4. \A u \in Threads : UsesSlot(u)' /\ u # t =>
            /\ u[1] \in Nodes /\ prov[u] \in Providers /\ slot[u] \in Idents
            /\ u[1] # n \/ prov[u] # p \/ slot[u] # s
      <4>1. \A u \in Threads : UsesSlot(u) => prov[u] \in Providers /\ slot[u] \in Idents
        BY <1>0 DEF WorkOK, UsesSlot, Providers
      <4>2. \A u \in Threads : UsesSlot(u) /\ u # t => u[1] # n \/ prov[u] # p \/ slot[u] # s
        BY <2>1 DEF SlotsDistinct, SameMap
      <4> QED BY <2>3, <4>1, <4>2, ThreadNode
    <3>5. \A u \in Threads : UsesSlot(u)' /\ u # t =>
            cache'[u[1]][prov[u]][slot[u]] = cache[u[1]][prov[u]][slot[u]]
      BY <3>2, <3>4
    <3>6. \A u \in Threads : UsesSlot(u)' /\ pc'[u] # "post" => cache'[u[1]][prov'[u]][slot'[u]] = NoMsg
      BY <2>1, <2>3, <2>4, <3>5 DEF CacheHolds
    <3>7. \A u \in Threads : pc'[u] = "post" => CellOK(cache'[u[1]][prov'[u]][slot'[u]], cur'[u])
      <4>1. \A u \in Threads : pc'[u] = "post" => UsesSlot(u)'
        BY DEF UsesSlot
      <4>2. \A u \in Threads : pc'[u] = "post" /\ u # t => CellOK(cache'[u[1]][prov'[u]][slot'[u]], cur'[u])
        BY <2>1, <2>4, <3>5, <4>1 DEF CacheHolds
      <4> QED BY <2>1, <3>1, <4>2 DEF CellOK
    <3>8. \A f \in inflight' : CellOK(cache'[f.node][f.prov][f.ident], f.msg)
      <4> TAKE f \in inflight'
      <4>1. f.node \in Nodes /\ f.prov \in Providers /\ f.ident \in Idents /\ f \in inflight
        BY <1>0, <2>1 DEF NodesTypeOK, Posts
      <4>2. f.node # n \/ f.prov # p \/ f.ident # s
        BY <2>1, <4>1 DEF SlotsDistinct, InMap
      <4> QED BY <3>2, <4>1, <4>2 DEF CacheHolds, Lookup
    <3> QED BY <3>3, <3>6, <3>7, <3>8 DEF CacheHolds, Lookup
  <2> QED BY <1>4, <2>6, <2>7 DEF CacheInsert
<1>5. ASSUME NEW t \in Threads, Post(t) PROVE CacheHolds'
  <2> DEFINE f == [node |-> t[1], prov |-> prov[t], ident |-> slot[t], msg |-> cur[t]]
  <2>1. pc[t] = "post" /\ ident' = ident /\ cache' = cache /\ inflight' = inflight \cup {f}
    BY <1>5 DEF Post
  <2>2. Alone(t) /\ ~ UsesSlot(t)'
    BY <1>0, <1>5, ProceedEffect DEF Post, AtRest, UsesSlot
  <2>3. \A u \in Threads : UsesSlot(u)' =>
            u # t /\ UsesSlot(u) /\ pc'[u] = pc[u] /\ slot'[u] = slot[u] /\ prov'[u] = prov[u] /\ cur'[u] = cur[u]
    BY <2>2 DEF Alone, UsesSlot
  <2>4. \A u \in Threads : pc'[u] = "post" => UsesSlot(u)'
    BY DEF UsesSlot
  <2>5. CellOK(cache[f.node][f.prov][f.ident], f.msg)
    BY <2>1 DEF CacheHolds
  <2> QED BY <2>1, <2>3, <2>4, <2>5 DEF CacheHolds, Lookup
<1>6. ASSUME NEW n \in Nodes, Halt(n) PROVE CacheHolds'
  <2>1. \A u \in Threads : UsesSlot(u)' =>
            u[1] # n /\ UsesSlot(u) /\ pc'[u] = pc[u] /\ slot'[u] = slot[u] /\ prov'[u] = prov[u] /\ cur'[u] = cur[u]
    BY <1>0, <1>6, HaltEffect DEF AtRest, UsesSlot
  <2>2. /\ inflight' = {f \in inflight : f.node # n}
        /\ \A k \in Nodes \ {n} : ident'[k] = ident[k] /\ cache'[k] = cache[k]
        /\ \A p \in Providers : \A i \in Idents : cache'[n][p][i] = NoMsg
    BY <1>0, <1>6 DEF Halt, NodesTypeOK, EmptyCaches
  <2>3. \A u \in Threads : pc'[u] = "post" => UsesSlot(u)'
    BY DEF UsesSlot
  <2>4. \A k \in Nodes : \A p \in Providers : \A i \in Idents : i >= ident'[k][p] => cache'[k][p][i] = NoMsg
    BY <2>2 DEF CacheHolds
  <2>5. \A u \in Threads : UsesSlot(u)' => cache'[u[1]] = cache[u[1]]
    BY <2>1, <2>2, ThreadNode
  <2>6. \A f \in inflight' : f \in inflight /\ cache'[f.node] = cache[f.node]
    BY <1>0, <2>2 DEF NodesTypeOK, Posts
  <2> QED BY <2>1, <2>3, <2>4, <2>5, <2>6 DEF CacheHolds, Lookup
<1>7. CASE UNCHANGED <<storeVars, ident, cache, inflight, pc, locals>>
  BY <1>7 DEF locals, CacheHolds, UsesSlot, Lookup
<1>8. ASSUME NEW f \in inflight, NEW l \in {"sent", "drop", "mark"}, Answered(f, l)
      PROVE  CacheHolds'
  <2>1. Main(f.node) \in Threads
    BY <1>0, MainIsThread DEF NodesTypeOK, Posts
  <2> QED BY <1>1, <1>8, <2>1, SlotCalmSteps
<1>9. ASSUME NEW t \in Threads, TakeFailed(t) \/ GiveUp(t) \/ Drop(t) \/ MarkFailed(t)
      PROVE  CacheHolds'
  BY <1>1, <1>9, SlotCalmSteps
<1> QED BY StepCases, <1>1, <1>2, <1>3, <1>4, <1>5, <1>6, <1>7, <1>8, <1>9

(***************************************************************************)
(* Messages known to threads, posts and sets                               *)
(***************************************************************************)

\* IssuedFirst, Resting and ProviderAgrees, thread by thread and the rest.
Linked(t) ==
    /\ Resting(t)
    /\ ProviderOK(t)
    /\ cur[t] # NoMsg => cur[t] \in issued
    /\ todo[t] \subseteq issued

Known ==
    /\ \A m \in Msgs : HasRecord(m) \/ tries[m] > 0 => m \in issued
    /\ \A p \in Providers : failed[p] \subseteq issued
    /\ \A f \in inflight : f.msg \in issued /\ type[f.msg] = f.prov

Links == Known /\ \A t \in Threads : Linked(t)

\* They say the same.
LEMMA LinksMeaning ==
    Links <=> IssuedFirst /\ (\A t \in Threads : Resting(t)) /\ ProviderAgrees
BY DEF Links, Known, Linked, IssuedFirst, ProviderAgrees

\* Records change only by being written for a new message or dropped.
RecordsKept ==
    /\ issued \subseteq issued'
    /\ \A m \in issued : type'[m] = type[m] \/ type'[m] = NoType

\* So the other threads keep their links.
LEMMA OthersLinked ==
    ASSUME \A u \in Threads : Linked(u), RecordsKept, NEW t \in Threads, Alone(t), Linked(t)'
    PROVE  \A u \in Threads : Linked(u)'
<1>1. ASSUME NEW u \in Threads \ {t} PROVE Linked(u)'
  <2>1. pc'[u] = pc[u] /\ cur'[u] = cur[u] /\ prov'[u] = prov[u] /\ todo'[u] = todo[u]
    BY DEF Alone
  <2>2. Resting(u)'
    BY <2>1 DEF Linked, Resting
  <2>3. ProviderOK(u)'
    BY <2>1 DEF Linked, ProviderOK, RecordsKept, HasRecord, IsMain
  <2> QED BY <2>1, <2>2, <2>3 DEF Linked, RecordsKept
<1> QED BY <1>1

\* What is gone from a set or answered, and what stays, is still known.
LEMMA KnownKeeps ==
    ASSUME Known, UNCHANGED <<issued, type, tries>>, inflight' \subseteq inflight,
           \A p \in Providers : failed'[p] \subseteq failed[p]
    PROVE  Known' /\ RecordsKept
BY DEF Known, HasRecord, RecordsKept

\* A thread that has come to rest, or to its next message, is linked.
LEMMA RestLinked ==
    ASSUME NEW t \in Threads, Linked(t), RecordsKept,
           AtRest(t) \/ (pc'[t] = "next" /\ cur'[t] = NoMsg /\ todo'[t] = todo[t] /\ prov'[t] = prov[t])
    PROVE  Linked(t)'
<1>1. CASE AtRest(t)
  BY <1>1 DEF AtRest, Linked, Resting, ProviderOK
<1>2. CASE pc'[t] = "next" /\ cur'[t] = NoMsg /\ todo'[t] = todo[t] /\ prov'[t] = prov[t]
  <2>1. IsMain(t) => \A m \in todo'[t] : HasRecord(m)' => type'[m] = prov'[t]
    BY <1>2 DEF Linked, ProviderOK, RecordsKept, HasRecord
  <2> QED BY <1>2, <2>1 DEF Linked, Resting, ProviderOK, RecordsKept, ListPcs, IsMain
<1> QED BY <1>1, <1>2

\* A thread that goes on with what it has is linked.
LEMMA GotoLinked ==
    ASSUME NEW t \in Threads, Linked(t), RecordsKept, cur' = cur, prov' = prov, todo' = todo,
           NEW l \in Pcs \ {"idle", "unwind"}, pc'[t] = l,
           l \in {"write"} \cup ListPcs => cur[t] = NoMsg
    PROVE  Linked(t)'
<1>1. ProviderOK(t)'
  BY DEF Linked, ProviderOK, RecordsKept, HasRecord, IsMain
<1> QED BY <1>1 DEF Linked, Resting, RecordsKept

\* The steps of a thread inside its handler that write nothing but its own variables.
LEMMA ReadersLinked ==
    ASSUME TypeOK, Links, Owners, NEW t \in Threads,
           \/ \E p \in Providers : StartPush(t, p)
           \/ \E S \in SUBSET Msgs : StartRedeliver(t, S)
           \/ NextRequested(t) \/ ListFailed(t) \/ ReadListed(t) \/ NextListed(t)
    PROVE  Linked(t)'
<1> USE PushyAssumption DEF storeVars, ListPcs, PushPcs, TakePcs, CallbackPcs, Pcs
<1>0. ThreadsTypeOK /\ Linked(t) /\ UNCHANGED <<issued, type>>
  BY DEF TypeOK, Links, StartPush, StartRedeliver, NextRequested, ListFailed, ReadListed, NextListed
<1>1. RecordsKept
  BY <1>0 DEF RecordsKept
<1>2. CASE Finish(t) \/ Throw(t)
  BY <1>0, <1>1, <1>2, EndEffect, RestLinked
<1>3. ASSUME NEW p \in Providers, StartPush(t, p) PROVE Linked(t)'
  <2>1. /\ pc'[t] \in {"write", "ident"} /\ cur' = cur /\ todo' = todo /\ ~ IsMain(t)
        /\ cur[t] = NoMsg
    BY <1>0, <1>3 DEF StartPush, ThreadsTypeOK, Linked, Resting
  <2> QED BY <1>0, <2>1 DEF Linked, Resting, ProviderOK, IsMain
<1>4. ASSUME NEW S \in SUBSET Msgs, StartRedeliver(t, S) PROVE Linked(t)'
  <2>1. pc'[t] = "next" /\ cur' = cur /\ todo'[t] = S /\ ~ IsMain(t) /\ cur[t] = NoMsg /\ S \subseteq issued
    BY <1>0, <1>4 DEF StartRedeliver, ThreadsTypeOK, Linked, Resting, Links, Known
  <2> QED BY <1>0, <2>1 DEF Linked, Resting, ProviderOK, IsMain
<1>5. CASE NextRequested(t) /\ ~ Throw(t)
  <2>1. PICK m \in todo[t] :
            /\ pc'[t] = "check" /\ cur'[t] = m /\ prov'[t] = type[m] /\ todo'[t] = todo[t] \ {m}
            /\ ~ IsMain(t)
    BY <1>0, <1>5 DEF NextRequested, ThreadsTypeOK
  <2> QED BY <1>0, <2>1 DEF Linked, Resting, ProviderOK, IsMain, HasRecord
<1>6. CASE ListFailed(t)
  <2>1. prov[t] \in Providers
    BY <1>6 DEF TypeOK, WorkOK, ListFailed
  <2>2. pc'[t] = "read" /\ cur' = cur /\ prov' = prov /\ todo'[t] = failed[prov[t]] /\ cur[t] = NoMsg
    BY <1>0, <1>6 DEF ListFailed, ThreadsTypeOK, Linked, Resting
  <2>3. \A m \in todo'[t] : m \in issued /\ type[m] = prov[t]
    BY <2>1, <2>2 DEF Links, Known, Owners, FailedIsLive
  <2> QED BY <1>0, <2>2, <2>3 DEF Linked, Resting, ProviderOK, IsMain
<1>7. CASE ReadListed(t) /\ ~ Throw(t)
  <2>1. cur' = cur /\ prov' = prov /\ todo' = todo /\ pc'[t] \in {"read", "next"} /\ cur[t] = NoMsg
    BY <1>0, <1>7 DEF ReadListed, Goto, locals, ThreadsTypeOK, Linked, Resting
  <2> QED BY <1>0, <1>1, <2>1, GotoLinked
<1>8. CASE NextListed(t) /\ ~ Finish(t)
  <2>1. ASSUME NEW m \in todo[t], pc'[t] = "check", cur'[t] = m, todo'[t] = todo[t] \ {m}, prov' = prov, IsMain(t)
        PROVE  Linked(t)'
    BY <1>0, <2>1 DEF Linked, Resting, ProviderOK, IsMain, HasRecord
  <2>2. ASSUME todo[t] = {}, pc'[t] = "list", cur' = cur, todo' = todo
        PROVE  Linked(t)'
    <3>1. cur[t] = NoMsg
      BY <1>0, <1>8 DEF NextListed, Linked, Resting
    <3> QED BY <1>0, <2>2, <3>1 DEF Linked, Resting, ProviderOK
  <2> QED BY <1>0, <1>8, <2>1, <2>2 DEF NextListed, ThreadsTypeOK
<1> QED BY <1>2, <1>3, <1>4, <1>5, <1>6, <1>7, <1>8

\* Every step keeps the links.
LEMMA LinksNext ==
    ASSUME TypeOK, Links, Owners, CacheHolds, [Next]_vars
    PROVE  Links'
<1> USE PushyAssumption
<1>0. ThreadsTypeOK /\ NodesTypeOK /\ StoreTypeOK /\ \A t \in Threads : WorkOK(t) /\ Linked(t)
  BY DEF TypeOK, Links
<1>1. ASSUME NEW t \in Threads, Alone(t), Linked(t)', RecordsKept, Known' PROVE Links'
  BY <1>0, <1>1, OthersLinked DEF Links
<1>2. ASSUME UNCHANGED <<issued, type, tries>>, inflight' \subseteq inflight,
             \A p \in Providers : failed'[p] \subseteq failed[p]
      PROVE  Known' /\ RecordsKept
  BY <1>2, KnownKeeps DEF Links
<1>3. ASSUME NEW t \in Threads,
             \/ \E p \in Providers : StartPush(t, p)
             \/ \E S \in SUBSET Msgs : StartRedeliver(t, S)
             \/ NextRequested(t) \/ ListFailed(t) \/ ReadListed(t) \/ NextListed(t)
      PROVE  Links'
  <2>1. Linked(t)'
    BY <1>3, ReadersLinked
  <2>2. Alone(t)
    BY <1>0, <1>3, CalmSteps DEF SlotCalm, Linked
  <2>3. UNCHANGED <<storeVars, inflight, tries>>
    BY <1>3 DEF StartPush, StartRedeliver, NextRequested, ListFailed, ReadListed, NextListed, nodeVars, history
  <2> QED BY <1>1, <1>2, <2>1, <2>2, <2>3 DEF storeVars
<1>4. ASSUME NEW t \in Threads, PushWrite(t) PROVE Links'
  <2>1. PICK m \in Msgs \ issued :
            /\ issued' = issued \cup {m} /\ type' = [type EXCEPT ![m] = prov[t]]
            /\ cur' = [cur EXCEPT ![t] = m]
    BY <1>4 DEF PushWrite, WriteRecord
  <2>2. /\ pc'[t] \in {"ident", "insert"} /\ prov' = prov /\ todo' = todo /\ Alone(t)
        /\ failed' = failed /\ inflight' = inflight /\ tries' = tries
    BY <1>0, <1>4 DEF PushWrite, WriteRecord, Alone, ThreadsTypeOK, nodeVars, history
  <2>3. \A k \in Msgs \ {m} : type'[k] = type[k]
    BY <1>0, <2>1 DEF StoreTypeOK
  <2>4. RecordsKept
    BY <1>0, <2>1, <2>3 DEF RecordsKept, StoreTypeOK
  <2>5. Known'
    <3>1. \A f \in inflight : f.msg \in issued \ {m} /\ f.msg \in Msgs
      BY <1>0, <2>1 DEF Links, Known, NodesTypeOK, Posts
    <3> QED BY <2>1, <2>2, <2>3, <3>1 DEF Links, Known, HasRecord
  <2>6. Linked(t)'
    <3>1. cur'[t] = m /\ type'[m] = prov[t]
      BY <1>0, <2>1 DEF ThreadsTypeOK, StoreTypeOK
    <3>2. \A k \in todo[t] : k \in issued /\ type'[k] = type[k]
      BY <1>0, <2>1, <2>3 DEF Linked, ThreadsTypeOK
    <3>3. ProviderOK(t)'
      BY <1>0, <2>2, <3>1, <3>2 DEF Linked, ProviderOK, HasRecord, IsMain
    <3> QED BY <1>0, <2>1, <2>2, <3>1, <3>3 DEF Linked, Resting, ListPcs
  <2> QED BY <1>1, <2>2, <2>4, <2>5, <2>6
<1>5. ASSUME NEW t \in Threads, TakeIdent(t) PROVE Links'
  <2>1. Alone(t) /\ cur' = cur /\ prov' = prov /\ todo' = todo /\ pc'[t] \in {"write", "insert"}
        /\ (pc'[t] = "write" <=> cur[t] = NoMsg)
    BY <1>5, TakeIdentEffect
  <2>2. Known' /\ RecordsKept
    BY <1>2, <1>5 DEF TakeIdent, storeVars, history
  <2>3. Linked(t)'
    BY <1>0, <2>1, <2>2, GotoLinked DEF Pcs, PushPcs, ListPcs
  <2> QED BY <1>1, <2>1, <2>2, <2>3
<1>6. ASSUME NEW t \in Threads,
             NEW l \in {"post", "srem", "drop", "sadd", "gcheck", "gsrem", "ident", "logperm", "incr", "logfail"},
             Goto(t, l), Known', RecordsKept
      PROVE  Links'
  <2>1. Alone(t) /\ cur' = cur /\ prov' = prov /\ todo' = todo /\ pc'[t] = l
    BY <1>0, <1>6, GotoEffect DEF Pcs, PushPcs, TakePcs, CallbackPcs
  <2>2. Linked(t)'
    BY <1>0, <1>6, <2>1, GotoLinked DEF Pcs, PushPcs, TakePcs, CallbackPcs, ListPcs
  <2> QED BY <1>1, <1>6, <2>1, <2>2
<1>7. ASSUME NEW t \in Threads, Finish(t) \/ Throw(t) \/ Proceed(t), Known', RecordsKept PROVE Links'
  <2>1. Alone(t) /\ Linked(t)'
    BY <1>0, <1>7, EndEffect, ProceedEffect, RestLinked
  <2> QED BY <1>1, <1>7, <2>1
<1>8. ASSUME NEW t \in Threads, CacheInsert(t) PROVE Links'
  BY <1>2, <1>6, <1>8 DEF CacheInsert, storeVars, history
<1>9. ASSUME NEW t \in Threads, Post(t) PROVE Links'
  <2> DEFINE f == [node |-> t[1], prov |-> prov[t], ident |-> slot[t], msg |-> cur[t]]
  <2>1. cur[t] \in Msgs /\ pc[t] = "post" /\ Holds(t, cur[t])
    BY <1>0, <1>9 DEF Post, WorkOK, Holds, OwnerPcs
  <2>2. HasRecord(cur[t]) /\ type[cur[t]] = prov[t] /\ cur[t] \in issued
    BY <1>0, <2>1 DEF Owners, OwnerFindsRecord, Held, Linked, ProviderOK, Links, Known
  <2>3. UNCHANGED storeVars /\ inflight' = inflight \cup {f} /\ tries' = [tries EXCEPT ![cur[t]] = @ + 1]
    BY <1>9 DEF Post
  <2>4. \A m \in Msgs \ {cur[t]} : tries'[m] = tries[m]
    BY <2>3 DEF TypeOK, HistoryTypeOK
  <2>5. Known' /\ RecordsKept
    BY <2>2, <2>3, <2>4 DEF storeVars, Links, Known, HasRecord, RecordsKept
  <2> QED BY <1>7, <1>9, <2>5 DEF Post
<1>10. ASSUME NEW t \in Threads,
              \/ CheckFailed(t) \/ LogSettled(t) \/ MarkRead(t) \/ CountFailure(t)
              \/ GiveUpCheck(t) \/ LogFailure(t) \/ RedisFails(t)
       PROVE  Links'
  <2>1. Known' /\ RecordsKept
    <3>1. UNCHANGED <<issued, type, failed, tries, inflight>>
      BY <1>10 DEF CheckFailed, LogSettled, MarkRead, CountFailure, CountAttempt, GiveUpCheck, LogFailure,
                   RedisFails, storeVars, nodeVars, history
    <3> QED BY <1>2, <3>1
  <2>2. \/ \E l \in {"srem", "drop", "sadd", "gcheck", "gsrem", "logfail"} : Goto(t, l)
        \/ Finish(t) \/ Throw(t)
    BY <1>10 DEF CheckFailed, LogSettled, MarkRead, CountFailure, GiveUpCheck, LogFailure, RedisFails
  <2> QED BY <1>6, <1>7, <2>1, <2>2
<1>11. ASSUME NEW t \in Threads, TakeFailed(t) \/ GiveUp(t) PROVE Links'
  <2>1. \A p \in Providers : failed'[p] \subseteq failed[p]
    BY <1>0, <1>11 DEF TakeFailed, GiveUp, RemoveFailed, StoreTypeOK
  <2>2. Known' /\ RecordsKept
    BY <1>2, <1>11, <2>1 DEF TakeFailed, GiveUp, RemoveFailed, nodeVars, history
  <2>3. (\E l \in {"ident", "logperm", "drop"} : Goto(t, l)) \/ Finish(t) \/ Proceed(t)
    BY <1>11 DEF TakeFailed, GiveUp
  <2> QED BY <1>6, <1>7, <2>2, <2>3
<1>12. ASSUME NEW t \in Threads, Drop(t) PROVE Links'
  <2>1. cur[t] \in Msgs /\ Holds(t, cur[t])
    BY <1>0, <1>12 DEF Drop, WorkOK, Holds, OwnerPcs, CallbackPcs
  <2>2. \A f \in inflight : f.msg # cur[t]
    BY <2>1 DEF Owners, SingleOwner, Held, Posted
  <2>3. /\ UNCHANGED <<issued, failed, inflight, tries>>
        /\ \A m \in Msgs \ {cur[t]} : type'[m] = type[m]
        /\ type'[cur[t]] = NoType
    BY <1>0, <1>12, <2>1 DEF Drop, DropRecord, StoreTypeOK, nodeVars, history
  <2>4. RecordsKept
    BY <1>0, <2>3 DEF RecordsKept, StoreTypeOK
  <2>5. Known'
    BY <1>0, <2>2, <2>3 DEF Links, Known, HasRecord, NodesTypeOK, Posts
  <2> QED BY <1>7, <1>12, <2>4, <2>5 DEF Drop
<1>13. ASSUME NEW t \in Threads, MarkFailed(t) PROVE Links'
  <2>1. cur[t] \in Msgs /\ cur[t] \in issued
    BY <1>0, <1>13 DEF MarkFailed, WorkOK, Linked, CallbackPcs
  <2>2. UNCHANGED <<issued, type, inflight, tries>> /\ \A p \in Providers : failed'[p] \subseteq failed[p] \cup {cur[t]}
    BY <1>0, <1>13 DEF MarkFailed, AddFailed, StoreTypeOK, nodeVars, history
  <2>3. Known' /\ RecordsKept
    BY <2>1, <2>2 DEF Links, Known, HasRecord, RecordsKept
  <2> QED BY <1>6, <1>13, <2>3 DEF MarkFailed
<1>14. ASSUME NEW n \in Nodes, TimerFires(n) PROVE Links'
  <2> DEFINE t == Main(n)
  <2>1. t \in Threads
    BY MainIsThread
  <2>2. Alone(t) /\ pc'[t] = "list" /\ cur' = cur /\ todo' = todo /\ cur[t] = NoMsg /\ todo[t] = {}
    BY <1>0, <1>14, <2>1 DEF TimerFires, Alone, ThreadsTypeOK, Linked, Resting
  <2>3. Known' /\ RecordsKept
    BY <1>2, <1>14 DEF TimerFires, storeVars, nodeVars, history
  <2>4. Linked(t)'
    BY <2>2 DEF Linked, Resting, ProviderOK
  <2> QED BY <1>1, <2>1, <2>2, <2>3, <2>4
<1>15. ASSUME NEW f \in inflight, UnknownIdent(f) PROVE Links'
  <2>1. Main(f.node) \in Threads
    BY <1>0, MainIsThread DEF NodesTypeOK, Posts
  <2>2. Known' /\ RecordsKept
    BY <1>2, <1>15 DEF UnknownIdent, storeVars, history
  <2> QED BY <1>7, <1>15, <2>1, <2>2 DEF UnknownIdent
<1>16. ASSUME NEW f \in inflight, NEW l \in {"sent", "drop", "mark"}, Answered(f, l) PROVE Links'
  <2> DEFINE t == Main(f.node)
  <2>1. t \in Threads
    BY <1>0, MainIsThread DEF NodesTypeOK, Posts
  <2>2. Lookup(f) = f.msg /\ f.msg \in issued /\ type[f.msg] = f.prov
    BY <1>16 DEF Answered, CacheHolds, CellOK, Links, Known
  <2>3. Alone(t) /\ pc'[t] = l /\ cur'[t] = f.msg /\ prov'[t] = f.prov /\ todo' = todo /\ todo[t] = {}
    BY <1>0, <1>16, <2>1, <2>2 DEF Answered, Alone, ThreadsTypeOK, Linked, Resting
  <2>4. Known' /\ RecordsKept /\ UNCHANGED <<issued, type>>
    BY <1>2, <1>16 DEF Answered, storeVars, history
  <2>5. Linked(t)'
    BY <2>2, <2>3, <2>4 DEF Linked, Resting, ProviderOK, ListPcs
  <2> QED BY <1>1, <2>1, <2>3, <2>4, <2>5
<1>17. ASSUME NEW n \in Nodes, Halt(n), UNCHANGED <<storeVars, tries>> PROVE Links'
  <2>1. Known' /\ RecordsKept
    BY <1>2, <1>17 DEF Halt, storeVars
  <2>2. ASSUME NEW u \in Threads PROVE Linked(u)'
    <3>1. CASE u[1] = n
      BY <1>0, <1>17, <2>1, <3>1, HaltEffect, RestLinked
    <3>2. CASE u[1] # n
      <4>1. pc'[u] = pc[u] /\ cur'[u] = cur[u] /\ prov'[u] = prov[u] /\ todo'[u] = todo[u]
        BY <1>0, <1>17, <3>2, HaltEffect
      <4> QED BY <1>0, <1>17, <4>1 DEF Linked, Resting, ProviderOK, HasRecord, IsMain, storeVars
    <3> QED BY <3>1, <3>2
  <2> QED BY <2>1, <2>2 DEF Links
<1>18. ASSUME UNCHANGED <<storeVars, inflight, tries, pc, cur, prov, todo>> PROVE Links'
  BY <1>18 DEF storeVars, Links, Known, Linked, Resting, ProviderOK, HasRecord
<1>19. ASSUME NEW t \in Threads, MapCrash(t) \/ PostUnconfigured(t) PROVE Links'
  BY <1>17, <1>19, ThreadNode DEF MapCrash, PostUnconfigured, history
<1>20. ASSUME NEW n \in Nodes, NodeExit(n) \/ Crash(n) PROVE Links'
  BY <1>17, <1>20 DEF NodeExit, Crash, history
<1>21. ASSUME (\E n \in Nodes : Restart(n)) \/ UNCHANGED vars PROVE Links'
  BY <1>18, <1>21 DEF Restart, vars, nodeVars, locals, history
<1> QED
  BY <1>3, <1>4, <1>5, <1>8, <1>9, <1>10, <1>11, <1>12, <1>13, <1>14, <1>15, <1>16, <1>19, <1>20, <1>21
  DEF Next, ThreadStep, Answer, Delivered, Refused

(***************************************************************************)
(* Owners                                                                  *)
(***************************************************************************)

\* Every step keeps the owners: a message passes from one hand to the next.
LEMMA OwnersNext ==
    ASSUME TypeOK, Links, Owners, CacheHolds, [Next]_vars
    PROVE  Owners'
<1> USE PushyAssumption
<1>0. /\ ThreadsTypeOK /\ NodesTypeOK /\ StoreTypeOK
      /\ \A t \in Threads : WorkOK(t) /\ Linked(t) /\ Resting(t)
  BY DEF TypeOK, Links, Linked
<1>1. ASSUME NEW t \in Threads, OwnerCalm(t) PROVE Owners'
  BY <1>1, OwnerCalmKeeps
<1>2. ASSUME NEW t \in Threads, PushWrite(t) PROVE Owners'
  <2>1. PICK m \in Msgs \ issued :
            issued' = issued \cup {m} /\ type' = [type EXCEPT ![m] = prov[t]] /\ cur' = [cur EXCEPT ![t] = m]
    BY <1>2 DEF PushWrite, WriteRecord
  <2>2. Alone(t) /\ failed' = failed /\ inflight' = inflight /\ cur'[t] = m
    BY <1>0, <1>2, <2>1 DEF PushWrite, WriteRecord, Alone, ThreadsTypeOK, nodeVars
  <2>3. prov[t] \in Providers
    BY <1>0, <1>2 DEF PushWrite, WorkOK
  <2>4. /\ \A k \in Msgs \ {m} : type'[k] = type[k]
        /\ type'[m] = prov[t]
    BY <1>0, <2>1 DEF StoreTypeOK
  <2>5. ~ Held(m) /\ ~ Posted(m) /\ ~ InSomeSet(m)
    BY <1>0, <2>1 DEF Held, Holds, Posted, InSomeSet, Linked, Links, Known
  <2>6. \A u \in Threads : \A k \in Msgs : Holds(u, k)' => (u = t /\ k = m) \/ (k # m /\ Holds(u, k))
    BY <2>2, <2>5 DEF Alone, Holds, Held
  <2>7. \A k \in Msgs : (Held(k)' => k = m \/ Held(k)) /\ (Posted(k)' <=> Posted(k)) /\ (InSomeSet(k)' <=> InSomeSet(k))
    BY <2>2, <2>6 DEF Held, Posted, InSomeSet
  <2>8. SingleOwner'
    BY <2>2, <2>5, <2>6, <2>7 DEF Owners, SingleOwner
  <2>9. OwnerFindsRecord'
    BY <2>3, <2>4, <2>7 DEF Owners, OwnerFindsRecord, HasRecord, Providers, NoType
  <2>10. FailedIsLive'
    BY <1>0, <2>2, <2>4, <2>5 DEF Owners, FailedIsLive, InSomeSet, StoreTypeOK
  <2> QED BY <2>8, <2>9, <2>10 DEF Owners
<1>3. ASSUME NEW t \in Threads, TakeIdent(t) PROVE Owners'
  <2>1. Alone(t) /\ cur' = cur /\ inflight' = inflight /\ pc'[t] \in {"write", "insert"}
        /\ (pc'[t] = "write" <=> cur[t] = NoMsg) /\ pc[t] = "ident"
    BY <1>3, TakeIdentEffect DEF TakeIdent
  <2>2. OwnerCalm(t)
    BY <1>3, <2>1 DEF OwnerCalm, TakeIdent, storeVars, Holds, OwnerPcs
  <2> QED BY <1>1, <2>2
<1>4. ASSUME NEW t \in Threads, CacheInsert(t) PROVE Owners'
  <2>1. Alone(t) /\ cur' = cur /\ inflight' = inflight /\ pc[t] = "insert"
    BY <1>0, <1>4, GotoEffect DEF CacheInsert, Pcs, PushPcs
  <2>2. OwnerCalm(t)
    BY <1>4, <2>1 DEF OwnerCalm, CacheInsert, storeVars, Holds, OwnerPcs
  <2> QED BY <1>1, <2>2
<1>5. ASSUME NEW t \in Threads, Post(t) PROVE Owners'
  <2> DEFINE f == [node |-> t[1], prov |-> prov[t], ident |-> slot[t], msg |-> cur[t]]
  <2>1. cur[t] \in Msgs /\ Holds(t, cur[t])
    BY <1>0, <1>5 DEF Post, WorkOK, Holds, OwnerPcs
  <2>2. Alone(t) /\ \A m \in Msgs : ~ Holds(t, m)'
    BY <1>0, <1>5, ProceedEffect DEF Post, AtRest, Holds, OwnerPcs
  <2>3. UNCHANGED <<type, failed>> /\ inflight' = inflight \cup {f} /\ f.msg = cur[t]
    BY <1>5 DEF Post, storeVars
  <2>4. Held(cur[t]) /\ ~ Posted(cur[t]) /\ ~ InSomeSet(cur[t]) /\ HasRecord(cur[t])
    BY <2>1 DEF Owners, SingleOwner, OwnerFindsRecord, Held
  <2>5. \A u \in Threads : \A m \in Msgs : Holds(u, m)' => Holds(u, m) /\ m # cur[t]
    BY <2>1, <2>2 DEF Alone, Holds, Owners, SingleOwner
  <2>6. \A m \in Msgs : /\ Held(m)' => Held(m) /\ m # cur[t]
                        /\ Posted(m)' => Posted(m) \/ m = cur[t]
                        /\ InSomeSet(m)' <=> InSomeSet(m)
    BY <2>3, <2>5 DEF Held, Posted, InSomeSet
  <2>7. \A g, h \in inflight' : g.msg = h.msg => g = h
    BY <2>3, <2>4 DEF Owners, SingleOwner, Posted
  <2>8. SingleOwner'
    BY <2>3, <2>4, <2>5, <2>6, <2>7 DEF Owners, SingleOwner
  <2>9. OwnerFindsRecord' /\ FailedIsLive'
    BY <2>3, <2>4, <2>6 DEF Owners, OwnerFindsRecord, FailedIsLive, HasRecord
  <2> QED BY <2>8, <2>9 DEF Owners
<1>6. ASSUME NEW t \in Threads, Drop(t) PROVE Owners'
  <2>1. cur[t] \in Msgs /\ Holds(t, cur[t])
    BY <1>0, <1>6 DEF Drop, WorkOK, Holds, OwnerPcs, CallbackPcs
  <2>2. Alone(t) /\ \A m \in Msgs : ~ Holds(t, m)'
    BY <1>0, <1>6, EndEffect, EndCalm DEF Drop
  <2>3. /\ UNCHANGED <<failed, inflight>>
        /\ \A m \in Msgs \ {cur[t]} : type'[m] = type[m]
    BY <1>0, <1>6, <2>1 DEF Drop, DropRecord, StoreTypeOK, nodeVars
  <2>4. ~ Posted(cur[t]) /\ ~ InSomeSet(cur[t])
    BY <2>1 DEF Owners, SingleOwner, Held
  <2>5. \A u \in Threads : \A m \in Msgs : Holds(u, m)' => Holds(u, m) /\ m # cur[t]
    BY <2>1, <2>2 DEF Alone, Holds, Owners, SingleOwner
  <2>6. \A m \in Msgs : /\ Held(m)' => Held(m) /\ m # cur[t]
                        /\ Posted(m)' <=> Posted(m)
                        /\ InSomeSet(m)' <=> InSomeSet(m)
    BY <2>3, <2>5 DEF Held, Posted, InSomeSet
  <2>7. SingleOwner'
    BY <2>3, <2>5, <2>6 DEF Owners, SingleOwner
  <2>8. OwnerFindsRecord'
    BY <2>3, <2>4, <2>6 DEF Owners, OwnerFindsRecord, HasRecord
  <2>9. FailedIsLive'
    BY <1>0, <2>3, <2>4 DEF Owners, FailedIsLive, InSomeSet, StoreTypeOK
  <2> QED BY <2>7, <2>8, <2>9 DEF Owners
<1>7. ASSUME NEW t \in Threads, MarkFailed(t) PROVE Owners'
  <2>1. cur[t] \in Msgs /\ Holds(t, cur[t]) /\ prov[t] \in Providers
    BY <1>0, <1>7 DEF MarkFailed, WorkOK, Holds, OwnerPcs, CallbackPcs
  <2>2. Alone(t) /\ \A m \in Msgs : ~ Holds(t, m)'
    BY <1>0, <1>7, GotoEffect DEF MarkFailed, Pcs, CallbackPcs, Holds, OwnerPcs
  <2>3. /\ UNCHANGED <<type, inflight>>
        /\ failed'[prov[t]] = failed[prov[t]] \cup {cur[t]}
        /\ \A p \in Providers \ {prov[t]} : failed'[p] = failed[p]
    BY <1>0, <1>7, <2>1 DEF MarkFailed, AddFailed, StoreTypeOK, nodeVars
  <2>4. ~ Posted(cur[t]) /\ ~ InSomeSet(cur[t]) /\ HasRecord(cur[t])
    BY <2>1 DEF Owners, SingleOwner, OwnerFindsRecord, Held
  <2>5. type[cur[t]] = prov[t]
    BY <1>0, <2>1, <2>4 DEF Linked, ProviderOK
  <2>6. \A u \in Threads : \A m \in Msgs : Holds(u, m)' => Holds(u, m) /\ m # cur[t]
    BY <2>1, <2>2 DEF Alone, Holds, Owners, SingleOwner
  <2>7. \A m \in Msgs : /\ Held(m)' => Held(m) /\ m # cur[t]
                        /\ Posted(m)' <=> Posted(m)
                        /\ InSomeSet(m)' => InSomeSet(m) \/ m = cur[t]
    BY <2>1, <2>3, <2>6 DEF Held, Posted, InSomeSet
  <2>8. \A p, q \in Providers : failed'[p] \cap failed'[q] # {} => p = q
    <3> SUFFICES ASSUME NEW p \in Providers, NEW q \in Providers, NEW m \in failed'[p] \cap failed'[q]
                 PROVE  p = q
      OBVIOUS
    <3>1. CASE m = cur[t]
      BY <2>1, <2>3, <2>4, <3>1 DEF InSomeSet
    <3>2. CASE m # cur[t]
      <4>1. m \in failed[p] /\ m \in failed[q]
        BY <2>1, <2>3, <3>2
      <4> QED BY <4>1 DEF Owners, SingleOwner
    <3> QED BY <3>1, <3>2
  <2>9. SingleOwner'
    BY <2>3, <2>4, <2>6, <2>7, <2>8 DEF Owners, SingleOwner
  <2>10. OwnerFindsRecord'
    BY <2>3, <2>7 DEF Owners, OwnerFindsRecord, HasRecord
  <2>11. FailedIsLive'
    BY <2>1, <2>3, <2>5 DEF Owners, FailedIsLive
  <2> QED BY <2>9, <2>10, <2>11 DEF Owners
<1>8. ASSUME NEW t \in Threads, TakeFailed(t) \/ GiveUp(t), InFailed(cur[t], prov[t]) PROVE Owners'
  <2>1. cur[t] \in Msgs /\ prov[t] \in Providers /\ cur[t] \in failed[prov[t]]
    BY <1>0, <1>8 DEF TakeFailed, GiveUp, WorkOK, TakePcs, CallbackPcs, InFailed
  <2>2. Alone(t) /\ cur' = cur
    BY <1>0, <1>8, GotoEffect DEF TakeFailed, GiveUp, Pcs, PushPcs, CallbackPcs
  <2>3. /\ UNCHANGED <<type, inflight>>
        /\ failed'[prov[t]] = failed[prov[t]] \ {cur[t]}
        /\ \A p \in Providers \ {prov[t]} : failed'[p] = failed[p]
    BY <1>0, <1>8, <2>1 DEF TakeFailed, GiveUp, RemoveFailed, StoreTypeOK, nodeVars
  <2>4. ~ Held(cur[t]) /\ ~ Posted(cur[t]) /\ HasRecord(cur[t])
    <3>1. InSomeSet(cur[t])
      BY <2>1 DEF InSomeSet
    <3>2. ~ Held(cur[t]) /\ ~ Posted(cur[t])
      BY <2>1, <3>1 DEF Owners, SingleOwner
    <3>3. HasRecord(cur[t])
      BY <2>1 DEF Owners, FailedIsLive, HasRecord, Providers, NoType
    <3> QED BY <3>2, <3>3
  <2>5. \A p \in Providers : cur[t] \notin failed'[p]
    BY <2>1, <2>3 DEF Owners, SingleOwner
  <2>6. \A u \in Threads : \A m \in Msgs :
            Holds(u, m)' => (u = t /\ m = cur[t]) \/ (m # cur[t] /\ Holds(u, m))
    BY <2>2, <2>4 DEF Alone, Holds, Held
  <2>7. \A p \in Providers : failed'[p] \subseteq failed[p]
    BY <2>3
  <2>8. \A m \in Msgs : /\ Held(m)' => Held(m) \/ m = cur[t]
                        /\ Posted(m)' <=> Posted(m)
                        /\ InSomeSet(m)' => InSomeSet(m) /\ m # cur[t]
    BY <2>3, <2>5, <2>6, <2>7 DEF Held, Posted, InSomeSet
  <2>9. SingleOwner'
    BY <2>3, <2>4, <2>6, <2>7, <2>8 DEF Owners, SingleOwner
  <2>10. OwnerFindsRecord'
    BY <2>3, <2>4, <2>8 DEF Owners, OwnerFindsRecord, HasRecord
  <2>11. FailedIsLive'
    BY <2>3, <2>7 DEF Owners, FailedIsLive
  <2> QED BY <2>9, <2>10, <2>11 DEF Owners
<1>9. ASSUME NEW f \in inflight, NEW l \in {"sent", "drop", "mark"}, Answered(f, l) PROVE Owners'
  <2> DEFINE t == Main(f.node)
  <2>1. t \in Threads /\ f.msg \in Msgs /\ Posted(f.msg)
    BY <1>0, MainIsThread DEF NodesTypeOK, Posts, Posted
  <2>2. Lookup(f) = f.msg
    BY <1>9 DEF Answered, CacheHolds, CellOK
  <2>3. Alone(t) /\ cur'[t] = f.msg /\ UNCHANGED <<type, failed>> /\ inflight' = inflight \ {f}
    BY <1>0, <1>9, <2>1, <2>2 DEF Answered, Alone, ThreadsTypeOK, storeVars
  <2>4. ~ Held(f.msg) /\ ~ InSomeSet(f.msg) /\ HasRecord(f.msg)
    BY <2>1 DEF Owners, SingleOwner, OwnerFindsRecord
  <2>5. ~ Posted(f.msg)'
    BY <2>3 DEF Owners, SingleOwner, Posted
  <2>6. \A u \in Threads : \A m \in Msgs :
            Holds(u, m)' => (u = t /\ m = f.msg) \/ (m # f.msg /\ Holds(u, m))
    BY <2>1, <2>3, <2>4 DEF Alone, Holds, Held
  <2>7. \A m \in Msgs : /\ Held(m)' => Held(m) \/ m = f.msg
                        /\ Posted(m)' => Posted(m) /\ m # f.msg
                        /\ InSomeSet(m)' <=> InSomeSet(m)
    BY <2>3, <2>5, <2>6 DEF Held, Posted, InSomeSet
  <2>8. SingleOwner'
    BY <2>3, <2>4, <2>5, <2>6, <2>7 DEF Owners, SingleOwner
  <2>9. OwnerFindsRecord' /\ FailedIsLive'
    BY <2>3, <2>4, <2>7 DEF Owners, OwnerFindsRecord, FailedIsLive, HasRecord
  <2> QED BY <2>8, <2>9 DEF Owners
<1>10. ASSUME NEW n \in Nodes, Halt(n), UNCHANGED storeVars PROVE Owners'
  <2>1. \A u \in Threads : \A m \in Msgs : Holds(u, m)' => Holds(u, m)
    BY <1>0, <1>10, HaltEffect DEF AtRest, Holds, OwnerPcs
  <2>2. UNCHANGED <<type, failed>> /\ inflight' \subseteq inflight
    BY <1>10 DEF Halt, storeVars
  <2>3. \A m \in Msgs : (Held(m)' => Held(m)) /\ (Posted(m)' => Posted(m)) /\ (InSomeSet(m)' <=> InSomeSet(m))
    BY <2>1, <2>2 DEF Held, Posted, InSomeSet
  <2>4. SingleOwner'
    BY <2>1, <2>2, <2>3 DEF Owners, SingleOwner
  <2>5. OwnerFindsRecord' /\ FailedIsLive'
    BY <2>2, <2>3 DEF Owners, OwnerFindsRecord, FailedIsLive, HasRecord
  <2> QED BY <2>4, <2>5 DEF Owners
<1>11. CASE UNCHANGED <<storeVars, ident, cache, inflight, pc, locals>>
  BY <1>11 DEF storeVars, locals, Owners, SingleOwner, OwnerFindsRecord, FailedIsLive, Held, Holds, Posted, InSomeSet,
               HasRecord
<1> QED BY StepCases, <1>0, <1>1, <1>2, <1>3, <1>4, <1>5, <1>6, <1>7, <1>8, <1>9, <1>10, <1>11

(***************************************************************************)
(* The theorems                                                            *)
(***************************************************************************)

\* Nobody has anything yet.
LEMMA OwnershipInit == Init => OwnershipInv
<1> SUFFICES ASSUME Init PROVE OwnershipInv
  OBVIOUS
<1>1. TypeOK
  BY TypeInit
<1> USE PushyAssumption DEF Init, StoreInit, Providers
<1>2. IssuedFirst /\ (\A t \in Threads : Resting(t)) /\ ProviderAgrees
  BY DEF IssuedFirst, HasRecord, Resting, ProviderAgrees, ProviderOK
<1>3. SlotsDistinct
  BY DEF SlotsDistinct, UsesSlot
<1>4. CacheHolds
  BY DEF CacheHolds, UsesSlot, EmptyCaches
<1>5. SingleOwner /\ OwnerFindsRecord /\ FailedIsLive
  BY DEF SingleOwner, OwnerFindsRecord, FailedIsLive, Held, Holds, OwnerPcs, Posted, InSomeSet
<1> QED BY <1>1, <1>2, <1>3, <1>4, <1>5 DEF OwnershipInv

\* Every step keeps the invariant.
LEMMA OwnershipNext == OwnershipInv /\ [Next]_vars => OwnershipInv'
<1> SUFFICES ASSUME OwnershipInv, [Next]_vars PROVE OwnershipInv'
  OBVIOUS
<1>1. TypeOK /\ Links /\ Owners /\ SlotsDistinct /\ CacheHolds /\ \A t \in Threads : Resting(t)
  BY LinksMeaning DEF OwnershipInv, Owners
<1>2. TypeOK'
  BY <1>1, TypeNext
<1>3. SlotsDistinct' /\ CacheHolds'
  BY <1>1, SlotsNext, CacheNext
<1>4. IssuedFirst' /\ (\A t \in Threads : Resting(t)') /\ ProviderAgrees'
  <2>1. Links'
    BY <1>1, LinksNext
  <2> QED BY <2>1 DEF Links, Known, Linked, IssuedFirst, ProviderAgrees
<1>5. Owners'
  BY <1>1, OwnersNext
<1> QED BY <1>2, <1>3, <1>4, <1>5 DEF OwnershipInv, Owners

\* Who owns a message, and all its owner relies on, is invariant: for any number of nodes,
\* workers and messages, any configuration, and whatever crashes, fails or races.
THEOREM OwnershipInvariant == Spec => []OwnershipInv
BY OwnershipInit, OwnershipNext, PTL DEF Spec

\* No message is worked on twice: remove_from_failed_messages hands it to one caller.
THEOREM SingleOwnerHolds == Spec => []SingleOwner
<1>1. OwnershipInv => SingleOwner
  BY DEF OwnershipInv
<1> QED BY <1>1, OwnershipInvariant, PTL

\* Whoever works on a message finds its record.
THEOREM OwnerFindsRecordHolds == Spec => []OwnerFindsRecord
<1>1. OwnershipInv => OwnerFindsRecord
  BY DEF OwnershipInv
<1> QED BY <1>1, OwnershipInvariant, PTL

\* The failed sets list messages that have a record, under the provider the record names.
THEOREM FailedIsLiveHolds == Spec => []FailedIsLive
<1>1. OwnershipInv => FailedIsLive
  BY DEF OwnershipInv
<1> QED BY <1>1, OwnershipInvariant, PTL

\* on_apns and on_gcm never take one message for another.
THEOREM CallbackMatchesHolds == Spec => []CallbackMatches
<1>1. OwnershipInv => CallbackMatches
  BY DEF OwnershipInv, CacheHolds, CellOK, CallbackMatches
<1> QED BY <1>1, OwnershipInvariant, PTL

=============================================================================
