------------------------- MODULE PushyDeliveryProofs -------------------------
(***************************************************************************)
(* How often a message is posted, for every value of the constants: the    *)
(* count in Redis never runs ahead of the posts, so that no message is     *)
(* given up on early; and, of a node by itself, no exception reaches its   *)
(* main loop, nothing is lost, and no message is posted beyond the limit.  *)
(***************************************************************************)
EXTENDS PushyLedgerProofs, FiniteSetTheorems

CountPcs == {"mark", "sadd", "incr"}
GivePcs == {"gcheck", "gsrem"}

(***************************************************************************)
(* NotGivenUpEarly                                                         *)
(***************************************************************************)

\* A step of thread t alone in which nobody is refused and nothing is posted or counted.
QuietStep(t) ==
    /\ \A u \in Threads \ {t} : pc'[u] = pc[u] /\ cur'[u] = cur[u]
    /\ tries' = tries
    /\ inflight' = inflight
    /\ \A m \in Msgs : attempts'[m] <= attempts[m]
    /\ pc'[t] \in CountPcs => pc[t] \in CountPcs /\ cur'[t] = cur[t]
    /\ pc'[t] \in GivePcs => pc[t] \in GivePcs /\ cur'[t] = cur[t]

\* The end of a handler is one.
LEMMA EndQuiet ==
    ASSUME TypeOK, NEW t \in Threads, Finish(t) \/ Throw(t), UNCHANGED <<attempts, inflight, tries>>
    PROVE  QuietStep(t)
BY EndEffect DEF TypeOK, StoreTypeOK, QuietStep, Alone, AtRest, CountPcs, GivePcs

\* A jump to a place that neither counts nor gives up, or goes on doing so.
LEMMA GotoQuiet ==
    ASSUME TypeOK, NEW t \in Threads, NEW l \in Pcs, Goto(t, l), UNCHANGED <<attempts, inflight, tries>>,
           l \in CountPcs => pc[t] \in CountPcs, l \in GivePcs => pc[t] \in GivePcs
    PROVE  QuietStep(t)
BY GotoEffect DEF TypeOK, StoreTypeOK, QuietStep, Alone

\* Most steps of threads are quiet.
LEMMA QuietSteps ==
    ASSUME TypeOK, NEW t \in Threads,
           \/ \E p \in Providers : StartPush(t, p)
           \/ \E S \in SUBSET Msgs : StartRedeliver(t, S)
           \/ ThreadStep(t) /\ ~ Fatal(t) /\ ~ Post(t) /\ ~ CountFailure(t)
           \/ RedisFails(t)
    PROVE  QuietStep(t)
<1>0. ThreadsTypeOK /\ StoreTypeOK
  BY DEF TypeOK
<1> USE DEF storeVars, nodeVars, history, CountPcs, GivePcs
<1>1. CASE \/ \E p \in Providers : StartPush(t, p)
           \/ \E S \in SUBSET Msgs : StartRedeliver(t, S)
           \/ PushWrite(t) \/ TakeIdent(t) \/ ListFailed(t)
  BY <1>0, <1>1
  DEF StartPush, StartRedeliver, PushWrite, WriteRecord, TakeIdent, ListFailed, QuietStep, ThreadsTypeOK, StoreTypeOK
<1>2. CASE CacheInsert(t)
  BY <1>2, GotoQuiet DEF CacheInsert, Pcs, PushPcs
<1>3. CASE NextRequested(t)
  <2>1. CASE Throw(t)
    BY <1>3, <2>1, EndQuiet DEF NextRequested
  <2>2. CASE ~ Throw(t)
    BY <1>0, <1>3, <2>2 DEF NextRequested, QuietStep, ThreadsTypeOK, StoreTypeOK
  <2> QED BY <2>1, <2>2
<1>4. CASE ReadListed(t)
  <2>1. CASE Throw(t)
    BY <1>4, <2>1, EndQuiet DEF ReadListed
  <2>2. CASE Goto(t, "next")
    BY <1>4, <2>2, GotoQuiet DEF ReadListed, Pcs, ListPcs
  <2>3. CASE ~ Throw(t) /\ ~ Goto(t, "next")
    BY <1>0, <1>4, <2>3 DEF ReadListed, QuietStep, ThreadsTypeOK, StoreTypeOK
  <2> QED BY <2>1, <2>2, <2>3
<1>5. CASE NextListed(t)
  <2>1. CASE Finish(t)
    BY <1>5, <2>1, EndQuiet DEF NextListed
  <2>2. CASE ~ Finish(t)
    BY <1>0, <1>5, <2>2 DEF NextListed, QuietStep, ThreadsTypeOK, StoreTypeOK
  <2> QED BY <2>1, <2>2
<1>6. CASE TakeFailed(t)
  <2>1. CASE Proceed(t)
    BY <1>0, <1>6, <2>1, ProceedEffect DEF TakeFailed, RemoveFailed, QuietStep, StoreTypeOK, Alone, AtRest
  <2>2. CASE Goto(t, "ident")
    BY <1>6, <2>2, GotoQuiet DEF TakeFailed, RemoveFailed, Pcs, PushPcs
  <2> QED BY <1>6, <2>1, <2>2 DEF TakeFailed
<1>7. CASE CheckFailed(t) \/ LogSettled(t) \/ MarkRead(t) \/ GiveUpCheck(t) \/ LogFailure(t)
  <2>1. CASE Finish(t) \/ Throw(t)
    BY <1>7, <2>1, EndQuiet DEF CheckFailed, LogSettled, MarkRead, GiveUpCheck, LogFailure
  <2>2. CASE ~ (Finish(t) \/ Throw(t))
    <3>1. PICK l \in {"srem", "drop", "sadd", "gsrem"} :
             Goto(t, l) /\ (l = "sadd" => pc[t] = "mark") /\ (l = "gsrem" => pc[t] = "gcheck")
      BY <1>7, <2>2 DEF CheckFailed, LogSettled, MarkRead, GiveUpCheck, LogFailure
    <3> QED
      BY <1>7, <3>1, GotoQuiet
      DEF CheckFailed, LogSettled, MarkRead, GiveUpCheck, LogFailure, Pcs, TakePcs, CallbackPcs
  <2> QED BY <2>1, <2>2
<1>8. CASE Drop(t)
  BY <1>0, <1>8, EndEffect DEF Drop, DropRecord, QuietStep, StoreTypeOK, Alone, AtRest
<1>9. CASE MarkFailed(t)
  BY <1>9, GotoQuiet DEF MarkFailed, AddFailed, Pcs, CallbackPcs
<1>10. CASE GiveUp(t)
  <2>1. CASE Finish(t)
    BY <1>10, <2>1, EndQuiet DEF GiveUp, RemoveFailed
  <2>2. ASSUME NEW l \in {"logperm", "drop"}, Goto(t, l) PROVE QuietStep(t)
    BY <1>10, <2>2, GotoQuiet DEF GiveUp, RemoveFailed, Pcs, CallbackPcs
  <2> QED BY <1>10, <2>1, <2>2 DEF GiveUp
<1>11. CASE RedisFails(t)
  BY <1>11, EndQuiet DEF RedisFails
<1> QED
  BY <1>1, <1>2, <1>3, <1>4, <1>5, <1>6, <1>7, <1>8, <1>9, <1>10, <1>11 DEF ThreadStep, Fatal

\* What keeps CountedOnce: no more callbacks or posts, and no fewer posts counted.
CountCalm ==
    \A m \in Msgs :
        /\ Counting(m)' \subseteq Counting(m)
        /\ attempts'[m] <= attempts[m]
        /\ tries[m] <= tries'[m]
        /\ Posted(m)' => Posted(m)

\* Uncounted failures are a number, also after a step.
LEMMA UncountedType ==
    ASSUME NEW m \in Msgs, IsFiniteSet(Counting(m))
    PROVE  Uncounted(m) \in Nat /\ Cardinality(Counting(m)) \in Nat
BY FS_CardinalityType DEF Uncounted

LEMMA CountCalmKeeps ==
    ASSUME TypeOK, TypeOK', CountedOnce, CountCalm
    PROVE  CountedOnce'
<1> SUFFICES ASSUME NEW m \in Msgs
             PROVE  IsFiniteSet(Counting(m)') /\ attempts'[m] + Uncounted(m)' <= tries'[m]
  BY DEF CountedOnce
<1>1. IsFiniteSet(Counting(m)) /\ attempts[m] + Uncounted(m) <= tries[m]
  BY DEF CountedOnce
<1>2. IsFiniteSet(Counting(m)') /\ Cardinality(Counting(m)') <= Cardinality(Counting(m))
  BY <1>1, FS_Subset DEF CountCalm
<1>3. Cardinality(Counting(m)) \in Nat /\ Cardinality(Counting(m)') \in Nat
  BY <1>1, <1>2, FS_CardinalityType
<1>4. Uncounted(m) \in Nat /\ Uncounted(m)' \in Nat /\ Uncounted(m)' <= Uncounted(m)
  BY <1>2, <1>3 DEF Uncounted, CountCalm
<1>5. /\ attempts[m] \in Nat /\ tries[m] \in Nat /\ attempts'[m] \in Nat /\ tries'[m] \in Nat
      /\ attempts'[m] <= attempts[m] /\ tries[m] <= tries'[m]
  BY DEF TypeOK, StoreTypeOK, HistoryTypeOK, CountCalm
<1> QED BY <1>1, <1>2, <1>4, <1>5

\* A quiet step keeps what is known of the counts.
LEMMA QuietKeeps ==
    ASSUME CountInv, TypeOK', NEW t \in Threads, QuietStep(t)
    PROVE  CountedOnce' /\ \A u \in Threads : ReachedLimit(u)'
<1>0. TypeOK /\ CountedOnce /\ \A u \in Threads : ReachedLimit(u)
  BY DEF CountInv, OwnershipInv
<1>1. CountCalm
  <2> SUFFICES ASSUME NEW m \in Msgs
               PROVE  /\ Counting(m)' \subseteq Counting(m)
                      /\ attempts'[m] <= attempts[m] /\ tries[m] <= tries'[m] /\ (Posted(m)' => Posted(m))
    BY DEF CountCalm
  <2>1. Counting(m)' \subseteq Counting(m)
    BY DEF Counting, QuietStep, CountPcs
  <2>2. tries[m] <= tries'[m]
    BY <1>0 DEF QuietStep, TypeOK, HistoryTypeOK
  <2> QED BY <2>1, <2>2 DEF QuietStep, Posted
<1>2. \A u \in Threads : ReachedLimit(u)'
  BY <1>0 DEF QuietStep, ReachedLimit, GivePcs
<1> QED BY <1>0, <1>1, <1>2, CountCalmKeeps

\* A post: one more try, and one more answer to come.
LEMMA PostKeeps ==
    ASSUME CountInv, TypeOK', NEW t \in Threads, Post(t)
    PROVE  CountedOnce' /\ \A u \in Threads : ReachedLimit(u)'
<1>0. /\ TypeOK /\ ThreadsTypeOK /\ SingleOwner /\ CountedOnce
      /\ cur[t] \in Msgs /\ pc[t] = "post"
  BY DEF CountInv, OwnershipInv, TypeOK, WorkOK, Post
<1>1. tries' = [tries EXCEPT ![cur[t]] = @ + 1] /\ attempts' = attempts
  BY DEF Post, storeVars
<1>2. Alone(t) /\ pc'[t] \notin CountPcs \cup GivePcs
  BY <1>0, ProceedEffect DEF Post, AtRest, CountPcs, GivePcs
<1>3. \A m \in Msgs : Counting(m)' \subseteq Counting(m)
  BY <1>2 DEF Counting, Alone, CountPcs
<1>4. ~ Posted(cur[t])
  BY <1>0 DEF SingleOwner, Held, Holds, OwnerPcs
<1>5. ASSUME NEW m \in Msgs PROVE IsFiniteSet(Counting(m)') /\ attempts'[m] + Uncounted(m)' <= tries'[m]
  <2>1. IsFiniteSet(Counting(m)) /\ attempts[m] + Uncounted(m) <= tries[m]
    BY <1>0 DEF CountedOnce
  <2>2. IsFiniteSet(Counting(m)') /\ Cardinality(Counting(m)') <= Cardinality(Counting(m))
    BY <1>3, <2>1, FS_Subset
  <2>3. Cardinality(Counting(m)) \in Nat /\ Cardinality(Counting(m)') \in Nat
    BY <2>1, <2>2, FS_CardinalityType
  <2>4. attempts[m] \in Nat /\ tries[m] \in Nat
    BY <1>0 DEF TypeOK, StoreTypeOK, HistoryTypeOK
  <2>5. CASE m = cur[t]
    <3>1. Uncounted(m) = Cardinality(Counting(m))
      BY <1>4, <2>5, <2>3 DEF Uncounted
    <3>2. Uncounted(m)' \in Nat /\ Uncounted(m)' <= Cardinality(Counting(m)') + 1
      BY <2>3 DEF Uncounted
    <3>3. tries'[m] = tries[m] + 1
      BY <1>0, <1>1, <2>5 DEF TypeOK, HistoryTypeOK
    <3> QED BY <1>1, <2>1, <2>2, <2>3, <2>4, <3>1, <3>2, <3>3
  <2>6. CASE m # cur[t]
    <3>1. Posted(m)' => Posted(m)
      BY <2>6 DEF Post, Posted
    <3>2. Uncounted(m) \in Nat /\ Uncounted(m)' \in Nat /\ Uncounted(m)' <= Uncounted(m)
      BY <2>2, <2>3, <3>1 DEF Uncounted
    <3>3. tries'[m] = tries[m]
      BY <1>0, <1>1, <2>6 DEF TypeOK, HistoryTypeOK
    <3> QED BY <1>1, <2>1, <2>2, <2>4, <3>2, <3>3
  <2> QED BY <2>5, <2>6
<1>6. ASSUME NEW u \in Threads PROVE ReachedLimit(u)'
  <2>1. CASE u = t
    BY <1>2, <2>1 DEF ReachedLimit, GivePcs
  <2>2. CASE u # t
    <3>1. ReachedLimit(u) /\ WorkOK(u) /\ pc'[u] = pc[u] /\ cur'[u] = cur[u]
      BY <1>0, <1>2, <2>2 DEF CountInv, Alone, TypeOK
    <3> QED
      BY <1>0, <1>1, <3>1, PushyAssumption
      DEF ReachedLimit, WorkOK, CallbackPcs, TypeOK, HistoryTypeOK
  <2> QED BY <2>1, <2>2
<1> QED BY <1>5, <1>6 DEF CountedOnce

\* HINCRBY: the failure is counted, and its thread counts no more.
LEMMA CountFailureKeeps ==
    ASSUME CountInv, TypeOK', NEW t \in Threads, CountFailure(t)
    PROVE  CountedOnce' /\ \A u \in Threads : ReachedLimit(u)'
<1>0. /\ TypeOK /\ ThreadsTypeOK /\ CountedOnce
      /\ cur[t] \in Msgs /\ pc[t] = "incr"
  BY DEF CountInv, OwnershipInv, TypeOK, WorkOK, CountFailure, CallbackPcs
<1>1. attempts' = [attempts EXCEPT ![cur[t]] = @ + 1] /\ tries' = tries /\ inflight' = inflight
  BY DEF CountFailure, CountAttempt, nodeVars, history
<1>2. /\ Alone(t)
      /\ \/ pc'[t] = "gcheck" /\ cur'[t] = cur[t] /\ LimitReached(attempts[cur[t]] + 1)
         \/ pc'[t] \notin CountPcs \cup GivePcs
  <2>1. CASE Finish(t)
    BY <1>0, <2>1, EndEffect DEF AtRest, CountPcs, GivePcs
  <2>2. CASE Goto(t, "logfail")
    BY <1>0, <2>2, GotoEffect DEF CountPcs, GivePcs, Pcs, CallbackPcs
  <2>3. CASE Goto(t, "gcheck") /\ LimitReached(attempts[cur[t]] + 1)
    BY <1>0, <2>3, GotoEffect DEF Pcs, CallbackPcs
  <2> QED BY <2>1, <2>2, <2>3 DEF CountFailure
<1>3. \A m \in Msgs : Counting(m)' = Counting(m) \ {t}
  BY <1>2 DEF Counting, Alone, CountPcs
<1>4. t \in Counting(cur[t])
  BY <1>0 DEF Counting
<1>5. ASSUME NEW m \in Msgs PROVE IsFiniteSet(Counting(m)') /\ attempts'[m] + Uncounted(m)' <= tries'[m]
  <2>1. IsFiniteSet(Counting(m)) /\ attempts[m] + Uncounted(m) <= tries[m]
    BY <1>0 DEF CountedOnce
  <2>2. /\ IsFiniteSet(Counting(m)')
        /\ Cardinality(Counting(m)') = IF t \in Counting(m) THEN Cardinality(Counting(m)) - 1
                                                           ELSE Cardinality(Counting(m))
    BY <1>3, <2>1, FS_RemoveElement
  <2>3. Cardinality(Counting(m)) \in Nat
    BY <2>1, FS_CardinalityType
  <2>4. attempts[m] \in Nat /\ tries[m] \in Nat /\ (Posted(m)' <=> Posted(m))
    BY <1>0, <1>1 DEF TypeOK, StoreTypeOK, HistoryTypeOK, Posted
  <2>5. CASE m = cur[t]
    <3>1. attempts'[m] = attempts[m] + 1
      BY <1>0, <1>1, <2>5 DEF TypeOK, StoreTypeOK
    <3>2. Uncounted(m) \in Nat /\ Uncounted(m)' = Uncounted(m) - 1
      BY <1>4, <2>2, <2>3, <2>4, <2>5 DEF Uncounted
    <3> QED BY <1>1, <2>1, <2>2, <2>4, <3>1, <3>2
  <2>6. CASE m # cur[t]
    <3>1. attempts'[m] = attempts[m]
      BY <1>0, <1>1, <2>6 DEF TypeOK, StoreTypeOK
    <3>2. t \notin Counting(m)
      BY <2>6 DEF Counting
    <3>3. Uncounted(m)' = Uncounted(m)
      BY <2>2, <2>4, <3>2 DEF Uncounted
    <3> QED BY <1>1, <2>1, <2>2, <3>1, <3>3
  <2> QED BY <2>5, <2>6
<1>6. ASSUME NEW u \in Threads PROVE ReachedLimit(u)'
  <2>1. CASE u = t /\ LimitReached(attempts[cur[t]] + 1) /\ cur'[t] = cur[t]
    <3>1. attempts[cur[t]] + Uncounted(cur[t]) <= tries[cur[t]] /\ IsFiniteSet(Counting(cur[t]))
      BY <1>0 DEF CountedOnce
    <3>2. Cardinality(Counting(cur[t])) \in Nat /\ Cardinality(Counting(cur[t])) # 0
      BY <1>4, <3>1, FS_CardinalityType, FS_EmptySet
    <3>3. Uncounted(cur[t]) \in Nat /\ Uncounted(cur[t]) >= 1
      BY <3>2 DEF Uncounted
    <3>4. Limit \in Nat /\ attempts[cur[t]] \in Nat /\ tries[cur[t]] \in Nat /\ Limit <= attempts[cur[t]] + 1
      BY <1>0, <2>1, PushyAssumption DEF LimitReached, TypeOK, StoreTypeOK, HistoryTypeOK
    <3>5. tries[cur[t]] >= Limit
      BY <3>1, <3>3, <3>4
    <3> QED BY <1>1, <2>1, <3>5 DEF ReachedLimit
  <2>2. CASE u = t /\ pc'[t] \notin GivePcs
    BY <2>2 DEF ReachedLimit, GivePcs
  <2>3. CASE u # t
    BY <1>1, <1>2, <2>3 DEF CountInv, Alone, ReachedLimit
  <2> QED BY <1>2, <2>1, <2>2, <2>3 DEF GivePcs
<1> QED BY <1>5, <1>6 DEF CountedOnce

\* The library answers a post, or drops it: the failure that may come of it is the one
\* its callback will count.
LEMMA AnswerKeeps ==
    ASSUME CountInv, TypeOK', NEW f \in inflight, Answer(f)
    PROVE  CountedOnce' /\ \A u \in Threads : ReachedLimit(u)'
<1>0. /\ TypeOK /\ ThreadsTypeOK /\ SingleOwner /\ CacheHolds /\ CountedOnce
      /\ f \in Posts /\ f.msg \in Msgs
  BY DEF CountInv, OwnershipInv, TypeOK, NodesTypeOK, Posts
<1> DEFINE t == Main(f.node)
<1>1. t \in Threads
  BY <1>0, MainIsThread DEF Posts
<1>2. /\ inflight' = inflight \ {f} /\ attempts' = attempts /\ tries' = tries
      /\ pc[t] = "idle"
  BY DEF Answer, Delivered, Refused, UnknownIdent, Answered, storeVars, history
<1>3. /\ \A u \in Threads \ {t} : pc'[u] = pc[u] /\ cur'[u] = cur[u]
      /\ pc'[t] \notin GivePcs
      /\ pc'[t] \in CountPcs => cur'[t] = f.msg
  <2>1. CASE UnknownIdent(f)
    BY <1>0, <1>1, <2>1, EndEffect DEF UnknownIdent, Alone, AtRest, CountPcs, GivePcs
  <2>2. ASSUME NEW l \in {"sent", "drop", "mark"}, Answered(f, l)
        PROVE  /\ \A u \in Threads \ {t} : pc'[u] = pc[u] /\ cur'[u] = cur[u]
               /\ pc'[t] \notin GivePcs
               /\ cur'[t] = f.msg
    BY <1>0, <1>1, <2>2 DEF Answered, ThreadsTypeOK, CacheHolds, CellOK, GivePcs
  <2> QED BY <2>1, <2>2 DEF Answer, Delivered, Refused
<1>4. ~ Posted(f.msg)'
  BY <1>0, <1>2 DEF Posted, SingleOwner
<1>5. \A m \in Msgs : Counting(m)' \subseteq Counting(m) \cup (IF m = f.msg THEN {t} ELSE {})
  BY <1>3 DEF Counting, CountPcs
<1>6. ASSUME NEW m \in Msgs PROVE IsFiniteSet(Counting(m)') /\ attempts'[m] + Uncounted(m)' <= tries'[m]
  <2>1. IsFiniteSet(Counting(m)) /\ attempts[m] + Uncounted(m) <= tries[m]
    BY <1>0 DEF CountedOnce
  <2>2. attempts[m] \in Nat /\ tries[m] \in Nat
    BY <1>0 DEF TypeOK, StoreTypeOK, HistoryTypeOK
  <2>3. Cardinality(Counting(m)) \in Nat
    BY <2>1, FS_CardinalityType
  <2>4. CASE m = f.msg
    <3>1. /\ IsFiniteSet(Counting(m) \cup {t})
          /\ Cardinality(Counting(m) \cup {t}) <= Cardinality(Counting(m)) + 1
      <4> HIDE DEF t
      <4>1. /\ IsFiniteSet(Counting(m) \cup {t})
            /\ Cardinality(Counting(m) \cup {t}) =
                 IF t \in Counting(m) THEN Cardinality(Counting(m)) ELSE Cardinality(Counting(m)) + 1
        BY <2>1, FS_AddElement
      <4> QED BY <2>3, <4>1
    <3>2. IsFiniteSet(Counting(m)') /\ Cardinality(Counting(m)') <= Cardinality(Counting(m)) + 1
      <4>1. Counting(m)' \in SUBSET (Counting(m) \cup {t})
        BY <1>5, <2>4
      <4>2. IsFiniteSet(Counting(m)') /\ Cardinality(Counting(m)') <= Cardinality(Counting(m) \cup {t})
        BY <3>1, <4>1, FS_Subset
      <4> QED BY <2>3, <3>1, <4>2, FS_CardinalityType
    <3>3. Cardinality(Counting(m)') \in Nat
      BY <3>2, FS_CardinalityType
    <3>4. Uncounted(m) = Cardinality(Counting(m)) + 1
      BY <2>4 DEF Uncounted, Posted
    <3>5. Uncounted(m)' = Cardinality(Counting(m)')
      BY <1>4, <2>4, <3>3 DEF Uncounted
    <3> QED BY <1>2, <2>1, <2>2, <2>3, <3>2, <3>3, <3>4, <3>5
  <2>5. CASE m # f.msg
    <3>1. IsFiniteSet(Counting(m)') /\ Cardinality(Counting(m)') <= Cardinality(Counting(m))
      BY <1>5, <2>1, <2>5, FS_Subset
    <3>2. Cardinality(Counting(m)') \in Nat /\ (Posted(m)' => Posted(m))
      BY <1>2, <3>1, FS_CardinalityType DEF Posted
    <3>3. Uncounted(m)' \in Nat /\ Uncounted(m) \in Nat /\ Uncounted(m)' <= Uncounted(m)
      BY <2>3, <3>1, <3>2 DEF Uncounted
    <3> QED BY <1>2, <2>1, <2>2, <3>1, <3>3
  <2> QED BY <2>4, <2>5
<1>7. ASSUME NEW u \in Threads PROVE ReachedLimit(u)'
  BY <1>2, <1>3 DEF CountInv, ReachedLimit, GivePcs
<1> QED BY <1>6, <1>7 DEF CountedOnce

\* The end of a process forgets callbacks and posts, and counts nothing.
LEMMA HaltCounts ==
    ASSUME CountInv, TypeOK', NEW n \in Nodes, Halt(n), UNCHANGED <<attempts, tries>>
    PROVE  CountedOnce' /\ \A u \in Threads : ReachedLimit(u)'
<1>0. TypeOK /\ ThreadsTypeOK /\ CountedOnce /\ HistoryTypeOK /\ StoreTypeOK
  BY DEF CountInv, OwnershipInv, TypeOK
<1>1. \A u \in Threads : pc'[u] = "idle" \/ (pc'[u] = pc[u] /\ cur'[u] = cur[u])
  BY <1>0 DEF Halt
<1>2. CountCalm
  <2>1. \A m \in Msgs : Counting(m)' \subseteq Counting(m)
    BY <1>1 DEF Counting
  <2>2. \A m \in Msgs : Posted(m)' => Posted(m)
    BY DEF Halt, Posted
  <2> QED BY <1>0, <2>1, <2>2 DEF CountCalm, HistoryTypeOK, StoreTypeOK
<1>3. \A u \in Threads : ReachedLimit(u)'
  BY <1>1 DEF CountInv, ReachedLimit
<1> QED BY <1>0, <1>2, <1>3, CountCalmKeeps

\* CountInv is inductive.
LEMMA CountNext == CountInv /\ [Next]_vars => CountInv'
<1> SUFFICES ASSUME CountInv, [Next]_vars PROVE CountInv'
  OBVIOUS
<1>0. TypeOK /\ OwnershipInv
  BY DEF CountInv, OwnershipInv
<1>1. OwnershipInv' /\ TypeOK'
  BY <1>0, OwnershipNext DEF OwnershipInv
<1> DEFINE Kept == CountedOnce' /\ \A u \in Threads : ReachedLimit(u)'
<1>2. ASSUME NEW t \in Threads,
             \/ \E p \in Providers : StartPush(t, p)
             \/ \E S \in SUBSET Msgs : StartRedeliver(t, S)
             \/ ThreadStep(t) \/ RedisFails(t)
      PROVE  Kept
  <2>1. CASE Fatal(t)
    BY <1>1, <2>1, ThreadNode, HaltCounts DEF Fatal, MapCrash, PostUnconfigured, storeVars, history
  <2>2. CASE Post(t)
    BY <1>1, <2>2, PostKeeps
  <2>3. CASE CountFailure(t)
    BY <1>1, <2>3, CountFailureKeeps
  <2>4. CASE ~ Fatal(t) /\ ~ Post(t) /\ ~ CountFailure(t)
    <3>1. QuietStep(t)
      BY <1>0, <1>2, <2>4, QuietSteps
    <3> QED BY <1>1, <3>1, QuietKeeps
  <2> QED BY <2>1, <2>2, <2>3, <2>4
<1>3. ASSUME NEW f \in inflight, Answer(f) PROVE Kept
  BY <1>1, <1>3, AnswerKeeps
<1>4. ASSUME NEW n \in Nodes, TimerFires(n) PROVE Kept
  <2>1. QuietStep(Main(n)) /\ Main(n) \in Threads
    BY <1>0, <1>4, MainIsThread
    DEF TimerFires, QuietStep, TypeOK, ThreadsTypeOK, StoreTypeOK, storeVars, nodeVars, history, CountPcs, GivePcs
  <2> QED BY <1>1, <2>1, QuietKeeps
<1>5. ASSUME NEW n \in Nodes, NodeExit(n) \/ Crash(n) PROVE Kept
  BY <1>1, <1>5, HaltCounts DEF NodeExit, Crash, storeVars, history
<1>6. ASSUME (\E n \in Nodes : Restart(n)) \/ UNCHANGED vars PROVE Kept
  <2>1. UNCHANGED <<attempts, tries, inflight, pc, cur>>
    BY <1>6 DEF Restart, vars, storeVars, nodeVars, locals, history
  <2>2. \A m \in Msgs : Counting(m)' = Counting(m) /\ (Posted(m)' <=> Posted(m))
    BY <2>1 DEF Counting, Posted
  <2> QED BY <2>1, <2>2 DEF CountInv, CountedOnce, Uncounted, ReachedLimit
<1>7. Kept
  BY <1>2, <1>3, <1>4, <1>5, <1>6 DEF Next
<1> QED BY <1>1, <1>7 DEF CountInv

\* At first nothing is posted and nothing counted.
LEMMA CountInit == Init => CountInv
<1> SUFFICES ASSUME Init PROVE CountInv
  OBVIOUS
<1>1. OwnershipInv
  BY OwnershipInit
<1>2. \A m \in Msgs : Counting(m) = {} /\ ~ Posted(m)
  BY DEF Init, Counting, Posted
<1>3. CountedOnce
  <2>1. IsFiniteSet({}) /\ Cardinality({}) = 0
    BY FS_EmptySet
  <2>2. ASSUME NEW m \in Msgs PROVE IsFiniteSet(Counting(m)) /\ attempts[m] + Uncounted(m) <= tries[m]
    <3>1. Counting(m) = {} /\ ~ Posted(m)
      BY <1>2
    <3>2. Uncounted(m) = 0
      BY <2>1, <3>1 DEF Uncounted
    <3> QED BY <2>1, <3>1, <3>2 DEF Init, StoreInit
  <2> QED BY <2>2 DEF CountedOnce
<1> QED BY <1>1, <1>3 DEF CountInv, ReachedLimit, Init

\* The attempts in Redis never run ahead of the posts, whichever nodes, faults and races.
THEOREM CountInvariant == Spec => []CountInv
BY CountInit, CountNext, PTL DEF Spec

\* No message is given up on before it was posted Limit times, also when several nodes
\* fail it, take it again and count its failures in any order.
THEOREM NotGivenUpEarlyHolds == Spec => NotGivenUpEarly
<1>1. CountInv /\ [Next]_vars =>
        [\A t \in Threads : pc[t] = "gsrem" /\ pc'[t] \in {"logperm", "drop"} => tries[cur[t]] >= Limit]_vars
  BY DEF CountInv, ReachedLimit
<1> QED BY <1>1, CountInvariant, PTL DEF Spec, NotGivenUpEarly

(***************************************************************************)
(* A node by itself                                                        *)
(***************************************************************************)

\* The steps by which a node dies cannot be taken.
LEMMA NobodyDies ==
    ASSUME ByItself, AloneInv
    PROVE  /\ \A t \in Threads : ~ Fatal(t) /\ ~ RedisFails(t)
           /\ \A n \in Nodes : ~ NodeExit(n) /\ ~ Crash(n) /\ ~ Restart(n)
           /\ \A f \in inflight : ~ UnknownIdent(f)
<1>0. TypeOK /\ NodesTypeOK /\ HistoryTypeOK /\ CacheHolds /\ OwnershipInv
  BY DEF AloneInv, OwnershipInv, TypeOK
<1>1. ASSUME NEW t \in Threads PROVE ~ MapCrash(t)
  BY DEF ByItself, MapCrash
<1>2. ASSUME NEW t \in Threads, PostUnconfigured(t) PROVE FALSE
  <2>1. prov[t] \in Providers /\ t[1] \in Nodes
    BY <1>0, <1>2, ThreadNode DEF PostUnconfigured, TypeOK, WorkOK
  <2> QED BY <1>2, <2>1 DEF PostUnconfigured, AloneInv, OnlyConfigured, Providers, NoType
<1>3. ASSUME NEW t \in Threads PROVE ~ RedisFails(t)
  BY <1>0 DEF ByItself, RedisFails, HistoryTypeOK
<1>4. ASSUME NEW n \in Nodes PROVE ~ NodeExit(n) /\ ~ Crash(n) /\ ~ Restart(n)
  BY <1>0 DEF ByItself, AloneInv, NodeExit, Crash, Restart, HistoryTypeOK
<1>5. ASSUME NEW f \in inflight, UnknownIdent(f) PROVE FALSE
  BY <1>0, <1>5, PushyAssumption DEF ByItself, UnknownIdent, CacheHolds, CellOK, NodesTypeOK, Posts
<1> QED BY <1>1, <1>2, <1>3, <1>4, <1>5 DEF Fatal

\* So every step is one of a thread that goes on, an answer whose message is found, or
\* the timer's.
LEMMA LiveSteps ==
    ASSUME ByItself, AloneInv, Next
    PROVE  \/ \E t \in Threads :
                \/ \E p \in Providers : StartPush(t, p)
                \/ \E S \in SUBSET Msgs : StartRedeliver(t, S)
                \/ ThreadStep(t) /\ ~ Fatal(t)
           \/ \E f \in inflight : \E l \in {"sent", "drop", "mark"} : Answered(f, l)
           \/ \E n \in Nodes : TimerFires(n)
BY NobodyDies DEF Next, Answer, Delivered, Refused

\* A step of thread t alone, on the main thread or not, that leaves the records, the
\* counts and the sets as they are, or only takes out of a set.
Harmless(t) ==
    /\ up' = up
    /\ Alone(t)
    /\ pc'[t] # "unwind"
    /\ pc'[t] \in MainOnly => IsMain(t)
    /\ pc[t] = "incr" => attempts'[cur[t]] > 0
    /\ \A m \in Msgs :
        /\ HasRecord(m) => type'[m] = type[m]
        /\ HasRecord(m)' /\ ~ HasRecord(m) => type'[m] = prov[t]
        /\ attempts[m] <= attempts'[m]
        /\ InSomeSet(m)' => InSomeSet(m) \/ (pc'[t] = "incr" /\ cur'[t] = m)
    /\ prov'[t] \in {NoType, prov[t]} \/ \A n \in Nodes : prov'[t] \in Configured[n]
    /\ IsMain(t) => MainFinds(t)'

\* Such a step keeps AloneInv.
LEMMA HarmlessKeeps ==
    ASSUME ByItself, AloneInv, TypeOK', OwnershipInv', NEW t \in Threads, Harmless(t)
    PROVE  AloneInv'
<1>0. TypeOK /\ StoreTypeOK /\ StoreTypeOK'
  BY DEF AloneInv, OwnershipInv, TypeOK
<1>1. \A u \in Threads : pc'[u] \in MainOnly => IsMain(u)
  BY DEF AloneInv, Harmless, Alone
<1>2. ASSUME NEW n \in Nodes PROVE up'[n] /\ pc'[Main(n)] # "unwind" /\ MainFinds(Main(n))'
  <2>1. Main(n) \in Threads /\ IsMain(Main(n)) /\ up[n] /\ pc[Main(n)] # "unwind" /\ MainFinds(Main(n))
    BY MainIsThread DEF AloneInv
  <2>2. CASE Main(n) = t
    BY <2>1, <2>2 DEF Harmless
  <2>3. CASE Main(n) # t
    <3> DEFINE u == Main(n)
    <3>1. /\ pc'[u] = pc[u] /\ cur'[u] = cur[u] /\ todo'[u] = todo[u] /\ unread'[u] = unread[u]
      BY <2>1, <2>3 DEF Harmless, Alone
    <3>2. cur[u] \in Msgs \cup {NoMsg} /\ todo[u] \in SUBSET Msgs /\ unread[u] \in SUBSET Msgs
      BY <1>0, <2>1 DEF TypeOK, ThreadsTypeOK
    <3>3. \A m \in Msgs : (HasRecord(m) => HasRecord(m)') /\ (Listable(m) => Listable(m)')
      BY <1>0 DEF Harmless, HasRecord, Listable, StoreTypeOK
    <3> HIDE DEF u
    <3>4. MainFinds(u) => MainFinds(u)'
      BY <3>1, <3>2, <3>3 DEF MainFinds
    <3> QED BY <2>1, <3>1, <3>4 DEF u, Harmless
  <2> QED BY <2>2, <2>3
<1>3. FailedIsCounted'
  <2> SUFFICES ASSUME NEW m \in Msgs, InSomeSet(m)'
               PROVE  attempts'[m] > 0 \/ \E u \in Threads : pc'[u] = "incr" /\ cur'[u] = m
    BY DEF FailedIsCounted
  <2>1. CASE pc'[t] = "incr" /\ cur'[t] = m
    BY <2>1
  <2>2. CASE InSomeSet(m) /\ attempts[m] > 0
    BY <1>0, <2>2 DEF Harmless, StoreTypeOK
  <2>3. ASSUME NEW u \in Threads, pc[u] = "incr", cur[u] = m
        PROVE  attempts'[m] > 0 \/ \E v \in Threads : pc'[v] = "incr" /\ cur'[v] = m
    BY <2>3 DEF Harmless, Alone
  <2> QED BY <2>1, <2>2, <2>3 DEF Harmless, AloneInv, FailedIsCounted
<1>4. OnlyConfigured'
  <2>1. ASSUME NEW n \in Nodes, NEW m \in Msgs, HasRecord(m)' PROVE type'[m] \in Configured[n]
    <3>1. CASE HasRecord(m)
      BY <3>1 DEF Harmless, AloneInv, OnlyConfigured
    <3>2. CASE ~ HasRecord(m)
      BY <2>1, <3>2 DEF Harmless, AloneInv, OnlyConfigured, HasRecord
    <3> QED BY <3>1, <3>2
  <2>2. ASSUME NEW n \in Nodes, NEW u \in Threads, prov'[u] # NoType PROVE prov'[u] \in Configured[n]
    BY <2>2 DEF Harmless, Alone, AloneInv, OnlyConfigured
  <2> QED BY <2>1, <2>2 DEF OnlyConfigured
<1> QED BY <1>1, <1>2, <1>3, <1>4 DEF AloneInv

\* What a step does to Redis, when it is harmless: no record changes, no count falls, and
\* only the step to "incr" puts a message into a set.
RecordsStay(t) ==
    /\ up' = up /\ type' = type
    /\ pc[t] = "incr" => attempts'[cur[t]] > 0
    /\ \A m \in Msgs :
        /\ attempts[m] <= attempts'[m]
        /\ InSomeSet(m)' => InSomeSet(m) \/ (pc'[t] = "incr" /\ cur'[t] = m)

\* A step that writes nothing is such a step, unless it should have counted.
LEMMA ReadersKeep ==
    ASSUME TypeOK, NEW t \in Threads, UNCHANGED storeVars, up' = up, pc[t] # "incr"
    PROVE  RecordsStay(t)
BY DEF TypeOK, StoreTypeOK, storeVars, RecordsStay, InSomeSet

\* So is an SREM.
LEMMA RemoveKeeps ==
    ASSUME TypeOK, NEW t \in Threads, NEW m, NEW p, RemoveFailed(m, p), up' = up, pc[t] # "incr"
    PROVE  RecordsStay(t)
BY DEF TypeOK, StoreTypeOK, RemoveFailed, RecordsStay, InSomeSet

\* The main thread still finds what it had, after a step that keeps its variables.
LEMMA FindsStill ==
    ASSUME AloneInv, TypeOK', NEW t \in Threads, IsMain(t), RecordsStay(t), cur'[t] = cur[t] \/ cur'[t] = NoMsg,
           todo'[t] \subseteq todo[t], unread'[t] \subseteq unread[t],
           pc'[t] \in CallbackPcs \cup {"idle"} => todo'[t] = {} /\ unread'[t] = {}
    PROVE  MainFinds(t)'
<1>1. MainFinds(t)
  BY DEF AloneInv, Threads, IsMain, Main
<1>2. cur[t] \in Msgs \cup {NoMsg} /\ todo[t] \in SUBSET Msgs /\ unread[t] \in SUBSET Msgs /\ attempts \in [Msgs -> Nat]
  BY DEF AloneInv, OwnershipInv, TypeOK, ThreadsTypeOK, StoreTypeOK
<1>3. \A m \in Msgs : (HasRecord(m) <=> HasRecord(m)')
  BY DEF RecordsStay, HasRecord
<1>4. \A m \in Msgs : Listable(m) => Listable(m)'
  BY <1>2, <1>3 DEF RecordsStay, Listable, TypeOK, StoreTypeOK
<1> QED BY <1>1, <1>2, <1>3, <1>4 DEF MainFinds

\* A jump that stays off the main thread's places is harmless.
LEMMA GotoHarmless ==
    ASSUME AloneInv, TypeOK', NEW t \in Threads, NEW l \in Pcs \ {"unwind", "idle"}, Goto(t, l), RecordsStay(t),
           l \in CallbackPcs => pc[t] \in CallbackPcs, l \notin {"list", "read"}
    PROVE  Harmless(t)
<1>0. ThreadsTypeOK
  BY DEF AloneInv, OwnershipInv, TypeOK
<1>1. /\ Alone(t) /\ pc'[t] = l /\ cur' = cur /\ prov' = prov /\ todo' = todo /\ unread' = unread
  BY <1>0, GotoEffect
<1>2. l \in MainOnly => IsMain(t)
  BY DEF AloneInv, MainOnly
<1>3. IsMain(t) => MainFinds(t)'
  <2> SUFFICES ASSUME IsMain(t) PROVE MainFinds(t)'
    OBVIOUS
  <2>1. MainFinds(t)
    BY DEF AloneInv, Threads, IsMain, Main
  <2> QED BY <1>1, <2>1, FindsStill DEF MainFinds
<1> QED BY <1>1, <1>2, <1>3 DEF Harmless, RecordsStay, HasRecord

\* So is the end of a handler, but for an exception on the main thread.
LEMMA EndHarmless ==
    ASSUME AloneInv, TypeOK', NEW t \in Threads, Finish(t) \/ (Throw(t) /\ ~ IsMain(t)), RecordsStay(t)
    PROVE  Harmless(t)
<1>0. ThreadsTypeOK
  BY DEF AloneInv, OwnershipInv, TypeOK
<1>1. Alone(t) /\ AtRest(t)
  BY <1>0, EndEffect
<1>2. pc'[t] = "idle"
  BY <1>0 DEF Finish, Throw, Leave, ThreadsTypeOK
<1>3. IsMain(t) => MainFinds(t)'
  BY <1>1, FindsStill DEF AtRest
<1> QED BY <1>1, <1>2, <1>3 DEF Harmless, RecordsStay, HasRecord, MainOnly, CallbackPcs, AtRest

\* And the return of push() and redeliver().
LEMMA ProceedHarmless ==
    ASSUME AloneInv, TypeOK', NEW t \in Threads, Proceed(t), RecordsStay(t)
    PROVE  Harmless(t)
<1>0. ThreadsTypeOK
  BY DEF AloneInv, OwnershipInv, TypeOK
<1>1. CASE Finish(t)
  BY <1>1, EndHarmless
<1>2. CASE ~ Finish(t)
  <2>1. /\ Alone(t) /\ pc'[t] = "next" /\ cur'[t] = NoMsg
        /\ todo'[t] = todo[t] /\ unread'[t] = unread[t] /\ prov'[t] = prov[t]
    BY <1>0, <1>2 DEF Proceed, ThreadsTypeOK, Alone
  <2>2. IsMain(t) => MainFinds(t)'
    BY <2>1, FindsStill DEF CallbackPcs
  <2> QED BY <2>1, <2>2 DEF Harmless, RecordsStay, HasRecord, MainOnly, CallbackPcs
<1> QED BY <1>1, <1>2

\* Of a node by itself there is one main thread.
LEMMA OneMain ==
    ASSUME ByItself
    PROVE  /\ \A t, u \in Threads : IsMain(t) /\ IsMain(u) => t = u
           /\ \A n \in Nodes : \A t \in Threads : t[1] = n
BY DEF ByItself, IsMain, Threads

\* The main thread finds a record where it looks for one.
LEMMA MainHasRecord ==
    ASSUME AloneInv, NEW t \in Threads, IsMain(t), pc[t] \in TakePcs \cup CallbackPcs
    PROVE  HasRecord(cur[t])
<1>1. MainFinds(t)
  BY DEF AloneInv, Threads, IsMain, Main
<1>2. cur[t] # NoMsg
  BY PushyAssumption DEF AloneInv, OwnershipInv, TypeOK, WorkOK
<1> QED BY <1>1, <1>2 DEF MainFinds

\* So do get_failed_messages' reads: what SMEMBERS answers has a record and a count.
LEMMA FailedIsListable ==
    ASSUME ByItself, AloneInv, NEW t \in Threads, pc[t] = "list"
    PROVE  \A p \in Providers : \A m \in failed[p] : m \in Msgs /\ Listable(m)
<1> SUFFICES ASSUME NEW p \in Providers, NEW m \in failed[p] PROVE m \in Msgs /\ Listable(m)
  OBVIOUS
<1>1. m \in Msgs /\ HasRecord(m) /\ InSomeSet(m)
  BY DEF AloneInv, OwnershipInv, FailedIsLive, HasRecord, Providers, NoType, TypeOK, StoreTypeOK, InSomeSet
<1>2. ASSUME NEW u \in Threads, pc[u] = "incr" PROVE FALSE
  <2>1. IsMain(u) /\ IsMain(t)
    BY <1>2 DEF AloneInv, MainOnly, CallbackPcs
  <2> QED BY <1>2, <2>1, OneMain
<1>3. attempts[m] > 0
  BY <1>1, <1>2 DEF AloneInv, FailedIsCounted
<1> QED BY <1>1, <1>3 DEF Listable

\* The steps of push(), on a worker.
LEMMA PushHarmless ==
    ASSUME ByItself, AloneInv, TypeOK', NEW t \in Threads,
           \/ \E p \in Providers : StartPush(t, p)
           \/ PushWrite(t) \/ TakeIdent(t) \/ CacheInsert(t) \/ Post(t)
    PROVE  Harmless(t)
<1>0. TypeOK /\ ThreadsTypeOK /\ StoreTypeOK /\ StoreTypeOK' /\ MapRaces = {}
  BY DEF AloneInv, OwnershipInv, TypeOK, ByItself
<1>1. ASSUME NEW p \in Providers, StartPush(t, p) PROVE Harmless(t)
  <2>1. \A n \in Nodes : p \in Configured[n]
    BY <1>1, OneMain, ThreadNode DEF StartPush, ByItself
  <2>2. RecordsStay(t)
    BY <1>0, <1>1, ReadersKeep DEF StartPush, nodeVars
  <2> QED BY <1>0, <1>1, <2>1, <2>2
      DEF StartPush, Harmless, RecordsStay, HasRecord, Alone, ThreadsTypeOK, MainOnly, CallbackPcs
<1>2. CASE PushWrite(t)
  <2>1. PICK m \in Msgs \ issued : WriteRecord(m, prov[t]) /\ cur' = [cur EXCEPT ![t] = m]
    BY <1>2 DEF PushWrite
  <2>2. ~ HasRecord(m) /\ prov[t] \in Providers
    BY <1>0, <1>2, <2>1 DEF PushWrite, AloneInv, OwnershipInv, IssuedFirst, TypeOK, WorkOK
  <2>3. type' = [type EXCEPT ![m] = prov[t]] /\ attempts' = attempts /\ failed' = failed
    BY <2>1 DEF WriteRecord
  <2>4. \A k \in Msgs : (HasRecord(k) => type'[k] = type[k]) /\ (k # m => type'[k] = type[k])
    BY <1>0, <2>2, <2>3 DEF StoreTypeOK, HasRecord
  <2>5. HasRecord(m)'
    BY <1>0, <2>2, <2>3 DEF StoreTypeOK, HasRecord, Providers, NoType
  <2>6. Alone(t) /\ pc'[t] \in {"ident", "insert"} /\ cur'[t] = m /\ prov' = prov /\ todo' = todo /\ unread' = unread
    BY <1>0, <1>2, <2>1 DEF PushWrite, ThreadsTypeOK, Alone
  <2>7. IsMain(t) => MainFinds(t)'
    <3> SUFFICES ASSUME IsMain(t) PROVE MainFinds(t)'
      OBVIOUS
    <3>1. MainFinds(t)
      BY DEF AloneInv, Threads, IsMain, Main
    <3>2. \A k \in Msgs : (HasRecord(k) => HasRecord(k)') /\ (Listable(k) => Listable(k)')
      BY <2>3, <2>4 DEF HasRecord, Listable
    <3>3. todo[t] \in SUBSET Msgs /\ unread[t] \in SUBSET Msgs
      BY <1>0 DEF ThreadsTypeOK
    <3> QED BY <2>5, <2>6, <3>1, <3>2, <3>3 DEF MainFinds, CallbackPcs
  <2>8. \A k \in Msgs : HasRecord(k)' /\ ~ HasRecord(k) => type'[k] = prov[t]
    BY <1>0, <2>3, <2>4 DEF HasRecord, StoreTypeOK
  <2>9. up' = up /\ pc[t] = "write"
    BY <1>2 DEF PushWrite, nodeVars
  <2> QED BY <1>0, <2>3, <2>4, <2>6, <2>7, <2>8, <2>9
      DEF Harmless, MainOnly, CallbackPcs, InSomeSet, StoreTypeOK
<1>3. CASE TakeIdent(t)
  <2>1. RecordsStay(t)
    BY <1>0, <1>3, ReadersKeep DEF TakeIdent
  <2>2. Alone(t) /\ pc'[t] \in {"write", "insert"} /\ cur' = cur /\ prov' = prov /\ todo' = todo /\ unread' = unread
    BY <1>0, <1>3 DEF TakeIdent, ThreadsTypeOK, Alone
  <2>3. IsMain(t) => MainFinds(t)'
    BY <2>1, <2>2, FindsStill DEF CallbackPcs
  <2> QED BY <2>1, <2>2, <2>3 DEF Harmless, RecordsStay, HasRecord, MainOnly, CallbackPcs
<1>4. CASE CacheInsert(t)
  <2>1. RecordsStay(t)
    BY <1>0, <1>4, ReadersKeep DEF CacheInsert
  <2> QED BY <1>4, <2>1, GotoHarmless DEF CacheInsert, Pcs, PushPcs, CallbackPcs
<1>5. CASE Post(t)
  <2>1. RecordsStay(t)
    BY <1>0, <1>5, ReadersKeep DEF Post
  <2> QED BY <1>5, <2>1, ProceedHarmless DEF Post
<1> QED BY <1>1, <1>2, <1>3, <1>4, <1>5

\* The steps of redeliver() and of the timer.
LEMMA RedeliverHarmless ==
    ASSUME ByItself, AloneInv, TypeOK', NEW t \in Threads,
           \/ \E S \in SUBSET Msgs : StartRedeliver(t, S)
           \/ NextRequested(t) \/ ListFailed(t) \/ ReadListed(t) \/ NextListed(t)
           \/ CheckFailed(t) \/ TakeFailed(t)
    PROVE  Harmless(t)
<1>0. TypeOK /\ ThreadsTypeOK /\ StoreTypeOK /\ t[1] \in Nodes
  BY ThreadNode DEF AloneInv, OwnershipInv, TypeOK
<1>1. ASSUME NEW S \in SUBSET Msgs, StartRedeliver(t, S) PROVE Harmless(t)
  <2>1. RecordsStay(t)
    BY <1>0, <1>1, ReadersKeep DEF StartRedeliver, nodeVars
  <2> QED BY <1>0, <1>1, <2>1
      DEF StartRedeliver, Harmless, RecordsStay, HasRecord, Alone, ThreadsTypeOK, MainOnly, CallbackPcs
<1>2. CASE NextRequested(t)
  <2>1. RecordsStay(t)
    BY <1>0, <1>2, ReadersKeep DEF NextRequested, nodeVars
  <2>2. CASE Throw(t)
    BY <1>2, <2>1, <2>2, EndHarmless DEF NextRequested
  <2>3. CASE ~ Throw(t)
    <3>1. PICK m \in todo[t] :
            /\ HasRecord(m) /\ m \in Msgs
            /\ pc' = [pc EXCEPT ![t] = "check"] /\ cur' = [cur EXCEPT ![t] = m]
            /\ prov' = [prov EXCEPT ![t] = type[m]] /\ todo' = [todo EXCEPT ![t] = @ \ {m}]
            /\ UNCHANGED <<unread, slot>>
      BY <1>0, <1>2, <2>3 DEF NextRequested, ThreadsTypeOK
    <3>2. \A n \in Nodes : type[m] \in Configured[n]
      BY <3>1 DEF AloneInv, OnlyConfigured
    <3>3. Alone(t) /\ pc'[t] = "check" /\ prov'[t] = type[m] /\ ~ IsMain(t)
      BY <1>0, <1>2, <3>1 DEF NextRequested, Alone, ThreadsTypeOK
    <3> QED BY <2>1, <3>2, <3>3 DEF Harmless, RecordsStay, HasRecord, MainOnly, CallbackPcs
  <2> QED BY <2>2, <2>3
<1>3. CASE ListFailed(t)
  <2>1. RecordsStay(t)
    BY <1>0, <1>3, ReadersKeep DEF ListFailed, nodeVars
  <2>2. prov[t] \in Providers /\ IsMain(t) /\ cur[t] = NoMsg
    BY <1>0, <1>3 DEF ListFailed, AloneInv, OwnershipInv, TypeOK, WorkOK, MainOnly, Resting, ListPcs
  <2>3. /\ Alone(t) /\ pc'[t] = "read" /\ cur'[t] = NoMsg /\ prov' = prov
        /\ todo'[t] = failed[prov[t]] /\ unread'[t] = failed[prov[t]]
    BY <1>0, <1>3, <2>2 DEF ListFailed, Alone, ThreadsTypeOK
  <2>4. \A m \in failed[prov[t]] : HasRecord(m)' /\ Listable(m)'
    BY <1>3, <2>2, FailedIsListable DEF ListFailed, storeVars, Listable, HasRecord
  <2>5. MainFinds(t)'
    BY <2>3, <2>4 DEF MainFinds, CallbackPcs
  <2> QED BY <2>1, <2>2, <2>3, <2>5 DEF Harmless, RecordsStay, HasRecord
<1>4. CASE ReadListed(t)
  <2>1. RecordsStay(t)
    BY <1>0, <1>4, ReadersKeep DEF ReadListed, nodeVars
  <2>2. IsMain(t)
    BY <1>4 DEF ReadListed, AloneInv, MainOnly
  <2>3. MainFinds(t)
    BY <2>2 DEF AloneInv, Threads, IsMain, Main
  <2>4. CASE Goto(t, "next")
    BY <2>1, <2>4, GotoHarmless DEF Pcs, ListPcs, CallbackPcs
  <2>5. CASE ~ Goto(t, "next")
    <3>1. PICK m \in unread[t] : unread' = [unread EXCEPT ![t] = @ \ {m}] /\ UNCHANGED <<pc, cur, prov, todo, slot>>
      BY <1>4, <2>3, <2>5 DEF ReadListed, MainFinds
    <3>2. Alone(t) /\ unread'[t] \subseteq unread[t] /\ pc'[t] = "read"
      BY <1>0, <1>4, <3>1 DEF ReadListed, Alone, ThreadsTypeOK
    <3>3. MainFinds(t)'
      BY <2>1, <2>2, <3>1, <3>2, FindsStill DEF CallbackPcs
    <3> QED BY <2>1, <2>2, <3>1, <3>2, <3>3 DEF Harmless, RecordsStay, HasRecord
  <2> QED BY <2>4, <2>5
<1>5. CASE NextListed(t)
  <2>1. RecordsStay(t)
    BY <1>0, <1>5, ReadersKeep DEF NextListed, nodeVars
  <2>2. MainFinds(t) /\ IsMain(t)
    BY <1>5 DEF NextListed, AloneInv, Threads, IsMain, Main
  <2>3. CASE Finish(t)
    BY <2>1, <2>3, EndHarmless
  <2>4. CASE ~ Finish(t) /\ todo[t] = {}
    <3>1. /\ Alone(t) /\ pc'[t] = "list" /\ prov'[t] = "gcm" /\ "gcm" \in Configured[t[1]]
          /\ cur' = cur /\ todo' = todo /\ unread' = unread
      BY <1>0, <1>5, <2>4 DEF NextListed, Alone, ThreadsTypeOK
    <3>2. \A n \in Nodes : "gcm" \in Configured[n]
      BY <3>1, OneMain
    <3>3. MainFinds(t)'
      BY <2>1, <2>2, <3>1, FindsStill DEF CallbackPcs
    <3> QED BY <2>1, <2>2, <3>1, <3>2, <3>3 DEF Harmless, RecordsStay, HasRecord
  <2>5. CASE ~ Finish(t) /\ todo[t] # {}
    <3>1. PICK m \in todo[t] :
            /\ m \in Msgs
            /\ pc' = [pc EXCEPT ![t] = "check"] /\ cur' = [cur EXCEPT ![t] = m]
            /\ todo' = [todo EXCEPT ![t] = @ \ {m}] /\ UNCHANGED <<prov, unread, slot>>
      BY <1>0, <1>5, <2>5 DEF NextListed, ThreadsTypeOK
    <3>2. Alone(t) /\ pc'[t] = "check" /\ cur'[t] = m /\ todo'[t] \subseteq todo[t] /\ unread' = unread /\ prov' = prov
      BY <1>0, <3>1 DEF Alone, ThreadsTypeOK
    <3>3. UNCHANGED storeVars
      BY <1>5 DEF NextListed
    <3>4. MainFinds(t)'
      BY <2>2, <3>2, <3>3 DEF MainFinds, HasRecord, Listable, storeVars, CallbackPcs
    <3> QED BY <2>1, <2>2, <3>2, <3>4 DEF Harmless, RecordsStay, HasRecord
  <2> QED BY <2>3, <2>4, <2>5
<1>6. CASE CheckFailed(t)
  <2>1. RecordsStay(t)
    BY <1>0, <1>6, ReadersKeep DEF CheckFailed, nodeVars
  <2>2. CASE Goto(t, "srem")
    BY <2>1, <2>2, GotoHarmless DEF Pcs, TakePcs, CallbackPcs
  <2>3. CASE ~ Goto(t, "srem")
    BY <1>6, <2>1, <2>3, EndHarmless, MainHasRecord DEF CheckFailed, TakePcs
  <2> QED BY <2>2, <2>3
<1>7. CASE TakeFailed(t)
  <2>1. RecordsStay(t)
    BY <1>0, <1>7, RemoveKeeps DEF TakeFailed, nodeVars
  <2> QED BY <1>7, <2>1, GotoHarmless, ProceedHarmless DEF TakeFailed, Pcs, PushPcs, CallbackPcs
<1> QED BY <1>1, <1>2, <1>3, <1>4, <1>5, <1>6, <1>7

\* The steps of the callbacks, on the main thread, but for the drop of a record.
LEMMA CallbackHarmless ==
    ASSUME ByItself, AloneInv, TypeOK', NEW t \in Threads,
           \/ LogSettled(t) \/ MarkRead(t) \/ MarkFailed(t) \/ CountFailure(t)
           \/ GiveUpCheck(t) \/ GiveUp(t) \/ LogFailure(t)
    PROVE  Harmless(t)
<1> USE DEF CallbackPcs
<1>0. /\ TypeOK /\ ThreadsTypeOK /\ StoreTypeOK /\ IsMain(t) /\ pc[t] \in CallbackPcs
      /\ HasRecord(cur[t]) /\ cur[t] \in Msgs /\ prov[t] \in Providers
  <2>1. pc[t] \in CallbackPcs
    BY DEF LogSettled, MarkRead, MarkFailed, CountFailure, GiveUpCheck, GiveUp, LogFailure
  <2>2. IsMain(t) /\ TypeOK
    BY <2>1 DEF AloneInv, OwnershipInv, MainOnly
  <2> QED BY <2>1, <2>2, MainHasRecord DEF TypeOK, WorkOK
<1>1. ASSUME NEW l \in CallbackPcs, Goto(t, l), RecordsStay(t) PROVE Harmless(t)
  BY <1>0, <1>1, GotoHarmless DEF Pcs
<1>2. CASE LogSettled(t) \/ MarkRead(t) \/ GiveUpCheck(t) \/ LogFailure(t)
  <2>1. RecordsStay(t)
    BY <1>0, <1>2, ReadersKeep DEF LogSettled, MarkRead, GiveUpCheck, LogFailure, nodeVars
  <2> QED BY <1>0, <1>1, <1>2, <2>1, EndHarmless DEF LogSettled, MarkRead, GiveUpCheck, LogFailure
<1>3. CASE MarkFailed(t)
  <2>1. pc'[t] = "incr" /\ cur' = cur /\ failed' = [failed EXCEPT ![prov[t]] = @ \cup {cur[t]}]
    BY <1>0, <1>3, GotoEffect DEF MarkFailed, AddFailed, Pcs
  <2>2. \A m \in Msgs : InSomeSet(m)' => InSomeSet(m) \/ m = cur[t]
    BY <1>0, <2>1 DEF InSomeSet, StoreTypeOK
  <2>3. RecordsStay(t)
    BY <1>0, <1>3, <2>1, <2>2 DEF MarkFailed, AddFailed, RecordsStay, nodeVars, StoreTypeOK
  <2> QED BY <1>1, <1>3, <2>3 DEF MarkFailed
<1>4. CASE CountFailure(t)
  <2>1. attempts' = [attempts EXCEPT ![cur[t]] = @ + 1] /\ failed' = failed
    BY <1>4 DEF CountFailure, CountAttempt
  <2>2. RecordsStay(t)
    BY <1>0, <1>4, <2>1 DEF CountFailure, CountAttempt, RecordsStay, nodeVars, StoreTypeOK, InSomeSet
  <2> QED BY <1>1, <1>4, <2>2, EndHarmless DEF CountFailure
<1>5. CASE GiveUp(t)
  <2>1. RecordsStay(t)
    BY <1>0, <1>5, RemoveKeeps DEF GiveUp, nodeVars
  <2> QED BY <1>1, <1>5, <2>1, EndHarmless DEF GiveUp
<1> QED BY <1>2, <1>3, <1>4, <1>5

\* An answer finds the message, and its record; the timer starts with nothing.
LEMMA WakeHarmless ==
    ASSUME ByItself, AloneInv, TypeOK', NEW n \in Nodes,
           TimerFires(n) \/ \E f \in inflight : f.node = n /\ \E l \in {"sent", "drop", "mark"} : Answered(f, l)
    PROVE  Harmless(Main(n))
<1> DEFINE t == Main(n)
<1>0. /\ TypeOK /\ ThreadsTypeOK /\ StoreTypeOK /\ NodesTypeOK
      /\ t \in Threads /\ IsMain(t) /\ MainFinds(t) /\ \A k \in Nodes : k = n
  BY MainIsThread DEF AloneInv, OwnershipInv, TypeOK, ByItself
<1>1. CASE TimerFires(n)
  <2>1. RecordsStay(t)
    BY <1>0, <1>1, ReadersKeep DEF TimerFires, nodeVars
  <2>2. /\ Alone(t) /\ pc'[t] = "list" /\ prov'[t] \in Configured[n]
        /\ cur' = cur /\ todo' = todo /\ unread' = unread
    BY <1>0, <1>1, PushyAssumption DEF TimerFires, Alone, ThreadsTypeOK, Providers
  <2> HIDE DEF t
  <2>3. MainFinds(t)'
    BY <1>0, <2>1, <2>2, FindsStill DEF CallbackPcs
  <2>4. Harmless(t)
    BY <1>0, <2>1, <2>2, <2>3 DEF Harmless, RecordsStay, HasRecord
  <2> QED BY <2>4 DEF t
<1>2. ASSUME NEW f \in inflight, f.node = n, NEW l \in {"sent", "drop", "mark"}, Answered(f, l)
      PROVE  Harmless(t)
  <2>1. RecordsStay(t)
    BY <1>0, <1>2, ReadersKeep DEF Answered
  <2>2. f.msg \in Msgs /\ f.prov \in Providers /\ Posted(f.msg)
    BY <1>0 DEF NodesTypeOK, Posts, Posted
  <2>3. Lookup(f) = f.msg /\ HasRecord(f.msg) /\ type[f.msg] = f.prov
    BY <1>2, <2>2 DEF AloneInv, OwnershipInv, CacheHolds, CellOK, Answered, OwnerFindsRecord, ProviderAgrees
  <2>4. \A k \in Nodes : f.prov \in Configured[k]
    BY <2>2, <2>3 DEF AloneInv, OnlyConfigured
  <2>5. pc[t] = "idle" /\ todo[t] = {} /\ unread[t] = {}
    BY <1>0, <1>2 DEF Answered, MainFinds
  <2>6. /\ Alone(t) /\ pc'[t] = l /\ cur'[t] = f.msg /\ prov'[t] = f.prov
        /\ todo'[t] = {} /\ unread'[t] = {}
    BY <1>0, <1>2, <2>3, <2>5 DEF Answered, Alone, ThreadsTypeOK
  <2>7. MainFinds(t)'
    BY <2>1, <2>3, <2>6 DEF MainFinds, RecordsStay, HasRecord
  <2> HIDE DEF t
  <2> QED BY <1>0, <2>1, <2>4, <2>6, <2>7 DEF Harmless, RecordsStay, HasRecord
<1> QED BY <1>1, <1>2

\* The drop of a record: the message is in no set, and on no list of the main thread.
LEMMA DropKeeps ==
    ASSUME ByItself, AloneInv, TypeOK', OwnershipInv', NEW t \in Threads, Drop(t)
    PROVE  AloneInv'
<1>0. /\ TypeOK /\ ThreadsTypeOK /\ StoreTypeOK /\ IsMain(t) /\ pc[t] = "drop"
      /\ cur[t] \in Msgs /\ ~ InSomeSet(cur[t])
  <2>1. IsMain(t) /\ TypeOK /\ pc[t] = "drop" /\ SingleOwner
    BY DEF Drop, AloneInv, OwnershipInv, MainOnly, CallbackPcs
  <2>2. cur[t] \in Msgs
    BY <2>1 DEF TypeOK, WorkOK, CallbackPcs
  <2> QED BY <2>1, <2>2 DEF SingleOwner, Held, Holds, OwnerPcs, TypeOK
<1>1. /\ Alone(t) /\ AtRest(t) /\ up' = up /\ failed' = failed
      /\ pc'[t] = "idle"
  BY <1>0, EndEffect DEF Drop, DropRecord, nodeVars, Finish, Leave, ThreadsTypeOK
<1>2. /\ type' = [type EXCEPT ![cur[t]] = NoType]
      /\ attempts' = [attempts EXCEPT ![cur[t]] = 0]
  BY DEF Drop, DropRecord
<1>3. \A u \in Threads : pc'[u] \in MainOnly => IsMain(u)
  BY <1>0, <1>1 DEF AloneInv, Alone
<1>4. \A n \in Nodes : Main(n) = t
  BY <1>0, MainIsThread, OneMain
<1>5. \A n \in Nodes : up'[n] /\ pc'[Main(n)] # "unwind" /\ MainFinds(Main(n))'
  <2>1. MainFinds(t)'
    BY <1>1 DEF AtRest, MainFinds
  <2>2. ASSUME NEW n \in Nodes PROVE MainFinds(Main(n))'
    BY <1>4, <2>1 DEF MainFinds
  <2> QED BY <1>1, <1>4, <2>2 DEF AloneInv
<1>6. FailedIsCounted'
  <2>1. \A m \in Msgs : (InSomeSet(m)' <=> InSomeSet(m)) /\ (InSomeSet(m) => attempts'[m] = attempts[m])
    BY <1>0, <1>1, <1>2 DEF InSomeSet, StoreTypeOK
  <2>2. \A u \in Threads : pc[u] = "incr" => pc'[u] = "incr" /\ cur'[u] = cur[u]
    BY <1>0, <1>1 DEF Alone
  <2> QED BY <2>1, <2>2 DEF AloneInv, FailedIsCounted
<1>7. OnlyConfigured'
  <2>1. \A m \in Msgs : HasRecord(m)' => type'[m] = type[m] /\ HasRecord(m)
    BY <1>0, <1>2 DEF HasRecord, StoreTypeOK
  <2>2. \A u \in Threads : prov'[u] \in {NoType, prov[u]}
    BY <1>1 DEF Alone, AtRest
  <2> QED BY <2>1, <2>2 DEF AloneInv, OnlyConfigured
<1> QED BY <1>3, <1>5, <1>6, <1>7 DEF AloneInv

\* AloneInv is inductive.
LEMMA AloneNext == ByItself /\ AloneInv /\ [Next]_vars => AloneInv'
<1> SUFFICES ASSUME ByItself, AloneInv, [Next]_vars PROVE AloneInv'
  OBVIOUS
<1>1. OwnershipInv' /\ TypeOK'
  BY OwnershipNext DEF AloneInv, OwnershipInv
<1>2. CASE UNCHANGED vars
  <2>1. UNCHANGED <<up, type, attempts, failed, pc, cur, prov, todo, unread>>
    BY <1>2 DEF vars, storeVars, nodeVars, locals
  <2> QED
    BY <1>1, <2>1
    DEF AloneInv, MainFinds, Listable, HasRecord, FailedIsCounted, InSomeSet, OnlyConfigured
<1>3. ASSUME NEW t \in Threads,
             \/ \E p \in Providers : StartPush(t, p)
             \/ \E S \in SUBSET Msgs : StartRedeliver(t, S)
             \/ ThreadStep(t) /\ ~ Fatal(t)
      PROVE  AloneInv'
  BY <1>1, <1>3, PushHarmless, RedeliverHarmless, CallbackHarmless, DropKeeps, HarmlessKeeps
  DEF ThreadStep, Fatal
<1>4. ASSUME NEW n \in Nodes,
             TimerFires(n) \/ \E f \in inflight : f.node = n /\ \E l \in {"sent", "drop", "mark"} : Answered(f, l)
      PROVE  AloneInv'
  BY <1>1, <1>4, MainIsThread, WakeHarmless, HarmlessKeeps
<1>5. \A f \in inflight : f.node \in Nodes
  BY DEF AloneInv, OwnershipInv, TypeOK, NodesTypeOK, Posts
<1> QED BY <1>2, <1>3, <1>4, <1>5, LiveSteps

\* At first nothing is stored, held or listed.
LEMMA AloneInit == Init => AloneInv
<1> SUFFICES ASSUME Init PROVE AloneInv
  OBVIOUS
<1>1. OwnershipInv
  BY OwnershipInit
<1>2. \A n \in Nodes : up[n] /\ pc[Main(n)] = "idle" /\ MainFinds(Main(n))
  BY MainIsThread DEF Init, MainFinds
<1> QED
  BY <1>1, <1>2
  DEF AloneInv, Init, StoreInit, MainOnly, CallbackPcs, FailedIsCounted, InSomeSet, OnlyConfigured, HasRecord

\* Of a node by itself: what its main thread looks for is there.
THEOREM AloneInvariant == ASSUME ByItself PROVE Spec => []AloneInv
BY AloneInit, AloneNext, PTL DEF Spec

\* No exception of a callback or of the timer reaches io_.run(), whatever the messages,
\* the workers, the order of answers and what clients redeliver.
THEOREM MainNeverDiesHolds == ASSUME ByItself PROVE Spec => []MainNeverDies
<1>1. AloneInv => MainNeverDies
  BY DEF AloneInv, MainNeverDies
<1> QED BY <1>1, AloneInvariant, PTL

\* No message is forgotten: one that is not settled has an owner or is listed as failed.
THEOREM NothingLostHolds == ASSUME ByItself PROVE Spec => []NothingLost
<1> DEFINE Step == \A m \in Msgs : Stage[m] # "lost" /\ Stage'[m] = "lost" =>
                        \/ faults' > faults
                        \/ \E n \in Nodes : up[n] /\ ~ up'[n]
                        \/ \E n \in Nodes : pc[Main(n)] # "unwind" /\ pc'[Main(n)] = "unwind"
<1>1. Spec => [][Step]_vars
  BY OnlyDeathLosesHolds DEF OnlyDeathLoses
<1>2. Init => NothingLost
  BY DEF Init, StoreInit, NothingLost, Stage
<1>3. AloneInv /\ AloneInv' /\ NothingLost /\ [Next /\ Step]_vars => NothingLost'
  <2> SUFFICES ASSUME AloneInv, AloneInv', NothingLost, [Next /\ Step]_vars, NEW m \in Msgs
               PROVE  Stage'[m] # "lost"
    BY DEF NothingLost
  <2>1. CASE UNCHANGED vars
    <3>1. Stage' = Stage
      BY <2>1 DEF vars, storeVars, nodeVars, locals, Stage, HasRecord, InSomeSet, Held, Holds, Posted
    <3> QED BY <3>1 DEF NothingLost
  <2>2. CASE Step
    <3>1. ~ faults' > faults
      BY DEF AloneInv, OwnershipInv, TypeOK, HistoryTypeOK, ByItself
    <3> QED BY <2>2, <3>1 DEF AloneInv, NothingLost
  <2> QED BY <2>1, <2>2
<1> QED BY <1>1, <1>2, <1>3, AloneInvariant, PTL DEF Spec

(***************************************************************************)
(* The limit                                                               *)
(***************************************************************************)

\* What thread t does to message m leaves m as far from being posted as it was.
LimitCalm(t, m) ==
    /\ tries'[m] = tries[m] /\ attempts'[m] = attempts[m]
    /\ Posting(t, m)' => Posting(t, m)
    /\ InWindow(t, m) => InWindow(t, m)' \/ ~ InSomeSet(m)'
    /\ InSomeSet(m)' => InSomeSet(m) \/ InWindow(t, m)'
    /\ (t \in Counting(m))' => t \in Counting(m) \/ Posted(m)
    /\ Posted(m)' => Posted(m)

LEMMA LimitCalmKeeps ==
    ASSUME NEW t \in Threads, Alone(t), NEW m \in Msgs, InLimit(m), LimitCalm(t, m)
    PROVE  InLimit(m)'
<1>1. Postable(m)' => Postable(m)
  <2>1. \A u \in Threads : Posting(u, m)' => Posting(u, m)
    BY DEF LimitCalm, Alone, Posting
  <2>2. ASSUME InSomeSet(m)', ~ \E u \in Threads : InWindow(u, m)'
        PROVE  InSomeSet(m) /\ ~ \E u \in Threads : InWindow(u, m)
    BY <2>2 DEF LimitCalm, Alone, InWindow
  <2> QED BY <2>1, <2>2 DEF Postable
<1>2. Unsettled(m)' => Unsettled(m)
  BY DEF LimitCalm, Alone, Unsettled, Counting
<1> QED BY <1>1, <1>2 DEF InLimit, LimitCalm

\* A step of another message's is calm.
LEMMA OtherCalm ==
    ASSUME NEW t \in Threads, NEW m \in Msgs,
           tries'[m] = tries[m], attempts'[m] = attempts[m], cur[t] # m, cur'[t] # m,
           InSomeSet(m)' => InSomeSet(m), Posted(m)' => Posted(m)
    PROVE  LimitCalm(t, m)
BY DEF LimitCalm, Posting, InWindow, Counting

\* So is one that ends a handler, when it does not end in the window.
LEMMA EndCalmly ==
    ASSUME NEW t \in Threads, AtRest(t), pc[t] \notin WindowPcs, NEW m \in Msgs,
           tries'[m] = tries[m], attempts'[m] = attempts[m],
           InSomeSet(m)' => InSomeSet(m), Posted(m)' => Posted(m)
    PROVE  LimitCalm(t, m)
BY PushyAssumption DEF AtRest, LimitCalm, Posting, InWindow, Counting

\* The steps that neither post, take, count nor drop.
LEMMA LimitCalmSteps ==
    ASSUME ByItself, LimitInv, NEW t \in Threads,
           \/ \E p \in Providers : StartPush(t, p)
           \/ TakeIdent(t) \/ CacheInsert(t)
           \/ ListFailed(t) \/ ReadListed(t) \/ NextListed(t) \/ CheckFailed(t)
           \/ LogSettled(t) \/ MarkRead(t) \/ MarkFailed(t) \/ GiveUpCheck(t) \/ GiveUp(t) \/ LogFailure(t)
    PROVE  \A m \in Msgs : LimitCalm(t, m)
<1> SUFFICES ASSUME NEW m \in Msgs PROVE LimitCalm(t, m)
  OBVIOUS
<1> USE DEF storeVars, nodeVars, history, InSomeSet, Posted, Pcs, PushPcs, ListPcs, TakePcs, CallbackPcs, WindowPcs
<1>0. /\ TypeOK /\ ThreadsTypeOK /\ StoreTypeOK /\ AloneInv
      /\ Resting(t) /\ m # NoMsg
  BY PushyAssumption DEF LimitInv, AloneInv, OwnershipInv, TypeOK
<1>1. ASSUME NEW l \in Pcs, Goto(t, l), UNCHANGED <<tries, attempts, failed, inflight>>,
             l \in {"insert", "post"} => pc[t] \in {"ident", "insert"}, l # "ident",
             pc[t] \in WindowPcs => l \in {"gcheck", "gsrem"},
             l \in {"sadd", "incr"} => pc[t] \in {"mark", "sadd"}, l # "mark"
      PROVE  LimitCalm(t, m)
  BY <1>0, <1>1, GotoEffect DEF LimitCalm, Posting, InWindow, Counting
<1>2. ASSUME Finish(t) \/ Throw(t), UNCHANGED <<tries, attempts, failed, inflight>>, pc[t] \notin WindowPcs
      PROVE  LimitCalm(t, m)
  BY <1>0, <1>2, EndEffect, EndCalmly
<1>3. ASSUME NEW p \in Providers, StartPush(t, p) PROVE LimitCalm(t, m)
  BY <1>0, <1>3 DEF StartPush, Resting, LimitCalm, Posting, InWindow, Counting, ThreadsTypeOK
<1>4. CASE TakeIdent(t)
  BY <1>0, <1>4 DEF TakeIdent, LimitCalm, Posting, InWindow, Counting, ThreadsTypeOK
<1>5. CASE CacheInsert(t)
  BY <1>1, <1>5 DEF CacheInsert
<1>6. CASE ListFailed(t)
  BY <1>0, <1>6 DEF ListFailed, LimitCalm, Posting, InWindow, Counting, ThreadsTypeOK
<1>7. CASE ReadListed(t)
  <2>1. CASE Goto(t, "next")
    BY <1>1, <1>7, <2>1 DEF ReadListed
  <2>2. CASE Throw(t)
    BY <1>2, <1>7, <2>2 DEF ReadListed
  <2>3. CASE ~ Goto(t, "next") /\ ~ Throw(t)
    BY <1>0, <1>7, <2>3 DEF ReadListed, LimitCalm, Posting, InWindow, Counting, ThreadsTypeOK
  <2> QED BY <2>1, <2>2, <2>3
<1>8. CASE NextListed(t)
  <2>1. CASE Finish(t)
    BY <1>2, <1>8, <2>1 DEF NextListed
  <2>2. CASE ~ Finish(t)
    BY <1>0, <1>8, <2>2 DEF NextListed, LimitCalm, Posting, InWindow, Counting, ThreadsTypeOK
  <2> QED BY <2>1, <2>2
<1>9. CASE CheckFailed(t) \/ LogSettled(t) \/ MarkRead(t) \/ LogFailure(t)
  BY <1>1, <1>2, <1>9 DEF CheckFailed, LogSettled, MarkRead, LogFailure
<1>10. CASE GiveUpCheck(t)
  <2>1. HasRecord(cur[t])
    BY <1>0, <1>10, MainHasRecord DEF GiveUpCheck, AloneInv, MainOnly
  <2> QED BY <1>1, <1>10, <2>1 DEF GiveUpCheck
<1>11. CASE MarkFailed(t)
  <2>1. /\ Alone(t) /\ pc'[t] = "incr" /\ cur' = cur /\ pc[t] = "sadd"
        /\ UNCHANGED <<tries, attempts, inflight>>
        /\ \A p \in Providers : failed'[p] \subseteq failed[p] \cup {cur[t]}
    BY <1>0, <1>11, GotoEffect DEF MarkFailed, AddFailed, StoreTypeOK
  <2> QED BY <2>1 DEF LimitCalm, Posting, InWindow, Counting
<1>12. CASE GiveUp(t)
  <2>1. InFailed(cur[t], prov[t])
    BY <1>0, <1>12, PushyAssumption
    DEF GiveUp, LimitInv, WindowListed, AloneInv, OwnershipInv, FailedIsLive, ProviderAgrees, ProviderOK, InFailed,
        TypeOK, WorkOK, HasRecord, Providers, NoType
  <2>2. pc[t] = "gsrem" /\ \E l \in {"logperm", "drop"} : Goto(t, l)
    BY <1>12, <2>1 DEF GiveUp
  <2>3. /\ Alone(t) /\ pc'[t] \in {"logperm", "drop"} /\ cur' = cur
    BY <1>0, <2>2, GotoEffect
  <2>4. cur[t] \in Msgs /\ prov[t] \in Providers
    BY <1>0, <2>2 DEF TypeOK, WorkOK
  <2>5. ~ \E p \in Providers : cur[t] \in failed'[p]
    BY <1>0, <1>12, <2>1, <2>4
    DEF GiveUp, RemoveFailed, InFailed, StoreTypeOK, AloneInv, OwnershipInv, SingleOwner
  <2>6. UNCHANGED <<tries, attempts, inflight>> /\ \A p \in Providers : failed'[p] \subseteq failed[p]
    BY <1>0, <1>12, <2>4 DEF GiveUp, RemoveFailed, StoreTypeOK
  <2> QED BY <2>2, <2>3, <2>5, <2>6 DEF LimitCalm, Posting, InWindow, Counting
<1> QED BY <1>3, <1>4, <1>5, <1>6, <1>7, <1>8, <1>9, <1>10, <1>11, <1>12

\* The answer of the library and the timer are calm as well.
LEMMA WakeCalm ==
    ASSUME ByItself, LimitInv, NEW n \in Nodes,
           TimerFires(n) \/ \E f \in inflight : f.node = n /\ \E l \in {"sent", "drop", "mark"} : Answered(f, l)
    PROVE  \A m \in Msgs : LimitCalm(Main(n), m)
<1> DEFINE t == Main(n)
<1> SUFFICES ASSUME NEW m \in Msgs PROVE LimitCalm(t, m)
  OBVIOUS
<1> USE DEF InSomeSet, Posted, WindowPcs
<1>0. /\ TypeOK /\ ThreadsTypeOK /\ NodesTypeOK /\ t \in Threads /\ m # NoMsg
      /\ pc[t] = "idle" => cur[t] = NoMsg
  BY MainIsThread, PushyAssumption DEF LimitInv, AloneInv, OwnershipInv, TypeOK, Resting
<1>1. CASE TimerFires(n)
  BY <1>0, <1>1 DEF TimerFires, storeVars, nodeVars, history, ThreadsTypeOK, LimitCalm, Posting, InWindow, Counting
<1>2. ASSUME NEW f \in inflight, f.node = n, NEW l \in {"sent", "drop", "mark"}, Answered(f, l)
      PROVE  LimitCalm(t, m)
  <2>1. Lookup(f) = f.msg
    BY <1>2 DEF LimitInv, AloneInv, OwnershipInv, CacheHolds, CellOK, Answered
  <2>2. pc'[t] = l /\ cur'[t] = f.msg /\ pc[t] = "idle" /\ cur[t] = NoMsg
    BY <1>0, <1>2, <2>1 DEF Answered, ThreadsTypeOK
  <2>3. UNCHANGED <<tries, attempts, failed>> /\ inflight' \subseteq inflight
    BY <1>2 DEF Answered, storeVars, history
  <2>4. (t \in Counting(m))' => Posted(m)
    BY <2>2 DEF Counting
  <2> HIDE DEF t
  <2> QED BY <1>0, <2>2, <2>3, <2>4 DEF LimitCalm, Posting, InWindow
<1> QED BY <1>1, <1>2

\* The HMSET of a new message: it was never posted nor counted.
LEMMA WriteInLimit ==
    ASSUME LimitInv, Limit > 0, NEW t \in Threads, PushWrite(t)
    PROVE  \A m \in Msgs : InLimit(m)'
<1> USE DEF InSomeSet, Posted
<1>0. TypeOK /\ ThreadsTypeOK /\ StoreTypeOK /\ HistoryTypeOK /\ pc[t] = "write" /\ cur[t] = NoMsg
  BY DEF LimitInv, AloneInv, OwnershipInv, TypeOK, PushWrite, Resting
<1>1. PICK k \in Msgs \ issued : WriteRecord(k, prov[t]) /\ cur' = [cur EXCEPT ![t] = k]
  BY DEF PushWrite
<1>2. /\ Alone(t) /\ pc'[t] \in {"ident", "insert"} /\ cur'[t] = k
      /\ UNCHANGED <<tries, attempts, failed, inflight>>
  BY <1>0, <1>1 DEF PushWrite, WriteRecord, ThreadsTypeOK, Alone, nodeVars, history
<1>3. /\ tries[k] = 0 /\ attempts[k] = 0
      /\ ~ Posted(k) /\ \A u \in Threads : u \notin Counting(k)
  <2>1. ~ tries[k] > 0 /\ ~ Posted(k) /\ \A u \in Threads : cur[u] # k
    BY <1>1, PushyAssumption DEF LimitInv, AloneInv, OwnershipInv, IssuedFirst
  <2>2. tries[k] \in Nat /\ attempts[k] \in Nat /\ IsFiniteSet(Counting(k)) /\ attempts[k] + Uncounted(k) <= tries[k]
    BY <1>0 DEF StoreTypeOK, HistoryTypeOK, LimitInv, CountInv, CountedOnce
  <2>3. Uncounted(k) \in Nat
    BY <2>2, UncountedType
  <2> QED BY <2>1, <2>2, <2>3 DEF Counting
<1>4. InLimit(k)'
  <2>1. ~ Unsettled(k)'
    BY <1>2, <1>3 DEF Unsettled, Counting, Alone
  <2> QED BY <1>2, <1>3, <2>1, PushyAssumption DEF InLimit
<1>5. ASSUME NEW m \in Msgs, m # k PROVE InLimit(m)'
  <2>1. LimitCalm(t, m)
    BY <1>0, <1>2, <1>5, PushyAssumption, OtherCalm
  <2> QED BY <1>2, <2>1, LimitCalmKeeps DEF LimitInv
<1> QED BY <1>4, <1>5

\* A post: what could be posted was posted as often as it was counted.
LEMMA PostInLimit ==
    ASSUME LimitInv, NEW t \in Threads, Post(t)
    PROVE  \A m \in Msgs : InLimit(m)'
<1> USE DEF InSomeSet
<1>0. /\ TypeOK /\ ThreadsTypeOK /\ StoreTypeOK /\ HistoryTypeOK /\ pc[t] = "post" /\ cur[t] \in Msgs
      /\ SingleOwner /\ Holds(t, cur[t])
  BY DEF LimitInv, AloneInv, OwnershipInv, TypeOK, WorkOK, Post, Holds, OwnerPcs
<1>1. PICK k \in Msgs : k = cur[t]
  BY <1>0
<1>2. /\ Alone(t) /\ pc'[t] \in {"idle", "unwind", "next"} /\ cur'[t] = NoMsg
      /\ UNCHANGED <<attempts, failed>>
  BY <1>0, ProceedEffect DEF Post, AtRest, storeVars
<1>3. tries[k] <= attempts[k] /\ attempts[k] < Limit
  BY <1>0, <1>1 DEF LimitInv, InLimit, Postable, Posting
<1>4. ~ InSomeSet(k) /\ \A u \in Threads : u # t => ~ Posting(u, k)
  BY <1>0, <1>1 DEF SingleOwner, Held, Holds, OwnerPcs, Posting
<1>5. InLimit(k)'
  <2>1. ~ Postable(k)'
    BY <1>0, <1>2, <1>4, PushyAssumption DEF Postable, Posting, Alone
  <2>2. tries'[k] = tries[k] + 1 /\ tries[k] \in Nat /\ attempts[k] \in Nat /\ attempts'[k] = attempts[k]
    BY <1>0, <1>2, <1>1 DEF Post, HistoryTypeOK, StoreTypeOK
  <2> QED BY <1>3, <2>1, <2>2, PushyAssumption DEF InLimit
<1>6. ASSUME NEW m \in Msgs, m # k PROVE InLimit(m)'
  <2>1. tries'[m] = tries[m] /\ (Posted(m)' => Posted(m))
    BY <1>0, <1>6, <1>1 DEF Post, HistoryTypeOK, Posted
  <2>2. LimitCalm(t, m)
    BY <1>0, <1>2, <1>6, <1>1, <2>1, PushyAssumption, OtherCalm
  <2> QED BY <1>2, <2>2, LimitCalmKeeps DEF LimitInv
<1> QED BY <1>5, <1>6

\* An SREM: what it takes could be posted already, no callback is busy with it.
LEMMA TakeInLimit ==
    ASSUME ByItself, LimitInv, NEW t \in Threads, TakeFailed(t)
    PROVE  \A m \in Msgs : InLimit(m)'
<1> USE DEF InSomeSet
<1>0. /\ TypeOK /\ ThreadsTypeOK /\ StoreTypeOK /\ pc[t] = "srem" /\ cur[t] \in Msgs /\ prov[t] \in Providers
      /\ IsMain(t)
  BY DEF LimitInv, WorkersPush, AloneInv, OwnershipInv, TypeOK, WorkOK, TakeFailed, TakePcs, PushPcs
<1>1. /\ Alone(t) /\ UNCHANGED <<tries, attempts, inflight>>
      /\ \A p \in Providers : failed'[p] \subseteq failed[p]
  BY <1>0, GotoEffect, ProceedEffect DEF TakeFailed, RemoveFailed, StoreTypeOK, nodeVars, history, Pcs, PushPcs
<1>2. CASE InFailed(cur[t], prov[t])
  <2>1. pc'[t] = "ident" /\ cur'[t] = cur[t]
    BY <1>0, <1>2, GotoEffect DEF TakeFailed, Pcs, PushPcs
  <2>2. Postable(cur[t])
    <3>1. ASSUME NEW u \in Threads, InWindow(u, cur[t]) PROVE FALSE
      <4>1. IsMain(u)
        BY <3>1 DEF InWindow, WindowPcs, LimitInv, AloneInv, MainOnly, CallbackPcs
      <4> QED BY <1>0, <3>1, <4>1, OneMain DEF InWindow, WindowPcs
    <3> QED BY <1>0, <1>2, <3>1 DEF InFailed, Postable
  <2>3. InLimit(cur[t])'
    <3>1. Unsettled(cur[t])' => Unsettled(cur[t])
      <4>1. \A u \in Threads : (u \in Counting(cur[t]))' => u \in Counting(cur[t])
        BY <1>1, <2>1 DEF Alone, Counting
      <4> QED BY <1>1, <2>1, <4>1 DEF Unsettled, Posted
    <3> QED BY <1>0, <1>1, <2>1, <2>2, <3>1 DEF LimitInv, InLimit
  <2>4. ASSUME NEW m \in Msgs, m # cur[t] PROVE InLimit(m)'
    <3>1. LimitCalm(t, m)
      BY <1>1, <2>1, <2>4, OtherCalm DEF Posted
    <3> QED BY <1>1, <3>1, LimitCalmKeeps DEF LimitInv
  <2>5. cur'[t] = cur[t]
    BY <2>1
  <2> QED BY <2>3, <2>4, <2>5
<1>3. CASE ~ InFailed(cur[t], prov[t])
  <2>1. pc'[t] \in {"idle", "unwind", "next"} /\ cur'[t] = NoMsg
    BY <1>0, <1>3, ProceedEffect DEF TakeFailed, AtRest
  <2>2. ASSUME NEW m \in Msgs PROVE LimitCalm(t, m)
    BY <1>0, <1>1, <2>1, PushyAssumption DEF LimitCalm, Posting, InWindow, WindowPcs, Counting, Posted
  <2> QED BY <1>1, <2>2, LimitCalmKeeps DEF LimitInv
<1> QED BY <1>2, <1>3

\* HINCRBY: below the limit the message may be posted again, counted as it is; at the
\* limit its thread stays in the window.
LEMMA CountInLimit ==
    ASSUME ByItself, LimitInv, Redeliver, NEW t \in Threads, CountFailure(t)
    PROVE  \A m \in Msgs : InLimit(m)'
<1>0. /\ TypeOK /\ ThreadsTypeOK /\ StoreTypeOK /\ HistoryTypeOK /\ SingleOwner
      /\ pc[t] = "incr" /\ cur[t] \in Msgs /\ InSomeSet(cur[t]) /\ IsMain(t)
  BY DEF LimitInv, WindowListed, AloneInv, OwnershipInv, TypeOK, WorkOK, CountFailure, CallbackPcs, MainOnly, WindowPcs
<1>1. PICK k \in Msgs : k = cur[t]
  BY <1>0
<1>2. /\ Alone(t) /\ tries' = tries /\ inflight' = inflight /\ failed' = failed
      /\ attempts' = [attempts EXCEPT ![k] = @ + 1]
  BY <1>0, <1>1, GotoEffect, EndEffect
  DEF CountFailure, CountAttempt, nodeVars, history, Pcs, CallbackPcs
<1>3. \/ pc'[t] = "gcheck" /\ cur'[t] = k
      \/ /\ attempts[k] + 1 < Limit
         /\ pc'[t] \in {"idle", "unwind", "logfail"} /\ cur'[t] \in {NoMsg, k}
  <2>1. CASE LimitReached(attempts[k] + 1)
    BY <1>0, <1>1, <2>1, GotoEffect DEF CountFailure, Pcs, CallbackPcs
  <2>2. CASE ~ LimitReached(attempts[k] + 1)
    <3>1. attempts[k] + 1 < Limit
      BY <1>0, <1>1, <2>2, PushyAssumption DEF LimitReached, StoreTypeOK
    <3>2. Finish(t) \/ Goto(t, "logfail")
      BY <1>1, <2>2 DEF CountFailure
    <3> QED BY <1>0, <1>1, <3>1, <3>2, GotoEffect, EndEffect DEF AtRest, Pcs, CallbackPcs
  <2> QED BY <2>1, <2>2
<1>4. /\ tries[k] \in Nat /\ attempts[k] \in Nat /\ attempts'[k] = attempts[k] + 1
      /\ tries[k] <= attempts[k] + 1 /\ tries[k] <= Limit
  <2>1. Unsettled(k)
    BY <1>0, <1>1 DEF Unsettled, Counting
  <2> QED BY <1>0, <1>2, <2>1 DEF LimitInv, InLimit, StoreTypeOK, HistoryTypeOK
<1>5. ~ Held(k) /\ ~ Posted(k)
  BY <1>0, <1>1 DEF SingleOwner
<1>6. InLimit(k)'
  <2>1. \A u \in Threads : ~ Posting(u, k)'
    BY <1>2, <1>3, <1>5, PushyAssumption DEF Held, Holds, OwnerPcs, Posting, Alone
  <2>2. ~ Unsettled(k)'
    <3>1. ASSUME NEW u \in Threads, u # t, (u \in Counting(k))' PROVE FALSE
      <4>1. pc[u] \in {"mark", "sadd", "incr"} /\ cur[u] = k
        BY <1>2, <3>1 DEF Counting, Alone
      <4>2. IsMain(u)
        BY <4>1 DEF LimitInv, AloneInv, MainOnly, CallbackPcs
      <4> QED BY <1>0, <3>1, <4>2, OneMain
    <3>2. t \notin Counting(k)'
      BY <1>3 DEF Counting
    <3> QED BY <1>2, <1>5, <3>1, <3>2 DEF Unsettled, Posted
  <2>3. Postable(k)' => attempts[k] + 1 < Limit
    BY <1>3, <2>1 DEF Postable, InWindow, WindowPcs
  <2> QED BY <1>2, <1>4, <2>2, <2>3 DEF InLimit
<1>7. ASSUME NEW m \in Msgs, m # k PROVE InLimit(m)'
  <2>1. LimitCalm(t, m)
    BY <1>0, <1>1, <1>2, <1>3, <1>7, PushyAssumption, OtherCalm DEF StoreTypeOK, InSomeSet, Posted
  <2> QED BY <1>2, <2>1, LimitCalmKeeps DEF LimitInv
<1> QED BY <1>6, <1>7

\* The drop of a record: its message is not posted again.
LEMMA DropInLimit ==
    ASSUME ByItself, LimitInv, NEW t \in Threads, Drop(t)
    PROVE  \A m \in Msgs : InLimit(m)'
<1>0. /\ TypeOK /\ ThreadsTypeOK /\ StoreTypeOK /\ SingleOwner
      /\ pc[t] = "drop" /\ cur[t] \in Msgs /\ IsMain(t)
  BY DEF LimitInv, AloneInv, OwnershipInv, TypeOK, WorkOK, Drop, CallbackPcs, MainOnly
<1>1. PICK k \in Msgs : k = cur[t]
  BY <1>0
<1>2. /\ Alone(t) /\ AtRest(t) /\ tries' = tries /\ inflight' = inflight /\ failed' = failed
      /\ attempts' = [attempts EXCEPT ![k] = 0]
  BY <1>0, <1>1, EndEffect DEF Drop, DropRecord, nodeVars, history
<1>3. Holds(t, k) /\ ~ Posted(k) /\ ~ InSomeSet(k)
  BY <1>0, <1>1 DEF SingleOwner, Held, Holds, OwnerPcs
<1>4. InLimit(k)'
  <2>1. ASSUME NEW u \in Threads, Posting(u, k)' \/ u \in Counting(k)' PROVE FALSE
    <3>1. u # t /\ pc[u] \in {"ident", "insert", "post", "mark", "sadd", "incr"} /\ cur[u] = k
      BY <1>2, <2>1, PushyAssumption DEF AtRest, Alone, Posting, Counting
    <3>2. CASE pc[u] = "incr"
      <4>1. IsMain(u)
        BY <3>2 DEF LimitInv, AloneInv, MainOnly, CallbackPcs
      <4> QED BY <1>0, <3>1, <4>1, OneMain
    <3>3. CASE pc[u] # "incr"
      BY <1>0, <1>3, <3>1, <3>3 DEF SingleOwner, Holds, OwnerPcs
    <3> QED BY <3>2, <3>3
  <2>2. ~ Postable(k)' /\ ~ Unsettled(k)'
    BY <1>2, <1>3, <2>1 DEF Postable, Unsettled, InSomeSet, Posted
  <2> QED BY <1>2, <2>2 DEF LimitInv, InLimit
<1>5. ASSUME NEW m \in Msgs, m # k PROVE InLimit(m)'
  <2>1. LimitCalm(t, m)
    BY <1>0, <1>1, <1>2, <1>5, PushyAssumption, OtherCalm DEF AtRest, StoreTypeOK, InSomeSet, Posted
  <2> QED BY <1>2, <2>1, LimitCalmKeeps DEF LimitInv
<1> QED BY <1>4, <1>5

\* Steps of a worker.
LEMMA WorkerSteps ==
    ASSUME LimitInv, ~ ManualRedelivery, NEW t \in Threads, ~ IsMain(t),
           \/ \E p \in Providers : StartPush(t, p)
           \/ \E S \in SUBSET Msgs : StartRedeliver(t, S)
           \/ ThreadStep(t) /\ ~ Fatal(t)
    PROVE  /\ (\E p \in Providers : StartPush(t, p)) \/ PushWrite(t) \/ TakeIdent(t) \/ CacheInsert(t) \/ Post(t)
           /\ pc'[t] \in {"idle"} \cup PushPcs /\ todo'[t] = {}
           /\ failed' = failed
<1>0. ThreadsTypeOK /\ pc[t] \in {"idle"} \cup PushPcs /\ todo[t] = {}
  BY DEF LimitInv, WorkersPush, AloneInv, OwnershipInv, TypeOK
<1>1. (\E p \in Providers : StartPush(t, p)) \/ PushWrite(t) \/ TakeIdent(t) \/ CacheInsert(t) \/ Post(t)
  BY <1>0
  DEF PushPcs, StartRedeliver, ThreadStep, Fatal, NextRequested, ListFailed, ReadListed, NextListed, CheckFailed,
      TakeFailed, LogSettled, Drop, MarkRead, MarkFailed, CountFailure, GiveUpCheck, GiveUp, LogFailure
<1>2. failed' = failed
  BY <1>1 DEF StartPush, PushWrite, WriteRecord, TakeIdent, CacheInsert, Post, storeVars
<1>3. CASE Post(t)
  <2>1. Finish(t)
    BY <1>0, <1>3 DEF Post, Proceed
  <2> QED BY <1>0, <1>1, <1>2, <2>1 DEF Finish, Leave, ThreadsTypeOK
<1>4. CASE CacheInsert(t)
  BY <1>0, <1>1, <1>2, <1>4, GotoEffect DEF CacheInsert, Pcs, PushPcs
<1>5. CASE (\E p \in Providers : StartPush(t, p)) \/ PushWrite(t) \/ TakeIdent(t)
  BY <1>0, <1>1, <1>2, <1>5 DEF StartPush, PushWrite, TakeIdent, PushPcs, ThreadsTypeOK
<1> QED BY <1>1, <1>3, <1>4, <1>5

\* A worker's step keeps them.
LEMMA WorkerKeeps ==
    ASSUME LimitInv, ~ ManualRedelivery, NEW t \in Threads, ~ IsMain(t), Alone(t),
           \/ \E p \in Providers : StartPush(t, p)
           \/ \E S \in SUBSET Msgs : StartRedeliver(t, S)
           \/ ThreadStep(t) /\ ~ Fatal(t)
    PROVE  WorkersPush' /\ WindowListed'
<1>1. pc'[t] \in {"idle"} \cup PushPcs /\ todo'[t] = {} /\ failed' = failed
  BY WorkerSteps
<1>2. WorkersPush'
  BY <1>1 DEF LimitInv, WorkersPush, Alone
<1>3. WindowListed'
  BY <1>1 DEF LimitInv, WindowListed, Alone, InSomeSet, PushPcs, WindowPcs
<1> QED BY <1>2, <1>3

\* The main thread has the only message in the window, and takes it out of its set when
\* it leaves the window for the give-up.
LEMMA MainKeeps ==
    ASSUME ByItself, LimitInv, NEW t \in Threads, IsMain(t), Alone(t),
           pc'[t] \in WindowPcs => InSomeSet(cur[t])' /\ cur'[t] = cur[t]
    PROVE  WorkersPush' /\ WindowListed'
<1>1. WorkersPush'
  BY DEF LimitInv, WorkersPush, Alone
<1>2. \A u \in Threads : u # t => pc'[u] \notin WindowPcs
  <2> SUFFICES ASSUME NEW u \in Threads, u # t, pc'[u] \in WindowPcs PROVE FALSE
    OBVIOUS
  <2>1. IsMain(u)
    BY DEF Alone, LimitInv, AloneInv, MainOnly, WindowPcs, CallbackPcs
  <2> QED BY <2>1, OneMain
<1> QED BY <1>1, <1>2 DEF WindowListed

\* Every step of a thread is its own.
LEMMA StepAlone ==
    ASSUME ByItself, AloneInv, TypeOK', NEW t \in Threads,
           \/ \E p \in Providers : StartPush(t, p)
           \/ \E S \in SUBSET Msgs : StartRedeliver(t, S)
           \/ ThreadStep(t) /\ ~ Fatal(t)
    PROVE  Alone(t)
<1>1. CASE Drop(t)
  BY <1>1, EndEffect DEF Drop, AloneInv, OwnershipInv, TypeOK
<1>2. CASE ~ Drop(t)
  <2>1. Harmless(t)
    BY <1>2, PushHarmless, RedeliverHarmless, CallbackHarmless DEF ThreadStep, Fatal
  <2> QED BY <2>1 DEF Harmless
<1> QED BY <1>1, <1>2

\* The main thread is in the window only with a message in its set.
LEMMA WindowSteps ==
    ASSUME LimitInv, NEW t \in Threads, ThreadStep(t), ~ Fatal(t), pc'[t] \in WindowPcs
    PROVE  InSomeSet(cur[t])' /\ cur'[t] = cur[t]
<1>0. TypeOK /\ ThreadsTypeOK /\ StoreTypeOK
  BY DEF LimitInv, AloneInv, OwnershipInv, TypeOK
<1> USE DEF WindowPcs, Pcs, PushPcs, ListPcs, TakePcs, CallbackPcs
<1>1. CASE MarkFailed(t)
  <2>1. cur[t] \in Msgs /\ prov[t] \in Providers /\ cur' = cur
    BY <1>0, <1>1, GotoEffect DEF MarkFailed, TypeOK, WorkOK
  <2> QED BY <1>0, <1>1, <2>1 DEF MarkFailed, AddFailed, StoreTypeOK, InSomeSet
<1>2. CASE CountFailure(t) \/ GiveUpCheck(t)
  <2>1. Goto(t, "gcheck") \/ Goto(t, "gsrem") \/ Goto(t, "logfail") \/ Finish(t) \/ Throw(t)
    BY <1>2 DEF CountFailure, GiveUpCheck
  <2>2. cur' = cur
    BY <1>0, <2>1, GotoEffect, EndEffect DEF AtRest
  <2>3. failed' = failed /\ InSomeSet(cur[t])
    BY <1>2 DEF CountFailure, CountAttempt, GiveUpCheck, storeVars, LimitInv, WindowListed
  <2> QED BY <2>2, <2>3 DEF InSomeSet
<1>3. ASSUME ~ MarkFailed(t), ~ CountFailure(t), ~ GiveUpCheck(t) PROVE FALSE
  <2>1. ASSUME (\E l \in Pcs \ WindowPcs : Goto(t, l)) \/ Finish(t) \/ Throw(t) \/ Proceed(t) PROVE FALSE
    BY <1>0, <2>1, GotoEffect, EndEffect, ProceedEffect DEF AtRest
  <2>2. CASE CacheInsert(t) \/ Post(t) \/ CheckFailed(t) \/ TakeFailed(t) \/ LogSettled(t) \/ Drop(t)
             \/ MarkRead(t) \/ GiveUp(t) \/ LogFailure(t)
    BY <2>1, <2>2 DEF CacheInsert, Post, CheckFailed, TakeFailed, LogSettled, Drop, MarkRead, GiveUp, LogFailure
  <2>3. CASE PushWrite(t) \/ TakeIdent(t) \/ ListFailed(t)
    BY <1>0, <2>3 DEF PushWrite, TakeIdent, ListFailed, ThreadsTypeOK
  <2>4. CASE NextRequested(t) \/ ReadListed(t) \/ NextListed(t)
    BY <1>0, <2>1, <2>4 DEF NextRequested, ReadListed, NextListed, ThreadsTypeOK
  <2> QED BY <1>3, <2>2, <2>3, <2>4 DEF ThreadStep, Fatal
<1> QED BY <1>1, <1>2, <1>3

\* LimitInv is inductive.
LEMMA LimitNext ==
    ASSUME ByItself, ~ ManualRedelivery, Redeliver, Limit > 0, LimitInv, [Next]_vars
    PROVE  LimitInv'
<1>0. AloneInv /\ CountInv /\ TypeOK
  BY DEF LimitInv, AloneInv, OwnershipInv
<1>1. AloneInv' /\ CountInv' /\ TypeOK'
  BY <1>0, AloneNext, CountNext DEF AloneInv, OwnershipInv
<1> DEFINE Kept == WorkersPush' /\ WindowListed' /\ \A m \in Msgs : InLimit(m)'
<1>2. ASSUME UNCHANGED vars PROVE Kept
  <2>1. UNCHANGED <<attempts, failed, tries, inflight, pc, cur, todo>>
    BY <1>2 DEF vars, storeVars, nodeVars, locals, history
  <2>2. WorkersPush' /\ WindowListed'
    BY <2>1 DEF LimitInv, WorkersPush, WindowListed, InSomeSet
  <2>3. ASSUME NEW m \in Msgs PROVE InLimit(m)'
    <3>1. (Postable(m)' <=> Postable(m)) /\ (Unsettled(m)' <=> Unsettled(m))
      BY <2>1 DEF Postable, Posting, InWindow, InSomeSet, Unsettled, Posted, Counting
    <3> QED BY <2>1, <3>1 DEF LimitInv, InLimit
  <2> QED BY <2>2, <2>3
<1>3. ASSUME NEW t \in Threads,
             \/ \E p \in Providers : StartPush(t, p)
             \/ \E S \in SUBSET Msgs : StartRedeliver(t, S)
             \/ ThreadStep(t) /\ ~ Fatal(t)
      PROVE  Kept
  <2>1. Alone(t)
    BY <1>0, <1>1, <1>3, StepAlone
  <2>2. WorkersPush' /\ WindowListed'
    <3>1. CASE ~ IsMain(t)
      BY <1>3, <2>1, <3>1, WorkerKeeps
    <3>2. CASE IsMain(t)
      <4>1. ThreadStep(t) /\ ~ Fatal(t)
        BY <1>3, <3>2 DEF StartPush, StartRedeliver
      <4> QED BY <2>1, <3>2, <4>1, WindowSteps, MainKeeps
    <3> QED BY <3>1, <3>2
  <2>3. \A m \in Msgs : InLimit(m)'
    <3>1. CASE PushWrite(t) \/ Post(t) \/ TakeFailed(t) \/ CountFailure(t) \/ Drop(t)
      BY <3>1, WriteInLimit, PostInLimit, TakeInLimit, CountInLimit, DropInLimit
    <3>2. ASSUME \A m \in Msgs : LimitCalm(t, m) PROVE \A m \in Msgs : InLimit(m)'
      BY <2>1, <3>2, LimitCalmKeeps DEF LimitInv
    <3>3. ~ NextRequested(t) /\ ~ \E S \in SUBSET Msgs : StartRedeliver(t, S)
      BY DEF LimitInv, WorkersPush, NextRequested, StartRedeliver, PushPcs
    <3> QED BY <1>3, <3>1, <3>2, <3>3, LimitCalmSteps DEF ThreadStep, Fatal
  <2> QED BY <2>2, <2>3
<1>4. ASSUME NEW n \in Nodes,
             TimerFires(n) \/ \E f \in inflight : f.node = n /\ \E l \in {"sent", "drop", "mark"} : Answered(f, l)
      PROVE  Kept
  <2>1. Main(n) \in Threads /\ IsMain(Main(n)) /\ Alone(Main(n))
    BY <1>0, <1>1, <1>4, MainIsThread, WakeHarmless DEF Harmless
  <2>2. \A m \in Msgs : InLimit(m)'
    BY <1>4, <2>1, WakeCalm, LimitCalmKeeps DEF LimitInv
  <2>3. pc'[Main(n)] \notin WindowPcs
    BY <1>0, <1>4, <2>1 DEF TimerFires, Answered, WindowPcs, TypeOK, ThreadsTypeOK
  <2> QED BY <2>1, <2>2, <2>3, MainKeeps
<1>5. Kept
  <2>1. \A f \in inflight : f.node \in Nodes
    BY <1>0 DEF TypeOK, NodesTypeOK, Posts
  <2>2. CASE Next
    <3>1. CASE \E n \in Nodes : TimerFires(n)
      BY <1>4, <3>1
    <3>2. CASE \E f \in inflight : \E l \in {"sent", "drop", "mark"} : Answered(f, l)
      BY <1>4, <2>1, <3>2
    <3>3. CASE \E t \in Threads :
                 \/ \E p \in Providers : StartPush(t, p)
                 \/ \E S \in SUBSET Msgs : StartRedeliver(t, S)
                 \/ ThreadStep(t) /\ ~ Fatal(t)
      BY <1>3, <3>3
    <3> HIDE DEF Kept
    <3> QED BY <1>0, <2>2, <3>1, <3>2, <3>3, LiveSteps
  <2> QED BY <1>2, <2>2
<1> QED BY <1>1, <1>5 DEF LimitInv

\* At first nothing is posted, and nothing can be.
LEMMA LimitInit == Init => LimitInv
<1> SUFFICES ASSUME Init PROVE LimitInv
  OBVIOUS
<1>1. AloneInv /\ CountInv
  BY AloneInit, CountInit
<1>2. \A m \in Msgs : ~ Postable(m) /\ ~ Unsettled(m)
  BY DEF Init, StoreInit, Postable, Posting, InSomeSet, Unsettled, Posted, Counting
<1>3. ASSUME NEW m \in Msgs PROVE InLimit(m)
  <2>1. tries[m] = 0
    BY DEF Init
  <2> QED BY <1>2, <2>1, PushyAssumption DEF InLimit
<1> QED BY <1>1, <1>3 DEF LimitInv, WorkersPush, WindowListed, PushPcs, Init, WindowPcs

\* Together: on such a node every message that can be posted again was counted as often as
\* it was posted, and is below the limit.
THEOREM LimitInvariant ==
    ASSUME ByItself, ~ ManualRedelivery, Redeliver, Limit > 0
    PROVE  Spec => []LimitInv
<1>1. LimitInv /\ [Next]_vars => LimitInv'
  BY LimitNext
<1> QED BY <1>1, LimitInit, PTL DEF Spec

\* A node by itself whose clients do not call /redeliver posts no message more often than
\* auto.attempts says, whatever the order of pushes, answers and timer.
THEOREM TriesWithinLimitHolds ==
    ASSUME ByItself, ~ ManualRedelivery, Limit > 0
    PROVE  Spec => []TriesWithinLimit
<1>1. CASE Redeliver
  <2>1. LimitInv => TriesWithinLimit
    BY DEF LimitInv, InLimit, TriesWithinLimit
  <2>2. Spec => []LimitInv
    BY <1>1, LimitInvariant
  <2> QED BY <2>1, <2>2, PTL
<1>2. CASE ~ Redeliver
  <2>1. TriesWithinLimit
    BY <1>2 DEF TriesWithinLimit
  <2> QED BY <2>1, PTL
<1> QED BY <1>1, <1>2

=============================================================================
