-------------------------- MODULE PushyLedgerProofs --------------------------
(***************************************************************************)
(* PushyService implements PushLedger, and only a death or a failure makes *)
(* it lose a message, for every value of its constants.                    *)
(*                                                                         *)
(* With the inductive invariant of PushyOwnershipProofs the stage of a     *)
(* message says exactly where it is, so a step of the cluster is a step of *)
(* the ledger as soon as one knows what it does to the records, the failed *)
(* sets and the owners: most steps leave the first two alone and give no   *)
(* message a new owner, which is Lose of the messages they drop, of none   *)
(* as a rule; five steps move one message and leave the others where they  *)
(* are.                                                                    *)
(***************************************************************************)
EXTENDS PushyOwnershipProofs

Owned(m) == Held(m) \/ Posted(m)

(***************************************************************************)
(* What the stages mean                                                    *)
(***************************************************************************)

StageIs(m) ==
    /\ Stage[m] = "new" <=> m \notin issued
    /\ Stage[m] = "done" <=> m \in issued /\ ~ HasRecord(m)
    /\ Stage[m] = "failed" <=> HasRecord(m) /\ InSomeSet(m)
    /\ Stage[m] = "owned" <=> HasRecord(m) /\ ~ InSomeSet(m) /\ Owned(m)
    /\ Stage[m] = "lost" <=> HasRecord(m) /\ ~ InSomeSet(m) /\ ~ Owned(m)

StageOK == Stage \in [Msgs -> Ledger!Stages] /\ \A m \in Msgs : StageIs(m)

\* A record belongs to a uuid that was handed out, so that the stages exclude each other.
LEMMA StageMeaning == OwnershipInv => StageOK
<1> SUFFICES ASSUME \A m \in Msgs : HasRecord(m) => m \in issued PROVE StageOK
  BY DEF OwnershipInv, IssuedFirst
<1>1. ASSUME NEW m \in Msgs PROVE StageIs(m) /\ Stage[m] \in Ledger!Stages
  BY <1>1 DEF StageIs, Stage, Owned, Ledger!Stages
<1>2. Stage = [m \in Msgs |-> Stage[m]]
  BY DEF Stage
<1>3. Stage \in [Msgs -> Ledger!Stages]
  BY <1>1, <1>2
<1> QED BY <1>1, <1>3 DEF StageOK

\* The same of the state after a step.
LEMMA StageMeaningNext == OwnershipInv' => StageOK'
<1> SUFFICES ASSUME \A m \in Msgs : HasRecord(m)' => m \in issued' PROVE StageOK'
  BY DEF OwnershipInv, IssuedFirst
<1>1. ASSUME NEW m \in Msgs PROVE StageIs(m)' /\ (Stage[m])' \in Ledger!Stages
  BY <1>1 DEF StageIs, Stage, Owned, Ledger!Stages
<1>2. Stage' = [m \in Msgs |-> (Stage[m])']
  BY DEF Stage
<1>3. Stage' \in [Msgs -> Ledger!Stages]
  BY <1>1, <1>2
<1> QED BY <1>1, <1>3 DEF StageOK

\* Where message m is has not changed.
SamePlace(m) ==
    /\ m \in issued' <=> m \in issued
    /\ HasRecord(m)' <=> HasRecord(m)
    /\ InSomeSet(m)' <=> InSomeSet(m)
    /\ Owned(m)' <=> Owned(m)

\* The others are where they were: one message moves.
LEMMA OneMoves ==
    ASSUME StageOK, StageOK', NEW m \in Msgs, \A k \in Msgs \ {m} : SamePlace(k),
           NEW from, NEW to, Stage[m] = from, Stage'[m] = to
    PROVE  Ledger!Move(m, from, to)
<1>1. \A k \in Msgs \ {m} : Stage'[k] = Stage[k]
  <2> SUFFICES ASSUME NEW k \in Msgs \ {m} PROVE Stage'[k] = Stage[k]
    OBVIOUS
  <2>1. StageIs(k) /\ StageIs(k)' /\ SamePlace(k)
    BY DEF StageOK
  <2>2. Stage[k] \in Ledger!Stages /\ Stage'[k] \in Ledger!Stages
    BY DEF StageOK
  <2> QED BY <2>1, <2>2 DEF StageIs, SamePlace, Ledger!Stages
<1>2. Stage' = [Stage EXCEPT ![m] = to]
  BY <1>1 DEF StageOK
<1> QED BY <1>2 DEF Ledger!Move

\* Records and sets stay and nobody gets a message: owners drop some, or none.
LEMMA SomeAreLost ==
    ASSUME StageOK, StageOK', UNCHANGED <<issued, type, failed>>,
           \A m \in Msgs : Owned(m)' => Owned(m)
    PROVE  Ledger!Next
<1> DEFINE S == {m \in Msgs : Stage[m] = "owned" /\ Stage'[m] = "lost"}
<1>1. \A m \in Msgs : (HasRecord(m)' <=> HasRecord(m)) /\ (InSomeSet(m)' <=> InSomeSet(m))
  BY DEF HasRecord, InSomeSet
<1>2. ASSUME NEW m \in Msgs PROVE Stage'[m] = IF m \in S THEN "lost" ELSE Stage[m]
  <2>1. StageIs(m) /\ StageIs(m)'
    BY DEF StageOK
  <2>2. Stage[m] \in Ledger!Stages /\ Stage'[m] \in Ledger!Stages
    BY DEF StageOK
  <2> QED BY <1>1, <2>1, <2>2 DEF StageIs, Ledger!Stages
<1>3. Stage' = [m \in Msgs |-> IF m \in S THEN "lost" ELSE Stage[m]]
  BY <1>2 DEF StageOK
<1>4. Ledger!Lose(S)
  BY <1>3 DEF Ledger!Lose
<1> QED BY <1>4 DEF Ledger!Next

(***************************************************************************)
(* Steps that move a message                                               *)
(***************************************************************************)

\* Only write_push hands out a uuid.
LEMMA IssuedBy ==
    [Next]_vars => issued' = issued \/ \E t \in Threads : PushWrite(t)
<1> SUFFICES ASSUME [Next]_vars PROVE issued' = issued \/ \E t \in Threads : PushWrite(t)
  OBVIOUS
<1> USE DEF storeVars, RemoveFailed, DropRecord, AddFailed, CountAttempt
<1>1. ASSUME NEW t \in Threads, ThreadStep(t), ~ PushWrite(t) PROVE issued' = issued
  BY <1>1
  DEF ThreadStep, TakeIdent, CacheInsert, MapCrash, Post, PostUnconfigured, NextRequested, ListFailed,
      ReadListed, NextListed, CheckFailed, TakeFailed, LogSettled, Drop, MarkRead, MarkFailed, CountFailure,
      GiveUpCheck, GiveUp, LogFailure
<1>2. ASSUME NEW t \in Threads,
             (\E p \in Providers : StartPush(t, p)) \/ (\E S \in SUBSET Msgs : StartRedeliver(t, S)) \/ RedisFails(t)
      PROVE  issued' = issued
  BY <1>2 DEF StartPush, StartRedeliver, RedisFails
<1>3. ASSUME NEW f \in inflight, Answer(f) PROVE issued' = issued
  BY <1>3 DEF Answer, Delivered, Refused, Answered, UnknownIdent
<1>4. ASSUME NEW n \in Nodes, TimerFires(n) \/ NodeExit(n) \/ Crash(n) \/ Restart(n) PROVE issued' = issued
  BY <1>4 DEF TimerFires, NodeExit, Crash, Restart
<1> QED BY <1>1, <1>2, <1>3, <1>4 DEF Next, vars

\* write_push accepts the message it finds a uuid for.
LEMMA WriteAccepts ==
    ASSUME OwnershipInv, StageOK, StageOK', NEW t \in Threads, PushWrite(t)
    PROVE  Ledger!Next
<1>0. /\ ThreadsTypeOK /\ StoreTypeOK /\ WorkOK(t) /\ Resting(t) /\ IssuedFirst
      /\ NoMsg \notin Msgs
  BY PushyAssumption DEF OwnershipInv, TypeOK
<1>1. PICK m \in Msgs \ issued :
          issued' = issued \cup {m} /\ type' = [type EXCEPT ![m] = prov[t]] /\ cur' = [cur EXCEPT ![t] = m]
  BY DEF PushWrite, WriteRecord
<1>2. /\ Alone(t) /\ failed' = failed /\ inflight' = inflight /\ cur'[t] = m /\ pc[t] = "write"
      /\ pc'[t] \in {"ident", "insert"}
  BY <1>0, <1>1 DEF PushWrite, WriteRecord, Alone, ThreadsTypeOK, nodeVars
<1>3. type'[m] \in Providers /\ \A k \in Msgs \ {m} : type'[k] = type[k]
  BY <1>0, <1>1, <1>2 DEF WorkOK, StoreTypeOK
<1>4. \A u \in Threads : \A k \in Msgs \ {m} : Holds(u, k)' <=> Holds(u, k)
  BY <1>2 DEF Alone, Holds, OwnerPcs
<1>5. \A k \in Msgs \ {m} : SamePlace(k)
  BY <1>1, <1>2, <1>3, <1>4 DEF SamePlace, HasRecord, InSomeSet, Owned, Held, Posted
<1>6. Stage[m] = "new"
  BY <1>1 DEF StageOK, StageIs
<1>7. Stage'[m] = "owned"
  <2>1. HasRecord(m)'
    BY <1>3 DEF HasRecord, Providers, NoType
  <2>2. ~ InSomeSet(m)'
    BY <1>0, <1>1, <1>2 DEF IssuedFirst, InSomeSet
  <2>3. Owned(m)'
    BY <1>2 DEF Owned, Held, Holds, OwnerPcs
  <2>4. StageIs(m)'
    BY DEF StageOK
  <2> QED BY <2>1, <2>2, <2>3, <2>4 DEF StageIs
<1>8. Ledger!Accept(m)
  BY <1>5, <1>6, <1>7, OneMoves DEF Ledger!Accept
<1> QED BY <1>8 DEF Ledger!Next

\* drop_push_record settles the message the callback owns.
LEMMA DropSettles ==
    ASSUME OwnershipInv, StageOK, StageOK', NEW t \in Threads, Drop(t)
    PROVE  Ledger!Next
<1>0. ThreadsTypeOK /\ StoreTypeOK /\ WorkOK(t) /\ SingleOwner /\ OwnerFindsRecord /\ IssuedFirst
  BY DEF OwnershipInv, TypeOK
<1>1. PICK m \in Msgs : m = cur[t] /\ Holds(t, m)
  BY <1>0 DEF Drop, WorkOK, Holds, OwnerPcs, CallbackPcs
<1>2. Alone(t) /\ \A k \in Msgs : ~ Holds(t, k)'
  BY <1>0, PushyAssumption, EndEffect, EndCalm DEF Drop
<1>3. /\ UNCHANGED <<issued, failed, inflight>> /\ type'[m] = NoType
      /\ \A k \in Msgs \ {m} : type'[k] = type[k]
  BY <1>0, <1>1 DEF Drop, DropRecord, StoreTypeOK, nodeVars
<1>4. \A u \in Threads : \A k \in Msgs \ {m} : Holds(u, k)' <=> Holds(u, k)
  BY <1>1, <1>2 DEF Alone, Holds
<1>5. \A k \in Msgs \ {m} : SamePlace(k)
  BY <1>3, <1>4 DEF SamePlace, HasRecord, InSomeSet, Owned, Held, Posted
<1>6. Stage[m] = "owned"
  <2>1. Owned(m) /\ ~ InSomeSet(m) /\ HasRecord(m)
    BY <1>0, <1>1 DEF Owned, Held, SingleOwner, OwnerFindsRecord
  <2>2. StageIs(m)
    BY <1>1 DEF StageOK
  <2> QED BY <2>1, <2>2 DEF StageIs
<1>7. Stage'[m] = "done"
  <2>1. m \in issued' /\ ~ HasRecord(m)'
    BY <1>0, <1>1, <1>3, PushyAssumption DEF IssuedFirst, HasRecord
  <2>2. StageIs(m)'
    BY <1>1 DEF StageOK
  <2> QED BY <2>1, <2>2 DEF StageIs
<1>8. Ledger!Settle(m)
  BY <1>1, <1>5, <1>6, <1>7, OneMoves DEF Ledger!Settle
<1> QED BY <1>1, <1>8 DEF Ledger!Next

\* mark_push_record_failed parks the message the callback owns.
LEMMA MarkParks ==
    ASSUME OwnershipInv, StageOK, StageOK', NEW t \in Threads, MarkFailed(t)
    PROVE  Ledger!Next
<1>0. ThreadsTypeOK /\ StoreTypeOK /\ WorkOK(t) /\ SingleOwner /\ OwnerFindsRecord
  BY DEF OwnershipInv, TypeOK
<1>1. PICK m \in Msgs : m = cur[t] /\ Holds(t, m) /\ prov[t] \in Providers
  BY <1>0 DEF MarkFailed, WorkOK, Holds, OwnerPcs, CallbackPcs
<1>2. Alone(t) /\ \A k \in Msgs : ~ Holds(t, k)'
  BY <1>0, GotoEffect DEF MarkFailed, Pcs, CallbackPcs, Holds, OwnerPcs
<1>3. /\ UNCHANGED <<issued, type, inflight>>
      /\ failed'[prov[t]] = failed[prov[t]] \cup {m}
      /\ \A p \in Providers \ {prov[t]} : failed'[p] = failed[p]
  BY <1>0, <1>1 DEF MarkFailed, AddFailed, StoreTypeOK, nodeVars
<1>4. \A u \in Threads : \A k \in Msgs \ {m} : Holds(u, k)' <=> Holds(u, k)
  BY <1>1, <1>2 DEF Alone, Holds
<1>5. \A k \in Msgs \ {m} : SamePlace(k)
  <2>1. \A k \in Msgs \ {m} : InSomeSet(k)' <=> InSomeSet(k)
    BY <1>1, <1>3 DEF InSomeSet
  <2> QED BY <1>3, <1>4, <2>1 DEF SamePlace, HasRecord, Owned, Held, Posted
<1>6. Owned(m) /\ ~ InSomeSet(m) /\ HasRecord(m)
  BY <1>0, <1>1 DEF Owned, Held, SingleOwner, OwnerFindsRecord
<1>7. HasRecord(m)' /\ InSomeSet(m)'
  BY <1>1, <1>3, <1>6 DEF HasRecord, InSomeSet
<1>8. Stage[m] = "owned" /\ Stage'[m] = "failed"
  <2>1. StageIs(m) /\ StageIs(m)'
    BY <1>1 DEF StageOK
  <2> QED BY <1>6, <1>7, <2>1 DEF StageIs
<1>9. Ledger!Park(m)
  BY <1>1, <1>5, <1>8, OneMoves DEF Ledger!Park
<1> QED BY <1>1, <1>9 DEF Ledger!Next

\* The SREM that removes a message claims it, to try it again or to give it up.
LEMMA RemoveClaims ==
    ASSUME OwnershipInv, StageOK, StageOK', NEW t \in Threads,
           TakeFailed(t) \/ GiveUp(t), InFailed(cur[t], prov[t])
    PROVE  Ledger!Next
<1>0. ThreadsTypeOK /\ StoreTypeOK /\ WorkOK(t) /\ SingleOwner /\ FailedIsLive
  BY DEF OwnershipInv, TypeOK
<1>1. PICK m \in Msgs : m = cur[t] /\ prov[t] \in Providers /\ m \in failed[prov[t]]
  BY <1>0 DEF TakeFailed, GiveUp, WorkOK, TakePcs, CallbackPcs, InFailed
<1>2. /\ Alone(t) /\ cur' = cur /\ pc[t] \in {"srem", "gsrem"}
      /\ pc'[t] \in {"ident", "logperm", "drop"}
  BY <1>0, GotoEffect DEF TakeFailed, GiveUp, Pcs, PushPcs, CallbackPcs
<1>3. /\ UNCHANGED <<issued, type, inflight>>
      /\ failed'[prov[t]] = failed[prov[t]] \ {m}
      /\ \A p \in Providers \ {prov[t]} : failed'[p] = failed[p]
  BY <1>0, <1>1 DEF TakeFailed, GiveUp, RemoveFailed, StoreTypeOK, nodeVars
<1>4. \A u \in Threads : \A k \in Msgs \ {m} : Holds(u, k)' <=> Holds(u, k)
  BY <1>1, <1>2 DEF Alone, Holds
<1>5. \A k \in Msgs \ {m} : SamePlace(k)
  <2>1. \A k \in Msgs \ {m} : InSomeSet(k)' <=> InSomeSet(k)
    BY <1>1, <1>3 DEF InSomeSet
  <2> QED BY <1>3, <1>4, <2>1 DEF SamePlace, HasRecord, Owned, Held, Posted
<1>6. HasRecord(m) /\ InSomeSet(m)
  BY <1>0, <1>1 DEF FailedIsLive, HasRecord, Providers, NoType, InSomeSet
<1>7. HasRecord(m)' /\ ~ InSomeSet(m)' /\ Owned(m)'
  <2>1. \A p \in Providers : m \notin failed'[p]
    BY <1>0, <1>1, <1>3 DEF SingleOwner
  <2>2. Owned(m)'
    BY <1>1, <1>2 DEF Owned, Held, Holds, OwnerPcs
  <2> QED BY <1>3, <1>6, <2>1, <2>2 DEF HasRecord, InSomeSet
<1>8. Stage[m] = "failed" /\ Stage'[m] = "owned"
  <2>1. StageIs(m) /\ StageIs(m)'
    BY <1>1 DEF StageOK
  <2> QED BY <1>6, <1>7, <2>1 DEF StageIs
<1>9. Ledger!Claim(m)
  BY <1>1, <1>5, <1>8, OneMoves DEF Ledger!Claim
<1> QED BY <1>1, <1>9 DEF Ledger!Next

\* No step but the writes of records and sets gives a message an owner.
LEMMA OwnersOnlyShrink ==
    ASSUME OwnershipInv,
           \/ \E t \in Threads : OwnerCalm(t)
           \/ \E t \in Threads : TakeIdent(t) \/ CacheInsert(t) \/ Post(t)
           \/ \E f \in inflight : \E l \in {"sent", "drop", "mark"} : Answered(f, l)
           \/ \E n \in Nodes : Halt(n) /\ UNCHANGED storeVars
           \/ UNCHANGED <<storeVars, ident, cache, inflight, pc, locals>>
    PROVE  UNCHANGED <<type, failed>> /\ \A m \in Msgs : Owned(m)' => Owned(m)
<1> DEFINE Shrunk == UNCHANGED <<type, failed>> /\ \A m \in Msgs : Owned(m)' => Owned(m)
<1>0. ThreadsTypeOK /\ NodesTypeOK /\ CacheHolds /\ \A t \in Threads : WorkOK(t)
  BY DEF OwnershipInv, TypeOK
<1>1. ASSUME NEW t \in Threads, OwnerCalm(t) PROVE Shrunk
  BY <1>1 DEF OwnerCalm, Alone, Owned, Held, Holds, Posted
<1>2. ASSUME NEW t \in Threads, TakeIdent(t) PROVE Shrunk
  <2>1. Alone(t) /\ cur' = cur /\ pc[t] = "ident"
    BY <1>0, <1>2, TakeIdentEffect DEF TakeIdent, OwnershipInv
  <2>2. OwnerCalm(t)
    BY <1>2, <2>1 DEF OwnerCalm, TakeIdent, storeVars, Holds, OwnerPcs
  <2> QED BY <1>1, <2>2
<1>3. ASSUME NEW t \in Threads, CacheInsert(t) PROVE Shrunk
  <2>1. Alone(t) /\ cur' = cur /\ inflight' = inflight /\ pc[t] = "insert"
    BY <1>0, <1>3, GotoEffect DEF CacheInsert, Pcs, PushPcs
  <2>2. OwnerCalm(t)
    BY <1>3, <2>1 DEF OwnerCalm, CacheInsert, storeVars, Holds, OwnerPcs
  <2> QED BY <1>1, <2>2
<1>4. ASSUME NEW t \in Threads, Post(t) PROVE Shrunk
  <2>1. PICK c \in Msgs : c = cur[t] /\ Holds(t, c)
    BY <1>0, <1>4 DEF Post, WorkOK, Holds, OwnerPcs
  <2>2. Alone(t) /\ \A m \in Msgs : ~ Holds(t, m)'
    BY <1>0, <1>4, PushyAssumption, ProceedEffect DEF Post, AtRest, Holds, OwnerPcs
  <2>3. \A u \in Threads : \A m \in Msgs : Holds(u, m)' => Holds(u, m)
    BY <2>2 DEF Alone, Holds
  <2>4. \A m \in Msgs : Posted(m)' => Posted(m) \/ m = c
    BY <1>4, <2>1 DEF Post, Posted
  <2>5. UNCHANGED <<type, failed>>
    BY <1>4 DEF Post, storeVars
  <2> QED BY <2>1, <2>3, <2>4, <2>5 DEF Owned, Held
<1>5. ASSUME NEW f \in inflight, NEW l \in {"sent", "drop", "mark"}, Answered(f, l) PROVE Shrunk
  <2>1. PICK t \in Threads : t = Main(f.node)
    BY <1>0, MainIsThread DEF NodesTypeOK, Posts
  <2>2. cur'[t] = f.msg /\ Alone(t) /\ inflight' = inflight \ {f} /\ UNCHANGED <<type, failed>>
    BY <1>0, <1>5, <2>1 DEF Answered, CacheHolds, CellOK, Alone, ThreadsTypeOK, storeVars
  <2>3. \A u \in Threads : \A m \in Msgs : Holds(u, m)' => Holds(u, m) \/ m = f.msg
    BY <2>2 DEF Alone, Holds
  <2> QED BY <2>2, <2>3 DEF Owned, Held, Posted
<1>6. ASSUME NEW n \in Nodes, Halt(n), UNCHANGED storeVars PROVE Shrunk
  <2>1. \A u \in Threads : \A m \in Msgs : Holds(u, m)' => Holds(u, m)
    BY <1>0, <1>6, PushyAssumption, HaltEffect DEF AtRest, Holds, OwnerPcs
  <2> QED BY <1>6, <2>1 DEF Halt, storeVars, Owned, Held, Posted
<1>7. CASE UNCHANGED <<storeVars, ident, cache, inflight, pc, locals>>
  BY <1>7 DEF storeVars, locals, Owned, Held, Holds, Posted
<1> QED BY <1>1, <1>2, <1>3, <1>4, <1>5, <1>6, <1>7

\* Every step of the cluster is a step of the ledger.
LEMMA LedgerNext == OwnershipInv /\ OwnershipInv' /\ [Next]_vars => [Ledger!Next]_Stage
<1> SUFFICES ASSUME OwnershipInv, OwnershipInv', [Next]_vars PROVE Ledger!Next
  OBVIOUS
<1>0. TypeOK /\ (\A t \in Threads : Resting(t)) /\ StageOK /\ StageOK'
  BY StageMeaning, StageMeaningNext DEF OwnershipInv
<1>1. CASE \E t \in Threads : PushWrite(t)
  BY <1>0, <1>1, WriteAccepts
<1>2. CASE \E t \in Threads : Drop(t) \/ MarkFailed(t)
  BY <1>0, <1>2, DropSettles, MarkParks
<1>3. CASE \E t \in Threads : (TakeFailed(t) \/ GiveUp(t)) /\ InFailed(cur[t], prov[t])
  BY <1>0, <1>3, RemoveClaims
<1>4. CASE /\ ~ \E t \in Threads : PushWrite(t)
           /\ \/ \E t \in Threads : OwnerCalm(t)
              \/ \E t \in Threads : TakeIdent(t) \/ CacheInsert(t) \/ Post(t)
              \/ \E f \in inflight : \E l \in {"sent", "drop", "mark"} : Answered(f, l)
              \/ \E n \in Nodes : Halt(n) /\ UNCHANGED storeVars
              \/ UNCHANGED <<storeVars, ident, cache, inflight, pc, locals>>
  <2>1. issued' = issued
    BY <1>4, IssuedBy
  <2>2. UNCHANGED <<type, failed>> /\ \A m \in Msgs : Owned(m)' => Owned(m)
    BY <1>4, OwnersOnlyShrink
  <2> QED BY <1>0, <2>1, <2>2, SomeAreLost
<1> QED BY <1>0, <1>1, <1>2, <1>3, <1>4, StepCases

\* No message is there yet.
LEMMA LedgerInit == Init => Ledger!Init
<1> SUFFICES ASSUME Init PROVE Ledger!Init
  OBVIOUS
<1>1. issued = {}
  BY DEF Init, StoreInit
<1>2. \A m \in Msgs : Stage[m] = "new"
  <2>1. StageOK
    BY OwnershipInit, StageMeaning
  <2> QED BY <1>1, <2>1 DEF StageOK, StageIs
<1>3. Stage = [m \in Msgs |-> Stage[m]]
  BY DEF Stage
<1> QED BY <1>2, <1>3 DEF Ledger!Init

\* The cluster implements the ledger: no message is claimed that did not fail, settled by
\* a thread that does not own it, or worked on again when it is settled or lost, for any
\* number of nodes and workers and whatever crashes, fails or races.
THEOREM ClusterImplementsLedger == Spec => ImplementsLedger
<1>1. OwnershipInv /\ OwnershipInv' /\ [Next]_vars => [Ledger!Next]_Stage
  BY LedgerNext
<1> QED BY <1>1, LedgerInit, OwnershipInvariant, PTL DEF Spec, ImplementsLedger, Ledger!Spec

(***************************************************************************)
(* Only a death or a failure loses a message                               *)
(***************************************************************************)

\* Only a process that runs has a thread in a handler.
Running == \A t \in Threads : pc[t] # "idle" => up[t[1]]

\* The two steps of a handler that end its process.
Fatal(t) == MapCrash(t) \/ PostUnconfigured(t)

\* A step of thread t that ends no process is felt by no other thread.
OnlyBy(t) ==
    /\ up' = up
    /\ \A u \in Threads \ {t} : pc'[u] = pc[u] /\ cur'[u] = cur[u]

\* A handler that runs on.
LEMMA HandlerEffect ==
    ASSUME TypeOK, NEW t \in Threads, ThreadStep(t), ~ Fatal(t)
    PROVE  OnlyBy(t) /\ pc[t] # "idle" /\ inflight \subseteq inflight'
<1>0. ThreadsTypeOK
  BY DEF TypeOK
<1> USE DEF nodeVars, OnlyBy, Alone
<1>1. CASE PushWrite(t) \/ TakeIdent(t) \/ ListFailed(t)
  BY <1>0, <1>1 DEF PushWrite, TakeIdent, ListFailed, ThreadsTypeOK
<1>2. CASE CacheInsert(t)
  BY <1>0, <1>2, GotoEffect DEF CacheInsert, Pcs, PushPcs
<1>3. CASE Post(t)
  BY <1>0, <1>3, ProceedEffect DEF Post
<1>4. CASE NextRequested(t)
  <2>1. CASE Throw(t)
    BY <1>0, <1>4, <2>1, EndEffect DEF NextRequested
  <2>2. CASE ~ Throw(t)
    BY <1>0, <1>4, <2>2 DEF NextRequested, ThreadsTypeOK
  <2> QED BY <2>1, <2>2
<1>5. CASE ReadListed(t)
  <2>1. CASE Throw(t)
    BY <1>0, <1>5, <2>1, EndEffect DEF ReadListed
  <2>2. CASE ~ Throw(t)
    BY <1>0, <1>5, <2>2 DEF ReadListed, Goto, locals, ThreadsTypeOK
  <2> QED BY <2>1, <2>2
<1>6. CASE NextListed(t)
  <2>1. CASE Finish(t)
    BY <1>0, <1>6, <2>1, EndEffect DEF NextListed
  <2>2. CASE ~ Finish(t)
    BY <1>0, <1>6, <2>2 DEF NextListed, ThreadsTypeOK
  <2> QED BY <2>1, <2>2
<1>7. CASE CheckFailed(t) \/ TakeFailed(t) \/ LogSettled(t) \/ Drop(t) \/ MarkRead(t) \/ MarkFailed(t)
           \/ CountFailure(t) \/ GiveUpCheck(t) \/ GiveUp(t) \/ LogFailure(t)
  <2>1. (\E l \in Pcs : Goto(t, l)) \/ Finish(t) \/ Throw(t) \/ Proceed(t)
    BY <1>7
    DEF CheckFailed, TakeFailed, LogSettled, Drop, MarkRead, MarkFailed, CountFailure, GiveUpCheck, GiveUp,
        LogFailure, Pcs, TakePcs, PushPcs, CallbackPcs
  <2>2. UNCHANGED nodeVars /\ pc[t] # "idle"
    BY <1>7
    DEF CheckFailed, TakeFailed, LogSettled, Drop, MarkRead, MarkFailed, CountFailure, GiveUpCheck, GiveUp,
        LogFailure
  <2> QED BY <1>0, <2>1, <2>2, GotoEffect, EndEffect, ProceedEffect
<1> QED BY <1>1, <1>2, <1>3, <1>4, <1>5, <1>6, <1>7 DEF ThreadStep, Fatal

\* A step that is felt by one thread, of a process that runs, keeps Running.
LEMMA OnlyByRuns ==
    ASSUME Running, NEW t \in Threads, OnlyBy(t), up[t[1]]
    PROVE  Running'
BY DEF Running, OnlyBy

\* Nobody runs in a process that has ended.
LEMMA HaltRuns ==
    ASSUME TypeOK, Running, NEW n \in Nodes, Halt(n)
    PROVE  Running'
BY ThreadNode DEF Running, Halt, TypeOK, NodesTypeOK

\* Every step keeps it.
LEMMA RunningNext == TypeOK /\ Running /\ [Next]_vars => Running'
<1> SUFFICES ASSUME TypeOK, Running, [Next]_vars PROVE Running'
  OBVIOUS
<1>0. ThreadsTypeOK /\ NodesTypeOK /\ \A f \in inflight : Main(f.node) \in Threads /\ Main(f.node)[1] = f.node
  BY MainIsThread DEF TypeOK, NodesTypeOK, Posts
<1>1. ASSUME NEW t \in Threads, ThreadStep(t) PROVE Running'
  BY <1>1, HandlerEffect, OnlyByRuns, HaltRuns, ThreadNode DEF Fatal, MapCrash, PostUnconfigured, Running
<1>2. ASSUME NEW t \in Threads,
             (\E p \in Providers : StartPush(t, p)) \/ (\E S \in SUBSET Msgs : StartRedeliver(t, S))
      PROVE  Running'
  BY <1>0, <1>2, OnlyByRuns DEF StartPush, StartRedeliver, nodeVars, OnlyBy, ThreadsTypeOK
<1>3. ASSUME NEW t \in Threads, RedisFails(t) PROVE Running'
  BY <1>0, <1>3, EndEffect, OnlyByRuns DEF RedisFails, nodeVars, OnlyBy, Alone, Running
<1>4. ASSUME NEW f \in inflight, Answer(f) PROVE Running'
  <2>1. CASE UnknownIdent(f)
    BY <1>0, <2>1, EndEffect, OnlyByRuns DEF UnknownIdent, OnlyBy, Alone
  <2>2. CASE ~ UnknownIdent(f)
    BY <1>0, <1>4, <2>2, OnlyByRuns DEF Answer, Delivered, Refused, Answered, OnlyBy, ThreadsTypeOK
  <2> QED BY <2>1, <2>2
<1>5. ASSUME NEW n \in Nodes, TimerFires(n) PROVE Running'
  BY <1>0, <1>5, MainIsThread, OnlyByRuns DEF TimerFires, nodeVars, OnlyBy, ThreadsTypeOK
<1>6. ASSUME NEW n \in Nodes, NodeExit(n) \/ Crash(n) PROVE Running'
  BY <1>6, HaltRuns DEF NodeExit, Crash
<1>7. ASSUME NEW n \in Nodes, Restart(n) PROVE Running'
  BY <1>0, <1>7, ThreadNode DEF Restart, Running, NodesTypeOK
<1>8. CASE UNCHANGED vars
  BY <1>8 DEF vars, nodeVars, Running
<1> QED BY <1>1, <1>2, <1>3, <1>4, <1>5, <1>6, <1>7, <1>8 DEF Next

\* A handler that owns a message goes on with it, posts it, puts it into the failed set
\* or drops its record: no path through it forgets the message.
LEMMA HandsOn ==
    ASSUME OwnershipInv, NEW t \in Threads, ThreadStep(t), ~ Fatal(t), NEW m \in Msgs, Holds(t, m)
    PROVE  Owned(m)' \/ InSomeSet(m)' \/ ~ HasRecord(m)'
<1>0. /\ ThreadsTypeOK /\ StoreTypeOK /\ WorkOK(t) /\ HasRecord(m) /\ cur[t] = m
      /\ pc[t] \in OwnerPcs /\ m # NoMsg
  BY PushyAssumption DEF OwnershipInv, TypeOK, OwnerFindsRecord, Held, Holds
<1>1. CASE TakeIdent(t)
  <2>1. pc'[t] = "insert" /\ cur'[t] = m
    BY <1>0, <1>1 DEF TakeIdent, ThreadsTypeOK
  <2> QED BY <2>1 DEF Owned, Held, Holds, OwnerPcs
<1>2. CASE CacheInsert(t)
  <2>1. pc'[t] = "post" /\ cur'[t] = m
    BY <1>0, <1>2, GotoEffect DEF CacheInsert, Pcs, PushPcs
  <2> QED BY <2>1 DEF Owned, Held, Holds, OwnerPcs
<1>3. CASE Post(t)
  <2> DEFINE f == [node |-> t[1], prov |-> prov[t], ident |-> slot[t], msg |-> cur[t]]
  <2>1. f.msg = m /\ inflight' = inflight \cup {f}
    BY <1>0, <1>3 DEF Post
  <2> HIDE DEF f
  <2> QED BY <2>1 DEF Owned, Posted
<1>4. CASE LogSettled(t) \/ MarkRead(t)
  <2>1. pc'[t] \in {"drop", "sadd"} /\ cur'[t] = m
    BY <1>0, <1>4, GotoEffect DEF LogSettled, MarkRead, Pcs, CallbackPcs
  <2> QED BY <2>1 DEF Owned, Held, Holds, OwnerPcs
<1>5. CASE Drop(t)
  BY <1>0, <1>5 DEF Drop, DropRecord, StoreTypeOK, HasRecord
<1>6. CASE MarkFailed(t)
  <2>1. prov[t] \in Providers
    BY <1>0, <1>6 DEF MarkFailed, WorkOK, CallbackPcs
  <2> QED BY <1>0, <1>6, <2>1 DEF MarkFailed, AddFailed, StoreTypeOK, InSomeSet
<1> QED
  BY <1>0, <1>1, <1>2, <1>3, <1>4, <1>5, <1>6
  DEF ThreadStep, Fatal, OwnerPcs, PushWrite, NextRequested, ListFailed, ReadListed, NextListed, CheckFailed,
      TakeFailed, CountFailure, GiveUpCheck, GiveUp, LogFailure

\* A process dies, or a Redis command fails.
Death ==
    \/ faults' > faults
    \/ \E n \in Nodes : up[n] /\ ~ up'[n]
    \/ \E n \in Nodes : pc[Main(n)] # "unwind" /\ pc'[Main(n)] = "unwind"

\* The end of a process that runs is a death.
LEMMA HaltIsDeath ==
    ASSUME TypeOK, NEW n \in Nodes, Halt(n), up[n]
    PROVE  Death
BY DEF Death, Halt, TypeOK, NodesTypeOK

\* Nothing else takes a message from its owner.
LEMMA OwnersKeep ==
    ASSUME OwnershipInv, Running, [Next]_vars, NEW m \in Msgs, Owned(m)
    PROVE  Death \/ Owned(m)' \/ InSomeSet(m)' \/ ~ HasRecord(m)'
<1>0. TypeOK /\ ThreadsTypeOK /\ NodesTypeOK /\ HistoryTypeOK /\ CacheHolds /\ \A t \in Threads : Resting(t)
  BY DEF OwnershipInv, TypeOK
<1>1. ASSUME NEW t \in Threads, OnlyBy(t), inflight \subseteq inflight', ~ Holds(t, m) PROVE Owned(m)'
  BY <1>1 DEF OnlyBy, Owned, Held, Holds, Posted
<1>2. ASSUME NEW t \in Threads, ThreadStep(t)
      PROVE  Death \/ Owned(m)' \/ InSomeSet(m)' \/ ~ HasRecord(m)'
  <2>1. CASE Fatal(t)
    BY <1>0, <1>2, <2>1, ThreadNode, HaltIsDeath DEF Fatal, MapCrash, PostUnconfigured, Running
  <2>2. CASE ~ Fatal(t)
    BY <1>0, <1>1, <1>2, <2>2, HandlerEffect, HandsOn
  <2> QED BY <2>1, <2>2
<1>3. ASSUME NEW t \in Threads,
             (\E p \in Providers : StartPush(t, p)) \/ (\E S \in SUBSET Msgs : StartRedeliver(t, S))
      PROVE  Owned(m)'
  <2>1. OnlyBy(t) /\ inflight' = inflight /\ pc[t] = "idle"
    BY <1>0, <1>3 DEF StartPush, StartRedeliver, nodeVars, OnlyBy, ThreadsTypeOK
  <2> QED BY <1>1, <2>1 DEF Holds, OwnerPcs
<1>4. ASSUME NEW t \in Threads, RedisFails(t) PROVE Death
  BY <1>0, <1>4 DEF RedisFails, Death, HistoryTypeOK
<1>5. ASSUME NEW f \in inflight, Answer(f) PROVE Death \/ Owned(m)'
  <2>0. PICK t \in Threads : t = Main(f.node) /\ f.node \in Nodes /\ IsMain(t)
    BY <1>0, MainIsThread DEF NodesTypeOK, Posts
  <2>1. CASE UnknownIdent(f)
    BY <1>0, <2>0, <2>1 DEF UnknownIdent, Throw, Leave, ThreadsTypeOK, Death
  <2>2. CASE ~ UnknownIdent(f)
    <3>1. PICK l \in {"sent", "drop", "mark"} : Answered(f, l)
      BY <1>5, <2>2 DEF Answer, Delivered, Refused
    <3>2. /\ OnlyBy(t) /\ pc[t] = "idle" /\ pc'[t] \in OwnerPcs /\ cur'[t] = f.msg
          /\ inflight' = inflight \ {f}
      BY <1>0, <2>0, <3>1 DEF Answered, CacheHolds, CellOK, OnlyBy, ThreadsTypeOK, OwnerPcs
    <3>3. CASE m = f.msg
      BY <3>2, <3>3 DEF Owned, Held, Holds
    <3>4. CASE m # f.msg
      <4>1. ~ Holds(t, m)
        BY <3>2 DEF Holds, OwnerPcs
      <4> QED BY <3>2, <3>4, <4>1 DEF OnlyBy, Owned, Held, Holds, Posted
    <3> QED BY <3>3, <3>4
  <2> QED BY <2>1, <2>2
<1>6. ASSUME NEW n \in Nodes, TimerFires(n) PROVE Owned(m)'
  <2>1. PICK t \in Threads : t = Main(n)
    BY MainIsThread
  <2>2. OnlyBy(t) /\ inflight' = inflight /\ pc[t] = "idle"
    BY <1>0, <1>6, <2>1 DEF TimerFires, nodeVars, OnlyBy, ThreadsTypeOK
  <2> QED BY <1>1, <2>2 DEF Holds, OwnerPcs
<1>7. ASSUME NEW n \in Nodes, NodeExit(n) \/ Crash(n) PROVE Death
  <2>1. up[n]
    BY <1>7, MainIsThread DEF NodeExit, Crash, Running
  <2> QED BY <1>0, <1>7, <2>1, HaltIsDeath DEF NodeExit, Crash
<1>8. ASSUME (\E n \in Nodes : Restart(n)) \/ UNCHANGED vars PROVE Owned(m)'
  BY <1>8 DEF Restart, vars, nodeVars, locals, Owned, Held, Holds, Posted
<1> QED BY <1>2, <1>3, <1>4, <1>5, <1>6, <1>7, <1>8 DEF Next

\* The ledger loses only what somebody owns.
LEMMA OnlyOwnedIsLost ==
    ASSUME StageOK, Ledger!Next, NEW m \in Msgs, Stage[m] # "lost", Stage'[m] = "lost"
    PROVE  Stage[m] = "owned"
<1>1. ASSUME NEW k \in Msgs, NEW from, NEW to \in Ledger!Stages \ {"lost"}, Ledger!Move(k, from, to)
      PROVE  FALSE
  BY <1>1 DEF StageOK, Ledger!Move
<1>2. PICK S \in SUBSET Msgs : Ledger!Lose(S)
  BY <1>1
  DEF Ledger!Next, Ledger!Accept, Ledger!Park, Ledger!Claim, Ledger!Settle, Ledger!Stages
<1> QED BY <1>2 DEF Ledger!Lose

\* push(), redeliver(), the callbacks and the timer forget no message: one is lost only
\* when a process dies or a Redis command fails.
THEOREM OnlyDeathLosesHolds == Spec => OnlyDeathLoses
<1>1. Init => Running
  BY DEF Init, Running
<1>2. Spec => []Running
  <2>1. Spec => []TypeOK
    BY TypeCorrect
  <2> QED BY <1>1, <2>1, RunningNext, PTL DEF Spec
<1> DEFINE Step == \A m \in Msgs : Stage[m] # "lost" /\ Stage'[m] = "lost" => Death
<1>3. OwnershipInv /\ OwnershipInv' /\ Running /\ [Next]_vars => Step
  <2> SUFFICES ASSUME OwnershipInv, OwnershipInv', Running, [Next]_vars,
                      NEW m \in Msgs, Stage[m] # "lost", Stage'[m] = "lost"
               PROVE  Death
    OBVIOUS
  <2>1. StageOK /\ StageOK'
    BY StageMeaning, StageMeaningNext
  <2>2. Ledger!Next
    <3>1. Stage' # Stage
      OBVIOUS
    <3> QED BY <3>1, LedgerNext
  <2>3. Stage[m] = "owned"
    BY <2>1, <2>2, OnlyOwnedIsLost
  <2>4. Owned(m) /\ ~ Owned(m)' /\ ~ InSomeSet(m)' /\ HasRecord(m)'
    BY <2>1, <2>3 DEF StageOK, StageIs
  <2> QED BY <2>4, OwnersKeep
<1>4. OwnershipInv /\ OwnershipInv' /\ Running /\ [Next]_vars =>
        [\A m \in Msgs : Stage[m] # "lost" /\ Stage'[m] = "lost" =>
            \/ faults' > faults
            \/ \E n \in Nodes : up[n] /\ ~ up'[n]
            \/ \E n \in Nodes : pc[Main(n)] # "unwind" /\ pc'[Main(n)] = "unwind"]_vars
  BY <1>3 DEF Death
<1> QED BY <1>2, <1>4, OwnershipInvariant, PTL DEF Spec, OnlyDeathLoses

=============================================================================
