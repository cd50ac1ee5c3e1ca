---------------------------- MODULE PushyService ----------------------------
(***************************************************************************)
(* A cluster of pushy nodes (class pushy_service, src/src/pushy_service.cpp) *)
(* over one Redis (MessageStore).  Each node has one main thread, which    *)
(* runs io_.run(): the provider callbacks and the redelivery timer; and    *)
(* JSON API worker threads, which run push() and redeliver() for clients.  *)
(*                                                                         *)
(* A thread is a pair <<node, name>>.  One step of a thread is one Redis   *)
(* command, one access to the identifier counter or to the identifier      *)
(* cache of its node, or one hand-over to the provider library.            *)
(*                                                                         *)
(* The device registry is another component (DeviceRegistry): which        *)
(* provider a push goes to is chosen freely, and the token read with it is *)
(* data.  A request that throws before its first write changes nothing and *)
(* is not a step.  APNS, GCM and the push_service library are outside the  *)
(* repository: a posted message is answered at most once, in any order,    *)
(* with success or with an error, on the main thread of the node that      *)
(* posted it, under the identifier given to post().                        *)
(***************************************************************************)
EXTENDS MessageStore, FiniteSets

CONSTANTS
    Nodes,          \* pushy processes
    Workers,        \* names of the API worker threads of a node (api.workers)
    NoMsg,          \* no message
    Configured,     \* Configured[n]: providers n is set up for (apns_, gcm_ not null)
    Logged,         \* Logged[n]: providers n keeps a logstash log for
    Redeliver,      \* redeliver_ (auto.redeliver)
    Limit,          \* redeliver_attempts_ (auto.attempts)
    ManualRedelivery,   \* whether clients call /redeliver
    MapRaces,       \* outcomes of unsynchronised access to a std::map, see RaceOutcomes
    MaxTries,       \* bound: a message posted this often is not refused again
    MaxIdent,       \* bound: identifiers a node takes from one counter
    MaxFaults       \* bound: process crashes and Redis failures, together

RaceOutcomes == {"lost_insert", "missed_lookup", "crash"}

ASSUME PushyAssumption ==
    /\ NoMsg \notin Msgs
    /\ "main" \notin Workers
    /\ Configured \in [Nodes -> SUBSET Providers]
    /\ Logged \in [Nodes -> SUBSET Providers]
    /\ Redeliver \in BOOLEAN
    /\ ManualRedelivery \in BOOLEAN
    /\ Limit \in Nat
    /\ MapRaces \subseteq RaceOutcomes
    /\ MaxTries \in Nat
    /\ MaxIdent \in Nat
    /\ MaxFaults \in Nat

VARIABLES
    up,         \* up[n]: the process of node n runs
    ident,      \* ident[n][p]: apns_identifier_, gcm_identifier_
    cache,      \* cache[n][p][i]: apns_cache_, gcm_cache_; NoMsg when i is not a key
    inflight,   \* posts the provider library has not answered
    pc,         \* pc[t]: what thread t does next
    cur,        \* cur[t]: message t works on
    prov,       \* prov[t]: provider t works for
    todo,       \* todo[t]: messages of a redelivery loop still to handle
    unread,     \* unread[t]: elements get_failed_messages has still to look up
    slot,       \* slot[t]: the local `ident' of push() and redeliver()
    tries,      \* tries[m]: times m was posted (history)
    faults      \* crashes and Redis failures so far (history)

nodeVars == <<up, ident, cache, inflight>>
locals   == <<cur, prov, todo, unread, slot>>
history  == <<tries, faults>>
vars     == <<storeVars, nodeVars, pc, locals, history>>

Threads == Nodes \X ({"main"} \cup Workers)
Main(n) == <<n, "main">>
IsMain(t) == t[2] = "main"

Idents == 0 .. MaxIdent - 1
Posts == [node : Nodes, prov : Providers, ident : Idents, msg : Msgs]

PushPcs     == {"write", "ident", "insert", "post"}
ListPcs     == {"list", "read", "next"}
TakePcs     == {"check", "srem"}
CallbackPcs == {"sent", "drop", "mark", "sadd", "incr", "gcheck", "gsrem", "logperm", "logfail"}
Pcs == {"idle", "unwind"} \cup PushPcs \cup ListPcs \cup TakePcs \cup CallbackPcs

NodesTypeOK ==
    /\ up \in [Nodes -> BOOLEAN]
    /\ ident \in [Nodes -> [Providers -> 0 .. MaxIdent]]
    /\ cache \in [Nodes -> [Providers -> [Idents -> Msgs \cup {NoMsg}]]]
    /\ inflight \subseteq Posts

ThreadsTypeOK ==
    /\ pc \in [Threads -> Pcs]
    /\ cur \in [Threads -> Msgs \cup {NoMsg}]
    /\ prov \in [Threads -> Providers \cup {NoType}]
    /\ todo \in [Threads -> SUBSET Msgs]
    /\ unread \in [Threads -> SUBSET Msgs]
    /\ slot \in [Threads -> 0 .. MaxIdent]

\* A GCM push holds its identifier before it has a message, an APNS push after.
UsesSlot(t) == pc[t] \in {"insert", "post"} \/ (pc[t] = "write" /\ prov[t] = "gcm")

\* A thread that works for a provider, on a message or with an identifier has one.
WorkOK(t) ==
    /\ pc[t] \notin {"idle", "unwind"} /\ (pc[t] = "next" => IsMain(t)) => prov[t] \in Providers
    /\ pc[t] \in {"insert", "post"} \cup TakePcs \cup CallbackPcs => cur[t] \in Msgs
    /\ UsesSlot(t) => slot[t] \in Idents

HistoryTypeOK ==
    /\ tries \in [Msgs -> Nat]
    /\ faults \in 0 .. MaxFaults

TypeOK ==
    /\ StoreTypeOK
    /\ NodesTypeOK
    /\ ThreadsTypeOK
    /\ \A t \in Threads : WorkOK(t)
    /\ HistoryTypeOK

NoCounts == [p \in Providers |-> 0]
EmptyCaches == [p \in Providers |-> [i \in Idents |-> NoMsg]]

Init ==
    /\ StoreInit
    /\ up = [n \in Nodes |-> TRUE]
    /\ ident = [n \in Nodes |-> NoCounts]
    /\ cache = [n \in Nodes |-> EmptyCaches]
    /\ inflight = {}
    /\ pc = [t \in Threads |-> "idle"]
    /\ cur = [t \in Threads |-> NoMsg]
    /\ prov = [t \in Threads |-> NoType]
    /\ todo = [t \in Threads |-> {}]
    /\ unread = [t \in Threads |-> {}]
    /\ slot = [t \in Threads |-> 0]
    /\ tries = [m \in Msgs |-> 0]
    /\ faults = 0

-----------------------------------------------------------------------------
(* Control flow of a thread *)

Goto(t, l) ==
    /\ pc' = [pc EXCEPT ![t] = l]
    /\ UNCHANGED locals

\* Leave the handler: its local variables are gone.
Leave(t, l) ==
    /\ pc' = [pc EXCEPT ![t] = l]
    /\ cur' = [cur EXCEPT ![t] = NoMsg]
    /\ prov' = [prov EXCEPT ![t] = NoType]
    /\ todo' = [todo EXCEPT ![t] = {}]
    /\ unread' = [unread EXCEPT ![t] = {}]
    /\ slot' = [slot EXCEPT ![t] = 0]

Finish(t) == Leave(t, "idle")

\* An exception: the API handler catches it and answers with error_json; on the
\* main thread it leaves io_.run() and main() catches it on its way out.
Throw(t) == Leave(t, IF IsMain(t) THEN "unwind" ELSE "idle")

\* redeliver() or push() returns.
Proceed(t) ==
    IF IsMain(t) \/ todo[t] # {}
    THEN /\ pc' = [pc EXCEPT ![t] = "next"]
         /\ cur' = [cur EXCEPT ![t] = NoMsg]
         /\ slot' = [slot EXCEPT ![t] = 0]
         /\ UNCHANGED <<prov, todo, unread>>
    ELSE Finish(t)

\* The process of node n is gone: its threads, counters, caches and the posts
\* its provider library has not answered.
Halt(n) ==
    /\ up' = [up EXCEPT ![n] = FALSE]
    /\ ident' = [ident EXCEPT ![n] = NoCounts]
    /\ cache' = [cache EXCEPT ![n] = EmptyCaches]
    /\ inflight' = {f \in inflight : f.node # n}
    /\ pc' = [t \in Threads |-> IF t[1] = n THEN "idle" ELSE pc[t]]
    /\ cur' = [t \in Threads |-> IF t[1] = n THEN NoMsg ELSE cur[t]]
    /\ prov' = [t \in Threads |-> IF t[1] = n THEN NoType ELSE prov[t]]
    /\ todo' = [t \in Threads |-> IF t[1] = n THEN {} ELSE todo[t]]
    /\ unread' = [t \in Threads |-> IF t[1] = n THEN {} ELSE unread[t]]
    /\ slot' = [t \in Threads |-> IF t[1] = n THEN 0 ELSE slot[t]]

\* Two threads of a node are in the same std::map at once, t among them.
Racing(t, p) == \E u \in Threads \ {t} : u[1] = t[1] /\ pc[u] = "insert" /\ prov[u] = p

-----------------------------------------------------------------------------
(* push(), on an API worker *)

\* Bound: uuids are left for every push under way.
RoomForMessage ==
    Cardinality(issued) + Cardinality({t \in Threads : pc[t] \in {"write", "ident"} /\ cur[t] = NoMsg})
        < Cardinality(Msgs)

\* get_device_type found a device of a provider this node is set up for.  The
\* APNS branch writes the record first, the GCM branch takes an identifier first.
StartPush(t, p) ==
    /\ up[t[1]]
    /\ ~ IsMain(t)
    /\ pc[t] = "idle"
    /\ p \in Configured[t[1]]
    /\ RoomForMessage
    /\ pc' = [pc EXCEPT ![t] = IF p = "apns" THEN "write" ELSE "ident"]
    /\ prov' = [prov EXCEPT ![t] = p]
    /\ UNCHANGED <<storeVars, nodeVars, cur, todo, unread, slot, history>>

\* write_push.
PushWrite(t) ==
    /\ pc[t] = "write"
    /\ \E m \in Msgs \ issued :
        /\ WriteRecord(m, prov[t])
        /\ cur' = [cur EXCEPT ![t] = m]
    /\ pc' = [pc EXCEPT ![t] = IF prov[t] = "apns" THEN "ident" ELSE "insert"]
    /\ UNCHANGED <<nodeVars, prov, todo, unread, slot, history>>

\* Mutated: the counter is read, not incremented.
TakeSameIdent(t) ==
    LET n == t[1]
        p == prov[t]
    IN  /\ pc[t] = "ident"
        /\ ident[n][p] < MaxIdent
        /\ slot' = [slot EXCEPT ![t] = ident[n][p]]
        /\ pc' = [pc EXCEPT ![t] = IF cur[t] = NoMsg THEN "write" ELSE "insert"]
        /\ UNCHANGED <<storeVars, nodeVars, cur, prov, todo, unread, history>>

\* The reads of token and payload and then apns_identifier_++ or
\* gcm_identifier_++; in a GCM push, before there is a message.
TakeIdent(t) ==
    LET n == t[1]
        p == prov[t]
    IN  /\ pc[t] = "ident"
        /\ ident[n][p] < MaxIdent
        /\ slot' = [slot EXCEPT ![t] = ident[n][p]]
        /\ ident' = [ident EXCEPT ![n][p] = @ + 1]
        /\ pc' = [pc EXCEPT ![t] = IF cur[t] = NoMsg THEN "write" ELSE "insert"]
        /\ UNCHANGED <<storeVars, up, cache, inflight, cur, prov, todo, unread, history>>

\* apns_cache_[ident] = uuid, without a lock.
CacheInsert(t) ==
    /\ pc[t] = "insert"
    /\ \/ cache' = [cache EXCEPT ![t[1]][prov[t]][slot[t]] = cur[t]]
       \/ /\ "lost_insert" \in MapRaces
          /\ Racing(t, prov[t])
          /\ UNCHANGED cache
    /\ Goto(t, "post")
    /\ UNCHANGED <<storeVars, up, ident, inflight, history>>

\* The race, with another insert or with the lookup of a callback, may also crash.
MapCrash(t) ==
    /\ pc[t] = "insert"
    /\ "crash" \in MapRaces
    /\ \/ Racing(t, prov[t])
       \/ /\ pc[Main(t[1])] = "idle"
          /\ \E f \in inflight : f.node = t[1] /\ f.prov = prov[t]
    /\ Halt(t[1])
    /\ UNCHANGED <<storeVars, history>>

\* apns_->post, gcm_->post.
Post(t) ==
    /\ pc[t] = "post"
    /\ prov[t] \in Configured[t[1]]
    /\ inflight' = inflight \cup
           {[node |-> t[1], prov |-> prov[t], ident |-> slot[t], msg |-> cur[t]]}
    /\ tries' = [tries EXCEPT ![cur[t]] = @ + 1]
    /\ Proceed(t)
    /\ UNCHANGED <<storeVars, up, ident, cache, faults>>

\* redeliver() does not ask whether apns_ or gcm_ is null.  The timer does
\* before it lists, the API handler does not.
PostUnconfigured(t) ==
    /\ pc[t] = "post"
    /\ prov[t] \notin Configured[t[1]]
    /\ Halt(t[1])
    /\ UNCHANGED <<storeVars, history>>

-----------------------------------------------------------------------------
(* redeliver(), from the API or from the timer *)

\* Clients name messages they know: pushed before, or seen in a list.
StartRedeliver(t, S) ==
    /\ ManualRedelivery
    /\ up[t[1]]
    /\ ~ IsMain(t)
    /\ pc[t] = "idle"
    /\ S # {} /\ \A m \in S : tries[m] > 0
    /\ pc' = [pc EXCEPT ![t] = "next"]
    /\ todo' = [todo EXCEPT ![t] = S]
    /\ UNCHANGED <<storeVars, nodeVars, cur, prov, unread, slot, history>>

\* The API handler reads each message first; get_message throws without a record,
\* and the rest of the request is not done.
NextRequested(t) ==
    /\ ~ IsMain(t)
    /\ pc[t] = "next"
    /\ \E m \in todo[t] :
        \/ /\ HasRecord(m)
           /\ pc' = [pc EXCEPT ![t] = "check"]
           /\ cur' = [cur EXCEPT ![t] = m]
           /\ prov' = [prov EXCEPT ![t] = type[m]]
           /\ todo' = [todo EXCEPT ![t] = @ \ {m}]
           /\ UNCHANGED <<unread, slot>>
        \/ ~ HasRecord(m) /\ Throw(t)
    /\ UNCHANGED <<storeVars, nodeVars, history>>

\* on_check_redelivery: APNS, then GCM, each only if the node is set up for it.
TimerFires(n) ==
    LET t == Main(n)
    IN  /\ Redeliver
        /\ up[n]
        /\ pc[t] = "idle"
        /\ Configured[n] # {}
        /\ pc' = [pc EXCEPT ![t] = "list"]
        /\ prov' = [prov EXCEPT ![t] = IF "apns" \in Configured[n] THEN "apns" ELSE "gcm"]
        /\ UNCHANGED <<storeVars, nodeVars, cur, todo, unread, slot, history>>

\* Mutated: the timer lists the APNS set only.
ListApnsOnly(t) ==
    /\ pc[t] = "list"
    /\ pc' = [pc EXCEPT ![t] = "read"]
    /\ todo' = [todo EXCEPT ![t] = failed[prov[t]] \cap failed["apns"]]
    /\ unread' = [unread EXCEPT ![t] = failed[prov[t]] \cap failed["apns"]]
    /\ UNCHANGED <<storeVars, nodeVars, cur, prov, slot, history>>

\* get_failed_messages: SMEMBERS, then the fields of one element after the other.
ListFailed(t) ==
    /\ pc[t] = "list"
    /\ pc' = [pc EXCEPT ![t] = "read"]
    /\ todo' = [todo EXCEPT ![t] = failed[prov[t]]]
    /\ unread' = [unread EXCEPT ![t] = failed[prov[t]]]
    /\ UNCHANGED <<storeVars, nodeVars, cur, prov, slot, history>>

ReadListed(t) ==
    /\ pc[t] = "read"
    /\ \/ /\ unread[t] = {}
          /\ Goto(t, "next")
       \/ \E m \in unread[t] :
            \/ /\ Listable(m)
               /\ unread' = [unread EXCEPT ![t] = @ \ {m}]
               /\ UNCHANGED <<pc, cur, prov, todo, slot>>
            \/ ~ Listable(m) /\ Throw(t)
    /\ UNCHANGED <<storeVars, nodeVars, history>>

NextListed(t) ==
    /\ IsMain(t)
    /\ pc[t] = "next"
    /\ \/ \E m \in todo[t] :
            /\ pc' = [pc EXCEPT ![t] = "check"]
            /\ cur' = [cur EXCEPT ![t] = m]
            /\ todo' = [todo EXCEPT ![t] = @ \ {m}]
            /\ UNCHANGED <<prov, unread, slot>>
       \/ /\ todo[t] = {}
          /\ IF prov[t] = "apns" /\ "gcm" \in Configured[t[1]]
             THEN /\ pc' = [pc EXCEPT ![t] = "list"]
                  /\ prov' = [prov EXCEPT ![t] = "gcm"]
                  /\ UNCHANGED <<cur, todo, unread, slot>>
             ELSE Finish(t)    \* reset_redelivery_timer
    /\ UNCHANGED <<storeVars, nodeVars, history>>

\* remove_from_failed_messages: HGET type ...
CheckFailed(t) ==
    /\ pc[t] = "check"
    /\ IF HasRecord(cur[t]) THEN Goto(t, "srem") ELSE Throw(t)
    /\ UNCHANGED <<storeVars, nodeVars, history>>

\* Mutated: SREM's answer is not looked at; the provider is looked at after the SREM.
TakeAnyway(t) ==
    /\ pc[t] = "srem"
    /\ RemoveFailed(cur[t], prov[t])
    /\ Goto(t, "ident")
    /\ UNCHANGED <<nodeVars, history>>

TakeThenAskProvider(t) ==
    /\ pc[t] = "srem"
    /\ RemoveFailed(cur[t], prov[t])
    /\ IF InFailed(cur[t], prov[t]) /\ prov[t] \in Configured[t[1]]
       THEN Goto(t, "ident")
       ELSE Proceed(t)
    /\ UNCHANGED <<nodeVars, history>>

\* ... and SREM.  The one thread whose SREM removes the message goes on with it.
TakeFailed(t) ==
    /\ pc[t] = "srem"
    /\ RemoveFailed(cur[t], prov[t])
    /\ IF InFailed(cur[t], prov[t]) THEN Goto(t, "ident") ELSE Proceed(t)
    /\ UNCHANGED <<nodeVars, history>>

-----------------------------------------------------------------------------
(* on_apns and on_gcm, on the main thread *)

Lookup(f) == cache[f.node][f.prov][f.ident]

\* The library answers post f; the handler finds the uuid in the cache.
Answered(f, l) ==
    LET t == Main(f.node)
    IN  /\ up[f.node]
        /\ pc[t] = "idle"
        /\ Lookup(f) # NoMsg
        /\ inflight' = inflight \ {f}
        /\ pc' = [pc EXCEPT ![t] = l]
        /\ cur' = [cur EXCEPT ![t] = Lookup(f)]
        /\ prov' = [prov EXCEPT ![t] = f.prov]
        /\ UNCHANGED <<storeVars, up, ident, cache, todo, unread, slot, history>>

Delivered(f) ==
    Answered(f, IF f.prov \in Logged[f.node] THEN "sent" ELSE "drop")

Refused(f) ==
    /\ tries[f.msg] < MaxTries
    /\ Answered(f, "mark")

\* "Fatal error which should never happen."
UnknownIdent(f) ==
    LET t == Main(f.node)
    IN  /\ up[f.node]
        /\ pc[t] = "idle"
        /\ \/ Lookup(f) = NoMsg
           \/ "missed_lookup" \in MapRaces /\ Racing(t, f.prov)
        /\ inflight' = inflight \ {f}
        /\ Throw(t)
        /\ UNCHANGED <<storeVars, up, ident, cache, history>>

\* LOG_APNS("sent") and LOG_APNS("permanent_failure") read the message.
LogSettled(t) ==
    /\ pc[t] \in {"sent", "logperm"}
    /\ IF HasRecord(cur[t]) THEN Goto(t, "drop") ELSE Throw(t)
    /\ UNCHANGED <<storeVars, nodeVars, history>>

Drop(t) ==
    /\ pc[t] = "drop"
    /\ DropRecord(cur[t])
    /\ Finish(t)
    /\ UNCHANGED <<nodeVars, history>>

\* mark_push_record_failed: HGET type, HSET and SADD, HINCRBY.
MarkRead(t) ==
    /\ pc[t] = "mark"
    /\ IF HasRecord(cur[t]) THEN Goto(t, "sadd") ELSE Throw(t)
    /\ UNCHANGED <<storeVars, nodeVars, history>>

MarkFailed(t) ==
    /\ pc[t] = "sadd"
    /\ AddFailed(cur[t], prov[t])
    /\ Goto(t, "incr")
    /\ UNCHANGED <<nodeVars, history>>

\* Mutated: one attempt too many; one too few.
LimitPassed(a) == Redeliver /\ Limit < a
LimitNear(a) == Redeliver /\ Limit <= a + 1

\* redeliver_ && redeliver_attempts_ <= attempts
LimitReached(a) == Redeliver /\ Limit <= a

CountFailure(t) ==
    /\ pc[t] = "incr"
    /\ CountAttempt(cur[t])
    /\ \/ LimitReached(attempts[cur[t]] + 1) /\ Goto(t, "gcheck")
       \/ /\ ~ LimitReached(attempts[cur[t]] + 1)
          /\ IF prov[t] \in Logged[t[1]] THEN Goto(t, "logfail") ELSE Finish(t)
    /\ UNCHANGED <<nodeVars, history>>

\* The give-up: remove_from_failed_messages again, then the log, then the record.
GiveUpCheck(t) ==
    /\ pc[t] = "gcheck"
    /\ IF HasRecord(cur[t]) THEN Goto(t, "gsrem") ELSE Throw(t)
    /\ UNCHANGED <<storeVars, nodeVars, history>>

\* Mutated: SREM's answer is not looked at; the record goes, the set keeps the
\* message; the message leaves the set and the record stays.
GiveUpAnyway(t) ==
    /\ pc[t] = "gsrem"
    /\ RemoveFailed(cur[t], prov[t])
    /\ Goto(t, IF prov[t] \in Logged[t[1]] THEN "logperm" ELSE "drop")
    /\ UNCHANGED <<nodeVars, history>>

GiveUpListed(t) ==
    /\ pc[t] = "gsrem"
    /\ IF InFailed(cur[t], prov[t]) THEN Goto(t, "drop") ELSE Finish(t)
    /\ UNCHANGED <<storeVars, nodeVars, history>>

GiveUpKeepingRecord(t) ==
    /\ pc[t] = "gsrem"
    /\ RemoveFailed(cur[t], prov[t])
    /\ Finish(t)
    /\ UNCHANGED <<nodeVars, history>>

GiveUp(t) ==
    /\ pc[t] = "gsrem"
    /\ RemoveFailed(cur[t], prov[t])
    /\ IF InFailed(cur[t], prov[t])
       THEN Goto(t, IF prov[t] \in Logged[t[1]] THEN "logperm" ELSE "drop")
       ELSE Finish(t)
    /\ UNCHANGED <<nodeVars, history>>

\* LOG_APNS("redeliverable_failure")
LogFailure(t) ==
    /\ pc[t] = "logfail"
    /\ IF HasRecord(cur[t]) THEN Finish(t) ELSE Throw(t)
    /\ UNCHANGED <<storeVars, nodeVars, history>>

-----------------------------------------------------------------------------
(* Deaths and failures *)

\* main() returns after its catch; until then the API workers go on.
NodeExit(n) ==
    /\ pc[Main(n)] = "unwind"
    /\ Halt(n)
    /\ UNCHANGED <<storeVars, history>>

Crash(n) ==
    /\ faults < MaxFaults
    /\ up[n]
    /\ Halt(n)
    /\ faults' = faults + 1
    /\ UNCHANGED <<storeVars, tries>>

Restart(n) ==
    /\ ~ up[n]
    /\ up' = [up EXCEPT ![n] = TRUE]
    /\ UNCHANGED <<storeVars, ident, cache, inflight, pc, locals, history>>

\* redis3m throws transport_failure or unable_to_connect.  The command of this pc
\* was not run, or the command before it was run and its answer lost.
RedisFails(t) ==
    /\ faults < MaxFaults
    /\ pc[t] \notin {"idle", "unwind", "post"}
    /\ pc[t] = "insert" => prov[t] = "gcm"
    /\ pc[t] = "next" => ~ IsMain(t)
    /\ Throw(t)
    /\ faults' = faults + 1
    /\ UNCHANGED <<storeVars, nodeVars, tries>>

-----------------------------------------------------------------------------

\* One step of a handler that has started.
ThreadStep(t) ==
    \/ PushWrite(t) \/ TakeIdent(t) \/ CacheInsert(t) \/ MapCrash(t)
    \/ Post(t) \/ PostUnconfigured(t)
    \/ NextRequested(t) \/ ListFailed(t) \/ ReadListed(t) \/ NextListed(t)
    \/ CheckFailed(t) \/ TakeFailed(t)
    \/ LogSettled(t) \/ Drop(t)
    \/ MarkRead(t) \/ MarkFailed(t) \/ CountFailure(t)
    \/ GiveUpCheck(t) \/ GiveUp(t) \/ LogFailure(t)

Answer(f) == Delivered(f) \/ Refused(f) \/ UnknownIdent(f)

Next ==
    \/ \E t \in Threads :
        \/ \E p \in Providers : StartPush(t, p)
        \/ \E S \in SUBSET Msgs : StartRedeliver(t, S)
        \/ ThreadStep(t)
        \/ RedisFails(t)
    \/ \E f \in inflight : Answer(f)
    \/ \E n \in Nodes : TimerFires(n) \/ NodeExit(n) \/ Crash(n) \/ Restart(n)

Spec == Init /\ [][Next]_vars

(***************************************************************************)
(* Fairness.  A started handler runs on (WF).  io_.run() takes handlers in *)
(* the order they became ready, so the timer and an answer are not passed  *)
(* over for ever although the main thread is busy now and then (SF); that  *)
(* the library answers every post at all is an assumption about it.        *)
(* Nothing makes clients call, processes crash, Redis fail or an operator  *)
(* restart a node.                                                         *)
(***************************************************************************)
Fairness ==
    /\ \A t \in Threads : WF_vars(ThreadStep(t))
    /\ \A n \in Nodes : WF_vars(NodeExit(n)) /\ SF_vars(TimerFires(n))
    /\ \A m \in Msgs : SF_vars(\E f \in inflight : f.msg = m /\ Answer(f))

FairSpec == Spec /\ Fairness

-----------------------------------------------------------------------------
(* Ownership.  A message is owned by the thread that works on it between the *)
(* write of its record, or the SREM that takes it, and the post; by the post *)
(* itself until it is answered; by the callback until it has dropped the     *)
(* record or put the message into the failed set.                            *)

OwnerPcs == {"ident", "insert", "post", "sent", "drop", "mark", "sadd", "logperm"}

Holds(t, m) == pc[t] \in OwnerPcs /\ cur[t] = m
Held(m) == \E t \in Threads : Holds(t, m)
Posted(m) == \E f \in inflight : f.msg = m
InSomeSet(m) == \E p \in Providers : m \in failed[p]

\* No message is worked on twice: at most one thread of all nodes owns it, or one
\* unanswered post, or one failed set has it, and never two of these at once.
\* This is what the answer of SREM in remove_from_failed_messages is for.
SingleOwner ==
    /\ \A t, u \in Threads : \A m \in Msgs : Holds(t, m) /\ Holds(u, m) => t = u
    /\ \A f, g \in inflight : f.msg = g.msg => f = g
    /\ \A p, q \in Providers : failed[p] \cap failed[q] # {} => p = q
    /\ \A m \in Msgs :
        /\ Held(m) => ~ Posted(m) /\ ~ InSomeSet(m)
        /\ Posted(m) => ~ InSomeSet(m)

\* Whoever owns a message finds its record: the HGETs of redeliver() after the
\* SREM, of LOG_APNS("sent") and of mark_push_record_failed cannot come back empty
\* because of what another thread or node does.
OwnerFindsRecord ==
    \A m \in Msgs : Held(m) \/ Posted(m) => HasRecord(m)

\* failed_messages.<p> lists only messages that have a record, and the record
\* says provider p: drop_push_record never leaves a listed message behind.
FailedIsLive ==
    \A p \in Providers : \A m \in failed[p] : type[m] = p

\* The cache entry of an unanswered post is the message that was posted, so that a
\* callback never marks or drops another message; a lost insertion may leave none.
CallbackMatches ==
    \A f \in inflight :
        \/ Lookup(f) = f.msg
        \/ Lookup(f) = NoMsg /\ "lost_insert" \in MapRaces

-----------------------------------------------------------------------------
(* What SingleOwner, OwnerFindsRecord and FailedIsLive rest on.  Together    *)
(* with them it is inductive (PushyOwnershipProofs).                         *)

\* Every message anybody knows of was given a uuid by write_push.
IssuedFirst ==
    /\ \A m \in Msgs : HasRecord(m) \/ tries[m] > 0 => m \in issued
    /\ \A p \in Providers : failed[p] \subseteq issued
    /\ \A t \in Threads : (cur[t] # NoMsg => cur[t] \in issued) /\ todo[t] \subseteq issued
    /\ \A f \in inflight : f.msg \in issued

\* Between two messages a thread has none, between two handlers no list either.
Resting(t) ==
    /\ pc[t] \in {"idle", "unwind", "write"} \cup ListPcs => cur[t] = NoMsg
    /\ pc[t] \in {"idle", "unwind"} => todo[t] = {}

\* The provider a thread or a post works for is the one of the message's record.
ProviderOK(t) ==
    /\ cur[t] # NoMsg /\ HasRecord(cur[t]) => type[cur[t]] = prov[t]
    /\ IsMain(t) => \A m \in todo[t] : HasRecord(m) => type[m] = prov[t]

ProviderAgrees ==
    /\ \A t \in Threads : ProviderOK(t)
    /\ \A f \in inflight : type[f.msg] = f.prov

\* Identifiers in use on a node for one provider were taken from its counter, each once.
SameMap(t, u) == t[1] = u[1] /\ prov[t] = prov[u]
InMap(f, t) == f.node = t[1] /\ f.prov = prov[t]

SlotsDistinct ==
    /\ \A t \in Threads : UsesSlot(t) => slot[t] < ident[t[1]][prov[t]]
    /\ \A t, u \in Threads :
        t # u /\ UsesSlot(t) /\ UsesSlot(u) /\ SameMap(t, u) => slot[t] # slot[u]
    /\ \A f \in inflight : f.ident < ident[f.node][f.prov]
    /\ \A f \in inflight : \A t \in Threads : UsesSlot(t) /\ InMap(f, t) => f.ident # slot[t]
    /\ \A f, g \in inflight :
        f.node = g.node /\ f.prov = g.prov /\ f.ident = g.ident => f = g

\* The cell of an identifier holds the message it was taken for, once that is inserted.
CellOK(c, m) == c = m \/ (c = NoMsg /\ "lost_insert" \in MapRaces)

CacheHolds ==
    /\ \A n \in Nodes : \A p \in Providers : \A i \in Idents :
        i >= ident[n][p] => cache[n][p][i] = NoMsg
    /\ \A t \in Threads : UsesSlot(t) /\ pc[t] # "post" => cache[t[1]][prov[t]][slot[t]] = NoMsg
    /\ \A t \in Threads : pc[t] = "post" => CellOK(cache[t[1]][prov[t]][slot[t]], cur[t])
    /\ \A f \in inflight : CellOK(Lookup(f), f.msg)

\* The inductive invariant: who owns a message, and all that its owner relies on.
OwnershipInv ==
    /\ TypeOK
    /\ IssuedFirst
    /\ \A t \in Threads : Resting(t)
    /\ ProviderAgrees
    /\ SlotsDistinct
    /\ CacheHolds
    /\ SingleOwner
    /\ OwnerFindsRecord
    /\ FailedIsLive

-----------------------------------------------------------------------------
(* What NotGivenUpEarly rests on *)

\* Threads that have a refused message m and have not counted the failure yet.
Counting(m) == {t \in Threads : cur[t] = m /\ pc[t] \in {"mark", "sadd", "incr"}}

\* Failures of m that are or may still be added to its attempts.
Uncounted(m) == Cardinality(Counting(m)) + (IF Posted(m) THEN 1 ELSE 0)

\* mark_push_record_failed never counts a failure that was none, and none twice: the
\* attempts in Redis, the callbacks of all nodes that have still to add one and the
\* post that may yet fail come to at most the times the message was posted.
CountedOnce ==
    \A m \in Msgs : IsFiniteSet(Counting(m)) /\ attempts[m] + Uncounted(m) <= tries[m]

\* A thread that has read a count at the limit works on a message posted that often.
ReachedLimit(t) == pc[t] \in {"gcheck", "gsrem"} => tries[cur[t]] >= Limit

\* The inductive invariant of the counts, on any number of nodes with any faults.
CountInv ==
    /\ OwnershipInv
    /\ CountedOnce
    /\ \A t \in Threads : ReachedLimit(t)

-----------------------------------------------------------------------------
(* A node by itself: what MainNeverDies and NothingLost rest on *)

ByItself ==
    /\ \A m, n \in Nodes : m = n
    /\ MapRaces = {}
    /\ MaxFaults = 0

\* Callbacks and the timer run on the main thread, and only there.
MainOnly == {"unwind", "list", "read"} \cup CallbackPcs

\* Whatever the main thread has in its hands or on its lists has a record; a listed
\* message whose fields are still to be read has its count as well.
MainFinds(t) ==
    /\ cur[t] # NoMsg => HasRecord(cur[t])
    /\ \A m \in todo[t] : HasRecord(m)
    /\ \A m \in unread[t] : Listable(m)
    /\ pc[t] \in CallbackPcs \cup {"idle"} => todo[t] = {} /\ unread[t] = {}

\* A message in a failed set has been counted, or the main thread is about to.
FailedIsCounted ==
    \A m \in Msgs : InSomeSet(m) =>
        attempts[m] > 0 \/ \E t \in Threads : pc[t] = "incr" /\ cur[t] = m

\* Everything is of a provider that the node is set up for.
OnlyConfigured ==
    \A n \in Nodes :
        /\ \A m \in Msgs : HasRecord(m) => type[m] \in Configured[n]
        /\ \A t \in Threads : prov[t] # NoType => prov[t] \in Configured[n]

\* The inductive invariant of a node by itself: what on_apns, on_gcm and the timer look for
\* in Redis is there, although the workers push and redeliver meanwhile.
AloneInv ==
    /\ OwnershipInv
    /\ \A t \in Threads : pc[t] \in MainOnly => IsMain(t)
    /\ \A n \in Nodes : up[n] /\ pc[Main(n)] # "unwind" /\ MainFinds(Main(n))
    /\ FailedIsCounted
    /\ OnlyConfigured

-----------------------------------------------------------------------------
(* ... and TriesWithinLimit, when no client calls /redeliver *)

\* Between SADD and the SREM of the give-up the message is in its set, and not the
\* callback's any more.
WindowPcs == {"incr", "gcheck", "gsrem"}
InWindow(t, m) == cur[t] = m /\ pc[t] \in WindowPcs

\* A thread is on the way from the SREM or the HMSET of m to the post.
Posting(t, m) == cur[t] = m /\ pc[t] \in {"ident", "insert", "post"}

\* m may be posted as things are: nothing else has to happen to it first.
Postable(m) ==
    \/ InSomeSet(m) /\ ~ \E t \in Threads : InWindow(t, m)
    \/ \E t \in Threads : Posting(t, m)

\* m is posted, or refused and not yet counted.
Unsettled(m) == Posted(m) \/ \E t \in Threads : t \in Counting(m)

\* Every post of a message that may be posted again was counted, and the count is below
\* the limit; of one that is posted or refused all but the last were.
InLimit(m) ==
    /\ tries[m] <= Limit
    /\ Postable(m) => tries[m] <= attempts[m] /\ attempts[m] < Limit
    /\ Unsettled(m) => tries[m] <= attempts[m] + 1 /\ attempts[m] < Limit

\* Without /redeliver the workers only push ...
WorkersPush == \A t \in Threads : ~ IsMain(t) => pc[t] \in {"idle"} \cup PushPcs /\ todo[t] = {}

\* ... and nobody takes a message from its set while its callback is in the window.
WindowListed == \A t \in Threads : pc[t] \in WindowPcs => InSomeSet(cur[t])

\* The inductive invariant of the limit: no order of pushes, answers, timers and give-ups
\* on one node brings a message to the post uncounted.
LimitInv ==
    /\ AloneInv
    /\ CountInv
    /\ WorkersPush
    /\ WindowListed
    /\ \A m \in Msgs : InLimit(m)

-----------------------------------------------------------------------------
(* The life of a message *)

Stage == [m \in Msgs |->
    CASE m \notin issued -> "new"
      [] m \in issued /\ ~ HasRecord(m) -> "done"
      [] HasRecord(m) /\ InSomeSet(m) -> "failed"
      [] HasRecord(m) /\ ~ InSomeSet(m) /\ (Held(m) \/ Posted(m)) -> "owned"
      [] OTHER -> "lost"]

Ledger == INSTANCE PushLedger WITH stage <- Stage

\* The cluster implements PushLedger: every step of every thread moves messages
\* only the way the ledger allows, so no message comes back once it is settled or
\* lost, none is claimed that did not fail, none is settled by a non-owner.
ImplementsLedger == Ledger!Spec

\* A message that nobody has finished is forgotten only when a process dies (a halt,
\* or an exception that leaves io_.run()) or a Redis command fails: no path of
\* push(), redeliver() or the callbacks drops it on the floor.
OnlyDeathLoses ==
    [][\A m \in Msgs : Stage[m] # "lost" /\ Stage'[m] = "lost" =>
        \/ faults' > faults
        \/ \E n \in Nodes : up[n] /\ ~ up'[n]
        \/ \E n \in Nodes : pc[Main(n)] # "unwind" /\ pc'[Main(n)] = "unwind"]_vars

\* A message is given up on only after it was posted Limit times, also when several
\* nodes fail it, take it again and count its failures in any order.
NotGivenUpEarly ==
    [][\A t \in Threads :
        pc[t] = "gsrem" /\ pc'[t] \in {"logperm", "drop"} => tries[cur[t]] >= Limit]_vars

\* No exception of on_apns, on_gcm or the timer reaches io_.run(): get_message,
\* get_failed_messages, mark_push_record_failed and remove_from_failed_messages find on
\* the main thread what they look for.  True of a node alone with Redis; see
\* TakenIsSkipped for two, and DeviceRegistry for on_apns_feed.
MainNeverDies == \A n \in Nodes : up[n] /\ pc[Main(n)] # "unwind"

\* Every message that is not settled has an owner or is listed as failed.
NothingLost == \A m \in Msgs : Stage[m] # "lost"

\* auto.attempts: "times to try deliver a message before giving up".
TriesWithinLimit == Redeliver => \A m \in Msgs : tries[m] <= Limit

\* With redelivery on, every accepted message is delivered or given up on.
EventuallySettled ==
    \A m \in Msgs : (m \in issued) ~> (Stage[m] = "done")

\* redeliver(): "if remove_from_failed_messages returns false it means that another
\* node has taken this for redelivery, so we just skip it": asking whether the message
\* is still failed does not end the handler.
TakenIsSkipped ==
    [][\A t \in Threads : pc[t] = "check" /\ up'[t[1]] => pc'[t] \in {"check", "srem"}]_vars

\* "exceeded redelivery attempts. removing it completely.": nothing of the hash of a
\* settled message is left, or comes back.
RemovedCompletely ==
    \A m \in issued : ~ HasRecord(m) => attempts[m] = 0

=============================================================================
