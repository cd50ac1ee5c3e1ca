--------------------------- MODULE DeviceRegistry ---------------------------
(***************************************************************************)
(* The devices of class dba (src/src/database.cpp) and who works on them:  *)
(* the API handlers /device/register, /device/remove, /leavers and the     *)
(* device reads of /send, on the worker threads of all nodes, and          *)
(* on_apns_feed, on the main threads.  Keys of Redis: device.<uuid>,       *)
(* device_token.<token> and the set dead_devices.                          *)
(*                                                                         *)
(* A step is one Redis command.  A script of dba::drop_device is one       *)
(* command too; on a key that does not exist it ends in an error reply     *)
(* that nobody looks at.  The field `type' of a device is written by the   *)
(* HMSET that writes `token' and stands and falls with it.                 *)
(*                                                                         *)
(* push::apns_feedback is outside the repository: it reports, at any time  *)
(* and as often as it likes, tokens of devices that were registered.       *)
(***************************************************************************)
EXTENDS Integers

CONSTANTS
    Devices,    \* uuids register_device may hand out
    Stranger,   \* a uuid no device ever had
    Tokens,     \* tokens clients register (for APNS already base64 text)
    Texts,      \* tokens and their base64 texts
    Base64,     \* util::base64::encode, on Tokens
    UuidTexts,  \* base64 texts string_generator accepts: the start reads as a uuid
    NoText,     \* the empty string, Redis' answer for a field or key that is not there
    Workers,    \* API worker threads of all nodes
    Feeds,      \* main threads of the nodes with a feedback channel
    Deregister, \* those whose node has deregister_ (auto.deregister) on
    Logged,     \* those whose node has an APNS log file
    MaxFaults   \* bound: Redis failures and process deaths

ASSUME RegistryAssumption ==
    /\ Stranger \notin Devices
    /\ Tokens \subseteq Texts
    /\ Base64 \in [Tokens -> Texts]
    /\ UuidTexts \subseteq Texts
    /\ NoText \notin Texts
    /\ Workers \cap Feeds = {}
    /\ Deregister \subseteq Feeds
    /\ Logged \subseteq Feeds
    /\ MaxFaults \in Nat

VARIABLES
    registered, \* registered[d]: the token d was handed out for (history), or NoText
    token,      \* token[d]: field `token' of device.<d>
    death,      \* uuids whose hash device.<uuid> has the field `death_time'
    mapping,    \* mapping[k]: value of device_token.<k>
    dead,       \* the set dead_devices
    messaged,   \* devices of the messages on record
    pc,         \* pc[t]: what thread t does next
    dev,        \* dev[t]: the device it works on
    tok,        \* tok[t]: the token it has read or was given
    todo,       \* todo[t]: devices of its loop still to handle
    asked,      \* asked[t]: all devices of its /device/remove request (history)
    undated,    \* uuids dropped, or whose marking broke off, since their last SADD (history)
    faults      \* failures so far (history)

registryVars == <<token, death, mapping, dead>>
redisVars == <<registryVars, messaged>>
locals    == <<pc, dev, tok, todo>>
history   == <<registered, asked, undated, faults>>
vars      == <<redisVars, locals, history>>

Threads == Workers \cup Feeds
Uuids == Devices \cup {Stranger}

Pcs == {"idle", "dead", "map", "droptoken", "dropmap", "dropdev", "find", "sadd", "hset",
        "leavers", "type", "token", "post"}

TypeOK ==
    /\ registered \in [Devices -> Tokens \cup {NoText}]
    /\ token \in [Uuids -> Tokens \cup {NoText}]
    /\ death \subseteq Uuids
    /\ mapping \in [Tokens -> Texts \cup {NoText}]
    /\ dead \subseteq Uuids
    /\ messaged \subseteq Devices
    /\ pc \in [Threads -> Pcs]
    /\ dev \in [Threads -> Uuids]
    /\ tok \in [Threads -> Tokens \cup {NoText}]
    /\ todo \in [Threads -> SUBSET Uuids]
    /\ asked \in [Threads -> SUBSET Uuids]
    /\ undated \subseteq Uuids
    /\ faults \in 0 .. MaxFaults
    /\ \A t \in Threads : pc[t] \in {"map", "find"} => tok[t] \in Tokens

Init ==
    /\ registered = [d \in Devices |-> NoText]
    /\ token = [d \in Uuids |-> NoText]
    /\ death = {}
    /\ mapping = [k \in Tokens |-> NoText]
    /\ dead = {}
    /\ messaged = {}
    /\ pc = [t \in Threads |-> "idle"]
    /\ dev = [t \in Threads |-> Stranger]
    /\ tok = [t \in Threads |-> NoText]
    /\ todo = [t \in Threads |-> {}]
    /\ asked = [t \in Threads |-> {}]
    /\ undated = {}
    /\ faults = 0

-----------------------------------------------------------------------------
(* Control flow *)

\* The next command of the thread; d and x are its device and token from now on.
Goto(t, l, d, x) ==
    /\ pc' = [pc EXCEPT ![t] = l]
    /\ dev' = [dev EXCEPT ![t] = d]
    /\ tok' = [tok EXCEPT ![t] = x]

Leave(t, l) ==
    /\ Goto(t, l, Stranger, NoText)
    /\ todo' = [todo EXCEPT ![t] = {}]
    /\ asked' = [asked EXCEPT ![t] = {}]

Finish(t) == Leave(t, "idle")

\* An API worker answers with error_json; the main thread ends its process.
Throw(t) == Leave(t, IF t \in Feeds THEN "dead" ELSE "idle")

\* Uuids a client has seen: answers of /device/register, lists of /leavers.
Known == {d \in Devices : registered[d] # NoText} \cup dead

-----------------------------------------------------------------------------
(* register_device, for /device/register/apns and /device/register/gcm *)

\* HMSET of type and token under a new uuid ...
Register(t, x) ==
    /\ t \in Workers
    /\ pc[t] = "idle"
    /\ \E d \in Devices :
        /\ registered[d] = NoText
        /\ registered' = [registered EXCEPT ![d] = x]
        /\ token' = [token EXCEPT ![d] = x]
        /\ Goto(t, "map", d, x)
    /\ UNCHANGED <<death, mapping, dead, messaged, todo, asked, undated, faults>>

\* ... and SET of device_token.<token>.  The value is the token in base64, not the uuid.
RegisterMapping(t) ==
    /\ pc[t] = "map"
    /\ mapping' = [mapping EXCEPT ![tok[t]] = Base64[tok[t]]]
    /\ Finish(t)
    /\ UNCHANGED <<token, death, dead, messaged, registered, undated, faults>>

-----------------------------------------------------------------------------
(* drop_device, for /device/remove and for the feedback *)

StartRemove(t, S) ==
    /\ t \in Workers
    /\ pc[t] = "idle"
    /\ \E d \in S :
        /\ Goto(t, "droptoken", d, NoText)
        /\ todo' = [todo EXCEPT ![t] = S \ {d}]
    /\ asked' = [asked EXCEPT ![t] = S]
    /\ UNCHANGED <<redisVars, registered, undated, faults>>

\* HGET token.
DropReadToken(t) ==
    /\ pc[t] = "droptoken"
    /\ Goto(t, "dropmap", dev[t], token[dev[t]])
    /\ UNCHANGED <<redisVars, todo, history>>

\* The first script deletes device_token.<base64 of the token>.
DropMapping(t) ==
    /\ pc[t] = "dropmap"
    /\ mapping' = [k \in Tokens |->
            IF tok[t] # NoText /\ k = Base64[tok[t]] THEN NoText ELSE mapping[k]]
    /\ Goto(t, "dropdev", dev[t], tok[t])
    /\ UNCHANGED <<token, death, dead, messaged, todo, history>>

\* Mutated: the request is answered after its first device.
DropFirst(t) ==
    /\ pc[t] = "dropdev"
    /\ token' = [token EXCEPT ![dev[t]] = NoText]
    /\ death' = death \ {dev[t]}
    /\ IF t \in Logged THEN Throw(t) ELSE Finish(t)
    /\ undated' = undated \cup {dev[t]}
    /\ UNCHANGED <<mapping, dead, messaged, registered, faults>>

\* The second deletes device.<uuid>; dead_devices is left as it is.  Then the next
\* device of the request; on_apns_feed reads message.<uuid of the device> for its log
\* instead, where there is none, so that get_message throws when the log is on.
DropDevice(t) ==
    /\ pc[t] = "dropdev"
    /\ token' = [token EXCEPT ![dev[t]] = NoText]
    /\ death' = death \ {dev[t]}
    /\ \/ /\ todo[t] = {}
          /\ IF t \in Logged THEN Throw(t) ELSE Finish(t)
       \/ \E d \in todo[t] :
            /\ Goto(t, "droptoken", d, NoText)
            /\ todo' = [todo EXCEPT ![t] = @ \ {d}]
            /\ UNCHANGED asked
    /\ undated' = undated \cup {dev[t]}
    /\ UNCHANGED <<mapping, dead, messaged, registered, faults>>

-----------------------------------------------------------------------------
(* on_apns_feed, on a main thread *)

\* The library reports that the device with token x does not want pushes any more.
Report(t, x) ==
    /\ t \in Feeds
    /\ pc[t] = "idle"
    /\ Goto(t, "find", Stranger, x)
    /\ UNCHANGED <<redisVars, todo, history>>

\* Mutated: what GET answers is taken for a uuid without a look at it.
FindAnything(t) ==
    /\ pc[t] = "find"
    /\ Goto(t, IF t \in Deregister THEN "droptoken" ELSE "sadd", mapping[tok[t]], NoText)
    /\ UNCHANGED <<redisVars, todo, history>>

\* find_device_by_token64: GET, and string_generator on what it answers.
FindDevice(t) ==
    /\ pc[t] = "find"
    /\ \/ /\ mapping[tok[t]] \in UuidTexts
          /\ Goto(t, IF t \in Deregister THEN "droptoken" ELSE "sadd", Stranger, NoText)
          /\ UNCHANGED <<todo, asked>>
       \/ mapping[tok[t]] \notin UuidTexts /\ Throw(t)
    /\ UNCHANGED <<redisVars, registered, undated, faults>>

\* Mutated: a device that is in dead_devices already is not given another time.
MarkOnce(t) ==
    /\ pc[t] = "sadd"
    /\ dead' = dead \cup {dev[t]}
    /\ undated' = undated \ {dev[t]}
    /\ \/ /\ dev[t] \notin dead
          /\ Goto(t, "hset", dev[t], tok[t])
          /\ UNCHANGED <<todo, asked>>
       \/ dev[t] \in dead /\ Finish(t)
    /\ UNCHANGED <<token, death, mapping, messaged, registered, faults>>

\* mark_device_dead: SADD ...
MarkDead(t) ==
    /\ pc[t] = "sadd"
    /\ dead' = dead \cup {dev[t]}
    /\ undated' = undated \ {dev[t]}
    /\ Goto(t, "hset", dev[t], tok[t])
    /\ UNCHANGED <<token, death, mapping, messaged, todo, registered, asked, faults>>

\* ... and HSET, which creates a hash that is gone.
MarkDeathTime(t) ==
    /\ pc[t] = "hset"
    /\ death' = death \cup {dev[t]}
    /\ Finish(t)
    /\ UNCHANGED <<token, mapping, dead, messaged, registered, undated, faults>>

-----------------------------------------------------------------------------
(* get_dead_devices, for /leavers *)

StartLeavers(t) ==
    /\ t \in Workers
    /\ pc[t] = "idle"
    /\ todo' = [todo EXCEPT ![t] = dead]
    /\ pc' = [pc EXCEPT ![t] = "leavers"]
    /\ UNCHANGED <<redisVars, dev, tok, history>>

\* HGET death_time of one element after the other; time_from_string refuses "".
ReadLeaver(t) ==
    /\ pc[t] = "leavers"
    /\ \/ todo[t] = {} /\ Finish(t)
       \/ \E d \in todo[t] :
            \/ /\ d \in death
               /\ todo' = [todo EXCEPT ![t] = @ \ {d}]
               /\ UNCHANGED <<pc, dev, tok, asked>>
            \/ d \notin death /\ Throw(t)
    /\ UNCHANGED <<redisVars, registered, undated, faults>>

-----------------------------------------------------------------------------
(* The device reads of push() and redeliver() *)

\* get_device_type: EXISTS.  Without the key the request changes nothing.
StartSend(t, d) ==
    /\ t \in Workers
    /\ pc[t] = "idle"
    /\ token[d] # NoText \/ d \in death
    /\ Goto(t, "type", d, NoText)
    /\ UNCHANGED <<redisVars, todo, history>>

\* HGET type; lexical_cast refuses "".
SendType(t) ==
    /\ pc[t] = "type"
    /\ \/ /\ token[dev[t]] # NoText
          /\ Goto(t, "token", dev[t], NoText)
          /\ UNCHANGED <<todo, asked>>
       \/ token[dev[t]] = NoText /\ Throw(t)
    /\ UNCHANGED <<redisVars, registered, undated, faults>>

\* pushy_service::redeliver, for /redeliver and for the timer: the device is the one of
\* the message, and nobody asks whether it still exists.
StartRedelivery(t) ==
    /\ pc[t] = "idle"
    /\ \E d \in messaged : Goto(t, "token", d, NoText)
    /\ UNCHANGED <<redisVars, todo, history>>

\* Mutated: the token comes from the mapping of some registration.
SendAnyToken(t) ==
    /\ pc[t] = "token"
    /\ \E x \in Tokens : mapping[x] # NoText /\ Goto(t, "post", dev[t], x)
    /\ messaged' = messaged \cup {dev[t]}
    /\ UNCHANGED <<registryVars, todo, history>>

\* get_apns_device, get_gcm_device: HGET token; nobody looks whether it is there.  For a
\* new push the record of the message is written next to it.
SendToken(t) ==
    /\ pc[t] = "token"
    /\ Goto(t, "post", dev[t], token[dev[t]])
    /\ messaged' = messaged \cup {dev[t]}
    /\ UNCHANGED <<registryVars, todo, history>>

\* post() to the provider, with that token.
SendPost(t) ==
    /\ pc[t] = "post"
    /\ Finish(t)
    /\ UNCHANGED <<redisVars, registered, undated, faults>>

-----------------------------------------------------------------------------
(* Failures *)

\* A Redis failure, or the death of the process: the rest of the handler is not done.  A
\* process that dies takes its workers along: a fault of each that was working.
Fails(t) ==
    /\ faults < MaxFaults
    /\ pc[t] \notin {"idle", "dead"}
    /\ Throw(t)
    /\ faults' = faults + 1
    /\ undated' = IF pc[t] = "hset" THEN undated \cup {dev[t]} ELSE undated
    /\ UNCHANGED <<redisVars, registered>>

\* An operator starts a process again.
Restart(t) ==
    /\ pc[t] = "dead"
    /\ Finish(t)
    /\ UNCHANGED <<redisVars, registered, undated, faults>>

-----------------------------------------------------------------------------

ThreadStep(t) ==
    \/ RegisterMapping(t)
    \/ DropReadToken(t) \/ DropMapping(t) \/ DropDevice(t)
    \/ FindDevice(t) \/ MarkDead(t) \/ MarkDeathTime(t)
    \/ ReadLeaver(t)
    \/ SendType(t) \/ SendToken(t) \/ SendPost(t)

Next ==
    \E t \in Threads :
        \/ \E x \in Tokens : Register(t, x) \/ Report(t, x)
        \/ \E S \in SUBSET Known : StartRemove(t, S)
        \/ \E d \in Known : StartSend(t, d)
        \/ StartLeavers(t)
        \/ StartRedelivery(t)
        \/ ThreadStep(t)
        \/ Fails(t)
        \/ Restart(t)

Spec == Init /\ [][Next]_vars

\* A handler that was started runs on.
FairSpec == Spec /\ \A t \in Threads : WF_vars(ThreadStep(t))

-----------------------------------------------------------------------------
(* Properties *)

Removed(d) == registered[d] # NoText /\ token[d] = NoText

\* A push goes to the token its device was registered with, or to no token at all when
\* the device was removed since push() looked for it: never to another device.
OwnTokenOnly ==
    \A t \in Threads : pc[t] = "post" =>
        /\ dev[t] \in Devices
        /\ registered[dev[t]] # NoText
        /\ tok[t] = registered[dev[t]] \/ (tok[t] = NoText /\ Removed(dev[t]))

\* When /device/remove answers with success, none of its devices is left, although the
\* worker looks at them one after the other and other requests and the feedback run on.
RemovedWhenAnswered ==
    [][\A t \in Workers : pc[t] = "dropdev" /\ pc'[t] = "idle" /\ faults' = faults =>
        \A d \in asked[t] \cap Devices : Removed(d)']_vars

\* The time that /leavers will read is still to be written.
BeingMarked(d) == \E t \in Threads : pc[t] = "hset" /\ dev[t] = d

\* /leavers answers with its list, while devices are reported, marked again and removed:
\* without a Redis failure it fails only on a device that is between SADD and HSET, or that
\* lost its time with its hash, or never got it, and was not reported again since.
LeaversListed ==
    [][\A t \in Workers :
        pc[t] = "leavers" /\ todo[t] # {} /\ pc'[t] = "idle" /\ faults' = faults =>
            \E d \in todo[t] : d \in undated \/ BeingMarked(d)]_vars

\* auto.deregister: "automatically deregister devices which reported as unreachable".
UnreachableDeregistered ==
    \A d \in Devices :
        (\E t \in Feeds : pc[t] = "find" /\ tok[t] = registered[d]) ~> Removed(d)

-----------------------------------------------------------------------------
(* The inductive invariant *)

\* A device's token is the one it was registered with, until it is removed.
TokenKept ==
    /\ token[Stranger] = NoText
    /\ \A d \in Devices : token[d] \in {registered[d], NoText}

\* Only registered devices have messages and are asked for their token.
SendsToRegistered ==
    /\ \A d \in messaged : registered[d] # NoText
    /\ \A t \in Threads : pc[t] \in {"token", "post"} =>
        dev[t] \in Devices /\ registered[dev[t]] # NoText

\* The feedback never names a device: the mapping holds no uuid that was handed out.
DeadAreStrangers ==
    /\ dead \subseteq {Stranger}
    /\ \A t \in Threads : pc[t] \in {"sadd", "hset"} => dev[t] = Stranger

\* Each device in dead_devices has its time, is about to get it, or lost it; what /leavers
\* goes through is in dead_devices.
LeaversDated ==
    /\ \A d \in dead \ death : d \in undated \/ BeingMarked(d)
    /\ \A t \in Threads : pc[t] = "leavers" => todo[t] \subseteq dead

\* What /device/remove has passed is removed, the rest is in its hands or still to do.
RemovalProgress ==
    \A t \in Threads :
        /\ asked[t] # {} => pc[t] \in {"droptoken", "dropmap", "dropdev"}
        /\ \A d \in asked[t] \cap Devices :
            /\ registered[d] # NoText
            /\ Removed(d) \/ d = dev[t] \/ d \in todo[t]

\* The inductive invariant of the registry: what the API handlers, the redelivery and the
\* feedback rely on while they read and write the same keys one command at a time.
RegistryInv ==
    /\ TypeOK
    /\ TokenKept
    /\ SendsToRegistered
    /\ OwnTokenOnly
    /\ DeadAreStrangers
    /\ LeaversDated
    /\ RemovalProgress

=============================================================================
