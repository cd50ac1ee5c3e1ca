------------------------ MODULE DeviceRegistryProofs ------------------------
(***************************************************************************)
(* RegistryInv is an inductive invariant of DeviceRegistry, for every      *)
(* value of the constants, and what follows from it: a push never goes to  *)
(* the token of another device, /device/remove does not answer before all  *)
(* its devices are gone, and /leavers fails only on a device without time. *)
(***************************************************************************)
EXTENDS DeviceRegistry, TLAPS

\* The locals of all threads but t stay as they are.
Alone(t) ==
    \A u \in Threads \ {t} :
        /\ pc'[u] = pc[u]
        /\ dev'[u] = dev[u]
        /\ tok'[u] = tok[u]
        /\ todo'[u] = todo[u]
        /\ asked'[u] = asked[u]

\* The steps of a thread, one by one.
Step(t) ==
    \/ \E x \in Tokens : Register(t, x)
    \/ \E x \in Tokens : Report(t, x)
    \/ \E S \in SUBSET Known : StartRemove(t, S)
    \/ \E d \in Known : StartSend(t, d)
    \/ StartLeavers(t)
    \/ StartRedelivery(t)
    \/ RegisterMapping(t)
    \/ DropReadToken(t)
    \/ DropMapping(t)
    \/ DropDevice(t)
    \/ FindDevice(t)
    \/ MarkDead(t)
    \/ MarkDeathTime(t)
    \/ ReadLeaver(t)
    \/ SendType(t)
    \/ SendToken(t)
    \/ SendPost(t)
    \/ Fails(t)
    \/ Restart(t)

LEMMA StepCases ==
    ASSUME Next
    PROVE  \E t \in Threads : Step(t)
BY DEF Next, ThreadStep, Step

-----------------------------------------------------------------------------
(* Types *)

LEMMA TypeInit == Init => TypeOK
BY RegistryAssumption DEF Init, TypeOK, Uuids, Threads, Pcs

\* Where a thread goes keeps the types of its locals.
LEMMA GotoTypes ==
    ASSUME TypeOK, NEW t \in Threads, NEW l \in Pcs, NEW d \in Uuids, NEW x \in Tokens \cup {NoText},
           Goto(t, l, d, x), l \in {"map", "find"} => x \in Tokens
    PROVE  /\ pc' \in [Threads -> Pcs]
           /\ dev' \in [Threads -> Uuids]
           /\ tok' \in [Threads -> Tokens \cup {NoText}]
           /\ \A u \in Threads : pc'[u] \in {"map", "find"} => tok'[u] \in Tokens
BY DEF TypeOK, Goto

LEMMA LeaveTypes ==
    ASSUME TypeOK, NEW t \in Threads, NEW l \in {"idle", "dead"}, Leave(t, l)
    PROVE  /\ pc' \in [Threads -> Pcs]
           /\ dev' \in [Threads -> Uuids]
           /\ tok' \in [Threads -> Tokens \cup {NoText}]
           /\ todo' \in [Threads -> SUBSET Uuids]
           /\ asked' \in [Threads -> SUBSET Uuids]
           /\ \A u \in Threads : pc'[u] \in {"map", "find"} => tok'[u] \in Tokens
<1>1. l \in Pcs /\ Stranger \in Uuids /\ l \notin {"map", "find"}
  BY DEF Pcs, Uuids
<1>2. Goto(t, l, Stranger, NoText)
  BY DEF Leave
<1> QED BY <1>1, <1>2, GotoTypes DEF TypeOK, Leave

\* Both ways to end a handler are a Leave.
LEMMA Endings ==
    ASSUME NEW t \in Threads, Finish(t) \/ Throw(t)
    PROVE  \E l \in {"idle", "dead"} : Leave(t, l)
BY DEF Finish, Throw

LEMMA TypeNext == TypeOK /\ SendsToRegistered /\ [Next]_vars => TypeOK'
<1> SUFFICES ASSUME TypeOK, SendsToRegistered, [Next]_vars PROVE TypeOK'
  OBVIOUS
<1>0. CASE UNCHANGED vars
  BY <1>0 DEF TypeOK, vars, redisVars, registryVars, locals, history
<1> SUFFICES ASSUME NEW t \in Threads, Step(t) PROVE TypeOK'
  BY <1>0, StepCases
<1> USE RegistryAssumption DEF redisVars, registryVars, history
<1>a. Devices \subseteq Uuids /\ Stranger \in Uuids /\ Known \subseteq Uuids
  BY DEF TypeOK, Uuids, Known
<1>b. \A l \in {"idle", "dead", "map", "droptoken", "dropmap", "dropdev", "find", "sadd", "hset",
        "leavers", "type", "token", "post"} : l \in Pcs
  BY DEF Pcs
<1>1. ASSUME NEW x \in Tokens, Register(t, x) PROVE TypeOK'
  <2>1. PICK d \in Devices : /\ registered' = [registered EXCEPT ![d] = x]
                             /\ token' = [token EXCEPT ![d] = x]
                             /\ Goto(t, "map", d, x)
    BY <1>1 DEF Register
  <2>2. registered' \in [Devices -> Tokens \cup {NoText}] /\ token' \in [Uuids -> Tokens \cup {NoText}]
    BY <2>1, <1>a DEF TypeOK
  <2> QED BY <1>1, <2>1, <2>2, <1>a, <1>b, GotoTypes DEF Register, TypeOK
<1>2. ASSUME NEW x \in Tokens, Report(t, x) PROVE TypeOK'
  BY <1>2, <1>a, <1>b, GotoTypes DEF Report, TypeOK
<1>3. ASSUME NEW S \in SUBSET Known, StartRemove(t, S) PROVE TypeOK'
  <2>1. PICK d \in S : Goto(t, "droptoken", d, NoText) /\ todo' = [todo EXCEPT ![t] = S \ {d}]
    BY <1>3 DEF StartRemove
  <2>2. S \subseteq Uuids /\ d \in Uuids
    BY <1>a
  <2>3. todo' \in [Threads -> SUBSET Uuids] /\ asked' \in [Threads -> SUBSET Uuids]
    BY <1>3, <2>1, <2>2 DEF StartRemove, TypeOK
  <2> QED BY <1>3, <2>1, <2>2, <2>3, <1>b, GotoTypes DEF StartRemove, TypeOK
<1>4. ASSUME NEW d \in Known, StartSend(t, d) PROVE TypeOK'
  BY <1>4, <1>a, <1>b, GotoTypes DEF StartSend, TypeOK
<1>5. CASE StartLeavers(t)
  <2>1. pc' = [pc EXCEPT ![t] = "leavers"] /\ todo' = [todo EXCEPT ![t] = dead]
    BY <1>5 DEF StartLeavers
  <2> QED BY <1>5, <2>1, <1>b DEF StartLeavers, TypeOK
<1>6. CASE StartRedelivery(t)
  BY <1>6, <1>a, <1>b, GotoTypes DEF StartRedelivery, TypeOK
<1>7. CASE RegisterMapping(t)
  <2>1. tok[t] \in Tokens
    BY <1>7 DEF RegisterMapping, TypeOK
  <2>2. mapping' \in [Tokens -> Texts \cup {NoText}]
    BY <1>7, <2>1 DEF RegisterMapping, TypeOK
  <2> QED BY <1>7, <2>2, LeaveTypes, Endings DEF RegisterMapping, TypeOK
<1>8. CASE DropReadToken(t)
  BY <1>8, <1>a, <1>b, GotoTypes DEF DropReadToken, TypeOK
<1>9. CASE DropMapping(t)
  <2>1. mapping' \in [Tokens -> Texts \cup {NoText}]
    BY <1>9 DEF DropMapping, TypeOK
  <2> QED BY <1>9, <2>1, <1>a, <1>b, GotoTypes DEF DropMapping, TypeOK
<1>10. CASE DropDevice(t)
  <2>1. /\ token' \in [Uuids -> Tokens \cup {NoText}] /\ death' \subseteq Uuids
        /\ undated' \subseteq Uuids
    BY <1>10 DEF DropDevice, TypeOK
  <2>2. CASE Finish(t) \/ Throw(t)
    BY <1>10, <2>1, <2>2, LeaveTypes, Endings DEF DropDevice, TypeOK
  <2>3. ASSUME NEW d \in todo[t], Goto(t, "droptoken", d, NoText),
               todo' = [todo EXCEPT ![t] = @ \ {d}], UNCHANGED asked
        PROVE  TypeOK'
    <3>1. d \in Uuids /\ todo' \in [Threads -> SUBSET Uuids]
      BY <2>3 DEF TypeOK
    <3> QED BY <1>10, <2>1, <2>3, <3>1, <1>b, GotoTypes DEF DropDevice, TypeOK
  <2> QED BY <1>10, <2>2, <2>3 DEF DropDevice
<1>11. CASE FindDevice(t)
  <2>1. CASE Throw(t)
    BY <1>11, <2>1, LeaveTypes, Endings DEF FindDevice, TypeOK
  <2>2. CASE Goto(t, IF t \in Deregister THEN "droptoken" ELSE "sadd", Stranger, NoText) /\ UNCHANGED <<todo, asked>>
    BY <1>11, <2>2, <1>a, <1>b, GotoTypes DEF FindDevice, TypeOK
  <2> QED BY <1>11, <2>1, <2>2 DEF FindDevice
<1>12. CASE MarkDead(t)
  <2>1. dead' \subseteq Uuids /\ undated' \subseteq Uuids
    BY <1>12 DEF MarkDead, TypeOK
  <2> QED BY <1>12, <2>1, <1>a, <1>b, GotoTypes DEF MarkDead, TypeOK
<1>13. CASE MarkDeathTime(t)
  <2>1. death' \subseteq Uuids
    BY <1>13 DEF MarkDeathTime, TypeOK
  <2> QED BY <1>13, <2>1, LeaveTypes, Endings DEF MarkDeathTime, TypeOK
<1>14. CASE ReadLeaver(t)
  <2>1. CASE Finish(t) \/ Throw(t)
    BY <1>14, <2>1, LeaveTypes, Endings DEF ReadLeaver, TypeOK
  <2>2. ASSUME NEW d \in todo[t], todo' = [todo EXCEPT ![t] = @ \ {d}], UNCHANGED <<pc, dev, tok, asked>>
        PROVE  TypeOK'
    BY <1>14, <2>2 DEF ReadLeaver, TypeOK
  <2> QED BY <1>14, <2>1, <2>2 DEF ReadLeaver
<1>15. CASE SendType(t)
  <2>1. CASE Throw(t)
    BY <1>15, <2>1, LeaveTypes, Endings DEF SendType, TypeOK
  <2>2. CASE Goto(t, "token", dev[t], NoText) /\ UNCHANGED <<todo, asked>>
    BY <1>15, <2>2, <1>a, <1>b, GotoTypes DEF SendType, TypeOK
  <2> QED BY <1>15, <2>1, <2>2 DEF SendType
<1>16. CASE SendToken(t)
  <2>1. messaged' \subseteq Devices /\ token[dev[t]] \in Tokens \cup {NoText}
    BY <1>16 DEF SendToken, SendsToRegistered, TypeOK
  <2> QED BY <1>16, <2>1, <1>a, <1>b, GotoTypes DEF SendToken, TypeOK
<1>17. CASE SendPost(t)
  BY <1>17, LeaveTypes, Endings DEF SendPost, TypeOK
<1>18. CASE Fails(t)
  <2>1. faults' \in 0 .. MaxFaults /\ undated' \subseteq Uuids
    BY <1>18 DEF Fails, TypeOK
  <2> QED BY <1>18, <2>1, LeaveTypes, Endings DEF Fails, TypeOK
<1>19. CASE Restart(t)
  BY <1>19, LeaveTypes, Endings DEF Restart, TypeOK
<1> QED BY <1>1, <1>2, <1>3, <1>4, <1>5, <1>6, <1>7, <1>8, <1>9, <1>10, <1>11, <1>12, <1>13, <1>14,
           <1>15, <1>16, <1>17, <1>18, <1>19 DEF Step

-----------------------------------------------------------------------------
(* What a step does to the devices *)

\* A step leaves the devices alone, registers a new one or removes one.
Effect(t) ==
    \/ UNCHANGED <<registered, token>>
    \/ \E d \in Devices, x \in Tokens :
        /\ registered[d] = NoText
        /\ registered' = [registered EXCEPT ![d] = x]
        /\ token' = [token EXCEPT ![d] = x]
    \/ /\ UNCHANGED registered
       /\ token' = [token EXCEPT ![dev[t]] = NoText]

LEMMA Effects ==
    ASSUME TypeOK, NEW t \in Threads, Step(t)
    PROVE  Alone(t) /\ Effect(t)
<1> USE DEF redisVars, registryVars, history, Goto, Leave, Finish, Throw, Alone, Effect, TypeOK
<1>1. CASE \E x \in Tokens : Register(t, x)
  BY <1>1 DEF Register
<1>2. CASE \E x \in Tokens : Report(t, x)
  BY <1>2 DEF Report
<1>3. CASE \E S \in SUBSET Known : StartRemove(t, S)
  BY <1>3 DEF StartRemove
<1>4. CASE \E d \in Known : StartSend(t, d)
  BY <1>4 DEF StartSend
<1>5. CASE StartLeavers(t)
  BY <1>5 DEF StartLeavers
<1>6. CASE StartRedelivery(t)
  BY <1>6 DEF StartRedelivery
<1>7. CASE RegisterMapping(t)
  BY <1>7 DEF RegisterMapping
<1>8. CASE DropReadToken(t) \/ DropMapping(t)
  BY <1>8 DEF DropReadToken, DropMapping
<1>9. CASE DropDevice(t)
  BY <1>9 DEF DropDevice
<1>10. CASE FindDevice(t)
  BY <1>10 DEF FindDevice
<1>11. CASE MarkDead(t) \/ MarkDeathTime(t)
  BY <1>11 DEF MarkDead, MarkDeathTime
<1>12. CASE ReadLeaver(t)
  BY <1>12 DEF ReadLeaver
<1>13. CASE SendType(t)
  BY <1>13 DEF SendType
<1>14. CASE SendToken(t) \/ SendPost(t)
  BY <1>14 DEF SendToken, SendPost
<1>15. CASE Fails(t) \/ Restart(t)
  BY <1>15 DEF Fails, Restart
<1> QED BY <1>1, <1>2, <1>3, <1>4, <1>5, <1>6, <1>7, <1>8, <1>9, <1>10, <1>11, <1>12, <1>13, <1>14,
           <1>15 DEF Step

\* No step takes a registration back or brings a removed device back.
LEMMA DevicesKept ==
    ASSUME TypeOK, TokenKept, NEW t \in Threads, Effect(t)
    PROVE  /\ TokenKept'
           /\ \A d \in Devices : registered[d] # NoText => registered'[d] = registered[d]
           /\ \A d \in Devices : Removed(d) => Removed(d)'
<1> USE RegistryAssumption DEF TypeOK, TokenKept, Removed, Uuids
<1>1. CASE UNCHANGED <<registered, token>>
  BY <1>1
<1>2. ASSUME NEW d \in Devices, NEW x \in Tokens, registered[d] = NoText,
             registered' = [registered EXCEPT ![d] = x], token' = [token EXCEPT ![d] = x]
      PROVE  /\ TokenKept'
             /\ \A e \in Devices : registered[e] # NoText => registered'[e] = registered[e]
             /\ \A e \in Devices : Removed(e) => Removed(e)'
  BY <1>2
<1>3. CASE UNCHANGED registered /\ token' = [token EXCEPT ![dev[t]] = NoText]
  BY <1>3
<1> QED BY <1>1, <1>2, <1>3 DEF Effect

-----------------------------------------------------------------------------
(* Pushes *)

LEMMA SendsNext ==
    ASSUME TypeOK, TokenKept, SendsToRegistered, OwnTokenOnly, NEW t \in Threads, Step(t)
    PROVE  SendsToRegistered' /\ OwnTokenOnly'
<1>1. Alone(t)
  BY Effects
<1>r. \A d \in Devices : registered[d] # NoText => registered'[d] = registered[d]
  BY Effects, DevicesKept
<1>2. \A d \in Devices : Removed(d) => token'[d] = NoText
  BY Effects, DevicesKept DEF Removed
<1>3. \A u \in Threads \ {t} : pc'[u] = pc[u] /\ dev'[u] = dev[u] /\ tok'[u] = tok[u]
  BY <1>1 DEF Alone
<1>4. messaged \subseteq Devices
  BY DEF TypeOK
\* What t has to show of itself and of the messages.
<1>5. SUFFICES /\ pc'[t] \in {"token", "post"} => dev'[t] \in Devices /\ registered[dev'[t]] # NoText
               /\ pc'[t] = "post" =>
                    tok'[t] = registered[dev'[t]] \/ (tok'[t] = NoText /\ Removed(dev'[t]))
               /\ \A d \in messaged' : d \in Devices /\ registered[d] # NoText
  <2>1. \A d \in messaged' : registered'[d] # NoText
    BY <1>r, <1>5
  <2>2. \A u \in Threads : pc'[u] \in {"token", "post"} =>
            dev'[u] \in Devices /\ registered[dev'[u]] # NoText
    BY <1>3, <1>5 DEF SendsToRegistered
  <2>3. \A u \in Threads : pc'[u] = "post" =>
            tok'[u] = registered[dev'[u]] \/ (tok'[u] = NoText /\ Removed(dev'[u]))
    BY <1>3, <1>5 DEF OwnTokenOnly
  <2>4. SendsToRegistered'
    BY <1>r, <2>1, <2>2 DEF SendsToRegistered
  <2>5. OwnTokenOnly'
    <3> SUFFICES ASSUME NEW u \in Threads, pc'[u] = "post"
                 PROVE  /\ dev'[u] \in Devices
                        /\ registered'[dev'[u]] # NoText
                        /\ tok'[u] = registered'[dev'[u]] \/ (tok'[u] = NoText /\ Removed(dev[u])')
      BY DEF OwnTokenOnly
    <3>1. dev'[u] \in Devices /\ registered'[dev'[u]] = registered[dev'[u]]
          /\ registered[dev'[u]] # NoText
      BY <1>r, <2>2
    <3>2. Removed(dev'[u]) => registered'[dev'[u]] # NoText /\ token'[dev'[u]] = NoText
      BY <1>2, <3>1 DEF Removed
    <3> QED BY <2>3, <3>1, <3>2 DEF Removed
  <2> QED BY <2>4, <2>5
<1> USE DEF redisVars, registryVars, history, Goto, Leave, Finish, Throw, TypeOK
<1>6. CASE /\ messaged' = messaged
           /\ pc'[t] \notin {"token", "post"}
  BY <1>4, <1>6 DEF SendsToRegistered
<1>7. CASE StartRedelivery(t)
  BY <1>4, <1>7 DEF StartRedelivery, SendsToRegistered
<1>8. CASE SendType(t)
  <2>1. CASE Throw(t)
    BY <1>4, <1>8, <2>1 DEF SendType, SendsToRegistered
  <2>2. CASE token[dev[t]] # NoText /\ Goto(t, "token", dev[t], NoText)
    <3>1. dev[t] \in Devices /\ registered[dev[t]] # NoText
      BY <2>2 DEF TokenKept, Uuids
    <3> QED BY <1>4, <1>8, <2>2, <3>1 DEF SendType, SendsToRegistered
  <2> QED BY <1>8, <2>1, <2>2 DEF SendType
<1>9. CASE SendToken(t)
  <2>1. dev[t] \in Devices /\ registered[dev[t]] # NoText
    BY <1>9 DEF SendToken, SendsToRegistered
  <2>2. token[dev[t]] = registered[dev[t]] \/ (token[dev[t]] = NoText /\ Removed(dev[t]))
    BY <2>1 DEF TokenKept, Removed
  <2> QED BY <1>4, <1>9, <2>1, <2>2 DEF SendToken, SendsToRegistered
<1>10. CASE ReadLeaver(t) /\ UNCHANGED <<pc, dev, tok, asked>>
  BY <1>6, <1>10 DEF ReadLeaver
<1>11. CASE ReadLeaver(t) /\ (Finish(t) \/ Throw(t))
  BY <1>6, <1>11 DEF ReadLeaver
<1>12. CASE ReadLeaver(t)
  BY <1>10, <1>11, <1>12 DEF ReadLeaver
<1>13. CASE DropDevice(t)
  BY <1>6, <1>13 DEF DropDevice
<1>14. CASE FindDevice(t)
  BY <1>6, <1>14 DEF FindDevice
<1>15. CASE \/ \E x \in Tokens : Register(t, x) \/ Report(t, x)
            \/ \E S \in SUBSET Known : StartRemove(t, S)
            \/ \E d \in Known : StartSend(t, d)
            \/ StartLeavers(t)
  BY <1>6, <1>15 DEF Register, Report, StartRemove, StartSend, StartLeavers
<1>16. CASE RegisterMapping(t) \/ DropReadToken(t) \/ DropMapping(t)
  BY <1>6, <1>16 DEF RegisterMapping, DropReadToken, DropMapping
<1>17. CASE MarkDead(t) \/ MarkDeathTime(t) \/ SendPost(t) \/ Fails(t) \/ Restart(t)
  BY <1>6, <1>17 DEF MarkDead, MarkDeathTime, SendPost, Fails, Restart
<1> QED BY <1>7, <1>8, <1>9, <1>12, <1>13, <1>14, <1>15, <1>16, <1>17 DEF Step

-----------------------------------------------------------------------------
(* Feedback *)

LEMMA DeadNext ==
    ASSUME TypeOK, DeadAreStrangers, NEW t \in Threads, Step(t)
    PROVE  DeadAreStrangers'
<1>1. Alone(t)
  BY Effects
<1>2. \A u \in Threads \ {t} : pc'[u] = pc[u] /\ dev'[u] = dev[u]
  BY <1>1 DEF Alone
<1>3. SUFFICES /\ dead' \subseteq {Stranger}
               /\ pc'[t] \in {"sadd", "hset"} => dev'[t] = Stranger
  BY <1>2 DEF DeadAreStrangers
<1> USE DEF redisVars, registryVars, history, Goto, Leave, Finish, Throw, TypeOK, DeadAreStrangers
<1>4. CASE dead' = dead /\ (pc'[t] \in {"sadd", "hset"} => dev'[t] = Stranger)
  BY <1>4
<1>5. CASE MarkDead(t)
  BY <1>5 DEF MarkDead
<1>6. CASE FindDevice(t)
  BY <1>4, <1>6 DEF FindDevice
<1>7. CASE ReadLeaver(t)
  BY <1>4, <1>7 DEF ReadLeaver
<1>8. CASE DropDevice(t)
  BY <1>4, <1>8 DEF DropDevice
<1>9. CASE SendType(t)
  BY <1>4, <1>9 DEF SendType
<1>10. CASE \/ \E x \in Tokens : Register(t, x) \/ Report(t, x)
            \/ \E S \in SUBSET Known : StartRemove(t, S)
            \/ \E d \in Known : StartSend(t, d)
            \/ StartLeavers(t) \/ StartRedelivery(t)
  BY <1>4, <1>10 DEF Register, Report, StartRemove, StartSend, StartLeavers, StartRedelivery
<1>11. CASE RegisterMapping(t) \/ DropReadToken(t) \/ DropMapping(t)
  BY <1>4, <1>11 DEF RegisterMapping, DropReadToken, DropMapping
<1>12. CASE MarkDeathTime(t) \/ SendToken(t) \/ SendPost(t) \/ Fails(t) \/ Restart(t)
  BY <1>4, <1>12 DEF MarkDeathTime, SendToken, SendPost, Fails, Restart
<1> QED BY <1>5, <1>6, <1>7, <1>8, <1>9, <1>10, <1>11, <1>12 DEF Step

-----------------------------------------------------------------------------
(* /leavers *)

\* A step that takes no time away, adds nobody to dead_devices and does not go on from
\* between SADD and HSET keeps a device dated.
LEMMA DatedKept ==
    ASSUME TypeOK, LeaversDated, NEW t \in Threads, Alone(t), pc[t] # "hset",
           dead' = dead, death \subseteq death', undated \subseteq undated'
    PROVE  \A d \in dead' \ death' : d \in undated' \/ BeingMarked(d)'
<1> SUFFICES ASSUME NEW d \in dead \ death PROVE d \in undated \/ BeingMarked(d)'
  OBVIOUS
<1>1. ASSUME NEW u \in Threads, pc[u] = "hset", dev[u] = d
      PROVE  pc'[u] = "hset" /\ dev'[u] = d
  BY <1>1 DEF Alone
<1> QED BY <1>1 DEF LeaversDated, BeingMarked

LEMMA LeaversNext ==
    ASSUME TypeOK, LeaversDated, NEW t \in Threads, Step(t)
    PROVE  LeaversDated'
<1>1. Alone(t)
  BY Effects
<1>2. dead \subseteq dead'
  BY DEF Step, Register, Report, StartRemove, StartSend, StartLeavers, StartRedelivery, RegisterMapping,
     DropReadToken, DropMapping, DropDevice, FindDevice, MarkDead, MarkDeathTime, ReadLeaver, SendType,
     SendToken, SendPost, Fails, Restart, redisVars, registryVars, history
<1>3. \A u \in Threads \ {t} : pc'[u] = "leavers" => todo'[u] \subseteq dead'
  BY <1>1, <1>2 DEF Alone, LeaversDated
\* What t has to show of its list, and the step of the dated devices.
<1>4. SUFFICES /\ pc'[t] = "leavers" => todo'[t] \subseteq dead
               /\ \A d \in dead' \ death' : d \in undated' \/ BeingMarked(d)'
  BY <1>2, <1>3 DEF LeaversDated
<1> USE DEF redisVars, registryVars, history, Goto, Leave, Finish, Throw, TypeOK
<1>5. CASE /\ dead' = dead /\ death \subseteq death' /\ undated' = undated
           /\ pc[t] # "hset" /\ pc'[t] # "leavers"
  BY <1>1, <1>5, DatedKept
<1>6. CASE StartLeavers(t)
  <2>1. pc'[t] = "leavers" /\ todo'[t] = dead
    BY <1>6 DEF StartLeavers
  <2>2. dead' = dead /\ death' = death /\ undated' = undated /\ pc[t] # "hset"
    BY <1>6 DEF StartLeavers
  <2> QED BY <1>1, <2>1, <2>2, DatedKept
<1>7. CASE ReadLeaver(t)
  <2>1. /\ dead' = dead /\ death' = death /\ undated' = undated /\ pc[t] = "leavers"
        /\ pc'[t] = "leavers" => todo'[t] \subseteq todo[t]
    BY <1>7 DEF ReadLeaver
  <2> QED BY <1>1, <2>1, DatedKept DEF LeaversDated
<1>8. CASE DropDevice(t)
  <2>1. pc[t] = "dropdev" /\ pc'[t] # "leavers" /\ dead' = dead /\ dev[t] \in Uuids
        /\ death' = death \ {dev[t]} /\ undated' = undated \cup {dev[t]}
    BY <1>8 DEF DropDevice
  <2> SUFFICES ASSUME NEW d \in dead \ death', d # dev[t] PROVE d \in undated \/ BeingMarked(d)'
    BY <2>1
  <2>2. d \in dead \ death
    BY <2>1
  <2>3. ASSUME NEW u \in Threads, pc[u] = "hset", dev[u] = d
        PROVE  pc'[u] = "hset" /\ dev'[u] = d
    BY <1>1, <2>1, <2>3 DEF Alone
  <2> QED BY <2>2, <2>3 DEF LeaversDated, BeingMarked
<1>9. CASE MarkDead(t)
  <2>1. /\ pc[t] = "sadd" /\ pc'[t] = "hset" /\ dev'[t] = dev[t] /\ death' = death
        /\ dead' = dead \cup {dev[t]} /\ undated' = undated \ {dev[t]}
    BY <1>9 DEF MarkDead
  <2> SUFFICES ASSUME NEW d \in dead \ death, d # dev[t] PROVE d \in undated \/ BeingMarked(d)'
    BY <2>1 DEF BeingMarked
  <2>2. ASSUME NEW u \in Threads, pc[u] = "hset", dev[u] = d
        PROVE  pc'[u] = "hset" /\ dev'[u] = d
    BY <1>1, <2>1, <2>2 DEF Alone
  <2> QED BY <2>2 DEF LeaversDated, BeingMarked
\* Who leaves the place between SADD and HSET has dated its device or failed on it.
<1>10. ASSUME dead' = dead, death \subseteq death', undated \subseteq undated',
              pc[t] = "hset" => dev[t] \in death' \cup undated'
       PROVE  \A d \in dead' \ death' : d \in undated' \/ BeingMarked(d)'
  <2> SUFFICES ASSUME NEW d \in dead \ death', d \notin undated' PROVE BeingMarked(d)'
    BY <1>10
  <2>1. PICK u \in Threads : pc[u] = "hset" /\ dev[u] = d
    BY <1>10 DEF LeaversDated, BeingMarked
  <2>2. u # t
    BY <1>10, <2>1
  <2> QED BY <1>1, <2>1, <2>2 DEF Alone, BeingMarked
<1>11. CASE MarkDeathTime(t)
  <2>1. /\ pc'[t] # "leavers" /\ dead' = dead /\ undated' = undated /\ death' = death \cup {dev[t]}
    BY <1>11 DEF MarkDeathTime
  <2> QED BY <1>10, <2>1
<1>12. CASE Fails(t)
  <2>1. /\ pc'[t] # "leavers" /\ dead' = dead /\ death' = death
        /\ undated' = IF pc[t] = "hset" THEN undated \cup {dev[t]} ELSE undated
    BY <1>12 DEF Fails
  <2> QED BY <1>10, <2>1
<1>13. CASE FindDevice(t)
  BY <1>5, <1>13 DEF FindDevice
<1>14. CASE SendType(t)
  BY <1>5, <1>14 DEF SendType
<1>15. CASE \/ \E x \in Tokens : Register(t, x) \/ Report(t, x)
            \/ \E S \in SUBSET Known : StartRemove(t, S)
            \/ \E d \in Known : StartSend(t, d)
            \/ StartRedelivery(t)
  BY <1>5, <1>15 DEF Register, Report, StartRemove, StartSend, StartRedelivery
<1>16. CASE RegisterMapping(t) \/ DropReadToken(t) \/ DropMapping(t)
  BY <1>5, <1>16 DEF RegisterMapping, DropReadToken, DropMapping
<1>17. CASE SendToken(t) \/ SendPost(t) \/ Restart(t)
  BY <1>5, <1>17 DEF SendToken, SendPost, Restart
<1> QED BY <1>6, <1>7, <1>8, <1>9, <1>11, <1>12, <1>13, <1>14, <1>15, <1>16, <1>17 DEF Step

-----------------------------------------------------------------------------
(* /device/remove *)

DropPcs == {"droptoken", "dropmap", "dropdev"}

\* What RemovalProgress says of one thread.
Progress(t) ==
    /\ asked[t] # {} => pc[t] \in DropPcs
    /\ \A d \in asked[t] \cap Devices :
        /\ registered[d] # NoText
        /\ Removed(d) \/ d = dev[t] \/ d \in todo[t]

\* A thread that asks for nothing has nothing to show, and one that goes on with its
\* device and its list has lost nothing.
LEMMA ProgressKept ==
    ASSUME TypeOK, TokenKept, NEW t \in Threads, Effect(t), NEW u \in Threads, Progress(u),
           \/ asked'[u] = {}
           \/ /\ asked'[u] = asked[u]
              /\ pc'[u] = pc[u] \/ pc'[u] \in DropPcs
              /\ dev'[u] = dev[u] \/ asked[u] = {}
              /\ todo'[u] = todo[u] \/ asked[u] = {}
    PROVE  Progress(u)'
<1>1. \A d \in Devices : registered[d] # NoText => registered'[d] = registered[d]
  BY DevicesKept
<1>r. \A d \in Devices : Removed(d) => registered'[d] # NoText /\ token'[d] = NoText
  BY DevicesKept DEF Removed
<1>2. CASE asked'[u] = {}
  BY <1>2 DEF Progress
<1>3. CASE asked'[u] # {}
  BY <1>1, <1>r, <1>3 DEF Progress, Removed
<1> QED BY <1>2, <1>3

LEMMA RemovalNext ==
    ASSUME TypeOK, TokenKept, DeadAreStrangers, RemovalProgress, NEW t \in Threads, Step(t)
    PROVE  RemovalProgress'
<1>1. Alone(t) /\ Effect(t)
  BY Effects
<1>2. \A u \in Threads : Progress(u)
  BY DEF RemovalProgress, Progress, DropPcs
<1>3. \A u \in Threads \ {t} : Progress(u)'
  BY <1>1, <1>2, ProgressKept DEF Alone
<1>4. SUFFICES Progress(t)'
  BY <1>3 DEF RemovalProgress, Progress, DropPcs
<1>5. \A d \in Devices : registered[d] # NoText => registered'[d] = registered[d]
  BY <1>1, DevicesKept
<1>r. \A d \in Devices : Removed(d) => token'[d] = NoText
  BY <1>1, DevicesKept DEF Removed
<1>6. Progress(t) /\ (pc[t] \notin DropPcs => asked[t] = {})
  BY <1>2 DEF Progress
<1> USE DEF redisVars, registryVars, history, Goto, Leave, Finish, Throw, TypeOK
<1>7. CASE asked'[t] = {}
  BY <1>7 DEF Progress
<1>8. CASE pc[t] \notin DropPcs /\ asked'[t] = asked[t]
  BY <1>6, <1>7, <1>8
<1>9. ASSUME NEW S \in SUBSET Known, StartRemove(t, S) PROVE Progress(t)'
  <2>1. PICK d \in S : Goto(t, "droptoken", d, NoText) /\ todo' = [todo EXCEPT ![t] = S \ {d}]
    BY <1>9 DEF StartRemove
  <2>2. asked'[t] = S /\ dev'[t] = d /\ todo'[t] = S \ {d} /\ pc'[t] = "droptoken"
        /\ registered' = registered
    BY <1>9, <2>1 DEF StartRemove
  <2>3. \A e \in S \cap Devices : registered[e] # NoText
    BY RegistryAssumption DEF Known, DeadAreStrangers
  <2> QED BY <2>2, <2>3 DEF Progress, DropPcs
<1>10. CASE DropReadToken(t) \/ DropMapping(t)
  <2>1. /\ asked'[t] = asked[t]
        /\ pc'[t] \in DropPcs
        /\ dev'[t] = dev[t]
        /\ todo'[t] = todo[t]
    BY <1>10 DEF DropReadToken, DropMapping, DropPcs
  <2> QED BY <1>1, <1>6, <2>1, ProgressKept
<1>11. CASE DropDevice(t)
  <2>1. CASE Finish(t) \/ Throw(t)
    BY <1>7, <2>1
  <2>2. ASSUME NEW d \in todo[t], Goto(t, "droptoken", d, NoText),
               todo' = [todo EXCEPT ![t] = @ \ {d}], UNCHANGED asked
        PROVE  Progress(t)'
    <3>1. /\ asked'[t] = asked[t] /\ pc'[t] = "droptoken" /\ dev'[t] = d
          /\ todo'[t] = todo[t] \ {d}
      BY <2>2
    <3>2. \A e \in asked[t] \cap Devices : registered'[e] # NoText
      BY <1>5, <1>6 DEF Progress
    <3>3. \A e \in asked[t] \cap Devices : e = dev[t] => token'[e] = NoText
      BY <1>11 DEF DropDevice, Uuids
    <3>4. \A e \in asked[t] \cap Devices : Removed(e)' \/ e \in todo[t]
      BY <1>r, <1>6, <3>2, <3>3 DEF Progress, Removed
    <3> QED BY <3>1, <3>2, <3>4 DEF Progress, DropPcs
  <2> QED BY <1>11, <2>1, <2>2 DEF DropDevice
<1>12. CASE \/ \E x \in Tokens : Register(t, x) \/ Report(t, x)
            \/ \E d \in Known : StartSend(t, d)
            \/ StartLeavers(t) \/ StartRedelivery(t)
  BY <1>8, <1>12 DEF Register, Report, StartSend, StartLeavers, StartRedelivery, DropPcs
<1>13. CASE FindDevice(t)
  <2>1. pc[t] \notin DropPcs /\ (asked'[t] = {} \/ asked'[t] = asked[t])
    BY <1>13 DEF FindDevice, DropPcs
  <2> QED BY <1>7, <1>8, <2>1
<1>14. CASE ReadLeaver(t) \/ SendType(t)
  <2>1. pc[t] \notin DropPcs /\ (asked'[t] = {} \/ asked'[t] = asked[t])
    BY <1>14 DEF ReadLeaver, SendType, DropPcs
  <2> QED BY <1>7, <1>8, <2>1
<1>15. CASE MarkDead(t) \/ SendToken(t)
  BY <1>8, <1>15 DEF MarkDead, SendToken, DropPcs
<1>16. CASE RegisterMapping(t) \/ MarkDeathTime(t) \/ SendPost(t) \/ Fails(t) \/ Restart(t)
  BY <1>7, <1>16 DEF RegisterMapping, MarkDeathTime, SendPost, Fails, Restart
<1> QED BY <1>9, <1>10, <1>11, <1>12, <1>13, <1>14, <1>15, <1>16 DEF Step

-----------------------------------------------------------------------------
(* The theorems *)

LEMMA RegistryInit == Init => RegistryInv
<1> SUFFICES ASSUME Init PROVE RegistryInv
  OBVIOUS
<1>1. TypeOK
  BY TypeInit
<1>2. TokenKept /\ SendsToRegistered /\ OwnTokenOnly /\ DeadAreStrangers /\ LeaversDated
      /\ RemovalProgress
  BY DEF Init, TokenKept, SendsToRegistered, OwnTokenOnly, DeadAreStrangers, LeaversDated,
     RemovalProgress, Uuids
<1> QED BY <1>1, <1>2 DEF RegistryInv

LEMMA RegistryNext == RegistryInv /\ [Next]_vars => RegistryInv'
<1> SUFFICES ASSUME RegistryInv, [Next]_vars PROVE RegistryInv'
  OBVIOUS
<1>1. TypeOK'
  BY TypeNext DEF RegistryInv
<1>2. CASE UNCHANGED vars
  BY <1>1, <1>2 DEF vars, redisVars, registryVars, locals, history, RegistryInv, TokenKept,
     SendsToRegistered, OwnTokenOnly, DeadAreStrangers, LeaversDated, BeingMarked, RemovalProgress, Removed
<1>3. ASSUME NEW t \in Threads, Step(t) PROVE RegistryInv'
  <2>1. TokenKept'
    BY <1>3, Effects, DevicesKept DEF RegistryInv
  <2> QED BY <1>1, <1>3, <2>1, SendsNext, DeadNext, LeaversNext, RemovalNext DEF RegistryInv
<1> QED BY <1>2, <1>3, StepCases

\* The inductive invariant of the registry holds in every behaviour.
THEOREM RegistryInvariant == Spec => []RegistryInv
BY RegistryInit, RegistryNext, PTL DEF Spec

\* Every variable of the registry keeps its type.
THEOREM RegistryTypes == Spec => []TypeOK
<1>1. RegistryInv => TypeOK
  BY DEF RegistryInv
<1> QED BY <1>1, RegistryInvariant, PTL

\* A push goes to the token of its own device, or to none once the device was removed.
THEOREM OwnTokenHolds == Spec => []OwnTokenOnly
<1>1. RegistryInv => OwnTokenOnly
  BY DEF RegistryInv
<1> QED BY <1>1, RegistryInvariant, PTL

\* /device/remove answers with success only when all its devices are removed.
THEOREM RemoveIsComplete == Spec => RemovedWhenAnswered
<1> DEFINE Complete == \A t \in Workers : pc[t] = "dropdev" /\ pc'[t] = "idle" /\ faults' = faults =>
                            \A d \in asked[t] \cap Devices : Removed(d)'
<1>1. RegistryInv /\ [Next]_vars => [Complete]_vars
  <2> SUFFICES ASSUME RegistryInv, Next, NEW u \in Workers, pc[u] = "dropdev", pc'[u] = "idle",
                      faults' = faults, NEW d \in asked[u] \cap Devices
               PROVE  Removed(d)'
    BY DEF Complete
  <2>1. PICK t \in Threads : Step(t)
    BY StepCases
  <2>2. Alone(t) /\ u \in Threads
    BY <2>1, Effects DEF RegistryInv, Threads
  <2>3. t = u
    BY <2>2 DEF Alone
  <2>4. DropDevice(t)
    BY <2>1, <2>3, RegistryAssumption DEF Step, Register, Report, StartRemove, StartSend, StartLeavers,
       StartRedelivery, RegisterMapping, DropReadToken, DropMapping, FindDevice, MarkDead,
       MarkDeathTime, ReadLeaver, SendType, SendToken, SendPost, Fails, Restart, RegistryInv, TypeOK
  <2>5. todo[t] = {}
    BY <2>3, <2>4 DEF DropDevice, Goto, RegistryInv, TypeOK
  <2>6. registered[d] # NoText /\ (Removed(d) \/ d = dev[t])
    BY <2>2, <2>3, <2>5 DEF RegistryInv, RemovalProgress
  <2>7. registered' = registered /\ token'[dev[t]] = NoText
    BY <2>4, <2>2 DEF DropDevice, RegistryInv, TypeOK
  <2> QED BY <2>1, <2>6, <2>7, Effects, DevicesKept DEF RegistryInv, Removed
<1> QED BY <1>1, RegistryInvariant, PTL DEF Spec, RemovedWhenAnswered

\* Without a Redis failure /leavers fails only on a device that another thread is about to
\* date, or that lost its time, or never got it, and was not reported again since.
THEOREM LeaversFailOnUndated == Spec => LeaversListed
<1> DEFINE Excused == \A t \in Workers :
        pc[t] = "leavers" /\ todo[t] # {} /\ pc'[t] = "idle" /\ faults' = faults =>
            \E d \in todo[t] : d \in undated \/ BeingMarked(d)
<1>1. RegistryInv /\ [Next]_vars => [Excused]_vars
  <2> SUFFICES ASSUME RegistryInv, Next, NEW u \in Workers, pc[u] = "leavers", todo[u] # {},
                      pc'[u] = "idle", faults' = faults
               PROVE  \E d \in todo[u] : d \in undated \/ BeingMarked(d)
    BY DEF Excused
  <2>1. PICK t \in Threads : Step(t)
    BY StepCases
  <2>2. Alone(t) /\ u \in Threads
    BY <2>1, Effects DEF RegistryInv, Threads
  <2>3. t = u
    BY <2>2 DEF Alone
  <2>4. ReadLeaver(t)
    BY <2>1, <2>3, RegistryAssumption DEF Step, Register, Report, StartRemove, StartSend, StartLeavers,
       StartRedelivery, RegisterMapping, DropReadToken, DropMapping, DropDevice, FindDevice, MarkDead,
       MarkDeathTime, SendType, SendToken, SendPost, Fails, Restart, RegistryInv, TypeOK
  <2>5. PICK d \in todo[u] : d \notin death
    BY <2>3, <2>4 DEF ReadLeaver
  <2>6. d \in dead
    BY <2>2 DEF RegistryInv, LeaversDated
  <2> QED BY <2>5, <2>6 DEF RegistryInv, LeaversDated
<1> QED BY <1>1, RegistryInvariant, PTL DEF Spec, LeaversListed

=============================================================================
