---------------------------- MODULE MessageStore ----------------------------
(***************************************************************************)
(* The message half of class dba (src/src/database.cpp): the Redis keys    *)
(* message.<uuid>, failed_messages.apns and failed_messages.gcm, shared by *)
(* every pushy node.  Redis runs one command at a time, so each operator   *)
(* below that primes a variable is ONE command; a dba function that sends  *)
(* several commands is several steps of the thread that calls it, and      *)
(* PushyService interleaves those steps.                                   *)
(*                                                                         *)
(* Of the hash message.<uuid> the model keeps the two fields the control   *)
(* flow reads.  `type' is written by the same HMSET as device, payload,    *)
(* timestamp and tag, so it stands for all of them: they are present or    *)
(* absent together.  `attempts' is created by HINCRBY, also when the rest  *)
(* of the hash is gone.  The free text of `reason' is left out.            *)
(***************************************************************************)
EXTENDS Integers

CONSTANTS
    Msgs    \* message uuids the generator may hand out

VARIABLES
    issued,     \* uuids already handed out (random_generator never repeats one)
    type,       \* type[m]: field `type' of message.<m>, NoType when absent
    attempts,   \* attempts[m]: field `attempts', 0 when absent
    failed      \* failed[p]: the set failed_messages.<p>

storeVars == <<issued, type, attempts, failed>>

Providers == {"apns", "gcm"}
NoType == "none"

StoreTypeOK ==
    /\ issued \subseteq Msgs
    /\ type \in [Msgs -> Providers \cup {NoType}]
    /\ attempts \in [Msgs -> Nat]
    /\ failed \in [Providers -> SUBSET Msgs]

StoreInit ==
    /\ issued = {}
    /\ type = [m \in Msgs |-> NoType]
    /\ attempts = [m \in Msgs |-> 0]
    /\ failed = [p \in Providers |-> {}]

-----------------------------------------------------------------------------
(* Reads *)

\* HGET of type, device, ... answers a non-empty string.  get_message,
\* mark_push_record_failed and remove_from_failed_messages all throw without it:
\* string_generator and lexical_cast refuse the empty string.
HasRecord(m) == type[m] # NoType

\* get_failed_messages converts `device' and `attempts' of every element it
\* lists, and throws when either is absent.
Listable(m) == HasRecord(m) /\ attempts[m] > 0

-----------------------------------------------------------------------------
(* Commands that write *)

\* Mutated: a new record counts its first attempt already.
WriteCounted(m, p) ==
    /\ issued' = issued \cup {m}
    /\ type' = [type EXCEPT ![m] = p]
    /\ attempts' = [attempts EXCEPT ![m] = 1]
    /\ UNCHANGED failed

\* write_push: HMSET of a whole record under a new uuid.
WriteRecord(m, p) ==
    /\ issued' = issued \cup {m}
    /\ type' = [type EXCEPT ![m] = p]
    /\ UNCHANGED <<attempts, failed>>

\* Mutated: the SADD is missing.
AddFailedNowhere(m, p) == UNCHANGED storeVars

\* mark_push_record_failed: SADD (with the HSET of the reason before it).
AddFailed(m, p) ==
    /\ failed' = [failed EXCEPT ![p] = @ \cup {m}]
    /\ UNCHANGED <<issued, type, attempts>>

\* Mutated: the count is decremented; it is not counted at all.
CountDown(m) ==
    /\ attempts' = [attempts EXCEPT ![m] = @ - 1]
    /\ UNCHANGED <<issued, type, failed>>

CountNothing(m) == UNCHANGED storeVars

\* mark_push_record_failed: HINCRBY, which creates the field (and the hash) at 0.
CountAttempt(m) ==
    /\ attempts' = [attempts EXCEPT ![m] = @ + 1]
    /\ UNCHANGED <<issued, type, failed>>

\* remove_from_failed_messages: SREM.  Its answer is InFailed in the state before.
InFailed(m, p) == m \in failed[p]

\* Mutated: the set is asked (SISMEMBER), not changed.
RemoveNothing(m, p) == UNCHANGED storeVars

RemoveFailed(m, p) ==
    /\ failed' = [failed EXCEPT ![p] = @ \ {m}]
    /\ UNCHANGED <<issued, type, attempts>>

\* drop_push_record: the script deletes the key.  When there is no such key the
\* script ends in an error reply that redis3m does not turn into an exception.
DropRecord(m) ==
    /\ type' = [type EXCEPT ![m] = NoType]
    /\ attempts' = [attempts EXCEPT ![m] = 0]
    /\ UNCHANGED <<issued, failed>>

=============================================================================
