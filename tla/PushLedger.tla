----------------------------- MODULE PushLedger -----------------------------
(***************************************************************************)
(* What pushy promises about a message, without nodes, threads, Redis or   *)
(* callbacks: once accepted a message has one owner, or waits in a set of  *)
(* failed messages where exactly one owner can claim it, until its owner   *)
(* settles it (delivered, or given up on).  The one thing that can go      *)
(* wrong is that an owner dies with the message in its hands; a message    *)
(* lost that way, like a settled one, is never worked on again.            *)
(* PushyService implements this specification.                             *)
(***************************************************************************)
CONSTANT Msgs

VARIABLE stage    \* stage[m]: where message m is

Stages == {"new", "owned", "failed", "done", "lost"}

TypeOK == stage \in [Msgs -> Stages]

Init == stage = [m \in Msgs |-> "new"]

Move(m, from, to) ==
    /\ stage[m] = from
    /\ stage' = [stage EXCEPT ![m] = to]

Accept(m) == Move(m, "new", "owned")       \* a push request stores its record
Park(m)   == Move(m, "owned", "failed")    \* its delivery failed
Claim(m)  == Move(m, "failed", "owned")    \* somebody takes it to try again or to give up
Settle(m) == Move(m, "owned", "done")      \* its record is dropped

\* Owners that die take everything they own with them.
Lose(S) ==
    /\ \A m \in S : stage[m] = "owned"
    /\ stage' = [m \in Msgs |-> IF m \in S THEN "lost" ELSE stage[m]]

Next ==
    \/ \E m \in Msgs : Accept(m) \/ Park(m) \/ Claim(m) \/ Settle(m)
    \/ \E S \in SUBSET Msgs : Lose(S)

Spec == Init /\ [][Next]_stage

=============================================================================
