--------------------------- MODULE MCPushyService ---------------------------
(* PushyService on small clusters: values for its constants. *)
EXTENDS PushyService, TLC

CONSTANTS n1, n2, w1, w2, m1, m2

ApnsOnly == [n \in Nodes |-> {"apns"}]
GcmOnly  == [n \in Nodes |-> {"gcm"}]
Both     == [n \in Nodes |-> Providers]
\* n1 serves APNS and GCM, every other node only GCM.
Uneven   == [n \in Nodes |-> IF n = n1 THEN Providers ELSE {"gcm"}]
Nothing  == [n \in Nodes |-> {}]

NoRaces  == {}
AllRaces == RaceOutcomes

SymmetricMsgs == Permutations(Msgs)

=============================================================================
