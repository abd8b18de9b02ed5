------------------------------- MODULE MCPush -------------------------------
(***************************************************************************)
(* TLC instance of PushClient: two files, each with its URL.  Files and    *)
(* contents are interchangeable, so the entry that may exist is under k1   *)
(* and f1 contains h1.                                                     *)
(***************************************************************************)
EXTENDS PushClient, TLC

CONSTANTS f1, f2, k1, k2, h1, h2

MCSize == [h \in Hash |-> 1]

MCUrlOf == f1 :> k1 @@ f2 :> k2

MCPut == File \X (1..MaxRetries)

MCPushInit == PushInit /\ content[f1] = h1 /\ Find(1, k2) = {}

MCPushSpec == MCPushInit /\ [][PushNext]_pushVars /\ WF_pushVars(Progress)
=============================================================================
