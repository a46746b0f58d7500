---------------------------- MODULE MCConversation ----------------------------
(* The conversation of one durable object: the continuations whose calls it    *)
(* chains, and the object itself with its alarm and its store.  Continuation   *)
(* takes the chain as given, TurnExecutor shows it; as they share no state,    *)
(* each behaviour is one of a single part.                                     *)
EXTENDS Continuation, TurnExecutor

VARIABLE part

conversationVars == <<part, vars, execVars>>

ConversationInit == part \in {"continuation", "object"} /\ Init /\ ExecInit

ConversationNext ==
    /\ UNCHANGED part
    /\ \/ part = "continuation" /\ Next /\ UNCHANGED execVars
       \/ part = "object" /\ ExecNext /\ UNCHANGED vars

\* Outside their parts no call and no request has begun, so that the fairness
\* conditions ask for nothing there.
ConversationSpec ==
    ConversationInit /\ [][ConversationNext]_conversationVars /\ Fairness /\ ExecFair
================================================================================
