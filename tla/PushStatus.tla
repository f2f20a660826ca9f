----------------------------- MODULE PushStatus -----------------------------
(***************************************************************************)
(* What an application is promised about the push status it observes       *)
(* through ArLivePusherObserver::onPushStatusUpdate: a session reports     *)
(* Connecting exactly once and first, ConnectSuccess only as the outcome   *)
(* of an announced attempt, every later attempt as Reconnecting, and       *)
(* nothing outside a session.  How connections come about is the matter of *)
(* LivePush, which implements this module.                                 *)
(***************************************************************************)

VARIABLES
  pushing,   \* a session is open: between startPush and stopPush
  status     \* the last status reported in the session, "None" at its start

vars == <<pushing, status>>

Init == pushing = FALSE /\ status = "None"

Open == /\ ~pushing
        /\ pushing' = TRUE /\ status' = "None"

Close == /\ pushing
         /\ pushing' = FALSE /\ status' = "None"

FirstAttempt == /\ pushing /\ status = "None"
                /\ status' = "Connecting"
                /\ UNCHANGED pushing

LaterAttempt == /\ pushing /\ status \in {"Connecting", "Reconnecting", "ConnectSuccess"}
                /\ status' = "Reconnecting"
                /\ UNCHANGED pushing

Success == /\ pushing /\ status \in {"Connecting", "Reconnecting"}
           /\ status' = "ConnectSuccess"
           /\ UNCHANGED pushing

Next == Open \/ Close \/ FirstAttempt \/ LaterAttempt \/ Success

Spec == Init /\ [][Next]_vars
=============================================================================
