-------------------------- MODULE SessionLifecycle --------------------------
(***************************************************************************)
(* What an application may rely on that opens a session, closes it and is  *)
(* told about it: open_callback comes only to who asked for the session    *)
(* last, every open_callback is followed by one close_callback before the  *)
(* next, transport_session_is_open follows what was told, and who has      *)
(* closed the session is told so.                                          *)
(***************************************************************************)
VARIABLES
    wanted,    \* the application's last call was transport_session_open
    told,      \* its last callback was open_callback
    is_open    \* what transport_session_is_open returns

lifecycleVars == <<wanted, told, is_open>>

Init == ~wanted /\ ~told /\ ~is_open

Ask == wanted' = TRUE /\ UNCHANGED <<told, is_open>>

Leave == wanted' = FALSE /\ UNCHANGED <<told, is_open>>

OpenCallback ==
    /\ wanted /\ ~told /\ ~is_open
    /\ told' = TRUE
    /\ UNCHANGED <<wanted, is_open>>

CloseCallback ==
    /\ told /\ is_open
    /\ told' = FALSE
    /\ UNCHANGED <<wanted, is_open>>

(* is_open still has its old value while the callback runs *)
Settle ==
    /\ is_open # told
    /\ is_open' = told
    /\ UNCHANGED <<wanted, told>>

Next == Ask \/ Leave \/ OpenCallback \/ CloseCallback \/ Settle

(* One who has left is told, and what was told comes true. *)
Spec ==
    /\ Init /\ [][Next]_lifecycleVars
    /\ WF_lifecycleVars(CloseCallback /\ ~wanted)
    /\ WF_lifecycleVars(Settle)
=============================================================================
