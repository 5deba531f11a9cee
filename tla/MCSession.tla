----------------------------- MODULE MCSession -----------------------------
(* Two stations that connect to the terminal, and one that client_worker    *)
(* connects to; enough descriptors that none is missing, few enough that    *)
(* numbers are used again.                                                  *)
EXTENDS Session, TLC

\* Two stations dial while there is no client_worker, one beside it; a state in
\* which accept has overtaken a thread is checked, its successors are not.
Bounded == ~overtaken /\ (client.at = "ended" \/ link[2] = "none")
=============================================================================
