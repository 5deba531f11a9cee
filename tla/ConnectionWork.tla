------------------------------ MODULE ConnectionWork ------------------------------
(***************************************************************************)
(* What a serrver_worker does every 5 s besides reporting events, side by  *)
(* side: it deals with the traffic and saves it (FlowStat), and it asks    *)
(* the sampling program for the present values (Sampling).  The two share  *)
(* nothing but the thread.                                                 *)
(***************************************************************************)
EXTENDS FlowStat

CONSTANTS
  Thread,  \* the serrver_worker threads that sample
  MaxFd, MaxCalls, MaxFaults

VARIABLES
  FD, CONNECT_FLAG, desc, at, why, reconnected, recv_645_buf, began, done,
  ACdate, alive, calls, faults, overlapped, strayed

S == INSTANCE Sampling

(* The values a call has stored answer a request that was sent after the   *)
(* last success before this call (AcSample.c:291-308), and as long as no   *)
(* two calls overlap, only the sampling's own descriptor is written to or  *)
(* closed (AcSample.c:33-36).                                              *)
SamplesAreRecent == S!SamplesAreRecent
===================================================================================
