------------------------------ MODULE FrameHandlers ------------------------------
(***************************************************************************)
(* The handlers of the station's frames: those that answer with what the   *)
(* terminal has (Dispatcher), and the one that collects an upgrade file    *)
(* (FileTransfer).  The two share no state.                                *)
(***************************************************************************)
EXTENDS Dispatcher

CONSTANTS PageSize, BIN_HEAD_LEN, MaxData, Sent, MaxFile, MaxTransfers

VARIABLES
  updata_offset, updata_addr_cnt, updatabuffer, fileFlag, RepeatUpgrade,
  ChargeSystemResetFlag, filed, pages, station

FT == INSTANCE FileTransfer WITH ack <- filed

(* What is stored of a file sent in order is the file, and the pages       *)
(* announced for an accepted one are those its size needs.                 *)
StoredIsTheFile == FT!StoredIsTheFile
=================================================================================
