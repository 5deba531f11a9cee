------------------------------ MODULE MCDispatcher ------------------------------
(* Two channels.  c1 gets every kind of request, c2 asks for events only:   *)
(* EventBuf and the clock are all the channels share.                       *)
(* Limit, Room and the sizes are scaled: a frame of 8 is still collected    *)
(* but only 7 fit; rows of 3 never reach 8, a row of 3 and one of 4 do.     *)
(* Side by side with it, "files" in which, the file transfer: pages of 3    *)
(* bytes, files of up to 7, so that they end before, at and after the end   *)
(* of a page, and a second transfer after each end of the first.            *)
EXTENDS FrameHandlers

CONSTANTS c1, c2

VARIABLE which

filevars == <<updata_offset, updata_addr_cnt, updatabuffer, fileFlag, RepeatUpgrade,
              ChargeSystemResetFlag, filed, pages, station>>

U(fn, arg) == [fn |-> fn, pn |-> 0, arg |-> arg]
R(afn, units) ==
  [afn |-> afn, units |-> units, next |-> Unreadable, seq |-> 15,
   dir |-> "down", to |-> "own", group |-> FALSE]
Follows(r, u) == [r EXCEPT !.next = u]
ToAll(r, g) == [r EXCEPT !.to = "all", !.group = g]

Row(i, k, n) == [id |-> i, erc |-> k, size |-> n]
MCRows == << Row(1, 3, 3), Row(2, 3, 3), Row(3, 3, 3), Row(4, 3, 3), Row(5, 4, 3) >>
MCOrdinary == << Row(6, 4, 4) >>
MCFlagged == {3}

Control == { R("05", <<>>), R("05", <<U(31, <<1>>)>>), R("05", <<U(31, <<1>>), U(27, <<>>)>>),
             R("05", <<U(31, <<1>>), U(40, <<>>)>>), R("05", <<U(40, <<>>), U(31, <<1>>)>>),
             R("05", <<U(31, <<1>>), U(1, <<>>)>>),
             R("05", <<[fn |-> 31, pn |-> 1, arg |-> <<1>>]>>) }
Config == { R("09", <<U(1, <<>>)>>), R("09", <<U(1, <<>>), U(9, <<>>)>>), R("09", <<U(2, <<>>)>>) }
Query == { R("0A", <<U(7, <<>>), U(3, <<>>), U(36, <<>>)>>), R("0A", <<U(89, <<>>)>>),
           R("0A", <<U(16, <<>>), U(10, <<0>>)>>), R("0A", <<U(10, <<0>>), U(16, <<>>)>>),
           R("0A", <<U(10, <<1>>)>>), R("0A", <<U(7, <<>>), Unreadable>>), R("0A", <<U(4, <<>>)>>) }
RealTimeData ==
  { R("0C", <<U(2, <<>>), U(10, <<>>)>>), R("0C", <<U(2, <<>>), U(10, <<>>), U(50, <<>>)>>),
    R("0C", <<U(3, <<>>), U(50, <<>>)>>), R("0C", <<[fn |-> 10, pn |-> 1, arg |-> <<>>]>>),
    Follows(R("0C", <<U(10, <<>>)>>), U(2, <<>>)) }
EventData ==
  { R("0E", <<U(1, <<0, 5>>)>>), R("0E", <<U(1, <<4, 1>>)>>), R("0E", <<U(2, <<0, 1>>)>>),
    R("0E", <<U(3, <<3, 2>>)>>), R("0E", <<U(3, <<4, 5>>)>>) }
Odd == { ToAll(R("0E", <<U(1, <<0, 5>>)>>), TRUE), ToAll(R("0A", <<U(7, <<>>)>>), FALSE),
         [R("0A", <<U(7, <<>>)>>) EXCEPT !.to = "other"], [R("0A", <<U(7, <<>>)>>) EXCEPT !.dir = "up"],
         R("02", <<>>), R("0E", <<>>), R("0E", <<U(4, <<>>)>>),
         R("0E", <<U(1, <<1, 2>>), U(1, <<1, 2>>)>>) }

MCChannel == {c1, c2}
MCSent == {1, 2, 3}
MCAsked == [c \in MCChannel |->
  IF c = c1 THEN Control \cup Config \cup Query \cup RealTimeData \cup EventData \cup Odd
  ELSE { R("0E", <<U(1, <<0, 3>>)>>) }]

ASSUME FT!FileAssumption

BothInit == Init /\ FT!Init /\ which \in {"requests", "files"}
BothNext ==
  \/ which = "requests" /\ Next /\ UNCHANGED <<which, filevars>>
  \/ which = "files" /\ FT!Next /\ UNCHANGED <<which, vars>>
  \/ which = "files" /\ UNCHANGED <<vars, filevars, which>> \* after MaxTransfers nothing follows
Both == BothInit /\ [][BothNext]_<<vars, filevars, which>>
================================================================================
