------------------------------ MODULE FileTransfer ------------------------------
(***************************************************************************)
(* The file transfer of AFN 0F F1 in Mrs_fw_proto376_1.c (AFN_0FH,         *)
(* GDW376_1_AFN0FH_01H): a station sends an upgrade file in segments, the  *)
(* terminal collects them in a buffer of one page and counts the pages.    *)
(* The writes and reads of the flash are commented out in the code: pages  *)
(* is what they would store, and the check sum is that of a cleared        *)
(* buffer, so whether it fits the one in the file's head is left open.     *)
(*                                                                         *)
(* All channels share the buffer and the counters; here one call of the    *)
(* handler ends before the next begins.  The answers go to descriptor 1    *)
(* and not to the station, which may repeat a segment or begin again.      *)
(***************************************************************************)
EXTENDS Integers, Sequences, SequencesExt

CONSTANTS
  PageSize,    \* 2048, the size of updatabuffer
  BIN_HEAD_LEN,\* 16, the length of the file's head
  MaxData,     \* 460: a longer segment is ignored; less than a page
  Sent,        \* the kinds of file a station sends
  MaxFile,     \* bound: the size of the largest file
  MaxTransfers \* bound: how often a station begins one

(* A segment without the head fits a page.                                 *)
FileAssumption ==
  /\ PageSize \in Nat /\ BIN_HEAD_LEN \in Nat /\ MaxData \in Nat /\ MaxFile \in Nat
  /\ MaxData <= PageSize /\ Sent \subseteq Nat

VARIABLES
  updata_offset, updata_addr_cnt, updatabuffer,
  fileFlag,      \* [size: from the head, flag, updatasize, total_size]
  RepeatUpgrade, \* [flag, update_size, total_size]
  ChargeSystemResetFlag,
  ack,           \* the last answer: the segment's number, all ones, or "none"
  pages,         \* what the flash would hold of the transfer
  station        \* what the station has sent since its last first segment:
                 \* [file, size, begun, later, bytes, inorder]

vars == <<updata_offset, updata_addr_cnt, updatabuffer, fileFlag, RepeatUpgrade,
          ChargeSystemResetFlag, ack, pages, station>>

(* Flag of a segment: 1 is the terminal's own program, 3 and 5 are those   *)
(* of the local communication modules, 4 that of the socket's controller.  *)
Relayed == {3, 4, 5}
Upgrade == {1} \union Relayed

Cleared == [i \in 1 .. PageSize |-> 0]
NoFlag == [size |-> 0, flag |-> 0, updatasize |-> 0, total_size |-> 0]
NoRepeat == [flag |-> 0, update_size |-> 0, total_size |-> 0]

Init ==
  /\ updata_offset = 0 /\ updata_addr_cnt = 0
  /\ updatabuffer = Cleared
  /\ fileFlag = NoFlag /\ RepeatUpgrade = NoRepeat
  /\ ChargeSystemResetFlag = 0
  /\ ack = "none"
  /\ pages = <<>>
  /\ station = [file |-> 1, size |-> 0, begun |-> 0, later |-> FALSE, bytes |-> 0, inorder |-> FALSE]
-----------------------------------------------------------------------------
(* memcpy(buf + at, data).                                                 *)
Copied(buf, at, data) ==
  [i \in 1 .. PageSize |-> IF i - at \in DOMAIN data THEN data[i - at] ELSE buf[i]]

(* The segment fits the buffer, the file's head counted in.                *)
Fits(at, len) == at + len <= PageSize

(* What is left of a segment when the page is full.                        *)
Rest_short(at, data) == SubSeq(data, PageSize - at + 2, Len(data))
Rest(at, data) == SubSeq(data, PageSize - at + 1, Len(data))

(* The buffer, its fill and the pages after a segment's data, from a       *)
(* buffer filled up to at.                                                 *)
Collected(at, buf, cnt, stored, data, len) ==
  IF Fits(at, len)
  THEN [buf |-> Copied(buf, at, data), at |-> at + Len(data), cnt |-> cnt, pages |-> stored]
  ELSE [buf |-> Copied(Cleared, 0, Rest(at, data)), at |-> Len(Rest(at, data)), cnt |-> cnt + 2,
        pages |-> Append(stored, Copied(buf, at, SubSeq(data, 1, PageSize - at)))]

(* The last segment: the check sum is computed and does or does not fit.   *)
(* cnt pages were announced.                                               *)
FinishOwn(flags, cnt) ==
  /\ UNCHANGED RepeatUpgrade
  /\ \/ /\ ack' = "all ones"
        /\ fileFlag' = NoFlag
        /\ UNCHANGED ChargeSystemResetFlag
     \/ /\ ack' = "DI"
        /\ fileFlag' = [size |-> flags.size, flag |-> 1, updatasize |-> 2 * cnt,
                        total_size |-> flags.size]
        /\ ChargeSystemResetFlag' = 1

(* The same of a file for a module: file 4 counts its head in.             *)
FinishRelayed(file, flags, cnt) ==
  /\ UNCHANGED ChargeSystemResetFlag
  /\ \/ ack' = "all ones" /\ fileFlag' = NoFlag /\ RepeatUpgrade' = NoRepeat
     \/ /\ ack' = "DI" /\ fileFlag' = flags
        /\ RepeatUpgrade' = [flag |-> file, update_size |-> 2 * cnt,
             total_size |-> flags.size + IF file = 4 THEN BIN_HEAD_LEN ELSE 0]

(* GDW376_1_AFN0FH_01H for a segment s = [file, first, len, data, size,     *)
(* last]: len counts the head, which only the first segment (DI = 0) has,  *)
(* and data does not.                                                      *)
Segment(s) ==
  LET c == Collected(IF s.first THEN 0 ELSE updata_offset,
                     IF s.first THEN Cleared ELSE updatabuffer,
                     IF s.first THEN 0 ELSE updata_addr_cnt,
                     IF s.first THEN <<>> ELSE pages, s.data, s.len)
      kept == IF s.first THEN [NoFlag EXCEPT !.size = s.size] ELSE fileFlag
  IN IF s.last
     THEN /\ updata_offset' = 0 /\ updata_addr_cnt' = 0
          /\ updatabuffer' = Cleared
          /\ pages' = Append(c.pages, SubSeq(c.buf, 1, c.at))
          /\ LET cnt == (c.cnt + 2) \div 2
             IN IF s.file = 1 THEN FinishOwn(kept, cnt) ELSE FinishRelayed(s.file, kept, cnt)
     ELSE /\ updata_offset' = c.at /\ updata_addr_cnt' = c.cnt
          /\ updatabuffer' = c.buf
          /\ pages' = c.pages
          /\ fileFlag' = kept
          /\ ack' = "DI"
          /\ UNCHANGED <<RepeatUpgrade, ChargeSystemResetFlag>>

(* AFN_0FH: a segment of another file (0, 2 and the unknown) and one that  *)
(* is too long are passed over, without an answer.                         *)
Ignored(s) == s.file \notin Upgrade \/ s.len > MaxData

AFN_0FH(s) ==
  IF Ignored(s) THEN UNCHANGED <<updata_offset, updata_addr_cnt, updatabuffer, fileFlag,
                                 RepeatUpgrade, ChargeSystemResetFlag, ack, pages>>
                ELSE Segment(s)
-----------------------------------------------------------------------------
(* The station.  The bytes of a file are 1, 2, and so on.                  *)
(***************************************************************************)
Bytes(from, n) == [i \in 1 .. n |-> from + i]

(* The first segment holds the head, and some bytes of the file.           *)
Begin(file, size, n) ==
  LET s == [file |-> file, first |-> TRUE, len |-> BIN_HEAD_LEN + n, data |-> Bytes(0, n),
            size |-> size, last |-> n = size]
  IN /\ n <= size
     /\ station.begun < MaxTransfers
     /\ AFN_0FH(s)
     /\ station' = [file |-> file, size |-> size, begun |-> station.begun + 1,
                    later |-> FALSE, bytes |-> n, inorder |-> ~Ignored(s)]

(* The next one.  A station that has sent the whole file sends no more.    *)
Continue(n) ==
  LET s == [file |-> station.file, first |-> FALSE, len |-> n,
            data |-> Bytes(station.bytes, n), size |-> 0, last |-> station.bytes + n = station.size]
  IN /\ station.bytes < station.size /\ station.bytes + n <= station.size
     /\ AFN_0FH(s)
     /\ station' = [station EXCEPT !.later = TRUE, !.bytes = @ + n, !.inorder = @ /\ ~Ignored(s)]

(* A repeated segment is collected once more: its identifier is not        *)
(* compared with the last one.                                             *)
Repeat(n) ==
  LET s == [file |-> station.file, first |-> FALSE, len |-> n,
            data |-> Bytes(station.bytes - n, n), size |-> 0, last |-> station.bytes = station.size]
  IN /\ station.later /\ n <= station.bytes
     /\ station.inorder       \* bound: at most one repetition in a transfer
     /\ AFN_0FH(s)
     /\ station' = [station EXCEPT !.inorder = FALSE]

Next ==
  \/ \E file \in Sent, size \in 1 .. MaxFile, n \in 1 .. MaxData : Begin(file, size, n)
  \/ \E n \in 1 .. MaxData + 1 : Continue(n) \/ Repeat(n)

Spec == Init /\ [][Next]_vars
-----------------------------------------------------------------------------
Byte == 0 .. MaxFile

(* The counters stay within the buffer and count pages in units of 1K.     *)
TypeOK ==
  /\ updata_offset \in 0 .. PageSize
  /\ updata_addr_cnt \in Nat /\ updata_addr_cnt % 2 = 0
  /\ updatabuffer \in [1 .. PageSize -> Byte]

(* While the segments of a file come once and in order, what the flash     *)
(* would hold and what the buffer holds are the file up to the last        *)
(* segment: nothing is lost or kept twice at the end of a page, and        *)
(* nothing of an earlier transfer is left.                                 *)
PagesHoldTheFile ==
  station.inorder =>
    FlattenSeq(pages) \o SubSeq(updatabuffer, 1, updata_offset) = Bytes(0, station.bytes)

Covers(update_size, total) ==
  LET n == update_size \div 2 IN (n - 1) * PageSize < total /\ total <= n * PageSize

(* The pages announced for an accepted file are those its size needs, so   *)
(* the check sum of the last page runs over at least one byte and at most  *)
(* a page.  Not so for file 4, whose head is counted in but not stored.    *)
AcceptedFits ==
  station.inorder =>
    /\ fileFlag.flag = 1 => Covers(fileFlag.updatasize, fileFlag.total_size)
    /\ RepeatUpgrade.flag \in {3, 5} /\ station.file = RepeatUpgrade.flag /\ station.bytes = station.size
         => Covers(RepeatUpgrade.update_size, RepeatUpgrade.total_size)

(* What the boot loader finds after a transfer in order: the file, and the *)
(* number of pages to copy.                                                *)
StoredIsTheFile == PagesHoldTheFile /\ AcceptedFits
=============================================================================
