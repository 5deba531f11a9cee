---------------------------- MODULE ParamMessages ----------------------------
(* What a station may set, for each group of ParamHandlers: the fields of a *)
(* message differ from each other, so that two that are mixed up show.      *)
EXTENDS Naturals, Sequences

CONSTANTS x, y   \* two characters

NetSettings ==
  {[termip |-> <<10, 0, 0, 1>>, netmask |-> <<255, 255, 0, 0>>, gateway |-> <<10, 0, 0, 2>>,
    proxytype |-> 2, proxyserverip |-> <<10, 0, 0, 3>>, proxyserverport |-> 80,
    connectway |-> n, user |-> u, pw |-> w, listen_port |-> 90] :
      n \in {0}, u \in {<<>>, <<x>>, <<x, y>>}, w \in {<<>>, <<y>>}}

Angles == {[side |-> x, deg |-> 39, min |-> 5, sec |-> 45, dec |-> 0],
           [side |-> y, deg |-> 116, min |-> 23, sec |-> 45, dec |-> 6]}

Messages ==
  [F1   |-> {[RTS |-> 3, delay_time |-> 4, over_time |-> 500, over_times |-> 2, confirm |-> c,
              heart_beats |-> 6] : c \in {0, 1, 2, 12}},
   F3   |-> {[IP_main |-> <<1, 2, 3, 4>>, Port_main |-> 5, IP_bak |-> <<6, 7, 8, 9>>,
              Port_bak |-> 10, APN |-> <<x>>]},
   F5   |-> {[No |-> 3, Parameter |-> 4]},
   F7   |-> NetSettings,
   F8   |-> {[ConnStartMode |-> 2, mode |-> 3, TcpUdp |-> 0, ReconnInterval |-> 4, MaxRetryCnt |-> 5,
              MaxIdleTime |-> 6, TimeSpan |-> <<7, 8, 9>>]},
   F9   |-> {[valid |-> <<3, 4>>, rating |-> <<5, 6>>]},
   F16  |-> {[VirUser |-> <<x>>, VirPasswd |-> <<y, y>>]},
   F36  |-> {7},
   F89  |-> {[districtCode |-> 7, termAddr |-> 8]},
   F91  |-> {[longitude |-> a, latitude |-> b] : a \in Angles, b \in Angles},
   F153 |-> {[phase |-> <<1, 0, n>>, mac |-> <<3, 4, 5, 6>>] : n \in {0, 2}},
   F154 |-> {[format |-> 1, trans |-> <<2, 3, 4>>, mac |-> <<5, 6, 7, 8>>]}]
=============================================================================
