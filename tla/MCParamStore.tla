---------------------------- MODULE MCParamStore ----------------------------
(* Two channels, two values.  The frames: one group or two, a later value of  *)
(* the same group, and a refused unit before, between and behind accepted     *)
(* ones.  Side by side with it, "values" in which, what the handlers and      *)
(* loaders of every group make of the parameters.                             *)
EXTENDS Parameters, ParamMessages

CONSTANTS c1, c2, v1, v2

VARIABLE which

hvars == <<hfile, memory, set, erased, commands>>

MCChar == {x, y}
MCChannel == {c1, c2}
MCVal == {v1, v2}

Set(g, v) == [fn |-> g, val |-> v]

MCFrames ==
    {<<Set("F1", v2), Set("F3", v1)>>,
     <<Set("F3", v2), Refused>>, <<Refused, Set("F1", v1)>>,
     <<Set("F7", v1)>>, <<Set("F7", v2)>>,
     <<Set("F91", v1)>>, <<Set("F16", v2), Refused, Set("F1", v2)>>}

\* Two frames at a time and a third after them; commands that are in the file
\* at the same time: one pair, without a power failure.
Bounded ==
    /\ mixed => frames <= 2 /\ cuts = 0
    /\ frames > 2 => \E c \in Channel : chan[c].at = "idle" /\ cuts = 0

ASSUME H!HandlerAssumption

BothInit == Init /\ H!Init /\ which \in {"commands", "values"}
BothNext ==
    \/ which = "commands" /\ Next /\ UNCHANGED <<which, hvars>>
    \/ which = "values" /\ H!Next /\ UNCHANGED <<which, vars>>

all == <<vars, hvars, which>>

\* The fairness of ParamStore, on its side.
Both ==
    /\ BothInit /\ [][BothNext]_all
    /\ \A c \in Channel : WF_all(which = "commands" /\ Command(c) /\ UNCHANGED <<which, hvars>>)
    /\ WF_all(which = "commands" /\ LocalSetTermIpInfo /\ UNCHANGED <<which, hvars>>)
=============================================================================
