---------------------------- MODULE MCWorldAndMap ----------------------------
(***************************************************************************)
(* Two parts of run_once() that share no state here: the world model with  *)
(* what is derived from it, and the Level 1 maps, which get arbitrary      *)
(* evidence.  A behaviour runs one of them and leaves the other where it   *)
(* starts.                                                                 *)
(***************************************************************************)
EXTENDS WorldModel, LevelOneMap

VARIABLE part

\* Both patterns give the car one track, and the van, which is bound by name,
\* another one; the child may mark it.
Track(o) == <<"gt", o>>
MCTracks == {Track(o) : o \in {"van", "man", "car", "oak"}} \cup {<<"target", "van">>, <<"far", "oak">>}
MCTrack == [o \in {"van", "man", "car", "oak"} |-> Track(o)]
MCPatterns == <<[class |-> "car", max |-> 1, matches |-> <<"van", "car">>, track |-> MCTrack],
                [class |-> "tree", max |-> 0, matches |-> <<"oak", "car">>, track |-> MCTrack]>>
MCDetectable == <<"van", "man">>
MCExact == <<[object |-> "van", class |-> "car", track |-> <<"target", "van">>]>>
MCScenario == <<[object |-> "oak", class |-> "tree", track |-> <<"far", "oak">>]>>
MCLines == {<<>>, <<[object |-> "van", pattern |-> 1]>>}
MCClasses == <<"car", "tree">>
MCSpread == <<1>>

PartsInit ==
    /\ WorldInit /\ MapInit
    /\ \/ part = "world" /\ trav.log_odds
       \/ part = "map" /\ setup = [cameras |-> FALSE, depth |-> FALSE, source |-> "synthetic",
                                  ghosts |-> "none", inventory |-> FALSE]

PartsNext ==
    /\ \/ part = "world" /\ (WorldNext \/ WorldDone) /\ UNCHANGED mapVars
       \/ part = "map" /\ (MapNext \/ MapDone) /\ UNCHANGED worldVars
    /\ UNCHANGED part

PartsSpec == PartsInit /\ [][PartsNext]_<<part, worldVars, mapVars>>
=============================================================================
