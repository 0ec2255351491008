------------------------------ MODULE MCPorts ------------------------------
(***************************************************************************)
(* Four parts at the edges of the system that share no state: the command  *)
(* sinks, the camera pointing on top of the gimbal sink, the viewer, which *)
(* is a process of its own, and the reader of the behavior specification.  *)
(* Interleaving them would multiply their states and add nothing, so a     *)
(* behaviour runs one of them and leaves the others where they start,      *)
(* where their fairness asks for nothing: no fair action is enabled there. *)
(***************************************************************************)
EXTENDS CameraPointing, ViewerRelay, BehaviorSpec

VARIABLE part

MCEndpoints == <<"out", "in">>
MCCameras == <<"front", "", "side">>
MCCameraConfigs == <<[id |-> "0", name |-> "front"], [id |-> "side", name |-> "side"]>>
MCElevations == {-5, 3}
MCSign == -1
MCSizes == [line |-> 2, map |-> 3, replay |-> 2]
MCFirstLine == [line |-> 2, map |-> 3, replay |-> 1]

\* Texts of a few kinds of lines and tokens, and trees with what a specification
\* needs and up to two fields, a step or another part more.
Line(shape, indent, gap, key, value) ==
    [shape |-> shape, indent |-> indent, gap |-> gap, key |-> key, value |-> value]
MCYamlLines ==
    {Line("key", i, 1, k, v) : i \in {0, 2, 4}, k \in {"a", "b"}, v \in {"", "1"}}
    \cup {Line("item", i, 1, "c", v) : i \in {0, 2}, v \in {"", "1"}}
    \cup {Line("item", 0, 3, "c", ""), Line("key", 5, 1, "d", "1"), Line("item", 2, 1, "", "1"),
          Line("blank", 0, 1, "", ""), Line("malformed", 0, 1, "", "")}
MCJsonTokens ==
    {Token(t, "") : t \in {"{", "}", "[", "]", ":", ",", "space"}} \cup {Token("str", "a"), Token("lit", "1")}

Base(class, type) ==
    (<<>> :> Node("map", "")) @@ (<<Key("target")>> :> Node("map", ""))
    @@ (<<Key("target"), Key("selector")>> :> Node("map", ""))
    @@ (<<Key("target"), Key("selector"), Key("class")>> :> Node("scalar", class))
    @@ (<<Key("behavior")>> :> Node("map", ""))
    @@ (<<Key("behavior"), Key("type")>> :> Node("scalar", type))
Behavior == <<Key("behavior")>>
With(t, p, k, v) == Set(t, Append(p, Key(k)), Node("scalar", v))
MCFields == {"max_speed_mps", "radius_m", "angular_speed_deg_s", "orbit_count", "orbits", "stop_distance_m"}
MCTypes == {"hold", "follow", "approach", "circle", "sequence", "jump"}
Fields(t, p) ==
    LET once(u) == {u} \cup {With(u, p, k, v) : k \in MCFields, v \in NumberTexts \cup {"text"}}
    IN  UNION {once(u) : u \in once(t)}
Steps(t, p) ==
    LET q == Append(p, Key("steps"))  u == Set(t, q, Node("sequence", ""))
        below == Append(q, Item(1))
    IN  {With(t, p, "steps", "text"), u}
        \cup {With(With(Set(u, below, Node("map", "")), below, "type", type), below, k, v) :
                 type \in {"hold", "circle", "sequence"}, k \in {"radius_m", "max_speed_mps"}, v \in {"neg", "one"}}
Offset(t, p) ==
    LET q == Append(p, Key("relative_offset_m"))
    IN  With(With(With(Set(t, q, Node("map", "")), q, "x", "one"), q, "y", "neg"), q, "z", "nan")
Profile(t, p) ==
    LET q == Append(p, Key("altitude_profile"))  u == Set(t, q, Node("map", ""))
    IN  {With(u, q, "hold_height_m", v) : v \in {"zero", "neg"}}
        \cup {With(u, q, "start_height_m", "one"),
              With(With(u, q, "start_height_m", "one"), q, "end_height_m", "one")}
Rest(t) ==
    LET s == <<Key("target"), Key("selector")>>
        add(k) == Set(t, <<Key(k)>>, Node("map", ""))
    IN  {With(t, s, "confidence_min", v) : v \in NumberTexts} \cup {With(t, s, "policy", "farthest")}
        \cup {With(add("completion"), <<Key("completion")>>, "after_s", v) : v \in {"neg", "one"}}
        \cup {With(add("completion"), <<Key("completion")>>, "then", v) : v \in {"land", "fly"}}
        \cup {With(add("fallback"), <<Key("fallback")>>, "hold_s", v) : v \in {"neg", "one"}}
        \cup {With(add("fallback"), <<Key("fallback")>>, "on_target_lost", v) : v \in {"abort", "fly"}}
MCDocuments ==
    LET bases == {Base("person", type) : type \in MCTypes}
    IN  {Base("unknown", "hold"), <<>> :> Node("sequence", "")}
        \cup UNION {Fields(t, Behavior) \cup Steps(t, Behavior) \cup {Offset(t, Behavior)}
                    \cup Profile(t, Behavior) \cup Rest(t) : t \in bases}

PortsInit ==
    /\ part \in {"sinks", "pointing", "viewer", "text"}
    /\ SinksInit /\ ViewerInit /\ PointingInit
    /\ part \notin {"sinks", "pointing"} => sink = "null"
    /\ part = "pointing" => sink \in {"null", "gimbal"}
    /\ part # "pointing" => ~stare
    /\ part # "viewer" => runtime = "down" /\ mtime = 0
    /\ format \in IF part = "text" THEN {"yaml", "json", "tree"} ELSE {"yaml"}
    /\ TextInit

PortsNext ==
    /\ \/ part = "sinks" /\ SinksNext /\ UNCHANGED <<pointingVars, viewerVars, textVars>>
       \/ part = "pointing" /\ PointingNext /\ UNCHANGED <<viewerVars, textVars>>
       \/ part = "viewer" /\ ViewerNext /\ UNCHANGED <<sinkVars, pointingVars, textVars>>
       \/ part = "text" /\ TextNext /\ UNCHANGED <<sinkVars, pointingVars, viewerVars>>
    /\ UNCHANGED part

PortsSpec ==
    /\ PortsInit /\ [][PortsNext]_<<part, sinkVars, pointingVars, viewerVars, textVars>>
    /\ SinksFairness /\ ViewerFairness
=============================================================================
