----------------------------- MODULE MCCoreStack -----------------------------
EXTENDS CoreStack, TLC
MCPaths == <<"site", "mission">>
MCLayouts == {("site" :> a) @@ ("mission" :> b) @@ ("base" :> c) :
                 a \in {<<"base">>}, b \in {<<>>, <<"base", "site">>}, c \in {<<>>, <<"site">>}}
MCValues == [bridge_mode |-> {"stream_binary", "stream_jsonl", "one_shot_ppm"},
             ego_provider |-> {"frame_hint", "visual_odometry"},
             ego_provider_eval |-> {"off", "airsim", "visual_odometry"}]
MCDefaults == [bridge_mode |-> "one_shot_ppm", ego_provider |-> "frame_hint",
               ego_provider_eval |-> "off"]
MCResolvable == [MCValues EXCEPT !.ego_provider_eval = {"off", "airsim"}]
=============================================================================
