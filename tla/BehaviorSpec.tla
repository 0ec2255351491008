---------------------------- MODULE BehaviorSpec ----------------------------
(***************************************************************************)
(* parse_behavior_spec_text(): the file that says what the object behavior *)
(* controller flies.  A YAML text is read line by line, a JSON text by     *)
(* recursive descent; both give a tree of nodes, from which the parse_*    *)
(* functions take the specification, or throw.                             *)
(*                                                                         *)
(* A node is known by its path from the root.  A line is trimmed and split *)
(* into its key and value.  A JSON text is made of brackets, separators,   *)
(* quoted strings, literals and spaces, next to each other as they come: a *)
(* literal goes on to the next space, comma or closing bracket.  Numbers   *)
(* are told apart by their place in the ranges the code asks for.          *)
(***************************************************************************)
EXTENDS Integers, Sequences, FiniteSets, FiniteSetsExt, TLC

CONSTANTS
    YamlLines,      \* the lines a YAML text may have
    MaxYamlLines,   \* bound: lines of a text
    JsonTokens,     \* the pieces a JSON text may have
    MaxJsonTokens,  \* bound: pieces of a text
    Documents       \* trees to take a specification from

\* A line after its comment, spaces and quotes are taken off: nothing left, no key
\* to be found or a tab, an item some spaces (its gap) after a dash, a key.
LineShapes == {"blank", "malformed", "item", "key"}

ASSUME SpecTextAssumption ==
    /\ MaxYamlLines \in Nat /\ MaxJsonTokens \in Nat
    /\ \A l \in YamlLines : /\ l.shape \in LineShapes /\ l.indent \in Nat
                           /\ l.gap \in Nat \ {0}

VARIABLES
    format,     \* the format the text is read in, or "tree"
    text,       \* the lines or tokens read so far
    rest,       \* the tokens still to come when the text is a rewritten one
    tree,       \* the ConfigNodes, by path
    nodes,      \* the stack of the YAML reader, or the open containers of JSON
    expect,     \* what the JSON parser is about to read
    place,      \* the path of the value it reads
    original,   \* the tree that was rewritten as JSON (ghost)
    outcome,    \* "reading", "error", "parsed", "accepted" or "rejected"
    spec        \* the BehaviorSpec taken from the tree

jsonVars == <<rest, expect, place>>
textVars == <<format, text, jsonVars, tree, nodes, original, outcome, spec>>

Key(k) == [key |-> k, item |-> 0]
Item(i) == [key |-> "", item |-> i]
Node(kind, scalar) == [kind |-> kind, scalar |-> scalar]
NoSpec == [ok |-> FALSE]

Below(t, p) == {q \in DOMAIN t : Len(q) > Len(p) /\ SubSeq(q, 1, Len(p)) = p}
Items(t, p) == {q \in Below(t, p) : Len(q) = Len(p) + 1}  \* children of either kind
Set(t, p, node) == (p :> node) @@ t

\* set_scalar(): the children are cleared.
set_scalar(t, p, value) ==
    Set([q \in DOMAIN t \ Below(t, p) |-> t[q]], p, Node("scalar", value))

\* map_child() and append_sequence_item(): an undefined node takes the kind asked
\* of it, another one must have it.
Usable(t, p, kind) == t[p].kind \in {"undefined", kind}
map_child(t, p, k) ==
    LET q == Append(p, Key(k))  u == Set(t, p, Node("map", ""))
    IN  IF q \in DOMAIN t THEN u ELSE Set(u, q, Node("undefined", ""))
append_sequence_item(t, p, node) ==
    Set(Set(t, p, Node("sequence", "")), Append(p, Item(Cardinality(Items(t, p)) + 1)), node)

Throw ==
    /\ outcome' = "error"
    /\ UNCHANGED <<tree, nodes>>

-----------------------------------------------------------------------------
(* parse_yaml_subset(). *)

\* The stack after the entries at this indent or deeper are popped.
Popped(indent) ==
    LET keep == Max({1} \cup {i \in DOMAIN nodes : nodes[i].indent < indent})
    IN  SubSeq(nodes, 1, keep)

Pushed(stack, indent, path) == Append(stack, [indent |-> indent, node |-> path])


\* The indent the key after a dash is given, wherever it stands.
KeyIndent(l) == l.indent + 2

\* A line "- value", "- key: value" or "- key:".
read_item(l) ==
    LET stack == Popped(l.indent)
        parent == stack[Len(stack)].node
        item == Append(parent, Item(Cardinality(Items(tree, parent)) + 1))
        node == Append(item, Key(l.key))
        t == append_sequence_item(tree, parent, Node("map", ""))
    IN  IF ~Usable(tree, parent, "sequence") THEN Throw
        ELSE /\ UNCHANGED outcome
             /\ CASE l.key = "" ->
                       /\ tree' = append_sequence_item(tree, parent, Node("scalar", l.value))
                       /\ nodes' = stack
                  [] l.key # "" /\ l.value = "" ->
                       /\ tree' = map_child(t, item, l.key)
                       /\ nodes' = Pushed(Pushed(stack, l.indent, item), KeyIndent(l), node)
                  [] OTHER ->
                       /\ tree' = set_scalar(map_child(t, item, l.key), node, l.value)
                       /\ nodes' = Pushed(stack, l.indent, item)

\* A line "key: value" or "key:".
read_key(l) ==
    LET stack == Popped(l.indent)
        parent == stack[Len(stack)].node
        node == Append(parent, Key(l.key))
        t == map_child(tree, parent, l.key)
    IN  IF ~Usable(tree, parent, "map") THEN Throw
        ELSE /\ UNCHANGED outcome
             /\ IF l.value = "" THEN tree' = t /\ nodes' = Pushed(stack, l.indent, node)
                ELSE tree' = set_scalar(t, node, l.value) /\ nodes' = stack

\* One line: a tab, a missing colon and an empty key throw, an empty line or one
\* with a comment only is skipped.
read_line(l) ==
    /\ format = "yaml" /\ outcome = "reading" /\ Len(text) < MaxYamlLines
    /\ text' = Append(text, l)
    /\ CASE l.shape = "malformed" -> Throw
         [] l.shape = "blank" -> UNCHANGED <<tree, nodes, outcome>>
         [] l.shape = "item" -> read_item(l)
         [] l.shape = "key" -> read_key(l)
    /\ UNCHANGED <<format, jsonVars, original, spec>>

-----------------------------------------------------------------------------
(* JsonParser. *)

NotJson == "1:"                 \* a literal that JSON does not have
LiteralEnds == {"space", ",", "}", "]"}

\* A value has been read: the parser is back in the innermost container.
ValueRead == expect' = (IF nodes = <<>> THEN "end" ELSE "next") /\ UNCHANGED <<nodes, place>>

\* parse_value(), up to the first piece of a literal.
parse_value(tok) ==
    CASE tok.t = "{" ->
           /\ tree' = Set(tree, place, Node("map", "")) /\ nodes' = Append(nodes, place)
           /\ expect' = "first_key" /\ UNCHANGED <<place, outcome>>
      [] tok.t = "[" ->
           /\ tree' = Set(tree, place, Node("sequence", "")) /\ nodes' = Append(nodes, place)
           /\ place' = Append(place, Item(1))
           /\ expect' = "first_value" /\ UNCHANGED outcome
      [] tok.t = "str" ->
           /\ tree' = Set(tree, place, Node("scalar", tok.v))
           /\ ValueRead /\ UNCHANGED outcome
      [] tok.t \in LiteralEnds -> Throw /\ UNCHANGED <<expect, place>>
      [] OTHER ->
           /\ tree' = Set(tree, place, Node("scalar", IF tok.t = "lit" THEN tok.v ELSE NotJson))
           /\ expect' = "literal" /\ UNCHANGED <<nodes, place, outcome>>

\* The innermost container is closed.
close_container ==
    LET outer == SubSeq(nodes, 1, Len(nodes) - 1)
    IN  /\ nodes' = outer /\ place' = nodes[Len(nodes)]
        /\ expect' = IF outer = <<>> THEN "end" ELSE "next"
        /\ UNCHANGED <<tree, outcome>>

\* The key of an entry, a string.  A key that is there already is added again;
\* child() finds the first one.
parse_key(tok) ==
    LET p == nodes[Len(nodes)]
        again == Cardinality({q \in Items(tree, p) : q[Len(q)].key = tok.v})
    IN  IF tok.t # "str" THEN Throw /\ UNCHANGED <<expect, place>>
        ELSE /\ place' = Append(p, [key |-> tok.v, item |-> again])
             /\ expect' = "colon" /\ UNCHANGED <<tree, nodes, outcome>>

\* After an entry of parse_object() or parse_array(): a comma or the end.
parse_next(tok) ==
    LET p == nodes[Len(nodes)]  map == tree[p].kind = "map"
    IN  CASE tok.t = (IF map THEN "}" ELSE "]") -> close_container
          [] tok.t = "," ->
               /\ expect' = IF map THEN "key" ELSE "value"
               /\ place' = IF map THEN place ELSE Append(p, Item(Cardinality(Items(tree, p)) + 1))
               /\ UNCHANGED <<tree, nodes, outcome>>
          [] OTHER -> Throw /\ UNCHANGED <<expect, place>>

\* What the parser is about to read decides who reads the piece.
parse_at(tok) ==
    CASE expect = "value" -> parse_value(tok)
      [] expect = "first_value" -> IF tok.t = "]" THEN close_container ELSE parse_value(tok)
      [] expect = "first_key" -> IF tok.t = "}" THEN close_container ELSE parse_key(tok)
      [] expect = "key" -> parse_key(tok)
      [] expect = "colon" ->
           IF tok.t = ":" THEN expect' = "value" /\ UNCHANGED <<tree, nodes, place, outcome>>
           ELSE Throw /\ UNCHANGED <<expect, place>>
      [] expect = "next" -> parse_next(tok)
      [] expect = "end" -> Throw /\ UNCHANGED <<expect, place>>

\* parse_literal(): it goes on over colons, quotes and opening brackets, and what
\* ends it is read as what follows a value.
parse_literal(tok) ==
    CASE tok.t = "space" -> ValueRead /\ UNCHANGED <<tree, outcome>>
      [] tok.t \in LiteralEnds \ {"space"} ->
           IF nodes = <<>> THEN Throw /\ UNCHANGED <<expect, place>> ELSE parse_next(tok)
      [] OTHER -> /\ tree' = Set(tree, place, Node("scalar", NotJson))
                  /\ UNCHANGED <<nodes, expect, place, outcome>>

\* One piece of the text; two literals side by side are one.
read_token(tok) ==
    /\ format = "json" /\ outcome = "reading"
    /\ IF rest # <<>> THEN tok = Head(rest) /\ rest' = Tail(rest)
       ELSE original = <<>> /\ Len(text) < MaxJsonTokens /\ UNCHANGED rest
    /\ text # <<>> /\ tok.t \in {"lit", "space"} => text[Len(text)].t # tok.t
    /\ text' = Append(text, tok)
    /\ CASE expect = "literal" -> parse_literal(tok)
         [] expect # "literal" /\ tok.t = "space" -> UNCHANGED <<tree, nodes, expect, place, outcome>>
         [] OTHER -> parse_at(tok)
    /\ UNCHANGED <<format, original, spec>>

\* The text is at its end, which throws inside a JSON value.
read_end ==
    /\ format \in {"yaml", "json"} /\ outcome = "reading" /\ rest = <<>>
    /\ outcome' = IF \/ format = "yaml" \/ expect = "end"
                     \/ expect = "literal" /\ nodes = <<>>
                  THEN "parsed" ELSE "error"
    /\ UNCHANGED <<format, text, jsonVars, tree, nodes, original, spec>>

-----------------------------------------------------------------------------
(* From the tree to the specification. *)

NumberTexts == {"neg", "zero", "one", "big", "nan"}  \* one: in (0, 1]; big: above 1
NotText == "?"          \* a node that is not a scalar, where a scalar is asked for

HasChild(t, p, k) == p \in DOMAIN t /\ t[p].kind = "map" /\ Append(p, Key(k)) \in DOMAIN t

\* optional_string(), optional_double() before the text is converted.
Optional(t, p, k, fallback) ==
    LET q == Append(p, Key(k))
    IN  IF ~HasChild(t, p, k) THEN fallback
        ELSE IF t[q].kind = "scalar" THEN t[q].scalar ELSE NotText

Below0(x) == x = "neg"                  \* x < 0, false of nan
UpTo0(x) == x \in {"neg", "zero"}       \* x <= 0, false of nan

Policies == {"highest_confidence", "nearest", "persistent_track"}
BehaviorKinds == {"hold", "search", "follow", "approach", "circle", "go_home", "land",
                  "go_home_land", "sequence"}
Frames == {"target_heading_frame", "world_local_frame", "drone_heading_frame", "camera_frame"}
Directions == {"clockwise", "counter_clockwise", "counterclockwise"}
CompletionActions == {"", "none", "hold", "go_home", "land", "go_home_land"}
Fallbacks == {"", "none", "hold_then_go_home", "search_then_go_home", "abort"}

\* parse_target_selector().
parse_target_selector(t) ==
    LET p == <<Key("target"), Key("selector")>>
        confidence == Optional(t, p, "confidence_min", "one")
        timeout == Optional(t, p, "reacquire_timeout_s", "big")
    IN  /\ HasChild(t, <<>>, "target") /\ HasChild(t, <<Key("target")>>, "selector")
        /\ Optional(t, p, "class", NotText) \notin {NotText, "unknown"}
        /\ Optional(t, p, "track_id", "") # NotText /\ Optional(t, p, "agent_id", "") # NotText
        /\ Optional(t, p, "policy", "highest_confidence") \in Policies
        /\ confidence \in NumberTexts /\ timeout \in NumberTexts
        /\ ~Below0(confidence) /\ confidence # "big" /\ ~Below0(timeout)

\* parse_altitude_profile().
parse_altitude_profile(t, p) ==
    LET hold == HasChild(t, p, "hold_height_m")
        height(k) == Optional(t, p, IF hold THEN "hold_height_m" ELSE k, NotText)
        duration == Optional(t, p, "duration_s", "zero")
    IN  /\ \A k \in {"start_height_m", "end_height_m"} :
              height(k) \in NumberTexts /\ ~Below0(height(k))
        /\ duration \in NumberTexts /\ ~Below0(duration)
        /\ Optional(t, p, "easing", "smoothstep") \in {"smoothstep", "linear"}

\* The initializers of BehaviorSpec.
Defaults ==
    [max_speed_mps |-> "one", max_vertical_speed_mps |-> "one", position_tolerance_m |-> "one",
     lost_target_timeout_s |-> "big", radius_m |-> "zero", altitude_offset_m |-> "zero",
     angular_speed_deg_s |-> "zero", orbit_count |-> "zero", stop_distance_m |-> "zero",
     duration_s |-> "zero"]

\* The numbers of a behavior; orbits stands in for an orbit_count that is not positive.
Numbers(t, p) ==
    [f \in DOMAIN Defaults |->
        LET x == Optional(t, p, f, Defaults[f])
        IN  IF f = "orbit_count" /\ UpTo0(x) THEN Optional(t, p, "orbits", x) ELSE x]

\* The checks of parse_behavior(), for every type and by type.
in_range(type, x) ==
    /\ ~UpTo0(x.max_speed_mps) /\ ~UpTo0(x.max_vertical_speed_mps)
    /\ ~Below0(x.position_tolerance_m) /\ ~Below0(x.lost_target_timeout_s)
    /\ ~Below0(x.orbit_count)
    /\ type = "circle" => ~UpTo0(x.radius_m) /\ ~UpTo0(x.angular_speed_deg_s)
    /\ type = "approach" => ~UpTo0(x.stop_distance_m)

\* parse_behavior(), for a behavior and its steps.
RECURSIVE parse_behavior(_, _)
parse_behavior(t, p) ==
    LET type == Optional(t, p, "type", NotText)
        x == Numbers(t, p)
        offset == Append(p, Key("relative_offset_m"))
        steps == Append(p, Key("steps"))
        count == IF steps \in DOMAIN t THEN Cardinality(Items(t, steps)) ELSE 0
        parsed == [i \in 1..count |-> parse_behavior(t, Append(steps, Item(i)))]
    IN  [ok |-> /\ type \in BehaviorKinds
                /\ Optional(t, p, "target_frame", "world_local_frame") \in Frames
                /\ Optional(t, p, "direction", "clockwise") \in Directions
                /\ \A k \in {"yaw_mode", "camera_pointing_mode"} : Optional(t, p, k, "") # NotText
                /\ HasChild(t, p, "relative_offset_m") =>
                      \A k \in {"x", "y", "z"} : Optional(t, offset, k, NotText) \in NumberTexts
                /\ HasChild(t, p, "altitude_profile") =>
                      parse_altitude_profile(t, Append(p, Key("altitude_profile")))
                /\ \A f \in DOMAIN x : x[f] \in NumberTexts
                /\ HasChild(t, p, "steps") => t[steps].kind = "sequence"
                /\ \A i \in 1..count : parsed[i].ok
                /\ in_range(type, x)
                /\ type = "follow" => HasChild(t, p, "relative_offset_m")
                /\ type = "sequence" => count > 0,
         type |-> type, x |-> x, steps |-> parsed]

\* parse_completion() and parse_fallback(): what is there must be in range.
parse_completion(t) ==
    LET p == <<Key("completion")>>  after == Optional(t, p, "after_s", "zero")
    IN  /\ after \in NumberTexts /\ ~Below0(after)
        /\ Optional(t, p, "then", "none") \in CompletionActions
parse_fallback(t) ==
    LET p == <<Key("fallback")>>
    IN  /\ Optional(t, p, "on_target_lost", "none") \in Fallbacks
        /\ \A k \in {"hold_s", "search_s"} :
              LET s == Optional(t, p, k, "big") IN s \in NumberTexts /\ ~Below0(s)

\* parse_behavior_spec_text() from the tree on.
parse_behavior_spec_text ==
    /\ format = "tree" /\ outcome = "parsed"
    /\ LET b == parse_behavior(tree, <<Key("behavior")>>)
           ok == /\ tree[<<>>].kind = "map" /\ HasChild(tree, <<>>, "behavior") /\ b.ok
                 /\ Optional(tree, <<Key("mission")>>, "name", "") # NotText
                 /\ parse_target_selector(tree) /\ parse_completion(tree) /\ parse_fallback(tree)
       IN  /\ outcome' = IF ok THEN "accepted" ELSE "rejected"
           /\ spec' = IF ok THEN b ELSE NoSpec
    /\ UNCHANGED <<format, text, jsonVars, tree, nodes, original>>

-----------------------------------------------------------------------------
\* A tree as a JSON text.
Token(t, v) == [t |-> t, v |-> v]
Joined(parts) ==
    LET join[i \in 0..Len(parts)] ==
            IF i = 0 THEN <<>>
            ELSE join[i - 1] \o (IF i = 1 THEN <<>> ELSE <<Token(",", "")>>) \o parts[i]
    IN  join[Len(parts)]
RECURSIVE JsonOf(_, _)
JsonOf(t, p) ==
    LET inner == Items(t, p)
        order == CHOOSE o \in [1..Cardinality(inner) -> inner] :
                    \A i, j \in DOMAIN o : i < j => o[i] # o[j] /\ o[i][Len(o[i])].item <= o[j][Len(o[j])].item
        entry(q) == <<Token("str", q[Len(q)].key), Token(":", "")>> \o JsonOf(t, q)
    IN  CASE t[p].kind = "scalar" -> <<Token("lit", t[p].scalar)>>
          [] t[p].kind = "map" ->
               <<Token("{", "")>> \o Joined([i \in DOMAIN order |-> entry(order[i])])
               \o <<Token("}", "")>>
          [] t[p].kind = "sequence" ->
               <<Token("[", "")>> \o Joined([i \in DOMAIN order |-> JsonOf(t, order[i])])
               \o <<Token("]", "")>>

\* The author writes the same document in the other format.
rewrite_as_json ==
    /\ format = "yaml" /\ outcome = "parsed"
    /\ \A p \in DOMAIN tree : tree[p].kind # "undefined"
    /\ format' = "json" /\ text' = <<>> /\ rest' = JsonOf(tree, <<>>)
    /\ original' = tree /\ tree' = <<>> /\ nodes' = <<>>
    /\ expect' = "value" /\ place' = <<>> /\ outcome' = "reading"
    /\ UNCHANGED spec

TextInit ==
    /\ text = <<>> /\ rest = <<>> /\ expect = "value" /\ place = <<>>
    /\ original = <<>> /\ spec = NoSpec
    /\ \/ /\ format = "yaml" /\ outcome = "reading"
          /\ tree = (<<>> :> Node("map", "")) /\ nodes = <<[indent |-> -1, node |-> <<>>]>>
       \/ /\ format = "json" /\ outcome = "reading" /\ tree = <<>> /\ nodes = <<>>
       \/ /\ format = "tree" /\ outcome = "parsed" /\ tree \in Documents /\ nodes = <<>>

TextNext ==
    \/ \E l \in YamlLines : read_line(l)
    \/ \E tok \in JsonTokens \cup {rest[i] : i \in DOMAIN rest} : read_token(tok)
    \/ read_end \/ rewrite_as_json \/ parse_behavior_spec_text

TextSpec == TextInit /\ [][TextNext]_textVars

-----------------------------------------------------------------------------
OpenPaths == {IF format = "yaml" THEN nodes[i].node ELSE nodes[i] : i \in DOMAIN nodes}

\* Every pointer of the reader's stack is to a node of the tree, each of which
\* hangs on another, and the indents of a YAML stack grow.
SpecTextTypeOK ==
    /\ outcome \in {"reading", "error", "parsed", "accepted", "rejected"}
    /\ OpenPaths \subseteq DOMAIN tree
    /\ \A p \in DOMAIN tree : p # <<>> => SubSeq(p, 1, Len(p) - 1) \in DOMAIN tree
    /\ format = "yaml" => \A i, j \in DOMAIN nodes : i < j => nodes[i].indent < nodes[j].indent

\* What indentation means, without a stack: a line belongs to the last node
\* opened before it that no line since has stood at the indent of, or left of.
KeyColumn(l) == l.indent + 1 + l.gap
RealLines == SelectSeq(text, LAMBDA l : l.shape # "blank")
Openers(i) ==
    LET l == RealLines[i]
        open(level) == IF l.shape = "item" THEN l.key # "" /\ (level = 1 \/ l.value = "")
                       ELSE level = 1 /\ l.value = ""
    IN  {[line |-> i, level |-> n, indent |-> IF n = 1 THEN l.indent ELSE KeyColumn(l)] :
            n \in {m \in 1..2 : open(m)}}
OpenAt(i) ==
    {o \in {[line |-> 0, level |-> 1, indent |-> -1]} \cup UNION {Openers(j) : j \in 1..(i - 1)} :
        \A m \in (o.line + 1)..i : RealLines[m].indent > o.indent}
Parent(i) ==
    CHOOSE o \in OpenAt(i) : \A q \in OpenAt(i) :
        q.line < o.line \/ (q.line = o.line /\ q.level <= o.level)
Own ==
    LET L == RealLines
        opened(o, p) == IF o.level = 1 THEN p ELSE Append(p, Key(L[o.line].key))
        own[i \in 0..Len(L)] ==
            LET above == opened(Parent(i), own[Parent(i).line])
                before == {j \in 1..(i - 1) : L[j].shape = "item" /\ Parent(j) = Parent(i)}
            IN  IF i = 0 THEN <<>>
                ELSE Append(above, IF L[i].shape = "key" THEN Key(L[i].key)
                                   ELSE Item(Cardinality(before) + 1))
    IN  own
Target(i) ==
    IF RealLines[i].shape = "item" /\ RealLines[i].key # ""
    THEN Append(Own[i], Key(RealLines[i].key)) ELSE Own[i]

\* Two lines under the same node, one of them an item, or an item under the root
\* or directly under an item.
Mixed ==
    \E i \in DOMAIN RealLines :
        /\ RealLines[i].shape = "item"
        /\ \/ Parent(i).line = 0
           \/ Parent(i).level = 1 /\ RealLines[Parent(i).line].shape = "item"
           \/ \E j \in DOMAIN RealLines : RealLines[j].shape = "key" /\ Parent(j) = Parent(i)

\* A line that stands no further in than the key of an item some lines above, and
\* further in than one space after the dash puts that key.
Misjudged ==
    \E i, j \in DOMAIN RealLines :
        LET l == RealLines[i]
        IN  /\ l.shape = "item" /\ l.key # "" /\ l.value = "" /\ i < j
            /\ RealLines[j].indent \in (l.indent + 3)..KeyColumn(l)

\* parse_yaml_subset(): a text that names no node twice is rejected only for what
\* it says, and otherwise every value is where the indentation puts it, unless more
\* than one space after a dash misled the reader about a line.
NestingIsIndentation ==
    (format = "yaml" /\ outcome \in {"parsed", "error"}) =>
        LET L == RealLines
            malformed == \E i \in DOMAIN L : L[i].shape = "malformed"
            valued == {i \in DOMAIN L : L[i].value # ""}
        IN  \/ malformed /\ outcome = "error"
            \/ ~malformed /\ Misjudged
            \/ ~malformed /\ \E i, j \in DOMAIN L : i # j /\ Target(i) = Target(j)
            \/ ~malformed /\ Mixed /\ outcome = "error"
            \/ /\ ~malformed /\ ~Mixed /\ outcome = "parsed"
               /\ {<<p, tree[p].scalar>> : p \in {q \in DOMAIN tree : tree[q].kind = "scalar"}}
                     = {<<Target(i), L[i].value>> : i \in valued}

\* The grammar of JSON, in which spaces mean nothing.
JsonText == SelectSeq(text, LAMBDA tok : tok.t # "space")
RECURSIVE IsValue(_)
RECURSIVE IsList(_, _)
IsEntry(s) == Len(s) > 2 /\ s[1].t = "str" /\ s[2].t = ":" /\ IsValue(SubSeq(s, 3, Len(s)))
IsList(s, map) ==
    LET one(r) == IF map THEN IsEntry(r) ELSE IsValue(r)
    IN  \/ one(s)
        \/ \E i \in DOMAIN s : /\ s[i].t = "," /\ one(SubSeq(s, 1, i - 1))
                              /\ IsList(SubSeq(s, i + 1, Len(s)), map)
IsValue(s) ==
    \/ Len(s) = 1 /\ s[1].t \in {"str", "lit"}
    \/ /\ Len(s) > 1
       /\ <<s[1].t, s[Len(s)].t>> \in {<<"{", "}">>, <<"[", "]">>}
       /\ Len(s) = 2 \/ IsList(SubSeq(s, 2, Len(s) - 1), s[1].t = "{")

\* JsonParser takes every JSON text, with each literal as it is written.  Of the
\* other texts it takes those in which a literal has swallowed what does not belong
\* to it, and the tree then holds a scalar that JSON does not have.
JsonIsRead ==
    (format = "json" /\ outcome \in {"parsed", "error"}) =>
        LET swallowed == \E p \in DOMAIN tree : tree[p] = Node("scalar", NotJson)
        IN  IF IsValue(JsonText) THEN outcome = "parsed" /\ ~swallowed
            ELSE outcome = "parsed" => swallowed

\* What a JSON parser is expected to do, and this one does not; no run checks it.
OnlyJsonIsRead == format = "json" /\ outcome = "parsed" => IsValue(JsonText)

\* The same document in YAML and in JSON gives the same tree.
FormatsAgree ==
    (format = "json" /\ original # <<>>) =>
        outcome # "error" /\ (outcome = "parsed" => tree = original)

RECURSIVE Flyable(_)
Flyable(b) ==
    LET positive(f) == b.x[f] \in {"one", "big", "nan"}
    IN  /\ positive("max_speed_mps") /\ positive("max_vertical_speed_mps")
        /\ b.type = "circle" => positive("radius_m") /\ positive("angular_speed_deg_s")
        /\ b.type = "approach" => positive("stop_distance_m")
        /\ b.type = "sequence" => b.steps # <<>>
        /\ \A i \in DOMAIN b.steps : Flyable(b.steps[i])

\* What the controller flies by: the speeds of an accepted behavior and of every
\* step below it are positive, a circle has a radius and turns, an approach stops
\* short, and a sequence has steps.  A number that is not one passes every bound.
AcceptedIsFlyable == outcome = "accepted" => Flyable(spec)

\* The defaults are valid: a target class and a behavior type that needs nothing
\* more make an accepted specification.
MinimalIsAccepted ==
    LET required == {<<>>, <<Key("target")>>, <<Key("target"), Key("selector")>>,
                     <<Key("target"), Key("selector"), Key("class")>>,
                     <<Key("behavior")>>, <<Key("behavior"), Key("type")>>}
    IN  (outcome = "rejected" /\ DOMAIN tree = required) =>
            \/ tree[<<Key("target"), Key("selector"), Key("class")>>].scalar = "unknown"
            \/ tree[<<Key("behavior"), Key("type")>>].scalar
                  \notin {"hold", "search", "go_home", "land", "go_home_land"}

=============================================================================
