--------------------------- MODULE Configuration ---------------------------
(***************************************************************************)
(* load_core_stack_app_config(): the files named on the command line, with *)
(* the files they include, are merged into one configuration; environment  *)
(* variables override provider names; names are checked and turned into    *)
(* providers.  A file is read when it is opened, so its lines are chosen   *)
(* then and are the same when a second include opens it again.             *)
(***************************************************************************)
EXTENDS Integers, SequencesExt

CONSTANTS
    Files,          \* configuration files
    Paths,          \* the files on the command line, in order
    Layouts,        \* the ways the files include each other
    Keys,           \* the keys looked at
    ValuesOf,       \* per key, the values a line or a variable may give it
    Defaults,       \* per key, its value before any file is read
    EvalKeys,       \* keys that name an optional provider to compare with
    EnvKeys,        \* keys an environment variable overrides
    MaxLines,       \* bound: keys one file, or the environment, sets
    Resolvable,     \* per key, the values the program can work with
    None            \* no value

Values == UNION {ValuesOf[k] : k \in Keys}

ASSUME ConfigAssumption ==
    /\ IsFiniteSet(Files) /\ Paths \in Seq(Files) /\ Paths # <<>>
    /\ Layouts \subseteq [Files -> Seq(Files)]
    /\ EnvKeys \subseteq Keys /\ EvalKeys \subseteq Keys /\ MaxLines \in Nat
    /\ Defaults \in [Keys -> Values]
    /\ \A k \in Keys : Defaults[k] \in ValuesOf[k] /\ None \notin ValuesOf[k]
    /\ None \notin [Keys -> Values \cup {None}]
    /\ \A k \in Keys : Resolvable[k] \subseteq ValuesOf[k]

VARIABLES
    loader,     \* what the loader is doing
    todo,       \* files of the command line still to be loaded
    layout,     \* include lines of the files
    own,        \* other lines of the files read so far
    stack,      \* loading_stack, with the includes each file has still to load
    config,     \* the configuration built so far
    env         \* the environment, None where a variable is not set

configVars == <<loader, todo, layout, own, stack, config, env>>

-----------------------------------------------------------------------------

\* The lines of one file that are not includes; None for a key it leaves alone.
Lines == [Keys -> Values \cup {None}]
FileLines == {l \in Lines : /\ \A k \in Keys : l[k] \in ValuesOf[k] \cup {None}
                            /\ Cardinality({k \in Keys : l[k] # None}) <= MaxLines}

Overlay(below, above) == [k \in Keys |-> IF above[k] = None THEN below[k] ELSE above[k]]
Unset == [k \in Keys |-> None]

Loading == {stack[i].file : i \in DOMAIN stack}

ConfigInit ==
    /\ loader = "load" /\ todo = Paths /\ stack = <<>>
    /\ layout \in Layouts
    /\ own = [f \in Files |-> None]
    /\ config = Defaults
    /\ env \in {e \in FileLines : \A k \in Keys \ EnvKeys : e[k] = None}

Fail == loader' = "failed" /\ UNCHANGED <<todo, layout, own, stack, config, env>>

\* The head of load_file_into_config(): refuse a file that is being loaded, read
\* the others in one go; rest is the stack below.
open_file(file, rest) ==
    IF file \in Loading THEN Fail
    ELSE \E lines \in IF own[file] = None THEN FileLines ELSE {own[file]} :
        /\ own' = [own EXCEPT ![file] = lines]
        /\ stack' = Append(rest, [file |-> file, inc |-> layout[file]])
        /\ UNCHANGED <<loader, todo, layout, config, env>>

\* The file cannot be opened, or a line has no ':', no key or no value.
open_throws ==
    /\ loader = "load" /\ todo # <<>>
    /\ stack # <<>> => stack[Len(stack)].inc # <<>>
    /\ Fail

load_path ==
    /\ loader = "load" /\ stack = <<>> /\ todo # <<>>
    /\ open_file(Head(todo), <<>>)

load_include ==
    /\ loader = "load" /\ stack # <<>> /\ stack[Len(stack)].inc # <<>>
    /\ LET top == stack[Len(stack)]
       IN open_file(Head(top.inc), [stack EXCEPT ![Len(stack)].inc = Tail(@)])

\* Mutant of apply_own_lines: a line does not override what an include set.
apply_own_lines_below ==
    /\ loader = "load" /\ stack # <<>> /\ stack[Len(stack)].inc = <<>>
    /\ LET lines == own[stack[Len(stack)].file]
       IN config' = [k \in Keys |-> IF lines[k] # None /\ config[k] = Defaults[k]
                                    THEN lines[k] ELSE config[k]]
    /\ stack' = SubSeq(stack, 1, Len(stack) - 1)
    /\ todo' = IF Len(stack) = 1 THEN Tail(todo) ELSE todo
    /\ UNCHANGED <<loader, layout, own, env>>

\* The tail of load_file_into_config(): the file's own lines, after its includes.
apply_own_lines ==
    /\ loader = "load" /\ stack # <<>> /\ stack[Len(stack)].inc = <<>>
    /\ config' = Overlay(config, own[stack[Len(stack)].file])
    /\ stack' = SubSeq(stack, 1, Len(stack) - 1)
    /\ todo' = IF Len(stack) = 1 THEN Tail(todo) ELSE todo
    /\ UNCHANGED <<loader, layout, own, env>>

\* apply_config_value() meets a key nobody knows (an unknown mission option is
\* only reported), a malformed number or a malformed binding.
apply_throws ==
    /\ loader = "load" /\ stack # <<>> /\ stack[Len(stack)].inc = <<>>
    /\ Fail

apply_eval_env_overrides ==
    /\ loader = "load" /\ stack = <<>> /\ todo = <<>>
    /\ config' = Overlay(config, env)
    /\ loader' = "validate"
    /\ UNCHANGED <<todo, layout, own, stack, env>>

\* validate_config(): the ghost, occupancy, camera and depth settings agree.
validate_config(ok) ==
    /\ loader = "validate"
    /\ loader' = IF ok THEN "build" ELSE "failed"
    /\ UNCHANGED <<todo, layout, own, stack, config, env>>

\* build_depth_slots(): the depth providers are constructed, or throw because the
\* build or the model they need is not there.
build_depth_slots(ok) ==
    /\ loader = "build"
    /\ loader' = IF ok THEN "resolve" ELSE "failed"
    /\ UNCHANGED <<todo, layout, own, stack, config, env>>

\* Whether the registry knows the provider that each of the keys names.
resolve(keys) == \A k \in keys : config[k] \in Resolvable[k]

\* ProviderRegistry: the optional providers.
populate_runner_eval_slots ==
    /\ loader = "resolve"
    /\ loader' = IF resolve(EvalKeys) THEN "loaded" ELSE "failed"
    /\ UNCHANGED <<todo, layout, own, stack, config, env>>

ConfigNext ==
    \/ load_path \/ load_include \/ open_throws \/ apply_own_lines \/ apply_throws
    \/ apply_eval_env_overrides \/ populate_runner_eval_slots
    \/ \E ok \in BOOLEAN : validate_config(ok) \/ build_depth_slots(ok)

\* The loader runs by itself; nothing makes a file unreadable or a line wrong.
ConfigFairness ==
    WF_configVars(\/ load_path \/ load_include \/ apply_own_lines
                  \/ apply_eval_env_overrides \/ populate_runner_eval_slots
                  \/ \E ok \in BOOLEAN : validate_config(ok) \/ build_depth_slots(ok))

-----------------------------------------------------------------------------

\* What files say together, each what says has for it: of every key the last one
\* that sets it.
Together(says, files) ==
    [k \in Keys |->
        LET who == {i \in DOMAIN files : says[files[i]][k] # None}
        IN IF who = {} THEN None
           ELSE says[files[CHOOSE i \in who : \A j \in who : j <= i]][k]]

\* What a file with everything below it says, to a depth of d includes.
Said[d \in 0..Cardinality(Files)] ==
    [f \in Files |->
        IF d = 0 \/ own[f] = None THEN Unset
        ELSE Overlay(Together(Said[d - 1], layout[f]), own[f])]

\* Whatever the includes look like, and however often a file is included, the
\* configuration a load ends with is the one precedence defines: a variable before
\* the files, a later path before an earlier one, a file's own lines before its
\* includes, a later include before an earlier one, and the defaults last.
LaterSourceWins ==
    loader \in {"validate", "build", "resolve", "loaded"} =>
        LET all == Together(Said[Cardinality(Files)], Paths)
        IN config = Overlay(Overlay(Defaults, all), env)

\* Loading ends for every way the files can include each other, cycles and files
\* that include themselves among them.
LoadingEnds == (loader = "load") ~> (loader # "load")
=============================================================================
