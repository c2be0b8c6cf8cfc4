--------------------------- MODULE CommandSelection ---------------------------
(***************************************************************************)
(* Which commands a report runs: the configuration file and its validation *)
(* (cli/config.rs) and the options that override it (cli/mod.rs:1326-1341, *)
(* 1585-1629). A configuration is                                          *)
(*   [defaults : [profile, repetitions, baseline_rolling_n],               *)
(*    hostinfo : a sequence of names (empty when the table is absent),     *)
(*    profiles : a sequence of [name, commands : a sequence of names],     *)
(*    commands : a sequence of [name, command, pattern],                   *)
(* where `command` stands for the whole of a command and tells those of    *)
(* one name apart. The options are [profile, repetitions,                  *)
(* filter_commands], a filter being [prefix, name]; what is not given is   *)
(* Default.                                                                *)
(***************************************************************************)
EXTENDS Naturals, Sequences, SequencesExt, Positions

CONSTANT Default

(* An extraction pattern is compiled, and has the group its aggregate needs.  *)
Patterns == {"none", "with_val", "count_without_val"}

Names(config) == {c.name : c \in ToSet(config.commands)}

-------------------------------------------------------------------------------
(* Config::validate                                                          *)

(* Mutant: nobody looks whether the commands of the host information exist.  *)
ValidateHostInfoNot(config) == TRUE

ValidateHostInfo(config) == ToSet(config.hostinfo) \subseteq Names(config)

HasProfile(config, name) == \E p \in ToSet(config.profiles) : p.name = name

ValidateProfilesCommands(config) ==
    \A p \in ToSet(config.profiles) : ToSet(p.commands) \subseteq Names(config)

ValidateExtractPatterns(config) ==
    \A c \in ToSet(config.commands) : c.pattern \in Patterns

ValidateBaselineWindow(config) == config.defaults.baseline_rolling_n # 0

Validate(config) ==
    /\ ValidateHostInfo(config)
    /\ HasProfile(config, config.defaults.profile)
    /\ ValidateProfilesCommands(config)
    /\ ValidateExtractPatterns(config)
    /\ ValidateBaselineWindow(config)

-------------------------------------------------------------------------------
(* From names to commands                                                    *)

(* commands_as_map: collected into a HashMap, where the last of a name stays. *)
CommandOf(config, name) ==
    config.commands[CHOOSE i \in DOMAIN config.commands :
        /\ config.commands[i].name = name
        /\ \A j \in DOMAIN config.commands : config.commands[j].name = name => j <= i]

(* The first profile of the name.                                            *)
Profile(config, name) ==
    config.profiles[CHOOSE i \in DOMAIN config.profiles :
        /\ config.profiles[i].name = name
        /\ \A j \in DOMAIN config.profiles : config.profiles[j].name = name => i <= j]

(* Each name takes its command out of the map: a name that is listed again,   *)
(* or is unknown, gives nothing.                                              *)
TakenAt(config, names) ==
    {i \in DOMAIN names : /\ names[i] \in Names(config)
                          /\ \A j \in 1 .. i - 1 : names[j] # names[i]}

CommandNamesToCommands(config, names) ==
    LET taken == Pick(names, TakenAt(config, names))
    IN  [i \in DOMAIN taken |-> CommandOf(config, taken[i])]

CommandsForHostinfo(config) == CommandNamesToCommands(config, config.hostinfo)

(* Filters by their prefix; one without + or - is only warned about.         *)
Filtered(opt, prefix) == {f.name : f \in {g \in opt.filter_commands : g.prefix = prefix}}

ProfileName(opt, config) ==
    IF opt.profile = Default THEN config.defaults.profile ELSE opt.profile

Repetitions(opt, config) ==
    IF opt.repetitions = Default THEN config.defaults.repetitions ELSE opt.repetitions

(* The commands of the profile without those removed, and then every command  *)
(* of the configuration that is added, also when the profile has it already.  *)
CreateCommands(opt, config) ==
    LET all == config.commands
        ofProfile == CommandNamesToCommands(config, Profile(config, ProfileName(opt, config)).commands)
    IN  Pick(ofProfile, {i \in DOMAIN ofProfile : ofProfile[i].name \notin Filtered(opt, "-")}) \o
        Pick(all, {i \in DOMAIN all : all[i].name \in Filtered(opt, "+")})

(* validate() in main, profile() in create_commands.                         *)
Refused(opt, config) ==
    ~Validate(config) \/ ~HasProfile(config, ProfileName(opt, config))

===============================================================================
