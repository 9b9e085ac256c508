------------------------------- MODULE Config -------------------------------
(***************************************************************************)
(* parse_args (main.cpp) and load_config_file (utils/config_loader.cpp):  *)
(* two passes over the arguments, with the file loaded between them.      *)
(* An argument is a string; Numeric gives the integer that stoi, stoull   *)
(* and TOML read in the ones that hold an integer.                        *)
(***************************************************************************)
EXTENDS Integers, Sequences

CONSTANTS
    ArgLists,  \* argv without the program's name
    Numeric,   \* arguments that are integers: a function to Int
    Files,     \* readable TOML files: path -> the settings given -> argument
    SizeMod    \* 2 to the width of size_t

PortMod == 65536  \* uint16_t

NumberFields == {"port", "max_request_bytes", "idle_timeout_seconds",
                 "max_clients", "max_pending_write_bytes"}
TextFields   == {"aof_path", "log_level", "log_format", "requirepass"}
Fields       == NumberFields \cup TextFields \cup {"aof_enabled"}

NoPath == "no path"
NoPassword == ""

\* What the program's environment makes sure of.  NoPath stands for the empty
\* optional: it is no argument and names no file.
ASSUME InputsAssumption ==
    /\ SizeMod \in Nat \ {0}
    /\ ArgLists \subseteq Seq(STRING) /\ \A a \in ArgLists : \A n \in 1..Len(a) : a[n] # NoPath
    /\ NoPath \notin DOMAIN Files /\ \A p \in DOMAIN Files : DOMAIN Files[p] \subseteq Fields

VARIABLES
    args,  \* argv
    i,     \* the loop variable of the current pass
    step,  \* "find", "load", "apply"; "ok", "error" or "exit" at the end
    path,  \* config_path
    cfg    \* the Config built so far

configVars == <<args, i, step, path, cfg>>

Default ==
    [port |-> 6379, aof_enabled |-> TRUE, aof_path |-> "vortek.aof",
     log_level |-> "info", log_format |-> "plain", requirepass |-> NoPassword,
     max_request_bytes |-> 1048576, idle_timeout_seconds |-> 300,
     max_clients |-> 10000, max_pending_write_bytes |-> 1048576]

ConfigInit ==
    /\ args \in ArgLists
    /\ i = 1
    /\ step = "find"
    /\ path = NoPath
    /\ cfg = Default

(***************************************************************************)
(* Conversions: stoi and stoull throw on text, and the casts drop what    *)
(* does not fit; TOML's value<T>() is empty for another type.             *)
(***************************************************************************)
Reads(f, v) == \/ f \in TextFields
               \/ f \in NumberFields /\ v \in DOMAIN Numeric
               \/ f = "aof_enabled" /\ v \in {"true", "false"}

Convert(f, v) == CASE f = "port" -> Numeric[v] % PortMod
                   [] f \in NumberFields \ {"port"} -> Numeric[v] % SizeMod
                   [] f \in TextFields -> v
                   [] f = "aof_enabled" -> v = "true"

FieldOf(option) ==
    CASE option = "--port" -> "port"
      [] option = "--aof" -> "aof_path"
      [] option = "--requirepass" -> "requirepass"
      [] option = "--log-level" -> "log_level"
      [] option = "--log-format" -> "log_format"
      [] option = "--max-request-bytes" -> "max_request_bytes"
      [] option = "--idle-timeout-seconds" -> "idle_timeout_seconds"
      [] option = "--max-clients" -> "max_clients"
      [] option = "--max-pending-write-bytes" -> "max_pending_write_bytes"

ValueOptions == {"--port", "--aof", "--requirepass", "--log-level", "--log-format",
                 "--max-request-bytes", "--idle-timeout-seconds", "--max-clients",
                 "--max-pending-write-bytes"}

(***************************************************************************)
(* The first pass.                                                        *)
(***************************************************************************)
FindConfig ==
    /\ step = "find" /\ i <= Len(args)
    /\ IF args[i] = "--config" /\ i < Len(args)
       THEN path' = args[i + 1] /\ i' = i + 2
       ELSE path' = path /\ i' = i + 1
    /\ UNCHANGED <<args, step, cfg>>

Loaded(p) ==
    [f \in Fields |-> IF f \in DOMAIN Files[p] /\ Reads(f, Files[p][f])
                      THEN Convert(f, Files[p][f]) ELSE cfg[f]]

Load ==
    /\ step = "find" /\ i > Len(args)
    /\ \/ path = NoPath /\ step' = "apply" /\ UNCHANGED cfg
       \/ path \in DOMAIN Files /\ step' = "apply" /\ cfg' = Loaded(path)
       \/ path \notin DOMAIN Files \cup {NoPath} /\ step' = "error" /\ UNCHANGED cfg
    /\ i' = 1
    /\ UNCHANGED <<args, path>>

(***************************************************************************)
(* The second pass.                                                       *)
(***************************************************************************)
Applying == step = "apply" /\ i <= Len(args)

SkipConfig ==
    /\ Applying /\ args[i] = "--config"
    /\ i' = i + 2
    /\ UNCHANGED <<args, step, path, cfg>>

ApplyValueKeepsAof ==
    /\ Applying /\ args[i] \in ValueOptions
    /\ i < Len(args) /\ Reads(FieldOf(args[i]), args[i + 1])
    /\ cfg' = [cfg EXCEPT ![FieldOf(args[i])] = Convert(FieldOf(args[i]), args[i + 1])]
    /\ i' = i + 2
    /\ UNCHANGED <<args, step, path>>
ApplyValue ==
    /\ Applying /\ args[i] \in ValueOptions
    /\ i < Len(args) /\ Reads(FieldOf(args[i]), args[i + 1])
    /\ LET f == FieldOf(args[i])
           set == [cfg EXCEPT ![f] = Convert(f, args[i + 1])]
       IN  cfg' = IF f = "aof_path" THEN [set EXCEPT !.aof_enabled = TRUE] ELSE set
    /\ i' = i + 2
    /\ UNCHANGED <<args, step, path>>

NoAof ==
    /\ Applying /\ args[i] = "--no-aof"
    /\ cfg' = [cfg EXCEPT !.aof_enabled = FALSE]
    /\ i' = i + 1
    /\ UNCHANGED <<args, step, path>>

Help ==
    /\ Applying /\ args[i] \in {"--help", "-h"}
    /\ step' = "exit"
    /\ UNCHANGED <<args, i, path, cfg>>

\* need_next, a conversion or an unknown option throws.
Reject ==
    /\ Applying
    /\ \/ args[i] \in ValueOptions
          /\ (i < Len(args) => ~Reads(FieldOf(args[i]), args[i + 1]))
       \/ args[i] \notin ValueOptions \cup {"--config", "--no-aof", "--help", "-h"}
    /\ step' = "error"
    /\ UNCHANGED <<args, i, path, cfg>>

Return ==
    /\ step = "apply" /\ i > Len(args)
    /\ step' = "ok"
    /\ UNCHANGED <<args, i, path, cfg>>

ParseArgs == FindConfig \/ Load \/ SkipConfig \/ ApplyValue \/ NoAof \/ Help
             \/ Reject \/ Return

ConfigSpec == ConfigInit /\ [][ParseArgs]_configVars

(***************************************************************************)
(* Properties.                                                            *)
(***************************************************************************)
\* The positions of options in args: those that are not another's value.
TakesValue(a) == a \in ValueOptions \cup {"--config"}
OptionAt ==
    LET at[n \in 1..Len(args)] ==
            n = 1 \/ ~(at[n - 1] /\ TakesValue(args[n - 1]))
    IN  at

\* The options given that decide about field f, and the last of them.
Deciding(f) ==
    {n \in DOMAIN args :
        /\ OptionAt[n]
        /\ \/ args[n] \in ValueOptions /\ FieldOf(args[n]) = f
           \/ f = "aof_enabled" /\ args[n] \in {"--aof", "--no-aof"}}
LastOf(S) == CHOOSE n \in S : \A k \in S : k <= n

Given(f) == LET n == LastOf(Deciding(f))
            IN  IF f = "aof_enabled" THEN args[n] = "--aof" ELSE Convert(f, args[n + 1])

\* The files named by --config, in option position.
ConfigOptions == {n \in DOMAIN args : OptionAt[n] /\ args[n] = "--config" /\ n < Len(args)}
InFile(f) ==
    /\ ConfigOptions # {}
    /\ LET given == Files[args[LastOf(ConfigOptions) + 1]]
       IN  f \in DOMAIN given /\ Reads(f, given[f])

\* No file that can be read is named like an option.  Without this, --config
\* may be an option's value and the next option the name the first pass takes.
OrdinaryFiles == DOMAIN Files \cap (ValueOptions \cup {"--config", "--no-aof"}) = {}

\* Safety, of print_usage's last line, "CLI options override values from
\* --config": in every order of the arguments each setting is the last one
\* given on the command line, else the one of the file the last --config
\* names, else the default.  The first pass does not know which arguments are
\* other options' values, and still it finds that file.
CliOverrides ==
    step = "ok" =>
        \A f \in Fields :
            cfg[f] = IF Deciding(f) # {} THEN Given(f)
                     ELSE IF InFile(f)
                          THEN Convert(f, Files[args[LastOf(ConfigOptions) + 1]][f])
                          ELSE Default[f]

\* What the README says of --port <n>, "TCP port to listen on": the server
\* listens on the number given.  The cast to uint16_t drops its high bits.
PortAsGiven ==
    step = "ok" /\ Deciding("port") # {} =>
        cfg.port = Numeric[args[LastOf(Deciding("port")) + 1]]
=============================================================================
