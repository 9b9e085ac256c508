------------------------------ MODULE MCConfig ------------------------------
(* Small instances of Config.                                              *)
EXTENDS Config, TLC, SequencesExt

Tokens == {"--config", "--port", "--aof", "--no-aof", "--help", "a.toml",
           "b.toml", "80", "70000"}

MCArgLists == BoundedSeq(Tokens, 5)

MCNumeric == ("80" :> 80) @@ ("70000" :> 70000) @@ ("-1" :> -1)

\* One file with numbers, a negative size and a switch, one with a setting of
\* the wrong type.
MCFiles ==
    ("a.toml" :> ("port" :> "80" @@ "max_clients" :> "-1" @@ "aof_enabled" :> "false"))
    @@ ("b.toml" :> ("port" :> "b.toml" @@ "aof_path" :> "b.toml"))
=============================================================================
