---------------------------- MODULE MCConnection ----------------------------
(* Small instances of Connection.                                          *)
EXTENDS Connection

\* Commands before, with and after AUTH, unfinished commands and protocol
\* errors, up to three items in a chunk.
MixedChunks == {<<"auth">>, <<"badauth", "sub">>, <<"auth", "sub", "cmd">>,
                <<"part">>, <<"cmd", "part">>, <<"part", "part", "part">>,
                <<"cmd", "sub", "cmd">>, <<"bad", "cmd">>, <<"garbage", "cmd">>,
                <<"badsub", "cmd">>, <<"unsub", "throw">>}
=============================================================================
