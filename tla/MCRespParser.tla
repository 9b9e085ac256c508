---------------------------- MODULE MCRespParser ----------------------------
(* Small instances of RespParser.                                          *)
EXTENDS RespParser

\* Payloads with a line end, a type byte, and more than nine bytes in them.
Leaves ==
    {NullValue, Simple(<<>>), Simple(<<"a", CR>>), Failure(<<"a">>),
     Integer(0), Integer(-12), BulkOf(<<>>), BulkOf(<<CR, LF>>),
     BulkOf(<<"$", "1">>), BulkOf([i \in 1..10 |-> "a"])}

Arrays ==
    {ArrayOf(<<>>)} \cup {ArrayOf(<<v>>) : v \in Leaves}
    \cup {ArrayOf(<<u, v>>) : u, v \in Leaves}
    \cup {ArrayOf(<<ArrayOf(<<u>>), v>>) : u, v \in Leaves}

MCMessages ==
    {<<v>> : v \in Leaves \cup Arrays} \cup {<<u, v, u>> : u, v \in Leaves}
    \cup {<<u, v>> : u \in Leaves, v \in Arrays}

\* Pieces of values, whole ones, and pieces that belong to none: a count that
\* no vector can hold, a number that is no int64_t.
Pieces ==
    {<<"*", "1", CR, LF>>, <<"*", "2", CR, LF>>, <<"$", "1", CR, LF>>,
     <<"$", "-", "1", CR, LF>>, <<"*", "-", "2", CR, LF>>, <<":", "1", "a", CR, LF>>,
     <<"*", "2", "5", CR, LF>>, <<":", "3", "1", CR, LF>>, <<"a", CR, LF>>,
     <<CR>>, <<"+", "a", CR, LF>>}

MCStreams ==
    {p \o q \o r \o s : p, q, r, s \in Pieces}
=============================================================================
