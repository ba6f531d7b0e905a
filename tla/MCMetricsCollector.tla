------------------------- MODULE MCMetricsCollector -------------------------
EXTENDS MetricsCollector

Message(segments) == [post |-> "message", detail |-> "", segments |-> segments]
Notice(detail)    == [post |-> "notice", detail |-> detail, segments |-> <<>>]

SmallEvents   == {Message(<<"text", "at">>), Notice("poke"), [Notice("") EXCEPT !.post = "unknown"]}
SmallPayloads == {<<"text", "at">>}

KeptOrDropped == {{"action", "reason"}}

Interchangeable == Permutations(Chats)
=============================================================================
