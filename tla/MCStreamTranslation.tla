------------------------ MODULE MCStreamTranslation ------------------------
(* Small upstreams for StreamTranslation.                                    *)
EXTENDS StreamTranslation

Call(i, name, args) ==
    [index |-> i, id |-> IF name = None THEN None ELSE i, name |-> name, args |-> args]

Chunk(content, calls, finish) ==
    [content |-> content, calls |-> calls, finish |-> finish, error |-> FALSE]

Texts == {Chunk(<<"a">>, <<>>, None), Chunk(<<"a", "b">>, <<>>, None)}

\* The first call comes named, in pieces; the second gets its name last and
\* repeats the id; the undeclared third is a function_call, which has its own key.
Calls == {Chunk(None, <<Call(0, "f", <<>>)>>, None),
          Chunk(None, <<Call(0, None, <<"{", "x">>)>>, None),
          Chunk(None, <<Call(0, None, <<"}">>), Call(1, None, <<"{">>)>>, None),
          Chunk(None, <<[Call(1, "f", <<"}">>) EXCEPT !.id = 0]>>, None),
          Chunk(None, <<Call(9, "g", <<"{", "x", "}">>)>>, None)}

Ends == {Chunk(None, <<>>, "stop"), Chunk(None, <<>>, "tool_calls"),
         Chunk(None, <<Call(1, "f", <<"{", "x", "}">>)>>, "tool_calls")}

Faults == {[Chunk(None, <<>>, None) EXCEPT !.error = TRUE]}

SomeChunks == Texts \cup Calls \cup Ends \cup Faults

\* Text, possibly empty, and a tool call in one delta.
Mixed == {Chunk(<<>>, <<Call(0, "f", <<"{", "}">>)>>, None)}

MixedChunks == Ends \cup Mixed

Blocks == {0, 2}

SomeEvents ==
    {Ev("message_start", None, <<>>), Ev("text_start", 1, <<>>),
     Ev("text_delta", 1, <<"a">>), Ev("text_delta", 1, <<"a", "b">>),
     Ev("block_stop", 1, <<>>), Ev("message_delta", None, "tool_use"),
     Ev("message_stop", None, <<>>), Ev("upstream_error", None, <<>>), Ev("ping", None, <<>>)}
    \cup {Ev("tool_start", i, <<>>) : i \in Blocks}
    \cup {Ev("json_delta", i, a) : i \in Blocks, a \in {<<"{", "x">>, <<"}">>}}

Option(path, text, args, strict, usage) ==
    [path |-> path, text |-> text, args |-> args, strict |-> strict, usage |-> usage]

SomeOptions ==
    {Option("oa_an", t, a, s, FALSE) : t, a, s \in BOOLEAN}
    \cup {Option("oa_oa", FALSE, FALSE, FALSE, FALSE)}
    \cup {Option("an_oa", FALSE, FALSE, FALSE, u) : u \in BOOLEAN}
    \cup {Option("an_an", t, FALSE, FALSE, FALSE) : t \in BOOLEAN}

FullObject == {<<"{", "x", "}">>}

Declared == {"f"}
=============================================================================
