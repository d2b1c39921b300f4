-------------------------- MODULE StreamTranslation --------------------------
(* The stream translators of src/providers: the frames of one upstream       *)
(* stream are turned into the events of the client's protocol.  Option       *)
(* "path" says which translator runs:                                        *)
(*   oa_an  openai_stream_to_anthropic     an_oa  anthropic_stream_to_openai *)
(*   oa_oa  openai_stream_passthrough      an_an  normalize_anthropic_stream *)
(* A translator is one task: it handles an upstream frame completely, and    *)
(* hands over all its events, before it reads the next one.  Text is a       *)
(* sequence of characters; tool arguments are sequences of the tokens "{",   *)
(* "}" and "x", where "x" stands for the members of an object.               *)
EXTENDS Naturals, FiniteSets, SequencesExt

CONSTANTS
    Options,      \* configurations [path, text, args, strict, usage]: which translator,
                  \* deduplication of text and of arguments, strict validation,
                  \* whether usage is asked for and reported
    Chunks,       \* chunks [content, calls, finish, error] of an OpenAI-compatible
                  \* upstream; a call has a name, arguments or both
    Events,       \* events [ev, index, data] of an Anthropic upstream
    Allowed,      \* tool names the request declares
    Schema,       \* argument objects the declared schema accepts
    MinCalls,     \* ToolResponsePolicy.minimum_calls
    MaxCalls,     \* ToolResponsePolicy.maximum_calls
    MaxFrames,    \* frames of one upstream stream
    None

VARIABLES
    opt,          \* the configuration of this stream
    st,           \* the translator's local variables
    out,          \* events handed to the client
    up,           \* upstream state of the StreamLifecycle
    phase,        \* "open", "ended" (returned), "aborted" (yielded an error item)
    frames,       \* frames read
    got           \* what the upstream sent: texts, tools in order, arguments, blocks

vars == <<opt, st, out, up, phase, frames, got>>

-----------------------------------------------------------------------------
(* Text and argument deduplication.                                          *)

Occurs(s, t) ==
    \E n \in 0..(Len(t) - Len(s)) : SubSeq(t, n + 1, n + Len(s)) = s

suffix_prefix_overlap(seen, content) ==
    Max({0} \cup {n \in 2..Len(content) : IsSuffix(SubSeq(content, 1, n), seen)})

Replayed(seen, content) ==
    \/ IsPrefix(content, seen)
    \/ IsSuffix(content, seen)
    \/ Len(content) >= 3 /\ Occurs(content, seen)

\* The part of content that is new, and what has been seen with it.
text_delta(seen, content, dedup) ==
    LET from(n) == SubSeq(content, n + 1, Len(content))
    IN  IF ~dedup THEN [delta |-> content, seen |-> seen \o content]
        ELSE IF content # <<>> /\ IsPrefix(seen, content)
             THEN [delta |-> from(Len(seen)), seen |-> content]
        ELSE IF Replayed(seen, content) THEN [delta |-> <<>>, seen |-> seen]
        ELSE LET new == from(suffix_prefix_overlap(seen, content))
             IN  [delta |-> new, seen |-> seen \o new]

Objects == {<<"{", "}">>, <<"{", "x", "}">>}

\* collect_complete_json_objects over several sources: the longest object.
best_complete_json_object(sources) ==
    LET found == {o \in Objects : \E s \in sources : Occurs(o, s)}
    IN  IF found = {} THEN None
        ELSE CHOOSE o \in found : \A p \in found : Len(p) <= Len(o)

-----------------------------------------------------------------------------
(* One tool call under construction.                                         *)

ToolState(index) ==
    [index |-> index, id |-> None, name |-> None, started |-> FALSE,
     seen |-> <<>>, raw |-> <<>>, pending |-> <<>>, all |-> <<>>]

ingest_tool_arguments(t, arguments) ==
    LET d == text_delta(t.seen, arguments, TRUE)
    IN  IF arguments = <<>> THEN t
        ELSE IF opt.args
        THEN [t EXCEPT !.all = @ \o arguments, !.raw = Append(@, arguments),
                       !.seen = d.seen, !.pending = @ \o d.delta]
        ELSE [t EXCEPT !.all = @ \o arguments, !.pending = @ \o arguments]

has_argument_data(t) == t.seen # <<>> \/ t.raw # <<>> \/ t.pending # <<>>

complete_arguments(t) ==
    best_complete_json_object({t.seen, t.pending, FlattenSeq(t.raw)} \cup ToSet(t.raw))

validate_name(name) == opt.strict => name \in Allowed

\* ToolResponsePolicy::parse_arguments; no arguments are the empty object.
parse_arguments(arguments) ==
    opt.strict => (IF arguments = <<>> THEN <<"{", "}">> ELSE arguments) \in Schema

validate_call_summary(count, finish) ==
    opt.strict =>
        /\ count \in MinCalls..MaxCalls
        /\ count > 0 <=> finish = "tool_calls"

DistinctIds(tools) ==
    opt.strict => \A i, j \in DOMAIN tools :
        tools[i].id # None /\ tools[i].id = tools[j].id => i = j

-----------------------------------------------------------------------------
(* openai_stream_to_anthropic.  A work record w carries the locals, the      *)
(* events so far and whether an error left the stream through "?".           *)

Starts == {"text_start", "tool_start"}

Ev(ev, index, data) == [ev |-> ev, index |-> index, data |-> data]

Emit(w, e) == [w EXCEPT !.out = Append(@, e)]

Locals ==
    [msg |-> FALSE, next |-> 0, text |-> None, seen |-> <<>>, tools |-> <<>>,
     blocks |-> <<>>, finish |-> None]

Work == [st |-> st, out |-> out, err |-> FALSE]

message_start_event(w) ==
    IF w.st.msg THEN w
    ELSE Emit([w EXCEPT !.st.msg = TRUE], Ev("message_start", None, <<>>))

start_tool_state(w, i) ==
    LET t == w.st.tools[i]
    IN  IF validate_name(t.name)
          THEN Emit([w EXCEPT !.st.tools[i].started = TRUE], Ev("tool_start", t.index, <<>>))
          ELSE [w EXCEPT !.err = TRUE]

pending_keeping_arguments(w, i) ==
    LET t == w.st.tools[i]
    IN  IF w.err \/ opt.args \/ t.pending = <<>> THEN w
        ELSE Emit(w, Ev("json_delta", t.index, t.pending))

pending_tool_arguments_event(w, i) ==
    LET t == w.st.tools[i]
    IN  IF w.err \/ opt.args \/ t.pending = <<>> THEN w
        ELSE Emit([w EXCEPT !.st.tools[i].pending = <<>>],
                  Ev("json_delta", t.index, t.pending))

\* One element of delta.tool_calls, or delta.function_call under its own key.
ToolCall(w, c) ==
    LET new == c.index \notin DOMAIN w.st.tools
        old == IF new THEN ToolState(w.st.next) ELSE w.st.tools[c.index]
        t   == ingest_tool_arguments(
                 [old EXCEPT !.id = IF c.id = None THEN @ ELSE c.id,
                             !.name = IF c.name = None THEN @ ELSE c.name], c.args)
        u   == [w EXCEPT !.st.next = IF new THEN @ + 1 ELSE @,
                         !.st.tools = (c.index :> t) @@ @]
    IN  IF w.err THEN w
        ELSE IF t.started THEN pending_tool_arguments_event(u, c.index)
        ELSE IF t.name # None
          THEN pending_tool_arguments_event(start_tool_state(u, c.index), c.index)
        ELSE u

TextNextIndex(w, d) ==
    LET new == w.st.text = None
        i   == IF new THEN w.st.next + 1 ELSE w.st.text
        u   == [w EXCEPT !.st.seen = d.seen, !.st.text = i,
                         !.st.next = IF new THEN @ + 1 ELSE @]
    IN  Emit(IF new THEN Emit(u, Ev("text_start", i, <<>>)) ELSE u,
             Ev("text_delta", i, d.delta))

Text(w, d) ==
    LET new == w.st.text = None
        i   == IF new THEN w.st.next ELSE w.st.text
        u   == [w EXCEPT !.st.seen = d.seen, !.st.text = i,
                         !.st.next = IF new THEN @ + 1 ELSE @]
    IN  Emit(IF new THEN Emit(u, Ev("text_start", i, <<>>)) ELSE u,
             Ev("text_delta", i, d.delta))

\* A choice of a chunk: content that adds nothing skips the rest of it.
Choice(w, c) ==
    LET u == [w EXCEPT !.st.finish = IF c.finish = None THEN @ ELSE c.finish]
        d == text_delta(w.st.seen, c.content, opt.text)
    IN  IF c.content = None THEN FoldLeft(ToolCall, u, c.calls)
        ELSE IF d.delta = <<>> THEN u
        ELSE FoldLeft(ToolCall, Text(u, d), c.calls)

\* What is delivered is what is validated.
Arguments(t) ==
    LET o == complete_arguments(t)
    IN  IF ~opt.args THEN t.all ELSE IF o = None THEN <<>> ELSE o

Validation(s) ==
    /\ \A i \in DOMAIN s.tools : /\ validate_name(s.tools[i].name)
                                 /\ parse_arguments(Arguments(s.tools[i]))
    /\ DistinctIds(s.tools)
    /\ validate_call_summary(Cardinality(DOMAIN s.tools), s.finish)

Stop(w, i) == Emit(w, Ev("block_stop", i, <<>>))

CloseTool(w, i) ==
    LET t == w.st.tools[i]
        o == complete_arguments(t)
        u == IF ~t.started /\ (t.name # None \/ has_argument_data(t))
               THEN start_tool_state(w, i) ELSE w
    IN  IF ~u.st.tools[i].started THEN u
        ELSE Stop(IF opt.args /\ o # None THEN Emit(u, Ev("json_delta", t.index, o))
                  ELSE pending_tool_arguments_event(u, i), t.index)

map_finish_reason(reason) ==
    CASE reason = "tool_calls" -> "tool_use"
      [] reason = "length"     -> "max_tokens"
      [] OTHER                 -> "end_turn"

ClosingToolsOnly(w) ==
    Emit(Emit(FoldLeft(CloseTool, w, SetToSortSeq(DOMAIN w.st.tools, <)),
              Ev("message_delta", None, map_finish_reason(w.st.finish))),
         Ev("message_stop", None, <<>>))

\* The events that end a successful stream.
Closing(w) ==
    LET text  == IF w.st.text = None THEN w ELSE Stop(w, w.st.text)
        tools == FoldLeft(CloseTool, text, SetToSortSeq(DOMAIN w.st.tools, <))
    IN  Emit(Emit(tools, Ev("message_delta", None, map_finish_reason(w.st.finish))),
             Ev("message_stop", None, <<>>))

-----------------------------------------------------------------------------
(* Ways a step may leave the translator.                                     *)

Continue(w) == /\ st' = w.st /\ out' = w.out
               /\ UNCHANGED <<opt, up, phase>>

\* mark_completed or mark_failed, the last event, and the return.
Return(w, mark) == /\ st' = w.st /\ out' = w.out
                   /\ up' = mark /\ phase' = "ended"
                   /\ UNCHANGED opt

Fail(w) == Return(Emit(w, Ev("error", None, <<>>)), "failed")

Abort(w) == /\ st' = w.st /\ out' = w.out
            /\ phase' = "aborted"
            /\ UNCHANGED <<opt, up>>

FinishUnvalidated(w) == Return(Closing(w), "completed")

\* After the loop of openai_stream_to_anthropic.
Finish(w) == IF Validation(w.st) THEN Return(Closing(w), "completed") ELSE Fail(w)

Read == /\ phase = "open" /\ frames < MaxFrames
        /\ frames' = frames + 1

-----------------------------------------------------------------------------
(* What the upstream sends, remembered to compare it with what is delivered. *)

Heard(g, index, args) ==
    [g EXCEPT !.order = IF Contains(@, index) THEN @ ELSE Append(@, index),
              !.args = (index :> Append(IF index \in DOMAIN @ THEN @[index] ELSE <<>>, args)) @@ @]

HeardChunk(c) ==
    FoldLeft(LAMBDA g, call : Heard(g, call.index, call.args),
             [got EXCEPT !.texts = IF c.content \in {None, <<>>} THEN @ ELSE Append(@, c.content)],
             c.calls)

HeardEvent(e) ==
    LET g == [got EXCEPT !.blocks =
                CASE e.ev = "text_start" -> (e.index :> "text") @@ @
                  [] e.ev = "tool_start" -> (e.index :> "tool") @@ @
                  [] e.ev = "block_stop" -> (e.index :> "closed") @@ @
                  [] OTHER               -> @]
    IN  CASE e.ev = "tool_start" -> Heard(g, e.index, <<>>)
          [] e.ev = "json_delta" -> Heard(g, e.index, e.data)
          [] e.ev = "text_delta" -> [g EXCEPT !.texts = Append(@, e.data)]
          [] OTHER               -> g

\* External: an Anthropic upstream opens a block once, and a delta or a stop
\* belongs to an open block of its kind.
Orderly(e) ==
    LET is(kinds) == e.index \in DOMAIN got.blocks /\ got.blocks[e.index] \in kinds
    IN  CASE e.ev \in Starts        -> e.index \notin DOMAIN got.blocks
          [] e.ev = "text_delta"    -> is({"text"})
          [] e.ev = "json_delta"    -> is({"tool"})
          [] e.ev = "block_stop"    -> is({"text", "tool"})
          [] OTHER                  -> TRUE

-----------------------------------------------------------------------------
(* Actions.                                                                  *)

OpenAiToAnthropic(c) ==
    /\ opt.path = "oa_an" /\ Read
    /\ got' = HeardChunk(c)
    /\ LET w == Choice(message_start_event(Work), c)
       IN  IF w.err THEN Abort(w)
           ELSE IF c.finish # None THEN Finish(w) ELSE Continue(w)

OpenAiPassthrough(c) ==
    /\ opt.path = "oa_oa" /\ Read
    /\ got' = HeardChunk(c)
    /\ LET w == [Work EXCEPT !.st.msg = TRUE]
       IN  IF c.error THEN Return(Emit(w, Ev("error", None, <<>>)), "failed")
           ELSE Continue(Emit([w EXCEPT !.st.finish = IF c.finish = None THEN @ ELSE c.finish],
                              Ev("chunk", None, <<>>)))

Role(w) == IF w.st.msg THEN w ELSE Emit([w EXCEPT !.st.msg = TRUE], Ev("role", None, <<>>))

\* tool_indexes.get(&block_index), the client's index of a tool block.
tool_index(e) == IF e.index \in DOMAIN st.tools THEN st.tools[e.index] ELSE 0

map_anthropic_stop_reason(reason) ==
    CASE reason = "max_tokens" -> "length"
      [] reason = "tool_use"   -> "tool_calls"
      [] OTHER                 -> "stop"

AnthropicToOpenAi(e) ==
    /\ opt.path = "an_oa" /\ Read /\ Orderly(e)
    /\ got' = HeardEvent(e)
    /\ CASE e.ev = "message_start" ->
              Continue(Emit([Work EXCEPT !.st.msg = TRUE], Ev("role", None, <<>>)))
         [] e.ev = "text_start" -> Continue(Role(Work))
         [] e.ev = "tool_start" ->
              Continue(Emit([Role(Work) EXCEPT !.st.tools = (e.index :> st.next) @@ @,
                                               !.st.next = @ + 1],
                            Ev("tool_start", st.next, <<>>)))
         [] e.ev = "text_delta" -> Continue(Emit(Work, Ev("text_delta", None, e.data)))
         [] e.ev = "json_delta" -> Continue(Emit(Work, Ev("json_delta", tool_index(e), e.data)))
         [] e.ev = "message_delta" ->
              Continue(Emit([Work EXCEPT !.st.finish = e.data],
                            Ev("finish", None, map_anthropic_stop_reason(e.data))))
         [] e.ev = "message_stop" ->
              LET w == IF st.finish # None THEN Work ELSE Emit(Work, Ev("finish", None, "stop"))
                  u == IF opt.usage THEN Emit(w, Ev("usage", None, <<>>)) ELSE w
              IN  Return(Emit(u, Ev("done", None, <<>>)), "completed")
         [] e.ev = "upstream_error" -> Fail(Work)
         [] OTHER -> Continue(Work)

NormalizeAnthropic(e) ==
    /\ opt.path = "an_an" /\ Read /\ Orderly(e)
    /\ got' = HeardEvent(e)
    /\ LET known == e.index \in DOMAIN st.blocks
           d == text_delta(st.blocks[e.index], e.data, TRUE)
       IN  CASE e.ev = "message_stop" -> Return(Emit(Work, e), "completed")
             [] e.ev = "text_start" ->
                  Continue(Emit([Work EXCEPT !.st.blocks = (e.index :> <<>>) @@ @], e))
             [] e.ev = "text_delta" /\ opt.text /\ known ->
                  LET w == [Work EXCEPT !.st.blocks[e.index] = d.seen]
                  IN  Continue(IF d.delta = <<>> THEN w ELSE Emit(w, [e EXCEPT !.data = d.delta]))
             [] e.ev = "block_stop" ->
                  Continue(Emit([Work EXCEPT !.st.blocks = Restrict(@, DOMAIN @ \ {e.index})], e))
             [] OTHER -> Continue(Emit(Work, e))

\* The line "[DONE]".
DoneLine ==
    /\ Read
    /\ UNCHANGED got
    /\ CASE opt.path = "oa_an" -> Finish(message_start_event(Work))
         [] opt.path = "oa_oa" -> IF st.msg THEN Return(Emit(Work, Ev("done", None, <<>>)), "completed")
                                  ELSE Fail(Work)
         [] opt.path = "an_oa" -> Continue(Work)
         [] opt.path = "an_an" -> Continue(Emit(Work, Ev("raw", None, <<>>)))

\* A line that is not JSON.
BadLine ==
    /\ Read
    /\ UNCHANGED got
    /\ IF opt.path = "an_an" THEN Continue(Emit(Work, Ev("raw", None, <<>>))) ELSE Fail(Work)


\* The frames end, or the transport reports an error (limit, timeout, reset).
\* A passed-through stream that has its finish_reason is complete without [DONE].
FramesEnd ==
    /\ phase = "open"
    /\ UNCHANGED <<got, frames>>
    /\ IF opt.path = "oa_oa" /\ st.finish # None
         THEN Return(Emit(Work, Ev("done", None, <<>>)), "completed")
         ELSE Fail(Work)

Init ==
    /\ opt \in Options
    /\ st = Locals
    /\ out = <<>> /\ up = "pending" /\ phase = "open" /\ frames = 0
    /\ got = [texts |-> <<>>, order |-> <<>>, args |-> <<>>, blocks |-> <<>>]

Next ==
    \/ \E c \in Chunks : OpenAiToAnthropic(c) \/ OpenAiPassthrough(c)
    \/ \E e \in Events : AnthropicToOpenAi(e) \/ NormalizeAnthropic(e)
    \/ DoneLine \/ BadLine \/ FramesEnd

Spec == Init /\ [][Next]_vars

-----------------------------------------------------------------------------
Terminators == {"message_stop", "done", "error"}

ToolIndexes ==
    SetToSortSeq({out[n].index : n \in {m \in DOMAIN out : out[m].ev = "tool_start"}}, <)

\* The client's index of the k-th tool: indexes are handed out in order of
\* appearance, except that an Anthropic upstream's own are kept.
ClientIndex(k) == IF opt.path = "an_an" THEN got.order[k] ELSE ToolIndexes[k]

Data(events) == FlattenSeq([n \in DOMAIN events |-> events[n].data])

DeliveredText == Data(SelectSeq(out, LAMBDA e : e.ev = "text_delta"))

DeliveredArgs(i) == Data(SelectSeq(out, LAMBDA e : e.ev = "json_delta" /\ e.index = i))

(* Types, and every block index the client sees was handed out.              *)
TypeOK ==
    /\ opt \in Options /\ frames \in 0..MaxFrames
    /\ up \in {"pending", "completed", "failed"} /\ phase \in {"open", "ended", "aborted"}
    /\ st.msg \in BOOLEAN /\ st.next \in Nat
    /\ opt.path \in {"oa_an", "an_oa"} =>
         \A n \in DOMAIN out : out[n].index \in {None} \cup 0..(st.next - 1)


(* The Anthropic events openai_stream_to_anthropic makes are well formed,    *)
(* however names, arguments and text of several calls are mixed: a block is  *)
(* started once, its deltas lie between its start and its stop, all blocks   *)
(* are stopped when the message is, and none when the stream fails.          *)
BlocksWellFormed ==
    opt.path = "oa_an" =>
        LET open(i, n) == {m \in 1..(n - 1) : out[m].ev \in Starts /\ out[m].index = i}
            stops(i)   == {m \in DOMAIN out : out[m].ev = "block_stop" /\ out[m].index = i}
        IN  /\ out # <<>> => out[1].ev \in {"message_start", "error"}
            /\ \A n \in DOMAIN out :
                 /\ out[n].ev = "message_start" => n = 1
                 /\ out[n].ev \in Starts =>
                      /\ open(out[n].index, n) = {}
                      /\ up = "completed" => Cardinality(stops(out[n].index)) = 1
                 /\ out[n].ev \in {"text_delta", "json_delta", "block_stop"} =>
                      /\ open(out[n].index, n) # {}
                      /\ \A m \in stops(out[n].index) : m >= n
                 /\ out[n].ev = "block_stop" => up = "completed"

(* When a stream completes, the client has every text and every argument     *)
(* fragment of the upstream, in order and in the right block.  With text     *)
(* deduplication this is said of cumulative upstreams, whose last text is    *)
(* the whole; with argument deduplication the client gets at least the       *)
(* object that the fragments, joined or the last one alone, spell.           *)
FragmentsDelivered ==
    phase = "ended" /\ up = "completed" /\ opt.path # "oa_oa" =>
        /\ IF ~opt.text THEN DeliveredText = FlattenSeq(got.texts)
           ELSE got.texts # <<>> /\ (\A n \in 2..Len(got.texts) : IsPrefix(got.texts[n-1], got.texts[n]))
                  => DeliveredText = Last(got.texts)
        /\ Len(ToolIndexes) = Len(got.order)
        /\ \A k \in DOMAIN got.order :
             LET sent == got.args[got.order[k]]
                 args == DeliveredArgs(ClientIndex(k))
             IN  IF ~opt.args THEN args = FlattenSeq(sent)
                 ELSE /\ args \in Objects \cup {<<>>}
                      /\ \A s \in {FlattenSeq(sent), Last(sent)} \cap Objects : Len(s) <= Len(args)

(* docs/TOOL_USE_COMPATIBILITY.md: strict validation covers the delivered    *)
(* aggregate.  No message is completed whose tool calls, as the client sees  *)
(* them, are invalid, too few, too many or at odds with the stop reason.     *)
StrictStopsAreValid ==
    opt.strict /\ (\E n \in DOMAIN out : out[n].ev = "message_stop") =>
        /\ Len(ToolIndexes) \in MinCalls..MaxCalls
        /\ \A k \in DOMAIN ToolIndexes : parse_arguments(DeliveredArgs(ToolIndexes[k]))
        /\ Len(ToolIndexes) > 0 <=> out[Len(out) - 1].data = "tool_use"
=============================================================================
