------------------------------ MODULE Gateway ------------------------------
(***************************************************************************)
(* One call of the gateway: the chain of providers that have a key, and the *)
(* stream of the one that is asked, from the bytes of the response to the   *)
(* turn (forge-llm's gateway.rs, sse.rs, anthropic.rs and openai.rs).       *)
(*                                                                         *)
(* A provider streams a script, a sequence of events.  The bytes of an      *)
(* event are its data and the blank line that ends it; data with a          *)
(* character of several bytes is kept as two, the others as one.  The       *)
(* content of a delta is its position in the script.                        *)
(***************************************************************************)
EXTENDS Naturals, FiniteSets, SequencesExt

CONSTANTS AnthropicScripts, OpenaiScripts,  \* what providers stream
          Framings                          \* "lf", "crlf": their line ends

Chain == <<"anthropic", "deepseek", "openai">>

\* An event: type, tool call it belongs to, whether it completes the JSON of a
\* tool's input, reason it stops for, whether its data has a wide character.
Event == [type : STRING, index : Nat, last : BOOLEAN, reason : STRING, wide : BOOLEAN]

Scripts(p) == IF p = "anthropic" THEN AnthropicScripts ELSE OpenaiScripts

\* The block of a turn that an event of Anthropic is about: the last that was
\* started, or none.
Starts(s) == {i \in 1..Len(s) : s[i].type \in {"block_text", "block_tool"}}
IsIn(s, x, i) == x \in Starts(s) /\ x < i /\ \A y \in Starts(s) : y < i => y <= x

\* Two pieces of the input of one tool.
SameInput(p, s, i, j) ==
  IF p = "anthropic" THEN \E x \in Starts(s) : IsIn(s, x, i) /\ IsIn(s, x, j)
                     ELSE s[i].index = s[j].index

\* What the APIs of the providers stream: an input is complete with its last
\* piece, and there is one reason to stop; Anthropic's deltas are of the block
\* that was started last, and OpenAI numbers the calls of tools from 0.
Streams(p, s) ==
  LET args == {i \in 1..Len(s) : s[i].type = "args"} IN
  /\ \A i \in args : s[i].last <=> \A j \in args : SameInput(p, s, i, j) => j <= i
  /\ \A i, j \in 1..Len(s) : s[i].type = "stop" /\ s[j].type = "stop" => i = j
  /\ \A i \in 1..Len(s) : s[i].type = "stop" => s[i].reason # "none"
  /\ IF p = "anthropic"
     THEN \A i \in 1..Len(s) : s[i].type \in {"text", "args"} =>
            \E x \in Starts(s) : IsIn(s, x, i) /\ (s[x].type = "block_text" <=> s[i].type = "text")
     ELSE \A i \in args : \A n \in 0..s[i].index : \E j \in args : s[j].index = n

ASSUME GatewayAssumption ==
  /\ \A p \in ToSet(Chain) : Scripts(p) \subseteq Seq(Event)
  /\ \A p \in ToSet(Chain) : \A s \in Scripts(p) : Streams(p, s)
  /\ Framings \subseteq {"lf", "crlf"}

VARIABLES stage,      \* "prepare", "request", "stream", "done"
          providers,  \* those with a key, in the order of the chain
          failures,   \* providers that failed
          script, framing,  \* what the current one streams
          at,         \* bytes of it that have been received
          buffer,     \* SseParser
          agg,        \* TurnAggregator
          shown,      \* deltas given to on_delta
          mark,       \* ghost: how many were shown before the current provider
          outcome     \* what the call returns
gatewayVars == <<stage, providers, failures, script, framing, at, buffer, agg, shown, mark, outcome>>

-----------------------------------------------------------------------------
(* Server-sent events *)

BlankLine(f) == IF f = "lf" THEN <<"LF", "LF">> ELSE <<"CR", "LF", "CR", "LF">>
Byte(i, part) == [event |-> i, part |-> part]
Data(s, i) == IF s[i].wide THEN <<Byte(i, "lead"), Byte(i, "rest")>> ELSE <<Byte(i, "all")>>
End(f)  == [i \in 1..Len(BlankLine(f)) |-> Byte(0, BlankLine(f)[i])]
Wire(s, f) == FlattenSeq([i \in 1..Len(s) |-> Data(s, i) \o End(f)])

\* from_utf8_lossy of a chunk: what is left of a character that the chunk
\* splits becomes a replacement character.
Decode(chunk) ==
  [i \in 1..Len(chunk) |->
     IF \/ chunk[i].part = "lead" /\ i = Len(chunk)
        \/ chunk[i].part = "rest" /\ i = 1
     THEN Byte(chunk[i].event, "bad") ELSE chunk[i]]

\* Where blocks of the text end: at a blank line of two line feeds.
BlockEnds(text) ==
  {i \in 2..Len(text) : text[i].part = "LF" /\ text[i - 1].part = "LF"}

\* Faulty: each chunk completes one block at most.
Rest_OneBlock(text) ==
  IF BlockEnds(text) = {} THEN text
  ELSE SubSeq(text, 1 + (CHOOSE i \in BlockEnds(text) :
                           \A j \in BlockEnds(text) : i <= j), Len(text))

Rest(text) ==
  IF BlockEnds(text) = {} THEN text
  ELSE SubSeq(text, 1 + (CHOOSE i \in BlockEnds(text) :
                           \A j \in BlockEnds(text) : j <= i), Len(text))

\* The numbers of a finite set in increasing order.
Sorted(S) ==
  [k \in 1..Cardinality(S) |-> CHOOSE i \in S : Cardinality({j \in S : j <= i}) = k]

\* The data of the blocks that text completes: the event of each, and whether
\* it is intact.
Blocks(text) ==
  LET ends == Sorted(BlockEnds(text))
      begin(k) == IF k = 1 THEN 1 ELSE ends[k - 1] + 1 IN
  [k \in 1..Cardinality(BlockEnds(text)) |->
     [at     |-> text[begin(k)].event,
      intact |-> \A i \in begin(k)..ends[k] : text[i].part # "bad"]]

-----------------------------------------------------------------------------
(* Aggregators *)

\* Blocks of the turn with the pieces of each, and the reason it stopped for.
Block(kind)  == [kind |-> kind, pieces |-> <<>>, whole |-> FALSE]
EmptyAgg     == [blocks |-> <<>>, text |-> <<>>, calls |-> <<>>, stop |-> "none"]

\* anthropic::TurnAggregator::handle.  Deltas go to the last block.
HandleAnthropic(a, e, piece) ==
  LET last == Len(a.blocks)
      add(kind) == IF last > 0 /\ a.blocks[last].kind = kind
                   THEN [a EXCEPT !.blocks[last].pieces = Append(@, piece),
                                  !.blocks[last].whole = e.last]
                   ELSE a IN
  CASE e.type = "block_text" -> [a EXCEPT !.blocks = Append(@, Block("text"))]
    [] e.type = "block_tool" -> [a EXCEPT !.blocks = Append(@, Block("tool"))]
    [] e.type = "text"       -> add("text")
    [] e.type = "args"       -> add("tool")
    [] e.type = "stop"       -> [a EXCEPT !.stop = e.reason]
    [] OTHER                 -> a

\* openai::TurnAggregator::handle.  Calls grow up to the index of the delta.
HandleOpenai(a, e, piece) ==
  LET n == IF Len(a.calls) > e.index THEN Len(a.calls) ELSE e.index + 1
      grown == [k \in 1..n |-> IF k <= Len(a.calls) THEN a.calls[k] ELSE Block("tool")] IN
  CASE e.type = "text" -> [a EXCEPT !.text = Append(@, piece)]
    [] e.type = "args" ->
         [a EXCEPT !.calls = [grown EXCEPT ![e.index + 1].pieces = Append(@, piece),
                                           ![e.index + 1].whole = e.last]]
    [] e.type = "stop" -> [a EXCEPT !.stop = e.reason]
    [] OTHER           -> a

\* Faulty: the part of an input that did arrive is kept.
Closed_KeepsPart(b) == [kind |-> b.kind, pieces |-> b.pieces]

\* The input of a tool whose JSON does not parse is an empty object; a stream
\* without a reason to stop ended its turn.
Closed(b) == [kind |-> b.kind,
              pieces |-> IF b.kind = "tool" /\ ~b.whole THEN <<>> ELSE b.pieces]
FinishTurn(p, a) ==
  LET blocks == IF p = "anthropic" THEN a.blocks
                ELSE (IF a.text = <<>> THEN <<>>
                      ELSE <<[Block("text") EXCEPT !.pieces = a.text]>>) \o a.calls IN
  [content |-> [k \in 1..Len(blocks) |-> Closed(blocks[k])],
   stop    |-> IF a.stop = "none" THEN "end_turn" ELSE a.stop]

-----------------------------------------------------------------------------
(* The call *)

Nothing == [content |-> <<>>, stop |-> "none"]

GatewayInit ==
  /\ stage = "prepare" /\ providers = <<>> /\ failures = <<>>
  /\ script = <<>> /\ framing = "lf" /\ at = 0 /\ buffer = <<>>
  /\ agg = EmptyAgg /\ shown = <<>> /\ mark = 0
  /\ outcome = [kind |-> "none", turn |-> Nothing]

streamVars == <<script, framing, at, buffer, agg, shown, mark>>

EndCall(kind, turn) ==
  stage' = "done" /\ outcome' = [kind |-> kind, turn |-> turn]

Available(keys) ==
  LET ranks == {i \in 1..Len(Chain) : Chain[i] \in keys} IN
  [k \in 1..Cardinality(ranks) |-> Chain[Sorted(ranks)[k]]]

\* The providers whose key is set; without any the command fails.
Prepare ==
  /\ stage = "prepare"
  /\ \E keys \in SUBSET ToSet(Chain) :
       /\ providers' = Available(keys)
       /\ IF keys = {} THEN EndCall("NoProvider", Nothing)
                       ELSE stage' = "request" /\ UNCHANGED outcome
  /\ UNCHANGED <<failures, streamVars>>

Current == providers[Len(failures) + 1]

\* Faulty: a failure is filed under the first provider.
NextProvider_FirstName ==
  /\ failures' = Append(failures, providers[1])
  /\ IF Len(failures) + 1 = Len(providers) THEN EndCall("AllFailed", Nothing)
     ELSE stage' = "request" /\ UNCHANGED outcome

\* Faulty: the last provider is never asked.
NextProvider_Early ==
  /\ failures' = Append(failures, Current)
  /\ IF Len(failures) + 2 >= Len(providers) THEN EndCall("AllFailed", Nothing)
     ELSE stage' = "request" /\ UNCHANGED outcome

\* A provider failed: the next one is asked, from the beginning.
NextProvider ==
  /\ failures' = Append(failures, Current)
  /\ IF Len(failures) + 1 = Len(providers) THEN EndCall("AllFailed", Nothing)
     ELSE stage' = "request" /\ UNCHANGED outcome

\* Faulty: one aggregator serves the whole chain.
NewReader_KeepsTurn == buffer' = <<>> /\ agg' = agg

NewReader == buffer' = <<>> /\ agg' = EmptyAgg

\* The request fails or is answered with an error, or a stream begins, with a
\* new parser and a new aggregator.
CallProvider ==
  /\ stage = "request"
  /\ \/ NextProvider /\ UNCHANGED streamVars
     \/ /\ stage' = "stream"
        /\ script' \in Scripts(Current) /\ framing' \in Framings
        /\ at' = 0 /\ NewReader
        /\ mark' = Len(shown)
        /\ UNCHANGED <<failures, shown, outcome>>
  /\ UNCHANGED providers

Piece(b) == <<b.at, b.intact>>
Handle(a, b) ==
  IF Current = "anthropic" THEN HandleAnthropic(a, script[b.at], Piece(b))
                           ELSE HandleOpenai(a, script[b.at], Piece(b))

\* Each event goes to the aggregator, and the text of a delta to the caller.
Read(blocks) ==
  LET f[k \in 0..Len(blocks)] ==
        IF k = 0 THEN [agg |-> agg, shown |-> shown]
        ELSE [agg   |-> Handle(f[k - 1].agg, blocks[k]),
              shown |-> IF script[blocks[k].at].type = "text"
                        THEN Append(f[k - 1].shown, Piece(blocks[k])) ELSE f[k - 1].shown]
  IN  f[Len(blocks)]

\* A chunk of any size arrives, with the events it completes.
Receive ==
  LET wire == Wire(script, framing) IN
  /\ stage = "stream" /\ at < Len(wire)
  /\ \E n \in at + 1..Len(wire) :
       LET text == buffer \o Decode(SubSeq(wire, at + 1, n))
           read == Read(Blocks(text)) IN
       /\ at' = n /\ buffer' = Rest(text)
       /\ agg' = read.agg /\ shown' = read.shown
  /\ UNCHANGED <<stage, providers, failures, script, framing, mark, outcome>>

\* The stream breaks.
Break ==
  /\ stage = "stream" /\ NextProvider
  /\ UNCHANGED <<providers, streamVars>>

\* The stream ends, at its end or before it: that cannot be told apart.
Close ==
  /\ stage = "stream"
  /\ EndCall("Ok", FinishTurn(Current, agg))
  /\ UNCHANGED <<providers, failures, streamVars>>

GatewayNext == Prepare \/ CallProvider \/ Receive \/ Break \/ Close
GatewaySpec == GatewayInit /\ [][GatewayNext]_gatewayVars

-----------------------------------------------------------------------------
(* Properties *)

GatewayTypeOK ==
  /\ stage \in {"prepare", "request", "stream", "done"}
  /\ \A k \in 1..Len(providers) : \A j \in 1..Len(providers) :
       k < j => \E a, b \in 1..3 : a < b /\ providers[k] = Chain[a] /\ providers[j] = Chain[b]
  /\ IsPrefix(failures, providers)
  /\ script \in {<<>>} \cup AnthropicScripts \cup OpenaiScripts
  /\ at \in 0..Len(Wire(script, framing))
  /\ Len(buffer) <= at /\ mark <= Len(shown)
  /\ outcome.kind \in {"none", "NoProvider", "AllFailed", "Ok"}

\* What a script says: the pieces of each block, by where they stand in it.
Says(p, s) ==
  LET of(type)  == {i \in 1..Len(s) : s[i].type = type}
      pieces(I) == [k \in 1..Cardinality(I) |-> <<Sorted(I)[k], TRUE>>]
      starts    == Sorted(Starts(s))
      block(k)  == [kind   |-> IF s[starts[k]].type = "block_text" THEN "text" ELSE "tool",
                    pieces |-> pieces({i \in of("text") \cup of("args") : IsIn(s, starts[k], i)})]
      indexes   == {s[i].index : i \in of("args")}
      call(k)   == [kind   |-> "tool",
                    pieces |-> pieces({i \in of("args") : s[i].index = Sorted(indexes)[k]})]
      text      == IF of("text") = {} THEN <<>>
                   ELSE <<[kind |-> "text", pieces |-> pieces(of("text"))]>> IN
  [content |-> IF p = "anthropic" THEN [k \in 1..Cardinality(Starts(s)) |-> block(k)]
               ELSE text \o [k \in 1..Cardinality(indexes) |-> call(k)],
   stop |-> IF of("stop") = {} THEN "end_turn" ELSE s[CHOOSE i \in of("stop") : TRUE].reason]

\* A stream that was received to its end is the turn its provider sent,
\* however its bytes were cut into chunks and whatever failed before it
\* ("Recebe bytes em pedaços arbitrários ... e emite eventos completos",
\* sse.rs:3-4).
WholeStreamIsTurn ==
  outcome.kind = "Ok" /\ at = Len(Wire(script, framing)) =>
    outcome.turn = Says(Current, script)

\* What the caller was shown since the current provider was asked is the text
\* of the turn as far as it goes, and nothing of the provider before
\* (on_delta, TurnAggregator::handle).
ShownIsTurn ==
  stage = "stream" \/ outcome.kind = "Ok" =>
    LET text(bs) == FlattenSeq([k \in 1..Len(bs) |-> IF bs[k].kind = "text"
                                                      THEN bs[k].pieces ELSE <<>>]) IN
    SubSeq(shown, mark + 1, Len(shown)) = text(FinishTurn(Current, agg).content)

\* A turn that a cut stream leaves never has half of a tool's input: it has
\* all of it or none (TurnAggregator::finish).
InputsAreWholeOrEmpty ==
  outcome.kind = "Ok" =>
    \A k \in 1..Len(outcome.turn.content) :
      LET b == outcome.turn.content[k] IN
      b.kind = "tool" /\ b.pieces # <<>> =>
        \E j \in 1..Len(Says(Current, script).content) :
          Says(Current, script).content[j] = b

\* The turn is of the first provider of the chain that did not fail, and the
\* call fails only when each has (Gateway::generate).
FirstThatAnswers ==
  stage = "done" =>
    CASE outcome.kind = "Ok"        -> Len(failures) < Len(providers)
      [] outcome.kind = "AllFailed" -> failures = providers /\ providers # <<>>
      [] OTHER                      -> providers = <<>>

\* What comes back of a call: of chunks of any size and streams that break,
\* Gateway::generate makes the whole turn of the first provider that answers, and no half
\* of a tool's input gets into it.
TurnIsOfProvider ==
  GatewayTypeOK /\ WholeStreamIsTurn /\ ShownIsTurn /\ InputsAreWholeOrEmpty /\ FirstThatAnswers

=============================================================================
