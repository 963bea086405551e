-------------------------------- MODULE Replies --------------------------------
(***************************************************************************)
(* The way of one reply: the upstream writes it, PollAssistant             *)
(* (internal/upstream/client.go) fetches it from the history,              *)
(* extractToolCalls (internal/server/tools.go) takes the tool calls out,   *)
(* finalizeConversation records it, emitSyntheticStream or buildCompletion *)
(* (internal/server/handler.go) hands it to the client, and the client     *)
(* sends it back with its next request (internal/server/request.go).       *)
(*                                                                         *)
(* A text is a sequence of tokens: the pieces that the scanner tells       *)
(* apart.  Blanks are not tokens, and the arguments of a call are carried  *)
(* along: each side of a comparison puts them through normalizeArgs.  An   *)
(* object with calls has no other keys here: whatever it has beside them,  *)
(* a text in a key of its own for one, tools.go drops with the object      *)
(* (tools.go:118, 128, 157), and no property speaks of it.                 *)
(***************************************************************************)
EXTENDS Naturals, SequencesExt

CONSTANTS
    Segment,        \* what replies are put together from, see Tokens
    MaxSegments,    \* segments of a reply
    ChunkSize,      \* tokens that emitSyntheticStream puts in a frame
    Absent          \* JSON null

ASSUME SegmentAssumption ==
    Segment \subseteq {"word", "code", "call", "pair", "bare", "barePair",
                       "quoting", "unclosed", "mention"}
ASSUME SizeAssumption == MaxSegments \in Nat /\ ChunkSize \in Nat \ {0}

----------------------------------------------------------------------------
(* Texts. *)

\* "open" is ```tool_call, "ticks" any other ``` and "name" the word tool_call;
\* "call" is a whole JSON object with name and arguments, "pair" the object
\* {"tool_calls": [two of them]}; a call whose arguments contain ``` is a
\* "head", "ticks" and a "tail"; "half" is a pair cut off after its first call
\* and "stub" what is left of that without the call.
Token(kind, n) == [kind |-> kind, n |-> n]

Kind == {"word", "open", "ticks", "name", "call", "pair", "head", "tail", "half", "stub"}
Piece == [kind : Kind, n : 1..MaxSegments]
Text == Seq(Piece)

ASSUME AbsentAssumption == Absent \notin Text

\* The n-th segment of a reply.
Tokens(segment, n) ==
    LET T(kinds) == [k \in DOMAIN kinds |-> Token(kinds[k], n)]
    IN CASE segment = "word"     -> T(<<"word">>)
         [] segment = "code"     -> T(<<"ticks", "word", "ticks">>)
         [] segment = "call"     -> T(<<"open", "call", "ticks">>)
         [] segment = "pair"     -> T(<<"open", "pair", "ticks">>)
         [] segment = "bare"     -> T(<<"call">>)
         [] segment = "barePair" -> T(<<"pair">>)
         [] segment = "quoting"  -> T(<<"open", "head", "ticks", "tail", "ticks">>)
         [] segment = "unclosed" -> T(<<"open", "call">>)
         [] segment = "mention"  -> T(<<"open", "word">>)

TextOf(segments) == FlattenSeq([n \in DOMAIN segments |-> Tokens(segments[n], n)])

\* What the history may show of a text that is being written.
Cuts(text) ==
    {SubSeq(text, 1, k) : k \in 0..Len(text)}
    \cup {Append(SubSeq(text, 1, k - 1), Token("half", text[k].n)) :
            k \in {k \in DOMAIN text : text[k].kind = "pair"}}

----------------------------------------------------------------------------
(* tools.go. *)

\* The calls of an object; its other keys are dropped, and have no token.
CallsOf(t) ==
    CASE t.kind \in {"call", "head", "half"} -> << <<t.n, 1>> >>
      [] t.kind = "pair"                     -> << <<t.n, 1>>, <<t.n, 2>> >>
      [] OTHER                               -> << >>

\* parseCallBlock: one whole object and nothing else.
ParseBlock(block) ==
    IF Len(block) = 1 /\ block[1].kind \in {"call", "pair"} THEN CallsOf(block[1]) ELSE << >>

Found(calls, rest) == [calls |-> calls, rest |-> rest]

\* Variant: what stands before a block goes with it.
SpliceTail(text, i, j, replacement) == replacement \o SubSeq(text, j + 1, Len(text))

\* text with replacement for its tokens i to j.
Splice(text, i, j, replacement) ==
    SubSeq(text, 1, i - 1) \o replacement \o SubSeq(text, j + 1, Len(text))

\* The first token of these kinds from position n on, or 0.
NextOf(text, n, kinds) == SelectInSubSeq(text, n, Len(text), LAMBDA t : t.kind \in kinds)

\* Variant: the last block comes first.
FirstBlockLast(text) ==
    LET start == SelectLastInSeq(text, LAMBDA t : t.kind = "open")
        end == NextOf(text, start + 1, {"open", "ticks"})
    IN [from |-> start, to |-> end,
        calls |-> IF start = 0 \/ end = 0 THEN << >>
                  ELSE ParseBlock(SubSeq(text, start + 1, end - 1))]

\* The first fenced block: where it starts and ends, and its calls.  The next
\* ``` ends it, the one of another ```tool_call too.
FirstBlock(text) ==
    LET start == NextOf(text, 1, {"open"})
        end == NextOf(text, start + 1, {"open", "ticks"})
    IN [from |-> start, to |-> end,
        calls |-> IF start = 0 \/ end = 0 THEN << >>
                  ELSE ParseBlock(SubSeq(text, start + 1, end - 1))]

\* One turn of the loop over the blocks: nothing more is taken once the first
\* block cannot be parsed.
TakeBlock(found) ==
    LET block == FirstBlock(found.rest)
        fence == found.rest[block.to]
        left == IF fence.kind = "open" THEN <<Token("name", fence.n)>> ELSE << >>
    IN IF block.calls = << >> THEN found
       ELSE Found(found.calls \o block.calls,
                  Splice(found.rest, block.from, block.to, left))

\* Variant: only one block is taken.
FencedOnce(text) == TakeBlock(Found(<< >>, text))

\* The turns of the loop; each block takes more of the text than it leaves.
Turns(text) ==
    LET after[k \in 0..Len(text)] ==
            IF k = 0 THEN Found(<< >>, text) ELSE TakeBlock(after[k - 1])
    IN after

Fenced(text) == Turns(text)[Len(text)]

\* The first object with the key, as far as scanJSONObject finds its end: the
\* ``` inside a call do not stop the scan, and an object that was cut off has
\* no end, but those inside it may have.
Bare(text, kinds) ==
    LET at == NextOf(text, 1, kinds)
        ends == at > 0 /\ (text[at].kind = "head" => at + 2 <= Len(text))
        last == IF text[at].kind = "head" THEN at + 2 ELSE at
        left == IF text[at].kind = "half" THEN <<Token("stub", text[at].n)>> ELSE << >>
    IN IF ends THEN Found(CallsOf(text[at]), Splice(text, at, last, left))
       ELSE Found(<< >>, text)

\* extractToolCalls: the fenced blocks, else what has the key "tool_calls",
\* else what has the key "arguments".
ExtractToolCalls(text) ==
    LET fenced == Fenced(text)
        wrapped == Bare(text, {"pair"})
    IN IF fenced.calls # << >> THEN fenced
       ELSE IF wrapped.calls # << >> THEN wrapped
       ELSE Bare(text, {"call", "head", "half"})

----------------------------------------------------------------------------
(* To the client and back. *)

Message(content, calls) == [content |-> content, calls |-> calls]

\* Variant: the rest that fills no frame is forgotten.
ChunksFull(content) ==
    [k \in 1..(Len(content) \div ChunkSize) |->
        SubSeq(content, (k - 1) * ChunkSize + 1, k * ChunkSize)]

\* The frames of emitSyntheticStream.
Chunks(content) ==
    LET n == (Len(content) + ChunkSize - 1) \div ChunkSize
    IN [k \in 1..n |->
            SubSeq(content, (k - 1) * ChunkSize + 1, IF k < n THEN k * ChunkSize ELSE Len(content))]

Frame(type, body) == [type |-> type, body |-> body]

\* A call is two frames, of which only the first tells which call it is.
Stream(content, calls) ==
    [k \in DOMAIN Chunks(content) |-> Frame("content", Chunks(content)[k])]
    \o FlattenSeq([i \in DOMAIN calls |->
            <<Frame("begin", <<i, calls[i]>>), Frame("arguments", <<i, calls[i]>>)>>])

\* A delta on top of what a client has.
Joined(message, f) ==
    CASE f.type = "content"   -> [message EXCEPT !.content = @ \o f.body]
      [] f.type = "begin"     -> [message EXCEPT !.calls = Append(@, f.body[2])]
      [] f.type = "arguments" -> message

\* What a client makes of the frames, message.content being "" at first.
Assembled(frames) ==
    LET got[k \in 0..Len(frames)] ==
            IF k = 0 THEN Message(<< >>, << >>) ELSE Joined(got[k - 1], frames[k])
    IN got[Len(frames)]

\* buildCompletion: no content next to calls is null.
Completion(content, calls) ==
    Message(IF calls # << >> /\ content = << >> THEN Absent ELSE content, calls)

\* parseMessage and flattenContent: null is no text.
Parsed(message) ==
    Message(IF message.content = Absent THEN << >> ELSE message.content, message.calls)

----------------------------------------------------------------------------
VARIABLES
    reply,      \* the segments that the upstream is going to write
    tools,      \* toolsOn
    stream,     \* req.Stream
    pc,         \* where chatCompletions is
    text,       \* result.Content
    finish,     \* finish_reason
    content,    \* content and calls as they are handed on
    calls,
    recorded,   \* the message that finalizeConversation has hashed
    received    \* the message as the client has it

vars == <<reply, tools, stream, pc, text, finish, content, calls, recorded, received>>

Call == (1..MaxSegments) \X {1, 2}

TypeOK ==
    /\ reply \in Seq(Segment)
    /\ tools \in BOOLEAN /\ stream \in BOOLEAN
    /\ pc \in {"poll", "take", "record", "deliver", "delivered", "failed"}
    /\ text \in Text /\ content \in Text /\ calls \in Seq(Call)
    /\ finish \in {"stop", "length", "tool_calls"}
    /\ recorded \in [content : Text, calls : Seq(Call)]
    /\ received \in [content : Text \cup {Absent}, calls : Seq(Call)]

Init ==
    /\ reply \in BoundedSeq(Segment, MaxSegments)
    /\ tools \in BOOLEAN /\ stream \in BOOLEAN
    /\ pc = "poll"
    /\ text = << >> /\ finish = "stop"
    /\ content = << >> /\ calls = << >>
    /\ recorded = Message(<< >>, << >>) /\ received = Message(<< >>, << >>)

Goto(from, to) == pc = from /\ pc' = to

\* The history has an assistant item: it is taken as it is, finished or not.
PollReturns(shown, finished) ==
    /\ Goto("poll", "take")
    /\ finished => shown = TextOf(reply)
    /\ text' = shown
    /\ finish' = IF finished THEN "stop" ELSE "length"
    /\ UNCHANGED <<reply, tools, stream, content, calls, recorded, received>>

\* A status other than 0 and 1, a call that fails, or no item in time; what
\* becomes of the request then is in ChatDispatch.tla.
PollFails ==
    /\ Goto("poll", "failed")
    /\ UNCHANGED <<reply, tools, stream, text, finish, content, calls, recorded, received>>

\* Calls that were found make it finish "tool_calls", cut off or not.
TakeCalls ==
    /\ Goto("take", "record")
    /\ LET found == ExtractToolCalls(text)
       IN IF tools /\ found.calls # << >>
          THEN content' = found.rest /\ calls' = found.calls /\ finish' = "tool_calls"
          ELSE content' = text /\ UNCHANGED <<calls, finish>>
    /\ UNCHANGED <<reply, tools, stream, text, recorded, received>>

FinalizeConversation ==
    /\ Goto("record", "deliver")
    /\ recorded' = Message(content, calls)
    /\ UNCHANGED <<reply, tools, stream, text, finish, content, calls, received>>

Deliver ==
    /\ Goto("deliver", "delivered")
    /\ received' = IF stream THEN Assembled(Stream(content, calls)) ELSE Completion(content, calls)
    /\ UNCHANGED <<reply, tools, stream, text, finish, content, calls, recorded>>

Next ==
    \/ \E shown \in Cuts(TextOf(reply)), finished \in BOOLEAN : PollReturns(shown, finished)
    \/ PollFails \/ TakeCalls \/ FinalizeConversation \/ Deliver

Spec == Init /\ [][Next]_vars

----------------------------------------------------------------------------
(* Properties. *)

Taken == pc \in {"record", "deliver", "delivered"}

\* The reply keeps to the form that buildToolsPrompt asks for: each call in a
\* block of its own, and no ``` in its arguments.
Regular == \A n \in DOMAIN reply : reply[n] \in {"word", "code", "call", "pair"}

CallsIn(t) == FlattenSeq([k \in DOMAIN t |-> CallsOf(t[k])])

\* Of a whole reply in that form every call is made, in order, and all other
\* text is kept (tools.go:87-88: the calls, and the text without the blocks).
ToolCallsRead ==
    Taken /\ tools /\ Regular /\ text = TextOf(reply) =>
        /\ calls = CallsIn(text)
        /\ content = FlattenSeq([n \in DOMAIN reply |->
              IF reply[n] \in {"call", "pair"} THEN << >> ELSE Tokens(reply[n], n)])

\* Whatever the model writes, and however much of it is there: each object and
\* each word is either in the content or one of the calls, and only once; a
\* block that cannot be parsed is left for the reader (tools.go:107).
NothingLost ==
    Taken =>
        /\ \A t \in ToSet(text) : t.kind \in {"word", "call", "pair", "head", "tail"} =>
              LET kept == Cardinality({k \in DOMAIN content : content[k] = t})
                  first == Cardinality({i \in DOMAIN calls : calls[i] = <<t.n, 1>>})
                  made == IF t.kind = "word" THEN 0 ELSE first
              IN kept + made = Cardinality({k \in DOMAIN text : text[k] = t})
        /\ \A i, j \in DOMAIN calls : i < j => calls[i] # calls[j]

\* What the client sends back has the fingerprint that was recorded, so that
\* its next request goes on with the conversation (request.go:206-207:
\* "byte by byte").
EchoMatches == pc = "delivered" => Parsed(received) = recorded

\* A client that makes the calls of a reply that was fetched too early makes
\* none that the finished reply does not make, and skips none before them.
EarlyCallsStand ==
    Taken /\ tools /\ Regular => IsPrefix(calls, CallsIn(TextOf(reply)))

\* "until the assistant's message is there and finished=true" (client.go:520).
AnswerIsWhole == Taken => text = TextOf(reply)
=============================================================================
