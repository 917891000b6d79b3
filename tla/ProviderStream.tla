---------------------------- MODULE ProviderStream ----------------------------
(***************************************************************************)
(* One round of the tool loop of internal/ai/chat as far as the reply goes: *)
(* the model talks, its frames reach decodeStream (decodeChunks) of one of *)
(* the four packages of internal/ai/provider, which sends deltas to        *)
(* runTurn, which puts the tool calls together again for the history the   *)
(* next request is encoded from.                                           *)
(*                                                                         *)
(* A frame that carries several things is as many frames.  The fragments   *)
(* of the arguments of a call are numbered.                                *)
(***************************************************************************)
EXTENDS Naturals, Sequences, FiniteSets

CONSTANTS Capacity,  \* of the channel of deltas (16 in the code)
          MaxCalls,  \* bound: tool calls of the reply
          MaxParts   \* bound: fragments of one call

VARIABLES
  provider,  \* whose package decodes
  asked,     \* what the model has asked for: fragments sent, and whether all were
  said,      \* it has said something
  ended,     \* why it ended: "", "done" or "max_tokens"
  counted,   \* it has told the tokens used
  ctx,       \* of the turn
  at,        \* decodeStream: "read", "check", "stop", "closed"
  headers,   \* the identity announced for each index
  stop,      \* the StopDelta being made
  pending,   \* deltas of the frame at hand, not sent yet
  deltas,    \* the channel
  acc,       \* runTurn's toolAcc
  text, final, \* the text and the StopDelta it has received
  request    \* the next request: "none", "sent" or "refused"

server == <<asked, said, ended, counted>>
consumer == <<acc, text, final, request>>
vars == <<provider, server, ctx, at, headers, stop, pending, deltas, consumer>>

Providers == {"anthropic", "bedrock", "openai", "ollama"}
Indices == 1..MaxCalls
Unnamed == 0

TextDelta == [kind |-> "text", index |-> 0, id |-> 0, part |-> 0]
ToolUseDelta(i, id, part) == [kind |-> "tool", index |-> i, id |-> id, part |-> part]
StopDelta(reason, err, usage) ==
  [kind |-> "stop", reason |-> reason, err |-> err, usage |-> usage]
NoStop == StopDelta("", FALSE, FALSE)
StopError == StopDelta("error", TRUE, FALSE)

Init ==
  /\ provider \in Providers
  /\ asked = <<>> /\ said = FALSE /\ ended = "" /\ counted = FALSE
  /\ ctx = "live"
  /\ at = "read"
  /\ headers = [i \in Indices |-> Unnamed]
  /\ stop = StopDelta("other", FALSE, FALSE)
  /\ pending = <<>> /\ deltas = <<>>
  /\ acc = [i \in Indices |-> [id |-> Unnamed, input |-> <<>>]]
  /\ text = FALSE /\ final = NoStop /\ request = "none"

Cancel ==
  /\ ctx = "live" /\ at # "closed"
  /\ ctx' = "done"
  /\ UNCHANGED <<provider, server, at, headers, stop, pending, deltas, consumer>>

-----------------------------------------------------------------------------
(* The frames, as they are decoded *)

Reads == at = "read" /\ pending = <<>>

\* Only OpenAI numbers the calls in every frame, so that theirs may alternate.
Open(i) ==
  /\ i \in DOMAIN asked /\ ~asked[i].whole
  /\ provider # "openai" => i = Len(asked)

DecodeText ==
  /\ Reads /\ ended = "" /\ ~said
  /\ said' = TRUE
  /\ pending' = <<TextDelta>>
  /\ UNCHANGED <<provider, asked, ended, counted, ctx, at, headers, stop, deltas, consumer>>

\* The first frame of a call. Ollama sends a call as a whole and gives it no
\* name of its own: tool-0, tool-1. OpenAI may send a fragment with it.
DecodeCall ==
  /\ Reads /\ ended = "" /\ Len(asked) < MaxCalls
  /\ provider # "openai" => \A i \in DOMAIN asked : asked[i].whole
  /\ LET i == Len(asked) + 1
         announced == ToolUseDelta(i, i, 0)
         With(parts, whole) ==
           /\ asked' = Append(asked, [parts |-> parts, whole |-> whole])
           /\ pending' = IF parts = 0 THEN <<announced>>
                         ELSE <<announced, ToolUseDelta(i, i, 1)>>
     IN /\ headers' = [headers EXCEPT ![i] = i]
        /\ \/ provider = "ollama" /\ With(1, TRUE)
           \/ provider = "openai" /\ \E whole \in BOOLEAN : With(1, whole)
           \/ provider # "ollama" /\ With(0, FALSE)
  /\ UNCHANGED <<provider, said, ended, counted, ctx, at, stop, deltas, consumer>>

\* As Fragment, but for the call announced last.
FragmentOfLast(i) == ToolUseDelta(Len(asked), headers[Len(asked)], asked[i].parts + 1)

\* A fragment is of the call of its index and carries the identity announced.
Fragment(i) == ToolUseDelta(i, headers[i], asked[i].parts + 1)

DecodePart(i) ==
  /\ Reads /\ ended = "" /\ Open(i)
  /\ asked[i].parts < MaxParts
  /\ \E whole \in BOOLEAN :
       asked' = [asked EXCEPT ![i] = [parts |-> @.parts + 1, whole |-> whole]]
  /\ pending' = IF headers[i] = Unnamed THEN <<>> ELSE <<Fragment(i)>>
  /\ UNCHANGED <<provider, said, ended, counted, ctx, at, headers, stop, deltas, consumer>>

\* Why the model ends: it has said it all, or the tokens it may use are used up,
\* in the middle of a call or not. Anthropic, Bedrock and Ollama tell the tokens
\* in the same frame, and Ollama's is the last.
DecodeReason(reason) ==
  /\ Reads /\ ended = ""
  /\ reason = "done" => \A i \in DOMAIN asked : asked[i].whole
  /\ ended' = reason
  /\ counted' \in IF provider = "openai" THEN {FALSE} ELSE BOOLEAN
  /\ stop' = [stop EXCEPT !.reason = reason, !.usage = counted']
  /\ at' = IF provider = "ollama" THEN "check" ELSE "read"
  /\ UNCHANGED <<provider, asked, said, ctx, headers, pending, deltas, consumer>>

\* OpenAI's frame without a choice.
DecodeUsage ==
  /\ Reads /\ provider = "openai" /\ ended # "" /\ ~counted
  /\ counted' = TRUE
  /\ stop' = [stop EXCEPT !.usage = TRUE]
  /\ UNCHANGED <<provider, asked, said, ended, ctx, at, headers, pending, deltas, consumer>>

StopWith(final_) ==
  /\ stop' = final_
  /\ at' = "check"
  /\ UNCHANGED <<provider, server, ctx, headers, pending, deltas, consumer>>

\* message_stop, or [DONE].
DecodeEnd == Reads /\ provider # "ollama" /\ ended # "" /\ StopWith(stop)

\* An error of the server has a frame for Anthropic and Bedrock only; for the
\* others it is one with nothing in it. One that is no JSON is for everybody.
DecodeError == Reads /\ provider \in {"anthropic", "bedrock"} /\ StopWith(StopError)

DecodeGarbage == Reads /\ StopWith(StopError)

\* The connection breaks, or the request goes down with its context.
BodyFails == Reads /\ StopWith(StopError)

\* The body ends before its time, in good order.
BodyEnds == Reads /\ StopWith(stop)

\* A send of a delta does not look at the context.
Send ==
  /\ pending # <<>>
  /\ Len(deltas) < Capacity
  /\ deltas' = Append(deltas, Head(pending))
  /\ pending' = Tail(pending)
  /\ UNCHANGED <<provider, server, ctx, at, headers, stop, consumer>>

-----------------------------------------------------------------------------
(* The deferred calls *)

CheckContext ==
  /\ at = "check" /\ pending = <<>>
  /\ stop' = IF ctx = "done" /\ ~stop.err THEN StopError ELSE stop
  /\ at' = "stop"
  /\ UNCHANGED <<provider, server, ctx, headers, pending, deltas, consumer>>

EmitStop ==
  /\ at = "stop"
  /\ \/ Len(deltas) < Capacity /\ deltas' = Append(deltas, stop)
     \/ ctx = "done" /\ UNCHANGED deltas
  /\ at' = "closed"
  /\ UNCHANGED <<provider, server, ctx, headers, stop, pending, consumer>>

-----------------------------------------------------------------------------
(* runTurn *)

Receive ==
  /\ deltas # <<>>
  /\ deltas' = Tail(deltas)
  /\ LET d == Head(deltas)
     IN \/ d.kind = "text" /\ text' = TRUE /\ UNCHANGED <<acc, final>>
        \/ /\ d.kind = "tool"
           /\ acc' = [acc EXCEPT ![d.index] =
                        [id |-> IF d.id = Unnamed THEN @.id ELSE d.id,
                         input |-> IF d.part = 0 THEN @.input ELSE Append(@.input, d.part)]]
           /\ UNCHANGED <<text, final>>
        \/ d.kind = "stop" /\ final' = d /\ UNCHANGED <<acc, text>>
  /\ UNCHANGED <<provider, server, ctx, at, headers, stop, pending, request>>

Over == at = "closed" /\ deltas = <<>>

\* A reply is taken for complete unless a StopDelta came with an error.
Taken == Over /\ ~final.err

\* finalizeToolUses.
ToolUses == {i \in Indices : acc[i].id # Unnamed}

\* The arguments are JSON: all of the fragments, or none, which makes them {}.
Parses(i) ==
  acc[i].input = <<>> \/ (asked[i].whole /\ acc[i].input = [k \in 1..asked[i].parts |-> k])

\* encodeRequest marshals the calls of the history as JSON; OpenAI's go as text.
NextRequest ==
  /\ Taken /\ ToolUses # {} /\ request = "none"
  /\ request' = IF provider = "openai" \/ \A i \in ToolUses : Parses(i)
                THEN "sent" ELSE "refused"
  /\ UNCHANGED <<provider, server, ctx, at, headers, stop, pending, deltas, acc, text, final>>

Decode ==
  \/ DecodeText \/ DecodeCall \/ DecodeUsage \/ DecodeEnd \/ DecodeError \/ DecodeGarbage
  \/ BodyFails \/ BodyEnds
  \/ \E i \in Indices : DecodePart(i)
  \/ \E reason \in {"done", "max_tokens"} : DecodeReason(reason)

Next == Cancel \/ Decode \/ Send \/ CheckContext \/ EmitStop \/ Receive \/ NextRequest

Spec == Init /\ [][Next]_vars

-----------------------------------------------------------------------------
\* When the model has said all it has to say and runTurn is told so, it has the
\* text, every call with its own arguments, in order and to the last fragment,
\* and the tokens, and can ask on (provider.go:142-157). Short of that a call it
\* has is a call of the model, with the beginning of its arguments.
ReplyIsTheModels ==
  /\ \A i \in ToolUses :
       /\ i \in DOMAIN asked /\ acc[i].id = i
       /\ \E n \in 0..asked[i].parts : acc[i].input = [k \in 1..n |-> k]
  /\ Over /\ final.reason = "done" =>
       /\ text = said /\ final.usage = counted
       /\ ToolUses = DOMAIN asked
       /\ \A i \in ToolUses : Len(acc[i].input) = asked[i].parts
       /\ request # "refused"
===============================================================================
