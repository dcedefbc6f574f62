--------------------------- MODULE UsageObserver ---------------------------
(***************************************************************************)
(* The tail of Handler.finish: copyStream forwards a response to the       *)
(* client chunk by chunk while a usageObserver reads along, and what the   *)
(* observer made of it is added to the token counters.                     *)
(*                                                                         *)
(* A body is a sequence of bytes; where the chunks end is up to the        *)
(* network.  Which texts carry token counts, and which, is a constant: a   *)
(* line of an event stream or a whole JSON body either is one of those     *)
(* texts or yields nothing, be it a comment, "[DONE]", half a payload or   *)
(* no JSON at all.                                                         *)
(***************************************************************************)
EXTENDS Naturals, Sequences, FiniteSetsExt

CONSTANTS
  Byte,           \* the bytes bodies are made of
  NL,             \* the one that ends a line
  Counter,        \* "input", "output", ...: the fields of tokenUsage
  Payload,        \* a function: the texts that carry usage, and the usage they carry
  Body,           \* the bodies upstreams send, before they are compressed
  Opaque,         \* a byte of a compressed body
  maxUsageBuffer  \* the most bytes of a JSON body that are kept

ASSUME UsageAssumption ==
  /\ NL \in Byte /\ Opaque \notin Byte
  /\ Body \subseteq Seq(Byte)
  /\ DOMAIN Payload \subseteq Seq(Byte \ {NL})
  /\ \A text \in DOMAIN Payload : Payload[text] \in [Counter -> Nat]
  /\ maxUsageBuffer \in Nat

VARIABLES
  body,      \* what the upstream has to say
  encoded,   \* it says so compressed
  sse,       \* its Content-Type is text/event-stream
  pc,        \* where copyStream is
  read,      \* how many bytes it has read
  sent,      \* how many of them the client was written
  buf,       \* usageObserver.buf
  overflow,  \* usageObserver.overflow
  pending,   \* usageObserver.pending
  usage,     \* usageObserver.usage
  recorded   \* what recordUsage added to proem_tokens_total

observer == <<buf, overflow, pending, usage>>
vars     == <<body, encoded, sse, pc, read, sent, observer, recorded>>

Zero == [c \in Counter |-> 0]

Parsed(text) == IF text \in DOMAIN Payload THEN Payload[text] ELSE Zero

\* The lines of a text that are ended, and what stands after the last of them.
Ends(text) == {k \in DOMAIN text : text[k] = NL}

Gaps(text) ==
  {gap \in (Ends(text) \cup {0}) \X Ends(text) :
     gap[1] < gap[2] /\ \A i \in Ends(text) : i <= gap[1] \/ gap[2] <= i}

Lines(text) == {SubSeq(text, gap[1] + 1, gap[2] - 1) : gap \in Gaps(text)}

Rest(text) == SubSeq(text, Max(Ends(text) \cup {0}) + 1, Len(text))

\* send hands the client's own Accept-Encoding on, so the transport leaves the answer
\* compressed as the client asked for it.
Wire == IF encoded THEN [k \in DOMAIN body |-> Opaque] ELSE body

Init ==
  /\ body \in Body
  /\ encoded \in BOOLEAN
  /\ sse \in BOOLEAN
  /\ pc = "read"
  /\ read = 0
  /\ sent = 0
  /\ buf = <<>>
  /\ overflow = FALSE
  /\ pending = <<>>
  /\ usage = Zero
  /\ recorded = Zero

-----------------------------------------------------------------------------
\* mergeUsage, over the lines of one chunk: each counter keeps its highest value.
MergeUsage(texts) ==
  [c \in Counter |-> Max({usage[c]} \cup {Parsed(text)[c] : text \in texts})]

\* Mutant of ConsumeStream: a line must lie within one chunk.
ConsumeStream_NoPending(chunk) ==
  /\ usage' = MergeUsage(Lines(chunk))
  /\ pending' = <<>>
  /\ UNCHANGED <<buf, overflow>>

\* consumeStream: whole lines are consumed, a partial one is kept for later.
ConsumeStream(chunk) ==
  /\ usage' = MergeUsage(Lines(pending \o chunk))
  /\ pending' = Rest(pending \o chunk)
  /\ UNCHANGED <<buf, overflow>>

\* Mutant of Accumulate: the chunk that fills the buffer is not reported as cut.
Accumulate_OffByOne(chunk) ==
  LET remaining == maxUsageBuffer - Len(buf)
  IN  /\ buf' = buf \o SubSeq(chunk, 1, Min({remaining, Len(chunk)}))
      /\ overflow' = (overflow \/ Len(chunk) > remaining + 1)
      /\ UNCHANGED <<pending, usage>>

\* Write for a JSON body: no more than maxUsageBuffer bytes are held.
Accumulate(chunk) ==
  LET remaining == maxUsageBuffer - Len(buf)
  IN  /\ buf' = buf \o SubSeq(chunk, 1, Min({remaining, Len(chunk)}))
      /\ overflow' = (overflow \/ Len(chunk) > remaining)
      /\ UNCHANGED <<pending, usage>>

Observe(chunk) == IF sse THEN ConsumeStream(chunk) ELSE Accumulate(chunk)

\* copyStream: the observer sees a chunk before the client does.
Read ==
  /\ pc = "read"
  /\ \E n \in read + 1 .. Len(body) :
       /\ read' = n
       /\ Observe(SubSeq(Wire, read + 1, n))
  /\ pc' = "write"
  /\ UNCHANGED <<body, encoded, sse, sent, recorded>>

\* The client takes the chunk.
Write ==
  /\ pc = "write"
  /\ sent' = read
  /\ pc' = "read"
  /\ UNCHANGED <<body, encoded, sse, read, observer, recorded>>

\* The client hung up: some of the chunk may have reached it.
WriteFails ==
  /\ pc = "write"
  /\ sent' \in sent .. read
  /\ pc' = "record"
  /\ UNCHANGED <<body, encoded, sse, read, observer, recorded>>

\* The body has ended, or the upstream broke it off.
ReadFails ==
  /\ pc = "read"
  /\ pc' = "record"
  /\ UNCHANGED <<body, encoded, sse, read, sent, observer, recorded>>

\* usageObserver.Result: a JSON body that was cut is not guessed at.
Result == IF sse THEN usage ELSE IF overflow THEN Zero ELSE Parsed(buf)

RecordUsage ==
  /\ pc = "record"
  /\ recorded' = Result
  /\ pc' = "done"
  /\ UNCHANGED <<body, encoded, sse, read, sent, observer>>

Done == pc = "done" /\ UNCHANGED vars

Next == Read \/ Write \/ WriteFails \/ ReadFails \/ RecordUsage \/ Done

Spec == Init /\ [][Next]_vars

-----------------------------------------------------------------------------
(***************************************************************************)
(* Properties                                                              *)
(***************************************************************************)

\* What the first n bytes of a text say, read in one piece: of a stream the highest
\* count any ended line gives, of a JSON body its envelope, if it is not too large.
Said(text, n) ==
  LET part == SubSeq(text, 1, n)
  IN  IF sse THEN [c \in Counter |-> Max({0} \cup {Parsed(l)[c] : l \in Lines(part)})]
      ELSE IF n <= maxUsageBuffer THEN Parsed(part) ELSE Zero

\* usageObserver.Write and Result: however the network cuts the body into chunks,
\* what is recorded is what the bytes that were read say, at the buffer's limit too.
ChunksDoNotMatter == pc = "done" => recorded = Said(Wire, read)

\* copyStream tees before it writes: tokens the client was told of in plain text are
\* counted, even if it hung up in the middle of the chunk that told it.
StreamedIsCounted ==
  pc = "done" /\ sse /\ ~encoded => \A c \in Counter : recorded[c] >= Said(body, sent)[c]

-----------------------------------------------------------------------------
(***************************************************************************)
(* What the documentation says and the code does not do.                   *)
(***************************************************************************)

\* "It reads a single JSON body and it reads an event stream.": the tokens of a body
\* that reached the client as a whole are counted, whatever shape the member returns.
EitherShapeIsCounted ==
  pc = "done" /\ sent = Len(body) => recorded = Said(body, Len(body))
=============================================================================
