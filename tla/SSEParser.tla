----------------------------- MODULE SSEParser -----------------------------
(***************************************************************************)
(* createSSEParser and readEventStream of app/static/app.js: the body of a *)
(* streamed run arrives in chunks cut anywhere, and the page shows the     *)
(* events it finds in them.                                                *)
(*                                                                         *)
(* A symbol stands for what the parser tells apart: a line starting with   *)
(* "d" is a data field, one starting with "e" an event field, one starting *)
(* with ":" a comment; the rest of the line is its value.  Blanks inside a *)
(* line and the payload's JSON are left out, and so are characters of      *)
(* several bytes, which TextDecoder holds back.                            *)
(***************************************************************************)
EXTENDS Splitting, SequencesExt

CONSTANT Bodies   \* the bodies that may arrive

NL == "newline"
CR == "return"

BodySymbols == {"d", "e", ":", NL, CR}

ASSUME SSEAssumption == Bodies \subseteq Seq(BodySymbols)

VARIABLES
  body,     \* all that the server sends
  fed,      \* how many symbols of it were pushed
  buffer,   \* createSSEParser's buffer
  events,   \* what onEvent was called with
  flushed   \* the body is read to its end

sseVars == <<body, fed, buffer, events, flushed>>

-----------------------------------------------------------------------------
\* replace(/\r\n?/g, "\n"), symbol by symbol: a return becomes a newline,
\* and a newline right after it nothing.
Normalise(norm, symbol) ==
  [text   |-> IF symbol = NL /\ norm.return THEN norm.text
              ELSE Append(norm.text, IF symbol = CR THEN NL ELSE symbol),
   return |-> symbol = CR]

Normalised(text) == FoldLeft(Normalise, [text |-> <<>>, return |-> FALSE], text).text

StartsWith(symbol, line) == line # <<>> /\ Head(line) = symbol

\* dispatch's loop: the last event field names the event.
ReadField(frame, line) ==
  IF StartsWith("e", line) THEN [frame EXCEPT !.event = Tail(line)]
  ELSE IF StartsWith("d", line) THEN [frame EXCEPT !.data = Append(@, Tail(line))]
  ELSE frame

\* dispatch: the events, one or none, of a frame's lines.  Without a data
\* field there is none.
EventsOfFrame(lines) ==
  LET frame == FoldLeft(ReadField, [event |-> "message", data |-> <<>>], lines)
  IN  IF frame.data = <<>> THEN <<>> ELSE <<frame>>

NewLines(text) == {<<i, i>> : i \in {j \in 1..Len(text) : text[j] = NL}}

Dispatched(frame) == EventsOfFrame(Split(frame, NewLines(frame)))

\* push's loop: as long as there is an empty line, the frame before the first
\* one is cut off.  Read from left to right, that is wherever one is complete.
CutSymbol(cut, symbol) ==
  LET left == Append(cut.left, symbol)
      n == Len(left)
  IN  IF n > 1 /\ left[n - 1] = NL /\ left[n] = NL
      THEN [events |-> cut.events \o Dispatched(SubSeq(left, 1, n - 2)), left |-> <<>>]
      ELSE [cut EXCEPT !.left = left]

CutFrames(text) == FoldLeft(CutSymbol, [events |-> <<>>, left |-> <<>>], text)

\* Mutant: a return that ends a chunk is normalised with the rest of it.
PushAtOnce(held, chunk) == CutFrames(Normalised(held \o chunk))

\* push: a return that ends the chunk is held back until the next.
Push(held, chunk) ==
  LET text == held \o chunk
      n == Len(text)
      last == IF n > 0 /\ text[n] = CR THEN <<CR>> ELSE <<>>
      cut == CutFrames(Normalised(SubSeq(text, 1, n - Len(last))))
  IN  [events |-> cut.events, left |-> cut.left \o last]

-----------------------------------------------------------------------------
SSEInit ==
  /\ body \in Bodies
  /\ fed = 0 /\ buffer = <<>> /\ events = <<>> /\ flushed = FALSE

\* A chunk of any size is read.
Feed(size) ==
  LET pushed == Push(buffer, SubSeq(body, fed + 1, fed + size))
  IN  /\ fed + size <= Len(body)
      /\ fed' = fed + size
      /\ events' = events \o pushed.events
      /\ buffer' = pushed.left
      /\ UNCHANGED <<body, flushed>>

\* The stream is done: an empty chunk, then flush, which dispatches what is
\* left as one frame.
EndOfStream ==
  LET pushed == Push(buffer, <<>>)
  IN  /\ fed = Len(body) /\ ~flushed
      /\ events' = events \o pushed.events \o Dispatched(Normalised(pushed.left))
      /\ buffer' = <<>>
      /\ flushed' = TRUE
      /\ UNCHANGED <<body, fed>>

SSENext == (\E size \in 1..Len(body) : Feed(size)) \/ EndOfStream

SSESpec == SSEInit /\ [][SSENext]_sseVars

-----------------------------------------------------------------------------
\* The reference: what the format means, with all of a text at hand.

\* A line ends with a return and a newline, or with either alone.
LineEnds(text) ==
  LET at(i, symbol) == i \in 1..Len(text) /\ text[i] = symbol
  IN  {<<i, i + 1>> : i \in {j \in 1..Len(text) : at(j, CR) /\ at(j + 1, NL)}} \cup
      {<<i, i>> : i \in {j \in 1..Len(text) :
                           \/ at(j, CR) /\ ~at(j + 1, NL)
                           \/ at(j, NL) /\ ~at(j - 1, CR)}}

\* Line by line: an empty line completes the frame that the lines since the
\* last empty one make.
ReadLine(read, line) ==
  IF line = <<>>
  THEN [events |-> read.events \o EventsOfFrame(read.frame), frame |-> <<>>]
  ELSE [read EXCEPT !.frame = Append(@, line)]

Lines(text) == Split(text, LineEnds(text))

NoRead == [events |-> <<>>, frame |-> <<>>]

Read(lines) == FoldLeft(ReadLine, NoRead, lines)

\* What comes after the last line end is not a line yet, and what comes after
\* the last empty line is not a frame.
MeantEvents(text) == Read(Front(Lines(text))).events

\* What the format drops when a text ends there: the event, if any, of the
\* frame that no empty line has closed, its last line ended or not.
LeftOver(text) ==
  LET open == Read(Front(Lines(text))).frame
  IN  EventsOfFrame(Append(open, Last(Lines(text))))

\* "Network chunks do not respect frame boundaries": wherever the body is cut,
\* between the two symbols of a line end too, the events shown are those of
\* the frames complete in what arrived (a return that ends it may be half a
\* line end), and in the end those of the whole body and nothing else but what
\* flush adds (push, flush).  That it adds the frame left open is the code's
\* choice and not the format's: the comment on createSSEParser says that "only
\* complete frames are emitted", which is so until the body ends.
CutsDoNotMatter ==
  LET last == fed > 0 /\ body[fed] = CR
  IN  events = IF flushed THEN MeantEvents(body) \o LeftOver(body)
               ELSE MeantEvents(SubSeq(body, 1, IF last THEN fed - 1 ELSE fed))
=============================================================================
