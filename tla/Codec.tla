------------------------------- MODULE Codec -------------------------------
(***************************************************************************)
(* The line protocol of the publish/subscribe hub, codec.h parseMessage.   *)
(*                                                                         *)
(* A byte stream is a sequence of CRLF-terminated lines: a partial line    *)
(* makes findCRLF fail exactly as its absence does, so the line is the     *)
(* finest grain parseMessage can tell apart. Two lines make a publication  *)
(* ("pub <topic>", then the content), one line any other command.          *)
(***************************************************************************)
EXTENDS Filter, SequencesExt

CONSTANTS Topics,    \* names of topics
          Contents   \* what a publication may carry

\* A line with a command word in it, a content line, or a line no client of
\* the library writes: an unknown command word, or no space at all.
CommandLine == [k : {"sub", "unsub", "pub"}, t : Topics]
ContentLine == [k : {"text"}, x : Contents]
BadLine     == [k : {"unknown", "nospace"}]
Line        == CommandLine \cup ContentLine \cup BadLine

\* A whole request of a client: a topic, and a content if it publishes.
Request == [op : {"sub", "unsub"}, t : Topics]
             \cup [op : {"pub"}, t : Topics, x : Contents]

\* What PubSubClient writes for a request, in one send.
Encode(r) ==
    IF r.op = "pub"
    THEN << [k |-> "pub", t |-> r.t], [k |-> "text", x |-> r.x] >>
    ELSE << [k |-> r.op, t |-> r.t] >>

\* Does buffer buf start with a publication whose content has not arrived?
NeedsMore(buf) == \/ buf = << >>
                  \/ buf[1].k = "pub" /\ Len(buf) = 1

\* A content line in the place of a command has no space to split it at.
Malformed(buf) == buf # << >> /\ buf[1].k \in {"nospace", "text"}

\* A parser that takes a piece of a publication for an error.
ParseResultHasty(buf) ==
    CASE buf = << >>                   -> "kContinue"
      [] NeedsMore(buf) \/ Malformed(buf) -> "kError"
      [] OTHER                         -> "kSuccess"

ParseResult(buf) ==
    CASE NeedsMore(buf) -> "kContinue"
      [] Malformed(buf) -> "kError"
      [] OTHER          -> "kSuccess"

\* What a successful parse leaves in the buffer. kError and kContinue leave it
\* as it is.
Rest(buf) == SubSeq(buf, IF buf[1].k = "pub" THEN 3 ELSE 2, Len(buf))

-----------------------------------------------------------------------------
(* The reference reading of a stream: its requests, in order, up to a line  *)
(* without a space. A request whose content is missing at the end of the    *)
(* stream is not one yet.                                                   *)

IsRequestAt(s, i) ==
    /\ \/ s[i].k \in {"sub", "unsub"}
       \/ s[i].k = "pub" /\ i < Len(s)
    /\ \A j \in 1 .. i : s[j].k # "nospace"

RequestAt(s, i) ==
    IF s[i].k = "pub" THEN [op |-> "pub", t |-> s[i].t, x |-> s[i + 1].x]
                      ELSE [op |-> s[i].k, t |-> s[i].t]

NoRequest == [op |-> "none"]

Reading(s) == [i \in 1 .. Len(s) |-> IF IsRequestAt(s, i) THEN RequestAt(s, i) ELSE NoRequest]

Decode(s) == Keep(Reading(s), Request)

=============================================================================
