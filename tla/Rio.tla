-------------------------------- MODULE Rio --------------------------------
(***************************************************************************)
(* The robust reading and writing of csapp.c over one connection: read and *)
(* write hand over any part of what they are asked for. Bytes are "x" and  *)
(* the newline "n". A call that a signal interrupts is made again, which   *)
(* is no step here; any other error ends the process (unix_error).         *)
(*                                                                         *)
(* "headers" is the loop of read_requesthdrs and post_requesthdrs in web.c *)
(* over rio_readlineb; at the end of a stream without an empty line it     *)
(* goes round for ever.                                                    *)
(***************************************************************************)
EXTENDS Integers, Sequences, FiniteSetsExt

CONSTANTS Streams,   \* what the peer may send before it closes
          BufSize,   \* RIO_BUFSIZE
          Wants      \* the sizes asked for: maxlen of a line is at least 1

VARIABLES
    stream, at,   \* what the peer sends; how much of it read has returned
    buf,          \* the unread bytes of rio_buf
    op, want,     \* the call that runs, and its size
    got,          \* in the user's buffer
    wrote,        \* the positions of its data that write has taken
    taken, last   \* history: all bytes the program was given; the last call

vars == << stream, at, buf, op, want, got, wrote, taken, last >>

Buffered == {"readnb", "readlineb", "headers"}
Lines    == {"readlineb", "headers"}
NoCall   == [op |-> "none", want |-> 0, got |-> << >>, ret |-> 0, before |-> << >>]

\* rio_readinitb.
Init ==
    /\ stream \in Streams /\ at = 0 /\ buf = << >>
    /\ op = "none" /\ want = 0 /\ got = << >> /\ wrote = << >>
    /\ taken = << >> /\ last = NoCall

\* The unbuffered rio_readn is for descriptors that have no rio_t.
Call(o, n) ==
    /\ op = "none"
    /\ o = "readn" => buf = << >>
    /\ o \in Lines => n > 0
    /\ op' = o /\ want' = n /\ got' = << >> /\ wrote' = << >>
    /\ last' = NoCall
    /\ UNCHANGED << stream, at, buf, taken >>

EndsLine(s) == s # << >> /\ s[Len(s)] = "n"
Full == Len(got) = IF op \in Lines THEN want - 1 ELSE want
Done == IF op = "writen" THEN Len(wrote) = want
        ELSE Full \/ (op \in Lines /\ EndsLine(got))

\* n of rio_readlineb starts at 1 and is not moved by the byte that ends the line.
ret == IF op = "writen" THEN want
       ELSE IF op \notin Lines \/ EndsLine(got) THEN Len(got)
       ELSE IF got = << >> /\ ~Full THEN 0
       ELSE Len(got) + 1

\* The call returns; the loop over the headers goes on to the next line.
Return ==
    /\ last' = [op |-> op, want |-> want, got |-> got, ret |-> ret, before |-> last.got]
    /\ IF op = "headers" /\ got # << "n" >>
       THEN op' = op /\ got' = << >>
       ELSE op' = "none" /\ got' = got

\* What was asked for is there.
Complete ==
    /\ op \notin {"none", "exited"} /\ Done /\ Return
    /\ UNCHANGED << stream, at, buf, want, wrote, taken >>

\* read is called: rio_readn reads for the user, rio_read when rio_buf is empty.
Reads == ~Done /\ (op = "readn" \/ (op \in Buffered /\ buf = << >>))

Direct(k) ==
    /\ Reads /\ op = "readn" /\ k <= want - Len(got)
    /\ at' = at + k
    /\ got' = got \o SubSeq(stream, at + 1, at + k)
    /\ taken' = taken \o SubSeq(stream, at + 1, at + k)
    /\ UNCHANGED << stream, buf, op, want, wrote, last >>

Refill(k) ==
    /\ Reads /\ op \in Buffered /\ k <= BufSize
    /\ at' = at + k
    /\ buf' = SubSeq(stream, at + 1, at + k)
    /\ UNCHANGED << stream, op, want, got, wrote, taken, last >>

\* The end of the file.
Eof ==
    /\ Reads /\ at = Len(stream) /\ Return
    /\ UNCHANGED << stream, at, buf, want, wrote, taken >>

\* rio_read copies what there is, or a byte for a line.
Copy ==
    /\ op \in Buffered /\ ~Done /\ buf # << >>
    /\ LET k == IF op \in Lines THEN 1 ELSE Min({want - Len(got), Len(buf)})
       IN  /\ got' = got \o SubSeq(buf, 1, k)
           /\ taken' = taken \o SubSeq(buf, 1, k)
           /\ buf' = SubSeq(buf, k + 1, Len(buf))
    /\ UNCHANGED << stream, at, op, want, wrote, last >>

\* rio_writen.
Write(k) ==
    /\ op = "writen" /\ ~Done /\ k <= want - Len(wrote)
    /\ wrote' = wrote \o [i \in 1 .. k |-> Len(wrote) + i]
    /\ UNCHANGED << stream, at, buf, op, want, got, taken, last >>

\* Rio_readn, Rio_writen, Rio_readnb and Rio_readlineb: an error ends the process.
Exit ==
    /\ Reads \/ (op = "writen" /\ ~Done)
    /\ op' = "exited"
    /\ UNCHANGED << stream, at, buf, want, got, wrote, taken, last >>

Next ==
    \/ \E o \in Buffered \cup {"readn", "writen"}, n \in Wants : Call(o, n)
    \/ Complete \/ Eof \/ Copy \/ Exit
    \/ \E k \in 1 .. (Len(stream) - at) : Direct(k) \/ Refill(k)
    \/ \E k \in 1 .. Max(Wants) : Write(k)

Spec == Init /\ [][Next]_vars

-----------------------------------------------------------------------------
(* Properties.                                                              *)

TypeOK ==
    /\ stream \in Streams /\ at \in 0 .. Len(stream) /\ want \in Wants \cup {0}
    /\ Len(buf) <= BufSize /\ Len(got) <= want
    /\ op \in Buffered \cup {"readn", "writen", "none", "exited"}

\* However read cuts the stream, the program is given its bytes in their order,
\* none twice and none lost but what the buffer still holds.
InStreamOrder == taken \o buf = SubSeq(stream, 1, at)

AtEnd == at = Len(stream) /\ buf = << >>

\* A short count means the end of the file.
ShortMeansEnd ==
    last.op \in {"readn", "readnb"} /\ op = "none" =>
        /\ last.ret = Len(last.got)
        /\ last.ret < last.want => AtEnd

\* A line ends at its newline, at the room for it or at the end of the file; what
\* is returned is one more than its length but for a newline or nothing.
LineIsLine ==
    last.op \in Lines =>
        /\ Len(last.got) < last.want
        /\ \A i \in 1 .. Len(last.got) - 1 : last.got[i] # "n"
        /\ EndsLine(last.got) => last.ret = Len(last.got)
        /\ ~EndsLine(last.got) /\ Len(last.got) < last.want - 1 =>
               IF last.got = << >> THEN last.ret = 0 ELSE last.ret = Len(last.got) + 1

\* The headers end before the body: at the first empty line, unless a line fills the
\* buffer up to its newline, which then looks like an empty line (web.c:23).
HeadersEnd ==
    last.op = "headers" /\ op = "none" =>
        /\ EndsLine(taken) /\ last.got = << "n" >>
        /\ EndsLine(last.before) \/ last.before = << >> \/ Len(last.before) = last.want - 1

\* write has the data once and in order, and all of it when rio_writen returns.
WrittenOnce ==
    /\ \A i \in DOMAIN wrote : wrote[i] = i
    /\ last.op = "writen" => Len(wrote) = last.ret

RioSound == InStreamOrder /\ ShortMeansEnd /\ LineIsLine /\ HeadersEnd /\ WrittenOnce
=============================================================================
