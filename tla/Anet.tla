-------------------------------- MODULE Anet --------------------------------
(***************************************************************************)
(* The socket calls of anet.c: how a connection is made, a server socket   *)
(* opened and a connection accepted, an option set and a buffer read or    *)
(* written in full, when any of the system calls on the way may fail.  at  *)
(* is the next system call, s the local variable of that name, or the      *)
(* socket the function is given.                                           *)
(***************************************************************************)
EXTENDS Integers, Sequences

CONSTANTS Addresses, \* bound: how many addresses getaddrinfo may return
          Counts       \* counts of bytes to read or write

VARIABLES
    op,      \* the function called, with its flags and arguments
    at, s,   \* the next system call; the socket or ERR
    left,    \* addresses of the list not tried yet, the current one included
    source,  \* source_addr of this attempt is not NULL
    open,    \* sockets open
    calls,   \* history: calls made, the name of the next socket
    done,    \* options set, bytes moved
    ret      \* what a function that is given its socket returned

vars == << op, at, s, left, source, open, calls, done, ret >>

ERR == -1

Ops ==
    [fun : {"tcpConnect"}, nonblock : BOOLEAN, source : BOOLEAN, best : BOOLEAN]
    \cup [fun : {"unixConnect"}, nonblock : BOOLEAN]
    \cup [fun : {"tcpServer"}, v6 : BOOLEAN]
    \cup [fun : {"unixServer", "accept"}]
    \cup [fun : {"keepAlive", "block", "option"}]
    \cup [fun : {"read", "write"}, count : Counts]

\* The system calls of the functions that set options: anetKeepAlive with its interval,
\* anetSetBlock, and those that set one option.
Steps ==
    CASE op.fun = "keepAlive" -> << "SO_KEEPALIVE", "TCP_KEEPIDLE", "TCP_KEEPINTVL", "TCP_KEEPCNT" >>
      [] op.fun = "block"     -> << "F_GETFL", "F_SETFL" >>
      [] op.fun = "option"    -> << "setsockopt" >>

Sets  == op.fun \in {"keepAlive", "block", "option"}
Moves == op.fun \in {"read", "write"}

Cells == {"getaddrinfo", "socket", "option", "v6only", "nonblock", "source", "bind",
          "listen", "connect", "accept", "set", "move", "end", "end of file", "returned"}

TypeOK ==
    /\ op \in Ops /\ at \in Cells /\ left \in 0 .. Addresses /\ source \in BOOLEAN
    /\ open \subseteq 1 .. calls /\ s \in {ERR} \cup 1 .. calls
    /\ done \in Nat /\ ret \in Nat \cup {ERR}

Init ==
    /\ op \in Ops
    /\ at = CASE op.fun \in {"tcpConnect", "tcpServer"} -> "getaddrinfo"
              [] op.fun \in {"unixConnect", "unixServer"} -> "socket"
              [] op.fun = "accept" -> "accept"
              [] Sets -> "set"
              [] Moves -> "move"
    /\ source = (op.fun = "tcpConnect" /\ op.source)
    /\ left = 0 /\ done = 0 /\ ret = 0
    /\ IF Sets \/ Moves THEN s = 1 /\ open = {1} /\ calls = 1
                       ELSE s = ERR /\ open = {} /\ calls = 0

\* The system call at goes well and next is the one after it.
Goes(call, next) ==
    /\ at = call /\ at' = next
    /\ UNCHANGED << op, s, left, source, open, calls, done, ret >>

\* It fails: s is closed, or forgotten.
Fails(call, next) ==
    /\ at = call /\ at' = next /\ s' = ERR /\ open' = open \ {s}
    /\ UNCHANGED << op, left, source, calls, done, ret >>

NewSocket(next) ==
    /\ calls' = calls + 1 /\ s' = calls + 1 /\ open' = open \cup {calls + 1}
    /\ at' = next
    /\ UNCHANGED << op, left, source, done, ret >>

NextAddress ==
    /\ left' = left - 1
    /\ at' = IF left = 1 THEN "end" ELSE "socket"

Tcp == op.fun \in {"tcpConnect", "tcpServer"}

Resolve ==
    /\ at = "getaddrinfo"
    /\ \/ at' = "returned" /\ UNCHANGED left
       \/ at' = "socket" /\ left' \in 1 .. Addresses
    /\ UNCHANGED << op, s, source, open, calls, done, ret >>

\* socket(2); a list of addresses goes on to the next one.
Socket ==
    /\ at = "socket"
    /\ \/ NewSocket(IF op.fun = "tcpServer" /\ op.v6 THEN "v6only" ELSE "option")
       \/ /\ s' = ERR
          /\ IF Tcp THEN NextAddress ELSE at' = "returned" /\ UNCHANGED left
          /\ UNCHANGED << op, source, open, calls, done, ret >>

\* anetV6Only closes the socket itself, and then its caller closes it again; the two
\* are one step, so that what this does to a descriptor of another thread is not seen.
V6Only == Goes("v6only", "option") \/ Fails("v6only", "end")

AfterOption ==
    IF op.fun \in {"tcpServer", "unixServer"} THEN "bind"
    ELSE IF op.nonblock THEN "nonblock"
    ELSE IF source THEN "source" ELSE "connect"

\* anetSetReuseAddr.
Option == Goes("option", AfterOption) \/ Fails("option", "end")

\* anetNonBlock.
NonBlock == \/ Goes("nonblock", IF source THEN "source" ELSE "connect")
            \/ Fails("nonblock", "end")

\* The address to bind to, and bind(2) with each that it stands for.
Source == Goes("source", "connect") \/ Fails("source", "end")

\* Mutant: the socket that could not connect stays open.
Forgets == open

CloseFailed == open \ {s}

\* connect(2): in progress is well if it is not to block; a list goes on.
Connect ==
    \/ Goes("connect", "end")
    \/ /\ at = "connect" /\ s' = ERR /\ open' = CloseFailed
       /\ IF Tcp THEN NextAddress ELSE at' = "end" /\ UNCHANGED left
       /\ UNCHANGED << op, source, calls, done, ret >>

\* anetListen closes the socket if it cannot.
Bind   == Goes("bind", "listen") \/ Fails("bind", "end")
Listen == Goes("listen", "end") \/ Fails("listen", "end")

\* anetGenericAccept; a signal makes it try again.
Accept ==
    /\ at = "accept"
    /\ NewSocket("end") \/ Goes("accept", "end")

\* Best effort: once more, without the address to bind to.
End ==
    /\ at = "end"
    /\ IF s = ERR /\ source /\ op.best
       THEN at' = "getaddrinfo" /\ source' = FALSE
       ELSE at' = "returned" /\ UNCHANGED source
    /\ UNCHANGED << op, s, left, open, calls, done, ret >>

\* An option that cannot be set ends the function; the ones before it stay set.
SetOption ==
    /\ at = "set"
    /\ \/ /\ done' = done + 1 /\ ret' = 0
          /\ at' = IF done + 1 = Len(Steps) THEN "returned" ELSE "set"
       \/ at' = "returned" /\ ret' = ERR /\ UNCHANGED done
    /\ UNCHANGED << op, s, left, source, open, calls >>

\* Mutant: what comes after a short read goes unnoticed.
FirstOnly(n) == TRUE

\* anetRead and anetWrite are done when they have moved count bytes.
AllMoved(n) == n = op.count

\* read(2) or write(2): some of what is left, nothing, or an error.
Move ==
    /\ at = "move"
    /\ IF done = op.count THEN at' = "returned" /\ ret' = done /\ UNCHANGED done
       ELSE \/ \E n \in 1 .. op.count - done :
                 /\ done' = done + n /\ ret' = done + n
                 /\ at' = IF AllMoved(done + n) THEN "returned" ELSE "move"
            \/ at' = "end of file" /\ ret' = done /\ UNCHANGED done
            \/ at' = "returned" /\ ret' = ERR /\ UNCHANGED done
    /\ UNCHANGED << op, s, left, source, open, calls >>

Next == SetOption \/ Move \/ Resolve \/ Socket \/ V6Only \/ Option \/ NonBlock \/ Source \/ Connect
        \/ Bind \/ Listen \/ Accept \/ End

Spec == Init /\ [][Next]_vars

\* Whichever call fails, a function that returns a socket has left that one open, and
\* one that returns an error none. One that is given a socket leaves it open, and
\* returns no error only when all options are set, or all bytes moved before the end
\* of the file.
NothingLeaks ==
    /\ at = "returned" => open = IF Sets \/ Moves THEN {1} ELSE {s} \ {ERR}
    /\ at = "returned" /\ Sets => (ret = 0 <=> done = Len(Steps))
    /\ at = "returned" /\ Moves /\ ret # ERR => ret = op.count
    /\ at = "end of file" => ret = done /\ done < op.count
=============================================================================
