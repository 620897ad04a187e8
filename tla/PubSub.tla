------------------------------- MODULE PubSub -------------------------------
(***************************************************************************)
(* What the hub promises, with no sockets in it. Every client has a queue  *)
(* of requests it made and an inbox. Requests of a client are executed one *)
(* at a time, in the order made, none twice and none out of thin air. A    *)
(* publication reaches the inbox of every member of its topic, once, and   *)
(* a new member gets the last publication made before it came, so that it  *)
(* does not matter who starts first (README.md of hubpubsub, question 1).  *)
(* Only a client that leaves loses anything: a tail of its requests and a  *)
(* tail of its inbox. The broker may turn a client away, which then hears  *)
(* no more and has no claim to be served.                                  *)
(***************************************************************************)
EXTENDS Sequences, Naturals

CONSTANTS Clients, Topics, Contents, Never

VARIABLES
    mode,     \* what a client still does: asks for something, hears what is
              \* published; and is it to be served?
    asked,    \* requests made and not yet executed
    member,   \* the topics a client is subscribed to
    last,     \* the last publication on a topic
    inbox     \* publications on their way to a client

absVars == << mode, asked, member, last, inbox >>

Prefixes(s) == {SubSeq(s, 1, n) : n \in 0 .. Len(s)}

Init ==
    /\ mode = [c \in Clients |-> {}]
    /\ asked = [c \in Clients |-> << >>]
    /\ member = [c \in Clients |-> {}]
    /\ last = [t \in Topics |-> Never]
    /\ inbox = [c \in Clients |-> << >>]

Join(c) ==
    /\ mode[c] = {} /\ asked[c] = << >> /\ member[c] = {} /\ inbox[c] = << >>
    /\ mode' = [mode EXCEPT ![c] = {"asks", "hears", "served"}]
    /\ UNCHANGED << asked, member, last, inbox >>

Ask(c, r) ==
    /\ "asks" \in mode[c]
    /\ UNCHANGED << mode, member, last, inbox >>
    /\ asked' = [asked EXCEPT ![c] = Append(@, r)]

Tell(cs, t, x) ==
    inbox' = [c \in Clients |-> IF c \in cs /\ "hears" \in mode[c]
                                THEN Append(inbox[c], [t |-> t, x |-> x])
                                ELSE inbox[c]]

Perform(c, r) ==
    \/ /\ r.op = "sub"
       /\ UNCHANGED last
       /\ member' = [member EXCEPT ![c] = @ \cup {r.t}]
       /\ IF last[r.t] # Never THEN Tell({c}, r.t, last[r.t]) ELSE UNCHANGED inbox
    \/ /\ r.op = "unsub"
       /\ UNCHANGED << last, inbox >>
       /\ member' = [member EXCEPT ![c] = @ \ {r.t}]
    \/ /\ r.op = "pub"
       /\ UNCHANGED member
       /\ last' = [last EXCEPT ![r.t] = r.x]
       /\ Tell({d \in Clients : r.t \in member[d]}, r.t, r.x)

Execute(c) ==
    /\ UNCHANGED mode
    /\ asked[c] # << >>
    /\ Perform(c, Head(asked[c]))
    /\ asked' = [asked EXCEPT ![c] = Tail(@)]

Take(c) ==
    /\ inbox[c] # << >>
    /\ UNCHANGED << mode, member, last >>
    /\ inbox' = [inbox EXCEPT ![c] = Tail(@)]
    /\ UNCHANGED asked

\* The client stops asking or hearing, or it is turned away. What it asked may
\* be lost in part once it asks no more, what it was told once it hears no more.
Withdraw(c) ==
    /\ UNCHANGED << member, last >>
    /\ \E m \in SUBSET mode[c] :
          /\ mode' = [mode EXCEPT ![c] = m]
          /\ \/ UNCHANGED inbox
             \/ /\ "hears" \notin m
                /\ \E s \in Prefixes(inbox[c]) : inbox' = [inbox EXCEPT ![c] = s]
          /\ \/ UNCHANGED asked
             \/ /\ "asks" \notin m
                /\ \E s \in Prefixes(asked[c]) : asked' = [asked EXCEPT ![c] = s]

\* A client that asks no more is forgotten: once all it asked is done, unless it
\* was turned away.
Forget(c) ==
    /\ "asks" \notin mode[c]
    /\ "served" \in mode[c] => asked[c] = << >>
    /\ UNCHANGED last
    /\ mode' = [mode EXCEPT ![c] = {}]
    /\ asked' = [asked EXCEPT ![c] = << >>]
    /\ member' = [member EXCEPT ![c] = {}]
    /\ \E s \in Prefixes(inbox[c]) : inbox' = [inbox EXCEPT ![c] = s]

Requests == [op : {"sub", "unsub"}, t : Topics]
              \cup [op : {"pub"}, t : Topics, x : Contents]

Next == \E c \in Clients :
            \/ Join(c)
            \/ \E r \in Requests : Ask(c, r)
            \/ Execute(c)
            \/ Take(c)
            \/ Withdraw(c)
            \/ Forget(c)

Spec == Init /\ [][Next]_absVars

=============================================================================
