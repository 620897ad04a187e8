-------------------------- MODULE TimerServerProofs --------------------------
(***************************************************************************)
(* Proofs about TimerServer.  Its invariants are not inductive: that a     *)
(* handler finds its descriptor in the map depends on what epoll_wait put  *)
(* into the batch, that a free descriptor is found depends on no client    *)
(* being in the map twice, and what a client is told depends on what waits *)
(* in its buffer and on what is still on its way to the server.  IInv says *)
(* so, and each action has a lemma that it keeps it.                       *)
(***************************************************************************)
EXTENDS TimerServer, FilterProofs

In(fd)  == [k |-> "in", fd |-> fd]
Out(fd) == [k |-> "out", fd |-> fd]

\* A connection waits for input or for output, never both, nor for nothing.
OneInterest == \A fd \in DOMAIN users : users[fd].interest \in {{"in"}, {"out"}}

\* The events still to be handled are of connections as they are now. Only a chat
\* line of another client may have taken the interest in input away.
BatchHolds ==
    /\ pc # "batch" => batch = {}
    /\ Listen \in batch => backlog # << >>
    /\ \A fd \in Fds : In(fd) \in batch =>
          /\ fd \in DOMAIN users
          /\ up[users[fd].who] # << >>
          /\ mode # "chat" => users[fd].interest = {"in"}
          /\ Out(fd) \notin batch
    /\ \A fd \in Fds : Out(fd) \in batch =>
          fd \in DOMAIN users /\ users[fd].interest = {"out"}

\* A client comes once: it is new, in the backlog, in the map or gone.
ClientsApart ==
    /\ \A fd, g \in DOMAIN users : users[fd].who = users[g].who => fd = g
    /\ \A fd \in DOMAIN users : cli[users[fd].who] # "init" /\ users[fd].who \notin gone
    /\ \A i, j \in 1 .. Len(backlog) : backlog[i] = backlog[j] => i = j
    /\ \A i \in 1 .. Len(backlog) :
          /\ cli[backlog[i]] # "init" /\ backlog[i] \notin gone
          /\ \A fd \in DOMAIN users : users[fd].who # backlog[i]
    /\ \A c \in gone : cli[c] # "init"

\* A timer is not up before its connection has been idle for TIMEOUT.
TimersAreLate ==
    \A fd \in DOMAIN users :
        \/ idle[users[fd].who] = Longest
        \/ idle[users[fd].who] + timers[users[fd].timer].left >= Timeout

\* What is on its way from c is the end of what it wrote, and a FIN or a RST at most
\* comes after it.
Written(c) ==
    /\ \A i \in 1 .. Len(written[c]) : written[c][i].who = c /\ written[c][i].i = i
    /\ cli[c] = "init" => written[c] = << >> /\ up[c] = << >>

OnItsWay(c) ==
    /\ \A i \in 1 .. Len(up[c]) :
          up[c][i] \in Item =>
              /\ up[c][i].i <= Len(written[c]) /\ up[c][i] = written[c][up[c][i].i]
              /\ \A j \in 1 .. i : up[c][j] \in Item
              /\ up[c][i].i = up[c][1].i + i - 1
    /\ cli[c] # "closed" /\ up[c] # << >> =>
          /\ \A i \in 1 .. Len(up[c]) : up[c][i] \in Item
          /\ up[c][1].i + Len(up[c]) - 1 = Len(written[c])

StreamsHold == \A c \in Clients : Written(c) /\ OnItsWay(c)

\* An echo server has read the first n things that c wrote.
HasRead(c, n) ==
    /\ up[c] # << >> /\ up[c][1] \in Item => up[c][1].i = n + 1
    /\ up[c] = << >> /\ cli[c] # "closed" => Len(written[c]) = n

\* What an echo server told c, and then buf, is what c wrote from the beginning on.
Echoes(c, buf) ==
    /\ Len(told[c]) + Len(buf) <= Len(written[c])
    /\ \A j \in 1 .. Len(told[c]) : told[c][j] = written[c][j]
    /\ \A j \in 1 .. Len(buf) : buf[j] = written[c][Len(told[c]) + j]
    /\ HasRead(c, Len(told[c]) + Len(buf))

\* What an echo server told c and has in its buffer for it is what it has read.
EchoHolds ==
    mode = "echo" =>
        /\ \A c \in Clients :
              /\ Len(told[c]) <= Len(written[c])
              /\ \A j \in 1 .. Len(told[c]) : told[c][j] = written[c][j]
              /\ c \notin gone /\ (\A fd \in DOMAIN users : users[fd].who # c)
                     => told[c] = << >> /\ Echoes(c, << >>)
        /\ \A fd \in DOMAIN users :
              Echoes(users[fd].who, IF users[fd].interest = {"out"} THEN users[fd].buf
                                                                    ELSE << >>)

\* A line that a chat server has read: what its writer has on the way comes after it.
Passed(m) ==
    /\ m \in Item /\ m.i <= Len(written[m.who])
    /\ \A i \in 1 .. Len(up[m.who]) : up[m.who][i] \in Item => m.i < up[m.who][i].i

\* Lines for c, from others and those of each writer in the order it wrote them.
LinesFor(c, s) ==
    /\ \A j \in 1 .. Len(s) : Passed(s[j]) /\ s[j].who # c
    /\ \A i, j \in 1 .. Len(s) : i < j /\ s[i].who = s[j].who => s[i].i < s[j].i

ChatHolds ==
    mode = "chat" =>
        /\ \A c \in Clients : LinesFor(c, told[c])
        /\ \A fd \in DOMAIN users : users[fd].interest = {"out"} =>
              LinesFor(users[fd].who, told[users[fd].who] \o users[fd].buf)

\* The inductive invariant.
IInv ==
    /\ TypeOK /\ OneTimerEach /\ OneInterest /\ BatchHolds /\ ClientsApart
    /\ TimersAreLate /\ StreamsHold /\ EchoHolds /\ ChatHolds

-----------------------------------------------------------------------------
(* What the constants give.                                                 *)

LEMMA Bounds ==
  ASSUME TypeOK
  PROVE  /\ Timeout \in Nat /\ Late \in Nat /\ Longest \in Nat /\ Timeout >= 1
         /\ Timeout * FileTimes \in Nat
         /\ Timeout <= Longest /\ Longest <= Timeout * FileTimes
         /\ MaxSends[mode] \in Nat
         /\ Cardinality(Clients) \in Nat
<1>1. \A a, b \in Nat \ {0} : a * b \in Nat /\ a <= a * b
  OBVIOUS
<1>2. Timeout * FileTimes \in Nat /\ Timeout <= Timeout * FileTimes
  BY <1>1, ServerAssumption
<1>3. MaxSends[mode] \in Nat
  BY ServerAssumption DEF TypeOK
<1>4. Cardinality(Clients) \in Nat
  BY FS_CardinalityType, ServerAssumption
<1>. QED
  BY <1>2, <1>3, <1>4, ServerAssumption DEF Longest

\* What is written is not the end of the stream.
LEMMA ItemsApart == Fin \notin Item /\ Rst \notin Item
<1>1. Fin.k = "fin" /\ Rst.k = "rst" /\ DOMAIN Fin = {"k"} /\ DOMAIN Rst = {"k"}
  BY DEF Fin, Rst
<1>2. \A m \in Item : DOMAIN m = {"who", "i", "name"}
  BY DEF Item
<1>. QED
  BY <1>1, <1>2

\* The number Lowest finds is free when one is.
LEMMA LowestIsFree ==
  ASSUME NEW n \in Nat, NEW f, (1 .. n) \ DOMAIN f # {}
  PROVE  Lowest(1 .. n, f) \in (1 .. n) \ DOMAIN f
<1> DEFINE T == (1 .. n) \ DOMAIN f
<1>1. \E x \in T : \A y \in T : x <= y
  <2>1. T \in SUBSET Nat /\ T # {}
    OBVIOUS
  <2>. QED
    BY <2>1, Smallest
<1>. QED
  BY <1>1 DEF Lowest, Min

\* Each timer has a connection of its own, so there are no more timers than descriptors.
LEMMA FreeTimer ==
  ASSUME TypeOK, OneTimerEach
  PROVE  Lowest(Timers, timers) \in Timers \ DOMAIN timers
<1> DEFINE N == Cardinality(Clients)
           f == [tm \in DOMAIN timers |-> timers[tm].fd]
<1>1. N \in Nat
  BY Bounds
<1>2. f \in Injection(DOMAIN timers, Fds)
  <2>1. \A tm \in DOMAIN timers : f[tm] \in Fds
    BY DEF OneTimerEach, TypeOK
  <2>2. \A tm, tn \in DOMAIN timers : f[tm] = f[tn] => tm = tn
    BY DEF OneTimerEach
  <2>. QED
    BY <2>1, <2>2 DEF Injection, IsInjective
<1>3. IsFiniteSet(Fds) /\ Cardinality(Fds) = N
  BY <1>1, FS_Interval DEF Fds
<1>4. Cardinality(DOMAIN timers) <= N
  BY <1>2, <1>3, FS_Injection
<1>5. Cardinality(Timers) = N + 1
  BY <1>1, FS_Interval DEF Timers
<1>6. Timers \ DOMAIN timers # {}
  <2>1. DOMAIN timers # Timers
    BY <1>1, <1>4, <1>5
  <2>2. DOMAIN timers \subseteq Timers
    BY DEF TypeOK
  <2>. QED
    BY <2>1, <2>2
<1>7. N + 1 \in Nat /\ Timers = 1 .. N + 1
  BY <1>1 DEF Timers
<1>. HIDE DEF N
<1>. QED
  BY <1>6, <1>7, LowestIsFree

\* Each connection in the map has a client of its own, who is not in the backlog.
LEMMA FreeDescriptor ==
  ASSUME TypeOK, ClientsApart, backlog # << >>
  PROVE  Lowest(Fds, users) \in Fds \ DOMAIN users
<1> DEFINE N == Cardinality(Clients)
           c == backlog[1]
           Others == Clients \ {c}
           f == [fd \in DOMAIN users |-> users[fd].who]
<1>1. N \in Nat
  BY Bounds
<1>2. c \in Clients /\ 1 \in 1 .. Len(backlog)
  BY DEF TypeOK
<1>3. f \in Injection(DOMAIN users, Others)
  <2>1. \A fd \in DOMAIN users : f[fd] \in Others
    BY <1>2 DEF ClientsApart, TypeOK, User
  <2>2. \A fd, g \in DOMAIN users : f[fd] = f[g] => fd = g
    BY DEF ClientsApart
  <2>. QED
    BY <2>1, <2>2 DEF Injection, IsInjective
<1>4. IsFiniteSet(Others) /\ Cardinality(Others) = N - 1
  BY <1>2, FS_RemoveElement, ServerAssumption
<1>5. Cardinality(DOMAIN users) <= N - 1
  BY <1>3, <1>4, FS_Injection
<1>6. Cardinality(Fds) = N
  BY <1>1, FS_Interval DEF Fds
<1>7. DOMAIN users # Fds
  BY <1>1, <1>5, <1>6
<1>. QED
  BY <1>1, <1>7, LowestIsFree DEF Fds, TypeOK

-----------------------------------------------------------------------------
(* The initial states.                                                      *)

LEMMA InitIInv == Init => IInv
<1> SUFFICES ASSUME Init PROVE IInv
  OBVIOUS
<1>1. /\ DOMAIN users = {} /\ DOMAIN timers = {} /\ batch = {} /\ pc = "loop"
      /\ mode \in Modes /\ running = TRUE /\ gone = {}
      /\ backlog = << >> /\ Len(backlog) = 0
      /\ cli = [c \in Clients |-> "init"] /\ idle = [c \in Clients |-> 0]
      /\ up = [c \in Clients |-> << >>] /\ written = [c \in Clients |-> << >>]
      /\ told = [c \in Clients |-> << >>]
  BY DEF Init
<1>2. TypeOK
  <2>1. Longest \in Nat
    BY <1>1, ServerAssumption DEF Longest
  <2>. QED
    BY <1>1, <2>1 DEF TypeOK
<1>3. OneTimerEach /\ OneInterest /\ BatchHolds /\ ClientsApart /\ TimersAreLate
  BY <1>1 DEF OneTimerEach, OneInterest, BatchHolds, ClientsApart, TimersAreLate
<1>4. StreamsHold
  BY <1>1 DEF StreamsHold, Written, OnItsWay
<1>5. EchoHolds
  BY <1>1 DEF EchoHolds, Echoes, HasRead
<1>6. ChatHolds
  BY <1>1 DEF ChatHolds, LinesFor
<1>. QED
  BY <1>2, <1>3, <1>4, <1>5, <1>6 DEF IInv

-----------------------------------------------------------------------------
(* The clients.                                                             *)

\* A client that connects is in the backlog from then on, and nowhere else.
LEMMA ConnectKeeps ==
  ASSUME IInv, NEW c \in Clients, Connect(c)
  PROVE  IInv'
<1>1. /\ cli[c] = "init" /\ cli' = [cli EXCEPT ![c] = "open"]
      /\ backlog' = Append(backlog, c)
      /\ mode' = mode /\ running' = running /\ pc' = pc /\ batch' = batch
      /\ users' = users /\ timers' = timers /\ told' = told /\ gone' = gone
      /\ written' = written /\ up' = up /\ idle' = idle
  BY DEF Connect, serverVars
<1>2. Item' = Item /\ Longest' = Longest /\ User' = User
  BY <1>1 DEF Item, Longest, User
<1>3. /\ Len(backlog') = Len(backlog) + 1 /\ backlog' # << >> /\ backlog' \in Seq(Clients)
      /\ backlog'[Len(backlog) + 1] = c /\ Len(backlog) \in Nat
      /\ \A i \in 1 .. Len(backlog) : backlog'[i] = backlog[i] /\ backlog[i] \in Clients
  <2>1. backlog \in Seq(Clients)
    BY DEF IInv, TypeOK
  <2>. QED
    BY <1>1, <2>1, AppendProperties
<1>4. TypeOK'
  BY <1>1, <1>2, <1>3 DEF IInv, TypeOK
<1>5. OneTimerEach' /\ OneInterest' /\ TimersAreLate'
  BY <1>1, <1>2 DEF IInv, OneTimerEach, OneInterest, TimersAreLate
<1>6. BatchHolds'
  BY <1>1, <1>3 DEF IInv, BatchHolds
<1>7. ClientsApart'
  <2>1. c \notin gone /\ \A fd \in DOMAIN users : users[fd].who # c
    BY <1>1 DEF IInv, ClientsApart
  <2>2. \A i \in 1 .. Len(backlog) : backlog[i] # c
    BY <1>1 DEF IInv, ClientsApart
  <2>3. \A d \in Clients : cli[d] # "init" => cli'[d] # "init"
    BY <1>1 DEF IInv, TypeOK
  <2>4. \A fd \in DOMAIN users : users[fd].who \in Clients
    BY DEF IInv, TypeOK, User
  <2>5. gone \subseteq Clients
    BY DEF IInv, TypeOK
  <2>6. cli'[c] # "init"
    BY <1>1 DEF IInv, TypeOK
  <2>7. \A i \in 1 .. Len(backlog') : i = Len(backlog) + 1 \/ i \in 1 .. Len(backlog)
    BY <1>3
  <2>8. \A i, j \in 1 .. Len(backlog') : backlog'[i] = backlog'[j] => i = j
    BY <1>3, <2>2, <2>7 DEF IInv, ClientsApart
  <2>9. \A i \in 1 .. Len(backlog') :
          /\ cli'[backlog'[i]] # "init" /\ backlog'[i] \notin gone
          /\ \A fd \in DOMAIN users : users[fd].who # backlog'[i]
    BY <1>3, <2>1, <2>3, <2>6, <2>7 DEF IInv, ClientsApart
  <2>. QED
    BY <1>1, <2>3, <2>4, <2>5, <2>8, <2>9 DEF IInv, ClientsApart
<1>8. StreamsHold'
  <2>1. \A d \in Clients : d # c => cli'[d] = cli[d]
    BY <1>1 DEF IInv, TypeOK
  <2>2. written[c] = << >> /\ up[c] = << >>
    BY <1>1 DEF IInv, StreamsHold, Written
  <2>. QED
    BY <1>1, <1>2, <2>1, <2>2 DEF IInv, StreamsHold, Written, OnItsWay
<1>9. EchoHolds'
  <2> SUFFICES ASSUME mode = "echo" PROVE EchoHolds'
    BY <1>1 DEF EchoHolds
  <2>1. \A d \in Clients : d # c => cli'[d] = cli[d]
    BY <1>1 DEF IInv, TypeOK
  <2>2. /\ written[c] = << >> /\ up[c] = << >> /\ told[c] = << >>
        /\ \A fd \in DOMAIN users : users[fd].who # c
    <3>1. written[c] = << >> /\ up[c] = << >>
      BY <1>1 DEF IInv, StreamsHold, Written
    <3>2. c \notin gone /\ \A fd \in DOMAIN users : users[fd].who # c
      BY <1>1 DEF IInv, ClientsApart
    <3>. QED
      BY <3>1, <3>2 DEF IInv, EchoHolds
  <2>3. \A d \in Clients : \A s : d # c => (Echoes(d, s)' <=> Echoes(d, s))
    BY <1>1, <1>2, <2>1 DEF Echoes, HasRead
  <2>4. Echoes(c, << >>)'
    BY <1>1, <2>2 DEF Echoes, HasRead
  <2>5. \A fd \in DOMAIN users : users[fd].who \in Clients
    BY DEF IInv, TypeOK, User
  <2>. QED
    BY <1>1, <2>2, <2>3, <2>4, <2>5 DEF IInv, EchoHolds
<1>10. ChatHolds'
  <2>1. \A d, s : LinesFor(d, s)' <=> LinesFor(d, s)
    BY <1>1, <1>2 DEF LinesFor, Passed
  <2>. QED
    BY <1>1, <2>1 DEF IInv, ChatHolds
<1>. QED
  BY <1>4, <1>5, <1>6, <1>7, <1>8, <1>9, <1>10 DEF IInv

\* What a client writes comes after all it has written and all of that which was read.
LEMMA WriteKeeps ==
  ASSUME IInv, NEW c \in Clients, Write(c)
  PROVE  IInv'
<1>1. /\ cli[c] = "open" /\ c \notin gone /\ Len(written[c]) < MaxSends[mode]
      /\ mode' = mode /\ running' = running /\ pc' = pc /\ batch' = batch
      /\ users' = users /\ timers' = timers /\ told' = told /\ gone' = gone
      /\ cli' = cli /\ backlog' = backlog /\ idle' = idle
  BY DEF Write, serverVars
<1>2. Item' = Item /\ Longest' = Longest /\ User' = User
  BY <1>1 DEF Item, Longest, User
<1>3. /\ written[c] \in Seq(Item) /\ up[c] \in Seq(Item \cup {Fin, Rst})
      /\ Len(written[c]) \in Nat /\ Len(up[c]) \in Nat
  BY DEF IInv, TypeOK
<1>4. PICK f \in Files \cup {NoFile} :
          /\ written' = [written EXCEPT ![c] =
                            Append(@, [who |-> c, i |-> Len(written[c]) + 1, name |-> f])]
          /\ up' = [up EXCEPT ![c] =
                       Append(@, [who |-> c, i |-> Len(written[c]) + 1, name |-> f])]
  BY DEF Write
<1>5. PICK item : item = [who |-> c, i |-> Len(written[c]) + 1, name |-> f]
  OBVIOUS
<1>6. item \in Item /\ item.who = c /\ item.i = Len(written[c]) + 1
  BY <1>1, <1>3, <1>5, Bounds DEF Item, IInv
<1>7. /\ written' = [written EXCEPT ![c] = Append(written[c], item)]
      /\ up' = [up EXCEPT ![c] = Append(up[c], item)]
  BY <1>4, <1>5
<1>8. /\ written'[c] = Append(written[c], item) /\ up'[c] = Append(up[c], item)
      /\ \A d \in Clients : d # c => written'[d] = written[d] /\ up'[d] = up[d]
      /\ written' \in [Clients -> Seq(Item)]
      /\ up' \in [Clients -> Seq(Item \cup {Fin, Rst})]
  <2>1. Append(written[c], item) \in Seq(Item) /\ Append(up[c], item) \in Seq(Item \cup {Fin, Rst})
    BY <1>3, <1>6
  <2>. QED
    BY <1>7, <2>1 DEF IInv, TypeOK
<1>9. /\ Len(written'[c]) = Len(written[c]) + 1 /\ written'[c][Len(written[c]) + 1] = item
      /\ \A i \in 1 .. Len(written[c]) : written'[c][i] = written[c][i]
      /\ Len(up'[c]) = Len(up[c]) + 1 /\ up'[c][Len(up[c]) + 1] = item
      /\ \A i \in 1 .. Len(up[c]) : up'[c][i] = up[c][i]
      /\ up'[c] # << >>
  <2>1. item \in Item \cup {Fin, Rst}
    BY <1>6
  <2>2. /\ Len(Append(up[c], item)) = Len(up[c]) + 1
        /\ Append(up[c], item)[Len(up[c]) + 1] = item
        /\ \A i \in 1 .. Len(up[c]) : Append(up[c], item)[i] = up[c][i]
        /\ Append(up[c], item) # << >>
    BY <1>3, <2>1, AppendProperties
  <2>3. /\ Len(Append(written[c], item)) = Len(written[c]) + 1
        /\ Append(written[c], item)[Len(written[c]) + 1] = item
        /\ \A i \in 1 .. Len(written[c]) : Append(written[c], item)[i] = written[c][i]
    BY <1>3, <1>6, AppendProperties
  <2>. QED
    BY <1>8, <2>2, <2>3
<1>10. /\ \A i \in 1 .. Len(up'[c]) : i \in 1 .. Len(up[c]) \/ i = Len(up[c]) + 1
       /\ \A i \in 1 .. Len(written'[c]) : i \in 1 .. Len(written[c]) \/ i = Len(written[c]) + 1
       /\ up[c] # << >> <=> Len(up[c]) > 0
  BY <1>3, <1>9
<1>11. TypeOK'
  BY <1>1, <1>2, <1>8 DEF IInv, TypeOK
<1>12. OneTimerEach' /\ OneInterest' /\ TimersAreLate' /\ ClientsApart'
  BY <1>1, <1>2 DEF IInv, OneTimerEach, OneInterest, TimersAreLate, ClientsApart
<1>13. BatchHolds'
  <2>1. \A fd \in DOMAIN users : up[users[fd].who] # << >> => up'[users[fd].who] # << >>
    BY <1>8, <1>9 DEF IInv, TypeOK, User
  <2>. QED
    BY <1>1, <2>1 DEF IInv, BatchHolds
<1>14. StreamsHold'
  <2>1. ASSUME NEW d \in Clients, d # c PROVE Written(d)' /\ OnItsWay(d)'
    <3>1. written'[d] = written[d] /\ up'[d] = up[d] /\ Written(d) /\ OnItsWay(d)
      BY <1>8, <2>1 DEF IInv, StreamsHold
    <3>. QED
      BY <1>1, <1>2, <3>1 DEF Written, OnItsWay
  <2>2. Written(c)'
    BY <1>1, <1>6, <1>9, <1>10 DEF IInv, StreamsHold, Written
  <2>3. OnItsWay(c)
    BY DEF IInv, StreamsHold
  <2>4. \A i \in 1 .. Len(up[c]) :
           /\ up[c][i] \in Item /\ up[c][1] \in Item
           /\ up[c][i].i \in 1 .. Len(written[c])
           /\ up[c][i] = written[c][up[c][i].i]
           /\ up[c][i].i = up[c][1].i + i - 1
    <3>1. \A i \in 1 .. Len(up[c]) : up[c][i] \in Item
      BY <1>1, <1>10, <2>3 DEF OnItsWay
    <3>2. \A m \in Item : m.i \in Nat /\ m.i >= 1
      BY Bounds DEF Item, IInv
    <3>. QED
      BY <1>3, <2>3, <3>1, <3>2 DEF OnItsWay
  <2>5. up[c] # << >> => up[c][1].i + Len(up[c]) - 1 = Len(written[c])
    BY <1>1, <2>3 DEF OnItsWay
  <2>6. up'[c][1] \in Item /\ up'[c][1].i + Len(up[c]) = Len(written[c]) + 1
    <3>1. CASE up[c] = << >>
      <4>1. Len(up[c]) = 0 /\ up'[c][1] = item
        BY <1>9, <3>1
      <4>. QED
        BY <1>3, <1>6, <4>1
    <3>2. CASE up[c] # << >>
      <4>1. up'[c][1] = up[c][1] /\ 1 \in 1 .. Len(up[c])
        BY <1>3, <1>9, <1>10, <3>2
      <4>2. up[c][1] \in Item /\ up[c][1].i \in Int
        BY <1>3, <2>4, <4>1
      <4>. QED
        <5>1. PICK x : x = up[c][1].i
          OBVIOUS
        <5>2. x \in Int /\ x + Len(up[c]) - 1 = Len(written[c])
          BY <2>5, <3>2, <4>2, <5>1
        <5>3. x + Len(up[c]) = Len(written[c]) + 1
          BY <1>3, <5>2
        <5>. QED
          BY <4>1, <4>2, <5>1, <5>3
    <3>. QED
      BY <3>1, <3>2
  <2>7. up'[c][1].i \in Int
    BY <2>6, Bounds DEF Item, IInv
  <2>8. \A i \in 1 .. Len(up'[c]) :
           /\ up'[c][i] \in Item /\ up'[c][i].i <= Len(written'[c])
           /\ up'[c][i] = written'[c][up'[c][i].i]
           /\ up'[c][i].i = up'[c][1].i + i - 1
    <3> TAKE i \in 1 .. Len(up'[c])
    <3>1. CASE i = Len(up[c]) + 1
      <4>1. up'[c][i] = item
        BY <1>9, <3>1
      <4>. QED
        BY <1>3, <1>6, <1>9, <2>6, <2>7, <3>1, <4>1
    <3>2. CASE i \in 1 .. Len(up[c])
      <4>1. up'[c][i] = up[c][i] /\ up'[c][1] = up[c][1]
        BY <1>3, <1>9, <3>2
      <4>2. PICK k \in 1 .. Len(written[c]) :
               up[c][i] \in Item /\ up[c][i] = written[c][k] /\ up[c][i].i = k
        BY <2>4, <3>2
      <4>3. k <= Len(written'[c]) /\ written'[c][k] = written[c][k]
        BY <1>3, <1>9
      <4>4. k = up[c][1].i + i - 1
        BY <2>4, <3>2, <4>2
      <4>. QED
        BY <4>1, <4>2, <4>3, <4>4
    <3>. QED
      BY <1>10, <3>1, <3>2
  <2>9. OnItsWay(c)'
    BY <1>2, <1>3, <1>9, <2>6, <2>7, <2>8 DEF OnItsWay
  <2>. QED
    BY <2>1, <2>2, <2>9 DEF StreamsHold
<1>15. EchoHolds'
  <2> SUFFICES ASSUME mode = "echo" PROVE EchoHolds'
    BY <1>1 DEF EchoHolds
  <2>1. \A d \in Clients : \A s : d # c /\ Echoes(d, s) => Echoes(d, s)'
    BY <1>1, <1>2, <1>8 DEF Echoes, HasRead
  <2>2. ASSUME NEW s \in Seq(Item \cup File), Echoes(c, s) PROVE Echoes(c, s)'
    <3>1. Len(told[c]) \in Nat /\ Len(s) \in Nat /\ told'[c] = told[c]
      BY <1>1 DEF IInv, TypeOK
    <3>2. HasRead(c, Len(told[c]) + Len(s))
      BY <2>2 DEF Echoes
    <3>3. (up'[c] # << >> /\ up'[c][1] \in Item) => up'[c][1].i = Len(told[c]) + Len(s) + 1
      <4>1. CASE up[c] = << >>
        <5>1. up'[c][1] = item
          BY <1>9, <4>1
        <5>2. Len(written[c]) = Len(told[c]) + Len(s)
          BY <1>1, <3>2, <4>1 DEF HasRead
        <5>. QED
          BY <1>6, <5>1, <5>2
      <4>2. CASE up[c] # << >>
        <5>1. up'[c][1] = up[c][1]
          BY <1>3, <1>9, <1>10, <4>2
        <5>. QED
          BY <3>2, <4>2, <5>1 DEF HasRead
      <4>. QED
        BY <4>1, <4>2
    <3>4. Len(told[c]) + Len(s) <= Len(written'[c])
      BY <1>3, <1>9, <2>2, <3>1 DEF Echoes
    <3>5. \A j \in 1 .. Len(told[c]) : told[c][j] = written'[c][j]
      BY <1>3, <1>9, <2>2, <3>1 DEF Echoes
    <3>6. ASSUME NEW j \in 1 .. Len(s) PROVE s[j] = written'[c][Len(told[c]) + j]
      <4>1. Len(told[c]) + Len(s) <= Len(written[c]) /\ s[j] = written[c][Len(told[c]) + j]
        BY <2>2 DEF Echoes
      <4>2. Len(told[c]) + j \in 1 .. Len(written[c])
        BY <1>3, <3>1, <4>1
      <4>. QED
        BY <1>9, <4>1, <4>2
    <3>. QED
      BY <1>2, <1>9, <3>1, <3>3, <3>4, <3>5, <3>6 DEF Echoes, HasRead
  <2>3. \A fd \in DOMAIN users : users[fd].who \in Clients
                                 /\ users[fd].buf \in Seq(Item \cup File)
    BY DEF IInv, TypeOK, User
  <2>4. << >> \in Seq(Item \cup File)
    OBVIOUS
  <2>5. \A d \in Clients : \A s \in Seq(Item \cup File) : Echoes(d, s) => Echoes(d, s)'
    BY <2>1, <2>2
  <2>6. \A d \in Clients :
          Len(told[d]) <= Len(written[d]) => Len(told[d]) <= Len(written'[d])
    <3>1. Len(told[c]) \in Nat
      BY DEF IInv, TypeOK
    <3>2. Len(told[c]) <= Len(written[c]) => Len(told[c]) <= Len(written'[c])
      BY <1>3, <1>9, <3>1
    <3>. QED
      BY <1>8, <3>2
  <2>7. \A d \in Clients : \A j \in 1 .. Len(told[d]) : told[d][j] = written'[d][j]
    <3>1. Len(told[c]) \in Nat /\ Len(told[c]) <= Len(written[c])
      BY DEF IInv, TypeOK, EchoHolds
    <3>2. \A j \in 1 .. Len(told[c]) : told[c][j] = written'[c][j]
      <4>1. \A j \in 1 .. Len(told[c]) : j \in 1 .. Len(written[c])
        BY <1>3, <3>1
      <4>. QED
        BY <1>9, <4>1 DEF IInv, EchoHolds
    <3>. QED
      BY <1>8, <3>2 DEF IInv, EchoHolds
  <2>. QED
    BY <1>1, <2>3, <2>4, <2>5, <2>6, <2>7 DEF IInv, EchoHolds
<1>16. ChatHolds'
  <2>1. \A m : Passed(m) => Passed(m)'
    <3> TAKE m
    <3> HAVE Passed(m)
    <3>1. m \in Item /\ m.who \in Clients /\ m.i \in Nat
      BY Bounds DEF Passed, Item, IInv
    <3>2. CASE m.who # c
      BY <1>2, <1>8, <3>1, <3>2 DEF Passed
    <3>3. CASE m.who = c
      <4>1. m.i <= Len(written[c])
        BY <3>3 DEF Passed
      <4>2. m.i < item.i /\ m.i <= Len(written'[c])
        BY <1>3, <1>6, <1>9, <3>1, <4>1
      <4>3. \A i \in 1 .. Len(up'[c]) : up'[c][i] \in Item => m.i < up'[c][i].i
        BY <1>9, <1>10, <3>3, <4>2 DEF Passed
      <4>. QED
        BY <1>2, <3>1, <3>3, <4>2, <4>3 DEF Passed
    <3>. QED
      BY <3>2, <3>3
  <2>2. \A d, s : LinesFor(d, s) => LinesFor(d, s)'
    BY <2>1 DEF LinesFor
  <2>. QED
    BY <1>1, <2>2 DEF IInv, ChatHolds
<1>. QED
  BY <1>11, <1>12, <1>13, <1>14, <1>15, <1>16 DEF IInv

\* What a client has on its way when it closes or resets is a part of what it had,
\* from the beginning, and the end of the stream.
LEMMA CloseClientKeeps ==
  ASSUME IInv, NEW c \in Clients, CloseClient(c)
  PROVE  IInv'
<1>1. /\ cli[c] = "open" /\ cli' = [cli EXCEPT ![c] = "closed"]
      /\ mode' = mode /\ running' = running /\ pc' = pc /\ batch' = batch
      /\ users' = users /\ timers' = timers /\ told' = told /\ gone' = gone
      /\ written' = written /\ backlog' = backlog /\ idle' = idle
  BY DEF CloseClient, serverVars
<1>2. Item' = Item /\ Longest' = Longest /\ User' = User
  BY <1>1 DEF Item, Longest, User
<1> DEFINE Sent == Item \cup {Fin, Rst}
<1>3. up[c] \in Seq(Sent) /\ Len(up[c]) \in Nat
  BY DEF IInv, TypeOK
<1>4. PICK n \in 0 .. Len(up[c]), e \in {Fin, Rst} :
          up' = [up EXCEPT ![c] = Append(SubSeq(up[c], 1, n), e)]
  <2>1. CASE up' = [up EXCEPT ![c] = Append(@, Fin)]
    <3>1. SubSeq(up[c], 1, Len(up[c])) = up[c]
      BY <1>3, SubSeqFull
    <3>2. Len(up[c]) \in 0 .. Len(up[c])
      BY <1>3
    <3>. QED
      BY <2>1, <3>1, <3>2
  <2>2. CASE \E n \in 0 .. Len(up[c]) : up' = [up EXCEPT ![c] = Append(SubSeq(@, 1, n), Rst)]
    BY <2>2
  <2>. QED
    BY <2>1, <2>2 DEF CloseClient
<1>5. e \in Sent /\ e \notin Item
  BY ItemsApart
<1>6. /\ SubSeq(up[c], 1, n) \in Seq(Sent) /\ Len(SubSeq(up[c], 1, n)) = n
      /\ \A i \in 1 .. n : SubSeq(up[c], 1, n)[i] = up[c][i]
  BY <1>3, SubSeqProperties
<1>7. Append(SubSeq(up[c], 1, n), e) \in Seq(Sent)
  BY <1>5, <1>6
<1>8. /\ up'[c] = Append(SubSeq(up[c], 1, n), e)
      /\ \A d \in Clients : d # c => up'[d] = up[d] /\ cli'[d] = cli[d]
      /\ cli'[c] = "closed"
      /\ up' \in [Clients -> Seq(Sent)]
  BY <1>1, <1>4, <1>7 DEF IInv, TypeOK
<1>9. /\ Len(up'[c]) = n + 1 /\ up'[c] # << >> /\ up'[c][n + 1] \notin Item
      /\ \A i \in 1 .. n : up'[c][i] = up[c][i]
  <2>1. /\ Len(Append(SubSeq(up[c], 1, n), e)) = n + 1
        /\ Append(SubSeq(up[c], 1, n), e) # << >>
        /\ Append(SubSeq(up[c], 1, n), e)[n + 1] = e
        /\ \A i \in 1 .. n : Append(SubSeq(up[c], 1, n), e)[i] = SubSeq(up[c], 1, n)[i]
    BY <1>5, <1>6, AppendProperties
  <2>. QED
    BY <1>5, <1>6, <1>8, <2>1
<1>10. \A i \in 1 .. Len(up'[c]) : up'[c][i] \in Item =>
          i \in 1 .. n /\ i \in 1 .. Len(up[c]) /\ up'[c][i] = up[c][i]
  BY <1>3, <1>9
<1>11. up'[c][1] \in Item => up[c] # << >> /\ up'[c][1] = up[c][1]
  <2>1. 1 \in 1 .. Len(up'[c])
    BY <1>9
  <2>. QED
    BY <1>3, <1>10, <2>1
<1>12. TypeOK'
  BY <1>1, <1>2, <1>8 DEF IInv, TypeOK
<1>13. OneTimerEach' /\ OneInterest' /\ TimersAreLate'
  BY <1>1, <1>2 DEF IInv, OneTimerEach, OneInterest, TimersAreLate
<1>14. BatchHolds'
  <2>1. \A fd \in DOMAIN users : up[users[fd].who] # << >> => up'[users[fd].who] # << >>
    BY <1>8, <1>9 DEF IInv, TypeOK, User
  <2>. QED
    BY <1>1, <2>1 DEF IInv, BatchHolds
<1>15. ClientsApart'
  <2>1. \A d : d \in Clients /\ cli[d] # "init" => cli'[d] # "init"
    BY <1>8
  <2>2. (\A fd \in DOMAIN users : users[fd].who \in Clients) /\ gone \subseteq Clients
    BY DEF IInv, TypeOK, User
  <2>3. \A i \in 1 .. Len(backlog) : backlog[i] \in Clients
    BY DEF IInv, TypeOK
  <2>. QED
    BY <1>1, <2>1, <2>2, <2>3 DEF IInv, ClientsApart
<1>16. StreamsHold'
  <2>1. ASSUME NEW d \in Clients, d # c PROVE Written(d)' /\ OnItsWay(d)'
    <3>1. up'[d] = up[d] /\ cli'[d] = cli[d] /\ Written(d) /\ OnItsWay(d)
      BY <1>8, <2>1 DEF IInv, StreamsHold
    <3>. QED
      BY <1>1, <1>2, <3>1 DEF Written, OnItsWay
  <2>2. Written(c)'
    BY <1>1, <1>8 DEF IInv, StreamsHold, Written
  <2>3. \A i \in 1 .. Len(up'[c]) : up'[c][i] \in Item =>
           /\ up'[c][i].i <= Len(written[c]) /\ up'[c][i] = written[c][up'[c][i].i]
           /\ \A j \in 1 .. i : up'[c][j] \in Item
           /\ up'[c][i].i = up'[c][1].i + i - 1
    <3> TAKE i \in 1 .. Len(up'[c])
    <3> HAVE up'[c][i] \in Item
    <3>1. i \in 1 .. n /\ i \in 1 .. Len(up[c]) /\ up'[c][i] = up[c][i]
      BY <1>10
    <3>2. 1 \in 1 .. n /\ \A j \in 1 .. i : j \in 1 .. n
      BY <3>1
    <3>3. up'[c][1] = up[c][1] /\ \A j \in 1 .. i : up'[c][j] = up[c][j]
      BY <1>9, <3>2
    <3>. QED
      BY <3>1, <3>3 DEF IInv, StreamsHold, OnItsWay
  <2>4. OnItsWay(c)'
    BY <1>1, <1>2, <1>8, <2>3 DEF OnItsWay
  <2>. QED
    BY <2>1, <2>2, <2>4 DEF StreamsHold
<1>17. EchoHolds'
  <2>1. \A d \in Clients : \A k : HasRead(d, k) => HasRead(d, k)'
    BY <1>1, <1>2, <1>8, <1>9, <1>11 DEF HasRead
  <2>2. \A d \in Clients : \A s : Echoes(d, s) => Echoes(d, s)'
    BY <1>1, <2>1 DEF Echoes
  <2>3. \A fd \in DOMAIN users : users[fd].who \in Clients
    BY DEF IInv, TypeOK, User
  <2>. QED
    BY <1>1, <2>2, <2>3 DEF IInv, EchoHolds
<1>18. ChatHolds'
  <2>1. \A m : Passed(m) => Passed(m)'
    <3> TAKE m
    <3> HAVE Passed(m)
    <3>1. m \in Item /\ m.who \in Clients
      BY DEF Passed, Item
    <3>2. CASE m.who # c
      BY <1>1, <1>2, <1>8, <3>1, <3>2 DEF Passed
    <3>3. CASE m.who = c
      BY <1>1, <1>2, <1>10, <3>1, <3>3 DEF Passed
    <3>. QED
      BY <3>2, <3>3
  <2>2. \A d, s : LinesFor(d, s) => LinesFor(d, s)'
    BY <2>1 DEF LinesFor
  <2>. QED
    BY <1>1, <2>2 DEF IInv, ChatHolds
<1>. QED
  BY <1>12, <1>13, <1>14, <1>15, <1>16, <1>17, <1>18 DEF IInv

-----------------------------------------------------------------------------
(* The clock and the wait.                                                  *)

\* A step that leaves the streams and the map alone leaves what clients are told.
LEMMA FlowStays ==
  ASSUME IInv, UNCHANGED << mode, users, cli, up, written, told, gone >>
  PROVE  StreamsHold' /\ EchoHolds' /\ ChatHolds'
<1>1. Item' = Item
  BY DEF Item
<1>2. StreamsHold'
  <2>1. \A c \in Clients : (Written(c)' <=> Written(c)) /\ (OnItsWay(c)' <=> OnItsWay(c))
    BY <1>1 DEF Written, OnItsWay
  <2>. QED
    BY <2>1 DEF IInv, StreamsHold
<1>3. EchoHolds'
  <2>1. \A c, s : Echoes(c, s)' <=> Echoes(c, s)
    BY <1>1 DEF Echoes, HasRead
  <2>. QED
    BY <2>1 DEF IInv, EchoHolds
<1>4. ChatHolds'
  <2>1. \A c, s : LinesFor(c, s)' <=> LinesFor(c, s)
    BY <1>1 DEF LinesFor, Passed
  <2>. QED
    BY <2>1 DEF IInv, ChatHolds
<1>. QED
  BY <1>2, <1>3, <1>4

LEMMA MinOfTwo == \A a, b \in Int : Min({a, b}) = IF a <= b THEN a ELSE b
BY DEF Min

\* A tick takes one from every timer, and adds one to the idleness of everyone in the
\* map until that is as long as it can be.
LEMMA TickKeeps ==
  ASSUME IInv, Tick
  PROVE  IInv'
<1>1. /\ mode' = mode /\ running' = running /\ pc' = pc /\ batch' = batch
      /\ users' = users /\ told' = told /\ gone' = gone /\ up' = up
      /\ written' = written /\ cli' = cli /\ backlog' = backlog
  BY DEF Tick, clientVars
<1>2. Item' = Item /\ Longest' = Longest /\ User' = User
  BY <1>1 DEF Item, Longest, User
<1>3. /\ DOMAIN timers' = DOMAIN timers
      /\ \A tm \in DOMAIN timers :
            /\ timers[tm] \in [fd : Fds, left : -Late .. Timeout * FileTimes]
            /\ timers[tm].left > -Late
            /\ timers'[tm] = [timers[tm] EXCEPT !.left = @ - 1]
  BY DEF Tick, IInv, TypeOK
<1>4. \A tm \in DOMAIN timers :
          /\ timers'[tm] \in [fd : Fds, left : -Late .. Timeout * FileTimes]
          /\ timers'[tm].fd = timers[tm].fd
          /\ timers'[tm].left = timers[tm].left - 1
          /\ timers[tm].left \in Int
  <2> TAKE tm \in DOMAIN timers
  <2>1. PICK x : x = timers[tm].left
    OBVIOUS
  <2>2. x \in -Late .. Timeout * FileTimes /\ x > -Late
    BY <1>3, <2>1
  <2>3. x \in Int /\ x - 1 \in -Late .. Timeout * FileTimes
    BY <2>2, Bounds DEF IInv
  <2>. QED
    BY <1>3, <2>1, <2>3
<1>5. \A c \in Clients :
          /\ idle[c] \in 0 .. Longest
          /\ idle'[c] = IF \E fd \in DOMAIN users : users[fd].who = c
                        THEN IF idle[c] + 1 <= Longest THEN idle[c] + 1 ELSE Longest
                        ELSE idle[c]
  <2> TAKE c \in Clients
  <2>1. idle[c] \in 0 .. Longest
    BY DEF IInv, TypeOK
  <2>2. idle[c] + 1 \in Int /\ Longest \in Int
    BY <2>1, Bounds DEF IInv
  <2>. QED
    BY <2>1, <2>2, MinOfTwo DEF Tick
<1>6. idle' \in [Clients -> 0 .. Longest]
  <2>1. \A c \in Clients : idle'[c] \in 0 .. Longest
    BY <1>5, Bounds DEF IInv
  <2>2. idle' = [c \in Clients |-> idle'[c]]
    BY DEF Tick
  <2>. QED
    BY <2>1, <2>2
<1>7. TypeOK'
  BY <1>1, <1>2, <1>3, <1>4, <1>6 DEF IInv, TypeOK
<1>8. OneTimerEach'
  BY <1>1, <1>3, <1>4 DEF IInv, OneTimerEach
<1>9. OneInterest' /\ BatchHolds' /\ ClientsApart'
  BY <1>1 DEF IInv, OneInterest, BatchHolds, ClientsApart
<1>10. TimersAreLate'
  <2> SUFFICES ASSUME NEW fd \in DOMAIN users
               PROVE  \/ idle'[users[fd].who] = Longest
                      \/ idle'[users[fd].who] + timers'[users[fd].timer].left >= Timeout
    BY <1>1, <1>2 DEF TimersAreLate
  <2>1. users[fd].who \in Clients /\ users[fd].timer \in DOMAIN timers
    BY DEF IInv, TypeOK, User, OneTimerEach
  <2>2. PICK i, x : i = idle[users[fd].who] /\ x = timers[users[fd].timer].left
    OBVIOUS
  <2>3. /\ i \in 0 .. Longest /\ x \in Int /\ Longest \in Nat /\ Timeout \in Nat
        /\ i = Longest \/ i + x >= Timeout
        /\ idle'[users[fd].who] = IF i + 1 <= Longest THEN i + 1 ELSE Longest
        /\ timers'[users[fd].timer].left = x - 1
    BY <1>4, <1>5, <2>1, <2>2, Bounds DEF IInv, TimersAreLate
  <2>. QED
    BY <2>3
<1>11. StreamsHold' /\ EchoHolds' /\ ChatHolds'
  BY <1>1, FlowStays
<1>. QED
  BY <1>7, <1>8, <1>9, <1>10, <1>11 DEF IInv

\* The wait begins with no event left over.
LEMMA EpollWaitKeeps ==
  ASSUME IInv, EpollWait
  PROVE  IInv'
<1>1. /\ pc = "loop" /\ pc' \in {"forever", "timed"}
      /\ UNCHANGED << mode, running, batch, users, timers, told, gone, cli, written,
                      backlog, up, idle >>
  BY DEF EpollWait, clientVars
<1>2. Item' = Item /\ Longest' = Longest /\ User' = User
  BY <1>1 DEF Item, Longest, User
<1>3. batch = {} /\ batch' = {}
  BY <1>1 DEF IInv, BatchHolds
<1>4. TypeOK'
  BY <1>1, <1>2 DEF IInv, TypeOK
<1>5. OneTimerEach' /\ OneInterest' /\ TimersAreLate' /\ ClientsApart'
  BY <1>1, <1>2 DEF IInv, OneTimerEach, OneInterest, TimersAreLate, ClientsApart
<1>6. BatchHolds'
  BY <1>3 DEF BatchHolds
<1>7. StreamsHold' /\ EchoHolds' /\ ChatHolds'
  BY <1>1, FlowStays
<1>. QED
  BY <1>4, <1>5, <1>6, <1>7 DEF IInv

\* What epoll_wait returns is of connections in the map, one event of each.
LEMMA EpollReturnsKeeps ==
  ASSUME IInv, EpollReturns
  PROVE  IInv'
<1>1. /\ pc' = "batch" /\ batch' = Ready
      /\ UNCHANGED << mode, running, users, timers, told, gone, cli, written, backlog,
                      up, idle >>
  BY DEF EpollReturns, clientVars
<1>2. Item' = Item /\ Longest' = Longest /\ User' = User
  BY <1>1 DEF Item, Longest, User
<1>3. DOMAIN users \subseteq Fds
  BY DEF IInv, TypeOK
<1>4. Ready \subseteq Event
  BY <1>3 DEF Ready, Event, Listen
<1>5. \A fd : In(fd) \in Ready =>
         /\ fd \in DOMAIN users /\ "in" \in users[fd].interest
         /\ up[users[fd].who] # << >> /\ Out(fd) \notin Ready
  BY DEF Ready, In, Out, Listen
<1>6. \A fd : Out(fd) \in Ready => fd \in DOMAIN users /\ "out" \in users[fd].interest
  BY DEF Ready, Out, Listen
<1>7. Listen \in Ready => backlog # << >>
  <2>1. Listen.k = "accept" /\ "accept" # "in" /\ "accept" # "out"
    BY DEF Listen
  <2>2. \A k \in {"in", "out"} : \A fd : [k |-> k, fd |-> fd].k # "accept"
    OBVIOUS
  <2>. QED
    BY <2>1, <2>2 DEF Ready
<1>8. TypeOK'
  BY <1>1, <1>2, <1>4 DEF IInv, TypeOK
<1>9. OneTimerEach' /\ OneInterest' /\ TimersAreLate' /\ ClientsApart'
  BY <1>1, <1>2 DEF IInv, OneTimerEach, OneInterest, TimersAreLate, ClientsApart
<1>10. BatchHolds'
  <2>1. \A fd \in DOMAIN users :
           /\ "in" \in users[fd].interest => users[fd].interest = {"in"}
           /\ "out" \in users[fd].interest => users[fd].interest = {"out"}
    BY DEF IInv, OneInterest
  <2>. QED
    BY <1>1, <1>5, <1>6, <1>7, <2>1 DEF BatchHolds, In, Out
<1>11. StreamsHold' /\ EchoHolds' /\ ChatHolds'
  BY <1>1, FlowStays
<1>. QED
  BY <1>8, <1>9, <1>10, <1>11 DEF IInv

-----------------------------------------------------------------------------
(* Closing and accepting.                                                   *)

\* When connections are closed with their timers, and at most what is on its way from
\* their clients is dropped, the others are as they were.
LEMMA CloseKeeps ==
  ASSUME IInv, NEW fds \in SUBSET DOMAIN users,
         users' = UsersWithout(fds),
         timers' = Restrict(timers, DOMAIN timers \ {users[fd].timer : fd \in fds}),
         gone' = gone \cup {users[fd].who : fd \in fds},
         UNCHANGED << mode, cli, written, told, backlog, idle >>,
         up' \in [Clients -> Seq(Item \cup {Fin, Rst})],
         \A c \in Clients : up'[c] = up[c] \/ (c \in gone' /\ up'[c] = << >>)
  PROVE  /\ DOMAIN users' = DOMAIN users \ fds
         /\ \A fd \in DOMAIN users' : /\ users'[fd] = users[fd] /\ users[fd].who \notin gone'
                                      /\ up'[users[fd].who] = up[users[fd].who]
         /\ pc' \in {"loop", "batch"} /\ batch' \in SUBSET batch /\ running' = running
               => TypeOK'
         /\ OneTimerEach' /\ OneInterest' /\ ClientsApart' /\ TimersAreLate'
         /\ StreamsHold' /\ EchoHolds' /\ ChatHolds'
<1> DEFINE Freed == {users[fd].timer : fd \in fds}
<1>1. Item' = Item /\ Longest' = Longest /\ User' = User
  BY DEF Item, Longest, User
<1>2. /\ DOMAIN users' = DOMAIN users \ fds
      /\ \A fd \in DOMAIN users \ fds : users'[fd] = users[fd]
      /\ DOMAIN timers' = DOMAIN timers \ Freed
      /\ \A tm \in DOMAIN timers \ Freed : timers'[tm] = timers[tm]
  BY DEF UsersWithout, Restrict
<1>3. \A fd \in DOMAIN users :
         /\ users[fd] \in User /\ users[fd].who \in Clients
         /\ users[fd].timer \in DOMAIN timers /\ timers[users[fd].timer].fd = fd
  BY DEF IInv, TypeOK, User, OneTimerEach
<1>4. \A fd \in DOMAIN users \ fds : users[fd].who \notin gone'
  BY DEF IInv, ClientsApart
<1>5. \A fd \in DOMAIN users \ fds : up'[users[fd].who] = up[users[fd].who]
  BY <1>3, <1>4
<1>6. \A fd \in DOMAIN users \ fds : users[fd].timer \notin Freed
  BY <1>3
<1>7. OneTimerEach'
  <2>1. \A fd \in DOMAIN users' : /\ users'[fd].timer \in DOMAIN timers'
                                  /\ timers'[users'[fd].timer].fd = fd
    BY <1>2, <1>3, <1>6
  <2>2. ASSUME NEW tm \in DOMAIN timers \ Freed
        PROVE  timers[tm].fd \in DOMAIN users \ fds /\ users[timers[tm].fd].timer = tm
    BY DEF IInv, OneTimerEach
  <2>3. ASSUME NEW tm \in DOMAIN timers'
        PROVE  timers'[tm].fd \in DOMAIN users' /\ users'[timers'[tm].fd].timer = tm
    <3>1. tm \in DOMAIN timers \ Freed /\ timers'[tm] = timers[tm]
      BY <1>2
    <3>2. timers[tm].fd \in DOMAIN users \ fds /\ users[timers[tm].fd].timer = tm
      BY <2>2, <3>1
    <3>. QED
      BY <1>2, <3>1, <3>2
  <2>. QED
    BY <2>1, <2>3 DEF OneTimerEach
<1>8. OneInterest'
  BY <1>2 DEF IInv, OneInterest
<1>9. ClientsApart'
  <2>1. \A fd \in DOMAIN users : cli[users[fd].who] # "init"
    BY DEF IInv, ClientsApart
  <2>2. \A c \in gone' : cli[c] # "init"
    BY <2>1 DEF IInv, ClientsApart
  <2>3. \A i \in 1 .. Len(backlog) : backlog[i] \notin gone'
    BY DEF IInv, ClientsApart
  <2>. QED
    BY <1>2, <1>4, <2>2, <2>3 DEF IInv, ClientsApart
<1>10. TimersAreLate'
  BY <1>1, <1>2, <1>3, <1>6 DEF IInv, TimersAreLate
<1>11. StreamsHold'
  <2>1. ASSUME NEW c \in Clients PROVE Written(c)' /\ OnItsWay(c)'
    <3>1. CASE up'[c] = up[c]
      <4>1. Written(c) /\ OnItsWay(c) /\ (c \in gone => c \in gone')
        BY DEF IInv, StreamsHold
      <4>. QED
        BY <1>1, <3>1, <4>1 DEF Written, OnItsWay
    <3>2. CASE up'[c] = << >>
      <4>1. Written(c)
        BY DEF IInv, StreamsHold
      <4>. QED
        BY <1>1, <3>2, <4>1 DEF Written, OnItsWay
    <3>. QED
      BY <3>1, <3>2
  <2>. QED
    BY <2>1 DEF StreamsHold
<1>12. EchoHolds'
  <2> SUFFICES ASSUME mode = "echo" PROVE EchoHolds'
    BY DEF EchoHolds
  <2>1. \A c \in Clients : \A s : up'[c] = up[c] /\ Echoes(c, s) => Echoes(c, s)'
    BY <1>1 DEF Echoes, HasRead
  <2>2. \A fd \in DOMAIN users' :
           Echoes(users[fd].who, IF users[fd].interest = {"out"} THEN users[fd].buf
                                                                 ELSE << >>)'
    <3>1. \A fd \in DOMAIN users :
             Echoes(users[fd].who, IF users[fd].interest = {"out"} THEN users[fd].buf
                                                                   ELSE << >>)
      BY DEF IInv, EchoHolds
    <3>2. \A fd \in DOMAIN users' : fd \in DOMAIN users /\ users'[fd] = users[fd]
      BY <1>2
    <3>. QED
      BY <1>2, <1>3, <1>5, <2>1, <3>1, <3>2
  <2>3. ASSUME NEW c \in Clients, c \notin gone', \A fd \in DOMAIN users' : users'[fd].who # c
        PROVE  told[c] = << >> /\ Echoes(c, << >>)'
    <3>1. c \notin gone /\ \A fd \in DOMAIN users : users[fd].who # c
      BY <1>2, <2>3
    <3>2. up'[c] = up[c]
      BY <2>3
    <3>. QED
      BY <2>1, <3>1, <3>2 DEF IInv, EchoHolds
  <2>4. \A c \in Clients : /\ Len(told[c]) <= Len(written[c])
                           /\ \A j \in 1 .. Len(told[c]) : told[c][j] = written[c][j]
    BY DEF IInv, EchoHolds
  <2>. QED
    BY <2>2, <2>3, <2>4 DEF EchoHolds
<1>13. ChatHolds'
  <2>1. \A m : Passed(m) => Passed(m)'
    <3> TAKE m
    <3> HAVE Passed(m)
    <3>1. m \in Item /\ m.who \in Clients
      BY DEF Passed, Item
    <3>2. CASE up'[m.who] = up[m.who]
      BY <1>1, <3>1, <3>2 DEF Passed
    <3>3. CASE up'[m.who] = << >>
      BY <1>1, <3>1, <3>3 DEF Passed
    <3>. QED
      BY <3>1, <3>2, <3>3
  <2>2. \A c, s : LinesFor(c, s) => LinesFor(c, s)'
    BY <2>1 DEF LinesFor
  <2>. QED
    BY <1>2, <2>2 DEF IInv, ChatHolds
<1>14. ASSUME pc' \in {"loop", "batch"}, batch' \in SUBSET batch, running' = running
       PROVE  TypeOK'
  <2>1. gone' \subseteq Clients
    BY <1>3 DEF IInv, TypeOK
  <2>. QED
    BY <1>1, <1>2, <1>3, <1>14, <2>1 DEF IInv, TypeOK
<1>. QED
  BY <1>2, <1>4, <1>5, <1>7, <1>8, <1>9, <1>10, <1>11, <1>12, <1>13, <1>14

\* The connections of the timers that are up, and of no others, are closed.
LEMMA CheckExpiredKeeps ==
  ASSUME IInv, CheckExpired
  PROVE  IInv'
<1> DEFINE due == {tm \in DOMAIN timers : timers[tm].left = MinLeft}
           fds == {timers[tm].fd : tm \in due}
<1>1. /\ pc = "timed" /\ pc' = "loop"
      /\ users' = UsersWithout(fds)
      /\ timers' = Restrict(timers, DOMAIN timers \ due)
      /\ gone' = gone \cup {users[fd].who : fd \in fds}
      /\ UNCHANGED << mode, running, batch, told, cli, written, backlog, up, idle >>
  BY DEF CheckExpired, TimedOut, clientVars
<1>2. fds \in SUBSET DOMAIN users
  BY DEF IInv, OneTimerEach
<1>3. due = {users[fd].timer : fd \in fds}
  BY DEF IInv, OneTimerEach
<1>4. batch = {} /\ batch' = {}
  BY <1>1 DEF IInv, BatchHolds
<1>5. up' \in [Clients -> Seq(Item \cup {Fin, Rst})]
  BY <1>1 DEF IInv, TypeOK
<1>6. timers' = Restrict(timers, DOMAIN timers \ {users[fd].timer : fd \in fds})
  BY <1>1, <1>3
<1> HIDE DEF due, fds
<1>7. /\ TypeOK' /\ OneTimerEach' /\ OneInterest' /\ ClientsApart' /\ TimersAreLate'
      /\ StreamsHold' /\ EchoHolds' /\ ChatHolds'
  BY <1>1, <1>2, <1>4, <1>5, <1>6, CloseKeeps
<1>8. BatchHolds'
  BY <1>4 DEF BatchHolds
<1>. QED
  BY <1>7, <1>8 DEF IInv

\* What is left of a batch when its event e was taken.
LEMMA Handled ==
  ASSUME IInv, NEW e, Handling(e)
  PROVE  /\ running = TRUE /\ pc = "batch" /\ e \in batch /\ batch' = batch \ {e}
         /\ pc' \in {"loop", "batch"} /\ batch' \in SUBSET batch /\ batch' \subseteq Event
         /\ pc' # "batch" => batch' = {}
BY DEF Handling, IInv, TypeOK

\* The events of different connections are different.
LEMMA EventsApart ==
  /\ \A f, g : In(f) = In(g) => f = g
  /\ \A f, g : Out(f) = Out(g) => f = g
  /\ \A f, g : In(f) # Out(g)
  /\ \A f : In(f) # Listen /\ Out(f) # Listen
<1>1. \A f : In(f).k = "in" /\ In(f).fd = f /\ Out(f).k = "out" /\ Out(f).fd = f
  BY DEF In, Out
<1>2. Listen.k = "accept"
  BY DEF Listen
<1>. QED
  BY <1>1, <1>2

\* A connection that its client closed leaves the map with its timer.
LEMMA ProcReadClosedKeeps ==
  ASSUME IInv, NEW fd \in DOMAIN users, ProcReadClosed(fd)
  PROVE  IInv'
<1> DEFINE c == users[fd].who
<1>1. /\ Handling(In(fd))
      /\ users' = UsersWithout({fd})
      /\ timers' = Restrict(timers, DOMAIN timers \ {users[fd].timer})
      /\ gone' = gone \cup {c} /\ up' = [up EXCEPT ![c] = << >>]
      /\ UNCHANGED << mode, running, told, cli, written, backlog, idle >>
  BY DEF ProcReadClosed, In, clientVars
<1>2. c \in Clients /\ up \in [Clients -> Seq(Item \cup {Fin, Rst})]
  BY DEF IInv, TypeOK, User
<1>3. /\ up' \in [Clients -> Seq(Item \cup {Fin, Rst})]
      /\ \A d \in Clients : up'[d] = up[d] \/ (d \in gone' /\ up'[d] = << >>)
  <2>1. << >> \in Seq(Item \cup {Fin, Rst})
    OBVIOUS
  <2>. QED
    BY <1>1, <1>2, <2>1
<1>4. /\ {fd} \in SUBSET DOMAIN users
      /\ timers' = Restrict(timers, DOMAIN timers \ {users[g].timer : g \in {fd}})
      /\ gone' = gone \cup {users[g].who : g \in {fd}}
  BY <1>1
<1>5. /\ pc = "batch" /\ batch' = batch \ {In(fd)} /\ In(fd) \in batch
      /\ pc' \in {"loop", "batch"} /\ batch' \in SUBSET batch /\ batch' \subseteq Event
      /\ pc' # "batch" => batch' = {}
  BY <1>1, Handled
<1>6. /\ DOMAIN users' = DOMAIN users \ {fd}
      /\ \A g \in DOMAIN users' : users'[g] = users[g] /\ up'[users[g].who] = up[users[g].who]
      /\ TypeOK' /\ OneTimerEach' /\ OneInterest' /\ ClientsApart' /\ TimersAreLate'
      /\ StreamsHold' /\ EchoHolds' /\ ChatHolds'
  BY <1>1, <1>3, <1>4, <1>5, CloseKeeps
<1>7. BatchHolds'
  <2>1. \A g \in Fds : In(g) \in batch' => g # fd
    BY <1>5
  <2>2. \A g \in Fds : Out(g) \in batch' => g # fd
    BY <1>5 DEF IInv, BatchHolds
  <2>3. batch' \subseteq batch
    BY <1>5
  <2>. QED
    BY <1>1, <1>5, <1>6, <2>1, <2>2, <2>3 DEF IInv, BatchHolds
<1>. QED
  BY <1>6, <1>7 DEF IInv

\* Whoever is accepted gets a descriptor and a timer that nobody has.
LEMMA ProcAcceptKeeps ==
  ASSUME IInv, ProcAccept
  PROVE  IInv'
<1>1. PICK c, fd, tm : c = Head(backlog) /\ fd = Lowest(Fds, users) /\ tm = Lowest(Timers, timers)
  OBVIOUS
<1>2. PICK u, t : u = [who |-> c, interest |-> {"in"}, buf |-> << >>, timer |-> tm]
                  /\ t = [fd |-> fd, left |-> Timeout]
  OBVIOUS
<1>3. /\ Handling(Listen)
      /\ users' = With(users, fd, u) /\ timers' = With(timers, tm, t)
      /\ idle' = [idle EXCEPT ![c] = 0] /\ backlog' = Tail(backlog)
      /\ UNCHANGED << mode, running, told, gone, cli, written, up >>
  BY <1>1, <1>2 DEF ProcAccept, clientVars
<1>4. /\ pc = "batch" /\ batch' = batch \ {Listen} /\ Listen \in batch
      /\ pc' \in {"loop", "batch"} /\ batch' \in SUBSET batch /\ batch' \subseteq Event
      /\ pc' # "batch" => batch' = {}
  BY <1>3, Handled
<1>5. Item' = Item /\ Longest' = Longest /\ User' = User
  BY <1>3 DEF Item, Longest, User
<1>6. backlog # << >> /\ backlog \in Seq(Clients)
  BY <1>4 DEF IInv, BatchHolds, TypeOK
<1>7. /\ c = backlog[1] /\ c \in Clients /\ 1 \in 1 .. Len(backlog) /\ Len(backlog) \in Nat
      /\ backlog' \in Seq(Clients) /\ Len(backlog') = Len(backlog) - 1
      /\ \A i \in 1 .. Len(backlog') : backlog'[i] = backlog[i + 1] /\ i + 1 \in 1 .. Len(backlog)
  <2>1. /\ Tail(backlog) \in Seq(Clients) /\ Len(Tail(backlog)) = Len(backlog) - 1
        /\ \A i \in 1 .. Len(Tail(backlog)) : Tail(backlog)[i] = backlog[i + 1]
    BY <1>6, HeadTailProperties
  <2>2. Len(backlog) \in Nat /\ Len(backlog) > 0
    BY <1>6
  <2>. QED
    BY <1>1, <1>3, <1>6, <2>1, <2>2
<1>8. fd \in Fds \ DOMAIN users /\ tm \in Timers \ DOMAIN timers
  <2>1. TypeOK /\ OneTimerEach /\ ClientsApart
    BY DEF IInv
  <2>. QED
    BY <1>1, <1>6, <2>1, FreeDescriptor, FreeTimer
<1>9. /\ DOMAIN users' = DOMAIN users \cup {fd} /\ users'[fd] = u
      /\ \A g \in DOMAIN users : users'[g] = users[g]
      /\ DOMAIN timers' = DOMAIN timers \cup {tm} /\ timers'[tm] = t
      /\ \A tn \in DOMAIN timers : timers'[tn] = timers[tn]
  BY <1>3, <1>8 DEF With
<1>10. /\ c \notin gone /\ cli[c] # "init"
       /\ \A g \in DOMAIN users : users[g].who # c
  BY <1>7 DEF IInv, ClientsApart
<1>11. \A g \in DOMAIN users : users[g].who \in Clients
  BY DEF IInv, TypeOK, User
<1>12. /\ idle' \in [Clients -> 0 .. Longest] /\ idle'[c] = 0
       /\ \A d \in Clients : d # c => idle'[d] = idle[d]
  <2>1. 0 \in 0 .. Longest
    BY Bounds DEF IInv
  <2>. QED
    BY <1>3, <1>7, <2>1 DEF IInv, TypeOK
<1>13. u \in User /\ t \in [fd : Fds, left : -Late .. Timeout * FileTimes]
  <2>1. Timeout \in -Late .. Timeout * FileTimes
    BY Bounds DEF IInv
  <2>2. << >> \in Seq(Item \cup File) /\ {"in"} \in SUBSET {"in", "out"}
    OBVIOUS
  <2>. QED
    BY <1>2, <1>7, <1>8, <2>1, <2>2 DEF User
<1>14. TypeOK'
  BY <1>3, <1>4, <1>5, <1>7, <1>8, <1>9, <1>12, <1>13 DEF IInv, TypeOK
<1>15. OneTimerEach'
  <2>1. ASSUME NEW g \in DOMAIN users'
        PROVE  users'[g].timer \in DOMAIN timers' /\ timers'[users'[g].timer].fd = g
    <3>1. CASE g = fd
      BY <1>2, <1>9, <3>1
    <3>2. CASE g \in DOMAIN users
      BY <1>9, <3>2 DEF IInv, OneTimerEach
    <3>. QED
      BY <1>9, <3>1, <3>2
  <2>2. ASSUME NEW tn \in DOMAIN timers'
        PROVE  timers'[tn].fd \in DOMAIN users' /\ users'[timers'[tn].fd].timer = tn
    <3>1. CASE tn = tm
      BY <1>2, <1>9, <3>1
    <3>2. CASE tn \in DOMAIN timers
      BY <1>9, <3>2 DEF IInv, OneTimerEach
    <3>. QED
      BY <1>9, <3>1, <3>2
  <2>. QED
    BY <2>1, <2>2 DEF OneTimerEach
<1>16. OneInterest'
  BY <1>2, <1>9 DEF IInv, OneInterest
<1>17. BatchHolds'
  <2>1. \A g \in Fds : (In(g) \in batch' => In(g) \in batch /\ g \in DOMAIN users)
                       /\ (Out(g) \in batch' => Out(g) \in batch /\ g \in DOMAIN users)
    BY <1>4 DEF IInv, BatchHolds
  <2>2. Listen \notin batch'
    BY <1>4
  <2>3. \A g \in Fds : In(g) \in batch' => Out(g) \notin batch'
    BY <1>4, <2>1 DEF IInv, BatchHolds
  <2>4. \A g \in Fds : In(g) \in batch' =>
           g \in DOMAIN users' /\ up'[users'[g].who] # << >>
           /\ (mode' # "chat" => users'[g].interest = {"in"})
    BY <1>3, <1>9, <2>1 DEF IInv, BatchHolds
  <2>5. \A g \in Fds : Out(g) \in batch' =>
           g \in DOMAIN users' /\ users'[g].interest = {"out"}
    BY <1>9, <2>1 DEF IInv, BatchHolds
  <2>. QED
    BY <1>4, <2>2, <2>3, <2>4, <2>5 DEF BatchHolds
<1>18. ClientsApart'
  <2>1. \A g \in DOMAIN users' : (g = fd /\ users'[g].who = c)
                                 \/ (g \in DOMAIN users /\ users'[g].who = users[g].who)
    BY <1>2, <1>9
  <2>2. \A f, g \in DOMAIN users' : users'[f].who = users'[g].who => f = g
    BY <1>10, <2>1 DEF IInv, ClientsApart
  <2>3. \A g \in DOMAIN users' : cli[users'[g].who] # "init" /\ users'[g].who \notin gone
    BY <1>10, <2>1 DEF IInv, ClientsApart
  <2>4. \A i, j \in 1 .. Len(backlog') : backlog'[i] = backlog'[j] => i = j
    <3> TAKE i, j \in 1 .. Len(backlog')
    <3> HAVE backlog'[i] = backlog'[j]
    <3>1. i + 1 = j + 1
      BY <1>7 DEF IInv, ClientsApart
    <3>. QED
      BY <1>7, <3>1
  <2>5. ASSUME NEW i \in 1 .. Len(backlog')
        PROVE  /\ cli[backlog'[i]] # "init" /\ backlog'[i] \notin gone
               /\ \A g \in DOMAIN users' : users'[g].who # backlog'[i]
    <3>1. backlog'[i] = backlog[i + 1] /\ i + 1 \in 1 .. Len(backlog) /\ i + 1 # 1
      BY <1>7
    <3>2. backlog[i + 1] # c
      BY <1>7, <3>1 DEF IInv, ClientsApart
    <3>. QED
      BY <2>1, <3>1, <3>2 DEF IInv, ClientsApart
  <2>. QED
    BY <1>3, <2>2, <2>3, <2>4, <2>5 DEF IInv, ClientsApart
<1>19. TimersAreLate'
  <2>1. idle'[c] + Timeout >= Timeout
    BY <1>12, Bounds DEF IInv
  <2>2. \A g \in DOMAIN users : users[g].timer \in DOMAIN timers
    BY DEF IInv, OneTimerEach
  <2>. QED
    BY <1>2, <1>5, <1>9, <1>10, <1>11, <1>12, <2>1, <2>2 DEF IInv, TimersAreLate
<1>20. StreamsHold'
  <2>1. \A d \in Clients : (Written(d)' <=> Written(d)) /\ (OnItsWay(d)' <=> OnItsWay(d))
    BY <1>3, <1>5 DEF Written, OnItsWay
  <2>. QED
    BY <2>1 DEF IInv, StreamsHold
<1>21. EchoHolds'
  <2> SUFFICES ASSUME mode = "echo" PROVE EchoHolds'
    BY <1>3 DEF EchoHolds
  <2>1. \A d, s : Echoes(d, s)' <=> Echoes(d, s)
    BY <1>3, <1>5 DEF Echoes, HasRead
  <2>2. told[c] = << >> /\ Echoes(c, << >>)
    BY <1>7, <1>10 DEF IInv, EchoHolds
  <2>3. \A g \in DOMAIN users' :
           Echoes(users'[g].who, IF users'[g].interest = {"out"} THEN users'[g].buf
                                                                 ELSE << >>)
    <3> TAKE g \in DOMAIN users'
    <3>1. CASE g = fd
      BY <1>2, <1>9, <2>2, <3>1
    <3>2. CASE g \in DOMAIN users
      BY <1>9, <3>2 DEF IInv, EchoHolds
    <3>. QED
      BY <1>9, <3>1, <3>2
  <2>4. ASSUME NEW d \in Clients, d \notin gone, \A g \in DOMAIN users' : users'[g].who # d
        PROVE  told[d] = << >> /\ Echoes(d, << >>)
    <3>1. \A g \in DOMAIN users : users[g].who # d
      BY <1>9, <2>4
    <3>. QED
      BY <2>4, <3>1 DEF IInv, EchoHolds
  <2>. QED
    BY <1>3, <2>1, <2>3, <2>4 DEF IInv, EchoHolds
<1>22. ChatHolds'
  <2>1. \A d, s : LinesFor(d, s)' <=> LinesFor(d, s)
    BY <1>3, <1>5 DEF LinesFor, Passed
  <2>2. \A g \in DOMAIN users' : users'[g].interest = {"out"} =>
           g \in DOMAIN users /\ users'[g] = users[g]
    BY <1>2, <1>9
  <2>. QED
    BY <1>3, <2>1, <2>2 DEF IInv, ChatHolds
<1>. QED
  BY <1>14, <1>15, <1>16, <1>17, <1>18, <1>19, <1>20, <1>21, <1>22 DEF IInv

-----------------------------------------------------------------------------
(* Input and output.                                                        *)

\* The buffer goes out, and the connection waits for input again.
LEMMA HandleOutputKeeps ==
  ASSUME IInv, NEW fd \in DOMAIN users, HandleOutput(fd)
  PROVE  IInv'
<1>1. PICK c, b : c = users[fd].who /\ b = users[fd].buf
  OBVIOUS
<1>2. /\ Handling(Out(fd))
      /\ UNCHANGED << mode, timers, gone, cli, written, backlog, up, idle >>
  BY DEF HandleOutput, Out, clientVars
<1>3. /\ pc = "batch" /\ batch' = batch \ {Out(fd)} /\ Out(fd) \in batch
      /\ pc' \in {"loop", "batch"} /\ batch' \in SUBSET batch /\ batch' \subseteq Event
      /\ pc' # "batch" => batch' = {}
  BY <1>2, Handled
<1>4. Item' = Item /\ Longest' = Longest /\ User' = User
  BY <1>2 DEF Item, Longest, User
<1>5. users[fd] \in User /\ c \in Clients /\ b \in Seq(Item \cup File) /\ fd \in Fds
  BY <1>1 DEF IInv, TypeOK, User
<1>6. users[fd].interest = {"out"} /\ In(fd) \notin batch
  BY <1>3, <1>5 DEF IInv, BatchHolds
<1>7. /\ \A g \in Fds : In(g) \in batch' => In(g) \in batch /\ g # fd
      /\ \A g \in Fds : Out(g) \in batch' => Out(g) \in batch /\ g # fd
      /\ Listen \in batch' => Listen \in batch
  BY <1>3, <1>6
<1>8. CASE running' = FALSE /\ UNCHANGED << users, told >>
  <2>1. TypeOK'
    BY <1>2, <1>3, <1>4, <1>8 DEF IInv, TypeOK
  <2>2. OneTimerEach' /\ OneInterest' /\ TimersAreLate' /\ ClientsApart'
    BY <1>2, <1>4, <1>8 DEF IInv, OneTimerEach, OneInterest, TimersAreLate, ClientsApart
  <2>3. BatchHolds'
    BY <1>2, <1>3, <1>7, <1>8 DEF IInv, BatchHolds
  <2>4. StreamsHold' /\ EchoHolds' /\ ChatHolds'
    BY <1>2, <1>8, FlowStays
  <2>. QED
    BY <2>1, <2>2, <2>3, <2>4 DEF IInv
<1>9. CASE /\ told' = [told EXCEPT ![c] = @ \o b]
           /\ users' = [users EXCEPT ![fd].interest = AfterOutput]
           /\ running' = running
  <2>1. /\ DOMAIN users' = DOMAIN users /\ users'[fd] \in User
        /\ users'[fd].who = c /\ users'[fd].interest = {"in"}
        /\ users'[fd].timer = users[fd].timer /\ users'[fd].buf = b
        /\ \A g \in DOMAIN users : g # fd => users'[g] = users[g]
    <3>1. users'[fd] = [users[fd] EXCEPT !.interest = {"in"}]
      BY <1>9 DEF AfterOutput
    <3>2. {"in"} \in SUBSET {"in", "out"}
      OBVIOUS
    <3>. QED
      BY <1>1, <1>5, <1>9, <3>1, <3>2 DEF User
  <2>2. \A g \in DOMAIN users : users'[g].who = users[g].who /\ users'[g].timer = users[g].timer
    BY <1>1, <2>1
  <2>3. told[c] \in Seq(Item \cup File) /\ told[c] \o b \in Seq(Item \cup File)
    <3>1. told[c] \in Seq(Item \cup File)
      BY <1>5 DEF IInv, TypeOK
    <3>. QED
      BY <1>5, <3>1
  <2>4. /\ told'[c] = told[c] \o b /\ \A d \in Clients : d # c => told'[d] = told[d]
        /\ told' \in [Clients -> Seq(Item \cup File)]
    BY <1>5, <1>9, <2>3 DEF IInv, TypeOK
  <2>5. TypeOK'
    BY <1>2, <1>3, <1>4, <1>9, <2>1, <2>4 DEF IInv, TypeOK
  <2>6. OneTimerEach' /\ TimersAreLate'
    BY <1>2, <1>4, <2>1, <2>2 DEF IInv, OneTimerEach, TimersAreLate
  <2>7. ClientsApart'
    BY <1>2, <2>1, <2>2 DEF IInv, ClientsApart
  <2>8. OneInterest'
    BY <2>1 DEF IInv, OneInterest
  <2>9. BatchHolds'
    <3>1. \A g \in Fds : In(g) \in batch' =>
             /\ g \in DOMAIN users' /\ up[users'[g].who] # << >>
             /\ mode # "chat" => users'[g].interest = {"in"}
             /\ Out(g) \notin batch'
      BY <1>3, <1>7, <2>1 DEF IInv, BatchHolds
    <3>2. \A g \in Fds : Out(g) \in batch' => g \in DOMAIN users' /\ users'[g].interest = {"out"}
      BY <1>7, <2>1 DEF IInv, BatchHolds
    <3>3. Listen \in batch' => backlog # << >>
      BY <1>7 DEF IInv, BatchHolds
    <3>. QED
      BY <1>2, <1>3, <3>1, <3>2, <3>3 DEF BatchHolds
  <2>10. StreamsHold'
    <3>1. \A d \in Clients : (Written(d)' <=> Written(d)) /\ (OnItsWay(d)' <=> OnItsWay(d))
      BY <1>2, <1>4 DEF Written, OnItsWay
    <3>. QED
      BY <3>1 DEF IInv, StreamsHold
  <2>11. EchoHolds'
    <3> SUFFICES ASSUME mode = "echo" PROVE EchoHolds'
      BY <1>2 DEF EchoHolds
    <3>1. \A d \in Clients : \A s : d # c /\ Echoes(d, s) => Echoes(d, s)'
      BY <1>2, <1>4, <2>4 DEF Echoes, HasRead
    <3>2. Echoes(c, b)
      BY <1>1, <1>6 DEF IInv, EchoHolds
    <3>3. /\ Len(told[c]) \in Nat /\ Len(b) \in Nat
          /\ Len(told'[c]) = Len(told[c]) + Len(b)
          /\ \A j \in 1 .. Len(told'[c]) :
                told'[c][j] = IF j <= Len(told[c]) THEN told[c][j] ELSE b[j - Len(told[c])]
      BY <1>5, <2>3, <2>4, ConcatProperties
    <3>4. \A j \in 1 .. Len(told'[c]) : told'[c][j] = written[c][j]
      <4> TAKE j \in 1 .. Len(told'[c])
      <4>1. CASE j <= Len(told[c])
        <5>1. j \in 1 .. Len(told[c])
          BY <3>3, <4>1
        <5>. QED
          BY <3>2, <3>3, <4>1, <5>1 DEF Echoes
      <4>2. CASE ~(j <= Len(told[c]))
        <5>1. j - Len(told[c]) \in 1 .. Len(b) /\ Len(told[c]) + (j - Len(told[c])) = j
          BY <3>3, <4>2
        <5>2. b[j - Len(told[c])] = written[c][Len(told[c]) + (j - Len(told[c]))]
          BY <3>2, <5>1 DEF Echoes
        <5>. QED
          BY <3>3, <4>2, <5>1, <5>2
      <4>. QED
        BY <4>1, <4>2
    <3>5. Len(told'[c]) <= Len(written[c])
      BY <3>2, <3>3 DEF Echoes
    <3>6. HasRead(c, Len(told'[c]))
      BY <3>2, <3>3 DEF Echoes
    <3>7. Len(told'[c]) + Len(<< >>) = Len(told'[c]) /\ 1 .. Len(<< >>) = {}
      BY <3>3
    <3>8. Echoes(c, << >>)'
      BY <1>2, <1>4, <3>4, <3>5, <3>6, <3>7 DEF Echoes, HasRead
    <3>9. \A g \in DOMAIN users' :
             Echoes(users[g].who, IF users[g].interest = {"out"} THEN users[g].buf
                                                                 ELSE << >>)'
      <4> TAKE g \in DOMAIN users'
      <4>1. CASE g = fd
        BY <2>1, <3>8, <4>1
      <4>2. CASE g # fd
        <5>1. users'[g] = users[g] /\ users[g].who \in Clients /\ users[g].who # c
          BY <1>1, <2>1, <4>2 DEF IInv, ClientsApart, TypeOK, User
        <5>2. Echoes(users[g].who, IF users[g].interest = {"out"} THEN users[g].buf
                                                                  ELSE << >>)
          BY <2>1 DEF IInv, EchoHolds
        <5>3. PICK d, s : /\ d = users[g].who
                          /\ s = IF users[g].interest = {"out"} THEN users[g].buf ELSE << >>
          OBVIOUS
        <5>4. Echoes(d, s)'
          BY <3>1, <5>1, <5>2, <5>3
        <5>. QED
          BY <5>1, <5>3, <5>4
      <4>. QED
        BY <4>1, <4>2
    <3>10. ASSUME NEW d \in Clients
           PROVE  /\ Len(told'[d]) <= Len(written[d])
                  /\ \A j \in 1 .. Len(told'[d]) : told'[d][j] = written[d][j]
      <4>1. CASE d = c
        BY <3>4, <3>5, <4>1
      <4>2. CASE d # c
        BY <2>4, <4>2 DEF IInv, EchoHolds
      <4>. QED
        BY <4>1, <4>2
    <3>11. ASSUME NEW d \in Clients, d \notin gone, \A g \in DOMAIN users' : users'[g].who # d
           PROVE  told'[d] = << >> /\ Echoes(d, << >>)'
      <4>1. d # c /\ \A g \in DOMAIN users : users[g].who # d
        BY <2>1, <2>2, <3>11
      <4>. QED
        BY <2>4, <3>1, <3>11, <4>1 DEF IInv, EchoHolds
    <3>. QED
      BY <1>2, <3>9, <3>10, <3>11 DEF EchoHolds
  <2>12. ChatHolds'
    <3> SUFFICES ASSUME mode = "chat" PROVE ChatHolds'
      BY <1>2 DEF ChatHolds
    <3>1. \A d, s : LinesFor(d, s)' <=> LinesFor(d, s)
      BY <1>2, <1>4 DEF LinesFor, Passed
    <3>2. LinesFor(c, told[c] \o b)
      BY <1>1, <1>6 DEF IInv, ChatHolds
    <3>3. \A d \in Clients : LinesFor(d, told'[d])
      BY <2>4, <3>2 DEF IInv, ChatHolds
    <3>4. \A g \in DOMAIN users' : users'[g].interest = {"out"} =>
             LinesFor(users'[g].who, told'[users'[g].who] \o users'[g].buf)
      <4> TAKE g \in DOMAIN users'
      <4> HAVE users'[g].interest = {"out"}
      <4>1. g # fd /\ users'[g] = users[g]
        BY <2>1
      <4>2. users[g].who \in Clients /\ users[g].who # c
        BY <1>1, <2>1, <4>1 DEF IInv, ClientsApart, TypeOK, User
      <4>. QED
        BY <2>1, <2>4, <4>1, <4>2 DEF IInv, ChatHolds
    <3>. QED
      BY <1>2, <3>1, <3>3, <3>4 DEF ChatHolds
  <2>. QED
    BY <2>5, <2>6, <2>7, <2>8, <2>9, <2>10, <2>11, <2>12 DEF IInv
<1>. QED
  BY <1>1, <1>8, <1>9 DEF HandleOutput

\* Whose connection it is and which timer it has does not change with what is read; a
\* connection is told to wait for output, or is as it was.
LEMMA AfterDataIs ==
  ASSUME IInv, NEW fd \in DOMAIN users, NEW data \in Seq(Item)
  PROVE  /\ DOMAIN AfterData(fd, data) = DOMAIN users
         /\ \A g \in DOMAIN users :
               /\ AfterData(fd, data)[g] \in User
               /\ AfterData(fd, data)[g].who = users[g].who
               /\ AfterData(fd, data)[g].timer = users[g].timer
               /\ \/ AfterData(fd, data)[g] = users[g]
                  \/ AfterData(fd, data)[g].interest = {"out"}
         /\ mode # "chat" => /\ AfterData(fd, data)[fd].interest = {"out"}
                             /\ \A g \in DOMAIN users : g # fd => AfterData(fd, data)[g] = users[g]
         /\ mode = "echo" => AfterData(fd, data)[fd].buf = data
         /\ mode = "chat" => /\ AfterData(fd, data)[fd] = users[fd]
                             /\ \A g \in DOMAIN users : g # fd => AfterData(fd, data)[g].buf = data
<1>1. \A g \in DOMAIN users : users[g] \in User
  BY DEF IInv, TypeOK
<1>2. data \in Seq(Item \cup File) /\ {"out"} \in SUBSET {"in", "out"}
  OBVIOUS
<1>3. mode \in {"echo", "chat", "transfile"}
  BY ServerAssumption DEF IInv, TypeOK
<1> DEFINE Told(g, s) == [users[g] EXCEPT !.buf = s, !.interest = {"out"}]
<1>4. ASSUME NEW g \in DOMAIN users, NEW s \in Seq(Item \cup File)
      PROVE  /\ Told(g, s) \in User /\ Told(g, s).who = users[g].who
             /\ Told(g, s).timer = users[g].timer
             /\ Told(g, s).interest = {"out"} /\ Told(g, s).buf = s
  BY <1>1, <1>2 DEF User
<1>5. PICK A : A = AfterData(fd, data)
  OBVIOUS
<1>6. CASE mode = "echo"
  <2>1. A = [users EXCEPT ![fd].buf = data, ![fd].interest = {"out"}]
    BY <1>5, <1>6 DEF AfterData
  <2>2. /\ DOMAIN A = DOMAIN users /\ A[fd] = Told(fd, data)
        /\ \A g \in DOMAIN users : g # fd => A[g] = users[g]
    BY <2>1
  <2> HIDE DEF Told
  <2>3. /\ A[fd] \in User /\ A[fd].who = users[fd].who /\ A[fd].timer = users[fd].timer
        /\ A[fd].interest = {"out"} /\ A[fd].buf = data
    BY <1>2, <1>4, <2>2
  <2>4. \A g \in DOMAIN users : /\ A[g] \in User /\ A[g].who = users[g].who
                                /\ A[g].timer = users[g].timer
                                /\ A[g] = users[g] \/ A[g].interest = {"out"}
    BY <1>1, <2>2, <2>3
  <2>. QED
    BY <1>5, <1>6, <2>2, <2>3, <2>4
<1>7. CASE mode = "chat"
  <2>1. A = [f \in DOMAIN users |->
               IF f \in DOMAIN users \ {fd}
               THEN [users[f] EXCEPT !.buf = data, !.interest = {"out"}]
               ELSE users[f]]
    BY <1>5, <1>7 DEF AfterData, Audience
  <2>2. /\ DOMAIN A = DOMAIN users /\ A[fd] = users[fd]
        /\ \A g \in DOMAIN users : g # fd => A[g] = Told(g, data)
    BY <2>1
  <2> HIDE DEF Told
  <2>3. \A g \in DOMAIN users : g # fd =>
           /\ A[g] \in User /\ A[g].who = users[g].who /\ A[g].timer = users[g].timer
           /\ A[g].interest = {"out"} /\ A[g].buf = data
    BY <1>2, <1>4, <2>2
  <2>4. \A g \in DOMAIN users : /\ A[g] \in User /\ A[g].who = users[g].who
                                /\ A[g].timer = users[g].timer
                                /\ A[g] = users[g] \/ A[g].interest = {"out"}
    BY <1>1, <2>2, <2>3
  <2>. QED
    BY <1>5, <1>7, <2>2, <2>3, <2>4
<1>8. CASE mode = "transfile"
  <2>1. PICK s : s = IF Len(data) = 1 /\ data[1].name \in Files
                     THEN << [file |-> data[1].name] >> ELSE users[fd].buf
    OBVIOUS
  <2>2. s \in Seq(Item \cup File)
    <3>1. users[fd].buf \in Seq(Item \cup File)
      BY <1>1 DEF User
    <3>2. \A f \in Files : << [file |-> f] >> \in Seq(Item \cup File)
      BY DEF File
    <3>. QED
      BY <2>1, <3>1, <3>2
  <2>3. A = [users EXCEPT ![fd].buf = s, ![fd].interest = {"out"}]
    BY <1>5, <1>8, <2>1 DEF AfterData
  <2>4. /\ DOMAIN A = DOMAIN users /\ A[fd] = Told(fd, s)
        /\ \A g \in DOMAIN users : g # fd => A[g] = users[g]
    BY <2>3
  <2> HIDE DEF Told
  <2>5. /\ A[fd] \in User /\ A[fd].who = users[fd].who /\ A[fd].timer = users[fd].timer
        /\ A[fd].interest = {"out"}
    BY <1>4, <2>2, <2>4
  <2>6. \A g \in DOMAIN users : /\ A[g] \in User /\ A[g].who = users[g].who
                                /\ A[g].timer = users[g].timer
                                /\ A[g] = users[g] \/ A[g].interest = {"out"}
    BY <1>1, <2>4, <2>5
  <2>. QED
    BY <1>5, <1>8, <2>4, <2>5, <2>6
<1>. QED
  BY <1>3, <1>6, <1>7, <1>8

\* The connection that data came from has a new timer and the full time; what was read
\* is in the buffers it goes to, and comes before what is still on its way.
LEMMA ProcReadDataKeeps ==
  ASSUME IInv, NEW fd \in DOMAIN users, ProcReadData(fd)
  PROVE  IInv'
<1>1. PICK c, tm : c = users[fd].who /\ tm = Lowest(Timers, timers)
  OBVIOUS
<1>2. PICK n \in 1 .. Len(up[c]) :
          /\ \A i \in 1 .. n : up[c][i] \in Item
          /\ users' = [AfterData(fd, SubSeq(up[c], 1, n)) EXCEPT ![fd].timer = tm]
          /\ up' = [up EXCEPT ![c] = SubSeq(@, n + 1, Len(@))]
  BY <1>1 DEF ProcReadData
<1>3. /\ Handling(In(fd))
      /\ timers' = RestartTimer(fd, tm, Longest)
      /\ idle' = [idle EXCEPT ![c] = 0]
      /\ UNCHANGED << mode, running, told, gone, cli, written, backlog >>
  BY <1>1 DEF ProcReadData, In, clientVars
<1>4. /\ pc = "batch" /\ batch' = batch \ {In(fd)} /\ In(fd) \in batch
      /\ pc' \in {"loop", "batch"} /\ batch' \in SUBSET batch /\ batch' \subseteq Event
      /\ pc' # "batch" => batch' = {}
  BY <1>3, Handled
<1>5. Item' = Item /\ Longest' = Longest /\ User' = User
  BY <1>3 DEF Item, Longest, User
<1> DEFINE Sent == Item \cup {Fin, Rst}
<1>6. /\ c \in Clients /\ fd \in Fds /\ users[fd].timer \in DOMAIN timers
      /\ up[c] \in Seq(Sent) /\ Len(up[c]) \in Nat /\ n \in Nat /\ n >= 1 /\ n <= Len(up[c])
  <2>1. c \in Clients /\ fd \in Fds /\ users[fd].timer \in DOMAIN timers
    BY <1>1 DEF IInv, TypeOK, User, OneTimerEach
  <2>2. up[c] \in Seq(Sent) /\ Len(up[c]) \in Nat
    BY <2>1 DEF IInv, TypeOK
  <2>. QED
    BY <1>2, <2>1, <2>2
<1>7. PICK data : data = SubSeq(up[c], 1, n)
  OBVIOUS
<1>8. data \in Seq(Item) /\ Len(data) = n /\ \A i \in 1 .. n : data[i] = up[c][i]
  <2>1. \A q \in Seq(Sent) : n <= Len(q) => /\ SubSeq(q, 1, n) = [i \in 1 .. n |-> q[i]]
    BY <1>6
  <2>2. data = [i \in 1 .. n |-> up[c][i]]
    BY <1>6, <1>7, <2>1
  <2>3. \A i \in 1 .. n : up[c][i] \in Item
    BY <1>2
  <2>. QED
    BY <1>6, <2>2, <2>3
<1>9. PICK rest : rest = SubSeq(up[c], n + 1, Len(up[c]))
  OBVIOUS
<1>10. /\ rest \in Seq(Sent) /\ Len(rest) = Len(up[c]) - n
       /\ \A i \in 1 .. Len(rest) : rest[i] = up[c][n + i] /\ n + i \in 1 .. Len(up[c])
  <2>1. /\ SubSeq(up[c], n + 1, Len(up[c])) \in Seq(Sent)
        /\ Len(SubSeq(up[c], n + 1, Len(up[c]))) = Len(up[c]) - n
        /\ \A i \in 1 .. Len(up[c]) - n : SubSeq(up[c], n + 1, Len(up[c]))[i] = up[c][n + i]
    BY <1>6
  <2>2. \A i \in 1 .. Len(up[c]) - n : n + i \in 1 .. Len(up[c])
    BY <1>6
  <2>. QED
    BY <1>9, <2>1, <2>2
<1>11. /\ up'[c] = rest /\ \A d \in Clients : d # c => up'[d] = up[d]
       /\ up' \in [Clients -> Seq(Sent)]
  BY <1>2, <1>6, <1>9, <1>10 DEF IInv, TypeOK
<1>12. PICK A : A = AfterData(fd, data)
  OBVIOUS
<1>13. /\ DOMAIN A = DOMAIN users
       /\ \A g \in DOMAIN users :
             /\ A[g] \in User /\ A[g].who = users[g].who /\ A[g].timer = users[g].timer
             /\ A[g] = users[g] \/ A[g].interest = {"out"}
       /\ mode # "chat" => /\ A[fd].interest = {"out"}
                           /\ \A g \in DOMAIN users : g # fd => A[g] = users[g]
       /\ mode = "echo" => A[fd].buf = data
       /\ mode = "chat" => /\ A[fd] = users[fd]
                           /\ \A g \in DOMAIN users : g # fd => A[g].buf = data
  BY <1>8, <1>12, AfterDataIs
<1>14. tm \in Timers \ DOMAIN timers
  BY <1>1, FreeTimer DEF IInv
<1>15. /\ DOMAIN users' = DOMAIN users
       /\ \A g \in DOMAIN users : g # fd => users'[g] = A[g]
       /\ users'[fd] \in User /\ users'[fd].timer = tm
       /\ users'[fd].who = c /\ users'[fd].interest = A[fd].interest
       /\ users'[fd].buf = A[fd].buf
  <2>1. users' = [A EXCEPT ![fd].timer = tm]
    BY <1>2, <1>7, <1>12
  <2>2. A[fd] \in User /\ A[fd].who = c
    BY <1>1, <1>13
  <2>. QED
    BY <1>13, <1>14, <2>1, <2>2 DEF User
<1>16. /\ \A g \in DOMAIN users : users'[g].who = users[g].who /\ users'[g] \in User
       /\ \A g \in DOMAIN users : g # fd => users'[g].timer = users[g].timer
       /\ \A g \in DOMAIN users : users'[g].interest \in {users[g].interest, {"out"}}
  BY <1>1, <1>13, <1>15
<1>17. /\ DOMAIN timers' = (DOMAIN timers \ {users[fd].timer}) \cup {tm}
       /\ timers'[tm] = [fd |-> fd, left |-> Longest]
       /\ \A tn \in DOMAIN timers \ {users[fd].timer} : timers'[tn] = timers[tn]
  BY <1>3, <1>14 DEF RestartTimer, With, Restrict
<1>18. /\ idle' \in [Clients -> 0 .. Longest] /\ idle'[c] = 0
       /\ \A d \in Clients : d # c => idle'[d] = idle[d]
  <2>1. 0 \in 0 .. Longest
    BY Bounds DEF IInv
  <2>. QED
    BY <1>3, <1>6, <2>1 DEF IInv, TypeOK
<1>19. \A g \in DOMAIN users : /\ users[g].who \in Clients /\ users[g].timer \in DOMAIN timers
                               /\ g # fd => /\ users[g].who # c
                                            /\ users[g].timer # users[fd].timer
  BY <1>1 DEF IInv, TypeOK, User, ClientsApart, OneTimerEach
<1>20. TypeOK'
  <2>1. [fd |-> fd, left |-> Longest] \in [fd : Fds, left : -Late .. Timeout * FileTimes]
    <3>1. Longest \in -Late .. Timeout * FileTimes
      BY Bounds DEF IInv
    <3>. QED
      BY <1>6, <3>1
  <2>2. \A tn \in DOMAIN timers' : timers'[tn] \in [fd : Fds, left : -Late .. Timeout * FileTimes]
    BY <1>17, <2>1 DEF IInv, TypeOK
  <2>. QED
    BY <1>3, <1>4, <1>5, <1>11, <1>14, <1>15, <1>16, <1>17, <1>18, <2>2 DEF IInv, TypeOK
<1>21. OneTimerEach'
  <2>1. ASSUME NEW g \in DOMAIN users'
        PROVE  users'[g].timer \in DOMAIN timers' /\ timers'[users'[g].timer].fd = g
    <3>1. CASE g = fd
      BY <1>15, <1>17, <3>1
    <3>2. CASE g # fd
      <4>1. /\ users'[g].timer = users[g].timer
            /\ users[g].timer \in DOMAIN timers \ {users[fd].timer}
            /\ timers[users[g].timer].fd = g
        BY <1>15, <1>16, <1>19, <3>2 DEF IInv, OneTimerEach
      <4>. QED
        BY <1>17, <4>1
    <3>. QED
      BY <3>1, <3>2
  <2>2. ASSUME NEW tn \in DOMAIN timers'
        PROVE  timers'[tn].fd \in DOMAIN users' /\ users'[timers'[tn].fd].timer = tn
    <3>1. CASE tn = tm
      BY <1>15, <1>17, <3>1
    <3>2. CASE tn # tm
      <4>1. /\ tn \in DOMAIN timers /\ tn # users[fd].timer /\ timers'[tn] = timers[tn]
            /\ timers[tn].fd \in DOMAIN users /\ users[timers[tn].fd].timer = tn
        BY <1>17, <3>2 DEF IInv, OneTimerEach
      <4>. QED
        BY <1>15, <1>16, <4>1
    <3>. QED
      BY <3>1, <3>2
  <2>. QED
    BY <2>1, <2>2 DEF OneTimerEach
<1>22. OneInterest'
  BY <1>15, <1>16 DEF IInv, OneInterest
<1>23. BatchHolds'
  <2>1. \A g \in Fds : In(g) \in batch' => In(g) \in batch /\ g # fd
    BY <1>4
  <2>2. \A g \in Fds : Out(g) \in batch' => Out(g) \in batch
    BY <1>4
  <2>3. \A g \in Fds : In(g) \in batch' =>
           /\ g \in DOMAIN users' /\ up'[users'[g].who] # << >>
           /\ mode # "chat" => users'[g].interest = {"in"}
           /\ Out(g) \notin batch'
    <3> TAKE g \in Fds
    <3> HAVE In(g) \in batch'
    <3>1. /\ g # fd /\ g \in DOMAIN users /\ up[users[g].who] # << >>
          /\ mode # "chat" => users[g].interest = {"in"}
          /\ Out(g) \notin batch
      BY <2>1 DEF IInv, BatchHolds
    <3>. QED
      BY <1>11, <1>13, <1>15, <1>16, <1>19, <2>2, <3>1
  <2>4. \A g \in Fds : Out(g) \in batch' => g \in DOMAIN users' /\ users'[g].interest = {"out"}
    BY <1>15, <1>16, <2>2 DEF IInv, BatchHolds
  <2>5. Listen \in batch' => backlog # << >>
    BY <1>4 DEF IInv, BatchHolds
  <2>. QED
    BY <1>3, <1>4, <2>3, <2>4, <2>5 DEF BatchHolds
<1>24. ClientsApart'
  BY <1>3, <1>15, <1>16 DEF IInv, ClientsApart
<1>25. TimersAreLate'
  <2> SUFFICES ASSUME NEW g \in DOMAIN users
               PROVE  \/ idle'[users[g].who] = Longest
                      \/ idle'[users[g].who] + timers'[users'[g].timer].left >= Timeout
    BY <1>5, <1>15, <1>16 DEF TimersAreLate
  <2>1. CASE g = fd
    <3>1. timers'[users'[g].timer].left = Longest /\ idle'[users[g].who] = 0
      BY <1>1, <1>15, <1>17, <1>18, <2>1
    <3>. QED
      BY <3>1, Bounds DEF IInv
  <2>2. CASE g # fd
    <3>1. /\ idle'[users[g].who] = idle[users[g].who]
          /\ timers'[users'[g].timer] = timers[users[g].timer]
      BY <1>16, <1>17, <1>18, <1>19, <2>2
    <3>. QED
      BY <3>1 DEF IInv, TimersAreLate
  <2>. QED
    BY <2>1, <2>2
<1>26. /\ up[c][1] \in Item /\ up[c][1].i \in Nat /\ up[c][1].i >= 1
       /\ Len(written[c]) \in Nat
       /\ \A i \in 1 .. Len(up[c]) : up[c][i] \in Item =>
             /\ up[c][i].i = up[c][1].i + i - 1 /\ up[c][i].i <= Len(written[c])
             /\ up[c][i] = written[c][up[c][i].i] /\ up[c][i].who = c
             /\ \A j \in 1 .. i : up[c][j] \in Item
  <2>1. up[c][1] \in Item
    BY <1>2, <1>6
  <2>2. \A x \in Item : x.i \in Nat /\ x.i >= 1
    BY Bounds DEF IInv, Item
  <2>3. written[c] \in Seq(Item) /\ Len(written[c]) \in Nat
    BY <1>6 DEF IInv, TypeOK
  <2>4. \A i \in 1 .. Len(up[c]) : up[c][i] \in Item =>
             /\ up[c][i].i = up[c][1].i + i - 1 /\ up[c][i].i <= Len(written[c])
             /\ up[c][i] = written[c][up[c][i].i]
             /\ \A j \in 1 .. i : up[c][j] \in Item
    BY <1>6 DEF IInv, StreamsHold, OnItsWay
  <2>5. \A k \in 1 .. Len(written[c]) : written[c][k].who = c
    BY <1>6 DEF IInv, StreamsHold, Written
  <2>6. \A i \in 1 .. Len(up[c]) : up[c][i] \in Item => up[c][i].i \in 1 .. Len(written[c])
    BY <2>2, <2>3, <2>4
  <2>7. \A i \in 1 .. Len(up[c]) : up[c][i] \in Item => up[c][i].who = c
    <3> SUFFICES ASSUME NEW i \in 1 .. Len(up[c]), up[c][i] \in Item PROVE up[c][i].who = c
      OBVIOUS
    <3>1. up[c][i] = written[c][up[c][i].i] /\ up[c][i].i \in 1 .. Len(written[c])
      BY <2>4, <2>6
    <3>. QED
      BY <2>5, <3>1
  <2>8. up[c][1].i \in Nat /\ up[c][1].i >= 1
    BY <2>1, <2>2
  <2>. QED
    BY <2>1, <2>3, <2>4, <2>7, <2>8
<1>27. PICK first \in Nat : first = up[c][1].i
  BY <1>26
<1>28. /\ first >= 1
       /\ \A i \in 1 .. n : data[i].i = first + i - 1 /\ data[i].who = c
                            /\ data[i] = written[c][first + i - 1]
                            /\ first + i - 1 <= Len(written[c])
       /\ \A i \in 1 .. Len(rest) : rest[i] \in Item =>
             /\ rest[i].i = first + n + i - 1 /\ first + n + i - 1 <= Len(written[c])
             /\ rest[i] = written[c][first + n + i - 1]
             /\ \A j \in 1 .. i : rest[j] \in Item
  <2>1. ASSUME NEW i \in 1 .. n
        PROVE  data[i].i = first + i - 1 /\ data[i].who = c
               /\ data[i] = written[c][first + i - 1] /\ first + i - 1 <= Len(written[c])
    <3>1. i \in 1 .. Len(up[c]) /\ up[c][i] \in Item /\ data[i] = up[c][i]
      BY <1>2, <1>6, <1>8
    <3>. QED
      BY <1>26, <1>27, <3>1
  <2>2. ASSUME NEW i \in 1 .. Len(rest), rest[i] \in Item
        PROVE  /\ rest[i].i = first + n + i - 1 /\ first + n + i - 1 <= Len(written[c])
               /\ rest[i] = written[c][first + n + i - 1]
               /\ \A j \in 1 .. i : rest[j] \in Item
    <3>1. n + i \in 1 .. Len(up[c]) /\ up[c][n + i] \in Item /\ rest[i] = up[c][n + i]
      BY <1>10, <2>2
    <3>2. /\ up[c][n + i].i = first + (n + i) - 1
          /\ up[c][n + i].i <= Len(written[c])
          /\ up[c][n + i] = written[c][up[c][n + i].i]
          /\ \A j \in 1 .. n + i : up[c][j] \in Item
      BY <1>26, <1>27, <3>1
    <3>3. first + (n + i) - 1 = first + n + i - 1
      BY <1>6
    <3>4. \A j \in 1 .. i : j \in 1 .. Len(rest) /\ n + j \in 1 .. n + i
      BY <1>6, <1>10
    <3>. QED
      BY <1>10, <3>1, <3>2, <3>3, <3>4
  <2>. QED
    BY <1>26, <1>27, <2>1, <2>2
<1>29. cli[c] # "closed" => /\ \A i \in 1 .. Len(rest) : rest[i] \in Item
                            /\ first + n + Len(rest) - 1 = Len(written[c])
  <2> SUFFICES ASSUME cli[c] # "closed"
               PROVE  /\ \A i \in 1 .. Len(rest) : rest[i] \in Item
                      /\ first + n + Len(rest) - 1 = Len(written[c])
    OBVIOUS
  <2>1. up[c] # << >>
    BY <1>6
  <2>2. /\ \A i \in 1 .. Len(up[c]) : up[c][i] \in Item
        /\ up[c][1].i + Len(up[c]) - 1 = Len(written[c])
    BY <1>6, <2>1 DEF IInv, StreamsHold, OnItsWay
  <2>3. first + n + Len(rest) - 1 = first + Len(up[c]) - 1
    <3>1. PICK l \in Nat : l = Len(up[c])
      BY <1>6
    <3>2. Len(rest) = l - n
      BY <1>10, <3>1
    <3>3. first + n + (l - n) - 1 = first + l - 1
      <4>1. \A i, j, k \in Nat : i + j + (k - j) - 1 = i + k - 1
        OBVIOUS
      <4>2. first \in Nat /\ n \in Nat /\ l \in Nat
        BY <1>6, <1>27, <3>1
      <4>. QED
        BY <4>1, <4>2
    <3>. QED
      BY <3>1, <3>2, <3>3
  <2>. QED
    BY <1>10, <1>27, <2>2, <2>3
<1>30. StreamsHold'
  <2>1. \A d \in Clients : d # c => (Written(d)' <=> Written(d)) /\ (OnItsWay(d)' <=> OnItsWay(d))
    BY <1>3, <1>5, <1>11 DEF Written, OnItsWay
  <2>2. Written(c)'
    <3>1. cli[c] # "init"
      BY <1>1 DEF IInv, ClientsApart
    <3>. QED
      BY <1>3, <1>6, <3>1 DEF IInv, StreamsHold, Written
  <2>3. ASSUME NEW i \in 1 .. Len(rest), rest[i] \in Item
        PROVE  /\ rest[i].i <= Len(written[c]) /\ rest[i] = written[c][rest[i].i]
               /\ \A j \in 1 .. i : rest[j] \in Item
               /\ rest[i].i = rest[1].i + i - 1
    <3>1. /\ rest[i].i = first + n + i - 1 /\ first + n + i - 1 <= Len(written[c])
          /\ rest[i] = written[c][first + n + i - 1]
          /\ \A j \in 1 .. i : rest[j] \in Item
      BY <1>28, <2>3
    <3>2. 1 \in 1 .. i /\ 1 \in 1 .. Len(rest)
      OBVIOUS
    <3>3. rest[1].i = first + n + 1 - 1
      BY <1>28, <3>1, <3>2
    <3>4. first + n + i - 1 = first + n + 1 - 1 + i - 1
      BY <1>6
    <3>. QED
      BY <3>1, <3>3, <3>4
  <2>4. cli[c] # "closed" /\ rest # << >> =>
           /\ \A i \in 1 .. Len(rest) : rest[i] \in Item
           /\ rest[1].i + Len(rest) - 1 = Len(written[c])
    <3> HAVE cli[c] # "closed" /\ rest # << >>
    <3>1. 1 \in 1 .. Len(rest)
      BY <1>10
    <3>2. rest[1].i = first + n + 1 - 1
      BY <1>28, <1>29, <3>1
    <3>3. first + n + 1 - 1 + Len(rest) - 1 = first + n + Len(rest) - 1
      BY <1>6, <1>10
    <3>. QED
      BY <1>29, <3>2, <3>3
  <2>5. OnItsWay(c)'
    BY <1>3, <1>5, <1>11, <2>3, <2>4 DEF OnItsWay
  <2>. QED
    BY <2>1, <2>2, <2>5 DEF IInv, StreamsHold
<1>31. EchoHolds'
  <2> SUFFICES ASSUME mode = "echo" PROVE EchoHolds'
    BY <1>3 DEF EchoHolds
  <2>1. \A d \in Clients : \A s : d # c /\ Echoes(d, s) => Echoes(d, s)'
    BY <1>3, <1>5, <1>11 DEF Echoes, HasRead
  <2>2. Echoes(c, << >>)
    <3>1. users[fd].interest = {"in"}
      BY <1>4, <1>6 DEF IInv, BatchHolds
    <3>2. {"in"} # {"out"}
      OBVIOUS
    <3>3. Echoes(users[fd].who, IF users[fd].interest = {"out"} THEN users[fd].buf
                                                                ELSE << >>)
      BY DEF IInv, EchoHolds
    <3>. QED
      BY <1>1, <3>1, <3>2, <3>3
  <2>3. PICK t \in Nat : t = Len(told[c])
    BY <1>6 DEF IInv, TypeOK
  <2>4. first = t + 1
    <3>1. HasRead(c, t)
      BY <2>2, <2>3 DEF Echoes
    <3>2. up[c] # << >>
      BY <1>6
    <3>. QED
      BY <1>26, <1>27, <3>1, <3>2 DEF HasRead
  <2>5. t + n <= Len(written[c])
    <3>1. first + n - 1 <= Len(written[c])
      BY <1>6, <1>28
    <3>. QED
      BY <1>6, <2>4, <3>1
  <2>6. \A j \in 1 .. Len(data) : data[j] = written[c][t + j]
    <3> TAKE j \in 1 .. Len(data)
    <3>1. data[j] = written[c][first + j - 1] /\ first + j - 1 = t + j
      BY <1>8, <1>28, <2>4
    <3>. QED
      BY <3>1
  <2>7. rest # << >> /\ rest[1] \in Item => rest[1].i = t + n + 1
    <3> HAVE rest # << >> /\ rest[1] \in Item
    <3>1. 1 \in 1 .. Len(rest)
      BY <1>10
    <3>2. rest[1].i = first + n + 1 - 1
      BY <1>28, <3>1
    <3>. QED
      BY <1>6, <2>4, <3>2
  <2>8. rest = << >> /\ cli[c] # "closed" => Len(written[c]) = t + n
    BY <1>6, <1>10, <1>29, <2>4
  <2>9. Echoes(c, data)'
    <3>1. HasRead(c, t + n)'
      BY <1>3, <1>5, <1>11, <2>7, <2>8 DEF HasRead
    <3>. QED
      BY <1>3, <1>8, <2>2, <2>3, <2>5, <2>6, <3>1 DEF Echoes
  <2>10. \A g \in DOMAIN users' :
            Echoes(users[g].who, IF users[g].interest = {"out"} THEN users[g].buf
                                                                ELSE << >>)'
    <3> TAKE g \in DOMAIN users'
    <3>1. CASE g = fd
      BY <1>1, <1>13, <1>15, <2>9, <3>1
    <3>2. CASE g # fd
      <4>1. users'[g] = users[g] /\ users[g].who \in Clients /\ users[g].who # c
        BY <1>13, <1>15, <1>19, <3>2
      <4>2. PICK d, s : /\ d = users[g].who
                        /\ s = IF users[g].interest = {"out"} THEN users[g].buf ELSE << >>
        OBVIOUS
      <4>3. Echoes(d, s)
        BY <1>15, <4>2 DEF IInv, EchoHolds
      <4>. QED
        BY <2>1, <4>1, <4>2, <4>3
    <3>. QED
      BY <3>1, <3>2
  <2>11. ASSUME NEW d \in Clients, d \notin gone, \A g \in DOMAIN users' : users'[g].who # d
         PROVE  told[d] = << >> /\ Echoes(d, << >>)'
    <3>1. d # c /\ \A g \in DOMAIN users : users[g].who # d
      BY <1>15, <1>16, <2>11
    <3>. QED
      BY <2>1, <2>11, <3>1 DEF IInv, EchoHolds
  <2>12. \A g \in DOMAIN users' : users'[g].who = users[g].who
    BY <1>15, <1>16
  <2>. QED
    BY <1>3, <2>10, <2>11, <2>12 DEF IInv, EchoHolds
<1>32. ChatHolds'
  <2> SUFFICES ASSUME mode = "chat" PROVE ChatHolds'
    BY <1>3 DEF ChatHolds
  <2>1. ASSUME NEW m, Passed(m)
        PROVE  Passed(m)'
    <3>1. m \in Item /\ m.i <= Len(written[m.who]) /\ m.who \in Clients
      BY <2>1 DEF Passed, Item
    <3>2. ASSUME NEW i \in 1 .. Len(up'[m.who]), up'[m.who][i] \in Item
          PROVE  m.i < up'[m.who][i].i
      <4>1. CASE m.who = c
        <5>1. up'[m.who] = rest /\ i \in 1 .. Len(rest)
          BY <1>11, <3>2, <4>1
        <5>2. rest[i] = up[c][n + i] /\ n + i \in 1 .. Len(up[c]) /\ up[c][n + i] \in Item
          BY <1>10, <3>2, <5>1
        <5>. QED
          BY <2>1, <4>1, <5>1, <5>2 DEF Passed
      <4>2. CASE m.who # c
        <5>1. up'[m.who] = up[m.who]
          BY <1>11, <3>1, <4>2
        <5>. QED
          BY <2>1, <3>2, <5>1 DEF Passed
      <4>. QED
        BY <4>1, <4>2
    <3>. QED
      BY <1>3, <1>5, <3>1, <3>2 DEF Passed
  <2>2. ASSUME NEW j \in 1 .. n
        PROVE  data[j] \in Item /\ data[j].who = c /\ data[j].i = first + j - 1
               /\ Passed(data[j])'
    <3>1. /\ data[j] \in Item /\ data[j].who = c /\ data[j].i = first + j - 1
          /\ first + j - 1 <= Len(written[c])
      BY <1>2, <1>6, <1>8, <1>28
    <3>2. \A i \in 1 .. Len(rest) : rest[i] \in Item => data[j].i < rest[i].i
      <4> TAKE i \in 1 .. Len(rest)
      <4> HAVE rest[i] \in Item
      <4>1. rest[i].i = first + n + i - 1
        BY <1>28
      <4>2. first + j - 1 < first + n + i - 1
        BY <1>6
      <4>. QED
        BY <3>1, <4>1, <4>2
    <3>. QED
      BY <1>3, <1>5, <1>11, <3>1, <3>2 DEF Passed
  <2>3. \A d, s : LinesFor(d, s) => LinesFor(d, s)'
    BY <2>1 DEF LinesFor
  <2>4. ASSUME NEW d, d # c, NEW s \in Seq(Item \cup File), LinesFor(d, s)
        PROVE  LinesFor(d, s \o data)'
    <3>1. PICK z : z = s \o data
      OBVIOUS
    <3>2. PICK l \in Nat : l = Len(s)
      OBVIOUS
    <3>3. /\ Len(z) = l + n
          /\ \A j \in 1 .. l : z[j] = s[j]
          /\ \A j \in 1 .. l + n : j > l => z[j] = data[j - l] /\ j - l \in 1 .. n
      <4>1. data \in Seq(Item \cup File)
        BY <1>8
      <4>2. /\ Len(s \o data) = Len(s) + Len(data)
            /\ \A i \in 1 .. Len(s) + Len(data) :
                  (s \o data)[i] = IF i <= Len(s) THEN s[i] ELSE data[i - Len(s)]
        BY <4>1, ConcatProperties
      <4>. QED
        BY <1>6, <1>8, <3>1, <3>2, <4>2
    <3>4. ASSUME NEW j \in 1 .. Len(z)
          PROVE  Passed(z[j])' /\ z[j].who # d
      <4>1. CASE j \in 1 .. l
        BY <2>1, <2>4, <3>2, <3>3, <4>1 DEF LinesFor
      <4>2. CASE j > l
        BY <2>2, <2>4, <3>3, <4>2
      <4>. QED
        BY <3>2, <3>3, <4>1, <4>2
    <3>5. ASSUME NEW i \in 1 .. Len(z), NEW j \in 1 .. Len(z), i < j, z[i].who = z[j].who
          PROVE  z[i].i < z[j].i
      <4>1. CASE j \in 1 .. l
        <5>1. i \in 1 .. l /\ z[i] = s[i] /\ z[j] = s[j]
          BY <3>2, <3>3, <3>5, <4>1
        <5>. QED
          BY <2>4, <3>2, <3>5, <4>1, <5>1 DEF LinesFor
      <4>2. CASE i \in 1 .. l /\ j > l
        <5>1. z[j] = data[j - l] /\ j - l \in 1 .. n /\ z[i] = s[i]
          BY <3>3, <4>2
        <5>2. Passed(s[i]) /\ s[i].who = c
          BY <2>2, <2>4, <3>2, <3>5, <4>2, <5>1 DEF LinesFor
        <5>3. j - l \in 1 .. Len(up[c]) /\ up[c][j - l] \in Item /\ z[j] = up[c][j - l]
          BY <1>2, <1>6, <1>8, <5>1
        <5>. QED
          BY <5>1, <5>2, <5>3 DEF Passed
      <4>3. CASE i > l /\ j > l
        <5>1. /\ z[i] = data[i - l] /\ i - l \in 1 .. n
              /\ z[j] = data[j - l] /\ j - l \in 1 .. n
          BY <3>3, <4>3
        <5>2. z[i].i = first + (i - l) - 1 /\ z[j].i = first + (j - l) - 1
          BY <2>2, <5>1
        <5>3. first + (i - l) - 1 < first + (j - l) - 1
          BY <3>2, <3>3, <3>5
        <5>. QED
          BY <5>2, <5>3
      <4>. QED
        BY <3>2, <3>3, <3>5, <4>1, <4>2, <4>3
    <3>. QED
      BY <3>1, <3>4, <3>5 DEF LinesFor
  <2>5. \A d \in Clients : LinesFor(d, told[d]) /\ told[d] \in Seq(Item \cup File)
    BY DEF IInv, ChatHolds, TypeOK
  <2>6. \A g \in DOMAIN users' : users'[g].interest = {"out"} =>
           LinesFor(users[g].who, told[users[g].who] \o users[g].buf)'
    <3> TAKE g \in DOMAIN users'
    <3> HAVE users'[g].interest = {"out"}
    <3>1. CASE g = fd
      <4>1. users[fd].interest = {"out"} /\ users'[g].buf = users[fd].buf
        BY <1>13, <1>15, <3>1
      <4>2. LinesFor(users[fd].who, told[users[fd].who] \o users[fd].buf)
        BY <4>1 DEF IInv, ChatHolds
      <4>3. PICK d, s : d = users[fd].who /\ s = told[users[fd].who] \o users[fd].buf
        OBVIOUS
      <4>4. LinesFor(d, s)'
        BY <2>3, <4>2, <4>3
      <4>. QED
        BY <1>3, <1>16, <3>1, <4>1, <4>3, <4>4
    <3>2. CASE g # fd
      <4>1. users'[g].buf = data /\ users[g].who \in Clients /\ users[g].who # c
        BY <1>13, <1>15, <1>19, <3>2
      <4>2. PICK d, s : d = users[g].who /\ s = told[users[g].who]
        OBVIOUS
      <4>3. PICK z : z = s \o data
        OBVIOUS
      <4>4. LinesFor(d, z)'
        BY <2>4, <2>5, <4>1, <4>2, <4>3
      <4>5. users'[g].who = d /\ told'[users'[g].who] \o users'[g].buf = z
        BY <1>3, <1>15, <1>16, <4>1, <4>2, <4>3
      <4>. QED
        BY <4>4, <4>5
    <3>. QED
      BY <3>1, <3>2
  <2>7. \A g \in DOMAIN users' : users'[g].who = users[g].who
    BY <1>15, <1>16
  <2>. QED
    BY <1>3, <2>3, <2>5, <2>6, <2>7 DEF ChatHolds
<1>. QED
  BY <1>20, <1>21, <1>22, <1>23, <1>24, <1>25, <1>30, <1>31, <1>32 DEF IInv

-----------------------------------------------------------------------------
(* The theorems.                                                            *)

LEMMA StutterKeeps ==
  ASSUME IInv, UNCHANGED vars
  PROVE  IInv'
<1>1. /\ UNCHANGED << mode, running, pc, batch, users, timers >>
      /\ UNCHANGED << backlog, cli, written, up, told, idle, gone >>
  BY DEF vars, clientVars
<1>2. Item' = Item /\ Longest' = Longest /\ User' = User
  BY <1>1 DEF Item, Longest, User
<1>3. TypeOK'
  BY <1>1, <1>2 DEF IInv, TypeOK
<1>4. OneTimerEach' /\ OneInterest' /\ TimersAreLate' /\ ClientsApart' /\ BatchHolds'
  BY <1>1, <1>2 DEF IInv, OneTimerEach, OneInterest, TimersAreLate, ClientsApart, BatchHolds
<1>5. StreamsHold' /\ EchoHolds' /\ ChatHolds'
  BY <1>1, FlowStays
<1>. QED
  BY <1>3, <1>4, <1>5 DEF IInv

LEMMA NextIInv == IInv /\ [Next]_vars => IInv'
<1> SUFFICES ASSUME IInv, [Next]_vars PROVE IInv'
  OBVIOUS
<1>1. ASSUME NEW c \in Clients, Connect(c) \/ Write(c) \/ CloseClient(c)
      PROVE  IInv'
  BY <1>1, ConnectKeeps, WriteKeeps, CloseClientKeeps
<1>2. CASE Tick \/ EpollWait \/ EpollReturns \/ CheckExpired
  BY <1>2, TickKeeps, EpollWaitKeeps, EpollReturnsKeeps, CheckExpiredKeeps
<1>3. CASE HandleEvent
  BY <1>3, ProcAcceptKeeps, ProcReadClosedKeeps, ProcReadDataKeeps, HandleOutputKeeps
     DEF HandleEvent
<1>4. CASE UNCHANGED vars
  BY <1>4, StutterKeeps
<1>. QED
  BY <1>1, <1>2, <1>3, <1>4 DEF Next

\* IInv holds in every reachable state.
LEMMA IInvAlways == Spec => []IInv
BY InitIInv, NextIInv, PTL DEF Spec

\* Every variable has its type, for any number of clients: there is a descriptor and a
\* timer for each connection that is accepted.
THEOREM ServerTypes == Spec => []TypeOK
<1>1. IInv => TypeOK
  BY DEF IInv
<1>. QED
  BY <1>1, IInvAlways, PTL

\* Every connection has one timer and every timer one connection, whatever order
\* accepting, reading, closing and expiring come in (ProcRead, cb_func).
THEOREM TimersMatch == Spec => []OneTimerEach
<1>1. IInv => OneTimerEach
  BY DEF IInv
<1>. QED
  BY <1>1, IInvAlways, PTL

\* No handler closes a connection that the batch holds another event of: main.cc finds
\* every descriptor of the batch in g_users_map.
THEOREM BatchStaysLive == Spec => []BatchIsLive
<1>1. ASSUME IInv PROVE BatchIsLive
  <2> SUFFICES ASSUME NEW e \in batch, e # Listen PROVE e.fd \in DOMAIN users
    BY DEF BatchIsLive
  <2>1. e \in [k : {"in", "out"}, fd : Fds]
    BY <1>1 DEF IInv, TypeOK, Event
  <2>2. e.fd \in Fds /\ (e = In(e.fd) \/ e = Out(e.fd))
    BY <2>1 DEF In, Out
  <2>3. In(e.fd) \in batch \/ Out(e.fd) \in batch
    BY <2>2
  <2>. QED
    BY <1>1, <2>2, <2>3 DEF IInv, BatchHolds
<1>. QED
  BY <1>1, IInvAlways, PTL

\* An echo server sends back what a client wrote from its beginning on, with nothing
\* twice, out of order or of another (Echo, HandleOutput).
THEOREM EchoIsFaithful == Spec => []EchoFaithful
<1>1. ASSUME IInv PROVE EchoFaithful
  <2> SUFFICES ASSUME mode = "echo", NEW c \in Clients
               PROVE  IsPrefix(told[c], written[c])
    BY DEF EchoFaithful
  <2>1. /\ Len(told[c]) <= Len(written[c])
        /\ \A j \in 1 .. Len(told[c]) : told[c][j] = written[c][j]
    BY <1>1 DEF IInv, EchoHolds
  <2>2. PICK s, t : s = told[c] /\ t = written[c]
    OBVIOUS
  <2>3. s \in Seq(Item \cup File) /\ t \in Seq(Item) /\ Len(s) \in Nat /\ Len(t) \in Nat
    BY <1>1, <2>2 DEF IInv, TypeOK
  <2>4. SubSeq(s, 1, Len(s)) = SubSeq(t, 1, Len(s))
    <3>1. Len(s) <= Len(t) /\ \A j \in 1 .. Len(s) : s[j] = t[j]
      BY <2>1, <2>2
    <3>2. SubSeq(s, 1, Len(s)) = [j \in 1 .. Len(s) |-> s[j]]
      BY <2>3
    <3>3. SubSeq(t, 1, Len(s)) = [j \in 1 .. Len(s) |-> t[j]]
      BY <2>3, <3>1
    <3>. QED
      BY <3>1, <3>2, <3>3
  <2>. QED
    BY <2>1, <2>2, <2>4 DEF IsPrefix
<1>. QED
  BY <1>1, IInvAlways, PTL

\* A chat server sends a client what others wrote, nothing twice, and what each of them
\* wrote in that order (Chat, SetConnData2Cache, HandleOutput).
THEOREM ChatStaysInOrder == Spec => []ChatInOrder
<1>1. ASSUME IInv PROVE ChatInOrder
  <2> SUFFICES ASSUME mode = "chat", NEW c \in Clients, NEW j \in 1 .. Len(told[c])
               PROVE  /\ told[c][j].who # c
                      /\ \A i \in 1 .. j - 1 :
                            told[c][i].who = told[c][j].who => told[c][i].i < told[c][j].i
    BY DEF ChatInOrder
  <2>1. LinesFor(c, told[c])
    BY <1>1 DEF IInv, ChatHolds
  <2>2. Len(told[c]) \in Nat
    BY <1>1 DEF IInv, TypeOK
  <2>3. \A i \in 1 .. j - 1 : i \in 1 .. Len(told[c]) /\ i < j
    BY <2>2
  <2>. QED
    BY <2>1, <2>3 DEF LinesFor
<1>. QED
  BY <1>1, IInvAlways, PTL

\* A connection that the server closes has been closed by its client, or the server has
\* not heard of it for TIMEOUT (cb_func, from ProcRead and from CheckExpired).
THEOREM ClosesOnlyIdle == Spec => ClosedOnlyIdle
<1>1. IInv /\ [Next]_vars
         => [\A c \in gone' \ gone :
                (\E fd \in DOMAIN users : users[fd].who = c /\ up[c] # << >>)
                    \/ idle[c] >= Timeout]_vars
  <2> SUFFICES ASSUME IInv, Next, NEW c \in gone' \ gone
               PROVE  \/ \E fd \in DOMAIN users : users[fd].who = c /\ up[c] # << >>
                      \/ idle[c] >= Timeout
    OBVIOUS
  <2>1. CASE CheckExpired
    <3>1. PICK tm \in DOMAIN timers : /\ timers[tm].left = MinLeft
                                      /\ c = users[timers[tm].fd].who
      BY <2>1 DEF CheckExpired
    <3>2. PICK fd \in DOMAIN users : fd = timers[tm].fd /\ users[fd].timer = tm
      BY DEF IInv, OneTimerEach
    <3>3. timers[tm].left <= 0
      BY <2>1, <3>1 DEF CheckExpired
    <3>4. c \in Clients /\ users[fd].who = c
      BY <3>1, <3>2 DEF IInv, TypeOK, User
    <3>5. idle[c] \in Nat /\ timers[tm].left \in Int
      BY <3>4, Bounds DEF IInv, TypeOK
    <3>6. idle[c] = Longest \/ idle[c] + timers[tm].left >= Timeout
      BY <3>2, <3>4 DEF IInv, TimersAreLate
    <3>7. Timeout \in Nat /\ Longest \in Nat /\ Timeout <= Longest
      BY Bounds DEF IInv
    <3>. QED
      BY <3>3, <3>5, <3>6, <3>7
  <2>2. ASSUME NEW fd \in DOMAIN users, ProcReadClosed(fd)
        PROVE  \E f \in DOMAIN users : users[f].who = c /\ up[c] # << >>
    <3>1. c = users[fd].who
      BY <2>2 DEF ProcReadClosed
    <3>2. In(fd) \in batch /\ fd \in Fds
      BY <2>2 DEF ProcReadClosed, Handling, In, IInv, TypeOK
    <3>3. up[users[fd].who] # << >>
      BY <3>2 DEF IInv, BatchHolds
    <3>. QED
      BY <3>1, <3>3
  <2>3. CASE gone' = gone
    BY <2>3
  <2>4. ASSUME NEW d \in Clients, Connect(d) \/ Write(d) \/ CloseClient(d)
        PROVE  gone' = gone
    BY <2>4 DEF Connect, Write, CloseClient, serverVars
  <2>5. Tick \/ EpollWait \/ EpollReturns => gone' = gone
    BY DEF Tick, EpollWait, EpollReturns
  <2>6. HandleEvent => gone' = gone \/ \E fd \in DOMAIN users : ProcReadClosed(fd)
    BY DEF HandleEvent, ProcAccept, ProcReadData, HandleOutput
  <2>. QED
    BY <2>1, <2>2, <2>3, <2>4, <2>5, <2>6 DEF Next
<1>. QED
  BY <1>1, IInvAlways, PTL DEF Spec, ClosedOnlyIdle
=============================================================================
