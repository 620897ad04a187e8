---------------------------- MODULE SelectProofs ----------------------------
(***************************************************************************)
(* Proofs about select and poll: about the wait of PollSelect, for any     *)
(* files and any interests, and about the calls of SelectCall around it,   *)
(* for any timeouts and any number of signals.                             *)
(***************************************************************************)
EXTENDS SelectCall, FilterProofs

CONSTANTS Files, PollCalls, MaxArrivals

VARIABLES status, due, entries, triggered, task, place, asked, todo, came

Wait == INSTANCE PollSelect WITH Calls <- PollCalls, at <- place, call <- asked

WaitAssumption == Wait!WaitAssumption

-----------------------------------------------------------------------------
(* The wait.                                                                *)

Fs == Wait!Range(Files)

\* Nothing yet that makes the call return; a signal does so when the loop ends.
Asked == [fn : {"none", "select", "poll"}, want : [Fs -> SUBSET Wait!Kinds],
          hooks : BOOLEAN, timed : BOOLEAN, signal : BOOLEAN, error : BOOLEAN,
          found : SUBSET (Fs \X Wait!Kinds)]

Waits == asked.found = {} /\ ~asked.timed /\ ~asked.error

\* Has this loop still to ask f?
ToAsk(f) == f \in Wait!Range(todo)

\* Every file that was asked, and all of them once a loop has ended, calls back
\* for what is wanted of it.
Hooked ==
    place # "user" /\ Waits =>
        \A f \in Fs :
            \/ ToAsk(f) /\ asked.hooks /\ ~(place = "look" /\ f = Head(todo))
            \/ asked.want[f] \subseteq entries[f]

\* What came to a file after this loop asked it has called back, or will.
Covered ==
    place \in {"ask", "look", "schedule", "asleep"} /\ Waits =>
        \A f \in Fs : ToAsk(f) \/ triggered
                      \/ \A b \in status[f] \cap asked.want[f] : << f, b >> \in due

\* The task as it is at each place.
Places ==
    /\ place \in {"user", "ask", "look", "schedule", "asleep", "awake"}
    /\ place = "look" => todo # << >>
    /\ place \in {"schedule", "asleep"} => todo = << >> /\ asked.found = {} /\ ~asked.error
    /\ place \in {"schedule", "asleep", "awake"} => ~asked.hooks
    /\ task \in {"runs", "sleepy"}
    /\ task = "sleepy" => place \in {"schedule", "asleep"} /\ ~asked.timed
    /\ place = "asleep" /\ task = "sleepy" => ~triggered

WInv == Wait!TypeOK /\ Places /\ Hooked /\ Covered

LEMMA TodoParts ==
    ASSUME WInv, todo # << >>
    PROVE  /\ Head(todo) \in Fs /\ Head(todo) \in Wait!Range(todo)
           /\ Tail(todo) \in Seq(Fs)
           /\ \A f : f \in Wait!Range(Tail(todo)) => f \in Wait!Range(todo)
           /\ \A f : f \in Wait!Range(todo) => f = Head(todo) \/ f \in Wait!Range(Tail(todo))
  <1>1. todo \in Seq(Fs)
    BY DEF WInv, Wait!TypeOK, Fs
  <1>2. PICK A, s, u : A = Fs /\ s = todo /\ u = Tail(todo)
    OBVIOUS
  <1>3. s \in Seq(A) /\ s # << >> /\ Head(s) = s[1] /\ Head(s) \in A
    BY <1>1, <1>2
  <1>4. PICK n \in Nat : n = Len(s) /\ n # 0
    BY <1>3, EmptySeq
  <1>5. u \in Seq(A) /\ Len(u) = n - 1 /\ \A i \in 1 .. n - 1 : u[i] = s[i + 1]
    BY <1>2, <1>3, <1>4, HeadTailProperties
  <1>6. \A f : f \in Wait!Range(u) <=> \E i \in 1 .. n - 1 : f = u[i]
    BY <1>5 DEF Wait!Range
  <1>7. \A f : f \in Wait!Range(s) <=> \E i \in 1 .. n : f = s[i]
    BY <1>3, <1>4 DEF Wait!Range
  <1>8. \A i \in 1 .. n - 1 : i + 1 \in 1 .. n
    BY <1>4
  <1>9. \A i \in 1 .. n : i = 1 \/ (i - 1 \in 1 .. n - 1 /\ (i - 1) + 1 = i)
    BY <1>4
  <1>10. 1 \in 1 .. n
    BY <1>4
  <1>11. ASSUME NEW f, f \in Wait!Range(s)
         PROVE  f = Head(s) \/ f \in Wait!Range(u)
    <2>1. PICK i \in 1 .. n : f = s[i]
      BY <1>7, <1>11
    <2>2. CASE i = 1
      BY <1>3, <2>1, <2>2
    <2>3. CASE i # 1
      <3>1. PICK j : j = i - 1
        OBVIOUS
      <3>2. j \in 1 .. n - 1 /\ s[j + 1] = f
        BY <1>9, <2>1, <2>3, <3>1
      <3>3. u[j] = f
        BY <1>5, <3>2
      <3>. QED
        BY <1>6, <3>2, <3>3
    <2>. QED
      BY <2>2, <2>3
  <1>12. \A f : f \in Wait!Range(u) => f \in Wait!Range(s)
    BY <1>5, <1>6, <1>7, <1>8
  <1>13. Head(s) \in Wait!Range(s)
    BY <1>3, <1>7, <1>10
  <1>. QED
    BY <1>2, <1>3, <1>5, <1>11, <1>12, <1>13

LEMMA WaitInit == WaitAssumption /\ Wait!Init => WInv
  <1> SUFFICES ASSUME WaitAssumption, Wait!Init PROVE WInv
    OBVIOUS
  <1>1. Wait!TypeOK
    <2>1. << >> \in Seq(Wait!Range(Files))
      OBVIOUS
    <2>. QED
      BY <2>1 DEF Wait!Init, Wait!TypeOK, Wait!NoCall, Wait!Kinds
  <1>2. Places /\ Hooked /\ Covered
    BY DEF Wait!Init, Wait!NoCall, Places, Hooked, Covered, Fs
  <1>. QED
    BY <1>1, <1>2 DEF WInv

\* The files: what comes has its wake-up due, which finds the entry.
LEMMA FileSteps ==
    ASSUME WInv, NEW f \in Fs, NEW b \in Wait!Kinds,
           Wait!Arrive(f, b) \/ Wait!Consume(f, b) \/ Wait!PollWake(f, b)
    PROVE  WInv'
  <1> USE DEF WInv
  <1>1. CASE Wait!Arrive(f, b) \/ Wait!Consume(f, b)
    <2>1. /\ UNCHANGED << entries, triggered, task, place, asked, todo >>
          /\ \A g \in Fs : \A k \in status'[g] : k \in status[g] \/ << g, k >> \in due'
          /\ due \subseteq due'
      BY <1>1 DEF Wait!Arrive, Wait!Consume, Wait!TypeOK, Fs
    <2>2. Wait!TypeOK'
      BY <1>1, <2>1 DEF Wait!Arrive, Wait!Consume, Wait!TypeOK, Fs
    <2>3. Places' /\ Hooked'
      BY <2>1 DEF Places, Hooked, Waits, ToAsk, Fs
    <2>4. Covered'
      BY <2>1 DEF Covered, Waits, ToAsk
    <2>. QED
      BY <2>2, <2>3, <2>4
  <1>2. CASE Wait!PollWake(f, b)
    <2>1. /\ UNCHANGED << status, came, entries, place, asked, todo >>
          /\ due' = due \ {<< f, b >>}
          /\ b \in entries[f] => triggered' = TRUE /\ task' = "runs"
          /\ b \notin entries[f] => UNCHANGED << triggered, task >>
      BY <1>2 DEF Wait!PollWake
    <2>2. Wait!TypeOK'
      BY <2>1 DEF Wait!TypeOK
    <2>3. Places' /\ Hooked'
      BY <2>1 DEF Places, Hooked, Waits, ToAsk, Fs
    <2>4. Covered'
      <3>1. SUFFICES ASSUME place \in {"ask", "look", "schedule", "asleep"}, Waits,
                            NEW g \in Fs, ~ToAsk(g), ~triggered',
                            NEW k \in status[g] \cap asked.want[g]
                     PROVE  << g, k >> \in due'
        BY <2>1 DEF Covered, Waits, ToAsk
      <3>2. k \in entries[g]
        BY <3>1 DEF Hooked
      <3>3. b \notin entries[f]
        BY <2>1, <3>1
      <3>4. ~triggered
        BY <2>1, <3>1, <3>3
      <3>5. << g, k >> \in due
        BY <3>1, <3>4 DEF Covered
      <3>6. << g, k >> # << f, b >>
        BY <3>2, <3>3
      <3>. QED
        BY <2>1, <3>5, <3>6
    <2>. QED
      BY <2>2, <2>3, <2>4
  <1>. QED
    BY <1>1, <1>2

LEMMA NothingToAsk == ASSUME NEW f, todo = << >> PROVE ~ToAsk(f)
  BY DEF ToAsk, Wait!Range

LEMMA AllToAsk == ASSUME WaitAssumption, todo' = Files, NEW f \in Fs PROVE ToAsk(f)'
  BY DEF ToAsk, Fs

\* A call, and another loop: every file is to be asked.
LEMMA EnterStep ==
    ASSUME WInv, WaitAssumption, NEW c \in PollCalls, NEW zero \in BOOLEAN, Wait!Enter(c, zero)
    PROVE  WInv'
  <1> USE DEF WInv
  <1>1. /\ UNCHANGED << status, due, entries, task >>
        /\ place = "user" /\ place' = "ask" /\ triggered' = FALSE /\ todo' = Files
        /\ asked'.want = c.want /\ asked'.found = {}
        /\ asked'.timed = zero /\ asked'.hooks = ~zero
    BY DEF Wait!Enter, Wait!NoCall, Wait!outside
  <1>2. Files \in Seq(Fs)
    BY DEF WaitAssumption, Wait!WaitAssumption, Fs
  <1>3. asked' \in Asked
    <2>1. c \in [fn : {"select", "poll"}, want : [Fs -> SUBSET Wait!Kinds]]
      BY DEF WaitAssumption, Wait!WaitAssumption, Fs
    <2>. QED
      BY <2>1 DEF Wait!Enter, Wait!NoCall, Asked, Fs
  <1>4. Wait!TypeOK'
    BY <1>1, <1>2, <1>3 DEF Wait!TypeOK, Asked, Fs
  <1>5. task = "runs"
    BY <1>1 DEF Places
  <1>6. Places'
    BY <1>1, <1>5 DEF Places
  <1>7. \A f \in Fs : ToAsk(f)'
    BY <1>1, AllToAsk
  <1>8. Hooked' /\ Covered'
    BY <1>1, <1>7 DEF Hooked, Covered, Waits, Fs
  <1>. QED
    BY <1>4, <1>6, <1>8

LEMMA AgainStep ==
    ASSUME WInv, WaitAssumption, Wait!Again
    PROVE  WInv'
  <1> USE DEF WInv
  <1>1. /\ UNCHANGED << status, due, entries, task, asked >>
        /\ place = "awake" /\ place' = "ask" /\ triggered' = FALSE /\ todo' = Files
    BY DEF Wait!Again, Wait!outside
  <1>2. Files \in Seq(Fs)
    BY DEF WaitAssumption, Wait!WaitAssumption, Fs
  <1>3. Wait!TypeOK'
    BY <1>1, <1>2 DEF Wait!TypeOK, Fs
  <1>4. task = "runs" /\ ~asked.hooks
    BY <1>1 DEF Places
  <1>5. Places'
    BY <1>1, <1>4 DEF Places
  <1>6. \A f \in Fs : ToAsk(f)'
    BY <1>1, AllToAsk
  <1>7. Covered'
    BY <1>1, <1>6 DEF Covered
  <1>8. Hooked'
    BY <1>1, <1>4 DEF Hooked, Waits
  <1>. QED
    BY <1>3, <1>5, <1>7, <1>8

\* The file that is asked next: nothing is wanted of it, it is hooked, it answers.
LEMMA SkipStep == ASSUME WInv, Wait!Skip PROVE WInv'
  <1> USE DEF WInv
  <1>1. /\ UNCHANGED << status, due, entries, triggered, task, place, asked >>
        /\ place = "ask" /\ todo # << >> /\ todo' = Tail(todo)
    BY DEF Wait!Skip, Wait!outside
  <1>2. PICK f \in Fs : f = Head(todo)
    BY <1>1, TodoParts
  <1>3. asked.want[f] = {}
    BY <1>2 DEF Wait!Skip
  <1>4. \A g : ToAsk(g) => g = f \/ ToAsk(g)'
    BY <1>1, <1>2, TodoParts DEF ToAsk
  <1>5. todo' \in Seq(Fs)
    BY <1>1, TodoParts
  <1>6. Wait!TypeOK'
    BY <1>1, <1>5 DEF Wait!TypeOK, Fs
  <1>7. Places'
    BY <1>1 DEF Places
  <1>8. Hooked'
    BY <1>1, <1>3, <1>4 DEF Hooked, Waits
  <1>9. \A g : ToAsk(g)' => ToAsk(g)
    BY <1>1, TodoParts DEF ToAsk
  <1>10. Covered'
    BY <1>1, <1>3, <1>4 DEF Covered, Waits
  <1>. QED
    BY <1>6, <1>7, <1>8, <1>10

LEMMA HookStep == ASSUME WInv, NEW memory \in BOOLEAN, Wait!Hook(memory) PROVE WInv'
  <1> USE DEF WInv
  <1>1. /\ UNCHANGED << status, due, triggered, task, todo >>
        /\ place = "ask" /\ place' = "look" /\ todo # << >>
    BY DEF Wait!Hook, Wait!outside
  <1>2. PICK f \in Fs : f = Head(todo)
    BY <1>1, TodoParts
  <1>3. asked \in Asked /\ (asked' = asked \/ asked' = [asked EXCEPT !.error = TRUE])
    BY DEF Wait!Hook, Wait!TypeOK, Asked, Fs
  <1>. /\ asked' \in Asked
       /\ asked'.want = asked.want /\ asked'.found = asked.found
       /\ asked'.timed = asked.timed /\ asked'.hooks = asked.hooks
       /\ asked'.error = asked.error \/ asked'.error = TRUE
    BY <1>3 DEF Asked
  <1>4. entries \in [Fs -> SUBSET Wait!Kinds]
    BY DEF Wait!TypeOK, Fs
  <1>5. asked.want[f] \subseteq Wait!Key(f) /\ Wait!Key(f) \subseteq Wait!Kinds
    BY <1>2, <1>3 DEF Wait!Key, Asked, Wait!Kinds
  <1>6. \/ asked' = [asked EXCEPT !.error = TRUE] /\ entries' = entries
        \/ ~asked.hooks /\ entries' = entries /\ asked' = asked
        \/ entries' = [entries EXCEPT ![f] = Wait!Key(f)] /\ asked' = asked
    BY <1>2 DEF Wait!Hook
  <1>. \/ asked'.error = TRUE /\ entries' = entries
       \/ ~asked.hooks /\ entries' = entries
       \/ entries' = [entries EXCEPT ![f] = Wait!Key(f)]
    BY <1>3, <1>6 DEF Asked
  <1>7. /\ entries' \in [Fs -> SUBSET Wait!Kinds]
        /\ \A g \in Fs : g # f => entries'[g] = entries[g]
    BY <1>4, <1>5, <1>6
  <1>8. Wait!TypeOK'
    BY <1>1, <1>7 DEF Wait!TypeOK, Asked, Fs
  <1>9. Places'
    BY <1>1 DEF Places
  <1>10. Waits' => Waits
    BY DEF Waits
  <1>11. Hooked'
    <2> SUFFICES ASSUME Waits', NEW g \in Fs
                 PROVE  \/ ToAsk(g) /\ asked.hooks /\ g # f
                        \/ asked.want[g] \subseteq entries'[g]
      BY <1>1, <1>2 DEF Hooked, ToAsk
    <2>1. (ToAsk(g) /\ asked.hooks) \/ asked.want[g] \subseteq entries[g]
      BY <1>1, <1>10 DEF Hooked
    <2>2. CASE g # f
      BY <1>7, <2>1, <2>2
    <2>3. CASE g = f
      <3>1. CASE ~asked.hooks /\ entries' = entries
        BY <2>1, <3>1
      <3>2. CASE entries' = [entries EXCEPT ![f] = Wait!Key(f)]
        BY <1>4, <1>5, <2>3, <3>2
      <3>. QED
        BY <3>1, <3>2 DEF Waits
    <2>. QED
      BY <2>2, <2>3
  <1>12. Covered'
    BY <1>1, <1>10 DEF Covered, ToAsk
  <1>. QED
    BY <1>8, <1>9, <1>11, <1>12

LEMMA LookStep == ASSUME WInv, Wait!Look PROVE WInv'
  <1> USE DEF WInv
  <1>1. /\ UNCHANGED << status, due, entries, triggered, task >>
        /\ place = "look" /\ place' = "ask" /\ todo' = Tail(todo)
    BY DEF Wait!Look, Wait!outside
  <1>2. todo # << >>
    BY <1>1 DEF Places
  <1>3. PICK f \in Fs : f = Head(todo)
    BY <1>2, TodoParts
  <1>4. PICK answer : answer = status[f] \cap asked.want[f]
    OBVIOUS
  <1>5. /\ asked'.want = asked.want /\ asked'.found = asked.found \cup ({f} \X answer)
        /\ asked'.timed = asked.timed /\ asked'.hooks = (asked.hooks /\ answer = {})
        /\ asked'.error = asked.error /\ asked'.signal = asked.signal /\ asked'.fn = asked.fn
        /\ asked' = [asked EXCEPT !.found = asked'.found, !.hooks = asked'.hooks]
    BY <1>3, <1>4 DEF Wait!Look, Wait!TypeOK
  <1>6. \A g : ToAsk(g) => g = f \/ ToAsk(g)'
    BY <1>1, <1>2, <1>3, TodoParts DEF ToAsk
  <1>7. todo' \in Seq(Fs)
    BY <1>1, <1>2, TodoParts
  <1>8. answer \subseteq Wait!Kinds
    BY <1>3, <1>4 DEF Wait!TypeOK, Fs
  <1>9. asked'.found \subseteq Fs \X Wait!Kinds
    BY <1>3, <1>5, <1>8 DEF Wait!TypeOK, Fs
  <1>. asked' \in Asked
    <2>1. asked \in Asked
      BY DEF Wait!TypeOK, Asked, Fs
    <2>2. asked'.hooks \in BOOLEAN
      BY <1>5
    <2>. QED
      BY <1>5, <1>9, <2>1, <2>2 DEF Asked
  <1>10. Wait!TypeOK'
    BY <1>1, <1>7 DEF Wait!TypeOK, Asked, Fs
  <1>11. Places'
    BY <1>1, <1>5 DEF Places
  <1>12. Waits' => Waits /\ answer = {}
    <2>1. SUFFICES ASSUME asked.found \cup ({f} \X answer) = {} PROVE asked.found = {} /\ answer = {}
      BY <1>5 DEF Waits
    <2>2. ASSUME NEW b \in answer PROVE FALSE
      BY <2>1, << f, b >> \in {f} \X answer
    <2>. QED
      BY <2>1, <2>2
  <1>13. Hooked'
    <2> SUFFICES ASSUME Waits', NEW g \in Fs
                 PROVE  (ToAsk(g)' /\ asked'.hooks) \/ asked.want[g] \subseteq entries[g]
      BY <1>1, <1>5 DEF Hooked
    <2>1. (ToAsk(g) /\ asked.hooks /\ g # f) \/ asked.want[g] \subseteq entries[g]
      BY <1>1, <1>3, <1>12 DEF Hooked
    <2>. QED
      BY <1>5, <1>6, <1>12, <2>1
  <1>14. Covered'
    <2> SUFFICES ASSUME Waits', NEW g \in Fs, ~ToAsk(g)', ~triggered,
                        NEW b \in status[g] \cap asked.want[g]
                 PROVE  << g, b >> \in due
      BY <1>1, <1>5 DEF Covered
    <2>1. g # f
      BY <1>4, <1>12
    <2>2. ~ToAsk(g)
      BY <1>6, <2>1
    <2>. QED
      BY <1>1, <1>12, <2>2 DEF Covered
  <1>. QED
    BY <1>10, <1>11, <1>13, <1>14

\* The end of a loop: every file has been asked.
LEMMA EndLoopStep == ASSUME WInv, Wait!EndLoop PROVE WInv'
  <1> USE DEF WInv
  <1>1. /\ UNCHANGED << status, due, triggered, todo >>
        /\ place = "ask" /\ todo = << >>
    BY DEF Wait!EndLoop, Wait!outside
  <1>2. task = "runs"
    BY <1>1 DEF Places
  <1>3. CASE Wait!Returns
    <2>1. /\ place' = "user" /\ asked' = Wait!NoCall /\ task' = task
          /\ entries' = [f \in Fs |-> {}]
      BY <1>3 DEF Wait!EndLoop, Fs
    <2>2. Wait!TypeOK'
      BY <1>1, <1>2, <2>1 DEF Wait!TypeOK, Wait!NoCall, Fs
    <2>3. Places' /\ Hooked' /\ Covered'
      BY <1>2, <2>1 DEF Places, Hooked, Covered
    <2>. QED
      BY <2>2, <2>3
  <1>4. CASE ~Wait!Returns
    <2>1. /\ place' = "schedule" /\ task' = "sleepy" /\ entries' = entries
          /\ asked' = [asked EXCEPT !.hooks = FALSE]
      BY <1>4 DEF Wait!EndLoop
    <2>. /\ asked' \in Asked
         /\ asked'.hooks = FALSE /\ asked'.found = asked.found /\ asked'.want = asked.want
         /\ asked'.timed = asked.timed /\ asked'.error = asked.error
      BY <2>1 DEF Wait!TypeOK, Asked, Fs
    <2>2. asked.found = {} /\ ~asked.timed /\ ~asked.error
      BY <1>4 DEF Wait!Returns
    <2>3. Wait!TypeOK'
      BY <1>1, <2>1 DEF Wait!TypeOK, Asked, Fs
    <2>4. Places'
      BY <1>1, <2>1, <2>2 DEF Places
    <2>5. Hooked'
      BY <1>1, <2>1, <2>2, NothingToAsk DEF Hooked, Waits
    <2>6. Covered'
      BY <1>1, <2>1, <2>2 DEF Covered, Waits, ToAsk
    <2>. QED
      BY <2>3, <2>4, <2>5, <2>6
  <1>. QED
    BY <1>3, <1>4

\* Asleep, and awake for one reason or another.
LEMMA SleepSteps ==
    ASSUME WInv, Wait!Schedule \/ Wait!Timeout \/ Wait!Signal \/ Wait!Woken
    PROVE  WInv'
  <1> USE DEF WInv
  <1>1. /\ UNCHANGED << status, due, entries, triggered, todo >>
        /\ \/ asked' = asked
           \/ asked' = [asked EXCEPT !.timed = TRUE] /\ task' = "runs"
           \/ asked' = [asked EXCEPT !.signal = TRUE] /\ task' = "runs"
    BY DEF Wait!Schedule, Wait!Timeout, Wait!Signal, Wait!Woken, Wait!outside
  <1>. /\ asked' \in Asked
       /\ asked'.hooks = asked.hooks /\ asked'.found = asked.found
       /\ asked'.want = asked.want /\ asked'.error = asked.error
       /\ asked'.timed = asked.timed \/ asked'.timed = TRUE
       /\ task' = "sleepy" => asked'.timed = asked.timed
    BY <1>1 DEF Wait!TypeOK, Asked, Fs
  <1>2. /\ place' \in {"asleep", "awake"} \/ place' = place
        /\ place' = "asleep" => place \in {"schedule", "asleep"}
        /\ place' = "awake" => place \in {"schedule", "asleep", "awake"}
        /\ place' # "user" /\ place # "user"
        /\ task' \in {"runs", "sleepy"}
        /\ task' = "sleepy" => task = "sleepy" /\ place' = "asleep" /\ ~triggered
    <2>1. CASE Wait!Schedule
      BY <2>1 DEF Wait!Schedule, Wait!Sleeps, Places
    <2>2. CASE Wait!Timeout
      BY <2>2 DEF Wait!Timeout, Places
    <2>3. CASE Wait!Signal
      BY <2>3 DEF Wait!Signal, Places
    <2>4. CASE Wait!Woken
      BY <2>4 DEF Wait!Woken, Places
    <2>. QED
      BY <2>1, <2>2, <2>3, <2>4
  <1>3. Places'
    BY <1>1, <1>2 DEF Places
  <1>4. Wait!TypeOK'
    BY <1>1, <1>2, <1>3 DEF Wait!TypeOK, Places, Asked, Fs
  <1>5. Waits' => Waits
    BY <1>1 DEF Waits
  <1>6. Hooked'
    BY <1>1, <1>2, <1>5 DEF Hooked, ToAsk
  <1>7. Covered'
    BY <1>1, <1>2, <1>5 DEF Covered, ToAsk
  <1>. QED
    BY <1>3, <1>4, <1>6, <1>7

\* The invariant gives the property: nothing is left to ask when the task sleeps.
LEMMA WInvSleeps == WInv => Wait!SleepsOnNothing
  <1> SUFFICES ASSUME WInv, place = "asleep", task = "sleepy", NEW f \in Fs,
                      NEW b \in status[f] \cap asked.want[f]
               PROVE  << f, b >> \in due
    BY DEF Wait!SleepsOnNothing, Fs
  <1>1. Waits /\ todo = << >> /\ ~triggered
    BY DEF WInv, Places, Waits
  <1>2. ~ToAsk(f)
    BY <1>1, NothingToAsk
  <1>. QED
    BY <1>1, <1>2 DEF WInv, Covered

LEMMA WaitStep == WaitAssumption /\ WInv /\ [Wait!Next]_Wait!pollvars => WInv'
  <1> SUFFICES ASSUME WaitAssumption, WInv, [Wait!Next]_Wait!pollvars PROVE WInv'
    OBVIOUS
  <1>1. CASE UNCHANGED Wait!pollvars
    BY <1>1 DEF Wait!pollvars, Wait!outside, WInv, Wait!TypeOK, Places, Hooked,
                Covered, Waits, ToAsk
  <1>2. CASE \E f \in Fs, b \in Wait!Kinds :
                 Wait!Arrive(f, b) \/ Wait!Consume(f, b) \/ Wait!PollWake(f, b)
    BY <1>2, FileSteps
  <1>3. CASE \E c \in PollCalls, zero \in BOOLEAN : Wait!Enter(c, zero)
    BY <1>3, EnterStep
  <1>4. CASE \E memory \in BOOLEAN : Wait!Hook(memory)
    BY <1>4, HookStep
  <1>5. CASE Wait!Skip \/ Wait!Look \/ Wait!EndLoop
    BY <1>5, SkipStep, LookStep, EndLoopStep
  <1>6. CASE Wait!Schedule \/ Wait!Timeout \/ Wait!Signal \/ Wait!Woken
    BY <1>6, SleepSteps
  <1>7. CASE Wait!Again
    BY <1>7, AgainStep
  <1>. QED
    BY <1>1, <1>2, <1>3, <1>4, <1>5, <1>6, <1>7 DEF Wait!Next, Fs

\* A task never sleeps on an event it waits for, whatever the files, what is asked
\* of them and how often: what came after a file was asked has called back, and the
\* task then does not sleep, or will (do_select, do_poll and poll_schedule_timeout).
THEOREM NeverSleepsOnEvent == WaitAssumption => (Wait!Spec => []Wait!SleepsOnNothing)
  <1> SUFFICES ASSUME WaitAssumption PROVE Wait!Spec => []Wait!SleepsOnNothing
    OBVIOUS
  <1>1. Wait!Init => WInv
    BY WaitInit
  <1>2. WInv /\ [Wait!Next]_Wait!pollvars => WInv'
    BY WaitStep
  <1>3. WInv => Wait!SleepsOnNothing
    BY WInvSleeps
  <1>. QED
    BY <1>1, <1>2, <1>3, PTL DEF Wait!Spec


-----------------------------------------------------------------------------
(* The calls.                                                               *)

\* A call that cannot have a mask has none.
CallTypes ==
    /\ call.fn \in Selects \cup Epolls \cup {"poll", "ppoll"}
    /\ call.masked \in BOOLEAN /\ call.sticky \in BOOLEAN
    /\ call.fn \in {"select", "poll", "epoll_wait"} => ~call.masked
    /\ {pending, ready, restore, answered} \subseteq BOOLEAN /\ mask \in {"own", "call"}
    /\ at \in {"user", "waits", "copies", "unmasks", "leaves"}
    /\ ret \in {"none", "found", "nothing", "EINTR", "ERESTARTNOHAND"}
    /\ caught \in {"none", "signal", "handler"}
    /\ at = "waits" => ret = "none"
    /\ at = "copies" => call.fn \in Writes /\ ret # "EINTR"
    /\ at = "unmasks" => /\ call.fn \in {"pselect", "ppoll", "epoll_pwait"}
                         /\ ret = "ERESTARTNOHAND" => call.fn = "pselect"
    /\ ret = "ERESTARTNOHAND" => call.fn \in Writes

\* The remaining time and the end, wherever the call is, never fall short of the
\* first deadline, and a restart finds what is left of it.
TimesHold ==
    /\ {now, tsp, end, deadline} \subseteq Int /\ now > 0 /\ end >= None /\ deadline >= 0
    /\ tsp >= 0 \/ tsp = NoTimeout
    /\ (end = None) <=> (tsp = NoTimeout)
    /\ (tsp = NoTimeout) <=> (deadline = 0)
    /\ end = Zero => tsp = 0 /\ now >= deadline
    /\ end > Zero => end >= deadline
    /\ end > Zero /\ call.fn = "poll" => end = deadline
    /\ tsp >= 0 => now + tsp >= deadline
    /\ ret = "nothing" => end # None /\ now >= end
    /\ ret = "nothing" /\ ~call.sticky /\ call.fn \in Writes
           /\ (at = "leaves" \/ (at = "unmasks" /\ call.fn = "pselect")) => tsp = 0

SetsHold == IF call.fn \in Selects THEN answered <=> ret \in {"found", "nothing"} ELSE ~answered

\* The mask stays on after the wait only for a signal that is still to be handled.
MaskHolds ==
    /\ at = "user" => mask = "own" /\ ~restore
    /\ at \in {"waits", "unmasks"} \/ (at = "copies" /\ call.fn \in Selects) =>
           ~restore /\ (mask = "call" <=> call.masked)
    /\ at = "leaves" \/ (at = "copies" /\ call.fn = "ppoll") =>
           IF restore THEN call.masked /\ mask = "call" /\ pending ELSE mask = "own"

\* Where EINTR, or a restart, came from.
SignalsHold ==
    /\ at \in {"copies", "unmasks"} /\ ret \in {"EINTR", "ERESTARTNOHAND"} => pending
    /\ at = "copies" /\ call.fn = "ppoll" /\ ret = "ERESTARTNOHAND" => restore \/ ~call.masked
    /\ at = "unmasks" /\ call.fn = "pselect" /\ ret = "EINTR" => call.sticky
    /\ at = "leaves" /\ ret = "ERESTARTNOHAND" => pending /\ (restore \/ ~call.masked)
    /\ at = "leaves" /\ ret = "EINTR" =>
           /\ \/ caught # "none" \/ (pending /\ (restore \/ ~call.masked))
              \/ call.fn = "pselect" /\ call.masked /\ call.sticky
           /\ call.sticky \/ call.fn \in Epolls \/ (call.fn = "poll" /\ pending)
    /\ Interrupted

CallInv == CallTypes /\ TimesHold /\ SetsHold /\ MaskHolds /\ SignalsHold

LEMMA MaxOfTwo ==
    ASSUME NEW a \in Int
    PROVE  Max({0, a}) \in {0, a} /\ Max({0, a}) >= 0 /\ Max({0, a}) >= a
  <1>1. \E x \in {0, a} : \A y \in {0, a} : x >= y
    <2>1. CASE a > 0
      BY <2>1
    <2>2. CASE ~(a > 0)
      BY <2>2
    <2>. QED
      BY <2>1, <2>2
  <1>2. Max({0, a}) \in {0, a} /\ \A y \in {0, a} : Max({0, a}) >= y
    BY <1>1 DEF Max
  <1>. QED
    BY <1>2

LEMMA CallKinds ==
    ASSUME NEW c \in Calls
    PROVE  /\ c.fn \in Selects \cup Epolls \cup {"poll", "ppoll"}
           /\ c.masked \in BOOLEAN /\ c.sticky \in BOOLEAN
           /\ c.fn \in {"select", "poll", "epoll_wait"} => ~c.masked
  BY DEF Calls, Selects, Epolls

LEMMA CallInit == Init => CallInv
  <1> SUFFICES ASSUME Init PROVE CallInv
    OBVIOUS
  <1>1. call.fn = "poll" /\ call.masked = FALSE /\ call.sticky = FALSE
    BY DEF Init
  <1>2. CallTypes /\ SetsHold
    BY <1>1 DEF Init, CallTypes, SetsHold, Selects, Epolls, Writes
  <1>3. TimesHold
    BY <1>1 DEF Init, TimesHold, NoTimeout, None, Zero
  <1>4. MaskHolds /\ SignalsHold
    BY <1>1 DEF Init, MaskHolds, SignalsHold, Interrupted
  <1>. QED
    BY <1>2, <1>3, <1>4 DEF CallInv

LEMMA CallTick == ASSUME CallInv, Tick PROVE CallInv'
  <1>1. CallTypes'
    BY DEF Tick, CallInv, CallTypes, Selects, Epolls, Writes
  <1>2. TimesHold'
    BY DEF Tick, CallInv, CallTypes, TimesHold, Selects, Epolls, Writes, NoTimeout, None,
           Zero
  <1>3. SetsHold'
    BY DEF Tick, CallInv, CallTypes, SetsHold, Selects, Epolls, Writes
  <1>4. MaskHolds'
    BY DEF Tick, CallInv, CallTypes, MaskHolds, SignalsHold, Selects, Epolls, Writes
  <1>5. SignalsHold'
    BY DEF Tick, CallInv, CallTypes, MaskHolds, SignalsHold, Interrupted, Selects, Epolls,
           Writes
  <1>. QED
    BY <1>1, <1>2, <1>3, <1>4, <1>5 DEF CallInv

LEMMA CallSignal == ASSUME CallInv, Signal PROVE CallInv'
  <1>1. CallTypes'
    BY DEF Signal, CallInv, CallTypes, Selects, Epolls, Writes
  <1>2. TimesHold'
    BY DEF Signal, CallInv, CallTypes, TimesHold, Selects, Epolls, Writes, NoTimeout, None,
           Zero
  <1>3. SetsHold'
    BY DEF Signal, CallInv, CallTypes, SetsHold, Selects, Epolls, Writes
  <1>4. MaskHolds'
    BY DEF Signal, CallInv, CallTypes, MaskHolds, SignalsHold, Selects, Epolls, Writes
  <1>5. SignalsHold'
    BY DEF Signal, CallInv, CallTypes, MaskHolds, SignalsHold, Interrupted, Selects, Epolls,
           Writes
  <1>. QED
    BY <1>1, <1>2, <1>3, <1>4, <1>5 DEF CallInv

LEMMA CallArrive == ASSUME CallInv, Arrive PROVE CallInv'
  <1>1. CallTypes'
    BY DEF Arrive, CallInv, CallTypes, Selects, Epolls, Writes
  <1>2. TimesHold'
    BY DEF Arrive, CallInv, CallTypes, TimesHold, Selects, Epolls, Writes, NoTimeout, None,
           Zero
  <1>3. SetsHold'
    BY DEF Arrive, CallInv, CallTypes, SetsHold, Selects, Epolls, Writes
  <1>4. MaskHolds'
    BY DEF Arrive, CallInv, CallTypes, MaskHolds, SignalsHold, Selects, Epolls, Writes
  <1>5. SignalsHold'
    BY DEF Arrive, CallInv, CallTypes, MaskHolds, SignalsHold, Interrupted, Selects, Epolls,
           Writes
  <1>. QED
    BY <1>1, <1>2, <1>3, <1>4, <1>5 DEF CallInv

LEMMA CallCoreSysSelect == ASSUME CallInv, CoreSysSelect PROVE CallInv'
  <1>1. CallTypes'
    BY DEF CoreSysSelect, CallInv, CallTypes, clock, Selects, Epolls, Writes
  <1>2. TimesHold'
    BY DEF CoreSysSelect, CallInv, CallTypes, TimesHold, clock, Selects, Epolls, Writes,
           TimedOut, NoTimeout, None, Zero
  <1>3. SetsHold'
    BY DEF CoreSysSelect, CallInv, CallTypes, SetsHold, clock, Selects, Epolls, Writes
  <1>4. MaskHolds'
    BY DEF CoreSysSelect, CallInv, CallTypes, MaskHolds, SignalsHold, clock, Selects,
           Epolls, Writes, SignalPending, Blocked
  <1>5. SignalsHold'
    BY DEF CoreSysSelect, CallInv, CallTypes, MaskHolds, SignalsHold, Interrupted, clock,
           Selects, Epolls, Writes, SignalPending, Blocked
  <1>. QED
    BY <1>1, <1>2, <1>3, <1>4, <1>5 DEF CallInv

LEMMA CallDoSysPoll == ASSUME CallInv, DoSysPoll PROVE CallInv'
  <1>1. CallTypes'
    BY DEF DoSysPoll, CallInv, CallTypes, clock, Selects, Epolls, Writes
  <1>2. TimesHold'
    BY DEF DoSysPoll, CallInv, CallTypes, TimesHold, clock, Selects, Epolls, Writes,
           TimedOut, NoTimeout, None, Zero
  <1>3. SetsHold'
    BY DEF DoSysPoll, CallInv, CallTypes, SetsHold, clock, Selects, Epolls, Writes
  <1>4. MaskHolds'
    BY DEF DoSysPoll, CallInv, CallTypes, MaskHolds, SignalsHold, clock, Selects, Epolls,
           Writes, SignalPending, Blocked
  <1>5. SignalsHold'
    BY DEF DoSysPoll, CallInv, CallTypes, MaskHolds, SignalsHold, Interrupted, clock,
           Selects, Epolls, Writes, SignalPending, Blocked
  <1>. QED
    BY <1>1, <1>2, <1>3, <1>4, <1>5 DEF CallInv

LEMMA CallEpollWait == ASSUME CallInv, EpollWait PROVE CallInv'
  <1>1. CallTypes'
    BY DEF EpollWait, CallInv, CallTypes, clock, Selects, Epolls, Writes
  <1>2. TimesHold'
    BY DEF EpollWait, CallInv, CallTypes, TimesHold, clock, Selects, Epolls, Writes,
           TimedOut, NoTimeout, None, Zero
  <1>3. SetsHold'
    BY DEF EpollWait, CallInv, CallTypes, SetsHold, clock, Selects, Epolls, Writes
  <1>4. MaskHolds'
    BY DEF EpollWait, CallInv, CallTypes, MaskHolds, SignalsHold, clock, Selects, Epolls,
           Writes, SignalPending, Blocked
  <1>5. SignalsHold'
    BY DEF EpollWait, CallInv, CallTypes, MaskHolds, SignalsHold, Interrupted, clock,
           Selects, Epolls, Writes, SignalPending, Blocked
  <1>. QED
    BY <1>1, <1>2, <1>3, <1>4, <1>5 DEF CallInv

\* What is left is no less than it takes to reach the first deadline.
LEMMA CallCopyRemaining == ASSUME CallInv, CopyRemaining PROVE CallInv'
  <1> USE DEF CallInv
  <1>1. /\ UNCHANGED << now, pending, signals, ready, call, end, answered, mask, restore,
                        caught, deadline >>
        /\ at = "copies" /\ at' = IF call.fn = "pselect" THEN "unmasks" ELSE "leaves"
    BY DEF CopyRemaining, clock
  <1>2. /\ tsp' = IF tsp = NoTimeout \/ call.sticky \/ end = Zero THEN tsp
                  ELSE Max({0, end - now})
        /\ ret' = IF tsp # NoTimeout /\ call.sticky /\ end # Zero /\ ret = "ERESTARTNOHAND"
                  THEN "EINTR" ELSE ret
    BY DEF CopyRemaining, Remaining
  <1>3. CallTypes'
    BY <1>1, <1>2 DEF CallTypes, Selects, Epolls, Writes
  <1>4. TimesHold'
    <2>1. PICK m \in Int : m = Max({0, end - now}) /\ m \in {0, end - now} /\ m >= 0
                           /\ m >= end - now
      BY MaxOfTwo DEF TimesHold
    <2>. QED
      BY <1>1, <1>2, <2>1 DEF CallTypes, TimesHold, Selects, Writes, NoTimeout, None, Zero
  <1>5. SetsHold'
    BY <1>1, <1>2 DEF SetsHold
  <1>6. MaskHolds'
    BY <1>1, <1>2 DEF CallTypes, MaskHolds, Selects, Writes
  <1>7. SignalsHold'
    BY <1>1, <1>2 DEF CallTypes, MaskHolds, SignalsHold, Interrupted, Selects, Epolls, Writes
  <1>. QED
    BY <1>3, <1>4, <1>5, <1>6, <1>7

LEMMA CallUnmaskSelect == ASSUME CallInv, UnmaskSelect PROVE CallInv'
  <1>1. CallTypes'
    BY DEF UnmaskSelect, CallInv, CallTypes, clock, Selects, Epolls, Writes
  <1>2. TimesHold'
    BY DEF UnmaskSelect, CallInv, CallTypes, TimesHold, clock, Selects, Epolls, Writes,
           NoTimeout, None, Zero
  <1>3. SetsHold'
    BY DEF UnmaskSelect, CallInv, CallTypes, SetsHold, clock, Selects, Epolls, Writes
  <1>4. MaskHolds'
    BY DEF UnmaskSelect, CallInv, CallTypes, MaskHolds, SignalsHold, clock, Selects, Epolls,
           Writes
  <1>5. SignalsHold'
    BY DEF UnmaskSelect, CallInv, CallTypes, MaskHolds, SignalsHold, Interrupted, clock,
           Selects, Epolls, Writes
  <1>. QED
    BY <1>1, <1>2, <1>3, <1>4, <1>5 DEF CallInv

LEMMA CallUnmaskPoll == ASSUME CallInv, UnmaskPoll PROVE CallInv'
  <1>1. CallTypes'
    BY DEF UnmaskPoll, CallInv, CallTypes, clock, Selects, Epolls, Writes
  <1>2. TimesHold'
    BY DEF UnmaskPoll, CallInv, CallTypes, TimesHold, clock, Selects, Epolls, Writes,
           NoTimeout, None, Zero
  <1>3. SetsHold'
    BY DEF UnmaskPoll, CallInv, CallTypes, SetsHold, clock, Selects, Epolls, Writes
  <1>4. MaskHolds'
    BY DEF UnmaskPoll, CallInv, CallTypes, MaskHolds, SignalsHold, clock, Selects, Epolls,
           Writes
  <1>5. SignalsHold'
    BY DEF UnmaskPoll, CallInv, CallTypes, MaskHolds, SignalsHold, Interrupted, clock,
           Selects, Epolls, Writes
  <1>. QED
    BY <1>1, <1>2, <1>3, <1>4, <1>5 DEF CallInv

LEMMA CallUnmaskEpoll == ASSUME CallInv, UnmaskEpoll PROVE CallInv'
  <1>1. CallTypes'
    BY DEF UnmaskEpoll, CallInv, CallTypes, clock, Selects, Epolls, Writes
  <1>2. TimesHold'
    BY DEF UnmaskEpoll, CallInv, CallTypes, TimesHold, clock, Selects, Epolls, Writes,
           NoTimeout, None, Zero
  <1>3. SetsHold'
    BY DEF UnmaskEpoll, CallInv, CallTypes, SetsHold, clock, Selects, Epolls, Writes
  <1>4. MaskHolds'
    BY DEF UnmaskEpoll, CallInv, CallTypes, MaskHolds, SignalsHold, clock, Selects, Epolls,
           Writes
  <1>5. SignalsHold'
    BY DEF UnmaskEpoll, CallInv, CallTypes, MaskHolds, SignalsHold, Interrupted, clock,
           Selects, Epolls, Writes
  <1>. QED
    BY <1>1, <1>2, <1>3, <1>4, <1>5 DEF CallInv

LEMMA CallHandle == ASSUME CallInv, Handle PROVE CallInv'
  <1>1. CallTypes'
    BY DEF Handle, CallInv, CallTypes, Selects, Epolls, Writes, Leaving, Restartable
  <1>2. TimesHold'
    BY DEF Handle, CallInv, CallTypes, TimesHold, Selects, Epolls, Writes, Leaving,
           Restartable, NoTimeout, None, Zero
  <1>3. SetsHold'
    BY DEF Handle, CallInv, CallTypes, SetsHold, Selects, Epolls, Writes, Leaving,
           Restartable
  <1>4. MaskHolds'
    BY DEF Handle, CallInv, CallTypes, MaskHolds, SignalsHold, Selects, Epolls, Writes,
           Leaving, Restartable, SignalPending, Blocked
  <1>5. SignalsHold'
    BY DEF Handle, CallInv, CallTypes, MaskHolds, SignalsHold, Interrupted, Selects, Epolls,
           Writes, Leaving, Restartable, SignalPending, Blocked
  <1>. QED
    BY <1>1, <1>2, <1>3, <1>4, <1>5 DEF CallInv

LEMMA CallRestart == ASSUME CallInv, Restart PROVE CallInv'
  <1>1. CallTypes'
    BY DEF Restart, CallInv, CallTypes, Selects, Epolls, Writes, Leaving, Restartable
  <1>2. TimesHold'
    BY DEF Restart, CallInv, CallTypes, TimesHold, Selects, Epolls, Writes, Leaving,
           Restartable, EndTime, NoTimeout, None, Zero
  <1>3. SetsHold'
    BY DEF Restart, CallInv, CallTypes, SetsHold, Selects, Epolls, Writes, Leaving,
           Restartable
  <1>4. MaskHolds'
    BY DEF Restart, CallInv, CallTypes, MaskHolds, SignalsHold, Selects, Epolls, Writes,
           Leaving, Restartable, SignalPending, Blocked
  <1>5. SignalsHold'
    BY DEF Restart, CallInv, CallTypes, MaskHolds, SignalsHold, Interrupted, Selects,
           Epolls, Writes, Leaving, Restartable, SignalPending, Blocked
  <1>. QED
    BY <1>1, <1>2, <1>3, <1>4, <1>5 DEF CallInv

LEMMA CallIgnore == ASSUME CallInv, Ignore PROVE CallInv'
  <1>1. CallTypes'
    BY DEF Ignore, CallInv, CallTypes, Selects, Epolls, Writes, Leaving, Restartable
  <1>2. TimesHold'
    BY DEF Ignore, CallInv, CallTypes, TimesHold, Selects, Epolls, Writes, Leaving,
           Restartable, NoTimeout, None, Zero
  <1>3. SetsHold'
    BY DEF Ignore, CallInv, CallTypes, SetsHold, Selects, Epolls, Writes, Leaving,
           Restartable
  <1>4. MaskHolds'
    BY DEF Ignore, CallInv, CallTypes, MaskHolds, SignalsHold, Selects, Epolls, Writes,
           Leaving, Restartable, SignalPending, Blocked
  <1>5. SignalsHold'
    BY DEF Ignore, CallInv, CallTypes, MaskHolds, SignalsHold, Interrupted, Selects, Epolls,
           Writes, Leaving, Restartable, SignalPending, Blocked
  <1>. QED
    BY <1>1, <1>2, <1>3, <1>4, <1>5 DEF CallInv

LEMMA CallReturn == ASSUME CallInv, Return PROVE CallInv'
  <1>1. CallTypes'
    BY DEF Return, CallInv, CallTypes, clock, Selects, Epolls, Writes
  <1>2. TimesHold'
    BY DEF Return, CallInv, CallTypes, TimesHold, clock, Selects, Epolls, Writes, NoTimeout,
           None, Zero
  <1>3. SetsHold'
    BY DEF Return, CallInv, CallTypes, SetsHold, clock, Selects, Epolls, Writes
  <1>4. MaskHolds'
    BY DEF Return, CallInv, CallTypes, MaskHolds, SignalsHold, clock, Selects, Epolls,
           Writes, SignalPending, Blocked
  <1>5. SignalsHold'
    BY DEF Return, CallInv, CallTypes, MaskHolds, SignalsHold, Interrupted, clock, Selects,
           Epolls, Writes, SignalPending, Blocked
  <1>. QED
    BY <1>1, <1>2, <1>3, <1>4, <1>5 DEF CallInv

LEMMA CallEnter ==
    ASSUME CallAssumption, CallInv, NEW c \in Calls, NEW t \in Timeouts, Enter(c, t)
    PROVE  CallInv'
  <1> USE DEF CallInv
  <1>1. /\ UNCHANGED << now, pending, signals, ready, ret, answered, restore, caught >>
        /\ at = "user" /\ ret = "none" /\ at' = "waits" /\ call' = c /\ tsp' = t
        /\ end' = EndTime(t) /\ mask' = IF c.masked THEN "call" ELSE mask
        /\ deadline' = IF t = NoTimeout THEN 0 ELSE now + t
    BY DEF Enter, clock
  <1>2. t \in Int /\ (t >= 0 \/ t = NoTimeout)
    BY DEF CallAssumption, NoTimeout
  <1>3. CallTypes'
    BY <1>1, CallKinds DEF CallTypes
  <1>4. TimesHold'
    BY <1>1, <1>2 DEF TimesHold, EndTime, NoTimeout, None, Zero
  <1>5. SetsHold'
    BY <1>1 DEF SetsHold
  <1>6. MaskHolds' /\ SignalsHold'
    BY <1>1, CallKinds DEF MaskHolds, SignalsHold, Interrupted
  <1>. QED
    BY <1>3, <1>4, <1>5, <1>6

LEMMA CallStep == CallAssumption /\ CallInv /\ [Next]_vars => CallInv'
  <1> SUFFICES ASSUME CallAssumption, CallInv, [Next]_vars PROVE CallInv'
    OBVIOUS
  <1>1. CASE UNCHANGED vars
    BY <1>1 DEF vars, clock, CallInv, CallTypes, TimesHold, SetsHold, MaskHolds, SignalsHold,
                Interrupted
  <1>2. CASE \E c \in Calls, t \in Timeouts : Enter(c, t)
    BY <1>2, CallEnter
  <1>3. CASE Tick \/ Signal \/ Arrive
    BY <1>3, CallTick, CallSignal, CallArrive
  <1>4. CASE CoreSysSelect \/ DoSysPoll \/ EpollWait
    BY <1>4, CallCoreSysSelect, CallDoSysPoll, CallEpollWait
  <1>5. CASE CopyRemaining \/ UnmaskSelect \/ UnmaskPoll \/ UnmaskEpoll
    BY <1>5, CallCopyRemaining, CallUnmaskSelect, CallUnmaskPoll, CallUnmaskEpoll
  <1>6. CASE Handle \/ Restart \/ Ignore \/ Return
    BY <1>6, CallHandle, CallRestart, CallIgnore, CallReturn
  <1>. QED
    BY <1>1, <1>2, <1>3, <1>4, <1>5, <1>6 DEF Next

LEMMA CallAlways == CallAssumption => (Spec => []CallInv)
  <1> SUFFICES ASSUME CallAssumption PROVE Spec => []CallInv
    OBVIOUS
  <1>1. CallInv /\ [Next]_vars => CallInv'
    BY CallStep
  <1>. QED
    BY CallInit, <1>1, PTL DEF Spec

\* A call that is restarted, as often as signals ask for it, never says before its
\* first deadline that nothing happened (poll_select_copy_remaining, do_restart_poll).
THEOREM NeverTimesOutEarly == CallAssumption => (Spec => []NeverEarly)
  <1>1. CallInv => NeverEarly
    BY DEF CallInv, CallTypes, TimesHold, NeverEarly, None, Zero, NoTimeout, Writes
  <1>. QED
    BY <1>1, CallAlways, PTL

\* A call that is restarted, or fails, finds its sets as they were given, for
\* core_sys_select copies none out then.
THEOREM SetsStayIntact == CallAssumption => (Spec => []SetsIntact)
  <1>1. CallInv => SetsIntact
    BY DEF CallInv, SetsHold, SetsIntact
  <1>. QED
    BY <1>1, CallAlways, PTL

\* The mask of a call is on while it waits and gone when it returns, whoever puts
\* it back: do_pselect, ppoll, epoll_pwait or the delivery of the signal.
THEOREM MaskComesBack == CallAssumption => (Spec => []MaskBack)
  <1>1. CallInv => MaskBack
    BY DEF CallInv, MaskHolds, MaskBack
  <1>. QED
    BY <1>1, CallAlways, PTL

\* EINTR has a signal behind it, and a handler where the call could be restarted,
\* but for the pselect that cannot write the remaining time.
THEOREM InterruptedBySignal == CallAssumption => (Spec => []Interrupted)
  <1>1. CallInv => Interrupted
    BY DEF CallInv, SignalsHold
  <1>. QED
    BY <1>1, CallAlways, PTL

-----------------------------------------------------------------------------
(* The count of the descriptors.                                            *)

\* A set of naturals below a bound has a greatest member.
LEMMA MaxIsGreatest ==
    ASSUME NEW n \in Nat, NEW S \in SUBSET (0 .. n), S # {}
    PROVE  Max(S) \in S /\ \A y \in S : Max(S) >= y
  <1> DEFINE T == {m \in 0 .. n : n - m \in S}
  <1>1. PICK m \in T : \A k \in T : m <= k
    <2>1. PICK s \in S : TRUE
      OBVIOUS
    <2>2. n - s \in 0 .. n /\ n - (n - s) = s
      OBVIOUS
    <2>3. T \in SUBSET Nat /\ T # {}
      BY <2>2
    <2>. HIDE DEF T
    <2>. QED
      BY <2>3, Smallest
  <1>2. ASSUME NEW y \in S PROVE n - m >= y
    <2>1. n - y \in 0 .. n /\ n - (n - y) = y
      OBVIOUS
    <2>2. n - y \in T
      BY <2>1
    <2>3. m <= n - y /\ m \in 0 .. n
      BY <1>1, <2>2
    <2>. QED
      BY <2>3
  <1>3. \E x \in S : \A y \in S : x >= y
    BY <1>1, <1>2
  <1>. QED
    BY <1>3 DEF Max

LEMMA DivisionGrows ==
    ASSUME NEW d \in Nat, d > 0, NEW b \in Nat, NEW c \in Nat
    PROVE  b \div d \in Nat /\ (b <= c => b \div d <= c \div d)
  <1> DEFINE q == b \div d
             r == c \div d
  <1>1. q \in Int /\ r \in Int /\ d * q <= b /\ b < d * q + d /\ d * r <= c /\ c < d * r + d
    OBVIOUS
  <1>2. q >= 0
    OBVIOUS
  <1>3. ASSUME b <= c, q > r PROVE FALSE
    <2>1. q >= r + 1
      BY <1>1, <1>3
    <2>2. d * q >= d * (r + 1)
      BY <1>1, <2>1
    <2>3. d * (r + 1) = d * r + d
      BY <1>1
    <2>. HIDE DEF q, r
    <2>. QED
      BY <1>1, <1>3, <2>2, <2>3
  <1>. QED
    BY <1>1, <1>2, <1>3

Answer(seen, open) ==
    IF ~(seen \subseteq open) THEN EBADF ELSE IF seen = {} THEN 0 ELSE Max(seen) + 1

Follows(seen, word, n) ==
    /\ word \subseteq 0 .. n /\ seen \subseteq 0 .. n
    /\ \A b \in word, c \in seen : b < c

\* One more word, of descriptors below those seen.
LEMMA WithWordAnswers ==
    ASSUME NEW n \in Nat, NEW word, NEW seen, NEW open, Follows(seen, word, n)
    PROVE  WithWord(word, open, Answer(seen, open)) = Answer(word \cup seen, open)
  <1>0. /\ word \in SUBSET (0 .. n) /\ seen \in SUBSET (0 .. n)
        /\ word \cup seen \in SUBSET (0 .. n)
        /\ \A b \in word, c \in seen : b < c
        /\ \A x \in word \cup seen : x \in Nat
    <2>1. 0 .. n \subseteq Nat
      OBVIOUS
    <2>. QED
      BY <2>1 DEF Follows
  <1>1. CASE ~(word \cup seen \subseteq open)
    <2>1. ~(word \subseteq open) \/ Answer(seen, open) = EBADF
      BY <1>1 DEF Answer
    <2>. QED
      BY <1>1, <2>1 DEF Answer, WithWord
  <1>2. CASE word \cup seen \subseteq open /\ seen = {}
    <2>1. Answer(seen, open) = 0 /\ word \cup seen = word
      BY <1>2 DEF Answer
    <2>. QED
      BY <1>2, <2>1 DEF Answer, WithWord, EBADF
  <1>3. CASE word \cup seen \subseteq open /\ seen # {}
    <2>1. Max(seen) \in seen /\ \A y \in seen : Max(seen) >= y
      BY <1>0, <1>3, MaxIsGreatest
    <2>2. Max(word \cup seen) \in word \cup seen /\ \A y \in word \cup seen : Max(word \cup seen) >= y
      BY <1>0, <1>3, MaxIsGreatest
    <2>3. Max(word \cup seen) = Max(seen)
      <3>1. Max(word \cup seen) \in Nat /\ Max(seen) \in Nat
        <4>1. Max(seen) \in word \cup seen
          BY <2>1
        <4>. QED
          BY <1>0, <2>2, <4>1
      <3>2. Max(word \cup seen) >= Max(seen)
        BY <2>1, <2>2
      <3>3. Max(word \cup seen) \notin word
        BY <1>0, <2>1, <3>1, <3>2
      <3>4. Max(seen) >= Max(word \cup seen)
        BY <2>1, <2>2, <3>3
      <3>. QED
        BY <3>1, <3>2, <3>4
    <2>4. Answer(seen, open) = Max(seen) + 1 /\ Max(seen) + 1 > 0
      <3>1. Max(seen) \in Nat
        BY <1>0, <2>1
      <3>2. seen \subseteq open
        BY <1>3
      <3>. QED
        BY <1>3, <3>1, <3>2 DEF Answer
    <2>5. WithWord(word, open, Answer(seen, open)) = Max(seen) + 1
      BY <1>3, <2>1, <2>4 DEF WithWord, EBADF
    <2>. QED
      BY <1>3, <2>3, <2>5 DEF Answer
  <1>. QED
    BY <1>1, <1>2, <1>3

\* max_select_fd counts to the largest descriptor below n that is asked for, whatever
\* the size of a word, and finds a closed one in any word.
LEMMA MaxSelectFd ==
    ASSUME NEW n \in Nat, NEW set \in SUBSET Nat, NEW open \in SUBSET Nat,
           NEW bits \in Nat, bits > 0
    PROVE  max_select_fd(n, set, open, bits) = Answer({b \in set : b < n}, open)
  <1> DEFINE words == n \div bits
             Word(k) == {b \in set : b < n /\ b \div bits = k}
             Seen(i) == {b \in set : b < n /\ b \div bits >= words - i}
             Right(f) == f = [i \in 0 .. words |->
                               WithWord(Word(words - i), open, IF i = 0 THEN 0 ELSE f[i - 1])]
             max == CHOOSE f : Right(f)
             turn == [i \in 1 .. words |-> [m \in Int |-> WithWord(Word(words - i), open, m)]]
             start == WithWord(Word(words), open, 0)
  <1>1. max_select_fd(n, set, open, bits) = max[words]
    BY DEF max_select_fd
  <1>2. words \in Nat /\ \A b \in Nat : b \div bits \in Nat /\ (b < n => b \div bits <= words)
    BY DivisionGrows
  <1>. HIDE DEF words
  <1>13. {b \in set : b < n} \in SUBSET (0 .. n)
    <2>1. \A b \in set : b < n => b \in 0 .. n
      OBVIOUS
    <2>. QED
      BY <2>1
  <1>3. \A i \in 0 .. words : Word(words - i) \in SUBSET (0 .. n) /\ Seen(i) \in SUBSET (0 .. n)
    BY <1>13
  <1>4. ASSUME NEW k \in Int, NEW m \in Int PROVE WithWord(Word(k), open, m) \in Int
    <2>1. Word(k) \in SUBSET (0 .. n)
      BY <1>13
    <2>2. Word(k) # {} => Max(Word(k)) \in Int
      <3>. HIDE DEF Word
      <3>. QED
        BY <2>1, MaxIsGreatest, 0 .. n \subseteq Int
    <2>. HIDE DEF Word
    <2>. QED
      BY <2>2 DEF WithWord, EBADF
  <1>5. PICK f : IsRun(f, Int, start, words, turn)
    <2>1. start \in Int
      BY <1>2, <1>4
    <2>2. turn \in [1 .. words -> [Int -> Int]]
      <3>1. \A i \in 1 .. words : words - i \in Int
        BY <1>2
      <3>. HIDE DEF Word
      <3>. QED
        BY <1>4, <3>1
    <2>. HIDE DEF start, turn
    <2>3. IsLoop(Int, start, words, turn)
      BY <1>2, <2>1, <2>2 DEF IsLoop
    <2>. QED
      BY <2>3, Iteration
  <1>6. Right(f)
    <2>1. f \in [0 .. words -> Int] /\ f[0] = start
      BY <1>5 DEF IsRun
    <2>2. ASSUME NEW i \in 1 .. words PROVE f[i] = WithWord(Word(words - i), open, f[i - 1])
      <3>1. f[i] = turn[i][f[i - 1]]
        BY <1>5 DEF IsRun
      <3>2. i - 1 \in 0 .. words
        BY <1>2
      <3>. HIDE DEF Word
      <3>. QED
        BY <2>1, <3>1, <3>2
    <2>3. words - 0 = words
      BY <1>2
    <2>. HIDE DEF Word
    <2>4. \A i \in 0 .. words : f[i] = WithWord(Word(words - i), open, IF i = 0 THEN 0 ELSE f[i - 1])
      BY <1>2, <2>1, <2>2, <2>3
    <2>. QED
      BY <2>1, <2>4
  <1>7. Right(max)
    <2>. HIDE DEF Right
    <2>. QED
      BY <1>6
  <1>. HIDE DEF max
  <1>8. \A i \in 0 .. words : max[i] = WithWord(Word(words - i), open, IF i = 0 THEN 0 ELSE max[i - 1])
    <2>. HIDE DEF Word
    <2>. QED
      BY <1>7
  <1> DEFINE T == {i \in 0 .. words : max[i] = Answer(Seen(i), open)}
  <1>9. 0 \in T
    <2>1. Seen(0) = Word(words - 0) \cup {} /\ 0 \in 0 .. words
      <3>1. \A b \in set : b < n => ((b \div bits >= words - 0) <=> (b \div bits = words - 0))
        BY <1>2
      <3>2. Word(words - 0) \cup {} = Word(words - 0)
        OBVIOUS
      <3>3. Seen(0) = Word(words - 0)
        BY <3>1
      <3>4. 0 \in 0 .. words
        BY <1>2
      <3>. HIDE DEF Word, Seen
      <3>. QED
        BY <3>2, <3>3, <3>4
    <2>2. Answer({}, open) = 0
      BY DEF Answer
    <2>3. WithWord(Word(words - 0), open, 0) = Answer(Seen(0), open)
      <3>1. Word(words - 0) \in SUBSET (0 .. n) /\ {} \in SUBSET (0 .. n)
        BY <1>3, <2>1
      <3>. HIDE DEF Word, Seen
      <3>2. WithWord(Word(words - 0), open, Answer({}, open)) = Answer(Word(words - 0) \cup {}, open)
        <4>1. Follows({}, Word(words - 0), n)
          BY <3>1 DEF Follows
        <4>. QED
          BY <4>1, WithWordAnswers
      <3>. QED
        BY <2>1, <2>2, <3>2
    <2>. QED
      BY <1>8, <2>1, <2>3
  <1>10. ASSUME NEW i \in 1 .. words, i - 1 \in T PROVE i \in T
    <2>1. i \in 0 .. words /\ i - 1 \in 0 .. words /\ i # 0
      BY <1>2
    <2>2. Seen(i) = Word(words - i) \cup Seen(i - 1)
      <3>1. \A b \in set : (b \div bits >= words - i)
                            <=> (b \div bits = words - i \/ b \div bits >= words - (i - 1))
        BY <1>2
      <3>. QED
        BY <3>1
    <2>3. \A b \in Word(words - i), c \in Seen(i - 1) : b < c
      <3>1. ASSUME NEW b \in Word(words - i), NEW c \in Seen(i - 1) PROVE b < c
        <4>1. b \in Nat /\ c \in Nat /\ b \div bits < c \div bits
          BY <1>2
        <4>. QED
          BY <1>2, <4>1, DivisionGrows
      <3>. QED
        BY <3>1
    <2>5. Word(words - i) \in SUBSET (0 .. n) /\ Seen(i - 1) \in SUBSET (0 .. n)
      BY <1>3, <2>1
    <2>. HIDE DEF Word, Seen
    <2>6. WithWord(Word(words - i), open, Answer(Seen(i - 1), open))
          = Answer(Word(words - i) \cup Seen(i - 1), open)
      <3>1. Follows(Seen(i - 1), Word(words - i), n)
        BY <2>3, <2>5 DEF Follows
      <3>. QED
        BY <3>1, WithWordAnswers
    <2>4. WithWord(Word(words - i), open, Answer(Seen(i - 1), open)) = Answer(Seen(i), open)
      BY <2>2, <2>6
    <2>. QED
      BY <1>8, <1>10, <2>1, <2>4
  <1>11. \A i \in 0 .. words : i \in T
    <2>. HIDE DEF T
    <2>. QED
      BY <1>2, <1>9, <1>10, Induction
  <1>12. Seen(words) = {b \in set : b < n} /\ words \in 0 .. words
    <2>1. \A b \in set : b \div bits >= words - words
      BY <1>2
    <2>2. Seen(words) = {b \in set : b < n}
      BY <2>1
    <2>3. words \in 0 .. words
      BY <1>2
    <2>. QED
      BY <2>2, <2>3
  <1>. QED
    BY <1>1, <1>11, <1>12

LEMMA DescriptorsCounted == CountsDescriptors
  <1> SUFFICES ASSUME NEW n \in 0 .. 5, NEW set \in SUBSET (0 .. 5)
               PROVE  max_select_fd(n, set, {0, 1, 2, 4}, 2)
                        = Answer({b \in set : b < n}, {0, 1, 2, 4})
    BY DEF CountsDescriptors, Answer
  <1>1. n \in Nat /\ set \in SUBSET Nat /\ {0, 1, 2, 4} \in SUBSET Nat
    OBVIOUS
  <1>. QED
    BY <1>1, MaxSelectFd

\* A select call is never told too early that nothing happened, leaves its sets as they
\* were when it fails, puts the mask back, says EINTR for a signal only and counts the
\* descriptors it is asked about (do_select, core_sys_select, max_select_fd).
THEOREM CallsAreSound == CallAssumption => (Spec => []CallSound)
  BY NeverTimesOutEarly, SetsStayIntact, MaskComesBack, InterruptedBySignal,
     DescriptorsCounted, PTL DEF CallSound
=============================================================================
