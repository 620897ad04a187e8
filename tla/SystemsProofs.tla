---------------------------- MODULE SystemsProofs ----------------------------
(***************************************************************************)
(* The properties that run systems checks of its parts, for every value of *)
(* the constants: what the proof module of a part shows of it holds of a   *)
(* behaviour of MCSystems that is one of that part.                        *)
(***************************************************************************)
EXTENDS MCSystems, PartsProofs

-----------------------------------------------------------------------------
(* The parts of Parts.                                                     *)

InLFU    == part = "lfu"
InNest   == part = "nest"
InTimers == part = "timers"
InEcho   == part = "echo"
InRelay  == part = "relay"

\* A behaviour that begins in a part stays in it.
LEMMA PartsStay ==
  Spec => /\ (InLFU /\ LFU!Spec) \/ []~InLFU
          /\ (InNest /\ Nest!Spec) \/ []~InNest
          /\ (InTimers /\ Timers!Spec) \/ []~InTimers
          /\ (InEcho /\ Echo!Spec) \/ []~InEcho
          /\ (InRelay /\ Relay!Spec) \/ []~InRelay
<1>1. Init => /\ InLFU => LFU!Init
              /\ InNest => Nest!Init
              /\ InTimers => Timers!Init
              /\ InEcho => Echo!Init
              /\ InRelay => Relay!Init
  BY DEF Init, InLFU, InNest, InTimers, InEcho, InRelay
<1>2. InLFU /\ [Next]_allvars => InLFU' /\ [LFU!Next]_(LFU!vars)
  BY DEF Next, allvars, LFU!vars, InLFU
<1>3. InNest /\ [Next]_allvars => InNest' /\ [Nest!Next]_(Nest!vars)
  BY DEF Next, allvars, Nest!vars, InNest
<1>4. InTimers /\ [Next]_allvars => InTimers' /\ [Timers!Next]_(Timers!vars)
  BY DEF Next, allvars, Timers!vars, InTimers
<1>5. InRelay /\ [Next]_allvars => InRelay' /\ [Relay!Next]_(Relay!vars)
  BY DEF Next, allvars, Relay!vars, Relay!conns, Relay!wire, Relay!tun, Relay!loop, InRelay
<1>6. InEcho /\ [Next]_allvars => InEcho' /\ [Echo!Next]_(Echo!vars)
  BY DEF Next, allvars, Echo!vars, Echo!net, Echo!table, InEcho
<1>7. /\ ~InLFU /\ [Next]_allvars => ~InLFU'
      /\ ~InNest /\ [Next]_allvars => ~InNest'
      /\ ~InTimers /\ [Next]_allvars => ~InTimers'
      /\ ~InEcho /\ [Next]_allvars => ~InEcho'
      /\ ~InRelay /\ [Next]_allvars => ~InRelay'
  BY DEF Next, allvars, InLFU, InNest, InTimers, InEcho, InRelay
<1>8. Spec /\ InLFU => LFU!Spec
  BY <1>1, <1>2, PTL DEF Spec, LFU!Spec
<1>9. Spec /\ InNest => Nest!Spec
  BY <1>1, <1>3, PTL DEF Spec, Nest!Spec
<1>10. Spec /\ InTimers => Timers!Spec
  BY <1>1, <1>4, PTL DEF Spec, Timers!Spec
<1>11. Spec /\ InRelay => Relay!Spec
  BY <1>1, <1>5, PTL DEF Spec, Relay!Spec
<1>12. Spec /\ InEcho => Echo!Spec
  BY <1>1, <1>6, PTL DEF Spec, Echo!Spec
<1> QED BY <1>7, <1>8, <1>9, <1>10, <1>11, <1>12, PTL DEF Spec

\* As long as no cached key is set again the three maps of LFUCache agree, for any keys
\* and any capacity: every cached key is in the list of its frequency, once, and in no
\* other, and used_ counts them (Get, Set and Evict).
THEOREM LFUTablesAgree == Spec => []TablesAgree
<1>1. /\ LFU!TablesAgree => TablesAgree
      /\ ~InLFU => TablesAgree
  BY DEF TablesAgree, InLFU
<1> QED BY <1>1, PartsStay, LFUSound, PTL

\* And the key that a Set makes room by is among the least used ones (Evict).
THEOREM LFULeastUsedLeaves == Spec => LeastUsedLeaves
<1>1. [Next]_allvars /\ [LFU!LeastLeaves]_(LFU!vars) => [InLFU => LFU!LeastLeaves]_allvars
  <2>1. UNCHANGED LFU!vars => LFU!LeastLeaves
    BY DEF LFU!vars, LFU!LeastLeaves
  <2> QED BY <2>1
<1>2. ~InLFU => [InLFU => LFU!LeastLeaves]_allvars
  OBVIOUS
<1> QED BY <1>1, <1>2, PartsStay, LFUSound, PTL
       DEF Spec, LeastUsedLeaves, LFU!LeastUsedLeaves, InLFU

\* No eventpoll ever watches itself, directly or through others, for any number of
\* eventpolls, tasks and any nesting allowed (SYSCALL epoll_ctl, ep_loop_check_proc).
THEOREM LinksAcyclic == Spec => []Acyclic
<1>1. /\ Nest!Acyclic => Acyclic
      /\ ~InNest => Acyclic
  BY DEF Acyclic, InNest
<1> QED BY <1>1, PartsStay, NestSound, PTL

\* TimerManager's table never names a Timer that is not in its list, and no Timer fires
\* twice or after it was stopped, for any ids, delays and addresses that new may give.
THEOREM TimersListed == Spec => []TableIsListed
<1>1. /\ Timers!TableIsListed => TableIsListed
      /\ ~InTimers => TableIsListed
  BY DEF TableIsListed, InTimers
<1> QED BY <1>1, PartsStay, TimersSound, PTL

\* Whatever order epoll reports events in and whatever a handler closes meanwhile, the
\* table of the event loop, epoll and the EchoBufs agree, and a client is sent only lines
\* of its own, in the order it wrote them, for any number of clients, lines and buffers
\* (aeProcessEvents, acceptTcpHandler, readHandler, writeHandler).
THEOREM EchoStaysSound == Spec => []EchoSound
<1>1. /\ Echo!EchoSound => EchoSound
      /\ ~InEcho => EchoSound
  BY DEF EchoSound, InEcho
<1> QED BY <1>1, PartsStay, EchoIsSound, PTL

\* What one peer of a tunnel sends is sent to the other one in order and from its first
\* byte, and none of it is lost or kept back while both connections stand, however many
\* bytes, whatever the marks, reads, writes, functors and resets (onServerMessage,
\* onClientMessage, TcpConnection::handleWrite).
THEOREM TunnelInOrder == Spec => []InOrder
<1>1. /\ Relay!InOrder => InOrder
      /\ ~InRelay => InOrder
  BY DEF InOrder, InRelay
<1> QED BY <1>1, PartsStay, TunnelSound, PTL

\* And a side that back-pressure stopped is started again: what stopped it is still to be
\* written and has its callback, or the callback is queued (onHighWaterMark,
\* onWriteComplete).
THEOREM TunnelResumes == Spec => []Resumes
<1>1. /\ Relay!Resumes => Resumes
      /\ ~InRelay => Resumes
  BY DEF Resumes, InRelay
<1> QED BY <1>1, PartsStay, TunnelSound, PTL

-----------------------------------------------------------------------------
(* AeTime: v1 list, v2 id, v3 when, v4 nextId, v6 now, v7 te, v8 maxId,    *)
(* v9 skewed, v10 met, v11 fired, v12 finalized.                           *)

TimeEvents == Time!Events

TimeTypes ==
    /\ v1 \in Seq(TimeEvents) /\ v2 \in [TimeEvents -> TimeEvents \cup {-1}]
    /\ v3 \in [TimeEvents -> Nat] /\ v4 \in 0 .. MaxEvents
    /\ v6 \in Clock
    /\ v7 \in TimeEvents \cup {-1} /\ v8 \in TimeEvents \cup {-1} /\ v9 \in BOOLEAN
    /\ v10 \subseteq TimeEvents /\ v11 \subseteq TimeEvents /\ v12 \in [TimeEvents -> Nat]

\* An event is in the list from its creation to its finalizer, once; its id is its own
\* until it is deleted.
InList ==
    /\ IsInjective(v1)
    /\ \A e \in Range(v1) : e < v4
    /\ \A e \in TimeEvents : v2[e] # -1 => v2[e] = e /\ e \in Range(v1)
    /\ \A e \in TimeEvents : v12[e] = IF e < v4 /\ e \notin Range(v1) THEN 1 ELSE 0

\* What the walk has yet to come to.
Ahead(s, e) == {s[j] : j \in {k \in DOMAIN s : \E i \in DOMAIN s : s[i] = e /\ i <= k}}

\* A walk of a clock that was set back called what it has passed; what is ahead was forced.
WalkForces ==
    /\ v7 # -1 => v7 \in Range(v1)
    /\ \A e \in v10 : e < v4 /\ (v7 # -1 => e <= v8)
    /\ v9 => \A e \in v10 : \/ e \in v11 \/ v2[e] = -1
                            \/ v7 # -1 /\ e \in Ahead(v1, v7) /\ v3[e] < Second

TimeInv == TimeTypes /\ InList /\ WalkForces

LEMMA TimeConstants ==
  /\ MaxEvents \in Nat /\ EventDelays \subseteq Nat /\ Second \in Nat \ {0}
  /\ Clock \subseteq Nat /\ \A t \in Clock : t >= Second
  /\ TimeEvents = 0 .. MaxEvents - 1 /\ -1 \notin TimeEvents
  /\ Time!Deleted = -1 /\ Time!None = -1
BY SystemsAssumption DEF Time!TimeAssumption, TimeEvents, Time!Events, Time!Deleted, Time!None

\* The place of a member of a list that has none twice, what follows it, and what is ahead.
LEMMA PlaceIs ==
  ASSUME NEW A, NEW s \in Seq(A), IsInjective(s), NEW e \in Range(s)
  PROVE  LET i == CHOOSE j \in DOMAIN s : s[j] = e
         IN  /\ i \in DOMAIN s /\ s[i] = e
             /\ Ahead(s, e) = {s[j] : j \in i .. Len(s)}
<1>1. PICK i \in DOMAIN s : s[i] = e
  BY DEF Range
<1>2. \A j \in DOMAIN s : s[j] = e => j = i
  BY <1>1 DEF IsInjective
<1>3. (CHOOSE j \in DOMAIN s : s[j] = e) = i
  BY <1>1, <1>2
<1>4. DOMAIN s = 1 .. Len(s) /\ Len(s) \in Nat
  OBVIOUS
<1>5. {k \in DOMAIN s : \E j \in DOMAIN s : s[j] = e /\ j <= k} = i .. Len(s)
  <2>1. \A k : k \in DOMAIN s /\ i <= k <=> k \in i .. Len(s)
    BY <1>1, <1>4
  <2> QED BY <1>1, <1>2, <2>1
<1> QED BY <1>1, <1>3, <1>5 DEF Ahead

\* One step along the list: what is ahead of the next is what was ahead, but for this one.
LEMMA Onward ==
  ASSUME NEW A, NEW s \in Seq(A), IsInjective(s), NEW i \in DOMAIN s
  PROVE  /\ i # Len(s) => /\ i + 1 \in DOMAIN s /\ s[i + 1] \in Range(s)
                          /\ Ahead(s, s[i]) \subseteq {s[i]} \cup Ahead(s, s[i + 1])
         /\ i = Len(s) => Ahead(s, s[i]) = {s[i]}
<1>1. DOMAIN s = 1 .. Len(s) /\ Len(s) \in Nat
  OBVIOUS
<1>2. \A j \in DOMAIN s : s[j] = s[i] => j = i
  BY DEF IsInjective
<1>3. ASSUME i # Len(s)
      PROVE  /\ i + 1 \in DOMAIN s /\ s[i + 1] \in Range(s)
             /\ Ahead(s, s[i]) \subseteq {s[i]} \cup Ahead(s, s[i + 1])
  <2>1. i + 1 \in DOMAIN s
    BY <1>1, <1>3
  <2>2. ASSUME NEW k \in DOMAIN s, i <= k, k # i PROVE i + 1 <= k
    BY <1>1, <2>2
  <2> QED BY <1>2, <2>1, <2>2 DEF Ahead, Range
<1>4. ASSUME i = Len(s) PROVE Ahead(s, s[i]) = {s[i]}
  <2>1. \A k \in DOMAIN s : i <= k => k = i
    BY <1>1, <1>4
  <2>2. i <= i
    BY <1>1
  <2>3. {k \in DOMAIN s : \E j \in DOMAIN s : s[j] = s[i] /\ j <= k} = {i}
    BY <1>2, <2>1, <2>2
  <2> QED BY <2>3 DEF Ahead
<1> QED BY <1>3, <1>4

\* A member is taken out.
LEMMA TakenOut ==
  ASSUME NEW A, NEW s \in Seq(A), IsInjective(s), NEW i \in DOMAIN s
  PROVE  LET t == SubSeq(s, 1, i - 1) \o SubSeq(s, i + 1, Len(s))
         IN  /\ t \in Seq(A) /\ IsInjective(t) /\ Range(t) = Range(s) \ {s[i]}
             /\ \A e \in Range(t) : Ahead(s, e) \ {s[i]} \subseteq Ahead(t, e)
<1>1. PICK n \in Nat : n = Len(s) /\ DOMAIN s = 1 .. n /\ i \in 1 .. n
  OBVIOUS
<1>2. PICK p, q : p = SubSeq(s, 1, i - 1) /\ q = SubSeq(s, i + 1, n)
  OBVIOUS
<1>3. /\ p \in Seq(A) /\ Len(p) = i - 1 /\ \A j \in 1 .. i - 1 : p[j] = s[j]
  <2>1. 1 \in Int /\ i - 1 \in Int /\ \A j \in 1 .. i - 1 : s[j] \in A
    BY <1>1
  <2>2. /\ SubSeq(s, 1, i - 1) \in Seq(A)
        /\ Len(SubSeq(s, 1, i - 1)) = IF 1 <= i - 1 THEN i - 1 - 1 + 1 ELSE 0
        /\ \A j \in 1 .. i - 1 - 1 + 1 : SubSeq(s, 1, i - 1)[j] = s[1 + j - 1]
    BY <2>1, SubSeqProperties
  <2>3. i - 1 - 1 + 1 = i - 1 /\ \A j \in 1 .. i - 1 : 1 + j - 1 = j
    BY <1>1
  <2>4. i - 1 >= 0
    BY <1>1
  <2> QED BY <1>1, <1>2, <2>2, <2>3, <2>4
<1>4. /\ q \in Seq(A) /\ Len(q) = n - i /\ \A j \in 1 .. n - i : q[j] = s[i + j]
  <2>1. i + 1 \in Int /\ n \in Int /\ \A j \in i + 1 .. n : s[j] \in A
    BY <1>1
  <2>2. /\ SubSeq(s, i + 1, n) \in Seq(A)
        /\ Len(SubSeq(s, i + 1, n)) = IF i + 1 <= n THEN n - (i + 1) + 1 ELSE 0
        /\ \A j \in 1 .. n - (i + 1) + 1 : SubSeq(s, i + 1, n)[j] = s[i + 1 + j - 1]
    BY <2>1, SubSeqProperties
  <2>3. n - (i + 1) + 1 = n - i /\ (~(i + 1 <= n) => n - i = 0)
        /\ \A j \in 1 .. n - i : i + 1 + j - 1 = i + j
    BY <1>1
  <2> QED BY <1>1, <1>2, <2>2, <2>3
<1>5. PICK t : t = p \o q
  OBVIOUS
<1>6. /\ t \in Seq(A) /\ DOMAIN t = 1 .. n - 1
      /\ \A j \in DOMAIN t : t[j] = IF j < i THEN s[j] ELSE s[j + 1]
  <2>1. t \in Seq(A) /\ Len(t) = (i - 1) + (n - i)
    BY <1>3, <1>4, <1>5
  <2>2. (i - 1) + (n - i) = n - 1
    BY <1>1
  <2>3. \A j \in 1 .. n - 1 : t[j] = IF j <= i - 1 THEN p[j] ELSE q[j - (i - 1)]
    <3>1. \A j \in 1 .. Len(p) + Len(q) :
              (p \o q)[j] = IF j <= Len(p) THEN p[j] ELSE q[j - Len(p)]
      <4>1. p \in Seq(A) /\ q \in Seq(A)
        BY <1>3, <1>4
      <4> QED BY <4>1, ConcatProperties
    <3>2. Len(p) = i - 1 /\ Len(p) + Len(q) = n - 1
      BY <1>3, <1>4, <2>2
    <3> QED BY <1>5, <3>1, <3>2
  <2>4. ASSUME NEW j \in 1 .. n - 1 PROVE t[j] = IF j < i THEN s[j] ELSE s[j + 1]
    <3>1. CASE j < i
      <4>1. j \in 1 .. i - 1
        BY <1>1, <3>1
      <4> QED BY <1>1, <1>3, <2>3, <3>1, <4>1
    <3>2. CASE ~(j < i)
      <4>1. j - (i - 1) \in 1 .. n - i /\ i + (j - (i - 1)) = j + 1 /\ ~(j <= i - 1)
        BY <1>1, <3>2
      <4> QED BY <1>4, <2>3, <3>2, <4>1
    <3> QED BY <3>1, <3>2
  <2> QED BY <2>1, <2>2, <2>4
<1>7. \A j \in DOMAIN t : \E k \in DOMAIN s :
          t[j] = s[k] /\ k # i /\ k = (IF j < i THEN j ELSE j + 1)
  BY <1>1, <1>6
<1>8. \A k \in DOMAIN s : k # i =>
          \E j \in DOMAIN t : t[j] = s[k] /\ k = (IF j < i THEN j ELSE j + 1)
  <2> SUFFICES ASSUME NEW k \in DOMAIN s, k # i
               PROVE  \E j \in DOMAIN t : t[j] = s[k] /\ k = (IF j < i THEN j ELSE j + 1)
    OBVIOUS
  <2>1. CASE k < i
    <3>1. k \in DOMAIN t
      BY <1>1, <1>6, <2>1
    <3> QED BY <1>6, <2>1, <3>1
  <2>2. CASE k > i
    <3>1. k - 1 \in DOMAIN t /\ ~(k - 1 < i) /\ (k - 1) + 1 = k
      BY <1>1, <1>6, <2>2
    <3>2. t[k - 1] = s[k]
      BY <1>6, <3>1
    <3> QED BY <3>1, <3>2
  <2> QED BY <1>1, <2>1, <2>2
<1>9. \A j, k \in DOMAIN s : s[j] = s[k] => j = k
  BY DEF IsInjective
<1>10. IsInjective(t)
  <2>1. ASSUME NEW j \in DOMAIN t, NEW k \in DOMAIN t, t[j] = t[k] PROVE j = k
    <3>1. (IF j < i THEN j ELSE j + 1) = (IF k < i THEN k ELSE k + 1)
      BY <1>7, <1>9, <2>1
    <3> QED BY <1>1, <1>6, <3>1
  <2> QED BY <2>1 DEF IsInjective
<1>11. Range(t) = Range(s) \ {s[i]}
  <2>1. \A x : x \in Range(t) => x \in Range(s) /\ x # s[i]
    BY <1>7, <1>9 DEF Range
  <2>2. \A x : x \in Range(s) /\ x # s[i] => x \in Range(t)
    BY <1>8 DEF Range
  <2> QED BY <2>1, <2>2
<1>12. ASSUME NEW e \in Range(t), NEW x \in Ahead(s, e), x # s[i]
       PROVE  x \in Ahead(t, e)
  <2>1. PICK k \in DOMAIN s, l \in DOMAIN s : x = s[k] /\ s[l] = e /\ l <= k
    BY <1>12 DEF Ahead
  <2>2. k # i /\ l # i
    <3>1. e # s[i]
      BY <1>11
    <3> QED BY <1>12, <2>1, <3>1
  <2>3. PICK k1 \in DOMAIN t : t[k1] = s[k] /\ k = (IF k1 < i THEN k1 ELSE k1 + 1)
    BY <1>8, <2>2
  <2>4. PICK l1 \in DOMAIN t : t[l1] = s[l] /\ l = (IF l1 < i THEN l1 ELSE l1 + 1)
    BY <1>8, <2>2
  <2>5. l1 <= k1
    BY <1>1, <1>6, <2>1, <2>3, <2>4
  <2> QED BY <2>1, <2>3, <2>4, <2>5 DEF Ahead
<1> QED BY <1>1, <1>2, <1>5, <1>6, <1>10, <1>11, <1>12

\* A new member is put in front.
LEMMA PutInFront ==
  ASSUME NEW A, NEW s \in Seq(A), IsInjective(s), NEW a \in A, a \notin Range(s)
  PROVE  LET t == << a >> \o s
         IN  /\ t \in Seq(A) /\ IsInjective(t) /\ Range(t) = Range(s) \cup {a}
             /\ \A e \in Range(s) : Ahead(s, e) \subseteq Ahead(t, e)
<1>1. PICK n \in Nat : n = Len(s) /\ DOMAIN s = 1 .. n
  OBVIOUS
<1>2. PICK t : t = << a >> \o s
  OBVIOUS
<1>3. /\ t \in Seq(A) /\ DOMAIN t = 1 .. n + 1 /\ t[1] = a
      /\ \A j \in DOMAIN s : j + 1 \in DOMAIN t /\ t[j + 1] = s[j]
  <2>1. t \in Seq(A) /\ Len(t) = 1 + n
    BY <1>1, <1>2
  <2>2. DOMAIN t = 1 .. n + 1
    BY <1>1, <2>1
  <2>3. t[1] = a
    BY <1>1, <1>2
  <2>4. \A j \in 1 .. n : t[j + 1] = s[j]
    BY <1>1, <1>2
  <2> QED BY <1>1, <2>1, <2>2, <2>3, <2>4
<1>4. \A j \in DOMAIN t : j = 1 \/ (j - 1 \in DOMAIN s /\ t[j] = s[j - 1])
  <2> SUFFICES ASSUME NEW j \in DOMAIN t, j # 1 PROVE j - 1 \in DOMAIN s /\ t[j] = s[j - 1]
    OBVIOUS
  <2>1. j - 1 \in DOMAIN s /\ (j - 1) + 1 = j
    BY <1>1, <1>3
  <2> QED BY <1>3, <2>1
<1>5. \A j \in DOMAIN s : s[j] # a
  BY DEF Range
<1>6. \A j, k \in DOMAIN s : s[j] = s[k] => j = k
  BY DEF IsInjective
<1>7. IsInjective(t)
  <2>1. ASSUME NEW j \in DOMAIN t, NEW k \in DOMAIN t, t[j] = t[k] PROVE j = k
    <3>1. CASE j = 1 \/ k = 1
      BY <1>3, <1>4, <1>5, <2>1, <3>1
    <3>2. CASE j # 1 /\ k # 1
      <4>1. j - 1 = k - 1
        BY <1>4, <1>6, <2>1, <3>2
      <4> QED BY <1>3, <4>1
    <3> QED BY <3>1, <3>2
  <2> QED BY <2>1 DEF IsInjective
<1>8. Range(t) = Range(s) \cup {a}
  <2>1. \A x : x \in Range(t) => x \in Range(s) \/ x = a
    BY <1>3, <1>4 DEF Range
  <2>2. 1 \in DOMAIN t
    BY <1>1, <1>3
  <2>3. \A x : x \in Range(s) \/ x = a => x \in Range(t)
    BY <1>3, <2>2 DEF Range
  <2> QED BY <2>1, <2>3
<1>9. ASSUME NEW e \in Range(s), NEW x \in Ahead(s, e) PROVE x \in Ahead(t, e)
  <2>1. PICK k \in DOMAIN s, l \in DOMAIN s : x = s[k] /\ s[l] = e /\ l <= k
    BY <1>9 DEF Ahead
  <2>2. l + 1 <= k + 1
    BY <1>1, <2>1
  <2> QED BY <1>3, <2>1, <2>2 DEF Ahead
<1> QED BY <1>2, <1>3, <1>7, <1>8, <1>9

\* The operators of AeTime's library and ours are the same.
LEMMA TimeHelpers ==
  /\ \A s : Time!ToSet(s) = Range(s) /\ (Time!IsInjective(s) <=> IsInjective(s))
  /\ \A s, i : Time!RemoveAt(s, i) = SubSeq(s, 1, i - 1) \o SubSeq(s, i + 1, Len(s))
BY DEF Time!ToSet, Range, Time!IsInjective, IsInjective, Time!RemoveAt

\* The record of what a caller changes.
IsCallers(c) == c = [list |-> c.list, id |-> c.id, when |-> c.when, nextId |-> c.nextId]

\* One of its fields set.
LEMMA CallerRecord ==
  ASSUME NEW c, IsCallers(c), NEW f
  PROVE  /\ [c EXCEPT !.id = f]
              = [list |-> c.list, id |-> f, when |-> c.when, nextId |-> c.nextId]
         /\ [c EXCEPT !.when = f]
              = [list |-> c.list, id |-> c.id, when |-> f, nextId |-> c.nextId]
<1>1. PICK l, i, w, n : c = [list |-> l, id |-> i, when |-> w, nextId |-> n]
  BY DEF IsCallers
<1> QED BY <1>1

\* The record with a new event v.
LEMMA CreatedRecord ==
  ASSUME NEW l, NEW i, NEW w, NEW n, NEW a, NEW x, NEW v, NEW r, NEW c,
         r = [list |-> l, id |-> i, when |-> w, nextId |-> n],
         c = [r EXCEPT !.list = << a >> \o @, !.id[v] = v, !.when[v] = x, !.nextId = @ + 1]
  PROVE  c = [list |-> << a >> \o l, id |-> [i EXCEPT ![v] = v],
              when |-> [w EXCEPT ![v] = x], nextId |-> n + 1]
<1>1. PICK m, y, z : m = << a >> \o l /\ y = [i EXCEPT ![v] = v] /\ z = [w EXCEPT ![v] = x]
  OBVIOUS
<1>2. PICK p : p = [r EXCEPT !.list = m]
  OBVIOUS
<1>3. p = [list |-> m, id |-> i, when |-> w, nextId |-> n]
  BY <1>2
<1>4. PICK q : q = [p EXCEPT !.id[v] = v]
  OBVIOUS
<1>5. q = [list |-> m, id |-> y, when |-> w, nextId |-> n]
  <2>1. q = [p EXCEPT !.id = [p.id EXCEPT ![v] = v]] /\ p.id = i
    BY <1>3, <1>4
  <2>2. q = [p EXCEPT !.id = y]
    BY <1>1, <2>1
  <2> QED BY <1>3, <2>2
<1>6. PICK s : s = [q EXCEPT !.when[v] = x]
  OBVIOUS
<1>7. s = [list |-> m, id |-> y, when |-> z, nextId |-> n]
  <2>1. s = [q EXCEPT !.when = [q.when EXCEPT ![v] = x]] /\ q.when = w
    BY <1>5, <1>6
  <2>2. s = [q EXCEPT !.when = z]
    BY <1>1, <2>1
  <2> QED BY <1>5, <2>2
<1>8. c = [s EXCEPT !.nextId = @ + 1]
  <2>1. r.list = l
    OBVIOUS
  <2>2. c = [[[[r EXCEPT !.list = << a >> \o @] EXCEPT !.id[v] = v] EXCEPT !.when[v] = x]
               EXCEPT !.nextId = @ + 1]
    OBVIOUS
  <2>3. p = [r EXCEPT !.list = << a >> \o @]
    BY <1>1, <1>2, <2>1
  <2> QED BY <1>4, <1>6, <2>2, <2>3
<1>9. c = [list |-> m, id |-> y, when |-> z, nextId |-> n + 1]
  <2>1. c = [s EXCEPT !.nextId = n + 1]
    BY <1>7, <1>8
  <2> QED BY <1>7, <2>1
<1> QED BY <1>1, <1>9

\* What a caller or a callback does: nothing, a new event in front, or a deletion.
LEMMA DoesWhat ==
  ASSUME TimeTypes, InList, NEW c \in Time!Does(Time!Here)
  PROVE  /\ c.list \in Seq(TimeEvents) /\ c.id \in [TimeEvents -> TimeEvents \cup {-1}]
         /\ c.when \in [TimeEvents -> Nat] /\ c.nextId \in v4 .. MaxEvents
         /\ IsInjective(c.list) /\ \A e \in Range(c.list) : e < c.nextId
         /\ \A e \in TimeEvents : c.id[e] # -1 => c.id[e] = e /\ e \in Range(c.list)
         /\ \A e \in TimeEvents : e < c.nextId /\ e \notin Range(c.list)
                                    <=> e < v4 /\ e \notin Range(v1)
         /\ Range(v1) \subseteq Range(c.list)
         /\ \A e \in TimeEvents : e < v4 => c.when[e] = v3[e] /\ (v2[e] = -1 => c.id[e] = -1)
         /\ \A e \in Range(v1) : Ahead(v1, e) \subseteq Ahead(c.list, e)
         /\ IsCallers(c)
<1>0. v4 \in Nat /\ v4 <= MaxEvents /\ MaxEvents \in Nat
  BY TimeConstants DEF TimeTypes
<1>1. Time!Here = [list |-> v1, id |-> v2, when |-> v3, nextId |-> v4]
  BY DEF Time!Here
<1>2. CASE c = [list |-> v1, id |-> v2, when |-> v3, nextId |-> v4]
  <2>1. c.list = v1 /\ c.id = v2 /\ c.when = v3 /\ c.nextId = v4
    BY <1>2
  <2>2. IsCallers(c)
    BY <1>2 DEF IsCallers
  <2> QED BY <1>0, <2>1, <2>2 DEF TimeTypes, InList
<1>3. ASSUME NEW e \in TimeEvents, c = Time!Delete(Time!Here, e), v2[e] = e
      PROVE  c = [list |-> v1, id |-> [v2 EXCEPT ![e] = -1], when |-> v3, nextId |-> v4]
  BY <1>1, <1>3, TimeConstants DEF Time!Delete
<1>4. ASSUME NEW e \in TimeEvents,
             c = [list |-> v1, id |-> [v2 EXCEPT ![e] = -1], when |-> v3, nextId |-> v4]
      PROVE  /\ c.list = v1 /\ c.when = v3 /\ c.nextId = v4
             /\ c.id \in [TimeEvents -> TimeEvents \cup {-1}]
             /\ \A d \in TimeEvents : c.id[d] = IF d = e THEN -1 ELSE v2[d]
  BY <1>4 DEF TimeTypes
<1>5. CASE v4 < MaxEvents /\ \E d \in EventDelays :
               c = [list |-> << v4 >> \o v1, id |-> [v2 EXCEPT ![v4] = v4],
                    when |-> [v3 EXCEPT ![v4] = v6 + d], nextId |-> v4 + 1]
  <2>1. PICK d \in EventDelays :
               c = [list |-> << v4 >> \o v1, id |-> [v2 EXCEPT ![v4] = v4],
                    when |-> [v3 EXCEPT ![v4] = v6 + d], nextId |-> v4 + 1]
    BY <1>5
  <2>2. v4 \in TimeEvents /\ v6 + d \in Nat
    BY <1>0, <1>5, TimeConstants DEF TimeTypes
  <2>3. v4 \notin Range(v1)
    BY <1>0 DEF InList
  <2>4. PICK t : t = << v4 >> \o v1
    OBVIOUS
  <2>5. /\ t \in Seq(TimeEvents) /\ IsInjective(t) /\ Range(t) = Range(v1) \cup {v4}
        /\ \A e \in Range(v1) : Ahead(v1, e) \subseteq Ahead(t, e)
    BY <2>2, <2>3, <2>4, PutInFront DEF TimeTypes, InList
  <2>6. /\ c.list = t /\ c.nextId = v4 + 1
        /\ c.id \in [TimeEvents -> TimeEvents \cup {-1}] /\ c.when \in [TimeEvents -> Nat]
        /\ c.id[v4] = v4 /\ \A e \in TimeEvents : e # v4 => c.id[e] = v2[e] /\ c.when[e] = v3[e]
    BY <2>1, <2>2, <2>4 DEF TimeTypes
  <2>7. /\ c.nextId \in v4 .. MaxEvents /\ \A e \in Range(c.list) : e < c.nextId
        /\ \A e \in TimeEvents : e < c.nextId /\ e \notin Range(c.list)
                                   <=> e < v4 /\ e \notin Range(v1)
    <3>1. \A e \in Range(v1) : e < v4 /\ e \in TimeEvents
      BY DEF InList, TimeTypes, Range
    <3>2. TimeEvents \subseteq Int
      BY TimeConstants
    <3>3. v4 + 1 \in v4 .. MaxEvents
      BY <1>0, <1>5
    <3>4. \A e \in Range(v1) \cup {v4} : e < v4 + 1
      <4>1. \A e \in Int : e < v4 => e < v4 + 1
        BY <1>0
      <4>2. v4 < v4 + 1
        BY <1>0
      <4> QED BY <3>1, <3>2, <4>1, <4>2
    <3>5. \A e \in TimeEvents : e < v4 + 1 /\ e # v4 <=> e < v4
      BY <1>0, <3>2
    <3> QED BY <2>5, <2>6, <3>3, <3>4, <3>5
  <2>8. \A e \in TimeEvents : c.id[e] # -1 => c.id[e] = e /\ e \in Range(c.list)
    BY <2>5, <2>6 DEF InList
  <2>9. \A e \in TimeEvents : e < v4 => c.when[e] = v3[e] /\ (v2[e] = -1 => c.id[e] = -1)
    BY <1>0, <2>6
  <2>10. IsCallers(c)
    BY <2>1 DEF IsCallers
  <2> QED BY <2>5, <2>6, <2>7, <2>8, <2>9, <2>10
<1>6. CASE \E e \in TimeEvents :
               c = [list |-> v1, id |-> [v2 EXCEPT ![e] = -1], when |-> v3, nextId |-> v4]
  <2>1. PICK e \in TimeEvents :
               c = [list |-> v1, id |-> [v2 EXCEPT ![e] = -1], when |-> v3, nextId |-> v4]
    BY <1>6
  <2>2. /\ c.list = v1 /\ c.when = v3 /\ c.nextId = v4
        /\ c.id \in [TimeEvents -> TimeEvents \cup {-1}]
        /\ \A d \in TimeEvents : c.id[d] = IF d = e THEN -1 ELSE v2[d]
    BY <1>4, <2>1
  <2>3. IsCallers(c)
    BY <2>1 DEF IsCallers
  <2> QED BY <1>0, <2>2, <2>3 DEF TimeTypes, InList
<1>7. \/ c = Time!Here
      \/ \E d \in EventDelays : c = Time!Create(Time!Here, d)
      \/ \E e \in TimeEvents : c = Time!Delete(Time!Here, e)
  BY DEF Time!Does, TimeEvents
<1>8. ASSUME NEW d \in EventDelays, c = Time!Create(Time!Here, d)
      PROVE  \/ c = Time!Here
             \/ v4 < MaxEvents
                /\ c = [list |-> << v4 >> \o v1, id |-> [v2 EXCEPT ![v4] = v4],
                        when |-> [v3 EXCEPT ![v4] = v6 + d], nextId |-> v4 + 1]
  <2>1. CASE v4 = MaxEvents
    BY <1>1, <1>8, <2>1 DEF Time!Create
  <2>2. CASE v4 # MaxEvents
    <3>1. v4 < MaxEvents
      BY <1>0, <2>2
    <3>2. c = [Time!Here EXCEPT !.list = << v4 >> \o @, !.id[v4] = v4, !.when[v4] = v6 + d,
                                !.nextId = @ + 1]
      BY <1>1, <1>8, <2>2 DEF Time!Create
    <3> QED BY <1>1, <3>1, <3>2, CreatedRecord
  <2> QED BY <2>1, <2>2
<1>9. ASSUME NEW e \in TimeEvents, c = Time!Delete(Time!Here, e), v2[e] # e
      PROVE  c = Time!Here
  BY <1>1, <1>9 DEF Time!Delete
<1> QED BY <1>1, <1>2, <1>3, <1>5, <1>6, <1>7, <1>8, <1>9

LEMMA TimeStart == Time!Init => TimeInv
<1> SUFFICES ASSUME Time!Init PROVE TimeInv
  OBVIOUS
<1>1. /\ v1 = << >> /\ v2 = [e \in TimeEvents |-> -1] /\ v3 = [e \in TimeEvents |-> 0]
      /\ v4 = 0 /\ v6 \in Clock /\ v7 = -1 /\ v8 = -1 /\ v9 = FALSE
      /\ v10 = {} /\ v11 = {} /\ v12 = [e \in TimeEvents |-> 0]
  BY TimeConstants DEF Time!Init, TimeEvents
<1>2. Range(v1) = {} /\ IsInjective(v1) /\ v1 \in Seq(TimeEvents)
  <2>1. << >> \in Seq(TimeEvents)
    OBVIOUS
  <2> QED BY <1>1, <2>1, EmptyProperties
<1>3. TimeTypes
  <2>1. v2 \in [TimeEvents -> TimeEvents \cup {-1}] /\ v3 \in [TimeEvents -> Nat]
        /\ v12 \in [TimeEvents -> Nat]
    BY <1>1
  <2>2. v4 \in 0 .. MaxEvents
    BY <1>1, TimeConstants
  <2> QED BY <1>1, <1>2, <2>1, <2>2 DEF TimeTypes
<1>4. InList
  BY <1>1, <1>2, TimeConstants DEF InList
<1>5. WalkForces
  BY <1>1 DEF WalkForces
<1> QED BY <1>3, <1>4, <1>5 DEF TimeInv

LEMMA TickStep ==
  ASSUME TimeInv, Time!Tick
  PROVE  TimeInv'
<1>1. v6' \in Clock /\ UNCHANGED << v1, v2, v3, v4, v7, v8, v9, v10, v11, v12 >>
  BY DEF Time!Tick, Time!walk
<1> QED BY <1>1 DEF TimeInv, TimeTypes, InList, WalkForces

\* The list, the ids and the numbers after a caller or a callback.
LEMMA ListAfter ==
  ASSUME TimeTypes, InList, NEW c \in Time!Does(Time!Here),
         v1' = c.list, v2' = c.id, v4' = c.nextId, v12' = v12
  PROVE  InList'
<1>1. /\ IsInjective(c.list) /\ \A e \in Range(c.list) : e < c.nextId
      /\ \A e \in TimeEvents : c.id[e] # -1 => c.id[e] = e /\ e \in Range(c.list)
      /\ \A e \in TimeEvents : e < c.nextId /\ e \notin Range(c.list)
                                 <=> e < v4 /\ e \notin Range(v1)
  BY DoesWhat
<1>2. \A e \in TimeEvents : v12[e] = IF e < v4 /\ e \notin Range(v1) THEN 1 ELSE 0
  BY DEF InList
<1> QED BY <1>1, <1>2 DEF InList

LEMMA CallStep ==
  ASSUME TimeInv, Time!Call
  PROVE  TimeInv'
<1>0. TimeTypes /\ InList /\ WalkForces
  BY DEF TimeInv
<1>1. PICK c \in Time!Does(Time!Here) : /\ v1' = c.list /\ v2' = c.id
                                        /\ v3' = c.when /\ v4' = c.nextId
  BY DEF Time!Call, Time!Become
<1>2. v7 = -1 /\ UNCHANGED << v6, v7, v8, v9, v10, v11, v12 >>
  BY TimeConstants DEF Time!Call, Time!walk
<1>3. /\ c.list \in Seq(TimeEvents) /\ c.id \in [TimeEvents -> TimeEvents \cup {-1}]
      /\ c.when \in [TimeEvents -> Nat] /\ c.nextId \in v4 .. MaxEvents
      /\ \A e \in TimeEvents : e < v4 => (v2[e] = -1 => c.id[e] = -1)
  BY <1>0, DoesWhat
<1>4. v4 \in Nat /\ MaxEvents \in Nat
  BY <1>0, TimeConstants DEF TimeTypes
<1>5. TimeTypes'
  BY <1>0, <1>1, <1>2, <1>3, <1>4 DEF TimeTypes
<1>6. InList'
  BY <1>0, <1>1, <1>2, ListAfter
<1>7. WalkForces'
  <2>1. \A e \in v10 : e \in TimeEvents /\ e \in Int /\ e < v4
    BY <1>0, TimeConstants DEF WalkForces, TimeTypes
  <2>2. \A e \in v10 : e < c.nextId
    BY <1>3, <1>4, <2>1
  <2> QED BY <1>0, <1>1, <1>2, <1>3, <2>1, <2>2 DEF WalkForces
<1> QED BY <1>5, <1>6, <1>7 DEF TimeInv

LEMMA BeginStep ==
  ASSUME TimeInv, Time!Begin
  PROVE  TimeInv'
<1>0. TimeTypes /\ InList
  BY DEF TimeInv
<1>1. /\ v1 # << >> /\ v9' \in BOOLEAN /\ v3' = IF v9' THEN Time!Forced ELSE v3
      /\ v7' = Head(v1) /\ v8' = v4 - 1 /\ v10' = Range(v1) /\ v11' = {}
      /\ UNCHANGED << v1, v2, v4, v6, v12 >>
  BY TimeHelpers DEF Time!Begin
<1>2. /\ v1 \in Seq(TimeEvents) /\ Len(v1) \in Nat \ {0} /\ DOMAIN v1 = 1 .. Len(v1)
      /\ Head(v1) = v1[1] /\ 1 \in DOMAIN v1
  <2>1. v1 \in Seq(TimeEvents)
    BY <1>0 DEF TimeTypes
  <2>2. Len(v1) \in Nat /\ Len(v1) # 0
    BY <1>1, <2>1, EmptySeq
  <2> QED BY <2>1, <2>2
<1>3. v7' \in Range(v1) /\ Range(v1) \subseteq TimeEvents
  BY <1>1, <1>2 DEF Range
<1>4. \A e \in Range(v1) : e < v4
  BY <1>0 DEF InList
<1>5. v4 \in 1 .. MaxEvents /\ v4 - 1 \in TimeEvents
  BY <1>0, <1>3, <1>4, TimeConstants DEF TimeTypes
<1>6. Time!Forced \in [TimeEvents -> Nat] /\ \A e \in Range(v1) : Time!Forced[e] < Second
  <2>1. \A n \in Nat : n % Second \in Nat /\ n % Second < Second
    BY TimeConstants
  <2>2. Time!Forced = [e \in TimeEvents |-> IF e \in Range(v1) THEN v3[e] % Second ELSE v3[e]]
    BY TimeHelpers DEF Time!Forced, TimeEvents
  <2>3. v3 \in [TimeEvents -> Nat]
    BY <1>0 DEF TimeTypes
  <2> QED BY <1>3, <2>1, <2>2, <2>3
<1>7. TimeTypes'
  BY <1>0, <1>1, <1>3, <1>5, <1>6 DEF TimeTypes
<1>8. InList'
  BY <1>0, <1>1 DEF InList
<1>9. Range(v1) \subseteq Ahead(v1, v1[1])
  <2>1. \A k \in DOMAIN v1 : 1 <= k
    BY <1>2
  <2> QED BY <1>2, <2>1 DEF Ahead, Range
<1>10. WalkForces'
  <2>1. \A e \in Range(v1) : e <= v4 - 1
    BY <1>3, <1>4, <1>5, TimeConstants
  <2>2. v9' => \A e \in Range(v1) : v3'[e] < Second
    BY <1>1, <1>6
  <2>3. v7' # -1
    BY <1>3, TimeConstants
  <2> QED BY <1>1, <1>2, <1>3, <1>4, <1>9, <2>1, <2>2, <2>3 DEF WalkForces
<1> QED BY <1>7, <1>8, <1>10 DEF TimeInv

\* Where the walk goes on.
LEMMA Walks ==
  ASSUME TimeTypes, InList, WalkForces, v7 # -1
  PROVE  /\ Time!Place(v7) \in DOMAIN v1 /\ v1[Time!Place(v7)] = v7 /\ v7 \in Range(v1)
         /\ Time!After(v7) # -1 =>
                /\ Time!After(v7) \in Range(v1)
                /\ Ahead(v1, v7) \subseteq {v7} \cup Ahead(v1, Time!After(v7))
         /\ Time!After(v7) = -1 => Ahead(v1, v7) = {v7}
         /\ Time!After(v7) # v7 /\ Time!After(v7) \in TimeEvents \cup {-1} /\ v7 \in TimeEvents
<1>1. v1 \in Seq(TimeEvents) /\ IsInjective(v1) /\ v7 \in Range(v1) /\ v7 \in TimeEvents
  BY DEF TimeTypes, InList, WalkForces
<1>2. PICK i : i = Time!Place(v7)
  OBVIOUS
<1>3. i \in DOMAIN v1 /\ v1[i] = v7
  BY <1>1, <1>2, PlaceIs DEF Time!Place
<1>4. /\ i # Len(v1) => /\ i + 1 \in DOMAIN v1 /\ v1[i + 1] \in Range(v1)
                        /\ Ahead(v1, v7) \subseteq {v7} \cup Ahead(v1, v1[i + 1])
      /\ i = Len(v1) => Ahead(v1, v7) = {v7}
  BY <1>1, <1>3, Onward
<1>5. Time!After(v7) = IF i = Len(v1) THEN -1 ELSE v1[i + 1]
  BY <1>2, TimeConstants DEF Time!After
<1>6. i + 1 \in DOMAIN v1 => v1[i + 1] # v7
  BY <1>1, <1>3 DEF IsInjective
<1>7. Range(v1) \subseteq TimeEvents
  BY <1>1 DEF Range
<1> QED BY <1>1, <1>2, <1>3, <1>4, <1>5, <1>6, <1>7, TimeConstants

LEMMA FreeStep ==
  ASSUME TimeInv, Time!FreeDeleted
  PROVE  TimeInv'
<1>0. TimeTypes /\ InList /\ WalkForces
  BY DEF TimeInv
<1>1. /\ v7 # -1 /\ v2[v7] = -1 /\ v7' = Time!After(v7)
      /\ v1' = SubSeq(v1, 1, Time!Place(v7) - 1) \o SubSeq(v1, Time!Place(v7) + 1, Len(v1))
      /\ v12' = [v12 EXCEPT ![v7] = @ + 1]
      /\ UNCHANGED << v2, v3, v4, v6, v8, v9, v10, v11 >>
  BY TimeConstants, TimeHelpers DEF Time!FreeDeleted
<1>2. /\ Time!Place(v7) \in DOMAIN v1 /\ v1[Time!Place(v7)] = v7 /\ v7 \in Range(v1)
      /\ v7' # -1 => v7' \in Range(v1) /\ Ahead(v1, v7) \subseteq {v7} \cup Ahead(v1, v7')
      /\ v7' = -1 => Ahead(v1, v7) = {v7}
      /\ v7' # v7 /\ v7' \in TimeEvents \cup {-1} /\ v7 \in TimeEvents
  BY <1>0, <1>1, Walks
<1>3. /\ v1' \in Seq(TimeEvents) /\ IsInjective(v1') /\ Range(v1') = Range(v1) \ {v7}
      /\ \A e \in Range(v1') : Ahead(v1, e) \ {v7} \subseteq Ahead(v1', e)
  <2>1. v1 \in Seq(TimeEvents) /\ IsInjective(v1)
    BY <1>0 DEF TimeTypes, InList
  <2>2. PICK i \in DOMAIN v1 : i = Time!Place(v7)
    BY <1>2
  <2>3. PICK t : t = SubSeq(v1, 1, i - 1) \o SubSeq(v1, i + 1, Len(v1))
    OBVIOUS
  <2>4. /\ t \in Seq(TimeEvents) /\ IsInjective(t) /\ Range(t) = Range(v1) \ {v1[i]}
        /\ \A e \in Range(t) : Ahead(v1, e) \ {v1[i]} \subseteq Ahead(t, e)
    BY <2>1, <2>3, TakenOut
  <2> QED BY <1>1, <1>2, <2>2, <2>3, <2>4
<1>4. /\ v12' \in [TimeEvents -> Nat] /\ v12'[v7] = 1
      /\ \A e \in TimeEvents : e # v7 => v12'[e] = v12[e]
  <2>1. v12 \in [TimeEvents -> Nat] /\ v12[v7] = 0
    BY <1>0, <1>2 DEF TimeTypes, InList
  <2> QED BY <1>1, <1>2, <2>1
<1>5. TimeTypes'
  BY <1>0, <1>1, <1>2, <1>3, <1>4 DEF TimeTypes
<1>6. InList'
  <2>1. v7 < v4
    BY <1>0, <1>2 DEF InList
  <2> QED BY <1>0, <1>1, <1>2, <1>3, <1>4, <2>1 DEF InList
<1>7. WalkForces'
  <2>1. v7' # -1 => v7' \in Range(v1')
    BY <1>2, <1>3
  <2>2. ASSUME v9, NEW e \in v10, e \notin v11, v2[e] # -1
        PROVE  v7' # -1 /\ e \in Ahead(v1', v7') /\ v3[e] < Second
    <3>1. e \in Ahead(v1, v7) /\ v3[e] < Second /\ e # v7
      BY <1>0, <1>1, <2>2 DEF WalkForces
    <3>2. v7' # -1 /\ e \in Ahead(v1, v7')
      BY <1>2, <3>1
    <3> QED BY <1>3, <2>1, <3>1, <3>2
  <2> QED BY <1>0, <1>1, <2>1, <2>2 DEF WalkForces
<1> QED BY <1>5, <1>6, <1>7 DEF TimeInv

LEMMA SkipStep ==
  ASSUME TimeInv, Time!Skip
  PROVE  TimeInv'
<1>0. TimeTypes /\ InList /\ WalkForces
  BY DEF TimeInv
<1>1. /\ v7 # -1 /\ v2[v7] # -1 /\ ~Time!Due(v7) /\ v7' = Time!After(v7)
      /\ UNCHANGED << v1, v2, v3, v4, v6, v8, v9, v10, v11, v12 >>
  BY TimeConstants DEF Time!Skip
<1>2. /\ v7' # -1 => v7' \in Range(v1) /\ Ahead(v1, v7) \subseteq {v7} \cup Ahead(v1, v7')
      /\ v7' = -1 => Ahead(v1, v7) = {v7}
      /\ v7' \in TimeEvents \cup {-1} /\ v7 \in TimeEvents
  BY <1>0, <1>1, Walks
<1>3. TimeTypes' /\ InList'
  BY <1>0, <1>1, <1>2 DEF TimeTypes, InList
<1>4. v7 \in v10 => ~(v3[v7] < Second)
  <2>1. v2[v7] = v7 /\ v6 >= Second /\ v3[v7] \in Nat /\ v6 \in Nat /\ Second \in Nat
    BY <1>0, <1>1, <1>2, TimeConstants DEF TimeTypes, InList
  <2>2. v7 \in v10 => v7 <= v8
    BY <1>0, <1>1 DEF WalkForces
  <2> QED BY <1>1, <2>1, <2>2 DEF Time!Due
<1>5. WalkForces'
  <2>1. ASSUME v9, NEW e \in v10, e \notin v11, v2[e] # -1
        PROVE  v7' # -1 /\ e \in Ahead(v1, v7') /\ v3[e] < Second
    <3>1. e \in Ahead(v1, v7) /\ v3[e] < Second
      BY <1>0, <2>1 DEF WalkForces
    <3> QED BY <1>2, <1>4, <2>1, <3>1
  <2> QED BY <1>0, <1>1, <1>2, <2>1 DEF WalkForces
<1> QED BY <1>3, <1>5 DEF TimeInv

LEMMA FireStep ==
  ASSUME TimeInv, Time!Fire
  PROVE  TimeInv'
<1>0. TimeTypes /\ InList /\ WalkForces
  BY DEF TimeInv
<1>1. /\ v7 # -1 /\ v7' = Time!After(v7) /\ v11' = v11 \cup {v7}
      /\ UNCHANGED << v6, v8, v9, v10, v12 >>
  BY TimeConstants DEF Time!Fire
<1>2. /\ v7' # -1 => v7' \in Range(v1) /\ Ahead(v1, v7) \subseteq {v7} \cup Ahead(v1, v7')
      /\ v7' = -1 => Ahead(v1, v7) = {v7}
      /\ v7' \in TimeEvents \cup {-1} /\ v7 \in TimeEvents /\ v7 \in Range(v1)
  BY <1>0, <1>1, Walks
<1>3. PICK c \in Time!Does(Time!Here) :
          \/ Time!Become([c EXCEPT !.id[v7] = -1])
          \/ \E d \in EventDelays : Time!Become([c EXCEPT !.when[v7] = v6 + d])
  BY TimeConstants DEF Time!Fire
<1>4. /\ c.list \in Seq(TimeEvents) /\ c.id \in [TimeEvents -> TimeEvents \cup {-1}]
      /\ c.when \in [TimeEvents -> Nat] /\ c.nextId \in v4 .. MaxEvents
      /\ IsInjective(c.list) /\ \A e \in Range(c.list) : e < c.nextId
      /\ \A e \in TimeEvents : c.id[e] # -1 => c.id[e] = e /\ e \in Range(c.list)
      /\ \A e \in TimeEvents : e < c.nextId /\ e \notin Range(c.list)
                                 <=> e < v4 /\ e \notin Range(v1)
      /\ Range(v1) \subseteq Range(c.list)
      /\ \A e \in TimeEvents : e < v4 => c.when[e] = v3[e] /\ (v2[e] = -1 => c.id[e] = -1)
      /\ \A e \in Range(v1) : Ahead(v1, e) \subseteq Ahead(c.list, e)
      /\ IsCallers(c)
  BY <1>0, DoesWhat
<1>5. /\ v1' = c.list /\ v4' = c.nextId
      /\ \/ v2' = [c.id EXCEPT ![v7] = -1] /\ v3' = c.when
         \/ \E d \in EventDelays : v2' = c.id /\ v3' = [c.when EXCEPT ![v7] = v6 + d]
  <2>1. [c EXCEPT !.id[v7] = -1] = [list |-> c.list, id |-> [c.id EXCEPT ![v7] = -1],
                                    when |-> c.when, nextId |-> c.nextId]
    BY <1>4, CallerRecord
  <2>2. \A d : [c EXCEPT !.when[v7] = v6 + d]
                 = [list |-> c.list, id |-> c.id, when |-> [c.when EXCEPT ![v7] = v6 + d],
                    nextId |-> c.nextId]
    BY <1>4, CallerRecord
  <2> QED BY <1>3, <2>1, <2>2 DEF Time!Become
<1>6. /\ v4 \in Nat /\ MaxEvents \in Nat /\ v6 \in Nat /\ EventDelays \subseteq Nat
      /\ Clock \subseteq Nat /\ TimeEvents \subseteq Int
  BY <1>0, TimeConstants DEF TimeTypes
<1>7. /\ v2' \in [TimeEvents -> TimeEvents \cup {-1}] /\ v3' \in [TimeEvents -> Nat]
      /\ \A e \in TimeEvents : /\ v2'[e] # -1 => v2'[e] = c.id[e] /\ c.id[e] # -1
                               /\ e # v7 => v2'[e] = c.id[e] /\ v3'[e] = c.when[e]
  <2>1. /\ v7 \in TimeEvents /\ c.id \in [TimeEvents -> TimeEvents \cup {-1}]
        /\ c.when \in [TimeEvents -> Nat]
    BY <1>2, <1>4
  <2>2. CASE v2' = [c.id EXCEPT ![v7] = -1] /\ v3' = c.when
    BY <2>1, <2>2
  <2>3. CASE \E d \in EventDelays : v2' = c.id /\ v3' = [c.when EXCEPT ![v7] = v6 + d]
    <3>1. PICK d \in EventDelays : v2' = c.id /\ v3' = [c.when EXCEPT ![v7] = v6 + d]
      BY <2>3
    <3>2. v6 + d \in Nat
      BY <1>6
    <3> QED BY <2>1, <3>1, <3>2
  <2> QED BY <1>5, <2>2, <2>3
<1>8. TimeTypes'
  <2>1. v1' \in Seq(TimeEvents)
    BY <1>4, <1>5
  <2>2. v4' \in 0 .. MaxEvents
    BY <1>4, <1>5, <1>6
  <2> QED BY <1>0, <1>1, <1>2, <1>7, <2>1, <2>2 DEF TimeTypes
<1>9. InList'
  <2>1. \A e \in TimeEvents : v12[e] = IF e < v4 /\ e \notin Range(v1) THEN 1 ELSE 0
    BY <1>0 DEF InList
  <2>2. \A e \in TimeEvents : v2'[e] # -1 => v2'[e] = e /\ e \in Range(c.list)
    BY <1>4, <1>7
  <2>3. \A e \in TimeEvents : v12[e] = IF e < c.nextId /\ e \notin Range(c.list) THEN 1 ELSE 0
    BY <1>4, <2>1
  <2> QED BY <1>1, <1>4, <1>5, <2>2, <2>3 DEF InList
<1>10. WalkForces'
  <2>1. v7' # -1 => v7' \in Range(c.list)
    BY <1>2, <1>4
  <2>2. \A e \in v10 : e \in TimeEvents /\ e < v4 /\ e < c.nextId /\ (v7 # -1 => e <= v8)
    BY <1>0, <1>4, <1>6 DEF WalkForces, TimeTypes
  <2>3. ASSUME v9, NEW e \in v10, e \notin v11', v2'[e] # -1
        PROVE  v7' # -1 /\ e \in Ahead(c.list, v7') /\ v3'[e] < Second
    <3>1. e # v7 /\ e \notin v11 /\ v2[e] # -1
      BY <1>1, <1>4, <1>7, <2>2, <2>3
    <3>2. e \in Ahead(v1, v7) /\ v3[e] < Second
      BY <1>0, <2>3, <3>1 DEF WalkForces
    <3>3. v7' # -1 /\ e \in Ahead(v1, v7')
      BY <1>2, <3>1, <3>2
    <3>4. v3'[e] = v3[e]
      BY <1>4, <1>7, <2>2, <3>1
    <3> QED BY <1>2, <1>4, <3>2, <3>3, <3>4
  <2> QED BY <1>1, <1>5, <2>1, <2>2, <2>3 DEF WalkForces
<1> QED BY <1>8, <1>9, <1>10 DEF TimeInv

LEMMA TimeStep == TimeInv /\ [Time!Next]_(Time!vars) => TimeInv'
<1> SUFFICES ASSUME TimeInv, [Time!Next]_(Time!vars) PROVE TimeInv'
  OBVIOUS
<1>1. CASE UNCHANGED Time!vars
  BY <1>1 DEF Time!vars, Time!walk, TimeInv, TimeTypes, InList, WalkForces
<1>2. CASE Time!Next
  BY <1>2, TickStep, CallStep, BeginStep, FreeStep, SkipStep, FireStep DEF Time!Next
<1> QED BY <1>1, <1>2

\* The first of the earliest events of the list, if there is one.
LEMMA NearestIs ==
  ASSUME TimeTypes
  PROVE  IF v1 = << >> THEN Time!Nearest = -1
         ELSE Time!Nearest \in TimeEvents /\ \A e \in Range(v1) : v3[Time!Nearest] <= v3[e]
<1> DEFINE Earliest == {i \in DOMAIN v1 : \A j \in DOMAIN v1 : v3[v1[i]] <= v3[v1[j]]}
<1>1. /\ v1 \in Seq(TimeEvents) /\ DOMAIN v1 = 1 .. Len(v1) /\ Len(v1) \in Nat
      /\ v3 \in [TimeEvents -> Nat]
  BY DEF TimeTypes
<1>2. Time!Nearest = IF Earliest = {} THEN -1
                     ELSE v1[CHOOSE i \in Earliest : \A j \in Earliest : i <= j]
  BY TimeConstants DEF Time!Nearest
<1>3. CASE v1 = << >>
  <2>1. Earliest = {}
    BY <1>3
  <2> QED BY <1>2, <1>3, <2>1
<1>4. CASE v1 # << >>
  <2>1. 1 \in DOMAIN v1
    BY <1>1, <1>4, EmptySeq
  <2> DEFINE Whens == {v3[v1[i]] : i \in DOMAIN v1}
  <2>2. Whens \subseteq Nat /\ Whens # {}
    BY <1>1, <2>1
  <2>3. \E w \in Whens : \A x \in Whens : w <= x
    <3> HIDE DEF Whens
    <3> QED BY <2>2, Smallest
  <2>4. Earliest # {} /\ Earliest \subseteq Nat
    BY <1>1, <2>3
  <2>5. (CHOOSE i \in Earliest : \A j \in Earliest : i <= j) \in Earliest
    <3> HIDE DEF Earliest
    <3>1. \E i \in Earliest : \A j \in Earliest : i <= j
      BY <2>4, Smallest
    <3> QED BY <3>1
  <2>6. PICK i \in Earliest : Time!Nearest = v1[i]
    <3> HIDE DEF Earliest
    <3> QED BY <1>2, <2>4, <2>5
  <2>7. v1[i] \in TimeEvents
    BY <1>1
  <2> QED BY <1>4, <2>6, <2>7 DEF Range
<1> QED BY <1>3, <1>4

LEMMA TimeSafe == TimeInv => Time!TimeEventsSound
<1> SUFFICES ASSUME TimeInv PROVE Time!TimeEventsSound
  OBVIOUS
<1>0. TimeTypes /\ InList /\ WalkForces
  BY DEF TimeInv
<1>1. Time!WalkIsSafe
  <2>1. v4 \in Nat /\ v4 <= MaxEvents /\ MaxEvents \in Nat
    BY <1>0, TimeConstants DEF TimeTypes
  <2>2. ASSUME NEW e \in 0 .. v4 - 1
        PROVE  v12[e] = IF e \in Range(v1) THEN 0 ELSE 1
    <3>1. e \in TimeEvents /\ e < v4
      BY <2>1, TimeConstants
    <3> QED BY <1>0, <3>1 DEF InList
  <2> QED BY <1>0, <2>2, TimeConstants, TimeHelpers DEF Time!WalkIsSafe, InList, WalkForces
<1>2. Time!SkewForcesAll
  <2>1. v10 \subseteq TimeEvents
    BY <1>0 DEF TimeTypes
  <2> QED BY <1>0, <2>1, TimeConstants DEF Time!SkewForcesAll, WalkForces, TimeEvents
<1>3. Time!WakesInTime
  <2>1. \A e \in TimeEvents : v2[e] # -1 => e \in Range(v1)
    BY <1>0 DEF InList
  <2>2. v6 \in Nat /\ v3 \in [TimeEvents -> Nat]
    BY <1>0, TimeConstants DEF TimeTypes
  <2>3. CASE v1 = << >>
    <3>1. \A e \in TimeEvents : v2[e] = -1
      BY <2>1, <2>3, EmptyProperties
    <3> QED BY <3>1, TimeConstants DEF Time!WakesInTime, TimeEvents
  <2>4. CASE v1 # << >>
    <3>1. PICK n \in TimeEvents : n = Time!Nearest /\ \A e \in Range(v1) : v3[n] <= v3[e]
      BY <1>0, <2>4, NearestIs
    <3>2. Time!Sleep = IF v3[n] > v6 THEN v3[n] - v6 ELSE 0
      BY <3>1, TimeConstants DEF Time!Sleep
    <3>3. Time!Sleep \in Nat /\ Time!Forever \notin Nat
      BY <2>2, <3>2 DEF Time!Forever
    <3>4. \A e \in TimeEvents : v2[e] # -1 => v6 + Time!Sleep <= v3[e] \/ Time!Sleep = 0
      BY <2>1, <2>2, <3>1, <3>2
    <3> QED BY <3>3, <3>4, TimeConstants DEF Time!WakesInTime, TimeEvents
  <2> QED BY <2>3, <2>4
<1> QED BY <1>1, <1>2, <1>3 DEF Time!TimeEventsSound

\* A walk along the time events survives every callback, each event leaves the list once
\* and for its finalizer, a clock that was set back makes none wait for the old time, and
\* the loop does not sleep past one, for any number of events, delays and times of a clock
\* that is past the first second of 1970 (processTimeEvents, aeCreateTimeEvent,
\* aeDeleteTimeEvent, aeSearchNearestTimer).
THEOREM TimeIsSound == Time!Spec => []Time!TimeEventsSound
<1> QED BY TimeStart, TimeStep, TimeSafe, PTL DEF Time!Spec

InTime == part = "time"

\* So does a behaviour of the systems that is one of the time events.
THEOREM TimeEventsStaySound == Spec => []TimeEventsSound
<1>1. Init /\ InTime => Time!Init
  BY DEF Init, InTime
<1>2. InTime /\ [Next]_allvars => InTime' /\ [Time!Next]_(Time!vars)
  BY DEF Next, allvars, Time!vars, Time!walk, InTime
<1>3. ~InTime /\ [Next]_allvars => ~InTime'
  BY DEF Next, allvars, InTime
<1>4. /\ Time!TimeEventsSound => TimeEventsSound
      /\ ~InTime => TimeEventsSound
  BY DEF TimeEventsSound, InTime
<1>5. Spec /\ InTime => Time!Spec
  BY <1>1, <1>2, PTL DEF Spec, Time!Spec
<1>6. Spec /\ ~InTime => []~InTime
  BY <1>3, PTL DEF Spec
<1> QED BY <1>4, <1>5, <1>6, TimeIsSound, PTL

-----------------------------------------------------------------------------
(* LRUCache, as LRUCacheProofs has it.                                     *)

Cache == INSTANCE LRUCacheProofs WITH
    Keys <- CacheKeys, Capacity <- CacheCapacity,
    heap <- v1, values <- v2, logiclists <- v3, used <- v4, last <- v5, recent <- v6

InCache == part = "lru"

\* Each key maps to its node, the list is from the most to the least recently used, the
\* one that is evicted is the last of it, and a hit gives what was set last, for any keys
\* and any capacity (Get, Set of LRUCache).
THEOREM CacheRemembers == Spec => []CacheIsHistory
  <1>1. Init /\ InCache => Cache!Init
    BY DEF Init, InCache, LRU!Init, Cache!Init, LRU!Nodes, Cache!Nodes
  <1>2. LRU!Next <=> Cache!Next
    <2>1. LRU!NewNode = Cache!NewNode
      BY DEF LRU!NewNode, Cache!NewNode, LRU!Nodes, Cache!Nodes, LRU!Min, Cache!Min,
             LRU!Range, Cache!Range
    <2>2. \A s, S : LRU!Keep(s, S) = Cache!Keep(s, S)
      BY DEF LRU!Keep, Cache!Keep, LRU!Kept, Cache!Kept
    <2>3. LRU!Nodes = Cache!Nodes
      BY DEF LRU!Nodes, Cache!Nodes
    <2>4. \A k : LRU!Get(k) <=> Cache!Get(k)
      BY <2>1, <2>2, <2>3
         DEF LRU!Get, Cache!Get, LRU!HitInFront, Cache!HitInFront, LRU!Without,
             Cache!Without, LRU!Use, Cache!Use
    <2>5. \A k, v : LRU!SetFront(k, v) <=> Cache!SetFront(k, v)
      BY <2>2
         DEF LRU!SetFront, Cache!SetFront, LRU!Overwritten, Cache!Overwritten, LRU!Use,
             Cache!Use
    <2>6. \A f : LRU!Range(f) = Cache!Range(f)
      BY DEF LRU!Range, Cache!Range
    <2>7. \A S : LRU!Cardinality(S) = Cache!Cardinality(S)
      BY DEF LRU!Cardinality, Cache!Cardinality
    <2>9. \A f, S : LRU!Restrict(f, S) = Cache!Restrict(f, S)
      BY DEF LRU!Restrict, Cache!Restrict
    <2>8. ASSUME NEW k, NEW v PROVE LRU!Set(k, v) <=> Cache!Set(k, v)
      BY <2>1, <2>2, <2>3, <2>6, <2>7, <2>9
         DEF LRU!Set, Cache!Set, LRU!Without, Cache!Without, LRU!Use, Cache!Use, LRU!With,
             Cache!With, LRU!Evicted, Cache!Evicted, LRU!UsedAfter, Cache!UsedAfter
    <2>. QED
      BY <2>4, <2>5, <2>8 DEF LRU!Next, Cache!Next
  <1>3. InCache /\ [Next]_allvars => InCache' /\ [Cache!Next]_Cache!vars
    BY <1>2 DEF InCache, Next, allvars, Cache!vars
  <1>4. ~InCache /\ [Next]_allvars => ~InCache'
    BY DEF InCache, Next, allvars
  <1>5. (InCache => Cache!CacheIsHistory) => CacheIsHistory
    BY DEF InCache, CacheIsHistory, LRU!CacheIsHistory, Cache!CacheIsHistory,
           LRU!MapIsList, Cache!MapIsList, LRU!HitIsLatest, Cache!HitIsLatest,
           LRU!MostRecent, Cache!MostRecent, LRU!IsInjective, Cache!IsInjective,
           LRU!Range, Cache!Range, LRU!IsPrefix, Cache!IsPrefix
  <1>6. Cache!Spec => []Cache!CacheIsHistory
    <2>1. Cache!CacheAssumption
      BY SystemsAssumption DEF LRU!CacheAssumption, Cache!CacheAssumption
    <2>. QED
      BY <2>1, Cache!CacheRemembers
  <1>7. Init /\ [][Next]_allvars /\ InCache => Cache!Init /\ [][Cache!Next]_Cache!vars
    BY <1>1, <1>3, PTL
  <1>8. Init /\ [][Next]_allvars /\ ~InCache => []~InCache
    BY <1>4, PTL
  <1>. QED
    BY <1>5, <1>6, <1>7, <1>8, PTL DEF Spec, Cache!Spec

Select == INSTANCE SelectProofs WITH
    MaxNow <- CallsUntil, PollCalls <- WaitCalls,
    now <- v1, call <- v2, tsp <- v3, end <- v4, at <- v5, ret <- v6, ready <- v7,
    answered <- v8, mask <- v9, restore <- v10, pending <- v11, signals <- v12,
    caught <- v13, deadline <- v14,
    status <- v1, due <- v2, entries <- v3, triggered <- v4, task <- v5, place <- v6,
    asked <- v7, todo <- v8, came <- v9

-----------------------------------------------------------------------------
(* PollSelect and SelectCall, as SelectProofs has them.                    *)

InWait   == part = "wait"
InSelect == part = "select"

LEMMA WaitIsSelectWait ==
    /\ Wait!WaitAssumption <=> Select!WaitAssumption
    /\ Wait!Init <=> Select!Wait!Init
    /\ Wait!Next <=> Select!Wait!Next
    /\ Wait!pollvars = Select!Wait!pollvars
    /\ Wait!SleepsOnNothing <=> Select!Wait!SleepsOnNothing
<1>1. \A f : Wait!Range(f) = Select!Wait!Range(f)
  BY DEF Wait!Range, Select!Wait!Range
<1>2. Wait!outside = Select!Wait!outside
  BY DEF Wait!outside, Select!Wait!outside
<1>3. Wait!NoCall = Select!Wait!NoCall
  BY <1>1 DEF Wait!NoCall, Select!Wait!NoCall
<1>4. Wait!Kinds = Select!Wait!Kinds
  BY DEF Wait!Kinds, Select!Wait!Kinds
<1>5. Wait!WaitAssumption <=> Select!WaitAssumption
  BY <1>1, <1>4 DEF Wait!WaitAssumption, Select!WaitAssumption, Select!Wait!WaitAssumption
<1>6. Wait!Init <=> Select!Wait!Init
  BY <1>1, <1>3 DEF Wait!Init, Select!Wait!Init
<1>7. \A f, b : /\ Wait!Arrive(f, b) <=> Select!Wait!Arrive(f, b)
                /\ Wait!Consume(f, b) <=> Select!Wait!Consume(f, b)
                /\ Wait!PollWake(f, b) <=> Select!Wait!PollWake(f, b)
  BY DEF Wait!Arrive, Select!Wait!Arrive, Wait!Consume, Select!Wait!Consume,
         Wait!PollWake, Select!Wait!PollWake
<1>8. \A c, zero : Wait!Enter(c, zero) <=> Select!Wait!Enter(c, zero)
  BY <1>2, <1>3 DEF Wait!outside, Select!Wait!outside, Wait!Enter, Select!Wait!Enter
<1>9. \A f : Wait!Key(f) = Select!Wait!Key(f)
  BY DEF Wait!Key, Select!Wait!Key
<1>10. \A memory : Wait!Hook(memory) <=> Select!Wait!Hook(memory)
  BY <1>2, <1>9 DEF Wait!outside, Select!Wait!outside, Wait!Hook, Select!Wait!Hook
<1>11. Wait!Skip <=> Select!Wait!Skip
  BY <1>2 DEF Wait!outside, Select!Wait!outside, Wait!Skip, Select!Wait!Skip
<1>12. Wait!Look <=> Select!Wait!Look
  BY <1>2 DEF Wait!outside, Select!Wait!outside, Wait!Look, Select!Wait!Look
<1>13. Wait!EndLoop <=> Select!Wait!EndLoop
  BY <1>1, <1>2, <1>3
     DEF Wait!outside, Select!Wait!outside, Wait!EndLoop, Select!Wait!EndLoop,
         Wait!Returns, Select!Wait!Returns
<1>14. Wait!Schedule <=> Select!Wait!Schedule
  BY <1>2
     DEF Wait!outside, Select!Wait!outside, Wait!Schedule, Select!Wait!Schedule,
         Wait!Sleeps, Select!Wait!Sleeps
<1>15. /\ Wait!Timeout <=> Select!Wait!Timeout
       /\ Wait!Signal <=> Select!Wait!Signal
       /\ Wait!Woken <=> Select!Wait!Woken
       /\ Wait!Again <=> Select!Wait!Again
  BY <1>2
     DEF Wait!outside, Select!Wait!outside, Wait!Timeout, Select!Wait!Timeout,
         Wait!Signal, Select!Wait!Signal, Wait!Woken, Select!Wait!Woken, Wait!Again,
         Select!Wait!Again
<1>16. Wait!Next <=> Select!Wait!Next
  BY <1>1, <1>4, <1>7, <1>8, <1>10, <1>11, <1>12, <1>13, <1>14, <1>15
     DEF Wait!Next, Select!Wait!Next
<1>17. Wait!pollvars = Select!Wait!pollvars
  BY <1>2 DEF Wait!pollvars, Select!Wait!pollvars
<1>18. Wait!SleepsOnNothing <=> Select!Wait!SleepsOnNothing
  BY <1>1 DEF Wait!SleepsOnNothing, Select!Wait!SleepsOnNothing
<1>. QED
  BY <1>5, <1>6, <1>16, <1>17, <1>18

LEMMA CallIsSelect ==
    /\ Call!CallAssumption <=> Select!CallAssumption
    /\ Call!Init <=> Select!Init
    /\ Call!Next <=> Select!Next
    /\ Call!vars = Select!vars
    /\ Call!CallSound <=> Select!CallSound
<1>1. /\ Call!NoTimeout = Select!NoTimeout /\ Call!None = Select!None /\ Call!Zero = Select!Zero
      /\ Call!Selects = Select!Selects /\ Call!Epolls = Select!Epolls
      /\ Call!Writes = Select!Writes /\ Call!Restartable = Select!Restartable
      /\ Call!EBADF = Select!EBADF /\ Call!clock = Select!clock
  BY DEF Call!NoTimeout, Select!NoTimeout, Call!None, Select!None, Call!Zero, Select!Zero,
         Call!Selects, Select!Selects, Call!Epolls, Select!Epolls, Call!Writes,
         Select!Writes, Call!Restartable, Select!Restartable, Call!EBADF, Select!EBADF,
         Call!clock, Select!clock
<1>2. Call!Calls = Select!Calls
  BY DEF Call!Calls, Select!Calls
<1>3. Call!SignalPending <=> Select!SignalPending
  BY DEF Call!SignalPending, Select!SignalPending, Call!Blocked, Select!Blocked
<1>4. \A t : Call!EndTime(t) = Select!EndTime(t)
  BY <1>1 DEF Call!EndTime, Select!EndTime
<1>5. Call!TimedOut <=> Select!TimedOut
  BY <1>1 DEF Call!TimedOut, Select!TimedOut
<1>6. \A S : Call!Max(S) = Select!Max(S)
  BY DEF Call!Max, Select!Max
<1>7. \A r : Call!Remaining(r) = Select!Remaining(r)
  BY <1>1, <1>6 DEF Call!Remaining, Select!Remaining
<1>8. Call!Leaving = Select!Leaving
  BY DEF Call!Leaving, Select!Leaving
<1>9. Call!Init <=> Select!Init
  BY <1>1 DEF Call!Init, Select!Init
<1>10. /\ Call!Tick <=> Select!Tick
       /\ Call!Signal <=> Select!Signal
       /\ Call!Arrive <=> Select!Arrive
  BY DEF Call!Tick, Select!Tick, Call!Signal, Select!Signal, Call!Arrive, Select!Arrive
<1>11. \A c, t : Call!Enter(c, t) <=> Select!Enter(c, t)
  BY <1>1, <1>4 DEF Call!clock, Select!clock, Call!Enter, Select!Enter
<1>12. /\ Call!CoreSysSelect <=> Select!CoreSysSelect
       /\ Call!DoSysPoll <=> Select!DoSysPoll
       /\ Call!EpollWait <=> Select!EpollWait
  BY <1>1, <1>3, <1>5
     DEF Call!clock, Select!clock, Call!CoreSysSelect, Select!CoreSysSelect,
         Call!DoSysPoll, Select!DoSysPoll, Call!EpollWait, Select!EpollWait
<1>13. /\ Call!CopyRemaining <=> Select!CopyRemaining
       /\ Call!UnmaskSelect <=> Select!UnmaskSelect
       /\ Call!UnmaskPoll <=> Select!UnmaskPoll
       /\ Call!UnmaskEpoll <=> Select!UnmaskEpoll
  BY <1>1, <1>7
     DEF Call!clock, Select!clock, Call!CopyRemaining, Select!CopyRemaining,
         Call!UnmaskSelect, Select!UnmaskSelect, Call!UnmaskPoll, Select!UnmaskPoll,
         Call!UnmaskEpoll, Select!UnmaskEpoll
<1>14. /\ Call!Handle <=> Select!Handle
       /\ Call!Restart <=> Select!Restart
       /\ Call!Ignore <=> Select!Ignore
       /\ Call!Return <=> Select!Return
  BY <1>1, <1>3, <1>4, <1>8
     DEF Call!clock, Select!clock, Call!Handle, Select!Handle, Call!Restart,
         Select!Restart, Call!Ignore, Select!Ignore, Call!Return, Select!Return
<1>15. Call!Next <=> Select!Next
  BY <1>2, <1>10, <1>11, <1>12, <1>13, <1>14 DEF Call!Next, Select!Next
<1>16. Call!vars = Select!vars
  BY <1>1 DEF Call!vars, Select!vars
<1>18. \A n, set, open, bits :
         Call!max_select_fd(n, set, open, bits) = Select!max_select_fd(n, set, open, bits)
  BY DEF Call!max_select_fd, Select!max_select_fd, Call!WithWord, Select!WithWord,
         Call!EBADF, Select!EBADF, Call!Max, Select!Max
<1>19. Call!CountsDescriptors <=> Select!CountsDescriptors
  BY <1>1, <1>6, <1>18 DEF Call!CountsDescriptors, Select!CountsDescriptors
<1>20. Call!CallSound <=> Select!CallSound
  BY <1>1, <1>19 DEF Call!CallSound, Select!CallSound, Call!NeverEarly, Select!NeverEarly,
     Call!SetsIntact, Select!SetsIntact, Call!MaskBack, Select!MaskBack, Call!Interrupted,
     Select!Interrupted
<1>21. Call!CallAssumption <=> Select!CallAssumption
  BY <1>1 DEF Call!CallAssumption, Select!CallAssumption
<1>. QED
  BY <1>9, <1>15, <1>16, <1>20, <1>21

\* No select or poll sleeps while an event it asked for is there, and each call of select,
\* poll and epoll_wait answers no earlier than it may, leaves the sets of a call that
\* failed, gives the mask back and is restarted only after a signal that asks for it, for
\* any descriptors and timeouts (do_select, do_poll, core_sys_select, do_restart_poll).
THEOREM NothingSleepsOnEvents == Spec => []SleepsOnNothing
  <1>1. Select!Wait!Spec => []Select!Wait!SleepsOnNothing
    BY SystemsAssumption, WaitIsSelectWait, Select!NeverSleepsOnEvent
  <1>2. Select!Spec => []Select!CallSound
    BY SystemsAssumption, CallIsSelect, Select!CallsAreSound
  <1>3. Init => (InWait => Select!Wait!Init) /\ (InSelect => Select!Init)
    BY WaitIsSelectWait, CallIsSelect DEF Init, InWait, InSelect
  <1>4. /\ InWait /\ [Next]_allvars => InWait' /\ [Select!Wait!Next]_(Select!Wait!pollvars)
        /\ ~InWait /\ [Next]_allvars => ~InWait'
    <2>1. UNCHANGED allvars => UNCHANGED Select!Wait!pollvars
      BY DEF allvars, Select!Wait!pollvars, Select!Wait!outside
    <2>. QED
      BY <2>1, WaitIsSelectWait DEF Next, InWait, allvars
  <1>5. /\ InSelect /\ [Next]_allvars => InSelect' /\ [Select!Next]_(Select!vars)
        /\ ~InSelect /\ [Next]_allvars => ~InSelect'
    <2>1. UNCHANGED allvars => UNCHANGED Select!vars
      BY DEF allvars, Select!vars, Select!clock
    <2>. QED
      BY <2>1, CallIsSelect DEF Next, InSelect, allvars
  <1>6. (InWait => Select!Wait!SleepsOnNothing) /\ (InSelect => Select!CallSound)
        => SleepsOnNothing
    BY WaitIsSelectWait, CallIsSelect DEF SleepsOnNothing, InWait, InSelect
  <1>7. Spec => [](InWait => Select!Wait!SleepsOnNothing)
    BY <1>1, <1>3, <1>4, PTL DEF Spec, Select!Wait!Spec
  <1>8. Spec => [](InSelect => Select!CallSound)
    BY <1>2, <1>3, <1>5, PTL DEF Spec, Select!Spec
  <1>. QED
    BY <1>6, <1>7, <1>8, PTL
=============================================================================
