----------------------------- MODULE HubProofs -----------------------------
(***************************************************************************)
(* Proofs about the hub for any number of clients, topics and contents.    *)
(*                                                                         *)
(* The inductive invariant IInv adds to the properties what they rest on:  *)
(* the stream of a client, what the hub has buffered followed by what is   *)
(* on its way, is always well framed, so that the parser finds a content   *)
(* line after every publication and nowhere else.                          *)
(***************************************************************************)
EXTENDS Hub, FilterProofs

Item == Line \cup {Fin}

\* What the hub has still to read from c, buffered or on its way.
Stream(c) == buf[c] \o up[c]

\* May item b follow item a in a stream?
Fits(a, b) ==
    /\ a.k # "fin"
    /\ a.k = "pub" => b.k \in {"text", "fin"}
    /\ b.k = "text" => a.k = "pub"

WellFramed(s) ==
    /\ s # << >> => s[1].k # "text"
    /\ \A i \in 1 .. Len(s) - 1 : Fits(s[i], s[i + 1])

\* A stream that ends with a whole request, and can be added to.
EndsWhole(s) == s # << >> => s[Len(s)].k \notin {"pub", "fin"}

NoBadLine(s) == \A i \in 1 .. Len(s) : s[i].k \notin {"unknown", "nospace"}

FramedAt(c) ==
    /\ WellFramed(Stream(c))
    /\ cli[c] \in {"init", "up"} => EndsWhole(Stream(c))
    /\ ~bad[c] => NoBadLine(Stream(c))

Framing == \A c \in Clients : FramedAt(c)

BusyIsLive == busy # NoOne => conn[busy] \in {"up", "closing"}

IInv == /\ TypeOK
        /\ Framing
        /\ BusyIsLive
        /\ AudienceIsContext
        /\ NoDeadAudience
        /\ OnlyBadRejected

-----------------------------------------------------------------------------
(* Streams.                                                                 *)

\* The items by their kind.
LEMMA ItemKinds ==
    ASSUME NEW e \in Item
    PROVE  /\ e.k = "fin" <=> e = Fin
           /\ e # Fin => e \in Line
           /\ e.k = "text" => e.x \in Contents
           /\ e.k \in {"sub", "unsub", "pub"} => e.t \in Topics
           /\ e.k \in {"sub", "unsub", "pub", "text", "unknown", "nospace", "fin"}
  BY DEF Item, Line, CommandLine, ContentLine, BadLine, Fin

\* A FIN can only be the last item of a well-framed stream, so that all that
\* comes before it is lines.
LEMMA DataIsLines ==
    ASSUME NEW s \in Seq(Line), NEW u \in Seq(Item), WellFramed(s \o u),
           NEW n \in 0 .. DataLen(u)
    PROVE  /\ DataLen(u) \in 0 .. Len(u)
           /\ SubSeq(u, 1, n) \in Seq(Line)
           /\ Len(SubSeq(u, 1, n)) = n
           /\ \A i \in 1 .. n : SubSeq(u, 1, n)[i] = u[i]
  <1>1. s \in Seq(Item)
    BY DEF Item
  <1>2. DataLen(u) \in 0 .. Len(u)
    BY DEF DataLen
  <1>3. ASSUME NEW i \in 1 .. n
        PROVE  u[i] \in Line
    <2>1. i \in 1 .. Len(u) /\ u[i] \in Item
      BY <1>2
    <2>2. CASE i = Len(u)
      BY <1>2, <2>1, <2>2, ItemKinds DEF DataLen
    <2>3. CASE i # Len(u)
      <3>1. Len(s) + i \in 1 .. Len(s \o u) - 1 /\ (s \o u)[Len(s) + i] = u[i]
        BY <1>1, <2>1, <2>3, ConcatProperties
      <3>2. u[i].k # "fin"
        BY <3>1 DEF WellFramed, Fits
      <3>. QED
        BY <2>1, <3>2, ItemKinds
    <2>. QED
      BY <2>2, <2>3
  <1>. QED
    BY <1>2, <1>3, SubSeqProperties, \A i \in 1 .. n : i \in 1 .. Len(u)

\* A stream cut short and ended.
LEMMA PrefixIsFramed ==
    ASSUME NEW S \in Seq(Item), WellFramed(S), NEW m \in 0 .. Len(S),
           NEW V \in Seq(Item), Len(V) = m + 1, V[m + 1] = Fin,
           \A i \in 1 .. m : V[i] = S[i] /\ V[i].k # "fin"
    PROVE  WellFramed(V) /\ (NoBadLine(S) => NoBadLine(V))
  <1>1. Len(S) \in Nat /\ Fin.k = "fin"
    BY DEF Fin
  <1>2. V[1].k # "text"
    BY <1>1 DEF WellFramed
  <1>3. ASSUME NEW i \in 1 .. m
        PROVE  Fits(V[i], V[i + 1])
    <2>1. CASE i = m
      <3>1. V[i] \in Item /\ V[i].k # "fin" /\ V[i + 1].k = "fin"
        BY <1>1, <2>1
      <3>. QED
        BY <3>1 DEF Fits
    <2>2. CASE i # m
      <3>1. V[i] = S[i] /\ V[i + 1] = S[i + 1] /\ i \in 1 .. Len(S) - 1
        BY <1>1, <2>2
      <3>. QED
        BY <3>1 DEF WellFramed
    <2>. QED
      BY <2>1, <2>2
  <1>4. ASSUME NoBadLine(S)
        PROVE  NoBadLine(V)
    <2>1. ASSUME NEW i \in 1 .. m + 1
          PROVE  V[i].k \notin {"unknown", "nospace"}
      <3>1. CASE i = m + 1
        BY <1>1, <3>1
      <3>2. CASE i # m + 1
        BY <1>1, <1>4, <3>2 DEF NoBadLine
      <3>. QED
        BY <3>1, <3>2
    <2>. QED
      BY <2>1 DEF NoBadLine
  <1>. QED
    BY <1>2, <1>3, <1>4 DEF WellFramed

\* A stream with its first d items gone, a publication's content never alone.
LEMMA SuffixIsFramed ==
    ASSUME NEW S \in Seq(Item), WellFramed(S),
           NEW d \in 1 .. Len(S), S[d].k # "pub",
           NEW R \in Seq(Item), Len(R) = Len(S) - d,
           \A i \in 1 .. Len(R) : R[i] = S[d + i]
    PROVE  /\ WellFramed(R)
           /\ EndsWhole(S) => EndsWhole(R)
           /\ NoBadLine(S) => NoBadLine(R)
  <1>1. Len(S) \in Nat /\ Len(R) \in Nat
    OBVIOUS
  <1>2. ASSUME R # << >>
        PROVE  R[1].k # "text"
    <2>1. R[1] = S[d + 1] /\ d \in 1 .. Len(S) - 1
      BY <1>1, <1>2
    <2>2. Fits(S[d], S[d + 1])
      BY <2>1 DEF WellFramed
    <2>. QED
      BY <2>1, <2>2 DEF Fits
  <1>3. ASSUME NEW i \in 1 .. Len(R) - 1
        PROVE  Fits(R[i], R[i + 1])
    <2>1. R[i] = S[d + i] /\ R[i + 1] = S[(d + i) + 1] /\ d + i \in 1 .. Len(S) - 1
      BY <1>1
    <2>2. Fits(S[d + i], S[(d + i) + 1])
      BY <2>1 DEF WellFramed
    <2>. QED
      BY <2>1, <2>2
  <1>4. R # << >> => R[Len(R)] = S[Len(S)] /\ S # << >>
    BY <1>1
  <1>5. ASSUME NoBadLine(S)
        PROVE  NoBadLine(R)
    BY <1>1, <1>5 DEF NoBadLine
  <1>. QED
    BY <1>2, <1>3, <1>4, <1>5 DEF WellFramed, EndsWhole

LEMMA ItemsAssociate ==
    ASSUME NEW s \in Seq(Item), NEW a \in Seq(Item), NEW b \in Seq(Item)
    PROVE  (s \o a) \o b = s \o (a \o b)
  <1>1. (s \o a) \o b \in Seq(Item) /\ s \o (a \o b) \in Seq(Item)
    BY ConcatProperties
  <1>2. /\ Len((s \o a) \o b) = Len(s) + Len(a) + Len(b)
        /\ Len(s \o (a \o b)) = Len(s) + Len(a) + Len(b)
    BY ConcatProperties
  <1>3. \A i \in 1 .. Len(s) + Len(a) + Len(b) : ((s \o a) \o b)[i] = (s \o (a \o b))[i]
    BY ConcatProperties
  <1>. QED
    BY <1>1, <1>2, <1>3, SeqEqual

LEMMA LastOfConcat ==
    ASSUME NEW s \in Seq(Item), NEW u \in Seq(Item), u # << >>
    PROVE  /\ s \o u # << >>
           /\ (s \o u)[Len(s \o u)] = u[Len(u)]
  <1>1. Len(s) \in Nat /\ Len(u) \in Nat \ {0}
    BY EmptySeq
  <1>2. /\ Len(s \o u) = Len(s) + Len(u)
        /\ \A i \in 1 .. Len(s) + Len(u) :
               (s \o u)[i] = IF i <= Len(s) THEN s[i] ELSE u[i - Len(s)]
    BY ConcatProperties
  <1>. QED
    BY <1>1, <1>2

LEMMA HeadOfConcat ==
    ASSUME NEW s \in Seq(Item), NEW u \in Seq(Item), s # << >>
    PROVE  /\ s \o u # << >>
           /\ (s \o u)[1] = s[1]
           /\ Len(s \o u) >= 1
  <1>1. Len(s) \in Nat \ {0} /\ Len(u) \in Nat
    BY EmptySeq
  <1>2. /\ Len(s \o u) = Len(s) + Len(u)
        /\ \A i \in 1 .. Len(s) + Len(u) :
               (s \o u)[i] = IF i <= Len(s) THEN s[i] ELSE u[i - Len(s)]
    BY ConcatProperties
  <1>. QED
    BY <1>1, <1>2

\* Reading moves lines from one part of the stream to the other.
LEMMA ReadKeepsStream ==
    ASSUME NEW s \in Seq(Line), NEW u \in Seq(Item), WellFramed(s \o u),
           NEW n \in 1 .. DataLen(u)
    PROVE  /\ s \o SubSeq(u, 1, n) \in Seq(Line)
           /\ SubSeq(u, n + 1, Len(u)) \in Seq(Item)
           /\ (s \o SubSeq(u, 1, n)) \o SubSeq(u, n + 1, Len(u)) = s \o u
  <1>1. s \in Seq(Item) /\ n \in 0 .. DataLen(u)
    BY DEF Item
  <1>2. DataLen(u) \in 0 .. Len(u) /\ SubSeq(u, 1, n) \in Seq(Line)
    BY <1>1, DataIsLines
  <1>3. SubSeq(u, 1, n) \in Seq(Item)
    BY <1>2 DEF Item
  <1>4. SubSeq(u, n + 1, Len(u)) \in Seq(Item)
    BY <1>2, SubSeqProperties, \A i \in n + 1 .. Len(u) : u[i] \in Item
  <1>5. SubSeq(u, 1, n) \o SubSeq(u, n + 1, Len(u)) = u
    <2>1. SubSeq(u, 1, n) \o SubSeq(u, n + 1, Len(u)) = SubSeq(u, 1, Len(u))
      BY <1>2, ConcatAdjacentSubSeq
    <2>. QED
      BY <2>1, SubSeqFull
  <1> DEFINE a == SubSeq(u, 1, n)
             b == SubSeq(u, n + 1, Len(u))
  <1>6. a \in Seq(Item) /\ b \in Seq(Item) /\ a \o b = u /\ a \in Seq(Line)
    BY <1>2, <1>3, <1>4, <1>5
  <1> HIDE DEF a, b
  <1>7. (s \o a) \o b = s \o (a \o b)
    BY <1>1, <1>6, ItemsAssociate
  <1>8. s \o a \in Seq(Line)
    BY <1>6, ConcatProperties
  <1>. QED
    BY <1>6, <1>7, <1>8 DEF a, b

\* Cutting the part that is on its way, or ending it, leaves a framed stream.
LEMMA CutKeepsFraming ==
    ASSUME NEW s \in Seq(Line), NEW u \in Seq(Item), WellFramed(s \o u),
           NEW v \in Cuts(u)
    PROVE  /\ v \in Seq(Item)
           /\ WellFramed(s \o v)
           /\ NoBadLine(s \o u) => NoBadLine(s \o v)
  <1>1. PICK n \in 0 .. DataLen(u) : v = Append(SubSeq(u, 1, n), Fin)
    BY DEF Cuts
  <1> DEFINE w == SubSeq(u, 1, n)
  <1>2. /\ w \in Seq(Line) /\ Len(w) = n /\ n \in 0 .. Len(u)
        /\ \A i \in 1 .. n : w[i] = u[i]
    BY DataIsLines
  <1> HIDE DEF w
  <1>3. s \in Seq(Item) /\ w \in Seq(Item) /\ Fin \in Item
    BY <1>2 DEF Item
  <1>4. /\ v \in Seq(Item) /\ Len(v) = n + 1 /\ v[n + 1] = Fin
        /\ \A i \in 1 .. n : v[i] = u[i] /\ v[i] \in Line
    BY <1>1, <1>2, <1>3, AppendProperties, ElementOfSeq DEF w
  <1>5. /\ Len(s \o v) = Len(s) + n + 1
        /\ Len(s \o u) = Len(s) + Len(u)
        /\ \A i \in 1 .. Len(s) + n : (s \o v)[i] = (s \o u)[i] /\ (s \o v)[i] \in Line
        /\ (s \o v)[Len(s) + n + 1] = Fin
    <2>1. /\ Len(s \o v) = Len(s) + Len(v)
          /\ \A i \in 1 .. Len(s) + Len(v) :
                 (s \o v)[i] = IF i <= Len(s) THEN s[i] ELSE v[i - Len(s)]
      BY <1>3, <1>4, ConcatProperties
    <2>2. /\ Len(s \o u) = Len(s) + Len(u)
          /\ \A i \in 1 .. Len(s) + Len(u) :
                 (s \o u)[i] = IF i <= Len(s) THEN s[i] ELSE u[i - Len(s)]
      BY <1>3, ConcatProperties
    <2>3. Len(s) \in Nat /\ Len(u) \in Nat /\ \A i \in 1 .. Len(s) : s[i] \in Line
      BY ElementOfSeq
    <2>. QED
      BY <1>2, <1>4, <2>1, <2>2, <2>3
  <1>6. s \o u \in Seq(Item) /\ s \o v \in Seq(Item)
    BY <1>3, <1>4, ConcatProperties
  <1>7. \A i \in 1 .. Len(s) + n : (s \o v)[i].k # "fin"
    BY <1>5, ItemKinds DEF Line, CommandLine, ContentLine, BadLine
  <1>8. Len(s) + n \in 0 .. Len(s \o u)
    BY <1>2, <1>5
  <1> DEFINE S == s \o u
             V == s \o v
             m == Len(s) + n
  <1>9. /\ S \in Seq(Item) /\ V \in Seq(Item) /\ WellFramed(S) /\ m \in 0 .. Len(S)
        /\ Len(V) = m + 1 /\ V[m + 1] = Fin
        /\ \A i \in 1 .. m : V[i] = S[i] /\ V[i].k # "fin"
    BY <1>5, <1>6, <1>7, <1>8
  <1> HIDE DEF S, V, m
  <1>10. WellFramed(V) /\ (NoBadLine(S) => NoBadLine(V))
    BY <1>9, PrefixIsFramed
  <1>. QED
    BY <1>4, <1>10 DEF S, V

\* What a client writes, written after a stream that ends with a whole request.
LEMMA WriteKeepsFraming ==
    ASSUME NEW s \in Seq(Item), WellFramed(s), EndsWhole(s),
           NEW w \in Seq(Line), w # << >>, WellFramed(w), EndsWhole(w)
    PROVE  /\ s \o w \in Seq(Item)
           /\ WellFramed(s \o w)
           /\ EndsWhole(s \o w)
           /\ NoBadLine(s) /\ NoBadLine(w) => NoBadLine(s \o w)
  <1>1. w \in Seq(Item)
    BY DEF Item
  <1>2. /\ s \o w \in Seq(Item) /\ Len(s \o w) = Len(s) + Len(w)
        /\ \A i \in 1 .. Len(s) + Len(w) :
               (s \o w)[i] = IF i <= Len(s) THEN s[i] ELSE w[i - Len(s)]
    BY <1>1, ConcatProperties
  <1>3. Len(s) \in Nat /\ Len(w) \in Nat \ {0}
    BY EmptySeq
  <1>4. WellFramed(s \o w)
    <2>1. (s \o w)[1].k # "text"
      BY <1>2, <1>3 DEF WellFramed
    <2>2. ASSUME NEW i \in 1 .. Len(s) + Len(w) - 1
          PROVE  Fits((s \o w)[i], (s \o w)[i + 1])
      <3>1. CASE i < Len(s)
        BY <1>2, <1>3, <3>1 DEF WellFramed
      <3>2. CASE i > Len(s)
        <4>1. /\ i - Len(s) \in 1 .. Len(w) - 1
              /\ (s \o w)[i] = w[i - Len(s)]
              /\ (s \o w)[i + 1] = w[(i - Len(s)) + 1]
          BY <1>2, <1>3, <3>2
        <4>. QED
          BY <4>1 DEF WellFramed
      <3>3. CASE i = Len(s)
        <4>1. (s \o w)[i] = s[Len(s)] /\ (s \o w)[i + 1] = w[1] /\ s # << >>
          BY <1>2, <1>3, <3>3
        <4>. QED
          BY <4>1 DEF WellFramed, EndsWhole, Fits
      <3>. QED
        BY <1>3, <3>1, <3>2, <3>3
    <2>. QED
      BY <1>2, <2>1, <2>2 DEF WellFramed
  <1>5. EndsWhole(s \o w)
    BY <1>2, <1>3 DEF EndsWhole
  <1>6. ASSUME NoBadLine(s), NoBadLine(w)
        PROVE  NoBadLine(s \o w)
    BY <1>2, <1>3, <1>6 DEF NoBadLine
  <1>. QED
    BY <1>2, <1>4, <1>5, <1>6

\* What a client of the library writes is a whole request.
LEMMA EncodeIsWhole ==
    ASSUME NEW r \in Request
    PROVE  /\ Encode(r) \in Seq(Line) /\ Encode(r) # << >>
           /\ WellFramed(Encode(r)) /\ EndsWhole(Encode(r)) /\ NoBadLine(Encode(r))
  <1>1. CASE r.op = "pub"
    <2> DEFINE a == [k |-> "pub", t |-> r.t]
               b == [k |-> "text", x |-> r.x]
    <2>1. r.t \in Topics /\ r.x \in Contents
      BY <1>1 DEF Request
    <2>2. a \in Line /\ b \in Line /\ Encode(r) = << a, b >>
      BY <1>1, <2>1 DEF Encode, Line, CommandLine, ContentLine
    <2>3. a.k = "pub" /\ b.k = "text"
      OBVIOUS
    <2> HIDE DEF a, b
    <2>. QED
      BY <2>2, <2>3 DEF WellFramed, EndsWhole, NoBadLine, Fits
  <1>2. CASE r.op # "pub"
    <2> DEFINE a == [k |-> r.op, t |-> r.t]
    <2>1. r.t \in Topics /\ r.op \in {"sub", "unsub"}
      BY <1>2 DEF Request
    <2>2. a \in Line /\ Encode(r) = << a >>
      BY <1>2, <2>1 DEF Encode, Line, CommandLine
    <2>3. a.k \in {"sub", "unsub"}
      BY <2>1
    <2> HIDE DEF a
    <2>. QED
      BY <2>2, <2>3 DEF WellFramed, EndsWhole, NoBadLine, Fits
  <1>. QED
    BY <1>1, <1>2

\* So is a bad line, as far as framing goes.
LEMMA BadLineIsWhole ==
    ASSUME NEW l \in BadLine
    PROVE  /\ << l >> \in Seq(Line) /\ << l >> # << >>
           /\ WellFramed(<< l >>) /\ EndsWhole(<< l >>)
  BY DEF BadLine, Line, WellFramed, EndsWhole

\* A turn of onMessage that parses takes a whole request or bad line off the
\* stream, and a publication comes with its content.
LEMMA ParseKeepsFraming ==
    ASSUME NEW s \in Seq(Line), NEW u \in Seq(Item), WellFramed(s \o u),
           ParseResult(s) = "kSuccess"
    PROVE  /\ s # << >> /\ s[1] \in Line /\ s[1].k \notin {"text", "nospace"}
           /\ s[1].k = "pub" => Len(s) >= 2 /\ s[2].x \in Contents
           /\ Rest(s) \in Seq(Line)
           /\ WellFramed(Rest(s) \o u)
           /\ EndsWhole(s \o u) => EndsWhole(Rest(s) \o u)
           /\ NoBadLine(s \o u) => NoBadLine(Rest(s) \o u)
  <1> DEFINE d == IF s[1].k = "pub" THEN 2 ELSE 1
  <1>1. s # << >> /\ s[1].k \notin {"text", "nospace"} /\ d <= Len(s)
    <2>1. ~NeedsMore(s)
      BY DEF ParseResult
    <2>2. ~Malformed(s)
      BY <2>1 DEF ParseResult
    <2>3. s # << >> /\ (s[1].k = "pub" => Len(s) # 1)
      BY <2>1 DEF NeedsMore
    <2>4. Len(s) \in Nat /\ Len(s) # 0
      BY <2>3, EmptySeq
    <2>5. s[1].k \notin {"text", "nospace"}
      BY <2>2, <2>3 DEF Malformed
    <2>6. d <= Len(s)
      BY <2>3, <2>4
    <2>. QED
      BY <2>3, <2>5, <2>6
  <1>2. s \in Seq(Item) /\ Len(s) \in Nat \ {0} /\ Len(u) \in Nat /\ d \in {1, 2}
    BY <1>1, EmptySeq DEF Item
  <1>3. s[1] \in Line
    BY <1>2
  <1>4. /\ Len(s \o u) = Len(s) + Len(u)
        /\ \A i \in 1 .. Len(s) + Len(u) :
               (s \o u)[i] = IF i <= Len(s) THEN s[i] ELSE u[i - Len(s)]
    BY <1>2, ConcatProperties
  <1>5. s[1].k = "pub" => Len(s) >= 2 /\ s[2].k = "text"
    <2>1. SUFFICES ASSUME s[1].k = "pub" PROVE Len(s) >= 2 /\ s[2].k = "text"
      OBVIOUS
    <2>2. Len(s) >= 2 /\ s[2] \in Line
      BY <1>1, <1>2, <2>1
    <2>3. Fits(s[1], s[2])
      BY <1>2, <1>4, <2>2 DEF WellFramed
    <2>. QED
      BY <2>1, <2>2, <2>3 DEF Fits, Line, CommandLine, ContentLine, BadLine
  <1>6. s[1].k = "pub" => s[2].x \in Contents
    BY <1>2, <1>5, ItemKinds
  <1>7. Rest(s) = SubSeq(s, d + 1, Len(s))
    BY DEF Rest
  <1>8. s[d].k # "pub"
    BY <1>1, <1>5
  <1>9. d \in 1 .. Len(s) /\ \A i \in d + 1 .. Len(s) : s[i] \in Line
    BY <1>1, <1>2
  <1> HIDE DEF d
  <1>10. /\ Rest(s) \in Seq(Line) /\ Len(Rest(s)) = Len(s) - d
         /\ \A i \in 1 .. Len(s) - d : Rest(s)[i] = s[d + i]
    <2>1. /\ SubSeq(s, d + 1, Len(s)) \in Seq(Line)
          /\ Len(SubSeq(s, d + 1, Len(s))) =
                 IF d + 1 <= Len(s) THEN Len(s) - (d + 1) + 1 ELSE 0
          /\ \A i \in 1 .. Len(s) - (d + 1) + 1 :
                 SubSeq(s, d + 1, Len(s))[i] = s[(d + 1) + i - 1]
      BY <1>2, <1>9, SubSeqProperties
    <2>2. /\ Rest(s) \in Seq(Line)
          /\ Len(Rest(s)) = IF d + 1 <= Len(s) THEN Len(s) - (d + 1) + 1 ELSE 0
          /\ \A i \in 1 .. Len(s) - (d + 1) + 1 : Rest(s)[i] = s[(d + 1) + i - 1]
      BY <1>7, <2>1
    <2>. QED
      BY <1>2, <1>9, <2>2
  <1> DEFINE r == Rest(s)
             S == s \o u
             R == r \o u
  <1> HIDE DEF r
  <1>11. /\ r \in Seq(Item) /\ Len(r) = Len(s) - d
         /\ \A i \in 1 .. Len(s) - d : r[i] = s[d + i]
    BY <1>10 DEF r, Item
  <1>12. /\ R \in Seq(Item) /\ Len(R) = Len(r) + Len(u)
         /\ \A i \in 1 .. Len(r) + Len(u) :
                R[i] = IF i <= Len(r) THEN r[i] ELSE u[i - Len(r)]
    BY <1>11, ConcatProperties
  <1>13. S \in Seq(Item) /\ WellFramed(S)
    BY <1>2, ConcatProperties
  <1>14. /\ Len(S) = Len(s) + Len(u)
         /\ \A i \in 1 .. Len(s) + Len(u) :
               S[i] = IF i <= Len(s) THEN s[i] ELSE u[i - Len(s)]
    BY <1>4
  <1> HIDE DEF S, R
  <1>15. Len(R) = Len(S) - d /\ d \in 1 .. Len(S) /\ S[d].k # "pub"
    BY <1>2, <1>8, <1>9, <1>11, <1>12, <1>14
  <1>16. \A i \in 1 .. Len(R) : R[i] = S[d + i]
    <2>1. ASSUME NEW i \in 1 .. Len(R)
          PROVE  R[i] = S[d + i]
      <3>1. CASE i <= Len(r)
        <4>1. i \in 1 .. Len(s) - d /\ d + i \in 1 .. Len(s)
          BY <1>2, <1>9, <1>11, <3>1
        <4>2. R[i] = r[i] /\ r[i] = s[d + i]
          BY <1>2, <1>9, <1>11, <1>12, <3>1, <4>1
        <4>3. S[d + i] = s[d + i]
          BY <1>2, <1>14, <4>1
        <4>. QED
          BY <4>2, <4>3
      <3>2. CASE i > Len(r)
        <4>1. R[i] = u[i - Len(r)] /\ S[d + i] = u[d + i - Len(s)]
          BY <1>2, <1>9, <1>11, <1>12, <1>14, <3>2
        <4>2. i - Len(r) = d + i - Len(s)
          BY <1>2, <1>9, <1>11
        <4>. QED
          BY <4>1, <4>2
      <3>. QED
        BY <1>2, <1>9, <1>11, <3>1, <3>2
    <2>. QED
      BY <2>1
  <1>17. /\ WellFramed(R)
         /\ EndsWhole(S) => EndsWhole(R)
         /\ NoBadLine(S) => NoBadLine(R)
    BY <1>12, <1>13, <1>15, <1>16, SuffixIsFramed
  <1>. QED
    BY <1>1, <1>3, <1>5, <1>6, <1>10, <1>17 DEF S, R, r

-----------------------------------------------------------------------------
(* Parts of a step.                                                         *)

Out == Message \cup {Fin}

LEMMA SendType ==
    ASSUME TypeOK, NEW cs, NEW m \in Out, Send(cs, m)
    PROVE  down' \in [Clients -> Seq(Out)]
  BY DEF TypeOK, Send, Out

LEMMA CutType ==
    ASSUME NEW A, Fin \in A, NEW s \in Seq(A), NEW v \in Cuts(s)
    PROVE  v \in Seq(A)
  <1>1. PICK n \in 0 .. DataLen(s) : v = Append(SubSeq(s, 1, n), Fin)
    BY DEF Cuts
  <1>2. n \in 0 .. Len(s)
    BY DEF DataLen
  <1>3. SubSeq(s, 1, n) \in Seq(A)
    BY <1>2, SubSeqProperties, \A i \in 1 .. n : s[i] \in A
  <1>. QED
    BY <1>1, <1>3

\* A step that touches the stream of c alone need only be looked at there.
LEMMA FramingAtOne ==
    ASSUME Framing, NEW c \in Clients,
           \A d \in Clients \ {c} : /\ buf'[d] = buf[d] /\ up'[d] = up[d]
                                    /\ cli'[d] = cli[d] /\ bad'[d] = bad[d],
           FramedAt(c)'
    PROVE  Framing'
  BY DEF Framing, FramedAt, Stream

\* A write of whole lines by a client.
LEMMA WriteStep ==
    ASSUME IInv, NEW c \in Clients, NEW w \in Seq(Line), w # << >>,
           WellFramed(w), EndsWhole(w), Write(c, w),
           cb' \in [Clients -> BOOLEAN], bad' \in [Clients -> BOOLEAN],
           \A d \in Clients : bad[d] => bad'[d],
           \A d \in Clients \ {c} : bad'[d] = bad[d],
           bad'[c] \/ NoBadLine(w)
    PROVE  IInv'
  <1> USE DEF IInv
  <1>1. buf[c] \in Seq(Line) /\ up[c] \in Seq(Item) /\ w \in Seq(Item)
    BY DEF TypeOK, Item
  <1>2. /\ up' = [up EXCEPT ![c] = @ \o w] /\ cli[c] = "up"
        /\ UNCHANGED << cli, rcvd, conn, buf, busy, subs, audience, content, log, since, down >>
        /\ sends' = [sends EXCEPT ![c] = @ + 1] /\ sends[c] < MaxSends
    BY DEF Write, hubVars, histVars
  <1>3. up'[c] = up[c] \o w /\ up[c] \o w \in Seq(Item)
    <2>1. DOMAIN up = Clients
      BY DEF TypeOK
    <2>2. PICK u \in Seq(Item) : u = up[c]
      BY <1>1
    <2>3. u \o w \in Seq(Item)
      BY <1>1
    <2>. QED
      BY <1>2, <2>1, <2>2, <2>3
  <1>4. TypeOK'
    <2>1. up' \in [Clients -> Seq(Line \cup {Fin})]
      BY <1>2, <1>3 DEF TypeOK, Item
    <2>2. sends' \in [Clients -> 0 .. MaxSends]
      <3>1. sends[c] + 1 \in 0 .. MaxSends
        BY <1>2, HubAssumption DEF TypeOK
      <3>. QED
        BY <1>2, <3>1 DEF TypeOK
    <2>. QED
      BY <1>2, <2>1, <2>2 DEF TypeOK
  <1>5. Framing'
    <2>1. Stream(c)' = Stream(c) \o w
      <3>1. buf[c] \in Seq(Item)
        BY <1>1 DEF Item
      <3>2. (buf[c] \o up[c]) \o w = buf[c] \o (up[c] \o w)
        BY <1>1, <3>1, ItemsAssociate
      <3>3. Stream(c)' = buf[c] \o (up[c] \o w)
        BY <1>2, <1>3 DEF Stream
      <3>. QED
        BY <3>2, <3>3 DEF Stream
    <2>2. Stream(c) \in Seq(Item) /\ WellFramed(Stream(c)) /\ EndsWhole(Stream(c))
      <3>1. buf[c] \in Seq(Item)
        BY <1>1 DEF Item
      <3>. QED
        BY <1>1, <1>2, <3>1, ConcatProperties DEF Framing, FramedAt, Stream
    <2>3. /\ WellFramed(Stream(c) \o w) /\ EndsWhole(Stream(c) \o w)
          /\ NoBadLine(Stream(c)) /\ NoBadLine(w) => NoBadLine(Stream(c) \o w)
      BY <2>2, WriteKeepsFraming
    <2>4. ~bad[c] => NoBadLine(Stream(c))
      BY DEF Framing, FramedAt
    <2>5. FramedAt(c)'
      <3>1. ~bad'[c] => NoBadLine(Stream(c) \o w)
        BY <2>3, <2>4
      <3>. QED
        BY <2>1, <2>3, <3>1 DEF FramedAt
    <2>. QED
      BY <1>1, <1>2, <2>5, FramingAtOne DEF TypeOK
  <1>6. BusyIsLive' /\ AudienceIsContext' /\ NoDeadAudience' /\ OnlyBadRejected'
    BY <1>2 DEF BusyIsLive, AudienceIsContext, NoDeadAudience, OnlyBadRejected
  <1>. QED
    BY <1>4, <1>5, <1>6

\* A client's end that closes: what is on its way to the hub may be cut.
LEMMA ClosingStep ==
    ASSUME IInv, NEW c \in Clients,
           cli' = [cli EXCEPT ![c] = "closed"],
           down' = [down EXCEPT ![c] = << >>],
           \/ UNCHANGED up
           \/ \E s \in Cuts(up[c]) : up' = [up EXCEPT ![c] = s],
           UNCHANGED << cb, sends, rcvd, bad, hubVars, histVars >>
    PROVE  IInv'
  <1> USE DEF IInv
  <1>1. UNCHANGED << cb, sends, rcvd, bad, conn, buf, busy, subs, audience, content, log, since >>
    BY DEF hubVars, histVars
  <1>2. buf[c] \in Seq(Line) /\ up[c] \in Seq(Item) /\ FramedAt(c)
    BY DEF TypeOK, Item, Framing
  <1>3. /\ up'[c] \in Seq(Item) /\ (\A d \in Clients \ {c} : up'[d] = up[d])
        /\ up' \in [Clients -> Seq(Item)]
        /\ WellFramed(buf[c] \o up'[c])
        /\ NoBadLine(buf[c] \o up[c]) => NoBadLine(buf[c] \o up'[c])
    <2>1. CASE UNCHANGED up
      BY <1>2, <2>1 DEF TypeOK, Item, FramedAt, Stream
    <2>2. CASE \E s \in Cuts(up[c]) : up' = [up EXCEPT ![c] = s]
      <3>1. PICK s \in Cuts(up[c]) : up' = [up EXCEPT ![c] = s]
        BY <2>2
      <3>2. /\ s \in Seq(Item) /\ WellFramed(buf[c] \o s)
            /\ NoBadLine(buf[c] \o up[c]) => NoBadLine(buf[c] \o s)
        BY <1>2, CutKeepsFraming DEF FramedAt, Stream
      <3>3. up'[c] = s
        BY <3>1 DEF TypeOK
      <3>. QED
        BY <3>1, <3>2, <3>3 DEF TypeOK, Item
    <2>. QED
      BY <2>1, <2>2
  <1>4. TypeOK'
    <2>1. cli' \in [Clients -> {"init", "up", "stopping", "closed"}]
      BY DEF TypeOK
    <2>2. down' \in [Clients -> Seq(Message \cup {Fin})]
      BY DEF TypeOK
    <2>. QED
      BY <1>1, <1>3, <2>1, <2>2 DEF TypeOK, Item
  <1>5. cli'[c] = "closed" /\ \A d \in Clients \ {c} : cli'[d] = cli[d]
    BY DEF TypeOK
  <1>6. FramedAt(c)'
    BY <1>1, <1>2, <1>3, <1>5 DEF FramedAt, Stream
  <1>7. Framing'
    BY <1>1, <1>3, <1>5, <1>6, FramingAtOne
  <1>8. BusyIsLive' /\ AudienceIsContext' /\ NoDeadAudience' /\ OnlyBadRejected'
    BY <1>1 DEF BusyIsLive, AudienceIsContext, NoDeadAudience, OnlyBadRejected
  <1>. QED
    BY <1>4, <1>7, <1>8

-----------------------------------------------------------------------------
(* The invariant is inductive.                                              *)

LEMMA InitIInv == Init => IInv
  <1> SUFFICES ASSUME Init PROVE IInv
    OBVIOUS
  <1>1. TypeOK
    BY HubAssumption DEF Init, TypeOK
  <1>2. Framing
    <2> SUFFICES ASSUME NEW c \in Clients PROVE FramedAt(c)
      BY DEF Framing
    <2>1. Stream(c) = << >>
      BY DEF Init, Stream
    <2>. QED
      BY <2>1 DEF FramedAt, WellFramed, EndsWhole, NoBadLine
  <1>3. BusyIsLive /\ AudienceIsContext /\ NoDeadAudience /\ OnlyBadRejected
    BY DEF Init, BusyIsLive, AudienceIsContext, NoDeadAudience, OnlyBadRejected
  <1>. QED
    BY <1>1, <1>2, <1>3 DEF IInv

\* The clients' steps. They write nothing but the stream that leaves them and
\* their own state, and they read nothing of the hub but its messages.
LEMMA ClientStepIInv ==
    ASSUME IInv, NEW c \in Clients, ClientStep(c)
    PROVE  IInv'
  <1> USE DEF IInv
  <1>1. CASE Connect(c)
    <2>1. UNCHANGED << cb, sends, rcvd, bad, conn, buf, busy, subs, audience, content,
                       log, since, up, down >>
      BY <1>1 DEF Connect, hubVars, histVars
    <2>2. TypeOK' /\ cli[c] = "init" /\ \A d \in Clients \ {c} : cli'[d] = cli[d]
      BY <1>1, <2>1 DEF TypeOK, Connect
    <2>3. FramedAt(c)'
      BY <2>1, <2>2 DEF Framing, FramedAt, Stream
    <2>4. Framing'
      BY <2>1, <2>2, <2>3, FramingAtOne
    <2>. QED
      BY <2>1, <2>2, <2>4
         DEF BusyIsLive, AudienceIsContext, NoDeadAudience, OnlyBadRejected
  <1>2. ASSUME NEW t \in Topics, Subscribe(c, t) \/ Unsubscribe(c, t)
        PROVE  IInv'
    <2>1. PICK r \in Request : Write(c, Encode(r)) /\ UNCHANGED bad
                               /\ cb' \in [Clients -> BOOLEAN]
      BY <1>2 DEF Subscribe, Unsubscribe, Request, TypeOK
    <2>2. /\ Encode(r) \in Seq(Line) /\ Encode(r) # << >>
          /\ WellFramed(Encode(r)) /\ EndsWhole(Encode(r)) /\ NoBadLine(Encode(r))
      BY EncodeIsWhole
    <2>3. bad' \in [Clients -> BOOLEAN]
      BY <2>1 DEF TypeOK
    <2>. QED
      BY <2>1, <2>2, <2>3, WriteStep
  <1>3. ASSUME NEW t \in Topics, NEW x \in Contents, Publish(c, t, x)
        PROVE  IInv'
    <2>1. PICK r \in Request : Write(c, Encode(r)) /\ UNCHANGED << cb, bad >>
      BY <1>3 DEF Publish, Request
    <2>2. /\ Encode(r) \in Seq(Line) /\ Encode(r) # << >>
          /\ WellFramed(Encode(r)) /\ EndsWhole(Encode(r)) /\ NoBadLine(Encode(r))
      BY EncodeIsWhole
    <2>3. bad' \in [Clients -> BOOLEAN] /\ cb' \in [Clients -> BOOLEAN]
      BY <2>1 DEF TypeOK
    <2>. QED
      BY <2>1, <2>2, <2>3, WriteStep
  <1>4. ASSUME NEW l \in BadLine, WriteBad(c, l)
        PROVE  IInv'
    <2>1. /\ << l >> \in Seq(Line) /\ << l >> # << >>
          /\ WellFramed(<< l >>) /\ EndsWhole(<< l >>)
      BY BadLineIsWhole
    <2>2. /\ bad' \in [Clients -> BOOLEAN] /\ bad'[c]
          /\ \A d \in Clients \ {c} : bad'[d] = bad[d]
      BY <1>4 DEF TypeOK, WriteBad
    <2>3. \A d \in Clients : bad[d] => bad'[d]
      BY <2>2
    <2>4. Write(c, << l >>) /\ cb' \in [Clients -> BOOLEAN]
      BY <1>4 DEF TypeOK, WriteBad
    <2>. QED
      BY <2>1, <2>2, <2>3, <2>4, WriteStep
  <1>5. CASE Stop(c)
    <2>1. UNCHANGED << cb, sends, rcvd, bad, conn, buf, busy, subs, audience, content,
                       log, since, down >>
      BY <1>5 DEF Stop, hubVars, histVars
    <2>2. /\ buf[c] \in Seq(Line) /\ up[c] \in Seq(Item)
          /\ WellFramed(buf[c] \o up[c]) /\ EndsWhole(buf[c] \o up[c])
      BY <1>5 DEF TypeOK, Item, Framing, FramedAt, Stream, Stop
    <2>3. Append(up[c], Fin) \in Cuts(up[c])
      <3>1. DataLen(up[c]) = Len(up[c])
        <4>1. SUFFICES ASSUME up[c] # << >> PROVE up[c][Len(up[c])] # Fin
          BY DEF DataLen
        <4>2. buf[c] \in Seq(Item)
          BY <2>2 DEF Item
        <4>3. /\ buf[c] \o up[c] # << >>
              /\ (buf[c] \o up[c])[Len(buf[c] \o up[c])] = up[c][Len(up[c])]
          BY <2>2, <4>1, <4>2, LastOfConcat
        <4>4. up[c][Len(up[c])].k # "fin"
          BY <2>2, <4>3 DEF EndsWhole
        <4>. QED
          BY <4>4 DEF Fin
      <3>2. SubSeq(up[c], 1, Len(up[c])) = up[c]
        BY <2>2, SubSeqFull
      <3>3. Len(up[c]) \in 0 .. DataLen(up[c])
        BY <2>2, <3>1
      <3>. QED
        BY <3>2, <3>3 DEF Cuts
    <2>4. /\ Append(up[c], Fin) \in Seq(Item)
          /\ WellFramed(buf[c] \o Append(up[c], Fin))
          /\ NoBadLine(buf[c] \o up[c]) => NoBadLine(buf[c] \o Append(up[c], Fin))
      BY <2>2, <2>3, CutKeepsFraming
    <2>5. /\ up'[c] = Append(up[c], Fin) /\ cli'[c] = "stopping"
          /\ \A d \in Clients \ {c} : up'[d] = up[d] /\ cli'[d] = cli[d]
      BY <1>5 DEF TypeOK, Stop
    <2>6. TypeOK'
      <3>1. up' \in [Clients -> Seq(Line \cup {Fin})]
        BY <1>5, <2>4 DEF TypeOK, Stop, Item
      <3>2. cli' \in [Clients -> {"init", "up", "stopping", "closed"}]
        BY <1>5 DEF TypeOK, Stop
      <3>. QED
        BY <2>1, <3>1, <3>2 DEF TypeOK
    <2>7. FramedAt(c)'
      BY <2>1, <2>4, <2>5 DEF Framing, FramedAt, Stream
    <2>8. Framing'
      BY <2>1, <2>5, <2>7, FramingAtOne
    <2>. QED
      BY <2>1, <2>6, <2>8
         DEF BusyIsLive, AudienceIsContext, NoDeadAudience, OnlyBadRejected
  <1>6. CASE OnMessageClient(c)
    <2>1. UNCHANGED << cli, cb, sends, bad, conn, buf, busy, subs, audience, content,
                       log, since, up >>
      BY <1>6 DEF OnMessageClient, hubVars, histVars
    <2>2. down[c] \in Seq(Out) /\ down[c] # << >> /\ Head(down[c]) # Fin
      BY <1>6 DEF OnMessageClient, TypeOK, Out
    <2>3. Head(down[c]) \in Message /\ Tail(down[c]) \in Seq(Out)
      BY <2>2, HeadTailProperties DEF Out
    <2>4. TypeOK'
      <3>1. down' \in [Clients -> Seq(Message \cup {Fin})]
        BY <1>6, <2>3 DEF OnMessageClient, TypeOK, Out
      <3>2. rcvd' \in [Clients -> Seq(Message)]
        <4>1. Append(rcvd[c], Head(down[c])) \in Seq(Message) /\ rcvd[c] \in Seq(Message)
          BY <2>3 DEF TypeOK
        <4>. QED
          BY <1>6, <4>1 DEF OnMessageClient, TypeOK
      <3>. QED
        BY <2>1, <3>1, <3>2 DEF TypeOK
    <2>. QED
      BY <2>1, <2>4 DEF Framing, FramedAt, Stream,
             BusyIsLive, AudienceIsContext, NoDeadAudience, OnlyBadRejected
  <1>7. CASE OnCloseClient(c)
    BY <1>7, ClosingStep DEF OnCloseClient
  <1>8. CASE Crash(c)
    BY <1>8, ClosingStep DEF Crash
  <1>. QED
    BY <1>1, <1>2, <1>3, <1>4, <1>5, <1>6, <1>7, <1>8 DEF ClientStep

\* The hub's steps that parse and execute a request: what is common to them.
LEMMA RequestStep ==
    ASSUME IInv, NEW c \in Clients, ParseResult(buf[c]) = "kSuccess",
           buf' = [buf EXCEPT ![c] = Rest(@)],
           UNCHANGED << up, cli, bad >>
    PROVE  Framing' /\ buf' \in [Clients -> Seq(Line)]
  <1> USE DEF IInv
  <1>1. buf[c] \in Seq(Line) /\ up[c] \in Seq(Item) /\ FramedAt(c)
    BY DEF TypeOK, Item, Framing
  <1>2. /\ Rest(buf[c]) \in Seq(Line)
        /\ WellFramed(Rest(buf[c]) \o up[c])
        /\ EndsWhole(buf[c] \o up[c]) => EndsWhole(Rest(buf[c]) \o up[c])
        /\ NoBadLine(buf[c] \o up[c]) => NoBadLine(Rest(buf[c]) \o up[c])
    BY <1>1, ParseKeepsFraming DEF FramedAt, Stream
  <1>3. buf'[c] = Rest(buf[c]) /\ \A d \in Clients \ {c} : buf'[d] = buf[d]
    BY DEF TypeOK
  <1>4. FramedAt(c)'
    BY <1>1, <1>2, <1>3 DEF FramedAt, Stream
  <1>5. Framing'
    BY <1>3, <1>4, FramingAtOne
  <1>. QED
    BY <1>2, <1>5 DEF TypeOK

\* What the parser finds at the head of a stream.
LEMMA RequestParts ==
    ASSUME IInv, NEW c \in Clients, ParseResult(buf[c]) = "kSuccess"
    PROVE  /\ buf[c] # << >> /\ buf[c][1] \in Line
           /\ buf[c][1].k \in {"sub", "unsub", "pub"} => buf[c][1].t \in Topics
           /\ buf[c][1].k = "pub" => buf[c][2].x \in Contents
  <1>1. buf[c] \in Seq(Line) /\ up[c] \in Seq(Item) /\ WellFramed(buf[c] \o up[c])
    BY DEF IInv, TypeOK, Item, Framing, FramedAt, Stream
  <1>2. /\ buf[c] # << >> /\ buf[c][1] \in Line
        /\ buf[c][1].k = "pub" => buf[c][2].x \in Contents
    BY <1>1, ParseKeepsFraming
  <1>3. buf[c][1] \in Item
    BY <1>2 DEF Item
  <1>. QED
    BY <1>2, <1>3, ItemKinds

\* An error is only ever found in a bad line: the parser that says kError has
\* met a line without a space, and a content line is never where a command
\* belongs.
LEMMA ErrorIsBad ==
    ASSUME IInv, NEW c \in Clients,
           \/ ParseResult(buf[c]) = "kError"
           \/ ParseResult(buf[c]) = "kSuccess" /\ buf[c][1].k = "unknown"
    PROVE  bad[c]
  <1>1. buf[c] \in Seq(Line) /\ buf[c] \in Seq(Item) /\ up[c] \in Seq(Item) /\ FramedAt(c)
    BY DEF IInv, TypeOK, Item, Framing
  <1>2. buf[c] # << >>
    <2>1. buf[c] = << >> => ParseResult(buf[c]) = "kContinue"
      BY DEF ParseResult, NeedsMore, Malformed
    <2>. QED
      BY <2>1
  <1>3. Stream(c) # << >> /\ Stream(c)[1] = buf[c][1] /\ Len(Stream(c)) >= 1
    BY <1>2, <1>1, HeadOfConcat DEF Stream
  <1>4. buf[c][1].k \in {"unknown", "nospace", "text"}
    BY DEF ParseResult, Malformed
  <1>5. buf[c][1].k # "text"
    BY <1>1, <1>3 DEF FramedAt, WellFramed
  <1>6. 1 \in 1 .. Len(Stream(c))
    <2>1. Stream(c) \in Seq(Item)
      BY <1>1, ConcatProperties DEF Stream
    <2>2. Len(Stream(c)) \in Nat
      BY <2>1
    <2>. QED
      BY <1>3, <2>2
  <1>7. ~NoBadLine(Stream(c))
    BY <1>3, <1>4, <1>5, <1>6 DEF NoBadLine
  <1>. QED
    BY <1>1, <1>7 DEF FramedAt

\* The hub's steps.
LEMMA HubStepIInv ==
    ASSUME IInv, NEW c \in Clients, HubStep(c)
    PROVE  IInv'
  <1> USE DEF IInv
  <1>1. CASE OnConnected(c)
    <2>1. UNCHANGED << cli, cb, sends, rcvd, bad, buf, busy, audience, content,
                       log, since, up, down >>
      BY <1>1 DEF OnConnected, clientVars, histVars
    <2>2. /\ busy = NoOne /\ conn[c] = "idle" /\ conn'[c] = "up"
          /\ conn' = [conn EXCEPT ![c] = "up"] /\ subs' = [subs EXCEPT ![c] = {}]
      BY <1>1 DEF OnConnected, TypeOK
    <2>3. TypeOK'
      BY <2>1, <2>2 DEF TypeOK
    <2>4. Framing'
      BY <2>1 DEF Framing, FramedAt, Stream
    <2>5. \A t \in Topics : c \notin audience[t]
      BY <2>2 DEF NoDeadAudience
    <2>6. AudienceIsContext'
      BY <2>1, <2>2, <2>5 DEF AudienceIsContext, TypeOK
    <2>7. BusyIsLive' /\ NoDeadAudience' /\ OnlyBadRejected'
      BY <2>1, <2>2 DEF BusyIsLive, NoDeadAudience, OnlyBadRejected, TypeOK
    <2>. QED
      BY <2>3, <2>4, <2>6, <2>7
  <1>2. CASE OnMessage(c)
    <2>1. UNCHANGED << cli, cb, sends, rcvd, bad, conn, subs, audience, content,
                       log, since, down >>
      BY <1>2 DEF OnMessage, clientVars, histVars
    <2>2. PICK n \in 1 .. DataLen(up[c]) :
              /\ buf' = [buf EXCEPT ![c] = buf[c] \o SubSeq(up[c], 1, n)]
              /\ up' = [up EXCEPT ![c] = SubSeq(@, n + 1, Len(@))]
      BY <1>2 DEF OnMessage, Buffered
    <2>3. buf[c] \in Seq(Line) /\ up[c] \in Seq(Item) /\ FramedAt(c)
      BY DEF TypeOK, Item, Framing
    <2>4. /\ buf[c] \o SubSeq(up[c], 1, n) \in Seq(Line)
          /\ SubSeq(up[c], n + 1, Len(up[c])) \in Seq(Item)
          /\ (buf[c] \o SubSeq(up[c], 1, n)) \o SubSeq(up[c], n + 1, Len(up[c]))
                 = buf[c] \o up[c]
      BY <2>3, ReadKeepsStream DEF FramedAt, Stream
    <2>5. /\ buf'[c] = buf[c] \o SubSeq(up[c], 1, n)
          /\ up'[c] = SubSeq(up[c], n + 1, Len(up[c]))
          /\ \A d \in Clients \ {c} : buf'[d] = buf[d] /\ up'[d] = up[d]
      BY <2>2 DEF TypeOK
    <2>6. busy' = c /\ conn[c] \in {"up", "closing"}
      BY <1>2 DEF OnMessage
    <2>7. TypeOK'
      <3>1. buf' \in [Clients -> Seq(Line)] /\ up' \in [Clients -> Seq(Line \cup {Fin})]
        BY <2>2, <2>4 DEF TypeOK, Item
      <3>. QED
        BY <2>1, <2>6, <3>1 DEF TypeOK
    <2>8. Stream(c)' = Stream(c)
      BY <2>4, <2>5 DEF Stream
    <2>9. FramedAt(c)'
      BY <2>1, <2>3, <2>8 DEF FramedAt
    <2>10. Framing'
      BY <2>1, <2>5, <2>9, FramingAtOne
    <2>. QED
      BY <2>1, <2>6, <2>7, <2>10
         DEF BusyIsLive, AudienceIsContext, NoDeadAudience, OnlyBadRejected
  <1>3. CASE ParseContinue(c)
    <2>1. busy' = NoOne /\ UNCHANGED << cli, cb, sends, rcvd, bad, conn, buf, subs,
                                        audience, content, log, since, up, down >>
      BY <1>3 DEF ParseContinue, clientVars, histVars
    <2>2. TypeOK'
      BY <2>1 DEF TypeOK
    <2>. QED
      BY <2>1, <2>2 DEF Framing, FramedAt, Stream, BusyIsLive, AudienceIsContext,
                        NoDeadAudience, OnlyBadRejected
  <1>4. CASE ParseError(c)
    <2>1. UNCHANGED << cli, cb, sends, rcvd, bad, subs, audience, content, log, since, up >>
      BY <1>4 DEF ParseError, clientVars, histVars
    <2>2. bad[c]
      BY <1>4, ErrorIsBad DEF ParseError
    <2>3. Framing' /\ buf' \in [Clients -> Seq(Line)]
      <3>1. CASE UNCHANGED buf
        BY <2>1, <3>1 DEF TypeOK, Framing, FramedAt, Stream
      <3>2. CASE ParseResult(buf[c]) = "kSuccess" /\ buf' = [buf EXCEPT ![c] = Rest(@)]
        BY <2>1, <3>2, RequestStep
      <3>. QED
        BY <1>4, <3>1, <3>2 DEF ParseError
    <2>4. /\ busy' = NoOne
          /\ conn' = [conn EXCEPT ![c] = IF @ = "up" THEN "closing" ELSE @]
          /\ Send({c}, Fin)
      BY <1>4 DEF ParseError, Shutdown
    <2>5. TypeOK'
      <3>1. down' \in [Clients -> Seq(Message \cup {Fin})]
        BY <2>4, SendType DEF Out
      <3>2. conn' \in [Clients -> {"idle", "up", "closing", "gone"}]
        BY <2>4 DEF TypeOK
      <3>. QED
        BY <2>1, <2>3, <2>4, <3>1, <3>2 DEF TypeOK
    <2>6. \A d \in Clients : conn'[d] \in {"up", "closing"} <=> conn[d] \in {"up", "closing"}
      BY <2>4 DEF TypeOK
    <2>7. BusyIsLive' /\ AudienceIsContext'
      BY <2>1, <2>4 DEF BusyIsLive, AudienceIsContext
    <2>8. NoDeadAudience'
      BY <2>1, <2>6 DEF NoDeadAudience, TypeOK
    <2>9. OnlyBadRejected'
      BY <2>1, <2>2, <2>4 DEF OnlyBadRejected, TypeOK
    <2>. QED
      BY <2>3, <2>5, <2>7, <2>8, <2>9
  <1>5. CASE DoSubscribe(c)
    <2> DEFINE t == buf[c][1].t
    <2>1. UNCHANGED << cli, cb, sends, rcvd, bad, conn, busy, content, log, up >>
      BY <1>5 DEF DoSubscribe, clientVars
    <2>2. busy = c /\ ParseResult(buf[c]) = "kSuccess" /\ buf[c][1].k = "sub"
          /\ buf' = [buf EXCEPT ![c] = Rest(@)]
      BY <1>5 DEF DoSubscribe, Parsed
    <2>3. t \in Topics
      BY <2>2, RequestParts
    <2> HIDE DEF t
    <2>4. /\ subs' = [subs EXCEPT ![c] = @ \cup {t}]
          /\ audience' = [audience EXCEPT ![t] = @ \cup {c}]
          /\ SendRetained(c, t)
          /\ since' = [since EXCEPT ![c][t] = IF log[t] = << >> THEN 1 ELSE Len(log[t])]
      BY <1>5 DEF DoSubscribe, t
    <2>5. Framing' /\ buf' \in [Clients -> Seq(Line)]
      BY <2>1, <2>2, RequestStep
    <2>6. TypeOK'
      <3>1. down' \in [Clients -> Seq(Message \cup {Fin})]
        <4>1. CASE content[t] # Never
          <5>1. [t |-> t, x |-> content[t]] \in Out
            BY <2>3, <4>1 DEF TypeOK, Out, Message
          <5>2. Send({c}, [t |-> t, x |-> content[t]])
            BY <2>4, <4>1 DEF SendRetained
          <5>. QED
            BY <5>1, <5>2, SendType DEF Out
        <4>2. CASE content[t] = Never
          BY <2>4, <4>2 DEF SendRetained, TypeOK
        <4>. QED
          BY <4>1, <4>2
      <3>2. since' \in [Clients -> [Topics -> Nat]]
        <4>1. (IF log[t] = << >> THEN 1 ELSE Len(log[t])) \in Nat
          BY <2>3 DEF TypeOK
        <4>. QED
          BY <2>3, <2>4, <4>1 DEF TypeOK
      <3>3. /\ subs' \in [Clients -> SUBSET Topics]
            /\ audience' \in [Topics -> SUBSET Clients]
        BY <2>3, <2>4 DEF TypeOK
      <3>. QED
        BY <2>1, <2>5, <3>1, <3>2, <3>3 DEF TypeOK
    <2>7. AudienceIsContext'
      BY <2>3, <2>4 DEF AudienceIsContext, TypeOK
    <2>8. conn[c] \in {"up", "closing"}
      BY <2>2, HubAssumption DEF BusyIsLive
    <2>9. NoDeadAudience'
      BY <2>1, <2>3, <2>4, <2>8 DEF NoDeadAudience, TypeOK
    <2>10. BusyIsLive' /\ OnlyBadRejected'
      BY <2>1 DEF BusyIsLive, OnlyBadRejected
    <2>. QED
      BY <2>5, <2>6, <2>7, <2>9, <2>10
  <1>6. CASE DoUnsubscribe(c)
    <2> DEFINE t == buf[c][1].t
    <2>1. UNCHANGED << cli, cb, sends, rcvd, bad, conn, busy, content, log, since, up, down >>
      BY <1>6 DEF DoUnsubscribe, clientVars, histVars
    <2>2. ParseResult(buf[c]) = "kSuccess" /\ buf[c][1].k = "unsub"
          /\ buf' = [buf EXCEPT ![c] = Rest(@)]
      BY <1>6 DEF DoUnsubscribe, Parsed
    <2>3. t \in Topics
      BY <2>2, RequestParts
    <2> HIDE DEF t
    <2>4. /\ subs' = [subs EXCEPT ![c] = subs[c] \ {t}]
          /\ audience' = [audience EXCEPT ![t] = @ \ {c}]
      BY <1>6 DEF DoUnsubscribe, ContextWithout, t
    <2>5. Framing' /\ buf' \in [Clients -> Seq(Line)]
      BY <2>1, <2>2, RequestStep
    <2>6. TypeOK'
      <3>1. /\ subs' \in [Clients -> SUBSET Topics]
            /\ audience' \in [Topics -> SUBSET Clients]
        BY <2>3, <2>4 DEF TypeOK
      <3>. QED
        BY <2>1, <2>5, <3>1 DEF TypeOK
    <2>7. AudienceIsContext'
      BY <2>3, <2>4 DEF AudienceIsContext, TypeOK
    <2>8. NoDeadAudience'
      BY <2>1, <2>3, <2>4 DEF NoDeadAudience, TypeOK
    <2>9. BusyIsLive' /\ OnlyBadRejected'
      BY <2>1 DEF BusyIsLive, OnlyBadRejected
    <2>. QED
      BY <2>5, <2>6, <2>7, <2>8, <2>9
  <1>7. CASE DoPublish(c)
    <2> DEFINE t == buf[c][1].t
               x == buf[c][2].x
    <2>1. UNCHANGED << cli, cb, sends, rcvd, bad, conn, busy, subs, audience, since, up >>
      BY <1>7 DEF DoPublish, clientVars
    <2>2. ParseResult(buf[c]) = "kSuccess" /\ buf[c][1].k = "pub"
          /\ buf' = [buf EXCEPT ![c] = Rest(@)]
      BY <1>7 DEF DoPublish, Parsed
    <2>3. t \in Topics /\ x \in Contents
      BY <2>2, RequestParts
    <2> HIDE DEF t, x
    <2>4. /\ content' = [content EXCEPT ![t] = x]
          /\ Send(audience[t], [t |-> t, x |-> x])
          /\ log' = [log EXCEPT ![t] = Append(@, x)]
      BY <1>7 DEF DoPublish, t, x
    <2>5. Framing' /\ buf' \in [Clients -> Seq(Line)]
      BY <2>1, <2>2, RequestStep
    <2>6. TypeOK'
      <3>1. down' \in [Clients -> Seq(Message \cup {Fin})]
        <4>1. [t |-> t, x |-> x] \in Out
          BY <2>3 DEF Out, Message
        <4>. QED
          BY <2>4, <4>1, SendType DEF Out
      <3>2. content' \in [Topics -> Contents \cup {Never}]
        BY <2>3, <2>4 DEF TypeOK
      <3>3. log' \in [Topics -> Seq(Contents)]
        <4>1. Append(log[t], x) \in Seq(Contents)
          BY <2>3 DEF TypeOK
        <4>. QED
          BY <2>3, <2>4, <4>1 DEF TypeOK
      <3>. QED
        BY <2>1, <2>5, <3>1, <3>2, <3>3 DEF TypeOK
    <2>7. BusyIsLive' /\ AudienceIsContext' /\ NoDeadAudience' /\ OnlyBadRejected'
      BY <2>1 DEF BusyIsLive, AudienceIsContext, NoDeadAudience, OnlyBadRejected
    <2>. QED
      BY <2>5, <2>6, <2>7
  <1>8. CASE OnDisconnected(c)
    <2>1. UNCHANGED << cli, cb, sends, rcvd, bad, busy, content, log, since >>
      BY <1>8 DEF OnDisconnected, clientVars, histVars
    <2>2. /\ busy = NoOne
          /\ conn' = [conn EXCEPT ![c] = "gone"]
          /\ audience' = AudiencesWithout(c)
          /\ subs' = [subs EXCEPT ![c] = {}]
          /\ buf' = [buf EXCEPT ![c] = << >>]
          /\ up' = [up EXCEPT ![c] = << >>]
      BY <1>8 DEF OnDisconnected
    <2>3. down' \in [Clients -> Seq(Message \cup {Fin})]
      <3>1. CASE UNCHANGED down
        BY <3>1 DEF TypeOK
      <3>2. CASE \E s \in Cuts(down[c]) : down' = [down EXCEPT ![c] = s]
        <4>1. PICK s \in Cuts(down[c]) : down' = [down EXCEPT ![c] = s]
          BY <3>2
        <4>2. s \in Seq(Out)
          BY CutType DEF TypeOK, Out
        <4>. QED
          BY <4>1, <4>2 DEF TypeOK, Out
      <3>. QED
        BY <1>8, <3>1, <3>2 DEF OnDisconnected
    <2>4. audience' \in [Topics -> SUBSET Clients]
      BY <2>2 DEF AudiencesWithout, TypeOK
    <2>5. TypeOK'
      <3>1. /\ conn' \in [Clients -> {"idle", "up", "closing", "gone"}]
            /\ subs' \in [Clients -> SUBSET Topics]
            /\ buf' \in [Clients -> Seq(Line)]
            /\ up' \in [Clients -> Seq(Line \cup {Fin})]
        BY <2>2 DEF TypeOK
      <3>. QED
        BY <2>1, <2>3, <2>4, <3>1 DEF TypeOK
    <2>6. Framing'
      <3>1. Stream(c)' = << >>
        BY <2>2 DEF Stream, TypeOK
      <3>2. FramedAt(c)'
        BY <3>1 DEF FramedAt, WellFramed, EndsWhole, NoBadLine
      <3>3. \A d \in Clients \ {c} : buf'[d] = buf[d] /\ up'[d] = up[d]
        BY <2>2 DEF TypeOK
      <3>. QED
        BY <2>1, <3>2, <3>3, FramingAtOne
    <2>7. \A t \in Topics : audience'[t] = audience[t] \ {c}
      BY <2>2 DEF AudiencesWithout, AudienceIsContext, TypeOK
    <2>8. AudienceIsContext'
      BY <2>2, <2>7 DEF AudienceIsContext, TypeOK
    <2>9. NoDeadAudience'
      BY <2>2, <2>7 DEF NoDeadAudience, TypeOK
    <2>10. BusyIsLive' /\ OnlyBadRejected'
      BY <2>1, <2>2 DEF BusyIsLive, OnlyBadRejected, TypeOK
    <2>. QED
      BY <2>5, <2>6, <2>8, <2>9, <2>10
  <1>. QED
    BY <1>1, <1>2, <1>3, <1>4, <1>5, <1>6, <1>7, <1>8 DEF HubStep, OnMessageTurn

LEMMA NextIInv == IInv /\ [Next]_vars => IInv'
  <1> SUFFICES ASSUME IInv, [Next]_vars PROVE IInv'
    OBVIOUS
  <1>1. CASE Next
    BY <1>1, ClientStepIInv, HubStepIInv DEF Next
  <1>2. CASE UNCHANGED vars
    BY <1>2 DEF vars, clientVars, hubVars, histVars, IInv, TypeOK, Framing, FramedAt,
                Stream, BusyIsLive, AudienceIsContext, NoDeadAudience, OnlyBadRejected
  <1>. QED
    BY <1>1, <1>2

LEMMA IInvAlways == Spec => []IInv
  BY InitIInv, NextIInv, PTL DEF Spec

-----------------------------------------------------------------------------
(* What a subscriber is told, and what was published. The definitions below *)
(* are the strengthening that NoGap rests on.                               *)

\* The retained publication of a topic is the last one published on it.
LogsHold ==
    \A t \in Topics : content[t] = IF log[t] = << >> THEN Never ELSE log[t][Len(log[t])]

NotSub == {e \in Item : e.k # "sub"}

\* A client without a callback has asked for nothing: it has no subscription,
\* none is on its way, and nothing is sent to it but the end of the stream.
Deaf(c) ==
    /\ subs[c] = {}
    /\ down[c] \in Seq({Fin})
    /\ buf[c] \in Seq(NotSub) /\ up[c] \in Seq(NotSub)

DeafIfNoCallback == \A c \in Clients : cb[c] \/ Deaf(c)

OnTopic(t) == {m \in Message : m.t = t}

\* What the messages of s on topic t say.
TellOf(s, t) ==
    LET msgs == Keep(s, OnTopic(t))
    IN  [i \in 1 .. Len(msgs) |-> msgs[i].x]

\* u ends with s.
Ends(s, u) ==
    /\ Len(s) <= Len(u)
    /\ \A i \in 1 .. Len(s) : s[i] = u[(Len(u) - Len(s)) + i]

\* What was published on t since the subscription of c began.
Since(c, t) == SubSeq(log[t], since[c][t], Len(log[t]))

ToldSince(c, t) ==
    t \in subs[c] =>
        /\ since[c][t] \in 1 .. Len(log[t]) + 1
        /\ Listening(c) => Ends(Since(c, t), TellOf(rcvd[c] \o down[c], t))

AllToldSince == \A c \in Clients, t \in Topics : ToldSince(c, t)

NInv == LogsHold /\ DeafIfNoCallback /\ AllToldSince

LEMMA TellOfSeq ==
    ASSUME NEW s \in Seq(Out), NEW t \in Topics
    PROVE  /\ TellOf(s, t) \in Seq(Contents)
           /\ Len(TellOf(s, t)) = Len(Keep(s, OnTopic(t)))
  <1>1. PICK q : q = Keep(s, OnTopic(t))
    OBVIOUS
  <1>2. q \in Seq(Out) /\ Range(q) = Range(s) \cap OnTopic(t)
    BY <1>1, KeepProperties
  <1>3. \A i \in 1 .. Len(q) : q[i] \in OnTopic(t)
    BY <1>2 DEF Range
  <1>4. \A i \in 1 .. Len(q) : q[i].x \in Contents
    BY <1>3 DEF OnTopic, Message
  <1>5. TellOf(s, t) = [i \in 1 .. Len(q) |-> q[i].x]
    BY <1>1 DEF TellOf
  <1>6. Len(q) \in Nat
    BY <1>2
  <1>. QED
    BY <1>1, <1>4, <1>5, <1>6

\* A message more to tell.
LEMMA TellOfAppend ==
    ASSUME NEW s \in Seq(Out), NEW e \in Out, NEW t \in Topics
    PROVE  TellOf(Append(s, e), t) =
               IF e \in OnTopic(t) THEN Append(TellOf(s, t), e.x) ELSE TellOf(s, t)
  <1>1. PICK q : q = Keep(s, OnTopic(t))
    OBVIOUS
  <1>2. q \in Seq(Out)
    BY <1>1, KeepProperties
  <1>3. << e >> \in Seq(Out) /\ Append(s, e) = s \o << e >>
    BY AppendIsConcat
  <1>4. Keep(s \o << e >>, OnTopic(t)) = q \o Keep(<< e >>, OnTopic(t))
    <2>1. PICK w : w = << e >>
      OBVIOUS
    <2>2. PICK T : T = OnTopic(t)
      OBVIOUS
    <2>3. PICK A : A = Out
      OBVIOUS
    <2>4. s \in Seq(A) /\ w \in Seq(A)
      BY <1>3, <2>1, <2>3
    <2>5. Keep(s \o w, T) = Keep(s, T) \o Keep(w, T)
      BY <2>4, KeepConcat
    <2>. QED
      BY <1>1, <2>1, <2>2, <2>5
  <1>5. Keep(<< e >>, OnTopic(t)) = IF e \in OnTopic(t) THEN << e >> ELSE << >>
    BY KeepOne
  <1>6. CASE e \in OnTopic(t)
    <2>1. Keep(Append(s, e), OnTopic(t)) = Append(q, e)
      BY <1>2, <1>3, <1>4, <1>5, <1>6, AppendIsConcat
    <2>2. PICK n \in Nat : n = Len(q)
      BY <1>2
    <2>3. PICK r : r = Append(q, e)
      OBVIOUS
    <2>4. /\ r \in Seq(Out) /\ Len(r) = n + 1 /\ r[n + 1] = e
          /\ \A i \in 1 .. n : r[i] = q[i]
      BY <1>2, <2>2, <2>3, AppendProperties
    <2>5. TellOf(Append(s, e), t) = [i \in 1 .. n + 1 |-> r[i].x]
      BY <2>1, <2>3, <2>4 DEF TellOf
    <2>6. TellOf(s, t) = [i \in 1 .. n |-> q[i].x] /\ TellOf(s, t) \in Seq(Contents)
      BY <1>1, <2>2, TellOfSeq DEF TellOf
    <2>7. e.x \in Contents
      BY <1>6 DEF OnTopic, Message
    <2>8. /\ Append(TellOf(s, t), e.x) \in Seq(Contents)
          /\ Len(Append(TellOf(s, t), e.x)) = n + 1
          /\ \A i \in 1 .. n : Append(TellOf(s, t), e.x)[i] = q[i].x
          /\ Append(TellOf(s, t), e.x)[n + 1] = e.x
      <3>1. Len(TellOf(s, t)) = n /\ \A i \in 1 .. n : TellOf(s, t)[i] = q[i].x
        BY <2>2, <2>6
      <3>. QED
        BY <2>6, <2>7, <3>1, AppendProperties
    <2>9. \A i \in 1 .. n + 1 : r[i].x = Append(TellOf(s, t), e.x)[i]
      BY <2>4, <2>8
    <2>10. Append(TellOf(s, t), e.x) = [i \in 1 .. n + 1 |-> Append(TellOf(s, t), e.x)[i]]
      BY <2>8
    <2>. QED
      BY <1>6, <2>5, <2>9, <2>10
  <1>7. CASE e \notin OnTopic(t)
    <2>1. Keep(Append(s, e), OnTopic(t)) = q
      BY <1>2, <1>3, <1>4, <1>5, <1>7, ConcatEmptySeq
    <2>. QED
      BY <1>1, <1>7, <2>1 DEF TellOf
  <1>. QED
    BY <1>6, <1>7

\* Sequences that end with others.
LEMMA EndsProperties ==
    ASSUME NEW s \in Seq(Contents), NEW u \in Seq(Contents), NEW x \in Contents
    PROVE  /\ Ends(<< >>, u)
           /\ Ends(<< x >>, Append(u, x))
           /\ Ends(s, u) => Ends(Append(s, x), Append(u, x))
           /\ Ends(s, u) => IsSuffix(s, u)
  <1>1. PICK m \in Nat, n \in Nat : m = Len(s) /\ n = Len(u)
    OBVIOUS
  <1>2. PICK v : v = Append(u, x)
    OBVIOUS
  <1>3. PICK r : r = Append(s, x)
    OBVIOUS
  <1>4. /\ Len(v) = n + 1 /\ v[n + 1] = x
        /\ \A i \in 1 .. n : v[i] = u[i]
    BY <1>1, <1>2, AppendProperties
  <1>5. /\ Len(r) = m + 1 /\ r[m + 1] = x
        /\ \A i \in 1 .. m : r[i] = s[i]
    BY <1>1, <1>3, AppendProperties
  <1>6. Ends(<< >>, u)
    BY DEF Ends
  <1>7. Ends(<< x >>, v)
    <2>1. Len(<< x >>) = 1 /\ << x >>[1] = x /\ (n + 1 - 1) + 1 = n + 1
      BY <1>1
    <2>2. ASSUME NEW i \in 1 .. 1 PROVE << x >>[i] = v[(n + 1 - 1) + i]
      <3>1. i = 1
        OBVIOUS
      <3>. QED
        BY <1>4, <2>1, <3>1
    <2>. QED
      BY <1>1, <1>4, <2>1, <2>2 DEF Ends
  <1>8. ASSUME Ends(s, u) PROVE Ends(r, v)
    <2>1. m <= n /\ \A i \in 1 .. m : s[i] = u[(n - m) + i]
      BY <1>1, <1>8 DEF Ends
    <2>2. ASSUME NEW i \in 1 .. m + 1 PROVE r[i] = v[((n + 1) - (m + 1)) + i]
      <3>1. ((n + 1) - (m + 1)) + i = (n - m) + i
        BY <1>1
      <3>2. CASE i = m + 1
        <4>1. (n - m) + i = n + 1
          BY <1>1, <3>2
        <4>. QED
          BY <1>4, <1>5, <3>1, <3>2, <4>1
      <3>3. CASE i # m + 1
        <4>1. i \in 1 .. m /\ (n - m) + i \in 1 .. n
          BY <1>1, <2>1, <3>3
        <4>. QED
          BY <1>4, <1>5, <2>1, <3>1, <4>1
      <3>. QED
        BY <3>2, <3>3
    <2>. QED
      BY <1>1, <1>4, <1>5, <2>1, <2>2 DEF Ends
  <1>9. ASSUME Ends(s, u) PROVE IsSuffix(s, u)
    <2>1. m <= n /\ \A i \in 1 .. m : s[i] = u[(n - m) + i]
      BY <1>1, <1>9 DEF Ends
    <2>2. PICK a, b : a = Reverse(s) /\ b = Reverse(u)
      OBVIOUS
    <2>3. /\ a = [i \in 1 .. m |-> s[(m - i) + 1]]
          /\ b = [i \in 1 .. n |-> u[(n - i) + 1]]
      BY <1>1, <2>2 DEF Reverse
    <2>4. Len(a) = m /\ Len(b) = n
      BY <1>1, <2>3
    <2>5. ASSUME NEW i \in 1 .. m PROVE a[i] = b[i]
      <3>1. (m - i) + 1 \in 1 .. m /\ (n - m) + ((m - i) + 1) = (n - i) + 1 /\ i \in 1 .. n
        BY <1>1, <2>1
      <3>. QED
        BY <2>1, <2>3, <3>1
    <2>6. SubSeq(a, 1, m) = SubSeq(b, 1, m)
      <3>1. a \in Seq(Contents) /\ b \in Seq(Contents)
        <4>1. \A i \in 1 .. m : (m - i) + 1 \in 1 .. m
          BY <1>1
        <4>2. \A i \in 1 .. n : (n - i) + 1 \in 1 .. n
          BY <1>1
        <4>. QED
          BY <1>1, <2>3, <4>1, <4>2
      <3>2. \A i \in 1 .. m : a[i] \in Contents /\ b[i] \in Contents
        BY <2>1, <2>4, <3>1
      <3>3. /\ SubSeq(a, 1, m) \in Seq(Contents) /\ Len(SubSeq(a, 1, m)) = m
            /\ \A i \in 1 .. m : SubSeq(a, 1, m)[i] = a[i]
        BY <1>1, <3>2, SubSeqProperties
      <3>4. /\ SubSeq(b, 1, m) \in Seq(Contents) /\ Len(SubSeq(b, 1, m)) = m
            /\ \A i \in 1 .. m : SubSeq(b, 1, m)[i] = b[i]
        BY <1>1, <3>2, SubSeqProperties
      <3>. QED
        BY <2>5, <3>3, <3>4, SeqEqual
    <2>. QED
      BY <2>1, <2>2, <2>4, <2>6 DEF IsSuffix, IsPrefix
  <1>. QED
    BY <1>2, <1>3, <1>6, <1>7, <1>8, <1>9

\* Parts of what holds members of A alone.
LEMMA PartsIn ==
    ASSUME NEW A, NEW s \in Seq(A)
    PROVE  /\ Rest(s) \in Seq(A)
           /\ \A n \in 0 .. Len(s) : /\ SubSeq(s, 1, n) \in Seq(A)
                                     /\ SubSeq(s, n + 1, Len(s)) \in Seq(A)
  <1>1. Len(s) \in Nat /\ \A i \in 1 .. Len(s) : s[i] \in A
    OBVIOUS
  <1>2. ASSUME NEW m \in Nat \ {0}, NEW n \in 0 .. Len(s)
        PROVE  SubSeq(s, m, n) \in Seq(A)
    <2>1. \A i \in m .. n : s[i] \in A
      BY <1>1
    <2>. QED
      BY <1>1, <2>1, SubSeqProperties
  <1>3. Rest(s) \in Seq(A)
    BY <1>1, <1>2 DEF Rest
  <1>. QED
    BY <1>1, <1>2, <1>3

LEMMA EncodeNotSub ==
    ASSUME NEW r \in Request, r.op # "sub"
    PROVE  Encode(r) \in Seq(NotSub)
  <1>1. CASE r.op = "pub"
    <2>1. r.t \in Topics /\ r.x \in Contents
      BY <1>1 DEF Request
    <2>2. [k |-> "pub", t |-> r.t] \in NotSub /\ [k |-> "text", x |-> r.x] \in NotSub
      BY <2>1 DEF NotSub, Item, Line, CommandLine, ContentLine
    <2>. QED
      BY <1>1, <2>2 DEF Encode
  <1>2. CASE r.op # "pub"
    <2>1. r.t \in Topics /\ r.op = "unsub"
      BY <1>2 DEF Request
    <2>2. [k |-> r.op, t |-> r.t] \in NotSub
      BY <2>1 DEF NotSub, Item, Line, CommandLine
    <2>. QED
      BY <1>2, <2>2 DEF Encode
  <1>. QED
    BY <1>1, <1>2

\* A client that writes no subscription stays deaf.
LEMMA WriteDeaf ==
    ASSUME TypeOK, NEW c \in Clients, NEW d \in Clients, NEW w, Write(c, w), Deaf(d),
           d = c => w \in Seq(NotSub)
    PROVE  Deaf(d)'
  <1>1. /\ up' = [up EXCEPT ![c] = @ \o w]
        /\ UNCHANGED << subs, down, buf >>
    BY DEF Write, hubVars
  <1>2. up'[d] \in Seq(NotSub)
    <2>1. CASE d = c
      <3>1. up'[c] = up[c] \o w
        BY <1>1 DEF TypeOK
      <3>2. up[c] \in Seq(NotSub) /\ w \in Seq(NotSub)
        BY <2>1 DEF Deaf
      <3>. QED
        BY <2>1, <3>1, <3>2, ConcatProperties
    <2>2. CASE d # c
      BY <1>1, <2>2 DEF TypeOK, Deaf
    <2>. QED
      BY <2>1, <2>2
  <1>. QED
    BY <1>1, <1>2 DEF Deaf

\* No step takes a callback away, and a client that has none stays deaf.
LEMMA DeafStep ==
    ASSUME IInv, DeafIfNoCallback, NEW c \in Clients, ClientStep(c) \/ HubStep(c)
    PROVE  DeafIfNoCallback'
  <1> USE DEF IInv
  <1> SUFFICES ASSUME NEW d \in Clients, ~cb'[d] PROVE Deaf(d)'
    BY DEF DeafIfNoCallback
  <1>1. ASSUME ~cb[d] PROVE Deaf(d)
    BY <1>1 DEF DeafIfNoCallback
  <1>2. ASSUME UNCHANGED cb PROVE Deaf(d)
    BY <1>1, <1>2
  <1>3. Fin \in NotSub /\ Fin \in {Fin}
    BY DEF NotSub, Item, Fin
  <1>4. CASE Connect(c)
    BY <1>2, <1>4 DEF Connect, hubVars, Deaf
  <1>5. ASSUME NEW t \in Topics, Subscribe(c, t)
        PROVE  Deaf(d)'
    <2>1. cb' = [cb EXCEPT ![c] = TRUE] /\ Write(c, Encode([op |-> "sub", t |-> t]))
      BY <1>5 DEF Subscribe
    <2>2. d # c /\ ~cb[d]
      BY <2>1 DEF TypeOK
    <2>. QED
      BY <1>1, <2>1, <2>2, WriteDeaf
  <1>6. ASSUME NEW t \in Topics, Unsubscribe(c, t)
        PROVE  Deaf(d)'
    <2>1. PICK r \in Request : r.op # "sub" /\ Write(c, Encode(r)) /\ UNCHANGED cb
      BY <1>6 DEF Unsubscribe, Request
    <2>. QED
      BY <1>2, <2>1, EncodeNotSub, WriteDeaf
  <1>7. ASSUME NEW t \in Topics, NEW x \in Contents, Publish(c, t, x)
        PROVE  Deaf(d)'
    <2>1. PICK r \in Request : r.op # "sub" /\ Write(c, Encode(r)) /\ UNCHANGED cb
      BY <1>7 DEF Publish, Request
    <2>. QED
      BY <1>2, <2>1, EncodeNotSub, WriteDeaf
  <1>8. ASSUME NEW l \in BadLine, WriteBad(c, l)
        PROVE  Deaf(d)'
    <2>1. l \in NotSub
      BY DEF NotSub, Item, Line, BadLine
    <2>2. << l >> \in Seq(NotSub)
      BY <2>1
    <2>. QED
      BY <1>2, <1>8, <2>2, WriteDeaf DEF WriteBad
  <1>9. CASE Stop(c)
    <2>1. Deaf(d)
      BY <1>2, <1>9 DEF Stop
    <2>2. up'[d] = up[d] \/ up'[d] = Append(up[d], Fin)
      BY <1>9 DEF Stop, TypeOK
    <2>3. up'[d] \in Seq(NotSub)
      <3>1. up[d] \in Seq(NotSub)
        BY <2>1 DEF Deaf
      <3>2. Append(up[d], Fin) \in Seq(NotSub)
        BY <1>3, <3>1, AppendProperties
      <3>. QED
        BY <2>2, <3>1, <3>2
    <2>. QED
      BY <1>9, <2>1, <2>3 DEF Stop, hubVars, Deaf
  <1>10. CASE OnMessageClient(c)
    <2>1. Deaf(d)
      BY <1>2, <1>10 DEF OnMessageClient
    <2>2. down'[d] = down[d] \/ (down[d] # << >> /\ down'[d] = Tail(down[d]))
      BY <1>10 DEF OnMessageClient, TypeOK
    <2>3. down'[d] \in Seq({Fin})
      <3>1. down[d] \in Seq({Fin})
        BY <2>1 DEF Deaf
      <3>2. down[d] # << >> => Tail(down[d]) \in Seq({Fin})
        BY <3>1, HeadTailProperties
      <3>. QED
        BY <2>2, <3>1, <3>2
    <2>. QED
      BY <1>10, <2>1, <2>3 DEF OnMessageClient, hubVars, Deaf
  <1>11. CASE OnCloseClient(c) \/ Crash(c)
    <2>1. Deaf(d) /\ UNCHANGED << subs, buf >>
      BY <1>2, <1>11 DEF OnCloseClient, Crash, hubVars
    <2>2. down'[d] = down[d] \/ down'[d] = << >>
      BY <1>11 DEF OnCloseClient, Crash, TypeOK
    <2>3. up'[d] = up[d] \/ up'[d] \in Cuts(up[d])
      BY <1>11 DEF OnCloseClient, Crash, TypeOK
    <2>4. down'[d] \in Seq({Fin}) /\ up'[d] \in Seq(NotSub)
      <3>1. down[d] \in Seq({Fin}) /\ up[d] \in Seq(NotSub)
        BY <2>1 DEF Deaf
      <3>2. \A v \in Cuts(up[d]) : v \in Seq(NotSub)
        BY <1>3, <3>1, CutType
      <3>3. << >> \in Seq({Fin})
        OBVIOUS
      <3>. QED
        BY <2>2, <2>3, <3>1, <3>2, <3>3
    <2>. QED
      BY <2>1, <2>4 DEF Deaf
  <1>12. CASE OnConnected(c)
    BY <1>2, <1>12 DEF OnConnected, clientVars, Deaf, TypeOK
  <1>13. CASE OnMessage(c)
    <2>1. Deaf(d) /\ UNCHANGED << subs, down >>
      BY <1>2, <1>13 DEF OnMessage, clientVars
    <2>2. PICK n \in 1 .. DataLen(up[c]) :
              /\ buf' = [buf EXCEPT ![c] = buf[c] \o SubSeq(up[c], 1, n)]
              /\ up' = [up EXCEPT ![c] = SubSeq(@, n + 1, Len(@))]
      BY <1>13 DEF OnMessage, Buffered
    <2>3. n \in 0 .. Len(up[c])
      BY DEF DataLen, TypeOK
    <2>4. CASE d = c
      <3>1. buf[c] \in Seq(NotSub) /\ up[c] \in Seq(NotSub)
        BY <2>1, <2>4 DEF Deaf
      <3>2. SubSeq(up[c], 1, n) \in Seq(NotSub) /\ SubSeq(up[c], n + 1, Len(up[c])) \in Seq(NotSub)
        BY <2>3, <3>1, PartsIn
      <3>3. buf[c] \o SubSeq(up[c], 1, n) \in Seq(NotSub)
        BY <3>1, <3>2, ConcatProperties
      <3>4. buf'[c] = buf[c] \o SubSeq(up[c], 1, n) /\ up'[c] = SubSeq(up[c], n + 1, Len(up[c]))
        BY <2>2 DEF TypeOK
      <3>. QED
        BY <2>1, <2>4, <3>2, <3>3, <3>4 DEF Deaf
    <2>5. CASE d # c
      BY <2>1, <2>2, <2>5 DEF Deaf, TypeOK
    <2>. QED
      BY <2>4, <2>5
  <1>14. CASE ParseContinue(c)
    BY <1>2, <1>14 DEF ParseContinue, clientVars, Deaf
  <1>15. CASE ParseError(c)
    <2>1. Deaf(d) /\ UNCHANGED << subs, up >>
      BY <1>2, <1>15 DEF ParseError, clientVars
    <2>2. buf'[d] = buf[d] \/ buf'[d] = Rest(buf[d])
      BY <1>15 DEF ParseError, TypeOK
    <2>3. down'[d] = down[d] \/ down'[d] = Append(down[d], Fin)
      BY <1>15 DEF ParseError, Shutdown, Send
    <2>4. buf'[d] \in Seq(NotSub) /\ down'[d] \in Seq({Fin})
      <3>1. down[d] \in Seq({Fin}) /\ buf[d] \in Seq(NotSub)
        BY <2>1 DEF Deaf
      <3>2. Append(down[d], Fin) \in Seq({Fin})
        BY <1>3, <3>1, AppendProperties
      <3>3. Rest(buf[d]) \in Seq(NotSub)
        BY <3>1, PartsIn
      <3>. QED
        BY <2>2, <2>3, <3>1, <3>2, <3>3
    <2>. QED
      BY <2>1, <2>4 DEF Deaf
  <1>16. CASE DoSubscribe(c)
    <2>1. Deaf(d) /\ UNCHANGED up
      BY <1>2, <1>16 DEF DoSubscribe, clientVars
    <2>2. /\ ParseResult(buf[c]) = "kSuccess" /\ buf[c][1].k = "sub"
          /\ buf' = [buf EXCEPT ![c] = Rest(@)]
      BY <1>16 DEF DoSubscribe, Parsed
    <2>3. buf[c] # << >> /\ Len(buf[c]) \in Nat \ {0}
      BY <2>2, RequestParts, EmptySeq DEF TypeOK
    <2>4. d # c
      <3>1. SUFFICES ASSUME buf[c] \in Seq(NotSub) PROVE FALSE
        BY <2>1 DEF Deaf
      <3>2. buf[c][1] \in NotSub
        BY <2>3, <3>1
      <3>. QED
        BY <2>2, <3>2 DEF NotSub
    <2>5. subs'[d] = subs[d] /\ buf'[d] = buf[d]
      BY <1>16, <2>2, <2>4 DEF DoSubscribe, TypeOK
    <2>6. down'[d] = down[d]
      BY <1>16, <2>4 DEF DoSubscribe, SendRetained, Send, TypeOK
    <2>. QED
      BY <2>1, <2>5, <2>6 DEF Deaf
  <1>17. CASE DoUnsubscribe(c)
    <2>1. Deaf(d) /\ UNCHANGED << up, down >>
      BY <1>2, <1>17 DEF DoUnsubscribe, clientVars
    <2>2. subs'[d] \subseteq subs[d]
      BY <1>17 DEF DoUnsubscribe, ContextWithout, TypeOK
    <2>3. buf'[d] = buf[d] \/ buf'[d] = Rest(buf[d])
      BY <1>17 DEF DoUnsubscribe, Parsed, TypeOK
    <2>4. buf'[d] \in Seq(NotSub)
      BY <2>1, <2>3, PartsIn DEF Deaf
    <2>. QED
      BY <2>1, <2>2, <2>4 DEF Deaf
  <1>18. CASE DoPublish(c)
    <2>1. Deaf(d) /\ UNCHANGED << up, subs >>
      BY <1>2, <1>18 DEF DoPublish, clientVars
    <2>2. PICK t, x : t = buf[c][1].t /\ Send(audience[t], [t |-> t, x |-> x])
      BY <1>18 DEF DoPublish
    <2>3. t \in Topics
      BY <1>18, <2>2, RequestParts DEF DoPublish, Parsed
    <2>4. d \notin audience[t]
      BY <2>1, <2>3 DEF Deaf, AudienceIsContext
    <2>5. down'[d] = down[d]
      BY <2>2, <2>4 DEF Send
    <2>6. buf'[d] = buf[d] \/ buf'[d] = Rest(buf[d])
      BY <1>18 DEF DoPublish, Parsed, TypeOK
    <2>7. buf'[d] \in Seq(NotSub)
      BY <2>1, <2>6, PartsIn DEF Deaf
    <2>. QED
      BY <2>1, <2>5, <2>7 DEF Deaf
  <1>19. CASE OnDisconnected(c)
    <2>1. Deaf(d)
      BY <1>2, <1>19 DEF OnDisconnected, clientVars
    <2>2. /\ subs'[d] = subs[d] \/ subs'[d] = {}
          /\ buf'[d] = buf[d] \/ buf'[d] = << >>
          /\ up'[d] = up[d] \/ up'[d] = << >>
      BY <1>19 DEF OnDisconnected, TypeOK
    <2>3. down'[d] = down[d] \/ down'[d] \in Cuts(down[d])
      BY <1>19 DEF OnDisconnected, TypeOK
    <2>4. down'[d] \in Seq({Fin})
      <3>1. down[d] \in Seq({Fin})
        BY <2>1 DEF Deaf
      <3>2. \A v \in Cuts(down[d]) : v \in Seq({Fin})
        BY <1>3, <3>1, CutType
      <3>. QED
        BY <2>3, <3>1, <3>2
    <2>5. subs'[d] = {} /\ buf'[d] \in Seq(NotSub) /\ up'[d] \in Seq(NotSub)
      <3>1. subs[d] = {} /\ buf[d] \in Seq(NotSub) /\ up[d] \in Seq(NotSub)
        BY <2>1 DEF Deaf
      <3>2. << >> \in Seq(NotSub)
        OBVIOUS
      <3>. QED
        BY <2>2, <3>1, <3>2
    <2>. QED
      BY <2>4, <2>5 DEF Deaf
  <1>. QED
    BY <1>4, <1>5, <1>6, <1>7, <1>8, <1>9, <1>10, <1>11, <1>12, <1>13, <1>14, <1>15,
       <1>16, <1>17, <1>18, <1>19 DEF ClientStep, HubStep, OnMessageTurn

\* A message sent to a client is told after all that was told before.
LEMMA TellOfSent ==
    ASSUME NEW r \in Seq(Out), NEW w \in Seq(Out), NEW m \in Out, NEW t \in Topics
    PROVE  TellOf(r \o Append(w, m), t) =
               IF m \in OnTopic(t) THEN Append(TellOf(r \o w, t), m.x) ELSE TellOf(r \o w, t)
  <1>1. << m >> \in Seq(Out) /\ r \o w \in Seq(Out)
    BY ConcatProperties
  <1>2. Append(w, m) = w \o << m >>
    BY AppendIsConcat
  <1>3. r \o (w \o << m >>) = (r \o w) \o << m >>
    BY <1>1, ConcatAssociative
  <1>4. PICK q : q = r \o w
    OBVIOUS
  <1>5. q \in Seq(Out)
    BY <1>1, <1>4
  <1>6. Append(q, m) = q \o << m >>
    BY <1>5, AppendIsConcat
  <1>7. r \o Append(w, m) = Append(q, m)
    BY <1>2, <1>3, <1>4, <1>6
  <1>8. TellOf(Append(q, m), t) =
            IF m \in OnTopic(t) THEN Append(TellOf(q, t), m.x) ELSE TellOf(q, t)
    BY <1>5, TellOfAppend
  <1>. QED
    BY <1>4, <1>7, <1>8

\* A step that publishes nothing and subscribes nobody, and takes no message
\* from a subscriber that hears.
LEMMA ToldStays ==
    ASSUME AllToldSince, UNCHANGED << log, since >>,
           \A d \in Clients : subs'[d] \subseteq subs[d],
           \A d \in Clients : subs'[d] # {} /\ Listening(d)' =>
               Listening(d) /\ rcvd'[d] \o down'[d] = rcvd[d] \o down[d]
    PROVE  AllToldSince'
  <1> SUFFICES ASSUME NEW d \in Clients, NEW t \in Topics, t \in subs'[d]
               PROVE  ToldSince(d, t)'
    BY DEF AllToldSince, ToldSince
  <1>1. t \in subs[d] /\ subs'[d] # {}
    OBVIOUS
  <1>2. ToldSince(d, t)
    BY DEF AllToldSince
  <1>3. /\ since[d][t] \in 1 .. Len(log[t]) + 1
        /\ Listening(d) => Ends(Since(d, t), TellOf(rcvd[d] \o down[d], t))
    BY <1>1, <1>2 DEF ToldSince
  <1>4. Since(d, t)' = Since(d, t)
    BY DEF Since
  <1>5. ASSUME Listening(d)'
        PROVE  Ends(Since(d, t)', TellOf(rcvd'[d] \o down'[d], t))
    <2>1. Listening(d) /\ rcvd'[d] \o down'[d] = rcvd[d] \o down[d]
      BY <1>1, <1>5
    <2>. QED
      BY <1>3, <1>4, <2>1
  <1>. QED
    BY <1>3, <1>5 DEF ToldSince

\* A message a client reads is told as it was when it was on its way.
LEMMA ReadIsTold ==
    ASSUME NEW r \in Seq(Out), NEW w \in Seq(Out), w # << >>
    PROVE  Append(r, Head(w)) \o Tail(w) = r \o w
  <1>1. Head(w) \in Out /\ Tail(w) \in Seq(Out) /\ << Head(w) >> \in Seq(Out)
    BY HeadTailProperties
  <1>2. PICK h, v : h = Head(w) /\ v = Tail(w)
    OBVIOUS
  <1>3. << h >> \in Seq(Out) /\ v \in Seq(Out) /\ h \in Out
    BY <1>1, <1>2
  <1>4. w = << h >> \o v
    BY <1>2
  <1>5. Append(r, h) = r \o << h >>
    BY <1>3, AppendIsConcat
  <1>6. (r \o << h >>) \o v = r \o (<< h >> \o v)
    BY <1>3, ConcatAssociative
  <1>. QED
    BY <1>2, <1>4, <1>5, <1>6

LEMMA ToldTypes ==
    ASSUME TypeOK, NEW d \in Clients, NEW t \in Topics
    PROVE  /\ rcvd[d] \in Seq(Out) /\ down[d] \in Seq(Out)
           /\ rcvd[d] \o down[d] \in Seq(Out)
           /\ TellOf(rcvd[d] \o down[d], t) \in Seq(Contents)
           /\ Since(d, t) \in Seq(Contents) \/ since[d][t] = 0
  <1>1. rcvd[d] \in Seq(Out) /\ down[d] \in Seq(Out)
    BY DEF TypeOK, Out
  <1>2. rcvd[d] \o down[d] \in Seq(Out)
    BY <1>1, ConcatProperties
  <1>3. TellOf(rcvd[d] \o down[d], t) \in Seq(Contents)
    BY <1>2, TellOfSeq
  <1>4. ASSUME since[d][t] # 0 PROVE Since(d, t) \in Seq(Contents)
    <2>1. log[t] \in Seq(Contents) /\ since[d][t] \in Nat \ {0}
      BY <1>4 DEF TypeOK
    <2>2. \A i \in since[d][t] .. Len(log[t]) : log[t][i] \in Contents
      BY <2>1
    <2>. QED
      BY <2>1, <2>2, SubSeqProperties DEF Since
  <1>. QED
    BY <1>1, <1>2, <1>3, <1>4

\* A subscription is told the retained publication, and no other is told it.
LEMMA SubscribeTold ==
    ASSUME TypeOK, TypeOK', LogsHold, AllToldSince, NEW c \in Clients, NEW t \in Topics,
           subs' = [subs EXCEPT ![c] = @ \cup {t}],
           since' = [since EXCEPT ![c][t] = IF log[t] = << >> THEN 1 ELSE Len(log[t])],
           SendRetained(c, t),
           UNCHANGED << cli, conn, rcvd, log, content >>
    PROVE  AllToldSince'
  <1> SUFFICES ASSUME NEW d \in Clients, NEW v \in Topics, v \in subs'[d]
               PROVE  ToldSince(d, v)'
    BY DEF AllToldSince, ToldSince
  <1>1. rcvd[d] \in Seq(Out) /\ down[d] \in Seq(Out) /\ rcvd'[d] = rcvd[d] /\ log' = log
    BY ToldTypes
  <1>2. PICK old : old = TellOf(rcvd[d] \o down[d], v)
    OBVIOUS
  <1>3. PICK new : new = TellOf(rcvd'[d] \o down'[d], v)
    OBVIOUS
  <1>4. old \in Seq(Contents) /\ new \in Seq(Contents)
    <2>1. old \in Seq(Contents)
      BY <1>2, ToldTypes
    <2>2. rcvd'[d] \in Seq(Out) /\ down'[d] \in Seq(Out)
      <3>1. down' \in [Clients -> Seq(Message \cup {Fin})]
        BY DEF TypeOK
      <3>. QED
        BY <1>1, <3>1 DEF Out
    <2>3. rcvd'[d] \o down'[d] \in Seq(Out)
      BY <2>2, ConcatProperties
    <2>. QED
      BY <1>3, <2>1, <2>3, TellOfSeq
  <1>5. Listening(d)' <=> Listening(d)
    BY DEF Listening
  <1>6. CASE d = c /\ v = t
    <2>1. since'[d][v] = IF log[t] = << >> THEN 1 ELSE Len(log[t])
      BY <1>6 DEF TypeOK
    <2>2. PICK l \in Seq(Contents) : l = log[t]
      BY DEF TypeOK
    <2>3. CASE l = << >>
      <3>1. since'[d][v] = 1 /\ Len(l) = 0
        BY <2>1, <2>2, <2>3
      <3>2. SubSeq(l, 1, 0) = << >>
        BY SubSeqEmpty
      <3>3. Since(d, v)' = << >>
        BY <1>1, <1>6, <2>2, <3>1, <3>2 DEF Since
      <3>4. Ends(<< >>, new)
        BY <1>4 DEF Ends
      <3>. QED
        BY <1>1, <1>3, <1>6, <2>2, <3>1, <3>3, <3>4 DEF ToldSince
    <2>4. CASE l # << >>
      <3>1. PICK n \in Nat \ {0} : n = Len(l)
        BY <2>4, EmptySeq
      <3>2. PICK x : x = l[n]
        OBVIOUS
      <3>3. x \in Contents /\ content[t] = x /\ since'[d][v] = n
        BY <2>1, <2>2, <2>4, <3>1, <3>2 DEF LogsHold
      <3>4. Since(d, v)' = << x >>
        <4>1. SubSeq(l, n, n) = << l[n] >>
          <5>1. \A i \in n .. n : l[i] \in Contents
            BY <3>2, <3>3
          <5>2. /\ SubSeq(l, n, n) \in Seq(Contents) /\ Len(SubSeq(l, n, n)) = 1
                /\ SubSeq(l, n, n)[1] = l[n]
            <6>1. Len(SubSeq(l, n, n)) = 1 /\ n - n + 1 = 1 /\ n + 1 - 1 = n
              BY <3>1, <5>1, SubSeqProperties
            <6>. QED
              BY <3>1, <5>1, <6>1, SubSeqProperties
          <5>3. PICK q : q = SubSeq(l, n, n)
            OBVIOUS
          <5>4. PICK e : e = l[n]
            OBVIOUS
          <5>5. q \in Seq(Contents) /\ Len(q) = 1 /\ q[1] = e
            BY <5>2, <5>3, <5>4
          <5>6. q = << e >>
            BY <5>5
          <5>. QED
            BY <5>3, <5>4, <5>6
        <4>. QED
          BY <1>1, <1>6, <2>2, <3>1, <3>2, <3>3, <4>1 DEF Since
      <3>5. ASSUME Listening(d)' PROVE Ends(<< x >>, new)
        <4>1. PICK m : m = [t |-> t, x |-> x]
          OBVIOUS
        <4>2. m \in OnTopic(v) /\ m \in Out /\ m.x = x
          BY <1>6, <3>3, <4>1 DEF OnTopic, Message, Out
        <4>3. down'[d] = Append(down[d], m)
          <5>1. content[t] # Never
            BY <3>3, HubAssumption
          <5>2. Send({c}, m)
            BY <3>3, <4>1, <5>1 DEF SendRetained
          <5>. QED
            BY <1>5, <1>6, <3>5, <5>2 DEF Send
        <4>4. new = Append(old, x)
          BY <1>1, <1>2, <1>3, <4>2, <4>3, TellOfSent
        <4>. QED
          BY <1>4, <3>3, <4>4, EndsProperties
      <3>6. since'[d][v] \in 1 .. Len(log'[v]) + 1
        BY <1>1, <1>6, <2>2, <3>1, <3>3
      <3>. QED
        BY <1>3, <3>4, <3>5, <3>6 DEF ToldSince
    <2>. QED
      BY <2>3, <2>4
  <1>7. CASE ~(d = c /\ v = t)
    <2>1. since'[d][v] = since[d][v] /\ v \in subs[d]
      <3>1. since \in [Clients -> [Topics -> Nat]] /\ subs \in [Clients -> SUBSET Topics]
        BY DEF TypeOK
      <3>2. CASE d # c
        BY <3>1, <3>2
      <3>3. CASE d = c /\ v # t
        <4>1. subs'[c] = subs[c] \cup {t}
          BY <3>1
        <4>2. since'[c] = [since[c] EXCEPT ![t] = IF log[t] = << >> THEN 1 ELSE Len(log[t])]
          BY <3>1
        <4>. QED
          BY <3>1, <3>3, <4>1, <4>2
      <3>. QED
        BY <1>7, <3>2, <3>3
    <2>2. new = old
      <3>1. CASE down'[d] = down[d]
        BY <1>1, <1>2, <1>3, <3>1
      <3>2. CASE down'[d] # down[d]
        <4>1. PICK m : m = [t |-> t, x |-> content[t]]
          OBVIOUS
        <4>2. content[t] # Never /\ Send({c}, m)
          BY <3>2, <4>1 DEF SendRetained
        <4>3. d = c /\ down'[d] = Append(down[d], m)
          BY <3>2, <4>2 DEF Send
        <4>4. m \in Out /\ m \notin OnTopic(v)
          BY <1>7, <4>1, <4>2, <4>3 DEF Out, Message, OnTopic, TypeOK
        <4>. QED
          BY <1>1, <1>2, <1>3, <4>3, <4>4, TellOfSent
      <3>. QED
        BY <3>1, <3>2
    <2>3. ToldSince(d, v)
      BY DEF AllToldSince
    <2>4. Since(d, v)' = Since(d, v)
      BY <1>1, <2>1 DEF Since
    <2>. QED
      BY <1>1, <1>2, <1>3, <1>5, <2>1, <2>2, <2>3, <2>4 DEF ToldSince
  <1>. QED
    BY <1>6, <1>7

\* A publication is told to every subscriber that hears, and logged.
LEMMA PublishTold ==
    ASSUME TypeOK, TypeOK', AudienceIsContext, AllToldSince,
           NEW t \in Topics, NEW x \in Contents,
           log' = [log EXCEPT ![t] = Append(@, x)],
           Send(audience[t], [t |-> t, x |-> x]),
           UNCHANGED << cli, conn, rcvd, subs, since >>
    PROVE  AllToldSince'
  <1> SUFFICES ASSUME NEW d \in Clients, NEW v \in Topics, v \in subs'[d]
               PROVE  ToldSince(d, v)'
    BY DEF AllToldSince, ToldSince
  <1>1. rcvd[d] \in Seq(Out) /\ down[d] \in Seq(Out) /\ rcvd'[d] = rcvd[d]
    BY ToldTypes
  <1>2. PICK old : old = TellOf(rcvd[d] \o down[d], v)
    OBVIOUS
  <1>3. PICK new : new = TellOf(rcvd'[d] \o down'[d], v)
    OBVIOUS
  <1>4. old \in Seq(Contents)
    BY <1>2, ToldTypes
  <1>5. Listening(d)' <=> Listening(d)
    BY DEF Listening
  <1>6. /\ since[d][v] \in 1 .. Len(log[v]) + 1
        /\ Listening(d) => Ends(Since(d, v), old)
    <2>1. v \in subs[d] /\ ToldSince(d, v)
      BY DEF AllToldSince
    <2>. QED
      BY <1>2, <2>1 DEF ToldSince
  <1>7. PICK m : m = [t |-> t, x |-> x]
    OBVIOUS
  <1>8. m \in Out /\ m.x = x /\ (m \in OnTopic(v) <=> v = t)
    BY <1>7 DEF Out, Message, OnTopic
  <1>9. down'[d] = IF d \in audience[t] /\ Listening(d) THEN Append(down[d], m) ELSE down[d]
    BY <1>7 DEF Send
  <1>10. CASE v = t
    <2>1. d \in audience[t]
      BY <1>10 DEF AudienceIsContext
    <2>2. PICK l \in Seq(Contents) : l = log[v]
      BY DEF TypeOK
    <2>3. PICK n \in Nat : n = Len(l)
      OBVIOUS
    <2>4. PICK b : b = since[d][v]
      OBVIOUS
    <2>5. b \in 1 .. n + 1
      BY <1>6, <2>2, <2>3, <2>4
    <2>6. PICK k : k = Append(l, x)
      OBVIOUS
    <2>7. /\ k \in Seq(Contents) /\ Len(k) = n + 1 /\ k[n + 1] = x
          /\ \A i \in 1 .. n : k[i] = l[i]
      BY <2>3, <2>6, AppendProperties
    <2>8. log'[v] = k /\ since'[d][v] = b
      BY <1>10, <2>2, <2>4, <2>6 DEF TypeOK
    <2>9. Since(d, v) = SubSeq(l, b, n) /\ Since(d, v)' = SubSeq(k, b, n + 1)
      BY <2>2, <2>3, <2>4, <2>7, <2>8 DEF Since
    <2>10. SubSeq(l, b, n) \in Seq(Contents) /\ SubSeq(k, b, n + 1) = Append(SubSeq(l, b, n), x)
      <3>1. \A i \in b .. n : l[i] \in Contents
        BY <2>3, <2>5
      <3>2. \A i \in b .. n : k[i] \in Contents
        BY <2>5, <2>7
      <3>3. b \in Int /\ n \in Int /\ n + 1 \in Int
        BY <2>5
      <3>4. SubSeq(k, b, n) = SubSeq(l, b, n)
        <4>1. /\ SubSeq(l, b, n) \in Seq(Contents)
              /\ Len(SubSeq(l, b, n)) = IF b <= n THEN n - b + 1 ELSE 0
              /\ \A i \in 1 .. n - b + 1 : SubSeq(l, b, n)[i] = l[b + i - 1]
          BY <3>1, <3>3, SubSeqProperties
        <4>2. /\ SubSeq(k, b, n) \in Seq(Contents)
              /\ Len(SubSeq(k, b, n)) = IF b <= n THEN n - b + 1 ELSE 0
              /\ \A i \in 1 .. n - b + 1 : SubSeq(k, b, n)[i] = k[b + i - 1]
          BY <3>2, <3>3, SubSeqProperties
        <4>3. \A i \in 1 .. n - b + 1 : b + i - 1 \in 1 .. n
          BY <2>5
        <4>4. \A i \in 1 .. n - b + 1 : SubSeq(k, b, n)[i] = SubSeq(l, b, n)[i]
          BY <2>7, <4>1, <4>2, <4>3
        <4>5. PICK a, e : a = SubSeq(l, b, n) /\ e = SubSeq(k, b, n)
          OBVIOUS
        <4>6. /\ a \in Seq(Contents) /\ e \in Seq(Contents) /\ Len(a) = Len(e)
              /\ \A i \in 1 .. n - b + 1 : e[i] = a[i]
              /\ Len(a) = IF b <= n THEN n - b + 1 ELSE 0
          BY <4>1, <4>2, <4>4, <4>5
        <4>7. \A i \in 1 .. Len(e) : e[i] = a[i]
          BY <2>5, <4>6
        <4>8. e = a
          BY <4>6, <4>7, SeqEqual
        <4>. QED
          BY <4>5, <4>8
      <3>5. SubSeq(k, b, n + 1) = SubSeq(k, b, n) \o << k[n + 1] >>
        <4>1. b \in 1 .. Len(k) /\ n + 1 \in b .. Len(k) /\ (n + 1) - 1 = n
          BY <2>5, <2>7
        <4>. QED
          BY <2>7, <4>1, SubSeqRecursiveSecond
      <3>6. SubSeq(l, b, n) \in Seq(Contents)
        BY <3>1, <3>3, SubSeqProperties
      <3>7. PICK q : q = SubSeq(l, b, n)
        OBVIOUS
      <3>8. q \in Seq(Contents) /\ Append(q, x) = q \o << x >>
        BY <3>6, <3>7, AppendIsConcat
      <3>. QED
        BY <2>7, <3>4, <3>5, <3>7, <3>8
    <2>11. ASSUME Listening(d)' PROVE Ends(Since(d, v)', new)
      <3>1. new = Append(old, x)
        BY <1>1, <1>2, <1>3, <1>5, <1>8, <1>9, <1>10, <2>1, <2>11, TellOfSent
      <3>2. PICK q : q = SubSeq(l, b, n)
        OBVIOUS
      <3>3. q \in Seq(Contents) /\ Ends(q, old) /\ Since(d, v)' = Append(q, x)
        BY <1>5, <1>6, <2>9, <2>10, <2>11, <3>2
      <3>4. Ends(Append(q, x), Append(old, x))
        BY <1>4, <3>3, EndsProperties
      <3>. QED
        BY <3>1, <3>3, <3>4
    <2>12. since'[d][v] \in 1 .. Len(log'[v]) + 1
      BY <2>5, <2>7, <2>8
    <2>. QED
      BY <1>3, <2>11, <2>12 DEF ToldSince
  <1>11. CASE v # t
    <2>1. new = old
      BY <1>1, <1>2, <1>3, <1>8, <1>9, <1>11, TellOfSent
    <2>2. log'[v] = log[v] /\ since'[d][v] = since[d][v]
      BY <1>11 DEF TypeOK
    <2>3. Since(d, v)' = Since(d, v)
      BY <2>2 DEF Since
    <2>. QED
      BY <1>3, <1>5, <1>6, <2>1, <2>2, <2>3 DEF ToldSince
  <1>. QED
    BY <1>10, <1>11

LEMMA PublishLogs ==
    ASSUME TypeOK, LogsHold, NEW t \in Topics, NEW x \in Contents,
           log' = [log EXCEPT ![t] = Append(@, x)],
           content' = [content EXCEPT ![t] = x]
    PROVE  LogsHold'
  <1> SUFFICES ASSUME NEW v \in Topics
               PROVE  content'[v] = IF log'[v] = << >> THEN Never ELSE log'[v][Len(log'[v])]
    BY DEF LogsHold
  <1>1. CASE v = t
    <2>1. log[t] \in Seq(Contents) /\ log'[v] = Append(log[t], x) /\ content'[v] = x
      BY <1>1 DEF TypeOK
    <2>. QED
      BY <2>1, AppendProperties
  <1>2. CASE v # t
    BY <1>2 DEF TypeOK, LogsHold
  <1>. QED
    BY <1>1, <1>2

LEMMA GapStep ==
    ASSUME IInv, IInv', NInv, NEW c \in Clients, ClientStep(c) \/ HubStep(c)
    PROVE  LogsHold' /\ AllToldSince'
  <1> USE DEF IInv, NInv
  <1> DEFINE Quiet(d) == subs'[d] # {} /\ Listening(d)' =>
                 Listening(d) /\ rcvd'[d] \o down'[d] = rcvd[d] \o down[d]
             Still == /\ UNCHANGED << log, since, content >>
                      /\ \A d \in Clients : subs'[d] \subseteq subs[d] /\ Quiet(d)
  <1>1. ASSUME Still PROVE LogsHold' /\ AllToldSince'
    BY <1>1, ToldStays DEF LogsHold
  <1>2. CASE Connect(c)
    <2>1. Still
      BY <1>2 DEF Connect, hubVars, histVars, Listening, TypeOK
    <2>. QED
      BY <1>1, <2>1
  <1>3. ASSUME NEW w, Write(c, w) PROVE Still
    BY <1>3 DEF Write, hubVars, histVars, Listening
  <1>4. CASE \/ \E t \in Topics : Subscribe(c, t) \/ Unsubscribe(c, t)
             \/ \E t \in Topics, x \in Contents : Publish(c, t, x)
             \/ \E l \in BadLine : WriteBad(c, l)
    <2>1. \E w : Write(c, w)
      BY <1>4 DEF Subscribe, Unsubscribe, Publish, WriteBad
    <2>2. Still
      BY <1>3, <2>1
    <2>. QED
      BY <1>1, <2>2
  <1>5. CASE Stop(c)
    <2>1. Still
      BY <1>5 DEF Stop, hubVars, histVars, Listening, TypeOK
    <2>. QED
      BY <1>1, <2>1
  <1>6. CASE OnMessageClient(c)
    <2>1. UNCHANGED << cli, conn, subs, log, since, content >>
      BY <1>6 DEF OnMessageClient, hubVars, histVars
    <2>2. ASSUME NEW d \in Clients PROVE Quiet(d)
      <3>1. CASE d # c
        <4>1. down'[d] = down[d] /\ rcvd'[d] = rcvd[d]
          BY <1>6, <3>1 DEF OnMessageClient, TypeOK
        <4>. QED
          BY <2>1, <4>1 DEF Listening
      <3>2. CASE d = c /\ ~cb[c]
        BY <2>1, <3>2 DEF DeafIfNoCallback, Deaf
      <3>3. CASE d = c /\ cb[c]
        <4>1. /\ down[c] # << >>
              /\ down'[c] = Tail(down[c]) /\ rcvd'[c] = Append(rcvd[c], Head(down[c]))
          BY <1>6, <3>3 DEF OnMessageClient, TypeOK
        <4>2. rcvd[c] \in Seq(Out) /\ down[c] \in Seq(Out)
          <5>1. rcvd \in [Clients -> Seq(Message)] /\ down \in [Clients -> Seq(Message \cup {Fin})]
            BY DEF TypeOK
          <5>. QED
            BY <5>1 DEF Out
        <4>3. Append(rcvd[c], Head(down[c])) \o Tail(down[c]) = rcvd[c] \o down[c]
          BY <4>1, <4>2, ReadIsTold
        <4>. QED
          BY <2>1, <3>3, <4>1, <4>3 DEF Listening
      <3>. QED
        BY <3>1, <3>2, <3>3
    <2>. QED
      BY <1>1, <2>1, <2>2
  <1>7. CASE OnCloseClient(c) \/ Crash(c)
    <2>1. /\ cli' = [cli EXCEPT ![c] = "closed"] /\ down' = [down EXCEPT ![c] = << >>]
          /\ UNCHANGED << conn, rcvd, subs, log, since, content >>
      BY <1>7 DEF OnCloseClient, Crash, hubVars, histVars
    <2>2. Still
      BY <2>1 DEF Listening, TypeOK
    <2>. QED
      BY <1>1, <2>2
  <1>8. CASE OnConnected(c)
    <2>1. Still
      BY <1>8 DEF OnConnected, clientVars, histVars, Listening, TypeOK
    <2>. QED
      BY <1>1, <2>1
  <1>9. CASE OnMessage(c) \/ ParseContinue(c)
    <2>1. Still
      BY <1>9 DEF OnMessage, ParseContinue, clientVars, histVars, Listening
    <2>. QED
      BY <1>1, <2>1
  <1>10. CASE ParseError(c)
    <2>1. /\ UNCHANGED << cli, rcvd, subs, log, since, content >>
          /\ conn' = [conn EXCEPT ![c] = IF @ = "up" THEN "closing" ELSE @]
          /\ Send({c}, Fin)
      BY <1>10 DEF ParseError, Shutdown, clientVars, histVars
    <2>2. Still
      BY <2>1 DEF Listening, TypeOK, Send
    <2>. QED
      BY <1>1, <2>2
  <1>11. CASE DoSubscribe(c)
    <2>1. PICK t : t = buf[c][1].t
      OBVIOUS
    <2>2. t \in Topics
      BY <1>11, <2>1, RequestParts DEF DoSubscribe, Parsed
    <2>3. /\ subs' = [subs EXCEPT ![c] = @ \cup {t}]
          /\ SendRetained(c, t)
          /\ since' = [since EXCEPT ![c][t] = IF log[t] = << >> THEN 1 ELSE Len(log[t])]
          /\ UNCHANGED << cli, conn, rcvd, log, content >>
      BY <1>11, <2>1 DEF DoSubscribe, clientVars
    <2>4. AllToldSince'
      BY <2>2, <2>3, SubscribeTold
    <2>. QED
      BY <2>3, <2>4 DEF LogsHold
  <1>12. CASE DoUnsubscribe(c)
    <2>1. /\ UNCHANGED << cli, conn, rcvd, log, since, content, down >>
          /\ \A d \in Clients : subs'[d] \subseteq subs[d]
      BY <1>12 DEF DoUnsubscribe, ContextWithout, clientVars, histVars, TypeOK
    <2>2. Still
      BY <2>1 DEF Listening
    <2>. QED
      BY <1>1, <2>2
  <1>13. CASE DoPublish(c)
    <2>1. PICK t, x : t = buf[c][1].t /\ x = buf[c][2].x
      OBVIOUS
    <2>2. t \in Topics /\ x \in Contents
      BY <1>13, <2>1, RequestParts DEF DoPublish, Parsed
    <2>3. /\ content' = [content EXCEPT ![t] = x]
          /\ Send(audience[t], [t |-> t, x |-> x])
          /\ log' = [log EXCEPT ![t] = Append(@, x)]
          /\ UNCHANGED << cli, conn, rcvd, subs, since >>
      BY <1>13, <2>1 DEF DoPublish, clientVars
    <2>4. AllToldSince'
      BY <2>2, <2>3, PublishTold
    <2>5. LogsHold'
      BY <2>2, <2>3, PublishLogs
    <2>. QED
      BY <2>4, <2>5
  <1>14. CASE OnDisconnected(c)
    <2>1. /\ UNCHANGED << cli, rcvd, log, since, content >>
          /\ conn' = [conn EXCEPT ![c] = "gone"] /\ subs' = [subs EXCEPT ![c] = {}]
          /\ \A d \in Clients \ {c} : down'[d] = down[d]
      BY <1>14 DEF OnDisconnected, clientVars, histVars, TypeOK
    <2>2. Still
      BY <2>1 DEF Listening, TypeOK
    <2>. QED
      BY <1>1, <2>2
  <1>. QED
    BY <1>2, <1>4, <1>5, <1>6, <1>7, <1>8, <1>9, <1>10, <1>11, <1>12, <1>13, <1>14
       DEF ClientStep, HubStep, OnMessageTurn

LEMMA InitNInv == Init => NInv
  <1> SUFFICES ASSUME Init PROVE NInv
    OBVIOUS
  <1>1. LogsHold /\ AllToldSince
    BY DEF Init, LogsHold, AllToldSince, ToldSince
  <1>2. DeafIfNoCallback
    BY DEF Init, DeafIfNoCallback, Deaf
  <1>. QED
    BY <1>1, <1>2 DEF NInv

LEMMA NextNInv == IInv /\ IInv' /\ NInv /\ [Next]_vars => NInv'
  <1> SUFFICES ASSUME IInv, IInv', NInv, [Next]_vars PROVE NInv'
    OBVIOUS
  <1>1. CASE Next
    <2>1. PICK c \in Clients : ClientStep(c) \/ HubStep(c)
      BY <1>1 DEF Next
    <2>. QED
      BY <2>1, DeafStep, GapStep DEF NInv
  <1>2. CASE UNCHANGED vars
    <2>1. LogsHold' /\ DeafIfNoCallback'
      BY <1>2 DEF vars, clientVars, hubVars, histVars, NInv, LogsHold, DeafIfNoCallback, Deaf
    <2>2. AllToldSince'
      BY <1>2, ToldStays DEF vars, clientVars, hubVars, histVars, NInv, Listening
    <2>. QED
      BY <2>1, <2>2 DEF NInv
  <1>. QED
    BY <1>1, <1>2

LEMMA NInvAlways == Spec => []NInv
  BY IInvAlways, InitNInv, NextNInv, PTL DEF Spec

\* What NoGap calls told.
LEMMA ToldIsTellOf == \A c \in Clients, t \in Topics : Told(c, t) = TellOf(rcvd[c] \o down[c], t)
  BY DEF Told, TellOf, OnTopic

-----------------------------------------------------------------------------
(* Theorems.                                                                *)

\* The hub's and the clients' state keeps its type: what is parsed off a stream
\* names a topic, and a publication carries a content.
THEOREM TypeCorrect == Spec => []TypeOK
  <1>1. IInv => TypeOK
    BY DEF IInv
  <1>. QED
    BY <1>1, IInvAlways, PTL

\* For any number of clients and topics, a topic's audience and the contexts of
\* the connections name the same subscriptions (hub.cc doSubscribe,
\* doUnsubscribe, onConnection).
THEOREM AudienceMatchesContext == Spec => []AudienceIsContext
  <1>1. IInv => AudienceIsContext
    BY DEF IInv
  <1>. QED
    BY <1>1, IInvAlways, PTL

\* No topic ever holds a connection that is gone or not yet accepted (hub.cc
\* onConnection, the disconnected branch, which goes by the context alone).
THEOREM NoDeadAudienceAlways == Spec => []NoDeadAudience
  <1>1. IInv => NoDeadAudience
    BY DEF IInv
  <1>. QED
    BY <1>1, IInvAlways, PTL

\* However TCP cuts up what a client writes, and whenever the client dies, the
\* hub shuts down only those that wrote a bad line (codec.h parseMessage).
THEOREM OnlyBadAreRejected == Spec => []OnlyBadRejected
  <1>1. IInv => OnlyBadRejected
    BY DEF IInv
  <1>. QED
    BY <1>1, IInvAlways, PTL

\* From the retained publication on, a subscriber that hears is told every
\* publication on its topic in the order published, none missing and none
\* twice, for any number of clients, topics and publications (hub.cc Topic::add
\* and Topic::publish, pubsub.cc PubSubClient::onMessage).
THEOREM NoGapAlways == Spec => []NoGap
  <1>1. ASSUME IInv, NInv PROVE NoGap
    <2> SUFFICES ASSUME NEW c \in Clients, NEW t \in Topics, t \in subs[c], Listening(c)
                 PROVE  IsSuffix(SubSeq(log[t], since[c][t], Len(log[t])), Told(c, t))
      BY DEF NoGap
    <2>1. /\ since[c][t] \in 1 .. Len(log[t]) + 1
          /\ Ends(Since(c, t), TellOf(rcvd[c] \o down[c], t))
      BY <1>1 DEF NInv, AllToldSince, ToldSince
    <2>2. since[c][t] # 0
      BY <2>1
    <2>3. TypeOK
      BY <1>1 DEF IInv
    <2>4. Since(c, t) \in Seq(Contents) /\ TellOf(rcvd[c] \o down[c], t) \in Seq(Contents)
      BY <2>2, <2>3, ToldTypes
    <2>5. ASSUME NEW s \in Seq(Contents), NEW u \in Seq(Contents), Ends(s, u)
          PROVE  IsSuffix(s, u)
      <3>1. CASE s = << >>
        <4>1. Len(s) = 0 /\ Len(Reverse(s)) = 0 /\ Len(Reverse(u)) \in Nat
          BY <3>1 DEF Reverse
        <4>2. SubSeq(Reverse(s), 1, 0) = << >> /\ SubSeq(Reverse(u), 1, 0) = << >>
          BY SubSeqEmpty
        <4>. QED
          BY <4>1, <4>2 DEF IsSuffix, IsPrefix
      <3>2. CASE s # << >>
        <4>1. s[1] \in Contents
          BY <3>2, EmptySeq
        <4>. QED
          BY <2>5, <4>1, EndsProperties
      <3>. QED
        BY <3>1, <3>2
    <2>6. IsSuffix(Since(c, t), TellOf(rcvd[c] \o down[c], t))
      BY <2>1, <2>4, <2>5
    <2>. QED
      BY <2>6, ToldIsTellOf DEF Since
  <1>. QED
    BY <1>1, IInvAlways, NInvAlways, PTL

-----------------------------------------------------------------------------
(***************************************************************************)
(* The hub implements the broker of PubSub.                                *)
(*                                                                         *)
(* The requests of a client are read out of its stream. Decode reads two   *)
(* streams behind each other as it reads each, unless the first ends in a  *)
(* publication whose content is still to come: from this follow what a     *)
(* write adds, what a turn of onMessage takes off, and that what is left   *)
(* of a stream that is cut is read as a prefix of what was asked.          *)
(***************************************************************************)

\* The lines that the hub has still to parse.
Unparsed(c) == buf[c] \o Data(up[c])

\* A stream every line of which has a space.
Spaced(s) == \A i \in 1 .. Len(s) : s[i].k # "nospace"

\* A stream that does not stop inside a publication.
Closed(s) == s # << >> => s[Len(s)].k # "pub"

\* Lines in which a content follows every publication but a last one.
Paired(s) == \A i \in 1 .. Len(s) - 1 : s[i].k = "pub" => s[i + 1].k = "text"

-----------------------------------------------------------------------------
(* What a stream is read as.                                                *)

\* The members of a list that are of no interest leave nothing.
LEMMA KeepNone ==
    ASSUME NEW A, NEW s \in Seq(A), NEW S, \A i \in 1 .. Len(s) : s[i] \notin S
    PROVE  Keep(s, S) = << >>
  <1>1. Range(s) \cap S = {}
    BY DEF Range
  <1>2. Keep(s, S) \in Seq(A) /\ Range(Keep(s, S)) = Range(s) \cap S
    BY KeepProperties
  <1>. QED
    BY <1>1, <1>2, RangeProperties

LEMMA DecodeType ==
    ASSUME NEW s \in Seq(Line)
    PROVE  Decode(s) \in Seq(Request)
  <1>1. PICK f : f = Reading(s)
    OBVIOUS
  <1>2. PICK A : A = {f[i] : i \in 1 .. Len(s)}
    OBVIOUS
  <1>3. f \in Seq(A)
    <2>1. f = [i \in 1 .. Len(s) |-> f[i]]
      BY <1>1 DEF Reading
    <2>2. Len(s) \in Nat
      OBVIOUS
    <2>. QED
      BY <1>2, <2>1, <2>2
  <1>4. PICK q : q = Keep(f, Request)
    OBVIOUS
  <1>5. q \in Seq(A) /\ Range(q) = Range(f) \cap Request
    BY <1>3, <1>4, KeepProperties
  <1>6. \A i \in 1 .. Len(q) : q[i] \in Request
    BY <1>5 DEF Range
  <1>7. q \in Seq(Request)
    BY <1>5, <1>6
  <1>. QED
    BY <1>1, <1>4, <1>7 DEF Decode

\* Two streams behind each other, the first not broken off in a publication.
LEMMA DecodeConcat ==
    ASSUME NEW s \in Seq(Line), NEW u \in Seq(Line), Closed(s)
    PROVE  Decode(s \o u) = Decode(s) \o (IF Spaced(s) THEN Decode(u) ELSE << >>)
  <1>1. PICK m \in Nat, n \in Nat : m = Len(s) /\ n = Len(u)
    OBVIOUS
  <1>2. PICK v : v = s \o u
    OBVIOUS
  <1>3. /\ v \in Seq(Line) /\ Len(v) = m + n
        /\ \A i \in 1 .. m : v[i] = s[i]
        /\ \A i \in 1 .. n : v[m + i] = u[i]
    BY <1>1, <1>2
  <1>4. PICK a, b : a = Reading(s) /\ b = [i \in 1 .. n |-> IF Spaced(s) THEN Reading(u)[i]
                                                                        ELSE NoRequest]
    OBVIOUS
  <1>5. /\ a = [i \in 1 .. m |-> IF IsRequestAt(s, i) THEN RequestAt(s, i) ELSE NoRequest]
        /\ Reading(u) = [i \in 1 .. n |-> IF IsRequestAt(u, i) THEN RequestAt(u, i) ELSE NoRequest]
        /\ Reading(v) = [i \in 1 .. m + n |-> IF IsRequestAt(v, i) THEN RequestAt(v, i) ELSE NoRequest]
    BY <1>1, <1>3, <1>4 DEF Reading
  <1>6. ASSUME NEW i \in 1 .. m
        PROVE  Reading(v)[i] = a[i]
    <2>1. v[i] = s[i] /\ \A j \in 1 .. i : v[j] = s[j]
      BY <1>3
    <2>2. s[i].k = "pub" => i # m
      BY <1>1 DEF Closed
    <2>3. s[i].k = "pub" => i < Len(s) /\ i < Len(v) /\ v[i + 1] = s[i + 1]
      BY <1>1, <1>3, <2>2
    <2>4. IsRequestAt(v, i) <=> IsRequestAt(s, i)
      BY <2>1, <2>3 DEF IsRequestAt
    <2>5. RequestAt(v, i) = RequestAt(s, i)
      BY <2>1, <2>3 DEF RequestAt
    <2>6. i \in 1 .. m + n
      BY <1>1
    <2>. QED
      BY <1>5, <2>4, <2>5, <2>6
  <1>7. ASSUME NEW i \in 1 .. n
        PROVE  Reading(v)[m + i] = b[i]
    <2>1. v[m + i] = u[i] /\ (i < n => v[m + i + 1] = u[i + 1])
      BY <1>1, <1>3
    <2>2. (m + i < Len(v) <=> i < Len(u)) /\ m + i \in 1 .. m + n
      BY <1>1, <1>3
    <2>3. RequestAt(v, m + i) = RequestAt(u, i) \/ ~ (u[i].k = "pub" => i < n)
      BY <2>1 DEF RequestAt
    <2>4. (\A j \in 1 .. m + i : v[j].k # "nospace")
             <=> Spaced(s) /\ \A j \in 1 .. i : u[j].k # "nospace"
      <3>1. ASSUME Spaced(s), \A j \in 1 .. i : u[j].k # "nospace", NEW j \in 1 .. m + i
            PROVE  v[j].k # "nospace"
        <4>1. CASE j <= m
          BY <1>1, <1>3, <3>1, <4>1 DEF Spaced
        <4>2. CASE j > m
          <5>1. j - m \in 1 .. i /\ j - m \in 1 .. n /\ m + (j - m) = j
            BY <1>1, <4>2
          <5>2. v[m + (j - m)] = u[j - m]
            BY <1>3, <5>1
          <5>. QED
            BY <3>1, <5>1, <5>2
        <4>. QED
          BY <1>1, <4>1, <4>2
      <3>2. ASSUME \A j \in 1 .. m + i : v[j].k # "nospace"
            PROVE  Spaced(s) /\ \A j \in 1 .. i : u[j].k # "nospace"
        <4>1. \A j \in 1 .. m : j \in 1 .. m + i /\ v[j] = s[j]
          BY <1>3
        <4>2. \A j \in 1 .. i : m + j \in 1 .. m + i /\ v[m + j] = u[j]
          BY <1>3
        <4>. QED
          BY <1>1, <3>2, <4>1, <4>2 DEF Spaced
      <3>. QED
        BY <3>1, <3>2
    <2>5. IsRequestAt(v, m + i) <=> Spaced(s) /\ IsRequestAt(u, i)
      BY <2>1, <2>2, <2>4 DEF IsRequestAt
    <2>6. IsRequestAt(u, i) => RequestAt(v, m + i) = RequestAt(u, i)
      BY <1>1, <2>3 DEF IsRequestAt
    <2>. QED
      BY <1>4, <1>5, <2>2, <2>5, <2>6
  <1>8. PICK A : A = {a[i] : i \in 1 .. m} \cup {b[i] : i \in 1 .. n}
    OBVIOUS
  <1>9. a \in Seq(A) /\ Len(a) = m /\ b \in Seq(A) /\ Len(b) = n
    <2>1. a = [i \in 1 .. m |-> a[i]] /\ b = [i \in 1 .. n |-> b[i]]
      BY <1>4, <1>5
    <2>2. (\A i \in 1 .. m : a[i] \in A) /\ (\A i \in 1 .. n : b[i] \in A)
      BY <1>8
    <2>3. a \in Seq(A) /\ Len(a) = m
      BY <1>1, <2>1, <2>2
    <2>4. b \in Seq(A) /\ Len(b) = n
      BY <1>1, <2>1, <2>2
    <2>. QED
      BY <2>3, <2>4
  <1>10. Reading(v) = a \o b
    <2>1. PICK f : f = Reading(v)
      OBVIOUS
    <2>2. PICK g : g = a \o b
      OBVIOUS
    <2>3. /\ Len(g) = m + n /\ g \in Seq(A)
          /\ \A i \in 1 .. m : g[i] = a[i]
          /\ \A i \in 1 .. n : g[m + i] = b[i]
      <3>1. /\ g \in Seq(A) /\ Len(g) = Len(a) + Len(b)
            /\ \A i \in 1 .. Len(a) + Len(b) :
                   g[i] = IF i <= Len(a) THEN a[i] ELSE b[i - Len(a)]
        BY <1>9, <2>2, ConcatProperties
      <3>2. \A i \in 1 .. n : m + i \in 1 .. m + n /\ (m + i) - m = i /\ ~(m + i <= m)
        OBVIOUS
      <3>. QED
        BY <1>9, <3>1, <3>2
    <2>4. ASSUME NEW i \in 1 .. m + n PROVE f[i] = g[i]
      <3>1. CASE i <= m
        BY <1>6, <2>1, <2>3, <3>1
      <3>2. CASE i > m
        <4>1. i - m \in 1 .. n /\ m + (i - m) = i
          BY <3>2
        <4>. QED
          BY <1>7, <2>1, <2>3, <4>1
      <3>. QED
        BY <3>1, <3>2
    <2>5. f = [i \in 1 .. m + n |-> f[i]] /\ g = [i \in 1 .. m + n |-> g[i]]
      BY <1>5, <2>1, <2>3
    <2>. QED
      BY <2>1, <2>2, <2>4, <2>5
  <1>11. Keep(a \o b, Request) = Keep(a, Request) \o Keep(b, Request)
    BY <1>9, KeepConcat
  <1>12. Keep(b, Request) = IF Spaced(s) THEN Decode(u) ELSE << >>
    <2>1. CASE Spaced(s)
      <3>1. b = Reading(u)
        BY <1>4, <1>5, <2>1
      <3>. QED
        BY <2>1, <3>1 DEF Decode
    <2>2. CASE ~Spaced(s)
      <3>1. NoRequest \notin Request
        BY DEF NoRequest, Request
      <3>2. \A i \in 1 .. Len(b) : b[i] \notin Request
        BY <1>4, <1>9, <2>2, <3>1
      <3>. QED
        BY <1>9, <2>2, <3>2, KeepNone
    <2>. QED
      BY <2>1, <2>2
  <1>. QED
    BY <1>2, <1>4, <1>10, <1>11, <1>12 DEF Decode

\* Streams of a request's length.
LEMMA DecodeShort ==
    /\ Decode(<< >>) = << >>
    /\ \A e \in Line : Decode(<< e >>) = IF e.k \in {"sub", "unsub"}
                                         THEN << [op |-> e.k, t |-> e.t] >> ELSE << >>
    /\ \A e \in Line, f \in Line : e.k = "pub" /\ f.k = "text" =>
           Decode(<< e, f >>) = << [op |-> "pub", t |-> e.t, x |-> f.x] >>
  <1>1. NoRequest \notin Request
    BY DEF NoRequest, Request
  <1>2. Decode(<< >>) = << >>
    <2>1. Reading(<< >>) = << >>
      BY DEF Reading
    <2>. QED
      BY <2>1, KeepOne DEF Decode
  <1>3. ASSUME NEW e \in Line
        PROVE  Decode(<< e >>) = IF e.k \in {"sub", "unsub"}
                                 THEN << [op |-> e.k, t |-> e.t] >> ELSE << >>
    <2>1. PICK s : s = << e >>
      OBVIOUS
    <2>2. Len(s) = 1 /\ s[1] = e
      BY <2>1
    <2>3. IsRequestAt(s, 1) <=> e.k \in {"sub", "unsub"}
      BY <2>2 DEF IsRequestAt
    <2>4. e.k \in {"sub", "unsub"} => RequestAt(s, 1) = [op |-> e.k, t |-> e.t]
      BY <2>2 DEF RequestAt
    <2>5. e.k \in {"sub", "unsub"} => [op |-> e.k, t |-> e.t] \in Request
      BY DEF Line, CommandLine, ContentLine, BadLine, Request
    <2>6. PICK f : f = Reading(s)
      OBVIOUS
    <2>7. f = << IF e.k \in {"sub", "unsub"} THEN [op |-> e.k, t |-> e.t] ELSE NoRequest >>
      BY <2>2, <2>3, <2>4, <2>6 DEF Reading
    <2>8. Keep(f, Request) = IF e.k \in {"sub", "unsub"}
                             THEN << [op |-> e.k, t |-> e.t] >> ELSE << >>
      BY <1>1, <2>5, <2>7, KeepOne
    <2>. QED
      BY <2>1, <2>6, <2>8 DEF Decode
  <1>4. ASSUME NEW e \in Line, NEW f \in Line, e.k = "pub", f.k = "text"
        PROVE  Decode(<< e, f >>) = << [op |-> "pub", t |-> e.t, x |-> f.x] >>
    <2>1. PICK s : s = << e, f >>
      OBVIOUS
    <2>2. Len(s) = 2 /\ s[1] = e /\ s[2] = f
      BY <2>1
    <2>3. PICK r : r = [op |-> "pub", t |-> e.t, x |-> f.x]
      OBVIOUS
    <2>4. r \in Request
      BY <1>4, <2>3 DEF Line, CommandLine, ContentLine, BadLine, Request
    <2>5. IsRequestAt(s, 1) /\ ~IsRequestAt(s, 2) /\ RequestAt(s, 1) = r
      <3>1. IsRequestAt(s, 1) /\ ~IsRequestAt(s, 2)
        BY <1>4, <2>2 DEF IsRequestAt
      <3>2. RequestAt(s, 1) = r
        BY <1>4, <2>2, <2>3 DEF RequestAt
      <3>. QED
        BY <3>1, <3>2
    <2>6. PICK g : g = Reading(s)
      OBVIOUS
    <2>7. g = << r, NoRequest >>
      BY <2>2, <2>5, <2>6 DEF Reading
    <2>8. PICK A : A = {r, NoRequest}
      OBVIOUS
    <2>9. PICK a, b : a = << r >> /\ b = << NoRequest >>
      OBVIOUS
    <2>10. a \in Seq(A) /\ b \in Seq(A) /\ g = a \o b
      BY <2>7, <2>8, <2>9
    <2>11. Keep(a \o b, Request) = Keep(a, Request) \o Keep(b, Request)
      BY <2>10, KeepConcat
    <2>12. Keep(a, Request) = << r >> /\ Keep(b, Request) = << >>
      BY <1>1, <2>4, <2>9, KeepOne
    <2>13. << r >> \o << >> = << r >>
      BY <2>8, <2>9, <2>10, ConcatEmptySeq
    <2>. QED
      BY <2>1, <2>3, <2>6, <2>10, <2>11, <2>12, <2>13 DEF Decode
  <1>. QED
    BY <1>2, <1>3, <1>4

\* What a client adds to a stream that is not broken off: its request, unless a
\* line without a space comes before it, and nothing for a bad line.
LEMMA WriteAdds ==
    ASSUME NEW s \in Seq(Line), Closed(s)
    PROVE  /\ \A r \in Request : Decode(s \o Encode(r)) =
                  IF Spaced(s) THEN Append(Decode(s), r) ELSE Decode(s)
           /\ \A l \in BadLine : Decode(s \o << l >>) = Decode(s)
  <1>1. Decode(s) \in Seq(Request)
    BY DecodeType
  <1>2. Decode(s) \o << >> = Decode(s)
    BY <1>1, ConcatEmptySeq
  <1>3. ASSUME NEW r \in Request
        PROVE  Decode(s \o Encode(r)) = IF Spaced(s) THEN Append(Decode(s), r) ELSE Decode(s)
    <2>1. PICK w : w = Encode(r)
      OBVIOUS
    <2>2. w \in Seq(Line)
      BY <2>1, EncodeIsWhole
    <2>3. Decode(w) = << r >>
      <3>1. CASE r.op = "pub"
        <4>1. r.t \in Topics /\ r.x \in Contents /\ r = [op |-> "pub", t |-> r.t, x |-> r.x]
          BY <3>1 DEF Request
        <4>2. PICK e, f : e = [k |-> "pub", t |-> r.t] /\ f = [k |-> "text", x |-> r.x]
          OBVIOUS
        <4>3. /\ e \in Line /\ f \in Line /\ e.k = "pub" /\ f.k = "text"
              /\ e.t = r.t /\ f.x = r.x
          BY <4>1, <4>2 DEF Line, CommandLine, ContentLine
        <4>4. w = << e, f >>
          BY <2>1, <3>1, <4>2 DEF Encode
        <4>. QED
          BY <4>1, <4>3, <4>4, DecodeShort
      <3>2. CASE r.op # "pub"
        <4>1. r.t \in Topics /\ r.op \in {"sub", "unsub"} /\ r = [op |-> r.op, t |-> r.t]
          BY <3>2 DEF Request
        <4>2. PICK e : e = [k |-> r.op, t |-> r.t]
          OBVIOUS
        <4>3. e \in Line /\ e.k = r.op /\ e.t = r.t
          BY <4>1, <4>2 DEF Line, CommandLine
        <4>4. w = << e >>
          BY <2>1, <3>2, <4>2 DEF Encode
        <4>. QED
          BY <4>1, <4>3, <4>4, DecodeShort
      <3>. QED
        BY <3>1, <3>2
    <2>4. Decode(s \o w) = Decode(s) \o (IF Spaced(s) THEN Decode(w) ELSE << >>)
      BY <2>2, DecodeConcat
    <2>5. PICK q : q = Decode(s)
      OBVIOUS
    <2>6. q \in Seq(Request) /\ Append(q, r) = q \o << r >>
      BY <1>1, <2>5, AppendIsConcat
    <2>. QED
      BY <1>2, <2>1, <2>3, <2>4, <2>5, <2>6
  <1>4. ASSUME NEW l \in BadLine PROVE Decode(s \o << l >>) = Decode(s)
    <2>1. l \in Line /\ l.k \notin {"sub", "unsub"}
      BY DEF Line, BadLine
    <2>2. PICK w : w = << l >>
      OBVIOUS
    <2>3. w \in Seq(Line)
      BY <2>1, <2>2
    <2>4. Decode(w) = << >>
      BY <2>1, <2>2, DecodeShort
    <2>5. Decode(s \o w) = Decode(s) \o (IF Spaced(s) THEN Decode(w) ELSE << >>)
      BY <2>3, DecodeConcat
    <2>. QED
      BY <1>2, <2>2, <2>4, <2>5
  <1>. QED
    BY <1>3, <1>4

\* What a turn of onMessage takes off: the first request, or an unknown command.
LEMMA ParseTakes ==
    ASSUME NEW s \in Seq(Line), NEW u \in Seq(Line), Paired(s \o u),
           ParseResult(s) = "kSuccess"
    PROVE  /\ Rest(s) \o u \in Seq(Line)
           /\ s[1].k = "unknown" => Decode(s \o u) = Decode(Rest(s) \o u)
           /\ s[1].k \in {"sub", "unsub"} =>
                  Decode(s \o u) = << [op |-> s[1].k, t |-> s[1].t] >> \o Decode(Rest(s) \o u)
           /\ s[1].k = "pub" =>
                  Decode(s \o u) = << [op |-> "pub", t |-> s[1].t, x |-> s[2].x] >>
                                       \o Decode(Rest(s) \o u)
  <1>1. s # << >> /\ s[1].k \notin {"nospace", "text"} /\ (s[1].k = "pub" => Len(s) # 1)
    <2>1. ~NeedsMore(s)
      BY DEF ParseResult
    <2>2. ~Malformed(s)
      BY <2>1 DEF ParseResult
    <2>. QED
      BY <2>1, <2>2 DEF NeedsMore, Malformed
  <1>2. Len(s) \in Nat \ {0}
    BY <1>1, EmptySeq
  <1>3. PICK d : d = IF s[1].k = "pub" THEN 2 ELSE 1
    OBVIOUS
  <1>4. d \in 1 .. Len(s)
    <2>1. CASE s[1].k = "pub"
      <3>1. Len(s) # 1 /\ d = 2
        BY <1>1, <1>3, <2>1
      <3>2. PICK n \in Nat : n = Len(s) /\ n # 0 /\ n # 1
        BY <1>2, <3>1
      <3>3. 2 \in 1 .. n
        BY <3>2
      <3>. QED
        BY <3>1, <3>2, <3>3
    <2>2. CASE s[1].k # "pub"
      <3>1. d = 1
        BY <1>3, <2>2
      <3>. QED
        BY <1>2, <3>1
    <2>. QED
      BY <2>1, <2>2
  <1>5. PICK h, r : h = SubSeq(s, 1, d) /\ r = Rest(s)
    OBVIOUS
  <1>6. /\ h \in Seq(Line) /\ Len(h) = d /\ \A i \in 1 .. d : h[i] = s[i]
        /\ r \in Seq(Line)
    <2>1. \A i \in 1 .. d : s[i] \in Line
      BY <1>4
    <2>2. SubSeq(s, 1, d) \in Seq(Line) /\ Len(SubSeq(s, 1, d)) = d
      BY <1>2, <1>4, <2>1, SubSeqProperties
    <2>3. \A i \in 1 .. d : SubSeq(s, 1, d)[i] = s[i]
      BY <1>2, <1>4, <2>1, SubSeqProperties
    <2>4. Rest(s) \in Seq(Line)
      BY PartsIn
    <2>. QED
      BY <1>5, <2>2, <2>3, <2>4
  <1>7. s = h \o r
    <2>1. r = SubSeq(s, d + 1, Len(s))
      BY <1>3, <1>5 DEF Rest
    <2>2. SubSeq(s, 1, d) \o SubSeq(s, d + 1, Len(s)) = SubSeq(s, 1, Len(s))
      <3>1. 1 \in 1 .. Len(s) + 1 /\ d \in 1 - 1 .. Len(s) /\ Len(s) \in d .. Len(s)
        BY <1>2, <1>4
      <3>. QED
        BY <3>1, ConcatAdjacentSubSeq
    <2>. QED
      BY <1>5, <2>1, <2>2, SubSeqFull
  <1>8. PICK v : v = r \o u
    OBVIOUS
  <1>9. v \in Seq(Line) /\ s \o u = h \o v
    <2>1. r \o u \in Seq(Line) /\ (h \o r) \o u = h \o (r \o u)
      <3>1. r \o u \in Seq(Line)
        BY <1>6, ConcatProperties
      <3>2. h \in Seq(Line) /\ r \in Seq(Line)
        BY <1>6
      <3>3. (h \o r) \o u = h \o (r \o u)
        BY <3>2, ConcatAssociative
      <3>. QED
        BY <3>1, <3>3
    <2>. QED
      BY <1>7, <1>8, <2>1
  <1>10. s[1] \in Line /\ h[1] = s[1] /\ (s[1].k = "pub" => s[2] \in Line /\ h[2] = s[2])
    BY <1>2, <1>3, <1>4, <1>6
  <1>11. s[1].k = "pub" => s[2].k = "text"
    <2>1. SUFFICES ASSUME s[1].k = "pub" PROVE s[2].k = "text"
      OBVIOUS
    <2>2. PICK w : w = s \o u
      OBVIOUS
    <2>3. 2 \in 1 .. Len(s) /\ Len(w) = Len(s) + Len(u) /\ w[1] = s[1] /\ w[2] = s[2]
      BY <1>2, <1>3, <1>4, <2>1, <2>2
    <2>4. 1 \in 1 .. Len(w) - 1
      BY <1>2, <2>3
    <2>5. Paired(w)
      BY <2>2
    <2>6. w[1].k = "pub" => w[1 + 1].k = "text"
      BY <2>4, <2>5 DEF Paired
    <2>. QED
      BY <2>1, <2>3, <2>6
  <1>12. Closed(h) /\ Spaced(h)
    <2>1. h[d].k # "pub"
      BY <1>3, <1>10, <1>11
    <2>2. Closed(h)
      BY <1>6, <2>1 DEF Closed
    <2>3. \A i \in 1 .. d : h[i].k # "nospace"
      BY <1>1, <1>3, <1>10, <1>11
    <2>. QED
      BY <1>6, <2>2, <2>3 DEF Spaced
  <1>13. Decode(h \o v) = Decode(h) \o Decode(v)
    BY <1>6, <1>9, <1>12, DecodeConcat
  <1>14. Decode(v) \in Seq(Request) /\ << >> \o Decode(v) = Decode(v)
    BY <1>9, DecodeType, ConcatEmptySeq
  <1>15. s[1].k # "pub" => h = << s[1] >>
    BY <1>3, <1>6
  <1>16. s[1].k = "pub" => h = << s[1], s[2] >>
    BY <1>3, <1>6
  <1>17. s[1].k # "pub" => Decode(h) = IF s[1].k \in {"sub", "unsub"}
                                       THEN << [op |-> s[1].k, t |-> s[1].t] >> ELSE << >>
    BY <1>10, <1>15, DecodeShort
  <1>18. s[1].k = "pub" => Decode(h) = << [op |-> "pub", t |-> s[1].t, x |-> s[2].x] >>
    BY <1>10, <1>11, <1>16, DecodeShort
  <1>. QED
    BY <1>5, <1>8, <1>9, <1>13, <1>14, <1>17, <1>18

\* A stream that waits for more has no request in it.
LEMMA WaitingIsEmpty ==
    ASSUME NEW s \in Seq(Line), NeedsMore(s)
    PROVE  Decode(s) = << >>
  <1>1. CASE s = << >>
    BY <1>1, DecodeShort
  <1>2. CASE s # << >>
    <2>1. PICK e : e = s[1]
      OBVIOUS
    <2>2. e \in Line /\ e.k = "pub" /\ s = << e >>
      BY <1>2, <2>1 DEF NeedsMore
    <2>. QED
      BY <2>2, DecodeShort
  <1>. QED
    BY <1>1, <1>2

-----------------------------------------------------------------------------
(* Prefixes.                                                                *)

LEMMA ConcatPrefix ==
    ASSUME NEW A, NEW a \in Seq(A), NEW b \in Seq(A)
    PROVE  a \in Broker!Prefixes(a \o b)
  <1>1. PICK n \in Nat, m \in Nat : n = Len(a) /\ m = Len(b)
    OBVIOUS
  <1>2. PICK v : v = a \o b
    OBVIOUS
  <1>3. v \in Seq(A) /\ Len(v) = n + m /\ \A i \in 1 .. n : v[i] = a[i] /\ v[i] \in A
    BY <1>1, <1>2
  <1>4. /\ SubSeq(v, 1, n) \in Seq(A) /\ Len(SubSeq(v, 1, n)) = n
        /\ \A i \in 1 .. n : SubSeq(v, 1, n)[i] = v[i]
    BY <1>3, SubSeqProperties
  <1>5. SubSeq(v, 1, n) = a
    BY <1>1, <1>3, <1>4, SeqEqual
  <1>. QED
    BY <1>2, <1>3, <1>5 DEF Broker!Prefixes

\* The whole of a sequence, and nothing of it, are prefixes.
LEMMA TrivialPrefixes ==
    ASSUME NEW A, NEW a \in Seq(A)
    PROVE  a \in Broker!Prefixes(a) /\ << >> \in Broker!Prefixes(a)
  <1>1. SubSeq(a, 1, Len(a)) = a /\ SubSeq(a, 1, 0) = << >>
    BY SubSeqFull, SubSeqEmpty
  <1>2. Len(a) \in 0 .. Len(a) /\ 0 \in 0 .. Len(a)
    OBVIOUS
  <1>. QED
    BY <1>1, <1>2 DEF Broker!Prefixes

\* What is left of a stream is read as a prefix of what was asked.
LEMMA DecodePrefix ==
    ASSUME NEW s \in Seq(Line), Paired(s), NEW n \in 0 .. Len(s)
    PROVE  Decode(SubSeq(s, 1, n)) \in Broker!Prefixes(Decode(s))
  <1>1. ASSUME NEW m \in 0 .. Len(s), m # 0 => s[m].k # "pub"
        PROVE  /\ SubSeq(s, 1, m) \in Seq(Line) /\ Closed(SubSeq(s, 1, m))
               /\ Decode(SubSeq(s, 1, m)) \in Broker!Prefixes(Decode(s))
    <2>1. PICK p, q : p = SubSeq(s, 1, m) /\ q = SubSeq(s, m + 1, Len(s))
      OBVIOUS
    <2>2. p \in Seq(Line) /\ q \in Seq(Line)
      BY <2>1, PartsIn
    <2>3. Len(p) = m /\ \A i \in 1 .. m : p[i] = s[i]
      <3>1. m \in Int /\ \A i \in 1 .. m : s[i] \in Line
        OBVIOUS
      <3>. QED
        BY <2>1, <3>1, SubSeqProperties
    <2>4. s = p \o q
      <3>1. 1 \in 1 .. Len(s) + 1 /\ m \in 1 - 1 .. Len(s) /\ Len(s) \in m .. Len(s)
        OBVIOUS
      <3>2. SubSeq(s, 1, m) \o SubSeq(s, m + 1, Len(s)) = SubSeq(s, 1, Len(s))
        BY <3>1, ConcatAdjacentSubSeq
      <3>. QED
        BY <2>1, <3>2, SubSeqFull
    <2>5. Closed(p)
      <3>1. p # << >> => m \in 1 .. m
        BY <2>2, <2>3, EmptySeq
      <3>. QED
        BY <1>1, <2>3, <3>1 DEF Closed
    <2>6. Decode(s) = Decode(p) \o (IF Spaced(p) THEN Decode(q) ELSE << >>)
      BY <2>2, <2>4, <2>5, DecodeConcat
    <2>7. PICK a, b : a = Decode(p) /\ b = IF Spaced(p) THEN Decode(q) ELSE << >>
      OBVIOUS
    <2>8. a \in Seq(Request) /\ b \in Seq(Request)
      <3>1. Decode(p) \in Seq(Request) /\ Decode(q) \in Seq(Request)
        BY <2>2, DecodeType
      <3>. QED
        BY <2>7, <3>1
    <2>9. a \in Broker!Prefixes(a \o b)
      BY <2>8, ConcatPrefix
    <2>. QED
      BY <2>1, <2>2, <2>5, <2>6, <2>7, <2>9
  <1>2. CASE n # 0 => s[n].k # "pub"
    BY <1>1, <1>2
  <1>3. CASE n # 0 /\ s[n].k = "pub"
    <2>1. PICK m \in Nat : m = n - 1
      BY <1>3
    <2>2. m \in 0 .. Len(s) /\ n \in 1 .. Len(s)
      BY <1>3, <2>1
    <2>3. m # 0 => s[m].k # "pub"
      <3>1. SUFFICES ASSUME m # 0, s[m].k = "pub" PROVE FALSE
        OBVIOUS
      <3>2. m \in 1 .. Len(s) - 1 /\ m + 1 = n
        BY <2>1, <2>2, <3>1
      <3>3. s[n].k = "text"
        BY <3>1, <3>2 DEF Paired
      <3>. QED
        BY <1>3, <3>3
    <2>4. PICK p : p = SubSeq(s, 1, m)
      OBVIOUS
    <2>5. p \in Seq(Line) /\ Closed(p) /\ Decode(p) \in Broker!Prefixes(Decode(s))
      BY <1>1, <2>2, <2>3, <2>4
    <2>6. PICK w : w = << s[n] >>
      OBVIOUS
    <2>7. w \in Seq(Line) /\ Decode(w) = << >>
      <3>1. PICK e : e = s[n]
        OBVIOUS
      <3>2. e \in Line /\ e.k = "pub" /\ w = << e >>
        BY <1>3, <2>2, <2>6, <3>1
      <3>3. e.k \notin {"sub", "unsub"}
        BY <3>2
      <3>4. Decode(<< e >>) = << >>
        BY <3>2, <3>3, DecodeShort
      <3>. QED
        BY <3>2, <3>4
    <2>8. SubSeq(s, 1, n) = p \o w
      <3>1. 1 \in 1 .. Len(s) /\ n \in 1 .. Len(s)
        BY <2>2
      <3>2. SubSeq(s, 1, n) = SubSeq(s, 1, n - 1) \o << s[n] >>
        BY <3>1, SubSeqRecursiveSecond
      <3>. QED
        BY <2>1, <2>4, <2>6, <3>2
    <2>9. Decode(p \o w) = Decode(p) \o << >>
      BY <2>5, <2>7, DecodeConcat
    <2>10. Decode(p) \o << >> = Decode(p)
      BY <2>5, DecodeType, ConcatEmptySeq
    <2>. QED
      BY <2>5, <2>8, <2>9, <2>10
  <1>. QED
    BY <1>2, <1>3

-----------------------------------------------------------------------------
(* What comes before the end of a stream.                                   *)

LEMMA DataProperties ==
    ASSUME NEW A, NEW s \in Seq(A)
    PROVE  /\ DataLen(s) \in 0 .. Len(s)
           /\ Data(s) \in Seq(A) /\ Len(Data(s)) = DataLen(s)
           /\ \A i \in 1 .. DataLen(s) : Data(s)[i] = s[i]
           /\ (s # << >> => s[Len(s)] # Fin) => Data(s) = s
  <1>1. DataLen(s) \in 0 .. Len(s)
    BY DEF DataLen
  <1>2. PICK n \in 0 .. Len(s) : n = DataLen(s)
    BY <1>1
  <1>3. \A i \in 1 .. n : s[i] \in A
    OBVIOUS
  <1>4. /\ SubSeq(s, 1, n) \in Seq(A) /\ Len(SubSeq(s, 1, n)) = n
        /\ \A i \in 1 .. n : SubSeq(s, 1, n)[i] = s[i]
    BY <1>3, SubSeqProperties
  <1>5. (s # << >> => s[Len(s)] # Fin) => n = Len(s)
    BY <1>2 DEF DataLen
  <1>6. SubSeq(s, 1, Len(s)) = s
    BY SubSeqFull
  <1>. QED
    BY <1>1, <1>2, <1>4, <1>5, <1>6 DEF Data

\* A stream that is ended, or cut and ended.
LEMMA DataOfCut ==
    ASSUME NEW A, Fin \in A, NEW s \in Seq(A)
    PROVE  /\ Data(Append(s, Fin)) = s
           /\ \A v \in Cuts(s) : \E n \in 0 .. DataLen(s) : Data(v) = SubSeq(s, 1, n)
  <1>1. ASSUME NEW w \in Seq(A) PROVE Data(Append(w, Fin)) = w
    <2>1. PICK n \in Nat : n = Len(w)
      OBVIOUS
    <2>2. PICK v : v = Append(w, Fin)
      OBVIOUS
    <2>3. v \in Seq(A) /\ v # << >> /\ Len(v) = n + 1 /\ v[n + 1] = Fin
          /\ \A i \in 1 .. n : v[i] = w[i]
      BY <2>1, <2>2, AppendProperties
    <2>4. DataLen(v) = n
      BY <2>3 DEF DataLen
    <2>5. /\ Data(v) \in Seq(A) /\ Len(Data(v)) = n
          /\ \A i \in 1 .. n : Data(v)[i] = v[i]
      BY <2>3, <2>4, DataProperties
    <2>6. Data(v) = w
      BY <2>1, <2>3, <2>5, SeqEqual
    <2>. QED
      BY <2>2, <2>6
  <1>2. ASSUME NEW v \in Cuts(s) PROVE \E n \in 0 .. DataLen(s) : Data(v) = SubSeq(s, 1, n)
    <2>1. PICK n \in 0 .. DataLen(s) : v = Append(SubSeq(s, 1, n), Fin)
      BY DEF Cuts
    <2>2. n \in 0 .. Len(s)
      <3>1. DataLen(s) \in 0 .. Len(s)
        BY DataProperties
      <3>. QED
        BY <3>1
    <2>3. SubSeq(s, 1, n) \in Seq(A)
      BY <2>2, PartsIn
    <2>. QED
      BY <1>1, <2>1, <2>3
  <1>. QED
    BY <1>1, <1>2

\* What is left of a client's inbox.
LEMMA InboxPrefix ==
    ASSUME NEW A, Fin \in A, NEW s \in Seq(A), NEW v \in Cuts(s)
    PROVE  Data(v) \in Broker!Prefixes(Data(s))
  <1>1. PICK n \in 0 .. DataLen(s) : Data(v) = SubSeq(s, 1, n)
    BY DataOfCut
  <1>2. PICK d, l : d = Data(s) /\ l = DataLen(s)
    OBVIOUS
  <1>3. /\ l \in 0 .. Len(s) /\ d \in Seq(A) /\ Len(d) = l
        /\ \A i \in 1 .. l : d[i] = s[i]
    BY <1>2, DataProperties
  <1>4. n \in 0 .. l
    BY <1>2
  <1>5. \A i \in 1 .. n : s[i] \in A /\ d[i] \in A /\ d[i] = s[i]
    BY <1>3, <1>4
  <1>6. /\ SubSeq(s, 1, n) \in Seq(A) /\ Len(SubSeq(s, 1, n)) = n
        /\ \A i \in 1 .. n : SubSeq(s, 1, n)[i] = s[i]
    BY <1>3, <1>4, <1>5, SubSeqProperties
  <1>7. /\ SubSeq(d, 1, n) \in Seq(A) /\ Len(SubSeq(d, 1, n)) = n
        /\ \A i \in 1 .. n : SubSeq(d, 1, n)[i] = d[i]
    BY <1>3, <1>4, <1>5, SubSeqProperties
  <1>8. SubSeq(s, 1, n) = SubSeq(d, 1, n)
    <2>1. PICK a, b : a = SubSeq(s, 1, n) /\ b = SubSeq(d, 1, n)
      OBVIOUS
    <2>2. /\ a \in Seq(A) /\ b \in Seq(A) /\ Len(a) = Len(b)
          /\ \A i \in 1 .. Len(a) : a[i] = b[i]
      BY <1>5, <1>6, <1>7, <2>1
    <2>. QED
      BY <2>1, <2>2, SeqEqual
  <1>. QED
    BY <1>1, <1>2, <1>3, <1>4, <1>8 DEF Broker!Prefixes

\* The unparsed part of a well-framed stream.
LEMMA UnparsedLines ==
    ASSUME NEW s \in Seq(Line), NEW u \in Seq(Item), WellFramed(s \o u)
    PROVE  /\ Data(u) \in Seq(Line) /\ s \o Data(u) \in Seq(Line)
           /\ Paired(s \o Data(u))
           /\ EndsWhole(s \o u) => Data(u) = u /\ u \in Seq(Line) /\ Closed(s \o u)
           /\ Len(s \o Data(u)) = Len(s) + DataLen(u)
           /\ \A i \in 1 .. Len(s) + DataLen(u) : (s \o Data(u))[i] = (s \o u)[i]
  <1>1. s \in Seq(Item)
    BY DEF Item
  <1>2. PICK m \in Nat, n \in Nat, l \in Nat : m = Len(s) /\ n = DataLen(u) /\ l = Len(u)
    <2>1. DataLen(u) \in 0 .. Len(u)
      BY DataProperties
    <2>. QED
      BY <2>1
  <1>3. n \in 0 .. l /\ n \in 0 .. DataLen(u)
    <2>1. DataLen(u) \in 0 .. Len(u)
      BY DataProperties
    <2>. QED
      BY <1>2, <2>1
  <1>4. PICK d : d = Data(u)
    OBVIOUS
  <1>5. d \in Seq(Line) /\ Len(d) = n /\ \A i \in 1 .. n : d[i] = u[i]
    <2>1. SubSeq(u, 1, n) \in Seq(Line)
      BY <1>3, DataIsLines
    <2>2. d = SubSeq(u, 1, n)
      BY <1>2, <1>4 DEF Data
    <2>. QED
      BY <1>2, <1>4, <2>1, <2>2, DataProperties
  <1>6. PICK v, w : v = s \o d /\ w = s \o u
    OBVIOUS
  <1>7. /\ v \in Seq(Line) /\ Len(v) = m + n
        /\ \A i \in 1 .. m + n : v[i] = IF i <= m THEN s[i] ELSE d[i - m]
    <2>1. /\ s \o d \in Seq(Line) /\ Len(s \o d) = Len(s) + Len(d)
          /\ \A i \in 1 .. Len(s) + Len(d) : (s \o d)[i] = IF i <= Len(s) THEN s[i] ELSE d[i - Len(s)]
      BY <1>5, ConcatProperties
    <2>. QED
      BY <1>2, <1>5, <1>6, <2>1
  <1>8. /\ w \in Seq(Item) /\ Len(w) = m + l
        /\ \A i \in 1 .. m + l : w[i] = IF i <= m THEN s[i] ELSE u[i - m]
    BY <1>1, <1>2, <1>6, ConcatProperties
  <1>9. \A i \in 1 .. m + n : v[i] = w[i]
    <2>1. ASSUME NEW i \in 1 .. m + n PROVE v[i] = w[i]
      <3>1. i \in 1 .. m + l
        BY <1>3
      <3>2. CASE i <= m
        BY <1>7, <1>8, <3>1, <3>2
      <3>3. CASE ~(i <= m)
        <4>1. i - m \in 1 .. n
          BY <3>3
        <4>. QED
          BY <1>5, <1>7, <1>8, <3>1, <3>3, <4>1
      <3>. QED
        BY <3>2, <3>3
    <2>. QED
      BY <2>1
  <1>10. Paired(v)
    <2>1. SUFFICES ASSUME NEW i \in 1 .. (m + n) - 1, v[i].k = "pub" PROVE v[i + 1].k = "text"
      BY <1>7 DEF Paired
    <2>2. i \in 1 .. m + n /\ i + 1 \in 1 .. m + n /\ i \in 1 .. (m + l) - 1
      BY <1>3
    <2>3. Fits(w[i], w[i + 1])
      BY <1>6, <1>8, <2>2 DEF WellFramed
    <2>4. v[i] = w[i] /\ v[i + 1] = w[i + 1] /\ v[i + 1] \in Line
      BY <1>7, <1>9, <2>2
    <2>5. v[i + 1].k # "fin"
      BY <2>4 DEF Line, CommandLine, ContentLine, BadLine
    <2>. QED
      BY <2>1, <2>3, <2>4, <2>5 DEF Fits
  <1>11. ASSUME EndsWhole(w) PROVE d = u /\ u \in Seq(Line) /\ Closed(w)
    <2>1. u # << >> => u[Len(u)] # Fin
      <3>1. SUFFICES ASSUME u # << >> PROVE u[Len(u)] # Fin
        OBVIOUS
      <3>2. w # << >> /\ w[Len(w)] = u[Len(u)]
        BY <1>1, <1>6, <3>1, LastOfConcat
      <3>3. w[Len(w)].k # "fin"
        BY <1>11, <3>2 DEF EndsWhole
      <3>. QED
        BY <3>2, <3>3 DEF Fin
    <2>2. d = u
      BY <1>4, <2>1, DataProperties
    <2>3. Closed(w)
      BY <1>11 DEF Closed, EndsWhole
    <2>. QED
      BY <1>5, <2>2, <2>3
  <1>. QED
    BY <1>2, <1>4, <1>5, <1>6, <1>7, <1>9, <1>10, <1>11

\* A stream that is cut is read as a prefix of what it was read as.
LEMMA UnparsedCut ==
    ASSUME NEW s \in Seq(Line), NEW u \in Seq(Item), WellFramed(s \o u), NEW v \in Cuts(u)
    PROVE  Decode(s \o Data(v)) \in Broker!Prefixes(Decode(s \o Data(u)))
  <1>1. Fin \in Item
    BY DEF Item
  <1>2. PICK n \in 0 .. DataLen(u) : Data(v) = SubSeq(u, 1, n)
    BY <1>1, DataOfCut
  <1>3. PICK m \in Nat, l \in Nat : m = Len(s) /\ l = DataLen(u)
    <2>1. DataLen(u) \in 0 .. Len(u)
      BY DataProperties
    <2>. QED
      BY <2>1
  <1>4. n \in 0 .. l /\ n \in 0 .. DataLen(u)
    BY <1>3
  <1>5. PICK c, d, a : c = Data(v) /\ d = Data(u) /\ a = s \o d
    OBVIOUS
  <1>6. c \in Seq(Line) /\ Len(c) = n /\ \A i \in 1 .. n : c[i] = u[i]
    BY <1>2, <1>4, <1>5, DataIsLines
  <1>7. d \in Seq(Line) /\ Len(d) = l /\ \A i \in 1 .. l : d[i] = u[i]
    BY <1>3, <1>5, DataProperties, UnparsedLines
  <1>8. a \in Seq(Line) /\ Paired(a) /\ Len(a) = m + l
    BY <1>3, <1>5, UnparsedLines
  <1>9. \A i \in 1 .. m + l : a[i] = IF i <= m THEN s[i] ELSE d[i - m]
    BY <1>3, <1>5, <1>7, ConcatProperties
  <1>10. PICK b : b = s \o c
    OBVIOUS
  <1>11. /\ b \in Seq(Line) /\ Len(b) = m + n
         /\ \A i \in 1 .. m + n : b[i] = IF i <= m THEN s[i] ELSE c[i - m]
    BY <1>3, <1>6, <1>10, ConcatProperties
  <1>12. SubSeq(a, 1, m + n) = b
    <2>1. \A i \in 1 .. m + n : i \in 1 .. m + l
      BY <1>4
    <2>2. \A i \in 1 .. m + n : a[i] \in Line
      <3>1. \A i \in 1 .. m + l : a[i] \in Line
        BY <1>8
      <3>. QED
        BY <2>1, <3>1
    <2>3. PICK e : e = SubSeq(a, 1, m + n)
      OBVIOUS
    <2>4. e \in Seq(Line) /\ Len(e) = m + n /\ \A i \in 1 .. m + n : e[i] = a[i]
      <3>1. m + n \in Nat /\ (m + n) - 1 + 1 = m + n
        BY <1>4
      <3>2. /\ SubSeq(a, 1, m + n) \in Seq(Line)
            /\ Len(SubSeq(a, 1, m + n)) = m + n
            /\ \A i \in 1 .. m + n : SubSeq(a, 1, m + n)[i] = a[i]
        BY <2>2, <3>1, SubSeqProperties
      <3>. QED
        BY <2>3, <3>2
    <2>5. ASSUME NEW i \in 1 .. m + n PROVE a[i] = b[i]
      <3>1. CASE i <= m
        BY <1>9, <1>11, <2>1, <3>1
      <3>2. CASE ~(i <= m)
        <4>1. i - m \in 1 .. n /\ i - m \in 1 .. l
          BY <1>4, <3>2
        <4>2. a[i] = d[i - m] /\ b[i] = c[i - m]
          BY <1>9, <1>11, <2>1, <3>2
        <4>. QED
          BY <1>6, <1>7, <4>1, <4>2
      <3>. QED
        BY <3>1, <3>2
    <2>6. e = b
      BY <1>11, <2>4, <2>5, SeqEqual
    <2>. QED
      BY <2>3, <2>6
  <1>13. m + n \in 0 .. Len(a)
    BY <1>4, <1>8
  <1>14. Decode(SubSeq(a, 1, m + n)) \in Broker!Prefixes(Decode(a))
    BY <1>8, <1>13, DecodePrefix
  <1>. QED
    BY <1>5, <1>10, <1>12, <1>14

\* Reading moves lines from one part to the other.
LEMMA UnparsedRead ==
    ASSUME NEW s \in Seq(Line), NEW u \in Seq(Item), WellFramed(s \o u),
           NEW n \in 1 .. DataLen(u)
    PROVE  (s \o SubSeq(u, 1, n)) \o Data(SubSeq(u, n + 1, Len(u))) = s \o Data(u)
  <1>1. PICK l \in Nat, m \in Nat : l = DataLen(u) /\ m = Len(u)
    <2>1. DataLen(u) \in 0 .. Len(u)
      BY DataProperties
    <2>. QED
      BY <2>1
  <1>2. l \in 0 .. m /\ n \in 1 .. l /\ (l = m \/ l = m - 1)
    BY <1>1, DataProperties DEF DataLen
  <1>3. PICK a, b, r : a = SubSeq(u, 1, n) /\ b = SubSeq(u, n + 1, l) /\ r = SubSeq(u, n + 1, m)
    OBVIOUS
  <1>4. a \in Seq(Line)
    BY <1>3, DataIsLines
  <1>5. Data(u) \in Seq(Line) /\ Data(u) = SubSeq(u, 1, l)
    BY <1>1, UnparsedLines DEF Data
  <1>6. a \o b = Data(u)
    <2>1. 1 \in 1 .. Len(u) + 1 /\ n \in 1 - 1 .. Len(u) /\ l \in n .. Len(u)
      BY <1>1, <1>2
    <2>2. SubSeq(u, 1, n) \o SubSeq(u, n + 1, l) = SubSeq(u, 1, l)
      BY <2>1, ConcatAdjacentSubSeq
    <2>. QED
      BY <1>3, <1>5, <2>2
  <1>7. \A i \in 1 .. m : u[i] \in Item
    BY <1>1
  <1>8. \A i \in n + 1 .. m : u[i] \in Item
    BY <1>7
  <1>9. /\ r \in Seq(Item) /\ Len(r) = m - n
        /\ \A i \in 1 .. m - n : r[i] = u[n + i]
    <2>1. n + 1 \in Int /\ m \in Int
      OBVIOUS
    <2>2. /\ SubSeq(u, n + 1, m) \in Seq(Item)
          /\ Len(SubSeq(u, n + 1, m)) = IF n + 1 <= m THEN m - (n + 1) + 1 ELSE 0
          /\ \A i \in 1 .. m - (n + 1) + 1 : SubSeq(u, n + 1, m)[i] = u[(n + 1) + i - 1]
      BY <1>8, <2>1, SubSeqProperties
    <2>3. m - (n + 1) + 1 = m - n /\ (~(n + 1 <= m) => m - n = 0)
      BY <1>2
    <2>4. \A i \in 1 .. m - n : (n + 1) + i - 1 = n + i
      OBVIOUS
    <2>. QED
      BY <1>3, <2>2, <2>3, <2>4
  <1>10. DataLen(r) = l - n
    <2>1. CASE m = n
      <3>1. l = m /\ Len(r) = 0
        BY <1>2, <1>9, <2>1
      <3>2. r = << >>
        BY <1>9, <3>1, EmptySeq
      <3>. QED
        BY <2>1, <3>1, <3>2 DEF DataLen
    <2>2. CASE m # n
      <3>1. r # << >> /\ Len(r) \in 1 .. m - n /\ n + Len(r) = m
        BY <1>2, <1>9, <2>2
      <3>2. r[Len(r)] = u[m] /\ u # << >>
        BY <1>1, <1>2, <1>9, <3>1
      <3>3. l = IF u[m] = Fin THEN m - 1 ELSE m
        BY <1>1, <3>2 DEF DataLen
      <3>4. DataLen(r) = IF u[m] = Fin THEN (m - n) - 1 ELSE m - n
        BY <1>9, <3>1, <3>2 DEF DataLen
      <3>. QED
        BY <3>3, <3>4
    <2>. QED
      BY <2>1, <2>2
  <1>11. Data(r) = b
    <2>1. PICK k \in Nat : k = l - n
      BY <1>2
    <2>2. PICK d : d = Data(r)
      OBVIOUS
    <2>3. d \in Seq(Item) /\ Len(d) = k /\ \A i \in 1 .. k : d[i] = r[i]
      BY <1>9, <1>10, <2>1, <2>2, DataProperties
    <2>4. \A i \in n + 1 .. l : u[i] \in Item
      BY <1>2, <1>7
    <2>5. /\ b \in Seq(Item) /\ Len(b) = k
          /\ \A i \in 1 .. k : b[i] = u[n + i]
      <3>1. n + 1 \in Int /\ l \in Int
        OBVIOUS
      <3>2. /\ SubSeq(u, n + 1, l) \in Seq(Item)
            /\ Len(SubSeq(u, n + 1, l)) = IF n + 1 <= l THEN l - (n + 1) + 1 ELSE 0
            /\ \A i \in 1 .. l - (n + 1) + 1 : SubSeq(u, n + 1, l)[i] = u[(n + 1) + i - 1]
        BY <2>4, <3>1, SubSeqProperties
      <3>3. l - (n + 1) + 1 = k /\ (~(n + 1 <= l) => k = 0)
        BY <1>2, <2>1
      <3>4. \A i \in 1 .. k : (n + 1) + i - 1 = n + i
        OBVIOUS
      <3>. QED
        BY <1>3, <3>2, <3>3, <3>4
    <2>6. \A i \in 1 .. k : i \in 1 .. m - n
      BY <1>2, <2>1
    <2>7. \A i \in 1 .. k : d[i] = b[i]
      BY <1>9, <2>3, <2>5, <2>6
    <2>8. d = b
      BY <2>3, <2>5, <2>7, SeqEqual
    <2>. QED
      BY <2>2, <2>8
  <1>12. b \in Seq(Line)
    <2>1. \A i \in n + 1 .. l : u[i] \in Line
      <3>1. \A i \in 1 .. l : u[i] \in Line
        BY <1>1, <1>5, DataProperties
      <3>. QED
        BY <3>1
    <2>2. SubSeq(u, n + 1, l) \in Seq(Line)
      BY <2>1, SubSeqProperties
    <2>. QED
      BY <1>3, <2>2
  <1>13. (s \o a) \o b = s \o (a \o b)
    BY <1>4, <1>12, ConcatAssociative
  <1>. QED
    BY <1>1, <1>3, <1>6, <1>11, <1>13

LEMMA DataOfTail ==
    ASSUME NEW A, NEW s \in Seq(A), s # << >>, Head(s) # Fin
    PROVE  Data(s) # << >> /\ Data(Tail(s)) = Tail(Data(s))
  <1>1. PICK m \in Nat : m = Len(s) /\ m # 0
    BY EmptySeq
  <1> PICK n : n = DataLen(s)
    OBVIOUS
  <1>2. n \in 1 .. m /\ n = IF s[m] = Fin THEN m - 1 ELSE m
    <2>1. n = IF s[m] = Fin THEN m - 1 ELSE m
      BY <1>1 DEF DataLen
    <2>2. m = 1 => s[m] # Fin
      BY <1>1
    <2>. QED
      BY <1>1, <2>1, <2>2
  <1>3. PICK d, v : d = Data(s) /\ v = Tail(s)
    OBVIOUS
  <1>4. d \in Seq(A) /\ Len(d) = n /\ \A i \in 1 .. n : d[i] = s[i]
    BY <1>1, <1>3, DataProperties
  <1>5. v \in Seq(A) /\ Len(v) = m - 1 /\ \A i \in 1 .. m - 1 : v[i] = s[i + 1]
    BY <1>1, <1>3, HeadTailProperties
  <1>6. DataLen(v) = n - 1
    <2>1. CASE m = 1
      <3>1. v = << >>
        BY <1>5, <2>1, EmptySeq
      <3>. QED
        BY <1>2, <1>5, <2>1, <3>1 DEF DataLen
    <2>2. CASE m # 1
      <3>1. v # << >> /\ v[Len(v)] = s[m]
        BY <1>1, <1>5, <2>2
      <3>. QED
        BY <1>1, <1>2, <1>5, <3>1 DEF DataLen
    <2>. QED
      BY <2>1, <2>2
  <1>7. PICK e : e = Data(v)
    OBVIOUS
  <1>8. e \in Seq(A) /\ Len(e) = n - 1 /\ \A i \in 1 .. n - 1 : e[i] = v[i]
    BY <1>5, <1>6, <1>7, DataProperties
  <1>9. d # << >>
    BY <1>2, <1>4
  <1>10. PICK f : f = Tail(d)
    OBVIOUS
  <1>11. f \in Seq(A) /\ Len(f) = n - 1 /\ \A i \in 1 .. n - 1 : f[i] = d[i + 1]
    BY <1>4, <1>9, <1>10, HeadTailProperties
  <1>12. \A i \in 1 .. n - 1 : i \in 1 .. m - 1 /\ i + 1 \in 1 .. n
    BY <1>1, <1>2
  <1>13. \A i \in 1 .. n - 1 : e[i] = f[i]
    BY <1>4, <1>5, <1>8, <1>11, <1>12
  <1>14. e = f
    BY <1>8, <1>11, <1>13, SeqEqual
  <1>. QED
    BY <1>3, <1>7, <1>9, <1>10, <1>14

-----------------------------------------------------------------------------
(* What the mapping needs of the hub beside IInv.                           *)

\* Nothing has happened on a connection that is not there yet.
Unopened(c) ==
    /\ cli[c] = "init" => conn[c] = "idle" /\ up[c] = << >>
    /\ conn[c] = "idle" => buf[c] = << >> /\ subs[c] = {} /\ down[c] = << >>

\* onMessage does not stop while there is a request left, unless it turns the
\* client away.
Drained(c) == conn[c] \in {"idle", "up"} /\ busy # c => NeedsMore(buf[c])

\* The hub ends its stream when it turns a client away or forgets it.
Unended(c) == conn[c] \in {"idle", "up"} => down[c] \in Seq(Message)

RInv == \A c \in Clients : Unopened(c) /\ Drained(c) /\ Unended(c)

LEMMA InitRInv == Init => RInv
  <1> SUFFICES ASSUME Init, NEW c \in Clients PROVE Unopened(c) /\ Drained(c) /\ Unended(c)
    BY DEF RInv
  <1>. QED
    BY DEF Init, Unopened, Drained, Unended, NeedsMore

LEMMA StepRInv ==
    ASSUME IInv, RInv, NEW c \in Clients, ClientStep(c) \/ HubStep(c)
    PROVE  RInv'
  <1> USE DEF IInv
  <1> SUFFICES ASSUME NEW d \in Clients PROVE Unopened(d)' /\ Drained(d)' /\ Unended(d)'
    BY DEF RInv
  <1>1. Unopened(d) /\ Drained(d) /\ Unended(d) /\ NoOne \notin Clients
    BY HubAssumption DEF RInv
  <1>2. ASSUME UNCHANGED hubVars, UNCHANGED down,
               \/ cli'[d] = cli[d] /\ up'[d] = up[d]
               \/ cli'[d] # "init"
        PROVE  Unopened(d)' /\ Drained(d)' /\ Unended(d)'
    BY <1>1, <1>2 DEF hubVars, Unopened, Drained, Unended
  <1>3. CASE Connect(c)
    BY <1>2, <1>3 DEF Connect, TypeOK
  <1>4. ASSUME NEW w, Write(c, w) PROVE Unopened(d)' /\ Drained(d)' /\ Unended(d)'
    <2>1. cli[c] = "up" /\ cli' = cli /\ UNCHANGED << hubVars, down >>
      BY <1>4 DEF Write
    <2>2. d # c => up'[d] = up[d]
      BY <1>4 DEF Write, TypeOK
    <2>. QED
      BY <1>2, <2>1, <2>2
  <1>5. CASE \/ \E t \in Topics : Subscribe(c, t) \/ Unsubscribe(c, t)
             \/ \E t \in Topics, x \in Contents : Publish(c, t, x)
             \/ \E l \in BadLine : WriteBad(c, l)
    <2>1. \E w : Write(c, w)
      BY <1>5 DEF Subscribe, Unsubscribe, Publish, WriteBad
    <2>. QED
      BY <1>4, <2>1
  <1>6. CASE Stop(c)
    BY <1>2, <1>6 DEF Stop, TypeOK
  <1>7. CASE OnMessageClient(c)
    <2>1. UNCHANGED << cli, up, conn, buf, busy, subs >>
      BY <1>7 DEF OnMessageClient, hubVars
    <2>2. down'[d] = down[d] \/ (down[d] # << >> /\ down'[d] = Tail(down[d]))
      BY <1>7 DEF OnMessageClient, TypeOK
    <2>3. Unended(d)'
      BY <1>1, <2>1, <2>2, HeadTailProperties DEF Unended
    <2>4. conn[d] = "idle" => down'[d] = << >>
      BY <1>1, <2>2 DEF Unopened
    <2>. QED
      BY <1>1, <2>1, <2>3, <2>4 DEF Unopened, Drained
  <1>8. CASE OnCloseClient(c) \/ Crash(c)
    <2>1. UNCHANGED << conn, buf, busy, subs >>
      BY <1>8 DEF OnCloseClient, Crash, hubVars
    <2>2. down'[d] = down[d] \/ down'[d] = << >>
      BY <1>8 DEF OnCloseClient, Crash, TypeOK
    <2>3. (cli'[d] = cli[d] /\ up'[d] = up[d]) \/ cli'[d] = "closed"
      BY <1>8 DEF OnCloseClient, Crash, TypeOK
    <2>4. Drained(d)'
      BY <1>1, <2>1 DEF Drained
    <2>5. Unended(d)'
      <3>1. << >> \in Seq(Message)
        OBVIOUS
      <3>. QED
        BY <1>1, <2>1, <2>2, <3>1 DEF Unended
    <2>6. cli'[d] = "init" => conn'[d] = "idle" /\ up'[d] = << >>
      BY <1>1, <2>1, <2>3 DEF Unopened
    <2>7. conn'[d] = "idle" => buf'[d] = << >> /\ subs'[d] = {} /\ down'[d] = << >>
      BY <1>1, <2>1, <2>2 DEF Unopened
    <2>. QED
      BY <2>4, <2>5, <2>6, <2>7 DEF Unopened
  <1>9. CASE OnConnected(c)
    <2>1. /\ cli[c] # "init" /\ conn[c] = "idle" /\ conn' = [conn EXCEPT ![c] = "up"]
          /\ subs' = [subs EXCEPT ![c] = {}] /\ UNCHANGED << cli, buf, busy, up, down >>
      BY <1>9 DEF OnConnected, clientVars
    <2>2. d # c => conn'[d] = conn[d] /\ subs'[d] = subs[d]
      BY <2>1 DEF TypeOK
    <2>3. conn'[c] = "up"
      BY <2>1 DEF TypeOK
    <2>4. CASE d # c
      BY <1>1, <2>1, <2>2, <2>4 DEF Unopened, Drained, Unended
    <2>5. CASE d = c
      BY <1>1, <2>1, <2>3, <2>5 DEF Unopened, Drained, Unended
    <2>. QED
      BY <2>4, <2>5
  <1>10. CASE OnMessage(c)
    <2>1. /\ busy = NoOne /\ busy' = c /\ conn[c] \in {"up", "closing"}
          /\ UNCHANGED << cli, conn, subs, down >>
      BY <1>10 DEF OnMessage, clientVars
    <2>2. d # c => buf'[d] = buf[d] /\ up'[d] = up[d]
      BY <1>10 DEF OnMessage, TypeOK
    <2>3. CASE d # c
      BY <1>1, <2>1, <2>2, <2>3 DEF Unopened, Drained, Unended
    <2>4. CASE d = c
      BY <1>1, <2>1, <2>4 DEF Unopened, Drained, Unended
    <2>. QED
      BY <2>3, <2>4
  <1>11. CASE ParseContinue(c)
    <2>1. /\ busy = c /\ UNCHANGED << cli, conn, buf, subs, up, down >>
          /\ ParseResult(buf[c]) = "kContinue"
      BY <1>11 DEF ParseContinue, clientVars
    <2>2. NeedsMore(buf[c])
      <3>1. SUFFICES ASSUME ~NeedsMore(buf[c]) PROVE FALSE
        OBVIOUS
      <3>. QED
        BY <2>1, <3>1 DEF ParseResult
    <2>. QED
      BY <1>1, <2>1, <2>2 DEF Unopened, Drained, Unended
  <1> DEFINE Away(s) == /\ conn[c] \in {"up", "closing"} /\ conn'[c] = s
                        /\ s \notin {"idle", "up"}
                        /\ \A e \in Clients \ {c} :
                               /\ conn'[e] = conn[e] /\ buf'[e] = buf[e] /\ up'[e] = up[e]
                               /\ subs'[e] = subs[e] /\ down'[e] = down[e]
                               /\ busy' # e => busy # e
                        /\ UNCHANGED cli
  <1>12. ASSUME NEW s, Away(s) PROVE Unopened(d)' /\ Drained(d)' /\ Unended(d)'
    <2>1. CASE d # c
      BY <1>1, <1>12, <2>1 DEF Unopened, Drained, Unended
    <2>2. CASE d = c
      <3>1. cli[c] # "init"
        BY <1>1, <1>12, <2>2 DEF Unopened
      <3>. QED
        BY <1>12, <2>2, <3>1 DEF Unopened, Drained, Unended
    <2>. QED
      BY <2>1, <2>2
  <1>13. CASE ParseError(c)
    <2>1. /\ busy = c /\ busy' = NoOne /\ UNCHANGED << cli, subs, up >>
          /\ conn' = [conn EXCEPT ![c] = IF @ = "up" THEN "closing" ELSE @]
          /\ Send({c}, Fin)
      BY <1>13 DEF ParseError, Shutdown, clientVars
    <2>2. conn[c] \in {"up", "closing"}
      BY <1>1, <2>1 DEF BusyIsLive
    <2>3. \A e \in Clients \ {c} : buf'[e] = buf[e] /\ conn'[e] = conn[e] /\ down'[e] = down[e]
      BY <1>13, <2>1 DEF ParseError, TypeOK, Send
    <2>4. conn'[c] = "closing"
      BY <2>1, <2>2 DEF TypeOK
    <2>5. Away("closing")
      BY <2>1, <2>2, <2>3, <2>4
    <2>. QED
      BY <1>12, <2>5
  <1>14. CASE OnDisconnected(c)
    <2>1. /\ busy = NoOne /\ busy' = busy /\ UNCHANGED cli
          /\ conn[c] \in {"up", "closing"} /\ conn' = [conn EXCEPT ![c] = "gone"]
          /\ subs' = [subs EXCEPT ![c] = {}] /\ buf' = [buf EXCEPT ![c] = << >>]
          /\ up' = [up EXCEPT ![c] = << >>]
      BY <1>14 DEF OnDisconnected, clientVars
    <2>2. \A e \in Clients \ {c} : down'[e] = down[e]
      BY <1>14 DEF OnDisconnected, TypeOK
    <2>3. Away("gone")
      BY <2>1, <2>2 DEF TypeOK
    <2>. QED
      BY <1>12, <2>3
  <1>15. ASSUME busy = c, busy' = busy, UNCHANGED << cli, conn, up >>,
                \A e \in Clients : buf'[e] = buf[e] \/ e = c,
                \A e \in Clients : subs'[e] = subs[e] \/ e = c,
                \A e \in Clients : \/ down'[e] = down[e]
                                   \/ \E m \in Message : /\ down'[e] = Append(down[e], m)
                                                         /\ conn[e] = "up"
         PROVE  Unopened(d)' /\ Drained(d)' /\ Unended(d)'
    <2>1. conn[c] \in {"up", "closing"}
      BY <1>1, <1>15 DEF BusyIsLive
    <2>2. Unended(d)'
      <3>1. SUFFICES ASSUME conn[d] \in {"idle", "up"} PROVE down'[d] \in Seq(Message)
        BY <1>15 DEF Unended
      <3>2. down[d] \in Seq(Message)
        BY <1>1, <3>1 DEF Unended
      <3>3. \A m \in Message : Append(down[d], m) \in Seq(Message)
        BY <3>2, AppendProperties
      <3>. QED
        BY <1>15, <3>2, <3>3
    <2>3. Unopened(d)'
      <3>1. conn[d] = "idle" => d # c /\ down'[d] = down[d]
        BY <1>15, <2>1
      <3>. QED
        BY <1>1, <1>15, <3>1 DEF Unopened
    <2>4. Drained(d)'
      BY <1>1, <1>15 DEF Drained
    <2>. QED
      BY <2>2, <2>3, <2>4
  <1>16. ASSUME NEW cs, NEW m \in Message, Send(cs, m), NEW e \in Clients
         PROVE  down'[e] = down[e] \/ (down'[e] = Append(down[e], m) /\ conn[e] = "up")
    BY <1>16 DEF Send, Listening
  <1>17. CASE DoSubscribe(c)
    <2>1. busy = c /\ busy' = busy /\ UNCHANGED << cli, conn, up >>
      BY <1>17 DEF DoSubscribe, Parsed, clientVars
    <2>2. \A e \in Clients : (buf'[e] = buf[e] \/ e = c) /\ (subs'[e] = subs[e] \/ e = c)
      BY <1>17 DEF DoSubscribe, Parsed, TypeOK
    <2>3. PICK t \in Topics : SendRetained(c, t)
      BY <1>17, RequestParts DEF DoSubscribe, Parsed
    <2>4. \A e \in Clients : \/ down'[e] = down[e]
                             \/ \E m \in Message : /\ down'[e] = Append(down[e], m)
                                                   /\ conn[e] = "up"
      <3>1. CASE content[t] = Never
        BY <2>3, <3>1 DEF SendRetained
      <3>2. CASE content[t] # Never
        <4>1. PICK m : m = [t |-> t, x |-> content[t]]
          OBVIOUS
        <4>2. m \in Message /\ Send({c}, m)
          BY <2>3, <3>2, <4>1 DEF SendRetained, Message, TypeOK
        <4>. QED
          BY <1>16, <4>2
      <3>. QED
        BY <3>1, <3>2
    <2>. QED
      BY <1>15, <2>1, <2>2, <2>4
  <1>18. CASE DoUnsubscribe(c)
    <2>1. busy = c /\ busy' = busy /\ UNCHANGED << cli, conn, up, down >>
      BY <1>18 DEF DoUnsubscribe, Parsed, clientVars
    <2>2. \A e \in Clients : (buf'[e] = buf[e] \/ e = c) /\ (subs'[e] = subs[e] \/ e = c)
      BY <1>18 DEF DoUnsubscribe, Parsed, TypeOK
    <2>. QED
      BY <1>15, <2>1, <2>2
  <1>19. CASE DoPublish(c)
    <2>1. busy = c /\ busy' = busy /\ UNCHANGED << cli, conn, up, subs >>
      BY <1>19 DEF DoPublish, Parsed, clientVars
    <2>2. \A e \in Clients : buf'[e] = buf[e] \/ e = c
      BY <1>19 DEF DoPublish, Parsed, TypeOK
    <2>3. PICK t, x : t = buf[c][1].t /\ x = buf[c][2].x
      OBVIOUS
    <2>4. t \in Topics /\ x \in Contents /\ Send(audience[t], [t |-> t, x |-> x])
      BY <1>19, <2>3, RequestParts DEF DoPublish, Parsed
    <2>5. PICK m : m = [t |-> t, x |-> x]
      OBVIOUS
    <2>6. m \in Message /\ Send(audience[t], m)
      BY <2>4, <2>5 DEF Message
    <2>7. \A e \in Clients : down'[e] = down[e] \/ (down'[e] = Append(down[e], m) /\ conn[e] = "up")
      BY <1>16, <2>6
    <2>. QED
      BY <1>15, <2>1, <2>2, <2>6, <2>7
  <1>. QED
    BY <1>3, <1>5, <1>6, <1>7, <1>8, <1>9, <1>10, <1>11, <1>13, <1>14, <1>17, <1>18, <1>19
       DEF ClientStep, HubStep, OnMessageTurn

LEMMA RInvAlways == Spec => []RInv
  <1>1. ASSUME IInv, RInv, [Next]_vars PROVE RInv'
    <2>1. CASE Next
      <3>1. PICK c \in Clients : ClientStep(c) \/ HubStep(c)
        BY <2>1 DEF Next
      <3>. QED
        BY <1>1, <3>1, StepRInv
    <2>2. CASE UNCHANGED vars
      BY <1>1, <2>2 DEF vars, clientVars, hubVars, RInv, Unopened, Drained, Unended
    <2>. QED
      BY <1>1, <2>1, <2>2
  <1>. QED
    BY <1>1, InitRInv, IInvAlways, PTL DEF Spec

-----------------------------------------------------------------------------
(* From what changes for one client to the steps of the broker.             *)

AMode == [c \in Clients |-> AbsMode(c)]

AAsked == [c \in Clients |-> Decode(Unparsed(c))]

AInbox == [c \in Clients |-> Data(down[c])]

\* Nothing the broker can see happens to client c.
Still(c) == UNCHANGED << AbsMode(c), Decode(Unparsed(c)), Data(down[c]) >>

OthersStill(c) == \A d \in Clients \ {c} : Still(d)

LEMMA Untouched ==
    ASSUME NEW d \in Clients, cli'[d] = cli[d], conn'[d] = conn[d],
           buf'[d] = buf[d], up'[d] = up[d], down'[d] = down[d]
    PROVE  Still(d)
  BY DEF Still, AbsMode, Unparsed

LEMMA StillMaps ==
    ASSUME UNCHANGED << subs, content >>, \A d \in Clients : Still(d)
    PROVE  UNCHANGED Broker!absVars
  <1>1. AMode' = AMode
    BY DEF Still, AMode
  <1>2. AAsked' = AAsked
    BY DEF Still, AAsked
  <1>3. AInbox' = AInbox
    BY DEF Still, AInbox
  <1>. QED
    BY <1>1, <1>2, <1>3 DEF Broker!absVars, AMode, AAsked, AInbox, Unparsed

LEMMA JoinMaps ==
    ASSUME NEW c \in Clients, OthersStill(c), UNCHANGED << subs, content >>,
           AbsMode(c) = {}, Decode(Unparsed(c)) = << >>, subs[c] = {}, Data(down[c]) = << >>,
           AbsMode(c)' = {"asks", "hears", "served"},
           UNCHANGED << Decode(Unparsed(c)), Data(down[c]) >>
    PROVE  Broker!Join(c)
  <1>1. AMode' = [AMode EXCEPT ![c] = {"asks", "hears", "served"}]
    BY DEF OthersStill, Still, AMode
  <1>2. AAsked' = AAsked
    BY DEF OthersStill, Still, AAsked
  <1>3. AInbox' = AInbox
    BY DEF OthersStill, Still, AInbox
  <1>4. AMode[c] = {} /\ AAsked[c] = << >> /\ AInbox[c] = << >>
    BY DEF AMode, AAsked, AInbox
  <1>. QED
    BY <1>1, <1>2, <1>3, <1>4 DEF Broker!Join, AMode, AAsked, AInbox, Unparsed

LEMMA AskMaps ==
    ASSUME NEW c \in Clients, NEW r, OthersStill(c), UNCHANGED << subs, content >>,
           "asks" \in AbsMode(c), UNCHANGED << AbsMode(c), Data(down[c]) >>,
           Decode(Unparsed(c))' = Append(Decode(Unparsed(c)), r)
    PROVE  Broker!Ask(c, r)
  <1>1. AMode' = AMode
    BY DEF OthersStill, Still, AMode
  <1>2. AAsked' = [AAsked EXCEPT ![c] = Append(AAsked[c], r)]
    BY DEF OthersStill, Still, AAsked
  <1>3. AInbox' = AInbox
    BY DEF OthersStill, Still, AInbox
  <1>4. "asks" \in AMode[c]
    BY DEF AMode
  <1>. QED
    BY <1>1, <1>2, <1>3, <1>4 DEF Broker!Ask, AMode, AAsked, AInbox, Unparsed

LEMMA TakeMaps ==
    ASSUME NEW c \in Clients, OthersStill(c), UNCHANGED << subs, content >>,
           UNCHANGED << AbsMode(c), Decode(Unparsed(c)) >>,
           Data(down[c]) # << >>, Data(down[c])' = Tail(Data(down[c]))
    PROVE  Broker!Take(c)
  <1>1. AMode' = AMode
    BY DEF OthersStill, Still, AMode
  <1>2. AAsked' = AAsked
    BY DEF OthersStill, Still, AAsked
  <1>3. AInbox' = [AInbox EXCEPT ![c] = Tail(AInbox[c])]
    BY DEF OthersStill, Still, AInbox
  <1>4. AInbox[c] # << >>
    BY DEF AInbox
  <1>. QED
    BY <1>1, <1>2, <1>3, <1>4 DEF Broker!Take, AMode, AAsked, AInbox, Unparsed

LEMMA WithdrawMaps ==
    ASSUME NEW c \in Clients, OthersStill(c), UNCHANGED << subs, content >>,
           AbsMode(c)' \subseteq AbsMode(c),
           \/ UNCHANGED Data(down[c])
           \/ /\ "hears" \notin AbsMode(c)'
              /\ Data(down[c])' \in Broker!Prefixes(Data(down[c])),
           \/ UNCHANGED Decode(Unparsed(c))
           \/ /\ "asks" \notin AbsMode(c)'
              /\ Decode(Unparsed(c))' \in Broker!Prefixes(Decode(Unparsed(c)))
    PROVE  Broker!Withdraw(c)
  <1>1. PICK m : m = AbsMode(c)'
    OBVIOUS
  <1>2. m \in SUBSET AMode[c] /\ AMode' = [AMode EXCEPT ![c] = m]
    BY <1>1 DEF OthersStill, Still, AMode
  <1>3. \/ AInbox' = AInbox
        \/ /\ "hears" \notin m
           /\ \E s \in Broker!Prefixes(AInbox[c]) : AInbox' = [AInbox EXCEPT ![c] = s]
    <2>1. CASE UNCHANGED Data(down[c])
      BY <2>1 DEF OthersStill, Still, AInbox
    <2>2. CASE /\ "hears" \notin AbsMode(c)'
               /\ Data(down[c])' \in Broker!Prefixes(Data(down[c]))
      <3>1. AInbox[c] = Data(down[c])
        BY DEF AInbox
      <3>2. AInbox' = [AInbox EXCEPT ![c] = Data(down[c])']
        BY DEF OthersStill, Still, AInbox
      <3>. QED
        BY <1>1, <2>2, <3>1, <3>2
    <2>. QED
      BY <2>1, <2>2
  <1>4. \/ AAsked' = AAsked
        \/ /\ "asks" \notin m
           /\ \E s \in Broker!Prefixes(AAsked[c]) : AAsked' = [AAsked EXCEPT ![c] = s]
    <2>1. CASE UNCHANGED Decode(Unparsed(c))
      BY <2>1 DEF OthersStill, Still, AAsked
    <2>2. CASE /\ "asks" \notin AbsMode(c)'
               /\ Decode(Unparsed(c))' \in Broker!Prefixes(Decode(Unparsed(c)))
      <3>1. AAsked[c] = Decode(Unparsed(c))
        BY DEF AAsked
      <3>2. AAsked' = [AAsked EXCEPT ![c] = Decode(Unparsed(c))']
        BY DEF OthersStill, Still, AAsked
      <3>. QED
        BY <1>1, <2>2, <3>1, <3>2
    <2>. QED
      BY <2>1, <2>2
  <1>5. UNCHANGED << subs, content >>
    OBVIOUS
  <1>. QED
    BY <1>2, <1>3, <1>4, <1>5 DEF Broker!Withdraw, AMode, AAsked, AInbox, Unparsed

LEMMA ForgetMaps ==
    ASSUME NEW c \in Clients, OthersStill(c), UNCHANGED content,
           subs' = [subs EXCEPT ![c] = {}],
           "asks" \notin AbsMode(c), "served" \in AbsMode(c) => Decode(Unparsed(c)) = << >>,
           AbsMode(c)' = {}, Decode(Unparsed(c))' = << >>,
           Data(down[c])' \in Broker!Prefixes(Data(down[c]))
    PROVE  Broker!Forget(c)
  <1>1. AMode' = [AMode EXCEPT ![c] = {}]
    BY DEF OthersStill, Still, AMode
  <1>2. AAsked' = [AAsked EXCEPT ![c] = << >>]
    BY DEF OthersStill, Still, AAsked
  <1>3. \E s \in Broker!Prefixes(AInbox[c]) : AInbox' = [AInbox EXCEPT ![c] = s]
    <2>1. AInbox[c] = Data(down[c])
      BY DEF AInbox
    <2>2. AInbox' = [AInbox EXCEPT ![c] = Data(down[c])']
      BY DEF OthersStill, Still, AInbox
    <2>. QED
      BY <2>1, <2>2
  <1>4. "asks" \notin AMode[c] /\ ("served" \in AMode[c] => AAsked[c] = << >>)
    BY DEF AMode, AAsked
  <1>. QED
    BY <1>1, <1>2, <1>3, <1>4 DEF Broker!Forget, AMode, AAsked, AInbox, Unparsed

LEMMA ExecuteMaps ==
    ASSUME NEW c \in Clients, NEW r, \A d \in Clients : UNCHANGED AbsMode(d),
           \A d \in Clients \ {c} : UNCHANGED Decode(Unparsed(d)),
           Decode(Unparsed(c)) # << >>, Head(Decode(Unparsed(c))) = r,
           Decode(Unparsed(c))' = Tail(Decode(Unparsed(c))),
           Broker!Perform(c, r)
    PROVE  Broker!Execute(c)
  <1>1. AMode' = AMode
    BY DEF AMode
  <1>2. AAsked' = [AAsked EXCEPT ![c] = Tail(AAsked[c])]
    BY DEF AAsked
  <1>3. AAsked[c] # << >> /\ Head(AAsked[c]) = r
    BY DEF AAsked
  <1>4. Broker!Perform(c, Head(AAsked[c]))
    BY <1>3
  <1>. QED
    BY <1>1, <1>2, <1>3, <1>4 DEF Broker!Execute, AMode, AAsked, AInbox, Unparsed

-----------------------------------------------------------------------------
(* The steps of the clients.                                                *)

\* The streams of a client, with their types.
LEMMA Here ==
    ASSUME IInv, NEW c \in Clients
    PROVE  /\ buf[c] \in Seq(Line) /\ up[c] \in Seq(Item) /\ WellFramed(buf[c] \o up[c])
           /\ down[c] \in Seq(Message \cup {Fin})
           /\ Data(up[c]) \in Seq(Line) /\ Unparsed(c) \in Seq(Line) /\ Paired(Unparsed(c))
           /\ cli[c] = "up" =>
                  up[c] \in Seq(Line) /\ Data(up[c]) = up[c] /\ Closed(Unparsed(c))
           /\ Data(down[c]) \in Seq(Message \cup {Fin})
  <1>1. /\ buf[c] \in Seq(Line) /\ up[c] \in Seq(Item)
        /\ WellFramed(buf[c] \o up[c])
        /\ cli[c] = "up" => EndsWhole(buf[c] \o up[c])
    BY DEF IInv, TypeOK, Item, Framing, FramedAt, Stream
  <1>2. down[c] \in Seq(Message \cup {Fin})
    <2>1. down \in [Clients -> Seq(Message \cup {Fin})]
      BY DEF IInv, TypeOK
    <2>. QED
      BY <2>1
  <1>3. Data(down[c]) \in Seq(Message \cup {Fin})
    BY <1>2, DataProperties
  <1>4. PICK s, u : s = buf[c] /\ u = up[c]
    OBVIOUS
  <1>5. /\ Data(u) \in Seq(Line) /\ s \o Data(u) \in Seq(Line) /\ Paired(s \o Data(u))
        /\ EndsWhole(s \o u) => Data(u) = u /\ u \in Seq(Line) /\ Closed(s \o u)
    BY <1>1, <1>4, UnparsedLines
  <1>. QED
    BY <1>1, <1>2, <1>3, <1>4, <1>5 DEF Unparsed

LEMMA ConnectMaps ==
    ASSUME IInv, RInv, NEW c \in Clients, Connect(c)
    PROVE  Broker!Join(c)
  <1>1. /\ cli[c] = "init" /\ cli' = [cli EXCEPT ![c] = "up"]
        /\ UNCHANGED << conn, buf, up, down, subs, content >>
    BY DEF Connect, hubVars
  <1>2. conn[c] = "idle" /\ up[c] = << >> /\ buf[c] = << >> /\ subs[c] = {} /\ down[c] = << >>
    BY <1>1 DEF RInv, Unopened
  <1>3. OthersStill(c)
    BY <1>1, Untouched DEF IInv, TypeOK, OthersStill
  <1>4. Data(<< >>) = << >>
    BY DataProperties, << >> \in Seq({}), EmptySeq
  <1>5. Unparsed(c) = << >>
    BY <1>2, <1>4, << >> \in Seq({}), ConcatEmptySeq DEF Unparsed
  <1>6. Decode(Unparsed(c)) = << >> /\ Data(down[c]) = << >>
    BY <1>2, <1>4, <1>5, DecodeShort
  <1>7. UNCHANGED << Decode(Unparsed(c)), Data(down[c]) >>
    BY <1>1 DEF Unparsed
  <1>8. cli'[c] = "up" /\ conn'[c] = "idle"
    BY <1>1, <1>2 DEF IInv, TypeOK
  <1>9. AbsMode(c) = {} /\ AbsMode(c)' = {"asks", "hears", "served"}
    BY <1>1, <1>8 DEF AbsMode
  <1>. QED
    BY <1>1, <1>2, <1>3, <1>6, <1>7, <1>9, JoinMaps

\* What a write does to the unparsed part.
LEMMA WriteMaps ==
    ASSUME IInv, NEW c \in Clients, NEW w \in Seq(Line), Write(c, w)
    PROVE  /\ OthersStill(c) /\ UNCHANGED << subs, content, AbsMode(c), Data(down[c]) >>
           /\ "asks" \in AbsMode(c)
           /\ Unparsed(c) \in Seq(Line) /\ Closed(Unparsed(c))
           /\ Unparsed(c)' = Unparsed(c) \o w
  <1>1. /\ cli[c] = "up" /\ up' = [up EXCEPT ![c] = @ \o w]
        /\ UNCHANGED << cli, conn, buf, down, subs, content >>
    BY DEF Write, hubVars
  <1>2. /\ up[c] \in Seq(Line) /\ Data(up[c]) = up[c] /\ Closed(Unparsed(c))
        /\ Unparsed(c) \in Seq(Line) /\ buf[c] \in Seq(Line)
    BY <1>1, Here
  <1>3. OthersStill(c)
    BY <1>1, Untouched DEF IInv, TypeOK, OthersStill
  <1>4. UNCHANGED << AbsMode(c), Data(down[c]) >> /\ "asks" \in AbsMode(c)
    BY <1>1 DEF AbsMode
  <1>5. PICK s, u, v : s = buf[c] /\ u = up[c] /\ v = u \o w
    OBVIOUS
  <1>6. s \in Seq(Line) /\ u \in Seq(Line) /\ v \in Seq(Line)
    BY <1>2, <1>5
  <1>7. Data(v) = v
    <2>1. v # << >> => v[Len(v)] \in Line
      BY <1>6
    <2>2. Fin \notin Line
      BY DEF Fin, Line, CommandLine, ContentLine, BadLine
    <2>. QED
      BY <1>6, <2>1, <2>2, DataProperties
  <1>8. s \o (u \o w) = (s \o u) \o w
    BY <1>6, ConcatAssociative
  <1>9. up'[c] = v /\ buf'[c] = s
    BY <1>1, <1>5 DEF IInv, TypeOK
  <1>10. Unparsed(c)' = Unparsed(c) \o w
    BY <1>2, <1>5, <1>7, <1>8, <1>9 DEF Unparsed
  <1>. QED
    BY <1>1, <1>2, <1>3, <1>4, <1>10

\* A request is asked for, unless a line without a space comes before it; a bad
\* line asks for nothing.
LEMMA RequestMaps ==
    ASSUME IInv, NEW c \in Clients
    PROVE  /\ \A r \in Request : Write(c, Encode(r)) =>
                  Broker!Ask(c, r) \/ UNCHANGED Broker!absVars
           /\ \A l \in BadLine : Write(c, << l >>) => UNCHANGED Broker!absVars
  <1>1. ASSUME NEW r \in Request, Write(c, Encode(r))
        PROVE  Broker!Ask(c, r) \/ UNCHANGED Broker!absVars
    <2>1. PICK w : w = Encode(r)
      OBVIOUS
    <2>2. w \in Seq(Line) /\ Write(c, w)
      BY <1>1, <2>1, EncodeIsWhole
    <2>3. /\ OthersStill(c) /\ UNCHANGED << subs, content, AbsMode(c), Data(down[c]) >>
          /\ "asks" \in AbsMode(c)
          /\ Unparsed(c) \in Seq(Line) /\ Closed(Unparsed(c))
          /\ Unparsed(c)' = Unparsed(c) \o w
      BY <2>2, WriteMaps
    <2>4. PICK s : s = Unparsed(c)
      OBVIOUS
    <2>5. Decode(s \o Encode(r)) = IF Spaced(s) THEN Append(Decode(s), r) ELSE Decode(s)
      BY <2>3, <2>4, WriteAdds
    <2>6. Decode(Unparsed(c))' = IF Spaced(s) THEN Append(Decode(Unparsed(c)), r)
                                              ELSE Decode(Unparsed(c))
      BY <2>1, <2>3, <2>4, <2>5
    <2>7. CASE Spaced(s)
      BY <2>3, <2>6, <2>7, AskMaps
    <2>8. CASE ~Spaced(s)
      <3>1. \A d \in Clients : Still(d)
        BY <2>3, <2>6, <2>8 DEF OthersStill, Still
      <3>. QED
        BY <2>3, <3>1, StillMaps
    <2>. QED
      BY <2>7, <2>8
  <1>2. ASSUME NEW l \in BadLine, Write(c, << l >>)
        PROVE  UNCHANGED Broker!absVars
    <2>1. PICK w : w = << l >>
      OBVIOUS
    <2>2. w \in Seq(Line) /\ Write(c, w)
      BY <1>2, <2>1 DEF Line
    <2>3. /\ OthersStill(c) /\ UNCHANGED << subs, content, AbsMode(c), Data(down[c]) >>
          /\ Unparsed(c) \in Seq(Line) /\ Closed(Unparsed(c))
          /\ Unparsed(c)' = Unparsed(c) \o w
      BY <2>2, WriteMaps
    <2>4. PICK s : s = Unparsed(c)
      OBVIOUS
    <2>5. Decode(s \o << l >>) = Decode(s)
      BY <2>3, <2>4, WriteAdds
    <2>6. Decode(Unparsed(c))' = Decode(Unparsed(c))
      BY <2>1, <2>3, <2>4, <2>5
    <2>7. \A d \in Clients : Still(d)
      BY <2>3, <2>6 DEF OthersStill, Still
    <2>. QED
      BY <2>3, <2>7, StillMaps
  <1>. QED
    BY <1>1, <1>2

LEMMA StopMaps ==
    ASSUME IInv, NEW c \in Clients, Stop(c)
    PROVE  Broker!Withdraw(c)
  <1>1. /\ cli[c] = "up" /\ cli' = [cli EXCEPT ![c] = "stopping"]
        /\ up' = [up EXCEPT ![c] = Append(@, Fin)]
        /\ UNCHANGED << conn, buf, down, subs, content >>
    BY DEF Stop, hubVars
  <1>2. up[c] \in Seq(Line) /\ Data(up[c]) = up[c] /\ up[c] \in Seq(Item) /\ Fin \in Item
    BY <1>1, Here DEF Item
  <1>3. Data(Append(up[c], Fin)) = up[c]
    BY <1>2, DataOfCut
  <1>4. /\ cli'[c] = "stopping" /\ up'[c] = Append(up[c], Fin)
        /\ \A d \in Clients \ {c} : cli'[d] = cli[d] /\ up'[d] = up[d]
    BY <1>1 DEF IInv, TypeOK
  <1>5. OthersStill(c)
    BY <1>1, <1>4, Untouched DEF OthersStill
  <1>6. AbsMode(c)' \subseteq AbsMode(c)
    BY <1>1, <1>4 DEF AbsMode
  <1>7. UNCHANGED << Decode(Unparsed(c)), Data(down[c]) >>
    BY <1>1, <1>2, <1>3, <1>4 DEF Unparsed
  <1>. QED
    BY <1>1, <1>5, <1>6, <1>7, WithdrawMaps

LEMMA OnMessageClientMaps ==
    ASSUME IInv, NEW c \in Clients, OnMessageClient(c)
    PROVE  Broker!Take(c)
  <1>1. /\ down[c] # << >> /\ Head(down[c]) # Fin
        /\ down' = [down EXCEPT ![c] = Tail(@)]
        /\ UNCHANGED << cli, conn, buf, up, subs, content >>
    BY DEF OnMessageClient, hubVars
  <1>2. down[c] \in Seq(Message \cup {Fin})
    BY Here
  <1>3. Data(down[c]) # << >> /\ Data(Tail(down[c])) = Tail(Data(down[c]))
    BY <1>1, <1>2, DataOfTail
  <1>4. down'[c] = Tail(down[c]) /\ \A d \in Clients \ {c} : down'[d] = down[d]
    BY <1>1 DEF IInv, TypeOK
  <1>5. OthersStill(c)
    BY <1>1, <1>4, Untouched DEF OthersStill
  <1>6. UNCHANGED << AbsMode(c), Decode(Unparsed(c)) >>
    BY <1>1 DEF AbsMode, Unparsed
  <1>7. Data(down[c])' = Tail(Data(down[c]))
    BY <1>3, <1>4
  <1>. QED
    BY <1>1, <1>3, <1>5, <1>6, <1>7, TakeMaps

LEMMA EndOfClientMaps ==
    ASSUME IInv, NEW c \in Clients, OnCloseClient(c) \/ Crash(c)
    PROVE  Broker!Withdraw(c)
  <1>1. /\ cli' = [cli EXCEPT ![c] = "closed"] /\ down' = [down EXCEPT ![c] = << >>]
        /\ UNCHANGED up \/ \E s \in Cuts(up[c]) : up' = [up EXCEPT ![c] = s]
        /\ UNCHANGED << conn, buf, subs, content >>
    BY DEF OnCloseClient, Crash, hubVars
  <1>2. /\ cli'[c] = "closed" /\ down'[c] = << >>
        /\ up'[c] = up[c] \/ up'[c] \in Cuts(up[c])
        /\ \A d \in Clients \ {c} : cli'[d] = cli[d] /\ up'[d] = up[d] /\ down'[d] = down[d]
    BY <1>1 DEF IInv, TypeOK
  <1>3. OthersStill(c)
    BY <1>1, <1>2, Untouched DEF OthersStill
  <1>4. /\ AbsMode(c)' \subseteq AbsMode(c)
        /\ "hears" \notin AbsMode(c)' /\ "asks" \notin AbsMode(c)'
    <2>1. AbsMode(c)' \subseteq {"served"}
      BY <1>2 DEF AbsMode
    <2>2. "served" \in AbsMode(c)' => "served" \in AbsMode(c)
      <3>1. cli[c] # "init"
        BY DEF OnCloseClient, Crash
      <3>. QED
        BY <1>1, <3>1 DEF AbsMode
    <2>. QED
      BY <2>1, <2>2
  <1>5. Data(down[c])' \in Broker!Prefixes(Data(down[c]))
    <2>1. Data(<< >>) = << >>
      BY DataProperties, << >> \in Seq({}), EmptySeq
    <2>2. << >> \in Broker!Prefixes(Data(down[c]))
      BY Here, TrivialPrefixes
    <2>. QED
      BY <1>2, <2>1, <2>2
  <1>6. \/ UNCHANGED Decode(Unparsed(c))
        \/ Decode(Unparsed(c))' \in Broker!Prefixes(Decode(Unparsed(c)))
    <2>1. CASE up'[c] = up[c]
      BY <1>1, <2>1 DEF Unparsed
    <2>2. CASE up'[c] \in Cuts(up[c])
      <3>1. PICK s, u, v : s = buf[c] /\ u = up[c] /\ v = up'[c]
        OBVIOUS
      <3>2. s \in Seq(Line) /\ u \in Seq(Item) /\ WellFramed(s \o u) /\ v \in Cuts(u)
        BY <2>2, <3>1, Here
      <3>3. Decode(s \o Data(v)) \in Broker!Prefixes(Decode(s \o Data(u)))
        BY <3>2, UnparsedCut
      <3>. QED
        BY <1>1, <3>1, <3>3 DEF Unparsed
    <2>. QED
      BY <1>2, <2>1, <2>2
  <1>. QED
    BY <1>1, <1>3, <1>4, <1>5, <1>6, WithdrawMaps

-----------------------------------------------------------------------------
(* The steps of the hub.                                                    *)

LEMMA OnConnectedMaps ==
    ASSUME IInv, RInv, NEW c \in Clients, OnConnected(c)
    PROVE  UNCHANGED Broker!absVars
  <1>1. /\ conn[c] = "idle" /\ conn' = [conn EXCEPT ![c] = "up"]
        /\ subs' = [subs EXCEPT ![c] = {}]
        /\ UNCHANGED << cli, buf, up, down, content >>
    BY DEF OnConnected, clientVars
  <1>2. subs[c] = {}
    BY <1>1 DEF RInv, Unopened
  <1>3. subs' = subs
    BY <1>1, <1>2 DEF IInv, TypeOK
  <1>4. ASSUME NEW d \in Clients PROVE Still(d)
    <2>1. conn'[d] \in {"idle", "up"} <=> conn[d] \in {"idle", "up"}
      BY <1>1 DEF IInv, TypeOK
    <2>2. UNCHANGED AbsMode(d)
      BY <1>1, <2>1 DEF AbsMode
    <2>. QED
      BY <1>1, <2>2 DEF Still, Unparsed
  <1>. QED
    BY <1>1, <1>3, <1>4, StillMaps

LEMMA OnMessageMaps ==
    ASSUME IInv, NEW c \in Clients, OnMessage(c)
    PROVE  UNCHANGED Broker!absVars
  <1>1. PICK n \in 1 .. DataLen(up[c]) :
            /\ buf' = [buf EXCEPT ![c] = Buffered(c, n)]
            /\ up' = [up EXCEPT ![c] = SubSeq(@, n + 1, Len(@))]
    BY DEF OnMessage
  <1>2. UNCHANGED << cli, conn, down, subs, content >>
    BY DEF OnMessage, clientVars
  <1>3. /\ buf'[c] = buf[c] \o SubSeq(up[c], 1, n)
        /\ up'[c] = SubSeq(up[c], n + 1, Len(up[c]))
        /\ \A d \in Clients \ {c} : buf'[d] = buf[d] /\ up'[d] = up[d]
    BY <1>1 DEF IInv, TypeOK, Buffered
  <1>4. PICK s, u : s = buf[c] /\ u = up[c]
    OBVIOUS
  <1>5. /\ s \in Seq(Line) /\ u \in Seq(Item) /\ WellFramed(s \o u) /\ n \in 1 .. DataLen(u)
    BY <1>4, Here
  <1>6. (s \o SubSeq(u, 1, n)) \o Data(SubSeq(u, n + 1, Len(u))) = s \o Data(u)
    BY <1>5, UnparsedRead
  <1>7. Unparsed(c)' = Unparsed(c)
    BY <1>3, <1>4, <1>6 DEF Unparsed
  <1>8. Still(c)
    BY <1>2, <1>7 DEF Still, AbsMode
  <1>9. \A d \in Clients \ {c} : Still(d)
    BY <1>2, <1>3, Untouched
  <1>. QED
    BY <1>2, <1>8, <1>9, StillMaps

LEMMA ParseContinueMaps ==
    ASSUME IInv, NEW c \in Clients, ParseContinue(c)
    PROVE  UNCHANGED Broker!absVars
  <1>1. UNCHANGED << cli, conn, buf, up, down, subs, content >>
    BY DEF ParseContinue, clientVars
  <1>. QED
    BY <1>1, Untouched, StillMaps

\* What is parsed goes off the front of the unparsed part.
LEMMA ParsedTakes ==
    ASSUME IInv, NEW c \in Clients, ParseResult(buf[c]) = "kSuccess",
           buf' = [buf EXCEPT ![c] = Rest(@)], up' = up
    PROVE  /\ \A d \in Clients \ {c} : Unparsed(d)' = Unparsed(d)
           /\ Decode(Unparsed(c)') \in Seq(Request)
           /\ buf[c][1].k = "unknown" => Decode(Unparsed(c)') = Decode(Unparsed(c))
           /\ buf[c][1].k \in {"sub", "unsub"} =>
                  Decode(Unparsed(c)) = << [op |-> buf[c][1].k, t |-> buf[c][1].t] >>
                                            \o Decode(Unparsed(c)')
           /\ buf[c][1].k = "pub" =>
                  Decode(Unparsed(c)) = << [op |-> "pub", t |-> buf[c][1].t, x |-> buf[c][2].x] >>
                                            \o Decode(Unparsed(c)')
  <1>1. PICK s, u : s = buf[c] /\ u = Data(up[c])
    OBVIOUS
  <1>2. s \in Seq(Line) /\ u \in Seq(Line) /\ Paired(s \o u) /\ ParseResult(s) = "kSuccess"
    BY <1>1, Here DEF Unparsed
  <1>3. /\ Rest(s) \o u \in Seq(Line)
        /\ s[1].k = "unknown" => Decode(s \o u) = Decode(Rest(s) \o u)
        /\ s[1].k \in {"sub", "unsub"} =>
               Decode(s \o u) = << [op |-> s[1].k, t |-> s[1].t] >> \o Decode(Rest(s) \o u)
        /\ s[1].k = "pub" =>
               Decode(s \o u) = << [op |-> "pub", t |-> s[1].t, x |-> s[2].x] >>
                                    \o Decode(Rest(s) \o u)
    BY <1>2, ParseTakes
  <1>4. buf'[c] = Rest(s) /\ \A d \in Clients \ {c} : buf'[d] = buf[d]
    BY <1>1 DEF IInv, TypeOK
  <1>5. Unparsed(c) = s \o u /\ Unparsed(c)' = Rest(s) \o u
    BY <1>1, <1>4 DEF Unparsed
  <1>6. \A d \in Clients \ {c} : Unparsed(d)' = Unparsed(d)
    BY <1>4 DEF Unparsed
  <1>7. Decode(Rest(s) \o u) \in Seq(Request)
    BY <1>3, DecodeType
  <1>. QED
    BY <1>1, <1>3, <1>5, <1>6, <1>7

LEMMA ParseErrorMaps ==
    ASSUME IInv, RInv, NEW c \in Clients, ParseError(c)
    PROVE  Broker!Withdraw(c)
  <1>1. /\ busy = c /\ conn' = [conn EXCEPT ![c] = IF @ = "up" THEN "closing" ELSE @]
        /\ Send({c}, Fin)
        /\ UNCHANGED << cli, up, subs, content >>
    BY DEF ParseError, Shutdown, clientVars
  <1>2. conn[c] \in {"up", "closing"}
    BY <1>1, HubAssumption DEF IInv, BusyIsLive
  <1>3. conn'[c] = "closing" /\ \A d \in Clients \ {c} : conn'[d] = conn[d]
    BY <1>1, <1>2 DEF IInv, TypeOK
  <1>4. \A d \in Clients \ {c} : down'[d] = down[d] /\ buf'[d] = buf[d]
    BY <1>1 DEF Send, ParseError, IInv, TypeOK
  <1>5. OthersStill(c)
    BY <1>1, <1>3, <1>4, Untouched DEF OthersStill
  <1>6. AbsMode(c)' \subseteq AbsMode(c)
    BY <1>1, <1>2, <1>3 DEF AbsMode
  <1>7. UNCHANGED Data(down[c])
    <2>1. CASE Listening(c)
      <3>1. down[c] \in Seq(Message)
        BY <2>1 DEF RInv, Unended, Listening
      <3>2. down[c] \in Seq(Message \cup {Fin})
        BY Here
      <3>3. Data(Append(down[c], Fin)) = down[c]
        BY <3>2, DataOfCut
      <3>4. Data(down[c]) = down[c]
        <4>1. down[c] # << >> => down[c][Len(down[c])] \in Message
          BY <3>1
        <4>2. Fin \notin Message
          BY DEF Fin, Message
        <4>. QED
          BY <3>1, <4>1, <4>2, DataProperties
      <3>5. down'[c] = Append(down[c], Fin)
        BY <1>1, <2>1 DEF Send
      <3>. QED
        BY <3>3, <3>4, <3>5
    <2>2. CASE ~Listening(c)
      BY <1>1, <2>2 DEF Send
    <2>. QED
      BY <2>1, <2>2
  <1>8. UNCHANGED Decode(Unparsed(c))
    <2>1. CASE UNCHANGED buf
      BY <1>1, <2>1 DEF Unparsed
    <2>2. CASE /\ ParseResult(buf[c]) = "kSuccess" /\ buf[c][1].k = "unknown"
               /\ buf' = [buf EXCEPT ![c] = Rest(@)]
      BY <1>1, <2>2, ParsedTakes
    <2>. QED
      BY <2>1, <2>2 DEF ParseError
  <1>. QED
    BY <1>1, <1>5, <1>6, <1>7, <1>8, WithdrawMaps

\* A message sent to connections the hub has is told to those who still hear.
LEMMA SendMaps ==
    ASSUME IInv, RInv, NEW cs, NEW t \in Topics, NEW x \in Contents,
           \A d \in Clients : d \in cs => conn[d] \in {"up", "closing"},
           Send(cs, [t |-> t, x |-> x])
    PROVE  Broker!Tell(cs, t, x)
  <1>1. PICK m : m = [t |-> t, x |-> x]
    OBVIOUS
  <1>2. m \in Message
    BY <1>1 DEF Message
  <1>3. ASSUME NEW d \in Clients
        PROVE  Data(down[d])' = IF d \in cs /\ "hears" \in AbsMode(d)
                                THEN Append(Data(down[d]), m) ELSE Data(down[d])
    <2>1. cli[d] \in {"init", "up", "stopping", "closed"}
      BY DEF IInv, TypeOK
    <2>2. cli[d] = "init" => conn[d] = "idle"
      BY DEF RInv, Unopened
    <2>3. d \in cs => ("hears" \in AbsMode(d) <=> Listening(d))
      BY <2>1, <2>2 DEF AbsMode, Listening
    <2>4. CASE d \in cs /\ Listening(d)
      <3>1. PICK q : q = down[d]
        OBVIOUS
      <3>2. q \in Seq(Message)
        BY <2>4, <3>1 DEF RInv, Unended, Listening
      <3>3. \A s \in Seq(Message) : Data(s) = s
        <4>1. SUFFICES ASSUME NEW s \in Seq(Message) PROVE Data(s) = s
          OBVIOUS
        <4>2. s # << >> => s[Len(s)] \in Message
          OBVIOUS
        <4>3. Fin \notin Message
          BY DEF Fin, Message
        <4>. QED
          BY <4>2, <4>3, DataProperties
      <3>4. Append(q, m) \in Seq(Message)
        BY <1>2, <3>2, AppendProperties
      <3>5. down'[d] = Append(q, m)
        BY <1>1, <2>4, <3>1 DEF Send
      <3>. QED
        BY <2>3, <2>4, <3>1, <3>2, <3>3, <3>4, <3>5
    <2>5. CASE ~(d \in cs /\ Listening(d))
      <3>1. down'[d] = down[d]
        BY <2>5 DEF Send
      <3>. QED
        BY <2>3, <2>5, <3>1
    <2>. QED
      BY <2>4, <2>5
  <1>4. AInbox' = [d \in Clients |-> IF d \in cs /\ "hears" \in AMode[d]
                                     THEN Append(AInbox[d], [t |-> t, x |-> x]) ELSE AInbox[d]]
    BY <1>1, <1>3 DEF AInbox, AMode
  <1>. QED
    BY <1>4 DEF Broker!Tell, AMode, AInbox

LEMMA RequestIsPerformed ==
    ASSUME IInv, RInv, NEW c \in Clients, DoSubscribe(c) \/ DoUnsubscribe(c) \/ DoPublish(c)
    PROVE  Broker!Execute(c)
  <1>1. /\ ParseResult(buf[c]) = "kSuccess" /\ buf' = [buf EXCEPT ![c] = Rest(@)]
        /\ busy = c /\ UNCHANGED << cli, conn, up >>
    BY DEF DoSubscribe, DoUnsubscribe, DoPublish, Parsed, clientVars
  <1>2. PICK e, x : e = buf[c][1] /\ x = buf[c][2].x
    OBVIOUS
  <1>3. e.k \in {"sub", "unsub", "pub"} /\ e.t \in Topics /\ (e.k = "pub" => x \in Contents)
    <2>1. e.k \in {"sub", "unsub", "pub"}
      BY <1>2 DEF DoSubscribe, DoUnsubscribe, DoPublish, Parsed
    <2>. QED
      BY <1>1, <1>2, <2>1, RequestParts
  <1>4. PICK t : t = e.t
    OBVIOUS
  <1>5. PICK r : r = IF e.k = "pub" THEN [op |-> "pub", t |-> t, x |-> x] ELSE [op |-> e.k, t |-> t]
    OBVIOUS
  <1>6. PICK q : q = Decode(Unparsed(c)')
    OBVIOUS
  <1>7. /\ q \in Seq(Request) /\ Decode(Unparsed(c)) = << r >> \o q
        /\ \A d \in Clients \ {c} : Unparsed(d)' = Unparsed(d)
    BY <1>1, <1>2, <1>3, <1>4, <1>5, <1>6, ParsedTakes
  <1>8. << r >> \o q # << >> /\ Head(<< r >> \o q) = r /\ Tail(<< r >> \o q) = q
    <2>1. r \in Request
      BY <1>3, <1>4, <1>5 DEF Request
    <2>. QED
      BY <1>7, <2>1
  <1>9. \A d \in Clients : UNCHANGED AbsMode(d)
    BY <1>1 DEF AbsMode
  <1>10. conn[c] \in {"up", "closing"}
    BY <1>1, HubAssumption DEF IInv, BusyIsLive
  <1>11. Broker!Perform(c, r)
    <2>1. CASE DoSubscribe(c)
      <3>1. /\ e.k = "sub" /\ subs' = [subs EXCEPT ![c] = @ \cup {t}]
            /\ SendRetained(c, t) /\ UNCHANGED content
        BY <1>2, <1>4, <2>1 DEF DoSubscribe, Parsed
      <3>2. CASE content[t] # Never
        <4>1. content[t] \in Contents
          BY <1>3, <1>4, <3>2 DEF IInv, TypeOK
        <4>2. Broker!Tell({c}, t, content[t])
          BY <1>3, <1>4, <1>10, <3>1, <3>2, <4>1, SendMaps DEF SendRetained
        <4>. QED
          BY <1>5, <3>1, <3>2, <4>2 DEF Broker!Perform
      <3>3. CASE content[t] = Never
        <4>1. AInbox' = AInbox
          BY <3>1, <3>3 DEF SendRetained, AInbox
        <4>. QED
          BY <1>5, <3>1, <3>3, <4>1 DEF Broker!Perform, AInbox
      <3>. QED
        BY <3>2, <3>3
    <2>2. CASE DoUnsubscribe(c)
      <3>1. /\ e.k = "unsub" /\ subs' = [subs EXCEPT ![c] = @ \ {t}]
            /\ UNCHANGED << content, down >>
        BY <1>2, <1>4, <2>2 DEF DoUnsubscribe, Parsed, ContextWithout
      <3>2. AInbox' = AInbox
        BY <3>1 DEF AInbox
      <3>. QED
        BY <1>5, <3>1, <3>2 DEF Broker!Perform, AInbox
    <2>3. CASE DoPublish(c)
      <3>1. /\ e.k = "pub" /\ content' = [content EXCEPT ![t] = x]
            /\ Send(audience[t], [t |-> t, x |-> x]) /\ UNCHANGED subs
        BY <1>2, <1>4, <2>3 DEF DoPublish, Parsed
      <3>2. audience[t] = {d \in Clients : t \in subs[d]}
        BY <1>3, <1>4 DEF IInv, TypeOK, AudienceIsContext
      <3>3. \A d \in Clients : d \in audience[t] => conn[d] \in {"up", "closing"}
        BY <1>3, <1>4 DEF IInv, NoDeadAudience
      <3>4. Broker!Tell(audience[t], t, x)
        BY <1>3, <1>4, <3>1, <3>3, SendMaps
      <3>. QED
        BY <1>5, <3>1, <3>2, <3>4 DEF Broker!Perform
    <2>. QED
      BY <2>1, <2>2, <2>3
  <1>12. Decode(Unparsed(c))' = q /\ \A d \in Clients \ {c} : UNCHANGED Decode(Unparsed(d))
    BY <1>6, <1>7
  <1>. QED
    BY <1>7, <1>8, <1>9, <1>11, <1>12, ExecuteMaps

LEMMA OnDisconnectedMaps ==
    ASSUME IInv, RInv, NEW c \in Clients, OnDisconnected(c)
    PROVE  Broker!Forget(c)
  <1>1. /\ busy = NoOne /\ conn[c] \in {"up", "closing"} /\ up[c] # << >> /\ Head(up[c]) = Fin
        /\ conn' = [conn EXCEPT ![c] = "gone"] /\ subs' = [subs EXCEPT ![c] = {}]
        /\ buf' = [buf EXCEPT ![c] = << >>] /\ up' = [up EXCEPT ![c] = << >>]
        /\ UNCHANGED down \/ \E s \in Cuts(down[c]) : down' = [down EXCEPT ![c] = s]
        /\ UNCHANGED << cli, content >>
    BY DEF OnDisconnected, clientVars
  <1>2. /\ conn'[c] = "gone" /\ buf'[c] = << >> /\ up'[c] = << >>
        /\ down'[c] = down[c] \/ down'[c] \in Cuts(down[c])
        /\ \A d \in Clients \ {c} : /\ conn'[d] = conn[d] /\ buf'[d] = buf[d]
                                    /\ up'[d] = up[d] /\ down'[d] = down[d]
    BY <1>1 DEF IInv, TypeOK
  <1>3. OthersStill(c)
    BY <1>1, <1>2, Untouched DEF OthersStill
  <1>4. cli[c] # "up"
    <2>1. SUFFICES ASSUME cli[c] = "up" PROVE FALSE
      OBVIOUS
    <2>2. up[c] \in Seq(Line)
      BY <2>1, Here
    <2>3. up[c][1] \in Line /\ up[c][1] = Fin
      BY <1>1, <2>2
    <2>. QED
      BY <2>3 DEF Fin, Line, CommandLine, ContentLine, BadLine
  <1>5. "asks" \notin AbsMode(c) /\ AbsMode(c)' = {}
    BY <1>1, <1>2, <1>4 DEF AbsMode
  <1>6. Data(<< >>) = << >>
    BY DataProperties, << >> \in Seq({}), EmptySeq
  <1>7. "served" \in AbsMode(c) => Decode(Unparsed(c)) = << >>
    <2>1. SUFFICES ASSUME "served" \in AbsMode(c) PROVE Decode(Unparsed(c)) = << >>
      OBVIOUS
    <2>2. NeedsMore(buf[c])
      BY <1>1, <2>1, HubAssumption DEF AbsMode, RInv, Drained
    <2>3. buf[c] \in Seq(Line) /\ up[c] \in Seq(Item) /\ WellFramed(buf[c] \o up[c])
      BY Here
    <2>4. Data(up[c]) = << >>
      <3>1. Len(up[c]) = 1
        <4>1. PICK b, u : b = buf[c] /\ u = up[c]
          OBVIOUS
        <4>2. b \in Seq(Item) /\ u \in Seq(Item) /\ u # << >>
          BY <1>1, <2>3, <4>1 DEF Item
        <4>3. PICK m \in Nat, n \in Nat : m = Len(b) /\ n = Len(u)
          BY <4>2
        <4>4. PICK w : w = b \o u
          OBVIOUS
        <4>5. Len(w) = m + n /\ \A i \in 1 .. m + n : w[i] = IF i <= m THEN b[i] ELSE u[i - m]
          BY <4>2, <4>3, <4>4, ConcatProperties
        <4>6. u[1] = Fin /\ n # 0
          BY <1>1, <4>1, <4>2, <4>3, EmptySeq
        <4>7. WellFramed(w)
          BY <2>3, <4>1, <4>4
        <4>8. m + 1 \in 1 .. m + n /\ ~(m + 1 <= m) /\ (m + 1) - m = 1
          BY <4>6
        <4>9. w[m + 1].k = "fin"
          BY <4>5, <4>6, <4>8 DEF Fin
        <4>10. m + 1 \notin 1 .. Len(w) - 1
          BY <4>7, <4>9 DEF WellFramed, Fits
        <4>11. n = 1
          BY <4>5, <4>6, <4>10
        <4>. QED
          BY <4>1, <4>3, <4>11
      <3>2. up[c][1] = Fin
        BY <1>1
      <3>3. DataLen(up[c]) = 0
        BY <1>1, <3>1, <3>2 DEF DataLen
      <3>. QED
        BY <2>3, <3>3, SubSeqEmpty DEF Data
    <2>5. Unparsed(c) = buf[c]
      BY <2>3, <2>4, ConcatEmptySeq DEF Unparsed
    <2>. QED
      BY <2>2, <2>3, <2>5, WaitingIsEmpty
  <1>8. Decode(Unparsed(c))' = << >>
    <2>1. Unparsed(c)' = << >>
      BY <1>2, <1>6, << >> \in Seq({}), ConcatEmptySeq DEF Unparsed
    <2>. QED
      BY <2>1, DecodeShort
  <1>9. Data(down[c])' \in Broker!Prefixes(Data(down[c]))
    <2>1. CASE down'[c] = down[c]
      BY <2>1, Here, TrivialPrefixes
    <2>2. CASE down'[c] \in Cuts(down[c])
      <3>1. PICK s, v : s = down[c] /\ v = down'[c]
        OBVIOUS
      <3>2. PICK A : A = Message \cup {Fin}
        OBVIOUS
      <3>3. Fin \in A /\ s \in Seq(A) /\ v \in Cuts(s)
        BY <2>2, <3>1, <3>2, Here
      <3>. QED
        BY <3>1, <3>3, InboxPrefix
    <2>. QED
      BY <1>2, <2>1, <2>2
  <1>. QED
    BY <1>1, <1>3, <1>5, <1>7, <1>8, <1>9, ForgetMaps

-----------------------------------------------------------------------------

LEMMA InitMaps == Init => Broker!Init
  <1> SUFFICES ASSUME Init PROVE Broker!Init
    OBVIOUS
  <1>1. Data(<< >>) = << >>
    BY DataProperties, << >> \in Seq({}), EmptySeq
  <1>2. << >> \o << >> = << >>
    BY << >> \in Seq({}), ConcatEmptySeq
  <1>3. \A c \in Clients : AbsMode(c) = {}
    BY DEF Init, AbsMode
  <1>4. \A c \in Clients : Decode(Unparsed(c)) = << >> /\ Data(down[c]) = << >>
    BY <1>1, <1>2, DecodeShort DEF Init, Unparsed
  <1>. QED
    BY <1>3, <1>4 DEF Init, Broker!Init, Unparsed

LEMMA NextMaps == IInv /\ RInv /\ [Next]_vars => [Broker!Next]_(Broker!absVars)
  <1> SUFFICES ASSUME IInv, RInv, [Next]_vars PROVE Broker!Next \/ UNCHANGED Broker!absVars
    OBVIOUS
  <1>1. CASE UNCHANGED vars
    <2>1. UNCHANGED << cli, conn, buf, up, down, subs, content >>
      BY <1>1 DEF vars, clientVars, hubVars
    <2>. QED
      BY <2>1, Untouched, StillMaps
  <1>2. CASE Next
    <2>1. PICK c \in Clients : ClientStep(c) \/ HubStep(c)
      BY <1>2 DEF Next
    <2>2. CASE Connect(c)
      BY <2>2, ConnectMaps DEF Broker!Next
    <2>3. CASE \/ \E t \in Topics : Subscribe(c, t) \/ Unsubscribe(c, t)
               \/ \E t \in Topics, x \in Contents : Publish(c, t, x)
      <3>1. PICK r \in Request : Write(c, Encode(r))
        BY <2>3 DEF Subscribe, Unsubscribe, Publish, Request
      <3>2. r \in Broker!Requests
        BY DEF Request, Broker!Requests
      <3>. QED
        BY <3>1, <3>2, RequestMaps DEF Broker!Next
    <2>4. CASE \E l \in BadLine : WriteBad(c, l)
      BY <2>4, RequestMaps DEF WriteBad
    <2>5. CASE Stop(c)
      BY <2>5, StopMaps DEF Broker!Next
    <2>6. CASE OnMessageClient(c)
      BY <2>6, OnMessageClientMaps DEF Broker!Next
    <2>7. CASE OnCloseClient(c) \/ Crash(c)
      BY <2>7, EndOfClientMaps DEF Broker!Next
    <2>8. CASE OnConnected(c)
      BY <2>8, OnConnectedMaps
    <2>9. CASE OnMessage(c)
      BY <2>9, OnMessageMaps
    <2>10. CASE ParseContinue(c)
      BY <2>10, ParseContinueMaps
    <2>11. CASE ParseError(c)
      BY <2>11, ParseErrorMaps DEF Broker!Next
    <2>12. CASE DoSubscribe(c) \/ DoUnsubscribe(c) \/ DoPublish(c)
      BY <2>12, RequestIsPerformed DEF Broker!Next
    <2>13. CASE OnDisconnected(c)
      BY <2>13, OnDisconnectedMaps DEF Broker!Next
    <2>. QED
      BY <2>1, <2>2, <2>3, <2>4, <2>5, <2>6, <2>7, <2>8, <2>9, <2>10, <2>11, <2>12, <2>13
         DEF ClientStep, HubStep, OnMessageTurn
  <1>. QED
    BY <1>1, <1>2

\* The hub implements the broker: whoever connects, stops or dies, and however
\* TCP cuts the streams, a client's requests are executed in the order it made
\* them, each once, a publication goes to everyone subscribed at that moment,
\* once, and only a client that leaves or is turned away loses anything, a tail
\* of it (hub.cc onMessage and onConnection, codec.h parseMessage).
THEOREM HubImplementsBroker == Spec => ImplementsBroker
  <1>. QED
    BY InitMaps, NextMaps, IInvAlways, RInvAlways, PTL DEF Spec, ImplementsBroker, Broker!Spec
=============================================================================
