----------------------------- MODULE EpollNest -----------------------------
(***************************************************************************)
(* epoll files inside epoll files: EPOLL_CTL_ADD and EPOLL_CTL_DEL of      *)
(* several threads on a graph of eventpolls, with the checks that keep it  *)
(* free of loops and of files with too many wake-up paths.                 *)
(*                                                                         *)
(* An eventpoll is a number, its place in the address order that           *)
(* ep_cmp_ffd gives to ep->rbr.                                            *)
(***************************************************************************)
EXTENDS Integers, Sequences, SequencesExt, FiniteSets, FiniteSetsExt

CONSTANTS Adders, NoAdder, Plain,
          EpCount,    \* bound: how many eventpolls there are
          MaxNests,   \* EP_MAX_NESTS
          PathLimit,  \* path_limits, but for the paths of length 1
          MaxOps      \* bound: how many calls of epoll_ctl

Eps == 1 .. EpCount

NestAssumption ==
    /\ EpCount \in Nat /\ MaxNests \in Nat /\ MaxOps \in Nat
    /\ NoAdder \notin Adders
    /\ Plain \cap Eps = {} /\ 0 \notin Plain

VARIABLES links,    \* << e, f >>: eventpoll e watches f
          epmutex,  \* who holds the global mutex
          call,     \* the ADD of each of Adders that needs it, << e, f >>
          walk,     \* what the ADD that has it is doing
          ops

(* frames are the calls of ep_loop_check_proc in progress, each of an eventpoll and at
   an item of its rbr; visited and tfiles are visited_list and tfile_check_list; linked,
   that the new item is in, and is being checked for its paths.             *)
vars   == << links, epmutex, call, walk, ops >>
NoCall == << 0, 0 >>
NoWalk == [frames |-> << >>, visited |-> {}, tfiles |-> {}, linked |-> FALSE]

TypeOK ==
    /\ links \subseteq Eps \X (Eps \cup Plain)
    /\ epmutex \in Adders \cup {NoAdder}
    /\ call \in [Adders -> (Eps \X (Eps \cup Plain)) \cup {NoCall}]
    /\ walk \in [frames : Seq([ep : Eps, at : 0 .. EpCount]), visited : SUBSET Eps,
                 tfiles : SUBSET Plain, linked : BOOLEAN]
    /\ ops \in 0 .. MaxOps

Init ==
    /\ links = {} /\ epmutex = NoAdder /\ call = [t \in Adders |-> NoCall]
    /\ walk = NoWalk /\ ops = 0

\* f->f_ep_links, and ep->rbr.
Inside(f)  == {e \in Eps : << e, f >> \in links}
Watched(e) == {f \in Eps \cup Plain : << e, f >> \in links}

\* Whose ep->mtx an ADD under epmutex holds: each call of the walk its own until it
\* returns, the insertion those of both ends.
Locked ==
    {walk.frames[k].ep : k \in DOMAIN walk.frames}
    \cup IF walk.linked THEN Range(call[epmutex]) ELSE {}

\* A call of epoll_ctl.
Call == ops < MaxOps /\ ops' = ops + 1

-----------------------------------------------------------------------------
(* EPOLL_CTL_ADD of f to eventpoll e.                                       *)

\* Where neither end is nested: all under ep->mtx.
AddPlain(e, f) ==
    /\ Call /\ e \notin Locked /\ f \in Plain /\ Inside(e) = {}
    /\ links' = links \cup {<< e, f >>}
    /\ UNCHANGED << epmutex, call, walk >>

\* Otherwise ep->mtx is dropped again, for epmutex.
AddNested(t, e, f) ==
    /\ Call /\ call[t] = NoCall /\ e \notin Locked /\ e # f
    /\ f \in Eps \/ Inside(e) # {}
    /\ call' = [call EXCEPT ![t] = << e, f >>]
    /\ UNCHANGED << links, epmutex, walk >>

\* epmutex is there. ep_loop_check calls ep_loop_check_proc for f; if f is no eventpoll
\* it is the only file to check.
AddCheck(t) ==
    LET f == call[t][2]
    IN  /\ call[t] # NoCall /\ epmutex = NoAdder /\ epmutex' = t
        /\ walk' = IF f \in Plain THEN [NoWalk EXCEPT !.tfiles = {f}]
                   ELSE [frames |-> << [ep |-> f, at |-> 0] >>, visited |-> {f},
                         tfiles |-> Watched(f) \cap Plain, linked |-> FALSE]
        /\ UNCHANGED << links, call, ops >>

\* The ADD is over: epmutex is given back and tfile_check_list cleared.
Leave(t) ==
    /\ epmutex' = NoAdder /\ walk' = NoWalk /\ call' = [call EXCEPT ![t] = NoCall]

\* Mutant: the walk does not know the eventpoll it started for.
OnlyTooDeep(i) == Len(walk.frames) > MaxNests

\* ep_call_nested: the cookie of a call in progress, the first one's being the
\* eventpoll that is added to, or too many of them.
Refused(i) ==
    \/ i = call[epmutex][1] \/ \E k \in 2 .. Len(walk.frames) : walk.frames[k].ep = i
    \/ Len(walk.frames) > MaxNests

\* The eventpolls that the innermost loop has before it.
Ahead == {i \in Watched(Last(walk.frames).ep) \cap Eps :
             i > Last(walk.frames).at /\ i \notin walk.visited}

\* The loop comes to an eventpoll that was not visited: ep_loop_check_proc for it, or
\* the end of the walk with an error.
WalkInto(t) ==
    LET i == Min(Ahead)
    IN  /\ epmutex = t /\ walk.frames # << >> /\ Ahead # {}
        /\ IF Refused(i) THEN Leave(t)
           ELSE /\ walk' = [walk EXCEPT
                       !.frames = Append([@ EXCEPT ![Len(@)].at = i], [ep |-> i, at |-> 0]),
                       !.visited = @ \cup {i},
                       !.tfiles = @ \cup (Watched(i) \cap Plain)]
                /\ UNCHANGED << epmutex, call >>
        /\ UNCHANGED << links, ops >>

\* The innermost loop is through.
WalkBack(t) ==
    /\ epmutex = t /\ walk.frames # << >> /\ Ahead = {}
    /\ walk' = [walk EXCEPT !.frames = Front(@)]
    /\ UNCHANGED << links, epmutex, call, ops >>

\* After the walk, under both ep->mtx: the item is inserted if there is none.
AddInsert(t) ==
    /\ epmutex = t /\ walk.frames = << >> /\ ~walk.linked
    /\ IF call[t] \in links THEN Leave(t) /\ UNCHANGED links
       ELSE /\ links' = links \cup {call[t]}
            /\ walk' = [walk EXCEPT !.linked = TRUE]
            /\ UNCHANGED << epmutex, call >>
    /\ UNCHANGED ops

-----------------------------------------------------------------------------
\* reverse_path_check_proc: the ways up from f that end, n eventpolls further
\* than the first, at one that is in no other.
Paths(graph, f, n) ==
    LET Outer(g) == {e \in Eps : << e, g >> \in graph}
        ends[k \in 0 .. n + 1, g \in Eps \cup Plain] ==
            IF k = 0 THEN IF Outer(g) = {} THEN 1 ELSE 0
            ELSE MapThenSumSet(LAMBDA e : ends[k - 1, e], Outer(g))
    IN  ends[n + 1, f]

Above(graph, S, n) ==
    LET up[k \in 0 .. n] ==
            IF k = 0 THEN S ELSE {e \in Eps : \E f \in up[k - 1] : << e, f >> \in graph}
    IN  up[n]

\* reverse_path_check of one file: path_count_inc does not count the paths of length
\* 1, and ep_call_nested refuses to go up further than MaxNests.
TooManyPaths(f) ==
    \/ \E n \in 1 .. MaxNests : Paths(links, f, n) > PathLimit[n]
    \/ Above(links, {f}, MaxNests + 2) # {}

\* File by file, the new item in place; with too many paths from one it is taken out.
AddPaths(t) ==
    /\ epmutex = t /\ walk.linked
    /\ \E f \in walk.tfiles :
           IF TooManyPaths(f) THEN Leave(t) /\ links' = links \ {call[t]}
           ELSE /\ walk' = [walk EXCEPT !.tfiles = @ \ {f}]
                /\ UNCHANGED << links, epmutex, call >>
    /\ UNCHANGED ops

AddDone(t) ==
    /\ epmutex = t /\ walk.linked /\ walk.tfiles = {} /\ Leave(t)
    /\ UNCHANGED << links, ops >>

-----------------------------------------------------------------------------
\* EPOLL_CTL_DEL, under ep->mtx alone.
Del(e, f) ==
    /\ Call /\ e \notin Locked /\ << e, f >> \in links
    /\ links' = links \ {<< e, f >>}
    /\ UNCHANGED << epmutex, call, walk >>

\* The last reference to eventpoll e goes: eventpoll_release_file and ep_free, under
\* epmutex. A call holds references to both its files.
Close(e) ==
    /\ Call /\ epmutex = NoAdder /\ \A t \in Adders : e \notin Range(call[t])
    /\ \E l \in links : e \in Range(l)
    /\ links' = {l \in links : e \notin Range(l)}
    /\ UNCHANGED << epmutex, call, walk >>

Next ==
    \/ \E e \in Eps, f \in Plain : AddPlain(e, f)
    \/ \E t \in Adders, e \in Eps, f \in Eps \cup Plain : AddNested(t, e, f)
    \/ \E t \in Adders : \/ AddCheck(t) \/ WalkInto(t) \/ WalkBack(t)
                         \/ AddInsert(t) \/ AddPaths(t) \/ AddDone(t)
    \/ \E e \in Eps, f \in Eps \cup Plain : Del(e, f)
    \/ \E e \in Eps : Close(e)

Spec == Init /\ [][Next]_vars

-----------------------------------------------------------------------------
(* Properties.                                                              *)

\* No eventpoll is inside itself, whatever threads add and delete while one of them
\* walks down its links and before it inserts: a wake-up would run round the loop, and
\* a poll of one of them would take its own mutex again.
Acyclic == \A e \in Eps : \A n \in 1 .. EpCount : e \notin Above(links, {e}, n)
=============================================================================
