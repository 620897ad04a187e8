------------------------------ MODULE Zmalloc ------------------------------
(***************************************************************************)
(* zmalloc.c over the C library: the size of a block is written in front   *)
(* of it, and used_memory counts what is allocated.  The count is atomic;  *)
(* a call that allocates, resizes or frees is not, so threads see the      *)
(* count and the heap apart by what the calls under way still owe.         *)
(***************************************************************************)
EXTENDS Integers, FiniteSetsExt

CONSTANTS Threads, Blocks,
          Sizes,        \* sizes asked for
          PREFIX_SIZE,  \* sizeof(size_t)
          Long          \* sizeof(long)

VARIABLES
    heap,         \* the size in front of each block; Nothing when it is free
    used_memory,
    call,         \* the call a thread is in: the next step and its variables
    aborted       \* zmalloc_default_oom was called

vars == << heap, used_memory, call, aborted >>

Nothing == -1
NoCall  == [at |-> "none", b |-> 0, size |-> 0, oldsize |-> 0]

TypeOK ==
    /\ heap \in [Blocks -> Nat \cup {Nothing}] /\ used_memory \in Int
    /\ \A t \in Threads : call[t].at \in {"none", "alloc", "shrink", "grow", "free"}
    /\ aborted \in BOOLEAN

Init ==
    /\ heap = [b \in Blocks |-> Nothing] /\ used_memory = 0
    /\ call = [t \in Threads |-> NoCall] /\ aborted = FALSE

\* update_zmalloc_stat_alloc, update_zmalloc_stat_free: what is counted is the
\* argument itself; the padded size that the macros work out is not used.
Counted(n)     == used_memory + n
Uncounted(n)   == used_memory - n

\* A block that a call is about belongs to that call.
Available(b) == \A t \in Threads : call[t].at = "none" \/ call[t].b # b
Idle(t)      == ~aborted /\ call[t].at = "none"

\* The C library has no memory: the default handler ends the program.
OutOfMemory == aborted' = TRUE /\ UNCHANGED << heap, used_memory, call >>

\* zmalloc: malloc and the size in front, and then the count.
Malloc(t, size) ==
    /\ Idle(t)
    /\ \/ OutOfMemory
       \/ \E b \in Blocks :
            /\ heap[b] = Nothing
            /\ heap' = [heap EXCEPT ![b] = size]
            /\ call' = [call EXCEPT ![t] = [at |-> "alloc", b |-> b, size |-> size, oldsize |-> 0]]
            /\ UNCHANGED << used_memory, aborted >>

\* zcalloc does the same, and so does zstrdup for the string and its end.
Calloc(t, size) == Malloc(t, size)
Strdup(t, len)  == Malloc(t, len + 1)

CountAlloc(t) ==
    /\ call[t].at = "alloc" /\ ~aborted
    /\ used_memory' = Counted(call[t].size + PREFIX_SIZE)
    /\ call' = [call EXCEPT ![t] = NoCall]
    /\ UNCHANGED << heap, aborted >>

\* zrealloc: realloc may move the block. (For NULL it is zmalloc.)
Realloc(t, b, size) ==
    /\ Idle(t) /\ heap[b] # Nothing /\ Available(b)
    /\ \/ OutOfMemory
       \/ \E c \in Blocks :
            /\ c = b \/ heap[c] = Nothing
            /\ heap' = [heap EXCEPT ![b] = Nothing, ![c] = size]
            /\ call' = [call EXCEPT ![t] = [at |-> "shrink", b |-> c, size |-> size,
                                            oldsize |-> heap[b]]]
            /\ UNCHANGED << used_memory, aborted >>

\* Mutant: the prefix is taken off with the old size and not put back.
OldWithPrefix(t) == Uncounted(call[t].oldsize + PREFIX_SIZE)

\* The old size goes off the count first.
OldSizeOff(t) == Uncounted(call[t].oldsize)

CountShrink(t) ==
    /\ call[t].at = "shrink" /\ ~aborted
    /\ used_memory' = OldSizeOff(t)
    /\ call' = [call EXCEPT ![t].at = "grow"]
    /\ UNCHANGED << heap, aborted >>

CountGrow(t) ==
    /\ call[t].at = "grow" /\ ~aborted
    /\ used_memory' = Counted(call[t].size)
    /\ call' = [call EXCEPT ![t] = NoCall]
    /\ UNCHANGED << heap, aborted >>

\* zfree: the count first, and then free.
Free(t, b) ==
    /\ Idle(t) /\ heap[b] # Nothing /\ Available(b)
    /\ used_memory' = Uncounted(heap[b] + PREFIX_SIZE)
    /\ call' = [call EXCEPT ![t] = [at |-> "free", b |-> b, size |-> 0, oldsize |-> heap[b]]]
    /\ UNCHANGED << heap, aborted >>

LibcFree(t) ==
    /\ call[t].at = "free" /\ ~aborted
    /\ heap' = [heap EXCEPT ![call[t].b] = Nothing]
    /\ call' = [call EXCEPT ![t] = NoCall]
    /\ UNCHANGED << used_memory, aborted >>

Next ==
    \E t \in Threads :
        \/ \E n \in Sizes : Malloc(t, n) \/ Calloc(t, n) \/ Strdup(t, n)
        \/ \E b \in Blocks, n \in Sizes : Realloc(t, b, n)
        \/ \E b \in Blocks : Free(t, b)
        \/ CountAlloc(t) \/ CountShrink(t) \/ CountGrow(t) \/ LibcFree(t)

Spec == Init /\ [][Next]_vars

-----------------------------------------------------------------------------

Live == {b \in Blocks : heap[b] # Nothing}

\* zmalloc_size: the block with its padding, and the prefix.
zmalloc_size(b) ==
    LET padding == IF heap[b] % Long = 0 THEN 0 ELSE Long - (heap[b] % Long)
    IN  heap[b] + padding + PREFIX_SIZE

\* What a live block counts for.
CountOf(b) == heap[b] + PREFIX_SIZE

\* What the call of t has still to add to the count, or the library to give back.
Owes(t) ==
    CASE call[t].at = "alloc"  -> call[t].size + PREFIX_SIZE
      [] call[t].at = "shrink" -> call[t].size - call[t].oldsize
      [] call[t].at = "grow"   -> call[t].size
      [] call[t].at = "free"   -> call[t].oldsize + PREFIX_SIZE
      [] OTHER                 -> 0

\* However the calls of several threads interleave, the count is that of the live blocks
\* but for what the calls under way owe, and it never wraps below zero on the way;
\* zmalloc_size never says less of them than was counted.
UsedIsLive ==
    /\ used_memory + MapThenSumSet(Owes, Threads)
           = MapThenSumSet(CountOf, Live)
    /\ used_memory >= 0
    /\ (\A t \in Threads : call[t].at = "none")
           => used_memory <= MapThenSumSet(zmalloc_size, Live)
=============================================================================
